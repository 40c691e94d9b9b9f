----------------------- MODULE PeripheralManagerProofs -----------------------
(***************************************************************************)
(* That four reboots set up any set of peripherals, whatever they, the     *)
(* host and its boot files are at first.                                   *)
(***************************************************************************)
EXTENDS PeripheralManager, SequenceTheorems, TLAPS

Audio == {"pulse", "speaker1", "speaker2"}

TypeInv ==
  /\ host \in {"pi_top", "pi_top_3", "pi_top_4"}
  /\ attached \subseteq Peripheral /\ seen \subseteq Peripheral
  /\ list \in Seq(Peripheral)
  /\ pc \in {"scan", "purge", "enable"} /\ index \in Nat \ {0}
  /\ pc = "enable" => index = 1 \/ index \in DOMAIN AddressOrder
  /\ boot \in BootFiles
  /\ i2sNow \in BOOLEAN /\ configured \in BOOLEAN /\ due \in BOOLEAN
  /\ reboots \in 0..CountTo

\* I2S changed in the boot files waits for a reboot.
ChangeIsDue == boot.i2s # i2sNow => due

\* Of the audio peripherals that the host knows a pass takes the first.
Sounds(p) == p \in attached \cap Audio /\ ~Ignored(p)

First(p) ==
  \E k \in DOMAIN AddressOrder :
    AddressOrder[k] = p /\ Sounds(p) /\ \A j \in 1..k - 1 : ~Sounds(AddressOrder[j])

\* In a session that began with the peripherals as they are, nothing but that one
\* is enabled, and it is enabled before others come to their turn.
Heard == \E p \in ToSet(list) : p \in Audio

Session ==
  /\ ToSet(list) \subseteq attached
  /\ seen \in {{}, attached} /\ (pc # "scan" => seen = attached)
  /\ \A p \in ToSet(list) \cap Audio : First(p)
  /\ pc = "enable" => \A k \in 1..index - 1 : Sounds(AddressOrder[k]) => Heard

\* The boot files have what p wants of them, but for the HDMI drive.
Settled(p, files) ==
  CASE p = "pulse"    -> /\ files.uart /\ ~files.console
                         /\ host = "pi_top" => files.i2s
                         /\ host = "pi_top_3" => ~files.i2s
    [] p = "speaker1" -> host = "pi_top" => ~files.i2s /\ (Bullseye \/ files.overlay = "fkms")
    [] p = "speaker2" -> /\ Bullseye \/ files.overlay = "kms"
                         /\ host = "pi_top" => files.i2s
                         /\ host = "pi_top_3" => ~files.i2s

\* The reboots that are still to come: one that is due, and one each for the sound
\* card, the HDMI drive and the rest of the boot files.
Unsettled == \E p \in Peripheral : First(p) /\ ~Settled(p, boot)

Debt == (IF due THEN 1 ELSE 0) + (IF configured THEN 0 ELSE 1)
            + (IF boot.hdmi THEN 0 ELSE 1) + (IF Unsettled THEN 1 ELSE 0)

IInv ==
  /\ TypeInv
  /\ ChangeIsDue
  /\ reboots > 0 => Session /\ reboots + Debt <= 4

-----------------------------------------------------------------------------
LEMMA PeripheralsAre == Peripheral \subseteq Audio \cup {"proto"}
  <1>. \A i \in DOMAIN AddressOrder : AddressOrder[i] \in {"pulse", "speaker1", "speaker2", "proto"}
    BY PeripheralAssumption
  <1>. QED  BY DEF Peripheral, ToSet, Audio

LEMMA AppendToSet ==
  ASSUME NEW S, NEW s \in Seq(S), NEW e \in S
  PROVE  Append(s, e) \in Seq(S) /\ ToSet(Append(s, e)) = ToSet(s) \cup {e}
  <1>1. /\ Append(s, e) \in Seq(S) /\ Len(s) \in Nat /\ DOMAIN s = 1..Len(s)
        /\ DOMAIN Append(s, e) = 1..Len(s) + 1
        /\ Append(s, e)[Len(s) + 1] = e /\ \A i \in 1..Len(s) : Append(s, e)[i] = s[i]
    BY AppendProperties, LenProperties
  <1>. QED  BY <1>1 DEF ToSet

LEMMA RemoveKeepsType ==
  ASSUME NEW S, NEW s \in Seq(S), NEW i \in 1..Len(s)
  PROVE  RemoveAt(s, i) \in Seq(S)
  <1>1. SubSeq(s, 1, i - 1) \in Seq(S)
    BY SubSeqProperties
  <1>2. SubSeq(s, i + 1, Len(s)) \in Seq(S)
    BY SubSeqProperties
  <1>. QED  BY <1>1, <1>2, ConcatProperties DEF RemoveAt

LEMMA FirstIsOne ==
  ASSUME NEW p, NEW q, First(p), First(q)
  PROVE  p = q
  <1>1. PICK k \in DOMAIN AddressOrder :
          AddressOrder[k] = p /\ Sounds(p) /\ \A j \in 1..k - 1 : ~Sounds(AddressOrder[j])
    BY DEF First
  <1>2. PICK l \in DOMAIN AddressOrder :
          AddressOrder[l] = q /\ Sounds(q) /\ \A j \in 1..l - 1 : ~Sounds(AddressOrder[j])
    BY DEF First
  <1>3. DOMAIN AddressOrder = 1..Len(AddressOrder) /\ Len(AddressOrder) \in Nat
    BY PeripheralAssumption, LenProperties
  <1>4. ~(k < l) /\ ~(l < k)
    BY <1>1, <1>2, <1>3
  <1>. QED  BY <1>1, <1>2, <1>3, <1>4

LEMMA SameFiles ==
  ASSUME NEW f \in BootFiles, NEW g \in BootFiles
  PROVE  f = g <=> /\ f.i2s = g.i2s /\ f.hdmi = g.hdmi /\ f.uart = g.uart
                   /\ f.console = g.console /\ f.overlay = g.overlay
  BY DEF BootFiles

\* The files with some of the settings made.
LEMMA WrittenFiles ==
  ASSUME NEW f \in BootFiles
  PROVE  /\ WithSerial(f) \in BootFiles
         /\ WithSerial(f).uart = TRUE /\ WithSerial(f).console = FALSE
         /\ WithSerial(f).i2s = f.i2s /\ WithSerial(f).hdmi = f.hdmi /\ WithSerial(f).overlay = f.overlay
         /\ WithHdmi(f) \in BootFiles /\ WithHdmi(f).hdmi = TRUE
         /\ WithHdmi(f).uart = f.uart /\ WithHdmi(f).console = f.console
         /\ WithHdmi(f).i2s = f.i2s /\ WithHdmi(f).overlay = f.overlay
  BY DEF WithSerial, WithHdmi, BootFiles

\* The I2S and the overlay that p is set up with.
Settles(p, o) ==
  /\ o.boot \in BootFiles /\ o.reboot \in BOOLEAN
  /\ o.boot.i2s # i2sNow => due \/ o.reboot
  /\ boot.hdmi => o.boot.hdmi
  /\ Settled(p, boot) => Settled(p, o.boot)
  /\ o.reboot => \/ due
                 \/ ~boot.hdmi /\ o.boot.hdmi
                 \/ ~Settled(p, boot) /\ Settled(p, o.boot)

LEMMA PulseSettles ==
  ASSUME TypeInv, ChangeIsDue, NEW required \in BOOLEAN, NEW o \in PulseWithI2S(required),
         host = (IF required THEN "pi_top" ELSE "pi_top_3")
  PROVE  Settles("pulse", o) /\ (o.enabled \/ o.reboot)
  <1>. DEFINE base == WithSerial(WithHdmi(boot))
              files == [base EXCEPT !.i2s = IF i2sNow # required THEN required ELSE @]
  <1>1. boot \in BootFiles /\ i2sNow \in BOOLEAN /\ due \in BOOLEAN
    BY DEF TypeInv
  <1>2. /\ base \in BootFiles /\ base.uart = TRUE /\ base.console = FALSE /\ base.hdmi = TRUE
        /\ base.i2s = boot.i2s /\ base.overlay = boot.overlay
    BY <1>1, WrittenFiles
  <1>3. base = boot <=> boot.uart = TRUE /\ boot.console = FALSE /\ boot.hdmi = TRUE
    BY <1>1, <1>2, SameFiles
  <1>4. o.boot = files /\ o.reboot = (i2sNow # required \/ base # boot) /\ o.enabled = (TRUE /\ ~o.reboot)
    <2>1. o = Outcome(files, i2sNow # required \/ base # boot, TRUE)
      BY DEF PulseWithI2S
    <2>. HIDE DEF base, files
    <2>. QED  BY <2>1 DEF Outcome
  <1>. HIDE DEF base
  <1>5. /\ files \in BootFiles /\ files.uart = TRUE /\ files.console = FALSE /\ files.hdmi = TRUE
        /\ files.i2s = (IF i2sNow # required THEN required ELSE boot.i2s)
    BY <1>2 DEF BootFiles
  <1>. HIDE DEF files
  <1>6. boot.i2s \in BOOLEAN /\ boot.hdmi \in BOOLEAN /\ boot.uart \in BOOLEAN /\ boot.console \in BOOLEAN
    BY <1>1 DEF BootFiles
  <1>7. \A f : Settled("pulse", f) <=> f.uart /\ ~f.console /\ (IF required THEN f.i2s ELSE ~f.i2s)
    BY DEF Settled
  <1>. QED  BY <1>1, <1>3, <1>4, <1>5, <1>6, <1>7 DEF Settles, ChangeIsDue

LEMMA SpeakerSettles ==
  ASSUME TypeInv, ChangeIsDue, NEW p, NEW required \in BOOLEAN, NEW overlay \in {"kms", "fkms"},
         NEW works \in BOOLEAN, NEW o, o = Speaker(required, overlay, works),
         \A f : Settled(p, f) <=> (IF required THEN f.i2s ELSE ~f.i2s) /\ (Bullseye \/ f.overlay = overlay)
  PROVE  Settles(p, o) /\ (o.enabled \/ o.reboot \/ ~works)
  <1>. DEFINE flip == i2sNow # required /\ boot.i2s # required
              switch == ~Bullseye /\ boot.overlay # overlay
              files == [boot EXCEPT !.i2s = IF flip THEN required ELSE @,
                                    !.overlay = IF switch THEN overlay ELSE @]
  <1>1. boot \in BootFiles /\ i2sNow \in BOOLEAN /\ due \in BOOLEAN
    BY DEF TypeInv
  <1>2. /\ boot.i2s \in BOOLEAN /\ boot.hdmi \in BOOLEAN /\ boot.overlay \in {"kms", "fkms"}
        /\ Bullseye \in BOOLEAN
    BY <1>1, PeripheralAssumption DEF BootFiles
  <1>3. /\ files \in BootFiles /\ files.hdmi = boot.hdmi
        /\ files.i2s = (IF flip THEN required ELSE boot.i2s)
        /\ files.overlay = (IF switch THEN overlay ELSE boot.overlay)
    BY <1>1, <1>2 DEF BootFiles
  <1>4. CASE flip \/ switch
    <2>1. o.boot = files /\ o.reboot = TRUE
      BY <1>4 DEF Speaker, Outcome
    <2>. HIDE DEF files
    <2>. QED  BY <1>1, <1>2, <1>3, <1>4, <2>1 DEF Settles, ChangeIsDue
  <1>5. CASE ~(flip \/ switch)
    <2>1. o.boot = WithHdmi(boot) /\ o.reboot = ~boot.hdmi /\ o.enabled = (works /\ ~o.reboot)
      BY <1>5 DEF Speaker, Outcome
    <2>2. /\ WithHdmi(boot) \in BootFiles /\ WithHdmi(boot).hdmi = TRUE
          /\ WithHdmi(boot).i2s = boot.i2s /\ WithHdmi(boot).overlay = boot.overlay
      BY <1>1, WrittenFiles
    <2>. HIDE DEF flip, switch
    <2>. QED  BY <1>1, <1>2, <2>1, <2>2 DEF Settles, ChangeIsDue
  <1>. QED  BY <1>4, <1>5

\* What a setup does: a reboot is asked for when one is due already, for the HDMI
\* drive, or to settle the rest, and what was settled stays so.
LEMMA SetupSettles ==
  ASSUME TypeInv, ChangeIsDue, NEW p \in Audio, NEW o \in Setup(p)
  PROVE  Settles(p, o) /\ (o.enabled \/ o.reboot \/ p = "speaker1") /\ ~Ignored(p)
  <1>0. host \in {"pi_top", "pi_top_3", "pi_top_4"}
    BY DEF TypeInv
  <1>1. CASE p = "pulse"
    <2>1. CASE host = "pi_top"
      BY <1>1, <2>1, PulseSettles DEF Setup, Ignored
    <2>2. CASE host = "pi_top_3"
      BY <1>1, <2>2, PulseSettles DEF Setup, Ignored
    <2>3. CASE host = "pi_top_4"
      <3>1. o = Outcome(WithSerial(boot), WithSerial(boot) # boot, TRUE)
        BY <1>1, <2>3 DEF Setup
      <3>2. o.boot = WithSerial(boot) /\ o.reboot = (WithSerial(boot) # boot) /\ o.enabled = (TRUE /\ ~o.reboot)
        BY <3>1 DEF Outcome
      <3>3. boot \in BootFiles /\ boot.uart \in BOOLEAN /\ boot.console \in BOOLEAN
        BY DEF TypeInv, BootFiles
      <3>4. /\ WithSerial(boot) \in BootFiles
            /\ WithSerial(boot).uart = TRUE /\ WithSerial(boot).console = FALSE
            /\ WithSerial(boot).i2s = boot.i2s /\ WithSerial(boot).hdmi = boot.hdmi
            /\ WithSerial(boot).overlay = boot.overlay
        BY <3>3, WrittenFiles
      <3>5. WithSerial(boot) = boot <=> boot.uart = TRUE /\ boot.console = FALSE
        BY <3>3, <3>4, SameFiles
      <3>6. \A f : Settled("pulse", f) <=> f.uart /\ ~f.console
        BY <2>3 DEF Settled
      <3>. QED  BY <1>1, <3>2, <3>3, <3>4, <3>5, <3>6 DEF Settles, ChangeIsDue, Ignored
    <2>. QED  BY <1>0, <2>1, <2>2, <2>3
  <1>2. CASE p = "speaker1"
    <2>1. host = "pi_top"
      BY <1>2 DEF Setup
    <2>2. PICK works \in BOOLEAN : o = Speaker(FALSE, "fkms", works)
      BY <1>2, <2>1 DEF Setup
    <2>3. \A f : Settled("speaker1", f) <=> ~f.i2s /\ (Bullseye \/ f.overlay = "fkms")
      BY <2>1 DEF Settled
    <2>. QED  BY <1>2, <2>1, <2>2, <2>3, SpeakerSettles DEF Ignored
  <1>3. CASE p = "speaker2"
    <2>1. host # "pi_top_4"
      BY <1>3 DEF Setup
    <2>2. CASE host = "pi_top"
      <3>1. o = Speaker(TRUE, "kms", TRUE)
        BY <1>3, <2>2 DEF Setup
      <3>2. \A f : Settled("speaker2", f) <=> f.i2s /\ (Bullseye \/ f.overlay = "kms")
        BY <2>2 DEF Settled
      <3>. QED  BY <1>3, <2>1, <3>1, <3>2, SpeakerSettles DEF Ignored
    <2>3. CASE host = "pi_top_3"
      <3>1. o = Speaker(FALSE, "kms", TRUE)
        BY <1>3, <2>3 DEF Setup
      <3>2. \A f : Settled("speaker2", f) <=> ~f.i2s /\ (Bullseye \/ f.overlay = "kms")
        BY <2>3 DEF Settled
      <3>. QED  BY <1>3, <2>1, <3>1, <3>2, SpeakerSettles DEF Ignored
    <2>. QED  BY <1>0, <2>1, <2>2, <2>3
  <1>. QED  BY <1>1, <1>2, <1>3 DEF Audio

-----------------------------------------------------------------------------
\* The parts of the debt.
Owed(d, c, h, u) ==
  /\ Debt = d + c + h + u
  /\ (d = 1 <=> due) /\ (c = 0 <=> configured) /\ (h = 0 <=> boot.hdmi) /\ (u = 1 <=> Unsettled)

LEMMA DebtHasParts ==
  /\ \E d, c, h, u \in 0..1 : Owed(d, c, h, u)
  /\ \E d, c, h, u \in 0..1 : Owed(d, c, h, u)'
  <1>. DEFINE d == IF due THEN 1 ELSE 0
              c == IF configured THEN 0 ELSE 1
              h == IF boot.hdmi THEN 0 ELSE 1
              u == IF Unsettled THEN 1 ELSE 0
  <1>1. d \in 0..1 /\ c \in 0..1 /\ h \in 0..1 /\ u \in 0..1
        /\ d' \in 0..1 /\ c' \in 0..1 /\ h' \in 0..1 /\ u' \in 0..1
    OBVIOUS
  <1>2. Owed(d, c, h, u) /\ Owed(d, c, h, u)'
    BY DEF Owed, Debt
  <1>. HIDE DEF d, c, h, u
  <1>. QED  BY <1>1, <1>2

\* The steps that leave the boot files alone and the reboot as due as it was.
LEMMA DebtStays ==
  ASSUME UNCHANGED <<host, attached, boot, i2sNow, configured, due, reboots>>, reboots + Debt <= 4
  PROVE  (reboots + Debt <= 4)'
  BY DEF Debt, Unsettled, First, Sounds, Ignored, Settled

LEMMA ScanKeeps ==
  ASSUME IInv, Scan
  PROVE  IInv'
  <1>1. /\ seen' = attached /\ pc' = "purge" /\ index' = 1
        /\ UNCHANGED <<attached, list, host, boot, i2sNow, configured, due, reboots>>
    BY DEF Scan, machine
  <1>2. TypeInv' /\ ChangeIsDue'
    BY <1>1 DEF IInv, TypeInv, ChangeIsDue
  <1>3. reboots > 0 => Session'
    BY <1>1 DEF IInv, Session, First, Sounds, Ignored
  <1>. QED  BY <1>1, <1>2, <1>3, DebtStays DEF IInv

\* With all that is enabled attached nothing is taken from the list.
LEMMA PurgeKeeps ==
  ASSUME IInv, Purge
  PROVE  IInv'
  <1>1. /\ pc = "purge" /\ UNCHANGED <<attached, seen, host, boot, i2sNow, configured, due, reboots>>
        /\ \/ pc' = "enable" /\ index' = 1 /\ UNCHANGED list
           \/ /\ index \in 1..Len(list) /\ index' = index + 1 /\ UNCHANGED pc
              /\ IF list[index] \in seen THEN UNCHANGED list ELSE list' = RemoveAt(list, index)
    <2>1. index \in Nat \ {0} /\ Len(list) \in Nat
      BY LenProperties DEF IInv, TypeInv
    <2>. QED  BY <2>1 DEF Purge, machine
  <1>2. list' \in Seq(Peripheral)
    BY <1>1, RemoveKeepsType DEF IInv, TypeInv
  <1>3. TypeInv' /\ ChangeIsDue'
    BY <1>1, <1>2 DEF IInv, TypeInv, ChangeIsDue
  <1>4. ASSUME reboots > 0 PROVE Session'
    <2>1. Session /\ seen = attached
      BY <1>1, <1>4 DEF IInv, Session
    <2>2. \A i \in 1..Len(list) : list[i] \in attached
      BY <2>1, LenProperties DEF IInv, TypeInv, Session, ToSet
    <2>3. list' = list
      BY <1>1, <2>1, <2>2
    <2>4. pc' = "enable" => index' = 1
      BY <1>1
    <2>. QED  BY <1>1, <2>1, <2>3, <2>4 DEF Session, First, Sounds, Ignored
  <1>. QED  BY <1>1, <1>3, <1>4, DebtStays DEF IInv

\* What comes next in the pass.
LEMMA NextIndex ==
  ASSUME TypeInv, pc = "enable", NextAddress
  PROVE  /\ pc' \in {"scan", "enable"} /\ index' \in Nat \ {0}
         /\ pc' = "enable" => index' = index + 1 /\ index' \in DOMAIN AddressOrder
  <1>1. DOMAIN AddressOrder = 1..Len(AddressOrder) /\ Len(AddressOrder) \in Nat
    BY PeripheralAssumption, LenProperties
  <1>2. index \in Nat \ {0}
    BY DEF TypeInv
  <1>. QED  BY <1>1, <1>2 DEF NextAddress

\* A peripheral that is wanted while no audio peripheral has been is the first of
\* them, and one that is not wanted comes after one that is enabled.
LEMMA WantedIsFirst ==
  ASSUME TypeInv, Session, pc = "enable",
         NEW p, p = AddressOrder[index], Wanted(p), p \in Audio, ~Ignored(p)
  PROVE  First(p) /\ ~Heard
  <1>1. p \in Peripheral /\ Sounds(p)
    BY DEF Wanted, TypeInv, Session, Sounds
  <1>2. ~Heard
    <2>. SUFFICES ASSUME NEW q \in ToSet(list), q \in Audio PROVE FALSE
      BY DEF Heard
    <2>1. p # q /\ q \in Peripheral
      BY DEF Wanted, Session, TypeInv
    <2>2. <<p, q>> \in Compatible
      BY <2>1 DEF Wanted, Fits
    <2>. QED  BY <1>1, <2>1, <2>2, AddressAssumption DEF Audio
  <1>3. index \in DOMAIN AddressOrder
    <2>1. AddressOrder # <<>>
      BY <1>1 DEF Peripheral, ToSet
    <2>2. 1 \in DOMAIN AddressOrder
      BY <2>1, PeripheralAssumption, EmptySeq, LenProperties
    <2>. QED  BY <2>2 DEF TypeInv
  <1>. QED  BY <1>1, <1>2, <1>3 DEF Session, First

LEMMA UnwantedComesLater ==
  ASSUME TypeInv, Session, pc = "enable",
         NEW p, p = AddressOrder[index], ~Wanted(p), Sounds(p)
  PROVE  Heard
  <1>1. p \in seen /\ p \in Audio /\ p \in Peripheral
    BY DEF Session, Sounds, TypeInv
  <1>2. CASE p \in ToSet(list)
    BY <1>1, <1>2 DEF Heard
  <1>3. CASE ~Fits(p)
    <2>1. PICK q \in ToSet(list) : p # q /\ <<p, q>> \notin Compatible
      BY <1>3 DEF Fits
    <2>2. q \in Peripheral
      BY DEF Session, TypeInv
    <2>3. q # "proto" /\ q \in Audio
      BY <1>1, <2>1, <2>2, PeripheralsAre, AddressAssumption
    <2>. QED  BY <2>3 DEF Heard
  <1>. QED  BY <1>1, <1>2, <1>3 DEF Wanted

LEMMA PassKeeps ==
  ASSUME IInv, Pass
  PROVE  IInv'
  <1>1. /\ pc = "enable" /\ (~Wanted(AddressOrder[index]) \/ Ignored(AddressOrder[index])) /\ NextAddress
        /\ UNCHANGED <<attached, list, seen, host, boot, i2sNow, configured, due, reboots>>
    BY DEF Pass, machine
  <1>2. /\ pc' \in {"scan", "enable"} /\ index' \in Nat \ {0}
        /\ pc' = "enable" => index' = index + 1 /\ index' \in DOMAIN AddressOrder
    BY <1>1, NextIndex DEF IInv
  <1>3. TypeInv' /\ ChangeIsDue'
    BY <1>1, <1>2 DEF IInv, TypeInv, ChangeIsDue
  <1>4. ASSUME reboots > 0 PROVE Session'
    <2>1. Session /\ TypeInv /\ index \in Nat
      BY <1>4 DEF IInv, TypeInv
    <2>2. Sounds(AddressOrder[index]) => Heard
      BY <1>1, <2>1, UnwantedComesLater DEF Sounds
    <2>3. ASSUME pc' = "enable", NEW k \in 1..index' - 1, Sounds(AddressOrder[k]) PROVE Heard
      <3>1. k \in 1..index - 1 \/ k = index
        BY <1>2, <2>1, <2>3
      <3>. QED  BY <1>1, <2>1, <2>2, <2>3, <3>1 DEF Session
    <2>. QED  BY <1>1, <1>2, <2>1, <2>3 DEF Session, First, Sounds, Ignored, Heard
  <1>. QED  BY <1>1, <1>3, <1>4, DebtStays DEF IInv

\* A peripheral that is wanted is in the table of addresses.
LEMMA WantedHasAddress ==
  ASSUME TypeInv, pc = "enable", Wanted(AddressOrder[index])
  PROVE  AddressOrder[index] \in Peripheral /\ index \in DOMAIN AddressOrder
  <1>1. AddressOrder[index] \in Peripheral
    BY DEF Wanted, TypeInv
  <1>2. AddressOrder # <<>>
    BY <1>1 DEF Peripheral, ToSet
  <1>3. 1 \in DOMAIN AddressOrder
    BY <1>2, PeripheralAssumption, EmptySeq, LenProperties
  <1>. QED  BY <1>1, <1>3 DEF TypeInv

\* Enabling a peripheral, at once or at the reboot.
LEMMA ListedKeepsSession ==
  ASSUME TypeInv, Session, pc = "enable",
         NEW p, p = AddressOrder[index], Wanted(p), ~Ignored(p), NextAddress,
         list' = Append(list, p), UNCHANGED <<host, attached, seen>>
  PROVE  Session'
  <1>1. p \in Peripheral /\ p \in attached /\ seen = attached /\ index \in Nat
    BY DEF Wanted, TypeInv, Session
  <1>2. ToSet(list') = ToSet(list) \cup {p}
    BY <1>1, AppendToSet DEF TypeInv
  <1>3. p \in Audio => First(p)
    BY WantedIsFirst
  <1>4. /\ pc' \in {"scan", "enable"}
        /\ pc' = "enable" => index' = index + 1
    BY NextIndex
  <1>5. (Heard => Heard') /\ (p \in Audio => Heard')
    BY <1>2 DEF Heard
  <1>6. ASSUME pc' = "enable", NEW k \in 1..index' - 1, Sounds(AddressOrder[k]) PROVE Heard'
    <2>1. k \in 1..index - 1 \/ k = index
      BY <1>1, <1>4, <1>6
    <2>. QED  BY <1>5, <1>6, <2>1 DEF Session, Sounds
  <1>7. \A q : (Sounds(q) <=> Sounds(q)') /\ (First(q) => First(q)')
    BY DEF Sounds, First, Ignored
  <1>. QED  BY <1>1, <1>2, <1>3, <1>4, <1>6, <1>7 DEF Session

LEMMA RefuseKeeps ==
  ASSUME IInv, Refuse
  PROVE  IInv'
  <1>. DEFINE p == AddressOrder[index]
  <1>1. /\ pc = "enable" /\ Wanted(p) /\ Unsupported(p) /\ list' = Append(list, p) /\ NextAddress
        /\ UNCHANGED <<attached, seen, host, boot, i2sNow, configured, due, reboots>>
    BY DEF Refuse, machine
  <1>2. p \in Peripheral /\ ~Ignored(p)
    BY <1>1, WantedHasAddress DEF IInv, Unsupported, Ignored
  <1>3. list' \in Seq(Peripheral)
    BY <1>1, <1>2, AppendToSet DEF IInv, TypeInv
  <1>4. /\ pc' \in {"scan", "enable"} /\ index' \in Nat \ {0}
        /\ pc' = "enable" => index' \in DOMAIN AddressOrder
    BY <1>1, NextIndex DEF IInv
  <1>5. TypeInv' /\ ChangeIsDue'
    BY <1>1, <1>3, <1>4 DEF IInv, TypeInv, ChangeIsDue
  <1>6. reboots > 0 => Session'
    BY <1>1, <1>2, ListedKeepsSession DEF IInv
  <1>. QED  BY <1>1, <1>5, <1>6, DebtStays DEF IInv

LEMMA EnableKeeps ==
  ASSUME IInv, Enable
  PROVE  IInv'
  <1>. DEFINE p == AddressOrder[index]
  <1>1. PICK o \in Setup(p) :
          /\ boot' = o.boot
          /\ IF o.enabled \/ o.reboot THEN list' = Append(list, p) ELSE UNCHANGED list
          /\ due' = (due \/ o.reboot)
    BY DEF Enable
  <1>2. /\ pc = "enable" /\ Wanted(p) /\ NextAddress
        /\ UNCHANGED <<host, attached, seen, i2sNow, configured, reboots>>
    BY DEF Enable
  <1>3. p \in Peripheral /\ index \in DOMAIN AddressOrder
    BY <1>2, WantedHasAddress DEF IInv
  <1>4. /\ pc' \in {"scan", "enable"} /\ index' \in Nat \ {0}
        /\ pc' = "enable" => index' \in DOMAIN AddressOrder
    BY <1>2, NextIndex DEF IInv
  <1>5. CASE p = "proto"
    <2>1. o = Outcome(boot, FALSE, TRUE)
      BY <1>5 DEF Setup
    <2>2. o.boot = boot /\ o.reboot = FALSE /\ o.enabled = TRUE
      BY <2>1 DEF Outcome
    <2>3. boot' = boot /\ list' = Append(list, p) /\ due' = due /\ ~Ignored(p)
      BY <1>1, <1>5, <2>2 DEF IInv, TypeInv, Ignored
    <2>4. list' \in Seq(Peripheral)
      BY <1>3, <2>3, AppendToSet DEF IInv, TypeInv
    <2>5. TypeInv' /\ ChangeIsDue'
      BY <1>2, <1>4, <2>3, <2>4 DEF IInv, TypeInv, ChangeIsDue
    <2>6. reboots > 0 => Session'
      BY <1>2, <2>3, ListedKeepsSession DEF IInv
    <2>. QED  BY <1>2, <2>3, <2>5, <2>6, DebtStays DEF IInv
  <1>6. CASE p \in Audio
    <2>1. Settles(p, o) /\ (o.enabled \/ o.reboot \/ p = "speaker1") /\ ~Ignored(p)
      BY <1>6, SetupSettles DEF IInv
    <2>2. list' \in Seq(Peripheral)
      BY <1>1, <1>3, AppendToSet DEF IInv, TypeInv
    <2>3. boot' \in BootFiles /\ due' \in BOOLEAN
      BY <1>1, <2>1 DEF Settles, IInv, TypeInv
    <2>4. TypeInv' /\ ChangeIsDue'
      BY <1>1, <1>2, <1>4, <2>1, <2>2, <2>3 DEF IInv, TypeInv, ChangeIsDue, Settles
    <2>5. ASSUME reboots > 0 PROVE Session'
      <3>1. CASE list' = Append(list, p)
        BY <1>2, <2>1, <2>5, <3>1, ListedKeepsSession DEF IInv
      <3>2. CASE p = "speaker1" /\ list' = list
        <4>1. index = Len(AddressOrder)
          BY <1>3, <3>2, AddressAssumption
        <4>2. pc' = "scan"
          <5>1. Len(AddressOrder) \in Nat
            BY PeripheralAssumption, LenProperties
          <5>. QED  BY <1>2, <4>1, <5>1 DEF NextAddress
        <4>. QED  BY <1>2, <2>5, <3>2, <4>2 DEF IInv, Session, First, Sounds, Ignored
      <3>. QED  BY <1>1, <2>1, <3>1, <3>2
    <2>6. ASSUME reboots > 0 PROVE reboots' + Debt' <= 4
      <3>1. First(p)
        BY <1>2, <1>6, <2>1, <2>5, <2>6, WantedIsFirst DEF IInv
      <3>2. \A q : First(q) => q = p
        BY <3>1, FirstIsOne
      <3>3. Unsettled <=> ~Settled(p, boot)
        BY <1>3, <3>1, <3>2 DEF Unsettled
      <3>4. Unsettled' <=> ~Settled(p, o.boot)
        <4>1. \A q : First(q)' <=> First(q)
          BY <1>2 DEF First, Sounds, Ignored
        <4>2. \A q : Settled(q, boot)' <=> Settled(q, o.boot)
          BY <1>1, <1>2 DEF Settled
        <4>. QED  BY <1>3, <3>1, <3>2, <4>1, <4>2 DEF Unsettled
      <3>5. /\ Settled(p, boot) => Settled(p, o.boot)
            /\ boot.hdmi => o.boot.hdmi
            /\ o.reboot => \/ due
                           \/ ~boot.hdmi /\ o.boot.hdmi
                           \/ ~Settled(p, boot) /\ Settled(p, o.boot)
        BY <2>1 DEF Settles
      <3>6. PICK d, c, h, u \in 0..1 : Owed(d, c, h, u)
        BY DebtHasParts
      <3>7. PICK e, k, i, v \in 0..1 : Owed(e, k, i, v)'
        BY DebtHasParts
      <3>8. /\ Debt = d + c + h + u /\ Debt' = e + k + i + v
            /\ (d = 1 <=> due) /\ (h = 0 <=> boot.hdmi) /\ (u = 1 <=> ~Settled(p, boot))
            /\ (e = 1 <=> due \/ o.reboot) /\ (i = 0 <=> o.boot.hdmi) /\ (v = 1 <=> ~Settled(p, o.boot))
            /\ c = k
        <4>1. /\ Debt = d + c + h + u
              /\ (d = 1 <=> due) /\ (h = 0 <=> boot.hdmi) /\ (u = 1 <=> ~Settled(p, boot)) /\ (c = 0 <=> configured)
          BY <3>3, <3>6 DEF Owed
        <4>2. /\ Debt' = e + k + i + v
              /\ (e = 1 <=> due') /\ (i = 0 <=> boot'.hdmi) /\ (v = 1 <=> ~Settled(p, o.boot)) /\ (k = 0 <=> configured')
          BY <3>4, <3>7 DEF Owed
        <4>3. (due' <=> due \/ o.reboot) /\ boot'.hdmi = o.boot.hdmi /\ (configured' <=> configured)
          BY <1>1, <1>2
        <4>4. c = k
          BY <4>1, <4>2, <4>3
        <4>5. (e = 1 <=> due \/ o.reboot) /\ (i = 0 <=> o.boot.hdmi)
          BY <4>2, <4>3
        <4>. QED  BY <4>1, <4>2, <4>4, <4>5
      <3>9. e + k + i + v <= d + c + h + u
        BY <3>5, <3>8
      <3>10. reboots \in Nat /\ reboots + (d + c + h + u) <= 4
        BY <2>6, <3>8 DEF IInv, TypeInv, CountTo
      <3>11. reboots + (e + k + i + v) <= 4
        BY <3>9, <3>10
      <3>. QED  BY <1>2, <3>8, <3>11
    <2>. QED  BY <1>2, <2>4, <2>5, <2>6 DEF IInv
  <1>. QED  BY <1>3, <1>5, <1>6, PeripheralsAre

\* A reboot takes one of those that are to come; in the first session with I2S the
\* sound card's takes its place.
LEMMA RebootKeeps ==
  ASSUME IInv, Reboot
  PROVE  IInv'
  <1>1. /\ due /\ list' = <<>> /\ seen' = {} /\ pc' = "scan" /\ index' = 1
        /\ i2sNow' = boot.i2s
        /\ configured' = (configured \/ boot.i2s)
        /\ due' = (FALSE \/ (boot.i2s /\ ~configured))
        /\ reboots' = IF reboots < CountTo THEN reboots + 1 ELSE CountTo
        /\ UNCHANGED <<host, attached, boot>>
    BY DEF Reboot, NewProcess
  <1>2. TypeInv
    BY DEF IInv
  <1>3. boot.i2s \in BOOLEAN /\ boot.hdmi \in BOOLEAN /\ configured \in BOOLEAN /\ reboots \in 0..5
    BY <1>2 DEF TypeInv, BootFiles, CountTo
  <1>4. reboots' \in 0..5 /\ (reboots <= 4 => reboots' = reboots + 1)
    BY <1>1, <1>3 DEF CountTo
  <1>5. TypeInv' /\ ChangeIsDue'
    BY <1>1, <1>2, <1>3, <1>4 DEF TypeInv, ChangeIsDue, CountTo
  <1>6. Session'
    BY <1>1 DEF Session, ToSet
  <1>7. Unsettled' <=> Unsettled
    BY <1>1 DEF Unsettled, First, Sounds, Ignored, Settled
  <1>8. PICK d, c, h, u \in 0..1 : Owed(d, c, h, u)
    BY DebtHasParts
  <1>9. PICK e, k, i, v \in 0..1 : Owed(e, k, i, v)'
    BY DebtHasParts
  <1>10. Debt = d + c + h + u /\ Debt' = e + k + i + v /\ d = 1 /\ h = i /\ u = v /\ e + k <= c
    <2>1. Debt = d + c + h + u /\ Debt' = e + k + i + v
      BY <1>8, <1>9 DEF Owed
    <2>2. d = 1 /\ h = i /\ u = v
      BY <1>1, <1>7, <1>8, <1>9 DEF Owed
    <2>3. (c = 0 <=> configured) /\ (k = 0 <=> configured \/ boot.i2s) /\ (e = 1 <=> boot.i2s /\ ~configured)
      BY <1>1, <1>8, <1>9 DEF Owed
    <2>4. e + k <= c
      BY <2>3
    <2>. QED  BY <2>1, <2>2, <2>4
  <1>11. reboots' + Debt' <= 4
    <2>1. reboots = 0 \/ reboots + (d + c + h + u) <= 4
      BY <1>3, <1>10 DEF IInv
    <2>2. reboots <= 3 /\ reboots + 1 + (e + k + i + v) <= 4
      BY <1>3, <1>10, <2>1
    <2>3. reboots' = reboots + 1
      BY <1>3, <1>4, <2>2
    <2>. QED  BY <1>10, <2>2, <2>3
  <1>. QED  BY <1>5, <1>6, <1>11 DEF IInv

LEMMA RestartKeeps ==
  ASSUME IInv, Restart
  PROVE  IInv'
  <1>1. /\ list' = <<>> /\ seen' = {} /\ pc' = "scan" /\ index' = 1
        /\ i2sNow' = i2sNow
        /\ configured' = (configured \/ i2sNow)
        /\ due' = (due \/ (i2sNow /\ ~configured))
        /\ UNCHANGED <<host, attached, boot, reboots>>
    BY DEF Restart, NewProcess
  <1>2. TypeInv /\ ChangeIsDue
    BY DEF IInv
  <1>3. TypeInv' /\ ChangeIsDue'
    BY <1>1, <1>2 DEF TypeInv, ChangeIsDue
  <1>4. Session'
    BY <1>1 DEF Session, ToSet
  <1>5. Unsettled' <=> Unsettled
    BY <1>1 DEF Unsettled, First, Sounds, Ignored, Settled
  <1>6. PICK d, c, h, u \in 0..1 : Owed(d, c, h, u)
    BY DebtHasParts
  <1>7. PICK e, k, i, v \in 0..1 : Owed(e, k, i, v)'
    BY DebtHasParts
  <1>8. Debt = d + c + h + u /\ Debt' = e + k + i + v /\ h = i /\ u = v /\ e + k <= d + c
    <2>1. Debt = d + c + h + u /\ Debt' = e + k + i + v
      BY <1>6, <1>7 DEF Owed
    <2>2. h = i /\ u = v
      BY <1>1, <1>5, <1>6, <1>7 DEF Owed
    <2>3. /\ (d = 1 <=> due) /\ (c = 0 <=> configured)
          /\ (k = 0 <=> configured \/ i2sNow) /\ (e = 1 <=> due \/ (i2sNow /\ ~configured))
      BY <1>1, <1>6, <1>7 DEF Owed
    <2>4. e + k <= d + c
      BY <2>3
    <2>. QED  BY <2>1, <2>2, <2>4
  <1>9. reboots > 0 => reboots' + Debt' <= 4
    <2>. SUFFICES ASSUME reboots > 0 PROVE reboots' + Debt' <= 4
      OBVIOUS
    <2>1. reboots \in Nat /\ reboots + (d + c + h + u) <= 4
      BY <1>2, <1>8 DEF IInv, TypeInv, CountTo
    <2>2. reboots + (e + k + i + v) <= 4
      BY <1>8, <2>1
    <2>. QED  BY <1>1, <1>8, <2>2
  <1>. QED  BY <1>1, <1>3, <1>4, <1>9 DEF IInv

LEMMA PlugKeeps ==
  ASSUME IInv, NEW p \in Peripheral, Plug(p)
  PROVE  IInv'
  <1>1. /\ attached' \subseteq attached \cup {p} /\ reboots' = 0
        /\ UNCHANGED <<list, seen, pc, index, host, boot, i2sNow, configured, due>>
    BY DEF Plug, pass, machine
  <1>. QED  BY <1>1 DEF IInv, TypeInv, ChangeIsDue, CountTo

\* For every host and whatever it was set up for before, with any number of
\* peripherals plugged and restarts between: four reboots after a change of the
\* peripherals none is asked for any more (_initialise_v1_hub_v1_speaker,
\* configure_hifiberry, _initialise_v1_hub_pulse).
THEOREM FourRebootsSuffice == Spec => []FourReboots
  <1>1. Init => IInv
    <2>. SUFFICES ASSUME Init PROVE IInv
      OBVIOUS
    <2>1. boot.i2s \in BOOLEAN /\ host \in {"pi_top", "pi_top_3", "pi_top_4"}
      BY PeripheralAssumption DEF Init, BootFiles
    <2>2. TypeInv
      <3>1. /\ i2sNow \in BOOLEAN /\ configured \in BOOLEAN /\ due \in BOOLEAN
            /\ pc = "scan" /\ index = 1 /\ reboots = 0 /\ boot \in BootFiles
            /\ list = <<>> /\ attached \subseteq Peripheral /\ seen = {}
        BY <2>1 DEF Init
      <3>. QED  BY <2>1, <3>1 DEF TypeInv, CountTo
    <2>3. ChangeIsDue
      BY DEF Init, ChangeIsDue
    <2>4. reboots = 0
      BY DEF Init
    <2>. QED  BY <2>2, <2>3, <2>4 DEF IInv
  <1>2. IInv /\ [Next]_vars => IInv'
    <2>. SUFFICES ASSUME IInv, [Next]_vars PROVE IInv'
      OBVIOUS
    <2>1. CASE Scan  BY <2>1, ScanKeeps
    <2>2. CASE Purge  BY <2>2, PurgeKeeps
    <2>3. CASE Pass  BY <2>3, PassKeeps
    <2>4. CASE Refuse  BY <2>4, RefuseKeeps
    <2>5. CASE Enable  BY <2>5, EnableKeeps
    <2>6. CASE Reboot  BY <2>6, RebootKeeps
    <2>7. CASE Restart  BY <2>7, RestartKeeps
    <2>8. CASE \E p \in Peripheral : Plug(p)  BY <2>8, PlugKeeps
    <2>9. CASE UNCHANGED vars
      BY <2>9, DebtStays DEF vars, pass, machine, IInv, TypeInv, ChangeIsDue, Session, First, Sounds, Ignored, Heard
    <2>. QED  BY <2>1, <2>2, <2>3, <2>4, <2>5, <2>6, <2>7, <2>8, <2>9 DEF Next, Work
  <1>3. IInv => FourReboots
    <2>1. ASSUME IInv PROVE reboots <= 4
      <3>1. Debt \in 0..4
        BY DEF Debt
      <3>2. reboots \in Nat /\ (reboots = 0 \/ reboots + Debt <= 4)
        BY <2>1 DEF IInv, TypeInv, CountTo
      <3>. QED  BY <3>1, <3>2
    <2>. QED  BY <2>1 DEF FourReboots
  <1>. QED  BY <1>1, <1>2, <1>3, PTL DEF Spec
=============================================================================

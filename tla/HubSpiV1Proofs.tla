--------------------------- MODULE HubSpiV1Proofs ---------------------------
(***************************************************************************)
(* What the bytes of the SPI link carry, for every level; that the link    *)
(* keeps the brightness of a screen that was not blanked when the service  *)
(* started, whatever becomes of the transfers; that the last change of the *)
(* brightness and of the blanking is the one the hub ends with; and that   *)
(* the stop leaves the screen unblanked.                                   *)
(***************************************************************************)
EXTENDS HubSpiV1, SequenceTheorems, TLAPS

\* A parity is a bit.
LEMMA ParityIsBit == \A n \in 0..127 : Parity[n] \in {0, 1}
  BY DEF Parity

\* The byte that is sent has the level and the blanking of State, and is not
\* what asks for the hub's state (_parse_state_to_bits).
LEMMA BitsCarry ==
  ASSUME NEW s \in Screen
  PROVE  /\ Bits(s) \in 0..254
         /\ LevelOf(Bits(s)) = s.level
         /\ BlankedOf(Bits(s)) = s.blanked
         /\ Bits(s) \div 128 = Parity[s.level]
         /\ (Bits(s) \div 4) % 2 = Parity[Bits(s) % 4]
  <1>. DEFINE p == Parity[s.level]
              b == Bit(s.blanked)
              q == Parity[2 * b]
              n == 128 * p + 8 * s.level + 4 * q + 2 * b
  <1>1. s.level \in 0..10 /\ s.blanked \in BOOLEAN
    BY DEF Screen, Level, Full
  <1>2. b \in {0, 1} /\ (b = 1 <=> s.blanked)
    BY <1>1 DEF Bit
  <1>3. p \in {0, 1} /\ q \in {0, 1}
    <2>1. s.level \in 0..127 /\ 2 * b \in 0..127
      BY <1>1, <1>2
    <2>. QED  BY <2>1, ParityIsBit
  <1>4. q = Parity[n % 4]
    <2>1. n % 4 = 2 * b
      <3>. HIDE DEF p, b, q
      <3>. QED BY <1>1, <1>2, <1>3
    <2>. QED BY <2>1
  <1>5. n \in 0..254 /\ (n \div 8) % 16 = s.level /\ n \div 128 = p
        /\ (n \div 4) % 2 = q /\ (n \div 2) % 2 = b
    <2>. HIDE DEF p, b, q
    <2>. QED BY <1>1, <1>2, <1>3
  <1>6. Bits(s) = n
    BY DEF Bits
  <1>7. BlankedOf(n) = s.blanked
    <2>1. BlankedOf(n) <=> s.blanked
      <3>. HIDE DEF n, b
      <3>. QED BY <1>2, <1>5 DEF BlankedOf
    <2>2. BlankedOf(n) \in BOOLEAN
      BY DEF BlankedOf
    <2>. HIDE DEF n
    <2>. QED BY <2>1, <2>2, <1>1, Zenon
  <1>. HIDE DEF n
  <1>. QED  BY <1>4, <1>5, <1>6, <1>7 DEF LevelOf

\* A change that the hub receives is made there as it is in State, for every
\* level and both blankings (_parse_state_to_bits).
THEOREM ChangeIsTaken ==
  ASSUME NEW s \in Screen
  PROVE  Takes(Bits(s)) = [hub EXCEPT !.level = s.level, !.blanked = s.blanked]
  <1>1. Bits(s) # Fetch
    BY BitsCarry DEF Fetch
  <1>. HIDE DEF Bits
  <1>. QED  BY <1>1, BitsCarry, Zenon DEF Takes

\* The hub's answer has its lid, its blanking and the level of a lit screen; one
\* with a bit wrong, or the id, is not taken for a state (_determine_byte).
LEMMA ReportTells ==
  ASSUME NEW h \in Screen
  PROVE  /\ Report(h) \in 0..255
         /\ IsState(Report(h))
         /\ ~IsState((Report(h) + 128) % 256)
         /\ LevelOf(Report(h)) = IF h.blanked THEN 0 ELSE h.level
         /\ BlankedOf(Report(h)) = h.blanked
         /\ LidOpenOf(Report(h)) = h.lidOpen
  <1>. DEFINE v == IF h.blanked THEN 0 ELSE h.level
              l == Bit(h.lidOpen)
              b == Bit(h.blanked)
              n == 8 * v + 4 * l + 2 * b
              p == Parity[n]
              r == 128 * p + n
  <1>1. v \in 0..10 /\ h.blanked \in BOOLEAN /\ h.lidOpen \in BOOLEAN
    BY DEF Screen, Level, Full
  <1>2. b \in {0, 1} /\ (b = 1 <=> h.blanked) /\ l \in {0, 1} /\ (l = 1 <=> h.lidOpen)
    BY <1>1 DEF Bit
  <1>3. n \in 0..86 /\ (n \div 8) % 16 = v /\ (n \div 4) % 2 = l /\ (n \div 2) % 2 = b
    <2>. HIDE DEF v, l, b
    <2>. QED BY <1>1, <1>2
  <1>4. p \in {0, 1}
    <2>1. n \in 0..127
      <3>. HIDE DEF n
      <3>. QED BY <1>3
    <2>. QED BY <2>1, ParityIsBit
  <1>5. /\ r \in 0..214 /\ r \div 128 = p /\ r % 128 = n
        /\ (r \div 8) % 16 = v /\ (r \div 4) % 2 = l /\ (r \div 2) % 2 = b
    <2>. HIDE DEF n, v, l, b, p
    <2>. QED BY <1>1, <1>2, <1>3, <1>4
  <1>6. LET g == (r + 128) % 256 IN g \div 128 = 1 - p /\ g % 128 = n
    <2>. HIDE DEF n, v, l, b, p
    <2>. QED BY <1>3, <1>4
  <1>7. Report(h) = r
    BY DEF Report
  <1>8. IsState(r)
    <2>. HIDE DEF n, v, l, b, r
    <2>. QED BY <1>1, <1>5 DEF IsState, IsDeviceId, LevelOf
  <1>9. ~IsState((r + 128) % 256)
    <2>. HIDE DEF n, v, l, b, r
    <2>. QED BY <1>4, <1>6 DEF IsState
  <1>10. BlankedOf(r) = h.blanked /\ LidOpenOf(r) = h.lidOpen
    <2>1. (BlankedOf(r) <=> h.blanked) /\ (LidOpenOf(r) <=> h.lidOpen)
      <3>. HIDE DEF r, b, l
      <3>. QED BY <1>2, <1>5 DEF BlankedOf, LidOpenOf
    <2>2. BlankedOf(r) \in BOOLEAN /\ LidOpenOf(r) \in BOOLEAN
      BY DEF BlankedOf, LidOpenOf
    <2>. HIDE DEF r
    <2>. QED BY <2>1, <2>2, <1>1, Zenon
  <1>11. LevelOf(r) = v
    BY <1>5 DEF LevelOf
  <1>12. r \in 0..255
    <2>. HIDE DEF r
    <2>. QED BY <1>5
  <1>. HIDE DEF r
  <1>. QED  BY <1>7, <1>8, <1>9, <1>10, <1>11, <1>12

LEMMA IdIsNoState == ~IsState(120)
  BY DEF IsState, IsDeviceId, LevelOf

-----------------------------------------------------------------------------
\* What the threads ask for, and what may be in the queue.
Wish == {Blank, Unblank, <<"inc">>, <<"dec">>}
            \cup {<<"set", n>> : n \in Level} \cup {SetTo(n) : n \in Level}
Queued(levels) == {<<"init">>, Blank, Unblank} \cup {SetTo(n) : n \in levels}

\* The levels of the hub, of State, of the queue and of the byte on its way are
\* known; before the first answer counts the screen has not been blanked.  If it may
\* have been, the levels are nothing but levels.
LitAtFirst == Starts = {FALSE}
Possible == IF LitAtFirst THEN known ELSE Level

LevelsAreKnown ==
  /\ hub \in Screen /\ state \in Screen
  /\ known \subseteq Level /\ hub.level \in Possible
  /\ queue \in Seq(Queued(Possible))
  /\ todo \in [Thread -> Seq(Wish)]
  /\ by \in {"spi"} \cup Thread
  /\ \/ byte = Fetch
     \/ \E s \in Screen : s.level \in Possible /\ byte = Bits(s)
  /\ \/ /\ thread \in {"new", "absent"} /\ stage \in {"first", "again"}
        /\ byte = Fetch /\ (LitAtFirst => ~hub.blanked)
     \/ /\ thread \in {"loop", "ending", "dead"} /\ stage \in {"rest", "transfer", "sync"}
        /\ state.level \in Possible

LEMMA TakesKnown ==
  ASSUME LevelsAreKnown
  PROVE  /\ Takes(byte) \in Screen
         /\ Takes(byte).level \in Possible
         /\ byte = Fetch => Takes(byte) = hub
  <1>1. CASE byte = Fetch
    BY <1>1 DEF LevelsAreKnown, Takes
  <1>2. CASE byte # Fetch
    <2>1. PICK s \in Screen : s.level \in Possible /\ byte = Bits(s)
      BY <1>2 DEF LevelsAreKnown
    <2>2. Takes(byte) = [hub EXCEPT !.level = s.level, !.blanked = s.blanked]
      BY <2>1, ChangeIsTaken
    <2>. QED  BY <1>2, <2>1, <2>2 DEF LevelsAreKnown, Screen
  <1>. QED  BY <1>1, <1>2

\* An answer taken for a state is the hub's own.
LEMMA AnswerIsReport ==
  ASSUME LevelsAreKnown, NEW how, IsState(Answer(how))
  PROVE  how = "good" /\ Answer(how) = Report(hub)
  <1>1. hub \in Screen
    BY DEF LevelsAreKnown
  <1>2. ~IsState((Report(hub) + 128) % 256) /\ ~IsState(120)
    BY <1>1, ReportTells, IdIsNoState
  <1>. HIDE DEF Report, IsState
  <1>3. CASE how = "id"
    BY <1>3, <1>2 DEF Answer
  <1>4. CASE how # "good" /\ how # "id"
    <2>1. Answer(how) = (Report(hub) + 128) % 256
      BY <1>4 DEF Answer
    <2>. QED  BY <2>1, <1>2, Zenon
  <1>5. CASE how = "good"
    BY <1>5 DEF Answer
  <1>. QED  BY <1>3, <1>4, <1>5

LEMMA SeenOfReport ==
  ASSUME state \in Screen, NEW h \in Screen, NEW first \in BOOLEAN
  PROVE  /\ Seen(Report(h), first) \in Screen
         /\ Seen(Report(h), first).level \in {state.level, h.level} \/ (first /\ h.blanked)
         /\ ~h.blanked => Seen(Report(h), first).level = h.level
         /\ Seen(Report(h), first).blanked = h.blanked
  <1>. DEFINE n == Report(h)
  <1>1. LevelOf(n) = (IF h.blanked THEN 0 ELSE h.level) /\ BlankedOf(n) = h.blanked
        /\ LidOpenOf(n) = h.lidOpen
    BY ReportTells
  <1>2. h.level \in 0..10 /\ state.level \in 0..10 /\ h.blanked \in BOOLEAN /\ h.lidOpen \in BOOLEAN
    BY DEF Screen, Level, Full
  <1>3. LevelOf(n) \in 0..10
    <2>. HIDE DEF n
    <2>. QED BY <1>1, <1>2
  <1>. DEFINE v == IF LevelOf(n) \in Level /\ (first \/ ~BlankedOf(n) \/ LevelOf(n) # 0)
                   THEN LevelOf(n) ELSE state.level
  <1>4. Seen(n, first) = [level |-> v, blanked |-> BlankedOf(n), lidOpen |-> LidOpenOf(n)]
    BY DEF Seen
  <1>5. v \in 0..10 /\ (v \in {state.level, h.level} \/ (first /\ h.blanked))
        /\ (~h.blanked => v = h.level)
    <2>. HIDE DEF n
    <2>. QED BY <1>1, <1>2, <1>3 DEF Level, Full
  <1>. HIDE DEF n, v
  <1>6. [level |-> v, blanked |-> BlankedOf(n), lidOpen |-> LidOpenOf(n)] \in Screen
    BY <1>1, <1>2, <1>5 DEF Screen, Level, Full
  <1>. QED  BY <1>1, <1>4, <1>5, <1>6 DEF n

-----------------------------------------------------------------------------
LEMMA MoreKnown ==
  ASSUME NEW a, NEW b, a \subseteq b, NEW q \in Seq(Queued(a))
  PROVE  q \in Seq(Queued(b))
  <1>1. Queued(a) \subseteq Queued(b)
    BY DEF Queued
  <1>. QED  BY <1>1

\* Taking a change from the queue.
LEMMA BeginKeeps ==
  ASSUME LevelsAreKnown, state.level \in Possible, NEW levels, Possible \subseteq levels, levels \subseteq Level,
         NEW q \in Seq(Queued(levels)), NEW who \in {"spi"} \cup Thread, Begin(q, who)
  PROVE  /\ state' \in Screen /\ state'.level \in levels
         /\ queue' \in Seq(Queued(levels))
         /\ by' \in {"spi"} \cup Thread /\ stage' = "transfer"
         /\ byte' = Fetch \/ \E s \in Screen : s.level \in levels /\ byte' = Bits(s)
  <1>0. by' = who /\ stage' = "transfer"
    BY DEF Begin
  <1>1. CASE q = <<>>
    <2>1. queue \in Seq(Queued(levels))
      BY MoreKnown DEF LevelsAreKnown
    <2>. QED  BY <1>0, <1>1, <2>1 DEF Begin, LevelsAreKnown
  <1>2. CASE q # <<>>
    <2>1. state' = Applied(Head(q)) /\ byte' = Bits(state') /\ queue' = Tail(q)
      BY <1>2 DEF Begin
    <2>2. Head(q) \in Queued(levels) /\ Tail(q) \in Seq(Queued(levels))
      BY <1>2, HeadTailProperties
    <2>3. Applied(Head(q)) \in Screen /\ Applied(Head(q)).level \in levels
      <3>1. CASE Head(q) = <<"init">>
        <4>1. Head(q)[1] = "init"
          BY <3>1
        <4>2. Applied(Head(q)) = state
          BY <4>1 DEF Applied
        <4>. QED  BY <4>2 DEF LevelsAreKnown
      <3>2. CASE Head(q) = Blank \/ Head(q) = Unblank
        <4>1. Head(q)[1] = "blank" \/ Head(q)[1] = "unblank"
          BY <3>2 DEF Blank, Unblank
        <4>2. \E b \in BOOLEAN : Applied(Head(q)) = [state EXCEPT !.blanked = b]
          BY <4>1 DEF Applied
        <4>. QED  BY <4>2 DEF LevelsAreKnown, Screen
      <3>3. CASE \E n \in levels : Head(q) = SetTo(n)
        <4>1. PICK n \in levels : Head(q) = SetTo(n)
          BY <3>3
        <4>2. Head(q)[1] = "level" /\ Head(q)[2] = n /\ n \in Level
          BY <4>1 DEF SetTo
        <4>3. Applied(Head(q)) = [state EXCEPT !.level = n]
          BY <4>2 DEF Applied
        <4>. QED  BY <4>2, <4>3 DEF LevelsAreKnown, Screen
      <3>. QED  BY <2>2, <3>1, <3>2, <3>3 DEF Queued
    <2>. HIDE DEF Bits
    <2>. QED  BY <1>0, <2>1, <2>2, <2>3
  <1>. QED  BY <1>1, <1>2

LEMMA LidIsWish ==
  ASSUME NEW n
  PROVE  LidCallback(n) \in Seq({Blank, Unblank})
  <1>1. <<>> \in Seq({Blank, Unblank}) /\ <<Blank>> \in Seq({Blank, Unblank}) /\ <<Unblank>> \in Seq({Blank, Unblank})
    OBVIOUS
  <1>. QED  BY <1>1, Zenon DEF LidCallback

-----------------------------------------------------------------------------
LEMMA InitKnown == Init => LevelsAreKnown
  <1>. SUFFICES ASSUME Init PROVE LevelsAreKnown
    OBVIOUS
  <1>1. hub \in Screen /\ (LitAtFirst => ~hub.blanked)
    BY SpiAssumption DEF Init, Screen, LitAtFirst
  <1>2. state \in Screen
    BY DEF Init, Screen, Level, Full
  <1>3. known \subseteq Level /\ hub.level \in Possible
    BY <1>1 DEF Init, Screen, Possible
  <1>4. todo \in [Thread -> Seq(Wish)] /\ queue \in Seq(Queued(Possible))
    BY DEF Init
  <1>. QED  BY <1>1, <1>2, <1>3, <1>4 DEF Init, LevelsAreKnown

LEMMA InitialReadKeeps == LevelsAreKnown /\ InitialRead => LevelsAreKnown'
  <1>. SUFFICES ASSUME LevelsAreKnown, InitialRead PROVE LevelsAreKnown'
    OBVIOUS
  <1>1. PICK how : Outcome(how) /\ 
          LET valid == IsState(Answer(how)) /\ Answer(how) # 0 IN
            IF valid /\ stage = "again"
            THEN /\ state' = Seen(Answer(how), TRUE)
                 /\ queue' = <<<<"init">>>>
                 /\ thread' = "loop" /\ polling' = TRUE
                 /\ stage' = "rest" /\ tries' = 0
            ELSE /\ tries' = tries + 1
                 /\ stage' = IF valid THEN "again" ELSE stage
                 /\ thread' = IF tries' = Tries THEN "absent" ELSE "new"
                 /\ UNCHANGED <<state, queue, polling>>
    BY DEF InitialRead
  <1>2. byte = Fetch /\ (LitAtFirst => ~hub.blanked) /\ Takes(byte) = hub /\ hub' = hub /\ stage \in {"first", "again"}
    BY <1>1, TakesKnown DEF InitialRead, Outcome, LevelsAreKnown
  <1>3. UNCHANGED <<by, byte, todo, known, Possible>>
    BY DEF InitialRead, callers, history, Possible
  <1>4. CASE IsState(Answer(how)) /\ Answer(how) # 0 /\ stage = "again"
    <2>1. state' = Seen(Answer(how), TRUE) /\ queue' = <<<<"init">>>> /\ thread' = "loop" /\ stage' = "rest"
      BY <1>1, <1>4
    <2>2. Answer(how) = Report(hub)
      BY <1>2, <1>4, AnswerIsReport
    <2>3. state' \in Screen /\ state'.level \in Possible
      <3>1. /\ Seen(Report(hub), TRUE) \in Screen
            /\ ~hub.blanked => Seen(Report(hub), TRUE).level = hub.level
        BY SeenOfReport DEF LevelsAreKnown
      <3>2. hub.level \in Possible /\ (~LitAtFirst => Possible = Level)
        BY DEF LevelsAreKnown, Possible
      <3>3. state' \in Screen /\ (~hub.blanked => state'.level = hub.level)
        BY <2>1, <2>2, <3>1
      <3>. QED  BY <1>2, <3>2, <3>3 DEF Screen
    <2>4. queue' \in Seq(Queued(Possible'))
      BY <2>1 DEF Queued
    <2>. QED  BY <1>2, <1>3, <2>1, <2>3, <2>4 DEF LevelsAreKnown
  <1>5. CASE ~(IsState(Answer(how)) /\ Answer(how) # 0 /\ stage = "again")
    <2>1. thread' \in {"new", "absent"} /\ stage' \in {"first", "again"} /\ UNCHANGED <<state, queue>>
      BY <1>1, <1>2, <1>5
    <2>. QED  BY <1>2, <1>3, <2>1 DEF LevelsAreKnown
  <1>. QED  BY <1>4, <1>5

LEMMA SendKeeps == LevelsAreKnown /\ Send => LevelsAreKnown'
  <1>. SUFFICES ASSUME LevelsAreKnown, Send PROVE LevelsAreKnown'
    OBVIOUS
  <1>1. thread = "loop" /\ Begin(queue, "spi") /\ UNCHANGED <<hub, thread, todo, known, Possible>>
    BY DEF Send, callers, history, Possible
  <1>2. state.level \in Possible /\ queue \in Seq(Queued(Possible)) /\ Possible \subseteq Level
    BY <1>1 DEF LevelsAreKnown, Possible
  <1>3. /\ state' \in Screen /\ state'.level \in Possible
        /\ queue' \in Seq(Queued(Possible))
        /\ by' \in {"spi"} \cup Thread /\ stage' = "transfer"
        /\ byte' = Fetch \/ \E s \in Screen : s.level \in Possible /\ byte' = Bits(s)
    BY <1>1, <1>2, BeginKeeps
  <1>. HIDE DEF Bits
  <1>. QED  BY <1>1, <1>3 DEF LevelsAreKnown

LEMMA ExchangeKeeps == LevelsAreKnown /\ Exchange => LevelsAreKnown'
  <1>. SUFFICES ASSUME LevelsAreKnown, Exchange PROVE LevelsAreKnown'
    OBVIOUS
  <1>0. stage = "transfer" /\ thread \in {"loop", "ending", "dead"} /\ state.level \in Possible
        /\ UNCHANGED <<thread, by, known, Possible>>
    BY DEF Exchange, LevelsAreKnown, Possible
  <1>1. PICK how \in {"good"} \cup scenario.failures :
          /\ Outcome(how)
          /\ IF IsState(Answer(how))
             THEN LET lid == LidCallback(Answer(how)) IN
                  /\ state' = Seen(Answer(how), FALSE)
                  /\ stage' = "sync" /\ tries' = 0 /\ byte' = Fetch
                  /\ IF by = "spi" THEN queue' = queue \o lid /\ UNCHANGED todo
                                   ELSE todo' = [todo EXCEPT ![by] = lid \o @] /\ UNCHANGED queue
             ELSE stage' = "rest" /\ UNCHANGED <<state, queue, todo, byte>>
    BY DEF Exchange
  <1>2. hub' \in Screen /\ hub'.level \in Possible
    BY <1>1, TakesKnown DEF Outcome, LevelsAreKnown
  <1>3. CASE ~IsState(Answer(how))
    <2>1. stage' = "rest" /\ UNCHANGED <<state, queue, todo, byte>>
      BY <1>1, <1>3
    <2>. QED  BY <1>0, <1>2, <2>1 DEF LevelsAreKnown
  <1>4. CASE IsState(Answer(how))
    <2>. DEFINE lid == LidCallback(Answer(how))
    <2>1. /\ state' = Seen(Answer(how), FALSE)
          /\ stage' = "sync" /\ byte' = Fetch
          /\ IF by = "spi" THEN queue' = queue \o lid /\ UNCHANGED todo
                           ELSE todo' = [todo EXCEPT ![by] = lid \o @] /\ UNCHANGED queue
      BY <1>1, <1>4
    <2>2. Answer(how) = Report(hub)
      BY <1>4, AnswerIsReport
    <2>3. hub.level \in Possible /\ hub \in Screen
      BY DEF LevelsAreKnown
    <2>4. state' \in Screen /\ state'.level \in Possible
      <3>1. Seen(Report(hub), FALSE) \in Screen /\ Seen(Report(hub), FALSE).level \in {state.level, hub.level}
        BY SeenOfReport DEF LevelsAreKnown
      <3>. HIDE DEF Seen, Report
      <3>. QED  BY <1>0, <2>1, <2>2, <2>3, <3>1
    <2>5. lid \in Seq({Blank, Unblank})
      BY LidIsWish
    <2>6. lid \in Seq(Queued(Possible)) /\ lid \in Seq(Wish)
      <3>1. {Blank, Unblank} \subseteq Queued(Possible) /\ {Blank, Unblank} \subseteq Wish
        BY DEF Queued, Wish
      <3>. HIDE DEF lid
      <3>. QED  BY <2>5, <3>1
    <2>7. queue' \in Seq(Queued(Possible)) /\ todo' \in [Thread -> Seq(Wish)]
      <3>. HIDE DEF lid
      <3>1. CASE by = "spi"
        BY <2>1, <2>6, <3>1, ConcatProperties DEF LevelsAreKnown
      <3>2. CASE by # "spi"
        <4>1. by \in Thread /\ todo[by] \in Seq(Wish)
          BY <3>2 DEF LevelsAreKnown
        <4>2. lid \o todo[by] \in Seq(Wish)
          BY <2>6, <4>1, ConcatProperties
        <4>. QED  BY <2>1, <3>2, <4>1, <4>2 DEF LevelsAreKnown
      <3>. QED  BY <3>1, <3>2
    <2>. HIDE DEF lid
    <2>. QED  BY <1>0, <1>2, <2>1, <2>4, <2>7 DEF LevelsAreKnown
  <1>. QED  BY <1>3, <1>4

LEMMA SyncKeeps == LevelsAreKnown /\ Sync => LevelsAreKnown'
  <1>. SUFFICES ASSUME LevelsAreKnown, Sync PROVE LevelsAreKnown'
    OBVIOUS
  <1>1. PICK how : Outcome(how) /\ stage' \in {"rest", "sync"}
    BY DEF Sync
  <1>2. hub' \in Screen /\ hub'.level \in Possible
    BY <1>1, TakesKnown DEF Outcome, LevelsAreKnown
  <1>3. stage = "sync" /\ UNCHANGED <<state, queue, thread, by, byte, todo, known, Possible>>
    BY DEF Sync, callers, history, Possible
  <1>. QED  BY <1>1, <1>2, <1>3 DEF LevelsAreKnown

LEMMA RaiseKeeps == LevelsAreKnown /\ Raise => LevelsAreKnown'
  <1>. SUFFICES ASSUME LevelsAreKnown, Raise PROVE LevelsAreKnown'
    OBVIOUS
  <1>1. stage \in {"transfer", "sync"} /\ stage' = "rest" /\ UNCHANGED <<hub, state, queue, by, byte, known, Possible>>
    BY DEF Raise, Possible
  <1>2. thread' \in {"loop", "ending", "dead"} /\ todo' \in [Thread -> Seq(Wish)]
    <2>1. thread \in {"loop", "ending", "dead"} /\ todo \in [Thread -> Seq(Wish)]
          /\ <<>> \in Seq(Wish)
      BY <1>1 DEF LevelsAreKnown
    <2>2. \/ thread' = "ending" /\ todo' = todo
          \/ thread' = thread /\ todo' = [todo EXCEPT ![by] = <<>>]
      BY DEF Raise
    <2>. QED  BY <2>1, <2>2
  <1>. QED  BY <1>1, <1>2 DEF LevelsAreKnown

LEMMA PutKeeps ==
  ASSUME LevelsAreKnown, NEW t \in Thread, Put(t)
  PROVE  LevelsAreKnown'
  <1>. DEFINE change == Head(todo[t])
  <1>1. todo[t] # <<>> /\ todo[t] \in Seq(Wish) /\ change[1] \in {"level", "blank", "unblank"}
    BY DEF Put, LevelsAreKnown
  <1>2. change \in Wish /\ Tail(todo[t]) \in Seq(Wish)
    BY <1>1, HeadTailProperties
  <1>3. /\ \/ /\ thread \in {"loop", "ending"}
              /\ queue' = Append(queue, change)
              /\ UNCHANGED <<state, stage, by, byte, tries>>
           \/ /\ thread = "dead" /\ stage = "rest"
              /\ Begin(Append(queue, change), t)
        /\ known' = IF change[1] = "level" THEN known \cup {change[2]} ELSE known
        /\ todo' = [todo EXCEPT ![t] = Tail(@)]
        /\ UNCHANGED <<hub, thread>>
    BY DEF Put, exchange
  <1>4. known' \subseteq Level /\ Possible \subseteq Possible' /\ Possible' \subseteq Level /\ change \in Queued(Possible')
    <2>1. CASE change \in {Blank, Unblank}
      <3>1. change[1] # "level"
        BY <2>1 DEF Blank, Unblank
      <3>. QED  BY <1>3, <2>1, <3>1 DEF Queued, LevelsAreKnown, Possible
    <2>2. CASE change \in {SetTo(n) : n \in Level}
      <3>1. PICK n \in Level : change = SetTo(n)
        BY <2>2
      <3>2. change[1] = "level" /\ change[2] = n
        BY <3>1 DEF SetTo
      <3>3. known' = known \cup {n}
        BY <1>3, <3>2
      <3>. QED  BY <3>1, <3>3 DEF Queued, LevelsAreKnown, Possible
    <2>3. CASE change \in {<<"inc">>, <<"dec">>} \cup {<<"set", n>> : n \in Level}
      <3>1. change[1] \in {"inc", "dec", "set"}
        BY <2>3
      <3>. QED  BY <1>1, <3>1
    <2>. QED  BY <1>2, <2>1, <2>2, <2>3 DEF Wish
  <1>5. Append(queue, change) \in Seq(Queued(Possible'))
    <2>1. queue \in Seq(Queued(Possible'))
      BY <1>4, MoreKnown DEF LevelsAreKnown
    <2>. HIDE DEF change
    <2>. QED  BY <1>4, <2>1, AppendProperties
  <1>6. todo' \in [Thread -> Seq(Wish)]
    BY <1>2, <1>3 DEF LevelsAreKnown
  <1>7. hub' \in Screen /\ hub'.level \in Possible'
    BY <1>3, <1>4 DEF LevelsAreKnown
  <1>. HIDE DEF change, Bits
  <1>8. CASE thread \in {"loop", "ending"}
    <2>1. queue' = Append(queue, change) /\ UNCHANGED <<state, stage, by, byte>>
      BY <1>3, <1>8
    <2>2. byte' = Fetch \/ \E s \in Screen : s.level \in Possible' /\ byte' = Bits(s)
      BY <1>4, <2>1 DEF LevelsAreKnown
    <2>. QED  BY <1>3, <1>4, <1>5, <1>6, <1>7, <1>8, <2>1, <2>2 DEF LevelsAreKnown
  <1>9. CASE thread = "dead" /\ stage = "rest"
    <2>1. state.level \in Possible /\ Begin(Append(queue, change), t)
      BY <1>3, <1>9 DEF LevelsAreKnown
    <2>2. /\ state' \in Screen /\ state'.level \in Possible'
          /\ queue' \in Seq(Queued(Possible'))
          /\ by' \in {"spi"} \cup Thread /\ stage' = "transfer"
          /\ byte' = Fetch \/ \E s \in Screen : s.level \in Possible' /\ byte' = Bits(s)
      BY <1>4, <1>5, <2>1, BeginKeeps
    <2>. QED  BY <1>3, <1>4, <1>6, <1>7, <1>9, <2>2 DEF LevelsAreKnown
  <1>. QED  BY <1>3, <1>8, <1>9

LEMMA AdjustKeeps ==
  ASSUME LevelsAreKnown, NEW t \in Thread, Adjust(t)
  PROVE  LevelsAreKnown'
  <1>. DEFINE ask == Head(todo[t])
              value == Clipped(ask)
              new == IF value < 0 THEN <<>>
                     ELSE IF state.blanked THEN <<Unblank, SetTo(value)>> ELSE <<SetTo(value)>>
  <1>1. todo[t] # <<>> /\ todo[t] \in Seq(Wish) /\ ask[1] \in {"set", "inc", "dec"}
    BY DEF Adjust, LevelsAreKnown
  <1>2. ask \in Wish /\ Tail(todo[t]) \in Seq(Wish)
    BY <1>1, HeadTailProperties
  <1>3. todo' = [todo EXCEPT ![t] = new \o Tail(@)]
        /\ UNCHANGED <<hub, state, queue, thread, stage, by, byte, known, Possible>>
    BY DEF Adjust, exchange, history, Possible
  <1>4. state.level \in 0..10
    BY DEF LevelsAreKnown, Screen, Level, Full
  <1>5. value \in Int /\ (value >= 0 => value \in Level)
    <2>1. CASE ask[1] = "set"
      <3>1. \E n \in Level : ask = <<"set", n>>
        <4>1. CASE ask \in {Blank, Unblank, <<"inc">>, <<"dec">>}
          BY <2>1, <4>1 DEF Blank, Unblank
        <4>2. CASE ask \in {SetTo(n) : n \in Level}
          BY <2>1, <4>2 DEF SetTo
        <4>. QED  BY <1>2, <4>1, <4>2 DEF Wish
      <3>2. ask[2] \in Level
        BY <3>1
      <3>3. value = ask[2]
        BY <2>1 DEF Clipped
      <3>. QED  BY <3>2, <3>3 DEF Level, Full
    <2>2. CASE ask[1] = "inc"
      <3>1. value = IF state.level < Full THEN state.level + 1 ELSE Full
        BY <2>2 DEF Clipped
      <3>. QED  BY <1>4, <3>1 DEF Level, Full
    <2>3. CASE ask[1] = "dec"
      <3>1. value = state.level - 1
        BY <2>3 DEF Clipped
      <3>. QED  BY <1>4, <3>1 DEF Level, Full
    <2>. QED  BY <1>1, <2>1, <2>2, <2>3
  <1>. HIDE DEF value
  <1>6. new \in Seq(Wish)
    <2>1. CASE value < 0
      BY <2>1
    <2>2. CASE ~(value < 0)
      <3>1. SetTo(value) \in Wish /\ Unblank \in Wish
        BY <1>5, <2>2 DEF Wish
      <3>2. <<Unblank, SetTo(value)>> \in Seq(Wish) /\ <<SetTo(value)>> \in Seq(Wish)
        BY <3>1
      <3>. QED  BY <2>2, <3>2
    <2>. QED  BY <2>1, <2>2
  <1>. HIDE DEF new
  <1>7. new \o Tail(todo[t]) \in Seq(Wish)
    BY <1>2, <1>6, ConcatProperties
  <1>8. todo' \in [Thread -> Seq(Wish)]
    BY <1>3, <1>7 DEF LevelsAreKnown
  <1>. HIDE DEF Bits
  <1>. QED  BY <1>3, <1>8 DEF LevelsAreKnown

LEMMA AskKeeps ==
  ASSUME LevelsAreKnown, NEW t \in Thread, NEW what \in Seq(Wish), Ask(t, what)
  PROVE  LevelsAreKnown'
  <1>1. todo' = [todo EXCEPT ![t] = what]
        /\ UNCHANGED <<hub, state, queue, thread, stage, by, byte, known, Possible>>
    BY DEF Ask, exchange, history, Possible
  <1>. HIDE DEF Bits
  <1>. QED  BY <1>1 DEF LevelsAreKnown

LEMMA ClientsKeep ==
  ASSUME LevelsAreKnown, Request \/ IdleCallback \/ Warning
  PROVE  LevelsAreKnown'
  <1>1. Levels \subseteq Level
    BY SpiAssumption
  <1>2. /\ <<Blank>> \in Seq(Wish) /\ <<Unblank>> \in Seq(Wish)
        /\ \A n \in Levels : <<Unblank, <<"set", n>>>> \in Seq(Wish)
        /\ \A name \in {"inc", "dec"} : <<Unblank, <<name>>>> \in Seq(Wish)
    BY <1>1 DEF Wish
  <1>3. PICK t \in Thread : \E what \in Seq(Wish) : Ask(t, what)
    <2>1. CASE Request
      <3>1. "request" \in Thread
        BY DEF Thread
      <3>2. CASE \E n \in Levels : Ask("request", <<Unblank, <<"set", n>>>>)
        BY <1>2, <3>1, <3>2
      <3>3. CASE \E name \in {"inc", "dec"} : Ask("request", <<Unblank, <<name>>>>)
        BY <1>2, <3>1, <3>3
      <3>4. CASE \E change \in {Blank, Unblank} : Ask("request", <<change>>)
        BY <1>2, <3>1, <3>4
      <3>. QED  BY <2>1, <3>2, <3>3, <3>4 DEF Request
    <2>2. CASE IdleCallback
      BY <1>2, <2>2 DEF IdleCallback, Thread
    <2>3. CASE Warning
      BY <1>2, <2>3 DEF Warning, Thread
    <2>. QED  BY <2>1, <2>2, <2>3
  <1>. QED  BY <1>3, AskKeeps

LEMMA OthersKeep ==
  ASSUME LevelsAreKnown, End \/ Die \/ MoveLid \/ StopUnblank \/ StopPolling \/ JoinSpi \/ UNCHANGED vars
  PROVE  LevelsAreKnown'
  <1>. HIDE DEF Bits
  <1>1. CASE End \/ Die
    BY <1>1 DEF End, Die, exchange, callers, history, LevelsAreKnown, Possible
  <1>2. CASE MoveLid
    <2>1. hub' = [hub EXCEPT !.lidOpen = ~@]
          /\ UNCHANGED <<state, queue, thread, stage, by, byte, todo, known, Possible>>
      BY <1>2 DEF MoveLid, exchange, callers, history, Possible
    <2>2. hub' \in Screen /\ hub'.level = hub.level /\ hub'.blanked = hub.blanked
      BY <2>1 DEF LevelsAreKnown, Screen
    <2>. QED  BY <2>1, <2>2 DEF LevelsAreKnown
  <1>3. CASE StopUnblank
    <2>1. <<Unblank>> \in Seq(Wish)
      BY DEF Wish
    <2>2. todo' = [todo EXCEPT !["main"] = <<Unblank>>]
          /\ UNCHANGED <<hub, state, queue, thread, stage, by, byte, known, Possible>>
      BY <1>3 DEF StopUnblank, exchange, history, Possible
    <2>. QED  BY <2>1, <2>2 DEF LevelsAreKnown
  <1>4. CASE StopPolling \/ JoinSpi
    BY <1>4 DEF StopPolling, JoinSpi, exchange, history, LevelsAreKnown, Possible
  <1>5. CASE UNCHANGED vars
    BY <1>5 DEF vars, exchange, callers, history, LevelsAreKnown, Possible
  <1>. QED  BY <1>1, <1>2, <1>3, <1>4, <1>5

\* Every step keeps them.
LEMMA StepKeepsLevels == LevelsAreKnown /\ [Next]_vars => LevelsAreKnown'
  <1>. SUFFICES ASSUME LevelsAreKnown, [Next]_vars PROVE LevelsAreKnown'
    OBVIOUS
  <1>1. CASE InitialRead  BY <1>1, InitialReadKeeps
  <1>2. CASE Send  BY <1>2, SendKeeps
  <1>3. CASE Exchange  BY <1>3, ExchangeKeeps
  <1>4. CASE Sync  BY <1>4, SyncKeeps
  <1>5. CASE Raise  BY <1>5, RaiseKeeps
  <1>6. CASE \E t \in Thread : Put(t) \/ Adjust(t)  BY <1>6, PutKeeps, AdjustKeeps
  <1>7. CASE Request \/ IdleCallback \/ Warning  BY <1>7, ClientsKeep
  <1>8. CASE End \/ Die \/ MoveLid \/ StopUnblank \/ StopPolling \/ JoinSpi \/ UNCHANGED vars
    BY <1>8, OthersKeep
  <1>. QED  BY <1>1, <1>2, <1>3, <1>4, <1>5, <1>6, <1>7, <1>8 DEF Next, Spi

\* A screen that was lit when the service started never has a brightness that it
\* did not have and nobody asked for, for every number of requests and failures
\* (_process_spi_resp).
THEOREM BrightnessKept ==
  ASSUME Starts = {FALSE}
  PROVE  Spec => []BrightnessIsKept
  <1>1. Init => LevelsAreKnown
    BY InitKnown
  <1>2. LevelsAreKnown => BrightnessIsKept
    BY DEF LevelsAreKnown, Possible, LitAtFirst, BrightnessIsKept
  <1>. QED  BY <1>1, <1>2, StepKeepsLevels, PTL DEF Spec

-----------------------------------------------------------------------------
\* What the threads want of the screen, and what may be in the queue.
Levelling == {SetTo(n) : n \in Level}
Blanking == {Blank, Unblank}
Wanted == Levelling \cup Blanking
Change == Queued(Level)

\* Two screens are the same as to what a change is about.
Agree(change, one, other) ==
  IF Kind(change) = "level" THEN one.level = other.level ELSE one.blanked = other.blanked

LEMMA KindOf ==
  ASSUME NEW c \in Wanted
  PROVE  /\ c \in Change
         /\ \/ c \in Levelling /\ c[1] = "level"
            \/ c \in Blanking /\ c[1] \in {"blank", "unblank"}
  <1>1. CASE c \in Levelling
    <2>1. PICK n \in Level : c = SetTo(n)
      BY <1>1 DEF Levelling
    <2>2. c[1] = "level"
      BY <2>1 DEF SetTo
    <2>3. c \in Change
      BY <2>1 DEF Change, Queued
    <2>. QED  BY <1>1, <2>2, <2>3
  <1>2. CASE c = Blank
    <2>1. c[1] = "blank"
      BY <1>2 DEF Blank
    <2>. QED  BY <1>2, <2>1 DEF Change, Queued, Blanking
  <1>3. CASE c = Unblank
    <2>1. c[1] = "unblank"
      BY <1>3 DEF Unblank
    <2>. QED  BY <1>3, <2>1 DEF Change, Queued, Blanking
  <1>. QED  BY <1>1, <1>2, <1>3 DEF Wanted, Blanking

LEMMA AgreeDoes ==
  ASSUME NEW c \in Wanted, NEW one, NEW other, Agree(c, one, other), Does(one, c)
  PROVE  Does(other, c)
  <1>1. CASE c[1] = "level"
    BY <1>1 DEF Agree, Kind, Does
  <1>2. CASE c[1] = "blank"
    BY <1>2 DEF Agree, Kind, Does
  <1>3. CASE c[1] = "unblank"
    BY <1>3 DEF Agree, Kind, Does
  <1>. QED  BY <1>1, <1>2, <1>3, KindOf

\* What a change makes of State.
LEMMA AppliedDoes ==
  ASSUME state \in Screen, NEW c \in Change
  PROVE  /\ Applied(c) \in Screen /\ Applied(c).lidOpen = state.lidOpen
         /\ c \in Wanted \/ c = <<"init">>
         /\ c \in Wanted => Does(Applied(c), c)
         /\ Kind(c) \in {"level", "screen"}
         /\ Kind(c) # "level" => Applied(c).level = state.level
         /\ Kind(c) # "screen" => Applied(c).blanked = state.blanked
  <1>1. CASE c = <<"init">>
    <2>1. c[1] = "init"
      BY <1>1
    <2>2. Applied(c) = state /\ c \notin Wanted /\ Kind(c) = "screen"
      BY <2>1, KindOf DEF Applied, Kind
    <2>. QED  BY <1>1, <2>2
  <1>2. CASE c \in Levelling
    <2>1. PICK n \in Level : c = SetTo(n)
      BY <1>2 DEF Levelling
    <2>2. c[1] = "level" /\ c[2] = n
      BY <2>1 DEF SetTo
    <2>3. Applied(c) = [state EXCEPT !.level = n] /\ Kind(c) = "level"
      BY <2>2 DEF Applied, Kind
    <2>4. Applied(c) \in Screen /\ Applied(c).level = n
          /\ Applied(c).blanked = state.blanked /\ Applied(c).lidOpen = state.lidOpen
      BY <2>3 DEF Screen
    <2>. QED  BY <1>2, <2>2, <2>3, <2>4 DEF Does, Wanted
  <1>3. CASE c \in Blanking
    <2>1. ASSUME NEW b \in BOOLEAN, c[1] = (IF b THEN "blank" ELSE "unblank")
          PROVE  /\ Applied(c) \in Screen /\ Applied(c).lidOpen = state.lidOpen
                 /\ Does(Applied(c), c) /\ Kind(c) = "screen"
                 /\ Applied(c).level = state.level
      <3>1. Applied(c) = [state EXCEPT !.blanked = b] /\ Kind(c) = "screen"
        BY <2>1 DEF Applied, Kind
      <3>2. Applied(c) \in Screen /\ Applied(c).blanked = b
            /\ Applied(c).level = state.level /\ Applied(c).lidOpen = state.lidOpen
        BY <3>1 DEF Screen
      <3>. QED  BY <2>1, <3>1, <3>2 DEF Does
    <2>2. CASE c = Blank
      <3>1. c[1] = "blank"
        BY <2>2 DEF Blank
      <3>. QED  BY <1>3, <2>1, <3>1 DEF Wanted
    <2>3. CASE c = Unblank
      <3>1. c[1] = "unblank"
        BY <2>3 DEF Unblank
      <3>. QED  BY <1>3, <2>1, <3>1 DEF Wanted
    <2>. QED  BY <1>3, <2>2, <2>3 DEF Blanking
  <1>. QED  BY <1>1, <1>2, <1>3 DEF Change, Queued, Blanking, Levelling

LEMMA NoFetch == ASSUME state \in Screen PROVE Bits(state) # Fetch
  <1>1. Bits(state) \in 0..254
    BY BitsCarry
  <1>. HIDE DEF Bits
  <1>. QED  BY <1>1 DEF Fetch

-----------------------------------------------------------------------------
\* The screen that the hub has, or is going to have when it has the byte.
Carries == stage = "transfer" /\ byte = Bits(state)
Target == IF Carries THEN state ELSE hub

\* A change is last in the queue, or the queue is empty and it is on its way or done.
Met(q, change) == IF q = <<>> THEN Does(Target, change) ELSE q[Len(q)] = change

ScenarioOK ==
  scenario \in [failures : SUBSET {"lost", "garbled", "id", "raises"}, ask : Nat, lid : Nat, fail : Nat]

LinkOK ==
  /\ ScenarioOK
  /\ stage = "transfer" => byte \in {Fetch, Bits(state)}
  /\ stage = "sync" => byte = Fetch
  /\ thread \in {"new", "absent"} => asked = {} /\ sent = {} /\ told = {}

AskedIsMet == asked \subseteq Wanted /\ \A c \in asked : Met(queue, c)

\* State has what the hub has told, as long as it is not changed.
ToldIsKnown ==
  /\ told \subseteq {"level", "screen"}
  /\ "level" \in told => state.level = hub.level
  /\ "screen" \in told => state.blanked = hub.blanked

SentStays == sent \subseteq Wanted /\ \A c \in sent : Does(Target, c)

LinkInv == LevelsAreKnown /\ LinkOK /\ AskedIsMet /\ ToldIsKnown /\ SentStays

LEMMA QueueOfChanges == LevelsAreKnown => queue \in Seq(Change)
  <1>. SUFFICES ASSUME LevelsAreKnown PROVE queue \in Seq(Change)
    OBVIOUS
  <1>1. Possible \subseteq Level
    BY DEF LevelsAreKnown, Possible
  <1>. QED  BY <1>1, MoreKnown DEF LevelsAreKnown, Change

\* Whatever is counted, what may fail stays the same.
SameKind == ScenarioOK' /\ scenario'.failures = scenario.failures

LEMMA CountKeeps ==
  ASSUME ScenarioOK, NEW what \in {"ask", "lid", "fail"}, Count(what)
  PROVE  SameKind
  <1>1. scenario[what] \in Nat /\ scenario[what] > 0 /\ scenario' = [scenario EXCEPT ![what] = scenario[what] - 1]
    BY DEF ScenarioOK, Count
  <1>2. scenario[what] - 1 \in Nat
    BY <1>1
  <1>3. CASE what = "ask"
    BY <1>1, <1>2, <1>3 DEF ScenarioOK, SameKind
  <1>4. CASE what = "lid"
    BY <1>1, <1>2, <1>4 DEF ScenarioOK, SameKind
  <1>5. CASE what = "fail"
    BY <1>1, <1>2, <1>5 DEF ScenarioOK, SameKind
  <1>. QED  BY <1>3, <1>4, <1>5

LEMMA SameScenario ==
  ASSUME ScenarioOK, [Next]_vars
  PROVE  SameKind
  <1>1. scenario' = scenario => SameKind
    BY DEF ScenarioOK, SameKind
  <1>2. \A what \in {"ask", "lid", "fail"} : Count(what) => SameKind
    BY CountKeeps
  <1>3. ASSUME NEW how, Outcome(how) PROVE SameKind
    BY <1>1, <1>2, <1>3 DEF Outcome
  <1>4. CASE InitialRead \/ Exchange \/ Sync
    <2>1. \E how : Outcome(how)
      BY <1>4 DEF InitialRead, Exchange, Sync
    <2>. QED  BY <1>3, <2>1
  <1>5. CASE Raise \/ MoveLid
    BY <1>2, <1>5 DEF Raise, MoveLid
  <1>6. CASE Request \/ IdleCallback \/ Warning
    <2>1. Count("ask")
      BY <1>6 DEF Request, IdleCallback, Warning, Ask
    <2>. QED  BY <1>2, <2>1
  <1>7. CASE \E t \in Thread : Put(t) \/ Adjust(t)
    BY <1>1, <1>7 DEF Put, Adjust
  <1>8. CASE Send \/ End \/ Die \/ StopUnblank \/ StopPolling \/ JoinSpi \/ UNCHANGED vars
    BY <1>1, <1>8 DEF Send, End, Die, StopUnblank, StopPolling, JoinSpi, vars
  <1>. QED
    BY <1>4, <1>5, <1>6, <1>7, <1>8 DEF Next, Spi

\* A change that is queued is met so.
LEMMA AppendMeets ==
  ASSUME NEW q \in Seq(Change), NEW c \in Change
  PROVE  /\ Append(q, c) \in Seq(Change) /\ Append(q, c) # <<>>
         /\ Append(q, c)[Len(Append(q, c))] = c
  BY AppendProperties, LenProperties

\* Taking the next change from the queue.
LEMMA BeginMeets ==
  ASSUME LinkInv, stage = "rest", NEW q \in Seq(Change), q = <<>> => queue = <<>>,
         NEW who, Begin(q, who), hub' = hub
  PROVE  /\ stage' = "transfer" /\ byte' \in {Fetch, Bits(state')}
         /\ state'.lidOpen = state.lidOpen
         /\ \A c \in Wanted : Met(q, c) => Met(queue, c)'
         /\ ToldIsKnown' /\ SentStays'
  <1>0. stage' = "transfer" /\ ~Carries /\ state \in Screen
    BY DEF Begin, Carries, LinkInv, LevelsAreKnown
  <1>. HIDE DEF Bits
  <1>1. CASE q = <<>>
    <2>1. byte' = Fetch /\ state' = state /\ queue' = q /\ sent' = sent /\ told' = told
      BY <1>1 DEF Begin
    <2>2. ~Carries' /\ Target' = Target
      BY <1>0, <2>1, NoFetch DEF Carries, Target
    <2>. QED  BY <1>0, <1>1, <2>1, <2>2 DEF Met, LinkInv, ToldIsKnown, SentStays
  <1>2. CASE q # <<>>
    <2>. DEFINE d == Head(q)
    <2>1. /\ state' = Applied(d) /\ byte' = Bits(state') /\ queue' = Tail(q)
          /\ sent' = {c \in sent : Kind(c) \in told \ {Kind(d)}} \cup ({d} \ {<<"init">>})
          /\ told' = told \ {Kind(d)}
      BY <1>2 DEF Begin
    <2>2. d \in Change
      BY <1>2, HeadTailProperties
    <2>3. \/ Tail(q) = <<>> /\ q[Len(q)] = d
          \/ Tail(q) # <<>> /\ Tail(q)[Len(Tail(q))] = q[Len(q)]
      <3>1. Len(q) \in Nat \ {0} /\ Len(Tail(q)) = Len(q) - 1 /\ d = q[1]
            /\ \A i \in 1..Len(Tail(q)) : Tail(q)[i] = q[i + 1]
        BY <1>2, HeadTailProperties, EmptySeq, LenProperties
      <3>2. Tail(q) = <<>> <=> Len(Tail(q)) = 0
        BY <1>2, HeadTailProperties, EmptySeq
      <3>3. CASE Tail(q) = <<>>
        <4>1. Len(q) = 1
          BY <3>1, <3>2, <3>3
        <4>. QED  BY <3>1, <3>3, <4>1
      <3>4. CASE Tail(q) # <<>>
        <4>1. PICK k : k = Len(Tail(q))
          OBVIOUS
        <4>2. k \in Nat /\ k # 0 /\ Len(q) = k + 1
          BY <3>1, <3>2, <3>4, <4>1
        <4>3. k \in 1..k
          BY <4>2
        <4>4. Tail(q)[k] = q[k + 1]
          BY <3>1, <4>1, <4>3
        <4>. QED  BY <3>4, <4>1, <4>2, <4>4
      <3>. QED  BY <3>3, <3>4
    <2>. HIDE DEF d
    <2>4. Target' = state' /\ Target = hub
      BY <1>0, <2>1 DEF Carries, Target
    <2>5. /\ state' \in Screen /\ state'.lidOpen = state.lidOpen
          /\ d \in Wanted \/ d = <<"init">>
          /\ d \in Wanted => Does(state', d)
          /\ Kind(d) \in {"level", "screen"}
          /\ Kind(d) # "level" => state'.level = state.level
          /\ Kind(d) # "screen" => state'.blanked = state.blanked
      BY <1>0, <2>1, <2>2, AppliedDoes
    <2>6. ASSUME NEW c \in Wanted, Met(q, c) PROVE Met(queue, c)'
      BY <1>2, <2>1, <2>3, <2>4, <2>5, <2>6 DEF Met
    <2>7. ToldIsKnown'
      BY <2>1, <2>5 DEF LinkInv, ToldIsKnown
    <2>8. sent' \subseteq Wanted
      BY <2>1, <2>5 DEF LinkInv, SentStays
    <2>9. ASSUME NEW c \in sent' PROVE Does(Target', c)
      <3>1. CASE c = d
        BY <2>4, <2>5, <2>8, <2>9, <3>1
      <3>2. CASE c \in sent /\ Kind(c) \in told \ {Kind(d)}
        <4>1. c \in Wanted /\ Does(hub, c)
          BY <2>4, <3>2 DEF LinkInv, SentStays
        <4>2. Kind(c) \in {"level", "screen"}
          BY DEF Kind
        <4>3. Agree(c, hub, state')
          BY <2>5, <3>2, <4>2 DEF Agree, LinkInv, ToldIsKnown
        <4>. QED  BY <2>4, <4>1, <4>3, AgreeDoes
      <3>. QED  BY <2>1, <2>9, <3>1, <3>2
    <2>. QED  BY <1>0, <2>1, <2>5, <2>6, <2>7, <2>8, <2>9 DEF SentStays
  <1>. QED  BY <1>1, <1>2

\* What leaves State, the link and the hub's screen alone leaves all as it was.
LEMMA UntouchedIsMet ==
  ASSUME LinkInv, SameKind, UNCHANGED <<state, queue, stage, byte, asked, sent, told>>,
         hub'.level = hub.level, hub'.blanked = hub.blanked,
         thread' \in {"new", "absent"} => thread \in {"new", "absent"}
  PROVE  LinkOK' /\ AskedIsMet' /\ ToldIsKnown' /\ SentStays'
  <1>1. ASSUME NEW c \in Wanted, Does(Target, c) PROVE Does(Target', c)
    <2>1. Agree(c, Target, Target')
      BY DEF Agree, Target, Carries
    <2>. QED  BY <1>1, <2>1, AgreeDoes
  <1>2. \A c \in Wanted : Met(queue, c) => Met(queue, c)'
    BY <1>1 DEF Met
  <1>. QED  BY <1>1, <1>2 DEF LinkInv, LinkOK, AskedIsMet, ToldIsKnown, SentStays, SameKind

LEMMA InitialReadMeets ==
  ASSUME LinkInv, InitialRead, SameKind
  PROVE  LinkOK' /\ AskedIsMet' /\ ToldIsKnown' /\ SentStays'
  <1>1. thread = "new" /\ stage \in {"first", "again"} /\ UNCHANGED <<asked, sent, told>>
    BY DEF InitialRead, LinkInv, LevelsAreKnown, history
  <1>2. stage' \in {"rest", "first", "again"}
    BY <1>1 DEF InitialRead
  <1>. QED  BY <1>1, <1>2 DEF LinkInv, LinkOK, AskedIsMet, ToldIsKnown, SentStays, SameKind

LEMMA SendMeets ==
  ASSUME LinkInv, Send, SameKind
  PROVE  LinkOK' /\ AskedIsMet' /\ ToldIsKnown' /\ SentStays'
  <1>1. thread = "loop" /\ stage = "rest" /\ Begin(queue, "spi") /\ UNCHANGED <<hub, thread, asked>>
    BY DEF Send
  <1>2. queue \in Seq(Change)
    BY QueueOfChanges DEF LinkInv
  <1>3. /\ stage' = "transfer" /\ byte' \in {Fetch, Bits(state')}
        /\ \A c \in Wanted : Met(queue, c) => Met(queue, c)'
        /\ ToldIsKnown' /\ SentStays'
    BY <1>1, <1>2, BeginMeets
  <1>. HIDE DEF Bits
  <1>. QED  BY <1>1, <1>3 DEF LinkInv, LinkOK, AskedIsMet, SameKind

LEMMA PutMeets ==
  ASSUME LinkInv, NEW t \in Thread, Put(t), SameKind
  PROVE  LinkOK' /\ AskedIsMet' /\ ToldIsKnown' /\ SentStays'
  <1>0. PICK c : c = Head(todo[t])
    OBVIOUS
  <1>1. /\ todo[t] # <<>> /\ c[1] \in {"level", "blank", "unblank"}
        /\ \/ /\ thread \in {"loop", "ending"}
              /\ queue' = Append(queue, c)
              /\ UNCHANGED <<state, stage, byte, sent, told>>
           \/ /\ thread = "dead" /\ stage = "rest"
              /\ Begin(Append(queue, c), t)
        /\ asked' = {c}
        /\ UNCHANGED <<hub, thread>>
    BY <1>0 DEF Put, Note, exchange
  <1>2. c \in Wish
    <2>1. todo[t] \in Seq(Wish)
      BY DEF LinkInv, LevelsAreKnown
    <2>. QED  BY <1>0, <1>1, <2>1, HeadTailProperties
  <1>3. c \in Wanted
    BY <1>1, <1>2 DEF Wish, Wanted, Levelling, Blanking
  <1>. HIDE DEF Bits
  <1>4. queue \in Seq(Change) /\ c \in Change
    BY <1>3, QueueOfChanges, KindOf DEF LinkInv
  <1>5. /\ Append(queue, c) \in Seq(Change) /\ Append(queue, c) # <<>>
        /\ Append(queue, c)[Len(Append(queue, c))] = c
    BY <1>4, AppendMeets
  <1>6. CASE thread \in {"loop", "ending"}
    <2>1. queue' = Append(queue, c) /\ UNCHANGED <<hub, state, stage, byte, sent, told>>
      BY <1>1, <1>6
    <2>2. Met(queue, c)'
      BY <1>5, <2>1 DEF Met
    <2>3. SentStays' /\ ToldIsKnown'
      BY <2>1 DEF LinkInv, SentStays, ToldIsKnown, Target, Carries
    <2>. QED  BY <1>1, <1>3, <1>6, <2>1, <2>2, <2>3 DEF LinkInv, LinkOK, AskedIsMet, SameKind
  <1>7. CASE thread = "dead" /\ stage = "rest"
    <2>1. Begin(Append(queue, c), t)
      BY <1>1, <1>7
    <2>2. /\ stage' = "transfer" /\ byte' \in {Fetch, Bits(state')}
          /\ Met(Append(queue, c), c) => Met(queue, c)'
          /\ ToldIsKnown' /\ SentStays'
      BY <1>1, <1>3, <1>5, <1>7, <2>1, BeginMeets
    <2>3. Met(queue, c)'
      BY <1>5, <2>2 DEF Met
    <2>. QED  BY <1>1, <1>3, <1>7, <2>2, <2>3 DEF LinkInv, LinkOK, AskedIsMet, SameKind
  <1>. QED  BY <1>1, <1>6, <1>7

\* The byte makes of the hub what is in State, and nothing if it asks for its state.
LEMMA ExchangeTakes ==
  ASSUME LinkInv, stage = "transfer", hub' = Takes(byte), stage' # "transfer"
  PROVE  /\ Target' = hub'
         /\ hub'.level = Target.level /\ hub'.blanked = Target.blanked
         /\ byte = Fetch => hub' = hub
         /\ byte # Fetch => hub'.level = state.level /\ hub'.blanked = state.blanked
         /\ \A c \in Wanted : Does(Target, c) => Does(Target', c)
  <1>. HIDE DEF Bits, Takes
  <1>0. state \in Screen /\ hub \in Screen /\ Target' = hub'
    BY DEF LinkInv, LevelsAreKnown, Target, Carries
  <1>1. /\ hub'.level = Target.level /\ hub'.blanked = Target.blanked
        /\ byte = Fetch => hub' = hub
        /\ byte # Fetch => hub'.level = state.level /\ hub'.blanked = state.blanked
    <2>1. CASE byte = Fetch
      <3>1. hub' = hub /\ ~Carries
        BY <1>0, <2>1, NoFetch, TakesKnown DEF LinkInv, Carries
      <3>. QED  BY <2>1, <3>1 DEF Target
    <2>2. CASE byte = Bits(state)
      <3>1. hub' = [hub EXCEPT !.level = state.level, !.blanked = state.blanked] /\ byte # Fetch
        BY <1>0, <2>2, ChangeIsTaken, NoFetch
      <3>. QED  BY <1>0, <2>2, <3>1 DEF Target, Carries, Screen
    <2>. QED  BY <2>1, <2>2 DEF LinkInv, LinkOK
  <1>2. ASSUME NEW c \in Wanted, Does(Target, c) PROVE Does(Target', c)
    <2>1. Agree(c, Target, Target')
      BY <1>0, <1>1 DEF Agree
    <2>. QED  BY <1>2, <2>1, AgreeDoes
  <1>. QED  BY <1>0, <1>1, <1>2

\* What the answer tells is in State then, and what it does not tell stays there.
LEMMA ToldByAnswer ==
  ASSUME LinkInv, stage = "transfer", hub' = Takes(byte), stage' # "transfer",
         state' = Seen(Report(hub), FALSE),
         told' = IF byte = Fetch THEN told \cup Tells(Report(hub)) ELSE told
  PROVE  ToldIsKnown'
  <1>1. /\ state'.level \in {state.level, hub.level} /\ state'.blanked = hub.blanked
        /\ ~hub.blanked => state'.level = hub.level
    BY SeenOfReport DEF LinkInv, LevelsAreKnown
  <1>2. Tells(Report(hub)) = IF hub.blanked THEN {"screen"} ELSE {"level", "screen"}
    BY ReportTells DEF Tells, LinkInv, LevelsAreKnown
  <1>3. /\ byte = Fetch => hub' = hub
        /\ byte # Fetch => hub'.level = state.level /\ hub'.blanked = state.blanked
    BY ExchangeTakes
  <1>. HIDE DEF Takes, Report, Seen, Tells
  <1>4. told' \subseteq {"level", "screen"}
    BY <1>2 DEF LinkInv, ToldIsKnown
  <1>5. CASE byte = Fetch
    BY <1>1, <1>2, <1>3, <1>4, <1>5 DEF LinkInv, ToldIsKnown
  <1>6. CASE byte # Fetch
    BY <1>1, <1>3, <1>4, <1>6 DEF LinkInv, ToldIsKnown
  <1>. QED  BY <1>5, <1>6

LEMMA ExchangeMeets ==
  ASSUME LinkInv, Exchange, SameKind
  PROVE  LinkOK' /\ AskedIsMet' /\ ToldIsKnown' /\ SentStays'
  <1>0. stage = "transfer" /\ thread \in {"loop", "ending", "dead"} /\ thread' = thread
    BY DEF Exchange, LinkInv, LevelsAreKnown
  <1>1. PICK how \in {"good"} \cup scenario.failures :
          /\ Outcome(how)
          /\ IF IsState(Answer(how))
             THEN LET lid == LidCallback(Answer(how)) IN
                  /\ state' = Seen(Answer(how), FALSE)
                  /\ stage' = "sync" /\ byte' = Fetch
                  /\ IF by = "spi" THEN queue' = queue \o lid ELSE UNCHANGED queue
                  /\ IF by = "spi" /\ lid # <<>> THEN asked' = {lid[1]} ELSE UNCHANGED asked
                  /\ told' = IF byte = Fetch THEN told \cup Tells(Answer(how)) ELSE told
                  /\ UNCHANGED sent
             ELSE /\ stage' = "rest"
                  /\ IF how = "id" THEN UNCHANGED <<asked, sent>> ELSE asked' = {} /\ sent' = {}
                  /\ UNCHANGED <<state, queue, byte, told>>
    BY DEF Exchange, Note, Forget
  <1>2. hub' = (IF how = "lost" THEN hub ELSE Takes(byte))
    BY <1>1 DEF Outcome
  <1>3. stage' # "transfer"
    BY <1>1
  <1>. HIDE DEF Bits, Takes
  <1>4. ASSUME ~IsState(Answer(how))
        PROVE  stage' = "rest" /\ ToldIsKnown'
    <2>1. stage' = "rest" /\ UNCHANGED <<state, told>>
      BY <1>1, <1>4
    <2>2. CASE how = "lost"
      BY <1>2, <2>1, <2>2 DEF LinkInv, ToldIsKnown
    <2>3. CASE how # "lost"
      <3>1. /\ byte = Fetch => hub' = hub
            /\ byte # Fetch => hub'.level = state.level /\ hub'.blanked = state.blanked
        BY <1>0, <1>2, <1>3, <2>3, ExchangeTakes
      <3>. QED  BY <2>1, <3>1 DEF LinkInv, ToldIsKnown
    <2>. QED  BY <2>1, <2>2, <2>3
  <1>5. CASE ~IsState(Answer(how)) /\ how = "id"
    <2>1. stage' = "rest" /\ hub' = Takes(byte) /\ UNCHANGED <<queue, asked, sent>>
      BY <1>1, <1>2, <1>5
    <2>2. \A c \in Wanted : Does(Target, c) => Does(Target', c)
      BY <1>0, <1>3, <2>1, ExchangeTakes
    <2>3. AskedIsMet' /\ SentStays'
      BY <2>1, <2>2 DEF LinkInv, AskedIsMet, SentStays, Met
    <2>. QED  BY <1>0, <1>4, <1>5, <2>1, <2>3 DEF LinkOK, SameKind
  <1>6. CASE ~IsState(Answer(how)) /\ how # "id"
    <2>1. stage' = "rest" /\ asked' = {} /\ sent' = {}
      BY <1>1, <1>6
    <2>. QED  BY <1>0, <1>4, <1>6, <2>1 DEF LinkOK, AskedIsMet, SentStays, SameKind
  <1>7. CASE IsState(Answer(how))
    <2>0. PICK lid : lid = LidCallback(Answer(how))
      OBVIOUS
    <2>. DEFINE c == lid[1]
    <2>1. /\ state' = Seen(Answer(how), FALSE)
          /\ stage' = "sync" /\ byte' = Fetch
          /\ IF by = "spi" THEN queue' = queue \o lid ELSE UNCHANGED queue
          /\ IF by = "spi" /\ lid # <<>> THEN asked' = {c} ELSE UNCHANGED asked
          /\ told' = IF byte = Fetch THEN told \cup Tells(Answer(how)) ELSE told
          /\ UNCHANGED sent
      BY <1>1, <1>7, <2>0
    <2>2. Answer(how) = Report(hub) /\ hub' = Takes(byte)
      BY <1>2, <1>7, AnswerIsReport DEF LinkInv
    <2>3. lid = <<>> \/ (lid = <<c>> /\ c \in Blanking)
      BY <2>0 DEF LidCallback, Blanking
    <2>4. ToldIsKnown'
      <3>1. state' = Seen(Report(hub), FALSE)
            /\ told' = IF byte = Fetch THEN told \cup Tells(Report(hub)) ELSE told
        BY <2>1, <2>2
      <3>. QED  BY <1>0, <1>3, <2>2, <3>1, ToldByAnswer
    <2>5. \A d \in Wanted : Does(Target, d) => Does(Target', d)
      BY <1>0, <1>3, <2>2, ExchangeTakes
    <2>6. SentStays'
      BY <2>1, <2>5 DEF LinkInv, SentStays
    <2>7. queue \in Seq(Change)
      BY QueueOfChanges DEF LinkInv
    <2>8. AskedIsMet'
      <3>1. CASE by = "spi" /\ lid # <<>>
        <4>1. c \in Wanted /\ c \in Change
          BY <2>3, <3>1, KindOf DEF Wanted
        <4>. HIDE DEF c
        <4>2. queue' = Append(queue, c) /\ asked' = {c}
          <5>1. lid = <<c>> /\ queue' = queue \o lid /\ asked' = {c}
            BY <2>1, <2>3, <3>1
          <5>2. queue' = queue \o <<c>>
            BY <5>1
          <5>. QED  BY <2>7, <4>1, <5>1, <5>2, AppendProperties
        <4>3. Met(queue, c)'
          BY <2>7, <4>1, <4>2, AppendMeets DEF Met
        <4>. QED  BY <4>1, <4>2, <4>3 DEF AskedIsMet
      <3>2. CASE ~(by = "spi" /\ lid # <<>>)
        <4>1. queue' = queue /\ asked' = asked
          BY <2>1, <2>7, <3>2, ConcatProperties
        <4>. QED  BY <2>5, <4>1 DEF LinkInv, AskedIsMet, Met
      <3>. QED  BY <3>1, <3>2
    <2>. QED  BY <1>0, <2>1, <2>4, <2>6, <2>8 DEF LinkInv, LinkOK, SameKind
  <1>. QED  BY <1>5, <1>6, <1>7

LEMMA SyncMeets ==
  ASSUME LinkInv, Sync, SameKind
  PROVE  LinkOK' /\ AskedIsMet' /\ ToldIsKnown' /\ SentStays'
  <1>1. PICK how : Outcome(how) /\ stage' \in {"rest", "sync"}
    BY DEF Sync
  <1>2. stage = "sync" /\ UNCHANGED <<state, queue, thread, byte, asked, sent, told>>
    BY DEF Sync, history
  <1>3. byte = Fetch
    BY <1>2 DEF LinkInv, LinkOK
  <1>4. hub' = hub
    BY <1>1, <1>3, TakesKnown DEF Outcome, LinkInv
  <1>5. Target' = Target
    BY <1>1, <1>2, <1>4 DEF Target, Carries
  <1>. QED  BY <1>1, <1>2, <1>3, <1>4, <1>5
            DEF LinkInv, LinkOK, AskedIsMet, ToldIsKnown, SentStays, Met, SameKind

LEMMA RaiseMeets ==
  ASSUME LinkInv, Raise, SameKind
  PROVE  LinkOK' /\ AskedIsMet' /\ ToldIsKnown' /\ SentStays'
  <1>1. /\ stage \in {"transfer", "sync"} /\ stage' = "rest"
        /\ asked' = {} /\ sent' = {} /\ thread' \in {"ending", thread} /\ UNCHANGED <<hub, state, told>>
    BY DEF Raise, Forget
  <1>. QED  BY <1>1 DEF LinkInv, LevelsAreKnown, LinkOK, AskedIsMet, ToldIsKnown, SentStays, SameKind

LEMMA OthersMeet ==
  ASSUME LinkInv, SameKind,
         \/ \E t \in Thread : Adjust(t)
         \/ Request \/ IdleCallback \/ Warning
         \/ End \/ Die \/ MoveLid \/ StopUnblank \/ StopPolling \/ JoinSpi \/ UNCHANGED vars
  PROVE  LinkOK' /\ AskedIsMet' /\ ToldIsKnown' /\ SentStays'
  <1>1. CASE (\E t \in Thread : Adjust(t)) \/ End \/ Die \/ StopUnblank \/ StopPolling \/ JoinSpi \/ UNCHANGED vars
    BY <1>1, UntouchedIsMet DEF Adjust, End, Die, StopUnblank, StopPolling, JoinSpi, vars, exchange, history
  <1>2. CASE Request \/ IdleCallback \/ Warning
    <2>1. \E t, what : Ask(t, what)
      BY <1>2 DEF Request, IdleCallback, Warning
    <2>. QED  BY <2>1, UntouchedIsMet DEF Ask, exchange, history
  <1>3. CASE MoveLid
    <2>1. hub' = [hub EXCEPT !.lidOpen = ~@] /\ hub \in Screen
      BY <1>3 DEF MoveLid, LinkInv, LevelsAreKnown
    <2>. QED  BY <1>3, <2>1, UntouchedIsMet DEF MoveLid, exchange, history, Screen
  <1>. QED  BY <1>1, <1>2, <1>3

LEMMA StepKeepsLink == LinkInv /\ [Next]_vars => LinkInv'
  <1>. SUFFICES ASSUME LinkInv, [Next]_vars PROVE LinkInv'
    OBVIOUS
  <1>1. SameKind
    BY SameScenario DEF LinkInv, LinkOK
  <1>2. LevelsAreKnown'
    BY StepKeepsLevels DEF LinkInv
  <1>3. LinkOK' /\ AskedIsMet' /\ ToldIsKnown' /\ SentStays'
    <2>1. CASE InitialRead  BY <1>1, <2>1, InitialReadMeets
    <2>2. CASE Send  BY <1>1, <2>2, SendMeets
    <2>3. CASE Exchange  BY <1>1, <2>3, ExchangeMeets
    <2>4. CASE Sync  BY <1>1, <2>4, SyncMeets
    <2>5. CASE Raise  BY <1>1, <2>5, RaiseMeets
    <2>6. CASE \E t \in Thread : Put(t)  BY <1>1, <2>6, PutMeets
    <2>7. CASE \/ \E t \in Thread : Adjust(t)
               \/ Request \/ IdleCallback \/ Warning
               \/ End \/ Die \/ MoveLid \/ StopUnblank \/ StopPolling \/ JoinSpi \/ UNCHANGED vars
      BY <1>1, <2>7, OthersMeet
    <2>. QED  BY <2>1, <2>2, <2>3, <2>4, <2>5, <2>6, <2>7 DEF Next, Spi
  <1>. QED  BY <1>2, <1>3 DEF LinkInv

LEMMA InitLink == Init => LinkInv
  <1>. SUFFICES ASSUME Init PROVE LinkOK /\ AskedIsMet /\ ToldIsKnown /\ SentStays
    BY InitKnown DEF LinkInv
  <1>1. ScenarioOK
    BY SpiAssumption DEF Init, ScenarioOK
  <1>. QED  BY <1>1 DEF Init, LinkOK, AskedIsMet, ToldIsKnown, SentStays

\* For every Level, every number of Tries and every Scenario: with the queue empty
\* and nothing under way the hub has what was queued last (_update_state_from_-
\* pending_state_change, _process_spi_resp).
THEOREM LastChangeWinsAlways == Spec => []LastChangeWins
  <1>1. LinkInv => LastChangeWins
    BY DEF LastChangeWins, Still, LinkInv, AskedIsMet, Met, Target, Carries
  <1>. QED  BY <1>1, InitLink, StepKeepsLink, PTL DEF Spec

\* And it keeps the change before it of the other kind, if it was asked for its
\* state in between (transceive_and_process).
THEOREM OtherChangeStaysAlways == Spec => []OtherChangeStays
  <1>1. LinkInv => OtherChangeStays
    BY DEF OtherChangeStays, LinkInv, SentStays, Target, Carries
  <1>. QED  BY <1>1, InitLink, StepKeepsLink, PTL DEF Spec

-----------------------------------------------------------------------------
\* The stop comes in turn: the last change of the main thread and of the battery is
\* to unblank, and once the main thread has queued its own the screen is on the way
\* to being unblanked, unless State has the lid closed.
LitLink == scenario.failures \subseteq {"id"}

EndsLit == ~state.lidOpen \/ Met(queue, Unblank)

StopsInTurn ==
  /\ todo["i2c"] \in {<<>>, <<Unblank>>} /\ todo["main"] \in {<<>>, <<Unblank>>}
  /\ stopPc = "none" => todo["main"] = <<>>
  /\ stopPc # "none" => todo["request"] = <<>> /\ todo["idle"] = <<>>
  /\ stopPc \in {"join", "done"} => todo["main"] = <<>>
  /\ thread \in {"new", "absent"} => stopPc = "none"
  /\ thread = "loop" /\ ~polling => stopPc \in {"join", "done"}
  /\ thread \in {"ending", "dead"} =>
        stopPc \in {"join", "done"} /\ stage = "rest" /\ (~hub.blanked \/ ~state.lidOpen)
  /\ thread = "loop" /\ stopPc # "none" /\ todo["main"] = <<>> => EndsLit

StopInv ==
  /\ thread # "dead" => by = "spi"
  /\ stopPc \in {"none", "unblank", "join", "done"}
  /\ by = "spi" /\ LitLink => StopsInTurn

LEMMA BeginKeepsLit ==
  ASSUME LinkInv, stage = "rest", NEW who, Begin(queue, who), hub' = hub, EndsLit
  PROVE  EndsLit'
  <1>1. queue \in Seq(Change) /\ Unblank \in Wanted
    BY QueueOfChanges DEF LinkInv, Wanted, Blanking
  <1>2. (Met(queue, Unblank) => Met(queue, Unblank)') /\ state'.lidOpen = state.lidOpen
    BY <1>1, BeginMeets
  <1>. QED  BY <1>2 DEF EndsLit

LEMMA ExchangeKeepsLit ==
  ASSUME LinkInv, LitLink, by = "spi", Exchange, EndsLit
  PROVE  EndsLit'
  <1>0. stage = "transfer" /\ state \in Screen /\ queue \in Seq(Change) /\ Unblank \in Wanted
    BY QueueOfChanges DEF Exchange, LinkInv, LevelsAreKnown, Wanted, Blanking
  <1>1. PICK how \in {"good"} \cup scenario.failures :
          /\ Outcome(how)
          /\ IF IsState(Answer(how))
             THEN LET lid == LidCallback(Answer(how)) IN
                  /\ state' = Seen(Answer(how), FALSE)
                  /\ stage' = "sync"
                  /\ IF by = "spi" THEN queue' = queue \o lid ELSE UNCHANGED queue
             ELSE stage' = "rest" /\ UNCHANGED <<state, queue>>
    BY DEF Exchange
  <1>2. how \in {"good", "id"}
    BY <1>1 DEF LitLink
  <1>3. hub' = Takes(byte) /\ stage' # "transfer"
    BY <1>1, <1>2 DEF Outcome
  <1>. HIDE DEF Bits, Takes
  <1>4. Does(Target, Unblank) => Does(Target', Unblank)
    BY <1>0, <1>3, ExchangeTakes
  <1>5. CASE ~IsState(Answer(how))
    <2>1. UNCHANGED <<state, queue>>
      BY <1>1, <1>5
    <2>. QED  BY <1>4, <2>1 DEF EndsLit, Met
  <1>6. CASE IsState(Answer(how))
    <2>. DEFINE lid == LidCallback(Answer(how))
    <2>1. state' = Seen(Answer(how), FALSE) /\ queue' = queue \o lid
      BY <1>1, <1>6
    <2>2. state'.lidOpen = LidOpenOf(Answer(how))
      BY <2>1 DEF Seen
    <2>3. CASE ~state'.lidOpen
      BY <2>3 DEF EndsLit
    <2>4. CASE state'.lidOpen /\ state.lidOpen
      <3>1. state.lidOpen = TRUE /\ LidOpenOf(Answer(how)) = TRUE
        BY <1>0, <2>2, <2>4 DEF Screen, LidOpenOf
      <3>2. lid = <<>>
        BY <3>1 DEF LidCallback
      <3>3. queue' = queue
        BY <1>0, <2>1, <3>2, ConcatProperties
      <3>. QED  BY <1>4, <2>4, <3>3 DEF EndsLit, Met
    <2>5. CASE state'.lidOpen /\ ~state.lidOpen
      <3>1. lid = <<Unblank>>
        BY <2>2, <2>5 DEF LidCallback
      <3>2. Unblank \in Change
        BY <1>0, KindOf
      <3>3. queue' = Append(queue, Unblank)
        BY <1>0, <2>1, <3>1, <3>2
      <3>. QED  BY <1>0, <3>2, <3>3, AppendMeets DEF EndsLit, Met
    <2>. QED  BY <2>3, <2>4, <2>5
  <1>. QED  BY <1>5, <1>6

\* What the steps of the SPI thread do to the stop.
LEMMA SpiKeepsStop ==
  ASSUME LinkInv, StopInv, SameKind, Spi
  PROVE  StopInv'
  <1>1. UNCHANGED stopPc
    BY DEF Spi, InitialRead, Send, End, Die, Exchange, Sync, callers
  <1>2. CASE InitialRead
    <2>1. /\ thread = "new" /\ thread' \in {"new", "absent", "loop"} /\ (thread' = "loop" => polling' = TRUE)
          /\ UNCHANGED <<by, todo, stopPc>>
      BY <1>2 DEF InitialRead, callers
    <2>. QED  BY <2>1 DEF StopInv, StopsInTurn, LitLink, SameKind
  <1>3. CASE Send
    <2>1. /\ thread = "loop" /\ stage = "rest" /\ Begin(queue, "spi") /\ by' = "spi"
          /\ UNCHANGED <<hub, thread, polling, todo, stopPc>>
      BY <1>3 DEF Send, Begin, callers
    <2>2. EndsLit => EndsLit'
      BY <2>1, BeginKeepsLit
    <2>. QED  BY <2>1, <2>2 DEF StopInv, StopsInTurn, LitLink, SameKind
  <1>4. CASE End
    <2>1. /\ thread = "loop" /\ stage = "rest" /\ ~polling /\ queue = <<>> /\ thread' = "ending"
          /\ UNCHANGED <<hub, state, queue, stage, by, polling, todo, stopPc>>
      BY <1>4 DEF End, exchange, callers
    <2>2. EndsLit => ~hub.blanked \/ ~state.lidOpen
      BY <2>1 DEF EndsLit, Met, Does, Unblank, Target, Carries
    <2>. QED  BY <2>1, <2>2 DEF StopInv, StopsInTurn, LitLink, SameKind
  <1>5. CASE Die
    <2>1. thread = "ending" /\ thread' = "dead" /\ UNCHANGED <<hub, state, stage, by, polling, todo, stopPc>>
      BY <1>5 DEF Die, exchange, callers
    <2>. QED  BY <2>1 DEF StopInv, StopsInTurn, LitLink, SameKind
  <1>6. CASE Exchange
    <2>1. /\ stage = "transfer" /\ thread \in {"loop", "ending", "dead"}
          /\ UNCHANGED <<thread, by, polling, stopPc>>
      BY <1>6 DEF Exchange, LinkInv, LevelsAreKnown
    <2>. SUFFICES ASSUME by = "spi", LitLink PROVE StopsInTurn'
      BY <2>1 DEF StopInv, LitLink, SameKind
    <2>2. StopsInTurn /\ todo' = todo
      BY <1>6 DEF StopInv, Exchange
    <2>3. thread = "loop"
      BY <2>1, <2>2 DEF StopsInTurn
    <2>4. EndsLit => EndsLit'
      BY <1>6, ExchangeKeepsLit
    <2>. QED  BY <2>1, <2>2, <2>3, <2>4 DEF StopsInTurn
  <1>7. CASE Sync
    <2>1. PICK how : Outcome(how) /\ stage' \in {"rest", "sync"}
      BY <1>7 DEF Sync
    <2>2. stage = "sync" /\ UNCHANGED <<state, queue, thread, by, byte, polling, todo, stopPc>>
      BY <1>7 DEF Sync, callers
    <2>3. hub' = hub
      BY <2>1, <2>2, TakesKnown DEF Outcome, LinkInv, LinkOK
    <2>4. EndsLit => EndsLit'
      BY <2>1, <2>2, <2>3 DEF EndsLit, Met, Target, Carries
    <2>. QED  BY <2>1, <2>2, <2>3, <2>4 DEF StopInv, StopsInTurn, LitLink, SameKind
  <1>. QED  BY <1>2, <1>3, <1>4, <1>5, <1>6, <1>7 DEF Spi

\* An unblanking queued last lights the screen.
LEMMA PutKeepsStop ==
  ASSUME LinkInv, StopInv, SameKind, NEW t \in Thread, Put(t)
  PROVE  StopInv'
  <1>1. /\ todo[t] # <<>> /\ todo' = [todo EXCEPT ![t] = Tail(todo[t])]
        /\ \/ /\ thread \in {"loop", "ending"}
              /\ queue' = Append(queue, Head(todo[t]))
              /\ UNCHANGED <<state, stage, by, byte>>
           \/ thread = "dead" /\ by' = t
        /\ UNCHANGED <<hub, thread, polling, stopPc>>
    BY DEF Put, exchange, Begin
  <1>2. t # "spi" /\ todo \in [Thread -> Seq(Wish)] /\ Thread = {"request", "idle", "i2c", "main"}
    BY DEF Thread, LinkInv, LevelsAreKnown
  <1>. SUFFICES ASSUME by' = "spi", LitLink PROVE StopsInTurn'
    BY <1>1, <1>2 DEF StopInv, LitLink, SameKind
  <1>3. /\ thread \in {"loop", "ending"} /\ queue' = Append(queue, Head(todo[t]))
        /\ UNCHANGED <<state, stage, by, byte>>
    BY <1>1, <1>2
  <1>4. StopsInTurn
    BY <1>3 DEF StopInv
  <1>5. CASE t \in {"request", "idle"}
    <2>1. stopPc = "none"
      BY <1>1, <1>4, <1>5 DEF StopsInTurn
    <2>2. todo'["i2c"] = todo["i2c"] /\ todo'["main"] = todo["main"]
      BY <1>1, <1>2, <1>5
    <2>. QED  BY <1>1, <1>3, <1>4, <2>1, <2>2 DEF StopsInTurn
  <1>6. CASE t \in {"i2c", "main"}
    <2>1. todo[t] = <<Unblank>>
      BY <1>1, <1>4, <1>6 DEF StopsInTurn
    <2>2. queue' = Append(queue, Unblank) /\ todo'[t] = <<>> /\ \A u \in Thread : u # t => todo'[u] = todo[u]
      <3>1. Head(<<Unblank>>) = Unblank /\ Tail(<<Unblank>>) = <<>>
        OBVIOUS
      <3>. QED  BY <1>1, <1>2, <1>3, <2>1, <3>1
    <2>3. EndsLit'
      <3>1. Unblank \in Change /\ queue \in Seq(Change)
        BY QueueOfChanges DEF Change, Queued, LinkInv
      <3>. QED  BY <2>2, <3>1, AppendMeets DEF EndsLit, Met
    <2>. QED  BY <1>1, <1>2, <1>3, <1>4, <1>6, <2>2, <2>3 DEF StopsInTurn
  <1>. QED  BY <1>2, <1>5, <1>6

LEMMA AdjustKeepsStop ==
  ASSUME LinkInv, StopInv, SameKind, NEW t \in Thread, Adjust(t)
  PROVE  StopInv'
  <1>1. PICK new : todo' = [todo EXCEPT ![t] = new]
    BY DEF Adjust
  <1>2. /\ todo[t] # <<>> /\ Head(todo[t])[1] \in {"set", "inc", "dec"}
        /\ UNCHANGED <<hub, state, queue, thread, stage, by, byte, polling, stopPc>>
    BY DEF Adjust, exchange
  <1>3. todo \in [Thread -> Seq(Wish)] /\ Thread = {"request", "idle", "i2c", "main"}
    BY DEF Thread, LinkInv, LevelsAreKnown
  <1>4. EndsLit => EndsLit'
    BY <1>2 DEF EndsLit, Met, Target, Carries
  <1>. SUFFICES ASSUME by' = "spi", LitLink PROVE StopsInTurn'
    BY <1>2 DEF StopInv, LitLink, SameKind
  <1>5. StopsInTurn
    BY <1>2 DEF StopInv
  <1>6. t \in {"request", "idle"}
    <2>1. Head(<<Unblank>>)[1] = "unblank"
      BY DEF Unblank
    <2>2. todo[t] # <<Unblank>>
      BY <1>2, <2>1
    <2>. QED  BY <1>2, <1>3, <1>5, <2>2 DEF StopsInTurn
  <1>7. stopPc = "none" /\ todo'["i2c"] = todo["i2c"] /\ todo'["main"] = todo["main"]
    BY <1>1, <1>2, <1>3, <1>5, <1>6 DEF StopsInTurn
  <1>. QED  BY <1>2, <1>4, <1>5, <1>7 DEF StopsInTurn

LEMMA ClientsKeepStop ==
  ASSUME LinkInv, StopInv, SameKind, Request \/ IdleCallback \/ Warning
  PROVE  StopInv'
  <1>0. PICK t \in Thread : \E what :
          Ask(t, what) /\ ((stopPc = "none" /\ t \in {"request", "idle"}) \/ (t = "i2c" /\ what = <<Unblank>>))
    BY DEF Request, IdleCallback, Warning, Thread
  <1>1. PICK what :
          Ask(t, what) /\ ((stopPc = "none" /\ t \in {"request", "idle"}) \/ (t = "i2c" /\ what = <<Unblank>>))
    BY <1>0
  <1>2. todo' = [todo EXCEPT ![t] = what]
        /\ UNCHANGED <<hub, state, queue, thread, stage, by, byte, polling, stopPc>>
    BY <1>1 DEF Ask, exchange
  <1>3. todo \in [Thread -> Seq(Wish)] /\ Thread = {"request", "idle", "i2c", "main"}
    BY DEF Thread, LinkInv, LevelsAreKnown
  <1>4. EndsLit => EndsLit'
    BY <1>2 DEF EndsLit, Met, Target, Carries
  <1>5. todo'["main"] = todo["main"] /\ todo'["i2c"] \in {todo["i2c"], <<Unblank>>}
        /\ (stopPc # "none" => todo'["request"] = todo["request"] /\ todo'["idle"] = todo["idle"])
    BY <1>1, <1>2, <1>3
  <1>. QED  BY <1>2, <1>4, <1>5 DEF StopInv, StopsInTurn, LitLink, SameKind

LEMMA OthersKeepStop ==
  ASSUME LinkInv, StopInv, SameKind,
         Raise \/ MoveLid \/ StopUnblank \/ StopPolling \/ JoinSpi \/ UNCHANGED vars
  PROVE  StopInv'
  <1>1. CASE Raise
    <2>1. /\ "raises" \in scenario.failures /\ by' = by /\ stopPc' = stopPc /\ thread' \in {"ending", thread}
          /\ (by # "spi" => thread' = thread)
      BY <1>1 DEF Raise
    <2>2. ~LitLink'
      BY <2>1 DEF LitLink, SameKind
    <2>3. thread' = "dead" => thread = "dead"
      BY <2>1
    <2>4. thread # "dead" => by = "spi"
      BY DEF StopInv
    <2>5. thread = "dead" => thread' = "dead" \/ by = "spi"
      BY <2>1
    <2>. QED  BY <2>1, <2>2, <2>4, <2>5 DEF StopInv
  <1>2. CASE MoveLid
    <2>1. /\ hub'.blanked = hub.blanked
          /\ UNCHANGED <<state, queue, thread, stage, by, byte, polling, todo, stopPc>>
      BY <1>2 DEF MoveLid, exchange, callers, LinkInv, LevelsAreKnown, Screen
    <2>2. Does(Target, Unblank) => Does(Target', Unblank)
      <3>1. Agree(Unblank, Target, Target') /\ Unblank \in Wanted
        BY <2>1 DEF Agree, Kind, Unblank, Target, Carries, Wanted, Blanking
      <3>. QED  BY <3>1, AgreeDoes
    <2>3. EndsLit => EndsLit'
      BY <2>1, <2>2 DEF EndsLit, Met
    <2>. QED  BY <2>1, <2>3 DEF StopInv, StopsInTurn, LitLink, SameKind
  <1>3. CASE StopUnblank
    <2>1. /\ stopPc = "none" /\ stopPc' = "unblank" /\ thread \in {"loop", "ending", "dead"}
          /\ todo["request"] = <<>> /\ todo["idle"] = <<>>
          /\ todo' = [todo EXCEPT !["main"] = <<Unblank>>]
          /\ UNCHANGED <<hub, state, queue, thread, stage, by, byte, polling>>
      BY <1>3 DEF StopUnblank, exchange
    <2>2. todo \in [Thread -> Seq(Wish)] /\ Thread = {"request", "idle", "i2c", "main"}
      BY DEF Thread, LinkInv, LevelsAreKnown
    <2>3. /\ todo'["main"] = <<Unblank>> /\ todo'["i2c"] = todo["i2c"]
          /\ todo'["request"] = <<>> /\ todo'["idle"] = <<>>
      BY <2>1, <2>2
    <2>4. <<Unblank>> # <<>>
      OBVIOUS
    <2>. QED  BY <2>1, <2>3, <2>4 DEF StopInv, StopsInTurn, LitLink, SameKind
  <1>4. CASE StopPolling \/ JoinSpi \/ UNCHANGED vars
    <2>1. UNCHANGED <<hub, state, queue, thread, stage, by, byte, todo>>
      BY <1>4 DEF StopPolling, JoinSpi, vars, exchange, callers
    <2>2. EndsLit => EndsLit'
      BY <2>1 DEF EndsLit, Met, Target, Carries
    <2>3. \/ stopPc = "unblank" /\ todo["main"] = <<>> /\ stopPc' = "join"
          \/ stopPc = "join" /\ stopPc' = "done" /\ polling' = polling
          \/ stopPc' = stopPc /\ polling' = polling
      BY <1>4 DEF StopPolling, JoinSpi, vars, callers
    <2>. QED  BY <2>1, <2>2, <2>3 DEF StopInv, StopsInTurn, LitLink, SameKind
  <1>. QED  BY <1>1, <1>2, <1>3, <1>4

\* Whenever SPI has been stopped, with nothing lost, it has left the screen
\* unblanked, unless it has seen the lid closed: for every number of requests
\* and of movements of the lid (HubManager.stop, _main_thread_loop).
THEOREM StoppedUnblankedAlways == Spec => []StoppedUnblanked
  <1>1. Init => StopInv
    BY DEF Init, StopInv, StopsInTurn, Thread
  <1>2. LinkInv /\ StopInv /\ [Next]_vars => StopInv'
    <2>. SUFFICES ASSUME LinkInv, StopInv, [Next]_vars PROVE StopInv'
      OBVIOUS
    <2>1. SameKind
      BY SameScenario DEF LinkInv, LinkOK
    <2>. QED
      BY <2>1, SpiKeepsStop, PutKeepsStop, AdjustKeepsStop, ClientsKeepStop, OthersKeepStop DEF Next
  <1>3. StopInv => StoppedUnblanked
    BY DEF StopInv, StopsInTurn, LitLink, StoppedUnblanked, Stopped
  <1>. QED  BY <1>1, <1>2, <1>3, InitLink, StepKeepsLink, PTL DEF Spec
=============================================================================

---------------------------- MODULE FilesProofs ----------------------------
(***************************************************************************)
(* What is proved of the two files that pi-topd writes in place, for every *)
(* set of devices, timeouts and files found at first, and without any      *)
(* bound on sets, edits, crashes and boots.                                *)
(*                                                                         *)
(* First the state file (StateInv).  Then the boot configuration: by       *)
(* induction over the lines of a file and the sections of a parsed one,    *)
(* what a load, a write and each edit do to the user's other settings      *)
(* (LoadKeeps, WrittenKeeps, CommentedKeeps, AddedKeeps, DrivenKeeps), and *)
(* from that the invariant of the edits through reboots and crashes        *)
(* (ConfigInv).  Last, by what a load finds again of the sections that     *)
(* were written (LoadsBack) and by the number of lines of fkms, how many   *)
(* reboots may be asked for (RebootsInv).                                  *)
(*                                                                         *)
(* The library's induction theorems take an operator, which the provers    *)
(* cannot instantiate; Induct has a set of naturals instead, and follows   *)
(* from the well-foundedness of < (WFMin).                                 *)
(***************************************************************************)
EXTENDS Files, SequenceTheorems, FiniteSetTheorems, WellFoundedInduction, TLAPS

-----------------------------------------------------------------------------
\* The state file.

Value == Device \cup Timeouts \cup {Nothing, "unknown", "true"}

StateTypeOK ==
    /\ disk \in [Key -> Value] /\ memory \in [Key -> Value] /\ kept \in [Key -> Value]
    /\ versions \subseteq [Key -> Value]
    /\ stage \in {"free", "changed", "truncated"}
    /\ stage # "free" => setting \in Setter \X Key
    /\ phase \in {"down", "starting", "serving", "ended"}
    /\ hub \in Device

\* Nobody writes before the file has been read, nor when the machine is off.
WritesWhenUp ==
    /\ phase = "down" \/ power = "off" => stage = "free"
    /\ power = "off" => phase = "ended"

\* Truncated means empty; otherwise the file is right.
FileIsRight == disk = IF stage = "truncated" THEN Empty ELSE kept

\* What pi-topd has in memory, apart from the entry that it is setting.
MemoryIsRight ==
    phase \in {"starting", "serving"} \/ stage # "free" =>
        \A key \in Key : (stage # "free" /\ key = setting[2]) \/ memory[key] = kept[key]

StateInv == StateTypeOK /\ WritesWhenUp /\ FileIsRight /\ MemoryIsRight

LEMMA EmptyType == Empty \in [Key -> Value]
  BY DEF Empty, Value

\* A set leaves the other entries alone.
LEMMA SetKeeps ==
    ASSUME NEW who \in Setter, NEW key \in Key, NEW value \in Value,
           StateInv, Set(who, key, value), phase \in {"starting", "serving"},
           UNCHANGED <<disk, power, hub, kept, versions>>, phase' \in {"serving", "ended"}, power # "off"
    PROVE  StateInv'
  <1> USE DEF Set
  <1>1. memory = kept
    BY DEF StateInv, StateTypeOK, MemoryIsRight
  <1>2. StateTypeOK'
    BY DEF StateInv, StateTypeOK
  <1>3. WritesWhenUp'
    BY DEF WritesWhenUp
  <1>4. FileIsRight'
    BY DEF StateInv, FileIsRight
  <1>5. MemoryIsRight'
    BY <1>1 DEF StateInv, StateTypeOK, MemoryIsRight
  <1> QED  BY <1>2, <1>3, <1>4, <1>5 DEF StateInv

LEMMA InvInit == StateInit => StateInv
  <1> SUFFICES ASSUME StateInit PROVE StateInv
    OBVIOUS
  <1>1. StateTypeOK
    BY EmptyType DEF StateInit, StateTypeOK
  <1> QED
    BY <1>1 DEF StateInit, StateInv, WritesWhenUp, FileIsRight, MemoryIsRight

LEMMA InvNext == StateInv /\ [StateNext]_stateVars => StateInv'
  <1> SUFFICES ASSUME StateInv, [StateNext]_stateVars PROVE StateInv'
    OBVIOUS
  <1> USE DEF StateInv
  <1>1. CASE Start
    BY <1>1 DEF Start, StateTypeOK, WritesWhenUp, FileIsRight, MemoryIsRight
  <1>2. CASE Truncate
    BY <1>2, EmptyType DEF Truncate, StateTypeOK, WritesWhenUp, FileIsRight, MemoryIsRight
  <1>3. CASE Save
    <2>1. \A key \in Key : memory[key] = kept'[key]
      BY <1>3 DEF Save, StateTypeOK, MemoryIsRight
    <2>2. memory = kept'
      BY <1>3, <2>1 DEF Save, StateTypeOK
    <2> QED
      BY <1>3, <2>2 DEF Save, StateTypeOK, WritesWhenUp, FileIsRight, MemoryIsRight
  <1>4. CASE RecordDevice
    BY <1>4, SetKeeps DEF RecordDevice, WritesWhenUp, Value, Key, Setter, StateTypeOK
  <1>5. CASE SetTimeout
    BY <1>5, SetKeeps DEF SetTimeout, WritesWhenUp, Value, Key, Setter, StateTypeOK
  <1>6. CASE ConfigureSound
    BY <1>6, SetKeeps DEF ConfigureSound, WritesWhenUp, Value, Key, Setter, StateTypeOK
  <1>7. CASE Halt \/ AskedReboot
    BY <1>7 DEF Halt, AskedReboot, GoDown, StateTypeOK, WritesWhenUp, FileIsRight, MemoryIsRight
  <1>8. CASE Terminate \/ PtPoweroff \/ SwitchOff
    BY <1>8 DEF Terminate, PtPoweroff, SwitchOff, StateTypeOK, WritesWhenUp, FileIsRight, MemoryIsRight
  <1>9. CASE Boot
    <2>1. hub' \in Device
      BY <1>9 DEF Boot, StateTypeOK
    <2> QED
      BY <1>9, <2>1 DEF Boot, StateTypeOK, WritesWhenUp, FileIsRight, MemoryIsRight
  <1>10. CASE Kill \/ PowerFails
    <2>1. CASE Kill
      BY <2>1, EmptyType DEF Kill, Dies, StateTypeOK, WritesWhenUp, FileIsRight, MemoryIsRight
    <2>2. CASE PowerFails
      <3>1. /\ disk' \in versions /\ versions' = {disk'} /\ memory' = Empty /\ stage' = "free" /\ hub' = hub
            /\ kept' = (IF versions = {disk} /\ stage # "truncated" THEN kept ELSE disk')
            /\ phase' = "ended" /\ power' = "off"
        BY <2>2 DEF PowerFails, Dies
      <3>2. kept' = disk'
        BY <3>1 DEF FileIsRight
      <3>. QED
        BY <3>1, <3>2, EmptyType DEF StateTypeOK, WritesWhenUp, FileIsRight, MemoryIsRight
    <2>. QED  BY <1>10, <2>1, <2>2
  <1>11. CASE WriteBack \/ UNCHANGED stateVars
    BY <1>11 DEF WriteBack, stateVars, StateTypeOK, WritesWhenUp, FileIsRight, MemoryIsRight
  <1> QED
    BY <1>1, <1>2, <1>3, <1>4, <1>5, <1>6, <1>7, <1>8, <1>9, <1>10, <1>11 DEF StateNext

\* The inductive invariant.
THEOREM StateInvariant == StateSpec => []StateInv
  <1> QED  BY InvInit, InvNext, PTL DEF StateSpec

\* What has been set is in the file, through every restart, unless the write was
\* interrupted, or the power failed before the file was written back (state.py).
THEOREM SetsAreKept == StateSpec => []NothingForgotten
  <1>1. StateInv => NothingForgotten
    BY DEF StateInv, FileIsRight, NothingForgotten
  <1> QED  BY <1>1, StateInvariant, PTL

\* pt-poweroff informs the recorded hub (poweroff.py).
THEOREM RecordedHubIsTold == StateSpec => HubIsTold
  <1> DEFINE Told == power = "poweroff" /\ told' # told /\ told' # Nothing /\ kept["type"] = hub /\ stage # "truncated"
                        => told' = hub
  <1>1. StateInv /\ [StateNext]_stateVars => [Told]_stateVars
    <2> SUFFICES ASSUME StateInv, StateNext, power = "poweroff", told' # told, told' # Nothing,
                        kept["type"] = hub, stage # "truncated"
                 PROVE  told' = hub
      OBVIOUS
    <2>1. PtPoweroff \/ Boot
      BY DEF StateNext, Start, Truncate, Save, RecordDevice, SetTimeout, ConfigureSound, Halt, AskedReboot, GoDown,
             Terminate, SwitchOff, WriteBack, Kill, PowerFails, Dies
    <2>2. PtPoweroff
      BY <2>1 DEF Boot
    <2>3. disk["type"] = hub /\ hub # Nothing
      BY StateAssumption DEF StateInv, FileIsRight, StateTypeOK
    <2> QED
      BY <2>2, <2>3 DEF PtPoweroff
  <1> QED  BY <1>1, StateInvariant, PTL DEF StateSpec, HubIsTold

-----------------------------------------------------------------------------
\* Induction and recursion over the naturals.
Less == OpToRel(<, Nat)

\* A set of naturals has a least element.
LEMMA Least == ASSUME NEW S, S \subseteq Nat, S # {} PROVE \E n \in S : \A m \in S : n <= m
  <1>1. IsWellFoundedOn(Less, Nat)
    BY NatLessThanWellFounded, Zenon DEF Less
  <1>2. PICK x \in S : \A y \in S : ~(<<y, x>> \in Less)
    BY <1>1, WFMin, Zenon
  <1>3. ASSUME NEW y \in S PROVE x <= y
    <2>1. x \in Nat /\ y \in Nat
      OBVIOUS
    <2>2. y < x => <<y, x>> \in Less
      BY <2>1, Zenon DEF Less, OpToRel
    <2>. QED  BY <1>2, <2>1, <2>2
  <1>. QED  BY <1>3

\* Induction: a set with 0 and with the successor of each of its naturals has them all.
LEMMA Induct ==
  ASSUME NEW S, 0 \in S, \A n \in Nat : n \in S => n + 1 \in S
  PROVE  \A n \in Nat : n \in S
  <1>. SUFFICES ASSUME Nat \ S # {} PROVE FALSE
    OBVIOUS
  <1>1. PICK n \in Nat \ S : \A m \in Nat \ S : n <= m
    BY Least
  <1>2. n # 0 /\ n - 1 \in Nat /\ n - 1 \in S
    BY <1>1
  <1>. QED  BY <1>1, <1>2

\* A set of naturals with a bound has a greatest element.
LEMMA Greatest ==
  ASSUME NEW F, F \subseteq Nat, F # {}, NEW b \in Nat, \A y \in F : y <= b
  PROVE  Max(F) \in F /\ \A y \in F : y <= Max(F)
  <1>. DEFINE D == {b - y : y \in F}
  <1>1. D \subseteq Nat /\ D # {}
    <2>1. \A y \in F : b - y \in Nat
      <3>. TAKE y \in F
      <3>1. y \in Nat /\ y <= b
        OBVIOUS
      <3>. QED  BY <3>1
    <2>. QED  BY <2>1
  <1>2. PICK d \in D : \A e \in D : d <= e
    <2>. HIDE DEF D
    <2>. QED  BY <1>1, Least
  <1>3. PICK x \in F : d = b - x
    OBVIOUS
  <1>4. \A y \in F : x >= y
    <2>. TAKE y \in F
    <2>1. b - x <= b - y
      BY <1>2, <1>3
    <2>2. x \in Nat /\ y \in Nat
      OBVIOUS
    <2>. QED  BY <2>1, <2>2
  <1>5. Max(F) \in F /\ \A y \in F : Max(F) >= y
    BY <1>4 DEF Max
  <1>6. Max(F) \in Nat
    BY <1>5
  <1>. QED  BY <1>5, <1>6

Follows(f, n, x0, step) == f[0] = x0 /\ \A i \in 1..n : f[i] = step[<<i, f[i - 1]>>]

\* What is defined by recursion up to n exists.
LEMMA Recursion ==
  ASSUME NEW X, NEW x0 \in X, NEW step \in [Nat \X X -> X], NEW n \in Nat
  PROVE  \E f \in [0..n -> X] : Follows(f, n, x0, step)
  <1>. DEFINE S == {m \in Nat : \E f \in [0..m -> X] : Follows(f, m, x0, step)}
  <1>1. 0 \in S
    <2>. DEFINE f == [i \in 0..0 |-> x0]
    <2>1. f \in [0..0 -> X] /\ Follows(f, 0, x0, step)
      BY DEF Follows
    <2>. QED  BY <2>1
  <1>2. ASSUME NEW m \in Nat, m \in S PROVE m + 1 \in S
    <2>1. PICK f \in [0..m -> X] : Follows(f, m, x0, step)
      BY <1>2
    <2>. DEFINE x == step[<<m + 1, f[m]>>]
                g == [i \in 0..m + 1 |-> IF i = m + 1 THEN x ELSE f[i]]
    <2>2. x \in X
      BY <1>2
    <2>3. g \in [0..m + 1 -> X]
      BY <2>2, <1>2
    <2>4. Follows(g, m + 1, x0, step)
      <3>1. g[0] = x0
        BY <2>1, <1>2 DEF Follows
      <3>2. ASSUME NEW i \in 1..m + 1 PROVE g[i] = step[<<i, g[i - 1]>>]
        <4>1. i - 1 \in 0..m /\ g[i - 1] = f[i - 1]
          BY <1>2
        <4>2. CASE i = m + 1
          <5>1. g[i] = x /\ f[i - 1] = f[m]
            BY <4>2, <1>2
          <5>. QED  BY <4>1, <4>2, <5>1
        <4>3. CASE i \in 1..m
          BY <2>1, <4>1, <4>3 DEF Follows
        <4>. QED  BY <4>2, <4>3
      <3>. HIDE DEF g
      <3>. QED  BY <3>1, <3>2 DEF Follows
    <2>. QED  BY <2>3, <2>4
  <1>. HIDE DEF S
  <1>3. n \in S
    BY <1>1, <1>2, Induct
  <1>. QED  BY <1>3 DEF S

\* FlattenSeq concatenates one sequence after the other.
LEMMA FlattenIs ==
  ASSUME NEW A, NEW seqs \in Seq(Seq(A)), seqs # <<>>
  PROVE  \E f \in [0..Len(seqs) -> Seq(A)] :
           /\ f[0] = <<>> /\ \A i \in 1..Len(seqs) : f[i] = f[i - 1] \o seqs[i]
           /\ FlattenSeq(seqs) = f[Len(seqs)]
  <1>. DEFINE step == [p \in Nat \X Seq(A) |-> IF p[1] \in 1..Len(seqs) THEN p[2] \o seqs[p[1]] ELSE p[2]]
              n == Len(seqs)
  <1>1. n \in Nat \ {0}
    OBVIOUS
  <1>2. step \in [Nat \X Seq(A) -> Seq(A)]
    OBVIOUS
  <1>3. <<>> \in Seq(A)
    OBVIOUS
  <1>4. PICK f \in [0..n -> Seq(A)] : Follows(f, n, <<>>, step)
    <2>. HIDE DEF step, n
    <2>. QED  BY <1>1, <1>2, <1>3, Recursion
  <1>5. f[0] = <<>>
    BY <1>4 DEF Follows
  <1>6. ASSUME NEW i \in 1..n PROVE f[i] = f[i - 1] \o seqs[i]
    <2>1. f[i] = step[<<i, f[i - 1]>>]
      <3>. HIDE DEF step, n
      <3>. QED  BY <1>4 DEF Follows
    <2>2. i \in Nat /\ i - 1 \in 0..n
      BY <1>1
    <2>3. f[i - 1] \in Seq(A)
      BY <2>2
    <2>. QED  BY <2>1, <2>2, <2>3
  <1>. DEFINE Def(g) == g = [i \in 1..n |-> IF i = 1 THEN seqs[i] ELSE g[i - 1] \o seqs[i]]
              h == CHOOSE g : Def(g)
              k == [i \in 1..n |-> f[i]]
  <1>7. FlattenSeq(seqs) = h[n]
    BY DEF FlattenSeq
  <1>8. Def(k)
    <2>1. ASSUME NEW i \in 1..n PROVE f[i] = IF i = 1 THEN seqs[i] ELSE k[i - 1] \o seqs[i]
      <3>1. CASE i = 1
        <4>1. f[1] = <<>> \o seqs[1] /\ seqs[1] \in Seq(A)
          BY <1>5, <1>6, <3>1, 1 - 1 = 0
        <4>. QED  BY <3>1, <4>1
      <3>2. CASE i # 1
        <4>1. i - 1 \in 1..n
          BY <1>1, <3>2
        <4>. QED  BY <1>6, <3>2, <4>1
      <3>. QED  BY <3>1, <3>2
    <2>. QED  BY <2>1
  <1>9. Def(h)
    <2>. HIDE DEF Def, k
    <2>. QED  BY <1>8
  <1>10. \A i \in 1..n : h[i] = f[i]
    <2>. DEFINE S == {m \in Nat : m + 1 <= n => h[m + 1] = f[m + 1]}
    <2>1. ASSUME NEW i \in 1..n PROVE h[i] = IF i = 1 THEN seqs[i] ELSE h[i - 1] \o seqs[i]
      <3>. HIDE DEF h
      <3>. QED  BY <1>9
    <2>. HIDE DEF h
    <2>2. 0 \in S
      <3>1. 1 \in 1..n /\ seqs[1] \in Seq(A)
        BY <1>1
      <3>2. h[1] = seqs[1]
        BY <2>1, <3>1
      <3>3. f[1] = f[1 - 1] \o seqs[1]
        BY <1>6, <3>1
      <3>4. f[1] = seqs[1]
        BY <1>5, <3>1, <3>3, 1 - 1 = 0
      <3>. QED  BY <3>2, <3>4
    <2>3. ASSUME NEW m \in Nat, m \in S PROVE m + 1 \in S
      <3>. SUFFICES ASSUME m + 2 <= n PROVE h[m + 2] = f[m + 2]
        OBVIOUS
      <3>1. m + 2 \in 1..n /\ m + 2 # 1 /\ (m + 2) - 1 = m + 1 /\ h[m + 1] = f[m + 1]
        BY <1>1, <2>3
      <3>2. h[m + 2] = IF m + 2 = 1 THEN seqs[m + 2] ELSE h[(m + 2) - 1] \o seqs[m + 2]
        BY <2>1, <3>1
      <3>3. f[m + 2] = f[(m + 2) - 1] \o seqs[m + 2]
        BY <1>6, <3>1
      <3>. QED  BY <3>1, <3>2, <3>3
    <2>4. \A m \in Nat : m \in S
      <3>. HIDE DEF S
      <3>. QED  BY <2>2, <2>3, Induct
    <2>5. ASSUME NEW i \in 1..n PROVE h[i] = f[i]
      <3>1. i - 1 \in Nat /\ (i - 1) + 1 = i /\ i <= n
        BY <1>1
      <3>. QED  BY <2>4, <3>1
    <2>. QED  BY <2>5
  <1>. HIDE DEF h, step
  <1>11. FlattenSeq(seqs) = f[n] /\ f \in [0..Len(seqs) -> Seq(A)]
    BY <1>1, <1>7, <1>10
  <1>. QED  BY <1>5, <1>6, <1>11

LEMMA FlattenEmpty == FlattenSeq(<<>>) = <<>>
  BY DEF FlattenSeq

LEMMA FlattenAppend ==
  ASSUME NEW A, NEW s \in Seq(Seq(A)), NEW x \in Seq(A)
  PROVE  FlattenSeq(s) \in Seq(A) /\ FlattenSeq(Append(s, x)) = FlattenSeq(s) \o x
  <1>. DEFINE t == Append(s, x)
              n == Len(s)
  <1>1. /\ t \in Seq(Seq(A)) /\ t # <<>> /\ n \in Nat /\ Len(t) = n + 1
        /\ t[n + 1] = x /\ \A i \in 1..n : t[i] = s[i]
    BY AppendProperties
  <1>. HIDE DEF t
  <1>2. PICK g \in [0..n + 1 -> Seq(A)] :
           /\ g[0] = <<>> /\ \A i \in 1..n + 1 : g[i] = g[i - 1] \o t[i]
           /\ FlattenSeq(t) = g[n + 1]
    <2>1. PICK g \in [0..Len(t) -> Seq(A)] :
             /\ g[0] = <<>> /\ \A i \in 1..Len(t) : g[i] = g[i - 1] \o t[i]
             /\ FlattenSeq(t) = g[Len(t)]
      BY <1>1, FlattenIs
    <2>. QED  BY <1>1, <2>1, Zenon
  <1>3. FlattenSeq(s) = g[n]
    <2>1. CASE s = <<>>
      BY <1>2, <2>1, FlattenEmpty
    <2>2. CASE s # <<>>
      <3>1. PICK f \in [0..n -> Seq(A)] :
               /\ f[0] = <<>> /\ \A i \in 1..n : f[i] = f[i - 1] \o s[i]
               /\ FlattenSeq(s) = f[n]
        BY <2>2, FlattenIs
      <3>. DEFINE S == {m \in Nat : m <= n => f[m] = g[m]}
      <3>2. 0 \in S
        BY <1>2, <3>1
      <3>3. ASSUME NEW m \in Nat, m \in S PROVE m + 1 \in S
        <4>. SUFFICES ASSUME m + 1 <= n PROVE f[m + 1] = g[m + 1]
          OBVIOUS
        <4>1. m + 1 \in 1..n /\ m + 1 \in 1..n + 1 /\ (m + 1) - 1 = m /\ f[m] = g[m]
          BY <1>1, <3>3
        <4>2. f[m + 1] = f[(m + 1) - 1] \o s[m + 1]
          BY <3>1, <4>1
        <4>3. g[m + 1] = g[(m + 1) - 1] \o t[m + 1]
          BY <1>2, <4>1
        <4>4. t[m + 1] = s[m + 1]
          BY <1>1, <4>1
        <4>. QED  BY <4>1, <4>2, <4>3, <4>4, Zenon
      <3>. HIDE DEF S
      <3>4. n \in S
        BY <1>1, <3>2, <3>3, Induct
      <3>. QED  BY <1>1, <3>1, <3>4 DEF S
    <2>. QED  BY <2>1, <2>2
  <1>4. g[n] \in Seq(A)
    BY <1>1
  <1>5. FlattenSeq(t) = g[n] \o x
    <2>1. (n + 1) - 1 = n /\ n + 1 \in 1..n + 1
      BY <1>1
    <2>2. g[n + 1] = g[(n + 1) - 1] \o t[n + 1]
      BY <1>2, <2>1
    <2>. QED  BY <1>1, <1>2, <2>1, <2>2, Zenon
  <1>. QED  BY <1>3, <1>4, <1>5 DEF t

-----------------------------------------------------------------------------
\* The sections of lines.
LEMMA SectionAtFirst == ASSUME NEW f PROVE SectionOf(f, 0) = "all"
  BY DEF SectionOf

\* The section of a line is that of its tag or of the line before it.
LEMMA SectionStep ==
  ASSUME NEW f, NEW i \in Nat \ {0}
  PROVE  SectionOf(f, i) = IF f[i].tag THEN f[i].name ELSE SectionOf(f, i - 1)
  <1>. DEFINE tags(n) == {j \in 1..n : f[j].tag}
  <1>1. CASE f[i].tag
    <2>1. i \in tags(i) /\ \A j \in tags(i) : i >= j
      BY <1>1
    <2>2. \A m \in tags(i) : (\A j \in tags(i) : m >= j) => m = i
      BY <2>1
    <2>. HIDE DEF tags
    <2>3. Max(tags(i)) = i
      BY <2>1, <2>2 DEF Max
    <2>. QED  BY <1>1, <2>1, <2>3 DEF SectionOf, tags
  <1>2. CASE ~f[i].tag
    <2>1. tags(i) = tags(i - 1)
      BY <1>2
    <2>. QED  BY <1>2, <2>1 DEF SectionOf
  <1>. QED  BY <1>1, <1>2

\* Lines with the same tags have the same sections.
SameTags(f, g, n) == \A i \in 1..n : f[i].tag = g[i].tag /\ (f[i].tag => f[i].name = g[i].name)

LEMMA SameSections ==
  ASSUME NEW f, NEW g, NEW n \in Nat, SameTags(f, g, n)
  PROVE  \A i \in 0..n : SectionOf(f, i) = SectionOf(g, i)
  <1>. DEFINE S == {m \in Nat : m <= n => SectionOf(f, m) = SectionOf(g, m)}
  <1>1. 0 \in S
    BY SectionAtFirst
  <1>2. ASSUME NEW m \in Nat, m \in S PROVE m + 1 \in S
    <2>. SUFFICES ASSUME m + 1 <= n PROVE SectionOf(f, m + 1) = SectionOf(g, m + 1)
      OBVIOUS
    <2>1. m + 1 \in 1..n /\ (m + 1) - 1 = m /\ m + 1 \in Nat \ {0} /\ SectionOf(f, m) = SectionOf(g, m)
      BY <1>2
    <2>2. /\ SectionOf(f, m + 1) = IF f[m + 1].tag THEN f[m + 1].name ELSE SectionOf(f, m)
          /\ SectionOf(g, m + 1) = IF g[m + 1].tag THEN g[m + 1].name ELSE SectionOf(g, m)
      BY <2>1, SectionStep
    <2>. QED  BY <2>1, <2>2 DEF SameTags
  <1>. HIDE DEF S
  <1>3. \A m \in Nat : m \in S
    BY <1>1, <1>2, Induct
  <1>. QED  BY <1>3 DEF S

SectionName == Name \ (Overlay \cup Drive)
SettingLine == {line \in Line : ~line.tag}

LEMMA LinesHaveNames ==
  /\ "all" \in SectionName
  /\ \A line \in Line : line.name \in Name /\ (line.tag => line.name \in SectionName)
  /\ \A name \in SectionName : Tag(name) \in Line /\ Tag(name).tag /\ Tag(name).name = name
  BY ConfigAssumption DEF SectionName, Overlay, Drive, Line, Tag

LEMMA SectionIsName ==
  ASSUME NEW f \in Seq(Line)
  PROVE  \A i \in 0..Len(f) : SectionOf(f, i) \in SectionName
  <1>. DEFINE S == {m \in Nat : m <= Len(f) => SectionOf(f, m) \in SectionName}
  <1>1. 0 \in S
    BY SectionAtFirst, LinesHaveNames
  <1>2. ASSUME NEW m \in Nat, m \in S PROVE m + 1 \in S
    <2>. SUFFICES ASSUME m + 1 <= Len(f) PROVE SectionOf(f, m + 1) \in SectionName
      OBVIOUS
    <2>1. m + 1 \in 1..Len(f) /\ (m + 1) - 1 = m /\ m + 1 \in Nat \ {0} /\ SectionOf(f, m) \in SectionName
      BY <1>2
    <2>2. SectionOf(f, m + 1) = IF f[m + 1].tag THEN f[m + 1].name ELSE SectionOf(f, m)
      BY <2>1, SectionStep
    <2>3. f[m + 1] \in Line
      BY <2>1
    <2>. QED  BY <2>1, <2>2, <2>3, LinesHaveNames
  <1>. HIDE DEF S
  <1>3. \A m \in Nat : m \in S
    BY <1>1, <1>2, Induct
  <1>. QED  BY <1>3 DEF S

-----------------------------------------------------------------------------
\* The picked lines with their sections.
Pairs == Seq(SectionName \X Line)
Pair(f, i) == <<SectionOf(f, i), f[i]>>

LEMMA PairIsPair == ASSUME NEW f \in Seq(Line), NEW i \in 1..Len(f) PROVE Pair(f, i) \in SectionName \X Line
  <1>1. SectionOf(f, i) \in SectionName /\ f[i] \in Line
    BY SectionIsName
  <1>. QED  BY <1>1 DEF Pair

\* What has been picked of the first i lines.
IsPicked(p, f, P) ==
  /\ p \in [0..Len(f) -> Pairs] /\ p[0] = <<>>
  /\ \A i \in 1..Len(f) : p[i] = IF i \in P THEN Append(p[i - 1], Pair(f, i)) ELSE p[i - 1]

\* Picked goes line by line.
LEMMA PickedIs ==
  ASSUME NEW f \in Seq(Line), NEW P
  PROVE  \E p : IsPicked(p, f, P) /\ Picked(f, P) = p[Len(f)]
  <1>. DEFINE n == Len(f)
              step == [q \in Nat \X Pairs |->
                         IF q[1] \in 1..n /\ q[1] \in P THEN Append(q[2], Pair(f, q[1])) ELSE q[2]]
  <1>1. n \in Nat /\ <<>> \in Pairs
    BY DEF Pairs
  <1>2. step \in [Nat \X Pairs -> Pairs]
    <2>1. ASSUME NEW q \in Nat \X Pairs, q[1] \in 1..n PROVE Append(q[2], Pair(f, q[1])) \in Pairs
      <3>1. q[2] \in Seq(SectionName \X Line) /\ Pair(f, q[1]) \in SectionName \X Line
        BY <2>1, PairIsPair DEF Pairs
      <3>. QED  BY <3>1, AppendProperties DEF Pairs
    <2>. QED  BY <2>1
  <1>3. PICK p \in [0..n -> Pairs] : Follows(p, n, <<>>, step)
    <2>. HIDE DEF step, n
    <2>. QED  BY <1>1, <1>2, Recursion
  <1>4. p[0] = <<>>
    BY <1>3 DEF Follows
  <1>5. ASSUME NEW i \in 1..n PROVE p[i] = IF i \in P THEN Append(p[i - 1], Pair(f, i)) ELSE p[i - 1]
    <2>1. p[i] = step[<<i, p[i - 1]>>]
      <3>. HIDE DEF step, n
      <3>. QED  BY <1>3 DEF Follows
    <2>2. i \in Nat /\ i - 1 \in 0..n
      BY <1>1
    <2>3. p[i - 1] \in Pairs
      BY <2>2
    <2>. QED  BY <2>1, <2>2, <2>3
  <1>. DEFINE Def(g) == g = [i \in 0..n |->
                              IF i = 0 THEN <<>>
                              ELSE IF i \in P THEN Append(g[i - 1], <<SectionOf(f, i), f[i]>>)
                              ELSE g[i - 1]]
              h == CHOOSE g : Def(g)
  <1>6. Picked(f, P) = h[n]
    BY DEF Picked
  <1>7. Def(p)
    <2>1. ASSUME NEW i \in 0..n
          PROVE  p[i] = IF i = 0 THEN <<>>
                        ELSE IF i \in P THEN Append(p[i - 1], <<SectionOf(f, i), f[i]>>)
                        ELSE p[i - 1]
      <3>1. CASE i = 0
        BY <1>4, <3>1
      <3>2. CASE i # 0
        <4>1. i \in 1..n
          BY <1>1, <3>2
        <4>. QED  BY <1>5, <3>2, <4>1 DEF Pair
      <3>. QED  BY <3>1, <3>2
    <2>. QED  BY <2>1
  <1>8. Def(h)
    <2>. HIDE DEF Def
    <2>. QED  BY <1>7
  <1>9. ASSUME NEW i \in 0..n
        PROVE  h[i] = IF i = 0 THEN <<>>
                      ELSE IF i \in P THEN Append(h[i - 1], Pair(f, i)) ELSE h[i - 1]
    <2>. HIDE DEF h
    <2>. QED  BY <1>8 DEF Pair
  <1>. HIDE DEF h, step
  <1>10. \A i \in 0..n : h[i] = p[i]
    <2>. DEFINE S == {m \in Nat : m <= n => h[m] = p[m]}
    <2>1. 0 \in S
      BY <1>1, <1>4, <1>9
    <2>2. ASSUME NEW m \in Nat, m \in S PROVE m + 1 \in S
      <3>. SUFFICES ASSUME m + 1 <= n PROVE h[m + 1] = p[m + 1]
        OBVIOUS
      <3>1. m + 1 \in 1..n /\ m + 1 \in 0..n /\ m + 1 # 0 /\ (m + 1) - 1 = m /\ h[m] = p[m]
        BY <1>1, <2>2
      <3>2. h[m + 1] = IF m + 1 \in P THEN Append(h[(m + 1) - 1], Pair(f, m + 1)) ELSE h[(m + 1) - 1]
        BY <1>9, <3>1, Zenon
      <3>3. p[m + 1] = IF m + 1 \in P THEN Append(p[(m + 1) - 1], Pair(f, m + 1)) ELSE p[(m + 1) - 1]
        BY <1>5, <3>1, Zenon
      <3>. QED  BY <3>1, <3>2, <3>3, Zenon
    <2>. HIDE DEF S
    <2>3. \A m \in Nat : m \in S
      BY <2>1, <2>2, Induct
    <2>. QED  BY <1>1, <2>3 DEF S
  <1>11. IsPicked(p, f, P)
    BY <1>4, <1>5 DEF IsPicked
  <1>12. Picked(f, P) = p[n]
    BY <1>1, <1>6, <1>10
  <1>. QED  BY <1>11, <1>12

LEMMA PickedIsPairs == ASSUME NEW f \in Seq(Line), NEW P PROVE Picked(f, P) \in Pairs
  <1>1. PICK p : IsPicked(p, f, P) /\ Picked(f, P) = p[Len(f)]
    BY PickedIs
  <1>. QED  BY <1>1 DEF IsPicked

LEMMA PickedOfNone == ASSUME NEW f \in Seq(Line) PROVE Picked(f, {}) = <<>>
  <1>1. PICK p : IsPicked(p, f, {}) /\ Picked(f, {}) = p[Len(f)]
    BY PickedIs
  <1>. DEFINE S == {m \in Nat : m <= Len(f) => p[m] = <<>>}
  <1>2. 0 \in S
    BY <1>1 DEF IsPicked
  <1>3. ASSUME NEW m \in Nat, m \in S PROVE m + 1 \in S
    <2>. SUFFICES ASSUME m + 1 <= Len(f) PROVE p[m + 1] = <<>>
      OBVIOUS
    <2>1. m + 1 \in 1..Len(f) /\ (m + 1) - 1 = m /\ p[m] = <<>>
      BY <1>3
    <2>. QED  BY <1>1, <2>1 DEF IsPicked
  <1>. HIDE DEF S
  <1>4. Len(f) \in S
    BY <1>2, <1>3, Induct
  <1>. QED  BY <1>1, <1>4 DEF S

\* A place after the others is picked last.
LEMMA PickedLast ==
  ASSUME NEW f \in Seq(Line), NEW k \in 1..Len(f), NEW P \in SUBSET (1..k - 1)
  PROVE  Picked(f, P \cup {k}) = Append(Picked(f, P), Pair(f, k))
  <1>. DEFINE n == Len(f)
              Q == P \cup {k}
  <1>1. PICK p : IsPicked(p, f, P) /\ Picked(f, P) = p[n]
    BY PickedIs
  <1>2. PICK q : IsPicked(q, f, Q) /\ Picked(f, Q) = q[n]
    BY PickedIs
  <1>3. n \in Nat /\ k \in Nat \ {0} /\ k <= n
    OBVIOUS
  <1>. HIDE DEF Q, n
  <1>4. ASSUME NEW i \in Nat \ {0}, i <= n
        PROVE  /\ p[i] = IF i \in P THEN Append(p[i - 1], Pair(f, i)) ELSE p[i - 1]
               /\ q[i] = IF i \in Q THEN Append(q[i - 1], Pair(f, i)) ELSE q[i - 1]
    <2>1. i \in 1..Len(f)
      BY <1>3, <1>4 DEF n
    <2>. QED  BY <1>1, <1>2, <2>1, Zenon DEF IsPicked
  <1>5. p[k - 1] = q[k - 1]
    <2>. DEFINE S == {m \in Nat : m <= k - 1 => p[m] = q[m]}
    <2>1. 0 \in S
      BY <1>1, <1>2 DEF IsPicked
    <2>2. ASSUME NEW m \in Nat, m \in S PROVE m + 1 \in S
      <3>. SUFFICES ASSUME m + 1 <= k - 1 PROVE p[m + 1] = q[m + 1]
        OBVIOUS
      <3>1. m + 1 \in Nat \ {0} /\ m + 1 <= n /\ (m + 1) - 1 = m /\ p[m] = q[m] /\ m + 1 # k
        BY <1>3, <2>2
      <3>2. m + 1 \in P <=> m + 1 \in Q
        BY <3>1 DEF Q
      <3>3. /\ p[m + 1] = IF m + 1 \in P THEN Append(p[(m + 1) - 1], Pair(f, m + 1)) ELSE p[(m + 1) - 1]
            /\ q[m + 1] = IF m + 1 \in Q THEN Append(q[(m + 1) - 1], Pair(f, m + 1)) ELSE q[(m + 1) - 1]
        BY <1>4, <3>1, Zenon
      <3>. QED  BY <3>1, <3>2, <3>3, Zenon
    <2>. HIDE DEF S
    <2>3. k - 1 \in S
      BY <1>3, <2>1, <2>2, Induct
    <2>. QED  BY <1>3, <2>3 DEF S
  <1>6. q[k] = Append(p[k - 1], Pair(f, k)) /\ p[k] = p[k - 1]
    <2>1. k \in Q /\ k \notin P
      BY <1>3 DEF Q
    <2>2. /\ p[k] = IF k \in P THEN Append(p[k - 1], Pair(f, k)) ELSE p[k - 1]
          /\ q[k] = IF k \in Q THEN Append(q[k - 1], Pair(f, k)) ELSE q[k - 1]
      BY <1>3, <1>4
    <2>. QED  BY <1>5, <2>1, <2>2, Zenon
  <1>7. p[n] = p[k] /\ q[n] = q[k]
    <2>. DEFINE S == {m \in Nat : k + m <= n => p[k + m] = p[k] /\ q[k + m] = q[k]}
    <2>1. 0 \in S
      BY <1>3
    <2>2. ASSUME NEW m \in Nat, m \in S PROVE m + 1 \in S
      <3>. SUFFICES ASSUME k + (m + 1) <= n PROVE p[k + (m + 1)] = p[k] /\ q[k + (m + 1)] = q[k]
        OBVIOUS
      <3>. DEFINE j == k + (m + 1)
      <3>1. j \in Nat \ {0} /\ j <= n /\ j - 1 = k + m /\ p[k + m] = p[k] /\ q[k + m] = q[k] /\ j > k
        BY <1>3, <2>2
      <3>2. j \notin P /\ j \notin Q
        BY <1>3, <3>1 DEF Q
      <3>. HIDE DEF j
      <3>3. /\ p[j] = IF j \in P THEN Append(p[j - 1], Pair(f, j)) ELSE p[j - 1]
            /\ q[j] = IF j \in Q THEN Append(q[j - 1], Pair(f, j)) ELSE q[j - 1]
        BY <1>4, <3>1
      <3>4. p[j] = p[k] /\ q[j] = q[k]
        BY <3>1, <3>2, <3>3, Zenon
      <3>. QED  BY <3>4 DEF j
    <2>. HIDE DEF S
    <2>3. n - k \in S
      BY <1>3, <2>1, <2>2, Induct
    <2>4. k + (n - k) = n
      BY <1>3
    <2>. QED  BY <1>3, <2>3, <2>4 DEF S
  <1>. QED  BY <1>1, <1>2, <1>6, <1>7 DEF Q

\* Lines that are the same, in the same sections, are picked alike.
LEMMA PickedAlike ==
  ASSUME NEW f \in Seq(Line), NEW g \in Seq(Line), NEW n \in Nat, n <= Len(f), n <= Len(g),
         NEW P \in SUBSET (1..n), \A i \in P : Pair(f, i) = Pair(g, i)
  PROVE  Picked(f, P) = Picked(g, P)
  <1>. DEFINE S == {m \in Nat : m <= n => \A Q \in SUBSET (1..m) :
                                  (\A i \in Q : Pair(f, i) = Pair(g, i)) => Picked(f, Q) = Picked(g, Q)}
  <1>1. 0 \in S
    <2>1. \A Q \in SUBSET (1..0) : Q = {}
      OBVIOUS
    <2>. QED  BY <2>1, PickedOfNone
  <1>2. ASSUME NEW m \in Nat, m \in S PROVE m + 1 \in S
    <2>. SUFFICES ASSUME m + 1 <= n, NEW Q \in SUBSET (1..m + 1), \A i \in Q : Pair(f, i) = Pair(g, i)
                  PROVE  Picked(f, Q) = Picked(g, Q)
      OBVIOUS
    <2>. DEFINE k == m + 1
                R == Q \ {k}
    <2>1. R \in SUBSET (1..m) /\ m <= n /\ k - 1 = m /\ k \in 1..Len(f) /\ k \in 1..Len(g)
      OBVIOUS
    <2>2. Picked(f, R) = Picked(g, R)
      BY <1>2, <2>1
    <2>3. CASE k \notin Q
      <3>1. R = Q
        BY <2>3
      <3>. QED  BY <2>2, <3>1, Zenon
    <2>4. CASE k \in Q
      <3>1. R \cup {k} = Q /\ Pair(f, k) = Pair(g, k) /\ R \in SUBSET (1..k - 1)
        BY <2>1, <2>4
      <3>. HIDE DEF R, k
      <3>2. /\ Picked(f, R \cup {k}) = Append(Picked(f, R), Pair(f, k))
            /\ Picked(g, R \cup {k}) = Append(Picked(g, R), Pair(g, k))
        BY <2>1, <3>1, PickedLast
      <3>. QED  BY <2>2, <3>1, <3>2, Zenon
    <2>. QED  BY <2>3, <2>4
  <1>. HIDE DEF S
  <1>3. n \in S
    BY <1>1, <1>2, Induct
  <1>. QED  BY <1>3 DEF S

-----------------------------------------------------------------------------
\* The user's other settings of a file, and how a line adds to them.
All(f) == Picked(f, Others(f))
IsOther(line) == ~line.tag /\ line.name \notin Overlay \cup Drive

LEMMA OthersAre == ASSUME NEW f \in Seq(Line) PROVE Others(f) = {i \in 1..Len(f) : IsOther(f[i])}
  BY DEF Others, IsOther

\* What a line at the end of a file changes: the sections, and what there is of
\* the other settings.
LEMMA SectionOfAppend ==
  ASSUME NEW f \in Seq(Line), NEW line \in Line
  PROVE  /\ \A i \in 0..Len(f) : SectionOf(Append(f, line), i) = SectionOf(f, i)
         /\ SectionOf(Append(f, line), Len(f) + 1) = IF line.tag THEN line.name ELSE SectionOf(f, Len(f))
  <1>. DEFINE g == Append(f, line)
              n == Len(f)
  <1>1. n \in Nat /\ g[n + 1] = line /\ \A i \in 1..n : g[i] = f[i]
    BY AppendProperties
  <1>. HIDE DEF g
  <1>2. SameTags(g, f, n)
    BY <1>1 DEF SameTags
  <1>3. \A i \in 0..n : SectionOf(g, i) = SectionOf(f, i)
    BY <1>1, <1>2, SameSections
  <1>4. n + 1 \in Nat \ {0} /\ (n + 1) - 1 = n /\ n \in 0..n
    BY <1>1
  <1>5. SectionOf(g, n + 1) = IF g[n + 1].tag THEN g[n + 1].name ELSE SectionOf(g, (n + 1) - 1)
    BY <1>4, SectionStep, Zenon
  <1>. QED  BY <1>1, <1>3, <1>4, <1>5 DEF g

LEMMA AllOfEmpty == All(<<>>) = <<>>
  <1>1. <<>> \in Seq(Line) /\ Others(<<>>) = {}
    BY DEF Others
  <1>. QED  BY <1>1, PickedOfNone, Zenon DEF All

LEMMA AllOfAppend ==
  ASSUME NEW f \in Seq(Line), NEW line \in Line
  PROVE  All(Append(f, line)) =
           IF IsOther(line) THEN Append(All(f), <<SectionOf(f, Len(f)), line>>) ELSE All(f)
  <1>. DEFINE g == Append(f, line)
              n == Len(f)
  <1>1. /\ g \in Seq(Line) /\ n \in Nat /\ Len(g) = n + 1
        /\ g[n + 1] = line /\ \A i \in 1..n : g[i] = f[i]
    BY AppendProperties
  <1>2. /\ \A i \in 0..n : SectionOf(g, i) = SectionOf(f, i)
        /\ SectionOf(g, n + 1) = IF line.tag THEN line.name ELSE SectionOf(f, n)
    BY SectionOfAppend
  <1>. HIDE DEF g
  <1>3. Others(f) \in SUBSET (1..n) /\ Others(g) = IF IsOther(line) THEN Others(f) \cup {n + 1} ELSE Others(f)
    <2>1. Others(f) = {i \in 1..n : IsOther(f[i])}
      BY OthersAre
    <2>2. Others(g) = {i \in 1..n + 1 : IsOther(g[i])}
      BY <1>1, OthersAre
    <2>3. \A i \in 1..n + 1 : i = n + 1 \/ (i \in 1..n /\ g[i] = f[i])
      BY <1>1
    <2>4. \A i \in 1..n : i \in 1..n + 1 /\ i # n + 1
      BY <1>1
    <2>5. n + 1 \in 1..n + 1
      BY <1>1
    <2>6. \A i : i \in Others(g) <=> i \in Others(f) \/ (i = n + 1 /\ IsOther(line))
      BY <1>1, <2>1, <2>2, <2>3, <2>4, <2>5
    <2>. QED  BY <2>1, <2>6
  <1>4. Picked(g, Others(f)) = All(f)
    <2>1. \A i \in Others(f) : Pair(g, i) = Pair(f, i)
      BY <1>1, <1>2, <1>3 DEF Pair
    <2>. QED  BY <1>1, <1>3, <2>1, PickedAlike DEF All
  <1>5. CASE IsOther(line)
    <2>1. Pair(g, n + 1) = <<SectionOf(f, n), line>>
      BY <1>1, <1>2, <1>5 DEF Pair, IsOther
    <2>2. Picked(g, Others(f) \cup {n + 1}) = Append(Picked(g, Others(f)), Pair(g, n + 1))
      <3>1. n + 1 \in 1..Len(g) /\ (n + 1) - 1 = n
        BY <1>1
      <3>. QED  BY <1>1, <1>3, <3>1, PickedLast
    <2>. QED  BY <1>3, <1>4, <1>5, <2>1, <2>2 DEF All, g
  <1>6. CASE ~IsOther(line)
    BY <1>3, <1>4, <1>6 DEF All, g
  <1>. QED  BY <1>5, <1>6

LEMMA AllIsPairs == ASSUME NEW f \in Seq(Line) PROVE All(f) \in Pairs
  BY PickedIsPairs DEF All

LEMMA ConcatAppend ==
  ASSUME NEW A, NEW u \in Seq(A), NEW w \in Seq(A), NEW x \in A
  PROVE  u \o Append(w, x) = Append(u \o w, x)
  <1>1. Append(w, x) = w \o <<x>> /\ <<x>> \in Seq(A)
    BY AppendIsConcat
  <1>2. u \o w \in Seq(A) /\ Append(u \o w, x) = (u \o w) \o <<x>>
    BY ConcatProperties, AppendIsConcat
  <1>. QED  BY <1>1, <1>2, ConcatAssociative

\* Settings at the end of a file belong to its last section.
LEMMA AllOfConcat ==
  ASSUME NEW u \in Seq(Line), NEW v \in Seq(SettingLine)
  PROVE  LET name == SectionOf(u, Len(u))
         IN /\ SectionOf(u \o v, Len(u \o v)) = name
            /\ All(u \o v) = All(u) \o All(<<Tag(name)>> \o v)
  <1>. DEFINE name == SectionOf(u, Len(u))
              t == <<Tag(name)>>
              Good(w) == /\ SectionOf(u \o w, Len(u \o w)) = name
                         /\ SectionOf(t \o w, Len(t \o w)) = name
                         /\ All(u \o w) = All(u) \o All(t \o w)
              S == {m \in Nat : \A w \in Seq(SettingLine) : Len(w) = m => Good(w)}
  <1>1. SettingLine \subseteq Line /\ Seq(SettingLine) \subseteq Seq(Line)
    BY SeqMonotonic DEF SettingLine
  <1>2. name \in SectionName
    BY SectionIsName
  <1>3. Tag(name) \in Line /\ t \in Seq(Line) /\ Len(t) = 1 /\ t = Append(<<>>, Tag(name)) /\ Len(<<>>) = 0 /\ <<>> \in Seq(Line)
    BY <1>2, LinesHaveNames
  <1>4. 0 \in S
    <2>. SUFFICES Good(<<>>)
      BY EmptySeq
    <2>1. u \o <<>> = u /\ t \o <<>> = t
      BY <1>3, ConcatEmptySeq
    <2>2. SectionOf(t, Len(t)) = name
      <3>1. SectionOf(Append(<<>>, Tag(name)), 1) = IF Tag(name).tag THEN Tag(name).name ELSE SectionOf(<<>>, 0)
        <4>1. Len(<<>>) = 0 /\ Len(<<>>) + 1 = 1 /\ <<>> \in Seq(Line) /\ Tag(name) \in Line
          BY <1>3
        <4>. HIDE DEF name, t
        <4>2. SectionOf(Append(<<>>, Tag(name)), Len(<<>>) + 1)
                = IF Tag(name).tag THEN Tag(name).name ELSE SectionOf(<<>>, Len(<<>>))
          BY <4>1, SectionOfAppend
        <4>. QED  BY <4>1, <4>2
      <3>. QED  BY <1>2, <1>3, <3>1, LinesHaveNames
    <2>3. All(t) = <<>>
      <3>1. All(Append(<<>>, Tag(name))) = All(<<>>)
        <4>1. ~IsOther(Tag(name))
          BY <1>2, LinesHaveNames DEF IsOther
        <4>. HIDE DEF name, t
        <4>. QED  BY <1>3, <4>1, AllOfAppend
      <3>. QED  BY <1>3, <3>1, AllOfEmpty
    <2>4. All(u) \o <<>> = All(u)
      BY AllIsPairs, ConcatEmptySeq DEF Pairs
    <2>. QED  BY <2>1, <2>2, <2>3, <2>4
  <1>5. ASSUME NEW m \in Nat, m \in S PROVE m + 1 \in S
    <2>. SUFFICES ASSUME NEW w \in Seq(SettingLine), Len(w) = m + 1 PROVE Good(w)
      <3>. HIDE DEF Good
      <3>. QED  OBVIOUS
    <2>1. PICK x \in Seq(SettingLine), line \in SettingLine : w = Append(x, line)
      <3>1. w # <<>>
        OBVIOUS
      <3>. QED  BY <3>1, SequenceEmptyOrAppend
    <2>2. Len(x) = m
      BY <2>1, AppendProperties, LenProperties
    <2>3. Good(x)
      BY <1>5, <2>2
    <2>4. /\ x \in Seq(Line) /\ line \in Line /\ ~line.tag
          /\ u \o x \in Seq(Line) /\ t \o x \in Seq(Line)
      BY <1>1, <1>3, ConcatProperties DEF SettingLine
    <2>. HIDE DEF name, t
    <2>5. u \o w = Append(u \o x, line) /\ t \o w = Append(t \o x, line)
      BY <1>3, <2>1, <2>4, ConcatAppend
    <2>6. Len(u \o w) = Len(u \o x) + 1 /\ Len(t \o w) = Len(t \o x) + 1
      BY <2>4, <2>5, AppendProperties
    <2>7. SectionOf(u \o w, Len(u \o w)) = name /\ SectionOf(t \o w, Len(t \o w)) = name
      BY <2>3, <2>4, <2>5, <2>6, SectionOfAppend
    <2>8. /\ All(u \o w) = IF IsOther(line) THEN Append(All(u \o x), <<name, line>>) ELSE All(u \o x)
          /\ All(t \o w) = IF IsOther(line) THEN Append(All(t \o x), <<name, line>>) ELSE All(t \o x)
      BY <2>3, <2>4, <2>5, AllOfAppend
    <2>9. All(u) \o Append(All(t \o x), <<name, line>>) = Append(All(u) \o All(t \o x), <<name, line>>)
      <3>1. All(u) \in Pairs /\ All(t \o x) \in Pairs /\ <<name, line>> \in SectionName \X Line
        BY <1>2, <2>4, AllIsPairs
      <3>. QED  BY <3>1, ConcatAppend DEF Pairs
    <2>. QED  BY <2>3, <2>7, <2>8, <2>9
  <1>. HIDE DEF S
  <1>6. Len(v) \in S
    BY <1>4, <1>5, Induct, LenProperties
  <1>7. Good(v)
    <2>. HIDE DEF Good
    <2>. QED  BY <1>6 DEF S
  <1>. QED  BY <1>7

-----------------------------------------------------------------------------
\* Sections, and the lines that are written of them.
ASection == [name : SectionName, settings : Seq(SettingLine)]
Headed(s) == <<Tag(s.name)>> \o s.settings
Piece(s, first) == (IF first /\ s.name = "all" THEN <<>> ELSE <<Tag(s.name)>>) \o s.settings

\* What the written lines have of the user's other settings.
Content(sections) == FlattenSeq([i \in DOMAIN sections |-> All(Headed(sections[i]))])

LEMMA PieceIsLines ==
  ASSUME NEW s \in ASection, NEW first \in BOOLEAN
  PROVE  Piece(s, first) \in Seq(Line) /\ Headed(s) \in Seq(Line)
  <1>1. Seq(SettingLine) \subseteq Seq(Line)
    BY SeqMonotonic DEF SettingLine
  <1>2. Tag(s.name) \in Line /\ s.settings \in Seq(Line)
    BY <1>1, LinesHaveNames DEF ASection
  <1>3. <<Tag(s.name)>> \in Seq(Line) /\ <<>> \in Seq(Line)
    BY <1>2
  <1>. QED  BY <1>2, <1>3, ConcatProperties DEF Piece, Headed

\* A function of the sections in their order, and of one section more.
LEMMA MapOfAppend ==
  ASSUME NEW S \in Seq(ASection), NEW s \in ASection
  PROVE  /\ [i \in DOMAIN Append(S, s) |-> Piece(Append(S, s)[i], i = 1)]
              = Append([i \in DOMAIN S |-> Piece(S[i], i = 1)], Piece(s, S = <<>>))
         /\ [i \in DOMAIN S |-> Piece(S[i], i = 1)] \in Seq(Seq(Line))
         /\ [i \in DOMAIN Append(S, s) |-> All(Headed(Append(S, s)[i]))]
              = Append([i \in DOMAIN S |-> All(Headed(S[i]))], All(Headed(s)))
         /\ [i \in DOMAIN S |-> All(Headed(S[i]))] \in Seq(Pairs)
  <1>. DEFINE T == Append(S, s)
              n == Len(S)
              p == [i \in DOMAIN S |-> Piece(S[i], i = 1)]
              q == [i \in DOMAIN T |-> Piece(T[i], i = 1)]
              c == [i \in DOMAIN S |-> All(Headed(S[i]))]
              d == [i \in DOMAIN T |-> All(Headed(T[i]))]
  <1>1. /\ n \in Nat /\ DOMAIN S = 1..n /\ (S = <<>> <=> n = 0)
        /\ T \in Seq(ASection) /\ Len(T) = n + 1 /\ DOMAIN T = 1..n + 1
        /\ T[n + 1] = s /\ \A i \in 1..n : T[i] = S[i]
    BY AppendProperties, LenProperties, EmptySeq
  <1>. HIDE DEF T, n
  <1>2. /\ \A i \in 1..n : Piece(S[i], i = 1) \in Seq(Line) /\ All(Headed(S[i])) \in Pairs
        /\ \A i \in 1..n + 1 : Piece(T[i], i = 1) \in Seq(Line) /\ All(Headed(T[i])) \in Pairs
        /\ Piece(s, S = <<>>) \in Seq(Line) /\ All(Headed(s)) \in Pairs
    <2>1. /\ \A i \in 1..n : S[i] \in ASection
          /\ \A i \in 1..n + 1 : T[i] \in ASection
          /\ \A i \in Nat : (i = 1) \in BOOLEAN
      BY <1>1, ElementOfSeq DEF n
    <2>. QED  BY <2>1, PieceIsLines, AllIsPairs
  <1>3. p \in Seq(Seq(Line)) /\ Len(p) = n /\ \A i \in 1..n : p[i] = Piece(S[i], i = 1)
    BY <1>1, <1>2
  <1>4. q \in Seq(Seq(Line)) /\ Len(q) = n + 1 /\ \A i \in 1..n + 1 : q[i] = Piece(T[i], i = 1)
    BY <1>1, <1>2
  <1>5. c \in Seq(Pairs) /\ Len(c) = n /\ \A i \in 1..n : c[i] = All(Headed(S[i]))
    BY <1>1, <1>2
  <1>6. d \in Seq(Pairs) /\ Len(d) = n + 1 /\ \A i \in 1..n + 1 : d[i] = All(Headed(T[i]))
    BY <1>1, <1>2
  <1>. HIDE DEF p, q, c, d
  <1>7. q = Append(p, Piece(s, S = <<>>))
    <2>. DEFINE x == Piece(s, S = <<>>)
                r == Append(p, x)
    <2>1. r \in Seq(Seq(Line)) /\ Len(r) = n + 1 /\ r[n + 1] = x /\ \A i \in 1..n : r[i] = p[i]
      <3>. HIDE DEF x
      <3>. QED  BY <1>2, <1>3, AppendProperties DEF x
    <2>2. \A i \in 1..n + 1 : q[i] = r[i]
      <3>. HIDE DEF r
      <3>1. q[n + 1] = Piece(s, n + 1 = 1) /\ (n + 1 = 1 <=> S = <<>>) /\ n + 1 \in 1..n + 1
        BY <1>1, <1>4
      <3>2. q[n + 1] = r[n + 1]
        BY <2>1, <3>1
      <3>3. ASSUME NEW i \in 1..n PROVE q[i] = r[i]
        <4>1. i \in 1..n + 1 /\ T[i] = S[i]
          BY <1>1
        <4>. QED  BY <1>3, <1>4, <2>1, <4>1
      <3>. QED  BY <1>1, <3>2, <3>3
    <2>. HIDE DEF r
    <2>3. q = r
      BY <1>4, <2>1, <2>2, SeqEqual
    <2>. QED  BY <2>3 DEF r
  <1>8. d = Append(c, All(Headed(s)))
    <2>. DEFINE x == All(Headed(s))
                r == Append(c, x)
    <2>1. r \in Seq(Pairs) /\ Len(r) = n + 1 /\ r[n + 1] = x /\ \A i \in 1..n : r[i] = c[i]
      <3>. HIDE DEF x
      <3>. QED  BY <1>2, <1>5, AppendProperties DEF x
    <2>2. \A i \in 1..n + 1 : d[i] = r[i]
      <3>. HIDE DEF r
      <3>1. d[n + 1] = r[n + 1]
        BY <1>1, <1>6, <2>1
      <3>2. ASSUME NEW i \in 1..n PROVE d[i] = r[i]
        <4>1. i \in 1..n + 1 /\ T[i] = S[i]
          BY <1>1
        <4>. QED  BY <1>5, <1>6, <2>1, <4>1
      <3>. QED  BY <1>1, <3>1, <3>2
    <2>. HIDE DEF r
    <2>3. d = r
      BY <1>6, <2>1, <2>2, SeqEqual
    <2>. QED  BY <2>3 DEF r
  <1>. QED  BY <1>3, <1>5, <1>7, <1>8 DEF p, q, c, d, T

LEMMA LinesAre == \A S : Lines(S) = FlattenSeq([i \in DOMAIN S |-> Piece(S[i], i = 1)])
  BY DEF Lines, Piece

LEMMA LinesOfEmpty == Lines(<<>>) = <<>> /\ Content(<<>>) = <<>>
  <1>1. [i \in DOMAIN <<>> |-> Piece(<<>>[i], i = 1)] = <<>> /\ [i \in DOMAIN <<>> |-> All(Headed(<<>>[i]))] = <<>>
    OBVIOUS
  <1>. QED  BY <1>1, LinesAre, FlattenEmpty, Zenon DEF Content

\* A section more, a piece more.
LEMMA LinesOfAppend ==
  ASSUME NEW S \in Seq(ASection), NEW s \in ASection
  PROVE  /\ Lines(S) \in Seq(Line) /\ Lines(Append(S, s)) \in Seq(Line)
         /\ Lines(Append(S, s)) = Lines(S) \o Piece(s, S = <<>>)
         /\ Content(S) \in Pairs
         /\ Content(Append(S, s)) = Content(S) \o All(Headed(s))
  <1>1. Piece(s, S = <<>>) \in Seq(Line) /\ All(Headed(s)) \in Pairs
    BY PieceIsLines, AllIsPairs
  <1>2. /\ Lines(S) \in Seq(Line)
        /\ Lines(Append(S, s)) = Lines(S) \o Piece(s, S = <<>>)
    <2>. DEFINE p == [i \in DOMAIN S |-> Piece(S[i], i = 1)]
                x == Piece(s, S = <<>>)
    <2>1. p \in Seq(Seq(Line)) /\ x \in Seq(Line)
      BY <1>1, MapOfAppend
    <2>2. Lines(S) = FlattenSeq(p) /\ Lines(Append(S, s)) = FlattenSeq(Append(p, x))
      BY MapOfAppend, LinesAre, Zenon
    <2>. HIDE DEF p, x
    <2>3. FlattenSeq(p) \in Seq(Line) /\ FlattenSeq(Append(p, x)) = FlattenSeq(p) \o x
      BY <2>1, FlattenAppend
    <2>. QED  BY <2>2, <2>3, Zenon DEF x
  <1>3. Content(S) \in Pairs /\ Content(Append(S, s)) = Content(S) \o All(Headed(s))
    <2>. DEFINE c == [i \in DOMAIN S |-> All(Headed(S[i]))]
                x == All(Headed(s))
    <2>1. c \in Seq(Pairs) /\ x \in Pairs
      BY <1>1, MapOfAppend
    <2>2. Content(S) = FlattenSeq(c) /\ Content(Append(S, s)) = FlattenSeq(Append(c, x))
      BY MapOfAppend, Zenon DEF Content
    <2>. HIDE DEF c, x
    <2>3. FlattenSeq(c) \in Pairs /\ FlattenSeq(Append(c, x)) = FlattenSeq(c) \o x
      BY <2>1, FlattenAppend DEF Pairs
    <2>. QED  BY <2>2, <2>3, Zenon DEF x
  <1>. QED  BY <1>1, <1>2, <1>3, ConcatProperties

\* A piece at the end of a file begins its section, and adds its settings.
LEMMA PieceAdds ==
  ASSUME NEW u \in Seq(Line), NEW s \in ASection, NEW first \in BOOLEAN, first => u = <<>>
  PROVE  LET f == u \o Piece(s, first)
         IN f \in Seq(Line) /\ SectionOf(f, Len(f)) = s.name /\ All(f) = All(u) \o All(Headed(s))
  <1>. DEFINE v == s.settings
              t == Tag(s.name)
  <1>1. v \in Seq(SettingLine) /\ v \in Seq(Line) /\ t \in Line /\ t.tag /\ t.name = s.name /\ s.name \in SectionName
    <2>1. Seq(SettingLine) \subseteq Seq(Line)
      BY SeqMonotonic DEF SettingLine
    <2>. QED  BY <2>1, LinesHaveNames DEF ASection
  <1>2. u \o Piece(s, first) \in Seq(Line)
    BY PieceIsLines, ConcatProperties
  <1>3. CASE first /\ s.name = "all"
    <2>1. Piece(s, first) = v
      BY <1>1, <1>3, ConcatEmptySeq DEF Piece
    <2>2. SectionOf(u, Len(u)) = "all"
      BY <1>3, SectionAtFirst, EmptySeq
    <2>3. SectionOf(u \o v, Len(u \o v)) = "all" /\ All(u \o v) = All(u) \o All(<<Tag("all")>> \o v)
      <3>. HIDE DEF v
      <3>. QED  BY <1>1, <2>2, AllOfConcat
    <2>4. <<Tag("all")>> \o v = Headed(s)
      BY <1>3 DEF Headed
    <2>. HIDE DEF v
    <2>. QED  BY <1>2, <1>3, <2>1, <2>3, <2>4
  <1>4. CASE ~(first /\ s.name = "all")
    <2>1. Piece(s, first) = <<t>> \o v /\ Headed(s) = <<t>> \o v
      BY <1>4 DEF Piece, Headed
    <2>. HIDE DEF v, t
    <2>. DEFINE w == Append(u, t)
    <2>2. u \o (<<t>> \o v) = w \o v
      <3>1. w = u \o <<t>> /\ <<t>> \in Seq(Line)
        BY <1>1, AppendIsConcat
      <3>. QED  BY <1>1, <3>1, ConcatAssociative
    <2>3. w \in Seq(Line) /\ Len(w) = Len(u) + 1
      BY <1>1, AppendProperties
    <2>4. SectionOf(w, Len(w)) = s.name
      BY <1>1, <2>3, SectionOfAppend
    <2>5. All(w) = All(u)
      BY <1>1, AllOfAppend DEF IsOther
    <2>. HIDE DEF w
    <2>6. SectionOf(w \o v, Len(w \o v)) = s.name /\ All(w \o v) = All(w) \o All(<<Tag(s.name)>> \o v)
      BY <1>1, <2>3, <2>4, AllOfConcat
    <2>. QED  BY <1>2, <2>1, <2>2, <2>5, <2>6 DEF t
  <1>. QED  BY <1>3, <1>4

\* The content of what is written is that of the sections.
LEMMA AllOfLines == \A S \in Seq(ASection) : Lines(S) \in Seq(Line) /\ All(Lines(S)) = Content(S)
  <1>. DEFINE Good(T) == Lines(T) \in Seq(Line) /\ All(Lines(T)) = Content(T)
              N == {m \in Nat : \A T \in Seq(ASection) : Len(T) = m => Good(T)}
  <1>1. 0 \in N
    <2>1. Good(<<>>)
      <3>1. <<>> \in Seq(Line)
        OBVIOUS
      <3>. QED  BY <3>1, LinesOfEmpty, AllOfEmpty, Zenon
    <2>. HIDE DEF Good
    <2>. QED  BY <2>1, EmptySeq
  <1>2. ASSUME NEW m \in Nat, m \in N PROVE m + 1 \in N
    <2>. SUFFICES ASSUME NEW T \in Seq(ASection), Len(T) = m + 1 PROVE Good(T)
      <3>. HIDE DEF Good
      <3>. QED  OBVIOUS
    <2>1. PICK S \in Seq(ASection), s \in ASection : T = Append(S, s)
      <3>1. T # <<>>
        OBVIOUS
      <3>. QED  BY <3>1, SequenceEmptyOrAppend
    <2>2. Len(S) = m
      BY <2>1, AppendProperties, LenProperties
    <2>3. Good(S)
      BY <1>2, <2>2
    <2>4. /\ Lines(T) = Lines(S) \o Piece(s, S = <<>>)
          /\ Content(T) = Content(S) \o All(Headed(s))
      BY <2>1, LinesOfAppend
    <2>5. S = <<>> => Lines(S) = <<>>
      BY LinesOfEmpty
    <2>6. /\ Lines(S) \o Piece(s, S = <<>>) \in Seq(Line)
          /\ All(Lines(S) \o Piece(s, S = <<>>)) = All(Lines(S)) \o All(Headed(s))
      BY <2>3, <2>5, PieceAdds
    <2>. QED  BY <2>3, <2>4, <2>6
  <1>. HIDE DEF Good, N
  <1>3. \A m \in Nat : m \in N
    BY <1>1, <1>2, Induct
  <1>4. \A S \in Seq(ASection) : Good(S)
    BY <1>3, LenProperties DEF N
  <1>. QED  BY <1>4 DEF Good

\* The last section is where the written file ends.
LEMMA SectionOfLines ==
  ASSUME NEW S \in Seq(ASection), NEW s \in ASection
  PROVE  SectionOf(Lines(Append(S, s)), Len(Lines(Append(S, s)))) = s.name
  <1>1. Lines(S) \in Seq(Line) /\ Lines(Append(S, s)) = Lines(S) \o Piece(s, S = <<>>)
    BY LinesOfAppend
  <1>2. S = <<>> => Lines(S) = <<>>
    BY LinesOfEmpty
  <1>. QED  BY <1>1, <1>2, PieceAdds

-----------------------------------------------------------------------------
\* The parser's load, line by line.
Loaded == [sections : Seq(ASection), section : ASection]
AtFirst == [sections |-> <<>>, section |-> Section("all", <<>>)]

\* LoadLine, by the kind of the line.
LEMMA LoadLineIs ==
  ASSUME NEW a \in Loaded, NEW line \in Line
  PROVE  /\ LoadLine(a, line) \in Loaded
         /\ ~line.tag => LoadLine(a, line) = [sections |-> a.sections,
                            section |-> Section(a.section.name, Append(a.section.settings, line))]
         /\ line.tag => LoadLine(a, line) = [sections |-> IF line.name = "all" \/ line.name # a.section.name
                                                          THEN Append(a.sections, a.section) ELSE a.sections,
                            section |-> Section(line.name, <<>>)]
  <1>1. a = [sections |-> a.sections, section |-> Section(a.section.name, a.section.settings)]
    BY DEF Loaded, ASection, Section
  <1>2. /\ a.sections \in Seq(ASection) /\ a.section \in ASection
        /\ a.section.name \in SectionName /\ a.section.settings \in Seq(SettingLine)
    BY DEF Loaded, ASection
  <1>3. CASE ~line.tag
    <2>1. line \in SettingLine
      BY <1>3 DEF SettingLine
    <2>2. Append(a.section.settings, line) \in Seq(SettingLine)
      BY <1>2, <2>1, AppendProperties
    <2>3. LoadLine(a, line) = [sections |-> a.sections,
                            section |-> Section(a.section.name, Append(a.section.settings, line))]
      <3>1. LoadLine(a, line) = [a EXCEPT !.section.settings = Append(@, line)]
        BY <1>3 DEF LoadLine
      <3>. QED  BY <1>1, <1>2, <3>1 DEF Section, Loaded, ASection
    <2>. QED  BY <1>2, <1>3, <2>2, <2>3 DEF Loaded, ASection, Section
  <1>4. CASE line.tag /\ (line.name = "all" \/ line.name # a.section.name)
    <2>1. LoadLine(a, line) = [sections |-> Append(a.sections, a.section), section |-> Section(line.name, <<>>)]
      BY <1>4 DEF LoadLine
    <2>2. Append(a.sections, a.section) \in Seq(ASection)
      BY <1>2, AppendProperties
    <2>3. Section(line.name, <<>>) \in ASection
      BY <1>4, LinesHaveNames DEF ASection, Section
    <2>4. LoadLine(a, line) \in Loaded
      BY <2>1, <2>2, <2>3 DEF Loaded
    <2>. QED  BY <1>4, <2>1, <2>4
  <1>5. CASE line.tag /\ ~(line.name = "all" \/ line.name # a.section.name)
    <2>1. LoadLine(a, line) = [a EXCEPT !.section = Section(line.name, <<>>)]
      BY <1>5 DEF LoadLine
    <2>2. LoadLine(a, line) = [sections |-> a.sections, section |-> Section(line.name, <<>>)]
      BY <1>1, <2>1 DEF Loaded
    <2>. QED  BY <1>2, <1>5, <2>2, LinesHaveNames DEF Loaded, ASection, Section
  <1>. QED  BY <1>3, <1>4, <1>5

IsLoading(a, f) ==
  /\ a \in [0..Len(f) -> Loaded] /\ a[0] = AtFirst
  /\ \A i \in 1..Len(f) : a[i] = LoadLine(a[i - 1], f[i])

\* Load goes line by line.
LEMMA LoadIs ==
  ASSUME NEW f \in Seq(Line)
  PROVE  \E a : /\ IsLoading(a, f)
                /\ Load(f) = IF f = <<>> \/ f[Len(f)].tag
                             THEN a[Len(f)].sections ELSE Append(a[Len(f)].sections, a[Len(f)].section)
  <1>. DEFINE n == Len(f)
              step == [q \in Nat \X Loaded |-> IF q[1] \in 1..n THEN LoadLine(q[2], f[q[1]]) ELSE q[2]]
  <1>1. n \in Nat /\ AtFirst \in Loaded
    BY LinesHaveNames DEF Loaded, AtFirst, ASection, Section
  <1>2. step \in [Nat \X Loaded -> Loaded]
    <2>1. ASSUME NEW q \in Nat \X Loaded, q[1] \in 1..n PROVE LoadLine(q[2], f[q[1]]) \in Loaded
      BY <2>1, LoadLineIs
    <2>. QED  BY <2>1
  <1>3. PICK a \in [0..n -> Loaded] : Follows(a, n, AtFirst, step)
    <2>. HIDE DEF step, n
    <2>. QED  BY <1>1, <1>2, Recursion
  <1>4. a[0] = AtFirst
    BY <1>3 DEF Follows
  <1>5. ASSUME NEW i \in 1..n PROVE a[i] = LoadLine(a[i - 1], f[i])
    <2>1. a[i] = step[<<i, a[i - 1]>>]
      <3>. HIDE DEF step, n
      <3>. QED  BY <1>3 DEF Follows
    <2>2. i \in Nat /\ i - 1 \in 0..n
      BY <1>1
    <2>3. a[i - 1] \in Loaded
      BY <2>2
    <2>. QED  BY <2>1, <2>2, <2>3
  <1>. DEFINE Def(g) == g = [i \in 0..n |-> IF i = 0 THEN [sections |-> <<>>, section |-> Section("all", <<>>)]
                                            ELSE LoadLine(g[i - 1], f[i])]
              h == CHOOSE g : Def(g)
  <1>6. Load(f) = IF f = <<>> \/ f[n].tag THEN h[n].sections ELSE Append(h[n].sections, h[n].section)
    BY DEF Load, Last
  <1>7. Def(a)
    <2>1. ASSUME NEW i \in 0..n
          PROVE  a[i] = IF i = 0 THEN AtFirst ELSE LoadLine(a[i - 1], f[i])
      <3>1. i = 0 \/ i \in 1..n
        BY <1>1
      <3>. QED  BY <1>1, <1>4, <1>5, <3>1
    <2>. QED  BY <2>1 DEF AtFirst
  <1>8. Def(h)
    <2>. HIDE DEF Def
    <2>. QED  BY <1>7
  <1>9. ASSUME NEW i \in 0..n
        PROVE  h[i] = IF i = 0 THEN AtFirst ELSE LoadLine(h[i - 1], f[i])
    <2>. HIDE DEF h
    <2>. QED  BY <1>8 DEF AtFirst
  <1>. HIDE DEF h, step
  <1>10. \A i \in 0..n : h[i] = a[i]
    <2>. DEFINE S == {m \in Nat : m <= n => h[m] = a[m]}
    <2>1. 0 \in S
      BY <1>1, <1>4, <1>9
    <2>2. ASSUME NEW m \in Nat, m \in S PROVE m + 1 \in S
      <3>. SUFFICES ASSUME m + 1 <= n PROVE h[m + 1] = a[m + 1]
        OBVIOUS
      <3>1. m + 1 \in 1..n /\ m + 1 \in 0..n /\ m + 1 # 0 /\ (m + 1) - 1 = m /\ h[m] = a[m]
        BY <1>1, <2>2
      <3>2. h[m + 1] = LoadLine(h[(m + 1) - 1], f[m + 1])
        BY <1>9, <3>1, Zenon
      <3>3. a[m + 1] = LoadLine(a[(m + 1) - 1], f[m + 1])
        BY <1>5, <3>1, Zenon
      <3>. QED  BY <3>1, <3>2, <3>3, Zenon
    <2>. HIDE DEF S
    <2>3. \A m \in Nat : m \in S
      BY <2>1, <2>2, Induct
    <2>. QED  BY <1>1, <2>3 DEF S
  <1>11. IsLoading(a, f)
    BY <1>4, <1>5 DEF IsLoading
  <1>12. h[n] = a[n]
    BY <1>1, <1>10
  <1>. QED  BY <1>6, <1>11, <1>12

-----------------------------------------------------------------------------
\* Of the first i lines, those in the section that is being read, and those that
\* the sections before it have kept.
Open(f, k, i) == \A m \in k + 1..i : ~f[m].tag
Closed(f, i) == {k \in Others(f) : k <= i /\ ~Open(f, k, i) /\ ~Followed(f, k)}
Read(f, i) == {k \in Others(f) : k <= i /\ (Open(f, k, i) \/ ~Followed(f, k))}

LEMMA SectionStays ==
  ASSUME NEW f \in Seq(Line), NEW k \in Nat, NEW i \in Nat, k <= i, Open(f, k, i)
  PROVE  SectionOf(f, i) = SectionOf(f, k)
  <1>. DEFINE S == {m \in Nat : k + m <= i => SectionOf(f, k + m) = SectionOf(f, k)}
  <1>1. 0 \in S
    OBVIOUS
  <1>2. ASSUME NEW m \in Nat, m \in S PROVE m + 1 \in S
    <2>. SUFFICES ASSUME k + (m + 1) <= i PROVE SectionOf(f, k + (m + 1)) = SectionOf(f, k)
      OBVIOUS
    <2>. DEFINE j == k + (m + 1)
    <2>1. j \in Nat \ {0} /\ j - 1 = k + m /\ j \in k + 1..i /\ SectionOf(f, k + m) = SectionOf(f, k)
      BY <1>2
    <2>. HIDE DEF j
    <2>2. SectionOf(f, j) = IF f[j].tag THEN f[j].name ELSE SectionOf(f, j - 1)
      BY <2>1, SectionStep
    <2>3. SectionOf(f, j) = SectionOf(f, k)
      BY <2>1, <2>2 DEF Open
    <2>. QED  BY <2>3 DEF j
  <1>. HIDE DEF S
  <1>3. i - k \in S
    BY <1>1, <1>2, Induct
  <1>4. k + (i - k) = i
    OBVIOUS
  <1>. QED  BY <1>3, <1>4 DEF S

\* No section but [all] follows one of its name.
Apart(S) == \A i \in 2..Len(S) : S[i].name = "all" \/ S[i].name # S[i - 1].name

LEMMA ApartGrows ==
  ASSUME NEW S \in Seq(ASection), NEW s \in ASection
  PROVE  /\ Apart(Append(S, s)) => Apart(S)
         /\ \A t \in ASection : t.name = s.name /\ Apart(Append(S, s)) => Apart(Append(S, t))
         /\ Apart(Append(S, s)) /\ S # <<>> => s.name = "all" \/ s.name # S[Len(S)].name
         /\ \A t \in ASection : (t.name = "all" \/ t.name # s.name) /\ Apart(Append(S, s)) => Apart(Append(Append(S, s), t))
  <1>. DEFINE n == Len(S)
  <1>1. n \in Nat /\ (S # <<>> => n >= 1)
    BY LenProperties, EmptySeq
  <1>2. \A t \in ASection : Len(Append(S, t)) = n + 1 /\ Append(S, t)[n + 1] = t
                              /\ \A i \in 1..n : Append(S, t)[i] = S[i]
    BY AppendProperties
  <1>3. \A t \in ASection : /\ Len(Append(Append(S, s), t)) = n + 2
                            /\ Append(Append(S, s), t)[n + 2] = t
                            /\ Append(Append(S, s), t)[n + 1] = s
                            /\ \A i \in 1..n : Append(Append(S, s), t)[i] = S[i]
    <2>. TAKE t \in ASection
    <2>. DEFINE T == Append(S, s)
    <2>1. T \in Seq(ASection) /\ Len(T) = n + 1 /\ T[n + 1] = s /\ \A i \in 1..n : T[i] = S[i]
      BY AppendProperties
    <2>. HIDE DEF T
    <2>2. /\ Len(Append(T, t)) = Len(T) + 1 /\ Append(T, t)[Len(T) + 1] = t
          /\ \A i \in 1..Len(T) : Append(T, t)[i] = T[i]
      BY <2>1, AppendProperties
    <2>3. n + 1 \in 1..n + 1 /\ \A i \in 1..n : i \in 1..n + 1
      BY <1>1
    <2>4. (n + 1) + 1 = n + 2
      BY <1>1
    <2>. QED  BY <2>1, <2>2, <2>3, <2>4 DEF T
  <1>. HIDE DEF n
  <1>4. \A t \in ASection : Apart(Append(S, t)) <=> Apart(S) /\ (S # <<>> => t.name = "all" \/ t.name # S[n].name)
    <2>. TAKE t \in ASection
    <2>. DEFINE T == Append(S, t)
    <2>1. Len(T) = n + 1 /\ T[n + 1] = t /\ \A i \in 1..n : T[i] = S[i]
      BY <1>2
    <2>. HIDE DEF T
    <2>2. ASSUME Apart(T) PROVE Apart(S) /\ (S # <<>> => t.name = "all" \/ t.name # S[n].name)
      <3>1. ASSUME NEW i \in 2..n PROVE S[i].name = "all" \/ S[i].name # S[i - 1].name
        <4>1. i \in 2..n + 1 /\ i \in 1..n /\ i - 1 \in 1..n
          BY <1>1
        <4>. QED  BY <2>1, <2>2, <4>1 DEF Apart
      <3>2. ASSUME S # <<>> PROVE t.name = "all" \/ t.name # S[n].name
        <4>1. n + 1 \in 2..n + 1 /\ (n + 1) - 1 = n /\ n \in 1..n
          BY <1>1, <3>2
        <4>2. T[n + 1].name = "all" \/ T[n + 1].name # T[(n + 1) - 1].name
          BY <2>1, <2>2, <4>1 DEF Apart
        <4>. QED  BY <2>1, <4>1, <4>2
      <3>. QED  BY <3>1, <3>2 DEF Apart, n
    <2>3. ASSUME Apart(S), S # <<>> => t.name = "all" \/ t.name # S[n].name PROVE Apart(T)
      <3>1. ASSUME NEW i \in 2..n + 1 PROVE T[i].name = "all" \/ T[i].name # T[i - 1].name
        <4>1. CASE i = n + 1
          <5>1. S # <<>> /\ n \in 1..n /\ i - 1 = n
            BY <1>1, <4>1, EmptySeq DEF n
          <5>. QED  BY <2>1, <2>3, <4>1, <5>1
        <4>2. CASE i \in 2..n
          <5>1. i \in 1..n /\ i - 1 \in 1..n
            BY <1>1, <4>2
          <5>. QED  BY <2>1, <2>3, <4>2, <5>1 DEF Apart, n
        <4>. QED  BY <1>1, <4>1, <4>2
      <3>. QED  BY <2>1, <3>1 DEF Apart
    <2>. QED  BY <2>2, <2>3 DEF T
  <1>5. ASSUME NEW t \in ASection, t.name = "all" \/ t.name # s.name, Apart(Append(S, s))
        PROVE  Apart(Append(Append(S, s), t))
    <2>. DEFINE T == Append(Append(S, s), t)
    <2>1. Len(T) = n + 2 /\ T[n + 2] = t /\ T[n + 1] = s /\ \A i \in 1..n : T[i] = S[i]
      BY <1>3
    <2>2. Len(Append(S, s)) = n + 1 /\ Append(S, s)[n + 1] = s /\ \A i \in 1..n : Append(S, s)[i] = S[i]
      BY <1>2
    <2>. HIDE DEF T
    <2>3. ASSUME NEW i \in 2..n + 2 PROVE T[i].name = "all" \/ T[i].name # T[i - 1].name
      <3>1. CASE i = n + 2
        <4>1. i - 1 = n + 1
          BY <1>1, <3>1
        <4>. QED  BY <1>5, <2>1, <3>1, <4>1
      <3>2. CASE i \in 2..n + 1
        <4>1. T[i] = Append(S, s)[i] /\ T[i - 1] = Append(S, s)[i - 1]
          <5>1. (i = n + 1 \/ i \in 1..n) /\ i - 1 \in 1..n
            BY <1>1, <3>2
          <5>. QED  BY <2>1, <2>2, <5>1
        <4>. QED  BY <1>5, <2>2, <3>2, <4>1 DEF Apart
      <3>. QED  BY <1>1, <3>1, <3>2
    <2>. QED  BY <2>1, <2>3 DEF Apart, T
  <1>. QED  BY <1>4, <1>5 DEF n

LEMMA TagsAre == \A line \in Line : line.tag => line = Tag(line.name)
  BY DEF Line, Tag

\* The next tag decides whether the section that is being read is followed.
LEMMA OpenIsFollowed ==
  ASSUME NEW f \in Seq(Line), NEW i \in 1..Len(f), f[i].tag, NEW k \in 1..i - 1, Open(f, k, i - 1)
  PROVE  Followed(f, k) <=> f[i].name # "all" /\ f[i].name = SectionOf(f, i - 1)
  <1>1. SectionOf(f, k) = SectionOf(f, i - 1)
    BY SectionStays
  <1>2. f[i] = Tag(f[i].name) /\ f[i] \in Line /\ i \in DOMAIN f
    BY TagsAre
  <1>3. ASSUME f[i].name # "all", f[i].name = SectionOf(f, i - 1) PROVE Followed(f, k)
    <2>1. f[i] = Tag(SectionOf(f, k)) /\ \A m \in k + 1..i - 1 : ~f[m].tag
      BY <1>1, <1>2, <1>3, Zenon DEF Open
    <2>. QED  BY <1>2, <1>3, <2>1 DEF Followed
  <1>4. ASSUME Followed(f, k) PROVE f[i].name # "all" /\ f[i].name = SectionOf(f, i - 1)
    <2>1. PICK j \in DOMAIN f : /\ j > k /\ f[j] = Tag(SectionOf(f, k)) /\ f[j].name # "all"
                                /\ \A m \in k + 1..j - 1 : ~f[m].tag
      BY <1>4 DEF Followed
    <2>2. f[j].tag /\ f[j].name = SectionOf(f, k)
      BY <2>1 DEF Tag
    <2>3. j = i
      <3>1. ~(j < i)
        BY <2>1, <2>2 DEF Open
      <3>2. ~(j > i)
        BY <2>1
      <3>. QED  BY <3>1, <3>2
    <2>. QED  BY <1>1, <2>1, <2>2, <2>3
  <1>. QED  BY <1>3, <1>4

\* What a line changes of what has been read and kept.
LEMMA ReadOn ==
  ASSUME NEW f \in Seq(Line), NEW i \in 1..Len(f)
  PROVE  /\ ~f[i].tag => /\ Closed(f, i) = Closed(f, i - 1)
                         /\ Read(f, i) = IF IsOther(f[i]) THEN Read(f, i - 1) \cup {i} ELSE Read(f, i - 1)
         /\ f[i].tag => /\ Read(f, i) = Closed(f, i)
                        /\ Closed(f, i) = IF f[i].name = "all" \/ f[i].name # SectionOf(f, i - 1)
                                          THEN Read(f, i - 1) ELSE Closed(f, i - 1)
  <1>1. Others(f) = {k \in 1..Len(f) : IsOther(f[k])}
    BY OthersAre
  <1>2. \A k \in Others(f) : k \in Nat /\ (k <= i <=> k <= i - 1 \/ k = i)
    BY <1>1
  <1>3. i \in Others(f) <=> IsOther(f[i])
    BY <1>1
  <1>4. CASE ~f[i].tag
    <2>1. \A k \in Others(f) : k <= i - 1 => (Open(f, k, i) <=> Open(f, k, i - 1))
      BY <1>2, <1>4 DEF Open
    <2>2. Open(f, i, i)
      BY DEF Open
    <2>3. Closed(f, i) = Closed(f, i - 1)
      BY <1>2, <2>1, <2>2 DEF Closed
    <2>4. Read(f, i) = IF IsOther(f[i]) THEN Read(f, i - 1) \cup {i} ELSE Read(f, i - 1)
      <3>1. \A k : k \in Read(f, i) <=> k \in Read(f, i - 1) \/ (k = i /\ IsOther(f[i]))
        BY <1>2, <1>3, <2>1, <2>2 DEF Read
      <3>. QED  BY <3>1
    <2>. QED  BY <1>4, <2>3, <2>4
  <1>5. CASE f[i].tag
    <2>1. i \notin Others(f)
      BY <1>3, <1>5 DEF IsOther
    <2>2. \A k \in Others(f) : (k <= i <=> k <= i - 1) /\ (k <= i - 1 => ~Open(f, k, i))
      BY <1>2, <1>5, <2>1 DEF Open
    <2>3. Read(f, i) = Closed(f, i) /\ Closed(f, i) = {k \in Others(f) : k <= i - 1 /\ ~Followed(f, k)}
      BY <2>2 DEF Read, Closed
    <2>4. \A k \in Others(f) : k <= i - 1 /\ Open(f, k, i - 1) =>
             (Followed(f, k) <=> f[i].name # "all" /\ f[i].name = SectionOf(f, i - 1))
      <3>1. \A k \in Others(f) : k <= i - 1 => k \in 1..i - 1
        BY <1>1
      <3>. QED  BY <1>5, <3>1, OpenIsFollowed
    <2>5. CASE f[i].name = "all" \/ f[i].name # SectionOf(f, i - 1)
      BY <1>5, <2>3, <2>4, <2>5 DEF Read
    <2>6. CASE ~(f[i].name = "all" \/ f[i].name # SectionOf(f, i - 1))
      BY <1>5, <2>3, <2>4, <2>6 DEF Closed
    <2>. QED  BY <1>5, <2>3, <2>5, <2>6
  <1>. QED  BY <1>4, <1>5

LEMMA ReadSubset ==
  ASSUME NEW f \in Seq(Line), NEW i \in 0..Len(f)
  PROVE  Closed(f, i) \subseteq 1..i /\ Read(f, i) \subseteq 1..i
  BY OthersAre DEF Closed, Read

\* A section without settings adds nothing, and one with a setting more has it last.
LEMMA EmptySection ==
  ASSUME NEW S \in Seq(ASection), NEW name \in SectionName
  PROVE  Section(name, <<>>) \in ASection /\ Content(Append(S, Section(name, <<>>))) = Content(S)
  <1>. DEFINE s == Section(name, <<>>)
              e == <<>>
  <1>1. s \in ASection /\ s.name = name /\ s.settings = <<>>
    BY DEF ASection, Section
  <1>2. Headed(s) = Append(e, Tag(name))
    <2>1. Headed(s) = <<Tag(name)>> \o <<>>
      BY <1>1, Zenon DEF Headed
    <2>2. <<Tag(name)>> \o <<>> = <<Tag(name)>>
      <3>1. <<Tag(name)>> \in Seq(Line)
        BY LinesHaveNames
      <3>. QED  BY <3>1, ConcatEmptySeq, Zenon
    <2>3. <<Tag(name)>> = Append(e, Tag(name))
      OBVIOUS
    <2>. QED  BY <2>1, <2>2, <2>3, Zenon
  <1>3. e \in Seq(Line) /\ Tag(name) \in Line /\ ~IsOther(Tag(name))
    BY LinesHaveNames DEF IsOther
  <1>4. All(Append(e, Tag(name))) = All(e)
    <2>. HIDE DEF e
    <2>. QED  BY <1>3, AllOfAppend
  <1>5. All(Headed(s)) = <<>>
    BY <1>2, <1>4, AllOfEmpty
  <1>. HIDE DEF s
  <1>6. Content(S) \in Pairs /\ Content(Append(S, s)) = Content(S) \o All(Headed(s))
    BY <1>1, LinesOfAppend
  <1>7. Content(S) \o <<>> = Content(S)
    BY <1>6, ConcatEmptySeq DEF Pairs
  <1>. QED  BY <1>1, <1>5, <1>6, <1>7 DEF s

LEMMA LongerSection ==
  ASSUME NEW S \in Seq(ASection), NEW s \in ASection, NEW line \in SettingLine
  PROVE  LET t == Section(s.name, Append(s.settings, line))
         IN /\ t \in ASection
            /\ All(Headed(t)) = IF IsOther(line) THEN Append(All(Headed(s)), <<s.name, line>>) ELSE All(Headed(s))
            /\ Content(Append(S, t)) = IF IsOther(line) THEN Append(Content(Append(S, s)), <<s.name, line>>)
                                       ELSE Content(Append(S, s))
  <1>. DEFINE t == Section(s.name, Append(s.settings, line))
  <1>1. t \in ASection /\ t.name = s.name /\ t.settings = Append(s.settings, line) /\ s.name \in SectionName
    BY AppendProperties DEF ASection, Section
  <1>. HIDE DEF t
  <1>2. Headed(t) = Append(Headed(s), line)
    <2>1. Seq(SettingLine) \subseteq Seq(Line)
      BY SeqMonotonic DEF SettingLine
    <2>2. <<Tag(s.name)>> \in Seq(Line) /\ s.settings \in Seq(Line) /\ line \in Line
      BY <1>1, <2>1, LinesHaveNames DEF ASection, SettingLine
    <2>. QED  BY <1>1, <2>2, ConcatAppend DEF Headed
  <1>3. Headed(s) \in Seq(Line) /\ SectionOf(Headed(s), Len(Headed(s))) = s.name
    <2>. DEFINE e == <<>>
    <2>1. e \in Seq(Line) /\ Piece(s, FALSE) = Headed(s) /\ Headed(s) \in Seq(Line)
      <3>1. Piece(s, FALSE) = Headed(s)
        BY Zenon DEF Piece, Headed
      <3>2. e \in Seq(Line)
        OBVIOUS
      <3>3. Headed(s) \in Seq(Line)
        <4>. HIDE DEF e
        <4>. QED  BY FALSE \in BOOLEAN, PieceIsLines, Zenon
      <3>. QED  BY <3>1, <3>2, <3>3, Zenon
    <2>2. e \o Headed(s) = Headed(s)
      BY <2>1, ConcatEmptySeq
    <2>3. SectionOf(e \o Piece(s, FALSE), Len(e \o Piece(s, FALSE))) = s.name
      <3>. HIDE DEF e
      <3>. QED  BY <2>1, PieceAdds
    <2>. QED  BY <2>1, <2>2, <2>3
  <1>4. All(Headed(t)) = IF IsOther(line) THEN Append(All(Headed(s)), <<s.name, line>>) ELSE All(Headed(s))
    <2>1. line \in Line
      BY DEF SettingLine
    <2>. QED  BY <1>2, <1>3, <2>1, AllOfAppend
  <1>5. /\ Content(S) \in Pairs
        /\ Content(Append(S, t)) = Content(S) \o All(Headed(t))
        /\ Content(Append(S, s)) = Content(S) \o All(Headed(s))
    BY <1>1, LinesOfAppend
  <1>6. Content(S) \o Append(All(Headed(s)), <<s.name, line>>) = Append(Content(S) \o All(Headed(s)), <<s.name, line>>)
    <2>1. All(Headed(s)) \in Pairs /\ <<s.name, line>> \in SectionName \X Line
      BY <1>1, <1>3, AllIsPairs DEF SettingLine
    <2>. QED  BY <1>5, <2>1, ConcatAppend DEF Pairs
  <1>. QED  BY <1>1, <1>4, <1>5, <1>6 DEF t

\* What has been loaded of the first i lines is what they keep.
LoadedSoFar(a, f, i) ==
  /\ a[i].section.name = SectionOf(f, i)
  /\ Content(a[i].sections) = Picked(f, Closed(f, i))
  /\ Content(Append(a[i].sections, a[i].section)) = Picked(f, Read(f, i))
  /\ Apart(Append(a[i].sections, a[i].section))

\* The parser keeps to it: at first, and line by line.
LEMMA LoadedAtFirst == ASSUME NEW f \in Seq(Line), NEW a, IsLoading(a, f) PROVE LoadedSoFar(a, f, 0)
  <1>. DEFINE e == <<>>
              s == Section("all", <<>>)
  <1>1. a[0].sections = e /\ a[0].section = s /\ s.name = "all"
    BY DEF IsLoading, AtFirst, Section
  <1>2. e \in Seq(ASection) /\ "all" \in SectionName
    BY LinesHaveNames
  <1>3. Closed(f, 0) = {} /\ Read(f, 0) = {}
    <2>1. Closed(f, 0) \subseteq 1..0 /\ Read(f, 0) \subseteq 1..0
      BY ReadSubset
    <2>. QED  BY <2>1
  <1>4. Picked(f, {}) = <<>>
    BY PickedOfNone
  <1>5. Content(e) = <<>>
    BY LinesOfEmpty
  <1>6. Content(Append(e, s)) = Content(e)
    <2>. HIDE DEF e
    <2>. QED  BY <1>2, EmptySection
  <1>7. Apart(Append(e, s))
    BY DEF Apart
  <1>. QED  BY <1>1, <1>3, <1>4, <1>5, <1>6, <1>7, SectionAtFirst DEF LoadedSoFar

LEMMA LoadsOn ==
  ASSUME NEW f \in Seq(Line), NEW a, IsLoading(a, f), NEW i \in 1..Len(f), LoadedSoFar(a, f, i - 1)
  PROVE  LoadedSoFar(a, f, i)
  <1>. DEFINE S == a[i - 1].sections
              s == a[i - 1].section
              line == f[i]
              t == a[i].section
  <1>1. /\ i \in Nat \ {0} /\ i - 1 \in 0..Len(f) /\ line \in Line
        /\ a[i - 1] \in Loaded /\ a[i] = LoadLine(a[i - 1], line)
    BY DEF IsLoading
  <1>2. S \in Seq(ASection) /\ s \in ASection /\ s.name \in SectionName
    BY <1>1 DEF Loaded, ASection
  <1>3. /\ s.name = SectionOf(f, i - 1)
        /\ Content(S) = Picked(f, Closed(f, i - 1))
        /\ Content(Append(S, s)) = Picked(f, Read(f, i - 1))
        /\ Apart(Append(S, s))
    BY DEF LoadedSoFar
  <1>4. SectionOf(f, i) = IF line.tag THEN line.name ELSE SectionOf(f, i - 1)
    BY <1>1, SectionStep
  <1>5. CASE ~line.tag
    <2>1. a[i] = [sections |-> S, section |-> Section(s.name, Append(s.settings, line))]
      BY <1>1, <1>5, LoadLineIs
    <2>2. a[i].sections = S /\ t = Section(s.name, Append(s.settings, line)) /\ t.name = s.name
      BY <2>1 DEF Section
    <2>3. line \in SettingLine
      BY <1>1, <1>5 DEF SettingLine
    <2>. HIDE DEF S, s, t
    <2>4. /\ t \in ASection
          /\ Content(Append(S, t)) = IF IsOther(line) THEN Append(Content(Append(S, s)), <<s.name, line>>)
                                     ELSE Content(Append(S, s))
      BY <1>2, <2>2, <2>3, LongerSection
    <2>5. /\ Closed(f, i) = Closed(f, i - 1)
          /\ Read(f, i) = IF IsOther(line) THEN Read(f, i - 1) \cup {i} ELSE Read(f, i - 1)
      BY <1>5, ReadOn
    <2>6. Picked(f, Read(f, i - 1) \cup {i}) = Append(Picked(f, Read(f, i - 1)), Pair(f, i))
      <3>1. Read(f, i - 1) \in SUBSET (1..i - 1)
        BY <1>1, ReadSubset
      <3>. QED  BY <3>1, PickedLast
    <2>7. Pair(f, i) = <<s.name, line>>
      BY <1>3, <1>4, <1>5 DEF Pair
    <2>8. Content(Append(S, t)) = Picked(f, Read(f, i))
      BY <1>3, <2>4, <2>5, <2>6, <2>7
    <2>9. Apart(Append(S, t))
      BY <1>2, <1>3, <2>2, <2>4, ApartGrows
    <2>10. t.name = SectionOf(f, i) /\ Content(S) = Picked(f, Closed(f, i))
      BY <1>3, <1>4, <1>5, <2>2, <2>5
    <2>. QED  BY <2>2, <2>8, <2>9, <2>10 DEF LoadedSoFar, t
  <1>6. CASE line.tag
    <2>1. a[i] = [sections |-> IF line.name = "all" \/ line.name # s.name THEN Append(S, s) ELSE S,
                  section |-> Section(line.name, <<>>)]
      BY <1>1, <1>6, LoadLineIs
    <2>2. /\ a[i].sections = IF line.name = "all" \/ line.name # s.name THEN Append(S, s) ELSE S
          /\ t = Section(line.name, <<>>) /\ t.name = line.name
      BY <2>1 DEF Section
    <2>3. line.name \in SectionName
      BY <1>1, <1>6, LinesHaveNames
    <2>4. /\ Read(f, i) = Closed(f, i)
          /\ Closed(f, i) = IF line.name = "all" \/ line.name # s.name
                            THEN Read(f, i - 1) ELSE Closed(f, i - 1)
      BY <1>3, <1>6, ReadOn
    <2>. HIDE DEF S, s, t
    <2>5. Append(S, s) \in Seq(ASection)
      BY <1>2, AppendProperties
    <2>6. t \in ASection /\ Content(Append(a[i].sections, t)) = Content(a[i].sections)
      BY <1>2, <2>2, <2>3, <2>5, EmptySection
    <2>7. Content(a[i].sections) = Picked(f, Closed(f, i))
      BY <1>3, <2>2, <2>4
    <2>8. Apart(Append(a[i].sections, t))
      <3>1. CASE line.name = "all" \/ line.name # s.name
        BY <1>2, <1>3, <2>2, <2>6, <3>1, ApartGrows
      <3>2. CASE ~(line.name = "all" \/ line.name # s.name)
        BY <1>2, <1>3, <2>2, <2>6, <3>2, ApartGrows
      <3>. QED  BY <3>1, <3>2
    <2>. QED  BY <1>4, <1>6, <2>2, <2>4, <2>6, <2>7, <2>8 DEF LoadedSoFar, t
  <1>. QED  BY <1>5, <1>6

\* What the parser loads, and therefore writes, is what survives of the file.
LEMMA LoadKeeps ==
  ASSUME NEW f \in Seq(Line)
  PROVE  Load(f) \in Seq(ASection) /\ Content(Load(f)) = Survivors(f) /\ Apart(Load(f))
  <1>1. PICK a : /\ IsLoading(a, f)
                 /\ Load(f) = IF f = <<>> \/ f[Len(f)].tag
                              THEN a[Len(f)].sections ELSE Append(a[Len(f)].sections, a[Len(f)].section)
    BY LoadIs
  <1>. DEFINE n == Len(f)
              S == {m \in Nat : m <= n => LoadedSoFar(a, f, m)}
              b == a[n]
  <1>2. 0 \in S
    BY <1>1, LoadedAtFirst
  <1>3. ASSUME NEW m \in Nat, m \in S PROVE m + 1 \in S
    <2>. SUFFICES ASSUME m + 1 <= n PROVE LoadedSoFar(a, f, m + 1)
      OBVIOUS
    <2>1. m + 1 \in 1..Len(f) /\ (m + 1) - 1 = m /\ LoadedSoFar(a, f, m)
      BY <1>3
    <2>. QED  BY <1>1, <2>1, LoadsOn
  <1>4. n \in Nat /\ n \in S
    <2>1. n \in Nat
      OBVIOUS
    <2>. HIDE DEF S, n
    <2>. QED  BY <1>2, <1>3, <2>1, Induct
  <1>5. LoadedSoFar(a, f, n)
    BY <1>4
  <1>6. b \in Loaded /\ b.sections \in Seq(ASection) /\ b.section \in ASection
    BY <1>1, <1>4 DEF IsLoading, Loaded
  <1>7. /\ Content(b.sections) = Picked(f, Closed(f, n))
        /\ Content(Append(b.sections, b.section)) = Picked(f, Read(f, n))
        /\ Apart(Append(b.sections, b.section)) /\ Apart(b.sections)
    BY <1>5, <1>6, ApartGrows DEF LoadedSoFar
  <1>. DEFINE P == {k \in Others(f) : ~Followed(f, k)}
  <1>8. Others(f) = {k \in 1..n : IsOther(f[k])}
    BY OthersAre
  <1>9. CASE f = <<>> \/ f[n].tag
    <2>1. ASSUME NEW k \in Others(f) PROVE k <= n /\ ~Open(f, k, n)
      <3>1. k \in 1..n /\ ~f[k].tag /\ f # <<>> /\ f[n].tag
        BY <1>8, <1>9 DEF IsOther
      <3>2. n \in k + 1..n
        BY <3>1
      <3>. QED  BY <3>1, <3>2 DEF Open
    <2>2. Closed(f, n) = P
      BY <2>1 DEF Closed
    <2>3. Load(f) = b.sections
      BY <1>1, <1>9
    <2>. QED  BY <1>6, <1>7, <2>2, <2>3 DEF Survivors
  <1>10. CASE ~(f = <<>> \/ f[n].tag)
    <2>1. ASSUME NEW k \in Others(f) PROVE k <= n /\ (Open(f, k, n) => ~Followed(f, k))
      <3>1. k \in 1..n
        BY <1>8
      <3>2. ASSUME NEW j \in DOMAIN f, j > k, f[j] = Tag(SectionOf(f, k)) PROVE ~Open(f, k, n)
        <4>1. f[j].tag /\ j \in k + 1..n
          BY <3>1, <3>2 DEF Tag
        <4>. QED  BY <4>1 DEF Open
      <3>. QED  BY <3>1, <3>2 DEF Followed
    <2>2. Read(f, n) = P
      BY <2>1 DEF Read
    <2>3. Load(f) = Append(b.sections, b.section)
      BY <1>1, <1>10
    <2>4. Load(f) \in Seq(ASection)
      BY <1>6, <2>3, AppendProperties
    <2>. QED  BY <1>7, <2>2, <2>3, <2>4 DEF Survivors
  <1>. QED  BY <1>9, <1>10

\* No section but [all] is begun again at once.
NoRepeat(f) == \A i \in 1..Len(f) : f[i].tag /\ f[i].name # "all" => f[i].name # SectionOf(f, i - 1)

\* Then nothing is followed, and everything survives.
LEMMA AllSurvives == ASSUME NEW f \in Seq(Line), NoRepeat(f) PROVE Survivors(f) = All(f)
  <1>1. ASSUME NEW k \in Others(f), Followed(f, k) PROVE FALSE
    <2>1. PICK j \in DOMAIN f : /\ j > k /\ f[j] = Tag(SectionOf(f, k)) /\ f[j].name # "all"
                                /\ \A m \in k + 1..j - 1 : ~f[m].tag
      BY <1>1 DEF Followed
    <2>2. k \in 1..Len(f) /\ j \in 1..Len(f)
      BY OthersAre
    <2>3. SectionOf(f, j - 1) = SectionOf(f, k)
      <3>1. j - 1 \in Nat /\ k <= j - 1 /\ Open(f, k, j - 1)
        BY <2>1, <2>2 DEF Open
      <3>. QED  BY <2>2, <3>1, SectionStays
    <2>. QED  BY <2>1, <2>2, <2>3 DEF NoRepeat, Tag
  <1>2. {i \in Others(f) : ~Followed(f, i)} = Others(f)
    BY <1>1
  <1>. QED  BY <1>2 DEF Survivors, All

\* How such a file may grow: by settings, by a tag, by a piece.
LEMMA NoRepeatOfSettings ==
  ASSUME NEW u \in Seq(Line), NoRepeat(u), NEW v \in Seq(SettingLine)
  PROVE  NoRepeat(u \o v)
  <1>. DEFINE f == u \o v
              n == Len(u)
  <1>1. /\ n \in Nat /\ Len(v) \in Nat /\ Len(f) = n + Len(v)
        /\ \A i \in 1..n : f[i] = u[i]
        /\ \A i \in n + 1..n + Len(v) : f[i] = v[i - n] /\ i - n \in 1..Len(v)
    BY ConcatProperties, LenProperties
  <1>2. \A i \in 1..Len(v) : ~v[i].tag
    BY DEF SettingLine
  <1>. HIDE DEF f, n
  <1>3. SameTags(f, u, n)
    BY <1>1 DEF SameTags
  <1>4. \A i \in 0..n : SectionOf(f, i) = SectionOf(u, i)
    BY <1>1, <1>3, SameSections
  <1>5. ASSUME NEW i \in 1..Len(f), f[i].tag, f[i].name # "all" PROVE f[i].name # SectionOf(f, i - 1)
    <2>1. i \in 1..n
      BY <1>1, <1>2, <1>5
    <2>2. i - 1 \in 0..n
      BY <1>1, <2>1
    <2>. QED  BY <1>1, <1>4, <1>5, <2>1, <2>2 DEF NoRepeat, n
  <1>. QED  BY <1>5 DEF NoRepeat, f

LEMMA NoRepeatOfTag ==
  ASSUME NEW u \in Seq(Line), NoRepeat(u), NEW line \in Line, line.name = "all" \/ line.name # SectionOf(u, Len(u))
  PROVE  NoRepeat(Append(u, line))
  <1>. DEFINE f == Append(u, line)
              n == Len(u)
  <1>1. n \in Nat /\ Len(f) = n + 1 /\ f[n + 1] = line /\ \A i \in 1..n : f[i] = u[i]
    BY AppendProperties, LenProperties
  <1>2. \A i \in 0..n : SectionOf(f, i) = SectionOf(u, i)
    BY SectionOfAppend
  <1>. HIDE DEF f, n
  <1>3. ASSUME NEW i \in 1..n + 1, f[i].tag, f[i].name # "all" PROVE f[i].name # SectionOf(f, i - 1)
    <2>1. CASE i = n + 1
      <3>1. i - 1 = n /\ n \in 0..n
        BY <1>1, <2>1
      <3>. QED  BY <1>1, <1>2, <1>3, <2>1, <3>1 DEF n
    <2>2. CASE i \in 1..n
      <3>1. i - 1 \in 0..n
        BY <1>1, <2>2
      <3>. QED  BY <1>1, <1>2, <1>3, <2>2, <3>1 DEF NoRepeat, n
    <2>. QED  BY <1>1, <2>1, <2>2
  <1>. QED  BY <1>1, <1>3 DEF NoRepeat, f

LEMMA NoRepeatOfPiece ==
  ASSUME NEW u \in Seq(Line), NoRepeat(u), NEW s \in ASection, NEW first \in BOOLEAN,
         s.name = "all" \/ s.name # SectionOf(u, Len(u))
  PROVE  NoRepeat(u \o Piece(s, first))
  <1>. DEFINE v == s.settings
              t == Tag(s.name)
  <1>1. v \in Seq(SettingLine) /\ v \in Seq(Line) /\ t \in Line /\ t.name = s.name
    <2>1. Seq(SettingLine) \subseteq Seq(Line)
      BY SeqMonotonic DEF SettingLine
    <2>. QED  BY <2>1, LinesHaveNames DEF ASection
  <1>. HIDE DEF v, t
  <1>2. CASE first /\ s.name = "all"
    <2>1. Piece(s, first) = <<>> \o v
      BY <1>2, Zenon DEF Piece, v
    <2>2. <<>> \o v = v
      BY <1>1, ConcatEmptySeq
    <2>. QED  BY <1>1, <2>1, <2>2, NoRepeatOfSettings
  <1>3. CASE ~(first /\ s.name = "all")
    <2>1. Piece(s, first) = <<t>> \o v
      BY <1>3, Zenon DEF Piece, v, t
    <2>2. u \o (<<t>> \o v) = Append(u, t) \o v
      <3>1. Append(u, t) = u \o <<t>> /\ <<t>> \in Seq(Line)
        BY <1>1, AppendIsConcat
      <3>. QED  BY <1>1, <3>1, ConcatAssociative
    <2>3. NoRepeat(Append(u, t)) /\ Append(u, t) \in Seq(Line)
      BY <1>1, NoRepeatOfTag, AppendProperties
    <2>. QED  BY <1>1, <2>1, <2>2, <2>3, NoRepeatOfSettings
  <1>. QED  BY <1>2, <1>3

\* Sections that are apart are written as such a file.
LEMMA ApartIsNoRepeat == \A S \in Seq(ASection) : Apart(S) => NoRepeat(Lines(S))
  <1>. DEFINE N == {m \in Nat : \A S \in Seq(ASection) : Len(S) = m /\ Apart(S) => NoRepeat(Lines(S))}
  <1>1. 0 \in N
    <2>1. NoRepeat(<<>>)
      BY DEF NoRepeat
    <2>2. \A S \in Seq(ASection) : Len(S) = 0 => S = <<>>
      BY EmptySeq
    <2>. QED  BY <2>1, <2>2, LinesOfEmpty
  <1>2. ASSUME NEW m \in Nat, m \in N PROVE m + 1 \in N
    <2>. SUFFICES ASSUME NEW T \in Seq(ASection), Len(T) = m + 1, Apart(T) PROVE NoRepeat(Lines(T))
      OBVIOUS
    <2>1. PICK S \in Seq(ASection), s \in ASection : T = Append(S, s)
      <3>1. T # <<>>
        OBVIOUS
      <3>. QED  BY <3>1, SequenceEmptyOrAppend
    <2>2. Len(S) = m
      BY <2>1, AppendProperties, LenProperties
    <2>3. Apart(S)
      BY <2>1, ApartGrows
    <2>4. NoRepeat(Lines(S)) /\ Lines(S) \in Seq(Line)
      BY <1>2, <2>2, <2>3, LinesOfAppend, <2>1
    <2>5. s.name = "all" \/ s.name # SectionOf(Lines(S), Len(Lines(S)))
      <3>1. CASE S = <<>>
        <4>1. SectionOf(Lines(S), Len(Lines(S))) = "all"
          BY <3>1, LinesOfEmpty, SectionAtFirst, EmptySeq
        <4>. QED  BY <4>1
      <3>2. CASE S # <<>>
        <4>1. PICK S0 \in Seq(ASection), s0 \in ASection : S = Append(S0, s0)
          BY <3>2, SequenceEmptyOrAppend
        <4>2. S[Len(S)] = s0
          BY <4>1, AppendProperties
        <4>3. SectionOf(Lines(S), Len(Lines(S))) = s0.name
          BY <4>1, SectionOfLines
        <4>4. s.name = "all" \/ s.name # S[Len(S)].name
          BY <2>1, <3>2, ApartGrows
        <4>. QED  BY <4>2, <4>3, <4>4
      <3>. QED  BY <3>1, <3>2
    <2>6. Lines(T) = Lines(S) \o Piece(s, S = <<>>)
      BY <2>1, LinesOfAppend
    <2>7. (S = <<>>) \in BOOLEAN
      OBVIOUS
    <2>. QED  BY <2>4, <2>5, <2>6, <2>7, NoRepeatOfPiece
  <1>. HIDE DEF N
  <1>3. \A m \in Nat : m \in N
    BY <1>1, <1>2, Induct
  <1>. QED  BY <1>3, LenProperties DEF N

\* The other settings of what is written are those of the sections, and all survive.
LEMMA WrittenKeeps ==
  ASSUME NEW S \in Seq(ASection), Apart(S)
  PROVE  Lines(S) \in Seq(Line) /\ All(Lines(S)) = Content(S) /\ Survivors(Lines(S)) = Content(S)
  BY AllOfLines, ApartIsNoRepeat, AllSurvives

\* Files that differ in lines of the overlays and the drive only, and in such lines
\* at the end.
Alike(f, g) ==
  /\ Len(f) <= Len(g)
  /\ \A i \in 1..Len(f) :
       /\ g[i].tag = f[i].tag
       /\ f[i].tag \/ IsOther(f[i]) \/ IsOther(g[i]) => g[i] = f[i]
  /\ \A i \in Len(f) + 1..Len(g) : ~g[i].tag /\ ~IsOther(g[i])

\* They have the same other settings, and the same of them survive.
LEMMA AlikeKeeps ==
  ASSUME NEW f \in Seq(Line), NEW g \in Seq(Line), Alike(f, g)
  PROVE  All(g) = All(f) /\ Survivors(g) = Survivors(f)
  <1>. DEFINE n == Len(f)
  <1>1. n \in Nat /\ Len(g) \in Nat /\ n <= Len(g)
    BY LenProperties DEF Alike
  <1>2. SameTags(g, f, n)
    BY DEF Alike, SameTags
  <1>3. \A i \in 0..n : SectionOf(g, i) = SectionOf(f, i)
    BY <1>1, <1>2, SameSections
  <1>4. Others(g) = Others(f) /\ Others(f) \subseteq 1..n
    <2>1. Others(f) = {i \in 1..n : IsOther(f[i])} /\ Others(g) = {i \in 1..Len(g) : IsOther(g[i])}
      BY OthersAre
    <2>2. \A i \in 1..Len(g) : i \in 1..n \/ i \in n + 1..Len(g)
      BY <1>1
    <2>3. \A i \in 1..n : i \in 1..Len(g) /\ (IsOther(g[i]) <=> IsOther(f[i]))
      BY <1>1 DEF Alike
    <2>4. \A i \in n + 1..Len(g) : ~IsOther(g[i])
      BY DEF Alike
    <2>. QED  BY <2>1, <2>2, <2>3, <2>4
  <1>5. \A i \in Others(f) : Pair(g, i) = Pair(f, i)
    <2>1. \A i \in Others(f) : IsOther(f[i]) /\ i \in 1..n /\ i \in 0..n
      BY <1>4, OthersAre
    <2>. QED  BY <1>3, <2>1 DEF Alike, Pair
  <1>6. ASSUME NEW k \in Others(f) PROVE Followed(g, k) <=> Followed(f, k)
    <2>1. k \in 1..n /\ SectionOf(g, k) = SectionOf(f, k)
      BY <1>3, <1>4
    <2>2. ASSUME NEW j \in 1..Len(g), g[j] = Tag(SectionOf(g, k)) PROVE j \in 1..n /\ g[j] = f[j]
      <3>1. g[j].tag
        BY <2>2 DEF Tag
      <3>2. j \in 1..n
        BY <1>1, <3>1 DEF Alike
      <3>. QED  BY <3>1, <3>2 DEF Alike
    <2>3. ASSUME NEW j \in 1..n, f[j] = Tag(SectionOf(f, k)) PROVE j \in 1..Len(g) /\ g[j] = f[j]
      <3>1. f[j].tag
        BY <2>3 DEF Tag
      <3>. QED  BY <1>1, <3>1 DEF Alike
    <2>4. ASSUME NEW j \in 1..n
          PROVE  (\A m \in k + 1..j - 1 : ~g[m].tag) <=> (\A m \in k + 1..j - 1 : ~f[m].tag)
      <3>1. \A m \in k + 1..j - 1 : m \in 1..n
        BY <1>1, <2>1
      <3>. QED  BY <3>1 DEF Alike
    <2>5. DOMAIN f = 1..n /\ DOMAIN g = 1..Len(g)
      OBVIOUS
    <2>. HIDE DEF n
    <2>6. ASSUME Followed(g, k) PROVE Followed(f, k)
      <3>1. PICK j \in 1..Len(g) : /\ j > k /\ g[j] = Tag(SectionOf(g, k)) /\ g[j].name # "all"
                                   /\ \A m \in k + 1..j - 1 : ~g[m].tag
        BY <2>5, <2>6 DEF Followed
      <3>2. j \in 1..n /\ g[j] = f[j]
        BY <2>2, <3>1
      <3>. QED  BY <2>1, <2>4, <2>5, <3>1, <3>2 DEF Followed
    <2>7. ASSUME Followed(f, k) PROVE Followed(g, k)
      <3>1. PICK j \in 1..n : /\ j > k /\ f[j] = Tag(SectionOf(f, k)) /\ f[j].name # "all"
                              /\ \A m \in k + 1..j - 1 : ~f[m].tag
        BY <2>5, <2>7 DEF Followed
      <3>2. j \in 1..Len(g) /\ g[j] = f[j]
        BY <2>3, <3>1
      <3>. QED  BY <2>1, <2>4, <2>5, <3>1, <3>2 DEF Followed
    <2>. QED  BY <2>6, <2>7
  <1>7. {k \in Others(g) : ~Followed(g, k)} = {k \in Others(f) : ~Followed(f, k)}
    BY <1>4, <1>6
  <1>. HIDE DEF n
  <1>8. \A P \in SUBSET Others(f) : Picked(g, P) = Picked(f, P)
    <2>1. \A P \in SUBSET Others(f) : P \in SUBSET (1..n) /\ \A i \in P : Pair(f, i) = Pair(g, i)
      BY <1>4, <1>5
    <2>. QED  BY <1>1, <2>1, PickedAlike DEF n
  <1>9. Others(f) \in SUBSET Others(f) /\ {k \in Others(f) : ~Followed(f, k)} \in SUBSET Others(f)
    OBVIOUS
  <1>. QED  BY <1>4, <1>7, <1>8, <1>9, Zenon DEF All, Survivors

-----------------------------------------------------------------------------
\* The settings that an edit may take away or put there.
Edit == {line \in SettingLine : ~IsOther(line)}

\* And of one section.
SameSection(s, t) == t \in ASection /\ t.name = s.name /\ All(Headed(t)) = All(Headed(s))

\* Sections with the same settings, one by one.
LEMMA SameContent ==
  ASSUME NEW S \in Seq(ASection), NEW T, DOMAIN T = DOMAIN S, T = [i \in DOMAIN T |-> T[i]],
         \A i \in DOMAIN S : SameSection(S[i], T[i])
  PROVE  T \in Seq(ASection) /\ Content(T) = Content(S) /\ (Apart(S) => Apart(T))
  <1>. DEFINE n == Len(S)
  <1>1. DOMAIN S = 1..n /\ n \in Nat /\ DOMAIN T = 1..n
    OBVIOUS
  <1>. HIDE DEF n
  <1>2. \A i \in 1..n : T[i] \in ASection /\ T[i].name = S[i].name /\ All(Headed(T[i])) = All(Headed(S[i]))
    BY <1>1 DEF SameSection
  <1>3. T \in [1..n -> ASection]
    BY <1>1, <1>2
  <1>4. T \in Seq(ASection) /\ Len(T) = n
    BY <1>1, <1>3
  <1>5. Content(T) = Content(S)
    <2>1. [i \in DOMAIN T |-> All(Headed(T[i]))] = [i \in DOMAIN S |-> All(Headed(S[i]))]
      BY <1>1, <1>2
    <2>. QED  BY <2>1, Zenon DEF Content
  <1>6. ASSUME Apart(S) PROVE Apart(T)
    <2>1. \A i \in 2..n : i \in 1..n /\ i - 1 \in 1..n
      BY <1>1
    <2>. QED  BY <1>2, <1>4, <1>6, <2>1 DEF Apart, n
  <1>. QED  BY <1>4, <1>5, <1>6

LEMMA HeadedIs ==
  ASSUME NEW s \in ASection
  PROVE  /\ Headed(s) \in Seq(Line) /\ Len(Headed(s)) = Len(s.settings) + 1
         /\ Headed(s)[1] = Tag(s.name) /\ \A i \in 2..Len(s.settings) + 1 : Headed(s)[i] = s.settings[i - 1]
  <1>. DEFINE t == Tag(s.name)
              v == s.settings
              u == <<t>>
  <1>1. v \in Seq(SettingLine) /\ v \in Seq(Line) /\ t \in Line
    <2>1. Seq(SettingLine) \subseteq Seq(Line)
      BY SeqMonotonic DEF SettingLine
    <2>. QED  BY <2>1, LinesHaveNames DEF ASection
  <1>. HIDE DEF v, t
  <1>2. u \in Seq(Line) /\ Len(u) = 1 /\ u[1] = t
    BY <1>1
  <1>. HIDE DEF u
  <1>3. /\ u \o v \in Seq(Line) /\ Len(u \o v) = 1 + Len(v) /\ (u \o v)[1] = t
        /\ \A i \in 2..Len(v) + 1 : (u \o v)[i] = v[i - 1]
    <2>1. v \in Seq(Line) /\ u \in Seq(Line) /\ Len(v) \in Nat
      BY <1>1, <1>2, LenProperties
    <2>2. u \o v \in Seq(Line) /\ Len(u \o v) = Len(u) + Len(v)
          /\ \A i \in 1..Len(u) + Len(v) : (u \o v)[i] = IF i <= Len(u) THEN u[i] ELSE v[i - Len(u)]
      BY <2>1, ConcatProperties
    <2>3. \A i \in 1..1 + Len(v) : (u \o v)[i] = IF i <= 1 THEN u[i] ELSE v[i - 1]
      BY <1>2, <2>2
    <2>. QED  BY <1>2, <2>1, <2>2, <2>3
  <1>4. Headed(s) = u \o v
    BY Zenon DEF Headed, u, t, v
  <1>5. Len(v) \in Nat
    BY <1>1, LenProperties
  <1>. QED  BY <1>3, <1>4, <1>5 DEF t, v

\* The first such setting is replaced.
LEMMA ReplacedAt ==
  ASSUME NEW s \in ASection, NEW from, NEW to, Has(s, from)
  PROVE  \E k \in 1..Len(s.settings) :
           /\ s.settings[k] = from
           /\ Replaced(s, from, to) = [name |-> s.name, settings |-> [s.settings EXCEPT ![k] = to]]
  <1>. DEFINE v == s.settings
              n == Len(v)
              I == {i \in 1..n : v[i] = from}
  <1>1. v \in Seq(SettingLine) /\ n \in Nat /\ DOMAIN v = 1..n /\ s = [name |-> s.name, settings |-> v]
    BY DEF ASection
  <1>2. I # {} /\ I \subseteq Nat
    BY <1>1 DEF Has
  <1>. DEFINE k == Min(I)
  <1>3. k \in I
    <2>1. \E m \in I : \A y \in I : m <= y
      BY <1>2, Least
    <2>. HIDE DEF I
    <2>. QED  BY <2>1 DEF Min
  <1>. DEFINE w == [v EXCEPT ![k] = to]
  <1>4. Replaced(s, from, to) = [name |-> s.name, settings |-> w]
    <2>1. SelectInSeq(v, LAMBDA line : line = from) = k
      BY <1>2, Zenon DEF SelectInSeq
    <2>2. Replaced(s, from, to) = [s EXCEPT !.settings = ReplaceAt(v, SelectInSeq(v, LAMBDA line : line = from), to)]
      BY Zenon DEF Replaced
    <2>3. Replaced(s, from, to) = [s EXCEPT !.settings = w]
      BY <2>1, <2>2, Zenon DEF ReplaceAt
    <2>. HIDE DEF w, v
    <2>. QED  BY <1>1, <2>3
  <1>. HIDE DEF k
  <1>5. k \in 1..n /\ v[k] = from
    BY <1>3
  <1>. QED  BY <1>4, <1>5

\* One setting is replaced by another: Replaced.
LEMMA ReplacedIs ==
  ASSUME NEW s \in ASection, NEW from \in Edit, NEW to \in Edit
  PROVE  SameSection(s, Replaced(s, from, to))
  <1>. DEFINE v == s.settings
              n == Len(v)
  <1>1. v \in Seq(SettingLine) /\ n \in Nat /\ DOMAIN v = 1..n /\ s.name \in SectionName
        /\ s = [name |-> s.name, settings |-> v]
    BY DEF ASection
  <1>2. CASE ~Has(s, from)
    <2>1. Replaced(s, from, to) = s
      BY <1>1, <1>2 DEF Replaced
    <2>. QED  BY <2>1 DEF SameSection
  <1>3. CASE Has(s, from)
    <2>1. PICK k \in 1..n : v[k] = from /\ Replaced(s, from, to) = [name |-> s.name, settings |-> [v EXCEPT ![k] = to]]
      BY <1>3, ReplacedAt
    <2>. DEFINE w == [v EXCEPT ![k] = to]
                t == [name |-> s.name, settings |-> w]
    <2>3. Replaced(s, from, to) = t
      BY <2>1
    <2>4. k \in 1..n /\ v[k] = from
      BY <2>1
    <2>5. w \in Seq(SettingLine) /\ Len(w) = n /\ \A i \in 1..n : w[i] = IF i = k THEN to ELSE v[i]
      BY <1>1, <2>4 DEF Edit
    <2>. HIDE DEF w, n, v
    <2>6. t \in ASection
      BY <1>1, <2>5 DEF ASection
    <2>7. Alike(Headed(s), Headed(t))
      <3>. DEFINE f == Headed(s)
                  g == Headed(t)
      <3>1. /\ f \in Seq(Line) /\ Len(f) = n + 1
            /\ f[1] = Tag(s.name) /\ \A i \in 2..n + 1 : f[i] = v[i - 1]
        BY HeadedIs DEF n, v
      <3>2. /\ g \in Seq(Line) /\ Len(g) = n + 1
            /\ g[1] = Tag(s.name) /\ \A i \in 2..n + 1 : g[i] = w[i - 1]
        <4>1. t.name = s.name /\ t.settings = w
          OBVIOUS
        <4>. HIDE DEF t
        <4>. QED  BY <2>5, <2>6, <4>1, HeadedIs
      <3>. HIDE DEF f, g
      <3>3. ASSUME NEW i \in 1..n + 1
            PROVE  g[i].tag = f[i].tag /\ (f[i].tag \/ IsOther(f[i]) \/ IsOther(g[i]) => g[i] = f[i])
        <4>1. CASE i = 1
          BY <3>1, <3>2, <4>1
        <4>2. CASE i \in 2..n + 1 /\ i - 1 # k
          <5>1. i - 1 \in 1..n
            BY <1>1, <4>2
          <5>. QED  BY <2>5, <3>1, <3>2, <4>2, <5>1
        <4>3. CASE i \in 2..n + 1 /\ i - 1 = k
          <5>1. f[i] = from /\ g[i] = to
            BY <2>4, <2>5, <3>1, <3>2, <4>3
          <5>. QED  BY <5>1 DEF Edit, SettingLine, Line
        <4>. QED  BY <1>1, <4>1, <4>2, <4>3
      <3>4. n + 1 <= n + 1 /\ (n + 1) + 1..n + 1 = {}
        BY <1>1
      <3>. QED  BY <3>1, <3>2, <3>3, <3>4 DEF Alike, f, g
    <2>8. All(Headed(t)) = All(Headed(s))
      BY <2>6, <2>7, AlikeKeeps, HeadedIs
    <2>. QED  BY <2>3, <2>6, <2>8 DEF SameSection
  <1>. QED  BY <1>2, <1>3

\* An edit of the sections that leaves the other settings alone.
SameSettings(S, T) == T \in Seq(ASection) /\ Content(T) = Content(S) /\ Apart(T)

\* In all sections [all]: Edited.
LEMMA EditedIs ==
  ASSUME NEW S \in Seq(ASection), Apart(S), NEW from \in Edit, NEW to \in Edit
  PROVE  SameSettings(S, Edited(S, from, to))
  <1>. DEFINE T == Edited(S, from, to)
  <1>1. T = [i \in DOMAIN S |-> IF S[i].name = "all" THEN Replaced(S[i], from, to) ELSE S[i]]
    BY Zenon DEF Edited
  <1>2. DOMAIN T = DOMAIN S /\ T = [i \in DOMAIN T |-> T[i]]
    BY <1>1
  <1>3. ASSUME NEW i \in DOMAIN S PROVE SameSection(S[i], T[i])
    <2>1. S[i] \in ASection
      OBVIOUS
    <2>2. SameSection(S[i], Replaced(S[i], from, to)) /\ SameSection(S[i], S[i])
      BY <2>1, ReplacedIs DEF SameSection
    <2>. QED  BY <1>1, <2>2
  <1>. HIDE DEF T
  <1>4. T \in Seq(ASection) /\ Content(T) = Content(S) /\ Apart(T)
    BY <1>2, <1>3, SameContent
  <1>. QED  BY <1>4 DEF SameSettings, T

\* A section [all] at the end, or a setting at the end of one: Added.
LEMMA SectionAdded ==
  ASSUME NEW S \in Seq(ASection), Apart(S), NEW new \in Edit
  PROVE  SameSettings(S, Append(S, Section("all", <<new>>)))
  <1>. DEFINE e == <<>>
              o == Section("all", e)
              t == Section("all", <<new>>)
  <1>1. o \in ASection /\ Content(Append(S, o)) = Content(S) /\ o.name = "all" /\ o.settings = e
    BY LinesHaveNames, EmptySection DEF Section
  <1>2. new \in SettingLine /\ ~IsOther(new) /\ t = Section(o.name, Append(o.settings, new))
    <2>1. Append(e, new) = <<new>>
      OBVIOUS
    <2>. QED  BY <1>1, <2>1, Zenon DEF Edit
  <1>. HIDE DEF o
  <1>3. t \in ASection /\ t.name = "all" /\ Content(Append(S, t)) = Content(S)
    <2>1. t.name = "all"
      BY DEF Section
    <2>. HIDE DEF t
    <2>. QED  BY <1>1, <1>2, <2>1, LongerSection
  <1>. HIDE DEF t
  <1>4. Append(S, t) \in Seq(ASection)
    BY <1>3, AppendProperties
  <1>5. Apart(Append(S, t))
    <2>1. CASE S = <<>>
      <3>1. Len(Append(S, t)) = 1
        BY <1>3, <2>1, AppendProperties
      <3>. QED  BY <3>1 DEF Apart
    <2>2. CASE S # <<>>
      <3>1. PICK S0 \in Seq(ASection), s0 \in ASection : S = Append(S0, s0)
        BY <2>2, SequenceEmptyOrAppend
      <3>. QED  BY <1>3, <3>1, ApartGrows
    <2>. QED  BY <2>1, <2>2
  <1>. QED  BY <1>3, <1>4, <1>5 DEF SameSettings, t

LEMMA SettingAdded ==
  ASSUME NEW S \in Seq(ASection), Apart(S), NEW new \in Edit, NEW m
  PROVE  SameSettings(S, [S EXCEPT ![m].settings = Append(@, new)])
  <1>. DEFINE T == [S EXCEPT ![m].settings = Append(@, new)]
  <1>1. DOMAIN T = DOMAIN S /\ T = [i \in DOMAIN T |-> T[i]]
    OBVIOUS
  <1>2. \A i \in DOMAIN S : T[i] = IF i = m THEN [S[i] EXCEPT !.settings = Append(S[i].settings, new)] ELSE S[i]
    OBVIOUS
  <1>. HIDE DEF T
  <1>3. ASSUME NEW i \in DOMAIN S PROVE SameSection(S[i], T[i])
    <2>. DEFINE s == S[i]
                t == Section(s.name, Append(s.settings, new))
    <2>1. s \in ASection /\ new \in SettingLine /\ ~IsOther(new)
      BY DEF Edit
    <2>2. t.name = s.name
      BY DEF Section
    <2>3. [s EXCEPT !.settings = Append(s.settings, new)] = t
      <3>. DEFINE v == Append(s.settings, new)
      <3>1. s = [name |-> s.name, settings |-> s.settings]
        BY <2>1 DEF ASection
      <3>. HIDE DEF s, v
      <3>2. [s EXCEPT !.settings = v] = [name |-> s.name, settings |-> v]
        BY <3>1
      <3>. QED  BY <3>2 DEF v, Section
    <2>. HIDE DEF s
    <2>4. t \in ASection /\ All(Headed(t)) = All(Headed(s))
      BY <2>1, LongerSection
    <2>. QED  BY <1>2, <2>1, <2>2, <2>3, <2>4 DEF SameSection, s
  <1>4. T \in Seq(ASection) /\ Content(T) = Content(S) /\ Apart(T)
    BY <1>1, <1>3, SameContent
  <1>. QED  BY <1>4 DEF SameSettings, T

\* What an edit by sections keeps: what survives the load, and no more is lost.
Kept(x, y) == y \in Seq(Line) /\ All(y) = Survivors(x) /\ Survivors(y) = Survivors(x)

LEMMA SettingsAreLines ==
  /\ \A o \in Overlay \cup Drive : Setting(o) \in Edit /\ Off(Setting(o)) \in Edit
  /\ Edit \subseteq SettingLine /\ SettingLine \subseteq Line
  BY ConfigAssumption DEF Overlay, Drive, Setting, Off, Edit, SettingLine, Line, IsOther

\* Whatever is written of sections with what was loaded keeps what survived.
LEMMA SectionsKept ==
  ASSUME NEW x \in Seq(Line), NEW T, SameSettings(Load(x), T)
  PROVE  Kept(x, Lines(T))
  <1>1. Load(x) \in Seq(ASection) /\ Content(Load(x)) = Survivors(x)
    BY LoadKeeps
  <1>. QED  BY <1>1, WrittenKeeps DEF SameSettings, Kept

\* The three edits: comment_setting, add_or_uncomment and set_value.
LEMMA CommentedKeeps ==
  ASSUME NEW x \in Seq(Line), NEW o \in Overlay
  PROVE  Kept(x, Commented(x, Setting(o)))
  <1>1. Load(x) \in Seq(ASection) /\ Apart(Load(x))
    BY LoadKeeps
  <1>2. SameSettings(Load(x), Edited(Load(x), Setting(o), Off(Setting(o))))
    BY <1>1, EditedIs, SettingsAreLines
  <1>. QED  BY <1>2, SectionsKept DEF Commented

\* The sections that are written after an addition.
AddedTo(S, new, T) ==
  \/ AnyHas(S, new) /\ T = S
  \/ AnyHas(S, Off(new)) /\ T = Edited(S, Off(new), new)
  \/ T = Append(S, Section("all", <<new>>))
  \/ \E m \in DOMAIN S : S[m].name = "all" /\ T = [S EXCEPT ![m].settings = Append(@, new)]

LEMMA AddedIs ==
  ASSUME NEW x \in Seq(Line), NEW new
  PROVE  \E T : AddedTo(Load(x), new, T) /\ Added(x, new) = Lines(T)
  <1>. DEFINE S == Load(x)
              alls == {i \in DOMAIN S : S[i].name = "all"}
              e2 == Edited(S, Off(new), new)
              e3 == Append(S, Section("all", <<new>>))
              e4 == [S EXCEPT ![Max(alls)].settings = Append(@, new)]
  <1>1. S \in Seq(ASection)
    BY LoadKeeps
  <1>2. AnyHas(S, new) \/ AnyHas(S, Off(new)) => alls # {}
    BY DEF AnyHas
  <1>3. alls # {} => Max(alls) \in alls
    <2>1. Len(S) \in Nat /\ alls \subseteq Nat /\ \A i \in alls : i <= Len(S)
      BY <1>1
    <2>. HIDE DEF alls, S
    <2>. QED  BY <2>1, Greatest
  <1>. HIDE DEF e2, e3, e4
  <1>4. CASE AnyHas(S, new)
    <2>1. Added(x, new) = Lines(S)
      BY <1>2, <1>4 DEF Added, e2, e3, e4
    <2>. QED  BY <1>4, <2>1 DEF AddedTo
  <1>5. CASE ~AnyHas(S, new) /\ AnyHas(S, Off(new))
    <2>1. Added(x, new) = Lines(e2)
      BY <1>2, <1>5 DEF Added, e2, e3, e4
    <2>. QED  BY <1>5, <2>1 DEF AddedTo, e2
  <1>6. CASE ~AnyHas(S, new) /\ ~AnyHas(S, Off(new)) /\ alls = {}
    <2>1. Added(x, new) = Lines(e3)
      BY <1>6 DEF Added, e2, e3, e4
    <2>. QED  BY <2>1 DEF AddedTo, e3
  <1>7. CASE ~AnyHas(S, new) /\ ~AnyHas(S, Off(new)) /\ alls # {}
    <2>1. Added(x, new) = Lines(e4)
      BY <1>7 DEF Added, e2, e3, e4
    <2>. DEFINE m == Max(alls)
    <2>2. m \in DOMAIN S /\ S[m].name = "all"
      BY <1>3, <1>7
    <2>. HIDE DEF m
    <2>3. e4 = [S EXCEPT ![m].settings = Append(@, new)]
      BY Zenon DEF e4, m
    <2>. QED  BY <2>1, <2>2, <2>3 DEF AddedTo
  <1>. QED  BY <1>4, <1>5, <1>6, <1>7

LEMMA AddedKeeps ==
  ASSUME NEW x \in Seq(Line), NEW o \in Overlay
  PROVE  /\ Kept(x, Added(x, Setting(o)))
         /\ \A T : AddedTo(Load(x), Setting(o), T) => SameSettings(Load(x), T)
  <1>. DEFINE S == Load(x)
              new == Setting(o)
  <1>1. S \in Seq(ASection) /\ Apart(S) /\ new \in Edit /\ Off(new) \in Edit
    BY LoadKeeps, SettingsAreLines
  <1>. HIDE DEF S, new
  <1>2. SameSettings(S, S)
    BY <1>1 DEF SameSettings
  <1>3. SameSettings(S, Edited(S, Off(new), new)) /\ SameSettings(S, Append(S, Section("all", <<new>>)))
    BY <1>1, EditedIs, SectionAdded
  <1>4. \A m : SameSettings(S, [S EXCEPT ![m].settings = Append(@, new)])
    BY <1>1, SettingAdded
  <1>5. \A T : AddedTo(S, new, T) => SameSettings(S, T)
    BY <1>2, <1>3, <1>4 DEF AddedTo
  <1>6. PICK T : AddedTo(S, new, T) /\ Added(x, new) = Lines(T)
    BY AddedIs DEF S
  <1>. QED  BY <1>5, <1>6, SectionsKept DEF S, new

\* The lines with the drive set.
LEMMA DrivenIs ==
  ASSUME NEW x \in Seq(Line)
  PROVE  LET g == Driven(x)
             drive == Setting("hdmi_drive=2")
         IN /\ g \in Seq(Line) /\ Len(x) <= Len(g)
            /\ \A i \in 1..Len(x) : g[i] = IF x[i].name \in Drive THEN drive ELSE x[i]
            /\ \A i \in Len(x) + 1..Len(g) : g[i] = drive
            /\ Driven(g) = g
            /\ drive \in Line /\ ~drive.tag /\ ~IsOther(drive) /\ drive.name \in Drive
  <1>. DEFINE drive == Setting("hdmi_drive=2")
              Each(y) == [i \in DOMAIN y |-> IF y[i].name \in Drive THEN drive ELSE y[i]]
              HasDrive(y) == \E i \in DOMAIN y : y[i].name \in Drive
              each == Each(x)
              n == Len(x)
  <1>1. drive \in Line /\ ~drive.tag /\ ~IsOther(drive) /\ drive.name \in Drive
    <2>1. "hdmi_drive=2" \in Overlay \cup Drive
      BY DEF Drive
    <2>2. drive \in Edit
      BY <2>1, SettingsAreLines
    <2>3. drive.name \in Drive
      BY DEF Setting, Drive
    <2>. QED  BY <2>2, <2>3, SettingsAreLines DEF Edit, SettingLine
  <1>. HIDE DEF drive
  <1>2. n \in Nat /\ DOMAIN x = 1..n /\ \A i \in 1..n : x[i] \in Line
    OBVIOUS
  <1>3. each \in Seq(Line) /\ Len(each) = n /\ \A i \in 1..n : each[i] = IF x[i].name \in Drive THEN drive ELSE x[i]
    BY <1>1, <1>2
  <1>4. \A y : Driven(y) = IF HasDrive(y) \/ y = <<>> THEN Each(y) ELSE Append(Each(y), drive)
    BY Zenon DEF Driven, drive
  <1>5. \A y \in Seq(Line) : (\A i \in DOMAIN y : y[i].name \in Drive => y[i] = drive) => Each(y) = y
    <2>. SUFFICES ASSUME NEW y \in Seq(Line), \A i \in DOMAIN y : y[i].name \in Drive => y[i] = drive
                  PROVE  Each(y) = y
      OBVIOUS
    <2>1. \A i \in DOMAIN y : (IF y[i].name \in Drive THEN drive ELSE y[i]) = y[i]
      OBVIOUS
    <2>2. y = [i \in DOMAIN y |-> y[i]]
      OBVIOUS
    <2>. QED  BY <2>1, <2>2
  <1>6. \A i \in 1..n : each[i].name \in Drive => each[i] = drive
    BY <1>3
  <1>7. CASE HasDrive(x) \/ x = <<>>
    <2>1. Driven(x) = each
      BY <1>4, <1>7
    <2>. HIDE DEF each
    <2>2. Each(each) = each
      BY <1>3, <1>5, <1>6
    <2>3. HasDrive(each) \/ each = <<>>
      <3>1. CASE x = <<>>
        BY <1>3, <3>1, EmptySeq
      <3>2. CASE HasDrive(x)
        BY <1>1, <1>2, <1>3, <3>2
      <3>. QED  BY <1>7, <3>1, <3>2
    <2>. HIDE DEF Each, HasDrive
    <2>4. Driven(each) = each
      BY <1>4, <2>2, <2>3
    <2>5. n + 1..n = {} /\ n <= n
      BY <1>2
    <2>. QED  BY <1>1, <1>3, <2>1, <2>4, <2>5 DEF drive
  <1>8. CASE ~(HasDrive(x) \/ x = <<>>)
    <2>. DEFINE g == Append(each, drive)
    <2>1. Driven(x) = g
      BY <1>4, <1>8
    <2>. HIDE DEF each
    <2>2. /\ g \in Seq(Line) /\ Len(g) = n + 1 /\ g[n + 1] = drive /\ \A i \in 1..n : g[i] = each[i]
          /\ DOMAIN g = 1..n + 1
      BY <1>1, <1>3, AppendProperties
    <2>. HIDE DEF g
    <2>3. \A i \in 1..n + 1 : i = n + 1 \/ i \in 1..n
      BY <1>2
    <2>4. Each(g) = g
      BY <1>5, <1>6, <2>2, <2>3
    <2>5. HasDrive(g)
      BY <1>1, <1>2, <2>2
    <2>. HIDE DEF Each, HasDrive
    <2>6. Driven(g) = g
      BY <1>4, <2>4, <2>5
    <2>7. n <= n + 1 /\ \A i \in n + 1..n + 1 : i = n + 1
      BY <1>2
    <2>. QED  BY <1>1, <1>3, <2>1, <2>2, <2>6, <2>7 DEF drive
  <1>. QED  BY <1>7, <1>8

LEMMA DrivenKeeps ==
  ASSUME NEW x \in Seq(Line)
  PROVE  Driven(x) \in Seq(Line) /\ All(Driven(x)) = All(x) /\ Survivors(Driven(x)) = Survivors(x)
  <1>. DEFINE drive == Setting("hdmi_drive=2")
              g == Driven(x)
              n == Len(x)
  <1>1. /\ g \in Seq(Line) /\ n <= Len(g)
        /\ \A i \in 1..n : g[i] = IF x[i].name \in Drive THEN drive ELSE x[i]
        /\ \A i \in n + 1..Len(g) : g[i] = drive
        /\ drive \in Line /\ ~drive.tag /\ ~IsOther(drive)
    BY DrivenIs
  <1>. HIDE DEF drive, g
  <1>2. n \in Nat /\ DOMAIN x = 1..n /\ \A i \in 1..n : x[i] \in Line
    OBVIOUS
  <1>. HIDE DEF n
  <1>3. \A i \in 1..n : g[i].tag = x[i].tag /\ (x[i].tag \/ IsOther(x[i]) \/ IsOther(g[i]) => g[i] = x[i])
    <2>. TAKE i \in 1..n
    <2>1. CASE x[i].name \in Drive
      <3>1. ~x[i].tag /\ ~IsOther(x[i]) /\ x[i].tag \in BOOLEAN /\ drive.tag \in BOOLEAN
        BY <1>1, <1>2, <2>1 DEF Line, IsOther
      <3>. QED  BY <1>1, <2>1, <3>1
    <2>2. CASE x[i].name \notin Drive
      BY <1>1, <2>2
    <2>. QED  BY <2>1, <2>2
  <1>4. Alike(x, g)
    BY <1>1, <1>3 DEF Alike, n
  <1>. QED  BY <1>1, <1>4, AlikeKeeps DEF g

-----------------------------------------------------------------------------
\* The first i lines are those that would be written of what has been read of them.
ReadAs(a, f, i) ==
  LET g == Lines(Append(a[i].sections, a[i].section))
  IN a[i].section.name = SectionOf(f, i) /\ Len(g) = i /\ \A m \in 1..i : g[m] = f[m]

\* The parser keeps to it.
LEMMA ReadsOn ==
  ASSUME NEW f \in Seq(Line), NoRepeat(f), NEW a, IsLoading(a, f), NEW i \in 1..Len(f), ReadAs(a, f, i - 1)
  PROVE  ReadAs(a, f, i)
  <1>. DEFINE S == a[i - 1].sections
              s == a[i - 1].section
              line == f[i]
              t == a[i].section
              g == Lines(Append(S, s))
              h == Lines(Append(a[i].sections, t))
  <1>1. /\ i \in Nat \ {0} /\ i - 1 \in 0..Len(f) /\ line \in Line
        /\ a[i - 1] \in Loaded /\ a[i] \in Loaded /\ a[i] = LoadLine(a[i - 1], line)
    BY DEF IsLoading
  <1>2. S \in Seq(ASection) /\ s \in ASection /\ t \in ASection /\ s.settings \in Seq(SettingLine)
    BY <1>1 DEF Loaded, ASection
  <1>3. s.name = SectionOf(f, i - 1) /\ Len(g) = i - 1 /\ \A m \in 1..i - 1 : g[m] = f[m]
    BY DEF ReadAs
  <1>4. SectionOf(f, i) = IF line.tag THEN line.name ELSE SectionOf(f, i - 1)
    BY <1>1, SectionStep
  <1>5. /\ Lines(S) \in Seq(Line) /\ g \in Seq(Line)
        /\ g = Lines(S) \o Piece(s, S = <<>>) /\ Piece(s, S = <<>>) \in Seq(Line)
    <2>1. (S = <<>>) \in BOOLEAN
      OBVIOUS
    <2>. QED  BY <1>2, <2>1, LinesOfAppend, PieceIsLines
  <1>6. CASE h = Append(g, line) /\ t.name = SectionOf(f, i)
    <2>1. Len(h) = (i - 1) + 1 /\ h[(i - 1) + 1] = line /\ \A m \in 1..i - 1 : h[m] = g[m]
      <3>. HIDE DEF g, h, line
      <3>. QED  BY <1>1, <1>3, <1>5, <1>6, AppendProperties
    <2>2. (i - 1) + 1 = i /\ \A m \in 1..i : m = i \/ m \in 1..i - 1
      BY <1>1
    <2>. HIDE DEF g, h, t
    <2>3. Len(h) = i /\ \A m \in 1..i : h[m] = f[m]
      BY <1>3, <2>1, <2>2
    <2>. QED  BY <1>6, <2>3 DEF ReadAs, h, t
  <1>7. CASE ~line.tag
    <2>1. a[i] = [sections |-> S, section |-> Section(s.name, Append(s.settings, line))]
      BY <1>1, <1>7, LoadLineIs
    <2>2. a[i].sections = S /\ t.name = s.name /\ t.settings = Append(s.settings, line)
      BY <2>1 DEF Section
    <2>. DEFINE x == IF S = <<>> /\ s.name = "all" THEN <<>> ELSE <<Tag(s.name)>>
    <2>0. (S = <<>>) \in BOOLEAN
      OBVIOUS
    <2>3. x \in Seq(Line) /\ Piece(s, S = <<>>) = x \o s.settings /\ Piece(t, S = <<>>) = x \o Append(s.settings, line)
      <3>1. Tag(s.name) \in Line
        BY <1>2, LinesHaveNames DEF ASection
      <3>2. x \in Seq(Line)
        BY <3>1
      <3>3. Piece(s, S = <<>>) = x \o s.settings
        BY Zenon DEF Piece
      <3>. HIDE DEF S, s, t
      <3>4. Piece(t, S = <<>>) = x \o Append(s.settings, line)
        BY <2>2, Zenon DEF Piece
      <3>. QED  BY <3>2, <3>3, <3>4 DEF S, s, t
    <2>. HIDE DEF S, s, t, x
    <2>4. s.settings \in Seq(Line)
      <3>1. Seq(SettingLine) \subseteq Seq(Line)
        BY SeqMonotonic DEF SettingLine
      <3>. QED  BY <1>2, <3>1
    <2>5. Piece(t, S = <<>>) = Append(Piece(s, S = <<>>), line)
      <3>1. x \o Append(s.settings, line) = Append(x \o s.settings, line)
        <4>. DEFINE v == s.settings
        <4>1. v \in Seq(Line) /\ x \in Seq(Line) /\ line \in Line
          BY <1>1, <2>3, <2>4
        <4>. HIDE DEF v, line
        <4>2. x \o Append(v, line) = Append(x \o v, line)
          BY <4>1, ConcatAppend
        <4>. QED  BY <4>2 DEF v
      <3>. QED  BY <2>3, <3>1, Zenon
    <2>6. h = Lines(S) \o Piece(t, S = <<>>)
      <3>1. Lines(Append(S, t)) = Lines(S) \o Piece(t, S = <<>>)
        BY <1>2, LinesOfAppend
      <3>. QED  BY <2>2, <3>1, Zenon
    <2>7. Lines(S) \o Append(Piece(s, S = <<>>), line) = Append(Lines(S) \o Piece(s, S = <<>>), line)
      BY <1>1, <1>5, ConcatAppend
    <2>8. h = Append(g, line)
      BY <1>5, <2>5, <2>6, <2>7, Zenon
    <2>. QED  BY <1>3, <1>4, <1>6, <1>7, <2>2, <2>8
  <1>8. CASE line.tag
    <2>1. line.name = "all" \/ line.name # s.name
      BY <1>3, <1>8 DEF NoRepeat
    <2>2. a[i] = [sections |-> Append(S, s), section |-> Section(line.name, <<>>)]
      BY <1>1, <1>8, <2>1, LoadLineIs
    <2>3. a[i].sections = Append(S, s) /\ t.name = line.name /\ t.settings = <<>> /\ line = Tag(t.name)
      BY <1>1, <1>8, <2>2, TagsAre DEF Section
    <2>. HIDE DEF S, s, t
    <2>4. Append(S, s) \in Seq(ASection) /\ Append(S, s) # <<>>
      BY <1>2, AppendProperties
    <2>5. Piece(t, FALSE) = <<line>>
      <3>1. Piece(t, FALSE) = <<line>> \o <<>>
        BY <2>3, Zenon DEF Piece
      <3>2. <<line>> \in Seq(Line)
        BY <1>1
      <3>. QED  BY <3>1, <3>2, ConcatEmptySeq
    <2>6. h = g \o Piece(t, FALSE)
      <3>. DEFINE T == Append(S, s)
      <3>1. T \in Seq(ASection) /\ (T = <<>>) = FALSE
        BY <2>4
      <3>. HIDE DEF T
      <3>2. Lines(Append(T, t)) = Lines(T) \o Piece(t, T = <<>>)
        BY <1>2, <3>1, LinesOfAppend
      <3>. QED  BY <2>3, <3>1, <3>2, Zenon DEF T
    <2>7. h = Append(g, line)
      BY <1>1, <1>5, <2>5, <2>6, AppendIsConcat
    <2>. QED  BY <1>4, <1>6, <1>8, <2>3, <2>7
  <1>. QED  BY <1>7, <1>8

\* In the end the lines of all sections are the file; the last section is dropped if it
\* has no lines.
LEMMA ReadWhole ==
  ASSUME NEW f \in Seq(Line), NoRepeat(f)
  PROVE  \E S \in Seq(ASection), s \in ASection :
           /\ Lines(Append(S, s)) = f
           /\ IF f = <<>> \/ f[Len(f)].tag THEN Load(f) = S /\ s.settings = <<>> ELSE Load(f) = Append(S, s)
  <1>1. PICK a : /\ IsLoading(a, f)
                 /\ Load(f) = IF f = <<>> \/ f[Len(f)].tag
                              THEN a[Len(f)].sections ELSE Append(a[Len(f)].sections, a[Len(f)].section)
    BY LoadIs
  <1>. DEFINE n == Len(f)
              R == {m \in Nat : m <= n => ReadAs(a, f, m)}
  <1>2. 0 \in R
    <2>. DEFINE e == <<>>
                s == Section("all", <<>>)
    <2>1. a[0].sections = e /\ a[0].section = s /\ s.name = "all" /\ s.settings = <<>>
      BY <1>1 DEF IsLoading, AtFirst, Section
    <2>2. e \in Seq(ASection) /\ s \in ASection /\ (e = <<>>) = TRUE
      BY LinesHaveNames DEF ASection, Section
    <2>3. Piece(s, TRUE) = <<>>
      <3>. HIDE DEF s
      <3>1. Piece(s, TRUE) = <<>> \o <<>>
        BY <2>1, Zenon DEF Piece
      <3>2. <<>> \o <<>> = <<>>
        OBVIOUS
      <3>. QED  BY <3>1, <3>2, Zenon
    <2>4. Lines(e) = <<>>
      BY LinesOfEmpty
    <2>. HIDE DEF e, s
    <2>5. Lines(Append(e, s)) = Lines(e) \o Piece(s, TRUE)
      BY <2>2, LinesOfAppend, Zenon
    <2>6. Lines(Append(e, s)) = <<>>
      <3>1. <<>> \o <<>> = <<>>
        OBVIOUS
      <3>. QED  BY <2>3, <2>4, <2>5, <3>1, Zenon
    <2>7. Len(<<>>) = 0 /\ 1..0 = {}
      OBVIOUS
    <2>8. ReadAs(a, f, 0)
      BY <2>1, <2>6, <2>7, SectionAtFirst DEF ReadAs
    <2>. QED  BY <2>8
  <1>3. ASSUME NEW m \in Nat, m \in R PROVE m + 1 \in R
    <2>. SUFFICES ASSUME m + 1 <= n PROVE ReadAs(a, f, m + 1)
      OBVIOUS
    <2>1. m + 1 \in 1..Len(f) /\ (m + 1) - 1 = m /\ ReadAs(a, f, m)
      BY <1>3
    <2>. QED  BY <1>1, <2>1, ReadsOn
  <1>4. n \in Nat /\ n \in R
    <2>1. n \in Nat
      OBVIOUS
    <2>. HIDE DEF R, n
    <2>. QED  BY <1>2, <1>3, <2>1, Induct
  <1>. DEFINE S == a[n].sections
              s == a[n].section
              g == Lines(Append(S, s))
  <1>5. a[n] \in Loaded /\ S \in Seq(ASection) /\ s \in ASection
    BY <1>1, <1>4 DEF IsLoading, Loaded
  <1>6. g = f
    <2>1. Len(g) = n /\ \A m \in 1..n : g[m] = f[m]
      BY <1>4 DEF ReadAs
    <2>2. g \in Seq(Line)
      BY <1>5, LinesOfAppend
    <2>. HIDE DEF g
    <2>. QED  BY <2>1, <2>2, SeqEqual
  <1>7. f = <<>> \/ f[n].tag => s.settings = <<>>
    <2>1. CASE f = <<>>
      <3>1. n = 0
        BY <2>1, EmptySeq
      <3>. QED  BY <1>1, <3>1 DEF IsLoading, AtFirst, Section
    <2>2. CASE f # <<>> /\ f[n].tag
      <3>1. n \in 1..n /\ n - 1 \in 0..n
        BY <2>2, EmptySeq
      <3>2. a[n - 1] \in Loaded /\ f[n] \in Line /\ a[n] = LoadLine(a[n - 1], f[n])
        BY <1>1, <3>1 DEF IsLoading
      <3>3. s = Section(f[n].name, <<>>)
        BY <2>2, <3>2, LoadLineIs
      <3>. QED  BY <3>3 DEF Section
    <2>. QED  BY <2>1, <2>2
  <1>8. IF f = <<>> \/ f[Len(f)].tag THEN Load(f) = S /\ s.settings = <<>> ELSE Load(f) = Append(S, s)
    BY <1>1, <1>7
  <1>. HIDE DEF S, s
  <1>. QED  BY <1>5, <1>6, <1>8

\* What is read and written again is the same file, unless a section other than
\* [all] is begun again at once or the last line is a tag (config_parser.py).
THEOREM RoundTrip ==
  ASSUME NEW f \in Seq(Line), NoRepeat(f), f # <<>> => ~f[Len(f)].tag
  PROVE  Lines(Load(f)) = f
  <1>1. CASE f = <<>>
    <2>1. PICK a : IsLoading(a, f) /\ Load(f) = a[Len(f)].sections
      BY <1>1, LoadIs
    <2>. QED  BY <1>1, <2>1, LinesOfEmpty, EmptySeq DEF IsLoading, AtFirst
  <1>2. CASE f # <<>>
    BY <1>2, ReadWhole
  <1>. QED  BY <1>1, <1>2

-----------------------------------------------------------------------------
\* Sections that are written alike are alike, but for those without settings.

LEMMA SettingLines == Seq(SettingLine) \subseteq Seq(Line) /\ \A v \in Seq(SettingLine) : \A i \in 1..Len(v) : ~v[i].tag
  <1>1. Seq(SettingLine) \subseteq Seq(Line)
    BY SeqMonotonic DEF SettingLine
  <1>. QED  BY <1>1 DEF SettingLine

\* Lines, and a section after them with its tag.
Joined(u, s) == u \o Headed(s)

\* The places of such a section.
LEMMA EndIs ==
  ASSUME NEW u \in Seq(Line), NEW s \in ASection
  PROVE  /\ Len(Joined(u, s)) = Len(u) + 1 + Len(s.settings)
         /\ \A i \in 1..Len(u) : Joined(u, s)[i] = u[i]
         /\ Joined(u, s)[Len(u) + 1] = Tag(s.name)
         /\ \A i \in 1..Len(s.settings) : Joined(u, s)[Len(u) + 1 + i] = s.settings[i]
  <1>. DEFINE y == Headed(s)
              v == s.settings
              w == u \o y
  <1>1. /\ y \in Seq(Line) /\ Len(y) = Len(v) + 1 /\ y[1] = Tag(s.name)
        /\ \A i \in 2..Len(v) + 1 : y[i] = v[i - 1]
    BY HeadedIs
  <1>2. Len(u) \in Nat /\ Len(v) \in Nat
    BY LenProperties DEF ASection
  <1>. HIDE DEF y, v
  <1>3. /\ Len(w) = Len(u) + Len(y)
        /\ \A i \in 1..Len(u) + Len(y) : w[i] = IF i <= Len(u) THEN u[i] ELSE y[i - Len(u)]
    <2>1. Len(w) = Len(u) + Len(y)
      BY <1>1, ConcatProperties
    <2>2. \A i \in 1..Len(u) + Len(y) : w[i] = IF i <= Len(u) THEN u[i] ELSE y[i - Len(u)]
      BY <1>1, ConcatProperties
    <2>. QED  BY <2>1, <2>2
  <1>4. w = Joined(u, s)
    BY Zenon DEF Joined, y
  <1>. HIDE DEF w
  <1>5. w[Len(u) + 1] = Tag(s.name)
    <2>1. Len(u) + 1 \in 1..Len(u) + Len(y) /\ ~(Len(u) + 1 <= Len(u)) /\ (Len(u) + 1) - Len(u) = 1
      BY <1>1, <1>2
    <2>. QED  BY <1>1, <1>3, <2>1
  <1>6. ASSUME NEW i \in 1..Len(v) PROVE w[Len(u) + 1 + i] = v[i]
    <2>1. /\ Len(u) + 1 + i \in 1..Len(u) + Len(y) /\ ~(Len(u) + 1 + i <= Len(u))
          /\ (Len(u) + 1 + i) - Len(u) = i + 1 /\ i + 1 \in 2..Len(v) + 1 /\ (i + 1) - 1 = i
      BY <1>1, <1>2
    <2>. QED  BY <1>1, <1>3, <2>1
  <1>7. \A i \in 1..Len(u) : w[i] = u[i]
    BY <1>1, <1>2, <1>3
  <1>8. Len(w) = Len(u) + 1 + Len(v)
    BY <1>1, <1>2, <1>3
  <1>. QED  BY <1>4, <1>5, <1>6, <1>7, <1>8 DEF v

LEMMA SectionsHave ==
  ASSUME NEW s \in ASection
  PROVE  /\ s.settings \in Seq(SettingLine) /\ s.settings \in Seq(Line) /\ Len(s.settings) \in Nat
         /\ \A i \in 1..Len(s.settings) : ~s.settings[i].tag
         /\ s.name \in SectionName /\ Tag(s.name) \in Line /\ Tag(s.name).tag
  BY SettingLines, LinesHaveNames, LenProperties DEF ASection

\* The last tag tells where the last section begins.
LEMMA SameEnd ==
  ASSUME NEW u1 \in Seq(Line), NEW s1 \in ASection, NEW u2 \in Seq(Line), NEW s2 \in ASection,
         Joined(u1, s1) = Joined(u2, s2)
  PROVE  u1 = u2 /\ s1.settings = s2.settings
  <1>. DEFINE w == Joined(u1, s1)
              v1 == s1.settings
              v2 == s2.settings
  <1>1. /\ Len(w) = Len(u1) + 1 + Len(v1) /\ \A i \in 1..Len(u1) : w[i] = u1[i]
        /\ w[Len(u1) + 1].tag /\ \A i \in 1..Len(v1) : w[Len(u1) + 1 + i] = v1[i]
    BY EndIs, SectionsHave
  <1>2. /\ Len(w) = Len(u2) + 1 + Len(v2) /\ \A i \in 1..Len(u2) : w[i] = u2[i]
        /\ w[Len(u2) + 1].tag /\ \A i \in 1..Len(v2) : w[Len(u2) + 1 + i] = v2[i]
    <2>. DEFINE x == Joined(u2, s2)
    <2>1. /\ Len(x) = Len(u2) + 1 + Len(v2) /\ \A i \in 1..Len(u2) : x[i] = u2[i]
          /\ x[Len(u2) + 1].tag /\ \A i \in 1..Len(v2) : x[Len(u2) + 1 + i] = v2[i]
      BY EndIs, SectionsHave
    <2>2. w = x
      OBVIOUS
    <2>. HIDE DEF w, x
    <2>. QED  BY <2>1, <2>2
  <1>3. /\ Len(u1) \in Nat /\ Len(u2) \in Nat /\ Len(v1) \in Nat /\ Len(v2) \in Nat
        /\ v1 \in Seq(SettingLine) /\ v2 \in Seq(SettingLine)
        /\ \A i \in 1..Len(v1) : ~v1[i].tag
        /\ \A i \in 1..Len(v2) : ~v2[i].tag
    BY SectionsHave, LenProperties
  <1>. HIDE DEF w, v1, v2
  <1>4. ~(Len(u1) < Len(u2))
    <2>. SUFFICES ASSUME Len(u1) < Len(u2) PROVE FALSE
      OBVIOUS
    <2>. DEFINE i == Len(u2) - Len(u1)
    <2>1. i \in 1..Len(v1) /\ Len(u1) + 1 + i = Len(u2) + 1
      BY <1>1, <1>2, <1>3
    <2>. HIDE DEF i
    <2>. QED  BY <1>1, <1>2, <1>3, <2>1
  <1>5. ~(Len(u2) < Len(u1))
    <2>. SUFFICES ASSUME Len(u2) < Len(u1) PROVE FALSE
      OBVIOUS
    <2>. DEFINE i == Len(u1) - Len(u2)
    <2>1. i \in 1..Len(v2) /\ Len(u2) + 1 + i = Len(u1) + 1
      BY <1>1, <1>2, <1>3
    <2>. HIDE DEF i
    <2>. QED  BY <1>1, <1>2, <1>3, <2>1
  <1>6. Len(u1) = Len(u2) /\ Len(v1) = Len(v2)
    BY <1>1, <1>2, <1>3, <1>4, <1>5
  <1>7. u1 = u2
    BY <1>1, <1>2, <1>6, SeqEqual
  <1>8. v1 = v2
    <2>1. \A i \in 1..Len(v1) : v1[i] = v2[i]
      BY <1>1, <1>2, <1>6
    <2>. QED  BY <1>3, <1>6, <2>1, SeqEqual
  <1>. QED  BY <1>7, <1>8 DEF v1, v2

\* And there is none among the settings of a section.
LEMMA NoTagInside ==
  ASSUME NEW u \in Seq(Line), NEW s \in ASection, NEW t \in ASection
  PROVE  t.settings # Joined(u, s)
  <1>. SUFFICES ASSUME t.settings = Joined(u, s) PROVE FALSE
    OBVIOUS
  <1>. DEFINE w == t.settings
              x == Joined(u, s)
              n == Len(u) + 1
  <1>1. x[n].tag /\ Len(x) = n + Len(s.settings)
    BY EndIs, SectionsHave
  <1>2. n \in 1..n + Len(s.settings)
    <2>. DEFINE m == Len(s.settings)
    <2>1. m \in Nat /\ Len(u) \in Nat
      BY SectionsHave, LenProperties
    <2>. HIDE DEF m
    <2>2. n \in 1..n + m
      BY <2>1
    <2>. QED  BY <2>2 DEF m
  <1>3. w = x /\ \A i \in 1..Len(w) : ~w[i].tag
    BY SectionsHave
  <1>. HIDE DEF w, x, n
  <1>. QED  BY <1>1, <1>2, <1>3

\* The first section has no tag if it is [all], and every other one has one.
LEMMA WritingIs ==
  ASSUME NEW S \in Seq(ASection), NEW s \in ASection
  PROVE  /\ Lines(S) \in Seq(Line)
         /\ S = <<>> /\ s.name = "all" => Lines(Append(S, s)) = s.settings
         /\ ~(S = <<>> /\ s.name = "all") => /\ Lines(Append(S, s)) = Joined(Lines(S), s)
                                             /\ Lines(Append(S, s)) # <<>>
  <1>1. /\ Lines(S) \in Seq(Line) /\ Lines(Append(S, s)) = Lines(S) \o Piece(s, S = <<>>)
        /\ (S = <<>>) \in BOOLEAN
    BY LinesOfAppend
  <1>2. s.settings \in Seq(Line) /\ <<>> \o s.settings = s.settings
    BY SectionsHave, ConcatEmptySeq
  <1>3. ASSUME S = <<>>, s.name = "all" PROVE Lines(Append(S, s)) = s.settings
    <2>1. Piece(s, S = <<>>) = <<>> \o s.settings
      BY <1>3, Zenon DEF Piece
    <2>2. Lines(S) = <<>>
      BY <1>3, LinesOfEmpty
    <2>. QED  BY <1>1, <1>2, <2>1, <2>2, Zenon
  <1>4. ASSUME ~(S = <<>> /\ s.name = "all")
        PROVE  Lines(Append(S, s)) = Joined(Lines(S), s) /\ Lines(Append(S, s)) # <<>>
    <2>1. Piece(s, S = <<>>) = Headed(s)
      BY <1>4, Zenon DEF Piece, Headed
    <2>2. Lines(Append(S, s)) = Joined(Lines(S), s)
      BY <1>1, <2>1, Zenon DEF Joined
    <2>3. Len(Joined(Lines(S), s)) >= 1
      <3>. DEFINE u == Lines(S)
      <3>1. u \in Seq(Line) /\ Len(u) \in Nat
        BY <1>1, LenProperties
      <3>. HIDE DEF u
      <3>2. Len(Joined(u, s)) = Len(u) + 1 + Len(s.settings)
        BY <3>1, EndIs
      <3>. DEFINE m == Len(s.settings)
                  k == Len(Joined(u, s))
      <3>3. k = Len(u) + 1 + m /\ m \in Nat
        BY <3>2, SectionsHave
      <3>. HIDE DEF m, k
      <3>4. k >= 1
        BY <3>1, <3>3
      <3>. QED  BY <3>4, Zenon DEF k, u
    <2>. QED  BY <2>2, <2>3
  <1>. QED  BY <1>1, <1>3, <1>4

\* The sections of S with settings are sections of T.
Within(S, T) == \A i \in DOMAIN S : S[i].settings = <<>> \/ \E j \in DOMAIN T : T[j] = S[i]

\* How the sections of both may grow.
LEMMA WithinAppend ==
  ASSUME NEW S \in Seq(ASection), NEW s \in ASection, NEW T \in Seq(ASection)
  PROVE  /\ Within(S, T) /\ s.settings = <<>> => Within(Append(S, s), T)
         /\ \A t \in ASection : Within(S, T) => Within(S, Append(T, t))
         /\ Within(S, T) => Within(Append(S, s), Append(T, s))
         /\ Within(Append(S, s), T) => Within(S, T)
         /\ \A t \in ASection : Within(S, Append(T, t)) /\ t.settings = <<>> => Within(S, T)
         /\ Within(S, S)
  <1>1. \A X \in Seq(ASection), x \in ASection :
          /\ DOMAIN Append(X, x) = DOMAIN X \cup {Len(X) + 1} /\ Append(X, x)[Len(X) + 1] = x
          /\ \A i \in DOMAIN X : Append(X, x)[i] = X[i] /\ i # Len(X) + 1
    <2>. TAKE X \in Seq(ASection), x \in ASection
    <2>1. DOMAIN X = 1..Len(X) /\ Len(X) \in Nat
      BY LenProperties
    <2>2. /\ DOMAIN Append(X, x) = 1..Len(X) + 1 /\ Append(X, x)[Len(X) + 1] = x
          /\ \A i \in 1..Len(X) : Append(X, x)[i] = X[i]
      BY AppendProperties, LenProperties
    <2>. QED  BY <2>1, <2>2
  <1>. DEFINE n(X) == Len(X) + 1
  <1>. HIDE DEF n
  <1>. QED  BY <1>1 DEF Within

\* By induction: if two lists of sections are written alike, each is within the other.
LEMMA SameWriting ==
  \A S, T \in Seq(ASection) : Lines(S) = Lines(T) => Within(S, T)
  <1>. DEFINE N == {m \in Nat : \A S, T \in Seq(ASection) : Len(S) = m /\ Lines(S) = Lines(T) => Within(S, T)}
  <1>1. 0 \in N
    <2>1. \A S \in Seq(ASection) : Len(S) = 0 => DOMAIN S = {}
      BY LenProperties
    <2>. QED  BY <2>1 DEF Within
  <1>2. ASSUME NEW m \in Nat, m \in N PROVE m + 1 \in N
    <2>. SUFFICES ASSUME NEW S1 \in Seq(ASection), NEW T1 \in Seq(ASection), Len(S1) = m + 1, Lines(S1) = Lines(T1)
                  PROVE  Within(S1, T1)
      OBVIOUS
    <2>1. PICK S \in Seq(ASection), s \in ASection : S1 = Append(S, s)
      <3>1. S1 # <<>>
        OBVIOUS
      <3>. QED  BY <3>1, SequenceEmptyOrAppend
    <2>2. Len(S) = m
      BY <2>1, AppendProperties, LenProperties
    <2>3. \A T \in Seq(ASection) : Lines(S) = Lines(T) => Within(S, T)
      BY <1>2, <2>2
    <2>4. CASE T1 = <<>>
      <3>1. Lines(Append(S, s)) = <<>>
        BY <2>1, <2>4, LinesOfEmpty
      <3>2. S = <<>> /\ s.name = "all" /\ s.settings = <<>>
        BY <3>1, WritingIs
      <3>3. Within(S, T1)
        BY <2>3, <2>4, <3>2
      <3>. QED  BY <2>1, <3>2, <3>3, WithinAppend
    <2>5. CASE T1 # <<>>
      <3>1. PICK T \in Seq(ASection), t \in ASection : T1 = Append(T, t)
        BY <2>5, SequenceEmptyOrAppend
      <3>. DEFINE x == Lines(Append(S, s))
      <3>2. Lines(Append(T, t)) = x /\ s.name = t.name
        BY <2>1, <3>1, SectionOfLines
      <3>3. t.settings = s.settings => t = s
        <4>1. s = [name |-> s.name, settings |-> s.settings] /\ t = [name |-> t.name, settings |-> t.settings]
          BY DEF ASection
        <4>. QED  BY <3>2, <4>1
      <3>. HIDE DEF x
      <3>4. /\ Lines(S) \in Seq(Line)
            /\ S = <<>> /\ s.name = "all" => x = s.settings
            /\ ~(S = <<>> /\ s.name = "all") => x = Joined(Lines(S), s)
        BY WritingIs DEF x
      <3>5. /\ Lines(T) \in Seq(Line)
            /\ T = <<>> /\ t.name = "all" => x = t.settings
            /\ ~(T = <<>> /\ t.name = "all") => x = Joined(Lines(T), t)
        BY <3>2, WritingIs
      <3>6. Lines(S) = Lines(T) /\ s.settings = t.settings
        <4>1. CASE (S = <<>> /\ s.name = "all") /\ (T = <<>> /\ t.name = "all")
          BY <3>4, <3>5, <4>1
        <4>2. CASE ~(S = <<>> /\ s.name = "all") /\ ~(T = <<>> /\ t.name = "all")
          <5>1. Joined(Lines(S), s) = Joined(Lines(T), t)
            BY <3>4, <3>5, <4>2
          <5>. QED  BY <3>4, <3>5, <5>1, SameEnd
        <4>3. CASE (S = <<>> /\ s.name = "all") /\ ~(T = <<>> /\ t.name = "all")
          <5>1. s.settings = Joined(Lines(T), t)
            BY <3>4, <3>5, <4>3
          <5>. QED  BY <3>5, <5>1, NoTagInside
        <4>4. CASE ~(S = <<>> /\ s.name = "all") /\ (T = <<>> /\ t.name = "all")
          <5>1. t.settings = Joined(Lines(S), s)
            BY <3>4, <3>5, <4>4
          <5>. QED  BY <3>4, <5>1, NoTagInside
        <4>. QED  BY <4>1, <4>2, <4>3, <4>4
      <3>7. Within(S, T)
        BY <2>3, <3>6
      <3>. QED  BY <2>1, <3>1, <3>3, <3>6, <3>7, WithinAppend
    <2>. QED  BY <2>4, <2>5
  <1>. HIDE DEF N
  <1>3. \A m \in Nat : m \in N
    BY <1>1, <1>2, Induct
  <1>. QED  BY <1>3, LenProperties DEF N

\* A load finds again the sections that were written.
LEMMA LoadsBack ==
  ASSUME NEW T \in Seq(ASection), Apart(T)
  PROVE  LET L == Load(Lines(T)) IN L \in Seq(ASection) /\ Within(L, T) /\ Within(T, L)
  <1>. DEFINE f == Lines(T)
  <1>1. f \in Seq(Line) /\ NoRepeat(f)
    BY WrittenKeeps, ApartIsNoRepeat
  <1>. HIDE DEF f
  <1>2. PICK S \in Seq(ASection), s \in ASection :
           /\ Lines(Append(S, s)) = f
           /\ IF f = <<>> \/ f[Len(f)].tag THEN Load(f) = S /\ s.settings = <<>> ELSE Load(f) = Append(S, s)
    BY <1>1, ReadWhole
  <1>. DEFINE W == Append(S, s)
  <1>3. W \in Seq(ASection)
    BY AppendProperties
  <1>4. Within(W, T) /\ Within(T, W)
    BY <1>2, <1>3, SameWriting DEF f
  <1>5. CASE Load(f) = S /\ s.settings = <<>>
    <2>1. Within(S, T) /\ Within(T, S)
      BY <1>4, <1>5, WithinAppend
    <2>. QED  BY <1>5, <2>1 DEF f
  <1>6. CASE Load(f) = W
    BY <1>3, <1>4, <1>6 DEF f
  <1>. QED  BY <1>2, <1>5, <1>6

-----------------------------------------------------------------------------
\* How many lines of fkms a section has; each switch comments out one of every [all].
Fkms == Setting("fkms")
Count(s) == Cardinality({j \in DOMAIN s.settings : s.settings[j] = Fkms})
MostOf(S, m) == \A i \in DOMAIN S : S[i].name = "all" => Count(S[i]) <= m

LEMMA CountIs ==
  ASSUME NEW s \in ASection
  PROVE  /\ IsFiniteSet({j \in DOMAIN s.settings : s.settings[j] = Fkms})
         /\ Count(s) \in Nat /\ (Has(s, Fkms) <=> Count(s) # 0) /\ (s.settings = <<>> => Count(s) = 0)
  <1>. DEFINE n == Len(s.settings)
              P == {j \in DOMAIN s.settings : s.settings[j] = Fkms}
  <1>1. n \in Nat /\ DOMAIN s.settings = 1..n
    BY LenProperties DEF ASection
  <1>2. IsFiniteSet(1..n)
    <2>. HIDE DEF n
    <2>. QED  BY <1>1, FS_Interval
  <1>3. P \in SUBSET (1..n)
    BY <1>1
  <1>4. P = {} <=> ~Has(s, Fkms)
    BY DEF Has
  <1>. HIDE DEF P, n
  <1>5. IsFiniteSet(P) /\ Cardinality(P) \in Nat /\ (Cardinality(P) = 0 <=> P = {})
    <2>1. IsFiniteSet(P)
      BY <1>2, <1>3, FS_Subset
    <2>. QED  BY <2>1, FS_CardinalityType, FS_EmptySet
  <1>6. s.settings = <<>> => P = {}
    BY DEF P
  <1>. QED  BY <1>4, <1>5, <1>6 DEF Count, P

\* So there is a section with the most lines of fkms.
LEMMA CountsAreBounded ==
  \A S \in Seq(ASection) : \E b \in Nat : \A i \in DOMAIN S : Count(S[i]) <= b
  <1>. DEFINE Bounded(S, b) == \A i \in DOMAIN S : Count(S[i]) <= b
              N == {m \in Nat : \A S \in Seq(ASection) : Len(S) = m => \E b \in Nat : Bounded(S, b)}
  <1>1. 0 \in N
    <2>1. \A S \in Seq(ASection) : Len(S) = 0 => Bounded(S, 0)
      BY LenProperties
    <2>. HIDE DEF Bounded
    <2>. QED  BY <2>1
  <1>2. ASSUME NEW m \in Nat, m \in N PROVE m + 1 \in N
    <2>. SUFFICES ASSUME NEW T \in Seq(ASection), Len(T) = m + 1 PROVE \E b \in Nat : Bounded(T, b)
      OBVIOUS
    <2>1. PICK S \in Seq(ASection), s \in ASection : T = Append(S, s)
      <3>1. T # <<>>
        OBVIOUS
      <3>. QED  BY <3>1, SequenceEmptyOrAppend
    <2>2. Len(S) = m /\ \A i \in DOMAIN T : (i \in DOMAIN S /\ T[i] = S[i]) \/ T[i] = s
      BY <2>1, AppendProperties, LenProperties
    <2>3. PICK b \in Nat : Bounded(S, b)
      BY <1>2, <2>2
    <2>4. Count(s) \in Nat /\ \A i \in DOMAIN S : Count(S[i]) \in Nat
      <3>1. \A i \in DOMAIN S : S[i] \in ASection
        OBVIOUS
      <3>. QED  BY <3>1, CountIs
    <2>5. PICK c \in Nat : b <= c /\ Count(s) <= c
      BY <2>4
    <2>6. Bounded(T, c)
      BY <2>2, <2>3, <2>4, <2>5
    <2>. QED  BY <2>6
  <1>. HIDE DEF N
  <1>3. \A m \in Nat : m \in N
    BY <1>1, <1>2, Induct
  <1>. QED  BY <1>3, LenProperties DEF N

\* MostLines is the number that a switch after the other may have to comment out.
LEMMA MostAtFirst ==
  ASSUME NEW x \in Seq(Line)
  PROVE  LET m == MostLines(x, Fkms) IN m \in Nat /\ m >= 2 /\ MostOf(Load(x), m)
  <1>. DEFINE S == Load(x)
              F == {2} \cup {Count(s) : s \in ToSet(S)}
  <1>1. S \in Seq(ASection) /\ ToSet(S) = {S[i] : i \in DOMAIN S}
    BY LoadKeeps, Zenon DEF ToSet
  <1>2. MostLines(x, Fkms) = Max(F)
    BY Zenon DEF MostLines, Count
  <1>. HIDE DEF S
  <1>3. PICK b \in Nat : \A i \in DOMAIN S : Count(S[i]) <= b
    BY <1>1, CountsAreBounded
  <1>4. \A i \in DOMAIN S : Count(S[i]) \in Nat /\ Count(S[i]) \in F
    <2>1. \A i \in DOMAIN S : S[i] \in ASection /\ S[i] \in ToSet(S)
      BY <1>1
    <2>. QED  BY <2>1, CountIs
  <1>5. F \subseteq Nat /\ 2 \in F
    BY <1>1, <1>4
  <1>6. \A y \in F : y <= b + 2
    BY <1>1, <1>3, <1>4
  <1>. HIDE DEF F
  <1>7. Max(F) \in F /\ \A y \in F : y <= Max(F)
    <2>1. b + 2 \in Nat /\ F # {}
      BY <1>5
    <2>. QED  BY <1>5, <1>6, <2>1, Greatest
  <1>. QED  BY <1>2, <1>4, <1>5, <1>7 DEF MostOf, S

\* What the edits of sections do to the lines of fkms.
LEMMA OverlaySettings ==
  /\ \A o \in Overlay : Setting(o) \in Edit /\ Off(Setting(o)) \in Edit /\ Setting(o) \in SettingLine
                        /\ Setting(o).name = o /\ Off(Setting(o)) # Fkms
  /\ Fkms \in Edit /\ Setting("kms") # Fkms /\ "kms" \in Overlay /\ "fkms" \in Overlay
  BY SettingsAreLines DEF Overlay, Setting, Off, Fkms

\* A replaced line of fkms is one fewer.
LEMMA ReplacedCounts ==
  ASSUME NEW s \in ASection, NEW from \in Edit, NEW to \in Edit, to # Fkms
  PROVE  /\ Replaced(s, from, to) \in ASection /\ Replaced(s, from, to).name = s.name
         /\ Count(Replaced(s, from, to)) = IF from = Fkms /\ Has(s, from) THEN Count(s) - 1 ELSE Count(s)
  <1>1. Replaced(s, from, to) \in ASection /\ Replaced(s, from, to).name = s.name
    BY ReplacedIs DEF SameSection
  <1>2. CASE ~Has(s, from)
    <2>1. s = [s EXCEPT !.settings = s.settings]
      BY DEF ASection
    <2>2. Replaced(s, from, to) = s
      BY <1>2, <2>1 DEF Replaced
    <2>. QED  BY <1>1, <1>2, <2>2
  <1>3. CASE Has(s, from)
    <2>1. PICK k \in 1..Len(s.settings) :
            /\ s.settings[k] = from
            /\ Replaced(s, from, to) = [name |-> s.name, settings |-> [s.settings EXCEPT ![k] = to]]
      BY <1>3, ReplacedAt
    <2>. DEFINE v == s.settings
                w == [v EXCEPT ![k] = to]
                P(u) == {j \in DOMAIN u : u[j] = Fkms}
    <2>2. v \in Seq(SettingLine) /\ IsFiniteSet(P(v)) /\ k \in DOMAIN v /\ v[k] = from
      BY <2>1, CountIs DEF ASection
    <2>3. Count(s) = Cardinality(P(v)) /\ Count(Replaced(s, from, to)) = Cardinality(P(w))
      <3>1. Replaced(s, from, to).settings = w
        BY <2>1
      <3>. QED  BY <3>1, Zenon DEF Count
    <2>4. DOMAIN w = DOMAIN v /\ \A j \in DOMAIN v : w[j] = IF j = k THEN to ELSE v[j]
      OBVIOUS
    <2>. HIDE DEF v, w
    <2>5. CASE from = Fkms
      <3>1. P(w) = P(v) \ {k} /\ k \in P(v)
        BY <2>1, <2>2, <2>4, <2>5
      <3>. HIDE DEF P
      <3>2. Cardinality(P(w)) = Cardinality(P(v)) - 1
        BY <2>2, <3>1, FS_RemoveElement
      <3>. QED  BY <1>1, <1>3, <2>3, <2>5, <3>2
    <2>6. CASE from # Fkms
      <3>1. P(w) = P(v)
        BY <2>1, <2>2, <2>4, <2>6
      <3>. HIDE DEF P
      <3>. QED  BY <1>1, <2>3, <2>6, <3>1
    <2>. QED  BY <2>5, <2>6
  <1>. QED  BY <1>2, <1>3

LEMMA ReplacedHas ==
  ASSUME NEW s \in ASection, NEW from, NEW to, Has(s, from)
  PROVE  Has(Replaced(s, from, to), to)
  <1>1. PICK k \in 1..Len(s.settings) :
          Replaced(s, from, to) = [name |-> s.name, settings |-> [s.settings EXCEPT ![k] = to]]
    BY ReplacedAt
  <1>2. DOMAIN s.settings = 1..Len(s.settings)
    BY DEF ASection
  <1>3. Replaced(s, from, to).settings = [s.settings EXCEPT ![k] = to]
    BY <1>1
  <1>. QED  BY <1>2, <1>3 DEF Has

\* What is written is found again by the next load.
LEMMA WrittenIsFound ==
  ASSUME NEW T \in Seq(ASection), Apart(T)
  PROVE  /\ \A m \in Nat : MostOf(T, m) => MostOf(Load(Lines(T)), m)
         /\ \A line : AnyHas(T, line) => AnyHas(Load(Lines(T)), line)
  <1>. DEFINE L == Load(Lines(T))
  <1>1. L \in Seq(ASection) /\ Within(L, T) /\ Within(T, L)
    BY LoadsBack
  <1>. HIDE DEF L
  <1>2. ASSUME NEW m \in Nat, MostOf(T, m) PROVE MostOf(L, m)
    <2>. SUFFICES ASSUME NEW i \in DOMAIN L, L[i].name = "all" PROVE Count(L[i]) <= m
      BY DEF MostOf
    <2>1. CASE L[i].settings = <<>>
      <3>1. L[i] \in ASection
        BY <1>1
      <3>2. Count(L[i]) = 0
        BY <2>1, <3>1, CountIs
      <3>. QED  BY <3>2
    <2>2. CASE \E j \in DOMAIN T : T[j] = L[i]
      BY <1>2, <2>2 DEF MostOf
    <2>. QED  BY <1>1, <2>1, <2>2 DEF Within
  <1>3. ASSUME NEW line, AnyHas(T, line) PROVE AnyHas(L, line)
    <2>1. PICK i \in DOMAIN T : T[i].name = "all" /\ Has(T[i], line)
      BY <1>3 DEF AnyHas
    <2>2. T[i].settings # <<>>
      BY <2>1 DEF Has
    <2>3. PICK j \in DOMAIN L : L[j] = T[i]
      BY <1>1, <2>2 DEF Within
    <2>. QED  BY <2>1, <2>3 DEF AnyHas
  <1>. QED  BY <1>2, <1>3 DEF L

\* What a bound tells of fkms.
LEMMA NoneOf ==
  ASSUME NEW S \in Seq(ASection)
  PROVE  /\ ~AnyHas(S, Fkms) => MostOf(S, 0)
         /\ \A m \in Nat : MostOf(S, m) /\ AnyHas(S, Fkms) => m >= 1
         /\ \A m \in Nat, n \in Nat : MostOf(S, m) /\ m <= n => MostOf(S, n)
  <1>1. \A i \in DOMAIN S : Count(S[i]) \in Nat /\ (Has(S[i], Fkms) <=> Count(S[i]) # 0)
    <2>1. \A i \in DOMAIN S : S[i] \in ASection
      OBVIOUS
    <2>. QED  BY <2>1, CountIs
  <1>. QED  BY <1>1 DEF AnyHas, MostOf

\* To comment out fkms leaves one line fewer of it, if there is any.
LEMMA CommentedMost ==
  ASSUME NEW x \in Seq(Line), NEW m \in Nat, MostOf(Load(x), m + 1) \/ (m = 0 /\ MostOf(Load(x), 0))
  PROVE  MostOf(Load(Commented(x, Fkms)), m)
  <1>. DEFINE S == Load(x)
              T == Edited(S, Fkms, Off(Fkms))
  <1>1. S \in Seq(ASection) /\ Apart(S) /\ Fkms \in Edit /\ Off(Fkms) \in Edit /\ Off(Fkms) # Fkms
    BY LoadKeeps, OverlaySettings DEF Fkms
  <1>2. T \in Seq(ASection) /\ Apart(T)
    <2>. HIDE DEF S
    <2>. QED  BY <1>1, EditedIs DEF SameSettings
  <1>3. T = [i \in DOMAIN S |-> IF S[i].name = "all" THEN Replaced(S[i], Fkms, Off(Fkms)) ELSE S[i]]
    BY Zenon DEF Edited
  <1>. HIDE DEF S, T
  <1>4. ASSUME NEW i \in DOMAIN T, T[i].name = "all" PROVE Count(T[i]) <= m
    <2>1. i \in DOMAIN S /\ S[i] \in ASection
      BY <1>1, <1>3
    <2>2. S[i].name = "all" /\ T[i] = Replaced(S[i], Fkms, Off(Fkms))
      BY <1>3, <1>4, <2>1
    <2>3. Count(T[i]) = IF Has(S[i], Fkms) THEN Count(S[i]) - 1 ELSE Count(S[i])
      BY <1>1, <2>1, <2>2, ReplacedCounts
    <2>4. Count(S[i]) \in Nat /\ (Has(S[i], Fkms) <=> Count(S[i]) # 0)
      BY <2>1, CountIs
    <2>5. Count(S[i]) <= m + 1
      BY <2>1, <2>2, <2>4 DEF MostOf, S
    <2>. QED  BY <2>3, <2>4, <2>5
  <1>5. MostOf(Load(Lines(T)), m)
    BY <1>2, <1>4, WrittenIsFound DEF MostOf
  <1>. QED  BY <1>5 DEF Commented, T, S

\* To add an overlay makes it be found, and kms adds no line of fkms.
LEMMA AddedMost ==
  ASSUME NEW x \in Seq(Line), NEW o \in Overlay
  PROVE  /\ AnyHas(Load(Added(x, Setting(o))), Setting(o))
         /\ o = "kms" => \A m \in Nat : MostOf(Load(x), m) => MostOf(Load(Added(x, Setting(o))), m)
  <1>. DEFINE S == Load(x)
              new == Setting(o)
  <1>1. PICK T : AddedTo(S, new, T) /\ Added(x, new) = Lines(T)
    BY AddedIs
  <1>2. /\ S \in Seq(ASection) /\ T \in Seq(ASection) /\ Apart(T)
        /\ new \in Edit /\ new \in SettingLine /\ Off(new) \in Edit /\ Off(new) # Fkms /\ (o = "kms" => new # Fkms)
    BY <1>1, LoadKeeps, AddedKeeps, OverlaySettings DEF SameSettings
  <1>. HIDE DEF S, new
  <1>3. /\ \A i \in DOMAIN S : S[i] \in ASection
        /\ Edited(S, Off(new), new) = [i \in DOMAIN S |-> IF S[i].name = "all" THEN Replaced(S[i], Off(new), new) ELSE S[i]]
    <2>1. Edited(S, Off(new), new) = [i \in DOMAIN S |-> IF S[i].name = "all" THEN Replaced(S[i], Off(new), new) ELSE S[i]]
      BY Zenon DEF Edited
    <2>. QED  BY <1>2, <2>1
  <1>. DEFINE e == <<>>
              a == Section("all", <<new>>)
  <1>4. a \in ASection /\ a.name = "all" /\ Has(a, new) /\ (new # Fkms => Count(a) = 0)
    <2>1. a \in ASection /\ a.name = "all" /\ a.settings = <<new>>
      BY <1>2, LinesHaveNames DEF Section, ASection
    <2>. HIDE DEF a
    <2>2. DOMAIN <<new>> = {1} /\ <<new>>[1] = new
      OBVIOUS
    <2>3. Has(a, new) /\ (new # Fkms => ~Has(a, Fkms))
      BY <2>1, <2>2 DEF Has
    <2>. QED  BY <2>1, <2>3, CountIs
  <1>. HIDE DEF a
  <1>5. CASE AnyHas(S, new) /\ T = S
    BY <1>1, <1>2, <1>5, WrittenIsFound DEF S, new
  <1>6. CASE AnyHas(S, Off(new)) /\ T = Edited(S, Off(new), new)
    <2>1. PICK i \in DOMAIN S : S[i].name = "all" /\ Has(S[i], Off(new))
      BY <1>6 DEF AnyHas
    <2>2. \A j \in DOMAIN S : S[j].name = "all" => T[j] = Replaced(S[j], Off(new), new) /\ j \in DOMAIN T
      BY <1>3, <1>6
    <2>3. \A j \in DOMAIN S : /\ Replaced(S[j], Off(new), new).name = S[j].name
                              /\ new # Fkms => Count(Replaced(S[j], Off(new), new)) = Count(S[j])
      BY <1>2, <1>3, ReplacedCounts, ReplacedIs DEF SameSection
    <2>4. AnyHas(T, new)
      BY <1>3, <2>1, <2>2, <2>3, ReplacedHas DEF AnyHas
    <2>5. new # Fkms => \A m \in Nat : MostOf(S, m) => MostOf(T, m)
      <3>1. DOMAIN T = DOMAIN S /\ \A j \in DOMAIN S : S[j].name # "all" => T[j] = S[j]
        BY <1>3, <1>6
      <3>. QED  BY <2>2, <2>3, <3>1 DEF MostOf
    <2>. QED  BY <1>1, <1>2, <2>4, <2>5, WrittenIsFound DEF S, new
  <1>7. CASE T = Append(S, a)
    <2>1. /\ Len(S) \in Nat /\ DOMAIN S = 1..Len(S) /\ DOMAIN T = 1..Len(S) + 1
          /\ T[Len(S) + 1] = a /\ \A i \in 1..Len(S) : T[i] = S[i]
      BY <1>2, <1>4, <1>7, AppendProperties, LenProperties
    <2>2. AnyHas(T, new)
      BY <1>4, <2>1 DEF AnyHas
    <2>3. new # Fkms => \A m \in Nat : MostOf(S, m) => MostOf(T, m)
      <3>1. \A i \in DOMAIN T : T[i] = a \/ (i \in DOMAIN S /\ T[i] = S[i])
        BY <2>1
      <3>. QED  BY <1>4, <3>1 DEF MostOf
    <2>. QED  BY <1>1, <1>2, <2>2, <2>3, WrittenIsFound DEF S, new
  <1>8. ASSUME NEW k \in DOMAIN S, S[k].name = "all", T = [S EXCEPT ![k].settings = Append(@, new)]
        PROVE  AnyHas(Load(Added(x, Setting(o))), Setting(o))
               /\ (o = "kms" => \A m \in Nat : MostOf(Load(x), m) => MostOf(Load(Added(x, Setting(o))), m))
    <2>. DEFINE v == S[k].settings
                n == Len(v)
                w == Append(v, new)
    <2>1. DOMAIN T = DOMAIN S /\ T[k].settings = w /\ T[k].name = "all" /\ \A i \in DOMAIN S \ {k} : T[i] = S[i]
      <3>1. S[k] = [name |-> "all", settings |-> v]
        BY <1>3, <1>8 DEF ASection
      <3>2. T[k] = [S[k] EXCEPT !.settings = w] /\ DOMAIN T = DOMAIN S /\ \A i \in DOMAIN S \ {k} : T[i] = S[i]
        BY <1>8
      <3>. HIDE DEF v, w
      <3>. QED  BY <3>1, <3>2
    <2>2. v \in Seq(SettingLine)
      BY <1>3 DEF ASection
    <2>. HIDE DEF v
    <2>3. /\ n \in Nat /\ DOMAIN v = 1..n /\ DOMAIN w = 1..n + 1
          /\ w[n + 1] = new /\ \A i \in 1..n : w[i] = v[i]
      BY <1>2, <2>2, AppendProperties, LenProperties
    <2>. HIDE DEF w, n
    <2>4. Has(T[k], new)
      BY <2>1, <2>3 DEF Has
    <2>5. AnyHas(T, new)
      BY <2>1, <2>4 DEF AnyHas
    <2>6. new # Fkms => Count(T[k]) = Count(S[k])
      <3>. SUFFICES ASSUME new # Fkms PROVE Count(T[k]) = Count(S[k])
        OBVIOUS
      <3>1. {j \in DOMAIN w : w[j] = Fkms} = {j \in DOMAIN v : v[j] = Fkms}
        BY <2>3
      <3>. QED  BY <2>1, <3>1, Zenon DEF Count, v
    <2>7. new # Fkms => \A m \in Nat : MostOf(S, m) => MostOf(T, m)
      BY <1>8, <2>1, <2>6 DEF MostOf
    <2>. QED  BY <1>1, <1>2, <2>5, <2>7, WrittenIsFound DEF S, new
  <1>. QED  BY <1>1, <1>5, <1>6, <1>7, <1>8 DEF AddedTo, a

\* Where [all] has a setting, as the lines tell it.
Found(f, line, i) == \E k \in 1..i : f[k] = line /\ SectionOf(f, k) = "all"

LEMMA HasOfAppend ==
  ASSUME NEW S \in Seq(ASection), NEW s \in ASection, NEW line
  PROVE  AnyHas(Append(S, s), line) <=> AnyHas(S, line) \/ (s.name = "all" /\ Has(s, line))
  <1>. DEFINE T == Append(S, s)
  <1>1. /\ Len(S) \in Nat /\ DOMAIN S = 1..Len(S) /\ DOMAIN T = 1..Len(S) + 1
        /\ T[Len(S) + 1] = s /\ \A i \in 1..Len(S) : T[i] = S[i]
    BY AppendProperties, LenProperties
  <1>. HIDE DEF T
  <1>2. AnyHas(T, line) <=> AnyHas(S, line) \/ (s.name = "all" /\ Has(s, line))
    BY <1>1 DEF AnyHas
  <1>. QED  BY <1>2 DEF T

\* Reading goes on to find what the lines have.
LEMMA FindsOn ==
  ASSUME NEW f \in Seq(Line), NEW a, IsLoading(a, f), NEW line \in SettingLine, NEW i \in 1..Len(f),
         a[i - 1].section.name = SectionOf(f, i - 1),
         AnyHas(Append(a[i - 1].sections, a[i - 1].section), line) <=> Found(f, line, i - 1)
  PROVE  /\ a[i].section.name = SectionOf(f, i)
         /\ AnyHas(Append(a[i].sections, a[i].section), line) <=> Found(f, line, i)
  <1>. DEFINE S == a[i - 1].sections
              s == a[i - 1].section
              new == f[i]
              T == a[i].sections
              t == a[i].section
  <1>1. /\ i \in Nat \ {0} /\ i - 1 \in 0..Len(f) /\ new \in Line
        /\ a[i - 1] \in Loaded /\ a[i] \in Loaded /\ a[i] = LoadLine(a[i - 1], new)
    BY DEF IsLoading
  <1>2. S \in Seq(ASection) /\ s \in ASection /\ T \in Seq(ASection) /\ t \in ASection
    BY <1>1 DEF Loaded
  <1>3. SectionOf(f, i) = IF new.tag THEN new.name ELSE SectionOf(f, i - 1)
    BY <1>1, SectionStep
  <1>4. Found(f, line, i) <=> Found(f, line, i - 1) \/ (new = line /\ SectionOf(f, i) = "all")
    <2>1. \A k : k \in 1..i <=> k \in 1..i - 1 \/ k = i
      BY <1>1
    <2>. QED  BY <2>1 DEF Found
  <1>5. ~line.tag
    BY DEF SettingLine
  <1>6. CASE ~new.tag
    <2>1. a[i] = [sections |-> S, section |-> Section(s.name, Append(s.settings, new))]
      BY <1>1, <1>6, LoadLineIs
    <2>2. T = S /\ t.name = s.name /\ t.settings = Append(s.settings, new)
      BY <2>1 DEF Section
    <2>. DEFINE v == s.settings
                w == Append(v, new)
    <2>3. v \in Seq(Line)
      BY <1>2, SectionsHave
    <2>. HIDE DEF v
    <2>4. /\ Len(v) \in Nat /\ DOMAIN v = 1..Len(v) /\ DOMAIN w = 1..Len(v) + 1
          /\ w[Len(v) + 1] = new /\ \A k \in 1..Len(v) : w[k] = v[k]
      BY <1>1, <2>3, AppendProperties, LenProperties
    <2>. HIDE DEF w, S, s, T, t, new
    <2>5. t.settings = w /\ s.settings = v
      BY <2>2 DEF v, w
    <2>6. Has(t, line) <=> Has(s, line) \/ new = line
      BY <2>4, <2>5 DEF Has
    <2>7. AnyHas(Append(T, t), line) <=> AnyHas(T, line) \/ (t.name = "all" /\ Has(t, line))
      BY <1>2, HasOfAppend
    <2>8. AnyHas(Append(S, s), line) <=> AnyHas(S, line) \/ (s.name = "all" /\ Has(s, line))
      BY <1>2, HasOfAppend
    <2>9. AnyHas(T, line) <=> AnyHas(S, line)
      BY <2>2
    <2>10. s.name = SectionOf(f, i - 1) /\ (AnyHas(Append(S, s), line) <=> Found(f, line, i - 1))
      BY DEF s, S
    <2>. QED  BY <1>3, <1>4, <1>6, <2>2, <2>6, <2>7, <2>8, <2>9, <2>10 DEF T, t
  <1>7. CASE new.tag
    <2>1. a[i] = [sections |-> IF new.name = "all" \/ new.name # s.name THEN Append(S, s) ELSE S,
                  section |-> Section(new.name, <<>>)]
      BY <1>1, <1>7, LoadLineIs
    <2>2. t.name = new.name /\ ~Has(t, line) /\ new # line
      BY <1>5, <1>7, <2>1 DEF Section, Has
    <2>3. AnyHas(Append(T, t), line) <=> AnyHas(T, line)
      BY <1>2, <2>2, HasOfAppend
    <2>4. AnyHas(Append(S, s), line) <=> AnyHas(S, line) \/ (s.name = "all" /\ Has(s, line))
      BY <1>2, HasOfAppend
    <2>5. T = IF new.name = "all" \/ new.name # s.name THEN Append(S, s) ELSE S
      BY <2>1
    <2>6. AnyHas(T, line) <=> AnyHas(Append(S, s), line)
      <3>1. CASE new.name = "all" \/ new.name # s.name
        BY <2>5, <3>1
      <3>2. CASE ~(new.name = "all" \/ new.name # s.name)
        BY <2>4, <2>5, <3>2
      <3>. QED  BY <3>1, <3>2
    <2>. QED  BY <1>3, <1>4, <1>7, <2>2, <2>3, <2>6
  <1>. QED  BY <1>6, <1>7

\* A setting of [all] is found if and only if it is in the lines (RpiConfigParser.load).
LEMMA LoadFinds ==
  ASSUME NEW f \in Seq(Line), NEW line \in SettingLine
  PROVE  AnyHas(Load(f), line) <=> Found(f, line, Len(f))
  <1>1. PICK a : /\ IsLoading(a, f)
                 /\ Load(f) = IF f = <<>> \/ f[Len(f)].tag
                              THEN a[Len(f)].sections ELSE Append(a[Len(f)].sections, a[Len(f)].section)
    BY LoadIs
  <1>. DEFINE n == Len(f)
              W(m) == Append(a[m].sections, a[m].section)
              R == {m \in Nat : m <= n => /\ a[m].section.name = SectionOf(f, m)
                                          /\ AnyHas(W(m), line) <=> Found(f, line, m)}
  <1>2. n \in Nat /\ \A m \in 0..n : a[m].sections \in Seq(ASection) /\ a[m].section \in ASection
    <2>1. n \in Nat /\ a \in [0..n -> Loaded]
      BY <1>1 DEF IsLoading
    <2>. HIDE DEF n
    <2>2. \A m \in 0..n : a[m] \in Loaded
      BY <2>1
    <2>. QED  BY <2>1, <2>2 DEF Loaded
  <1>3. 0 \in R
    <2>. DEFINE e == <<>>
                s == Section("all", <<>>)
    <2>1. a[0].sections = e /\ a[0].section = s /\ s.name = "all" /\ ~Has(s, line)
      BY <1>1 DEF IsLoading, AtFirst, Section, Has
    <2>2. ~AnyHas(e, line)
      BY DEF AnyHas
    <2>. HIDE DEF e, s
    <2>3. 0 \in 0..n
      BY <1>2
    <2>4. ~AnyHas(W(0), line)
      <3>1. AnyHas(Append(e, s), line) <=> AnyHas(e, line) \/ (s.name = "all" /\ Has(s, line))
        BY <1>2, <2>1, <2>3, HasOfAppend
      <3>. QED  BY <2>1, <2>2, <3>1
    <2>5. ~Found(f, line, 0)
      BY DEF Found
    <2>. QED  BY <2>1, <2>4, <2>5, SectionAtFirst
  <1>4. ASSUME NEW m \in Nat, m \in R PROVE m + 1 \in R
    <2>. SUFFICES ASSUME m + 1 <= n
                  PROVE  a[m + 1].section.name = SectionOf(f, m + 1) /\ (AnyHas(W(m + 1), line) <=> Found(f, line, m + 1))
      OBVIOUS
    <2>1. /\ m + 1 \in 1..Len(f) /\ (m + 1) - 1 = m
          /\ a[m].section.name = SectionOf(f, m) /\ (AnyHas(W(m), line) <=> Found(f, line, m))
      BY <1>2, <1>4
    <2>. QED  BY <1>1, <2>1, FindsOn
  <1>5. n \in R
    <2>. HIDE DEF R, n
    <2>. QED  BY <1>2, <1>3, <1>4, Induct
  <1>6. AnyHas(W(n), line) <=> Found(f, line, n)
    BY <1>2, <1>5
  <1>7. CASE f = <<>> \/ f[n].tag
    <2>. DEFINE S == a[n].sections
                s == a[n].section
    <2>1. S \in Seq(ASection) /\ s \in ASection /\ Load(f) = S
      BY <1>1, <1>2, <1>7
    <2>2. s.settings = <<>>
      <3>1. CASE f = <<>>
        <4>1. n = 0
          BY <3>1, EmptySeq
        <4>. QED  BY <1>1, <4>1 DEF IsLoading, AtFirst, Section
      <3>2. CASE f # <<>> /\ f[n].tag
        <4>1. n \in 1..n /\ n - 1 \in 0..n
          BY <3>2, EmptySeq
        <4>2. a[n - 1] \in Loaded /\ f[n] \in Line /\ a[n] = LoadLine(a[n - 1], f[n])
          BY <1>1, <4>1 DEF IsLoading
        <4>3. s = Section(f[n].name, <<>>)
          BY <3>2, <4>2, LoadLineIs
        <4>. QED  BY <4>3 DEF Section
      <3>. QED  BY <1>7, <3>1, <3>2
    <2>. HIDE DEF S, s
    <2>3. ~Has(s, line)
      BY <2>2 DEF Has
    <2>4. AnyHas(Append(S, s), line) <=> AnyHas(S, line)
      BY <2>1, <2>3, HasOfAppend
    <2>. QED  BY <1>6, <2>1, <2>4 DEF S, s
  <1>8. CASE ~(f = <<>> \/ f[n].tag)
    BY <1>1, <1>6, <1>8
  <1>. QED  BY <1>7, <1>8

\* To set the drive changes nothing that the overlay depends on.
LEMMA DrivenFinds ==
  ASSUME NEW x \in Seq(Line), NEW o \in Overlay
  PROVE  AnyHas(Load(Driven(x)), Setting(o)) <=> AnyHas(Load(x), Setting(o))
  <1>. DEFINE g == Driven(x)
              drive == Setting("hdmi_drive=2")
              line == Setting(o)
              n == Len(x)
  <1>1. /\ g \in Seq(Line) /\ n <= Len(g) /\ n \in Nat /\ Len(g) \in Nat
        /\ \A i \in 1..n : g[i] = IF x[i].name \in Drive THEN drive ELSE x[i]
        /\ \A i \in n + 1..Len(g) : g[i] = drive
        /\ drive \in Line /\ ~drive.tag /\ drive.name \in Drive
    BY DrivenIs, LenProperties
  <1>2. line \in SettingLine /\ line.name \notin Drive
    BY OverlaySettings DEF Overlay, Drive
  <1>3. \A i \in 1..n : x[i] \in Line /\ (x[i].name \in Drive => ~x[i].tag)
    BY DEF Line
  <1>. HIDE DEF g, drive, line, n
  <1>4. SameTags(g, x, n)
    <2>. SUFFICES ASSUME NEW i \in 1..n PROVE g[i].tag = x[i].tag /\ (g[i].tag => g[i].name = x[i].name)
      BY DEF SameTags
    <2>1. CASE x[i].name \in Drive
      <3>1. g[i] = drive /\ drive.tag = FALSE /\ x[i].tag = FALSE
        BY <1>1, <1>3, <2>1 DEF Line
      <3>. QED  BY <3>1
    <2>2. CASE x[i].name \notin Drive
      BY <1>1, <2>2
    <2>. QED  BY <2>1, <2>2
  <1>5. \A i \in 1..n : i \in 0..n /\ SectionOf(g, i) = SectionOf(x, i)
    BY <1>1, <1>4, SameSections
  <1>6. \A i \in 1..n : g[i] = line <=> x[i] = line
    BY <1>1, <1>2
  <1>7. \A i \in n + 1..Len(g) : g[i] # line
    BY <1>1, <1>2
  <1>8. Found(g, line, Len(g)) <=> Found(x, line, n)
    <2>1. \A i : i \in 1..Len(g) <=> i \in 1..n \/ i \in n + 1..Len(g)
      BY <1>1
    <2>. QED  BY <1>5, <1>6, <1>7, <2>1 DEF Found
  <1>9. AnyHas(Load(g), line) <=> Found(g, line, Len(g))
    BY <1>1, <1>2, LoadFinds
  <1>10. AnyHas(Load(x), line) <=> Found(x, line, n)
    BY <1>2, LoadFinds DEF n
  <1>. QED  BY <1>8, <1>9, <1>10 DEF g, line

-----------------------------------------------------------------------------
\* The two files together.

\* A step of the system is one of the state file or leaves it alone.
LEMMA StateSteps == FilesNext => [StateNext]_stateVars
  BY DEF FilesNext, MainSteps, SetSteps, RequestSteps, PeripheralSteps, GoesDown, Stops, Boots, WritesBack, Dying, StateNext

\* The state file does not notice the edits of the other one (state.py).
THEOREM StateOfFiles == FilesSpec => StateSpec
  <1>1. FilesInit => StateInit
    BY DEF FilesInit
  <1>2. [FilesNext]_filesVars => [StateNext]_stateVars
    BY StateSteps DEF filesVars
  <1>. QED  BY <1>1, <1>2, PTL DEF FilesSpec, StateSpec

-----------------------------------------------------------------------------
\* Where a write is prepared or under way.
Editing == {"comment", "add", "hdmi"}

\* A file that has what survives of the first one, and as much as that or all.
Good(x) ==
  /\ x \in Seq(Line)
  /\ Survivors(x) = Survivors(original)
  /\ All(x) \in {All(original), Survivors(original)}

\* Nobody edits the file unless pi-topd serves, and it is on disk when the machine is off.
EditsWhenUp ==
  /\ want \in Overlay
  /\ edit \in Editing \cup {"check", "commented", "due", "done"}
  /\ open => edit \in Editing /\ file = <<>>
  /\ phase # "serving" => AtRest
  /\ power = "off" => onDisk = {file}

WhatIsWritten ==
  ~torn => /\ ~open => Good(file)
           /\ edit \in Editing => Good(plan)
           /\ \A lines \in onDisk : lines = <<>> \/ Good(lines)

ConfigInv == EditsWhenUp /\ WhatIsWritten

LEMMA ConfigInvInit == FilesInit => ConfigInv
  <1>. SUFFICES ASSUME FilesInit PROVE ConfigInv
    OBVIOUS
  <1>1. Good(file)
    BY ConfigAssumption DEF FilesInit, ConfigInit, Good, All
  <1>. QED  BY <1>1 DEF FilesInit, ConfigInit, StateInit, ConfigInv, EditsWhenUp, WhatIsWritten, Editing, AtRest

LEMMA GoodEdits ==
  ASSUME Good(file), NEW o \in Overlay
  PROVE  Good(Commented(file, Setting(o))) /\ Good(Added(file, Setting(o))) /\ Good(Driven(file))
  BY CommentedKeeps, AddedKeeps, DrivenKeeps DEF Good, Kept

\* The peripheral manager's thread keeps the invariant, and so do all the others.
LEMMA SetupKeeps == StateInv /\ ConfigInv /\ Up /\ Setup /\ UNCHANGED <<phase, power>> => ConfigInv'
  <1>. SUFFICES ASSUME StateInv, ConfigInv, Up, Setup, UNCHANGED <<phase, power>> PROVE ConfigInv'
    OBVIOUS
  <1>. USE DEF Up
  <1>9. power' # "off"
    BY DEF StateInv, WritesWhenUp
  <1>0. want \in Overlay /\ Other(want) \in Overlay
    <2>1. want \in Overlay
      BY DEF ConfigInv, EditsWhenUp
    <2>2. \E o \in Overlay : o # want
      BY <2>1 DEF Overlay
    <2>. QED  BY <2>1, <2>2 DEF Other
  <1>1. CASE Check
    <2>1. edit = "check" /\ ~open /\ UNCHANGED <<file, want, open, torn, onDisk, original>>
      BY <1>1 DEF Check, ConfigInv, EditsWhenUp, Editing
    <2>2. \/ edit' = "comment" /\ plan' = Commented(file, Setting(Other(want)))
          \/ edit' = "hdmi" /\ plan' = Driven(file)
          \/ edit' = "done" /\ plan' = plan
      BY <1>1, Zenon DEF Check
    <2>3. EditsWhenUp'
      BY <1>9, <2>1, <2>2 DEF ConfigInv, EditsWhenUp, Editing
    <2>4. ASSUME ~torn'
          PROVE  /\ Good(file)' /\ (edit' \in Editing => Good(plan)')
                 /\ \A lines \in onDisk' : lines = <<>> \/ Good(lines)'
      <3>1. Good(file)
        BY <2>1, <2>4 DEF ConfigInv, WhatIsWritten
      <3>2. Good(Commented(file, Setting(Other(want)))) /\ Good(Driven(file))
        BY <1>0, <3>1, GoodEdits
      <3>3. \A lines \in onDisk : lines = <<>> \/ Good(lines)
        BY <2>1, <2>4 DEF ConfigInv, WhatIsWritten
      <3>. QED  BY <2>1, <2>2, <3>1, <3>2, <3>3 DEF Good, Editing
    <2>. QED  BY <2>3, <2>4 DEF ConfigInv, WhatIsWritten
  <1>2. CASE Add
    <2>1. /\ edit = "commented" /\ edit' = "add" /\ plan' = Added(file, Setting(want))
          /\ ~open /\ UNCHANGED <<file, want, open, torn, onDisk, original>>
      BY <1>2 DEF Add, ConfigInv, EditsWhenUp, Editing
    <2>2. EditsWhenUp'
      BY <1>9, <2>1 DEF ConfigInv, EditsWhenUp, Editing
    <2>3. ASSUME ~torn'
          PROVE  /\ Good(file)' /\ Good(plan)'
                 /\ \A lines \in onDisk' : lines = <<>> \/ Good(lines)'
      <3>1. Good(file)
        BY <2>1, <2>3 DEF ConfigInv, WhatIsWritten
      <3>2. Good(Added(file, Setting(want)))
        BY <1>0, <3>1, GoodEdits
      <3>3. \A lines \in onDisk : lines = <<>> \/ Good(lines)
        BY <2>1, <2>3 DEF ConfigInv, WhatIsWritten
      <3>. QED  BY <2>1, <3>1, <3>2, <3>3 DEF Good
    <2>. QED  BY <2>2, <2>3 DEF ConfigInv, WhatIsWritten
  <1>3. CASE OpenFile
    <2>1. /\ edit \in Editing /\ open' /\ file' = <<>> /\ UNCHANGED <<edit, plan, want, torn, original>>
          /\ onDisk' = onDisk \cup {<<>>}
      BY <1>3 DEF OpenFile, Editing
    <2>2. EditsWhenUp'
      BY <1>9, <2>1 DEF ConfigInv, EditsWhenUp, AtRest
    <2>. QED  BY <2>1, <2>2 DEF ConfigInv, WhatIsWritten, Good
  <1>4. CASE WriteFile
    <2>1. /\ open /\ edit \in Editing /\ open' = FALSE /\ file' = plan
          /\ edit' \in {"commented", "due"} /\ UNCHANGED <<want, torn, original>>
          /\ onDisk' = onDisk \cup {plan}
      BY <1>4 DEF WriteFile, ConfigInv, EditsWhenUp
    <2>2. ~torn' => Good(file)' /\ \A lines \in onDisk' : lines = <<>> \/ Good(lines)'
      BY <2>1 DEF ConfigInv, WhatIsWritten, Good
    <2>3. edit' \notin Editing
      BY <2>1 DEF Editing
    <2>4. EditsWhenUp'
      BY <1>9, <2>1 DEF ConfigInv, EditsWhenUp, AtRest
    <2>. QED  BY <2>1, <2>2, <2>3, <2>4 DEF ConfigInv, WhatIsWritten
  <1>. QED  BY <1>1, <1>2, <1>3, <1>4 DEF Setup

LEMMA ConfigInvNext == StateInv /\ ConfigInv /\ [FilesNext]_filesVars => ConfigInv'
  <1>. SUFFICES ASSUME StateInv, ConfigInv, [FilesNext]_filesVars PROVE ConfigInv'
    OBVIOUS
  <1>1. ASSUME UNCHANGED configVars, phase' = phase \/ phase' = "serving" \/ AtRest,
               power' # "off" \/ power' = power
        PROVE  ConfigInv'
    BY <1>1 DEF configVars, ConfigInv, EditsWhenUp, WhatIsWritten, Good, AtRest
  <1>2. CASE MainSteps
    <2>1. phase # "serving"
      BY <1>2 DEF MainSteps, Start, RecordDevice
    <2>2. power' = power
      BY <1>2 DEF MainSteps, Start, RecordDevice
    <2>. QED  BY <1>1, <1>2, <2>1, <2>2 DEF MainSteps, ConfigInv, EditsWhenUp
  <1>3. CASE SetSteps
    BY <1>1, <1>3 DEF SetSteps, Truncate, Save
  <1>4. CASE RequestSteps
    BY <1>1, <1>4 DEF RequestSteps, SetTimeout
  <1>5. CASE PeripheralSteps
    <2>1. CASE Up /\ Setup /\ UNCHANGED stateVars
      BY <2>1, SetupKeeps DEF stateVars
    <2>2. CASE ConfigureSound /\ UNCHANGED configVars
      BY <1>1, <2>2 DEF ConfigureSound
    <2>. QED  BY <1>5, <2>1, <2>2 DEF PeripheralSteps
  <1>6. CASE GoesDown
    BY <1>1, <1>6 DEF GoesDown, Halt, AskedReboot, GoDown
  <1>7. CASE Stops
    <2>1. CASE SwitchOff /\ WrittenBack
      <3>1. /\ phase' = phase /\ phase = "ended" /\ onDisk' = {file}
            /\ UNCHANGED <<file, want, edit, plan, open, torn, original>>
        BY <2>1 DEF SwitchOff, WrittenBack
      <3>2. ~open
        BY <3>1 DEF ConfigInv, EditsWhenUp, AtRest, Editing
      <3>. QED  BY <3>1, <3>2 DEF ConfigInv, EditsWhenUp, WhatIsWritten, Good, AtRest
    <2>2. CASE (Terminate \/ PtPoweroff) /\ AtRest /\ UNCHANGED configVars
      BY <1>1, <2>2 DEF Terminate, PtPoweroff
    <2>3. CASE PtPoweroff /\ UNCHANGED configVars
      BY <1>1, <2>3 DEF PtPoweroff
    <2>. QED  BY <1>7, <2>1, <2>2, <2>3 DEF Stops
  <1>8. CASE Boots
    <2>1. phase = "ended" /\ phase' = "down" /\ power' = "on"
      BY <1>8 DEF Boots, Boot, StateInv, WritesWhenUp
    <2>2. edit' = "check" /\ UNCHANGED <<file, want, plan, open, torn, onDisk, original>>
      BY <1>8 DEF Boots, Reboot
    <2>3. ~open
      BY <2>1 DEF ConfigInv, EditsWhenUp, AtRest, Editing
    <2>. QED  BY <2>1, <2>2, <2>3 DEF ConfigInv, EditsWhenUp, WhatIsWritten, Good, Editing, AtRest
  <1>9. CASE Dying
    <2>1. edit' = "check" /\ open' = FALSE /\ UNCHANGED <<want, original>>
      BY <1>9 DEF Dying, Crashed, PowerCut, Interrupted
    <2>2. CASE Kill /\ Crashed
      <3>1. torn' = (torn \/ open) /\ UNCHANGED <<file, onDisk>> /\ power' = power
        BY <2>2 DEF Crashed, Kill
      <3>. QED  BY <2>1, <3>1 DEF ConfigInv, EditsWhenUp, WhatIsWritten, Good, Editing, AtRest
    <2>3. CASE PowerFails /\ PowerCut
      <3>1. torn' = (torn \/ file' = <<>>) /\ file' \in onDisk /\ onDisk' = {file'}
        BY <2>3 DEF PowerCut
      <3>. QED  BY <2>1, <3>1 DEF ConfigInv, EditsWhenUp, WhatIsWritten, Good, Editing, AtRest
    <2>. QED  BY <1>9, <2>2, <2>3 DEF Dying
  <1>11. CASE WritesBack
    <2>1. CASE WriteBack /\ UNCHANGED configVars
      BY <1>1, <2>1 DEF WriteBack
    <2>2. CASE WrittenBack /\ UNCHANGED stateVars
      <3>1. onDisk' = {file} /\ UNCHANGED <<file, want, edit, plan, open, torn, original, phase, power>>
        BY <2>2 DEF WrittenBack, stateVars
      <3>. QED  BY <3>1 DEF ConfigInv, EditsWhenUp, WhatIsWritten, Good, AtRest
    <2>. QED  BY <1>11, <2>1, <2>2 DEF WritesBack
  <1>10. CASE UNCHANGED filesVars
    BY <1>1, <1>10 DEF filesVars, stateVars
  <1>. QED
    BY <1>2, <1>3, <1>4, <1>5, <1>6, <1>7, <1>8, <1>9, <1>10, <1>11 DEF FilesNext

\* The inductive invariant of the edits, with that of the state file.
THEOREM ConfigInvariant == FilesSpec => []ConfigInv
  <1>1. FilesSpec => []StateInv
    BY StateOfFiles, StateInvariant, PTL
  <1>. QED  BY <1>1, ConfigInvInit, ConfigInvNext, PTL DEF FilesSpec

\* The user's other settings stay where and as they were, for every file, whatever
\* is set up and however often it is interrupted, but for an interruption that leaves
\* the file empty and for what the parser does not keep (config_parser.py, sys_config.py).
THEOREM OthersAreKept == FilesSpec => []OthersKept
  <1>1. ConfigInv => OthersKept
    BY DEF ConfigInv, WhatIsWritten, Good, All, OthersKept
  <1>. QED  BY <1>1, ConfigInvariant, PTL

-----------------------------------------------------------------------------
\* The reboots that may still be asked for, and what is left to do in a file x.
Left == 1 + MostLines(original, Fkms) + cuts - asked

HasOf(x, overlay) == AnyHas(Load(x), Setting(overlay))
Switched(x) == HasOf(x, want) /\ (want = "kms" => ~HasOf(x, "fkms"))
Crowded(x) == want = "kms" /\ HasOf(x, "fkms")
ToDrive(x) == IF Driven(x) = x THEN 0 ELSE 1

\* n reboots are enough from file x on: for the drive only; for the drive and the
\* overlay; or for as many switches as [all] has lines of fkms, and for the drive.
Enough(x, n) ==
  \/ Switched(x) /\ n >= ToDrive(x)
  \/ ~Crowded(x) /\ n >= 2 + ToDrive(x)
  \/ Crowded(x) /\ n >= 2 /\ MostOf(Load(x), n - 1)

\* In the middle of a switch.
EnoughOnceAdded(x) == Left >= 2 /\ (want = "kms" => MostOf(Load(x), Left - 2))

FilesAreLines ==
  /\ original \in Seq(Line) /\ file \in Seq(Line) /\ onDisk \subseteq Seq(Line)
  /\ edit \in Editing => plan \in Seq(Line)
  /\ asked \in Nat /\ cuts \in Nat

\* A power failure may take back the edits since the file was on disk, and with them
\* the reboot that has been asked for after the last.
Slack == IF edit = "due" THEN 2 ELSE 1

\* Until the file has been written for a reboot, what is to be written is enough.
RebootsInv ==
  /\ FilesAreLines
  /\ open => file = <<>>
  /\ ~open /\ edit \notin {"commented", "add"} => Enough(file, Left)
  /\ ~open /\ edit \in {"commented", "add"} => EnoughOnceAdded(file)
  /\ edit \in {"comment", "add"} => EnoughOnceAdded(plan)
  /\ edit = "add" => HasOf(plan, want)
  /\ edit = "hdmi" => Left >= 1 /\ Enough(plan, Left - 1)
  /\ \A lines \in onDisk : Enough(lines, Left + Slack)

LEMMA LeftIs == FilesAreLines => Left \in Int /\ MostLines(original, Fkms) \in Nat /\ MostLines(original, Fkms) >= 2
  BY MostAtFirst DEF FilesAreLines, Left

\* With more reboots left, less is to be shown.
LEMMA EnoughIsMore ==
  ASSUME NEW x \in Seq(Line), NEW m \in Int, NEW n \in Int, m <= n, Enough(x, m)
  PROVE  Enough(x, n) /\ m >= 0
  <1>1. ToDrive(x) \in {0, 1} /\ Load(x) \in Seq(ASection)
    BY LoadKeeps DEF ToDrive
  <1>2. CASE Switched(x) /\ m >= ToDrive(x)
    BY <1>1, <1>2 DEF Enough
  <1>3. CASE ~Crowded(x) /\ m >= 2 + ToDrive(x)
    BY <1>1, <1>3 DEF Enough
  <1>4. CASE Crowded(x) /\ m >= 2 /\ MostOf(Load(x), m - 1)
    <2>1. m - 1 \in Nat /\ n - 1 \in Nat /\ m - 1 <= n - 1
      BY <1>4
    <2>2. MostOf(Load(x), n - 1)
      BY <1>1, <1>4, <2>1, NoneOf
    <2>. QED  BY <1>4, <2>2 DEF Enough
  <1>. QED  BY <1>2, <1>3, <1>4 DEF Enough

LEMMA EnoughAtFirst ==
  ASSUME NEW x \in Seq(Line), NEW n \in Int, n >= 3, Crowded(x) => MostOf(Load(x), n - 1)
  PROVE  Enough(x, n)
  <1>1. ToDrive(x) \in {0, 1}
    BY DEF ToDrive
  <1>. QED  BY <1>1 DEF Enough

\* In a truncated file there is nothing to switch, and no drive to set.
LEMMA EnoughOfNothing == ASSUME NEW n \in Int, n >= 2 PROVE Enough(<<>>, n)
  <1>. DEFINE e == <<>>
  <1>1. e \in Seq(Line)
    OBVIOUS
  <1>2. \A line \in SettingLine : ~AnyHas(Load(e), line)
    <2>1. ~ \E k \in 1..Len(e) : TRUE
      OBVIOUS
    <2>. HIDE DEF e
    <2>2. \A line \in SettingLine : ~Found(e, line, Len(e))
      BY <2>1 DEF Found
    <2>. QED  BY <1>1, <2>2, LoadFinds
  <1>3. Driven(e) = e
    BY DEF Driven
  <1>. HIDE DEF e
  <1>4. ~Crowded(e)
    BY <1>2, OverlaySettings DEF Crowded, HasOf
  <1>5. ToDrive(e) = 0
    BY <1>3 DEF ToDrive
  <1>. QED  BY <1>4, <1>5 DEF Enough, e

LEMMA RebootsInvInit == FilesInit => RebootsInv
  <1>. SUFFICES ASSUME FilesInit PROVE RebootsInv
    OBVIOUS
  <1>1. /\ file \in Seq(Line) /\ original = file /\ edit = "check" /\ open = FALSE /\ asked = 0 /\ cuts = 0
        /\ onDisk = {file}
    BY ConfigAssumption DEF FilesInit, ConfigInit
  <1>2. FilesAreLines
    BY <1>1 DEF FilesAreLines, Editing
  <1>. DEFINE m == MostLines(original, Fkms)
  <1>3. m \in Nat /\ m >= 2 /\ MostOf(Load(file), m) /\ Load(file) \in Seq(ASection)
    BY <1>1, MostAtFirst, LoadKeeps
  <1>. HIDE DEF m
  <1>4. Left = 1 + m
    BY <1>1, <1>3 DEF Left, m
  <1>5. MostOf(Load(file), (1 + m) - 1)
    <2>1. (1 + m) - 1 \in Nat /\ m <= (1 + m) - 1
      BY <1>3
    <2>. QED  BY <1>3, <2>1, NoneOf
  <1>6. Enough(file, 1 + m)
    <2>1. 1 + m \in Int /\ 1 + m >= 3
      BY <1>3
    <2>. QED  BY <1>1, <1>5, <2>1, EnoughAtFirst
  <1>7. Enough(file, (1 + m) + 1)
    <2>1. 1 + m \in Int /\ (1 + m) + 1 \in Int /\ 1 + m <= (1 + m) + 1
      BY <1>3
    <2>. QED  BY <1>1, <1>6, <2>1, EnoughIsMore
  <1>. QED  BY <1>1, <1>2, <1>4, <1>6, <1>7 DEF RebootsInv, Slack

\* What current_video_overlay tells of the file.
LEMMA OverlayIs ==
  ASSUME want \in Overlay
  PROVE  /\ Other(want) \in Overlay /\ Other(want) # want /\ (want = "kms" => Other(want) = "fkms")
         /\ Switched(file) => CurrentOverlay = want
         /\ Crowded(file) => CurrentOverlay = Other(want)
  <1>1. Other(want) \in Overlay /\ Other(want) # want
    <2>1. \E o \in Overlay : o # want
      BY DEF Overlay
    <2>. QED  BY <2>1 DEF Other
  <1>2. want = "kms" => Other(want) = "fkms"
    BY <1>1 DEF Overlay
  <1>3. CurrentOverlay = IF HasOf(file, "fkms") THEN "fkms" ELSE IF HasOf(file, "kms") THEN "kms" ELSE running
    BY Zenon DEF CurrentOverlay, HasOf
  <1>4. want = "kms" \/ want = "fkms"
    BY DEF Overlay
  <1>. QED  BY <1>1, <1>2, <1>3, <1>4 DEF Switched, Crowded

\* What each edit leaves to do.
LEMMA CommentLeaves ==
  ASSUME FilesAreLines, want \in Overlay, Enough(file, Left), CurrentOverlay = Other(want)
  PROVE  /\ Commented(file, Setting(Other(want))) \in Seq(Line)
         /\ EnoughOnceAdded(Commented(file, Setting(Other(want))))
  <1>. DEFINE x == Commented(file, Setting(Other(want)))
  <1>1. /\ file \in Seq(Line) /\ Left \in Int /\ ToDrive(file) \in {0, 1} /\ Load(file) \in Seq(ASection)
        /\ Other(want) \in Overlay /\ Other(want) # want /\ ~Switched(file)
    BY LeftIs, OverlayIs, LoadKeeps DEF FilesAreLines, ToDrive
  <1>2. x \in Seq(Line)
    BY <1>1, CommentedKeeps DEF Kept
  <1>3. Left >= 2
    BY <1>1 DEF Enough
  <1>4. ASSUME want = "kms" PROVE MostOf(Load(x), Left - 2)
    <2>. DEFINE m == Left - 2
    <2>1. x = Commented(file, Fkms) /\ m \in Nat
      BY <1>1, <1>3, <1>4, OverlayIs DEF Fkms
    <2>2. CASE Crowded(file)
      <3>1. MostOf(Load(file), m + 1)
        <4>1. Left - 1 = m + 1
          BY <1>1
        <4>. QED  BY <2>2, <4>1, <1>1 DEF Enough
      <3>. HIDE DEF m
      <3>2. MostOf(Load(Commented(file, Fkms)), m)
        BY <1>1, <2>1, <3>1, CommentedMost
      <3>. QED  BY <2>1, <3>2 DEF m
    <2>3. CASE ~Crowded(file)
      <3>1. MostOf(Load(file), 0)
        BY <1>1, <1>4, <2>3, NoneOf DEF Crowded, HasOf, Fkms
      <3>. HIDE DEF m
      <3>2. m + 1 \in Nat /\ 0 <= m + 1
        BY <2>1
      <3>3. MostOf(Load(file), m + 1)
        BY <1>1, <3>1, <3>2, NoneOf
      <3>4. MostOf(Load(Commented(file, Fkms)), m)
        BY <1>1, <2>1, <3>3, CommentedMost
      <3>. QED  BY <2>1, <3>4 DEF m
    <2>. QED  BY <2>2, <2>3
  <1>. QED  BY <1>2, <1>3, <1>4 DEF EnoughOnceAdded

LEMMA DriveLeaves ==
  ASSUME FilesAreLines, want \in Overlay, Enough(file, Left), CurrentOverlay # Other(want), Driven(file) # file
  PROVE  Driven(file) \in Seq(Line) /\ Left >= 1 /\ Enough(Driven(file), Left - 1)
  <1>. DEFINE g == Driven(file)
  <1>1. /\ file \in Seq(Line) /\ Left \in Int /\ g \in Seq(Line) /\ Driven(g) = g
        /\ ToDrive(file) = 1 /\ ~Crowded(file)
    BY LeftIs, DrivenIs, OverlayIs DEF FilesAreLines, ToDrive
  <1>2. ToDrive(g) = 0
    BY <1>1 DEF ToDrive
  <1>3. \A o \in Overlay : HasOf(g, o) <=> HasOf(file, o)
    BY <1>1, DrivenFinds DEF HasOf
  <1>. HIDE DEF g
  <1>4. (Switched(g) <=> Switched(file)) /\ (Crowded(g) <=> Crowded(file))
    BY <1>3, OverlaySettings DEF Switched, Crowded
  <1>5. Enough(g, Left - 1) /\ Left >= 1
    BY <1>1, <1>2, <1>4 DEF Enough
  <1>. QED  BY <1>1, <1>5 DEF g

LEMMA AddLeaves ==
  ASSUME FilesAreLines, want \in Overlay, EnoughOnceAdded(file)
  PROVE  LET x == Added(file, Setting(want)) IN x \in Seq(Line) /\ EnoughOnceAdded(x) /\ HasOf(x, want)
  <1>. DEFINE x == Added(file, Setting(want))
  <1>1. file \in Seq(Line) /\ Left \in Int /\ Left >= 2 /\ Left - 2 \in Nat
    BY LeftIs DEF FilesAreLines, EnoughOnceAdded
  <1>2. x \in Seq(Line)
    BY <1>1, AddedKeeps DEF Kept
  <1>3. HasOf(x, want)
    BY <1>1, AddedMost DEF HasOf
  <1>4. want = "kms" => MostOf(Load(x), Left - 2)
    BY <1>1, AddedMost DEF EnoughOnceAdded
  <1>. QED  BY <1>1, <1>2, <1>3, <1>4 DEF EnoughOnceAdded

LEMMA AddedLeaves ==
  ASSUME FilesAreLines, want \in Overlay, NEW x \in Seq(Line), EnoughOnceAdded(x), HasOf(x, want)
  PROVE  Enough(x, Left - 1)
  <1>1. Left \in Int /\ Left >= 2 /\ ToDrive(x) \in {0, 1} /\ Load(x) \in Seq(ASection)
    BY LeftIs, LoadKeeps DEF EnoughOnceAdded, ToDrive
  <1>2. CASE ~Crowded(x)
    <2>1. Switched(x)
      BY <1>2 DEF Switched, Crowded
    <2>. QED  BY <1>1, <2>1 DEF Enough
  <1>3. CASE Crowded(x)
    <2>1. MostOf(Load(x), Left - 2) /\ AnyHas(Load(x), Fkms) /\ Left - 2 \in Nat
      BY <1>1, <1>3 DEF Crowded, EnoughOnceAdded, HasOf, Fkms
    <2>2. Left - 2 >= 1
      BY <1>1, <2>1, NoneOf
    <2>3. Left - 1 >= 2 /\ (Left - 1) - 1 = Left - 2
      BY <1>1, <2>2
    <2>. QED  BY <1>3, <2>1, <2>3 DEF Enough
  <1>. QED  BY <1>2, <1>3

\* In the middle of a switch one reboot more is enough.
LEMMA OnceAddedIsEnough ==
  ASSUME NEW x \in Seq(Line), EnoughOnceAdded(x), Left \in Int
  PROVE  Enough(x, Left + 1)
  <1>1. Left >= 2 /\ Left - 2 \in Nat /\ Left \in Nat /\ Left - 2 <= Left
    BY DEF EnoughOnceAdded
  <1>2. Crowded(x) => MostOf(Load(x), (Left + 1) - 1)
    <2>1. Load(x) \in Seq(ASection) /\ (Left + 1) - 1 = Left
      BY LoadKeeps
    <2>2. Crowded(x) => MostOf(Load(x), Left)
      BY <1>1, <2>1, NoneOf DEF Crowded, EnoughOnceAdded
    <2>. QED  BY <2>1, <2>2
  <1>3. Left + 1 \in Int /\ Left + 1 >= 3
    BY <1>1
  <1>. QED  BY <1>2, <1>3, EnoughAtFirst

\* From what is in the file, with one reboot more, there is always enough.
LEMMA EnoughRemains ==
  ASSUME RebootsInv, ConfigInv
  PROVE  /\ Left >= 0
         /\ open => Enough(<<>>, Left + 1)
         /\ ~open => Enough(file, Left + 1)
  <1>1. /\ Left \in Int /\ file \in Seq(Line) /\ edit \in Editing \cup {"check", "commented", "due", "done"}
        /\ open => edit \in Editing
    BY LeftIs DEF RebootsInv, FilesAreLines, ConfigInv, EditsWhenUp
  <1>2. CASE open
    <2>1. Left >= 1
      BY <1>1, <1>2 DEF RebootsInv, EnoughOnceAdded, Editing
    <2>. QED  BY <1>1, <1>2, <2>1, EnoughOfNothing
  <1>3. CASE ~open /\ edit \notin {"commented", "add"}
    <2>1. Enough(file, Left) /\ Left + 1 \in Int /\ Left <= Left + 1
      BY <1>1, <1>3 DEF RebootsInv
    <2>. QED  BY <1>1, <1>3, <2>1, EnoughIsMore
  <1>4. CASE ~open /\ edit \in {"commented", "add"}
    <2>1. EnoughOnceAdded(file) /\ Left >= 0
      BY <1>1, <1>4 DEF RebootsInv, EnoughOnceAdded
    <2>. QED  BY <1>1, <1>4, <2>1, OnceAddedIsEnough
  <1>. QED  BY <1>2, <1>3, <1>4

\* What may be on disk is enough with more reboots left, if nothing else changes.
LEMMA DiskIsEnough ==
  ASSUME FilesAreLines, NEW v \in onDisk, NEW m \in Int, Left + Slack <= m, Enough(v, Left + Slack)
  PROVE  Enough(v, m)
  <1>1. v \in Seq(Line) /\ Left + Slack \in Int
    BY LeftIs DEF FilesAreLines, Slack
  <1>. QED  BY <1>1, EnoughIsMore

\* The peripheral manager's thread keeps the invariant, and so do all the others.
LEMMA SetupLeaves == ConfigInv /\ RebootsInv /\ Setup => RebootsInv'
  <1>. SUFFICES ASSUME ConfigInv, RebootsInv, Setup PROVE RebootsInv'
    OBVIOUS
  <1>0. /\ want \in Overlay /\ edit \in Editing \cup {"check", "commented", "due", "done"}
        /\ open => edit \in Editing
        /\ Left \in Int
    BY LeftIs DEF ConfigInv, EditsWhenUp, RebootsInv
  <1>1. CASE Check
    <2>1. /\ edit = "check" /\ ~open /\ UNCHANGED <<file, want, open, asked, cuts, onDisk, original>>
          /\ FilesAreLines /\ Enough(file, Left)
      BY <1>0, <1>1 DEF Check, Editing, RebootsInv
    <2>2. Left' = Left /\ Enough(file, Left)'
      BY <2>1 DEF Left, Enough, Switched, Crowded, HasOf, ToDrive
    <2>7. edit' # "due" => \A lines \in onDisk' : Enough(lines, Left + Slack)'
      <3>. SUFFICES ASSUME edit' # "due" PROVE \A lines \in onDisk : Enough(lines, Left + Slack)'
        BY <2>1
      <3>1. Slack' = Slack
        BY <2>1 DEF Slack
      <3>. QED  BY <2>1, <2>2, <3>1 DEF RebootsInv, Enough, Switched, Crowded, HasOf, ToDrive
    <2>3. CASE CurrentOverlay = Other(want) /\ edit' = "comment" /\ plan' = Commented(file, Setting(Other(want)))
      <3>1. plan' \in Seq(Line) /\ EnoughOnceAdded(plan')
        BY <1>0, <2>1, <2>3, CommentLeaves
      <3>2. EnoughOnceAdded(plan)'
        BY <2>1, <2>2, <3>1 DEF EnoughOnceAdded
      <3>. QED  BY <2>1, <2>2, <2>3, <2>7, <3>1, <3>2 DEF RebootsInv, FilesAreLines
    <2>4. CASE CurrentOverlay # Other(want) /\ Driven(file) # file /\ edit' = "hdmi" /\ plan' = Driven(file)
      <3>1. plan' \in Seq(Line) /\ Left >= 1 /\ Enough(plan', Left - 1)
        BY <1>0, <2>1, <2>4, DriveLeaves
      <3>2. Enough(plan, Left - 1)'
        BY <2>1, <2>2, <3>1 DEF Enough, Switched, Crowded, HasOf, ToDrive
      <3>. QED  BY <2>1, <2>2, <2>4, <2>7, <3>1, <3>2 DEF RebootsInv, FilesAreLines
    <2>5. CASE edit' = "done"
      BY <2>1, <2>2, <2>5, <2>7 DEF RebootsInv, FilesAreLines, Editing
    <2>6. \/ CurrentOverlay = Other(want) /\ edit' = "comment" /\ plan' = Commented(file, Setting(Other(want)))
          \/ CurrentOverlay # Other(want) /\ Driven(file) # file /\ edit' = "hdmi" /\ plan' = Driven(file)
          \/ edit' = "done"
      BY <1>1, Zenon DEF Check
    <2>. QED  BY <2>3, <2>4, <2>5, <2>6
  <1>2. CASE Add
    <2>1. /\ edit = "commented" /\ ~open /\ UNCHANGED <<file, want, open, asked, cuts, onDisk, original>>
          /\ FilesAreLines /\ EnoughOnceAdded(file)
          /\ edit' = "add" /\ plan' = Added(file, Setting(want))
      BY <1>0, <1>2 DEF Add, Editing, RebootsInv
    <2>2. plan' \in Seq(Line) /\ EnoughOnceAdded(plan') /\ HasOf(plan', want)
      BY <1>0, <2>1, AddLeaves
    <2>3. Left' = Left
      BY <2>1 DEF Left
    <2>4. EnoughOnceAdded(plan)' /\ EnoughOnceAdded(file)' /\ HasOf(plan, want)'
      BY <2>1, <2>2, <2>3 DEF EnoughOnceAdded, HasOf
    <2>5. \A lines \in onDisk' : Enough(lines, Left + Slack)'
      <3>1. Slack' = Slack
        BY <2>1 DEF Slack
      <3>. QED  BY <2>1, <2>3, <3>1 DEF RebootsInv, Enough, Switched, Crowded, HasOf, ToDrive
    <2>. QED  BY <2>1, <2>2, <2>3, <2>4, <2>5 DEF RebootsInv, FilesAreLines
  <1>3. CASE OpenFile
    <2>1. /\ edit \in Editing /\ ~open /\ open' = TRUE /\ file' = <<>>
          /\ onDisk' = onDisk \cup {<<>>}
          /\ UNCHANGED <<want, edit, plan, asked, cuts, original>>
      BY <1>3 DEF OpenFile, Editing
    <2>2. Left' = Left /\ FilesAreLines'
      <3>1. <<>> \in Seq(Line) /\ FilesAreLines
        BY DEF RebootsInv
      <3>2. file' \in Seq(Line) /\ onDisk' \subseteq Seq(Line)
        BY <2>1, <3>1 DEF FilesAreLines
      <3>. QED  BY <2>1, <3>1, <3>2 DEF Left, FilesAreLines
    <2>3. edit \in {"comment", "add"} => EnoughOnceAdded(plan)'
      BY <2>1, <2>2 DEF RebootsInv, EnoughOnceAdded
    <2>4. edit = "add" => HasOf(plan, want)'
      BY <2>1 DEF RebootsInv, HasOf
    <2>5. edit = "hdmi" => Left >= 1 /\ Enough(plan, Left - 1)'
      BY <2>1, <2>2 DEF RebootsInv, Enough, Switched, Crowded, HasOf, ToDrive
    <2>6. \A lines \in onDisk' : Enough(lines, Left + Slack)'
      <3>1. Slack = 1 /\ Slack' = 1 /\ Left >= 1
        BY <1>0, <2>1 DEF Slack, Editing, RebootsInv, EnoughOnceAdded
      <3>2. Enough(<<>>, Left + 1)
        BY <1>0, <3>1, EnoughOfNothing
      <3>. QED  BY <2>1, <2>2, <3>1, <3>2 DEF RebootsInv, Enough, Switched, Crowded, HasOf, ToDrive
    <2>. QED  BY <2>1, <2>2, <2>3, <2>4, <2>5, <2>6 DEF RebootsInv
  <1>4. CASE WriteFile
    <2>1. /\ open /\ edit \in Editing /\ open' = FALSE /\ file' = plan /\ plan \in Seq(Line)
          /\ UNCHANGED <<want, cuts, original>> /\ FilesAreLines /\ onDisk' = onDisk \cup {plan}
          /\ edit = "comment" => edit' = "commented" /\ asked' = asked
          /\ edit # "comment" => edit' = "due" /\ asked' = asked + 1
      BY <1>0, <1>4 DEF WriteFile, RebootsInv, FilesAreLines
    <2>2. FilesAreLines' /\ edit' \notin Editing
      BY <2>1 DEF FilesAreLines, Editing
    <2>3. CASE edit = "comment"
      <3>1. Left' = Left /\ EnoughOnceAdded(plan)
        BY <2>1, <2>3 DEF Left, RebootsInv
      <3>2. EnoughOnceAdded(file)'
        BY <2>1, <3>1 DEF EnoughOnceAdded
      <3>3. Slack = 1 /\ Slack' = 1
        BY <2>1, <2>3 DEF Slack
      <3>4. Enough(plan, Left + 1)
        BY <1>0, <2>1, <3>1, OnceAddedIsEnough
      <3>5. \A lines \in onDisk' : Enough(lines, Left + Slack)'
        BY <2>1, <3>1, <3>3, <3>4 DEF RebootsInv, Enough, Switched, Crowded, HasOf, ToDrive
      <3>. QED  BY <2>1, <2>2, <2>3, <3>2, <3>5 DEF RebootsInv, Editing
    <2>4. CASE edit \in {"add", "hdmi"}
      <3>1. Left' = Left - 1
        <4>1. asked \in Int /\ cuts \in Int /\ MostLines(original, Fkms) \in Int
          BY <2>1, LeftIs DEF FilesAreLines
        <4>. DEFINE m == MostLines(original, Fkms)
        <4>2. m' = m /\ asked' = asked + 1 /\ cuts' = cuts /\ m \in Int
          BY <2>1, <2>4, <4>1
        <4>3. Left = 1 + m + cuts - asked /\ Left' = 1 + m' + cuts' - asked'
          BY DEF Left
        <4>. HIDE DEF m
        <4>. QED  BY <4>1, <4>2, <4>3
      <3>2. Enough(plan, Left - 1)
        <4>1. CASE edit = "add"
          BY <1>0, <2>1, <4>1, AddedLeaves DEF RebootsInv
        <4>2. CASE edit = "hdmi"
          BY <4>2 DEF RebootsInv
        <4>. QED  BY <2>4, <4>1, <4>2
      <3>3. Enough(file, Left)'
        BY <2>1, <3>1, <3>2 DEF Enough, Switched, Crowded, HasOf, ToDrive
      <3>4. Slack = 1 /\ Slack' = 2 /\ Left' + Slack' = Left + 1
        BY <1>0, <2>1, <2>4, <3>1 DEF Slack
      <3>5. Enough(plan, Left + 1)
        <4>1. Left - 1 \in Int /\ Left + 1 \in Int /\ Left - 1 <= Left + 1
          BY <1>0
        <4>. QED  BY <2>1, <3>2, <4>1, EnoughIsMore
      <3>6. \A lines \in onDisk' : Enough(lines, Left + Slack)'
        BY <2>1, <3>4, <3>5 DEF RebootsInv, Enough, Switched, Crowded, HasOf, ToDrive
      <3>. QED  BY <2>1, <2>2, <2>4, <3>3, <3>6 DEF RebootsInv, Editing
    <2>. QED  BY <2>1, <2>3, <2>4 DEF Editing
  <1>. QED  BY <1>1, <1>2, <1>3, <1>4 DEF Setup

\* Each interruption adds to what may be asked for.
LEMMA CutsLeave ==
  ASSUME FilesAreLines, NEW n \in Int, cuts' = cuts + n, UNCHANGED <<asked, original>>
  PROVE  Left' = Left + n
  <1>. DEFINE m == MostLines(original, Fkms)
  <1>1. m' = m /\ m \in Int /\ asked \in Int /\ cuts \in Int
    BY LeftIs DEF FilesAreLines
  <1>2. Left = 1 + m + cuts - asked /\ Left' = 1 + m' + cuts' - asked'
    BY DEF Left
  <1>. HIDE DEF m
  <1>. QED  BY <1>1, <1>2

LEMMA RebootsInvNext == StateInv /\ ConfigInv /\ RebootsInv /\ [FilesNext]_filesVars => RebootsInv'
  <1>. SUFFICES ASSUME StateInv, ConfigInv, RebootsInv, [FilesNext]_filesVars PROVE RebootsInv'
    OBVIOUS
  <1>1. ASSUME UNCHANGED configVars PROVE RebootsInv'
    <2>1. UNCHANGED <<file, want, edit, plan, open, asked, cuts, onDisk, original>>
      BY <1>1 DEF configVars
    <2>2. Left' = Left /\ FilesAreLines' = FilesAreLines /\ Slack' = Slack
      BY <2>1 DEF Left, FilesAreLines, Slack
    <2>3. /\ Enough(file, Left)' = Enough(file, Left)
          /\ Enough(plan, Left - 1)' = Enough(plan, Left - 1)
          /\ EnoughOnceAdded(file)' = EnoughOnceAdded(file)
          /\ EnoughOnceAdded(plan)' = EnoughOnceAdded(plan)
          /\ HasOf(plan, want)' = HasOf(plan, want)
          /\ \A lines \in onDisk' : Enough(lines, Left + Slack)'
      BY <2>1, <2>2 DEF RebootsInv, Enough, Switched, Crowded, HasOf, ToDrive, EnoughOnceAdded
    <2>. QED  BY <2>1, <2>2, <2>3 DEF RebootsInv
  <1>2. CASE MainSteps \/ SetSteps \/ RequestSteps \/ GoesDown
    BY <1>1, <1>2 DEF MainSteps, SetSteps, RequestSteps, GoesDown
  <1>3. CASE PeripheralSteps
    BY <1>1, <1>3, SetupLeaves DEF PeripheralSteps
  <1>4. CASE Boots
    <2>1. phase = "ended"
      BY <1>4 DEF Boots, Boot, StateInv, WritesWhenUp
    <2>2. ~open /\ edit \in {"check", "due", "done"}
      BY <2>1 DEF ConfigInv, EditsWhenUp, AtRest, Editing
    <2>3. edit' = "check" /\ UNCHANGED <<file, want, plan, open, asked, cuts, onDisk, original>>
          /\ onDisk = {file}
      BY <1>4 DEF Boots, Reboot, Boot, ConfigInv, EditsWhenUp
    <2>4. FilesAreLines' /\ Left' = Left
      BY <2>3 DEF RebootsInv, FilesAreLines, Left, Editing
    <2>5. Enough(file, Left)'
      BY <2>2, <2>3, <2>4 DEF RebootsInv, Enough, Switched, Crowded, HasOf, ToDrive
    <2>6. \A lines \in onDisk' : Enough(lines, Left + Slack)'
      <3>1. Enough(file, Left + 1)
        BY <2>2, EnoughRemains
      <3>2. Slack' = 1
        BY <2>3 DEF Slack
      <3>. QED  BY <2>3, <2>4, <3>1, <3>2 DEF Enough, Switched, Crowded, HasOf, ToDrive
    <2>. QED  BY <2>2, <2>3, <2>4, <2>5, <2>6 DEF RebootsInv
  <1>0. Left \in Int /\ Slack \in {1, 2} /\ FilesAreLines
    BY LeftIs DEF RebootsInv, Slack
  <1>5. CASE Kill /\ Crashed
    <2>1. /\ edit' = "check" /\ open' = FALSE /\ cuts' = cuts + 1
          /\ UNCHANGED <<file, want, asked, onDisk, original>>
      BY <1>5 DEF Crashed, Interrupted
    <2>2. FilesAreLines'
      BY <1>0, <2>1 DEF FilesAreLines, Editing
    <2>3. Left' = Left + 1
      <3>1. cuts \in Int
        BY <1>0 DEF FilesAreLines
      <3>. QED  BY <1>0, <2>1, <3>1, CutsLeave
    <2>4. Enough(file, Left)'
      <3>1. Enough(file, Left + 1)
        BY EnoughRemains DEF RebootsInv
      <3>. QED  BY <2>1, <2>3, <3>1 DEF Enough, Switched, Crowded, HasOf, ToDrive
    <2>5. \A lines \in onDisk' : Enough(lines, Left + Slack)'
      <3>1. Slack' = 1 /\ (Left + 1) + 1 \in Int /\ Left + Slack <= (Left + 1) + 1
        BY <1>0, <2>1 DEF Slack
      <3>2. \A lines \in onDisk : Enough(lines, (Left + 1) + 1)
        BY <1>0, <3>1, DiskIsEnough DEF RebootsInv
      <3>. QED  BY <2>1, <2>3, <3>1, <3>2 DEF Enough, Switched, Crowded, HasOf, ToDrive
    <2>. QED  BY <2>1, <2>2, <2>4, <2>5 DEF RebootsInv
  <1>7. CASE PowerFails /\ PowerCut
    <2>1. /\ edit' = "check" /\ open' = FALSE /\ cuts' = cuts + 2
          /\ file' \in onDisk /\ onDisk' = {file'} /\ UNCHANGED <<want, asked, original>>
      BY <1>7 DEF PowerCut, Interrupted
    <2>2. FilesAreLines'
      BY <1>0, <2>1 DEF FilesAreLines, Editing
    <2>3. Left' = Left + 2
      <3>1. cuts \in Int
        BY <1>0 DEF FilesAreLines
      <3>. QED  BY <1>0, <2>1, <3>1, CutsLeave
    <2>4. Enough(file', Left + 2) /\ Enough(file', (Left + 2) + 1)
      <3>1. Left + 2 \in Int /\ Left + Slack <= Left + 2
            /\ (Left + 2) + 1 \in Int /\ Left + Slack <= (Left + 2) + 1
        BY <1>0
      <3>. QED  BY <1>0, <2>1, <3>1, DiskIsEnough DEF RebootsInv
    <2>5. Slack' = 1
      BY <2>1 DEF Slack
    <2>6. Enough(file, Left)' /\ \A lines \in onDisk' : Enough(lines, Left + Slack)'
      BY <2>1, <2>3, <2>4, <2>5 DEF Enough, Switched, Crowded, HasOf, ToDrive
    <2>. QED  BY <2>1, <2>2, <2>6 DEF RebootsInv
  <1>8. CASE WrittenBack
    <2>1. onDisk' = {file} /\ UNCHANGED <<file, want, edit, plan, open, asked, cuts, original>>
      BY <1>8 DEF WrittenBack
    <2>2. Left' = Left /\ FilesAreLines' /\ Slack' = Slack
      BY <1>0, <2>1 DEF Left, FilesAreLines, Slack
    <2>3. /\ Enough(file, Left)' = Enough(file, Left)
          /\ Enough(plan, Left - 1)' = Enough(plan, Left - 1)
          /\ EnoughOnceAdded(file)' = EnoughOnceAdded(file)
          /\ EnoughOnceAdded(plan)' = EnoughOnceAdded(plan)
          /\ HasOf(plan, want)' = HasOf(plan, want)
      BY <2>1, <2>2 DEF Enough, Switched, Crowded, HasOf, ToDrive, EnoughOnceAdded
    <2>4. Enough(file, Left + Slack)
      <3>1. Enough(file, Left + 1)
        BY EnoughRemains DEF RebootsInv
      <3>2. file \in Seq(Line) /\ Left + 1 \in Int /\ Left + Slack \in Int /\ Left + 1 <= Left + Slack
        BY <1>0 DEF FilesAreLines
      <3>. QED  BY <3>1, <3>2, EnoughIsMore
    <2>5. \A lines \in onDisk' : Enough(lines, Left + Slack)'
      BY <2>1, <2>2, <2>4 DEF Enough, Switched, Crowded, HasOf, ToDrive
    <2>. QED  BY <2>1, <2>2, <2>3, <2>5 DEF RebootsInv
  <1>9. CASE Stops \/ WritesBack
    <2>1. UNCHANGED configVars \/ WrittenBack
      BY <1>9 DEF Stops, WritesBack
    <2>. QED  BY <1>1, <1>8, <2>1
  <1>6. CASE UNCHANGED filesVars
    BY <1>1, <1>6 DEF filesVars
  <1>. QED  BY <1>2, <1>3, <1>4, <1>5, <1>6, <1>7, <1>9 DEF FilesNext, Dying

\* For every file, the setup of a speaker asks for three reboots at most, or for one
\* and as many as one section has lines of fkms, and for one more after each crash and
\* two after each power failure (ptspeaker.py, sys_config.py).
THEOREM RebootsAreBounded == FilesSpec => []RebootsBounded
  <1>1. FilesSpec => []StateInv /\ []ConfigInv
    BY StateOfFiles, StateInvariant, ConfigInvariant, PTL
  <1>2. ConfigInv /\ RebootsInv => RebootsBounded
    <2>. SUFFICES ASSUME ConfigInv, RebootsInv PROVE RebootsBounded
      OBVIOUS
    <2>. DEFINE m == MostLines(original, Fkms)
    <2>1. Left >= 0
      BY EnoughRemains
    <2>2. m \in Int /\ asked \in Int /\ cuts \in Int /\ Left = 1 + m + cuts - asked
      BY LeftIs DEF RebootsInv, FilesAreLines, Left
    <2>. HIDE DEF m
    <2>3. asked <= 1 + m + cuts
      BY <2>1, <2>2
    <2>. QED  BY <2>3 DEF RebootsBounded, m, Fkms
  <1>. QED  BY <1>1, <1>2, RebootsInvInit, RebootsInvNext, PTL DEF FilesSpec
=============================================================================

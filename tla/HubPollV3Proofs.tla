-------------------------- MODULE HubPollV3Proofs --------------------------
(***************************************************************************)
(* Proofs about the polling loop of the third hub: how long the polling is *)
(* fast, for all periods and limits.                                       *)
(***************************************************************************)
EXTENDS HubPollV3, TLAPS

\* The part of the type invariant that the proofs use: the counters of
\* check_button_pressed_recently.
CounterOK ==
    /\ recently \in BOOLEAN
    /\ fastCounter \in Nat
    /\ sincePress \in 0..Limit

\* The count of the fast loops is one more than the loops since the press.
CountFollows ==
    /\ recently <=> sincePress < Limit - 1
    /\ recently => fastCounter = sincePress + 1

\* The inductive invariant.
IInv == CounterOK /\ CountFollows

\* The invariant holds when HubConnection.start is called.
LEMMA InitIInv == Init => IInv
<1> SUFFICES ASSUME Init PROVE IInv
  OBVIOUS
<1>1. recently = FALSE /\ fastCounter = 0 /\ sincePress = Limit
  BY DEF Init
<1>2. sincePress \in 0..Limit /\ ~(sincePress < Limit - 1) /\ fastCounter \in Nat
  BY <1>1, PollAssumption
<1> QED BY <1>1, <1>2, Zenon DEF IInv, CounterOK, CountFollows

\* check_button_pressed_recently keeps the two counts together.
LEMMA CheckIInv == CounterOK /\ CountFollows /\ Check => (CounterOK /\ CountFollows)'
<1> SUFFICES ASSUME CounterOK, CountFollows, Check PROVE (CounterOK /\ CountFollows)'
  OBVIOUS
<1> DEFINE wasRecent == recently \/ PressedNow
           before == IF PressedNow THEN 0 ELSE fastCounter
<1>1. /\ fastCounter' = IF wasRecent THEN before + 1 ELSE 0
      /\ recently' = (wasRecent /\ fastCounter' < Limit)
      /\ sincePress' = IF PressedNow THEN 0 ELSE IF sincePress < Limit THEN sincePress + 1 ELSE Limit
  BY DEF Check
<1>2. recently \in BOOLEAN /\ recently' \in BOOLEAN /\ PressedNow \in BOOLEAN
  BY <1>1 DEF CounterOK, PressedNow
<1>3. CASE PressedNow
  <2>1. fastCounter' = 1 /\ sincePress' = 0
    BY <1>1, <1>3
  <2>2. recently' <=> 1 < Limit
    BY <1>1, <1>3, <2>1, Zenon
  <2> QED BY <1>2, <2>1, <2>2, PollAssumption DEF CounterOK, CountFollows
<1>4. CASE ~PressedNow /\ recently
  <2>1. fastCounter' = fastCounter + 1 /\ fastCounter = sincePress + 1 /\ sincePress < Limit - 1
    BY <1>1, <1>4 DEF CountFollows
  <2>2. recently' <=> fastCounter' < Limit
    BY <1>1, <1>4, Zenon
  <2>3. sincePress' = sincePress + 1
    BY <1>1, <1>4, <2>1, PollAssumption DEF CounterOK
  <2> QED BY <1>2, <2>1, <2>2, <2>3, PollAssumption DEF CounterOK, CountFollows
<1>5. CASE ~PressedNow /\ ~recently
  <2>1. fastCounter' = 0 /\ recently' = FALSE
    BY <1>1, <1>5
  <2>2. sincePress \in 0..Limit /\ ~(sincePress < Limit - 1)
    BY <1>5 DEF CounterOK, CountFollows
  <2>3. sincePress' = IF sincePress < Limit THEN sincePress + 1 ELSE Limit
    BY <1>1, <1>5
  <2>4. sincePress' \in 0..Limit /\ ~(sincePress' < Limit - 1) /\ fastCounter' \in Nat
    BY <2>1, <2>2, <2>3, PollAssumption
  <2> QED BY <2>1, <2>4, Zenon DEF CounterOK, CountFollows
<1> QED BY <1>2, <1>3, <1>4, <1>5

\* Every step keeps the invariant.
LEMMA NextIInv == IInv /\ [Next]_vars => IInv'
<1> SUFFICES ASSUME IInv, [Next]_vars PROVE IInv'
  OBVIOUS
<1> USE DEF IInv
<1>1. CASE Check
  BY <1>1, CheckIInv
<1>2. CASE Head \/ Stop \/ Disconnect \/ \E b \in AllButton : MoveButton(b)
  <2>1. UNCHANGED <<recently, fastCounter, sincePress>>
    BY <1>2 DEF Head, Stop, Disconnect, MoveButton, counters
  <2> QED BY <2>1 DEF CounterOK, CountFollows
<1>3. CASE ReadBattery \/ ReadElsewhere \/ ReadButtons \/ TempStage \/ TransferFails
  <2>1. UNCHANGED <<recently, fastCounter, sincePress>>
    BY <1>3 DEF ReadBattery, ReadElsewhere, ReadButtons, TempStage, TransferFails, counters
  <2> QED BY <2>1 DEF CounterOK, CountFollows
<1>4. CASE UNCHANGED vars
  BY <1>4 DEF vars, counters, CounterOK, CountFollows
<1> QED BY <1>1, <1>2, <1>3, <1>4 DEF Next

\* The inductive invariant of the polling loop.
THEOREM Invariance == Spec => []IInv
  BY InitIInv, NextIInv, PTL DEF Spec

\* The polling is fast exactly in the loops that follow a known press closely
\* enough, whatever fails in between (check_button_pressed_recently).
THEOREM FastPolling == Spec => []FastAfterPress
<1>1. IInv => FastAfterPress
  BY DEF IInv, CountFollows, FastAfterPress
<1> QED BY <1>1, Invariance, PTL
=============================================================================

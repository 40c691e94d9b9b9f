------------------------- MODULE HubBacklightProofs -------------------------
(***************************************************************************)
(* A theorem about HubBacklight: HubManager.stop leaves a lit screen, for  *)
(* every register, every number of requests and every movement of the lid, *)
(* as long as the transfers of the stop and of the lid's callbacks do not  *)
(* fail.                                                                   *)
(***************************************************************************)
EXTENDS HubBacklight, SequenceTheorems, TLAPS

WriteName == {"blank", "unblank", "set"}
ChangeSet == [name : WriteName \cup {"increment", "decrement"}, value : 0..Full]

\* What a thread may have to do.
Todo == Seq(ChangeSet)

TypeInv ==
    /\ register \in Byte /\ state \in Byte
    /\ todo \in [Thread -> Todo]
    /\ copy \in [Thread -> {<<>>} \cup {<<b>> : b \in Byte}]
    /\ \A t \in Thread : copy[t] # <<>> => todo[t] # <<>> /\ Head(todo[t]).name \in WriteName

\* The polling thread and the stop change nothing but the enable bit, and the
\* polling thread clears it only for a closed lid.
PollTodo ==
    /\ todo["poll"] \in {<<>>, <<Blank>>, <<Unblank>>}
    /\ todo["poll"] = <<Blank>> => ~state.lidOpen
    /\ pollPc = "done" => todo["poll"] = <<>>

StopTodo ==
    /\ todo["main"] \in {<<>>, <<Unblank>>}
    /\ todo["main"] # <<>> => stopPc = "unblank"
    /\ stopPc # "none" => todo["request"] = <<>> /\ todo["idle"] = <<>>
    /\ stopPc = "done" => pollPc = "done"

\* Once the stop has unblanked the screen it is lit, or will be, or the lid is closed.
LitOrClosed ==
    stopPc # "none" /\ todo["main"] = <<>> =>
        register.enabled \/ ~state.lidOpen \/ todo["poll"] = <<Unblank>>

BacklightInv == TypeInv /\ PollTodo /\ StopTodo /\ LitOrClosed

-----------------------------------------------------------------------------
LEMMA ChangesTyped ==
    /\ Blank \in ChangeSet /\ Unblank \in ChangeSet
    /\ \A value \in 0..Full : Set(value) \in ChangeSet
    /\ Blank # Unblank
    /\ \A name \in {"increment", "decrement"} : Change(name, 0) \in ChangeSet
  BY BacklightAssumption DEF Blank, Unblank, Set, Change, ChangeSet, WriteName

LEMMA ChangesAreTodo ==
    /\ <<>> \in Todo /\ <<Blank>> \in Todo /\ <<Unblank>> \in Todo
    /\ BrightnessRequest \subseteq Todo
  <1>1. \A c \in ChangeSet : <<c>> \in Todo
    BY DEF Todo
  <1>2. \A c, d \in ChangeSet : <<c, d>> \in Todo
    BY DEF Todo
  <1>3. BrightnessRequest \subseteq Todo
    BY <1>2, ChangesTyped DEF BrightnessRequest
  <1> QED
    BY <1>1, <1>3, ChangesTyped DEF Todo

LEMMA TodoTail ==
  ASSUME NEW changes \in Todo, changes # <<>>
  PROVE  Head(changes) \in ChangeSet /\ Tail(changes) \in Todo
  BY HeadTailProperties DEF Todo

LEMMA SingletonTail ==
  ASSUME NEW change
  PROVE  Head(<<change>>) = change /\ Tail(<<change>>) = <<>>
  OBVIOUS

LEMMA ChangedTyped ==
  ASSUME NEW byte \in Byte, NEW change \in ChangeSet, change.name \in WriteName
  PROVE  Changed(byte, change) \in Byte
  <1>1. CASE change.name = "blank"
    BY <1>1 DEF Byte, Changed
  <1>2. CASE change.name = "unblank"
    BY <1>2 DEF Byte, Changed
  <1>3. CASE change.name = "set"
    <2>1. change.value \in 0..MaxLevel
      BY BacklightAssumption DEF ChangeSet
    <2> QED
      BY <1>3, <2>1 DEF Byte, Changed
  <1> QED
    BY <1>1, <1>2, <1>3 DEF WriteName

LEMMA InitInv == Init => BacklightInv
  BY BacklightAssumption
     DEF Init, BacklightInv, TypeInv, PollTodo, StopTodo, LitOrClosed, Byte, Todo, Thread

\* A write back of the register.
LEMMA WriteInv ==
  ASSUME BacklightInv, NEW t \in Thread, Write(t)
  PROVE  BacklightInv'
  <1> DEFINE byte == copy[t][1]
  <1> DEFINE change == NextChange(t)
  <1>1. todo[t] \in Todo /\ todo[t] # <<>> /\ byte \in Byte /\ change.name \in WriteName
    BY DEF BacklightInv, TypeInv, Write, NextChange
  <1>2. change \in ChangeSet /\ Tail(todo[t]) \in Todo /\ Changed(byte, change) \in Byte
    BY <1>1, TodoTail, ChangedTyped DEF NextChange
  <1>3. TypeInv'
    BY <1>1, <1>2 DEF BacklightInv, TypeInv, Write, Byte
  <1>4. t \in {"poll", "main"} => Tail(todo[t]) = <<>>
    BY <1>1, SingletonTail DEF BacklightInv, PollTodo, StopTodo
  <1>5. PollTodo' /\ StopTodo'
    BY <1>1, <1>4 DEF BacklightInv, TypeInv, PollTodo, StopTodo, Write, Thread
  <1>6. CASE t = "main"
    <2>1. change = Unblank
      BY <1>1, <1>6 DEF BacklightInv, StopTodo, NextChange
    <2>2. register'.enabled
      BY <1>1, <1>2, <2>1 DEF Write, Changed, Unblank, Change, Byte
    <2> QED
      BY <1>3, <1>5, <2>2 DEF BacklightInv, LitOrClosed
  <1>7. CASE t = "poll"
    <2>1. CASE todo[t] = <<Blank>>
      BY <1>3, <1>5, <1>7, <2>1 DEF BacklightInv, PollTodo, LitOrClosed, Write
    <2>2. CASE todo[t] = <<Unblank>>
      <3>1. change = Unblank
        BY <2>2 DEF NextChange
      <3>2. register'.enabled
        BY <1>1, <1>2, <3>1 DEF Write, Changed, Unblank, Change, Byte
      <3> QED
        BY <1>3, <1>5, <3>2 DEF BacklightInv, LitOrClosed
    <2> QED
      BY <1>1, <1>7, <2>1, <2>2 DEF BacklightInv, PollTodo
  <1>8. CASE t \in {"request", "idle"}
    <2>1. stopPc' = "none"
      BY <1>1, <1>8 DEF BacklightInv, StopTodo, Write
    <2> QED
      BY <1>3, <1>5, <2>1 DEF BacklightInv, LitOrClosed
  <1> QED
    BY <1>6, <1>7, <1>8 DEF Thread

\* increment_ and decrement_brightness, which only a request has to do.
LEMMA AdjustInv ==
  ASSUME BacklightInv, NEW t \in Thread, Adjust(t)
  PROVE  BacklightInv'
  <1>1. todo[t] \in Todo /\ todo[t] # <<>> /\ copy[t] = <<>>
    BY DEF BacklightInv, TypeInv, Adjust, NextChange, WriteName
  <1>2. t \in {"request", "idle"}
    BY <1>1 DEF BacklightInv, PollTodo, StopTodo, Adjust, NextChange, Blank, Unblank, Change, Thread
  <1>3. stopPc = "none"
    BY <1>1, <1>2 DEF BacklightInv, StopTodo
  <1>4. Tail(todo[t]) \in Todo
    BY <1>1, TodoTail
  <1>5. PICK value : todo' = [todo EXCEPT ![t] =
                 (IF value \in 0..Full THEN <<Set(value)>> ELSE <<>>) \o Tail(@)]
    BY DEF Adjust
  <1>6. todo'[t] \in Todo /\ \A s \in Thread \ {t} : todo'[s] = todo[s]
    <2>1. value \in 0..Full => <<Set(value)>> \o Tail(todo[t]) \in Todo
      <3>1. value \in 0..Full => <<Set(value)>> \in Seq(ChangeSet)
        BY ChangesTyped
      <3> QED
        BY <1>4, <3>1, ConcatProperties DEF Todo
    <2>2. <<>> \o Tail(todo[t]) \in Todo
      BY <1>4, ConcatEmptySeq DEF Todo
    <2> QED
      BY <1>5, <2>1, <2>2 DEF BacklightInv, TypeInv
  <1>7. TypeInv'
    BY <1>1, <1>5, <1>6 DEF BacklightInv, TypeInv, Adjust
  <1> QED
    BY <1>2, <1>3, <1>6, <1>7
       DEF BacklightInv, PollTodo, StopTodo, LitOrClosed, Adjust, Thread

LEMMA WorkInv ==
  ASSUME Faulty \subseteq {"request", "idle"}, BacklightInv, NEW t \in Thread, Work(t)
  PROVE  BacklightInv'
  <1>1. CASE Read(t)
    BY <1>1 DEF Read, NextChange, BacklightInv, TypeInv, PollTodo, StopTodo, LitOrClosed, WriteName
  <1>2. CASE Write(t)
    BY <1>2, WriteInv
  <1>3. CASE Adjust(t)
    BY <1>3, AdjustInv
  <1>4. CASE TransferFails(t)
    <2>1. t \in {"request", "idle"} /\ todo[t] \in Todo /\ todo[t] # <<>>
      BY <1>4 DEF TransferFails, BacklightInv, TypeInv
    <2>2. TypeInv'
      BY <1>4, <2>1, TodoTail DEF TransferFails, BacklightInv, TypeInv
    <2>3. stopPc = "none"
      BY <2>1 DEF BacklightInv, StopTodo
    <2> QED
      BY <1>4, <2>1, <2>2, <2>3
         DEF TransferFails, BacklightInv, PollTodo, StopTodo, LitOrClosed, TypeInv, Thread
  <1> QED
    BY <1>1, <1>2, <1>3, <1>4 DEF Work

\* Those who ask for changes ask for nothing once the stop has begun, but for
\* the battery's warnings, which light the screen.
LEMMA AskInv ==
  ASSUME BacklightInv, Request \/ IdleCallback \/ Warning
  PROVE  BacklightInv'
  <1>1. CASE Request
    <2>1. PICK changes \in Todo : Ask("request", changes)
      BY <1>1, ChangesAreTodo DEF Request
    <2> QED
      BY <1>1, <2>1
         DEF Request, Ask, BacklightInv, TypeInv, PollTodo, StopTodo, LitOrClosed, Thread
  <1>2. CASE IdleCallback
    <2>1. PICK changes \in Todo : Ask("idle", changes)
      BY <1>2, ChangesAreTodo DEF IdleCallback
    <2> QED
      BY <1>2, <2>1
         DEF IdleCallback, Ask, BacklightInv, TypeInv, PollTodo, StopTodo, LitOrClosed, Thread
  <1>3. CASE Warning
    <2>1. TypeInv'
      BY <1>3, ChangesAreTodo DEF Warning, Ask, BacklightInv, TypeInv, Thread
    <2>2. PollTodo' /\ StopTodo'
      BY <1>3, ChangesTyped DEF Warning, Ask, BacklightInv, TypeInv, PollTodo, StopTodo, Thread
    <2>3. LitOrClosed'
      BY <1>3 DEF Warning, Ask, BacklightInv, TypeInv, LitOrClosed, Thread
    <2> QED
      BY <2>1, <2>2, <2>3 DEF BacklightInv
  <1> QED
    BY <1>1, <1>2, <1>3

LEMMA PollInv ==
  ASSUME BacklightInv, PollHead \/ PollBacklight \/ PollFails
  PROVE  BacklightInv'
  <1>1. CASE PollHead
    BY <1>1 DEF PollHead, BacklightInv, TypeInv, PollTodo, StopTodo, LitOrClosed
  <1>2. CASE PollBacklight
    <2>1. Seen(register) \in Byte /\ Seen(register).lidOpen = register.lidOpen
      BY BacklightAssumption DEF Seen, Byte, BacklightInv, TypeInv
    <2>2. LidCallback(register) \in {<<>>, <<Blank>>, <<Unblank>>}
      BY DEF LidCallback
    <2>3. /\ LidCallback(register) = <<Blank>> => ~register.lidOpen
          /\ LidCallback(register) = <<>> => register.lidOpen = state.lidOpen
      BY ChangesTyped DEF LidCallback
    <2>4. LidCallback(register) \in Todo
      BY <2>2, ChangesAreTodo
    <2> QED
      BY <1>2, <2>1, <2>2, <2>3, <2>4
         DEF PollBacklight, BacklightInv, TypeInv, PollTodo, StopTodo, LitOrClosed, Thread
  <1>3. CASE PollFails
    BY <1>3 DEF PollFails, BacklightInv, TypeInv, PollTodo, StopTodo, LitOrClosed
  <1> QED
    BY <1>1, <1>2, <1>3

LEMMA StepInv ==
  ASSUME Faulty \subseteq {"request", "idle"}
  PROVE  BacklightInv /\ [Next]_vars => BacklightInv'
  <1> SUFFICES ASSUME BacklightInv, [Next]_vars
               PROVE  BacklightInv'
    OBVIOUS
  <1>1. CASE \E t \in Thread : Work(t)
    BY <1>1, WorkInv
  <1>2. CASE Request \/ IdleCallback \/ Warning
    BY <1>2, AskInv
  <1>3. CASE PollHead \/ PollBacklight \/ PollFails
    BY <1>3, PollInv
  <1>4. CASE MoveLid
    BY <1>4 DEF MoveLid, BacklightInv, TypeInv, PollTodo, StopTodo, LitOrClosed, Byte
  <1>5. CASE StopUnblank
    BY <1>5, ChangesAreTodo
       DEF StopUnblank, BacklightInv, TypeInv, PollTodo, StopTodo, LitOrClosed, Thread
  <1>6. CASE StopPolling \/ JoinPolling
    BY <1>6 DEF StopPolling, JoinPolling, BacklightInv, TypeInv, PollTodo, StopTodo, LitOrClosed
  <1>7. CASE UNCHANGED vars
    BY <1>7 DEF vars, BacklightInv, TypeInv, PollTodo, StopTodo, LitOrClosed
  <1> QED
    BY <1>1, <1>2, <1>3, <1>4, <1>5, <1>6, <1>7 DEF Next

-----------------------------------------------------------------------------
\* The hub is left with its screen enabled, unless the polling has found the lid
\* closed, wherever requests, callbacks and the lid come in between.
THEOREM StopLeavesScreenEnabled ==
  ASSUME Faulty \subseteq {"request", "idle"}
  PROVE  Spec => []StoppedUnblanked
  <1>1. BacklightInv => StoppedUnblanked
    BY DEF BacklightInv, PollTodo, StopTodo, LitOrClosed, StoppedUnblanked, Unblank, Change
  <1>2. Init => BacklightInv
    BY InitInv
  <1>3. BacklightInv /\ [Next]_vars => BacklightInv'
    BY StepInv
  <1> QED
    BY <1>1, <1>2, <1>3, PTL DEF Spec
=============================================================================

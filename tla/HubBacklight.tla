---------------------------- MODULE HubBacklight ----------------------------
(***************************************************************************)
(* The backlight register of the second hub (pitopd/pthub2), changed by    *)
(* reading and writing it back, without a lock, by four threads: the       *)
(* request server's, the idle monitor's, the hub's polling thread, which   *)
(* also copies it to State, and the main thread that stops the hub.        *)
(***************************************************************************)
EXTENDS Integers, Sequences

CONSTANTS
    Full,       \* the highest brightness (16)
    MaxLevel,   \* the highest value of the register's brightness bits (31)
    Faulty,     \* the threads whose transfers may fail
    MaxOps,     \* bound: so many requests, idle callbacks and warnings
    MaxLid      \* bound: so often the lid is opened or closed

Thread == {"request", "idle", "poll", "main"}

ASSUME BacklightAssumption ==
    /\ Full \in Nat /\ MaxLevel \in Nat /\ Full <= MaxLevel
    /\ Faulty \subseteq Thread
    /\ MaxOps \in Nat /\ MaxLid \in Nat

Byte == [level : 0..MaxLevel, enabled : BOOLEAN, lidOpen : BOOLEAN]

VARIABLES
    register,   \* DIS__BACKLIGHT on the hub
    todo,       \* the changes of the register each thread has still to make
    copy,       \* the byte a thread has read and not yet written back
    state,      \* State.brightness, screen_blanked and lid_open
    pollPc,     \* the polling thread: "head", "poll" or "done"
    polling,    \* _run_polling_thread
    stopPc,     \* HubManager.stop: "none", "unblank", "join" or "done"
    ops, lids   \* the counters of the two bounds

vars == <<register, todo, copy, state, pollPc, polling, stopPc, ops, lids>>

Init ==
    /\ register \in Byte
    /\ todo = [t \in Thread |-> <<>>]
    /\ copy = [t \in Thread |-> <<>>]
    /\ state = [level |-> Full, enabled |-> TRUE, lidOpen |-> TRUE]
    /\ pollPc = "head"
    /\ polling = TRUE
    /\ stopPc = "none"
    /\ ops = 0 /\ lids = 0

-----------------------------------------------------------------------------
\* The changes: set_brightness, increment_ and decrement_brightness, blank_ and
\* unblank_screen of HubConnection.
Change(name, value) == [name |-> name, value |-> value]
Blank == Change("blank", 0)
Unblank == Change("unblank", 0)
Set(value) == Change("set", value)

\* HubManager unblanks the screen before each change of the brightness.
BrightnessRequest == {<<Unblank, Set(value)>> : value \in 0..Full}
                        \cup {<<Unblank, Change(name, 0)>> : name \in {"increment", "decrement"}}

\* The byte that a change makes of the one that was read.
Changed(byte, change) ==
    CASE change.name = "blank"   -> [byte EXCEPT !.enabled = FALSE]
      [] change.name = "unblank" -> [byte EXCEPT !.enabled = TRUE]
      [] change.name = "set"     -> [byte EXCEPT !.level = change.value]

NextChange(t) == Head(todo[t])

\* Reading, for a change that writes back.
Read(t) ==
    /\ todo[t] # <<>> /\ copy[t] = <<>> /\ NextChange(t).name \in {"blank", "unblank", "set"}
    /\ copy' = [copy EXCEPT ![t] = <<register>>]
    /\ UNCHANGED <<register, todo, state, pollPc, polling, stopPc, ops, lids>>

\* Writing back; the lid's bit is the hub's own.
Write(t) ==
    /\ copy[t] # <<>>
    /\ register' = [Changed(copy[t][1], NextChange(t)) EXCEPT !.lidOpen = register.lidOpen]
    /\ todo' = [todo EXCEPT ![t] = Tail(@)]
    /\ copy' = [copy EXCEPT ![t] = <<>>]
    /\ UNCHANGED <<state, pollPc, polling, stopPc, ops, lids>>

\* increment_ and decrement_brightness read the level and call set_brightness,
\* which reads again, and returns at once for a level out of range.
Adjust(t) ==
    /\ todo[t] # <<>> /\ NextChange(t).name \in {"increment", "decrement"}
    /\ LET value == IF NextChange(t).name = "increment"
                    THEN register.level + 1 ELSE register.level - 1
       IN  todo' = [todo EXCEPT ![t] = (IF value \in 0..Full THEN <<Set(value)>> ELSE <<>>) \o Tail(@)]
    /\ UNCHANGED <<register, copy, state, pollPc, polling, stopPc, ops, lids>>

\* A transfer fails: the change is given up, what the thread has to do next is not.
TransferFails(t) ==
    /\ t \in Faulty /\ todo[t] # <<>>
    /\ todo' = [todo EXCEPT ![t] = Tail(@)]
    /\ copy' = [copy EXCEPT ![t] = <<>>]
    /\ UNCHANGED <<register, state, pollPc, polling, stopPc, ops, lids>>

-----------------------------------------------------------------------------
\* Those who ask for changes.
Ask(t, changes) ==
    /\ ops < MaxOps /\ todo[t] = <<>>
    /\ ops' = ops + 1
    /\ todo' = [todo EXCEPT ![t] = changes]
    /\ UNCHANGED <<register, copy, state, pollPc, polling, stopPc, lids>>

\* RequestServer._process_request, which comes back when the change is made.
Request ==
    /\ stopPc = "none"
    /\ \E changes \in BrightnessRequest \cup {<<Blank>>, <<Unblank>>} : Ask("request", changes)

\* The idle monitor's callbacks; the peripheral manager's are of the same kind.
IdleCallback ==
    /\ stopPc = "none"
    /\ \E change \in {Blank, Unblank} : Ask("idle", <<change>>)

\* A battery warning, in the polling thread.
Warning == pollPc = "poll" /\ Ask("poll", <<Unblank>>)

-----------------------------------------------------------------------------
\* The polling thread.
PollHead ==
    /\ pollPc = "head" /\ todo["poll"] = <<>>
    /\ pollPc' = IF polling THEN "poll" ELSE "done"
    /\ UNCHANGED <<register, todo, copy, state, polling, stopPc, ops, lids>>

\* The level is clamped, the lid calls back if it has moved.
Seen(byte) == [byte EXCEPT !.level = IF @ > Full THEN Full ELSE @]

LidCallback(byte) ==
    IF byte.lidOpen = state.lidOpen THEN <<>> ELSE IF byte.lidOpen THEN <<Unblank>> ELSE <<Blank>>

FaultyPollBacklight ==   \* fault: the lid is looked at only if nothing else has changed
    /\ pollPc = "poll" /\ todo["poll"] = <<>>
    /\ pollPc' = "head"
    /\ state' = Seen(register)
    /\ IF Seen(register).level # state.level \/ register.enabled # state.enabled
       THEN UNCHANGED todo
       ELSE todo' = [todo EXCEPT !["poll"] = LidCallback(register)]
    /\ UNCHANGED <<register, copy, polling, stopPc, ops, lids>>

FaultyPollReturns ==   \* fault: an invalid level ends the read of the register
    /\ pollPc = "poll" /\ todo["poll"] = <<>>
    /\ pollPc' = "head"
    /\ IF register.level > Full
       THEN UNCHANGED <<state, todo>>
       ELSE state' = Seen(register) /\ todo' = [todo EXCEPT !["poll"] = LidCallback(register)]
    /\ UNCHANGED <<register, copy, polling, stopPc, ops, lids>>

PollBacklight ==
    /\ pollPc = "poll" /\ todo["poll"] = <<>>
    /\ pollPc' = "head"
    /\ state' = Seen(register)
    /\ todo' = [todo EXCEPT !["poll"] = LidCallback(register)]
    /\ UNCHANGED <<register, copy, polling, stopPc, ops, lids>>

\* A read before the backlight's has failed, or its own.
PollFails ==
    /\ pollPc = "poll" /\ todo["poll"] = <<>>
    /\ pollPc' = "head"
    /\ UNCHANGED <<register, todo, copy, state, polling, stopPc, ops, lids>>

\* The user moves the lid.
MoveLid ==
    /\ lids < MaxLid
    /\ lids' = lids + 1
    /\ register' = [register EXCEPT !.lidOpen = ~@]
    /\ UNCHANGED <<todo, copy, state, pollPc, polling, stopPc, ops>>

-----------------------------------------------------------------------------
\* HubManager.stop, after the request server and the idle monitor have ended.
StopUnblank ==
    /\ stopPc = "none" /\ todo["request"] = <<>> /\ todo["idle"] = <<>>
    /\ stopPc' = "unblank"
    /\ todo' = [todo EXCEPT !["main"] = <<Unblank>>]
    /\ UNCHANGED <<register, copy, state, pollPc, polling, ops, lids>>

FaultyStopPolling ==   \* fault: the screen is not unblanked first
    /\ stopPc = "none" /\ todo["request"] = <<>> /\ todo["idle"] = <<>>
    /\ stopPc' = "join"
    /\ polling' = FALSE
    /\ UNCHANGED <<register, todo, copy, state, pollPc, ops, lids>>

StopPolling ==
    /\ stopPc = "unblank" /\ todo["main"] = <<>>
    /\ stopPc' = "join"
    /\ polling' = FALSE
    /\ UNCHANGED <<register, todo, copy, state, pollPc, ops, lids>>

JoinPolling ==
    /\ stopPc = "join" /\ pollPc = "done"
    /\ stopPc' = "done"
    /\ UNCHANGED <<register, todo, copy, state, pollPc, polling, ops, lids>>

Work(t) == Read(t) \/ Write(t) \/ Adjust(t) \/ TransferFails(t)

Next ==
    \/ \E t \in Thread : Work(t)
    \/ Request \/ IdleCallback \/ Warning
    \/ PollHead \/ PollBacklight \/ PollFails
    \/ MoveLid
    \/ StopUnblank \/ StopPolling \/ JoinPolling

\* The threads are scheduled and a poll succeeds now and then; nobody has to
\* ask for anything.
Fairness ==
    /\ \A t \in Thread : WF_vars(Work(t))
    /\ WF_vars(PollHead) /\ SF_vars(PollBacklight)
    /\ WF_vars(StopPolling \/ JoinPolling)

Spec == Init /\ [][Next]_vars
FairSpec == Spec /\ Fairness

-----------------------------------------------------------------------------
\* As long as the hub is polled, State comes to show the register, and stays
\* right when nobody changes it any more (which the bounds see to): whatever was
\* lost on the way, the clients are told in the end what the screen does.
StateCatchesUp == <>[](stopPc = "none" => state = Seen(register))

\* The lid alone: as long as nobody else asks for anything, the screen of a
\* lid that stays closed goes dark and that of one opened again is lit.
LidFollowed ==
    [](ops = 0 /\ stopPc = "none") =>
        /\ <>[](~state.lidOpen) => <>[](~register.enabled)
        /\ <>(~state.lidOpen) /\ <>[](state.lidOpen) => <>[](register.enabled)

\* The hub is left with its screen enabled, unless the polling has found the lid
\* closed before it ended.  Only that: the comment above HubManager.stop says that
\* it sets the brightness to full as well, and the code leaves it as it is, 0 included.
StoppedUnblanked == stopPc = "done" => register.enabled \/ ~state.lidOpen
=============================================================================

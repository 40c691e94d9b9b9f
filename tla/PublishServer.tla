--------------------------- MODULE PublishServer ---------------------------
(***************************************************************************)
(* The publishing server (pitopd/server/publish_server.py): one socket,    *)
(* shared by every thread that has something to tell the clients, and a    *)
(* lock that is not reentrant.  App.stop runs in the signal handler of the *)
(* main thread, in between any two of that thread's own steps.             *)
(***************************************************************************)
CONSTANTS
    Thread,     \* the threads that publish, the main thread among them
    Main,       \* the main thread: it starts the server and handles signals
    Handler,    \* its signal handler, which calls stop_listening
    Nobody      \* the holder of a free lock

ASSUME ThreadAssumption ==
    /\ Main \in Thread
    /\ Handler \notin Thread /\ Nobody \notin Thread /\ Handler # Nobody

VARIABLES
    pc,             \* where each thread is: "idle", or in _send_message or start_listening
    stopPc,         \* where the handler is in stop_listening
    lock,           \* the holder of _socket_lock
    socket,         \* _zmq_socket: "none", "open" or "closed"
    emitMessages,   \* emit_messages
    shuttingDown,   \* _shutting_down
    announced,      \* READY=1 has been sent to systemd
    sent            \* some message has reached the socket

vars == <<pc, stopPc, lock, socket, emitMessages, shuttingDown, announced, sent>>

Init ==
    /\ pc = [thread \in Thread |-> IF thread = Main THEN "unstarted" ELSE "idle"]
    /\ stopPc = "none"
    /\ lock = Nobody
    /\ socket = "none"
    /\ emitMessages = FALSE
    /\ shuttingDown = FALSE
    /\ announced = FALSE
    /\ sent = FALSE

\* The main thread stands still while its handler runs.
Runs(thread) == thread = Main => stopPc \in {"none", "done"}

Step(thread, from, to) ==
    /\ Runs(thread) /\ pc[thread] = from
    /\ pc' = [pc EXCEPT ![thread] = to]

Acquire(holder) == lock = Nobody /\ lock' = holder
Release == lock' = Nobody

-----------------------------------------------------------------------------
\* start_listening, by the main thread.  A bind that fails leaves the socket
\* behind, and App.start goes no further.
StartAcquire ==
    /\ Step(Main, "unstarted", "binding")
    /\ Acquire(Main)
    /\ UNCHANGED <<stopPc, socket, emitMessages, shuttingDown, announced, sent>>

Bind ==
    /\ \/ Step(Main, "binding", "starting")
       \/ Step(Main, "binding", "failed")
    /\ socket' = "open"
    /\ Release
    /\ UNCHANGED <<stopPc, emitMessages, shuttingDown, announced, sent>>

FaultyAnnounce ==   \* fault: messages pass before systemd is notified
    /\ Step(Main, "starting", "announcing")
    /\ emitMessages' = TRUE
    /\ UNCHANGED <<stopPc, lock, socket, shuttingDown, announced, sent>>

\* App.start: notify systemd, then let messages pass.
Announce ==
    /\ Step(Main, "starting", "announcing")
    /\ announced' = TRUE
    /\ UNCHANGED <<stopPc, lock, socket, emitMessages, shuttingDown, sent>>

EmitMessages ==
    /\ Step(Main, "announcing", "idle")
    /\ emitMessages' = TRUE
    /\ UNCHANGED <<stopPc, lock, socket, shuttingDown, announced, sent>>

-----------------------------------------------------------------------------
\* _send_message: the first test is made without the lock.
CheckReady(thread) ==
    /\ socket # "none" /\ emitMessages
    /\ Step(thread, "idle", "checked")
    /\ UNCHANGED <<stopPc, lock, socket, emitMessages, shuttingDown, announced, sent>>

FaultySendAcquire(thread) ==   \* fault: the lock is not taken
    /\ Step(thread, "checked", "locked")
    /\ UNCHANGED <<stopPc, lock, socket, emitMessages, shuttingDown, announced, sent>>

SendAcquire(thread) ==
    /\ Step(thread, "checked", "locked")
    /\ Acquire(thread)
    /\ UNCHANGED <<stopPc, socket, emitMessages, shuttingDown, announced, sent>>

FaultyCheckShutdown(thread) ==   \* fault: no second test under the lock
    /\ Step(thread, "locked", "send")
    /\ UNCHANGED <<stopPc, lock, socket, emitMessages, shuttingDown, announced, sent>>

CheckShutdown(thread) ==
    /\ IF shuttingDown THEN Step(thread, "locked", "release") ELSE Step(thread, "locked", "send")
    /\ UNCHANGED <<stopPc, lock, socket, emitMessages, shuttingDown, announced, sent>>

Send(thread) ==
    /\ Step(thread, "send", "release")
    /\ sent' = TRUE
    /\ UNCHANGED <<stopPc, lock, socket, emitMessages, shuttingDown, announced>>

SendRelease(thread) ==
    /\ Step(thread, "release", "idle")
    /\ Release
    /\ UNCHANGED <<stopPc, socket, emitMessages, shuttingDown, announced, sent>>

SendMessage(thread) ==
    \/ CheckReady(thread) \/ SendAcquire(thread) \/ CheckShutdown(thread)
    \/ Send(thread) \/ SendRelease(thread)

-----------------------------------------------------------------------------
\* stop_listening, in the handler.
StopStep(from, to) == stopPc = from /\ stopPc' = to

Signal ==
    /\ StopStep("none", "acquire")
    /\ UNCHANGED <<pc, lock, socket, emitMessages, shuttingDown, announced, sent>>

StopAcquire ==
    /\ StopStep("acquire", "flag")
    /\ Acquire(Handler)
    /\ UNCHANGED <<pc, socket, emitMessages, shuttingDown, announced, sent>>

SetShuttingDown ==
    /\ StopStep("flag", "close")
    /\ shuttingDown' = TRUE
    /\ UNCHANGED <<pc, lock, socket, emitMessages, announced, sent>>

Close ==
    /\ StopStep("close", "release")
    /\ socket' = IF socket = "none" THEN "none" ELSE "closed"
    /\ UNCHANGED <<pc, lock, emitMessages, shuttingDown, announced, sent>>

StopRelease ==
    /\ StopStep("release", "done")
    /\ Release
    /\ UNCHANGED <<pc, socket, emitMessages, shuttingDown, announced, sent>>

StopListening == StopAcquire \/ SetShuttingDown \/ Close \/ StopRelease

Start == StartAcquire \/ Bind \/ Announce \/ EmitMessages

Next ==
    \/ Start
    \/ \E thread \in Thread : SendMessage(thread)
    \/ Signal
    \/ StopListening

Spec == Init /\ [][Next]_vars

-----------------------------------------------------------------------------
Inside == {"locked", "send", "release", "binding"}
StopInside == {"flag", "close", "release"}

\* Type invariant.
TypeOK ==
    /\ pc \in [Thread -> Inside \cup {"unstarted", "starting", "failed", "announcing", "idle", "checked"}]
    /\ stopPc \in StopInside \cup {"none", "acquire", "done"}
    /\ lock \in Thread \cup {Handler, Nobody}
    /\ socket \in {"none", "open", "closed"}
    /\ emitMessages \in BOOLEAN /\ shuttingDown \in BOOLEAN
    /\ announced \in BOOLEAN /\ sent \in BOOLEAN

\* The socket, which ZeroMQ does not let threads share, has one user at a time:
\* two threads are never inside together, nor a thread and the handler.
OneUserOfTheSocket ==
    \A thread \in Thread : pc[thread] \in Inside =>
        /\ stopPc \notin StopInside
        /\ \A other \in Thread \ {thread} : pc[other] \notin Inside

\* Nothing is sent on a socket that is closed, although the test for it is made
\* before the lock is taken and the stop may come in between.
NeverSendsOnClosedSocket == \A thread \in Thread : pc[thread] = "send" => socket = "open"

\* debian/changelog: "Send messages only when app is initialized".
SilentUntilReady == sent => announced
=============================================================================

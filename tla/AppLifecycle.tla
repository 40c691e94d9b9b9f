---------------------------- MODULE AppLifecycle ----------------------------
(***************************************************************************)
(* App.start and App.stop (pitopd/app.py, pitopd/__main__.py) with the     *)
(* threads they start and join.  The main thread starts the components one *)
(* by one; a signal runs App.stop in the main thread, in between any two   *)
(* of its steps, and the main thread then goes on where it was.  An        *)
(* exception out of either ends main() with a traceback, and the process   *)
(* waits for its threads, none of which is a daemon.                       *)
(***************************************************************************)

Worker == {"request", "idle", "peripheral", "hub"}      \* the components with a thread
Stopper == {"main", "handler"}                          \* who runs App.stop

VARIABLES
    mainPc,         \* where the main thread is in App.start and main()
    ok,             \* what App.start returns
    appStopPc,      \* where App.stop is, for each of those who run it
    signalled,      \* SIGTERM or SIGINT has come (bound: one)
    run,            \* the worker's run flag
    thread,         \* the worker's thread: "none", "new", "running", "serving" or "done"
    appRun,         \* App._run
    hub,            \* the connection to the hub: "none", "open" or "closed"
    deviceId,       \* App.device_id: "none", "unknown" or "known"
    requestSocket   \* the request server's socket: "new", "bound" or "closed"

appVars == <<mainPc, ok, appStopPc, signalled, run, thread, appRun, hub, deviceId, requestSocket>>

AppInit ==
    /\ mainPc = "publish"
    /\ ok = TRUE
    /\ appStopPc = [s \in Stopper |-> "none"]
    /\ signalled = FALSE
    /\ run = [w \in Worker |-> FALSE]
    /\ thread = [w \in Worker |-> IF w \in {"request", "peripheral"} THEN "new" ELSE "none"]
    /\ appRun = TRUE
    /\ hub = "none"
    /\ deviceId = "none"
    /\ requestSocket = "new"

-----------------------------------------------------------------------------
\* The main thread's own steps, none of which it takes while its handler runs.
MainRuns == appStopPc["handler"] \in {"none", "done"}

MainGoes(from, to) == MainRuns /\ mainPc = from /\ mainPc' = to
Fails == ok' = FALSE
Goes == ok' = ok

PublishStart ==
    /\ \/ MainGoes("publish", "connect") /\ Goes
       \/ MainGoes("publish", "returned") /\ Fails
    /\ UNCHANGED <<appStopPc, signalled, run, thread, appRun, hub, deviceId, requestSocket>>

ConnectToHub ==
    /\ MainGoes("connect", "hubStart") /\ Goes
    /\ hub' = "open"
    /\ thread' = [thread EXCEPT !["hub"] = "new"]
    /\ UNCHANGED <<appStopPc, signalled, run, appRun, deviceId, requestSocket>>

NoHub ==
    /\ MainGoes("connect", "returned") /\ Fails
    /\ deviceId' = "unknown"
    /\ UNCHANGED <<appStopPc, signalled, run, thread, appRun, hub, requestSocket>>

\* A component sets its run flag, then starts its thread.
SetRun(w, from, to) ==
    /\ MainGoes(from, to) /\ Goes
    /\ run' = [run EXCEPT ![w] = TRUE]
    /\ UNCHANGED <<appStopPc, signalled, thread, appRun, hub, deviceId, requestSocket>>

StartThread(w, from, to) ==
    /\ MainGoes(from, to) /\ Goes
    /\ thread' = [thread EXCEPT ![w] = "running"]
    /\ UNCHANGED <<appStopPc, signalled, run, appRun, hub, deviceId, requestSocket>>

\* The hub is polled once, by the main thread, before its thread is started.
FirstPoll ==
    /\ MainGoes("hubPoll", "hubThread") /\ Goes
    /\ UNCHANGED <<appStopPc, signalled, run, thread, appRun, hub, deviceId, requestSocket>>

HubStart ==
    SetRun("hub", "hubStart", "hubPoll") \/ FirstPoll \/ StartThread("hub", "hubThread", "identify")

\* wait_for_device_identification, then _set_host_device_id_from_hub.
Identify ==
    /\ \/ MainGoes("identify", "ready") /\ Goes /\ deviceId' = "known"
       \/ MainGoes("identify", "returned") /\ Fails /\ deviceId' = "unknown"
    /\ UNCHANGED <<appStopPc, signalled, run, thread, appRun, hub, requestSocket>>

PeripheralStart ==
    \/ SetRun("peripheral", "ready", "peripheralThread")
    \/ StartThread("peripheral", "peripheralThread", "idleCreate")

CreateIdleThread ==
    /\ MainGoes("idleCreate", "idleStart") /\ Goes
    /\ thread' = [thread EXCEPT !["idle"] = "new"]
    /\ UNCHANGED <<appStopPc, signalled, run, appRun, hub, deviceId, requestSocket>>

IdleStart ==
    CreateIdleThread \/ SetRun("idle", "idleStart", "idleThread") \/ StartThread("idle", "idleThread", "bind")

\* A closed socket cannot be bound: this is where a start after a stop ends.
BindRequests ==
    /\ \/ MainGoes("bind", "requestStart") /\ Goes /\ requestSocket = "new" /\ requestSocket' = "bound"
       \/ MainGoes("bind", "returned") /\ Fails /\ UNCHANGED requestSocket
    /\ UNCHANGED <<appStopPc, signalled, run, thread, appRun, hub, deviceId>>

RequestStart ==
    \/ BindRequests
    \/ SetRun("request", "requestStart", "requestThread")
    \/ StartThread("request", "requestThread", "loop")

\* The loop sees _run in the end.
LeaveLoop ==
    /\ ~appRun
    /\ MainGoes("loop", "returned") /\ Goes
    /\ UNCHANGED <<appStopPc, signalled, run, thread, appRun, hub, deviceId, requestSocket>>

\* main(): tell systemd, and clean up if the start has failed.
Returned ==
    /\ MainGoes("returned", IF ok THEN "exit" ELSE "stop") /\ Goes
    /\ appStopPc' = IF ok THEN appStopPc ELSE [appStopPc EXCEPT !["main"] = "app"]
    /\ UNCHANGED <<signalled, run, thread, appRun, hub, deviceId, requestSocket>>

Stopped ==
    /\ appStopPc["main"] = "done"
    /\ MainGoes("stop", "exit") /\ Goes
    /\ UNCHANGED <<appStopPc, signalled, run, thread, appRun, hub, deviceId, requestSocket>>

\* What App.start calls outside of any `try` raises: raspi-config times out, the
\* state file cannot be written, or the third hub's transfers for the miniscreen
\* fail.  main() dies of it, and nobody calls App.stop.
StartRaises ==
    /\ \E place \in {"connect", "identify", "ready"} : MainGoes(place, "raised")
    /\ Goes
    /\ UNCHANGED <<appStopPc, signalled, run, thread, appRun, hub, deviceId, requestSocket>>

\* The process ends when all its threads have.
Exit ==
    /\ \/ MainGoes("exit", "ended")
       \/ \E place \in {"raised", "crashed"} : MainGoes(place, "endedByException")
    /\ Goes
    /\ \A w \in Worker : thread[w] \in {"none", "new", "done"}
    /\ UNCHANGED <<appStopPc, signalled, run, thread, appRun, hub, deviceId, requestSocket>>

MainStep ==
    \/ PublishStart \/ ConnectToHub \/ NoHub \/ HubStart \/ Identify \/ PeripheralStart \/ IdleStart
    \/ RequestStart \/ LeaveLoop \/ Returned \/ Stopped \/ Exit

-----------------------------------------------------------------------------
\* The threads.  A worker that finds its flag unset ends; the idle monitor ends
\* when xprintidle fails, the peripheral manager when a command of its pass does,
\* the request server's thread on a closed socket, and the polling with a shutdown.
WorkerEnds(w) ==
    /\ thread[w] = "running"
    /\ ~run[w] \/ w \in {"idle", "peripheral"} \/ (w = "request" /\ requestSocket = "closed")
    /\ thread' = [thread EXCEPT ![w] = "done"]
    /\ UNCHANGED <<mainPc, ok, appStopPc, signalled, run, appRun, hub, deviceId, requestSocket>>

HubShutdown ==
    /\ thread["hub"] = "running" /\ run["hub"]
    /\ run' = [run EXCEPT !["hub"] = FALSE]
    /\ UNCHANGED <<mainPc, ok, appStopPc, signalled, thread, appRun, hub, deviceId, requestSocket>>

\* A request is received and answered, which may call the hub.
Receive ==
    /\ thread["request"] = "running" /\ requestSocket = "bound"
    /\ thread' = [thread EXCEPT !["request"] = "serving"]
    /\ UNCHANGED <<mainPc, ok, appStopPc, signalled, run, appRun, hub, deviceId, requestSocket>>

Answer ==
    /\ thread["request"] = "serving"
    /\ thread' = [thread EXCEPT !["request"] = "running"]
    /\ UNCHANGED <<mainPc, ok, appStopPc, signalled, run, appRun, hub, deviceId, requestSocket>>

-----------------------------------------------------------------------------
\* App.stop, by the signal's handler or by main().
SignalComes ==
    /\ ~signalled /\ mainPc \notin {"ended", "endedByException"}
    /\ signalled' = TRUE
    /\ appStopPc' = [appStopPc EXCEPT !["handler"] = "app"]
    /\ UNCHANGED <<mainPc, ok, run, thread, appRun, hub, deviceId, requestSocket>>

Stop(s, from, to) ==
    /\ s = "main" => MainRuns
    /\ appStopPc[s] = from
    /\ appStopPc' = [appStopPc EXCEPT ![s] = to]

FaultyStopApp(s) ==   \* fault: _run stays set
    /\ Stop(s, "app", "request")
    /\ UNCHANGED <<mainPc, ok, signalled, run, thread, appRun, hub, deviceId, requestSocket>>

StopApp(s) ==
    /\ Stop(s, "app", "request")
    /\ appRun' = FALSE
    /\ UNCHANGED <<mainPc, ok, signalled, run, thread, hub, deviceId, requestSocket>>

ClearRun(s, w, from, to) ==
    /\ Stop(s, from, to)
    /\ run' = [run EXCEPT ![w] = FALSE]
    /\ UNCHANGED <<mainPc, ok, signalled, thread, appRun, hub, deviceId, requestSocket>>

\* A thread not yet started is not alive, and is not joined by these two.
JoinIfAlive(w) == thread[w] \in {"none", "new", "done"}

JoinRequest(s) ==
    /\ Stop(s, "requestJoin", "idle") /\ JoinIfAlive("request")
    /\ requestSocket' = "closed"
    /\ UNCHANGED <<mainPc, ok, signalled, run, thread, appRun, hub, deviceId>>

JoinIdle(s) ==
    /\ Stop(s, "idleJoin", "peripheral") /\ thread["idle"] \in {"none", "done"}
    /\ UNCHANGED <<mainPc, ok, signalled, run, thread, appRun, hub, deviceId, requestSocket>>

JoinPeripheral(s) ==
    /\ Stop(s, "peripheralJoin", IF hub = "none" THEN "publish" ELSE "hub")
    /\ JoinIfAlive("peripheral")
    /\ UNCHANGED <<mainPc, ok, signalled, run, thread, appRun, hub, deviceId, requestSocket>>

FaultyJoinHub(s) ==   \* fault: the connection is closed before the thread is joined
    /\ Stop(s, "hubJoin", "publish")
    /\ hub' = "closed"
    /\ UNCHANGED <<mainPc, ok, signalled, run, thread, appRun, deviceId, requestSocket>>

JoinHub(s) ==
    /\ Stop(s, "hubJoin", "publish") /\ thread["hub"] = "done"
    /\ hub' = "closed"
    /\ UNCHANGED <<mainPc, ok, signalled, run, thread, appRun, deviceId, requestSocket>>

StopPublish(s) ==
    /\ Stop(s, "publish", "done")
    /\ UNCHANGED <<mainPc, ok, signalled, run, thread, appRun, hub, deviceId, requestSocket>>

\* join() on a thread that has been created and not started raises: the rest of
\* the stop is left out, and so is the main thread's work, unless it is in the
\* first poll, whose `except Exception` swallows the exception.
JoinRaises(s) ==
    /\ \/ appStopPc[s] = "idleJoin" /\ thread["idle"] = "new"
       \/ appStopPc[s] = "hubJoin" /\ thread["hub"] = "new"
    /\ s = "main" => MainRuns
    /\ appStopPc' = [appStopPc EXCEPT ![s] = "done"]
    /\ mainPc' = IF s = "handler" /\ mainPc = "hubPoll" THEN "hubThread" ELSE "crashed"
    /\ UNCHANGED <<ok, signalled, run, thread, appRun, hub, deviceId, requestSocket>>

AppStopStep(s) ==
    \/ StopApp(s)
    \/ ClearRun(s, "request", "request", "requestJoin") \/ JoinRequest(s)
    \/ ClearRun(s, "idle", "idle", "idleJoin") \/ JoinIdle(s)
    \/ ClearRun(s, "peripheral", "peripheral", "peripheralJoin") \/ JoinPeripheral(s)
    \/ ClearRun(s, "hub", "hub", "hubJoin") \/ JoinHub(s)
    \/ JoinRaises(s) \/ StopPublish(s)

AppNext ==
    \/ MainStep \/ StartRaises
    \/ \E w \in Worker : WorkerEnds(w)
    \/ HubShutdown \/ Receive \/ Answer
    \/ SignalComes
    \/ \E s \in Stopper : AppStopStep(s)

AppSpec == AppInit /\ [][AppNext]_appVars

-----------------------------------------------------------------------------
\* Neither the thread that answers a client's request nor the polling thread
\* finds the hub's connection closed under it: a stop ends the request server
\* first and joins the polling thread before it disconnects, and a start that
\* goes on after a stop cannot bind the server (App.stop, HubConnection.stop).
HubOutlivesItsUsers ==
    /\ thread["request"] = "serving" => hub = "open"
    /\ hub = "closed" => thread["hub"] \in {"new", "done"}
=============================================================================

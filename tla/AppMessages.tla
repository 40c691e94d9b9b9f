---------------------------- MODULE AppMessages ----------------------------
(***************************************************************************)
(* App.start and App.stop together with the publishing server they start   *)
(* and stop: the workers publish from their threads, the main thread when  *)
(* it is ready, and App.stop ends with stop_listening, in the signal's     *)
(* handler or, after a failed start, in main().  AppLifecycle and          *)
(* PublishServer keep their actions; this module says which of them go     *)
(* together and who waits for whom.                                        *)
(***************************************************************************)
EXTENDS AppLifecycle, PublishServer

ASSUME ServiceAssumption == Main = "main" /\ Thread \subseteq {"main"} \cup Worker

VARIABLES
    greeted,     \* App.start has called publish_pitopd_ready
    stopper      \* whose App.stop is inside stop_listening: "main", "handler" or "none"

callVars == <<greeted, stopper>>
serviceVars == <<appVars, vars, callVars>>

ServiceInit == AppInit /\ Init /\ greeted = FALSE /\ stopper = "none"

\* start_listening, the first thing that App.start calls.
StartListening ==
    /\ UNCHANGED callVars
    /\ \/ mainPc = "publish" /\ MainRuns /\ StartAcquire /\ UNCHANGED appVars
       \/ Bind /\ PublishStart /\ (pc'[Main] = "failed" <=> mainPc' = "returned")

\* READY=1, emit_messages and publish_pitopd_ready, before the workers are started.
BecomeReady ==
    /\ mainPc = "ready" /\ MainRuns /\ UNCHANGED <<appVars, stopper>>
    /\ \/ (Announce \/ EmitMessages) /\ UNCHANGED greeted
       \/ ~greeted /\ CheckReady(Main) /\ greeted' = TRUE

MainAcquires == MainRuns /\ SendAcquire(Main) /\ UNCHANGED <<appVars, callVars>>

MainSends ==
    /\ MainRuns
    /\ CheckShutdown(Main) \/ Send(Main) \/ SendRelease(Main)
    /\ UNCHANGED <<appVars, callVars>>

MainElsewhere ==
    /\ mainPc # "publish"
    /\ mainPc = "ready" => greeted /\ pc[Main] = "idle"
    /\ MainStep
    /\ UNCHANGED <<vars, callVars>>

\* App.start raises before it tells systemd that it is ready.
MainRaises == pc[Main] = "starting" /\ StartRaises /\ UNCHANGED <<vars, callVars>>

-----------------------------------------------------------------------------
\* A worker publishes from its thread, the request server's while it answers.
Publishing(w) ==
    /\ w \in Thread
    /\ thread[w] = IF w = "request" THEN "serving" ELSE "running"
    /\ UNCHANGED <<appVars, callVars>>

WorkerChecks(w) == Publishing(w) /\ CheckReady(w)
WorkerAcquires(w) == Publishing(w) /\ SendAcquire(w)
WorkerSends(w) == Publishing(w) /\ (CheckShutdown(w) \/ Send(w) \/ SendRelease(w))

\* It goes on with its own work when the message is out.
Outside(w) == w \in Thread => pc[w] = "idle"

LeaveThread(w) == WorkerEnds(w) /\ Outside(w) /\ UNCHANGED <<vars, callVars>>
Serve == Receive /\ UNCHANGED <<vars, callVars>>
AnswerRequest == Answer /\ Outside("request") /\ UNCHANGED <<vars, callVars>>
ShutDownHub == HubShutdown /\ Outside("hub") /\ UNCHANGED <<vars, callVars>>

-----------------------------------------------------------------------------
SignalApp == SignalComes /\ UNCHANGED <<vars, callVars>>

StopWorkers(s) ==
    /\ appStopPc[s] # "publish"
    /\ AppStopStep(s)
    /\ UNCHANGED <<vars, callVars>>

\* stop_listening.  The second of two stops takes the lock, finds the server shut
\* down and its socket closed, and leaves it so; but the lock is not reentrant, and
\* a handler that has interrupted the main thread's own stop waits for it in vain.
AtServer(s) == appStopPc[s] = "publish" /\ (s = "main" => MainRuns) /\ UNCHANGED greeted

StopTakesLock(s) == AtServer(s) /\ StopAcquire /\ stopper' = s /\ UNCHANGED appVars

StopServer(s) ==
    /\ AtServer(s)
    /\ \/ Signal /\ UNCHANGED <<appVars, stopper>>
       \/ stopper = s /\ (SetShuttingDown \/ Close) /\ UNCHANGED <<appVars, stopper>>
       \/ stopper = s /\ StopRelease /\ StopPublish(s) /\ stopper' = "none"
       \/ stopPc = "done" /\ lock = Nobody /\ StopPublish(s) /\ UNCHANGED <<vars, stopper>>

MainThread == StartListening \/ BecomeReady \/ MainSends \/ MainElsewhere

ServiceNext ==
    \/ MainThread \/ MainAcquires \/ MainRaises
    \/ \E w \in Worker : WorkerChecks(w) \/ WorkerAcquires(w) \/ WorkerSends(w) \/ LeaveThread(w)
    \/ Serve \/ AnswerRequest \/ ShutDownHub
    \/ SignalApp
    \/ \E s \in Stopper : StopWorkers(s) \/ StopTakesLock(s) \/ StopServer(s)

\* The threads are scheduled, and a free lock goes to each of those who wait for
\* it in the end; nobody has to publish, requests and signals need not come.
ServiceFairness ==
    /\ WF_serviceVars(MainThread) /\ SF_serviceVars(MainAcquires)
    /\ WF_serviceVars(\E w \in Worker : WorkerSends(w))
    /\ \A w \in Worker \cap Thread : SF_serviceVars(WorkerAcquires(w)) /\ SF_serviceVars(LeaveThread(w) /\ ~run[w])
    /\ \A w \in Worker \ Thread : WF_serviceVars(LeaveThread(w) /\ ~run[w])
    /\ SF_serviceVars(LeaveThread("request") /\ requestSocket = "closed")
    /\ SF_serviceVars(AnswerRequest)
    /\ WF_serviceVars(\E s \in Stopper : StopWorkers(s) \/ StopServer(s))
    /\ SF_serviceVars(\E s \in Stopper : StopTakesLock(s))

ServiceSpec == ServiceInit /\ [][ServiceNext]_serviceVars /\ ServiceFairness

-----------------------------------------------------------------------------
\* What keeps a stop from ending the process: it found the idle monitor created
\* and not started, so that join() raised and the other threads go on; it was over
\* before the polling was started, and App.start, which nothing stops, has raised
\* since; or it found the main thread with the server's lock, and waits for it.
LeftWithItsThreads == mainPc = "crashed" /\ thread["idle"] = "new"
StoppedTooEarly == mainPc = "raised" /\ appStopPc["handler"] = "done" /\ run["hub"]
WaitsForItself ==
    /\ appStopPc["handler"] \notin {"none", "done"}
    /\ lock = Main \/ stopper = "main"

\* Whatever the main thread is doing, a signal and a start that returns False end
\* the process, whoever is publishing, joined or answering a request, and a signal
\* does so after App.start has raised too; but for the three cases above.
StopEnds ==
    signalled \/ mainPc = "returned"
        ~> \/ mainPc \in {"ended", "endedByException"}
           \/ LeftWithItsThreads \/ StoppedTooEarly \/ WaitsForItself
=============================================================================

------------------------- MODULE AppMessagesProofs -------------------------
(***************************************************************************)
(* Theorems about App.start and App.stop, and about the whole of App and   *)
(* publishing server: AppMessages takes no step that AppLifecycle and      *)
(* PublishServer do not know, so that what is proved of each of them holds *)
(* of the service.                                                         *)
(***************************************************************************)
EXTENDS AppMessages, TLAPS

-----------------------------------------------------------------------------
\* The publishing server, for any number of publishing threads and for a signal
\* that comes anywhere.

\* A thread is inside the server exactly as long as it holds the lock.
LockHeldInside ==
    /\ \A t \in Thread : pc[t] \in Inside <=> lock = t
    /\ stopPc \in StopInside <=> lock = Handler

\* The socket is closed under the lock and after shuttingDown has been set, so
\* that a thread that has found shuttingDown unset still has it open.
ClosedInStop ==
    /\ socket = "closed" => shuttingDown
    /\ shuttingDown <=> stopPc \in {"close", "release", "done"}
    /\ \A t \in Thread : pc[t] = "send" => ~shuttingDown

\* A thread that has passed the first test has seen the socket and the flag.
CheckedIsReady ==
    /\ \A t \in Thread :
          pc[t] \in {"checked", "locked", "send", "release"} => socket # "none" /\ emitMessages
    /\ emitMessages => announced
    /\ pc[Main] = "announcing" => announced
    /\ sent => announced

\* The inductive invariant.
PublishInv == TypeOK /\ LockHeldInside /\ ClosedInStop /\ CheckedIsReady

-----------------------------------------------------------------------------
LEMMA InitInv == Init => PublishInv
  BY ThreadAssumption DEF Init, PublishInv, TypeOK, LockHeldInside, ClosedInStop,
     CheckedIsReady, Inside, StopInside

LEMMA StepInv == PublishInv /\ [Next]_vars => PublishInv'
  <1> USE ThreadAssumption DEF PublishInv, Inside, StopInside
  <1> SUFFICES ASSUME PublishInv, [Next]_vars
               PROVE  PublishInv'
    OBVIOUS
  <1>1. CASE Start
    <2>1. TypeOK'
      BY <1>1 DEF Start, StartAcquire, Bind, Announce, EmitMessages, Step, Acquire, Release, TypeOK
    <2>2. LockHeldInside'
      BY <1>1 DEF Start, StartAcquire, Bind, Announce, EmitMessages, Step, Acquire, Release,
                  TypeOK, LockHeldInside
    <2>3. ClosedInStop'
      BY <1>1 DEF Start, StartAcquire, Bind, Announce, EmitMessages, Step, Acquire, Release,
                  TypeOK, LockHeldInside, ClosedInStop
    <2>4. CheckedIsReady'
      BY <1>1 DEF Start, StartAcquire, Bind, Announce, EmitMessages, Step, Acquire, Release,
                  TypeOK, CheckedIsReady
    <2> QED
      BY <2>1, <2>2, <2>3, <2>4
  <1>2. CASE \E t \in Thread : SendMessage(t)
    <2>1. PICK t \in Thread : SendMessage(t)
      BY <1>2
    <2>2. TypeOK'
      BY <2>1 DEF SendMessage, CheckReady, SendAcquire, CheckShutdown, Send, SendRelease, Step,
                  Acquire, Release, TypeOK
    <2>3. LockHeldInside'
      BY <2>1 DEF SendMessage, CheckReady, SendAcquire, CheckShutdown, Send, SendRelease, Step,
                  Acquire, Release, TypeOK, LockHeldInside
    <2>4. ClosedInStop'
      BY <2>1 DEF SendMessage, CheckReady, SendAcquire, CheckShutdown, Send, SendRelease, Step,
                  Acquire, Release, TypeOK, ClosedInStop
    <2>5. CheckedIsReady'
      BY <2>1 DEF SendMessage, CheckReady, SendAcquire, CheckShutdown, Send, SendRelease, Step,
                  Acquire, Release, TypeOK, CheckedIsReady
    <2> QED
      BY <2>2, <2>3, <2>4, <2>5
  <1>3. CASE Signal
    BY <1>3 DEF Signal, StopStep, TypeOK, LockHeldInside, ClosedInStop, CheckedIsReady
  <1>4. CASE StopListening
    <2>1. TypeOK'
      BY <1>4 DEF StopListening, StopAcquire, SetShuttingDown, Close, StopRelease, StopStep,
                  Acquire, Release, TypeOK
    <2>2. LockHeldInside'
      BY <1>4 DEF StopListening, StopAcquire, SetShuttingDown, Close, StopRelease, StopStep,
                  Acquire, Release, TypeOK, LockHeldInside
    <2>3. ClosedInStop'
      BY <1>4 DEF StopListening, StopAcquire, SetShuttingDown, Close, StopRelease, StopStep,
                  Acquire, Release, TypeOK, LockHeldInside, ClosedInStop
    <2>4. CheckedIsReady'
      BY <1>4 DEF StopListening, StopAcquire, SetShuttingDown, Close, StopRelease, StopStep,
                  Acquire, Release, TypeOK, CheckedIsReady
    <2> QED
      BY <2>1, <2>2, <2>3, <2>4
  <1>5. CASE UNCHANGED vars
    BY <1>5 DEF vars, TypeOK, LockHeldInside, ClosedInStop, CheckedIsReady
  <1> QED
    BY <1>1, <1>2, <1>3, <1>4, <1>5 DEF Next

-----------------------------------------------------------------------------
\* PublishInv holds in every reachable state.
THEOREM Invariance == Spec => []PublishInv
  BY InitInv, StepInv, PTL DEF Spec

\* One thread at a time uses the socket, the handler of the stop included.
THEOREM SocketHasOneUser == Spec => []OneUserOfTheSocket
  <1>1. PublishInv => OneUserOfTheSocket
    BY ThreadAssumption DEF PublishInv, LockHeldInside, OneUserOfTheSocket
  <1> QED
    BY <1>1, Invariance, PTL

\* No message is sent on a closed socket, wherever the stop comes in.
THEOREM SendsOnOpenSocket == Spec => []NeverSendsOnClosedSocket
  <1>1. PublishInv => NeverSendsOnClosedSocket
    BY DEF PublishInv, TypeOK, ClosedInStop, CheckedIsReady, NeverSendsOnClosedSocket
  <1> QED
    BY <1>1, Invariance, PTL

\* No message reaches the clients before systemd has been told READY=1.
THEOREM SilentBeforeReady == Spec => []SilentUntilReady
  <1>1. PublishInv => SilentUntilReady
    BY DEF PublishInv, CheckedIsReady, SilentUntilReady
  <1> QED
    BY <1>1, Invariance, PTL

-----------------------------------------------------------------------------
\* App.start and App.stop.

MainPlace ==
    {"publish", "connect", "hubStart", "hubPoll", "hubThread", "identify", "ready", "peripheralThread",
     "idleCreate", "idleStart", "idleThread", "bind", "requestStart", "requestThread", "loop",
     "returned", "stop", "exit", "raised", "crashed", "ended", "endedByException"}
StopPlace ==
    {"none", "app", "request", "requestJoin", "idle", "idleJoin", "peripheral", "peripheralJoin",
     "hub", "hubJoin", "publish", "done"}
ThreadState == {"none", "new", "running", "serving", "done"}

AppTypeOK ==
    /\ mainPc \in MainPlace /\ ok \in BOOLEAN
    /\ appStopPc \in [Stopper -> StopPlace]
    /\ run \in [Worker -> BOOLEAN]
    /\ thread \in [Worker -> ThreadState]
    /\ hub \in {"none", "open", "closed"}
    /\ requestSocket \in {"new", "bound", "closed"}

\* How far a start has come shows in what it has made.
BeforeHub == {"publish", "connect"}
BeforePolling == BeforeHub \cup {"hubStart", "hubPoll", "hubThread"}
WithHub ==
    {"hubStart", "hubPoll", "hubThread", "identify", "ready", "peripheralThread", "idleCreate", "idleStart",
     "idleThread", "bind", "requestStart", "requestThread", "loop"}

StartedInOrder ==
    /\ mainPc \in BeforeHub => hub = "none"
    /\ mainPc \in WithHub => hub # "none"
    /\ mainPc \in BeforePolling => \A w \in Worker : thread[w] \in {"none", "new"}
    /\ thread["hub"] = "new" => mainPc \in {"hubStart", "hubPoll", "hubThread", "crashed", "endedByException"}

\* The request server is closed before the hub, and never opened again.
ClosedInOrder ==
    /\ \A s \in Stopper :
          appStopPc[s] \in {"idle", "idleJoin", "peripheral", "peripheralJoin", "hub", "hubJoin", "publish", "done"}
              => requestSocket = "closed"
    /\ hub = "closed" => requestSocket = "closed" /\ thread["hub"] = "done"
    /\ requestSocket = "bound" => hub # "none"
    /\ thread["request"] = "serving" => requestSocket = "bound"

\* The inductive invariant.
AppInv == AppTypeOK /\ StartedInOrder /\ ClosedInOrder

-----------------------------------------------------------------------------
LEMMA AppInitInv == AppInit => AppInv
  BY DEF AppInit, AppInv, AppTypeOK, StartedInOrder, ClosedInOrder, MainPlace, StopPlace, ThreadState,
         BeforeHub, BeforePolling, WithHub, Worker, Stopper

LEMMA MainStepInv ==
    ASSUME AppInv, MainStep
    PROVE  AppInv'
  <1> USE DEF AppInv, AppTypeOK, StartedInOrder, ClosedInOrder, MainPlace, StopPlace, ThreadState,
              BeforeHub, BeforePolling, WithHub, Worker, Stopper, MainGoes, Fails, Goes
  <1>1. CASE PublishStart
    BY <1>1 DEF PublishStart
  <1>2. CASE ConnectToHub
    BY <1>2 DEF ConnectToHub
  <1>3. CASE NoHub
    BY <1>3 DEF NoHub
  <1>4. CASE HubStart
    <2>1. CASE SetRun("hub", "hubStart", "hubPoll")
      BY <2>1 DEF SetRun
    <2>2. CASE FirstPoll
      BY <2>2 DEF FirstPoll
    <2>3. CASE StartThread("hub", "hubThread", "identify")
      BY <2>3 DEF StartThread
    <2> QED
      BY <1>4, <2>1, <2>2, <2>3 DEF HubStart
  <1>5. CASE Identify
    BY <1>5 DEF Identify
  <1>6. CASE PeripheralStart
    BY <1>6 DEF PeripheralStart, SetRun, StartThread
  <1>7. CASE IdleStart
    BY <1>7 DEF IdleStart, CreateIdleThread, SetRun, StartThread
  <1>8. CASE RequestStart
    BY <1>8 DEF RequestStart, BindRequests, SetRun, StartThread
  <1>9. CASE LeaveLoop \/ Stopped \/ Exit
    BY <1>9 DEF LeaveLoop, Stopped, Exit
  <1>10. CASE Returned
    BY <1>10 DEF Returned
  <1> QED
    BY <1>1, <1>2, <1>3, <1>4, <1>5, <1>6, <1>7, <1>8, <1>9, <1>10 DEF MainStep

LEMMA ThreadsInv ==
    ASSUME AppInv,
           StartRaises \/ (\E w \in Worker : WorkerEnds(w)) \/ HubShutdown \/ Receive \/ Answer \/ SignalComes
    PROVE  AppInv'
  <1> USE DEF AppInv, AppTypeOK, StartedInOrder, ClosedInOrder, MainPlace, StopPlace, ThreadState,
              BeforeHub, BeforePolling, WithHub, Worker, Stopper
  <1>1. CASE \E w \in Worker : WorkerEnds(w)
    BY <1>1 DEF WorkerEnds
  <1>2. CASE HubShutdown
    BY <1>2 DEF HubShutdown
  <1>3. CASE Receive
    BY <1>3 DEF Receive
  <1>4. CASE Answer
    BY <1>4 DEF Answer
  <1>5. CASE SignalComes
    BY <1>5 DEF SignalComes
  <1>6. CASE StartRaises
    BY <1>6 DEF StartRaises, MainGoes, Goes
  <1> QED
    BY <1>1, <1>2, <1>3, <1>4, <1>5, <1>6

LEMMA StopStepInv ==
    ASSUME AppInv, NEW s \in Stopper, AppStopStep(s)
    PROVE  AppInv'
  <1> USE DEF AppInv, AppTypeOK, StartedInOrder, ClosedInOrder, MainPlace, StopPlace, ThreadState,
              BeforeHub, BeforePolling, WithHub, Worker, Stopper, Stop
  <1>1. CASE StopApp(s) \/ StopPublish(s)
    BY <1>1 DEF StopApp, StopPublish
  <1>2. CASE ClearRun(s, "request", "request", "requestJoin")
    BY <1>2 DEF ClearRun
  <1>3. CASE ClearRun(s, "idle", "idle", "idleJoin")
    BY <1>3 DEF ClearRun
  <1>4. CASE ClearRun(s, "peripheral", "peripheral", "peripheralJoin")
    BY <1>4 DEF ClearRun
  <1>5. CASE ClearRun(s, "hub", "hub", "hubJoin")
    BY <1>5 DEF ClearRun
  <1>6. CASE JoinRequest(s)
    BY <1>6 DEF JoinRequest, JoinIfAlive
  <1>7. CASE JoinIdle(s) \/ JoinPeripheral(s)
    BY <1>7 DEF JoinIdle, JoinPeripheral
  <1>8. CASE JoinHub(s)
    BY <1>8 DEF JoinHub
  <1>9. CASE JoinRaises(s)
    BY <1>9 DEF JoinRaises
  <1> QED
    BY <1>1, <1>2, <1>3, <1>4, <1>5, <1>6, <1>7, <1>8, <1>9 DEF AppStopStep

LEMMA AppStepInv == AppInv /\ [AppNext]_appVars => AppInv'
  <1> SUFFICES ASSUME AppInv, [AppNext]_appVars
               PROVE  AppInv'
    OBVIOUS
  <1>1. CASE UNCHANGED appVars
    BY <1>1 DEF appVars, AppInv, AppTypeOK, StartedInOrder, ClosedInOrder
  <1> QED
    BY <1>1, MainStepInv, ThreadsInv, StopStepInv DEF AppNext

-----------------------------------------------------------------------------
\* The thread that answers a client and the one that polls never find the hub's
\* connection closed, wherever a signal finds App.start.
THEOREM HubIsOpenForItsUsers == AppSpec => []HubOutlivesItsUsers
  <1>1. AppInv => HubOutlivesItsUsers
    BY DEF AppInv, AppTypeOK, StartedInOrder, ClosedInOrder, HubOutlivesItsUsers
  <1> QED
    BY <1>1, AppInitInv, AppStepInv, PTL DEF AppSpec

-----------------------------------------------------------------------------
LEMMA ServiceIsApp == [ServiceNext]_serviceVars => [AppNext]_appVars
  <1> SUFFICES ASSUME [ServiceNext]_serviceVars
               PROVE  AppNext \/ UNCHANGED appVars
    OBVIOUS
  <1>1. CASE MainThread \/ MainAcquires \/ MainRaises
    <2>1. StartListening => AppNext \/ UNCHANGED appVars
      BY DEF StartListening, AppNext, MainStep
    <2>2. BecomeReady \/ MainSends \/ MainAcquires => UNCHANGED appVars
      BY DEF BecomeReady, MainSends, MainAcquires
    <2>3. MainElsewhere \/ MainRaises => AppNext
      BY DEF MainElsewhere, MainRaises, AppNext
    <2> QED
      BY <1>1, <2>1, <2>2, <2>3 DEF MainThread
  <1>2. ASSUME NEW w \in Worker, WorkerChecks(w) \/ WorkerAcquires(w) \/ WorkerSends(w) \/ LeaveThread(w)
        PROVE  AppNext \/ UNCHANGED appVars
    BY <1>2 DEF WorkerChecks, WorkerAcquires, WorkerSends, Publishing, LeaveThread, AppNext
  <1>3. CASE Serve \/ AnswerRequest \/ ShutDownHub \/ SignalApp
    BY <1>3 DEF Serve, AnswerRequest, ShutDownHub, SignalApp, AppNext
  <1>4. ASSUME NEW s \in Stopper, StopWorkers(s) \/ StopTakesLock(s) \/ StopServer(s)
        PROVE  AppNext \/ UNCHANGED appVars
    BY <1>4 DEF StopWorkers, StopTakesLock, StopServer, AppStopStep, AppNext
  <1>5. CASE UNCHANGED serviceVars
    BY <1>5 DEF serviceVars
  <1> QED
    BY <1>1, <1>2, <1>3, <1>4, <1>5 DEF ServiceNext

LEMMA ServiceIsServer == [ServiceNext]_serviceVars => [Next]_vars
  <1> SUFFICES ASSUME [ServiceNext]_serviceVars
               PROVE  Next \/ UNCHANGED vars
    OBVIOUS
  <1>1. CASE MainThread \/ MainAcquires \/ MainRaises
    <2>1. StartListening \/ MainElsewhere \/ MainRaises => Next \/ UNCHANGED vars
      BY DEF StartListening, MainElsewhere, MainRaises, Next, Start
    <2>2. BecomeReady \/ MainSends \/ MainAcquires => Next
      BY ThreadAssumption DEF BecomeReady, MainSends, MainAcquires, Next, Start, SendMessage
    <2> QED
      BY <1>1, <2>1, <2>2 DEF MainThread
  <1>2. ASSUME NEW w \in Worker, WorkerChecks(w) \/ WorkerAcquires(w) \/ WorkerSends(w)
        PROVE  Next
    <2>1. w \in Thread
      BY <1>2 DEF WorkerChecks, WorkerAcquires, WorkerSends, Publishing
    <2> QED
      BY <1>2, <2>1 DEF WorkerChecks, WorkerAcquires, WorkerSends, Next, SendMessage
  <1>3. ASSUME NEW w \in Worker, LeaveThread(w)
        PROVE  UNCHANGED vars
    BY <1>3 DEF LeaveThread
  <1>4. CASE Serve \/ AnswerRequest \/ ShutDownHub \/ SignalApp
    BY <1>4 DEF Serve, AnswerRequest, ShutDownHub, SignalApp
  <1>5. ASSUME NEW s \in Stopper, StopWorkers(s) \/ StopTakesLock(s) \/ StopServer(s)
        PROVE  Next \/ UNCHANGED vars
    BY <1>5 DEF StopWorkers, StopTakesLock, StopServer, Next, StopListening
  <1>6. CASE UNCHANGED serviceVars
    BY <1>6 DEF serviceVars
  <1> QED
    BY <1>1, <1>2, <1>3, <1>4, <1>5, <1>6 DEF ServiceNext

\* The service does nothing that App.start, App.stop and the threads could not do
\* by themselves.
THEOREM ServiceImplementsApp == ServiceSpec => AppSpec
  BY ServiceIsApp, PTL DEF ServiceSpec, ServiceInit, AppSpec

\* Nor anything that the publishing server could not do for threads of its own.
THEOREM ServiceImplementsServer == ServiceSpec => Spec
  BY ServiceIsServer, PTL DEF ServiceSpec, ServiceInit, Spec

\* So the service keeps what is proved of either: the hub outlives those who use
\* it, the socket has one user and is open when it is sent on, and no client hears
\* a message before READY.
THEOREM ServiceIsSafe ==
    ServiceSpec => /\ []HubOutlivesItsUsers
                   /\ []OneUserOfTheSocket /\ []NeverSendsOnClosedSocket /\ []SilentUntilReady
  BY ServiceImplementsApp, ServiceImplementsServer, HubIsOpenForItsUsers, SocketHasOneUser, SendsOnOpenSocket,
     SilentBeforeReady, PTL
=============================================================================

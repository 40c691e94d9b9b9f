------------------------- MODULE IdleMonitorProofs -------------------------
(***************************************************************************)
(* Theorems about IdleMonitor, for all cycles, timeouts and idle times.    *)
(***************************************************************************)
EXTENDS IdleMonitor, TLAPS

\* Since the last reading the user has given input, or idletime has gone on.
IdleSinceReading ==
    harmless /\ alive /\ monitoring /\ timeout > 0 =>
        \/ idletime <= cycle - timer
        \/ previous <= idletime /\ idletime <= previous + (cycle - timer)

\* The cycle is the sensitive one exactly as long as the screen is blanked, unless
\* a crash has left it so.
CycleMatchesScreen ==
    /\ harmless => cycle = IF blanked THEN SensitiveCycle ELSE DefaultCycle
    /\ monitoring => timer <= cycle
    /\ ~monitoring => previous = 0 /\ (harmless => ~blanked)

\* The screen is on the side of the timeout on which the last reading is.
ScreenMatchesReading == blanked <=> timeout > 0 /\ previous > timeout

\* As long as no change has crossed the last reading, the screen follows them.
SteadyScreen == harmless => (alive => ScreenMatchesReading)

\* The inductive invariant.
IdleInv == TypeOK /\ IdleSinceReading /\ CycleMatchesScreen /\ SteadyScreen

-----------------------------------------------------------------------------
LEMMA InitInv == Init => IdleInv
  <1> SUFFICES ASSUME Init
               PROVE  IdleInv
    OBVIOUS
  <1>1. TypeOK
    <2>1. monitoring \in BOOLEAN /\ alive \in BOOLEAN /\ blanked \in BOOLEAN
      BY Zenon DEF Init
    <2> QED
      BY <2>1, IdleAssumption DEF Init, TypeOK
  <1>2. IdleSinceReading /\ CycleMatchesScreen
    BY DEF Init, IdleSinceReading, CycleMatchesScreen
  <1>3. SteadyScreen
    BY <1>1, IdleAssumption DEF Init, TypeOK, SteadyScreen, ScreenMatchesReading
  <1> QED
    BY <1>1, <1>2, <1>3 DEF IdleInv

\* One cycle of the monitor keeps the screen on the side of its reading.
LEMMA CheckSteady ==
  ASSUME IdleInv, CheckIdletime
  PROVE  SteadyScreen'
  <1> SUFFICES ASSUME harmless'
               PROVE  ScreenMatchesReading'
    BY Zenon DEF SteadyScreen
  <1>1. TypeOK /\ ScreenMatchesReading /\ timer = 0 /\ alive /\ harmless
    BY DEF IdleInv, SteadyScreen, CheckIdletime
  <1>2. CASE timeout = 0
    BY <1>1, <1>2 DEF CheckIdletime, ScreenMatchesReading
  <1>3. CASE timeout > 0
    <2>1. Emit /\ previous' = idletime /\ timeout' = timeout
      BY <1>3 DEF CheckIdletime
    <2>2. monitoring /\ previous > timeout /\ idletime < previous => idletime <= timeout
      BY <1>1, <1>3, IdleAssumption
         DEF IdleInv, TypeOK, IdleSinceReading, CycleMatchesScreen,
             ScreenMatchesReading
    <2>3. previous > timeout => monitoring
      BY <1>1, <1>3, IdleAssumption DEF IdleInv, TypeOK, CycleMatchesScreen
    <2> QED
      BY <1>1, <1>3, <2>1, <2>2, <2>3, IdleAssumption
         DEF Emit, TimeoutExpired, TimeoutAlreadyExpired, IdletimeReset, ScreenMatchesReading, TypeOK
  <1> QED
    BY <1>1, <1>2, <1>3, IdleAssumption DEF TypeOK

LEMMA StepInv == IdleInv /\ [Next]_vars => IdleInv'
  <1> SUFFICES ASSUME IdleInv, [Next]_vars
               PROVE  IdleInv'
    OBVIOUS
  <1> USE IdleAssumption DEF IdleInv
  <1>1. CASE Tick
    BY <1>1 DEF Tick, TypeOK, IdleSinceReading, CycleMatchesScreen, SteadyScreen, ScreenMatchesReading
  <1>2. CASE UserInput
    BY <1>2 DEF UserInput, TypeOK, IdleSinceReading, CycleMatchesScreen, SteadyScreen,
                ScreenMatchesReading
  <1>3. CASE CheckIdletime
    <2>1. TypeOK'
      <3>1. blanked' \in BOOLEAN
        BY <1>3, Zenon DEF CheckIdletime, Emit, TypeOK
      <3> QED
        BY <1>3, <3>1 DEF CheckIdletime, Emit, TypeOK
    <2>2. IdleSinceReading'
      BY <1>3 DEF CheckIdletime, Emit, TypeOK, IdleSinceReading
    <2>3. CycleMatchesScreen'
      BY <1>3 DEF CheckIdletime, Emit, TypeOK, CycleMatchesScreen
    <2>4. SteadyScreen'
      BY <1>3, CheckSteady
    <2> QED
      BY <2>1, <2>2, <2>3, <2>4
  <1>4. CASE XprintidleFails
    BY <1>4 DEF XprintidleFails, TypeOK, IdleSinceReading, CycleMatchesScreen, SteadyScreen
  <1>5. ASSUME NEW t \in Timeout, SetConfiguredTimeout(t)
        PROVE  IdleInv'
    BY <1>5 DEF SetConfiguredTimeout, TypeOK, IdleSinceReading, CycleMatchesScreen,
                SteadyScreen, ScreenMatchesReading
  <1>6. CASE Restart
    <2>1. TypeOK'
      <3>1. blanked' \in BOOLEAN /\ harmless' \in BOOLEAN
        BY <1>6, Zenon DEF Restart
      <3>2. /\ previous' = 0 /\ cycle' = DefaultCycle /\ timer' = StartupWait
            /\ idletime' = idletime /\ timeout' = timeout /\ monitoring' = FALSE /\ alive' = TRUE
        BY <1>6, Zenon DEF Restart
      <3>3. idletime' \in 0..MaxIdle /\ previous' \in 0..MaxIdle /\ timeout' \in Timeout
        BY <3>2 DEF TypeOK
      <3>4. cycle' \in {DefaultCycle, SensitiveCycle} /\ timer' \in Nat /\ timer' <= StartupWait
        BY <3>2
      <3> QED
        BY <3>1, <3>2, <3>3, <3>4, Zenon DEF TypeOK
    <2>2. IdleSinceReading'
      BY <1>6 DEF Restart, IdleSinceReading
    <2>3. harmless' => ~blanked'
      BY <1>6, Zenon DEF Restart
    <2>4. CycleMatchesScreen'
      BY <1>6, <2>3 DEF Restart, CycleMatchesScreen
    <2>5. SteadyScreen'
      <3>1. ~(timeout' > 0 /\ previous' > timeout')
        BY <1>6 DEF Restart, TypeOK
      <3> QED
        BY <2>3, <3>1, Zenon DEF SteadyScreen, ScreenMatchesReading
    <2> QED
      BY <2>1, <2>2, <2>4, <2>5
  <1>7. CASE UNCHANGED vars
    BY <1>7 DEF vars, TypeOK, IdleSinceReading, CycleMatchesScreen, SteadyScreen, ScreenMatchesReading
  <1> QED
    BY <1>1, <1>2, <1>3, <1>4, <1>5, <1>6, <1>7 DEF Next

-----------------------------------------------------------------------------
\* IdleInv holds in every reachable state.
THEOREM Invariance == Spec => []IdleInv
  BY InitInv, StepInv, PTL DEF Spec

\* The screen of an inactive user is dark one cycle after the timeout at the
\* latest, across every harmless change of the timeout (_main_thread_loop).
THEOREM InactiveScreenDims == Spec => []DimsWhenInactive
  <1>1. IdleInv => DimsWhenInactive
    BY IdleAssumption
       DEF IdleInv, TypeOK, IdleSinceReading, CycleMatchesScreen, SteadyScreen,
           ScreenMatchesReading, DimsWhenInactive
  <1> QED
    BY <1>1, Invariance, PTL

\* And the screen of an active user is dark for one sensitive cycle at most.
THEOREM ActiveScreenIsLit == Spec => []DarkOnlyWhenInactive
  <1>1. IdleInv => DarkOnlyWhenInactive
    BY IdleAssumption
       DEF IdleInv, TypeOK, IdleSinceReading, CycleMatchesScreen, SteadyScreen,
           ScreenMatchesReading, DarkOnlyWhenInactive
  <1> QED
    BY <1>1, Invariance, PTL
=============================================================================

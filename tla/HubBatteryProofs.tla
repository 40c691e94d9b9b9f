-------------------------- MODULE HubBatteryProofs --------------------------
(***************************************************************************)
(* What the runs of PowerManager show for small constants, proved for all; *)
(* then the three hubs and the policy: whatever a hub's thread reads and   *)
(* when, it calls the power manager as PowerManager has it called, so that *)
(* what is proved of the policy holds with each hub in front of it.        *)
(***************************************************************************)
EXTENDS HubBattery, TLAPS

(***************************************************************************)
(* The strengthening.  A counter is the length, up to Reads, of the series *)
(* of low reports that ends now; a shutdown was commanded once or never;   *)
(* and a warning that is overdue is overdue because a more severe step has *)
(* taken its slot, each such step once.                                    *)
(***************************************************************************)
CountersMatchReports ==
    \A level \in Level :
        /\ LowThroughout(level, counter[level])
        /\ counter[level] < Reads => level \notin recent[counter[level] + 1]

ShutdownMatches ==
    /\ commands = IF shutdownInitiated THEN 1 ELSE 0
    /\ counter["shutdown"] = Reads => shutdownInitiated

CriticalSlot ==
    counter["critical"] = Reads /\ "critical" \notin shown =>
        shutdownInitiated /\ "critical" \notin recent[Reads + 1]

WarningSlots ==
    counter["warning"] = Reads /\ "warning" \notin shown =>
        \/ "warning" \notin recent[Reads + 1] /\ (shutdownInitiated \/ "critical" \in shown)
        \/ "warning" \notin recent[Reads + 2] /\ shutdownInitiated /\ "critical" \in shown

PowerInv ==
    /\ PowerTypeOK
    /\ CountersMatchReports
    /\ ShutdownMatches
    /\ CriticalSlot
    /\ WarningSlots

USE ThresholdAssumption, ReadsAssumption, CapacityAssumption, DeviceAssumption

\* Recording a report shifts the series by one: it is n + 1 long afterwards
\* exactly if the report is low and n reports before it were.
LEMMA RecordShifts ==
    ASSUME PowerTypeOK, NEW levels \in SUBSET Level, Record(levels)
    PROVE  /\ recent' \in [1..Window -> SUBSET Level]
           /\ recent'[1] = levels
           /\ \A i \in 1..Window - 1 : recent'[i + 1] = recent[i]
  BY DEF PowerTypeOK, Record, Window

LEMMA InitInv == PowerInit => PowerInv
  <1> SUFFICES ASSUME PowerInit PROVE PowerInv
    OBVIOUS
  <1> USE DEF PowerInit
  <1>1. PowerTypeOK
    <2>1. recent \in [1..Window -> SUBSET Level]
      OBVIOUS
    <2>2. counter \in [Level -> 0..Reads]
      OBVIOUS
    <2>3. commands \in 0..MaxCommands
      BY DEF MaxCommands
    <2>4. shown \subseteq Warning /\ shutdownInitiated \in BOOLEAN /\ requested \in BOOLEAN
      OBVIOUS
    <2>5. deviceId \in DeviceID
      OBVIOUS
    <2>6. batteryCapacity \in Capacity \cup {Undefined} /\ batteryCharging \in ChargingState \cup {Undefined}
      OBVIOUS
    <2> QED
      BY <2>1, <2>2, <2>3, <2>4, <2>5, <2>6 DEF PowerTypeOK
  <1>2. CountersMatchReports
    BY DEF CountersMatchReports, LowThroughout, Window
  <1>3. ShutdownMatches /\ CriticalSlot /\ WarningSlots
    BY DEF ShutdownMatches, CriticalSlot, WarningSlots, Level
  <1> QED
    BY <1>1, <1>2, <1>3 DEF PowerInv

\* The counters keep measuring the series, whatever the report says.
LEMMA ReportCounters ==
    ASSUME PowerInv, NEW charging \in ChargingState, NEW capacity \in Capacity,
           OnHubBatteryStateChanged(charging, capacity)
    PROVE  /\ counter' \in [Level -> 0..Reads]
           /\ \A level \in Level :
                counter'[level] = IF level \in LowFor(charging, capacity)
                                    THEN Increment(counter[level]) ELSE 0
           /\ CountersMatchReports'
  <1> DEFINE levels == LowFor(charging, capacity)
  <1>1. levels \in SUBSET Level /\ Record(levels)
    BY DEF OnHubBatteryStateChanged, LowFor
  <1> HIDE DEF levels
  <1>2. /\ recent' \in [1..Window -> SUBSET Level]
        /\ recent'[1] = levels
        /\ \A i \in 1..Window - 1 : recent'[i + 1] = recent[i]
    BY <1>1, RecordShifts DEF PowerInv
  <1>3. counter' = [level \in Level |-> IF level \in levels THEN Increment(counter[level]) ELSE 0]
    BY DEF levels, LowFor, OnHubBatteryStateChanged, ProcessBatteryState,
           ResetCounters, UpdateCountersFromBatteryState
  <1>4. counter' \in [Level -> 0..Reads]
    BY <1>3 DEF PowerInv, PowerTypeOK, Increment
  <1>5. ASSUME NEW level \in Level
        PROVE  /\ LowThroughout(level, counter[level])'
               /\ counter'[level] < Reads => level \notin recent'[counter'[level] + 1]
    <2>1. /\ counter[level] \in 0..Reads
          /\ \A i \in 1..counter[level] : level \in recent[i]
          /\ counter[level] < Reads => level \notin recent[counter[level] + 1]
      BY DEF PowerInv, PowerTypeOK, CountersMatchReports, LowThroughout
    <2>2. CASE level \notin levels
      BY <1>2, <1>3, <2>2 DEF LowThroughout
    <2>3. CASE level \in levels
      <3>1. counter'[level] = Increment(counter[level])
        BY <1>3, <2>3
      <3>2. \A i \in 1..counter'[level] : level \in recent'[i]
        <4> TAKE i \in 1..counter'[level]
        <4>1. CASE i = 1
          BY <1>2, <2>3, <4>1
        <4>2. CASE i # 1
          <5>1. i - 1 \in 1..counter[level] /\ i - 1 \in 1..Window - 1
            BY <2>1, <3>1, <4>2 DEF Increment, Window
          <5>2. recent'[i] = recent[i - 1]
            BY <1>2, <5>1
          <5> QED
            BY <2>1, <5>1, <5>2
        <4> QED
          BY <4>1, <4>2
      <3>3. ASSUME counter'[level] < Reads
            PROVE  level \notin recent'[counter'[level] + 1]
        <4>1. counter[level] < Reads /\ counter'[level] = counter[level] + 1
          BY <2>1, <3>1, <3>3 DEF Increment
        <4>2. counter'[level] \in 1..Window - 1
          BY <2>1, <4>1 DEF Window
        <4> QED
          BY <1>2, <2>1, <4>1, <4>2
      <3> QED
        BY <3>2, <3>3 DEF LowThroughout
    <2> QED
      BY <2>2, <2>3
  <1> QED
    BY <1>3, <1>4, <1>5 DEF CountersMatchReports, levels

\* A warning that is due and not given was kept back by the step given instead.
LEMMA ReportSteps ==
    ASSUME PowerInv, NEW charging \in ChargingState, NEW capacity \in Capacity,
           OnHubBatteryStateChanged(charging, capacity)
    PROVE  ShutdownMatches' /\ CriticalSlot' /\ WarningSlots'
  <1>1. /\ counter \in [Level -> 0..Reads]
        /\ counter' \in [Level -> 0..Reads]
        /\ \A level \in Level : counter'[level] = Reads => counter[level] \in {Reads - 1, Reads}
    BY ReportCounters DEF Increment, PowerInv, PowerTypeOK
  <1>2. \A i \in 1..Window - 1 : recent'[i + 1] = recent[i]
    <2>1. PowerTypeOK /\ LowFor(charging, capacity) \in SUBSET Level /\ Record(LowFor(charging, capacity))
      BY DEF LowFor, PowerInv, OnHubBatteryStateChanged
    <2> QED
      BY <2>1, RecordShifts
  <1>3. /\ \A level \in Level : counter[level] = Reads - 1 => level \notin recent'[Reads + 1]
        /\ recent'[Reads + 2] = recent[Reads + 1]
    <2>1. recent'[Reads + 1] = recent[Reads] /\ recent'[Reads + 2] = recent[Reads + 1]
      BY <1>2 DEF Window
    <2> QED
      BY <2>1 DEF PowerInv, CountersMatchReports
  <1>4. ShutdownMatches /\ CriticalSlot /\ WarningSlots
    BY DEF PowerInv
  <1>5. CASE StateIsSafe(charging)
    BY <1>4, <1>5 DEF OnHubBatteryStateChanged, ProcessBatteryState, ResetCounters,
                      ShutdownMatches, CriticalSlot, WarningSlots, Level
  <1>6. CASE ~StateIsSafe(charging)
    <2>1. TakeMostSevereStep
      BY <1>6 DEF OnHubBatteryStateChanged, ProcessBatteryState
    <2>2. ShutdownMatches'
      BY <1>4, <2>1 DEF TakeMostSevereStep, ShutdownMatches, Shutdown, MaxCommands, Maxed
    <2>3. CriticalSlot'
      BY <1>1, <1>3, <1>4, <2>1
         DEF TakeMostSevereStep, CriticalSlot, Shutdown, Maxed, WarningDue, Level
    <2>4. WarningSlots'
      BY <1>1, <1>3, <1>4, <2>1
         DEF TakeMostSevereStep, WarningSlots, Shutdown, Maxed, WarningDue, Level
    <2> QED
      BY <2>2, <2>3, <2>4
  <1> QED
    BY <1>5, <1>6

LEMMA ShutdownTypeOK ==
    ASSUME PowerTypeOK, Shutdown
    PROVE  shutdownInitiated' \in BOOLEAN /\ commands' \in 0..MaxCommands
  <1>1. commands \in 0..3 /\ shutdownInitiated \in BOOLEAN
    BY DEF PowerTypeOK, MaxCommands
  <1>2. CASE shutdownInitiated
    BY <1>1, <1>2 DEF Shutdown, MaxCommands
  <1>3. CASE ~shutdownInitiated
    BY <1>1, <1>3 DEF Shutdown, MaxCommands
  <1> QED
    BY <1>2, <1>3

LEMMA ReportTypeOK ==
    ASSUME PowerInv, NEW charging \in ChargingState, NEW capacity \in Capacity,
           OnHubBatteryStateChanged(charging, capacity)
    PROVE  PowerTypeOK'
  <1>1. PowerTypeOK
    BY DEF PowerInv
  <1>2. recent' \in [1..Window -> SUBSET Level]
    <2>1. LowFor(charging, capacity) \in SUBSET Level /\ Record(LowFor(charging, capacity))
      BY DEF LowFor, OnHubBatteryStateChanged
    <2> QED
      BY <1>1, <2>1, RecordShifts
  <1>3. counter' \in [Level -> 0..Reads]
    BY ReportCounters
  <1>4. shown' \subseteq Warning
    BY <1>1 DEF PowerTypeOK, OnHubBatteryStateChanged, ProcessBatteryState, ResetCounters,
                TakeMostSevereStep, Warning
  <1>5. shutdownInitiated' \in BOOLEAN /\ commands' \in 0..MaxCommands
    <2>1. CASE Shutdown
      BY <1>1, <2>1, ShutdownTypeOK
    <2>2. CASE UNCHANGED <<shutdownInitiated, commands>>
      BY <1>1, <2>2 DEF PowerTypeOK
    <2> QED
      BY <2>1, <2>2 DEF OnHubBatteryStateChanged, ProcessBatteryState, ResetCounters,
                        TakeMostSevereStep
  <1> QED
    BY <1>1, <1>2, <1>3, <1>4, <1>5 DEF PowerTypeOK, OnHubBatteryStateChanged

\* The inductive step, one action at a time.
LEMMA StepInv == PowerInv /\ [PowerNext]_powerVars => PowerInv'
  <1> SUFFICES ASSUME PowerInv, [PowerNext]_powerVars PROVE PowerInv'
    OBVIOUS
  <1>1. CASE \E charging \in ChargingState, capacity \in Capacity :
                OnHubBatteryStateChanged(charging, capacity)
    BY <1>1, ReportTypeOK, ReportCounters, ReportSteps DEF PowerInv
  <1>2. CASE OnHubShutdownRequested
    <2> USE <1>2 DEF PowerInv, OnHubShutdownRequested
    <2>1. PowerTypeOK'
      BY ShutdownTypeOK DEF PowerTypeOK
    <2>2. CountersMatchReports'
      BY DEF CountersMatchReports, LowThroughout
    <2>3. ShutdownMatches' /\ shutdownInitiated'
      BY DEF ShutdownMatches, Shutdown, MaxCommands
    <2>4. CriticalSlot' /\ WarningSlots'
      BY <2>3 DEF CriticalSlot, WarningSlots
    <2> QED
      BY <2>1, <2>2, <2>3, <2>4
  <1>3. CASE \E id \in DeviceID : SetDeviceId(id)
    BY <1>3 DEF PowerInv, SetDeviceId, PowerTypeOK, CountersMatchReports,
                LowThroughout, ShutdownMatches, CriticalSlot, WarningSlots
  <1>4. CASE UNCHANGED powerVars
    BY <1>4 DEF PowerInv, powerVars, PowerTypeOK, CountersMatchReports,
                LowThroughout, ShutdownMatches, CriticalSlot, WarningSlots
  <1> QED
    BY <1>1, <1>2, <1>3, <1>4 DEF PowerNext

\* PowerInv is an invariant: the fact every theorem below rests on.
THEOREM Invariance == PowerSpec => []PowerInv
  BY InitInv, StepInv, PTL DEF PowerSpec

\* The state keeps its types in every reachable state.
THEOREM TypeCorrect == PowerSpec => []PowerTypeOK
  <1>1. PowerInv => PowerTypeOK
    BY DEF PowerInv
  <1> QED
    BY <1>1, Invariance, PTL

\* `shutdown -h now` is run once at most, whoever asks for it and how often.
THEOREM ShutdownCommandedOnce == PowerSpec => []OneShutdownCommand
  <1>1. PowerInv => OneShutdownCommand
    BY DEF PowerInv, ShutdownMatches, OneShutdownCommand
  <1> QED
    BY <1>1, Invariance, PTL

\* A series of Reads low reports has shut the machine down by its last report.
THEOREM ShutdownNeverLate == PowerSpec => []NeverLate
  <1>1. PowerInv => NeverLate
    BY DEF PowerInv, PowerTypeOK, CountersMatchReports, ShutdownMatches, NeverLate,
           LowThroughout, Level, Window
  <1> QED
    BY <1>1, Invariance, PTL

\* A warning is at most one report late for each level more severe than its own.
THEOREM WarningsNotStarved == PowerSpec => []NoWarningStarved
  <1>1. ASSUME PowerInv, NEW level \in Level, LowThroughout(level, Reads)
        PROVE  counter[level] = Reads
    <2>1. counter[level] \in 0..Reads
      BY <1>1 DEF PowerInv, PowerTypeOK
    <2>2. \A i \in 1..Reads : level \in recent[i]
      BY <1>1 DEF LowThroughout
    <2> QED
      BY <1>1, <2>1, <2>2 DEF PowerInv, CountersMatchReports
  <1>2. ASSUME NEW level \in Level, NEW n \in {1, 2}, LowThroughout(level, Reads + n)
        PROVE  LowThroughout(level, Reads) /\ \A i \in 1..n : level \in recent[Reads + i]
    BY <1>2 DEF LowThroughout
  <1>3. PowerInv => NoWarningStarved
    BY <1>1, <1>2 DEF PowerInv, CriticalSlot, WarningSlots, NoWarningStarved, Level
  <1> QED
    BY <1>3, Invariance, PTL

\* Only a full series, or the hub's request, shuts the machine down.
THEOREM ShutdownVerified == PowerSpec => ShutdownOnlyWhenVerified
  <1>1. PowerInv /\ PowerInv' /\ [PowerNext]_powerVars =>
          [commands' # commands /\ ~requested' => LowThroughout("shutdown", Reads)']_powerVars
    <2> SUFFICES ASSUME PowerInv, PowerInv', PowerNext, commands' # commands, ~requested'
                 PROVE  LowThroughout("shutdown", Reads)'
      OBVIOUS
    <2>1. PICK charging \in ChargingState, capacity \in Capacity :
                OnHubBatteryStateChanged(charging, capacity)
      BY DEF PowerNext, OnHubShutdownRequested, SetDeviceId
    <2>2. counter'["shutdown"] = Reads
      BY <2>1 DEF OnHubBatteryStateChanged, ProcessBatteryState, ResetCounters,
                  TakeMostSevereStep, Maxed
    <2> QED
      BY <2>2 DEF PowerInv, CountersMatchReports, LowThroughout, Level
  <1> QED
    BY <1>1, Invariance, PTL DEF PowerSpec, ShutdownOnlyWhenVerified

\* Only a full series of its own level gives a warning.
THEOREM WarningVerified == PowerSpec => WarnedOnlyWhenVerified
  <1>1. PowerInv /\ PowerInv' /\ [PowerNext]_powerVars =>
          [\A level \in shown' \ shown : LowThroughout(level, Reads)']_powerVars
    <2> SUFFICES ASSUME PowerInv, PowerInv', PowerNext, NEW level \in shown' \ shown
                 PROVE  LowThroughout(level, Reads)'
      OBVIOUS
    <2>1. PICK charging \in ChargingState, capacity \in Capacity :
                OnHubBatteryStateChanged(charging, capacity)
      BY DEF PowerNext, OnHubShutdownRequested, SetDeviceId
    <2>2. counter'[level] = Reads /\ level \in Level
      BY <2>1 DEF OnHubBatteryStateChanged, ProcessBatteryState, ResetCounters,
                  TakeMostSevereStep, WarningDue, Maxed, Level
    <2> QED
      BY <2>2 DEF PowerInv, CountersMatchReports, LowThroughout
  <1> QED
    BY <1>1, Invariance, PTL DEF PowerSpec, WarnedOnlyWhenVerified

\* The policy implements SafeShutdown: the warnings it gives on the way neither
\* hasten nor delay the shutdown.
THEOREM Implements == PowerSpec => ImplementsSafeShutdown
  <1>1. PowerInit => Safe!Init
    BY DEF PowerInit, Safe!Init, Level
  <1>2. PowerInv /\ PowerInv' /\ [PowerNext]_powerVars => [Safe!Next]_Safe!safeVars
    <2> SUFFICES ASSUME PowerInv, PowerInv', [PowerNext]_powerVars
                 PROVE  [Safe!Next]_Safe!safeVars
      OBVIOUS
    <2>1. ASSUME NEW charging \in ChargingState, NEW capacity \in Capacity,
                 OnHubBatteryStateChanged(charging, capacity)
          PROVE  Safe!Next
      <3>1. CASE StateIsSafe(charging)
        BY <2>1, <3>1 DEF OnHubBatteryStateChanged, ProcessBatteryState, ResetCounters,
                          Safe!Next, Safe!GoodReport, Level
      <3>2. CASE ~StateIsSafe(charging)
        BY <2>1, <3>2 DEF OnHubBatteryStateChanged, ProcessBatteryState, PowerInv, PowerTypeOK,
             ShutdownMatches, UpdateCountersFromBatteryState, TakeMostSevereStep, Maxed, Increment,
             Shutdown, Safe!Next, Safe!GoodReport, Safe!LowReport, Level
      <3> QED
        BY <3>1, <3>2
    <2>2. CASE OnHubShutdownRequested
      BY <2>2 DEF OnHubShutdownRequested, Shutdown, Safe!Next, Safe!HubRequest, PowerInv, PowerTypeOK
    <2>3. ASSUME NEW id \in DeviceID, SetDeviceId(id)
          PROVE  UNCHANGED Safe!safeVars
      BY <2>3 DEF SetDeviceId, Safe!safeVars
    <2>4. CASE UNCHANGED powerVars
      BY <2>4 DEF powerVars, Safe!safeVars
    <2> QED
      BY <2>1, <2>2, <2>3, <2>4 DEF PowerNext
  <1> QED
    BY <1>1, <1>2, Invariance, PTL DEF PowerSpec, ImplementsSafeShutdown, Safe!Spec

-----------------------------------------------------------------------------

Fields ==
    [charging : ChargingState \cup {Undefined}, capacity : Capacity \cup {Undefined},
     time : Time \cup {Undefined}, wattage : Wattage \cup {0, Undefined}]

HubTypeOK ==
    /\ hub \in Hub /\ polling \in BOOLEAN
    /\ hubState \in Fields /\ reading \in Fields

Known == /\ batteryCapacity = hubState.capacity
         /\ batteryCharging = hubState.charging

\* Where each hub is on the way from a reading to State and from State to the policy.
FirstFollows == hub = "v1" /\ batteryCapacity # Undefined => FullyDefined(hubState) /\ Known

SecondFollows ==
    hub = "v2" =>
        /\ FullyDefined(hubState) => Known
        /\ pc \in {"poll", "battery", "charging", "capacity", "time", "wattage"}
        /\ pc \in {"poll", "battery"} => hubState = reading
        /\ reading = NotRead \/ reading \in Reading
        /\ pc \in {"charging", "capacity", "time", "wattage"} => reading \in Reading
        /\ pc \in {"capacity", "time", "wattage"} => hubState.charging = reading.charging
        /\ pc \in {"time", "wattage"} => hubState.capacity = reading.capacity
        /\ pc = "wattage" => hubState.time = reading.time

ThirdFollows ==
    hub = "v3" =>
        /\ FullyDefined(hubState) => Known
        /\ pc \in {"poll", "control"}
        /\ hubState = reading
        /\ reading = NotRead \/ reading \in Reading

\* A shutdown was begun before the polling ends, and with every request.
StoppedInOrder ==
    hub # "v1" => (~polling => shutdownInitiated) /\ (requested => shutdownInitiated /\ ~polling)

HubFollows == HubTypeOK /\ FirstFollows /\ SecondFollows /\ ThirdFollows /\ StoppedInOrder

\* A hub with one thread runs the command when it sets the flag.  The first hub's
\* two threads have each run it once at most: the flag is set when the first of them
\* is through, and no thread that comes later gets past the test.
ShutdownOnce == commands = IF shutdownInitiated THEN 1 ELSE 0

OneIf(condition) == IF condition THEN 1 ELSE 0

CallsInOrder ==
    /\ calls \in [V1!Thread -> {"none", "check", "run", "set"}]
    /\ commands + OneIf(calls["spi"] = "run") + OneIf(calls["i2c"] = "run") <= 2
    /\ IF shutdownInitiated
         THEN commands >= 1
         ELSE commands = OneIf(calls["spi"] = "set") + OneIf(calls["i2c"] = "set")
    /\ calls["spi"] # "none" => requested
    /\ requested /\ calls["spi"] = "none" => shutdownInitiated

CallsFollow == IF hub = "v1" THEN CallsInOrder ELSE ShutdownOnce

\* The inductive invariant.
HubInv == HubFollows /\ PowerTypeOK /\ CallsFollow

-----------------------------------------------------------------------------
\* What each hub's thread calls is the same code.
LEMMA Calls1 ==
    /\ \A state : V1!Report(state) <=> Report(state)
    /\ \A id : V1!SetDeviceId(id) <=> SetDeviceId(id)
  BY DEF V1!Report, Report, V1!FullyDefined, FullyDefined, V1!OnHubBatteryStateChanged,
         OnHubBatteryStateChanged, V1!ProcessBatteryState, ProcessBatteryState, V1!StateIsSafe,
         StateIsSafe, V1!ResetCounters, ResetCounters, V1!UpdateCountersFromBatteryState,
         UpdateCountersFromBatteryState, V1!TakeMostSevereStep, TakeMostSevereStep, V1!Record,
         Record, V1!LowFor, LowFor, V1!Shutdown, Shutdown, V1!powerVars, powerVars, V1!Maxed, Maxed,
         V1!WarningDue, WarningDue, V1!Increment, Increment, V1!UnderThreshold, UnderThreshold,
         V1!Field, Field, V1!Undefined, Undefined, V1!Level, Level, V1!Window, Window,
         V1!MaxCommands, MaxCommands, V1!Discharging, Discharging, V1!SetDeviceId, SetDeviceId

\* A report of the first hub that goes into shutdown(), and one that does not.
Due(state) ==
    /\ FullyDefined(state) /\ ~StateIsSafe(state.charging)
    /\ UnderThreshold(state.capacity, "shutdown") /\ Increment(counter["shutdown"]) = Reads
    /\ ~shutdownInitiated

IntoShutdown(state) ==
    /\ batteryCapacity' = state.capacity /\ batteryCharging' = state.charging
    /\ UpdateCountersFromBatteryState(state.capacity)
    /\ Record(LowFor(state.charging, state.capacity))
    /\ calls' = [calls EXCEPT !["i2c"] = "check"]
    /\ UNCHANGED <<deviceId, shown, shutdownInitiated, commands, requested>>

LEMMA SetField1 ==
    ASSUME NEW field, NEW value, V1!SetField(field, value)
    PROVE  /\ hubState' = [hubState EXCEPT ![field] = value] /\ reading' = hubState'
           /\ UNCHANGED <<polling, started>>
           /\ \/ hubState' = hubState /\ UNCHANGED <<powerVars, calls>>
              \/ hubState' # hubState /\ Due(hubState') /\ IntoShutdown(hubState')
              \/ hubState' # hubState /\ ~Due(hubState') /\ Report(hubState') /\ UNCHANGED calls
  <1>1. V1!ShutdownDue(hubState') <=> Due(hubState')
    BY DEF V1!ShutdownDue, Due, V1!FullyDefined, FullyDefined, V1!Field, Field, V1!Undefined, Undefined,
           V1!StateIsSafe, StateIsSafe, V1!Discharging, Discharging, V1!UnderThreshold, UnderThreshold,
           V1!Maxed, V1!Increment, Increment
  <1>2. V1!ReportIntoShutdown(hubState') <=> IntoShutdown(hubState')
    BY DEF V1!ReportIntoShutdown, IntoShutdown, V1!UpdateCountersFromBatteryState,
           UpdateCountersFromBatteryState, V1!UnderThreshold, UnderThreshold, V1!Increment, Increment,
           V1!Record, Record, V1!LowFor, LowFor, V1!StateIsSafe, StateIsSafe, V1!Discharging, Discharging,
           V1!Window, Window, V1!Level, Level, V1!Goto
  <1> QED
    BY <1>1, <1>2, Calls1 DEF V1!SetField, V1!powerVars, powerVars

LEMMA PowerTypeStep ==
    ASSUME PowerTypeOK, PowerNext \/ UNCHANGED powerVars
    PROVE  PowerTypeOK'
  <1>1. ASSUME NEW charging \in ChargingState, NEW capacity \in Capacity,
               OnHubBatteryStateChanged(charging, capacity)
        PROVE  PowerTypeOK'
    <2>1. recent' \in [1..Window -> SUBSET Level]
      BY <1>1, RecordShifts DEF OnHubBatteryStateChanged, LowFor
    <2>2. counter' \in [Level -> 0..Reads]
      BY <1>1 DEF OnHubBatteryStateChanged, ProcessBatteryState, ResetCounters,
                  UpdateCountersFromBatteryState, Increment, PowerTypeOK
    <2>3. shown' \subseteq Warning
      BY <1>1 DEF OnHubBatteryStateChanged, ProcessBatteryState, ResetCounters, TakeMostSevereStep,
                  Warning, PowerTypeOK
    <2>4. shutdownInitiated' \in BOOLEAN /\ commands' \in 0..MaxCommands
      <3>1. Shutdown \/ UNCHANGED <<shutdownInitiated, commands>>
        BY <1>1 DEF OnHubBatteryStateChanged, ProcessBatteryState, ResetCounters, TakeMostSevereStep
      <3> QED
        BY <3>1, ShutdownTypeOK DEF PowerTypeOK
    <2> QED
      BY <1>1, <2>1, <2>2, <2>3, <2>4 DEF OnHubBatteryStateChanged, PowerTypeOK
  <1>2. CASE OnHubShutdownRequested
    BY <1>2, ShutdownTypeOK DEF OnHubShutdownRequested, PowerTypeOK
  <1>3. CASE \E id \in DeviceID : SetDeviceId(id)
    BY <1>3 DEF SetDeviceId, PowerTypeOK
  <1>4. CASE UNCHANGED powerVars
    BY <1>4 DEF powerVars, PowerTypeOK
  <1> QED
    BY <1>1, <1>2, <1>3, <1>4 DEF PowerNext

LEMMA OnceStep ==
    ASSUME ShutdownOnce, PowerNext \/ UNCHANGED powerVars
    PROVE  ShutdownOnce'
  <1>1. Shutdown \/ UNCHANGED <<shutdownInitiated, commands>>
    BY DEF PowerNext, OnHubBatteryStateChanged, ProcessBatteryState, ResetCounters, TakeMostSevereStep,
           OnHubShutdownRequested, SetDeviceId, powerVars
  <1> QED
    BY <1>1 DEF ShutdownOnce, Shutdown, MaxCommands

\* A report that does not go into shutdown() leaves it alone altogether.
LEMMA QuietReport ==
    ASSUME NEW state \in Fields, PowerTypeOK, Report(state), ~Due(state)
    PROVE  UNCHANGED <<shutdownInitiated, commands, requested>>
  <1>1. CASE FullyDefined(state) /\ ~StateIsSafe(state.charging)
    <2>1. UpdateCountersFromBatteryState(state.capacity) /\ TakeMostSevereStep /\ requested' = requested
      BY <1>1 DEF Report, OnHubBatteryStateChanged, ProcessBatteryState
    <2>2. Maxed(counter'["shutdown"]) => shutdownInitiated
      BY <1>1, <2>1 DEF Due, UpdateCountersFromBatteryState, Maxed, Level
    <2> QED
      BY <2>1, <2>2 DEF TakeMostSevereStep
  <1>2. CASE FullyDefined(state) /\ StateIsSafe(state.charging)
    BY <1>2 DEF Report, OnHubBatteryStateChanged, ProcessBatteryState, ResetCounters
  <1>3. CASE ~FullyDefined(state)
    BY <1>3 DEF Report, powerVars
  <1> QED
    BY <1>1, <1>2, <1>3

LEMMA IntoShutdownStep ==
    ASSUME NEW state \in Fields, PowerTypeOK, Due(state), IntoShutdown(state)
    PROVE  /\ PowerTypeOK' /\ counter'["shutdown"] = Reads
           /\ batteryCapacity' = state.capacity /\ batteryCharging' = state.charging
           /\ UNCHANGED <<shutdownInitiated, commands, requested>>
  <1>1. recent' \in [1..Window -> SUBSET Level]
    BY RecordShifts DEF IntoShutdown, LowFor
  <1>2. counter' \in [Level -> 0..Reads] /\ counter'["shutdown"] = Reads
    BY DEF IntoShutdown, Due, UpdateCountersFromBatteryState, Increment, Level, PowerTypeOK
  <1>3. state.capacity \in Capacity /\ state.charging \in ChargingState
    BY DEF Due, FullyDefined, Fields, Field
  <1> QED
    BY <1>1, <1>2, <1>3 DEF IntoShutdown, PowerTypeOK

LEMMA Calls2 ==
    /\ \A state : V2!Report(state) <=> Report(state)
    /\ V2!OnHubShutdownRequested <=> OnHubShutdownRequested
    /\ \A id : V2!SetDeviceId(id) <=> SetDeviceId(id)
  BY DEF V2!Report, Report, V2!FullyDefined, FullyDefined, V2!OnHubBatteryStateChanged,
         OnHubBatteryStateChanged, V2!ProcessBatteryState, ProcessBatteryState, V2!StateIsSafe,
         StateIsSafe, V2!ResetCounters, ResetCounters, V2!UpdateCountersFromBatteryState,
         UpdateCountersFromBatteryState, V2!TakeMostSevereStep, TakeMostSevereStep, V2!Record,
         Record, V2!LowFor, LowFor, V2!Shutdown, Shutdown, V2!powerVars, powerVars, V2!Maxed, Maxed,
         V2!WarningDue, WarningDue, V2!Increment, Increment, V2!UnderThreshold, UnderThreshold,
         V2!Field, Field, V2!Undefined, Undefined, V2!Level, Level, V2!Window, Window,
         V2!MaxCommands, MaxCommands, V2!Discharging, Discharging, V2!OnHubShutdownRequested,
         OnHubShutdownRequested, V2!SetDeviceId, SetDeviceId

LEMMA Calls3 ==
    /\ \A state : V3!Report(state) <=> Report(state)
    /\ V3!OnHubShutdownRequested <=> OnHubShutdownRequested
    /\ \A id : V3!SetDeviceId(id) <=> SetDeviceId(id)
  BY DEF V3!Report, Report, V3!FullyDefined, FullyDefined, V3!OnHubBatteryStateChanged,
         OnHubBatteryStateChanged, V3!ProcessBatteryState, ProcessBatteryState, V3!StateIsSafe,
         StateIsSafe, V3!ResetCounters, ResetCounters, V3!UpdateCountersFromBatteryState,
         UpdateCountersFromBatteryState, V3!TakeMostSevereStep, TakeMostSevereStep, V3!Record,
         Record, V3!LowFor, LowFor, V3!Shutdown, Shutdown, V3!powerVars, powerVars, V3!Maxed, Maxed,
         V3!WarningDue, WarningDue, V3!Increment, Increment, V3!UnderThreshold, UnderThreshold,
         V3!Field, Field, V3!Undefined, Undefined, V3!Level, Level, V3!Window, Window,
         V3!MaxCommands, MaxCommands, V3!Discharging, Discharging, V3!OnHubShutdownRequested,
         OnHubShutdownRequested, V3!SetDeviceId, SetDeviceId

LEMMA ReportStep ==
    ASSUME NEW state \in Fields, Report(state)
    PROVE  /\ PowerNext \/ UNCHANGED powerVars
           /\ (shutdownInitiated => shutdownInitiated') /\ requested' = requested
           /\ IF FullyDefined(state)
                THEN batteryCapacity' = state.capacity /\ batteryCharging' = state.charging
                ELSE UNCHANGED <<batteryCapacity, batteryCharging>>
  <1>1. CASE FullyDefined(state)
    <2>1. OnHubBatteryStateChanged(state.charging, state.capacity)
      BY <1>1 DEF Report
    <2>2. state.charging \in ChargingState /\ state.capacity \in Capacity
      BY <1>1 DEF FullyDefined, Fields, Field
    <2>3. shutdownInitiated => shutdownInitiated'
      BY <2>1 DEF OnHubBatteryStateChanged, ProcessBatteryState, ResetCounters, TakeMostSevereStep, Shutdown
    <2> QED
      BY <1>1, <2>1, <2>2, <2>3 DEF PowerNext, OnHubBatteryStateChanged
  <1>2. CASE ~FullyDefined(state)
    BY <1>2 DEF Report, powerVars
  <1> QED
    BY <1>1, <1>2

LEMMA RequestStep ==
    ASSUME OnHubShutdownRequested
    PROVE  PowerNext /\ shutdownInitiated' /\ requested' /\ UNCHANGED <<batteryCapacity, batteryCharging>>
  BY DEF OnHubShutdownRequested, PowerNext, Shutdown

LEMMA IdentifyStep ==
    ASSUME NEW id \in {"pi_top", "pi_top_3", "pi_top_4"}, SetDeviceId(id)
    PROVE  PowerNext /\ UNCHANGED <<batteryCapacity, batteryCharging, shutdownInitiated, requested>>
  <1>1. id \in DeviceID
    BY ReadingAssumption, DeviceAssumption
  <1> QED
    BY <1>1 DEF SetDeviceId, PowerNext

-----------------------------------------------------------------------------
\* Every step of a hub is one of the policy, or none for it, and keeps the invariant.
LEMMA FirstHub ==
    ASSUME HubInv, V1Does(V1!Next)
    PROVE  HubInv'
  <1> USE DEF HubInv, HubFollows, HubTypeOK, FirstFollows, SecondFollows, ThirdFollows, StoppedInOrder, V1Does,
              CallsFollow
  <1>0. calls["i2c"] \in {"none", "check", "run", "set"} /\ CallsInOrder
    BY DEF CallsInOrder, V1!Thread
  <1>1. CASE V1!IdentifyDevice("pi_top") /\ UNCHANGED calls
    <2>1. SetDeviceId("pi_top") /\ UNCHANGED reportVars
      BY <1>1, Calls1 DEF V1!IdentifyDevice, V1!reportVars, reportVars
    <2>2. PowerTypeOK' /\ UNCHANGED <<shutdownInitiated, commands, requested>>
      BY <2>1, IdentifyStep, PowerTypeStep DEF SetDeviceId
    <2> QED
      BY <1>1, <2>1, <2>2, IdentifyStep DEF reportVars, Known, FullyDefined, CallsInOrder
  \* While the battery thread is in shutdown() it reads nothing.
  <1>2. ASSUME NEW field \in Field, NEW value, V1!SetField(field, value), calls["i2c"] = "none",
               [hubState EXCEPT ![field] = value] \in Fields, FullyDefined(hubState) => value # Undefined
        PROVE  HubInv'
    <2>1. /\ hubState' = [hubState EXCEPT ![field] = value] /\ reading' = hubState'
          /\ UNCHANGED <<polling, started>>
          /\ \/ hubState' = hubState /\ UNCHANGED <<powerVars, calls>>
             \/ hubState' # hubState /\ Due(hubState') /\ IntoShutdown(hubState')
             \/ hubState' # hubState /\ ~Due(hubState') /\ Report(hubState') /\ UNCHANGED calls
      BY <1>2, SetField1
    <2>2. FullyDefined(hubState) => FullyDefined(hubState')
      BY <1>2, <2>1 DEF FullyDefined, Field, Fields
    <2>3. CASE hubState' = hubState /\ UNCHANGED <<powerVars, calls>>
      <3>1. PowerTypeOK'
        BY <2>3, PowerTypeStep
      <3> QED
        BY <1>2, <2>1, <2>3, <3>1 DEF powerVars, Known, FullyDefined, CallsInOrder
    <2>4. CASE Due(hubState') /\ IntoShutdown(hubState')
      <3>1. /\ PowerTypeOK' /\ Known' /\ FullyDefined(hubState')
            /\ UNCHANGED <<shutdownInitiated, commands, requested>>
        BY <1>2, <2>1, <2>4, IntoShutdownStep DEF Known, Due
      <3>2. CallsInOrder'
        BY <1>0, <1>2, <2>4, <3>1 DEF IntoShutdown, CallsInOrder, OneIf, V1!Thread
      <3> QED
        BY <1>2, <2>1, <3>1, <3>2
    <2>5. CASE ~Due(hubState') /\ Report(hubState') /\ UNCHANGED calls
      <3>1. UNCHANGED <<shutdownInitiated, commands, requested>> /\ PowerTypeOK'
        BY <1>2, <2>1, <2>5, QuietReport, ReportStep, PowerTypeStep
      <3>2. CallsInOrder'
        BY <1>0, <2>5, <3>1 DEF CallsInOrder, OneIf
      <3> QED
        BY <1>2, <2>1, <2>2, <2>5, <3>1, <3>2, ReportStep DEF Known
    <2> QED
      BY <2>1, <2>3, <2>4, <2>5
  <1>3. CASE V1!ReadCurrent /\ calls["i2c"] = "none"
    <2>1. PICK value \in ChargingState : V1!SetField("charging", value)
      BY <1>3 DEF V1!ReadCurrent, V1!Discharging, ChargingState
    <2>2. [hubState EXCEPT !["charging"] = value] \in Fields
      BY DEF Fields
    <2> QED
      BY <1>2, <1>3, <2>1, <2>2 DEF Field, ChargingState, Undefined
  <1>4. CASE V1!ReadCapacity /\ calls["i2c"] = "none"
    <2>1. PICK value \in Capacity : V1!SetField("capacity", value)
      BY <1>4 DEF V1!ReadCapacity
    <2>2. [hubState EXCEPT !["capacity"] = value] \in Fields /\ value # Undefined
      BY CapacityAssumption DEF Fields, Undefined
    <2> QED
      BY <1>2, <1>4, <2>1, <2>2 DEF Field
  <1>5. ASSUME UNCHANGED <<powerVars, calls, polling, hubState, reading>>
        PROVE  HubInv'
    <2>1. PowerTypeOK'
      BY <1>5, PowerTypeStep
    <2> QED
      BY <1>5, <2>1 DEF powerVars, Known, FullyDefined, CallsInOrder
  <1>6. CASE V1!EssentialReadFails
    BY <1>5, <1>6 DEF V1!EssentialReadFails, V1!powerVars, powerVars
  <1>7. CASE V1!ReadTime /\ calls["i2c"] = "none"
    <2>1. CASE UNCHANGED <<powerVars, calls, polling, started, hubState, reading>>
      BY <1>5, <2>1
    <2>2. ASSUME NEW value \in Time, V1!SetField("time", value)
          PROVE  HubInv'
      <3>1. [hubState EXCEPT !["time"] = value] \in Fields /\ value # Undefined
        BY ReadingAssumption DEF Fields, Undefined
      <3> QED
        BY <1>2, <1>7, <2>2, <3>1 DEF Field
    <2> QED
      BY <1>7, <2>1, <2>2 DEF V1!ReadTime, V1!powerVars, powerVars
  <1>8. CASE V1!SetWattage /\ calls["i2c"] = "none"
    <2>1. PICK value \in V1!Power : V1!SetField("wattage", value)
      BY <1>8 DEF V1!SetWattage
    <2>2. [hubState EXCEPT !["wattage"] = value] \in Fields /\ value # Undefined
      BY ReadingAssumption DEF V1!Power, Fields, Undefined
    <2> QED
      BY <1>2, <1>8, <2>1, <2>2 DEF Field
  <1>9. CASE V1!SpiShutdown
    <2>1. PowerTypeOK'
      BY <1>9 DEF V1!SpiShutdown, PowerTypeOK
    <2>2. CallsInOrder'
      BY <1>0, <1>9 DEF V1!SpiShutdown, V1!Goto, CallsInOrder, OneIf, V1!Thread
    <2> QED
      BY <1>9, <2>1, <2>2 DEF V1!SpiShutdown, V1!reportVars, Known, FullyDefined
  \* The steps of shutdown(), of either thread.
  <1>10. ASSUME NEW thread \in V1!Thread,
                V1!CheckInitiated(thread) \/ V1!RunCommand(thread) \/ V1!SetInitiated(thread)
         PROVE  HubInv'
    <2>1. UNCHANGED <<hub, polling, hubState, reading, batteryCapacity, batteryCharging, requested>>
      BY <1>10 DEF V1!CheckInitiated, V1!RunCommand, V1!SetInitiated, V1!powerVars, V1!reportVars
    <2>2. PowerTypeOK' /\ CallsInOrder'
      <3> USE <1>0 DEF CallsInOrder, OneIf, V1!Thread, V1!Goto, PowerTypeOK, MaxCommands, V1!MaxCommands
      <3>1. CASE V1!CheckInitiated(thread)
        BY <1>10, <3>1 DEF V1!CheckInitiated, V1!powerVars
      <3>2. CASE V1!RunCommand(thread)
        BY <1>10, <3>2 DEF V1!RunCommand
      <3>3. CASE V1!SetInitiated(thread)
        BY <1>10, <3>3 DEF V1!SetInitiated
      <3> QED
        BY <1>10, <3>1, <3>2, <3>3
    <2> QED
      BY <2>1, <2>2 DEF Known, FullyDefined
  <1> QED
    BY <1>1, <1>3, <1>4, <1>6, <1>7, <1>8, <1>9, <1>10 DEF V1!Next, V1!RefreshBattery

LEMMA SecondHub ==
    ASSUME HubFollows, V2Does(V2!Next)
    PROVE  (PowerNext \/ UNCHANGED powerVars) /\ HubFollows'
  <1> USE DEF HubFollows, HubTypeOK, FirstFollows, SecondFollows, ThirdFollows, StoppedInOrder, V2Does
  <1>1. CASE V2!IdentifyDevice("pi_top_3")
    <2>1. SetDeviceId("pi_top_3") /\ UNCHANGED reportVars
      BY <1>1, Calls2 DEF V2!IdentifyDevice, V2!reportVars, reportVars
    <2> QED
      BY <2>1, IdentifyStep DEF reportVars, Known, FullyDefined
  <1>2. ASSUME NEW held \in BOOLEAN, V2!ReadShutdownControl(held)
        PROVE  (PowerNext \/ UNCHANGED powerVars) /\ HubFollows'
    <2>1. pc = "poll" /\ pc' = "battery" /\ UNCHANGED <<started, hubState, reading, lowReads>>
      BY <1>2 DEF V2!ReadShutdownControl
    <2>2. CASE OnHubShutdownRequested /\ polling' = FALSE
      BY <2>1, <2>2, RequestStep DEF Known, FullyDefined
    <2>3. CASE UNCHANGED <<powerVars, polling>>
      BY <2>1, <2>3 DEF Known, FullyDefined, powerVars
    <2> QED
      BY <1>2, <2>2, <2>3, Calls2 DEF V2!ReadShutdownControl, V2!EmitShutdown, V2!powerVars, powerVars
  <1>3. CASE V2!ReadBatteryRegisters
    <2>1. ASSUME NEW current \in {-1, 0, 1}, NEW rsoc \in Capacity, NEW full \in Time, NEW empty \in Time,
                 NEW wattage \in Wattage
          PROVE  V2!ValuesOf(current, rsoc, full, empty, wattage) \in Reading
      BY ReadingAssumption DEF V2!ValuesOf, Reading, ChargingState, V2!Discharging
    <2>2. reading' \in Reading /\ pc = "battery" /\ pc' = "charging" /\ UNCHANGED <<powerVars, polling, hubState>>
      BY <1>3, <2>1 DEF V2!ReadBatteryRegisters, V2!Read, V2!powerVars, powerVars
    <2>3. reading' \in Fields
      BY <2>2 DEF Reading, Fields
    <2> QED
      BY <2>2, <2>3 DEF Known, FullyDefined, powerVars
  <1>4. CASE V2!ReadFails
    BY <1>4 DEF V2!ReadFails, V2!powerVars, powerVars, Known, FullyDefined
  <1>5. ASSUME NEW field \in Field, V2!SetField(field)
        PROVE  (PowerNext \/ UNCHANGED powerVars) /\ HubFollows'
    <2>1. /\ pc = field /\ pc' = V2!After[field]
          /\ hubState' = [hubState EXCEPT ![field] = reading[field]]
          /\ IF hubState' # hubState THEN Report(hubState') ELSE UNCHANGED powerVars
          /\ UNCHANGED <<polling, reading, lowReads>>
      BY <1>5, Calls2 DEF V2!SetField, V2!powerVars, powerVars
    <2>2. reading \in Reading /\ reading \in Fields /\ hubState \in Fields
      BY <2>1 DEF Field
    <2>3. hubState' \in Fields
      BY <2>1, <2>2 DEF Fields, Field
    <2>4. SecondFollows'
      <3>1. FullyDefined(hubState') => Known'
        BY <2>1, <2>3, ReportStep DEF Known, powerVars
      <3>2. CASE field = "charging"
        BY <2>1, <2>2, <3>1, <3>2 DEF Fields, V2!After
      <3>3. CASE field = "capacity"
        BY <2>1, <2>2, <3>1, <3>3 DEF Fields, V2!After
      <3>4. CASE field = "time"
        BY <2>1, <2>2, <3>1, <3>4 DEF Fields, V2!After
      <3>5. CASE field = "wattage"
        BY <2>1, <2>2, <3>1, <3>5 DEF Fields, V2!After
      <3> QED
        BY <3>2, <3>3, <3>4, <3>5 DEF Field
    <2>5. CASE UNCHANGED powerVars
      BY <2>1, <2>2, <2>3, <2>4, <2>5 DEF powerVars
    <2>6. CASE Report(hubState')
      BY <2>1, <2>2, <2>3, <2>4, <2>6, ReportStep
    <2> QED
      BY <2>1, <2>5, <2>6
  <1> QED
    BY <1>1, <1>2, <1>3, <1>4, <1>5 DEF V2!Next, V2!Field, Field

LEMMA ThirdHub ==
    ASSUME HubFollows, V3Does(V3!Next)
    PROVE  (PowerNext \/ UNCHANGED powerVars) /\ HubFollows'
  <1> USE DEF HubFollows, HubTypeOK, FirstFollows, SecondFollows, ThirdFollows, StoppedInOrder, V3Does
  <1>1. CASE V3!IdentifyDevice("pi_top_4")
    <2>1. SetDeviceId("pi_top_4") /\ UNCHANGED reportVars
      BY <1>1, Calls3 DEF V3!IdentifyDevice, V3!reportVars, reportVars
    <2> QED
      BY <2>1, IdentifyStep DEF reportVars, Known, FullyDefined
  <1>2. ASSUME NEW held \in BOOLEAN, V3!ReadShutdownControl(held)
        PROVE  (PowerNext \/ UNCHANGED powerVars) /\ HubFollows'
    <2>1. pc' = "poll" /\ UNCHANGED <<hubState, reading>>
      BY <1>2 DEF V3!ReadShutdownControl
    <2>2. CASE OnHubShutdownRequested /\ polling' = FALSE
      BY <2>1, <2>2, RequestStep DEF Known, FullyDefined
    <2>3. CASE UNCHANGED <<powerVars, polling>>
      BY <2>1, <2>3 DEF Known, FullyDefined, powerVars
    <2> QED
      BY <1>2, <2>2, <2>3, Calls3 DEF V3!ReadShutdownControl, V3!EmitShutdown, V3!powerVars, powerVars
  <1>3. CASE V3!PollBattery
    <2>1. CASE V3!ReadBatteryRegisters
      <3>1. ASSUME NEW cable \in BOOLEAN, NEW rsoc \in Capacity, NEW full \in Time, NEW empty \in Time,
                   NEW wattage \in Wattage
            PROVE  V3!ValuesOf(cable, rsoc, full, empty, wattage) \in Reading
        BY ReadingAssumption DEF V3!ValuesOf, Reading, ChargingState, V3!Discharging
      <3>2. /\ hubState' \in Reading /\ reading' = hubState'
            /\ IF hubState' # hubState THEN Report(hubState') ELSE UNCHANGED powerVars
        BY <2>1, <3>1, Calls3 DEF V3!ReadBatteryRegisters, V3!Read, V3!powerVars, powerVars
      <3>3. hubState' \in Fields /\ pc' = "control" /\ UNCHANGED polling
        BY <1>3, <3>2 DEF Reading, Fields, V3!PollBattery
      <3>4. CASE hubState' = hubState /\ UNCHANGED powerVars
        BY <3>2, <3>3, <3>4 DEF powerVars, Known
      <3>5. CASE Report(hubState')
        BY <3>2, <3>3, <3>5, ReportStep DEF Known
      <3> QED
        BY <3>2, <3>4, <3>5
    <2>2. CASE UNCHANGED <<powerVars, hubState, reading, lowReads>>
      BY <1>3, <2>2 DEF V3!PollBattery, Known, FullyDefined, powerVars
    <2> QED
      BY <1>3, <2>1, <2>2 DEF V3!PollBattery, V3!powerVars, powerVars
  <1>4. CASE V3!BatteryReadFails
    BY <1>4 DEF V3!BatteryReadFails, V3!powerVars, powerVars, Known, FullyDefined
  <1> QED
    BY <1>1, <1>2, <1>3, <1>4 DEF V3!Next

LEMMA HubInitInv == Init => PowerInit /\ HubInv
  <1> SUFFICES ASSUME Init PROVE PowerInit /\ HubInv
    OBVIOUS
  <1>1. NotRead \in Fields /\ ~FullyDefined(NotRead)
    BY DEF NotRead, Fields, FullyDefined, Field
  <1>2. V1!FirstStates \subseteq Fields
    BY DEF V1!FirstStates, Fields, V1!Power, V1!Discharging, V1!Undefined, Undefined, ChargingState
  <1>3. PowerInit /\ polling = TRUE /\ pc = "poll" /\ reading = NotRead
    BY DEF Init, ReportInit
  <1>4. hubState \in Fields /\ (hub # "v1" => hubState = NotRead)
    BY <1>1, <1>2 DEF Init, ReportInit
  <1>5. PowerTypeOK
    BY <1>3, InitInv DEF PowerInv
  <1>6. CallsFollow
    BY <1>3 DEF Init, PowerInit, CallsFollow, CallsInOrder, ShutdownOnce, OneIf, V1!Thread
  <1> QED
    BY <1>1, <1>3, <1>4, <1>5, <1>6 DEF Init, PowerInit, HubInv, HubFollows, HubTypeOK, FirstFollows, SecondFollows,
                            ThirdFollows, StoppedInOrder

LEMMA HubStepInv ==
    HubInv /\ [Next]_hubVars => HubInv' /\ hub' = hub /\ (hub # "v1" => [PowerNext]_powerVars)
  <1> SUFFICES ASSUME HubInv, [Next]_hubVars
               PROVE  HubInv' /\ hub' = hub /\ (hub # "v1" => [PowerNext]_powerVars)
    OBVIOUS
  <1>1. CASE UNCHANGED hubVars
    <2>1. UNCHANGED powerVars /\ PowerTypeOK'
      BY <1>1, PowerTypeStep DEF hubVars, vars, HubInv
    <2> QED
      BY <1>1, <2>1 DEF hubVars, vars, reportVars, powerVars, HubInv, HubFollows, HubTypeOK, FirstFollows,
            SecondFollows, ThirdFollows, StoppedInOrder, CallsFollow, CallsInOrder, ShutdownOnce, Known, FullyDefined
  <1>2. CASE V1Does(V1!Next)
    BY <1>2, FirstHub DEF V1Does
  <1>3. CASE V2Does(V2!Next) \/ V3Does(V3!Next)
    <2>1. hub' = hub /\ hub # "v1"
      BY <1>3 DEF V2Does, V3Does
    <2>2. (PowerNext \/ UNCHANGED powerVars) /\ HubFollows'
      BY <1>3, SecondHub, ThirdHub DEF HubInv
    <2>3. PowerTypeOK' /\ CallsFollow'
      BY <2>1, <2>2, PowerTypeStep, OnceStep DEF HubInv, CallsFollow
    <2> QED
      BY <2>1, <2>2, <2>3 DEF HubInv
  <1> QED
    BY <1>1, <1>2, <1>3 DEF Next

\* The inductive invariant of the three hubs, the first with both its threads: the
\* theorems below rest on it.
THEOREM HubInvariance == Spec => []HubInv
  BY HubInitInv, HubStepInv, PTL DEF Spec

-----------------------------------------------------------------------------
\* With a hub in front of it that has one thread the policy does what it does by
\* itself: the readings and failures are nothing but reports and requests to it.
THEOREM HubsKeepThePolicy == ASSUME "v1" \notin Hub PROVE Spec => PowerSpec
  <1>1. HubInv => hub # "v1"
    BY DEF HubInv, HubFollows, HubTypeOK
  <1> QED
    BY <1>1, HubInitInv, HubStepInv, HubInvariance, PTL DEF Spec, PowerSpec

\* So whatever such a hub's thread does, the machine is shut down once, in the
\* report that completes a series, as the abstract specification has it.
THEOREM HubsShutDownSafely ==
    ASSUME "v1" \notin Hub PROVE Spec => ImplementsSafeShutdown /\ []OneShutdownCommand /\ []NeverLate
  BY HubsKeepThePolicy, Implements, ShutdownCommandedOnce, ShutdownNeverLate, PTL

\* A hub that was asked for a shutdown is not polled any more and the shutdown has
\* been commanded once (pthub3_connection.py:608); the first hub's two threads may
\* command it twice between them, and no more often however they interleave and
\* however often they ask (power_manager.py:190).
THEOREM PollingStopsForShutdown == Spec => []StoppedForShutdown
  <1>1. HubInv => StoppedForShutdown
    <2> SUFFICES ASSUME HubInv PROVE StoppedForShutdown
      OBVIOUS
    <2>1. CASE hub = "v1"
      BY <2>1 DEF HubInv, CallsFollow, CallsInOrder, OneIf, PowerTypeOK, MaxCommands, StoppedForShutdown
    <2>2. CASE hub # "v1"
      BY <2>2 DEF HubInv, HubFollows, StoppedInOrder, CallsFollow, ShutdownOnce, StoppedForShutdown
    <2> QED
      BY <2>1, <2>2
  <1> QED
    BY <1>1, HubInvariance, PTL

\* The power manager knows the battery as it was last read, when the reading is
\* done with (app.py:293), if no power is taken for an undefined one.
THEOREM PolicyFollowsReadings == ASSUME Undefined \notin Wattage PROVE Spec => []PolicyUpToDate
  <1>1. Reading \subseteq {state \in Fields : FullyDefined(state)}
    BY ReadingAssumption, CapacityAssumption DEF Reading, Fields, FullyDefined, Field, ChargingState, Undefined
  <1>2. HubInv => PolicyUpToDate
    BY <1>1, HubAssumption DEF HubInv, HubFollows, HubTypeOK, FirstFollows, SecondFollows, ThirdFollows, Known,
                               PolicyUpToDate
  <1> QED
    BY <1>2, HubInvariance, PTL

-----------------------------------------------------------------------------
\* How far the shutdown's counter may be ahead of the readings.  A reading of the
\* first and of the second hub makes up to four reports; the values that a report
\* mixes of two readings count once at most, and a reading that is not low has set
\* the counter back when it is done with.
Ctr == counter["shutdown"]
OneByOne == pc \in Field
Done == CASE pc = "charging" -> 0 [] pc = "capacity" -> 1 [] pc = "time" -> 2 [] OTHER -> 3

FirstPaced ==
    hub = "v1" =>
        /\ pc \in {"poll", "capacity", "time", "wattage"}
        /\ pc \in {"poll", "capacity"} => Ctr <= 3 * lowReads + 1
        /\ pc = "time" => IF lowReads = 0 THEN ~LowIn(hubState) ELSE Ctr <= 3 * lowReads - 1
        /\ pc = "wattage" => IF lowReads = 0 THEN ~LowIn(hubState) ELSE Ctr <= 3 * lowReads

SecondPaced ==
    hub = "v2" =>
        /\ pc \in {"poll", "battery"} => Ctr <= 4 * lowReads
        /\ OneByOne => (LowIn(reading) <=> lowReads >= 1)
        /\ OneByOne /\ lowReads >= 1 => Ctr <= 4 * (lowReads - 1) + Done

ThirdPaced == hub = "v3" => Ctr <= lowReads

\* What has brought the first hub's battery thread into shutdown() is still so.
FirstCalls == hub = "v1" /\ calls["i2c"] # "none" => 4 * lowReads >= Reads

Paced ==
    /\ lowReads \in 0..Reads
    /\ ~LowIn(hubState) \/ ~FullyDefined(hubState) => Ctr = 0
    /\ FirstPaced /\ FirstCalls /\ SecondPaced /\ ThirdPaced

PacedInv == HubInv /\ Paced

Sure == IF hub = "v3" THEN lowReads >= Reads ELSE 4 * lowReads >= Reads
Verified == commands' # commands /\ ~requested' => Sure'

LEMMA ReportCounts ==
    ASSUME NEW state \in Fields, PowerTypeOK, PowerTypeOK', Report(state)
    PROVE  /\ Ctr \in 0..Reads /\ Ctr' \in 0..Reads /\ Ctr' <= Ctr + 1
           /\ FullyDefined(state) /\ ~LowIn(state) => Ctr' = 0
           /\ ~FullyDefined(state) => Ctr' = Ctr /\ commands' = commands
           /\ commands' # commands => Ctr' = Reads
  <1>1. Ctr \in 0..Reads /\ Ctr' \in 0..Reads
    BY DEF PowerTypeOK, Ctr, Level
  <1>2. CASE FullyDefined(state)
    <2>1. OnHubBatteryStateChanged(state.charging, state.capacity)
      BY <1>2 DEF Report
    <2>2. CASE StateIsSafe(state.charging)
      BY <1>1, <1>2, <2>1, <2>2, ReadsAssumption
         DEF OnHubBatteryStateChanged, ProcessBatteryState, ResetCounters, Ctr, Level
    <2>3. CASE ~StateIsSafe(state.charging)
      <3>1. UpdateCountersFromBatteryState(state.capacity) /\ TakeMostSevereStep
        BY <2>1, <2>3 DEF OnHubBatteryStateChanged, ProcessBatteryState
      <3>2. Ctr' = IF UnderThreshold(state.capacity, "shutdown") THEN Increment(Ctr) ELSE 0
        BY <3>1 DEF UpdateCountersFromBatteryState, Ctr, Level
      <3>3. LowIn(state) <=> UnderThreshold(state.capacity, "shutdown")
        BY <2>3 DEF LowIn, StateIsSafe
      <3>4. commands' # commands => Ctr' = Reads
        BY <3>1 DEF TakeMostSevereStep, Maxed, Ctr
      <3> QED
        BY <1>1, <1>2, <3>2, <3>3, <3>4, ReadsAssumption DEF Increment
    <2> QED
      BY <2>2, <2>3
  <1>3. CASE ~FullyDefined(state)
    BY <1>1, <1>3, ReadsAssumption DEF Report, powerVars, Ctr
  <1> QED
    BY <1>2, <1>3

LEMMA ThirdVerified ==
    ASSUME PacedInv, V3Does(V3!Next), HubInv', Undefined \notin Wattage
    PROVE  Paced' /\ Verified
  <1> USE ReadsAssumption DEF PacedInv, HubInv, HubFollows, HubTypeOK, Paced, FirstPaced, FirstCalls, SecondPaced,
                              ThirdPaced, V3Does, Verified, Sure
  <1>0. Ctr \in 0..Reads
    BY DEF PowerTypeOK, Ctr, Level
  <1>1. CASE V3!IdentifyDevice("pi_top_4")
    BY <1>1, Calls3 DEF V3!IdentifyDevice, V3!reportVars, SetDeviceId, Ctr, LowIn, FullyDefined
  <1>2. ASSUME NEW held \in BOOLEAN, V3!ReadShutdownControl(held)
        PROVE  Paced' /\ Verified
    <2>1. UNCHANGED <<counter, hubState, lowReads>> /\ (requested' \/ UNCHANGED commands)
      BY <1>2, Calls3 DEF V3!ReadShutdownControl, V3!EmitShutdown, V3!powerVars, OnHubShutdownRequested
    <2> QED
      BY <2>1 DEF Ctr, LowIn, FullyDefined
  <1>3. CASE V3!PollBattery
    <2>1. CASE V3!ReadBatteryRegisters
      <3>1. ASSUME NEW cable \in BOOLEAN, NEW rsoc \in Capacity, NEW full \in Time, NEW empty \in Time,
                   NEW wattage \in Wattage
            PROVE  V3!ValuesOf(cable, rsoc, full, empty, wattage) \in Reading
        BY ReadingAssumption DEF V3!ValuesOf, Reading, ChargingState, V3!Discharging
      <3>2. /\ hubState' \in Reading
            /\ lowReads' = IF ~LowIn(hubState') THEN 0 ELSE IF lowReads < Reads THEN lowReads + 1 ELSE Reads
            /\ IF hubState' # hubState THEN Report(hubState') ELSE UNCHANGED powerVars
        BY <2>1, <3>1, Calls3 DEF V3!ReadBatteryRegisters, V3!Read, V3!CountLow, V3!LowIn, LowIn, V3!UnderThreshold,
             UnderThreshold, V3!Discharging, Discharging, V3!powerVars, powerVars
      <3>3. FullyDefined(hubState') /\ hubState' \in Fields
        BY <3>2, ReadingAssumption, CapacityAssumption
           DEF Reading, Fields, FullyDefined, Field, ChargingState, Undefined
      <3>4. CASE hubState' = hubState /\ UNCHANGED powerVars
        BY <1>0, <3>2, <3>3, <3>4 DEF powerVars, Ctr, LowIn, FullyDefined
      <3>5. CASE Report(hubState')
        BY <3>2, <3>3, <3>5, ReportCounts
      <3> QED
        BY <3>2, <3>4, <3>5
    <2>2. CASE UNCHANGED <<powerVars, hubState, reading, lowReads>>
      BY <2>2 DEF powerVars, Ctr, LowIn, FullyDefined
    <2> QED
      BY <1>3, <2>1, <2>2 DEF V3!PollBattery, V3!powerVars, powerVars
  <1>4. CASE V3!BatteryReadFails
    BY <1>4 DEF V3!BatteryReadFails, V3!powerVars, powerVars, Ctr, LowIn, FullyDefined
  <1> QED
    BY <1>1, <1>2, <1>3, <1>4 DEF V3!Next

LEMMA SecondVerified ==
    ASSUME PacedInv, V2Does(V2!Next), HubInv', Undefined \notin Wattage, Reads >= 2
    PROVE  Paced' /\ Verified
  <1> USE ReadsAssumption DEF PacedInv, HubInv, HubFollows, HubTypeOK, Paced, FirstPaced, FirstCalls, ThirdPaced,
                              V2Does, Verified, Sure
  <1>0. Ctr \in 0..Reads
    BY DEF PowerTypeOK, Ctr, Level
  <1>1. CASE V2!IdentifyDevice("pi_top_3")
    <2>1. UNCHANGED <<counter, commands, pc, hubState, reading, lowReads>>
      BY <1>1, Calls2 DEF V2!IdentifyDevice, V2!reportVars, SetDeviceId
    <2> QED
      BY <2>1 DEF SecondPaced, OneByOne, Done, Ctr, LowIn, FullyDefined
  <1>2. ASSUME NEW held \in BOOLEAN, V2!ReadShutdownControl(held)
        PROVE  Paced' /\ Verified
    <2>1. /\ UNCHANGED <<counter, hubState, lowReads>> /\ (requested' \/ UNCHANGED commands)
          /\ pc = "poll" /\ pc' = "battery"
      BY <1>2, Calls2 DEF V2!ReadShutdownControl, V2!EmitShutdown, V2!powerVars, OnHubShutdownRequested
    <2> QED
      BY <2>1 DEF SecondPaced, OneByOne, Field, Ctr, LowIn, FullyDefined
  <1>3. CASE V2!ReadBatteryRegisters
    <2>1. /\ lowReads' = IF ~LowIn(reading') THEN 0 ELSE IF lowReads < Reads THEN lowReads + 1 ELSE Reads
          /\ pc = "battery" /\ pc' = "charging" /\ UNCHANGED <<powerVars, hubState>>
      BY <1>3 DEF V2!ReadBatteryRegisters, V2!Read, V2!CountLow, V2!LowIn, LowIn, V2!UnderThreshold,
             UnderThreshold, V2!Discharging, Discharging, V2!powerVars, powerVars
    <2>2. Ctr' = Ctr /\ commands' = commands /\ Ctr <= 4 * lowReads
      BY <2>1 DEF SecondPaced, powerVars, Ctr
    <2> QED
      BY <1>0, <2>1, <2>2 DEF SecondPaced, OneByOne, Field, Done, LowIn, FullyDefined
  <1>4. CASE V2!ReadFails
    <2>1. pc = "battery" /\ pc' = "poll" /\ UNCHANGED <<powerVars, hubState, reading, lowReads>>
      BY <1>4 DEF V2!ReadFails, V2!powerVars, powerVars
    <2> QED
      BY <2>1 DEF SecondPaced, OneByOne, Field, Ctr, LowIn, FullyDefined, powerVars
  <1>5. ASSUME NEW field \in Field, V2!SetField(field)
        PROVE  Paced' /\ Verified
    <2>1. /\ pc = field /\ pc' = V2!After[field]
          /\ hubState' = [hubState EXCEPT ![field] = reading[field]]
          /\ IF hubState' # hubState THEN Report(hubState') ELSE UNCHANGED powerVars
          /\ UNCHANGED <<polling, reading, lowReads>>
      BY <1>5, Calls2 DEF V2!SetField, V2!powerVars, powerVars
    <2>2. reading \in Reading /\ hubState \in Fields /\ hubState' \in Fields
      BY <2>1 DEF Field, SecondFollows
    \* A report of a state that is low, made by a reading that is not, is the first.
    <2>3. LowIn(hubState') /\ ~LowIn(reading) /\ hubState' # hubState => Ctr = 0
      <3>1. field = "charging" => hubState'.capacity = hubState.capacity /\ hubState'.charging = reading.charging
        BY <2>1, <2>2 DEF Fields
      <3>2. field = "charging" /\ hubState' # hubState => hubState.charging # hubState'.charging
        BY <2>1, <2>2 DEF Fields
      <3>3. field # "charging" => hubState'.charging = reading.charging
        BY <2>1, <2>2 DEF Fields, Field, SecondFollows
      <3>4. field # "charging" => hubState'.capacity = reading.capacity
        BY <2>1, <2>2 DEF Fields, Field, SecondFollows
      <3> QED
        BY <3>1, <3>2, <3>3, <3>4 DEF LowIn
    <2>4. /\ Ctr' \in 0..Reads /\ Ctr' <= Ctr + 1
          /\ Ctr' # Ctr /\ LowIn(hubState') => hubState' # hubState
          /\ ~LowIn(hubState') \/ ~FullyDefined(hubState') => Ctr' = 0
          /\ commands' # commands => Ctr' = Reads /\ hubState' # hubState /\ LowIn(hubState')
      <3>1. CASE hubState' = hubState /\ UNCHANGED powerVars
        BY <1>0, <3>1 DEF powerVars, Ctr, LowIn, FullyDefined
      <3>2. CASE hubState' # hubState /\ Report(hubState')
        <4>1. ~FullyDefined(hubState') => ~FullyDefined(hubState)
          BY <2>1, <2>2, ReadingAssumption, CapacityAssumption
             DEF FullyDefined, Field, Fields, Reading, ChargingState, Undefined
        <4> QED
          BY <2>2, <3>2, <4>1, ReportCounts
      <3> QED
        BY <2>1, <3>1, <3>2
    <2>5. (LowIn(reading) <=> lowReads >= 1) /\ (lowReads >= 1 => Ctr <= 4 * (lowReads - 1) + Done)
      BY <2>1 DEF SecondPaced, OneByOne
    <2>6. lowReads >= 1 => Ctr' <= 4 * (lowReads - 1) + Done + 1
      BY <1>0, <2>4, <2>5 DEF Done
    <2>7. Verified
      BY <1>0, <2>1, <2>3, <2>4, <2>5, <2>6 DEF Done
    <2>8. pc' \in Field => Done' = Done + 1
      BY <2>1 DEF Field, Done, V2!After
    <2>9. CASE field # "wattage"
      <3>1. pc' \in Field \ {"charging"}
        BY <2>1, <2>9 DEF V2!After, Field
      <3>2. lowReads >= 1 => Ctr' <= 4 * (lowReads - 1) + Done'
        BY <2>6, <2>8, <3>1 DEF Done
      <3>3. lowReads' = lowReads /\ reading' = reading
        BY <2>1
      <3>4. SecondPaced'
        BY <2>5, <3>1, <3>2, <3>3 DEF SecondPaced, OneByOne, Field
      <3> QED
        BY <2>1, <2>4, <2>7, <3>3, <3>4
    <2>10. CASE field = "wattage"
      <3>1. pc' = "poll" /\ Done = 3 /\ hubState'.charging = reading.charging /\ hubState'.capacity = reading.capacity
        BY <2>1, <2>2, <2>10 DEF V2!After, Done, SecondFollows, Fields
      <3>2. Ctr' <= 4 * lowReads
        BY <2>4, <2>5, <2>6, <3>1 DEF LowIn
      <3> QED
        BY <2>1, <2>4, <2>7, <3>1, <3>2 DEF SecondPaced, OneByOne, Field
    <2> QED
      BY <2>9, <2>10
  <1> QED
    BY <1>1, <1>2, <1>3, <1>4, <1>5 DEF V2!Next, V2!Field, Field

LEMMA FirstVerified ==
    ASSUME PacedInv, V1Does(V1!Next), HubInv', Reads >= 2
    PROVE  Paced' /\ Verified
  <1> USE ReadsAssumption DEF PacedInv, HubInv, HubFollows, HubTypeOK, Paced, FirstCalls, SecondPaced, ThirdPaced,
                              V1Does, Verified, Sure
  <1>0. Ctr \in 0..Reads /\ CallsInOrder
    BY DEF PowerTypeOK, Ctr, Level, CallsFollow
  <1>1. CASE V1!IdentifyDevice("pi_top") /\ UNCHANGED calls
    <2>1. UNCHANGED <<counter, commands, pc, hubState, reading, lowReads, calls>>
      BY <1>1, Calls1 DEF V1!IdentifyDevice, V1!reportVars, SetDeviceId
    <2> QED
      BY <2>1 DEF FirstPaced, Ctr, LowIn, FullyDefined
  \* A value that is set: one report at most, and none when State keeps its value.
  <1>2. ASSUME NEW field \in Field, NEW value, V1!SetField(field, value), calls["i2c"] = "none"
        PROVE  /\ hubState' = [hubState EXCEPT ![field] = value] /\ commands' = commands
               /\ Ctr' \in 0..Reads /\ Ctr' <= Ctr + 1
               /\ hubState' = hubState => Ctr' = Ctr
               /\ FullyDefined(hubState') /\ ~LowIn(hubState') => Ctr' = 0
               /\ ~FullyDefined(hubState') => Ctr' = Ctr
               /\ calls'["i2c"] # "none" => Ctr' = Reads /\ hubState' # hubState /\ LowIn(hubState')
    <2>1. /\ hubState' = [hubState EXCEPT ![field] = value]
          /\ \/ hubState' = hubState /\ UNCHANGED <<powerVars, calls>>
             \/ hubState' # hubState /\ Due(hubState') /\ IntoShutdown(hubState')
             \/ hubState' # hubState /\ ~Due(hubState') /\ Report(hubState') /\ UNCHANGED calls
      BY <1>2, SetField1
    <2>2. CASE hubState' = hubState /\ UNCHANGED <<powerVars, calls>>
      BY <1>0, <1>2, <2>1, <2>2 DEF powerVars, Ctr, LowIn, FullyDefined
    <2>3. CASE hubState' # hubState /\ ~Due(hubState') /\ Report(hubState') /\ UNCHANGED calls
      <3>1. hubState' \in Fields /\ PowerTypeOK'
        OBVIOUS
      <3>2. commands' = commands
        BY <2>3, <3>1, QuietReport
      <3> QED
        BY <1>2, <2>1, <2>3, <3>1, <3>2, ReportCounts
    <2>4. CASE hubState' # hubState /\ Due(hubState') /\ IntoShutdown(hubState')
      <3>1. Ctr' = Reads /\ commands' = commands
        BY <2>4, IntoShutdownStep DEF Ctr
      <3>2. Increment(Ctr) = Reads /\ LowIn(hubState') /\ FullyDefined(hubState')
        BY <2>4 DEF Due, Ctr, LowIn, StateIsSafe
      <3> QED
        BY <1>0, <2>1, <2>4, <3>1, <3>2 DEF Increment
    <2> QED
      BY <2>1, <2>2, <2>3, <2>4
  <1>3. ASSUME NEW field \in Field, NEW value, value # Undefined, V1!SetField(field, value), calls["i2c"] = "none"
        PROVE  /\ hubState' = [hubState EXCEPT ![field] = value] /\ commands' = commands
               /\ Ctr' \in 0..Reads /\ Ctr' <= Ctr + 1
               /\ ~LowIn(hubState') \/ ~FullyDefined(hubState') => Ctr' = 0
               /\ calls'["i2c"] # "none" => Ctr' = Reads /\ hubState' # hubState /\ LowIn(hubState')
    <2>1. FullyDefined(hubState) => FullyDefined(hubState')
      BY <1>2, <1>3 DEF FullyDefined, Field, Fields
    <2> QED
      BY <1>0, <1>2, <1>3, <2>1
  <1>4. CASE V1!ReadCurrent /\ calls["i2c"] = "none"
    <2>1. PICK value \in ChargingState : V1!SetField("charging", value)
      BY <1>4 DEF V1!ReadCurrent, V1!Discharging, ChargingState
    <2>2. hubState'.charging = value /\ hubState'.capacity = hubState.capacity
      BY <1>3, <1>4, <2>1 DEF Field, Fields, ChargingState, Undefined
    <2>3. /\ pc = "poll" /\ pc' = "capacity"
          /\ lowReads' = IF value = Discharging THEN lowReads ELSE 0
      BY <1>4, <2>2 DEF V1!ReadCurrent, V1!Discharging, Discharging
    <2>4. /\ hubState' = [hubState EXCEPT !["charging"] = value] /\ commands' = commands
          /\ Ctr' \in 0..Reads /\ Ctr' <= Ctr + 1
          /\ ~LowIn(hubState') \/ ~FullyDefined(hubState') => Ctr' = 0
          /\ calls'["i2c"] # "none" => Ctr' = Reads /\ hubState' # hubState /\ LowIn(hubState')
          /\ hubState' = hubState => Ctr' = Ctr
      BY <1>2, <1>3, <1>4, <2>1 DEF Field, ChargingState, Undefined
    \* A discharge that begins is the first report of its series.
    <2>5. value = Discharging /\ hubState' # hubState => Ctr = 0
      BY <2>4 DEF LowIn, Fields
    <2>6. value # Discharging => Ctr' = 0 /\ calls'["i2c"] = "none"
      BY <2>2, <2>4 DEF LowIn
    <2>7. Ctr' <= 3 * lowReads' + 1 /\ calls'["i2c"] = "none" /\ lowReads' \in 0..Reads
      BY <1>0, <1>4, <2>3, <2>4, <2>5, <2>6 DEF FirstPaced
    <2> QED
      BY <1>4, <2>3, <2>4, <2>7 DEF FirstPaced
  <1>5. CASE V1!ReadCapacity /\ calls["i2c"] = "none"
    <2>1. PICK value \in Capacity : V1!SetField("capacity", value)
      BY <1>5 DEF V1!ReadCapacity
    <2>2. value # Undefined
      BY CapacityAssumption DEF Undefined
    <2>3. /\ pc = "capacity" /\ pc' = "time"
          /\ lowReads' = IF ~LowIn(hubState') THEN 0 ELSE IF lowReads < Reads THEN lowReads + 1 ELSE Reads
      BY <1>5 DEF V1!ReadCapacity, V1!CountLow, V1!LowIn, LowIn, V1!UnderThreshold, UnderThreshold,
             V1!Discharging, Discharging
    <2>4. /\ Ctr' \in 0..Reads /\ Ctr' <= Ctr + 1 /\ commands' = commands
          /\ ~LowIn(hubState') \/ ~FullyDefined(hubState') => Ctr' = 0
          /\ calls'["i2c"] # "none" => Ctr' = Reads /\ LowIn(hubState')
      BY <1>3, <1>5, <2>1, <2>2 DEF Field
    <2>5. LowIn(hubState') => lowReads' \in 1..Reads /\ Ctr' <= 3 * lowReads' - 1
      BY <1>0, <1>5, <2>3, <2>4 DEF FirstPaced
    <2>6. ~LowIn(hubState') => lowReads' = 0
      BY <2>3
    <2> QED
      BY <2>3, <2>4, <2>5, <2>6 DEF FirstPaced
  <1>6. CASE V1!EssentialReadFails
    <2>1. /\ pc \in {"capacity", "time"} /\ pc' = "poll"
          /\ UNCHANGED <<Ctr, commands, hubState, lowReads, calls>>
      BY <1>6 DEF V1!EssentialReadFails, V1!powerVars, Ctr
    <2>2. Ctr <= 3 * lowReads + 1
      BY <1>0, <2>1 DEF FirstPaced
    <2> QED
      BY <2>1, <2>2 DEF FirstPaced, LowIn, FullyDefined
  \* The rest of a refresh leaves what makes it low alone.
  <1>7. ASSUME NEW field \in {"time", "wattage"}, NEW value, value # Undefined, V1!SetField(field, value),
               calls["i2c"] = "none", pc = field, pc' = (IF field = "time" THEN "wattage" ELSE "poll"), lowReads' = lowReads
        PROVE  Paced' /\ Verified
    <2>1. /\ hubState' = [hubState EXCEPT ![field] = value]
          /\ Ctr' \in 0..Reads /\ Ctr' <= Ctr + 1 /\ commands' = commands
          /\ ~LowIn(hubState') \/ ~FullyDefined(hubState') => Ctr' = 0
          /\ calls'["i2c"] # "none" => Ctr' = Reads /\ LowIn(hubState')
      BY <1>3, <1>7 DEF Field
    <2>2. LowIn(hubState') <=> LowIn(hubState)
      BY <1>7, <2>1 DEF LowIn, Fields
    <2>3. lowReads = 0 => ~LowIn(hubState') /\ Ctr' = 0 /\ calls'["i2c"] = "none"
      BY <1>7, <2>1, <2>2 DEF FirstPaced
    <2>4. lowReads # 0 => Ctr' <= 3 * lowReads + (IF field = "time" THEN 0 ELSE 1)
      BY <1>0, <1>7, <2>1 DEF FirstPaced
    <2> QED
      BY <1>7, <2>1, <2>3, <2>4 DEF FirstPaced
  <1>8. CASE V1!ReadTime /\ calls["i2c"] = "none"
    <2>1. pc = "time" /\ pc' = "wattage" /\ lowReads' = lowReads
      BY <1>8 DEF V1!ReadTime
    <2>2. CASE UNCHANGED <<powerVars, hubState, calls>>
      <3>1. Ctr' = Ctr /\ calls'["i2c"] = "none" /\ UNCHANGED <<hubState, commands>>
        BY <1>8, <2>2 DEF powerVars, Ctr
      <3> QED
        BY <1>0, <1>8, <2>1, <3>1 DEF FirstPaced, LowIn, FullyDefined
    <2>3. CASE \E value \in Time : V1!SetField("time", value)
      BY <1>7, <1>8, <2>1, <2>3, ReadingAssumption DEF Undefined
    <2> QED
      BY <1>8, <2>2, <2>3 DEF V1!ReadTime, V1!powerVars, powerVars
  <1>9. CASE V1!SetWattage /\ calls["i2c"] = "none"
    <2>1. PICK value \in V1!Power : V1!SetField("wattage", value)
      BY <1>9 DEF V1!SetWattage
    <2>2. value # Undefined /\ pc = "wattage" /\ pc' = "poll" /\ lowReads' = lowReads
      BY <1>9, ReadingAssumption DEF V1!Power, V1!SetWattage, Undefined
    <2> QED
      BY <1>7, <1>9, <2>1, <2>2
  <1>10. CASE V1!SpiShutdown
    <2>1. UNCHANGED <<counter, hubState, lowReads, pc, commands>> /\ calls'["i2c"] = calls["i2c"]
      BY <1>0, <1>10 DEF V1!SpiShutdown, V1!reportVars, V1!Goto, V1!Thread, CallsInOrder
    <2> QED
      BY <2>1 DEF FirstPaced, Ctr, LowIn, FullyDefined
  \* The battery thread runs the command for what brought it there, the other thread
  \* for the request.
  <1>11. ASSUME NEW thread \in V1!Thread,
                V1!CheckInitiated(thread) \/ V1!RunCommand(thread) \/ V1!SetInitiated(thread)
         PROVE  Paced' /\ Verified
    <2>1. /\ UNCHANGED <<counter, hubState, lowReads, pc, requested>>
          /\ calls[thread] # "none"
          /\ calls'["i2c"] # "none" => calls["i2c"] # "none"
      BY <1>0, <1>11 DEF V1!CheckInitiated, V1!RunCommand, V1!SetInitiated, V1!powerVars, V1!reportVars, V1!Goto,
                         V1!Thread, CallsInOrder
    <2>2. requested' \/ thread = "i2c"
      BY <1>0, <1>11, <2>1 DEF V1!Thread, CallsInOrder
    <2> QED
      BY <2>1, <2>2 DEF FirstPaced, Ctr, LowIn, FullyDefined
  <1> QED
    BY <1>1, <1>4, <1>5, <1>6, <1>8, <1>9, <1>10, <1>11 DEF V1!Next, V1!RefreshBattery

LEMMA PacedInit == Init => Paced
  <1> SUFFICES ASSUME Init PROVE Paced
    OBVIOUS
  <1>1. lowReads = 0 /\ Ctr = 0 /\ pc = "poll"
    BY DEF Init, ReportInit, PowerInit, Ctr, Level
  <1> QED
    BY <1>1, ReadsAssumption DEF Init, Paced, FirstPaced, FirstCalls, SecondPaced, ThirdPaced, OneByOne, Field,
                                 V1!Thread

LEMMA PacedStep ==
    ASSUME Undefined \notin Wattage, Reads >= 2, PacedInv, [Next]_hubVars
    PROVE  Paced' /\ Verified
  <1>1. CASE UNCHANGED hubVars
    <2>1. UNCHANGED <<hub, pc, commands, lowReads, hubState, reading, counter, calls>>
      BY <1>1 DEF hubVars, vars, reportVars, powerVars
    <2> QED
      BY <2>1 DEF PacedInv, Paced, FirstPaced, FirstCalls, SecondPaced, ThirdPaced, OneByOne, Done, Ctr, LowIn, FullyDefined,
                  Verified
  <1>2. HubInv'
    BY HubStepInv DEF PacedInv
  <1> QED
    BY <1>1, <1>2, FirstVerified, SecondVerified, ThirdVerified DEF Next

\* No battery is taken for a low one by a single reading: unless the hub asked for
\* it, the shutdown's series stems from at least a reading for every four reports,
\* one after the other, all low (power_manager.py:16, state.py:92).
THEOREM ShutdownRestsOnReadings ==
    ASSUME Undefined \notin Wattage, Reads >= 2 PROVE Spec => VerifiedByReads
  <1>1. PacedInv /\ [Next]_hubVars => Paced'
    BY PacedStep
  <1>2. ASSUME PacedInv, [Next]_hubVars
        PROVE  [commands' # commands /\ ~requested' => (lowReads >= SureReads)']_hubVars
    <2>1. Paced' /\ Verified
      BY <1>2, PacedStep
    <2>2. Sure' => (lowReads >= SureReads)'
      <3>1. \A n \in Nat : 4 * n >= Reads => n >= (Reads + 3) \div 4
        BY ReadsAssumption
      <3>2. lowReads' \in Nat
        BY <2>1, ReadsAssumption DEF Paced
      <3> QED
        BY <3>1, <3>2 DEF Sure, SureReads
    <2> QED
      BY <2>1, <2>2 DEF Verified
  <1> QED
    BY <1>1, <1>2, PacedInit, HubInvariance, PTL DEF Spec, PacedInv, VerifiedByReads
=============================================================================

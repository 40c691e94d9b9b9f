---------------------------- MODULE PowerManager ----------------------------
(***************************************************************************)
(* The low-battery policy of pitopd/power_manager.py together with the App *)
(* handlers that feed it (pitopd/app.py).                                  *)
(*                                                                         *)
(* Every handler runs to completion in the hub's polling thread (pthub2,   *)
(* pthub3), so a handler is one action here.  HubBatteryV1 and ShutdownV1  *)
(* take shutdown() apart for the first hub, which runs two threads.        *)
(***************************************************************************)
EXTENDS Integers

CONSTANTS
    Threshold,    \* the capacity at or below which each level applies
    Reads,        \* no_of_sequential_reads_to_verify
    Capacity,     \* the charge, in percent, that a report may carry
    DeviceID,     \* the devices a hub may identify, "unknown" among them
    HasBattery    \* those of them that have a battery

Level == {"shutdown", "critical", "warning"}

ASSUME ThresholdAssumption ==
    /\ Threshold \in [Level -> Nat]
    /\ Threshold["shutdown"] <= Threshold["critical"]
    /\ Threshold["critical"] <= Threshold["warning"]
ASSUME ReadsAssumption == Reads \in Nat \ {0}
ASSUME CapacityAssumption == Capacity \subseteq Nat
ASSUME DeviceAssumption == HasBattery \subseteq DeviceID /\ "unknown" \in DeviceID

Warning == {"critical", "warning"}
Discharging == 0
ChargingState == 0..2          \* discharging, charging, full
Undefined == -1

VARIABLES
    deviceId,            \* _device_id
    batteryCapacity,     \* _battery_capacity
    batteryCharging,     \* _battery_charging
    counter,             \* the three Counter objects, by level
    shown,               \* shown_*_battery_message: the warnings already given
    shutdownInitiated,   \* shutdown_initiated
    commands,            \* `shutdown -h now` commands run, MaxCommands for more
    requested,           \* the hub has asked for a shutdown
    recent               \* the last Window reports, newest first: the levels
                         \* each of them was a discharging battery at or below

powerVars == <<deviceId, batteryCapacity, batteryCharging, counter, shown,
               shutdownInitiated, commands, requested, recent>>

Window == Reads + 2
MaxCommands == 3

-----------------------------------------------------------------------------
Increment(n) == IF n < Reads THEN n + 1 ELSE Reads
FaultyMaxed(n) == n >= Reads - 1   \* fault: one report short
Maxed(n) == n = Reads

UnderThreshold(capacity, level) == capacity <= Threshold[level]

PowerInit ==
    /\ deviceId = "unknown"
    /\ batteryCapacity = Undefined
    /\ batteryCharging = Undefined
    /\ counter = [level \in Level |-> 0]
    /\ shown = {}
    /\ shutdownInitiated = FALSE
    /\ commands = 0
    /\ requested = FALSE
    /\ recent = [i \in 1..Window |-> {}]

FaultyShutdown ==   \* fault: the test of shutdown_initiated is dropped
    /\ shutdownInitiated' = TRUE
    /\ commands' = IF commands < MaxCommands THEN commands + 1 ELSE commands

Shutdown ==
    IF shutdownInitiated
      THEN UNCHANGED <<shutdownInitiated, commands>>
      ELSE /\ shutdownInitiated' = TRUE
           /\ commands' = IF commands < MaxCommands THEN commands + 1 ELSE commands

ResetCounters ==
    /\ counter' = [level \in Level |-> 0]
    /\ shown' = {}
    /\ UNCHANGED <<shutdownInitiated, commands>>

FaultyUpdateCounters(capacity) ==   \* fault: the series survives a good report
    counter' = [level \in Level |->
                  IF UnderThreshold(capacity, level) THEN Increment(counter[level])
                  ELSE counter[level]]

UpdateCountersFromBatteryState(capacity) ==
    counter' = [level \in Level |->
                  IF UnderThreshold(capacity, level) THEN Increment(counter[level]) ELSE 0]

WarningDue(level) == Maxed(counter'[level]) /\ level \notin shown

FaultyWarningsFirst ==   \* fault: the chain starts with the warnings
    /\ shown' = IF WarningDue("warning") THEN shown \cup {"warning"}
                ELSE IF WarningDue("critical") THEN shown \cup {"critical"}
                ELSE shown
    /\ IF shown' = shown /\ Maxed(counter'["shutdown"]) THEN Shutdown
       ELSE UNCHANGED <<shutdownInitiated, commands>>

FaultyShutdownFirst ==   \* fault: a maxed counter takes the slot for ever
    IF Maxed(counter'["shutdown"])
      THEN Shutdown /\ UNCHANGED shown
      ELSE /\ UNCHANGED <<shutdownInitiated, commands>>
           /\ shown' = shown \cup {level \in Warning : WarningDue(level)}

\* The if / elif chain: the most severe step that is due, and only that one.
TakeMostSevereStep ==
    IF Maxed(counter'["shutdown"]) /\ ~shutdownInitiated
      THEN Shutdown /\ UNCHANGED shown
      ELSE /\ UNCHANGED <<shutdownInitiated, commands>>
           /\ shown' = IF WarningDue("critical") THEN shown \cup {"critical"}
                       ELSE IF WarningDue("warning") THEN shown \cup {"warning"}
                       ELSE shown

StateIsSafe(charging) == deviceId \notin HasBattery \/ charging # Discharging

ProcessBatteryState(charging, capacity) ==
    IF StateIsSafe(charging)
      THEN ResetCounters
      ELSE UpdateCountersFromBatteryState(capacity) /\ TakeMostSevereStep

\* What the reports said, recorded apart from the counters: the measure the
\* properties hold the counters to.
LowFor(charging, capacity) ==
    {level \in Level : ~StateIsSafe(charging) /\ UnderThreshold(capacity, level)}

Record(levels) ==
    recent' = [i \in 1..Window |-> IF i = 1 THEN levels ELSE recent[i - 1]]

LowThroughout(level, n) == \A i \in 1..n : level \in recent[i]

-----------------------------------------------------------------------------
\* App.on_hub_battery_state_changed for a report whose fields are all defined.
\* The other reports reach neither the clients nor the policy.
OnHubBatteryStateChanged(charging, capacity) ==
    /\ batteryCapacity' = capacity
    /\ batteryCharging' = charging
    /\ ProcessBatteryState(charging, capacity)
    /\ Record(LowFor(charging, capacity))
    /\ UNCHANGED <<deviceId, requested>>

\* App.on_hub_shutdown_requested: the hub's power button was held.
OnHubShutdownRequested ==
    /\ Shutdown
    /\ requested' = TRUE
    /\ UNCHANGED <<deviceId, batteryCapacity, batteryCharging, counter, shown, recent>>

\* App._set_host_device_id, once the hub has identified its device
SetDeviceId(id) ==
    /\ deviceId' = id
    /\ UNCHANGED <<batteryCapacity, batteryCharging, counter, shown,
                   shutdownInitiated, commands, requested, recent>>

PowerNext ==
    \/ \E charging \in ChargingState, capacity \in Capacity :
          OnHubBatteryStateChanged(charging, capacity)
    \/ OnHubShutdownRequested
    \/ \E id \in DeviceID : SetDeviceId(id)

PowerSpec == PowerInit /\ [][PowerNext]_powerVars

-----------------------------------------------------------------------------
\* Type invariant: counters stay within 0..Reads, and only warnings are shown.
PowerTypeOK ==
    /\ deviceId \in DeviceID
    /\ batteryCapacity \in Capacity \cup {Undefined}
    /\ batteryCharging \in ChargingState \cup {Undefined}
    /\ counter \in [Level -> 0..Reads]
    /\ shown \subseteq Warning
    /\ shutdownInitiated \in BOOLEAN
    /\ commands \in 0..MaxCommands
    /\ requested \in BOOLEAN
    /\ recent \in [1..Window -> SUBSET Level]

\* The machine is told to power off at most once, whichever of the battery and
\* the power button asks first and however often they ask again.
OneShutdownCommand == commands <= 1

\* Unless the hub asked for it, the machine is powered off only in the report
\* that completes Reads consecutive reports of a battery discharging at or below
\* the shutdown level (process_battery_state): one good report in between, a
\* charger or a device without battery starts the series again.
ShutdownOnlyWhenVerified ==
    [][commands' # commands /\ ~requested' => LowThroughout("shutdown", Reads)']_powerVars

\* No report is wasted: in the report that completes the series the command is
\* run, whatever warnings were waiting in the elif chain.
NeverLate == LowThroughout("shutdown", Reads) => commands >= 1

\* A warning is given only in a report that completes a series of its own level.
WarnedOnlyWhenVerified ==
    [][\A level \in shown' \ shown : LowThroughout(level, Reads)']_powerVars

\* The elif chain gives one step per report, so a more severe step delays a
\* warning, but by no more than one report for each level above it.
NoWarningStarved ==
    /\ LowThroughout("critical", Reads + 1) => "critical" \in shown
    /\ LowThroughout("warning", Reads + 2) => "warning" \in shown

Safe == INSTANCE SafeShutdown
          WITH lowReports <- counter["shutdown"], halted <- shutdownInitiated

\* The policy, whatever it warns of on the way, does what SafeShutdown promises:
\* it halts the machine in the report that completes the series, or when asked
\* to, and not otherwise (process_battery_state).
ImplementsSafeShutdown == Safe!Spec
=============================================================================

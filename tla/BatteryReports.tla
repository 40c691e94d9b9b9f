--------------------------- MODULE BatteryReports ---------------------------
(***************************************************************************)
(* What the threads that read the battery share on all hubs: the State     *)
(* object that mirrors the battery's registers, and the path of a report   *)
(* from it through App to the power manager.  HubBatteryV1, V2 and V3 add  *)
(* the threads, HubBattery puts the three together.                        *)
(***************************************************************************)
EXTENDS PowerManager

CONSTANTS
    Time,      \* remaining times, in minutes, with 0xFFFF already read as 0
    Wattage    \* powers, in tenths of a watt; negative while discharging

ASSUME ReadingAssumption ==
    /\ Time \subseteq Nat /\ Wattage \subseteq Int
    /\ {"pi_top", "pi_top_3", "pi_top_4"} \subseteq HasBattery
    /\ 100 \in Capacity

VARIABLES
    polling,      \* _run_polling_thread
    started,      \* the first poll is over: it is made in start(), before the
                  \* thread starts and before App asks for the device
    pc,           \* where the polling thread is in its poll
    hubState,     \* the battery fields of State
    reading,      \* the values of the registers read in this poll
    lowReads      \* so many readings in a row, up to Reads, were of a discharging
                  \* battery at or below the shutdown level

reportVars == <<polling, started, pc, hubState, reading, lowReads>>
vars == <<powerVars, reportVars>>

Field == {"charging", "capacity", "time", "wattage"}
Reading == [charging : ChargingState, capacity : Capacity, time : Time, wattage : Wattage]
NotRead == [field \in Field |-> Undefined]

ReportInit(running, state) ==
    /\ PowerInit
    /\ polling = TRUE
    /\ started = running
    /\ pc = "poll"
    /\ hubState = state
    /\ reading = NotRead
    /\ lowReads = 0

\* App._battery_state_is_fully_defined: -1 is every field's mark for "not read
\* yet", and a power that reads -1 is taken for one.
FullyDefined(state) == \A field \in Field : state[field] # Undefined

EndOfPoll == started' = (started \/ pc' = "poll")

FaultyReportOnce(state) ==   \* fault: only a complete first state is reported
    IF FullyDefined(state) /\ ~FullyDefined(hubState)
      THEN OnHubBatteryStateChanged(state.charging, state.capacity)
      ELSE UNCHANGED powerVars

Report(state) ==
    IF FullyDefined(state)
      THEN OnHubBatteryStateChanged(state.charging, state.capacity)
      ELSE UNCHANGED powerVars

LowIn(values) == values.charging = Discharging /\ UnderThreshold(values.capacity, "shutdown")

\* The registers are read one after the other from a battery that goes on
\* changing, so the values need not belong together.
CountLow(values) ==
    lowReads' = IF ~LowIn(values) THEN 0 ELSE IF lowReads < Reads THEN lowReads + 1 ELSE Reads

Read(values) == reading' = values /\ CountLow(values)

\* App.on_hub_shutdown_requested, with the stop to the polling it starts with.
FaultyEmitShutdown ==   \* fault: the hub is polled on after its request
    OnHubShutdownRequested /\ UNCHANGED polling

EmitShutdown ==
    /\ OnHubShutdownRequested
    /\ polling' = FALSE

\* App.start tells the power manager its device only after it has started the
\* hub, and the thread polls on meanwhile.
IdentifyDevice(device) ==
    /\ started /\ deviceId = "unknown"
    /\ SetDeviceId(device)
    /\ UNCHANGED reportVars

Identified == deviceId # "unknown"

-----------------------------------------------------------------------------
\* power_manager.py, line 12: a battery that is low for good, at every reading,
\* ends in a shutdown.
LowForever == <>[](Identified /\ lowReads > 0 /\ FullyDefined(reading))
SafeShutdownOnLowBattery == LowForever => <>(commands >= 1)

\* What does hold: every change of a reading is reported, so a battery that is
\* low for good and keeps changing does end in a shutdown.
ChangingLowBatteryShutsDown ==
    LowForever /\ []<><<hubState' # hubState>>_vars
        => <>(commands >= 1)
=============================================================================

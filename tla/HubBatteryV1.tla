---------------------------- MODULE HubBatteryV1 ----------------------------
(***************************************************************************)
(* The battery thread of the first hub (pitopd/pthub/pthub_i2c.py): once a *)
(* second it reads current, capacity, voltage and time, each up to twenty  *)
(* times, and hands each to State before it reads the next, so a refresh   *)
(* that fails on the way leaves State with values of two readings.  The    *)
(* power button is the other thread's, the SPI link's: both may be in      *)
(* PowerManager.shutdown at once, which tests, runs the command and sets   *)
(* its flag with no lock, and nothing stops the battery thread.            *)
(***************************************************************************)
EXTENDS BatteryReports

VARIABLE calls   \* where each thread is in PowerManager.shutdown, or "none"

Thread == {"spi", "i2c"}

Goto(thread, step) == calls' = [calls EXCEPT ![thread] = step]

\* The first refresh, made when the hub is looked for and before anybody is told:
\* the hub counts as found only if all of it but the time could be read.
Power == {0} \cup {wattage \in Wattage : wattage > 0}

FirstStates ==
    {state \in [charging : {Discharging, 1}, capacity : Capacity,
                time : Time \cup {Undefined}, wattage : Power] :
        state.charging = Discharging => state.wattage = 0}

\* process_battery_state would call shutdown() for this state.
ShutdownDue(state) ==
    /\ FullyDefined(state) /\ ~StateIsSafe(state.charging)
    /\ UnderThreshold(state.capacity, "shutdown") /\ Maxed(Increment(counter["shutdown"]))
    /\ ~shutdownInitiated

\* The report as far as that call: the rest is the steps of shutdown() below.
ReportIntoShutdown(state) ==
    /\ batteryCapacity' = state.capacity
    /\ batteryCharging' = state.charging
    /\ UpdateCountersFromBatteryState(state.capacity)
    /\ Record(LowFor(state.charging, state.capacity))
    /\ Goto("i2c", "check")
    /\ UNCHANGED <<deviceId, shown, shutdownInitiated, commands, requested>>

\* State.set_battery_*: the whole battery is reported if the field changed.
SetField(field, value) ==
    /\ hubState' = [hubState EXCEPT ![field] = value]
    /\ reading' = hubState'
    /\ CASE hubState' = hubState -> UNCHANGED <<powerVars, calls>>
         [] hubState' # hubState /\ ShutdownDue(hubState') -> ReportIntoShutdown(hubState')
         [] OTHER -> Report(hubState') /\ UNCHANGED calls
    /\ UNCHANGED <<polling, started>>

\* The current, which tells a full battery from a charging one by the time that
\* was read last.
ReadCurrent ==
    /\ pc = "poll" /\ pc' = "capacity"
    /\ \E discharging \in BOOLEAN :
        SetField("charging", IF discharging THEN Discharging ELSE IF hubState.time = 0 THEN 2 ELSE 1)
    /\ lowReads' = IF hubState'.charging = Discharging THEN lowReads ELSE 0

ReadCapacity ==
    /\ pc = "capacity" /\ pc' = "time"
    /\ \E capacity \in Capacity : SetField("capacity", capacity)
    /\ CountLow(hubState')

\* The current, the capacity or the voltage cannot be read, or is out of range:
\* the refresh ends, what has been set stays.
EssentialReadFails ==
    /\ pc \in {"capacity", "time"} /\ pc' = "poll"
    /\ UNCHANGED <<powerVars, calls, polling, started, hubState, reading, lowReads>>

\* The time, from the register that the charging state tells; that it cannot be
\* read does not end the refresh.
ReadTime ==
    /\ pc = "time" /\ pc' = "wattage"
    /\ \/ \E time \in Time : SetField("time", time)
       \/ UNCHANGED <<powerVars, calls, polling, started, hubState, reading>>
    /\ UNCHANGED lowReads

\* The power of current and voltage, and never less than 0.
SetWattage ==
    /\ pc = "wattage" /\ pc' = "poll"
    /\ \E wattage \in Power :
        /\ hubState.charging = Discharging => wattage = 0
        /\ SetField("wattage", wattage)
    /\ UNCHANGED lowReads

RefreshBattery == ReadCurrent \/ ReadCapacity \/ EssentialReadFails \/ ReadTime \/ SetWattage

\* The SPI thread has seen the power button, App.on_hub_shutdown_requested: the
\* hub's own shutdown does nothing, the power manager's comes next.
SpiShutdown ==
    /\ calls["spi"] = "none" /\ Goto("spi", "check")
    /\ requested' = TRUE
    /\ UNCHANGED <<deviceId, batteryCapacity, batteryCharging, counter, shown,
                   shutdownInitiated, commands, recent, reportVars>>

FaultyCheckInitiated(thread) ==   \* fault: the test is dropped
    /\ calls[thread] = "check" /\ Goto(thread, "run")
    /\ UNCHANGED <<powerVars, reportVars>>

\* PowerManager.shutdown, a step for each of its test, its command and its flag.
CheckInitiated(thread) ==
    /\ calls[thread] = "check"
    /\ Goto(thread, IF shutdownInitiated THEN "none" ELSE "run")
    /\ UNCHANGED <<powerVars, reportVars>>

RunCommand(thread) ==
    /\ calls[thread] = "run" /\ Goto(thread, "set")
    /\ commands' = IF commands < MaxCommands THEN commands + 1 ELSE commands
    /\ UNCHANGED <<deviceId, batteryCapacity, batteryCharging, counter, shown,
                   shutdownInitiated, requested, recent, reportVars>>

SetInitiated(thread) ==
    /\ calls[thread] = "set" /\ Goto(thread, "none")
    /\ shutdownInitiated' = TRUE
    /\ UNCHANGED <<deviceId, batteryCapacity, batteryCharging, counter, shown,
                   commands, requested, recent, reportVars>>

Next ==
    \/ IdentifyDevice("pi_top") /\ UNCHANGED calls
    \/ calls["i2c"] = "none" /\ RefreshBattery
    \/ SpiShutdown
    \/ \E thread \in Thread : CheckInitiated(thread) \/ RunCommand(thread) \/ SetInitiated(thread)
=============================================================================

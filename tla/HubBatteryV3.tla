---------------------------- MODULE HubBatteryV3 ----------------------------
(***************************************************************************)
(* The polling thread of the third hub (pitopd/pthub3).  It polls ten      *)
(* times a second and reads the battery in one poll of Period; a reading   *)
(* reaches State as a whole and is reported once, if anything changed.     *)
(***************************************************************************)
EXTENDS BatteryReports

CONSTANT Period   \* polls from one reading of the battery to the next

VARIABLE sleepCounter   \* _battery_sleep_counter, in polls

\* _read_battery_registers: the reading and State.set_battery_state.  A charged
\* battery on its cable reads as full from 97 percent on.
ValuesOf(cable, rsoc, full, empty, wattage) ==
    LET charging == IF ~cable THEN Discharging ELSE IF rsoc >= 97 THEN 2 ELSE 1
    IN [charging |-> charging,
        capacity |-> IF charging = 2 THEN 100 ELSE rsoc,
        time     |-> IF cable THEN full ELSE empty,
        wattage  |-> wattage]

ReadBatteryRegisters ==
    \E cable \in BOOLEAN, rsoc \in Capacity, full, empty \in Time, wattage \in Wattage :
        LET values == ValuesOf(cable, rsoc, full, empty, wattage) IN
        /\ Read(values)
        /\ hubState' = values
        /\ IF hubState' # hubState THEN Report(hubState') ELSE UNCHANGED powerVars

\* _read_battery_registers_if_min_time_passed
PollBattery ==
    /\ pc = "poll" /\ polling
    /\ pc' = "control"
    /\ IF sleepCounter \in {0, Period}
         THEN ReadBatteryRegisters /\ sleepCounter' = 1
         ELSE /\ sleepCounter' = sleepCounter + 1
              /\ UNCHANGED <<powerVars, hubState, reading, lowReads>>
    /\ UNCHANGED <<polling, started>>

\* A read that fails ends the poll with the counter at 0: the next poll starts
\* with the battery again, and what follows it in the poll has to wait.
BatteryReadFails ==
    /\ pc = "poll" /\ polling
    /\ sleepCounter \in {0, Period}
    /\ sleepCounter' = 0
    /\ UNCHANGED pc /\ EndOfPoll
    /\ UNCHANGED <<powerVars, polling, hubState, reading, lowReads>>

\* _read_shutdown_control; the reads after it do not concern the battery.
ReadShutdownControl(held) ==
    /\ pc = "control"
    /\ pc' = "poll"
    /\ EndOfPoll
    /\ IF held THEN EmitShutdown ELSE UNCHANGED <<powerVars, polling>>
    /\ UNCHANGED <<hubState, reading, lowReads, sleepCounter>>

Next ==
    \/ IdentifyDevice("pi_top_4") /\ UNCHANGED sleepCounter
    \/ PollBattery
    \/ BatteryReadFails
    \/ \E held \in BOOLEAN : ReadShutdownControl(held)
=============================================================================

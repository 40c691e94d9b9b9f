---------------------------- MODULE HubBatteryV2 ----------------------------
(***************************************************************************)
(* The polling thread of the second hub (pitopd/pthub2): it reads the      *)
(* power button, then the battery, and hands the battery's fields to State *)
(* one at a time.  State reports the whole battery after each field that   *)
(* changed, so a reading makes up to four reports, the early ones of a     *)
(* mixture of this reading and the last.                                   *)
(***************************************************************************)
EXTENDS BatteryReports

After == [charging |-> "capacity", capacity |-> "time", time |-> "wattage", wattage |-> "poll"]

\* _read_shutdown_control; the loop leaves off once polling is false.
ReadShutdownControl(held) ==
    /\ pc = "poll" /\ polling
    /\ pc' = "battery"
    /\ IF held THEN EmitShutdown ELSE UNCHANGED <<powerVars, polling>>
    /\ UNCHANGED <<started, hubState, reading, lowReads>>

\* The values _read_battery_registers works out from the registers.
ValuesOf(current, rsoc, full, empty, wattage) ==
    LET charging == IF current < 0 THEN Discharging ELSE IF full = 0 THEN 2 ELSE 1
    IN [charging |-> charging,
        capacity |-> IF charging = 2 THEN 100 ELSE rsoc,
        time     |-> IF current > 0 THEN full ELSE empty,
        wattage  |-> wattage]

ReadBatteryRegisters ==
    /\ pc = "battery"
    /\ \E current \in {-1, 0, 1}, rsoc \in Capacity, full, empty \in Time, wattage \in Wattage :
          /\ wattage * current >= 0 /\ (current = 0 => wattage = 0)
          /\ Read(ValuesOf(current, rsoc, full, empty, wattage))
    /\ pc' = "charging"
    /\ UNCHANGED <<powerVars, polling, started, hubState>>

\* A register that cannot be read ends the poll.
ReadFails ==
    /\ pc = "battery"
    /\ pc' = "poll"
    /\ EndOfPoll
    /\ UNCHANGED <<powerVars, polling, hubState, reading, lowReads>>

\* State.set_battery_*: report the whole state if the field changed.
SetField(field) ==
    /\ pc = field
    /\ pc' = After[field]
    /\ EndOfPoll
    /\ hubState' = [hubState EXCEPT ![field] = reading[field]]
    /\ IF hubState' # hubState THEN Report(hubState') ELSE UNCHANGED powerVars
    /\ UNCHANGED <<polling, reading, lowReads>>

Next ==
    \/ IdentifyDevice("pi_top_3")
    \/ \E held \in BOOLEAN : ReadShutdownControl(held)
    \/ ReadBatteryRegisters
    \/ ReadFails
    \/ \E field \in Field : SetField(field)
=============================================================================

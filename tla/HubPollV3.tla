----------------------------- MODULE HubPollV3 -----------------------------
(***************************************************************************)
(* The polling loop of the third hub (pitopd/pthub3): the six stages of a  *)
(* poll in their order, any transfer of which may fail and end the poll,   *)
(* the buttons as State knows them, the readings that are due only every   *)
(* so many polls, and the faster polling while buttons are in use.         *)
(***************************************************************************)
EXTENDS Integers

CONSTANTS
    Button,          \* the miniscreen's buttons; "power" is read on its own
    BatteryPeriod,   \* polls from one reading of the battery to the next (20)
    TempPeriod,      \* polls from one writing of the temperature to the next (50)
    Limit            \* _accelerated_cycle_sleep_time_counter_limit (150)

ASSUME PollAssumption ==
    /\ "power" \notin Button
    /\ BatteryPeriod \in Nat \ {0} /\ TempPeriod \in Nat \ {0}
    /\ Limit \in Nat \ {0}

AllButton == Button \cup {"power"}
Released == 0
Pressed == 1
Unread == 2
Stage == {"battery", "shutdown", "power", "oled", "buttons", "temp"}

VARIABLES
    pc,              \* the stage of the poll, or "head", "check" or "done"
    started,         \* the first poll, in the main thread, is over
    polling,         \* _run_polling_thread
    connected,       \* the hub's device is connected
    pressed,         \* the hub's buttons: Pressed or Released
    known,           \* State's buttons, Unread before the first reading
    recently,        \* button_pressed_recently
    fastCounter,     \* _accelerated_cycle_sleep_time_counter
    batteryCounter,  \* _battery_sleep_counter, in polls
    tempCounter,     \* _cpu_temp_sleep_counter, in polls
    sincePress       \* loops since State last knew a pressed button, up to Limit

counters == <<recently, fastCounter, batteryCounter, tempCounter, sincePress>>
vars == <<pc, started, polling, connected, pressed, known, counters>>

Init ==
    /\ pc = "battery"
    /\ started = FALSE /\ polling = TRUE /\ connected = TRUE
    /\ pressed \in [AllButton -> {Released, Pressed}]
    /\ known = [b \in AllButton |-> Unread]
    /\ recently = FALSE /\ fastCounter = 0
    /\ batteryCounter = 0 /\ tempCounter = 0
    /\ sincePress = Limit

\* A counter starts again at the end of its period, and the reading is due then.
Due(counter, period) == counter \in {0, period}

NextCount(counter, period) == IF Due(counter, period) THEN 1 ELSE counter + 1

\* The first poll is followed by the thread's, a later one by the loop's rest.
EndOfPoll == pc' = IF started THEN "check" ELSE "head"

-----------------------------------------------------------------------------
Goto(from, to) == pc = from /\ pc' = to

\* _read_battery_registers_if_min_time_passed
ReadBattery ==
    /\ Goto("battery", "shutdown")
    /\ batteryCounter' = NextCount(batteryCounter, BatteryPeriod)
    /\ UNCHANGED <<started, polling, connected, pressed, known, recently, fastCounter, tempCounter, sincePress>>

\* _read_shutdown_control and _read_oled_register, modelled elsewhere.
ReadElsewhere ==
    /\ Goto("shutdown", "power") \/ Goto("oled", "buttons")
    /\ UNCHANGED <<started, polling, connected, pressed, known, counters>>

\* fault: a release is taken for no change.
FaultyReadButtons ==
    /\ \/ Goto("power", "oled") /\ known' = [known EXCEPT !["power"] = pressed["power"]]
       \/ /\ Goto("buttons", "temp")
          /\ known' = [b \in AllButton |-> IF b \in Button /\ pressed[b] = Pressed THEN Pressed ELSE known[b]]
    /\ UNCHANGED <<started, polling, connected, pressed, counters>>

\* State has FALSE before and the hub's bits are numbers, so that what is read
\* first is a change, and published.
ReadButtons ==
    /\ \/ Goto("power", "oled") /\ known' = [known EXCEPT !["power"] = pressed["power"]]
       \/ Goto("buttons", "temp") /\ known' = [b \in AllButton |-> IF b \in Button THEN pressed[b] ELSE known[b]]
    /\ UNCHANGED <<started, polling, connected, pressed, counters>>

\* _write_cpu_temp_register_if_min_time_passed; a temperature that cannot be read
\* is skipped and counts as written.
TempStage ==
    /\ pc = "temp"
    /\ tempCounter' = NextCount(tempCounter, TempPeriod)
    /\ EndOfPoll
    /\ started' = TRUE
    /\ UNCHANGED <<polling, connected, pressed, known, recently, fastCounter, batteryCounter, sincePress>>

\* The stages that use the hub; what fails ends the poll, with a counter that was
\* due at 0.
TransferFails ==
    /\ pc \in Stage
    /\ pc = "battery" => Due(batteryCounter, BatteryPeriod)
    /\ pc = "temp" => Due(tempCounter, TempPeriod)
    /\ batteryCounter' = IF pc = "battery" THEN 0 ELSE batteryCounter
    /\ tempCounter' = IF pc = "temp" THEN 0 ELSE tempCounter
    /\ EndOfPoll
    /\ started' = TRUE
    /\ UNCHANGED <<polling, connected, pressed, known, recently, fastCounter, sincePress>>

\* check_button_pressed_recently, and the sleep.
PressedNow == \E b \in Button : known[b] = Pressed

\* fault: a button pressed again does not start the count again.
FaultyCheck ==
    /\ Goto("check", "head")
    /\ fastCounter' = IF recently \/ PressedNow THEN fastCounter + 1 ELSE 0
    /\ recently' = ((recently \/ PressedNow) /\ fastCounter' < Limit)
    /\ sincePress' = IF PressedNow THEN 0 ELSE IF sincePress < Limit THEN sincePress + 1 ELSE Limit
    /\ UNCHANGED <<started, polling, connected, pressed, known, batteryCounter, tempCounter>>

Check ==
    /\ Goto("check", "head")
    /\ LET wasRecent == recently \/ PressedNow
           before == IF PressedNow THEN 0 ELSE fastCounter
       IN /\ fastCounter' = IF wasRecent THEN before + 1 ELSE 0
          /\ recently' = (wasRecent /\ fastCounter' < Limit)
    /\ sincePress' = IF PressedNow THEN 0 ELSE IF sincePress < Limit THEN sincePress + 1 ELSE Limit
    /\ UNCHANGED <<started, polling, connected, pressed, known, batteryCounter, tempCounter>>

\* _main_thread_loop
Head ==
    /\ pc = "head"
    /\ pc' = IF polling THEN "battery" ELSE "done"
    /\ UNCHANGED <<started, polling, connected, pressed, known, counters>>

-----------------------------------------------------------------------------
\* HubConnection.stop, which waits for the thread.
Stop ==
    /\ started /\ polling
    /\ polling' = FALSE
    /\ UNCHANGED <<pc, started, connected, pressed, known, counters>>

Disconnect ==
    /\ ~polling /\ connected /\ pc = "done"
    /\ connected' = FALSE
    /\ UNCHANGED <<pc, started, polling, pressed, known, counters>>

MoveButton(b) ==
    /\ pressed' = [pressed EXCEPT ![b] = 1 - @]
    /\ UNCHANGED <<pc, started, polling, connected, known, counters>>

Next ==
    \/ ReadBattery \/ ReadElsewhere \/ ReadButtons \/ TempStage \/ TransferFails
    \/ Check \/ Head
    \/ Stop \/ Disconnect
    \/ \E b \in AllButton : MoveButton(b)

Spec == Init /\ [][Next]_vars

\* The loop goes on, and no stage fails for ever.
FairSpec ==
    /\ Spec
    /\ SF_vars(ReadBattery) /\ SF_vars(ReadElsewhere /\ pc = "shutdown") /\ SF_vars(ReadElsewhere /\ pc = "oled")
    /\ SF_vars(ReadButtons /\ pc = "power") /\ SF_vars(ReadButtons /\ pc = "buttons")
    /\ SF_vars(TempStage)
    /\ WF_vars(Check) /\ WF_vars(Head)

-----------------------------------------------------------------------------
\* The polling is fast in Limit - 1 loops from the last one that knew a button
\* pressed, polls that fail among them, and not a loop longer
\* (HubConnection.check_button_pressed_recently).
FastAfterPress == recently <=> sincePress < Limit - 1

\* A button that stays as it is gets known, and published, as long as the hub is
\* polled (_read_ui_buttons_register, _read_shutdown_button_held).
ButtonsAreKnown ==
    \A b \in AllButton, v \in {Released, Pressed} :
        <>[](pressed[b] = v) => <>[](polling => known[b] = v)

=============================================================================

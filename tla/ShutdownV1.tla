----------------------------- MODULE ShutdownV1 -----------------------------
(***************************************************************************)
(* The first hub (pitopd/pthub) runs two threads, one for the SPI link     *)
(* that carries the power button and one for the I2C battery, and both may *)
(* call PowerManager.shutdown.  It tests shutdown_initiated, runs the      *)
(* command and sets the flag, with no lock.                                *)
(***************************************************************************)
EXTENDS Naturals

CONSTANTS
    Reads,       \* no_of_sequential_reads_to_verify
    ButtonReads  \* responses with the shutdown bit that SPIHandler waits for

Thread == {"spi", "i2c"}

VARIABLES
    pc,                 \* where each thread is: "loop", or in shutdown()
    lowReports,         \* shutdown_battery_ctr
    shutdownCtr,        \* SPIHandler._shutdown_ctr
    shutdownInitiated,
    commands            \* `shutdown -h now` commands run, by thread

vars == <<pc, lowReports, shutdownCtr, shutdownInitiated, commands>>

MaxCommands == 2

Init ==
    /\ pc = [thread \in Thread |-> "loop"]
    /\ lowReports = 0
    /\ shutdownCtr = 0
    /\ shutdownInitiated = FALSE
    /\ commands = [thread \in Thread |-> 0]

Goto(thread, step) == pc' = [pc EXCEPT ![thread] = step]

\* process_battery_state, for the shutdown level, as far as its test.
BatteryReport(low) ==
    /\ pc["i2c"] = "loop"
    /\ lowReports' = IF low THEN (IF lowReports < Reads THEN lowReports + 1 ELSE Reads) ELSE 0
    /\ IF lowReports' = Reads THEN Goto("i2c", "decide") ELSE UNCHANGED pc
    /\ UNCHANGED <<shutdownCtr, shutdownInitiated, commands>>

Decide ==
    /\ pc["i2c"] = "decide"
    /\ Goto("i2c", IF shutdownInitiated THEN "loop" ELSE "check")
    /\ UNCHANGED <<lowReports, shutdownCtr, shutdownInitiated, commands>>

\* _process_spi_resp_shutdown, State.set_shutdown and App.on_hub_shutdown_requested:
\* State never stores the bit, so each further series asks for a shutdown again.
HubResponse(shutdownBit) ==
    /\ pc["spi"] = "loop"
    /\ IF shutdownBit /\ shutdownCtr + 1 = ButtonReads
         THEN shutdownCtr' = 0 /\ Goto("spi", "check")
         ELSE /\ shutdownCtr' = IF shutdownBit THEN shutdownCtr + 1 ELSE 0
              /\ UNCHANGED pc
    /\ UNCHANGED <<lowReports, shutdownInitiated, commands>>

\* PowerManager.shutdown, a step for each of its test, its command and its flag.
CheckInitiated(thread) ==
    /\ pc[thread] = "check"
    /\ Goto(thread, IF shutdownInitiated THEN "loop" ELSE "run")
    /\ UNCHANGED <<lowReports, shutdownCtr, shutdownInitiated, commands>>

RunCommand(thread) ==
    /\ pc[thread] = "run"
    /\ Goto(thread, "set")
    /\ commands' = [commands EXCEPT ![thread] = IF @ < MaxCommands THEN @ + 1 ELSE @]
    /\ UNCHANGED <<lowReports, shutdownCtr, shutdownInitiated>>

SetInitiated(thread) ==
    /\ pc[thread] = "set"
    /\ Goto(thread, "loop")
    /\ shutdownInitiated' = TRUE
    /\ UNCHANGED <<lowReports, shutdownCtr, commands>>

CallShutdown(thread) == CheckInitiated(thread) \/ RunCommand(thread) \/ SetInitiated(thread)

Next ==
    \/ \E low \in BOOLEAN : BatteryReport(low)
    \/ Decide
    \/ \E shutdownBit \in BOOLEAN : HubResponse(shutdownBit)
    \/ \E thread \in Thread : CallShutdown(thread)

Spec == Init /\ [][Next]_vars

-----------------------------------------------------------------------------
\* The test in shutdown() is there to run the command once ("Shutdown already
\* initiated", power_manager.py line 192).
OneShutdownCommand == commands["spi"] + commands["i2c"] <= 1
=============================================================================

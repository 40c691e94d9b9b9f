----------------------------- MODULE HubBattery -----------------------------
(***************************************************************************)
(* The battery of whichever hub HubManager.connect has found: the thread   *)
(* of the first, the second or the third hub that reads it, the report of  *)
(* its readings through App, and the power manager's policy at the end.    *)
(***************************************************************************)
EXTENDS BatteryReports

CONSTANTS
    Hub,      \* the hubs that may be found: "v1", "v2", "v3"
    Period    \* polls of the third hub from one reading of the battery to the next

ASSUME HubAssumption == Hub \subseteq {"v1", "v2", "v3"} /\ Period \in Nat \ {0}

VARIABLES
    hub,           \* the hub that was found
    sleepCounter,  \* _battery_sleep_counter of the third hub, in polls
    calls          \* where the first hub's two threads are in shutdown()

V1 == INSTANCE HubBatteryV1
V2 == INSTANCE HubBatteryV2
V3 == INSTANCE HubBatteryV3

hubVars == <<vars, hub, sleepCounter, calls>>

Init ==
    /\ hub \in Hub /\ sleepCounter = 0
    /\ calls = [thread \in V1!Thread |-> "none"]
    /\ IF hub = "v1" THEN \E state \in V1!FirstStates : ReportInit(TRUE, state)
                      ELSE ReportInit(FALSE, NotRead)

V1Does(action) == hub = "v1" /\ action /\ UNCHANGED <<hub, sleepCounter>>
V2Does(action) == hub = "v2" /\ action /\ UNCHANGED <<hub, sleepCounter, calls>>
V3Does(action) == hub = "v3" /\ action /\ UNCHANGED <<hub, calls>>

Next == V1Does(V1!Next) \/ V2Does(V2!Next) \/ V3Does(V3!Next)

\* The device is identified, the thread goes on as long as it polls, and no
\* reading of the battery fails for ever.
Fairness ==
    /\ WF_hubVars(V2Does(V2!IdentifyDevice("pi_top_3")))
    /\ WF_hubVars(V2Does(V2!ReadShutdownControl(FALSE)))
    /\ SF_hubVars(V2Does(V2!ReadBatteryRegisters))
    /\ \A field \in Field : WF_hubVars(V2Does(V2!SetField(field)))
    /\ WF_hubVars(V3Does(V3!IdentifyDevice("pi_top_4") /\ UNCHANGED sleepCounter))
    /\ SF_hubVars(V3Does(V3!PollBattery))
    /\ WF_hubVars(V3Does(V3!ReadShutdownControl(FALSE)))

Spec == Init /\ [][Next]_hubVars
FairSpec == Spec /\ Fairness

-----------------------------------------------------------------------------
\* app.py, line 293: the power manager knows about the state of the battery that
\* was read last, when the poll is done with it; on the first hub, whose State is
\* filled before anybody is told, once it has been told anything, and of a refresh
\* that failed as much as was read.
PolicyUpToDate ==
    /\ hub # "v1" /\ pc \in {"poll", "control"} /\ reading # NotRead =>
           batteryCapacity = reading.capacity /\ batteryCharging = reading.charging
    /\ hub = "v1" /\ batteryCapacity # Undefined /\ pc = "poll" =>
           batteryCapacity = hubState.capacity /\ batteryCharging = hubState.charging

\* A hub that is polled for its request is polled no more into asking again, and
\* the machine has then been told once to shut down.  The first hub's two threads
\* tell it once each at most, and its SPI thread has seen to it when it is through
\* with the request (power_manager.py, line 190).
StoppedForShutdown ==
    /\ hub # "v1" => (requested => ~polling) /\ (~polling => commands = 1)
    /\ hub = "v1" => commands <= 2 /\ (requested /\ calls["spi"] = "none" => commands >= 1)

\* A reading of the first and the second hub gives no more than four reports, one
\* of the third no more than one, so the Reads reports of a shutdown stem from at least so many
\* readings in a row, all of them low (power_manager.py, line 16).
SureReads == IF hub = "v3" THEN Reads ELSE (Reads + 3) \div 4

VerifiedByReads ==
    [][commands' # commands /\ ~requested' => (lowReads >= SureReads)']_hubVars
=============================================================================

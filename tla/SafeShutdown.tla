---------------------------- MODULE SafeShutdown ----------------------------
(***************************************************************************)
(* What the power manager promises, whatever it counts and whomever it     *)
(* warns on the way: the machine halts in the very report that completes   *)
(* Reads consecutive low ones, or when the hub asks, and stays halted.     *)
(***************************************************************************)
EXTENDS Naturals

CONSTANT Reads
VARIABLES
    lowReports,   \* consecutive low reports, up to Reads
    halted        \* the operating system has been told to shut down

safeVars == <<lowReports, halted>>

Init == lowReports = 0 /\ halted = FALSE

LowReport ==
    /\ lowReports' = IF lowReports < Reads THEN lowReports + 1 ELSE Reads
    /\ halted' = (halted \/ lowReports' = Reads)

GoodReport == lowReports' = 0 /\ UNCHANGED halted

HubRequest == halted' = TRUE /\ UNCHANGED lowReports

Next == LowReport \/ GoodReport \/ HubRequest

Spec == Init /\ [][Next]_safeVars
=============================================================================

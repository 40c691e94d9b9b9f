---------------------------- MODULE OledControl ----------------------------
(***************************************************************************)
(* The miniscreen of the third hub (pitopd/pthub3): the register that says *)
(* who controls the screen and on which SPI bus, the bus that State        *)
(* remembers, and the buses enabled on the Raspberry Pi.  All threads      *)
(* change the register by reading and writing it back, without a lock: the *)
(* main thread in App.start, the polling thread, the request server's, and *)
(* one thread for each request for another bus.                            *)
(***************************************************************************)
EXTENDS Integers, FiniteSets

CONSTANTS
    SpiThread,   \* the threads that requests for an SPI bus may start
    Scenario     \* bounds: what else may happen, one record of the set per behaviour

ASSUME OledAssumption ==
    /\ SpiThread \cap {"main", "poll", "request"} = {}
    /\ IsFiniteSet(SpiThread)
    /\ Scenario \subseteq [spi : SUBSET SpiThread,    \* the requests for a bus
                           control : Nat,           \* requests for control of the screen
                           unexpected : Nat,        \* changes of the bus by the hub itself
                           failures : Nat,          \* transfers that fail
                           early : BOOLEAN]         \* these two may come before App.start has ended

Thread == {"main", "poll", "request"} \cup SpiThread
Bus == {0, 1}
Unknown == 2
Byte == [pi : BOOLEAN, bus : Bus, reset : BOOLEAN]
NoByte == [pi |-> FALSE, bus |-> 0, reset |-> FALSE]    \* a byte no longer used
Label == {"off", "poll", "compare", "choose", "control", "spi0", "doSpi0", "spi1", "note", "emit", "send",
          "emitEnd", "sendEnd", "read", "write", "readReset", "writeReset",
          "waitReset", "idle", "done", "dead"}

VARIABLES
    register,    \* CTRL__UI_OLED_CTRL on the hub
    stateBus,    \* State.oled_spi_bus
    statePi,     \* State.oled_is_pi_controlled
    enabled,     \* the SPI buses enabled on the Raspberry Pi
    pc,          \* where each thread is
    task,        \* what it is doing: "poll", "bus" (setting the bus) or "control"
    want,        \* the bus, and the control of the screen, it sets
    copy,        \* the byte it has read
    message,     \* the bus it is about to publish
    published,   \* the bus last published to the clients
    scenario,    \* the bounds of this behaviour
    budget       \* what is left of them

state == <<stateBus, statePi>>
thread == <<task, want, copy, message>>
bounds == <<scenario, budget>>
vars == <<register, state, enabled, pc, thread, published, bounds>>

\* The first poll is the main thread's, in HubConnection.start.
Init ==
    /\ register \in [pi : BOOLEAN, bus : Bus, reset : {FALSE}]
    /\ stateBus = Unknown
    /\ statePi = FALSE
    /\ enabled \in {{}, {0}}
    /\ pc = [t \in Thread |-> IF t = "main" THEN "poll" ELSE "off"]
    /\ task = [t \in Thread |-> "poll"]
    /\ want = [t \in Thread |-> [bus |-> 1, pi |-> TRUE]]
    /\ copy = [t \in Thread |-> NoByte]
    /\ message = [t \in Thread |-> Unknown]
    /\ published = Unknown
    /\ scenario \in Scenario
    /\ budget = scenario

At(t, label) == pc[t] = label
Drop(t) == copy' = [copy EXCEPT ![t] = NoByte]
Goto(t, label) == pc' = [pc EXCEPT ![t] = label]

\* Where a thread goes on when its task is done, or when a transfer of it has
\* failed: the poll and the request server catch the exception, a thread for a
\* bus ends.  Nobody catches that of App.start: the main thread ends with it, and
\* the polling thread, started after the main thread's poll, goes on; the request
\* server, started when App.start ends, is never there.
Leave(t, failed) ==
    CASE t = "main" /\ task[t] = "poll" -> pc' = [pc EXCEPT !["main"] = "choose", !["poll"] = "poll"]
      [] t = "main" /\ failed /\ task[t] # "poll" -> Goto(t, "dead")
      [] t = "main" /\ ~failed /\ task[t] = "bus" -> Goto(t, "control")
      [] t = "main" /\ ~failed /\ task[t] = "control" ->
            pc' = [pc EXCEPT !["main"] = "done", !["request"] = "idle"]
      [] t = "poll" -> Goto(t, "poll")
      [] t = "request" -> Goto(t, "idle")
      [] t \in SpiThread -> Goto(t, "done")

-----------------------------------------------------------------------------
\* _read_oled_register.
Poll(t) ==
    /\ At(t, "poll")
    /\ copy' = [copy EXCEPT ![t] = register]
    /\ statePi' = register.pi
    /\ Goto(t, "compare")
    /\ UNCHANGED <<register, stateBus, enabled, task, want, message, published, bounds>>

\* fault: State takes over whatever bus the hub has.
FaultyCompareTrusts(t) ==
    /\ At(t, "compare")
    /\ stateBus' = copy[t].bus
    /\ Leave(t, FALSE)
    /\ Drop(t)
    /\ UNCHANGED <<register, statePi, enabled, task, want, message, published, bounds>>

\* fault: a bus that has changed is not set again.
FaultyCompareIgnores(t) ==
    /\ At(t, "compare")
    /\ stateBus' = IF stateBus = Unknown THEN copy[t].bus ELSE stateBus
    /\ Leave(t, FALSE)
    /\ Drop(t)
    /\ UNCHANGED <<register, statePi, enabled, task, want, message, published, bounds>>

\* The bus that State has now is set again below, SPI1 if it had none.
Compare(t) ==
    /\ At(t, "compare")
    /\ IF stateBus = copy[t].bus
       THEN Leave(t, FALSE) /\ UNCHANGED <<stateBus, want>>
       ELSE /\ stateBus' = IF stateBus = Unknown THEN copy[t].bus ELSE stateBus
            /\ want' = [want EXCEPT ![t].bus = IF stateBus = 0 THEN 0 ELSE 1]
            /\ Goto(t, "note")
    /\ Drop(t)
    /\ UNCHANGED <<register, statePi, enabled, task, message, published, bounds>>

\* App.start asks the hub for the bus.
Choose ==
    /\ At("main", "choose")
    /\ task' = [task EXCEPT !["main"] = "bus"]
    /\ want' = [want EXCEPT !["main"].bus = register.bus]
    /\ Goto("main", "spi0")
    /\ UNCHANGED <<register, state, enabled, copy, message, published, bounds>>

\* App.on_request_set_oled_spi_bus: the setter of spi0 finds whether the bus is
\* as wanted, and runs raspi-config if it is not.
Spi0(t) ==
    /\ At(t, "spi0")
    /\ Goto(t, IF (0 \in enabled) = (want[t].bus = 0) THEN "spi1" ELSE "doSpi0")
    /\ UNCHANGED <<register, state, enabled, thread, published, bounds>>

\* fault: the argument of raspi-config is the wrong way round.
FaultyDoSpi0(t) ==
    /\ At(t, "doSpi0")
    /\ enabled' = IF want[t].bus = 1 THEN enabled \cup {0} ELSE enabled \ {0}
    /\ Goto(t, "spi1")
    /\ UNCHANGED <<register, state, thread, published, bounds>>

DoSpi0(t) ==
    /\ At(t, "doSpi0")
    /\ enabled' = IF want[t].bus = 0 THEN enabled \cup {0} ELSE enabled \ {0}
    /\ Goto(t, "spi1")
    /\ UNCHANGED <<register, state, thread, published, bounds>>

\* SPI1 can only be enabled.
Spi1(t) ==
    /\ At(t, "spi1")
    /\ enabled' = IF want[t].bus = 1 THEN enabled \cup {1} ELSE enabled
    /\ Goto(t, "note")
    /\ UNCHANGED <<register, state, thread, published, bounds>>

\* fault: the change is not published.
FaultyNote(t) ==
    /\ At(t, "note")
    /\ stateBus' = want[t].bus
    /\ Goto(t, "read")
    /\ UNCHANGED <<register, statePi, enabled, thread, published, bounds>>

\* State.set_oled_using_spi0_state, for which no bus is as good as SPI1; the poll
\* publishes even what has not changed, after it has set the bus.
Note(t) ==
    /\ At(t, "note")
    /\ IF (stateBus = 0) # (want[t].bus = 0)
       THEN stateBus' = want[t].bus /\ Goto(t, "emit")
       ELSE Goto(t, "read") /\ UNCHANGED stateBus
    /\ UNCHANGED <<register, statePi, enabled, thread, published, bounds>>

Emit(t) ==
    /\ At(t, "emit") \/ At(t, "emitEnd")
    /\ message' = [message EXCEPT ![t] = stateBus]
    /\ Goto(t, IF pc[t] = "emit" THEN "send" ELSE "sendEnd")
    /\ UNCHANGED <<register, state, enabled, task, want, copy, published, bounds>>

Send(t) ==
    /\ At(t, "send") \/ At(t, "sendEnd")
    /\ published' = message[t]
    /\ message' = [message EXCEPT ![t] = Unknown]
    /\ IF pc[t] = "send" THEN Goto(t, "read") ELSE Leave(t, FALSE)
    /\ UNCHANGED <<register, state, enabled, task, want, copy, bounds>>

-----------------------------------------------------------------------------
\* HubConnection.set_oled_use_spi0 and set_oled_control, each followed by
\* reset_oled.
Read(t) ==
    /\ At(t, "read")
    /\ copy' = [copy EXCEPT ![t] = register]
    /\ Goto(t, "write")
    /\ UNCHANGED <<register, state, enabled, task, want, message, published, bounds>>

Changed(t) == IF task[t] = "control" THEN [copy[t] EXCEPT !.pi = want[t].pi]
                                     ELSE [copy[t] EXCEPT !.bus = want[t].bus]

Write(t) ==
    /\ At(t, "write")
    /\ register' = Changed(t)
    /\ Drop(t)
    /\ Goto(t, "readReset")
    /\ UNCHANGED <<state, enabled, task, want, message, published, bounds>>

ReadReset(t) ==
    /\ At(t, "readReset")
    /\ copy' = [copy EXCEPT ![t] = register]
    /\ Goto(t, "writeReset")
    /\ UNCHANGED <<register, state, enabled, task, want, message, published, bounds>>

WriteReset(t) ==
    /\ At(t, "writeReset")
    /\ register' = [copy[t] EXCEPT !.reset = TRUE]
    /\ Drop(t)
    /\ Goto(t, "waitReset")
    /\ UNCHANGED <<state, enabled, task, want, message, published, bounds>>

\* The wait ends when the hub has cleared the bit, or after five readings.
WaitReset(t) ==
    /\ At(t, "waitReset")
    /\ IF task[t] = "poll" THEN Goto(t, "emitEnd") ELSE Leave(t, FALSE)
    /\ UNCHANGED <<register, state, enabled, thread, published, bounds>>

TransferFails(t) ==
    /\ pc[t] \in {"poll", "choose", "read", "write", "readReset", "writeReset", "waitReset"}
    /\ budget.failures > 0
    /\ scenario.early \/ pc["main"] = "done"
    /\ budget' = [budget EXCEPT !.failures = @ - 1]
    /\ IF pc[t] = "choose" THEN Goto(t, "dead") ELSE Leave(t, TRUE)
    /\ Drop(t)
    /\ UNCHANGED <<register, state, enabled, task, want, message, published, scenario>>

-----------------------------------------------------------------------------
\* App.start takes control of the screen.
TakeControl ==
    /\ At("main", "control")
    /\ task' = [task EXCEPT !["main"] = "control"]
    /\ Goto("main", "read")
    /\ UNCHANGED <<register, state, enabled, want, copy, message, published, bounds>>

RequestControl(value) ==
    /\ At("request", "idle") /\ budget.control > 0
    /\ budget' = [budget EXCEPT !.control = @ - 1]
    /\ task' = [task EXCEPT !["request"] = "control"]
    /\ want' = [want EXCEPT !["request"].pi = value]
    /\ Goto("request", "read")
    /\ UNCHANGED <<register, state, enabled, copy, message, published, scenario>>

\* The answer does not wait for the thread.
RequestBus(s, bus) ==
    /\ At("request", "idle") /\ s \in scenario.spi /\ pc[s] = "off"
    /\ task' = [task EXCEPT ![s] = "bus"]
    /\ want' = [want EXCEPT ![s].bus = bus]
    /\ Goto(s, "spi0")
    /\ UNCHANGED <<register, state, enabled, copy, message, published, bounds>>

HubResets ==
    /\ register.reset
    /\ register' = [register EXCEPT !.reset = FALSE]
    /\ UNCHANGED <<state, enabled, pc, thread, published, bounds>>

HubChangesBus ==
    /\ budget.unexpected > 0
    /\ scenario.early \/ pc["main"] = "done"
    /\ budget' = [budget EXCEPT !.unexpected = @ - 1]
    /\ register' = [register EXCEPT !.bus = 1 - @]
    /\ UNCHANGED <<state, enabled, pc, thread, published, scenario>>

Run(t) ==
    \/ Poll(t) \/ Compare(t) \/ Spi0(t) \/ DoSpi0(t) \/ Spi1(t) \/ Note(t) \/ Emit(t) \/ Send(t)
    \/ Read(t) \/ Write(t) \/ ReadReset(t) \/ WriteReset(t) \/ WaitReset(t)

Next ==
    \/ \E t \in Thread : Run(t) \/ TransferFails(t)
    \/ Choose \/ TakeControl
    \/ \E value \in BOOLEAN : RequestControl(value)
    \/ \E s \in SpiThread, bus \in Bus : RequestBus(s, bus)
    \/ HubResets \/ HubChangesBus

Spec == Init /\ [][Next]_vars

\* Every thread runs on, and the hub carries out a reset.
FairSpec ==
    /\ Spec
    /\ \A t \in Thread : WF_vars(Run(t))
    /\ WF_vars(Choose) /\ WF_vars(TakeControl) /\ WF_vars(HubResets)

-----------------------------------------------------------------------------
\* Whatever the threads overwrite and whichever transfers fail, the polling
\* brings State and the register together: in the end State has the register's
\* bus and control, also when App.start has ended in the middle of setting them
\* (HubConnection._read_oled_register).
StateSettles == <>[](stateBus = register.bus /\ statePi = register.pi)

\* The bus that the hub uses for the screen is, in the end, enabled on the
\* Raspberry Pi (App.on_request_set_oled_spi_bus), if the start's transfers succeed.
BusIsEnabled == ~scenario.early => <>[](register.bus \in enabled)

\* A client's request for a bus is met in the end, even when a transfer of its
\* thread has failed after its answer (App.on_request_set_oled_spi_bus).
RequestIsMet ==
    ~scenario.early =>
        \A s \in SpiThread : <>[](pc[s] = "done" => register.bus = want[s].bus)

\* The bus last published, if any was, is the one that State has
\* (State.emit_oled_spi_bus_state_changed).
ClientsKnowBus == ~scenario.early => <>[](published \in {stateBus, Unknown})

\* A bus that the hub changes by itself is set back to the one App.start
\* configured, as long as no client asks for another (_read_oled_register).
UnexpectedIsReverted ==
    scenario.spi = {} /\ scenario.failures = 0 => <>[](register.bus = want["main"].bus)
=============================================================================

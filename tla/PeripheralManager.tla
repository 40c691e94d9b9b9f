------------------------- MODULE PeripheralManager -------------------------
(***************************************************************************)
(* The peripherals on the I2C bus (pitopd/peripheral_manager.py), and what *)
(* enabling the audio ones changes in the machine's boot configuration     *)
(* (ptspeaker, ptpulse, sys_config): a change takes effect at a reboot,    *)
(* which the user is asked for, after which the peripheral is set up anew. *)
(***************************************************************************)
EXTENDS Integers, Sequences, SequencesExt

CONSTANTS
    AddressOrder,   \* the peripherals, in the order of their addresses
    Compatible,     \* the pairs that may be enabled together (pitop.common)
    Host,           \* of "pi_top" (and CEED), "pi_top_3" and "pi_top_4"
    Bullseye,       \* the distribution is bullseye: no switch of the overlay
    MaxPlug,        \* bound: so often a peripheral is plugged or unplugged
    MaxRestart,     \* bound: so often the service is restarted without a reboot
    MaxFault        \* bound: so often the setup of a speaker fails

Peripheral == ToSet(AddressOrder)
CountTo == 5   \* bound: reboots are counted so far

ASSUME PeripheralAssumption ==
    /\ AddressOrder \in Seq({"pulse", "speaker1", "speaker2", "proto"})
    /\ IsInjective(AddressOrder)
    /\ Compatible \subseteq Peripheral \X Peripheral
    /\ \A p, q \in Peripheral : <<p, q>> \in Compatible => <<q, p>> \in Compatible
    /\ Host \subseteq {"pi_top", "pi_top_3", "pi_top_4"}
    /\ Bullseye \in BOOLEAN
    /\ MaxPlug \in Nat /\ MaxRestart \in Nat /\ MaxFault \in Nat

\* The breadboard goes with each peripheral, the others exclude each other; the
\* address of the first speaker, the only one whose setup may fail, is the last.
ASSUME AddressAssumption ==
    /\ \A p, q \in Peripheral : p # q => (<<p, q>> \in Compatible <=> "proto" \in {p, q})
    /\ \A i \in DOMAIN AddressOrder : AddressOrder[i] = "speaker1" => i = Len(AddressOrder)

\* What the boot files say: I2S audio, the HDMI drive, the UART, the console on
\* the serial port, and the video overlay.
BootFiles == [i2s : BOOLEAN, hdmi : BOOLEAN, uart : BOOLEAN, console : BOOLEAN, overlay : {"kms", "fkms"}]

VARIABLES
    host,         \* App.device_id
    attached,     \* the peripherals on the bus
    list,         \* _enabled_peripherals
    seen,         \* the addresses found by the current pass
    pc,           \* "scan", "purge" or "enable"
    index,        \* where the pass's loop is
    boot,         \* the boot files
    i2sNow,       \* whether I2S audio runs in this session
    configured,   \* "i2s_configured" in the state file
    due,          \* a reboot has been asked for, or called
    reboots,      \* reboots since a peripheral was last plugged or unplugged
    budget        \* what is left of the bounds

pass == <<seen, pc, index>>
machine == <<host, boot, i2sNow, configured>>
vars == <<attached, list, pass, machine, due, reboots, budget>>

Init ==
    /\ host \in Host
    /\ attached \in SUBSET Peripheral
    /\ list = <<>>
    /\ seen = {} /\ pc = "scan" /\ index = 1
    /\ boot \in BootFiles
    /\ i2sNow = boot.i2s
    /\ configured \in BOOLEAN /\ (i2sNow => configured)
    /\ due = FALSE
    /\ reboots = 0
    /\ budget = [plug |-> MaxPlug, restart |-> MaxRestart, fault |-> MaxFault]

-----------------------------------------------------------------------------
\* The outcomes of enable_device of ptpulse and ptspeaker.  A setup writes the
\* boot files as they are wanted; without a reboot the peripheral is enabled.
Outcome(files, reboot, works) == [boot |-> files, reboot |-> reboot, enabled |-> works /\ ~reboot]

\* _check_and_set_serial_config; HDMI.set_hdmi_drive_in_boot_config
WithSerial(files) == [files EXCEPT !.uart = TRUE, !.console = FALSE]
WithHdmi(files) == [files EXCEPT !.hdmi = TRUE]

\* _initialise_v1_hub_pulse, _initialise_v2_hub_pulse: what counts is the I2S of
\* this session.
PulseWithI2S(required) ==
    LET files == [WithSerial(WithHdmi(boot)) EXCEPT !.i2s = IF i2sNow # required THEN required ELSE @]
    IN {Outcome(files, i2sNow # required \/ WithSerial(WithHdmi(boot)) # boot, TRUE)}

\* The I2S of a speaker is set only if neither this session nor the boot files
\* have it; with nothing to reboot for, the HDMI drive is set.
\* fault: the drive counts as set now, whatever the boot files had.
FaultySpeaker(required, overlay, works) ==
    IF i2sNow # required \/ boot.overlay # overlay
    THEN Outcome([boot EXCEPT !.i2s = required, !.overlay = overlay], TRUE, FALSE)
    ELSE Outcome(WithHdmi(boot), TRUE, works)

Speaker(required, overlay, works) ==
    LET flip == i2sNow # required /\ boot.i2s # required
        switch == ~Bullseye /\ boot.overlay # overlay
        files == [boot EXCEPT !.i2s = IF flip THEN required ELSE @,
                              !.overlay = IF switch THEN overlay ELSE @]
    IN IF flip \/ switch THEN Outcome(files, TRUE, FALSE)
                         ELSE Outcome(WithHdmi(boot), ~boot.hdmi, works)

\* The outcomes of each setup; a speaker of the first version may not answer.
Setup(p) ==
    CASE p = "pulse" /\ host = "pi_top"   -> PulseWithI2S(TRUE)
      [] p = "pulse" /\ host = "pi_top_3" -> PulseWithI2S(FALSE)
      [] p = "pulse" /\ host = "pi_top_4" -> {Outcome(WithSerial(boot), WithSerial(boot) # boot, TRUE)}
      [] p = "speaker1" /\ host = "pi_top" ->
            {Speaker(FALSE, "fkms", works) : works \in {TRUE} \cup (IF budget.fault > 0 THEN {FALSE} ELSE {})}
      [] p = "speaker2" /\ host = "pi_top"   -> {Speaker(TRUE, "kms", TRUE)}
      [] p = "speaker2" /\ host = "pi_top_3" -> {Speaker(FALSE, "kms", TRUE)}
      [] p = "proto" -> {Outcome(boot, FALSE, TRUE)}
      [] OTHER -> {}

\* update_peripheral_state marks a speaker of the first version on the second
\* hub as enabled, and leaves any speaker on the third hub alone.
Unsupported(p) == p = "speaker1" /\ host = "pi_top_3"
Ignored(p) == p \in {"speaker1", "speaker2"} /\ host = "pi_top_4"

-----------------------------------------------------------------------------
\* auto_initialise_peripherals: the addresses on the bus,
Scan ==
    /\ pc = "scan"
    /\ seen' = attached
    /\ pc' = "purge" /\ index' = 1
    /\ UNCHANGED <<attached, list, machine, due, reboots, budget>>

\* the enabled peripherals that are gone, taken from the list by a loop that runs
\* over it and so skips the one after each,
\* fault: only the first of the list is looked at.
FaultyPurge ==
    /\ pc = "purge"
    /\ IF list = <<>> \/ list[1] \in seen
       THEN UNCHANGED list
       ELSE list' = Tail(list)
    /\ pc' = "enable" /\ index' = 1
    /\ UNCHANGED <<attached, seen, machine, due, reboots, budget>>

Purge ==
    /\ pc = "purge"
    /\ IF index > Len(list)
       THEN pc' = "enable" /\ index' = 1 /\ UNCHANGED list
       ELSE /\ index' = index + 1
            /\ UNCHANGED pc
            /\ IF list[index] \in seen
               THEN UNCHANGED list
               ELSE list' = RemoveAt(list, index)
    /\ UNCHANGED <<attached, seen, machine, due, reboots, budget>>

\* and those that are there and not enabled, if compatible with the enabled.
Fits(p) == \A q \in ToSet(list) : p # q => <<p, q>> \in Compatible

Wanted(p) == p \in seen /\ p \notin ToSet(list) /\ Fits(p)

NextAddress ==
    IF index < Len(AddressOrder) THEN index' = index + 1 /\ UNCHANGED pc
                                 ELSE index' = 1 /\ pc' = "scan"

\* fault: a peripheral that cannot be enabled at once ends the pass.
FaultyPass ==
    /\ pc = "enable"
    /\ ~Wanted(AddressOrder[index]) \/ Ignored(AddressOrder[index])
    /\ pc' = "scan" /\ index' = 1
    /\ UNCHANGED <<attached, list, seen, machine, due, reboots, budget>>

Pass ==
    /\ pc = "enable"
    /\ ~Wanted(AddressOrder[index]) \/ Ignored(AddressOrder[index])
    /\ NextAddress
    /\ UNCHANGED <<attached, list, seen, machine, due, reboots, budget>>

Refuse ==
    /\ pc = "enable"
    /\ LET p == AddressOrder[index] IN
        /\ Wanted(p) /\ Unsupported(p)
        /\ list' = Append(list, p)
    /\ NextAddress
    /\ UNCHANGED <<attached, seen, machine, due, reboots, budget>>

\* A peripheral that needs a reboot is marked as enabled too, so that it is not
\* set up again.
Enable ==
    /\ pc = "enable"
    /\ Wanted(AddressOrder[index])
    /\ \E o \in Setup(AddressOrder[index]) :
        /\ boot' = o.boot
        /\ IF o.enabled \/ o.reboot
           THEN /\ list' = Append(list, AddressOrder[index])
                /\ UNCHANGED budget
           ELSE /\ budget' = [budget EXCEPT !.fault = @ - 1]
                /\ UNCHANGED list
        /\ due' = (due \/ o.reboot)
    /\ NextAddress
    /\ UNCHANGED <<host, attached, seen, i2sNow, configured, reboots>>

-----------------------------------------------------------------------------
\* A new process forgets its list; configure_hifiberry sets the sound card up in
\* the first session with I2S, and calls for another reboot.
NewProcess(i2s, pending) ==
    /\ list' = <<>>
    /\ seen' = {} /\ pc' = "scan" /\ index' = 1
    /\ i2sNow' = i2s
    /\ configured' = (configured \/ i2s)
    /\ due' = (pending \/ (i2s /\ ~configured))
    /\ UNCHANGED <<host, attached, boot>>

Reboot ==
    /\ due
    /\ NewProcess(boot.i2s, FALSE)
    /\ reboots' = IF reboots < CountTo THEN reboots + 1 ELSE CountTo
    /\ UNCHANGED budget

Restart ==
    /\ budget.restart > 0
    /\ budget' = [budget EXCEPT !.restart = @ - 1]
    /\ NewProcess(i2sNow, due)
    /\ UNCHANGED reboots

Plug(p) ==
    /\ budget.plug > 0
    /\ budget' = [budget EXCEPT !.plug = @ - 1]
    /\ attached' = IF p \in attached THEN attached \ {p} ELSE attached \cup {p}
    /\ reboots' = 0
    /\ UNCHANGED <<list, pass, machine, due>>

Work == Scan \/ Purge \/ Pass \/ Refuse \/ Enable

Next == Work \/ Reboot \/ Restart \/ \E p \in Peripheral : Plug(p)

Spec == Init /\ [][Next]_vars

\* The thread goes on, and the user reboots when asked to.
FairSpec == Spec /\ WF_vars(Work) /\ WF_vars(Reboot)

-----------------------------------------------------------------------------
\* In the end what is enabled is attached, also after several peripherals were
\* unplugged at once (auto_initialise_peripherals).
ListIsAttached == <>[](ToSet(list) \subseteq attached)

\* In the end what is attached, known to the host and compatible with the rest
\* is enabled.
AttachedIsListed ==
    \A p \in Peripheral : <>[](p \in attached => p \in ToSet(list) \/ ~Fits(p) \/ Ignored(p))

\* A set of peripherals is set up after four reboots: one that a pass begun
\* earlier has asked for, one for I2S and the overlay, one for the sound card and
\* one for the HDMI drive (_initialise_v1_hub_v2_speaker, configure_hifiberry).
FourReboots == reboots <= 4
=============================================================================

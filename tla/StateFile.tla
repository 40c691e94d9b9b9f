----------------------------- MODULE StateFile -----------------------------
(***************************************************************************)
(* The state file (pitopd/state.py), which pi-topd reads when it starts    *)
(* and writes anew, truncated first, with each setting, and which          *)
(* pt-poweroff and pt-reboot (pitopd/poweroff.py) read, without the lock,  *)
(* when the system goes down: it tells them which hub there is to inform.  *)
(***************************************************************************)
EXTENDS Naturals

CONSTANTS
    Device,     \* the pi-tops that the card can be in
    Timeouts,   \* the screen's timeouts that clients ask for
    Bounds      \* so often a timeout is set, the system halts without need, the process
                \* dies or the power fails, the machine boots, the card is moved

Nothing == "nothing"     \* no entry
ASSUME StateAssumption ==
    /\ Nothing \notin Device /\ "unknown" \notin Device
    /\ Bounds \subseteq [set : Nat, halt : Nat, kill : Nat, boot : Nat, move : 0..1]

Key == {"type", "timeout", "i2s_configured"}
Setter == {"main", "request", "peripheral"}
Empty == [key \in Key |-> Nothing]

VARIABLES
    disk,       \* the entries of the file
    memory,     \* those of config_parser
    setting,    \* the set under way, which holds the lock: who, and the entry
    stage,      \* of it: "free", "changed" or "truncated"
    phase,      \* pi-topd: "down", "starting", "serving" or "ended"
    power,      \* the machine: "on", "poweroff" or "reboot" for going down, or "off"
    told,       \* the hub that pt-poweroff or pt-reboot has informed; Nothing: not run yet
    hub,        \* the pi-top that the card is in
    kept,       \* the entries of which a set has ended, unless they may have been lost since
    versions,   \* the contents that the file may have if the power fails now
    bounds      \* what is left of the bounds

stateVars == <<disk, memory, setting, stage, phase, power, told, hub, kept, versions, bounds>>

StateInit ==
    /\ disk = Empty /\ memory = Empty /\ kept = Empty /\ versions = {Empty}
    /\ setting = <<>> /\ stage = "free"
    /\ phase = "down" /\ power = "on" /\ told = Nothing
    /\ hub \in Device
    /\ bounds \in Bounds

Spend(what) == bounds[what] > 0 /\ bounds' = [bounds EXCEPT ![what] = @ - 1]

-----------------------------------------------------------------------------
\* The module is imported: the file is read.
FaultyStart ==   \* fault: it is not
    /\ power = "on" /\ phase = "down"
    /\ memory' = Empty
    /\ phase' = "starting"
    /\ UNCHANGED <<disk, setting, stage, power, told, hub, kept, versions, bounds>>

Start ==
    /\ power = "on" /\ phase = "down"
    /\ memory' = disk
    /\ phase' = "starting"
    /\ UNCHANGED <<disk, setting, stage, power, told, hub, kept, versions, bounds>>

\* state.set: the entry is changed in memory, the file opened and thus truncated,
\* then written, all under the lock.
Set(who, key, value) ==
    /\ stage = "free"
    /\ setting' = <<who, key>>
    /\ memory' = [memory EXCEPT ![key] = value]
    /\ stage' = "changed"

Truncate ==
    /\ stage = "changed"
    /\ stage' = "truncated"
    /\ disk' = Empty /\ versions' = versions \cup {disk'}
    /\ UNCHANGED <<memory, setting, phase, power, told, hub, kept, bounds>>

Save ==
    /\ stage = "truncated"
    /\ stage' = "free" /\ setting' = <<>>
    /\ disk' = memory /\ versions' = versions \cup {disk'}
    /\ kept' = [kept EXCEPT ![setting[2]] = memory[setting[2]]]
    /\ UNCHANGED <<memory, phase, power, told, hub, bounds>>

-----------------------------------------------------------------------------
\* App.start: the device is recorded; without a hub, or a hub that does not tell,
\* it is unknown and pi-topd ends.
RecordDevice ==
    /\ phase = "starting"
    /\ \/ Set("main", "type", hub) /\ phase' = "serving"
       \/ Set("main", "type", "unknown") /\ phase' = "ended"
    /\ UNCHANGED <<disk, power, told, hub, kept, versions, bounds>>

\* A client's request; the peripheral manager's configure_hifiberry, which then
\* reboots.
SetTimeout ==
    /\ phase = "serving" /\ Spend("set")
    /\ \E value \in Timeouts : Set("request", "timeout", value)
    /\ UNCHANGED <<disk, phase, power, told, hub, kept, versions>>

ConfigureSound ==
    /\ phase = "serving" /\ memory["i2s_configured"] = Nothing
    /\ Set("peripheral", "i2s_configured", "true")
    /\ UNCHANGED <<disk, phase, power, told, hub, kept, versions, bounds>>

-----------------------------------------------------------------------------
\* The system goes down.  systemd stops pi-topd, which ends what it is writing,
\* and starts pt-poweroff or pt-reboot; nothing orders one after the other.
GoDown(how) ==
    /\ power = "on" /\ phase # "down"
    /\ power' = how
    /\ UNCHANGED <<disk, memory, setting, stage, phase, told, hub, kept, versions>>

Halt == Spend("halt") /\ \E how \in {"poweroff", "reboot"} : GoDown(how)

AskedReboot == GoDown("reboot") /\ UNCHANGED bounds

Terminate ==
    /\ power \in {"poweroff", "reboot"} /\ phase # "ended" /\ stage = "free"
    /\ phase' = "ended"
    /\ UNCHANGED <<disk, memory, setting, stage, power, told, hub, kept, versions, bounds>>

\* poweroff() and reboot(): only a pi-top[4] has to know of a reboot.
FaultyPtPoweroff ==   \* fault: a pi-top[4] alone is informed
    /\ power \in {"poweroff", "reboot"} /\ told = Nothing
    /\ LET type == IF disk["type"] = Nothing THEN "unknown" ELSE disk["type"]
       IN told' = IF type # "pi_top_4" THEN "unknown" ELSE type
    /\ UNCHANGED <<disk, memory, setting, stage, phase, power, hub, kept, versions, bounds>>

PtPoweroff ==
    /\ power \in {"poweroff", "reboot"} /\ told = Nothing
    /\ LET type == IF disk["type"] = Nothing THEN "unknown" ELSE disk["type"]
       IN told' = IF power = "reboot" /\ type # "pi_top_4" THEN "unknown" ELSE type
    /\ UNCHANGED <<disk, memory, setting, stage, phase, power, hub, kept, versions, bounds>>

\* An orderly end unmounts the file systems, which writes the file back.
SwitchOff ==
    /\ power \in {"poweroff", "reboot"} /\ told # Nothing /\ phase = "ended" /\ stage = "free"
    /\ power' = "off" /\ versions' = {disk}
    /\ UNCHANGED <<disk, memory, setting, stage, phase, told, hub, kept, bounds>>

\* The card may have been put into another pi-top.
Boot ==
    /\ power = "off" /\ bounds.boot > 0
    /\ \E moved \in 0..bounds.move :
        /\ hub' \in IF moved = 0 THEN {hub} ELSE Device \ {hub}
        /\ bounds' = [bounds EXCEPT !.boot = @ - 1, !.move = @ - moved]
    /\ power' = "on" /\ phase' = "down" /\ told' = Nothing
    /\ UNCHANGED <<disk, memory, setting, stage, kept, versions>>

\* The kernel writes the file back at some time: __save does not ask for it.  That
\* matters only as long as the power may fail.
WriteBack ==
    /\ versions # {disk} /\ bounds.kill > 0
    /\ versions' = {disk}
    /\ UNCHANGED <<disk, memory, setting, stage, phase, power, told, hub, kept, bounds>>

\* The process dies and is restarted, or the power fails; memory is lost.
Dies ==
    /\ power # "off" /\ Spend("kill")
    /\ memory' = Empty
    /\ setting' = <<>> /\ stage' = "free"
    /\ UNCHANGED <<told, hub>>

\* What the process was writing stays as it is.
Kill ==
    /\ phase \in {"starting", "serving"} \/ stage # "free"
    /\ Dies
    /\ kept' = IF stage = "truncated" THEN Empty ELSE kept
    /\ phase' = IF power = "on" THEN "down" ELSE "ended"
    /\ UNCHANGED <<disk, versions, power>>

\* What has not been written back may be lost: an ended set, or all of the file.
PowerFails ==
    /\ Dies
    /\ disk' \in versions /\ versions' = {disk'}
    /\ kept' = IF versions = {disk} /\ stage # "truncated" THEN kept ELSE disk'
    /\ phase' = "ended" /\ power' = "off"

StateNext ==
    \/ Start \/ Truncate \/ Save
    \/ RecordDevice \/ SetTimeout \/ ConfigureSound
    \/ Halt \/ AskedReboot \/ Terminate \/ PtPoweroff \/ SwitchOff \/ Boot
    \/ WriteBack \/ Kill \/ PowerFails

StateSpec == StateInit /\ [][StateNext]_stateVars

-----------------------------------------------------------------------------
\* Every entry whose set has ended is in the file, whoever else sets one, and
\* through every restart, unless the process was interrupted while the file was
\* truncated, or the power failed before the kernel had written it back (state.py:
\* the lock, the read at import, the write of all of it).
NothingForgotten == stage # "truncated" => disk = kept

\* pt-poweroff informs the hub that pi-topd last recorded, although it runs while
\* pi-topd is being stopped, unless the file is truncated at that very moment.
HubIsTold ==
    [][power = "poweroff" /\ told' # told /\ told' # Nothing /\ kept["type"] = hub /\ stage # "truncated"
        => told' = hub]_stateVars
=============================================================================

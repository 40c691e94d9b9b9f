------------------------------- MODULE Files -------------------------------
(***************************************************************************)
(* The two files that pi-topd writes in place, through reboots, crashes    *)
(* and power failures: the state file by three threads under a lock, the   *)
(* boot configuration by the peripheral manager's thread, which also sets  *)
(* one entry of the state file.                                            *)
(***************************************************************************)
EXTENDS StateFile, BootConfig

CONSTANT Case        \* the pairs of a file found at first and of bounds that are looked at

ASSUME CaseAssumption == Case \subseteq Files \X Bounds

filesVars == <<stateVars, configVars>>

FilesInit ==
    /\ StateInit /\ ConfigInit
    /\ <<file, bounds>> \in Case

\* The threads of pi-topd run.
Up == phase = "serving"

MainSteps == (Start \/ RecordDevice) /\ UNCHANGED configVars
SetSteps == (Truncate \/ Save) /\ UNCHANGED configVars
RequestSteps == SetTimeout /\ UNCHANGED configVars

\* The peripheral manager's thread, which is in one place at a time.
PeripheralSteps ==
    \/ Up /\ Setup /\ setting \notin {<<"peripheral", key>> : key \in Key} /\ UNCHANGED stateVars
    \/ AtRest /\ ConfigureSound /\ UNCHANGED configVars

\* The user, or a flat battery, shuts the system down at any time; the reboot that
\* the user is asked for comes when it is due.
GoesDown ==
    /\ Halt \/ (edit = "due" /\ AskedReboot)
    /\ UNCHANGED configVars

Stops ==
    \/ ((Terminate /\ AtRest) \/ PtPoweroff) /\ UNCHANGED configVars
    \/ SwitchOff /\ WrittenBack

Boots == Boot /\ Reboot

WritesBack ==
    \/ WriteBack /\ UNCHANGED configVars
    \/ onDisk # {file} /\ bounds.kill > 0 /\ WrittenBack /\ UNCHANGED stateVars

Dying == (Kill /\ Crashed) \/ (PowerFails /\ PowerCut)

FilesNext ==
    \/ MainSteps \/ SetSteps \/ RequestSteps \/ PeripheralSteps
    \/ GoesDown \/ Stops \/ Boots \/ WritesBack \/ Dying

\* The threads are scheduled, the system goes down and comes up again, and the
\* user reboots when asked to.
FilesSpec ==
    /\ FilesInit /\ [][FilesNext]_filesVars
    /\ WF_filesVars(MainSteps) /\ WF_filesVars(SetSteps)
    /\ WF_filesVars(Up /\ Setup /\ UNCHANGED stateVars)
    /\ WF_filesVars(edit = "due" /\ GoesDown) /\ WF_filesVars(Stops) /\ WF_filesVars(Boots)

-----------------------------------------------------------------------------
\* Whatever the file was, and wherever the edits of it are interrupted, the speaker
\* is set up in the end with the overlay that it needs, if pi-topd goes on to run:
\* nobody is asked to reboot again and again, and no switch is left half made.
SetupEnds == <>[](phase = "serving") => <>[](edit = "done" /\ CurrentOverlay = want)
=============================================================================

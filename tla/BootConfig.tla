----------------------------- MODULE BootConfig -----------------------------
(***************************************************************************)
(* config.txt of the boot partition, as setting up a speaker edits it      *)
(* (ptspeaker, sys_config, config_parser): the line of one video overlay   *)
(* is commented out and the other's added, by the sections of the file,    *)
(* and the HDMI drive set line by line.  Each edit truncates the file and  *)
(* writes it; the overlay takes effect at a reboot.                        *)
(***************************************************************************)
EXTENDS Integers, Sequences, SequencesExt, FiniteSetsExt

CONSTANTS
    Name,       \* the names of sections and settings
    Files       \* the files found at first

\* A line: the tag of a section, or a setting, commented out or not.
Tag(name) == [tag |-> TRUE, name |-> name, off |-> FALSE]
Setting(name) == [tag |-> FALSE, name |-> name, off |-> FALSE]
Off(line) == [line EXCEPT !.off = TRUE]
On(line) == [line EXCEPT !.off = FALSE]

Overlay == {"kms", "fkms"}
Drive == {"hdmi_drive=1", "hdmi_drive=2"}

Line == {line \in [tag : BOOLEAN, name : Name, off : BOOLEAN] :
            line.tag => ~line.off /\ line.name \notin Overlay \cup Drive}

ASSUME ConfigAssumption ==
    /\ {"all"} \cup Overlay \cup Drive \subseteq Name
    /\ Files \subseteq Seq(Line)

Other(overlay) == CHOOSE o \in Overlay : o # overlay

VARIABLES
    file,       \* the lines of the file
    want,       \* the overlay that the speaker needs
    running,    \* the overlay of this session, as the device tree tells it
    edit,       \* where the setup is
    plan,       \* what is to be written to the file
    open,       \* the file has been truncated and not yet written
    asked,      \* so many reboots have been asked for
    torn,       \* an interruption has left the file truncated
    cuts,       \* so often the setup was interrupted, a power failure counted twice
    onDisk,     \* the lines that the file may have if the power fails now
    original    \* the file found at first

configVars == <<file, want, running, edit, plan, open, asked, torn, cuts, onDisk, original>>

ConfigInit ==
    /\ file \in Files /\ original = file /\ onDisk = {file}
    /\ want \in Overlay /\ running \in Overlay
    /\ edit = "check" /\ plan = <<>> /\ open = FALSE
    /\ asked = 0 /\ torn = FALSE /\ cuts = 0

-----------------------------------------------------------------------------
\* RpiConfigParser.load: the sections are kept when the next one begins, unless
\* that has the same name and is not [all], and at the end of the file, unless it
\* ends with a tag.
Section(name, settings) == [name |-> name, settings |-> settings]

FaultyLoadLine(loaded, line) ==   \* fault: a second [all] makes no exception
    LET section == loaded.section IN
    CASE ~line.tag ->
            [loaded EXCEPT !.section.settings = Append(@, line)]
      [] line.tag /\ line.name # section.name ->
            [sections |-> Append(loaded.sections, section), section |-> Section(line.name, <<>>)]
      [] OTHER ->
            [loaded EXCEPT !.section = Section(line.name, <<>>)]

LoadLine(loaded, line) ==
    LET section == loaded.section IN
    CASE ~line.tag ->
            [loaded EXCEPT !.section.settings = Append(@, line)]
      [] line.tag /\ (line.name = "all" \/ line.name # section.name) ->
            [sections |-> Append(loaded.sections, section), section |-> Section(line.name, <<>>)]
      [] OTHER ->
            [loaded EXCEPT !.section = Section(line.name, <<>>)]

Load(lines) ==
    LET after[i \in 0..Len(lines)] ==
            IF i = 0 THEN [sections |-> <<>>, section |-> Section("all", <<>>)]
                     ELSE LoadLine(after[i - 1], lines[i])
        loaded == after[Len(lines)]
    IN IF lines = <<>> \/ Last(lines).tag THEN loaded.sections
                                          ELSE Append(loaded.sections, loaded.section)

\* RpiConfigParser.write: the first section, if it is [all], without its tag.
Lines(sections) ==
    FlattenSeq([i \in DOMAIN sections |->
        (IF i = 1 /\ sections[i].name = "all" THEN <<>> ELSE <<Tag(sections[i].name)>>) \o sections[i].settings])

\* Section.find: the first setting that begins like the one looked for.
Has(section, setting) == \E i \in DOMAIN section.settings : section.settings[i] = setting

Replaced(section, from, to) ==
    [section EXCEPT !.settings =
        IF Has(section, from) THEN ReplaceAt(@, SelectInSeq(@, LAMBDA line : line = from), to) ELSE @]

\* comment_setting, uncomment_setting, for section_name "all".
Edited(sections, from, to) ==
    [i \in DOMAIN sections |->
        IF sections[i].name = "all" THEN Replaced(sections[i], from, to) ELSE sections[i]]

AnyHas(sections, setting) == \E i \in DOMAIN sections : sections[i].name = "all" /\ Has(sections[i], setting)

Commented(lines, setting) == Lines(Edited(Load(lines), setting, Off(setting)))

\* add_or_uncomment: what is there stays, what is commented out is uncommented, and
\* what is not there is added to the last [all].
Added(lines, setting) ==
    LET sections == Load(lines)
        alls == {i \in DOMAIN sections : sections[i].name = "all"}
    IN Lines(CASE AnyHas(sections, setting) -> sections
               [] ~AnyHas(sections, setting) /\ AnyHas(sections, Off(setting)) -> Edited(sections, Off(setting), setting)
               [] alls = {} -> Append(sections, Section("all", <<setting>>))
               [] OTHER -> [sections EXCEPT ![Max(alls)].settings = Append(@, setting)])

\* _BootConfig.set_value: every line of the property is uncommented and given the
\* value; without one, and with any line at all, it is appended to the file.
Driven(lines) ==
    LET found == \E i \in DOMAIN lines : lines[i].name \in Drive
        each == [i \in DOMAIN lines |-> IF lines[i].name \in Drive THEN Setting("hdmi_drive=2") ELSE lines[i]]
    IN IF found \/ lines = <<>> THEN each ELSE Append(each, Setting("hdmi_drive=2"))

\* current_video_overlay: config.txt first, and there fkms; then the device tree.
FaultyCurrentOverlay ==   \* fault: the device tree is not looked at
    IF AnyHas(Load(file), Setting("fkms")) THEN "fkms"
    ELSE IF AnyHas(Load(file), Setting("kms")) THEN "kms"
    ELSE ""

CurrentOverlay ==
    IF AnyHas(Load(file), Setting("fkms")) THEN "fkms"
    ELSE IF AnyHas(Load(file), Setting("kms")) THEN "kms"
    ELSE running

-----------------------------------------------------------------------------
\* _initialise_v1_hub_v1_speaker and its like, without the I2S: the overlay is
\* switched if the other one is in use, otherwise the drive is set; after either
\* there has to be a reboot, and the setup starts over.
FaultyCheck ==   \* fault: a drive that was set already asks for a reboot as well
    /\ edit = "check"
    /\ IF CurrentOverlay = Other(want)
       THEN edit' = "comment" /\ plan' = Commented(file, Setting(Other(want)))
       ELSE edit' = "hdmi" /\ plan' = Driven(file)
    /\ UNCHANGED <<file, want, running, open, asked, torn, cuts, onDisk, original>>

Check ==
    /\ edit = "check"
    /\ CASE CurrentOverlay = Other(want) -> edit' = "comment" /\ plan' = Commented(file, Setting(Other(want)))
         [] CurrentOverlay # Other(want) /\ Driven(file) # file -> edit' = "hdmi" /\ plan' = Driven(file)
         [] OTHER -> edit' = "done" /\ UNCHANGED plan
    /\ UNCHANGED <<file, want, running, open, asked, torn, cuts, onDisk, original>>

\* The second half of enable_kms_video_overlay and enable_fkms_video_overlay.
Add ==
    /\ edit = "commented"
    /\ edit' = "add" /\ plan' = Added(file, Setting(want))
    /\ UNCHANGED <<file, want, running, open, asked, torn, cuts, onDisk, original>>

OpenFile ==
    /\ edit \in {"comment", "add", "hdmi"} /\ ~open
    /\ open' = TRUE /\ file' = <<>> /\ onDisk' = onDisk \cup {file'}
    /\ UNCHANGED <<want, running, edit, plan, asked, torn, cuts, original>>

WriteFile ==
    /\ open
    /\ open' = FALSE /\ file' = plan /\ plan' = <<>> /\ onDisk' = onDisk \cup {file'}
    /\ edit' = IF edit = "comment" THEN "commented" ELSE "due"
    /\ asked' = IF edit = "comment" THEN asked ELSE asked + 1
    /\ UNCHANGED <<want, running, torn, cuts, original>>

\* The overlays that a boot with these lines may run: sections other than [all]
\* apply to some machines only, and without kms the device tree tells fkms.
Runs(lines) ==
    {lines[i].name : i \in {j \in DOMAIN lines : lines[j].name \in Overlay /\ ~lines[j].off}}
        \cup (IF AnyHas(Load(lines), Setting("kms")) THEN {} ELSE {"fkms"})

\* The machine is started again.
Reboot ==
    /\ edit' = "check"
    /\ running' \in Runs(file)
    /\ UNCHANGED <<file, want, plan, open, asked, torn, cuts, onDisk, original>>

\* The kernel writes the file back, at some time or when it is unmounted: neither
\* edit asks for it.
WrittenBack ==
    /\ onDisk' = {file}
    /\ UNCHANGED <<file, want, running, edit, plan, open, asked, torn, cuts, original>>

\* The setup is interrupted; the next one starts over.
Interrupted(times) ==
    /\ cuts' = cuts + times
    /\ edit' = "check" /\ plan' = <<>> /\ open' = FALSE
    /\ UNCHANGED <<want, running, asked, original>>

\* By the end of the process, which leaves the file as it is.
Crashed ==
    /\ Interrupted(1)
    /\ torn' = (torn \/ open)
    /\ UNCHANGED <<file, onDisk>>

\* Or of the whole machine: what has not been written back may be lost, an edit that
\* has ended or all of the file.
PowerCut ==
    /\ Interrupted(2)
    /\ file' \in onDisk /\ onDisk' = {file'}
    /\ torn' = (torn \/ file' = <<>>)

Setup == Check \/ Add \/ OpenFile \/ WriteFile

\* The thread may only end between two passes.
AtRest == edit \in {"check", "due", "done"}

-----------------------------------------------------------------------------
\* One reboot for the overlay and one for the drive, which may be lost to the switch
\* with a repeated section and set again; more only for lines of the other overlay
\* in one section, of which each switch comments out the first, one for each crash
\* and two for each power failure, which may take back edits that have ended.
MostLines(lines, setting) ==
    Max({2} \cup {Cardinality({j \in DOMAIN s.settings : s.settings[j] = setting}) : s \in ToSet(Load(lines))})

RebootsBounded == asked <= 1 + MostLines(original, Setting("fkms")) + cuts

SectionOf(lines, i) ==
    LET tags == {j \in 1..i : lines[j].tag} IN IF tags = {} THEN "all" ELSE lines[Max(tags)].name

\* The settings that are no overlay and no drive.
Others(lines) == {i \in DOMAIN lines : ~lines[i].tag /\ lines[i].name \notin Overlay \cup Drive}

\* The lines at these places, in their order and with their sections.
Picked(lines, places) ==
    LET upTo[i \in 0..Len(lines)] ==
            IF i = 0 THEN <<>>
            ELSE IF i \in places THEN Append(upTo[i - 1], <<SectionOf(lines, i), lines[i]>>)
            ELSE upTo[i - 1]
    IN upTo[Len(lines)]

\* The section of a line is followed at once by another one of the same name.
Followed(lines, i) ==
    \E j \in DOMAIN lines :
        /\ j > i /\ lines[j] = Tag(SectionOf(lines, i)) /\ lines[j].name # "all"
        /\ \A k \in i + 1..j - 1 : ~lines[k].tag

Survivors(lines) == Picked(lines, {i \in Others(lines) : ~Followed(lines, i)})

\* The user's other settings stay in their sections and in their order, except that
\* those of a section may be lost which is followed at once by another one of the
\* same name (RpiConfigParser.load), and all of them to an interruption that leaves
\* the file truncated.
OthersKept ==
    ~torn /\ ~open => Picked(file, Others(file)) \in {Picked(original, Others(original)), Survivors(original)}
=============================================================================

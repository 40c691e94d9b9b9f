------------------------------ MODULE MCFiles ------------------------------
(* Files with every file of up to two lines and some longer ones through   *)
(* all the reboots that they need, with some through a crash or a power    *)
(* failure, and with other settings and shutdowns going on.                *)
EXTENDS Files

MCName == {"all", "pi4", "kms", "fkms", "hdmi_drive=1", "hdmi_drive=2", "dtparam"}

MCLine ==
    {Tag("all"), Tag("pi4"), Off(Setting("kms")), Off(Setting("fkms"))}
        \cup {Setting(name) : name \in {"kms", "fkms", "hdmi_drive=1", "hdmi_drive=2", "dtparam"}}

Longer ==
    {<<Tag("pi4"), Setting("fkms"), Tag("all"), Setting("dtparam")>>,
     <<Tag("pi4"), Setting("dtparam"), Tag("pi4"), Setting("hdmi_drive=1")>>,
     <<Setting("fkms"), Off(Setting("kms")), Setting("fkms")>>,
     <<Setting("dtparam"), Setting("kms"), Tag("all"), Off(Setting("fkms"))>>,
     <<Tag("all"), Setting("fkms"), Tag("all"), Setting("fkms"), Setting("dtparam")>>}

MCFile == Longer \cup UNION {[1..n -> MCLine] : n \in 0..2}

Reboots == [set |-> 0, halt |-> 0, kill |-> 0, boot |-> 4, move |-> 0]
Crashes == [set |-> 0, halt |-> 0, kill |-> 1, boot |-> 4, move |-> 0]
Settings == [set |-> 1, halt |-> 1, kill |-> 1, boot |-> 1, move |-> 0]
Moves == [set |-> 1, halt |-> 1, kill |-> 0, boot |-> 1, move |-> 1]

MCBounds == {Reboots, Crashes, Settings, Moves}

MCCase == (MCFile \X {Reboots}) \cup (Longer \X {Crashes}) \cup {<<<<>>, Crashes>>, <<<<>>, Settings>>, <<<<>>, Moves>>}
=============================================================================

---------------------------- MODULE MCLifecycle ----------------------------
(* Small instances of Lifecycle for TLC: a device with its root, /system   *)
(* and a card at /mnt mounted.                                             *)
EXTENDS Lifecycle

CONSTANTS i1, i2, system, bin, mnt, sdcard

\* The user of the adb shell, or its root.
MCUsers == {[uid |-> 2, gid |-> 2, groups |-> {3}], [uid |-> 0, gid |-> 0, groups |-> {}]}

MCSdCard == <<sdcard>>

RootFs == [at |-> <<>>, options |-> {"ro"}]
CardFs == [at |-> <<mnt>>, options |-> {"noexec"}]
SystemFs(options) == [at |-> <<system>>, options |-> options]

\* As booted, and with /system remounted and the card removed.
MCMountLists == {<<RootFs, SystemFs({"ro"}), CardFs>>, <<RootFs, SystemFs({})>>}

MCPlaces == {<<>>, <<bin>>, <<system, bin>>, <<mnt, bin>>}

MCRights(o, g, r) ==
    [c \in {"owner", "group", "other"} |->
        CASE c = "owner" -> o [] c = "group" -> g [] OTHER -> r]

\* The owner may write but not read, the group only read, others only execute.
MCFile(t, u, g) ==
    [type |-> t, uid |-> u, gid |-> g, rights |-> MCRights({"w", "x"}, {"r"}, {"x"})]

MCFiles ==
    {MCFile("regular", 2, 4), MCFile("regular", 4, 2), MCFile("regular", 4, 3),
     MCFile("regular", 4, 4), MCFile("directory", 2, 2), MCFile("special", 2, 2)}

\* The user may not search the second of these directories.
MCAboves == {{MCFile("directory", 4, 4)}, {MCFile("directory", 4, 2)}}
=============================================================================

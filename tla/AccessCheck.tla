---------------------------- MODULE AccessCheck ----------------------------
(***************************************************************************)
(* adbnc_access and the two classes it asks, as operators on what they     *)
(* were given: UserInfo on the ids of the user the adb shell runs as, and  *)
(* MountInfo on the lines that mount printed.  Below them, what the device *)
(* itself would say.  The netcat that runs stat for adbnc_access is root's *)
(* and finds files below directories that the user of the adb shell may    *)
(* not search.                                                             *)
(*                                                                         *)
(* A path is the sequence of its names, "/" the empty sequence.  A mask is *)
(* a set of rights, F_OK the empty one.  The permission bits of a file are *)
(* a set of rights for each of "owner", "group" and "other".               *)
(***************************************************************************)
EXTENDS Naturals, Sequences

CONSTANTS
    Names,   \* the names paths are made of
    SdCard,  \* the path of pcSdCardMountEntry
    None     \* a null pointer, or no such file

ASSUME PathsAssumption == SdCard \in Seq(Names) /\ None \notin Seq(Names)

Rights == {"r", "w", "x"}

Paths == Seq(Names)

UserIds == [uid : Nat, gid : Nat, groups : SUBSET Nat]

\* Special files are devices, pipes and sockets.
File == [type : {"regular", "directory", "special"}, uid : Nat, gid : Nat,
         rights : [{"owner", "group", "other"} -> SUBSET Rights]]

Directory == {f \in File : f.type = "directory"}

MountLine == [at : Paths, options : SUBSET {"ro", "noexec"}]

-----------------------------------------------------------------------------
(* UserInfo                                                                *)

\* UserInfo::belongs2Group
Belongs2Group(user, gid) == user.gid = gid \/ gid \in user.groups

\* UserInfo::testAccesss
TestAccess(rights, mask) == mask \subseteq rights

\* UserInfo::access: what it first says of root is overwritten.
UserAccess(user, file, mask) ==
    IF user.uid = file.uid THEN TestAccess(file.rights["owner"], mask)
    ELSE IF Belongs2Group(user, file.gid) THEN TestAccess(file.rights["group"], mask)
    ELSE TestAccess(file.rights["other"], mask)

-----------------------------------------------------------------------------
(* MountInfo                                                               *)

\* The line a map keeps for a mount point: insert leaves what it finds.
FirstAt(lines, a) ==
    CHOOSE k \in DOMAIN lines :
        lines[k].at = a /\ \A j \in DOMAIN lines : lines[j].at = a => k <= j

\* MountInfo::MountInfo
MountTable(lines) ==
    [a \in {lines[k].at : k \in DOMAIN lines} |-> lines[FirstAt(lines, a)].options]

\* How many names of p the mount points on the way from p to "/" have.
MountDepths(table, p) == {n \in 0..Len(p) : SubSeq(p, 1, n) \in DOMAIN table}

\* Mutant: the walk starts at "/".
MountPointOutermost(table, p) ==
    LET depths == MountDepths(table, p)
    IN  IF depths = {} THEN None
        ELSE SubSeq(p, 1, CHOOSE n \in depths : \A m \in depths : n <= m)

\* MountInfo::mountPoint walks from p to its parents until one is a mount point.
MountPoint(table, p) ==
    LET depths == MountDepths(table, p)
    IN  IF depths = {} THEN None
        ELSE SubSeq(p, 1, CHOOSE n \in depths : \A m \in depths : m <= n)

\* MountInfo::isMountedRo and MountInfo::isMountedNoexec
MountedWith(table, p, option) ==
    MountPoint(table, p) # None /\ option \in table[MountPoint(table, p)]

-----------------------------------------------------------------------------
(* adbnc_access.  What it does not know it does not check: without user    *)
(* information everything that exists is granted.  Neither the type of the *)
(* file nor the directories above it are looked at.                        *)
Access(userInfo, mountInfo, file, p, mask) ==
    IF file = None THEN "ENOENT"
    ELSE IF \/ mask = {} \/ userInfo = None
            \/ /\ UserAccess(userInfo, file, mask)
               /\ \/ mountInfo = None
                  \/ /\ ~("w" \in mask /\ MountedWith(mountInfo, p, "ro"))
                     /\ ~("x" \in mask /\ MountedWith(mountInfo, p, "noexec"))
    THEN "granted" ELSE "EACCES"

-----------------------------------------------------------------------------
(* What the kernel of the device says to access(2).  Its root needs no     *)
(* permission bits, except that some x bit must be set to execute a file;  *)
(* a mount hides what was mounted at or below its mount point before.      *)
DeviceUserGrants(user, file, mask) ==
    LET class == CASE user.uid = file.uid                                -> "owner"
                   [] user.uid # file.uid /\
                      file.gid \in user.groups \cup {user.gid}           -> "group"
                   [] OTHER                                              -> "other"
    IN  IF user.uid = 0
        THEN "x" \in mask => \/ file.type = "directory"
                             \/ \E c \in DOMAIN file.rights : "x" \in file.rights[c]
        ELSE \A r \in mask : r \in file.rights[class]

\* a is p or a directory above it.
AtOrAbove(a, p) == Len(a) <= Len(p) /\ SubSeq(p, 1, Len(a)) = a

\* The options of the mounts that path p is on, {} when there is none.
OptionsInEffect(lines, p) ==
    UNION {lines[k].options : k \in
             {k \in DOMAIN lines :
                 /\ AtOrAbove(lines[k].at, p)
                 /\ \A j \in DOMAIN lines : AtOrAbove(lines[j].at, p) => j <= k}}

\* Every directory above a file must be searched to find it.
Searchable(user, above) == \A d \in above : DeviceUserGrants(user, d, {"x"})

\* noexec is about regular files; ro is not about special ones.
MountRefuses(options, file, mask) ==
    \/ "x" \in mask /\ "noexec" \in options /\ file.type = "regular"
    \/ "w" \in mask /\ "ro" \in options /\ file.type # "special"

\* EACCES stands for EROFS too: adbnc_access knows no other word for a refusal.
DeviceAccess(user, lines, file, above, p, mask) ==
    IF ~Searchable(user, above) THEN "EACCES"
    ELSE IF file = None THEN "ENOENT"
    ELSE IF /\ DeviceUserGrants(user, file, mask)
            /\ ~MountRefuses(OptionsInEffect(lines, p), file, mask)
    THEN "granted" ELSE "EACCES"

\* An option of the mount that forbids what is asked applies to files of this type.
OptionsApply(lines, file, p, mask) ==
    /\ "x" \in mask /\ "noexec" \in OptionsInEffect(lines, p) => file.type = "regular"
    /\ "w" \in mask /\ "ro" \in OptionsInEffect(lines, p) => file.type # "special"

\* No mount hides an earlier one.
NothingHidden(lines) ==
    \A j, k \in DOMAIN lines : j < k => ~AtOrAbove(lines[k].at, lines[j].at)
=============================================================================

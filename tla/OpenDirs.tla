------------------------------ MODULE OpenDirs ------------------------------
(***************************************************************************)
(* Directory listings: adbnc_opendir runs ls and puts the listing into     *)
(* openDirs, unless there is one under the path already, adbnc_readdir     *)
(* walks through it without a lock, adbnc_releasedir erases it.            *)
(* inReleaseDirMutex and inReleaseDirCond order the first and the last.    *)
(*                                                                         *)
(* A listing is a version number, 0 the one of a directory that is gone.   *)
(* Single operations on the map are atomic.                                *)
(***************************************************************************)
EXTENDS Naturals

CONSTANTS
    Dirs,           \* the directories
    Handles,        \* open-directory slots of the callers
    MultiThreaded,  \* FALSE: mounted with -s, one callback at a time
    MaxVersion,     \* bound on the changes of directories
    MaxOpens,       \* bound on the calls of opendir
    Garbage,        \* what is read through an iterator to an erased entry
    None

ASSUME OpenDirsAssumption ==
    /\ MultiThreaded \in BOOLEAN
    /\ MaxVersion \in Nat /\ MaxOpens \in Nat
    /\ None \notin Dirs \cup Handles \cup Nat
    /\ Garbage \notin Nat \cup {None}

VARIABLES
    listing,       \* what ls prints about each directory
    openDirs,      \* the map, None where it has no entry
    inReleaseDir,  \* fInReleaseDirCond
    mutex,         \* the owner of inReleaseDirMutex
    handle,        \* per handle: its callback, its path, what it listed and read
    version,       \* the last version made
    opens,         \* how often opendir was called
    leftover       \* history: paths that lost their handles, not their listing

vars == <<listing, openDirs, inReleaseDir, mutex, handle, version, opens, leftover>>

\* alone: no other handle was on the path since opendir was called.
Free == [pc |-> "free", path |-> None, listed |-> None, read |-> None,
         alone |-> FALSE]

\* The callbacks that have not returned.
Busy(h) == handle[h].pc \notin {"free", "open"}

CanStart == MultiThreaded \/ \A h \in Handles : ~Busy(h)

OnPath(d) == {h \in Handles : handle[h].path = d}

Gone == 0

-----------------------------------------------------------------------------
Init ==
    /\ listing = [d \in Dirs |-> 1]
    /\ openDirs = [d \in Dirs |-> None]
    /\ inReleaseDir = FALSE
    /\ mutex = None
    /\ handle = [h \in Handles |-> Free]
    /\ version = 1
    /\ opens = 0
    /\ leftover = {}

\* adbnc_opendir is called.
OpenBegin(h, d) ==
    /\ handle[h].pc = "free" /\ CanStart /\ opens < MaxOpens
    /\ handle' = [g \in Handles |->
          IF g = h THEN [Free EXCEPT !.pc = "opening", !.path = d,
                            !.alone = OnPath(d) = {} /\ d \notin leftover]
          ELSE IF handle[g].path = d THEN [handle[g] EXCEPT !.alone = FALSE]
          ELSE handle[g]]
    /\ opens' = opens + 1
    /\ UNCHANGED <<listing, openDirs, inReleaseDir, mutex, version, leftover>>

\* It takes the mutex, or waits on the condition, which gives the mutex up.
OpenLock(h) ==
    /\ handle[h].pc = "opening" /\ mutex = None
    /\ IF inReleaseDir
       THEN /\ handle' = [handle EXCEPT ![h].pc = "waiting"]
            /\ UNCHANGED mutex
       ELSE /\ handle' = [handle EXCEPT ![h].pc = "listing"]
            /\ mutex' = h
    /\ UNCHANGED <<listing, openDirs, inReleaseDir, version, opens, leftover>>

\* openDirs.find, then insert.
Inserted(d, output) ==
    IF openDirs[d] = None THEN [openDirs EXCEPT ![d] = output] ELSE openDirs

\* ls returns; a call that prints nothing fails.
OpenEnd(h) ==
    /\ handle[h].pc = "listing"
    /\ LET d == handle[h].path
       IN  \/ /\ openDirs' = Inserted(d, listing[d])
              /\ handle' = [handle EXCEPT ![h].pc = "open",
                                          ![h].listed = listing[d]]
           \/ /\ handle' = [handle EXCEPT ![h] = Free]
              /\ UNCHANGED openDirs
    /\ mutex' = None
    /\ UNCHANGED <<listing, inReleaseDir, version, opens, leftover>>

\* adbnc_readdir finds the listing, or returns -EBADF and has read nothing.
ReadBegin(h) ==
    /\ handle[h].pc = "open" /\ handle[h].path # None /\ CanStart
    /\ LET found == openDirs[handle[h].path]
       IN  handle' = [handle EXCEPT ![h].pc = IF found = None THEN "open" ELSE "reading",
                                    ![h].read = found]
    /\ UNCHANGED <<listing, openDirs, inReleaseDir, mutex, version, opens, leftover>>

\* It has looked up the attributes of every entry and returns.
ReadEnd(h) ==
    /\ handle[h].pc = "reading"
    /\ handle' = [handle EXCEPT ![h].pc = "open"]
    /\ UNCHANGED <<listing, openDirs, inReleaseDir, mutex, version, opens, leftover>>

\* adbnc_releasedir is called.
CloseBegin(h) ==
    /\ handle[h].pc = "open" /\ CanStart
    /\ handle' = [handle EXCEPT ![h].pc = "closing"]
    /\ UNCHANGED <<listing, openDirs, inReleaseDir, mutex, version, opens, leftover>>

\* Mutant: the mutex is not waited for.
CloseLockNot(h) ==
    /\ handle[h].pc = "closing"
    /\ handle' = [handle EXCEPT ![h].pc = "erasing"]
    /\ mutex' = h
    /\ inReleaseDir' = TRUE
    /\ UNCHANGED <<listing, openDirs, version, opens, leftover>>

CloseLock(h) ==
    /\ handle[h].pc = "closing" /\ mutex = None
    /\ handle' = [handle EXCEPT ![h].pc = "erasing"]
    /\ mutex' = h
    /\ inReleaseDir' = TRUE
    /\ UNCHANGED <<listing, openDirs, version, opens, leftover>>

\* Handle g after the listing of path d was erased and handle w was signalled.
Erased(g, d, w) ==
    IF g = w THEN [handle[g] EXCEPT !.pc = "opening"]
    ELSE IF d # None /\ handle[g].path = d /\ handle[g].pc = "reading"
    THEN [handle[g] EXCEPT !.read = Garbage]
    ELSE handle[g]

Waiting == {g \in Handles : handle[g].pc = "waiting"}

\* Mutant: the mutex is given up before the condition is reset.
CloseEraseUnlocking(h) ==
    /\ handle[h].pc = "erasing"
    /\ LET d == handle[h].path
       IN  /\ openDirs' = [q \in Dirs |-> IF q = d THEN None ELSE openDirs[q]]
           /\ \E w \in IF Waiting = {} THEN {None} ELSE Waiting :
                 handle' = [g \in Handles |->
                    IF g = h THEN [handle[h] EXCEPT !.pc = "resetting"]
                    ELSE Erased(g, d, w)]
           /\ leftover' = leftover \ {d}
    /\ mutex' = None
    /\ UNCHANGED <<listing, inReleaseDir, version, opens>>

\* Mutant: the listing is kept for the next opendir.
CloseKeeping(h) ==
    /\ handle[h].pc = "erasing"
    /\ handle' = [handle EXCEPT ![h].pc = "resetting"]
    /\ UNCHANGED <<listing, openDirs, inReleaseDir, mutex, version, opens, leftover>>

\* The listing is erased, whoever else has the directory open, and one waiting
\* opendir is signalled.
CloseErase(h) ==
    /\ handle[h].pc = "erasing"
    /\ LET d == handle[h].path
       IN  /\ openDirs' = [q \in Dirs |-> IF q = d THEN None ELSE openDirs[q]]
           /\ \E w \in IF Waiting = {} THEN {None} ELSE Waiting :
                 handle' = [g \in Handles |->
                    IF g = h THEN [handle[h] EXCEPT !.pc = "resetting"]
                    ELSE Erased(g, d, w)]
           /\ leftover' = leftover \ {d}
    /\ UNCHANGED <<listing, inReleaseDir, mutex, version, opens>>

CloseEnd(h) ==
    /\ handle[h].pc = "resetting"
    /\ handle' = [handle EXCEPT ![h] = Free]
    /\ inReleaseDir' = FALSE
    /\ mutex' = None
    /\ UNCHANGED <<listing, openDirs, version, opens, leftover>>

\* An entry of the directory is created or removed.
Change(d) ==
    /\ version < MaxVersion
    /\ version' = version + 1
    /\ listing' = [listing EXCEPT ![d] = version']
    /\ UNCHANGED <<openDirs, inReleaseDir, mutex, handle, opens, leftover>>

\* The handles on path d get the path to; its listing stays under the old path.
Moved(d, to) ==
    /\ \A h \in OnPath(d) : ~Busy(h)
    /\ handle' = [h \in Handles |->
          IF h \in OnPath(d) THEN [handle[h] EXCEPT !.path = to, !.alone = FALSE]
          ELSE handle[h]]
    /\ leftover' = IF openDirs[d] = None THEN leftover ELSE leftover \cup {d}

\* adbnc_rename of a directory, onto a path nobody has open.
Rename(d, to) ==
    /\ CanStart /\ d # to /\ OnPath(to) = {}
    /\ Moved(d, to)
    /\ listing' = [listing EXCEPT ![d] = Gone, ![to] = listing[d]]
    /\ UNCHANGED <<openDirs, inReleaseDir, mutex, version, opens>>

\* adbnc_rmdir: for the handles of a removed directory libfuse passes a path that
\* names no directory.
Rmdir(d) ==
    /\ CanStart /\ listing[d] # Gone
    /\ Moved(d, None)
    /\ listing' = [listing EXCEPT ![d] = Gone]
    /\ UNCHANGED <<openDirs, inReleaseDir, mutex, version, opens>>

Step(h) ==
    \/ OpenLock(h) \/ OpenEnd(h) \/ ReadEnd(h)
    \/ CloseLock(h) \/ CloseErase(h) \/ CloseEnd(h)

Next ==
    \/ \E h \in Handles :
          \/ \E d \in Dirs : OpenBegin(h, d)
          \/ ReadBegin(h) \/ CloseBegin(h)
          \/ Step(h)
    \/ \E d \in Dirs : Change(d) \/ Rmdir(d)
    \/ \E d, to \in Dirs : Rename(d, to)

Spec == Init /\ [][Next]_vars

\* Every callback is scheduled, and the device answers.
FairSpec == Spec /\ \A h \in Handles : WF_vars(Step(h))

-----------------------------------------------------------------------------
\* The variables have their types, and the mutex is owned by exactly the handle
\* that is inside one of the two critical sections.
TypeOK ==
    /\ listing \in [Dirs -> Nat]
    /\ openDirs \in [Dirs -> Nat \cup {None}]
    /\ handle \in [Handles ->
          [pc : {"free", "opening", "waiting", "listing", "open", "reading",
                 "closing", "erasing", "resetting"},
           path : Dirs \cup {None}, listed : Nat \cup {None},
           read : Nat \cup {None, Garbage}, alone : BOOLEAN]]
    /\ \A h \in Handles :
          handle[h].pc \in {"listing", "erasing", "resetting"} <=> mutex = h
    /\ inReleaseDir = \E h \in Handles : handle[h].pc \in {"erasing", "resetting"}
    /\ leftover \subseteq Dirs

\* While no other handle is on its directory, and the directory is not renamed
\* or removed, a handle finds and reads the listing its own opendir retrieved: not
\* the one an earlier handle left behind, and none that another one erases.
ReadsOwnListing ==
    \A h \in Handles :
        handle[h].alone =>
        /\ handle[h].pc \in {"open", "reading", "closing"} =>
              openDirs[handle[h].path] = handle[h].listed
        /\ handle[h].pc = "reading" => handle[h].read = handle[h].listed

\* fInReleaseDirCond is set only while releasedir has the mutex: no opendir that has got
\* the mutex finds it set, so none is left waiting by the signal, which wakes one only.
NobodyWaits == Waiting = {}

\* "openDirs, filled by adbnc_opendir(), is supposed to hold the directory
\* listing": it does for every handle that is open on a directory.
ListingHeld ==
    \A h \in Handles :
        handle[h].pc \in {"open", "reading"} /\ handle[h].path # None =>
        openDirs[handle[h].path] # None

\* When finitely many calls of opendir compete, every call of opendir and
\* releasedir returns: no signal that ends a wait is missed.
CallsReturn ==
    \A h \in Handles :
        handle[h].pc \in {"opening", "closing"} ~> handle[h].pc \in {"free", "open"}
=============================================================================

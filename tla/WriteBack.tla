----------------------------- MODULE WriteBack -----------------------------
(***************************************************************************)
(* The write-back path of adbncfs: the file callbacks of adbncfs.cpp, the  *)
(* FileStatus table that decides what flush pushes, the local copies in    *)
(* the temporary directory and the files on the device.                    *)
(*                                                                         *)
(* The content of a file is a version number: every write, truncation and  *)
(* creation makes a new one, 0 stands for "there is no file".  A callback  *)
(* that talks to adb takes two steps, one that reads the source of the     *)
(* transfer and one that stores it, so that the callbacks of other threads *)
(* interleave with it.  The device is changed through this mount only.     *)
(***************************************************************************)
EXTENDS Naturals

CONSTANTS
    Paths,          \* files on the device
    Locals,         \* names in the temporary directory
    LocalOf,        \* makeLocalPath, on the paths of the model
    OnHost,         \* the paths that also name a file of the host
    Handles,        \* open-file slots, the struct fuse_file_info of a caller
    Calls,          \* the optional callbacks the workload makes
    PushOutcomes,   \* what adb push may do
    LocalErrors,    \* pwrite and fsync of a local copy may fail
    MultiThreaded,  \* FALSE: mounted with -s, one callback at a time
    MaxVersion,     \* bound on the number of versions written
    None

ASSUME NamesAssumption ==
    /\ LocalOf \in [Paths -> Locals]
    /\ \A p, q \in Paths : LocalOf[p] = LocalOf[q] => p = q
    /\ None \notin Paths \cup Locals \cup Handles

ASSUME ParametersAssumption ==
    /\ OnHost \subseteq Paths
    /\ Calls \subseteq {"read", "write", "fsync", "truncate", "mknod",
                        "rename", "unlink"}
    /\ PushOutcomes \subseteq {"stored", "denied", "unnoticed"}
    /\ LocalErrors \in BOOLEAN
    /\ MultiThreaded \in BOOLEAN
    /\ MaxVersion \in Nat

VARIABLES
    device,   \* content of each path on the device
    local,    \* content of each local copy
    status,   \* FileStatus::m_Entries
    handle,   \* per handle: where its caller is, its path, its descriptor
    version,  \* the last version made
    fresh     \* history: the version a handle wrote that no other call touched and
              \* no transfer failed on

vars == <<device, local, status, handle, version, fresh>>

NoFile == 0

-----------------------------------------------------------------------------
(* FileStatus::Entry.  An entry that is not known is not in the map.       *)

\* The entry FileStatus inserts for a path it has not seen.
NewEntry == [known |-> FALSE, pending |-> FALSE, forWrite |-> FALSE,
             truncated |-> FALSE, renamedFrom |-> None]

\* Mutant: once an entry is pending, the first access decides.
PendingOpenOnce(e, pending, forWrite) ==
    [e EXCEPT !.known = TRUE, !.pending = pending,
              !.forWrite = IF e.pending /\ pending THEN @ ELSE forWrite]

\* FileStatus::pendingOpen(path, pending, forWrite)
PendingOpen(e, pending, forWrite) ==
    [e EXCEPT !.known = TRUE, !.pending = pending, !.forWrite = forWrite]

\* Mutant: the arguments are swapped.
PendingRenamedSwapped(e, from) ==
    [e EXCEPT !.known = TRUE, !.pending = from, !.renamedFrom = TRUE]

\* FileStatus::pendingOpen(path, renamedFromLocal): forWrite stays as it is.
PendingRenamed(e, from) ==
    [e EXCEPT !.known = TRUE, !.pending = TRUE, !.renamedFrom = from]

\* FileStatus::truncated
Truncated(e, truncated) == [e EXCEPT !.known = TRUE, !.truncated = truncated]

\* What FileStatus::Entry::flush and ::release leave behind.
FlushedEntry(e) ==
    [e EXCEPT !.pending = FALSE, !.forWrite = FALSE, !.renamedFrom = None]

ReleasedEntry(e) == [e EXCEPT !.pending = FALSE, !.forWrite = FALSE]

\* The local file that flush pushes to p.
PushSource(p) == IF status[p].renamedFrom # None THEN status[p].renamedFrom
                                                 ELSE LocalOf[p]

NeedsPush(e) == e.pending /\ e.forWrite

-----------------------------------------------------------------------------
(* Handles.  loc is the local copy the descriptor refers to, None when     *)
(* that file has lost its name to a later pull or to unlink; buf is the    *)
(* version the call in progress is transferring.                           *)

FreeHandle == [pc |-> "free", path |-> None, loc |-> None, buf |-> NoFile]

\* Its descriptor is open and nobody will ever close it.
LeakedHandle == [FreeHandle EXCEPT !.pc = "leaked"]

OpenHandle(p, l) == [pc |-> "open", path |-> p, loc |-> l, buf |-> NoFile]

Busy(h) == handle[h].pc \in {"opening", "writing", "flushing", "syncing"}

BusyOn(p) == \E g \in Handles : Busy(g) /\ handle[g].path = p

\* Handle g is on path p or on the local copy l.
Touches(g, p, l) == handle[g].path = p \/ handle[g].loc = l

\* libfuse starts another callback: under -s only when none is running.
CanStart == MultiThreaded \/ \A g \in Handles : ~Busy(g)

OpenMutexFree == \A g \in Handles : handle[g].pc # "opening"

\* No handle is on p.  A descriptor may still refer to the local copy of p: that of a
\* file whose name is no longer p.
Unused(p) == \A g \in Handles : handle[g].path # p

\* The local copy l loses its name: the descriptors on it keep the nameless file.
Detached(l) == [g \in Handles |-> IF handle[g].loc = l THEN [handle[g] EXCEPT !.loc = None]
                                                       ELSE handle[g]]

\* Writing to a descriptor whose file has lost its name changes no local copy.
SetLocal(l, v) == IF l = None THEN local ELSE [local EXCEPT ![l] = v]

\* A callback is running on path p or on the local copy l.
Contended(p, l) == \E g \in Handles : Busy(g) /\ Touches(g, p, l)

\* History: a call on path p, or on local copy l, other than one of h's own.
Disturbed(p, l, h) ==
    [g \in Handles |->
        IF g # h /\ Touches(g, p, l) THEN 0 ELSE fresh[g]]

-----------------------------------------------------------------------------
Init ==
    /\ device \in [Paths -> {NoFile, 1}]
    /\ local = [l \in Locals |-> NoFile]
    /\ status = [p \in Paths |-> NewEntry]
    /\ handle = [h \in Handles |-> FreeHandle]
    /\ version = 1
    /\ fresh = [h \in Handles |-> 0]

\* adbnc_open takes openMutex.  A truncated file, or one whose path exists on
\* the host, is opened without pulling it.
OpenBegin(h, p) ==
    /\ handle[h].pc = "free" /\ CanStart /\ OpenMutexFree
    /\ fresh' = Disturbed(p, LocalOf[p], h)
    /\ IF status[p].truncated \/ p \in OnHost
       THEN /\ status[p].truncated \/ device[p] # NoFile
            /\ status' = IF status[p].truncated
                         THEN [status EXCEPT ![p] = Truncated(@, FALSE)]
                         ELSE status
            /\ handle' = IF local[LocalOf[p]] # NoFile
                         THEN [handle EXCEPT ![h] = OpenHandle(p, LocalOf[p])]
                         ELSE handle
       ELSE /\ device[p] # NoFile
            /\ handle' = [handle EXCEPT ![h] =
                  [pc |-> "opening", path |-> p, loc |-> LocalOf[p], buf |-> device[p]]]
            /\ UNCHANGED status
    /\ UNCHANGED <<device, local, version>>

\* adb pull stores the local copy.  Descriptors that were open on the name
\* keep the old file when adb replaces it, and see the new one when it does not.
OpenEnd(h) ==
    /\ handle[h].pc = "opening"
    /\ LET p == handle[h].path
           l == LocalOf[p]
       IN  \E detach \in BOOLEAN :
             /\ local' = [local EXCEPT ![l] = handle[h].buf]
             /\ handle' = [g \in Handles |->
                  IF g = h THEN OpenHandle(p, l)
                  ELSE IF detach /\ handle[g].loc = l
                       THEN [handle[g] EXCEPT !.loc = None] ELSE handle[g]]
    /\ UNCHANGED <<device, status, version, fresh>>

\* adb pull fails with an error adbncPushPullCmd does not recognise: open goes on
\* with the local copy it finds.
OpenStale(h) ==
    /\ handle[h].pc = "opening"
    /\ handle' = [handle EXCEPT ![h] =
          IF local[@.loc] # NoFile THEN OpenHandle(@.path, @.loc) ELSE FreeHandle]
    /\ UNCHANGED <<device, local, status, version, fresh>>

\* access() denies the pull or adb reports an error: open returns it.
OpenFail(h) ==
    /\ handle[h].pc = "opening"
    /\ handle' = [handle EXCEPT ![h] = FreeHandle]
    /\ UNCHANGED <<device, local, status, version, fresh>>

\* adbnc_read notes the access, whether or not a write is pending.
Read(h) ==
    /\ "read" \in Calls /\ handle[h].pc = "open" /\ CanStart
    /\ LET p == handle[h].path
       IN  /\ status' = [status EXCEPT ![p] = PendingOpen(@, TRUE, FALSE)]
           /\ fresh' = [Disturbed(p, handle[h].loc, h) EXCEPT ![h] = 0]
    /\ UNCHANGED <<device, local, handle, version>>

\* adbnc_write notes the access, then writes to the descriptor.
WriteBegin(h) ==
    /\ "write" \in Calls /\ handle[h].pc = "open" /\ CanStart
    /\ version < MaxVersion
    /\ version' = version + 1
    /\ LET p == handle[h].path
       IN  /\ status' = [status EXCEPT ![p] = PendingOpen(@, TRUE, TRUE)]
           /\ fresh' = [Disturbed(p, handle[h].loc, h) EXCEPT ![h] =
                 IF /\ handle[h].loc = LocalOf[p]
                    /\ status[p].renamedFrom = None
                    /\ ~Contended(p, handle[h].loc)
                 THEN version' ELSE 0]
    /\ handle' = [handle EXCEPT ![h].pc = "writing", ![h].buf = version']
    /\ UNCHANGED <<device, local>>

WriteEnd(h) ==
    /\ handle[h].pc = "writing"
    /\ handle' = [handle EXCEPT ![h].pc = "open", ![h].buf = NoFile]
    /\ \/ /\ local' = SetLocal(handle[h].loc, handle[h].buf)
          /\ UNCHANGED fresh
       \/ /\ LocalErrors                          \* pwrite fails
          /\ fresh' = [fresh EXCEPT ![h] = 0]
          /\ UNCHANGED local
    /\ UNCHANGED <<device, status, version>>

\* adbnc_flush, on every close of a descriptor: the last one is followed by
\* release ("closing").  A file that needs no push is flushed at once.
FlushBegin(h) ==
    /\ handle[h].pc = "open" /\ CanStart
    /\ LET p == handle[h].path
           e == status[p]
       IN  /\ fresh' = Disturbed(p, handle[h].loc, h)
           /\ IF NeedsPush(e)
              THEN /\ handle' = [handle EXCEPT ![h].pc = "flushing",
                                               ![h].buf = local[PushSource(p)]]
                   /\ UNCHANGED status
              ELSE /\ status' = IF e.pending
                                THEN [status EXCEPT ![p] = FlushedEntry(@)]
                                ELSE status
                   /\ \E pc \in {"open", "closing"} :
                         handle' = [handle EXCEPT ![h].pc = pc]
    /\ UNCHANGED <<device, local, version>>

\* fsync of the local copy fails: flush returns the error and pushes nothing.
FlushFail(h) ==
    /\ LocalErrors /\ handle[h].pc = "open" /\ CanStart
    /\ \E pc \in {"open", "closing"} : handle' = [handle EXCEPT ![h].pc = pc]
    /\ fresh' = [fresh EXCEPT ![h] = 0]
    /\ UNCHANGED <<device, local, status, version>>

\* What adb push does with the content it read: it stores it, or fails with an
\* error adbncPushPullCmd recognises, or with one it takes for success.  Pushing
\* a local file that does not exist is of the last kind.
Pushed(p, v, outcome) ==
    IF outcome = "stored" /\ v # NoFile THEN [device EXCEPT ![p] = v] ELSE device

\* History: a push of h that stored nothing, whether flush and fsync report it or not.
Unstored(h, outcome) == IF outcome = "stored" THEN fresh ELSE [fresh EXCEPT ![h] = 0]

\* FileStatus::Entry::flush clears the marks whatever adbncPush returned.
FlushEnd(h) ==
    /\ handle[h].pc = "flushing"
    /\ LET p == handle[h].path
       IN  \E outcome \in PushOutcomes, pc \in {"open", "closing"} :
             /\ device' = Pushed(p, handle[h].buf, outcome)
             /\ status' = [status EXCEPT ![p] = FlushedEntry(@)]
             /\ handle' = [handle EXCEPT ![h].pc = pc, ![h].buf = NoFile]
             /\ fresh' = Unstored(h, outcome)
    /\ UNCHANGED <<local, version>>

\* adbnc_fsync pushes after a read too, and always the copy of the path's own
\* name.
FsyncBegin(h) ==
    /\ "fsync" \in Calls /\ handle[h].pc = "open" /\ CanStart
    /\ LET p == handle[h].path
       IN  /\ status[p].pending
           /\ handle' = [handle EXCEPT ![h].pc = "syncing",
                                       ![h].buf = local[LocalOf[p]]]
           /\ fresh' = Disturbed(p, handle[h].loc, h)
    /\ UNCHANGED <<device, local, status, version>>

FsyncEnd(h) ==
    /\ handle[h].pc = "syncing"
    /\ LET p == handle[h].path
       IN  \E outcome \in PushOutcomes :
             /\ device' = Pushed(p, handle[h].buf, outcome)
             /\ status' = [status EXCEPT ![p] = PendingOpen(@, FALSE, FALSE)]
             /\ handle' = [handle EXCEPT ![h].pc = "open", ![h].buf = NoFile]
             /\ fresh' = Unstored(h, outcome)
    /\ UNCHANGED <<local, version>>

\* FileStatus::release closes the descriptor only of a path it has an entry for.
Release(h) ==
    /\ handle[h].pc = "closing" /\ CanStart
    /\ LET p == handle[h].path
       IN  /\ status' = [status EXCEPT ![p] = ReleasedEntry(@)]
           /\ fresh' = [Disturbed(p, handle[h].loc, h) EXCEPT ![h] = 0]
           /\ handle' = [handle EXCEPT ![h] =
                 IF status[p].known THEN FreeHandle ELSE LeakedHandle]
    /\ UNCHANGED <<device, local, version>>

\* Mutant: the file is cut on the device, the local copy is left alone.
TruncateOnDevice(p) ==
    /\ "truncate" \in Calls /\ CanStart
    /\ device[p] # NoFile /\ local[LocalOf[p]] # NoFile
    /\ version < MaxVersion
    /\ version' = version + 1
    /\ device' = [device EXCEPT ![p] = version']
    /\ status' = [status EXCEPT ![p] = Truncated(@, TRUE)]
    /\ fresh' = Disturbed(p, LocalOf[p], None)
    /\ UNCHANGED <<local, handle>>

\* adbnc_truncate cuts the local copy and marks it; nothing marks it for a push.
Truncate(p) ==
    /\ "truncate" \in Calls /\ CanStart
    /\ device[p] # NoFile /\ local[LocalOf[p]] # NoFile
    /\ version < MaxVersion
    /\ version' = version + 1
    /\ local' = [local EXCEPT ![LocalOf[p]] = version']
    /\ status' = [status EXCEPT ![p] = Truncated(@, TRUE)]
    /\ fresh' = Disturbed(p, LocalOf[p], None)
    /\ UNCHANGED <<device, handle>>

\* adbnc_mknod makes the local file first: it fails while one is left over.  Its push is
\* part of the step: the kernel holds the directory's lock until mknod has returned, so
\* that no callback on p, and no rename to p, can run before.
Mknod(p) ==
    /\ "mknod" \in Calls /\ CanStart
    /\ device[p] = NoFile /\ local[LocalOf[p]] = NoFile /\ Unused(p)
    /\ version < MaxVersion
    /\ version' = version + 1
    /\ local' = [local EXCEPT ![LocalOf[p]] = version']
    /\ \E outcome \in PushOutcomes : device' = Pushed(p, version', outcome)
    /\ UNCHANGED <<status, handle, fresh>>

\* adbnc_rename returns 0 whether or not mv worked, and libfuse then passes the
\* new path with the handles of the old one.  libfuse hides an open target under
\* another name first, and waits for callbacks that run on either path.
Rename(a, b) ==
    /\ "rename" \in Calls /\ CanStart
    /\ a # b /\ device[a] # NoFile /\ ~BusyOn(a)
    /\ \A g \in Handles : handle[g].path # b
    /\ \/ device' = [device EXCEPT ![a] = NoFile, ![b] = device[a]]
       \/ UNCHANGED device                                  \* mv fails
    /\ status' = IF status[a].pending
                 THEN [status EXCEPT ![b] = PendingRenamed(@, LocalOf[a])]
                 ELSE status
    /\ handle' = [g \in Handles |-> IF handle[g].path = a
                                    THEN [handle[g] EXCEPT !.path = b]
                                    ELSE handle[g]]
    /\ fresh' = Disturbed(a, LocalOf[a], None)
    /\ UNCHANGED <<local, version>>

\* adbnc_unlink removes the local copy, then asks the device for rm.  libfuse hides a file
\* that is open under its own name instead.
Unlink(p) ==
    /\ "unlink" \in Calls /\ CanStart
    /\ device[p] # NoFile /\ Unused(p)
    /\ local' = [local EXCEPT ![LocalOf[p]] = NoFile]
    /\ \/ device' = [device EXCEPT ![p] = NoFile]
       \/ UNCHANGED device                                  \* rm fails
    /\ handle' = Detached(LocalOf[p])
    /\ UNCHANGED <<status, version, fresh>>

Next ==
    \/ \E h \in Handles :
          \/ \E p \in Paths : OpenBegin(h, p)
          \/ OpenEnd(h) \/ OpenStale(h) \/ OpenFail(h)
          \/ Read(h)
          \/ WriteBegin(h) \/ WriteEnd(h)
          \/ FlushBegin(h) \/ FlushEnd(h) \/ FlushFail(h)
          \/ FsyncBegin(h) \/ FsyncEnd(h)
          \/ Release(h)
    \/ \E p \in Paths : Truncate(p) \/ Mknod(p) \/ Unlink(p)
    \/ \E a, b \in Paths : Rename(a, b)

Spec == Init /\ [][Next]_vars

-----------------------------------------------------------------------------
Entry == [known : BOOLEAN, pending : BOOLEAN, forWrite : BOOLEAN,
          truncated : BOOLEAN, renamedFrom : Locals \cup {None}]

HandleState == [pc   : {"free", "opening", "open", "writing", "flushing",
                        "syncing", "closing", "leaked"},
                path : Paths \cup {None},
                loc  : Locals \cup {None},
                buf  : Nat]

\* Every variable holds a value of its type; in particular every entry of the
\* FileStatus table is well formed after any sequence of callbacks.
TypeOK ==
    /\ device \in [Paths -> Nat]
    /\ local \in [Locals -> Nat]
    /\ status \in [Paths -> Entry]
    /\ handle \in [Handles -> HandleState]
    /\ version \in Nat
    /\ fresh \in [Handles -> Nat]

\* What close promises: when the last flush of a handle has returned, the device has what
\* was written, or one of five things happened since the handle's last write: another
\* callback touched its file or its local copy, the file was renamed, the handle read, its
\* fsync or pwrite of the local copy failed, or a push of the handle's own failed, which
\* flush and fsync do not always report.  Callbacks on other files, opens, renames and
\* failed transfers of theirs may interleave in any way.
Delivered ==
    \A h \in Handles :
        handle[h].pc = "closing" /\ fresh[h] # 0 =>
        device[handle[h].path] = fresh[h]

\* With one callback at a time and no rename, the local copy adbnc_open may use
\* without pulling (truncated, or found on the host) is never older than the
\* file on the device.
LocalNotStale ==
    \A p \in Paths :
        local[LocalOf[p]] # NoFile => local[LocalOf[p]] >= device[p]

\* With one callback at a time and no rename, a push never replaces the content
\* of a file on the device by an older one.
NoRollback ==
    [][\A p \in Paths :
          {device[p], device'[p]} \subseteq Nat \ {NoFile} =>
          device'[p] >= device[p]]_vars

\* "flush() uses this information to decide if a file needs to be pushed back":
\* once no handle is on a file, its local copy is what the device has.
ClosedMeansStored ==
    \A p \in Paths :
        Unused(p) /\ local[LocalOf[p]] # NoFile => local[LocalOf[p]] = device[p]

\* adbnc_release "Closes the file handle."
NoDescriptorLeak == \A h \in Handles : handle[h].pc # "leaked"
=============================================================================

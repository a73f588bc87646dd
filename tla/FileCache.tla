----------------------------- MODULE FileCache -----------------------------
(***************************************************************************)
(* FileCache, the attribute and link cache of adbncfs, together with the   *)
(* callbacks that fill it (doStat, adbnc_readlink) and those that change   *)
(* the device through the mount and invalidate it.                         *)
(*                                                                         *)
(* What stat and readlink print about a path is a version number, or       *)
(* NoOutput when there is no such file.  A broken connection prints        *)
(* nothing either: no action tells Lost from NoOutput, only the properties *)
(* do.  The clock is modelled by the age of each entry, which saturates at *)
(* Ttl (iFileDataCacheSecondsValid).  Each operation on the map is one     *)
(* step; a command sent to the device is another, between which the        *)
(* callbacks of other threads run: no mutex covers both.                   *)
(***************************************************************************)
EXTENDS Naturals

CONSTANTS
    Paths,          \* the paths looked up or changed
    Links,          \* those that are symbolic links
    ParentOf,       \* the directory each path is in, None when not in Paths
    Threads,        \* libfuse's worker threads
    Changes,        \* the changing callbacks of the workload
    Ttl,            \* how many ticks an entry is valid
    CanFail,        \* the connection to the device may break
    MultiThreaded,  \* FALSE: mounted with -s, one callback at a time
    MaxVersion,     \* bound on the number of changes
    Lost,           \* the empty output of a broken connection
    None

\* Callbacks that invalidate the path and then change the device.
InvalidatingFirst == {"flush", "utimens", "mkdir", "rmdir", "unlink"}

\* Callbacks that change the device and then invalidate the path.
InvalidatingLast == {"fsync", "truncate", "mknod", "rename"}

\* Callbacks that push a file: adbncPushPullCmd first asks whether its directory
\* may be written, which calls doStat.
Pushing == {"flush", "fsync", "mknod"}

ASSUME PathsAssumption ==
    /\ Links \subseteq Paths
    /\ ParentOf \in [Paths -> Paths \cup {None}]
    /\ \A p \in Paths : ParentOf[p] # p
    /\ None \notin Paths \cup Nat \cup Threads \cup {Lost}
    /\ Lost \notin Nat

ASSUME WorkloadAssumption ==
    /\ Changes \subseteq InvalidatingFirst \cup InvalidatingLast
    /\ Ttl \in Nat \ {0}
    /\ CanFail \in BOOLEAN
    /\ MultiThreaded \in BOOLEAN
    /\ MaxVersion \in Nat

VARIABLES
    attrs,    \* what the device would print about each path
    cache,    \* FileCache::m_Entries
    thread,   \* per thread: the callback it runs and how far it is
    version,  \* the last version made
    quiet     \* history: paths whose last change overlapped no other callback

vars == <<attrs, cache, thread, version, quiet>>

NoOutput == 0

Outputs == Nat \cup {Lost}

-----------------------------------------------------------------------------
(* FileCache::Entry: one time stamp for two outputs.                       *)

\* An entry is made to hold an output.
Entries ==
    {e \in [there : BOOLEAN, age : 0..Ttl,
            stat : Outputs \cup {None}, link : Outputs \cup {None}] :
        e.there <=> (e.stat # None \/ e.link # None)}

NoEntry == [there |-> FALSE, age |-> Ttl, stat |-> None, link |-> None]

\* Mutant: entries never expire.
ValidForever(e) == e.there

\* FileCache::isValid
Valid(e) == e.there /\ e.age < Ttl

\* FileCache::putStat and FileCache::putReadLink: each renews the time stamp and
\* leaves the other output where it is.
PutStat(e, output) ==
    [e EXCEPT !.there = TRUE, !.age = 0, !.stat = output]

PutReadLink(e, output) ==
    [e EXCEPT !.there = TRUE, !.age = 0, !.link = output]

\* FileCache::getStat and FileCache::getReadLink
Cached(op, p) ==
    IF ~Valid(cache[p]) THEN None
    ELSE IF op = "stat" THEN cache[p].stat ELSE cache[p].link

-----------------------------------------------------------------------------
Idle == [pc |-> "idle", op |-> None, path |-> None, to |-> None,
         buf |-> NoOutput, clean |-> TRUE]

Running(op, p, to, pc, clean) ==
    [pc |-> pc, op |-> op, path |-> p, to |-> to, buf |-> NoOutput,
     clean |-> clean]

CanStart == MultiThreaded \/ \A t \in Threads : thread[t].pc = "idle"

Below(p) == {q \in Paths : ParentOf[q] = p}

\* History: the paths that ChangeBegin, InvalidateTo and Invalidate invalidate
\* for a callback.
Named(op, p, to) == IF op = "rename" THEN {p, to} ELSE {p}

\* The paths a callback may change on the device: creating or removing an entry
\* also changes its directory, and renaming a directory what is in it.
Affected(op, p, to) ==
    LET named == Named(op, p, to)
    IN  CASE op \in {"flush", "fsync", "utimens"}         -> named
          [] op \in {"mkdir", "rmdir", "unlink", "mknod"} ->
                named \cup ({ParentOf[p]} \ {None})
          [] op = "rename" ->
                named \cup ({ParentOf[p], ParentOf[to]} \ {None})
                      \cup Below(p) \cup Below(to)
          [] OTHER -> {}                  \* truncate cuts the local copy only

Removed(op, p) == CASE op \in {"rmdir", "unlink"} -> {p}
                    [] op = "rename" -> {p} \cup Below(p)
                    [] OTHER -> {}

\* The path a callback calls doStat or readlink for, None if it calls neither.
Looked(op, p) == CASE op \in {"stat", "readlink", "truncate"} -> p
                   [] op \in Pushing -> ParentOf[p]
                   [] OTHER -> None

\* A callback is running that looks up, changes or invalidates one of the paths ps.
Concerns(r, ps) ==
    /\ r.pc # "idle"
    /\ ps \cap ({Looked(r.op, r.path)} \cup Named(r.op, r.path, r.to)
                                      \cup Affected(r.op, r.path, r.to)) # {}

\* History: a callback on the paths ps starts while other callbacks run.
Overlapped(ps) ==
    [t \in Threads |->
        IF Concerns(thread[t], ps) THEN [thread[t] EXCEPT !.clean = FALSE]
        ELSE thread[t]]

-----------------------------------------------------------------------------
Init ==
    /\ attrs \in [Paths -> {NoOutput, 1}]
    /\ cache = [p \in Paths |-> NoEntry]
    /\ thread = [t \in Threads |-> Idle]
    /\ version = 1
    /\ quiet = Paths

\* doStat and adbnc_readlink send a command when the cache has no answer; an
\* answer from the cache changes nothing.
Lookup(t, op, p) ==
    /\ thread[t].pc = "idle" /\ CanStart
    /\ op = "readlink" => p \in Links
    /\ Cached(op, p) = None
    /\ thread' = [Overlapped({p}) EXCEPT ![t] =
                     Running(op, p, None, "fetching", TRUE)]
    /\ UNCHANGED <<attrs, cache, version, quiet>>

\* The command runs on the device; if the connection breaks it prints nothing.
Fetch(t) ==
    /\ thread[t].pc = "fetching"
    /\ \E output \in {attrs[Looked(thread[t].op, thread[t].path)]}
                     \cup (IF CanFail THEN {Lost} ELSE {}) :
          thread' = [thread EXCEPT ![t].pc = "putting", ![t].buf = output]
    /\ UNCHANGED <<attrs, cache, version, quiet>>

\* Whatever was printed is cached; a changing callback goes on.
Put(t) ==
    /\ thread[t].pc = "putting"
    /\ LET r == thread[t]
       IN  /\ cache' = [cache EXCEPT ![Looked(r.op, r.path)] =
                 IF r.op = "readlink" THEN PutReadLink(@, r.buf)
                                      ELSE PutStat(@, r.buf)]
           /\ thread' = [thread EXCEPT ![t] =
                 IF r.op \in {"stat", "readlink"} THEN Idle
                 ELSE [r EXCEPT !.pc = "changing", !.buf = NoOutput]]
    /\ UNCHANGED <<attrs, version, quiet>>

\* Mutant: invalidating a path drops its attributes and keeps the entry.
InvalidatedStat(p) == [cache EXCEPT ![p].stat = None]

\* FileCache::invalidate
Invalidated(p) == [cache EXCEPT ![p] = NoEntry]

\* A changing callback starts; the first kind invalidates at once.  The kernel
\* refuses to rename a directory into itself or a file to its directory.
ChangeBegin(t, op, p, to) ==
    /\ thread[t].pc = "idle" /\ CanStart
    /\ IF op = "rename"
       THEN to \in Paths \ ({p, ParentOf[p]} \cup Below(p))
       ELSE to = None
    /\ cache' = IF op \in InvalidatingFirst THEN Invalidated(p) ELSE cache
    /\ LET named  == Named(op, p, to)
           looked == Looked(op, p)
           pc == IF looked # None /\ Cached("stat", looked) = None
                 THEN "fetching" ELSE "changing"
       IN  /\ thread' = [Overlapped(named \cup Affected(op, p, to)
                                          \cup ({looked} \ {None})) EXCEPT ![t] =
                 Running(op, p, to, pc, \A u \in Threads : ~Concerns(thread[u], named))]
           /\ quiet' = quiet \ (named \cup Affected(op, p, to))
    /\ UNCHANGED <<attrs, version>>

\* History: when a callback ends, the paths it invalidated are quiet if nothing
\* overlapped it.
Quieted(t) == IF thread[t].clean
              THEN quiet \cup Named(thread[t].op, thread[t].path, thread[t].to)
              ELSE quiet

\* The command of a changing callback works or fails.  The callback does not
\* look at the answer.
Change(t) ==
    /\ thread[t].pc = "changing" /\ thread[t].op # "truncate"
    /\ LET r == thread[t]
       IN  /\ \/ UNCHANGED <<attrs, version>>
              \/ /\ version < MaxVersion
                 /\ r.op = "mkdir" => attrs[r.path] = NoOutput
                 /\ r.op \in {"rmdir", "unlink", "rename"} => attrs[r.path] # NoOutput
                 /\ version' = version + 1
                 /\ attrs' = [q \in Paths |->
                       IF q \in Removed(r.op, r.path) THEN NoOutput
                       ELSE IF q \in Affected(r.op, r.path, r.to) THEN version'
                       ELSE attrs[q]]
           /\ IF r.op \in InvalidatingFirst
              THEN /\ thread' = [thread EXCEPT ![t] = Idle]
                   /\ quiet' = Quieted(t)
              ELSE /\ thread' = [thread EXCEPT ![t].pc = "invalidating1"]
                   /\ UNCHANGED quiet
    /\ UNCHANGED cache

\* truncate changes nothing on the device; when it fails it does not invalidate.
Cut(t) ==
    /\ thread[t].pc = "changing" /\ thread[t].op = "truncate"
    /\ \/ thread' = [thread EXCEPT ![t].pc = "invalidating1"]
       \/ thread' = [thread EXCEPT ![t] = Idle]
    /\ UNCHANGED <<attrs, cache, version, quiet>>

\* Mutant: rename forgets what is cached about its target.
InvalidateToNot(t) ==
    /\ thread[t].pc = "invalidating1" /\ thread[t].op = "rename"
    /\ thread' = [thread EXCEPT ![t].pc = "invalidating2"]
    /\ UNCHANGED <<attrs, cache, version, quiet>>

\* The second kind invalidates afterwards; rename first its target.
InvalidateTo(t) ==
    /\ thread[t].pc = "invalidating1" /\ thread[t].op = "rename"
    /\ cache' = Invalidated(thread[t].to)
    /\ thread' = [thread EXCEPT ![t].pc = "invalidating2"]
    /\ UNCHANGED <<attrs, version, quiet>>

Invalidate(t) ==
    /\ \/ thread[t].pc = "invalidating1" /\ thread[t].op # "rename"
       \/ thread[t].pc = "invalidating2"
    /\ cache' = Invalidated(thread[t].path)
    /\ thread' = [thread EXCEPT ![t] = Idle]
    /\ quiet' = Quieted(t)
    /\ UNCHANGED <<attrs, version>>

\* The clock: an entry grows older until it is Ttl ticks old.
Older(n) == IF n < Ttl THEN n + 1 ELSE n

Tick ==
    /\ cache' = [p \in Paths |->
          IF cache[p].there THEN [cache[p] EXCEPT !.age = Older(@)] ELSE cache[p]]
    /\ UNCHANGED <<attrs, thread, version, quiet>>

Step(t) == Fetch(t) \/ Put(t)
           \/ Change(t) \/ Cut(t) \/ InvalidateTo(t) \/ Invalidate(t)

Next ==
    \/ \E t \in Threads :
          \/ \E op \in {"stat", "readlink"}, p \in Paths : Lookup(t, op, p)
          \/ \E op \in Changes, p \in Paths, to \in Paths \cup {None} :
                ChangeBegin(t, op, p, to)
          \/ Step(t)
    \/ Tick

Spec == Init /\ [][Next]_vars

\* The device answers, the scheduler runs every thread, and time passes.
Fairness == (\A t \in Threads : WF_vars(Step(t))) /\ WF_vars(Tick)

FairSpec == Spec /\ Fairness

-----------------------------------------------------------------------------
TypeOK ==
    /\ attrs \in [Paths -> Nat]
    /\ cache \in [Paths -> Entries]
    /\ thread \in [Threads ->
          [pc : {"idle", "fetching", "putting", "changing", "invalidating1",
                 "invalidating2"},
           op : {"stat", "readlink", None} \cup InvalidatingFirst
                \cup InvalidatingLast,
           path : Paths \cup {None}, to : Paths \cup {None},
           buf : Outputs, clean : BOOLEAN]]
    /\ version \in Nat
    /\ quiet \subseteq Paths

\* A path whose last change through the mount overlapped no other callback on it
\* is never answered from the cache with outdated attributes, whether its
\* callback invalidates the cache before or after it changes the device.  The
\* cache says that there is no such file only when there is none, be it after a
\* mknod, a mkdir or a rename to the path, or when the connection broke in the
\* middle of the command that asked.
Coherent ==
    \A p \in quiet :
        /\ Cached("stat", p) \in {None, Lost, attrs[p]}
        /\ Cached("readlink", p) \in {None, Lost, attrs[p]}

\* Changes the callbacks do not invalidate (directories, what is in a renamed
\* directory) and overlapping ones are seen in the end: when the last change is
\* over, every path that is not a link is answered with its current attributes
\* from some time on.
EventuallyCurrent ==
    <>[](\A p \in Paths \ Links : Cached("stat", p) \in {None, attrs[p]})
=============================================================================

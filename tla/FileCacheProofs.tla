--------------------------- MODULE FileCacheProofs ---------------------------
(***************************************************************************)
(* Proofs about FileCache, for every set of paths and threads, every time  *)
(* an entry is valid and every workload.                                   *)
(***************************************************************************)
EXTENDS FileCache, TLAPS

-----------------------------------------------------------------------------
(* The inductive invariant.                                                *)

Lookups == {"stat", "readlink"}

Changing == InvalidatingFirst \cup InvalidatingLast

\* Which callback a thread can be in the middle of.
RunOK(r) ==
    r.pc # "idle" =>
    /\ r.op \in Lookups \cup Changing /\ r.path \in Paths
    /\ r.op = "rename" => r.to \in Paths
    /\ r.pc \in {"fetching", "putting"} => Looked(r.op, r.path) \in Paths
    /\ r.pc \notin {"fetching", "putting"} => r.op \in Changing
    /\ r.pc \in {"invalidating1", "invalidating2"} => r.op \in InvalidatingLast
    /\ r.pc = "invalidating2" => r.op = "rename"

TypeInv == TypeOK /\ \A t \in Threads : RunOK(thread[t])

\* The paths a callback looks up, invalidates or changes, None perhaps among them.
Touches(op, p, to) == {Looked(op, p)} \cup Named(op, p, to) \cup Affected(op, p, to)

Touched(r) == Touches(r.op, r.path, r.to)

\* No other callback touches a path that one invalidates which nothing overlapped.
AloneInv ==
    \A t, u \in Threads :
        /\ t # u /\ thread[t].pc # "idle" /\ thread[u].pc # "idle"
        /\ thread[t].op \in Changing /\ thread[t].clean
        => Named(thread[t].op, thread[t].path, thread[t].to) \cap Touched(thread[u]) = {}

Nothing(e) == e.stat = None /\ e.link = None

\* Nothing is cached meanwhile about the path it has invalidated.
EmptyInv ==
    \A t \in Threads :
        thread[t].pc # "idle" /\ thread[t].clean =>
        /\ thread[t].op \in InvalidatingFirst => Nothing(cache[thread[t].path])
        /\ thread[t].pc = "invalidating2" => Nothing(cache[thread[t].to])

\* No callback is about to change a quiet path or has outdated attributes of it.
QuietInv ==
    \A p \in quiet :
        /\ cache[p].stat \in {None, Lost, attrs[p]}
        /\ cache[p].link \in {None, Lost, attrs[p]}
        /\ \A t \in Threads : thread[t].pc # "idle" =>
              /\ thread[t].op \in Changing =>
                    /\ p \notin Named(thread[t].op, thread[t].path, thread[t].to)
                    /\ p \notin Affected(thread[t].op, thread[t].path, thread[t].to)
              /\ thread[t].pc = "putting" /\ Looked(thread[t].op, thread[t].path) = p
                 => thread[t].buf \in {Lost, attrs[p]}

-----------------------------------------------------------------------------
(* The paths of a callback.                                                *)

\* A lookup changes nothing.
LEMMA LookupTouches ==
    ASSUME NEW op \in Lookups, NEW p
    PROVE  /\ Looked(op, p) = p /\ Named(op, p, None) = {p}
           /\ Affected(op, p, None) = {}
<1>1. /\ op \in {"stat", "readlink", "truncate"} /\ op \notin Pushing /\ op # "rename"
      /\ op \notin {"flush", "fsync", "utimens"}
      /\ op \notin {"mkdir", "rmdir", "unlink", "mknod"}
  BY DEF Lookups, Pushing
<1>2. Looked(op, p) = p
  BY <1>1 DEF Looked
<1>3. Named(op, p, None) = {p}
  BY <1>1 DEF Named
<1>4. Affected(op, p, None) = {}
  BY <1>1 DEF Affected
<1>. QED
  BY <1>2, <1>3, <1>4

\* A callback that looks up another path than its own looks up the directory.
LEMMA LookedPaths ==
    ASSUME NEW op \in Changing, NEW p \in Paths
    PROVE  /\ Looked(op, p) \in Paths \cup {None}
           /\ op \in InvalidatingFirst => Looked(op, p) # p
<1>1. CASE op = "truncate"
  <2>1. /\ op \in {"stat", "readlink", "truncate"} /\ op \notin Pushing
        /\ op \notin InvalidatingFirst
    BY <1>1 DEF Pushing, InvalidatingFirst
  <2>2. Looked(op, p) = p
    BY <2>1 DEF Looked
  <2>. QED
    BY <2>1, <2>2
<1>2. CASE op \in Pushing
  <2>1. op \notin {"stat", "readlink", "truncate"}
    BY <1>2 DEF Pushing
  <2>2. Looked(op, p) = ParentOf[p]
    BY <1>2, <2>1 DEF Looked
  <2>. QED
    BY <2>2, PathsAssumption
<1>3. CASE op \notin {"truncate"} \cup Pushing
  <2>1. op \notin {"stat", "readlink", "truncate"}
    BY <1>3 DEF Changing, InvalidatingFirst, InvalidatingLast
  <2>2. Looked(op, p) = None
    BY <1>3, <2>1 DEF Looked
  <2>. QED
    BY <2>2, PathsAssumption
<1>. QED
  BY <1>1, <1>2, <1>3

\* What a callback removes from the device is among what it changes there.
LEMMA RemovedAffected ==
    ASSUME NEW op \in Changing, NEW p, NEW to
    PROVE  Removed(op, p) \subseteq Affected(op, p, to)
<1>1. CASE op \in {"rmdir", "unlink"}
  BY <1>1 DEF Removed, Affected, Named
<1>2. CASE op = "rename"
  BY <1>2 DEF Removed, Affected, Named
<1>3. CASE op \notin {"rmdir", "unlink", "rename"}
  BY <1>3 DEF Removed
<1>. QED
  BY <1>1, <1>2, <1>3

LEMMA NamedPaths ==
    ASSUME NEW r, RunOK(r), r.pc # "idle"
    PROVE  Named(r.op, r.path, r.to) \subseteq Paths /\ r.path \in Named(r.op, r.path, r.to)
  BY DEF RunOK, Named

-----------------------------------------------------------------------------
(* What the steps do.                                                      *)

ThreadState ==
    [pc : {"idle", "fetching", "putting", "changing", "invalidating1",
           "invalidating2"},
     op : {"stat", "readlink", None} \cup InvalidatingFirst \cup InvalidatingLast,
     path : Paths \cup {None}, to : Paths \cup {None},
     buf : Outputs, clean : BOOLEAN]

LEMMA Types ==
    TypeOK <=> /\ attrs \in [Paths -> Nat]
               /\ cache \in [Paths -> Entries]
               /\ thread \in [Threads -> ThreadState]
               /\ version \in Nat
               /\ quiet \subseteq Paths
  BY DEF TypeOK, ThreadState, Entries

LEMMA OutputsTyped == NoOutput \in Outputs /\ Nat \subseteq Outputs /\ None \notin Outputs
  BY PathsAssumption DEF NoOutput, Outputs

LEMMA IdleTyped == Idle \in ThreadState /\ Idle.pc = "idle"
  BY OutputsTyped DEF Idle, ThreadState

LEMMA NoEntryTyped == NoEntry \in Entries /\ Nothing(NoEntry)
  BY WorkloadAssumption DEF NoEntry, Entries, Nothing

\* Thread t starts a callback on the paths ps.
Begins(t, op, p, to, pc, clean, ps) ==
    /\ thread' \in [Threads -> ThreadState]
    /\ thread[t].pc = "idle"
    /\ thread'[t].pc = pc /\ thread'[t].op = op
    /\ thread'[t].path = p /\ thread'[t].to = to
    /\ thread'[t].buf = NoOutput /\ thread'[t].clean = clean
    /\ \A u \in Threads \ {t} :
          /\ thread'[u].pc = thread[u].pc /\ thread'[u].op = thread[u].op
          /\ thread'[u].path = thread[u].path /\ thread'[u].to = thread[u].to
          /\ thread'[u].buf = thread[u].buf
          /\ thread'[u].clean => thread[u].clean /\ ~Concerns(thread[u], ps)

LEMMA BeginStep ==
    ASSUME TypeOK, NEW t \in Threads, thread[t].pc = "idle",
           NEW op \in Lookups \cup Changing, NEW p \in Paths, NEW to \in Paths \cup {None},
           NEW pc \in {"fetching", "changing"}, NEW clean \in BOOLEAN, NEW ps,
           thread' = [Overlapped(ps) EXCEPT ![t] = Running(op, p, to, pc, clean)]
    PROVE  Begins(t, op, p, to, pc, clean, ps)
<1>. DEFINE r == Running(op, p, to, pc, clean)
<1>1. thread \in [Threads -> ThreadState]
  BY Types
<1>2. r \in ThreadState
  BY OutputsTyped DEF Running, ThreadState, Lookups, Changing
<1>3. /\ r.pc = pc /\ r.op = op /\ r.path = p /\ r.to = to
      /\ r.buf = NoOutput /\ r.clean = clean
  BY DEF Running
<1>. HIDE DEF r
<1>4. ASSUME NEW u \in Threads \ {t}
      PROVE  /\ thread'[u] \in ThreadState
             /\ thread'[u].pc = thread[u].pc /\ thread'[u].op = thread[u].op
             /\ thread'[u].path = thread[u].path /\ thread'[u].to = thread[u].to
             /\ thread'[u].buf = thread[u].buf
             /\ thread'[u].clean => thread[u].clean /\ ~Concerns(thread[u], ps)
  <2>. DEFINE s == [thread[u] EXCEPT !.clean = FALSE]
  <2>0. thread[u] \in ThreadState
    BY <1>1
  <2>1. s \in ThreadState
    BY <2>0 DEF ThreadState
  <2>2. /\ s.pc = thread[u].pc /\ s.op = thread[u].op
        /\ s.path = thread[u].path /\ s.to = thread[u].to
        /\ s.buf = thread[u].buf /\ s.clean = FALSE
    BY <2>0 DEF ThreadState
  <2>3. thread'[u] = IF Concerns(thread[u], ps) THEN s ELSE thread[u]
    BY DEF Overlapped
  <2>. HIDE DEF s
  <2>. QED
    BY <2>0, <2>1, <2>2, <2>3
<1>5. thread'[t] = r
  BY DEF Overlapped, r
<1>6. thread' \in [Threads -> ThreadState]
  <2>1. thread' = [u \in Threads |-> thread'[u]]
    BY DEF Overlapped
  <2>. QED
    BY <1>2, <1>4, <1>5, <2>1
<1>. QED
  BY <1>3, <1>4, <1>5, <1>6 DEF Begins

\* Thread t goes on in its callback.
Goes(t, pc) ==
    /\ thread' \in [Threads -> ThreadState]
    /\ thread[t].pc # "idle" /\ thread'[t].pc = pc
    /\ thread'[t].op = thread[t].op /\ thread'[t].path = thread[t].path
    /\ thread'[t].to = thread[t].to /\ thread'[t].clean = thread[t].clean
    /\ \A u \in Threads \ {t} : thread'[u] = thread[u]

LEMMA GoStep ==
    ASSUME TypeOK, NEW t \in Threads, thread[t].pc # "idle",
           NEW pc \in {"putting", "changing", "invalidating1", "invalidating2"},
           NEW buf \in Outputs,
           thread' = [thread EXCEPT ![t] = [thread[t] EXCEPT !.pc = pc, !.buf = buf]]
    PROVE  Goes(t, pc) /\ thread'[t].buf = buf
<1>. DEFINE r == [thread[t] EXCEPT !.pc = pc, !.buf = buf]
<1>1. thread \in [Threads -> ThreadState] /\ thread[t] \in ThreadState
  BY Types
<1>2. r \in ThreadState
  BY <1>1 DEF ThreadState
<1>3. /\ r.pc = pc /\ r.op = thread[t].op /\ r.path = thread[t].path
      /\ r.to = thread[t].to /\ r.clean = thread[t].clean /\ r.buf = buf
  BY <1>1 DEF ThreadState
<1>. HIDE DEF r
<1>4. /\ thread' \in [Threads -> ThreadState] /\ thread'[t] = r
      /\ \A u \in Threads \ {t} : thread'[u] = thread[u]
  BY <1>1, <1>2 DEF r
<1>. QED
  BY <1>3, <1>4 DEF Goes

LEMMA GoOnStep ==
    ASSUME TypeOK, NEW t \in Threads, thread[t].pc # "idle",
           NEW pc \in {"putting", "changing", "invalidating1", "invalidating2"},
           thread' = [thread EXCEPT ![t].pc = pc]
    PROVE  Goes(t, pc) /\ thread'[t].buf = thread[t].buf
<1>. DEFINE r == [thread[t] EXCEPT !.pc = pc]
<1>1. thread \in [Threads -> ThreadState] /\ thread[t] \in ThreadState
  BY Types
<1>2. r \in ThreadState
  BY <1>1 DEF ThreadState
<1>3. /\ r.pc = pc /\ r.op = thread[t].op /\ r.path = thread[t].path
      /\ r.to = thread[t].to /\ r.clean = thread[t].clean /\ r.buf = thread[t].buf
  BY <1>1 DEF ThreadState
<1>4. thread' = [thread EXCEPT ![t] = r]
  OBVIOUS
<1>. HIDE DEF r
<1>5. /\ thread' \in [Threads -> ThreadState] /\ thread'[t] = r
      /\ \A u \in Threads \ {t} : thread'[u] = thread[u]
  BY <1>1, <1>2, <1>4
<1>. QED
  BY <1>3, <1>5 DEF Goes

\* Thread t ends its callback.
Ends(t) ==
    /\ thread' \in [Threads -> ThreadState]
    /\ thread[t].pc # "idle" /\ thread'[t].pc = "idle"
    /\ \A u \in Threads \ {t} : thread'[u] = thread[u]

LEMMA EndStep ==
    ASSUME TypeOK, NEW t \in Threads, thread[t].pc # "idle",
           thread' = [thread EXCEPT ![t] = Idle]
    PROVE  Ends(t)
  BY IdleTyped, Types DEF Ends

\* What is cached about the other paths than p stays.
LEMMA InvalidateStep ==
    ASSUME TypeOK, NEW p \in Paths, cache' = Invalidated(p)
    PROVE  /\ cache' \in [Paths -> Entries]
           /\ Nothing(cache'[p])
           /\ \A q \in Paths \ {p} : cache'[q] = cache[q]
<1>1. cache \in [Paths -> Entries]
  BY Types
<1>2. cache' = [cache EXCEPT ![p] = NoEntry]
  BY DEF Invalidated
<1>. QED
  BY <1>1, <1>2, NoEntryTyped

\* Only one of the two outputs of p changes.
LEMMA PutStep ==
    ASSUME TypeOK, NEW p \in Paths, NEW buf \in Outputs, NEW op,
           cache' = [cache EXCEPT ![p] = IF op = "readlink" THEN PutReadLink(@, buf)
                                                           ELSE PutStat(@, buf)]
    PROVE  /\ cache' \in [Paths -> Entries]
           /\ cache'[p].stat \in {cache[p].stat, buf}
           /\ cache'[p].link \in {cache[p].link, buf}
           /\ \A q \in Paths \ {p} : cache'[q] = cache[q]
<1>1. cache \in [Paths -> Entries] /\ cache[p] \in Entries
  BY Types
<1>2. PutReadLink(cache[p], buf) \in Entries /\ PutStat(cache[p], buf) \in Entries
  <2>1. 0 \in 0..Ttl
    BY WorkloadAssumption
  <2>. DEFINE l == [cache[p] EXCEPT !.there = TRUE, !.age = 0, !.link = buf]
              s == [cache[p] EXCEPT !.there = TRUE, !.age = 0, !.stat = buf]
              E == [there : BOOLEAN, age : 0..Ttl,
                    stat : Outputs \cup {None}, link : Outputs \cup {None}]
  <2>2. cache[p] \in E
    BY <1>1 DEF Entries
  <2>3. l \in E /\ l.there /\ l.link = buf
    BY <2>1, <2>2
  <2>4. s \in E /\ s.there /\ s.stat = buf
    BY <2>1, <2>2
  <2>5. buf # None
    BY OutputsTyped
  <2>6. l = PutReadLink(cache[p], buf) /\ s = PutStat(cache[p], buf)
    BY DEF PutReadLink, PutStat
  <2>. HIDE DEF l, s
  <2>7. l \in Entries /\ s \in Entries
    BY <2>3, <2>4, <2>5 DEF Entries
  <2>. QED
    BY <2>6, <2>7
<1>3. /\ PutReadLink(cache[p], buf).stat = cache[p].stat
      /\ PutReadLink(cache[p], buf).link = buf
      /\ PutStat(cache[p], buf).stat = buf
      /\ PutStat(cache[p], buf).link = cache[p].link
  BY <1>1 DEF PutReadLink, PutStat, Entries
<1>4. PICK e \in Entries :
         /\ e.stat \in {cache[p].stat, buf} /\ e.link \in {cache[p].link, buf}
         /\ cache' = [cache EXCEPT ![p] = e]
  BY <1>2, <1>3
<1>. QED
  BY <1>1, <1>4

\* The clock changes no output.
LEMMA TickStep ==
    ASSUME TypeOK, Tick
    PROVE  /\ cache' \in [Paths -> Entries]
           /\ \A p \in Paths : /\ cache'[p].stat = cache[p].stat
                               /\ cache'[p].link = cache[p].link
           /\ UNCHANGED <<attrs, thread, version, quiet>>
<1>1. ASSUME NEW p \in Paths
      PROVE  /\ cache'[p] \in Entries
             /\ cache'[p].stat = cache[p].stat /\ cache'[p].link = cache[p].link
  <2>. DEFINE e == [cache[p] EXCEPT !.age = Older(cache[p].age)]
  <2>1. cache[p] \in Entries
    BY Types
  <2>2. Older(cache[p].age) \in 0..Ttl
    BY <2>1, WorkloadAssumption DEF Entries, Older
  <2>3. e \in Entries
    BY <2>1, <2>2 DEF Entries
  <2>4. e.stat = cache[p].stat /\ e.link = cache[p].link
    BY <2>1 DEF Entries
  <2>5. cache'[p] = IF cache[p].there THEN e ELSE cache[p]
    BY DEF Tick
  <2>. HIDE DEF e
  <2>. QED
    BY <2>1, <2>3, <2>4, <2>5
<1>2. cache' = [p \in Paths |-> cache'[p]] /\ UNCHANGED <<attrs, thread, version, quiet>>
  BY DEF Tick
<1>. QED
  BY <1>1, <1>2

LEMMA LookupSteps ==
    ASSUME TypeInv, NEW t \in Threads, NEW op \in Lookups, NEW p \in Paths, Lookup(t, op, p)
    PROVE  /\ Begins(t, op, p, None, "fetching", TRUE, {p})
           /\ UNCHANGED <<attrs, cache, version, quiet>>
  BY BeginStep DEF Lookup, TypeInv

\* A changing callback starts.
Starts(t, op, p, to, pc, clean) ==
    LET named == Named(op, p, to)
    IN  /\ Begins(t, op, p, to, pc, clean,
                  named \cup Affected(op, p, to) \cup ({Looked(op, p)} \ {None}))
        /\ op = "rename" => to \in Paths
        /\ pc = "fetching" => Looked(op, p) \in Paths
        /\ clean => \A u \in Threads : ~Concerns(thread[u], named)
        /\ IF op \in InvalidatingFirst THEN cache' = Invalidated(p) ELSE UNCHANGED cache
        /\ quiet' = quiet \ (named \cup Affected(op, p, to))
        /\ UNCHANGED <<attrs, version>>

LEMMA ChangeSteps ==
    ASSUME TypeInv, NEW t \in Threads, NEW op \in Changing, NEW p \in Paths,
           NEW to \in Paths \cup {None}, ChangeBegin(t, op, p, to)
    PROVE  \E pc \in {"fetching", "changing"}, clean \in BOOLEAN :
              Starts(t, op, p, to, pc, clean)
<1>. DEFINE named == Named(op, p, to)
            looked == Looked(op, p)
            pc == IF looked # None /\ Cached("stat", looked) = None
                  THEN "fetching" ELSE "changing"
            clean == \A u \in Threads : ~Concerns(thread[u], named)
            ps == named \cup Affected(op, p, to) \cup ({looked} \ {None})
<1>1. /\ thread[t].pc = "idle"
      /\ op = "rename" => to \in Paths
      /\ cache' = IF op \in InvalidatingFirst THEN Invalidated(p) ELSE cache
      /\ thread' = [Overlapped(ps) EXCEPT ![t] = Running(op, p, to, pc, clean)]
      /\ quiet' = quiet \ (named \cup Affected(op, p, to))
      /\ UNCHANGED <<attrs, version>>
  BY DEF ChangeBegin
<1>2. /\ pc \in {"fetching", "changing"} /\ clean \in BOOLEAN
      /\ pc = "fetching" => looked \in Paths
  BY LookedPaths
<1>3. clean => \A u \in Threads : ~Concerns(thread[u], named)
  OBVIOUS
<1>. HIDE DEF pc, clean
<1>4. Begins(t, op, p, to, pc, clean, ps)
  <2>. HIDE DEF ps
  <2>. QED
    BY <1>1, <1>2, BeginStep DEF TypeInv
<1>5. Starts(t, op, p, to, pc, clean)
  BY <1>1, <1>2, <1>3, <1>4 DEF Starts
<1>. QED
  BY <1>2, <1>5

LEMMA FetchSteps ==
    ASSUME TypeInv, NEW t \in Threads, Fetch(t)
    PROVE  /\ thread[t].pc = "fetching" /\ Goes(t, "putting")
           /\ Looked(thread[t].op, thread[t].path) \in Paths
           /\ thread'[t].buf \in {Lost, attrs[Looked(thread[t].op, thread[t].path)]}
           /\ thread'[t].buf \in Outputs
           /\ UNCHANGED <<attrs, cache, version, quiet>>
<1>1. /\ thread[t].pc = "fetching" /\ UNCHANGED <<attrs, cache, version, quiet>>
  BY DEF Fetch
<1>2. Looked(thread[t].op, thread[t].path) \in Paths
  BY <1>1 DEF TypeInv, RunOK
<1>3. PICK output \in {Lost, attrs[Looked(thread[t].op, thread[t].path)]} :
         thread' = [thread EXCEPT ![t].pc = "putting", ![t].buf = output]
  BY DEF Fetch
<1>4. output \in Outputs
  BY <1>2, <1>3 DEF TypeInv, TypeOK, Outputs
<1>5. Goes(t, "putting") /\ thread'[t].buf = output
  <2>1. thread' = [thread EXCEPT ![t] =
                      [thread[t] EXCEPT !.pc = "putting", !.buf = output]]
    BY <1>3
  <2>. QED
    BY <1>1, <1>4, <2>1, GoStep DEF TypeInv
<1>. QED
  BY <1>1, <1>2, <1>3, <1>4, <1>5

\* A callback caches what was printed.
Puts(t) ==
    LET p == Looked(thread[t].op, thread[t].path)
    IN  /\ thread[t].pc = "putting" /\ p \in Paths
        /\ \/ Ends(t) /\ thread[t].op \in Lookups
           \/ Goes(t, "changing") /\ thread[t].op \in Changing
        /\ cache' \in [Paths -> Entries]
        /\ cache'[p].stat \in {cache[p].stat, thread[t].buf}
        /\ cache'[p].link \in {cache[p].link, thread[t].buf}
        /\ \A q \in Paths \ {p} : cache'[q] = cache[q]
        /\ UNCHANGED <<attrs, version, quiet>>

LEMMA PutSteps ==
    ASSUME TypeInv, NEW t \in Threads, Put(t)
    PROVE  Puts(t)
<1>. DEFINE r == thread[t]
            p == Looked(r.op, r.path)
<1>1. /\ r.pc = "putting" /\ UNCHANGED <<attrs, version, quiet>>
      /\ cache' = [cache EXCEPT ![p] = IF r.op = "readlink" THEN PutReadLink(@, r.buf)
                                                           ELSE PutStat(@, r.buf)]
      /\ thread' = [thread EXCEPT ![t] =
            IF r.op \in {"stat", "readlink"} THEN Idle
            ELSE [r EXCEPT !.pc = "changing", !.buf = NoOutput]]
  BY DEF Put
<1>2. p \in Paths /\ r.op \in Lookups \cup Changing
  BY <1>1 DEF TypeInv, RunOK
<1>3. r.buf \in Outputs
  BY Types DEF TypeInv, ThreadState
<1>4. /\ cache' \in [Paths -> Entries]
      /\ cache'[p].stat \in {cache[p].stat, r.buf}
      /\ cache'[p].link \in {cache[p].link, r.buf}
      /\ \A q \in Paths \ {p} : cache'[q] = cache[q]
  BY <1>1, <1>2, <1>3, PutStep DEF TypeInv
<1>5. \/ Ends(t) /\ thread[t].op \in Lookups
      \/ Goes(t, "changing") /\ thread[t].op \in Changing
  <2>1. CASE r.op \in Lookups
    <3>1. thread' = [thread EXCEPT ![t] = Idle]
      BY <1>1, <2>1 DEF Lookups
    <3>. QED
      BY <1>1, <2>1, <3>1, EndStep DEF TypeInv
  <2>2. CASE r.op \notin Lookups
    <3>1. thread' = [thread EXCEPT ![t] =
                        [thread[t] EXCEPT !.pc = "changing", !.buf = NoOutput]]
      BY <1>1, <2>2 DEF Lookups
    <3>2. NoOutput \in Outputs
      BY OutputsTyped
    <3>3. Goes(t, "changing")
      BY <1>1, <3>1, <3>2, GoStep DEF TypeInv
    <3>. QED
      BY <1>2, <2>2, <3>3
  <2>. QED
    BY <2>1, <2>2
<1>. QED
  BY <1>1, <1>2, <1>4, <1>5 DEF Puts

\* The command of a changing callback works or fails.
DoesChange(t) ==
    LET r == thread[t]
    IN  /\ r.pc = "changing" /\ r.op \in Changing
        /\ attrs' \in [Paths -> Nat] /\ version' \in Nat
        /\ \A q \in Paths \ Affected(r.op, r.path, r.to) : attrs'[q] = attrs[q]
        /\ \/ r.op \in InvalidatingFirst /\ Ends(t) /\ quiet' = Quieted(t)
           \/ /\ r.op \in InvalidatingLast /\ Goes(t, "invalidating1")
              /\ UNCHANGED quiet
        /\ UNCHANGED cache

LEMMA ChangeDone ==
    ASSUME TypeInv, NEW t \in Threads, Change(t)
    PROVE  DoesChange(t)
<1>. DEFINE r == thread[t]
<1>1. r.pc = "changing" /\ UNCHANGED cache
  BY DEF Change
<1>2. r.op \in Changing
  BY <1>1 DEF TypeInv, RunOK
<1>3. /\ attrs' \in [Paths -> Nat] /\ version' \in Nat
      /\ \A q \in Paths \ Affected(r.op, r.path, r.to) : attrs'[q] = attrs[q]
  <2>0. attrs \in [Paths -> Nat] /\ version \in Nat
    BY DEF TypeInv, TypeOK
  <2>1. CASE UNCHANGED <<attrs, version>>
    BY <2>0, <2>1
  <2>2. CASE /\ version' = version + 1
             /\ attrs' = [q \in Paths |->
                   IF q \in Removed(r.op, r.path) THEN NoOutput
                   ELSE IF q \in Affected(r.op, r.path, r.to) THEN version'
                   ELSE attrs[q]]
    <3>1. version' \in Nat /\ NoOutput \in Nat
      BY <2>0, <2>2 DEF NoOutput
    <3>2. Removed(r.op, r.path) \subseteq Affected(r.op, r.path, r.to)
      BY <1>2, RemovedAffected
    <3>. QED
      BY <2>0, <2>2, <3>1, <3>2
  <2>. QED
    BY <2>1, <2>2 DEF Change
<1>4. \/ r.op \in InvalidatingFirst /\ Ends(t) /\ quiet' = Quieted(t)
      \/ r.op \in InvalidatingLast /\ Goes(t, "invalidating1") /\ UNCHANGED quiet
  <2>1. CASE r.op \in InvalidatingFirst
    <3>1. thread' = [thread EXCEPT ![t] = Idle] /\ quiet' = Quieted(t)
      BY <2>1 DEF Change
    <3>. QED
      BY <1>1, <2>1, <3>1, EndStep DEF TypeInv
  <2>2. CASE r.op \notin InvalidatingFirst
    <3>1. thread' = [thread EXCEPT ![t].pc = "invalidating1"] /\ UNCHANGED quiet
      BY <2>2 DEF Change
    <3>. QED
      BY <1>1, <1>2, <2>2, <3>1, GoOnStep DEF TypeInv, Changing
  <2>. QED
    BY <2>1, <2>2
<1>. QED
  BY <1>1, <1>2, <1>3, <1>4 DEF DoesChange

LEMMA CutSteps ==
    ASSUME TypeInv, NEW t \in Threads, Cut(t)
    PROVE  /\ thread[t].pc = "changing" /\ thread[t].op \in InvalidatingLast
           /\ Goes(t, "invalidating1") \/ Ends(t)
           /\ UNCHANGED <<attrs, cache, version, quiet>>
  BY GoOnStep, EndStep DEF Cut, TypeInv, InvalidatingLast

LEMMA InvalidateToSteps ==
    ASSUME TypeInv, NEW t \in Threads, InvalidateTo(t)
    PROVE  /\ thread[t].pc = "invalidating1" /\ thread[t].op = "rename"
           /\ thread[t].to \in Paths
           /\ Goes(t, "invalidating2") /\ cache' = Invalidated(thread[t].to)
           /\ UNCHANGED <<attrs, version, quiet>>
<1>1. /\ thread[t].pc = "invalidating1" /\ thread[t].op = "rename"
      /\ thread' = [thread EXCEPT ![t].pc = "invalidating2"]
      /\ cache' = Invalidated(thread[t].to)
      /\ UNCHANGED <<attrs, version, quiet>>
  BY DEF InvalidateTo
<1>2. thread[t].to \in Paths
  BY <1>1 DEF TypeInv, RunOK
<1>. QED
  BY <1>1, <1>2, GoOnStep DEF TypeInv

LEMMA InvalidateSteps ==
    ASSUME TypeInv, NEW t \in Threads, Invalidate(t)
    PROVE  /\ thread[t].pc \in {"invalidating1", "invalidating2"}
           /\ thread[t].op = "rename" => thread[t].pc = "invalidating2"
           /\ thread[t].op \in InvalidatingLast /\ thread[t].path \in Paths
           /\ Ends(t) /\ cache' = Invalidated(thread[t].path) /\ quiet' = Quieted(t)
           /\ UNCHANGED <<attrs, version>>
<1>1. /\ thread[t].pc \in {"invalidating1", "invalidating2"}
      /\ thread[t].op = "rename" => thread[t].pc = "invalidating2"
      /\ thread' = [thread EXCEPT ![t] = Idle]
      /\ cache' = Invalidated(thread[t].path) /\ quiet' = Quieted(t)
      /\ UNCHANGED <<attrs, version>>
  BY DEF Invalidate
<1>2. thread[t].op \in InvalidatingLast /\ thread[t].path \in Paths
  BY <1>1 DEF TypeInv, RunOK
<1>. QED
  BY <1>1, <1>2, EndStep DEF TypeInv

-----------------------------------------------------------------------------
(* Type correctness.                                                       *)

LEMMA InitTyped == Init => TypeInv
<1>. SUFFICES ASSUME Init PROVE TypeInv
  OBVIOUS
<1>1. \A t \in Threads : thread[t] = Idle
  BY DEF Init
<1>2. \A t \in Threads : RunOK(thread[t])
  BY <1>1, IdleTyped DEF RunOK
<1>3. attrs \in [Paths -> Nat]
  BY DEF Init, NoOutput
<1>4. TypeOK
  BY <1>3, IdleTyped, NoEntryTyped, Types DEF Init
<1>. QED
  BY <1>2, <1>4 DEF TypeInv

LEMMA BeginsTyped ==
    ASSUME TypeInv, NEW t \in Threads, NEW op \in Lookups \cup Changing, NEW p \in Paths,
           NEW to, NEW pc \in {"fetching", "changing"}, NEW clean, NEW ps,
           Begins(t, op, p, to, pc, clean, ps),
           pc = "fetching" => Looked(op, p) \in Paths,
           pc = "changing" => op \in Changing,
           op = "rename" => to \in Paths
    PROVE  /\ thread' \in [Threads -> ThreadState]
           /\ \A u \in Threads : RunOK(thread'[u])
<1>1. RunOK(thread'[t])
  BY DEF Begins, RunOK
<1>2. ASSUME NEW u \in Threads \ {t} PROVE RunOK(thread'[u])
  <2>1. RunOK(thread[u])
    BY DEF TypeInv
  <2>2. /\ thread'[u].pc = thread[u].pc /\ thread'[u].op = thread[u].op
        /\ thread'[u].path = thread[u].path /\ thread'[u].to = thread[u].to
    BY DEF Begins
  <2>. QED
    BY <2>1, <2>2 DEF RunOK
<1>. QED
  BY <1>1, <1>2 DEF Begins

LEMMA GoesTyped ==
    ASSUME TypeInv, NEW t \in Threads, NEW pc, Goes(t, pc),
           pc = "putting" => thread[t].pc = "fetching",
           pc \in {"changing", "invalidating1", "invalidating2"} => thread[t].op \in Changing,
           pc \in {"invalidating1", "invalidating2"} => thread[t].op \in InvalidatingLast,
           pc = "invalidating2" => thread[t].op = "rename",
           pc \in {"putting", "changing", "invalidating1", "invalidating2"}
    PROVE  /\ thread' \in [Threads -> ThreadState]
           /\ \A u \in Threads : RunOK(thread'[u])
<1>1. RunOK(thread'[t])
  <2>1. RunOK(thread[t])
    BY DEF TypeInv
  <2>. QED
    BY <2>1 DEF Goes, RunOK
<1>. QED
  BY <1>1 DEF Goes, TypeInv

LEMMA EndsTyped ==
    ASSUME TypeInv, NEW t \in Threads, Ends(t)
    PROVE  /\ thread' \in [Threads -> ThreadState]
           /\ \A u \in Threads : RunOK(thread'[u])
  BY DEF Ends, TypeInv, RunOK

LEMMA QuietedIn ==
    ASSUME TypeInv, NEW t \in Threads, thread[t].pc # "idle"
    PROVE  Quieted(t) \subseteq Paths
<1>1. RunOK(thread[t]) /\ quiet \subseteq Paths
  BY DEF TypeInv, TypeOK
<1>. QED
  BY <1>1, NamedPaths DEF Quieted

LEMMA NextTyped == TypeInv /\ [Next]_vars => TypeInv'
<1>. SUFFICES ASSUME TypeInv, [Next]_vars
              PROVE  /\ attrs' \in [Paths -> Nat] /\ cache' \in [Paths -> Entries]
                     /\ version' \in Nat /\ quiet' \subseteq Paths
                     /\ thread' \in [Threads -> ThreadState]
                     /\ \A u \in Threads : RunOK(thread'[u])
  BY DEF TypeInv, TypeOK, ThreadState, Entries
<1>. USE DEF Changing
<1>0. /\ attrs \in [Paths -> Nat] /\ cache \in [Paths -> Entries]
      /\ version \in Nat /\ quiet \subseteq Paths /\ TypeOK
      /\ thread \in [Threads -> ThreadState]
      /\ \A u \in Threads : RunOK(thread[u])
  BY Types DEF TypeInv
<1>1. ASSUME NEW t \in Threads, NEW op \in Lookups, NEW p \in Paths, Lookup(t, op, p)
      PROVE  /\ attrs' \in [Paths -> Nat] /\ cache' \in [Paths -> Entries]
             /\ version' \in Nat /\ quiet' \subseteq Paths
             /\ thread' \in [Threads -> ThreadState]
             /\ \A u \in Threads : RunOK(thread'[u])
  <2>1. /\ Begins(t, op, p, None, "fetching", TRUE, {p})
        /\ UNCHANGED <<attrs, cache, version, quiet>>
    BY <1>1, LookupSteps
  <2>2. Looked(op, p) \in Paths /\ op # "rename"
    BY <1>1, LookupTouches DEF Lookups
  <2>. QED
    BY <1>0, <2>1, <2>2, BeginsTyped
<1>2. ASSUME NEW t \in Threads, NEW op \in Changes, NEW p \in Paths,
             NEW to \in Paths \cup {None}, ChangeBegin(t, op, p, to)
      PROVE  /\ attrs' \in [Paths -> Nat] /\ cache' \in [Paths -> Entries]
             /\ version' \in Nat /\ quiet' \subseteq Paths
             /\ thread' \in [Threads -> ThreadState]
             /\ \A u \in Threads : RunOK(thread'[u])
  <2>1. op \in Changing
    BY WorkloadAssumption
  <2>2. PICK pc \in {"fetching", "changing"}, clean \in BOOLEAN :
           Starts(t, op, p, to, pc, clean)
    BY <1>2, <2>1, ChangeSteps
  <2>3. cache' \in [Paths -> Entries]
    BY <1>0, <2>2, InvalidateStep DEF Starts
  <2>4. attrs' = attrs /\ version' = version /\ quiet' \subseteq quiet
    BY <2>2 DEF Starts
  <2>5. /\ thread' \in [Threads -> ThreadState]
        /\ \A u \in Threads : RunOK(thread'[u])
    <3>1. /\ op = "rename" => to \in Paths
          /\ pc = "fetching" => Looked(op, p) \in Paths
          /\ \E ps : Begins(t, op, p, to, pc, clean, ps)
      BY <2>2 DEF Starts
    <3>2. PICK ps : Begins(t, op, p, to, pc, clean, ps)
      BY <3>1
    <3>. QED
      BY <2>1, <3>1, <3>2, BeginsTyped
  <2>. QED
    BY <1>0, <2>3, <2>4, <2>5
<1>3. ASSUME NEW t \in Threads, Step(t)
      PROVE  /\ attrs' \in [Paths -> Nat] /\ cache' \in [Paths -> Entries]
             /\ version' \in Nat /\ quiet' \subseteq Paths
             /\ thread' \in [Threads -> ThreadState]
             /\ \A u \in Threads : RunOK(thread'[u])
  <2>1. CASE Fetch(t)
    BY <1>0, <2>1, FetchSteps, GoesTyped
  <2>2. CASE Put(t)
    <3>1. Puts(t)
      BY <2>2, PutSteps
    <3>2. /\ thread' \in [Threads -> ThreadState]
          /\ \A u \in Threads : RunOK(thread'[u])
      BY <3>1, GoesTyped, EndsTyped DEF Puts
    <3>. QED
      BY <1>0, <3>1, <3>2 DEF Puts
  <2>3. CASE Change(t)
    <3>1. DoesChange(t) /\ thread[t].pc # "idle"
      BY <2>3, ChangeDone DEF DoesChange
    <3>2. /\ thread' \in [Threads -> ThreadState]
          /\ \A u \in Threads : RunOK(thread'[u])
      BY <3>1, GoesTyped, EndsTyped DEF DoesChange
    <3>. QED
      BY <1>0, <3>1, <3>2, QuietedIn DEF DoesChange
  <2>4. CASE Cut(t)
    <3>1. /\ thread' \in [Threads -> ThreadState]
          /\ \A u \in Threads : RunOK(thread'[u])
      BY <2>4, CutSteps, GoesTyped, EndsTyped
    <3>. QED
      BY <1>0, <2>4, <3>1, CutSteps
  <2>5. CASE InvalidateTo(t)
    <3>1. /\ thread' \in [Threads -> ThreadState]
          /\ \A u \in Threads : RunOK(thread'[u])
      <4>1. thread[t].op \in InvalidatingLast /\ Goes(t, "invalidating2")
            /\ thread[t].op = "rename"
        BY <2>5, InvalidateToSteps DEF InvalidatingLast
      <4>. QED
        BY <4>1, GoesTyped
    <3>2. /\ thread[t].to \in Paths /\ cache' = Invalidated(thread[t].to)
          /\ UNCHANGED <<attrs, version, quiet>>
      BY <2>5, InvalidateToSteps
    <3>. QED
      BY <1>0, <3>1, <3>2, InvalidateStep
  <2>6. CASE Invalidate(t)
    <3>1. /\ thread[t].pc # "idle" /\ thread[t].path \in Paths
          /\ Ends(t) /\ cache' = Invalidated(thread[t].path) /\ quiet' = Quieted(t)
          /\ UNCHANGED <<attrs, version>>
      BY <2>6, InvalidateSteps
    <3>. QED
      BY <1>0, <3>1, EndsTyped, QuietedIn, InvalidateStep
  <2>. QED
    BY <1>3, <2>1, <2>2, <2>3, <2>4, <2>5, <2>6 DEF Step
<1>4. CASE Tick
  BY <1>0, <1>4, TickStep
<1>5. CASE UNCHANGED vars
  BY <1>0, <1>5 DEF vars
<1>. QED
  BY <1>1, <1>2, <1>3, <1>4, <1>5 DEF Next, Lookups

\* The variables keep their types: what a callback looks up is a path, and the cache
\* holds what commands have printed.
THEOREM TypeCorrect == Spec => []TypeOK
<1>1. TypeInv => TypeOK
  BY DEF TypeInv
<1>. QED
  BY <1>1, InitTyped, NextTyped, PTL DEF Spec

-----------------------------------------------------------------------------
(* Callbacks that nothing overlapped.                                      *)

\* No callback starts, and none changes its paths.
LEMMA AloneKept ==
    ASSUME AloneInv, NEW t \in Threads, Ends(t) \/ \E pc : Goes(t, pc)
    PROVE  AloneInv'
<1>1. /\ \A u \in Threads \ {t} : thread'[u] = thread[u]
      /\ \/ thread'[t].pc = "idle"
         \/ /\ thread[t].pc # "idle" /\ thread'[t].op = thread[t].op
            /\ thread'[t].path = thread[t].path /\ thread'[t].to = thread[t].to
            /\ thread'[t].clean = thread[t].clean
  BY DEF Ends, Goes
<1>2. ASSUME NEW u \in Threads, thread'[u].pc # "idle"
      PROVE  /\ thread[u].pc # "idle" /\ thread'[u].op = thread[u].op
             /\ thread'[u].path = thread[u].path /\ thread'[u].to = thread[u].to
             /\ thread'[u].clean = thread[u].clean
  BY <1>1, <1>2
<1>3. ASSUME NEW u \in Threads, NEW v \in Threads,
             u # v, thread'[u].pc # "idle", thread'[v].pc # "idle",
             thread'[u].op \in Changing, thread'[u].clean
      PROVE  Named(thread'[u].op, thread'[u].path, thread'[u].to)
             \cap Touched(thread'[v]) = {}
  <2>1. Named(thread[u].op, thread[u].path, thread[u].to) \cap Touched(thread[v]) = {}
    BY <1>2, <1>3 DEF AloneInv
  <2>2. Touched(thread'[v]) = Touched(thread[v])
    BY <1>2, <1>3 DEF Touched
  <2>. QED
    BY <1>2, <1>3, <2>1, <2>2
<1>. QED
  BY <1>3 DEF AloneInv

\* A callback that starts marks those it overlaps, and is marked by those that run.
LEMMA AloneBegins ==
    ASSUME TypeInv, AloneInv, NEW t \in Threads, NEW op, NEW p, NEW to, NEW pc, NEW clean,
           NEW ps, Begins(t, op, p, to, pc, clean, ps),
           Paths \cap Touches(op, p, to) \subseteq ps,
           op \in Changing /\ clean =>
              \A u \in Threads : ~Concerns(thread[u], Named(op, p, to))
    PROVE  AloneInv'
<1>1. ASSUME NEW u \in Threads \ {t}
      PROVE  /\ thread'[u].pc = thread[u].pc /\ thread'[u].op = thread[u].op
             /\ thread'[u].path = thread[u].path /\ thread'[u].to = thread[u].to
             /\ thread'[u].clean => thread[u].clean /\ ~Concerns(thread[u], ps)
             /\ Touched(thread'[u]) = Touched(thread[u])
  BY DEF Begins, Touched
<1>2. /\ thread'[t].op = op /\ thread'[t].path = p /\ thread'[t].to = to
      /\ thread'[t].clean = clean /\ Touched(thread'[t]) = Touches(op, p, to)
  BY DEF Begins, Touched
<1>3. ASSUME NEW u \in Threads, NEW v \in Threads,
             u # v, thread'[u].pc # "idle", thread'[v].pc # "idle",
             thread'[u].op \in Changing, thread'[u].clean
      PROVE  Named(thread'[u].op, thread'[u].path, thread'[u].to)
             \cap Touched(thread'[v]) = {}
  <2>1. CASE u = t
    <3>1. ~Concerns(thread[v], Named(op, p, to)) /\ thread[v].pc # "idle"
      BY <1>1, <1>2, <1>3, <2>1
    <3>2. Named(op, p, to) \cap Touched(thread[v]) = {}
      BY <3>1 DEF Concerns, Touched, Touches
    <3>. QED
      BY <1>1, <1>2, <1>3, <2>1, <3>2
  <2>2. CASE v = t
    <3>. DEFINE named == Named(thread[u].op, thread[u].path, thread[u].to)
    <3>1. ~Concerns(thread[u], ps) /\ thread[u].pc # "idle"
      BY <1>1, <1>3, <2>2
    <3>2. named \cap ps = {}
      BY <3>1 DEF Concerns
    <3>3. named \subseteq Paths
      BY <3>1, NamedPaths DEF TypeInv
    <3>4. named \cap Touches(op, p, to) = {}
      BY <3>2, <3>3
    <3>. QED
      BY <1>1, <1>2, <1>3, <2>2, <3>4
  <2>3. CASE u # t /\ v # t
    <3>1. Named(thread[u].op, thread[u].path, thread[u].to) \cap Touched(thread[v]) = {}
      BY <1>1, <1>3, <2>3 DEF AloneInv
    <3>. QED
      BY <1>1, <1>3, <2>3, <3>1
  <2>. QED
    BY <2>1, <2>2, <2>3
<1>. QED
  BY <1>3 DEF AloneInv

LEMMA LookupAlone ==
    ASSUME TypeInv, AloneInv, NEW t \in Threads, NEW op \in Lookups, NEW p \in Paths,
           Lookup(t, op, p)
    PROVE  AloneInv'
<1>1. Begins(t, op, p, None, "fetching", TRUE, {p})
  BY LookupSteps
<1>2. Touches(op, p, None) = {p} /\ op \notin Changing
  BY LookupTouches
     DEF Touches, Lookups, Changing, InvalidatingFirst, InvalidatingLast
<1>. QED
  BY <1>1, <1>2, AloneBegins

LEMMA StartAlone ==
    ASSUME TypeInv, AloneInv, NEW t \in Threads, NEW op \in Changing, NEW p \in Paths,
           NEW to, NEW pc, NEW clean, Starts(t, op, p, to, pc, clean)
    PROVE  AloneInv'
<1>. DEFINE ps == Named(op, p, to) \cup Affected(op, p, to) \cup ({Looked(op, p)} \ {None})
<1>1. Paths \cap Touches(op, p, to) \subseteq ps
  BY PathsAssumption DEF Touches
<1>2. Begins(t, op, p, to, pc, clean, ps)
  BY DEF Starts
<1>3. clean => \A u \in Threads : ~Concerns(thread[u], Named(op, p, to))
  BY DEF Starts
<1>. HIDE DEF ps
<1>. QED
  BY <1>1, <1>2, <1>3, AloneBegins

\* The steps that end a callback or go on in it.
LEMMA StepMoves ==
    ASSUME TypeInv, NEW t \in Threads, Step(t)
    PROVE  Ends(t) \/ \E pc : Goes(t, pc)
<1>1. CASE Fetch(t)
  BY <1>1, FetchSteps
<1>2. CASE Put(t)
  BY <1>2, PutSteps DEF Puts
<1>3. CASE Change(t)
  BY <1>3, ChangeDone DEF DoesChange
<1>4. CASE Cut(t) \/ InvalidateTo(t) \/ Invalidate(t)
  BY <1>4, CutSteps, InvalidateToSteps, InvalidateSteps
<1>. QED
  BY <1>1, <1>2, <1>3, <1>4 DEF Step

LEMMA NextAlone == TypeInv /\ AloneInv /\ [Next]_vars => AloneInv'
<1>. SUFFICES ASSUME TypeInv, AloneInv, [Next]_vars PROVE AloneInv'
  OBVIOUS
<1>1. ASSUME NEW t \in Threads, NEW op \in Changes, NEW p \in Paths,
             NEW to \in Paths \cup {None}, ChangeBegin(t, op, p, to)
      PROVE  AloneInv'
  <2>1. op \in Changing
    BY WorkloadAssumption DEF Changing
  <2>. QED
    BY <1>1, <2>1, ChangeSteps, StartAlone
<1>2. CASE Tick \/ UNCHANGED vars
  BY <1>2 DEF Tick, vars, AloneInv
<1>. QED
  BY <1>1, <1>2, LookupAlone, StepMoves, AloneKept DEF Next, Lookups

\* A path that a callback invalidates first is another than what it changes last.
LEMMA FirstOrLast ==
    /\ \A op \in InvalidatingLast : op \notin InvalidatingFirst /\ op \in Changing
    /\ \A op \in InvalidatingFirst : op # "rename" /\ op \in Changing
    /\ \A op \in Lookups : op \notin Changing
  BY DEF InvalidatingFirst, InvalidatingLast, Changing, Lookups

\* What EmptyInv says of one thread.
EmptyAt(r, c) ==
    r.pc # "idle" /\ r.clean =>
    /\ r.op \in InvalidatingFirst => Nothing(c[r.path])
    /\ r.pc = "invalidating2" => Nothing(c[r.to])

LEMMA EmptyParts == EmptyInv <=> \A t \in Threads : EmptyAt(thread[t], cache)
  BY DEF EmptyInv, EmptyAt

LEMMA EmptyKept ==
    ASSUME TypeInv, NEW r, NEW s, RunOK(s), EmptyAt(s, cache),
           r.pc = s.pc \/ r.pc = "idle", r.op = s.op, r.path = s.path, r.to = s.to,
           r.clean => s.clean, NEW c,
           \A q \in Paths : Nothing(cache[q]) => Nothing(c[q])
    PROVE  EmptyAt(r, c)
<1>. SUFFICES ASSUME r.pc # "idle", r.clean
              PROVE  /\ r.op \in InvalidatingFirst => Nothing(c[r.path])
                     /\ r.pc = "invalidating2" => Nothing(c[r.to])
  BY DEF EmptyAt
<1>1. /\ r.op \in InvalidatingFirst => Nothing(cache[r.path])
      /\ r.pc = "invalidating2" => Nothing(cache[r.to])
  BY DEF EmptyAt
<1>2. r.path \in Paths /\ (r.pc = "invalidating2" => r.to \in Paths)
  BY DEF RunOK
<1>. QED
  BY <1>1, <1>2

\* A step that goes on or ends and puts nothing into the cache.
LEMMA MoveEmpty ==
    ASSUME TypeInv, EmptyInv, NEW t \in Threads, Ends(t) \/ \E pc : Goes(t, pc),
           thread'[t].pc = "invalidating2" => Nothing(cache'[thread[t].to]),
           \A q \in Paths : Nothing(cache[q]) => Nothing(cache'[q])
    PROVE  EmptyInv'
<1>1. \A u \in Threads : RunOK(thread[u]) /\ EmptyAt(thread[u], cache)
  BY EmptyParts DEF TypeInv
<1>2. ASSUME NEW u \in Threads \ {t} PROVE EmptyAt(thread'[u], cache')
  <2>1. thread'[u] = thread[u]
    BY DEF Ends, Goes
  <2>. QED
    BY <1>1, <2>1, EmptyKept
<1>3. EmptyAt(thread'[t], cache')
  <2>1. CASE Ends(t)
    BY <2>1 DEF Ends, EmptyAt
  <2>2. CASE \E pc : Goes(t, pc)
    <3>1. /\ thread[t].pc # "idle" /\ thread'[t].op = thread[t].op
          /\ thread'[t].path = thread[t].path /\ thread'[t].to = thread[t].to
          /\ thread'[t].clean = thread[t].clean
      BY <2>2 DEF Goes
    <3>2. thread[t].path \in Paths
      BY <1>1, <3>1 DEF RunOK
    <3>3. thread[t].clean /\ thread[t].op \in InvalidatingFirst =>
             Nothing(cache'[thread[t].path])
      BY <1>1, <3>1, <3>2 DEF EmptyAt
    <3>. QED
      BY <3>1, <3>3 DEF EmptyAt
  <2>. QED
    BY <2>1, <2>2
<1>. QED
  BY <1>2, <1>3 DEF EmptyInv, EmptyAt

LEMMA BeginsEmpty ==
    ASSUME TypeInv, EmptyInv, NEW t \in Threads, NEW op, NEW p, NEW to,
           NEW pc \in {"fetching", "changing"}, NEW clean, NEW ps,
           Begins(t, op, p, to, pc, clean, ps),
           op \in InvalidatingFirst => Nothing(cache'[p]),
           \A q \in Paths : Nothing(cache[q]) => Nothing(cache'[q])
    PROVE  EmptyInv'
<1>1. \A u \in Threads : RunOK(thread[u]) /\ EmptyAt(thread[u], cache)
  BY EmptyParts DEF TypeInv
<1>2. ASSUME NEW u \in Threads \ {t} PROVE EmptyAt(thread'[u], cache')
  <2>1. /\ thread'[u].pc = thread[u].pc /\ thread'[u].op = thread[u].op
        /\ thread'[u].path = thread[u].path /\ thread'[u].to = thread[u].to
        /\ thread'[u].clean => thread[u].clean
    BY DEF Begins
  <2>. QED
    BY <1>1, <2>1, EmptyKept
<1>3. EmptyAt(thread'[t], cache')
  BY DEF Begins, EmptyAt
<1>. QED
  BY <1>2, <1>3 DEF EmptyInv, EmptyAt

\* Nobody puts an answer into the cache for a path that a callback has invalidated
\* which nothing overlapped: not that callback itself, which asks for the directory.
LEMMA PutEmpty ==
    ASSUME TypeInv, AloneInv, EmptyInv, NEW t \in Threads, Puts(t)
    PROVE  EmptyInv'
<1>. DEFINE p == Looked(thread[t].op, thread[t].path)
<1>1. /\ thread[t].pc = "putting" /\ p \in Paths
      /\ \A q \in Paths \ {p} : cache'[q] = cache[q]
      /\ \A u \in Threads \ {t} : thread'[u] = thread[u]
  BY DEF Puts, Ends, Goes
<1>2. ASSUME NEW u \in Threads, thread'[u].pc # "idle", thread'[u].clean
      PROVE  /\ thread'[u].op \in InvalidatingFirst => Nothing(cache'[thread'[u].path])
             /\ thread'[u].pc = "invalidating2" => Nothing(cache'[thread'[u].to])
  <2>1. CASE u = t
    <3>1. /\ thread'[t].pc = "changing" /\ thread'[t].op = thread[t].op
          /\ thread'[t].path = thread[t].path /\ thread[t].clean
      BY <1>2, <2>1 DEF Puts, Ends, Goes
    <3>2. thread[t].path \in Paths
      BY <1>1 DEF TypeInv, RunOK
    <3>3. thread[t].op \in InvalidatingFirst => thread[t].path # p
      BY <3>2, FirstOrLast, LookedPaths
    <3>4. thread[t].op \in InvalidatingFirst => Nothing(cache[thread[t].path])
      BY <1>1, <3>1 DEF EmptyInv
    <3>5. thread[t].op \in InvalidatingFirst => Nothing(cache'[thread[t].path])
      BY <1>1, <3>2, <3>3, <3>4
    <3>. QED
      BY <2>1, <3>1, <3>5
  <2>2. CASE u # t
    <3>. DEFINE named == Named(thread[u].op, thread[u].path, thread[u].to)
    <3>1. thread'[u] = thread[u] /\ thread[u].pc # "idle" /\ thread[u].clean
          /\ RunOK(thread[u])
      BY <1>1, <1>2, <2>2 DEF TypeInv
    <3>2. thread[u].op \in Changing => p \notin named
      BY <1>1, <2>2, <3>1 DEF AloneInv, Touched, Touches
    <3>3. /\ thread[u].path \in Paths \cap named
          /\ thread[u].pc = "invalidating2" =>
                thread[u].to \in Paths \cap named /\ thread[u].op \in Changing
      BY <3>1 DEF RunOK, Named
    <3>4. CASE thread[u].op \in InvalidatingFirst
      <4>1. thread[u].path # p /\ thread[u].pc # "invalidating2"
        BY <3>1, <3>2, <3>3, <3>4, FirstOrLast DEF RunOK
      <4>2. Nothing(cache[thread[u].path])
        BY <3>1, <3>4 DEF EmptyInv
      <4>. QED
        BY <1>1, <3>1, <3>3, <4>1, <4>2
    <3>5. CASE thread[u].pc = "invalidating2"
      <4>1. thread[u].to # p /\ thread[u].op \notin InvalidatingFirst
        BY <3>1, <3>2, <3>3, <3>5, FirstOrLast DEF RunOK
      <4>2. Nothing(cache[thread[u].to])
        BY <3>1, <3>5 DEF EmptyInv
      <4>. QED
        BY <1>1, <3>1, <3>3, <3>5, <4>1, <4>2
    <3>. QED
      BY <3>1, <3>4, <3>5
  <2>. QED
    BY <2>1, <2>2
<1>. QED
  BY <1>2 DEF EmptyInv

LEMMA NextEmpty == TypeInv /\ AloneInv /\ EmptyInv /\ [Next]_vars => EmptyInv'
<1>. SUFFICES ASSUME TypeInv, AloneInv, EmptyInv, [Next]_vars PROVE EmptyInv'
  OBVIOUS
<1>0. TypeOK
  BY DEF TypeInv
<1>1. ASSUME NEW t \in Threads, NEW op \in Lookups, NEW p \in Paths, Lookup(t, op, p)
      PROVE  EmptyInv'
  <2>1. Begins(t, op, p, None, "fetching", TRUE, {p}) /\ UNCHANGED cache
    BY <1>1, LookupSteps
  <2>2. op \notin InvalidatingFirst
    BY FirstOrLast
  <2>. QED
    BY <2>1, <2>2, BeginsEmpty
<1>2. ASSUME NEW t \in Threads, NEW op \in Changes, NEW p \in Paths,
             NEW to \in Paths \cup {None}, ChangeBegin(t, op, p, to)
      PROVE  EmptyInv'
  <2>1. op \in Changing
    BY WorkloadAssumption DEF Changing
  <2>2. PICK pc \in {"fetching", "changing"}, clean \in BOOLEAN :
           Starts(t, op, p, to, pc, clean)
    BY <1>2, <2>1, ChangeSteps
  <2>3. /\ op \in InvalidatingFirst => Nothing(cache'[p])
        /\ \A q \in Paths : Nothing(cache[q]) => Nothing(cache'[q])
    BY <1>0, <2>2, InvalidateStep DEF Starts
  <2>4. PICK ps : Begins(t, op, p, to, pc, clean, ps)
    BY <2>2 DEF Starts
  <2>. QED
    BY <2>3, <2>4, BeginsEmpty
<1>3. ASSUME NEW t \in Threads, Step(t) PROVE EmptyInv'
  <2>0. Ends(t) \/ \E pc : Goes(t, pc)
    BY <1>3, StepMoves
  <2>1. CASE Fetch(t)
    <3>1. UNCHANGED cache /\ thread'[t].pc = "putting"
      BY <2>1, FetchSteps DEF Goes
    <3>. QED
      BY <2>0, <3>1, MoveEmpty
  <2>2. CASE Put(t)
    BY <2>2, PutSteps, PutEmpty
  <2>3. CASE Change(t)
    <3>1. UNCHANGED cache /\ thread'[t].pc # "invalidating2"
      BY <2>3, ChangeDone DEF DoesChange, Goes, Ends
    <3>. QED
      BY <2>0, <3>1, MoveEmpty
  <2>4. CASE Cut(t)
    <3>1. UNCHANGED cache /\ thread'[t].pc # "invalidating2"
      BY <2>4, CutSteps DEF Goes, Ends
    <3>. QED
      BY <2>0, <3>1, MoveEmpty
  <2>5. CASE InvalidateTo(t)
    <3>1. /\ Nothing(cache'[thread[t].to])
          /\ \A q \in Paths : Nothing(cache[q]) => Nothing(cache'[q])
      BY <1>0, <2>5, InvalidateToSteps, InvalidateStep
    <3>. QED
      BY <2>0, <3>1, MoveEmpty
  <2>6. CASE Invalidate(t)
    <3>1. \A q \in Paths : Nothing(cache[q]) => Nothing(cache'[q])
      BY <1>0, <2>6, InvalidateSteps, InvalidateStep
    <3>2. thread'[t].pc = "idle"
      BY <2>6, InvalidateSteps DEF Ends
    <3>. QED
      BY <2>0, <3>1, <3>2, MoveEmpty
  <2>. QED
    BY <1>3, <2>1, <2>2, <2>3, <2>4, <2>5, <2>6 DEF Step
<1>4. CASE Tick
  <2>1. /\ UNCHANGED thread
        /\ \A q \in Paths : Nothing(cache[q]) => Nothing(cache'[q])
    BY <1>0, <1>4, TickStep DEF Nothing
  <2>2. \A u \in Threads : EmptyAt(thread[u], cache')
    BY <2>1, EmptyParts, EmptyKept DEF TypeInv
  <2>. QED
    BY <2>1, <2>2 DEF EmptyInv, EmptyAt
<1>5. CASE UNCHANGED vars
  BY <1>5 DEF vars, EmptyInv
<1>. QED
  BY <1>1, <1>2, <1>3, <1>4, <1>5 DEF Next, Lookups

-----------------------------------------------------------------------------
(* Quiet paths.                                                            *)

\* What QuietInv says of the cache, and of one thread.
EntryQuiet(p, e, a) == e.stat \in {None, Lost, a} /\ e.link \in {None, Lost, a}

RunQuiet(p, r, a) ==
    r.pc # "idle" =>
    /\ r.op \in Changing => /\ p \notin Named(r.op, r.path, r.to)
                            /\ p \notin Affected(r.op, r.path, r.to)
    /\ r.pc = "putting" /\ Looked(r.op, r.path) = p => r.buf \in {Lost, a}

LEMMA QuietParts ==
    QuietInv <=> \A p \in quiet : /\ EntryQuiet(p, cache[p], attrs[p])
                                  /\ \A u \in Threads : RunQuiet(p, thread[u], attrs[p])
  BY DEF QuietInv, EntryQuiet, RunQuiet

LEMMA QuietPartsNext ==
    ASSUME \A p \in quiet' : /\ EntryQuiet(p, cache'[p], attrs'[p])
                             /\ \A u \in Threads : RunQuiet(p, thread'[u], attrs'[p])
    PROVE  QuietInv'
  BY DEF QuietInv, EntryQuiet, RunQuiet

LEMMA NothingQuiet ==
    ASSUME NEW p, NEW e, NEW a, Nothing(e)
    PROVE  EntryQuiet(p, e, a)
  BY DEF Nothing, EntryQuiet

\* A callback that starts concerns no path that stays quiet.
LEMMA BeginsQuiet ==
    ASSUME TypeInv, QuietInv, NEW t \in Threads, NEW op, NEW p, NEW to,
           NEW pc \in {"fetching", "changing"}, NEW clean, NEW ps,
           Begins(t, op, p, to, pc, clean, ps), UNCHANGED attrs, quiet' \subseteq quiet,
           op \in Changing => quiet' \cap (Named(op, p, to) \cup Affected(op, p, to)) = {},
           \A q \in Paths : cache'[q] = cache[q] \/ Nothing(cache'[q])
    PROVE  QuietInv'
<1>1. ASSUME NEW q \in quiet'
      PROVE  /\ EntryQuiet(q, cache'[q], attrs'[q])
             /\ \A u \in Threads : RunQuiet(q, thread'[u], attrs'[q])
  <2>1. /\ EntryQuiet(q, cache[q], attrs[q])
        /\ \A u \in Threads : RunQuiet(q, thread[u], attrs[q])
    BY <1>1, QuietParts
  <2>2. EntryQuiet(q, cache'[q], attrs'[q])
    BY <1>1, <2>1, NothingQuiet DEF TypeInv, TypeOK
  <2>3. RunQuiet(q, thread'[t], attrs'[q])
    BY <1>1 DEF Begins, RunQuiet
  <2>4. ASSUME NEW u \in Threads \ {t} PROVE RunQuiet(q, thread'[u], attrs'[q])
    <3>1. /\ thread'[u].pc = thread[u].pc /\ thread'[u].op = thread[u].op
          /\ thread'[u].path = thread[u].path /\ thread'[u].to = thread[u].to
          /\ thread'[u].buf = thread[u].buf
      BY DEF Begins
    <3>. QED
      BY <2>1, <3>1 DEF RunQuiet
  <2>. QED
    BY <2>2, <2>3, <2>4
<1>. QED
  BY <1>1, QuietPartsNext

\* A path that stays quiet while a callback goes on or ends.
LEMMA MoveQuiet ==
    ASSUME TypeInv, QuietInv, NEW t \in Threads, Ends(t) \/ \E pc : Goes(t, pc),
           NEW q \in quiet, attrs'[q] = attrs[q],
           thread'[t].pc = "putting" /\ Looked(thread[t].op, thread[t].path) = q
              => thread'[t].buf \in {Lost, attrs[q]}
    PROVE  \A u \in Threads : RunQuiet(q, thread'[u], attrs'[q])
<1>1. \A u \in Threads : RunQuiet(q, thread[u], attrs[q])
  BY QuietParts
<1>2. \A u \in Threads \ {t} : thread'[u] = thread[u]
  BY DEF Ends, Goes
<1>3. RunQuiet(q, thread'[t], attrs'[q])
  <2>1. CASE Ends(t)
    BY <2>1 DEF Ends, RunQuiet
  <2>2. CASE \E pc : Goes(t, pc)
    <3>1. /\ thread[t].pc # "idle" /\ thread'[t].op = thread[t].op
          /\ thread'[t].path = thread[t].path /\ thread'[t].to = thread[t].to
      BY <2>2 DEF Goes
    <3>. QED
      BY <1>1, <3>1 DEF RunQuiet
  <2>. QED
    BY <2>1, <2>2
<1>. QED
  BY <1>1, <1>2, <1>3

\* A path that becomes quiet when the callback ends that nothing overlapped: no other
\* callback touches it.
LEMMA QuietedRuns ==
    ASSUME TypeInv, AloneInv, NEW t \in Threads, Ends(t), thread[t].op \in Changing,
           NEW q \in Quieted(t), q \notin quiet
    PROVE  /\ thread[t].clean
           /\ q \in Named(thread[t].op, thread[t].path, thread[t].to)
           /\ \A u \in Threads : RunQuiet(q, thread'[u], attrs'[q])
<1>1. /\ thread[t].clean
      /\ q \in Named(thread[t].op, thread[t].path, thread[t].to)
  BY DEF Quieted
<1>2. RunQuiet(q, thread'[t], attrs'[q])
  BY DEF Ends, RunQuiet
<1>3. ASSUME NEW u \in Threads \ {t}, thread'[u].pc # "idle"
      PROVE  RunQuiet(q, thread'[u], attrs'[q])
  <2>1. thread'[u] = thread[u] /\ thread[t].pc # "idle"
    BY DEF Ends
  <2>2. q \notin Touched(thread[u])
    BY <1>1, <1>3, <2>1 DEF AloneInv
  <2>. QED
    BY <2>1, <2>2 DEF RunQuiet, Touched, Touches
<1>4. \A u \in Threads \ {t} : RunQuiet(q, thread'[u], attrs'[q])
  BY <1>3 DEF RunQuiet
<1>. QED
  BY <1>1, <1>2, <1>4

LEMMA FetchQuiet ==
    ASSUME TypeInv, QuietInv, NEW t \in Threads, Fetch(t)
    PROVE  QuietInv'
<1>1. /\ Goes(t, "putting") /\ UNCHANGED <<attrs, cache, quiet>>
      /\ thread'[t].buf \in {Lost, attrs[Looked(thread[t].op, thread[t].path)]}
  BY FetchSteps
<1>2. ASSUME NEW q \in quiet'
      PROVE  /\ EntryQuiet(q, cache'[q], attrs'[q])
             /\ \A u \in Threads : RunQuiet(q, thread'[u], attrs'[q])
  <2>1. EntryQuiet(q, cache[q], attrs[q]) /\ q \in quiet
    BY <1>1, <1>2, QuietParts
  <2>2. \A u \in Threads : RunQuiet(q, thread'[u], attrs'[q])
    BY <1>1, <2>1, MoveQuiet
  <2>. QED
    BY <1>1, <2>1, <2>2
<1>. QED
  BY <1>2, QuietPartsNext

LEMMA PutQuiet ==
    ASSUME TypeInv, QuietInv, NEW t \in Threads, Put(t)
    PROVE  QuietInv'
<1>. DEFINE p == Looked(thread[t].op, thread[t].path)
<1>1. Puts(t)
  BY PutSteps
<1>2. /\ Ends(t) \/ \E pc : Goes(t, pc)
      /\ thread'[t].pc # "putting" /\ UNCHANGED <<attrs, quiet>>
  BY <1>1 DEF Puts, Ends, Goes
<1>3. ASSUME NEW q \in quiet'
      PROVE  /\ EntryQuiet(q, cache'[q], attrs'[q])
             /\ \A u \in Threads : RunQuiet(q, thread'[u], attrs'[q])
  <2>1. /\ EntryQuiet(q, cache[q], attrs[q]) /\ q \in quiet /\ q \in Paths
        /\ RunQuiet(q, thread[t], attrs[q])
    BY <1>2, <1>3, QuietParts DEF TypeInv, TypeOK
  <2>2. \A u \in Threads : RunQuiet(q, thread'[u], attrs'[q])
    BY <1>2, <2>1, MoveQuiet
  <2>3. EntryQuiet(q, cache'[q], attrs[q])
    <3>1. CASE q = p
      <4>1. thread[t].buf \in {Lost, attrs[q]}
        BY <1>1, <2>1, <3>1 DEF Puts, RunQuiet
      <4>2. /\ cache'[q].stat \in {cache[q].stat, thread[t].buf}
            /\ cache'[q].link \in {cache[q].link, thread[t].buf}
        BY <1>1, <3>1 DEF Puts
      <4>. QED
        BY <2>1, <4>1, <4>2 DEF EntryQuiet
    <3>2. CASE q # p
      BY <1>1, <2>1, <3>2 DEF Puts
    <3>. QED
      BY <3>1, <3>2
  <2>. QED
    BY <1>2, <2>2, <2>3
<1>. QED
  BY <1>3, QuietPartsNext

LEMMA ChangeQuiet ==
    ASSUME TypeInv, AloneInv, EmptyInv, QuietInv, NEW t \in Threads, Change(t)
    PROVE  QuietInv'
<1>1. DoesChange(t)
  BY ChangeDone
<1>2. /\ Ends(t) \/ \E pc : Goes(t, pc)
      /\ thread'[t].pc # "putting" /\ thread[t].pc # "idle" /\ UNCHANGED cache
  BY <1>1 DEF DoesChange, Ends, Goes
<1>3. ASSUME NEW q \in quiet
      PROVE  /\ EntryQuiet(q, cache'[q], attrs'[q])
             /\ \A u \in Threads : RunQuiet(q, thread'[u], attrs'[q])
  <2>1. /\ EntryQuiet(q, cache[q], attrs[q]) /\ q \in Paths
        /\ RunQuiet(q, thread[t], attrs[q])
    BY QuietParts DEF TypeInv, TypeOK
  <2>2. attrs'[q] = attrs[q]
    BY <1>1, <2>1 DEF DoesChange, RunQuiet
  <2>3. \A u \in Threads : RunQuiet(q, thread'[u], attrs'[q])
    BY <1>2, <2>2, MoveQuiet
  <2>. QED
    BY <1>2, <2>1, <2>2, <2>3
<1>4. ASSUME NEW q \in quiet', q \notin quiet
      PROVE  /\ EntryQuiet(q, cache'[q], attrs'[q])
             /\ \A u \in Threads : RunQuiet(q, thread'[u], attrs'[q])
  <2>1. /\ thread[t].op \in InvalidatingFirst /\ thread[t].op \in Changing
        /\ Ends(t) /\ q \in Quieted(t)
    BY <1>1, <1>4 DEF DoesChange
  <2>2. /\ thread[t].clean
        /\ q \in Named(thread[t].op, thread[t].path, thread[t].to)
        /\ \A u \in Threads : RunQuiet(q, thread'[u], attrs'[q])
    BY <1>4, <2>1, QuietedRuns
  <2>3. q = thread[t].path
    BY <2>1, <2>2, FirstOrLast DEF Named
  <2>4. Nothing(cache[q])
    BY <1>2, <2>1, <2>2, <2>3 DEF EmptyInv
  <2>. QED
    BY <1>2, <2>2, <2>4, NothingQuiet
<1>. QED
  BY <1>3, <1>4, QuietPartsNext

LEMMA CutQuiet ==
    ASSUME TypeInv, QuietInv, NEW t \in Threads, Cut(t) \/ InvalidateTo(t)
    PROVE  QuietInv'
<1>1. /\ Ends(t) \/ \E pc : Goes(t, pc)
      /\ thread'[t].pc # "putting" /\ UNCHANGED <<attrs, quiet>>
  BY CutSteps, InvalidateToSteps DEF Ends, Goes
<1>2. \A q \in Paths : cache'[q] = cache[q] \/ Nothing(cache'[q])
  BY CutSteps, InvalidateToSteps, InvalidateStep DEF TypeInv
<1>3. ASSUME NEW q \in quiet'
      PROVE  /\ EntryQuiet(q, cache'[q], attrs'[q])
             /\ \A u \in Threads : RunQuiet(q, thread'[u], attrs'[q])
  <2>1. EntryQuiet(q, cache[q], attrs[q]) /\ q \in quiet /\ q \in Paths
    BY <1>1, <1>3, QuietParts DEF TypeInv, TypeOK
  <2>2. \A u \in Threads : RunQuiet(q, thread'[u], attrs'[q])
    BY <1>1, <2>1, MoveQuiet
  <2>. QED
    BY <1>1, <1>2, <2>1, <2>2, NothingQuiet
<1>. QED
  BY <1>3, QuietPartsNext

LEMMA InvalidateQuiet ==
    ASSUME TypeInv, AloneInv, EmptyInv, QuietInv, NEW t \in Threads, Invalidate(t)
    PROVE  QuietInv'
<1>1. /\ thread[t].op = "rename" => thread[t].pc = "invalidating2"
      /\ thread[t].pc # "idle" /\ thread[t].op \in Changing /\ thread[t].path \in Paths
      /\ Ends(t) /\ cache' = Invalidated(thread[t].path) /\ quiet' = Quieted(t)
      /\ UNCHANGED attrs
  BY InvalidateSteps, FirstOrLast
<1>2. /\ Nothing(cache'[thread[t].path])
      /\ \A q \in Paths : cache'[q] = cache[q] \/ Nothing(cache'[q])
  BY <1>1, InvalidateStep DEF TypeInv
<1>3. ASSUME NEW q \in quiet
      PROVE  /\ EntryQuiet(q, cache'[q], attrs'[q])
             /\ \A u \in Threads : RunQuiet(q, thread'[u], attrs'[q])
  <2>1. EntryQuiet(q, cache[q], attrs[q]) /\ q \in Paths
    BY QuietParts DEF TypeInv, TypeOK
  <2>2. \A u \in Threads : RunQuiet(q, thread'[u], attrs'[q])
    BY <1>1, MoveQuiet DEF Ends
  <2>. QED
    BY <1>1, <1>2, <2>1, <2>2, NothingQuiet
<1>4. ASSUME NEW q \in quiet', q \notin quiet
      PROVE  /\ EntryQuiet(q, cache'[q], attrs'[q])
             /\ \A u \in Threads : RunQuiet(q, thread'[u], attrs'[q])
  <2>1. /\ thread[t].clean
        /\ q \in Named(thread[t].op, thread[t].path, thread[t].to)
        /\ \A u \in Threads : RunQuiet(q, thread'[u], attrs'[q])
    BY <1>1, <1>4, QuietedRuns
  <2>2. Nothing(cache'[q])
    <3>1. CASE q = thread[t].path
      BY <1>2, <3>1
    <3>2. CASE q # thread[t].path
      <4>1. thread[t].op = "rename" /\ q = thread[t].to
        BY <2>1, <3>2 DEF Named
      <4>2. Nothing(cache[q]) /\ q \in Paths
        BY <1>1, <2>1, <4>1 DEF EmptyInv, TypeInv, RunOK
      <4>. QED
        BY <1>2, <4>2
    <3>. QED
      BY <3>1, <3>2
  <2>. QED
    BY <2>1, <2>2, NothingQuiet
<1>. QED
  BY <1>3, <1>4, QuietPartsNext

LEMMA NextQuiet ==
    TypeInv /\ AloneInv /\ EmptyInv /\ QuietInv /\ [Next]_vars => QuietInv'
<1>. SUFFICES ASSUME TypeInv, AloneInv, EmptyInv, QuietInv, [Next]_vars PROVE QuietInv'
  OBVIOUS
<1>1. ASSUME NEW t \in Threads, NEW op \in Lookups, NEW p \in Paths, Lookup(t, op, p)
      PROVE  QuietInv'
  <2>1. /\ Begins(t, op, p, None, "fetching", TRUE, {p})
        /\ UNCHANGED <<attrs, cache, quiet>>
    BY <1>1, LookupSteps
  <2>2. op \notin Changing
    BY FirstOrLast
  <2>. QED
    BY <2>1, <2>2, BeginsQuiet
<1>2. ASSUME NEW t \in Threads, NEW op \in Changes, NEW p \in Paths,
             NEW to \in Paths \cup {None}, ChangeBegin(t, op, p, to)
      PROVE  QuietInv'
  <2>1. op \in Changing
    BY WorkloadAssumption DEF Changing
  <2>2. PICK pc \in {"fetching", "changing"}, clean \in BOOLEAN :
           Starts(t, op, p, to, pc, clean)
    BY <1>2, <2>1, ChangeSteps
  <2>3. \A q \in Paths : cache'[q] = cache[q] \/ Nothing(cache'[q])
    BY <2>2, InvalidateStep DEF Starts, TypeInv
  <2>4. /\ quiet' = quiet \ (Named(op, p, to) \cup Affected(op, p, to))
        /\ UNCHANGED attrs /\ \E ps : Begins(t, op, p, to, pc, clean, ps)
    BY <2>2 DEF Starts
  <2>5. PICK ps : Begins(t, op, p, to, pc, clean, ps)
    BY <2>4
  <2>6. /\ quiet' \subseteq quiet
        /\ quiet' \cap (Named(op, p, to) \cup Affected(op, p, to)) = {}
    BY <2>4
  <2>. QED
    BY <2>3, <2>4, <2>5, <2>6, BeginsQuiet
<1>3. ASSUME NEW t \in Threads, Step(t) PROVE QuietInv'
  BY <1>3, FetchQuiet, PutQuiet, ChangeQuiet, CutQuiet, InvalidateQuiet DEF Step
<1>4. CASE Tick
  <2>1. /\ UNCHANGED <<attrs, thread, quiet>>
        /\ \A q \in Paths : /\ cache'[q].stat = cache[q].stat
                            /\ cache'[q].link = cache[q].link
    BY <1>4, TickStep DEF TypeInv
  <2>2. quiet \subseteq Paths
    BY DEF TypeInv, TypeOK
  <2>. QED
    BY <2>1, <2>2 DEF QuietInv
<1>5. CASE UNCHANGED vars
  BY <1>5 DEF vars, QuietInv
<1>. QED
  BY <1>1, <1>2, <1>3, <1>4, <1>5 DEF Next, Lookups

\* A path whose last change through the mount overlapped no other callback on it is never
\* answered from the cache with outdated attributes, whether its callback invalidates the
\* cache before or after it changes the device.
THEOREM CoherentCorrect == Spec => []Coherent
<1>1. Init => AloneInv /\ EmptyInv /\ QuietInv
  <2>. SUFFICES ASSUME Init PROVE AloneInv /\ EmptyInv /\ QuietInv
    OBVIOUS
  <2>1. \A t \in Threads : thread[t].pc = "idle"
    BY IdleTyped DEF Init
  <2>2. AloneInv /\ EmptyInv
    BY <2>1 DEF AloneInv, EmptyInv
  <2>3. QuietInv
    BY <2>1, NoEntryTyped DEF Init, QuietInv, Nothing
  <2>. QED
    BY <2>2, <2>3
<1>2. QuietInv => Coherent
  BY DEF QuietInv, Coherent, Cached
<1>. QED
  BY <1>1, <1>2, InitTyped, NextTyped, NextAlone, NextEmpty, NextQuiet, PTL DEF Spec
=============================================================================

--------------------------- MODULE OpenDirsProofs ---------------------------
(***************************************************************************)
(* Proofs about OpenDirs, for every set of directories and handles and any *)
(* number of changes and calls.                                            *)
(***************************************************************************)
EXTENDS OpenDirs, TLAPS

-----------------------------------------------------------------------------
(* The inductive invariant.                                                *)

HandleState ==
    [pc : {"free", "opening", "waiting", "listing", "open", "reading",
           "closing", "erasing", "resetting"},
     path : Dirs \cup {None}, listed : Nat \cup {None},
     read : Nat \cup {None, Garbage}, alone : BOOLEAN]

Releasing == {h \in Handles : handle[h].pc \in {"erasing", "resetting"}}

\* While opendir or readdir runs, the directory keeps its name.
PathInv ==
    \A h \in Handles :
        handle[h].pc \in {"opening", "waiting", "listing", "reading"} =>
        handle[h].path \in Dirs

\* inReleaseDirMutex excludes, and fInReleaseDirCond tells that releasedir has it.
MutexInv ==
    /\ \A h \in Handles :
          handle[h].pc \in {"listing", "erasing", "resetting"} <=> mutex = h
    /\ inReleaseDir \in BOOLEAN
    /\ inReleaseDir <=> Releasing # {}

TypeInv ==
    /\ listing \in [Dirs -> Nat]
    /\ openDirs \in [Dirs -> Nat \cup {None}]
    /\ handle \in [Handles -> HandleState]
    /\ leftover \subseteq Dirs
    /\ version \in Nat
    /\ PathInv /\ MutexInv

\* A listing that is not left over is that of a handle which will erase it.
Erases(h, d) ==
    /\ handle[h].path = d
    /\ handle[h].pc \in {"open", "reading", "closing", "erasing"}

EraserInv ==
    \A d \in Dirs :
        openDirs[d] # None => d \in leftover \/ \E h \in Handles : Erases(h, d)

\* A handle is alone as long as no other is on its path; then there is no listing until
\* its opendir inserts one, and that one stays.
AloneInv ==
    \A h \in Handles :
        handle[h].alone =>
        /\ handle[h].path \in Dirs
        /\ \A g \in Handles : handle[g].path = handle[h].path => g = h
        /\ handle[h].pc \in {"opening", "waiting", "listing"} =>
              openDirs[handle[h].path] = None
        /\ handle[h].pc \in {"open", "reading", "closing"} =>
              openDirs[handle[h].path] = handle[h].listed
        /\ handle[h].pc = "reading" => handle[h].read = handle[h].listed

ListingInv == EraserInv /\ AloneInv

-----------------------------------------------------------------------------
(* Type correctness.                                                       *)

PcSet == {"free", "opening", "waiting", "listing", "open", "reading",
          "closing", "erasing", "resetting"}

\* What the steps change of a handle keeps it well formed.
LEMMA HandleType ==
    /\ Free \in HandleState
    /\ \A r \in HandleState, p \in PcSet : [r EXCEPT !.pc = p] \in HandleState
    /\ \A r \in HandleState, p \in PcSet, v \in Nat :
          [r EXCEPT !.pc = p, !.listed = v] \in HandleState
    /\ \A r \in HandleState, p \in PcSet, v \in Nat \cup {None} :
          [r EXCEPT !.pc = p, !.read = v] \in HandleState
    /\ \A r \in HandleState : [r EXCEPT !.alone = FALSE] \in HandleState
    /\ \A r \in HandleState : [r EXCEPT !.read = Garbage] \in HandleState
    /\ \A r \in HandleState, to \in Dirs \cup {None} :
          [r EXCEPT !.path = to, !.alone = FALSE] \in HandleState
    /\ \A p \in PcSet, d \in Dirs, b \in BOOLEAN :
          [Free EXCEPT !.pc = p, !.path = d, !.alone = b] \in HandleState
<1>1. Free \in HandleState
  BY DEF Free, HandleState
<1>2. \A r \in HandleState, p \in PcSet : [r EXCEPT !.pc = p] \in HandleState
  BY DEF HandleState, PcSet
<1>3. \A r \in HandleState, p \in PcSet, v \in Nat :
         [r EXCEPT !.pc = p, !.listed = v] \in HandleState
  BY DEF HandleState, PcSet
<1>4. \A r \in HandleState, p \in PcSet, v \in Nat \cup {None} :
         [r EXCEPT !.pc = p, !.read = v] \in HandleState
  BY DEF HandleState, PcSet
<1>5. \A r \in HandleState : /\ [r EXCEPT !.alone = FALSE] \in HandleState
                             /\ [r EXCEPT !.read = Garbage] \in HandleState
  BY DEF HandleState
<1>6. \A r \in HandleState, to \in Dirs \cup {None} :
         [r EXCEPT !.path = to, !.alone = FALSE] \in HandleState
  BY DEF HandleState
<1>7. \A p \in PcSet, d \in Dirs, b \in BOOLEAN :
         [Free EXCEPT !.pc = p, !.path = d, !.alone = b] \in HandleState
  BY DEF Free, HandleState, PcSet
<1>. QED
  BY <1>1, <1>2, <1>3, <1>4, <1>5, <1>6, <1>7

\* A step of h that changes how far it is, and what it has listed or read.
Steps(h, pc) ==
    /\ handle'[h].pc = pc
    /\ handle'[h].path = handle[h].path
    /\ handle'[h].alone = handle[h].alone
    /\ \A g \in Handles \ {h} : handle'[g] = handle[g]

\* A step that only moves h on.
LEMMA PcStep ==
    ASSUME handle \in [Handles -> HandleState], NEW h \in Handles, NEW pc \in PcSet,
           handle' = [handle EXCEPT ![h].pc = pc]
    PROVE  /\ handle' \in [Handles -> HandleState] /\ Steps(h, pc)
           /\ handle'[h].listed = handle[h].listed
           /\ handle'[h].read = handle[h].read
<1>. DEFINE r == [handle[h] EXCEPT !.pc = pc]
<1>1. handle[h] \in HandleState
  OBVIOUS
<1>2. r \in HandleState
  BY <1>1, HandleType
<1>3. /\ r.pc = pc /\ r.path = handle[h].path /\ r.alone = handle[h].alone
      /\ r.listed = handle[h].listed /\ r.read = handle[h].read
  BY <1>1 DEF HandleState
<1>4. handle' = [handle EXCEPT ![h] = r]
  OBVIOUS
<1>. HIDE DEF r
<1>5. handle'[h] = r /\ \A g \in Handles \ {h} : handle'[g] = handle[g]
  BY <1>4
<1>6. handle' \in [Handles -> HandleState]
  BY <1>2, <1>4
<1>. QED
  BY <1>3, <1>5, <1>6 DEF Steps

\* Such a step outside the critical sections.
LEMMA StepsType ==
    ASSUME TypeInv, NEW h \in Handles, NEW pc \in PcSet, Steps(h, pc),
           handle[h].pc \notin {"listing", "erasing", "resetting"},
           pc \notin {"listing", "erasing", "resetting"},
           pc \in {"opening", "waiting", "reading"} => handle[h].path \in Dirs,
           UNCHANGED <<mutex, inReleaseDir>>
    PROVE  PathInv' /\ MutexInv'
<1>1. PathInv'
  BY DEF TypeInv, PathInv, Steps
<1>2. Releasing' = Releasing
  BY DEF Steps, Releasing
<1>3. MutexInv'
  BY <1>2 DEF TypeInv, MutexInv, Steps
<1>. QED
  BY <1>1, <1>3

LEMMA InitTyped == Init => TypeInv
<1>. SUFFICES ASSUME Init PROVE TypeInv
  OBVIOUS
<1>1. handle \in [Handles -> HandleState]
  BY HandleType DEF Init
<1>2. PathInv /\ MutexInv
  BY OpenDirsAssumption DEF Init, PathInv, MutexInv, Free, Releasing
<1>. QED
  BY <1>1, <1>2 DEF Init, TypeInv

LEMMA OpenBeginTyped ==
    ASSUME TypeInv, NEW h \in Handles, NEW d \in Dirs, OpenBegin(h, d)
    PROVE  TypeInv'
<1>. DEFINE b == OnPath(d) = {} /\ d \notin leftover
<1>1. /\ handle[h].pc = "free" /\ b \in BOOLEAN
      /\ handle' = [g \in Handles |->
             IF g = h THEN [Free EXCEPT !.pc = "opening", !.path = d, !.alone = b]
             ELSE IF handle[g].path = d THEN [handle[g] EXCEPT !.alone = FALSE]
             ELSE handle[g]]
      /\ UNCHANGED <<listing, openDirs, inReleaseDir, mutex, version, leftover>>
  BY DEF OpenBegin
<1>. HIDE DEF b
<1>2. \A g \in Handles : handle[g] \in HandleState
  BY DEF TypeInv
<1>3. handle' \in [Handles -> HandleState]
  BY <1>1, <1>2, HandleType DEF PcSet
<1>4. /\ handle'[h].pc = "opening" /\ handle'[h].path = d
      /\ \A g \in Handles \ {h} : /\ handle'[g].pc = handle[g].pc
                                  /\ handle'[g].path = handle[g].path
  BY <1>1, <1>2 DEF Free, HandleState
<1>5. PathInv'
  BY <1>4 DEF TypeInv, PathInv
<1>6. MutexInv'
  <2>1. Releasing' = Releasing
    BY <1>1, <1>4 DEF Releasing
  <2>. QED
    BY <1>1, <1>4, <2>1 DEF TypeInv, MutexInv
<1>. QED
  BY <1>1, <1>3, <1>5, <1>6 DEF TypeInv

LEMMA OpenLockTyped ==
    ASSUME TypeInv, NEW h \in Handles, OpenLock(h)
    PROVE  TypeInv'
<1>0. /\ handle[h].pc = "opening" /\ mutex = None /\ handle[h] \in HandleState
      /\ handle[h].path \in Dirs
      /\ UNCHANGED <<listing, openDirs, inReleaseDir, version, leftover>>
  BY DEF OpenLock, TypeInv, PathInv
<1>1. CASE inReleaseDir
  <2>1. /\ handle' = [handle EXCEPT ![h].pc = "waiting"]
        /\ UNCHANGED mutex
    BY <1>1 DEF OpenLock
  <2>2. handle' \in [Handles -> HandleState] /\ Steps(h, "waiting")
    BY <2>1, PcStep DEF TypeInv, PcSet
  <2>. QED
    BY <1>0, <2>1, <2>2, StepsType DEF TypeInv, PcSet
<1>2. CASE ~inReleaseDir
  <2>1. handle' = [handle EXCEPT ![h].pc = "listing"] /\ mutex' = h
    BY <1>2 DEF OpenLock
  <2>2. handle' \in [Handles -> HandleState] /\ Steps(h, "listing")
    BY <2>1, PcStep DEF TypeInv, PcSet
  <2>3. PathInv'
    BY <1>0, <2>2 DEF TypeInv, PathInv, Steps
  <2>4. MutexInv'
    <3>1. Releasing' = Releasing
      BY <1>0, <2>2 DEF Releasing, Steps
    <3>. QED
      BY <1>0, <2>1, <2>2, <3>1, OpenDirsAssumption DEF TypeInv, MutexInv, Steps
  <2>. QED
    BY <1>0, <2>2, <2>3, <2>4 DEF TypeInv
<1>. QED
  BY <1>1, <1>2

LEMMA OpenEndTyped ==
    ASSUME TypeInv, NEW h \in Handles, OpenEnd(h)
    PROVE  TypeInv'
<1>0. /\ handle[h].pc = "listing" /\ mutex = h /\ mutex' = None
      /\ handle[h] \in HandleState /\ handle[h].path \in Dirs
      /\ listing[handle[h].path] \in Nat
      /\ \A g \in Handles \ {h} :
            handle[g].pc \notin {"listing", "erasing", "resetting"}
      /\ UNCHANGED <<listing, inReleaseDir, version, leftover>>
  BY DEF OpenEnd, TypeInv, PathInv, MutexInv
<1>1. /\ openDirs' \in [Dirs -> Nat \cup {None}]
      /\ handle' \in [Handles -> HandleState]
      /\ handle'[h].pc \in {"open", "free"}
      /\ \A g \in Handles \ {h} : handle'[g] = handle[g]
  <2>1. CASE /\ openDirs' = Inserted(handle[h].path, listing[handle[h].path])
             /\ handle' = [handle EXCEPT ![h].pc = "open",
                                         ![h].listed = listing[handle[h].path]]
    <3>1. openDirs' \in [Dirs -> Nat \cup {None}]
      BY <1>0, <2>1 DEF Inserted, TypeInv
    <3>. DEFINE v == listing[handle[h].path]
                r == [handle[h] EXCEPT !.pc = "open", !.listed = v]
    <3>2. r \in HandleState /\ r.pc = "open"
      <4>. HIDE DEF v
      <4>1. v \in Nat
        BY <1>0 DEF v
      <4>2. r \in HandleState
        BY <1>0, <4>1, HandleType DEF PcSet
      <4>3. r.pc = "open"
        BY <1>0 DEF HandleState
      <4>. QED
        BY <4>2, <4>3
    <3>3. handle' = [handle EXCEPT ![h] = r]
      BY <2>1
    <3>4. /\ handle' \in [Handles -> HandleState]
          /\ handle'[h].pc = "open"
          /\ \A g \in Handles \ {h} : handle'[g] = handle[g]
      <4>. HIDE DEF r
      <4>. QED
        BY <3>2, <3>3 DEF TypeInv
    <3>. QED
      BY <3>1, <3>4
  <2>2. CASE /\ handle' = [handle EXCEPT ![h] = Free]
             /\ UNCHANGED openDirs
    BY <2>2, HandleType DEF TypeInv, Free
  <2>. QED
    BY <2>1, <2>2 DEF OpenEnd
<1>2. PathInv'
  BY <1>1 DEF TypeInv, PathInv
<1>3. MutexInv'
  <2>1. Releasing' = Releasing
    BY <1>0, <1>1 DEF Releasing
  <2>. QED
    BY <1>0, <1>1, <2>1, OpenDirsAssumption DEF TypeInv, MutexInv
<1>. QED
  BY <1>0, <1>1, <1>2, <1>3 DEF TypeInv

LEMMA ReadBeginTyped ==
    ASSUME TypeInv, NEW h \in Handles, ReadBegin(h)
    PROVE  /\ TypeInv'
           /\ \E pc \in {"open", "reading"} : Steps(h, pc)
           /\ handle'[h].listed = handle[h].listed
           /\ handle'[h].read = openDirs[handle[h].path]
<1>. DEFINE found == openDirs[handle[h].path]
            pc == IF found = None THEN "open" ELSE "reading"
            r == [handle[h] EXCEPT !.pc = pc, !.read = found]
<1>0. /\ handle[h].pc = "open" /\ handle[h] \in HandleState
      /\ handle[h].path \in Dirs
      /\ UNCHANGED <<listing, openDirs, inReleaseDir, mutex, version, leftover>>
  BY DEF ReadBegin, TypeInv, HandleState
<1>1. found \in Nat \cup {None} /\ pc \in PcSet /\ pc \in {"open", "reading"}
  BY <1>0 DEF TypeInv, PcSet
<1>2. handle' = [handle EXCEPT ![h] = r]
  BY DEF ReadBegin
<1>. HIDE DEF found, pc
<1>3. r \in HandleState
  BY <1>0, <1>1, HandleType
<1>4. /\ r.pc = pc /\ r.path = handle[h].path /\ r.alone = handle[h].alone
      /\ r.listed = handle[h].listed /\ r.read = found
  BY <1>0 DEF HandleState
<1>. HIDE DEF r
<1>5. handle' \in [Handles -> HandleState] /\ Steps(h, pc)
  BY <1>2, <1>3, <1>4 DEF TypeInv, Steps
<1>6. PathInv' /\ MutexInv'
  BY <1>0, <1>1, <1>5, StepsType
<1>7. handle'[h].listed = handle[h].listed /\ handle'[h].read = found
  BY <1>2, <1>4 DEF TypeInv
<1>. QED
  BY <1>0, <1>1, <1>5, <1>6, <1>7 DEF TypeInv, found

\* readdir returns, or releasedir is called.
LEMMA OutsideTyped ==
    ASSUME TypeInv, NEW h \in Handles, ReadEnd(h) \/ CloseBegin(h)
    PROVE  TypeInv'
<1>. PICK pc \in {"open", "closing"} :
        /\ handle[h].pc \in {"reading", "open"}
        /\ handle' = [handle EXCEPT ![h].pc = pc]
        /\ UNCHANGED <<listing, openDirs, inReleaseDir, mutex, version, leftover>>
  BY DEF ReadEnd, CloseBegin
<1>1. handle' \in [Handles -> HandleState] /\ Steps(h, pc)
  BY PcStep DEF TypeInv, PcSet
<1>2. PathInv' /\ MutexInv'
  BY <1>1, StepsType DEF PcSet
<1>. QED
  BY <1>1, <1>2 DEF TypeInv

LEMMA CloseLockTyped ==
    ASSUME TypeInv, NEW h \in Handles, CloseLock(h)
    PROVE  TypeInv'
<1>0. /\ handle[h].pc = "closing" /\ mutex = None /\ mutex' = h
      /\ inReleaseDir' = TRUE
      /\ handle' = [handle EXCEPT ![h].pc = "erasing"]
      /\ UNCHANGED <<listing, openDirs, version, leftover>>
  BY DEF CloseLock
<1>1. handle' \in [Handles -> HandleState] /\ Steps(h, "erasing")
  BY <1>0, PcStep DEF TypeInv, PcSet
<1>2. PathInv'
  BY <1>1 DEF TypeInv, PathInv, Steps
<1>3. MutexInv'
  BY <1>0, <1>1, OpenDirsAssumption DEF TypeInv, MutexInv, Steps, Releasing
<1>. QED
  BY <1>0, <1>1, <1>2, <1>3 DEF TypeInv

\* How CloseErase leaves the handles.
LEMMA CloseEraseHandles ==
    ASSUME TypeInv, NEW h \in Handles, CloseErase(h)
    PROVE  /\ handle' \in [Handles -> HandleState]
           /\ handle[h].pc = "erasing" /\ handle'[h].pc = "resetting"
           /\ \A g \in Handles : /\ handle'[g].path = handle[g].path
                                 /\ handle'[g].alone = handle[g].alone
                                 /\ handle'[g].listed = handle[g].listed
           /\ \A g \in Handles \ {h} :
                 \/ handle'[g].pc = handle[g].pc
                 \/ handle[g].pc = "waiting" /\ handle'[g].pc = "opening"
           /\ \A g \in Handles \ {h} :
                 handle[g].path # handle[h].path => handle'[g].read = handle[g].read
<1>. DEFINE d == handle[h].path
<1>0. handle[h].pc = "erasing" /\ \A g \in Handles : handle[g] \in HandleState
  BY DEF CloseErase, TypeInv
<1>1. PICK w \in IF Waiting = {} THEN {None} ELSE Waiting :
         handle' = [g \in Handles |->
            IF g = h THEN [handle[h] EXCEPT !.pc = "resetting"]
            ELSE Erased(g, d, w)]
  BY DEF CloseErase
<1>2. \A g \in Handles : g = w => handle[g].pc = "waiting"
  BY OpenDirsAssumption DEF Waiting
<1>. HIDE DEF d
<1>3. ASSUME NEW g \in Handles \ {h}
      PROVE  /\ Erased(g, d, w) \in HandleState
             /\ Erased(g, d, w).path = handle[g].path
             /\ Erased(g, d, w).alone = handle[g].alone
             /\ Erased(g, d, w).listed = handle[g].listed
             /\ \/ Erased(g, d, w).pc = handle[g].pc
                \/ handle[g].pc = "waiting" /\ Erased(g, d, w).pc = "opening"
             /\ handle[g].path # d => Erased(g, d, w).read = handle[g].read
  <2>. DEFINE r == handle[g]
  <2>1. r \in HandleState
    BY <1>0
  <2>2. CASE g = w
    <3>1. Erased(g, d, w) = [r EXCEPT !.pc = "opening"] /\ r.pc = "waiting"
      BY <1>2, <2>2 DEF Erased
    <3>. HIDE DEF r
    <3>2. [r EXCEPT !.pc = "opening"] \in HandleState
      BY <2>1, HandleType DEF PcSet
    <3>3. /\ Erased(g, d, w) \in HandleState
          /\ Erased(g, d, w).path = r.path
          /\ Erased(g, d, w).alone = r.alone
          /\ Erased(g, d, w).listed = r.listed
          /\ Erased(g, d, w).pc = "opening"
          /\ Erased(g, d, w).read = r.read
      BY <2>1, <3>1, <3>2 DEF HandleState
    <3>. QED
      BY <3>1, <3>3 DEF r
  <2>3. CASE g # w /\ d # None /\ r.path = d /\ r.pc = "reading"
    <3>1. Erased(g, d, w) = [r EXCEPT !.read = Garbage]
      BY <2>3 DEF Erased
    <3>. HIDE DEF r
    <3>2. [r EXCEPT !.read = Garbage] \in HandleState
      BY <2>1, HandleType
    <3>3. /\ Erased(g, d, w) \in HandleState
          /\ Erased(g, d, w).path = r.path
          /\ Erased(g, d, w).alone = r.alone
          /\ Erased(g, d, w).listed = r.listed
          /\ Erased(g, d, w).pc = r.pc
      BY <2>1, <3>1, <3>2 DEF HandleState
    <3>. QED
      BY <2>3, <3>3 DEF r
  <2>4. CASE g # w /\ ~(d # None /\ r.path = d /\ r.pc = "reading")
    BY <2>1, <2>4 DEF Erased
  <2>. QED
    BY <2>2, <2>3, <2>4
<1>. DEFINE q == [handle[h] EXCEPT !.pc = "resetting"]
<1>4. /\ q \in HandleState /\ q.pc = "resetting" /\ q.path = handle[h].path
      /\ q.alone = handle[h].alone /\ q.listed = handle[h].listed
  <2>. DEFINE r == handle[h]
  <2>1. r \in HandleState
    BY <1>0
  <2>. HIDE DEF r
  <2>2. [r EXCEPT !.pc = "resetting"] \in HandleState
    BY <2>1, HandleType DEF PcSet
  <2>3. /\ [r EXCEPT !.pc = "resetting"].pc = "resetting"
        /\ [r EXCEPT !.pc = "resetting"].path = r.path
        /\ [r EXCEPT !.pc = "resetting"].alone = r.alone
        /\ [r EXCEPT !.pc = "resetting"].listed = r.listed
    BY <2>1 DEF HandleState
  <2>. QED
    BY <2>2, <2>3 DEF r
<1>5. /\ handle'[h] = q
      /\ \A g \in Handles \ {h} : handle'[g] = Erased(g, d, w)
  BY <1>1
<1>6. handle' \in [Handles -> HandleState]
  BY <1>1, <1>3, <1>4
<1>. HIDE DEF q
<1>7. /\ handle[h].pc = "erasing" /\ handle'[h].pc = "resetting"
      /\ handle'[h].path = handle[h].path /\ handle'[h].alone = handle[h].alone
      /\ handle'[h].listed = handle[h].listed
  BY <1>0, <1>4, <1>5
<1>8. ASSUME NEW g \in Handles \ {h}
      PROVE  /\ handle'[g].path = handle[g].path
             /\ handle'[g].alone = handle[g].alone
             /\ handle'[g].listed = handle[g].listed
             /\ \/ handle'[g].pc = handle[g].pc
                \/ handle[g].pc = "waiting" /\ handle'[g].pc = "opening"
             /\ handle[g].path # d => handle'[g].read = handle[g].read
  BY <1>3, <1>5
<1>. QED
  BY <1>6, <1>7, <1>8 DEF d

LEMMA CloseEraseTyped ==
    ASSUME TypeInv, NEW h \in Handles, CloseErase(h)
    PROVE  TypeInv'
<1>1. /\ UNCHANGED <<listing, inReleaseDir, mutex, version>>
      /\ openDirs' = [q \in Dirs |-> IF q = handle[h].path THEN None ELSE openDirs[q]]
      /\ leftover' = leftover \ {handle[h].path}
  BY DEF CloseErase
<1>2. openDirs' \in [Dirs -> Nat \cup {None}] /\ leftover' \subseteq Dirs
  BY <1>1 DEF TypeInv
<1>3. PathInv'
  BY CloseEraseHandles DEF TypeInv, PathInv
<1>4. MutexInv'
  <2>1. Releasing' = Releasing
    BY CloseEraseHandles DEF Releasing
  <2>. QED
    BY <1>1, <2>1, CloseEraseHandles DEF TypeInv, MutexInv
<1>. QED
  BY <1>1, <1>2, <1>3, <1>4, CloseEraseHandles DEF TypeInv

LEMMA CloseEndTyped ==
    ASSUME TypeInv, NEW h \in Handles, CloseEnd(h)
    PROVE  TypeInv'
<1>0. /\ handle[h].pc = "resetting" /\ mutex = h /\ mutex' = None
      /\ handle' = [handle EXCEPT ![h] = Free] /\ inReleaseDir' = FALSE
      /\ UNCHANGED <<listing, openDirs, version, leftover>>
      /\ \A g \in Handles \ {h} :
            handle[g].pc \notin {"listing", "erasing", "resetting"}
  BY DEF CloseEnd, TypeInv, MutexInv
<1>1. /\ handle' \in [Handles -> HandleState]
      /\ handle'[h].pc = "free"
      /\ \A g \in Handles \ {h} : handle'[g] = handle[g]
  BY <1>0, HandleType DEF TypeInv, Free
<1>2. PathInv'
  BY <1>1 DEF TypeInv, PathInv
<1>3. MutexInv'
  BY <1>0, <1>1, OpenDirsAssumption DEF TypeInv, MutexInv, Releasing
<1>. QED
  BY <1>0, <1>1, <1>2, <1>3 DEF TypeInv

\* How a rename or a removal leaves the handles.
LEMMA MovedHandles ==
    ASSUME TypeInv, NEW d \in Dirs, NEW to \in Dirs \cup {None}, Moved(d, to)
    PROVE  /\ handle' \in [Handles -> HandleState]
           /\ \A g \in OnPath(d) : /\ handle[g].pc \in {"free", "open"}
                                   /\ handle'[g].pc = handle[g].pc
                                   /\ handle'[g].path = to
                                   /\ handle'[g].alone = FALSE
           /\ \A g \in Handles \ OnPath(d) : handle'[g] = handle[g]
<1>1. \A g \in Handles : handle[g] \in HandleState
  BY DEF TypeInv
<1>2. \A g \in OnPath(d) : g \in Handles /\ handle[g].pc \in {"free", "open"}
  BY DEF Moved, OnPath, Busy
<1>3. handle' = [g \in Handles |->
          IF g \in OnPath(d) THEN [handle[g] EXCEPT !.path = to, !.alone = FALSE]
          ELSE handle[g]]
  BY DEF Moved
<1>4. ASSUME NEW r \in HandleState
      PROVE  /\ [r EXCEPT !.path = to, !.alone = FALSE] \in HandleState
             /\ [r EXCEPT !.path = to, !.alone = FALSE].pc = r.pc
             /\ [r EXCEPT !.path = to, !.alone = FALSE].path = to
             /\ [r EXCEPT !.path = to, !.alone = FALSE].alone = FALSE
  <2>1. [r EXCEPT !.path = to, !.alone = FALSE] \in HandleState
    BY HandleType
  <2>2. /\ [r EXCEPT !.path = to, !.alone = FALSE].pc = r.pc
        /\ [r EXCEPT !.path = to, !.alone = FALSE].path = to
        /\ [r EXCEPT !.path = to, !.alone = FALSE].alone = FALSE
    BY DEF HandleState
  <2>. QED
    BY <2>1, <2>2
<1>5. handle' \in [Handles -> HandleState]
  BY <1>1, <1>3, <1>4
<1>6. ASSUME NEW g \in OnPath(d)
      PROVE  /\ handle[g].pc \in {"free", "open"}
             /\ handle'[g].pc = handle[g].pc /\ handle'[g].path = to
             /\ handle'[g].alone = FALSE
  <2>. DEFINE q == [handle[g] EXCEPT !.path = to, !.alone = FALSE]
  <2>1. handle'[g] = q
    BY <1>2, <1>3
  <2>2. q.pc = handle[g].pc /\ q.path = to /\ q.alone = FALSE
    BY <1>1, <1>2, <1>4
  <2>. HIDE DEF q
  <2>. QED
    BY <1>2, <2>1, <2>2
<1>7. \A g \in Handles \ OnPath(d) : handle'[g] = handle[g]
  BY <1>3
<1>. QED
  BY <1>5, <1>6, <1>7

LEMMA MovedTyped ==
    ASSUME TypeInv, NEW d \in Dirs, NEW to \in Dirs \cup {None}, Moved(d, to),
           UNCHANGED <<mutex, inReleaseDir>>
    PROVE  PathInv' /\ MutexInv' /\ leftover' \subseteq Dirs
<1>1. PathInv'
  BY MovedHandles DEF TypeInv, PathInv
<1>2. \A g \in Handles : handle'[g].pc = handle[g].pc
  BY MovedHandles
<1>3. Releasing' = Releasing
  BY <1>2 DEF Releasing
<1>4. MutexInv'
  BY <1>2, <1>3 DEF TypeInv, MutexInv
<1>. QED
  BY <1>1, <1>4 DEF Moved, TypeInv

\* What happens to the directories.
LEMMA DirectoryTyped ==
    ASSUME TypeInv,
           \E d \in Dirs : Change(d) \/ Rmdir(d) \/ \E to \in Dirs : Rename(d, to)
    PROVE  TypeInv'
<1>1. PICK d \in Dirs : Change(d) \/ Rmdir(d) \/ \E to \in Dirs : Rename(d, to)
  OBVIOUS
<1>2. CASE Change(d)
  <2>1. PathInv' /\ MutexInv'
    BY <1>2 DEF Change, TypeInv, PathInv, MutexInv, Releasing
  <2>. QED
    BY <1>2, <2>1 DEF Change, TypeInv
<1>3. CASE Rmdir(d)
  BY <1>3, MovedTyped, MovedHandles DEF Rmdir, TypeInv, Gone
<1>4. CASE \E to \in Dirs : Rename(d, to)
  <2>1. PICK to \in Dirs : Rename(d, to)
    BY <1>4
  <2>. QED
    BY <2>1, MovedTyped, MovedHandles DEF Rename, TypeInv, Gone
<1>. QED
  BY <1>1, <1>2, <1>3, <1>4

LEMMA NextTyped == TypeInv /\ [Next]_vars => TypeInv'
<1>. SUFFICES ASSUME TypeInv, [Next]_vars PROVE TypeInv'
  OBVIOUS
<1>1. ASSUME NEW h \in Handles, NEW d \in Dirs, OpenBegin(h, d) PROVE TypeInv'
  BY <1>1, OpenBeginTyped
<1>2. ASSUME NEW h \in Handles, ReadBegin(h) \/ CloseBegin(h) PROVE TypeInv'
  BY <1>2, ReadBeginTyped, OutsideTyped
<1>3. ASSUME NEW h \in Handles, Step(h) PROVE TypeInv'
  BY <1>3, OpenLockTyped, OpenEndTyped, OutsideTyped, CloseLockTyped,
     CloseEraseTyped, CloseEndTyped DEF Step
<1>4. CASE UNCHANGED vars
  BY <1>4 DEF vars, TypeInv, PathInv, MutexInv, Releasing
<1>. QED
  BY <1>1, <1>2, <1>3, <1>4, DirectoryTyped DEF Next

\* The variables keep their types, and the mutex is owned by exactly the handle that
\* is inside one of the two critical sections.
THEOREM TypeCorrect == Spec => []TypeOK
<1>1. TypeInv => TypeOK
  BY DEF TypeInv, TypeOK, MutexInv, Releasing, HandleState
<1>. QED
  BY <1>1, InitTyped, NextTyped, PTL DEF Spec

-----------------------------------------------------------------------------
(* Listings.                                                               *)

LEMMA InitListing == Init => ListingInv
  BY DEF Init, ListingInv, EraserInv, AloneInv, Free

\* A step of one handle that leaves the map alone.
LEMMA StepsListing ==
    ASSUME ListingInv, NEW h \in Handles, NEW pc, Steps(h, pc),
           UNCHANGED <<openDirs, leftover>>,
           handle'[h].listed = handle[h].listed,
           handle[h].pc \in {"open", "reading", "closing", "erasing"} =>
               pc \in {"open", "reading", "closing", "erasing"},
           pc \in {"opening", "waiting", "listing"} =>
               handle[h].pc \in {"opening", "waiting", "listing"},
           pc \in {"open", "reading", "closing"} =>
               handle[h].pc \in {"open", "reading", "closing"},
           pc = "reading" => handle'[h].read = openDirs[handle[h].path]
    PROVE  ListingInv'
<1>1. \A g \in Handles : /\ handle'[g].path = handle[g].path
                         /\ handle'[g].alone = handle[g].alone
                         /\ handle'[g].listed = handle[g].listed
  BY DEF Steps
<1>2. EraserInv'
  <2>1. \A g \in Handles, d \in Dirs : Erases(g, d) => Erases(g, d)'
    BY DEF Steps, Erases
  <2>. QED
    BY <2>1 DEF ListingInv, EraserInv
<1>3. AloneInv'
  <2>1. ASSUME NEW g \in Handles, handle'[g].alone
        PROVE  /\ handle'[g].path \in Dirs
               /\ \A f \in Handles : handle'[f].path = handle'[g].path => f = g
               /\ handle'[g].pc \in {"opening", "waiting", "listing"} =>
                     openDirs'[handle'[g].path] = None
               /\ handle'[g].pc \in {"open", "reading", "closing"} =>
                     openDirs'[handle'[g].path] = handle'[g].listed
               /\ handle'[g].pc = "reading" => handle'[g].read = handle'[g].listed
    <3>1. CASE g = h
      BY <1>1, <2>1, <3>1 DEF ListingInv, AloneInv, Steps
    <3>2. CASE g # h
      BY <1>1, <2>1, <3>2 DEF ListingInv, AloneInv, Steps
    <3>. QED
      BY <3>1, <3>2
  <2>. QED
    BY <2>1 DEF AloneInv
<1>. QED
  BY <1>2, <1>3 DEF ListingInv

LEMMA OpenBeginListing ==
    ASSUME TypeInv, ListingInv, NEW h \in Handles, NEW d \in Dirs, OpenBegin(h, d)
    PROVE  ListingInv'
<1>. DEFINE b == OnPath(d) = {} /\ d \notin leftover
<1>0. /\ handle[h].pc = "free"
      /\ \A g \in Handles : handle[g] \in HandleState
      /\ UNCHANGED <<openDirs, leftover>>
  BY DEF OpenBegin, TypeInv
<1>1. /\ handle'[h] = [Free EXCEPT !.pc = "opening", !.path = d, !.alone = b]
      /\ \A g \in Handles \ {h} :
            handle'[g] = IF handle[g].path = d THEN [handle[g] EXCEPT !.alone = FALSE]
                         ELSE handle[g]
  BY DEF OpenBegin
<1>2. handle'[h].pc = "opening" /\ handle'[h].path = d /\ handle'[h].alone = b
  BY <1>1 DEF Free
<1>3. ASSUME NEW g \in Handles \ {h}
      PROVE  /\ handle'[g].pc = handle[g].pc /\ handle'[g].path = handle[g].path
             /\ handle'[g].listed = handle[g].listed
             /\ handle'[g].read = handle[g].read
             /\ handle'[g].alone => handle[g].alone /\ handle[g].path # d
  <2>. DEFINE r == [handle[g] EXCEPT !.alone = FALSE]
  <2>1. /\ r.pc = handle[g].pc /\ r.path = handle[g].path /\ r.alone = FALSE
        /\ r.listed = handle[g].listed /\ r.read = handle[g].read
    BY <1>0 DEF HandleState
  <2>2. handle'[g] = IF handle[g].path = d THEN r ELSE handle[g]
    BY <1>1
  <2>. HIDE DEF r
  <2>. QED
    BY <2>1, <2>2
<1>4. EraserInv'
  <2>1. \A g \in Handles, q \in Dirs : Erases(g, q) => Erases(g, q)'
    BY <1>0, <1>3 DEF Erases
  <2>. QED
    BY <1>0, <2>1 DEF ListingInv, EraserInv
<1>5. AloneInv'
  <2>1. ASSUME NEW g \in Handles, handle'[g].alone
        PROVE  /\ handle'[g].path \in Dirs
               /\ \A f \in Handles : handle'[f].path = handle'[g].path => f = g
               /\ handle'[g].pc \in {"opening", "waiting", "listing"} =>
                     openDirs'[handle'[g].path] = None
               /\ handle'[g].pc \in {"open", "reading", "closing"} =>
                     openDirs'[handle'[g].path] = handle'[g].listed
               /\ handle'[g].pc = "reading" => handle'[g].read = handle'[g].listed
    <3>1. CASE g = h
      <4>1. OnPath(d) = {} /\ d \notin leftover
        BY <1>2, <2>1, <3>1
      <4>2. \A f \in Handles : handle[f].path # d
        BY <4>1 DEF OnPath
      <4>3. openDirs[d] = None
        BY <4>1, <4>2 DEF ListingInv, EraserInv, Erases
      <4>. QED
        BY <1>0, <1>2, <1>3, <3>1, <4>2, <4>3
    <3>2. CASE g # h
      BY <1>0, <1>2, <1>3, <2>1, <3>2 DEF ListingInv, AloneInv
    <3>. QED
      BY <3>1, <3>2
  <2>. QED
    BY <2>1 DEF AloneInv
<1>. QED
  BY <1>4, <1>5 DEF ListingInv

\* One handle is given up; it had no listing to erase.
LEMMA FreedListing ==
    ASSUME TypeInv, ListingInv, NEW h \in Handles,
           handle[h].pc \in {"listing", "resetting"},
           handle' = [handle EXCEPT ![h] = Free],
           UNCHANGED <<openDirs, leftover>>
    PROVE  ListingInv'
<1>1. /\ handle'[h].pc = "free" /\ handle'[h].path = None /\ handle'[h].alone = FALSE
      /\ \A g \in Handles \ {h} : handle'[g] = handle[g]
  BY DEF TypeInv, Free
<1>2. EraserInv'
  <2>1. \A g \in Handles, q \in Dirs : Erases(g, q) => Erases(g, q)'
    BY <1>1 DEF Erases
  <2>. QED
    BY <2>1 DEF ListingInv, EraserInv
<1>3. AloneInv'
  BY <1>1, OpenDirsAssumption DEF ListingInv, AloneInv
<1>. QED
  BY <1>2, <1>3 DEF ListingInv

LEMMA OpenEndListing ==
    ASSUME TypeInv, ListingInv, NEW h \in Handles, OpenEnd(h)
    PROVE  ListingInv'
<1>. DEFINE d == handle[h].path
            v == listing[d]
<1>0. /\ handle[h].pc = "listing" /\ handle[h] \in HandleState
      /\ d \in Dirs /\ v \in Nat /\ UNCHANGED leftover
  BY DEF OpenEnd, TypeInv, PathInv
<1>1. CASE /\ openDirs' = Inserted(d, v)
           /\ handle' = [handle EXCEPT ![h].pc = "open", ![h].listed = v]
  <2>. DEFINE r == [handle[h] EXCEPT !.pc = "open", !.listed = v]
  <2>1. handle'[h] = r /\ \A g \in Handles \ {h} : handle'[g] = handle[g]
    BY <1>1 DEF TypeInv
  <2>2. r.pc = "open" /\ r.path = d /\ r.alone = handle[h].alone /\ r.listed = v
    BY <1>0 DEF HandleState
  <2>. HIDE DEF r, v
  <2>3. /\ handle'[h].pc = "open" /\ handle'[h].path = d
        /\ handle'[h].alone = handle[h].alone /\ handle'[h].listed = v
    BY <2>1, <2>2
  <2>4. /\ \A q \in Dirs \ {d} : openDirs'[q] = openDirs[q]
        /\ openDirs[d] = None => openDirs'[d] = v
    BY <1>0, <1>1 DEF Inserted, TypeInv
  <2>5. EraserInv'
    <3>1. \A g \in Handles, q \in Dirs : Erases(g, q) => Erases(g, q)'
      BY <1>0, <2>1 DEF Erases
    <3>2. ASSUME NEW q \in Dirs, openDirs'[q] # None
          PROVE  q \in leftover' \/ \E g \in Handles : Erases(g, q)'
      <4>1. CASE q = d
        BY <2>3, <4>1 DEF Erases
      <4>2. CASE q # d
        BY <1>0, <2>4, <3>1, <3>2, <4>2 DEF ListingInv, EraserInv
      <4>. QED
        BY <4>1, <4>2
    <3>. QED
      BY <3>2 DEF EraserInv
  <2>6. AloneInv'
    <3>1. ASSUME NEW g \in Handles, handle'[g].alone
          PROVE  /\ handle'[g].path \in Dirs
                 /\ \A f \in Handles : handle'[f].path = handle'[g].path => f = g
                 /\ handle'[g].pc \in {"opening", "waiting", "listing"} =>
                       openDirs'[handle'[g].path] = None
                 /\ handle'[g].pc \in {"open", "reading", "closing"} =>
                       openDirs'[handle'[g].path] = handle'[g].listed
                 /\ handle'[g].pc = "reading" => handle'[g].read = handle'[g].listed
      <4>1. CASE g = h
        <5>1. handle[h].alone /\ openDirs[d] = None
          BY <1>0, <2>3, <3>1, <4>1 DEF ListingInv, AloneInv
        <5>2. \A f \in Handles : handle[f].path = d => f = h
          BY <5>1 DEF ListingInv, AloneInv
        <5>. QED
          BY <1>0, <2>1, <2>3, <2>4, <4>1, <5>1, <5>2
      <4>2. CASE g # h
        <5>1. handle'[g] = handle[g] /\ handle[g].alone
          BY <2>1, <3>1, <4>2
        <5>2. handle[g].path # d /\ handle[g].path \in Dirs
          BY <4>2, <5>1 DEF ListingInv, AloneInv
        <5>. QED
          BY <2>1, <2>3, <2>4, <5>1, <5>2 DEF ListingInv, AloneInv
      <4>. QED
        BY <4>1, <4>2
    <3>. QED
      BY <3>1 DEF AloneInv
  <2>. QED
    BY <2>5, <2>6 DEF ListingInv
<1>2. CASE handle' = [handle EXCEPT ![h] = Free] /\ UNCHANGED openDirs
  BY <1>0, <1>2, FreedListing
<1>. QED
  BY <1>1, <1>2 DEF OpenEnd

LEMMA CloseEraseListing ==
    ASSUME TypeInv, ListingInv, NEW h \in Handles, CloseErase(h)
    PROVE  ListingInv'
<1>. DEFINE d == handle[h].path
<1>1. /\ \A q \in Dirs : openDirs'[q] = IF q = d THEN None ELSE openDirs[q]
      /\ leftover' = leftover \ {d}
  BY DEF CloseErase
<1>2. EraserInv'
  <2>1. \A g \in Handles, q \in Dirs : q # d /\ Erases(g, q) => Erases(g, q)'
    BY CloseEraseHandles DEF Erases
  <2>. QED
    BY <1>1, <2>1 DEF ListingInv, EraserInv
<1>3. AloneInv'
  <2>1. ASSUME NEW g \in Handles, handle'[g].alone
        PROVE  /\ handle'[g].path \in Dirs
               /\ \A f \in Handles : handle'[f].path = handle'[g].path => f = g
               /\ handle'[g].pc \in {"opening", "waiting", "listing"} =>
                     openDirs'[handle'[g].path] = None
               /\ handle'[g].pc \in {"open", "reading", "closing"} =>
                     openDirs'[handle'[g].path] = handle'[g].listed
               /\ handle'[g].pc = "reading" => handle'[g].read = handle'[g].listed
    <3>1. /\ handle[g].alone /\ handle[g].path \in Dirs
          /\ handle'[g].path = handle[g].path /\ handle'[g].listed = handle[g].listed
          /\ \A f \in Handles : handle'[f].path = handle'[g].path => f = g
      BY <2>1, CloseEraseHandles DEF ListingInv, AloneInv
    <3>2. CASE g = h
      BY <3>1, <3>2, CloseEraseHandles
    <3>3. CASE g # h
      <4>1. handle[g].path # d
        BY <3>1, <3>3, CloseEraseHandles
      <4>2. openDirs'[handle'[g].path] = openDirs[handle[g].path]
        BY <1>1, <3>1, <4>1
      <4>3. /\ handle'[g].read = handle[g].read
            /\ \/ handle'[g].pc = handle[g].pc
               \/ handle[g].pc = "waiting" /\ handle'[g].pc = "opening"
        BY <3>3, <4>1, CloseEraseHandles
      <4>. QED
        BY <3>1, <4>2, <4>3 DEF ListingInv, AloneInv
    <3>. QED
      BY <3>2, <3>3
  <2>. QED
    BY <2>1 DEF AloneInv
<1>. QED
  BY <1>2, <1>3 DEF ListingInv

\* A directory is renamed or removed: what was listed of it is left over.
LEMMA MovedListing ==
    ASSUME TypeInv, ListingInv, NEW d \in Dirs, NEW to \in Dirs \cup {None},
           Moved(d, to), UNCHANGED openDirs, to = None \/ OnPath(to) = {}
    PROVE  ListingInv'
<1>0. /\ \A g \in OnPath(d) : handle'[g].path = to /\ handle'[g].alone = FALSE
      /\ \A g \in Handles \ OnPath(d) : handle'[g] = handle[g]
  BY MovedHandles
<1>1. /\ leftover \subseteq leftover'
      /\ openDirs[d] # None => d \in leftover'
  BY DEF Moved
<1>2. EraserInv'
  <2>1. \A g \in Handles, q \in Dirs : q # d /\ Erases(g, q) => Erases(g, q)'
    BY <1>0 DEF Erases, OnPath
  <2>. QED
    BY <1>1, <2>1 DEF ListingInv, EraserInv
<1>3. AloneInv'
  <2>1. ASSUME NEW g \in Handles, handle'[g].alone
        PROVE  /\ handle'[g].path \in Dirs
               /\ \A f \in Handles : handle'[f].path = handle'[g].path => f = g
               /\ handle'[g].pc \in {"opening", "waiting", "listing"} =>
                     openDirs'[handle'[g].path] = None
               /\ handle'[g].pc \in {"open", "reading", "closing"} =>
                     openDirs'[handle'[g].path] = handle'[g].listed
               /\ handle'[g].pc = "reading" => handle'[g].read = handle'[g].listed
    <3>1. handle'[g] = handle[g] /\ handle[g].alone
      BY <1>0, <2>1
    <3>2. handle[g].path \in Dirs /\ handle[g].path # to
      BY <3>1, OpenDirsAssumption DEF ListingInv, AloneInv, OnPath
    <3>3. ASSUME NEW f \in Handles, handle'[f].path = handle'[g].path
          PROVE  f = g
      <4>1. f \notin OnPath(d)
        BY <1>0, <3>1, <3>2, <3>3
      <4>2. handle'[f] = handle[f]
        BY <1>0, <4>1
      <4>. QED
        BY <3>1, <3>3, <4>2 DEF ListingInv, AloneInv
    <3>. QED
      BY <3>1, <3>2, <3>3 DEF ListingInv, AloneInv
  <2>. QED
    BY <2>1 DEF AloneInv
<1>. QED
  BY <1>2, <1>3 DEF ListingInv

LEMMA StepListing ==
    ASSUME TypeInv, ListingInv, NEW h \in Handles, Step(h)
    PROVE  ListingInv'
<1>1. CASE OpenLock(h)
  <2>1. PICK pc \in {"waiting", "listing"} :
           /\ handle[h].pc = "opening"
           /\ handle' = [handle EXCEPT ![h].pc = pc]
           /\ UNCHANGED <<openDirs, leftover>>
    BY <1>1 DEF OpenLock
  <2>2. Steps(h, pc) /\ handle'[h].listed = handle[h].listed
    BY <2>1, PcStep DEF TypeInv, PcSet
  <2>. QED
    BY <2>1, <2>2, StepsListing
<1>2. CASE OpenEnd(h)
  BY <1>2, OpenEndListing
<1>3. CASE ReadEnd(h)
  <2>1. /\ handle[h].pc = "reading"
        /\ handle' = [handle EXCEPT ![h].pc = "open"]
        /\ UNCHANGED <<openDirs, leftover>>
    BY <1>3 DEF ReadEnd
  <2>2. Steps(h, "open") /\ handle'[h].listed = handle[h].listed
    BY <2>1, PcStep DEF TypeInv, PcSet
  <2>. QED
    BY <2>1, <2>2, StepsListing
<1>4. CASE CloseLock(h)
  <2>1. /\ handle[h].pc = "closing"
        /\ handle' = [handle EXCEPT ![h].pc = "erasing"]
        /\ UNCHANGED <<openDirs, leftover>>
    BY <1>4 DEF CloseLock
  <2>2. Steps(h, "erasing") /\ handle'[h].listed = handle[h].listed
    BY <2>1, PcStep DEF TypeInv, PcSet
  <2>. QED
    BY <2>1, <2>2, StepsListing
<1>5. CASE CloseErase(h)
  BY <1>5, CloseEraseListing
<1>6. CASE CloseEnd(h)
  BY <1>6, FreedListing DEF CloseEnd
<1>. QED
  BY <1>1, <1>2, <1>3, <1>4, <1>5, <1>6 DEF Step

LEMMA NextListing == TypeInv /\ ListingInv /\ [Next]_vars => ListingInv'
<1>. SUFFICES ASSUME TypeInv, ListingInv, [Next]_vars PROVE ListingInv'
  OBVIOUS
<1>1. ASSUME NEW h \in Handles, NEW d \in Dirs, OpenBegin(h, d) PROVE ListingInv'
  BY <1>1, OpenBeginListing
<1>2. ASSUME NEW h \in Handles, ReadBegin(h) PROVE ListingInv'
  <2>1. handle[h].pc = "open" /\ UNCHANGED <<openDirs, leftover>>
    BY <1>2 DEF ReadBegin
  <2>2. PICK pc \in {"open", "reading"} : Steps(h, pc)
    BY <1>2, ReadBeginTyped
  <2>. QED
    BY <1>2, <2>1, <2>2, ReadBeginTyped, StepsListing
<1>3. ASSUME NEW h \in Handles, CloseBegin(h) PROVE ListingInv'
  <2>1. /\ handle[h].pc = "open"
        /\ handle' = [handle EXCEPT ![h].pc = "closing"]
        /\ UNCHANGED <<openDirs, leftover>>
    BY <1>3 DEF CloseBegin
  <2>2. Steps(h, "closing") /\ handle'[h].listed = handle[h].listed
    BY <2>1, PcStep DEF TypeInv, PcSet
  <2>. QED
    BY <2>1, <2>2, StepsListing
<1>4. ASSUME NEW h \in Handles, Step(h) PROVE ListingInv'
  BY <1>4, StepListing
<1>5. ASSUME NEW d \in Dirs, Change(d) PROVE ListingInv'
  BY <1>5 DEF Change, ListingInv, EraserInv, Erases, AloneInv
<1>6. ASSUME NEW d \in Dirs, Rmdir(d) PROVE ListingInv'
  BY <1>6, MovedListing DEF Rmdir
<1>7. ASSUME NEW d \in Dirs, NEW to \in Dirs, Rename(d, to) PROVE ListingInv'
  BY <1>7, MovedListing DEF Rename
<1>8. CASE UNCHANGED vars
  BY <1>8 DEF vars, ListingInv, EraserInv, Erases, AloneInv
<1>. QED
  BY <1>1, <1>2, <1>3, <1>4, <1>5, <1>6, <1>7, <1>8 DEF Next

\* While no other handle is on its directory, and the directory is not renamed or
\* removed, a handle finds and reads the listing its own opendir retrieved.
THEOREM ReadsOwnListingCorrect == Spec => []ReadsOwnListing
<1>1. ListingInv => ReadsOwnListing
  BY DEF ListingInv, AloneInv, ReadsOwnListing
<1>. QED
  BY <1>1, InitTyped, NextTyped, InitListing, NextListing, PTL DEF Spec

-----------------------------------------------------------------------------
(* The condition.                                                          *)

\* No step of an opendir that has the mutex finds the flag set.
LEMMA FlagClear ==
    ASSUME TypeInv, NEW h \in Handles, OpenLock(h)
    PROVE  ~inReleaseDir
<1>1. mutex = None /\ \A g \in Handles : g # None
  BY OpenDirsAssumption DEF OpenLock
<1>2. Releasing = {}
  BY <1>1 DEF TypeInv, MutexInv, Releasing
<1>. QED
  BY <1>2 DEF TypeInv, MutexInv

\* No handle starts to wait.
LEMMA NextWaits ==
    ASSUME TypeInv, NobodyWaits, [Next]_vars
    PROVE  NobodyWaits'
<1>0. /\ \A g \in Handles : handle[g].pc # "waiting"
      /\ handle \in [Handles -> HandleState]
  BY DEF NobodyWaits, Waiting, TypeInv
<1>1. ASSUME NEW h \in Handles, NEW pc \in PcSet \ {"waiting"}, Steps(h, pc)
      PROVE  NobodyWaits'
  BY <1>0, <1>1 DEF Steps, NobodyWaits, Waiting
<1>2. ASSUME NEW h \in Handles, NEW pc \in PcSet \ {"waiting"},
             handle' = [handle EXCEPT ![h].pc = pc]
      PROVE  NobodyWaits'
  BY <1>0, <1>1, <1>2, PcStep
<1>3. ASSUME NEW h \in Handles, NEW d \in Dirs, OpenBegin(h, d) PROVE NobodyWaits'
  <2>1. ASSUME NEW g \in Handles PROVE handle'[g].pc # "waiting"
    <3>1. handle'[g] = IF g = h
                       THEN [Free EXCEPT !.pc = "opening", !.path = d,
                                !.alone = OnPath(d) = {} /\ d \notin leftover]
                       ELSE IF handle[g].path = d THEN [handle[g] EXCEPT !.alone = FALSE]
                       ELSE handle[g]
      BY <1>3 DEF OpenBegin
    <3>2. [handle[g] EXCEPT !.alone = FALSE].pc = handle[g].pc
      BY <1>0 DEF HandleState
    <3>. QED
      BY <1>0, <3>1, <3>2 DEF Free
  <2>. QED
    BY <2>1 DEF NobodyWaits, Waiting
<1>4. ASSUME NEW h \in Handles, ReadBegin(h) PROVE NobodyWaits'
  <2>1. PICK pc \in {"open", "reading"} : Steps(h, pc)
    BY <1>4, ReadBeginTyped
  <2>. QED
    BY <1>1, <2>1 DEF PcSet
<1>5. ASSUME NEW h \in Handles, CloseBegin(h) \/ OpenLock(h) \/ ReadEnd(h) \/ CloseLock(h)
      PROVE  NobodyWaits'
  <2>1. \E pc \in {"closing", "listing", "open", "erasing"} :
           handle' = [handle EXCEPT ![h].pc = pc]
    BY <1>5, FlagClear DEF CloseBegin, OpenLock, ReadEnd, CloseLock
  <2>. QED
    BY <1>2, <2>1 DEF PcSet
<1>6. ASSUME NEW h \in Handles, OpenEnd(h) PROVE NobodyWaits'
  <2>1. CASE handle' = [handle EXCEPT ![h] = Free]
    BY <1>0, <2>1 DEF NobodyWaits, Waiting, Free
  <2>2. CASE handle' = [handle EXCEPT ![h].pc = "open",
                                      ![h].listed = listing[handle[h].path]]
    <3>. DEFINE r == [handle[h] EXCEPT !.pc = "open", !.listed = listing[handle[h].path]]
    <3>1. handle' = [handle EXCEPT ![h] = r]
      BY <2>2
    <3>2. r.pc = "open"
      BY <1>0 DEF HandleState
    <3>. HIDE DEF r
    <3>. QED
      BY <1>0, <3>1, <3>2 DEF NobodyWaits, Waiting
  <2>. QED
    BY <1>6, <2>1, <2>2 DEF OpenEnd
<1>7. ASSUME NEW h \in Handles, CloseErase(h) PROVE NobodyWaits'
  BY <1>0, <1>7, CloseEraseHandles DEF NobodyWaits, Waiting
<1>8. ASSUME NEW h \in Handles, CloseEnd(h) PROVE NobodyWaits'
  BY <1>0, <1>8 DEF CloseEnd, NobodyWaits, Waiting, Free
<1>9. ASSUME NEW d \in Dirs, NEW to \in Dirs \cup {None}, Moved(d, to) PROVE NobodyWaits'
  <2>1. \A g \in Handles : handle'[g].pc = handle[g].pc
    BY <1>9, MovedHandles DEF OnPath
  <2>. QED
    BY <1>0, <2>1 DEF NobodyWaits, Waiting
<1>10. CASE (\E d \in Dirs : Change(d)) \/ UNCHANGED vars
  <2>1. handle' = handle
    BY <1>10 DEF Change, vars
  <2>. QED
    BY <2>1 DEF NobodyWaits, Waiting
<1>11. CASE \E d \in Dirs : Rmdir(d) \/ \E to \in Dirs : Rename(d, to)
  BY <1>9, <1>11 DEF Rmdir, Rename
<1>. QED
  BY <1>3, <1>4, <1>5, <1>6, <1>7, <1>8, <1>10, <1>11 DEF Next, Step

\* However many handles open and release directories at once, no adbnc_opendir ever waits
\* on inReleaseDirCond: the mutex alone keeps it apart from adbnc_releasedir, and no signal
\* can be missed.
THEOREM NobodyWaitsCorrect == Spec => []NobodyWaits
<1>1. Init => NobodyWaits
  BY DEF Init, NobodyWaits, Waiting, Free
<1>. QED
  BY <1>1, InitTyped, NextTyped, NextWaits, PTL DEF Spec
=============================================================================

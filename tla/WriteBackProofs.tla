-------------------------- MODULE WriteBackProofs --------------------------
(***************************************************************************)
(* Proofs about WriteBack, for every set of files and handles.             *)
(***************************************************************************)
EXTENDS WriteBack, TLAPS

\* A handle that is in use is on a path.
GoodHandle ==
    {r \in HandleState : r.pc \notin {"free", "leaked"} => r.path \in Paths}

\* The type invariant, strengthened by what the program counters say.
TypeInv == TypeOK /\ handle \in [Handles -> GoodHandle]

-----------------------------------------------------------------------------
(* Lemmas about the operators.                                             *)

\* The operations of FileStatus::Entry keep an entry well formed.
LEMMA EntryType ==
    /\ \A e \in Entry, b1, b2 \in BOOLEAN : PendingOpen(e, b1, b2) \in Entry
    /\ \A e \in Entry, l \in Locals : PendingRenamed(e, l) \in Entry
    /\ \A e \in Entry, b1 \in BOOLEAN : Truncated(e, b1) \in Entry
    /\ \A e \in Entry : FlushedEntry(e) \in Entry /\ ReleasedEntry(e) \in Entry
BY DEF Entry, PendingOpen, PendingRenamed, Truncated, FlushedEntry, ReleasedEntry

\* What open and release set a handle to is well formed.
LEMMA HandleType ==
    /\ FreeHandle \in GoodHandle
    /\ LeakedHandle \in GoodHandle
    /\ \A p \in Paths, l \in Locals \cup {None} : OpenHandle(p, l) \in GoodHandle
BY DEF FreeHandle, LeakedHandle, OpenHandle, GoodHandle, HandleState, NoFile

\* A handle in use stays well formed when its program counter and its version
\* change.
LEMMA HandleMoves ==
    \A r \in GoodHandle, v \in Nat,
       pc \in {"open", "writing", "flushing", "syncing", "closing"} :
        r.pc \notin {"free", "leaked"} =>
            /\ [r EXCEPT !.pc = pc] \in GoodHandle
            /\ [r EXCEPT !.pc = pc, !.buf = v] \in GoodHandle
BY DEF GoodHandle, HandleState

\* A history update only ever clears.
LEMMA DisturbedType ==
    ASSUME fresh \in [Handles -> Nat], NEW p, NEW l, NEW h
    PROVE  /\ Disturbed(p, l, h) \in [Handles -> Nat]
           /\ \A g \in Handles :
                 Disturbed(p, l, h)[g] # 0 =>
                     /\ Disturbed(p, l, h)[g] = fresh[g]
                     /\ fresh[g] # 0
                     /\ g # h => ~Touches(g, p, l)
BY DEF Disturbed

\* A push leaves a device of the right type.
LEMMA PushedType ==
    ASSUME device \in [Paths -> Nat], NEW p, NEW v \in Nat, NEW outcome
    PROVE  Pushed(p, v, outcome) \in [Paths -> Nat]
BY DEF Pushed

-----------------------------------------------------------------------------
(* Type correctness.                                                       *)

\* In the initial states every file is unknown and every handle is free.
LEMMA TypeInit == Init => TypeInv
<1> SUFFICES ASSUME Init PROVE TypeInv
    OBVIOUS
<1>1. FreeHandle \in GoodHandle /\ FreeHandle \in HandleState
  BY HandleType DEF GoodHandle
<1>2. NewEntry \in Entry
  BY DEF NewEntry, Entry
<1> QED BY <1>1, <1>2 DEF Init, TypeInv, TypeOK, NoFile

\* Every callback keeps the types, and puts a handle it takes into use on a path.
LEMMA TypeStep == TypeInv /\ [Next]_vars => TypeInv'
<1> SUFFICES ASSUME TypeInv, [Next]_vars
             PROVE  TypeInv'
    OBVIOUS
<1> USE NamesAssumption, ParametersAssumption
<1>a. /\ device \in [Paths -> Nat] /\ local \in [Locals -> Nat]
      /\ status \in [Paths -> Entry] /\ handle \in [Handles -> GoodHandle]
      /\ version \in Nat /\ fresh \in [Handles -> Nat]
  BY DEF TypeInv, TypeOK
<1>b. \A p \in Paths : LocalOf[p] \in Locals /\ local[LocalOf[p]] \in Nat
  BY <1>a
<1> DEFINE Typed ==
      /\ device' \in [Paths -> Nat] /\ local' \in [Locals -> Nat]
      /\ status' \in [Paths -> Entry] /\ handle' \in [Handles -> GoodHandle]
      /\ version' \in Nat /\ fresh' \in [Handles -> Nat]
<1>c. SUFFICES Typed
  <2>1. \A f : f \in [Handles -> GoodHandle] => f \in [Handles -> HandleState]
    BY DEF GoodHandle
  <2> QED BY <2>1 DEF TypeInv, TypeOK
<1>d. \A h \in Handles : /\ handle[h] \in GoodHandle
                         /\ handle[h].loc \in Locals \cup {None}
                         /\ handle[h].path \in Paths \cup {None}
                         /\ handle[h].buf \in Nat
                         /\ handle[h].pc \notin {"free", "leaked"} =>
                               handle[h].path \in Paths
  BY <1>a DEF GoodHandle, HandleState
<1>1. ASSUME NEW h \in Handles, NEW p \in Paths, OpenBegin(h, p)
      PROVE  Typed
  <2>1. Truncated(status[p], FALSE) \in Entry
    BY <1>a, EntryType
  <2>2. [pc |-> "opening", path |-> p, loc |-> LocalOf[p], buf |-> device[p]]
           \in GoodHandle
    BY <1>a, <1>b DEF GoodHandle, HandleState
  <2>3. OpenHandle(p, LocalOf[p]) \in GoodHandle
    BY <1>b, HandleType
  <2>4. status' \in [Paths -> Entry]
    BY <1>1, <1>a, <2>1 DEF OpenBegin
  <2>5. handle' \in [Handles -> GoodHandle]
    <3>1. \/ handle' = handle
          \/ handle' = [handle EXCEPT ![h] = OpenHandle(p, LocalOf[p])]
          \/ handle' = [handle EXCEPT ![h] =
                [pc |-> "opening", path |-> p, loc |-> LocalOf[p], buf |-> device[p]]]
      BY <1>1 DEF OpenBegin
    <3> QED BY <1>a, <2>2, <2>3, <3>1
  <2> QED BY <1>1, <1>a, <2>4, <2>5, DisturbedType DEF OpenBegin
<1>2. ASSUME NEW h \in Handles, OpenEnd(h)
      PROVE  Typed
  <2>1. handle[h].path \in Paths
    BY <1>2, <1>d DEF OpenEnd
  <2>2. OpenHandle(handle[h].path, LocalOf[handle[h].path]) \in GoodHandle
    BY <2>1, <1>b, HandleType
  <2>3. \A g \in Handles : [handle[g] EXCEPT !.loc = None] \in GoodHandle
    BY <1>a DEF GoodHandle, HandleState
  <2>4. handle' \in [Handles -> GoodHandle]
    BY <1>2, <1>a, <2>2, <2>3 DEF OpenEnd
  <2>5. local' \in [Locals -> Nat]
    BY <1>2, <1>a, <1>b, <1>d, <2>1 DEF OpenEnd
  <2> QED BY <1>2, <1>a, <2>4, <2>5 DEF OpenEnd
<1>3. ASSUME NEW h \in Handles, OpenStale(h)
      PROVE  Typed
  <2>1. OpenHandle(handle[h].path, handle[h].loc) \in GoodHandle
    BY <1>3, <1>d, HandleType DEF OpenStale
  <2>2. handle' \in [Handles -> GoodHandle]
    BY <1>3, <1>a, <2>1, HandleType DEF OpenStale
  <2> QED BY <1>3, <1>a, <2>2 DEF OpenStale
<1>4. ASSUME NEW h \in Handles, OpenFail(h)
      PROVE  Typed
  BY <1>4, <1>a, HandleType DEF OpenFail
<1>5. ASSUME NEW h \in Handles, Read(h)
      PROVE  Typed
  <2>1. status' \in [Paths -> Entry]
    BY <1>5, <1>a, <1>d, EntryType DEF Read
  <2>2. fresh' \in [Handles -> Nat]
    BY <1>5, <1>a, DisturbedType DEF Read
  <2> QED BY <1>5, <1>a, <2>1, <2>2 DEF Read
<1>6. ASSUME NEW h \in Handles, WriteBegin(h)
      PROVE  Typed
  <2>1. version' \in Nat
    BY <1>6, <1>a DEF WriteBegin
  <2>2. status' \in [Paths -> Entry]
    BY <1>6, <1>a, <1>d, EntryType DEF WriteBegin
  <2>3. fresh' \in [Handles -> Nat]
    BY <1>6, <1>a, <2>1, DisturbedType DEF WriteBegin
  <2>4. [handle[h] EXCEPT !.pc = "writing", !.buf = version'] \in GoodHandle
    BY <1>6, <1>d, <2>1, HandleMoves DEF WriteBegin
  <2>5. handle' \in [Handles -> GoodHandle]
    BY <1>6, <1>a, <2>4 DEF WriteBegin
  <2> QED BY <1>6, <1>a, <2>1, <2>2, <2>3, <2>5 DEF WriteBegin
<1>7. ASSUME NEW h \in Handles, WriteEnd(h)
      PROVE  Typed
  <2>1. [handle[h] EXCEPT !.pc = "open", !.buf = NoFile] \in GoodHandle
    BY <1>7, <1>d, HandleMoves DEF WriteEnd, NoFile
  <2>2. handle' \in [Handles -> GoodHandle]
    BY <1>7, <1>a, <2>1 DEF WriteEnd
  <2>3. local' \in [Locals -> Nat]
    BY <1>7, <1>a, <1>d DEF WriteEnd, SetLocal
  <2>4. fresh' \in [Handles -> Nat]
    BY <1>7, <1>a DEF WriteEnd
  <2> QED BY <1>7, <1>a, <2>2, <2>3, <2>4 DEF WriteEnd
<1>8. ASSUME NEW h \in Handles, FlushBegin(h)
      PROVE  Typed
  <2> DEFINE p == handle[h].path
  <2>1. p \in Paths /\ status[p] \in Entry
    BY <1>8, <1>a, <1>d DEF FlushBegin
  <2>2. PushSource(p) \in Locals
    BY <2>1, <1>b DEF PushSource, Entry
  <2>3. /\ [handle[h] EXCEPT !.pc = "flushing", !.buf = local[PushSource(p)]]
              \in GoodHandle
        /\ \A pc \in {"open", "closing"} :
              [handle[h] EXCEPT !.pc = pc] \in GoodHandle
    BY <1>8, <1>a, <1>d, <2>2, HandleMoves DEF FlushBegin
  <2>4. handle' \in [Handles -> GoodHandle]
    <3>1. CASE NeedsPush(status[p])
      <4>1. handle' = [handle EXCEPT ![h] =
                 [handle[h] EXCEPT !.pc = "flushing", !.buf = local[PushSource(p)]]]
        BY <1>8, <1>a, <3>1 DEF FlushBegin
      <4> QED BY <1>a, <2>3, <4>1
    <3>2. CASE ~NeedsPush(status[p])
      <4>1. PICK pc \in {"open", "closing"} : handle' = [handle EXCEPT ![h].pc = pc]
        BY <1>8, <3>2 DEF FlushBegin
      <4>2. [handle[h] EXCEPT !.pc = pc] \in GoodHandle
        BY <2>3
      <4> QED BY <1>a, <4>1, <4>2
    <3> QED BY <3>1, <3>2
  <2>5. FlushedEntry(status[p]) \in Entry
    BY <2>1, EntryType
  <2>6. status' \in [Paths -> Entry]
    BY <1>8, <1>a, <2>5 DEF FlushBegin
  <2> QED BY <1>8, <1>a, <2>4, <2>6, DisturbedType DEF FlushBegin
<1>9. ASSUME NEW h \in Handles, FlushEnd(h)
      PROVE  Typed
  <2>1. PICK outcome \in PushOutcomes, pc \in {"open", "closing"} :
           /\ device' = Pushed(handle[h].path, handle[h].buf, outcome)
           /\ status' = [status EXCEPT ![handle[h].path] = FlushedEntry(@)]
           /\ handle' = [handle EXCEPT ![h].pc = pc, ![h].buf = NoFile]
           /\ fresh' = Unstored(h, outcome)
    BY <1>9 DEF FlushEnd
  <2>2. device' \in [Paths -> Nat]
    BY <1>a, <1>d, <2>1, PushedType
  <2>3. status' \in [Paths -> Entry]
    BY <1>9, <1>a, <1>d, <2>1, EntryType DEF FlushEnd
  <2>4. [handle[h] EXCEPT !.pc = pc, !.buf = NoFile] \in GoodHandle
    BY <1>9, <1>d, HandleMoves DEF FlushEnd, NoFile
  <2>5. handle' \in [Handles -> GoodHandle]
    BY <1>a, <2>1, <2>4
  <2>6. fresh' \in [Handles -> Nat]
    BY <1>a, <2>1 DEF Unstored
  <2> QED BY <1>9, <1>a, <2>2, <2>3, <2>5, <2>6 DEF FlushEnd
<1>10. ASSUME NEW h \in Handles, FsyncBegin(h)
       PROVE  Typed
  <2>1. [handle[h] EXCEPT !.pc = "syncing", !.buf = local[LocalOf[handle[h].path]]]
           \in GoodHandle
    BY <1>10, <1>b, <1>d, HandleMoves DEF FsyncBegin
  <2>2. handle' \in [Handles -> GoodHandle]
    BY <1>10, <1>a, <2>1 DEF FsyncBegin
  <2> QED BY <1>10, <1>a, <2>2, DisturbedType DEF FsyncBegin
<1>11. ASSUME NEW h \in Handles, FsyncEnd(h)
       PROVE  Typed
  <2>1. PICK outcome \in PushOutcomes :
           /\ device' = Pushed(handle[h].path, handle[h].buf, outcome)
           /\ status' = [status EXCEPT ![handle[h].path] =
                            PendingOpen(@, FALSE, FALSE)]
           /\ handle' = [handle EXCEPT ![h].pc = "open", ![h].buf = NoFile]
           /\ fresh' = Unstored(h, outcome)
    BY <1>11 DEF FsyncEnd
  <2>2. device' \in [Paths -> Nat]
    BY <1>a, <1>d, <2>1, PushedType
  <2>3. status' \in [Paths -> Entry]
    BY <1>11, <1>a, <1>d, <2>1, EntryType DEF FsyncEnd
  <2>4. [handle[h] EXCEPT !.pc = "open", !.buf = NoFile] \in GoodHandle
    BY <1>11, <1>d, HandleMoves DEF FsyncEnd, NoFile
  <2>5. handle' \in [Handles -> GoodHandle]
    BY <1>a, <2>1, <2>4
  <2>6. fresh' \in [Handles -> Nat]
    BY <1>a, <2>1 DEF Unstored
  <2> QED BY <1>11, <1>a, <2>2, <2>3, <2>5, <2>6 DEF FsyncEnd
<1>12. ASSUME NEW h \in Handles, Release(h)
       PROVE  Typed
  <2>1. status' \in [Paths -> Entry]
    BY <1>12, <1>a, <1>d, EntryType DEF Release
  <2>2. handle' \in [Handles -> GoodHandle]
    BY <1>12, <1>a, HandleType DEF Release
  <2>3. fresh' \in [Handles -> Nat]
    BY <1>12, <1>a, DisturbedType DEF Release
  <2> QED BY <1>12, <1>a, <2>1, <2>2, <2>3 DEF Release
<1>13. ASSUME NEW p \in Paths, Truncate(p)
       PROVE  Typed
  <2>1. version' \in Nat /\ local' \in [Locals -> Nat]
    BY <1>13, <1>a, <1>b DEF Truncate
  <2>2. status' \in [Paths -> Entry]
    BY <1>13, <1>a, EntryType DEF Truncate
  <2> QED BY <1>13, <1>a, <2>1, <2>2, DisturbedType DEF Truncate
<1>14. ASSUME NEW p \in Paths, Mknod(p)
       PROVE  Typed
  <2>1. version' \in Nat /\ local' \in [Locals -> Nat]
    BY <1>14, <1>a, <1>b DEF Mknod
  <2>2. device' \in [Paths -> Nat]
    BY <1>14, <1>a, <2>1, PushedType DEF Mknod
  <2> QED BY <1>14, <1>a, <2>1, <2>2 DEF Mknod
<1>15. ASSUME NEW p \in Paths, Unlink(p)
       PROVE  Typed
  <2>1. \A g \in Handles : [handle[g] EXCEPT !.loc = None] \in GoodHandle
    BY <1>a DEF GoodHandle, HandleState
  <2>2. handle' \in [Handles -> GoodHandle]
    BY <1>15, <1>a, <2>1 DEF Unlink, Detached
  <2> QED BY <1>15, <1>a, <1>b, <2>2 DEF Unlink, NoFile
<1>16. ASSUME NEW a \in Paths, NEW b \in Paths, Rename(a, b)
       PROVE  Typed
  <2>1. device' \in [Paths -> Nat]
    BY <1>16, <1>a DEF Rename, NoFile
  <2>2. PendingRenamed(status[b], LocalOf[a]) \in Entry
    BY <1>a, <1>b, EntryType
  <2>3. status' \in [Paths -> Entry]
    BY <1>16, <1>a, <2>2 DEF Rename
  <2>4. \A g \in Handles : [handle[g] EXCEPT !.path = b] \in GoodHandle
    BY <1>a DEF GoodHandle, HandleState
  <2>5. handle' \in [Handles -> GoodHandle]
    BY <1>16, <1>a, <2>4 DEF Rename
  <2> QED BY <1>16, <1>a, <2>1, <2>3, <2>5, DisturbedType DEF Rename
<1>17. ASSUME NEW h \in Handles, FlushFail(h)
       PROVE  Typed
  <2>1. PICK pc \in {"open", "closing"} : handle' = [handle EXCEPT ![h].pc = pc]
    BY <1>17 DEF FlushFail
  <2>2. [handle[h] EXCEPT !.pc = pc] \in GoodHandle
    BY <1>17, <1>d, HandleMoves DEF FlushFail
  <2>3. handle' \in [Handles -> GoodHandle]
    BY <1>a, <2>1, <2>2
  <2> QED BY <1>17, <1>a, <2>3 DEF FlushFail
<1>18. CASE UNCHANGED vars
  BY <1>18, <1>a DEF vars
<1> QED
  BY <1>1, <1>2, <1>3, <1>4, <1>5, <1>6, <1>7, <1>8, <1>9, <1>10, <1>11,
     <1>12, <1>13, <1>14, <1>15, <1>16, <1>17, <1>18 DEF Next

\* Every variable holds a value of its type, for every number of files and
\* handles and every workload: the FileStatus table and the open files stay well
\* formed whatever callbacks of libfuse's threads interleave.
THEOREM TypeCorrect == Spec => []TypeOK
<1>1. Init => TypeInv
  BY TypeInit
<1>2. TypeInv /\ [Next]_vars => TypeInv'
  BY TypeStep
<1>3. TypeInv => TypeOK
  BY DEF TypeInv
<1> QED BY <1>1, <1>2, <1>3, PTL DEF Spec

-----------------------------------------------------------------------------
(* One callback at a time: adbncfs mounted with -s, and no rename.         *)

\* No file of the device is newer than its local copy, or than the last version.
FileAt(e, d, l, v) ==
    /\ e.renamedFrom = None
    /\ d <= v /\ l <= v
    /\ l # NoFile => l >= d

\* What the call in progress transfers is still what it found when it started.
Transfers(r, d, lc, v) ==
    /\ r.pc \notin {"free", "leaked"} => r.loc \in {None, LocalOf[r.path]}
    /\ r.pc = "opening" => r.loc = LocalOf[r.path] /\ r.buf = d[r.path]
    /\ r.pc = "writing" => r.buf = v
    /\ r.pc \in {"flushing", "syncing"} => r.buf = lc[LocalOf[r.path]]

SerialInv ==
    /\ \A g, h \in Handles : Busy(g) /\ Busy(h) => g = h
    /\ \A p \in Paths : FileAt(status[p], device[p], local[LocalOf[p]], version)
    /\ \A h \in Handles : Transfers(handle[h], device, local, version)

\* Only rename makes an entry that was renamed from another.
LEMMA EntryNotRenamed ==
    \A e \in Entry : e.renamedFrom = None =>
        /\ \A b1, b2 \in BOOLEAN : PendingOpen(e, b1, b2).renamedFrom = None
        /\ \A b1 \in BOOLEAN : Truncated(e, b1).renamedFrom = None
        /\ FlushedEntry(e).renamedFrom = None /\ ReleasedEntry(e).renamedFrom = None
BY DEF Entry, PendingOpen, Truncated, FlushedEntry, ReleasedEntry

\* A step on one file leaves the local copies of the others alone.
LEMMA OtherFiles ==
    ASSUME TypeInv, SerialInv, NEW p \in Paths, version' \in Nat, version' >= version,
           \A q \in Paths \ {p} : device'[q] = device[q] /\ status'[q] = status[q],
           \A l \in Locals \ {LocalOf[p]} : local'[l] = local[l],
           FileAt(status'[p], device'[p], local'[LocalOf[p]], version')
    PROVE  \A q \in Paths : FileAt(status'[q], device'[q], local'[LocalOf[q]], version')
<1>1. ASSUME NEW q \in Paths \ {p}
      PROVE  FileAt(status'[q], device'[q], local'[LocalOf[q]], version')
  <2>1. LocalOf[q] \in Locals \ {LocalOf[p]}
    BY NamesAssumption
  <2>2. /\ device'[q] = device[q] /\ status'[q] = status[q]
        /\ local'[LocalOf[q]] = local[LocalOf[q]]
    BY <2>1
  <2>3. FileAt(status[q], device[q], local[LocalOf[q]], version)
    BY DEF SerialInv
  <2>4. device[q] \in Nat /\ local[LocalOf[q]] \in Nat /\ version \in Nat
    BY <2>1 DEF TypeInv, TypeOK
  <2> QED BY <2>2, <2>3, <2>4 DEF FileAt
<1> QED BY <1>1

\* A step that changes neither content of a file, and may make a new version.
LEMMA FileKept ==
    ASSUME TypeInv, SerialInv, NEW p \in Paths, version' \in Nat, version' >= version,
           \A q \in Paths \ {p} : device'[q] = device[q] /\ status'[q] = status[q],
           \A l \in Locals \ {LocalOf[p]} : local'[l] = local[l],
           status'[p].renamedFrom = None, device'[p] = device[p],
           local'[LocalOf[p]] = local[LocalOf[p]]
    PROVE  \A q \in Paths : FileAt(status'[q], device'[q], local'[LocalOf[q]], version')
<1>1. FileAt(status[p], device[p], local[LocalOf[p]], version)
  BY DEF SerialInv
<1>2. device[p] \in Nat /\ local[LocalOf[p]] \in Nat /\ version \in Nat
  BY NamesAssumption DEF TypeInv, TypeOK
<1>3. FileAt(status'[p], device'[p], local'[LocalOf[p]], version')
  BY <1>1, <1>2 DEF FileAt
<1> QED BY <1>3, OtherFiles

\* A callback runs alone: the others only keep their descriptors, or lose the name.
LEMMA OtherHandles ==
    ASSUME TypeInv, SerialInv, NEW h \in Handles,
           \A g \in Handles \ {h} : ~Busy(g),
           \A g \in Handles \ {h} :
              \/ handle'[g] = handle[g]
              \/ /\ handle'[g].pc = handle[g].pc /\ handle'[g].path = handle[g].path
                 /\ handle'[g].loc = None,
           Transfers(handle'[h], device', local', version')
    PROVE  /\ \A g, k \in Handles : Busy(g)' /\ Busy(k)' => g = k
           /\ \A g \in Handles : Transfers(handle'[g], device', local', version')
<1>1. \A g \in Handles \ {h} : ~Busy(g)'
  BY DEF Busy
<1>2. ASSUME NEW g \in Handles \ {h}
      PROVE  Transfers(handle'[g], device', local', version')
  <2>1. Transfers(handle[g], device, local, version) /\ ~Busy(g)
    BY DEF SerialInv
  <2> QED BY <2>1 DEF Transfers, Busy
<1> QED BY <1>1, <1>2

\* When a callback starts, or one is running, no other handle is in a call.
LEMMA RunsAlone ==
    ASSUME ~MultiThreaded, SerialInv, NEW h \in Handles, CanStart \/ Busy(h)
    PROVE  \A g \in Handles \ {h} : ~Busy(g)
BY DEF CanStart, SerialInv

\* What a handle is on.
LEMMA HandleOn ==
    ASSUME TypeInv, NEW h \in Handles, handle[h].pc \notin {"free", "leaked"}
    PROVE  /\ handle[h].path \in Paths /\ LocalOf[handle[h].path] \in Locals
           /\ handle[h].loc \in Locals \cup {None} /\ handle[h].buf \in Nat
           /\ status[handle[h].path] \in Entry
           /\ device[handle[h].path] \in Nat
           /\ local[LocalOf[handle[h].path]] \in Nat
<1>1. handle[h] \in GoodHandle
  BY DEF TypeInv
<1>2. /\ handle[h].path \in Paths /\ handle[h].loc \in Locals \cup {None}
      /\ handle[h].buf \in Nat
  BY <1>1 DEF GoodHandle, HandleState
<1>3. LocalOf[handle[h].path] \in Locals
  BY <1>2, NamesAssumption
<1> QED BY <1>2, <1>3 DEF TypeInv, TypeOK

LEMMA OpenSerial ==
    ASSUME ~MultiThreaded, TypeInv, SerialInv, NEW h \in Handles,
           (\E p \in Paths : OpenBegin(h, p)) \/ OpenEnd(h) \/ OpenStale(h) \/ OpenFail(h)
    PROVE  SerialInv'
<1>a. /\ handle \in [Handles -> HandleState] /\ local \in [Locals -> Nat]
      /\ status \in [Paths -> Entry] /\ device \in [Paths -> Nat] /\ version \in Nat
  BY DEF TypeInv, TypeOK
<1>b. \A q \in Paths : FileAt(status[q], device[q], local[LocalOf[q]], version)
  BY DEF SerialInv
<1>c. \A g \in Handles \ {h} : ~Busy(g)
  BY RunsAlone DEF OpenBegin, OpenEnd, OpenStale, OpenFail, Busy
<1>1. ASSUME NEW p \in Paths, OpenBegin(h, p) PROVE SerialInv'
  <2>1. UNCHANGED <<device, local, version>>
    BY <1>1 DEF OpenBegin
  <2>2. /\ \A q \in Paths \ {p} : status'[q] = status[q]
        /\ status'[p] = status[p] \/ status'[p] = Truncated(status[p], FALSE)
    BY <1>1, <1>a DEF OpenBegin
  <2>3. FileAt(status'[p], device'[p], local'[LocalOf[p]], version')
    BY <1>a, <1>b, <2>1, <2>2, EntryNotRenamed DEF FileAt
  <2>4. \A q \in Paths : FileAt(status'[q], device'[q], local'[LocalOf[q]], version')
    BY <1>a, <2>1, <2>2, <2>3, OtherFiles
  <2>5. /\ \A g \in Handles \ {h} : handle'[g] = handle[g]
        /\ \/ handle'[h].pc = "free"
           \/ handle'[h] = OpenHandle(p, LocalOf[p])
           \/ handle'[h] = [pc |-> "opening", path |-> p, loc |-> LocalOf[p],
                            buf |-> device[p]]
    BY <1>1, <1>a DEF OpenBegin
  <2>6. Transfers(handle'[h], device', local', version')
    BY <2>1, <2>5 DEF Transfers, OpenHandle
  <2> QED BY <1>c, <2>4, <2>5, <2>6, OtherHandles DEF SerialInv
<1>2. ASSUME OpenEnd(h) PROVE SerialInv'
  <2> DEFINE p == handle[h].path
             l == LocalOf[p]
  <2>1. p \in Paths /\ l \in Locals /\ handle[h].pc = "opening" /\ handle[h].buf \in Nat
    BY <1>2, HandleOn DEF OpenEnd
  <2>2. handle[h].buf = device[p]
    BY <2>1 DEF SerialInv, Transfers
  <2>3. /\ local' = [local EXCEPT ![l] = handle[h].buf]
        /\ UNCHANGED <<device, status, version>>
    BY <1>2 DEF OpenEnd
  <2>4. FileAt(status'[p], device'[p], local'[l], version')
    BY <1>a, <1>b, <2>1, <2>2, <2>3 DEF FileAt
  <2>5. \A q \in Paths : FileAt(status'[q], device'[q], local'[LocalOf[q]], version')
    BY <1>a, <2>1, <2>3, <2>4, OtherFiles
  <2>6. PICK detach \in BOOLEAN :
           handle' = [g \in Handles |->
                  IF g = h THEN OpenHandle(p, l)
                  ELSE IF detach /\ handle[g].loc = l
                       THEN [handle[g] EXCEPT !.loc = None] ELSE handle[g]]
    BY <1>2 DEF OpenEnd
  <2>7. ASSUME NEW g \in Handles \ {h}
        PROVE  \/ handle'[g] = handle[g]
               \/ /\ handle'[g].pc = handle[g].pc /\ handle'[g].path = handle[g].path
                  /\ handle'[g].loc = None
    <3>1. handle[g] \in HandleState
      BY <1>a
    <3>2. /\ [handle[g] EXCEPT !.loc = None].pc = handle[g].pc
          /\ [handle[g] EXCEPT !.loc = None].path = handle[g].path
          /\ [handle[g] EXCEPT !.loc = None].loc = None
      BY <3>1 DEF HandleState
    <3> QED BY <2>6, <3>2
  <2>8. handle'[h] = OpenHandle(p, l)
    BY <2>6
  <2>9. Transfers(handle'[h], device', local', version')
    BY <2>8 DEF Transfers, OpenHandle
  <2> QED BY <1>c, <2>5, <2>7, <2>9, OtherHandles DEF SerialInv
<1>3. ASSUME OpenStale(h) \/ OpenFail(h) PROVE SerialInv'
  <2>1. UNCHANGED <<device, local, status, version>>
    BY <1>3 DEF OpenStale, OpenFail
  <2>2. handle[h].pc = "opening" /\ handle[h].loc = LocalOf[handle[h].path]
    BY <1>3 DEF OpenStale, OpenFail, SerialInv, Transfers
  <2>3. /\ \A g \in Handles \ {h} : handle'[g] = handle[g]
        /\ \/ handle'[h] = FreeHandle
           \/ handle'[h] = OpenHandle(handle[h].path, LocalOf[handle[h].path])
    BY <1>3, <1>a, <2>2 DEF OpenStale, OpenFail
  <2>4. Transfers(handle'[h], device', local', version')
    BY <2>3 DEF Transfers, OpenHandle, FreeHandle
  <2> QED BY <1>b, <1>c, <2>1, <2>3, <2>4, OtherHandles DEF SerialInv
<1> QED BY <1>1, <1>2, <1>3

\* The program counter of h and its version change, nothing else of the handles.
LEMMA Moved ==
    ASSUME handle \in [Handles -> HandleState], NEW h \in Handles, NEW pc, NEW v,
           handle' = [handle EXCEPT ![h].pc = pc, ![h].buf = v]
    PROVE  /\ handle'[h].pc = pc /\ handle'[h].buf = v
           /\ handle'[h].path = handle[h].path /\ handle'[h].loc = handle[h].loc
           /\ \A g \in Handles \ {h} : handle'[g] = handle[g]
<1> DEFINE r == [handle[h] EXCEPT !.pc = pc, !.buf = v]
<1>1. handle' = [handle EXCEPT ![h] = r] /\ handle[h] \in HandleState
  OBVIOUS
<1>2. /\ r.pc = pc /\ r.buf = v
      /\ r.path = handle[h].path /\ r.loc = handle[h].loc
  BY <1>1 DEF HandleState
<1> HIDE DEF r
<1> QED BY <1>1, <1>2

LEMMA MovedOn ==
    ASSUME handle \in [Handles -> HandleState], NEW h \in Handles, NEW pc,
           handle' = [handle EXCEPT ![h].pc = pc]
    PROVE  /\ handle'[h].pc = pc
           /\ handle'[h].path = handle[h].path /\ handle'[h].loc = handle[h].loc
           /\ \A g \in Handles \ {h} : handle'[g] = handle[g]
<1> DEFINE r == [handle[h] EXCEPT !.pc = pc]
<1>1. handle' = [handle EXCEPT ![h] = r] /\ handle[h] \in HandleState
  OBVIOUS
<1>2. r.pc = pc /\ r.path = handle[h].path /\ r.loc = handle[h].loc
  BY <1>1 DEF HandleState
<1> HIDE DEF r
<1> QED BY <1>1, <1>2

\* A write is newer than everything else.
LEMMA WriteSerial ==
    ASSUME ~MultiThreaded, TypeInv, SerialInv, NEW h \in Handles,
           Read(h) \/ WriteBegin(h) \/ WriteEnd(h)
    PROVE  SerialInv'
<1> DEFINE p == handle[h].path
<1>a. /\ handle \in [Handles -> HandleState] /\ local \in [Locals -> Nat]
      /\ status \in [Paths -> Entry] /\ device \in [Paths -> Nat] /\ version \in Nat
  BY DEF TypeInv, TypeOK
<1>b. \A q \in Paths : FileAt(status[q], device[q], local[LocalOf[q]], version)
  BY DEF SerialInv
<1>c. \A g \in Handles \ {h} : ~Busy(g)
  BY RunsAlone DEF Read, WriteBegin, WriteEnd, Busy
<1>d. /\ p \in Paths /\ LocalOf[p] \in Locals /\ handle[h].loc \in {None, LocalOf[p]}
      /\ Transfers(handle[h], device, local, version)
  BY HandleOn DEF Read, WriteBegin, WriteEnd, SerialInv, Transfers
<1>e. \A b \in BOOLEAN : PendingOpen(status[p], TRUE, b).renamedFrom = None
  <2>1. status[p] \in Entry /\ status[p].renamedFrom = None
    BY <1>a, <1>b, <1>d DEF FileAt
  <2> QED BY <2>1, EntryNotRenamed
<1>1. ASSUME Read(h) PROVE SerialInv'
  <2>1. /\ handle[h].pc = "open" /\ UNCHANGED <<device, local, handle, version>>
        /\ status'[p] = PendingOpen(status[p], TRUE, FALSE)
        /\ \A q \in Paths \ {p} : status'[q] = status[q]
    <3>1. status' = [status EXCEPT ![p] = PendingOpen(status[p], TRUE, FALSE)]
      BY <1>1 DEF Read
    <3> QED BY <1>1, <1>a, <1>d, <3>1 DEF Read
  <2>2. /\ version' \in Nat /\ version' >= version
        /\ device'[p] = device[p] /\ local'[LocalOf[p]] = local[LocalOf[p]]
        /\ \A l \in Locals \ {LocalOf[p]} : local'[l] = local[l]
        /\ \A q \in Paths \ {p} : device'[q] = device[q] /\ status'[q] = status[q]
    BY <1>a, <2>1
  <2>3. \A q \in Paths : FileAt(status'[q], device'[q], local'[LocalOf[q]], version')
    BY <1>d, <1>e, <2>1, <2>2, FileKept
  <2> QED BY <2>1, <2>3 DEF SerialInv, Busy
<1>2. ASSUME WriteBegin(h) PROVE SerialInv'
  <2>1. /\ version' = version + 1 /\ UNCHANGED <<device, local>>
        /\ status'[p] = PendingOpen(status[p], TRUE, TRUE)
        /\ \A q \in Paths \ {p} : status'[q] = status[q]
    <3>1. status' = [status EXCEPT ![p] = PendingOpen(status[p], TRUE, TRUE)]
      BY <1>2 DEF WriteBegin
    <3> QED BY <1>2, <1>a, <1>d, <3>1 DEF WriteBegin
  <2>2. /\ version' \in Nat /\ version' >= version
        /\ device'[p] = device[p] /\ local'[LocalOf[p]] = local[LocalOf[p]]
        /\ \A l \in Locals \ {LocalOf[p]} : local'[l] = local[l]
        /\ \A q \in Paths \ {p} : device'[q] = device[q] /\ status'[q] = status[q]
    BY <1>a, <2>1
  <2>3. \A q \in Paths : FileAt(status'[q], device'[q], local'[LocalOf[q]], version')
    BY <1>d, <1>e, <2>1, <2>2, FileKept
  <2>4. /\ handle'[h].pc = "writing" /\ handle'[h].buf = version'
        /\ handle'[h].path = p /\ handle'[h].loc = handle[h].loc
        /\ \A g \in Handles \ {h} : handle'[g] = handle[g]
    <3> DEFINE v == version'
    <3>1. handle' = [handle EXCEPT ![h].pc = "writing", ![h].buf = v]
      BY <1>2 DEF WriteBegin
    <3> HIDE DEF v
    <3>2. /\ handle'[h].pc = "writing" /\ handle'[h].buf = v
          /\ handle'[h].path = p /\ handle'[h].loc = handle[h].loc
          /\ \A g \in Handles \ {h} : handle'[g] = handle[g]
      BY <1>a, <3>1, Moved
    <3> QED BY <3>2 DEF v
  <2>5. Transfers(handle'[h], device', local', version')
    BY <1>d, <2>4 DEF Transfers
  <2> QED BY <1>c, <2>3, <2>4, <2>5, OtherHandles DEF SerialInv
<1>3. ASSUME WriteEnd(h) PROVE SerialInv'
  <2>1. /\ handle[h].pc = "writing" /\ UNCHANGED <<device, status, version>>
        /\ handle' = [handle EXCEPT ![h].pc = "open", ![h].buf = NoFile]
        /\ local' = SetLocal(handle[h].loc, handle[h].buf) \/ UNCHANGED local
    BY <1>3 DEF WriteEnd
  <2>2. handle[h].buf = version
    BY <1>d, <2>1 DEF Transfers
  <2>3. local' = local \/ local' = [local EXCEPT ![LocalOf[p]] = version]
    BY <1>d, <2>1, <2>2, NamesAssumption DEF SetLocal
  <2>4. FileAt(status'[p], device'[p], local'[LocalOf[p]], version')
    BY <1>a, <1>b, <1>d, <2>1, <2>3 DEF FileAt
  <2>5. \A q \in Paths : FileAt(status'[q], device'[q], local'[LocalOf[q]], version')
    BY <1>a, <1>d, <2>1, <2>3, <2>4, OtherFiles
  <2>6. /\ handle'[h].pc = "open"
        /\ handle'[h].path = p /\ handle'[h].loc = handle[h].loc
        /\ \A g \in Handles \ {h} : handle'[g] = handle[g]
    BY <1>a, <2>1, Moved
  <2>7. Transfers(handle'[h], device', local', version')
    BY <1>d, <2>6 DEF Transfers
  <2> QED BY <1>c, <2>5, <2>6, <2>7, OtherHandles DEF SerialInv
<1> QED BY <1>1, <1>2, <1>3

\* A push stores what was in the local copy when it started, and still is.
LEMMA FlushSerial ==
    ASSUME ~MultiThreaded, TypeInv, SerialInv, NEW h \in Handles,
           FlushBegin(h) \/ FlushFail(h) \/ FsyncBegin(h) \/ Release(h)
    PROVE  SerialInv'
<1> DEFINE p == handle[h].path
<1>a. /\ handle \in [Handles -> HandleState] /\ local \in [Locals -> Nat]
      /\ status \in [Paths -> Entry] /\ device \in [Paths -> Nat] /\ version \in Nat
  BY DEF TypeInv, TypeOK
<1>b. \A q \in Paths : FileAt(status[q], device[q], local[LocalOf[q]], version)
  BY DEF SerialInv
<1>c. \A g \in Handles \ {h} : ~Busy(g)
  BY RunsAlone DEF FlushBegin, FlushFail, FsyncBegin, Release
<1>d. /\ p \in Paths /\ LocalOf[p] \in Locals /\ status[p] \in Entry
      /\ Transfers(handle[h], device, local, version)
  BY HandleOn DEF FlushBegin, FlushFail, FsyncBegin, Release, SerialInv
<1>e. /\ handle[h].pc \notin {"free", "leaked"} /\ UNCHANGED <<device, local, version>>
  BY DEF FlushBegin, FlushFail, FsyncBegin, Release
<1>1. ASSUME status'[p].renamedFrom = None,
             \A q \in Paths \ {p} : status'[q] = status[q]
      PROVE  \A q \in Paths : FileAt(status'[q], device'[q], local'[LocalOf[q]], version')
  <2>1. FileAt(status'[p], device'[p], local'[LocalOf[p]], version')
    BY <1>1, <1>b, <1>d, <1>e DEF FileAt
  <2> QED BY <1>1, <1>a, <1>d, <1>e, <2>1, OtherFiles
<1>2. /\ status'[p].renamedFrom = None
      /\ \A q \in Paths \ {p} : status'[q] = status[q]
  <2>1. /\ \/ status'[p] = status[p]
           \/ status'[p] = FlushedEntry(status[p])
           \/ status'[p] = ReleasedEntry(status[p])
        /\ \A q \in Paths \ {p} : status'[q] = status[q]
    BY <1>a, <1>d DEF FlushBegin, FlushFail, FsyncBegin, Release
  <2>2. status[p].renamedFrom = None
    BY <1>b, <1>d DEF FileAt
  <2> QED BY <1>d, <2>1, <2>2, EntryNotRenamed
<1>3. /\ \A g \in Handles \ {h} : handle'[g] = handle[g]
      /\ \/ /\ handle'[h].pc \in {"open", "closing"}
            /\ handle'[h].path = p /\ handle'[h].loc = handle[h].loc
         \/ /\ handle'[h].pc \in {"flushing", "syncing"}
            /\ handle'[h].path = p /\ handle'[h].loc = handle[h].loc
            /\ handle'[h].buf = local[LocalOf[p]]
         \/ handle'[h].pc \in {"free", "leaked"}
  <2>1. CASE FlushBegin(h) /\ NeedsPush(status[p])
    <3>1. PushSource(p) = LocalOf[p]
      BY <1>b, <1>d DEF PushSource, FileAt
    <3> DEFINE v == local[LocalOf[p]]
    <3>2. handle' = [handle EXCEPT ![h].pc = "flushing", ![h].buf = v]
      BY <2>1, <3>1 DEF FlushBegin
    <3> HIDE DEF v
    <3>3. /\ handle'[h].pc = "flushing" /\ handle'[h].buf = v
          /\ handle'[h].path = p /\ handle'[h].loc = handle[h].loc
          /\ \A g \in Handles \ {h} : handle'[g] = handle[g]
      BY <1>a, <3>2, Moved
    <3> QED BY <3>3 DEF v
  <2>2. CASE FlushFail(h) \/ (FlushBegin(h) /\ ~NeedsPush(status[p]))
    <3>1. PICK pc \in {"open", "closing"} : handle' = [handle EXCEPT ![h].pc = pc]
      BY <2>2 DEF FlushBegin, FlushFail
    <3> QED BY <1>a, <3>1, MovedOn
  <2>3. CASE FsyncBegin(h)
    <3> DEFINE v == local[LocalOf[p]]
    <3>1. handle' = [handle EXCEPT ![h].pc = "syncing", ![h].buf = v]
      BY <2>3 DEF FsyncBegin
    <3> HIDE DEF v
    <3>2. /\ handle'[h].pc = "syncing" /\ handle'[h].buf = v
          /\ handle'[h].path = p /\ handle'[h].loc = handle[h].loc
          /\ \A g \in Handles \ {h} : handle'[g] = handle[g]
      BY <1>a, <3>1, Moved
    <3> QED BY <3>2 DEF v
  <2>4. CASE Release(h)
    BY <1>a, <2>4 DEF Release, FreeHandle, LeakedHandle
  <2> QED BY <2>1, <2>2, <2>3, <2>4
<1>4. Transfers(handle'[h], device', local', version')
  BY <1>d, <1>e, <1>3 DEF Transfers
<1> QED BY <1>c, <1>1, <1>2, <1>3, <1>4, OtherHandles DEF SerialInv

\* What a transfer to the device leaves behind.
PushedTo(h) ==
    /\ handle[h].pc \in {"flushing", "syncing"}
    /\ \/ UNCHANGED device
       \/ /\ handle[h].buf # NoFile
          /\ device' = [device EXCEPT ![handle[h].path] = handle[h].buf]
    /\ UNCHANGED <<local, version>>

LEMMA PushStep ==
    ASSUME TypeInv, NEW h \in Handles, FlushEnd(h) \/ FsyncEnd(h)
    PROVE  PushedTo(h)
BY DEF FlushEnd, FsyncEnd, Pushed, PushedTo

LEMMA PushSerial ==
    ASSUME ~MultiThreaded, TypeInv, SerialInv, NEW h \in Handles,
           FlushEnd(h) \/ FsyncEnd(h)
    PROVE  SerialInv'
<1> DEFINE p == handle[h].path
<1>a. /\ handle \in [Handles -> HandleState] /\ local \in [Locals -> Nat]
      /\ status \in [Paths -> Entry] /\ device \in [Paths -> Nat] /\ version \in Nat
  BY DEF TypeInv, TypeOK
<1>b. \A q \in Paths : FileAt(status[q], device[q], local[LocalOf[q]], version)
  BY DEF SerialInv
<1>c. PushedTo(h) /\ handle[h].pc \notin {"free", "leaked"}
  BY PushStep DEF PushedTo
<1>d. /\ p \in Paths /\ LocalOf[p] \in Locals /\ status[p] \in Entry
      /\ handle[h].buf = local[LocalOf[p]] /\ local[LocalOf[p]] \in Nat
      /\ handle[h].loc \in {None, LocalOf[p]}
  BY <1>c, HandleOn DEF PushedTo, SerialInv, Transfers
<1>e. \A g \in Handles \ {h} : ~Busy(g)
  BY <1>c, RunsAlone DEF PushedTo, Busy
<1>1. /\ status'[p].renamedFrom = None
      /\ \A q \in Paths \ {p} : status'[q] = status[q]
  <2>1. /\ \/ status'[p] = FlushedEntry(status[p])
           \/ status'[p] = PendingOpen(status[p], FALSE, FALSE)
        /\ \A q \in Paths \ {p} : status'[q] = status[q]
    BY <1>a, <1>d DEF FlushEnd, FsyncEnd
  <2>2. status[p].renamedFrom = None
    BY <1>b, <1>d DEF FileAt
  <2> QED BY <1>d, <2>1, <2>2, EntryNotRenamed
<1>2. /\ device'[p] = device[p] \/ (device'[p] = local[LocalOf[p]])
      /\ \A q \in Paths \ {p} : device'[q] = device[q]
      /\ UNCHANGED <<local, version>>
  BY <1>a, <1>c, <1>d DEF PushedTo
<1>3. FileAt(status'[p], device'[p], local'[LocalOf[p]], version')
  BY <1>b, <1>d, <1>1, <1>2 DEF FileAt
<1>4. \A q \in Paths : FileAt(status'[q], device'[q], local'[LocalOf[q]], version')
  BY <1>a, <1>d, <1>1, <1>2, <1>3, OtherFiles
<1>5. /\ handle'[h].pc \in {"open", "closing"}
      /\ handle'[h].path = p /\ handle'[h].loc = handle[h].loc
      /\ \A g \in Handles \ {h} : handle'[g] = handle[g]
  <2>1. PICK pc \in {"open", "closing"} :
           handle' = [handle EXCEPT ![h].pc = pc, ![h].buf = NoFile]
    BY DEF FlushEnd, FsyncEnd
  <2> QED BY <1>a, <2>1, Moved
<1>6. Transfers(handle'[h], device', local', version')
  BY <1>d, <1>5 DEF Transfers
<1> QED BY <1>e, <1>4, <1>5, <1>6, OtherHandles DEF SerialInv

\* The callbacks that have no handle.
LEMMA FileSerial ==
    ASSUME ~MultiThreaded, TypeInv, SerialInv, NEW p \in Paths,
           Truncate(p) \/ Mknod(p) \/ Unlink(p)
    PROVE  SerialInv'
<1>a. /\ handle \in [Handles -> HandleState] /\ local \in [Locals -> Nat]
      /\ status \in [Paths -> Entry] /\ device \in [Paths -> Nat] /\ version \in Nat
      /\ LocalOf[p] \in Locals
  BY NamesAssumption DEF TypeInv, TypeOK
<1>b. FileAt(status[p], device[p], local[LocalOf[p]], version)
  BY DEF SerialInv
<1>c. \A g \in Handles : ~Busy(g) /\ handle'[g].pc = handle[g].pc
  BY <1>a DEF Truncate, Mknod, Unlink, CanStart, Detached, HandleState
<1>d. device[p] \in Nat /\ version \in Nat /\ device[p] <= version
  BY <1>a, <1>b DEF FileAt
<1>e. version' = version + 1 => version' \in Nat /\ version' >= version /\ version' > device[p]
  BY <1>d
<1>1. /\ version' \in Nat /\ version' >= version
      /\ \A q \in Paths \ {p} : device'[q] = device[q] /\ status'[q] = status[q]
      /\ \A l \in Locals \ {LocalOf[p]} : local'[l] = local[l]
      /\ FileAt(status'[p], device'[p], local'[LocalOf[p]], version')
  <2>1. CASE Truncate(p)
    <3>1. /\ version' = version + 1 /\ UNCHANGED device
          /\ local' = [local EXCEPT ![LocalOf[p]] = version']
          /\ status' = [status EXCEPT ![p] = Truncated(status[p], TRUE)]
      BY <2>1 DEF Truncate
    <3>2. status'[p].renamedFrom = None
      BY <1>a, <1>b, <3>1, EntryNotRenamed DEF FileAt
    <3>3. device'[p] = device[p] /\ local'[LocalOf[p]] = version'
      BY <1>a, <3>1
    <3>4. FileAt(status'[p], device'[p], local'[LocalOf[p]], version')
      <4>1. /\ device'[p] <= version' /\ local'[LocalOf[p]] <= version'
            /\ local'[LocalOf[p]] >= device'[p]
        BY <1>d, <3>1, <3>3
      <4> QED BY <3>2, <4>1 DEF FileAt
    <3>5. /\ \A q \in Paths \ {p} : device'[q] = device[q] /\ status'[q] = status[q]
          /\ \A l \in Locals \ {LocalOf[p]} : local'[l] = local[l]
      BY <1>a, <3>1
    <3> QED BY <1>e, <3>1, <3>4, <3>5
  <2>2. CASE Mknod(p)
    <3>1. /\ version' = version + 1 /\ UNCHANGED status
          /\ local' = [local EXCEPT ![LocalOf[p]] = version']
          /\ UNCHANGED device \/ device' = [device EXCEPT ![p] = version']
      BY <2>2 DEF Mknod, Pushed
    <3>2. /\ device'[p] = device[p] \/ (device'[p] = version')
          /\ local'[LocalOf[p]] = version'
      BY <1>a, <3>1
    <3>3. FileAt(status'[p], device'[p], local'[LocalOf[p]], version')
      BY <1>b, <1>d, <1>e, <3>1, <3>2 DEF FileAt
    <3>4. /\ \A q \in Paths \ {p} : device'[q] = device[q] /\ status'[q] = status[q]
          /\ \A l \in Locals \ {LocalOf[p]} : local'[l] = local[l]
      BY <1>a, <3>1
    <3> QED BY <1>e, <3>1, <3>3, <3>4
  <2>3. CASE Unlink(p)
    <3>1. /\ UNCHANGED <<status, version>>
          /\ local' = [local EXCEPT ![LocalOf[p]] = NoFile]
          /\ UNCHANGED device \/ device' = [device EXCEPT ![p] = NoFile]
      BY <2>3 DEF Unlink
    <3>2. /\ device'[p] = device[p] \/ (device'[p] = NoFile)
          /\ local'[LocalOf[p]] = NoFile
      BY <1>a, <3>1
    <3>3. FileAt(status'[p], device'[p], local'[LocalOf[p]], version')
      BY <1>a, <1>b, <3>1, <3>2 DEF FileAt, NoFile
    <3> QED BY <1>a, <3>1, <3>3
  <2> QED BY <2>1, <2>2, <2>3
<1>2. \A q \in Paths : FileAt(status'[q], device'[q], local'[LocalOf[q]], version')
  BY <1>1, OtherFiles
<1>3. \A h \in Handles : Transfers(handle'[h], device', local', version')
  <2>1. ASSUME NEW h \in Handles PROVE Transfers(handle'[h], device', local', version')
    <3>1. Transfers(handle[h], device, local, version) /\ ~Busy(h)
      BY <1>c DEF SerialInv
    <3>2. handle'[h] \in {handle[h], [handle[h] EXCEPT !.loc = None]}
      BY DEF Truncate, Mknod, Unlink, Detached
    <3>3. CASE handle'[h] = handle[h]
      BY <1>c, <3>1, <3>3 DEF Transfers, Busy
    <3>4. CASE handle'[h] = [handle[h] EXCEPT !.loc = None]
      <4>1. /\ handle'[h].pc = handle[h].pc /\ handle'[h].loc = None
            /\ handle'[h].path = handle[h].path
        BY <1>a, <3>4 DEF HandleState
      <4> QED BY <3>1, <4>1 DEF Transfers, Busy
    <3> QED BY <3>2, <3>3, <3>4
  <2> QED BY <2>1
<1> QED BY <1>c, <1>2, <1>3 DEF SerialInv, Busy

LEMMA SerialStep ==
    ASSUME ~MultiThreaded, "rename" \notin Calls
    PROVE  TypeInv /\ SerialInv /\ [Next]_vars => SerialInv'
<1> SUFFICES ASSUME TypeInv, SerialInv, [Next]_vars PROVE SerialInv'
    OBVIOUS
<1>1. ASSUME NEW a \in Paths, NEW b \in Paths PROVE ~Rename(a, b)
  BY DEF Rename
<1>2. CASE UNCHANGED vars
  BY <1>2 DEF vars, SerialInv, Busy
<1> QED BY <1>1, <1>2, OpenSerial, WriteSerial, FlushSerial, PushSerial, FileSerial DEF Next

LEMMA SerialInit == Init => TypeInv /\ SerialInv
<1> SUFFICES ASSUME Init PROVE SerialInv
    BY TypeInit
<1>1. \A p \in Paths : FileAt(status[p], device[p], local[LocalOf[p]], version)
  <2>1. ASSUME NEW p \in Paths
        PROVE  FileAt(status[p], device[p], local[LocalOf[p]], version)
    <3>1. device[p] \in {0, 1} /\ version = 1
      BY DEF Init, NoFile
    <3>2. local[LocalOf[p]] = 0
      BY NamesAssumption DEF Init, NoFile
    <3>3. status[p].renamedFrom = None
      BY DEF Init, NewEntry
    <3> QED BY <3>1, <3>2, <3>3 DEF FileAt, NoFile
  <2> QED BY <2>1
<1>2. \A h \in Handles : handle[h].pc = "free"
  BY DEF Init, FreeHandle
<1> QED BY <1>1, <1>2 DEF SerialInv, Transfers, Busy

\* Mounted with -s, and without rename, the local copy adbnc_open may use without pulling
\* is never older than the file on the device, whatever pushes and local writes fail.
THEOREM LocalNotStaleCorrect ==
    ASSUME ~MultiThreaded, "rename" \notin Calls
    PROVE  Spec => []LocalNotStale
<1>1. TypeInv /\ SerialInv /\ [Next]_vars => (TypeInv /\ SerialInv)'
  BY TypeStep, SerialStep
<1>2. SerialInv => LocalNotStale
  BY DEF SerialInv, FileAt, LocalNotStale
<1> QED BY <1>1, <1>2, SerialInit, PTL DEF Spec

\* Under the same condition a push never replaces the content of a file on the device by
\* an older one.
THEOREM NoRollbackCorrect ==
    ASSUME ~MultiThreaded, "rename" \notin Calls
    PROVE  Spec => NoRollback
<1> DEFINE Newer == \A p \in Paths :
                       {device[p], device'[p]} \subseteq Nat \ {NoFile} =>
                          device'[p] >= device[p]
<1>1. TypeInv /\ SerialInv /\ [Next]_vars => [Newer]_vars
  <2> SUFFICES ASSUME TypeInv, SerialInv, Next, NEW p \in Paths,
                      device[p] # NoFile, device'[p] # NoFile
               PROVE  device'[p] >= device[p]
    OBVIOUS
  <2>a. device \in [Paths -> Nat] /\ FileAt(status[p], device[p], local[LocalOf[p]], version)
    BY DEF TypeInv, TypeOK, SerialInv
  <2>1. CASE UNCHANGED device
    BY <2>1, <2>a
  <2>2. ASSUME NEW h \in Handles, FlushEnd(h) \/ FsyncEnd(h)
        PROVE  device'[p] >= device[p]
    <3>1. /\ PushedTo(h) /\ handle[h].buf = local[LocalOf[handle[h].path]]
          /\ handle[h].path \in Paths
      BY <2>2, PushStep, HandleOn DEF PushedTo, SerialInv, Transfers
    <3>2. \/ device'[p] = device[p]
          \/ device'[p] = local[LocalOf[p]] /\ local[LocalOf[p]] # NoFile
      BY <2>a, <3>1 DEF PushedTo
    <3> QED BY <2>a, <3>2 DEF FileAt
  <2>3. ASSUME NEW q \in Paths, Mknod(q) \/ Unlink(q)
        PROVE  device'[p] >= device[p]
    <3>1. device'[p] = device[p]
      BY <2>a, <2>3 DEF Mknod, Unlink, Pushed
    <3> QED BY <2>a, <3>1
  <2>4. CASE ~UNCHANGED device
    <3>1. \/ \E h \in Handles : FlushEnd(h) \/ FsyncEnd(h)
          \/ \E q \in Paths : Mknod(q) \/ Unlink(q)
      BY <2>4 DEF Next, OpenBegin, OpenEnd, OpenStale, OpenFail, Read, WriteBegin, WriteEnd,
                  FlushBegin, FlushFail, FsyncBegin, Release, Truncate, Rename
    <3> QED BY <2>2, <2>3, <3>1
  <2> QED BY <2>1, <2>4
<1>2. TypeInv /\ SerialInv /\ [Next]_vars => (TypeInv /\ SerialInv)'
  BY TypeStep, SerialStep
<1> QED BY <1>1, <1>2, SerialInit, PTL DEF Spec, NoRollback
=============================================================================

------------------------- MODULE WriteBackDelivery -------------------------
(***************************************************************************)
(* The proof that close delivers what a handle wrote (Delivered of         *)
(* WriteBack), whatever the other threads do.                              *)
(***************************************************************************)
EXTENDS WriteBackProofs

\* One open runs at a time, and it pulls into the local copy of its path.
OpenInv ==
    \A g, h \in Handles :
        handle[g].pc = "opening" =>
            /\ handle[g].loc = LocalOf[handle[g].path]
            /\ handle[h].pc = "opening" => g = h

\* Where the version a handle wrote is, as long as nobody disturbed it: in the
\* call in progress, or in the local copy and then either marked to be pushed or
\* already on the device.
HoldsFresh(h) ==
    LET p == handle[h].path
        l == LocalOf[p]
    IN  /\ handle[h].pc \in {"open", "writing", "flushing", "syncing", "closing"}
        /\ handle[h].loc = l
        /\ status[p].renamedFrom = None
        /\ \A g \in Handles : g # h /\ Busy(g) => ~Touches(g, p, l)
        /\ handle[h].pc = "writing" =>
              handle[h].buf = fresh[h] /\ NeedsPush(status[p])
        /\ handle[h].pc # "writing" =>
              local[l] = fresh[h] /\ (NeedsPush(status[p]) \/ device[p] = fresh[h])
        /\ handle[h].pc \in {"flushing", "syncing"} => handle[h].buf = fresh[h]
        /\ handle[h].pc = "closing" => device[p] = fresh[h]

FreshInv == \A h \in Handles : fresh[h] # 0 => HoldsFresh(h)

DeliveryInv == TypeInv /\ OpenInv /\ FreshInv

-----------------------------------------------------------------------------
\* What OpenBegin makes of a handle.
AfterOpenBegin(x, p) ==
    /\ x.pc \in {"free", "open", "opening"}
    /\ x.pc = "opening" =>
          /\ x.path = p /\ x.loc = LocalOf[p]
          /\ \A g \in Handles : handle[g].pc # "opening"

\* An open that finds the file truncated or on the host is over at once, another
\* one starts a pull: nothing else happens to the handles.
LEMMA OpenBeginHandle ==
    ASSUME handle \in [Handles -> HandleState],
           NEW h \in Handles, NEW p \in Paths, OpenBegin(h, p)
    PROVE  \E x : handle' = [handle EXCEPT ![h] = x] /\ AfterOpenBegin(x, p)
<1>1. CASE status[p].truncated \/ p \in OnHost
  <2>1. CASE local[LocalOf[p]] # NoFile
    <3>1. handle' = [handle EXCEPT ![h] = OpenHandle(p, LocalOf[p])]
      BY <1>1, <2>1 DEF OpenBegin
    <3>2. AfterOpenBegin(OpenHandle(p, LocalOf[p]), p)
      BY DEF OpenHandle, AfterOpenBegin
    <3> QED BY <3>1, <3>2
  <2>2. CASE local[LocalOf[p]] = NoFile
    <3>1. handle' = [handle EXCEPT ![h] = handle[h]] /\ handle[h].pc = "free"
      BY <1>1, <2>2 DEF OpenBegin
    <3>2. AfterOpenBegin(handle[h], p)
      BY <3>1 DEF AfterOpenBegin
    <3> QED BY <3>1, <3>2
  <2> QED BY <2>1, <2>2
<1>2. CASE ~(status[p].truncated \/ p \in OnHost)
  <2> DEFINE x == [pc |-> "opening", path |-> p, loc |-> LocalOf[p], buf |-> device[p]]
  <2>1. handle' = [handle EXCEPT ![h] = x]
    BY <1>2 DEF OpenBegin
  <2>2. \A g \in Handles : handle[g].pc # "opening"
    BY DEF OpenBegin, OpenMutexFree
  <2>3. AfterOpenBegin(x, p)
    BY <2>2 DEF AfterOpenBegin
  <2> HIDE DEF x
  <2> QED BY <2>1, <2>3
<1> QED BY <1>1, <1>2

\* openMutex is taken by OpenBegin and released by the step that ends the open.
LEMMA OpenStep == TypeInv /\ OpenInv /\ [Next]_vars => OpenInv'
<1> SUFFICES ASSUME TypeInv, OpenInv, [Next]_vars
             PROVE  OpenInv'
    OBVIOUS
<1> USE NamesAssumption
<1>a. handle \in [Handles -> HandleState]
  BY DEF TypeInv, TypeOK
<1> DEFINE NoNewOpen ==
      \A g \in Handles : handle'[g].pc = "opening" => handle'[g] = handle[g]
<1>b. NoNewOpen => OpenInv'
  BY DEF OpenInv
<1>c. \A h \in Handles : handle[h].pc = "opening" => handle[h].path \in Paths
  BY DEF TypeInv, GoodHandle
<1>1. ASSUME NEW h \in Handles, NEW p \in Paths, OpenBegin(h, p)
      PROVE  OpenInv'
  <2>1. PICK x : handle' = [handle EXCEPT ![h] = x] /\ AfterOpenBegin(x, p)
    BY <1>1, <1>a, OpenBeginHandle
  <2>2. CASE x.pc = "opening"
    BY <1>a, <2>1, <2>2 DEF OpenInv, AfterOpenBegin
  <2>3. CASE x.pc # "opening"
    <3>1. NoNewOpen
      BY <1>a, <2>1, <2>3
    <3> QED BY <3>1, <1>b
  <2> QED BY <2>2, <2>3
<1>2. ASSUME NEW h \in Handles, OpenEnd(h)
      PROVE  OpenInv'
  BY <1>2, <1>a DEF OpenEnd, OpenInv, OpenHandle, HandleState
<1>3. ASSUME NEW h \in Handles, OpenStale(h) \/ OpenFail(h)
      PROVE  OpenInv'
  BY <1>3, <1>a DEF OpenStale, OpenFail, OpenInv, OpenHandle, FreeHandle
<1>4. ASSUME NEW h \in Handles, Read(h) \/ WriteBegin(h) \/ WriteEnd(h)
      PROVE  OpenInv'
  <2>1. CASE Read(h)
    BY <2>1, <1>b DEF Read
  <2>2. CASE WriteBegin(h)
    BY <2>2, <1>a, <1>b DEF WriteBegin, HandleState
  <2>3. CASE WriteEnd(h)
    BY <2>3, <1>a, <1>b DEF WriteEnd, HandleState
  <2> QED BY <1>4, <2>1, <2>2, <2>3
<1>5. ASSUME NEW h \in Handles, FlushBegin(h) \/ FlushEnd(h) \/ FlushFail(h)
      PROVE  OpenInv'
  BY <1>5, <1>a DEF FlushBegin, FlushEnd, FlushFail, OpenInv, HandleState
<1>6. ASSUME NEW h \in Handles, FsyncBegin(h) \/ FsyncEnd(h) \/ Release(h)
      PROVE  OpenInv'
  <2>1. CASE FsyncBegin(h)
    BY <2>1, <1>a, <1>b DEF FsyncBegin, HandleState
  <2>2. CASE FsyncEnd(h)
    BY <2>2, <1>a, <1>b DEF FsyncEnd, HandleState
  <2>3. CASE Release(h)
    BY <2>3, <1>a, <1>b DEF Release, FreeHandle, LeakedHandle, HandleState
  <2> QED BY <1>6, <2>1, <2>2, <2>3
<1>7. ASSUME NEW p \in Paths, Truncate(p) \/ Mknod(p) \/ Unlink(p)
      PROVE  OpenInv'
  <2>1. CASE Truncate(p) \/ Mknod(p)
    BY <2>1 DEF Truncate, Mknod, OpenInv
  <2>2. CASE Unlink(p)
    <3>1. \A g \in Handles : /\ handle'[g].path = handle[g].path
                             /\ handle'[g].pc = handle[g].pc
                             /\ handle[g].loc # LocalOf[p] => handle'[g] = handle[g]
      BY <2>2, <1>a DEF Unlink, Detached, HandleState
    <3>2. NoNewOpen
      BY <2>2, <3>1, <1>c DEF Unlink, Unused, OpenInv
    <3> QED BY <3>2, <1>b
  <2> QED BY <1>7, <2>1, <2>2
<1>8. ASSUME NEW a \in Paths, NEW b \in Paths, Rename(a, b)
      PROVE  OpenInv'
  <2>1. NoNewOpen
    BY <1>8, <1>a DEF Rename, BusyOn, Busy, HandleState
  <2> QED BY <2>1, <1>b
<1>9. CASE UNCHANGED vars
  BY <1>9 DEF vars, OpenInv
<1> QED
  BY <1>1, <1>2, <1>3, <1>4, <1>5, <1>6, <1>7, <1>8, <1>9 DEF Next

\* A step that leaves a handle, its file and its local copy alone, and lets no
\* other callback start on them, keeps where the handle's version is.
LEMMA Bystander ==
    ASSUME NEW h \in Handles, HoldsFresh(h),
           handle'[h] = handle[h], fresh'[h] = fresh[h],
           status'[handle[h].path] = status[handle[h].path],
           device'[handle[h].path] = device[handle[h].path],
           local'[LocalOf[handle[h].path]] = local[LocalOf[handle[h].path]],
           \A g \in Handles : g # h /\ Busy(g)' =>
               ~Touches(g, handle[h].path, LocalOf[handle[h].path])'
    PROVE  HoldsFresh(h)'
BY DEF HoldsFresh, NeedsPush

-----------------------------------------------------------------------------
\* Every step keeps where the version is that a handle wrote undisturbed.
LEMMA FreshStep ==
    ASSUME TypeInv, OpenInv, FreshInv, [Next]_vars
    PROVE  FreshInv'
<1> USE NamesAssumption
<1>a. /\ device \in [Paths -> Nat] /\ local \in [Locals -> Nat]
      /\ status \in [Paths -> Entry] /\ handle \in [Handles -> HandleState]
      /\ version \in Nat /\ fresh \in [Handles -> Nat]
  BY DEF TypeInv, TypeOK
<1>b. \A h \in Handles : handle[h].pc \notin {"free", "leaked"} =>
                             handle[h].path \in Paths
  BY DEF TypeInv, GoodHandle
<1>c. SUFFICES ASSUME NEW h \in Handles, fresh'[h] # 0
               PROVE  HoldsFresh(h)'
  BY DEF FreshInv
<1> DEFINE p == handle[h].path
           l == LocalOf[p]
<1>d. ASSUME fresh[h] # 0
      PROVE  /\ HoldsFresh(h) /\ p \in Paths /\ l \in Locals
             /\ handle[h].loc = l /\ handle[h].pc \notin {"free", "leaked", "opening"}
             /\ \A g \in Handles : g # h /\ Busy(g) => ~Touches(g, p, l)
  BY <1>b, <1>d DEF FreshInv, HoldsFresh
<1>1. ASSUME NEW g \in Handles, NEW q \in Paths, OpenBegin(g, q)
      PROVE  HoldsFresh(h)'
  <2>1. fresh[h] # 0 /\ fresh'[h] = fresh[h] /\ (h # g => ~Touches(h, q, LocalOf[q]))
    BY <1>1, <1>c, <1>a, DisturbedType DEF OpenBegin
  <2>2. h # g
    BY <1>1, <1>d, <2>1 DEF OpenBegin
  <2>3. handle'[h] = handle[h] /\ status'[p] = status[p]
    BY <1>1, <1>a, <1>d, <2>1, <2>2 DEF OpenBegin, Touches
  <2>4. PICK x : handle' = [handle EXCEPT ![g] = x] /\ AfterOpenBegin(x, q)
    BY <1>1, <1>a, OpenBeginHandle
  <2>5. handle'[g] = x /\ \A k \in Handles : k # g => handle'[k] = handle[k]
    BY <1>a, <2>4
  <2>7. \A k \in Handles : k # h /\ Busy(k)' => ~Touches(k, p, l)'
    BY <1>d, <2>1, <2>2, <2>3, <2>4, <2>5 DEF Busy, Touches, AfterOpenBegin
  <2> QED BY <1>1, <1>d, <2>1, <2>3, <2>7, Bystander DEF OpenBegin
<1>2. ASSUME NEW g \in Handles, OpenEnd(g)
      PROVE  HoldsFresh(h)'
  <2>1. fresh[h] # 0 /\ fresh' = fresh
    BY <1>2, <1>c DEF OpenEnd
  <2>2. h # g
    BY <1>2, <1>d, <2>1 DEF OpenEnd
  <2>3. ~Touches(g, p, l) /\ handle[g].loc = LocalOf[handle[g].path]
    BY <1>2, <1>d, <2>1, <2>2 DEF OpenEnd, Busy, OpenInv
  <2>4. handle'[h] = handle[h] /\ local'[l] = local[l]
    BY <1>2, <1>a, <1>d, <2>1, <2>2, <2>3 DEF OpenEnd, Touches
  <2>5. \A k \in Handles : Busy(k)' =>
           /\ Busy(k) /\ handle'[k].path = handle[k].path
           /\ handle'[k].loc = handle[k].loc \/ handle'[k].loc = None
    BY <1>2, <1>a DEF OpenEnd, OpenHandle, Busy, HandleState
  <2>6. \A k \in Handles : k # h /\ Busy(k)' => ~Touches(k, p, l)'
    BY <1>d, <2>1, <2>4, <2>5 DEF Touches
  <2> QED BY <1>2, <1>d, <2>1, <2>4, <2>6, Bystander DEF OpenEnd
<1>3. ASSUME NEW g \in Handles, OpenStale(g) \/ OpenFail(g)
      PROVE  HoldsFresh(h)'
  <2>1. fresh[h] # 0 /\ fresh' = fresh
    BY <1>3, <1>c DEF OpenStale, OpenFail
  <2>2. h # g
    BY <1>3, <1>d, <2>1 DEF OpenStale, OpenFail
  <2>3. ~Busy(g)' /\ \A k \in Handles : k # g => handle'[k] = handle[k]
    BY <1>3, <1>a DEF OpenStale, OpenFail, OpenHandle, FreeHandle, Busy
  <2>4. \A k \in Handles : k # h /\ Busy(k)' => ~Touches(k, p, l)'
    BY <1>d, <2>1, <2>2, <2>3 DEF Touches, Busy
  <2> QED BY <1>3, <1>d, <2>1, <2>2, <2>3, <2>4, Bystander DEF OpenStale, OpenFail
<1>4. ASSUME NEW g \in Handles, Read(g)
      PROVE  HoldsFresh(h)'
  <2>1. /\ fresh[h] # 0 /\ fresh'[h] = fresh[h] /\ h # g
        /\ ~Touches(h, handle[g].path, handle[g].loc)
    BY <1>4, <1>c, <1>a, DisturbedType DEF Read
  <2>2. status'[p] = status[p]
    BY <1>4, <1>a, <1>d, <2>1 DEF Read, Touches
  <2>3. \A k \in Handles : k # h /\ Busy(k)' => ~Touches(k, p, l)'
    BY <1>4, <1>d, <2>1 DEF Touches, Busy, Read
  <2> QED BY <1>4, <1>d, <2>1, <2>2, <2>3, Bystander DEF Read
<1>5. ASSUME NEW g \in Handles, WriteBegin(g)
      PROVE  HoldsFresh(h)'
  <2>1. /\ handle'[g].pc = "writing" /\ handle'[g].buf = version'
        /\ handle'[g].path = handle[g].path /\ handle'[g].loc = handle[g].loc
        /\ \A k \in Handles : k # g => handle'[k] = handle[k]
    BY <1>5, <1>a DEF WriteBegin, HandleState
  <2>2. CASE h = g
    <3>1. /\ handle[h].loc = l /\ status[p].renamedFrom = None
          /\ ~Contended(p, l) /\ fresh'[h] = version'
      BY <1>5, <1>a, <1>c, <2>2, DisturbedType DEF WriteBegin
    <3>2. /\ handle'[h].pc = "writing" /\ handle'[h].buf = version'
          /\ handle'[h].path = p /\ handle'[h].loc = l
      BY <2>1, <2>2, <3>1
    <3>3. p \in Paths
      BY <1>5, <1>b, <2>2 DEF WriteBegin
    <3>4. status'[p] = PendingOpen(status[p], TRUE, TRUE)
      BY <1>5, <1>a, <2>2, <3>3 DEF WriteBegin
    <3>5. status'[p].renamedFrom = None /\ NeedsPush(status'[p])
      BY <1>a, <3>1, <3>3, <3>4 DEF PendingOpen, NeedsPush, Entry
    <3>6. \A k \in Handles : k # h /\ Busy(k)' => ~Touches(k, p, l)
      BY <2>1, <2>2, <3>1 DEF Contended, Busy
    <3>7. \A k \in Handles : k # h /\ Busy(k)' =>
             ~(handle'[k].path = p \/ handle'[k].loc = l)
      BY <2>1, <2>2, <3>6 DEF Touches
    <3> QED BY <3>1, <3>2, <3>5, <3>7 DEF HoldsFresh, Touches, NeedsPush
  <2>3. CASE h # g
    <3>1. /\ fresh[h] # 0 /\ fresh'[h] = fresh[h]
          /\ ~Touches(h, handle[g].path, handle[g].loc)
      BY <1>5, <1>c, <1>a, <2>3, DisturbedType DEF WriteBegin
    <3>2. status'[p] = status[p]
      BY <1>5, <1>a, <1>d, <3>1 DEF WriteBegin, Touches
    <3>3. \A k \in Handles : k # h /\ Busy(k)' => ~Touches(k, p, l)'
      BY <1>d, <2>1, <2>3, <3>1 DEF Touches, Busy
    <3> QED BY <1>5, <1>d, <2>1, <2>3, <3>1, <3>2, <3>3, Bystander DEF WriteBegin
  <2> QED BY <2>2, <2>3
<1>6. ASSUME NEW g \in Handles, WriteEnd(g)
      PROVE  HoldsFresh(h)'
  <2>1. fresh[h] # 0 /\ fresh'[h] = fresh[h]
    BY <1>6, <1>a, <1>c DEF WriteEnd
  <2>2. /\ handle'[g].pc = "open" /\ handle'[g].path = handle[g].path
        /\ handle'[g].loc = handle[g].loc
        /\ \A k \in Handles : k # g => handle'[k] = handle[k]
    BY <1>6, <1>a DEF WriteEnd, HandleState
  <2>3. CASE h = g
    <3>1. /\ handle[h].buf = fresh[h] /\ NeedsPush(status[p])
          /\ status[p].renamedFrom = None
      BY <1>6, <1>d, <2>1, <2>3 DEF WriteEnd, HoldsFresh
    <3>2. local'[l] = fresh[h]
      BY <1>6, <1>a, <1>d, <2>1, <2>3, <3>1 DEF WriteEnd, SetLocal
    <3>3. \A k \in Handles : k # h /\ Busy(k)' =>
             ~(handle'[k].path = p \/ handle'[k].loc = l)
      BY <1>d, <2>1, <2>2, <2>3 DEF Touches, Busy
    <3>4. /\ status' = status /\ handle'[h].pc = "open"
          /\ handle'[h].path = p /\ handle'[h].loc = l
      BY <1>6, <1>d, <2>1, <2>2, <2>3 DEF WriteEnd
    <3> QED BY <2>1, <3>1, <3>2, <3>3, <3>4 DEF HoldsFresh, Touches
  <2>4. CASE h # g
    <3>1. ~Touches(g, p, l)
      BY <1>6, <1>d, <2>1, <2>4 DEF WriteEnd, Busy
    <3>2. local'[l] = local[l]
      BY <1>6, <1>a, <1>d, <2>1, <3>1 DEF WriteEnd, SetLocal, Touches
    <3>3. \A k \in Handles : k # h /\ Busy(k)' => ~Touches(k, p, l)'
      BY <1>d, <2>1, <2>2, <2>4 DEF Touches, Busy
    <3> QED BY <1>6, <1>d, <2>1, <2>2, <2>4, <3>2, <3>3, Bystander DEF WriteEnd
  <2> QED BY <2>3, <2>4
<1>7. ASSUME NEW g \in Handles, FlushBegin(g)
      PROVE  HoldsFresh(h)'
  <2>1. /\ fresh[h] # 0 /\ fresh'[h] = fresh[h]
        /\ h # g => ~Touches(h, handle[g].path, handle[g].loc)
    BY <1>7, <1>a, <1>c, DisturbedType DEF FlushBegin
  <2>2. /\ handle'[g].path = handle[g].path /\ handle'[g].loc = handle[g].loc
        /\ \A k \in Handles : k # g => handle'[k] = handle[k]
    BY <1>7, <1>a DEF FlushBegin, HandleState
  <2>3. CASE h = g
    <3>1. /\ status[p].renamedFrom = None /\ local[l] = fresh[h]
          /\ NeedsPush(status[p]) \/ device[p] = fresh[h]
      BY <1>7, <1>d, <2>1, <2>3 DEF FlushBegin, HoldsFresh
    <3>2. \A k \in Handles : k # h /\ Busy(k)' =>
             ~(handle'[k].path = p \/ handle'[k].loc = l)
      BY <1>d, <2>1, <2>2, <2>3 DEF Touches, Busy
    <3>3. CASE NeedsPush(status[p])
      <4>1. handle'[h].pc = "flushing" /\ handle'[h].buf = fresh[h] /\ status' = status
        BY <1>7, <1>a, <2>3, <3>1, <3>3 DEF FlushBegin, PushSource, HandleState
      <4> QED BY <1>7, <1>d, <2>1, <2>2, <2>3, <3>1, <3>2, <3>3, <4>1
              DEF HoldsFresh, Touches, NeedsPush, FlushBegin
    <3>4. CASE ~NeedsPush(status[p])
      <4>1. handle'[h].pc \in {"open", "closing"}
        BY <1>7, <1>a, <2>3, <3>4 DEF FlushBegin, HandleState
      <4>2. status'[p].renamedFrom = None
        <5>1. status'[p] \in {status[p], FlushedEntry(status[p])}
          BY <1>7, <1>a, <1>d, <2>1, <2>3, <3>4 DEF FlushBegin
        <5>2. FlushedEntry(status[p]).renamedFrom = None
          BY <1>a, <1>d, <2>1 DEF FlushedEntry, Entry
        <5> QED BY <3>1, <5>1, <5>2
      <4>3. device[p] = fresh[h]
        BY <3>1, <3>4
      <4> QED BY <1>7, <1>d, <2>1, <2>2, <2>3, <3>1, <3>2, <4>1, <4>2, <4>3
              DEF HoldsFresh, Touches, FlushBegin
    <3> QED BY <3>3, <3>4
  <2>4. CASE h # g
    <3>1. status'[p] = status[p]
      BY <1>7, <1>a, <1>d, <2>1, <2>4 DEF FlushBegin, Touches
    <3>2. \A k \in Handles : k # h /\ Busy(k)' => ~Touches(k, p, l)'
      BY <1>d, <2>1, <2>2, <2>4 DEF Touches, Busy
    <3> QED BY <1>7, <1>d, <2>1, <2>2, <2>4, <3>1, <3>2, Bystander DEF FlushBegin
  <2> QED BY <2>3, <2>4
<1>8. ASSUME NEW g \in Handles, FlushEnd(g)
      PROVE  HoldsFresh(h)'
  <2>1. PICK outcome \in PushOutcomes, pc \in {"open", "closing"} :
           /\ device' = Pushed(handle[g].path, handle[g].buf, outcome)
           /\ status' = [status EXCEPT ![handle[g].path] = FlushedEntry(@)]
           /\ handle' = [handle EXCEPT ![g].pc = pc, ![g].buf = NoFile]
           /\ fresh' = Unstored(g, outcome)
    BY <1>8 DEF FlushEnd
  <2>2. fresh[h] # 0 /\ fresh'[h] = fresh[h]
    BY <1>a, <1>c, <2>1 DEF Unstored
  <2>3. /\ handle'[g].pc = pc /\ handle'[g].path = handle[g].path
        /\ handle'[g].loc = handle[g].loc
        /\ \A k \in Handles : k # g => handle'[k] = handle[k]
    BY <1>a, <2>1 DEF HandleState
  <2>4. \A k \in Handles : k # h /\ Busy(k)' =>
           ~(handle'[k].path = p \/ handle'[k].loc = l)
    BY <1>d, <2>2, <2>3 DEF Touches, Busy
  <2>5. CASE h = g
    <3>1. /\ handle[h].buf = fresh[h] /\ local[l] = fresh[h]
          /\ handle[h].loc = l
      BY <1>8, <1>d, <2>2, <2>5 DEF FlushEnd, HoldsFresh
    <3>2. outcome = "stored"
      BY <1>a, <1>c, <2>1, <2>5 DEF Unstored
    <3>3. device'[p] = fresh[h]
      BY <1>a, <1>d, <2>1, <2>2, <2>5, <3>1, <3>2 DEF Pushed, NoFile
    <3>4. status'[p].renamedFrom = None
      BY <1>a, <1>d, <2>1, <2>2, <2>5 DEF FlushedEntry, Entry
    <3> QED BY <1>8, <2>2, <2>3, <2>4, <2>5, <3>1, <3>3, <3>4
            DEF HoldsFresh, Touches, FlushEnd
  <2>6. CASE h # g
    <3>1. handle[g].path # p
      BY <1>8, <1>d, <2>2, <2>6 DEF FlushEnd, Busy, Touches
    <3>2. device'[p] = device[p] /\ status'[p] = status[p]
      BY <1>a, <1>d, <2>1, <2>2, <3>1 DEF Pushed
    <3>3. handle'[h] = handle[h]
      BY <2>3, <2>6
    <3>4. \A k \in Handles : k # h /\ Busy(k)' => ~Touches(k, p, l)'
      BY <2>4, <3>3 DEF Touches
    <3> QED BY <1>8, <1>d, <2>2, <3>2, <3>3, <3>4, Bystander DEF FlushEnd
  <2> QED BY <2>5, <2>6
<1>9. ASSUME NEW g \in Handles, FsyncBegin(g)
      PROVE  HoldsFresh(h)'
  <2>1. /\ fresh[h] # 0 /\ fresh'[h] = fresh[h]
        /\ h # g => ~Touches(h, handle[g].path, handle[g].loc)
    BY <1>9, <1>a, <1>c, DisturbedType DEF FsyncBegin
  <2>2. /\ handle'[g].path = handle[g].path /\ handle'[g].loc = handle[g].loc
        /\ handle'[g].pc = "syncing"
        /\ handle'[g].buf = local[LocalOf[handle[g].path]]
        /\ \A k \in Handles : k # g => handle'[k] = handle[k]
    BY <1>9, <1>a DEF FsyncBegin, HandleState
  <2>3. CASE h = g
    <3>1. /\ status[p].renamedFrom = None /\ local[l] = fresh[h]
          /\ NeedsPush(status[p]) \/ device[p] = fresh[h]
      BY <1>9, <1>d, <2>1, <2>3 DEF FsyncBegin, HoldsFresh
    <3>2. \A k \in Handles : k # h /\ Busy(k)' =>
             ~(handle'[k].path = p \/ handle'[k].loc = l)
      BY <1>d, <2>1, <2>2, <2>3 DEF Touches, Busy
    <3>3. /\ status' = status /\ device' = device /\ local' = local
          /\ handle'[h].path = p /\ handle'[h].loc = l
          /\ handle'[h].pc = "syncing" /\ handle'[h].buf = fresh[h]
      BY <1>9, <1>d, <2>1, <2>2, <2>3, <3>1 DEF FsyncBegin
    <3> QED BY <2>1, <3>1, <3>2, <3>3 DEF HoldsFresh, Touches
  <2>4. CASE h # g
    <3>1. \A k \in Handles : k # h /\ Busy(k)' => ~Touches(k, p, l)'
      BY <1>d, <2>1, <2>2, <2>4 DEF Touches, Busy
    <3> QED BY <1>9, <1>d, <2>1, <2>2, <2>4, <3>1, Bystander DEF FsyncBegin
  <2> QED BY <2>3, <2>4
<1>10. ASSUME NEW g \in Handles, FsyncEnd(g)
      PROVE  HoldsFresh(h)'
  <2>1. PICK outcome \in PushOutcomes :
           /\ device' = Pushed(handle[g].path, handle[g].buf, outcome)
           /\ status' = [status EXCEPT ![handle[g].path] =
                            PendingOpen(@, FALSE, FALSE)]
           /\ handle' = [handle EXCEPT ![g].pc = "open", ![g].buf = NoFile]
           /\ fresh' = Unstored(g, outcome)
    BY <1>10 DEF FsyncEnd
  <2>2. fresh[h] # 0 /\ fresh'[h] = fresh[h]
    BY <1>a, <1>c, <2>1 DEF Unstored
  <2>3. /\ handle'[g].pc = "open" /\ handle'[g].path = handle[g].path
        /\ handle'[g].loc = handle[g].loc
        /\ \A k \in Handles : k # g => handle'[k] = handle[k]
    BY <1>a, <2>1 DEF HandleState
  <2>4. \A k \in Handles : k # h /\ Busy(k)' =>
           ~(handle'[k].path = p \/ handle'[k].loc = l)
    BY <1>d, <2>2, <2>3 DEF Touches, Busy
  <2>5. CASE h = g
    <3>1. /\ handle[h].buf = fresh[h] /\ local[l] = fresh[h]
          /\ handle[h].loc = l /\ status[p].renamedFrom = None
      BY <1>10, <1>d, <2>2, <2>5 DEF FsyncEnd, HoldsFresh
    <3>2. outcome = "stored"
      BY <1>a, <1>c, <2>1, <2>5 DEF Unstored
    <3>3. device'[p] = fresh[h]
      BY <1>a, <1>d, <2>1, <2>2, <2>5, <3>1, <3>2 DEF Pushed, NoFile
    <3>4. status'[p].renamedFrom = None
      BY <1>a, <1>d, <2>1, <2>2, <2>5, <3>1 DEF PendingOpen, Entry
    <3> QED BY <1>10, <2>2, <2>3, <2>4, <2>5, <3>1, <3>3, <3>4
            DEF HoldsFresh, Touches, FsyncEnd
  <2>6. CASE h # g
    <3>1. handle[g].path # p
      BY <1>10, <1>d, <2>2, <2>6 DEF FsyncEnd, Busy, Touches
    <3>2. device'[p] = device[p] /\ status'[p] = status[p]
      BY <1>a, <1>d, <2>1, <2>2, <3>1 DEF Pushed
    <3>3. handle'[h] = handle[h]
      BY <2>3, <2>6
    <3>4. \A k \in Handles : k # h /\ Busy(k)' => ~Touches(k, p, l)'
      BY <2>4, <3>3 DEF Touches
    <3> QED BY <1>10, <1>d, <2>2, <3>2, <3>3, <3>4, Bystander DEF FsyncEnd
  <2> QED BY <2>5, <2>6
<1>11. ASSUME NEW g \in Handles, Release(g)
      PROVE  HoldsFresh(h)'
  <2>1. /\ fresh[h] # 0 /\ fresh'[h] = fresh[h] /\ h # g
        /\ ~Touches(h, handle[g].path, handle[g].loc)
    BY <1>11, <1>c, <1>a, DisturbedType DEF Release
  <2>2. status'[p] = status[p]
    BY <1>11, <1>a, <1>d, <2>1 DEF Release, Touches
  <2>3. ~Busy(g)' /\ \A k \in Handles : k # g => handle'[k] = handle[k]
    BY <1>11, <1>a DEF Release, FreeHandle, LeakedHandle, Busy
  <2>4. \A k \in Handles : k # h /\ Busy(k)' => ~Touches(k, p, l)'
    BY <1>d, <2>1, <2>3 DEF Touches, Busy
  <2> QED BY <1>11, <1>d, <2>1, <2>2, <2>3, <2>4, Bystander DEF Release
<1>12. ASSUME NEW q \in Paths, Truncate(q)
      PROVE  HoldsFresh(h)'
  <2>1. fresh[h] # 0 /\ fresh'[h] = fresh[h] /\ ~Touches(h, q, LocalOf[q])
    BY <1>12, <1>c, <1>a, DisturbedType DEF Truncate
  <2>2. status'[p] = status[p] /\ local'[l] = local[l]
    BY <1>12, <1>a, <1>d, <2>1 DEF Truncate, Touches
  <2>3. \A k \in Handles : k # h /\ Busy(k)' => ~Touches(k, p, l)'
    BY <1>12, <1>d, <2>1 DEF Touches, Busy, Truncate
  <2> QED BY <1>12, <1>d, <2>1, <2>2, <2>3, Bystander DEF Truncate
<1>13. ASSUME NEW q \in Paths, Mknod(q) \/ Unlink(q)
      PROVE  HoldsFresh(h)'
  <2>1. fresh[h] # 0 /\ fresh' = fresh /\ status' = status
    BY <1>13, <1>c DEF Mknod, Unlink
  <2>2. p # q /\ l # LocalOf[q]
    BY <1>13, <1>d, <2>1 DEF Mknod, Unlink, Unused
  <2>3. /\ handle'[h] = handle[h]
        /\ \A k \in Handles : /\ handle'[k].path = handle[k].path
                              /\ handle'[k].pc = handle[k].pc
                              /\ handle'[k].loc \in {handle[k].loc, None}
    BY <1>13, <1>a, <1>d, <2>1, <2>2 DEF Mknod, Unlink, Detached, HandleState
  <2>4. local'[l] = local[l]
    BY <1>13, <1>a, <1>d, <2>1, <2>2 DEF Mknod, Unlink
  <2>5. device'[p] = device[p]
    BY <1>13, <1>a, <1>d, <2>1, <2>2 DEF Mknod, Unlink, Pushed
  <2>6. \A k \in Handles : k # h /\ Busy(k)' => ~Touches(k, p, l)'
    BY <1>d, <2>1, <2>3 DEF Touches, Busy
  <2> QED BY <1>d, <2>1, <2>3, <2>4, <2>5, <2>6, Bystander
<1>14. ASSUME NEW a \in Paths, NEW b \in Paths, Rename(a, b)
      PROVE  HoldsFresh(h)'
  <2>1. fresh[h] # 0 /\ fresh'[h] = fresh[h] /\ ~Touches(h, a, LocalOf[a])
    BY <1>14, <1>c, <1>a, DisturbedType DEF Rename
  <2>2. p # a /\ p # b
    BY <1>14, <2>1 DEF Rename, Touches
  <2>3. handle'[h] = handle[h] /\ status'[p] = status[p] /\ device'[p] = device[p]
    BY <1>14, <1>a, <1>d, <2>1, <2>2 DEF Rename
  <2>4. \A k \in Handles : Busy(k)' => handle'[k] = handle[k]
    BY <1>14, <1>a DEF Rename, BusyOn, Busy, HandleState
  <2>5. \A k \in Handles : k # h /\ Busy(k)' => ~Touches(k, p, l)'
    BY <1>d, <2>1, <2>3, <2>4 DEF Touches, Busy
  <2> QED BY <1>14, <1>d, <2>1, <2>3, <2>5, Bystander DEF Rename
<1>15. ASSUME NEW g \in Handles, FlushFail(g)
      PROVE  HoldsFresh(h)'
  <2>1. fresh[h] # 0 /\ fresh'[h] = fresh[h] /\ h # g
    BY <1>15, <1>a, <1>c DEF FlushFail
  <2>2. ~Busy(g)' /\ \A k \in Handles : k # g => handle'[k] = handle[k]
    BY <1>15, <1>a DEF FlushFail, Busy, HandleState
  <2>3. \A k \in Handles : k # h /\ Busy(k)' => ~Touches(k, p, l)'
    BY <1>d, <2>1, <2>2 DEF Touches, Busy
  <2> QED BY <1>15, <1>d, <2>1, <2>2, <2>3, Bystander DEF FlushFail
<1>16. CASE UNCHANGED vars
  BY <1>16, <1>c DEF vars, FreshInv, HoldsFresh, Busy, Touches
<1> QED
  BY <1>1, <1>2, <1>3, <1>4, <1>5, <1>6, <1>7, <1>8, <1>9, <1>10, <1>11,
     <1>12, <1>13, <1>14, <1>15, <1>16 DEF Next

-----------------------------------------------------------------------------
\* When the last flush of a handle has returned, the device has what the handle wrote last,
\* unless somebody disturbed it or a transfer of the handle's own failed: for every number
\* of files, handles and versions, whatever adb push does, and whatever the other threads
\* open, write, flush, rename or fail to push in between.
THEOREM DeliveredCorrect == Spec => []Delivered
<1>1. Init => DeliveryInv
  BY TypeInit DEF Init, DeliveryInv, OpenInv, FreshInv, FreeHandle
<1>2. DeliveryInv /\ [Next]_vars => DeliveryInv'
  BY TypeStep, OpenStep, FreshStep DEF DeliveryInv
<1>3. DeliveryInv => Delivered
  BY DEF DeliveryInv, FreshInv, HoldsFresh, Delivered
<1> QED BY <1>1, <1>2, <1>3, PTL DEF Spec
=============================================================================

-------------------------- MODULE LifecycleProofs --------------------------
(* Type correctness of Lifecycle, who is mounted is connected, the last    *)
(* instance cleans up, and what access answers is what the device would    *)
(* answer, for every number of instances, every user and every list of     *)
(* mounts.                                                                 *)
EXTENDS Lifecycle, AccessCheckProofs

MountTables == {MountTable(Lines(m)) : m \in MountLists}

Pcs == SetUpPcs \cup TearDownPcs \cup {"start", "mounted", "ended", "crashed"}

InstanceState ==
    [pc : Pcs, nc : {"none", "connected", "cut"}, stays : BOOLEAN, seen : Nat,
     temp : BOOLEAN, userInfo : Users \cup {None}, mountInfo : MountTables \cup {None},
     failed : BOOLEAN, again : BOOLEAN]

TypeInv ==
    /\ user \in Users /\ mounts \in MountLists
    /\ forwarded \in BOOLEAN /\ remote \in Nat /\ lastPid \in Nat
    /\ inst \in [Instances -> InstanceState]
    /\ asOf \in [Instances -> MountLists \cup {None}]
    /\ disturbed \subseteq Instances /\ spoiled \subseteq Instances

\* What an instance has read is the user of the device, and the mounts in asOf.
ReadInv ==
    \A i \in Instances :
        /\ inst[i].userInfo \in {user, None}
        /\ inst[i].mountInfo # None =>
              /\ asOf[i] \in MountLists
              /\ inst[i].mountInfo = MountTable(Lines(asOf[i]))

\* What an instance has checked is still there, unless another one took it away.
Checked(i) ==
    /\ inst[i].pc \in {"remote", "starting", "remotecheck"}
          => inst[i].nc = "none" /\ forwarded
    /\ inst[i].pc \in {"user", "mount", "spawn"}
          => inst[i].nc = "none" /\ forwarded /\ remote # 0
    /\ inst[i].pc \in {"mounting", "mounted"} => inst[i].nc = "connected"

\* Before netcat is spawned there is none.
NoneYet(i) ==
    inst[i].pc \in {"start", "device", "forward", "forwarding", "forwardcheck", "remote",
                   "starting", "remotecheck", "user", "mount", "spawn"}
        => inst[i].nc = "none"

ConnInv == \A i \in Instances : NoneYet(i) /\ (i \notin disturbed => Checked(i))

-----------------------------------------------------------------------------
LEMMA InitTyped == Init => TypeInv /\ ReadInv /\ ConnInv
<1>. SUFFICES ASSUME Init PROVE TypeInv /\ ReadInv /\ ConnInv
  OBVIOUS
<1>1. NewInstance \in InstanceState
  BY DEF NewInstance, InstanceState, Pcs
<1>2. TypeInv
  BY <1>1 DEF Init, TypeInv
<1>3. ReadInv
  BY DEF Init, ReadInv, NewInstance
<1>4. ConnInv
  BY DEF Init, ConnInv, NoneYet, Checked, NewInstance
<1>. QED
  BY <1>2, <1>3, <1>4

\* What the steps change of an instance keeps it well formed.
LEMMA Fields ==
    ASSUME NEW r \in InstanceState, NEW pc \in Pcs
    PROVE  /\ [r EXCEPT !.pc = pc] \in InstanceState
           /\ \A n \in Nat : [r EXCEPT !.pc = pc, !.seen = n] \in InstanceState
           /\ [r EXCEPT !.nc = "cut"] \in InstanceState
           /\ \A b \in BOOLEAN : [r EXCEPT !.pc = pc, !.again = b] \in InstanceState
           /\ \A b \in BOOLEAN, nc \in {"none", "connected", "cut"} :
                 [r EXCEPT !.pc = pc, !.nc = nc, !.stays = b] \in InstanceState
<1>1. [r EXCEPT !.pc = pc] \in InstanceState /\ [r EXCEPT !.nc = "cut"] \in InstanceState
  BY DEF InstanceState
<1>2. \A n \in Nat : [r EXCEPT !.pc = pc, !.seen = n] \in InstanceState
  BY DEF InstanceState
<1>3. \A b \in BOOLEAN : [r EXCEPT !.pc = pc, !.again = b] \in InstanceState
  BY DEF InstanceState
<1>4. \A b \in BOOLEAN, nc \in {"none", "connected", "cut"} :
         [r EXCEPT !.pc = pc, !.nc = nc, !.stays = b] \in InstanceState
  BY DEF InstanceState
<1>. QED
  BY <1>1, <1>2, <1>3, <1>4

\* A step of instance i that only changes how far it is.
LEMMA GotoTyped ==
    ASSUME TypeInv, NEW i \in Instances, NEW pc \in Pcs, Goto(i, pc)
    PROVE  inst' \in [Instances -> InstanceState]
  BY DEF TypeInv, InstanceState, Goto

LEMMA NotedTyped ==
    ASSUME TypeInv, NEW works, Noted(works)
    PROVE  spoiled' \subseteq Instances
  BY DEF TypeInv, Noted, TearingDown

\* Taking something away changes at most how far i is and whose connection is cut.
LEMMA TakenTyped ==
    ASSUME TypeInv, NEW i \in Instances, NEW pc \in Pcs, NEW pcs, Taken(i, pc, pcs)
    PROVE  inst' \in [Instances -> InstanceState] /\ disturbed' \subseteq Instances
<1>1. PICK cut \in SUBSET {j \in Instances \ {i} : inst[j].nc = "connected"} :
          /\ inst' = [j \in Instances |->
                IF j = i THEN [inst[j] EXCEPT !.pc = pc, !.seen = 0]
                ELSE IF j \in cut THEN [inst[j] EXCEPT !.nc = "cut"] ELSE inst[j]]
          /\ disturbed' = disturbed \cup Harmed(i, pcs, cut)
  BY DEF Taken
<1>2. \A j \in Instances :
          /\ [inst[j] EXCEPT !.pc = pc, !.seen = 0] \in InstanceState
          /\ [inst[j] EXCEPT !.nc = "cut"] \in InstanceState
          /\ inst[j] \in InstanceState
  <2>. 0 \in Nat
    OBVIOUS
  <2>. QED
    BY Fields DEF TypeInv
<1>3. inst' \in [Instances -> InstanceState]
  BY <1>1, <1>2
<1>4. disturbed' \subseteq Instances
  BY <1>1 DEF TypeInv, Harmed
<1>. QED
  BY <1>3, <1>4

LEMMA StepTyped ==
    ASSUME TypeInv, NEW i \in Instances,
           Start(i) \/ SetUp(i) \/ Unmount(i) \/ TearDown(i) \/ Crash(i)
    PROVE  TypeInv'
<1>. USE DEF device, history
<1>0. /\ inst[i] \in InstanceState
      /\ NewInstance \in InstanceState
      /\ \A pc \in Pcs : [NewInstance EXCEPT !.pc = pc] \in InstanceState
  BY DEF TypeInv, InstanceState, NewInstance, Pcs
<1>1. CASE Start(i)
  <2>1. inst' \in [Instances -> InstanceState]
    BY <1>1 DEF Start, Goto, TypeInv, InstanceState, Pcs, SetUpPcs, TearDownPcs
  <2>. QED
    BY <1>1, <2>1 DEF Start, TypeInv
<1>2. CASE FindDevice(i)
  <2>1. inst' \in [Instances -> InstanceState]
    BY <1>2, GotoTyped DEF FindDevice, Pcs, SetUpPcs, TearDownPcs
  <2>. QED
    BY <1>2, <2>1 DEF FindDevice, TypeInv
<1>3. CASE FindForward(i)
  <2>1. inst' \in [Instances -> InstanceState]
    BY <1>3, GotoTyped DEF FindForward, Pcs, SetUpPcs
  <2>. QED
    BY <1>3, <2>1 DEF FindForward, TypeInv
<1>4. CASE Forward(i)
  <2>1. inst' \in [Instances -> InstanceState]
    BY <1>4, GotoTyped DEF Forward, Pcs, SetUpPcs
  <2>2. forwarded' \in BOOLEAN
    BY <1>4 DEF Forward, Outcomes
  <2>. QED
    BY <1>4, <2>1, <2>2 DEF Forward, TypeInv
<1>5. CASE CheckForward(i)
  <2>1. inst' \in [Instances -> InstanceState]
    BY <1>5, GotoTyped DEF CheckForward, Pcs, SetUpPcs, TearDownPcs
  <2>. QED
    BY <1>5, <2>1 DEF CheckForward, TypeInv
<1>6. CASE FindRemote(i)
  <2>1. inst' \in [Instances -> InstanceState]
    BY <1>6, GotoTyped DEF FindRemote, Pcs, SetUpPcs
  <2>. QED
    BY <1>6, <2>1 DEF FindRemote, TypeInv
<1>7. CASE StartRemote(i)
  <2>1. inst' \in [Instances -> InstanceState]
    BY <1>7, GotoTyped DEF StartRemote, Pcs, SetUpPcs
  <2>2. remote' \in Nat /\ lastPid' \in Nat
    BY <1>7 DEF StartRemote, TypeInv
  <2>. QED
    BY <1>7, <2>1, <2>2 DEF StartRemote, TypeInv
<1>8. CASE CheckRemote(i)
  <2>1. inst' \in [Instances -> InstanceState]
    BY <1>8, GotoTyped DEF CheckRemote, Pcs, SetUpPcs, TearDownPcs
  <2>. QED
    BY <1>8, <2>1 DEF CheckRemote, TypeInv
<1>9. CASE QueryUser(i)
  <2>1. inst' \in [Instances -> InstanceState]
    BY <1>9 DEF QueryUser, Goto, TypeInv, InstanceState, Pcs, SetUpPcs, TearDownPcs
  <2>. QED
    BY <1>9, <2>1 DEF QueryUser, TypeInv
<1>10. CASE QueryMount(i)
  <2>1. MountTable(Append(mounts, SdCardLine)) \in MountTables
    BY DEF TypeInv, MountTables, Lines, SdCardLine
  <2>2. inst' \in [Instances -> InstanceState]
    BY <1>10, <2>1 DEF QueryMount, TypeInv, InstanceState, Pcs, SetUpPcs
  <2>3. asOf' \in [Instances -> MountLists \cup {None}]
    BY <1>10 DEF QueryMount, TypeInv
  <2>. QED
    BY <1>10, <2>2, <2>3 DEF QueryMount, TypeInv
<1>11. CASE SpawnNetCat(i)
  <2>1. inst' \in [Instances -> InstanceState]
    <3>1. PICK stays \in BOOLEAN :
            inst' = [inst EXCEPT
               ![i].pc = IF inst[i].failed THEN "down" ELSE "mounting",
               ![i].nc = IF forwarded /\ remote # 0 THEN "connected" ELSE "cut",
               ![i].stays = stays]
      BY <1>11 DEF SpawnNetCat
    <3>2. /\ (IF inst[i].failed THEN "down" ELSE "mounting") \in Pcs
          /\ (IF forwarded /\ remote # 0 THEN "connected" ELSE "cut")
                \in {"none", "connected", "cut"}
      BY DEF Pcs, SetUpPcs, TearDownPcs
    <3>3. [inst[i] EXCEPT !.pc = IF inst[i].failed THEN "down" ELSE "mounting",
                          !.nc = IF forwarded /\ remote # 0 THEN "connected" ELSE "cut",
                          !.stays = stays] \in InstanceState
      BY <1>0, <3>2, Fields
    <3>. QED
      BY <3>1, <3>3 DEF TypeInv
  <2>. QED
    BY <1>11, <2>1 DEF SpawnNetCat, TypeInv
<1>12. CASE Mount(i)
  <2>1. inst' \in [Instances -> InstanceState]
    BY <1>12 DEF Mount, Goto, TypeInv, InstanceState, Pcs, TearDownPcs
  <2>. QED
    BY <1>12, <2>1 DEF Mount, TypeInv
<1>13. CASE Unmount(i)
  <2>1. inst' \in [Instances -> InstanceState]
    <3>1. PICK again \in BOOLEAN :
            inst' = [inst EXCEPT ![i].pc = "down", ![i].again = again]
      BY <1>13 DEF Unmount
    <3>2. [inst[i] EXCEPT !.pc = "down", !.again = again] \in InstanceState
      BY <1>0, Fields DEF Pcs, TearDownPcs
    <3>. QED
      BY <3>1, <3>2 DEF TypeInv
  <2>. QED
    BY <1>13, <2>1 DEF Unmount, TypeInv
<1>14. CASE Down(i)
  <2>1. inst' \in [Instances -> InstanceState]
    BY <1>14, GotoTyped DEF Down, Pcs, TearDownPcs
  <2>. QED
    BY <1>14, <2>1 DEF Down, TypeInv
<1>15. CASE Wait(i)
  <2>1. inst' \in [Instances -> InstanceState]
    <3>1. [inst[i] EXCEPT !.pc = "ps", !.nc = "none", !.stays = FALSE] \in InstanceState
      BY <1>0, Fields DEF Pcs, TearDownPcs
    <3>. QED
      BY <1>15, <3>1 DEF Wait, TypeInv
  <2>. QED
    BY <1>15, <2>1 DEF Wait, TypeInv
<1>16. CASE FindRemotePid(i)
  <2>1. inst' \in [Instances -> InstanceState]
    <3>1. PICK works \in Outcomes :
            inst' = [inst EXCEPT
               ![i].pc = IF works /\ remote # 0 THEN "kill" ELSE "unforward",
               ![i].seen = IF works THEN remote ELSE 0]
      BY <1>16 DEF FindRemotePid
    <3>2. /\ (IF works /\ remote # 0 THEN "kill" ELSE "unforward") \in Pcs
          /\ (IF works THEN remote ELSE 0) \in Nat
      BY DEF Pcs, TearDownPcs, TypeInv
    <3>3. [inst[i] EXCEPT !.pc = IF works /\ remote # 0 THEN "kill" ELSE "unforward",
                          !.seen = IF works THEN remote ELSE 0] \in InstanceState
      BY <1>0, <3>2, Fields
    <3>. QED
      BY <3>1, <3>3 DEF TypeInv
  <2>2. spoiled' \subseteq Instances
    BY <1>16, NotedTyped DEF FindRemotePid
  <2>. QED
    BY <1>16, <2>1, <2>2 DEF FindRemotePid, TypeInv
<1>17. CASE KillRemote(i)
  <2>1. /\ inst' \in [Instances -> InstanceState]
        /\ disturbed' \subseteq Instances /\ spoiled' \subseteq Instances
        /\ remote' \in Nat
    <3>1. CASE remote' = 0 /\ Taken(i, "unforward", {"user", "mount", "spawn"})
               /\ UNCHANGED spoiled
      BY <3>1, TakenTyped DEF TypeInv, Pcs, TearDownPcs
    <3>2. CASE /\ inst' = [inst EXCEPT ![i].pc = "unforward", ![i].seen = 0]
               /\ Noted(remote # inst[i].seen)
               /\ UNCHANGED <<remote, disturbed>>
      <4>1. inst' \in [Instances -> InstanceState]
        <5>1. [inst[i] EXCEPT !.pc = "unforward", !.seen = 0] \in InstanceState
          <6>1. "unforward" \in Pcs /\ 0 \in Nat
            BY DEF Pcs, TearDownPcs
          <6>. QED
            BY <1>0, <6>1, Fields
        <5>. QED
          BY <3>2, <5>1 DEF TypeInv
      <4>2. spoiled' \subseteq Instances
        BY <3>2, NotedTyped
      <4>. QED
        BY <3>2, <4>1, <4>2 DEF TypeInv
    <3>. QED
      BY <1>17, <3>1, <3>2 DEF KillRemote
  <2>. QED
    BY <1>17, <2>1 DEF KillRemote, TypeInv
<1>18. CASE FindForwarded(i)
  <2>1. inst' \in [Instances -> InstanceState]
    BY <1>18, GotoTyped DEF FindForwarded, Pcs, TearDownPcs
  <2>2. spoiled' \subseteq Instances
    BY <1>18, NotedTyped DEF FindForwarded
  <2>. QED
    BY <1>18, <2>1, <2>2 DEF FindForwarded, TypeInv
<1>19. CASE RemoveForward(i)
  <2>1. /\ inst' \in [Instances -> InstanceState]
        /\ disturbed' \subseteq Instances /\ spoiled' \subseteq Instances
        /\ forwarded' \in BOOLEAN
    <3>1. CASE /\ forwarded' = FALSE
               /\ Taken(i, "cleanup", {"remote", "starting", "remotecheck",
                                       "user", "mount", "spawn"})
               /\ UNCHANGED spoiled
      BY <3>1, TakenTyped DEF TypeInv, Pcs, TearDownPcs
    <3>2. CASE Goto(i, "cleanup") /\ Noted(FALSE) /\ UNCHANGED <<forwarded, disturbed>>
      BY <3>2, GotoTyped, NotedTyped DEF TypeInv, Pcs, TearDownPcs
    <3>. QED
      BY <1>19, <3>1, <3>2 DEF RemoveForward
  <2>. QED
    BY <1>19, <2>1 DEF RemoveForward, TypeInv
<1>20. CASE CleanUp(i)
  <2>1. inst' \in [Instances -> InstanceState]
    BY <1>0, <1>20 DEF CleanUp, TypeInv, Pcs, TearDownPcs
  <2>. QED
    BY <1>20, <2>1 DEF CleanUp, TypeInv
<1>21. CASE Crash(i)
  <2>1. [NewInstance EXCEPT !.pc = "crashed", !.temp = inst[i].temp] \in InstanceState
    BY <1>0 DEF InstanceState, Pcs
  <2>2. inst' \in [Instances -> InstanceState]
    BY <1>21, <2>1 DEF Crash, TypeInv
  <2>. QED
    BY <1>21, <2>2 DEF Crash, TypeInv, TearingDown
<1>. QED
  BY <1>1, <1>2, <1>3, <1>4, <1>5, <1>6, <1>7, <1>8, <1>9, <1>10, <1>11, <1>12,
     <1>13, <1>14, <1>15, <1>16, <1>17, <1>18, <1>19, <1>20, <1>21
     DEF SetUp, TearDown

LEMMA NextTyped == TypeInv /\ [Next]_vars => TypeInv'
<1>. SUFFICES ASSUME TypeInv, [Next]_vars PROVE TypeInv'
  OBVIOUS
<1>1. CASE \E i \in Instances :
              Start(i) \/ SetUp(i) \/ Unmount(i) \/ TearDown(i) \/ Crash(i)
  BY <1>1, StepTyped
<1>2. CASE Remount
  BY <1>2 DEF Remount, TypeInv, history
<1>3. CASE UNCHANGED vars
  BY <1>3 DEF vars, TypeInv
<1>. QED
  BY <1>1, <1>2, <1>3 DEF Next

\* The device, the instances and what they have read and checked stay well formed,
\* whatever the instances do and however they interleave.
THEOREM TypeCorrect == Spec => []TypeOK
<1>1. Init => TypeInv
  BY InitTyped
<1>2. TypeInv => TypeOK
  BY DEF TypeInv, TypeOK, InstanceState, Pcs
<1>. QED
  BY <1>1, <1>2, NextTyped, PTL DEF Spec

-----------------------------------------------------------------------------
(* What an instance has read.                                              *)

\* What j has read, and of which mounts, stays.
Same(j) ==
    /\ inst'[j].userInfo = inst[j].userInfo
    /\ inst'[j].mountInfo = inst[j].mountInfo
    /\ asOf'[j] = asOf[j]

\* j has lost what it had read.
Lost(j) == inst'[j].userInfo = None /\ inst'[j].mountInfo = None

LEMMA TakenReads ==
    ASSUME TypeInv, NEW i \in Instances, NEW pc \in Pcs, NEW pcs, Taken(i, pc, pcs)
    PROVE  \A j \in Instances :
              /\ inst'[j].userInfo = inst[j].userInfo
              /\ inst'[j].mountInfo = inst[j].mountInfo
<1>1. PICK cut \in SUBSET {j \in Instances \ {i} : inst[j].nc = "connected"} :
          inst' = [j \in Instances |->
                IF j = i THEN [inst[j] EXCEPT !.pc = pc, !.seen = 0]
                ELSE IF j \in cut THEN [inst[j] EXCEPT !.nc = "cut"] ELSE inst[j]]
  BY DEF Taken
<1>2. \A j \in Instances : inst[j] \in InstanceState
  BY DEF TypeInv
<1>. QED
  BY <1>1, <1>2 DEF InstanceState

LEMMA StepReads ==
    ASSUME TypeInv, ReadInv, NEW i \in Instances,
           Start(i) \/ SetUp(i) \/ Unmount(i) \/ TearDown(i) \/ Crash(i)
    PROVE  ReadInv'
<1>. USE DEF device, history
<1>0. /\ \A j \in Instances : inst[j] \in InstanceState
      /\ inst \in [Instances -> InstanceState]
      /\ asOf \in [Instances -> MountLists \cup {None}]
      /\ mounts \in MountLists
  BY DEF TypeInv
<1>1. user' = user
  BY DEF Start, SetUp, Unmount, TearDown, Crash, FindDevice, FindForward, Forward,
         CheckForward, FindRemote, StartRemote, CheckRemote, QueryUser, QueryMount,
         SpawnNetCat, Mount, Down, Wait, FindRemotePid, KillRemote, FindForwarded,
         RemoveForward, CleanUp
<1>2. CASE \A j \in Instances : Same(j)
  BY <1>1, <1>2 DEF ReadInv, Same
<1>3. CASE QueryUser(i)
  <2>1. \A j \in Instances :
           /\ inst'[j].userInfo \in {inst[j].userInfo, user}
           /\ inst'[j].mountInfo = inst[j].mountInfo
    BY <1>0, <1>3 DEF QueryUser, Goto, InstanceState
  <2>2. asOf' = asOf
    BY <1>3 DEF QueryUser
  <2>. QED
    BY <1>1, <2>1, <2>2 DEF ReadInv
<1>4. CASE QueryMount(i)
  <2>1. CASE /\ inst' = [inst EXCEPT ![i].pc = "spawn",
                           ![i].mountInfo = MountTable(Append(mounts, SdCardLine))]
             /\ asOf' = [asOf EXCEPT ![i] = mounts]
    <3>1. MountTable(Append(mounts, SdCardLine)) = MountTable(Lines(mounts))
      BY DEF Lines, SdCardLine
    <3>2. \A j \in Instances :
             /\ inst'[j].userInfo = inst[j].userInfo
             /\ j # i => Same(j)
             /\ j = i => /\ inst'[j].mountInfo = MountTable(Lines(mounts))
                        /\ asOf'[j] = mounts
      BY <1>0, <2>1, <3>1 DEF InstanceState, Same
    <3>. QED
      BY <1>0, <1>1, <3>2 DEF ReadInv, Same
  <2>2. CASE /\ inst' = [inst EXCEPT ![i].pc = "spawn", ![i].failed = TRUE]
             /\ UNCHANGED asOf
    <3>1. \A j \in Instances : Same(j)
      BY <1>0, <2>2 DEF InstanceState, Same
    <3>. QED
      BY <1>2, <3>1
  <2>. QED
    BY <1>4, <2>1, <2>2 DEF QueryMount
<1>5. CASE CleanUp(i) \/ Crash(i)
  <2>1. PICK r : /\ inst' = [inst EXCEPT ![i] = r]
                 /\ r.userInfo = None /\ r.mountInfo = None
    <3>1. CASE CleanUp(i)
      <4>. DEFINE r == [NewInstance EXCEPT !.pc = IF inst[i].again THEN "down" ELSE "ended"]
      <4>1. inst' = [inst EXCEPT ![i] = r]
        BY <3>1 DEF CleanUp
      <4>2. r.userInfo = None /\ r.mountInfo = None
        BY DEF NewInstance
      <4>. HIDE DEF r
      <4>. QED
        BY <4>1, <4>2
    <3>2. CASE Crash(i)
      <4>. DEFINE r == [NewInstance EXCEPT !.pc = "crashed", !.temp = inst[i].temp]
      <4>1. inst' = [inst EXCEPT ![i] = r]
        BY <3>2 DEF Crash
      <4>2. r.userInfo = None /\ r.mountInfo = None
        BY DEF NewInstance
      <4>. HIDE DEF r
      <4>. QED
        BY <4>1, <4>2
    <3>. QED
      BY <1>5, <3>1, <3>2
  <2>2. asOf' = [asOf EXCEPT ![i] = None]
    BY <1>5 DEF CleanUp, Crash
  <2>3. \A j \in Instances : IF j = i THEN Lost(j) ELSE Same(j)
    BY <1>0, <2>1, <2>2 DEF Lost, Same
  <2>. QED
    BY <1>1, <2>3 DEF ReadInv, Lost, Same
<1>6. CASE Start(i)
  <2>1. \A j \in Instances : Same(j)
    BY <1>0, <1>6 DEF Start, Goto, InstanceState, Same
  <2>. QED
    BY <1>2, <2>1
<1>7. CASE FindDevice(i) \/ FindForward(i) \/ Forward(i) \/ CheckForward(i)
           \/ FindRemote(i) \/ StartRemote(i) \/ CheckRemote(i)
           \/ Down(i) \/ FindForwarded(i)
  <2>1. asOf' = asOf /\ \E pc \in Pcs : Goto(i, pc)
    <3>1. CASE FindDevice(i)
      BY <3>1 DEF FindDevice, Pcs, SetUpPcs, TearDownPcs
    <3>2. CASE FindForward(i)
      BY <3>2 DEF FindForward, Pcs, SetUpPcs, TearDownPcs
    <3>3. CASE Forward(i)
      BY <3>3 DEF Forward, Pcs, SetUpPcs, TearDownPcs
    <3>4. CASE CheckForward(i)
      BY <3>4 DEF CheckForward, Pcs, SetUpPcs, TearDownPcs
    <3>5. CASE FindRemote(i)
      BY <3>5 DEF FindRemote, Pcs, SetUpPcs, TearDownPcs
    <3>6. CASE StartRemote(i)
      BY <3>6 DEF StartRemote, Pcs, SetUpPcs, TearDownPcs
    <3>7. CASE CheckRemote(i)
      BY <3>7 DEF CheckRemote, Pcs, SetUpPcs, TearDownPcs
    <3>8. CASE Down(i)
      BY <3>8 DEF Down, Pcs, SetUpPcs, TearDownPcs
    <3>9. CASE FindForwarded(i)
      BY <3>9 DEF FindForwarded, Pcs, SetUpPcs, TearDownPcs
    <3>. QED
      BY <1>7, <3>1, <3>2, <3>3, <3>4, <3>5, <3>6, <3>7, <3>8, <3>9
  <2>2. \A j \in Instances : Same(j)
    BY <1>0, <2>1 DEF Goto, InstanceState, Same
  <2>. QED
    BY <1>2, <2>2
<1>8. CASE SpawnNetCat(i) \/ Unmount(i) \/ Wait(i)
  <2>1. \A j \in Instances : Same(j)
    BY <1>0, <1>8 DEF SpawnNetCat, Unmount, Wait, InstanceState, Same
  <2>. QED
    BY <1>2, <2>1
<1>9. CASE Mount(i)
  <2>1. \A j \in Instances : Same(j)
    BY <1>0, <1>9 DEF Mount, Goto, InstanceState, Same
  <2>. QED
    BY <1>2, <2>1
<1>10. CASE FindRemotePid(i)
  <2>1. \A j \in Instances : Same(j)
    BY <1>0, <1>10 DEF FindRemotePid, InstanceState, Same
  <2>. QED
    BY <1>2, <2>1
<1>11. CASE KillRemote(i)
  <2>1. CASE Taken(i, "unforward", {"user", "mount", "spawn"})
    BY <1>2, <1>11, <2>1, TakenReads DEF KillRemote, Same, Pcs, TearDownPcs
  <2>2. CASE inst' = [inst EXCEPT ![i].pc = "unforward", ![i].seen = 0]
    <3>1. \A j \in Instances : Same(j)
      BY <1>0, <1>11, <2>2 DEF KillRemote, InstanceState, Same
    <3>. QED
      BY <1>2, <3>1
  <2>. QED
    BY <1>11, <2>1, <2>2 DEF KillRemote
<1>12. CASE RemoveForward(i)
  <2>1. CASE Taken(i, "cleanup", {"remote", "starting", "remotecheck",
                                  "user", "mount", "spawn"})
    BY <1>2, <1>12, <2>1, TakenReads DEF RemoveForward, Same, Pcs, TearDownPcs
  <2>2. CASE Goto(i, "cleanup")
    <3>1. \A j \in Instances : Same(j)
      BY <1>0, <1>12, <2>2 DEF RemoveForward, Goto, InstanceState, Same
    <3>. QED
      BY <1>2, <3>1
  <2>. QED
    BY <1>12, <2>1, <2>2 DEF RemoveForward
<1>. QED
  BY <1>3, <1>4, <1>5, <1>6, <1>7, <1>8, <1>9, <1>10, <1>11, <1>12 DEF SetUp, TearDown

LEMMA NextReads == TypeInv /\ ReadInv /\ [Next]_vars => ReadInv'
<1>. SUFFICES ASSUME TypeInv, ReadInv, [Next]_vars PROVE ReadInv'
  OBVIOUS
<1>1. CASE \E i \in Instances :
              Start(i) \/ SetUp(i) \/ Unmount(i) \/ TearDown(i) \/ Crash(i)
  BY <1>1, StepReads
<1>2. CASE Remount
  BY <1>2 DEF Remount, ReadInv, history
<1>3. CASE UNCHANGED vars
  BY <1>3 DEF vars, ReadInv
<1>. QED
  BY <1>1, <1>2, <1>3 DEF Next

\* What an instance answers is what the device would answer.
LEMMA ReadAgrees == TypeInv /\ ReadInv => AccessAgrees
<1>. SUFFICES ASSUME TypeInv, ReadInv, NEW i \in Instances,
                     inst[i].userInfo # None, inst[i].mountInfo # None,
                     asOf[i] = mounts, NothingHidden(mounts),
                     NEW p \in Places, NEW f \in Files \cup {None}, NEW above \in Aboves,
                     NEW mask \in SUBSET Rights, ~AtOrAbove(SdCard, p),
                     Searchable(user, above)
              PROVE  LET answer == Access(inst[i].userInfo, inst[i].mountInfo, f, p, mask)
                         should == DeviceAccess(user, mounts, f, above, p, mask)
                     IN  /\ answer = "granted" => should = "granted"
                         /\ f = None \/ (user.uid # 0 /\ OptionsApply(mounts, f, p, mask))
                               => answer = should
  BY DEF AccessAgrees
<1>1. inst[i].userInfo = user /\ inst[i].mountInfo = MountTable(Lines(mounts))
  BY DEF ReadInv
<1>2. /\ user \in UserIds /\ mounts \in Seq(MountLine) /\ above \in SUBSET Directory
      /\ p \in Paths /\ f \in File \cup {None}
  BY LifecycleAssumption DEF TypeInv
<1>3. user # None /\ MountTable(Lines(mounts)) # None
  BY <1>1
<1>4. /\ Access(user, MountTable(Lines(mounts)), f, p, mask) = "granted"
            => DeviceAccess(user, mounts, f, above, p, mask) = "granted"
      /\ f = None \/ (user.uid # 0 /\ OptionsApply(mounts, f, p, mask))
            => Access(user, MountTable(Lines(mounts)), f, p, mask)
                  = DeviceAccess(user, mounts, f, above, p, mask)
  BY <1>2, <1>3, AccessCorrect
<1>. QED
  BY <1>1, <1>4

\* In every mounted instance, adbnc_access grants nothing that the device refuses, and answers
\* what it answers unless the user is root or the mount's options do not apply to the
\* type of the file, for every path outside the memory card below directories the user
\* may search, as long as the mounts are those of the set-up and none hides another.
THEOREM AccessAlwaysAgrees == Spec => []AccessAgrees
<1>1. Init => TypeInv /\ ReadInv
  BY InitTyped
<1>. QED
  BY <1>1, NextTyped, NextReads, ReadAgrees, PTL DEF Spec

-----------------------------------------------------------------------------
(* Who is mounted is connected.                                            *)

\* A step of i that takes nothing away keeps what the others have checked.
LEMMA OthersChecked ==
    ASSUME ConnInv, NEW i \in Instances,
           forwarded => forwarded', remote # 0 => remote' # 0,
           \A j \in Instances \ {i} : inst'[j] = inst[j],
           disturbed \ {i} \subseteq disturbed',
           NoneYet(i)', i \notin disturbed' => Checked(i)'
    PROVE  ConnInv'
  BY DEF ConnInv, NoneYet, Checked

\* Taking the port or the netcat away disturbs whoever had checked it and is not
\* connected yet; of the others it may cut the connection, and then disturbs them.
LEMMA TakenChecked ==
    ASSUME TypeInv, ConnInv, NEW i \in Instances, NEW pcs, NEW pc \in TearDownPcs,
           Taken(i, pc, pcs),
           \A j \in Instances : inst[j].pc \notin pcs =>
               /\ inst[j].pc \in {"remote", "starting", "remotecheck"}
                      => forwarded' = forwarded
               /\ inst[j].pc \notin {"user", "mount", "spawn"}
    PROVE  ConnInv'
<1>1. PICK cut \in SUBSET {j \in Instances \ {i} : inst[j].nc = "connected"} :
          /\ inst' = [j \in Instances |->
                IF j = i THEN [inst[j] EXCEPT !.pc = pc, !.seen = 0]
                ELSE IF j \in cut THEN [inst[j] EXCEPT !.nc = "cut"] ELSE inst[j]]
          /\ disturbed' = disturbed \cup Harmed(i, pcs, cut)
  BY DEF Taken
<1>2. \A j \in Instances : inst[j] \in InstanceState
  BY DEF TypeInv
<1>3. inst'[i].pc = pc
  BY <1>1, <1>2 DEF InstanceState
<1>4. NoneYet(i)' /\ Checked(i)'
  BY <1>3 DEF NoneYet, Checked, TearDownPcs
<1>5. ASSUME NEW j \in Instances \ {i}
      PROVE  NoneYet(j)' /\ (j \notin disturbed' => Checked(j)')
  <2>1. CASE j \in cut
    <3>1. inst'[j].pc = inst[j].pc /\ inst[j].nc = "connected"
      BY <1>1, <1>2, <2>1 DEF InstanceState
    <3>2. NoneYet(j)'
      BY <3>1 DEF ConnInv, NoneYet
    <3>3. j \in disturbed'
      BY <1>1, <2>1 DEF Harmed
    <3>. QED
      BY <3>2, <3>3
  <2>2. CASE j \notin cut
    <3>1. inst'[j] = inst[j]
      BY <1>1, <2>2
    <3>2. NoneYet(j)'
      BY <3>1 DEF ConnInv, NoneYet
    <3>3. ASSUME j \notin disturbed'
          PROVE  Checked(j)'
      <4>1. j \notin disturbed /\ Checked(j)
        BY <1>1, <3>3 DEF ConnInv
      <4>2. inst[j].pc \in pcs => inst[j].nc # "none"
        BY <1>1, <3>3 DEF Harmed
      <4>3. inst[j].pc \in {"remote", "starting", "remotecheck", "user", "mount", "spawn"}
               => inst[j].nc = "none"
        BY DEF ConnInv, NoneYet
      <4>. QED
        BY <3>1, <4>1, <4>2, <4>3 DEF Checked
    <3>. QED
      BY <3>2, <3>3
  <2>. QED
    BY <2>1, <2>2
<1>. QED
  BY <1>4, <1>5 DEF ConnInv

LEMMA StepChecked ==
    ASSUME TypeInv, ConnInv, NEW i \in Instances,
           Start(i) \/ SetUp(i) \/ Unmount(i) \/ TearDown(i) \/ Crash(i)
    PROVE  ConnInv'
<1>. USE DEF device, history
<1>0. /\ \A j \in Instances : inst[j] \in InstanceState
      /\ inst \in [Instances -> InstanceState]
      /\ NoneYet(i) /\ (i \notin disturbed => Checked(i))
  BY DEF TypeInv, ConnInv
<1>1. CASE Start(i)
  <2>1. /\ \A j \in Instances \ {i} : inst'[j] = inst[j]
        /\ inst'[i].pc \in {"device", "down", "ended"}
        /\ inst'[i].nc = inst[i].nc
    BY <1>0, <1>1 DEF Start, Goto, InstanceState
  <2>. QED
    BY <1>0, <1>1, <2>1, OthersChecked DEF Start, At, NoneYet, Checked
<1>2. CASE FindDevice(i) \/ FindForward(i) \/ Forward(i)
  <2>1. /\ \A j \in Instances \ {i} : inst'[j] = inst[j]
        /\ inst'[i].pc \in {"forward", "down", "forwardcheck", "forwarding"}
        /\ inst'[i].nc = inst[i].nc /\ inst[i].nc = "none"
    <3>1. \E pc \in {"forward", "down", "forwardcheck", "forwarding"} : Goto(i, pc)
      BY <1>2 DEF FindDevice, FindForward, Forward
    <3>2. inst[i].nc = "none"
      BY <1>0, <1>2 DEF FindDevice, FindForward, Forward, At, NoneYet
    <3>. QED
      BY <1>0, <3>1, <3>2 DEF Goto, InstanceState
  <2>2. /\ forwarded => forwarded'
        /\ remote' = remote /\ disturbed' = disturbed
    <3>1. CASE FindDevice(i)
      BY <3>1 DEF FindDevice
    <3>2. CASE FindForward(i)
      BY <3>2 DEF FindForward
    <3>3. CASE Forward(i)
      BY <3>3 DEF Forward
    <3>. QED
      BY <1>2, <3>1, <3>2, <3>3
  <2>. QED
    BY <2>1, <2>2, OthersChecked DEF NoneYet, Checked
<1>3. CASE CheckForward(i)
  <2>1. /\ \A j \in Instances \ {i} : inst'[j] = inst[j]
        /\ inst'[i].pc = "down" \/ (inst'[i].pc = "remote" /\ forwarded)
        /\ inst'[i].nc = inst[i].nc /\ inst[i].nc = "none"
    <3>1. \E pc \in {"down", "remote"} : Goto(i, pc) /\ (pc = "remote" => forwarded)
      <4>1. PICK works \in Outcomes : Goto(i, IF works /\ forwarded THEN "remote" ELSE "down")
        BY <1>3 DEF CheckForward
      <4>2. CASE works /\ forwarded
        <5>1. Goto(i, "remote")
          BY <4>1, <4>2
        <5>. QED
          BY <4>2, <5>1
      <4>3. CASE ~(works /\ forwarded)
        <5>1. Goto(i, "down")
          BY <4>1, <4>3
        <5>. QED
          BY <5>1
      <4>. QED
        BY <4>2, <4>3
    <3>2. inst[i].nc = "none"
      BY <1>0, <1>3 DEF CheckForward, At, NoneYet
    <3>. QED
      BY <1>0, <3>1, <3>2 DEF Goto, InstanceState
  <2>2. forwarded' = forwarded /\ remote' = remote /\ disturbed' = disturbed
    BY <1>3 DEF CheckForward
  <2>. QED
    BY <2>1, <2>2, OthersChecked DEF NoneYet, Checked
<1>4. CASE FindRemote(i) \/ StartRemote(i)
  <2>1. /\ \A j \in Instances \ {i} : inst'[j] = inst[j]
        /\ inst'[i].pc \in {"starting", "remotecheck"}
        /\ inst'[i].nc = inst[i].nc /\ inst[i].nc = "none"
        /\ i \notin disturbed => forwarded
    BY <1>0, <1>4 DEF FindRemote, StartRemote, Goto, At, InstanceState, NoneYet, Checked
  <2>2. /\ forwarded' = forwarded /\ disturbed' = disturbed
        /\ remote # 0 => remote' # 0
    BY <1>4 DEF FindRemote, StartRemote
  <2>. QED
    BY <2>1, <2>2, OthersChecked DEF NoneYet, Checked
<1>5. CASE CheckRemote(i)
  <2>1. /\ \A j \in Instances \ {i} : inst'[j] = inst[j]
        /\ inst'[i].pc = "down" \/ (inst'[i].pc = "user" /\ remote # 0)
        /\ inst'[i].nc = inst[i].nc /\ inst[i].nc = "none"
        /\ i \notin disturbed => forwarded
    <3>1. \E pc \in {"down", "user"} : Goto(i, pc) /\ (pc = "user" => remote # 0)
      <4>1. PICK works \in Outcomes : Goto(i, IF works /\ remote # 0 THEN "user" ELSE "down")
        BY <1>5 DEF CheckRemote
      <4>2. CASE works /\ remote # 0
        <5>1. Goto(i, "user")
          BY <4>1, <4>2
        <5>. QED
          BY <4>2, <5>1
      <4>3. CASE ~(works /\ remote # 0)
        <5>1. Goto(i, "down")
          BY <4>1, <4>3
        <5>. QED
          BY <5>1
      <4>. QED
        BY <4>2, <4>3
    <3>2. inst[i].nc = "none" /\ (i \notin disturbed => forwarded)
      BY <1>0, <1>5 DEF CheckRemote, At, NoneYet, Checked
    <3>. QED
      BY <1>0, <3>1, <3>2 DEF Goto, InstanceState
  <2>2. forwarded' = forwarded /\ remote' = remote /\ disturbed' = disturbed
    BY <1>5 DEF CheckRemote
  <2>. QED
    BY <2>1, <2>2, OthersChecked DEF NoneYet, Checked
<1>6. CASE QueryUser(i) \/ QueryMount(i)
  <2>1. /\ \A j \in Instances \ {i} : inst'[j] = inst[j]
        /\ inst'[i].pc \in {"down", "mount", "spawn"}
        /\ inst'[i].nc = inst[i].nc /\ inst[i].nc = "none"
        /\ i \notin disturbed => forwarded /\ remote # 0
    BY <1>0, <1>6 DEF QueryUser, QueryMount, Goto, At, InstanceState, NoneYet, Checked
  <2>2. forwarded' = forwarded /\ remote' = remote /\ disturbed' = disturbed
    BY <1>6 DEF QueryUser, QueryMount
  <2>. QED
    BY <2>1, <2>2, OthersChecked DEF NoneYet, Checked
<1>7. CASE SpawnNetCat(i)
  <2>1. /\ \A j \in Instances \ {i} : inst'[j] = inst[j]
        /\ inst'[i].pc \in {"down", "mounting"}
        /\ inst'[i].nc = IF forwarded /\ remote # 0 THEN "connected" ELSE "cut"
        /\ i \notin disturbed => forwarded /\ remote # 0
    BY <1>0, <1>7 DEF SpawnNetCat, At, InstanceState, Checked
  <2>2. forwarded' = forwarded /\ remote' = remote /\ disturbed' = disturbed
    BY <1>7 DEF SpawnNetCat
  <2>. QED
    BY <2>1, <2>2, OthersChecked DEF NoneYet, Checked
<1>8. CASE Mount(i)
  <2>1. /\ \A j \in Instances \ {i} : inst'[j] = inst[j]
        /\ inst'[i].pc \in {"down", "mounted"}
        /\ inst'[i].nc = inst[i].nc
        /\ i \notin disturbed => inst[i].nc = "connected"
    BY <1>0, <1>8 DEF Mount, Goto, At, InstanceState, Checked
  <2>2. forwarded' = forwarded /\ remote' = remote /\ disturbed' = disturbed
    BY <1>8 DEF Mount
  <2>. QED
    BY <2>1, <2>2, OthersChecked DEF NoneYet, Checked
<1>9. CASE Unmount(i) \/ Down(i) \/ Wait(i) \/ FindRemotePid(i) \/ FindForwarded(i)
  <2>1. /\ \A j \in Instances \ {i} : inst'[j] = inst[j]
        /\ inst'[i].pc \in TearDownPcs
    <3>1. CASE Unmount(i)
      BY <1>0, <3>1 DEF Unmount, InstanceState, TearDownPcs
    <3>2. CASE Down(i) \/ FindForwarded(i)
      <4>1. \E pc \in TearDownPcs : Goto(i, pc)
        BY <3>2 DEF Down, FindForwarded, TearDownPcs
      <4>. QED
        BY <1>0, <4>1 DEF Goto, InstanceState
    <3>3. CASE Wait(i)
      BY <1>0, <3>3 DEF Wait, InstanceState, TearDownPcs
    <3>4. CASE FindRemotePid(i)
      BY <1>0, <3>4 DEF FindRemotePid, InstanceState, TearDownPcs
    <3>. QED
      BY <1>9, <3>1, <3>2, <3>3, <3>4
  <2>2. forwarded' = forwarded /\ remote' = remote /\ disturbed' = disturbed
    BY <1>9 DEF Unmount, Down, Wait, FindRemotePid, FindForwarded
  <2>. QED
    BY <2>1, <2>2, OthersChecked DEF NoneYet, Checked, TearDownPcs
<1>10. CASE KillRemote(i)
  <2>1. CASE Taken(i, "unforward", {"user", "mount", "spawn"})
    BY <1>10, <2>1, TakenChecked DEF KillRemote, TearDownPcs
  <2>2. CASE /\ inst' = [inst EXCEPT ![i].pc = "unforward", ![i].seen = 0]
             /\ UNCHANGED <<remote, disturbed>>
    <3>1. (\A j \in Instances \ {i} : inst'[j] = inst[j]) /\ inst'[i].pc = "unforward"
      BY <1>0, <2>2 DEF InstanceState
    <3>2. forwarded' = forwarded
      BY <1>10 DEF KillRemote
    <3>. QED
      BY <2>2, <3>1, <3>2, OthersChecked DEF NoneYet, Checked
  <2>. QED
    BY <1>10, <2>1, <2>2 DEF KillRemote
<1>11. CASE RemoveForward(i)
  <2>1. CASE Taken(i, "cleanup", {"remote", "starting", "remotecheck",
                                  "user", "mount", "spawn"})
    BY <2>1, TakenChecked DEF TearDownPcs
  <2>2. CASE Goto(i, "cleanup") /\ UNCHANGED <<forwarded, disturbed>>
    <3>1. (\A j \in Instances \ {i} : inst'[j] = inst[j]) /\ inst'[i].pc = "cleanup"
      BY <1>0, <2>2 DEF Goto, InstanceState
    <3>2. remote' = remote
      BY <1>11 DEF RemoveForward
    <3>. QED
      BY <2>2, <3>1, <3>2, OthersChecked DEF NoneYet, Checked
  <2>. QED
    BY <1>11, <2>1, <2>2 DEF RemoveForward
<1>12. CASE CleanUp(i) \/ Crash(i)
  <2>1. /\ \A j \in Instances \ {i} : inst'[j] = inst[j]
        /\ inst'[i].pc \in {"down", "ended", "crashed"}
    BY <1>0, <1>12 DEF CleanUp, Crash, NewInstance
  <2>2. forwarded' = forwarded /\ remote' = remote /\ disturbed' = disturbed \ {i}
    BY <1>12 DEF CleanUp, Crash
  <2>. QED
    BY <2>1, <2>2, OthersChecked DEF NoneYet, Checked
<1>. QED
  BY <1>1, <1>2, <1>3, <1>4, <1>5, <1>6, <1>7, <1>8, <1>9, <1>10, <1>11, <1>12
     DEF SetUp, TearDown

LEMMA NextChecked == TypeInv /\ ConnInv /\ [Next]_vars => ConnInv'
<1>. SUFFICES ASSUME TypeInv, ConnInv, [Next]_vars PROVE ConnInv'
  OBVIOUS
<1>1. CASE \E i \in Instances :
              Start(i) \/ SetUp(i) \/ Unmount(i) \/ TearDown(i) \/ Crash(i)
  BY <1>1, StepChecked
<1>2. CASE Remount
  BY <1>2 DEF Remount, ConnInv, NoneYet, Checked, history
<1>3. CASE UNCHANGED vars
  BY <1>3 DEF vars, ConnInv, NoneYet, Checked
<1>. QED
  BY <1>1, <1>2, <1>3 DEF Next

\* However many instances set up, tear down and are killed on one device, one that is
\* mounted is connected, unless another took the netcat or the port away after it had
\* checked them.
THEOREM MountedStaysConnected == Spec => []MountedConnected
<1>1. Init => TypeInv /\ ConnInv
  BY InitTyped
<1>2. ConnInv => MountedConnected
  BY DEF ConnInv, Checked, MountedConnected, At
<1>. QED
  BY <1>1, <1>2, NextTyped, NextChecked, PTL DEF Spec

-----------------------------------------------------------------------------
(* What the last instance leaves behind.                                   *)

\* Instance i will not kill the netcat that runs: it is past that, or after another one.
Past(i) == \/ inst[i].pc \in {"unforward", "remove", "cleanup"}
           \/ inst[i].pc = "kill" /\ inst[i].seen # remote

\* Another instance will kill the netcat, and remove the port.
Killer == \E j \in Instances : Live(j) /\ ~Past(j)

Remover == \E j \in Instances : Live(j) /\ ~At(j, "cleanup")

\* What an instance leaves whose tear-down worked so far is left to another one.
LeftOver(i) ==
    /\ Past(i) /\ remote # 0 => Killer
    /\ At(i, "cleanup") /\ forwarded => Remover

CleanInv == \A i \in Instances \ spoiled : LeftOver(i)

LEMMA PastTearsDown ==
    \A i \in Instances : Past(i) \/ At(i, "cleanup") => i \in TearingDown
BY DEF Past, At, TearingDown, TearDownPcs

\* Instance i is in the middle of things: it cares for everything.
LEMMA BusyClean ==
    ASSUME NEW i \in Instances, Live(i)', ~Past(i)', ~At(i, "cleanup")'
    PROVE  CleanInv'
BY DEF CleanInv, LeftOver, Killer, Remover

\* Whoever was tearing down is in spoiled.
LEMMA SpoiledClean ==
    ASSUME NEW i \in Instances,
           \A j \in Instances \ {i} : inst'[j].pc = inst[j].pc,
           TearingDown \ {i} \subseteq spoiled',
           i \in spoiled' \/ inst'[i].pc = "crashed"
    PROVE  CleanInv'
<1>1. ASSUME NEW j \in Instances, j \notin spoiled' PROVE LeftOver(j)'
  <2>1. CASE j = i
    BY <1>1, <2>1 DEF LeftOver, Past, At
  <2>2. CASE j # i
    <3>1. inst'[j].pc = inst[j].pc /\ inst[j].pc \notin TearDownPcs
      BY <1>1, <2>2 DEF TearingDown
    <3>. QED
      BY <3>1 DEF LeftOver, Past, At, TearDownPcs
  <2>. QED
    BY <2>1, <2>2
<1>. QED
  BY <1>1 DEF CleanInv

\* Instance i goes on, and leaves the netcat only when it had left it before, and the
\* port only when it is not forwarded any more.
LEMMA MovesClean ==
    ASSUME CleanInv, NEW i \in Instances,
           \A j \in Instances \ {i} : /\ inst'[j].pc = inst[j].pc
                                      /\ inst'[j].seen = inst[j].seen,
           spoiled' = spoiled,
           remote' = 0 \/ (remote' = remote /\ (Past(i) \/ ~Live(i))
                                            /\ (Past(i)' => Past(i))),
           \/ forwarded' = FALSE
           \/ Live(i)' /\ ~At(i, "cleanup")'
           \/ /\ forwarded' = forwarded /\ ~At(i, "cleanup")'
              /\ At(i, "cleanup") \/ ~Live(i)
    PROVE  CleanInv'
<1>1. ASSUME NEW j \in Instances, j \notin spoiled' PROVE LeftOver(j)'
  <2>1. LeftOver(j)
    BY <1>1 DEF CleanInv
  <2>2. ASSUME Past(j)', remote' # 0 PROVE Killer'
    <3>1. remote' = remote /\ (Past(i) \/ ~Live(i)) /\ (Past(i)' => Past(i))
      BY <2>2
    <3>2. Past(j)
      BY <2>2, <3>1 DEF Past
    <3>3. PICK k \in Instances : Live(k) /\ ~Past(k)
      BY <2>1, <2>2, <3>1, <3>2 DEF LeftOver, Killer
    <3>4. k # i
      BY <3>1, <3>3
    <3>5. Live(k)' /\ ~Past(k)'
      BY <3>1, <3>3, <3>4 DEF Live, Past
    <3>. QED
      BY <3>5 DEF Killer
  <2>3. ASSUME At(j, "cleanup")', forwarded' PROVE Remover'
    <3>1. CASE Live(i)' /\ ~At(i, "cleanup")'
      BY <3>1 DEF Remover
    <3>2. CASE /\ forwarded' = forwarded /\ ~At(i, "cleanup")'
               /\ At(i, "cleanup") \/ ~Live(i)
      <4>1. At(j, "cleanup") /\ j # i
        BY <2>3, <3>2 DEF At
      <4>2. PICK k \in Instances : Live(k) /\ ~At(k, "cleanup")
        BY <2>1, <2>3, <3>2, <4>1 DEF LeftOver, Remover
      <4>3. k # i
        BY <3>2, <4>2
      <4>4. Live(k)' /\ ~At(k, "cleanup")'
        BY <4>2, <4>3 DEF Live, At
      <4>. QED
        BY <4>4 DEF Remover
    <3>. QED
      BY <2>3, <3>1, <3>2
  <2>. QED
    BY <2>2, <2>3 DEF LeftOver
<1>. QED
  BY <1>1 DEF CleanInv

\* The others stay where they are.
LEMMA OthersStay ==
    ASSUME TypeInv, NEW i \in Instances,
           Start(i) \/ SetUp(i) \/ Unmount(i) \/ TearDown(i) \/ Crash(i)
    PROVE  \A j \in Instances \ {i} : /\ inst'[j].pc = inst[j].pc
                                      /\ inst'[j].seen = inst[j].seen
<1>1. \A j \in Instances : inst[j] \in InstanceState
  BY DEF TypeInv
<1>2. ASSUME NEW pc, NEW pcs, Taken(i, pc, pcs), NEW j \in Instances \ {i}
      PROVE  inst'[j].pc = inst[j].pc /\ inst'[j].seen = inst[j].seen
  <2>1. inst'[j] \in {inst[j], [inst[j] EXCEPT !.nc = "cut"]}
    BY <1>2 DEF Taken
  <2>2. /\ [inst[j] EXCEPT !.nc = "cut"].pc = inst[j].pc
        /\ [inst[j] EXCEPT !.nc = "cut"].seen = inst[j].seen
    BY <1>1 DEF InstanceState
  <2>. QED
    BY <2>1, <2>2
<1>3. CASE \E r : inst' = [inst EXCEPT ![i] = r]
  BY <1>3 DEF TypeInv
<1>4. CASE \E pc, pcs : Taken(i, pc, pcs)
  BY <1>2, <1>4
<1>5. CASE Start(i) \/ Unmount(i) \/ Crash(i)
  BY <1>3, <1>5 DEF Start, Unmount, Crash, Goto
<1>6. CASE FindDevice(i) \/ FindForward(i) \/ Forward(i) \/ CheckForward(i)
           \/ FindRemote(i) \/ StartRemote(i) \/ CheckRemote(i)
  BY <1>3, <1>6 DEF FindDevice, FindForward, Forward, CheckForward, FindRemote,
                    StartRemote, CheckRemote, Goto
<1>7. CASE QueryUser(i) \/ QueryMount(i) \/ SpawnNetCat(i) \/ Mount(i)
  BY <1>3, <1>7 DEF QueryUser, QueryMount, SpawnNetCat, Mount, Goto
<1>8. CASE Down(i) \/ Wait(i) \/ FindRemotePid(i) \/ FindForwarded(i) \/ CleanUp(i)
  BY <1>3, <1>8 DEF Down, Wait, FindRemotePid, FindForwarded, CleanUp, Goto
<1>9. CASE KillRemote(i) \/ RemoveForward(i)
  BY <1>3, <1>4, <1>9 DEF KillRemote, RemoveForward, Goto
<1>. QED
  BY <1>5, <1>6, <1>7, <1>8, <1>9 DEF SetUp, TearDown

\* How far a step can bring an instance.
LEMMA SetUpMoves ==
    ASSUME TypeInv, NEW i \in Instances, SetUp(i) \/ Unmount(i) \/ Down(i) \/ Wait(i)
    PROVE  inst'[i].pc \in SetUpPcs \cup {"mounted", "down", "waiting", "ps"}
<1>0. inst[i] \in InstanceState
  BY DEF TypeInv
<1>1. CASE FindDevice(i) \/ FindForward(i) \/ Forward(i) \/ CheckForward(i)
           \/ FindRemote(i) \/ StartRemote(i) \/ CheckRemote(i)
  BY <1>0, <1>1 DEF TypeInv, FindDevice, FindForward, Forward, CheckForward, FindRemote,
                    StartRemote, CheckRemote, Goto, InstanceState, SetUpPcs
<1>2. CASE QueryUser(i) \/ QueryMount(i) \/ SpawnNetCat(i) \/ Mount(i)
  BY <1>0, <1>2 DEF TypeInv, QueryUser, QueryMount, SpawnNetCat, Mount, Goto,
                    InstanceState, SetUpPcs
<1>3. CASE Unmount(i) \/ Down(i) \/ Wait(i)
  BY <1>0, <1>3 DEF TypeInv, Unmount, Down, Wait, Goto, InstanceState
<1>. QED
  BY <1>1, <1>2, <1>3 DEF SetUp

LEMMA TearDownMoves ==
    ASSUME TypeInv, NEW i \in Instances,
           FindRemotePid(i) \/ KillRemote(i) \/ FindForwarded(i) \/ RemoveForward(i)
    PROVE  inst'[i].pc \in {"kill", "unforward", "remove", "cleanup"}
<1>0. inst[i] \in InstanceState
  BY DEF TypeInv
<1>1. ASSUME NEW pc, NEW pcs, Taken(i, pc, pcs) PROVE inst'[i].pc = pc
  BY <1>0, <1>1 DEF Taken, InstanceState
<1>2. CASE FindRemotePid(i) \/ FindForwarded(i)
  <2>1. inst \in [Instances -> InstanceState]
    BY DEF TypeInv
  <2>2. CASE FindRemotePid(i)
    <3>1. PICK pc \in {"kill", "unforward"}, seen \in {remote, 0} :
             inst' = [inst EXCEPT ![i].pc = pc, ![i].seen = seen]
      BY <2>2 DEF FindRemotePid
    <3>2. [inst[i] EXCEPT !.pc = pc, !.seen = seen].pc = pc
      BY <1>0 DEF InstanceState
    <3>. QED
      BY <2>1, <3>1, <3>2
  <2>3. CASE FindForwarded(i)
    BY <1>0, <2>1, <2>3 DEF FindForwarded, Goto, InstanceState
  <2>. QED
    BY <1>2, <2>2, <2>3
<1>3. CASE KillRemote(i)
  <2>1. CASE Taken(i, "unforward", {"user", "mount", "spawn"})
    BY <1>1, <2>1
  <2>2. CASE inst' = [inst EXCEPT ![i].pc = "unforward", ![i].seen = 0]
    BY <1>0, <2>2 DEF TypeInv, InstanceState
  <2>. QED
    BY <1>3, <2>1, <2>2 DEF KillRemote
<1>4. CASE RemoveForward(i)
  <2>1. CASE \E pcs : Taken(i, "cleanup", pcs)
    BY <1>1, <2>1
  <2>2. CASE Goto(i, "cleanup")
    BY <1>0, <2>2 DEF Goto, TypeInv, InstanceState
  <2>. QED
    BY <1>4, <2>1, <2>2 DEF RemoveForward
<1>. QED
  BY <1>2, <1>3, <1>4

LEMMA SetUpClean ==
    ASSUME TypeInv, CleanInv, NEW i \in Instances,
           SetUp(i) \/ Unmount(i) \/ Down(i) \/ Wait(i)
    PROVE  CleanInv'
BY SetUpMoves, BusyClean DEF Live, Past, At, SetUpPcs, TearDownPcs

\* The commands of the tear-down.
LEMMA TearDownClean ==
    ASSUME TypeInv, CleanInv, NEW i \in Instances,
           FindRemotePid(i) \/ KillRemote(i) \/ FindForwarded(i) \/ RemoveForward(i)
    PROVE  CleanInv'
<1>a. inst[i] \in InstanceState
  BY DEF TypeInv
<1>b. \A j \in Instances \ {i} : inst'[j].pc = inst[j].pc /\ inst'[j].seen = inst[j].seen
  BY OthersStay DEF TearDown
<1>c. i \in TearingDown
  BY DEF FindRemotePid, KillRemote, FindForwarded, RemoveForward, At, TearingDown,
         TearDownPcs
<1>0. CASE Noted(FALSE)
  BY <1>0, <1>b, <1>c, SpoiledClean DEF Noted
<1>1. CASE FindRemotePid(i) /\ ~Noted(FALSE)
  <2>1. /\ inst' = [inst EXCEPT ![i].pc = IF remote # 0 THEN "kill" ELSE "unforward",
                                ![i].seen = remote]
        /\ spoiled' = spoiled /\ remote' = remote /\ forwarded' = forwarded
    BY <1>1 DEF FindRemotePid, Noted, device
  <2>2. /\ inst'[i].pc = (IF remote # 0 THEN "kill" ELSE "unforward")
        /\ inst'[i].seen = remote
    BY <1>a, <2>1 DEF TypeInv, InstanceState
  <2>3. CASE remote # 0
    <3>1. Live(i)' /\ ~Past(i)' /\ ~At(i, "cleanup")'
      BY <2>1, <2>2, <2>3 DEF Live, Past, At, TearDownPcs
    <3>. QED
      BY <3>1, BusyClean
  <2>4. CASE remote = 0
    <3>1. Live(i)' /\ ~At(i, "cleanup")'
      BY <2>2, <2>4 DEF Live, At, TearDownPcs
    <3>. QED
      BY <1>b, <2>1, <2>4, <3>1, MovesClean
  <2>. QED
    BY <2>3, <2>4
<1>2. CASE KillRemote(i) /\ ~Noted(FALSE)
  <2>1. /\ inst'[i].pc = "unforward" /\ spoiled' = spoiled
        /\ remote' = 0 \/ (remote' = remote /\ remote # inst[i].seen)
    <3>1. CASE Taken(i, "unforward", {"user", "mount", "spawn"}) /\ remote' = 0
               /\ UNCHANGED spoiled
      BY <1>a, <3>1 DEF Taken, InstanceState
    <3>2. CASE /\ inst' = [inst EXCEPT ![i].pc = "unforward", ![i].seen = 0]
               /\ remote # inst[i].seen /\ Noted(TRUE) /\ UNCHANGED remote
      BY <1>a, <3>2 DEF Noted, TypeInv, InstanceState
    <3>. QED
      BY <1>2, <3>1, <3>2 DEF KillRemote
  <2>2. At(i, "kill")
    BY <1>2 DEF KillRemote
  <2>. QED
    BY <1>b, <2>1, <2>2, MovesClean DEF Live, Past, At, TearDownPcs
<1>3. CASE FindForwarded(i) /\ ~Noted(FALSE)
  <2>1. /\ inst' = [inst EXCEPT ![i].pc = IF forwarded THEN "remove" ELSE "cleanup"]
        /\ spoiled' = spoiled /\ remote' = remote /\ forwarded' = forwarded
        /\ At(i, "unforward")
    BY <1>3 DEF FindForwarded, Goto, Noted, device
  <2>2. inst'[i].pc = IF forwarded THEN "remove" ELSE "cleanup"
    BY <1>a, <2>1 DEF TypeInv, InstanceState
  <2>3. forwarded \in BOOLEAN
    BY DEF TypeInv
  <2>4. Past(i) /\ (forwarded => Live(i)' /\ ~At(i, "cleanup")')
    BY <2>1, <2>2 DEF Live, Past, At, TearDownPcs
  <2>. QED
    BY <1>b, <2>1, <2>3, <2>4, MovesClean
<1>4. CASE RemoveForward(i) /\ ~Noted(FALSE)
  <2>1. /\ forwarded' = FALSE /\ UNCHANGED <<spoiled, remote>> /\ At(i, "remove")
        /\ \E pcs : Taken(i, "cleanup", pcs)
    BY <1>4 DEF RemoveForward
  <2>2. inst'[i].pc = "cleanup"
    BY <1>a, <2>1 DEF Taken, InstanceState
  <2>. QED
    BY <1>b, <2>1, <2>2, MovesClean DEF Past, At
<1>. QED
  BY <1>0, <1>1, <1>2, <1>3, <1>4

LEMMA StepClean ==
    ASSUME TypeInv, CleanInv, NEW i \in Instances,
           Start(i) \/ SetUp(i) \/ Unmount(i) \/ TearDown(i) \/ Crash(i)
    PROVE  CleanInv'
<1>a. inst[i] \in InstanceState
  BY DEF TypeInv
<1>b. \A j \in Instances \ {i} : inst'[j].pc = inst[j].pc /\ inst'[j].seen = inst[j].seen
  BY OthersStay
<1>1. CASE Start(i)
  <2>1. /\ inst'[i].pc \in {"device", "down", "ended"} /\ At(i, "start")
        /\ UNCHANGED <<spoiled, remote, forwarded>>
    BY <1>1, <1>a DEF Start, Goto, TypeInv, InstanceState, device, history
  <2>. QED
    BY <1>b, <2>1, MovesClean DEF Live, Past, At, SetUpPcs, TearDownPcs
<1>2. CASE CleanUp(i)
  <2>1. /\ inst'[i].pc \in {"down", "ended"} /\ At(i, "cleanup")
        /\ UNCHANGED <<spoiled, remote, forwarded>>
    BY <1>2, <1>a DEF CleanUp, NewInstance, TypeInv, device
  <2>. QED
    BY <1>b, <2>1, MovesClean DEF Past, At
<1>3. CASE Crash(i)
  <2>1. inst'[i].pc = "crashed" /\ TearingDown \ {i} \subseteq spoiled'
    BY <1>3 DEF Crash, NewInstance, TypeInv
  <2>. QED
    BY <1>b, <2>1, SpoiledClean
<1>. QED
  BY <1>1, <1>2, <1>3, SetUpClean, TearDownClean DEF TearDown

LEMMA NextClean == TypeInv /\ CleanInv /\ [Next]_vars => CleanInv'
<1>. SUFFICES ASSUME TypeInv, CleanInv, [Next]_vars PROVE CleanInv'
  OBVIOUS
<1>1. CASE \E i \in Instances :
              Start(i) \/ SetUp(i) \/ Unmount(i) \/ TearDown(i) \/ Crash(i)
  BY <1>1, StepClean
<1>2. CASE Remount
  BY <1>2 DEF Remount, CleanInv, LeftOver, Killer, Remover, Past, Live, At, history
<1>3. CASE UNCHANGED vars
  BY <1>3 DEF vars, CleanInv, LeftOver, Killer, Remover, Past, Live, At
<1>. QED
  BY <1>1, <1>2, <1>3 DEF Next

\* However many instances set up, tear down and are killed on one device, the last one to
\* end leaves no netcat, no forwarded port and no temporary directory of its own, unless a
\* command of its tear-down failed or an instance was killed during one.
THEOREM LastCleansUp == Spec => CleanedUp
<1> DEFINE Clean == \A i \in Instances :
                       /\ ~At(i, "ended") /\ inst'[i].pc = "ended" /\ ~At(i, "start")
                       /\ \A j \in Instances \ {i} : ~Live(j)
                       /\ i \notin spoiled
                       => ~forwarded' /\ remote' = 0 /\ ~inst'[i].temp
<1>1. Init => TypeInv /\ CleanInv
  BY InitTyped DEF Init, CleanInv, LeftOver, Past, At, NewInstance
<1>2. TypeInv /\ CleanInv /\ [Next]_vars => [Clean]_vars
  <2>1. SUFFICES ASSUME TypeInv, CleanInv, Next, NEW i \in Instances,
                        ~At(i, "ended"), inst'[i].pc = "ended", ~At(i, "start"),
                        \A j \in Instances \ {i} : ~Live(j), i \notin spoiled
                 PROVE  ~forwarded' /\ remote' = 0 /\ ~inst'[i].temp
    OBVIOUS
  <2>0. inst \in [Instances -> InstanceState]
    BY <2>1 DEF TypeInv
  <2>2. CleanUp(i)
    <3>1. PICK k \in Instances : Start(k) \/ SetUp(k) \/ Unmount(k) \/ TearDown(k) \/ Crash(k)
      BY <2>1 DEF Next, Remount, At
    <3>2. k = i
      BY <2>1, <3>1, OthersStay DEF At
    <3>3. ~(SetUp(i) \/ Unmount(i) \/ Down(i) \/ Wait(i))
      BY <2>1, SetUpMoves DEF SetUpPcs
    <3>4. ~(FindRemotePid(i) \/ KillRemote(i) \/ FindForwarded(i) \/ RemoveForward(i))
      BY <2>1, TearDownMoves
    <3>5. ~Start(i)
      BY <2>1 DEF Start
    <3>6. ~Crash(i)
      <4>1. ASSUME Crash(i) PROVE inst'[i].pc = "crashed"
        BY <2>0, <4>1 DEF Crash, NewInstance
      <4>. QED
        BY <2>1, <4>1
    <3>. QED
      BY <3>1, <3>2, <3>3, <3>4, <3>5, <3>6 DEF TearDown
  <2>3. /\ inst' = [inst EXCEPT ![i] =
              [NewInstance EXCEPT !.pc = IF inst[i].again THEN "down" ELSE "ended"]]
        /\ forwarded' = forwarded /\ remote' = remote /\ At(i, "cleanup")
    BY <2>2 DEF CleanUp, device
  <2>4. ~inst'[i].temp
    <3> DEFINE r == [NewInstance EXCEPT !.pc = IF inst[i].again THEN "down" ELSE "ended"]
    <3>1. r.temp = FALSE
      BY DEF NewInstance
    <3>2. inst' = [inst EXCEPT ![i] = r]
      BY <2>3
    <3> HIDE DEF r
    <3>3. inst'[i] = r
      BY <2>0, <3>2
    <3>. QED
      BY <3>1, <3>3
  <2>5. ~Killer /\ ~Remover
    BY <2>1, <2>3 DEF Killer, Remover, Past, At
  <2>6. remote = 0 /\ ~forwarded
    BY <2>1, <2>3, <2>5 DEF CleanInv, LeftOver, Past, At
  <2>. QED
    BY <2>3, <2>4, <2>6
<1>. QED
  BY <1>1, <1>2, NextTyped, NextClean, PTL DEF Spec, CleanedUp
=============================================================================

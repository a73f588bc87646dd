----------------------------- MODULE Lifecycle -----------------------------
(***************************************************************************)
(* Start and end of adbncfs: main, initAdbncFs and adbnc_destroy, for      *)
(* several instances of the program that share one device.  They share the *)
(* netcat that listens on the device and the port that adb forwards to it: *)
(* each instance looks whether they are there, starts what is missing,     *)
(* looks again, and at its end takes both away.                            *)
(*                                                                         *)
(* Every adb command is a step of its own, between which the other         *)
(* instances run.  An instance may be killed at any time.  What the device *)
(* prints about the user and the mounts is given to AccessCheck.           *)
(***************************************************************************)
EXTENDS AccessCheck

CONSTANTS
    Instances,   \* processes of the program, each of which runs once
    Users,       \* the users the adb shell may run as
    MountLists,  \* what mount may print
    Places,      \* the paths and
    Files,       \* the files access is asked for, and
    Aboves,      \* the directories above them
    CanFail,     \* adb commands may fail
    CanCrash     \* an instance may be killed

ASSUME LifecycleAssumption ==
    /\ Users \subseteq UserIds
    /\ MountLists \subseteq Seq(MountLine)
    /\ Places \subseteq Paths
    /\ Files \subseteq File /\ Aboves \subseteq SUBSET Directory
    /\ CanFail \in BOOLEAN /\ CanCrash \in BOOLEAN
    /\ None \notin Users \cup Files

VARIABLES
    user,       \* the user the adb shell runs as
    mounts,     \* the mounts of the device
    forwarded,  \* adb forwards the port
    remote,     \* pid of the netcat that listens on the device, 0 if none
    lastPid,    \* the last pid given to one
    inst,       \* per instance: how far it is and what it has
    asOf,       \* history: the mounts an instance's mountInfo is made of
    disturbed,  \* history: instances whose connection another one took away
    spoiled     \* history: instances in whose tear-down something failed

vars == <<user, mounts, forwarded, remote, lastPid, inst, asOf, disturbed, spoiled>>

device == <<user, mounts, forwarded, remote, lastPid>>

history == <<asOf, disturbed, spoiled>>

-----------------------------------------------------------------------------
\* nc is the instance's own netcat process: none, connected to the device, or cut
\* off and about to end; stays: it does not end with its input, and it is a child
\* that is waited for.  seen is the pid that ps reported.
NewInstance ==
    [pc |-> "start", nc |-> "none", stays |-> FALSE, seen |-> 0, temp |-> FALSE,
     userInfo |-> None, mountInfo |-> None, failed |-> FALSE, again |-> FALSE]

SetUpPcs == {"device", "forward", "forwarding", "forwardcheck", "remote",
             "starting", "remotecheck", "user", "mount", "spawn", "mounting"}

TearDownPcs == {"down", "waiting", "ps", "kill", "unforward", "remove", "cleanup"}

Live(i) == inst[i].pc \in SetUpPcs \cup TearDownPcs \cup {"mounted"}

At(i, pc) == inst[i].pc = pc

Goto(i, pc) == inst' = [inst EXCEPT ![i].pc = pc]

\* An adb command works, or it fails and prints nothing.
Outcomes == IF CanFail THEN BOOLEAN ELSE {TRUE}

TearingDown == {i \in Instances : inst[i].pc \in TearDownPcs}

\* History: a command of a tear-down worked or not.
Noted(works) == spoiled' = IF works THEN spoiled ELSE spoiled \cup TearingDown

Init ==
    /\ user \in Users
    /\ mounts \in MountLists
    /\ forwarded = FALSE /\ remote = 0 /\ lastPid = 0
    /\ inst = [i \in Instances |-> NewInstance]
    /\ asOf = [i \in Instances |-> None]
    /\ disturbed = {} /\ spoiled = {}

-----------------------------------------------------------------------------
(* initAdbncFs.  Each step that fails ends it, and main calls destroy.     *)

\* With -h, --help, -V or --version nothing is set up; fuse_main prints and returns
\* 0 or not.  makeTempDir may fail.
Start(i) ==
    /\ At(i, "start")
    /\ \/ inst' = [inst EXCEPT ![i].pc = "device", ![i].temp = TRUE]
       \/ \E pc \in {"down", "ended"} : Goto(i, pc)
    /\ UNCHANGED <<device, history>>

\* isAndroidDeviceConnected
FindDevice(i) ==
    /\ At(i, "device")
    /\ \E works \in Outcomes : Goto(i, IF works THEN "forward" ELSE "down")
    /\ UNCHANGED <<device, history>>

\* setAndroidPortForwarding: isAndroidPortForwarded, then forward what is missing,
\* then isAndroidPortForwarded again.
FindForward(i) ==
    /\ At(i, "forward")
    /\ \E works \in Outcomes :
          Goto(i, IF works /\ forwarded THEN "forwardcheck" ELSE "forwarding")
    /\ UNCHANGED <<device, history>>

Forward(i) ==
    /\ At(i, "forwarding")
    /\ \E works \in Outcomes : forwarded' = (forwarded \/ works)
    /\ Goto(i, "forwardcheck")
    /\ UNCHANGED <<user, mounts, remote, lastPid, history>>

\* Mutant: the port is taken to be forwarded.
CheckForwardNot(i) ==
    /\ At(i, "forwardcheck")
    /\ Goto(i, "remote")
    /\ UNCHANGED <<device, history>>

CheckForward(i) ==
    /\ At(i, "forwardcheck")
    /\ \E works \in Outcomes : Goto(i, IF works /\ forwarded THEN "remote" ELSE "down")
    /\ UNCHANGED <<device, history>>

\* androidStartNetcat: androidNetcatStarted, then start it, then look again.
FindRemote(i) ==
    /\ At(i, "remote")
    /\ \E works \in Outcomes :
          Goto(i, IF works /\ remote # 0 THEN "remotecheck" ELSE "starting")
    /\ UNCHANGED <<device, history>>

\* A second netcat cannot listen on the port and ends.
StartRemote(i) ==
    /\ At(i, "starting")
    /\ \/ /\ remote = 0
          /\ remote' = lastPid + 1 /\ lastPid' = lastPid + 1
       \/ /\ remote # 0 \/ CanFail
          /\ UNCHANGED <<remote, lastPid>>
    /\ Goto(i, "remotecheck")
    /\ UNCHANGED <<user, mounts, forwarded, history>>

CheckRemote(i) ==
    /\ At(i, "remotecheck")
    /\ \E works \in Outcomes : Goto(i, IF works /\ remote # 0 THEN "user" ELSE "down")
    /\ UNCHANGED <<device, history>>

\* queryUserInfo: one line that is not what id prints is no error.
QueryUser(i) ==
    /\ At(i, "user")
    /\ \/ inst' = [inst EXCEPT ![i].pc = "mount", ![i].userInfo = user]
       \/ CanFail /\ \E pc \in {"mount", "down"} : Goto(i, pc)
    /\ UNCHANGED <<device, history>>

SdCardLine == [at |-> SdCard, options |-> {}]

\* queryMountInfo: after a failure netcat is started nevertheless.
QueryMount(i) ==
    /\ At(i, "mount")
    /\ \/ /\ inst' = [inst EXCEPT ![i].pc = "spawn",
                          ![i].mountInfo = MountTable(Append(mounts, SdCardLine))]
          /\ asOf' = [asOf EXCEPT ![i] = mounts]
       \/ /\ CanFail
          /\ inst' = [inst EXCEPT ![i].pc = "spawn", ![i].failed = TRUE]
          /\ UNCHANGED asOf
    /\ UNCHANGED <<device, disturbed, spoiled>>

\* initNetCat.  Some netcats do not end when their input does, only when their
\* connection does.
SpawnNetCat(i) ==
    /\ At(i, "spawn")
    /\ \E stays \in BOOLEAN :
          inst' = [inst EXCEPT
             ![i].pc = IF inst[i].failed THEN "down" ELSE "mounting",
             ![i].nc = IF forwarded /\ remote # 0 THEN "connected" ELSE "cut",
             ![i].stays = stays]
    /\ UNCHANGED <<device, history>>

\* fuse_main mounts the file system, in the foreground or as a daemon, of which
\* netcat is not a child, or it fails.
Mount(i) ==
    /\ At(i, "mounting")
    /\ \/ \E daemon \in BOOLEAN :
             inst' = [inst EXCEPT ![i].pc = "mounted", ![i].stays = @ /\ ~daemon]
       \/ Goto(i, "down")
    /\ UNCHANGED <<device, history>>

\* Unmounted, or SIGSEGV: adbnc_destroy is called.  When fuse_main returns an error
\* after that, main calls it again.
Unmount(i) ==
    /\ At(i, "mounted")
    /\ \E again \in BOOLEAN :
          inst' = [inst EXCEPT ![i].pc = "down", ![i].again = again]
    /\ UNCHANGED <<device, history>>

-----------------------------------------------------------------------------
(* adbnc_destroy                                                           *)

\* destroyNetCat sends the end of input and waits.
Down(i) ==
    /\ At(i, "down")
    /\ Goto(i, IF inst[i].nc = "none" THEN "ps" ELSE "waiting")
    /\ UNCHANGED <<device, history>>

\* Mutant: wait waits for a daemon's netcat too, until it is cut off.
WaitCut(i) ==
    /\ At(i, "waiting")
    /\ inst[i].nc = "cut"
    /\ inst' = [inst EXCEPT ![i].pc = "ps", ![i].nc = "none", ![i].stays = FALSE]
    /\ UNCHANGED <<device, history>>

\* wait returns when the process has ended, and at once when it is not a child.
Wait(i) ==
    /\ At(i, "waiting")
    /\ ~inst[i].stays \/ inst[i].nc = "cut"
    /\ inst' = [inst EXCEPT ![i].pc = "ps", ![i].nc = "none", ![i].stays = FALSE]
    /\ UNCHANGED <<device, history>>

\* Mutant: without a netcat the pid is not set.
FindRemotePidUnset(i) ==
    /\ At(i, "ps")
    /\ \E works \in Outcomes :
          /\ inst' = [inst EXCEPT ![i].pc = IF works /\ remote # 0 THEN "kill" ELSE "unforward",
                                  ![i].seen = IF works /\ remote # 0 THEN remote ELSE None]
          /\ Noted(works)
    /\ UNCHANGED <<device, asOf, disturbed>>

\* Mutant: the port stays forwarded when there was no netcat to kill.
FindRemotePidOnly(i) ==
    /\ At(i, "ps")
    /\ \E works \in Outcomes :
          /\ inst' = [inst EXCEPT ![i].pc = IF works /\ remote # 0 THEN "kill" ELSE "cleanup",
                                  ![i].seen = IF works THEN remote ELSE 0]
          /\ Noted(works)
    /\ UNCHANGED <<device, asOf, disturbed>>

\* androidKillNetCat: androidNetcatStarted, then kill what it found.
FindRemotePid(i) ==
    /\ At(i, "ps")
    /\ \E works \in Outcomes :
          /\ inst' = [inst EXCEPT ![i].pc = IF works /\ remote # 0 THEN "kill" ELSE "unforward",
                                  ![i].seen = IF works THEN remote ELSE 0]
          /\ Noted(works)
    /\ UNCHANGED <<device, asOf, disturbed>>

\* Whom it harms that the port or the netcat of the device goes: an instance that
\* has checked that it is there and is not connected yet, and connected ones, whose
\* connections may be cut.
Harmed(i, pcs, cut) ==
    {j \in Instances \ {i} : inst[j].nc = "none" /\ inst[j].pc \in pcs} \cup cut

Taken(i, pc, pcs) ==
    \E cut \in SUBSET {j \in Instances \ {i} : inst[j].nc = "connected"} :
        /\ inst' = [j \in Instances |->
              IF j = i THEN [inst[j] EXCEPT !.pc = pc, !.seen = 0]
              ELSE IF j \in cut THEN [inst[j] EXCEPT !.nc = "cut"] ELSE inst[j]]
        /\ disturbed' = disturbed \cup Harmed(i, pcs, cut)

KillRemote(i) ==
    /\ At(i, "kill")
    /\ \/ /\ remote = inst[i].seen
          /\ remote' = 0
          /\ Taken(i, "unforward", {"user", "mount", "spawn"})
          /\ UNCHANGED spoiled
       \/ /\ remote # inst[i].seen \/ CanFail
          /\ inst' = [inst EXCEPT ![i].pc = "unforward", ![i].seen = 0]
          /\ Noted(remote # inst[i].seen)
          /\ UNCHANGED <<remote, disturbed>>
    /\ UNCHANGED <<user, mounts, forwarded, lastPid, asOf>>

\* removeAndroidPortForwarding: isAndroidPortForwarded, then remove.
FindForwarded(i) ==
    /\ At(i, "unforward")
    /\ \E works \in Outcomes :
          /\ Goto(i, IF works /\ forwarded THEN "remove" ELSE "cleanup")
          /\ Noted(works)
    /\ UNCHANGED <<device, asOf, disturbed>>

RemoveForward(i) ==
    /\ At(i, "remove")
    /\ \/ /\ forwarded' = FALSE
          /\ Taken(i, "cleanup", {"remote", "starting", "remotecheck",
                                  "user", "mount", "spawn"})
          /\ UNCHANGED spoiled
       \/ /\ CanFail
          /\ Goto(i, "cleanup")
          /\ Noted(FALSE)
          /\ UNCHANGED <<forwarded, disturbed>>
    /\ UNCHANGED <<user, mounts, remote, lastPid, asOf>>

\* cleanupTempDir, and the information about user and mounts is deleted.
CleanUp(i) ==
    /\ At(i, "cleanup")
    /\ inst' = [inst EXCEPT ![i] =
          [NewInstance EXCEPT !.pc = IF inst[i].again THEN "down" ELSE "ended"]]
    /\ asOf' = [asOf EXCEPT ![i] = None]
    /\ disturbed' = disturbed \ {i}
    /\ UNCHANGED <<device, spoiled>>

-----------------------------------------------------------------------------
\* An instance is killed, and its netcat ends with it.
Crash(i) ==
    /\ CanCrash /\ Live(i)
    /\ inst' = [inst EXCEPT ![i] =
          [NewInstance EXCEPT !.pc = "crashed", !.temp = inst[i].temp]]
    /\ asOf' = [asOf EXCEPT ![i] = None]
    /\ disturbed' = disturbed \ {i}
    /\ spoiled' = (spoiled \cup TearingDown) \ {i}
    /\ UNCHANGED device

\* The mounts of the device change.
Remount ==
    /\ mounts' \in MountLists \ {mounts}
    /\ UNCHANGED <<user, forwarded, remote, lastPid, inst, history>>

SetUp(i) ==
    \/ FindDevice(i) \/ FindForward(i) \/ Forward(i) \/ CheckForward(i)
    \/ FindRemote(i) \/ StartRemote(i) \/ CheckRemote(i)
    \/ QueryUser(i) \/ QueryMount(i) \/ SpawnNetCat(i) \/ Mount(i)

TearDown(i) ==
    \/ Down(i) \/ Wait(i) \/ FindRemotePid(i) \/ KillRemote(i)
    \/ FindForwarded(i) \/ RemoveForward(i) \/ CleanUp(i)

Next ==
    \/ \E i \in Instances :
          Start(i) \/ SetUp(i) \/ Unmount(i) \/ TearDown(i) \/ Crash(i)
    \/ Remount

Spec == Init /\ [][Next]_vars

\* adb commands end and the scheduler runs every instance; nobody has to start or
\* to unmount one.
FairSpec == Spec /\ \A i \in Instances : WF_vars(SetUp(i)) /\ WF_vars(TearDown(i))

-----------------------------------------------------------------------------
TypeOK ==
    /\ user \in Users /\ mounts \in MountLists
    /\ forwarded \in BOOLEAN /\ remote \in Nat /\ lastPid \in Nat
    /\ \A i \in Instances :
          /\ inst[i].pc \in SetUpPcs \cup TearDownPcs
                            \cup {"start", "mounted", "ended", "crashed"}
          /\ inst[i].nc \in {"none", "connected", "cut"}
          /\ inst[i].seen \in Nat
          /\ inst[i].userInfo \in Users \cup {None}
    /\ disturbed \subseteq Instances /\ spoiled \subseteq Instances

\* A mounted instance has its connection to the device, whatever other instances
\* had set up, left behind or taken away before it checked, and although two
\* instances may look for the same netcat and start it at the same time, unless
\* another one took away the netcat or the port afterwards.
MountedConnected ==
    \A i \in Instances :
        At(i, "mounted") /\ i \notin disturbed => inst[i].nc = "connected"

\* The last instance leaves nothing behind: when it ends and no other is there, the
\* netcat of the device, the forwarded port and its temporary directory are gone,
\* also those that a killed instance left, unless a command failed or an instance
\* was killed during its own tear-down.
CleanedUp ==
    [][\A i \in Instances :
          /\ ~At(i, "ended") /\ inst'[i].pc = "ended" /\ ~At(i, "start")
          /\ \A j \in Instances \ {i} : ~Live(j)
          /\ i \notin spoiled
          => ~forwarded' /\ remote' = 0 /\ ~inst'[i].temp]_vars

\* A tear-down ends, unless it waits for a child, in the foreground, that does not
\* end with its input: the netcat of the device, whose end would end that one, is
\* only killed afterwards.
TearDownEnds ==
    \A i \in Instances :
        inst[i].pc \in TearDownPcs /\ ~inst[i].stays
        ~> inst[i].pc \in {"ended", "crashed"}

\* While an instance is mounted, adbnc_access grants nothing the device refuses, for
\* every path outside the memory card, whose mount is made up, below directories the
\* user may search, as long as the mounts of the device are those of the set-up, none
\* of them hides another and both queries worked.  It answers what the device answers
\* unless the user is root or the mount's options do not apply to a file of this type.
AccessAgrees ==
    \A i \in Instances :
        /\ inst[i].pc = "mounted"
        /\ inst[i].userInfo # None /\ inst[i].mountInfo # None
        /\ asOf[i] = mounts /\ NothingHidden(mounts)
        => \A p \in {q \in Places : ~AtOrAbove(SdCard, q)},
              above \in {a \in Aboves : Searchable(user, a)},
              f \in Files \cup {None}, mask \in SUBSET Rights :
              LET answer == Access(inst[i].userInfo, inst[i].mountInfo, f, p, mask)
                  should == DeviceAccess(user, mounts, f, above, p, mask)
              IN  /\ answer = "granted" => should = "granted"
                  /\ f = None \/ (user.uid # 0 /\ OptionsApply(mounts, f, p, mask))
                     => answer = should
=============================================================================

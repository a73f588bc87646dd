------------------------------- MODULE Spawn -------------------------------
(***************************************************************************)
(* execProg and the classes Spawn and Cpipe it uses: the descriptors of    *)
(* the program, which all threads share, the pipes behind them and the     *)
(* child processes that inherit them.                                      *)
(*                                                                         *)
(* A descriptor is a number, and the system gives out the lowest one that  *)
(* is free.  Spawn closes two of its four descriptors after fork and one   *)
(* in sendEof; ~Cpipe then closes all four numbers, whatever they are by   *)
(* then.  Other callbacks open and close local files meanwhile.  What a    *)
(* call then finds under its numbers decides whether its buffers open,     *)
(* and whether the loop that reads them ever sees the end.                 *)
(***************************************************************************)
EXTENDS Naturals

CONSTANTS
    Callers,   \* threads of libfuse that run programs
    Openers,   \* those of them that also open local files
    NumFds,    \* how many descriptors the program may have
    MaxCalls,  \* bound on the number of calls of execProg
    CanFail,   \* fork may fail
    None

Fds == 0..(NumFds - 1)

Calls == 1..MaxCalls

\* The two pipes of a call, to the child's input and from its output, the two ends
\* of each, and the local file a caller has opened.
InR(c)  == <<"in", "r", c>>
InW(c)  == <<"in", "w", c>>
OutR(c) == <<"out", "r", c>>
OutW(c) == <<"out", "w", c>>
FileOf(t) == <<"file", "rw", t>>

ASSUME SpawnAssumption ==
    /\ Openers \subseteq Callers
    /\ NumFds \in Nat /\ MaxCalls \in Nat
    /\ CanFail \in BOOLEAN
    /\ None \notin Nat \cup {FileOf(t) : t \in Callers}
    /\ \A c \in Calls : None \notin {InR(c), InW(c), OutR(c), OutW(c)}

VARIABLES
    fd,      \* the table of descriptors: what each number is open on
    child,   \* per call: its process
    piped,   \* per call: whose output is in its output pipe
    caller,  \* per thread: the call it makes and how far it is
    file,    \* per thread: the number open gave it for a local file
    calls,   \* the number of calls made
    intact   \* history: files opened while nothing could close them

vars == <<fd, child, piped, caller, file, calls, intact>>

-----------------------------------------------------------------------------
Idle == [pc |-> "idle", call |-> 0, inR |-> None, inW |-> None,
         outR |-> None, outW |-> None, inBuf |-> FALSE, outBuf |-> FALSE,
         obj |-> None, got |-> {}, sound |-> FALSE]

NoChild == [alive |-> FALSE, stdout |-> None, keeps |-> {}]

InCall(t) == caller[t].pc \notin {"idle", "done", "failed"}

\* What is left of a call when it is over.
Over(t, pc) == [Idle EXCEPT !.pc = pc, !.call = caller[t].call,
                            !.got = caller[t].got, !.sound = caller[t].sound]

Free == {n \in Fds : fd[n] = None}

Lowest(S) == CHOOSE n \in S : \A m \in S : n <= m

Closed(numbers) == [n \in Fds |-> IF n \in numbers THEN None ELSE fd[n]]

\* History: no thread of T is in a call, and every open file is behind its number.
Sound(T) ==
    /\ \A t \in T : ~InCall(t)
    /\ \A t \in Callers : file[t] # None => fd[file[t]] = FileOf(t)

WriteEnds == {InW(c) : c \in Calls} \cup {OutW(c) : c \in Calls}

\* Somebody can still write to the pipe whose write end is w.
Written(w) ==
    \/ \E n \in Fds : fd[n] = w
    \/ \E c \in Calls : child[c].alive /\ (child[c].stdout = w \/ w \in child[c].keeps)

Init ==
    /\ fd = [n \in Fds |-> None]
    /\ child = [c \in Calls |-> NoChild]
    /\ piped = [c \in Calls |-> {}]
    /\ caller = [t \in Callers |-> Idle]
    /\ file = [t \in Callers |-> None]
    /\ calls = 0
    /\ intact = {}

-----------------------------------------------------------------------------
(* Spawn::Spawn                                                            *)

\* pipe gives out the two lowest numbers, or fails when there are not two.
Piped(r, w, objR, objW) == [fd EXCEPT ![r] = objR, ![w] = objW]

CanPipe == \E m, n \in Free : m # n

\* m_WritePipe
MakeWritePipe(t) ==
    /\ ~InCall(t) /\ calls < MaxCalls
    /\ calls' = calls + 1
    /\ IF CanPipe
       THEN LET r == Lowest(Free)
                w == Lowest(Free \ {r})
            IN  /\ fd' = Piped(r, w, InR(calls'), InW(calls'))
                /\ caller' = [caller EXCEPT ![t] =
                      [Idle EXCEPT !.pc = "pipe", !.call = calls', !.sound = Sound(Callers),
                                   !.inR = r, !.inW = w]]
       ELSE /\ caller' = [caller EXCEPT ![t] =
                  [Idle EXCEPT !.pc = "failed", !.call = calls']]
            /\ UNCHANGED fd
    /\ UNCHANGED <<child, piped, file, intact>>

\* m_ReadPipe
MadeReadPipe(t) ==
    LET r == Lowest(Free)
        w == Lowest(Free \ {r})
    IN  /\ fd' = Piped(r, w, OutR(caller[t].call), OutW(caller[t].call))
        /\ caller' = [caller EXCEPT ![t].pc = "fork", ![t].outR = r, ![t].outW = w,
                                    ![t].sound = @ /\ Sound(Callers \ {t})]

\* Mutant: the result of the second pipe is ignored, and its numbers are garbage.
MakeReadPipeUnchecked(t) ==
    /\ caller[t].pc = "pipe"
    /\ IF CanPipe
       THEN MadeReadPipe(t)
       ELSE /\ caller' = [caller EXCEPT ![t].pc = "fork", ![t].outR = NumFds,
                                        ![t].outW = NumFds]
            /\ UNCHANGED fd
    /\ UNCHANGED <<child, piped, file, calls, intact>>

\* Mutant: the pipe that could not be made is closed under its unset numbers, 0.
MakeReadPipeClosesUnset(t) ==
    /\ caller[t].pc = "pipe"
    /\ IF CanPipe
       THEN MadeReadPipe(t)
       ELSE /\ fd' = Closed({caller[t].inR, caller[t].inW, 0})
            /\ caller' = [caller EXCEPT ![t] = Over(t, "failed")]
    /\ UNCHANGED <<child, piped, file, calls, intact>>

\* Mutant: m_WritePipe stays when m_ReadPipe cannot be made.
MakeReadPipeLeaks(t) ==
    /\ caller[t].pc = "pipe"
    /\ IF CanPipe
       THEN MadeReadPipe(t)
       ELSE /\ caller' = [caller EXCEPT ![t] = Over(t, "failed")]
            /\ UNCHANGED fd
    /\ UNCHANGED <<child, piped, file, calls, intact>>

\* When m_ReadPipe cannot be made m_WritePipe is destroyed again.
MakeReadPipe(t) ==
    /\ caller[t].pc = "pipe"
    /\ IF CanPipe
       THEN MadeReadPipe(t)
       ELSE /\ fd' = Closed({caller[t].inR, caller[t].inW})
            /\ caller' = [caller EXCEPT ![t] = Over(t, "failed")]
    /\ UNCHANGED <<child, piped, file, calls, intact>>

Numbers(t) == {caller[t].inR, caller[t].inW, caller[t].outR, caller[t].outW}

\* The child takes what it finds under the numbers of its pipes as its input and
\* output, closes these numbers, and keeps every other descriptor of the program,
\* of which the ends other pipes are written to matter.
Fork(t) ==
    /\ caller[t].pc = "fork"
    /\ \/ /\ child' = [child EXCEPT ![caller[t].call] =
                [alive |-> TRUE, stdout |-> fd[caller[t].outW],
                 keeps |-> {fd[n] : n \in Fds \ Numbers(t)} \cap WriteEnds]]
          /\ caller' = [caller EXCEPT ![t].pc = "forked"]
          /\ UNCHANGED fd
       \/ /\ CanFail
          /\ fd' = Closed(Numbers(t))
          /\ caller' = [caller EXCEPT ![t] = Over(t, "failed")]
          /\ UNCHANGED child
    /\ UNCHANGED <<piped, file, calls, intact>>

\* Mutant: the parent keeps the write end of the output pipe.
CloseInROnly(t) ==
    /\ caller[t].pc = "forked"
    /\ fd' = Closed({caller[t].inR})
    /\ caller' = [caller EXCEPT ![t].pc = "bufs"]
    /\ UNCHANGED <<child, piped, file, calls, intact>>

\* Mutant: the parent closes its own ends.
CloseOwnEnds(t) ==
    /\ caller[t].pc = "forked"
    /\ fd' = Closed({caller[t].inW, caller[t].outR})
    /\ caller' = [caller EXCEPT ![t].pc = "bufs"]
    /\ UNCHANGED <<child, piped, file, calls, intact>>

\* The parent closes the ends the child uses.
CloseChildsEnds(t) ==
    /\ caller[t].pc = "forked"
    /\ fd' = Closed({caller[t].inR, caller[t].outW})
    /\ caller' = [caller EXCEPT ![t].pc = "bufs"]
    /\ UNCHANGED <<child, piped, file, calls, intact>>

\* Whether fdopen takes what is under a number: an end of a pipe of that direction.
\* The mode a local file was opened with is not modelled.
Opens(o, right) ==
    IF o = None THEN {FALSE} ELSE IF o[2] = "rw" THEN BOOLEAN ELSE {o[2] = right}

\* m_pWriteBuf and m_pReadBuf.  A buffer that could not be opened is at its end, and
\* closes nothing later.
MakeBufs(t) ==
    /\ caller[t].pc = "bufs"
    /\ \E i \in Opens(fd[caller[t].inW], "w"), o \in Opens(fd[caller[t].outR], "r") :
          caller' = [caller EXCEPT ![t].pc = IF o THEN "read" ELSE "eof",
                                   ![t].inBuf = i, ![t].outBuf = o]
    /\ UNCHANGED <<fd, child, piped, file, calls, intact>>

-----------------------------------------------------------------------------
(* execProg reads until the end of the output, sends the end of input,     *)
(* waits and leaves the scope of the Spawn.                                *)

\* A read is on what is under the number when it starts, until it returns.
ReadBegin(t) ==
    /\ caller[t].pc = "read"
    /\ caller' = [caller EXCEPT ![t].pc = "reading", ![t].obj = fd[caller[t].outR]]
    /\ UNCHANGED <<fd, child, piped, file, calls, intact>>

\* The buffer takes what is in the pipe.  The loop reads all its lines and goes on, or
\* leaves at the text of an error it knows, and the rest is lost with the buffer.
ReadLines(t) ==
    /\ caller[t].pc = "reading"
    /\ \E c \in Calls :
          /\ caller[t].obj = OutR(c) /\ piped[c] # {}
          /\ \/ caller' = [caller EXCEPT ![t].pc = "read", ![t].obj = None,
                                         ![t].got = @ \cup piped[c]]
             \/ \E lines \in (SUBSET piped[c]) \ {{}} :
                   caller' = [caller EXCEPT ![t].pc = "eof", ![t].obj = None,
                                            ![t].got = @ \cup lines]
          /\ piped' = [piped EXCEPT ![c] = {}]
    /\ UNCHANGED <<fd, child, file, calls, intact>>

\* The end of a pipe nobody writes to, or of a local file after its lines (0).
ReadEnd(t) ==
    /\ caller[t].pc = "reading"
    /\ \E lines \in SUBSET {0} :
          /\ \/ \E c \in Calls : /\ caller[t].obj = OutR(c) /\ piped[c] = {}
                                 /\ ~Written(OutW(c)) /\ lines = {}
             \/ \E c \in Calls : /\ caller[t].obj = InR(c)
                                 /\ ~Written(InW(c)) /\ lines = {}
             \/ \E u \in Callers : caller[t].obj = FileOf(u)
          /\ caller' = [caller EXCEPT ![t].pc = "eof", ![t].obj = None,
                                      ![t].got = @ \cup lines]
    /\ UNCHANGED <<fd, child, piped, file, calls, intact>>

\* A read of a closed number or of an end that is written to, or of a file opened for
\* writing only, fails: getline sets badbit, then failbit, never eofbit, and the loop
\* that waits for eof never ends.
ReadFails(t) ==
    /\ caller[t].pc = "reading"
    /\ \/ caller[t].obj \in {None} \cup WriteEnds
       \/ \E u \in Callers : caller[t].obj = FileOf(u)
    /\ caller' = [caller EXCEPT ![t].pc = "spin", ![t].obj = None]
    /\ UNCHANGED <<fd, child, piped, file, calls, intact>>

\* The program prints, and ends.
Run(c) ==
    /\ child[c].alive
    /\ child' = [child EXCEPT ![c] = NoChild]
    /\ piped' = [d \in Calls |->
          IF child[c].stdout = OutW(d) THEN piped[d] \cup {c} ELSE piped[d]]
    /\ UNCHANGED <<fd, caller, file, calls, intact>>

\* Spawn::sendEof
SendEof(t) ==
    /\ caller[t].pc = "eof"
    /\ fd' = Closed(IF caller[t].inBuf THEN {caller[t].inW} ELSE {})
    /\ caller' = [caller EXCEPT ![t].pc = "wait"]
    /\ UNCHANGED <<child, piped, file, calls, intact>>

\* Spawn::wait
Wait(t) ==
    /\ caller[t].pc = "wait"
    /\ ~child[caller[t].call].alive
    /\ caller' = [caller EXCEPT ![t].pc = "delete"]
    /\ UNCHANGED <<fd, child, piped, file, calls, intact>>

\* Spawn::~Spawn
DeleteBufs(t) ==
    /\ caller[t].pc = "delete"
    /\ fd' = Closed(IF caller[t].outBuf THEN {caller[t].outR} ELSE {})
    /\ caller' = [caller EXCEPT ![t].pc = "close"]
    /\ UNCHANGED <<child, piped, file, calls, intact>>

\* Cpipe::~Cpipe, twice.  A call whose buffers were open has closed each of its
\* numbers before: what it closes, if anything, belongs to somebody else.
ClosePipes(t) ==
    /\ caller[t].pc = "close"
    /\ fd' = Closed(Numbers(t))
    /\ caller' = [caller EXCEPT ![t] = Over(t, "done")]
    /\ UNCHANGED <<child, piped, file, calls, intact>>

-----------------------------------------------------------------------------
(* adbnc_open and adbnc_release                                            *)

Open(t) ==
    /\ t \in Openers /\ ~InCall(t) /\ file[t] = None /\ Free # {}
    /\ fd' = [fd EXCEPT ![Lowest(Free)] = FileOf(t)]
    /\ file' = [file EXCEPT ![t] = Lowest(Free)]
    /\ intact' = IF Sound(Callers) THEN intact \cup {t} ELSE intact
    /\ UNCHANGED <<child, piped, caller, calls>>

Release(t) ==
    /\ ~InCall(t) /\ file[t] # None
    /\ fd' = Closed({file[t]})
    /\ file' = [file EXCEPT ![t] = None]
    /\ intact' = intact \ {t}
    /\ UNCHANGED <<child, piped, caller, calls>>

-----------------------------------------------------------------------------
Step(t) ==
    \/ MakeReadPipe(t) \/ Fork(t) \/ CloseChildsEnds(t) \/ MakeBufs(t)
    \/ ReadBegin(t) \/ ReadLines(t) \/ ReadEnd(t) \/ ReadFails(t)
    \/ SendEof(t) \/ Wait(t) \/ DeleteBufs(t) \/ ClosePipes(t)

Next ==
    \/ \E t \in Callers : MakeWritePipe(t) \/ Step(t) \/ Open(t) \/ Release(t)
    \/ \E c \in Calls : Run(c)

Spec == Init /\ [][Next]_vars

\* The scheduler runs every thread, and the programs end.
FairSpec == /\ Spec
            /\ \A t \in Callers : WF_vars(Step(t))
            /\ \A c \in Calls : WF_vars(Run(c))

-----------------------------------------------------------------------------
Ends == {InR(c) : c \in Calls} \cup {InW(c) : c \in Calls}
        \cup {OutR(c) : c \in Calls} \cup {OutW(c) : c \in Calls}

Objects == Ends \cup {FileOf(t) : t \in Callers} \cup {None}

CallerState ==
    [pc : {"idle", "pipe", "fork", "forked", "bufs", "read", "reading", "spin", "eof",
           "wait", "delete", "close", "done", "failed"},
     call : {0} \cup Calls, inR : Fds \cup {None}, inW : Fds \cup {None},
     outR : Fds \cup {None}, outW : Fds \cup {None},
     inBuf : BOOLEAN, outBuf : BOOLEAN, obj : Objects,
     got : SUBSET ({0} \cup Calls), sound : BOOLEAN]

TypeOK ==
    /\ fd \in [Fds -> Objects]
    /\ child \in [Calls -> [alive : BOOLEAN, stdout : Objects, keeps : SUBSET Objects]]
    /\ piped \in [Calls -> SUBSET Calls]
    /\ caller \in [Callers -> CallerState]
    /\ file \in [Callers -> Fds \cup {None}]
    /\ calls \in 0..MaxCalls
    /\ intact \subseteq Callers

\* Whatever the threads close for each other, every end of a pipe that is open
\* belongs to a call in progress: execProg leaks no descriptor, whether its pipes
\* or its child could be made or not.
NoLeak ==
    \A n \in Fds : fd[n] \in Ends =>
        \E t \in Callers : InCall(t) /\ caller[t].call = fd[n][3]

\* A call that made its two pipes while no other call ran, and no file had lost its
\* descriptor, gets the output of its program and nothing else, although calls of
\* other threads start from then on, their children inherit its pipes, and they
\* close the numbers it has given back.  Mounted with -s this is every call.
SoundOutput ==
    \A t \in Callers :
        caller[t].pc = "done" /\ caller[t].sound => caller[t].got = {caller[t].call}

\* A local file that was opened under the same condition stays open under its
\* number until it is released, whatever calls are made meanwhile.
FilesKept == \A t \in intact : file[t] # None /\ fd[file[t]] = FileOf(t)

\* A call of execProg that made its two pipes under this condition ends when its program
\* does, although the children of later calls hold ends of its pipes and those calls
\* may read for ever from a number that is no longer theirs.
CallsReturn ==
    \A t \in Callers : caller[t].pc = "fork" /\ caller[t].sound ~> ~InCall(t)

\* "the queue of lines written to stdout respectively stderr by the executed
\* program": every call gets the output of its own program.
OwnOutput ==
    \A t \in Callers : caller[t].pc = "done" => caller[t].got = {caller[t].call}
=============================================================================

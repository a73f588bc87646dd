------------------------------- MODULE NetCat -------------------------------
(***************************************************************************)
(* execCommandViaNetCat: every callback of adbncfs runs its commands on    *)
(* the device through one netcat process, whose input and output are pipes *)
(* of lines.  ncCmdMutex lets one caller at a time write a command and an  *)
(* echo of the end marker, and read up to the marker.                      *)
(*                                                                         *)
(* A line is the number of the line in the output of the call it belongs   *)
(* to; its text matters only in that it may hold the marker.  A call is    *)
(* named by its thread and a bit that tells it from the thread's previous  *)
(* one.                                                                    *)
(***************************************************************************)
EXTENDS Naturals, Sequences

CONSTANTS
    Threads,     \* libfuse's worker threads
    MaxLines,    \* bound on the lines a command writes
    MarkerText,  \* the output of a command may hold the marker
    OpenQuotes,  \* a path may hold an apostrophe
    CanBreak,    \* the netcat process may end
    None

ASSUME NetCatAssumption ==
    /\ MaxLines \in Nat
    /\ MarkerText \in BOOLEAN
    /\ OpenQuotes \in BOOLEAN
    /\ CanBreak \in BOOLEAN
    /\ None \notin Threads

VARIABLES
    pc,         \* per thread: idle, waiting, sending or reading
    bit,        \* per thread: names its current call
    out,        \* per thread: output, the lines read so far
    written,    \* per thread: how many lines the device wrote for its call
    holder,     \* the owner of ncCmdMutex
    toDevice,   \* netcat's input
    toHost,     \* netcat's output
    quoteOpen,  \* the shell on the device waits for the end of a quote
    broken      \* netcat has ended

vars == <<pc, bit, out, written, holder, toDevice, toHost, quoteOpen, broken>>

Call(t) == <<t, bit[t]>>

Command(c) == [call |-> c, echo |-> FALSE]
Echo(c)    == [call |-> c, echo |-> TRUE]

Line(c, n, marker) == [call |-> c, no |-> n, marker |-> marker]

Init ==
    /\ pc = [t \in Threads |-> "idle"]
    /\ bit = [t \in Threads |-> 0]
    /\ out = [t \in Threads |-> <<>>]
    /\ written = [t \in Threads |-> 0]
    /\ holder = None
    /\ toDevice = <<>>
    /\ toHost = <<>>
    /\ quoteOpen = FALSE
    /\ broken = FALSE

\* A callback calls execCommandViaNetCat.
Enter(t) ==
    /\ pc[t] = "idle"
    /\ pc' = [pc EXCEPT ![t] = "waiting"]
    /\ bit' = [bit EXCEPT ![t] = 1 - @]
    /\ out' = [out EXCEPT ![t] = <<>>]
    /\ written' = [written EXCEPT ![t] = 0]
    /\ UNCHANGED <<holder, toDevice, toHost, quoteOpen, broken>>

\* Mutant: the mutex is not taken.
LockNothing(t) ==
    /\ pc[t] = "waiting"
    /\ holder' = t
    /\ pc' = [pc EXCEPT ![t] = "sending"]
    /\ UNCHANGED <<bit, out, written, toDevice, toHost, quoteOpen, broken>>

Lock(t) ==
    /\ pc[t] = "waiting" /\ holder = None
    /\ holder' = t
    /\ pc' = [pc EXCEPT ![t] = "sending"]
    /\ UNCHANGED <<bit, out, written, toDevice, toHost, quoteOpen, broken>>

\* Mutant: the mutex covers the writing only.
SendUnlocking(t) ==
    /\ pc[t] = "sending"
    /\ toDevice' = IF broken THEN toDevice
                   ELSE toDevice \o <<Command(Call(t)), Echo(Call(t))>>
    /\ pc' = [pc EXCEPT ![t] = "reading"]
    /\ holder' = None
    /\ UNCHANGED <<bit, out, written, toHost, quoteOpen, broken>>

\* The command and the echo are written and flushed; a broken pipe takes them.
Send(t) ==
    /\ pc[t] = "sending"
    /\ toDevice' = IF broken THEN toDevice
                   ELSE toDevice \o <<Command(Call(t)), Echo(Call(t))>>
    /\ pc' = [pc EXCEPT ![t] = "reading"]
    /\ UNCHANGED <<bit, out, written, holder, toHost, quoteOpen, broken>>

\* The shell on the device runs the next line of its input.
Run ==
    /\ toDevice # <<>> /\ ~broken /\ ~quoteOpen
    /\ LET c == Head(toDevice).call
       IN  IF Head(toDevice).echo
           THEN /\ toHost' = Append(toHost, Line(c, 0, TRUE))
                /\ UNCHANGED written
           ELSE \E n \in 0..MaxLines :
                \E held \in SUBSET (1..n) :
                   /\ MarkerText \/ held = {}
                   /\ toHost' = toHost \o [i \in 1..n |-> Line(c, i, i \in held)]
                   /\ written' = [written EXCEPT ![c[1]] = n]
    /\ toDevice' = Tail(toDevice)
    /\ UNCHANGED <<pc, bit, out, holder, quoteOpen, broken>>

\* The callbacks put paths between apostrophes as they are.  One more of them leaves the
\* quote open at the end of the command; the two of the echo close it and open the
\* next one: the shell takes both lines and waits for more, and prints nothing.
Swallow ==
    /\ toDevice # <<>> /\ ~broken
    /\ quoteOpen \/ (OpenQuotes /\ ~Head(toDevice).echo)
    /\ quoteOpen' = TRUE
    /\ toDevice' = Tail(toDevice)
    /\ UNCHANGED <<pc, bit, out, written, holder, toHost, broken>>

Unlock(t) ==
    /\ holder' = None
    /\ pc' = [pc EXCEPT ![t] = "idle"]

\* strTmpString.find(pcDone)
IsMarker(line) == line.marker

\* Mutant: the line is put into the output before it is tested.
ReadKeepingMarker(t) ==
    /\ pc[t] = "reading" /\ toHost # <<>>
    /\ toHost' = Tail(toHost)
    /\ out' = [out EXCEPT ![t] = Append(@, Head(toHost))]
    /\ IF IsMarker(Head(toHost)) THEN Unlock(t) ELSE UNCHANGED <<holder, pc>>
    /\ UNCHANGED <<bit, written, toDevice, quoteOpen, broken>>

\* getline: a line that holds the marker ends the command.
Read(t) ==
    /\ pc[t] = "reading" /\ toHost # <<>>
    /\ toHost' = Tail(toHost)
    /\ IF IsMarker(Head(toHost))
       THEN Unlock(t) /\ UNCHANGED out
       ELSE /\ out' = [out EXCEPT ![t] = Append(@, Head(toHost))]
            /\ UNCHANGED <<holder, pc>>
    /\ UNCHANGED <<bit, written, toDevice, quoteOpen, broken>>

\* Mutant: the end of the file is not noticed.
ReadEofNot(t) ==
    /\ pc[t] = "reading" /\ toHost = <<>> /\ broken
    /\ UNCHANGED vars

\* Mutant: the end of the file is an early return, with the mutex held.
ReadEofLocked(t) ==
    /\ pc[t] = "reading" /\ toHost = <<>> /\ broken
    /\ pc' = [pc EXCEPT ![t] = "idle"]
    /\ UNCHANGED <<bit, out, written, holder, toDevice, toHost, quoteOpen, broken>>

\* getline reaches the end of the file: what was read so far is returned.
ReadEof(t) ==
    /\ pc[t] = "reading" /\ toHost = <<>> /\ broken
    /\ Unlock(t)
    /\ UNCHANGED <<bit, out, written, toDevice, toHost, quoteOpen, broken>>

\* Netcat ends: commands on their way are lost, and so is the end of the output.
Break ==
    /\ CanBreak /\ ~broken
    /\ broken' = TRUE
    /\ toDevice' = <<>>
    /\ \E n \in 0..Len(toHost) : toHost' = SubSeq(toHost, 1, n)
    /\ UNCHANGED <<pc, bit, out, written, holder, quoteOpen>>

Step(t) == Send(t) \/ Read(t) \/ ReadEof(t)

Next ==
    \/ \E t \in Threads : Enter(t) \/ Lock(t) \/ Step(t)
    \/ Run
    \/ Swallow
    \/ Break

Spec == Init /\ [][Next]_vars

\* The device takes what it is sent, a command it runs ends, and the holder of the mutex
\* is scheduled.
Fairness == WF_vars(Run \/ Swallow) /\ \A t \in Threads : WF_vars(Step(t))

FairSpec == Spec /\ Fairness

-----------------------------------------------------------------------------
Calls == Threads \X {0, 1}

TypeOK ==
    /\ pc \in [Threads -> {"idle", "waiting", "sending", "reading"}]
    /\ bit \in [Threads -> {0, 1}]
    /\ out \in [Threads -> Seq([call : Calls, no : Nat, marker : BOOLEAN])]
    /\ written \in [Threads -> 0..MaxLines]
    /\ holder \in Threads \cup {None}
    /\ toDevice \in Seq([call : Calls, echo : BOOLEAN])
    /\ toHost \in Seq([call : Calls, no : Nat, marker : BOOLEAN])
    /\ quoteOpen \in BOOLEAN
    /\ broken \in BOOLEAN
    /\ \A t \in Threads : pc[t] \in {"sending", "reading"} <=> holder = t

\* "the queue of lines written to stdout by the executed command": what a call
\* has read is always the beginning of its own command's output, in order, and a
\* call that has returned over a working connection has all of it.
OwnOutput ==
    \A t \in Threads :
        /\ \A i \in 1..Len(out[t]) : /\ out[t][i].call = Call(t)
                                     /\ out[t][i].no = i
        /\ pc[t] = "idle" /\ ~broken => Len(out[t]) = written[t]

\* Nothing of a call is left in the pipes for the next one: while the mutex is
\* free, and while its holder has not sent its command yet, both are empty.
PipesEmpty ==
    holder = None \/ pc[holder] = "sending" => toDevice = <<>> /\ toHost = <<>>

\* Only an apostrophe in a path makes getline wait for what cannot come: as long as a
\* call reads, netcat runs and no quote is open, its own marker is on its way, or the
\* echo that will print it; no other call takes it.
MarkerComes ==
    \A t \in Threads : pc[t] = "reading" /\ ~broken /\ ~quoteOpen =>
        \/ \E i \in 1..Len(toDevice) :
              toDevice[i].echo /\ toDevice[i].call = Call(t)
        \/ \E i \in 1..Len(toHost) :
              toHost[i].marker /\ toHost[i].call = Call(t)

\* The mutex is released again after every command that ends on the device, also when
\* netcat ends in the middle of it, unless a path left a quote open over a connection
\* that works.
MutexReleased == (holder # None) ~> (holder = None \/ (quoteOpen /\ ~broken))

\* The calls, seen as calls of the abstract remote shell.
Shell == INSTANCE RemoteShell WITH
    asked <- {t \in Threads : pc[t] # "idle"},
    reply <- [t \in Threads |->
                IF pc[t] # "idle" THEN None
                ELSE [lines   |-> [i \in 1..Len(out[t]) |->
                                     <<out[t][i].call[1], out[t][i].no>>],
                      written |-> written[t]]]

\* NetCat implements the remote shell the callbacks rely on.
ImplementsShell == Shell!Spec
=============================================================================

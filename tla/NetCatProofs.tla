---------------------------- MODULE NetCatProofs ----------------------------
(***************************************************************************)
(* Proofs about NetCat, for every set of threads and every length of the   *)
(* outputs, while no output holds the end marker: calls get their own      *)
(* output, the pipes are empty between two calls, NetCat implements        *)
(* RemoteShell, and only an open quote makes a call wait for ever.         *)
(***************************************************************************)
EXTENDS NetCat, SequenceTheorems, TLAPS

HostLine == [call : Calls, no : Nat, marker : BOOLEAN]

DeviceLine == [call : Calls, echo : BOOLEAN]

-----------------------------------------------------------------------------
(* The inductive invariant.                                                *)

TypeInv ==
    /\ pc \in [Threads -> {"idle", "waiting", "sending", "reading"}]
    /\ bit \in [Threads -> {0, 1}]
    /\ out \in [Threads -> Seq([call : Calls, no : Nat, marker : BOOLEAN])]
    /\ written \in [Threads -> 0..MaxLines]
    /\ holder \in Threads \cup {None}
    /\ toDevice \in Seq([call : Calls, echo : BOOLEAN])
    /\ toHost \in Seq([call : Calls, no : Nat, marker : BOOLEAN])
    /\ quoteOpen \in BOOLEAN
    /\ broken \in BOOLEAN

\* The mutex is held by who is sending or reading, and nobody else.
MutexInv == \A t \in Threads : pc[t] \in {"sending", "reading"} <=> holder = t

\* A call that has not sent its command has no output, on either side.
UnsentInv ==
    \A t \in Threads : pc[t] \in {"waiting", "sending"} =>
        out[t] = <<>> /\ written[t] = 0

\* What a call has read is the beginning of its own output, and all of it when it has
\* returned.
OutputInv ==
    \A t \in Threads :
        /\ \A i \in 1..Len(out[t]) : /\ out[t][i].call = Call(t)
                                     /\ out[t][i].no = i
        /\ Len(out[t]) <= written[t]
        /\ pc[t] = "idle" /\ ~broken => Len(out[t]) = written[t]

\* What is on its way to a reader t continues what t has read, and the marker comes
\* last, after the last line the command wrote.
Continues(t) ==
    \A i \in 1..Len(toHost) :
        /\ toHost[i].call = Call(t)
        /\ IF toHost[i].marker
           THEN i = Len(toHost) /\ Len(out[t]) + i = written[t] + 1
           ELSE toHost[i].no = Len(out[t]) + i /\ Len(out[t]) + i <= written[t]

\* The command has not run yet; it has run, or the quote it left open has swallowed it,
\* but not the echo; both have run; the quote has swallowed both.
Sent(t) ==
    /\ toDevice = <<Command(Call(t)), Echo(Call(t))>>
    /\ toHost = <<>> /\ out[t] = <<>> /\ written[t] = 0

Ran(t) ==
    /\ toDevice = <<Echo(Call(t))>>
    /\ \A i \in 1..Len(toHost) : ~toHost[i].marker
    /\ Len(out[t]) + Len(toHost) = written[t]

Echoed(t) ==
    /\ toDevice = <<>>
    /\ toHost # <<>> /\ toHost[Len(toHost)].marker

Swallowed(t) ==
    /\ quoteOpen /\ toDevice = <<>>
    /\ \A i \in 1..Len(toHost) : ~toHost[i].marker
    /\ Len(out[t]) + Len(toHost) = written[t]

Stages(t) ==
    Sent(t) \/ Ran(t) \/ Echoed(t) \/ Swallowed(t) \/ (broken /\ toDevice = <<>>)

ReaderInv == \A t \in Threads : pc[t] = "reading" => Continues(t) /\ Stages(t)

BrokenInv == broken => toDevice = <<>>

NetCatInv ==
    /\ MutexInv /\ UnsentInv /\ OutputInv
    /\ PipesEmpty /\ ReaderInv /\ BrokenInv

-----------------------------------------------------------------------------
(* Type correctness.                                                       *)

\* What a command prints.
Printed(c, n, held) == [i \in 1..n |-> Line(c, i, i \in held)]

LEMMA PrintedType ==
    ASSUME NEW c \in Calls, NEW n \in Nat, NEW held
    PROVE  /\ Printed(c, n, held) \in Seq(HostLine)
           /\ Len(Printed(c, n, held)) = n
           /\ \A i \in 1..n : Printed(c, n, held)[i] = Line(c, i, i \in held)
<1>1. \A i \in 1..n : Line(c, i, i \in held) \in HostLine
  BY DEF Line, HostLine
<1>. QED
  BY <1>1 DEF Printed

LEMMA CallType ==
    ASSUME TypeInv, NEW t \in Threads
    PROVE  /\ Call(t) \in Calls
           /\ Command(Call(t)) \in DeviceLine
           /\ Echo(Call(t)) \in DeviceLine
  BY DEF TypeInv, Calls, Call, Command, Echo, DeviceLine

LEMMA TypeInit == Init => TypeInv
<1>. SUFFICES ASSUME Init PROVE TypeInv
  OBVIOUS
<1>1. <<>> \in Seq(HostLine) /\ <<>> \in Seq(DeviceLine)
  OBVIOUS
<1>2. 0 \in 0..MaxLines
  BY NetCatAssumption
<1>3. /\ out \in [Threads -> Seq(HostLine)]
      /\ written \in [Threads -> 0..MaxLines]
  BY <1>1, <1>2 DEF Init
<1>. QED
  BY <1>1, <1>3 DEF Init, TypeInv, HostLine, DeviceLine

LEMMA TypeStep == TypeInv /\ [Next]_vars => TypeInv'
<1>. SUFFICES ASSUME TypeInv, [Next]_vars PROVE TypeInv'
  OBVIOUS
<1>. USE NetCatAssumption
<1>0. /\ toHost \in Seq(HostLine) /\ out \in [Threads -> Seq(HostLine)]
      /\ toDevice \in Seq(DeviceLine)
  BY DEF TypeInv, HostLine, DeviceLine
<1>1. ASSUME NEW t \in Threads, Enter(t)
      PROVE  TypeInv'
  <2>1. out' \in [Threads -> Seq(HostLine)]
    <3>1. <<>> \in Seq(HostLine)
      OBVIOUS
    <3>. QED
      BY <1>0, <1>1, <3>1 DEF Enter
  <2>2. bit' \in [Threads -> {0, 1}]
    <3>1. \A b \in {0, 1} : 1 - b \in {0, 1}
      OBVIOUS
    <3>. QED
      BY <1>1, <3>1 DEF Enter, TypeInv
  <2>3. written' \in [Threads -> 0..MaxLines]
    BY <1>1 DEF Enter, TypeInv
  <2>. QED
    BY <1>1, <2>1, <2>2, <2>3 DEF Enter, TypeInv, HostLine
<1>2. ASSUME NEW t \in Threads, Lock(t)
      PROVE  TypeInv'
  BY <1>2 DEF Lock, TypeInv
<1>3. ASSUME NEW t \in Threads, Send(t)
      PROVE  TypeInv'
  <2>1. <<Command(Call(t)), Echo(Call(t))>> \in Seq(DeviceLine)
    BY CallType
  <2>2. toDevice' \in Seq(DeviceLine)
    BY <1>0, <1>3, <2>1 DEF Send
  <2>. QED
    BY <1>3, <2>2 DEF Send, TypeInv, DeviceLine
<1>4. ASSUME NEW t \in Threads, Read(t)
      PROVE  TypeInv'
  <2>1. toHost' \in Seq(HostLine) /\ Head(toHost) \in HostLine
    BY <1>0, <1>4 DEF Read
  <2>2. out' \in [Threads -> Seq(HostLine)]
    <3>1. Append(out[t], Head(toHost)) \in Seq(HostLine)
      BY <1>0, <2>1
    <3>2. out' = out \/ out' = [out EXCEPT ![t] = Append(out[t], Head(toHost))]
      BY <1>4 DEF Read
    <3>. QED
      BY <1>0, <3>1, <3>2
  <2>. QED
    BY <1>4, <2>1, <2>2 DEF Read, Unlock, TypeInv, HostLine
<1>5. ASSUME NEW t \in Threads, ReadEof(t)
      PROVE  TypeInv'
  BY <1>5 DEF ReadEof, Unlock, TypeInv
<1>6. CASE Run
  <2>. DEFINE c == Head(toDevice).call
  <2>1. /\ toDevice # <<>> /\ Head(toDevice) \in DeviceLine
        /\ Tail(toDevice) \in Seq(DeviceLine)
    BY <1>0, <1>6 DEF Run
  <2>2. c \in Calls /\ c[1] \in Threads
    BY <2>1 DEF DeviceLine, Calls
  <2>3. CASE Head(toDevice).echo
    <3>1. Line(c, 0, TRUE) \in HostLine
      BY <2>2 DEF Line, HostLine
    <3>2. toHost' = Append(toHost, Line(c, 0, TRUE))
      BY <1>6, <2>3 DEF Run
    <3>3. toHost' \in Seq(HostLine)
      <4>1. Append(toHost, Line(c, 0, TRUE)) \in Seq(HostLine)
        <5>. HIDE DEF c
        <5>. QED
          BY <1>0, <3>1, AppendProperties
      <4>. QED
        BY <3>2, <4>1
    <3>. QED
      BY <1>6, <2>1, <2>3, <3>3 DEF Run, TypeInv, HostLine, DeviceLine
  <2>4. CASE ~Head(toDevice).echo
    <3>1. PICK n \in 0..MaxLines :
             \E held \in SUBSET (1..n) :
                /\ toHost' = toHost \o Printed(c, n, held)
                /\ written' = [written EXCEPT ![c[1]] = n]
      BY <1>6, <2>4 DEF Run, Printed
    <3>2. PICK held : toHost' = toHost \o Printed(c, n, held)
      BY <3>1
    <3>3. toHost' \in Seq(HostLine)
      <4>1. Printed(c, n, held) \in Seq(HostLine)
        BY <2>2, PrintedType
      <4>2. toHost \in Seq(HostLine)
        BY <1>0
      <4>3. toHost \o Printed(c, n, held) \in Seq(HostLine)
        BY <4>1, <4>2, ConcatProperties
      <4>. QED
        BY <3>2, <4>3
    <3>4. written' \in [Threads -> 0..MaxLines]
      BY <3>1 DEF TypeInv
    <3>. QED
      BY <1>6, <2>1, <3>3, <3>4 DEF Run, TypeInv, HostLine, DeviceLine
  <2>. QED
    BY <2>3, <2>4
<1>7. CASE Break
  <2>1. PICK n \in 0..Len(toHost) : toHost' = SubSeq(toHost, 1, n)
    BY <1>7 DEF Break
  <2>2. toHost' \in Seq(HostLine) /\ <<>> \in Seq(DeviceLine)
    BY <1>0, <2>1
  <2>. QED
    BY <1>7, <2>2 DEF Break, TypeInv, HostLine, DeviceLine
<1>8. CASE Swallow
  <2>1. toDevice' \in Seq(DeviceLine)
    BY <1>0, <1>8 DEF Swallow
  <2>. QED
    BY <1>8, <2>1 DEF Swallow, TypeInv, DeviceLine
<1>9. CASE UNCHANGED vars
  BY <1>9 DEF vars, TypeInv
<1>. QED
  BY <1>1, <1>2, <1>3, <1>4, <1>5, <1>6, <1>7, <1>8, <1>9 DEF Next, Step

LEMMA MutexInit == Init => MutexInv
  BY NetCatAssumption DEF Init, MutexInv

LEMMA MutexStep == TypeInv /\ MutexInv /\ [Next]_vars => MutexInv'
<1>. SUFFICES ASSUME TypeInv, MutexInv, [Next]_vars PROVE MutexInv'
  OBVIOUS
<1>1. ASSUME NEW t \in Threads, Enter(t) \/ Lock(t)
      PROVE  MutexInv'
  BY <1>1, NetCatAssumption DEF Enter, Lock, TypeInv, MutexInv
<1>2. ASSUME NEW t \in Threads, Send(t)
      PROVE  MutexInv'
  BY <1>2 DEF Send, TypeInv, MutexInv
<1>3. ASSUME NEW t \in Threads, Read(t) \/ ReadEof(t)
      PROVE  MutexInv'
  <2>1. pc[t] = "reading" /\ (Unlock(t) \/ UNCHANGED <<pc, holder>>)
    BY <1>3 DEF Read, ReadEof
  <2>. QED
    BY <2>1, NetCatAssumption DEF Unlock, TypeInv, MutexInv
<1>4. CASE Run \/ Swallow \/ Break \/ UNCHANGED vars
  BY <1>4 DEF Run, Swallow, Break, vars, MutexInv
<1>. QED
  BY <1>1, <1>2, <1>3, <1>4 DEF Next, Step

\* The pipes and what the calls have read stay well formed, and ncCmdMutex is held by
\* the one thread that sends or reads, whatever the commands print, whatever quotes the
\* paths leave open and whenever netcat ends.
THEOREM TypeCorrect == Spec => []TypeOK
<1>1. TypeInv /\ MutexInv => TypeOK
  BY DEF TypeInv, MutexInv, TypeOK
<1>. QED
  BY <1>1, TypeInit, TypeStep, MutexInit, MutexStep, PTL DEF Spec

-----------------------------------------------------------------------------
(* The invariant, one step at a time.                                      *)

\* Who is sending or reading is the only one.
LEMMA OnlyReader ==
    ASSUME MutexInv, NEW t \in Threads, pc[t] \in {"sending", "reading"}
    PROVE  /\ holder = t
           /\ \A u \in Threads \ {t} : pc[u] \notin {"sending", "reading"}
  BY NetCatAssumption DEF MutexInv

LEMMA InvInit == Init => NetCatInv
  BY NetCatAssumption
  DEF Init, NetCatInv, MutexInv, UnsentInv, OutputInv, PipesEmpty, ReaderInv, BrokenInv

LEMMA EnterInv ==
    ASSUME TypeInv, NetCatInv, NEW t \in Threads, Enter(t)
    PROVE  NetCatInv'
<1>1. /\ pc[t] = "idle" /\ pc' = [pc EXCEPT ![t] = "waiting"]
      /\ out' = [out EXCEPT ![t] = <<>>]
      /\ written' = [written EXCEPT ![t] = 0]
      /\ UNCHANGED <<holder, toDevice, toHost, quoteOpen, broken>>
      /\ \A u \in Threads \ {t} : bit'[u] = bit[u]
  BY DEF Enter, TypeInv
<1>2. /\ pc'[t] = "waiting" /\ out'[t] = <<>> /\ written'[t] = 0
      /\ \A u \in Threads \ {t} :
            /\ pc'[u] = pc[u] /\ out'[u] = out[u] /\ written'[u] = written[u]
            /\ Call(u)' = Call(u)
  BY <1>1 DEF TypeInv, Call
<1>3. MutexInv'
  BY <1>1, <1>2 DEF NetCatInv, MutexInv
<1>4. UnsentInv'
  BY <1>2 DEF NetCatInv, UnsentInv
<1>5. OutputInv'
  <2>1. ASSUME NEW u \in Threads
        PROVE  /\ \A i \in 1..Len(out'[u]) : /\ out'[u][i].call = Call(u)'
                                              /\ out'[u][i].no = i
               /\ Len(out'[u]) <= written'[u]
               /\ pc'[u] = "idle" /\ ~broken' => Len(out'[u]) = written'[u]
    <3>1. CASE u = t
      BY <1>2, <3>1
    <3>2. CASE u # t
      BY <1>1, <1>2, <3>2 DEF NetCatInv, OutputInv
    <3>. QED
      BY <3>1, <3>2
  <2>. QED
    BY <2>1 DEF OutputInv
<1>6. PipesEmpty'
  BY <1>1, <1>2 DEF NetCatInv, PipesEmpty, MutexInv, TypeInv
<1>7. ReaderInv'
  <2>1. ASSUME NEW u \in Threads, pc'[u] = "reading"
        PROVE  Continues(u)' /\ Stages(u)'
    BY <1>1, <1>2, <2>1
    DEF NetCatInv, ReaderInv, Continues, Stages, Sent, Ran, Echoed, Swallowed
  <2>. QED
    BY <2>1 DEF ReaderInv
<1>. QED
  BY <1>1, <1>3, <1>4, <1>5, <1>6, <1>7 DEF NetCatInv, BrokenInv

LEMMA LockInv ==
    ASSUME TypeInv, NetCatInv, NEW t \in Threads, Lock(t)
    PROVE  NetCatInv'
<1>1. /\ pc[t] = "waiting" /\ holder = None /\ holder' = t
      /\ UNCHANGED <<bit, out, written, toDevice, toHost, broken>>
      /\ pc'[t] = "sending" /\ \A u \in Threads \ {t} : pc'[u] = pc[u]
  BY DEF Lock, TypeInv
<1>2. \A u \in Threads : pc[u] \notin {"sending", "reading"}
  BY <1>1, NetCatAssumption DEF NetCatInv, MutexInv
<1>3. MutexInv' /\ ReaderInv'
  BY <1>1, <1>2 DEF MutexInv, ReaderInv
<1>4. UnsentInv' /\ OutputInv'
  BY <1>1 DEF NetCatInv, UnsentInv, OutputInv, Call
<1>5. PipesEmpty' /\ BrokenInv'
  BY <1>1 DEF NetCatInv, PipesEmpty, BrokenInv
<1>. QED
  BY <1>3, <1>4, <1>5 DEF NetCatInv

LEMMA SendInv ==
    ASSUME TypeInv, NetCatInv, NEW t \in Threads, Send(t)
    PROVE  NetCatInv'
<1>1. /\ pc[t] = "sending"
      /\ UNCHANGED <<bit, out, written, holder, toHost, broken>>
      /\ pc'[t] = "reading" /\ \A u \in Threads \ {t} : pc'[u] = pc[u]
      /\ toDevice' = IF broken THEN toDevice
                     ELSE toDevice \o <<Command(Call(t)), Echo(Call(t))>>
  BY DEF Send, TypeInv
<1>2. /\ holder = t /\ toDevice = <<>> /\ toHost = <<>>
      /\ \A u \in Threads \ {t} : pc[u] \notin {"sending", "reading"}
      /\ out[t] = <<>> /\ written[t] = 0
  BY <1>1, OnlyReader DEF NetCatInv, PipesEmpty, UnsentInv
<1>3. toDevice' = IF broken THEN <<>> ELSE <<Command(Call(t)), Echo(Call(t))>>
  BY <1>1, <1>2
<1>4. MutexInv' /\ UnsentInv' /\ OutputInv'
  BY <1>1 DEF NetCatInv, MutexInv, UnsentInv, OutputInv, Call
<1>5. PipesEmpty' /\ BrokenInv'
  BY <1>1, <1>2, <1>3, NetCatAssumption DEF PipesEmpty, BrokenInv
<1>6. ReaderInv'
  <2>1. Continues(t)'
    BY <1>1, <1>2 DEF Continues
  <2>2. Sent(t)' \/ (broken' /\ toDevice' = <<>>)
    BY <1>1, <1>2, <1>3 DEF Sent, Call
  <2>. QED
    BY <1>1, <1>2, <2>1, <2>2 DEF ReaderInv, Stages
<1>. QED
  BY <1>4, <1>5, <1>6 DEF NetCatInv

\* t has read the marker, or the end of the file, and gives the mutex up: the pipes are
\* empty.
LEMMA UnlockInv ==
    ASSUME TypeInv, NetCatInv, NEW t \in Threads, pc[t] = "reading", Unlock(t),
           UNCHANGED <<bit, out, written, toDevice, broken>>,
           toDevice = <<>>, toHost' = <<>>,
           ~broken => Len(out[t]) = written[t]
    PROVE  NetCatInv'
<1>1. /\ pc'[t] = "idle" /\ holder' = None
      /\ \A u \in Threads \ {t} : pc'[u] = pc[u]
  BY DEF Unlock, TypeInv
<1>2. \A u \in Threads \ {t} : pc[u] \notin {"sending", "reading"}
  BY OnlyReader DEF NetCatInv
<1>3. MutexInv' /\ ReaderInv' /\ PipesEmpty'
  BY <1>1, <1>2, NetCatAssumption DEF MutexInv, ReaderInv, PipesEmpty
<1>4. UnsentInv' /\ OutputInv' /\ BrokenInv'
  BY <1>1 DEF NetCatInv, UnsentInv, OutputInv, BrokenInv, Call
<1>. QED
  BY <1>3, <1>4 DEF NetCatInv

LEMMA ReadInv ==
    ASSUME TypeInv, NetCatInv, NEW t \in Threads, Read(t)
    PROVE  NetCatInv'
<1>. DEFINE line == Head(toHost)
<1>1. /\ pc[t] = "reading" /\ toHost # <<>> /\ toHost' = Tail(toHost)
      /\ UNCHANGED <<bit, written, toDevice, quoteOpen, broken>>
  BY DEF Read
<1>2. /\ toHost \in Seq(HostLine) /\ out[t] \in Seq(HostLine)
      /\ written[t] \in Nat
  <2>1. written[t] \in 0..MaxLines
    BY DEF TypeInv
  <2>2. toHost \in Seq(HostLine) /\ out[t] \in Seq(HostLine)
    BY DEF TypeInv, HostLine
  <2>. QED
    BY <2>1, <2>2
<1>3. /\ Len(toHost) \in Nat \ {0} /\ line = toHost[1] /\ line \in HostLine
      /\ toHost' \in Seq(HostLine)
      /\ Len(toHost') = Len(toHost) - 1
      /\ \A i \in 1..Len(toHost') : toHost'[i] = toHost[i + 1]
  BY <1>1, <1>2, HeadTailProperties, EmptySeq
<1>4. /\ Continues(t)
      /\ Ran(t) \/ Echoed(t) \/ Swallowed(t) \/ (broken /\ toDevice = <<>>)
  BY <1>1 DEF NetCatInv, ReaderInv, Stages, Sent
<1>5. CASE line.marker
  <2>1. Len(toHost) = 1 /\ Len(out[t]) = written[t]
    BY <1>2, <1>3, <1>4, <1>5 DEF Continues
  <2>2. toHost' = <<>>
    BY <1>3, <2>1, EmptySeq
  <2>3. toDevice = <<>>
    BY <1>3, <1>4, <1>5, <2>1 DEF Ran, Echoed, Swallowed
  <2>4. Unlock(t) /\ UNCHANGED out
    BY <1>5 DEF Read, IsMarker
  <2>. QED
    BY <1>1, <2>1, <2>2, <2>3, <2>4, UnlockInv
<1>6. CASE ~line.marker
  <2>1. /\ UNCHANGED <<holder, pc>>
        /\ out' = [out EXCEPT ![t] = Append(@, line)]
    BY <1>6 DEF Read, IsMarker
  <2>2. /\ out'[t] = Append(out[t], line)
        /\ \A u \in Threads \ {t} : out'[u] = out[u]
    BY <2>1 DEF TypeInv
  <2>3. /\ Len(out'[t]) = Len(out[t]) + 1 /\ Len(out[t]) \in Nat
        /\ \A i \in 1..Len(out[t]) : out'[t][i] = out[t][i]
        /\ out'[t][Len(out[t]) + 1] = line
    <3>. HIDE DEF line
    <3>. QED
      BY <1>2, <1>3, <2>2, AppendProperties, LenProperties
  <2>4. /\ line.call = Call(t) /\ line.no = Len(out[t]) + 1
        /\ Len(out[t]) + 1 <= written[t]
    BY <1>3, <1>4, <1>6 DEF Continues
  <2>5. /\ holder = t
        /\ \A u \in Threads \ {t} : pc[u] \notin {"sending", "reading"}
    BY <1>1, OnlyReader DEF NetCatInv
  <2>. HIDE DEF line
  <2>6. MutexInv' /\ BrokenInv'
    BY <1>1, <2>1 DEF NetCatInv, MutexInv, BrokenInv
  <2>7. UnsentInv'
    BY <1>1, <2>1, <2>2, <2>5 DEF NetCatInv, UnsentInv
  <2>8. OutputInv'
    <3>1. ASSUME NEW u \in Threads \ {t}
          PROVE  /\ \A i \in 1..Len(out'[u]) : /\ out'[u][i].call = Call(u)'
                                                /\ out'[u][i].no = i
                 /\ Len(out'[u]) <= written'[u]
                 /\ pc'[u] = "idle" /\ ~broken' => Len(out'[u]) = written'[u]
      BY <1>1, <2>1, <2>2 DEF NetCatInv, OutputInv, Call
    <3>2. \A i \in 1..Len(out'[t]) : out'[t][i].call = Call(t)' /\ out'[t][i].no = i
      <4>1. \A i \in 1..Len(out[t]) : out[t][i].call = Call(t) /\ out[t][i].no = i
        BY DEF NetCatInv, OutputInv
      <4>2. Call(t)' = Call(t)
        BY <1>1 DEF Call
      <4>3. \A i \in 1..Len(out'[t]) : i \in 1..Len(out[t]) \/ i = Len(out[t]) + 1
        BY <2>3
      <4>. QED
        BY <2>3, <2>4, <4>1, <4>2, <4>3
    <3>3. Len(out'[t]) <= written'[t] /\ pc'[t] # "idle"
      BY <1>1, <2>1, <2>3, <2>4
    <3>. QED
      BY <3>1, <3>2, <3>3 DEF OutputInv
  <2>9. PipesEmpty'
    BY <1>1, <2>1, <2>5, NetCatAssumption DEF PipesEmpty
  <2>10. ReaderInv'
    <3>1. Continues(t)'
      <4>1. Call(t)' = Call(t)
        BY <1>1 DEF Call
      <4>2. ASSUME NEW i \in 1..Len(toHost')
            PROVE  /\ toHost'[i].call = Call(t)
                   /\ IF toHost'[i].marker
                      THEN i = Len(toHost') /\ Len(out'[t]) + i = written[t] + 1
                      ELSE /\ toHost'[i].no = Len(out'[t]) + i
                           /\ Len(out'[t]) + i <= written[t]
        <5>1. /\ i + 1 \in 1..Len(toHost) /\ i \in Nat
              /\ i + 1 = Len(toHost) => i = Len(toHost')
              /\ Len(out'[t]) + i = Len(out[t]) + (i + 1)
          <6>. DEFINE m == Len(toHost')
                      n == Len(toHost)
                      k == Len(out[t])
                      l == Len(out'[t])
          <6>1. m = n - 1 /\ n \in Nat \ {0} /\ l = k + 1 /\ k \in Nat /\ i \in 1..m
            BY <1>3, <2>3
          <6>. HIDE DEF m, n, k, l
          <6>2. /\ i + 1 \in 1..n /\ i \in Nat
                /\ i + 1 = n => i = m
                /\ l + i = k + (i + 1)
            BY <6>1
          <6>. QED
            BY <6>2 DEF m, n, k, l
        <5>2. toHost'[i] = toHost[i + 1]
          BY <1>3
        <5>3. /\ toHost[i + 1].call = Call(t)
              /\ IF toHost[i + 1].marker
                 THEN i + 1 = Len(toHost) /\ Len(out[t]) + (i + 1) = written[t] + 1
                 ELSE /\ toHost[i + 1].no = Len(out[t]) + (i + 1)
                      /\ Len(out[t]) + (i + 1) <= written[t]
          BY <1>4, <5>1 DEF Continues
        <5>. QED
          BY <5>1, <5>2, <5>3
      <4>. QED
        BY <1>1, <4>1, <4>2 DEF Continues
    <3>2. Ran(t)' \/ Echoed(t)' \/ Swallowed(t)' \/ (broken' /\ toDevice' = <<>>)
      <4>1. CASE Ran(t) \/ Swallowed(t)
        <5>1. \A i \in 1..Len(toHost') : ~toHost'[i].marker
          BY <1>3, <4>1 DEF Ran, Swallowed
        <5>2. Len(out'[t]) + Len(toHost') = written[t]
          BY <1>2, <1>3, <2>3, <4>1 DEF Ran, Swallowed
        <5>. QED
          BY <1>1, <4>1, <5>1, <5>2 DEF Ran, Swallowed, Call
      <4>2. CASE Echoed(t)
        <5>1. Len(toHost) # 1
          BY <1>3, <1>6, <4>2 DEF Echoed, line
        <5>2. Len(toHost') \in 1..Len(toHost') /\ Len(toHost') + 1 = Len(toHost)
          BY <1>3, <5>1
        <5>3. toHost' # <<>> /\ toHost'[Len(toHost')].marker
          BY <1>3, <4>2, <5>2 DEF Echoed
        <5>. QED
          BY <1>1, <4>2, <5>3 DEF Echoed
      <4>3. CASE broken /\ toDevice = <<>>
        BY <1>1, <4>3
      <4>. QED
        BY <1>4, <4>1, <4>2, <4>3
    <3>. QED
      BY <2>1, <2>5, <3>1, <3>2 DEF ReaderInv, Stages
  <2>. QED
    BY <2>6, <2>7, <2>8, <2>9, <2>10 DEF NetCatInv
<1>. QED
  BY <1>5, <1>6

LEMMA ReadEofInv ==
    ASSUME TypeInv, NetCatInv, NEW t \in Threads, ReadEof(t)
    PROVE  NetCatInv'
  BY UnlockInv DEF ReadEof, NetCatInv, BrokenInv

\* A step on the device concerns the reader's call alone.
LEMMA DeviceInv ==
    ASSUME TypeInv, NetCatInv, NEW t \in Threads, pc[t] = "reading",
           UNCHANGED <<pc, bit, out, holder>>,
           \A u \in Threads \ {t} : written'[u] = written[u],
           broken' => toDevice' = <<>>, broken => broken',
           Len(out[t]) <= written'[t],
           Continues(t)', Stages(t)'
    PROVE  NetCatInv'
<1>1. /\ holder = t
      /\ \A u \in Threads \ {t} : pc[u] \notin {"sending", "reading"}
  BY OnlyReader DEF NetCatInv
<1>2. MutexInv' /\ UnsentInv'
  BY DEF NetCatInv, MutexInv, UnsentInv
<1>3. OutputInv'
  BY DEF NetCatInv, OutputInv, Call
<1>4. PipesEmpty'
  BY <1>1, NetCatAssumption DEF PipesEmpty
<1>5. ReaderInv'
  BY <1>1 DEF ReaderInv
<1>. QED
  BY <1>2, <1>3, <1>4, <1>5 DEF NetCatInv, BrokenInv

LEMMA RunInv ==
    ASSUME TypeInv, NetCatInv, ~MarkerText, Run
    PROVE  NetCatInv'
<1>1. /\ toDevice # <<>> /\ ~broken /\ toDevice' = Tail(toDevice)
      /\ UNCHANGED <<pc, bit, out, holder, broken>>
  BY DEF Run
<1>2. PICK t \in Threads : t = holder /\ pc[t] = "reading"
  BY <1>1 DEF NetCatInv, PipesEmpty, MutexInv, TypeInv
<1>3. Continues(t) /\ (Sent(t) \/ Ran(t))
  BY <1>1, <1>2 DEF NetCatInv, ReaderInv, Stages, Echoed, Swallowed
<1>4. /\ Call(t) \in Calls /\ Call(t)' = Call(t) /\ Call(t)[1] = t
      /\ toHost \in Seq(HostLine) /\ out[t] \in Seq(HostLine)
  BY <1>1, <1>2, CallType DEF Call, TypeInv, HostLine
<1>5. CASE Sent(t)
  <2>1. /\ Head(toDevice) = Command(Call(t))
        /\ toDevice' = <<Echo(Call(t))>>
        /\ Head(toDevice).call = Call(t) /\ ~Head(toDevice).echo
    <3>1. \A a, b : Head(<<a, b>>) = a /\ Tail(<<a, b>>) = <<b>>
      OBVIOUS
    <3>2. Head(toDevice) = Command(Call(t)) /\ toDevice' = <<Echo(Call(t))>>
      BY <1>1, <1>5, <3>1 DEF Sent
    <3>. QED
      BY <3>2 DEF Command
  <2>2. PICK n \in 0..MaxLines :
           /\ toHost' = toHost \o Printed(Call(t), n, {})
           /\ written' = [written EXCEPT ![t] = n]
    BY <1>4, <2>1 DEF Run, Printed
  <2>3. n \in Nat
    BY NetCatAssumption
  <2>4. /\ Printed(Call(t), n, {}) \in Seq(HostLine)
        /\ Len(Printed(Call(t), n, {})) = n
        /\ \A i \in 1..n : Printed(Call(t), n, {})[i] = Line(Call(t), i, FALSE)
    <3>1. \A i \in 1..n : Line(Call(t), i, i \in {}) = Line(Call(t), i, FALSE)
      <4>1. \A i : (i \in {}) = FALSE
        OBVIOUS
      <4>. QED
        BY <4>1
    <3>. QED
      BY <1>4, <2>3, <3>1, PrintedType
  <2>5. toHost' = Printed(Call(t), n, {})
    BY <1>5, <2>2, <2>4, ConcatEmptySeq DEF Sent
  <2>6. /\ Len(toHost') = n
        /\ \A i \in 1..n : toHost'[i] = Line(Call(t), i, FALSE)
    BY <2>4, <2>5
  <2>7. /\ written'[t] = n /\ out' = out /\ out[t] = <<>> /\ Len(out[t]) = 0
        /\ \A u \in Threads \ {t} : written'[u] = written[u]
    BY <1>1, <1>2, <1>5, <2>2, EmptySeq DEF Sent, TypeInv
  <2>8. Continues(t)'
    BY <1>4, <2>3, <2>6, <2>7 DEF Continues, Line
  <2>9. Ran(t)'
    BY <1>4, <2>1, <2>3, <2>6, <2>7 DEF Ran, Line
  <2>. QED
    BY <1>1, <1>2, <2>3, <2>7, <2>8, <2>9, DeviceInv DEF Stages
<1>6. CASE Ran(t)
  <2>1. /\ Head(toDevice) = Echo(Call(t))
        /\ toDevice' = <<>>
        /\ Head(toDevice).call = Call(t) /\ Head(toDevice).echo
    BY <1>1, <1>6 DEF Ran, Echo
  <2>2. /\ toHost' = Append(toHost, Line(Call(t), 0, TRUE))
        /\ written' = written
    BY <1>4, <2>1 DEF Run
  <2>3. Line(Call(t), 0, TRUE) \in HostLine
    BY <1>4 DEF Line, HostLine
  <2>4. /\ Len(toHost') = Len(toHost) + 1 /\ Len(toHost) \in Nat /\ toHost' # <<>>
        /\ \A i \in 1..Len(toHost) : toHost'[i] = toHost[i]
        /\ toHost'[Len(toHost) + 1] = Line(Call(t), 0, TRUE)
    <3>. DEFINE line == Line(Call(t), 0, TRUE)
    <3>1. line \in HostLine
      BY <2>3
    <3>. HIDE DEF line
    <3>2. /\ Len(Append(toHost, line)) = Len(toHost) + 1 /\ Append(toHost, line) # <<>>
          /\ \A i \in 1..Len(toHost) : Append(toHost, line)[i] = toHost[i]
          /\ Append(toHost, line)[Len(toHost) + 1] = line
      BY <1>4, <3>1, AppendProperties
    <3>3. toHost' = Append(toHost, line)
      BY <2>2 DEF line
    <3>4. Len(toHost) \in Nat
      BY <1>4, LenProperties
    <3>. QED
      BY <3>2, <3>3, <3>4 DEF line
  <2>5. /\ Len(out[t]) \in Nat /\ Len(out[t]) + Len(toHost) = written[t]
        /\ \A i \in 1..Len(toHost) : ~toHost[i].marker
    BY <1>4, <1>6, LenProperties DEF Ran
  <2>6. Continues(t)'
    <3>1. ASSUME NEW i \in 1..Len(toHost')
          PROVE  /\ toHost'[i].call = Call(t)
                 /\ IF toHost'[i].marker
                    THEN i = Len(toHost') /\ Len(out[t]) + i = written[t] + 1
                    ELSE toHost'[i].no = Len(out[t]) + i /\ Len(out[t]) + i <= written[t]
      <4>1. CASE i \in 1..Len(toHost)
        BY <1>3, <2>4, <2>5, <4>1 DEF Continues
      <4>2. CASE i = Len(toHost) + 1
        <5>1. toHost'[i] = [call |-> Call(t), no |-> 0, marker |-> TRUE]
          BY <2>4, <4>2 DEF Line
        <5>2. toHost'[i].call = Call(t) /\ toHost'[i].marker
          BY <5>1
        <5>3. i = Len(toHost') /\ Len(out[t]) + i = written[t] + 1
          <6>. DEFINE m == Len(toHost)
                      k == Len(out[t])
          <6>1. m \in Nat /\ k \in Nat /\ k + m = written[t] /\ i = m + 1
            BY <2>4, <2>5, <4>2
          <6>. HIDE DEF m, k
          <6>2. k + i = written[t] + 1
            BY <6>1
          <6>. QED
            BY <2>4, <4>2, <6>2 DEF m, k
        <5>. QED
          BY <5>2, <5>3
      <4>. QED
        BY <2>4, <4>1, <4>2
    <3>. QED
      BY <1>1, <1>4, <2>2, <3>1 DEF Continues
  <2>7. Echoed(t)'
    BY <1>1, <2>1, <2>4 DEF Echoed, Line
  <2>8. Len(out[t]) <= written'[t]
    BY <2>2, <2>4, <2>5
  <2>. QED
    BY <1>1, <1>2, <2>2, <2>6, <2>7, <2>8, DeviceInv DEF Stages
<1>. QED
  BY <1>3, <1>5, <1>6

LEMMA SwallowInv ==
    ASSUME TypeInv, NetCatInv, Swallow
    PROVE  NetCatInv'
<1>1. /\ toDevice # <<>> /\ ~broken /\ toDevice' = Tail(toDevice) /\ quoteOpen'
      /\ UNCHANGED <<pc, bit, out, written, holder, toHost, broken>>
  BY DEF Swallow
<1>2. PICK t \in Threads : t = holder /\ pc[t] = "reading"
  BY <1>1 DEF NetCatInv, PipesEmpty, MutexInv, TypeInv
<1>3. Continues(t) /\ (Sent(t) \/ Ran(t))
  BY <1>1, <1>2 DEF NetCatInv, ReaderInv, Stages, Echoed, Swallowed
<1>4. Call(t)' = Call(t) /\ Continues(t)'
  BY <1>1, <1>3 DEF Call, Continues
<1>5. CASE Sent(t)
  <2>1. toDevice' = <<Echo(Call(t))>>
    <3>1. \A a, b : Tail(<<a, b>>) = <<b>>
      OBVIOUS
    <3>. QED
      BY <1>1, <1>5, <3>1 DEF Sent
  <2>2. Ran(t)'
    BY <1>1, <1>4, <1>5, <2>1, EmptySeq DEF Sent, Ran
  <2>. QED
    BY <1>1, <1>2, <1>4, <2>2, DeviceInv DEF NetCatInv, OutputInv, Stages
<1>6. CASE Ran(t)
  <2>1. toDevice' = <<>>
    <3>1. \A a : Tail(<<a>>) = <<>>
      OBVIOUS
    <3>. QED
      BY <1>1, <1>6, <3>1 DEF Ran
  <2>2. Swallowed(t)'
    BY <1>1, <1>6, <2>1 DEF Ran, Swallowed
  <2>. QED
    BY <1>1, <1>2, <1>4, <2>2, DeviceInv DEF NetCatInv, OutputInv, Stages
<1>. QED
  BY <1>3, <1>5, <1>6

LEMMA BreakInv ==
    ASSUME TypeInv, NetCatInv, Break
    PROVE  NetCatInv'
<1>1. PICK n \in 0..Len(toHost) : toHost' = SubSeq(toHost, 1, n)
  BY DEF Break
<1>2. /\ broken' /\ toDevice' = <<>>
      /\ UNCHANGED <<pc, bit, out, written, holder>>
  BY DEF Break
<1>3. toHost \in Seq(HostLine)
  BY DEF TypeInv, HostLine
<1>4. /\ Len(toHost') = n /\ n <= Len(toHost)
      /\ \A i \in 1..n : toHost'[i] = toHost[i] /\ i \in 1..Len(toHost)
  BY <1>1, <1>3
<1>5. CASE \E t \in Threads : pc[t] = "reading"
  <2>1. PICK t \in Threads : pc[t] = "reading"
    BY <1>5
  <2>2. Continues(t)
    BY <2>1 DEF NetCatInv, ReaderInv
  <2>3. Continues(t)'
    <3>1. \A i \in 1..n : toHost[i].marker => i = Len(toHost')
      BY <1>4, <2>2 DEF Continues
    <3>. QED
      BY <1>2, <1>4, <2>2, <3>1 DEF Continues, Call
  <2>4. Len(out[t]) <= written'[t]
    BY <1>2 DEF NetCatInv, OutputInv
  <2>. QED
    BY <1>2, <2>1, <2>3, <2>4, DeviceInv DEF Stages
<1>6. CASE \A t \in Threads : pc[t] # "reading"
  <2>1. toHost = <<>>
    BY <1>6 DEF NetCatInv, PipesEmpty, MutexInv, TypeInv
  <2>2. toHost' = <<>>
    BY <1>1, <2>1
  <2>3. MutexInv' /\ UnsentInv' /\ OutputInv'
    BY <1>2 DEF NetCatInv, MutexInv, UnsentInv, OutputInv, Call
  <2>4. PipesEmpty' /\ ReaderInv'
    BY <1>2, <1>6, <2>2 DEF PipesEmpty, ReaderInv
  <2>. QED
    BY <1>2, <2>3, <2>4 DEF NetCatInv, BrokenInv
<1>. QED
  BY <1>5, <1>6

LEMMA InvStep == TypeInv /\ NetCatInv /\ ~MarkerText /\ [Next]_vars => NetCatInv'
<1>. SUFFICES ASSUME TypeInv, NetCatInv, ~MarkerText, [Next]_vars
              PROVE  NetCatInv'
  OBVIOUS
<1>1. CASE UNCHANGED vars
  <2>1. MutexInv' /\ UnsentInv' /\ OutputInv'
    BY <1>1 DEF vars, NetCatInv, MutexInv, UnsentInv, OutputInv, Call
  <2>2. PipesEmpty' /\ BrokenInv'
    BY <1>1 DEF vars, NetCatInv, PipesEmpty, BrokenInv
  <2>3. ReaderInv'
    <3>1. ASSUME NEW t \in Threads, pc[t] = "reading"
          PROVE  Continues(t)' /\ Stages(t)'
      BY <1>1, <3>1
      DEF vars, NetCatInv, ReaderInv, Continues, Stages, Sent, Ran, Echoed, Swallowed, Call
    <3>. QED
      BY <1>1, <3>1 DEF vars, ReaderInv
  <2>. QED
    BY <2>1, <2>2, <2>3 DEF NetCatInv
<1>. QED
  BY <1>1, EnterInv, LockInv, SendInv, ReadInv, ReadEofInv, RunInv, SwallowInv, BreakInv
  DEF Next, Step

-----------------------------------------------------------------------------
(* What the invariant gives.                                               *)

LEMMA InvCorrect ==
    ASSUME ~MarkerText
    PROVE  Spec => [](TypeInv /\ NetCatInv)
  BY TypeInit, TypeStep, InvInit, InvStep, PTL DEF Spec

\* While no output holds the end marker, every call of execCommandViaNetCat has read
\* the beginning of its own command's output and nothing else, and over a connection
\* that works it returns all of it, however many threads call it at once.
THEOREM OwnOutputCorrect ==
    ASSUME ~MarkerText
    PROVE  Spec => []OwnOutput
<1>1. NetCatInv => OwnOutput
  BY DEF NetCatInv, OutputInv, OwnOutput
<1>. QED
  BY <1>1, InvCorrect, PTL

\* While no output holds the end marker, a call that gets ncCmdMutex finds nothing of
\* an earlier one in the pipes, also after netcat has ended.
THEOREM PipesEmptyCorrect ==
    ASSUME ~MarkerText
    PROVE  Spec => []PipesEmpty
<1>1. NetCatInv => PipesEmpty
  BY DEF NetCatInv
<1>. QED
  BY <1>1, InvCorrect, PTL

\* While no output holds the end marker, an apostrophe in a path is the only thing that
\* makes a call wait in getline for a marker that cannot come: whatever other threads
\* do, while netcat runs and the shell waits for no quote the call's own marker is on
\* its way.
THEOREM MarkerComesCorrect ==
    ASSUME ~MarkerText
    PROVE  Spec => []MarkerComes
<1>1. TypeInv /\ NetCatInv => MarkerComes
  <2>. SUFFICES ASSUME TypeInv, NetCatInv, NEW t \in Threads,
                       pc[t] = "reading", ~broken, ~quoteOpen
                PROVE  \/ \E i \in 1..Len(toDevice) :
                             toDevice[i].echo /\ toDevice[i].call = Call(t)
                       \/ \E i \in 1..Len(toHost) :
                             toHost[i].marker /\ toHost[i].call = Call(t)
    BY DEF MarkerComes
  <2>1. Continues(t) /\ (Sent(t) \/ Ran(t) \/ Echoed(t))
    BY DEF NetCatInv, ReaderInv, Stages, Swallowed
  <2>2. CASE Sent(t)
    <3>1. Len(toDevice) = 2 /\ toDevice[2] = Echo(Call(t))
      BY <2>2 DEF Sent
    <3>. QED
      BY <3>1 DEF Echo
  <2>3. CASE Ran(t)
    <3>1. Len(toDevice) = 1 /\ toDevice[1] = Echo(Call(t))
      BY <2>3 DEF Ran
    <3>. QED
      BY <3>1 DEF Echo
  <2>4. CASE Echoed(t)
    <3>1. toHost \in Seq(HostLine)
      BY DEF TypeInv, HostLine
    <3>2. Len(toHost) \in 1..Len(toHost)
      BY <2>4, <3>1 DEF Echoed
    <3>. QED
      BY <2>1, <2>4, <3>2 DEF Echoed, Continues
  <2>. QED
    BY <2>1, <2>2, <2>3, <2>4
<1>. QED
  BY <1>1, InvCorrect, PTL

-----------------------------------------------------------------------------
(* NetCat implements RemoteShell.                                          *)

\* What the last call of t has returned, when t has none in progress.
Result(t) ==
    [lines   |-> [i \in 1..Len(out[t]) |-> <<out[t][i].call[1], out[t][i].no>>],
     written |-> written[t]]

Reply(t) == IF pc[t] # "idle" THEN None ELSE Result(t)

Asked == {t \in Threads : pc[t] # "idle"}

\* What a call has read are the first lines of its own command.
LEMMA FirstLines ==
    ASSUME TypeInv, NetCatInv, NEW t \in Threads
    PROVE  /\ Len(out[t]) \in 0..MaxLines /\ written[t] \in 0..MaxLines
           /\ Len(out[t]) <= written[t]
           /\ Result(t) = Shell!Lines(t, Len(out[t]), written[t])
<1>1. /\ out[t] \in Seq(HostLine) /\ written[t] \in 0..MaxLines /\ MaxLines \in Nat
  BY NetCatAssumption DEF TypeInv, HostLine
<1>2. Len(out[t]) \in Nat /\ Len(out[t]) <= written[t]
  BY <1>1, LenProperties DEF NetCatInv, OutputInv
<1>3. \A i \in 1..Len(out[t]) : <<out[t][i].call[1], out[t][i].no>> = <<t, i>>
  <2>1. \A i \in 1..Len(out[t]) : out[t][i].call = <<t, bit[t]>> /\ out[t][i].no = i
    BY DEF NetCatInv, OutputInv, Call
  <2>. QED
    BY <2>1
<1>4. Result(t) = Shell!Lines(t, Len(out[t]), written[t])
  BY <1>3 DEF Result, Shell!Lines
<1>. QED
  BY <1>1, <1>2, <1>4

LEMMA ShellInit == Init => Shell!Init
<1>. SUFFICES ASSUME Init PROVE Shell!Init
  OBVIOUS
<1>1. TypeInv /\ NetCatInv
  BY TypeInit, InvInit
<1>2. \A t \in Threads : pc[t] = "idle" /\ Len(out[t]) = 0 /\ written[t] = 0
  BY EmptySeq DEF Init
<1>3. \A t \in Threads : Result(t) = Shell!Lines(t, 0, 0)
  BY <1>1, <1>2, FirstLines
<1>. QED
  BY <1>2, <1>3 DEF Shell!Init, Result, Init

\* A step that starts no call and ends none.
LEMMA ShellStutter ==
    ASSUME UNCHANGED broken,
           \A t \in Threads : (pc'[t] = "idle") <=> (pc[t] = "idle"),
           \A t \in Threads : pc[t] = "idle" =>
               out'[t] = out[t] /\ written'[t] = written[t]
    PROVE  UNCHANGED Shell!vars
<1>1. Asked' = Asked
  BY DEF Asked
<1>2. \A t \in Threads : Reply(t)' = Reply(t)
  BY DEF Reply, Result
<1>3. [t \in Threads |-> Reply(t)]' = [t \in Threads |-> Reply(t)]
  BY <1>2
<1>. QED
  BY <1>1, <1>3 DEF Shell!vars, Asked, Reply, Result

LEMMA ShellAsk ==
    ASSUME TypeInv, NEW t \in Threads, Enter(t)
    PROVE  Shell!Ask(t)
<1>1. /\ pc[t] = "idle" /\ pc'[t] = "waiting" /\ broken' = broken
      /\ \A u \in Threads \ {t} :
            pc'[u] = pc[u] /\ out'[u] = out[u] /\ written'[u] = written[u]
  BY DEF Enter, TypeInv
<1>2. t \notin Asked /\ Asked' = Asked \cup {t}
  BY <1>1 DEF Asked
<1>3. \A u \in Threads : Reply(u)' = IF u = t THEN None ELSE Reply(u)
  BY <1>1 DEF Reply, Result
<1>4. [u \in Threads |-> Reply(u)]' = [[u \in Threads |-> Reply(u)] EXCEPT ![t] = None]
  BY <1>3
<1>. QED
  BY <1>1, <1>2, <1>4 DEF Shell!Ask, Asked, Reply, Result

LEMMA ShellReturn ==
    ASSUME TypeInv, NetCatInv, NetCatInv',
           NEW t \in Threads, pc[t] = "reading", Unlock(t),
           UNCHANGED <<out, written, broken>>
    PROVE  Shell!Return(t)
<1>1. /\ pc'[t] = "idle"
      /\ \A u \in Threads \ {t} : pc'[u] = pc[u]
  BY DEF Unlock, TypeInv
<1>2. t \in Asked /\ Asked' = Asked \ {t}
  BY <1>1 DEF Asked
<1>. DEFINE n == Len(out[t])
            m == written[t]
<1>3. \A u \in Threads : Reply(u)' = IF u = t THEN Shell!Lines(t, n, m) ELSE Reply(u)
  BY <1>1, FirstLines DEF Reply, Result
<1>4. [u \in Threads |-> Reply(u)]'
         = [[u \in Threads |-> Reply(u)] EXCEPT ![t] = Shell!Lines(t, n, m)]
  BY <1>3
<1>5. /\ n \in 0..MaxLines /\ m \in 0..MaxLines
      /\ IF broken THEN n <= m ELSE n = m
  BY <1>1, FirstLines DEF NetCatInv, OutputInv
<1>. QED
  BY <1>2, <1>4, <1>5 DEF Shell!Return, Asked, Reply, Result

LEMMA ShellStep ==
    TypeInv /\ NetCatInv /\ NetCatInv' /\ [Next]_vars => [Shell!Next]_Shell!vars
<1>. SUFFICES ASSUME TypeInv, NetCatInv, NetCatInv', [Next]_vars
              PROVE  [Shell!Next]_Shell!vars
  OBVIOUS
<1>1. ASSUME NEW t \in Threads, Enter(t)
      PROVE  Shell!Next
  BY <1>1, ShellAsk DEF Shell!Next
<1>2. ASSUME NEW t \in Threads, Lock(t) \/ Send(t)
      PROVE  UNCHANGED Shell!vars
  BY <1>2, ShellStutter DEF Lock, Send, TypeInv
<1>3. ASSUME NEW t \in Threads, Read(t) \/ ReadEof(t)
      PROVE  Shell!Next \/ UNCHANGED Shell!vars
  <2>1. CASE Unlock(t)
    <3>1. pc[t] = "reading" /\ pc'[t] = "idle" /\ UNCHANGED <<written, broken>>
      BY <1>3, <2>1 DEF Read, ReadEof, Unlock, TypeInv
    <3>2. UNCHANGED out
      BY <1>3, <3>1 DEF Read, ReadEof
    <3>. QED
      BY <2>1, <3>1, <3>2, ShellReturn DEF Shell!Next
  <2>2. CASE ~Unlock(t)
    <3>1. /\ pc[t] = "reading" /\ UNCHANGED <<pc, written, broken>>
          /\ \A u \in Threads \ {t} : out'[u] = out[u]
      BY <1>3, <2>2 DEF Read, ReadEof, TypeInv
    <3>. QED
      BY <3>1, ShellStutter
  <2>. QED
    BY <2>1, <2>2
<1>4. CASE Run
  <2>1. /\ UNCHANGED <<pc, out, broken>>
        /\ \A t \in Threads : pc[t] = "idle" => written'[t] = written[t]
    <3>1. PICK t \in Threads : pc[t] = "reading" /\ (Sent(t) \/ Ran(t))
      BY <1>4
      DEF Run, NetCatInv, PipesEmpty, MutexInv, ReaderInv, Stages, Echoed, Swallowed, TypeInv
    <3>2. Head(toDevice) \in {Command(Call(t)), Echo(Call(t))}
      <4>1. \A a, b : Head(<<a, b>>) = a /\ Head(<<a>>) = a
        OBVIOUS
      <4>. QED
        BY <3>1, <4>1 DEF Sent, Ran
    <3>3. Head(toDevice).call[1] = t
      BY <3>2 DEF Command, Echo, Call
    <3>4. written' = written \/ \E n : written' = [written EXCEPT ![t] = n]
      BY <1>4, <3>3 DEF Run
    <3>5. \A u \in Threads \ {t} : written'[u] = written[u]
      BY <3>4 DEF TypeInv
    <3>. QED
      BY <1>4, <3>1, <3>5 DEF Run
  <2>. QED
    BY <2>1, ShellStutter
<1>5. CASE Break
  <2>1. broken' /\ UNCHANGED <<pc, out, written>>
    BY <1>5 DEF Break
  <2>2. Shell!Break
    BY <2>1 DEF Shell!Break
  <2>. QED
    BY <2>2 DEF Shell!Next
<1>6. CASE Swallow \/ UNCHANGED vars
  BY <1>6, ShellStutter DEF Swallow, vars
<1>. QED
  BY <1>1, <1>2, <1>3, <1>4, <1>5, <1>6 DEF Next, Step

\* While no output holds the end marker, execCommandViaNetCat is the remote shell the
\* callbacks rely on: each of its steps is a call, a return of a call with the first
\* lines of its own command (all of them while the connection works), the end of the
\* connection, or nothing a caller sees.
THEOREM ShellImplemented ==
    ASSUME ~MarkerText
    PROVE  Spec => ImplementsShell
  BY InvCorrect, ShellInit, ShellStep, PTL DEF Spec, Shell!Spec, ImplementsShell
=============================================================================

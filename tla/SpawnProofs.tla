---------------------------- MODULE SpawnProofs ----------------------------
(***************************************************************************)
(* Proofs about Spawn, for every number of threads, descriptors and calls. *)
(***************************************************************************)
EXTENDS Spawn, WellFoundedInduction, TLAPS

-----------------------------------------------------------------------------
(* The inductive invariant.                                                *)

\* How long a call keeps each of its descriptors.
HoldsInR(t)  == caller[t].pc \in {"pipe", "fork", "forked"}
HoldsOutW(t) == caller[t].pc \in {"fork", "forked"}
HoldsInW(t)  ==
    \/ caller[t].pc \in {"pipe", "fork", "forked", "bufs", "read", "reading", "spin",
                         "eof"}
    \/ caller[t].pc \in {"wait", "delete", "close"} /\ ~caller[t].inBuf
HoldsOutR(t) ==
    \/ caller[t].pc \in {"fork", "forked", "bufs", "read", "reading", "spin", "eof",
                         "wait", "delete"}
    \/ caller[t].pc = "close" /\ ~caller[t].outBuf

\* A call in progress has the numbers it got for its pipes, and a call of its own.
CallInv ==
    /\ \A t \in Callers : InCall(t) =>
          /\ caller[t].call \in 1..calls
          /\ caller[t].inR \in Fds /\ caller[t].inW \in Fds
          /\ IF caller[t].pc = "pipe"
             THEN caller[t].outR = None /\ caller[t].outW = None
             ELSE caller[t].outR \in Fds /\ caller[t].outW \in Fds
    /\ \A t, u \in Callers :
          InCall(t) /\ InCall(u) /\ caller[t].call = caller[u].call => t = u

TypeInv == TypeOK /\ CallInv

\* An end of a pipe is open only under the number the pipe was made with, and only
\* until the call gives that number back.
OwnedInv ==
    \A n \in Fds, c \in Calls :
        /\ fd[n] = InR(c) => \E t \in Callers :
              HoldsInR(t) /\ caller[t].call = c /\ caller[t].inR = n
        /\ fd[n] = InW(c) => \E t \in Callers :
              HoldsInW(t) /\ caller[t].call = c /\ caller[t].inW = n
        /\ fd[n] = OutR(c) => \E t \in Callers :
              HoldsOutR(t) /\ caller[t].call = c /\ caller[t].outR = n
        /\ fd[n] = OutW(c) => \E t \in Callers :
              HoldsOutW(t) /\ caller[t].call = c /\ caller[t].outW = n

\* A file that nothing could close when it was opened has a number that is neither
\* one of a call in progress nor that of another file.
IntactInv ==
    \A t \in intact :
        /\ file[t] \in Fds /\ fd[file[t]] = FileOf(t)
        /\ \A u \in Callers : InCall(u) => file[t] \notin Numbers(u)
        /\ \A u \in Callers \ {t} : file[u] # file[t]

\* Nothing is known yet of a call that has not been made.
FreshInv ==
    \A c \in Calls : c > calls =>
        /\ child[c] = NoChild /\ piped[c] = {}
        /\ \A t \in Callers : caller[t].obj # OutR(c)
        /\ \A b \in Calls : child[b].stdout # OutW(c)

\* The numbers a call has not given back.
Live(t) == {n \in Fds : \/ HoldsInR(t) /\ n = caller[t].inR
                        \/ HoldsInW(t) /\ n = caller[t].inW
                        \/ HoldsOutR(t) /\ n = caller[t].outR
                        \/ HoldsOutW(t) /\ n = caller[t].outW}

\* They are open on the ends of its pipes, and nobody else will close them.
KeptInv(t) ==
    /\ HoldsInR(t) => fd[caller[t].inR] = InR(caller[t].call)
    /\ HoldsInW(t) => fd[caller[t].inW] = InW(caller[t].call)
    /\ HoldsOutR(t) => fd[caller[t].outR] = OutR(caller[t].call)
    /\ HoldsOutW(t) => fd[caller[t].outW] = OutW(caller[t].call)
    /\ \A u \in Callers \ {t} :
          InCall(u) => Numbers(u) \cap Live(t) = {} /\ ~caller[u].sound
    /\ \A u \in Callers : file[u] \notin Live(t)

\* Its output pipe is read by it alone and written by its program alone.
PrivateInv(t) ==
    /\ \A u \in Callers \ {t} : caller[u].obj # OutR(caller[t].call)
    /\ \A b \in Calls \ {caller[t].call} : child[b].stdout # OutW(caller[t].call)

\* Where the output of its program is; and its buffers are open.
OutputInv(t) ==
    LET c == caller[t].call
    IN  /\ caller[t].pc \in {"pipe", "fork"} =>
              child[c] = NoChild /\ piped[c] = {} /\ caller[t].got = {}
        /\ caller[t].pc \in {"forked", "bufs", "read", "reading"} =>
              \/ /\ child[c].alive /\ child[c].stdout = OutW(c)
                 /\ piped[c] = {} /\ caller[t].got = {}
              \/ ~child[c].alive /\ piped[c] = {c} /\ caller[t].got = {}
              \/ ~child[c].alive /\ piped[c] = {} /\ caller[t].got = {c}
        /\ caller[t].pc = "reading" => caller[t].obj = OutR(c)
        /\ caller[t].pc \in {"eof", "wait", "delete", "close", "done"} =>
              caller[t].got = {c}
        /\ caller[t].pc \in {"read", "reading", "eof", "wait", "delete", "close"} =>
              caller[t].inBuf /\ caller[t].outBuf
        /\ caller[t].pc # "spin"

SoundAt(t) ==
    caller[t].sound =>
    /\ InCall(t) => KeptInv(t) /\ PrivateInv(t)
    /\ InCall(t) \/ caller[t].pc = "done" => OutputInv(t)

SoundInv == \A t \in Callers : SoundAt(t)

-----------------------------------------------------------------------------
(* Descriptors, and what they are open on.                                 *)

\* The system gives out the lowest number that is free.
LEMMA LowestIn ==
    ASSUME NEW S \in SUBSET Nat, S # {}
    PROVE  Lowest(S) \in S
<1>. DEFINE R == OpToRel(<, Nat)
<1>1. IsWellFoundedOn(R, Nat)
  BY NatLessThanWellFounded
<1>2. \A x, y \in Nat : <<y, x>> \in R <=> y < x
  BY DEF OpToRel
<1>. HIDE DEF R
<1>3. \E x \in S : \A y \in S : ~ (<<y, x>> \in R)
  BY <1>1, WFMin
<1>4. PICK x \in S : \A y \in S : ~ (<<y, x>> \in R)
  BY <1>3
<1>5. \A y \in S : x \in Nat /\ y \in Nat /\ ~ (y < x)
  BY <1>2, <1>4
<1>6. \A y \in S : x <= y
  BY <1>5
<1>. QED
  BY <1>6 DEF Lowest

\* pipe makes two descriptors out of numbers that were free.
LEMMA PipeNumbers ==
    ASSUME CanPipe, NEW r, r = Lowest(Free), NEW w, w = Lowest(Free \ {r})
    PROVE  /\ r \in Fds /\ w \in Fds /\ r # w
           /\ fd[r] = None /\ fd[w] = None
<1>1. Free \in SUBSET Nat
  BY SpawnAssumption DEF Free, Fds
<1>2. PICK m \in Free : \E n \in Free : m # n
  BY DEF CanPipe
<1>3. r \in Free
  BY <1>1, <1>2, LowestIn
<1>4. Free \ {r} \in SUBSET Nat /\ Free \ {r} # {}
  <2>1. PICK n \in Free : m # n
    BY <1>2
  <2>2. m \in Free \ {r} \/ n \in Free \ {r}
    BY <2>1
  <2>. QED
    BY <1>1, <2>2
<1>5. w \in Free \ {r}
  BY <1>4, LowestIn
<1>. QED
  BY <1>3, <1>5 DEF Free

LEMMA EndsDiffer ==
    /\ \A c, b \in Calls :
          /\ InR(c) = InR(b) <=> c = b
          /\ InW(c) = InW(b) <=> c = b
          /\ OutR(c) = OutR(b) <=> c = b
          /\ OutW(c) = OutW(b) <=> c = b
          /\ InR(c) # InW(b) /\ InR(c) # OutR(b) /\ InR(c) # OutW(b)
          /\ InW(c) # OutR(b) /\ InW(c) # OutW(b) /\ OutR(c) # OutW(b)
    /\ \A c \in Calls, t \in Callers :
          /\ FileOf(t) # InR(c) /\ FileOf(t) # InW(c)
          /\ FileOf(t) # OutR(c) /\ FileOf(t) # OutW(c)
    /\ \A c \in Calls :
          /\ None # InR(c) /\ None # InW(c) /\ None # OutR(c) /\ None # OutW(c)
    /\ \A t \in Callers : FileOf(t) # None
    /\ \A t, u \in Callers : FileOf(t) = FileOf(u) <=> t = u
<1>1. \A c, b \in Calls :
          /\ InR(c) = InR(b) <=> c = b
          /\ InW(c) = InW(b) <=> c = b
          /\ OutR(c) = OutR(b) <=> c = b
          /\ OutW(c) = OutW(b) <=> c = b
  BY DEF InR, InW, OutR, OutW
<1>2. \A c, b \in Calls :
          /\ InR(c) # InW(b) /\ InR(c) # OutR(b) /\ InR(c) # OutW(b)
          /\ InW(c) # OutR(b) /\ InW(c) # OutW(b) /\ OutR(c) # OutW(b)
  BY DEF InR, InW, OutR, OutW
<1>3. \A c \in Calls, t \in Callers :
          /\ FileOf(t) # InR(c) /\ FileOf(t) # InW(c)
          /\ FileOf(t) # OutR(c) /\ FileOf(t) # OutW(c)
  BY DEF InR, InW, OutR, OutW, FileOf
<1>4. \A t, u \in Callers : FileOf(t) = FileOf(u) <=> t = u
  BY DEF FileOf
<1>. QED
  BY <1>1, <1>2, <1>3, <1>4, SpawnAssumption

LEMMA EndParts ==
    ASSUME NEW c
    PROVE  /\ InR(c)[3] = c /\ InW(c)[3] = c /\ OutR(c)[3] = c /\ OutW(c)[3] = c
           /\ InR(c)[1] # "out" /\ OutR(c)[1] = "out"
           /\ <<OutR(c)[1], "w", OutR(c)[3]>> = OutW(c)
  BY DEF InR, InW, OutR, OutW

LEMMA ObjectsIn ==
    /\ \A c \in Calls : /\ InR(c) \in Objects /\ InW(c) \in Objects
                        /\ OutR(c) \in Objects /\ OutW(c) \in Objects
    /\ \A t \in Callers : FileOf(t) \in Objects
    /\ None \in Objects
    /\ WriteEnds \subseteq Objects
  BY DEF Objects, Ends, WriteEnds

LEMMA ClosedType ==
    ASSUME fd \in [Fds -> Objects], NEW N
    PROVE  /\ Closed(N) \in [Fds -> Objects]
           /\ \A n \in Fds : Closed(N)[n] = IF n \in N THEN None ELSE fd[n]
  BY ObjectsIn DEF Closed

-----------------------------------------------------------------------------
(* What the steps do to the state of a thread.                             *)

PcSet == {"idle", "pipe", "fork", "forked", "bufs", "read", "reading", "spin", "eof",
          "wait", "delete", "close", "done", "failed"}

\* Thread t goes on in its call.
Moves(t, pc) ==
    /\ caller' \in [Callers -> CallerState]
    /\ caller'[t].pc = pc
    /\ caller'[t].call = caller[t].call /\ caller'[t].sound = caller[t].sound
    /\ caller'[t].inR = caller[t].inR /\ caller'[t].inW = caller[t].inW
    /\ caller'[t].outR = caller[t].outR /\ caller'[t].outW = caller[t].outW
    /\ \A u \in Callers \ {t} : caller'[u] = caller[u]

SameBufs(t) ==
    caller'[t].inBuf = caller[t].inBuf /\ caller'[t].outBuf = caller[t].outBuf

LEMMA PcStep ==
    ASSUME caller \in [Callers -> CallerState], NEW t \in Callers, NEW pc \in PcSet,
           caller' = [caller EXCEPT ![t].pc = pc]
    PROVE  /\ Moves(t, pc) /\ SameBufs(t)
           /\ caller'[t].obj = caller[t].obj /\ caller'[t].got = caller[t].got
<1>. DEFINE r == [caller[t] EXCEPT !.pc = pc]
<1>1. caller[t] \in CallerState
  OBVIOUS
<1>2. r \in CallerState
  BY <1>1 DEF CallerState, PcSet
<1>3. /\ r.pc = pc /\ r.call = caller[t].call /\ r.sound = caller[t].sound
      /\ r.inR = caller[t].inR /\ r.inW = caller[t].inW
      /\ r.outR = caller[t].outR /\ r.outW = caller[t].outW
      /\ r.obj = caller[t].obj /\ r.got = caller[t].got
      /\ r.inBuf = caller[t].inBuf /\ r.outBuf = caller[t].outBuf
  BY <1>1 DEF CallerState
<1>4. caller' = [caller EXCEPT ![t] = r]
  OBVIOUS
<1>. HIDE DEF r
<1>5. caller'[t] = r /\ \A u \in Callers \ {t} : caller'[u] = caller[u]
  BY <1>4
<1>6. caller' \in [Callers -> CallerState]
  BY <1>2, <1>4
<1>. QED
  BY <1>3, <1>5, <1>6 DEF Moves, SameBufs

\* Thread t leaves its call.
LEMMA OverStep ==
    ASSUME caller \in [Callers -> CallerState], NEW t \in Callers,
           NEW pc \in {"done", "failed"}, caller' = [caller EXCEPT ![t] = Over(t, pc)]
    PROVE  /\ caller' \in [Callers -> CallerState]
           /\ caller'[t].pc = pc /\ caller'[t].call = caller[t].call
           /\ caller'[t].sound = caller[t].sound /\ caller'[t].got = caller[t].got
           /\ caller'[t].obj = None
           /\ \A u \in Callers \ {t} : caller'[u] = caller[u]
<1>. DEFINE r == Over(t, pc)
<1>1. caller[t] \in CallerState
  OBVIOUS
<1>2. /\ caller[t].call \in {0} \cup Calls /\ caller[t].got \in SUBSET ({0} \cup Calls)
      /\ caller[t].sound \in BOOLEAN
  BY <1>1 DEF CallerState
<1>3. /\ r.pc = pc /\ r.call = caller[t].call /\ r.sound = caller[t].sound
      /\ r.got = caller[t].got /\ r.obj = None
  BY DEF Over, Idle
<1>4. r \in CallerState
  BY <1>2, ObjectsIn DEF Over, Idle, CallerState
<1>. HIDE DEF r
<1>5. caller'[t] = r /\ \A u \in Callers \ {t} : caller'[u] = caller[u]
  BY DEF r
<1>6. caller' \in [Callers -> CallerState]
  BY <1>4 DEF r
<1>. QED
  BY <1>3, <1>5, <1>6

\* The first pipe of a new call.
LEMMA WritePipeMade ==
    ASSUME TypeInv, NEW t \in Callers, MakeWritePipe(t), CanPipe
    PROVE  /\ calls' \in Calls /\ calls' = calls + 1
           /\ fd' \in [Fds -> Objects] /\ caller' \in [Callers -> CallerState]
           /\ \E r, w \in Fds :
                 /\ r # w /\ fd[r] = None /\ fd[w] = None
                 /\ \A n \in Fds : fd'[n] = IF n = r THEN InR(calls')
                                           ELSE IF n = w THEN InW(calls') ELSE fd[n]
                 /\ caller'[t].inR = r /\ caller'[t].inW = w
           /\ caller'[t].pc = "pipe" /\ caller'[t].call = calls'
           /\ caller'[t].outR = None /\ caller'[t].outW = None
           /\ caller'[t].obj = None /\ caller'[t].got = {}
           /\ caller'[t].sound = Sound(Callers)
           /\ \A u \in Callers \ {t} : caller'[u] = caller[u]
<1>1. calls' \in Calls /\ calls' = calls + 1
  BY SpawnAssumption DEF MakeWritePipe, TypeInv, TypeOK, Calls
<1>. DEFINE r == Lowest(Free)
            w == Lowest(Free \ {r})
            q == [Idle EXCEPT !.pc = "pipe", !.call = calls', !.sound = Sound(Callers),
                              !.inR = r, !.inW = w]
<1>2. /\ fd' = Piped(r, w, InR(calls'), InW(calls'))
      /\ caller' = [caller EXCEPT ![t] = q]
  BY DEF MakeWritePipe
<1>3. r \in Fds /\ w \in Fds /\ r # w /\ fd[r] = None /\ fd[w] = None
  BY PipeNumbers
<1>. HIDE DEF r, w
<1>4. /\ fd' \in [Fds -> Objects]
      /\ \A n \in Fds : fd'[n] = IF n = r THEN InR(calls')
                                ELSE IF n = w THEN InW(calls') ELSE fd[n]
  BY <1>1, <1>2, <1>3, ObjectsIn DEF Piped, TypeInv, TypeOK
<1>5. /\ q.pc = "pipe" /\ q.call = calls' /\ q.inR = r /\ q.inW = w
      /\ q.outR = None /\ q.outW = None /\ q.obj = None /\ q.got = {}
      /\ q.sound = Sound(Callers)
  BY DEF Idle
<1>6. Sound(Callers) \in BOOLEAN
  BY DEF Sound
<1>7. q \in CallerState
  BY <1>1, <1>3, <1>6, ObjectsIn DEF Idle, CallerState
<1>. HIDE DEF q
<1>8. /\ caller' \in [Callers -> CallerState] /\ caller'[t] = q
      /\ \A u \in Callers \ {t} : caller'[u] = caller[u]
  BY <1>2, <1>7 DEF TypeInv, TypeOK
<1>. QED
  BY <1>1, <1>3, <1>4, <1>5, <1>8

\* The first pipe cannot be made.
LEMMA WritePipeFailed ==
    ASSUME TypeInv, NEW t \in Callers, MakeWritePipe(t), ~CanPipe
    PROVE  /\ caller'[t].pc = "failed" /\ caller'[t].obj = None
           /\ \A u \in Callers \ {t} : caller'[u] = caller[u]
<1>. DEFINE r == [Idle EXCEPT !.pc = "failed", !.call = calls']
<1>1. caller' = [caller EXCEPT ![t] = r] /\ caller \in [Callers -> CallerState]
  BY DEF MakeWritePipe, TypeInv, TypeOK
<1>2. r.pc = "failed" /\ r.obj = None
  BY DEF Idle
<1>. HIDE DEF r
<1>3. caller'[t] = r /\ \A u \in Callers \ {t} : caller'[u] = caller[u]
  BY <1>1
<1>. QED
  BY <1>2, <1>3

\* The second one.
LEMMA ReadPipeMade ==
    ASSUME TypeInv, NEW t \in Callers, MakeReadPipe(t), CanPipe
    PROVE  /\ caller[t].pc = "pipe" /\ fd' \in [Fds -> Objects]
           /\ caller' \in [Callers -> CallerState]
           /\ \E r, w \in Fds :
                 /\ r # w /\ fd[r] = None /\ fd[w] = None
                 /\ \A n \in Fds : fd'[n] = IF n = r THEN OutR(caller[t].call)
                              ELSE IF n = w THEN OutW(caller[t].call) ELSE fd[n]
                 /\ caller'[t].outR = r /\ caller'[t].outW = w
           /\ caller'[t].pc = "fork" /\ caller'[t].call = caller[t].call
           /\ caller'[t].inR = caller[t].inR /\ caller'[t].inW = caller[t].inW
           /\ caller'[t].obj = caller[t].obj /\ caller'[t].got = caller[t].got
           /\ caller'[t].sound = (caller[t].sound /\ Sound(Callers \ {t}))
           /\ \A u \in Callers \ {t} : caller'[u] = caller[u]
<1>. DEFINE r == Lowest(Free)
            w == Lowest(Free \ {r})
            b == caller[t].sound /\ Sound(Callers \ {t})
            q == [caller[t] EXCEPT !.pc = "fork", !.outR = r, !.outW = w, !.sound = b]
<1>1. /\ fd' = Piped(r, w, OutR(caller[t].call), OutW(caller[t].call))
      /\ caller' = [caller EXCEPT ![t] = q]
      /\ caller[t].pc = "pipe"
  BY DEF MakeReadPipe, MadeReadPipe
<1>2. caller[t] \in CallerState /\ caller[t].call \in Calls
  BY <1>1, SpawnAssumption DEF TypeInv, TypeOK, CallInv, InCall, Calls
<1>3. r \in Fds /\ w \in Fds /\ r # w /\ fd[r] = None /\ fd[w] = None
  BY PipeNumbers
<1>4. b \in BOOLEAN
  BY <1>2 DEF Sound, CallerState
<1>. HIDE DEF r, w, b
<1>5. /\ fd' \in [Fds -> Objects]
      /\ \A n \in Fds : fd'[n] = IF n = r THEN OutR(caller[t].call)
                         ELSE IF n = w THEN OutW(caller[t].call) ELSE fd[n]
  BY <1>1, <1>2, <1>3, ObjectsIn DEF Piped, TypeInv, TypeOK
<1>6. q \in CallerState
  BY <1>2, <1>3, <1>4 DEF CallerState
<1>7. /\ q.pc = "fork" /\ q.call = caller[t].call /\ q.sound = b
      /\ q.inR = caller[t].inR /\ q.inW = caller[t].inW /\ q.outR = r /\ q.outW = w
      /\ q.obj = caller[t].obj /\ q.got = caller[t].got
  BY <1>2 DEF CallerState
<1>. HIDE DEF q
<1>8. /\ caller' \in [Callers -> CallerState] /\ caller'[t] = q
      /\ \A u \in Callers \ {t} : caller'[u] = caller[u]
  BY <1>1, <1>6 DEF TypeInv, TypeOK
<1>. QED
  BY <1>1, <1>3, <1>5, <1>7, <1>8 DEF b

\* A call is over: it closes all its numbers, whatever they are by now.
Leaves(t) ==
    /\ InCall(t)
    /\ fd' \in [Fds -> Objects]
    /\ \A n \in Fds : fd'[n] = IF n \in Numbers(t) THEN None ELSE fd[n]
    /\ caller' \in [Callers -> CallerState]
    /\ \/ caller'[t].pc = "failed"
       \/ caller'[t].pc = "done" /\ caller[t].pc = "close"
    /\ caller'[t].call = caller[t].call /\ caller'[t].sound = caller[t].sound
    /\ caller'[t].got = caller[t].got /\ caller'[t].obj = None
    /\ \A u \in Callers \ {t} : caller'[u] = caller[u]
    /\ UNCHANGED <<child, piped, file, calls, intact>>

LEMMA LeavesSteps ==
    ASSUME TypeInv, NEW t \in Callers,
           \/ MakeReadPipe(t) /\ ~CanPipe
           \/ /\ Fork(t) /\ fd' = Closed(Numbers(t))
              /\ caller' = [caller EXCEPT ![t] = Over(t, "failed")]
              /\ UNCHANGED child
           \/ ClosePipes(t)
    PROVE  Leaves(t)
<1>1. fd \in [Fds -> Objects] /\ caller \in [Callers -> CallerState]
  BY DEF TypeInv, TypeOK
<1>2. CASE MakeReadPipe(t) /\ ~CanPipe
  <2>1. /\ caller[t].pc = "pipe"
        /\ fd' = Closed({caller[t].inR, caller[t].inW})
        /\ caller' = [caller EXCEPT ![t] = Over(t, "failed")]
        /\ UNCHANGED <<child, piped, file, calls, intact>>
    BY <1>2 DEF MakeReadPipe
  <2>2. InCall(t) /\ caller[t].outR = None /\ caller[t].outW = None
    BY <2>1 DEF InCall, TypeInv, CallInv
  <2>3. \A n \in Fds : n \in {caller[t].inR, caller[t].inW} <=> n \in Numbers(t)
    BY <2>2, SpawnAssumption DEF Numbers, Fds
  <2>4. /\ fd' \in [Fds -> Objects]
        /\ \A n \in Fds : fd'[n] = IF n \in Numbers(t) THEN None ELSE fd[n]
    BY <1>1, <2>1, <2>3, ClosedType
  <2>. QED
    BY <1>1, <2>1, <2>2, <2>4, OverStep DEF Leaves
<1>3. CASE /\ Fork(t) /\ fd' = Closed(Numbers(t))
           /\ caller' = [caller EXCEPT ![t] = Over(t, "failed")]
           /\ UNCHANGED child
  <2>1. InCall(t) /\ UNCHANGED <<child, piped, file, calls, intact>>
    BY <1>3 DEF Fork, InCall
  <2>2. /\ fd' \in [Fds -> Objects]
        /\ \A n \in Fds : fd'[n] = IF n \in Numbers(t) THEN None ELSE fd[n]
    BY <1>1, <1>3, ClosedType
  <2>. QED
    BY <1>1, <1>3, <2>1, <2>2, OverStep DEF Leaves
<1>4. CASE ClosePipes(t)
  <2>1. /\ InCall(t) /\ caller[t].pc = "close" /\ fd' = Closed(Numbers(t))
        /\ caller' = [caller EXCEPT ![t] = Over(t, "done")]
        /\ UNCHANGED <<child, piped, file, calls, intact>>
    BY <1>4 DEF ClosePipes, InCall
  <2>2. /\ fd' \in [Fds -> Objects]
        /\ \A n \in Fds : fd'[n] = IF n \in Numbers(t) THEN None ELSE fd[n]
    BY <1>1, <2>1, ClosedType
  <2>. QED
    BY <1>1, <2>1, <2>2, OverStep DEF Leaves
<1>. QED
  BY <1>2, <1>3, <1>4

\* A call gives back the numbers that it needs no more.
Closes(t, pc) ==
    /\ \/ caller[t].pc = "forked" /\ pc = "bufs"
       \/ caller[t].pc = "eof" /\ pc = "wait"
       \/ caller[t].pc = "wait" /\ pc = "delete"
       \/ caller[t].pc = "delete" /\ pc = "close"
    /\ fd' \in [Fds -> Objects]
    /\ \A n \in Fds : fd'[n] =
          IF \/ pc = "bufs" /\ (n = caller[t].inR \/ n = caller[t].outW)
             \/ pc = "wait" /\ n = caller[t].inW /\ caller[t].inBuf
             \/ pc = "close" /\ n = caller[t].outR /\ caller[t].outBuf
          THEN None ELSE fd[n]
    /\ Moves(t, pc) /\ SameBufs(t)
    /\ caller'[t].obj = caller[t].obj /\ caller'[t].got = caller[t].got
    /\ UNCHANGED <<child, piped, file, calls, intact>>

LEMMA ClosesSteps ==
    ASSUME TypeInv, NEW t \in Callers,
           CloseChildsEnds(t) \/ SendEof(t) \/ Wait(t) \/ DeleteBufs(t)
    PROVE  \E pc \in {"bufs", "wait", "delete", "close"} : Closes(t, pc)
<1>1. fd \in [Fds -> Objects] /\ caller \in [Callers -> CallerState]
  BY DEF TypeInv, TypeOK
<1>2. CASE CloseChildsEnds(t)
  <2>1. /\ caller[t].pc = "forked" /\ fd' = Closed({caller[t].inR, caller[t].outW})
        /\ caller' = [caller EXCEPT ![t].pc = "bufs"]
        /\ UNCHANGED <<child, piped, file, calls, intact>>
    BY <1>2 DEF CloseChildsEnds
  <2>2. /\ Moves(t, "bufs") /\ SameBufs(t)
        /\ caller'[t].obj = caller[t].obj /\ caller'[t].got = caller[t].got
    BY <1>1, <2>1, PcStep DEF PcSet
  <2>3. /\ fd' \in [Fds -> Objects]
        /\ \A n \in Fds : fd'[n] = IF n = caller[t].inR \/ n = caller[t].outW
                                  THEN None ELSE fd[n]
    BY <1>1, <2>1, ClosedType
  <2>4. Closes(t, "bufs")
    BY <2>1, <2>2, <2>3 DEF Closes
  <2>. QED
    BY <2>4
<1>3. CASE SendEof(t)
  <2>1. /\ caller[t].pc = "eof"
        /\ fd' = Closed(IF caller[t].inBuf THEN {caller[t].inW} ELSE {})
        /\ caller' = [caller EXCEPT ![t].pc = "wait"]
        /\ UNCHANGED <<child, piped, file, calls, intact>>
    BY <1>3 DEF SendEof
  <2>2. /\ Moves(t, "wait") /\ SameBufs(t)
        /\ caller'[t].obj = caller[t].obj /\ caller'[t].got = caller[t].got
    BY <1>1, <2>1, PcStep DEF PcSet
  <2>3. /\ fd' \in [Fds -> Objects]
        /\ \A n \in Fds : fd'[n] = IF n = caller[t].inW /\ caller[t].inBuf
                                  THEN None ELSE fd[n]
    BY <1>1, <2>1, ClosedType
  <2>4. Closes(t, "wait")
    BY <2>1, <2>2, <2>3 DEF Closes
  <2>. QED
    BY <2>4
<1>4. CASE Wait(t)
  <2>1. /\ caller[t].pc = "wait"
        /\ caller' = [caller EXCEPT ![t].pc = "delete"]
        /\ UNCHANGED <<fd, child, piped, file, calls, intact>>
    BY <1>4 DEF Wait
  <2>. QED
    BY <1>1, <2>1, PcStep DEF PcSet, Closes
<1>5. CASE DeleteBufs(t)
  <2>1. /\ caller[t].pc = "delete"
        /\ fd' = Closed(IF caller[t].outBuf THEN {caller[t].outR} ELSE {})
        /\ caller' = [caller EXCEPT ![t].pc = "close"]
        /\ UNCHANGED <<child, piped, file, calls, intact>>
    BY <1>5 DEF DeleteBufs
  <2>2. /\ Moves(t, "close") /\ SameBufs(t)
        /\ caller'[t].obj = caller[t].obj /\ caller'[t].got = caller[t].got
    BY <1>1, <2>1, PcStep DEF PcSet
  <2>3. /\ fd' \in [Fds -> Objects]
        /\ \A n \in Fds : fd'[n] = IF n = caller[t].outR /\ caller[t].outBuf
                                  THEN None ELSE fd[n]
    BY <1>1, <2>1, ClosedType
  <2>4. Closes(t, "close")
    BY <2>1, <2>2, <2>3 DEF Closes
  <2>. QED
    BY <2>4
<1>. QED
  BY <1>2, <1>3, <1>4, <1>5

\* The program is started.
Forks(t) ==
    /\ caller[t].pc = "fork" /\ Moves(t, "forked")
    /\ caller'[t].obj = caller[t].obj /\ caller'[t].got = caller[t].got
    /\ child' = [child EXCEPT ![caller[t].call] =
          [alive |-> TRUE, stdout |-> fd[caller[t].outW],
           keeps |-> {fd[n] : n \in Fds \ Numbers(t)} \cap WriteEnds]]
    /\ UNCHANGED <<fd, piped, file, calls, intact>>

LEMMA ForkSteps ==
    ASSUME TypeInv, NEW t \in Callers, Fork(t)
    PROVE  Forks(t) \/ Leaves(t)
<1>1. caller \in [Callers -> CallerState] /\ caller[t].pc = "fork"
      /\ UNCHANGED <<piped, file, calls, intact>>
  BY DEF TypeInv, TypeOK, Fork
<1>2. CASE /\ child' = [child EXCEPT ![caller[t].call] =
                [alive |-> TRUE, stdout |-> fd[caller[t].outW],
                 keeps |-> {fd[n] : n \in Fds \ Numbers(t)} \cap WriteEnds]]
           /\ caller' = [caller EXCEPT ![t].pc = "forked"]
           /\ UNCHANGED fd
  BY <1>1, <1>2, PcStep DEF PcSet, Forks
<1>3. CASE /\ fd' = Closed(Numbers(t))
           /\ caller' = [caller EXCEPT ![t] = Over(t, "failed")]
           /\ UNCHANGED child
  BY <1>3, LeavesSteps
<1>. QED
  BY <1>2, <1>3 DEF Fork

-----------------------------------------------------------------------------
(* Type correctness.                                                       *)

LEMMA InitTyped == Init => TypeInv
<1>. SUFFICES ASSUME Init PROVE TypeInv
  OBVIOUS
<1>1. Idle \in CallerState
  BY ObjectsIn DEF Idle, CallerState
<1>2. TypeOK
  BY <1>1, ObjectsIn, SpawnAssumption DEF Init, TypeOK, NoChild
<1>3. CallInv
  BY DEF Init, CallInv, InCall, Idle
<1>. QED
  BY <1>2, <1>3 DEF TypeInv

\* In a step of a call its numbers stay.
LEMMA CallKept ==
    ASSUME TypeInv, NEW t \in Callers, UNCHANGED calls,
           \A u \in Callers \ {t} : caller'[u] = caller[u],
           InCall(t)' =>
               /\ InCall(t) /\ caller[t].pc # "pipe" /\ caller'[t].pc # "pipe"
               /\ caller'[t].call = caller[t].call
               /\ caller'[t].inR = caller[t].inR /\ caller'[t].inW = caller[t].inW
               /\ caller'[t].outR = caller[t].outR /\ caller'[t].outW = caller[t].outW
    PROVE  CallInv'
<1>1. ASSUME NEW u \in Callers, InCall(u)'
      PROVE  /\ InCall(u) /\ caller'[u].call = caller[u].call
             /\ caller'[u].inR = caller[u].inR /\ caller'[u].inW = caller[u].inW
             /\ caller'[u].outR = caller[u].outR /\ caller'[u].outW = caller[u].outW
             /\ caller'[u].pc = "pipe" <=> caller[u].pc = "pipe"
  <2>1. CASE u = t
    BY <1>1, <2>1
  <2>2. CASE u # t
    BY <1>1, <2>2 DEF InCall
  <2>. QED
    BY <2>1, <2>2
<1>. QED
  BY <1>1 DEF TypeInv, CallInv

LEMMA WritePipeTyped ==
    ASSUME TypeInv, NEW t \in Callers, MakeWritePipe(t)
    PROVE  TypeInv'
<1>1. /\ calls' = calls + 1 /\ calls' \in 0..MaxCalls /\ calls' \in Calls
      /\ calls \in Nat
      /\ ~InCall(t) /\ UNCHANGED <<child, piped, file, intact>>
  BY SpawnAssumption DEF MakeWritePipe, TypeInv, TypeOK, Calls
<1>2. CASE CanPipe
  <2>1. PICK r \in Fds, w \in Fds : caller'[t].inR = r /\ caller'[t].inW = w
    BY <1>2, WritePipeMade
  <2>2. TypeOK'
    BY <1>1, <1>2, WritePipeMade DEF TypeInv, TypeOK
  <2>3. /\ caller'[t].pc = "pipe" /\ caller'[t].call = calls'
        /\ caller'[t].outR = None /\ caller'[t].outW = None
        /\ \A u \in Callers \ {t} : caller'[u] = caller[u]
    BY <1>2, WritePipeMade
  <2>4. CallInv'
    <3>1. \A u \in Callers \ {t} : InCall(u)' => InCall(u) /\ caller[u].call \in 1..calls
      BY <2>3 DEF InCall, TypeInv, CallInv
    <3>. QED
      BY <1>1, <2>1, <2>3, <3>1 DEF TypeInv, CallInv
  <2>. QED
    BY <2>2, <2>4 DEF TypeInv
<1>3. CASE ~CanPipe
  <2>. DEFINE q == [Idle EXCEPT !.pc = "failed", !.call = calls']
  <2>1. caller' = [caller EXCEPT ![t] = q] /\ UNCHANGED fd
    BY <1>3 DEF MakeWritePipe
  <2>2. q \in CallerState /\ q.pc = "failed"
    BY <1>1, ObjectsIn DEF Idle, CallerState
  <2>. HIDE DEF q
  <2>3. TypeOK'
    BY <1>1, <2>1, <2>2 DEF TypeInv, TypeOK
  <2>4. caller'[t].pc = "failed" /\ \A u \in Callers \ {t} : caller'[u] = caller[u]
    BY <2>1, <2>2 DEF TypeInv, TypeOK
  <2>5. CallInv'
    <3>1. \A u \in Callers : InCall(u)' =>
             InCall(u) /\ caller'[u] = caller[u] /\ caller[u].call \in 1..calls'
      BY <1>1, <2>4 DEF InCall, TypeInv, CallInv
    <3>. QED
      BY <3>1 DEF TypeInv, CallInv
  <2>. QED
    BY <2>3, <2>5 DEF TypeInv
<1>. QED
  BY <1>2, <1>3

LEMMA ReadPipeTyped ==
    ASSUME TypeInv, NEW t \in Callers, MakeReadPipe(t), CanPipe
    PROVE  TypeInv'
<1>1. UNCHANGED <<child, piped, file, calls, intact>>
  BY DEF MakeReadPipe
<1>2. TypeOK'
  BY <1>1, ReadPipeMade DEF TypeInv, TypeOK
<1>3. \E r, w \in Fds :
         /\ r # w /\ fd[r] = None /\ fd[w] = None
         /\ \A n \in Fds : fd'[n] = IF n = r THEN OutR(caller[t].call)
                                   ELSE IF n = w THEN OutW(caller[t].call) ELSE fd[n]
         /\ caller'[t].outR = r /\ caller'[t].outW = w
  BY ReadPipeMade
<1>4. /\ InCall(t) /\ caller'[t].pc = "fork" /\ caller'[t].call = caller[t].call
      /\ caller'[t].inR = caller[t].inR /\ caller'[t].inW = caller[t].inW
      /\ \A u \in Callers \ {t} : caller'[u] = caller[u]
  BY ReadPipeMade DEF InCall
<1>5. CallInv'
  <2>1. \A u \in Callers : InCall(u)' => InCall(u) /\ caller'[u].call = caller[u].call
    BY <1>4 DEF InCall
  <2>. QED
    BY <1>1, <1>3, <1>4, <2>1 DEF TypeInv, CallInv
<1>. QED
  BY <1>2, <1>5 DEF TypeInv

LEMMA LeavesTyped ==
    ASSUME TypeInv, NEW t \in Callers, Leaves(t)
    PROVE  TypeInv'
<1>1. TypeOK'
  BY DEF Leaves, TypeInv, TypeOK
<1>2. CallInv'
  <2>1. ~InCall(t)'
    BY DEF Leaves, InCall
  <2>. QED
    BY <2>1, CallKept DEF Leaves
<1>. QED
  BY <1>1, <1>2 DEF TypeInv

LEMMA ClosesTyped ==
    ASSUME TypeInv, NEW t \in Callers, NEW pc, Closes(t, pc)
    PROVE  TypeInv'
<1>1. TypeOK'
  BY DEF Closes, Moves, TypeInv, TypeOK
<1>2. CallInv'
  <2>1. InCall(t) /\ caller[t].pc # "pipe" /\ caller'[t].pc # "pipe"
    BY DEF Closes, Moves, InCall
  <2>. QED
    BY <2>1, CallKept DEF Closes, Moves
<1>. QED
  BY <1>1, <1>2 DEF TypeInv

LEMMA ForksTyped ==
    ASSUME TypeInv, NEW t \in Callers, Forks(t)
    PROVE  TypeInv'
<1>1. /\ InCall(t) /\ caller[t].pc # "pipe" /\ caller'[t].pc # "pipe"
      /\ caller[t].call \in Calls /\ caller[t].outW \in Fds
  BY SpawnAssumption DEF Forks, Moves, InCall, TypeInv, TypeOK, CallInv, Calls
<1>2. /\ fd[caller[t].outW] \in Objects
      /\ {fd[n] : n \in Fds \ Numbers(t)} \cap WriteEnds \in SUBSET Objects
  BY <1>1, ObjectsIn DEF TypeInv, TypeOK
<1>3. child' \in [Calls -> [alive : BOOLEAN, stdout : Objects, keeps : SUBSET Objects]]
  BY <1>1, <1>2 DEF Forks, TypeInv, TypeOK
<1>4. TypeOK'
  BY <1>3 DEF Forks, Moves, TypeInv, TypeOK
<1>5. CallInv'
  BY <1>1, CallKept DEF Forks, Moves
<1>. QED
  BY <1>4, <1>5 DEF TypeInv

\* The buffers of a call are made.
MakesBufs(t) ==
    /\ caller[t].pc = "bufs" /\ caller[t].inW \in Fds /\ caller[t].outR \in Fds
    /\ caller'[t].inBuf \in Opens(fd[caller[t].inW], "w")
    /\ caller'[t].outBuf \in Opens(fd[caller[t].outR], "r")
    /\ Moves(t, IF caller'[t].outBuf THEN "read" ELSE "eof")
    /\ caller'[t].obj = caller[t].obj /\ caller'[t].got = caller[t].got
    /\ UNCHANGED <<fd, child, piped, file, calls, intact>>

\* A call reads on what is under its number.
ReadsOn(t) ==
    /\ caller[t].pc = "read" /\ Moves(t, "reading") /\ SameBufs(t)
    /\ caller[t].outR \in Fds /\ caller'[t].obj = fd[caller[t].outR]
    /\ caller'[t].got = caller[t].got
    /\ UNCHANGED <<fd, child, piped, file, calls, intact>>

\* It has read what is in a pipe, to the end or not.
ReadsLines(t) ==
    /\ caller[t].pc = "reading" /\ SameBufs(t)
    /\ caller'[t].obj = None
    /\ \E c \in Calls, lines \in SUBSET Calls :
          /\ caller[t].obj = OutR(c) /\ lines # {} /\ lines \subseteq piped[c]
          /\ piped' = [piped EXCEPT ![c] = {}]
          /\ caller'[t].got = caller[t].got \cup lines
          /\ (Moves(t, "read") /\ lines = piped[c]) \/ Moves(t, "eof")
    /\ UNCHANGED <<fd, child, file, calls, intact>>

\* It has come to the end.
ReadsEnd(t) ==
    /\ caller[t].pc = "reading" /\ Moves(t, "eof") /\ SameBufs(t)
    /\ caller'[t].obj = None
    /\ \E lines \in SUBSET {0} :
          /\ caller'[t].got = caller[t].got \cup lines
          /\ lines # {} => \E u \in Callers : caller[t].obj = FileOf(u)
    /\ \A c \in Calls :
          caller[t].obj = OutR(c) => piped[c] = {} /\ ~Written(OutW(c))
    /\ UNCHANGED <<fd, child, piped, file, calls, intact>>

\* It reads for ever.
ReadsFail(t) ==
    /\ caller[t].pc = "reading" /\ Moves(t, "spin") /\ SameBufs(t)
    /\ caller'[t].obj = None /\ caller'[t].got = caller[t].got
    /\ \A c \in Calls : caller[t].obj # OutR(c)
    /\ UNCHANGED <<fd, child, piped, file, calls, intact>>

Reading(t) ==
    MakeBufs(t) \/ ReadBegin(t) \/ ReadLines(t) \/ ReadEnd(t) \/ ReadFails(t)

Reads(t) ==
    MakesBufs(t) \/ ReadsOn(t) \/ ReadsLines(t) \/ ReadsEnd(t) \/ ReadsFail(t)

LEMMA MakeBufsSteps ==
    ASSUME TypeInv, NEW t \in Callers, MakeBufs(t)
    PROVE  MakesBufs(t)
<1>1. PICK i \in Opens(fd[caller[t].inW], "w"), o \in Opens(fd[caller[t].outR], "r") :
         caller' = [caller EXCEPT ![t].pc = IF o THEN "read" ELSE "eof",
                                  ![t].inBuf = i, ![t].outBuf = o]
  BY DEF MakeBufs
<1>. DEFINE pc == IF o THEN "read" ELSE "eof"
            r == [caller[t] EXCEPT !.pc = pc, !.inBuf = i, !.outBuf = o]
<1>2. /\ caller[t].pc = "bufs" /\ caller' = [caller EXCEPT ![t] = r]
      /\ UNCHANGED <<fd, child, piped, file, calls, intact>>
      /\ caller[t] \in CallerState
  BY <1>1 DEF MakeBufs, TypeInv, TypeOK
<1>3. caller[t].inW \in Fds /\ caller[t].outR \in Fds
  BY <1>2 DEF TypeInv, CallInv, InCall
<1>4. i \in BOOLEAN /\ o \in BOOLEAN /\ pc \in {"read", "eof"}
  BY DEF Opens
<1>. HIDE DEF pc
<1>5. r \in CallerState
  BY <1>2, <1>4 DEF CallerState
<1>6. /\ r.pc = pc /\ r.call = caller[t].call /\ r.sound = caller[t].sound
      /\ r.inR = caller[t].inR /\ r.inW = caller[t].inW
      /\ r.outR = caller[t].outR /\ r.outW = caller[t].outW
      /\ r.inBuf = i /\ r.outBuf = o /\ r.obj = caller[t].obj /\ r.got = caller[t].got
  BY <1>2 DEF CallerState
<1>. HIDE DEF r
<1>7. /\ caller' \in [Callers -> CallerState] /\ caller'[t] = r
      /\ \A u \in Callers \ {t} : caller'[u] = caller[u]
  BY <1>2, <1>5 DEF TypeInv, TypeOK
<1>8. Moves(t, pc)
  BY <1>6, <1>7 DEF Moves
<1>. QED
  BY <1>2, <1>3, <1>6, <1>7, <1>8 DEF MakesBufs, pc

LEMMA ReadBeginSteps ==
    ASSUME TypeInv, NEW t \in Callers, ReadBegin(t)
    PROVE  ReadsOn(t)
<1>. DEFINE o == fd[caller[t].outR]
            r == [caller[t] EXCEPT !.pc = "reading", !.obj = o]
<1>1. /\ caller[t].pc = "read" /\ caller' = [caller EXCEPT ![t] = r]
      /\ UNCHANGED <<fd, child, piped, file, calls, intact>>
      /\ caller[t] \in CallerState
  BY DEF ReadBegin, TypeInv, TypeOK
<1>2. caller[t].outR \in Fds
  BY <1>1 DEF TypeInv, CallInv, InCall
<1>3. o \in Objects
  BY <1>2 DEF TypeInv, TypeOK
<1>. HIDE DEF o
<1>4. r \in CallerState
  BY <1>1, <1>3 DEF CallerState
<1>5. /\ r.pc = "reading" /\ r.call = caller[t].call /\ r.sound = caller[t].sound
      /\ r.inR = caller[t].inR /\ r.inW = caller[t].inW
      /\ r.outR = caller[t].outR /\ r.outW = caller[t].outW
      /\ r.inBuf = caller[t].inBuf /\ r.outBuf = caller[t].outBuf
      /\ r.obj = o /\ r.got = caller[t].got
  BY <1>1 DEF CallerState
<1>. HIDE DEF r
<1>6. /\ caller' \in [Callers -> CallerState] /\ caller'[t] = r
      /\ \A u \in Callers \ {t} : caller'[u] = caller[u]
  BY <1>1, <1>4 DEF TypeInv, TypeOK
<1>. QED
  BY <1>1, <1>2, <1>5, <1>6 DEF ReadsOn, Moves, SameBufs, o

\* A read comes back.
LEMMA ReadStep ==
    ASSUME TypeInv, NEW t \in Callers, NEW pc \in PcSet,
           NEW got \in SUBSET ({0} \cup Calls),
           caller' = [caller EXCEPT ![t].pc = pc, ![t].obj = None, ![t].got = got]
    PROVE  Moves(t, pc) /\ SameBufs(t) /\ caller'[t].obj = None /\ caller'[t].got = got
<1>. DEFINE r == [caller[t] EXCEPT !.pc = pc, !.obj = None, !.got = got]
<1>1. caller' = [caller EXCEPT ![t] = r] /\ caller[t] \in CallerState
  BY DEF TypeInv, TypeOK
<1>2. r \in CallerState
  BY <1>1, ObjectsIn DEF CallerState, PcSet
<1>3. /\ r.pc = pc /\ r.call = caller[t].call /\ r.sound = caller[t].sound
      /\ r.inR = caller[t].inR /\ r.inW = caller[t].inW
      /\ r.outR = caller[t].outR /\ r.outW = caller[t].outW
      /\ r.inBuf = caller[t].inBuf /\ r.outBuf = caller[t].outBuf
      /\ r.obj = None /\ r.got = got
  BY <1>1 DEF CallerState
<1>. HIDE DEF r
<1>4. /\ caller' \in [Callers -> CallerState] /\ caller'[t] = r
      /\ \A u \in Callers \ {t} : caller'[u] = caller[u]
  BY <1>1, <1>2 DEF TypeInv, TypeOK
<1>. QED
  BY <1>3, <1>4 DEF Moves, SameBufs

LEMMA ReadLinesSteps ==
    ASSUME TypeInv, NEW t \in Callers, ReadLines(t)
    PROVE  ReadsLines(t)
<1>1. /\ caller[t].pc = "reading" /\ caller[t].got \in SUBSET ({0} \cup Calls)
      /\ UNCHANGED <<fd, child, file, calls, intact>>
  BY DEF ReadLines, TypeInv, TypeOK, CallerState
<1>2. PICK c \in Calls :
         /\ caller[t].obj = OutR(c) /\ piped[c] # {}
         /\ \/ caller' = [caller EXCEPT ![t].pc = "read", ![t].obj = None,
                                        ![t].got = caller[t].got \cup piped[c]]
            \/ \E lines \in (SUBSET piped[c]) \ {{}} :
                  caller' = [caller EXCEPT ![t].pc = "eof", ![t].obj = None,
                                           ![t].got = caller[t].got \cup lines]
         /\ piped' = [piped EXCEPT ![c] = {}]
  BY DEF ReadLines
<1>3. piped[c] \in SUBSET Calls
  BY DEF TypeInv, TypeOK
<1>4. CASE caller' = [caller EXCEPT ![t].pc = "read", ![t].obj = None,
                                    ![t].got = caller[t].got \cup piped[c]]
  <2>1. caller[t].got \cup piped[c] \in SUBSET ({0} \cup Calls)
    BY <1>1, <1>3
  <2>2. /\ Moves(t, "read") /\ SameBufs(t) /\ caller'[t].obj = None
        /\ caller'[t].got = caller[t].got \cup piped[c]
    BY <1>4, <2>1, ReadStep DEF PcSet
  <2>. QED
    BY <1>1, <1>2, <1>3, <2>2 DEF ReadsLines
<1>5. ASSUME NEW lines \in (SUBSET piped[c]) \ {{}},
             caller' = [caller EXCEPT ![t].pc = "eof", ![t].obj = None,
                                      ![t].got = caller[t].got \cup lines]
      PROVE  ReadsLines(t)
  <2>1. /\ caller[t].got \cup lines \in SUBSET ({0} \cup Calls)
        /\ lines \in SUBSET Calls /\ lines # {} /\ lines \subseteq piped[c]
    BY <1>1, <1>3
  <2>2. /\ Moves(t, "eof") /\ SameBufs(t) /\ caller'[t].obj = None
        /\ caller'[t].got = caller[t].got \cup lines
    BY <1>5, <2>1, ReadStep DEF PcSet
  <2>. QED
    BY <1>1, <1>2, <2>1, <2>2 DEF ReadsLines
<1>. QED
  BY <1>2, <1>4, <1>5

LEMMA ReadEndSteps ==
    ASSUME TypeInv, NEW t \in Callers, ReadEnd(t)
    PROVE  ReadsEnd(t)
<1>1. /\ caller[t].pc = "reading" /\ caller[t].got \in SUBSET ({0} \cup Calls)
      /\ UNCHANGED <<fd, child, piped, file, calls, intact>>
  BY DEF ReadEnd, TypeInv, TypeOK, CallerState
<1>2. PICK lines \in SUBSET {0} :
         /\ \/ \E c \in Calls : /\ caller[t].obj = OutR(c) /\ piped[c] = {}
                                /\ ~Written(OutW(c)) /\ lines = {}
            \/ \E c \in Calls : /\ caller[t].obj = InR(c)
                                /\ ~Written(InW(c)) /\ lines = {}
            \/ \E u \in Callers : caller[t].obj = FileOf(u)
         /\ caller' = [caller EXCEPT ![t].pc = "eof", ![t].obj = None,
                                     ![t].got = caller[t].got \cup lines]
  BY DEF ReadEnd
<1>3. caller[t].got \cup lines \in SUBSET ({0} \cup Calls)
  BY <1>1
<1>4. /\ Moves(t, "eof") /\ SameBufs(t) /\ caller'[t].obj = None
      /\ caller'[t].got = caller[t].got \cup lines
  BY <1>2, <1>3, ReadStep DEF PcSet
<1>5. lines # {} => \E u \in Callers : caller[t].obj = FileOf(u)
  BY <1>2
<1>6. ASSUME NEW c \in Calls, caller[t].obj = OutR(c)
      PROVE  piped[c] = {} /\ ~Written(OutW(c))
  BY <1>2, <1>6, EndsDiffer
<1>. QED
  BY <1>1, <1>4, <1>5, <1>6 DEF ReadsEnd

LEMMA ReadFailsSteps ==
    ASSUME TypeInv, NEW t \in Callers, ReadFails(t)
    PROVE  ReadsFail(t)
<1>1. /\ caller[t].pc = "reading" /\ caller[t] \in CallerState
      /\ caller[t].got \in SUBSET ({0} \cup Calls)
      /\ caller' = [caller EXCEPT ![t].pc = "spin", ![t].obj = None]
      /\ UNCHANGED <<fd, child, piped, file, calls, intact>>
  BY DEF ReadFails, TypeInv, TypeOK, CallerState
<1>2. PICK got \in SUBSET ({0} \cup Calls) : got = caller[t].got
  BY <1>1
<1>3. caller' = [caller EXCEPT ![t].pc = "spin", ![t].obj = None, ![t].got = got]
  <2>. DEFINE r == [caller[t] EXCEPT !.pc = "spin", !.obj = None]
              q == [caller[t] EXCEPT !.pc = "spin", !.obj = None, !.got = got]
  <2>1. r = q
    BY <1>1, <1>2 DEF CallerState
  <2>. QED
    BY <1>1, <2>1
<1>4. "spin" \in PcSet
  BY DEF PcSet
<1>5. /\ Moves(t, "spin") /\ SameBufs(t) /\ caller'[t].obj = None
      /\ caller'[t].got = got
  BY <1>3, <1>4, ReadStep
<1>6. \A c \in Calls : caller[t].obj # OutR(c)
  BY EndsDiffer DEF ReadFails, WriteEnds
<1>. QED
  BY <1>1, <1>5, <1>6, <1>2 DEF ReadsFail

LEMMA ReadingSteps ==
    ASSUME TypeInv, NEW t \in Callers, Reading(t)
    PROVE  Reads(t)
  BY MakeBufsSteps, ReadBeginSteps, ReadLinesSteps, ReadEndSteps, ReadFailsSteps
     DEF Reading, Reads

\* Where it goes.
LEMMA ReadsMoves ==
    ASSUME NEW t \in Callers, Reads(t)
    PROVE  /\ \E pc \in {"read", "reading", "eof", "spin"} : Moves(t, pc)
           /\ caller[t].pc \in {"bufs", "read", "reading"}
           /\ UNCHANGED <<fd, child, file, calls, intact>>
  BY DEF Reads, MakesBufs, ReadsOn, ReadsLines, ReadsEnd, ReadsFail

LEMMA ReadsTyped ==
    ASSUME TypeInv, NEW t \in Callers, Reads(t)
    PROVE  TypeInv'
<1>1. PICK pc \in {"read", "reading", "eof", "spin"} :
         /\ Moves(t, pc) /\ caller[t].pc \in {"bufs", "read", "reading"}
         /\ UNCHANGED <<fd, child, file, calls, intact>>
  BY ReadsMoves
<1>2. caller' \in [Callers -> CallerState]
  BY <1>1 DEF Moves
<1>3. piped' \in [Calls -> SUBSET Calls]
  BY DEF Reads, MakesBufs, ReadsOn, ReadsLines, ReadsEnd, ReadsFail, TypeInv, TypeOK
<1>4. TypeOK'
  BY <1>1, <1>2, <1>3 DEF TypeInv, TypeOK
<1>5. InCall(t) /\ caller[t].pc # "pipe" /\ caller'[t].pc # "pipe"
  BY <1>1 DEF Moves, InCall
<1>6. CallInv'
  BY <1>1, <1>5, CallKept DEF Moves
<1>. QED
  BY <1>4, <1>6 DEF TypeInv

\* The program of call c ends.
LEMMA RunTyped ==
    ASSUME TypeInv, NEW c \in Calls, Run(c)
    PROVE  TypeInv'
<1>1. NoChild \in [alive : BOOLEAN, stdout : Objects, keeps : SUBSET Objects]
  BY ObjectsIn DEF NoChild
<1>2. /\ child' \in [Calls -> [alive : BOOLEAN, stdout : Objects, keeps : SUBSET Objects]]
      /\ piped' \in [Calls -> SUBSET Calls]
      /\ UNCHANGED <<fd, caller, file, calls, intact>>
  BY <1>1 DEF Run, TypeInv, TypeOK
<1>. QED
  BY <1>2 DEF TypeInv, TypeOK, CallInv, InCall

LEMMA FilesTyped ==
    ASSUME TypeInv, NEW t \in Callers, Open(t) \/ Release(t)
    PROVE  /\ TypeInv'
           /\ ~InCall(t) /\ UNCHANGED <<child, piped, caller, calls>>
           /\ \A u \in Callers \ {t} : file'[u] = file[u]
           /\ \/ /\ file[t] = None /\ file'[t] \in Fds /\ fd[file'[t]] = None
                 /\ \A n \in Fds : fd'[n] = IF n = file'[t] THEN FileOf(t) ELSE fd[n]
                 /\ intact' = IF Sound(Callers) THEN intact \cup {t} ELSE intact
              \/ /\ file'[t] = None
                 /\ \A n \in Fds : fd'[n] = IF n = file[t] THEN None ELSE fd[n]
                 /\ intact' = intact \ {t}
<1>1. ~InCall(t) /\ UNCHANGED <<child, piped, caller, calls>>
  BY DEF Open, Release
<1>2. CallInv'
  BY <1>1 DEF TypeInv, CallInv, InCall
<1>3. CASE Open(t)
  <2>. DEFINE n == Lowest(Free)
  <2>1. /\ file[t] = None /\ fd' = [fd EXCEPT ![n] = FileOf(t)]
        /\ file' = [file EXCEPT ![t] = n]
        /\ intact' = IF Sound(Callers) THEN intact \cup {t} ELSE intact
    BY <1>3 DEF Open
  <2>2. Free \in SUBSET Nat /\ Free # {}
    BY <1>3, SpawnAssumption DEF Open, Free, Fds
  <2>3. n \in Fds /\ fd[n] = None
    BY <2>2, LowestIn DEF Free
  <2>. HIDE DEF n
  <2>4. TypeOK'
    BY <1>1, <2>1, <2>3, ObjectsIn DEF TypeInv, TypeOK
  <2>. QED
    BY <1>1, <1>2, <2>1, <2>3, <2>4 DEF TypeInv, TypeOK
<1>4. CASE Release(t)
  <2>1. /\ fd' = Closed({file[t]}) /\ file' = [file EXCEPT ![t] = None]
        /\ intact' = intact \ {t}
    BY <1>4 DEF Release
  <2>2. /\ fd' \in [Fds -> Objects]
        /\ \A n \in Fds : fd'[n] = IF n = file[t] THEN None ELSE fd[n]
    BY <2>1, ClosedType DEF TypeInv, TypeOK
  <2>3. TypeOK'
    BY <1>1, <2>1, <2>2 DEF TypeInv, TypeOK
  <2>. QED
    BY <1>1, <1>2, <2>1, <2>2, <2>3 DEF TypeInv, TypeOK
<1>. QED
  BY <1>3, <1>4

LEMMA NextTyped == TypeInv /\ [Next]_vars => TypeInv'
<1>. SUFFICES ASSUME TypeInv, [Next]_vars PROVE TypeInv'
  OBVIOUS
<1>1. ASSUME NEW t \in Callers, MakeWritePipe(t) \/ Open(t) \/ Release(t)
      PROVE  TypeInv'
  BY <1>1, WritePipeTyped, FilesTyped
<1>2. ASSUME NEW t \in Callers, Step(t) PROVE TypeInv'
  <2>1. CASE MakeReadPipe(t)
    BY <2>1, ReadPipeTyped, LeavesSteps, LeavesTyped
  <2>2. CASE Fork(t)
    BY <2>2, ForkSteps, ForksTyped, LeavesTyped
  <2>3. CASE CloseChildsEnds(t) \/ SendEof(t) \/ Wait(t) \/ DeleteBufs(t)
    BY <2>3, ClosesSteps, ClosesTyped
  <2>4. CASE Reading(t)
    BY <2>4, ReadingSteps, ReadsTyped
  <2>5. CASE ClosePipes(t)
    BY <2>5, LeavesSteps, LeavesTyped
  <2>. QED
    BY <1>2, <2>1, <2>2, <2>3, <2>4, <2>5 DEF Step, Reading
<1>3. CASE UNCHANGED vars
  BY <1>3 DEF vars, TypeInv, TypeOK, CallInv, InCall
<1>. QED
  BY <1>1, <1>2, <1>3, RunTyped DEF Next

\* The variables keep their types: every number a step reads from or closes is one the
\* call was given, or None.
THEOREM TypeCorrect == Spec => []TypeOK
<1>1. TypeInv => TypeOK
  BY DEF TypeInv
<1>. QED
  BY <1>1, InitTyped, NextTyped, PTL DEF Spec

-----------------------------------------------------------------------------
(* Who owns the ends of the pipes.                                         *)

LEMMA InitOwned == Init => OwnedInv
  BY EndsDiffer DEF Init, OwnedInv

\* Thread t opens its own ends only, and gives up none that it leaves open.
LEMMA OwnedStep ==
    ASSUME TypeInv, OwnedInv, NEW t \in Callers,
           \A u \in Callers \ {t} : caller'[u] = caller[u],
           \A n \in Fds, c \in Calls :
               /\ fd'[n] = InR(c) /\ fd[n] # InR(c) =>
                      HoldsInR(t)' /\ caller'[t].call = c /\ caller'[t].inR = n
               /\ fd'[n] = InW(c) /\ fd[n] # InW(c) =>
                      HoldsInW(t)' /\ caller'[t].call = c /\ caller'[t].inW = n
               /\ fd'[n] = OutR(c) /\ fd[n] # OutR(c) =>
                      HoldsOutR(t)' /\ caller'[t].call = c /\ caller'[t].outR = n
               /\ fd'[n] = OutW(c) /\ fd[n] # OutW(c) =>
                      HoldsOutW(t)' /\ caller'[t].call = c /\ caller'[t].outW = n,
           /\ HoldsInR(t) => \/ fd'[caller[t].inR] = None
                               \/ /\ HoldsInR(t)' /\ caller'[t].call = caller[t].call
                                  /\ caller'[t].inR = caller[t].inR
           /\ HoldsInW(t) => \/ fd'[caller[t].inW] = None
                               \/ /\ HoldsInW(t)' /\ caller'[t].call = caller[t].call
                                  /\ caller'[t].inW = caller[t].inW
           /\ HoldsOutR(t) => \/ fd'[caller[t].outR] = None
                               \/ /\ HoldsOutR(t)' /\ caller'[t].call = caller[t].call
                                  /\ caller'[t].outR = caller[t].outR
           /\ HoldsOutW(t) => \/ fd'[caller[t].outW] = None
                               \/ /\ HoldsOutW(t)' /\ caller'[t].call = caller[t].call
                                  /\ caller'[t].outW = caller[t].outW
    PROVE  OwnedInv'
<1>1. ASSUME NEW n \in Fds, NEW c \in Calls, fd'[n] = InR(c)
      PROVE  \E u \in Callers : HoldsInR(u)' /\ caller'[u].call = c /\ caller'[u].inR = n
  <2>1. CASE fd[n] = InR(c)
    <3>1. PICK u \in Callers : HoldsInR(u) /\ caller[u].call = c /\ caller[u].inR = n
      BY <2>1 DEF OwnedInv
    <3>2. CASE u = t
      BY <1>1, <3>1, <3>2, EndsDiffer
    <3>3. CASE u # t
      BY <3>1, <3>3 DEF HoldsInR
    <3>. QED
      BY <3>2, <3>3
  <2>2. CASE fd[n] # InR(c)
    BY <1>1, <2>2
  <2>. QED
    BY <2>1, <2>2
<1>2. ASSUME NEW n \in Fds, NEW c \in Calls, fd'[n] = InW(c)
      PROVE  \E u \in Callers : HoldsInW(u)' /\ caller'[u].call = c /\ caller'[u].inW = n
  <2>1. CASE fd[n] = InW(c)
    <3>1. PICK u \in Callers : HoldsInW(u) /\ caller[u].call = c /\ caller[u].inW = n
      BY <2>1 DEF OwnedInv
    <3>2. CASE u = t
      BY <1>2, <3>1, <3>2, EndsDiffer
    <3>3. CASE u # t
      BY <3>1, <3>3 DEF HoldsInW
    <3>. QED
      BY <3>2, <3>3
  <2>2. CASE fd[n] # InW(c)
    BY <1>2, <2>2
  <2>. QED
    BY <2>1, <2>2
<1>3. ASSUME NEW n \in Fds, NEW c \in Calls, fd'[n] = OutR(c)
      PROVE  \E u \in Callers : HoldsOutR(u)' /\ caller'[u].call = c /\ caller'[u].outR = n
  <2>1. CASE fd[n] = OutR(c)
    <3>1. PICK u \in Callers : HoldsOutR(u) /\ caller[u].call = c /\ caller[u].outR = n
      BY <2>1 DEF OwnedInv
    <3>2. CASE u = t
      BY <1>3, <3>1, <3>2, EndsDiffer
    <3>3. CASE u # t
      BY <3>1, <3>3 DEF HoldsOutR
    <3>. QED
      BY <3>2, <3>3
  <2>2. CASE fd[n] # OutR(c)
    BY <1>3, <2>2
  <2>. QED
    BY <2>1, <2>2
<1>4. ASSUME NEW n \in Fds, NEW c \in Calls, fd'[n] = OutW(c)
      PROVE  \E u \in Callers : HoldsOutW(u)' /\ caller'[u].call = c /\ caller'[u].outW = n
  <2>1. CASE fd[n] = OutW(c)
    <3>1. PICK u \in Callers : HoldsOutW(u) /\ caller[u].call = c /\ caller[u].outW = n
      BY <2>1 DEF OwnedInv
    <3>2. CASE u = t
      BY <1>4, <3>1, <3>2, EndsDiffer
    <3>3. CASE u # t
      BY <3>1, <3>3 DEF HoldsOutW
    <3>. QED
      BY <3>2, <3>3
  <2>2. CASE fd[n] # OutW(c)
    BY <1>4, <2>2
  <2>. QED
    BY <2>1, <2>2
<1>. QED
  BY <1>1, <1>2, <1>3, <1>4 DEF OwnedInv

LEMMA WritePipeOwned ==
    ASSUME TypeInv, OwnedInv, NEW t \in Callers, MakeWritePipe(t)
    PROVE  OwnedInv'
<1>1. ~InCall(t)
  BY DEF MakeWritePipe
<1>2. ~HoldsInR(t) /\ ~HoldsInW(t) /\ ~HoldsOutR(t) /\ ~HoldsOutW(t)
  BY <1>1 DEF InCall, HoldsInR, HoldsInW, HoldsOutR, HoldsOutW
<1>3. CASE CanPipe
  <2>1. PICK r \in Fds, w \in Fds :
           /\ \A n \in Fds : fd'[n] = IF n = r THEN InR(calls')
                                     ELSE IF n = w THEN InW(calls') ELSE fd[n]
           /\ caller'[t].inR = r /\ caller'[t].inW = w
    BY <1>3, WritePipeMade
  <2>2. /\ calls' \in Calls /\ caller'[t].call = calls'
        /\ \A u \in Callers \ {t} : caller'[u] = caller[u]
        /\ HoldsInR(t)' /\ HoldsInW(t)'
    BY <1>3, WritePipeMade DEF HoldsInR, HoldsInW
  <2>. QED
    BY <1>2, <2>1, <2>2, EndsDiffer, OwnedStep
<1>4. CASE ~CanPipe
  <2>1. UNCHANGED fd /\ \A u \in Callers \ {t} : caller'[u] = caller[u]
    BY <1>4 DEF MakeWritePipe, TypeInv, TypeOK
  <2>. QED
    BY <1>2, <2>1, OwnedStep
<1>. QED
  BY <1>3, <1>4

LEMMA ReadPipeOwned ==
    ASSUME TypeInv, OwnedInv, NEW t \in Callers, MakeReadPipe(t), CanPipe
    PROVE  OwnedInv'
<1>1. PICK r, w \in Fds :
         /\ r # w /\ fd[r] = None /\ fd[w] = None
         /\ \A n \in Fds : fd'[n] = IF n = r THEN OutR(caller[t].call)
                                   ELSE IF n = w THEN OutW(caller[t].call) ELSE fd[n]
         /\ caller'[t].outR = r /\ caller'[t].outW = w
  BY ReadPipeMade
<1>2. /\ caller[t].pc = "pipe" /\ caller'[t].pc = "fork"
      /\ caller'[t].call = caller[t].call
      /\ caller'[t].inR = caller[t].inR /\ caller'[t].inW = caller[t].inW
      /\ \A u \in Callers \ {t} : caller'[u] = caller[u]
  BY ReadPipeMade
<1>3. caller[t].call \in Calls
  <2>1. caller[t].call \in 1..calls
    BY <1>2 DEF TypeInv, CallInv, InCall
  <2>2. calls \in 0..MaxCalls /\ MaxCalls \in Nat
    BY SpawnAssumption DEF TypeInv, TypeOK
  <2>. QED
    BY <2>1, <2>2 DEF Calls
<1>4. /\ ~HoldsOutR(t) /\ ~HoldsOutW(t)
      /\ HoldsInR(t)' /\ HoldsInW(t)' /\ HoldsOutR(t)' /\ HoldsOutW(t)'
  BY <1>2 DEF HoldsInR, HoldsInW, HoldsOutR, HoldsOutW
<1>. QED
  BY <1>1, <1>2, <1>3, <1>4, EndsDiffer, OwnedStep

LEMMA LeavesOwned ==
    ASSUME TypeInv, OwnedInv, NEW t \in Callers, Leaves(t)
    PROVE  OwnedInv'
<1>1. /\ \A n \in Fds : fd'[n] = IF n \in Numbers(t) THEN None ELSE fd[n]
      /\ \A u \in Callers \ {t} : caller'[u] = caller[u]
  BY DEF Leaves
<1>2. /\ HoldsInR(t) => caller[t].inR \in Fds
      /\ HoldsInW(t) => caller[t].inW \in Fds
      /\ HoldsOutR(t) => caller[t].outR \in Fds
      /\ HoldsOutW(t) => caller[t].outW \in Fds
  BY DEF TypeInv, CallInv, InCall, HoldsInR, HoldsInW, HoldsOutR, HoldsOutW
<1>3. /\ HoldsInR(t) => fd'[caller[t].inR] = None
      /\ HoldsInW(t) => fd'[caller[t].inW] = None
      /\ HoldsOutR(t) => fd'[caller[t].outR] = None
      /\ HoldsOutW(t) => fd'[caller[t].outW] = None
  BY <1>1, <1>2 DEF Numbers
<1>. QED
  BY <1>1, <1>3, EndsDiffer, OwnedStep

LEMMA ClosesOwned ==
    ASSUME TypeInv, OwnedInv, NEW t \in Callers, NEW pc, Closes(t, pc)
    PROVE  OwnedInv'
<1>1. /\ \A u \in Callers \ {t} : caller'[u] = caller[u]
      /\ caller'[t].call = caller[t].call
      /\ caller'[t].inR = caller[t].inR /\ caller'[t].inW = caller[t].inW
      /\ caller'[t].outR = caller[t].outR /\ caller'[t].outW = caller[t].outW
      /\ caller[t].inR \in Fds /\ caller[t].inW \in Fds
      /\ caller[t].outR \in Fds /\ caller[t].outW \in Fds
  BY DEF Closes, Moves, TypeInv, CallInv, InCall
<1>2. \A n \in Fds : fd'[n] = None \/ fd'[n] = fd[n]
  BY DEF Closes
<1>3. /\ HoldsInR(t) => fd'[caller[t].inR] = None \/ HoldsInR(t)'
      /\ HoldsInW(t) => fd'[caller[t].inW] = None \/ HoldsInW(t)'
      /\ HoldsOutR(t) => fd'[caller[t].outR] = None \/ HoldsOutR(t)'
      /\ HoldsOutW(t) => fd'[caller[t].outW] = None \/ HoldsOutW(t)'
  BY <1>1 DEF Closes, Moves, SameBufs, HoldsInR, HoldsInW, HoldsOutR, HoldsOutW
<1>4. \A n \in Fds, c \in Calls :
         /\ ~ (fd'[n] = InR(c) /\ fd[n] # InR(c))
         /\ ~ (fd'[n] = InW(c) /\ fd[n] # InW(c))
         /\ ~ (fd'[n] = OutR(c) /\ fd[n] # OutR(c))
         /\ ~ (fd'[n] = OutW(c) /\ fd[n] # OutW(c))
  BY <1>2, EndsDiffer
<1>5. /\ HoldsInR(t) => \/ fd'[caller[t].inR] = None
                       \/ /\ HoldsInR(t)' /\ caller'[t].call = caller[t].call
                          /\ caller'[t].inR = caller[t].inR
      /\ HoldsInW(t) => \/ fd'[caller[t].inW] = None
                       \/ /\ HoldsInW(t)' /\ caller'[t].call = caller[t].call
                          /\ caller'[t].inW = caller[t].inW
      /\ HoldsOutR(t) => \/ fd'[caller[t].outR] = None
                       \/ /\ HoldsOutR(t)' /\ caller'[t].call = caller[t].call
                          /\ caller'[t].outR = caller[t].outR
      /\ HoldsOutW(t) => \/ fd'[caller[t].outW] = None
                       \/ /\ HoldsOutW(t)' /\ caller'[t].call = caller[t].call
                          /\ caller'[t].outW = caller[t].outW
  BY <1>1, <1>3
<1>6. \A u \in Callers \ {t} : caller'[u] = caller[u]
  BY <1>1
<1>. QED
  BY <1>4, <1>5, <1>6, OwnedStep

\* The steps that close nothing.
LEMMA OpensNothingOwned ==
    ASSUME TypeInv, OwnedInv, NEW t \in Callers,
           Forks(t) \/ Reads(t)
    PROVE  OwnedInv'
<1>1. PICK pc \in {"forked", "read", "reading", "eof", "spin"} :
         /\ Moves(t, pc) /\ UNCHANGED fd
         /\ \/ pc = "forked" /\ caller[t].pc = "fork"
            \/ pc # "forked" /\ caller[t].pc \in {"bufs", "read", "reading"}
  BY ReadsMoves DEF Forks
<1>2. /\ \A u \in Callers \ {t} : caller'[u] = caller[u]
      /\ caller'[t].call = caller[t].call
      /\ caller'[t].inR = caller[t].inR /\ caller'[t].inW = caller[t].inW
      /\ caller'[t].outR = caller[t].outR /\ caller'[t].outW = caller[t].outW
      /\ UNCHANGED fd
  BY <1>1 DEF Moves
<1>3. /\ HoldsInR(t) => HoldsInR(t)'
      /\ HoldsInW(t) => HoldsInW(t)'
      /\ HoldsOutR(t) => HoldsOutR(t)'
      /\ HoldsOutW(t) => HoldsOutW(t)'
  BY <1>1 DEF Moves, HoldsInR, HoldsInW, HoldsOutR, HoldsOutW
<1>. QED
  BY <1>2, <1>3, OwnedStep

LEMMA FilesOwned ==
    ASSUME TypeInv, OwnedInv, NEW t \in Callers, Open(t) \/ Release(t)
    PROVE  OwnedInv'
<1>1. ~InCall(t) /\ UNCHANGED caller
  BY FilesTyped
<1>2. ~HoldsInR(t) /\ ~HoldsInW(t) /\ ~HoldsOutR(t) /\ ~HoldsOutW(t)
  BY <1>1 DEF InCall, HoldsInR, HoldsInW, HoldsOutR, HoldsOutW
<1>3. \A n \in Fds : fd'[n] = fd[n] \/ fd'[n] = None \/ fd'[n] = FileOf(t)
  BY FilesTyped
<1>. QED
  BY <1>1, <1>2, <1>3, EndsDiffer, OwnedStep

LEMMA NextOwned == TypeInv /\ OwnedInv /\ [Next]_vars => OwnedInv'
<1>. SUFFICES ASSUME TypeInv, OwnedInv, [Next]_vars PROVE OwnedInv'
  OBVIOUS
<1>1. ASSUME NEW t \in Callers, MakeWritePipe(t) \/ Open(t) \/ Release(t)
      PROVE  OwnedInv'
  BY <1>1, WritePipeOwned, FilesOwned
<1>2. ASSUME NEW t \in Callers, Step(t) PROVE OwnedInv'
  <2>1. CASE MakeReadPipe(t)
    BY <2>1, ReadPipeOwned, LeavesSteps, LeavesOwned
  <2>2. CASE Fork(t)
    BY <2>2, ForkSteps, OpensNothingOwned, LeavesOwned
  <2>3. CASE CloseChildsEnds(t) \/ SendEof(t) \/ Wait(t) \/ DeleteBufs(t)
    BY <2>3, ClosesSteps, ClosesOwned
  <2>4. CASE Reading(t)
    BY <2>4, ReadingSteps, OpensNothingOwned
  <2>5. CASE ClosePipes(t)
    BY <2>5, LeavesSteps, LeavesOwned
  <2>. QED
    BY <1>2, <2>1, <2>2, <2>3, <2>4, <2>5 DEF Step, Reading
<1>3. ASSUME NEW c \in Calls, Run(c) PROVE OwnedInv'
  BY <1>3 DEF Run, OwnedInv, HoldsInR, HoldsInW, HoldsOutR, HoldsOutW
<1>4. CASE UNCHANGED vars
  BY <1>4 DEF vars, OwnedInv, HoldsInR, HoldsInW, HoldsOutR, HoldsOutW
<1>. QED
  BY <1>1, <1>2, <1>3, <1>4 DEF Next

\* Every end of a pipe that is open belongs to a call in progress: execProg leaks no
\* descriptor, whatever the threads close for each other.
THEOREM NoLeakCorrect == Spec => []NoLeak
<1>1. TypeInv /\ OwnedInv => NoLeak
  <2>. SUFFICES ASSUME OwnedInv, NEW n \in Fds, fd[n] \in Ends
                PROVE  \E t \in Callers : InCall(t) /\ caller[t].call = fd[n][3]
    BY DEF NoLeak
  <2>1. PICK c \in Calls : fd[n] \in {InR(c), InW(c), OutR(c), OutW(c)}
    BY DEF Ends
  <2>2. fd[n][3] = c
    BY <2>1, EndParts
  <2>3. \E t \in Callers : /\ HoldsInR(t) \/ HoldsInW(t) \/ HoldsOutR(t) \/ HoldsOutW(t)
                          /\ caller[t].call = c
    BY <2>1 DEF OwnedInv
  <2>. QED
    BY <2>2, <2>3 DEF HoldsInR, HoldsInW, HoldsOutR, HoldsOutW, InCall
<1>. QED
  BY <1>1, InitTyped, NextTyped, InitOwned, NextOwned, PTL DEF Spec

-----------------------------------------------------------------------------
(* Who may close which number.                                             *)

\* What thread t may do to the descriptors: it gets numbers that were free, and gives
\* up those of its call and of its file.
Changes(t) ==
    /\ \A u \in Callers \ {t} : caller'[u] = caller[u] /\ file'[u] = file[u]
    /\ \A n \in Fds : \/ fd'[n] = fd[n]
                      \/ fd[n] = None
                      \/ (InCall(t) /\ n \in Numbers(t))
                      \/ (n = file[t] /\ t \notin intact')
    /\ InCall(t)' => \A n \in Numbers(t)' :
          n \notin Fds \/ fd[n] = None \/ (InCall(t) /\ n \in Numbers(t))
    /\ file'[t] = file[t] \/ file'[t] \notin Fds \/ fd[file'[t]] = None
    /\ InCall(t)' /\ caller'[t].sound =>
          \/ (InCall(t) /\ caller[t].sound)
          \/ \A u \in Callers : ~InCall(u)

LEMMA WritePipeChanges ==
    ASSUME TypeInv, NEW t \in Callers, MakeWritePipe(t)
    PROVE  Changes(t) /\ UNCHANGED <<file, intact>>
<1>1. ~InCall(t) /\ UNCHANGED <<file, intact>>
  BY DEF MakeWritePipe
<1>2. CASE CanPipe
  <2>1. PICK r, w \in Fds :
           /\ r # w /\ fd[r] = None /\ fd[w] = None
           /\ \A n \in Fds : fd'[n] = IF n = r THEN InR(calls')
                                     ELSE IF n = w THEN InW(calls') ELSE fd[n]
           /\ caller'[t].inR = r /\ caller'[t].inW = w
    BY <1>2, WritePipeMade
  <2>2. /\ caller'[t].outR = None /\ caller'[t].outW = None
        /\ caller'[t].sound = Sound(Callers)
        /\ \A u \in Callers \ {t} : caller'[u] = caller[u]
    BY <1>2, WritePipeMade
  <2>3. \A n \in Fds : fd'[n] = fd[n] \/ fd[n] = None
    BY <2>1
  <2>4. \A n \in Numbers(t)' : n \notin Fds \/ fd[n] = None
    BY <2>1, <2>2, SpawnAssumption DEF Numbers, Fds
  <2>5. caller'[t].sound => \A u \in Callers : ~InCall(u)
    BY <2>2 DEF Sound
  <2>6. \A u \in Callers \ {t} : caller'[u] = caller[u] /\ file'[u] = file[u]
    BY <1>1, <2>2
  <2>7. file'[t] = file[t]
    BY <1>1
  <2>. QED
    BY <1>1, <2>3, <2>4, <2>5, <2>6, <2>7 DEF Changes
<1>3. CASE ~CanPipe
  <2>1. /\ caller' = [caller EXCEPT ![t] = [Idle EXCEPT !.pc = "failed", !.call = calls']]
        /\ UNCHANGED fd
    BY <1>3 DEF MakeWritePipe
  <2>2. /\ caller'[t].pc = "failed"
        /\ \A u \in Callers \ {t} : caller'[u] = caller[u]
    BY <2>1 DEF TypeInv, TypeOK, Idle
  <2>3. ~InCall(t)'
    BY <2>2 DEF InCall
  <2>. QED
    BY <1>1, <2>1, <2>2, <2>3 DEF Changes
<1>. QED
  BY <1>2, <1>3

LEMMA ReadPipeChanges ==
    ASSUME TypeInv, NEW t \in Callers, MakeReadPipe(t), CanPipe
    PROVE  Changes(t) /\ UNCHANGED <<file, intact>>
<1>1. PICK r, w \in Fds :
         /\ r # w /\ fd[r] = None /\ fd[w] = None
         /\ \A n \in Fds : fd'[n] = IF n = r THEN OutR(caller[t].call)
                                   ELSE IF n = w THEN OutW(caller[t].call) ELSE fd[n]
         /\ caller'[t].outR = r /\ caller'[t].outW = w
  BY ReadPipeMade
<1>2. /\ caller[t].pc = "pipe" /\ UNCHANGED <<file, intact>>
      /\ caller'[t].inR = caller[t].inR /\ caller'[t].inW = caller[t].inW
      /\ caller'[t].sound => caller[t].sound
      /\ \A u \in Callers \ {t} : caller'[u] = caller[u]
  BY ReadPipeMade DEF MakeReadPipe
<1>3. InCall(t)
  BY <1>2 DEF InCall
<1>4. \A n \in Fds : fd'[n] = fd[n] \/ fd[n] = None
  BY <1>1
<1>5. \A n \in Numbers(t)' : fd[n] = None \/ n \in Numbers(t)
  BY <1>1, <1>2 DEF Numbers
<1>6. \A u \in Callers \ {t} : caller'[u] = caller[u] /\ file'[u] = file[u]
  BY <1>2
<1>7. file'[t] = file[t] /\ UNCHANGED <<file, intact>>
  BY <1>2
<1>8. caller'[t].sound => InCall(t) /\ caller[t].sound
  BY <1>2, <1>3
<1>. QED
  BY <1>3, <1>4, <1>5, <1>6, <1>7, <1>8 DEF Changes

LEMMA CallChanges ==
    ASSUME TypeInv, NEW t \in Callers,
           \/ Leaves(t) \/ (\E pc \in PcSet : Closes(t, pc)) \/ Forks(t)
           \/ Reads(t)
    PROVE  Changes(t) /\ UNCHANGED <<file, intact>>
<1>1. CASE Leaves(t)
  <2>1. ~InCall(t)'
    BY <1>1 DEF Leaves, InCall
  <2>. QED
    BY <1>1, <2>1 DEF Leaves, Changes
<1>2. CASE \E pc \in PcSet : Closes(t, pc)
  <2>1. PICK pc \in PcSet : Closes(t, pc)
    BY <1>2
  <2>2. /\ InCall(t) /\ Moves(t, pc) /\ UNCHANGED <<file, intact>>
        /\ \A n \in Fds : fd'[n] = fd[n] \/ n \in Numbers(t)
    BY <2>1 DEF Closes, InCall, Numbers
  <2>3. Numbers(t)' = Numbers(t)
    BY <2>2 DEF Moves, Numbers
  <2>. QED
    BY <2>2, <2>3 DEF Moves, Changes
<1>3. CASE Forks(t) \/ Reads(t)
  <2>1. PICK pc \in PcSet : Moves(t, pc)
    BY <1>3, ReadsMoves DEF Forks, PcSet
  <2>2. InCall(t) /\ UNCHANGED <<fd, file, intact>>
    BY <1>3, ReadsMoves DEF Forks, InCall
  <2>3. Numbers(t)' = Numbers(t)
    BY <2>1 DEF Moves, Numbers
  <2>. QED
    BY <2>1, <2>2, <2>3 DEF Moves, Changes
<1>. QED
  BY <1>1, <1>2, <1>3

LEMMA FilesChanges ==
    ASSUME TypeInv, NEW t \in Callers, Open(t) \/ Release(t)
    PROVE  Changes(t)
<1>1. /\ ~InCall(t) /\ UNCHANGED caller
      /\ \A u \in Callers \ {t} : file'[u] = file[u]
  BY FilesTyped
<1>2. ~InCall(t)'
  BY <1>1 DEF InCall
<1>3. /\ \A n \in Fds : \/ fd'[n] = fd[n]
                        \/ fd[n] = None
                        \/ (n = file[t] /\ t \notin intact')
      /\ file'[t] \notin Fds \/ fd[file'[t]] = None
  BY FilesTyped, SpawnAssumption DEF Fds
<1>. QED
  BY <1>1, <1>2, <1>3 DEF Changes

\* Every step of a thread is one of these.
LEMMA StepChanges ==
    ASSUME TypeInv, NEW t \in Callers,
           MakeWritePipe(t) \/ Step(t) \/ Open(t) \/ Release(t)
    PROVE  /\ Changes(t)
           /\ Open(t) \/ Release(t) \/ UNCHANGED <<file, intact>>
<1>1. CASE MakeWritePipe(t)
  BY <1>1, WritePipeChanges
<1>2. CASE Open(t) \/ Release(t)
  BY <1>2, FilesChanges
<1>3. CASE MakeReadPipe(t)
  BY <1>3, ReadPipeChanges, LeavesSteps, CallChanges
<1>4. CASE Fork(t)
  BY <1>4, ForkSteps, CallChanges
<1>5. CASE CloseChildsEnds(t) \/ SendEof(t) \/ Wait(t) \/ DeleteBufs(t)
  <2>1. PICK pc \in {"bufs", "wait", "delete", "close"} : Closes(t, pc)
    BY <1>5, ClosesSteps
  <2>. QED
    BY <2>1, CallChanges DEF PcSet
<1>6. CASE Reading(t)
  BY <1>6, ReadingSteps, CallChanges
<1>7. CASE ClosePipes(t)
  BY <1>7, LeavesSteps, CallChanges
<1>. QED
  BY <1>1, <1>2, <1>3, <1>4, <1>5, <1>6, <1>7 DEF Step, Reading

-----------------------------------------------------------------------------
(* Local files.                                                            *)

\* A file that is protected stays so, and one that is opened is protected when no
\* call is in progress and every file is behind its number.
LEMMA IntactStep ==
    ASSUME TypeInv, IntactInv, NEW t \in Callers, Changes(t),
           NEW v \in Callers, v \in intact, v \in intact', v = t => file'[t] = file[t]
    PROVE  /\ file'[v] \in Fds /\ fd'[file'[v]] = FileOf(v)
           /\ \A u \in Callers : InCall(u)' => file'[v] \notin Numbers(u)'
           /\ \A u \in Callers \ {v} : file'[u] # file'[v]
<1>1. /\ file'[v] = file[v] /\ file[v] \in Fds /\ fd[file[v]] = FileOf(v)
      /\ FileOf(v) # None
      /\ \A u \in Callers : InCall(u) => file[v] \notin Numbers(u)
      /\ \A u \in Callers \ {v} : file[u] # file[v]
  BY EndsDiffer DEF IntactInv, Changes
<1>2. fd'[file'[v]] = FileOf(v)
  BY <1>1 DEF Changes
<1>3. ASSUME NEW u \in Callers, InCall(u)'
      PROVE  file'[v] \notin Numbers(u)'
  <2>1. CASE u = t
    BY <1>1, <1>3, <2>1 DEF Changes
  <2>2. CASE u # t
    <3>1. InCall(u) /\ Numbers(u)' = Numbers(u)
      BY <1>3, <2>2 DEF Changes, InCall, Numbers
    <3>. QED
      BY <1>1, <3>1
  <2>. QED
    BY <2>1, <2>2
<1>4. ASSUME NEW u \in Callers \ {v}
      PROVE  file'[u] # file'[v]
  BY <1>1 DEF Changes
<1>. QED
  BY <1>1, <1>2, <1>3, <1>4

LEMMA OpenIntact ==
    ASSUME TypeInv, IntactInv, NEW t \in Callers, Open(t) \/ Release(t)
    PROVE  IntactInv'
<1>1. /\ ~InCall(t) /\ UNCHANGED caller
      /\ \A u \in Callers \ {t} : file'[u] = file[u]
      /\ intact' \subseteq intact \cup {t} /\ intact' \subseteq Callers
  BY FilesTyped DEF TypeInv, TypeOK
<1>2. Changes(t)
  BY FilesChanges
<1>3. ASSUME NEW v \in intact', v # t
      PROVE  /\ file'[v] \in Fds /\ fd'[file'[v]] = FileOf(v)
             /\ \A u \in Callers : InCall(u)' => file'[v] \notin Numbers(u)'
             /\ \A u \in Callers \ {v} : file'[u] # file'[v]
  BY <1>1, <1>2, <1>3, IntactStep
<1>4. ASSUME t \in intact'
      PROVE  /\ file'[t] \in Fds /\ fd'[file'[t]] = FileOf(t)
             /\ \A u \in Callers : InCall(u)' => file'[t] \notin Numbers(u)'
             /\ \A u \in Callers \ {t} : file'[u] # file'[t]
  <2>1. /\ file[t] = None /\ file'[t] \in Fds /\ fd[file'[t]] = None
        /\ \A n \in Fds : fd'[n] = IF n = file'[t] THEN FileOf(t) ELSE fd[n]
        /\ intact' = IF Sound(Callers) THEN intact \cup {t} ELSE intact
    BY <1>4, FilesTyped
  <2>2. t \notin intact
    BY <2>1, SpawnAssumption DEF IntactInv, Fds
  <2>3. Sound(Callers)
    BY <1>4, <2>1, <2>2
  <2>4. \A u \in Callers : ~InCall(u)'
    BY <1>1, <2>3 DEF Sound, InCall
  <2>5. ASSUME NEW u \in Callers \ {t}
        PROVE  file'[u] # file'[t]
    <3>1. file[u] # None => fd[file[u]] # None
      BY <2>3, EndsDiffer DEF Sound
    <3>. QED
      BY <1>1, <2>1, <3>1, SpawnAssumption DEF Fds
  <2>. QED
    BY <2>1, <2>4, <2>5
<1>. QED
  BY <1>1, <1>3, <1>4 DEF IntactInv

LEMMA NextIntact == TypeInv /\ IntactInv /\ [Next]_vars => IntactInv'
<1>. SUFFICES ASSUME TypeInv, IntactInv, [Next]_vars PROVE IntactInv'
  OBVIOUS
<1>1. ASSUME NEW t \in Callers, MakeWritePipe(t) \/ Step(t) \/ Open(t) \/ Release(t)
      PROVE  IntactInv'
  <2>1. CASE Open(t) \/ Release(t)
    BY <2>1, OpenIntact
  <2>2. CASE UNCHANGED <<file, intact>>
    <3>1. Changes(t) /\ intact' = intact /\ file'[t] = file[t] /\ intact \subseteq Callers
      BY <1>1, <2>2, StepChanges DEF TypeInv, TypeOK
    <3>2. ASSUME NEW v \in intact'
          PROVE  /\ file'[v] \in Fds /\ fd'[file'[v]] = FileOf(v)
                 /\ \A u \in Callers : InCall(u)' => file'[v] \notin Numbers(u)'
                 /\ \A u \in Callers \ {v} : file'[u] # file'[v]
      BY <3>1, IntactStep
    <3>. QED
      BY <3>2 DEF IntactInv
  <2>. QED
    BY <1>1, <2>1, <2>2, StepChanges
<1>2. ASSUME NEW c \in Calls, Run(c) PROVE IntactInv'
  BY <1>2 DEF Run, IntactInv, InCall, Numbers
<1>3. CASE UNCHANGED vars
  BY <1>3 DEF vars, IntactInv, InCall, Numbers
<1>. QED
  BY <1>1, <1>2, <1>3 DEF Next

\* A local file that was opened while no call ran, and no file had lost its descriptor,
\* stays open under its number until it is released, whatever calls are made meanwhile.
THEOREM FilesKeptCorrect == Spec => []FilesKept
<1>1. Init => IntactInv
  BY DEF Init, IntactInv
<1>2. IntactInv => FilesKept
  <2>1. None \notin Fds
    BY SpawnAssumption DEF Fds
  <2>. QED
    BY <2>1 DEF IntactInv, FilesKept
<1>. QED
  BY <1>1, <1>2, InitTyped, NextTyped, NextIntact, PTL DEF Spec

-----------------------------------------------------------------------------
(* Calls that have not been made.                                          *)

\* The ends that are open belong to calls that have been made.
LEMMA OwnedMade ==
    ASSUME TypeInv, OwnedInv, NEW n \in Fds, NEW c \in Calls,
           fd[n] = OutR(c) \/ fd[n] = OutW(c)
    PROVE  c <= calls
<1>1. PICK t \in Callers : InCall(t) /\ caller[t].call = c
  BY DEF OwnedInv, HoldsOutR, HoldsOutW, InCall
<1>. QED
  BY <1>1 DEF TypeInv, TypeOK, CallInv

LEMMA ThreadFresh ==
    ASSUME TypeInv, OwnedInv, FreshInv, NEW t \in Callers,
           MakeWritePipe(t) \/ Step(t) \/ Open(t) \/ Release(t)
    PROVE  FreshInv'
<1>1. CASE MakeWritePipe(t)
  <2>1. /\ UNCHANGED <<child, piped>> /\ calls' = calls + 1 /\ calls \in Nat
        /\ Calls \subseteq Nat
    BY <1>1, SpawnAssumption DEF MakeWritePipe, TypeInv, TypeOK, Calls
  <2>2. caller'[t].obj = None /\ \A u \in Callers \ {t} : caller'[u] = caller[u]
    <3>1. CASE CanPipe
      BY <1>1, <3>1, WritePipeMade
    <3>2. CASE ~CanPipe
      BY <1>1, <3>2, WritePipeFailed
    <3>. QED
      BY <3>1, <3>2
  <2>. QED
    BY <2>1, <2>2, EndsDiffer DEF FreshInv
<1>2. CASE Open(t) \/ Release(t)
  BY <1>2, FilesTyped DEF FreshInv
<1>3. CASE MakeReadPipe(t) /\ CanPipe
  <2>1. /\ caller'[t].obj = caller[t].obj
        /\ \A u \in Callers \ {t} : caller'[u] = caller[u]
        /\ UNCHANGED <<child, piped, calls>>
    BY <1>3, ReadPipeMade DEF MakeReadPipe
  <2>. QED
    BY <2>1 DEF FreshInv
<1>4. CASE Leaves(t)
  <2>1. /\ caller'[t].obj = None /\ \A u \in Callers \ {t} : caller'[u] = caller[u]
        /\ UNCHANGED <<child, piped, calls>>
    BY <1>4 DEF Leaves
  <2>. QED
    BY <2>1, EndsDiffer DEF FreshInv
<1>5. CASE \E pc \in PcSet : Closes(t, pc)
  BY <1>5 DEF Closes, Moves, FreshInv
<1>6. CASE Forks(t)
  <2>. DEFINE d == caller[t].call
  <2>0. InCall(t) /\ caller[t].pc # "pipe"
    BY <1>6 DEF Forks, InCall
  <2>1. d \in Calls /\ d <= calls /\ caller[t].outW \in Fds
    BY <2>0, SpawnAssumption DEF TypeInv, TypeOK, CallInv, Calls
  <2>2. /\ child'[caller[t].call].stdout = fd[caller[t].outW]
        /\ \A b \in Calls \ {caller[t].call} : child'[b] = child[b]
        /\ \A u \in Callers : caller'[u].obj = caller[u].obj
        /\ UNCHANGED <<piped, calls>>
    BY <1>6, <2>1 DEF Forks, Moves, TypeInv, TypeOK
  <2>3. ASSUME NEW c \in Calls, c > calls
        PROVE  c # d /\ fd[caller[t].outW] # OutW(c)
    <3>1. calls \in Nat /\ c \in Nat /\ d \in Nat
      BY <2>1, SpawnAssumption DEF TypeInv, TypeOK, Calls
    <3>2. ~ (c <= calls) /\ c # d
      BY <2>1, <2>3, <3>1
    <3>. QED
      BY <2>1, <3>2, OwnedMade
  <2>4. ASSUME NEW c \in Calls, c > calls'
        PROVE  /\ child'[c] = NoChild /\ piped'[c] = {}
               /\ \A u \in Callers : caller'[u].obj # OutR(c)
               /\ \A b \in Calls : child'[b].stdout # OutW(c)
    <3>1. c > calls
      BY <2>2, <2>4
    <3>. QED
      BY <2>1, <2>2, <2>3, <3>1 DEF FreshInv
  <2>. QED
    BY <2>4 DEF FreshInv
<1>7. CASE ReadsOn(t)
  <2>1. \A c \in Calls : c > calls => fd[caller[t].outR] # OutR(c)
    BY <1>7, OwnedMade, SpawnAssumption DEF ReadsOn, TypeInv, TypeOK, Calls
  <2>. QED
    BY <1>7, <2>1 DEF ReadsOn, Moves, FreshInv
<1>8. CASE ReadsLines(t)
  <2>1. PICK c \in Calls : piped' = [piped EXCEPT ![c] = {}]
    BY <1>8 DEF ReadsLines
  <2>2. \A b \in Calls : piped[b] = {} => piped'[b] = {}
    BY <2>1 DEF TypeInv, TypeOK
  <2>. QED
    BY <1>8, <2>2, EndsDiffer DEF ReadsLines, Moves, FreshInv
<1>9. CASE ReadsEnd(t) \/ ReadsFail(t)
  BY <1>9, EndsDiffer DEF ReadsEnd, ReadsFail, Moves, FreshInv
<1>10. CASE MakesBufs(t)
  BY <1>10 DEF MakesBufs, Moves, FreshInv
<1>11. CASE Reading(t)
  BY <1>7, <1>8, <1>9, <1>10, <1>11, ReadingSteps DEF Reads
<1>12. CASE CloseChildsEnds(t) \/ SendEof(t) \/ Wait(t) \/ DeleteBufs(t)
  <2>1. PICK pc \in {"bufs", "wait", "delete", "close"} : Closes(t, pc)
    BY <1>12, ClosesSteps
  <2>. QED
    BY <1>5, <2>1 DEF PcSet
<1>. QED
  BY <1>1, <1>2, <1>3, <1>4, <1>6, <1>12, <1>11, LeavesSteps, ForkSteps
     DEF Step, Reading

LEMMA RunFresh ==
    ASSUME TypeInv, FreshInv, NEW c \in Calls, Run(c)
    PROVE  FreshInv'
<1>1. /\ child[c].alive
      /\ child' = [child EXCEPT ![c] = NoChild]
      /\ piped' = [d \in Calls |->
            IF child[c].stdout = OutW(d) THEN piped[d] \cup {c} ELSE piped[d]]
      /\ UNCHANGED <<caller, calls>>
  BY DEF Run
<1>2. ~NoChild.alive /\ NoChild.stdout = None
  BY DEF NoChild
<1>3. /\ child'[c] = NoChild
      /\ \A b \in Calls \ {c} : child'[b] = child[b]
  BY <1>1 DEF TypeInv, TypeOK
<1>4. \A d \in Calls : d > calls => piped'[d] = piped[d]
  BY <1>1 DEF FreshInv
<1>. QED
  BY <1>1, <1>2, <1>3, <1>4, EndsDiffer DEF FreshInv

LEMMA NextFresh == TypeInv /\ OwnedInv /\ FreshInv /\ [Next]_vars => FreshInv'
<1>. SUFFICES ASSUME TypeInv, OwnedInv, FreshInv, [Next]_vars PROVE FreshInv'
  OBVIOUS
<1>1. CASE UNCHANGED vars
  BY <1>1 DEF vars, FreshInv
<1>. QED
  BY <1>1, ThreadFresh, RunFresh DEF Next

-----------------------------------------------------------------------------
(* Calls that started while no other was in progress.                      *)

\* Nobody else gives up the numbers of such a call.
LEMMA OthersKept ==
    ASSUME TypeInv, SoundInv, NEW t \in Callers, Changes(t),
           NEW u \in Callers \ {t}, InCall(u), caller[u].sound
    PROVE  KeptInv(u)'
<1>. DEFINE c == caller[u].call
<1>1. KeptInv(u) /\ c \in Calls
  BY SpawnAssumption DEF SoundInv, SoundAt, TypeInv, TypeOK, CallInv, Calls
<1>2. /\ caller'[u] = caller[u]
      /\ Live(u)' = Live(u)
      /\ HoldsInR(u)' <=> HoldsInR(u)
      /\ HoldsInW(u)' <=> HoldsInW(u)
      /\ HoldsOutR(u)' <=> HoldsOutR(u)
      /\ HoldsOutW(u)' <=> HoldsOutW(u)
  BY DEF Changes, Live, HoldsInR, HoldsInW, HoldsOutR, HoldsOutW
<1>3. /\ HoldsInR(u) => caller[u].inR \in Live(u)
      /\ HoldsInW(u) => caller[u].inW \in Live(u)
      /\ HoldsOutR(u) => caller[u].outR \in Live(u)
      /\ HoldsOutW(u) => caller[u].outW \in Live(u)
  BY DEF Live, TypeInv, CallInv, HoldsInR, HoldsInW, HoldsOutR, HoldsOutW
<1>4. \A n \in Live(u) : n \in Fds /\ fd[n] # None
  BY <1>1, EndsDiffer DEF KeptInv, Live
<1>5. /\ \A v \in Callers \ {u} : InCall(v) => Numbers(v) \cap Live(u) = {}
      /\ \A v \in Callers \ {u} : InCall(v) => ~caller[v].sound
      /\ \A v \in Callers : file[v] \notin Live(u)
  BY <1>1 DEF KeptInv
<1>6. \A n \in Live(u) : fd'[n] = fd[n]
  BY <1>4, <1>5 DEF Changes
<1>7. ASSUME NEW v \in Callers \ {u}, InCall(v)'
      PROVE  Numbers(v)' \cap Live(u) = {} /\ ~caller'[v].sound
  <2>1. CASE v = t
    <3>1. \A n \in Numbers(t)' :
             n \notin Fds \/ fd[n] = None \/ (InCall(t) /\ n \in Numbers(t))
      BY <1>7, <2>1 DEF Changes
    <3>2. Numbers(t)' \cap Live(u) = {}
      BY <1>4, <1>5, <3>1
    <3>3. ~caller'[t].sound
      BY <1>5, <1>7, <2>1 DEF Changes
    <3>. QED
      BY <2>1, <3>2, <3>3
  <2>2. CASE v # t
    <3>1. InCall(v) /\ Numbers(v)' = Numbers(v) /\ caller'[v] = caller[v]
      BY <1>7, <2>2 DEF Changes, InCall, Numbers
    <3>. QED
      BY <1>5, <3>1
  <2>. QED
    BY <2>1, <2>2
<1>8. \A v \in Callers : file'[v] \notin Live(u)
  BY <1>4, <1>5 DEF Changes
<1>9. /\ HoldsInR(u) => fd'[caller[u].inR] = InR(c)
      /\ HoldsInW(u) => fd'[caller[u].inW] = InW(c)
      /\ HoldsOutR(u) => fd'[caller[u].outR] = OutR(c)
      /\ HoldsOutW(u) => fd'[caller[u].outW] = OutW(c)
  BY <1>1, <1>3, <1>6 DEF KeptInv
<1>. QED
  BY <1>2, <1>7, <1>8, <1>9 DEF KeptInv

\* Thread t leaves the output of the other calls alone.
Respects(t) ==
    \A u \in Callers \ {t} : InCall(u) /\ caller[u].sound =>
        /\ caller'[t].obj # OutR(caller[u].call)
        /\ child'[caller[u].call] = child[caller[u].call]
        /\ piped'[caller[u].call] = piped[caller[u].call]
        /\ \A b \in Calls \ {caller[u].call} :
              child'[b].stdout # OutW(caller[u].call)

\* What a call has open under its numbers is not an end of another's output pipe.
LEMMA OthersPipes ==
    ASSUME TypeInv, OwnedInv, SoundInv, NEW t \in Callers, InCall(t),
           NEW u \in Callers \ {t}, InCall(u), caller[u].sound,
           NEW n \in Numbers(t), n \in Fds
    PROVE  fd[n] # OutR(caller[u].call) /\ fd[n] # OutW(caller[u].call)
<1>. DEFINE c == caller[u].call
<1>1. c \in Calls /\ Numbers(t) \cap Live(u) = {}
  BY SpawnAssumption DEF SoundInv, SoundAt, KeptInv, TypeInv, TypeOK, CallInv, Calls
<1>2. ASSUME NEW v \in Callers, InCall(v), caller[v].call = c
      PROVE  v = u
  BY <1>2 DEF TypeInv, CallInv
<1>3. ASSUME fd[n] = OutR(c) PROVE FALSE
  <2>1. PICK v \in Callers : HoldsOutR(v) /\ caller[v].call = c /\ caller[v].outR = n
    BY <1>1, <1>3 DEF OwnedInv
  <2>2. v = u
    BY <1>2, <2>1 DEF HoldsOutR, InCall
  <2>3. n \in Live(u)
    BY <2>1, <2>2 DEF Live
  <2>. QED
    BY <1>1, <2>3
<1>4. ASSUME fd[n] = OutW(c) PROVE FALSE
  <2>1. PICK v \in Callers : HoldsOutW(v) /\ caller[v].call = c /\ caller[v].outW = n
    BY <1>1, <1>4 DEF OwnedInv
  <2>2. v = u
    BY <1>2, <2>1 DEF HoldsOutW, InCall
  <2>3. n \in Live(u)
    BY <2>1, <2>2 DEF Live
  <2>. QED
    BY <1>1, <2>3
<1>. QED
  BY <1>3, <1>4

LEMMA SoundCall ==
    ASSUME TypeInv, SoundInv, NEW u \in Callers, InCall(u), caller[u].sound
    PROVE  /\ caller[u].call \in Calls
           /\ \A v \in Callers \ {u} : caller[v].obj # OutR(caller[u].call)
           /\ \A b \in Calls \ {caller[u].call} :
                 child[b].stdout # OutW(caller[u].call)
  BY SpawnAssumption
     DEF SoundInv, SoundAt, PrivateInv, TypeInv, TypeOK, CallInv, Calls

\* A step that starts, reads and ends no program.
LEMMA KeepsRespects ==
    ASSUME TypeInv, SoundInv, NEW t \in Callers, UNCHANGED <<child, piped>>,
           caller'[t].obj = None \/ caller'[t].obj = caller[t].obj
    PROVE  Respects(t)
  BY SoundCall, EndsDiffer DEF Respects

LEMMA StepRespects ==
    ASSUME TypeInv, OwnedInv, SoundInv, NEW t \in Callers,
           MakeWritePipe(t) \/ Step(t) \/ Open(t) \/ Release(t)
    PROVE  Respects(t)
<1>1. CASE MakeWritePipe(t)
  <2>1. UNCHANGED <<child, piped>>
    BY <1>1 DEF MakeWritePipe
  <2>2. caller'[t].obj = None
    <3>1. CASE CanPipe
      BY <1>1, <3>1, WritePipeMade
    <3>2. CASE ~CanPipe
      BY <1>1, <3>2, WritePipeFailed
    <3>. QED
      BY <3>1, <3>2
  <2>. QED
    BY <2>1, <2>2, KeepsRespects
<1>2. CASE Open(t) \/ Release(t)
  BY <1>2, FilesTyped, KeepsRespects
<1>3. CASE MakeReadPipe(t) /\ CanPipe
  <2>1. UNCHANGED <<child, piped>> /\ caller'[t].obj = caller[t].obj
    BY <1>3, ReadPipeMade DEF MakeReadPipe
  <2>. QED
    BY <2>1, KeepsRespects
<1>4. CASE Leaves(t)
  BY <1>4, KeepsRespects DEF Leaves
<1>5. CASE CloseChildsEnds(t) \/ SendEof(t) \/ Wait(t) \/ DeleteBufs(t)
  <2>1. PICK pc \in {"bufs", "wait", "delete", "close"} : Closes(t, pc)
    BY <1>5, ClosesSteps
  <2>. QED
    BY <2>1, KeepsRespects DEF Closes
<1>6. CASE Forks(t)
  <2>. DEFINE d == caller[t].call
  <2>1. InCall(t) /\ caller[t].pc # "pipe"
    BY <1>6 DEF Forks, InCall
  <2>2. d \in Calls /\ caller[t].outW \in Fds /\ caller[t].outW \in Numbers(t)
    BY <2>1, SpawnAssumption DEF TypeInv, TypeOK, CallInv, Calls, Numbers
  <2>3. /\ child'[d].stdout = fd[caller[t].outW]
        /\ \A b \in Calls \ {d} : child'[b] = child[b]
        /\ caller'[t].obj = caller[t].obj /\ UNCHANGED piped
    BY <1>6, <2>2 DEF Forks, Moves, TypeInv, TypeOK
  <2>4. ASSUME NEW u \in Callers \ {t}, InCall(u), caller[u].sound
        PROVE  /\ caller'[t].obj # OutR(caller[u].call)
               /\ child'[caller[u].call] = child[caller[u].call]
               /\ piped'[caller[u].call] = piped[caller[u].call]
               /\ \A b \in Calls \ {caller[u].call} :
                     child'[b].stdout # OutW(caller[u].call)
    <3>1. caller[u].call # d
      BY <2>1, <2>4 DEF TypeInv, CallInv
    <3>2. fd[caller[t].outW] # OutW(caller[u].call)
      BY <2>1, <2>2, <2>4, OthersPipes
    <3>. QED
      BY <2>3, <2>4, <3>1, <3>2, SoundCall
  <2>. QED
    BY <2>4 DEF Respects
<1>7. CASE ReadsOn(t)
  <2>1. /\ InCall(t) /\ caller[t].outR \in Fds /\ caller[t].outR \in Numbers(t)
        /\ caller'[t].obj = fd[caller[t].outR] /\ UNCHANGED <<child, piped>>
    BY <1>7 DEF ReadsOn, InCall, Numbers
  <2>2. ASSUME NEW u \in Callers \ {t}, InCall(u), caller[u].sound
        PROVE  caller'[t].obj # OutR(caller[u].call)
    BY <2>1, <2>2, OthersPipes
  <2>. QED
    BY <2>1, <2>2, SoundCall DEF Respects
<1>8. CASE ReadsLines(t)
  <2>1. PICK c \in Calls : caller[t].obj = OutR(c) /\ piped' = [piped EXCEPT ![c] = {}]
    BY <1>8 DEF ReadsLines
  <2>2. caller'[t].obj = None /\ UNCHANGED child
    BY <1>8 DEF ReadsLines
  <2>3. ASSUME NEW u \in Callers \ {t}, InCall(u), caller[u].sound
        PROVE  piped'[caller[u].call] = piped[caller[u].call]
    <3>1. caller[u].call \in Calls /\ caller[u].call # c
      BY <2>1, <2>3, SoundCall
    <3>. QED
      BY <2>1, <3>1 DEF TypeInv, TypeOK
  <2>. QED
    BY <2>2, <2>3, SoundCall, EndsDiffer DEF Respects
<1>9. CASE ReadsEnd(t) \/ ReadsFail(t) \/ MakesBufs(t)
  BY <1>9, KeepsRespects DEF ReadsEnd, ReadsFail, MakesBufs
<1>10. CASE Reading(t)
  BY <1>7, <1>8, <1>9, <1>10, ReadingSteps DEF Reads
<1>. QED
  BY <1>1, <1>2, <1>3, <1>4, <1>5, <1>6, <1>10, LeavesSteps, ForkSteps
     DEF Step, Reading

LEMMA OthersSound ==
    ASSUME TypeInv, OwnedInv, SoundInv, NEW t \in Callers,
           MakeWritePipe(t) \/ Step(t) \/ Open(t) \/ Release(t),
           NEW u \in Callers \ {t}
    PROVE  SoundAt(u)'
<1>. SUFFICES ASSUME caller'[u].sound, InCall(u)' \/ caller'[u].pc = "done"
              PROVE  /\ InCall(u)' => KeptInv(u)' /\ PrivateInv(u)'
                     /\ OutputInv(u)'
  BY DEF SoundAt
<1>. DEFINE c == caller[u].call
<1>1. /\ Changes(t) /\ Respects(t)
      /\ caller'[u] = caller[u]
      /\ InCall(u)' <=> InCall(u)
      /\ \A v \in Callers \ {t} : caller'[v] = caller[v]
  BY StepChanges, StepRespects DEF Changes, InCall
<1>2. CASE InCall(u)
  <2>1. KeptInv(u)'
    BY <1>1, <1>2, OthersKept
  <2>2. /\ caller'[t].obj # OutR(c) /\ child'[c] = child[c] /\ piped'[c] = piped[c]
        /\ \A b \in Calls \ {c} : child'[b].stdout # OutW(c)
    BY <1>1, <1>2 DEF Respects
  <2>3. PrivateInv(u)'
    BY <1>1, <1>2, <2>2, SoundCall DEF PrivateInv
  <2>4. OutputInv(u)
    BY <1>1, <1>2 DEF SoundInv, SoundAt
  <2>5. OutputInv(u)'
    BY <1>1, <2>2, <2>4 DEF OutputInv
  <2>. QED
    BY <2>1, <2>3, <2>5
<1>3. CASE ~InCall(u)
  <2>1. caller[u].pc = "done" /\ caller[u].sound
    BY <1>1, <1>3
  <2>2. caller[u].got = {c}
    BY <2>1 DEF SoundInv, SoundAt, OutputInv
  <2>3. OutputInv(u)'
    BY <1>1, <2>1, <2>2 DEF OutputInv
  <2>. QED
    BY <1>1, <1>3, <2>3
<1>. QED
  BY <1>2, <1>3

\* When no call is in progress and every file is behind its number, the numbers of a
\* new pipe are those of nobody.
LEMMA FilesApart ==
    ASSUME NEW T \in SUBSET Callers, Sound(T), NEW n \in Fds, fd[n] = None
    PROVE  \A u \in Callers : file[u] # n
<1>1. \A u \in Callers : file[u] # None => fd[file[u]] # None
  BY EndsDiffer DEF Sound
<1>2. n # None
  BY SpawnAssumption DEF Fds
<1>. QED
  BY <1>1, <1>2

LEMMA WritePipeSound ==
    ASSUME TypeInv, FreshInv, NEW t \in Callers, MakeWritePipe(t)
    PROVE  SoundAt(t)'
<1>1. CASE CanPipe
  <2>1. PICK r, w \in Fds :
           /\ r # w /\ fd[r] = None /\ fd[w] = None
           /\ \A n \in Fds : fd'[n] = IF n = r THEN InR(calls')
                                     ELSE IF n = w THEN InW(calls') ELSE fd[n]
           /\ caller'[t].inR = r /\ caller'[t].inW = w
    BY <1>1, WritePipeMade
  <2>2. /\ calls' \in Calls /\ calls' > calls
        /\ caller'[t].pc = "pipe" /\ caller'[t].call = calls'
        /\ caller'[t].obj = None /\ caller'[t].got = {}
        /\ caller'[t].sound = Sound(Callers)
        /\ \A u \in Callers \ {t} : caller'[u] = caller[u]
        /\ UNCHANGED <<child, piped, file>>
    <3>1. /\ calls' \in Calls /\ calls' = calls + 1
          /\ caller'[t].pc = "pipe" /\ caller'[t].call = calls'
          /\ caller'[t].obj = None /\ caller'[t].got = {}
          /\ caller'[t].sound = Sound(Callers)
          /\ \A u \in Callers \ {t} : caller'[u] = caller[u]
      BY <1>1, WritePipeMade
    <3>2. UNCHANGED <<child, piped, file>>
      BY DEF MakeWritePipe
    <3>3. calls \in Nat
      BY SpawnAssumption DEF TypeInv, TypeOK
    <3>. QED
      BY <3>1, <3>2, <3>3
  <2>. SUFFICES ASSUME Sound(Callers)
                PROVE  KeptInv(t)' /\ PrivateInv(t)' /\ OutputInv(t)'
    BY <2>2 DEF SoundAt
  <2>3. KeptInv(t)'
    <3>1. /\ HoldsInR(t)' /\ HoldsInW(t)' /\ ~HoldsOutR(t)' /\ ~HoldsOutW(t)'
          /\ Live(t)' = {r, w}
      BY <2>1, <2>2 DEF HoldsInR, HoldsInW, HoldsOutR, HoldsOutW, Live
    <3>2. fd'[caller'[t].inR] = InR(calls') /\ fd'[caller'[t].inW] = InW(calls')
      BY <2>1
    <3>3. \A u \in Callers \ {t} : ~InCall(u)'
      BY <2>2 DEF Sound, InCall
    <3>4. \A u \in Callers : file'[u] \notin {r, w}
      BY <2>1, <2>2, FilesApart
    <3>. QED
      BY <2>2, <3>1, <3>2, <3>3, <3>4 DEF KeptInv
  <2>4. /\ child[calls'] = NoChild /\ piped[calls'] = {}
        /\ \A u \in Callers : caller[u].obj # OutR(calls')
        /\ \A b \in Calls : child[b].stdout # OutW(calls')
    BY <2>2 DEF FreshInv
  <2>5. PrivateInv(t)'
    BY <2>2, <2>4 DEF PrivateInv
  <2>6. OutputInv(t)'
    BY <2>2, <2>4 DEF OutputInv
  <2>. QED
    BY <2>3, <2>5, <2>6
<1>2. CASE ~CanPipe
  <2>1. caller'[t].pc = "failed"
    BY <1>2, WritePipeFailed
  <2>. QED
    BY <2>1 DEF SoundAt, InCall
<1>. QED
  BY <1>1, <1>2

LEMMA ReadPipeSound ==
    ASSUME TypeInv, SoundInv, NEW t \in Callers, MakeReadPipe(t), CanPipe
    PROVE  SoundAt(t)'
<1>. DEFINE c == caller[t].call
<1>1. PICK r, w \in Fds :
         /\ r # w /\ fd[r] = None /\ fd[w] = None
         /\ \A n \in Fds : fd'[n] = IF n = r THEN OutR(caller[t].call)
                                   ELSE IF n = w THEN OutW(caller[t].call) ELSE fd[n]
         /\ caller'[t].outR = r /\ caller'[t].outW = w
  BY ReadPipeMade
<1>2. /\ caller[t].pc = "pipe" /\ caller'[t].pc = "fork" /\ caller'[t].call = c
      /\ caller'[t].inR = caller[t].inR /\ caller'[t].inW = caller[t].inW
      /\ caller'[t].obj = caller[t].obj /\ caller'[t].got = caller[t].got
      /\ caller'[t].sound = (caller[t].sound /\ Sound(Callers \ {t}))
      /\ \A u \in Callers \ {t} : caller'[u] = caller[u]
      /\ UNCHANGED <<child, piped, file>>
  BY ReadPipeMade DEF MakeReadPipe
<1>3. c \in Calls /\ caller[t].inR \in Fds /\ caller[t].inW \in Fds /\ InCall(t)
  BY <1>2, SpawnAssumption DEF TypeInv, TypeOK, CallInv, InCall, Calls
<1>. SUFFICES ASSUME caller[t].sound, Sound(Callers \ {t})
              PROVE  KeptInv(t)' /\ PrivateInv(t)' /\ OutputInv(t)'
  BY <1>2 DEF SoundAt
<1>4. KeptInv(t) /\ PrivateInv(t) /\ OutputInv(t)
  BY <1>3 DEF SoundInv, SoundAt
<1>5. KeptInv(t)'
  <2>1. /\ HoldsInR(t)' /\ HoldsInW(t)' /\ HoldsOutR(t)' /\ HoldsOutW(t)'
        /\ Live(t)' = {caller[t].inR, caller[t].inW, r, w}
    BY <1>1, <1>2, <1>3 DEF HoldsInR, HoldsInW, HoldsOutR, HoldsOutW, Live
  <2>2. /\ HoldsInR(t) /\ HoldsInW(t)
        /\ Live(t) = {caller[t].inR, caller[t].inW}
    BY <1>2, <1>3 DEF HoldsInR, HoldsInW, HoldsOutR, HoldsOutW, Live
  <2>3. fd[caller[t].inR] = InR(c) /\ fd[caller[t].inW] = InW(c)
    BY <1>4, <2>2 DEF KeptInv
  <2>4. /\ fd'[caller'[t].inR] = InR(c) /\ fd'[caller'[t].inW] = InW(c)
        /\ fd'[caller'[t].outR] = OutR(c) /\ fd'[caller'[t].outW] = OutW(c)
    BY <1>1, <1>2, <1>3, <2>3, EndsDiffer
  <2>5. \A u \in Callers \ {t} : ~InCall(u)'
    BY <1>2 DEF Sound, InCall
  <2>6. \A u \in Callers : file'[u] \notin {caller[t].inR, caller[t].inW, r, w}
    <3>1. \A u \in Callers : file[u] # r /\ file[u] # w
      BY <1>1, FilesApart
    <3>2. \A u \in Callers : file[u] \notin Live(t)
      BY <1>4 DEF KeptInv
    <3>. QED
      BY <1>2, <2>2, <3>1, <3>2
  <2>. QED
    BY <1>2, <2>1, <2>4, <2>5, <2>6 DEF KeptInv
<1>6. PrivateInv(t)'
  BY <1>2, <1>4 DEF PrivateInv
<1>7. OutputInv(t)'
  BY <1>2, <1>4 DEF OutputInv
<1>. QED
  BY <1>5, <1>6, <1>7

LEMMA LeavesSound ==
    ASSUME TypeInv, SoundInv, NEW t \in Callers, Leaves(t)
    PROVE  SoundAt(t)'
<1>1. /\ InCall(t) /\ ~InCall(t)' /\ caller'[t].call = caller[t].call
      /\ caller'[t].got = caller[t].got /\ caller'[t].sound = caller[t].sound
      /\ caller'[t].pc = "done" => caller[t].pc = "close"
  BY DEF Leaves, InCall
<1>. SUFFICES ASSUME caller[t].sound, caller'[t].pc = "done"
              PROVE  OutputInv(t)'
  BY <1>1 DEF SoundAt
<1>2. caller[t].got = {caller[t].call}
  BY <1>1 DEF SoundInv, SoundAt, OutputInv
<1>. QED
  BY <1>1, <1>2 DEF OutputInv

\* A call that goes on without a change of the descriptors it still needs.
LEMMA MovesKept ==
    ASSUME TypeInv, SoundInv, NEW t \in Callers, NEW pc, Moves(t, pc),
           InCall(t), InCall(t)', caller[t].sound, UNCHANGED file,
           HoldsInR(t)' => HoldsInR(t),
           HoldsInW(t)' => HoldsInW(t),
           HoldsOutR(t)' => HoldsOutR(t),
           HoldsOutW(t)' => HoldsOutW(t),
           \A n \in Live(t)' : fd'[n] = fd[n]
    PROVE  KeptInv(t)'
<1>1. /\ caller'[t].call = caller[t].call
      /\ caller'[t].inR = caller[t].inR /\ caller'[t].inW = caller[t].inW
      /\ caller'[t].outR = caller[t].outR /\ caller'[t].outW = caller[t].outW
      /\ \A u \in Callers \ {t} : caller'[u] = caller[u]
  BY DEF Moves
<1>2. Live(t)' \subseteq Live(t) /\ KeptInv(t)
  BY <1>1 DEF Live, SoundInv, SoundAt
<1>3. /\ HoldsInR(t)' => caller[t].inR \in Live(t)'
      /\ HoldsInW(t)' => caller[t].inW \in Live(t)'
      /\ HoldsOutR(t)' => caller[t].outR \in Live(t)'
      /\ HoldsOutW(t)' => caller[t].outW \in Live(t)'
  BY <1>1 DEF Live, TypeInv, CallInv, HoldsInR, HoldsInW, HoldsOutR, HoldsOutW, InCall
<1>4. \A u \in Callers \ {t} :
         InCall(u)' => InCall(u) /\ Numbers(u)' = Numbers(u) /\ caller'[u] = caller[u]
  BY <1>1 DEF InCall, Numbers
<1>5. \A u \in Callers \ {t} :
         InCall(u)' => Numbers(u)' \cap Live(t)' = {} /\ ~caller'[u].sound
  BY <1>2, <1>4 DEF KeptInv
<1>6. \A u \in Callers : file'[u] \notin Live(t)'
  BY <1>2 DEF KeptInv
<1>7. /\ HoldsInR(t)' => fd'[caller[t].inR] = InR(caller[t].call)
      /\ HoldsInW(t)' => fd'[caller[t].inW] = InW(caller[t].call)
      /\ HoldsOutR(t)' => fd'[caller[t].outR] = OutR(caller[t].call)
      /\ HoldsOutW(t)' => fd'[caller[t].outW] = OutW(caller[t].call)
  BY <1>2, <1>3 DEF KeptInv
<1>. QED
  BY <1>1, <1>5, <1>6, <1>7 DEF KeptInv

LEMMA ClosesSound ==
    ASSUME TypeInv, SoundInv, NEW t \in Callers, NEW pc, Closes(t, pc)
    PROVE  SoundAt(t)'
<1>. DEFINE c == caller[t].call
<1>1. /\ InCall(t) /\ InCall(t)' /\ Moves(t, pc) /\ caller[t].pc # "pipe"
      /\ UNCHANGED <<child, piped, file>>
      /\ caller'[t].obj = caller[t].obj /\ caller'[t].got = caller[t].got
      /\ SameBufs(t)
  BY DEF Closes, InCall, Moves
<1>. SUFFICES ASSUME caller[t].sound
              PROVE  KeptInv(t)' /\ PrivateInv(t)' /\ OutputInv(t)'
  BY <1>1 DEF SoundAt, Moves
<1>2. KeptInv(t) /\ PrivateInv(t) /\ OutputInv(t) /\ c \in Calls
  BY <1>1, SpawnAssumption DEF SoundInv, SoundAt, TypeInv, TypeOK, CallInv, Calls
<1>3. pc # "bufs" => /\ caller[t].inBuf /\ caller[t].outBuf
                     /\ caller'[t].inBuf /\ caller'[t].outBuf
  BY <1>1, <1>2 DEF Closes, OutputInv, SameBufs
<1>4. /\ HoldsInR(t)' => HoldsInR(t)
      /\ HoldsInW(t)' => HoldsInW(t)
      /\ HoldsOutR(t)' => HoldsOutR(t)
      /\ HoldsOutW(t)' => HoldsOutW(t)
  BY <1>1, <1>3 DEF Closes, Moves, HoldsInR, HoldsInW, HoldsOutR, HoldsOutW
<1>5. ASSUME NEW n \in Live(t)' PROVE fd'[n] = fd[n]
  <2>1. /\ n \in Fds
        /\ \/ HoldsInR(t)' /\ n = caller[t].inR
           \/ HoldsInW(t)' /\ n = caller[t].inW
           \/ HoldsOutR(t)' /\ n = caller[t].outR
           \/ HoldsOutW(t)' /\ n = caller[t].outW
    BY <1>1 DEF Live, Moves
  <2>2. CASE pc = "bufs"
    <3>1. /\ fd[caller[t].inR] = InR(c) /\ fd[caller[t].inW] = InW(c)
          /\ fd[caller[t].outR] = OutR(c) /\ fd[caller[t].outW] = OutW(c)
      BY <1>2, <2>2 DEF Closes, KeptInv, HoldsInR, HoldsInW, HoldsOutR, HoldsOutW
    <3>2. n = caller[t].inW \/ n = caller[t].outR
      BY <1>1, <2>1, <2>2 DEF Moves, HoldsInR, HoldsInW, HoldsOutR, HoldsOutW
    <3>3. n # caller[t].inR /\ n # caller[t].outW
      BY <1>2, <3>1, <3>2, EndsDiffer
    <3>. QED
      BY <2>1, <2>2, <3>3 DEF Closes
  <2>3. CASE pc = "wait"
    <3>1. fd[caller[t].inW] = InW(c) /\ fd[caller[t].outR] = OutR(c)
      BY <1>2, <2>3 DEF Closes, KeptInv, HoldsInW, HoldsOutR
    <3>2. n = caller[t].outR
      BY <1>1, <1>3, <2>1, <2>3 DEF Moves, HoldsInR, HoldsInW, HoldsOutR, HoldsOutW
    <3>3. n # caller[t].inW
      BY <1>2, <3>1, <3>2, EndsDiffer
    <3>. QED
      BY <2>1, <2>3, <3>3 DEF Closes
  <2>4. CASE pc = "delete"
    BY <2>1, <2>4 DEF Closes
  <2>5. CASE pc = "close"
    BY <1>1, <1>3, <2>1, <2>5 DEF Moves, HoldsInR, HoldsInW, HoldsOutR, HoldsOutW
  <2>. QED
    BY <2>2, <2>3, <2>4, <2>5 DEF Closes
<1>6. KeptInv(t)'
  BY <1>1, <1>4, <1>5, MovesKept
<1>7. PrivateInv(t)'
  BY <1>1, <1>2 DEF PrivateInv, Moves
<1>8. OutputInv(t)'
  <2>1. CASE pc = "bufs"
    BY <1>1, <1>2, <2>1 DEF OutputInv, Moves, Closes
  <2>2. CASE pc # "bufs"
    <3>1. caller[t].got = {c}
      BY <1>2, <2>2 DEF OutputInv, Closes
    <3>. QED
      BY <1>1, <1>3, <2>2, <3>1 DEF OutputInv, Moves, Closes
  <2>. QED
    BY <2>1, <2>2
<1>. QED
  BY <1>6, <1>7, <1>8

LEMMA ForksSound ==
    ASSUME TypeInv, SoundInv, NEW t \in Callers, Forks(t)
    PROVE  SoundAt(t)'
<1>. DEFINE c == caller[t].call
<1>1. /\ InCall(t) /\ InCall(t)' /\ Moves(t, "forked") /\ caller[t].pc = "fork"
      /\ UNCHANGED <<fd, piped, file>>
      /\ caller'[t].obj = caller[t].obj /\ caller'[t].got = caller[t].got
  BY DEF Forks, InCall, Moves
<1>. SUFFICES ASSUME caller[t].sound
              PROVE  KeptInv(t)' /\ PrivateInv(t)' /\ OutputInv(t)'
  BY <1>1 DEF SoundAt, Moves
<1>2. KeptInv(t) /\ PrivateInv(t) /\ OutputInv(t) /\ c \in Calls
  BY <1>1, SpawnAssumption DEF SoundInv, SoundAt, TypeInv, TypeOK, CallInv, Calls
<1>3. fd[caller[t].outW] = OutW(c)
  BY <1>1, <1>2 DEF KeptInv, HoldsOutW
<1>4. /\ child'[c].alive /\ child'[c].stdout = OutW(c)
      /\ \A b \in Calls \ {c} : child'[b] = child[b]
  BY <1>2, <1>3 DEF Forks, TypeInv, TypeOK
<1>5. KeptInv(t)'
  BY <1>1, MovesKept DEF Moves, HoldsInR, HoldsInW, HoldsOutR, HoldsOutW
<1>6. PrivateInv(t)'
  BY <1>1, <1>2, <1>4 DEF PrivateInv, Moves
<1>7. OutputInv(t)'
  BY <1>1, <1>2, <1>4 DEF OutputInv, Moves
<1>. QED
  BY <1>5, <1>6, <1>7

\* The read of a sound call is on its own output pipe, which ends only after all that
\* its program has printed has been read.
LEMMA ReadsSound ==
    ASSUME TypeInv, SoundInv, NEW t \in Callers, Reads(t)
    PROVE  SoundAt(t)'
<1>. DEFINE c == caller[t].call
<1>1. PICK pc \in {"read", "reading", "eof", "spin"} :
         /\ Moves(t, pc)
         /\ caller[t].pc \in {"bufs", "read", "reading"}
         /\ UNCHANGED <<fd, child, file>>
  BY ReadsMoves
<1>2. InCall(t) /\ InCall(t)' /\ caller[t].pc # "pipe"
  BY <1>1 DEF InCall, Moves
<1>. SUFFICES ASSUME caller[t].sound
              PROVE  KeptInv(t)' /\ PrivateInv(t)' /\ OutputInv(t)'
  BY <1>1, <1>2 DEF SoundAt, Moves
<1>3. KeptInv(t) /\ PrivateInv(t) /\ OutputInv(t) /\ c \in Calls
  BY <1>2, SpawnAssumption DEF SoundInv, SoundAt, TypeInv, TypeOK, CallInv, Calls
<1>4. KeptInv(t)'
  BY <1>1, <1>2, MovesKept DEF Moves, HoldsInR, HoldsInW, HoldsOutR, HoldsOutW
<1>5. PrivateInv(t)'
  BY <1>1, <1>3 DEF PrivateInv, Moves
<1>6. caller'[t].call = c
  BY <1>1 DEF Moves
<1>7. caller[t].pc # "bufs" => caller[t].inBuf /\ caller[t].outBuf
  BY <1>1, <1>3 DEF OutputInv
<1>8. CASE MakesBufs(t)
  <2>1. fd[caller[t].inW] = InW(c) /\ fd[caller[t].outR] = OutR(c)
    BY <1>3, <1>8 DEF MakesBufs, KeptInv, HoldsInW, HoldsOutR
  <2>2. caller'[t].inBuf /\ caller'[t].outBuf
    <3>1. Opens(InW(c), "w") = {TRUE} /\ Opens(OutR(c), "r") = {TRUE}
      <4>1. InW(c)[2] = "w" /\ OutR(c)[2] = "r" /\ InW(c) # None /\ OutR(c) # None
        BY <1>3, EndsDiffer DEF InW, OutR
      <4>. QED
        BY <4>1 DEF Opens
    <3>2. caller'[t].inBuf \in {TRUE} /\ caller'[t].outBuf \in {TRUE}
      BY <1>8, <2>1, <3>1 DEF MakesBufs
    <3>3. caller'[t].inBuf = TRUE /\ caller'[t].outBuf = TRUE
      BY <3>2
    <3>. QED
      BY <3>3
  <2>3. caller'[t].pc = "read" /\ caller'[t].got = caller[t].got
        /\ UNCHANGED <<child, piped>>
    BY <1>8, <2>2 DEF MakesBufs, Moves
  <2>. QED
    BY <1>3, <1>4, <1>5, <1>6, <1>8, <2>2, <2>3 DEF OutputInv, MakesBufs
<1>9. ~ReadsFail(t)
  BY <1>3 DEF OutputInv, ReadsFail
<1>10. CASE ReadsOn(t)
  <2>1. /\ caller'[t].pc = "reading" /\ caller'[t].got = caller[t].got
        /\ caller'[t].obj = OutR(c) /\ UNCHANGED <<child, piped>>
        /\ caller'[t].inBuf /\ caller'[t].outBuf
    BY <1>3, <1>10, <1>7 DEF ReadsOn, Moves, SameBufs, KeptInv, HoldsOutR
  <2>. QED
    BY <1>3, <1>4, <1>5, <1>6, <1>10, <2>1 DEF OutputInv, ReadsOn
<1>11. CASE ReadsLines(t)
  <2>1. PICK b \in Calls, lines \in SUBSET Calls :
           /\ caller[t].obj = OutR(b) /\ lines # {} /\ lines \subseteq piped[b]
           /\ piped' = [piped EXCEPT ![b] = {}]
           /\ caller'[t].got = caller[t].got \cup lines
           /\ Moves(t, "read") \/ Moves(t, "eof")
    BY <1>11 DEF ReadsLines
  <2>2. b = c
    BY <1>3, <1>11, <2>1, EndsDiffer DEF OutputInv, ReadsLines
  <2>3. /\ ~child[c].alive /\ piped[c] = {c} /\ caller[t].got = {}
    BY <1>3, <1>11, <2>1, <2>2 DEF OutputInv, ReadsLines
  <2>4. /\ caller'[t].got = {c} /\ piped'[c] = {} /\ ~child'[c].alive
        /\ caller'[t].pc \in {"read", "eof"}
    BY <1>1, <1>3, <1>11, <2>1, <2>2, <2>3 DEF ReadsLines, Moves, TypeInv, TypeOK
  <2>5. caller'[t].inBuf /\ caller'[t].outBuf
    BY <1>11, <1>7 DEF ReadsLines, SameBufs
  <2>. QED
    BY <1>4, <1>5, <1>6, <2>4, <2>5 DEF OutputInv
<1>12. CASE ReadsEnd(t)
  <2>1. PICK lines \in SUBSET {0} :
          /\ caller'[t].got = caller[t].got \cup lines
          /\ lines # {} => \E u \in Callers : caller[t].obj = FileOf(u)
    BY <1>12 DEF ReadsEnd
  <2>2. caller[t].obj = OutR(c)
    BY <1>3, <1>12 DEF OutputInv, ReadsEnd
  <2>3. lines = {}
    BY <1>3, <2>1, <2>2, EndsDiffer
  <2>4. piped[c] = {} /\ ~Written(OutW(c))
    BY <1>3, <1>12, <2>2 DEF ReadsEnd
  <2>5. ~ (child[c].alive /\ child[c].stdout = OutW(c))
    BY <1>3, <2>4 DEF Written
  <2>6. caller[t].got = {c}
    BY <1>3, <1>12, <2>4, <2>5 DEF OutputInv, ReadsEnd
  <2>7. /\ caller'[t].got = {c} /\ caller'[t].pc = "eof"
        /\ caller'[t].inBuf /\ caller'[t].outBuf
    BY <1>12, <1>7, <2>1, <2>3, <2>6 DEF ReadsEnd, Moves, SameBufs
  <2>. QED
    BY <1>4, <1>5, <1>6, <2>7 DEF OutputInv
<1>. QED
  BY <1>10, <1>11, <1>12, <1>8, <1>9 DEF Reads

LEMMA FilesSound ==
    ASSUME TypeInv, SoundInv, NEW t \in Callers, Open(t) \/ Release(t)
    PROVE  SoundAt(t)'
<1>1. ~InCall(t) /\ UNCHANGED <<child, piped, caller>>
  BY FilesTyped
<1>2. SoundAt(t)
  BY DEF SoundInv
<1>. QED
  BY <1>1, <1>2 DEF SoundAt, InCall, OutputInv

LEMMA ThreadSound ==
    ASSUME TypeInv, FreshInv, SoundInv, NEW t \in Callers,
           MakeWritePipe(t) \/ Step(t) \/ Open(t) \/ Release(t)
    PROVE  SoundAt(t)'
<1>1. CASE MakeReadPipe(t)
  BY <1>1, ReadPipeSound, LeavesSteps, LeavesSound
<1>2. CASE Fork(t)
  BY <1>2, ForkSteps, ForksSound, LeavesSound
<1>3. CASE CloseChildsEnds(t) \/ SendEof(t) \/ Wait(t) \/ DeleteBufs(t)
  BY <1>3, ClosesSteps, ClosesSound
<1>4. CASE Reading(t)
  BY <1>4, ReadingSteps, ReadsSound
<1>5. CASE ClosePipes(t)
  BY <1>5, LeavesSteps, LeavesSound
<1>. QED
  BY <1>1, <1>2, <1>3, <1>4, <1>5, WritePipeSound, FilesSound DEF Step, Reading

\* The program of a sound call prints into its own output pipe, and no other program
\* does.
LEMMA RunSound ==
    ASSUME TypeInv, SoundInv, NEW d \in Calls, Run(d), NEW u \in Callers
    PROVE  SoundAt(u)'
<1>. DEFINE c == caller[u].call
<1>1. /\ child[d].alive
      /\ child' = [child EXCEPT ![d] = NoChild]
      /\ piped' = [e \in Calls |->
            IF child[d].stdout = OutW(e) THEN piped[e] \cup {d} ELSE piped[e]]
      /\ UNCHANGED <<fd, caller, file>>
  BY DEF Run
<1>2. ~NoChild.alive /\ NoChild.stdout = None
  BY DEF NoChild
<1>3. /\ child'[d] = NoChild
      /\ \A b \in Calls \ {d} : child'[b] = child[b]
  BY <1>1 DEF TypeInv, TypeOK
<1>4. CASE caller[u].sound /\ InCall(u)
  <2>1. KeptInv(u) /\ PrivateInv(u) /\ OutputInv(u) /\ c \in Calls
    BY <1>4, SpawnAssumption DEF SoundInv, SoundAt, TypeInv, TypeOK, CallInv, Calls
  <2>2. KeptInv(u)'
    BY <1>1, <2>1
       DEF KeptInv, Live, Numbers, InCall, HoldsInR, HoldsInW, HoldsOutR, HoldsOutW
  <2>3. PrivateInv(u)'
    BY <1>1, <1>2, <1>3, <2>1, EndsDiffer DEF PrivateInv
  <2>4. CASE d # c
    <3>1. child'[c] = child[c] /\ piped'[c] = piped[c]
      BY <1>1, <1>3, <2>1, <2>4 DEF PrivateInv
    <3>2. OutputInv(u)'
      BY <1>1, <2>1, <3>1 DEF OutputInv
    <3>. QED
      BY <2>2, <2>3, <3>2 DEF SoundAt
  <2>5. CASE d = c
    <3>1. /\ caller[u].pc \notin {"pipe", "fork"}
          /\ caller[u].pc \in {"forked", "bufs", "read", "reading"} =>
                child[c].stdout = OutW(c) /\ piped[c] = {} /\ caller[u].got = {}
      BY <1>1, <1>2, <2>1, <2>5 DEF OutputInv
    <3>2. /\ ~child'[c].alive
          /\ caller[u].pc \in {"forked", "bufs", "read", "reading"} => piped'[c] = {c}
      BY <1>1, <1>2, <1>3, <2>1, <2>5, <3>1
    <3>3. OutputInv(u)'
      BY <1>1, <2>1, <3>1, <3>2 DEF OutputInv
    <3>. QED
      BY <2>2, <2>3, <3>3 DEF SoundAt
  <2>. QED
    BY <2>4, <2>5
<1>5. CASE caller[u].sound /\ ~InCall(u)
  BY <1>1, <1>5 DEF SoundInv, SoundAt, InCall, OutputInv
<1>6. CASE ~caller[u].sound
  BY <1>1, <1>6 DEF SoundAt
<1>. QED
  BY <1>4, <1>5, <1>6

LEMMA NextSound ==
    TypeInv /\ OwnedInv /\ FreshInv /\ SoundInv /\ [Next]_vars => SoundInv'
<1>. SUFFICES ASSUME TypeInv, OwnedInv, FreshInv, SoundInv, [Next]_vars,
                     NEW u \in Callers
              PROVE  SoundAt(u)'
  BY DEF SoundInv
<1>1. ASSUME NEW t \in Callers, MakeWritePipe(t) \/ Step(t) \/ Open(t) \/ Release(t)
      PROVE  SoundAt(u)'
  <2>1. CASE u = t
    BY <1>1, <2>1, ThreadSound
  <2>2. CASE u # t
    BY <1>1, <2>2, OthersSound
  <2>. QED
    BY <2>1, <2>2
<1>2. ASSUME NEW d \in Calls, Run(d) PROVE SoundAt(u)'
  BY <1>2, RunSound
<1>3. CASE UNCHANGED vars
  <2>1. SoundAt(u)
    BY DEF SoundInv
  <2>. QED
    BY <1>3, <2>1
       DEF vars, SoundAt, KeptInv, PrivateInv, OutputInv, Live, Numbers, InCall,
           HoldsInR, HoldsInW, HoldsOutR, HoldsOutW
<1>. QED
  BY <1>1, <1>2, <1>3 DEF Next

\* A call that made its two pipes while no other call ran, and no file had lost its
\* descriptor, gets the output of its program and nothing else.
THEOREM SoundOutputCorrect == Spec => []SoundOutput
<1>1. Init => FreshInv /\ SoundInv
  <2>. SUFFICES ASSUME Init PROVE FreshInv /\ SoundInv
    OBVIOUS
  <2>1. FreshInv
    BY EndsDiffer DEF Init, FreshInv, Idle, NoChild
  <2>2. SoundInv
    BY DEF Init, SoundInv, SoundAt, Idle
  <2>. QED
    BY <2>1, <2>2
<1>2. SoundInv => SoundOutput
  BY DEF SoundInv, SoundAt, OutputInv, SoundOutput
<1>. QED
  BY <1>1, <1>2, InitTyped, NextTyped, InitOwned, NextOwned, NextFresh, NextSound, PTL
     DEF Spec
=============================================================================

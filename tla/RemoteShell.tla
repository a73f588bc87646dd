---------------------------- MODULE RemoteShell ----------------------------
(***************************************************************************)
(* What the callbacks of adbncfs rely on when they run a command on the    *)
(* device: a call returns the lines its own command wrote, all of them in  *)
(* order unless the connection has broken, and then the first of them.     *)
(***************************************************************************)
EXTENDS Naturals

CONSTANTS
    Threads,    \* the callers
    MaxLines,   \* bound on the lines a command writes
    None

VARIABLES
    asked,   \* the threads with a call in progress
    reply,   \* per thread: what its last call returned
    broken   \* the connection is gone

vars == <<asked, reply, broken>>

\* The first got of the written lines of t's command, in order.
Lines(t, got, written) ==
    [lines |-> [i \in 1..got |-> <<t, i>>], written |-> written]

Init ==
    /\ asked = {}
    /\ reply = [t \in Threads |-> Lines(t, 0, 0)]
    /\ broken = FALSE

Ask(t) ==
    /\ t \notin asked
    /\ asked' = asked \cup {t}
    /\ reply' = [reply EXCEPT ![t] = None]
    /\ UNCHANGED broken

Return(t) ==
    /\ t \in asked
    /\ asked' = asked \ {t}
    /\ \E written \in 0..MaxLines, got \in 0..MaxLines :
          /\ IF broken THEN got <= written ELSE got = written
          /\ reply' = [reply EXCEPT ![t] = Lines(t, got, written)]
    /\ UNCHANGED broken

Break ==
    /\ broken' = TRUE
    /\ UNCHANGED <<asked, reply>>

Next == (\E t \in Threads : Ask(t) \/ Return(t)) \/ Break

Spec == Init /\ [][Next]_vars
=============================================================================

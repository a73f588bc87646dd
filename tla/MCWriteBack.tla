---------------------------- MODULE MCWriteBack ----------------------------
(* Small instances of WriteBack for TLC.                                   *)
EXTENDS WriteBack, TLC

CONSTANTS p1, p2, h1, h2

\* Local names are identified with the paths they are made from.
MCLocalOf == [p \in Paths |-> p]

\* No definition tells two handles apart, nor two paths unless one of them
\* exists on the host.
HandleSymmetry == Permutations(Handles)
Symmetry == HandleSymmetry \cup Permutations(Paths)
=============================================================================

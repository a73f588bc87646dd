---------------------------- MODULE MCFileCache ----------------------------
(* Small instances of FileCache for TLC: a directory d with a file f in it *)
(* and another entry e beside d.                                           *)
EXTENDS FileCache, TLC

CONSTANTS d, f, e, t1, t2

MCParentOf == [p \in Paths |-> IF p = f /\ d \in Paths THEN d ELSE None]

Symmetry == Permutations(Threads)
=============================================================================

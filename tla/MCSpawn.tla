------------------------------ MODULE MCSpawn ------------------------------
(* Small instances of Spawn for TLC.                                       *)
EXTENDS Spawn

CONSTANTS t1, t2
=============================================================================

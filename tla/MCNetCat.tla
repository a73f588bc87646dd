------------------------------ MODULE MCNetCat ------------------------------
(* Small instances of NetCat for TLC.                                      *)
EXTENDS NetCat

CONSTANTS t1, t2, t3
=============================================================================

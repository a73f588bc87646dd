----------------------------- MODULE MCOpenDirs -----------------------------
(* Small instances of OpenDirs for TLC.                                    *)
EXTENDS OpenDirs

CONSTANTS d1, d2, h1, h2, h3
=============================================================================

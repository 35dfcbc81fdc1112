------------------------------- MODULE MCDump -------------------------------
(***************************************************************************)
(* A dump for TLC: a ring of two, and an MTU so small that a dump takes    *)
(* several chunks.                                                         *)
(***************************************************************************)
EXTENDS BleDump
=============================================================================

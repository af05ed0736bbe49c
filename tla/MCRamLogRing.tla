---------------------------- MODULE MCRamLogRing ----------------------------
(***************************************************************************)
(* Small instances of the RAM log ring for TLC.  No symmetry: the runs     *)
(* check liveness.                                                         *)
(***************************************************************************)
EXTENDS RamLogRing
=============================================================================

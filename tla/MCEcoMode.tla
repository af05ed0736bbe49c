----------------------------- MODULE MCEcoMode -----------------------------
(***************************************************************************)
(* Small instances of the eco mode for TLC.                                *)
(***************************************************************************)
EXTENDS EcoMode
=============================================================================

---------------------------- MODULE MCContactLog ----------------------------
(***************************************************************************)
(* Small instances of the contact pipeline for TLC.                        *)
(***************************************************************************)
EXTENDS ContactLog

(* Thresholds in the order of the source's: two at 0 and 1, one that the   *)
(* 16-bit count still reaches, and one beyond it.                          *)
Levels == <<0, 1, 3, 5>>
=============================================================================

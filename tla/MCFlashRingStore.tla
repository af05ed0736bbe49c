-------------------------- MODULE MCFlashRingStore --------------------------
(***************************************************************************)
(* Small instances of the flash ring store for TLC.                        *)
(***************************************************************************)
EXTENDS FlashRingStoreProofs
=============================================================================

---------------------------- MODULE MCSelfReport ----------------------------
(***************************************************************************)
(* Small instances of the LEDs and the self-report button for TLC.         *)
(***************************************************************************)
EXTENDS SelfReport

(* The defaults of the project's configuration.                            *)
AllOff == [led_active |-> FALSE, firework_active |-> FALSE]
=============================================================================

---------------------------- MODULE Transmitter ----------------------------
(***************************************************************************)
(* The control transmitter (Network_Control_nrf54/src/main.c): it carries  *)
(* one command in its firmware, starts to advertise it when button 3 is    *)
(* pressed and stops at button 4, with an LED that blinks meanwhile.  The  *)
(* buttons' interrupts only submit work; the handlers run one after the    *)
(* other on the system work queue, as does the blinking.                   *)
(***************************************************************************)
EXTENDS Naturals, Sequences

CONSTANTS
  Silent,       \* nothing is on air
  Messages,     \* the commands a transmitter is flashed with
  MaxPresses    \* bound: buttons pressed and firmwares flashed, together

ASSUME SilentAssumption == Silent \notin Messages

VARIABLES
  mfg_data,     \* the command in the firmware
  on_air,       \* what the controller advertises
  adv_work,     \* adv_start_work, adv_stop_work, in the order submitted
  led_blinking, \* adv_led_blink_work is scheduled
  presses       \* presses still to come

transmitterVars == <<mfg_data, on_air, adv_work, led_blinking, presses>>

(* Each of the two works is queued at most once.                           *)
WorkQueue(queue) ==
  /\ queue \in Seq({"start", "stop"})
  /\ \A i, j \in 1 .. Len(queue) : queue[i] = queue[j] => i = j

TransmitterTypeOK ==
  /\ mfg_data \in Messages
  /\ on_air \in Messages \union {Silent}
  /\ WorkQueue(adv_work)
  /\ led_blinking \in BOOLEAN
  /\ presses \in 0 .. MaxPresses

TransmitterInit ==
  /\ mfg_data \in Messages
  /\ on_air = Silent
  /\ adv_work = <<>>
  /\ led_blinking = FALSE
  /\ presses = MaxPresses

Queued(work) == \E i \in 1 .. Len(adv_work) : adv_work[i] = work

(* button_start_pressed, button_stop_pressed: work that is still queued is *)
(* not queued again.                                                       *)
Press ==
  /\ presses > 0 /\ presses' = presses - 1
  /\ \E work \in {"start", "stop"} :
       ~Queued(work) /\ adv_work' = Append(adv_work, work)
  /\ UNCHANGED <<mfg_data, on_air, led_blinking>>

Runs(work) == adv_work # <<>> /\ Head(adv_work) = work /\ adv_work' = Tail(adv_work)

(* Variant: a failed start lights the LED all the same.                    *)
StartFailsUnnoticed ==
  Runs("start") /\ led_blinking' = TRUE /\ on_air' = on_air

StartFails ==
  Runs("start") /\ UNCHANGED <<on_air, led_blinking>>

(* Also when it is on air already (-EALREADY).                             *)
StartSucceeds ==
  /\ Runs("start")
  /\ on_air' = mfg_data
  /\ led_blinking' = TRUE

StopFails ==
  Runs("stop") /\ UNCHANGED <<on_air, led_blinking>>

StopSucceeds ==
  /\ Runs("stop")
  /\ on_air' = Silent
  /\ led_blinking' = FALSE

AdvWork ==
  /\ StartFails \/ StartSucceeds \/ StopFails \/ StopSucceeds
  /\ UNCHANGED <<mfg_data, presses>>

(* Another command is flashed, and the transmitter starts anew.            *)
Reflash ==
  /\ presses > 0 /\ presses' = presses - 1
  /\ mfg_data' \in Messages \ {mfg_data}
  /\ on_air' = Silent
  /\ adv_work' = <<>>
  /\ led_blinking' = FALSE

Transmit == Press \/ AdvWork \/ Reflash

(* The LED is all that an operator sees of the transmitter: it blinks as   *)
(* long as the command is on air, whatever fails and however the buttons   *)
(* follow each other (main.c:49-51).                                       *)
LightTellsTheTruth == led_blinking <=> on_air # Silent
=============================================================================

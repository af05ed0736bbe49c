----------------------------- MODULE SelfReport -----------------------------
(***************************************************************************)
(* The self-report button (self_report.c) beside the LEDs it flashes.  An  *)
(* edge of the pin restarts the debounce delay; the debounced button       *)
(* starts and cancels the long press, which stores a report in the RAM log *)
(* ring of RamLogRing.  Both handlers run on the system work queue.        *)
(***************************************************************************)
EXTENDS Led

VARIABLES
  pin,              \* the button is down
  button_pressed,   \* debounced
  debounce_work, long_press_work,
  misread,          \* the last debounced reading of the pin failed, or the
                    \* pin changed before its interrupt was enabled
  answered          \* the long press of this button_pressed was handled

buttonVars == <<pin, button_pressed, debounce_work, long_press_work, misread,
                answered>>
vars == <<ledVars, buttonVars>>

TypeOK ==
  /\ LedTypeOK
  /\ pin \in BOOLEAN /\ button_pressed \in BOOLEAN
  /\ debounce_work \subseteq Pending /\ long_press_work \subseteq Pending
  /\ misread \in BOOLEAN /\ answered \in BOOLEAN

(* self_report_button_handler, the interrupt at both edges.                *)
Edge ==
  /\ pin' = ~pin
  /\ debounce_work' = Rescheduled(debounce_work)
  /\ UNCHANGED <<ledVars, button_pressed, long_press_work, misread, answered>>

(* self_report_button_is_pressed: a failed reading counts as released.     *)
Reads(pressed, fails) ==
  /\ pressed = (pin /\ ~fails)
  /\ IF fails THEN Fails ELSE UNCHANGED events

(* Variant: the release does not cancel the long press.                    *)
LongPressKept(pressed) == Rescheduled(long_press_work)

LongPress(pressed) == IF pressed THEN Rescheduled(long_press_work) ELSE {}

Changes(pressed) == pressed # button_pressed

Debounce ==
  /\ "queued" \in debounce_work
  /\ debounce_work' = debounce_work \ {"queued"}
  /\ \E pressed \in BOOLEAN, fails \in BOOLEAN :
       /\ Reads(pressed, fails)
       /\ misread' = fails
       /\ IF Changes(pressed)
          THEN /\ button_pressed' = pressed
               /\ long_press_work' = LongPress(pressed)
               /\ answered' = FALSE
          ELSE UNCHANGED <<button_pressed, long_press_work, answered>>
  /\ UNCHANGED <<params, lights, works, firework_running, eco, pc, commands,
                 pin>>

(* A report is stored, unless the ring refuses it.                         *)
LongPressEnds ==
  /\ "queued" \in long_press_work
  /\ long_press_work' = long_press_work \ {"queued"}
  /\ answered' = TRUE
  /\ \E pressed \in BOOLEAN, fails \in BOOLEAN, accepted \in BOOLEAN :
       /\ Reads(pressed, fails)
       /\ IF pressed /\ accepted THEN SignalSelfReport
          ELSE UNCHANGED <<report_led, led_self_report_work>>
  /\ UNCHANGED <<params, led_on, eco_led, led_blink_work, led_firework_work,
                 firework_running, eco, pc, commands, pin,
                 button_pressed, debounce_work, misread>>

ButtonDelayEnds ==
  /\ \/ /\ "delayed" \in debounce_work
        /\ debounce_work' = {"queued"}
        /\ UNCHANGED long_press_work
     \/ /\ "delayed" \in long_press_work
        /\ long_press_work' = {"queued"}
        /\ UNCHANGED debounce_work
  /\ UNCHANGED <<ledVars, pin, button_pressed, misread, answered>>

(* self_report_init reads the button once; a button held then is a press.  *)
(* It enables the interrupt later, and sees no edge before that.           *)
ButtonInit ==
  /\ pin \in BOOLEAN /\ misread \in BOOLEAN
  /\ button_pressed = (pin # misread)
  /\ debounce_work = {}
  /\ long_press_work = IF button_pressed THEN {"delayed"} ELSE {}
  /\ answered = FALSE

Init == LedInit /\ ButtonInit

Restart ==
  /\ LedRestart
  /\ misread' \in BOOLEAN
  /\ button_pressed' = (pin # misread')
  /\ debounce_work' = {}
  /\ long_press_work' = IF button_pressed' THEN {"delayed"} ELSE {}
  /\ answered' = FALSE
  /\ UNCHANGED pin

Next ==
  \/ LedNext /\ UNCHANGED buttonVars
  \/ Edge \/ Debounce \/ LongPressEnds \/ ButtonDelayEnds
  \/ Restart

Spec == Init /\ [][Next]_vars

-----------------------------------------------------------------------------
(* What the LEDs and the button promise.                                   *)

(* Between commands the firework is as the parameters ask, and goes on.    *)
FireworkAsAsked ==
  /\ firework_running = params_led.firework_active
  /\ firework_running => led_firework_work # {}

(* A lit LED has somebody who will switch it off.                          *)
NoLightStays ==
  ~firework_running =>
    /\ led_on => led_blink_work # {}
    /\ report_led => led_self_report_work # {}
    /\ eco_led => eco /\ EcoIndicator

(* Flash holds the parameters, or the fault bit is set.                    *)
ParamsKept ==
  \/ led_fault
  \/ stored = CurrentRecord(params_led)
  \/ stored.version = "none" /\ params_led = DefaultParams

(* Whichever handlers, eco mode, flashes and restarts fell between the     *)
(* steps of the commands, between commands the LEDs and flash have settled:*)
(* no light burns without a handler to end it, the firework is on exactly  *)
(* when it was asked for, and a restart will find what is in force.  That  *)
(* the blinking goes on, and rests in eco mode, is not said: it need not,  *)
(* see ScheduleNextBlink.                                                  *)
LedsSettle == pc = "idle" => FireworkAsAsked /\ NoLightStays /\ ParamsKept

(* Once the debounce delay is over the button counts as what the pin is,   *)
(* unless misread; a press is timed until its long press was handled, once,*)
(* and a release cancels it.  The handler stores a report only if it reads *)
(* the pin as down: a release shorter than the debounce delay at that      *)
(* moment costs the report of a button that is held on, which this         *)
(* property allows.                                                        *)
PressIsTimed ==
  /\ debounce_work = {} => button_pressed = pin \/ misread
  /\ button_pressed => (long_press_work = {} <=> answered)
  /\ ~button_pressed => long_press_work = {}
=============================================================================

-------------------------------- MODULE Led --------------------------------
(***************************************************************************)
(* The beacon's LEDs (led.c): a status LED that blinks, a self-report LED  *)
(* that flashes, an indicator of eco mode, and the firework, which takes   *)
(* all three.  Work handlers and motion's suspend and resume run on the    *)
(* system work queue, which is cooperative, and block nowhere: each is one *)
(* action.  A command runs on the storage work queue and may be preempted  *)
(* between any two of its steps (pc).  The LEDs are present and their GPIO *)
(* calls succeed; the blinking interval is left out.                       *)
(***************************************************************************)
EXTENDS Naturals

CONSTANTS
  DefaultParams,  \* CONFIG_DSA_DEFAULT_LED_ACTIVE, _FIREWORK_ACTIVE
  EcoIndicator,   \* CONFIG_DSA_DEV_ECO_LED_INDICATOR
  MaxCommands,    \* bound: commands received
  MaxEvents       \* bound: failing calls and restarts

VARIABLES
  params_led,
  old_params,            \* command_old_params_led, defaults when not used
  stored, led_fault,     \* record in flash; STORAGE_FAULT_LED_PARAMS
  led_on, report_led, eco_led,  \* what is lit
  led_blink_work, led_firework_work, led_self_report_work,
  firework_running,
  eco,                   \* motion has suspended the blinking
  pc,                    \* next step of the command
  commands, events       \* those still to come

lights == <<led_on, report_led, eco_led>>
params == <<params_led, old_params, stored, led_fault>>
works == <<led_blink_work, led_firework_work, led_self_report_work>>
ledVars ==
  <<params, lights, works, firework_running, eco, pc, commands, events>>

Params == [led_active : BOOLEAN, firework_active : BOOLEAN]

ASSUME DefaultAssumption == DefaultParams \in Params /\ EcoIndicator \in BOOLEAN
ASSUME BoundAssumption == MaxCommands \in Nat /\ MaxEvents \in Nat

(* A delayable work item waits for its time, for the work queue, or both.  *)
Pending == {"delayed", "queued"}
Rescheduled(work) == (work \intersect {"queued"}) \union {"delayed"}

(* The record in flash: as this program writes it, one of the older formats*)
(* (without the firework, or the active flag only, with and without a      *)
(* header), absent, or not readable.                                       *)
Version == {"current", "no_firework", "active_only", "legacy", "none", "bad"}
Record == [version : Version, params : Params]

LedTypeOK ==
  /\ params_led \in Params /\ old_params \in Params
  /\ stored \in Record /\ led_fault \in BOOLEAN
  /\ led_on \in BOOLEAN /\ report_led \in BOOLEAN /\ eco_led \in BOOLEAN
  /\ led_blink_work \subseteq Pending /\ led_firework_work \subseteq Pending
  /\ led_self_report_work \subseteq Pending
  /\ firework_running \in BOOLEAN /\ eco \in BOOLEAN
  /\ pc \in {"idle", "apply", "save", "firework", "start", "stop", "blink"}
  /\ commands \in 0 .. MaxCommands /\ events \in 0 .. MaxEvents

Fails == events > 0 /\ events' = events - 1

-----------------------------------------------------------------------------
(* Blinking.                                                               *)

(* led_schedule_next_blink.  It does not ask whether the blinking is       *)
(* suspended, and its caller may find the LED off for the moment that a    *)
(* command needs to switch it on again.                                    *)
ScheduleNextBlink ==
  led_blink_work' = IF params_led.led_active THEN Rescheduled(led_blink_work)
                    ELSE led_blink_work

(* Variant: the LED is left as it is.                                      *)
CancelBlinking == led_blink_work' = {} /\ UNCHANGED led_on

StopBlinking == led_blink_work' = {} /\ led_on' = FALSE

(* Motion enters and leaves eco mode.                                      *)
SuspendBlinking ==
  /\ ~eco /\ eco' = TRUE
  /\ StopBlinking
  /\ eco_led' = (eco_led \/ EcoIndicator)
  /\ UNCHANGED <<params, report_led, led_firework_work, led_self_report_work,
                 firework_running, pc, commands, events>>

ResumeBlinking ==
  /\ eco /\ eco' = FALSE
  /\ ScheduleNextBlink
  /\ eco_led' = (eco_led /\ ~EcoIndicator)
  /\ UNCHANGED <<params, led_on, report_led, led_firework_work,
                 led_self_report_work, firework_running, pc, commands, events>>

(* led_blink_handler.                                                      *)
BlinkOff ==
  /\ ~params_led.led_active
  /\ led_on' = FALSE
  /\ led_blink_work' = led_blink_work \ {"queued"}

BlinkOn ==
  /\ params_led.led_active
  /\ led_on' = ~led_on
  /\ led_blink_work' = {"delayed"}

Blink ==
  /\ "queued" \in led_blink_work
  /\ BlinkOff \/ BlinkOn
  /\ UNCHANGED <<params, report_led, eco_led, led_firework_work,
                 led_self_report_work, firework_running, eco, pc, commands,
                 events>>

-----------------------------------------------------------------------------
(* The firework: one LED at a time, at random.                             *)

Firework ==
  /\ "queued" \in led_firework_work
  /\ IF firework_running
     THEN /\ \E candidate \in {"led", "self_report", "eco"} :
               /\ led_on' = (candidate = "led")
               /\ report_led' = (candidate = "self_report")
               /\ eco_led' = (candidate = "eco")
          /\ led_firework_work' = {"delayed"}
     ELSE /\ led_firework_work' = led_firework_work \ {"queued"}
          /\ UNCHANGED lights
  /\ UNCHANGED <<params, led_blink_work, led_self_report_work,
                 firework_running, eco, pc, commands, events>>

(* The flash for a self-report (led_signal_self_report), and its end.      *)
SignalSelfReport ==
  /\ report_led' = TRUE
  /\ led_self_report_work' = Rescheduled(led_self_report_work)

SelfReportLedOff ==
  /\ "queued" \in led_self_report_work
  /\ led_self_report_work' = led_self_report_work \ {"queued"}
  /\ report_led' = FALSE
  /\ UNCHANGED <<params, led_on, eco_led, led_blink_work, led_firework_work,
                 firework_running, eco, pc, commands, events>>

(* Time passes for one of the work items.                                  *)
LedDelayEnds ==
  /\ \/ /\ "delayed" \in led_blink_work
        /\ led_blink_work' = {"queued"}
        /\ UNCHANGED <<led_firework_work, led_self_report_work>>
     \/ /\ "delayed" \in led_firework_work
        /\ led_firework_work' = {"queued"}
        /\ UNCHANGED <<led_blink_work, led_self_report_work>>
     \/ /\ "delayed" \in led_self_report_work
        /\ led_self_report_work' = {"queued"}
        /\ UNCHANGED <<led_blink_work, led_firework_work>>
  /\ UNCHANGED <<params, lights, firework_running, eco, pc, commands, events>>

-----------------------------------------------------------------------------
(* A command notes the parameters, sets them one by one, any number of     *)
(* times, and commits the whole.                                           *)

CommandBegin ==
  /\ pc = "idle"
  /\ commands > 0 /\ commands' = commands - 1
  /\ old_params' = params_led
  /\ pc' = "apply"
  /\ UNCHANGED <<params_led, stored, led_fault, lights, works,
                 firework_running, eco, events>>

ApplyCommand ==
  /\ pc = "apply"
  /\ \/ \E on \in BOOLEAN : params_led' = [params_led EXCEPT !.led_active = on]
     \/ \E on \in BOOLEAN :
          params_led' = [params_led EXCEPT !.firework_active = on]
     \/ params_led' = DefaultParams
  /\ UNCHANGED <<old_params, stored, led_fault, lights, works,
                 firework_running, eco, pc, commands, events>>

(* Unchanged parameters end the command; the interval, which is not        *)
(* modelled, may have changed where the others have not.                   *)
CommandCommit ==
  /\ pc = "apply"
  /\ \/ pc' = "idle" /\ params_led = old_params
     \/ pc' = "save"
  /\ old_params' = DefaultParams
  /\ UNCHANGED <<params_led, stored, led_fault, lights, works,
                 firework_running, eco, commands, events>>

CurrentRecord(p) == [version |-> "current", params |-> p]

ParamsSave ==
  /\ pc = "save"
  /\ \/ /\ stored' = CurrentRecord(params_led) /\ led_fault' = FALSE
        /\ UNCHANGED events
     \/ Fails /\ led_fault' = TRUE /\ UNCHANGED stored
  /\ pc' = "firework"
  /\ UNCHANGED <<params_led, old_params, lights, works, firework_running, eco,
                 commands>>

(* led_firework_start and led_firework_stop do nothing the second time.    *)
FireworkSwitch ==
  /\ pc = "firework"
  /\ firework_running' = params_led.firework_active
  /\ pc' = IF params_led.firework_active
           THEN IF firework_running THEN "idle" ELSE "start"
           ELSE IF firework_running THEN "stop" ELSE "blink"
  /\ UNCHANGED <<params, lights, works, eco, commands, events>>

FireworkStart ==
  /\ pc = "start"
  /\ StopBlinking
  /\ led_firework_work' = {"queued"}
  /\ pc' = "idle"
  /\ UNCHANGED <<params, report_led, eco_led, led_self_report_work,
                 firework_running, eco, commands, events>>

FireworkStop ==
  /\ pc = "stop"
  /\ led_firework_work' = {}
  /\ led_on' = FALSE /\ report_led' = FALSE /\ eco_led' = FALSE
  /\ ScheduleNextBlink
  /\ pc' = "blink"
  /\ UNCHANGED <<params, led_self_report_work, firework_running, eco,
                 commands, events>>

CommitBlinking ==
  /\ pc = "blink"
  /\ IF params_led.led_active
     THEN ScheduleNextBlink /\ UNCHANGED led_on
     ELSE StopBlinking
  /\ pc' = "idle"
  /\ UNCHANGED <<params, report_led, eco_led, led_firework_work,
                 led_self_report_work, firework_running, eco, commands,
                 events>>

-----------------------------------------------------------------------------
(* Start-up.                                                               *)

(* What of an older record is taken over: what it lacks has its default.   *)
Migrated(record) ==
  CurrentRecord([DefaultParams EXCEPT !.led_active = record.params.led_active])

(* led_params_load: parameters, record and fault bit after it.  An older   *)
(* record is written anew; a read or that write may fail.                  *)
Loads(record, failing) ==
  LET Loaded(p, s, f) == [params |-> p, stored |-> s, fault |-> f]
  IN CASE failing = "read" \/ record.version = "bad" ->
            Loaded(DefaultParams, record, TRUE)
       [] failing # "read" /\ record.version = "none" ->
            Loaded(DefaultParams, record, FALSE)
       [] failing # "read" /\ record.version = "current" ->
            Loaded(record.params, record, FALSE)
       [] OTHER ->
            Loaded(Migrated(record).params,
                   IF failing = "save" THEN record ELSE Migrated(record),
                   failing = "save")

Failing == {"none", "read", "save"}

(* led_init after that: the firework starts, or the blinking.              *)
BlinkAtStart(p) ==
  IF p.led_active /\ ~p.firework_active THEN {"delayed"} ELSE {}
FireworkAtStart(p) == IF p.firework_active THEN {"queued"} ELSE {}

LedInit ==
  \E record \in Record, failing \in Failing :
    LET loaded == Loads(record, failing)
    IN /\ params_led = loaded.params /\ old_params = DefaultParams
       /\ stored = loaded.stored /\ led_fault = loaded.fault
       /\ led_on = FALSE /\ report_led = FALSE /\ eco_led = FALSE
       /\ led_blink_work = BlinkAtStart(loaded.params)
       /\ led_firework_work = FireworkAtStart(loaded.params)
       /\ led_self_report_work = {}
       /\ firework_running = loaded.params.firework_active
       /\ eco = FALSE /\ pc = "idle"
       /\ commands = MaxCommands /\ events = MaxEvents

LedRestart ==
  /\ Fails
  /\ \E failing \in Failing :
       LET loaded == Loads(stored, failing)
       IN /\ params_led' = loaded.params /\ old_params' = DefaultParams
          /\ stored' = loaded.stored /\ led_fault' = loaded.fault
          /\ led_blink_work' = BlinkAtStart(loaded.params)
          /\ led_firework_work' = FireworkAtStart(loaded.params)
          /\ firework_running' = loaded.params.firework_active
  /\ led_on' = FALSE /\ report_led' = FALSE /\ eco_led' = FALSE
  /\ led_self_report_work' = {}
  /\ eco' = FALSE /\ pc' = "idle"
  /\ UNCHANGED commands

LedNext ==
  \/ SuspendBlinking \/ ResumeBlinking \/ Blink
  \/ Firework \/ SelfReportLedOff \/ LedDelayEnds
  \/ CommandBegin \/ ApplyCommand \/ CommandCommit \/ ParamsSave
  \/ FireworkSwitch \/ FireworkStart \/ FireworkStop \/ CommitBlinking
=============================================================================

-------------------------- MODULE SelfReportProofs --------------------------
(***************************************************************************)
(* Proofs about the LEDs and the self-report button, for any defaults, any *)
(* record in flash and any number of commands, failing calls and restarts. *)
(***************************************************************************)
EXTENDS SelfReport, TLAPS

-----------------------------------------------------------------------------
(* The inductive invariant: what the LEDs do while a command is under way. *)

(* Until a command is committed the LEDs go by the parameters before it.   *)
InForce == IF pc = "apply" THEN old_params ELSE params_led

(* The firework goes by the parameters once it was switched, and its work  *)
(* item is pending but while a command is about to submit it.              *)
FireworkHolds ==
  /\ pc \notin {"save", "firework"} =>
       firework_running = InForce.firework_active
  /\ firework_running /\ pc # "start" => led_firework_work # {}
  /\ pc = "start" => firework_running
  /\ pc \in {"stop", "blink"} => ~firework_running

(* The lights hold outside of the firework, and until a command that ends  *)
(* it has cleaned up.                                                      *)
LightsHold == pc # "stop" => NoLightStays

(* Flash holds what is in force, but between a commit and its save.        *)
KeptHolds ==
  \/ pc = "save"
  \/ led_fault
  \/ stored = CurrentRecord(InForce)
  \/ stored.version = "none" /\ InForce = DefaultParams

(* The long press never waits for its time and for the work queue at once, *)
(* so that its handler is the end of it.                                   *)
ButtonHolds == long_press_work # Pending

IInv ==
  /\ TypeOK
  /\ FireworkHolds /\ LightsHold /\ KeptHolds
  /\ ButtonHolds /\ PressIsTimed

-----------------------------------------------------------------------------
(* Lemmas about the model's operators.                                     *)

LEMMA RescheduledPending ==
  ASSUME NEW work \in SUBSET Pending
  PROVE  Rescheduled(work) \subseteq Pending /\ Rescheduled(work) # {}
BY DEF Rescheduled, Pending

LEMMA CurrentIsRecord ==
  ASSUME NEW p \in Params
  PROVE  CurrentRecord(p) \in Record
BY DEF CurrentRecord, Record, Version

(* Whatever the record and whichever call fails, a start leaves parameters *)
(* that are those in flash, or the defaults without a record, or the fault *)
(* bit set.                                                                *)
LEMMA LoadsKeep ==
  ASSUME NEW record \in Record, NEW failing \in Failing
  PROVE  LET loaded == Loads(record, failing)
         IN /\ loaded.params \in Params
            /\ loaded.stored \in Record
            /\ loaded.fault \in BOOLEAN
            /\ \/ loaded.fault
               \/ loaded.stored = CurrentRecord(loaded.params)
               \/ loaded.stored.version = "none" /\ loaded.params = DefaultParams
<1>1. /\ record.params \in Params
      /\ record = [version |-> record.version, params |-> record.params]
      /\ DefaultParams \in Params
  BY DefaultAssumption DEF Record
<1>2. PICK p \in Params : Migrated(record) = CurrentRecord(p)
  BY <1>1 DEF Migrated, Params
<1>3. /\ Migrated(record).params = p
      /\ CurrentRecord(p) \in Record
  BY <1>2, CurrentIsRecord DEF CurrentRecord
<1>4. CASE failing = "read" \/ record.version = "bad"
  BY <1>1, <1>4 DEF Loads
<1>5. CASE failing # "read" /\ record.version = "none"
  BY <1>1, <1>5 DEF Loads
<1>6. CASE failing # "read" /\ record.version = "current"
  BY <1>1, <1>6 DEF Loads, CurrentRecord
<1>7. CASE failing # "read" /\ record.version \notin {"bad", "none", "current"}
  BY <1>1, <1>2, <1>3, <1>7 DEF Loads
<1> QED
  BY <1>4, <1>5, <1>6, <1>7

-----------------------------------------------------------------------------
(* The initial states.                                                     *)

LEMMA InitInvariant == Init => IInv
<1> SUFFICES ASSUME Init PROVE IInv
  OBVIOUS
<1> USE DEF Init, ButtonInit
<1>1. PICK record \in Record, failing \in Failing :
        LET loaded == Loads(record, failing)
        IN /\ params_led = loaded.params /\ old_params = DefaultParams
           /\ stored = loaded.stored /\ led_fault = loaded.fault
           /\ led_on = FALSE /\ report_led = FALSE /\ eco_led = FALSE
           /\ led_blink_work = BlinkAtStart(loaded.params)
           /\ led_firework_work = FireworkAtStart(loaded.params)
           /\ led_self_report_work = {}
           /\ firework_running = loaded.params.firework_active
           /\ eco = FALSE /\ pc = "idle"
           /\ commands = MaxCommands /\ events = MaxEvents
  BY DEF LedInit
<1>2. /\ params_led \in Params /\ stored \in Record /\ led_fault \in BOOLEAN
      /\ \/ led_fault
         \/ stored = CurrentRecord(params_led)
         \/ stored.version = "none" /\ params_led = DefaultParams
  BY <1>1, LoadsKeep
<1>3. /\ firework_running = params_led.firework_active
      /\ params_led.firework_active \in BOOLEAN /\ params_led.led_active \in BOOLEAN
      /\ led_blink_work = BlinkAtStart(params_led)
      /\ led_firework_work = FireworkAtStart(params_led)
  BY <1>1, <1>2 DEF Params
<1>4. /\ led_blink_work \subseteq Pending /\ led_firework_work \subseteq Pending
      /\ led_self_report_work \subseteq Pending
  BY <1>1, <1>3 DEF BlinkAtStart, FireworkAtStart, Pending
<1>5. LedTypeOK
  <2>1. /\ commands \in 0 .. MaxCommands /\ events \in 0 .. MaxEvents
        /\ old_params \in Params /\ firework_running \in BOOLEAN
    BY <1>1, <1>3, DefaultAssumption, BoundAssumption
  <2> QED
    BY <1>1, <1>2, <1>4, <2>1 DEF LedTypeOK
<1>6. TypeOK
  BY <1>1, <1>5 DEF TypeOK, Pending
<1>7. FireworkHolds
  BY <1>1, <1>3 DEF FireworkHolds, InForce, FireworkAtStart
<1>8. LightsHold /\ KeptHolds
  BY <1>1, <1>2 DEF LightsHold, NoLightStays, KeptHolds, InForce
<1>9. ButtonHolds /\ PressIsTimed
  BY DEF ButtonHolds, PressIsTimed, Pending
<1> QED
  BY <1>6, <1>7, <1>8, <1>9 DEF IInv

-----------------------------------------------------------------------------
(* A step of the program.                                                  *)

(* What a restart leaves behind.                                           *)
LEMMA RestartDoes ==
  ASSUME TypeOK, Restart
  PROVE  /\ params_led' \in Params /\ stored' \in Record /\ led_fault' \in BOOLEAN
         /\ old_params' = DefaultParams
         /\ \/ led_fault'
            \/ stored' = CurrentRecord(params_led')
            \/ stored'.version = "none" /\ params_led' = DefaultParams
         /\ led_blink_work' = BlinkAtStart(params_led')
         /\ led_firework_work' = FireworkAtStart(params_led')
         /\ firework_running' = params_led'.firework_active
         /\ params_led'.firework_active \in BOOLEAN
         /\ params_led'.led_active \in BOOLEAN
<1>1. stored \in Record
  BY DEF TypeOK, LedTypeOK
<1>2. PICK failing \in Failing :
        LET loaded == Loads(stored, failing)
        IN /\ params_led' = loaded.params /\ old_params' = DefaultParams
           /\ stored' = loaded.stored /\ led_fault' = loaded.fault
           /\ led_blink_work' = BlinkAtStart(loaded.params)
           /\ led_firework_work' = FireworkAtStart(loaded.params)
           /\ firework_running' = loaded.params.firework_active
  BY DEF Restart, LedRestart
<1>3. /\ params_led' \in Params /\ stored' \in Record /\ led_fault' \in BOOLEAN
      /\ \/ led_fault'
         \/ stored' = CurrentRecord(params_led')
         \/ stored'.version = "none" /\ params_led' = DefaultParams
  BY <1>1, <1>2, LoadsKeep
<1> QED
  BY <1>2, <1>3 DEF Params

(* Types: a step of the LEDs or of a command.                              *)
LEMMA LedTypesKept ==
  ASSUME TypeOK, LedNext
  PROVE  LedTypeOK'
<1> USE DefaultAssumption, RescheduledPending, BoundAssumption
    DEF TypeOK, LedTypeOK, params, lights, works
<1>1. CASE SuspendBlinking
  BY <1>1 DEF SuspendBlinking, StopBlinking
<1>2. CASE ResumeBlinking
  BY <1>2 DEF ResumeBlinking, ScheduleNextBlink
<1>3. CASE Blink
  BY <1>3 DEF Blink, BlinkOn, BlinkOff, Pending
<1>4. CASE Firework
  BY <1>4 DEF Firework, Pending
<1>5. CASE SelfReportLedOff
  BY <1>5 DEF SelfReportLedOff, Pending
<1>6. CASE LedDelayEnds
  <2>1. /\ led_blink_work' \subseteq Pending /\ led_firework_work' \subseteq Pending
        /\ led_self_report_work' \subseteq Pending
    BY <1>6 DEF LedDelayEnds, Pending
  <2> QED
    BY <1>6, <2>1 DEF LedDelayEnds
<1>7. CASE CommandBegin
  BY <1>7 DEF CommandBegin
<1>8. CASE ApplyCommand
  <2>1. params_led' \in Params
    BY <1>8 DEF ApplyCommand, Params
  <2> QED
    BY <1>8, <2>1 DEF ApplyCommand
<1>9. CASE CommandCommit
  BY <1>9 DEF CommandCommit
<1>10. CASE ParamsSave
  <2>1. stored' \in Record /\ led_fault' \in BOOLEAN
    BY <1>10, CurrentIsRecord DEF ParamsSave
  <2>2. events' \in 0 .. MaxEvents
    BY <1>10 DEF ParamsSave, Fails
  <2> QED
    BY <1>10, <2>1, <2>2 DEF ParamsSave
<1>11. CASE FireworkSwitch
  BY <1>11 DEF FireworkSwitch, Params
<1>12. CASE FireworkStart
  BY <1>12 DEF FireworkStart, StopBlinking, Pending
<1>13. CASE FireworkStop
  BY <1>13 DEF FireworkStop, ScheduleNextBlink
<1>14. CASE CommitBlinking
  BY <1>14 DEF CommitBlinking, ScheduleNextBlink, StopBlinking
<1> QED
  BY <1>1, <1>2, <1>3, <1>4, <1>5, <1>6, <1>7, <1>8, <1>9, <1>10, <1>11, <1>12,
     <1>13, <1>14 DEF LedNext

(* A step of the button.                                                   *)
LEMMA ButtonTypesKept ==
  ASSUME TypeOK, Edge \/ Debounce \/ LongPressEnds \/ ButtonDelayEnds
  PROVE  TypeOK'
<1> USE BoundAssumption DEF TypeOK
<1>1. CASE Edge
  BY <1>1, RescheduledPending DEF Edge, LedTypeOK, ledVars, params, lights, works
<1>2. CASE Debounce
  <2>1. debounce_work' \subseteq Pending
    BY <1>2 DEF Debounce
  <2>2. PICK pressed \in BOOLEAN, fails \in BOOLEAN :
          /\ Reads(pressed, fails)
          /\ misread' = fails
          /\ IF Changes(pressed)
             THEN /\ button_pressed' = pressed
                  /\ long_press_work' = LongPress(pressed)
                  /\ answered' = FALSE
             ELSE UNCHANGED <<button_pressed, long_press_work, answered>>
    BY <1>2 DEF Debounce
  <2>3. LongPress(pressed) \subseteq Pending
    BY RescheduledPending DEF LongPress
  <2>4. events' \in 0 .. MaxEvents
    BY <2>2 DEF Reads, Fails, LedTypeOK
  <2>5. LedTypeOK'
    BY <1>2, <2>4 DEF Debounce, LedTypeOK, params, lights, works
  <2> QED
    BY <1>2, <2>1, <2>2, <2>3, <2>5 DEF Debounce
<1>3. CASE LongPressEnds
  <2>1. long_press_work' \subseteq Pending
    BY <1>3 DEF LongPressEnds
  <2>2. events' \in 0 .. MaxEvents
    BY <1>3 DEF LongPressEnds, Reads, Fails, LedTypeOK
  <2>3. report_led' \in BOOLEAN /\ led_self_report_work' \subseteq Pending
    BY <1>3, RescheduledPending DEF LongPressEnds, SignalSelfReport, LedTypeOK
  <2>4. LedTypeOK'
    BY <1>3, <2>2, <2>3 DEF LongPressEnds, LedTypeOK, params
  <2> QED
    BY <1>3, <2>1, <2>4 DEF LongPressEnds
<1>4. CASE ButtonDelayEnds
  <2>1. debounce_work' \subseteq Pending /\ long_press_work' \subseteq Pending
    BY <1>4 DEF ButtonDelayEnds, Pending
  <2> QED
    BY <1>4, <2>1 DEF ButtonDelayEnds, LedTypeOK, ledVars, params, lights, works
<1> QED
  BY <1>1, <1>2, <1>3, <1>4

LEMMA TypesKept ==
  ASSUME TypeOK, [Next]_vars
  PROVE  TypeOK'
<1>1. CASE LedNext /\ UNCHANGED buttonVars
  BY <1>1, LedTypesKept DEF TypeOK, buttonVars
<1>2. CASE Edge \/ Debounce \/ LongPressEnds \/ ButtonDelayEnds
  BY <1>2, ButtonTypesKept
<1>3. CASE Restart
  <2>1. led_blink_work' \subseteq Pending /\ led_firework_work' \subseteq Pending
    BY <1>3, RestartDoes DEF BlinkAtStart, FireworkAtStart, Pending
  <2>2. events' \in 0 .. MaxEvents
    BY <1>3, BoundAssumption DEF Restart, LedRestart, Fails, TypeOK, LedTypeOK
  <2>3. LedTypeOK'
    BY <1>3, <2>1, <2>2, RestartDoes, DefaultAssumption
    DEF Restart, LedRestart, TypeOK, LedTypeOK
  <2> QED
    BY <1>3, <2>3 DEF Restart, TypeOK, Pending
<1>4. CASE UNCHANGED vars
  BY <1>4 DEF TypeOK, LedTypeOK, vars, ledVars, buttonVars, params, lights, works
<1> QED
  BY <1>1, <1>2, <1>3, <1>4 DEF Next

(* The firework, which a command alone switches.                           *)
LEMMA FireworkKept ==
  ASSUME TypeOK, FireworkHolds, [Next]_vars
  PROVE  FireworkHolds'
<1> USE DEF TypeOK, LedTypeOK, Pending, Params
<1>1. CASE UNCHANGED <<params, firework_running, led_firework_work, pc>>
  BY <1>1 DEF FireworkHolds, InForce, params
<1>2. CASE SuspendBlinking \/ ResumeBlinking \/ Blink \/ SelfReportLedOff \/
           Edge \/ Debounce \/ LongPressEnds \/ ButtonDelayEnds \/ UNCHANGED vars
  BY <1>1, <1>2 DEF vars, params, lights, works, ledVars, SuspendBlinking,
     ResumeBlinking, Blink, SelfReportLedOff, Edge, Debounce, LongPressEnds,
     ButtonDelayEnds
<1>3. CASE Firework
  BY <1>3 DEF Firework, FireworkHolds, InForce, params, lights, works
<1>4. CASE LedDelayEnds
  BY <1>4 DEF LedDelayEnds, FireworkHolds, InForce, params, lights, works
<1>5. CASE CommandBegin
  BY <1>5 DEF CommandBegin, FireworkHolds, InForce, params, lights, works
<1>6. CASE ApplyCommand
  BY <1>6 DEF ApplyCommand, FireworkHolds, InForce, params, lights, works
<1>7. CASE CommandCommit
  BY <1>7 DEF CommandCommit, FireworkHolds, InForce, params, lights, works
<1>8. CASE ParamsSave
  BY <1>8 DEF ParamsSave, FireworkHolds, InForce, params, lights, works
<1>9. CASE FireworkSwitch
  BY <1>9 DEF FireworkSwitch, FireworkHolds, InForce, params, lights, works
<1>10. CASE FireworkStart
  BY <1>10 DEF FireworkStart, StopBlinking, FireworkHolds, InForce, params,
     lights, works
<1>11. CASE FireworkStop
  BY <1>11 DEF FireworkStop, ScheduleNextBlink, Rescheduled, FireworkHolds, InForce, params, lights, works
<1>12. CASE CommitBlinking
  BY <1>12 DEF CommitBlinking, ScheduleNextBlink, Rescheduled, StopBlinking, FireworkHolds, InForce, params,
     lights, works
<1>13. CASE Restart
  BY <1>13, RestartDoes DEF Restart, LedRestart, BlinkAtStart, FireworkAtStart,
     FireworkHolds, InForce
<1> QED
  BY <1>1, <1>2, <1>3, <1>4, <1>5, <1>6, <1>7, <1>8, <1>9, <1>10, <1>11, <1>12,
     <1>13 DEF Next, LedNext

(* The lights of blinking, self-reports and eco mode.                      *)
LEMMA LightsKept ==
  ASSUME TypeOK, LightsHold, FireworkHolds, [Next]_vars
  PROVE  LightsHold'
<1> USE DEF TypeOK, LedTypeOK, Pending, Params
<1>1. CASE UNCHANGED <<lights, led_blink_work, led_self_report_work,
                       firework_running, eco, pc>>
  BY <1>1 DEF LightsHold, NoLightStays, FireworkHolds, params, lights
<1>2a. CASE Blink
  BY <1>2a DEF Blink, BlinkOn, BlinkOff, LightsHold, NoLightStays, FireworkHolds,
     params
<1>2. CASE ApplyCommand \/ Edge \/ Debounce \/ ButtonDelayEnds \/ UNCHANGED vars
  BY <1>1, <1>2 DEF vars, params, lights, works, ledVars, ApplyCommand, Edge,
     Debounce, ButtonDelayEnds
<1>3. CASE SuspendBlinking
  BY <1>3 DEF SuspendBlinking, StopBlinking, LightsHold, NoLightStays,
     FireworkHolds, params, lights, works
<1>4. CASE ResumeBlinking
  BY <1>4 DEF ResumeBlinking, ScheduleNextBlink, Rescheduled, LightsHold, NoLightStays, FireworkHolds, params, lights, works
<1>5. CASE Firework
  BY <1>5 DEF Firework, LightsHold, NoLightStays, FireworkHolds, params,
     lights, works
<1>6. CASE SelfReportLedOff
  BY <1>6 DEF SelfReportLedOff, LightsHold, NoLightStays, FireworkHolds,
     params, lights, works
<1>7. CASE LedDelayEnds
  BY <1>7 DEF LedDelayEnds, LightsHold, NoLightStays, FireworkHolds, params,
     lights, works
<1>8. CASE CommandBegin
  BY <1>8 DEF CommandBegin, LightsHold, NoLightStays, FireworkHolds, params,
     lights, works
<1>9. CASE CommandCommit
  BY <1>9 DEF CommandCommit, LightsHold, NoLightStays, FireworkHolds, params,
     lights, works
<1>10. CASE ParamsSave
  BY <1>10 DEF ParamsSave, LightsHold, NoLightStays, FireworkHolds, params,
     lights, works
<1>11. CASE FireworkSwitch
  BY <1>11 DEF FireworkSwitch, LightsHold, NoLightStays, FireworkHolds, params,
     lights, works
<1>12. CASE FireworkStart
  BY <1>12 DEF FireworkStart, StopBlinking, LightsHold, NoLightStays,
     FireworkHolds, params, lights, works
<1>13. CASE FireworkStop
  BY <1>13 DEF FireworkStop, ScheduleNextBlink, Rescheduled, LightsHold, NoLightStays, FireworkHolds, params,
     lights, works
<1>14. CASE CommitBlinking
  BY <1>14 DEF CommitBlinking, ScheduleNextBlink, Rescheduled, StopBlinking, LightsHold, NoLightStays,
     FireworkHolds, params, lights, works
<1>15. CASE LongPressEnds
  BY <1>15 DEF LongPressEnds, SignalSelfReport, Rescheduled, LightsHold,
     NoLightStays, FireworkHolds, params, lights, works
<1>16. CASE Restart
  BY <1>16, RestartDoes DEF Restart, LedRestart, BlinkAtStart, FireworkAtStart,
     LightsHold, NoLightStays, FireworkHolds
<1> QED
  BY <1>1, <1>2, <1>2a, <1>3, <1>4, <1>5, <1>6, <1>7, <1>8, <1>9, <1>10, <1>11, <1>12,
     <1>13, <1>14, <1>15, <1>16 DEF Next, LedNext

(* The record in flash.                                                    *)
LEMMA RecordKept ==
  ASSUME TypeOK, KeptHolds, [Next]_vars
  PROVE  KeptHolds'
<1> USE DEF TypeOK, LedTypeOK, Params
<1>1. CASE UNCHANGED <<params, pc>>
  BY <1>1 DEF KeptHolds, InForce, params
<1>2. CASE SuspendBlinking \/ ResumeBlinking \/ Blink \/ Firework \/
           SelfReportLedOff \/ LedDelayEnds \/ Edge \/ Debounce \/ LongPressEnds \/
           ButtonDelayEnds \/ UNCHANGED vars
  BY <1>1, <1>2 DEF vars, params, lights, works, ledVars, SuspendBlinking,
     ResumeBlinking, Blink, Firework, SelfReportLedOff, LedDelayEnds, Edge,
     Debounce, LongPressEnds, ButtonDelayEnds
<1>3. CASE CommandBegin
  BY <1>3 DEF CommandBegin, KeptHolds, InForce, params, lights, works
<1>4. CASE ApplyCommand
  BY <1>4 DEF ApplyCommand, KeptHolds, InForce, params, lights, works
<1>5. CASE CommandCommit
  BY <1>5 DEF CommandCommit, KeptHolds, InForce, params, lights, works
<1>6. CASE ParamsSave
  BY <1>6 DEF ParamsSave, KeptHolds, InForce, params, lights, works
<1>7. CASE FireworkSwitch
  BY <1>7 DEF FireworkSwitch, KeptHolds, InForce, params, lights, works
<1>8. CASE FireworkStart
  BY <1>8 DEF FireworkStart, StopBlinking, KeptHolds, InForce, params, lights,
     works
<1>9. CASE FireworkStop
  BY <1>9 DEF FireworkStop, ScheduleNextBlink, Rescheduled, KeptHolds, InForce, params, lights, works
<1>10. CASE CommitBlinking
  BY <1>10 DEF CommitBlinking, ScheduleNextBlink, Rescheduled, StopBlinking, KeptHolds, InForce, params, lights,
     works
<1>11. CASE Restart
  BY <1>11, RestartDoes DEF Restart, LedRestart, BlinkAtStart, FireworkAtStart,
     KeptHolds, InForce
<1> QED
  BY <1>1, <1>2, <1>3, <1>4, <1>5, <1>6, <1>7, <1>8, <1>9, <1>10, <1>11 DEF
     Next, LedNext

(* The button: only its own handlers, and a restart, change it.            *)
LEMMA ButtonKept ==
  ASSUME TypeOK, ButtonHolds, PressIsTimed, [Next]_vars
  PROVE  (ButtonHolds /\ PressIsTimed)'
<1>1. CASE Edge
  <2>1. debounce_work' # {}
    BY <1>1, RescheduledPending DEF Edge, TypeOK
  <2> QED
    BY <1>1, <2>1 DEF Edge, ButtonHolds, PressIsTimed
<1>2. CASE Debounce
  <2>1. PICK pressed \in BOOLEAN, fails \in BOOLEAN :
          /\ Reads(pressed, fails)
          /\ misread' = fails
          /\ IF Changes(pressed)
             THEN /\ button_pressed' = pressed
                  /\ long_press_work' = LongPress(pressed)
                  /\ answered' = FALSE
             ELSE UNCHANGED <<button_pressed, long_press_work, answered>>
    BY <1>2 DEF Debounce
  <2>2. button_pressed' = pressed /\ button_pressed' \in BOOLEAN
    BY <2>1 DEF Changes
  <2>3. button_pressed' = pin' \/ misread'
    BY <1>2, <2>1, <2>2 DEF Debounce, Reads, TypeOK
  <2>4. CASE Changes(pressed) /\ pressed
    <3>1. ~button_pressed /\ long_press_work = {}
      BY <2>4 DEF Changes, TypeOK, PressIsTimed
    <3>2. long_press_work' = {"delayed"} /\ ~answered'
      BY <2>1, <2>4, <3>1 DEF LongPress, Rescheduled
    <3>3. long_press_work' # {} /\ long_press_work' # Pending
      BY <3>2 DEF Pending
    <3> QED
      BY <2>2, <2>3, <2>4, <3>2, <3>3 DEF ButtonHolds, PressIsTimed
  <2>5. CASE Changes(pressed) /\ ~pressed
    <3>1. long_press_work' = {}
      BY <2>1, <2>5 DEF LongPress
    <3> QED
      BY <2>2, <2>3, <2>5, <3>1 DEF ButtonHolds, PressIsTimed, Pending
  <2>6. CASE ~Changes(pressed)
    BY <2>1, <2>3, <2>6 DEF ButtonHolds, PressIsTimed
  <2> QED
    BY <2>4, <2>5, <2>6
<1>3. CASE LongPressEnds
  <2>1. long_press_work' = {} /\ answered' /\ long_press_work # {}
    BY <1>3 DEF LongPressEnds, ButtonHolds, TypeOK, Pending
  <2> QED
    BY <1>3, <2>1 DEF LongPressEnds, ButtonHolds, PressIsTimed, Pending
<1>4. CASE ButtonDelayEnds
  <2>1. CASE /\ "delayed" \in debounce_work
             /\ debounce_work' = {"queued"} /\ UNCHANGED long_press_work
    BY <1>4, <2>1 DEF ButtonDelayEnds, ButtonHolds, PressIsTimed
  <2>2. CASE /\ "delayed" \in long_press_work
             /\ long_press_work' = {"queued"} /\ UNCHANGED debounce_work
    <3>1. long_press_work' # {} /\ long_press_work # {} /\ long_press_work' # Pending
      BY <2>2 DEF Pending
    <3> QED
      BY <1>4, <2>2, <3>1 DEF ButtonDelayEnds, ButtonHolds, PressIsTimed
  <2> QED
    BY <1>4, <2>1, <2>2 DEF ButtonDelayEnds
<1>5. CASE Restart
  <2>1. /\ button_pressed' = (pin # misread') /\ pin' = pin /\ ~answered'
        /\ pin \in BOOLEAN /\ misread' \in BOOLEAN
        /\ long_press_work' = IF button_pressed' THEN {"delayed"} ELSE {}
    BY <1>5 DEF Restart, TypeOK
  <2>2. button_pressed' = pin' \/ misread'
    BY <2>1
  <2>3. long_press_work' # Pending
    BY <2>1 DEF Pending
  <2> QED
    BY <2>1, <2>2, <2>3 DEF ButtonHolds, PressIsTimed
<1>6. CASE UNCHANGED buttonVars
  BY <1>6 DEF buttonVars, ButtonHolds, PressIsTimed
<1> QED
  BY <1>1, <1>2, <1>3, <1>4, <1>5, <1>6 DEF Next, vars

LEMMA NextInvariant ==
  ASSUME IInv, [Next]_vars
  PROVE  IInv'
BY TypesKept, FireworkKept, LightsKept, RecordKept, ButtonKept DEF IInv

-----------------------------------------------------------------------------
(* The theorems.                                                           *)

THEOREM ReportInvariant == Spec => []IInv
<1>1. Init => IInv
  BY InitInvariant
<1>2. IInv /\ [Next]_vars => IInv'
  BY NextInvariant
<1> QED
  BY <1>1, <1>2, PTL DEF Spec

(* Every variable of LEDs, command and button stays in its type.           *)
THEOREM ReportTypes == Spec => []TypeOK
<1>1. IInv => TypeOK
  BY DEF IInv
<1> QED
  BY <1>1, ReportInvariant, PTL

(* Between commands (led.c:427-451) the firework is on exactly when it was*)
(* asked for, no light burns without a handler to end it, and flash holds  *)
(* the parameters, whatever timers, eco transitions and presses came       *)
(* between the steps of a command, and whichever save or read failed.      *)
THEOREM LedsAlwaysSettle == Spec => []LedsSettle
<1>1. ASSUME IInv, pc = "idle"
      PROVE  FireworkAsAsked /\ NoLightStays /\ ParamsKept
  <2>1. InForce = params_led
    BY <1>1 DEF InForce
  <2>2. FireworkAsAsked
    BY <1>1, <2>1 DEF IInv, FireworkHolds, FireworkAsAsked
  <2>3. NoLightStays
    BY <1>1 DEF IInv, LightsHold
  <2>4. ParamsKept
    BY <1>1, <2>1 DEF IInv, KeptHolds, ParamsKept
  <2> QED
    BY <2>2, <2>3, <2>4
<1>2. IInv => LedsSettle
  BY <1>1 DEF LedsSettle
<1> QED
  BY <1>2, ReportInvariant, PTL

(* The debounced button follows the pin, a press is timed until its long   *)
(* press was handled, and a release cancels it (self_report.c), however    *)
(* the edges fall between the two handlers.                                *)
THEOREM PressesAreTimed == Spec => []PressIsTimed
<1>1. IInv => PressIsTimed
  BY DEF IInv
<1> QED
  BY <1>1, ReportInvariant, PTL
=============================================================================

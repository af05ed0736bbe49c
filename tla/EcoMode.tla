------------------------------ MODULE EcoMode ------------------------------
(***************************************************************************)
(* Energy conservation on the beacon (motion.c, radio.c, device.c).  When  *)
(* the accelerometer has been still for a while the tag leaves continuous  *)
(* scanning for short bursts; motion brings it back.  A command over the   *)
(* air can choose either radio mode for good, or turn the inactivity       *)
(* detection off.  The mode, the data level and the advertising data that  *)
(* carry them are shared by two threads:                                   *)
(*   System    the system work queue (inactivity timer, sensor trigger,    *)
(*             scan bursts, status updates), cooperative: it gives way     *)
(*             only where it waits for a mutex or for the controller;      *)
(*   Commands  the storage work queue, preemptible, which runs commands.   *)
(* What radio_operation_lock protects is one action, a thread that waits   *)
(* for it stands before that action; motion_lock is held across several.   *)
(* The status LED, which motion.c suspends and resumes, has no part here;  *)
(* the motion sensor answers (motion_available).                           *)
(***************************************************************************)
EXTENDS Naturals, FiniteSets

CONSTANTS
  System, Commands,   \* the threads
  None,               \* nobody, or no value
  MaxCommands,        \* bound: commands received
  MaxEvents           \* bound: failing calls of controller and flash, connections
                      \* and changes of the data level, together

ASSUME ThreadAssumption == System # Commands /\ None \notin {System, Commands}
ASSUME BoundAssumption == MaxCommands \in Nat /\ MaxEvents \in Nat

VARIABLES
  motion_active,        \* params_motion.active
  inactivity_work,      \* inactivity_timeout_work: subset of Pending
  eco_active,           \* motion.c's own idea of the mode
  motion_lock,          \* its holder
  params_mode,          \* params_radio.mode, also while a command is applied
  eco_override_active,
  last_applied_mode,
  pending_session_open, \* the eco log times a session of eco mode
  scanning,             \* the controller scans
  eco_scan_burst_active,
  eco_scan_work,        \* subset of Pending
  scan_runtime_fault,
  advertising,          \* the controller advertises
  conn,                 \* "none", "connected", "closing" (not yet recycled)
  status,               \* network status byte: eco bit and data level
  mfg_data,             \* its copy in the advertising data
  status_work,          \* radio_status_update_work is queued
  pc,                   \* thread -> its next step
  stored_mode, stored_motion, \* the parameters in flash
  params_fault,         \* STORAGE_FAULT_RADIO_PARAMS, _MOTION_PARAMS
  others,               \* the radio's other parameters while a command is run
  old_mode, old_motion, \* the parameters before it
  previous,             \* status byte read by device_set_network_status_bits
  commands, events,     \* those still to come
  detection_set,        \* how often the command has set params_motion.active
  adv_missed            \* the last update of the advertising data failed

motion == <<motion_active, inactivity_work, eco_active, motion_lock>>
radio == <<eco_override_active, last_applied_mode, pending_session_open,
           scanning, advertising,
           eco_scan_burst_active, eco_scan_work, scan_runtime_fault>>
adv == <<mfg_data, status_work, adv_missed>>
batch == <<others, old_mode, old_motion>>
storage == <<stored_mode, stored_motion, params_fault>>
vars == <<motion, params_mode, radio, conn, status, adv, pc, batch, previous,
          storage, commands, events, detection_set>>

Mode == {"HIGH", "ECO"}
Level == 0 .. 1
(* A delayable work item waits for its time, or for the work queue, or both*)
(* (rescheduled while it is queued).                                       *)
Pending == {"delayed", "queued"}
Status == [eco : BOOLEAN, level : Level]

(* The radio's other parameters, compared with those before the command:   *)
(* changed or not, and if so as validation accepts them or not.            *)
Other == {"same", "valid", "invalid"}

TypeOK ==
  /\ motion_active \in BOOLEAN /\ eco_active \in BOOLEAN
  /\ inactivity_work \subseteq Pending /\ eco_scan_work \subseteq Pending
  /\ motion_lock \in {System, Commands, None}
  /\ params_mode \in Mode /\ last_applied_mode \in Mode
  /\ pending_session_open \in BOOLEAN
  /\ eco_override_active \in BOOLEAN /\ eco_scan_burst_active \in BOOLEAN
  /\ scanning \in BOOLEAN /\ scan_runtime_fault \in BOOLEAN
  /\ advertising \in BOOLEAN /\ conn \in {"none", "connected", "closing"}
  /\ advertising => conn = "none"
  /\ status \in Status /\ mfg_data \in Status
  /\ previous \in Status \union {None}
  /\ status_work \in BOOLEAN
  /\ pc \in [{System, Commands} -> {"idle", "timeout", "trigger", "enter",
       "exit", "eco_scan", "status", "apply", "commit_radio",
       "save_radio",
       "restore", "reapply", "commit_motion", "lock_motion", "bits_read",
       "bits_write", "reschedule"}]
  /\ others \in Other \union {None}
  /\ old_mode \in Mode \union {None} /\ old_motion \in BOOLEAN \union {None}
  /\ stored_mode \in Mode /\ stored_motion \in BOOLEAN
  /\ params_fault \subseteq {"radio", "motion"}
  /\ commands \in 0 .. MaxCommands /\ events \in 0 .. MaxEvents
  /\ detection_set \in {"none", "once", "twice"} /\ adv_missed \in BOOLEAN

Goto(t, label) == pc' = [pc EXCEPT ![t] = label]

-----------------------------------------------------------------------------
(* radio_apply_mode_locked and adv_update_locked.                          *)

(* Eco mode starts with a burst at once, full activity cancels the bursts. *)
Bursts(mode) == IF mode = "ECO" THEN {"queued"} ELSE {}

(* The only connection object (CONFIG_BT_MAX_CONN is 1) is free.           *)
CanAdvertise == conn = "none"

(* eco_log_enter and eco_log_leave, on a change of the mode.  The entry of *)
(* a session that ends goes to the eco log's ring.                         *)
EcoLog(mode) ==
  IF mode = last_applied_mode THEN pending_session_open ELSE mode = "ECO"

(* Scanning and advertising are stopped, then started for the mode, then   *)
(* the advertising data updated.  One of the controller calls may fail;    *)
(* advertising cannot start while the only connection object is in use.    *)
(* errors: whether a caller that looks at the result sees the mode fail.   *)
ApplyMode(mode, errors) ==
  \E failing \in {"none", "scan_stop", "adv_stop", "adv_start", "scan_start",
                  "update"} :
    /\ failing # "none" => events > 0
    /\ failing = "scan_stop" => scanning
    /\ failing = "adv_stop" => advertising
    /\ failing = "scan_start" => mode = "HIGH"
    /\ events' = IF failing = "none" THEN events ELSE events - 1
    /\ last_applied_mode' = mode
    /\ pending_session_open' = EcoLog(mode)
    /\ eco_scan_work' = Bursts(mode)
    /\ eco_scan_burst_active' = FALSE
    /\ scanning' = IF mode = "ECO" THEN scanning /\ failing = "scan_stop"
                   ELSE failing # "scan_start"
    /\ scan_runtime_fault' = (failing = "scan_start")
    /\ advertising' = (CanAdvertise /\ failing # "adv_start")
    /\ errors <=>
         ~advertising' \/ failing \in {"scan_stop", "adv_stop", "scan_start"}
    /\ IF ~advertising' \/ failing = "adv_stop"
       THEN UNCHANGED <<mfg_data, adv_missed>>
       ELSE IF failing = "update"
       THEN adv_missed' = TRUE /\ UNCHANGED mfg_data
       ELSE adv_missed' = FALSE /\ mfg_data' = status

(* Variant: a command forgets the override.                                *)
ParametersMode == params_mode

EffectiveMode == IF eco_override_active THEN "ECO" ELSE params_mode

(* radio_set_eco_override.  It takes the mode that the parameters hold at  *)
(* that moment, which a command may be changing.                           *)
StoredMode == params_mode

SetOverride(active) ==
  IF eco_override_active = active
  THEN UNCHANGED <<radio, mfg_data, adv_missed, events>>
  ELSE /\ eco_override_active' = active
       /\ \E errors \in BOOLEAN :
            ApplyMode(IF active THEN "ECO" ELSE StoredMode, errors)

(* Variant: eco mode alone does not count as a change.                     *)
LevelDiffers(old, new) == old.level # new.level

StatusDiffers(old, new) == old # new

(* device_set_network_status_bits, where nothing comes between its read    *)
(* and its write: a change schedules an update of the advertising data.    *)
SetStatus(new) ==
  status' = new /\ status_work' = (status_work \/ StatusDiffers(status, new))

(* Variant: who handles the motion domain is not asked.                    *)
NeverLocked == TRUE

MotionUnlocked == motion_lock = None

(* motion_reschedule_timer_locked; an item already queued stays queued.    *)
Timer ==
  IF motion_active THEN (inactivity_work \intersect {"queued"}) \union {"delayed"}
  ELSE {}

(* Rearming it makes up for whatever came before, unless a command goes on *)
(* changing the setting.                                                   *)
Rearm ==
  /\ inactivity_work' = Timer
  /\ detection_set' = IF pc[Commands] = "apply" THEN detection_set ELSE "none"

-----------------------------------------------------------------------------
(* The system work queue.  A handler is taken from its queue first, and    *)
(* waits for the lock it needs after that.                                 *)

DelayEnds ==
  \/ /\ "delayed" \in inactivity_work
     /\ inactivity_work' = {"queued"}
     /\ UNCHANGED eco_scan_work
  \/ /\ "delayed" \in eco_scan_work
     /\ eco_scan_work' = {"queued"}
     /\ UNCHANGED inactivity_work

TimerRunsOut ==
  /\ DelayEnds
  /\ UNCHANGED <<motion_active, eco_active, motion_lock, params_mode,
                 eco_override_active, last_applied_mode, pending_session_open,
                 scanning, advertising, eco_scan_burst_active,
                 scan_runtime_fault, conn, status, adv, pc, batch, previous,
                 storage, events, commands, detection_set>>

TimeoutStart ==
  /\ pc[System] = "idle"
  /\ "queued" \in inactivity_work
  /\ inactivity_work' = inactivity_work \ {"queued"}
  /\ Goto(System, "timeout")
  /\ UNCHANGED <<motion_active, eco_active, motion_lock, params_mode, radio,
                 conn, status, adv, batch, previous, storage, events, commands,
                 detection_set>>

(* Variant: the timer that ran out counts, whatever a command has changed. *)
TimeoutEntersAlways == ~eco_active

TimeoutEnters == motion_active /\ ~eco_active

(* inactivity_timeout_handler, and motion_enter_eco up to the radio.       *)
Timeout ==
  /\ pc[System] = "timeout"
  /\ MotionUnlocked
  /\ IF TimeoutEnters
     THEN eco_active' = TRUE /\ motion_lock' = System /\ Goto(System, "enter")
     ELSE UNCHANGED <<eco_active, motion_lock>> /\ Goto(System, "idle")
  /\ UNCHANGED <<motion_active, inactivity_work, params_mode, radio, conn,
                 status, adv, batch, previous, storage, events, commands,
                 detection_set>>

EnterEco ==
  /\ pc[System] = "enter"
  /\ SetOverride(TRUE)
  /\ SetStatus([status EXCEPT !.eco = TRUE])
  /\ motion_lock' = None
  /\ Goto(System, "idle")
  /\ UNCHANGED <<motion_active, inactivity_work, eco_active, params_mode, conn,
                 batch, previous, storage, commands, detection_set>>

(* The accelerometer reports motion: motion_trigger_handler.               *)
TriggerStart ==
  /\ pc[System] = "idle"
  /\ Goto(System, "trigger")
  /\ UNCHANGED <<motion, params_mode, radio, conn, status, adv, batch,
                 previous, storage, events, commands, detection_set>>

Trigger ==
  /\ pc[System] = "trigger"
  /\ MotionUnlocked
  /\ IF eco_active
     THEN /\ eco_active' = FALSE
          /\ motion_lock' = System
          /\ Goto(System, "exit")
          /\ UNCHANGED <<inactivity_work, detection_set>>
     ELSE /\ Rearm
          /\ Goto(System, "idle")
          /\ UNCHANGED <<eco_active, motion_lock>>
  /\ UNCHANGED <<motion_active, params_mode, radio, conn, status, adv, batch,
                 previous, storage, events, commands>>

ExitEco ==
  /\ pc[System] = "exit"
  /\ SetOverride(FALSE)
  /\ SetStatus([status EXCEPT !.eco = FALSE])
  /\ Rearm
  /\ motion_lock' = None
  /\ Goto(System, "idle")
  /\ UNCHANGED <<motion_active, eco_active, params_mode, conn, batch, previous,
                 storage, commands>>

EcoScanStart ==
  /\ pc[System] = "idle"
  /\ "queued" \in eco_scan_work
  /\ eco_scan_work' = eco_scan_work \ {"queued"}
  /\ Goto(System, "eco_scan")
  /\ UNCHANGED <<motion, params_mode, eco_override_active, last_applied_mode,
                 pending_session_open, scanning, advertising,
                 eco_scan_burst_active, scan_runtime_fault, conn, status, adv,
                 batch, previous, storage, events, commands, detection_set>>

(* Variant: a burst handler that comes late goes on.                       *)
EcoScanAlways == TRUE

EcoScanAllowed == eco_override_active

(* eco_scan_handler: the start and the end of a burst alternate; a failing *)
(* controller call is only logged.                                         *)
EcoScan ==
  /\ pc[System] = "eco_scan"
  /\ IF EcoScanAllowed
     THEN /\ \/ scanning' = ~eco_scan_burst_active /\ UNCHANGED events
             \/ events > 0 /\ events' = events - 1 /\ UNCHANGED scanning
          /\ eco_scan_burst_active' = ~eco_scan_burst_active
          /\ eco_scan_work' = eco_scan_work \union {"delayed"}
     ELSE UNCHANGED <<scanning, eco_scan_burst_active, eco_scan_work, events>>
  /\ Goto(System, "idle")
  /\ UNCHANGED <<motion, params_mode, eco_override_active, last_applied_mode,
                 pending_session_open, advertising, scan_runtime_fault, conn,
                 status, adv, batch, previous, storage, commands, detection_set>>

(* The contact pipeline sets a new data level, and then updates the        *)
(* advertising data itself.                                                *)
LevelChanges ==
  /\ pc[System] = "idle"
  /\ events > 0 /\ events' = events - 1
  /\ \E l \in Level \ {status.level} : SetStatus([status EXCEPT !.level = l])
  /\ Goto(System, "status")
  /\ UNCHANGED <<motion, params_mode, radio, conn, mfg_data, adv_missed, batch,
                 previous, storage, commands, detection_set>>

StatusStart ==
  /\ pc[System] = "idle"
  /\ status_work
  /\ status_work' = FALSE
  /\ Goto(System, "status")
  /\ UNCHANGED <<motion, params_mode, radio, conn, status, mfg_data,
                 adv_missed, batch, previous, storage, events, commands,
                 detection_set>>

(* adv_update: during a connection only the data change; the controller    *)
(* refuses them while it does not advertise, and nobody tries again.       *)
StatusUpdate ==
  /\ pc[System] = "status"
  /\ \/ /\ conn = "connected" \/ advertising
        /\ mfg_data' = status
        /\ adv_missed' = FALSE
        /\ UNCHANGED events
     \/ /\ conn # "connected"
        /\ IF advertising THEN events > 0 /\ events' = events - 1
           ELSE UNCHANGED events
        /\ adv_missed' = TRUE
        /\ UNCHANGED mfg_data
  /\ Goto(System, "idle")
  /\ UNCHANGED <<motion, params_mode, radio, conn, status, status_work, batch,
                 previous, storage, commands, detection_set>>

-----------------------------------------------------------------------------
(* A command, on the storage work queue: evaluate_command_data notes the   *)
(* parameters, changes them without a lock, one triple after the other and *)
(* as many as the command has, then lets the domains commit them.          *)

CommandBegin ==
  /\ pc[Commands] = "idle"
  /\ commands > 0
  /\ commands' = commands - 1
  /\ others' = "same" /\ old_mode' = params_mode /\ old_motion' = motion_active
  /\ detection_set' = IF detection_set = "twice" THEN "twice" ELSE "none"
  /\ Goto(Commands, "apply")
  /\ UNCHANGED <<motion, params_mode, radio, conn, status, adv, previous,
                 storage, events>>

CommandMode(mode) ==
  /\ pc[Commands] = "apply"
  /\ params_mode' = mode
  /\ UNCHANGED <<motion, radio, conn, status, adv, pc, batch, previous, storage,
                 events, commands, detection_set>>

CommandOther(o) ==
  /\ pc[Commands] = "apply"
  /\ others' = o
  /\ UNCHANGED <<motion, params_mode, radio, conn, status, adv, pc, old_mode,
                 old_motion, previous, storage, events, commands,
                 detection_set>>

CommandMotion(active) ==
  /\ pc[Commands] = "apply"
  /\ motion_active' = active
  /\ detection_set' = IF detection_set = "none" THEN "once" ELSE "twice"
  /\ UNCHANGED <<inactivity_work, eco_active, motion_lock, params_mode, radio,
                 conn, status, adv, pc, batch, previous, storage, events,
                 commands>>

CommandApplied ==
  /\ pc[Commands] = "apply"
  /\ Goto(Commands, "commit_radio")
  /\ UNCHANGED <<motion, params_mode, radio, conn, status, adv, batch, previous,
                 storage, events, commands, detection_set>>

RadioCommitted == others' = None /\ old_mode' = None

(* radio_params_validate, and radio_params_equal.                          *)
Valid == others # "invalid"
Changed == params_mode # old_mode \/ others # "same"

(* radio_command_commit: unchanged parameters need nothing, invalid ones   *)
(* are taken back without a word to the radio.                             *)
CommitRadioNothing ==
  /\ pc[Commands] = "commit_radio"
  /\ ~(Changed /\ Valid)
  /\ params_mode' = old_mode
  /\ RadioCommitted
  /\ Goto(Commands, "commit_motion")
  /\ UNCHANGED <<motion, radio, conn, status, adv, old_motion, previous,
                 storage, events, commands, detection_set>>

(* Changed parameters are applied, and taken back if the radio refuses.    *)
CommitRadio ==
  /\ pc[Commands] = "commit_radio"
  /\ Changed /\ Valid
  /\ \E errors \in BOOLEAN :
       /\ ApplyMode(EffectiveMode, errors)
       /\ IF errors
          THEN Goto(Commands, "restore") /\ UNCHANGED <<others, old_mode>>
          ELSE Goto(Commands, "save_radio") /\ RadioCommitted
  /\ UNCHANGED <<motion, params_mode, eco_override_active, conn, status,
                 status_work, old_motion, previous, storage, commands,
                 detection_set>>

RestoreRadio ==
  /\ pc[Commands] = "restore"
  /\ params_mode' = old_mode
  /\ RadioCommitted
  /\ Goto(Commands, "reapply")
  /\ UNCHANGED <<motion, radio, conn, status, adv, old_motion, previous,
                 storage, events, commands, detection_set>>

ReapplyRadio ==
  /\ pc[Commands] = "reapply"
  /\ \E errors \in BOOLEAN : ApplyMode(EffectiveMode, errors)
  /\ Goto(Commands, "commit_motion")
  /\ UNCHANGED <<motion, params_mode, eco_override_active, conn, status,
                 status_work, batch, previous, storage, commands,
                 detection_set>>

(* device_set_storage_fault: the first fault and the end of the last one   *)
(* change the advertised radio status byte.                                *)
SetFaults(faults) ==
  /\ params_fault' = faults
  /\ status_work' = (status_work \/ (faults = {}) # (params_fault = {}))

(* Saving a domain's parameters sets or clears its fault bit.              *)
Saved(domain) == SetFaults(params_fault \ {domain}) /\ UNCHANGED events

SaveFails(domain) ==
  /\ events > 0 /\ events' = events - 1
  /\ SetFaults(params_fault \union {domain})

(* Variant: the mode in force is stored, whoever chose it.                 *)
ModeInForce == EffectiveMode

ModeToSave == params_mode

SaveRadio ==
  /\ pc[Commands] = "save_radio"
  /\ \/ Saved("radio") /\ stored_mode' = ModeToSave
     \/ SaveFails("radio") /\ UNCHANGED stored_mode
  /\ Goto(Commands, "commit_motion")
  /\ UNCHANGED <<motion, params_mode, radio, conn, status, mfg_data,
                 adv_missed, batch, previous, stored_motion, commands,
                 detection_set>>

CommandEnd == old_motion' = None /\ Goto(Commands, "idle")

CommitMotionNothing ==
  /\ pc[Commands] = "commit_motion"
  /\ motion_active = old_motion
  /\ CommandEnd
  /\ UNCHANGED <<motion, params_mode, radio, conn, status, adv, previous,
                 others, old_mode, storage, events, commands, detection_set>>

(* motion_command_commit: saves the parameters, then takes motion_lock; the*)
(* same if only the timeout's length changed, which is left out.           *)
SaveMotion ==
  /\ pc[Commands] = "commit_motion"
  /\ \/ Saved("motion") /\ stored_motion' = motion_active
     \/ SaveFails("motion") /\ UNCHANGED stored_motion
  /\ Goto(Commands, "lock_motion")
  /\ UNCHANGED <<motion, params_mode, radio, conn, status, mfg_data,
                 adv_missed, batch, previous, stored_mode, commands,
                 detection_set>>

(* Disabling the detection ends eco mode.                                  *)
CommitMotion ==
  /\ pc[Commands] = "lock_motion"
  /\ MotionUnlocked
  /\ motion_lock' = Commands
  /\ IF ~motion_active /\ eco_active
     THEN eco_active' = FALSE /\ Goto(Commands, "exit")
     ELSE UNCHANGED eco_active /\ Goto(Commands, "reschedule")
  /\ UNCHANGED <<motion_active, inactivity_work, params_mode, radio, conn,
                 status, adv, batch, previous, storage, events, commands,
                 detection_set>>

CommandExit ==
  /\ pc[Commands] = "exit"
  /\ SetOverride(FALSE)
  /\ Goto(Commands, "bits_read")
  /\ UNCHANGED <<motion, params_mode, conn, status, status_work, batch,
                 previous, storage, commands, detection_set>>

(* device_set_network_status_bits reads and writes the byte in two steps,  *)
(* and the system work queue may come between.                             *)
BitsRead ==
  /\ pc[Commands] = "bits_read"
  /\ previous' = status
  /\ Goto(Commands, "bits_write")
  /\ UNCHANGED <<motion, params_mode, radio, conn, storage, status, adv, batch,
                 events, commands, detection_set>>

BitsWrite ==
  /\ pc[Commands] = "bits_write"
  /\ status' = [previous EXCEPT !.eco = FALSE]
  /\ status_work' = (status_work \/ StatusDiffers(previous, status'))
  /\ Goto(Commands, "reschedule")
  /\ previous' = None
  /\ UNCHANGED <<motion, params_mode, radio, conn, storage, mfg_data,
                 adv_missed, batch, events, commands, detection_set>>

CommitMotionEnd ==
  /\ pc[Commands] = "reschedule"
  /\ Rearm
  /\ motion_lock' = None
  /\ CommandEnd
  /\ UNCHANGED <<motion_active, eco_active, params_mode, radio, conn, status,
                 adv, previous, others, old_mode, storage, events, commands>>

-----------------------------------------------------------------------------
(* A base station connects and leaves; advertising starts again when the   *)
(* connection object is recycled (radio_recycled), or never.               *)

Connect ==
  /\ advertising /\ conn = "none"
  /\ events > 0 /\ events' = events - 1
  /\ conn' = "connected"
  /\ advertising' = FALSE
  /\ UNCHANGED <<motion, params_mode, eco_override_active, last_applied_mode,
                 pending_session_open, scanning, eco_scan_burst_active,
                 eco_scan_work, scan_runtime_fault, status, adv, pc, batch,
                 previous, storage, commands, detection_set>>

Disconnect ==
  /\ conn = "connected"
  /\ conn' = "closing"
  /\ UNCHANGED <<motion, params_mode, radio, status, adv, pc, batch, previous,
                 storage, events, commands, detection_set>>

Recycled ==
  /\ conn = "closing"
  /\ conn' = "none"
  /\ \/ advertising' = TRUE /\ UNCHANGED events
     \/ events > 0 /\ events' = events - 1 /\ UNCHANGED advertising
  /\ UNCHANGED <<motion, params_mode, eco_override_active, last_applied_mode,
                 pending_session_open, scanning, eco_scan_burst_active,
                 eco_scan_work, scan_runtime_fault, status, adv, pc, batch,
                 previous, storage, commands, detection_set>>

-----------------------------------------------------------------------------
(* Start-up.  Each domain loads the parameters in flash, or has its        *)
(* defaults: with its fault bit set if there are some that it cannot read. *)
(* Eco mode from inactivity is not kept over a restart.                    *)
RadioParamsLoad ==
  /\ params_mode \in Mode /\ stored_mode \in Mode
  /\ "radio" \in params_fault \/ stored_mode = params_mode

MotionParamsLoad ==
  /\ motion_active \in BOOLEAN /\ stored_motion \in BOOLEAN
  /\ "motion" \in params_fault \/ stored_motion = motion_active

(* radio_init: the identity and the status in the advertising data.        *)
RadioInit ==
  /\ RadioParamsLoad
  /\ eco_override_active = FALSE
  /\ status = [eco |-> FALSE, level |-> 0] /\ mfg_data = status
  /\ status_work = FALSE /\ adv_missed = FALSE
  /\ conn = "none"

(* motion_init, with a sensor that answers.                                *)
MotionInit ==
  /\ MotionParamsLoad
  /\ eco_active = FALSE /\ motion_lock = None
  /\ inactivity_work = IF motion_active THEN {"delayed"} ELSE {}

(* radio_start applies the mode; scanning may fail, advertising may not.   *)
RadioStart ==
  /\ last_applied_mode = params_mode
  /\ pending_session_open = (params_mode = "ECO")
  /\ advertising = TRUE
  /\ scan_runtime_fault \in {FALSE, params_mode = "HIGH"}
  /\ scanning = (params_mode = "HIGH" /\ ~scan_runtime_fault)
  /\ eco_scan_work = Bursts(params_mode) /\ eco_scan_burst_active = FALSE

Init ==
  /\ params_fault \in SUBSET {"radio", "motion"}
  /\ RadioInit /\ MotionInit /\ RadioStart
  /\ pc = [t \in {System, Commands} |-> "idle"]
  /\ others = None /\ old_mode = None /\ old_motion = None /\ previous = None
  /\ Cardinality(params_fault) <= MaxEvents
  /\ commands = MaxCommands
  /\ events = MaxEvents - Cardinality(params_fault)
  /\ detection_set = "none"

SystemStep ==
  \/ TimeoutStart \/ Timeout \/ EnterEco
  \/ Trigger \/ ExitEco
  \/ EcoScanStart \/ EcoScan
  \/ StatusStart \/ StatusUpdate

CommandStep ==
  \/ \E mode \in Mode : CommandMode(mode)
  \/ \E o \in Other : CommandOther(o)
  \/ \E active \in BOOLEAN : CommandMotion(active)
  \/ CommandApplied
  \/ CommitRadioNothing \/ CommitRadio \/ RestoreRadio \/ ReapplyRadio
  \/ SaveRadio
  \/ CommitMotionNothing \/ SaveMotion \/ CommitMotion \/ CommandExit
  \/ BitsRead \/ BitsWrite \/ CommitMotionEnd

Next ==
  \/ TimerRunsOut \/ SystemStep
  \/ TriggerStart \/ LevelChanges
  \/ CommandBegin \/ CommandStep
  \/ Connect \/ Disconnect \/ Recycled

Spec == Init /\ [][Next]_vars

-----------------------------------------------------------------------------
(* What the tag guarantees.                                                *)

(* Motion domain, radio and advertised eco bit agree whenever motion_lock  *)
(* is free: no trigger, timeout or command leaves one of them behind.      *)
EcoAgrees ==
  motion_lock = None =>
    eco_active = eco_override_active /\ eco_active = status.eco

(* A tag is never stuck in a mode.  One whose inactivity detection is      *)
(* disabled is not left in eco mode by it, even if the timer ran out while *)
(* the command came in.  One that is awake with the detection enabled has  *)
(* its timer running, or is about to handle it.  Neither holds for a       *)
(* command that sets the detection more than once, and so may change it and*)
(* set it back: the handler may act on the value in between, and the commit*)
(* finds nothing changed.  Motion, or a command that does change it, then  *)
(* rearms the timer.                                                       *)
NeverStuck ==
  detection_set # "twice" =>
    /\ pc[Commands] = "idle" /\ eco_active => motion_active
    /\ motion_active /\ ~eco_active =>
         \/ inactivity_work # {}
         \/ pc[System] \in {"timeout", "exit"}
         \/ pc[Commands] # "idle"

(* DECISIONS.md: the override lies on top of whichever mode is stored.  As *)
(* long as inactivity holds the tag in eco mode the radio is in that mode, *)
(* whatever commands choose, and however they are refused, taken back or   *)
(* applied once more; the eco log's session is that of the radio's mode.   *)
OverrideOnTop ==
  /\ eco_override_active => last_applied_mode = "ECO"
  /\ pending_session_open <=> last_applied_mode = "ECO"

(* Scanning goes on.  While inactivity holds the tag in eco mode the next  *)
(* end or beginning of a burst is scheduled; in full activity the tag      *)
(* scans, or reports that it cannot: no burst handler that comes late      *)
(* switches it off.                                                        *)
ScanningGoesOn ==
  /\ eco_override_active => eco_scan_work # {} \/ pc[System] = "eco_scan"
  /\ last_applied_mode = "HIGH" => scanning \/ scan_runtime_fault

(* The advertising data carry the current status byte unless an update is  *)
(* on its way, or the last one failed.                                     *)
AdvertisedIsCurrent ==
  mfg_data = status \/ status_work \/ pc[System] = "status" \/ adv_missed

(* Between commands flash holds the parameters that the user's commands    *)
(* left in force, never the override's mode nor those of a refused command,*)
(* or the fault bit of the domain says that it does not.                   *)
StoredInForce ==
  pc[Commands] = "idle" =>
    /\ stored_mode = params_mode \/ "radio" \in params_fault
    /\ stored_motion = motion_active \/ "motion" \in params_fault

(* radio.c of eco mode: it scans in short periodic bursts, whether it was  *)
(* commanded or comes from inactivity.                                     *)
EcoModeScans ==
  last_applied_mode = "ECO" => eco_scan_work # {} \/ pc[System] = "eco_scan"
=============================================================================

--------------------------- MODULE EcoModeProofs ---------------------------
(***************************************************************************)
(* Proofs about the beacon's energy conservation, for any number of        *)
(* commands, failures and connections: motion domain, radio and advertised *)
(* bit agree, no tag is stuck in a mode, the override lies on top of what  *)
(* commands choose, scanning goes on, the advertising data are current, and*)
(* flash holds the parameters in force.                                    *)
(***************************************************************************)
EXTENDS EcoMode, FiniteSetTheorems, TLAPS

-----------------------------------------------------------------------------
(* The inductive invariant.                                                *)

(* Where the two threads can stand, and who holds the motion domain's lock.*)
SystemPc ==
  {"idle", "timeout", "trigger", "enter", "exit", "eco_scan", "status"}
CommitPc == {"commit_radio", "save_radio", "restore", "reapply", "commit_motion"}
LockedPc == {"exit", "bits_read", "bits_write", "reschedule"}
CommandsPc == {"idle", "apply", "lock_motion"} \union CommitPc \union LockedPc

Locks ==
  /\ pc[System] \in SystemPc /\ pc[Commands] \in CommandsPc
  /\ motion_lock = System <=> pc[System] \in {"enter", "exit"}
  /\ motion_lock = Commands <=> pc[Commands] \in LockedPc

(* How far a change of eco mode has come, while the lock is held.          *)
Agree == eco_active = eco_override_active /\ eco_active = status.eco

Tracks ==
  /\ motion_lock = None \/ pc[Commands] = "reschedule" => Agree
  /\ pc[System] = "enter" =>
       eco_active /\ ~eco_override_active /\ ~status.eco
  /\ pc[System] = "exit" \/ pc[Commands] = "exit" =>
       ~eco_active /\ eco_override_active /\ status.eco
  /\ pc[Commands] \in {"bits_read", "bits_write"} =>
       ~eco_active /\ ~eco_override_active /\ status.eco
  /\ pc[Commands] = "bits_write" => previous \in Status /\ previous.eco

(* What a command has noted while it is applied.                           *)
CommandNotes ==
  /\ pc[Commands] \in {"apply", "commit_radio"} => others \in Other
  /\ pc[Commands] \in {"apply", "commit_radio", "restore"} => old_mode \in Mode
  /\ pc[Commands] \in {"apply"} \union CommitPc => old_motion \in BOOLEAN

(* Eco mode needs the detection, being awake with it the timer.  A command *)
(* that has changed the detection owes both; one that has not, nothing.    *)
(* The commit gives what is owed, however often the command has changed it.*)
Armed == inactivity_work # {} \/ pc[System] \in {"timeout", "exit"}

MotionOwed ==
  pc[Commands] \in {"apply"} \union CommitPc /\ motion_active # old_motion

MotionGuarded ==
  /\ pc[Commands] = "apply" /\ detection_set = "none" =>
       old_motion = motion_active
  /\ pc[Commands] # "lock_motion" /\ ~MotionOwed /\ eco_active => motion_active
  /\ pc[Commands] \in {"idle", "apply"} \union CommitPc /\ ~MotionOwed =>
       (motion_active /\ ~eco_active => Armed)

MotionHolds ==
  /\ detection_set # "twice" => MotionGuarded
  /\ pc[Commands] \in LockedPc /\ eco_active => motion_active

(* What flash holds: the old parameters until the new ones are saved.      *)
RadioStored(mode) == stored_mode = mode \/ "radio" \in params_fault
MotionStored(active) == stored_motion = active \/ "motion" \in params_fault

StoredHolds ==
  /\ pc[Commands] \in {"apply", "commit_radio", "restore"} =>
       RadioStored(old_mode)
  /\ pc[Commands] \in {"idle", "reapply", "commit_motion", "lock_motion"}
                        \union LockedPc =>
       RadioStored(params_mode)
  /\ pc[Commands] \in {"apply"} \union CommitPc => MotionStored(old_motion)
  /\ pc[Commands] \in {"idle", "lock_motion"} \union LockedPc =>
       MotionStored(motion_active)

IInv ==
  /\ TypeOK
  /\ Locks
  /\ Tracks
  /\ CommandNotes
  /\ MotionHolds
  /\ OverrideOnTop
  /\ ScanningGoesOn
  /\ AdvertisedIsCurrent
  /\ StoredHolds

-----------------------------------------------------------------------------
(* Threads, locks and the steps of Next.                                   *)

Labels == {"idle", "timeout", "trigger", "enter",
       "exit", "eco_scan", "status", "apply", "commit_radio",
       "save_radio",
       "restore", "reapply", "commit_motion", "lock_motion", "bits_read",
       "bits_write", "reschedule"}

(* A command's triples, from noting the parameters to the first commit.    *)
Applies ==
  \/ CommandBegin
  \/ \E mode \in Mode : CommandMode(mode)
  \/ \E o \in Other : CommandOther(o)
  \/ \E active \in BOOLEAN : CommandMotion(active)
  \/ CommandApplied

LEMMA ThreadFacts ==
  System # Commands /\ None # System /\ None # Commands
BY ThreadAssumption

LEMMA PcTyped ==
  ASSUME TypeOK
  PROVE  pc \in [{System, Commands} -> Labels]
BY DEF TypeOK, Labels

(* A thread's step leaves the other one where it is.                       *)
LEMMA SystemMoves ==
  ASSUME TypeOK, NEW label \in Labels, Goto(System, label)
  PROVE  /\ pc' \in [{System, Commands} -> Labels]
         /\ pc'[System] = label /\ pc'[Commands] = pc[Commands]
BY PcTyped, ThreadFacts DEF Goto

LEMMA CommandsMoves ==
  ASSUME TypeOK, NEW label \in Labels, Goto(Commands, label)
  PROVE  /\ pc' \in [{System, Commands} -> Labels]
         /\ pc'[Commands] = label /\ pc'[System] = pc[System]
BY PcTyped, ThreadFacts DEF Goto

(* What applying a mode does, whichever call of the controller fails.      *)
LEMMA ApplyModeDoes ==
  ASSUME TypeOK, BoundAssumption, NEW mode \in Mode, NEW errors \in BOOLEAN,
         ApplyMode(mode, errors)
  PROVE  /\ last_applied_mode' = mode
         /\ pending_session_open' = EcoLog(mode)
         /\ eco_scan_work' = Bursts(mode)
         /\ eco_scan_burst_active' \in BOOLEAN /\ scanning' \in BOOLEAN
         /\ scan_runtime_fault' \in BOOLEAN /\ advertising' \in BOOLEAN
         /\ mode = "HIGH" => scanning' \/ scan_runtime_fault'
         /\ advertising' => conn = "none"
         /\ mfg_data' = status \/ mfg_data' = mfg_data
         /\ adv_missed' \in BOOLEAN
         /\ \/ UNCHANGED <<mfg_data, adv_missed>>
            \/ adv_missed'
            \/ mfg_data' = status
         /\ events' \in 0 .. MaxEvents
<1>1. PICK failing \in {"none", "scan_stop", "adv_stop", "adv_start",
                        "scan_start", "update"} :
        /\ failing # "none" => events > 0
        /\ events' = IF failing = "none" THEN events ELSE events - 1
        /\ last_applied_mode' = mode
        /\ pending_session_open' = EcoLog(mode)
        /\ eco_scan_work' = Bursts(mode)
        /\ eco_scan_burst_active' = FALSE
        /\ scanning' = IF mode = "ECO" THEN scanning /\ failing = "scan_stop"
                       ELSE failing # "scan_start"
        /\ scan_runtime_fault' = (failing = "scan_start")
        /\ advertising' = (CanAdvertise /\ failing # "adv_start")
        /\ IF ~advertising' \/ failing = "adv_stop"
           THEN UNCHANGED <<mfg_data, adv_missed>>
           ELSE IF failing = "update"
           THEN adv_missed' = TRUE /\ UNCHANGED mfg_data
           ELSE adv_missed' = FALSE /\ mfg_data' = status
  BY DEF ApplyMode
<1>2. events' \in 0 .. MaxEvents
  <2>1. events \in 0 .. MaxEvents /\ MaxEvents \in Nat
    BY BoundAssumption DEF TypeOK
  <2> QED
    BY <1>1, <2>1
<1>3. /\ eco_scan_burst_active' \in BOOLEAN /\ scanning' \in BOOLEAN
      /\ scan_runtime_fault' \in BOOLEAN /\ advertising' \in BOOLEAN
  BY <1>1 DEF TypeOK, CanAdvertise
<1>4. mode = "HIGH" => scanning' \/ scan_runtime_fault'
  BY <1>1
<1>5. advertising' => conn = "none"
  BY <1>1 DEF CanAdvertise
<1>6. /\ mfg_data' = status \/ mfg_data' = mfg_data
      /\ adv_missed' \in BOOLEAN
      /\ \/ UNCHANGED <<mfg_data, adv_missed>>
         \/ adv_missed'
         \/ mfg_data' = status
  <2>1. CASE ~advertising' \/ failing = "adv_stop"
    BY <1>1, <2>1 DEF TypeOK
  <2>2. CASE advertising' /\ failing = "update"
    BY <1>1, <2>2
  <2>3. CASE advertising' /\ failing \notin {"update", "adv_stop"}
    BY <1>1, <2>3
  <2> QED
    BY <1>3, <2>1, <2>2, <2>3
<1> QED
  BY <1>1, <1>2, <1>3, <1>4, <1>5, <1>6

(* The override changes only while the lock is held, and then it always    *)
(* does.                                                                   *)
LEMMA OverrideDoes ==
  ASSUME TypeOK, NEW active \in BOOLEAN, eco_override_active # active,
         SetOverride(active)
  PROVE  /\ eco_override_active' = active
         /\ \E errors \in BOOLEAN :
              ApplyMode(IF active THEN "ECO" ELSE StoredMode, errors)
BY DEF SetOverride

LEMMA EnterDoes ==
  ASSUME IInv, EnterEco
  PROVE  /\ pc[System] = "enter" /\ Goto(System, "idle")
         /\ eco_active /\ ~eco_override_active /\ ~status.eco
         /\ eco_override_active' = TRUE
         /\ \E errors \in BOOLEAN : ApplyMode("ECO", errors)
         /\ SetStatus([status EXCEPT !.eco = TRUE])
         /\ motion_lock' = None
         /\ UNCHANGED <<motion_active, inactivity_work, eco_active, params_mode,
                        conn, batch, previous, storage, commands,
                        detection_set>>
<1>1. /\ pc[System] = "enter" /\ SetOverride(TRUE)
      /\ eco_active /\ ~eco_override_active /\ ~status.eco /\ TypeOK
  BY DEF EnterEco, IInv, Tracks
<1>2. eco_override_active # TRUE
  BY <1>1
<1> QED
  BY <1>1, <1>2, OverrideDoes DEF EnterEco

LEMMA ExitDoes ==
  ASSUME IInv, ExitEco
  PROVE  /\ pc[System] = "exit" /\ Goto(System, "idle")
         /\ ~eco_active /\ eco_override_active /\ status.eco
         /\ eco_override_active' = FALSE
         /\ \E errors \in BOOLEAN : ApplyMode(params_mode, errors)
         /\ SetStatus([status EXCEPT !.eco = FALSE])
         /\ Rearm /\ motion_lock' = None
         /\ UNCHANGED <<motion_active, eco_active, params_mode, conn, batch,
                        previous, storage, commands>>
<1>1. /\ pc[System] = "exit" /\ SetOverride(FALSE)
      /\ ~eco_active /\ eco_override_active /\ status.eco /\ TypeOK
  BY DEF ExitEco, IInv, Tracks
<1>2. eco_override_active # FALSE
  BY <1>1
<1> QED
  BY <1>1, <1>2, OverrideDoes DEF ExitEco, StoredMode

LEMMA CommandExitDoes ==
  ASSUME IInv, CommandExit
  PROVE  /\ pc[Commands] = "exit" /\ Goto(Commands, "bits_read")
         /\ ~eco_active /\ eco_override_active /\ status.eco
         /\ eco_override_active' = FALSE
         /\ \E errors \in BOOLEAN : ApplyMode(params_mode, errors)
         /\ UNCHANGED <<motion, params_mode, conn, status, status_work, batch,
                        previous, storage, commands, detection_set>>
<1>1. /\ pc[Commands] = "exit" /\ SetOverride(FALSE)
      /\ ~eco_active /\ eco_override_active /\ status.eco /\ TypeOK
  BY DEF CommandExit, IInv, Tracks
<1>2. eco_override_active # FALSE
  BY <1>1
<1> QED
  BY <1>1, <1>2, OverrideDoes DEF CommandExit, StoredMode

-----------------------------------------------------------------------------
(* The lock is held exactly between the step that takes it and the one     *)
(* that gives it back.                                                     *)
LEMMA LocksKept ==
  ASSUME IInv, [Next]_vars
  PROVE  Locks'
<1> USE ThreadFacts DEF Locks, SystemPc, CommandsPc, CommitPc, LockedPc
<1>1. TypeOK /\ Locks /\ pc \in [{System, Commands} -> Labels]
  BY PcTyped DEF IInv
<1>2a. CASE TimeoutStart \/ TriggerStart
  BY <1>1, <1>2a DEF TimeoutStart, TriggerStart, Goto, motion
<1>2b. CASE Timeout
  BY <1>1, <1>2b DEF Timeout, Goto, MotionUnlocked
<1>2c. CASE Trigger
  BY <1>1, <1>2c DEF Trigger, Goto, MotionUnlocked
<1>3. CASE EnterEco \/ ExitEco
  BY <1>1, <1>3 DEF EnterEco, ExitEco, Goto
<1>4. CASE \/ EcoScanStart \/ EcoScan \/ LevelChanges \/ StatusStart
           \/ StatusUpdate
  BY <1>1, <1>4
     DEF EcoScanStart, EcoScan, LevelChanges, StatusStart, StatusUpdate, Goto, motion
<1>5. CASE Applies \/ CommitRadioNothing \/ RestoreRadio \/ SaveRadio
  BY <1>1, <1>5 DEF Applies, CommandBegin, CommandMode, CommandOther,
     CommandMotion, CommandApplied, CommitRadioNothing, RestoreRadio,
     SaveRadio, Goto, motion
<1>6. CASE CommitRadio \/ ReapplyRadio
  BY <1>1, <1>6 DEF CommitRadio, ReapplyRadio, Goto, motion
<1>7. CASE CommitMotionNothing \/ SaveMotion \/ CommitMotion
  BY <1>1, <1>7 DEF CommitMotionNothing, SaveMotion, CommitMotion, CommandEnd,
     MotionUnlocked, Goto, motion
<1>8. CASE CommandExit \/ BitsRead \/ BitsWrite \/ CommitMotionEnd
  BY <1>1, <1>8 DEF CommandExit, BitsRead, BitsWrite, CommitMotionEnd, CommandEnd,
     Goto, motion
<1>9. CASE TimerRunsOut \/ Connect \/ Disconnect \/ Recycled \/ UNCHANGED vars
  BY <1>1, <1>9 DEF TimerRunsOut, Connect, Disconnect, Recycled, vars, motion
<1> QED
  BY <1>2a, <1>2b, <1>2c, <1>3, <1>4, <1>5, <1>6, <1>7, <1>8, <1>9
     DEF Next, SystemStep, CommandStep, Applies

-----------------------------------------------------------------------------
(* Motion domain, override and advertised bit change one after the other,  *)
(* all of them before the lock is free.                                    *)
LEMMA TracksKept ==
  ASSUME IInv, [Next]_vars
  PROVE  Tracks'
<1> USE ThreadFacts DEF Tracks, Agree
<1>1. /\ TypeOK /\ Tracks /\ pc \in [{System, Commands} -> Labels]
      /\ Locks /\ status \in Status
      /\ eco_active \in BOOLEAN /\ eco_override_active \in BOOLEAN
  BY PcTyped DEF IInv, TypeOK
<1>2a. CASE TimeoutStart \/ TriggerStart
  BY <1>1, <1>2a DEF TimeoutStart, TriggerStart, Goto, motion, radio
<1>2b. CASE Timeout
  BY <1>1, <1>2b DEF Timeout, TimeoutEnters, Goto, MotionUnlocked, radio, Locks,
     LockedPc
<1>2c. CASE Trigger
  BY <1>1, <1>2c DEF Trigger, Goto, MotionUnlocked, radio, Locks, LockedPc
<1>3. CASE EnterEco
  <2>1. status' = [status EXCEPT !.eco = TRUE]
    BY <1>3, EnterDoes DEF SetStatus
  <2>2. status'.eco = TRUE
    BY <1>1, <2>1 DEF Status
  <2> QED
    BY <1>1, <1>3, <2>2, EnterDoes DEF Goto, Locks, LockedPc
<1>4. CASE ExitEco
  <2>1. status' = [status EXCEPT !.eco = FALSE]
    BY <1>4, ExitDoes DEF SetStatus
  <2>2. status'.eco = FALSE
    BY <1>1, <2>1 DEF Status
  <2> QED
    <3>1. /\ pc'[System] = "idle" /\ pc'[Commands] = pc[Commands]
          /\ motion_lock = System
      BY <1>1, <1>4, ExitDoes, SystemMoves DEF Locks, Labels
    <3>2. pc[Commands] \notin LockedPc
      BY <1>1, <3>1 DEF Locks
    <3>3. /\ eco_active' = FALSE /\ eco_override_active' = FALSE
      BY <1>1, <1>4, ExitDoes
    <3> QED
      BY <2>2, <3>1, <3>2, <3>3 DEF LockedPc
<1>5. CASE EcoScanStart \/ EcoScan \/ StatusStart \/ StatusUpdate
  BY <1>1, <1>5 DEF EcoScanStart, EcoScan, StatusStart, StatusUpdate, Goto,
     motion, radio
<1>6. CASE LevelChanges
  <2>1. PICK l \in Level \ {status.level} : status' = [status EXCEPT !.level = l]
    BY <1>6 DEF LevelChanges, SetStatus
  <2>2. status'.eco = status.eco
    BY <1>1, <2>1 DEF Status
  <2> QED
    BY <1>1, <1>6, <2>2 DEF LevelChanges, Goto, motion, radio
<1>7. CASE Applies \/ CommitRadioNothing \/ RestoreRadio \/ SaveRadio
  BY <1>1, <1>7 DEF Applies, CommandBegin, CommandMode, CommandOther,
     CommandMotion, CommandApplied, CommitRadioNothing, RestoreRadio,
     SaveRadio, Goto, motion, radio
<1>8. CASE CommitRadio \/ ReapplyRadio
  BY <1>1, <1>8 DEF CommitRadio, ReapplyRadio, Goto, motion
<1>9. CASE CommitMotionNothing \/ SaveMotion \/ CommitMotion
  BY <1>1, <1>9 DEF CommitMotionNothing, SaveMotion, CommitMotion, CommandEnd,
     MotionUnlocked, Goto, motion, radio, Locks, SystemPc, LockedPc
<1>10. CASE CommandExit
  <2>1. /\ pc'[Commands] = "bits_read" /\ pc'[System] = pc[System]
        /\ motion_lock = Commands
    BY <1>1, <1>10, CommandExitDoes, CommandsMoves DEF Locks, LockedPc, Labels
  <2>2. pc[System] \notin {"enter", "exit"}
    BY <1>1, <2>1 DEF Locks
  <2> QED
    <3>1. /\ ~eco_active' /\ ~eco_override_active' /\ status'.eco
          /\ motion_lock' = Commands
      BY <1>10, <2>1, CommandExitDoes DEF motion
    <3> QED
      BY <2>1, <2>2, <3>1
<1>11. CASE BitsRead
  BY <1>1, <1>11 DEF BitsRead, Goto, motion, radio
<1>12. CASE BitsWrite
  <2>1. status'.eco = FALSE
    BY <1>1, <1>12 DEF BitsWrite, Status
  <2> QED
    <3>1. /\ pc'[Commands] = "reschedule" /\ pc'[System] = pc[System]
          /\ motion_lock = Commands
      BY <1>1, <1>12, CommandsMoves DEF BitsWrite, Locks, LockedPc, Labels
    <3>2. pc[System] \notin {"enter", "exit"}
      BY <1>1, <3>1 DEF Locks
    <3>3. UNCHANGED <<eco_active, eco_override_active>>
      BY <1>12 DEF BitsWrite, motion, radio
    <3>4. eco_active = FALSE /\ eco_override_active = FALSE
      BY <1>1, <1>12 DEF BitsWrite
    <3> QED
      BY <2>1, <3>1, <3>2, <3>3, <3>4
<1>13. CASE CommitMotionEnd
  BY <1>1, <1>13 DEF CommitMotionEnd, CommandEnd, Goto, radio, Locks, LockedPc
<1>14. CASE TimerRunsOut \/ Connect \/ Disconnect \/ Recycled \/ UNCHANGED vars
  BY <1>1, <1>14 DEF TimerRunsOut, Connect, Disconnect, Recycled, vars, motion, radio
<1> QED
  BY <1>2a, <1>2b, <1>2c, <1>3, <1>4, <1>5, <1>6, <1>7, <1>8, <1>9, <1>10, <1>11,
     <1>12, <1>13, <1>14 DEF Next, SystemStep, CommandStep, Applies

-----------------------------------------------------------------------------
(* What a command noted stays until it is used.                            *)
LEMMA NotesKept ==
  ASSUME IInv, [Next]_vars
  PROVE  CommandNotes'
<1> USE ThreadFacts DEF CommandNotes, CommitPc
<1>1. TypeOK /\ CommandNotes /\ pc \in [{System, Commands} -> Labels]
  BY PcTyped DEF IInv
<1>2. CASE TimeoutStart \/ Timeout \/ TriggerStart \/ Trigger \/ EnterEco \/ ExitEco
  BY <1>1, <1>2 DEF TimeoutStart, Timeout, TriggerStart, Trigger, EnterEco, ExitEco,
     Goto, batch
<1>3. CASE \/ EcoScanStart \/ EcoScan \/ LevelChanges \/ StatusStart
           \/ StatusUpdate
  BY <1>1, <1>3
     DEF EcoScanStart, EcoScan, LevelChanges, StatusStart, StatusUpdate, Goto, batch
<1>4. CASE CommandBegin
  <2>1. others' \in Other /\ old_mode' \in Mode /\ old_motion' \in BOOLEAN
    BY <1>1, <1>4 DEF CommandBegin, Other, TypeOK
  <2> QED
    BY <2>1
<1>5. CASE Applies /\ ~CommandBegin
  <2>1. /\ pc[Commands] = "apply" /\ UNCHANGED <<old_mode, old_motion>>
        /\ others' = others \/ others' \in Other
    BY <1>5 DEF Applies, CommandMode, CommandOther, CommandMotion, CommandApplied,
       batch
  <2>2. others' \in Other /\ old_mode' \in Mode /\ old_motion' \in BOOLEAN
    BY <1>1, <2>1
  <2> QED
    BY <2>2
<1>6. CASE \/ CommitRadioNothing \/ RestoreRadio \/ SaveRadio \/ CommitRadio
           \/ ReapplyRadio
  BY <1>1, <1>6 DEF CommitRadioNothing, RestoreRadio, SaveRadio, CommitRadio,
     ReapplyRadio, Goto, batch
<1>7. CASE CommitMotionNothing \/ SaveMotion \/ CommitMotion
  BY <1>1, <1>7 DEF CommitMotionNothing, SaveMotion, CommitMotion, CommandEnd,
     Goto, batch
<1>8. CASE CommandExit \/ BitsRead \/ BitsWrite \/ CommitMotionEnd
  BY <1>1, <1>8 DEF CommandExit, BitsRead, BitsWrite, CommitMotionEnd, CommandEnd,
     Goto, batch
<1>9. CASE TimerRunsOut \/ Connect \/ Disconnect \/ Recycled \/ UNCHANGED vars
  BY <1>1, <1>9 DEF TimerRunsOut, Connect, Disconnect, Recycled, vars, batch
<1> QED
  BY <1>2, <1>3, <1>4, <1>5, <1>6, <1>7, <1>8, <1>9
     DEF Next, SystemStep, CommandStep, Applies

-----------------------------------------------------------------------------
(* Eco mode, the detection and its timer.                                  *)
LEMMA MotionKept ==
  ASSUME IInv, [Next]_vars
  PROVE  MotionHolds'
<1> USE ThreadFacts DEF MotionHolds, MotionGuarded, MotionOwed, Armed, CommitPc,
         LockedPc
<1>1. /\ TypeOK /\ MotionHolds /\ pc \in [{System, Commands} -> Labels]
      /\ Locks /\ motion_active \in BOOLEAN
      /\ detection_set \in {"none", "once", "twice"}
  BY PcTyped DEF IInv, TypeOK
<1>2. CASE TimeoutStart \/ TriggerStart
  BY <1>1, <1>2 DEF TimeoutStart, TriggerStart, Goto, motion, batch
<1>3. CASE Timeout
  BY <1>1, <1>3 DEF Timeout, TimeoutEnters, Goto, batch, MotionUnlocked, Locks
<1>4. CASE Trigger
  BY <1>1, <1>4 DEF Trigger, Rearm, Timer, Goto, batch, MotionUnlocked, Locks
<1>5. CASE EnterEco
  BY <1>1, <1>5, EnterDoes DEF Goto, batch
<1>6. CASE ExitEco
  BY <1>1, <1>6, ExitDoes DEF Goto, batch, Rearm, Timer
<1>7. CASE \/ EcoScanStart \/ EcoScan \/ LevelChanges \/ StatusStart
           \/ StatusUpdate
  BY <1>1, <1>7 DEF EcoScanStart, EcoScan, LevelChanges, StatusStart,
     StatusUpdate, Goto, motion, batch
<1>8. CASE Applies
  <2>1. CASE CommandBegin
    BY <1>1, <2>1 DEF CommandBegin, Goto, motion
  <2>2. CASE \/ \E mode \in Mode : CommandMode(mode)
             \/ \E o \in Other : CommandOther(o)
             \/ CommandApplied
    BY <1>1, <2>2 DEF CommandMode, CommandOther, CommandApplied, Goto, motion, batch
  <2>3. ASSUME NEW active \in BOOLEAN, CommandMotion(active)
        PROVE  MotionHolds'
    BY <1>1, <2>3 DEF CommandMotion, batch
  <2> QED
    BY <1>8, <2>1, <2>2, <2>3 DEF Applies
<1>9. CASE \/ CommitRadioNothing \/ RestoreRadio \/ SaveRadio \/ CommitRadio
           \/ ReapplyRadio
  BY <1>1, <1>9 DEF CommitRadioNothing, RestoreRadio, SaveRadio, CommitRadio,
     ReapplyRadio, Goto, motion, batch
<1>10. CASE CommitMotionNothing \/ SaveMotion
  BY <1>1, <1>10 DEF CommitMotionNothing, SaveMotion, CommandEnd, Goto, motion, batch
<1>11. CASE CommitMotion
  BY <1>1, <1>11 DEF CommitMotion, Goto, batch
<1>12. CASE CommandExit \/ BitsRead \/ BitsWrite
  <2>1. /\ pc[Commands] \in {"exit", "bits_read", "bits_write"}
        /\ pc'[Commands] \in {"bits_read", "bits_write", "reschedule"}
        /\ UNCHANGED motion
    BY <1>1, <1>12, CommandsMoves DEF CommandExit, BitsRead, BitsWrite, Labels
  <2> QED
    BY <1>1, <2>1 DEF motion
<1>13. CASE CommitMotionEnd
  BY <1>1, <1>13 DEF CommitMotionEnd, CommandEnd, Goto, Rearm, Timer, Locks
<1>14. CASE TimerRunsOut \/ Connect \/ Disconnect \/ Recycled \/ UNCHANGED vars
  BY <1>1, <1>14 DEF TimerRunsOut, DelayEnds, Connect, Disconnect, Recycled, vars,
     motion, batch
<1> QED
  BY <1>2, <1>3, <1>4, <1>5, <1>6, <1>7, <1>8, <1>9, <1>10, <1>11, <1>12, <1>13,
     <1>14 DEF Next, SystemStep, CommandStep, Applies

-----------------------------------------------------------------------------
(* Every application of a mode leaves it in force, and in the eco log.     *)
LEMMA ModeKept ==
  ASSUME IInv, BoundAssumption, [Next]_vars
  PROVE  OverrideOnTop'
<1> USE ThreadFacts DEF OverrideOnTop, EffectiveMode
<1>1. /\ TypeOK /\ OverrideOnTop
      /\ pc \in [{System, Commands} -> Labels]
      /\ params_mode \in Mode /\ last_applied_mode \in Mode
      /\ pending_session_open \in BOOLEAN /\ eco_override_active \in BOOLEAN
      /\ EffectiveMode \in Mode
  BY PcTyped DEF IInv, TypeOK, Mode
<1>2. ASSUME NEW mode \in Mode, NEW errors \in BOOLEAN, ApplyMode(mode, errors)
      PROVE  /\ last_applied_mode' = mode
             /\ pending_session_open' <=> last_applied_mode' = "ECO"
  BY <1>1, <1>2, ApplyModeDoes DEF EcoLog
<1>3. CASE TimeoutStart \/ TriggerStart \/ Timeout \/ Trigger
  BY <1>1, <1>3 DEF TimeoutStart, TriggerStart, Timeout, Trigger, Goto, radio, batch
<1>4. CASE EnterEco
  <2>1. last_applied_mode' = "ECO" /\ pending_session_open'
    BY <1>2, <1>4, EnterDoes DEF Mode
  <2>2. eco_override_active' = TRUE
    BY <1>4, EnterDoes
  <2> QED
    BY <2>1, <2>2
<1>5. CASE ExitEco
  <2>1. /\ last_applied_mode' = params_mode
        /\ pending_session_open' <=> last_applied_mode' = "ECO"
    BY <1>1, <1>2, <1>5, ExitDoes
  <2>2. eco_override_active' = FALSE
    BY <1>5, ExitDoes
  <2> QED
    BY <2>1, <2>2
<1>6. CASE \/ EcoScanStart \/ EcoScan \/ LevelChanges \/ StatusStart
           \/ StatusUpdate
  BY <1>1, <1>6 DEF EcoScanStart, EcoScan, LevelChanges, StatusStart,
     StatusUpdate, Goto, radio, batch
<1>7. CASE Applies
  BY <1>1, <1>7 DEF Applies, CommandBegin, CommandMode, CommandOther,
     CommandMotion, CommandApplied, Goto, radio
<1>8. CASE CommitRadioNothing \/ RestoreRadio
  BY <1>1, <1>8 DEF CommitRadioNothing, RestoreRadio, Goto, radio
<1>9. CASE CommitRadio
  <2>1. /\ last_applied_mode' = EffectiveMode
        /\ pending_session_open' <=> last_applied_mode' = "ECO"
    BY <1>1, <1>2, <1>9 DEF CommitRadio
  <2>2. UNCHANGED eco_override_active
    BY <1>9 DEF CommitRadio
  <2> QED
    BY <2>1, <2>2
<1>10. CASE ReapplyRadio
  <2>1. /\ last_applied_mode' = EffectiveMode
        /\ pending_session_open' <=> last_applied_mode' = "ECO"
    BY <1>1, <1>2, <1>10 DEF ReapplyRadio
  <2>2. UNCHANGED eco_override_active
    BY <1>10 DEF ReapplyRadio
  <2> QED
    BY <2>1, <2>2
<1>11. CASE SaveRadio \/ CommitMotionNothing \/ SaveMotion \/ CommitMotion
  BY <1>1, <1>11 DEF SaveRadio, CommitMotionNothing, SaveMotion, CommitMotion,
     CommandEnd, Goto, radio
<1>12. CASE CommandExit
  <2>1. /\ last_applied_mode' = params_mode
        /\ pending_session_open' <=> last_applied_mode' = "ECO"
    BY <1>1, <1>2, <1>12, CommandExitDoes
  <2>2. eco_override_active' = FALSE
    BY <1>12, CommandExitDoes
  <2> QED
    BY <2>1, <2>2
<1>13. CASE BitsRead \/ BitsWrite \/ CommitMotionEnd
  BY <1>1, <1>13 DEF BitsRead, BitsWrite, CommitMotionEnd, CommandEnd, Goto, radio
<1>14. CASE TimerRunsOut \/ Connect \/ Disconnect \/ Recycled \/ UNCHANGED vars
  BY <1>1, <1>14 DEF TimerRunsOut, Connect, Disconnect, Recycled, vars, radio, batch
<1> QED
  BY <1>3, <1>4, <1>5, <1>6, <1>7, <1>8, <1>9, <1>10, <1>11, <1>12, <1>13, <1>14
     DEF Next, SystemStep, CommandStep, Applies

-----------------------------------------------------------------------------
(* Bursts follow one another, and no burst disturbs continuous scanning.   *)
LEMMA ScanningKept ==
  ASSUME IInv, BoundAssumption, [Next]_vars
  PROVE  ScanningGoesOn'
<1> USE ThreadFacts DEF ScanningGoesOn
<1>1. /\ TypeOK /\ ScanningGoesOn /\ OverrideOnTop
      /\ pc \in [{System, Commands} -> Labels]
      /\ params_mode \in Mode /\ eco_override_active \in BOOLEAN
      /\ EffectiveMode \in Mode
  BY PcTyped DEF IInv, TypeOK, Mode, EffectiveMode
<1>2. ASSUME NEW mode \in Mode, NEW errors \in BOOLEAN, ApplyMode(mode, errors)
      PROVE  /\ last_applied_mode' = mode
             /\ mode = "ECO" => eco_scan_work' # {}
             /\ mode = "HIGH" => scanning' \/ scan_runtime_fault'
  BY <1>1, <1>2, ApplyModeDoes DEF Bursts
<1>3. CASE TimeoutStart \/ TriggerStart \/ Timeout \/ Trigger
  BY <1>1, <1>3 DEF TimeoutStart, TriggerStart, Timeout, Trigger, Goto, radio
<1>4. CASE EnterEco
  BY <1>2, <1>4, EnterDoes DEF Mode
<1>5. CASE ExitEco
  BY <1>1, <1>2, <1>5, ExitDoes
<1>6. CASE EcoScanStart
  BY <1>1, <1>6 DEF EcoScanStart, Goto
<1>7. CASE EcoScan
  <2>1. CASE eco_override_active
    <3>1. last_applied_mode' # "HIGH" /\ eco_scan_work' # {}
      BY <1>1, <1>7, <2>1 DEF EcoScan, EcoScanAllowed, OverrideOnTop
    <3> QED
      BY <3>1
  <2>2. CASE ~eco_override_active
    BY <1>1, <1>7, <2>2 DEF EcoScan, EcoScanAllowed
  <2> QED
    BY <2>1, <2>2
<1>8. CASE LevelChanges \/ StatusStart \/ StatusUpdate
  BY <1>1, <1>8 DEF LevelChanges, StatusStart, StatusUpdate, Goto, radio
<1>9. CASE Applies \/ CommitRadioNothing \/ RestoreRadio \/ SaveRadio
  BY <1>1, <1>9 DEF Applies, CommandBegin, CommandMode, CommandOther,
     CommandMotion, CommandApplied, CommitRadioNothing, RestoreRadio,
     SaveRadio, Goto, radio
<1>10. CASE CommitRadio \/ ReapplyRadio
  <2>1. /\ \E errors \in BOOLEAN : ApplyMode(EffectiveMode, errors)
        /\ UNCHANGED eco_override_active
    BY <1>10 DEF CommitRadio, ReapplyRadio
  <2> QED
    BY <1>1, <1>2, <2>1 DEF EffectiveMode
<1>11. CASE CommitMotionNothing \/ SaveMotion \/ CommitMotion
  BY <1>1, <1>11 DEF CommitMotionNothing, SaveMotion, CommitMotion, CommandEnd,
     Goto, radio
<1>12. CASE CommandExit
  BY <1>1, <1>2, <1>12, CommandExitDoes
<1>13. CASE BitsRead \/ BitsWrite \/ CommitMotionEnd
  BY <1>1, <1>13 DEF BitsRead, BitsWrite, CommitMotionEnd, CommandEnd, Goto, radio
<1>14. CASE TimerRunsOut \/ Connect \/ Disconnect \/ Recycled \/ UNCHANGED vars
  BY <1>1, <1>14 DEF TimerRunsOut, DelayEnds, Connect, Disconnect, Recycled, vars,
     radio
<1> QED
  BY <1>3, <1>4, <1>5, <1>6, <1>7, <1>8, <1>9, <1>10, <1>11, <1>12, <1>13, <1>14
     DEF Next, SystemStep, CommandStep, Applies

-----------------------------------------------------------------------------
(* A change of the status byte that does not go out at once is queued.     *)
LEMMA AdvertisedKept ==
  ASSUME IInv, BoundAssumption, [Next]_vars
  PROVE  AdvertisedIsCurrent'
<1> USE ThreadFacts DEF AdvertisedIsCurrent
<1>1. /\ TypeOK /\ AdvertisedIsCurrent
      /\ pc \in [{System, Commands} -> Labels]
      /\ params_mode \in Mode /\ EffectiveMode \in Mode
      /\ status \in Status /\ status_work \in BOOLEAN
  BY PcTyped DEF IInv, TypeOK, Mode, EffectiveMode
<1>2. CASE TimeoutStart \/ TriggerStart \/ Timeout \/ Trigger
  BY <1>1, <1>2 DEF TimeoutStart, TriggerStart, Timeout, Trigger, Goto, adv
<1>3. CASE EnterEco
  <2>1. /\ status' = [status EXCEPT !.eco = TRUE] /\ ~status.eco
        /\ status_work' = (status_work \/ status # [status EXCEPT !.eco = TRUE])
    BY <1>3, EnterDoes DEF SetStatus, StatusDiffers
  <2>2. status # [status EXCEPT !.eco = TRUE]
    BY <1>1, <2>1 DEF Status
  <2> QED
    BY <2>1, <2>2
<1>4. CASE ExitEco
  <2>1. /\ status' = [status EXCEPT !.eco = FALSE] /\ status.eco
        /\ status_work' = (status_work \/ status # [status EXCEPT !.eco = FALSE])
    BY <1>4, ExitDoes DEF SetStatus, StatusDiffers
  <2>2. status # [status EXCEPT !.eco = FALSE]
    BY <1>1, <2>1 DEF Status
  <2> QED
    BY <2>1, <2>2
<1>5. CASE EcoScanStart \/ EcoScan
  BY <1>1, <1>5 DEF EcoScanStart, EcoScan, Goto, adv
<1>6. CASE LevelChanges \/ StatusStart \/ StatusUpdate
  BY <1>1, <1>6 DEF LevelChanges, StatusStart, StatusUpdate, Goto
<1>7. CASE Applies \/ CommitRadioNothing \/ RestoreRadio
  BY <1>1, <1>7 DEF Applies, CommandBegin, CommandMode, CommandOther,
     CommandMotion, CommandApplied, CommitRadioNothing, RestoreRadio,
     Goto, adv
<1>8. CASE CommitRadio \/ ReapplyRadio \/ CommandExit
  <2>1. /\ \E mode \in Mode, errors \in BOOLEAN : ApplyMode(mode, errors)
        /\ UNCHANGED <<status, status_work>>
    BY <1>1, <1>8, CommandExitDoes DEF CommitRadio, ReapplyRadio
  <2>2. pc'[System] = pc[System]
    BY <1>1, <1>8 DEF CommitRadio, ReapplyRadio, CommandExit, Goto
  <2> QED
    BY <1>1, <2>1, <2>2, ApplyModeDoes
<1>9. CASE SaveRadio \/ SaveMotion
  BY <1>1, <1>9 DEF SaveRadio, SaveMotion, Saved, SaveFails, SetFaults, Goto
<1>10. CASE CommitMotionNothing \/ CommitMotion \/ BitsRead \/ CommitMotionEnd
  BY <1>1, <1>10 DEF CommitMotionNothing, CommitMotion, BitsRead, CommitMotionEnd,
     CommandEnd, Goto, adv
<1>11. CASE BitsWrite
  <2>1. previous \in Status /\ previous.eco
    BY <1>11 DEF BitsWrite, IInv, Tracks
  <2>2. previous # [previous EXCEPT !.eco = FALSE]
    BY <2>1 DEF Status
  <2> QED
    BY <1>11, <2>2 DEF BitsWrite, StatusDiffers
<1>12. CASE TimerRunsOut \/ Connect \/ Disconnect \/ Recycled \/ UNCHANGED vars
  BY <1>1, <1>12 DEF TimerRunsOut, Connect, Disconnect, Recycled, vars, adv
<1> QED
  BY <1>2, <1>3, <1>4, <1>5, <1>6, <1>7, <1>8, <1>9, <1>10, <1>11, <1>12
     DEF Next, SystemStep, CommandStep, Applies

-----------------------------------------------------------------------------
(* Flash follows the parameters once they are accepted, or a fault says so.*)
LEMMA StoredKept ==
  ASSUME IInv, [Next]_vars
  PROVE  StoredHolds'
<1> USE ThreadFacts DEF StoredHolds, RadioStored, MotionStored, CommitPc, LockedPc
<1>1. /\ TypeOK /\ StoredHolds /\ MotionHolds /\ Locks
      /\ pc \in [{System, Commands} -> Labels]
  BY PcTyped DEF IInv
<1>2. CASE TimeoutStart \/ TriggerStart \/ Timeout \/ Trigger
  BY <1>1, <1>2 DEF TimeoutStart, TriggerStart, Timeout, Trigger, Goto, motion,
     batch, storage
<1>3. CASE EnterEco \/ ExitEco
  BY <1>1, <1>3 DEF EnterEco, ExitEco, Goto, batch, storage
<1>4. CASE \/ EcoScanStart \/ EcoScan \/ LevelChanges \/ StatusStart
           \/ StatusUpdate
  BY <1>1, <1>4 DEF EcoScanStart, EcoScan, LevelChanges, StatusStart,
     StatusUpdate, Goto, motion, batch, storage
<1>5. CASE CommandBegin
  BY <1>1, <1>5 DEF CommandBegin, Goto, motion, storage
<1>6. CASE Applies /\ ~CommandBegin
  BY <1>1, <1>6 DEF Applies, CommandMode, CommandOther, CommandMotion,
     CommandApplied, Goto, batch, storage
<1>7. CASE CommitRadioNothing \/ RestoreRadio
  BY <1>1, <1>7 DEF CommitRadioNothing, RestoreRadio, RadioCommitted, Goto,
     motion, storage
<1>8. CASE CommitRadio \/ ReapplyRadio
  BY <1>1, <1>8 DEF CommitRadio, ReapplyRadio, RadioCommitted, Goto, motion,
     batch, storage
<1>9. CASE SaveRadio
  BY <1>1, <1>9 DEF SaveRadio, Saved, SaveFails, SetFaults, ModeToSave, Goto,
     motion, batch
<1>10. CASE CommitMotionNothing
  BY <1>1, <1>10 DEF CommitMotionNothing, CommandEnd, Goto, motion, storage
<1>11. CASE SaveMotion
  BY <1>1, <1>11 DEF SaveMotion, Saved, SaveFails, SetFaults, Goto, motion
<1>12. CASE CommitMotion
  BY <1>1, <1>12 DEF CommitMotion, Goto, storage
<1>13. CASE CommandExit \/ BitsRead \/ BitsWrite \/ CommitMotionEnd
  BY <1>1, <1>13 DEF CommandExit, BitsRead, BitsWrite, CommitMotionEnd,
     CommandEnd, Goto, motion, storage
<1>14. CASE TimerRunsOut \/ Connect \/ Disconnect \/ Recycled \/ UNCHANGED vars
  BY <1>1, <1>14 DEF TimerRunsOut, Connect, Disconnect, Recycled, vars, motion,
     batch, storage
<1> QED
  BY <1>2, <1>3, <1>4, <1>5, <1>6, <1>7, <1>8, <1>9, <1>10, <1>11, <1>12, <1>13,
     <1>14 DEF Next, SystemStep, CommandStep, Applies

-----------------------------------------------------------------------------
(* Types.                                                                  *)
LEMMA PcKept ==
  ASSUME IInv, [Next]_vars
  PROVE  pc' \in [{System, Commands} -> Labels]
<1>1. TypeOK /\ pc \in [{System, Commands} -> Labels]
  BY PcTyped DEF IInv
<1>2. ASSUME NEW t \in {System, Commands}, NEW label \in Labels, Goto(t, label)
      PROVE  pc' \in [{System, Commands} -> Labels]
  BY <1>1, <1>2 DEF Goto
<1>3. CASE TimeoutStart \/ TriggerStart \/ Timeout \/ Trigger \/ EnterEco \/ ExitEco
  BY <1>2, <1>3 DEF TimeoutStart, TriggerStart, Timeout, Trigger, EnterEco,
     ExitEco, Labels
<1>4. CASE \/ EcoScanStart \/ EcoScan \/ LevelChanges \/ StatusStart
           \/ StatusUpdate
  BY <1>2, <1>4 DEF EcoScanStart, EcoScan, LevelChanges, StatusStart,
     StatusUpdate, Labels
<1>5a. CASE Applies
  <2>1. Goto(Commands, "apply") \/ Goto(Commands, "commit_radio") \/ UNCHANGED pc
    BY <1>5a DEF Applies, CommandBegin, CommandMode, CommandOther, CommandMotion,
       CommandApplied
  <2> QED
    BY <1>1, <1>2, <2>1 DEF Labels
<1>5. CASE \/ CommitRadioNothing \/ CommitRadio \/ RestoreRadio \/ ReapplyRadio
           \/ SaveRadio
  BY <1>2, <1>5 DEF CommitRadioNothing, CommitRadio, RestoreRadio, ReapplyRadio,
     SaveRadio, Labels
<1>6. CASE \/ CommitMotionNothing \/ SaveMotion \/ CommitMotion \/ CommandExit
           \/ BitsRead \/ BitsWrite \/ CommitMotionEnd
  BY <1>2, <1>6 DEF CommitMotionNothing, SaveMotion, CommitMotion, CommandExit,
     BitsRead, BitsWrite, CommitMotionEnd, CommandEnd, Labels
<1>7. CASE TimerRunsOut \/ Connect \/ Disconnect \/ Recycled \/ UNCHANGED vars
  BY <1>1, <1>7 DEF TimerRunsOut, Connect, Disconnect, Recycled, vars
<1> QED
  BY <1>3, <1>4, <1>5a, <1>5, <1>6, <1>7
     DEF Next, SystemStep, CommandStep, Applies

(* The motion domain, its timer and its lock.                              *)
MotionTyped ==
  /\ motion_active \in BOOLEAN /\ eco_active \in BOOLEAN
  /\ inactivity_work \subseteq Pending
  /\ motion_lock \in {System, Commands, None}

(* The radio, its bursts, its advertising and its connection.              *)
RadioTyped ==
  /\ last_applied_mode \in Mode /\ pending_session_open \in BOOLEAN
  /\ eco_override_active \in BOOLEAN /\ eco_scan_burst_active \in BOOLEAN
  /\ eco_scan_work \subseteq Pending
  /\ scanning \in BOOLEAN /\ scan_runtime_fault \in BOOLEAN
  /\ advertising \in BOOLEAN /\ conn \in {"none", "connected", "closing"}
  /\ advertising => conn = "none"

(* The status byte, its copies and its update.                             *)
StatusTyped ==
  /\ status \in Status /\ mfg_data \in Status
  /\ previous \in Status \union {None}
  /\ status_work \in BOOLEAN /\ adv_missed \in BOOLEAN

(* The command, the parameters and flash.                                  *)
CommandTyped ==
  /\ params_mode \in Mode
  /\ others \in Other \union {None}
  /\ old_mode \in Mode \union {None} /\ old_motion \in BOOLEAN \union {None}
  /\ stored_mode \in Mode /\ stored_motion \in BOOLEAN
  /\ params_fault \subseteq {"radio", "motion"}
  /\ commands \in 0 .. MaxCommands
  /\ detection_set \in {"none", "once", "twice"}

LEMMA TypeParts ==
  TypeOK <=>
    /\ MotionTyped /\ RadioTyped /\ StatusTyped /\ CommandTyped
    /\ pc \in [{System, Commands} -> Labels]
    /\ events \in 0 .. MaxEvents
BY DEF TypeOK, MotionTyped, RadioTyped, StatusTyped, CommandTyped, Labels

LEMMA EventsKept ==
  ASSUME IInv, BoundAssumption, [Next]_vars
  PROVE  events' \in 0 .. MaxEvents
<1>1. /\ TypeOK /\ events \in 0 .. MaxEvents /\ MaxEvents \in Nat
      /\ params_mode \in Mode /\ EffectiveMode \in Mode
  BY BoundAssumption DEF IInv, TypeOK, Mode, EffectiveMode
<1>2. events > 0 => events - 1 \in 0 .. MaxEvents
  BY <1>1
<1>3. CASE EnterEco \/ ExitEco \/ CommandExit \/ CommitRadio \/ ReapplyRadio
  <2>1. \E mode \in Mode, errors \in BOOLEAN : ApplyMode(mode, errors)
    BY <1>1, <1>3, EnterDoes, ExitDoes, CommandExitDoes
       DEF CommitRadio, ReapplyRadio, Mode
  <2> QED
    BY <1>1, <2>1, ApplyModeDoes
<1>4. CASE TimeoutStart \/ TriggerStart \/ Timeout \/ Trigger \/ EcoScanStart \/ StatusStart
  BY <1>1, <1>4 DEF TimeoutStart, TriggerStart, Timeout, Trigger, EcoScanStart,
     StatusStart
<1>5. CASE EcoScan \/ LevelChanges \/ StatusUpdate
  BY <1>1, <1>2, <1>5 DEF EcoScan, LevelChanges, StatusUpdate
<1>6. CASE Applies \/ CommitRadioNothing \/ RestoreRadio
  BY <1>1, <1>6 DEF Applies, CommandBegin, CommandMode, CommandOther,
     CommandMotion, CommandApplied, CommitRadioNothing, RestoreRadio
<1>7. CASE SaveRadio \/ SaveMotion
  BY <1>1, <1>2, <1>7 DEF SaveRadio, SaveMotion, Saved, SaveFails
<1>8. CASE \/ CommitMotionNothing \/ CommitMotion \/ BitsRead \/ BitsWrite
           \/ CommitMotionEnd
  BY <1>1, <1>8 DEF CommitMotionNothing, CommitMotion, BitsRead, BitsWrite,
     CommitMotionEnd
<1>9. CASE TimerRunsOut \/ Connect \/ Disconnect \/ Recycled \/ UNCHANGED vars
  BY <1>1, <1>2, <1>9 DEF TimerRunsOut, Connect, Disconnect, Recycled, vars
<1> QED
  BY <1>3, <1>4, <1>5, <1>6, <1>7, <1>8, <1>9 DEF Next, SystemStep, CommandStep, Applies

LEMMA MotionTypeKept ==
  ASSUME IInv, [Next]_vars
  PROVE  MotionTyped'
<1> USE DEF MotionTyped
<1>1. MotionTyped /\ TypeOK
  BY TypeParts DEF IInv
<1>2. inactivity_work' = Timer => inactivity_work' \subseteq Pending
  BY <1>1 DEF Timer, Pending
<1>3. CASE TimeoutStart \/ TriggerStart \/ Timeout \/ Trigger \/ EnterEco \/ ExitEco
  BY <1>1, <1>2, <1>3 DEF TimeoutStart, TriggerStart, Timeout, Trigger, EnterEco,
     ExitEco, Rearm, motion
<1>4. CASE \/ EcoScanStart \/ EcoScan \/ LevelChanges \/ StatusStart
           \/ StatusUpdate
  BY <1>1, <1>4 DEF EcoScanStart, EcoScan, LevelChanges, StatusStart,
     StatusUpdate, motion
<1>5. CASE Applies
  BY <1>1, <1>5 DEF Applies, CommandBegin, CommandMode, CommandOther,
     CommandMotion, CommandApplied, motion
<1>6. CASE \/ CommitRadioNothing \/ CommitRadio
           \/ RestoreRadio \/ ReapplyRadio \/ SaveRadio
  BY <1>1, <1>6 DEF CommitRadioNothing, CommitRadio,
     RestoreRadio, ReapplyRadio, SaveRadio, motion
<1>7. CASE \/ CommitMotionNothing \/ SaveMotion \/ CommitMotion \/ CommandExit
           \/ BitsRead \/ BitsWrite \/ CommitMotionEnd
  BY <1>1, <1>2, <1>7 DEF CommitMotionNothing, SaveMotion, CommitMotion,
     CommandExit, BitsRead, BitsWrite, CommitMotionEnd, Rearm, motion
<1>8. CASE TimerRunsOut \/ Connect \/ Disconnect \/ Recycled \/ UNCHANGED vars
  BY <1>1, <1>8 DEF TimerRunsOut, DelayEnds, Connect, Disconnect, Recycled, vars,
     motion, Pending
<1> QED
  BY <1>3, <1>4, <1>5, <1>6, <1>7, <1>8 DEF Next, SystemStep, CommandStep, Applies

LEMMA RadioTypeKept ==
  ASSUME IInv, BoundAssumption, [Next]_vars
  PROVE  RadioTyped'
<1> USE DEF RadioTyped
<1>1. /\ RadioTyped /\ TypeOK
      /\ params_mode \in Mode /\ EffectiveMode \in Mode
  BY TypeParts DEF IInv, TypeOK, Mode, EffectiveMode
<1>2. ASSUME NEW mode \in Mode, NEW errors \in BOOLEAN, ApplyMode(mode, errors),
             eco_override_active' \in BOOLEAN, UNCHANGED conn
      PROVE  RadioTyped'
  <2>1. EcoLog(mode) \in BOOLEAN /\ Bursts(mode) \subseteq Pending
    BY <1>1 DEF EcoLog, Bursts, Pending
  <2> QED
    BY <1>1, <1>2, <2>1, ApplyModeDoes
<1>3. CASE EnterEco \/ ExitEco \/ CommandExit \/ CommitRadio \/ ReapplyRadio
  <2>1. /\ \E mode \in Mode, errors \in BOOLEAN : ApplyMode(mode, errors)
        /\ eco_override_active' \in BOOLEAN /\ UNCHANGED conn
    BY <1>1, <1>3, EnterDoes, ExitDoes, CommandExitDoes
       DEF CommitRadio, ReapplyRadio, Mode
  <2> QED
    BY <1>2, <2>1
<1>4. CASE TimeoutStart \/ TriggerStart \/ Timeout \/ Trigger
  BY <1>1, <1>4 DEF TimeoutStart, TriggerStart, Timeout, Trigger, radio
<1>5. CASE EcoScanStart \/ EcoScan
  <2>1. eco_scan_work' \subseteq Pending
    BY <1>1, <1>5 DEF EcoScanStart, EcoScan, Pending
  <2>2. scanning' \in BOOLEAN /\ eco_scan_burst_active' \in BOOLEAN
    BY <1>1, <1>5 DEF EcoScanStart, EcoScan
  <2> QED
    BY <1>1, <1>5, <2>1, <2>2 DEF EcoScanStart, EcoScan
<1>6. CASE LevelChanges \/ StatusStart \/ StatusUpdate
  BY <1>1, <1>6 DEF LevelChanges, StatusStart, StatusUpdate, radio
<1>7. CASE Applies \/ CommitRadioNothing \/ RestoreRadio \/ SaveRadio
  BY <1>1, <1>7 DEF Applies, CommandBegin, CommandMode, CommandOther,
     CommandMotion, CommandApplied, CommitRadioNothing, RestoreRadio,
     SaveRadio, radio
<1>8. CASE \/ CommitMotionNothing \/ SaveMotion \/ CommitMotion
           \/ BitsRead \/ BitsWrite \/ CommitMotionEnd
  BY <1>1, <1>8 DEF CommitMotionNothing, SaveMotion, CommitMotion, BitsRead,
     BitsWrite, CommitMotionEnd, radio
<1>9. CASE TimerRunsOut
  <2>1. eco_scan_work' \subseteq Pending
    BY <1>1, <1>9 DEF TimerRunsOut, DelayEnds, Pending
  <2> QED
    BY <1>1, <1>9, <2>1 DEF TimerRunsOut
<1>10. CASE Connect
  BY <1>1, <1>10 DEF Connect
<1>11. CASE Recycled
  BY <1>1, <1>11 DEF Recycled
<1>12. CASE Disconnect \/ UNCHANGED vars
  BY <1>1, <1>12 DEF Disconnect, vars, radio
<1> QED
  BY <1>3, <1>4, <1>5, <1>6, <1>7, <1>8, <1>9, <1>10, <1>11, <1>12
     DEF Next, SystemStep, CommandStep, Applies

LEMMA StatusTypeKept ==
  ASSUME IInv, BoundAssumption, [Next]_vars
  PROVE  StatusTyped'
<1> USE DEF StatusTyped
<1>1. /\ StatusTyped /\ TypeOK /\ Tracks
      /\ params_mode \in Mode /\ EffectiveMode \in Mode
  BY TypeParts DEF IInv, TypeOK, Mode, EffectiveMode
<1>2. ASSUME NEW s \in Status, NEW bit \in BOOLEAN
      PROVE  [s EXCEPT !.eco = bit] \in Status
  BY DEF Status
<1>3. CASE EnterEco \/ ExitEco
  <2>1. /\ \E bit \in BOOLEAN : SetStatus([status EXCEPT !.eco = bit])
        /\ \E mode \in Mode, errors \in BOOLEAN : ApplyMode(mode, errors)
        /\ UNCHANGED previous
    BY <1>1, <1>3, EnterDoes, ExitDoes DEF Mode
  <2>2. status' \in Status /\ status_work' \in BOOLEAN
    BY <1>1, <1>2, <2>1 DEF SetStatus, StatusDiffers
  <2>3. mfg_data' \in Status /\ adv_missed' \in BOOLEAN
    BY <1>1, <2>1, ApplyModeDoes
  <2> QED
    BY <1>1, <2>1, <2>2, <2>3
<1>4. CASE CommandExit \/ CommitRadio \/ ReapplyRadio
  <2>1. /\ \E mode \in Mode, errors \in BOOLEAN : ApplyMode(mode, errors)
        /\ UNCHANGED <<previous, status, status_work>>
    BY <1>1, <1>4, CommandExitDoes DEF CommitRadio, ReapplyRadio, Mode
  <2>2. mfg_data' \in Status /\ adv_missed' \in BOOLEAN
    BY <1>1, <2>1, ApplyModeDoes
  <2> QED
    BY <1>1, <2>1, <2>2
<1>5. CASE \/ TimeoutStart \/ TriggerStart \/ Timeout \/ Trigger \/ EcoScanStart
           \/ EcoScan
  BY <1>1, <1>5 DEF TimeoutStart, TriggerStart, Timeout, Trigger, EcoScanStart,
     EcoScan, adv
<1>6. CASE LevelChanges
  <2>1. PICK l \in Level : SetStatus([status EXCEPT !.level = l])
    BY <1>6 DEF LevelChanges
  <2>2. [status EXCEPT !.level = l] \in Status
    BY <1>1 DEF Status
  <2> QED
    BY <1>1, <1>6, <2>1, <2>2 DEF LevelChanges, SetStatus, StatusDiffers
<1>7. CASE StatusStart \/ StatusUpdate
  BY <1>1, <1>7 DEF StatusStart, StatusUpdate
<1>8. CASE Applies \/ CommitRadioNothing \/ RestoreRadio
  BY <1>1, <1>8 DEF Applies, CommandBegin, CommandMode, CommandOther,
     CommandMotion, CommandApplied, CommitRadioNothing, RestoreRadio,
     adv
<1>9. CASE SaveRadio \/ SaveMotion
  BY <1>1, <1>9 DEF SaveRadio, SaveMotion, Saved, SaveFails, SetFaults
<1>10. CASE CommitMotionNothing \/ CommitMotion \/ BitsRead \/ CommitMotionEnd
  BY <1>1, <1>10 DEF CommitMotionNothing, CommitMotion, BitsRead, CommitMotionEnd,
     adv
<1>11. CASE BitsWrite
  <2>1. previous \in Status
    BY <1>1, <1>11 DEF BitsWrite, Tracks
  <2>2. status' \in Status /\ status_work' \in BOOLEAN
    BY <1>1, <1>2, <1>11, <2>1 DEF BitsWrite, StatusDiffers
  <2> QED
    BY <1>1, <1>11, <2>2 DEF BitsWrite
<1>12. CASE TimerRunsOut \/ Connect \/ Disconnect \/ Recycled \/ UNCHANGED vars
  BY <1>1, <1>12 DEF TimerRunsOut, Connect, Disconnect, Recycled, vars, adv
<1> QED
  BY <1>3, <1>4, <1>5, <1>6, <1>7, <1>8, <1>9, <1>10, <1>11, <1>12
     DEF Next, SystemStep, CommandStep, Applies

LEMMA CommandTypeKept ==
  ASSUME IInv, BoundAssumption, [Next]_vars
  PROVE  CommandTyped'
<1> USE DEF CommandTyped
<1>1. /\ CommandTyped /\ TypeOK /\ CommandNotes
      /\ motion_active \in BOOLEAN
  BY TypeParts DEF IInv, TypeOK
<1>2. CASE EnterEco \/ ExitEco
  <2>1. /\ UNCHANGED <<batch, params_mode, storage, commands>>
        /\ detection_set' = detection_set \/ Rearm
    BY <1>2, EnterDoes, ExitDoes
  <2> QED
    BY <1>1, <2>1 DEF Rearm, batch, storage
<1>3. CASE \/ TimeoutStart \/ Timeout \/ TriggerStart \/ Trigger \/ EcoScanStart
           \/ EcoScan \/ LevelChanges \/ StatusStart \/ StatusUpdate
  BY <1>1, <1>3 DEF TimeoutStart, TriggerStart, Timeout, Trigger, EcoScanStart,
     EcoScan, LevelChanges, StatusStart, StatusUpdate, Rearm, batch, storage
<1>4. CASE CommandBegin
  <2>1. commands' \in 0 .. MaxCommands
    BY <1>1, <1>4, BoundAssumption DEF CommandBegin
  <2> QED
    BY <1>1, <1>4, <2>1 DEF CommandBegin, Other, storage
<1>5. CASE Applies /\ ~CommandBegin
  BY <1>1, <1>5 DEF Applies, CommandMode, CommandOther, CommandMotion,
     CommandApplied, batch, storage
<1>6. CASE CommitRadioNothing \/ RestoreRadio
  BY <1>1, <1>6 DEF CommitRadioNothing, RestoreRadio, RadioCommitted,
     CommandNotes, storage
<1>7. CASE CommitRadio \/ ReapplyRadio
  BY <1>1, <1>7 DEF CommitRadio, ReapplyRadio, RadioCommitted, batch, storage
<1>8. CASE SaveRadio
  BY <1>1, <1>8 DEF SaveRadio, Saved, SaveFails, SetFaults, ModeToSave, batch
<1>9. CASE SaveMotion
  BY <1>1, <1>9 DEF SaveMotion, Saved, SaveFails, SetFaults, batch
<1>10. CASE \/ CommitMotionNothing \/ CommitMotion \/ BitsRead \/ BitsWrite
            \/ CommitMotionEnd
  BY <1>1, <1>10 DEF CommitMotionNothing, CommitMotion, BitsRead, BitsWrite,
     CommitMotionEnd, CommandEnd, Rearm, batch, storage
<1>11. CASE CommandExit
  BY <1>1, <1>11, CommandExitDoes DEF batch, storage
<1>12. CASE TimerRunsOut \/ Connect \/ Disconnect \/ Recycled \/ UNCHANGED vars
  BY <1>1, <1>12 DEF TimerRunsOut, Connect, Disconnect, Recycled, vars, batch,
     storage
<1> QED
  BY <1>2, <1>3, <1>4, <1>5, <1>6, <1>7, <1>8, <1>9, <1>10, <1>11, <1>12
     DEF Next, SystemStep, CommandStep, Applies

-----------------------------------------------------------------------------
(* The theorems.                                                           *)
LEMMA InitInvariant ==
  ASSUME ThreadAssumption, BoundAssumption, Init
  PROVE  IInv
<1> USE ThreadFacts
    DEF Init, RadioInit, MotionInit, RadioStart, RadioParamsLoad, MotionParamsLoad
<1>1. pc \in [{System, Commands} -> Labels]
      /\ pc[System] = "idle" /\ pc[Commands] = "idle"
  BY DEF Labels
<1>2. status.eco = FALSE /\ status \in Status /\ mfg_data \in Status
  BY DEF Status, Level
<1>3. events \in 0 .. MaxEvents
  <2>1. params_fault \subseteq {"radio"} \union {"motion"}
    OBVIOUS
  <2>2. IsFiniteSet({"radio"} \union {"motion"})
    BY FS_Singleton, FS_Union
  <2>3. IsFiniteSet(params_fault)
    BY <2>1, <2>2, FS_Subset
  <2>4. Cardinality(params_fault) \in Nat
    BY <2>3, FS_CardinalityType
  <2> QED
    BY <2>4, BoundAssumption
<1>4. commands \in 0 .. MaxCommands
  BY BoundAssumption
<1>5. CommandTyped /\ StatusTyped
  BY <1>2, <1>4 DEF CommandTyped, StatusTyped
<1>6. MotionTyped
  BY DEF MotionTyped, Pending
<1>7. RadioTyped
  BY DEF RadioTyped, Pending, Bursts
<1>8. TypeOK
  BY <1>1, <1>3, <1>5, <1>6, <1>7, TypeParts
<1>9. Locks /\ Tracks
  BY <1>1, <1>2 DEF Locks, Tracks, Agree, SystemPc, CommandsPc, LockedPc
<1>10. CommandNotes /\ MotionHolds
  BY <1>1
     DEF CommandNotes, MotionHolds, MotionGuarded, MotionOwed, Armed, CommitPc,
         LockedPc
<1>11. OverrideOnTop /\ ScanningGoesOn
  BY <1>1 DEF OverrideOnTop, ScanningGoesOn, EffectiveMode, Bursts
<1>12. AdvertisedIsCurrent
  BY DEF AdvertisedIsCurrent
<1>13. StoredHolds
  BY <1>1 DEF StoredHolds, RadioStored, MotionStored, CommitPc, LockedPc
<1> QED
  BY <1>8, <1>9, <1>10, <1>11, <1>12, <1>13 DEF IInv

LEMMA NextInvariant ==
  ASSUME BoundAssumption, IInv, [Next]_vars
  PROVE  IInv'
<1>1. MotionTyped' /\ RadioTyped' /\ StatusTyped' /\ CommandTyped'
  BY MotionTypeKept, RadioTypeKept, StatusTypeKept, CommandTypeKept
<1>2. (pc \in [{System, Commands} -> Labels])' /\ (events \in 0 .. MaxEvents)'
  BY PcKept, EventsKept
<1>3. TypeOK'
  BY <1>1, <1>2
     DEF TypeOK, MotionTyped, RadioTyped, StatusTyped, CommandTyped, Labels
<1> QED
  BY <1>3, LocksKept, TracksKept, NotesKept, MotionKept, ModeKept, ScanningKept,
     AdvertisedKept, StoredKept
     DEF IInv

(* Every reachable state satisfies the inductive invariant.                *)
THEOREM EcoInvariant == Spec => []IInv
<1>1. Init => IInv
  BY InitInvariant, ThreadAssumption, BoundAssumption
<1>2. IInv /\ [Next]_vars => IInv'
  BY NextInvariant, BoundAssumption
<1> QED
  BY <1>1, <1>2, PTL DEF Spec

(* Types, and the bounds of the work items: radio.c, motion.c, device.c.   *)
THEOREM EcoTypes == Spec => []TypeOK
<1>1. IInv => TypeOK
  BY DEF IInv
<1> QED
  BY <1>1, EcoInvariant, PTL

(* Whenever motion_lock is free, the motion domain, the radio's override   *)
(* and the advertised eco bit agree, however triggers, timeouts and        *)
(* commands interleave.                                                    *)
THEOREM EcoAlwaysAgrees == Spec => []EcoAgrees
<1>1. IInv => EcoAgrees
  BY DEF IInv, Tracks, Agree, EcoAgrees
<1> QED
  BY <1>1, EcoInvariant, PTL

(* Unless a command sets the detection more than once, no tag is left in  *)
(* eco mode by a detection that is disabled, and an awake one with the     *)
(* detection enabled has its timer running, however timeouts, motion and   *)
(* commands interleave.                                                    *)
THEOREM EcoNeverStuck == Spec => []NeverStuck
<1>1. IInv => NeverStuck
  BY DEF IInv, MotionHolds, MotionGuarded, MotionOwed, Armed, CommitPc, NeverStuck
<1> QED
  BY <1>1, EcoInvariant, PTL

(* As long as inactivity holds the tag in eco mode the radio is in that    *)
(* mode, whatever commands choose and however their commits end; the eco   *)
(* log times a session exactly while the radio is in it.                   *)
THEOREM EcoOverrideOnTop == Spec => []OverrideOnTop
<1>1. IInv => OverrideOnTop
  BY DEF IInv
<1> QED
  BY <1>1, EcoInvariant, PTL

(* In eco mode by inactivity the next burst is scheduled; in full activity *)
(* the tag scans or reports a fault.                                       *)
THEOREM EcoScanningGoesOn == Spec => []ScanningGoesOn
<1>1. IInv => ScanningGoesOn
  BY DEF IInv
<1> QED
  BY <1>1, EcoInvariant, PTL

(* The advertising data carry the current status byte unless an update is  *)
(* on its way, or the last one failed.                                     *)
THEOREM EcoAdvertisedIsCurrent == Spec => []AdvertisedIsCurrent
<1>1. IInv => AdvertisedIsCurrent
  BY DEF IInv
<1> QED
  BY <1>1, EcoInvariant, PTL

(* Between commands flash holds the parameters in force, or a fault bit is *)
(* set.                                                                    *)
THEOREM EcoStoredInForce == Spec => []StoredInForce
<1>1. IInv => StoredInForce
  BY DEF IInv, StoredHolds, RadioStored, MotionStored, StoredInForce
<1> QED
  BY <1>1, EcoInvariant, PTL
=============================================================================

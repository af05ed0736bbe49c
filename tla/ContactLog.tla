----------------------------- MODULE ContactLog -----------------------------
(***************************************************************************)
(* The contact pipeline (network.c): contacts heard by the scanner go to a *)
(* RAM ring, the storage work queue moves them to flash, the transfer work *)
(* queue exports them, and the system work queue turns the number of those *)
(* still held into the data level that the tag advertises, by which a base *)
(* station decides whether to read the tag out.                            *)
(*                                                                         *)
(* The contact lock is released around storage calls and taken anew by     *)
(* network_schedule_flush_if_needed, so an action is one critical section, *)
(* one storage call, or one call that schedules work.  pc[t] says what     *)
(* thread t comes to next.                                                 *)
(*                                                                         *)
(* Contacts are numbered in the order they were stored.  Those that the    *)
(* RSSI threshold or inactive tracking rejects never reach this code.  The *)
(* flash store is what its own specification shows it to be: a queue of    *)
(* blocks, of any length up to a limit, whose calls happen at once or fail.*)
(***************************************************************************)
EXTENDS Integers, FiniteSets, SequencesExt

CONSTANTS
  RingCount,       \* CONFIG_DSA_NETWORK_RING_COUNT
  FlushThreshold,  \* CONFIG_DSA_NETWORK_FLUSH_THRESHOLD
  BlockContacts,   \* NETWORK_STORAGE_BLOCK_CONTACTS
  FlashBlocks,     \* NETWORK_STORAGE_BLOCK_COUNT
  BufferContacts,  \* contacts the caller's export buffer has room for
  DataLevels,      \* DATA_LEVEL_1, DATA_LEVEL_2, ...
  CountMax,        \* UINT16_MAX
  Scanner, Flusher, Transfer, System,   \* the threads
  MaxContacts,     \* bound: contacts ever stored
  MaxFaults,       \* bound: storage calls that fail
  MaxExports       \* bound: exports begun

ASSUME RingAssumption ==
  /\ RingCount \in Nat /\ FlushThreshold \in Nat \ {0}
  /\ FlushThreshold <= RingCount
ASSUME StorageAssumption ==
  /\ BlockContacts \in Nat \ {0} /\ FlashBlocks \in Nat \ {0}
  /\ BufferContacts \in Nat \ {0}
ASSUME LevelAssumption ==
  /\ DataLevels \in Seq(Nat) /\ CountMax \in Nat
  /\ \A i \in 1 .. Len(DataLevels) - 1 : DataLevels[i] < DataLevels[i + 1]
ASSUME ThreadAssumption ==
  Cardinality({Scanner, Flusher, Transfer, System}) = 4
ASSUME BoundAssumption ==
  MaxContacts \in Nat /\ MaxFaults \in Nat /\ MaxExports \in Nat

VARIABLES
  ram,                       \* the ring's contacts, oldest first
  idx_read,                  \* slot of the oldest of them
  contact_export_source,
  contact_export_count,      \* contact_export_bytes, in contacts
  contact_flush_active,
  contact_flush_read_index,
  contact_flush_block,
  contact_nvm_full,
  flush_work,    \* network_flush_work is queued
  flash,         \* blocks in flash, oldest first; dropped contacts left out
  update_work,   \* network_status_update_work: idle, delayed or queued
  number_dataset,  \* the contacts the latest run of the handler counted
  level,         \* data level in the network status byte
  pc,            \* thread -> its next step
  result,        \* thread -> what its storage call returned ("ok" between)
  sent,          \* the contacts in the caller's export buffer
  faults,        \* storage failures still to come
  exports,       \* exports still to come
  last,          \* number of the newest stored contact
  delivered,     \* number of the newest contact a commit removed
  flush_missed,  \* a failed flush or commit scheduled no flush since
  level_missed,  \* a failed storage call kept the level from following
  uncounted      \* contacts heard while the handler was past its last look

export == <<contact_export_source, contact_export_count>>
flush == <<contact_flush_active, contact_flush_read_index, contact_flush_block>>
status == <<update_work, number_dataset, level, level_missed, uncounted>>
bounds == <<faults, exports>>
vars == <<ram, idx_read, export, flush, contact_nvm_full, flush_work, flash,
          status, pc, result, sent, bounds, last, delivered, flush_missed>>

Thread == {Scanner, Flusher, Transfer, System}
Contact == 1 .. MaxContacts
Stored == FlattenSeq(flash)
Held == Len(Stored) + Len(ram)

TypeOK ==
  /\ ram \in Seq(Contact) /\ Len(ram) <= RingCount
  /\ idx_read \in 0 .. RingCount - 1
  /\ contact_export_source \in {"NONE", "NVM", "RAM"}
  /\ contact_export_count \in 0 .. BufferContacts
  /\ contact_flush_active \in BOOLEAN
  /\ contact_flush_read_index \in 0 .. RingCount - 1
  /\ contact_flush_block \in Seq(Contact)
  /\ contact_nvm_full \in BOOLEAN /\ flush_work \in BOOLEAN
  /\ flash \in Seq(Seq(Contact)) /\ Len(flash) <= FlashBlocks
  /\ \A i \in DOMAIN flash : Len(flash[i]) \in 1 .. BlockContacts
  /\ update_work \in {"idle", "delayed", "queued"}
  /\ number_dataset \in Nat
  /\ level \in 0 .. Len(DataLevels)
  /\ pc \in [Thread -> {"idle", "check", "submit", "update", "append",
       "append_done", "count", "peek", "mark", "ram", "hold", "drop",
       "drop_done", "set", "adv"}]
  /\ result \in [Thread -> {"ok", "io", "nospc"}]
  /\ sent \in Seq(Contact)
  /\ faults \in Nat /\ exports \in Nat
  /\ last \in 0 .. MaxContacts /\ delivered \in 0 .. MaxContacts
  /\ flush_missed \in BOOLEAN /\ level_missed \in BOOLEAN
  /\ uncounted \in Nat

Lowest(a, b) == IF a < b THEN a ELSE b
Goto(t, label) == pc' = [pc EXCEPT ![t] = label]
Returns(t, value) == result' = [result EXCEPT ![t] = value]

(* The n oldest contacts leave the ring.                                   *)
Advance(n) ==
  /\ ram' = SubSeq(ram, n + 1, Len(ram))
  /\ idx_read' = (idx_read + n) % RingCount

(* contact_status_from_count: how many of the thresholds a count exceeds.  *)
contact_status_from_count(n) ==
  Cardinality({i \in DOMAIN DataLevels : n > DataLevels[i]})

-----------------------------------------------------------------------------
(* network_schedule_flush_if_needed, and the two ways to ask for a level   *)
(* update.  The scanner asks for the update last, the others first.        *)

FlushNeeded ==
  /\ ~contact_nvm_full /\ ~contact_flush_active
  /\ contact_export_source = "NONE"
  /\ Len(ram) >= FlushThreshold

Checked(t) == IF t = Scanner THEN "update" ELSE "idle"

Check(t) ==
  /\ pc[t] = "check"
  /\ Goto(t, IF FlushNeeded THEN "submit" ELSE Checked(t))
  /\ flush_missed' = FALSE
  /\ UNCHANGED <<ram, idx_read, export, flush, contact_nvm_full, flush_work,
                 flash, status, result, sent, bounds, last, delivered>>

Submit(t) ==
  /\ pc[t] = "submit"
  /\ flush_work' = TRUE
  /\ Goto(t, Checked(t))
  /\ UNCHANGED <<ram, idx_read, export, flush, contact_nvm_full, flash, status,
                 result, sent, bounds, last, delivered, flush_missed>>

(* k_work_delayable_is_pending: the work waits, is queued, or is running.  *)
UpdatePending == update_work # "idle" \/ pc[System] # "idle"

(* network_schedule_tag_update_once after a delay, network_update_tag now. *)
ScheduleTagUpdateOnce ==
  /\ pc[Scanner] = "update"
  /\ update_work' = IF UpdatePending THEN update_work ELSE "delayed"
  /\ Goto(Scanner, "idle")
  /\ UNCHANGED <<ram, idx_read, export, flush, contact_nvm_full, flush_work,
                 flash, number_dataset, level, level_missed, uncounted, result,
                 sent, bounds, last, delivered, flush_missed>>

(* Variant: a flush or a commit asks as the scanner does.                  *)
UpdateTagOnce(t) ==
  /\ t # Scanner /\ pc[t] = "update"
  /\ update_work' = IF UpdatePending THEN update_work ELSE "queued"
  /\ Goto(t, "check")
  /\ UNCHANGED <<ram, idx_read, export, flush, contact_nvm_full, flush_work,
                 flash, number_dataset, level, level_missed, uncounted, result,
                 sent, bounds, last, delivered, flush_missed>>

UpdateTag(t) ==
  /\ t # Scanner /\ pc[t] = "update"
  /\ update_work' = "queued"
  /\ Goto(t, "check")
  /\ UNCHANGED <<ram, idx_read, export, flush, contact_nvm_full, flush_work,
                 flash, number_dataset, level, level_missed, uncounted, result,
                 sent, bounds, last, delivered, flush_missed>>

-----------------------------------------------------------------------------
(* network_evaluate_contact.                                               *)

(* Variant: a full ring gives way whoever holds its oldest contacts.       *)
PinnedNever == FALSE

(* A full ring whose oldest contacts are being exported or flushed drops   *)
(* the new one, and returns without a check or an update.                  *)
Pinned ==
  /\ Len(ram) = RingCount
  /\ contact_export_source # "NONE" \/ contact_flush_active

EvaluateContact ==
  /\ pc[Scanner] = "idle"
  /\ last < MaxContacts
  /\ ~Pinned
  /\ last' = last + 1
  /\ IF Len(ram) = RingCount
     THEN /\ ram' = Append(Tail(ram), last + 1)
          /\ idx_read' = (idx_read + 1) % RingCount
     ELSE ram' = Append(ram, last + 1) /\ UNCHANGED idx_read
  /\ uncounted' = uncounted + (IF pc[System] \in {"set", "adv"} THEN 1 ELSE 0)
  /\ Goto(Scanner, "check")
  /\ UNCHANGED <<export, flush, contact_nvm_full, flush_work, flash, update_work,
                 number_dataset, level, level_missed, result, sent, bounds,
                 delivered, flush_missed>>

-----------------------------------------------------------------------------
(* network_flush_handler.                                                  *)

(* Variant: the handler wants one contact more than the check that asked.  *)
FlushAllowedAbove ==
  /\ ~contact_flush_active /\ contact_export_source = "NONE"
  /\ Len(ram) > FlushThreshold

FlushAllowed ==
  /\ ~contact_flush_active /\ contact_export_source = "NONE"
  /\ Len(ram) >= FlushThreshold

FlushStart ==
  /\ pc[Flusher] = "idle"
  /\ flush_work
  /\ flush_work' = FALSE
  /\ IF FlushAllowed
     THEN /\ contact_flush_block' = SubSeq(ram, 1, Lowest(BlockContacts, Len(ram)))
          /\ contact_flush_active' = TRUE
          /\ contact_flush_read_index' = idx_read
          /\ Goto(Flusher, "append")
     ELSE UNCHANGED <<flush, pc>>
  /\ UNCHANGED <<ram, idx_read, export, contact_nvm_full, flash, status, result,
                 sent, bounds, last, delivered, flush_missed>>

(* A full store discards its oldest block, and may fail after it did.      *)
FlashFull == Len(flash) = FlashBlocks

FlushAppend ==
  /\ pc[Flusher] = "append"
  /\ \/ /\ flash' = Append(IF FlashFull THEN Tail(flash) ELSE flash,
                           contact_flush_block)
        /\ Returns(Flusher, "ok")
        /\ UNCHANGED <<faults, level_missed>>
     \/ /\ faults > 0 /\ faults' = faults - 1
        /\ \/ UNCHANGED <<flash, level_missed>>
           \/ FlashFull /\ flash' = Tail(flash) /\ level_missed' = TRUE
        /\ \E err \in {"io", "nospc"} : Returns(Flusher, err)
  /\ Goto(Flusher, "append_done")
  /\ UNCHANGED <<ram, idx_read, export, flush, contact_nvm_full, flush_work,
                 update_work, number_dataset, level, uncounted, sent, exports,
                 last, delivered, flush_missed>>

(* Variants: the contacts leave the ring although flash refused them; they *)
(* stay in the ring although flash took them.                              *)
BlockStoredAlways == idx_read = contact_flush_read_index
BlockStoredNever == FALSE

(* Flash holds the block, and its contacts are still the oldest in RAM.    *)
BlockStored ==
  /\ result[Flusher] = "ok"
  /\ idx_read = contact_flush_read_index
  /\ Len(ram) >= Len(contact_flush_block)

(* A flush that failed is not tried again before the next contact.         *)
FlushEnd ==
  /\ pc[Flusher] = "append_done"
  /\ IF BlockStored
     THEN /\ Advance(Len(contact_flush_block))
          /\ Goto(Flusher, "update")
          /\ UNCHANGED flush_missed
     ELSE /\ Goto(Flusher, "idle")
          /\ flush_missed' = TRUE
          /\ UNCHANGED <<ram, idx_read>>
  /\ contact_nvm_full' = (contact_nvm_full \/ result[Flusher] = "nospc")
  /\ contact_flush_active' = FALSE
  /\ contact_flush_block' = <<>>
  /\ Returns(Flusher, "ok")
  /\ UNCHANGED <<export, contact_flush_read_index, flush_work, flash, status,
                 sent, bounds, last, delivered>>

-----------------------------------------------------------------------------
(* network_contact_export_begin and network_contact_export_abort.          *)

NoExport == contact_export_source' = "NONE" /\ contact_export_count' = 0

(* A begin that finds an export or a flush under way returns -EBUSY.       *)
ExportBegin ==
  /\ pc[Transfer] = "idle"
  /\ exports > 0
  /\ contact_export_source = "NONE" /\ ~contact_flush_active
  /\ exports' = exports - 1
  /\ contact_export_source' = "NVM"
  /\ contact_export_count' = 0
  /\ Goto(Transfer, "count")
  /\ UNCHANGED <<ram, idx_read, flush, contact_nvm_full, flush_work, flash,
                 status, result, sent, faults, last, delivered, flush_missed>>

ExportCount ==
  /\ pc[Transfer] = "count"
  /\ Goto(Transfer, IF flash # <<>> THEN "peek" ELSE "ram")
  /\ UNCHANGED <<ram, idx_read, export, flush, contact_nvm_full, flush_work,
                 flash, status, result, sent, bounds, last, delivered,
                 flush_missed>>

(* network_storage_peek reads from the oldest block only.                  *)
ExportPeek ==
  /\ pc[Transfer] = "peek"
  /\ sent' = SubSeq(Head(flash), 1, Lowest(BufferContacts, Len(Head(flash))))
  /\ Goto(Transfer, "mark")
  /\ UNCHANGED <<ram, idx_read, export, flush, contact_nvm_full, flush_work,
                 flash, status, result, bounds, last, delivered, flush_missed>>

(* Either call fails: the export is aborted.                               *)
ExportFails ==
  /\ pc[Transfer] \in {"count", "peek"}
  /\ faults > 0 /\ faults' = faults - 1
  /\ NoExport
  /\ Goto(Transfer, "check")
  /\ UNCHANGED <<ram, idx_read, flush, contact_nvm_full, flush_work, flash,
                 status, result, sent, exports, last, delivered, flush_missed>>

StillReserved == contact_export_source = "NVM" /\ contact_export_count = 0

ExportMark ==
  /\ pc[Transfer] = "mark"
  /\ IF StillReserved
     THEN /\ contact_export_count' = Len(sent)
          /\ Goto(Transfer, "hold")
          /\ UNCHANGED contact_export_source
     ELSE NoExport /\ Goto(Transfer, "check")
  /\ UNCHANGED <<ram, idx_read, flush, contact_nvm_full, flush_work, flash,
                 status, result, sent, bounds, last, delivered, flush_missed>>

(* Flash is empty: the export takes the oldest contacts in RAM, if any.    *)
ExportRam ==
  /\ pc[Transfer] = "ram"
  /\ IF StillReserved /\ ram # <<>>
     THEN /\ sent' = SubSeq(ram, 1, Lowest(BufferContacts, Len(ram)))
          /\ contact_export_source' = "RAM"
          /\ contact_export_count' = Len(sent')
          /\ Goto(Transfer, "hold")
     ELSE /\ NoExport
          /\ Goto(Transfer, IF StillReserved THEN "idle" ELSE "check")
          /\ UNCHANGED sent
  /\ UNCHANGED <<ram, idx_read, flush, contact_nvm_full, flush_work, flash,
                 status, result, bounds, last, delivered, flush_missed>>

ExportAbort ==
  /\ pc[Transfer] = "hold"
  /\ NoExport
  /\ sent' = <<>>
  /\ Goto(Transfer, "check")
  /\ UNCHANGED <<ram, idx_read, flush, contact_nvm_full, flush_work, flash,
                 status, result, bounds, last, delivered, flush_missed>>

-----------------------------------------------------------------------------
(* network_contact_export_commit.                                          *)

CommitRam ==
  /\ pc[Transfer] = "hold"
  /\ contact_export_source = "RAM"
  /\ IF contact_export_count <= Len(ram)
     THEN /\ Advance(contact_export_count)
          /\ delivered' = Last(sent)
          /\ Goto(Transfer, "update")
          /\ UNCHANGED flush_missed
     ELSE /\ Goto(Transfer, "idle")
          /\ flush_missed' = TRUE
          /\ UNCHANGED <<ram, idx_read, delivered>>
  /\ NoExport
  /\ sent' = <<>>
  /\ UNCHANGED <<flush, contact_nvm_full, flush_work, flash, status, result,
                 bounds, last>>

CommitFlash ==
  /\ pc[Transfer] = "hold"
  /\ contact_export_source = "NVM"
  /\ Goto(Transfer, "drop")
  /\ UNCHANGED <<ram, idx_read, export, flush, contact_nvm_full, flush_work,
                 flash, status, result, sent, bounds, last, delivered,
                 flush_missed>>

WithoutOldest(n) ==
  IF n = Len(Head(flash)) THEN Tail(flash)
  ELSE <<SubSeq(Head(flash), n + 1, Len(Head(flash)))>> \o Tail(flash)

(* network_storage_drop, outside the lock.                                 *)
Drop ==
  /\ pc[Transfer] = "drop"
  /\ \/ /\ flash' = WithoutOldest(contact_export_count)
        /\ delivered' = Last(sent)
        /\ Returns(Transfer, "ok")
        /\ UNCHANGED faults
     \/ /\ faults > 0 /\ faults' = faults - 1
        /\ Returns(Transfer, "io")
        /\ UNCHANGED <<flash, delivered>>
  /\ Goto(Transfer, "drop_done")
  /\ UNCHANGED <<ram, idx_read, export, flush, contact_nvm_full, flush_work,
                 status, sent, exports, last, flush_missed>>

(* Any drop from flash ends the full state, a failed one changes nothing.  *)
CommitEnd ==
  /\ pc[Transfer] = "drop_done"
  /\ contact_nvm_full' = (contact_nvm_full /\ result[Transfer] # "ok")
  /\ NoExport
  /\ sent' = <<>>
  /\ flush_missed' = (flush_missed \/ result[Transfer] # "ok")
  /\ Goto(Transfer, IF result[Transfer] = "ok" THEN "update" ELSE "idle")
  /\ Returns(Transfer, "ok")
  /\ UNCHANGED <<ram, idx_read, flush, flush_work, flash, status, bounds, last,
                 delivered>>

-----------------------------------------------------------------------------
(* network_status_update_handler, on the system work queue.                *)

UpdateDelayEnds ==
  /\ update_work = "delayed"
  /\ update_work' = "queued"
  /\ UNCHANGED <<ram, idx_read, export, flush, contact_nvm_full, flush_work,
                 flash, number_dataset, level, level_missed, uncounted, pc, result,
                 sent, bounds, last, delivered, flush_missed>>

(* network_get_contact_count asks the store first; when that fails the     *)
(* level stays as it is, and no other update is scheduled.                 *)
UpdateStart ==
  /\ pc[System] = "idle"
  /\ update_work = "queued"
  /\ update_work' = "idle"
  /\ \/ /\ number_dataset' = Len(Stored)
        /\ Goto(System, "ram")
        /\ level_missed' = FALSE
        /\ UNCHANGED faults
     \/ /\ faults > 0 /\ faults' = faults - 1
        /\ level_missed' = TRUE
        /\ UNCHANGED <<number_dataset, pc>>
  /\ UNCHANGED <<ram, idx_read, export, flush, contact_nvm_full, flush_work,
                 flash, level, uncounted, result, sent, exports, last,
                 delivered, flush_missed>>

(* Then it adds the contacts in RAM.                                       *)
UpdateCount ==
  /\ pc[System] = "ram"
  /\ number_dataset' = number_dataset + Len(ram)
  /\ uncounted' = 0
  /\ Goto(System, "set")
  /\ UNCHANGED <<ram, idx_read, export, flush, contact_nvm_full, flush_work,
                 flash, update_work, level, level_missed, result, sent, bounds,
                 last, delivered, flush_missed>>

(* The handler caps the sum and sets the level, without the contact lock.  *)
UpdateLevel ==
  /\ pc[System] = "set"
  /\ level' = contact_status_from_count(Lowest(number_dataset, CountMax))
  /\ Goto(System, "adv")
  /\ UNCHANGED <<ram, idx_read, export, flush, contact_nvm_full, flush_work,
                 flash, update_work, number_dataset, level_missed, uncounted,
                 result, sent, bounds, last, delivered, flush_missed>>

(* adv_update: it waits for the radio's lock and for the controller.  The  *)
(* handler is still running meanwhile.                                     *)
UpdateAdvertised ==
  /\ pc[System] = "adv"
  /\ Goto(System, "idle")
  /\ UNCHANGED <<ram, idx_read, export, flush, contact_nvm_full, flush_work,
                 flash, status, result, sent, bounds, last, delivered,
                 flush_missed>>

-----------------------------------------------------------------------------
(* The tag has booted with an empty log (network_init).                    *)
Init ==
  /\ ram = <<>> /\ idx_read = 0
  /\ contact_export_source = "NONE" /\ contact_export_count = 0
  /\ contact_flush_active = FALSE /\ contact_flush_read_index = 0
  /\ contact_flush_block = <<>>
  /\ contact_nvm_full = FALSE /\ flush_work = FALSE
  /\ flash = <<>>
  /\ update_work = "idle" /\ number_dataset = 0
  /\ level = contact_status_from_count(0)
  /\ pc = [t \in Thread |-> "idle"]
  /\ result = [t \in Thread |-> "ok"]
  /\ sent = <<>>
  /\ faults = MaxFaults /\ exports = MaxExports
  /\ last = 0 /\ delivered = 0
  /\ flush_missed = FALSE /\ level_missed = FALSE /\ uncounted = 0

ScannerStep == Check(Scanner) \/ Submit(Scanner) \/ ScheduleTagUpdateOnce

FlusherStep ==
  \/ FlushStart \/ FlushAppend \/ FlushEnd
  \/ UpdateTag(Flusher) \/ Check(Flusher) \/ Submit(Flusher)

TransferStep ==
  \/ ExportCount \/ ExportPeek \/ ExportFails \/ ExportMark \/ ExportRam
  \/ ExportAbort \/ CommitRam \/ CommitFlash \/ Drop \/ CommitEnd
  \/ UpdateTag(Transfer) \/ Check(Transfer) \/ Submit(Transfer)

SystemStep ==
  UpdateDelayEnds \/ UpdateStart \/ UpdateCount \/ UpdateLevel \/ UpdateAdvertised

(* The bounds are used up and every thread is idle: nothing is stuck.      *)
Exhausted ==
  /\ \A t \in Thread : pc[t] = "idle"
  /\ last = MaxContacts /\ exports = 0 /\ ~flush_work /\ update_work = "idle"
  /\ UNCHANGED vars

Next ==
  \/ EvaluateContact \/ ScannerStep
  \/ FlusherStep
  \/ ExportBegin \/ TransferStep
  \/ SystemStep
  \/ Exhausted

Spec == Init /\ [][Next]_vars

-----------------------------------------------------------------------------
(* What the pipeline guarantees.                                           *)

Increasing(s) == \A i \in 1 .. Len(s) - 1 : s[i] < s[i + 1]

(* Flash, then RAM, hold the contacts in the order they were heard, none   *)
(* twice except for the block of a flush under way, and none that was      *)
(* delivered: network_flush_handler and network_contact_export_commit      *)
(* release the lock halfway and still move whole, adjacent pieces.         *)
BlockInBoth == pc[Flusher] = "append_done" /\ result[Flusher] = "ok"

LogOrdered ==
  LET log == Stored \o
        (IF BlockInBoth THEN SubSeq(ram, Len(contact_flush_block) + 1, Len(ram))
         ELSE ram)
  IN Increasing(log) /\ (log # <<>> => Head(log) > delivered)

(* Contacts copied out for an export or a flush stay the oldest of their   *)
(* store until it ends, whatever is heard meanwhile: what a commit or a    *)
(* flush removes is what was sent or written.                              *)
CopiedContactsStay ==
  /\ pc[Transfer] \in {"hold", "drop"} =>
       /\ contact_export_count = Len(sent)
       /\ sent = SubSeq(IF contact_export_source = "RAM" THEN ram ELSE Stored,
                        1, contact_export_count)
  /\ pc[Flusher] \in {"append", "append_done"} =>
       contact_flush_block = SubSeq(ram, 1, Len(contact_flush_block))

(* A contact leaves the log only by being delivered, or as the oldest of a *)
(* full ring that nobody copies, or with the oldest block of a full store. *)
Logged == ToSet(Stored) \union ToSet(ram)

LeavesRightly(c) ==
  \/ pc[Transfer] \in {"hold", "drop"} /\ c \in ToSet(sent)
  \/ Len(ram) = RingCount /\ ~Pinned /\ c = Head(ram)
  \/ FlashFull /\ pc[Flusher] = "append" /\ c \in ToSet(Head(flash))

ContactsLeaveRightly == [][\A c \in Logged \ Logged' : LeavesRightly(c)]_vars

(* A flush that is due is on its way: queued, running, about to be asked   *)
(* for, or blocked by an export whose end asks for it.  The ways to miss   *)
(* it are a flush or a commit that failed, until the next contact.         *)
FlushDue == Len(ram) >= FlushThreshold /\ ~contact_nvm_full

FlushOnItsWay ==
  FlushDue =>
    \/ flush_work \/ contact_flush_active \/ contact_export_source # "NONE"
    \/ \E t \in Thread : \/ pc[t] \in {"check", "submit"}
                         \/ t # Scanner /\ pc[t] = "update"
    \/ flush_missed

(* When no level update is waiting, running or about to be asked for by a  *)
(* flush or a commit, the level is the one of the latest count, and that   *)
(* count is never above the contacts held: what a flush or a commit takes  *)
(* away always brings another update, also while one is running and reads  *)
(* the count in two halves.  It may be below them by the contacts heard    *)
(* since that update's last look at the ring: the scanner asks for none    *)
(* while one is running (network.c:343), and the level stays behind until  *)
(* the next contact, flush or commit.                                      *)
LevelSettled ==
  /\ update_work = "idle" /\ pc[System] = "idle"
  /\ \A t \in {Flusher, Transfer} :
       pc[t] \notin {"append_done", "drop_done", "update"}
  /\ ~level_missed

LevelFollowsContacts ==
  LevelSettled =>
    /\ level = contact_status_from_count(Lowest(number_dataset, CountMax))
    /\ number_dataset <= Held
    /\ pc[Scanner] = "idle" => number_dataset >= Held - uncounted

(* Production_HowTo.md of the level: derived from the stored contact count *)
(* against all the thresholds, the highest one at the top.                 *)
LevelAsDocumented ==
  pc[System] = "adv" => level = contact_status_from_count(number_dataset)
=============================================================================

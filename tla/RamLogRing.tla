----------------------------- MODULE RamLogRing -----------------------------
(***************************************************************************)
(* The RAM ring in front of a domain's flash store (ram_log_ring.c): the   *)
(* self-report and the eco log keep their newest entries in it, the        *)
(* storage work queue moves a batch at a time to flash, and the transfer   *)
(* work queue exports the oldest entries, from flash first, then from RAM. *)
(*                                                                         *)
(* The ring's mutex is released around every storage call, and             *)
(* schedule_flush_if_needed takes it anew, so each action is one critical  *)
(* section, one storage call, or one submission of the flush work.  pc[t]  *)
(* says what thread t comes to next.                                       *)
(*                                                                         *)
(* Entries are numbered in the order they were pushed.  The flash store is *)
(* taken as what its own specification shows it to be: a queue of entries  *)
(* in blocks of one batch, whose calls happen at once or fail.             *)
(***************************************************************************)
EXTENDS Integers, SequencesExt

CONSTANTS
  RingCount,       \* cfg->ring_count
  FlushThreshold,  \* cfg->flush_threshold
  FlushBatch,      \* cfg->flush_batch
  FlashBlocks,     \* blocks of the flash store
  BufferEntries,   \* entries the caller's export buffer has room for
  Pushers,         \* threads that log entries
  Flusher,         \* the storage work queue
  Transfer,        \* the transfer work queue
  MaxEntries,      \* bound: entries ever stored
  MaxFaults,       \* bound: storage calls that fail
  MaxExports       \* bound: exports begun

ASSUME BatchAssumption ==
  /\ RingCount \in Nat /\ FlushThreshold \in Nat /\ FlushBatch \in Nat \ {0}
  /\ FlushBatch <= FlushThreshold /\ FlushThreshold <= RingCount
ASSUME StorageAssumption ==
  FlashBlocks \in Nat \ {0} /\ BufferEntries \in Nat \ {0}
ASSUME ThreadAssumption ==
  Flusher # Transfer /\ Flusher \notin Pushers /\ Transfer \notin Pushers
ASSUME BoundAssumption ==
  MaxEntries \in Nat /\ MaxFaults \in Nat /\ MaxExports \in Nat

VARIABLES
  entries, read_index, write_index, count,         \* the ring
  export_active, export_source, export_entries,    \* the reserved export
  flush_active, flush_read_index, flush_buffer,    \* the flush under way
  nvm_full,
  flush_work,     \* the flush work item is queued
  flash,          \* entries in the flash store, oldest first
  flash_offset,   \* entries of its oldest block that were dropped
  pc,             \* thread -> its next step
  result,         \* thread -> what its last storage call returned
  sent,           \* the entries in the caller's export buffer
  faults,         \* storage failures still to come
  exports,        \* exports still to come
  last,           \* number of the newest stored entry
  delivered,      \* number of the newest entry a commit removed
  commit_failed   \* the last commit failed, nothing was scheduled since

ring == <<entries, read_index, write_index, count>>
export == <<export_active, export_source, export_entries>>
flush == <<flush_active, flush_read_index, flush_buffer>>
storage == <<flash, flash_offset>>
vars == <<ring, export, flush, nvm_full, flush_work, storage, pc, result, sent,
          faults, exports, last, delivered, commit_failed>>

Thread == Pushers \union {Flusher, Transfer}
Entry == 0 .. MaxEntries
Label == {"idle", "check", "submit",                  \* every thread
          "append", "append_done",                    \* Flusher
          "count", "peek", "mark", "ram", "hold", "drop", "drop_done"}

TypeOK ==
  /\ entries \in [0 .. RingCount - 1 -> Entry]
  /\ read_index \in 0 .. RingCount - 1
  /\ write_index \in 0 .. RingCount - 1
  /\ count \in 0 .. RingCount
  /\ write_index = (read_index + count) % RingCount
  /\ export_active \in BOOLEAN
  /\ export_source \in {"NONE", "FLASH", "RAM"}
  /\ export_entries \in 0 .. BufferEntries
  /\ flush_active \in BOOLEAN
  /\ flush_read_index \in 0 .. RingCount - 1
  /\ flush_buffer \in Seq(Entry)
  /\ nvm_full \in BOOLEAN
  /\ flush_work \in BOOLEAN
  /\ flash \in Seq(Entry)
  /\ flash_offset \in 0 .. FlushBatch - 1
  /\ Len(flash) + flash_offset <= FlashBlocks * FlushBatch
  /\ pc \in [Thread -> Label]
  /\ result \in [Thread -> {"ok", "retired", "io", "nospc"}]
  /\ sent \in Seq(Entry)
  /\ faults \in Nat /\ exports \in Nat
  /\ last \in Entry /\ delivered \in Entry
  /\ commit_failed \in BOOLEAN

Lowest(a, b) == IF a < b THEN a ELSE b

(* The n oldest entries of the ring; all of them.                          *)
Oldest(n) == [i \in 1 .. n |-> entries[(read_index + i - 1) % RingCount]]
Ram == Oldest(count)

Goto(t, label) == pc' = [pc EXCEPT ![t] = label]

-----------------------------------------------------------------------------
(* schedule_flush_if_needed: the decision under the lock ...               *)

FlushNeeded ==
  /\ count >= FlushThreshold
  /\ ~nvm_full
  /\ ~flush_active
  /\ ~export_active

Check(t) ==
  /\ pc[t] = "check"
  /\ Goto(t, IF FlushNeeded THEN "submit" ELSE "idle")
  /\ commit_failed' = FALSE
  /\ UNCHANGED <<ring, export, flush, nvm_full, flush_work, storage, result,
                 sent, faults, exports, last, delivered>>

(* ... and the work item submitted, or its delay shortened, without it.    *)
Submit(t) ==
  /\ pc[t] = "submit"
  /\ flush_work' = TRUE
  /\ Goto(t, "idle")
  /\ UNCHANGED <<ring, export, flush, nvm_full, storage, result, sent, faults,
                 exports, last, delivered, commit_failed>>

-----------------------------------------------------------------------------
(* ram_log_ring_push.                                                      *)

(* Variant: a full ring gives way whoever holds its oldest entries.        *)
PinnedNever == FALSE

(* A full ring whose oldest entries are being exported or flushed refuses  *)
(* the new one.                                                            *)
Pinned == count = RingCount /\ (export_active \/ flush_active)

Push(t) ==
  /\ pc[t] = "idle"
  /\ last < MaxEntries
  /\ IF Pinned
     THEN UNCHANGED <<ring, last>>
     ELSE /\ entries' = [entries EXCEPT ![write_index] = last + 1]
          /\ write_index' = (write_index + 1) % RingCount
          /\ IF count = RingCount
             THEN read_index' = (read_index + 1) % RingCount /\ UNCHANGED count
             ELSE count' = count + 1 /\ UNCHANGED read_index
          /\ last' = last + 1
  /\ Goto(t, "check")
  /\ UNCHANGED <<export, flush, nvm_full, flush_work, storage, result, sent,
                 faults, exports, delivered, commit_failed>>

-----------------------------------------------------------------------------
(* flush_handler.                                                          *)

FlushAllowed ==
  /\ ~flush_active /\ ~export_active
  /\ count >= FlushThreshold /\ count >= FlushBatch

FlushStart ==
  /\ pc[Flusher] = "idle"
  /\ flush_work
  /\ flush_work' = FALSE
  /\ IF FlushAllowed
     THEN /\ flush_buffer' = Oldest(FlushBatch)
          /\ flush_active' = TRUE
          /\ flush_read_index' = read_index
          /\ Goto(Flusher, "append")
     ELSE UNCHANGED <<flush, pc>>
  /\ UNCHANGED <<ring, export, nvm_full, storage, result, sent, faults, exports,
                 last, delivered, commit_failed>>

(* A full store makes room by discarding its oldest block.                 *)
FlashFull == Len(flash) + flash_offset = FlashBlocks * FlushBatch
WithoutOldestBlock == SubSeq(flash, FlushBatch - flash_offset + 1, Len(flash))

(* storage_append, outside the lock.  A call that fails may have discarded *)
(* the oldest block already.                                               *)
FlushAppend ==
  /\ pc[Flusher] = "append"
  /\ \/ /\ flash' = (IF FlashFull THEN WithoutOldestBlock ELSE flash) \o flush_buffer
        /\ flash_offset' = IF FlashFull THEN 0 ELSE flash_offset
        /\ result' = [result EXCEPT ![Flusher] = "ok"]
        /\ UNCHANGED faults
     \/ /\ faults > 0
        /\ faults' = faults - 1
        /\ \/ UNCHANGED storage
           \/ FlashFull /\ flash' = WithoutOldestBlock /\ flash_offset' = 0
        /\ \E err \in {"io", "nospc"} : result' = [result EXCEPT ![Flusher] = err]
  /\ Goto(Flusher, "append_done")
  /\ UNCHANGED <<ring, export, flush, nvm_full, flush_work, sent, exports, last,
                 delivered, commit_failed>>

(* Variants: the batch leaves the ring although flash refused it; it stays *)
(* in the ring although flash took it; a failed flush is not tried again.  *)
BatchStoredAlways == read_index = flush_read_index
BatchStoredNever == FALSE
AppendRetriesNever == FALSE

(* Flash holds the batch, and it is still the oldest of the ring.          *)
BatchStored ==
  /\ result[Flusher] = "ok"
  /\ read_index = flush_read_index
  /\ count >= FlushBatch

(* Every failure but a full store is tried again after a delay.            *)
AppendRetries == result[Flusher] = "io"

FlushEnd ==
  /\ pc[Flusher] = "append_done"
  /\ IF BatchStored
     THEN /\ read_index' = (read_index + FlushBatch) % RingCount
          /\ count' = count - FlushBatch
     ELSE UNCHANGED <<read_index, count>>
  /\ nvm_full' = (nvm_full \/ result[Flusher] = "nospc")
  /\ flush_active' = FALSE
  /\ Goto(Flusher, IF \/ BatchStored /\ count' >= FlushThreshold
                      \/ AppendRetries
                   THEN "submit" ELSE "idle")
  /\ UNCHANGED <<entries, write_index, export, flush_read_index, flush_buffer,
                 flush_work, storage, result, sent, faults, exports, last,
                 delivered, commit_failed>>

-----------------------------------------------------------------------------
(* ram_log_ring_export_begin, by the transfer work queue.                  *)

NoExport ==
  export_active' = FALSE /\ export_source' = "NONE" /\ export_entries' = 0

(* The export is reserved before the store is asked; a begin that finds an *)
(* export or a flush under way returns -EBUSY and changes nothing.         *)
ExportBegin ==
  /\ pc[Transfer] = "idle"
  /\ exports > 0
  /\ ~export_active /\ ~flush_active
  /\ exports' = exports - 1
  /\ export_active' = TRUE
  /\ export_source' = "FLASH"
  /\ export_entries' = 0
  /\ Goto(Transfer, "count")
  /\ UNCHANGED <<ring, flush, nvm_full, flush_work, storage, result, sent,
                 faults, last, delivered, commit_failed>>

(* storage_get_count and storage_peek, outside the lock.                   *)
ExportCount ==
  /\ pc[Transfer] = "count"
  /\ Goto(Transfer, IF flash # <<>> THEN "peek" ELSE "ram")
  /\ UNCHANGED <<ring, export, flush, nvm_full, flush_work, storage, result,
                 sent, faults, exports, last, delivered, commit_failed>>

PeekCount == Lowest(BufferEntries, FlushBatch - flash_offset)

ExportPeek ==
  /\ pc[Transfer] = "peek"
  /\ sent' = SubSeq(flash, 1, PeekCount)
  /\ Goto(Transfer, "mark")
  /\ UNCHANGED <<ring, export, flush, nvm_full, flush_work, storage, result,
                 faults, exports, last, delivered, commit_failed>>

(* Either call fails: the export is aborted.                               *)
ExportFails ==
  /\ pc[Transfer] \in {"count", "peek"}
  /\ faults > 0
  /\ faults' = faults - 1
  /\ NoExport
  /\ Goto(Transfer, "check")
  /\ UNCHANGED <<ring, flush, nvm_full, flush_work, storage, result, sent,
                 exports, last, delivered, commit_failed>>

StillReserved == export_active /\ export_source = "FLASH" /\ export_entries = 0

(* Back under the lock: the export counts the entries peeked ...           *)
ExportMark ==
  /\ pc[Transfer] = "mark"
  /\ IF StillReserved
     THEN /\ export_entries' = Len(sent)
          /\ Goto(Transfer, "hold")
          /\ UNCHANGED <<export_active, export_source>>
     ELSE NoExport /\ Goto(Transfer, "check")
  /\ UNCHANGED <<ring, flush, nvm_full, flush_work, storage, result, sent,
                 faults, exports, last, delivered, commit_failed>>

(* ... or takes the oldest of the ring, flash being empty.                 *)
ExportRam ==
  /\ pc[Transfer] = "ram"
  /\ LET n == Lowest(BufferEntries, count)
     IN IF ~StillReserved
        THEN NoExport /\ Goto(Transfer, "check") /\ UNCHANGED sent
        ELSE IF n = 0
        THEN NoExport /\ Goto(Transfer, "idle") /\ UNCHANGED sent
        ELSE /\ sent' = Oldest(n)
             /\ export_source' = "RAM"
             /\ export_entries' = n
             /\ UNCHANGED export_active
             /\ Goto(Transfer, "hold")
  /\ UNCHANGED <<ring, flush, nvm_full, flush_work, storage, result, faults,
                 exports, last, delivered, commit_failed>>

(* ram_log_ring_export_abort: the transfer was cut off or not acknowledged.*)
ExportAbort ==
  /\ pc[Transfer] = "hold"
  /\ NoExport
  /\ sent' = <<>>
  /\ Goto(Transfer, "check")
  /\ UNCHANGED <<ring, flush, nvm_full, flush_work, storage, result, faults,
                 exports, last, delivered, commit_failed>>

-----------------------------------------------------------------------------
(* ram_log_ring_export_commit, once the entries were acknowledged.         *)

CommitRam ==
  /\ pc[Transfer] = "hold"
  /\ export_source = "RAM"
  /\ IF export_entries <= count
     THEN /\ read_index' = (read_index + export_entries) % RingCount
          /\ count' = count - export_entries
          /\ delivered' = Last(sent)
          /\ Goto(Transfer, "check")
          /\ UNCHANGED commit_failed
     ELSE /\ Goto(Transfer, "idle")
          /\ commit_failed' = TRUE
          /\ UNCHANGED <<read_index, count, delivered>>
  /\ NoExport
  /\ sent' = <<>>
  /\ UNCHANGED <<entries, write_index, flush, nvm_full, flush_work, storage,
                 result, faults, exports, last>>

(* The flash drop runs outside the lock.                                   *)
CommitFlash ==
  /\ pc[Transfer] = "hold"
  /\ export_source = "FLASH"
  /\ Goto(Transfer, "drop")
  /\ UNCHANGED <<ring, export, flush, nvm_full, flush_work, storage, result,
                 sent, faults, exports, last, delivered, commit_failed>>

Drop ==
  /\ pc[Transfer] = "drop"
  /\ \/ /\ flash' = SubSeq(flash, export_entries + 1, Len(flash))
        /\ flash_offset' = (flash_offset + export_entries) % FlushBatch
        /\ result' = [result EXCEPT ![Transfer] =
             IF flash_offset + export_entries = FlushBatch THEN "retired" ELSE "ok"]
        /\ delivered' = Last(sent)
        /\ UNCHANGED faults
     \/ /\ faults > 0
        /\ faults' = faults - 1
        /\ result' = [result EXCEPT ![Transfer] = "io"]
        /\ UNCHANGED <<storage, delivered>>
  /\ Goto(Transfer, "drop_done")
  /\ UNCHANGED <<ring, export, flush, nvm_full, flush_work, sent, exports, last,
                 commit_failed>>

(* Only a commit that retired a whole block makes room for another flush.  *)
(* A commit that failed schedules no flush.                                *)
CommitEnd ==
  /\ pc[Transfer] = "drop_done"
  /\ nvm_full' = (nvm_full /\ result[Transfer] # "retired")
  /\ NoExport
  /\ sent' = <<>>
  /\ commit_failed' = (commit_failed \/ result[Transfer] = "io")
  /\ Goto(Transfer, IF result[Transfer] = "io" THEN "idle" ELSE "check")
  /\ UNCHANGED <<ring, flush, flush_work, storage, result, faults, exports,
                 last, delivered>>

-----------------------------------------------------------------------------
Init ==
  /\ entries = [i \in 0 .. RingCount - 1 |-> 0]
  /\ read_index = 0 /\ write_index = 0 /\ count = 0
  /\ export_active = FALSE /\ export_source = "NONE" /\ export_entries = 0
  /\ flush_active = FALSE /\ flush_read_index = 0 /\ flush_buffer = <<>>
  /\ nvm_full = FALSE
  /\ flush_work = FALSE
  /\ flash = <<>> /\ flash_offset = 0
  /\ pc = [t \in Thread |-> "idle"]
  /\ result = [t \in Thread |-> "ok"]
  /\ sent = <<>>
  /\ faults = MaxFaults /\ exports = MaxExports
  /\ last = 0 /\ delivered = 0
  /\ commit_failed = FALSE

FlusherStep == FlushStart \/ FlushAppend \/ FlushEnd \/ Submit(Flusher)

TransferStep ==
  \/ ExportCount \/ ExportPeek \/ ExportFails \/ ExportMark \/ ExportRam
  \/ ExportAbort \/ CommitRam \/ CommitFlash \/ Drop \/ CommitEnd
  \/ Check(Transfer) \/ Submit(Transfer)

(* The bounds are used up and every thread is idle: nothing is stuck.      *)
Exhausted ==
  /\ \A t \in Thread : pc[t] = "idle"
  /\ last = MaxEntries /\ exports = 0 /\ ~flush_work
  /\ UNCHANGED vars

Next ==
  \/ \E t \in Pushers : Push(t) \/ Check(t) \/ Submit(t)
  \/ FlusherStep
  \/ ExportBegin \/ TransferStep
  \/ Exhausted

Spec == Init /\ [][Next]_vars

(* The threads run: the kernel schedules every ready work queue, and an    *)
(* export that was begun is committed or, after a timeout, aborted.        *)
FairSpec ==
  /\ Spec
  /\ \A t \in Pushers : WF_vars(Check(t) \/ Submit(t))
  /\ WF_vars(FlusherStep)
  /\ WF_vars(TransferStep)

-----------------------------------------------------------------------------
(* What the ring guarantees.                                               *)

Increasing(s) == \A i \in 1 .. Len(s) - 1 : s[i] < s[i + 1]

(* The batch is in flash and not yet taken out of RAM.                     *)
BatchInBoth == pc[Flusher] = "append_done" /\ result[Flusher] = "ok"

(* Flash, then RAM, hold the entries in the order they were logged, and no *)
(* entry twice except for the batch of a flush under way; what is already  *)
(* delivered is in neither.                                                *)
LogOrdered ==
  LET log == flash \o (IF BatchInBoth THEN SubSeq(Ram, FlushBatch + 1, count)
                       ELSE Ram)
  IN Increasing(log) /\ (log # <<>> => Head(log) > delivered)

(* The entries an export or a flush has copied out stay the oldest ones    *)
(* until it ends, whatever is logged meanwhile: what a commit or a flush   *)
(* removes is what was sent or written.                                    *)
CopiedEntriesStay ==
  /\ pc[Transfer] \in {"hold", "drop"} =>
       /\ export_entries = Len(sent)
       /\ sent = SubSeq(IF export_source = "RAM" THEN Ram ELSE flash,
                        1, export_entries)
  /\ pc[Flusher] \in {"append", "append_done"} =>
       flush_buffer = SubSeq(Ram, 1, FlushBatch)

(* A stored entry leaves the log only by being delivered, or from a full   *)
(* ring or a full store: as the oldest of the ring nobody has copied, or   *)
(* with the oldest block of flash.                                         *)
Logged == ToSet(flash) \union ToSet(Ram)

LeavesRightly(e) ==
  \/ pc[Transfer] \in {"hold", "drop"} /\ e \in ToSet(sent)
  \/ count = RingCount /\ ~export_active /\ ~flush_active /\ e = Ram[1]
  \/ FlashFull /\ pc[Flusher] = "append"
       /\ e \in ToSet(SubSeq(flash, 1, FlushBatch - flash_offset))

EntriesLeaveRightly == [][\A e \in Logged \ Logged' : LeavesRightly(e)]_vars

FlushDue == count >= FlushThreshold /\ ~nvm_full

(* A flush that is due happens, or an export takes the entries instead,    *)
(* whatever delays it; the one way to miss it is a commit that failed.     *)
DueFlushHappens == FlushDue ~> (~FlushDue \/ commit_failed)
=============================================================================

--------------------------- MODULE FlashRingStore ---------------------------
(***************************************************************************)
(* The NVS-backed ring of flash blocks that keeps a beacon domain's        *)
(* entries over a reset (flash_ring_store.c).  One store serves one        *)
(* domain; its mutex serialises the calls, so what interleaves with a call *)
(* is only the power failing and NVS refusing a write, a read or a delete. *)
(* Each action therefore runs up to one durable effect: pc says which      *)
(* durable effect the call in progress comes to next.                      *)
(*                                                                         *)
(* Entries are abstracted to their numbers: the block written for a call   *)
(* holds the entries first .. first + entry_count - 1, numbered in the     *)
(* order they were accepted.                                               *)
(*                                                                         *)
(* External, as the code relies on it: an NVS record is replaced or        *)
(* deleted atomically, and a call that reports an error changed nothing;   *)
(* nvs_clear is not atomic and may stop with any of the records gone, and  *)
(* so may flash_erase where EraseMayStop says so.                          *)
(***************************************************************************)
EXTENDS Integers, FiniteSets

CONSTANTS
  BlockCount,   \* cfg->block_count: block slots of the partition
  Capacity,     \* cfg->block_entry_capacity
  FlushBatch,   \* cfg->flush_batch: 0, or the only entry count accepted
  NoBlock,      \* what reading an absent block record returns (-ENOENT)
  NoMeta,       \* what reading an absent metadata record returns
  EraseMayStop, \* whether erasing the partition may fail in the middle
  MaxVersion,   \* bound: formats the firmware goes through
  MaxSeq,       \* bound: blocks appended since the last format
  MaxFaults,    \* bound: NVS calls that fail
  MaxResets     \* bound: power failures and reboots

ASSUME BlockCountAssumption == BlockCount \in Nat \ {0}
ASSUME CapacityAssumption == Capacity \in Nat \ {0}
ASSUME FlushBatchAssumption == FlushBatch \in 0 .. Capacity
ASSUME EraseAssumption == EraseMayStop \in BOOLEAN
ASSUME BoundsAssumption ==
  /\ MaxVersion \in Nat /\ MaxSeq \in Nat
  /\ MaxFaults \in Nat /\ MaxResets \in Nat

VARIABLES
  \* what the partition holds
  nv_blocks,    \* slot -> block record or NoBlock
  nv_meta,      \* the metadata record or NoMeta
  \* struct flash_ring_store and the locals of the call in progress
  meta,             \* store->meta
  meta_dirty,       \* store->meta_dirty
  pc,               \* the durable effect that comes next
  entry_count,      \* the append in progress
  retired_sequence, \* the block the call in progress has to delete
  faults,           \* the store's device_set_storage_fault bits that are set
  \* the environment
  version,      \* format of the running firmware (magic, version, size)
  budget,       \* NVS failures still to come
  resets,       \* resets so far
  \* observers
  tail,         \* number the next accepted entry gets
  reached       \* entries below this number were dropped or discarded

nvs == <<nv_blocks, nv_meta>>
store == <<meta, meta_dirty, pc, entry_count, retired_sequence, faults>>
env == <<version, budget, resets>>
ghosts == <<tail, reached>>
vars == <<nvs, store, env, ghosts>>

Slot == 0 .. BlockCount - 1
FaultBit == {"init", "read", "write", "meta", "delete"}
InitPc == {"down", "mounted", "clear", "findNewest", "recount", "saveMeta",
           "scan", "saveScan"}
CallPc == {"appendWrite", "appendCommit", "discardDelete", "dropDelete"}

Block == [version : Nat, sequence : Nat, entry_count : Nat, first : Nat]
Meta == [version : Nat, pending_blocks : Nat, pending_entries : Nat,
         oldest_seq : Int, next_seq : Nat, oldest_offset : Nat]

(* Reading an absent record is told from reading any record.               *)
ASSUME SentinelAssumption == NoBlock \notin Block /\ NoMeta \notin Meta

TypeOK ==
  /\ nv_blocks \in [Slot -> Block \union {NoBlock}]
  /\ nv_meta \in Meta \union {NoMeta}
  /\ meta \in Meta
  /\ meta_dirty \in BOOLEAN
  /\ pc \in InitPc \union CallPc \union {"ready"}
  /\ entry_count \in 0 .. Capacity
  /\ retired_sequence \in Int
  /\ faults \in SUBSET FaultBit
  /\ version \in Nat
  /\ budget \in Nat
  /\ resets \in Nat
  /\ tail \in Nat
  /\ reached \in Nat

-----------------------------------------------------------------------------
(* Helpers of flash_ring_store.c.                                          *)

block_id(sequence) == sequence % BlockCount

ResetMeta ==
  [version |-> version, pending_blocks |-> 0, pending_entries |-> 0,
   oldest_seq |-> 0, next_seq |-> 0, oldest_offset |-> 0]

(* block_record_valid: a record of the running format with entries in it.  *)
RecordValid(b) ==
  /\ b # NoBlock
  /\ b.version = version
  /\ b.entry_count \in 1 .. Capacity

(* Variant: a slot's record is taken whatever its sequence.                *)
LoadableAnySequence(sequence) == RecordValid(nv_blocks[block_id(sequence)])

(* load_block succeeds: the slot holds just the block of that sequence.    *)
Loadable(sequence) ==
  LET b == nv_blocks[block_id(sequence)]
  IN RecordValid(b) /\ b.sequence = sequence

BlockOf(sequence) == nv_blocks[block_id(sequence)]

(* What init makes of a metadata record it could read.                     *)
Compatible(m) == m.version = version

(* Variant: the bound on the block count is off by one.                    *)
PlausibleOffByOne(m) ==
  /\ m.pending_blocks < BlockCount
  /\ m.pending_entries <= m.pending_blocks * FlushBatch
  /\ m.oldest_offset < Capacity
  /\ m.pending_blocks = 0 => m.pending_entries = 0 /\ m.oldest_offset = 0

Plausible(m) ==
  /\ m.pending_blocks <= BlockCount
  /\ m.pending_entries <= m.pending_blocks * FlushBatch
  /\ m.oldest_offset < Capacity
  /\ m.pending_blocks = 0 => m.pending_entries = 0 /\ m.oldest_offset = 0

(* The number of the oldest entry a metadata record has pending.           *)
HeadOf(m) ==
  IF m.pending_blocks = 0 THEN tail
  ELSE BlockOf(m.oldest_seq).first + m.oldest_offset

(* The number that follows the newest entry a record has pending.          *)
EndOf(m) ==
  IF m.pending_blocks = 0 THEN tail
  ELSE BlockOf(m.next_seq - 1).first + BlockOf(m.next_seq - 1).entry_count

(* Every entry of the oldest block that was not dropped yet.               *)
Remaining == BlockOf(meta.oldest_seq).entry_count - meta.oldest_offset

(* A metadata record with the block of its next sequence added to it.      *)
WithNewest(m, entries) ==
  [m EXCEPT
     !.oldest_seq = IF m.pending_blocks = 0 THEN m.next_seq ELSE @,
     !.oldest_offset = IF m.pending_blocks = 0 THEN 0 ELSE @,
     !.next_seq = @ + 1,
     !.pending_blocks = @ + 1,
     !.pending_entries = @ + entries]

(* An NVS call that fails uses up one of the failures.                     *)
NvsOk == UNCHANGED budget
NvsFails == budget > 0 /\ budget' = budget - 1

(* load_block, with the read fault bit it reports: an absent record is not *)
(* a fault.                                                                *)
LoadOk(sequence) == NvsOk /\ Loadable(sequence)

LoadFails(sequence) ==
  /\ IF Loadable(sequence) THEN NvsFails ELSE NvsOk
  /\ faults' = IF BlockOf(sequence) = NoBlock THEN faults \ {"read"}
               ELSE faults \union {"read"}

(* save_meta, and the way out of a failed one: the metadata in RAM is the  *)
(* one the call started with.                                              *)
SaveOk(m) ==
  /\ NvsOk
  /\ nv_meta' = m
  /\ meta' = m
  /\ meta_dirty' = FALSE

SaveFails ==
  /\ NvsFails
  /\ UNCHANGED <<nv_meta, meta, meta_dirty>>

-----------------------------------------------------------------------------
(* flash_ring_store_init, retried by every call until it succeeds.         *)

(* The next attempt reads or resets the metadata before it looks at it, so *)
(* what a failed one leaves in RAM is forgotten here.                      *)
InitError ==
  /\ pc' = "down"
  /\ meta_dirty' = FALSE
  /\ meta' = ResetMeta

(* Mounting fails, and so does the attempt to erase the partition; or the  *)
(* metadata record, or a slot in the search for the newest, cannot be read.*)
InitFails ==
  /\ pc \in {"down", "mounted", "findNewest"}
  /\ NvsFails
  /\ InitError
  /\ faults' = faults \union {"init"}
  /\ UNCHANGED <<nvs, entry_count, retired_sequence, version, resets, ghosts>>

(* Mounting fails once: the partition is erased and mounts then.           *)
MountErases ==
  /\ pc = "down"
  /\ NvsFails
  /\ nv_blocks' = [i \in Slot |-> NoBlock]
  /\ nv_meta' = NoMeta
  /\ pc' = "mounted"
  /\ tail' = 0
  /\ reached' = 0
  /\ UNCHANGED <<meta, meta_dirty, entry_count, retired_sequence, faults,
                 version, resets>>

(* What an erasure leaves that stops on an error or because the power      *)
(* fails: any of the records are gone.                                     *)
SomeRecordsGo ==
  /\ \E kept \in SUBSET Slot :
       nv_blocks' = [i \in Slot |-> IF i \in kept THEN nv_blocks[i] ELSE NoBlock]
  /\ nv_meta' \in {nv_meta, NoMeta}

PowerFails == resets < MaxResets /\ resets' = resets + 1 /\ faults' = {}

(* Mounting fails, and the erasure of the partition stops in the middle.   *)
EraseStops ==
  /\ EraseMayStop
  /\ pc = "down"
  /\ NvsFails
  /\ SomeRecordsGo
  /\ PowerFails \/ (faults' = faults \union {"init"} /\ UNCHANGED resets)
  /\ InitError
  /\ UNCHANGED <<entry_count, retired_sequence, version, ghosts>>

ReadMeta ==
  /\ pc \in {"down", "mounted"}
  /\ \/ /\ nv_meta = NoMeta
        /\ pc' = "findNewest"
        /\ UNCHANGED meta
     \/ /\ nv_meta # NoMeta
        /\ ~(Compatible(nv_meta) /\ Plausible(nv_meta))
        /\ pc' = "clear"
        /\ UNCHANGED meta
     \/ /\ nv_meta # NoMeta
        /\ Compatible(nv_meta) /\ Plausible(nv_meta)
        /\ pc' = "scan"
        /\ meta' = nv_meta
  /\ UNCHANGED <<nvs, meta_dirty, entry_count, retired_sequence, faults,
                 env, ghosts>>

(* reset_storage: nvs_clear succeeds ...                                   *)
Clear ==
  /\ pc = "clear"
  /\ nv_blocks' = [i \in Slot |-> NoBlock]
  /\ nv_meta' = NoMeta
  /\ meta' = ResetMeta
  /\ pc' = "saveMeta"
  /\ tail' = 0
  /\ reached' = 0
  /\ UNCHANGED <<meta_dirty, entry_count, retired_sequence, faults, env>>

(* ... or stops.                                                           *)
ClearStops ==
  /\ pc = "clear"
  /\ SomeRecordsGo
  /\ \/ PowerFails /\ UNCHANGED budget
     \/ /\ NvsFails
        /\ faults' = faults \union {"init"}
        /\ UNCHANGED resets
  /\ InitError
  /\ UNCHANGED <<entry_count, retired_sequence, version, ghosts>>

(* recover_meta_from_blocks, first loop: the newest sequence of all slots. *)
FindNewest ==
  /\ pc = "findNewest"
  /\ LET Found == {nv_blocks[i].sequence :
                     i \in {j \in Slot : /\ RecordValid(nv_blocks[j])
                                         /\ block_id(nv_blocks[j].sequence) = j}}
     IN \/ /\ Found = {}
           /\ meta' = ResetMeta
           /\ pc' = "saveMeta"
        \/ \E newest \in Found :
             /\ \A sequence \in Found : sequence <= newest
             /\ meta' = [ResetMeta EXCEPT !.oldest_seq = newest + 1,
                                          !.next_seq = newest + 1]
             /\ pc' = "recount"
  /\ UNCHANGED <<nvs, meta_dirty, entry_count, retired_sequence, faults,
                 env, ghosts>>

(* Second loop: the run of consecutive blocks that ends with the newest.   *)
(* The loop ends at a missing block, and just so at one NVS cannot read.   *)
Recount ==
  /\ pc = "recount"
  /\ LET sequence == meta.oldest_seq - 1
         more == meta.pending_blocks < BlockCount /\ Loadable(sequence)
     IN \/ /\ more
           /\ NvsOk
           /\ meta' = [meta EXCEPT
                !.pending_blocks = @ + 1,
                !.pending_entries = @ + BlockOf(sequence).entry_count,
                !.oldest_seq = sequence]
           /\ UNCHANGED pc
        \/ /\ \/ ~more /\ NvsOk
              \/ more /\ NvsFails
           /\ meta' = IF meta.pending_blocks = 0 THEN ResetMeta ELSE meta
           /\ pc' = "saveMeta"
  /\ UNCHANGED <<nvs, meta_dirty, entry_count, retired_sequence, faults,
                 version, resets, ghosts>>

(* The metadata that was reset or rebuilt is saved.                        *)
SaveRebuilt ==
  /\ pc = "saveMeta"
  /\ \/ /\ SaveOk(meta)
        /\ faults' = faults \ {"meta"}
        /\ pc' = "scan"
        /\ tail' = EndOf(meta)
        /\ reached' = HeadOf(meta)
     \/ /\ NvsFails
        /\ InitError
        /\ faults' = faults \union {"meta", "init"}
        /\ UNCHANGED <<nv_meta, ghosts>>
  /\ UNCHANGED <<nv_blocks, entry_count, retired_sequence, version, resets>>

(* recover_uncommitted_blocks: blocks that were written, but whose         *)
(* metadata update was lost, are taken into the ring ...                   *)
ScanTakes ==
  /\ pc = "scan"
  /\ meta.pending_blocks < BlockCount
  /\ Loadable(meta.next_seq)
  /\ meta' = WithNewest(meta, BlockOf(meta.next_seq).entry_count)
  /\ faults' = faults \ {"read"}
  /\ UNCHANGED <<nvs, meta_dirty, pc, entry_count, retired_sequence, env, ghosts>>

ScanCleared == IF meta.pending_blocks < BlockCount THEN {"read"} ELSE {}

(* ... until the ring is full or the next one is missing or invalid.       *)
ScanEnds ==
  /\ pc = "scan"
  /\ \/ meta.pending_blocks = BlockCount
     \/ ~Loadable(meta.next_seq)
  /\ \/ /\ meta = nv_meta
        /\ pc' = "ready"
        /\ faults' = faults \ (ScanCleared \union {"init"})
     \/ /\ meta # nv_meta
        /\ pc' = "saveScan"
        /\ faults' = faults \ ScanCleared
  /\ UNCHANGED <<nvs, meta, meta_dirty, entry_count, retired_sequence, env, ghosts>>

ScanFails ==
  /\ pc = "scan"
  /\ meta.pending_blocks < BlockCount
  /\ NvsFails
  /\ InitError
  /\ faults' = faults \union {"read", "init"}
  /\ UNCHANGED <<nvs, entry_count, retired_sequence, version, resets, ghosts>>

SaveScanned ==
  /\ pc = "saveScan"
  /\ \/ /\ SaveOk(meta)
        /\ faults' = faults \ {"meta", "init"}
        /\ pc' = "ready"
        /\ tail' = EndOf(meta)
     \/ /\ NvsFails
        /\ InitError
        /\ faults' = faults \union {"meta", "init"}
        /\ UNCHANGED <<nv_meta, tail>>
  /\ UNCHANGED <<nv_blocks, entry_count, retired_sequence, version, resets,
                 reached>>

-----------------------------------------------------------------------------
(* flash_ring_store_append.                                                *)

(* Variant: the offset into the block that goes stays behind.              *)
WithoutOldestKeepsOffset(entries) ==
  [meta EXCEPT
     !.pending_blocks = @ - 1,
     !.pending_entries = @ - entries,
     !.oldest_seq = IF meta.pending_blocks = 1 THEN meta.next_seq ELSE @ + 1]

(* The metadata without its oldest block.                                  *)
WithoutOldest(entries) ==
  [meta EXCEPT
     !.pending_blocks = @ - 1,
     !.pending_entries = @ - entries,
     !.oldest_seq = IF meta.pending_blocks = 1 THEN meta.next_seq ELSE @ + 1,
     !.oldest_offset = 0]

Append(n) ==
  /\ pc = "ready"
  /\ meta.next_seq < MaxSeq
  /\ n \in 1 .. Capacity
  /\ FlushBatch # 0 => n = FlushBatch
  /\ meta.pending_blocks < BlockCount
  /\ entry_count' = n
  /\ pc' = "appendWrite"
  /\ UNCHANGED <<nvs, meta, meta_dirty, retired_sequence, faults, env, ghosts>>

(* A full ring gives up its oldest block first (discard_oldest_block): the *)
(* new queue head is saved before the block is deleted.                    *)
AppendDiscards(n) ==
  /\ pc = "ready"
  /\ meta.next_seq < MaxSeq
  /\ n \in 1 .. Capacity
  /\ FlushBatch # 0 => n = FlushBatch
  /\ meta.pending_blocks >= BlockCount
  /\ \/ /\ Loadable(meta.oldest_seq)
        /\ SaveOk(WithoutOldest(IF Remaining < meta.pending_entries
                                THEN Remaining ELSE meta.pending_entries))
        /\ faults' = faults \ {"read", "meta"}
        /\ entry_count' = n
        /\ retired_sequence' = meta.oldest_seq
        /\ pc' = "discardDelete"
        /\ reached' = BlockOf(meta.oldest_seq).first
                      + BlockOf(meta.oldest_seq).entry_count
     \/ /\ Loadable(meta.oldest_seq)
        /\ SaveFails
        /\ faults' = (faults \ {"read"}) \union {"meta"}
        /\ UNCHANGED <<entry_count, retired_sequence, pc, reached>>
     \/ /\ LoadFails(meta.oldest_seq)
        /\ UNCHANGED <<nv_meta, meta, meta_dirty, entry_count,
                       retired_sequence, pc, reached>>
  /\ UNCHANGED <<nv_blocks, version, resets, tail>>

(* Deleting the retired block is cleanup only: a failure leaves the block  *)
(* behind and the call goes on.                                            *)
DeleteRetired(next) ==
  /\ \/ /\ NvsOk
        /\ nv_blocks' = [nv_blocks EXCEPT ![block_id(retired_sequence)] = NoBlock]
        /\ faults' = faults \ {"delete"}
     \/ /\ NvsFails
        /\ faults' = faults \union {"delete"}
        /\ UNCHANGED nv_blocks
  /\ retired_sequence' = 0
  /\ pc' = next
  /\ UNCHANGED <<nv_meta, meta, meta_dirty, entry_count, version, resets, ghosts>>

DiscardDeletes == pc = "discardDelete" /\ DeleteRetired("appendWrite")

(* The block goes to flash under the next sequence ...                     *)
AppendWrites ==
  /\ pc = "appendWrite"
  /\ \/ /\ NvsOk
        /\ nv_blocks' = [nv_blocks EXCEPT ![block_id(meta.next_seq)] =
             [version |-> version, sequence |-> meta.next_seq,
              entry_count |-> entry_count, first |-> tail]]
        /\ pc' = "appendCommit"
        /\ UNCHANGED <<faults, entry_count>>
     \/ /\ NvsFails
        /\ faults' = faults \union {"write"}
        /\ entry_count' = 0
        /\ pc' = "ready"
        /\ UNCHANGED nv_blocks
  /\ UNCHANGED <<nv_meta, meta, meta_dirty, retired_sequence, version, resets,
                 ghosts>>

(* ... and then the metadata that makes it part of the ring.               *)
AppendCommits ==
  /\ pc = "appendCommit"
  /\ \/ /\ SaveOk(WithNewest(meta, entry_count))
        /\ faults' = faults \ {"meta", "write"}
        /\ tail' = tail + entry_count
     \/ /\ SaveFails
        /\ faults' = faults \union {"meta", "write"}
        /\ UNCHANGED tail
  /\ entry_count' = 0
  /\ pc' = "ready"
  /\ UNCHANGED <<nv_blocks, retired_sequence, version, resets, reached>>

-----------------------------------------------------------------------------
(* flash_ring_store_peek, _drop and _sync.                                 *)

(* How many entries, at most n, a peek hands out: the ones that start at   *)
(* HeadOf(meta).                                                           *)
PeekCount(n) ==
  IF meta.pending_blocks = 0 THEN 0
  ELSE IF Remaining < n THEN Remaining ELSE n

(* A peek changes nothing but the read fault bit; so does a drop that      *)
(* cannot load the oldest block or is asked for more than it has left.     *)
Peek ==
  /\ pc = "ready"
  /\ \/ meta.pending_blocks = 0 /\ NvsOk /\ UNCHANGED faults
     \/ /\ meta.pending_blocks > 0
        /\ \/ LoadOk(meta.oldest_seq) /\ faults' = faults \ {"read"}
           \/ LoadFails(meta.oldest_seq)
  /\ UNCHANGED <<nvs, meta, meta_dirty, pc, entry_count, retired_sequence,
                 version, resets, ghosts>>

(* Part of the oldest block: only the metadata in RAM moves.               *)
DropSome(n) ==
  /\ pc = "ready"
  /\ meta.pending_blocks > 0
  /\ Loadable(meta.oldest_seq)
  /\ n \in 1 .. Remaining - 1
  /\ meta' = [meta EXCEPT !.pending_entries = @ - n, !.oldest_offset = @ + n]
  /\ meta_dirty' = TRUE
  /\ faults' = faults \ {"read"}
  /\ reached' = IF reached < HeadOf(meta) + n THEN HeadOf(meta) + n ELSE reached
  /\ UNCHANGED <<nvs, pc, entry_count, retired_sequence, env, tail>>

(* Variant: the block is deleted before the new queue head is saved.       *)
DropBlockDeletesFirst ==
  /\ pc = "ready"
  /\ meta.pending_blocks > 0
  /\ Loadable(meta.oldest_seq)
  /\ nv_blocks' = [nv_blocks EXCEPT ![block_id(meta.oldest_seq)] = NoBlock]
  /\ meta' = WithoutOldest(Remaining)
  /\ meta_dirty' = TRUE
  /\ reached' = HeadOf(meta) + Remaining
  /\ UNCHANGED <<nv_meta, pc, retired_sequence, entry_count, faults, env, tail>>

(* Variant: dropping a whole block only marks the metadata dirty.          *)
DropBlockLazily ==
  /\ pc = "ready"
  /\ meta.pending_blocks > 0
  /\ Loadable(meta.oldest_seq)
  /\ meta' = WithoutOldest(Remaining)
  /\ meta_dirty' = TRUE
  /\ reached' = HeadOf(meta) + Remaining
  /\ UNCHANGED <<nvs, pc, retired_sequence, entry_count, faults, env, tail>>

(* The rest of the oldest block: the new queue head is saved, then the     *)
(* block is deleted.                                                       *)
DropBlock ==
  /\ pc = "ready"
  /\ meta.pending_blocks > 0
  /\ Loadable(meta.oldest_seq)
  /\ \/ /\ SaveOk(WithoutOldest(Remaining))
        /\ faults' = faults \ {"read", "meta"}
        /\ retired_sequence' = meta.oldest_seq
        /\ pc' = "dropDelete"
        /\ reached' = HeadOf(meta) + Remaining
     \/ /\ SaveFails
        /\ faults' = (faults \ {"read"}) \union {"meta"}
        /\ UNCHANGED <<retired_sequence, pc, reached>>
  /\ UNCHANGED <<nv_blocks, entry_count, version, resets, tail>>

DropDeletes == pc = "dropDelete" /\ DeleteRetired("ready")

Sync ==
  /\ pc = "ready"
  /\ meta_dirty
  /\ \/ SaveOk(meta) /\ faults' = faults \ {"meta"}
     \/ SaveFails /\ faults' = faults \union {"meta"}
  /\ UNCHANGED <<nv_blocks, pc, entry_count, retired_sequence, version, resets,
                 ghosts>>

-----------------------------------------------------------------------------
(* Power failure, reboot, or reboot into a firmware with another storage   *)
(* format: what is in RAM is gone, what is in flash stays.                 *)
Reset ==
  /\ resets < MaxResets
  /\ resets' = resets + 1
  /\ \/ version' = version /\ UNCHANGED ghosts
     \/ version < MaxVersion /\ version' = version + 1 /\ tail' = 0 /\ reached' = 0
  /\ pc' = "down"
  /\ meta' = ResetMeta'
  /\ meta_dirty' = FALSE
  /\ entry_count' = 0
  /\ retired_sequence' = 0
  /\ faults' = {}
  /\ UNCHANGED <<nvs, budget>>

(* A partition fresh from the factory.                                     *)
Init ==
  /\ nv_blocks = [i \in Slot |-> NoBlock]
  /\ nv_meta = NoMeta
  /\ version = 1
  /\ meta = ResetMeta
  /\ meta_dirty = FALSE
  /\ pc = "down"
  /\ entry_count = 0
  /\ retired_sequence = 0
  /\ faults = {}
  /\ budget = MaxFaults
  /\ resets = 0
  /\ tail = 0
  /\ reached = 0

Boot ==
  \/ InitFails \/ MountErases \/ EraseStops \/ ReadMeta \/ Clear \/ ClearStops
  \/ FindNewest \/ Recount \/ SaveRebuilt
  \/ ScanTakes \/ ScanEnds \/ ScanFails \/ SaveScanned

Call ==
  \/ \E n \in 1 .. Capacity : Append(n) \/ AppendDiscards(n) \/ DropSome(n)
  \/ DiscardDeletes \/ AppendWrites \/ AppendCommits
  \/ Peek \/ DropBlock \/ DropDeletes \/ Sync

Next == Boot \/ Call \/ Reset

Spec == Init /\ [][Next]_vars

-----------------------------------------------------------------------------
(* What the store guarantees.                                              *)

(* The blocks a metadata record counts are all in flash, under consecutive *)
(* sequences, and its offset lies in the oldest of them.                   *)
BlocksPresent(m) ==
  /\ m.pending_blocks <= BlockCount
  /\ m.next_seq = m.oldest_seq + m.pending_blocks
  /\ \A s \in m.oldest_seq .. m.next_seq - 1 : Loadable(s)
  /\ m.pending_blocks > 0 => m.oldest_offset < BlockOf(m.oldest_seq).entry_count

(* Their entries follow each other without a gap up to the newest, and the *)
(* record counts the entries from its head on.                             *)
EntriesContiguous(m) ==
  /\ \A s \in m.oldest_seq .. m.next_seq - 1 :
       BlockOf(s).first + BlockOf(s).entry_count
         = IF s = m.next_seq - 1 THEN tail ELSE BlockOf(s + 1).first
  /\ HeadOf(m) + m.pending_entries = tail

Run(m) == BlocksPresent(m) /\ EntriesContiguous(m)

(* A metadata record the next boot takes as it is.                         *)
Usable(m) == m # NoMeta /\ Compatible(m) /\ Plausible(m)

(* Whatever the instant of a reset, the metadata found at boot points to   *)
(* blocks that are there: a block is written before the metadata that      *)
(* counts it and deleted after the metadata that no longer does.           *)
CommittedBlocksPresent == Usable(nv_meta) => Run(nv_meta)

(* An idle store answers its callers from a queue that is intact: the      *)
(* count is exact and the head can be read.                                *)
QueueIntact == pc = "ready" => Run(meta)

(* How many entries blocks with these entry counts hold together: the      *)
(* first k of the n of them, for every k.                                  *)
Sums(counts, n) ==
  LET sum[k \in 0 .. n] == IF k = 0 THEN 0 ELSE sum[k - 1] + counts[k]
  IN  sum

(* The entries in the n blocks from sequence s on.                         *)
EntriesIn(blocks, s, n) ==
  Sums([k \in 1 .. n |-> blocks[block_id(s + k - 1)].entry_count], n)[n]

(* Whatever was cleared, rebuilt or rescued at boot, an idle store serves  *)
(* blocks that are there, and flash_ring_store_get_count reports just the  *)
(* entries that peek and drop will go through, block by block.             *)
CountExact ==
  pc = "ready" =>
    /\ BlocksPresent(meta)
    /\ meta.pending_entries =
         EntriesIn(nv_blocks, meta.oldest_seq, meta.pending_blocks)
         - meta.oldest_offset

(* A boot never clears a store whose metadata the running format wrote:    *)
(* only a format change or a failing mount costs the stored entries.       *)
BootKeepsOwnData == pc = "clear" => ~Compatible(nv_meta)

(* A reset never skips an entry that was neither dropped nor discarded,    *)
(* and replays less than a block of those that were.                       *)
BoundedReplay ==
  Usable(nv_meta) =>
    HeadOf(nv_meta) <= reached /\ reached < HeadOf(nv_meta) + Capacity

(* The store implements the durable queue.                                 *)
StableHead == IF Usable(nv_meta) THEN HeadOf(nv_meta) ELSE 0

Queue == INSTANCE DurableQueue WITH
  up <- pc \notin InitPc,
  head <- IF pc \in InitPc THEN StableHead ELSE HeadOf(meta),
  stable <- StableHead

ImplementsDurableQueue == Queue!Spec
=============================================================================

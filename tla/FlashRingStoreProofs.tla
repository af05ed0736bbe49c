------------------------ MODULE FlashRingStoreProofs ------------------------
(***************************************************************************)
(* Proofs about the flash ring store, for every ring size, block capacity, *)
(* number of resets and number of NVS failures.                            *)
(*                                                                         *)
(* A domain that always flushes the same batch (self-reports and the eco   *)
(* log): its invariant IInv, what follows from it, and that it implements  *)
(* the durable queue.  A domain of blocks of any size (contacts): its      *)
(* invariant CountInv, and with both that every store counts exactly.      *)
(***************************************************************************)
EXTENDS FlashRingStore, WellFoundedInduction, TLAPS

-----------------------------------------------------------------------------
(* The inductive invariant.  Its parts name the flash contents b, the      *)
(* number t the next entry gets and the format v they speak of, so that    *)
(* the lemmas about them hold before and after a step alike.               *)

(* Slot contents b hold the block of sequence s, a full batch.             *)
Holds(b, v, s) ==
  /\ b[block_id(s)] # NoBlock
  /\ b[block_id(s)].version = v
  /\ b[block_id(s)].sequence = s
  /\ b[block_id(s)].entry_count = FlushBatch

Head(m, b, t) ==
  IF m.pending_blocks = 0 THEN t
  ELSE b[block_id(m.oldest_seq)].first + m.oldest_offset

(* The record m describes a queue that ends before entry t.                *)
Queued(m, b, t, v) ==
  /\ m \in Meta
  /\ m.version = v
  /\ m.pending_blocks <= BlockCount
  /\ m.next_seq = m.oldest_seq + m.pending_blocks
  /\ \A s \in m.oldest_seq .. m.next_seq - 1 :
       /\ Holds(b, v, s)
       /\ b[block_id(s)].first + FlushBatch
            = IF s = m.next_seq - 1 THEN t ELSE b[block_id(s + 1)].first
  /\ m.pending_entries + m.oldest_offset = m.pending_blocks * FlushBatch
  /\ m.pending_blocks = 0 => m.oldest_offset = 0
  /\ m.pending_blocks > 0 => m.oldest_offset < FlushBatch
  /\ Head(m, b, t) + m.pending_entries = t

(* The only block ahead of the queue is one whose append was cut off.      *)
NothingAhead(m, b, t, v) ==
  \A i \in Slot : b[i] # NoBlock /\ b[i].version = v =>
    /\ b[i].sequence <= m.next_seq
    /\ b[i].sequence = m.next_seq =>
         b[i].first = t /\ b[i].entry_count = FlushBatch

Readable == nv_meta # NoMeta /\ nv_meta.version = version

(* Every record is of this format or an earlier one, and there are no      *)
(* blocks of this one without the metadata they belong to.                 *)
RecordsSane ==
  /\ nv_meta # NoMeta => nv_meta.version <= version
  /\ \A i \in Slot : nv_blocks[i] # NoBlock =>
       /\ nv_blocks[i].version <= version
       /\ nv_blocks[i].version = version => Readable
  /\ ~Readable => tail = 0 /\ reached = 0

FlashQueue ==
  Readable =>
    /\ Queued(nv_meta, nv_blocks, tail, version)
    /\ NothingAhead(nv_meta, nv_blocks, tail, version)
    /\ Head(nv_meta, nv_blocks, tail) <= reached
    /\ reached < Head(nv_meta, nv_blocks, tail) + FlushBatch

(* What a boot has found out when it comes to each of its steps.           *)
BootQueue ==
  /\ pc # "recount"
  /\ pc \in {"findNewest", "saveMeta"} => nv_meta = NoMeta
  /\ pc = "saveMeta" => meta = ResetMeta
  /\ pc = "clear" => nv_meta # NoMeta /\ ~Readable
  /\ pc \in {"scan", "saveScan"} =>
       /\ Readable
       /\ \/ pc = "scan" /\ meta = nv_meta
          \/ /\ nv_meta.pending_blocks < BlockCount
             /\ Holds(nv_blocks, version, nv_meta.next_seq)
             /\ meta = WithNewest(nv_meta, FlushBatch)

(* A running store differs from its metadata in flash by the entries of    *)
(* the oldest block that were dropped since the last save.                 *)
RamQueue ==
  pc \in CallPc \union {"ready"} =>
    /\ Readable
    /\ Queued(meta, nv_blocks, tail, version)
    /\ meta.pending_blocks = nv_meta.pending_blocks
    /\ meta.oldest_seq = nv_meta.oldest_seq
    /\ meta.oldest_offset >= nv_meta.oldest_offset
    /\ Head(meta, nv_blocks, tail) <= reached
    /\ pc \in {"appendWrite", "appendCommit", "discardDelete"} =>
         entry_count = FlushBatch /\ meta.pending_blocks < BlockCount
    /\ pc = "appendCommit" => Holds(nv_blocks, version, meta.next_seq)
    /\ pc \in {"discardDelete", "dropDelete"} =>
         retired_sequence = meta.oldest_seq - 1 /\ meta.pending_blocks < BlockCount

IInv == TypeOK /\ RecordsSane /\ FlashQueue /\ BootQueue /\ RamQueue

-----------------------------------------------------------------------------
(* Slots and batches.                                                      *)

(* Two sequences less than a ring apart use different slots.               *)
LEMMA SlotInjective ==
  ASSUME NEW s \in Int, NEW t \in Int, s < t, t - s < BlockCount
  PROVE  block_id(s) # block_id(t)
<1>1. BlockCount \in Nat /\ BlockCount > 0
  BY BlockCountAssumption
<1> DEFINE qs == s \div BlockCount
           qt == t \div BlockCount
<1>2. /\ qs \in Int /\ qt \in Int
      /\ s = (BlockCount * qs) + (s % BlockCount)
      /\ t = (BlockCount * qt) + (t % BlockCount)
  BY <1>1
<1>3. SUFFICES ASSUME s % BlockCount = t % BlockCount PROVE FALSE
  BY DEF block_id
<1>4. t - s = BlockCount * (qt - qs)
  BY <1>1, <1>2, <1>3
<1>5. qt - qs \in Int
  BY <1>2
<1>6. CASE qt - qs <= 0
  BY <1>1, <1>4, <1>5, <1>6
<1>7. CASE qt - qs >= 1
  BY <1>1, <1>4, <1>5, <1>7
<1>8. QED
  BY <1>5, <1>6, <1>7

LEMMA SlotOfSequence ==
  ASSUME NEW s \in Int
  PROVE  block_id(s) \in Slot
BY BlockCountAssumption DEF block_id, Slot

(* One block more or less is a batch of entries more or less.              *)
LEMMA BatchStep ==
  ASSUME NEW n \in Int
  PROVE  /\ FlushBatch \in Nat
         /\ (n + 1) * FlushBatch = n * FlushBatch + FlushBatch
         /\ (n - 1) * FlushBatch = n * FlushBatch - FlushBatch
         /\ n * FlushBatch \in Int
         /\ n = 0 => n * FlushBatch = 0
         /\ n >= 1 => n * FlushBatch >= FlushBatch
         /\ n >= 0 => n * FlushBatch >= 0
BY FlushBatchAssumption, CapacityAssumption

-----------------------------------------------------------------------------
(* How the store's updates act on a queue.                                 *)

FlashContents == [Slot -> Block \union {NoBlock}]

(* What follows for the oldest block of a queue.                           *)
LEMMA OldestBlock ==
  ASSUME FlushBatch # 0, NEW m, NEW b \in FlashContents, NEW t \in Nat, NEW v,
         Queued(m, b, t, v), m.pending_blocks > 0
  PROVE  /\ Holds(b, v, m.oldest_seq)
         /\ b[block_id(m.oldest_seq)] \in Block
         /\ Head(m, b, t) = b[block_id(m.oldest_seq)].first + m.oldest_offset
         /\ m.pending_entries >= FlushBatch - m.oldest_offset
         /\ Head(m, b, t) <= t
<1>1. m \in Meta
  BY DEF Queued
<1>2. m.oldest_seq \in m.oldest_seq .. m.next_seq - 1
  BY <1>1 DEF Queued, Meta
<1>3. Holds(b, v, m.oldest_seq)
  BY <1>2 DEF Queued
<1>4. b[block_id(m.oldest_seq)] \in Block
  BY <1>1, <1>3, SlotOfSequence DEF Holds, FlashContents, Meta
<1>5. Head(m, b, t) = b[block_id(m.oldest_seq)].first + m.oldest_offset
  BY <1>1 DEF Head, Meta
<1>6. m.pending_entries >= FlushBatch - m.oldest_offset
  <2>1. m.pending_blocks * FlushBatch >= FlushBatch
    BY <1>1, BatchStep DEF Meta
  <2>2. QED
    BY <1>1, <2>1, BatchStep DEF Queued, Meta
<1>7. Head(m, b, t) <= t
  BY <1>1, <1>4, <1>5 DEF Queued, Meta, Block
<1>8. QED
  BY <1>3, <1>4, <1>5, <1>6, <1>7

(* A queue's metadata is plausible: a boot never clears it.                *)
LEMMA QueuedPlausible ==
  ASSUME FlushBatch # 0, NEW m, NEW b \in FlashContents, NEW t \in Nat, NEW v,
         Queued(m, b, t, v)
  PROVE  Plausible(m) /\ Head(m, b, t) \in Int /\ Head(m, b, t) <= t
<1>1. m \in Meta
  BY DEF Queued
<1>2. m.pending_blocks * FlushBatch \in Int
  BY <1>1, BatchStep DEF Meta
<1>3. m.pending_entries <= m.pending_blocks * FlushBatch
  BY <1>1, <1>2 DEF Queued, Meta
<1>4. m.pending_blocks = 0 => m.pending_entries = 0 /\ m.oldest_offset = 0
  BY <1>1, BatchStep DEF Queued, Meta
<1>5. m.oldest_offset < Capacity
  BY <1>1, <1>4, FlushBatchAssumption, CapacityAssumption DEF Queued, Meta
<1>6. Plausible(m)
  BY <1>3, <1>4, <1>5 DEF Plausible, Queued
<1>7. Head(m, b, t) \in Int /\ Head(m, b, t) <= t
  <2>1. CASE m.pending_blocks = 0
    BY <2>1 DEF Head
  <2>2. CASE m.pending_blocks > 0
    BY <1>1, <2>2, OldestBlock DEF Head, Meta, Block
  <2>3. QED
    BY <1>1, <2>1, <2>2 DEF Meta
<1>8. QED
  BY <1>6, <1>7

(* The fields of an updated record.                                        *)
LEMMA DropSomeFields ==
  ASSUME NEW m \in Meta, NEW n \in Nat, n <= m.pending_entries,
         NEW m2, m2 = [m EXCEPT !.pending_entries = @ - n, !.oldest_offset = @ + n]
  PROVE  /\ m2 \in Meta
         /\ m2.version = m.version /\ m2.pending_blocks = m.pending_blocks
         /\ m2.oldest_seq = m.oldest_seq /\ m2.next_seq = m.next_seq
         /\ m2.pending_entries = m.pending_entries - n
         /\ m2.oldest_offset = m.oldest_offset + n
<1> DEFINE e == m.pending_entries - n
           o == m.oldest_offset + n
<1>1. e \in Nat /\ o \in Nat
  BY DEF Meta
<1>2. m2 = [m EXCEPT !.pending_entries = e, !.oldest_offset = o]
  OBVIOUS
<1> HIDE DEF e, o
<1>3. /\ m2 \in Meta
      /\ m2.version = m.version /\ m2.pending_blocks = m.pending_blocks
      /\ m2.oldest_seq = m.oldest_seq /\ m2.next_seq = m.next_seq
      /\ m2.pending_entries = e
      /\ m2.oldest_offset = o
  BY <1>1, <1>2, ZenonT(20) DEF Meta
<1>4. QED
  BY <1>3 DEF e, o

LEMMA WithNewestFields ==
  ASSUME NEW m \in Meta, NEW n \in Nat,
         NEW m2, m2 = WithNewest(m, n)
  PROVE  /\ m2 \in Meta
         /\ m2.version = m.version
         /\ m2.pending_blocks = m.pending_blocks + 1
         /\ m2.oldest_seq = (IF m.pending_blocks = 0 THEN m.next_seq
                             ELSE m.oldest_seq)
         /\ m2.next_seq = m.next_seq + 1
         /\ m2.pending_entries = m.pending_entries + n
         /\ m2.oldest_offset = (IF m.pending_blocks = 0 THEN 0
                                ELSE m.oldest_offset)
<1> DEFINE s == IF m.pending_blocks = 0 THEN m.next_seq ELSE m.oldest_seq
           o == IF m.pending_blocks = 0 THEN 0 ELSE m.oldest_offset
           x == m.next_seq + 1
           p == m.pending_blocks + 1
           e == m.pending_entries + n
<1>1. s \in Int /\ o \in Nat /\ x \in Nat /\ p \in Nat /\ e \in Nat
  BY DEF Meta
<1>2. m2 = [m EXCEPT !.oldest_seq = s, !.oldest_offset = o, !.next_seq = x,
                     !.pending_blocks = p, !.pending_entries = e]
  BY DEF WithNewest
<1> HIDE DEF s, o, x, p, e
<1>3. /\ m2 \in Meta
      /\ m2.version = m.version
      /\ m2.pending_blocks = p
      /\ m2.oldest_seq = s
      /\ m2.next_seq = x
      /\ m2.pending_entries = e
      /\ m2.oldest_offset = o
  <2>1. m2 \in Meta
    BY <1>1, <1>2, ZenonT(30) DEF Meta
  <2>2. m2.version = m.version /\ m2.pending_blocks = p
    BY <1>2, ZenonT(30) DEF Meta
  <2>3. m2.oldest_seq = s /\ m2.next_seq = x
    BY <1>2, ZenonT(30) DEF Meta
  <2>4. m2.pending_entries = e /\ m2.oldest_offset = o
    BY <1>2, ZenonT(30) DEF Meta
  <2>5. QED
    BY <2>1, <2>2, <2>3, <2>4
<1>4. QED
  BY <1>3 DEF s, o, x, p, e

(* What metadata with a newest block say.                                  *)
LEMMA NewestRecord ==
  ASSUME NEW m \in Meta, NEW n \in Nat
  PROVE  /\ WithNewest(m, n) \in Meta
         /\ WithNewest(m, n).version = m.version
         /\ WithNewest(m, n).pending_blocks = m.pending_blocks + 1
         /\ WithNewest(m, n).oldest_seq
              = (IF m.pending_blocks = 0 THEN m.next_seq ELSE m.oldest_seq)
         /\ WithNewest(m, n).next_seq = m.next_seq + 1
         /\ WithNewest(m, n).pending_entries = m.pending_entries + n
         /\ WithNewest(m, n).oldest_offset
              = (IF m.pending_blocks = 0 THEN 0 ELSE m.oldest_offset)
BY WithNewestFields

LEMMA WithoutOldestFields ==
  ASSUME meta \in Meta, NEW n \in Nat, n <= meta.pending_entries,
         meta.pending_blocks > 0,
         NEW m2, m2 = WithoutOldest(n)
  PROVE  /\ m2 \in Meta
         /\ m2.version = meta.version
         /\ m2.pending_blocks = meta.pending_blocks - 1
         /\ m2.oldest_seq = (IF meta.pending_blocks = 1 THEN meta.next_seq
                             ELSE meta.oldest_seq + 1)
         /\ m2.next_seq = meta.next_seq
         /\ m2.pending_entries = meta.pending_entries - n
         /\ m2.oldest_offset = 0
<1> DEFINE s == IF meta.pending_blocks = 1 THEN meta.next_seq
                ELSE meta.oldest_seq + 1
           p == meta.pending_blocks - 1
           e == meta.pending_entries - n
<1>1. s \in Int /\ p \in Nat /\ e \in Nat
  BY DEF Meta
<1>2. m2 = [meta EXCEPT !.pending_blocks = p, !.pending_entries = e,
                        !.oldest_seq = s, !.oldest_offset = 0]
  BY DEF WithoutOldest
<1> HIDE DEF s, p, e
<1>3. /\ m2 \in Meta
      /\ m2.version = meta.version
      /\ m2.pending_blocks = p
      /\ m2.oldest_seq = s
      /\ m2.next_seq = meta.next_seq
      /\ m2.pending_entries = e
      /\ m2.oldest_offset = 0
  <2> DEFINE z == 0
  <2>1. z \in Nat
    OBVIOUS
  <2>2. m2 = [meta EXCEPT !.pending_blocks = p, !.pending_entries = e,
                          !.oldest_seq = s, !.oldest_offset = z]
    BY <1>2
  <2> HIDE DEF z
  <2>3. /\ m2 \in Meta
        /\ m2.version = meta.version
        /\ m2.pending_blocks = p
        /\ m2.oldest_seq = s
        /\ m2.next_seq = meta.next_seq
        /\ m2.pending_entries = e
        /\ m2.oldest_offset = z
    BY <1>1, <2>1, <2>2, ZenonT(30) DEF Meta
  <2>4. QED
    BY <2>3 DEF z
<1>4. QED
  BY <1>3 DEF s, p, e

(* Dropping entries inside the oldest block.                               *)
LEMMA QueueDropSome ==
  ASSUME FlushBatch # 0, NEW m, NEW b \in FlashContents, NEW t \in Nat, NEW v,
         Queued(m, b, t, v), m.pending_blocks > 0,
         NEW n \in Nat, n < FlushBatch - m.oldest_offset,
         NEW m2 \in Meta,
         m2.version = m.version, m2.pending_blocks = m.pending_blocks,
         m2.oldest_seq = m.oldest_seq, m2.next_seq = m.next_seq,
         m2.pending_entries = m.pending_entries - n,
         m2.oldest_offset = m.oldest_offset + n
  PROVE  Queued(m2, b, t, v) /\ Head(m2, b, t) = Head(m, b, t) + n
<1>1. m \in Meta /\ FlushBatch \in Nat
  BY BatchStep DEF Queued
<1>2. Head(m2, b, t) = Head(m, b, t) + n
  BY <1>1, OldestBlock DEF Head, Meta, Block
<1>3. m2.pending_entries + m2.oldest_offset = m2.pending_blocks * FlushBatch
  BY <1>1 DEF Queued, Meta
<1>4. Head(m2, b, t) + m2.pending_entries = t
  BY <1>1, <1>2, QueuedPlausible DEF Queued, Meta
<1>5. QED
  BY <1>1, <1>2, <1>3, <1>4 DEF Queued, Meta

(* Dropping the rest of the oldest block.                                  *)
LEMMA QueueDropOldest ==
  ASSUME FlushBatch # 0, NEW b \in FlashContents, NEW t \in Nat, NEW v,
         Queued(meta, b, t, v), meta.pending_blocks > 0,
         NEW m2, m2 = WithoutOldest(FlushBatch - meta.oldest_offset)
  PROVE  /\ Queued(m2, b, t, v)
         /\ Head(m2, b, t) = b[block_id(meta.oldest_seq)].first + FlushBatch
         /\ m2.pending_blocks = meta.pending_blocks - 1
         /\ m2.oldest_seq = meta.oldest_seq + 1
         /\ m2.next_seq = meta.next_seq
         /\ m2.version = meta.version
<1> DEFINE n == FlushBatch - meta.oldest_offset
<1>1. meta \in Meta /\ FlushBatch \in Nat
  BY BatchStep DEF Queued
<1>2. n \in Nat /\ n <= meta.pending_entries
  BY <1>1, OldestBlock DEF Meta, Queued
<1>3. /\ m2 \in Meta
      /\ m2.version = meta.version
      /\ m2.pending_blocks = meta.pending_blocks - 1
      /\ m2.oldest_seq = (IF meta.pending_blocks = 1 THEN meta.next_seq
                          ELSE meta.oldest_seq + 1)
      /\ m2.next_seq = meta.next_seq
      /\ m2.pending_entries = meta.pending_entries - n
      /\ m2.oldest_offset = 0
  BY <1>1, <1>2, WithoutOldestFields
<1>4. m2.oldest_seq = meta.oldest_seq + 1
  BY <1>1, <1>3 DEF Queued, Meta
<1> DEFINE first == b[block_id(meta.oldest_seq)].first
<1>5. /\ first \in Nat
      /\ first + FlushBatch = IF meta.pending_blocks = 1 THEN t
                              ELSE b[block_id(meta.oldest_seq + 1)].first
  <2>1. meta.oldest_seq \in meta.oldest_seq .. meta.next_seq - 1
    BY <1>1 DEF Queued, Meta
  <2>2. meta.oldest_seq = meta.next_seq - 1 <=> meta.pending_blocks = 1
    BY <1>1 DEF Queued, Meta
  <2>3. QED
    BY <2>1, <2>2, OldestBlock DEF Queued, Block
<1>6. Head(m2, b, t) = first + FlushBatch
  <2>1. CASE meta.pending_blocks = 1
    BY <1>1, <1>3, <1>5, <2>1 DEF Head
  <2>2. CASE meta.pending_blocks > 1
    <3>1. b[block_id(meta.oldest_seq + 1)].first \in Int
      BY <1>1, <1>5, <2>2
    <3>2. QED
      BY <1>1, <1>3, <1>4, <1>5, <2>2, <3>1 DEF Head, Meta
  <2>3. QED
    BY <1>1, <2>1, <2>2 DEF Meta
<1>7. m2.pending_entries + m2.oldest_offset = m2.pending_blocks * FlushBatch
  BY <1>1, <1>2, <1>3, BatchStep DEF Queued, Meta
<1>8. Head(m2, b, t) + m2.pending_entries = t
  <2>1. Head(meta, b, t) = first + meta.oldest_offset
    BY OldestBlock
  <2>2. Head(meta, b, t) + meta.pending_entries = t
    BY DEF Queued
  <2>3. QED
    BY <1>1, <1>3, <1>5, <1>6, <2>1, <2>2 DEF Meta
<1>9. \A s \in m2.oldest_seq .. m2.next_seq - 1 :
        /\ Holds(b, v, s)
        /\ b[block_id(s)].first + FlushBatch
             = IF s = m2.next_seq - 1 THEN t ELSE b[block_id(s + 1)].first
  <2>1. \A s \in m2.oldest_seq .. m2.next_seq - 1 :
          s \in meta.oldest_seq .. meta.next_seq - 1
    BY <1>1, <1>3, <1>4 DEF Meta
  <2>2. QED
    BY <1>3, <2>1 DEF Queued
<1>10. Queued(m2, b, t, v)
  <2>1. /\ m2.version = v
        /\ m2.pending_blocks <= BlockCount
        /\ m2.next_seq = m2.oldest_seq + m2.pending_blocks
    BY <1>1, <1>3, <1>4, BlockCountAssumption DEF Queued, Meta
  <2>2. /\ m2.pending_blocks = 0 => m2.oldest_offset = 0
        /\ m2.pending_blocks > 0 => m2.oldest_offset < FlushBatch
    BY <1>1, <1>3
  <2>3. QED
    BY <1>3, <1>7, <1>8, <1>9, <2>1, <2>2, Zenon DEF Queued
<1>11. QED
  BY <1>3, <1>4, <1>6, <1>10

(* Adding the block of the next sequence.                                  *)
LEMMA QueueAdd ==
  ASSUME FlushBatch # 0, NEW m, NEW b \in FlashContents, NEW t \in Nat, NEW v,
         Queued(m, b, t, v), m.pending_blocks < BlockCount,
         Holds(b, v, m.next_seq), b[block_id(m.next_seq)].first = t,
         NEW m2, m2 = WithNewest(m, FlushBatch)
  PROVE  /\ Queued(m2, b, t + FlushBatch, v)
         /\ Head(m2, b, t + FlushBatch) = Head(m, b, t)
         /\ m2.version = m.version
         /\ m2.pending_blocks = m.pending_blocks + 1
         /\ m2.next_seq = m.next_seq + 1
<1>1. m \in Meta /\ FlushBatch \in Nat
  BY BatchStep DEF Queued
<1>2. /\ m2 \in Meta
      /\ m2.version = m.version
      /\ m2.pending_blocks = m.pending_blocks + 1
      /\ m2.oldest_seq = (IF m.pending_blocks = 0 THEN m.next_seq
                          ELSE m.oldest_seq)
      /\ m2.next_seq = m.next_seq + 1
      /\ m2.pending_entries = m.pending_entries + FlushBatch
      /\ m2.oldest_offset = (IF m.pending_blocks = 0 THEN 0
                             ELSE m.oldest_offset)
  <2>1. m2 = WithNewest(m, FlushBatch)
    OBVIOUS
  <2>2. QED
    <3>1. /\ WithNewest(m, FlushBatch) \in Meta
          /\ WithNewest(m, FlushBatch).version = m.version
          /\ WithNewest(m, FlushBatch).pending_blocks = m.pending_blocks + 1
          /\ WithNewest(m, FlushBatch).oldest_seq
               = (IF m.pending_blocks = 0 THEN m.next_seq ELSE m.oldest_seq)
          /\ WithNewest(m, FlushBatch).next_seq = m.next_seq + 1
          /\ WithNewest(m, FlushBatch).pending_entries
               = m.pending_entries + FlushBatch
          /\ WithNewest(m, FlushBatch).oldest_offset
               = (IF m.pending_blocks = 0 THEN 0 ELSE m.oldest_offset)
      BY <1>1, NewestRecord, Zenon
    <3>2. QED
      BY <2>1, <3>1, Zenon
<1>3. m2.oldest_seq = m.oldest_seq /\ m2.oldest_offset = m.oldest_offset
  BY <1>1, <1>2 DEF Queued, Meta
<1>4. Head(m2, b, t + FlushBatch) = Head(m, b, t)
  <2>1. CASE m.pending_blocks = 0
    <3>1. m.oldest_seq = m.next_seq /\ m2.oldest_offset = 0
      BY <1>1, <1>2, <2>1 DEF Queued, Meta
    <3>2. QED
      BY <1>1, <1>2, <1>3, <2>1, <3>1 DEF Head, Meta
  <2>2. CASE m.pending_blocks > 0
    BY <1>1, <1>2, <1>3, <2>2 DEF Head, Meta
  <2>3. QED
    BY <1>1, <2>1, <2>2 DEF Meta
<1>5. m2.pending_entries + m2.oldest_offset = m2.pending_blocks * FlushBatch
  <2>1. (m.pending_blocks + 1) * FlushBatch = m.pending_blocks * FlushBatch + FlushBatch
    BY <1>1, BatchStep DEF Meta
  <2>2. m.pending_entries + m.oldest_offset = m.pending_blocks * FlushBatch
    BY DEF Queued
  <2>3. QED
    BY <1>1, <1>2, <1>3, <2>1, <2>2 DEF Meta
<1>6. Head(m2, b, t + FlushBatch) + m2.pending_entries = t + FlushBatch
  <2>1. Head(m, b, t) \in Int /\ Head(m, b, t) + m.pending_entries = t
    BY QueuedPlausible DEF Queued
  <2>2. QED
    BY <1>1, <1>2, <1>4, <2>1 DEF Meta
<1>7. ASSUME NEW s \in m2.oldest_seq .. m2.next_seq - 1
      PROVE  /\ Holds(b, v, s)
             /\ b[block_id(s)].first + FlushBatch
                  = IF s = m2.next_seq - 1 THEN t + FlushBatch
                    ELSE b[block_id(s + 1)].first
  <2>1. CASE s = m.next_seq
    BY <1>1, <1>2, <2>1 DEF Meta
  <2>2. CASE s # m.next_seq
    <3>1. s \in m.oldest_seq .. m.next_seq - 1 /\ s # m2.next_seq - 1
      BY <1>1, <1>2, <1>3, <2>2 DEF Meta
    <3>2. s = m.next_seq - 1 => s + 1 = m.next_seq
      BY <1>1 DEF Meta
    <3>3. QED
      BY <3>1, <3>2 DEF Queued
  <2>3. QED
    BY <2>1, <2>2
<1>8. Queued(m2, b, t + FlushBatch, v)
  <2>1. /\ m2.version = v
        /\ m2.pending_blocks <= BlockCount
        /\ m2.next_seq = m2.oldest_seq + m2.pending_blocks
    BY <1>1, <1>2, <1>3, BlockCountAssumption DEF Queued, Meta
  <2>2. /\ m2.pending_blocks = 0 => m2.oldest_offset = 0
        /\ m2.pending_blocks > 0 => m2.oldest_offset < FlushBatch
    BY <1>1, <1>2, <1>3, FlushBatchAssumption DEF Queued, Meta
  <2>3. QED
    BY <1>2, <1>5, <1>6, <1>7, <2>1, <2>2, Zenon DEF Queued
<1>9. QED
  BY <1>2, <1>4, <1>8

(* A queue only depends on the slots of its own blocks.                    *)
LEMMA QueueFrame ==
  ASSUME NEW m, NEW b, NEW b2, NEW t, NEW v, Queued(m, b, t, v),
         \A s \in m.oldest_seq .. m.next_seq - 1 : b2[block_id(s)] = b[block_id(s)]
  PROVE  Queued(m, b2, t, v) /\ Head(m, b2, t) = Head(m, b, t)
<1>1. m \in Meta
  BY DEF Queued
<1>2. Head(m, b2, t) = Head(m, b, t)
  <2>1. CASE m.pending_blocks = 0
    BY <2>1 DEF Head
  <2>2. CASE m.pending_blocks > 0
    <3>1. m.oldest_seq \in m.oldest_seq .. m.next_seq - 1
      BY <1>1, <2>2 DEF Queued, Meta
    <3>2. QED
      BY <3>1 DEF Head
  <2>3. QED
    BY <1>1, <2>1, <2>2 DEF Meta
<1>3. ASSUME NEW s \in m.oldest_seq .. m.next_seq - 1
      PROVE  /\ Holds(b2, v, s)
             /\ b2[block_id(s)].first + FlushBatch
                  = IF s = m.next_seq - 1 THEN t ELSE b2[block_id(s + 1)].first
  <2>1. s # m.next_seq - 1 => s + 1 \in m.oldest_seq .. m.next_seq - 1
    BY <1>1 DEF Meta
  <2>2. b2[block_id(s)] = b[block_id(s)]
    OBVIOUS
  <2>3. Holds(b2, v, s)
    BY <2>2 DEF Queued, Holds
  <2>4. s # m.next_seq - 1 => b2[block_id(s + 1)] = b[block_id(s + 1)]
    BY <2>1
  <2>5. QED
    BY <2>2, <2>3, <2>4 DEF Queued
<1>4. QED
  BY <1>2, <1>3 DEF Queued

(* With a slot to spare, the next sequence and the one before the oldest   *)
(* have a slot that holds no block of the queue.                           *)
LEMMA FreeSlots ==
  ASSUME NEW m, NEW b, NEW t, NEW v, Queued(m, b, t, v),
         m.pending_blocks < BlockCount,
         NEW s \in m.oldest_seq .. m.next_seq - 1
  PROVE  block_id(s) # block_id(m.next_seq) /\ block_id(s) # block_id(m.oldest_seq - 1)
<1>1. m \in Meta /\ BlockCount \in Nat
  BY BlockCountAssumption DEF Queued
<1>2. /\ s \in Int /\ m.next_seq \in Int /\ m.oldest_seq - 1 \in Int
      /\ s < m.next_seq /\ m.next_seq - s < BlockCount
      /\ m.oldest_seq - 1 < s /\ s - (m.oldest_seq - 1) < BlockCount
  BY <1>1 DEF Queued, Meta
<1>3. QED
  BY <1>2, SlotInjective

(* The queue of metadata that was reset.                                   *)
LEMMA QueueEmpty ==
  ASSUME FlushBatch # 0, version \in Nat, NEW b, NEW t \in Nat
  PROVE  /\ Queued(ResetMeta, b, t, version)
         /\ Head(ResetMeta, b, t) = t
         /\ ResetMeta \in Meta
<1>1. ResetMeta \in Meta
  BY DEF ResetMeta, Meta
<1>2. Head(ResetMeta, b, t) = t
  BY DEF ResetMeta, Head
<1>3. 0 * FlushBatch = 0
  BY BatchStep
<1>4. QED
  BY <1>1, <1>2, <1>3, BlockCountAssumption DEF Queued, ResetMeta

-----------------------------------------------------------------------------
(* What the invariant says, ready for use.                                 *)

(* A readable metadata record is a queue.                                  *)
LEMMA FlashFacts ==
  ASSUME FlushBatch # 0, IInv, Readable
  PROVE  /\ nv_blocks \in FlashContents /\ tail \in Nat /\ version \in Nat
         /\ nv_meta \in Meta
         /\ Queued(nv_meta, nv_blocks, tail, version)
         /\ NothingAhead(nv_meta, nv_blocks, tail, version)
         /\ Plausible(nv_meta)
         /\ Head(nv_meta, nv_blocks, tail) \in Int
         /\ reached \in Nat
         /\ Head(nv_meta, nv_blocks, tail) <= reached
         /\ reached < Head(nv_meta, nv_blocks, tail) + FlushBatch
<1>1. /\ nv_blocks \in FlashContents /\ tail \in Nat /\ version \in Nat
      /\ reached \in Nat
  BY DEF IInv, TypeOK, FlashContents
<1>2. /\ Queued(nv_meta, nv_blocks, tail, version)
      /\ NothingAhead(nv_meta, nv_blocks, tail, version)
      /\ Head(nv_meta, nv_blocks, tail) <= reached
      /\ reached < Head(nv_meta, nv_blocks, tail) + FlushBatch
  BY DEF IInv, FlashQueue
<1>3. Plausible(nv_meta) /\ Head(nv_meta, nv_blocks, tail) \in Int
  BY <1>1, <1>2, QueuedPlausible
<1>4. QED
  BY <1>1, <1>2, <1>3 DEF Queued

(* A running store's queue is the one in flash but for the dropped entries *)
(* of the oldest block.                                                    *)
LEMMA RamFacts ==
  ASSUME FlushBatch # 0, IInv, pc \in CallPc \union {"ready"}
  PROVE  /\ Readable
         /\ meta \in Meta
         /\ Queued(meta, nv_blocks, tail, version)
         /\ meta.oldest_seq = nv_meta.oldest_seq
         /\ meta.next_seq = nv_meta.next_seq
         /\ meta.pending_blocks = nv_meta.pending_blocks
         /\ meta.oldest_offset >= nv_meta.oldest_offset
         /\ Head(meta, nv_blocks, tail) \in Int
         /\ Head(nv_meta, nv_blocks, tail) <= Head(meta, nv_blocks, tail)
         /\ Head(meta, nv_blocks, tail) <= reached
         /\ reached < Head(meta, nv_blocks, tail) + FlushBatch
         /\ NothingAhead(meta, nv_blocks, tail, version)
<1>1. /\ Readable
      /\ Queued(meta, nv_blocks, tail, version)
      /\ meta.oldest_seq = nv_meta.oldest_seq
      /\ meta.pending_blocks = nv_meta.pending_blocks
      /\ meta.oldest_offset >= nv_meta.oldest_offset
      /\ Head(meta, nv_blocks, tail) <= reached
  BY DEF IInv, RamQueue
<1>2. /\ nv_blocks \in FlashContents /\ tail \in Nat /\ nv_meta \in Meta
      /\ Queued(nv_meta, nv_blocks, tail, version)
      /\ NothingAhead(nv_meta, nv_blocks, tail, version)
      /\ Head(nv_meta, nv_blocks, tail) \in Int
      /\ reached < Head(nv_meta, nv_blocks, tail) + FlushBatch
      /\ reached \in Nat
  BY <1>1, FlashFacts
<1>3. meta \in Meta
  BY <1>1 DEF Queued
<1>4. meta.next_seq = nv_meta.next_seq
  BY <1>1, <1>2, <1>3 DEF Queued, Meta
<1>5. Head(meta, nv_blocks, tail) \in Int
  BY <1>1, <1>2, QueuedPlausible
<1>6. Head(nv_meta, nv_blocks, tail) <= Head(meta, nv_blocks, tail)
  <2>1. CASE meta.pending_blocks = 0
    BY <1>1, <1>2, <2>1 DEF Head
  <2>2. CASE meta.pending_blocks > 0
    <3>1. nv_blocks[block_id(meta.oldest_seq)].first \in Nat
      BY <1>1, <1>2, <2>2, OldestBlock DEF Block
    <3>2. QED
      BY <1>1, <1>2, <1>3, <2>2, <3>1 DEF Head, Meta
  <2>3. QED
    BY <1>3, <2>1, <2>2 DEF Meta
<1>7. NothingAhead(meta, nv_blocks, tail, version)
  BY <1>2, <1>4 DEF NothingAhead
<1>8. reached < Head(meta, nv_blocks, tail) + FlushBatch
  BY <1>2, <1>5, <1>6, BatchStep
<1>9. QED
  BY <1>1, <1>3, <1>4, <1>5, <1>6, <1>7, <1>8

(* Nothing in the flash contents moved.                                    *)
LEMMA FlashUnchanged ==
  ASSUME IInv, UNCHANGED <<nvs, version, ghosts>>
  PROVE  RecordsSane' /\ FlashQueue' /\ Readable' = Readable
BY DEF IInv, RecordsSane, FlashQueue, Readable, nvs, ghosts

(* A boot that starts over.                                                *)
LEMMA DownQueues ==
  ASSUME pc' = "down"
  PROVE  BootQueue' /\ RamQueue'
BY DEF BootQueue, RamQueue, CallPc

(* What the oldest block of a running store holds.                         *)
LEMMA OldestLoadable ==
  ASSUME FlushBatch # 0, IInv, pc = "ready", meta.pending_blocks > 0
  PROVE  /\ BlockOf(meta.oldest_seq) \in Block
         /\ BlockOf(meta.oldest_seq).entry_count = FlushBatch
         /\ Remaining = FlushBatch - meta.oldest_offset
         /\ Remaining \in Nat /\ Remaining <= meta.pending_entries
         /\ HeadOf(meta) = Head(meta, nv_blocks, tail)
         /\ HeadOf(meta) = BlockOf(meta.oldest_seq).first + meta.oldest_offset
<1>1. Queued(meta, nv_blocks, tail, version) /\ meta \in Meta
  BY RamFacts
<1>2. nv_blocks \in FlashContents /\ tail \in Nat /\ FlushBatch \in Nat
  BY RamFacts, FlashFacts, BatchStep
<1>3. /\ Holds(nv_blocks, version, meta.oldest_seq)
      /\ nv_blocks[block_id(meta.oldest_seq)] \in Block
      /\ Head(meta, nv_blocks, tail)
           = nv_blocks[block_id(meta.oldest_seq)].first + meta.oldest_offset
      /\ meta.pending_entries >= FlushBatch - meta.oldest_offset
  BY <1>1, <1>2, OldestBlock
<1>4. meta.oldest_offset < FlushBatch
  BY <1>1 DEF Queued
<1>5. QED
  BY <1>1, <1>2, <1>3, <1>4 DEF BlockOf, Remaining, HeadOf, Holds, Meta

-----------------------------------------------------------------------------
(* Every step of a boot keeps the invariant.                               *)

LEMMA ResetMetaType ==
  ASSUME TypeOK
  PROVE  ResetMeta \in Meta
BY DEF TypeOK, ResetMeta, Meta

(* Attempts that end with the store down again.                            *)
LEMMA BootFailsInv ==
  ASSUME FlushBatch # 0, IInv, InitFails \/ ScanFails
  PROVE  IInv'
<1>1. UNCHANGED <<nvs, version, ghosts>> /\ pc' = "down"
  BY DEF InitFails, ScanFails, InitError
<1>2. TypeOK'
  <2>1. faults' \in SUBSET FaultBit
    BY DEF IInv, TypeOK, InitFails, ScanFails, FaultBit
  <2>2. budget' \in Nat
    BY DEF IInv, TypeOK, InitFails, ScanFails, NvsFails
  <2>3. QED
    BY <2>1, <2>2, ResetMetaType
    DEF IInv, TypeOK, InitFails, ScanFails, InitError, nvs, ghosts, InitPc
<1>3. QED
  BY <1>1, <1>2, FlashUnchanged, DownQueues DEF IInv

LEMMA MountErasesInv ==
  ASSUME FlushBatch # 0, IInv, MountErases
  PROVE  IInv'
<1>1. TypeOK'
  BY DEF IInv, TypeOK, MountErases, NvsFails, InitPc
<1>2. ~Readable'
  BY DEF MountErases, Readable
<1>3. RecordsSane' /\ FlashQueue'
  BY <1>2 DEF MountErases, RecordsSane, FlashQueue, Slot
<1>4. BootQueue' /\ RamQueue'
  BY DEF MountErases, BootQueue, RamQueue, CallPc
<1>5. QED
  BY <1>1, <1>3, <1>4 DEF IInv

LEMMA ReadMetaInv ==
  ASSUME FlushBatch # 0, IInv, ReadMeta
  PROVE  IInv'
<1>1. UNCHANGED <<nvs, version, ghosts>>
  BY DEF ReadMeta, env
<1>2. TypeOK'
  BY DEF IInv, TypeOK, ReadMeta, InitPc, nvs, ghosts, env
<1>3. RecordsSane' /\ FlashQueue' /\ Readable' = Readable
  BY <1>1, FlashUnchanged
<1>4. RamQueue'
  BY DEF ReadMeta, RamQueue, CallPc
<1>5. BootQueue'
  <2>1. CASE pc' = "findNewest"
    BY <2>1 DEF ReadMeta, BootQueue, nvs
  <2>2. CASE pc' = "clear"
    <3>1. nv_meta # NoMeta /\ ~(Compatible(nv_meta) /\ Plausible(nv_meta))
      BY <2>2 DEF ReadMeta
    <3>2. ~Readable
      BY <3>1, FlashFacts DEF Readable, Compatible
    <3>3. QED
      BY <1>1, <1>3, <2>2, <3>1, <3>2 DEF BootQueue, nvs
  <2>3. CASE pc' = "scan"
    <3>1. nv_meta # NoMeta /\ Compatible(nv_meta) /\ meta' = nv_meta
      BY <2>3 DEF ReadMeta
    <3>2. Readable' /\ meta' = nv_meta'
      BY <1>1, <3>1 DEF Readable, Compatible, nvs
    <3>3. QED
      BY <2>3, <3>2 DEF BootQueue
  <2>4. QED
    BY <2>1, <2>2, <2>3 DEF ReadMeta
<1>6. QED
  BY <1>2, <1>3, <1>4, <1>5 DEF IInv

LEMMA ClearInv ==
  ASSUME FlushBatch # 0, IInv, Clear
  PROVE  IInv'
<1>1. TypeOK'
  BY ResetMetaType DEF IInv, TypeOK, Clear, InitPc, env
<1>2. ~Readable'
  BY DEF Clear, Readable
<1>3. RecordsSane' /\ FlashQueue'
  BY <1>2 DEF Clear, RecordsSane, FlashQueue, Slot
<1>4. ResetMeta' = ResetMeta
  BY DEF Clear, ResetMeta, env
<1>5. BootQueue' /\ RamQueue'
  BY <1>4 DEF Clear, BootQueue, RamQueue, CallPc
<1>6. QED
  BY <1>1, <1>3, <1>5 DEF IInv

LEMMA ClearStopsInv ==
  ASSUME FlushBatch # 0, IInv, ClearStops
  PROVE  IInv'
<1>1. TypeOK'
  <2>1. nv_blocks' \in [Slot -> Block \union {NoBlock}]
    BY DEF IInv, TypeOK, ClearStops, SomeRecordsGo, PowerFails
  <2>2. nv_meta' \in Meta \union {NoMeta}
    BY DEF IInv, TypeOK, ClearStops, SomeRecordsGo, PowerFails
  <2>3. faults' \in SUBSET FaultBit
    BY DEF IInv, TypeOK, ClearStops, SomeRecordsGo, PowerFails, FaultBit
  <2>5. budget' \in Nat /\ resets' \in Nat
    BY DEF IInv, TypeOK, ClearStops, SomeRecordsGo, PowerFails, NvsFails
  <2>4. QED
    BY <2>1, <2>2, <2>3, <2>5, ResetMetaType
    DEF IInv, TypeOK, ClearStops, SomeRecordsGo, InitError, ghosts, InitPc
<1>2. ~Readable
  BY DEF IInv, BootQueue, ClearStops
<1>3. UNCHANGED <<version, ghosts>>
  BY DEF ClearStops, ghosts
<1>4. nv_meta' = nv_meta \/ nv_meta' = NoMeta
  BY DEF ClearStops, SomeRecordsGo
<1>5. ~Readable'
  BY <1>2, <1>3, <1>4 DEF Readable
<1>6. \A i \in Slot : nv_blocks'[i] = nv_blocks[i] \/ nv_blocks'[i] = NoBlock
  BY DEF ClearStops, SomeRecordsGo
<1>7. \A i \in Slot : nv_blocks'[i] # NoBlock =>
        nv_blocks'[i].version <= version /\ nv_blocks'[i].version # version
  BY <1>2, <1>6 DEF IInv, RecordsSane
<1>8. RecordsSane'
  BY <1>2, <1>3, <1>4, <1>7 DEF IInv, RecordsSane, ghosts
<1>9. FlashQueue'
  BY <1>5 DEF FlashQueue
<1>10. BootQueue' /\ RamQueue'
  BY DownQueues DEF ClearStops, InitError
<1>11. QED
  BY <1>1, <1>8, <1>9, <1>10 DEF IInv

LEMMA FindNewestInv ==
  ASSUME FlushBatch # 0, IInv, FindNewest
  PROVE  IInv'
<1>1. UNCHANGED <<nvs, version, ghosts>>
  BY DEF FindNewest, env
<1>2. nv_meta = NoMeta /\ ~Readable
  BY DEF IInv, BootQueue, FindNewest, Readable
<1>3. \A i \in Slot : ~RecordValid(nv_blocks[i])
  BY <1>2 DEF IInv, RecordsSane, RecordValid
<1>4. meta' = ResetMeta /\ pc' = "saveMeta"
  BY <1>3 DEF FindNewest
<1>5. TypeOK'
  BY <1>4, ResetMetaType
  DEF IInv, TypeOK, FindNewest, InitPc, nvs, ghosts, env
<1>6. ResetMeta' = ResetMeta
  BY <1>1 DEF ResetMeta
<1>7. BootQueue' /\ RamQueue'
  BY <1>1, <1>2, <1>4, <1>6 DEF BootQueue, RamQueue, CallPc, nvs
<1>8. QED
  BY <1>1, <1>5, <1>7, FlashUnchanged DEF IInv

LEMMA SaveRebuiltInv ==
  ASSUME FlushBatch # 0, IInv, SaveRebuilt
  PROVE  IInv'
<1>1. /\ nv_meta = NoMeta /\ meta = ResetMeta /\ ~Readable
      /\ meta \in Meta /\ version \in Nat
      /\ tail = 0 /\ reached = 0
  BY DEF IInv, TypeOK, BootQueue, RecordsSane, SaveRebuilt, Readable
<1>2. meta.pending_blocks = 0 /\ meta.version = version
  BY <1>1 DEF ResetMeta
<1>3. EndOf(meta) = 0 /\ HeadOf(meta) = 0
  BY <1>1, <1>2 DEF EndOf, HeadOf
<1>4. CASE SaveOk(meta) /\ pc' = "scan"
    /\ faults' = faults \ {"meta"} /\ tail' = EndOf(meta) /\ reached' = HeadOf(meta)
  <2>1. /\ UNCHANGED <<nv_blocks, version>>
        /\ nv_meta' = meta /\ meta' = meta /\ tail' = 0 /\ reached' = 0
    BY <1>3, <1>4 DEF SaveRebuilt, SaveOk
  <2>2. TypeOK'
    BY <1>1, <1>4, <2>1
    DEF IInv, TypeOK, SaveRebuilt, SaveOk, NvsOk, InitPc, FaultBit
  <2>3. Readable'
    BY <1>1, <1>2, <2>1, SentinelAssumption DEF Readable
  <2>4. /\ Queued(ResetMeta, nv_blocks, 0, version)
        /\ Head(ResetMeta, nv_blocks, 0) = 0
    BY <1>1, QueueEmpty
  <2>5. NothingAhead(ResetMeta, nv_blocks, 0, version)
    BY <1>1 DEF IInv, RecordsSane, NothingAhead
  <2>6. FlashQueue'
    BY <1>1, <2>1, <2>4, <2>5, FlushBatchAssumption, CapacityAssumption
    DEF FlashQueue
  <2>7. RecordsSane'
    BY <1>1, <1>2, <2>1, <2>3 DEF IInv, RecordsSane
  <2>8. BootQueue' /\ RamQueue'
    BY <1>4, <2>1, <2>3 DEF BootQueue, RamQueue, CallPc
  <2>9. QED
    BY <2>2, <2>6, <2>7, <2>8 DEF IInv
<1>5. CASE NvsFails /\ InitError /\ UNCHANGED <<nv_meta, ghosts>>
    /\ faults' = faults \union {"meta", "init"}
  <2>1. UNCHANGED <<nvs, version, ghosts>> /\ pc' = "down"
    BY <1>5 DEF SaveRebuilt, InitError, nvs
  <2>2. TypeOK'
    <3>1. faults' \in SUBSET FaultBit
      BY <1>5 DEF IInv, TypeOK, FaultBit
    <3>2. budget' \in Nat
      BY <1>5 DEF IInv, TypeOK, NvsFails
    <3>3. QED
      BY <1>5, <3>1, <3>2, ResetMetaType
      DEF IInv, TypeOK, SaveRebuilt, InitError, ghosts, InitPc
  <2>3. QED
    BY <2>1, <2>2, FlashUnchanged, DownQueues DEF IInv
<1>6. QED
  BY <1>4, <1>5 DEF SaveRebuilt

(* The scan takes in the block of an append that was cut off, and no other *)
(* one: what it finds under the next sequence is that block.               *)
LEMMA ScanTakesInv ==
  ASSUME FlushBatch # 0, IInv, ScanTakes
  PROVE  IInv'
<1> DEFINE n == nv_meta.next_seq
<1>1. UNCHANGED <<nvs, version, ghosts>> /\ pc = "scan" /\ pc' = "scan"
  BY DEF ScanTakes, env
<1>2. Readable
  BY <1>1 DEF IInv, BootQueue
<1>3. /\ nv_meta \in Meta /\ version \in Nat /\ nv_blocks \in FlashContents
      /\ NothingAhead(nv_meta, nv_blocks, tail, version)
  BY <1>2, FlashFacts
<1>4. /\ meta \in Meta
      /\ nv_blocks[block_id(meta.next_seq)] # NoBlock
      /\ nv_blocks[block_id(meta.next_seq)].version = version
      /\ nv_blocks[block_id(meta.next_seq)].sequence = meta.next_seq
      /\ block_id(meta.next_seq) \in Slot
  BY SlotOfSequence DEF IInv, TypeOK, ScanTakes, Loadable, RecordValid, Meta
<1>5. meta = nv_meta
  <2>1. SUFFICES ASSUME meta = WithNewest(nv_meta, FlushBatch) PROVE FALSE
    BY <1>1 DEF IInv, BootQueue
  <2>2. FlushBatch \in Nat
    BY BatchStep
  <2>3. meta.next_seq = n + 1
    <3>1. nv_meta \in Meta
      BY <1>3
    <3>2. QED
      BY <2>1, <2>2, <3>1, NewestRecord
  <2>4. meta.next_seq <= n
    BY <1>3, <1>4 DEF NothingAhead
  <2>5. QED
    BY <1>3, <2>3, <2>4 DEF Meta
<1>6. Holds(nv_blocks, version, n) /\ BlockOf(n).entry_count = FlushBatch
  BY <1>3, <1>4, <1>5 DEF NothingAhead, Holds, BlockOf
<1>7. meta' = WithNewest(nv_meta, FlushBatch) /\ nv_meta.pending_blocks < BlockCount
  BY <1>5, <1>6 DEF ScanTakes
<1>8. meta' \in Meta
  <2>1. FlushBatch \in Nat
    BY BatchStep
  <2>2. QED
    BY <1>3, <1>7, <2>1, WithNewestFields, Zenon
<1>9. TypeOK'
  BY <1>8 DEF IInv, TypeOK, ScanTakes, InitPc, nvs, ghosts, env, FaultBit
<1>10. RecordsSane' /\ FlashQueue' /\ Readable'
  BY <1>1, <1>2, FlashUnchanged
<1>11. nv_meta' = nv_meta /\ nv_blocks' = nv_blocks /\ version' = version
  BY <1>1 DEF nvs
<1>12. Holds(nv_blocks', version', nv_meta'.next_seq)
  BY <1>6, <1>11
<1>13. /\ nv_meta'.pending_blocks < BlockCount
       /\ meta' = WithNewest(nv_meta', FlushBatch)
  BY <1>7, <1>11
<1>14. BootQueue' /\ RamQueue'
  BY <1>1, <1>10, <1>12, <1>13 DEF BootQueue, RamQueue, CallPc
<1>15. QED
  BY <1>9, <1>10, <1>14 DEF IInv

LEMMA ScanEndsInv ==
  ASSUME FlushBatch # 0, IInv, ScanEnds
  PROVE  IInv'
<1>1. UNCHANGED <<nvs, version, ghosts>> /\ pc = "scan" /\ meta' = meta
  BY DEF ScanEnds, env
<1>2. Readable
  BY <1>1 DEF IInv, BootQueue
<1>3. TypeOK'
  BY DEF IInv, TypeOK, ScanEnds, InitPc, CallPc, nvs, ghosts, env, FaultBit
<1>4. RecordsSane' /\ FlashQueue' /\ Readable'
  BY <1>1, <1>2, FlashUnchanged
<1>5. nv_meta' = nv_meta /\ nv_blocks' = nv_blocks
  BY <1>1 DEF nvs
<1>6. CASE meta = nv_meta /\ pc' = "ready"
  <2>1. BootQueue'
    BY <1>6 DEF BootQueue
  <2>2. /\ Queued(nv_meta, nv_blocks, tail, version)
        /\ Head(nv_meta, nv_blocks, tail) <= reached
        /\ nv_meta \in Meta
    BY <1>2, FlashFacts
  <2>3. nv_meta.oldest_offset >= nv_meta.oldest_offset
    BY <2>2 DEF Meta
  <2>4. RamQueue'
    BY <1>1, <1>4, <1>5, <1>6, <2>2, <2>3 DEF RamQueue, CallPc, ghosts
  <2>5. QED
    BY <1>3, <1>4, <2>1, <2>4 DEF IInv
<1>7. CASE meta # nv_meta /\ pc' = "saveScan"
  <2>1. /\ nv_meta.pending_blocks < BlockCount
        /\ Holds(nv_blocks, version, nv_meta.next_seq)
        /\ meta = WithNewest(nv_meta, FlushBatch)
    BY <1>1, <1>7 DEF IInv, BootQueue
  <2>2. /\ nv_meta'.pending_blocks < BlockCount
        /\ Holds(nv_blocks', version', nv_meta'.next_seq)
        /\ meta' = WithNewest(nv_meta', FlushBatch)
    BY <1>1, <1>5, <2>1
  <2>3. BootQueue' /\ RamQueue'
    BY <1>4, <1>7, <2>2 DEF BootQueue, RamQueue, CallPc
  <2>4. QED
    BY <1>3, <1>4, <2>3 DEF IInv
<1>8. QED
  BY <1>6, <1>7 DEF ScanEnds

(* The block the scan took in becomes part of the queue: its entries are   *)
(* the ones the cut-off append would have added.                           *)
LEMMA SaveScannedInv ==
  ASSUME FlushBatch # 0, IInv, SaveScanned
  PROVE  IInv'
<1> DEFINE n == nv_meta.next_seq
<1>1. /\ pc = "saveScan" /\ UNCHANGED <<nv_blocks, version, reached>>
  BY DEF SaveScanned
<1>2. Readable
  BY <1>1 DEF IInv, BootQueue
<1>3. CASE SaveOk(meta) /\ pc' = "ready" /\ tail' = EndOf(meta)
    /\ faults' = faults \ {"meta", "init"}
  <2>1. /\ nv_meta \in Meta /\ version \in Nat /\ nv_blocks \in FlashContents
        /\ Queued(nv_meta, nv_blocks, tail, version)
        /\ NothingAhead(nv_meta, nv_blocks, tail, version)
        /\ tail \in Nat /\ reached \in Nat /\ FlushBatch \in Nat
        /\ Head(nv_meta, nv_blocks, tail) <= reached
        /\ reached < Head(nv_meta, nv_blocks, tail) + FlushBatch
    BY <1>2, FlashFacts, BatchStep
  <2>2. CASE meta = WithNewest(nv_meta, FlushBatch)
             /\ nv_meta.pending_blocks < BlockCount
             /\ Holds(nv_blocks, version, n)
    <3>1. /\ block_id(n) \in Slot
          /\ nv_blocks[block_id(n)].first = tail
          /\ nv_blocks[block_id(n)].entry_count = FlushBatch
      BY <2>1, <2>2, SlotOfSequence DEF NothingAhead, Holds, Meta
    <3>2. /\ Queued(meta, nv_blocks, tail + FlushBatch, version)
          /\ Head(meta, nv_blocks, tail + FlushBatch) = Head(nv_meta, nv_blocks, tail)
          /\ meta.pending_blocks = nv_meta.pending_blocks + 1
          /\ meta.next_seq = n + 1
          /\ meta.version = nv_meta.version
      BY <2>1, <2>2, <3>1, QueueAdd
    <3>3. EndOf(meta) = tail + FlushBatch
      <4>1. meta.next_seq - 1 = n /\ meta.pending_blocks # 0
        BY <2>1, <3>2 DEF Meta
      <4>2. QED
        BY <3>1, <4>1 DEF EndOf, BlockOf
    <3>4. /\ nv_meta' = meta /\ meta' = meta /\ tail' = tail + FlushBatch
      BY <1>3, <3>3 DEF SaveOk
    <3>5. TypeOK'
      <4>1. faults' \in SUBSET FaultBit
        BY <1>3 DEF IInv, TypeOK, FaultBit
      <4>2. tail' \in Nat
        BY <2>1, <3>4
      <4>3. QED
        BY <1>3, <3>4, <4>1, <4>2
        DEF IInv, TypeOK, SaveScanned, SaveOk, NvsOk
    <3>6. NothingAhead(meta, nv_blocks, tail + FlushBatch, version)
      BY <2>1, <3>2 DEF NothingAhead, Meta, FlashContents, Block
    <3>7. meta # NoMeta /\ meta \in Meta
      BY SentinelAssumption DEF IInv, TypeOK
    <3>8. Readable'
      BY <1>1, <1>2, <3>2, <3>4, <3>7 DEF Readable
    <3>9. RecordsSane'
      BY <1>1, <1>2, <2>1, <3>2, <3>4, <3>8 DEF IInv, RecordsSane, Readable
    <3>10. FlashQueue'
      BY <1>1, <2>1, <3>2, <3>4, <3>6 DEF FlashQueue
    <3>11. BootQueue'
      BY <1>3 DEF BootQueue
    <3>12. meta.oldest_offset >= meta.oldest_offset
      BY <3>7 DEF Meta
    <3>13. RamQueue'
      BY <1>1, <1>3, <2>1, <3>2, <3>4, <3>8, <3>12 DEF RamQueue, CallPc
    <3>14. QED
      BY <3>5, <3>9, <3>10, <3>11, <3>13 DEF IInv
  <2>3. QED
    BY <1>1, <2>2 DEF IInv, BootQueue
<1>4. CASE NvsFails /\ InitError /\ UNCHANGED <<nv_meta, tail>>
    /\ faults' = faults \union {"meta", "init"}
  <2>1. UNCHANGED <<nvs, version, ghosts>> /\ pc' = "down"
    BY <1>1, <1>4 DEF InitError, nvs, ghosts
  <2>2. TypeOK'
    <3>1. faults' \in SUBSET FaultBit
      BY <1>4 DEF IInv, TypeOK, FaultBit
    <3>2. budget' \in Nat
      BY <1>4 DEF IInv, TypeOK, NvsFails
    <3>3. QED
      BY <1>4, <3>1, <3>2, ResetMetaType
      DEF IInv, TypeOK, SaveScanned, InitError, InitPc
  <2>3. QED
    BY <2>1, <2>2, FlashUnchanged, DownQueues DEF IInv
<1>5. QED
  BY <1>3, <1>4 DEF SaveScanned

-----------------------------------------------------------------------------
(* Every step of a call keeps the invariant.                               *)

(* A running store none of whose metadata moved.                           *)
LEMMA RamUnchanged ==
  ASSUME FlushBatch # 0, IInv, pc \in CallPc \union {"ready"},
         UNCHANGED <<nvs, meta, version, ghosts>>, pc' = "ready"
  PROVE  BootQueue' /\ RamQueue'
<1>1. BootQueue'
  BY DEF BootQueue
<1>2. /\ Readable /\ Queued(meta, nv_blocks, tail, version)
      /\ meta.pending_blocks = nv_meta.pending_blocks
      /\ meta.oldest_seq = nv_meta.oldest_seq
      /\ meta.oldest_offset >= nv_meta.oldest_offset
      /\ Head(meta, nv_blocks, tail) <= reached
  BY RamFacts
<1>3. Readable' = Readable
  BY DEF Readable, nvs
<1>4. RamQueue'
  BY <1>2, <1>3 DEF RamQueue, CallPc, nvs, ghosts
<1>5. QED
  BY <1>1, <1>4

LEMMA AppendInv ==
  ASSUME FlushBatch # 0, IInv, NEW n \in 1 .. Capacity, Append(n)
  PROVE  IInv'
<1>1. /\ pc = "ready" /\ pc' = "appendWrite"
      /\ UNCHANGED <<nvs, meta, version, ghosts>>
      /\ entry_count' = FlushBatch /\ meta.pending_blocks < BlockCount
  BY DEF Append, env
<1>2. TypeOK'
  BY CapacityAssumption
  DEF IInv, TypeOK, Append, CallPc, nvs, ghosts, env
<1>3. RecordsSane' /\ FlashQueue' /\ Readable' = Readable
  BY <1>1, FlashUnchanged
<1>4. BootQueue'
  BY <1>1 DEF BootQueue
<1>5. /\ Readable /\ Queued(meta, nv_blocks, tail, version)
      /\ meta.pending_blocks = nv_meta.pending_blocks
      /\ meta.oldest_seq = nv_meta.oldest_seq
      /\ meta.oldest_offset >= nv_meta.oldest_offset
      /\ Head(meta, nv_blocks, tail) <= reached
  BY <1>1, RamFacts
<1>6. RamQueue'
  BY <1>1, <1>3, <1>5 DEF RamQueue, CallPc, nvs, ghosts
<1>7. QED
  BY <1>2, <1>3, <1>4, <1>6 DEF IInv

(* The metadata that no longer counts the oldest block is saved: a discard *)
(* and the drop of a whole block alike.                                    *)
LEMMA RetireInv ==
  ASSUME FlushBatch # 0, IInv, pc = "ready", meta.pending_blocks > 0,
         SaveOk(WithoutOldest(FlushBatch - meta.oldest_offset)),
         reached' = BlockOf(meta.oldest_seq).first + FlushBatch,
         UNCHANGED <<nv_blocks, version, tail>>,
         retired_sequence' = meta.oldest_seq,
         \/ pc' = "discardDelete" /\ entry_count' = FlushBatch
         \/ pc' = "dropDelete",
         TypeOK'
  PROVE  IInv'
<1> DEFINE m2 == WithoutOldest(FlushBatch - meta.oldest_offset)
<1>1. /\ Readable /\ meta \in Meta
      /\ Queued(meta, nv_blocks, tail, version)
      /\ meta.next_seq = nv_meta.next_seq
      /\ NothingAhead(meta, nv_blocks, tail, version)
  BY RamFacts
<1>2. nv_blocks \in FlashContents /\ tail \in Nat /\ version \in Nat
  BY <1>1, FlashFacts
<1>3. /\ Queued(m2, nv_blocks, tail, version)
      /\ Head(m2, nv_blocks, tail)
           = nv_blocks[block_id(meta.oldest_seq)].first + FlushBatch
      /\ m2.pending_blocks = meta.pending_blocks - 1
      /\ m2.oldest_seq = meta.oldest_seq + 1
      /\ m2.next_seq = meta.next_seq
      /\ m2.version = meta.version
  BY <1>1, <1>2, QueueDropOldest
<1>4. nv_meta' = m2 /\ meta' = m2
  BY DEF SaveOk
<1> HIDE DEF m2
<1>5. m2 \in Meta /\ m2.version = version
  BY <1>3 DEF Queued
<1>6. m2 # NoMeta
  BY <1>5, SentinelAssumption
<1>7. Readable'
  BY <1>4, <1>5, <1>6 DEF Readable
<1>8. NothingAhead(m2, nv_blocks, tail, version)
  BY <1>1, <1>3 DEF NothingAhead
<1>9. /\ reached' = Head(m2, nv_blocks, tail)
      /\ reached' \in Nat
  BY <1>3 DEF BlockOf, TypeOK
<1>10. FlashQueue'
  <2>1. FlushBatch \in Nat /\ FlushBatch > 0
    BY FlushBatchAssumption
  <2>2. Head(m2, nv_blocks, tail) <= reached'
    BY <1>9
  <2>3. reached' < Head(m2, nv_blocks, tail) + FlushBatch
    BY <1>9, <2>1
  <2>4. QED
    BY <1>3, <1>4, <1>8, <2>2, <2>3 DEF FlashQueue
<1>11. RecordsSane'
  BY <1>1, <1>2, <1>4, <1>5, <1>7 DEF IInv, RecordsSane, Readable
<1>12. BootQueue'
  BY DEF BootQueue
<1>13. RamQueue'
  <2>1. m2.pending_blocks < BlockCount /\ m2.oldest_offset >= m2.oldest_offset
    BY <1>1, <1>3, <1>5, BlockCountAssumption DEF Queued, Meta
  <2>2. retired_sequence' = m2.oldest_seq - 1
    BY <1>1, <1>3 DEF Meta
  <2>3. Head(m2, nv_blocks, tail) <= reached'
    BY <1>9
  <2>4. QED
    BY <1>3, <1>4, <1>7, <2>1, <2>2, <2>3 DEF RamQueue, CallPc
<1>14. QED
  BY <1>10, <1>11, <1>12, <1>13 DEF IInv

LEMMA AppendDiscardsInv ==
  ASSUME FlushBatch # 0, IInv, NEW n \in 1 .. Capacity, AppendDiscards(n)
  PROVE  IInv'
<1>1. pc = "ready" /\ meta.pending_blocks > 0 /\ n = FlushBatch
  BY BlockCountAssumption DEF AppendDiscards, IInv, TypeOK, Meta
<1>2. /\ meta \in Meta /\ FlushBatch \in Nat
      /\ BlockOf(meta.oldest_seq) \in Block
      /\ BlockOf(meta.oldest_seq).entry_count = FlushBatch
      /\ Remaining = FlushBatch - meta.oldest_offset
      /\ Remaining \in Nat /\ Remaining <= meta.pending_entries
  BY <1>1, OldestLoadable, RamFacts, BatchStep
<1>3. CASE pc' = "discardDelete"
  <2>1. (IF Remaining < meta.pending_entries THEN Remaining
         ELSE meta.pending_entries) = FlushBatch - meta.oldest_offset
    BY <1>2 DEF Meta
  <2>2. /\ SaveOk(WithoutOldest(FlushBatch - meta.oldest_offset))
        /\ faults' = faults \ {"read", "meta"}
        /\ entry_count' = FlushBatch
        /\ retired_sequence' = meta.oldest_seq
        /\ reached' = BlockOf(meta.oldest_seq).first + FlushBatch
        /\ UNCHANGED <<nv_blocks, version, resets, tail>>
    BY <1>1, <1>2, <1>3, <2>1 DEF AppendDiscards
  <2>3. TypeOK'
    <3>1. faults' \in SUBSET FaultBit
      BY <2>2 DEF IInv, TypeOK, FaultBit
    <3>2. reached' \in Nat
      BY <1>2, <2>2 DEF Block
    <3>3. nv_meta' \in Meta /\ meta' \in Meta
      <4>1. WithoutOldest(Remaining) \in Meta
        BY <1>1, <1>2, WithoutOldestFields
      <4>2. QED
        BY <1>2, <2>2, <4>1 DEF SaveOk
    <3>4. retired_sequence' \in Int /\ entry_count' \in 0 .. Capacity
      BY <1>2, <2>2, FlushBatchAssumption, CapacityAssumption DEF Meta
    <3>5. QED
      BY <1>3, <2>2, <3>1, <3>2, <3>3, <3>4
      DEF IInv, TypeOK, SaveOk, NvsOk, CallPc
  <2>4. QED
    BY <1>1, <1>3, <2>2, <2>3, RetireInv
<1>4. CASE pc' # "discardDelete"
  <2>1. /\ UNCHANGED <<nvs, meta, meta_dirty, entry_count, retired_sequence,
                       pc, version, resets, ghosts>>
        /\ faults' \in SUBSET FaultBit /\ budget' \in Nat
    <3>1. UNCHANGED <<nvs, meta, meta_dirty, entry_count, retired_sequence,
                      pc, version, resets, ghosts>>
      BY <1>4 DEF AppendDiscards, SaveFails, nvs, ghosts
    <3>2. faults' \in SUBSET FaultBit
      BY <1>4 DEF AppendDiscards, LoadFails, IInv, TypeOK, FaultBit
    <3>3. budget' \in Nat
      BY <1>4 DEF AppendDiscards, SaveFails, LoadFails, NvsFails, NvsOk, IInv,
         TypeOK
    <3>4. QED
      BY <3>1, <3>2, <3>3
  <2>2. TypeOK'
    BY <2>1 DEF IInv, TypeOK, nvs, ghosts
  <2>3. QED
    BY <1>1, <2>1, <2>2, FlashUnchanged, RamUnchanged DEF IInv
<1>5. QED
  BY <1>3, <1>4

(* Deleting the block that was retired touches no block of the queue.      *)
LEMMA DeleteRetiredInv ==
  ASSUME FlushBatch # 0, IInv, DiscardDeletes \/ DropDeletes
  PROVE  IInv'
<1>1. /\ pc \in {"discardDelete", "dropDelete"}
      /\ \/ pc = "discardDelete" /\ pc' = "appendWrite"
         \/ pc = "dropDelete" /\ pc' = "ready"
      /\ UNCHANGED <<nv_meta, meta, meta_dirty, entry_count, version, resets,
                     ghosts>>
      /\ retired_sequence' = 0
  BY DEF DiscardDeletes, DropDeletes, DeleteRetired
<1>2. /\ Readable /\ meta \in Meta
      /\ Queued(meta, nv_blocks, tail, version)
      /\ meta.oldest_seq = nv_meta.oldest_seq
      /\ meta.next_seq = nv_meta.next_seq
      /\ meta.pending_blocks = nv_meta.pending_blocks
      /\ meta.oldest_offset >= nv_meta.oldest_offset
      /\ Head(meta, nv_blocks, tail) <= reached
  BY <1>1, RamFacts DEF CallPc
<1>3. /\ retired_sequence = meta.oldest_seq - 1
      /\ meta.pending_blocks < BlockCount
      /\ pc = "discardDelete" => entry_count = FlushBatch
  BY <1>1 DEF IInv, RamQueue, CallPc
<1>4. /\ nv_blocks \in FlashContents /\ version \in Nat
      /\ Queued(nv_meta, nv_blocks, tail, version)
      /\ NothingAhead(nv_meta, nv_blocks, tail, version)
      /\ Head(nv_meta, nv_blocks, tail) <= reached
      /\ reached < Head(nv_meta, nv_blocks, tail) + FlushBatch
  BY <1>2, FlashFacts
<1> DEFINE r == block_id(retired_sequence)
<1>5. \/ nv_blocks' = [nv_blocks EXCEPT ![r] = NoBlock]
      \/ nv_blocks' = nv_blocks
  BY DEF DiscardDeletes, DropDeletes, DeleteRetired
<1>6. r \in Slot
  BY <1>2, <1>3, SlotOfSequence DEF Meta
<1>7. /\ nv_blocks' \in FlashContents
      /\ \A i \in Slot : nv_blocks'[i] = nv_blocks[i] \/ nv_blocks'[i] = NoBlock
      /\ \A i \in Slot : i # r => nv_blocks'[i] = nv_blocks[i]
  BY <1>4, <1>5, <1>6 DEF FlashContents
<1> HIDE DEF r
<1>8. ASSUME NEW s \in meta.oldest_seq .. meta.next_seq - 1
      PROVE  nv_blocks'[block_id(s)] = nv_blocks[block_id(s)]
  <2>1. block_id(s) # r
    BY <1>2, <1>3, FreeSlots DEF r
  <2>2. block_id(s) \in Slot
    BY SlotOfSequence
  <2>3. QED
    BY <1>7, <2>1, <2>2
<1>9. /\ Queued(meta, nv_blocks', tail, version)
      /\ Head(meta, nv_blocks', tail) = Head(meta, nv_blocks, tail)
  BY <1>2, <1>8, QueueFrame
<1>10. /\ Queued(nv_meta, nv_blocks', tail, version)
       /\ Head(nv_meta, nv_blocks', tail) = Head(nv_meta, nv_blocks, tail)
  BY <1>2, <1>4, <1>8, QueueFrame
<1>11. NothingAhead(nv_meta, nv_blocks', tail, version)
  BY <1>4, <1>7 DEF NothingAhead
<1>12. TypeOK'
  <2>1. faults' \in SUBSET FaultBit
    BY DEF DiscardDeletes, DropDeletes, DeleteRetired, IInv, TypeOK, FaultBit
  <2>2. budget' \in Nat
    BY DEF DiscardDeletes, DropDeletes, DeleteRetired, NvsOk, NvsFails, IInv,
       TypeOK
  <2>3. QED
    BY <1>1, <1>7, <2>1, <2>2 DEF IInv, TypeOK, FlashContents, CallPc, ghosts
<1>13. Readable' = Readable
  BY <1>1 DEF Readable
<1>14. RecordsSane'
  BY <1>1, <1>2, <1>7, <1>13 DEF IInv, RecordsSane, ghosts
<1>15. FlashQueue'
  BY <1>1, <1>4, <1>10, <1>11 DEF FlashQueue, ghosts
<1>16. BootQueue'
  BY <1>1 DEF BootQueue
<1>17. RamQueue'
  BY <1>1, <1>2, <1>3, <1>9, <1>13 DEF RamQueue, CallPc, ghosts
<1>18. QED
  BY <1>12, <1>14, <1>15, <1>16, <1>17 DEF IInv

(* The block is written to a slot no block of the queue is in.             *)
LEMMA AppendWritesInv ==
  ASSUME FlushBatch # 0, IInv, AppendWrites
  PROVE  IInv'
<1> DEFINE r == block_id(meta.next_seq)
           block == [version |-> version, sequence |-> meta.next_seq,
                     entry_count |-> entry_count, first |-> tail]
<1>1. /\ pc = "appendWrite"
      /\ UNCHANGED <<nv_meta, meta, meta_dirty, retired_sequence, version,
                     resets, ghosts>>
  BY DEF AppendWrites
<1>2. /\ Readable /\ meta \in Meta
      /\ Queued(meta, nv_blocks, tail, version)
      /\ meta.oldest_seq = nv_meta.oldest_seq
      /\ meta.next_seq = nv_meta.next_seq
      /\ meta.pending_blocks = nv_meta.pending_blocks
      /\ meta.oldest_offset >= nv_meta.oldest_offset
      /\ Head(meta, nv_blocks, tail) <= reached
  BY <1>1, RamFacts DEF CallPc
<1>3. /\ meta.pending_blocks < BlockCount
      /\ entry_count = FlushBatch
  BY <1>1 DEF IInv, RamQueue, CallPc
<1>4. /\ nv_blocks \in FlashContents /\ version \in Nat /\ tail \in Nat
      /\ Queued(nv_meta, nv_blocks, tail, version)
      /\ NothingAhead(nv_meta, nv_blocks, tail, version)
      /\ Head(nv_meta, nv_blocks, tail) <= reached
      /\ reached < Head(nv_meta, nv_blocks, tail) + FlushBatch
  BY <1>2, FlashFacts
<1>5. CASE nv_blocks' = [nv_blocks EXCEPT ![r] = block]
    /\ pc' = "appendCommit" /\ UNCHANGED <<faults, entry_count>> /\ NvsOk
  <2>1. r \in Slot
    BY <1>2, SlotOfSequence DEF Meta
  <2>2. block \in Block /\ block # NoBlock
    <3>1. FlushBatch \in Nat /\ meta.next_seq \in Nat
      BY <1>2, BatchStep DEF Meta
    <3>2. block \in Block
      BY <1>3, <1>4, <3>1 DEF Block
    <3>3. QED
      BY <3>2, SentinelAssumption
  <2>3. /\ nv_blocks' \in FlashContents
        /\ nv_blocks'[r] = block
        /\ \A i \in Slot : i # r => nv_blocks'[i] = nv_blocks[i]
    <3> HIDE DEF block, r
    <3>1. QED
      BY <1>4, <1>5, <2>1, <2>2 DEF FlashContents
  <2>4. ASSUME NEW s \in meta.oldest_seq .. meta.next_seq - 1
        PROVE  nv_blocks'[block_id(s)] = nv_blocks[block_id(s)]
    <3>1. block_id(s) # r
      BY <1>2, <1>3, FreeSlots
    <3>2. block_id(s) \in Slot
      BY SlotOfSequence
    <3>3. QED
      BY <2>3, <3>1, <3>2
  <2>5. /\ Queued(meta, nv_blocks', tail, version)
        /\ Head(meta, nv_blocks', tail) = Head(meta, nv_blocks, tail)
    BY <1>2, <2>4, QueueFrame
  <2>6. /\ Queued(nv_meta, nv_blocks', tail, version)
        /\ Head(nv_meta, nv_blocks', tail) = Head(nv_meta, nv_blocks, tail)
    BY <1>2, <1>4, <2>4, QueueFrame
  <2>7. /\ block.version = version /\ block.sequence = meta.next_seq
        /\ block.entry_count = FlushBatch /\ block.first = tail
    BY <1>3
  <2>8. Holds(nv_blocks', version, meta.next_seq)
    BY <2>2, <2>3, <2>7 DEF Holds
  <2> HIDE DEF block, r
  <2>9. NothingAhead(nv_meta, nv_blocks', tail, version)
    <3>1. ASSUME NEW i \in Slot, nv_blocks'[i] # NoBlock,
                 nv_blocks'[i].version = version
          PROVE  /\ nv_blocks'[i].sequence <= nv_meta.next_seq
                 /\ nv_blocks'[i].sequence = nv_meta.next_seq =>
                      /\ nv_blocks'[i].first = tail
                      /\ nv_blocks'[i].entry_count = FlushBatch
      <4>1. CASE i = r
        BY <1>2, <2>3, <2>7, <4>1 DEF Meta
      <4>2. CASE i # r
        BY <1>4, <2>3, <3>1, <4>2 DEF NothingAhead
      <4>3. QED
        BY <4>1, <4>2
    <3>2. QED
      BY <3>1 DEF NothingAhead
  <2>10. TypeOK'
    BY <1>1, <1>5, <2>3 DEF IInv, TypeOK, FlashContents, NvsOk, CallPc, ghosts
  <2>11. Readable' = Readable
    BY <1>1 DEF Readable
  <2>12. RecordsSane'
    <3>1. ASSUME NEW i \in Slot, nv_blocks'[i] # NoBlock
          PROVE  nv_blocks'[i].version <= version
      <4>1. CASE i = r
        BY <1>4, <2>3, <2>7, <4>1
      <4>2. CASE i # r
        <5>1. nv_blocks'[i] = nv_blocks[i]
          BY <2>3, <4>2
        <5>2. QED
          BY <3>1, <5>1 DEF IInv, RecordsSane
      <4>3. QED
        BY <4>1, <4>2
    <3>2. QED
      BY <1>1, <1>2, <2>11, <3>1 DEF IInv, RecordsSane, ghosts
  <2>13. FlashQueue'
    BY <1>1, <1>4, <2>6, <2>9 DEF FlashQueue, ghosts
  <2>14. BootQueue'
    BY <1>5 DEF BootQueue
  <2>15. RamQueue'
    BY <1>1, <1>2, <1>3, <1>5, <2>5, <2>8, <2>11 DEF RamQueue, CallPc, ghosts
  <2>16. QED
    BY <2>10, <2>12, <2>13, <2>14, <2>15 DEF IInv
<1>6. CASE NvsFails /\ faults' = faults \union {"write"} /\ entry_count' = 0
    /\ pc' = "ready" /\ UNCHANGED nv_blocks
  <2>1. UNCHANGED <<nvs, meta, version, ghosts>>
    BY <1>1, <1>6 DEF nvs
  <2>2. TypeOK'
    <3>1. faults' \in SUBSET FaultBit
      BY <1>6 DEF IInv, TypeOK, FaultBit
    <3>2. budget' \in Nat
      BY <1>6 DEF IInv, TypeOK, NvsFails
    <3>3. QED
      BY <1>1, <1>6, <3>1, <3>2, CapacityAssumption DEF IInv, TypeOK, ghosts
  <2>3. QED
    BY <1>1, <1>6, <2>1, <2>2, FlashUnchanged, RamUnchanged DEF IInv, CallPc
<1>7. QED
  BY <1>5, <1>6 DEF AppendWrites

(* The metadata that counts the written block is saved.                    *)
LEMMA AppendCommitsInv ==
  ASSUME FlushBatch # 0, IInv, AppendCommits
  PROVE  IInv'
<1> DEFINE m2 == WithNewest(meta, entry_count)
<1>1. /\ pc = "appendCommit" /\ pc' = "ready" /\ entry_count' = 0
      /\ UNCHANGED <<nv_blocks, retired_sequence, version, resets, reached>>
  BY DEF AppendCommits
<1>2. /\ Readable /\ meta \in Meta
      /\ Queued(meta, nv_blocks, tail, version)
      /\ NothingAhead(meta, nv_blocks, tail, version)
      /\ Head(meta, nv_blocks, tail) <= reached
      /\ reached < Head(meta, nv_blocks, tail) + FlushBatch
  BY <1>1, RamFacts DEF CallPc
<1>3. /\ meta.pending_blocks < BlockCount
      /\ entry_count = FlushBatch
      /\ Holds(nv_blocks, version, meta.next_seq)
  BY <1>1 DEF IInv, RamQueue, CallPc
<1>4. /\ nv_blocks \in FlashContents /\ version \in Nat /\ tail \in Nat
      /\ FlushBatch \in Nat
  BY <1>2, FlashFacts, BatchStep
<1>5. CASE SaveOk(m2) /\ tail' = tail + entry_count
    /\ faults' = faults \ {"meta", "write"}
  <2>1. /\ m2 = WithNewest(meta, FlushBatch)
        /\ nv_meta' = m2 /\ meta' = m2 /\ tail' = tail + FlushBatch
    BY <1>3, <1>5 DEF SaveOk
  <2>2. nv_blocks[block_id(meta.next_seq)].first = tail
    BY <1>2, <1>3, SlotOfSequence DEF NothingAhead, Holds, Meta
  <2> HIDE DEF m2
  <2>3. /\ Queued(m2, nv_blocks, tail + FlushBatch, version)
        /\ Head(m2, nv_blocks, tail + FlushBatch) = Head(meta, nv_blocks, tail)
        /\ m2.next_seq = meta.next_seq + 1
    BY <1>2, <1>3, <1>4, <2>1, <2>2, QueueAdd
  <2>4. m2 \in Meta /\ m2.version = version /\ m2 # NoMeta
    BY <2>3, SentinelAssumption DEF Queued
  <2>5. NothingAhead(m2, nv_blocks, tail + FlushBatch, version)
    BY <1>2, <1>4, <2>3 DEF NothingAhead, Meta, FlashContents, Block
  <2>6. TypeOK'
    <3>1. faults' \in SUBSET FaultBit
      BY <1>5 DEF IInv, TypeOK, FaultBit
    <3>2. tail' \in Nat /\ 0 \in 0 .. Capacity
      BY <1>4, <2>1, CapacityAssumption
    <3>3. QED
      BY <1>1, <1>5, <2>1, <2>4, <3>1, <3>2 DEF IInv, TypeOK, SaveOk, NvsOk
  <2>7. Readable'
    BY <1>1, <2>1, <2>4 DEF Readable
  <2>8. RecordsSane'
    BY <1>1, <1>2, <1>4, <2>1, <2>4, <2>7 DEF IInv, RecordsSane, Readable
  <2>9. FlashQueue'
    BY <1>1, <1>2, <2>1, <2>3, <2>5 DEF FlashQueue
  <2>10. BootQueue'
    BY <1>1 DEF BootQueue
  <2>11. m2.oldest_offset >= m2.oldest_offset
    BY <2>4 DEF Meta
  <2>12. RamQueue'
    BY <1>1, <1>2, <2>1, <2>3, <2>7, <2>11 DEF RamQueue, CallPc
  <2>13. QED
    BY <2>6, <2>8, <2>9, <2>10, <2>12 DEF IInv
<1>6. CASE SaveFails /\ UNCHANGED tail /\ faults' = faults \union {"meta", "write"}
  <2>1. UNCHANGED <<nvs, meta, version, ghosts>>
    BY <1>1, <1>6 DEF SaveFails, nvs, ghosts
  <2>2. TypeOK'
    <3>1. faults' \in SUBSET FaultBit
      BY <1>6 DEF IInv, TypeOK, FaultBit
    <3>2. budget' \in Nat
      BY <1>6 DEF IInv, TypeOK, SaveFails, NvsFails
    <3>3. QED
      BY <1>1, <1>6, <3>1, <3>2, CapacityAssumption DEF IInv, TypeOK, SaveFails
  <2>3. QED
    BY <1>1, <2>1, <2>2, FlashUnchanged, RamUnchanged DEF IInv, CallPc
<1>7. QED
  BY <1>5, <1>6 DEF AppendCommits

LEMMA PeekInv ==
  ASSUME FlushBatch # 0, IInv, Peek
  PROVE  IInv'
<1>1. /\ pc = "ready" /\ UNCHANGED <<nvs, meta, meta_dirty, pc, entry_count,
                     retired_sequence, version, resets, ghosts>>
  BY DEF Peek
<1>2. TypeOK'
  <2>1. faults' \in SUBSET FaultBit
    BY DEF Peek, LoadFails, IInv, TypeOK, FaultBit
  <2>2. budget' \in Nat
    BY DEF Peek, LoadOk, LoadFails, NvsOk, NvsFails, IInv, TypeOK
  <2>3. QED
    BY <1>1, <2>1, <2>2 DEF IInv, TypeOK, nvs, ghosts
<1>3. QED
  BY <1>1, <1>2, FlashUnchanged, RamUnchanged DEF IInv

LEMMA DropSomeInv ==
  ASSUME FlushBatch # 0, IInv, NEW n \in 1 .. Capacity, DropSome(n)
  PROVE  IInv'
<1>1. /\ pc = "ready" /\ pc' = "ready" /\ meta.pending_blocks > 0
      /\ n < Remaining /\ n \in Nat
      /\ meta' = [meta EXCEPT !.pending_entries = @ - n, !.oldest_offset = @ + n]
      /\ UNCHANGED <<nvs, entry_count, retired_sequence, version, budget,
                     resets, tail>>
  <2>1. Remaining \in Int /\ pc = "ready" /\ meta.pending_blocks > 0
    BY OldestLoadable DEF DropSome
  <2>2. QED
    BY <2>1 DEF DropSome, env
<1>2. /\ Readable /\ meta \in Meta
      /\ Queued(meta, nv_blocks, tail, version)
      /\ meta.oldest_seq = nv_meta.oldest_seq
      /\ meta.pending_blocks = nv_meta.pending_blocks
      /\ meta.oldest_offset >= nv_meta.oldest_offset
      /\ Head(meta, nv_blocks, tail) \in Int
      /\ Head(meta, nv_blocks, tail) <= reached
  BY <1>1, RamFacts
<1>3. /\ nv_blocks \in FlashContents /\ tail \in Nat /\ FlushBatch \in Nat
      /\ nv_meta \in Meta /\ reached \in Nat
      /\ Queued(nv_meta, nv_blocks, tail, version)
      /\ NothingAhead(nv_meta, nv_blocks, tail, version)
      /\ Head(nv_meta, nv_blocks, tail) \in Int
      /\ Head(nv_meta, nv_blocks, tail) <= reached
      /\ reached < Head(nv_meta, nv_blocks, tail) + FlushBatch
  BY <1>2, FlashFacts, BatchStep
<1>4. /\ Remaining = FlushBatch - meta.oldest_offset
      /\ Remaining <= meta.pending_entries
      /\ HeadOf(meta) = Head(meta, nv_blocks, tail)
      /\ BlockOf(meta.oldest_seq).first \in Nat
      /\ HeadOf(meta) = BlockOf(meta.oldest_seq).first + meta.oldest_offset
  BY <1>1, OldestLoadable DEF Block
<1>5. n <= meta.pending_entries /\ n < FlushBatch - meta.oldest_offset
  BY <1>1, <1>2, <1>3, <1>4 DEF Meta
<1>6. /\ meta' \in Meta
      /\ meta'.version = meta.version
      /\ meta'.pending_blocks = meta.pending_blocks
      /\ meta'.oldest_seq = meta.oldest_seq
      /\ meta'.next_seq = meta.next_seq
      /\ meta'.pending_entries = meta.pending_entries - n
      /\ meta'.oldest_offset = meta.oldest_offset + n
  BY <1>1, <1>2, <1>5, DropSomeFields, ZenonT(30)
<1>7. /\ Queued(meta', nv_blocks, tail, version)
      /\ Head(meta', nv_blocks, tail) = Head(meta, nv_blocks, tail) + n
  <2>1. n \in Nat /\ meta.pending_blocks > 0
    BY <1>1
  <2>2. QED
    BY <1>2, <1>3, <1>5, <1>6, <2>1, QueueDropSome
<1>8. reached' = IF reached < HeadOf(meta) + n THEN HeadOf(meta) + n ELSE reached
  BY DEF DropSome
<1>9. Head(nv_meta, nv_blocks, tail)
        = BlockOf(meta.oldest_seq).first + nv_meta.oldest_offset
  BY <1>1, <1>2 DEF Head, BlockOf
<1>10. /\ Head(nv_meta, nv_blocks, tail) <= reached'
       /\ reached' < Head(nv_meta, nv_blocks, tail) + FlushBatch
       /\ Head(meta', nv_blocks, tail) <= reached'
       /\ reached' \in Nat
  BY <1>1, <1>2, <1>3, <1>4, <1>5, <1>7, <1>8, <1>9 DEF Meta
<1>11. TypeOK'
  <2>1. faults' \in SUBSET FaultBit /\ meta_dirty' \in BOOLEAN
    BY DEF DropSome, IInv, TypeOK, FaultBit
  <2>2. QED
    BY <1>1, <1>6, <1>10, <2>1 DEF IInv, TypeOK, nvs
<1>12. nv_meta' = nv_meta /\ nv_blocks' = nv_blocks
  BY <1>1 DEF nvs
<1>13. Readable'
  BY <1>1, <1>2, <1>12 DEF Readable
<1>14. RecordsSane'
  BY <1>1, <1>2, <1>12, <1>13 DEF IInv, RecordsSane
<1>15. FlashQueue'
  BY <1>1, <1>3, <1>10, <1>12 DEF FlashQueue
<1>16. meta'.oldest_offset >= nv_meta.oldest_offset
  BY <1>1, <1>2, <1>3, <1>6 DEF Meta
<1>17. BootQueue' /\ RamQueue'
  BY <1>1, <1>2, <1>6, <1>7, <1>10, <1>12, <1>13, <1>16
  DEF BootQueue, RamQueue, CallPc
<1>18. QED
  BY <1>11, <1>14, <1>15, <1>17 DEF IInv

LEMMA DropBlockInv ==
  ASSUME FlushBatch # 0, IInv, DropBlock
  PROVE  IInv'
<1>1. pc = "ready" /\ meta.pending_blocks > 0
  BY DEF DropBlock
<1>2. /\ meta \in Meta /\ FlushBatch \in Nat
      /\ BlockOf(meta.oldest_seq) \in Block
      /\ Remaining = FlushBatch - meta.oldest_offset
      /\ Remaining \in Nat /\ Remaining <= meta.pending_entries
      /\ HeadOf(meta) = BlockOf(meta.oldest_seq).first + meta.oldest_offset
  BY <1>1, OldestLoadable, RamFacts, BatchStep
<1>3. CASE /\ SaveOk(WithoutOldest(Remaining))
           /\ faults' = faults \ {"read", "meta"}
           /\ retired_sequence' = meta.oldest_seq
           /\ pc' = "dropDelete"
           /\ reached' = HeadOf(meta) + Remaining
  <2>1. reached' = BlockOf(meta.oldest_seq).first + FlushBatch
    BY <1>2, <1>3 DEF Block, Meta
  <2>2. TypeOK'
    <3>1. faults' \in SUBSET FaultBit
      BY <1>3 DEF IInv, TypeOK, FaultBit
    <3>2. reached' \in Nat
      BY <1>2, <2>1 DEF Block
    <3>3. nv_meta' \in Meta /\ meta' \in Meta
      <4>1. WithoutOldest(Remaining) \in Meta
        BY <1>1, <1>2, WithoutOldestFields
      <4>2. QED
        BY <1>3, <4>1 DEF SaveOk
    <3>4. retired_sequence' \in Int
      BY <1>2, <1>3 DEF Meta
    <3>5. QED
      BY <1>3, <3>1, <3>2, <3>3, <3>4
      DEF DropBlock, IInv, TypeOK, SaveOk, NvsOk, CallPc
  <2>3. UNCHANGED <<nv_blocks, version, tail>>
    BY DEF DropBlock
  <2>4. QED
    BY <1>1, <1>2, <1>3, <2>1, <2>2, <2>3, RetireInv
<1>4. CASE SaveFails /\ UNCHANGED <<retired_sequence, pc, reached>>
           /\ faults' = (faults \ {"read"}) \union {"meta"}
  <2>1. UNCHANGED <<nvs, meta, version, ghosts>>
    BY <1>4 DEF DropBlock, SaveFails, nvs, ghosts
  <2>2. TypeOK'
    <3>1. faults' \in SUBSET FaultBit
      BY <1>4 DEF IInv, TypeOK, FaultBit
    <3>2. budget' \in Nat
      BY <1>4 DEF IInv, TypeOK, SaveFails, NvsFails
    <3>3. QED
      BY <1>4, <3>1, <3>2 DEF DropBlock, IInv, TypeOK, SaveFails
  <2>3. QED
    BY <1>1, <1>4, <2>1, <2>2, FlashUnchanged, RamUnchanged DEF IInv
<1>5. QED
  BY <1>3, <1>4 DEF DropBlock

(* After a sync a reset replays nothing that was dropped.                  *)
LEMMA SyncInv ==
  ASSUME FlushBatch # 0, IInv, Sync
  PROVE  IInv'
<1>1. /\ pc = "ready"
      /\ UNCHANGED <<nv_blocks, pc, entry_count, retired_sequence, version,
                     resets, ghosts>>
  BY DEF Sync
<1>2. /\ Readable /\ meta \in Meta
      /\ Queued(meta, nv_blocks, tail, version)
      /\ NothingAhead(meta, nv_blocks, tail, version)
      /\ Head(meta, nv_blocks, tail) <= reached
      /\ reached < Head(meta, nv_blocks, tail) + FlushBatch
  BY <1>1, RamFacts
<1>3. CASE SaveOk(meta) /\ faults' = faults \ {"meta"}
  <2>1. nv_meta' = meta /\ meta' = meta
    BY <1>3 DEF SaveOk
  <2>2. TypeOK'
    <3>1. faults' \in SUBSET FaultBit
      BY <1>3 DEF IInv, TypeOK, FaultBit
    <3>2. QED
      BY <1>1, <1>2, <1>3, <3>1 DEF IInv, TypeOK, SaveOk, NvsOk, ghosts
  <2>3. meta.version = version /\ meta # NoMeta
    BY <1>2, SentinelAssumption DEF Queued
  <2>4. Readable'
    BY <1>1, <2>1, <2>3 DEF Readable
  <2>5. version \in Nat /\ meta.oldest_offset >= meta.oldest_offset
    BY <1>2 DEF IInv, TypeOK, Meta
  <2>6. RecordsSane'
    BY <1>1, <1>2, <2>1, <2>3, <2>4, <2>5 DEF IInv, RecordsSane, Readable
  <2>7. FlashQueue'
    BY <1>1, <1>2, <2>1 DEF FlashQueue, ghosts
  <2>8. BootQueue' /\ RamQueue'
    BY <1>1, <1>2, <2>1, <2>4, <2>5 DEF BootQueue, RamQueue, CallPc, ghosts
  <2>9. QED
    BY <2>2, <2>6, <2>7, <2>8 DEF IInv
<1>4. CASE SaveFails /\ faults' = faults \union {"meta"}
  <2>1. UNCHANGED <<nvs, meta, version, ghosts>>
    BY <1>1, <1>4 DEF SaveFails, nvs
  <2>2. TypeOK'
    <3>1. faults' \in SUBSET FaultBit
      BY <1>4 DEF IInv, TypeOK, FaultBit
    <3>2. budget' \in Nat
      BY <1>4 DEF IInv, TypeOK, SaveFails, NvsFails
    <3>3. QED
      BY <1>1, <1>4, <3>1, <3>2 DEF IInv, TypeOK, SaveFails, ghosts
  <2>3. QED
    BY <1>1, <2>1, <2>2, FlashUnchanged, RamUnchanged DEF IInv
<1>5. QED
  BY <1>3, <1>4 DEF Sync

LEMMA ResetInv ==
  ASSUME FlushBatch # 0, IInv, Reset
  PROVE  IInv'
<1>1. pc' = "down" /\ UNCHANGED <<nvs, budget>>
  BY DEF Reset
<1>2. TypeOK'
  <2>1. version' \in Nat /\ resets' \in Nat /\ tail' \in Nat /\ reached' \in Nat
    BY DEF Reset, IInv, TypeOK, ghosts
  <2>2. ResetMeta' \in Meta
    BY <2>1 DEF ResetMeta, Meta
  <2>3. faults' \in SUBSET FaultBit /\ entry_count' \in 0 .. Capacity
    BY CapacityAssumption DEF Reset
  <2>4. /\ nv_blocks' \in [Slot -> Block \union {NoBlock}]
        /\ nv_meta' \in Meta \union {NoMeta}
        /\ meta' \in Meta /\ meta_dirty' \in BOOLEAN
    BY <2>2 DEF Reset, IInv, TypeOK, nvs
  <2>5. /\ pc' \in InitPc \union CallPc \union {"ready"}
        /\ retired_sequence' \in Int /\ budget' \in Nat
    BY DEF Reset, IInv, TypeOK, InitPc
  <2>6. QED
    BY <2>1, <2>3, <2>4, <2>5 DEF TypeOK
<1>3. RecordsSane' /\ FlashQueue'
  <2>1. CASE version' = version /\ UNCHANGED ghosts
    BY <1>1, <2>1, FlashUnchanged
  <2>2. CASE version' = version + 1 /\ tail' = 0 /\ reached' = 0
    <3>1. version \in Nat /\ nv_meta' = nv_meta /\ nv_blocks' = nv_blocks
      BY <1>1 DEF IInv, TypeOK, nvs
    <3>2. nv_meta # NoMeta => nv_meta.version \in Nat /\ nv_meta.version < version'
      BY <2>2, <3>1 DEF IInv, TypeOK, RecordsSane, Meta
    <3>3. \A i \in Slot : nv_blocks[i] # NoBlock =>
            nv_blocks[i].version \in Nat /\ nv_blocks[i].version < version'
      BY <2>2, <3>1 DEF IInv, TypeOK, RecordsSane, Block
    <3>4. ~Readable'
      BY <3>1, <3>2, <2>2 DEF Readable
    <3>5. QED
      BY <2>2, <3>1, <3>2, <3>3, <3>4 DEF RecordsSane, FlashQueue
  <2>3. QED
    BY <2>1, <2>2 DEF Reset
<1>4. QED
  BY <1>1, <1>2, <1>3, DownQueues DEF IInv

-----------------------------------------------------------------------------
(* The invariant holds in every reachable state.                           *)

LEMMA InitInv ==
  ASSUME FlushBatch # 0, Init
  PROVE  IInv
<1>1. TypeOK
  <2>1. ResetMeta \in Meta
    BY DEF Init, ResetMeta, Meta
  <2>2. faults \in SUBSET FaultBit /\ entry_count \in 0 .. Capacity
    BY CapacityAssumption DEF Init
  <2>3. /\ nv_blocks \in [Slot -> Block \union {NoBlock}]
        /\ nv_meta \in Meta \union {NoMeta}
        /\ meta \in Meta /\ meta_dirty \in BOOLEAN
    BY <2>1 DEF Init
  <2>4. /\ pc \in InitPc \union CallPc \union {"ready"}
        /\ retired_sequence \in Int /\ budget \in Nat
        /\ version \in Nat /\ resets \in Nat /\ tail \in Nat /\ reached \in Nat
    BY BoundsAssumption DEF Init, InitPc
  <2>5. QED
    BY <2>2, <2>3, <2>4 DEF TypeOK
<1>2. RecordsSane /\ FlashQueue
  BY DEF Init, RecordsSane, FlashQueue, Readable, Slot
<1>3. BootQueue /\ RamQueue
  BY DEF Init, BootQueue, RamQueue, CallPc
<1>4. QED
  BY <1>1, <1>2, <1>3 DEF IInv

LEMMA NextInv ==
  ASSUME FlushBatch # 0, ~EraseMayStop, IInv, [Next]_vars
  PROVE  IInv'
<1>1. CASE UNCHANGED vars
  <2>1. UNCHANGED <<nvs, version, ghosts, pc, meta>>
    BY <1>1 DEF vars, env, store
  <2>2. TypeOK'
    BY <1>1 DEF vars, nvs, store, env, ghosts, IInv, TypeOK
  <2>3. RecordsSane' /\ FlashQueue' /\ Readable' = Readable
    BY <2>1, FlashUnchanged DEF IInv
  <2>4. BootQueue' /\ RamQueue'
    BY <1>1, <2>3
    DEF IInv, BootQueue, RamQueue, vars, nvs, store, env, ghosts, ResetMeta
  <2>5. QED
    BY <2>2, <2>3, <2>4 DEF IInv
<1>2. CASE Boot
  <2>1. ~Recount /\ ~EraseStops
    BY DEF IInv, BootQueue, Recount, EraseStops
  <2>2. QED
    BY <1>2, <2>1, BootFailsInv, MountErasesInv, ReadMetaInv, ClearInv,
       ClearStopsInv, FindNewestInv, SaveRebuiltInv, ScanTakesInv, ScanEndsInv,
       SaveScannedInv DEF Boot
<1>3. CASE Call
  BY <1>3, AppendInv, AppendDiscardsInv, DropSomeInv, DeleteRetiredInv,
     AppendWritesInv, AppendCommitsInv, PeekInv, DropBlockInv, SyncInv DEF Call
<1>4. CASE Reset
  BY <1>4, ResetInv
<1>5. QED
  BY <1>1, <1>2, <1>3, <1>4 DEF Next

(* The metadata and the blocks of a batch domain keep to the invariant     *)
(* through every call, failure and reset.                                  *)
THEOREM StoreInvariant ==
  ASSUME FlushBatch # 0, ~EraseMayStop
  PROVE  Spec => []IInv
<1>1. Init => IInv
  BY InitInv
<1>2. IInv /\ [Next]_vars => IInv'
  BY NextInv
<1>3. QED
  BY <1>1, <1>2, PTL DEF Spec

(* A boot never clears data the running format wrote: the count check of   *)
(* init accepts every metadata record such a domain can have saved.        *)
THEOREM BootKeeps ==
  ASSUME FlushBatch # 0, ~EraseMayStop
  PROVE  Spec => []BootKeepsOwnData
<1>1. IInv => BootKeepsOwnData
  <2>1. SUFFICES ASSUME IInv, pc = "clear" PROVE ~Compatible(nv_meta)
    BY DEF BootKeepsOwnData
  <2>2. nv_meta # NoMeta /\ ~Readable
    BY <2>1 DEF IInv, BootQueue
  <2>3. QED
    BY <2>2 DEF Readable, Compatible
<1>2. QED
  BY <1>1, StoreInvariant, PTL

(* What a queue record means in terms of load_block.                       *)
LEMMA QueuedRun ==
  ASSUME FlushBatch # 0, NEW m, Queued(m, nv_blocks, tail, version)
  PROVE  Run(m) /\ HeadOf(m) = Head(m, nv_blocks, tail)
<1>1. m \in Meta
  BY DEF Queued
<1>2. FlushBatch \in 1 .. Capacity
  BY FlushBatchAssumption, CapacityAssumption
<1>3. HeadOf(m) = Head(m, nv_blocks, tail)
  BY DEF HeadOf, Head, BlockOf
<1>4. \A s \in m.oldest_seq .. m.next_seq - 1 :
        Loadable(s) /\ BlockOf(s).entry_count = FlushBatch
  BY <1>2 DEF Queued, Holds, Loadable, RecordValid, BlockOf
<1>5. m.pending_blocks > 0 => m.oldest_seq \in m.oldest_seq .. m.next_seq - 1
  BY <1>1 DEF Queued, Meta
<1>6. BlocksPresent(m)
  BY <1>4, <1>5 DEF BlocksPresent, Queued
<1>7. EntriesContiguous(m)
  BY <1>3, <1>4 DEF EntriesContiguous, Queued, BlockOf
<1>8. QED
  BY <1>3, <1>6, <1>7 DEF Run

(* At every instant a reset may strike, the metadata in flash counts only  *)
(* blocks that are there, in sequence and without a gap.                   *)
THEOREM CommittedPresent ==
  ASSUME FlushBatch # 0, ~EraseMayStop
  PROVE  Spec => []CommittedBlocksPresent
<1>1. IInv => CommittedBlocksPresent
  <2>1. SUFFICES ASSUME IInv, Usable(nv_meta) PROVE Run(nv_meta)
    BY DEF CommittedBlocksPresent
  <2>2. Readable
    BY <2>1 DEF Usable, Readable, Compatible
  <2>3. Queued(nv_meta, nv_blocks, tail, version)
    BY <2>1, <2>2 DEF IInv, FlashQueue
  <2>4. QED
    BY <2>3, QueuedRun
<1>2. QED
  BY <1>1, StoreInvariant, PTL

(* Between calls the count is exact and every pending block can be read.   *)
THEOREM QueueIntactHolds ==
  ASSUME FlushBatch # 0, ~EraseMayStop
  PROVE  Spec => []QueueIntact
<1>1. IInv => QueueIntact
  BY QueuedRun DEF IInv, RamQueue, QueueIntact
<1>2. QED
  BY <1>1, StoreInvariant, PTL

(* A reset skips nothing that was not dropped, and replays less than one   *)
(* block of what was.                                                      *)
THEOREM ReplayBounded ==
  ASSUME FlushBatch # 0, ~EraseMayStop
  PROVE  Spec => []BoundedReplay
<1>1. IInv => BoundedReplay
  <2>1. SUFFICES ASSUME IInv, Usable(nv_meta)
                 PROVE  /\ HeadOf(nv_meta) <= reached
                        /\ reached < HeadOf(nv_meta) + Capacity
    BY DEF BoundedReplay
  <2>2. Readable
    BY <2>1 DEF Usable, Readable, Compatible
  <2>3. /\ Queued(nv_meta, nv_blocks, tail, version)
        /\ Head(nv_meta, nv_blocks, tail) \in Int
        /\ reached \in Nat
        /\ Head(nv_meta, nv_blocks, tail) <= reached
        /\ reached < Head(nv_meta, nv_blocks, tail) + FlushBatch
    BY <2>1, <2>2, FlashFacts
  <2>4. HeadOf(nv_meta) = Head(nv_meta, nv_blocks, tail)
    BY <2>3, QueuedRun
  <2>5. QED
    BY <2>3, <2>4, FlushBatchAssumption, CapacityAssumption
<1>2. QED
  BY <1>1, StoreInvariant, PTL
-----------------------------------------------------------------------------
(* The store implements the durable queue.  A step is one of the queue's   *)
(* operations when it saves the metadata or moves the queue head in RAM;   *)
(* all others, the deletion of a retired block and the write of one not    *)
(* yet counted among them, leave the queue alone.                          *)

(* The abstract state.                                                     *)
Up == pc \notin InitPc
QueueHead == IF pc \in InitPc THEN StableHead ELSE HeadOf(meta)

Abstract == <<Up, QueueHead, tail, StableHead>>

(* What a reset restores, in terms of the invariant.                       *)
LEMMA StableMeaning ==
  ASSUME FlushBatch # 0, IInv
  PROVE  /\ Readable => StableHead = Head(nv_meta, nv_blocks, tail)
         /\ ~Readable => StableHead = 0 /\ tail = 0
<1>1. Usable(nv_meta) <=> Readable
  BY FlashFacts DEF Usable, Readable, Compatible
<1>2. HeadOf(nv_meta) = Head(nv_meta, nv_blocks, tail)
  BY DEF HeadOf, Head, BlockOf
<1>3. ~Readable => tail = 0
  BY DEF IInv, RecordsSane
<1> QED
  BY <1>1, <1>2, <1>3 DEF StableHead

LEMMA HeadMeaning ==
  HeadOf(meta) = Head(meta, nv_blocks, tail)
BY DEF HeadOf, Head, BlockOf

(* Where a store stands tells whether it serves.                           *)
LEMMA Phases ==
  ASSUME TypeOK
  PROVE  Up <=> pc \in CallPc \union {"ready"}
BY DEF TypeOK, Up, InitPc, CallPc

(* A step that leaves all of the queue where it is.                        *)
LEMMA Stutters ==
  ASSUME UNCHANGED Abstract
  PROVE  UNCHANGED Queue!dqvars
BY DEF Abstract, Up, QueueHead, Queue!dqvars

(* Nothing in flash changed, and neither did the metadata of a store that  *)
(* serves.                                                                 *)
LEMMA SameFlash ==
  ASSUME UNCHANGED <<nvs, version, tail>>
  PROVE  StableHead' = StableHead
BY DEF StableHead, Usable, Compatible, Plausible, HeadOf, BlockOf, nvs

LEMMA SameRam ==
  ASSUME UNCHANGED <<nvs, version, tail, meta>>
  PROVE  StableHead' = StableHead /\ HeadOf(meta)' = HeadOf(meta)
BY SameFlash DEF HeadOf, BlockOf, nvs

(* Metadata saved as they are in RAM are what a reset restores.            *)
LEMMA SavedHead ==
  ASSUME FlushBatch # 0, nv_blocks \in FlashContents, tail' \in Nat,
         UNCHANGED <<nv_blocks, version>>, nv_meta' = meta',
         Queued(meta', nv_blocks, tail', version)
  PROVE  /\ StableHead' = HeadOf(meta)'
         /\ HeadOf(meta)' = Head(meta', nv_blocks, tail')
<1>1. meta' \in Meta /\ meta'.version = version
  BY DEF Queued
<1>2. meta' # NoMeta
  BY <1>1, SentinelAssumption
<1>3. Plausible(meta')
  BY QueuedPlausible
<1>4. Usable(nv_meta)'
  BY <1>1, <1>2, <1>3 DEF Usable, Compatible, Plausible
<1> QED
  BY <1>4 DEF StableHead, HeadOf, Head, BlockOf

(* A boot that looks around, and a call that fails or has not saved yet.   *)
LEMMA BootStutters ==
  ASSUME pc \in InitPc, pc' \in InitPc, UNCHANGED <<nvs, version, tail>>
  PROVE  UNCHANGED Queue!dqvars
BY SameFlash, Stutters DEF Abstract, Up, QueueHead

LEMMA CallStutters ==
  ASSUME pc \notin InitPc, pc' \notin InitPc,
         UNCHANGED <<nvs, version, tail, meta>>
  PROVE  UNCHANGED Queue!dqvars
BY SameRam, Stutters DEF Abstract, Up, QueueHead

(* A partition that has no metadata of the running format.                 *)
LEMMA FormatStep ==
  ASSUME ~Up', tail' = 0, StableHead' = 0
  PROVE  Queue!Format
BY DEF Up, Queue!Format

-----------------------------------------------------------------------------
(* Boot.                                                                   *)

LEMMA QuietBoot ==
  ASSUME FlushBatch # 0, IInv,
         InitFails \/ ReadMeta \/ FindNewest \/ ScanTakes \/ ScanFails
  PROVE  UNCHANGED Queue!dqvars
<1>1. CASE InitFails
  BY <1>1, BootStutters DEF InitFails, InitError, ghosts, InitPc
<1>2. CASE ReadMeta
  BY <1>2, BootStutters DEF ReadMeta, env, ghosts, InitPc
<1>3. CASE FindNewest
  BY <1>3, BootStutters DEF FindNewest, env, ghosts, InitPc
<1>4. CASE ScanTakes
  BY <1>4, BootStutters DEF ScanTakes, env, ghosts, InitPc
<1>5. CASE ScanFails
  BY <1>5, BootStutters DEF ScanFails, InitError, ghosts, InitPc
<1> QED
  BY <1>1, <1>2, <1>3, <1>4, <1>5

(* The partition is erased, because it does not mount or is of another     *)
(* format.                                                                 *)
LEMMA ErasingBoot ==
  ASSUME MountErases \/ Clear
  PROVE  Queue!Format
<1>1. nv_meta' = NoMeta /\ pc' \in InitPc /\ tail' = 0
  BY DEF MountErases, Clear, InitPc
<1>2. StableHead' = 0
  BY <1>1 DEF StableHead, Usable
<1> QED
  BY <1>1, <1>2, FormatStep DEF Up

(* An erasure that stops leaves nothing the running format can read.       *)
LEMMA StoppedErasure ==
  ASSUME FlushBatch # 0, IInv, ClearStops
  PROVE  UNCHANGED Queue!dqvars
<1>1. ~Readable /\ nv_meta # NoMeta
  BY DEF IInv, BootQueue, ClearStops
<1>2. StableHead = 0
  BY <1>1, StableMeaning
<1>3. StableHead' = 0
  BY <1>1 DEF StableHead, Usable, Compatible, Readable, ClearStops, SomeRecordsGo
<1>4. pc \in InitPc /\ pc' \in InitPc /\ tail' = tail
  BY DEF ClearStops, InitError, InitPc, ghosts
<1> QED
  BY <1>2, <1>3, <1>4, Stutters DEF Abstract, Up, QueueHead

LEMMA SaveRebuiltStutters ==
  ASSUME FlushBatch # 0, IInv, SaveRebuilt
  PROVE  UNCHANGED Queue!dqvars
<1>1. /\ pc = "saveMeta" /\ nv_meta = NoMeta /\ meta = ResetMeta /\ ~Readable
      /\ tail = 0 /\ StableHead = 0
  BY StableMeaning DEF IInv, BootQueue, SaveRebuilt, Readable
<1>2. CASE SaveOk(meta) /\ pc' = "scan" /\ tail' = EndOf(meta)
  <2>1. tail' = 0 /\ nv_meta' = meta
    BY <1>1, <1>2 DEF EndOf, ResetMeta, SaveOk
  <2>2. StableHead' = 0
    BY <1>1, <2>1 DEF StableHead, HeadOf, ResetMeta
  <2> QED
    BY <1>1, <1>2, <2>1, <2>2, Stutters DEF Abstract, Up, QueueHead, InitPc
<1>3. CASE NvsFails /\ InitError /\ UNCHANGED <<nv_meta, ghosts>>
  BY <1>1, <1>3, BootStutters DEF SaveRebuilt, InitError, InitPc, nvs, ghosts
<1> QED
  BY <1>2, <1>3 DEF SaveRebuilt

(* The scan is over: the queue is as it was in flash.                      *)
LEMMA ScanEndsStarts ==
  ASSUME FlushBatch # 0, IInv, ScanEnds
  PROVE  Queue!Start(0) \/ UNCHANGED Queue!dqvars
<1>1. /\ pc = "scan" /\ UNCHANGED <<nvs, meta, version, tail>>
  BY DEF ScanEnds, env, ghosts
<1>2. Readable /\ tail \in Nat
  BY <1>1 DEF IInv, TypeOK, BootQueue
<1>3. StableHead' = StableHead /\ HeadOf(meta)' = HeadOf(meta)
  BY <1>1, SameRam
<1>4. CASE meta = nv_meta /\ pc' = "ready"
  <2>1. HeadOf(meta) = StableHead
    BY <1>2, <1>4, StableMeaning, HeadMeaning
  <2> QED
    BY <1>1, <1>2, <1>3, <1>4, <2>1 DEF InitPc, Queue!Start
<1>5. CASE pc' = "saveScan"
  BY <1>1, <1>5, BootStutters DEF InitPc
<1> QED
  BY <1>4, <1>5 DEF ScanEnds

(* The block that the scan took in turns out to have been accepted.        *)
LEMMA SaveScannedStarts ==
  ASSUME FlushBatch # 0, IInv, SaveScanned
  PROVE  Queue!Start(FlushBatch) \/ UNCHANGED Queue!dqvars
<1> DEFINE n == nv_meta.next_seq
<1>1. /\ pc = "saveScan" /\ UNCHANGED <<nv_blocks, version>> /\ Readable
      /\ meta = WithNewest(nv_meta, FlushBatch)
      /\ nv_meta.pending_blocks < BlockCount
      /\ Holds(nv_blocks, version, n)
  BY DEF SaveScanned, IInv, BootQueue
<1>2. CASE SaveOk(meta) /\ pc' = "ready" /\ tail' = EndOf(meta)
  <2>1. /\ nv_meta \in Meta /\ nv_blocks \in FlashContents
        /\ Queued(nv_meta, nv_blocks, tail, version)
        /\ NothingAhead(nv_meta, nv_blocks, tail, version)
        /\ tail \in Nat /\ FlushBatch \in Nat
    BY <1>1, FlashFacts, BatchStep
  <2>2. /\ nv_blocks[block_id(n)].first = tail
        /\ nv_blocks[block_id(n)].entry_count = FlushBatch
    BY <1>1, <2>1, SlotOfSequence DEF NothingAhead, Holds, Meta
  <2>3. /\ Head(meta, nv_blocks, tail + FlushBatch) = Head(nv_meta, nv_blocks, tail)
        /\ meta.pending_blocks = nv_meta.pending_blocks + 1
        /\ meta.next_seq = n + 1
    BY <1>1, <2>1, <2>2, QueueAdd
  <2>4. tail' = tail + FlushBatch
    <3>1. meta.next_seq - 1 = n /\ meta.pending_blocks # 0
      BY <2>1, <2>3 DEF Meta
    <3> QED
      BY <1>2, <2>2, <3>1 DEF EndOf, BlockOf
  <2>5. nv_meta' = meta /\ meta' = meta
    BY <1>2 DEF SaveOk
  <2>6. HeadOf(meta)' = Head(nv_meta, nv_blocks, tail)
    BY <1>1, <2>3, <2>4, <2>5 DEF HeadOf, Head, BlockOf
  <2>7. StableHead' = HeadOf(meta)'
    <3>1. Queued(meta', nv_blocks, tail', version) /\ tail' \in Nat
      BY <1>1, <2>1, <2>2, <2>4, <2>5, QueueAdd
    <3> QED
      BY <1>1, <2>1, <2>5, <3>1, SavedHead
  <2>8. StableHead = Head(nv_meta, nv_blocks, tail)
    BY <1>1, StableMeaning
  <2> QED
    BY <1>1, <1>2, <2>4, <2>6, <2>7, <2>8 DEF InitPc, Queue!Start
<1>3. CASE NvsFails /\ InitError /\ UNCHANGED <<nv_meta, tail>>
  BY <1>1, <1>3, BootStutters DEF InitError, InitPc, nvs
<1> QED
  BY <1>2, <1>3 DEF SaveScanned

-----------------------------------------------------------------------------
(* Calls.                                                                  *)

LEMMA QuietCall ==
  ASSUME FlushBatch # 0, IInv,
         (\E n \in 1 .. Capacity : Append(n)) \/ Peek
  PROVE  UNCHANGED Queue!dqvars
<1>1. CASE \E n \in 1 .. Capacity : Append(n)
  BY <1>1, CallStutters DEF Append, env, ghosts, InitPc
<1>2. CASE Peek
  BY <1>2, CallStutters DEF Peek, ghosts, InitPc
<1> QED
  BY <1>1, <1>2

(* Neither the deletion of a retired block nor the write of one that is    *)
(* not counted yet touches a block of the queue.                           *)
LEMMA OtherSlots ==
  ASSUME FlushBatch # 0, IInv, pc \notin InitPc, pc' \notin InitPc,
         UNCHANGED <<nv_meta, meta, version, tail>>,
         \A s \in meta.oldest_seq .. meta.next_seq - 1 :
           nv_blocks'[block_id(s)] = nv_blocks[block_id(s)]
  PROVE  UNCHANGED Queue!dqvars
<1>1. pc \in CallPc \union {"ready"}
  BY Phases DEF IInv, Up
<1>2. /\ Queued(meta, nv_blocks, tail, version)
      /\ meta.oldest_seq = nv_meta.oldest_seq
      /\ meta.next_seq = nv_meta.next_seq
      /\ Readable
  BY <1>1, RamFacts
<1>3. Queued(nv_meta, nv_blocks, tail, version)
  BY <1>2, FlashFacts
<1>4. /\ Head(meta, nv_blocks', tail) = Head(meta, nv_blocks, tail)
      /\ Head(nv_meta, nv_blocks', tail) = Head(nv_meta, nv_blocks, tail)
  BY <1>2, <1>3, QueueFrame
<1>5. HeadOf(meta)' = HeadOf(meta) /\ HeadOf(nv_meta)' = HeadOf(nv_meta)
  BY <1>4 DEF HeadOf, Head, BlockOf
<1>6. StableHead' = StableHead
  BY <1>5 DEF StableHead, Usable, Compatible, Plausible
<1> QED
  BY <1>5, <1>6, Stutters DEF Abstract, Up, QueueHead

LEMMA DeletesStutter ==
  ASSUME FlushBatch # 0, IInv, DiscardDeletes \/ DropDeletes
  PROVE  UNCHANGED Queue!dqvars
<1>1. /\ pc \in {"discardDelete", "dropDelete"}
      /\ pc' \in {"appendWrite", "ready"}
      /\ UNCHANGED <<nv_meta, meta, version, tail>>
      /\ \/ nv_blocks' = [nv_blocks EXCEPT ![block_id(retired_sequence)] = NoBlock]
         \/ nv_blocks' = nv_blocks
  BY DEF DiscardDeletes, DropDeletes, DeleteRetired, ghosts
<1>2. Queued(meta, nv_blocks, tail, version) /\ nv_blocks \in FlashContents
  BY <1>1, RamFacts, FlashFacts DEF CallPc
<1>3. /\ retired_sequence = meta.oldest_seq - 1
      /\ meta.pending_blocks < BlockCount
  BY <1>1 DEF IInv, RamQueue, CallPc
<1>4. ASSUME NEW s \in meta.oldest_seq .. meta.next_seq - 1
      PROVE  nv_blocks'[block_id(s)] = nv_blocks[block_id(s)]
  <2>1. block_id(s) # block_id(retired_sequence)
    BY <1>2, <1>3, FreeSlots
  <2> QED
    BY <1>1, <1>2, <2>1, SlotOfSequence DEF FlashContents
<1> QED
  BY <1>1, <1>4, OtherSlots DEF InitPc

LEMMA WriteStutters ==
  ASSUME FlushBatch # 0, IInv, AppendWrites
  PROVE  UNCHANGED Queue!dqvars
<1>1. /\ pc = "appendWrite" /\ pc' \in {"appendCommit", "ready"}
      /\ UNCHANGED <<nv_meta, meta, version, tail>>
      /\ \/ nv_blocks' = nv_blocks
         \/ \E block : nv_blocks' = [nv_blocks EXCEPT ![block_id(meta.next_seq)] = block]
  BY DEF AppendWrites, ghosts
<1>2. Queued(meta, nv_blocks, tail, version) /\ nv_blocks \in FlashContents
  BY <1>1, RamFacts, FlashFacts DEF CallPc
<1>3. meta.pending_blocks < BlockCount
  BY <1>1 DEF IInv, RamQueue, CallPc
<1>4. ASSUME NEW s \in meta.oldest_seq .. meta.next_seq - 1
      PROVE  nv_blocks'[block_id(s)] = nv_blocks[block_id(s)]
  <2>1. block_id(s) # block_id(meta.next_seq)
    BY <1>2, <1>3, FreeSlots
  <2> QED
    BY <1>1, <1>2, <2>1, SlotOfSequence DEF FlashContents
<1> QED
  BY <1>1, <1>4, OtherSlots DEF InitPc

(* Entries are accepted when the metadata that count them are saved.       *)
LEMMA CommitAppends ==
  ASSUME FlushBatch # 0, IInv, AppendCommits
  PROVE  Queue!Append(FlushBatch) \/ UNCHANGED Queue!dqvars
<1>1. /\ pc = "appendCommit" /\ pc' = "ready"
      /\ UNCHANGED <<nv_blocks, version>>
  BY DEF AppendCommits
<1>2. /\ Queued(meta, nv_blocks, tail, version)
      /\ NothingAhead(meta, nv_blocks, tail, version)
      /\ nv_blocks \in FlashContents /\ tail \in Nat /\ FlushBatch \in Nat
  BY <1>1, RamFacts, FlashFacts, BatchStep DEF CallPc
<1>3. /\ meta.pending_blocks < BlockCount
      /\ entry_count = FlushBatch
      /\ Holds(nv_blocks, version, meta.next_seq)
  BY <1>1 DEF IInv, RamQueue, CallPc
<1>4. CASE SaveOk(WithNewest(meta, entry_count)) /\ tail' = tail + entry_count
  <2>1. nv_blocks[block_id(meta.next_seq)].first = tail
    BY <1>2, <1>3, SlotOfSequence DEF NothingAhead, Holds, Queued, Meta
  <2>2. /\ meta' = WithNewest(meta, FlushBatch) /\ nv_meta' = meta'
        /\ tail' = tail + FlushBatch /\ tail' \in Nat
    BY <1>2, <1>3, <1>4 DEF SaveOk
  <2>3. /\ Queued(meta', nv_blocks, tail', version)
        /\ Head(meta', nv_blocks, tail') = Head(meta, nv_blocks, tail)
    BY <1>2, <1>3, <2>1, <2>2, QueueAdd
  <2>4. StableHead' = HeadOf(meta)' /\ HeadOf(meta)' = HeadOf(meta)
    BY <1>1, <1>2, <2>2, <2>3, SavedHead, HeadMeaning
  <2> QED
    BY <1>1, <2>2, <2>4 DEF InitPc, Queue!Append
<1>5. CASE SaveFails /\ UNCHANGED tail
  BY <1>1, <1>5, CallStutters DEF SaveFails, InitPc, nvs
<1> QED
  BY <1>4, <1>5 DEF AppendCommits

(* The oldest block leaves the queue when the metadata without it are      *)
(* saved.                                                                  *)
LEMMA RetireMoves ==
  ASSUME FlushBatch # 0, IInv, pc = "ready", meta.pending_blocks > 0,
         SaveOk(WithoutOldest(Remaining)),
         UNCHANGED <<nv_blocks, version, tail>>
  PROVE  /\ Remaining \in 1 .. Capacity
         /\ HeadOf(meta) + Remaining <= tail
         /\ HeadOf(meta)' = HeadOf(meta) + Remaining
         /\ StableHead' = HeadOf(meta)'
<1>1. /\ meta \in Meta /\ Queued(meta, nv_blocks, tail, version)
      /\ nv_blocks \in FlashContents /\ tail \in Nat /\ FlushBatch \in Nat
  BY RamFacts, FlashFacts, BatchStep
<1>2. /\ Remaining = FlushBatch - meta.oldest_offset
      /\ Remaining \in Nat /\ Remaining <= meta.pending_entries
      /\ HeadOf(meta) = Head(meta, nv_blocks, tail)
      /\ HeadOf(meta) = BlockOf(meta.oldest_seq).first + meta.oldest_offset
      /\ BlockOf(meta.oldest_seq) \in Block
  BY OldestLoadable
<1>3. Remaining \in 1 .. Capacity
  BY <1>1, <1>2, FlushBatchAssumption, CapacityAssumption DEF Queued, Meta
<1>4. HeadOf(meta) + Remaining <= tail
  BY <1>1, <1>2 DEF Queued, Meta, Block
<1>5. /\ meta' = WithoutOldest(FlushBatch - meta.oldest_offset)
      /\ nv_meta' = meta'
  BY <1>2 DEF SaveOk
<1>6. /\ Queued(meta', nv_blocks, tail, version)
      /\ Head(meta', nv_blocks, tail)
           = nv_blocks[block_id(meta.oldest_seq)].first + FlushBatch
  BY <1>1, <1>5, QueueDropOldest
<1>7. /\ StableHead' = HeadOf(meta)'
      /\ HeadOf(meta)' = Head(meta', nv_blocks, tail)
  BY <1>1, <1>5, <1>6, SavedHead
<1> QED
  BY <1>1, <1>2, <1>3, <1>4, <1>6, <1>7 DEF BlockOf, Block, Meta

LEMMA DiscardMoves ==
  ASSUME FlushBatch # 0, IInv, NEW n \in 1 .. Capacity, AppendDiscards(n)
  PROVE  \/ Queue!Discard(Remaining) /\ Remaining \in 1 .. Capacity
         \/ UNCHANGED Queue!dqvars
<1>1. /\ pc = "ready" /\ meta.pending_blocks > 0
      /\ UNCHANGED <<nv_blocks, version, tail>>
  BY BlockCountAssumption DEF AppendDiscards, IInv, TypeOK, Meta
<1>2. Remaining \in Nat /\ Remaining <= meta.pending_entries /\ meta \in Meta
  BY <1>1, OldestLoadable, RamFacts
<1>3. CASE pc' = "discardDelete"
  <2>1. (IF Remaining < meta.pending_entries THEN Remaining
         ELSE meta.pending_entries) = Remaining
    BY <1>2 DEF Meta
  <2>2. SaveOk(WithoutOldest(Remaining))
    BY <1>1, <1>3, <2>1 DEF AppendDiscards
  <2>3. /\ Remaining \in 1 .. Capacity
        /\ HeadOf(meta) + Remaining <= tail
        /\ HeadOf(meta)' = HeadOf(meta) + Remaining
        /\ StableHead' = HeadOf(meta)'
    BY <1>1, <2>2, RetireMoves
  <2> QED
    BY <1>1, <1>3, <2>3 DEF InitPc, Queue!Discard
<1>4. CASE pc' # "discardDelete"
  <2>1. UNCHANGED <<nvs, meta, pc>>
    BY <1>4 DEF AppendDiscards, SaveFails, nvs
  <2> QED
    BY <1>1, <2>1, CallStutters DEF InitPc
<1> QED
  BY <1>3, <1>4

LEMMA DropBlockMoves ==
  ASSUME FlushBatch # 0, IInv, DropBlock
  PROVE  \/ Queue!Drop(Remaining) /\ Remaining \in 1 .. Capacity
         \/ UNCHANGED Queue!dqvars
<1>1. /\ pc = "ready" /\ meta.pending_blocks > 0
      /\ UNCHANGED <<nv_blocks, version, tail>>
  BY DEF DropBlock
<1>2. CASE SaveOk(WithoutOldest(Remaining)) /\ pc' = "dropDelete"
  <2>1. /\ Remaining \in 1 .. Capacity
        /\ HeadOf(meta) + Remaining <= tail
        /\ HeadOf(meta)' = HeadOf(meta) + Remaining
        /\ StableHead' = HeadOf(meta)'
    BY <1>1, <1>2, RetireMoves
  <2> QED
    BY <1>1, <1>2, <2>1 DEF InitPc, Queue!Drop
<1>3. CASE SaveFails /\ UNCHANGED pc
  BY <1>1, <1>3, CallStutters DEF SaveFails, InitPc, nvs
<1> QED
  BY <1>2, <1>3 DEF DropBlock

(* Part of a block leaves the queue at once, for a reset to bring back;    *)
(* that is less than a block.                                              *)
LEMMA DropSomeMoves ==
  ASSUME FlushBatch # 0, IInv, NEW n \in 1 .. Capacity, DropSome(n)
  PROVE  Queue!Drop(n)
<1>1. /\ pc = "ready" /\ pc' = "ready" /\ meta.pending_blocks > 0
      /\ UNCHANGED <<nvs, version, tail>>
      /\ meta' = [meta EXCEPT !.pending_entries = @ - n, !.oldest_offset = @ + n]
      /\ n \in 1 .. Remaining - 1
  BY DEF DropSome, env
<1>2. /\ meta \in Meta /\ Queued(meta, nv_blocks, tail, version) /\ Readable
      /\ meta.oldest_seq = nv_meta.oldest_seq
      /\ meta.pending_blocks = nv_meta.pending_blocks
  BY <1>1, RamFacts
<1>3. /\ nv_blocks \in FlashContents /\ tail \in Nat /\ FlushBatch \in Nat
      /\ nv_meta \in Meta
  BY <1>2, FlashFacts, BatchStep
<1>4. /\ Remaining = FlushBatch - meta.oldest_offset
      /\ Remaining \in Nat /\ Remaining <= meta.pending_entries
      /\ HeadOf(meta) = Head(meta, nv_blocks, tail)
      /\ HeadOf(meta) = BlockOf(meta.oldest_seq).first + meta.oldest_offset
      /\ BlockOf(meta.oldest_seq) \in Block
  BY <1>1, OldestLoadable
<1>5. n \in Nat /\ n <= meta.pending_entries /\ n < FlushBatch - meta.oldest_offset
  BY <1>1, <1>2, <1>4 DEF Meta
<1>6. /\ meta'.pending_blocks = meta.pending_blocks
      /\ meta'.oldest_seq = meta.oldest_seq
      /\ meta'.oldest_offset = meta.oldest_offset + n
  BY <1>1, <1>2, <1>5, DropSomeFields, ZenonT(30)
<1>7. StableHead' = StableHead
  BY <1>1, SameFlash
<1>8. StableHead = BlockOf(meta.oldest_seq).first + nv_meta.oldest_offset
  BY <1>1, <1>2, StableMeaning DEF Head, BlockOf
<1>9. HeadOf(meta)' = HeadOf(meta) + n
  <2>1. BlockOf(meta.oldest_seq)' = BlockOf(meta.oldest_seq)
    BY <1>1, <1>6 DEF BlockOf, nvs
  <2>2. HeadOf(meta)' = BlockOf(meta.oldest_seq).first + meta'.oldest_offset
    BY <1>1, <1>2, <1>6, <2>1 DEF HeadOf, BlockOf, Meta, nvs
  <2> QED
    BY <1>2, <1>4, <1>5, <1>6, <2>2 DEF Block, Meta
<1>10. HeadOf(meta) + n <= tail
  BY <1>2, <1>3, <1>4, <1>5 DEF Queued, Meta, Block
<1>11. HeadOf(meta)' - StableHead' < Capacity
  BY <1>2, <1>3, <1>4, <1>5, <1>7, <1>8, <1>9, FlushBatchAssumption,
     CapacityAssumption DEF Block, Meta
<1> QED
  BY <1>1, <1>7, <1>9, <1>10, <1>11 DEF InitPc, Queue!Drop

LEMMA SyncMoves ==
  ASSUME FlushBatch # 0, IInv, Sync
  PROVE  Queue!Sync \/ UNCHANGED Queue!dqvars
<1>1. pc = "ready" /\ pc' = "ready" /\ UNCHANGED <<nv_blocks, version, tail>>
  BY DEF Sync, ghosts
<1>2. CASE SaveOk(meta)
  <2>1. /\ nv_blocks \in FlashContents /\ tail' \in Nat
        /\ Queued(meta, nv_blocks, tail, version)
    BY <1>1, RamFacts, FlashFacts
  <2>2. nv_meta' = meta' /\ meta' = meta
    BY <1>2 DEF SaveOk
  <2>3. StableHead' = HeadOf(meta)' /\ HeadOf(meta)' = HeadOf(meta)
    BY <1>1, <2>1, <2>2, SavedHead, HeadMeaning
  <2> QED
    BY <1>1, <2>3 DEF InitPc, Queue!Sync
<1>3. CASE SaveFails
  BY <1>1, <1>3, CallStutters DEF SaveFails, InitPc, nvs
<1> QED
  BY <1>2, <1>3 DEF Sync

-----------------------------------------------------------------------------
(* A reset, and the refinement.                                            *)

LEMMA ResetMoves ==
  ASSUME FlushBatch # 0, IInv, Reset
  PROVE  Queue!Reset \/ Queue!Format
<1>1. pc' = "down" /\ UNCHANGED nvs
  BY DEF Reset
<1>2. CASE version' = version /\ UNCHANGED ghosts
  <2>1. StableHead' = StableHead /\ tail' = tail
    BY <1>1, <1>2, SameFlash DEF ghosts
  <2> QED
    BY <1>1, <2>1 DEF InitPc, Queue!Reset
<1>3. CASE version' = version + 1 /\ tail' = 0
  <2>1. nv_meta # NoMeta => nv_meta.version # version'
    BY <1>3 DEF IInv, TypeOK, RecordsSane, Meta
  <2>2. StableHead' = 0
    BY <1>1, <2>1 DEF StableHead, Usable, Compatible, nvs
  <2> QED
    BY <1>1, <1>3, <2>2, FormatStep DEF Up, InitPc
<1> QED
  BY <1>2, <1>3 DEF Reset

LEMMA InitMaps == Init => Queue!Init
BY DEF Init, StableHead, Usable, InitPc, Queue!Init

LEMMA StepMaps ==
  ASSUME FlushBatch # 0, ~EraseMayStop, IInv, [Next]_vars
  PROVE  [Queue!Next]_(Queue!dqvars)
<1>1. 0 \in 0 .. Capacity /\ FlushBatch \in 0 .. Capacity
      /\ FlushBatch \in 1 .. Capacity
  BY FlushBatchAssumption, CapacityAssumption
<1>2. CASE UNCHANGED vars
  <2>1. UNCHANGED <<nvs, version, tail, meta, pc>>
    BY <1>2 DEF vars, store, env, ghosts
  <2> QED
    BY <2>1, SameRam, Stutters DEF Abstract, Up, QueueHead
<1>3. CASE Boot
  <2>1. ~Recount /\ ~EraseStops
    BY DEF IInv, BootQueue, Recount, EraseStops
  <2> QED
    BY <1>1, <1>3, <2>1, QuietBoot, ErasingBoot, StoppedErasure,
       SaveRebuiltStutters, ScanEndsStarts, SaveScannedStarts
       DEF Boot, Queue!Next
<1>4. CASE Call
  BY <1>1, <1>4, QuietCall, DeletesStutter, WriteStutters, CommitAppends,
     DiscardMoves, DropBlockMoves, DropSomeMoves, SyncMoves
     DEF Call, Queue!Next
<1>5. CASE Reset
  BY <1>5, ResetMoves DEF Queue!Next
<1> QED
  BY <1>2, <1>3, <1>4, <1>5 DEF Next

(* Whatever fails and whenever the power does, the store behaves as a      *)
(* durable queue: entries are accepted whole, leave from the front, and a  *)
(* reset brings back those of the last block at most                       *)
(* (flash_ring_store.c, contract in flash_ring_store.h).                   *)
THEOREM StoreImplementsQueue ==
  ASSUME FlushBatch # 0, ~EraseMayStop
  PROVE  Spec => ImplementsDurableQueue
<1>1. IInv /\ [Next]_vars => [Queue!Next]_(Queue!dqvars)
  BY StepMaps
<1> QED
  BY <1>1, InitMaps, StoreInvariant, PTL
  DEF Spec, ImplementsDurableQueue, Queue!Spec

-----------------------------------------------------------------------------
(* A domain of blocks of any size, whose count is a sum over its blocks.   *)
(* The contact store takes metadata over only without entries, so that     *)
(* its invariant need say little of what flash holds: what it counts while *)
(* a call or a boot is on its way, and what each step relies on.           *)

(* The slot of sequence s holds its block, written by format v.            *)
Valid(b, v, s) ==
  /\ b[block_id(s)] # NoBlock
  /\ b[block_id(s)].version = v
  /\ b[block_id(s)].entry_count \in 1 .. Capacity
  /\ b[block_id(s)].sequence = s

(* Metadata m count blocks that are there, and the entries from their      *)
(* offset on.                                                              *)
Counted(m, b, v) ==
  /\ m.pending_blocks <= BlockCount
  /\ m.next_seq = m.oldest_seq + m.pending_blocks
  /\ \A s \in m.oldest_seq .. m.next_seq - 1 : Valid(b, v, s)
  /\ m.oldest_offset < IF m.pending_blocks = 0 THEN 1
                       ELSE b[block_id(m.oldest_seq)].entry_count
  /\ m.pending_entries =
       EntriesIn(b, m.oldest_seq, m.pending_blocks) - m.oldest_offset

(* Metadata in flash that count a block count an entry: a contact store,   *)
(* which takes them over only without entries, then starts from an empty   *)
(* queue.                                                                  *)
Saved(m) ==
  /\ m.next_seq = m.oldest_seq + m.pending_blocks
  /\ m.pending_blocks > 0 => m.pending_entries > 0

(* Metadata with a block before the oldest, of sequence s, added to it.    *)
WithOlder(m, s, entries) ==
  [m EXCEPT !.pending_blocks = @ + 1,
            !.pending_entries = @ + entries,
            !.oldest_seq = s]

AtStep ==
  /\ pc \in {"down", "mounted", "clear", "findNewest"} => meta.pending_blocks = 0
  /\ pc = "recount" => meta.oldest_offset = 0
  /\ pc \in CallPc => meta.pending_blocks < BlockCount
  /\ pc \in {"discardDelete", "dropDelete"} =>
       retired_sequence = meta.oldest_seq - 1
  /\ pc \in {"discardDelete", "appendWrite", "appendCommit"} => entry_count > 0
  /\ pc = "appendCommit" =>
       /\ Valid(nv_blocks, version, meta.next_seq)
       /\ BlockOf(meta.next_seq).entry_count = entry_count

CountInv ==
  /\ TypeOK
  /\ Counted(meta, nv_blocks, version)
  /\ nv_meta # NoMeta => Saved(nv_meta)
  /\ AtStep

-----------------------------------------------------------------------------
(* Sums of entry counts.  The recursion is unfolded by way of the first    *)
(* place where it would fail.                                              *)

LEMMA LeastNumber ==
  ASSUME NEW T, T \subseteq Nat, T # {}
  PROVE  \E n \in T : \A m \in T : n <= m
<1> DEFINE R == OpToRel(<, Nat)
<1>1. IsWellFoundedOn(R, Nat)
  BY NatLessThanWellFounded
<1>2. \A n, m \in Nat : m < n => <<m, n>> \in R
  BY DEF OpToRel
<1> HIDE DEF R
<1>3. PICK n \in T : \A m \in T : <<m, n>> \notin R
  BY <1>1, WFMin
<1>4. \A m \in T : n <= m
  <2>1. \A m \in T : m \in Nat /\ n \in Nat /\ ~(m < n)
    BY <1>2, <1>3
  <2> QED
    BY <2>1
<1> QED
  BY <1>4

(* f lists the sums of the first counts, up to m of them.                  *)
Sum(f, counts, m) ==
  f = [k \in 0 .. m |-> IF k = 0 THEN 0 ELSE f[k - 1] + counts[k]]

LEMMA SumExists ==
  ASSUME NEW n \in Nat, NEW counts
  PROVE  \E f : Sum(f, counts, n)
<1> DEFINE T == {m \in 0 .. n : ~ \E f : Sum(f, counts, m)}
<1>1. SUFFICES ASSUME T # {} PROVE FALSE
  <2>1. n \in 0 .. n
    OBVIOUS
  <2> QED
    BY <2>1
<1>2. T \subseteq Nat
  OBVIOUS
<1>3. PICK m \in T : \A k \in T : m <= k
  BY <1>1, <1>2, LeastNumber
<1>4. m \in 0 .. n /\ m \in Nat /\ ~ \E f : Sum(f, counts, m)
  BY <1>2, <1>3
<1>5. m # 0
  <2> DEFINE f == [k \in 0 .. 0 |-> 0]
  <2>1. f = [k \in 0 .. 0 |-> IF k = 0 THEN 0 ELSE f[k - 1] + counts[k]]
    OBVIOUS
  <2>2. Sum(f, counts, 0)
    BY <2>1 DEF Sum
  <2> QED
    BY <1>4, <2>2
<1>6. m - 1 \in 0 .. n /\ ~(m <= m - 1)
  BY <1>4, <1>5
<1>7. PICK g : Sum(g, counts, m - 1)
  BY <1>3, <1>6
<1>8. \A k \in 0 .. m - 1 : g[k] = IF k = 0 THEN 0 ELSE g[k - 1] + counts[k]
  BY <1>7 DEF Sum
<1> DEFINE last == g[m - 1] + counts[m]
           f == [k \in 0 .. m |-> IF k = m THEN last ELSE g[k]]
<1> HIDE DEF last
<1>9. ASSUME NEW k \in 0 .. m
      PROVE  f[k] = IF k = 0 THEN 0 ELSE f[k - 1] + counts[k]
  <2>1. CASE k = m
    <3>1. m - 1 \in 0 .. m /\ m - 1 # m
      BY <1>4, <1>5
    <3>2. f[k] = last /\ f[k - 1] = g[m - 1]
      BY <2>1, <3>1
    <3> QED
      BY <1>5, <2>1, <3>2 DEF last
  <2>2. CASE k # m /\ k = 0
    BY <1>4, <1>5, <1>8, <2>2
  <2>3. CASE k # m /\ k # 0
    <3>1. /\ k \in 0 .. m - 1 /\ k - 1 \in 0 .. m - 1
          /\ k - 1 \in 0 .. m /\ k - 1 # m
      BY <1>4, <2>3
    <3>2. f[k] = g[k] /\ f[k - 1] = g[k - 1]
      BY <2>3, <3>1
    <3> QED
      BY <1>8, <2>3, <3>1, <3>2
  <2> QED
    BY <2>1, <2>2, <2>3
<1>10. Sum(f, counts, m)
  BY <1>9 DEF Sum
<1> QED
  BY <1>4, <1>10

LEMMA SumsAre ==
  ASSUME NEW n \in Nat, NEW counts
  PROVE  /\ Sums(counts, n)[0] = 0
         /\ \A k \in 1 .. n :
              Sums(counts, n)[k] = Sums(counts, n)[k - 1] + counts[k]
<1> DEFINE f == Sums(counts, n)
<1>1. f = CHOOSE g : Sum(g, counts, n)
  BY DEF Sums, Sum
<1>2. Sum(f, counts, n)
  BY <1>1, SumExists
<1> HIDE DEF f
<1>3. \A k \in 0 .. n : f[k] = IF k = 0 THEN 0 ELSE f[k - 1] + counts[k]
  BY <1>2 DEF Sum
<1>4. f[0] = 0 /\ \A k \in 1 .. n : f[k] = f[k - 1] + counts[k]
  BY <1>3
<1> QED
  BY <1>4 DEF f

LEMMA SumsType ==
  ASSUME NEW n \in Nat, NEW counts \in [1 .. n -> Nat], NEW k \in 0 .. n
  PROVE  Sums(counts, n)[k] \in Nat
<1> DEFINE f == Sums(counts, n)
           T == {m \in 0 .. n : f[m] \notin Nat}
<1>1. f[0] = 0 /\ \A m \in 1 .. n : f[m] = f[m - 1] + counts[m]
  BY SumsAre
<1> HIDE DEF f
<1>2. SUFFICES ASSUME T # {} PROVE FALSE
  BY DEF f
<1>3. PICK m \in T : \A j \in T : m <= j
  <2>1. T \subseteq Nat
    OBVIOUS
  <2> QED
    BY <1>2, <2>1, LeastNumber
<1>4. m \in 1 .. n /\ m - 1 \in 0 .. n /\ ~(m <= m - 1)
  BY <1>1, <1>3
<1>5. f[m - 1] \in Nat
  BY <1>3, <1>4
<1>6. counts[m] \in Nat
  BY <1>4
<1> QED
  BY <1>1, <1>3, <1>4, <1>5, <1>6

(* Two lists of numbers that grow by the same steps keep their distance.   *)
LEMMA InStep ==
  ASSUME NEW n \in Nat, NEW a \in Nat, NEW f, NEW g,
         \A k \in 0 .. n : f[k] \in Nat /\ g[k] \in Nat,
         f[0] = a + g[0],
         \A k \in 1 .. n : f[k] - f[k - 1] = g[k] - g[k - 1]
  PROVE  f[n] = a + g[n]
<1> DEFINE T == {m \in 0 .. n : f[m] # a + g[m]}
<1>1. SUFFICES ASSUME T # {} PROVE FALSE
  <2>1. n \in 0 .. n
    OBVIOUS
  <2> QED
    BY <2>1
<1>2. PICK m \in T : \A j \in T : m <= j
  <2>1. T \subseteq Nat
    OBVIOUS
  <2> QED
    BY <1>1, <2>1, LeastNumber
<1>3. m \in 1 .. n /\ m - 1 \in 0 .. n /\ m \in 0 .. n /\ ~(m <= m - 1)
  BY <1>2
<1>4. f[m - 1] = a + g[m - 1]
  BY <1>2, <1>3
<1>5. f[m] - f[m - 1] = g[m] - g[m - 1]
  BY <1>3
<1>6. f[m] \in Nat /\ g[m] \in Nat /\ f[m - 1] \in Nat /\ g[m - 1] \in Nat
  BY <1>3
<1>7. f[m] = a + g[m]
  BY <1>4, <1>5, <1>6
<1> QED
  BY <1>2, <1>7

(* The entries of no block, of one more at the end, of one more in front.  *)
LEMMA EntriesType ==
  ASSUME NEW b \in FlashContents, NEW s \in Int, NEW n \in Nat,
         \A i \in s .. s + n - 1 : b[block_id(i)] # NoBlock
  PROVE  EntriesIn(b, s, n) \in Nat /\ EntriesIn(b, s, 0) = 0
<1>1. ASSUME NEW k \in 1 .. n
      PROVE  b[block_id(s + k - 1)].entry_count \in Nat
  <2>1. s + k - 1 \in s .. s + n - 1 /\ s + k - 1 \in Int
    OBVIOUS
  <2>2. b[block_id(s + k - 1)] \in Block
    BY <2>1, SlotOfSequence DEF FlashContents
  <2> QED
    BY <2>2 DEF Block
<1> DEFINE c == [k \in 1 .. n |-> b[block_id(s + k - 1)].entry_count]
<1>2. c \in [1 .. n -> Nat]
  BY <1>1
<1> HIDE DEF c
<1>3. n \in 0 .. n
  OBVIOUS
<1>4. Sums(c, n)[n] \in Nat
  BY <1>2, <1>3, SumsType
<1>5. EntriesIn(b, s, 0) = 0
  BY SumsAre DEF EntriesIn
<1> QED
  BY <1>4, <1>5 DEF EntriesIn, c

LEMMA EntriesNewest ==
  ASSUME NEW b \in FlashContents, NEW s \in Int, NEW n \in Nat,
         \A i \in s .. s + n : b[block_id(i)] # NoBlock
  PROVE  EntriesIn(b, s, n + 1)
           = EntriesIn(b, s, n) + b[block_id(s + n)].entry_count
<1>1. ASSUME NEW k \in 1 .. n + 1
      PROVE  b[block_id(s + k - 1)].entry_count \in Nat
  <2>1. s + k - 1 \in s .. s + n /\ s + k - 1 \in Int
    OBVIOUS
  <2>2. b[block_id(s + k - 1)] \in Block
    BY <2>1, SlotOfSequence DEF FlashContents
  <2> QED
    BY <2>2 DEF Block
<1> DEFINE c == [k \in 1 .. n + 1 |-> b[block_id(s + k - 1)].entry_count]
           d == [k \in 1 .. n |-> b[block_id(s + k - 1)].entry_count]
<1>2. c \in [1 .. n + 1 -> Nat] /\ d \in [1 .. n -> Nat]
  <2>1. \A k \in 1 .. n : k \in 1 .. n + 1
    OBVIOUS
  <2> QED
    BY <1>1, <2>1
<1>3. /\ \A k \in 1 .. n : c[k] = d[k]
      /\ c[n + 1] = b[block_id(s + n)].entry_count
  <2>1. n + 1 \in 1 .. n + 1 /\ s + (n + 1) - 1 = s + n
    OBVIOUS
  <2>2. c[n + 1] = b[block_id(s + n)].entry_count
    BY <2>1
  <2> QED
    BY <2>2
<1> HIDE DEF c, d
<1> DEFINE f == Sums(c, n + 1)
           g == Sums(d, n)
<1>4. /\ f[0] = 0 /\ g[0] = 0
      /\ \A k \in 1 .. n + 1 : f[k] = f[k - 1] + c[k]
      /\ \A k \in 1 .. n : g[k] = g[k - 1] + d[k]
  BY SumsAre
<1>5. \A k \in 0 .. n : f[k] \in Nat /\ g[k] \in Nat
  <2> TAKE k \in 0 .. n
  <2>1. n + 1 \in Nat /\ k \in 0 .. n + 1
    OBVIOUS
  <2>2. f[k] \in Nat
    BY <1>2, <2>1, SumsType
  <2>3. g[k] \in Nat
    BY <1>2, SumsType
  <2> QED
    BY <2>2, <2>3
<1> HIDE DEF f, g
<1>6. \A k \in 1 .. n : f[k] - f[k - 1] = g[k] - g[k - 1]
  <2> TAKE k \in 1 .. n
  <2>1. k - 1 \in 0 .. n /\ k \in 1 .. n + 1
    OBVIOUS
  <2>2. c[k] = d[k] /\ c[k] \in Nat
    BY <1>2, <1>3, <2>1
  <2> QED
    BY <1>4, <1>5, <2>1, <2>2
<1>7. f[n] = 0 + g[n]
  BY <1>4, <1>5, <1>6, InStep
<1>8. n + 1 \in 1 .. n + 1 /\ n \in 0 .. n /\ (n + 1) - 1 = n
  OBVIOUS
<1>9. f[n + 1] = f[n] + c[n + 1]
  BY <1>4, <1>8
<1>10. EntriesIn(b, s, n + 1) = f[n + 1] /\ EntriesIn(b, s, n) = g[n]
  BY DEF EntriesIn, f, g, c, d
<1> QED
  BY <1>3, <1>5, <1>7, <1>8, <1>9, <1>10

LEMMA EntriesOldest ==
  ASSUME NEW b \in FlashContents, NEW s \in Int, NEW n \in Nat,
         \A i \in s .. s + n : b[block_id(i)] # NoBlock
  PROVE  EntriesIn(b, s, n + 1)
           = b[block_id(s)].entry_count + EntriesIn(b, s + 1, n)
<1>1. ASSUME NEW k \in 1 .. n + 1
      PROVE  b[block_id(s + k - 1)].entry_count \in Nat
  <2>1. s + k - 1 \in s .. s + n /\ s + k - 1 \in Int
    OBVIOUS
  <2>2. b[block_id(s + k - 1)] \in Block
    BY <2>1, SlotOfSequence DEF FlashContents
  <2> QED
    BY <2>2 DEF Block
<1> DEFINE c == [k \in 1 .. n + 1 |-> b[block_id(s + k - 1)].entry_count]
           d == [k \in 1 .. n |-> b[block_id(s + 1 + k - 1)].entry_count]
<1>2. /\ \A k \in 1 .. n : c[k + 1] = d[k]
      /\ c[1] = b[block_id(s)].entry_count
  <2>1. 1 \in 1 .. n + 1 /\ s + 1 - 1 = s
    OBVIOUS
  <2>2. c[1] = b[block_id(s)].entry_count
    BY <2>1
  <2>3. ASSUME NEW k \in 1 .. n PROVE c[k + 1] = d[k]
    <3>1. k + 1 \in 1 .. n + 1 /\ s + (k + 1) - 1 = s + 1 + k - 1
      OBVIOUS
    <3> QED
      BY <3>1
  <2> QED
    BY <2>2, <2>3
<1>3. c \in [1 .. n + 1 -> Nat]
  BY <1>1
<1>4. d \in [1 .. n -> Nat]
  <2>1. ASSUME NEW k \in 1 .. n PROVE d[k] \in Nat
    <3>1. k + 1 \in 1 .. n + 1
      OBVIOUS
    <3>2. c[k + 1] \in Nat
      BY <1>1, <3>1
    <3>3. d[k] = c[k + 1]
      BY <1>2
    <3> QED
      BY <3>2, <3>3
  <2> QED
    BY <2>1
<1> HIDE DEF c, d
<1> DEFINE f == Sums(c, n + 1)
           h == [k \in 0 .. n |-> f[k + 1]]
           g == Sums(d, n)
<1>5. /\ f[0] = 0 /\ g[0] = 0
      /\ \A k \in 1 .. n + 1 : f[k] = f[k - 1] + c[k]
      /\ \A k \in 1 .. n : g[k] = g[k - 1] + d[k]
  BY SumsAre
<1>6. /\ \A k \in 0 .. n + 1 : f[k] \in Nat
      /\ \A k \in 0 .. n : g[k] \in Nat
  <2>1. n + 1 \in Nat
    OBVIOUS
  <2>2. ASSUME NEW k \in 0 .. n + 1 PROVE f[k] \in Nat
    BY <1>3, <2>1, SumsType
  <2>3. ASSUME NEW k \in 0 .. n PROVE g[k] \in Nat
    BY <1>4, SumsType
  <2> QED
    BY <2>2, <2>3
<1> HIDE DEF f, g
<1>7. \A k \in 0 .. n : h[k] = f[k + 1] /\ h[k] \in Nat /\ g[k] \in Nat
  <2> TAKE k \in 0 .. n
  <2>1. k + 1 \in 0 .. n + 1
    OBVIOUS
  <2> QED
    BY <1>6, <2>1
<1> HIDE DEF h
<1>8. \A k \in 1 .. n : h[k] - h[k - 1] = g[k] - g[k - 1]
  <2> TAKE k \in 1 .. n
  <2>1. /\ k - 1 \in 0 .. n /\ k \in 0 .. n /\ k + 1 \in 1 .. n + 1
        /\ (k + 1) - 1 = k /\ (k - 1) + 1 = k
    OBVIOUS
  <2>2. h[k] = f[k] + d[k] /\ h[k - 1] = f[k] /\ g[k] = g[k - 1] + d[k]
    <3>1. f[k + 1] = f[k] + c[k + 1]
      BY <1>5, <2>1
    <3>2. c[k + 1] = d[k]
      BY <1>2
    <3>3. h[k] = f[k + 1] /\ h[k - 1] = f[k]
      BY <1>7, <2>1
    <3> QED
      BY <1>5, <3>1, <3>2, <3>3
  <2>3. d[k] \in Nat /\ f[k] \in Nat /\ g[k - 1] \in Nat
    <3>1. k \in 0 .. n + 1
      OBVIOUS
    <3> QED
      BY <1>4, <1>6, <2>1, <3>1
  <2> QED
    BY <2>2, <2>3
<1>9. h[0] = c[1] /\ c[1] \in Nat
  <2>1. 0 \in 0 .. n /\ 1 \in 1 .. n + 1 /\ 0 + 1 = 1 /\ 1 - 1 = 0
    OBVIOUS
  <2>2. c[1] \in Nat
    BY <1>3, <2>1
  <2>3. f[1] = f[0] + c[1]
    BY <1>5, <2>1
  <2>4. h[0] = f[1]
    BY <1>7, <2>1
  <2> QED
    BY <1>5, <2>2, <2>3, <2>4
<1>10. h[n] = c[1] + g[n]
  <2> DEFINE a == c[1]
  <2>1. h[0] = a + g[0] /\ a \in Nat
    BY <1>5, <1>9
  <2> HIDE DEF a
  <2>2. \A k \in 0 .. n : h[k] \in Nat /\ g[k] \in Nat
    BY <1>7
  <2>3. h[n] = a + g[n]
    BY <1>8, <2>1, <2>2, InStep
  <2> QED
    BY <2>3 DEF a
<1>11. h[n] = f[n + 1]
  <2>1. n \in 0 .. n
    OBVIOUS
  <2> QED
    BY <1>7, <2>1
<1>12. EntriesIn(b, s, n + 1) = f[n + 1] /\ EntriesIn(b, s + 1, n) = g[n]
  BY DEF EntriesIn, f, g, c, d
<1> QED
  BY <1>2, <1>10, <1>11, <1>12

(* They stay as long as the blocks do.                                     *)
LEMMA EntriesFrame ==
  ASSUME NEW b, NEW b2, NEW s \in Int, NEW n \in Nat,
         \A i \in s .. s + n - 1 : b2[block_id(i)] = b[block_id(i)]
  PROVE  EntriesIn(b2, s, n) = EntriesIn(b, s, n)
<1>1. ASSUME NEW k \in 1 .. n
      PROVE  b2[block_id(s + k - 1)] = b[block_id(s + k - 1)]
  <2>1. s + k - 1 \in s .. s + n - 1
    OBVIOUS
  <2> QED
    BY <2>1
<1>2. [k \in 1 .. n |-> b2[block_id(s + k - 1)].entry_count]
        = [k \in 1 .. n |-> b[block_id(s + k - 1)].entry_count]
  BY <1>1
<1> QED
  BY <1>2 DEF EntriesIn

-----------------------------------------------------------------------------
(* How the store's updates act on counted metadata.                        *)

LEMMA CountedEmpty ==
  ASSUME NEW m \in Meta, NEW b \in FlashContents, NEW v,
         m.pending_blocks = 0, m.pending_entries = 0, m.oldest_offset = 0,
         m.next_seq = m.oldest_seq
  PROVE  Counted(m, b, v)
<1>1. EntriesIn(b, m.oldest_seq, 0) = 0
  BY EntriesType DEF Meta
<1>2. m.oldest_seq \in Int
  BY DEF Meta
<1>3. m.oldest_seq .. m.next_seq - 1 = {}
  BY <1>2
<1> QED
  BY <1>1, <1>2, <1>3, BlockCountAssumption DEF Counted

(* The blocks of a run, and the numbers about them.                        *)
LEMMA CountedRun ==
  ASSUME NEW m \in Meta, NEW b \in FlashContents, NEW v, Counted(m, b, v)
  PROVE  /\ \A i \in m.oldest_seq .. m.oldest_seq + m.pending_blocks - 1 :
              i \in Int /\ Valid(b, v, i)
         /\ EntriesIn(b, m.oldest_seq, m.pending_blocks) \in Nat
         /\ m.pending_entries + m.oldest_offset
              = EntriesIn(b, m.oldest_seq, m.pending_blocks)
         /\ m.pending_blocks = 0 => m.oldest_offset = 0 /\ m.pending_entries = 0
<1>1. /\ m.oldest_seq \in Int /\ m.pending_blocks \in Nat /\ m.next_seq \in Nat
      /\ m.pending_entries \in Nat /\ m.oldest_offset \in Nat
  BY DEF Meta
<1>2. m.next_seq - 1 = m.oldest_seq + m.pending_blocks - 1
  BY <1>1 DEF Counted
<1>3. \A i \in m.oldest_seq .. m.oldest_seq + m.pending_blocks - 1 :
        i \in Int /\ Valid(b, v, i)
  BY <1>1, <1>2 DEF Counted
<1>4. EntriesIn(b, m.oldest_seq, m.pending_blocks) \in Nat
  BY <1>1, <1>3, EntriesType DEF Valid
<1>5. m.pending_entries + m.oldest_offset
        = EntriesIn(b, m.oldest_seq, m.pending_blocks)
  BY <1>1, <1>4 DEF Counted
<1>6. EntriesIn(b, m.oldest_seq, 0) = 0
  BY <1>1, EntriesType
<1>7. m.pending_blocks = 0 => m.oldest_offset = 0 /\ m.pending_entries = 0
  BY <1>1, <1>5, <1>6 DEF Counted
<1> QED
  BY <1>3, <1>4, <1>5, <1>7

(* The oldest block has entries left, which are among those counted.       *)
LEMMA CountedOldest ==
  ASSUME NEW m \in Meta, NEW b \in FlashContents, NEW v, Counted(m, b, v),
         m.pending_blocks > 0
  PROVE  /\ Valid(b, v, m.oldest_seq)
         /\ b[block_id(m.oldest_seq)] \in Block
         /\ m.oldest_offset < b[block_id(m.oldest_seq)].entry_count
         /\ b[block_id(m.oldest_seq)].entry_count <= Capacity
         /\ EntriesIn(b, m.oldest_seq + 1, m.pending_blocks - 1) \in Nat
         /\ m.pending_entries
              = b[block_id(m.oldest_seq)].entry_count - m.oldest_offset
                + EntriesIn(b, m.oldest_seq + 1, m.pending_blocks - 1)
         /\ m.pending_entries > 0
<1>1. /\ m.oldest_seq \in Int /\ m.pending_blocks \in Nat
      /\ m.pending_entries \in Nat /\ m.oldest_offset \in Nat
  BY DEF Meta
<1> DEFINE s == m.oldest_seq
           n == m.pending_blocks - 1
<1>2. n \in Nat /\ s \in Int /\ n + 1 = m.pending_blocks
  BY <1>1
<1>3. \A i \in s .. s + n : i \in Int /\ Valid(b, v, i)
  <2>1. s + n = m.oldest_seq + m.pending_blocks - 1
    BY <1>1
  <2> QED
    BY <2>1, CountedRun
<1>4. Valid(b, v, s)
  BY <1>2, <1>3
<1>5. b[block_id(s)] \in Block
  BY <1>2, <1>4, SlotOfSequence DEF Valid, FlashContents
<1>6. m.oldest_offset < b[block_id(s)].entry_count
  BY <1>1 DEF Counted
<1>7. b[block_id(s)].entry_count \in 1 .. Capacity
  BY <1>4 DEF Valid
<1>8. EntriesIn(b, s + 1, n) \in Nat
  <2>1. \A i \in s + 1 .. (s + 1) + n - 1 : b[block_id(i)] # NoBlock
    <3>1. \A i \in s + 1 .. (s + 1) + n - 1 : i \in s .. s + n
      BY <1>2
    <3> QED
      BY <1>3, <3>1 DEF Valid
  <2>2. s + 1 \in Int
    BY <1>2
  <2> QED
    BY <1>2, <2>1, <2>2, EntriesType
<1>9. EntriesIn(b, s, n + 1) = b[block_id(s)].entry_count + EntriesIn(b, s + 1, n)
  BY <1>2, <1>3, EntriesOldest DEF Valid
<1>10. m.pending_entries + m.oldest_offset = EntriesIn(b, s, n + 1)
  BY <1>2, CountedRun
<1> HIDE DEF s, n
<1>11. /\ m.pending_entries
            = b[block_id(s)].entry_count - m.oldest_offset + EntriesIn(b, s + 1, n)
       /\ m.pending_entries > 0
  BY <1>1, <1>6, <1>7, <1>8, <1>9, <1>10, CapacityAssumption
<1> QED
  BY <1>4, <1>5, <1>6, <1>7, <1>8, <1>11, CapacityAssumption DEF s, n

LEMMA CountedSaved ==
  ASSUME NEW m \in Meta, NEW b \in FlashContents, NEW v, Counted(m, b, v)
  PROVE  Saved(m)
BY CountedOldest DEF Saved, Counted

(* A block taken in behind the newest.                                     *)
LEMMA CountedNewest ==
  ASSUME NEW m \in Meta, NEW b \in FlashContents, NEW v, Counted(m, b, v),
         m.pending_blocks < BlockCount, Valid(b, v, m.next_seq),
         NEW n, n = b[block_id(m.next_seq)].entry_count,
         NEW m2, m2 = WithNewest(m, n)
  PROVE  m2 \in Meta /\ Counted(m2, b, v) /\ m2.pending_blocks > 0
<1>1. /\ m.oldest_seq \in Int /\ m.pending_blocks \in Nat /\ m.next_seq \in Nat
      /\ m.pending_entries \in Nat /\ m.oldest_offset \in Nat
  BY DEF Meta
<1>2. n \in Nat /\ n > 0 /\ n <= Capacity
  BY CapacityAssumption DEF Valid
<1>3. /\ m2 \in Meta
      /\ m2.pending_blocks = m.pending_blocks + 1
      /\ m2.oldest_seq = (IF m.pending_blocks = 0 THEN m.next_seq ELSE m.oldest_seq)
      /\ m2.next_seq = m.next_seq + 1
      /\ m2.pending_entries = m.pending_entries + n
      /\ m2.oldest_offset = (IF m.pending_blocks = 0 THEN 0 ELSE m.oldest_offset)
  BY <1>2, NewestRecord
<1> DEFINE s == m2.oldest_seq
           k == m.pending_blocks
<1>4. m.next_seq = m.oldest_seq + m.pending_blocks
  BY DEF Counted
<1>5. s = m.oldest_seq /\ s + k = m.next_seq /\ s \in Int /\ k \in Nat
  BY <1>1, <1>3, <1>4
<1>6. \A i \in s .. s + k : Valid(b, v, i)
  <2> TAKE i \in s .. s + k
  <2>1. CASE i = s + k
    BY <1>5, <2>1
  <2>2. CASE i # s + k
    <3>1. i \in m.oldest_seq .. m.oldest_seq + m.pending_blocks - 1
      BY <1>5, <2>2
    <3> QED
      BY <3>1, CountedRun
  <2> QED
    BY <2>1, <2>2
<1>7. EntriesIn(b, s, k + 1) = EntriesIn(b, s, k) + b[block_id(s + k)].entry_count
  BY <1>5, <1>6, EntriesNewest DEF Valid
<1>8. EntriesIn(b, s, k) \in Nat /\ m.pending_entries + m.oldest_offset = EntriesIn(b, s, k)
  BY <1>5, CountedRun
<1>9. m2.oldest_offset = m.oldest_offset
  BY <1>3, CountedRun
<1>10. m2.pending_entries = EntriesIn(b, s, k + 1) - m2.oldest_offset
  BY <1>1, <1>2, <1>3, <1>5, <1>7, <1>8, <1>9
<1>11. m2.oldest_offset < b[block_id(s)].entry_count
  <2>1. CASE m.pending_blocks = 0
    BY <1>2, <1>3, <1>5, <2>1
  <2>2. CASE m.pending_blocks # 0
    BY <1>5, <1>9, <2>2 DEF Counted
  <2> QED
    BY <2>1, <2>2
<1>12. \A i \in s .. m2.next_seq - 1 : Valid(b, v, i)
  BY <1>1, <1>3, <1>5, <1>6
<1>13. /\ m2.pending_blocks = k + 1 /\ k + 1 > 0 /\ k + 1 # 0 /\ k + 1 <= BlockCount
       /\ m2.next_seq = s + (k + 1)
  BY <1>1, <1>3, <1>5, BlockCountAssumption
<1> QED
  BY <1>3, <1>10, <1>11, <1>12, <1>13 DEF Counted

(* The oldest block taken out with what it has left.                       *)
LEMMA CountedWithoutOldest ==
  ASSUME meta \in Meta, nv_blocks \in FlashContents, NEW v,
         Counted(meta, nv_blocks, v), meta.pending_blocks > 0,
         NEW m2, m2 = WithoutOldest(Remaining)
  PROVE  /\ m2 \in Meta /\ Counted(m2, nv_blocks, v)
         /\ m2.pending_blocks < BlockCount
         /\ m2.oldest_seq - 1 = meta.oldest_seq
         /\ Remaining \in Nat /\ Remaining <= meta.pending_entries
<1>1. /\ meta.oldest_seq \in Int /\ meta.pending_blocks \in Nat /\ meta.next_seq \in Nat
      /\ meta.pending_entries \in Nat /\ meta.oldest_offset \in Nat
  BY DEF Meta
<1> DEFINE s == meta.oldest_seq
           k == meta.pending_blocks - 1
           e == EntriesIn(nv_blocks, s + 1, k)
<1>2. /\ meta.oldest_offset < BlockOf(s).entry_count
      /\ BlockOf(s).entry_count \in Nat
      /\ e \in Nat
      /\ meta.pending_entries = BlockOf(s).entry_count - meta.oldest_offset + e
  BY CountedOldest DEF BlockOf, Block
<1>3. Remaining = BlockOf(s).entry_count - meta.oldest_offset
  BY DEF Remaining
<1> HIDE DEF e
<1>4. Remaining \in Nat /\ Remaining <= meta.pending_entries
      /\ meta.pending_entries - Remaining = e
  BY <1>1, <1>2, <1>3
<1>5. /\ m2 \in Meta
      /\ m2.pending_blocks = meta.pending_blocks - 1
      /\ m2.oldest_seq = (IF meta.pending_blocks = 1 THEN meta.next_seq
                          ELSE meta.oldest_seq + 1)
      /\ m2.next_seq = meta.next_seq
      /\ m2.pending_entries = meta.pending_entries - Remaining
      /\ m2.oldest_offset = 0
  BY <1>4, WithoutOldestFields
<1>6. meta.next_seq = meta.oldest_seq + meta.pending_blocks
  BY DEF Counted
<1>7. m2.oldest_seq = s + 1 /\ m2.next_seq = (s + 1) + k /\ m2.pending_blocks = k
  BY <1>1, <1>5, <1>6
<1>8. \A i \in s .. s + k : i \in Int /\ Valid(nv_blocks, v, i)
  <2>1. s + k = meta.oldest_seq + meta.pending_blocks - 1
    BY <1>1
  <2> QED
    BY <2>1, CountedRun
<1>9. \A i \in s + 1 .. (s + 1) + k - 1 : Valid(nv_blocks, v, i)
  <2>1. \A i \in s + 1 .. (s + 1) + k - 1 : i \in s .. s + k
    BY <1>1
  <2> QED
    BY <1>8, <2>1
<1>10. k > 0 => nv_blocks[block_id(s + 1)].entry_count \in 1 .. Capacity
  <2>1. k > 0 => s + 1 \in s .. s + k
    BY <1>1
  <2> QED
    BY <1>8, <2>1 DEF Valid
<1>11. meta.pending_blocks <= BlockCount
  BY DEF Counted
<1>12. k < BlockCount /\ k \in Nat /\ s \in Int
  BY <1>1, <1>11, BlockCountAssumption
<1>13. m2.pending_entries = EntriesIn(nv_blocks, m2.oldest_seq, m2.pending_blocks) - m2.oldest_offset
  BY <1>2, <1>4, <1>5, <1>7 DEF e
<1>14. m2.oldest_offset < IF m2.pending_blocks = 0 THEN 1
                          ELSE nv_blocks[block_id(m2.oldest_seq)].entry_count
  <2> HIDE DEF s, k
  <2>1. k > 0 => 0 < nv_blocks[block_id(s + 1)].entry_count
    BY <1>10, CapacityAssumption
  <2>2. 0 < IF k = 0 THEN 1 ELSE nv_blocks[block_id(s + 1)].entry_count
    BY <1>12, <2>1
  <2>3. m2.pending_blocks = k /\ m2.oldest_seq = s + 1 /\ m2.oldest_offset = 0
    BY <1>5, <1>7
  <2> QED
    BY <2>2, <2>3
<1>15. \A i \in m2.oldest_seq .. m2.next_seq - 1 : Valid(nv_blocks, v, i)
  <2>1. m2.next_seq - 1 = (s + 1) + k - 1
    BY <1>7, <1>12
  <2> QED
    BY <1>7, <1>9, <2>1
<1>16. Counted(m2, nv_blocks, v)
  BY <1>7, <1>12, <1>13, <1>14, <1>15, BlockCountAssumption DEF Counted
<1> QED
  BY <1>1, <1>4, <1>5, <1>7, <1>12, <1>16

(* Some entries of the oldest block dropped, but not its last.             *)
LEMMA CountedDropSome ==
  ASSUME NEW m \in Meta, NEW b \in FlashContents, NEW v, Counted(m, b, v),
         m.pending_blocks > 0, NEW n \in Nat,
         n < b[block_id(m.oldest_seq)].entry_count - m.oldest_offset,
         NEW m2, m2 = [m EXCEPT !.pending_entries = @ - n, !.oldest_offset = @ + n]
  PROVE  /\ m2 \in Meta /\ Counted(m2, b, v)
         /\ m2.pending_blocks = m.pending_blocks /\ m2.oldest_seq = m.oldest_seq
<1>1. /\ m.pending_entries \in Nat /\ m.oldest_offset \in Nat
      /\ m.pending_blocks \in Nat
  BY DEF Meta
<1> DEFINE x == b[block_id(m.oldest_seq)].entry_count
           e == EntriesIn(b, m.oldest_seq + 1, m.pending_blocks - 1)
           a == EntriesIn(b, m.oldest_seq, m.pending_blocks)
<1>2. /\ x \in Nat /\ e \in Nat /\ a \in Nat
      /\ m.pending_entries = x - m.oldest_offset + e
      /\ m.pending_entries + m.oldest_offset = a
  BY CountedOldest, CountedRun DEF Block
<1>3. n < x - m.oldest_offset
  OBVIOUS
<1> HIDE DEF x, e, a
<1>4. n <= m.pending_entries /\ m.oldest_offset + n < x
  BY <1>1, <1>2, <1>3
<1>5. /\ m2 \in Meta
      /\ m2.pending_blocks = m.pending_blocks
      /\ m2.oldest_seq = m.oldest_seq /\ m2.next_seq = m.next_seq
      /\ m2.pending_entries = m.pending_entries - n
      /\ m2.oldest_offset = m.oldest_offset + n
  BY <1>4, DropSomeFields
<1>6. m2.pending_entries = a - m2.oldest_offset
  BY <1>1, <1>2, <1>4, <1>5
<1> QED
  BY <1>1, <1>4, <1>5, <1>6 DEF Counted, x, a

(* A block taken in before the oldest, by a rebuild.                       *)
LEMMA CountedOlder ==
  ASSUME NEW m \in Meta, NEW b \in FlashContents, NEW v, Counted(m, b, v),
         m.pending_blocks < BlockCount, m.oldest_offset = 0,
         NEW s, s = m.oldest_seq - 1, Valid(b, v, s)
  PROVE  LET m2 == WithOlder(m, s, b[block_id(s)].entry_count)
         IN  m2 \in Meta /\ Counted(m2, b, v) /\ m2.oldest_offset = 0
<1> DEFINE m2 == WithOlder(m, s, b[block_id(s)].entry_count)
<1>1. /\ m.oldest_seq \in Int /\ m.pending_blocks \in Nat /\ m.next_seq \in Nat
      /\ m.pending_entries \in Nat
  BY DEF Meta
<1> DEFINE k == m.pending_blocks
           p == m.pending_blocks + 1
           x == b[block_id(s)].entry_count
           e == m.pending_entries + x
<1>2. x \in 1 .. Capacity
  BY DEF Valid
<1>3. s \in Int /\ p \in Nat /\ e \in Nat /\ x \in Nat /\ x > 0
  BY <1>1, <1>2, CapacityAssumption
<1>4. m2 = [m EXCEPT !.pending_blocks = p, !.pending_entries = e, !.oldest_seq = s]
  BY DEF WithOlder
<1>5. m.next_seq = m.oldest_seq + m.pending_blocks
  BY DEF Counted
<1>6. m.next_seq = s + p /\ k + 1 = p /\ s + k = m.oldest_seq + m.pending_blocks - 1
      /\ p <= BlockCount /\ p # 0
  BY <1>1, <1>5, BlockCountAssumption
<1>7. \A i \in s .. s + k : Valid(b, v, i)
  <2> TAKE i \in s .. s + k
  <2>1. CASE i = s
    BY <2>1
  <2>2. CASE i # s
    <3>1. i \in Int /\ s <= i /\ i <= s + k
      BY <1>1, <1>3
    <3>2. m.oldest_seq <= i
      BY <1>1, <1>3, <2>2, <3>1
    <3>3. i <= m.oldest_seq + m.pending_blocks - 1
      BY <1>6, <3>1
    <3>4. i \in m.oldest_seq .. m.oldest_seq + m.pending_blocks - 1
      BY <1>1, <3>1, <3>2, <3>3
    <3> QED
      BY <3>4, CountedRun
  <2> QED
    BY <2>1, <2>2
<1>8. EntriesIn(b, s, k + 1) = x + EntriesIn(b, s + 1, k)
  BY <1>1, <1>3, <1>7, EntriesOldest DEF Valid
<1>9. EntriesIn(b, s + 1, k) = m.pending_entries
  <2>1. s + 1 = m.oldest_seq
    BY <1>1
  <2>2. m.pending_entries + m.oldest_offset = EntriesIn(b, m.oldest_seq, k)
    BY CountedRun
  <2> QED
    BY <1>1, <2>1, <2>2
<1> HIDE DEF p, e, m2
<1>10. /\ m2 \in Meta
       /\ m2.pending_blocks = p /\ m2.pending_entries = e /\ m2.oldest_seq = s
       /\ m2.next_seq = m.next_seq /\ m2.oldest_offset = m.oldest_offset
  BY <1>3, <1>4, ZenonT(30) DEF Meta
<1>11. m2.pending_entries = EntriesIn(b, s, p) - m2.oldest_offset
  BY <1>1, <1>3, <1>6, <1>8, <1>9, <1>10 DEF e
<1>12. \A i \in m2.oldest_seq .. m2.next_seq - 1 : Valid(b, v, i)
  BY <1>1, <1>3, <1>6, <1>7, <1>10
<1>13. m2 \in Meta /\ Counted(m2, b, v) /\ m2.oldest_offset = 0
  BY <1>3, <1>6, <1>10, <1>11, <1>12 DEF Counted
<1> QED
  BY <1>13 DEF m2

(* Other slots may change.                                                 *)
LEMMA CountedFrame ==
  ASSUME NEW m \in Meta, NEW b, NEW b2, NEW v, Counted(m, b, v),
         \A i \in m.oldest_seq .. m.next_seq - 1 : b2[block_id(i)] = b[block_id(i)]
  PROVE  Counted(m, b2, v)
<1>1. /\ m.oldest_seq \in Int /\ m.pending_blocks \in Nat /\ m.next_seq \in Nat
      /\ m.next_seq - 1 = m.oldest_seq + m.pending_blocks - 1
  BY DEF Meta, Counted
<1>2. EntriesIn(b2, m.oldest_seq, m.pending_blocks)
        = EntriesIn(b, m.oldest_seq, m.pending_blocks)
  BY <1>1, EntriesFrame
<1>3. \A i \in m.oldest_seq .. m.next_seq - 1 : Valid(b2, v, i)
  BY DEF Counted, Valid
<1>4. m.pending_blocks > 0 =>
        b2[block_id(m.oldest_seq)] = b[block_id(m.oldest_seq)]
  BY <1>1
<1> QED
  BY <1>1, <1>2, <1>3, <1>4 DEF Counted

-----------------------------------------------------------------------------
(* Boot keeps the count.                                                   *)

LEMMA LoadableIsValid ==
  ASSUME NEW s
  PROVE  Loadable(s) <=> Valid(nv_blocks, version, s)
BY DEF Loadable, RecordValid, Valid

LEMMA ResetIsCounted ==
  ASSUME TypeOK, NEW b \in FlashContents, NEW v
  PROVE  /\ ResetMeta \in Meta /\ ResetMeta.pending_blocks = 0
         /\ Counted(ResetMeta, b, v)
<1>1. /\ ResetMeta \in Meta
      /\ ResetMeta.pending_blocks = 0 /\ ResetMeta.pending_entries = 0
      /\ ResetMeta.oldest_offset = 0 /\ ResetMeta.next_seq = ResetMeta.oldest_seq
  BY ResetMetaType DEF ResetMeta
<1> QED
  BY <1>1, CountedEmpty

(* Where the queue in RAM begins and ends is a number.                     *)
LEMMA EndsType ==
  ASSUME TypeOK, Counted(meta, nv_blocks, version)
  PROVE  HeadOf(meta) \in Nat /\ EndOf(meta) \in Nat
<1>1. CASE meta.pending_blocks = 0
  BY <1>1 DEF HeadOf, EndOf, TypeOK
<1>2. CASE meta.pending_blocks # 0
  <2>1. /\ meta \in Meta /\ nv_blocks \in FlashContents
        /\ meta.pending_blocks \in Nat /\ meta.pending_blocks > 0
        /\ meta.oldest_seq \in Int /\ meta.oldest_offset \in Nat
        /\ meta.next_seq - 1 = meta.oldest_seq + meta.pending_blocks - 1
    BY <1>2 DEF TypeOK, FlashContents, Meta, Counted
  <2>2. BlockOf(meta.oldest_seq) \in Block
    BY <2>1, CountedOldest DEF BlockOf
  <2>3. /\ meta.next_seq - 1 \in Int
        /\ meta.next_seq - 1 \in meta.oldest_seq .. meta.oldest_seq + meta.pending_blocks - 1
    BY <2>1
  <2>4. Valid(nv_blocks, version, meta.next_seq - 1)
    BY <2>1, <2>3, CountedRun
  <2>5. BlockOf(meta.next_seq - 1) \in Block
    BY <2>1, <2>3, <2>4, SlotOfSequence DEF Valid, FlashContents, BlockOf
  <2> QED
    BY <1>2, <2>1, <2>2, <2>5 DEF HeadOf, EndOf, Block
<1> QED
  BY <1>1, <1>2

(* Attempts that end with the store down again.                            *)
LEMMA BootFailsCounts ==
  ASSUME CountInv, InitFails \/ ScanFails
  PROVE  CountInv'
<1>1. UNCHANGED <<nvs, version, ghosts>> /\ pc' = "down" /\ meta' = ResetMeta
  BY DEF InitFails, ScanFails, InitError
<1>2. TypeOK'
  <2>1. faults' \in SUBSET FaultBit
    BY DEF CountInv, TypeOK, InitFails, ScanFails, FaultBit
  <2>2. budget' \in Nat
    BY DEF CountInv, TypeOK, InitFails, ScanFails, NvsFails
  <2>3. QED
    BY <2>1, <2>2, ResetMetaType
    DEF CountInv, TypeOK, InitFails, ScanFails, InitError, nvs, ghosts, InitPc
<1>3. Counted(meta', nv_blocks', version') /\ meta'.pending_blocks = 0
  BY <1>1, ResetIsCounted DEF CountInv, TypeOK, FlashContents, nvs
<1> QED
  BY <1>1, <1>2, <1>3 DEF CountInv, AtStep, nvs, CallPc

LEMMA ErasedCounts ==
  ASSUME CountInv, MountErases \/ Clear
  PROVE  CountInv'
<1>1. /\ nv_blocks' = [i \in Slot |-> NoBlock] /\ nv_meta' = NoMeta
      /\ (meta' = meta /\ pc = "down") \/ meta' = ResetMeta
      /\ pc' \in {"mounted", "saveMeta"}
  BY DEF MountErases, Clear
<1>2. TypeOK'
  BY ResetMetaType DEF CountInv, TypeOK, MountErases, Clear, NvsFails, InitPc, env
<1>3. nv_blocks \in FlashContents /\ nv_blocks' \in FlashContents /\ meta \in Meta
  BY <1>1 DEF CountInv, TypeOK, FlashContents
<1>4. Counted(meta', nv_blocks', version') /\ meta'.pending_blocks = 0
  <2>1. CASE meta' = ResetMeta
    BY <1>3, <2>1, ResetIsCounted DEF CountInv
  <2>2. CASE meta' = meta /\ pc = "down"
    <3>1. /\ Counted(meta, nv_blocks, version) /\ meta.pending_blocks = 0
      BY <2>2 DEF CountInv, AtStep
    <3>2. /\ meta.oldest_offset = 0 /\ meta.pending_entries = 0
          /\ meta.next_seq = meta.oldest_seq
      BY <1>3, <3>1, CountedRun DEF Counted, Meta
    <3> QED
      BY <1>3, <2>2, <3>1, <3>2, CountedEmpty
  <2> QED
    BY <1>1, <2>1, <2>2
<1> QED
  BY <1>1, <1>2, <1>4 DEF CountInv, AtStep, CallPc

LEMMA ErasureStopsCounts ==
  ASSUME CountInv, ClearStops \/ EraseStops
  PROVE  CountInv'
<1>0. SomeRecordsGo
  BY DEF ClearStops, EraseStops
<1>1. TypeOK'
  <2>1. nv_blocks' \in [Slot -> Block \union {NoBlock}]
    BY <1>0 DEF CountInv, TypeOK, SomeRecordsGo
  <2>2. nv_meta' \in Meta \union {NoMeta}
    BY <1>0 DEF CountInv, TypeOK, SomeRecordsGo
  <2>3. faults' \in SUBSET FaultBit
    BY DEF CountInv, TypeOK, ClearStops, EraseStops, PowerFails, FaultBit
  <2>4. budget' \in Nat /\ resets' \in Nat
    BY DEF CountInv, TypeOK, ClearStops, EraseStops, PowerFails, NvsFails
  <2> QED
    BY <2>1, <2>2, <2>3, <2>4, ResetMetaType
    DEF CountInv, TypeOK, ClearStops, EraseStops, InitError, ghosts, InitPc
<1>2. pc' = "down" /\ meta' = ResetMeta /\ nv_meta' \in {nv_meta, NoMeta}
  BY <1>0 DEF ClearStops, EraseStops, SomeRecordsGo, InitError
<1>3. Counted(meta', nv_blocks', version') /\ meta'.pending_blocks = 0
  <2>1. version' = version
    BY DEF ClearStops, EraseStops
  <2> QED
    BY <1>1, <1>2, <2>1, ResetIsCounted DEF CountInv, TypeOK, FlashContents
<1> QED
  BY <1>1, <1>2, <1>3 DEF CountInv, AtStep, CallPc

(* A contact store takes metadata over only without entries, and so only   *)
(* without blocks: the count starts from nothing.                          *)
LEMMA ReadMetaCounts ==
  ASSUME FlushBatch = 0, CountInv, ReadMeta
  PROVE  CountInv'
<1>1. UNCHANGED <<nvs, version, ghosts>>
  BY DEF ReadMeta, env
<1>2. TypeOK'
  BY DEF CountInv, TypeOK, ReadMeta, InitPc, nvs, ghosts, env
<1>3. CASE meta' = meta /\ pc' \in {"findNewest", "clear"}
  <2>1. meta.pending_blocks = 0
    BY DEF ReadMeta, CountInv, AtStep
  <2> QED
    BY <1>1, <1>2, <1>3, <2>1 DEF CountInv, AtStep, nvs, CallPc
<1>4. CASE meta' = nv_meta /\ nv_meta # NoMeta /\ Plausible(nv_meta) /\ pc' = "scan"
  <2>1. nv_meta \in Meta /\ nv_blocks \in FlashContents /\ Saved(nv_meta)
    BY <1>4 DEF CountInv, TypeOK, FlashContents
  <2>2. /\ nv_meta.pending_blocks \in Nat /\ nv_meta.pending_entries \in Nat
        /\ nv_meta.oldest_seq \in Int
    BY <2>1 DEF Meta
  <2>3. nv_meta.pending_entries = 0
    BY <1>4, <2>2 DEF Plausible
  <2>4. /\ nv_meta.pending_blocks = 0 /\ nv_meta.oldest_offset = 0
        /\ nv_meta.next_seq = nv_meta.oldest_seq
    BY <1>4, <2>1, <2>2, <2>3 DEF Saved, Plausible
  <2>5. Counted(nv_meta, nv_blocks, version)
    BY <2>1, <2>3, <2>4, CountedEmpty
  <2> QED
    BY <1>1, <1>2, <1>4, <2>5 DEF CountInv, AtStep, nvs, CallPc
<1> QED
  BY <1>3, <1>4 DEF ReadMeta

LEMMA FindNewestCounts ==
  ASSUME CountInv, FindNewest
  PROVE  CountInv'
<1>1. UNCHANGED <<nvs, version>> /\ pc' \in {"saveMeta", "recount"}
  BY DEF FindNewest, env
<1>2. nv_blocks \in FlashContents /\ TypeOK
  BY DEF CountInv, TypeOK, FlashContents
<1>3. /\ meta' \in Meta /\ meta'.pending_blocks = 0 /\ meta'.pending_entries = 0
      /\ meta'.oldest_offset = 0 /\ meta'.next_seq = meta'.oldest_seq
  <2>1. CASE meta' = ResetMeta
    BY <1>2, <2>1, ResetMetaType DEF ResetMeta
  <2>2. CASE meta' # ResetMeta
    <3>1. PICK i \in Slot :
            /\ RecordValid(nv_blocks[i])
            /\ meta' = [ResetMeta EXCEPT !.oldest_seq = nv_blocks[i].sequence + 1,
                                         !.next_seq = nv_blocks[i].sequence + 1]
      BY <2>2 DEF FindNewest
    <3>2. nv_blocks[i] \in Block
      BY <1>2, <3>1 DEF RecordValid, FlashContents
    <3>3. nv_blocks[i].sequence + 1 \in Nat
      BY <3>2 DEF Block
    <3> DEFINE x == nv_blocks[i].sequence + 1
    <3>4. meta' = [ResetMeta EXCEPT !.oldest_seq = x, !.next_seq = x] /\ x \in Nat
      BY <3>1, <3>3
    <3> HIDE DEF x
    <3>5. x \in Int
      BY <3>4
    <3>6. version \in Nat
      BY <1>2 DEF TypeOK
    <3> QED
      BY <3>4, <3>5, <3>6 DEF ResetMeta, Meta
  <2> QED
    BY <2>1, <2>2
<1>4. TypeOK'
  BY <1>1, <1>2, <1>3 DEF TypeOK, FindNewest, InitPc, nvs, ghosts, env
<1>5. Counted(meta', nv_blocks', version')
  BY <1>1, <1>2, <1>3, CountedEmpty DEF nvs
<1> QED
  BY <1>1, <1>3, <1>4, <1>5 DEF CountInv, AtStep, nvs, CallPc

LEMMA RecountCounts ==
  ASSUME CountInv, Recount
  PROVE  CountInv'
<1>1. /\ UNCHANGED <<nvs, version, ghosts>> /\ pc = "recount"
      /\ pc' \in {"saveMeta", "recount"}
  BY DEF Recount
<1>2. /\ nv_blocks \in FlashContents /\ TypeOK /\ meta \in Meta
      /\ Counted(meta, nv_blocks, version) /\ meta.oldest_offset = 0
  BY <1>1 DEF CountInv, TypeOK, FlashContents, AtStep
<1>3. meta' \in Meta /\ Counted(meta', nv_blocks, version)
      /\ (pc' = "recount" => meta'.oldest_offset = 0)
  <2>1. CASE pc' = "saveMeta" /\ meta' \in {meta, ResetMeta}
    BY <1>2, <2>1, ResetIsCounted
  <2>2. CASE ~(pc' = "saveMeta" /\ meta' \in {meta, ResetMeta})
    <3> DEFINE s == meta.oldest_seq - 1
    <3>1. /\ meta.pending_blocks < BlockCount /\ Loadable(s)
          /\ meta' = [meta EXCEPT
                        !.pending_blocks = @ + 1,
                        !.pending_entries = @ + BlockOf(s).entry_count,
                        !.oldest_seq = s]
      BY <2>2 DEF Recount
    <3>2. Valid(nv_blocks, version, s)
      BY <3>1, LoadableIsValid
    <3>3. s = meta.oldest_seq - 1 /\ meta.pending_blocks < BlockCount
      BY <3>1
    <3>4. meta' = WithOlder(meta, s, nv_blocks[block_id(s)].entry_count)
      BY <3>1 DEF WithOlder, BlockOf
    <3> HIDE DEF s
    <3> QED
      BY <1>2, <3>2, <3>3, <3>4, CountedOlder
  <2> QED
    BY <2>1, <2>2
<1>4. TypeOK'
  <2>1. budget' \in Nat
    BY <1>2 DEF Recount, NvsOk, NvsFails, TypeOK
  <2> QED
    BY <1>1, <1>2, <1>3, <2>1 DEF TypeOK, Recount, InitPc, nvs, ghosts
<1> QED
  BY <1>1, <1>3, <1>4 DEF CountInv, AtStep, nvs, CallPc

LEMMA SaveBootCounts ==
  ASSUME CountInv, SaveRebuilt \/ SaveScanned
  PROVE  CountInv'
<1>1. /\ UNCHANGED <<nv_blocks, version>> /\ TypeOK
      /\ nv_blocks \in FlashContents /\ meta \in Meta
      /\ Counted(meta, nv_blocks, version)
  BY DEF SaveRebuilt, SaveScanned, CountInv, TypeOK, FlashContents
<1>2. HeadOf(meta) \in Nat /\ EndOf(meta) \in Nat
  BY <1>1, EndsType
<1>3. faults' \in SUBSET FaultBit
  BY <1>1 DEF SaveRebuilt, SaveScanned, TypeOK, FaultBit
<1>4. CASE nv_meta' = meta /\ meta' = meta /\ pc' \in {"scan", "ready"}
  <2>1. TypeOK'
    BY <1>1, <1>2, <1>3, <1>4
    DEF SaveRebuilt, SaveScanned, SaveOk, NvsOk, NvsFails, InitError, TypeOK, InitPc
  <2>2. Saved(nv_meta')
    BY <1>1, <1>4, CountedSaved
  <2> QED
    BY <1>1, <1>4, <2>1, <2>2 DEF CountInv, AtStep, CallPc
<1>5. CASE nv_meta' = nv_meta /\ meta' = ResetMeta /\ pc' = "down"
  <2>1. TypeOK'
    <3>1. tail' \in Nat /\ reached' \in Nat
      BY <1>1, <1>2 DEF SaveRebuilt, SaveScanned, TypeOK, ghosts
    <3>2. budget' \in Nat
      BY <1>1 DEF SaveRebuilt, SaveScanned, SaveOk, NvsOk, NvsFails, TypeOK
    <3>3. meta_dirty' \in BOOLEAN
      BY DEF SaveRebuilt, SaveScanned, SaveOk, InitError
    <3> QED
      BY <1>1, <1>3, <1>5, <3>1, <3>2, <3>3, ResetMetaType
      DEF SaveRebuilt, SaveScanned, TypeOK, InitPc
  <2>2. Counted(meta', nv_blocks', version') /\ meta'.pending_blocks = 0
    BY <1>1, <1>5, ResetIsCounted
  <2> QED
    BY <1>1, <1>5, <2>1, <2>2 DEF CountInv, AtStep, CallPc
<1> QED
  BY <1>4, <1>5 DEF SaveRebuilt, SaveScanned, SaveOk, InitError

LEMMA ScanCounts ==
  ASSUME CountInv, ScanTakes \/ ScanEnds
  PROVE  CountInv'
<1>1. /\ UNCHANGED <<nvs, env, ghosts>> /\ pc' \in {"scan", "ready", "saveScan"}
      /\ TypeOK /\ nv_blocks \in FlashContents /\ meta \in Meta
      /\ Counted(meta, nv_blocks, version)
  BY DEF ScanTakes, ScanEnds, CountInv, TypeOK, FlashContents
<1>2. meta' \in Meta /\ Counted(meta', nv_blocks, version)
  <2>1. CASE ScanEnds
    BY <1>1, <2>1 DEF ScanEnds
  <2>2. CASE ScanTakes
    <3> DEFINE n == BlockOf(meta.next_seq).entry_count
    <3>1. /\ meta.pending_blocks < BlockCount /\ meta' = WithNewest(meta, n)
          /\ Valid(nv_blocks, version, meta.next_seq)
          /\ n = nv_blocks[block_id(meta.next_seq)].entry_count
      BY <2>2, LoadableIsValid DEF ScanTakes, BlockOf
    <3> HIDE DEF n
    <3> QED
      BY <1>1, <3>1, CountedNewest
  <2> QED
    BY <2>1, <2>2
<1>3. TypeOK'
  <2>1. faults' \in SUBSET FaultBit
    BY <1>1 DEF ScanTakes, ScanEnds, TypeOK, FaultBit
  <2> QED
    BY <1>1, <1>2, <2>1 DEF ScanTakes, ScanEnds, TypeOK, InitPc, nvs, env, ghosts
<1> QED
  BY <1>1, <1>2, <1>3 DEF CountInv, AtStep, nvs, env, CallPc

-----------------------------------------------------------------------------
(* Calls keep the count.                                                   *)

(* The slots next to a run that leaves one free are not the run's.         *)
LEMMA SlotsBeside ==
  ASSUME NEW m \in Meta, NEW b, NEW v, Counted(m, b, v),
         m.pending_blocks < BlockCount,
         NEW s \in m.oldest_seq .. m.next_seq - 1
  PROVE  /\ block_id(s) # block_id(m.next_seq)
         /\ block_id(s) # block_id(m.oldest_seq - 1)
<1>1. BlockCount \in Nat
  BY BlockCountAssumption
<1>2. /\ s \in Int /\ m.next_seq \in Int /\ m.oldest_seq - 1 \in Int
      /\ s < m.next_seq /\ m.next_seq - s < BlockCount
      /\ m.oldest_seq - 1 < s /\ s - (m.oldest_seq - 1) < BlockCount
  BY <1>1 DEF Counted, Meta
<1> QED
  BY <1>2, SlotInjective

(* What a store that serves knows.                                         *)
LEMMA ServingFacts ==
  ASSUME CountInv
  PROVE  /\ TypeOK /\ nv_blocks \in FlashContents /\ meta \in Meta
         /\ Counted(meta, nv_blocks, version)
         /\ meta.pending_blocks \in Nat /\ meta.pending_blocks <= BlockCount
         /\ meta.next_seq \in Nat
BY DEF CountInv, TypeOK, FlashContents, Counted, Meta

LEMMA AppendCounts ==
  ASSUME CountInv, NEW n \in 1 .. Capacity, Append(n)
  PROVE  CountInv'
<1>1. /\ UNCHANGED <<nvs, meta, version>> /\ pc' = "appendWrite"
      /\ meta.pending_blocks < BlockCount /\ entry_count' = n
  BY DEF Append, env
<1>2. n > 0 /\ n \in 0 .. Capacity
  BY CapacityAssumption
<1>3. TypeOK'
  BY <1>2 DEF CountInv, TypeOK, Append, CallPc, nvs, env, ghosts
<1> QED
  BY <1>1, <1>2, <1>3 DEF CountInv, AtStep, nvs

(* The oldest block goes: its metadata are saved without it.               *)
LEMMA RetireCounts ==
  ASSUME CountInv, meta.pending_blocks > 0,
         SaveOk(WithoutOldest(Remaining)), UNCHANGED <<nv_blocks, version>>
  PROVE  /\ nv_meta' \in Meta /\ meta' \in Meta /\ budget' \in Nat
         /\ meta_dirty' = FALSE
         /\ Counted(meta', nv_blocks', version') /\ Saved(nv_meta')
         /\ meta'.pending_blocks < BlockCount
         /\ meta.oldest_seq = meta'.oldest_seq - 1
<1> DEFINE m == WithoutOldest(Remaining)
<1>1. /\ m \in Meta /\ Counted(m, nv_blocks, version)
      /\ m.pending_blocks < BlockCount /\ m.oldest_seq - 1 = meta.oldest_seq
  BY ServingFacts, CountedWithoutOldest
<1>2. nv_meta' = m /\ meta' = m /\ meta_dirty' = FALSE /\ budget' = budget
  BY DEF SaveOk, NvsOk
<1> HIDE DEF m
<1>3. Saved(m)
  BY <1>1, ServingFacts, CountedSaved
<1> QED
  BY <1>1, <1>2, <1>3, ServingFacts DEF TypeOK

LEMMA AppendDiscardsCounts ==
  ASSUME CountInv, NEW n \in 1 .. Capacity, AppendDiscards(n)
  PROVE  CountInv'
<1>1. /\ pc = "ready" /\ meta.pending_blocks > 0
      /\ UNCHANGED <<nv_blocks, version, resets, tail>>
      /\ n > 0 /\ n \in 0 .. Capacity
  BY ServingFacts, BlockCountAssumption, CapacityAssumption DEF AppendDiscards
<1>2. /\ BlockOf(meta.oldest_seq) \in Block
      /\ Remaining \in Nat /\ Remaining <= meta.pending_entries
      /\ meta.pending_entries \in Nat
  BY <1>1, ServingFacts, CountedOldest, CountedWithoutOldest DEF BlockOf, Meta
<1>3. (IF Remaining < meta.pending_entries THEN Remaining
       ELSE meta.pending_entries) = Remaining
  BY <1>2
<1>4. faults' \in SUBSET FaultBit
  BY <1>1 DEF AppendDiscards, LoadFails, CountInv, TypeOK, FaultBit
<1>5. CASE /\ SaveOk(WithoutOldest(Remaining))
           /\ entry_count' = n /\ retired_sequence' = meta.oldest_seq
           /\ pc' = "discardDelete"
           /\ reached' = BlockOf(meta.oldest_seq).first
                         + BlockOf(meta.oldest_seq).entry_count
  <2>1. /\ nv_meta' \in Meta /\ meta' \in Meta /\ budget' \in Nat
        /\ meta_dirty' = FALSE
        /\ Counted(meta', nv_blocks', version') /\ Saved(nv_meta')
        /\ meta'.pending_blocks < BlockCount
        /\ meta.oldest_seq = meta'.oldest_seq - 1
    BY <1>1, <1>5, RetireCounts
  <2>2. reached' \in Nat /\ retired_sequence' \in Int
    BY <1>2, <1>5, ServingFacts DEF Block, Meta
  <2>3. TypeOK'
    BY <1>1, <1>4, <1>5, <2>1, <2>2 DEF CountInv, TypeOK, CallPc
  <2> QED
    BY <1>1, <1>5, <2>1, <2>3 DEF CountInv, AtStep
<1>6. CASE /\ UNCHANGED <<nv_meta, meta, meta_dirty, entry_count,
                          retired_sequence, pc, reached>>
           /\ NvsFails \/ NvsOk
  <2>1. TypeOK'
    BY <1>1, <1>4, <1>6 DEF CountInv, TypeOK, NvsFails, NvsOk
  <2> QED
    BY <1>1, <1>6, <2>1 DEF CountInv, AtStep, CallPc
<1> QED
  BY <1>3, <1>5, <1>6 DEF AppendDiscards, SaveFails, LoadFails

(* The retired block's slot is not one of the run's.                       *)
LEMMA DeleteCounts ==
  ASSUME CountInv, DiscardDeletes \/ DropDeletes
  PROVE  CountInv'
<1>1. /\ pc \in {"discardDelete", "dropDelete"}
      /\ \/ pc = "discardDelete" /\ pc' = "appendWrite"
         \/ pc = "dropDelete" /\ pc' = "ready"
      /\ UNCHANGED <<nv_meta, meta, meta_dirty, entry_count, version, resets,
                     ghosts>>
      /\ retired_sequence' = 0
  BY DEF DiscardDeletes, DropDeletes, DeleteRetired
<1>2. /\ retired_sequence = meta.oldest_seq - 1 /\ meta.pending_blocks < BlockCount
      /\ pc = "discardDelete" => entry_count > 0
  BY <1>1 DEF CountInv, AtStep, CallPc
<1> DEFINE r == block_id(retired_sequence)
<1>3. /\ r \in Slot
      /\ \A s \in meta.oldest_seq .. meta.next_seq - 1 :
           block_id(s) # r /\ block_id(s) \in Slot
  BY <1>2, ServingFacts, SlotsBeside, SlotOfSequence DEF Meta
<1>4. \/ nv_blocks' = [nv_blocks EXCEPT ![r] = NoBlock]
      \/ nv_blocks' = nv_blocks
  BY DEF DiscardDeletes, DropDeletes, DeleteRetired
<1> HIDE DEF r
<1>5. /\ nv_blocks' \in FlashContents
      /\ \A s \in meta.oldest_seq .. meta.next_seq - 1 :
           nv_blocks'[block_id(s)] = nv_blocks[block_id(s)]
  BY <1>3, <1>4, ServingFacts DEF FlashContents
<1>6. Counted(meta', nv_blocks', version')
  <2>1. Counted(meta, nv_blocks', version)
    BY <1>5, ServingFacts, CountedFrame
  <2> QED
    BY <1>1, <2>1
<1>7. TypeOK'
  <2>1. faults' \in SUBSET FaultBit
    BY DEF DiscardDeletes, DropDeletes, DeleteRetired, CountInv, TypeOK, FaultBit
  <2>2. budget' \in Nat
    BY DEF DiscardDeletes, DropDeletes, DeleteRetired, NvsOk, NvsFails, CountInv,
       TypeOK
  <2> QED
    BY <1>1, <1>5, <2>1, <2>2 DEF CountInv, TypeOK, FlashContents, CallPc, ghosts
<1> QED
  BY <1>1, <1>2, <1>6, <1>7 DEF CountInv, AtStep, CallPc

(* The block is written to a slot no block of the run is in.               *)
LEMMA AppendWritesCounts ==
  ASSUME CountInv, AppendWrites
  PROVE  CountInv'
<1>1. /\ pc = "appendWrite"
      /\ UNCHANGED <<nv_meta, meta, meta_dirty, retired_sequence, version, resets,
                     ghosts>>
  BY DEF AppendWrites
<1>2. /\ meta.pending_blocks < BlockCount /\ entry_count > 0
      /\ entry_count \in 0 .. Capacity /\ entry_count \in Nat
      /\ version \in Nat /\ tail \in Nat
  BY <1>1, CapacityAssumption DEF CountInv, AtStep, CallPc, TypeOK
<1>3. budget' \in Nat /\ faults' \in SUBSET FaultBit
  <2>1. budget' \in Nat
    BY ServingFacts DEF AppendWrites, NvsOk, NvsFails, TypeOK
  <2>2. faults \in SUBSET FaultBit
    BY ServingFacts DEF TypeOK
  <2>3. faults' = faults \/ faults' = faults \union {"write"}
    BY DEF AppendWrites
  <2> QED
    BY <2>1, <2>2, <2>3 DEF FaultBit
<1>4. CASE pc' = "ready" /\ UNCHANGED nv_blocks /\ entry_count' = 0
  <2>1. TypeOK'
    BY <1>1, <1>3, <1>4, CapacityAssumption DEF CountInv, TypeOK, ghosts
  <2> QED
    BY <1>1, <1>4, <2>1 DEF CountInv, AtStep, CallPc
<1> DEFINE r == block_id(meta.next_seq)
           block == [version |-> version, sequence |-> meta.next_seq,
                     entry_count |-> entry_count, first |-> tail]
<1>5. CASE /\ nv_blocks' = [nv_blocks EXCEPT ![r] = block]
           /\ pc' = "appendCommit" /\ UNCHANGED entry_count
  <2>1. block \in Block
    BY <1>2, ServingFacts DEF Block
  <2>2. /\ block.version = version /\ block.sequence = meta.next_seq
        /\ block.entry_count = entry_count
    OBVIOUS
  <2>3. /\ r \in Slot
        /\ \A s \in meta.oldest_seq .. meta.next_seq - 1 :
             block_id(s) # r /\ block_id(s) \in Slot
    BY <1>2, ServingFacts, SlotsBeside, SlotOfSequence DEF Meta
  <2> HIDE DEF block
  <2>4. /\ nv_blocks' \in FlashContents /\ nv_blocks'[r] = block
        /\ \A s \in meta.oldest_seq .. meta.next_seq - 1 :
             nv_blocks'[block_id(s)] = nv_blocks[block_id(s)]
    <3> HIDE DEF r
    <3> QED
      BY <1>5, <2>1, <2>3, ServingFacts DEF FlashContents
  <2>5. Counted(meta', nv_blocks', version')
    <3>1. Counted(meta, nv_blocks', version)
      BY <2>4, ServingFacts, CountedFrame
    <3> QED
      BY <1>1, <3>1
  <2>6. /\ Valid(nv_blocks', version, meta.next_seq)
        /\ nv_blocks'[block_id(meta.next_seq)].entry_count = entry_count
    <3>1. block # NoBlock
      BY <2>1, SentinelAssumption
    <3>2. entry_count \in 1 .. Capacity
      BY <1>2, CapacityAssumption
    <3> QED
      BY <2>2, <2>4, <3>1, <3>2 DEF Valid
  <2>7. TypeOK'
    BY <1>1, <1>3, <1>5, <2>4 DEF CountInv, TypeOK, FlashContents, CallPc, ghosts
  <2> QED
    BY <1>1, <1>2, <1>5, <2>5, <2>6, <2>7 DEF CountInv, AtStep, CallPc, BlockOf
<1> QED
  BY <1>4, <1>5 DEF AppendWrites

LEMMA AppendCommitsCounts ==
  ASSUME CountInv, AppendCommits
  PROVE  CountInv'
<1>1. /\ pc = "appendCommit" /\ pc' = "ready" /\ entry_count' = 0
      /\ UNCHANGED <<nv_blocks, retired_sequence, version, resets, reached>>
  BY DEF AppendCommits
<1>2. /\ meta.pending_blocks < BlockCount
      /\ Valid(nv_blocks, version, meta.next_seq)
      /\ nv_blocks[block_id(meta.next_seq)].entry_count = entry_count
  BY <1>1 DEF CountInv, AtStep, CallPc, BlockOf
<1>3. /\ budget' \in Nat /\ faults' \in SUBSET FaultBit /\ tail' \in Nat
      /\ 0 \in 0 .. Capacity
  <2>1. budget' \in Nat
    <3>1. budget \in Nat
      BY ServingFacts DEF TypeOK
    <3>2. NvsOk \/ NvsFails
      BY DEF AppendCommits, SaveOk, SaveFails
    <3> QED
      BY <3>1, <3>2 DEF NvsOk, NvsFails
  <2>2. faults' \in SUBSET FaultBit
    <3>1. faults \in SUBSET FaultBit
      BY ServingFacts DEF TypeOK
    <3>2. \/ faults' = faults \ {"meta", "write"}
          \/ faults' = faults \union {"meta", "write"}
      BY DEF AppendCommits
    <3> QED
      BY <3>1, <3>2 DEF FaultBit
  <2>3. tail' \in Nat
    <3>1. tail \in Nat /\ entry_count \in Nat
      BY ServingFacts, CapacityAssumption DEF TypeOK
    <3>2. tail' = tail \/ tail' = tail + entry_count
      BY DEF AppendCommits
    <3> QED
      BY <3>1, <3>2
  <2> QED
    BY <2>1, <2>2, <2>3, CapacityAssumption
<1>4. CASE SaveOk(WithNewest(meta, entry_count))
  <2> DEFINE m == WithNewest(meta, entry_count)
  <2>1. m \in Meta /\ Counted(m, nv_blocks, version)
    BY <1>2, ServingFacts, CountedNewest
  <2>2. nv_meta' = m /\ meta' = m /\ meta_dirty' = FALSE
    BY <1>4 DEF SaveOk
  <2> HIDE DEF m
  <2>3. Saved(m)
    BY <2>1, ServingFacts, CountedSaved
  <2>4. TypeOK'
    BY <1>1, <1>3, <2>1, <2>2 DEF CountInv, TypeOK
  <2> QED
    BY <1>1, <2>1, <2>2, <2>3, <2>4 DEF CountInv, AtStep, CallPc
<1>5. CASE SaveFails
  <2>1. TypeOK'
    BY <1>1, <1>3, <1>5 DEF CountInv, TypeOK, SaveFails
  <2> QED
    BY <1>1, <1>5, <2>1 DEF CountInv, AtStep, CallPc, SaveFails
<1> QED
  BY <1>4, <1>5 DEF AppendCommits

LEMMA PeekCounts ==
  ASSUME CountInv, Peek
  PROVE  CountInv'
<1>1. TypeOK'
  <2>1. faults' \in SUBSET FaultBit
    BY DEF Peek, LoadFails, CountInv, TypeOK, FaultBit
  <2>2. budget' \in Nat
    BY DEF Peek, LoadOk, LoadFails, NvsOk, NvsFails, CountInv, TypeOK
  <2> QED
    BY <2>1, <2>2 DEF Peek, CountInv, TypeOK, nvs, ghosts
<1> QED
  BY <1>1 DEF Peek, CountInv, AtStep, nvs, CallPc

LEMMA DropSomeCounts ==
  ASSUME CountInv, NEW n \in 1 .. Capacity, DropSome(n)
  PROVE  CountInv'
<1>1. /\ pc = "ready" /\ meta.pending_blocks > 0
      /\ UNCHANGED <<nvs, pc, entry_count, retired_sequence, env, tail>>
      /\ n \in Nat
  BY CapacityAssumption DEF DropSome
<1>2. n < nv_blocks[block_id(meta.oldest_seq)].entry_count - meta.oldest_offset
  <2>1. /\ nv_blocks[block_id(meta.oldest_seq)].entry_count \in Nat
        /\ meta.oldest_offset \in Nat
    BY <1>1, ServingFacts, CountedOldest DEF Block, Meta
  <2> QED
    BY <1>1, <2>1 DEF DropSome, Remaining, BlockOf
<1>3. meta' = [meta EXCEPT !.pending_entries = @ - n, !.oldest_offset = @ + n]
  BY DEF DropSome
<1>4. meta' \in Meta /\ Counted(meta', nv_blocks, version)
  BY <1>1, <1>2, <1>3, ServingFacts, CountedDropSome, ZenonT(30)
<1>5. TypeOK'
  <2>1. HeadOf(meta) \in Nat
    BY ServingFacts, EndsType
  <2>2. reached' \in Nat
    BY <1>1, <2>1 DEF DropSome, CountInv, TypeOK
  <2>3. faults' \in SUBSET FaultBit
    BY DEF DropSome, CountInv, TypeOK, FaultBit
  <2> QED
    BY <1>1, <1>4, <2>2, <2>3 DEF DropSome, CountInv, TypeOK, nvs, env
<1> QED
  BY <1>1, <1>4, <1>5 DEF CountInv, AtStep, nvs, env, CallPc

LEMMA DropBlockCounts ==
  ASSUME CountInv, DropBlock
  PROVE  CountInv'
<1>1. /\ pc = "ready" /\ meta.pending_blocks > 0
      /\ UNCHANGED <<nv_blocks, entry_count, version, resets, tail>>
  BY DEF DropBlock
<1>2. faults' \in SUBSET FaultBit
  BY DEF DropBlock, CountInv, TypeOK, FaultBit
<1>3. CASE /\ SaveOk(WithoutOldest(Remaining))
           /\ retired_sequence' = meta.oldest_seq /\ pc' = "dropDelete"
           /\ reached' = HeadOf(meta) + Remaining
  <2>1. /\ nv_meta' \in Meta /\ meta' \in Meta /\ budget' \in Nat
        /\ meta_dirty' = FALSE
        /\ Counted(meta', nv_blocks', version') /\ Saved(nv_meta')
        /\ meta'.pending_blocks < BlockCount
        /\ meta.oldest_seq = meta'.oldest_seq - 1
    BY <1>1, <1>3, RetireCounts
  <2>2. reached' \in Nat /\ retired_sequence' \in Int
    <3>1. HeadOf(meta) \in Nat /\ Remaining \in Nat
      BY <1>1, ServingFacts, EndsType, CountedWithoutOldest
    <3> QED
      BY <1>3, <3>1, ServingFacts DEF Meta
  <2>3. TypeOK'
    BY <1>1, <1>2, <1>3, <2>1, <2>2 DEF CountInv, TypeOK, CallPc
  <2> QED
    BY <1>1, <1>3, <2>1, <2>3 DEF CountInv, AtStep
<1>4. CASE SaveFails /\ UNCHANGED <<retired_sequence, pc, reached>>
  <2>1. TypeOK'
    BY <1>1, <1>2, <1>4 DEF CountInv, TypeOK, SaveFails, NvsFails
  <2> QED
    BY <1>1, <1>4, <2>1 DEF CountInv, AtStep, CallPc, SaveFails
<1> QED
  BY <1>3, <1>4 DEF DropBlock

LEMMA SyncCounts ==
  ASSUME CountInv, Sync
  PROVE  CountInv'
<1>1. UNCHANGED <<nv_blocks, pc, version, meta>> /\ pc = "ready"
  BY DEF Sync, SaveOk, SaveFails
<1>2. TypeOK'
  <2>1. faults' \in SUBSET FaultBit
    <3>1. faults \in SUBSET FaultBit
      BY ServingFacts DEF TypeOK
    <3>2. faults' = faults \ {"meta"} \/ faults' = faults \union {"meta"}
      BY DEF Sync
    <3> QED
      BY <3>1, <3>2 DEF FaultBit
  <2>2. budget' \in Nat
    <3>1. budget \in Nat
      BY ServingFacts DEF TypeOK
    <3>2. NvsOk \/ NvsFails
      BY DEF Sync, SaveOk, SaveFails
    <3> QED
      BY <3>1, <3>2 DEF NvsOk, NvsFails
  <2> QED
    BY <1>1, <2>1, <2>2 DEF Sync, SaveOk, SaveFails, CountInv, TypeOK, ghosts
<1>3. nv_meta' # NoMeta => Saved(nv_meta')
  BY ServingFacts, CountedSaved DEF Sync, SaveOk, SaveFails, CountInv
<1> QED
  BY <1>1, <1>2, <1>3 DEF CountInv, AtStep, CallPc

-----------------------------------------------------------------------------
(* Reset, start and the theorems.                                          *)

LEMMA ResetCounts ==
  ASSUME CountInv, Reset
  PROVE  CountInv'
<1>1. UNCHANGED nvs /\ pc' = "down" /\ meta' = ResetMeta'
  BY DEF Reset
<1>2. TypeOK'
  <2>1. version' \in Nat /\ resets' \in Nat /\ tail' \in Nat /\ reached' \in Nat
    BY DEF Reset, CountInv, TypeOK, ghosts
  <2>2. meta' \in Meta
    BY <1>1, <2>1 DEF ResetMeta, Meta
  <2>3. entry_count' \in 0 .. Capacity /\ retired_sequence' \in Int
    BY CapacityAssumption DEF Reset
  <2>4. faults' \in SUBSET FaultBit /\ meta_dirty' \in BOOLEAN
    BY DEF Reset
  <2>5. nv_blocks' \in [Slot -> Block \union {NoBlock}]
        /\ nv_meta' \in Meta \union {NoMeta} /\ budget' \in Nat
    BY DEF Reset, CountInv, TypeOK, nvs
  <2> QED
    BY <1>1, <2>1, <2>2, <2>3, <2>4, <2>5 DEF TypeOK, InitPc
<1>3. nv_blocks' \in FlashContents
  BY <1>2 DEF TypeOK, FlashContents
<1>4. /\ meta' \in Meta /\ meta'.pending_blocks = 0 /\ meta'.pending_entries = 0
      /\ meta'.oldest_offset = 0 /\ meta'.next_seq = meta'.oldest_seq
  BY <1>1, <1>2 DEF ResetMeta, TypeOK
<1>5. Counted(meta', nv_blocks', version')
  BY <1>3, <1>4, CountedEmpty
<1> QED
  BY <1>1, <1>2, <1>4, <1>5 DEF CountInv, AtStep, nvs, CallPc

LEMMA InitCounts == Init => CountInv
<1> SUFFICES ASSUME Init PROVE CountInv
  OBVIOUS
<1>1. ResetMeta \in Meta
  BY DEF Init, ResetMeta, Meta
<1>2. TypeOK
  <2>1. nv_blocks \in [Slot -> Block \union {NoBlock}] /\ nv_meta \in Meta \union {NoMeta}
    BY DEF Init
  <2>2. meta \in Meta /\ meta_dirty \in BOOLEAN
    BY <1>1 DEF Init
  <2>3. pc \in InitPc \union CallPc \union {"ready"}
    BY DEF Init, InitPc
  <2>4. entry_count \in 0 .. Capacity /\ retired_sequence \in Int
    BY CapacityAssumption DEF Init
  <2>5. faults \in SUBSET FaultBit /\ version \in Nat /\ budget \in Nat
    BY BoundsAssumption DEF Init
  <2>6. resets \in Nat /\ tail \in Nat /\ reached \in Nat
    BY DEF Init
  <2> QED
    BY <2>1, <2>2, <2>3, <2>4, <2>5, <2>6 DEF TypeOK
<1>3. nv_blocks \in FlashContents
  BY <1>2 DEF TypeOK, FlashContents
<1>4. Counted(meta, nv_blocks, version) /\ meta.pending_blocks = 0
  BY <1>2, <1>3, ResetIsCounted DEF Init
<1> QED
  BY <1>2, <1>4 DEF Init, CountInv, AtStep, CallPc

LEMMA NextCounts ==
  ASSUME FlushBatch = 0, CountInv, [Next]_vars
  PROVE  CountInv'
<1>1. CASE Boot
  BY <1>1, BootFailsCounts, ErasedCounts, ErasureStopsCounts, ReadMetaCounts,
     FindNewestCounts, RecountCounts, SaveBootCounts, ScanCounts DEF Boot
<1>2. CASE Call
  BY <1>2, AppendCounts, AppendDiscardsCounts, DropSomeCounts, DeleteCounts,
     AppendWritesCounts, AppendCommitsCounts, PeekCounts, DropBlockCounts,
     SyncCounts DEF Call
<1>3. CASE Reset
  BY <1>3, ResetCounts
<1>4. CASE UNCHANGED vars
  BY <1>4 DEF vars, nvs, store, env, ghosts, CountInv, TypeOK, AtStep, BlockOf
<1> QED
  BY <1>1, <1>2, <1>3, <1>4 DEF Next

LEMMA CountStays ==
  ASSUME FlushBatch = 0
  PROVE  Spec => []CountInv
<1>1. CountInv /\ [Next]_vars => CountInv'
  BY NextCounts
<1> QED
  BY <1>1, InitCounts, PTL DEF Spec

(* A contact store counts just the entries its blocks hold.                *)
THEOREM ContactsCounted ==
  ASSUME FlushBatch = 0
  PROVE  Spec => []CountExact
<1>1. ASSUME CountInv
      PROVE  CountExact
  <2>1. Counted(meta, nv_blocks, version) /\ meta.pending_blocks \in Nat
    BY <1>1, ServingFacts
  <2>2. BlocksPresent(meta)
    BY <2>1, LoadableIsValid DEF Counted, BlocksPresent, BlockOf
  <2> QED
    BY <2>1, <2>2 DEF Counted, CountExact
<1> QED
  BY <1>1, CountStays, PTL

(* Blocks of one size.                                                     *)
LEMMA EntriesOfEqualBlocks ==
  ASSUME NEW b, NEW s \in Int, NEW n \in Nat, NEW e \in Nat,
         \A i \in s .. s + n - 1 : b[block_id(i)].entry_count = e
  PROVE  EntriesIn(b, s, n) = n * e
<1> DEFINE c == [k \in 1 .. n |-> b[block_id(s + k - 1)].entry_count]
<1>1. \A k \in 1 .. n : c[k] = e
  <2> TAKE k \in 1 .. n
  <2>1. s + k - 1 \in s .. s + n - 1
    OBVIOUS
  <2> QED
    BY <2>1
<1>2. c \in [1 .. n -> Nat]
  BY <1>1
<1> HIDE DEF c
<1> DEFINE f == Sums(c, n)
           g == [k \in 0 .. n |-> k * e]
<1>3. f[0] = 0 /\ \A k \in 1 .. n : f[k] = f[k - 1] + c[k]
  BY SumsAre
<1>4. \A k \in 0 .. n : f[k] \in Nat
  BY <1>2, SumsType
<1> HIDE DEF f
<1>5. \A k \in 0 .. n : k * e \in Nat
  OBVIOUS
<1>6. \A k \in 1 .. n : k * e = (k - 1) * e + e
  <2> TAKE k \in 1 .. n
  <2> DEFINE j == k - 1
  <2>1. j \in Nat /\ k = j + 1
    OBVIOUS
  <2> HIDE DEF j
  <2>2. (j + 1) * e = j * e + e
    BY <2>1
  <2> QED
    BY <2>1, <2>2 DEF j
<1>7. \A k \in 0 .. n : g[k] = k * e /\ g[k] \in Nat
  BY <1>5
<1>8. g[0] = 0
  BY <1>7
<1> HIDE DEF g
<1>9. \A k \in 1 .. n : f[k] - f[k - 1] = g[k] - g[k - 1]
  <2> TAKE k \in 1 .. n
  <2>1. k - 1 \in 0 .. n /\ k \in 0 .. n
    OBVIOUS
  <2> DEFINE x == k * e
             y == (k - 1) * e
  <2>2. f[k] = f[k - 1] + e /\ x = y + e /\ g[k] = x /\ g[k - 1] = y
    BY <1>1, <1>3, <1>6, <1>7, <2>1
  <2>3. f[k - 1] \in Nat /\ y \in Nat
    BY <1>4, <1>5, <2>1
  <2> HIDE DEF x, y
  <2> QED
    BY <2>2, <2>3
<1>10. f[n] = 0 + g[n]
  <2>1. \A k \in 0 .. n : f[k] \in Nat /\ g[k] \in Nat
    BY <1>4, <1>7
  <2>2. f[0] = 0 + g[0]
    BY <1>3, <1>8
  <2> QED
    BY <1>9, <2>1, <2>2, InStep
<1>11. g[n] = n * e /\ g[n] \in Nat
  <2>1. n \in 0 .. n
    OBVIOUS
  <2> QED
    BY <1>7, <2>1
<1> QED
  BY <1>10, <1>11 DEF EntriesIn, f, c

(* However often a boot clears, rebuilds or rescues a store                *)
(* (flash_ring_store.c:153-264, :275), wherever a reset or a failing call  *)
(* interrupts it, the count it reports is that of the entries its blocks   *)
(* hold from the head on: of every domain, for a contact store from its    *)
(* own invariant, for one of fixed batches from that of the batches.       *)
THEOREM CountIsExact ==
  ASSUME FlushBatch = 0 \/ ~EraseMayStop
  PROVE  Spec => []CountExact
<1>1. CASE FlushBatch = 0
  BY <1>1, ContactsCounted
<1>2. CASE FlushBatch # 0
  <2>1. ASSUME IInv, pc = "ready"
        PROVE  /\ BlocksPresent(meta)
               /\ meta.pending_entries =
                    EntriesIn(nv_blocks, meta.oldest_seq, meta.pending_blocks)
                    - meta.oldest_offset
    <3>1. Queued(meta, nv_blocks, tail, version)
      BY <2>1 DEF IInv, RamQueue
    <3>2. /\ meta.oldest_seq \in Int /\ meta.pending_blocks \in Nat
          /\ meta.pending_entries \in Nat /\ meta.oldest_offset \in Nat
          /\ meta.next_seq - 1 = meta.oldest_seq + meta.pending_blocks - 1
      BY <3>1 DEF Queued, Meta
    <3>3. \A i \in meta.oldest_seq .. meta.oldest_seq + meta.pending_blocks - 1 :
             nv_blocks[block_id(i)].entry_count = FlushBatch
      BY <3>1, <3>2 DEF Queued, Holds
    <3>4. FlushBatch \in Nat
      BY FlushBatchAssumption, CapacityAssumption
    <3> DEFINE sum == EntriesIn(nv_blocks, meta.oldest_seq, meta.pending_blocks)
    <3>5. sum = meta.pending_blocks * FlushBatch
      BY <3>2, <3>3, <3>4, EntriesOfEqualBlocks
    <3>6. meta.pending_entries + meta.oldest_offset = sum
      BY <3>1, <3>5 DEF Queued
    <3> HIDE DEF sum
    <3>7. meta.pending_entries = sum - meta.oldest_offset
      BY <3>2, <3>6
    <3>8. BlocksPresent(meta)
      BY <1>2, <3>1, QueuedRun DEF Run
    <3> QED
      BY <3>7, <3>8 DEF sum
  <2>2. IInv => CountExact
    BY <2>1 DEF CountExact
  <2>3. ~EraseMayStop
    BY <1>2
  <2>4. Spec => []IInv
    BY <1>2, <2>3, StoreInvariant
  <2> QED
    BY <2>2, <2>4, PTL
<1> QED
  BY <1>1, <1>2

(* Every field keeps its type, and no count goes negative.                 *)
THEOREM TypeCorrect ==
  ASSUME FlushBatch = 0 \/ ~EraseMayStop
  PROVE  Spec => []TypeOK
<1>1. CASE FlushBatch = 0
  <2>1. CountInv => TypeOK
    BY DEF CountInv
  <2> QED
    BY <1>1, <2>1, CountStays, PTL
<1>2. CASE FlushBatch # 0
  <2>1. IInv => TypeOK
    BY DEF IInv
  <2>2. ~EraseMayStop
    BY <1>2
  <2>3. Spec => []IInv
    BY <1>2, <2>2, StoreInvariant
  <2> QED
    BY <2>1, <2>3, PTL
<1> QED
  BY <1>1, <1>2
=============================================================================

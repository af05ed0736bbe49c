-------------------------- MODULE RamLogRingProofs --------------------------
(***************************************************************************)
(* Proofs about the RAM log ring, for every size of ring, batch, store and *)
(* export buffer, and any number of logging threads, failures and exports: *)
(* its type correctness, that the log stays in order, that what an export  *)
(* or a flush copied stays in place until it ends, and that an entry only  *)
(* leaves the log by one of the ways it is allowed to.                     *)
(***************************************************************************)
EXTENDS RamLogRing, SequenceTheorems, TLAPS

-----------------------------------------------------------------------------
(* The inductive invariant.                                                *)

(* The newest entry that is no longer in the ring; the ring's i-th slot.   *)
Start == last - count
Slot(i) == (read_index + i - 1) % RingCount

(* The ring holds the newest entries without a gap.                        *)
RingHolds ==
  /\ count <= last
  /\ \A i \in 1 .. count : entries[Slot(i)] = Start + i

(* The lock's flags tell where the two work queues stand, and only one of  *)
(* them is ever past its reservation.                                      *)
FlushPc == {"append", "append_done"}
ExportPc == {"count", "peek", "mark", "ram", "hold", "drop", "drop_done"}
SchedulePc == {"idle", "check", "submit"}

Phases ==
  /\ \A t \in Pushers : pc[t] \in SchedulePc
  /\ pc[Flusher] \in {"idle", "submit"} \union FlushPc
  /\ pc[Transfer] \in SchedulePc \union ExportPc
  /\ flush_active <=> pc[Flusher] \in FlushPc
  /\ export_active <=> pc[Transfer] \in ExportPc
  /\ ~(flush_active /\ export_active)
  /\ pc[Transfer] \in {"count", "peek", "mark", "ram"} =>
       export_source = "FLASH" /\ export_entries = 0
  /\ pc[Transfer] \in {"drop", "drop_done"} => export_source = "FLASH"
  /\ pc[Transfer] = "hold" => export_source # "NONE"

(* The batch being flushed is the oldest of the ring; once written, it is  *)
(* also the newest of flash.                                               *)
FlushHolds ==
  flush_active =>
    /\ flush_read_index = read_index
    /\ count >= FlushBatch
    /\ Len(flush_buffer) = FlushBatch
    /\ \A i \in 1 .. FlushBatch : flush_buffer[i] = Start + i

BatchWritten ==
  BatchInBoth =>
    /\ Len(flash) >= FlushBatch
    /\ \A i \in 1 .. FlushBatch :
         flash[Len(flash) - FlushBatch + i] = Start + i

(* What is being exported is the oldest of flash, within its first block,  *)
(* or the oldest of the ring, flash being empty.                           *)
ExportsFlash ==
  pc[Transfer] \in {"mark", "hold", "drop"} /\ export_source = "FLASH"
ExportsRam == pc[Transfer] = "hold" /\ export_source = "RAM"

FlashSent ==
  /\ Len(sent) \in 1 .. Len(flash)
  /\ Len(sent) <= FlushBatch - flash_offset
  /\ Len(sent) <= BufferEntries
  /\ \A i \in 1 .. Len(sent) : sent[i] = flash[i]

RamSent ==
  /\ flash = <<>>
  /\ Len(sent) \in 1 .. count
  /\ \A i \in 1 .. Len(sent) : sent[i] = Start + i

ExportHolds ==
  /\ pc[Transfer] = "peek" => flash # <<>>
  /\ pc[Transfer] = "ram" => flash = <<>>
  /\ ExportsFlash => FlashSent
  /\ ExportsRam => RamSent
  /\ pc[Transfer] \in {"hold", "drop"} => export_entries = Len(sent)

(* Flash holds whole blocks, but for what was dropped of the oldest.       *)
WholeBlocks ==
  \E k \in 0 .. FlashBlocks : Len(flash) + flash_offset = k * FlushBatch

(* Flash is in order, behind what was delivered and ahead of the ring.     *)
InBoth == IF BatchInBoth THEN FlushBatch ELSE 0

FlashOrder ==
  /\ \A i, j \in 1 .. Len(flash) : i < j => flash[i] < flash[j]
  /\ \A i \in 1 .. Len(flash) :
       delivered < flash[i] /\ flash[i] <= Start + InBoth
  /\ delivered <= Start

IInv ==
  /\ TypeOK
  /\ RingHolds
  /\ Phases
  /\ FlushHolds
  /\ BatchWritten
  /\ ExportHolds
  /\ WholeBlocks
  /\ FlashOrder

-----------------------------------------------------------------------------
(* Arithmetic of the ring and of the blocks.                               *)

LEMMA Sizes ==
  /\ RingCount \in Nat /\ FlushThreshold \in Nat /\ FlushBatch \in Nat
  /\ FlashBlocks \in Nat /\ BufferEntries \in Nat
  /\ FlushBatch > 0 /\ FlushBatch <= FlushThreshold
  /\ FlushThreshold <= RingCount /\ RingCount > 0
  /\ FlashBlocks > 0 /\ BufferEntries > 0
  /\ Flusher # Transfer /\ Flusher \notin Pushers /\ Transfer \notin Pushers
  /\ MaxEntries \in Nat /\ MaxFaults \in Nat /\ MaxExports \in Nat
BY BatchAssumption, StorageAssumption, ThreadAssumption, BoundAssumption

(* An index is below the ring's size, and one below it is itself.          *)
LEMMA IndexInRing ==
  ASSUME NEW n \in Nat
  PROVE  n % RingCount \in 0 .. RingCount - 1
BY Sizes

LEMMA BelowBatch ==
  ASSUME NEW n \in Nat, n < FlushBatch
  PROVE  n % FlushBatch = n
<1> DEFINE q == n \div FlushBatch
<1>1. /\ q \in Int /\ n % FlushBatch \in 0 .. FlushBatch - 1
      /\ n = FlushBatch * q + (n % FlushBatch)
  BY Sizes
<1> HIDE DEF q
<1>2. CASE q >= 1
  BY Sizes, <1>1, <1>2
<1>3. CASE q <= -1
  BY Sizes, <1>1, <1>3
<1>4. CASE q = 0
  BY Sizes, <1>1, <1>4
<1> QED
  BY <1>1, <1>2, <1>3, <1>4

(* Wrapping an index before the last addition makes no difference.         *)
LEMMA WrapOnce ==
  ASSUME NEW a \in Nat, NEW b \in Int, a + b >= 0
  PROVE  ((a % RingCount) + b) % RingCount = (a + b) % RingCount
<1> DEFINE q == a \div RingCount
           r == a % RingCount
           p == (r + b) \div RingCount
           u == (r + b) % RingCount
<1>1. /\ q \in Int /\ r \in 0 .. RingCount - 1
      /\ a = RingCount * q + r
  BY Sizes
<1>2. /\ p \in Int /\ u \in 0 .. RingCount - 1
      /\ r + b = RingCount * p + u
  BY Sizes, <1>1
<1>3. a + b = RingCount * (q + p) + u
  BY Sizes, <1>1, <1>2
<1>4. DEFINE z == (a + b) \div RingCount
             v == (a + b) % RingCount
<1>5. /\ z \in Int /\ v \in 0 .. RingCount - 1
      /\ a + b = RingCount * z + v
  BY Sizes
<1>6. RingCount * (q + p - z) = v - u
  BY Sizes, <1>1, <1>2, <1>3, <1>5
<1> HIDE DEF q, r, p, u, z, v
<1>7. q + p - z = 0
  <2>1. CASE q + p - z >= 1
    BY Sizes, <1>1, <1>2, <1>5, <1>6, <2>1
  <2>2. CASE q + p - z <= -1
    BY Sizes, <1>1, <1>2, <1>5, <1>6, <2>2
  <2> QED
    BY <2>1, <2>2, <1>1, <1>2, <1>5
<1>8. v = u
  BY Sizes, <1>1, <1>2, <1>5, <1>6, <1>7
<1> QED
  BY <1>8 DEF u, v, r

LEMMA NextSlot ==
  ASSUME NEW a \in Nat, NEW b \in Nat
  PROVE  (((a + b) % RingCount) + 1) % RingCount = (a + b + 1) % RingCount
<1> DEFINE c == a + b
<1>1. c \in Nat
  OBVIOUS
<1> HIDE DEF c
<1>2. ((c % RingCount) + 1) % RingCount = (c + 1) % RingCount
  BY <1>1, WrapOnce
<1> QED
  BY <1>2 DEF c

(* Two indices less than a ring apart are different slots.                 *)
LEMMA SlotsDiffer ==
  ASSUME NEW a \in Nat, NEW b \in Nat, a < b, b - a < RingCount
  PROVE  a % RingCount # b % RingCount
<1> DEFINE qa == a \div RingCount
           qb == b \div RingCount
<1>1. /\ qa \in Int /\ qb \in Int
      /\ a = RingCount * qa + (a % RingCount)
      /\ b = RingCount * qb + (b % RingCount)
  BY Sizes
<1>2. SUFFICES ASSUME a % RingCount = b % RingCount PROVE FALSE
  OBVIOUS
<1>3. b - a = RingCount * (qb - qa)
  BY Sizes, <1>1, <1>2
<1> HIDE DEF qa, qb
<1>4. CASE qb - qa <= 0
  BY Sizes, <1>1, <1>3, <1>4
<1>5. CASE qb - qa >= 1
  BY Sizes, <1>1, <1>3, <1>5
<1> QED
  BY <1>1, <1>4, <1>5

(* Blocks added and taken away.                                            *)
LEMMA BlockStep ==
  ASSUME NEW k \in Int
  PROVE  /\ (k + 1) * FlushBatch = k * FlushBatch + FlushBatch
         /\ (k - 1) * FlushBatch = k * FlushBatch - FlushBatch
         /\ k * FlushBatch \in Int
         /\ k <= 0 => k * FlushBatch <= 0
         /\ k >= 1 => k * FlushBatch >= FlushBatch
BY Sizes

LEMMA FewerBlocks ==
  ASSUME NEW k \in Int, NEW m \in Int
  PROVE  /\ k <= m => k * FlushBatch <= m * FlushBatch
         /\ k < m => k * FlushBatch + FlushBatch <= m * FlushBatch
<1>1. (m - k) * FlushBatch = m * FlushBatch - k * FlushBatch
  BY Sizes
<1>2. /\ k * FlushBatch \in Int /\ m * FlushBatch \in Int
      /\ m - k \in Int
  BY Sizes
<1>3. (m - k) * FlushBatch \in Int
  BY Sizes
<1>4. k = m => k * FlushBatch = m * FlushBatch
  OBVIOUS
<1>5. m - k >= 1 => (m - k) * FlushBatch >= FlushBatch
  BY <1>2, BlockStep
<1> QED
  BY <1>1, <1>2, <1>3, <1>4, <1>5, Sizes

-----------------------------------------------------------------------------
(* Sequences.                                                              *)

LEMMA FunctionIsSeq ==
  ASSUME NEW S, NEW n \in Nat, NEW f \in [1 .. n -> S]
  PROVE  f \in Seq(S) /\ Len(f) = n
<1>1. f \in Seq(S)
  BY SeqDef
<1>2. DOMAIN f = 1 .. Len(f) /\ Len(f) \in Nat
  BY <1>1, LenProperties
<1>3. 1 .. Len(f) = 1 .. n
  BY <1>2
<1> QED
  BY <1>1, <1>2, <1>3

(* The n oldest of the ring are the numbers that follow its start.         *)
LEMMA OldestAre ==
  ASSUME TypeOK, RingHolds, NEW n \in 0 .. count
  PROVE  /\ Oldest(n) \in Seq(Entry)
         /\ Len(Oldest(n)) = n
         /\ \A i \in 1 .. n : Oldest(n)[i] = Start + i
<1>1. count \in Nat /\ n \in Nat /\ read_index \in Nat
  BY Sizes DEF TypeOK
<1>2. ASSUME NEW i \in 1 .. n
      PROVE  /\ entries[(read_index + i - 1) % RingCount] = Start + i
             /\ entries[(read_index + i - 1) % RingCount] \in Entry
  <2>1. i \in 1 .. count /\ read_index + i - 1 \in Nat
    BY <1>1
  <2>2. (read_index + i - 1) % RingCount \in 0 .. RingCount - 1
    BY <2>1, IndexInRing
  <2>3. entries[(read_index + i - 1) % RingCount] = Start + i
    BY <2>1 DEF RingHolds, Slot
  <2> QED
    BY <2>2, <2>3 DEF TypeOK
<1>3. Oldest(n) \in [1 .. n -> Entry]
  BY <1>2 DEF Oldest
<1>4. Oldest(n) \in Seq(Entry) /\ Len(Oldest(n)) = n
  BY <1>1, <1>3, FunctionIsSeq
<1>5. \A i \in 1 .. n : Oldest(n)[i] = Start + i
  BY <1>2 DEF Oldest
<1> QED
  BY <1>4, <1>5

LEMMA Indexed ==
  ASSUME NEW s \in Seq(Entry)
  PROVE  /\ Len(s) \in Nat
         /\ \A i \in 1 .. Len(s) : s[i] \in Entry /\ s[i] \in Nat
         /\ s = <<>> <=> Len(s) = 0
<1>1. Len(s) \in Nat
  BY LenProperties
<1>2. \A i \in 1 .. Len(s) : s[i] \in Entry
  BY ElementOfSeq
<1>3. \A e \in Entry : e \in Nat
  BY Sizes DEF Entry
<1>4. s = <<>> <=> Len(s) = 0
  BY EmptySeq
<1> QED
  BY <1>1, <1>2, <1>3, <1>4

(* What is left when the first n entries are taken away.                   *)
LEMMA Remainder ==
  ASSUME NEW s \in Seq(Entry), NEW n \in 0 .. Len(s)
  PROVE  /\ SubSeq(s, n + 1, Len(s)) \in Seq(Entry)
         /\ Len(SubSeq(s, n + 1, Len(s))) = Len(s) - n
         /\ \A i \in 1 .. Len(s) - n : SubSeq(s, n + 1, Len(s))[i] = s[n + i]
<1>1. Len(s) \in Nat /\ n \in Nat
  BY Indexed
<1>2. \A i \in n + 1 .. Len(s) : s[i] \in Entry
  BY <1>1, Indexed
<1> QED
  BY <1>1, <1>2, SubSeqProperties

LEMMA Beginning ==
  ASSUME NEW s \in Seq(Entry), NEW n \in 0 .. Len(s)
  PROVE  /\ SubSeq(s, 1, n) \in Seq(Entry)
         /\ Len(SubSeq(s, 1, n)) = n
         /\ \A i \in 1 .. n : SubSeq(s, 1, n)[i] = s[i]
<1>1. Len(s) \in Nat /\ n \in Nat
  BY Indexed
<1>2. \A i \in 1 .. n : s[i] \in Entry
  BY <1>1, Indexed
<1> QED
  BY <1>1, <1>2, SubSeqProperties

LEMMA SameBeginning ==
  ASSUME NEW s \in Seq(Entry), NEW t \in Seq(Entry), Len(t) \in 0 .. Len(s),
         \A i \in 1 .. Len(t) : s[i] = t[i]
  PROVE  SubSeq(s, 1, Len(t)) = t
<1>1. /\ SubSeq(s, 1, Len(t)) \in Seq(Entry)
      /\ Len(SubSeq(s, 1, Len(t))) = Len(t)
      /\ \A i \in 1 .. Len(t) : SubSeq(s, 1, Len(t))[i] = s[i]
  BY Beginning
<1> QED
  BY <1>1, SeqEqual

-----------------------------------------------------------------------------
(* The invariant, ready for use.                                           *)

LEMMA Typed ==
  ASSUME TypeOK
  PROVE  /\ read_index \in Nat /\ count \in Nat /\ count <= RingCount
         /\ last \in Nat /\ delivered \in Nat /\ Start \in Int
         /\ flash \in Seq(Entry) /\ Len(flash) \in Nat
         /\ sent \in Seq(Entry) /\ Len(sent) \in Nat
         /\ flush_buffer \in Seq(Entry) /\ Len(flush_buffer) \in Nat
         /\ flash_offset \in Nat /\ flash_offset < FlushBatch
         /\ export_entries \in Nat
<1>1. /\ read_index \in Nat /\ count \in Nat /\ count <= RingCount
      /\ flash_offset \in Nat /\ flash_offset < FlushBatch
      /\ export_entries \in Nat
  BY Sizes DEF TypeOK
<1>2. last \in Nat /\ delivered \in Nat
  BY Sizes DEF TypeOK, Entry
<1>3. Start \in Int
  BY <1>1, <1>2 DEF Start
<1>4. /\ flash \in Seq(Entry) /\ sent \in Seq(Entry)
      /\ flush_buffer \in Seq(Entry)
  BY DEF TypeOK
<1>5. Len(flash) \in Nat /\ Len(sent) \in Nat /\ Len(flush_buffer) \in Nat
  BY <1>4, Indexed
<1> QED
  BY <1>1, <1>2, <1>3, <1>4, <1>5

LEMMA FlashEntries ==
  ASSUME TypeOK, NEW i \in 1 .. Len(flash)
  PROVE  flash[i] \in Nat /\ flash[i] \in Entry
BY Typed, Indexed

(* A thread's next step is the one it went to, every other one's the same. *)
LEMMA GoneTo ==
  ASSUME TypeOK, NEW t \in Thread, NEW label \in Label, Goto(t, label)
  PROVE  /\ pc' \in [Thread -> Label]
         /\ pc'[t] = label
         /\ \A u \in Thread : u # t => pc'[u] = pc[u]
BY DEF TypeOK, Goto

LEMMA Threads ==
  /\ Flusher \in Thread /\ Transfer \in Thread /\ Flusher # Transfer
  /\ \A t \in Pushers : t \in Thread /\ t # Flusher /\ t # Transfer
BY Sizes DEF Thread

(* Flash entries there are, and the oldest block they belong to.           *)
LEMMA FirstBlock ==
  ASSUME TypeOK, WholeBlocks, flash # <<>>
  PROVE  FlushBatch - flash_offset \in 1 .. Len(flash)
<1>1. /\ Len(flash) \in Nat /\ Len(flash) # 0
      /\ flash_offset \in Nat /\ flash_offset < FlushBatch
  BY Typed, Indexed
<1>2. PICK k \in 0 .. FlashBlocks : Len(flash) + flash_offset = k * FlushBatch
  BY DEF WholeBlocks
<1>3. k \in Int
  BY Sizes
<1>4. k >= 1
  BY <1>1, <1>2, <1>3, BlockStep
<1> QED
  BY <1>1, <1>2, <1>3, <1>4, BlockStep, Sizes

(* An empty flash is at the start of a block.                              *)
LEMMA EmptyFlash ==
  ASSUME TypeOK, WholeBlocks, Len(flash) = 0
  PROVE  flash_offset = 0
<1>1. flash_offset \in Nat /\ flash_offset < FlushBatch
  BY Typed
<1>2. PICK k \in 0 .. FlashBlocks : Len(flash) + flash_offset = k * FlushBatch
  BY DEF WholeBlocks
<1>3. k \in Int
  BY Sizes
<1>4. k <= 0
  BY <1>1, <1>2, <1>3, BlockStep, Sizes
<1> QED
  BY <1>1, <1>2, <1>3, <1>4, BlockStep, Sizes

(* A step that touches neither the ring, nor flash, nor a flush.           *)
LEMMA Quiet ==
  ASSUME IInv,
         UNCHANGED <<ring, flush, storage, last, delivered>>,
         result'[Flusher] = result[Flusher],
         pc'[Flusher] = "append_done" <=> pc[Flusher] = "append_done"
  PROVE  RingHolds' /\ FlushHolds' /\ BatchWritten' /\ WholeBlocks' /\ FlashOrder'
<1> USE DEF IInv, ring, flush, storage
<1>1. RingHolds'
  BY DEF RingHolds, Slot, Start
<1>2. FlushHolds'
  BY DEF FlushHolds, Start
<1>3. BatchInBoth' <=> BatchInBoth
  BY DEF BatchInBoth
<1>4. BatchWritten'
  BY <1>3 DEF BatchWritten, Start
<1>5. WholeBlocks'
  BY DEF WholeBlocks
<1>6. InBoth' = InBoth /\ Start' = Start
  BY <1>3 DEF InBoth, Start
<1>7. FlashOrder'
  BY <1>6 DEF FlashOrder
<1> QED
  BY <1>1, <1>2, <1>4, <1>5, <1>7

-----------------------------------------------------------------------------
(* schedule_flush_if_needed.                                               *)

LEMMA ScheduleKeeps ==
  ASSUME IInv, NEW t \in Thread, Check(t) \/ Submit(t)
  PROVE  IInv'
<1>1. UNCHANGED <<ring, export, flush, storage, last, delivered, sent, result>>
  BY DEF Check, Submit
<1>2. PICK label \in {"idle", "submit"} : Goto(t, label)
  BY DEF Check, Submit
<1>3. /\ pc' \in [Thread -> Label]
      /\ pc'[t] \in {"idle", "submit"}
      /\ \A u \in Thread : u # t => pc'[u] = pc[u]
      /\ pc[t] \in {"check", "submit"}
  BY <1>2, GoneTo DEF IInv, Label, Check, Submit
<1>4. \/ pc'[Flusher] = pc[Flusher]
      \/ pc'[Flusher] \in {"idle", "submit"} /\ pc[Flusher] \in {"check", "submit"}
  BY <1>3, Threads
<1>5. \/ pc'[Transfer] = pc[Transfer]
      \/ pc'[Transfer] \in {"idle", "submit"} /\ pc[Transfer] \in {"check", "submit"}
  BY <1>3, Threads
<1>6. TypeOK'
  BY <1>1, <1>3
     DEF IInv, TypeOK, Check, Submit, ring, export, flush, storage
<1>7. RingHolds' /\ FlushHolds' /\ BatchWritten' /\ WholeBlocks' /\ FlashOrder'
  BY <1>1, <1>4, Quiet
<1>8. Phases'
  BY <1>1, <1>3, <1>4, <1>5, Threads
     DEF IInv, Phases, export, flush, FlushPc, ExportPc, SchedulePc
<1>9. ExportHolds'
  BY <1>1, <1>5 DEF IInv, ExportHolds, ExportsFlash, ExportsRam, FlashSent,
     RamSent, Start, ring, export, storage
<1> QED
  BY <1>6, <1>7, <1>8, <1>9 DEF IInv

-----------------------------------------------------------------------------
(* ram_log_ring_push.                                                      *)

(* A ring with a free slot: the new entry goes behind the others.          *)
LEMMA PushBehind ==
  ASSUME TypeOK, RingHolds, count < RingCount, last < MaxEntries,
         entries' = [entries EXCEPT ![write_index] = last + 1],
         write_index' = (write_index + 1) % RingCount,
         count' = count + 1, read_index' = read_index, last' = last + 1
  PROVE  RingHolds' /\ write_index' = (read_index' + count') % RingCount
<1>1. /\ read_index \in Nat /\ count \in Nat /\ last \in Nat /\ count <= last
      /\ write_index = (read_index + count) % RingCount
  BY Typed DEF RingHolds, TypeOK
<1>2. ASSUME NEW i \in 1 .. count + 1
      PROVE  entries'[Slot(i)] = last - count + i
  <2>1. Slot(i) \in 0 .. RingCount - 1
    BY <1>1, IndexInRing DEF Slot
  <2>2. CASE i = count + 1
    <3>1. Slot(i) = write_index
      BY <1>1, <2>2 DEF Slot
    <3> QED
      BY <1>1, <2>1, <2>2, <3>1 DEF TypeOK
  <2>3. CASE i \in 1 .. count
    <3> DEFINE a == read_index + i - 1
               b == read_index + count
    <3>1. /\ a \in Nat /\ b \in Nat /\ a < b /\ b - a < RingCount
      BY <1>1, <2>3, Sizes
    <3> HIDE DEF a, b
    <3>2. a % RingCount # b % RingCount
      BY <3>1, SlotsDiffer
    <3>3. Slot(i) # write_index
      BY <1>1, <3>2 DEF Slot, a, b
    <3>4. entries[Slot(i)] = last - count + i
      BY <2>3 DEF RingHolds, Start
    <3> QED
      BY <2>1, <3>3, <3>4 DEF TypeOK
  <2> QED
    BY <1>1, <2>2, <2>3
<1>3. RingHolds'
  BY <1>1, <1>2 DEF RingHolds, Slot, Start
<1>4. write_index' = (read_index + count + 1) % RingCount
  BY <1>1, NextSlot
<1> QED
  BY <1>1, <1>3, <1>4

(* A full ring: the new entry takes the place of the oldest.               *)
LEMMA PushOver ==
  ASSUME TypeOK, RingHolds, count = RingCount, last < MaxEntries,
         entries' = [entries EXCEPT ![write_index] = last + 1],
         write_index' = (write_index + 1) % RingCount,
         read_index' = (read_index + 1) % RingCount,
         count' = count, last' = last + 1
  PROVE  RingHolds' /\ write_index' = (read_index' + count') % RingCount
<1>1. /\ read_index \in Nat /\ count \in Nat /\ last \in Nat /\ count <= last
      /\ count > 0
      /\ write_index = (read_index + count) % RingCount
  BY Typed, Sizes DEF RingHolds, TypeOK
<1>2. ASSUME NEW i \in 1 .. count
      PROVE  entries'[Slot(i)'] = last + 1 - count + i
  <2>1. Slot(i)' = (read_index + i) % RingCount
    <3>1. Slot(i)' = (((read_index + 1) % RingCount) + (i - 1)) % RingCount
      BY <1>1, IndexInRing DEF Slot
    <3> DEFINE a == read_index + 1
               b == i - 1
    <3>2. a \in Nat /\ b \in Int /\ a + b >= 0 /\ a + b = read_index + i
      BY <1>1
    <3> HIDE DEF a, b
    <3>3. ((a % RingCount) + b) % RingCount = (a + b) % RingCount
      BY <3>2, WrapOnce
    <3> QED
      BY <3>1, <3>2, <3>3 DEF a, b
  <2>2. Slot(i)' \in 0 .. RingCount - 1
    BY <1>1, <2>1, IndexInRing
  <2>3. CASE i = count
    BY <1>1, <2>1, <2>2, <2>3 DEF TypeOK
  <2>4. CASE i + 1 \in 1 .. count
    <3> DEFINE a == read_index + i
               b == read_index + count
    <3>5. /\ a \in Nat /\ b \in Nat /\ a < b /\ b - a < RingCount
      BY <1>1, <2>4
    <3> HIDE DEF a, b
    <3>1. a % RingCount # b % RingCount
      BY <3>5, SlotsDiffer
    <3>2. Slot(i)' # write_index
      BY <1>1, <2>1, <3>1 DEF a, b
    <3>3. Slot(i + 1) = Slot(i)'
      BY <1>1, <2>1 DEF Slot
    <3>4. entries[Slot(i)'] = last - count + (i + 1)
      BY <2>4, <3>3 DEF RingHolds, Start
    <3> QED
      BY <1>1, <2>2, <3>2, <3>4 DEF TypeOK
  <2> QED
    BY <1>1, <2>3, <2>4
<1>3. RingHolds'
  BY <1>1, <1>2 DEF RingHolds, Slot, Start
<1>4. write_index' = (read_index + count + 1) % RingCount
  BY <1>1, NextSlot
<1>5. (read_index' + count') % RingCount = (read_index + 1 + count) % RingCount
  <2> DEFINE a == read_index + 1
  <2>1. a \in Nat /\ a + count >= 0 /\ count \in Int
    BY <1>1
  <2> HIDE DEF a
  <2>2. ((a % RingCount) + count) % RingCount = (a + count) % RingCount
    BY <2>1, WrapOnce
  <2> QED
    BY <2>2 DEF a
<1>6. read_index + 1 + count = read_index + count + 1
  BY <1>1
<1> QED
  BY <1>3, <1>4, <1>5, <1>6

(* The oldest entries taken out of the ring.                               *)
LEMMA TakenFromRing ==
  ASSUME TypeOK, RingHolds, NEW n \in 1 .. count,
         UNCHANGED <<entries, write_index, last>>,
         read_index' = (read_index + n) % RingCount,
         count' = count - n
  PROVE  RingHolds' /\ write_index' = (read_index' + count') % RingCount
<1>1. /\ read_index \in Nat /\ count \in Nat /\ last \in Nat /\ count <= last
      /\ n \in Nat /\ n >= 1 /\ n <= count
      /\ write_index = (read_index + count) % RingCount
  BY Typed DEF RingHolds, TypeOK
<1> DEFINE a == read_index + n
<1>2. a \in Nat
  BY <1>1
<1> HIDE DEF a
<1>3. ASSUME NEW i \in 1 .. count - n
      PROVE  entries[Slot(i)'] = last - (count - n) + i
  <2>1. n + i \in 1 .. count /\ a + (i - 1) >= 0 /\ i - 1 \in Int
    BY <1>1, <1>2
  <2>2. ((a % RingCount) + (i - 1)) % RingCount = (a + (i - 1)) % RingCount
    <3> DEFINE b == i - 1
    <3>1. b \in Int /\ a + b >= 0
      BY <2>1
    <3> HIDE DEF b
    <3>2. ((a % RingCount) + b) % RingCount = (a + b) % RingCount
      BY <1>2, <3>1, WrapOnce
    <3> QED
      BY <3>2 DEF b
  <2>3. Slot(i)' = ((a % RingCount) + (i - 1)) % RingCount
    <3>1. a % RingCount \in Nat
      BY <1>2, IndexInRing
    <3>2. read_index' + i - 1 = (a % RingCount) + (i - 1)
      BY <3>1 DEF a
    <3> QED
      BY <3>2 DEF Slot
  <2>4. a + (i - 1) = read_index + (n + i) - 1
    BY <1>1 DEF a
  <2>5. Slot(i)' = Slot(n + i)
    BY <2>2, <2>3, <2>4 DEF Slot
  <2>6. entries[Slot(n + i)] = Start + (n + i)
    BY <2>1 DEF RingHolds
  <2> QED
    BY <1>1, <2>5, <2>6 DEF Start
<1>4. RingHolds'
  BY <1>1, <1>3 DEF RingHolds, Start, Slot
<1>5. write_index' = (read_index' + count') % RingCount
  <2>1. count - n \in Int /\ a + (count - n) >= 0
    BY <1>1, <1>2
  <2> DEFINE b == count - n
  <2> HIDE DEF b
  <2>2. ((a % RingCount) + b) % RingCount = (a + b) % RingCount
    BY <1>2, <2>1, WrapOnce DEF b
  <2>3. a + b = read_index + count
    BY <1>1 DEF a, b
  <2> QED
    BY <1>1, <2>2, <2>3 DEF a, b
<1> QED
  BY <1>4, <1>5

LEMMA PushKeeps ==
  ASSUME IInv, NEW t \in Pushers, Push(t)
  PROVE  IInv'
<1>1. UNCHANGED <<export, flush, nvm_full, flush_work, storage, result, sent,
                  faults, exports, delivered, commit_failed>>
  BY DEF Push
<1>2. /\ t \in Thread /\ t # Flusher /\ t # Transfer
      /\ Flusher \in Thread /\ Transfer \in Thread
  BY Threads
<1>3. /\ pc' \in [Thread -> Label]
      /\ pc'[t] = "check" /\ \A u \in Thread : u # t => pc'[u] = pc[u]
  BY <1>2, GoneTo DEF Push, IInv, Label
<1>4. pc'[Flusher] = pc[Flusher] /\ pc'[Transfer] = pc[Transfer]
  BY <1>2, <1>3
<1>5. Phases'
  BY <1>1, <1>3, <1>4, Threads
     DEF IInv, Phases, export, flush, FlushPc, ExportPc, SchedulePc
<1>6. CASE Pinned
  <2>1. UNCHANGED <<ring, last>>
    BY <1>6 DEF Push
  <2>2. TypeOK'
    BY <1>1, <1>3, <2>1 DEF IInv, TypeOK, ring, export, flush, storage
  <2>3. RingHolds' /\ FlushHolds' /\ BatchWritten' /\ WholeBlocks' /\ FlashOrder'
    BY <1>1, <1>4, <2>1, Quiet
  <2>4. ExportHolds'
    BY <1>1, <1>4, <2>1 DEF IInv, ExportHolds, ExportsFlash, ExportsRam,
       FlashSent, RamSent, Start, ring, export, storage
  <2> QED
    BY <1>5, <2>2, <2>3, <2>4 DEF IInv
<1>7. CASE ~Pinned
  <2>1. /\ last < MaxEntries
        /\ entries' = [entries EXCEPT ![write_index] = last + 1]
        /\ write_index' = (write_index + 1) % RingCount
        /\ last' = last + 1
        /\ IF count = RingCount
           THEN read_index' = (read_index + 1) % RingCount /\ count' = count
           ELSE count' = count + 1 /\ read_index' = read_index
    BY <1>7 DEF Push
  <2>2. /\ read_index \in Nat /\ count \in Nat /\ count <= RingCount
        /\ last \in Nat /\ delivered \in Nat /\ write_index \in Nat
    BY Typed, Sizes DEF IInv, TypeOK
  <2>3. RingHolds' /\ write_index' = (read_index' + count') % RingCount
    <3>1. TypeOK /\ RingHolds
      BY DEF IInv
    <3>2. CASE count = RingCount
      BY <2>1, <3>1, <3>2, PushOver
    <3>3. CASE count # RingCount
      <4>1. count < RingCount
        BY <2>2, <3>3, Sizes
      <4>2. count' = count + 1 /\ read_index' = read_index
        BY <2>1, <3>3
      <4> QED
        BY <2>1, <3>1, <4>1, <4>2, PushBehind
    <3> QED
      BY <2>2, <3>2, <3>3, Sizes
  <2>4. /\ entries' \in [0 .. RingCount - 1 -> Entry]
        /\ read_index' \in 0 .. RingCount - 1
        /\ write_index' \in 0 .. RingCount - 1
        /\ count' \in 0 .. RingCount
        /\ last' \in Entry
    <3>1. last + 1 \in Entry
      BY <2>1, <2>2, Sizes DEF Entry
    <3>2. /\ (read_index + 1) % RingCount \in 0 .. RingCount - 1
          /\ (write_index + 1) % RingCount \in 0 .. RingCount - 1
      BY <2>2, IndexInRing
    <3>3. entries' \in [0 .. RingCount - 1 -> Entry]
      BY <2>1, <3>1 DEF IInv, TypeOK
    <3>4. read_index' \in 0 .. RingCount - 1
      BY <2>1, <3>2 DEF IInv, TypeOK
    <3> QED
      BY <2>1, <2>2, <3>1, <3>2, <3>3, <3>4, Sizes
  <2>5. TypeOK'
    BY <1>1, <1>3, <2>3, <2>4 DEF IInv, TypeOK, export, flush, storage
  <2>6. CASE count = RingCount
    <3>1. ~flush_active /\ ~export_active
      BY <1>7, <2>6 DEF Pinned
    <3>2. /\ pc[Flusher] \notin FlushPc /\ pc[Transfer] \notin ExportPc
      BY <3>1 DEF IInv, Phases
    <3>3. Start' = Start + 1
      BY <2>1, <2>2, <2>6 DEF Start
    <3>4. ~BatchInBoth /\ ~BatchInBoth'
      BY <1>4, <3>2 DEF BatchInBoth, FlushPc
    <3>5. FlushHolds' /\ BatchWritten'
      BY <1>1, <3>1, <3>4 DEF FlushHolds, BatchWritten, flush
    <3>6. ExportHolds'
      BY <1>4, <3>2 DEF ExportHolds, ExportsFlash, ExportsRam, ExportPc
    <3>7. FlashOrder'
      <4>1. \A i \in 1 .. Len(flash) : flash[i] \in Nat
        BY FlashEntries DEF IInv
      <4>2. Start \in Int /\ InBoth = 0 /\ InBoth' = 0
        BY <2>2, <3>4 DEF Start, InBoth
      <4> QED
        BY <1>1, <2>2, <3>3, <4>1, <4>2 DEF IInv, FlashOrder, storage
    <3>8. WholeBlocks'
      BY <1>1 DEF IInv, WholeBlocks, storage
    <3> QED
      BY <1>5, <2>3, <2>5, <3>5, <3>6, <3>7, <3>8 DEF IInv
  <2>7. CASE count # RingCount
    <3>1. Start' = Start /\ count' = count + 1 /\ read_index' = read_index
      BY <2>1, <2>2, <2>7 DEF Start
    <3>2. (BatchInBoth' <=> BatchInBoth) /\ InBoth' = InBoth
      BY <1>1, <1>4 DEF BatchInBoth, InBoth
    <3>3. FlushHolds'
      BY <1>1, <2>2, <3>1, Sizes DEF IInv, FlushHolds, flush
    <3>4. BatchWritten'
      BY <1>1, <3>1, <3>2 DEF IInv, BatchWritten, storage
    <3>5. ExportHolds'
      BY <1>1, <1>4, <2>2, <3>1 DEF IInv, ExportHolds, ExportsFlash, ExportsRam,
         FlashSent, RamSent, export, storage
    <3>6. FlashOrder'
      BY <1>1, <3>1, <3>2 DEF IInv, FlashOrder, storage
    <3>7. WholeBlocks'
      BY <1>1 DEF IInv, WholeBlocks, storage
    <3> QED
      BY <1>5, <2>3, <2>5, <3>3, <3>4, <3>5, <3>6, <3>7 DEF IInv
  <2> QED
    BY <2>6, <2>7
<1> QED
  BY <1>6, <1>7

-----------------------------------------------------------------------------
(* flush_handler.                                                          *)

LEMMA FlusherMoves ==
  ASSUME IInv, NEW label \in Label, Goto(Flusher, label)
  PROVE  /\ pc' \in [Thread -> Label]
         /\ pc'[Flusher] = label
         /\ pc'[Transfer] = pc[Transfer]
         /\ \A u \in Pushers : pc'[u] = pc[u]
BY GoneTo, Threads DEF IInv

LEMMA FlushStartKeeps ==
  ASSUME IInv, FlushStart
  PROVE  IInv'
<1>1. UNCHANGED <<ring, export, nvm_full, storage, result, sent, faults,
                  exports, last, delivered, commit_failed>>
  BY DEF FlushStart
<1>2. pc[Flusher] = "idle" /\ flush_work' = FALSE
  BY DEF FlushStart
<1>3. CASE FlushAllowed
  <2>1. /\ flush_buffer' = Oldest(FlushBatch)
        /\ flush_active' = TRUE
        /\ flush_read_index' = read_index
        /\ Goto(Flusher, "append")
    BY <1>3 DEF FlushStart
  <2>2. ~flush_active /\ ~export_active /\ count >= FlushBatch
    BY <1>3 DEF FlushAllowed
  <2>3. /\ pc' \in [Thread -> Label]
        /\ pc'[Flusher] = "append"
        /\ pc'[Transfer] = pc[Transfer]
        /\ \A u \in Pushers : pc'[u] = pc[u]
    BY <2>1, FlusherMoves DEF Label
  <2>4. /\ FlushBatch \in 0 .. count
        /\ TypeOK /\ RingHolds
    BY <2>2, Typed, Sizes DEF IInv
  <2>5. /\ Oldest(FlushBatch) \in Seq(Entry)
        /\ Len(Oldest(FlushBatch)) = FlushBatch
        /\ \A i \in 1 .. FlushBatch : Oldest(FlushBatch)[i] = Start + i
    BY <2>4, OldestAre
  <2>6. TypeOK'
    BY <1>1, <1>2, <2>1, <2>3, <2>5
       DEF IInv, TypeOK, ring, export, storage
  <2>7. ~BatchInBoth /\ ~BatchInBoth'
    BY <1>2, <2>3 DEF BatchInBoth
  <2>8. FlushHolds'
    BY <1>1, <2>1, <2>2, <2>5 DEF FlushHolds, Start, ring
  <2>9. BatchWritten' /\ RingHolds' /\ WholeBlocks' /\ FlashOrder'
    BY <1>1, <2>7 DEF IInv, BatchWritten, RingHolds, Slot, Start, WholeBlocks,
       FlashOrder, InBoth, ring, storage
  <2>10. Phases'
    BY <1>1, <2>1, <2>2, <2>3
       DEF IInv, Phases, export, FlushPc, ExportPc, SchedulePc
  <2>11. ExportHolds'
    BY <1>1, <2>3 DEF IInv, ExportHolds, ExportsFlash, ExportsRam, FlashSent,
       RamSent, Start, ring, export, storage
  <2> QED
    BY <2>6, <2>8, <2>9, <2>10, <2>11 DEF IInv
<1>4. CASE ~FlushAllowed
  <2>1. UNCHANGED <<flush, pc>>
    BY <1>4 DEF FlushStart
  <2>2. RingHolds' /\ FlushHolds' /\ BatchWritten' /\ WholeBlocks' /\ FlashOrder'
    BY <1>1, <2>1, Quiet
  <2>3. TypeOK' /\ Phases'
    BY <1>1, <1>2, <2>1
       DEF IInv, TypeOK, Phases, ring, export, flush, storage
  <2>4. ExportHolds'
    BY <1>1, <2>1 DEF IInv, ExportHolds, ExportsFlash, ExportsRam, FlashSent,
       RamSent, Start, ring, export, storage
  <2> QED
    BY <2>2, <2>3, <2>4 DEF IInv
<1> QED
  BY <1>3, <1>4

(* While a batch is being flushed nothing is being exported.               *)
LEMMA FlushAlone ==
  ASSUME IInv, pc[Flusher] \in FlushPc
  PROVE  /\ flush_active /\ ~export_active
         /\ pc[Transfer] \notin ExportPc
BY DEF IInv, Phases

(* What a store that made room still holds.                                *)
LEMMA RoomMade ==
  ASSUME TypeOK, FlashFull
  PROVE  /\ FlushBatch - flash_offset \in 1 .. Len(flash)
         /\ WithoutOldestBlock \in Seq(Entry)
         /\ Len(WithoutOldestBlock) = (FlashBlocks - 1) * FlushBatch
         /\ \A i \in 1 .. Len(WithoutOldestBlock) :
              WithoutOldestBlock[i] = flash[FlushBatch - flash_offset + i]
<1> DEFINE n == FlushBatch - flash_offset
<1>1. /\ flash \in Seq(Entry) /\ Len(flash) \in Nat
      /\ flash_offset \in Nat /\ flash_offset < FlushBatch
  BY Typed
<1>2. /\ FlashBlocks * FlushBatch = (FlashBlocks - 1) * FlushBatch + FlushBatch
      /\ (FlashBlocks - 1) * FlushBatch \in Nat
  <2>1. FlashBlocks \in Int /\ FlashBlocks - 1 \in Int
    BY Sizes
  <2>2. 0 * FlushBatch <= (FlashBlocks - 1) * FlushBatch
    BY <2>1, FewerBlocks, Sizes
  <2> QED
    BY <2>1, <2>2, BlockStep, Sizes
<1>3. Len(flash) - n = (FlashBlocks - 1) * FlushBatch
  BY <1>1, <1>2, Sizes DEF FlashFull
<1>4. n \in 1 .. Len(flash) /\ n \in 0 .. Len(flash)
  BY <1>1, <1>2, <1>3, Sizes
<1>5. WithoutOldestBlock = SubSeq(flash, n + 1, Len(flash))
  BY <1>1, Sizes DEF WithoutOldestBlock
<1> HIDE DEF n
<1>6. /\ WithoutOldestBlock \in Seq(Entry)
      /\ Len(WithoutOldestBlock) = Len(flash) - n
      /\ \A i \in 1 .. Len(flash) - n : WithoutOldestBlock[i] = flash[n + i]
  BY <1>1, <1>4, <1>5, Remainder
<1> QED
  BY <1>3, <1>4, <1>6 DEF n

(* Flash after it made room: whole blocks, in order, as before.            *)
Emptied(f, n) ==
  /\ f \in Seq(Entry)
  /\ n \in 0 .. Len(flash)
  /\ Len(f) = Len(flash) - n
  /\ \A i \in 1 .. Len(f) : f[i] = flash[n + i]

LEMMA AppendKeeps ==
  ASSUME IInv, FlushAppend
  PROVE  IInv'
<1>1. UNCHANGED <<ring, export, flush, nvm_full, flush_work, sent, exports,
                  last, delivered, commit_failed>>
  BY DEF FlushAppend
<1>2. pc[Flusher] = "append" /\ Goto(Flusher, "append_done")
  BY DEF FlushAppend
<1>3. /\ pc' \in [Thread -> Label]
      /\ pc'[Flusher] = "append_done"
      /\ pc'[Transfer] = pc[Transfer]
      /\ \A u \in Pushers : pc'[u] = pc[u]
  BY <1>2, FlusherMoves DEF Label
<1>4. flush_active /\ ~export_active /\ pc[Transfer] \notin ExportPc
  BY <1>2, FlushAlone DEF FlushPc
<1>5. /\ Len(flush_buffer) = FlushBatch /\ count >= FlushBatch
      /\ \A i \in 1 .. FlushBatch : flush_buffer[i] = Start + i
  BY <1>4 DEF IInv, FlushHolds
<1>6. ~BatchInBoth
  BY <1>2 DEF BatchInBoth
<1>7. /\ \A i, j \in 1 .. Len(flash) : i < j => flash[i] < flash[j]
      /\ \A i \in 1 .. Len(flash) : delivered < flash[i] /\ flash[i] <= Start
      /\ delivered <= Start
  <2>1. InBoth = 0 /\ Start + 0 = Start
    BY <1>6, Typed DEF InBoth, IInv
  <2> QED
    BY <2>1 DEF IInv, FlashOrder
<1>8. /\ flash \in Seq(Entry) /\ Len(flash) \in Nat /\ Start \in Int
      /\ flash_offset \in Nat /\ flash_offset < FlushBatch
      /\ flush_buffer \in Seq(Entry) /\ delivered \in Nat
      /\ \A i \in 1 .. Len(flash) : flash[i] \in Nat
  BY Typed, FlashEntries DEF IInv
<1>9. RingHolds' /\ FlushHolds' /\ Start' = Start
  BY <1>1 DEF IInv, RingHolds, FlushHolds, Slot, Start, ring, flush
<1>10. Phases'
  BY <1>1, <1>3, <1>4
     DEF IInv, Phases, export, flush, FlushPc, ExportPc, SchedulePc
<1>11. ExportHolds'
  BY <1>3, <1>4 DEF ExportHolds, ExportsFlash, ExportsRam, ExportPc
<1>12. /\ result' \in [Thread -> {"ok", "retired", "io", "nospc"}]
       /\ faults' \in Nat
  <2>1. /\ result \in [Thread -> {"ok", "retired", "io", "nospc"}]
        /\ faults \in Nat
    BY DEF IInv, TypeOK
  <2>2. \E err \in {"ok", "io", "nospc"} :
          result' = [result EXCEPT ![Flusher] = err]
    BY DEF FlushAppend
  <2>3. \/ faults' = faults
        \/ faults > 0 /\ faults' = faults - 1
    BY DEF FlushAppend
  <2>4. result' \in [Thread -> {"ok", "retired", "io", "nospc"}]
    BY <2>1, <2>2
  <2>5. faults' \in Nat
    BY <2>1, <2>3
  <2> QED
    BY <2>4, <2>5
<1> DEFINE kept == IF FlashFull THEN WithoutOldestBlock ELSE flash
           gone == IF FlashFull THEN FlushBatch - flash_offset ELSE 0
           offset == IF FlashFull THEN 0 ELSE flash_offset
<1>13. /\ Emptied(kept, gone)
       /\ \E k \in 0 .. FlashBlocks - 1 : Len(kept) + offset = k * FlushBatch
       /\ offset \in 0 .. FlushBatch - 1
  <2>1. CASE FlashFull
    <3>1. FlashBlocks - 1 \in 0 .. FlashBlocks - 1
      BY Sizes
    <3>2. Emptied(kept, gone)
      BY <1>8, <2>1, RoomMade, Sizes DEF Emptied, IInv, FlashFull
    <3>3. Len(kept) + offset = (FlashBlocks - 1) * FlushBatch
      BY <2>1, RoomMade, Sizes DEF IInv
    <3> QED
      BY <2>1, <3>1, <3>2, <3>3, Sizes
  <2>2. CASE ~FlashFull
    <3>1. PICK k \in 0 .. FlashBlocks : Len(flash) + flash_offset = k * FlushBatch
      BY DEF IInv, WholeBlocks
    <3>2. k # FlashBlocks
      BY <2>2, <3>1 DEF FlashFull
    <3>3. k \in 0 .. FlashBlocks - 1
      BY <3>2, Sizes
    <3>4. Emptied(kept, gone)
      BY <1>8, <2>2 DEF Emptied
    <3>5. Len(kept) + offset = k * FlushBatch
      BY <2>2, <3>1
    <3>6. offset \in 0 .. FlushBatch - 1
      BY <1>8, <2>2, Sizes
    <3> QED
      BY <3>3, <3>4, <3>5, <3>6
  <2> QED
    BY <2>1, <2>2
<1> HIDE DEF kept, gone, offset
<1>14. /\ kept \in Seq(Entry) /\ Len(kept) \in Nat
       /\ \A i \in 1 .. Len(kept) : kept[i] \in Nat
       /\ \A i, j \in 1 .. Len(kept) : i < j => kept[i] < kept[j]
       /\ \A i \in 1 .. Len(kept) : delivered < kept[i] /\ kept[i] <= Start
  <2>1. kept \in Seq(Entry) /\ Len(kept) \in Nat
    BY <1>13, Indexed DEF Emptied
  <2>2. gone \in Nat /\ Len(kept) = Len(flash) - gone
    BY <1>8, <1>13 DEF Emptied
  <2>3. \A i \in 1 .. Len(kept) :
          gone + i \in 1 .. Len(flash) /\ kept[i] = flash[gone + i]
    BY <1>8, <1>13, <2>2 DEF Emptied
  <2>4. \A i \in 1 .. Len(kept) : kept[i] \in Nat
    BY <2>1, Indexed
  <2>5. \A i \in 1 .. Len(kept) : delivered < kept[i] /\ kept[i] <= Start
    BY <1>7, <2>3
  <2>6. ASSUME NEW i \in 1 .. Len(kept), NEW j \in 1 .. Len(kept), i < j
        PROVE  kept[i] < kept[j]
    <3>1. /\ gone + i \in 1 .. Len(flash) /\ kept[i] = flash[gone + i]
          /\ gone + j \in 1 .. Len(flash) /\ kept[j] = flash[gone + j]
      BY <2>3
    <3>2. gone + i < gone + j
      BY <2>1, <2>2, <2>6
    <3> QED
      BY <1>7, <3>1, <3>2
  <2> QED
    BY <2>1, <2>4, <2>5, <2>6
<1>15. CASE /\ flash' = kept \o flush_buffer
            /\ flash_offset' = offset
            /\ result' = [result EXCEPT ![Flusher] = "ok"]
  <2>1. /\ flash' \in Seq(Entry)
        /\ Len(flash') = Len(kept) + FlushBatch
        /\ \A i \in 1 .. Len(kept) + FlushBatch : flash'[i] =
             IF i <= Len(kept) THEN kept[i] ELSE flush_buffer[i - Len(kept)]
    BY <1>5, <1>8, <1>14, <1>15, ConcatProperties
  <2>2. /\ \A i \in 1 .. Len(kept) : flash'[i] = kept[i]
        /\ \A i \in 1 .. FlushBatch : flash'[Len(kept) + i] = Start + i
    <3>1. ASSUME NEW i \in 1 .. Len(kept)
          PROVE  flash'[i] = kept[i]
      <4>1. i \in 1 .. Len(kept) + FlushBatch /\ i <= Len(kept)
        BY <1>14, Sizes
      <4> QED
        BY <2>1, <4>1
    <3>2. ASSUME NEW i \in 1 .. FlushBatch
          PROVE  flash'[Len(kept) + i] = Start + i
      <4> DEFINE j == Len(kept) + i
      <4>1. /\ j \in 1 .. Len(kept) + FlushBatch /\ ~(j <= Len(kept))
            /\ j - Len(kept) = i
        BY <1>14, Sizes
      <4> HIDE DEF j
      <4>2. flash'[j] = flush_buffer[i]
        BY <2>1, <4>1
      <4> QED
        BY <1>5, <4>2 DEF j
    <3> QED
      BY <3>1, <3>2
  <2>3. BatchInBoth'
    <3>1. result'[Flusher] = "ok"
      BY <1>15, Threads DEF IInv, TypeOK
    <3> QED
      BY <1>3, <3>1 DEF BatchInBoth
  <2>4. BatchWritten'
    BY <1>9, <1>14, <2>1, <2>2, Sizes DEF BatchWritten
  <2>5. WholeBlocks' /\ Len(flash)' + flash_offset' <= FlashBlocks * FlushBatch
    <3>1. PICK k \in 0 .. FlashBlocks - 1 : Len(kept) + offset = k * FlushBatch
      BY <1>13
    <3>2. k \in Int /\ k + 1 \in 0 .. FlashBlocks /\ FlashBlocks \in Int
      BY Sizes
    <3>3. Len(flash') + flash_offset' = (k + 1) * FlushBatch
      <4>1. offset \in Int /\ flash_offset' = offset
        BY <1>13, <1>15, Sizes
      <4>2. (k + 1) * FlushBatch = Len(kept) + offset + FlushBatch
        BY <3>1, <3>2, BlockStep
      <4> QED
        BY <1>14, <2>1, <4>1, <4>2, Sizes
    <3>4. (k + 1) * FlushBatch <= FlashBlocks * FlushBatch
      BY <3>2, FewerBlocks, Sizes
    <3> QED
      BY <3>2, <3>3, <3>4 DEF WholeBlocks
  <2>6. FlashOrder'
    <3>1. InBoth' = FlushBatch
      BY <2>3 DEF InBoth
    <3>2. ASSUME NEW i \in 1 .. Len(flash')
          PROVE  \/ i \in 1 .. Len(kept) /\ flash'[i] = kept[i]
                 \/ /\ i - Len(kept) \in 1 .. FlushBatch
                    /\ flash'[i] = Start + (i - Len(kept))
      <4>1. i \in Int /\ Len(kept) + (i - Len(kept)) = i
        BY <1>14, <2>1, Sizes
      <4>2. i \in 1 .. Len(kept) \/ i - Len(kept) \in 1 .. FlushBatch
        BY <1>14, <2>1, Sizes
      <4> QED
        BY <2>2, <4>1, <4>2
    <3>3. ASSUME NEW i \in 1 .. Len(flash')
          PROVE  delivered < flash'[i] /\ flash'[i] <= Start + FlushBatch
      BY <1>7, <1>8, <1>14, <3>2, Sizes
    <3>4. ASSUME NEW i \in 1 .. Len(flash'), NEW j \in 1 .. Len(flash'), i < j
          PROVE  flash'[i] < flash'[j]
      <4>1. i \in Int /\ j \in Int
        BY <1>14, <2>1, Sizes
      <4>2. \/ i \in 1 .. Len(kept) /\ flash'[i] = kept[i]
            \/ /\ i - Len(kept) \in 1 .. FlushBatch
               /\ flash'[i] = Start + (i - Len(kept))
        BY <3>2
      <4>3. \/ j \in 1 .. Len(kept) /\ flash'[j] = kept[j]
            \/ /\ j - Len(kept) \in 1 .. FlushBatch
               /\ flash'[j] = Start + (j - Len(kept))
        BY <3>2
      <4> QED
        BY <1>8, <1>14, <3>4, <4>1, <4>2, <4>3, Sizes
    <3> QED
      BY <1>1, <1>7, <1>9, <3>1, <3>3, <3>4 DEF FlashOrder
  <2>7. TypeOK'
    BY <1>1, <1>3, <1>12, <1>13, <1>15, <2>1, <2>5
       DEF IInv, TypeOK, ring, export, flush
  <2> QED
    BY <1>9, <1>10, <1>11, <2>4, <2>5, <2>6, <2>7 DEF IInv
<1>16. CASE /\ \/ UNCHANGED storage
               \/ flash' = kept /\ flash_offset' = offset
            /\ result'[Flusher] # "ok"
  <2>1. ~BatchInBoth' /\ InBoth' = 0
    BY <1>16 DEF BatchInBoth, InBoth
  <2>2. \E k \in 0 .. FlashBlocks : Len(flash)' + flash_offset' = k * FlushBatch
    <3>1. CASE UNCHANGED storage
      BY <3>1 DEF IInv, WholeBlocks, storage
    <3>2. CASE flash' = kept /\ flash_offset' = offset
      <4>1. PICK k \in 0 .. FlashBlocks - 1 : Len(kept) + offset = k * FlushBatch
        BY <1>13
      <4>2. k \in 0 .. FlashBlocks
        BY Sizes
      <4> QED
        BY <3>2, <4>1, <4>2
    <3> QED
      BY <1>16, <3>1, <3>2
  <2>3. /\ flash' \in Seq(Entry) /\ flash_offset' \in 0 .. FlushBatch - 1
        /\ \A i \in 1 .. Len(flash') : delivered < flash'[i] /\ flash'[i] <= Start
        /\ \A i, j \in 1 .. Len(flash') : i < j => flash'[i] < flash'[j]
    <3>1. CASE UNCHANGED storage
      BY <1>7, <1>8, <3>1, Sizes DEF storage
    <3>2. CASE flash' = kept /\ flash_offset' = offset
      BY <1>13, <1>14, <3>2
    <3> QED
      BY <1>16, <3>1, <3>2
  <2>4. Len(flash)' + flash_offset' <= FlashBlocks * FlushBatch
    <3>1. PICK k \in 0 .. FlashBlocks : Len(flash)' + flash_offset' = k * FlushBatch
      BY <2>2
    <3>2. k \in Int /\ FlashBlocks \in Int /\ k <= FlashBlocks
      BY Sizes
    <3> QED
      BY <3>1, <3>2, FewerBlocks
  <2>5. FlashOrder'
    BY <1>1, <1>7, <1>8, <1>9, <2>1, <2>3 DEF FlashOrder
  <2>6. TypeOK'
    BY <1>1, <1>3, <1>12, <2>3, <2>4 DEF IInv, TypeOK, ring, export, flush
  <2>7. BatchWritten' /\ WholeBlocks'
    BY <2>1, <2>2 DEF BatchWritten, WholeBlocks
  <2> QED
    BY <1>9, <1>10, <1>11, <2>5, <2>6, <2>7 DEF IInv
<1>17. \/ /\ flash' = kept \o flush_buffer
          /\ flash_offset' = offset
          /\ result' = [result EXCEPT ![Flusher] = "ok"]
       \/ /\ \/ UNCHANGED storage
             \/ flash' = kept /\ flash_offset' = offset
          /\ \E err \in {"io", "nospc"} : result' = [result EXCEPT ![Flusher] = err]
  BY DEF FlushAppend, kept, offset
<1>18. (\E err \in {"io", "nospc"} : result' = [result EXCEPT ![Flusher] = err])
         => result'[Flusher] # "ok"
  BY Threads DEF IInv, TypeOK
<1> QED
  BY <1>15, <1>16, <1>17, <1>18

LEMMA FlushEndKeeps ==
  ASSUME IInv, FlushEnd
  PROVE  IInv'
<1>1. UNCHANGED <<entries, write_index, export, flush_read_index, flush_buffer,
                  flush_work, storage, result, sent, faults, exports, last,
                  delivered, commit_failed>>
  BY DEF FlushEnd
<1>2. pc[Flusher] = "append_done" /\ flush_active' = FALSE
  BY DEF FlushEnd
<1>3. PICK label \in {"idle", "submit"} : Goto(Flusher, label)
  BY DEF FlushEnd
<1>4. /\ pc' \in [Thread -> Label]
      /\ pc'[Flusher] \in {"idle", "submit"}
      /\ pc'[Transfer] = pc[Transfer]
      /\ \A u \in Pushers : pc'[u] = pc[u]
  BY <1>3, FlusherMoves DEF Label
<1>5. flush_active /\ ~export_active /\ pc[Transfer] \notin ExportPc
  BY <1>2, FlushAlone DEF FlushPc
<1>6. flush_read_index = read_index /\ count >= FlushBatch
  BY <1>5 DEF IInv, FlushHolds
<1>7. BatchStored <=> BatchInBoth
  BY <1>2, <1>6 DEF BatchStored, BatchInBoth
<1>8. Phases'
  BY <1>1, <1>2, <1>4, <1>5
     DEF IInv, Phases, export, FlushPc, ExportPc, SchedulePc
<1>9. ExportHolds'
  BY <1>4, <1>5 DEF ExportHolds, ExportsFlash, ExportsRam, ExportPc
<1>10. ~BatchInBoth' /\ FlushHolds' /\ BatchWritten' /\ InBoth' = 0
  BY <1>2, <1>4 DEF BatchInBoth, InBoth, FlushHolds, BatchWritten
<1>11. WholeBlocks' /\ nvm_full' \in BOOLEAN
  BY <1>1 DEF IInv, WholeBlocks, storage, TypeOK, FlushEnd
<1>12. /\ read_index \in Nat /\ count \in Nat /\ count <= RingCount
       /\ last \in Nat /\ delivered \in Nat /\ Start \in Int
       /\ \A i \in 1 .. Len(flash) : flash[i] \in Nat
  BY Typed, FlashEntries DEF IInv
<1>13. CASE BatchStored
  <2>1. /\ read_index' = (read_index + FlushBatch) % RingCount
        /\ count' = count - FlushBatch
    BY <1>13 DEF FlushEnd
  <2>2. count' \in Nat /\ Start' = Start + FlushBatch
    BY <1>1, <1>6, <1>12, <2>1, Sizes DEF Start
  <2>3. RingHolds' /\ write_index' = (read_index' + count') % RingCount
    BY <1>1, <1>6, <2>1, Sizes, TakenFromRing DEF IInv
  <2>4. FlashOrder'
    <3>1. InBoth = FlushBatch
      BY <1>7, <1>13 DEF InBoth
    <3> QED
      BY <1>1, <1>10, <1>12, <2>2, <3>1, Sizes DEF IInv, FlashOrder, storage
  <2>5. read_index' \in 0 .. RingCount - 1 /\ count' \in 0 .. RingCount
    BY <1>6, <1>12, <2>1, <2>2, Sizes
  <2>6. TypeOK'
    BY <1>1, <1>2, <1>4, <1>11, <2>3, <2>5 DEF IInv, TypeOK, export, storage
  <2> QED
    BY <1>8, <1>9, <1>10, <1>11, <2>3, <2>4, <2>6 DEF IInv
<1>14. CASE ~BatchStored
  <2>1. UNCHANGED <<read_index, count>>
    BY <1>14 DEF FlushEnd
  <2>2. RingHolds' /\ Start' = Start
    BY <1>1, <2>1 DEF IInv, RingHolds, Slot, Start
  <2>3. FlashOrder'
    <3>1. InBoth = 0
      BY <1>7, <1>14 DEF InBoth
    <3> QED
      BY <1>1, <1>10, <2>2, <3>1 DEF IInv, FlashOrder, storage
  <2>4. TypeOK'
    BY <1>1, <1>2, <1>4, <1>11, <2>1 DEF IInv, TypeOK, export, storage
  <2> QED
    BY <1>8, <1>9, <1>10, <1>11, <2>2, <2>3, <2>4 DEF IInv
<1> QED
  BY <1>13, <1>14

-----------------------------------------------------------------------------
(* ram_log_ring_export_begin and _abort.                                   *)

LEMMA TransferMoves ==
  ASSUME IInv, NEW label \in Label, Goto(Transfer, label)
  PROVE  /\ pc' \in [Thread -> Label]
         /\ pc'[Transfer] = label
         /\ pc'[Flusher] = pc[Flusher]
         /\ \A u \in Pushers : pc'[u] = pc[u]
BY GoneTo, Threads DEF IInv

(* While an export is under way nothing is being flushed.                  *)
LEMMA ExportAlone ==
  ASSUME IInv, pc[Transfer] \in ExportPc
  PROVE  /\ export_active /\ ~flush_active
         /\ pc[Flusher] \notin FlushPc
BY DEF IInv, Phases

(* A step of the transfer that takes nothing out of the ring or flash.     *)
LEMMA TransferQuiet ==
  ASSUME IInv, NEW label \in Label, Goto(Transfer, label),
         UNCHANGED <<ring, flush, storage, last, delivered, result>>
  PROVE  RingHolds' /\ FlushHolds' /\ BatchWritten' /\ WholeBlocks' /\ FlashOrder'
<1>1. pc'[Flusher] = pc[Flusher]
  BY TransferMoves
<1> QED
  BY <1>1, Quiet

LEMMA BeginKeeps ==
  ASSUME IInv, ExportBegin
  PROVE  IInv'
<1>1. UNCHANGED <<ring, flush, nvm_full, flush_work, storage, result, sent,
                  faults, last, delivered, commit_failed>>
  BY DEF ExportBegin
<1>2. /\ Goto(Transfer, "count") /\ "count" \in Label
      /\ pc[Transfer] = "idle" /\ ~flush_active
      /\ exports > 0 /\ exports' = exports - 1
      /\ export_active' = TRUE /\ export_source' = "FLASH" /\ export_entries' = 0
  BY DEF ExportBegin, Label
<1>3. /\ pc' \in [Thread -> Label] /\ pc'[Transfer] = "count"
      /\ pc'[Flusher] = pc[Flusher] /\ \A u \in Pushers : pc'[u] = pc[u]
  BY <1>2, TransferMoves
<1>4. exports' \in Nat /\ export_entries' \in 0 .. BufferEntries
  BY <1>2, Sizes DEF IInv, TypeOK
<1>5. TypeOK'
  BY <1>1, <1>2, <1>3, <1>4 DEF IInv, TypeOK, ring, flush, storage
<1>6. Phases'
  BY <1>1, <1>2, <1>3 DEF IInv, Phases, flush, FlushPc, ExportPc, SchedulePc
<1>7. ExportHolds'
  BY <1>3 DEF ExportHolds, ExportsFlash, ExportsRam
<1> QED
  BY <1>1, <1>2, <1>5, <1>6, <1>7, TransferQuiet DEF IInv

LEMMA CountKeeps ==
  ASSUME IInv, ExportCount
  PROVE  IInv'
<1>1. UNCHANGED <<ring, export, flush, nvm_full, flush_work, storage, result,
                  sent, faults, exports, last, delivered, commit_failed>>
  BY DEF ExportCount
<1>2. PICK label \in {"peek", "ram"} :
        /\ Goto(Transfer, label)
        /\ label = "peek" <=> flash # <<>>
  BY DEF ExportCount
<1>3. label \in Label /\ pc[Transfer] = "count"
  BY DEF Label, ExportCount
<1>4. /\ pc' \in [Thread -> Label] /\ pc'[Transfer] = label
      /\ pc'[Flusher] = pc[Flusher] /\ \A u \in Pushers : pc'[u] = pc[u]
  BY <1>2, <1>3, TransferMoves
<1>5. TypeOK'
  BY <1>1, <1>4 DEF IInv, TypeOK, ring, export, flush, storage
<1>6. Phases'
  BY <1>1, <1>3, <1>4
     DEF IInv, Phases, export, flush, FlushPc, ExportPc, SchedulePc
<1>7. ExportHolds'
  BY <1>1, <1>2, <1>4 DEF ExportHolds, ExportsFlash, ExportsRam, storage
<1> QED
  BY <1>1, <1>2, <1>3, <1>5, <1>6, <1>7, TransferQuiet DEF IInv

LEMMA PeekKeeps ==
  ASSUME IInv, ExportPeek
  PROVE  IInv'
<1>1. UNCHANGED <<ring, export, flush, nvm_full, flush_work, storage, result,
                  faults, exports, last, delivered, commit_failed>>
  BY DEF ExportPeek
<1>2. /\ Goto(Transfer, "mark") /\ "mark" \in Label /\ pc[Transfer] = "peek"
      /\ sent' = SubSeq(flash, 1, PeekCount)
  BY DEF ExportPeek, Label
<1>3. /\ pc' \in [Thread -> Label] /\ pc'[Transfer] = "mark"
      /\ pc'[Flusher] = pc[Flusher] /\ \A u \in Pushers : pc'[u] = pc[u]
  BY <1>2, TransferMoves
<1>4. FlushBatch - flash_offset \in 1 .. Len(flash)
  BY <1>2, FirstBlock DEF IInv, ExportHolds
<1>5. /\ PeekCount \in 1 .. Len(flash) /\ PeekCount \in 0 .. Len(flash)
      /\ PeekCount <= FlushBatch - flash_offset /\ PeekCount <= BufferEntries
  <2>1. Len(flash) \in Nat /\ flash_offset \in Nat
    BY Typed DEF IInv
  <2> QED
    BY <1>4, <2>1, Sizes DEF PeekCount, Lowest
<1>6. /\ sent' \in Seq(Entry) /\ Len(sent') = PeekCount
      /\ \A i \in 1 .. PeekCount : sent'[i] = flash[i]
  BY <1>2, <1>5, Beginning, Typed DEF IInv
<1>7. TypeOK'
  BY <1>1, <1>3, <1>6 DEF IInv, TypeOK, ring, export, flush, storage
<1>8. Phases'
  BY <1>1, <1>2, <1>3
     DEF IInv, Phases, export, flush, FlushPc, ExportPc, SchedulePc
<1>9. FlashSent'
  BY <1>1, <1>5, <1>6 DEF FlashSent, storage
<1>10. ExportHolds'
  BY <1>3, <1>9 DEF ExportHolds, ExportsFlash, ExportsRam
<1> QED
  BY <1>1, <1>2, <1>7, <1>8, <1>10, TransferQuiet DEF IInv

LEMMA NoneReserved ==
  ASSUME NoExport
  PROVE  /\ export_active' \in BOOLEAN
         /\ export_source' \in {"NONE", "FLASH", "RAM"}
         /\ export_entries' \in 0 .. BufferEntries
<1>1. 0 \in 0 .. BufferEntries
  BY Sizes
<1> QED
  BY <1>1 DEF NoExport

(* The export ends without anything having been removed.                   *)
LEMMA GivenUp ==
  ASSUME IInv, NEW label \in SchedulePc, Goto(Transfer, label), NoExport,
         UNCHANGED <<ring, flush, nvm_full, flush_work, storage, result, exports,
                     last, delivered, commit_failed>>,
         pc[Transfer] \in ExportPc,
         faults' \in Nat, sent' \in Seq(Entry)
  PROVE  IInv'
<1>1. label \in Label
  BY DEF SchedulePc, Label
<1>2. /\ pc' \in [Thread -> Label] /\ pc'[Transfer] = label
      /\ pc'[Flusher] = pc[Flusher] /\ \A u \in Pushers : pc'[u] = pc[u]
  BY <1>1, TransferMoves
<1>3. pc'[Transfer] \in {"idle", "check", "submit"}
  BY <1>2 DEF SchedulePc
<1>4. ~flush_active
  BY ExportAlone
<1>5. TypeOK'
  BY <1>2, NoneReserved DEF IInv, TypeOK, ring, flush, storage
<1>6. Phases'
  BY <1>2, <1>3, <1>4
     DEF IInv, Phases, NoExport, flush, FlushPc, ExportPc, SchedulePc
<1>7. ExportHolds'
  BY <1>3 DEF ExportHolds, ExportsFlash, ExportsRam
<1> QED
  BY <1>1, <1>5, <1>6, <1>7, TransferQuiet DEF IInv

LEMMA FailsKeeps ==
  ASSUME IInv, ExportFails
  PROVE  IInv'
<1>1. faults' \in Nat /\ sent' \in Seq(Entry)
  BY DEF IInv, TypeOK, ExportFails
<1>2. /\ "check" \in SchedulePc /\ Goto(Transfer, "check") /\ NoExport
      /\ pc[Transfer] \in ExportPc
      /\ UNCHANGED <<ring, flush, nvm_full, flush_work, storage, result, exports,
                     last, delivered, commit_failed>>
  BY DEF ExportFails, SchedulePc, ExportPc
<1> QED
  BY <1>1, <1>2, GivenUp

LEMMA AbortKeeps ==
  ASSUME IInv, ExportAbort
  PROVE  IInv'
<1>1. faults' \in Nat /\ sent' \in Seq(Entry)
  <2>1. sent' = <<>> /\ faults' = faults
    BY DEF ExportAbort
  <2> QED
    BY <2>1, EmptySeq DEF IInv, TypeOK
<1>2. /\ "check" \in SchedulePc /\ Goto(Transfer, "check") /\ NoExport
      /\ pc[Transfer] \in ExportPc
      /\ UNCHANGED <<ring, flush, nvm_full, flush_work, storage, result, exports,
                     last, delivered, commit_failed>>
  BY DEF ExportAbort, SchedulePc, ExportPc
<1> QED
  BY <1>1, <1>2, GivenUp

LEMMA MarkKeeps ==
  ASSUME IInv, ExportMark
  PROVE  IInv'
<1>1. UNCHANGED <<ring, flush, nvm_full, flush_work, storage, result, sent,
                  faults, exports, last, delivered, commit_failed>>
  BY DEF ExportMark
<1>2. pc[Transfer] = "mark" /\ StillReserved
  BY DEF ExportMark, IInv, Phases, StillReserved, ExportPc
<1>3. /\ Goto(Transfer, "hold") /\ "hold" \in Label
      /\ export_entries' = Len(sent)
      /\ export_active' = export_active /\ export_source' = export_source
  BY <1>2 DEF ExportMark, Label
<1>4. /\ pc' \in [Thread -> Label] /\ pc'[Transfer] = "hold"
      /\ pc'[Flusher] = pc[Flusher] /\ \A u \in Pushers : pc'[u] = pc[u]
  BY <1>3, TransferMoves
<1>5. export_source = "FLASH" /\ FlashSent
  BY <1>2 DEF IInv, ExportHolds, ExportsFlash, StillReserved
<1>6. Len(sent) \in 0 .. BufferEntries
  BY <1>5, Typed, Sizes DEF IInv, FlashSent
<1>7. TypeOK'
  BY <1>1, <1>3, <1>4, <1>6 DEF IInv, TypeOK, ring, flush, storage
<1>8. Phases'
  BY <1>1, <1>2, <1>3, <1>4, <1>5
     DEF IInv, Phases, flush, FlushPc, ExportPc, SchedulePc
<1>9. ExportHolds'
  BY <1>1, <1>3, <1>4, <1>5
     DEF ExportHolds, ExportsFlash, ExportsRam, FlashSent, storage
<1> QED
  BY <1>1, <1>3, <1>7, <1>8, <1>9, TransferQuiet DEF IInv

LEMMA RamKeeps ==
  ASSUME IInv, ExportRam
  PROVE  IInv'
<1>1. UNCHANGED <<ring, flush, nvm_full, flush_work, storage, result, faults,
                  exports, last, delivered, commit_failed>>
  BY DEF ExportRam
<1>2. pc[Transfer] = "ram" /\ StillReserved /\ flash = <<>>
  BY DEF ExportRam, IInv, Phases, StillReserved, ExportPc, ExportHolds
<1> DEFINE n == Lowest(BufferEntries, count)
<1>3. count \in Nat /\ n \in 0 .. count /\ n \in 0 .. BufferEntries
  BY Typed, Sizes DEF IInv, Lowest
<1>4. CASE n = 0
  <2>1. NoExport /\ Goto(Transfer, "idle") /\ sent' = sent
    BY <1>2, <1>4 DEF ExportRam
  <2>2. "idle" \in SchedulePc /\ pc[Transfer] \in ExportPc
    BY <1>2 DEF SchedulePc, ExportPc
  <2>3. faults' \in Nat /\ sent' \in Seq(Entry)
    BY <1>1, <2>1 DEF IInv, TypeOK
  <2> QED
    BY <1>1, <2>1, <2>2, <2>3, GivenUp
<1>5. CASE n # 0
  <2>1. /\ sent' = Oldest(n) /\ export_source' = "RAM" /\ export_entries' = n
        /\ export_active' = export_active
        /\ Goto(Transfer, "hold") /\ "hold" \in Label
    BY <1>2, <1>5 DEF ExportRam, Label
  <2> HIDE DEF n
  <2>2. /\ Oldest(n) \in Seq(Entry) /\ Len(Oldest(n)) = n
        /\ \A i \in 1 .. n : Oldest(n)[i] = Start + i
    BY <1>3, OldestAre DEF IInv
  <2>3. /\ pc' \in [Thread -> Label] /\ pc'[Transfer] = "hold"
        /\ pc'[Flusher] = pc[Flusher] /\ \A u \in Pushers : pc'[u] = pc[u]
    BY <2>1, TransferMoves
  <2>4. TypeOK'
    BY <1>1, <1>3, <2>1, <2>2, <2>3 DEF IInv, TypeOK, ring, flush, storage
  <2>5. Phases'
    BY <1>1, <1>2, <2>1, <2>3
       DEF IInv, Phases, flush, FlushPc, ExportPc, SchedulePc
  <2>6. RamSent'
    BY <1>1, <1>2, <1>3, <1>5, <2>1, <2>2 DEF RamSent, Start, ring, storage
  <2>7. ExportHolds'
    BY <2>1, <2>2, <2>3, <2>6 DEF ExportHolds, ExportsFlash, ExportsRam
  <2> QED
    BY <1>1, <2>1, <2>4, <2>5, <2>7, TransferQuiet DEF IInv
<1> QED
  BY <1>4, <1>5

-----------------------------------------------------------------------------
(* ram_log_ring_export_commit.                                             *)

LEMMA CommitRamKeeps ==
  ASSUME IInv, CommitRam
  PROVE  IInv'
<1>1. UNCHANGED <<entries, write_index, flush, nvm_full, flush_work, storage,
                  result, faults, exports, last>>
  BY DEF CommitRam
<1>2. /\ pc[Transfer] = "hold" /\ export_source = "RAM"
      /\ NoExport /\ sent' = <<>>
  BY DEF CommitRam
<1>3. RamSent /\ export_entries = Len(sent)
  BY <1>2 DEF IInv, ExportHolds, ExportsRam
<1>4. /\ count \in Nat /\ last \in Nat /\ Start \in Int /\ read_index \in Nat
      /\ count <= RingCount /\ sent \in Seq(Entry) /\ Len(sent) \in 1 .. count
  BY <1>3, Typed DEF IInv, RamSent
<1>5. export_entries <= count
  BY <1>3, <1>4
<1>6. /\ read_index' = (read_index + Len(sent)) % RingCount
      /\ count' = count - Len(sent)
      /\ delivered' = Last(sent)
      /\ Goto(Transfer, "check") /\ "check" \in Label
      /\ commit_failed' = commit_failed
  BY <1>3, <1>5 DEF CommitRam, Label
<1>7. ~flush_active /\ pc[Flusher] \notin FlushPc
  BY <1>2, ExportAlone DEF ExportPc
<1>8. /\ pc' \in [Thread -> Label] /\ pc'[Transfer] = "check"
      /\ pc'[Flusher] = pc[Flusher] /\ \A u \in Pushers : pc'[u] = pc[u]
  BY <1>6, TransferMoves
<1>9. RingHolds' /\ write_index' = (read_index' + count') % RingCount
  BY <1>1, <1>4, <1>6, TakenFromRing DEF IInv
<1>10. /\ Start' = Start + Len(sent) /\ count' \in 0 .. RingCount
       /\ read_index' \in 0 .. RingCount - 1
  BY <1>1, <1>4, <1>6, Sizes DEF Start
<1>11. delivered' = Start' /\ delivered' \in Entry
  <2>1. delivered' = sent[Len(sent)] /\ Len(sent) \in 1 .. Len(sent)
    BY <1>4, <1>6 DEF Last
  <2>2. sent[Len(sent)] = Start + Len(sent)
    BY <1>3, <2>1 DEF RamSent
  <2> QED
    BY <1>4, <1>10, <2>1, <2>2, Indexed
<1>12. flash' = <<>> /\ Len(flash') = 0
  BY <1>1, <1>3, EmptySeq DEF RamSent, storage
<1>13. sent' \in Seq(Entry)
  BY <1>2, EmptySeq
<1>14. TypeOK'
  BY <1>1, <1>2, <1>6, <1>8, <1>9, <1>10, <1>11, <1>13, NoneReserved
     DEF IInv, TypeOK, flush, storage
<1>15. Phases'
  BY <1>1, <1>2, <1>7, <1>8
     DEF IInv, Phases, NoExport, flush, FlushPc, ExportPc, SchedulePc
<1>16. ExportHolds'
  BY <1>8 DEF ExportHolds, ExportsFlash, ExportsRam
<1>17. ~BatchInBoth' /\ InBoth' = 0 /\ FlushHolds' /\ BatchWritten'
  BY <1>1, <1>7, <1>8
     DEF BatchInBoth, InBoth, FlushHolds, BatchWritten, FlushPc, flush
<1>18. WholeBlocks'
  BY <1>1 DEF IInv, WholeBlocks, storage
<1>19. FlashOrder'
  <2>1. Start' \in Int
    BY <1>4, <1>10
  <2> QED
    BY <1>11, <1>12, <2>1 DEF FlashOrder
<1> QED
  BY <1>9, <1>14, <1>15, <1>16, <1>17, <1>18, <1>19 DEF IInv

LEMMA CommitFlashKeeps ==
  ASSUME IInv, CommitFlash
  PROVE  IInv'
<1>1. UNCHANGED <<ring, export, flush, nvm_full, flush_work, storage, result,
                  sent, faults, exports, last, delivered, commit_failed>>
  BY DEF CommitFlash
<1>2. /\ pc[Transfer] = "hold" /\ export_source = "FLASH"
      /\ Goto(Transfer, "drop") /\ "drop" \in Label
  BY DEF CommitFlash, Label
<1>3. /\ pc' \in [Thread -> Label] /\ pc'[Transfer] = "drop"
      /\ pc'[Flusher] = pc[Flusher] /\ \A u \in Pushers : pc'[u] = pc[u]
  BY <1>2, TransferMoves
<1>4. TypeOK'
  BY <1>1, <1>3 DEF IInv, TypeOK, ring, export, flush, storage
<1>5. Phases'
  BY <1>1, <1>2, <1>3
     DEF IInv, Phases, export, flush, FlushPc, ExportPc, SchedulePc
<1>6. ExportHolds'
  BY <1>1, <1>2, <1>3 DEF IInv, ExportHolds, ExportsFlash, ExportsRam,
     FlashSent, export, storage
<1> QED
  BY <1>1, <1>2, <1>4, <1>5, <1>6, TransferQuiet DEF IInv

LEMMA CommitEndKeeps ==
  ASSUME IInv, CommitEnd
  PROVE  IInv'
<1>1. UNCHANGED <<ring, flush, flush_work, storage, result, faults, exports,
                  last, delivered>>
  BY DEF CommitEnd
<1>2. /\ pc[Transfer] = "drop_done" /\ NoExport /\ sent' = <<>>
      /\ nvm_full' \in BOOLEAN /\ commit_failed' \in BOOLEAN
  BY DEF CommitEnd, IInv, TypeOK
<1>3. PICK label \in {"idle", "check"} : Goto(Transfer, label)
  BY DEF CommitEnd
<1>4. label \in Label
  BY DEF Label
<1>5. /\ pc' \in [Thread -> Label] /\ pc'[Transfer] = label
      /\ pc'[Flusher] = pc[Flusher] /\ \A u \in Pushers : pc'[u] = pc[u]
  BY <1>3, <1>4, TransferMoves
<1>6. ~flush_active
  BY <1>2, ExportAlone DEF ExportPc
<1>7. sent' \in Seq(Entry)
  BY <1>2, EmptySeq
<1>8. TypeOK'
  BY <1>1, <1>2, <1>4, <1>5, <1>7, NoneReserved
     DEF IInv, TypeOK, ring, flush, storage
<1>9. Phases'
  BY <1>1, <1>2, <1>5, <1>6
     DEF IInv, Phases, NoExport, flush, FlushPc, ExportPc, SchedulePc
<1>10. ExportHolds'
  BY <1>5 DEF ExportHolds, ExportsFlash, ExportsRam
<1> QED
  BY <1>1, <1>3, <1>4, <1>8, <1>9, <1>10, TransferQuiet DEF IInv

LEMMA DropKeeps ==
  ASSUME IInv, Drop
  PROVE  IInv'
<1>1. UNCHANGED <<ring, export, flush, nvm_full, flush_work, sent, exports,
                  last, commit_failed>>
  BY DEF Drop
<1>2. /\ pc[Transfer] = "drop"
      /\ Goto(Transfer, "drop_done") /\ "drop_done" \in Label
  BY DEF Drop, Label
<1>3. /\ pc' \in [Thread -> Label] /\ pc'[Transfer] = "drop_done"
      /\ pc'[Flusher] = pc[Flusher] /\ \A u \in Pushers : pc'[u] = pc[u]
  BY <1>2, TransferMoves
<1>4. export_source = "FLASH" /\ FlashSent /\ export_entries = Len(sent)
  BY <1>2 DEF IInv, Phases, ExportHolds, ExportsFlash
<1>5. ~flush_active /\ pc[Flusher] \notin FlushPc
  BY <1>2, ExportAlone DEF ExportPc
<1>6. Phases'
  BY <1>1, <1>2, <1>3, <1>4
     DEF IInv, Phases, export, flush, FlushPc, ExportPc, SchedulePc
<1>7. ExportHolds'
  BY <1>3 DEF ExportHolds, ExportsFlash, ExportsRam
<1>8. ~BatchInBoth /\ ~BatchInBoth' /\ InBoth = 0 /\ InBoth' = 0
  BY <1>3, <1>5 DEF BatchInBoth, InBoth, FlushPc
<1>9. FlushHolds' /\ BatchWritten' /\ RingHolds' /\ Start' = Start
  BY <1>1, <1>5, <1>8 DEF IInv, FlushHolds, BatchWritten, RingHolds, Slot,
     Start, ring, flush
<1> DEFINE n == Len(sent)
<1>10. /\ flash \in Seq(Entry) /\ Len(flash) \in Nat /\ Start \in Int
       /\ flash_offset \in Nat /\ sent \in Seq(Entry) /\ n \in Nat
       /\ n \in 1 .. Len(flash) /\ n <= FlushBatch - flash_offset
       /\ delivered \in Nat
       /\ \A i \in 1 .. Len(flash) : flash[i] \in Nat
  BY <1>4, Typed, FlashEntries DEF IInv, FlashSent
<1> HIDE DEF n
<1>11. /\ \A i, j \in 1 .. Len(flash) : i < j => flash[i] < flash[j]
       /\ \A i \in 1 .. Len(flash) : delivered < flash[i] /\ flash[i] <= Start
       /\ delivered <= Start
  <2>1. Start + InBoth = Start
    BY <1>8, <1>10
  <2> QED
    BY <2>1 DEF IInv, FlashOrder
<1>12. /\ result' \in [Thread -> {"ok", "retired", "io", "nospc"}]
       /\ faults' \in Nat
  <2>1. \E r \in {"ok", "retired", "io"} :
          result' = [result EXCEPT ![Transfer] = r]
    BY DEF Drop
  <2>2. \/ faults' = faults
        \/ faults > 0 /\ faults' = faults - 1
    BY DEF Drop
  <2>3. faults' \in Nat
    BY <2>2 DEF IInv, TypeOK
  <2>4. result' \in [Thread -> {"ok", "retired", "io", "nospc"}]
    BY <2>1 DEF IInv, TypeOK
  <2> QED
    BY <2>3, <2>4
<1>13. CASE UNCHANGED <<storage, delivered>>
  <2>1. TypeOK'
    BY <1>1, <1>3, <1>12, <1>13 DEF IInv, TypeOK, ring, export, flush, storage
  <2>2. WholeBlocks' /\ FlashOrder'
    BY <1>8, <1>9, <1>13 DEF IInv, WholeBlocks, FlashOrder, storage
  <2> QED
    BY <1>6, <1>7, <1>9, <2>1, <2>2 DEF IInv
<1>14. CASE /\ flash' = SubSeq(flash, export_entries + 1, Len(flash))
            /\ flash_offset' = (flash_offset + export_entries) % FlushBatch
            /\ delivered' = Last(sent)
  <2>1. /\ flash' \in Seq(Entry) /\ Len(flash') = Len(flash) - n
        /\ \A i \in 1 .. Len(flash) - n : flash'[i] = flash[n + i]
    <3>1. n \in 0 .. Len(flash) /\ export_entries = n
      BY <1>4, <1>10 DEF n
    <3> QED
      BY <1>10, <1>14, <3>1, Remainder
  <2>2. delivered' = flash[n] /\ delivered' \in Entry
    <3>1. delivered' = sent[n] /\ n \in 1 .. n
      BY <1>10, <1>14 DEF Last, n
    <3> QED
      BY <1>4, <1>10, <3>1, FlashEntries DEF FlashSent, n, IInv
  <2>3. /\ flash_offset' \in 0 .. FlushBatch - 1
        /\ \E k \in 0 .. FlashBlocks : Len(flash') + flash_offset' = k * FlushBatch
    <3>1. PICK k \in 0 .. FlashBlocks : Len(flash) + flash_offset = k * FlushBatch
      BY DEF IInv, WholeBlocks
    <3>2. k \in Int /\ k >= 1
      <4>1. k \in Int
        BY Sizes
      <4> QED
        BY <1>10, <3>1, <4>1, BlockStep
    <3>3. flash_offset' = (flash_offset + n) % FlushBatch
      BY <1>4, <1>14 DEF n
    <3>4. CASE flash_offset + n < FlushBatch
      <4>1. flash_offset' = flash_offset + n
        BY <1>10, <3>3, <3>4, BelowBatch
      <4>2. Len(flash') + flash_offset' = k * FlushBatch
        BY <1>10, <2>1, <3>1, <4>1
      <4>3. flash_offset' \in 0 .. FlushBatch - 1
        BY <1>10, <3>4, <4>1, Sizes
      <4> QED
        BY <4>2, <4>3
    <3>5. CASE flash_offset + n = FlushBatch
      <4>1. flash_offset' = 0
        BY <3>3, <3>5, Sizes
      <4>2. Len(flash') + flash_offset' = (k - 1) * FlushBatch
        <5>1. (k - 1) * FlushBatch = k * FlushBatch - FlushBatch
          BY <3>2, BlockStep
        <5>2. n = FlushBatch - flash_offset /\ Len(flash') = Len(flash) - n
          BY <1>10, <2>1, <3>5, Sizes
        <5>3. k * FlushBatch \in Int
          BY <3>2, BlockStep
        <5> QED
          BY <1>10, <3>1, <4>1, <5>1, <5>2, <5>3, Sizes
      <4>3. k - 1 \in 0 .. FlashBlocks
        BY <3>2, Sizes
      <4> QED
        BY <4>1, <4>2, <4>3, Sizes
    <3> QED
      BY <1>10, <3>4, <3>5, Sizes
  <2>4. Len(flash)' + flash_offset' <= FlashBlocks * FlushBatch
    <3>1. PICK k \in 0 .. FlashBlocks : Len(flash') + flash_offset' = k * FlushBatch
      BY <2>3
    <3>2. k \in Int /\ FlashBlocks \in Int /\ k <= FlashBlocks
      BY Sizes
    <3> QED
      BY <3>1, <3>2, FewerBlocks
  <2>5. FlashOrder'
    <3>1. \A i \in 1 .. Len(flash') :
            n + i \in 1 .. Len(flash) /\ flash'[i] = flash[n + i] /\ n < n + i
      BY <1>10, <2>1
    <3>2. n \in 1 .. Len(flash)
      BY <1>10
    <3>3. \A i \in 1 .. Len(flash') : delivered' < flash'[i] /\ flash'[i] <= Start
      BY <1>11, <2>2, <3>1, <3>2
    <3>4. ASSUME NEW i \in 1 .. Len(flash'), NEW j \in 1 .. Len(flash'), i < j
          PROVE  flash'[i] < flash'[j]
      <4>1. /\ n + i \in 1 .. Len(flash) /\ flash'[i] = flash[n + i]
            /\ n + j \in 1 .. Len(flash) /\ flash'[j] = flash[n + j]
        BY <3>1
      <4>2. n + i < n + j
        BY <1>10, <2>1, <3>4
      <4> QED
        BY <1>11, <4>1, <4>2
    <3>5. delivered' <= Start
      BY <1>11, <2>2, <3>2
    <3>6. Start' + InBoth' = Start
      BY <1>8, <1>9, <1>10
    <3> QED
      BY <1>9, <3>3, <3>4, <3>5, <3>6 DEF FlashOrder
  <2>6. TypeOK'
    BY <1>1, <1>3, <1>12, <1>14, <2>1, <2>2, <2>3, <2>4
       DEF IInv, TypeOK, ring, export, flush
  <2>7. WholeBlocks'
    BY <2>3 DEF WholeBlocks
  <2> QED
    BY <1>6, <1>7, <1>9, <2>5, <2>6, <2>7 DEF IInv
<1> QED
  BY <1>13, <1>14 DEF Drop

-----------------------------------------------------------------------------
(* The invariant holds from the start and through every step.              *)

LEMMA InitInvariant ==
  Init => IInv
<1> SUFFICES ASSUME Init PROVE IInv
  OBVIOUS
<1> USE DEF Init
<1>1. 0 \in Entry /\ 0 \in 0 .. RingCount - 1 /\ 0 \in 0 .. RingCount
  BY Sizes DEF Entry
<1>2. <<>> \in Seq(Entry) /\ Len(<<>>) = 0
  BY EmptySeq
<1>3. 0 * FlushBatch = 0 /\ 0 <= FlashBlocks * FlushBatch /\ 0 \in 0 .. FlashBlocks
  BY Sizes, FewerBlocks
<1>4. \A t \in Thread : pc[t] = "idle"
  OBVIOUS
<1>5. TypeOK
  <2>1. write_index = (read_index + count) % RingCount
    BY Sizes
  <2>2. Len(flash) + flash_offset <= FlashBlocks * FlushBatch
    BY <1>2, <1>3, Sizes
  <2>3. flash_offset \in 0 .. FlushBatch - 1 /\ export_entries \in 0 .. BufferEntries
    BY Sizes
  <2>4. pc \in [Thread -> Label]
    BY DEF Label
  <2> QED
    BY <1>1, <1>2, <2>1, <2>2, <2>3, <2>4, Sizes DEF TypeOK
<1>6. RingHolds
  BY DEF RingHolds
<1>7. Phases
  BY <1>4, Threads DEF Phases, FlushPc, ExportPc, SchedulePc
<1>8. FlushHolds /\ BatchWritten /\ ExportHolds
  BY <1>4, Threads DEF FlushHolds, BatchWritten, BatchInBoth, ExportHolds,
     ExportsFlash, ExportsRam
<1>9. WholeBlocks
  BY <1>2, <1>3 DEF WholeBlocks
<1>10. FlashOrder
  BY <1>2 DEF FlashOrder, Start
<1> QED
  BY <1>5, <1>6, <1>7, <1>8, <1>9, <1>10 DEF IInv

LEMMA StutterInvariant ==
  ASSUME IInv, UNCHANGED vars
  PROVE  IInv'
<1> USE DEF vars, ring, export, flush, storage
<1>1. RingHolds' /\ FlushHolds' /\ BatchWritten' /\ WholeBlocks' /\ FlashOrder'
  BY Quiet
<1>2. TypeOK' /\ Phases' /\ ExportHolds'
  BY DEF IInv, TypeOK, Phases, ExportHolds, ExportsFlash, ExportsRam,
     FlashSent, RamSent, Start
<1> QED
  BY <1>1, <1>2 DEF IInv

LEMMA NextInvariant ==
  IInv /\ [Next]_vars => IInv'
<1> SUFFICES ASSUME IInv, [Next]_vars PROVE IInv'
  OBVIOUS
<1>1. CASE \E t \in Pushers : Push(t)
  BY <1>1, PushKeeps
<1>2. CASE \E t \in Thread : Check(t) \/ Submit(t)
  BY <1>2, ScheduleKeeps
<1>3. CASE FlushStart \/ FlushAppend \/ FlushEnd
  BY <1>3, FlushStartKeeps, AppendKeeps, FlushEndKeeps
<1>4. CASE ExportBegin \/ ExportCount \/ ExportPeek \/ ExportFails
  BY <1>4, BeginKeeps, CountKeeps, PeekKeeps, FailsKeeps
<1>5. CASE ExportMark \/ ExportRam \/ ExportAbort
  BY <1>5, MarkKeeps, RamKeeps, AbortKeeps
<1>6. CASE CommitRam \/ CommitFlash \/ Drop \/ CommitEnd
  BY <1>6, CommitRamKeeps, CommitFlashKeeps, DropKeeps, CommitEndKeeps
<1>7. CASE UNCHANGED vars
  BY <1>7, StutterInvariant
<1> QED
  BY <1>1, <1>2, <1>3, <1>4, <1>5, <1>6, <1>7, Threads
     DEF Next, FlusherStep, TransferStep, Exhausted

(* Whatever has been logged, flushed, exported or failed, the inductive    *)
(* invariant of the ring holds.                                            *)
THEOREM RingInvariant ==
  Spec => []IInv
BY InitInvariant, NextInvariant, PTL DEF Spec

(* Every variable of the ring keeps its type, among them the indices that  *)
(* wrap and the length of what flash holds.                                *)
THEOREM RingTypes ==
  Spec => []TypeOK
<1>1. IInv => TypeOK
  BY DEF IInv
<1> QED
  BY <1>1, RingInvariant, PTL

-----------------------------------------------------------------------------
(* What was copied stays.                                                  *)

LEMMA CopiedStay ==
  IInv => CopiedEntriesStay
<1> SUFFICES ASSUME IInv PROVE CopiedEntriesStay
  OBVIOUS
<1>1. /\ TypeOK /\ RingHolds
      /\ count \in Nat /\ count \in 0 .. count
      /\ flash \in Seq(Entry) /\ sent \in Seq(Entry) /\ flush_buffer \in Seq(Entry)
  BY Typed DEF IInv
<1>2. /\ Ram \in Seq(Entry) /\ Len(Ram) = count
      /\ \A i \in 1 .. count : Ram[i] = Start + i
  BY <1>1, OldestAre DEF Ram
<1>3. ASSUME pc[Transfer] \in {"hold", "drop"}
      PROVE  /\ export_entries = Len(sent)
             /\ sent = SubSeq(IF export_source = "RAM" THEN Ram ELSE flash,
                              1, export_entries)
  <2>1. export_entries = Len(sent)
    BY <1>3 DEF IInv, ExportHolds
  <2>2. CASE export_source = "RAM"
    <3>1. RamSent
      <4>1. pc[Transfer] = "hold"
        BY <1>3, <2>2 DEF IInv, Phases
      <4> QED
        BY <2>2, <4>1 DEF IInv, ExportHolds, ExportsRam
    <3>2. Len(sent) \in 0 .. Len(Ram) /\ Len(sent) \in 1 .. count
      BY <1>1, <1>2, <3>1 DEF RamSent
    <3>3. \A i \in 1 .. Len(sent) : Ram[i] = sent[i]
      BY <1>1, <1>2, <3>1, <3>2 DEF RamSent
    <3>4. SubSeq(Ram, 1, Len(sent)) = sent
      BY <1>1, <1>2, <3>2, <3>3, SameBeginning
    <3> QED
      BY <2>1, <2>2, <3>4
  <2>3. CASE export_source # "RAM"
    <3>1. FlashSent
      <4>1. export_source = "FLASH"
        BY <1>3, <2>3 DEF IInv, Phases, TypeOK
      <4> QED
        BY <1>3, <4>1 DEF IInv, ExportHolds, ExportsFlash
    <3>2. Len(sent) \in 0 .. Len(flash)
      BY <1>1, <3>1, Indexed DEF FlashSent
    <3>3. \A i \in 1 .. Len(sent) : flash[i] = sent[i]
      BY <3>1 DEF FlashSent
    <3>4. SubSeq(flash, 1, Len(sent)) = sent
      BY <1>1, <3>2, <3>3, SameBeginning
    <3> QED
      BY <2>1, <2>3, <3>4
  <2> QED
    BY <2>1, <2>2, <2>3
<1>4. ASSUME pc[Flusher] \in {"append", "append_done"}
      PROVE  flush_buffer = SubSeq(Ram, 1, FlushBatch)
  <2>1. /\ count >= FlushBatch /\ Len(flush_buffer) = FlushBatch
        /\ \A i \in 1 .. FlushBatch : flush_buffer[i] = Start + i
    BY <1>4, FlushAlone DEF IInv, FlushHolds, FlushPc
  <2>2. Len(flush_buffer) \in 0 .. Len(Ram)
    BY <1>1, <1>2, <2>1, Sizes
  <2>3. \A i \in 1 .. Len(flush_buffer) : Ram[i] = flush_buffer[i]
    BY <1>1, <1>2, <2>1, Sizes
  <2>4. SubSeq(Ram, 1, Len(flush_buffer)) = flush_buffer
    BY <1>1, <1>2, <2>2, <2>3, SameBeginning
  <2> QED
    BY <2>1, <2>4
<1> QED
  BY <1>3, <1>4 DEF CopiedEntriesStay

(* The entries an export or a flush has copied out stay the oldest ones    *)
(* until it ends, whatever is logged or fails meanwhile.                   *)
THEOREM CopiesStay ==
  Spec => []CopiedEntriesStay
BY RingInvariant, CopiedStay, PTL

-----------------------------------------------------------------------------
(* The log is in order.                                                    *)

LEMMA Ordered ==
  IInv => LogOrdered
<1> SUFFICES ASSUME IInv PROVE LogOrdered
  OBVIOUS
<1> DEFINE rest == IF BatchInBoth THEN SubSeq(Ram, FlushBatch + 1, count) ELSE Ram
           log == flash \o rest
<1>1. /\ TypeOK /\ RingHolds
      /\ count \in Nat /\ count \in 0 .. count /\ Start \in Int
      /\ delivered \in Nat /\ flash \in Seq(Entry) /\ Len(flash) \in Nat
      /\ \A i \in 1 .. Len(flash) : flash[i] \in Nat
  BY Typed, FlashEntries DEF IInv
<1>2. /\ Ram \in Seq(Entry) /\ Len(Ram) = count
      /\ \A i \in 1 .. count : Ram[i] = Start + i
  BY <1>1, OldestAre DEF Ram
<1>3. InBoth \in 0 .. count
  <2>1. BatchInBoth => count >= FlushBatch
    BY FlushAlone DEF BatchInBoth, FlushPc, IInv, FlushHolds
  <2> QED
    BY <1>1, <2>1, Sizes DEF InBoth
<1>4. /\ rest \in Seq(Entry) /\ Len(rest) = count - InBoth
      /\ \A i \in 1 .. count - InBoth : rest[i] = Start + InBoth + i
  <2>1. CASE BatchInBoth
    <3>1. InBoth = FlushBatch
      BY <2>1 DEF InBoth
    <3>2. /\ SubSeq(Ram, InBoth + 1, Len(Ram)) \in Seq(Entry)
          /\ Len(SubSeq(Ram, InBoth + 1, Len(Ram))) = Len(Ram) - InBoth
          /\ \A i \in 1 .. Len(Ram) - InBoth :
               SubSeq(Ram, InBoth + 1, Len(Ram))[i] = Ram[InBoth + i]
      BY <1>2, <1>3, Remainder
    <3>3. rest = SubSeq(Ram, InBoth + 1, Len(Ram))
      BY <1>2, <2>1, <3>1
    <3> HIDE DEF rest
    <3>4. ASSUME NEW i \in 1 .. count - InBoth
          PROVE  rest[i] = Start + InBoth + i
      <4>1. InBoth + i \in 1 .. count /\ i \in 1 .. Len(Ram) - InBoth
        BY <1>1, <1>2, <1>3
      <4>2. rest[i] = Ram[InBoth + i]
        BY <3>2, <3>3, <4>1
      <4> QED
        BY <1>1, <1>2, <1>3, <4>1, <4>2
    <3> QED
      BY <1>2, <3>2, <3>3, <3>4
  <2>2. CASE ~BatchInBoth
    <3>1. InBoth = 0 /\ rest = Ram
      BY <2>2 DEF InBoth
    <3> HIDE DEF rest
    <3>2. count - InBoth = count /\ Start + InBoth = Start
      BY <1>1, <3>1
    <3> QED
      BY <1>2, <3>1, <3>2
  <2> QED
    BY <2>1, <2>2
<1> HIDE DEF rest
<1>5. /\ log \in Seq(Entry) /\ Len(log) = Len(flash) + (count - InBoth)
      /\ \A i \in 1 .. Len(log) : log[i] =
           IF i <= Len(flash) THEN flash[i] ELSE rest[i - Len(flash)]
  <2>1. /\ log \in Seq(Entry) /\ Len(log) = Len(flash) + Len(rest)
        /\ \A i \in 1 .. Len(flash) + Len(rest) : log[i] =
             IF i <= Len(flash) THEN flash[i] ELSE rest[i - Len(flash)]
    BY <1>1, <1>4, ConcatProperties
  <2> HIDE DEF log
  <2> QED
    BY <1>4, <2>1
<1> HIDE DEF log
<1>6. /\ \A i, j \in 1 .. Len(flash) : i < j => flash[i] < flash[j]
      /\ \A i \in 1 .. Len(flash) :
           delivered < flash[i] /\ flash[i] <= Start + InBoth
      /\ delivered <= Start
  BY DEF IInv, FlashOrder
<1>7. ASSUME NEW i \in 1 .. Len(log)
      PROVE  \/ i \in 1 .. Len(flash) /\ log[i] = flash[i]
             \/ i > Len(flash) /\ log[i] = Start + InBoth + (i - Len(flash))
  <2>1. CASE i <= Len(flash)
    BY <1>1, <1>3, <1>5, <2>1
  <2>2. CASE i > Len(flash)
    <3>1. /\ i - Len(flash) \in 1 .. count - InBoth
          /\ log[i] = rest[i - Len(flash)]
      BY <1>1, <1>3, <1>5, <2>2
    <3> QED
      BY <1>4, <2>2, <3>1
  <2> QED
    BY <1>1, <1>5, <2>1, <2>2
<1>8. ASSUME NEW i \in 1 .. Len(log) - 1
      PROVE  log[i] < log[i + 1]
  <2>1. i \in 1 .. Len(log) /\ i + 1 \in 1 .. Len(log) /\ i \in Int
    BY <1>1, <1>3, <1>5
  <2>2. \/ i \in 1 .. Len(flash) /\ log[i] = flash[i]
        \/ i > Len(flash) /\ log[i] = Start + InBoth + (i - Len(flash))
    BY <1>7, <2>1
  <2>3. \/ i + 1 \in 1 .. Len(flash) /\ log[i + 1] = flash[i + 1]
        \/ /\ i + 1 > Len(flash)
           /\ log[i + 1] = Start + InBoth + ((i + 1) - Len(flash))
    BY <1>7, <2>1
  <2> QED
    BY <1>1, <1>3, <1>6, <2>1, <2>2, <2>3
<1>9. log # <<>> => Head(log) > delivered
  <2> SUFFICES ASSUME log # <<>> PROVE Head(log) > delivered
    OBVIOUS
  <2>1. 1 \in 1 .. Len(log) /\ Head(log) = log[1]
    BY <1>5, Indexed
  <2>2. \/ 1 \in 1 .. Len(flash) /\ log[1] = flash[1]
        \/ 1 > Len(flash) /\ log[1] = Start + InBoth + (1 - Len(flash))
    BY <1>7, <2>1
  <2> QED
    BY <1>1, <1>3, <1>6, <2>1, <2>2
<1> QED
  BY <1>8, <1>9 DEF LogOrdered, Increasing, log, rest

(* Flash, then RAM, hold the entries in the order they were logged, none   *)
(* twice but a batch on its way, and none that was already delivered.      *)
THEOREM LogInOrder ==
  Spec => []LogOrdered
BY RingInvariant, Ordered, PTL

-----------------------------------------------------------------------------
(* Nothing is lost on the way.                                             *)

(* What is in the log, by its place in flash or in the ring.               *)
InFlash(e) == \E i \in 1 .. Len(flash) : e = flash[i]
InRam(e) == \E i \in 1 .. count : e = Start + i

Places == \A e : e \in Logged <=> InFlash(e) \/ InRam(e)

LEMMA LoggedPlaces ==
  IInv => Places
<1> SUFFICES ASSUME IInv PROVE Places
  OBVIOUS
<1>1. /\ TypeOK /\ RingHolds
      /\ count \in Nat /\ count \in 0 .. count /\ flash \in Seq(Entry)
  BY Typed DEF IInv
<1>2. /\ Ram \in Seq(Entry) /\ Len(Ram) = count
      /\ \A i \in 1 .. count : Ram[i] = Start + i
  BY <1>1, OldestAre DEF Ram
<1>3. DOMAIN flash = 1 .. Len(flash) /\ DOMAIN Ram = 1 .. count
  BY <1>1, <1>2, LenProperties
<1>4. \A e : e \in ToSet(flash) <=> InFlash(e)
  BY <1>3 DEF ToSet, InFlash
<1>5. \A e : e \in ToSet(Ram) <=> InRam(e)
  BY <1>2, <1>3 DEF ToSet, InRam
<1> QED
  BY <1>4, <1>5 DEF Logged, Places

LEMMA SentMember ==
  ASSUME IInv, NEW i \in 1 .. Len(sent)
  PROVE  sent[i] \in ToSet(sent)
<1>1. DOMAIN sent = 1 .. Len(sent)
  BY Typed, LenProperties DEF IInv
<1> QED
  BY <1>1 DEF ToSet

(* A full ring gives way only when nobody has copied its oldest entry.     *)
LEMMA PushLoses ==
  ASSUME IInv, Places', NEW t \in Pushers, Push(t), NEW e, e \notin Logged',
         InFlash(e) \/ InRam(e)
  PROVE  LeavesRightly(e)
<1>1. /\ count \in Nat /\ last \in Nat /\ Start \in Int /\ TypeOK /\ RingHolds
  BY Typed DEF IInv
<1>2. ~InFlash(e)' /\ ~InRam(e)'
  BY DEF Places
<1>3. flash' = flash
  BY DEF Push, storage
<1>4. ~InFlash(e)
  BY <1>2, <1>3 DEF InFlash
<1>5. PICK i \in 1 .. count : e = Start + i
  BY <1>4 DEF InRam
<1>6. ~(UNCHANGED <<ring, last>>)
  BY <1>1, <1>2, <1>5 DEF InRam, Start, ring
<1>7. /\ ~Pinned /\ last' = last + 1
      /\ IF count = RingCount THEN count' = count ELSE count' = count + 1
  BY <1>6 DEF Push
<1>8. CASE count # RingCount
  <2>1. i \in 1 .. count' /\ e = Start' + i
    BY <1>1, <1>5, <1>7, <1>8 DEF Start
  <2> QED
    BY <1>2, <2>1 DEF InRam
<1>9. CASE count = RingCount
  <2>1. Start' = Start + 1 /\ count' = count
    BY <1>1, <1>7, <1>9 DEF Start
  <2>2. i = 1
    <3>1. CASE i - 1 \in 1 .. count
      <4>1. i - 1 \in 1 .. count' /\ e = Start' + (i - 1)
        BY <1>1, <1>5, <2>1, <3>1
      <4> QED
        BY <1>2, <4>1 DEF InRam
    <3> QED
      BY <1>1, <3>1
  <2>3. Ram[1] = Start + 1
    <3>1. count \in 0 .. count /\ 1 \in 1 .. count
      BY <1>1, <1>5, <2>2
    <3> QED
      BY <1>1, <3>1, OldestAre DEF Ram
  <2> QED
    BY <1>5, <1>7, <1>9, <2>2, <2>3 DEF LeavesRightly, Pinned
<1> QED
  BY <1>8, <1>9

(* A full store loses its oldest block, and nothing else.                  *)
LEMMA AppendLoses ==
  ASSUME IInv, Places', FlushAppend, NEW e, e \notin Logged',
         InFlash(e) \/ InRam(e)
  PROVE  LeavesRightly(e)
<1>1. /\ flash \in Seq(Entry) /\ Len(flash) \in Nat /\ TypeOK
      /\ flash_offset \in Nat /\ flash_offset < FlushBatch
      /\ flush_buffer \in Seq(Entry) /\ Len(flush_buffer) \in Nat
  BY Typed DEF IInv
<1>2. ~InFlash(e)' /\ ~InRam(e)'
  BY DEF Places
<1>3. ~InRam(e)
  BY <1>2 DEF FlushAppend, InRam, Start, ring
<1>4. PICK i \in 1 .. Len(flash) : e = flash[i]
  BY <1>3 DEF InFlash
<1>5. ASSUME flash' = flash \/ flash' = flash \o flush_buffer
      PROVE  FALSE
  <2>1. CASE flash' = flash
    BY <1>2, <1>4, <2>1 DEF InFlash
  <2>2. CASE flash' = flash \o flush_buffer
    <3>1. i \in 1 .. Len(flash') /\ flash'[i] = flash[i]
      BY <1>1, <2>2, ConcatProperties
    <3> QED
      BY <1>2, <1>4, <3>1 DEF InFlash
  <2> QED
    BY <1>5, <2>1, <2>2
<1>6. /\ FlashFull
      /\ flash' = WithoutOldestBlock \/ flash' = WithoutOldestBlock \o flush_buffer
  BY <1>5 DEF FlushAppend, storage
<1> DEFINE n == FlushBatch - flash_offset
<1>7. /\ n \in 1 .. Len(flash)
      /\ WithoutOldestBlock \in Seq(Entry)
      /\ Len(WithoutOldestBlock) \in Nat
      /\ Len(WithoutOldestBlock) = Len(flash) - n
      /\ \A j \in 1 .. Len(flash) - n : WithoutOldestBlock[j] = flash[n + j]
  <2>1. n \in 1 .. Len(flash) /\ n \in 0 .. Len(flash) /\ n \in Int
    BY <1>1, <1>6, RoomMade, Sizes
  <2>2. WithoutOldestBlock = SubSeq(flash, n + 1, Len(flash))
    BY <1>1, Sizes DEF WithoutOldestBlock
  <2> HIDE DEF n
  <2> QED
    BY <1>1, <2>1, <2>2, Remainder, Indexed
<1> HIDE DEF n
<1>8. i \in 1 .. n
  <2>1. CASE i - n \in 1 .. Len(flash) - n
    <3> DEFINE j == i - n
    <3>1. n + j = i /\ j \in 1 .. Len(flash) - n
      BY <1>7, <2>1
    <3> HIDE DEF j
    <3>2. j \in 1 .. Len(WithoutOldestBlock) /\ WithoutOldestBlock[j] = e
      BY <1>4, <1>7, <3>1
    <3>3. j \in 1 .. Len(flash') /\ flash'[j] = e
      <4>1. CASE flash' = WithoutOldestBlock
        BY <3>2, <4>1
      <4>2. CASE flash' = WithoutOldestBlock \o flush_buffer
        BY <1>1, <1>7, <3>2, <4>2, ConcatProperties
      <4> QED
        BY <1>6, <4>1, <4>2
    <3> QED
      BY <1>2, <3>3 DEF InFlash
  <2> QED
    BY <1>1, <1>7, <2>1
<1>9. e \in ToSet(SubSeq(flash, 1, n))
  <2>1. /\ SubSeq(flash, 1, n) \in Seq(Entry) /\ Len(SubSeq(flash, 1, n)) = n
        /\ \A j \in 1 .. n : SubSeq(flash, 1, n)[j] = flash[j]
    <3>1. n \in 0 .. Len(flash)
      BY <1>7
    <3> QED
      BY <1>1, <3>1, Beginning
  <2>2. DOMAIN SubSeq(flash, 1, n) = 1 .. n
    BY <2>1, LenProperties
  <2> QED
    BY <1>4, <1>8, <2>1, <2>2 DEF ToSet
<1> QED
  BY <1>6, <1>9 DEF LeavesRightly, FlushAppend, n

(* A batch leaves the ring only when flash has it.                         *)
LEMMA FlushLoses ==
  ASSUME IInv, Places', FlushEnd, NEW e, InFlash(e) \/ InRam(e)
  PROVE  e \in Logged'
<1>1. /\ count \in Nat /\ last \in Nat /\ Start \in Int
      /\ flash \in Seq(Entry) /\ Len(flash) \in Nat
  BY Typed DEF IInv
<1>2. flash' = flash /\ last' = last
  BY DEF FlushEnd, storage
<1>3. SUFFICES InFlash(e)' \/ InRam(e)'
  BY DEF Places
<1>4. CASE InFlash(e)
  BY <1>2, <1>4 DEF InFlash
<1>5. CASE InRam(e)
  <2>1. PICK i \in 1 .. count : e = Start + i
    BY <1>5 DEF InRam
  <2>2. CASE ~BatchStored
    <3>1. count' = count
      BY <2>2 DEF FlushEnd
    <3> QED
      BY <1>2, <2>1, <3>1 DEF InRam, Start
  <2>3. CASE BatchStored
    <3>1. count' = count - FlushBatch /\ count >= FlushBatch
      BY <2>3 DEF FlushEnd, BatchStored
    <3>2. BatchInBoth
      BY <2>3 DEF BatchStored, BatchInBoth, FlushEnd
    <3>3. CASE i \in 1 .. FlushBatch
      <4> DEFINE j == Len(flash) - FlushBatch + i
      <4>1. Len(flash) >= FlushBatch /\ flash[j] = Start + i
        BY <3>2, <3>3 DEF IInv, BatchWritten
      <4>2. j \in 1 .. Len(flash)
        BY <1>1, <3>3, <4>1, Sizes
      <4> HIDE DEF j
      <4> QED
        BY <1>2, <2>1, <4>1, <4>2 DEF InFlash
    <3>4. CASE i - FlushBatch \in 1 .. count'
      <4>1. e = Start' + (i - FlushBatch)
        BY <1>1, <1>2, <2>1, <3>1, Sizes DEF Start
      <4> QED
        BY <3>4, <4>1 DEF InRam
    <3> QED
      BY <1>1, <3>1, <3>3, <3>4, Sizes
  <2> QED
    BY <2>2, <2>3
<1> QED
  BY <1>4, <1>5

(* A commit removes what was sent, from the ring ...                       *)
LEMMA CommitLoses ==
  ASSUME IInv, Places', CommitRam, NEW e, e \notin Logged',
         InFlash(e) \/ InRam(e)
  PROVE  LeavesRightly(e)
<1>1. count \in Nat /\ last \in Nat /\ Start \in Int /\ Len(sent) \in Nat
  BY Typed DEF IInv
<1>2. ~InFlash(e)' /\ ~InRam(e)'
  BY DEF Places
<1>3. flash' = flash /\ last' = last /\ pc[Transfer] = "hold"
  BY DEF CommitRam, storage
<1>4. PICK i \in 1 .. count : e = Start + i
  BY <1>2, <1>3 DEF InFlash, InRam
<1>5. RamSent /\ export_entries = Len(sent)
  BY DEF CommitRam, IInv, ExportHolds, ExportsRam
<1>6. count' = count - Len(sent)
  BY <1>1, <1>5 DEF CommitRam, RamSent
<1>7. i \in 1 .. Len(sent)
  <2>1. CASE i - Len(sent) \in 1 .. count'
    <3>1. e = Start' + (i - Len(sent))
      BY <1>1, <1>3, <1>4, <1>6 DEF Start
    <3> QED
      BY <1>2, <2>1, <3>1 DEF InRam
  <2> QED
    BY <1>1, <1>6, <2>1
<1>8. e = sent[i]
  BY <1>4, <1>5, <1>7 DEF RamSent
<1> QED
  BY <1>3, <1>7, <1>8, SentMember DEF LeavesRightly

(* ... or from flash.                                                      *)
LEMMA DropLoses ==
  ASSUME IInv, Places', Drop, NEW e, e \notin Logged',
         InFlash(e) \/ InRam(e)
  PROVE  LeavesRightly(e)
<1>1. /\ flash \in Seq(Entry) /\ Len(flash) \in Nat /\ Len(sent) \in Nat
  BY Typed DEF IInv
<1>2. ~InFlash(e)' /\ ~InRam(e)'
  BY DEF Places
<1>3. UNCHANGED <<ring, last>> /\ pc[Transfer] = "drop"
  BY DEF Drop
<1>4. PICK i \in 1 .. Len(flash) : e = flash[i]
  BY <1>2, <1>3 DEF InFlash, InRam, Start, ring
<1>5. FlashSent /\ export_entries = Len(sent)
  BY <1>3 DEF IInv, Phases, ExportHolds, ExportsFlash
<1> DEFINE n == Len(sent)
<1>6. n \in 1 .. Len(flash) /\ n \in 0 .. Len(flash)
  BY <1>1, <1>5 DEF FlashSent
<1>7. flash' # flash
  BY <1>2, <1>4 DEF InFlash
<1>8. flash' = SubSeq(flash, n + 1, Len(flash))
  BY <1>5, <1>7 DEF Drop, storage
<1> HIDE DEF n
<1>9. /\ Len(flash') = Len(flash) - n
      /\ \A j \in 1 .. Len(flash) - n : flash'[j] = flash[n + j]
  BY <1>1, <1>6, <1>8, Remainder
<1>10. i \in 1 .. n
  <2>1. CASE i - n \in 1 .. Len(flash) - n
    <3> DEFINE j == i - n
    <3>1. n + j = i /\ j \in 1 .. Len(flash) - n
      BY <1>6, <2>1
    <3> HIDE DEF j
    <3>2. j \in 1 .. Len(flash') /\ flash'[j] = e
      BY <1>4, <1>9, <3>1
    <3> QED
      BY <1>2, <3>2 DEF InFlash
  <2> QED
    BY <1>1, <1>6, <2>1
<1>11. e = sent[i]
  BY <1>4, <1>5, <1>10 DEF FlashSent, n
<1> QED
  BY <1>3, <1>10, <1>11, SentMember DEF LeavesRightly, n

LEMMA StepLoses ==
  ASSUME IInv, Places, Places', [Next]_vars, NEW e \in Logged \ Logged'
  PROVE  LeavesRightly(e)
<1>1. e \notin Logged' /\ (InFlash(e) \/ InRam(e))
  BY DEF Places
<1>2. CASE \E t \in Pushers : Push(t)
  BY <1>1, <1>2, PushLoses
<1>3. CASE FlushAppend \/ FlushEnd
  BY <1>1, <1>3, AppendLoses, FlushLoses
<1>4. CASE CommitRam \/ Drop
  BY <1>1, <1>4, CommitLoses, DropLoses
<1>5. ASSUME UNCHANGED <<ring, storage>>
      PROVE  FALSE
  BY <1>5 DEF Logged, Ram, Oldest, ring, storage
<1>6. CASE \E t \in Thread : Check(t) \/ Submit(t)
  BY <1>5, <1>6 DEF Check, Submit
<1>7. CASE \/ FlushStart \/ ExportBegin \/ ExportCount \/ ExportPeek
           \/ ExportFails
  BY <1>5, <1>7 DEF FlushStart, ExportBegin, ExportCount, ExportPeek, ExportFails
<1>8. CASE ExportMark \/ ExportRam \/ ExportAbort \/ CommitFlash \/ CommitEnd
  BY <1>5, <1>8 DEF ExportMark, ExportRam, ExportAbort, CommitFlash, CommitEnd
<1>9. CASE UNCHANGED vars
  BY <1>5, <1>9 DEF vars
<1> QED
  BY <1>2, <1>3, <1>4, <1>6, <1>7, <1>8, <1>9, Threads
     DEF Next, FlusherStep, TransferStep, Exhausted

LEMMA StepLosesNothingElse ==
  IInv /\ Places /\ Places' /\ [Next]_vars
    => [\A e \in Logged \ Logged' : LeavesRightly(e)]_vars
BY StepLoses

(* A stored entry leaves the log only by being delivered, or as the oldest *)
(* of a full ring or of a full store: no interleaving of logging, flush    *)
(* and export loses one on the way from RAM to flash, whatever fails.      *)
THEOREM NothingLostOnTheWay ==
  Spec => EntriesLeaveRightly
<1>1. Spec => []Places
  BY RingInvariant, LoggedPlaces, PTL
<1> QED
  BY <1>1, RingInvariant, StepLosesNothingElse, PTL DEF Spec, EntriesLeaveRightly
=============================================================================

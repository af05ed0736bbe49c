-------------------------- MODULE ContactLogProofs --------------------------
(***************************************************************************)
(* Proofs about the contact pipeline, for every size of ring, block, store *)
(* and export buffer, any thresholds, and any number of contacts, failures *)
(* and exports: its type correctness, that the log stays in order, that    *)
(* what an export or a flush copied stays in place until it ends, that a   *)
(* contact only leaves the log by one of the ways it is allowed to, that a *)
(* flush that is due is on its way, and that the level settles on the      *)
(* contacts held.                                                          *)
(***************************************************************************)
EXTENDS ContactLog, SequenceTheorems, FiniteSetTheorems, WellFoundedInduction,
        TLAPS

-----------------------------------------------------------------------------
(* The inductive invariant.                                                *)

(* What the lock's fields say of where the two work queues stand outside   *)
(* it, and that only one of them is ever past its reservation.             *)
CheckPc == {"check", "submit", "update"}
FlushPc == {"append", "append_done"}
ExportPc == {"count", "peek", "mark", "ram", "hold", "drop", "drop_done"}

Phases ==
  /\ pc[Scanner] \in {"idle"} \union CheckPc
  /\ pc[Flusher] \in {"idle"} \union CheckPc \union FlushPc
  /\ pc[Transfer] \in {"idle"} \union CheckPc \union ExportPc
  /\ pc[System] \in {"idle", "ram", "set", "adv"}
  /\ contact_flush_active <=> pc[Flusher] \in FlushPc
  /\ contact_export_source # "NONE" <=> pc[Transfer] \in ExportPc
  /\ ~(contact_flush_active /\ contact_export_source # "NONE")
  /\ pc[Transfer] \in {"count", "peek", "mark", "ram"} =>
       contact_export_source = "NVM" /\ contact_export_count = 0
  /\ pc[Transfer] \in {"drop", "drop_done"} => contact_export_source = "NVM"

(* The block being flushed is the oldest of the ring; once written, it is  *)
(* in flash, too.                                                          *)
Size == Len(contact_flush_block)

FlushHolds ==
  contact_flush_active =>
    /\ contact_flush_read_index = idx_read
    /\ Size \in 1 .. Len(ram) /\ Size <= BlockContacts
    /\ \A i \in 1 .. Size : contact_flush_block[i] = ram[i]

BlockWritten ==
  BlockInBoth =>
    \A i \in 1 .. Size :
      \E j \in 1 .. Len(Stored) : Stored[j] = contact_flush_block[i]

(* What is being exported is the oldest of the oldest block, or the oldest *)
(* of the ring, flash being empty.                                         *)
ExportsFlash ==
  pc[Transfer] \in {"mark", "hold", "drop"} /\ contact_export_source = "NVM"
ExportsRam == pc[Transfer] = "hold" /\ contact_export_source = "RAM"

FlashSent ==
  /\ flash # <<>>
  /\ Len(sent) \in 1 .. Len(Head(flash)) /\ Len(sent) <= BufferContacts
  /\ \A i \in 1 .. Len(sent) : sent[i] = Head(flash)[i]

RamSent ==
  /\ flash = <<>>
  /\ Len(sent) \in 1 .. Len(ram)
  /\ \A i \in 1 .. Len(sent) : sent[i] = ram[i]

ExportHolds ==
  /\ pc[Transfer] = "peek" => flash # <<>>
  /\ pc[Transfer] = "ram" => flash = <<>>
  /\ ExportsFlash => FlashSent
  /\ ExportsRam => RamSent
  /\ pc[Transfer] \in {"hold", "drop"} => contact_export_count = Len(sent)

(* Ring and flash are in order, flash ahead of the ring but for the block  *)
(* that is in both, and everything delivered ahead of flash.               *)
Sorted(s) == \A i, j \in 1 .. Len(s) : i < j => s[i] < s[j]
Within(s) == \A i \in 1 .. Len(s) : delivered < s[i] /\ s[i] <= last
InBoth == IF BlockInBoth THEN Size ELSE 0

Order ==
  /\ delivered <= last
  /\ Sorted(ram) /\ Within(ram)
  /\ Sorted(Stored) /\ Within(Stored)
  /\ \A i \in 1 .. Len(Stored) : \A j \in 1 .. Len(ram) :
       j > InBoth => Stored[i] < ram[j]

(* A flush or a commit will still ask for a level update, or one has been  *)
(* asked for, or a failed call has kept it from knowing that it must.      *)
Dropped == pc[Transfer] = "drop_done" /\ result[Transfer] = "ok"

Unsettled ==
  \/ update_work # "idle" \/ level_missed
  \/ BlockInBoth \/ pc[Flusher] = "update"
  \/ Dropped \/ pc[Transfer] = "update"

(* Otherwise the update under way has the right numbers so far, but for    *)
(* the contacts that came behind its back; and when there is none, the     *)
(* level is that of the latest update, or the scanner is about to ask.     *)
NotTooMany == number_dataset <= Held
NotTooFew == number_dataset >= Held - uncounted
LevelSet == level = contact_status_from_count(Lowest(number_dataset, CountMax))

LevelFollows ==
  Unsettled \/
    /\ pc[System] = "ram" => number_dataset = Len(Stored)
    /\ pc[System] \in {"set", "adv"} => NotTooMany /\ NotTooFew
    /\ pc[System] \in {"adv", "idle"} => LevelSet
    /\ pc[System] = "idle" => NotTooMany
    /\ pc[System] = "idle" /\ pc[Scanner] = "idle" => NotTooFew

IInv ==
  /\ TypeOK
  /\ Phases
  /\ FlushHolds
  /\ BlockWritten
  /\ ExportHolds
  /\ Order
  /\ FlushOnItsWay
  /\ LevelFollows

-----------------------------------------------------------------------------
(* Constants, threads, sequences.                                          *)

LEMMA Sizes ==
  /\ RingCount \in Nat /\ RingCount > 0
  /\ FlushThreshold \in Nat /\ FlushThreshold > 0
  /\ BlockContacts \in Nat /\ BlockContacts > 0
  /\ FlashBlocks \in Nat /\ FlashBlocks > 0
  /\ BufferContacts \in Nat /\ BufferContacts > 0
  /\ CountMax \in Nat
  /\ MaxContacts \in Nat /\ MaxFaults \in Nat /\ MaxExports \in Nat
BY RingAssumption, StorageAssumption, LevelAssumption, BoundAssumption

LEMMA ThreeAtMost ==
  ASSUME NEW a, NEW b, NEW c
  PROVE  Cardinality({a, b, c}) # 4
<1>1. IsFiniteSet({a}) /\ Cardinality({a}) = 1
  BY FS_Singleton
<1>2. /\ IsFiniteSet({a} \union {b})
      /\ Cardinality({a} \union {b}) \in {1, 2}
  BY <1>1, FS_AddElement
<1>3. Cardinality(({a} \union {b}) \union {c}) \in {1, 2, 3}
  BY <1>2, FS_AddElement
<1>4. {a, b, c} = ({a} \union {b}) \union {c}
  OBVIOUS
<1> QED
  BY <1>3, <1>4

LEMMA Threads ==
  /\ Scanner \in Thread /\ Flusher \in Thread
  /\ Transfer \in Thread /\ System \in Thread
  /\ Scanner # Flusher /\ Scanner # Transfer /\ Scanner # System
  /\ Flusher # Transfer /\ Flusher # System /\ Transfer # System
<1>1. Scanner # Flusher
  <2>1. Scanner = Flusher => Thread = {Flusher, Transfer, System}
    BY DEF Thread
  <2> QED
    BY <2>1, ThreeAtMost, ThreadAssumption DEF Thread
<1>2. Scanner # Transfer
  <2>1. Scanner = Transfer => Thread = {Flusher, Transfer, System}
    BY DEF Thread
  <2> QED
    BY <2>1, ThreeAtMost, ThreadAssumption DEF Thread
<1>3. Scanner # System
  <2>1. Scanner = System => Thread = {Flusher, Transfer, System}
    BY DEF Thread
  <2> QED
    BY <2>1, ThreeAtMost, ThreadAssumption DEF Thread
<1>4. Flusher # Transfer
  <2>1. Flusher = Transfer => Thread = {Scanner, Transfer, System}
    BY DEF Thread
  <2> QED
    BY <2>1, ThreeAtMost, ThreadAssumption DEF Thread
<1>5. Flusher # System
  <2>1. Flusher = System => Thread = {Scanner, Transfer, System}
    BY DEF Thread
  <2> QED
    BY <2>1, ThreeAtMost, ThreadAssumption DEF Thread
<1>6. Transfer # System
  <2>1. Transfer = System => Thread = {Scanner, Flusher, System}
    BY DEF Thread
  <2> QED
    BY <2>1, ThreeAtMost, ThreadAssumption DEF Thread
<1> QED
  BY <1>1, <1>2, <1>3, <1>4, <1>5, <1>6 DEF Thread

LEMMA Indexed ==
  ASSUME NEW S, NEW s \in Seq(S)
  PROVE  /\ Len(s) \in Nat
         /\ DOMAIN s = 1 .. Len(s)
         /\ \A i \in 1 .. Len(s) : s[i] \in S
         /\ s = <<>> <=> Len(s) = 0
<1>1. Len(s) \in Nat /\ DOMAIN s = 1 .. Len(s)
  BY LenProperties
<1>2. \A i \in 1 .. Len(s) : s[i] \in S
  BY ElementOfSeq
<1>3. s = <<>> <=> Len(s) = 0
  BY EmptySeq
<1> QED
  BY <1>1, <1>2, <1>3

LEMMA Numbers ==
  ASSUME NEW s \in Seq(Contact)
  PROVE  /\ Len(s) \in Nat
         /\ \A i \in 1 .. Len(s) : s[i] \in Nat /\ s[i] \in Contact
BY Indexed, Sizes DEF Contact

(* What is left when the first n are taken away, and what was taken.       *)
LEMMA Remainder ==
  ASSUME NEW S, NEW s \in Seq(S), NEW n \in 0 .. Len(s)
  PROVE  /\ SubSeq(s, n + 1, Len(s)) \in Seq(S)
         /\ Len(SubSeq(s, n + 1, Len(s))) = Len(s) - n
         /\ \A i \in 1 .. Len(s) - n : SubSeq(s, n + 1, Len(s))[i] = s[n + i]
<1>1. Len(s) \in Nat /\ n \in Nat
  BY Indexed
<1>2. \A i \in n + 1 .. Len(s) : s[i] \in S
  BY <1>1, Indexed
<1> QED
  BY <1>1, <1>2, SubSeqProperties

LEMMA Beginning ==
  ASSUME NEW S, NEW s \in Seq(S), NEW n \in 0 .. Len(s)
  PROVE  /\ SubSeq(s, 1, n) \in Seq(S)
         /\ Len(SubSeq(s, 1, n)) = n
         /\ \A i \in 1 .. n : SubSeq(s, 1, n)[i] = s[i]
<1>1. Len(s) \in Nat /\ n \in Nat
  BY Indexed
<1>2. \A i \in 1 .. n : s[i] \in S
  BY <1>1, Indexed
<1> QED
  BY <1>1, <1>2, SubSeqProperties

LEMMA SameBeginning ==
  ASSUME NEW S, NEW s \in Seq(S), NEW t \in Seq(S), Len(t) \in 0 .. Len(s),
         \A i \in 1 .. Len(t) : t[i] = s[i]
  PROVE  SubSeq(s, 1, Len(t)) = t
<1>1. /\ SubSeq(s, 1, Len(t)) \in Seq(S)
      /\ Len(SubSeq(s, 1, Len(t))) = Len(t)
      /\ \A i \in 1 .. Len(t) : SubSeq(s, 1, Len(t))[i] = s[i]
  BY Beginning
<1> QED
  BY <1>1, SeqEqual

(* As much as fits, and at least one.                                      *)
LEMMA Fitting ==
  ASSUME NEW n \in Nat, NEW m \in Nat
  PROVE  /\ Lowest(n, m) \in Nat /\ Lowest(n, m) <= n /\ Lowest(n, m) <= m
         /\ n > 0 /\ m > 0 => Lowest(n, m) > 0
BY DEF Lowest

-----------------------------------------------------------------------------
(* Blocks joined into one sequence.  FlattenSeq is recursive; the          *)
(* induction is over the set of the places where something goes wrong,     *)
(* which would have a least element.                                       *)

(* Any set of natural numbers has a least one.                             *)
LEMMA LeastNumber ==
  ASSUME NEW T, T \subseteq Nat, T # {}
  PROVE  \E n \in T : \A m \in T : n <= m
<1> DEFINE R == OpToRel(<, Nat)
<1>1. IsWellFoundedOn(R, Nat)
  BY NatLessThanWellFounded
<1>2. \A n, m \in Nat : m < n => <<m, n>> \in R
  BY DEF OpToRel
<1> HIDE DEF R
<1>3. PICK n \in T : \A m \in T : <<m, n>> \notin R
  BY <1>1, WFMin
<1>4. \A m \in T : n <= m
  <2> TAKE m \in T
  <2>1. ~(m < n)
    BY <1>2, <1>3
  <2> QED
    BY <2>1
<1> QED
  BY <1>4

(* g lists the beginnings of FlattenSeq(q), one block longer at a time.    *)
Beginnings(g, q) ==
  /\ DOMAIN g = 1 .. Len(q)
  /\ \A i \in 1 .. Len(q) : g[i] = IF i = 1 THEN q[i] ELSE g[i - 1] \o q[i]

(* Induction over the number of blocks: where two lists first differ, they *)
(* agree just before, and so do not differ.                                *)
LEMMA BeginningsAgree ==
  ASSUME NEW S, NEW q \in Seq(S), NEW g, NEW h, Beginnings(g, q), Beginnings(h, q),
         NEW n \in 1 .. Len(q)
  PROVE  g[n] = h[n]
<1>1. Len(q) \in Nat
  BY LenProperties
<1> DEFINE T == {i \in 1 .. Len(q) : g[i] # h[i]}
<1>2. SUFFICES ASSUME T # {} PROVE FALSE
  OBVIOUS
<1>3. T \subseteq Nat
  BY <1>1
<1>4. PICK i \in T : \A j \in T : i <= j
  BY <1>2, <1>3, LeastNumber
<1>5. i \in 1 .. Len(q) /\ g[i] # h[i]
  BY <1>4
<1>6. i # 1
  BY <1>5 DEF Beginnings
<1>7. i - 1 \in 1 .. Len(q) /\ ~(i <= i - 1)
  BY <1>1, <1>5, <1>6
<1>8. g[i - 1] = h[i - 1]
  BY <1>4, <1>7
<1> QED
  BY <1>5, <1>6, <1>8 DEF Beginnings

(* ... and where a list first cannot be continued, it can.                 *)
LEMMA BeginningsExist ==
  ASSUME NEW S, NEW q \in Seq(Seq(S))
  PROVE  \E g \in [1 .. Len(q) -> Seq(S)] : Beginnings(g, q)
<1>1. Len(q) \in Nat
  BY LenProperties
<1> DEFINE Grows(g, n) == \A i \in 1 .. n : g[i] = IF i = 1 THEN q[i] ELSE g[i - 1] \o q[i]
           T == {n \in 0 .. Len(q) : ~ \E g \in [1 .. n -> Seq(S)] : Grows(g, n)}
<1>2. ASSUME T # {} PROVE FALSE
  <2>1. T \subseteq Nat
    BY <1>1
  <2>2. PICK n \in T : \A m \in T : n <= m
    BY <1>2, <2>1, LeastNumber
  <2>3. n \in 0 .. Len(q) /\ ~ \E g \in [1 .. n -> Seq(S)] : Grows(g, n)
    BY <2>2
  <2>4. n # 0
    <3>1. \E g \in [1 .. 0 -> Seq(S)] : TRUE
      <4>1. [i \in 1 .. 0 |-> <<>>] \in [1 .. 0 -> Seq(S)]
        BY SMT
      <4> QED
        BY <4>1
    <3>2. \A g \in [1 .. 0 -> Seq(S)] : Grows(g, 0)
      OBVIOUS
    <3> QED
      BY <2>3, <3>1, <3>2
  <2>5. n - 1 \in 0 .. Len(q) /\ n \in 1 .. Len(q) /\ ~(n <= n - 1)
    BY <1>1, <2>3, <2>4
  <2>6. PICK g \in [1 .. n - 1 -> Seq(S)] : Grows(g, n - 1)
    BY <2>2, <2>5
  <2>7. q[n] \in Seq(S)
    BY <2>5, ElementOfSeq
  <2> DEFINE e == IF n = 1 THEN q[n] ELSE g[n - 1] \o q[n]
             h == [i \in 1 .. n |-> IF i = n THEN e ELSE g[i]]
  <2>8. e \in Seq(S)
    <3>1. CASE n = 1
      BY <2>7, <3>1
    <3>2. CASE n # 1
      <4>1. n - 1 \in 1 .. n - 1
        BY <1>1, <2>5, <3>2
      <4>2. g[n - 1] \in Seq(S)
        BY <4>1
      <4> QED
        BY <2>7, <3>2, <4>2, ConcatProperties
    <3> QED
      BY <3>1, <3>2
  <2> HIDE DEF e
  <2>9. h \in [1 .. n -> Seq(S)]
    <3>1. \A i \in 1 .. n : i # n => i \in 1 .. n - 1
      BY <1>1, <2>5
    <3> QED
      BY <2>8, <3>1
  <2>10. \A i \in 1 .. n : h[i] = IF i = 1 THEN q[i] ELSE h[i - 1] \o q[i]
    <3> TAKE i \in 1 .. n
    <3>1. CASE i = n
      <4>1. n # 1 => h[n - 1] = g[n - 1]
        BY <1>1, <2>5
      <4>2. h[n] = e
        BY <1>1, <2>5
      <4> QED
        BY <3>1, <4>1, <4>2 DEF e
    <3>2. CASE i # n
      <4>1. i \in 1 .. n - 1 /\ h[i] = g[i]
        BY <1>1, <2>5, <3>2
      <4>2. i # 1 => h[i - 1] = g[i - 1]
        BY <1>1, <2>5, <3>2
      <4>3. g[i] = IF i = 1 THEN q[i] ELSE g[i - 1] \o q[i]
        BY <2>6, <4>1
      <4> QED
        BY <4>1, <4>2, <4>3
    <3> QED
      BY <3>1, <3>2
  <2> QED
    BY <2>3, <2>9, <2>10
<1>3. Len(q) \in 0 .. Len(q)
  BY <1>1
<1>4. PICK g \in [1 .. Len(q) -> Seq(S)] : Grows(g, Len(q))
  BY <1>2, <1>3
<1> QED
  BY <1>4 DEF Beginnings

(* The last of them is the whole.                                          *)
LEMMA FlattenIsLast ==
  ASSUME NEW S, NEW q \in Seq(S), q # <<>>, NEW g, Beginnings(g, q)
  PROVE  FlattenSeq(q) = g[Len(q)]
<1>1. Len(q) \in Nat /\ Len(q) # 0
  BY EmptySeq, LenProperties
<1> DEFINE n == Len(q)
           G(h) == h = [i \in 1 .. n |-> IF i = 1 THEN q[i] ELSE h[i - 1] \o q[i]]
           f == CHOOSE h : G(h)
<1>2. FlattenSeq(q) = f[n]
  BY <1>1 DEF FlattenSeq
<1>3. \E h : G(h)
  <2> DEFINE h == [i \in 1 .. n |-> g[i]]
  <2>1. \A i \in 1 .. n : h[i] = IF i = 1 THEN q[i] ELSE h[i - 1] \o q[i]
    <3> TAKE i \in 1 .. n
    <3>1. g[i] = IF i = 1 THEN q[i] ELSE g[i - 1] \o q[i]
      BY DEF Beginnings
    <3>2. i # 1 => h[i - 1] = g[i - 1]
      BY <1>1
    <3> QED
      BY <3>1, <3>2
  <2>2. h = [i \in 1 .. n |-> h[i]]
    OBVIOUS
  <2> HIDE DEF h
  <2>3. G(h)
    BY <2>1, <2>2
  <2> QED
    BY <2>3
<1>4. G(f)
  BY <1>3
<1>5. Beginnings(f, q)
  BY <1>4 DEF Beginnings
<1>6. f[n] = g[n]
  <2> HIDE DEF f
  <2> QED
    BY <1>1, <1>5, BeginningsAgree
<1> QED
  BY <1>2, <1>6

LEMMA FlattenEmpty == FlattenSeq(<<>>) = <<>>
<1>1. Len(<<>>) = 0
  BY EmptySeq
<1> QED
  BY <1>1 DEF FlattenSeq

LEMMA FlattenIsSeq ==
  ASSUME NEW S, NEW q \in Seq(Seq(S))
  PROVE  FlattenSeq(q) \in Seq(S)
<1>1. CASE q = <<>>
  BY <1>1, FlattenEmpty, EmptySeq
<1>2. CASE q # <<>>
  <2>1. PICK g \in [1 .. Len(q) -> Seq(S)] : Beginnings(g, q)
    BY BeginningsExist
  <2>2. Len(q) \in 1 .. Len(q)
    BY <1>2, EmptySeq
  <2>3. FlattenSeq(q) = g[Len(q)]
    BY <1>2, <2>1, FlattenIsLast
  <2> QED
    BY <2>2, <2>3
<1> QED
  BY <1>1, <1>2

(* A block written at the end, and the block at the head.                  *)
LEMMA FlattenAppend ==
  ASSUME NEW S, NEW q \in Seq(Seq(S)), NEW b \in Seq(S)
  PROVE  FlattenSeq(Append(q, b)) = FlattenSeq(q) \o b
<1> DEFINE n == Len(q)
           r == Append(q, b)
<1>1. /\ r \in Seq(Seq(S)) /\ r # <<>> /\ Len(r) = n + 1 /\ n \in Nat
      /\ \A i \in 1 .. n : r[i] = q[i]
      /\ r[n + 1] = b
  BY AppendProperties, LenProperties
<1>2. PICK g \in [1 .. n -> Seq(S)] : Beginnings(g, q)
  BY BeginningsExist
<1> HIDE DEF r
<1> DEFINE e == FlattenSeq(q) \o b
           h == [i \in 1 .. n + 1 |-> IF i = n + 1 THEN e ELSE g[i]]
<1>3. n # 0 => FlattenSeq(q) = g[n]
  BY <1>1, <1>2, EmptySeq, FlattenIsLast
<1>4. n = 0 => e = b
  <2>1. ASSUME n = 0 PROVE q = <<>>
    BY <2>1, EmptySeq
  <2> QED
    BY <2>1, FlattenEmpty, ConcatEmptySeq
<1>5. n # 0 => e = g[n] \o b
  BY <1>3
<1> HIDE DEF e
<1>6. Beginnings(h, r)
  <2>1. DOMAIN h = 1 .. Len(r)
    BY <1>1
  <2>2. ASSUME NEW i \in 1 .. Len(r)
        PROVE  h[i] = IF i = 1 THEN r[i] ELSE h[i - 1] \o r[i]
    <3>1. CASE i = n + 1
      <4>1. h[i] = e /\ r[i] = b
        BY <1>1, <3>1
      <4>2. n # 0 => h[i - 1] = g[n]
        BY <1>1, <3>1
      <4>3. CASE n = 0
        BY <1>4, <3>1, <4>1, <4>3
      <4>4. CASE n # 0
        <5>1. i # 1
          BY <1>1, <3>1, <4>4
        <5> QED
          BY <1>5, <4>1, <4>2, <4>4, <5>1
      <4> QED
        BY <4>3, <4>4
    <3>2. CASE i # n + 1
      <4>1. i \in 1 .. n /\ h[i] = g[i] /\ r[i] = q[i]
        BY <1>1, <3>2
      <4>2. i # 1 => h[i - 1] = g[i - 1]
        BY <1>1, <4>1
      <4>3. g[i] = IF i = 1 THEN q[i] ELSE g[i - 1] \o q[i]
        BY <1>2, <4>1 DEF Beginnings
      <4> QED
        BY <4>1, <4>2, <4>3
    <3> QED
      BY <3>1, <3>2
  <2> HIDE DEF h
  <2> QED
    BY <2>1, <2>2 DEF Beginnings
<1>7. h[n + 1] = e
  BY <1>1
<1> HIDE DEF h
<1>8. FlattenSeq(r) = h[n + 1]
  BY <1>1, <1>6, FlattenIsLast
<1> QED
  BY <1>7, <1>8 DEF e, r

LEMMA FlattenHead ==
  ASSUME NEW S, NEW q \in Seq(Seq(S)), q # <<>>
  PROVE  /\ Head(q) \in Seq(S) /\ Tail(q) \in Seq(Seq(S))
         /\ FlattenSeq(q) = Head(q) \o FlattenSeq(Tail(q))
<1> DEFINE r == Tail(q)
           n == Len(r)
           b == Head(q)
<1>0. \A s, t, u \in Seq(S) : (s \o t) \o u = s \o (t \o u)
  <2>1. ASSUME NEW s \in Seq(S), NEW t \in Seq(S), NEW u \in Seq(S)
        PROVE  (s \o t) \o u = s \o (t \o u)
    OBVIOUS
  <2> QED
    BY <2>1
<1>1. /\ r \in Seq(Seq(S)) /\ b \in Seq(S)
      /\ n \in Nat /\ Len(q) = n + 1
      /\ \A i \in 1 .. n : r[i] = q[i + 1]
      /\ q[1] = b
  <2>1. r \in Seq(Seq(S)) /\ b \in Seq(S) /\ n = Len(q) - 1
        /\ \A i \in 1 .. n : r[i] = q[i + 1]
    BY HeadTailProperties
  <2>2. n \in Nat /\ Len(q) \in Nat
    BY <2>1, LenProperties
  <2>3. q[1] = b
    OBVIOUS
  <2> QED
    BY <2>1, <2>2, <2>3
<1>2. PICK g \in [1 .. n -> Seq(S)] : Beginnings(g, r)
  BY <1>1, BeginningsExist
<1> HIDE DEF r, b
<1> DEFINE h == [i \in 1 .. n + 1 |-> IF i = 1 THEN b ELSE b \o g[i - 1]]
<1>3. Beginnings(h, q)
  <2>1. DOMAIN h = 1 .. Len(q)
    BY <1>1
  <2>2. ASSUME NEW i \in 1 .. Len(q)
        PROVE  h[i] = IF i = 1 THEN q[i] ELSE h[i - 1] \o q[i]
    <3>1. CASE i = 1
      BY <1>1, <3>1
    <3>2. CASE i # 1
      <4> DEFINE k == i - 1
      <4>0. /\ k \in 1 .. n /\ k + 1 = i /\ k \in Nat
            /\ i \in 1 .. n + 1 /\ k \in 1 .. n + 1
        BY <1>1, <3>2
      <4>1. /\ k \in 1 .. n /\ h[i] = b \o g[k] /\ q[i] = r[k]
            /\ i \in 1 .. n + 1 /\ k \in 1 .. n + 1
        BY <1>1, <3>2, <4>0
      <4> HIDE DEF k
      <4>2. g[k] = IF k = 1 THEN r[k] ELSE g[k - 1] \o r[k]
        BY <1>2, <4>1 DEF Beginnings
      <4>3. h[k] = IF k = 1 THEN b ELSE b \o g[k - 1]
        BY <4>1
      <4>4. h[i] = h[k] \o q[i]
        <5>1. CASE k = 1
          BY <4>1, <4>2, <4>3, <5>1
        <5>2. CASE k # 1
          <6>1. k - 1 \in 1 .. n
            BY <1>1, <4>1, <5>2
          <6>2. g[k - 1] \in Seq(S)
            BY <6>1
          <6>3. r[k] \in Seq(S)
            BY <1>1, <4>1, ElementOfSeq
          <6>4. b \in Seq(S)
            BY <1>1
          <6>5. (b \o g[k - 1]) \o r[k] = b \o (g[k - 1] \o r[k])
            BY <1>0, <6>2, <6>3, <6>4, Zenon
          <6> QED
            BY <4>1, <4>2, <4>3, <5>2, <6>5
        <5> QED
          BY <5>1, <5>2
      <4>5. h[i - 1] = h[k]
        BY DEF k
      <4> HIDE DEF h
      <4> QED
        BY <3>2, <4>4, <4>5
    <3> QED
      BY <3>1, <3>2
  <2> HIDE DEF h
  <2> QED
    BY <2>1, <2>2 DEF Beginnings
<1>4. h[n + 1] = IF n = 0 THEN b ELSE b \o g[n]
  BY <1>1
<1> HIDE DEF h
<1>5. FlattenSeq(q) = h[n + 1]
  BY <1>1, <1>3, FlattenIsLast
<1>6. CASE n = 0
  <2>1. r = <<>>
    BY <1>1, <1>6, EmptySeq
  <2>2. b \o FlattenSeq(r) = b
    BY <1>1, <2>1, FlattenEmpty, ConcatEmptySeq
  <2> QED
    BY <1>1, <1>4, <1>5, <1>6, <2>2 DEF r, b
<1>7. CASE n # 0
  <2>1. FlattenSeq(r) = g[n]
    BY <1>1, <1>2, <1>7, EmptySeq, FlattenIsLast
  <2> QED
    BY <1>1, <1>4, <1>5, <1>7, <2>1 DEF r, b
<1> QED
  BY <1>6, <1>7

-----------------------------------------------------------------------------
(* What flash holds, as one sequence.                                      *)

LEMMA StoredTyped ==
  ASSUME TypeOK
  PROVE  /\ flash \in Seq(Seq(Contact)) /\ Stored \in Seq(Contact)
         /\ Len(flash) \in Nat /\ Len(Stored) \in Nat
<1>1. flash \in Seq(Seq(Contact))
  BY DEF TypeOK
<1>2. Stored \in Seq(Contact)
  BY <1>1, FlattenIsSeq DEF Stored
<1> QED
  BY <1>1, <1>2, Indexed

(* Blocks of any legal length.                                             *)
Blocks == {b \in Seq(Contact) : Len(b) \in 1 .. BlockContacts}

LEMMA FlashOfBlocks ==
  ASSUME TypeOK
  PROVE  flash \in Seq(Blocks)
<1>1. /\ flash \in [1 .. Len(flash) -> Seq(Contact)] /\ Len(flash) \in Nat
      /\ DOMAIN flash = 1 .. Len(flash)
  BY LenProperties DEF TypeOK
<1>2. \A i \in 1 .. Len(flash) : flash[i] \in Blocks
  BY <1>1 DEF TypeOK, Blocks
<1>3. flash \in [1 .. Len(flash) -> Blocks]
  BY <1>1, <1>2
<1> QED
  BY <1>1, <1>3, SeqDef

LEMMA BlocksAre ==
  ASSUME NEW q \in Seq(Blocks)
  PROVE  /\ q \in Seq(Seq(Contact))
         /\ \A i \in DOMAIN q : Len(q[i]) \in 1 .. BlockContacts
<1>1. Blocks \subseteq Seq(Contact)
  BY DEF Blocks
<1>2. q \in Seq(Seq(Contact))
  BY <1>1, SeqMonotonic
<1>3. \A i \in DOMAIN q : q[i] \in Blocks
  BY Indexed
<1> QED
  BY <1>2, <1>3 DEF Blocks

(* The oldest block comes first; the others are the rest.                  *)
LEMMA OldestBlock ==
  ASSUME TypeOK, flash # <<>>
  PROVE  /\ Head(flash) \in Blocks /\ Tail(flash) \in Seq(Blocks)
         /\ Len(Tail(flash)) = Len(flash) - 1
         /\ FlattenSeq(Tail(flash)) \in Seq(Contact)
         /\ Len(Stored) = Len(Head(flash)) + Len(FlattenSeq(Tail(flash)))
         /\ Len(Head(flash)) \in 1 .. Len(Stored)
         /\ \A i \in 1 .. Len(Head(flash)) : Stored[i] = Head(flash)[i]
         /\ \A i \in 1 .. Len(Stored) - Len(Head(flash)) :
              FlattenSeq(Tail(flash))[i] = Stored[Len(Head(flash)) + i]
<1> DEFINE h == Head(flash)
           r == FlattenSeq(Tail(flash))
<1>1. /\ h \in Blocks /\ Tail(flash) \in Seq(Blocks)
      /\ Len(Tail(flash)) = Len(flash) - 1
  BY FlashOfBlocks, HeadTailProperties
<1>2. h \in Seq(Contact) /\ Len(h) \in Nat /\ Len(h) > 0
  BY <1>1, Sizes DEF Blocks
<1>3. Tail(flash) \in Seq(Seq(Contact))
  BY <1>1, BlocksAre
<1>4. r \in Seq(Contact) /\ Len(r) \in Nat
  BY <1>3, FlattenIsSeq, Indexed
<1>5. Stored = h \o r
  BY StoredTyped, FlattenHead DEF Stored
<1> HIDE DEF h, r
<1>6. /\ Len(h \o r) = Len(h) + Len(r)
      /\ \A i \in 1 .. Len(h) + Len(r) :
           (h \o r)[i] = IF i <= Len(h) THEN h[i] ELSE r[i - Len(h)]
  BY <1>2, <1>4, ConcatProperties
<1>7. \A i \in 1 .. Len(h) : Stored[i] = h[i]
  BY <1>2, <1>4, <1>5, <1>6
<1>8. ASSUME NEW i \in 1 .. Len(Stored) - Len(h)
      PROVE  r[i] = Stored[Len(h) + i]
  <2>1. /\ Len(h) + i \in 1 .. Len(h) + Len(r) /\ ~(Len(h) + i <= Len(h))
        /\ Len(h) + i - Len(h) = i
    BY <1>2, <1>4, <1>5, <1>6
  <2> QED
    BY <1>5, <1>6, <2>1
<1>9. Len(h) \in 1 .. Len(Stored) /\ Len(Stored) = Len(h) + Len(r)
  BY <1>2, <1>4, <1>5, <1>6
<1> QED
  BY <1>1, <1>4, <1>7, <1>8, <1>9 DEF h, r

(* What a drop leaves.                                                     *)
LEMMA DropLeaves ==
  ASSUME TypeOK, flash # <<>>, NEW n \in 1 .. Len(Head(flash))
  PROVE  /\ WithoutOldest(n) \in Seq(Blocks)
         /\ Len(WithoutOldest(n)) <= Len(flash)
         /\ FlattenSeq(WithoutOldest(n)) \in Seq(Contact)
         /\ Len(FlattenSeq(WithoutOldest(n))) = Len(Stored) - n
         /\ \A i \in 1 .. Len(Stored) - n :
              FlattenSeq(WithoutOldest(n))[i] = Stored[n + i]
<1> DEFINE h == Head(flash)
           q == Tail(flash)
           r == FlattenSeq(q)
           b == SubSeq(h, n + 1, Len(h))
           w == <<b>> \o q
<1>1. /\ h \in Blocks /\ q \in Seq(Blocks)
      /\ Len(q) = Len(flash) - 1
      /\ r \in Seq(Contact) /\ Len(Stored) = Len(h) + Len(r)
      /\ Len(h) \in 1 .. Len(Stored)
      /\ \A i \in 1 .. Len(h) : Stored[i] = h[i]
      /\ \A i \in 1 .. Len(Stored) - Len(h) : r[i] = Stored[Len(h) + i]
  BY OldestBlock
<1>2. /\ Len(Stored) \in Nat /\ Len(flash) \in Nat /\ Len(r) \in Nat
      /\ h \in Seq(Contact) /\ Len(h) \in Nat /\ Len(h) <= BlockContacts
      /\ n \in Nat /\ n >= 1 /\ n <= Len(h)
  BY <1>1, StoredTyped, Sizes, Indexed DEF Blocks
<1>3. CASE n = Len(h)
  <2>1. WithoutOldest(n) = q
    BY <1>3 DEF WithoutOldest
  <2> HIDE DEF h, q
  <2> QED
    BY <1>1, <1>2, <1>3, <2>1
<1>4. CASE n # Len(h)
  <2>1. /\ b \in Seq(Contact) /\ Len(b) = Len(h) - n
        /\ \A i \in 1 .. Len(h) - n : b[i] = h[n + i]
    BY <1>2, Remainder
  <2>2. b \in Blocks
    <3>1. Len(b) \in 1 .. BlockContacts
      <4> HIDE DEF b, h
      <4> QED
        BY <1>2, <1>4, <2>1, Sizes
    <3> QED
      BY <2>1, <3>1 DEF Blocks
  <2>3. WithoutOldest(n) = w
    BY <1>4 DEF WithoutOldest
  <2> HIDE DEF h, q, b
  <2>4. <<b>> \in Seq(Blocks) /\ Len(<<b>>) = 1 /\ <<b>>[1] = b
    BY <2>2
  <2>5. /\ w \in Seq(Blocks) /\ Len(w) = 1 + Len(q)
        /\ \A i \in 1 .. 1 + Len(q) : w[i] = IF i <= 1 THEN <<b>>[i] ELSE q[i - 1]
    BY <1>1, <2>4, ConcatProperties
  <2>6. Len(q) \in Nat
    BY <1>1, Indexed
  <2> HIDE DEF w
  <2>7. w # <<>> /\ w[1] = b /\ w \in Seq(Seq(Contact))
    BY <2>4, <2>5, <2>6, BlocksAre, EmptySeq
  <2>8. Tail(w) = q
    <3>1. /\ Tail(w) \in Seq(Blocks) /\ Len(Tail(w)) = Len(w) - 1
          /\ \A i \in 1 .. Len(Tail(w)) : Tail(w)[i] = w[i + 1]
      BY <2>5, <2>7, HeadTailProperties
    <3>2. ASSUME NEW i \in 1 .. Len(Tail(w)) PROVE Tail(w)[i] = q[i]
      <4>1. i + 1 \in 1 .. 1 + Len(q) /\ ~(i + 1 <= 1) /\ i + 1 - 1 = i
        BY <2>5, <2>6, <3>1
      <4> QED
        BY <2>5, <3>1, <4>1
    <3>3. Len(Tail(w)) = Len(q)
      BY <2>5, <2>6, <3>1
    <3> QED
      BY <1>1, <3>1, <3>2, <3>3, SeqEqual
  <2>9. Head(w) = b
    BY <2>7
  <2> DEFINE x == b \o r
  <2>10. FlattenSeq(w) = x
    BY <2>7, <2>8, <2>9, FlattenHead
  <2> HIDE DEF r
  <2>11. /\ x \in Seq(Contact) /\ Len(x) = Len(b) + Len(r)
         /\ \A i \in 1 .. Len(b) + Len(r) :
              x[i] = IF i <= Len(b) THEN b[i] ELSE r[i - Len(b)]
    BY <1>1, <2>1, ConcatProperties
  <2> HIDE DEF x
  <2>12. Len(x) = Len(Stored) - n
    BY <1>1, <1>2, <2>1, <2>11
  <2>13. ASSUME NEW i \in 1 .. Len(Stored) - n
         PROVE  x[i] = Stored[n + i]
    <3>1. CASE i <= Len(b)
      <4>1. i \in 1 .. Len(h) - n /\ n + i \in 1 .. Len(h) /\ i \in 1 .. Len(b) + Len(r)
        BY <1>1, <1>2, <2>1, <3>1
      <4> QED
        BY <1>1, <2>1, <2>11, <3>1, <4>1
    <3>2. CASE i > Len(b)
      <4>1. /\ i \in 1 .. Len(b) + Len(r) /\ ~(i <= Len(b))
            /\ i - Len(b) \in 1 .. Len(Stored) - Len(h)
            /\ Len(h) + (i - Len(b)) = n + i
        BY <1>1, <1>2, <2>1, <3>2
      <4> QED
        BY <1>1, <2>11, <4>1
    <3>3. i \in Nat /\ Len(b) \in Nat
      BY <1>2, <2>1
    <3> QED
      BY <3>1, <3>2, <3>3
  <2>14. Len(w) <= Len(flash)
    BY <1>1, <1>2, <2>5
  <2> QED
    BY <2>3, <2>5, <2>10, <2>11, <2>12, <2>13, <2>14
<1> QED
  BY <1>3, <1>4

(* What an append makes of it: in a full store the oldest block goes       *)
(* first.                                                                  *)
Kept == IF FlashFull THEN Tail(flash) ELSE flash
Gone == IF FlashFull THEN Len(Head(flash)) ELSE 0

LEMMA FullIsNotEmpty ==
  ASSUME FlashFull
  PROVE  flash # <<>>
<1>1. Len(flash) # 0
  BY Sizes DEF FlashFull
<1> QED
  BY <1>1, EmptySeq

LEMMA KeptOnes ==
  ASSUME TypeOK
  PROVE  /\ Kept \in Seq(Blocks) /\ Len(Kept) < FlashBlocks
         /\ FlattenSeq(Kept) \in Seq(Contact)
         /\ Gone \in 0 .. Len(Stored)
         /\ Len(FlattenSeq(Kept)) = Len(Stored) - Gone
         /\ \A i \in 1 .. Len(Stored) - Gone :
              FlattenSeq(Kept)[i] = Stored[Gone + i]
<1>0. Len(flash) <= FlashBlocks /\ Len(flash) \in Nat /\ Len(Stored) \in Nat
  BY StoredTyped DEF TypeOK
<1>1. CASE FlashFull
  <2>1. flash # <<>>
    BY <1>1, FullIsNotEmpty
  <2>2. Kept = Tail(flash) /\ Gone = Len(Head(flash))
    BY <1>1 DEF Kept, Gone
  <2>3. /\ Tail(flash) \in Seq(Blocks) /\ Len(Tail(flash)) = Len(flash) - 1
        /\ FlattenSeq(Tail(flash)) \in Seq(Contact)
        /\ Len(Stored) = Len(Head(flash)) + Len(FlattenSeq(Tail(flash)))
        /\ Len(Head(flash)) \in 1 .. Len(Stored)
        /\ \A i \in 1 .. Len(Stored) - Len(Head(flash)) :
             FlattenSeq(Tail(flash))[i] = Stored[Len(Head(flash)) + i]
    BY <2>1, OldestBlock
  <2>4. Len(FlattenSeq(Tail(flash))) \in Nat /\ Len(Head(flash)) \in Nat
    BY <2>3, Indexed
  <2>5. Len(Kept) < FlashBlocks
    BY <1>0, <1>1, <2>2, <2>3, Sizes DEF FlashFull
  <2> QED
    BY <1>0, <2>2, <2>3, <2>4, <2>5
<1>2. CASE ~FlashFull
  <2>1. Kept = flash /\ Gone = 0 /\ FlattenSeq(Kept) = Stored
    BY <1>2 DEF Kept, Gone, Stored
  <2>2. Len(flash) < FlashBlocks
    BY <1>0, <1>2, Sizes DEF FlashFull
  <2> QED
    BY <1>0, <2>1, <2>2, FlashOfBlocks, StoredTyped
<1> QED
  BY <1>1, <1>2

LEMMA AppendLeaves ==
  ASSUME TypeOK, NEW b \in Blocks
  PROVE  /\ Append(Kept, b) \in Seq(Blocks)
         /\ Len(Append(Kept, b)) <= FlashBlocks
         /\ FlattenSeq(Append(Kept, b)) \in Seq(Contact)
         /\ Len(FlattenSeq(Append(Kept, b))) = Len(Stored) - Gone + Len(b)
         /\ \A i \in 1 .. Len(Stored) - Gone :
              FlattenSeq(Append(Kept, b))[i] = Stored[Gone + i]
         /\ \A i \in 1 .. Len(b) :
              FlattenSeq(Append(Kept, b))[Len(Stored) - Gone + i] = b[i]
<1> DEFINE r == FlattenSeq(Kept)
<1>1. /\ Kept \in Seq(Blocks) /\ Len(Kept) < FlashBlocks
      /\ r \in Seq(Contact) /\ Gone \in 0 .. Len(Stored)
      /\ Len(r) = Len(Stored) - Gone
      /\ \A i \in 1 .. Len(Stored) - Gone : r[i] = Stored[Gone + i]
  BY KeptOnes
<1>2. /\ b \in Seq(Contact) /\ Len(b) \in Nat /\ Len(r) \in Nat
      /\ Len(Kept) \in Nat /\ Len(Stored) \in Nat
  BY <1>1, Indexed, StoredTyped DEF Blocks
<1>3. /\ Append(Kept, b) \in Seq(Blocks)
      /\ Len(Append(Kept, b)) = Len(Kept) + 1
  BY <1>1, AppendProperties
<1>4. Len(Append(Kept, b)) <= FlashBlocks
  BY <1>1, <1>2, <1>3, Sizes
<1>5. Kept \in Seq(Seq(Contact))
  BY <1>1, BlocksAre
<1>6. FlattenSeq(Append(Kept, b)) = r \o b
  BY <1>2, <1>5, FlattenAppend
<1> HIDE DEF r
<1>7. /\ r \o b \in Seq(Contact) /\ Len(r \o b) = Len(r) + Len(b)
      /\ \A i \in 1 .. Len(r) + Len(b) :
           (r \o b)[i] = IF i <= Len(r) THEN r[i] ELSE b[i - Len(r)]
  BY <1>1, <1>2, ConcatProperties
<1>8. \A i \in 1 .. Len(r) : (r \o b)[i] = r[i]
  BY <1>2, <1>7
<1>9. ASSUME NEW i \in 1 .. Len(b)
      PROVE  (r \o b)[Len(r) + i] = b[i]
  <2>1. /\ Len(r) + i \in 1 .. Len(r) + Len(b) /\ ~(Len(r) + i <= Len(r))
        /\ Len(r) + i - Len(r) = i
    BY <1>2
  <2> QED
    BY <1>7, <2>1
<1> QED
  BY <1>1, <1>3, <1>4, <1>6, <1>7, <1>8, <1>9

-----------------------------------------------------------------------------
(* Threads go where they are sent, one at a time.                          *)

Label == {"idle", "check", "submit", "update", "append", "append_done", "count",
          "peek", "mark", "ram", "hold", "drop", "drop_done", "set", "adv"}

LEMMA GoneTo ==
  ASSUME TypeOK, NEW t \in Thread, NEW label \in Label, Goto(t, label)
  PROVE  /\ pc' \in [Thread -> Label]
         /\ pc'[t] = label
         /\ \A u \in Thread : u # t => pc'[u] = pc[u]
BY DEF TypeOK, Goto, Label

LEMMA Returned ==
  ASSUME TypeOK, NEW t \in Thread, NEW value \in {"ok", "io", "nospc"},
         Returns(t, value)
  PROVE  /\ result' \in [Thread -> {"ok", "io", "nospc"}]
         /\ result'[t] = value
         /\ \A u \in Thread : u # t => result'[u] = result[u]
BY DEF TypeOK, Returns

LEMMA ScannerGoes ==
  ASSUME TypeOK, NEW label \in Label, Goto(Scanner, label)
  PROVE  /\ pc' \in [Thread -> Label] /\ pc'[Scanner] = label
         /\ pc'[Flusher] = pc[Flusher] /\ pc'[Transfer] = pc[Transfer]
         /\ pc'[System] = pc[System]
BY GoneTo, Threads

LEMMA FlusherGoes ==
  ASSUME TypeOK, NEW label \in Label, Goto(Flusher, label)
  PROVE  /\ pc' \in [Thread -> Label] /\ pc'[Flusher] = label
         /\ pc'[Scanner] = pc[Scanner] /\ pc'[Transfer] = pc[Transfer]
         /\ pc'[System] = pc[System]
BY GoneTo, Threads

LEMMA TransferGoes ==
  ASSUME TypeOK, NEW label \in Label, Goto(Transfer, label)
  PROVE  /\ pc' \in [Thread -> Label] /\ pc'[Transfer] = label
         /\ pc'[Scanner] = pc[Scanner] /\ pc'[Flusher] = pc[Flusher]
         /\ pc'[System] = pc[System]
BY GoneTo, Threads

LEMMA SystemGoes ==
  ASSUME TypeOK, NEW label \in Label, Goto(System, label)
  PROVE  /\ pc' \in [Thread -> Label] /\ pc'[System] = label
         /\ pc'[Scanner] = pc[Scanner] /\ pc'[Flusher] = pc[Flusher]
         /\ pc'[Transfer] = pc[Transfer]
BY GoneTo, Threads

(* Where the steps that ask for a flush or for a level update lead.        *)
Askers == {Scanner, Flusher, Transfer}

LEMMA CheckGoes ==
  ASSUME TypeOK, NEW t \in Askers, Check(t)
  PROVE  /\ pc' \in [Thread -> Label] /\ pc[t] = "check"
         /\ pc'[t] \in {"idle", "submit", "update"}
         /\ pc'[t] = "update" => t = Scanner
         /\ pc'[Scanner] = "idle" => t # Scanner
         /\ \A u \in Thread : u # t => pc'[u] = pc[u]
<1>1. t \in Thread
  BY DEF Askers, Thread
<1>2. PICK label \in {"idle", "submit", "update"} :
        /\ Goto(t, label) /\ (label = "update" => t = Scanner)
        /\ (label = "idle" => t # Scanner)
  BY DEF Check, Checked
<1>3. label \in Label
  BY DEF Label
<1>4. /\ pc' \in [Thread -> Label] /\ pc'[t] = label
      /\ \A u \in Thread : u # t => pc'[u] = pc[u]
  BY <1>1, <1>2, <1>3, GoneTo
<1>5. t # Scanner => pc'[Scanner] = pc[Scanner]
  BY <1>4, Threads
<1> QED
  BY <1>2, <1>4, <1>5 DEF Check

LEMMA SubmitGoes ==
  ASSUME TypeOK, NEW t \in Askers, Submit(t)
  PROVE  /\ pc' \in [Thread -> Label] /\ pc[t] = "submit"
         /\ pc'[t] \in {"idle", "update"} /\ flush_work'
         /\ pc'[t] = "update" <=> t = Scanner
         /\ \A u \in Thread : u # t => pc'[u] = pc[u]
<1>1. t \in Thread
  BY DEF Askers, Thread
<1>2. Checked(t) \in {"idle", "update"} /\ Checked(t) \in Label
      /\ (Checked(t) = "update" <=> t = Scanner)
  BY DEF Checked, Label
<1>3. /\ pc' \in [Thread -> Label] /\ pc'[t] = Checked(t)
      /\ \A u \in Thread : u # t => pc'[u] = pc[u]
  BY <1>1, <1>2, GoneTo DEF Submit
<1> QED
  BY <1>2, <1>3 DEF Submit

LEMMA UpdateTagGoes ==
  ASSUME TypeOK, NEW t \in Askers, UpdateTag(t)
  PROVE  /\ pc' \in [Thread -> Label] /\ pc[t] = "update" /\ t # Scanner
         /\ pc'[t] = "check" /\ update_work' = "queued"
         /\ \A u \in Thread : u # t => pc'[u] = pc[u]
<1>1. t \in Thread /\ "check" \in Label
  BY DEF Askers, Thread, Label
<1> QED
  BY <1>1, GoneTo DEF UpdateTag

-----------------------------------------------------------------------------
(* Every step, by name.                                                    *)

Steps ==
  \/ \E t \in Askers : Check(t) \/ Submit(t) \/ UpdateTag(t)
  \/ ScheduleTagUpdateOnce
  \/ EvaluateContact
  \/ FlushStart \/ FlushAppend \/ FlushEnd
  \/ ExportBegin \/ ExportCount \/ ExportPeek \/ ExportFails \/ ExportMark
  \/ ExportRam \/ ExportAbort
  \/ CommitRam \/ CommitFlash \/ Drop \/ CommitEnd
  \/ UpdateDelayEnds \/ UpdateStart \/ UpdateCount \/ UpdateLevel \/ UpdateAdvertised

LEMMA StepsAre ==
  ASSUME Next
  PROVE  Steps \/ UNCHANGED vars
<1>1. Scanner \in Askers /\ Flusher \in Askers /\ Transfer \in Askers
  BY DEF Askers
<1> QED
  BY <1>1 DEF Next, ScannerStep, FlusherStep, TransferStep, SystemStep, Exhausted,
              Steps

-----------------------------------------------------------------------------
(* Types.                                                                  *)

LEMMA Typed ==
  ASSUME TypeOK
  PROVE  /\ ram \in Seq(Contact) /\ Len(ram) \in Nat
         /\ contact_flush_block \in Seq(Contact) /\ Size \in Nat
         /\ sent \in Seq(Contact) /\ Len(sent) \in Nat
         /\ Stored \in Seq(Contact) /\ Len(Stored) \in Nat
         /\ last \in Nat /\ delivered \in Nat
         /\ contact_export_count \in Nat /\ idx_read \in Nat
<1>1. /\ ram \in Seq(Contact) /\ contact_flush_block \in Seq(Contact)
      /\ sent \in Seq(Contact)
      /\ last \in Nat /\ delivered \in Nat
      /\ contact_export_count \in Nat /\ idx_read \in Nat
  BY Sizes DEF TypeOK
<1> QED
  BY <1>1, StoredTyped, Indexed DEF Size

LEMMA LevelTyped ==
  ASSUME NEW n
  PROVE  contact_status_from_count(n) \in 0 .. Len(DataLevels)
<1> DEFINE T == {i \in DOMAIN DataLevels : n > DataLevels[i]}
<1>1. DataLevels \in Seq(Nat)
  BY LevelAssumption
<1>2. DOMAIN DataLevels = 1 .. Len(DataLevels) /\ Len(DataLevels) \in Nat
  BY <1>1, LenProperties
<1>3. /\ IsFiniteSet(1 .. Len(DataLevels))
      /\ Cardinality(1 .. Len(DataLevels)) = Len(DataLevels)
  <2>1. /\ IsFiniteSet(1 .. Len(DataLevels))
        /\ Cardinality(1 .. Len(DataLevels)) =
             IF 1 > Len(DataLevels) THEN 0 ELSE Len(DataLevels) - 1 + 1
    BY <1>2, FS_Interval
  <2>2. (IF 1 > Len(DataLevels) THEN 0 ELSE Len(DataLevels) - 1 + 1) = Len(DataLevels)
    BY <1>2
  <2> QED
    BY <2>1, <2>2
<1>4. T \subseteq 1 .. Len(DataLevels)
  BY <1>2
<1>5. /\ Cardinality(T) <= Cardinality(1 .. Len(DataLevels))
      /\ IsFiniteSet(T)
  BY <1>3, <1>4, FS_Subset
<1>6. Cardinality(T) \in Nat
  BY <1>5, FS_CardinalityType
<1> HIDE DEF T
<1>7. Cardinality(T) \in 0 .. Len(DataLevels)
  BY <1>2, <1>3, <1>5, <1>6
<1> QED
  BY <1>7 DEF T, contact_status_from_count

(* The n oldest contacts leave the ring.                                   *)
LEMMA Advanced ==
  ASSUME TypeOK, NEW n \in 0 .. Len(ram), Advance(n)
  PROVE  /\ ram' \in Seq(Contact) /\ Len(ram') = Len(ram) - n
         /\ Len(ram') <= RingCount /\ idx_read' \in 0 .. RingCount - 1
         /\ \A i \in 1 .. Len(ram) - n : ram'[i] = ram[n + i]
<1>1. /\ ram' \in Seq(Contact) /\ Len(ram') = Len(ram) - n
      /\ \A i \in 1 .. Len(ram) - n : ram'[i] = ram[n + i]
  BY Typed, Remainder DEF Advance
<1>2. Len(ram') <= RingCount
  BY <1>1, Typed, Sizes DEF TypeOK
<1>3. n \in Nat /\ idx_read + n \in Nat
  BY Typed
<1>4. idx_read' \in 0 .. RingCount - 1
  BY <1>3, Sizes DEF Advance
<1> QED
  BY <1>1, <1>2, <1>4

(* A contact is stored at the end; a full ring gives up its oldest.        *)
LEMMA Evaluated ==
  ASSUME TypeOK, EvaluateContact
  PROVE  /\ last' = last + 1 /\ last < MaxContacts
         /\ ram' \in Seq(Contact) /\ Len(ram') \in 1 .. RingCount
         /\ idx_read' \in 0 .. RingCount - 1
         /\ ram'[Len(ram')] = last + 1
         /\ \/ /\ Len(ram) < RingCount /\ idx_read' = idx_read
               /\ Len(ram') = Len(ram) + 1
               /\ \A i \in 1 .. Len(ram) : ram'[i] = ram[i]
            \/ /\ Len(ram) = RingCount
               /\ contact_export_source = "NONE" /\ ~contact_flush_active
               /\ Len(ram') = Len(ram)
               /\ \A i \in 1 .. Len(ram) - 1 : ram'[i] = ram[i + 1]
<1>1. last' = last + 1 /\ last < MaxContacts /\ last \in Nat
  BY Typed DEF EvaluateContact
<1>2. last + 1 \in Contact
  BY <1>1, Sizes DEF Contact
<1>3. Len(ram) \in Nat /\ Len(ram) <= RingCount /\ ram \in Seq(Contact)
      /\ idx_read \in 0 .. RingCount - 1
  BY Typed DEF TypeOK
<1>4. CASE Len(ram) = RingCount
  <2>1. ram # <<>>
    BY <1>3, <1>4, Sizes, EmptySeq
  <2>2. ram' = Append(Tail(ram), last + 1) /\ idx_read' = (idx_read + 1) % RingCount
    BY <1>4 DEF EvaluateContact
  <2>3. /\ Tail(ram) \in Seq(Contact) /\ Len(Tail(ram)) = Len(ram) - 1
        /\ \A i \in 1 .. Len(Tail(ram)) : Tail(ram)[i] = ram[i + 1]
    BY <1>3, <2>1, HeadTailProperties
  <2> DEFINE q == Tail(ram)
  <2> HIDE DEF q
  <2>4. /\ ram' \in Seq(Contact) /\ Len(ram') = Len(q) + 1
        /\ \A i \in 1 .. Len(q) : ram'[i] = q[i]
        /\ ram'[Len(q) + 1] = last + 1
    BY <1>2, <2>2, <2>3, AppendProperties DEF q
  <2>5. Len(ram') = Len(ram) /\ ram'[Len(ram')] = last + 1
    BY <1>3, <2>3, <2>4 DEF q
  <2>6. \A i \in 1 .. Len(ram) - 1 : ram'[i] = ram[i + 1]
    BY <1>3, <2>3, <2>4 DEF q
  <2>7. idx_read' \in 0 .. RingCount - 1
    BY <1>3, <2>2, Sizes
  <2>8. contact_export_source = "NONE" /\ ~contact_flush_active
    BY <1>4 DEF EvaluateContact, Pinned
  <2> QED
    BY <1>1, <1>3, <1>4, <2>4, <2>5, <2>6, <2>7, <2>8, Sizes
<1>5. CASE Len(ram) # RingCount
  <2>1. ram' = Append(ram, last + 1) /\ idx_read' = idx_read
    BY <1>5 DEF EvaluateContact
  <2>2. /\ ram' \in Seq(Contact) /\ Len(ram') = Len(ram) + 1
        /\ \A i \in 1 .. Len(ram) : ram'[i] = ram[i]
        /\ ram'[Len(ram) + 1] = last + 1
    BY <1>2, <1>3, <2>1, AppendProperties
  <2> QED
    BY <1>1, <1>3, <1>5, <2>1, <2>2, Sizes
<1> QED
  BY <1>4, <1>5

(* Each variable's type, action by action.  The sequences' part of TypeOK  *)
(* comes from what ring and flash make of a step.                          *)
RingTyped ==
  /\ ram \in Seq(Contact) /\ Len(ram) <= RingCount
  /\ idx_read \in 0 .. RingCount - 1

FlashTyped ==
  /\ flash \in Seq(Seq(Contact)) /\ Len(flash) <= FlashBlocks
  /\ \A i \in DOMAIN flash : Len(flash[i]) \in 1 .. BlockContacts

ExportTyped ==
  /\ contact_export_source \in {"NONE", "NVM", "RAM"}
  /\ contact_export_count \in 0 .. BufferContacts
  /\ sent \in Seq(Contact)

FlushTyped ==
  /\ contact_flush_active \in BOOLEAN
  /\ contact_flush_read_index \in 0 .. RingCount - 1
  /\ contact_flush_block \in Seq(Contact)

FlagsTyped ==
  /\ contact_nvm_full \in BOOLEAN /\ flush_work \in BOOLEAN
  /\ flush_missed \in BOOLEAN /\ level_missed \in BOOLEAN

StatusTyped ==
  /\ update_work \in {"idle", "delayed", "queued"}
  /\ number_dataset \in Nat
  /\ level \in 0 .. Len(DataLevels)
  /\ uncounted \in Nat

BoundsTyped ==
  /\ faults \in Nat /\ exports \in Nat
  /\ last \in 0 .. MaxContacts /\ delivered \in 0 .. MaxContacts

ThreadsTyped ==
  /\ pc \in [Thread -> Label]
  /\ result \in [Thread -> {"ok", "io", "nospc"}]

LEMMA TypeParts ==
  TypeOK <=> /\ RingTyped /\ FlashTyped /\ ExportTyped /\ FlushTyped
             /\ FlagsTyped /\ StatusTyped /\ BoundsTyped /\ ThreadsTyped
BY DEF TypeOK, RingTyped, FlashTyped, ExportTyped, FlushTyped, FlagsTyped,
       StatusTyped, BoundsTyped, ThreadsTyped, Label

LEMMA RingTypeKept ==
  ASSUME TypeOK, Phases, FlushHolds, ExportHolds, Steps
  PROVE  RingTyped'
<1> USE DEF RingTyped
<1>1. CASE EvaluateContact
  BY <1>1, Evaluated
<1>2. CASE FlushEnd
  <2>1. CASE BlockStored
    <3>1. Advance(Size) /\ Size \in 0 .. Len(ram)
      BY <1>2, <2>1, Typed DEF FlushEnd, BlockStored, Size
    <3> QED
      BY <3>1, Advanced
  <2>2. CASE ~BlockStored
    BY <1>2, <2>2 DEF FlushEnd, TypeOK
  <2> QED
    BY <2>1, <2>2
<1>3. CASE CommitRam
  <2>1. CASE contact_export_count <= Len(ram)
    <3>1. Advance(contact_export_count) /\ contact_export_count \in 0 .. Len(ram)
      BY <1>3, <2>1, Typed DEF CommitRam
    <3> QED
      BY <3>1, Advanced
  <2>2. CASE ~(contact_export_count <= Len(ram))
    BY <1>3, <2>2 DEF CommitRam, TypeOK
  <2> QED
    BY <2>1, <2>2
<1>4. CASE ram' = ram /\ idx_read' = idx_read
  BY <1>4 DEF TypeOK
<1>5. CASE ~EvaluateContact /\ ~FlushEnd /\ ~CommitRam
  BY <1>4, <1>5 DEF Steps, Check, Submit, UpdateTag, ScheduleTagUpdateOnce,
     FlushStart, FlushAppend, ExportBegin, ExportCount, ExportPeek, ExportFails,
     ExportMark, ExportRam, ExportAbort, CommitFlash, Drop, CommitEnd,
     UpdateDelayEnds, UpdateStart, UpdateCount, UpdateLevel, UpdateAdvertised
<1> QED
  BY <1>1, <1>2, <1>3, <1>5

(* The block of a flush under way may be written.                          *)
LEMMA BlockToWrite ==
  ASSUME TypeOK, Phases, FlushHolds, pc[Flusher] \in FlushPc
  PROVE  /\ contact_flush_block \in Blocks
         /\ contact_flush_read_index = idx_read
         /\ Size \in 1 .. Len(ram)
         /\ \A i \in 1 .. Size : contact_flush_block[i] = ram[i]
<1>1. /\ contact_flush_read_index = idx_read
      /\ Size \in 1 .. Len(ram) /\ Size <= BlockContacts
      /\ \A i \in 1 .. Size : contact_flush_block[i] = ram[i]
  BY DEF Phases, FlushHolds
<1>2. Size \in 1 .. BlockContacts
  BY <1>1, Typed, Sizes
<1> QED
  BY <1>1, <1>2, Typed DEF Blocks, Size

LEMMA FlashTypeKept ==
  ASSUME TypeOK, Phases, FlushHolds, ExportHolds, Steps
  PROVE  FlashTyped'
<1>1. ASSUME flash' \in Seq(Blocks), Len(flash') <= FlashBlocks
      PROVE  FlashTyped'
  BY <1>1, BlocksAre DEF FlashTyped
<1>2. CASE FlushAppend
  <2>1. contact_flush_block \in Blocks
    BY <1>2, BlockToWrite DEF FlushAppend, FlushPc
  <2>2. flash' = Append(Kept, contact_flush_block) \/ flash' = flash
        \/ (FlashFull /\ flash' = Kept)
    BY <1>2 DEF FlushAppend, Kept
  <2>3. /\ Append(Kept, contact_flush_block) \in Seq(Blocks)
        /\ Len(Append(Kept, contact_flush_block)) <= FlashBlocks
    BY <2>1, AppendLeaves
  <2>4. Kept \in Seq(Blocks) /\ Len(Kept) <= FlashBlocks
    <3>1. Kept \in Seq(Blocks) /\ Len(Kept) < FlashBlocks
      BY KeptOnes
    <3> QED
      BY <3>1, Indexed, Sizes
  <2>5. flash \in Seq(Blocks) /\ Len(flash) <= FlashBlocks
    BY FlashOfBlocks DEF TypeOK
  <2> QED
    BY <1>1, <2>2, <2>3, <2>4, <2>5
<1>3. CASE Drop
  <2>1. /\ flash # <<>> /\ contact_export_count \in 1 .. Len(Head(flash))
    BY <1>3 DEF Drop, Phases, ExportHolds, ExportsFlash, FlashSent
  <2>2. flash' = WithoutOldest(contact_export_count) \/ flash' = flash
    BY <1>3 DEF Drop
  <2>3. /\ WithoutOldest(contact_export_count) \in Seq(Blocks)
        /\ Len(WithoutOldest(contact_export_count)) <= Len(flash)
    BY <2>1, DropLeaves
  <2>4. /\ Len(WithoutOldest(contact_export_count)) \in Nat
        /\ Len(flash) \in Nat /\ Len(flash) <= FlashBlocks /\ FlashBlocks \in Nat
    BY <2>3, Indexed, StoredTyped, Sizes DEF TypeOK
  <2> QED
    BY <1>1, <2>2, <2>3, <2>4, FlashOfBlocks
<1>4. CASE flash' = flash
  BY <1>4 DEF TypeOK, FlashTyped
<1>5. CASE ~FlushAppend /\ ~Drop
  BY <1>4, <1>5 DEF Steps, Check, Submit, UpdateTag, ScheduleTagUpdateOnce,
     EvaluateContact, FlushStart, FlushEnd, ExportBegin, ExportCount, ExportPeek,
     ExportFails, ExportMark, ExportRam, ExportAbort, CommitRam, CommitFlash,
     CommitEnd, UpdateDelayEnds, UpdateStart, UpdateCount, UpdateLevel, UpdateAdvertised
<1> QED
  BY <1>2, <1>3, <1>5

(* What an export copies.                                                  *)
LEMMA Peeked ==
  ASSUME TypeOK, ExportHolds, ExportPeek
  PROVE  /\ flash # <<>> /\ sent' \in Seq(Contact)
         /\ Len(sent') \in 1 .. Len(Head(flash)) /\ Len(sent') <= BufferContacts
         /\ \A i \in 1 .. Len(sent') : sent'[i] = Head(flash)[i]
<1> DEFINE h == Head(flash)
           n == Lowest(BufferContacts, Len(h))
<1>1. flash # <<>> /\ sent' = SubSeq(h, 1, n)
  BY DEF ExportPeek, ExportHolds
<1>2. h \in Seq(Contact) /\ Len(h) \in Nat /\ Len(h) > 0
  BY <1>1, OldestBlock, Sizes DEF Blocks
<1> HIDE DEF h
<1>3. n \in 1 .. Len(h) /\ n <= BufferContacts /\ n \in 0 .. Len(h)
  <2>1. BufferContacts \in Nat /\ BufferContacts > 0
    BY Sizes
  <2>2. n \in Nat /\ n <= BufferContacts /\ n <= Len(h) /\ n > 0
    BY <1>2, <2>1, Fitting
  <2> HIDE DEF n
  <2> QED
    BY <1>2, <2>2
<1> HIDE DEF n
<1>4. /\ sent' \in Seq(Contact) /\ Len(sent') = n
      /\ \A i \in 1 .. n : sent'[i] = h[i]
  BY <1>1, <1>2, <1>3, Beginning
<1> QED
  BY <1>1, <1>3, <1>4 DEF h

LEMMA RamCopied ==
  ASSUME TypeOK, ExportRam, StillReserved, ram # <<>>
  PROVE  /\ sent' \in Seq(Contact) /\ contact_export_count' = Len(sent')
         /\ Len(sent') \in 1 .. Len(ram) /\ Len(sent') <= BufferContacts
         /\ \A i \in 1 .. Len(sent') : sent'[i] = ram[i]
<1> DEFINE n == Lowest(BufferContacts, Len(ram))
<1>1. /\ sent' = SubSeq(ram, 1, n) /\ contact_export_count' = Len(sent')
  BY DEF ExportRam
<1>2. ram \in Seq(Contact) /\ Len(ram) \in Nat /\ Len(ram) > 0
  BY Typed, Indexed
<1>3. n \in 1 .. Len(ram) /\ n <= BufferContacts /\ n \in 0 .. Len(ram)
  <2>1. BufferContacts \in Nat /\ BufferContacts > 0
    BY Sizes
  <2>2. n \in Nat /\ n <= BufferContacts /\ n <= Len(ram) /\ n > 0
    BY <1>2, <2>1, Fitting
  <2> HIDE DEF n
  <2> QED
    BY <1>2, <2>2
<1> HIDE DEF n
<1>4. /\ sent' \in Seq(Contact) /\ Len(sent') = n
      /\ \A i \in 1 .. n : sent'[i] = ram[i]
  BY <1>1, <1>2, <1>3, Beginning
<1> QED
  BY <1>1, <1>3, <1>4

LEMMA ExportTypeKept ==
  ASSUME TypeOK, Phases, ExportHolds, Steps
  PROVE  ExportTyped'
<1>1. 0 \in 0 .. BufferContacts /\ <<>> \in Seq(Contact)
  BY Sizes, EmptySeq
<1>2. ExportTyped
  BY TypeParts
<1>3. CASE ExportPeek
  BY <1>2, <1>3, Peeked DEF ExportPeek, export, ExportTyped
<1>4. CASE ExportMark
  <2>1. CASE StillReserved
    <3>1. ExportsFlash
      BY <1>4, <2>1 DEF ExportMark, StillReserved, ExportsFlash
    <3>2. Len(sent) \in 0 .. BufferContacts
      BY <3>1, Typed DEF ExportHolds, FlashSent
    <3> QED
      BY <1>2, <1>4, <2>1, <3>2 DEF ExportMark, ExportTyped
  <2>2. CASE ~StillReserved
    BY <1>1, <1>2, <1>4, <2>2 DEF ExportMark, ExportTyped, NoExport
  <2> QED
    BY <2>1, <2>2
<1>5. CASE ExportRam
  <2>1. CASE StillReserved /\ ram # <<>>
    <3>1. /\ sent' \in Seq(Contact) /\ contact_export_count' = Len(sent')
          /\ Len(sent') <= BufferContacts
      BY <1>5, <2>1, RamCopied
    <3>2. Len(sent') \in Nat
      BY <3>1, Indexed
    <3>3. contact_export_count' \in 0 .. BufferContacts
      BY <3>1, <3>2, Sizes
    <3> QED
      BY <1>5, <2>1, <3>1, <3>3 DEF ExportRam, ExportTyped
  <2>2. CASE ~(StillReserved /\ ram # <<>>)
    BY <1>1, <1>2, <1>5, <2>2 DEF ExportRam, ExportTyped, NoExport
  <2> QED
    BY <2>1, <2>2
<1>6. CASE ExportFails \/ ExportAbort \/ CommitRam \/ CommitEnd \/ ExportBegin
  BY <1>1, <1>2, <1>6 DEF ExportFails, ExportAbort, CommitRam, CommitEnd, ExportBegin,
     NoExport, ExportTyped
<1>7. CASE UNCHANGED <<export, sent>>
  BY <1>2, <1>7 DEF ExportTyped, export
<1>8. CASE /\ ~ExportPeek /\ ~ExportMark /\ ~ExportRam
           /\ ~(ExportFails \/ ExportAbort \/ CommitRam \/ CommitEnd \/ ExportBegin)
  BY <1>7, <1>8 DEF Steps, Check, Submit, UpdateTag, ScheduleTagUpdateOnce,
     EvaluateContact, FlushStart, FlushAppend, FlushEnd, ExportCount, CommitFlash,
     Drop, UpdateDelayEnds, UpdateStart, UpdateCount, UpdateLevel, UpdateAdvertised
<1> QED
  BY <1>3, <1>4, <1>5, <1>6, <1>8

LEMMA FlushTypeKept ==
  ASSUME TypeOK, Steps
  PROVE  FlushTyped'
<1>1. FlushTyped
  BY TypeParts
<1>2. CASE FlushStart
  <2>1. CASE FlushAllowed
    <3>1. /\ contact_flush_block' = SubSeq(ram, 1, Lowest(BlockContacts, Len(ram)))
          /\ contact_flush_active' = TRUE /\ contact_flush_read_index' = idx_read
      BY <1>2, <2>1 DEF FlushStart
    <3>2. Lowest(BlockContacts, Len(ram)) \in 0 .. Len(ram)
      <4>1. /\ Len(ram) \in Nat /\ BlockContacts \in Nat
        BY Typed, Sizes
      <4>2. /\ Lowest(BlockContacts, Len(ram)) \in Nat
            /\ Lowest(BlockContacts, Len(ram)) <= Len(ram)
        BY <4>1, Fitting
      <4> QED
        BY <4>1, <4>2
    <3>3. contact_flush_block' \in Seq(Contact)
      BY <3>1, <3>2, Typed, Beginning
    <3> QED
      BY <3>1, <3>3 DEF FlushTyped, TypeOK
  <2>2. CASE ~FlushAllowed
    BY <1>1, <1>2, <2>2 DEF FlushStart, flush, FlushTyped
  <2> QED
    BY <2>1, <2>2
<1>3. CASE FlushEnd
  BY <1>1, <1>3, EmptySeq DEF FlushEnd, FlushTyped
<1>4. CASE UNCHANGED flush
  BY <1>1, <1>4 DEF FlushTyped, flush
<1>5. CASE ~FlushStart /\ ~FlushEnd
  BY <1>4, <1>5 DEF Steps, Check, Submit, UpdateTag, ScheduleTagUpdateOnce,
     EvaluateContact, FlushAppend, ExportBegin, ExportCount, ExportPeek, ExportFails,
     ExportMark, ExportRam, ExportAbort, CommitRam, CommitFlash, Drop, CommitEnd,
     UpdateDelayEnds, UpdateStart, UpdateCount, UpdateLevel, UpdateAdvertised
<1> QED
  BY <1>2, <1>3, <1>5

LEMMA FlagsTypeKept ==
  ASSUME TypeOK, Steps
  PROVE  FlagsTyped'
<1>1. FlagsTyped
  BY TypeParts
<1> USE <1>1 DEF FlagsTyped, status
<1>2. ASSUME NEW t \in Askers, Check(t) \/ Submit(t) \/ UpdateTag(t)
      PROVE  FlagsTyped'
  BY <1>2 DEF Check, Submit, UpdateTag
<1>3. CASE ScheduleTagUpdateOnce \/ EvaluateContact \/ FlushStart \/ FlushAppend
  BY <1>3 DEF ScheduleTagUpdateOnce, EvaluateContact, FlushStart, FlushAppend
<1>4. CASE FlushEnd
  BY <1>4 DEF FlushEnd
<1>5. CASE ExportBegin \/ ExportCount \/ ExportPeek \/ ExportFails \/ ExportMark
           \/ ExportRam \/ ExportAbort \/ CommitFlash \/ Drop
  BY <1>5 DEF ExportBegin, ExportCount, ExportPeek, ExportFails, ExportMark, ExportRam,
     ExportAbort, CommitFlash, Drop
<1>6. CASE CommitRam \/ CommitEnd
  BY <1>6 DEF CommitRam, CommitEnd
<1>7. CASE UpdateDelayEnds \/ UpdateStart \/ UpdateCount \/ UpdateLevel \/ UpdateAdvertised
  BY <1>7 DEF UpdateDelayEnds, UpdateStart, UpdateCount, UpdateLevel, UpdateAdvertised
<1> QED
  BY <1>2, <1>3, <1>4, <1>5, <1>6, <1>7 DEF Steps

LEMMA StatusTypeKept ==
  ASSUME TypeOK, Steps
  PROVE  StatusTyped'
<1>1. StatusTyped
  BY TypeParts
<1>2. ASSUME NEW t \in Askers, Check(t) \/ Submit(t) \/ UpdateTag(t)
      PROVE  StatusTyped'
  BY <1>1, <1>2 DEF Check, Submit, UpdateTag, status, StatusTyped
<1>3. CASE ScheduleTagUpdateOnce \/ UpdateDelayEnds
  BY <1>1, <1>3 DEF ScheduleTagUpdateOnce, UpdateDelayEnds, StatusTyped
<1>4. CASE UpdateStart
  BY <1>1, <1>4, Typed DEF UpdateStart, StatusTyped
<1>5. CASE UpdateCount
  <2>1. number_dataset + Len(ram) \in Nat
    BY <1>1, Typed DEF StatusTyped
  <2> QED
    BY <1>1, <1>5, <2>1 DEF UpdateCount, StatusTyped
<1>6. CASE UpdateLevel
  BY <1>1, <1>6, LevelTyped DEF UpdateLevel, StatusTyped
<1>7. CASE UNCHANGED <<update_work, number_dataset, level>> /\ uncounted' \in Nat
  BY <1>1, <1>7 DEF StatusTyped
<1>8. CASE FlushStart \/ FlushAppend \/ FlushEnd \/ ExportBegin
        \/ ExportCount \/ ExportPeek \/ ExportFails \/ ExportMark \/ ExportRam
        \/ ExportAbort \/ CommitRam \/ CommitFlash \/ Drop \/ CommitEnd
        \/ UpdateAdvertised
  BY <1>1, <1>7, <1>8 DEF FlushStart, FlushAppend, FlushEnd, ExportBegin,
     ExportCount, ExportPeek, ExportFails, ExportMark, ExportRam, ExportAbort,
     CommitRam, CommitFlash, Drop, CommitEnd, UpdateAdvertised, status, StatusTyped
<1>9. CASE EvaluateContact
  BY <1>1, <1>7, <1>9 DEF EvaluateContact, StatusTyped
<1> QED
  BY <1>2, <1>3, <1>4, <1>5, <1>6, <1>8, <1>9 DEF Steps

(* The newest of what was sent is a contact.                               *)
LEMMA LastSent ==
  ASSUME TypeOK, Len(sent) >= 1
  PROVE  /\ Last(sent) = sent[Len(sent)] /\ Last(sent) \in Nat
         /\ Last(sent) \in 0 .. MaxContacts
<1>1. Last(sent) = sent[Len(sent)]
  BY DEF Last
<1>2. Len(sent) \in 1 .. Len(sent)
  BY Typed
<1>3. sent[Len(sent)] \in Contact
  BY <1>2, Typed, Indexed
<1> QED
  BY <1>1, <1>3, Sizes DEF Contact

LEMMA BoundsTypeKept ==
  ASSUME TypeOK, Phases, ExportHolds, Steps
  PROVE  BoundsTyped'
<1>1. BoundsTyped
  BY TypeParts
<1>2. CASE EvaluateContact
  <2>1. last' = last + 1 /\ last < MaxContacts
    BY <1>2, Evaluated
  <2>2. last \in Nat /\ MaxContacts \in Nat
    BY Typed, Sizes
  <2>3. last' \in 0 .. MaxContacts
    BY <2>1, <2>2
  <2> QED
    BY <1>1, <1>2, <2>3 DEF EvaluateContact, bounds, BoundsTyped
<1>3. CASE CommitRam
  <2>1. Len(sent) >= 1
    BY <1>3, Typed DEF CommitRam, ExportHolds, ExportsRam, RamSent
  <2>2. delivered' \in 0 .. MaxContacts
    BY <1>1, <1>3, <2>1, LastSent DEF CommitRam, BoundsTyped
  <2> QED
    BY <1>1, <1>3, <2>2 DEF CommitRam, bounds, BoundsTyped
<1>4. CASE Drop
  <2>1. Len(sent) >= 1
    BY <1>4, Typed, OldestBlock DEF Drop, Phases, ExportHolds, ExportsFlash, FlashSent, Blocks
  <2>2. delivered' \in 0 .. MaxContacts
    BY <1>1, <1>4, <2>1, LastSent DEF Drop, BoundsTyped
  <2>3. faults' \in Nat
    BY <1>1, <1>4 DEF Drop, BoundsTyped
  <2> QED
    BY <1>1, <1>4, <2>2, <2>3 DEF Drop, BoundsTyped
<1>5. CASE FlushAppend
  BY <1>1, <1>5 DEF FlushAppend, BoundsTyped
<1>6. CASE ExportFails \/ ExportBegin \/ UpdateStart
  BY <1>1, <1>6 DEF ExportFails, ExportBegin, UpdateStart, BoundsTyped
<1>7. CASE UNCHANGED <<bounds, last, delivered>>
  BY <1>1, <1>7 DEF BoundsTyped, bounds
<1>8. ASSUME NEW t \in Askers, Check(t) \/ Submit(t) \/ UpdateTag(t)
      PROVE  BoundsTyped'
  BY <1>7, <1>8 DEF Check, Submit, UpdateTag
<1>9. CASE ScheduleTagUpdateOnce \/ FlushStart \/ FlushEnd \/ ExportCount \/ ExportPeek
        \/ ExportMark \/ ExportRam \/ ExportAbort \/ CommitFlash \/ CommitEnd
        \/ UpdateDelayEnds \/ UpdateCount \/ UpdateLevel \/ UpdateAdvertised
  BY <1>7, <1>9 DEF ScheduleTagUpdateOnce, FlushStart, FlushEnd, ExportCount, ExportPeek,
     ExportMark, ExportRam, ExportAbort, CommitFlash, CommitEnd, UpdateDelayEnds,
     UpdateCount, UpdateLevel, UpdateAdvertised
<1> QED
  BY <1>2, <1>3, <1>4, <1>5, <1>6, <1>8, <1>9 DEF Steps

LEMMA LabelsAre ==
  /\ "idle" \in Label /\ "check" \in Label /\ "submit" \in Label
  /\ "update" \in Label /\ "append" \in Label /\ "append_done" \in Label
  /\ "count" \in Label /\ "peek" \in Label /\ "mark" \in Label /\ "ram" \in Label
  /\ "hold" \in Label /\ "drop" \in Label /\ "drop_done" \in Label
  /\ "set" \in Label /\ "adv" \in Label
BY DEF Label

LEMMA ThreadsTypeKept ==
  ASSUME TypeOK, Steps
  PROVE  ThreadsTyped'
<1>1. pc \in [Thread -> Label] /\ result \in [Thread -> {"ok", "io", "nospc"}]
  BY TypeParts DEF ThreadsTyped
<1>2. pc' \in [Thread -> Label]
  <2>1. ASSUME NEW t \in Askers, Check(t) \/ Submit(t) \/ UpdateTag(t)
        PROVE  pc' \in [Thread -> Label]
    BY <2>1, CheckGoes, SubmitGoes, UpdateTagGoes
  <2>2. ASSUME NEW t \in Thread, NEW label \in Label, Goto(t, label)
        PROVE  pc' \in [Thread -> Label]
    BY <2>2, GoneTo
  <2>3. CASE ScheduleTagUpdateOnce \/ EvaluateContact
    BY <2>2, <2>3, Threads, LabelsAre DEF ScheduleTagUpdateOnce, EvaluateContact
  <2>4. CASE FlushStart \/ FlushAppend \/ FlushEnd
    BY <1>1, <2>2, <2>4, Threads, LabelsAre DEF FlushStart, FlushAppend, FlushEnd
  <2>5. CASE ExportBegin \/ ExportCount \/ ExportPeek \/ ExportFails
    BY <2>2, <2>5, Threads, LabelsAre DEF ExportBegin, ExportCount, ExportPeek, ExportFails
  <2>6. CASE ExportMark \/ ExportRam \/ ExportAbort
    BY <2>2, <2>6, Threads, LabelsAre DEF ExportMark, ExportRam, ExportAbort
  <2>7. CASE CommitRam \/ CommitFlash \/ Drop \/ CommitEnd
    BY <2>2, <2>7, Threads, LabelsAre DEF CommitRam, CommitFlash, Drop, CommitEnd
  <2>8. CASE UpdateDelayEnds \/ UpdateStart \/ UpdateCount \/ UpdateLevel \/ UpdateAdvertised
    BY <1>1, <2>2, <2>8, Threads, LabelsAre DEF UpdateDelayEnds, UpdateStart,
       UpdateCount, UpdateLevel, UpdateAdvertised
  <2> QED
    BY <2>1, <2>3, <2>4, <2>5, <2>6, <2>7, <2>8 DEF Steps
<1>3. result' \in [Thread -> {"ok", "io", "nospc"}]
  <2>1. ASSUME NEW t \in Thread, NEW value \in {"ok", "io", "nospc"}, Returns(t, value)
        PROVE  result' \in [Thread -> {"ok", "io", "nospc"}]
    BY <2>1, Returned
  <2>2. CASE FlushAppend
    BY <2>1, <2>2, Threads DEF FlushAppend
  <2>3. CASE FlushEnd
    BY <2>1, <2>3, Threads DEF FlushEnd
  <2>4. CASE Drop
    BY <2>1, <2>4, Threads DEF Drop
  <2>5. CASE CommitEnd
    BY <2>1, <2>5, Threads DEF CommitEnd
  <2>6. CASE result' = result
    BY <1>1, <2>6
  <2>7. CASE ~FlushAppend /\ ~FlushEnd /\ ~Drop /\ ~CommitEnd
    BY <2>6, <2>7 DEF Steps, Check, Submit, UpdateTag, ScheduleTagUpdateOnce,
       EvaluateContact, FlushStart, ExportBegin, ExportCount, ExportPeek, ExportFails,
       ExportMark, ExportRam, ExportAbort, CommitRam, CommitFlash, UpdateDelayEnds,
       UpdateStart, UpdateCount, UpdateLevel, UpdateAdvertised
  <2> QED
    BY <2>2, <2>3, <2>4, <2>5, <2>7
<1> QED
  BY <1>2, <1>3 DEF ThreadsTyped

LEMMA TypesKept ==
  ASSUME TypeOK, Phases, FlushHolds, ExportHolds, Steps
  PROVE  TypeOK'
<1>1. /\ RingTyped' /\ FlashTyped' /\ ExportTyped' /\ FlushTyped' /\ FlagsTyped'
      /\ StatusTyped' /\ BoundsTyped' /\ ThreadsTyped'
  BY RingTypeKept, FlashTypeKept, ExportTypeKept, FlushTypeKept, FlagsTypeKept,
     StatusTypeKept, BoundsTypeKept, ThreadsTypeKept
<1> QED
  BY <1>1 DEF TypeOK, RingTyped, FlashTyped, ExportTyped, FlushTyped, FlagsTyped,
     StatusTyped, BoundsTyped, ThreadsTyped, Label

-----------------------------------------------------------------------------
(* Where the two work queues stand.                                        *)

LEMMA PhasesKept ==
  ASSUME TypeOK, Phases, Steps
  PROVE  Phases'
<1> USE DEF CheckPc, FlushPc, ExportPc
<1>1. ASSUME NEW t \in Askers, Check(t)
      PROVE  Phases'
  <2>1. /\ pc[t] = "check" /\ pc'[t] \in {"idle"} \union CheckPc
        /\ \A u \in Thread : u # t => pc'[u] = pc[u]
    BY <1>1, CheckGoes
  <2>2. UNCHANGED <<export, flush>>
    BY <1>1 DEF Check
  <2> QED
    BY <2>1, <2>2, Threads DEF Askers, Phases, export, flush
<1>2. ASSUME NEW t \in Askers, Submit(t)
      PROVE  Phases'
  <2>1. /\ pc[t] = "submit" /\ pc'[t] \in {"idle"} \union CheckPc
        /\ \A u \in Thread : u # t => pc'[u] = pc[u]
    BY <1>2, SubmitGoes
  <2>2. UNCHANGED <<export, flush>>
    BY <1>2 DEF Submit
  <2> QED
    BY <2>1, <2>2, Threads DEF Askers, Phases, export, flush
<1>3. ASSUME NEW t \in Askers, UpdateTag(t)
      PROVE  Phases'
  <2>1. /\ pc[t] = "update" /\ pc'[t] \in {"idle"} \union CheckPc
        /\ \A u \in Thread : u # t => pc'[u] = pc[u]
    BY <1>3, UpdateTagGoes
  <2>2. UNCHANGED <<export, flush>>
    BY <1>3 DEF UpdateTag
  <2> QED
    BY <2>1, <2>2, Threads DEF Askers, Phases, export, flush
<1>4. CASE ScheduleTagUpdateOnce \/ EvaluateContact
  BY <1>4, ScannerGoes, LabelsAre DEF ScheduleTagUpdateOnce, EvaluateContact, Phases,
     export, flush
<1>5. CASE FlushStart
  BY <1>5, FlusherGoes, LabelsAre DEF FlushStart, FlushAllowed, Phases, export, flush
<1>6. CASE FlushAppend
  BY <1>6, FlusherGoes, LabelsAre DEF FlushAppend, Phases, export, flush
<1>7. CASE FlushEnd
  BY <1>7, FlusherGoes, LabelsAre DEF FlushEnd, Phases, export
<1>8. CASE ExportBegin
  BY <1>8, TransferGoes, LabelsAre DEF ExportBegin, Phases, flush
<1>9. CASE ExportCount \/ ExportPeek
  BY <1>9, TransferGoes, LabelsAre DEF ExportCount, ExportPeek, Phases, export, flush
<1>10. CASE ExportFails \/ ExportAbort
  BY <1>10, TransferGoes, LabelsAre DEF ExportFails, ExportAbort, NoExport, Phases, flush
<1>11. CASE ExportMark
  BY <1>11, TransferGoes, LabelsAre DEF ExportMark, StillReserved, NoExport, Phases, flush
<1>12. CASE ExportRam
  BY <1>12, TransferGoes, LabelsAre DEF ExportRam, NoExport, Phases, flush
<1>13. CASE CommitRam
  BY <1>13, TransferGoes, LabelsAre DEF CommitRam, NoExport, Phases, flush
<1>14. CASE CommitFlash \/ Drop
  BY <1>14, TransferGoes, LabelsAre DEF CommitFlash, Drop, Phases, export, flush
<1>15. CASE CommitEnd
  BY <1>15, TransferGoes, LabelsAre DEF CommitEnd, NoExport, Phases, flush
<1>16. CASE UpdateDelayEnds
  BY <1>16 DEF UpdateDelayEnds, Phases, export, flush
<1>17. CASE UpdateStart
  BY <1>17, SystemGoes, LabelsAre DEF UpdateStart, Phases, export, flush
<1>18. CASE UpdateCount \/ UpdateLevel \/ UpdateAdvertised
  BY <1>18, SystemGoes, LabelsAre DEF UpdateCount, UpdateLevel, UpdateAdvertised, Phases, export, flush
<1> QED
  BY <1>1, <1>2, <1>3, <1>4, <1>5, <1>6, <1>7, <1>8, <1>9, <1>10, <1>11, <1>12,
     <1>13, <1>14, <1>15, <1>16, <1>17, <1>18 DEF Steps

-----------------------------------------------------------------------------
(* A flush that is due is on its way.                                      *)

AsksSoon(t) == pc[t] \in {"check", "submit"} \/ (t # Scanner /\ pc[t] = "update")

(* Whoever is about to ask still is, if somebody else moves.               *)
LEMMA StillAsks ==
  ASSUME NEW x \in Thread, ~AsksSoon(x),
         \A u \in Thread : u # x => pc'[u] = pc[u],
         NEW t \in Thread, AsksSoon(t)
  PROVE  \E u \in Thread : AsksSoon(u)'
<1>1. t # x
  OBVIOUS
<1>2. AsksSoon(t)'
  BY <1>1 DEF AsksSoon
<1> QED
  BY <1>2

LEMMA AskingKept ==
  ASSUME FlushOnItsWay, NEW x \in Thread, ~AsksSoon(x),
         \A u \in Thread : u # x => pc'[u] = pc[u],
         FlushDue' => FlushDue,
         flush_work => flush_work', flush_missed => flush_missed',
         contact_flush_active => contact_flush_active',
         contact_export_source # "NONE" => contact_export_source' # "NONE"
  PROVE  FlushOnItsWay'
<1>1. SUFFICES ASSUME FlushDue'
               PROVE  FlushOnItsWay'
  BY DEF FlushOnItsWay
<1>2. \/ flush_work \/ contact_flush_active \/ contact_export_source # "NONE"
      \/ (\E t \in Thread : AsksSoon(t))
      \/ flush_missed
  BY <1>1 DEF FlushOnItsWay, AsksSoon
<1>3. CASE \E t \in Thread : AsksSoon(t)
  <2>1. \E t \in Thread : AsksSoon(t)'
    BY <1>3, StillAsks
  <2> QED
    BY <2>1 DEF FlushOnItsWay, AsksSoon
<1>4. CASE flush_work \/ contact_flush_active \/ contact_export_source # "NONE"
           \/ flush_missed
  BY <1>4 DEF FlushOnItsWay
<1> QED
  BY <1>2, <1>3, <1>4

LEMMA NowAsks ==
  ASSUME NEW t \in Thread, AsksSoon(t)'
  PROVE  FlushOnItsWay'
BY DEF FlushOnItsWay, AsksSoon

LEMMA AlreadyOnItsWay ==
  ASSUME flush_work' \/ contact_flush_active' \/ contact_export_source' # "NONE"
         \/ flush_missed' \/ ~FlushDue'
  PROVE  FlushOnItsWay'
BY DEF FlushOnItsWay

LEMMA FlushAsked ==
  ASSUME TypeOK, Phases, FlushOnItsWay, Steps
  PROVE  FlushOnItsWay'
<1> USE DEF FlushDue
<1>1. ASSUME NEW t \in Askers, Check(t)
      PROVE  FlushOnItsWay'
  <2>0. t \in Thread
    BY DEF Askers, Thread
  <2>1. CASE FlushNeeded
    <3>1. pc'[t] = "submit"
      <4>1. Goto(t, "submit")
        BY <1>1, <2>1 DEF Check
      <4> QED
        BY <2>0, <4>1, GoneTo, LabelsAre
    <3> QED
      BY <2>0, <3>1, NowAsks DEF AsksSoon
  <2>2. CASE ~FlushNeeded
    <3>1. UNCHANGED <<ram, export, flush, contact_nvm_full>>
      BY <1>1 DEF Check
    <3>2. contact_flush_active' \/ contact_export_source' # "NONE" \/ ~FlushDue'
      BY <2>2, <3>1 DEF FlushNeeded, export, flush
    <3> QED
      BY <3>2, AlreadyOnItsWay
  <2> QED
    BY <2>1, <2>2
<1>2. ASSUME NEW t \in Askers, Submit(t)
      PROVE  FlushOnItsWay'
  BY <1>2, SubmitGoes, AlreadyOnItsWay
<1>3. ASSUME NEW t \in Askers, UpdateTag(t)
      PROVE  FlushOnItsWay'
  <2>1. t \in Thread /\ pc'[t] = "check"
    BY <1>3, UpdateTagGoes DEF Askers, Thread
  <2> QED
    BY <2>1, NowAsks DEF AsksSoon
<1>4. CASE ScheduleTagUpdateOnce
  <2>1. \A u \in Thread : u # Scanner => pc'[u] = pc[u]
    BY <1>4, GoneTo, Threads, LabelsAre DEF ScheduleTagUpdateOnce
  <2>2. ~AsksSoon(Scanner)
    BY <1>4 DEF ScheduleTagUpdateOnce, AsksSoon
  <2>3. UNCHANGED <<ram, export, flush, contact_nvm_full, flush_work, flush_missed>>
    BY <1>4 DEF ScheduleTagUpdateOnce
  <2> QED
    BY <2>1, <2>2, <2>3, Threads, AskingKept DEF export, flush
<1>5. CASE EvaluateContact
  <2>1. pc'[Scanner] = "check"
    BY <1>5, ScannerGoes, LabelsAre DEF EvaluateContact
  <2> QED
    BY <2>1, Threads, NowAsks DEF AsksSoon
<1>6. CASE FlushStart
  <2>1. CASE FlushAllowed
    BY <1>6, <2>1, AlreadyOnItsWay DEF FlushStart
  <2>2. CASE ~FlushAllowed
    <3>1. UNCHANGED <<ram, export, flush, contact_nvm_full>>
      BY <1>6, <2>2 DEF FlushStart
    <3>2. contact_flush_active' \/ contact_export_source' # "NONE" \/ ~FlushDue'
      BY <2>2, <3>1 DEF FlushAllowed, export, flush
    <3> QED
      BY <3>2, AlreadyOnItsWay
  <2> QED
    BY <2>1, <2>2
<1>7. CASE FlushAppend
  <2>1. contact_flush_active'
    BY <1>7 DEF FlushAppend, Phases, FlushPc, flush
  <2> QED
    BY <2>1, AlreadyOnItsWay
<1>8. CASE FlushEnd
  <2>1. CASE BlockStored
    <3>1. pc'[Flusher] = "update"
      BY <1>8, <2>1, FlusherGoes, LabelsAre DEF FlushEnd
    <3> QED
      BY <3>1, Threads, NowAsks DEF AsksSoon
  <2>2. CASE ~BlockStored
    BY <1>8, <2>2, AlreadyOnItsWay DEF FlushEnd
  <2> QED
    BY <2>1, <2>2
<1>9. CASE ExportBegin
  BY <1>9, AlreadyOnItsWay DEF ExportBegin
<1>10. CASE ExportCount \/ ExportPeek \/ CommitFlash \/ Drop
  <2>1. contact_export_source' # "NONE"
    BY <1>10 DEF ExportCount, ExportPeek, CommitFlash, Drop, Phases, ExportPc, export
  <2> QED
    BY <2>1, AlreadyOnItsWay
<1>11. CASE ExportFails \/ ExportAbort
  <2>1. pc'[Transfer] = "check"
    BY <1>11, TransferGoes, LabelsAre DEF ExportFails, ExportAbort
  <2> QED
    BY <2>1, Threads, NowAsks DEF AsksSoon
<1>12. CASE ExportMark
  <2>1. CASE StillReserved
    BY <1>12, <2>1, AlreadyOnItsWay DEF ExportMark, StillReserved
  <2>2. CASE ~StillReserved
    <3>1. pc'[Transfer] = "check"
      BY <1>12, <2>2, TransferGoes, LabelsAre DEF ExportMark
    <3> QED
      BY <3>1, Threads, NowAsks DEF AsksSoon
  <2> QED
    BY <2>1, <2>2
<1>13. CASE ExportRam
  <2>1. CASE StillReserved /\ ram # <<>>
    BY <1>13, <2>1, AlreadyOnItsWay DEF ExportRam
  <2>2. CASE StillReserved /\ ram = <<>>
    <3>1. Len(ram') = 0
      BY <1>13, <2>2, EmptySeq DEF ExportRam
    <3>2. ~FlushDue'
      BY <3>1, Sizes
    <3> QED
      BY <3>2, AlreadyOnItsWay
  <2>3. CASE ~StillReserved
    <3>1. pc'[Transfer] = "check"
      BY <1>13, <2>3, TransferGoes, LabelsAre DEF ExportRam
    <3> QED
      BY <3>1, Threads, NowAsks DEF AsksSoon
  <2> QED
    BY <2>1, <2>2, <2>3
<1>14. CASE CommitRam
  <2>1. CASE contact_export_count <= Len(ram)
    <3>1. pc'[Transfer] = "update"
      BY <1>14, <2>1, TransferGoes, LabelsAre DEF CommitRam
    <3> QED
      BY <3>1, Threads, NowAsks DEF AsksSoon
  <2>2. CASE ~(contact_export_count <= Len(ram))
    BY <1>14, <2>2, AlreadyOnItsWay DEF CommitRam
  <2> QED
    BY <2>1, <2>2
<1>15. CASE CommitEnd
  <2>1. CASE result[Transfer] = "ok"
    <3>1. pc'[Transfer] = "update"
      BY <1>15, <2>1, TransferGoes, LabelsAre DEF CommitEnd
    <3> QED
      BY <3>1, Threads, NowAsks DEF AsksSoon
  <2>2. CASE result[Transfer] # "ok"
    BY <1>15, <2>2, AlreadyOnItsWay DEF CommitEnd
  <2> QED
    BY <2>1, <2>2
<1>16. CASE UpdateDelayEnds \/ UpdateStart \/ UpdateCount \/ UpdateLevel \/ UpdateAdvertised
  <2>1. \A u \in Thread : u # System => pc'[u] = pc[u]
    BY <1>16, GoneTo, Threads, LabelsAre DEF UpdateDelayEnds, UpdateStart, UpdateCount,
       UpdateLevel, UpdateAdvertised
  <2>2. ~AsksSoon(System)
    BY DEF Phases, AsksSoon
  <2>3. UNCHANGED <<ram, export, flush, contact_nvm_full, flush_work, flush_missed>>
    BY <1>16 DEF UpdateDelayEnds, UpdateStart, UpdateCount, UpdateLevel, UpdateAdvertised
  <2> QED
    BY <2>1, <2>2, <2>3, Threads, AskingKept DEF export, flush
<1> QED
  BY <1>1, <1>2, <1>3, <1>4, <1>5, <1>6, <1>7, <1>8, <1>9, <1>10, <1>11, <1>12,
     <1>13, <1>14, <1>15, <1>16 DEF Steps

-----------------------------------------------------------------------------
(* The level follows the contacts held.                                    *)

(* A step that leaves what is held, the update and the level alone, and    *)
(* after which no less is about to be asked for.                           *)
LEMMA LevelQuiet ==
  ASSUME LevelFollows, UNCHANGED <<ram, flash, number_dataset, level, uncounted>>,
         pc'[System] = pc[System], pc'[Scanner] = "idle" => pc[Scanner] = "idle",
         Unsettled => Unsettled'
  PROVE  LevelFollows'
<1>1. /\ NotTooMany' = NotTooMany /\ NotTooFew' = NotTooFew
      /\ LevelSet' = LevelSet /\ Len(Stored)' = Len(Stored)
  BY DEF NotTooMany, NotTooFew, LevelSet, Held, Stored, Lowest, contact_status_from_count
<1> QED
  BY <1>1 DEF LevelFollows

(* How the numbers lie while none is missing.                              *)
LEMMA HeldTyped ==
  ASSUME TypeOK
  PROVE  Held \in Nat /\ number_dataset \in Nat /\ uncounted \in Nat
<1>1. number_dataset \in Nat /\ uncounted \in Nat
  BY TypeParts DEF StatusTyped
<1> QED
  BY <1>1, Typed DEF Held

LEMMA LevelUnsettled ==
  ASSUME Unsettled'
  PROVE  LevelFollows'
BY DEF LevelFollows

LEMMA LevelKept ==
  ASSUME TypeOK, Phases, FlushHolds, LevelFollows, Steps
  PROVE  LevelFollows'
<1> USE DEF BlockInBoth, Dropped, CheckPc
<1>1. ASSUME NEW t \in Askers, Check(t)
      PROVE  LevelFollows'
  <2>1. /\ pc[t] = "check" /\ pc'[t] \in {"idle", "submit", "update"}
        /\ pc'[Scanner] = "idle" => t # Scanner
        /\ \A u \in Thread : u # t => pc'[u] = pc[u]
    BY <1>1, CheckGoes
  <2>2. UNCHANGED <<ram, flash, status, result>>
    BY <1>1 DEF Check
  <2>3. pc'[System] = pc[System]
    BY <2>1, Threads DEF Askers
  <2>4. Unsettled => Unsettled'
    BY <2>1, <2>2, Threads DEF Askers, Unsettled, status
  <2>5. pc'[Scanner] = "idle" => pc[Scanner] = "idle"
    BY <2>1, Threads DEF Askers
  <2> QED
    BY <2>2, <2>3, <2>4, <2>5, LevelQuiet DEF status
<1>2. ASSUME NEW t \in Askers, Submit(t)
      PROVE  LevelFollows'
  <2>1. /\ pc[t] = "submit" /\ pc'[t] \in {"idle", "update"}
        /\ pc'[t] = "update" <=> t = Scanner
        /\ \A u \in Thread : u # t => pc'[u] = pc[u]
    BY <1>2, SubmitGoes
  <2>2. UNCHANGED <<ram, flash, status, result>>
    BY <1>2 DEF Submit
  <2>3. pc'[System] = pc[System]
    BY <2>1, Threads DEF Askers
  <2>4. Unsettled => Unsettled'
    BY <2>1, <2>2, Threads DEF Askers, Unsettled, status
  <2>5. pc'[Scanner] = "idle" => pc[Scanner] = "idle"
    BY <2>1, Threads DEF Askers
  <2> QED
    BY <2>2, <2>3, <2>4, <2>5, LevelQuiet DEF status
<1>3. ASSUME NEW t \in Askers, UpdateTag(t)
      PROVE  LevelFollows'
  BY <1>3, UpdateTagGoes, LevelUnsettled DEF Unsettled
<1>4. CASE ScheduleTagUpdateOnce
  <2>1. CASE pc[System] = "idle" \/ update_work # "idle"
    <3>1. update_work' # "idle"
      BY <1>4, <2>1 DEF ScheduleTagUpdateOnce, UpdatePending
    <3> QED
      BY <3>1, LevelUnsettled DEF Unsettled
  <2>2. CASE pc[System] # "idle" /\ update_work = "idle"
    <3>1. UNCHANGED <<ram, flash, status, result>>
      BY <1>4, <2>2 DEF ScheduleTagUpdateOnce, UpdatePending, status
    <3>2. /\ pc'[Flusher] = pc[Flusher] /\ pc'[Transfer] = pc[Transfer]
          /\ pc'[System] = pc[System]
      BY <1>4, ScannerGoes, LabelsAre DEF ScheduleTagUpdateOnce
    <3>3. Unsettled => Unsettled'
      BY <3>1, <3>2 DEF Unsettled, status
    <3>4. /\ NotTooMany' = NotTooMany /\ NotTooFew' = NotTooFew
          /\ LevelSet' = LevelSet /\ Len(Stored)' = Len(Stored)
          /\ number_dataset' = number_dataset
      BY <3>1 DEF NotTooMany, NotTooFew, LevelSet, Held, Stored, Lowest,
         contact_status_from_count, status
    <3> QED
      BY <2>2, <3>2, <3>3, <3>4 DEF LevelFollows
  <2> QED
    BY <2>1, <2>2
<1>5. CASE EvaluateContact
  <2>1. pc'[Scanner] = "check"
    BY <1>5, ScannerGoes, LabelsAre DEF EvaluateContact
  <2>2. /\ pc'[Flusher] = pc[Flusher] /\ pc'[Transfer] = pc[Transfer]
        /\ pc'[System] = pc[System]
    BY <1>5, ScannerGoes, LabelsAre DEF EvaluateContact
  <2>3. UNCHANGED <<flash, update_work, number_dataset, level, level_missed, result>>
    BY <1>5 DEF EvaluateContact
  <2>4. Unsettled => Unsettled'
    BY <2>2, <2>3 DEF Unsettled
  <2>5. Len(ram') \in {Len(ram), Len(ram) + 1}
    <3>1. Len(ram') = Len(ram) + 1 \/ Len(ram') = Len(ram)
      BY <1>5, Evaluated
    <3> QED
      BY <3>1
  <2>6. (Held' = Held \/ Held' = Held + 1) /\ Held \in Nat
    <3>1. Len(Stored)' = Len(Stored) /\ Len(Stored) \in Nat /\ Len(ram) \in Nat
      BY <2>3, Typed DEF Stored
    <3> QED
      BY <2>5, <3>1 DEF Held
  <2>7. number_dataset \in Nat /\ uncounted \in Nat
    BY HeldTyped
  <2>8. NotTooMany => NotTooMany'
    BY <2>3, <2>6, <2>7 DEF NotTooMany
  <2>9. CASE pc[System] \in {"set", "adv"}
    <3>1. uncounted' = uncounted + 1
      BY <1>5, <2>9 DEF EvaluateContact
    <3>2. NotTooFew => NotTooFew'
      <4>1. NotTooFew' <=> number_dataset >= Held' - (uncounted + 1)
        BY <2>3, <3>1 DEF NotTooFew
      <4> QED
        BY <2>6, <2>7, <4>1 DEF NotTooFew
    <3>3. LevelSet' = LevelSet
      BY <2>3 DEF LevelSet, Lowest, contact_status_from_count
    <3> QED
      BY <2>2, <2>4, <2>8, <2>9, <3>2, <3>3 DEF LevelFollows
  <2>10. CASE pc[System] \notin {"set", "adv"}
    <3>1. LevelSet' = LevelSet /\ Len(Stored)' = Len(Stored)
      BY <2>3 DEF LevelSet, Lowest, contact_status_from_count, Stored
    <3> QED
      BY <2>1, <2>2, <2>3, <2>4, <2>8, <2>10, <3>1 DEF LevelFollows
  <2> QED
    BY <2>9, <2>10
<1>6. CASE FlushStart
  <2>1. /\ UNCHANGED <<ram, flash, status, result>>
        /\ pc[Flusher] = "idle"
    BY <1>6 DEF FlushStart
  <2>2. /\ pc'[Scanner] = pc[Scanner] /\ pc'[Transfer] = pc[Transfer]
        /\ pc'[System] = pc[System]
    BY <1>6, FlusherGoes, LabelsAre DEF FlushStart
  <2>3. Unsettled => Unsettled'
    BY <2>1, <2>2 DEF Unsettled, status
  <2> QED
    BY <2>1, <2>2, <2>3, LevelQuiet DEF status
<1>7. CASE FlushAppend
  <2>1. /\ UNCHANGED <<ram, update_work, number_dataset, level, uncounted>>
        /\ pc[Flusher] = "append" /\ (level_missed => level_missed')
    BY <1>7 DEF FlushAppend
  <2>2. /\ pc'[Scanner] = pc[Scanner] /\ pc'[Transfer] = pc[Transfer]
        /\ pc'[System] = pc[System] /\ pc'[Flusher] = "append_done"
    BY <1>7, FlusherGoes, LabelsAre DEF FlushAppend
  <2>3. PICK value \in {"ok", "io", "nospc"} :
          /\ Returns(Flusher, value)
          /\ value = "ok" \/ flash' = flash \/ level_missed'
    BY <1>7 DEF FlushAppend
  <2>4. result'[Flusher] = value /\ result'[Transfer] = result[Transfer]
    BY <2>3, Returned, Threads
  <2>5. CASE value = "ok" \/ level_missed'
    BY <2>2, <2>4, <2>5, LevelUnsettled DEF Unsettled
  <2>6. CASE flash' = flash
    <3>1. Unsettled => Unsettled'
      BY <2>1, <2>2, <2>4 DEF Unsettled
    <3> QED
      BY <2>1, <2>2, <2>6, <3>1, LevelQuiet
  <2> QED
    BY <2>3, <2>5, <2>6
<1>8. CASE FlushEnd
  <2>1. CASE BlockStored
    <3>1. pc'[Flusher] = "update"
      BY <1>8, <2>1, FlusherGoes, LabelsAre DEF FlushEnd
    <3> QED
      BY <3>1, LevelUnsettled DEF Unsettled
  <2>2. CASE ~BlockStored
    <3>1. UNCHANGED <<ram, flash, status>> /\ pc[Flusher] = "append_done"
      BY <1>8, <2>2 DEF FlushEnd
    <3>2. /\ pc'[Scanner] = pc[Scanner] /\ pc'[Transfer] = pc[Transfer]
          /\ pc'[System] = pc[System] /\ pc'[Flusher] = "idle"
      BY <1>8, <2>2, FlusherGoes, LabelsAre DEF FlushEnd
    <3>3. result'[Transfer] = result[Transfer]
      BY <1>8, Returned, Threads DEF FlushEnd
    <3>4. result[Flusher] # "ok"
      BY <2>2, <3>1, Typed DEF BlockStored, Phases, FlushPc, FlushHolds, Size
    <3>5. Unsettled => Unsettled'
      BY <3>1, <3>2, <3>3, <3>4 DEF Unsettled, status
    <3> QED
      BY <3>1, <3>2, <3>5, LevelQuiet DEF status
  <2> QED
    BY <2>1, <2>2
<1>9. ASSUME UNCHANGED <<ram, flash, status, result>>,
             pc[Transfer] \notin {"drop_done", "update"},
             NEW label \in Label, Goto(Transfer, label)
      PROVE  LevelFollows'
  <2>1. /\ pc'[Scanner] = pc[Scanner] /\ pc'[Flusher] = pc[Flusher]
        /\ pc'[System] = pc[System]
    BY <1>9, TransferGoes
  <2>2. Unsettled => Unsettled'
    BY <1>9, <2>1 DEF Unsettled, status
  <2> QED
    BY <1>9, <2>1, <2>2, LevelQuiet DEF status
<1>10. CASE ExportBegin \/ ExportCount \/ ExportPeek \/ ExportFails
  BY <1>9, <1>10, LabelsAre DEF ExportBegin, ExportCount, ExportPeek, ExportFails
<1>11. CASE ExportMark \/ ExportRam \/ ExportAbort \/ CommitFlash
  BY <1>9, <1>11, LabelsAre DEF ExportMark, ExportRam, ExportAbort, CommitFlash
<1>12. CASE CommitRam
  <2>1. CASE contact_export_count <= Len(ram)
    <3>1. pc'[Transfer] = "update"
      BY <1>12, <2>1, TransferGoes, LabelsAre DEF CommitRam
    <3> QED
      BY <3>1, LevelUnsettled DEF Unsettled
  <2>2. CASE ~(contact_export_count <= Len(ram))
    BY <1>9, <1>12, <2>2, LabelsAre DEF CommitRam
  <2> QED
    BY <2>1, <2>2
<1>13. CASE Drop
  <2>1. UNCHANGED <<ram, status>> /\ pc[Transfer] = "drop"
    BY <1>13 DEF Drop
  <2>2. /\ pc'[Scanner] = pc[Scanner] /\ pc'[Flusher] = pc[Flusher]
        /\ pc'[System] = pc[System] /\ pc'[Transfer] = "drop_done"
    BY <1>13, TransferGoes, LabelsAre DEF Drop
  <2>3. PICK value \in {"ok", "io", "nospc"} :
          Returns(Transfer, value) /\ (value = "ok" \/ flash' = flash)
    BY <1>13 DEF Drop
  <2>4. result'[Transfer] = value /\ result'[Flusher] = result[Flusher]
    BY <2>3, Returned, Threads
  <2>5. CASE value = "ok"
    BY <2>2, <2>4, <2>5, LevelUnsettled DEF Unsettled
  <2>6. CASE flash' = flash
    <3>1. Unsettled => Unsettled'
      BY <2>1, <2>2, <2>4 DEF Unsettled, status
    <3> QED
      BY <2>1, <2>2, <2>6, <3>1, LevelQuiet DEF status
  <2> QED
    BY <2>3, <2>5, <2>6
<1>14. CASE CommitEnd
  <2>1. CASE result[Transfer] = "ok"
    <3>1. pc'[Transfer] = "update"
      BY <1>14, <2>1, TransferGoes, LabelsAre DEF CommitEnd
    <3> QED
      BY <3>1, LevelUnsettled DEF Unsettled
  <2>2. CASE result[Transfer] # "ok"
    <3>1. UNCHANGED <<ram, flash, status>> /\ pc[Transfer] = "drop_done"
      BY <1>14 DEF CommitEnd
    <3>2. /\ pc'[Scanner] = pc[Scanner] /\ pc'[Flusher] = pc[Flusher]
          /\ pc'[System] = pc[System] /\ pc'[Transfer] = "idle"
      BY <1>14, <2>2, TransferGoes, LabelsAre DEF CommitEnd
    <3>3. result'[Flusher] = result[Flusher]
      BY <1>14, Returned, Threads DEF CommitEnd
    <3>4. Unsettled => Unsettled'
      BY <2>2, <3>1, <3>2, <3>3 DEF Unsettled, status
    <3> QED
      BY <3>1, <3>2, <3>4, LevelQuiet DEF status
  <2> QED
    BY <2>1, <2>2
<1>15. CASE UpdateDelayEnds
  BY <1>15, LevelUnsettled DEF UpdateDelayEnds, Unsettled
<1>16. CASE UpdateStart
  <2>1. CASE level_missed'
    BY <2>1, LevelUnsettled DEF Unsettled
  <2>2. CASE ~level_missed'
    <3>1. number_dataset' = Len(Stored) /\ flash' = flash /\ Goto(System, "ram")
      BY <1>16, <2>2 DEF UpdateStart
    <3>2. pc'[System] = "ram"
      BY <3>1, SystemGoes, LabelsAre
    <3> QED
      BY <3>1, <3>2 DEF LevelFollows, Stored
  <2> QED
    BY <2>1, <2>2
<1>17. CASE UpdateCount
  <2>1. /\ pc[System] = "ram"
        /\ UNCHANGED <<ram, flash, result, update_work, level_missed>>
        /\ number_dataset' = number_dataset + Len(ram) /\ uncounted' = 0
    BY <1>17 DEF UpdateCount
  <2>2. /\ pc'[Scanner] = pc[Scanner] /\ pc'[Flusher] = pc[Flusher]
        /\ pc'[Transfer] = pc[Transfer] /\ pc'[System] = "set"
    BY <1>17, SystemGoes, LabelsAre DEF UpdateCount
  <2>3. Unsettled => Unsettled'
    BY <2>1, <2>2 DEF Unsettled
  <2>4. ASSUME ~Unsettled
        PROVE  NotTooMany' /\ NotTooFew'
    <3>1. number_dataset = Len(Stored)
      BY <2>1, <2>4 DEF LevelFollows
    <3>2. Held' = Held /\ Held \in Nat
      BY <2>1, HeldTyped DEF Held, Stored
    <3>3. number_dataset' = Held'
      BY <2>1, <3>1, <3>2 DEF Held
    <3> QED
      BY <2>1, <3>2, <3>3 DEF NotTooMany, NotTooFew
  <2> QED
    BY <2>2, <2>3, <2>4 DEF LevelFollows
<1>18. CASE UpdateLevel \/ UpdateAdvertised
  <2>1. UNCHANGED <<ram, flash, result, update_work, level_missed, number_dataset, uncounted>>
    BY <1>18 DEF UpdateLevel, UpdateAdvertised, status
  <2>2. /\ pc'[Scanner] = pc[Scanner] /\ pc'[Flusher] = pc[Flusher]
        /\ pc'[Transfer] = pc[Transfer]
        /\ \/ pc[System] = "set" /\ pc'[System] = "adv"
           \/ pc[System] = "adv" /\ pc'[System] = "idle"
    BY <1>18, SystemGoes, LabelsAre DEF UpdateLevel, UpdateAdvertised
  <2>3. Unsettled => Unsettled'
    BY <2>1, <2>2 DEF Unsettled
  <2>4. NotTooMany' = NotTooMany /\ NotTooFew' = NotTooFew
    BY <2>1 DEF NotTooMany, NotTooFew, Held, Stored
  <2>5. LevelSet \/ pc[System] = "set" => LevelSet'
    <3>1. CASE UpdateLevel
      BY <2>1, <3>1 DEF UpdateLevel, LevelSet, Lowest, contact_status_from_count
    <3>2. CASE UpdateAdvertised
      BY <3>2 DEF UpdateAdvertised, status, LevelSet, Lowest, contact_status_from_count
    <3> QED
      BY <1>18, <3>1, <3>2
  <2> QED
    BY <2>2, <2>3, <2>4, <2>5 DEF LevelFollows
<1> QED
  BY <1>1, <1>2, <1>3, <1>4, <1>5, <1>6, <1>7, <1>8, <1>10, <1>11, <1>12,
     <1>13, <1>14, <1>15, <1>16, <1>17, <1>18 DEF Steps

-----------------------------------------------------------------------------
(* What the work queues hold while they are out of the lock.               *)

(* The steps that only ask for a flush or an update, or do an update.      *)
QuietSteps ==
  \/ \E t \in Askers : Check(t) \/ Submit(t) \/ UpdateTag(t)
  \/ ScheduleTagUpdateOnce
  \/ UpdateDelayEnds \/ UpdateStart \/ UpdateCount \/ UpdateLevel \/ UpdateAdvertised

LEMMA QuietAre ==
  ASSUME TypeOK, QuietSteps
  PROVE  /\ UNCHANGED <<ram, idx_read, flash, flush, export, sent, result, last,
                        delivered>>
         /\ \/ pc'[Flusher] = pc[Flusher]
            \/ pc[Flusher] \notin FlushPc /\ pc'[Flusher] \notin FlushPc
         /\ \/ pc'[Transfer] = pc[Transfer]
            \/ pc'[Transfer] \notin ExportPc
<1> USE DEF FlushPc, ExportPc
<1>1. UNCHANGED <<ram, idx_read, flash, flush, export, sent, result, last, delivered>>
  BY DEF QuietSteps, Check, Submit, UpdateTag, ScheduleTagUpdateOnce, UpdateDelayEnds,
     UpdateStart, UpdateCount, UpdateLevel, UpdateAdvertised
<1>2. ASSUME NEW t \in Askers, Check(t) \/ Submit(t) \/ UpdateTag(t)
      PROVE  /\ pc'[Flusher] = pc[Flusher]
                \/ (pc[Flusher] \notin FlushPc /\ pc'[Flusher] \notin FlushPc)
             /\ pc'[Transfer] = pc[Transfer] \/ pc'[Transfer] \notin ExportPc
  <2>1. /\ pc[t] \in CheckPc /\ pc'[t] \in {"idle"} \union CheckPc
        /\ \A u \in Thread : u # t => pc'[u] = pc[u]
    BY <1>2, CheckGoes, SubmitGoes, UpdateTagGoes DEF CheckPc
  <2> QED
    BY <2>1, Threads DEF CheckPc
<1>3. CASE ScheduleTagUpdateOnce
  BY <1>3, ScannerGoes, LabelsAre DEF ScheduleTagUpdateOnce
<1>4. CASE UpdateDelayEnds
  BY <1>4 DEF UpdateDelayEnds
<1>5. CASE UpdateStart
  BY <1>5, SystemGoes, LabelsAre DEF UpdateStart
<1>6. CASE UpdateCount \/ UpdateLevel \/ UpdateAdvertised
  BY <1>6, SystemGoes, LabelsAre DEF UpdateCount, UpdateLevel, UpdateAdvertised
<1> QED
  BY <1>1, <1>2, <1>3, <1>4, <1>5, <1>6 DEF QuietSteps

(* What a flush takes from the ring.                                       *)
LEMMA BlockTaken ==
  ASSUME TypeOK, FlushStart, FlushAllowed
  PROVE  /\ contact_flush_read_index' = idx_read
         /\ Len(contact_flush_block') \in 1 .. Len(ram)
         /\ Len(contact_flush_block') <= BlockContacts
         /\ \A i \in 1 .. Len(contact_flush_block') : contact_flush_block'[i] = ram[i]
<1> DEFINE n == Lowest(BlockContacts, Len(ram))
<1>1. /\ contact_flush_block' = SubSeq(ram, 1, n) /\ contact_flush_read_index' = idx_read
      /\ Len(ram) >= FlushThreshold
  BY DEF FlushStart, FlushAllowed
<1>2. ram \in Seq(Contact) /\ Len(ram) \in Nat /\ Len(ram) > 0
  BY <1>1, Typed, Sizes
<1>3. n \in 1 .. Len(ram) /\ n <= BlockContacts /\ n \in 0 .. Len(ram)
  <2>1. BlockContacts \in Nat /\ BlockContacts > 0
    BY Sizes
  <2>2. n \in Nat /\ n <= BlockContacts /\ n <= Len(ram) /\ n > 0
    BY <1>2, <2>1, Fitting
  <2> HIDE DEF n
  <2> QED
    BY <1>2, <2>2
<1> HIDE DEF n
<1>4. Len(SubSeq(ram, 1, n)) = n /\ \A i \in 1 .. n : SubSeq(ram, 1, n)[i] = ram[i]
  BY <1>2, <1>3, Beginning
<1> QED
  BY <1>1, <1>3, <1>4

LEMMA FlushHoldsKept ==
  ASSUME TypeOK, Phases, FlushHolds, Steps
  PROVE  FlushHolds'
<1>1. ASSUME UNCHANGED <<ram, idx_read, flush>>
      PROVE  FlushHolds'
  BY <1>1 DEF FlushHolds, flush, Size
<1>2. CASE QuietSteps
  BY <1>1, <1>2, QuietAre
<1>3. CASE EvaluateContact
  <2>1. SUFFICES ASSUME contact_flush_active PROVE FlushHolds'
    BY <1>3 DEF EvaluateContact, flush, FlushHolds
  <2>2. /\ idx_read' = idx_read /\ Len(ram') = Len(ram) + 1
        /\ \A i \in 1 .. Len(ram) : ram'[i] = ram[i]
    BY <1>3, <2>1, Evaluated
  <2>3. UNCHANGED flush
    BY <1>3 DEF EvaluateContact
  <2>4. /\ contact_flush_read_index = idx_read
        /\ Size \in 1 .. Len(ram) /\ Size <= BlockContacts
        /\ \A i \in 1 .. Size : contact_flush_block[i] = ram[i]
    BY <2>1 DEF FlushHolds
  <2>5. Len(ram) \in Nat /\ Size \in Nat /\ Size' = Size
    BY <2>3, Typed DEF flush, Size
  <2>6. Size \in 1 .. Len(ram') /\ \A i \in 1 .. Size : contact_flush_block[i] = ram'[i]
    BY <2>2, <2>4, <2>5
  <2> QED
    BY <2>2, <2>3, <2>4, <2>5, <2>6 DEF FlushHolds, flush
<1>4. CASE FlushStart
  <2>1. CASE FlushAllowed
    BY <1>4, <2>1, BlockTaken DEF FlushHolds, Size, FlushStart
  <2>2. CASE ~FlushAllowed
    BY <1>1, <1>4, <2>2 DEF FlushStart
  <2> QED
    BY <2>1, <2>2
<1>5. CASE FlushEnd
  BY <1>5 DEF FlushEnd, FlushHolds
<1>6. CASE CommitRam
  BY <1>6 DEF CommitRam, Phases, ExportPc, flush, FlushHolds
<1>7. CASE FlushAppend \/ Drop
  BY <1>1, <1>7 DEF FlushAppend, Drop
<1>8. CASE ExportBegin \/ ExportCount \/ ExportPeek \/ ExportFails
  BY <1>1, <1>8 DEF ExportBegin, ExportCount, ExportPeek, ExportFails
<1>9. CASE ExportMark \/ ExportRam \/ ExportAbort
  BY <1>1, <1>9 DEF ExportMark, ExportRam, ExportAbort
<1>10. CASE CommitFlash \/ CommitEnd
  BY <1>1, <1>10 DEF CommitFlash, CommitEnd
<1> QED
  BY <1>2, <1>3, <1>4, <1>5, <1>6, <1>7, <1>8, <1>9, <1>10 DEF Steps, QuietSteps

(* Once flash took the block, it holds it as its newest.                   *)
LEMMA BlockWrittenKept ==
  ASSUME TypeOK, Phases, FlushHolds, BlockWritten, Steps
  PROVE  BlockWritten'
<1> USE DEF BlockInBoth
<1>1. ASSUME UNCHANGED <<flash, flush, result>>,
             pc'[Flusher] = "append_done" => pc[Flusher] = "append_done"
      PROVE  BlockWritten'
  BY <1>1 DEF BlockWritten, flush, Size, Stored
<1>2. CASE QuietSteps
  BY <1>1, <1>2, QuietAre DEF FlushPc
<1>3. CASE EvaluateContact
  BY <1>1, <1>3, ScannerGoes, LabelsAre DEF EvaluateContact
<1>4. CASE FlushStart
  <2>1. CASE FlushAllowed
    <3>1. pc'[Flusher] = "append"
      BY <1>4, <2>1, FlusherGoes, LabelsAre DEF FlushStart
    <3> QED
      BY <3>1 DEF BlockWritten
  <2>2. CASE ~FlushAllowed
    BY <1>1, <1>4, <2>2 DEF FlushStart
  <2> QED
    BY <2>1, <2>2
<1>5. CASE FlushAppend
  <2>1. CASE result'[Flusher] = "ok"
    <3> DEFINE b == contact_flush_block
               k == Len(Stored) - Gone
    <3>1. flash' = Append(Kept, b) /\ b' = b
      <4>1. \A err \in {"io", "nospc"} : Returns(Flusher, err) => result'[Flusher] = err
        BY Returned, Threads
      <4> QED
        BY <1>5, <2>1, <4>1 DEF FlushAppend, Kept, flush
    <3>2. b \in Blocks
      BY <1>5, BlockToWrite DEF FlushAppend, FlushPc
    <3>3. /\ Len(Stored') = k + Len(b)
          /\ \A i \in 1 .. Len(b) : Stored'[k + i] = b[i]
      BY <3>1, <3>2, AppendLeaves DEF Stored
    <3>4. k \in Nat /\ Len(b) \in Nat
      BY KeptOnes, StoredTyped, Typed DEF Size
    <3> HIDE DEF k
    <3>5. \A i \in 1 .. Len(b) : k + i \in 1 .. Len(Stored') /\ Stored'[k + i] = b[i]
      BY <3>3, <3>4
    <3> QED
      BY <3>1, <3>5 DEF BlockWritten, Size
  <2>2. CASE result'[Flusher] # "ok"
    BY <2>2 DEF BlockWritten
  <2> QED
    BY <2>1, <2>2
<1>6. CASE FlushEnd
  <2>1. pc'[Flusher] # "append_done"
    BY <1>6, FlusherGoes, LabelsAre DEF FlushEnd
  <2> QED
    BY <2>1 DEF BlockWritten
<1>7. CASE Drop
  <2>1. pc'[Flusher] = pc[Flusher]
    BY <1>7, TransferGoes, LabelsAre DEF Drop
  <2>2. pc[Flusher] # "append_done"
    BY <1>7 DEF Drop, Phases, FlushPc, ExportPc
  <2> QED
    BY <2>1, <2>2 DEF BlockWritten
<1>8. CASE CommitEnd
  <2>1. pc'[Flusher] = pc[Flusher]
    BY <1>8, TransferGoes, LabelsAre DEF CommitEnd
  <2>2. pc[Flusher] # "append_done"
    BY <1>8 DEF CommitEnd, Phases, FlushPc, ExportPc
  <2> QED
    BY <2>1, <2>2 DEF BlockWritten
<1>9. CASE ExportBegin \/ ExportCount \/ ExportPeek \/ ExportFails
  BY <1>1, <1>9, TransferGoes, LabelsAre DEF ExportBegin, ExportCount, ExportPeek, ExportFails
<1>10. CASE ExportMark \/ ExportRam \/ ExportAbort
  BY <1>1, <1>10, TransferGoes, LabelsAre DEF ExportMark, ExportRam, ExportAbort
<1>11. CASE CommitRam \/ CommitFlash
  BY <1>1, <1>11, TransferGoes, LabelsAre DEF CommitRam, CommitFlash
<1> QED
  BY <1>2, <1>3, <1>4, <1>5, <1>6, <1>7, <1>8, <1>9, <1>10, <1>11 DEF Steps, QuietSteps

(* What is exported stays the oldest of where it was taken from.           *)
LEMMA ExportHoldsKept ==
  ASSUME TypeOK, Phases, ExportHolds, Steps
  PROVE  ExportHolds'
<1> USE DEF ExportsFlash, ExportsRam
<1>1. ASSUME UNCHANGED <<ram, flash, export, sent>>, pc'[Transfer] = pc[Transfer]
      PROVE  ExportHolds'
  BY <1>1 DEF ExportHolds, FlashSent, RamSent, export
<1>2. ASSUME pc'[Transfer] \notin ExportPc
      PROVE  ExportHolds'
  BY <1>2 DEF ExportHolds, ExportPc
<1>3. CASE QuietSteps
  BY <1>1, <1>2, <1>3, QuietAre
<1>4. CASE EvaluateContact
  <2>1. pc'[Transfer] = pc[Transfer] /\ UNCHANGED <<flash, export, sent>>
    BY <1>4, ScannerGoes, LabelsAre DEF EvaluateContact
  <2>2. CASE pc[Transfer] \notin ExportPc
    BY <1>2, <2>1, <2>2
  <2>3. CASE pc[Transfer] \in ExportPc
    <3>1. /\ Len(ram') = Len(ram) + 1 /\ \A i \in 1 .. Len(ram) : ram'[i] = ram[i]
      BY <1>4, <2>3, Evaluated DEF Phases
    <3>2. ExportsRam => RamSent'
      <4>1. SUFFICES ASSUME RamSent PROVE RamSent'
        BY DEF ExportHolds
      <4>2. Len(ram) \in Nat /\ Len(sent) \in Nat /\ flash' = flash /\ sent' = sent
        BY <2>1, Typed
      <4> QED
        BY <3>1, <4>1, <4>2 DEF RamSent
    <3> QED
      BY <2>1, <3>2 DEF ExportHolds, FlashSent, export
  <2> QED
    BY <2>2, <2>3
<1>5. CASE FlushStart
  <2>1. UNCHANGED <<ram, flash, export, sent>>
    BY <1>5 DEF FlushStart
  <2>2. pc'[Transfer] = pc[Transfer]
    BY <1>5, FlusherGoes, LabelsAre DEF FlushStart
  <2> QED
    BY <1>1, <2>1, <2>2
<1>6. CASE FlushAppend \/ FlushEnd
  <2>1. pc'[Transfer] = pc[Transfer]
    BY <1>6, FlusherGoes, LabelsAre DEF FlushAppend, FlushEnd
  <2>2. pc[Transfer] \notin ExportPc
    BY <1>6 DEF FlushAppend, FlushEnd, Phases, FlushPc
  <2> QED
    BY <1>2, <2>1, <2>2
<1>7. CASE ExportBegin
  BY <1>7, TransferGoes, LabelsAre DEF ExportBegin, ExportHolds
<1>8. CASE ExportCount
  BY <1>8, TransferGoes, LabelsAre DEF ExportCount, ExportHolds
<1>9. CASE ExportPeek
  <2>1. pc'[Transfer] = "mark" /\ flash' = flash
    BY <1>9, TransferGoes, LabelsAre DEF ExportPeek
  <2>2. FlashSent'
    BY <1>9, <2>1, Peeked DEF FlashSent
  <2> QED
    BY <2>1, <2>2 DEF ExportHolds
<1>10. CASE ExportFails \/ ExportAbort
  BY <1>2, <1>10, TransferGoes, LabelsAre DEF ExportFails, ExportAbort, ExportPc
<1>11. CASE ExportMark
  <2>1. CASE StillReserved
    <3>1. /\ pc'[Transfer] = "hold" /\ UNCHANGED <<flash, sent>>
          /\ contact_export_source' = "NVM" /\ contact_export_count' = Len(sent)
      BY <1>11, <2>1, TransferGoes, LabelsAre DEF ExportMark, StillReserved
    <3>2. FlashSent
      BY <1>11, <2>1 DEF ExportMark, StillReserved, ExportHolds
    <3> QED
      BY <3>1, <3>2 DEF ExportHolds, FlashSent
  <2>2. CASE ~StillReserved
    BY <1>2, <1>11, <2>2, TransferGoes, LabelsAre DEF ExportMark, ExportPc
  <2> QED
    BY <2>1, <2>2
<1>12. CASE ExportRam
  <2>1. CASE StillReserved /\ ram # <<>>
    <3>1. /\ pc'[Transfer] = "hold" /\ UNCHANGED <<flash, ram>>
          /\ contact_export_source' = "RAM" /\ flash = <<>>
      BY <1>12, <2>1, TransferGoes, LabelsAre DEF ExportRam, ExportHolds
    <3>2. RamSent' /\ contact_export_count' = Len(sent')
      BY <1>12, <2>1, <3>1, RamCopied DEF RamSent
    <3> QED
      BY <3>1, <3>2 DEF ExportHolds
  <2>2. CASE ~(StillReserved /\ ram # <<>>)
    BY <1>2, <1>12, <2>2, TransferGoes, LabelsAre DEF ExportRam, ExportPc
  <2> QED
    BY <2>1, <2>2
<1>13. CASE CommitRam
  BY <1>2, <1>13, TransferGoes, LabelsAre DEF CommitRam, ExportPc
<1>14. CASE CommitFlash
  BY <1>14, TransferGoes, LabelsAre DEF CommitFlash, ExportHolds, FlashSent, export
<1>15. CASE Drop
  BY <1>15, TransferGoes, LabelsAre DEF Drop, ExportHolds
<1>16. CASE CommitEnd
  BY <1>2, <1>16, TransferGoes, LabelsAre DEF CommitEnd, ExportPc
<1> QED
  BY <1>3, <1>4, <1>5, <1>6, <1>7, <1>8, <1>9, <1>10, <1>11, <1>12, <1>13, <1>14,
     <1>15, <1>16 DEF Steps, QuietSteps

-----------------------------------------------------------------------------
(* The log stays in order.                                                 *)

(* What is left of a sequence in order, its oldest taken away.             *)
LEMMA RestInOrder ==
  ASSUME NEW s \in Seq(Contact), NEW q \in Seq(Contact), NEW n \in 0 .. Len(s),
         Len(q) = Len(s) - n, \A i \in 1 .. Len(s) - n : q[i] = s[n + i]
  PROVE  /\ Sorted(s) => Sorted(q)
         /\ \A i \in 1 .. Len(q) : n + i \in n + 1 .. Len(s) /\ q[i] = s[n + i]
<1>1. Len(s) \in Nat /\ n \in Nat /\ Len(q) \in Nat
  BY Indexed
<1>2. \A i \in 1 .. Len(q) : n + i \in n + 1 .. Len(s) /\ q[i] = s[n + i]
  BY <1>1
<1>3. ASSUME Sorted(s), NEW i \in 1 .. Len(q), NEW j \in 1 .. Len(q), i < j
      PROVE  q[i] < q[j]
  <2>1. n + i \in 1 .. Len(s) /\ n + j \in 1 .. Len(s) /\ n + i < n + j
    BY <1>1, <1>3
  <2> QED
    BY <1>2, <1>3, <2>1 DEF Sorted
<1> QED
  BY <1>2, <1>3 DEF Sorted

(* The oldest n of flash and the oldest m of the ring leave, those in both *)
(* places among the latter.                                                *)
LEMMA OrderShorter ==
  ASSUME TypeOK, TypeOK', Order, last' = last,
         NEW n \in 0 .. Len(Stored), NEW m \in 0 .. Len(ram),
         Len(Stored') = Len(Stored) - n,
         \A i \in 1 .. Len(Stored) - n : Stored'[i] = Stored[n + i],
         Len(ram') = Len(ram) - m,
         \A i \in 1 .. Len(ram) - m : ram'[i] = ram[m + i],
         InBoth <= m + InBoth', delivered' <= last,
         \A i \in n + 1 .. Len(Stored) : delivered' < Stored[i],
         \A i \in m + 1 .. Len(ram) : delivered' < ram[i]
  PROVE  Order'
<1> DEFINE s == Stored
           q == Stored'
           u == ram'
           d == delivered'
           k == InBoth
           l == InBoth'
<1>1. /\ s \in Seq(Contact) /\ ram \in Seq(Contact) /\ last \in Nat
      /\ Len(s) \in Nat /\ Len(ram) \in Nat /\ Size \in Nat
  BY Typed
<1>2. q \in Seq(Contact) /\ u \in Seq(Contact) /\ d \in Nat /\ Size' \in Nat
  <2>1. /\ u \in Seq(Contact) /\ contact_flush_block' \in Seq(Contact)
        /\ flash' \in Seq(Seq(Contact)) /\ d \in Nat
    BY Sizes DEF TypeOK
  <2>2. q \in Seq(Contact)
    BY <2>1, FlattenIsSeq DEF Stored
  <2> QED
    BY <2>1, <2>2, Indexed DEF Size
<1>3. k \in Nat /\ l \in Nat
  BY <1>1, <1>2 DEF InBoth
<1>4. /\ n \in 0 .. Len(s) /\ m \in 0 .. Len(ram)
      /\ Len(q) = Len(s) - n /\ \A i \in 1 .. Len(s) - n : q[i] = s[n + i]
      /\ Len(u) = Len(ram) - m /\ \A i \in 1 .. Len(ram) - m : u[i] = ram[m + i]
      /\ k <= m + l /\ d <= last
      /\ \A i \in n + 1 .. Len(s) : d < s[i]
      /\ \A i \in m + 1 .. Len(ram) : d < ram[i]
  OBVIOUS
<1>5. /\ Sorted(s) /\ Sorted(ram)
      /\ \A i \in 1 .. Len(s) : s[i] <= last
      /\ \A i \in 1 .. Len(ram) : ram[i] <= last
      /\ \A i \in 1 .. Len(s) : \A j \in 1 .. Len(ram) : j > k => s[i] < ram[j]
  BY DEF Order, Within
<1> HIDE DEF s, q, u, d, k, l
<1>6. Sorted(q) /\ \A i \in 1 .. Len(q) : n + i \in n + 1 .. Len(s) /\ q[i] = s[n + i]
  BY <1>1, <1>2, <1>4, <1>5, RestInOrder
<1>7. Sorted(u) /\ \A i \in 1 .. Len(u) : m + i \in m + 1 .. Len(ram) /\ u[i] = ram[m + i]
  BY <1>1, <1>2, <1>4, <1>5, RestInOrder
<1>8. ASSUME NEW i \in 1 .. Len(q)
      PROVE  d < q[i] /\ q[i] <= last
  <2>1. n + i \in 1 .. Len(s)
    BY <1>1, <1>6
  <2> QED
    BY <1>4, <1>5, <1>6, <2>1
<1>9. ASSUME NEW i \in 1 .. Len(u)
      PROVE  d < u[i] /\ u[i] <= last
  <2>1. m + i \in 1 .. Len(ram)
    BY <1>1, <1>7
  <2> QED
    BY <1>4, <1>5, <1>7, <2>1
<1>10. ASSUME NEW i \in 1 .. Len(q), NEW j \in 1 .. Len(u), j > l
       PROVE  q[i] < u[j]
  <2>1. n + i \in 1 .. Len(s) /\ m + j \in 1 .. Len(ram)
    BY <1>1, <1>6, <1>7
  <2>2. m + j > k
    BY <1>1, <1>3, <1>4, <1>10
  <2> QED
    BY <1>5, <1>6, <1>7, <2>1, <2>2
<1> QED
  BY <1>4, <1>6, <1>7, <1>8, <1>9, <1>10 DEF Order, Sorted, Within, q, u, d, l

(* Nothing moves.                                                          *)
LEMMA OrderStays ==
  ASSUME Order, UNCHANGED <<ram, flash, last, delivered>>, InBoth' = InBoth
  PROVE  Order'
BY DEF Order, Sorted, Within, Stored

LEMMA InBothStays ==
  ASSUME UNCHANGED <<flush, result>>,
         pc'[Flusher] = "append_done" <=> pc[Flusher] = "append_done"
  PROVE  InBoth' = InBoth
BY DEF InBoth, BlockInBoth, flush, Size

(* A contact is stored.                                                    *)
LEMMA StoredInOrder ==
  ASSUME TypeOK, Phases, Order, EvaluateContact
  PROVE  Order'
<1> DEFINE u == ram'
           l == Len(ram')
           k == InBoth
           s == Stored
<1>1. /\ flash' = flash /\ delivered' = delivered
      /\ UNCHANGED <<flush, result>> /\ pc'[Flusher] = pc[Flusher]
  BY ScannerGoes, LabelsAre DEF EvaluateContact
<1>2. InBoth' = k /\ Stored' = s
  BY <1>1, InBothStays DEF Stored
<1>3. /\ last \in Nat /\ delivered \in Nat /\ Len(ram) \in Nat /\ Len(s) \in Nat
      /\ Size \in Nat /\ k \in Nat
      /\ \A i \in 1 .. Len(ram) : ram[i] \in Nat
      /\ \A i \in 1 .. Len(s) : s[i] \in Nat
  BY Typed, Numbers DEF InBoth
<1>4. /\ delivered <= last /\ Sorted(ram) /\ Sorted(s)
      /\ \A i \in 1 .. Len(ram) : delivered < ram[i] /\ ram[i] <= last
      /\ \A i \in 1 .. Len(s) : delivered < s[i] /\ s[i] <= last
      /\ \A i \in 1 .. Len(s) : \A j \in 1 .. Len(ram) : j > k => s[i] < ram[j]
  BY DEF Order, Within
<1>5. /\ last' = last + 1 /\ l \in Nat /\ u[l] = last + 1
      /\ \/ l = Len(ram) + 1 /\ \A i \in 1 .. Len(ram) : u[i] = ram[i]
         \/ /\ l = Len(ram) /\ ~contact_flush_active
            /\ \A i \in 1 .. Len(ram) - 1 : u[i] = ram[i + 1]
  BY Evaluated
<1>6. ~contact_flush_active => k = 0
  BY DEF Phases, FlushPc, InBoth, BlockInBoth
<1> HIDE DEF u, l, k, s
<1>7. PICK e \in {0, 1} : /\ l = Len(ram) + 1 - e /\ (e = 1 => k = 0)
                          /\ \A i \in 1 .. l - 1 : u[i] = ram[i + e]
  <2>1. CASE l = Len(ram) + 1 /\ \A i \in 1 .. Len(ram) : u[i] = ram[i]
    <3>1. l = Len(ram) + 1 - 0 /\ \A i \in 1 .. l - 1 : i + 0 = i /\ u[i] = ram[i]
      BY <1>3, <2>1
    <3> QED
      BY <3>1
  <2>2. CASE l = Len(ram) /\ ~contact_flush_active
             /\ \A i \in 1 .. Len(ram) - 1 : u[i] = ram[i + 1]
    <3>1. l = Len(ram) + 1 - 1 /\ k = 0
      BY <1>3, <1>6, <2>2
    <3> QED
      BY <2>2, <3>1
  <2> QED
    BY <1>5, <2>1, <2>2
<1>8. ASSUME NEW i \in 1 .. l, i # l
      PROVE  i + e \in 1 .. Len(ram) /\ u[i] = ram[i + e]
  <2>1. i \in 1 .. l - 1
    BY <1>5, <1>8
  <2>2. i + e \in 1 .. Len(ram)
    BY <1>3, <1>5, <1>7, <2>1
  <2> QED
    BY <1>7, <2>1, <2>2
<1>9. ASSUME NEW i \in 1 .. l
      PROVE  delivered < u[i] /\ u[i] <= last + 1
  <2>1. CASE i = l
    BY <1>3, <1>4, <1>5, <2>1
  <2>2. CASE i # l
    <3>1. PICK j \in 1 .. Len(ram) : u[i] = ram[j]
      BY <1>8, <2>2
    <3> QED
      BY <1>3, <1>4, <3>1
  <2> QED
    BY <2>1, <2>2
<1>10. ASSUME NEW i \in 1 .. l, NEW j \in 1 .. l, i < j
       PROVE  u[i] < u[j]
  <2>1. i # l
    BY <1>5, <1>10
  <2>2. i + e \in 1 .. Len(ram) /\ u[i] = ram[i + e]
    BY <1>8, <2>1
  <2>3. CASE j = l
    BY <1>3, <1>4, <1>5, <2>2, <2>3
  <2>4. CASE j # l
    <3>1. j + e \in 1 .. Len(ram) /\ u[j] = ram[j + e]
      BY <1>8, <2>4
    <3>2. i + e < j + e
      BY <1>5, <1>7, <1>10
    <3> QED
      BY <1>4, <2>2, <3>1, <3>2 DEF Sorted
  <2> QED
    BY <2>3, <2>4
<1>11. ASSUME NEW i \in 1 .. Len(s), NEW j \in 1 .. l, j > k
       PROVE  s[i] < u[j]
  <2>1. CASE j = l
    BY <1>3, <1>4, <1>5, <2>1
  <2>2. CASE j # l
    <3>1. j + e \in 1 .. Len(ram) /\ u[j] = ram[j + e]
      BY <1>8, <2>2
    <3>2. j + e > k
      BY <1>3, <1>5, <1>7, <1>11
    <3> QED
      BY <1>4, <3>1, <3>2
  <2> QED
    BY <2>1, <2>2
<1>12. /\ delivered' <= last' /\ Sorted(ram)' /\ Within(ram)'
  BY <1>1, <1>3, <1>4, <1>5, <1>9, <1>10 DEF Sorted, Within, u, l
<1>13. Sorted(Stored)' /\ Within(Stored)'
  <2>1. \A i \in 1 .. Len(s) : delivered' < s[i] /\ s[i] <= last'
    BY <1>1, <1>3, <1>4, <1>5
  <2> QED
    BY <1>2, <1>4, <2>1 DEF Sorted, Within
<1> QED
  BY <1>2, <1>11, <1>12, <1>13 DEF Order, u, l

(* A block is written: what flash keeps, then the block.                   *)
LEMMA WrittenInOrder ==
  ASSUME TypeOK, Phases, FlushHolds, Order, FlushAppend, result'[Flusher] = "ok",
         flash' = Append(Kept, contact_flush_block)
  PROVE  Order'
<1> DEFINE b == contact_flush_block
           s == Stored
           q == Stored'
           g == Gone
           n == Len(Stored) - Gone
<1>1. /\ UNCHANGED <<ram, last, delivered>> /\ b' = b
      /\ pc[Flusher] = "append" /\ pc'[Flusher] = "append_done"
  BY FlusherGoes, LabelsAre DEF FlushAppend, flush
<1>2. /\ InBoth = 0 /\ InBoth' = Len(b)
  BY <1>1 DEF InBoth, BlockInBoth, Size
<1>3. /\ b \in Blocks /\ Len(b) \in 1 .. Len(ram)
      /\ \A i \in 1 .. Len(b) : b[i] = ram[i]
  BY <1>1, BlockToWrite DEF FlushPc, Size
<1>4. /\ Len(q) = n + Len(b)
      /\ \A i \in 1 .. n : q[i] = s[g + i]
      /\ \A i \in 1 .. Len(b) : q[n + i] = b[i]
  BY <1>3, AppendLeaves DEF Stored
<1>5. /\ Len(s) \in Nat /\ g \in 0 .. Len(s) /\ n \in Nat /\ n = Len(s) - g
      /\ Len(b) \in Nat /\ Len(ram) \in Nat /\ last \in Nat /\ delivered \in Nat
      /\ \A i \in 1 .. Len(ram) : ram[i] \in Nat
      /\ \A i \in 1 .. Len(s) : s[i] \in Nat
  BY KeptOnes, Typed, Numbers DEF Size
<1>6. /\ delivered <= last /\ Sorted(ram) /\ Sorted(s) /\ Within(ram)
      /\ \A i \in 1 .. Len(ram) : delivered < ram[i] /\ ram[i] <= last
      /\ \A i \in 1 .. Len(s) : delivered < s[i] /\ s[i] <= last
      /\ \A i \in 1 .. Len(s) : \A j \in 1 .. Len(ram) : s[i] < ram[j]
  <2>1. \A j \in 1 .. Len(ram) : j > 0
    BY <1>5
  <2> QED
    BY <1>2, <2>1 DEF Order, Within
<1> HIDE DEF b, s, q, g, n
<1>7. ASSUME NEW i \in 1 .. Len(q)
      PROVE  \/ i <= n /\ g + i \in 1 .. Len(s) /\ q[i] = s[g + i]
             \/ i > n /\ i - n \in 1 .. Len(b) /\ i - n \in 1 .. Len(ram)
                /\ q[i] = ram[i - n]
  <2>1. CASE i <= n
    BY <1>4, <1>5, <2>1
  <2>2. CASE i > n
    <3>1. i - n \in 1 .. Len(b) /\ n + (i - n) = i
      BY <1>4, <1>5, <2>2
    <3>2. i - n \in 1 .. Len(ram)
      BY <1>3, <1>5, <3>1
    <3>3. q[n + (i - n)] = b[i - n] /\ b[i - n] = ram[i - n]
      BY <1>3, <1>4, <3>1
    <3> QED
      BY <2>2, <3>1, <3>2, <3>3
  <2> QED
    BY <1>4, <1>5, <2>1, <2>2
<1>8. ASSUME NEW i \in 1 .. Len(q)
      PROVE  delivered < q[i] /\ q[i] <= last
  BY <1>6, <1>7
<1>9. ASSUME NEW i \in 1 .. Len(q), NEW j \in 1 .. Len(q), i < j
      PROVE  q[i] < q[j]
  <2>1. CASE i <= n /\ j <= n
    <3>1. g + i \in 1 .. Len(s) /\ g + j \in 1 .. Len(s) /\ q[i] = s[g + i] /\ q[j] = s[g + j]
      BY <1>4, <1>5, <1>7, <2>1
    <3>2. g + i < g + j
      BY <1>5, <1>9
    <3> QED
      BY <1>6, <3>1, <3>2 DEF Sorted
  <2>2. CASE i <= n /\ j > n
    <3>1. g + i \in 1 .. Len(s) /\ q[i] = s[g + i]
      BY <1>4, <1>5, <1>7, <2>2
    <3>2. j - n \in 1 .. Len(ram) /\ q[j] = ram[j - n]
      BY <1>4, <1>5, <1>7, <2>2
    <3> QED
      BY <1>6, <3>1, <3>2
  <2>3. CASE i > n /\ j > n
    <3>1. /\ i - n \in 1 .. Len(ram) /\ q[i] = ram[i - n]
          /\ j - n \in 1 .. Len(ram) /\ q[j] = ram[j - n]
      BY <1>4, <1>5, <1>7, <2>3
    <3>2. i - n < j - n
      BY <1>4, <1>5, <1>9
    <3> QED
      BY <1>6, <3>1, <3>2 DEF Sorted
  <2> QED
    BY <1>4, <1>5, <1>9, <2>1, <2>2, <2>3
<1>10. ASSUME NEW i \in 1 .. Len(q), NEW j \in 1 .. Len(ram), j > Len(b)
       PROVE  q[i] < ram[j]
  <2>1. CASE i <= n
    BY <1>4, <1>5, <1>6, <1>7, <2>1
  <2>2. CASE i > n
    <3>1. i - n \in 1 .. Len(b) /\ i - n \in 1 .. Len(ram) /\ q[i] = ram[i - n]
      BY <1>4, <1>5, <1>7, <2>2
    <3>2. i - n < j
      BY <1>5, <1>10, <3>1
    <3> QED
      BY <1>6, <3>1, <3>2 DEF Sorted
  <2> QED
    BY <1>4, <1>5, <2>1, <2>2
<1>11. Sorted(Stored)' /\ Within(Stored)'
  BY <1>1, <1>8, <1>9 DEF Sorted, Within, q
<1>12. Sorted(ram)' /\ Within(ram)' /\ delivered' <= last'
  BY <1>1, <1>6 DEF Sorted, Within
<1> QED
  BY <1>1, <1>2, <1>10, <1>11, <1>12 DEF Order, q

(* A commit takes what was sent, the oldest there is, and all that was     *)
(* delivered is behind it.                                                 *)
LEMMA TakenFromRam ==
  ASSUME TypeOK, TypeOK', Phases, ExportHolds, Order, CommitRam
  PROVE  Order'
<1>1. UNCHANGED <<flash, flush, result, last>> /\ pc'[Flusher] = pc[Flusher]
  BY TransferGoes, LabelsAre DEF CommitRam
<1>2. InBoth' = InBoth /\ Stored' = Stored
  BY <1>1, InBothStays DEF Stored
<1>3. RamSent /\ contact_export_count = Len(sent)
  BY DEF CommitRam, ExportHolds, ExportsRam
<1> DEFINE m == Len(sent)
<1>4. m \in 1 .. Len(ram) /\ m \in 0 .. Len(ram) /\ Len(ram) \in Nat /\ m \in Nat
  BY <1>3, Typed DEF RamSent
<1>5. /\ Advance(m) /\ delivered' = Last(sent)
  BY <1>3, <1>4 DEF CommitRam
<1>6. /\ Len(ram') = Len(ram) - m
      /\ \A i \in 1 .. Len(ram) - m : ram'[i] = ram[m + i]
  BY <1>4, <1>5, Advanced
<1>7. delivered' = ram[m]
  BY <1>3, <1>4, <1>5, LastSent DEF RamSent
<1>8. flash = <<>> /\ Len(Stored) = 0
  BY <1>3, FlattenEmpty, EmptySeq DEF RamSent, Stored
<1> HIDE DEF m
<1>9. /\ Sorted(ram) /\ Within(ram) /\ \A i \in 1 .. Len(ram) : ram[i] \in Nat
  BY Typed, Numbers DEF Order
<1>10. delivered' <= last
  BY <1>4, <1>7, <1>9 DEF Within
<1>11. ASSUME NEW i \in m + 1 .. Len(ram)
       PROVE  delivered' < ram[i]
  <2>1. i \in 1 .. Len(ram) /\ m < i
    BY <1>4
  <2> QED
    BY <1>4, <1>7, <1>9, <2>1 DEF Sorted
<1>12. InBoth \in Nat /\ InBoth <= m + InBoth'
  <2>1. InBoth \in Nat
    BY Typed DEF InBoth
  <2> QED
    BY <1>2, <1>4, <2>1
<1>13. /\ 0 \in 0 .. Len(Stored) /\ Len(Stored') = Len(Stored) - 0
       /\ \A i \in 1 .. Len(Stored) - 0 : Stored'[i] = Stored[0 + i]
       /\ \A i \in 0 + 1 .. Len(Stored) : delivered' < Stored[i]
  <2>1. \A i \in 1 .. 0 : FALSE
    OBVIOUS
  <2> QED
    BY <1>2, <1>8, <2>1
<1> QED
  BY <1>1, <1>4, <1>6, <1>10, <1>11, <1>12, <1>13, OrderShorter

LEMMA TakenFromFlash ==
  ASSUME TypeOK, TypeOK', Phases, ExportHolds, Order, Drop,
         flash' = WithoutOldest(contact_export_count), delivered' = Last(sent)
  PROVE  Order'
<1>1. UNCHANGED <<ram, flush, last>>
  BY DEF Drop
<1>2. InBoth = 0 /\ InBoth' = 0
  <2>1. pc'[Flusher] = pc[Flusher]
    BY TransferGoes, LabelsAre DEF Drop
  <2>2. pc[Flusher] # "append_done"
    BY DEF Drop, Phases, FlushPc, ExportPc
  <2> QED
    BY <2>1, <2>2 DEF InBoth, BlockInBoth
<1>3. FlashSent /\ contact_export_count = Len(sent)
  BY DEF Drop, Phases, ExportHolds, ExportsFlash
<1> DEFINE n == Len(sent)
           h == Head(flash)
           s == Stored
<1>4. /\ flash # <<>> /\ n \in 1 .. Len(h) /\ \A i \in 1 .. n : sent[i] = h[i]
  BY <1>3 DEF FlashSent
<1>5. /\ Len(s) \in Nat /\ n \in Nat /\ Len(ram) \in Nat
      /\ \A i \in 1 .. Len(s) : s[i] \in Nat
      /\ \A i \in 1 .. Len(ram) : ram[i] \in Nat
  BY Typed, Numbers
<1>6. Len(h) \in 1 .. Len(s) /\ \A i \in 1 .. Len(h) : s[i] = h[i]
  BY <1>4, OldestBlock
<1>7. /\ Len(Stored') = Len(s) - n
      /\ \A i \in 1 .. Len(s) - n : Stored'[i] = s[n + i]
  BY <1>3, <1>4, DropLeaves DEF Stored
<1>8. delivered' = sent[n]
  BY <1>4, <1>5, LastSent
<1>9. Sorted(s) /\ Within(s) /\ \A i \in 1 .. Len(s) : \A j \in 1 .. Len(ram) : s[i] < ram[j]
  <2>1. \A j \in 1 .. Len(ram) : j > 0
    BY <1>5
  <2> QED
    BY <1>2, <2>1 DEF Order
<1>10. last \in Nat
  BY Typed
<1> HIDE DEF n, h, s
<1>11. n \in 1 .. Len(s) /\ n \in 0 .. Len(s) /\ n \in 1 .. Len(h)
  BY <1>4, <1>5, <1>6
<1>12. delivered' = s[n]
  BY <1>4, <1>5, <1>6, <1>8, <1>11
<1>13. delivered' <= last
  BY <1>9, <1>11, <1>12 DEF Within
<1>14. ASSUME NEW i \in n + 1 .. Len(s)
       PROVE  delivered' < s[i]
  <2>1. i \in 1 .. Len(s) /\ n < i
    BY <1>5
  <2> QED
    BY <1>9, <1>11, <1>12, <2>1 DEF Sorted
<1>15. /\ 0 \in 0 .. Len(ram) /\ Len(ram') = Len(ram) - 0
       /\ \A i \in 1 .. Len(ram) - 0 : ram'[i] = ram[0 + i]
       /\ \A i \in 0 + 1 .. Len(ram) : delivered' < ram[i]
  BY <1>1, <1>5, <1>9, <1>11, <1>12
<1>16. InBoth <= 0 + InBoth'
  BY <1>2
<1> QED
  BY <1>1, <1>7, <1>11, <1>13, <1>14, <1>15, <1>16, OrderShorter DEF s

(* A full store may lose its oldest block and fail all the same.           *)
LEMMA LostInOrder ==
  ASSUME TypeOK, TypeOK', Phases, Order, FlushAppend, flash' = Kept
  PROVE  Order'
<1>1. UNCHANGED <<ram, last, delivered>> /\ pc[Flusher] = "append"
  BY DEF FlushAppend
<1>2. InBoth = 0
  BY <1>1 DEF InBoth, BlockInBoth
<1>3. InBoth' \in Nat
  <2>1. contact_flush_block' \in Seq(Contact)
    BY DEF TypeOK
  <2> QED
    BY <2>1, Indexed DEF InBoth, Size
<1>4. /\ Gone \in 0 .. Len(Stored)
      /\ Len(Stored') = Len(Stored) - Gone
      /\ \A i \in 1 .. Len(Stored) - Gone : Stored'[i] = Stored[Gone + i]
  BY KeptOnes DEF Stored
<1>5. Len(ram) \in Nat /\ Len(Stored) \in Nat
  BY Typed
<1>6. /\ 0 \in 0 .. Len(ram) /\ Len(ram') = Len(ram) - 0
      /\ \A i \in 1 .. Len(ram) - 0 : ram'[i] = ram[0 + i]
  BY <1>1, <1>5
<1>7. /\ delivered' <= last
      /\ \A i \in 1 .. Len(Stored) : delivered' < Stored[i]
      /\ \A i \in 1 .. Len(ram) : delivered' < ram[i]
  BY <1>1 DEF Order, Within
<1>8. /\ \A i \in Gone + 1 .. Len(Stored) : delivered' < Stored[i]
      /\ \A i \in 0 + 1 .. Len(ram) : delivered' < ram[i]
  <2>1. \A i \in Gone + 1 .. Len(Stored) : i \in 1 .. Len(Stored)
    BY <1>4, <1>5
  <2>2. \A i \in 0 + 1 .. Len(ram) : i \in 1 .. Len(ram)
    BY <1>5
  <2> QED
    BY <1>7, <2>1, <2>2
<1>9. InBoth <= 0 + InBoth'
  <2>1. \A l \in Nat : 0 <= 0 + l
    OBVIOUS
  <2> QED
    BY <1>2, <1>3, <2>1
<1> QED
  BY <1>1, <1>4, <1>6, <1>7, <1>8, <1>9, OrderShorter

(* A block that flash took leaves the ring; flash keeps it.                *)
LEMMA FlushedInOrder ==
  ASSUME TypeOK, TypeOK', Phases, FlushHolds, Order, FlushEnd
  PROVE  Order'
<1>1. /\ UNCHANGED <<flash, last, delivered>> /\ pc[Flusher] = "append_done"
      /\ pc'[Flusher] # "append_done"
  BY FlusherGoes, LabelsAre DEF FlushEnd
<1>2. InBoth' = 0
  BY <1>1 DEF InBoth, BlockInBoth
<1>3. Stored' = Stored
  BY <1>1 DEF Stored
<1>4. Size \in 1 .. Len(ram) /\ contact_flush_read_index = idx_read
  BY <1>1, BlockToWrite DEF FlushPc
<1>5. Size \in Nat /\ Len(ram) \in Nat /\ Len(Stored) \in Nat
  BY Typed
<1>6. CASE result[Flusher] = "ok"
  <2>1. Advance(Size) /\ InBoth = Size
    BY <1>1, <1>4, <1>5, <1>6 DEF FlushEnd, BlockStored, Size, InBoth, BlockInBoth
  <2>2. Size \in 0 .. Len(ram)
    BY <1>4, <1>5
  <2>3. /\ Len(ram') = Len(ram) - Size
        /\ \A i \in 1 .. Len(ram) - Size : ram'[i] = ram[Size + i]
    BY <2>1, <2>2, Advanced
  <2>4. /\ 0 \in 0 .. Len(Stored) /\ Len(Stored') = Len(Stored) - 0
        /\ \A i \in 1 .. Len(Stored) - 0 : Stored'[i] = Stored[0 + i]
    BY <1>3, <1>5
  <2>5. /\ delivered' <= last
        /\ \A i \in 1 .. Len(Stored) : delivered' < Stored[i]
        /\ \A i \in 1 .. Len(ram) : delivered' < ram[i]
    BY <1>1 DEF Order, Within
  <2>6. /\ \A i \in 0 + 1 .. Len(Stored) : delivered' < Stored[i]
        /\ \A i \in Size + 1 .. Len(ram) : delivered' < ram[i]
    <3>1. \A i \in Size + 1 .. Len(ram) : i \in 1 .. Len(ram)
      BY <1>5
    <3>2. \A i \in 0 + 1 .. Len(Stored) : i \in 1 .. Len(Stored)
      BY <1>5
    <3> QED
      BY <2>5, <3>1, <3>2
  <2>7. InBoth <= Size + InBoth'
    BY <1>2, <1>5, <2>1
  <2> QED
    BY <1>1, <2>2, <2>3, <2>4, <2>5, <2>6, <2>7, OrderShorter
<1>7. CASE result[Flusher] # "ok"
  <2>1. ram' = ram
    BY <1>7 DEF FlushEnd, BlockStored
  <2>2. InBoth = 0
    BY <1>7 DEF InBoth, BlockInBoth
  <2> QED
    BY <1>1, <1>2, <2>1, <2>2, OrderStays
<1> QED
  BY <1>6, <1>7

LEMMA OrderKept ==
  ASSUME TypeOK, TypeOK', Phases, FlushHolds, ExportHolds, Order, Steps
  PROVE  Order'
<1>1. ASSUME UNCHANGED <<ram, flash, last, delivered, flush, result>>,
             pc'[Flusher] = "append_done" <=> pc[Flusher] = "append_done"
      PROVE  Order'
  BY <1>1, OrderStays, InBothStays
<1>2. CASE QuietSteps
  BY <1>1, <1>2, QuietAre DEF FlushPc
<1>3. CASE EvaluateContact
  BY <1>3, StoredInOrder
<1>4. CASE FlushStart
  <2>1. UNCHANGED <<ram, flash, last, delivered, result>> /\ pc[Flusher] = "idle"
    BY <1>4 DEF FlushStart
  <2>2. pc'[Flusher] \in {"idle", "append"}
    BY <1>4, <2>1, FlusherGoes, LabelsAre DEF FlushStart
  <2>3. InBoth' = 0 /\ InBoth = 0
    BY <2>1, <2>2 DEF InBoth, BlockInBoth
  <2> QED
    BY <2>1, <2>3, OrderStays
<1>5. CASE FlushAppend
  <2>1. CASE flash' = Append(Kept, contact_flush_block) /\ Returns(Flusher, "ok")
    BY <1>5, <2>1, WrittenInOrder, Returned, Threads
  <2>2. CASE flash' = Kept
    BY <1>5, <2>2, LostInOrder
  <2>3. CASE flash' = flash /\ result'[Flusher] # "ok"
    <3>1. UNCHANGED <<ram, last, delivered>> /\ pc[Flusher] = "append"
      BY <1>5 DEF FlushAppend
    <3>2. InBoth = 0 /\ InBoth' = 0
      BY <2>3, <3>1 DEF InBoth, BlockInBoth
    <3> QED
      BY <2>3, <3>1, <3>2, OrderStays
  <2>4. \A err \in {"io", "nospc"} : Returns(Flusher, err) => result'[Flusher] # "ok"
    BY Returned, Threads
  <2> QED
    BY <1>5, <2>1, <2>2, <2>3, <2>4 DEF FlushAppend, Kept
<1>6. CASE FlushEnd
  BY <1>6, FlushedInOrder
<1>7. CASE CommitRam
  BY <1>7, TakenFromRam
<1>8. CASE Drop
  <2>1. CASE flash' = WithoutOldest(contact_export_count) /\ delivered' = Last(sent)
    BY <1>8, <2>1, TakenFromFlash
  <2>2. CASE UNCHANGED <<flash, delivered>>
    <3>1. UNCHANGED <<ram, last, flush>>
      BY <1>8 DEF Drop
    <3>2. pc'[Flusher] = pc[Flusher]
      BY <1>8, TransferGoes, LabelsAre DEF Drop
    <3>3. pc[Flusher] # "append_done"
      BY <1>8 DEF Drop, Phases, FlushPc, ExportPc
    <3>4. InBoth = 0 /\ InBoth' = 0
      BY <3>2, <3>3 DEF InBoth, BlockInBoth
    <3> QED
      BY <2>2, <3>1, <3>4, OrderStays
  <2> QED
    BY <1>8, <2>1, <2>2 DEF Drop
<1>9. CASE CommitEnd
  <2>1. UNCHANGED <<ram, flash, last, delivered, flush>> /\ pc[Transfer] = "drop_done"
    BY <1>9 DEF CommitEnd
  <2>2. pc'[Flusher] = pc[Flusher] /\ result'[Flusher] = result[Flusher]
    BY <1>9, TransferGoes, Returned, Threads, LabelsAre DEF CommitEnd
  <2>3. InBoth' = InBoth
    BY <2>1, <2>2 DEF InBoth, BlockInBoth, Size, flush
  <2> QED
    BY <2>1, <2>3, OrderStays
<1>10. CASE ExportBegin \/ ExportCount \/ ExportPeek \/ ExportFails
  BY <1>1, <1>10, TransferGoes, LabelsAre DEF ExportBegin, ExportCount, ExportPeek,
     ExportFails
<1>11. CASE ExportMark \/ ExportRam \/ ExportAbort \/ CommitFlash
  BY <1>1, <1>11, TransferGoes, LabelsAre DEF ExportMark, ExportRam, ExportAbort,
     CommitFlash
<1> QED
  BY <1>2, <1>3, <1>4, <1>5, <1>6, <1>7, <1>8, <1>9, <1>10, <1>11 DEF Steps, QuietSteps

-----------------------------------------------------------------------------
(* The invariant.                                                          *)

LEMMA InitHolds ==
  ASSUME Init
  PROVE  IInv
<1>1. /\ ram = <<>> /\ flash = <<>> /\ contact_flush_block = <<>> /\ sent = <<>>
      /\ last = 0 /\ delivered = 0 /\ idx_read = 0
  BY DEF Init
<1>2. pc = [t \in Thread |-> "idle"] /\ result = [t \in Thread |-> "ok"]
  BY DEF Init
<1>3. /\ pc[Scanner] = "idle" /\ pc[Flusher] = "idle" /\ pc[Transfer] = "idle"
      /\ pc[System] = "idle"
  BY <1>2, Threads
<1>4. <<>> \in Seq(Contact) /\ <<>> \in Seq(Seq(Contact)) /\ Len(<<>>) = 0
  BY EmptySeq
<1>5. Stored = <<>> /\ Len(Stored) = 0 /\ Len(ram) = 0
  BY <1>1, <1>4, FlattenEmpty DEF Stored
<1>6. TypeOK
  <2>1. RingTyped /\ ExportTyped
    BY <1>1, <1>4, Sizes DEF Init, RingTyped, ExportTyped
  <2>2. FlashTyped
    <3>1. DOMAIN flash = 1 .. 0 /\ Len(flash) = 0
      BY <1>1, <1>4, LenProperties
    <3> QED
      BY <1>1, <1>4, <3>1, Sizes DEF FlashTyped
  <2>3. FlushTyped /\ FlagsTyped
    <3>1. /\ contact_flush_active = FALSE /\ contact_flush_read_index = 0
          /\ contact_flush_block \in Seq(Contact)
      BY <1>1, <1>4 DEF Init
    <3>2. FlushTyped
      <4>1. 0 \in 0 .. RingCount - 1
        BY Sizes
      <4>2. contact_flush_active \in BOOLEAN
        BY <3>1
      <4> QED
        BY <3>1, <4>1, <4>2 DEF FlushTyped
    <3>3. FlagsTyped
      BY DEF Init, FlagsTyped
    <3> QED
      BY <3>2, <3>3
  <2>4. StatusTyped
    BY LevelTyped DEF Init, StatusTyped
  <2>5. BoundsTyped
    BY Sizes DEF Init, BoundsTyped
  <2>6. ThreadsTyped
    BY <1>2, LabelsAre DEF ThreadsTyped
  <2> QED
    BY <2>1, <2>2, <2>3, <2>4, <2>5, <2>6, TypeParts
<1>7. Phases
  BY <1>3 DEF Init, Phases, FlushPc, ExportPc
<1>8. FlushHolds /\ BlockWritten /\ ExportHolds
  BY <1>3 DEF Init, FlushHolds, BlockWritten, BlockInBoth, ExportHolds, ExportsFlash,
     ExportsRam
<1>9. Order
  BY <1>1, <1>5 DEF Order, Sorted, Within
<1>10. FlushOnItsWay
  BY <1>5, Sizes DEF FlushOnItsWay, FlushDue
<1>11. LevelFollows
  <2>1. Held = 0
    BY <1>5 DEF Held
  <2>2. number_dataset = 0 /\ uncounted = 0
    BY DEF Init
  <2>3. Lowest(number_dataset, CountMax) = 0
    BY <2>2, Sizes DEF Lowest
  <2>4. NotTooMany /\ NotTooFew
    BY <2>1, <2>2 DEF NotTooMany, NotTooFew
  <2>5. LevelSet
    BY <2>3 DEF Init, LevelSet
  <2> QED
    BY <1>3, <2>4, <2>5 DEF Init, LevelFollows
<1> QED
  BY <1>6, <1>7, <1>8, <1>9, <1>10, <1>11 DEF IInv

LEMMA NextHolds ==
  ASSUME IInv, [Next]_vars
  PROVE  IInv'
<1>1. CASE Steps
  <2>1. TypeOK'
    BY <1>1, TypesKept DEF IInv
  <2>2. Phases' /\ FlushHolds' /\ BlockWritten' /\ ExportHolds'
    BY <1>1, PhasesKept, FlushHoldsKept, BlockWrittenKept, ExportHoldsKept DEF IInv
  <2>3. Order'
    BY <1>1, <2>1, OrderKept DEF IInv
  <2>4. FlushOnItsWay' /\ LevelFollows'
    BY <1>1, FlushAsked, LevelKept DEF IInv
  <2> QED
    BY <2>1, <2>2, <2>3, <2>4 DEF IInv
<1>2. CASE UNCHANGED vars
  <2>1. UNCHANGED <<ram, idx_read, flash, flush, export, sent, pc, result, last, delivered>>
        /\ UNCHANGED <<contact_nvm_full, flush_work, status, bounds, flush_missed>>
    BY <1>2 DEF vars
  <2>2. TypeOK'
    BY <2>1 DEF IInv, TypeOK, export, flush, status, bounds
  <2>3. Phases' /\ FlushHolds' /\ BlockWritten'
    BY <2>1 DEF IInv, Phases, FlushHolds, BlockWritten, BlockInBoth, Size, Stored,
       export, flush
  <2>4. ExportHolds'
    BY <2>1 DEF IInv, ExportHolds, ExportsFlash, ExportsRam, FlashSent, RamSent, export
  <2>5. Order'
    BY <2>1, OrderStays, InBothStays DEF IInv
  <2>6. FlushOnItsWay'
    BY <2>1 DEF IInv, FlushOnItsWay, FlushDue, flush, export
  <2>7. Unsettled' = Unsettled
    BY <2>1 DEF Unsettled, Dropped, BlockInBoth, status
  <2>8. LevelFollows'
    BY <2>1, <2>7, LevelQuiet DEF IInv, status
  <2> QED
    BY <2>2, <2>3, <2>4, <2>5, <2>6, <2>8 DEF IInv
<1> QED
  BY <1>1, <1>2, StepsAre

LEMMA Invariant == Spec => []IInv
<1>1. Init => IInv
  BY InitHolds
<1>2. IInv /\ [Next]_vars => IInv'
  BY NextHolds
<1> QED
  BY <1>1, <1>2, PTL DEF Spec

-----------------------------------------------------------------------------
(* What it shows.                                                          *)

(* Types of every variable, and the limits of the ring, of flash and of    *)
(* the export buffer (network.c and its callers).                          *)
THEOREM ContactTypes == Spec => []TypeOK
<1>1. IInv => TypeOK
  BY DEF IInv
<1> QED
  BY <1>1, Invariant, PTL

(* A flush that is due is queued, running, about to be asked for, or       *)
(* blocked by an export whose end asks for it, whatever happens between    *)
(* the stretches of network_flush_handler and the two ends of an export;   *)
(* only one that failed waits for the next contact.                        *)
THEOREM FlushComes == Spec => []FlushOnItsWay
<1>1. IInv => FlushOnItsWay
  BY DEF IInv
<1> QED
  BY <1>1, Invariant, PTL

(* The level settles on the latest count, which is never above what is     *)
(* held and below it only by contacts heard while the update ran: no order *)
(* of flushes, commits and the two readings of                             *)
(* network_status_update_handler leaves the tag advertising contacts that  *)
(* it no longer has, with no update to come.                               *)
THEOREM LevelSettles == Spec => []LevelFollowsContacts
<1>1. IInv => LevelFollowsContacts
  BY DEF IInv, LevelFollows, Unsettled, Dropped, BlockInBoth, LevelFollowsContacts,
     LevelSettled, NotTooMany, NotTooFew, LevelSet
<1> QED
  BY <1>1, Invariant, PTL

(* What an export copied is still the oldest of where it came from when it *)
(* is committed, and what a flush copied still the oldest of the ring:     *)
(* neither the ring that overflows nor the other work queue moves it.      *)
THEOREM CopiesStay == Spec => []CopiedContactsStay
<1>1. ASSUME IInv
      PROVE  CopiedContactsStay
  <2>1. TypeOK /\ Phases /\ FlushHolds /\ ExportHolds
    BY <1>1 DEF IInv
  <2>2. ASSUME pc[Transfer] \in {"hold", "drop"}
        PROVE  /\ contact_export_count = Len(sent)
               /\ sent = SubSeq(IF contact_export_source = "RAM" THEN ram ELSE Stored,
                                1, contact_export_count)
    <3>1. contact_export_count = Len(sent)
      BY <2>1, <2>2 DEF ExportHolds
    <3>2. CASE contact_export_source = "RAM"
      <4>1. RamSent
        BY <2>1, <2>2, <3>2 DEF Phases, ExportHolds, ExportsRam
      <4>2. /\ ram \in Seq(Contact) /\ sent \in Seq(Contact)
            /\ Len(ram) \in Nat /\ Len(sent) \in Nat
        BY <2>1, Typed
      <4>3. Len(sent) \in 0 .. Len(ram)
        BY <4>1, <4>2 DEF RamSent
      <4>4. SubSeq(ram, 1, Len(sent)) = sent
        BY <4>1, <4>2, <4>3, SameBeginning DEF RamSent
      <4> QED
        BY <3>1, <3>2, <4>4
    <3>3. CASE contact_export_source # "RAM"
      <4>1. FlashSent
        <5>1. contact_export_source = "NVM"
          BY <2>1, <2>2, <3>3 DEF TypeOK, Phases, ExportPc
        <5> QED
          BY <2>1, <2>2, <5>1 DEF ExportHolds, ExportsFlash
      <4>2. /\ Stored \in Seq(Contact) /\ sent \in Seq(Contact)
            /\ Len(Stored) \in Nat /\ Len(sent) \in Nat
        BY <2>1, Typed
      <4>3. /\ Len(Head(flash)) \in 1 .. Len(Stored)
            /\ \A i \in 1 .. Len(Head(flash)) : Stored[i] = Head(flash)[i]
        BY <2>1, <4>1, OldestBlock DEF FlashSent
      <4>4. Len(sent) \in 0 .. Len(Stored) /\ \A i \in 1 .. Len(sent) : sent[i] = Stored[i]
        BY <4>1, <4>2, <4>3 DEF FlashSent
      <4>5. SubSeq(Stored, 1, Len(sent)) = sent
        BY <4>2, <4>4, SameBeginning
      <4> QED
        BY <3>1, <3>3, <4>5
    <3> QED
      BY <3>1, <3>2, <3>3
  <2>3. ASSUME pc[Flusher] \in {"append", "append_done"}
        PROVE  contact_flush_block = SubSeq(ram, 1, Len(contact_flush_block))
    <3>1. Size \in 1 .. Len(ram) /\ \A i \in 1 .. Size : contact_flush_block[i] = ram[i]
      BY <2>1, <2>3, BlockToWrite DEF FlushPc
    <3>2. ram \in Seq(Contact) /\ contact_flush_block \in Seq(Contact) /\ Len(ram) \in Nat
      BY <2>1, Typed
    <3>3. Len(contact_flush_block) \in 0 .. Len(ram)
      BY <3>1, <3>2 DEF Size
    <3> QED
      BY <3>1, <3>2, <3>3, SameBeginning DEF Size
  <2> QED
    BY <2>2, <2>3 DEF CopiedContactsStay
<1> QED
  BY <1>1, Invariant, PTL

(* The log joined: flash, then those of the ring that are not in flash.    *)
LEMMA JoinedInOrder ==
  ASSUME NEW s \in Seq(Contact), NEW r \in Seq(Contact), NEW d \in Nat,
         Sorted(s), Sorted(r),
         \A i \in 1 .. Len(s) : \A j \in 1 .. Len(r) : s[i] < r[j],
         \A i \in 1 .. Len(s) : d < s[i],
         \A i \in 1 .. Len(r) : d < r[i]
  PROVE  Increasing(s \o r) /\ (s \o r # <<>> => Head(s \o r) > d)
<1> DEFINE x == s \o r
           n == Len(s)
<1>1. n \in Nat /\ Len(r) \in Nat
  BY Indexed
<1>2. /\ x \in Seq(Contact) /\ Len(x) = n + Len(r)
      /\ \A i \in 1 .. n + Len(r) : x[i] = IF i <= n THEN s[i] ELSE r[i - n]
  BY ConcatProperties
<1> HIDE DEF x, n
<1>3. ASSUME NEW i \in 1 .. Len(x)
      PROVE  \/ i <= n /\ i \in 1 .. Len(s) /\ x[i] = s[i]
             \/ i > n /\ i - n \in 1 .. Len(r) /\ x[i] = r[i - n]
  BY <1>1, <1>2 DEF n
<1>4. ASSUME NEW i \in 1 .. Len(x) - 1
      PROVE  x[i] < x[i + 1]
  <2>1. i \in 1 .. Len(x) /\ i + 1 \in 1 .. Len(x)
    BY <1>1, <1>2
  <2>2. CASE i + 1 <= n
    <3>1. /\ i \in 1 .. Len(s) /\ x[i] = s[i]
          /\ i + 1 \in 1 .. Len(s) /\ x[i + 1] = s[i + 1]
      BY <1>1, <1>3, <2>1, <2>2
    <3> QED
      BY <3>1 DEF Sorted
  <2>3. CASE i <= n /\ i + 1 > n
    <3>1. i \in 1 .. Len(s) /\ x[i] = s[i]
      BY <1>1, <1>3, <2>1, <2>3
    <3>2. i + 1 - n \in 1 .. Len(r) /\ x[i + 1] = r[i + 1 - n]
      BY <1>1, <1>3, <2>1, <2>3
    <3> QED
      BY <3>1, <3>2
  <2>4. CASE i > n
    <3>1. i - n \in 1 .. Len(r) /\ x[i] = r[i - n]
      BY <1>1, <1>3, <2>1, <2>4
    <3>2. i + 1 - n \in 1 .. Len(r) /\ x[i + 1] = r[i + 1 - n]
      BY <1>1, <1>3, <2>1, <2>4
    <3>3. i - n < i + 1 - n
      BY <1>1, <2>1
    <3> QED
      BY <3>1, <3>2, <3>3 DEF Sorted
  <2> QED
    BY <1>1, <2>1, <2>2, <2>3, <2>4
<1>5. ASSUME x # <<>>
      PROVE  Head(x) > d
  <2>1. Head(x) = x[1] /\ 1 \in 1 .. Len(x)
    BY <1>1, <1>2, <1>5, EmptySeq
  <2>2. PICK k \in Nat : k > d /\ x[1] = k
    <3>1. CASE 1 \in 1 .. Len(s) /\ x[1] = s[1]
      BY <3>1, Numbers
    <3>2. CASE 1 - n \in 1 .. Len(r) /\ x[1] = r[1 - n]
      BY <3>2, Numbers
    <3> QED
      BY <1>3, <2>1, <3>1, <3>2
  <2> QED
    BY <2>1, <2>2
<1> QED
  BY <1>4, <1>5 DEF Increasing, x

(* Flash, then the ring, hold the contacts in the order they were heard,   *)
(* each once but for the block of a flush under way, and all of them after *)
(* what was delivered: two work queues that let go of the lock halfway     *)
(* through never leave a gap in time or an overlap.                        *)
THEOREM LogInOrder == Spec => []LogOrdered
<1>1. ASSUME IInv
      PROVE  LogOrdered
  <2> DEFINE r == IF BlockInBoth
                  THEN SubSeq(ram, Len(contact_flush_block) + 1, Len(ram)) ELSE ram
             k == InBoth
  <2>1. TypeOK /\ Phases /\ FlushHolds /\ Order
    BY <1>1 DEF IInv
  <2>2. /\ Stored \in Seq(Contact) /\ ram \in Seq(Contact) /\ delivered \in Nat
        /\ Len(ram) \in Nat /\ Size \in Nat
        /\ Sorted(Stored) /\ Sorted(ram) /\ Within(Stored) /\ Within(ram)
        /\ \A i \in 1 .. Len(Stored) : \A j \in 1 .. Len(ram) :
             j > k => Stored[i] < ram[j]
    BY <2>1, Typed DEF Order
  <2>3. k \in 0 .. Len(ram)
    <3>1. CASE BlockInBoth
      BY <2>1, <2>2, <3>1, BlockToWrite DEF BlockInBoth, FlushPc, InBoth
    <3>2. CASE ~BlockInBoth
      BY <2>2, <3>2 DEF InBoth
    <3> QED
      BY <3>1, <3>2
  <2>4. /\ r \in Seq(Contact) /\ Len(r) = Len(ram) - k
        /\ \A i \in 1 .. Len(ram) - k : r[i] = ram[k + i]
    <3>1. CASE BlockInBoth
      <4>1. r = SubSeq(ram, k + 1, Len(ram))
        BY <3>1 DEF InBoth, Size
      <4> HIDE DEF r, k
      <4> QED
        BY <2>2, <2>3, <4>1, Remainder
    <3>2. CASE ~BlockInBoth
      BY <2>2, <3>2 DEF InBoth
    <3> QED
      BY <3>1, <3>2
  <2> HIDE DEF r, k
  <2>5. Sorted(r) /\ \A i \in 1 .. Len(r) : k + i \in k + 1 .. Len(ram) /\ r[i] = ram[k + i]
    BY <2>2, <2>3, <2>4, RestInOrder
  <2>6. ASSUME NEW j \in 1 .. Len(r)
        PROVE  k + j \in 1 .. Len(ram) /\ k + j > k
    BY <2>2, <2>3, <2>4
  <2>7. \A i \in 1 .. Len(Stored) : \A j \in 1 .. Len(r) : Stored[i] < r[j]
    BY <2>2, <2>5, <2>6
  <2>8. /\ \A i \in 1 .. Len(Stored) : delivered < Stored[i]
        /\ \A j \in 1 .. Len(r) : delivered < r[j]
    BY <2>2, <2>5, <2>6 DEF Within
  <2>9. Increasing(Stored \o r) /\ (Stored \o r # <<>> => Head(Stored \o r) > delivered)
    BY <2>2, <2>4, <2>5, <2>7, <2>8, JoinedInOrder
  <2> QED
    BY <2>9 DEF LogOrdered, r
<1> QED
  BY <1>1, Invariant, PTL

(* What is in the log, before a step and after it.                         *)
LEMMA InLog ==
  ASSUME TypeOK
  PROVE  /\ \A c \in Logged : \/ \E i \in 1 .. Len(Stored) : Stored[i] = c
                              \/ \E i \in 1 .. Len(ram) : ram[i] = c
         /\ \A i \in 1 .. Len(Stored) : Stored[i] \in Logged
         /\ \A i \in 1 .. Len(ram) : ram[i] \in Logged
<1>1. DOMAIN Stored = 1 .. Len(Stored) /\ DOMAIN ram = 1 .. Len(ram)
  BY Typed, Indexed
<1> QED
  BY <1>1 DEF Logged, ToSet

LEMMA InLogThen ==
  ASSUME TypeOK'
  PROVE  /\ \A i \in 1 .. Len(Stored') : Stored'[i] \in Logged'
         /\ \A i \in 1 .. Len(ram') : ram'[i] \in Logged'
<1>1. ram' \in Seq(Contact) /\ flash' \in Seq(Seq(Contact))
  BY DEF TypeOK
<1>2. Stored' \in Seq(Contact)
  BY <1>1, FlattenIsSeq DEF Stored
<1>3. DOMAIN Stored' = 1 .. Len(Stored') /\ DOMAIN ram' = 1 .. Len(ram')
  BY <1>1, <1>2, Indexed
<1> QED
  BY <1>3 DEF Logged, ToSet

LEMMA SentOnes ==
  ASSUME TypeOK, NEW i \in 1 .. Len(sent)
  PROVE  sent[i] \in ToSet(sent)
<1>1. DOMAIN sent = 1 .. Len(sent)
  BY Typed, Indexed
<1> QED
  BY <1>1 DEF ToSet

(* The oldest n of flash and the oldest m of the ring leave, and nothing   *)
(* else does.                                                              *)
LEMMA OnlyTheOldest ==
  ASSUME TypeOK, TypeOK', NEW c \in Logged, c \notin Logged',
         NEW n \in 0 .. Len(Stored), NEW m \in 0 .. Len(ram),
         \A i \in 1 .. Len(Stored) - n :
           \E j \in 1 .. Len(Stored') : Stored'[j] = Stored[n + i],
         \A i \in 1 .. Len(ram) - m :
           \E j \in 1 .. Len(ram') : ram'[j] = ram[m + i]
  PROVE  \/ \E i \in 1 .. n : Stored[i] = c
         \/ \E i \in 1 .. m : ram[i] = c
<1>1. Len(Stored) \in Nat /\ Len(ram) \in Nat
  BY Typed
<1>2. CASE \E i \in 1 .. Len(Stored) : Stored[i] = c
  <2>1. PICK i \in 1 .. Len(Stored) : Stored[i] = c
    BY <1>2
  <2>2. i <= n
    <3>1. SUFFICES ASSUME i > n PROVE FALSE
      BY <1>1
    <3>2. i - n \in 1 .. Len(Stored) - n /\ n + (i - n) = i
      BY <1>1, <3>1
    <3>3. PICK j \in 1 .. Len(Stored') : Stored'[j] = Stored[n + (i - n)]
      BY <3>2
    <3>4. Stored'[j] = c
      BY <2>1, <3>2, <3>3
    <3> QED
      BY <3>4, InLogThen
  <2>3. i \in 1 .. n
    BY <1>1, <2>2
  <2> QED
    BY <2>1, <2>3
<1>3. CASE \E i \in 1 .. Len(ram) : ram[i] = c
  <2>1. PICK i \in 1 .. Len(ram) : ram[i] = c
    BY <1>3
  <2>2. i <= m
    <3>1. SUFFICES ASSUME i > m PROVE FALSE
      BY <1>1
    <3>2. i - m \in 1 .. Len(ram) - m /\ m + (i - m) = i
      BY <1>1, <3>1
    <3>3. PICK j \in 1 .. Len(ram') : ram'[j] = ram[m + (i - m)]
      BY <3>2
    <3>4. ram'[j] = c
      BY <2>1, <3>2, <3>3
    <3> QED
      BY <3>4, InLogThen
  <2>3. i \in 1 .. m
    BY <1>1, <2>2
  <2> QED
    BY <2>1, <2>3
<1> QED
  BY <1>2, <1>3, InLog

LEMMA LeftRightly ==
  ASSUME IInv, TypeOK', Steps, NEW c \in Logged, c \notin Logged'
  PROVE  LeavesRightly(c)
<1>1. TypeOK /\ Phases /\ FlushHolds /\ BlockWritten /\ ExportHolds
  BY DEF IInv
<1>2. /\ Len(Stored) \in Nat /\ Len(ram) \in Nat /\ Size \in Nat /\ Len(sent) \in Nat
  BY <1>1, Typed
<1>3. ASSUME UNCHANGED <<ram, flash>>
      PROVE  FALSE
  BY <1>3 DEF Logged, Stored
<1>4. ASSUME flash' = flash
      PROVE  \A i \in 1 .. Len(Stored) - 0 :
               \E j \in 1 .. Len(Stored') : Stored'[j] = Stored[0 + i]
  BY <1>2, <1>4 DEF Stored
<1>5. ASSUME ram' = ram
      PROVE  \A i \in 1 .. Len(ram) - 0 : \E j \in 1 .. Len(ram') : ram'[j] = ram[0 + i]
  BY <1>2, <1>5
<1>6. ASSUME NEW q, NEW s, NEW n \in 0 .. Len(s), Len(s) \in Nat, Len(q) = Len(s) - n,
             \A i \in 1 .. Len(s) - n : q[i] = s[n + i]
      PROVE  \A i \in 1 .. Len(s) - n : \E j \in 1 .. Len(q) : q[j] = s[n + i]
  BY <1>6
<1>7. 0 \in 0 .. Len(Stored) /\ 0 \in 0 .. Len(ram)
  BY <1>2
<1>8. \A i \in 1 .. 0 : FALSE
  OBVIOUS
<1>9. CASE EvaluateContact
  <2>1. flash' = flash
    BY <1>9 DEF EvaluateContact
  <2>2. CASE Len(ram') = Len(ram) + 1 /\ \A i \in 1 .. Len(ram) : ram'[i] = ram[i]
    <3>1. \A i \in 1 .. Len(ram) - 0 : \E j \in 1 .. Len(ram') : ram'[j] = ram[0 + i]
      BY <1>2, <2>2
    <3> QED
      BY <1>1, <1>4, <1>7, <1>8, <2>1, <3>1, OnlyTheOldest
  <2>3. CASE /\ Len(ram) = RingCount /\ Len(ram') = Len(ram)
             /\ contact_export_source = "NONE" /\ ~contact_flush_active
             /\ \A i \in 1 .. Len(ram) - 1 : ram'[i] = ram[i + 1]
    <3>1. 1 \in 0 .. Len(ram) /\ Len(ram) > 0
      BY <1>2, <2>3, Sizes
    <3>2. \A i \in 1 .. Len(ram) - 1 : \E j \in 1 .. Len(ram') : ram'[j] = ram[1 + i]
      BY <1>2, <2>3
    <3>3. PICK i \in 1 .. 1 : ram[i] = c
      BY <1>1, <1>4, <1>7, <1>8, <2>1, <3>1, <3>2, OnlyTheOldest
    <3>4. c = ram[1]
      BY <3>3
    <3>5. Head(ram) = ram[1]
      OBVIOUS
    <3> QED
      BY <2>3, <3>4, <3>5 DEF LeavesRightly, Pinned
  <2> QED
    BY <1>1, <1>9, <2>2, <2>3, Evaluated
<1>10. CASE FlushAppend
  <2>1. ram' = ram /\ pc[Flusher] = "append"
    BY <1>10 DEF FlushAppend
  <2>2. CASE flash' = flash
    BY <1>3, <2>1, <2>2
  <2>3. Gone \in 0 .. Len(Stored)
    BY <1>1, KeptOnes
  <2>4. ASSUME \A i \in 1 .. Len(Stored) - Gone :
                 \E j \in 1 .. Len(Stored') : Stored'[j] = Stored[Gone + i]
        PROVE  LeavesRightly(c)
    <3>1. PICK i \in 1 .. Gone : Stored[i] = c
      BY <1>1, <1>5, <1>7, <1>8, <2>1, <2>3, <2>4, OnlyTheOldest
    <3>2. FlashFull
      BY <1>8, <3>1 DEF Gone
    <3>3. flash # <<>> /\ i \in 1 .. Len(Head(flash))
      BY <3>1, <3>2, FullIsNotEmpty DEF Gone
    <3>4. Head(flash)[i] = c
      BY <1>1, <3>1, <3>3, OldestBlock
    <3>5. Head(flash) \in Seq(Contact)
      BY <1>1, <3>3, OldestBlock DEF Blocks
    <3>6. DOMAIN Head(flash) = 1 .. Len(Head(flash))
      BY <3>5, LenProperties
    <3>7. c \in ToSet(Head(flash))
      BY <3>3, <3>4, <3>6 DEF ToSet
    <3> QED
      BY <2>1, <3>2, <3>7 DEF LeavesRightly
  <2>5. CASE flash' = Append(Kept, contact_flush_block)
    <3>1. contact_flush_block \in Blocks
      BY <1>1, <2>1, BlockToWrite DEF FlushPc
    <3>2. /\ Len(Stored') = Len(Stored) - Gone + Size
          /\ \A i \in 1 .. Len(Stored) - Gone : Stored'[i] = Stored[Gone + i]
      BY <1>1, <2>5, <3>1, AppendLeaves DEF Stored, Size
    <3>3. \A i \in 1 .. Len(Stored) - Gone :
            \E j \in 1 .. Len(Stored') : Stored'[j] = Stored[Gone + i]
      <4>1. \A i \in 1 .. Len(Stored) - Gone : i \in 1 .. Len(Stored')
        BY <1>2, <2>3, <3>2
      <4> QED
        BY <3>2, <4>1
    <3> QED
      BY <2>4, <3>3
  <2>6. CASE flash' = Kept
    <3>1. /\ Len(Stored') = Len(Stored) - Gone
          /\ \A i \in 1 .. Len(Stored) - Gone : Stored'[i] = Stored[Gone + i]
      BY <1>1, <2>6, KeptOnes DEF Stored
    <3> QED
      BY <2>4, <3>1
  <2> QED
    BY <1>10, <2>2, <2>5, <2>6 DEF FlushAppend, Kept
<1>11. CASE FlushEnd
  <2>1. flash' = flash /\ pc[Flusher] = "append_done"
    BY <1>11 DEF FlushEnd
  <2>2. CASE ~BlockStored
    BY <1>3, <1>11, <2>1, <2>2 DEF FlushEnd
  <2>3. CASE BlockStored
    <3>1. Size \in 1 .. Len(ram) /\ \A i \in 1 .. Size : contact_flush_block[i] = ram[i]
      BY <1>1, <2>1, BlockToWrite DEF FlushPc
    <3>2. Size \in 0 .. Len(ram) /\ Advance(Size)
      BY <1>2, <1>11, <2>3, <3>1 DEF FlushEnd, Size
    <3>3. /\ Len(ram') = Len(ram) - Size
          /\ \A i \in 1 .. Len(ram) - Size : ram'[i] = ram[Size + i]
      BY <1>1, <3>2, Advanced
    <3>4. \A i \in 1 .. Len(ram) - Size : \E j \in 1 .. Len(ram') : ram'[j] = ram[Size + i]
      BY <3>3
    <3>5. PICK i \in 1 .. Size : ram[i] = c
      BY <1>1, <1>4, <1>7, <1>8, <2>1, <3>2, <3>4, OnlyTheOldest
    <3>6. BlockInBoth
      BY <2>1, <2>3 DEF BlockStored, BlockInBoth
    <3>7. PICK j \in 1 .. Len(Stored) : Stored[j] = c
      BY <1>1, <3>1, <3>5, <3>6 DEF BlockWritten
    <3>8. Stored' = Stored
      BY <2>1 DEF Stored
    <3> QED
      BY <3>7, <3>8, InLogThen
  <2> QED
    BY <2>2, <2>3
<1>12. CASE CommitRam
  <2>1. flash' = flash /\ pc[Transfer] = "hold"
    BY <1>12 DEF CommitRam
  <2>2. RamSent /\ contact_export_count = Len(sent)
    BY <1>1, <1>12 DEF CommitRam, ExportHolds, ExportsRam
  <2>3. Len(sent) \in 0 .. Len(ram) /\ Advance(Len(sent))
    BY <1>2, <1>12, <2>2 DEF CommitRam, RamSent
  <2>4. /\ Len(ram') = Len(ram) - Len(sent)
        /\ \A i \in 1 .. Len(ram) - Len(sent) : ram'[i] = ram[Len(sent) + i]
    BY <1>1, <2>3, Advanced
  <2>5. \A i \in 1 .. Len(ram) - Len(sent) :
          \E j \in 1 .. Len(ram') : ram'[j] = ram[Len(sent) + i]
    BY <2>4
  <2>6. PICK i \in 1 .. Len(sent) : ram[i] = c
    BY <1>1, <1>4, <1>7, <1>8, <2>1, <2>3, <2>5, OnlyTheOldest
  <2>7. c \in ToSet(sent)
    BY <1>1, <2>2, <2>6, SentOnes DEF RamSent
  <2> QED
    BY <2>1, <2>7 DEF LeavesRightly
<1>13. CASE Drop
  <2>1. ram' = ram /\ pc[Transfer] = "drop"
    BY <1>13 DEF Drop
  <2>2. CASE flash' = flash
    BY <1>3, <2>1, <2>2
  <2>3. CASE flash' = WithoutOldest(contact_export_count)
    <3>1. FlashSent /\ contact_export_count = Len(sent)
      BY <1>1, <2>1 DEF Phases, ExportHolds, ExportsFlash
    <3>2. /\ flash # <<>> /\ Len(sent) \in 1 .. Len(Head(flash))
          /\ \A i \in 1 .. Len(sent) : sent[i] = Head(flash)[i]
      BY <3>1 DEF FlashSent
    <3>3. /\ Len(Stored') = Len(Stored) - Len(sent)
          /\ \A i \in 1 .. Len(Stored) - Len(sent) : Stored'[i] = Stored[Len(sent) + i]
      BY <1>1, <2>3, <3>1, <3>2, DropLeaves DEF Stored
    <3>4. /\ Len(Head(flash)) \in 1 .. Len(Stored)
          /\ \A i \in 1 .. Len(Head(flash)) : Stored[i] = Head(flash)[i]
      BY <1>1, <3>2, OldestBlock
    <3>5. Len(sent) \in 0 .. Len(Stored)
      BY <1>2, <3>2, <3>4
    <3>6. \A i \in 1 .. Len(Stored) - Len(sent) :
            \E j \in 1 .. Len(Stored') : Stored'[j] = Stored[Len(sent) + i]
      BY <3>3
    <3>7. PICK i \in 1 .. Len(sent) : Stored[i] = c
      BY <1>1, <1>5, <1>7, <1>8, <2>1, <3>5, <3>6, OnlyTheOldest
    <3>8. i \in 1 .. Len(Head(flash))
      BY <1>2, <3>2, <3>4
    <3>9. sent[i] = c
      BY <3>2, <3>4, <3>7, <3>8
    <3> QED
      BY <1>1, <2>1, <3>9, SentOnes DEF LeavesRightly
  <2> QED
    BY <1>13, <2>2, <2>3 DEF Drop
<1>14. CASE QuietSteps
  BY <1>1, <1>3, <1>14, QuietAre
<1>15. CASE FlushStart \/ CommitFlash \/ CommitEnd
  BY <1>3, <1>15 DEF FlushStart, CommitFlash, CommitEnd
<1>16. CASE ExportBegin \/ ExportCount \/ ExportPeek \/ ExportFails
  BY <1>3, <1>16 DEF ExportBegin, ExportCount, ExportPeek, ExportFails
<1>17. CASE ExportMark \/ ExportRam \/ ExportAbort
  BY <1>3, <1>17 DEF ExportMark, ExportRam, ExportAbort
<1> QED
  BY <1>9, <1>10, <1>11, <1>12, <1>13, <1>14, <1>15, <1>16, <1>17 DEF Steps, QuietSteps

(* A contact leaves the log only because it was delivered, or as the       *)
(* oldest of a full ring that nobody copies (network_evaluate_contact), or *)
(* with the oldest block of a full store: between the copy of a block, its *)
(* write and its removal, none falls through.                              *)
THEOREM NothingLostOnTheWay == Spec => ContactsLeaveRightly
<1> DEFINE A == \A c \in Logged \ Logged' : LeavesRightly(c)
<1>1. ASSUME IInv, [Next]_vars
      PROVE  [A]_vars
  <2>1. CASE Steps
    <3>1. TypeOK'
      BY <1>1, NextHolds DEF IInv
    <3>2. A
      BY <1>1, <2>1, <3>1, LeftRightly
    <3> QED
      BY <3>2
  <2>2. CASE UNCHANGED vars
    BY <2>2
  <2> QED
    BY <1>1, <2>1, <2>2, StepsAre
<1> QED
  BY <1>1, Invariant, PTL DEF Spec, ContactsLeaveRightly
=============================================================================

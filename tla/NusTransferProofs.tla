------------------------- MODULE NusTransferProofs -------------------------
(***************************************************************************)
(* Proofs about a readout, for any backlog, packet size and number of      *)
(* adverse events: the beacon drops only what the base has put out, sends  *)
(* no entry twice on a connection, takes no callback for another's, and    *)
(* leaves nothing of a transfer behind for the next connection.            *)
(***************************************************************************)
EXTENDS NusTransfer, SequenceTheorems, TLAPS

-----------------------------------------------------------------------------
(* Which steps of the transfer thread belong to a domain, and which hold a   *)
(* reservation.                                                               *)
BatchPc  == {"arm_reset", "arm", "check", "claim", "post", "confirm", "retire", "cut",
             "recheck", "await", "disarm", "abort", "commit"}
DomainPc == {"begin", "arm_reset", "arm", "await", "disarm", "abort", "commit", "sync"}
SendPc == {"check", "claim", "post", "confirm", "retire", "cut", "recheck"}

InDomain == t.stage \in Domain

Stages ==
  /\ t.pc \in DomainPc => InDomain
  /\ t.pc \in {"mark", "drain"} => t.stage = "finished"
  /\ t.pc = "count" => t.stage = "status"
  /\ InDomain => t.pc \in DomainPc \union SendPc \union {"finish", "leave"}
  /\ t.pc \in BatchPc /\ InDomain => reserved[t.stage] # 0
  /\ \A d \in Domain : reserved[d] # 0 => t.pc \in BatchPc /\ t.stage = d

(* Both ends of the link, and what is on it.                                  *)
Ends ==
  /\ linked => current_conn /\ Connection
  /\ connect_in_progress => default_conn
  /\ scan_recv => ~default_conn
  /\ discovering => Connection /\ nus_ready_notified
  /\ nus_notifications_enabled \/ transfer_conn => current_conn
  /\ toBase # <<>> => Connection
  /\ toBeacon # <<>> => current_conn

(* A connection whose transfer has not begun: nothing has been sent yet.      *)
Fresh == linked /\ (~nus_ready_notified \/ discovering)
Commanded == \E i \in DOMAIN toBeacon : toBeacon[i].kind \in {"subscribe", "st"}
Subscribing == \E i \in DOMAIN toBeacon : toBeacon[i].kind = "subscribe"

(* The places in a queue that hold a domain's messages of a kind.             *)
Of(queue, kind, d) == {i \in DOMAIN queue : queue[i].kind = kind /\ queue[i].domain = d}
AcksOf(d) == Of(toBeacon, "ack", d)
BatchesOf(d) == Of(toBase, "batch", d)
NoneOf(d) == AcksOf(d) = {} /\ BatchesOf(d) = {}

Starts ==
  /\ Fresh => toBeacon = <<>>
  /\ \A i \in DOMAIN toBeacon :
       /\ toBeacon[i].kind = "subscribe" => i = 1
       /\ toBeacon[i].kind = "st" => i = 1 \/ (i = 2 /\ toBeacon[1].kind = "subscribe")
  /\ Fresh \/ Subscribing => ~nus_notifications_enabled
  /\ Fresh \/ Commanded => ~transfer_conn
  /\ Fresh \/ Commanded \/ transfer_conn =>
       /\ ~HoldsRef /\ toBase = <<>> /\ heard = {} /\ sent_callbacks = 0
       /\ \A d \in Domain : AcksOf(d) = {}

Active ==
  /\ transfer_active => transfer_conn \/ HoldsRef
  /\ At("leave") => ~transfer_active

(* The send slot, its callback and its semaphore.                             *)
Sends ==
  /\ sent_callbacks > 0 => current_conn
  /\ ~current_conn => pending_nus_sends = 0 \/ At("post")
  /\ current_conn /\ ~nus_notifications_enabled =>
       pending_nus_sends = 0 /\ t.pc \notin SendPc \ {"check"}
  /\ Ready =>
       /\ At("post") => pending_nus_sends = 1 /\ nus_sent_sem = 0 /\ sent_callbacks = 0
       /\ At("confirm") => /\ pending_nus_sends = sent_callbacks
                           /\ (nus_sent_sem = 1 <=> sent_callbacks = 0)
       /\ At("retire") => pending_nus_sends = sent_callbacks
       /\ At("cut") => pending_nus_sends = 0
       /\ t.pc \notin {"post", "confirm", "retire", "cut"} =>
            pending_nus_sends = 0 /\ sent_callbacks = 0
  /\ disconnect_when_sent => At("drain")

(* What the base has put out of a domain, and what is still on its way.       *)
Heard(d, n) == \A x \in heard : x[1] = d => x[2] <= n
Received(d) == \A e \in done[d] + 1 .. done[d] + reserved[d] : <<d, e>> \in got

StageRank == [status |-> 0, contacts |-> 1, reports |-> 2, eco |-> 3, finished |-> 4]
Later(d) == HoldsRef /\ StageRank[d] > StageRank[t.stage]

(* At most one packet of a domain, or its acknowledgement, is on its way.     *)
Single ==
  \A d \in Domain :
    /\ \A i, j \in AcksOf(d) : i = j
    /\ \A i, j \in BatchesOf(d) : i = j
    /\ AcksOf(d) = {} \/ BatchesOf(d) = {}

Fits(d) ==
  /\ \A i \in BatchesOf(d) : toBase[i].first = done[d] + 1 /\ toBase[i].count = reserved[d]
                             /\ Heard(d, done[d])
  /\ \A i \in AcksOf(d) : toBeacon[i].count = reserved[d] /\ Received(d)

Waiting(d) == /\ nus_ack_wait.active /\ nus_ack_wait.domain = d
              /\ nus_ack_wait.count = reserved[d] /\ nus_ack_sem = 0
Answered(d) == Received(d) /\ NoneOf(d)

BeforePc == {"begin", "arm_reset", "arm", "check", "claim", "post", "sync"}
AfterPc == {"confirm", "retire", "cut", "recheck", "await"}

Packets ==
  /\ Single
  /\ \A d \in Domain : Later(d) => NoneOf(d) /\ Heard(d, 0)
  /\ InDomain /\ t.pc \in BeforePc => NoneOf(t.stage) /\ Heard(t.stage, done[t.stage])
  /\ InDomain /\ t.pc \in AfterPc => Fits(t.stage)
  /\ InDomain /\ t.pc \in AfterPc \union {"commit"} =>
       Heard(t.stage, done[t.stage] + reserved[t.stage])
  /\ At("disarm") /\ t.ok => Heard(t.stage, done[t.stage] + reserved[t.stage])

(* An expectation that is still set here was left by a packet never sent.     *)
Unarmed ==
  \/ t.pc \in {"count", "begin", "arm_reset", "arm", "sync"}
  \/ t.stage = "status" /\ t.pc \in SendPc

Acks ==
  /\ At("arm") => nus_ack_sem = 0
  /\ InDomain /\ t.pc \in {"check", "claim", "post"} => Waiting(t.stage)
  /\ InDomain /\ t.pc \in AfterPc =>
       \/ Waiting(t.stage)
       \/ (~nus_ack_wait.active /\ nus_ack_sem = 1 /\ Answered(t.stage))
  /\ At("disarm") /\ t.ok => Answered(t.stage)
  /\ At("commit") => Answered(t.stage) /\ ~nus_ack_wait.active
  /\ At("abort") /\ t.ok => ~nus_ack_wait.active
  /\ Unarmed /\ nus_ack_wait.active => \A d \in Domain : NoneOf(d)

IInv ==
  /\ TypeOK /\ Stages /\ Ends /\ Starts /\ Active /\ Sends /\ Packets /\ Acks
  /\ DroppedWereReceived /\ NotSentTwice /\ StopIsFinal

-----------------------------------------------------------------------------
(* The transfer thread's moves.                                            *)

Thread == [pc : PC, stage : Stage, ok : BOOLEAN]

LEMMA GotoMoves ==
  ASSUME t \in Thread, NEW label \in PC, Goto(label)
  PROVE  t' \in Thread /\ t'.pc = label /\ t'.stage = t.stage /\ t'.ok = t.ok
BY DEF Goto, Thread

LEMMA GotoWithMoves ==
  ASSUME t \in Thread, NEW label \in PC, NEW ok \in BOOLEAN, GotoWith(label, ok)
  PROVE  t' \in Thread /\ t'.pc = label /\ t'.stage = t.stage /\ t'.ok = ok
BY DEF GotoWith, Thread

LEMMA StartStageMoves ==
  ASSUME NEW s \in Stage, StartStage(s)
  PROVE  /\ t' \in Thread /\ t'.stage = s /\ t'.ok = TRUE
         /\ t'.pc = IF s \in Domain THEN "begin" ELSE "check"
BY DEF StartStage, Thread, PC, Stage

(* The stages come in the order of their ranks.                            *)
LEMMA StageOrder ==
  /\ \A d \in Domain : /\ d \in Stage /\ d # "status" /\ d # "finished"
                       /\ StageAfter[d] \in Stage /\ StageAfter[d] # "status"
                       /\ StageRank[d] \in Nat
                       /\ StageRank[StageAfter[d]] = StageRank[d] + 1
  /\ \A s \in Stage : StageRank[s] \in Nat
  /\ \A s, r \in Stage : StageRank[s] = StageRank[r] => s = r
  /\ StageRank["status"] = 0 /\ StageRank["contacts"] = 1 /\ StageRank["finished"] = 4
  /\ \A d \in Domain : StageRank[d] \in 1 .. 3
BY DEF StageAfter, StageRank, Stage, Domain

(* A stage ends with the next one or with the transfer.                    *)
LEMMA EndStageMoves ==
  ASSUME t \in Thread, InDomain, NEW ok \in BOOLEAN, EndStage(ok)
  PROVE  /\ t' \in Thread
         /\ \/ t'.pc = "finish" /\ t'.stage = t.stage /\ t'.ok = FALSE
            \/ /\ t'.stage = StageAfter[t.stage] /\ t'.ok = TRUE
               /\ t'.pc = IF t'.stage \in Domain THEN "begin" ELSE "check"
<1>1. CASE ok \/ t.stage = "eco"
  <2>1. StageAfter[t.stage] \in Stage
    BY StageOrder DEF InDomain
  <2>2. StartStage(StageAfter[t.stage])
    BY <1>1 DEF EndStage
  <2> QED
    BY <2>1, <2>2, StartStageMoves
<1>2. CASE ~(ok \/ t.stage = "eco")
  <2>1. GotoWith("finish", FALSE)
    BY <1>2 DEF EndStage
  <2> QED
    BY <2>1, GotoWithMoves DEF PC
<1> QED
  BY <1>1, <1>2

LEMMA AfterUnsentMoves ==
  ASSUME t \in Thread, AfterUnsent
  PROVE  /\ t' \in Thread /\ t'.stage = t.stage /\ t'.ok = FALSE
         /\ t'.pc = IF InDomain THEN "abort" ELSE "finish"
<1>1. CASE InDomain
  BY <1>1, GotoWithMoves DEF AfterUnsent, InDomain, PC
<1>2. CASE ~InDomain
  BY <1>2, GotoWithMoves DEF AfterUnsent, InDomain, PC
<1> QED
  BY <1>1, <1>2

LEMMA AfterSentMoves ==
  ASSUME t \in Thread, AfterSent
  PROVE  /\ t' \in Thread
         /\ \/ t.stage = "status" /\ t'.stage = "contacts" /\ t'.pc = "begin" /\ t'.ok = TRUE
            \/ InDomain /\ t'.stage = t.stage /\ t'.pc = "await" /\ t'.ok = t.ok
            \/ t.stage = "finished" /\ t'.stage = t.stage /\ t'.pc = "mark" /\ t'.ok = t.ok
<1>0. t.stage \in Stage
  BY DEF Thread
<1>1. CASE t.stage = "status"
  BY <1>1, StartStageMoves, StageOrder DEF AfterSent, Stage, Domain
<1>2. CASE InDomain
  <2>1. Goto("await")
    BY <1>2, StageOrder DEF AfterSent, InDomain
  <2> QED
    BY <1>2, <2>1, GotoMoves DEF PC
<1>3. CASE t.stage = "finished"
  <2>1. Goto("mark")
    BY <1>3, StageOrder DEF AfterSent, InDomain
  <2> QED
    BY <1>3, <2>1, GotoMoves DEF PC
<1> QED
  BY <1>0, <1>1, <1>2, <1>3 DEF Stage, InDomain

-----------------------------------------------------------------------------
(* The two queues: a message is taken from the front or added at the end.  *)

LEMMA Taken ==
  ASSUME NEW S, NEW q \in Seq(S), q # <<>>
  PROVE  /\ Len(q) \in Nat \ {0} /\ DOMAIN q = 1 .. Len(q)
         /\ Head(q) = q[1] /\ Head(q) \in S
         /\ Tail(q) \in Seq(S)
         /\ Len(Tail(q)) = Len(q) - 1 /\ DOMAIN Tail(q) = 1 .. (Len(q) - 1)
         /\ \A i \in 1 .. (Len(q) - 1) : Tail(q)[i] = q[i + 1]
BY HeadTailProperties, EmptySeq, LenProperties, ElementOfSeq

LEMMA Added ==
  ASSUME NEW S, NEW q \in Seq(S), NEW m \in S
  PROVE  /\ q \o <<m>> \in Seq(S)
         /\ Len(q) \in Nat
         /\ DOMAIN q = 1 .. Len(q) /\ DOMAIN (q \o <<m>>) = 1 .. (Len(q) + 1)
         /\ Len(q \o <<m>>) = Len(q) + 1
         /\ \A i \in 1 .. Len(q) : (q \o <<m>>)[i] = q[i]
         /\ (q \o <<m>>)[Len(q) + 1] = m
<1>1. <<m>> \in Seq(S) /\ Len(<<m>>) = 1 /\ <<m>>[1] = m
  OBVIOUS
<1> QED
  BY <1>1, ConcatProperties, LenProperties

(* What a step may do to a queue besides adding to it.                     *)
Shrunk(q, r) == r = q \/ r = <<>> \/ (q # <<>> /\ r = Tail(q))

LEMMA ShrunkFacts ==
  ASSUME NEW S, NEW q \in Seq(S), NEW r, Shrunk(q, r)
  PROVE  /\ r \in Seq(S)
         /\ DOMAIN q = 1 .. Len(q) /\ DOMAIN r = 1 .. Len(r)
         /\ Len(q) \in Nat /\ Len(r) \in Nat
         /\ \/ \A i \in DOMAIN r : i \in DOMAIN q /\ r[i] = q[i]
            \/ \A i \in DOMAIN r : i + 1 \in DOMAIN q /\ r[i] = q[i + 1]
<1>1. CASE r = q
  <2>1. \A i \in DOMAIN r : i \in DOMAIN q /\ r[i] = q[i]
    BY <1>1, LenProperties
  <2> QED
    BY <1>1, <2>1, LenProperties
<1>2. CASE r = <<>>
  <2>1. DOMAIN r = {} /\ r \in Seq(S) /\ Len(r) = 0
    BY <1>2, EmptySeq
  <2> QED
    BY <2>1, LenProperties
<1>3. CASE q # <<>> /\ r = Tail(q)
  <2>1. \A i \in DOMAIN r : i + 1 \in DOMAIN q /\ r[i] = q[i + 1]
    BY <1>3, Taken
  <2> QED
    BY <1>3, <2>1, Taken, LenProperties
<1> QED
  BY <1>1, <1>2, <1>3 DEF Shrunk

(* Neither queue holds anything new afterwards.                            *)
Fewer == Shrunk(toBase, toBase') /\ Shrunk(toBeacon, toBeacon')

LEMMA FewerOf ==
  ASSUME NEW S, NEW q \in Seq(S), NEW r, Shrunk(q, r), NEW kind, NEW d
  PROVE  /\ \A i \in Of(r, kind, d) : \E j \in Of(q, kind, d) : r[i] = q[j]
         /\ Of(q, kind, d) = {} => Of(r, kind, d) = {}
         /\ (\A i, j \in Of(q, kind, d) : i = j) => \A i, j \in Of(r, kind, d) : i = j
<1>1. \A i \in Of(r, kind, d) : i \in Nat
  BY ShrunkFacts DEF Of
<1>2. CASE \A i \in DOMAIN r : i \in DOMAIN q /\ r[i] = q[i]
  <2>1. \A i \in Of(r, kind, d) : i \in Of(q, kind, d) /\ r[i] = q[i]
    BY <1>2 DEF Of
  <2> QED
    BY <2>1
<1>3. CASE \A i \in DOMAIN r : i + 1 \in DOMAIN q /\ r[i] = q[i + 1]
  <2>1. \A i \in Of(r, kind, d) : i + 1 \in Of(q, kind, d) /\ r[i] = q[i + 1]
    BY <1>3 DEF Of
  <2> QED
    BY <1>1, <2>1
<1> QED
  BY <1>2, <1>3, ShrunkFacts

(* Taking the only message of a kind leaves none.                          *)
LEMMA LastOf ==
  ASSUME NEW S, NEW q \in Seq(S), q # <<>>, NEW kind, NEW d,
         Head(q).kind = kind, Head(q).domain = d, \A i, j \in Of(q, kind, d) : i = j
  PROVE  1 \in Of(q, kind, d) /\ Of(Tail(q), kind, d) = {}
<1>1. 1 \in Of(q, kind, d)
  BY Taken DEF Of
<1>2. \A i \in Of(Tail(q), kind, d) : i \in Nat \ {0} /\ i + 1 \in Of(q, kind, d)
  BY Taken DEF Of
<1> QED
  BY <1>1, <1>2

(* A message more at the end of a queue.                                   *)
Longer(q, r, m) ==
  /\ DOMAIN r = DOMAIN q \union {Len(q) + 1}
  /\ \A i \in DOMAIN q : r[i] = q[i]
  /\ r[Len(q) + 1] = m

Is(m, kind, d) == m.kind = kind /\ m.domain = d

LEMMA OtherAdded ==
  ASSUME NEW q, NEW r, NEW m, Longer(q, r, m), NEW kind, NEW d, ~Is(m, kind, d)
  PROVE  Of(r, kind, d) \subseteq Of(q, kind, d) /\ \A i \in Of(r, kind, d) : r[i] = q[i]
BY DEF Longer, Of, Is

LEMMA FirstAdded ==
  ASSUME NEW q, NEW r, NEW m, Longer(q, r, m), NEW kind, NEW d, Is(m, kind, d), Of(q, kind, d) = {}
  PROVE  (\A i, j \in Of(r, kind, d) : i = j) /\ \A i \in Of(r, kind, d) : r[i] = m
BY DEF Longer, Of, Is

LEMMA OtherAckAdded ==
  ASSUME NEW m, Longer(toBeacon, toBeacon', m), NEW d, ~Is(m, "ack", d)
  PROVE  AcksOf(d)' \subseteq AcksOf(d) /\ \A i \in AcksOf(d)' : toBeacon'[i] = toBeacon[i]
BY OtherAdded DEF AcksOf

LEMMA FirstAckAdded ==
  ASSUME NEW m, Longer(toBeacon, toBeacon', m), NEW d, Is(m, "ack", d), AcksOf(d) = {}
  PROVE  (\A i, j \in AcksOf(d)' : i = j) /\ \A i \in AcksOf(d)' : toBeacon'[i] = m
BY FirstAdded DEF AcksOf

LEMMA AckAdded ==
  ASSUME NEW m \in Write,
         toBeacon \in Seq(Write), toBeacon' = toBeacon \o <<m>>, NEW d
  PROVE  /\ ~((m.kind = "ack" /\ m.domain = d)) =>
              AcksOf(d)' \subseteq AcksOf(d) /\ \A i \in AcksOf(d)' : toBeacon'[i] = toBeacon[i]
         /\ (m.kind = "ack" /\ m.domain = d) /\ AcksOf(d) = {} =>
              (\A i, j \in AcksOf(d)' : i = j) /\ \A i \in AcksOf(d)' : toBeacon'[i] = m
<1>1. Longer(toBeacon, toBeacon', m)
  BY Added DEF Longer
<1>2. Is(m, "ack", d) <=> (m.kind = "ack" /\ m.domain = d)
  BY DEF Is
<1> QED
  BY <1>1, <1>2, OtherAckAdded, FirstAckAdded

LEMMA OtherBatchAdded ==
  ASSUME NEW m, Longer(toBase, toBase', m), NEW d, ~Is(m, "batch", d)
  PROVE  BatchesOf(d)' \subseteq BatchesOf(d) /\ \A i \in BatchesOf(d)' : toBase'[i] = toBase[i]
BY OtherAdded DEF BatchesOf

LEMMA FirstBatchAdded ==
  ASSUME NEW m, Longer(toBase, toBase', m), NEW d, Is(m, "batch", d), BatchesOf(d) = {}
  PROVE  (\A i, j \in BatchesOf(d)' : i = j) /\ \A i \in BatchesOf(d)' : toBase'[i] = m
BY FirstAdded DEF BatchesOf

LEMMA BatchAdded ==
  ASSUME NEW m \in Notification,
         toBase \in Seq(Notification), toBase' = toBase \o <<m>>, NEW d
  PROVE  /\ ~((m.kind = "batch" /\ m.domain = d)) =>
              BatchesOf(d)' \subseteq BatchesOf(d) /\ \A i \in BatchesOf(d)' : toBase'[i] = toBase[i]
         /\ (m.kind = "batch" /\ m.domain = d) /\ BatchesOf(d) = {} =>
              (\A i, j \in BatchesOf(d)' : i = j) /\ \A i \in BatchesOf(d)' : toBase'[i] = m
<1>1. Longer(toBase, toBase', m)
  BY Added DEF Longer
<1>2. Is(m, "batch", d) <=> (m.kind = "batch" /\ m.domain = d)
  BY DEF Is
<1> QED
  BY <1>1, <1>2, OtherBatchAdded, FirstBatchAdded

LEMMA BatchesShrink ==
  ASSUME toBase \in Seq(Notification), Shrunk(toBase, toBase'), NEW d
  PROVE  /\ \A i \in BatchesOf(d)' : \E j \in BatchesOf(d) : toBase'[i] = toBase[j]
         /\ BatchesOf(d) = {} => BatchesOf(d)' = {}
         /\ (\A i, j \in BatchesOf(d) : i = j) => \A i, j \in BatchesOf(d)' : i = j
BY FewerOf DEF BatchesOf

LEMMA AcksShrink ==
  ASSUME toBeacon \in Seq(Write), Shrunk(toBeacon, toBeacon'), NEW d
  PROVE  /\ \A i \in AcksOf(d)' : \E j \in AcksOf(d) : toBeacon'[i] = toBeacon[j]
         /\ AcksOf(d) = {} => AcksOf(d)' = {}
         /\ (\A i, j \in AcksOf(d) : i = j) => \A i, j \in AcksOf(d)' : i = j
BY FewerOf DEF AcksOf

LEMMA FewerPackets ==
  ASSUME TypeOK, Single, Fewer
  PROVE  /\ Single'
         /\ \A d \in Domain : NoneOf(d) => NoneOf(d)'
         /\ UNCHANGED <<done, reserved, got>> /\ heard' \subseteq heard =>
              \A d \in Domain : /\ Fits(d) => Fits(d)'
                                /\ Answered(d) => Answered(d)'
<1>0. toBase \in Seq(Notification) /\ toBeacon \in Seq(Write)
  BY DEF TypeOK
<1>1. \A d \in Domain : NoneOf(d) => NoneOf(d)'
  BY <1>0, AcksShrink, BatchesShrink DEF Fewer, NoneOf
<1>2. Single'
  BY <1>0, AcksShrink, BatchesShrink DEF Fewer, Single
<1>3. ASSUME UNCHANGED <<done, reserved, got>>, heard' \subseteq heard, NEW d \in Domain
      PROVE  (Fits(d) => Fits(d)') /\ (Answered(d) => Answered(d)')
  <2>1. Received(d)' <=> Received(d)
    BY <1>3 DEF Received
  <2>2. Heard(d, done[d]) => Heard(d, done[d])'
    BY <1>3 DEF Heard
  <2>3. Fits(d) => Fits(d)'
    BY <1>0, <1>3, <2>1, <2>2, AcksShrink, BatchesShrink DEF Fewer, Fits
  <2> QED
    BY <1>1, <2>1, <2>3 DEF Answered
<1> QED
  BY <1>1, <1>2, <1>3

-----------------------------------------------------------------------------
(* Types, part by part.                                                    *)

WireTypes ==
  /\ linked \in BOOLEAN
  /\ toBase \in Seq(Notification)
  /\ toBeacon \in Seq(Write)
  /\ faults \in 0 .. MaxFaults

FlagTypes ==
  /\ current_conn \in BOOLEAN /\ nus_notifications_enabled \in BOOLEAN
  /\ transfer_active \in BOOLEAN /\ transfer_conn \in BOOLEAN
  /\ transfer_work \in BOOLEAN /\ disconnect_when_sent \in BOOLEAN
  /\ idle_timer \in BOOLEAN

CountTypes ==
  /\ pending_nus_sends \in Bit /\ nus_sent_sem \in Bit
  /\ nus_ack_sem \in Bit /\ sent_callbacks \in Bit
  /\ nus_ack_wait \in [active : BOOLEAN, domain : Domain, count : Nat]

StoreTypes ==
  /\ logged \in [Domain -> Nat]
  /\ done \in [Domain -> Nat]
  /\ reserved \in [Domain -> 0 .. MaxBatch]
  /\ \A d \in Domain : done[d] + reserved[d] <= logged[d] /\ logged[d] <= Backlog[d]

BaseTypes ==
  /\ {default_conn, connect_in_progress, nus_ready_notified, transfer_finish_pending,
      finish_disconnect_work} \subseteq BOOLEAN
  /\ {scanning_requested, stop_after_finished_requested, scanner, scan_recv} \subseteq BOOLEAN
  /\ {tagged_conn, rx_idle_timeout_work, discovering, subscribed} \subseteq BOOLEAN
  /\ scan_start \in {"none", "button", "rx"}
  /\ presses \in 0 .. MaxPresses
  /\ asked \in {"start", "finish", "stop"}

OutputTypes == got \subseteq Domain \X Positive /\ heard \subseteq got

LEMMA TypeParts ==
  TypeOK <=> WireTypes /\ FlagTypes /\ CountTypes /\ t \in Thread /\ StoreTypes
               /\ BaseTypes /\ OutputTypes
BY DEF TypeOK, WireTypes, FlagTypes, CountTypes, Thread, StoreTypes, BaseTypes, OutputTypes

LEMMA TypePartsAfter ==
  ASSUME WireTypes', FlagTypes', CountTypes', t' \in Thread, StoreTypes', BaseTypes', OutputTypes'
  PROVE  TypeOK'
BY DEF TypeOK, WireTypes, FlagTypes, CountTypes, Thread, StoreTypes, BaseTypes, OutputTypes

(* A step of one side leaves the types of the other side's state alone.    *)
LEMMA BaseSideKept ==
  ASSUME BaseTypes, OutputTypes, UNCHANGED baseVars
  PROVE  BaseTypes' /\ OutputTypes'
BY DEF BaseTypes, OutputTypes, baseVars, radioVars, scanVars, nusVars

LEMMA BeaconSideKept ==
  ASSUME FlagTypes, CountTypes, t \in Thread, StoreTypes, UNCHANGED beaconVars
  PROVE  FlagTypes' /\ CountTypes' /\ t' \in Thread /\ StoreTypes'
BY DEF FlagTypes, CountTypes, StoreTypes, beaconVars, connVars, sendVars, ackVars, storeVars

LEMMA ThreadStays ==
  ASSUME t \in Thread, Stages, Transfer
  PROVE  t' \in Thread
<1> USE GotoMoves, GotoWithMoves, StartStageMoves, EndStageMoves, AfterUnsentMoves,
        AfterSentMoves DEF PC, Stage, Thread, Stages, DomainPc
<1>1. CASE Dequeue
  BY <1>1 DEF Dequeue, At
<1>2. CASE TakeConn
  BY <1>2 DEF TakeConn, At
<1>3. CASE FinishNone
  BY <1>3 DEF FinishNone, At
<1>4. CASE CountContacts
  BY <1>4 DEF CountContacts, At
<1>5. CASE Begin
  BY <1>5 DEF Begin, At
<1>6. CASE ArmReset
  BY <1>6 DEF ArmReset, At
<1>7. CASE Arm
  BY <1>7 DEF Arm, At
<1>8. CASE Check
  BY <1>8 DEF Check, At
<1>9. CASE Claim
  BY <1>9 DEF Claim, At
<1>10. CASE Post
  BY <1>10 DEF Post, At
<1>11. CASE Confirm
  BY <1>11 DEF Confirm, At
<1>12. CASE Retire
  BY <1>12 DEF Retire, At
<1>13. CASE Cut
  BY <1>13 DEF Cut, At
<1>14. CASE Recheck
  BY <1>14 DEF Recheck, At
<1>15. CASE Await
  BY <1>15 DEF Await, At
<1>16. CASE Disarm
  BY <1>16 DEF Disarm, At
<1>17. CASE Abort
  BY <1>17 DEF Abort, At
<1>18. CASE Commit
  BY <1>18 DEF Commit, At
<1>19. CASE SyncDomain
  BY <1>19 DEF SyncDomain, At
<1>20. CASE Mark
  BY <1>20 DEF Mark, At
<1>21. CASE Drain
  BY <1>21 DEF Drain, At
<1>22. CASE Finish
  BY <1>22 DEF Finish, At
<1>23. CASE Leave
  BY <1>23 DEF Leave, At
<1> QED
  BY <1>1, <1>2, <1>3, <1>4, <1>5, <1>6, <1>7, <1>8, <1>9, <1>10, <1>11, <1>12, <1>13, <1>14, <1>15, <1>16, <1>17, <1>18, <1>19, <1>20, <1>21, <1>22, <1>23 DEF Transfer

LEMMA FaultTyped ==
  ASSUME WireTypes, Fault \/ NoFault
  PROVE  faults' \in 0 .. MaxFaults
BY FaultAssumption DEF WireTypes, Fault, NoFault

LEMMA HangUpTyped ==
  ASSUME WireTypes, HangUp
  PROVE  linked' \in BOOLEAN /\ faults' \in 0 .. MaxFaults
BY FaultTyped DEF HangUp, WireTypes

LEMMA ScanningStarted ==
  ASSUME NEW thread \in {"button", "rx"}, NEW conn, NEW connecting, BaseTypes,
         StartScanning(thread, conn, connecting)
  PROVE  /\ stop_after_finished_requested' = FALSE /\ scanning_requested' = TRUE
         /\ scan_start' \in {"none", "button", "rx"}
BY DEF StartScanning, BaseTypes

LEMMA Rescanned ==
  ASSUME BaseTypes, Rescan
  PROVE  /\ stop_after_finished_requested' \in BOOLEAN /\ scanning_requested' \in BOOLEAN
         /\ scan_start' \in {"none", "button", "rx"}
BY ScanningStarted DEF Rescan, BaseTypes

LEMMA TransferTypes ==
  ASSUME TypeOK, Stages, Sends, Transfer, UNCHANGED baseVars
  PROVE  TypeOK'
<1> USE FaultAssumption, BeaconAssumption
        DEF At, wireVars, connVars, sendVars, ackVars, storeVars, radioVars, scanVars, nusVars
<1>1. WireTypes /\ FlagTypes /\ CountTypes /\ t \in Thread /\ StoreTypes /\ BaseTypes /\ OutputTypes
  BY TypeParts
<1>2. t' \in Thread
  BY <1>1, ThreadStays
<1>3. WireTypes'
  <2> USE <1>1, FaultTyped, HangUpTyped DEF WireTypes
  <2>1. CASE Dequeue \/ TakeConn \/ FinishNone \/ ArmReset \/ Arm \/ Check \/ Claim \/ Retire
    BY <2>1 DEF Dequeue, TakeConn, FinishNone, ArmReset, Arm, Check, Claim, Retire
  <2>2. CASE Recheck \/ Disarm \/ Abort \/ Mark \/ Finish
    BY <2>2 DEF Recheck, Disarm, Abort, Mark, Finish
  <2>3. CASE CountContacts \/ Confirm \/ SyncDomain
    BY <2>3 DEF CountContacts, Confirm, SyncDomain
  <2>4. CASE Begin \/ Commit \/ Await
    BY <2>4 DEF Begin, Commit, Await
  <2>6. CASE Cut \/ Drain \/ Leave
    BY <2>6 DEF Cut, Drain, Leave, DisconnectIfDrained, NoFault
  <2>5. CASE Post
    <3>1. Payload \in Notification
      BY <2>5 DEF Post, Payload, Notification, Positive, StoreTypes, Thread, Stage, Stages, InDomain, BatchPc
    <3>2. linked' = linked /\ toBeacon' = toBeacon /\ (Fault \/ NoFault)
      BY <2>5 DEF Post
    <3>3. toBase' = toBase \/ toBase' = toBase \o <<Payload>>
      BY <2>5 DEF Post, Sent
    <3> QED
      <4>1. toBase' \in Seq(Notification)
        <5>1. toBase \o <<Payload>> \in Seq(Notification)
          BY <3>1, Added
        <5> QED
          BY <3>3, <5>1
      <4> QED
        BY <3>2, <4>1
  <2> QED
    BY <2>1, <2>2, <2>3, <2>4, <2>5, <2>6 DEF Transfer
<1>4. FlagTypes'
  <2> USE <1>1 DEF FlagTypes
  <2>1. CASE Dequeue \/ TakeConn \/ FinishNone \/ Cut
    BY <2>1 DEF Dequeue, TakeConn, FinishNone, Cut
  <2>2. CASE Mark \/ Drain \/ Finish
    BY <2>2 DEF Mark, Drain, Finish, DisconnectIfDrained
  <2>3. CASE CountContacts \/ Begin \/ ArmReset \/ Arm \/ Check \/ Claim \/ Post \/ Confirm
    BY <2>3 DEF CountContacts, Begin, ArmReset, Arm, Check, Claim, Post, Confirm
  <2>4. CASE Retire \/ Recheck \/ Await \/ Disarm \/ Abort \/ Commit \/ SyncDomain \/ Leave
    BY <2>4 DEF Retire, Recheck, Await, Disarm, Abort, Commit, SyncDomain, Leave
  <2> QED
    BY <2>1, <2>2, <2>3, <2>4 DEF Transfer
<1>5. CountTypes'
  <2> USE <1>1 DEF CountTypes, Bit
  <2>1. CASE ArmReset \/ Claim \/ Confirm \/ Retire
    BY <2>1 DEF ArmReset, Claim, Confirm, Retire
  <2>2. CASE Await \/ Disarm
    BY <2>2 DEF Await, Disarm
  <2>3. CASE Arm
    BY <2>3 DEF Arm, StoreTypes, Stages, InDomain, DomainPc
  <2>4. CASE Post
    <3>1. current_conn => sent_callbacks = 0
      BY <2>4 DEF Post, Sends, SendPc, Ready, FlagTypes
    <3> QED
      BY <2>4, <3>1 DEF Post
  <2>5. CASE Dequeue \/ TakeConn \/ FinishNone \/ CountContacts \/ Begin \/ Check \/ Cut
    BY <2>5 DEF Dequeue, TakeConn, FinishNone, CountContacts, Begin, Check, Cut
  <2>6. CASE Recheck \/ Abort \/ Commit \/ SyncDomain \/ Mark \/ Drain \/ Finish \/ Leave
    BY <2>6 DEF Recheck, Abort, Commit, SyncDomain, Mark, Drain, Finish, Leave
  <2> QED
    BY <2>1, <2>2, <2>3, <2>4, <2>5, <2>6 DEF Transfer
<1>6. StoreTypes'
  <2> USE <1>1 DEF StoreTypes
  <2>1. CASE Begin
    <3>1. t.stage \in Domain /\ logged' = logged /\ done' = done
      BY <2>1 DEF Begin, Stages, InDomain, DomainPc
    <3>2. \/ reserved' = reserved
          \/ \E n \in 1 .. MaxBatch : /\ n <= logged[t.stage] - done[t.stage]
                                   /\ reserved' = [reserved EXCEPT ![t.stage] = n]
      BY <2>1 DEF Begin
    <3> QED
      BY <3>1, <3>2
  <2>2. CASE Abort
    BY <2>2 DEF Abort, Stages, InDomain, DomainPc
  <2>3. CASE Commit
    <3>1. t.stage \in Domain /\ logged' = logged
      BY <2>3 DEF Commit, Stages, InDomain, DomainPc
    <3>2. reserved' = [reserved EXCEPT ![t.stage] = 0]
      BY <2>3 DEF Commit
    <3>3. done' = done \/ done' = [done EXCEPT ![t.stage] = @ + reserved[t.stage]]
      BY <2>3 DEF Commit
    <3> QED
      BY <3>1, <3>2, <3>3
  <2>4. CASE Dequeue \/ TakeConn \/ FinishNone \/ CountContacts \/ ArmReset \/ Arm \/ Check
    BY <2>4 DEF Dequeue, TakeConn, FinishNone, CountContacts, ArmReset, Arm, Check
  <2>5. CASE Claim \/ Post \/ Confirm \/ Retire \/ Cut \/ Recheck \/ Await \/ Disarm
    BY <2>5 DEF Claim, Post, Confirm, Retire, Cut, Recheck, Await, Disarm
  <2>6. CASE SyncDomain \/ Mark \/ Drain \/ Finish \/ Leave
    BY <2>6 DEF SyncDomain, Mark, Drain, Finish, Leave
  <2> QED
    BY <2>1, <2>2, <2>3, <2>4, <2>5, <2>6 DEF Transfer
<1>7. BaseTypes' /\ OutputTypes'
  BY <1>1, BaseSideKept
<1> QED
  BY <1>2, <1>3, <1>4, <1>5, <1>6, <1>7, TypePartsAfter

LEMMA CallbackTypes ==
  ASSUME TypeOK, Callback \/ IdleTimeout(Quiet) \/ Record, UNCHANGED baseVars
  PROVE  TypeOK'
<1> USE FaultAssumption, BeaconAssumption
        DEF wireVars, connVars, sendVars, ackVars, storeVars
<1>1. WireTypes /\ FlagTypes /\ CountTypes /\ t \in Thread /\ StoreTypes /\ BaseTypes /\ OutputTypes
  BY TypeParts
<1>2. BaseTypes' /\ OutputTypes'
  BY <1>1, BaseSideKept
<1>3. CASE BeaconReceives
  <2>1. toBeacon' \in Seq(Write)
    BY <1>1, <1>3, Taken DEF BeaconReceives, WireTypes
  <2>2. WireTypes' /\ t' \in Thread /\ StoreTypes'
    BY <1>1, <1>3, <2>1 DEF BeaconReceives, WireTypes, StoreTypes
  <2>3. FlagTypes' /\ CountTypes'
    BY <1>1, <1>3
    DEF BeaconReceives, SendEnabled, StartCommand, HandleAck, FlagTypes, CountTypes, Bit
  <2> QED
    BY <1>2, <2>2, <2>3, TypePartsAfter
<1>4. CASE OnSent
  <2>1. WireTypes'
    BY <1>1, <1>4, HangUpTyped DEF OnSent, DisconnectIfDrained, WireTypes
  <2>2. FlagTypes'
    BY <1>1, <1>4 DEF OnSent, DisconnectIfDrained, FlagTypes
  <2>3. CountTypes'
    BY <1>1, <1>4 DEF OnSent, CountTypes, Bit
  <2>4. t' \in Thread /\ StoreTypes'
    BY <1>1, <1>4 DEF OnSent, StoreTypes
  <2> QED
    BY <1>2, <2>1, <2>2, <2>3, <2>4, TypePartsAfter
<1>5. CASE OnDisconnected
  <2>1. WireTypes'
    BY <1>1, <1>5, EmptySeq DEF OnDisconnected, WireTypes
  <2>2. FlagTypes'
    BY <1>1, <1>5 DEF OnDisconnected, FlagTypes
  <2>3. CountTypes' /\ t' \in Thread /\ StoreTypes'
    BY <1>1, <1>5 DEF OnDisconnected, CountTypes, Bit, StoreTypes
  <2> QED
    BY <1>2, <2>1, <2>2, <2>3, TypePartsAfter
<1>6. CASE IdleTimeout(Quiet)
  <2>1. WireTypes'
    BY <1>1, <1>6, HangUpTyped, FaultTyped DEF IdleTimeout, WireTypes
  <2>2. FlagTypes' /\ CountTypes' /\ t' \in Thread /\ StoreTypes'
    BY <1>1, <1>6 DEF IdleTimeout, FlagTypes, CountTypes, StoreTypes
  <2> QED
    BY <1>2, <2>1, <2>2, TypePartsAfter
<1>7. CASE Record
  <2>1. StoreTypes'
    BY <1>1, <1>7 DEF Record, StoreTypes
  <2>2. WireTypes' /\ FlagTypes' /\ CountTypes' /\ t' \in Thread
    BY <1>1, <1>7 DEF Record, WireTypes, FlagTypes, CountTypes
  <2> QED
    BY <1>2, <2>1, <2>2, TypePartsAfter
<1> QED
  BY <1>3, <1>4, <1>5, <1>6, <1>7 DEF Callback

(* Acknowledging a batch adds a well-formed message, or none.              *)
LEMMA ReceivedWrites ==
  ASSUME toBase \in Seq(Notification), toBeacon \in Seq(Write), DataReceived
  PROVE  toBeacon' \in Seq(Write)
<1>1. PICK m : m = Head(toBase)
  OBVIOUS
<1>2. PICK ack : ack = [kind |-> "ack", domain |-> m.domain, count |-> m.count]
  OBVIOUS
<1>3. m \in Notification
  BY <1>1, Taken DEF DataReceived
<1>4. toBeacon' = toBeacon \/ (m.kind = "batch" /\ toBeacon' = Sent(toBeacon, <<ack>>))
  BY <1>1, <1>2 DEF DataReceived, Ackable
<1>5. CASE m.kind = "batch" /\ toBeacon' = toBeacon \o <<ack>>
  <2>1. ack \in Write
    BY <1>2, <1>3, <1>5 DEF Notification, Write
  <2> QED
    BY <1>5, <2>1, Added
<1> QED
  BY <1>4, <1>5 DEF Sent

LEMMA BaseStepTypes ==
  ASSUME TypeOK, Base \/ RxIdleTimeout(Quiet), UNCHANGED beaconVars
  PROVE  TypeOK'
<1> USE FaultAssumption, BaseAssumption
        DEF wireVars, radioVars, scanVars, nusVars
<1>1. WireTypes /\ FlagTypes /\ CountTypes /\ t \in Thread /\ StoreTypes /\ BaseTypes /\ OutputTypes
  BY TypeParts
<1>2. FlagTypes' /\ CountTypes' /\ t' \in Thread /\ StoreTypes'
  BY <1>1, BeaconSideKept
<1>3. BaseTypes'
  <2> USE <1>1 DEF BaseTypes
  <2>1. CASE PressStart
    <3>1. /\ stop_after_finished_requested' \in BOOLEAN /\ scanning_requested' \in BOOLEAN
          /\ scan_start' \in {"none", "button", "rx"}
      BY <2>1, ScanningStarted DEF PressStart
    <3>2. presses' \in 0 .. MaxPresses
      BY <2>1 DEF PressStart, Press
    <3> QED
      BY <2>1, <3>1, <3>2 DEF PressStart, Press
  <2>2. CASE PressStop
    <3>1. scanner' = FALSE \/ scanner' = scanner
      BY <2>2 DEF PressStop
    <3>2. /\ stop_after_finished_requested' = TRUE /\ scanning_requested' = FALSE
          /\ asked' \in {"start", "finish", "stop"}
          /\ UNCHANGED <<radioVars, scan_recv, scan_start, nusVars>>
      BY <2>2 DEF PressStop, Press
    <3>3. presses' \in 0 .. MaxPresses
      BY <2>2 DEF PressStop, Press
    <3> QED
      BY <3>1, <3>2, <3>3
  <2>3. CASE ScanStarts
    BY <2>3 DEF ScanStarts
  <2>10. CASE ScanMatch
    BY <2>10 DEF ScanMatch
  <2>4. CASE CreateConn
    <3>1. /\ stop_after_finished_requested' \in BOOLEAN /\ scanning_requested' \in BOOLEAN
          /\ scan_start' \in {"none", "button", "rx"} /\ asked' \in {"start", "finish", "stop"}
      BY <2>4, Rescanned DEF CreateConn, HandEmpty
    <3> QED
      BY <2>4, <3>1 DEF CreateConn
  <2>5. CASE ReadyForNus
    BY <2>5 DEF ReadyForNus
  <2>6. CASE Discovered \/ DataReceived
    BY <2>6 DEF Discovered, DataReceived
  <2>7. CASE FinishDisconnect
    BY <2>7 DEF FinishDisconnect
  <2>8. CASE BaseDisconnected
    <3>1. /\ stop_after_finished_requested' \in BOOLEAN /\ scanning_requested' \in BOOLEAN
          /\ scan_start' \in {"none", "button", "rx"}
      BY <2>8, ScanningStarted DEF BaseDisconnected
    <3>2. asked' \in {"start", "finish", "stop"}
      BY <2>8 DEF BaseDisconnected, HandEmpty
    <3> QED
      BY <2>8, <3>1, <3>2 DEF BaseDisconnected
  <2>9. CASE RxIdleTimeout(Quiet)
    BY <2>9 DEF RxIdleTimeout, TransferFinished
  <2> QED
    BY <2>1, <2>2, <2>3, <2>4, <2>5, <2>6, <2>7, <2>8, <2>9, <2>10 DEF Base
<1>4. WireTypes' /\ OutputTypes'
  <2> USE <1>1, FaultTyped DEF WireTypes, OutputTypes
  <2>1. CASE PressStart \/ PressStop \/ ScanStarts \/ ScanMatch
    BY <2>1 DEF PressStart, PressStop, Press, ScanStarts, ScanMatch
  <2>2. CASE CreateConn \/ ReadyForNus
    BY <2>2 DEF CreateConn, ReadyForNus, NoFault
  <2>3. CASE Discovered
    <3> DEFINE subscribe == [kind |-> "subscribe"]
               start == [kind |-> "st"]
    <3>1. subscribe \in Write /\ start \in Write
      BY DEF Write
    <3>2. <<subscribe, start>> \in Seq(Write) /\ <<subscribe>> \in Seq(Write)
      BY <3>1
    <3>3. toBeacon' \in {toBeacon, toBeacon \o <<subscribe, start>>, toBeacon \o <<subscribe>>}
      BY <2>3 DEF Discovered, Sent
    <3>4. toBeacon' \in Seq(Write)
      BY <3>2, <3>3, ConcatProperties
    <3> QED
      BY <2>3, <3>4 DEF Discovered
  <2>4. CASE DataReceived
    <3> DEFINE m == Head(toBase)
               ack == [kind |-> "ack", domain |-> m.domain, count |-> m.count]
    <3>1. toBase' \in Seq(Notification) /\ m \in Notification
      BY <2>4, Taken DEF DataReceived
    <3>2. m.kind = "batch" => ack \in Write /\ Entries(m) \subseteq Domain \X Positive
      BY <3>1 DEF Notification, Write, Entries, Positive
    <3>3. toBeacon' \in Seq(Write)
      BY <2>4, ReceivedWrites
    <3>4. OutputTypes'
      BY <2>4, <3>2 DEF DataReceived, Ackable
    <3>5. linked' = linked /\ faults' \in 0 .. MaxFaults
      BY <2>4 DEF DataReceived
    <3> QED
      BY <3>1, <3>3, <3>4, <3>5
  <2>5. CASE FinishDisconnect \/ RxIdleTimeout(Quiet)
    BY <2>5 DEF FinishDisconnect, RxIdleTimeout
  <2>6. CASE BaseDisconnected
    BY <2>6, EmptySeq DEF BaseDisconnected
  <2> QED
    BY <2>1, <2>2, <2>3, <2>4, <2>5, <2>6 DEF Base
<1> QED
  BY <1>2, <1>3, <1>4, TypePartsAfter

LEMMA TypeStep ==
  ASSUME TypeOK, Stages, Sends, [Next]_vars
  PROVE  TypeOK'
<1> USE FaultAssumption, BeaconAssumption
        DEF wireVars, connVars, sendVars, ackVars, storeVars, radioVars, scanVars, nusVars
<1>1. WireTypes /\ FlagTypes /\ CountTypes /\ t \in Thread /\ StoreTypes /\ BaseTypes /\ OutputTypes
  BY TypeParts
<1>2. CASE Connect
  <2>1. WireTypes' /\ FlagTypes'
    BY <1>1, <1>2 DEF Connect, OnConnected, WireTypes, FlagTypes
  <2>2. CountTypes' /\ t' \in Thread /\ StoreTypes'
    BY <1>1, <1>2 DEF Connect, CountTypes, StoreTypes
  <2>3. BaseTypes' /\ OutputTypes'
    BY <1>1, <1>2 DEF Connect, BaseConnected, BaseTypes, OutputTypes
  <2> QED
    BY <2>1, <2>2, <2>3, TypePartsAfter
<1>3. CASE NoConnect
  <2>1. WireTypes' /\ OutputTypes'
    BY <1>1, <1>3 DEF NoConnect, ConnectFails, WireTypes, OutputTypes
  <2>3. BaseTypes'
    <3>1. /\ stop_after_finished_requested' \in BOOLEAN /\ scanning_requested' \in BOOLEAN
          /\ scan_start' \in {"none", "button", "rx"} /\ asked' \in {"start", "finish", "stop"}
      BY <1>1, <1>3, Rescanned DEF NoConnect, ConnectFails, HandEmpty, BaseTypes
    <3> QED
      BY <1>1, <1>3, <3>1 DEF NoConnect, ConnectFails, BaseTypes
  <2>2. FlagTypes' /\ CountTypes' /\ t' \in Thread /\ StoreTypes'
    BY <1>1, <1>3, BeaconSideKept DEF NoConnect
  <2> QED
    BY <2>1, <2>2, <2>3, TypePartsAfter
<1>4. CASE Environment
  <2>1. WireTypes'
    <3>1. toBase' \in Seq(Notification) /\ toBeacon' \in Seq(Write)
      <4>1. CASE toBase # <<>> /\ toBase' = Tail(toBase) /\ toBeacon' = toBeacon
        BY <1>1, <4>1, Taken DEF WireTypes
      <4>2. CASE toBase' = toBase /\ toBeacon' = toBeacon
        BY <1>1, <4>2 DEF WireTypes
      <4> QED
        BY <1>4, <4>1, <4>2 DEF Environment, LinkLoss, LoseNotification
    <3>2. linked' \in BOOLEAN /\ (Fault \/ NoFault)
      BY <1>1, <1>4 DEF Environment, LinkLoss, LoseNotification, WireTypes
    <3> QED
      BY <1>1, <3>1, <3>2, FaultTyped DEF WireTypes
  <2>2. FlagTypes' /\ CountTypes' /\ t' \in Thread /\ StoreTypes'
    BY <1>1, <1>4, BeaconSideKept DEF Environment
  <2>3. BaseTypes' /\ OutputTypes'
    BY <1>1, <1>4, BaseSideKept DEF Environment
  <2> QED
    BY <2>1, <2>2, <2>3, TypePartsAfter
<1>5. CASE BeaconStep
  BY <1>5, TransferTypes, CallbackTypes DEF BeaconStep
<1>6. CASE BaseStep
  BY <1>6, BaseStepTypes DEF BaseStep
<1>7. CASE UNCHANGED vars
  <2>1. FlagTypes' /\ CountTypes' /\ t' \in Thread /\ StoreTypes'
    BY <1>1, <1>7, BeaconSideKept DEF vars
  <2>2. WireTypes' /\ BaseTypes' /\ OutputTypes'
    BY <1>1, <1>7, BaseSideKept DEF vars, WireTypes
  <2> QED
    BY <2>1, <2>2, TypePartsAfter
<1> QED
  BY <1>2, <1>3, <1>4, <1>5, <1>6, <1>7 DEF Next

(* Where each step of the transfer thread leaves it.                       *)
Moved(label) == t'.pc = label /\ t'.stage = t.stage
Ended ==
  /\ InDomain
  /\ \/ t'.pc = "finish" /\ t'.stage = t.stage /\ t'.ok = FALSE
     \/ /\ t'.stage = StageAfter[t.stage] /\ t'.ok = TRUE
        /\ t'.pc = IF t'.stage \in Domain THEN "begin" ELSE "check"
Unsent ==
  /\ t'.stage = t.stage /\ t'.ok = FALSE
  /\ t'.pc = IF InDomain THEN "abort" ELSE "finish"
Accepted ==
  \/ t.stage = "status" /\ t'.stage = "contacts" /\ t'.pc = "begin" /\ t'.ok = TRUE
  \/ InDomain /\ t'.stage = t.stage /\ t'.pc = "await" /\ t'.ok = t.ok
  \/ t.stage = "finished" /\ t'.stage = t.stage /\ t'.pc = "mark" /\ t'.ok = t.ok

LEMMA StartMoves ==
  ASSUME t \in Thread, Stages
  PROVE  /\ Dequeue => At("idle") /\ Moved("take")
         /\ TakeConn => /\ At("take") /\ t'.stage = "status" /\ t'.ok = TRUE
                        /\ t'.pc = IF transfer_conn THEN "count" ELSE "none"
         /\ FinishNone => At("none") /\ Moved("idle")
         /\ CountContacts => /\ At("count") /\ t.stage = "status"
                             /\ Moved("check") \/ (Moved("finish") /\ t'.ok = FALSE)
         /\ Begin => At("begin") /\ InDomain /\ (Moved("arm_reset") \/ Moved("sync") \/ Ended)
         /\ ArmReset => At("arm_reset") /\ InDomain /\ Moved("arm")
         /\ Arm => At("arm") /\ InDomain /\ Moved("check")
<1> USE GotoMoves, GotoWithMoves, EndStageMoves DEF At, Moved, Ended, Stages, DomainPc, PC
<1>1. Dequeue => At("idle") /\ Moved("take")
  BY DEF Dequeue
<1>2. TakeConn => /\ At("take") /\ t'.stage = "status" /\ t'.ok = TRUE
                  /\ t'.pc = IF transfer_conn THEN "count" ELSE "none"
  BY DEF TakeConn
<1>3. FinishNone => At("none") /\ Moved("idle")
  BY DEF FinishNone
<1>4. CountContacts => /\ At("count") /\ t.stage = "status"
                       /\ Moved("check") \/ (Moved("finish") /\ t'.ok = FALSE)
  BY DEF CountContacts
<1>5. Begin => At("begin") /\ InDomain /\ (Moved("arm_reset") \/ Moved("sync") \/ Ended)
  BY DEF Begin
<1>6. ArmReset => At("arm_reset") /\ InDomain /\ Moved("arm")
  BY DEF ArmReset
<1>7. Arm => At("arm") /\ InDomain /\ Moved("check")
  BY DEF Arm
<1> QED
  BY <1>1, <1>2, <1>3, <1>4, <1>5, <1>6, <1>7

LEMMA SendMoves ==
  ASSUME t \in Thread, Stages
  PROVE  /\ Check => At("check") /\ (IF Ready THEN Moved("claim") ELSE Unsent)
         /\ Claim => At("claim") /\ (IF pending_nus_sends = 0 THEN Moved("post") ELSE Unsent)
         /\ Post => At("post") /\ (Moved("confirm") \/ Unsent)
         /\ Confirm => At("confirm") /\ (Moved("recheck") \/ Moved("retire"))
         /\ Retire => At("retire") /\ Moved("cut")
         /\ Cut => At("cut") /\ Unsent
         /\ Recheck => At("recheck") /\ (IF Ready THEN Accepted ELSE Unsent)
<1> USE GotoMoves, GotoWithMoves, AfterUnsentMoves, AfterSentMoves DEF At, Moved, Unsent, Accepted, PC
<1>1. Check => At("check") /\ (IF Ready THEN Moved("claim") ELSE Unsent)
  BY DEF Check
<1>2. Claim => At("claim") /\ (IF pending_nus_sends = 0 THEN Moved("post") ELSE Unsent)
  BY DEF Claim
<1>3. Post => At("post") /\ (Moved("confirm") \/ Unsent)
  BY DEF Post
<1>4. Confirm => At("confirm") /\ (Moved("recheck") \/ Moved("retire"))
  BY DEF Confirm
<1>5. Retire => At("retire") /\ Moved("cut")
  BY DEF Retire
<1>6. Cut => At("cut") /\ Unsent
  BY DEF Cut
<1>7. Recheck => At("recheck") /\ (IF Ready THEN Accepted ELSE Unsent)
  BY DEF Recheck
<1> QED
  BY <1>1, <1>2, <1>3, <1>4, <1>5, <1>6, <1>7

LEMMA EndMoves ==
  ASSUME t \in Thread, Stages
  PROVE  /\ Await => At("await") /\ InDomain /\ Moved("disarm") /\ (t'.ok = TRUE => nus_ack_sem = 1)
         /\ Disarm => At("disarm") /\ InDomain /\ (IF t.ok THEN Moved("commit") ELSE Moved("abort") /\ t'.ok = TRUE)
         /\ Abort => At("abort") /\ Ended
         /\ Commit => At("commit") /\ InDomain /\ (Moved("begin") \/ Ended)
         /\ SyncDomain => At("sync") /\ Ended
         /\ Mark => At("mark") /\ t.stage = "finished" /\ Moved("drain")
         /\ Drain => At("drain") /\ t.stage = "finished" /\ Moved("finish") /\ t'.ok = TRUE
         /\ Finish => At("finish") /\ Moved("leave") /\ t'.ok = t.ok
         /\ Leave => At("leave") /\ t'.pc = "idle"
<1> USE GotoMoves, GotoWithMoves, EndStageMoves DEF At, Moved, Ended, Stages, DomainPc, PC
<1>1. Await => At("await") /\ InDomain /\ Moved("disarm") /\ (t'.ok = TRUE => nus_ack_sem = 1)
  BY DEF Await
<1>2. Disarm => At("disarm") /\ InDomain /\ (IF t.ok THEN Moved("commit") ELSE Moved("abort") /\ t'.ok = TRUE)
  BY DEF Disarm, Thread
<1>3. Abort => At("abort") /\ Ended
  BY DEF Abort, Thread
<1>4. Commit => At("commit") /\ InDomain /\ (Moved("begin") \/ Ended)
  BY DEF Commit
<1>5. SyncDomain => At("sync") /\ Ended
  BY DEF SyncDomain
<1>6. Mark => At("mark") /\ t.stage = "finished" /\ Moved("drain")
  BY DEF Mark
<1>7. Drain => At("drain") /\ t.stage = "finished" /\ Moved("finish") /\ t'.ok = TRUE
  BY DEF Drain
<1>8. Finish => At("finish") /\ Moved("leave") /\ t'.ok = t.ok
  BY DEF Finish
<1>9. Leave => At("leave") /\ t'.pc = "idle"
  BY DEF Leave
<1> QED
  BY <1>1, <1>2, <1>3, <1>4, <1>5, <1>6, <1>7, <1>8, <1>9

-----------------------------------------------------------------------------
(* The thread's stages, and whose entries are reserved.                    *)

(* Only the transfer thread moves itself and gives up or takes entries.    *)
LEMMA OthersStay ==
  ASSUME [Next]_vars
  PROVE  \/ Transfer /\ UNCHANGED baseVars
         \/ t' = t /\ reserved' = reserved /\ done' = done
<1> USE DEF beaconVars, storeVars
<1>1. CASE Connect \/ NoConnect \/ Environment \/ BaseStep
  BY <1>1 DEF Connect, NoConnect, Environment, BaseStep
<1>2. CASE BeaconStep /\ ~Transfer
  BY <1>2 DEF BeaconStep, Callback, BeaconReceives, OnSent, OnDisconnected, IdleTimeout, Record
<1>3. CASE BeaconStep /\ Transfer
  BY <1>3 DEF BeaconStep
<1>4. CASE UNCHANGED vars
  BY <1>4 DEF vars
<1> QED
  BY <1>1, <1>2, <1>3, <1>4 DEF Next

LEMMA StagesStep ==
  ASSUME TypeOK, Stages, [Next]_vars
  PROVE  Stages'
<1>0. t \in Thread /\ reserved \in [Domain -> 0 .. MaxBatch]
  BY DEF TypeOK, Thread
<1>1. CASE t' = t /\ reserved' = reserved /\ done' = done
  BY <1>1 DEF Stages, InDomain
<1>2. CASE Transfer
  <2> USE DEF Stages, InDomain, DomainPc, SendPc, BatchPc, At, Moved, storeVars
  <2>1. CASE Dequeue
    BY <1>0, <2>1, StartMoves DEF Dequeue
  <2>2. CASE TakeConn
    BY <1>0, <2>2, StartMoves, StageOrder DEF TakeConn
  <2>3. CASE FinishNone
    BY <1>0, <2>3, StartMoves DEF FinishNone
  <2>4. CASE CountContacts
    BY <1>0, <2>4, StartMoves DEF CountContacts
  <2>5. CASE Begin
    <3>1. At("begin") /\ InDomain /\ (Moved("arm_reset") \/ Moved("sync") \/ Ended)
      BY <1>0, <2>5, StartMoves
    <3>2. \/ reserved' = reserved /\ ~Moved("arm_reset")
          \/ /\ Moved("arm_reset")
             /\ \E n \in 1 .. MaxBatch : reserved' = [reserved EXCEPT ![t.stage] = n]
      BY <1>0, <2>5, EndStageMoves, GotoMoves DEF Begin, PC
    <3>3. CASE reserved' = reserved /\ ~Moved("arm_reset")
      BY <1>0, <3>1, <3>3, StageOrder DEF Ended
    <3>4. CASE Moved("arm_reset") /\ \E n \in 1 .. MaxBatch : reserved' = [reserved EXCEPT ![t.stage] = n]
      <4>1. PICK n \in 1 .. MaxBatch : reserved' = [reserved EXCEPT ![t.stage] = n]
        BY <3>4
      <4>2. n # 0 /\ \A d \in Domain : reserved[d] = 0
        BY <3>1, BeaconAssumption
      <4> QED
        BY <1>0, <3>1, <3>4, <4>1, <4>2
    <3> QED
      BY <3>2, <3>3, <3>4
  <2>6. CASE ArmReset
    BY <1>0, <2>6, StartMoves DEF ArmReset
  <2>7. CASE Arm
    BY <1>0, <2>7, StartMoves DEF Arm
  <2>8. CASE Check
    BY <1>0, <2>8, SendMoves DEF Check, Unsent
  <2>9. CASE Claim
    BY <1>0, <2>9, SendMoves DEF Claim, Unsent
  <2>10. CASE Post
    BY <1>0, <2>10, SendMoves DEF Post, Unsent
  <2>11. CASE Confirm
    BY <1>0, <2>11, SendMoves DEF Confirm
  <2>12. CASE Retire
    BY <1>0, <2>12, SendMoves DEF Retire
  <2>13. CASE Cut
    BY <1>0, <2>13, SendMoves DEF Cut, Unsent
  <2>14. CASE Recheck
    BY <1>0, <2>14, SendMoves DEF Recheck, Unsent, Accepted, Domain
  <2>15. CASE Await
    BY <1>0, <2>15, EndMoves DEF Await
  <2>16. CASE Disarm
    BY <1>0, <2>16, EndMoves DEF Disarm
  <2>17. CASE Abort
    BY <1>0, <2>17, EndMoves, StageOrder, BeaconAssumption DEF Abort, Ended
  <2>18. CASE Commit
    BY <1>0, <2>18, EndMoves, StageOrder, BeaconAssumption DEF Commit, Ended
  <2>19. CASE SyncDomain
    BY <1>0, <2>19, EndMoves, StageOrder DEF SyncDomain, Ended
  <2>20. CASE Mark
    BY <1>0, <2>20, EndMoves DEF Mark
  <2>21. CASE Drain
    BY <1>0, <2>21, EndMoves DEF Drain
  <2>22. CASE Finish
    BY <1>0, <2>22, EndMoves DEF Finish
  <2>23. CASE Leave
    BY <1>0, <2>23, EndMoves, StageOrder DEF Leave
  <2> QED
    BY <1>2, <2>1, <2>2, <2>3, <2>4, <2>5, <2>6, <2>7, <2>8, <2>9, <2>10, <2>11, <2>12, <2>13, <2>14, <2>15, <2>16, <2>17, <2>18, <2>19, <2>20, <2>21, <2>22, <2>23 DEF Transfer
<1> QED
  BY <1>1, <1>2, OthersStay

-----------------------------------------------------------------------------
(* The connection as both sides and the link layer see it.                 *)

(* The transfer thread never makes a connection, and only sends on it.     *)
LEMMA TransferLink ==
  ASSUME TypeOK, Transfer
  PROVE  /\ current_conn' = current_conn /\ toBeacon' = toBeacon
         /\ linked' => linked
         /\ nus_notifications_enabled' => nus_notifications_enabled
         /\ nus_notifications_enabled /\ ~nus_notifications_enabled' => Cut
         /\ transfer_conn' => transfer_conn
         /\ toBase' = toBase \/ (Post /\ linked /\ toBase' = toBase \o <<Payload>>)
<1> USE DEF wireVars, connVars, HangUp
<1>1. CASE Dequeue \/ TakeConn \/ FinishNone \/ ArmReset \/ Arm \/ Check \/ Claim \/ Retire
  BY <1>1 DEF Dequeue, TakeConn, FinishNone, ArmReset, Arm, Check, Claim, Retire
<1>2. CASE Recheck \/ Disarm \/ Abort \/ Mark \/ Finish
  BY <1>2 DEF Recheck, Disarm, Abort, Mark, Finish
<1>3. CASE CountContacts \/ Confirm \/ SyncDomain \/ Begin \/ Commit \/ Await
  <2>1. UNCHANGED <<linked, toBase, toBeacon, connVars>>
    BY <1>3 DEF CountContacts, Confirm, SyncDomain, Begin, Commit, Await
  <2> QED
    BY <2>1
<1>4. CASE Cut
  BY <1>4 DEF Cut
<1>5. CASE Drain \/ Leave
  <2>1. UNCHANGED <<toBase, toBeacon, connVars>>
    BY <1>5 DEF Drain, Leave
  <2>2. linked' => linked
    BY <1>5 DEF Drain, Leave, DisconnectIfDrained, NoFault
  <2> QED
    BY <2>1, <2>2
<1>6. CASE Post
  BY <1>6 DEF Post, Sent
<1> QED
  BY <1>1, <1>2, <1>3, <1>4, <1>5, <1>6 DEF Transfer

LEMMA EndsStep ==
  ASSUME TypeOK, Ends, [Next]_vars
  PROVE  Ends'
<1> USE DEF Ends, Connection, wireVars, connVars, radioVars, scanVars, nusVars
<1>0. WireTypes /\ FlagTypes /\ BaseTypes
  BY TypeParts
<1>1. CASE Connect
  BY <1>1 DEF Connect, BaseConnected, OnConnected, SlotFree
<1>2. CASE NoConnect
  BY <1>2 DEF NoConnect, ConnectFails, beaconVars
<1>3. CASE Environment
  <2>1. \/ linked' = FALSE /\ toBase' = toBase
        \/ linked' = linked /\ toBase # <<>>
    BY <1>3 DEF Environment, LinkLoss, LoseNotification
  <2>2. toBeacon' = toBeacon /\ UNCHANGED <<beaconVars, baseVars>>
    BY <1>3 DEF Environment, LinkLoss, LoseNotification
  <2> QED
    BY <2>1, <2>2 DEF beaconVars, baseVars
<1>4. CASE Transfer /\ UNCHANGED baseVars
  <2>1. /\ current_conn' = current_conn /\ toBeacon' = toBeacon
        /\ linked' => linked
        /\ toBase' # <<>> => toBase # <<>> \/ linked
    BY <1>0, <1>4, TransferLink DEF WireTypes
  <2>2. (nus_notifications_enabled' => nus_notifications_enabled) /\ (transfer_conn' => transfer_conn)
    BY <1>0, <1>4, TransferLink DEF FlagTypes
  <2>3. UNCHANGED baseVars
    BY <1>4
  <2> QED
    BY <2>1, <2>2, <2>3 DEF baseVars
<1>5. CASE BeaconReceives /\ UNCHANGED baseVars
  BY <1>0, <1>5 DEF BeaconReceives, SendEnabled, StartCommand, HandleAck, StartRefused, Ready, baseVars
<1>6. CASE OnSent /\ UNCHANGED baseVars
  BY <1>0, <1>6 DEF OnSent, DisconnectIfDrained, HangUp, baseVars
<1>7. CASE OnDisconnected /\ UNCHANGED baseVars
  BY <1>7 DEF OnDisconnected, baseVars
<1>8. CASE (IdleTimeout(Quiet) \/ Record) /\ UNCHANGED baseVars
  <2>1. linked' = FALSE \/ linked' = linked
    BY <1>8 DEF IdleTimeout, Record, HangUp
  <2>2. UNCHANGED <<toBase, toBeacon, connVars>> /\ UNCHANGED baseVars
    BY <1>8 DEF IdleTimeout, Record
  <2> QED
    BY <2>1, <2>2 DEF baseVars
<1>9. CASE BaseStep
  <2>1. UNCHANGED beaconVars
    BY <1>9 DEF BaseStep
  <2> USE <1>0, <2>1 DEF beaconVars
  <2>2. CASE PressStart \/ PressStop \/ ScanStarts \/ ScanMatch \/ RxIdleTimeout(Quiet)
    BY <2>2 DEF PressStart, PressStop, Press, ScanStarts, ScanMatch, RxIdleTimeout
  <2>3. CASE CreateConn
    BY <2>3 DEF CreateConn
  <2>4. CASE ReadyForNus
    BY <2>4 DEF ReadyForNus
  <2>5. CASE Discovered
    <3>1. toBeacon' = toBeacon \/ linked
      BY <2>5 DEF Discovered, Sent
    <3> QED
      BY <2>5, <3>1 DEF Discovered
  <2>6. CASE DataReceived
    <3>1. toBeacon' = toBeacon \/ linked
      BY <2>6 DEF DataReceived, Sent
    <3> QED
      BY <2>6, <3>1 DEF DataReceived
  <2>7. CASE FinishDisconnect
    BY <2>7 DEF FinishDisconnect
  <2>8. CASE BaseDisconnected
    BY <2>8 DEF BaseDisconnected
  <2> QED
    BY <1>9, <2>2, <2>3, <2>4, <2>5, <2>6, <2>7, <2>8 DEF BaseStep, Base
<1>10. CASE UNCHANGED vars
  BY <1>10 DEF vars, beaconVars, baseVars
<1> QED
  BY <1>1, <1>2, <1>3, <1>4, <1>5, <1>6, <1>7, <1>8, <1>9, <1>10 DEF Next, BeaconStep, Callback

-----------------------------------------------------------------------------
(* The scan.                                                               *)

(* Rescanning never withdraws a stop request; it sets what it may only      *)
(* while the operator's last word is "start".                              *)
LEMMA RescanHeeds ==
  ASSUME StopIsFinal, TypeOK, Rescan \/ UNCHANGED <<scanning_requested, stop_after_finished_requested>>,
         NEW last, last # "start" => asked # "start"
  PROVE  last # "start" => stop_after_finished_requested' /\ ~scanning_requested'
BY DEF StopIsFinal, Rescan, StartScanning

(* What was in hand at a stop ends, and nothing else is taken in hand.     *)
LEMMA StopStep ==
  ASSUME TypeOK, Ends, StopIsFinal, [Next]_vars
  PROVE  StopIsFinal'
<1> USE DEF InHand
<1>0. BaseTypes
  BY TypeParts
<1>1. CASE UNCHANGED <<asked, stop_after_finished_requested, scanning_requested>> /\ (InHand' => InHand)
  BY <1>1 DEF StopIsFinal
<1>2. CASE asked' = "start"
  BY <1>2 DEF StopIsFinal
<1>3. ASSUME HandEmpty, ~InHand',
             Rescan \/ UNCHANGED <<scanning_requested, stop_after_finished_requested>>
      PROVE  StopIsFinal'
  BY <1>3, RescanHeeds DEF HandEmpty, StopIsFinal
<1>4. CASE Connect
  BY <1>1, <1>4 DEF Connect, BaseConnected, scanVars
<1>5. CASE Environment \/ BeaconStep \/ UNCHANGED vars
  BY <1>1, <1>5 DEF Environment, BeaconStep, baseVars, radioVars, scanVars, vars
<1>6. CASE NoConnect
  BY <1>3, <1>6 DEF NoConnect, ConnectFails, Ends
<1>7. CASE PressStart
  BY <1>2, <1>7 DEF PressStart
<1>8. CASE PressStop
  <2>1. /\ stop_after_finished_requested' /\ ~scanning_requested'
        /\ asked' = IF InHand THEN "finish" ELSE "stop"
        /\ InHand' <=> InHand
    BY <1>8 DEF PressStop, Press, radioVars
  <2> QED
    BY <2>1 DEF StopIsFinal
<1>9. CASE ScanStarts
  BY <1>1, <1>9 DEF ScanStarts, radioVars
<1>10. CASE ScanMatch
  BY <1>0, <1>2, <1>10 DEF ScanMatch, StopIsFinal
<1>11. CASE CreateConn
  BY <1>1, <1>3, <1>11 DEF CreateConn
<1>12. CASE ReadyForNus \/ Discovered \/ DataReceived \/ FinishDisconnect \/ RxIdleTimeout(Quiet)
  BY <1>1, <1>12
  DEF ReadyForNus, Discovered, DataReceived, FinishDisconnect, RxIdleTimeout, radioVars, scanVars
<1>13. CASE BaseDisconnected
  <2>1. HandEmpty /\ ~InHand'
    BY <1>13 DEF BaseDisconnected, Connection, Ends
  <2>2. CASE stop_after_finished_requested
    BY <1>13, <2>1, <2>2 DEF BaseDisconnected, HandEmpty, StopIsFinal
  <2>3. CASE ~stop_after_finished_requested
    BY <1>2, <2>1, <2>3 DEF HandEmpty, StopIsFinal
  <2> QED
    BY <2>2, <2>3
<1> QED
  BY <1>4, <1>5, <1>6, <1>7, <1>8, <1>9, <1>10, <1>11, <1>12, <1>13 DEF Next, BaseStep, Base

-----------------------------------------------------------------------------
(* Which transfer is active, and how a connection's transfer begins.       *)

(* A start command that arrives is the first thing the thread is to do.    *)
LEMMA StartArrives ==
  ASSUME TypeOK, Starts, toBeacon # <<>>, Head(toBeacon).kind \in {"st", "subscribe"}
  PROVE  Commanded /\ ~transfer_conn /\ ~HoldsRef
<1>1. 1 \in DOMAIN toBeacon /\ toBeacon[1].kind \in {"st", "subscribe"}
  BY Taken DEF TypeOK
<1>2. Commanded
  BY <1>1 DEF Commanded
<1> QED
  BY <1>2 DEF Starts

LEMMA ActiveStep ==
  ASSUME TypeOK, Stages, Starts, Active, [Next]_vars
  PROVE  Active'
<1>0. FlagTypes /\ t \in Thread
  BY TypeParts
<1>1. CASE Transfer /\ UNCHANGED baseVars
  <2> USE <1>0 DEF Active, HoldsRef, At, Moved, Ended, Unsent, Accepted, connVars
  <2>1. CASE Dequeue
    BY <2>1, StartMoves DEF Dequeue
  <2>2. CASE TakeConn
    BY <2>2, StartMoves DEF TakeConn, FlagTypes
  <2>3. CASE FinishNone
    BY <2>3 DEF FinishNone
  <2>4. CASE Finish
    BY <2>4 DEF Finish
  <2>5. CASE Leave
    BY <2>5 DEF Leave
  <2>6. CASE CountContacts \/ ArmReset \/ Arm
    BY <2>6, StartMoves DEF CountContacts, ArmReset, Arm
  <2>7. CASE Begin
    BY <2>7, StartMoves DEF Begin
  <2>8. CASE Check \/ Claim \/ Post \/ Confirm \/ Retire
    BY <2>8, SendMoves DEF Check, Claim, Post, Confirm, Retire
  <2>9. CASE Cut
    BY <2>9, SendMoves DEF Cut
  <2>10. CASE Recheck
    BY <2>10, SendMoves DEF Recheck
  <2>11. CASE Await \/ Disarm \/ Mark \/ Drain
    BY <2>11, EndMoves DEF Await, Disarm, Mark, Drain
  <2>12. CASE Abort
    BY <2>12, EndMoves DEF Abort
  <2>13. CASE Commit
    BY <2>13, EndMoves DEF Commit
  <2>14. CASE SyncDomain
    BY <2>14, EndMoves DEF SyncDomain
  <2> QED
    BY <1>1, <2>1, <2>2, <2>3, <2>4, <2>5, <2>6, <2>7, <2>8, <2>9, <2>10, <2>11, <2>12, <2>13, <2>14
    DEF Transfer
<1>2. CASE t' = t /\ UNCHANGED <<transfer_active, transfer_conn>>
  BY <1>2 DEF Active, HoldsRef, At
<1>3. CASE BeaconReceives
  <2>1. t' = t
    BY <1>3 DEF BeaconReceives
  <2>2. \/ UNCHANGED <<transfer_active, transfer_conn>>
        \/ /\ transfer_active' = TRUE /\ transfer_conn' = TRUE
           /\ toBeacon # <<>> /\ Head(toBeacon).kind = "st"
    BY <1>3 DEF BeaconReceives, SendEnabled, StartCommand, StartRefused, HandleAck, connVars
  <2>3. CASE /\ transfer_active' = TRUE /\ transfer_conn' = TRUE
             /\ toBeacon # <<>> /\ Head(toBeacon).kind = "st"
    <3>1. ~HoldsRef
      BY <2>3, StartArrives
    <3> QED
      BY <2>1, <2>3, <3>1 DEF Active, HoldsRef, At
  <2> QED
    BY <1>2, <2>1, <2>2, <2>3
<1>4. CASE OnDisconnected
  BY <1>4 DEF OnDisconnected, Active, HoldsRef, At
<1>5. ASSUME ~(Transfer /\ UNCHANGED baseVars), ~BeaconReceives, ~OnDisconnected
      PROVE  t' = t /\ UNCHANGED <<transfer_active, transfer_conn>>
  <2> USE DEF beaconVars, connVars
  <2>1. CASE Connect \/ NoConnect \/ Environment \/ BaseStep
    BY <2>1 DEF Connect, NoConnect, Environment, BaseStep
  <2>2. CASE OnSent \/ IdleTimeout(Quiet) \/ Record
    BY <2>2 DEF OnSent, IdleTimeout, Record
  <2>3. CASE UNCHANGED vars
    BY <2>3 DEF vars
  <2> QED
    BY <1>5, <2>1, <2>2, <2>3 DEF Next, BeaconStep, Callback
<1> QED
  BY <1>1, <1>2, <1>3, <1>4, <1>5

(* Nothing of a new transfer has happened before its start command has been *)
(* handled and its work item has taken the connection.                      *)
LEMMA StartsKept ==
  ASSUME Starts, toBeacon' = toBeacon, heard' \subseteq heard,
         Fresh' => Fresh, nus_notifications_enabled' => nus_notifications_enabled,
         transfer_conn' => transfer_conn,
         Fresh \/ Commanded \/ transfer_conn =>
           ~HoldsRef' /\ toBase' = toBase /\ sent_callbacks' = sent_callbacks
  PROVE  Starts'
<1>1. (Commanded' <=> Commanded) /\ (Subscribing' <=> Subscribing)
  BY DEF Commanded, Subscribing
<1>2. \A d \in Domain : AcksOf(d)' = AcksOf(d)
  BY DEF AcksOf
<1> QED
  BY <1>1, <1>2 DEF Starts

LEMMA TransferStarts ==
  ASSUME TypeOK, Stages, Starts, Transfer, UNCHANGED baseVars
  PROVE  Starts'
<1>0. t \in Thread
  BY TypeParts
<1>1. Fresh' => Fresh
  BY TransferLink DEF Fresh, baseVars, radioVars, nusVars
<1>2. heard' = heard
  BY DEF baseVars, nusVars
<1>3. ASSUME Fresh \/ Commanded \/ transfer_conn
      PROVE  ~HoldsRef' \/ ~transfer_conn'
  <2>1. ~HoldsRef
    BY <1>3 DEF Starts
  <2> QED
    BY <1>0, <2>1, StartMoves, SendMoves, EndMoves DEF HoldsRef, Transfer, At, Moved, TakeConn
<1>4. ASSUME Fresh \/ Commanded \/ transfer_conn
      PROVE  toBase' = toBase /\ sent_callbacks' = sent_callbacks
  <2>1. ~HoldsRef
    BY <1>4 DEF Starts
  <2>2. Dequeue \/ TakeConn \/ FinishNone
    BY <1>0, <2>1, StartMoves, SendMoves, EndMoves DEF HoldsRef, Transfer, At
  <2> QED
    BY <2>2 DEF Dequeue, TakeConn, FinishNone, wireVars, sendVars
<1>5. CASE TakeConn /\ transfer_conn
  <2>1. ~Fresh /\ ~Commanded
    BY <1>5 DEF Starts
  <2>2. ~Fresh' /\ ~Commanded' /\ transfer_conn' = FALSE /\ toBeacon' = toBeacon
    BY <1>1, <1>5, <2>1 DEF TakeConn, wireVars, Commanded
  <2>3. (nus_notifications_enabled' => nus_notifications_enabled) /\ (Subscribing' <=> Subscribing)
    BY <2>2, TransferLink DEF Subscribing
  <2> QED
    BY <2>2, <2>3 DEF Starts
<1>6. CASE ~(TakeConn /\ transfer_conn)
  <2>1. Fresh \/ Commanded \/ transfer_conn => ~HoldsRef'
    <3>1. SUFFICES ASSUME Fresh \/ Commanded \/ transfer_conn
                   PROVE  ~HoldsRef'
      OBVIOUS
    <3>2. ~HoldsRef
      BY <3>1 DEF Starts
    <3>3. Dequeue \/ TakeConn \/ FinishNone
      BY <1>0, <3>2, StartMoves, SendMoves, EndMoves DEF HoldsRef, Transfer, At
    <3> QED
      BY <1>0, <1>6, <3>3, StartMoves DEF HoldsRef, Moved
  <2> QED
    BY <1>1, <1>2, <1>4, <2>1, StartsKept, TransferLink
<1> QED
  BY <1>5, <1>6

LEMMA ReceivesStarts ==
  ASSUME TypeOK, Ends, Starts, BeaconReceives, UNCHANGED baseVars
  PROVE  Starts'
<1> DEFINE m == Head(toBeacon)
<1>1. /\ toBeacon \in Seq(Write) /\ toBeacon # <<>> /\ toBeacon' = Tail(toBeacon)
      /\ UNCHANGED <<linked, toBase, sent_callbacks, t, heard, nus_ready_notified, discovering>>
  BY DEF TypeOK, BeaconReceives, baseVars, radioVars, nusVars, sendVars
<1>2. /\ Len(toBeacon) \in Nat \ {0} /\ DOMAIN toBeacon = 1 .. Len(toBeacon) /\ m = toBeacon[1]
      /\ DOMAIN toBeacon' = 1 .. (Len(toBeacon) - 1)
      /\ \A i \in DOMAIN toBeacon' : toBeacon'[i] = toBeacon[i + 1] /\ i + 1 \in DOMAIN toBeacon
  BY <1>1, Taken
<1>3. ~Fresh /\ ~Fresh'
  BY <1>1 DEF Starts, Fresh
<1>4. \A i \in DOMAIN toBeacon' : /\ toBeacon'[i].kind # "subscribe"
                                  /\ toBeacon'[i].kind = "st" => i = 1 /\ m.kind = "subscribe"
  BY <1>2 DEF Starts
<1>5. ~Subscribing' /\ (Commanded' => m.kind = "subscribe")
  BY <1>4 DEF Subscribing, Commanded
<1>6. \A d \in Domain : AcksOf(d) = {} => AcksOf(d)' = {}
  BY <1>1, FewerOf DEF AcksOf, Shrunk
<1>7. CASE m.kind \in {"subscribe", "st"}
  <2>1. Commanded /\ ~transfer_conn /\ ~HoldsRef
    BY <1>1, <1>7, StartArrives
  <2>2. ~HoldsRef' /\ toBase' = <<>> /\ heard' = {} /\ sent_callbacks' = 0
          /\ \A d \in Domain : AcksOf(d)' = {}
    BY <1>1, <1>6, <2>1 DEF Starts, HoldsRef
  <2>3. m.kind = "subscribe" => ~transfer_conn'
    BY <2>1 DEF BeaconReceives, SendEnabled
  <2> QED
    BY <1>3, <1>4, <1>5, <2>2, <2>3 DEF Starts
<1>8. CASE m.kind \notin {"subscribe", "st"}
  <2>1. UNCHANGED connVars /\ ~Commanded'
    BY <1>5, <1>8 DEF BeaconReceives, HandleAck
  <2>2. transfer_conn' = transfer_conn /\ HoldsRef' = HoldsRef
    BY <1>1, <2>1 DEF connVars, HoldsRef
  <2> QED
    BY <1>1, <1>3, <1>4, <1>5, <1>6, <2>1, <2>2 DEF Starts
<1> QED
  BY <1>7, <1>8

LEMMA DiscoveredStarts ==
  ASSUME TypeOK, Ends, Starts, Discovered, UNCHANGED beaconVars
  PROVE  Starts'
<1> DEFINE subscribe == [kind |-> "subscribe"]
           start == [kind |-> "st"]
<1>1. /\ UNCHANGED <<linked, toBase, heard, nus_ready_notified>>
      /\ UNCHANGED <<nus_notifications_enabled, transfer_conn, sent_callbacks, t>>
  BY DEF Discovered, radioVars, beaconVars, connVars, sendVars
<1>2. ~Fresh'
  BY <1>1 DEF Discovered, Ends, Fresh
<1>3. CASE ~linked \/ toBeacon' = toBeacon
  <2>1. toBeacon' = toBeacon
    BY <1>3 DEF Discovered, Sent
  <2>2. HoldsRef' = HoldsRef
    BY <1>1 DEF HoldsRef
  <2>3. Fresh \/ Commanded \/ transfer_conn =>
          ~HoldsRef' /\ toBase' = toBase /\ sent_callbacks' = sent_callbacks
    BY <1>1, <2>2 DEF Starts
  <2> QED
    BY <1>1, <1>2, <2>1, <2>3, StartsKept
<1>4. CASE linked /\ toBeacon' # toBeacon
  <2>1. Fresh /\ toBeacon = <<>>
    BY <1>4 DEF Discovered, Fresh, Starts
  <2>2. toBeacon' = <<subscribe, start>> \/ toBeacon' = <<subscribe>>
    <3>1. <<>> \o <<subscribe, start>> = <<subscribe, start>> /\ <<>> \o <<subscribe>> = <<subscribe>>
      OBVIOUS
    <3> QED
      BY <1>4, <2>1, <3>1 DEF Discovered, Sent
  <2>3. \A i \in DOMAIN toBeacon' : \/ i = 1 /\ toBeacon'[i] = subscribe
                                    \/ i = 2 /\ toBeacon'[i] = start /\ toBeacon'[1] = subscribe
    BY <2>2
  <2>4. \A i \in DOMAIN toBeacon' : /\ toBeacon'[i].kind = "subscribe" => i = 1
                                    /\ toBeacon'[i].kind = "st" => i = 2 /\ toBeacon'[1].kind = "subscribe"
                                    /\ toBeacon'[i].kind # "ack"
    BY <2>3
  <2>5. \A d \in Domain : AcksOf(d)' = {}
    BY <2>4 DEF AcksOf, Of
  <2>6. /\ ~nus_notifications_enabled' /\ ~transfer_conn' /\ ~HoldsRef'
        /\ toBase' = <<>> /\ heard' = {} /\ sent_callbacks' = 0
    BY <1>1, <2>1 DEF Starts, HoldsRef
  <2> QED
    BY <1>2, <2>4, <2>5, <2>6 DEF Starts
<1> QED
  BY <1>3, <1>4

LEMMA ReceivedStarts ==
  ASSUME TypeOK, Ends, Starts, DataReceived, UNCHANGED beaconVars
  PROVE  Starts'
<1>1. ~(Fresh \/ Commanded \/ transfer_conn)
  BY DEF DataReceived, Starts
<1>2. UNCHANGED <<linked, nus_ready_notified, discovering, nus_notifications_enabled, transfer_conn>>
  BY DEF DataReceived, radioVars, beaconVars, connVars
<1>3. \A i \in DOMAIN toBeacon' : \/ i \in DOMAIN toBeacon /\ toBeacon'[i] = toBeacon[i]
                                  \/ toBeacon'[i].kind = "ack"
  <2> DEFINE m == Head(toBase)
             ack == [kind |-> "ack", domain |-> m.domain, count |-> m.count]
  <2>1. toBeacon \in Seq(Write) /\ m \in Notification
    BY Taken DEF TypeOK, DataReceived
  <2>2. CASE toBeacon' = toBeacon
    BY <2>2
  <2>3. CASE m.kind = "batch" /\ toBeacon' = toBeacon \o <<ack>>
    <3>1. ack \in Write
      BY <2>1, <2>3 DEF Notification, Write
    <3> QED
      BY <2>1, <2>3, <3>1, Added
  <2> QED
    BY <2>2, <2>3 DEF DataReceived, Sent, Ackable
<1>4. /\ \A i \in DOMAIN toBeacon' : toBeacon'[i].kind \notin {"subscribe", "st"}
                                       \/ (i \in DOMAIN toBeacon /\ toBeacon'[i] = toBeacon[i])
      /\ ~Commanded' /\ ~Subscribing'
  BY <1>1, <1>3 DEF Commanded, Subscribing
<1>5. ~Fresh'
  BY <1>1, <1>2 DEF Fresh
<1>6. \A i \in DOMAIN toBeacon' : toBeacon'[i].kind \notin {"subscribe", "st"}
  BY <1>4 DEF Commanded
<1> QED
  BY <1>1, <1>2, <1>4, <1>5, <1>6 DEF Starts

LEMMA StartsStep ==
  ASSUME TypeOK, Stages, Ends, Starts, Sends, [Next]_vars
  PROVE  Starts'
<1> USE DEF wireVars, connVars, sendVars, radioVars, scanVars, nusVars
<1>0. WireTypes /\ FlagTypes /\ CountTypes /\ BaseTypes
  BY TypeParts
<1>1. CASE Connect
  <2>1. /\ ~linked /\ ~current_conn /\ ~transfer_conn /\ ~HoldsRef
        /\ default_conn /\ connect_in_progress
    BY <1>1 DEF Connect, SlotFree, BaseConnected
  <2>2. toBeacon = <<>> /\ toBase = <<>> /\ sent_callbacks = 0
    BY <1>0, <2>1 DEF Ends, Connection, Sends, CountTypes, Bit
  <2>3. /\ toBeacon' = <<>> /\ toBase' = <<>> /\ sent_callbacks' = 0 /\ heard' = {}
        /\ nus_notifications_enabled' = FALSE /\ ~transfer_conn' /\ ~HoldsRef'
    BY <1>1, <2>1, <2>2 DEF Connect, BaseConnected, OnConnected, HoldsRef
  <2> QED
    BY <2>3 DEF Starts, Commanded, Subscribing, AcksOf, Of
<1>2. ASSUME UNCHANGED <<toBeacon, heard, nus_notifications_enabled, transfer_conn, toBase, sent_callbacks, t>>,
             Fresh' => Fresh
      PROVE  Starts'
  <2>1. Fresh \/ Commanded \/ transfer_conn => ~HoldsRef'
    BY <1>2 DEF Starts, HoldsRef
  <2> QED
    BY <1>2, <2>1, StartsKept
<1>3. CASE NoConnect
  BY <1>2, <1>3 DEF NoConnect, ConnectFails, beaconVars, Fresh
<1>4. CASE Environment
  <2>1. CASE LinkLoss
    BY <1>2, <1>4, <2>1 DEF Environment, LinkLoss, Fresh, beaconVars, baseVars
  <2>2. CASE LoseNotification
    <3>1. ~(Fresh \/ Commanded \/ transfer_conn)
      BY <2>2 DEF LoseNotification, Starts
    <3>2. UNCHANGED <<toBeacon, heard, nus_notifications_enabled, transfer_conn>> /\ (Fresh' <=> Fresh)
      BY <1>4, <2>2 DEF Environment, LoseNotification, Fresh, beaconVars, baseVars
    <3> QED
      BY <3>1, <3>2, StartsKept
  <2> QED
    BY <1>4, <2>1, <2>2 DEF Environment
<1>5. CASE Transfer /\ UNCHANGED baseVars
  BY <1>5, TransferStarts
<1>6. CASE BeaconReceives /\ UNCHANGED baseVars
  BY <1>6, ReceivesStarts
<1>7. CASE OnSent /\ UNCHANGED baseVars
  <2>1. ~(Fresh \/ Commanded \/ transfer_conn)
    BY <1>7 DEF OnSent, Starts
  <2>2. linked' => linked
    BY <1>7 DEF OnSent, DisconnectIfDrained, HangUp
  <2>3. UNCHANGED <<toBeacon, heard, nus_notifications_enabled, transfer_conn>> /\ (Fresh' => Fresh)
    BY <1>7, <2>2 DEF OnSent, Fresh, baseVars
  <2> QED
    BY <2>1, <2>3, StartsKept
<1>8. CASE OnDisconnected /\ UNCHANGED baseVars
  <2>1. toBeacon' = <<>> /\ ~transfer_conn' /\ ~nus_notifications_enabled' /\ ~Fresh'
    BY <1>8 DEF OnDisconnected, Fresh
  <2> QED
    BY <2>1 DEF Starts, Commanded, Subscribing
<1>9. CASE (IdleTimeout(Quiet) \/ Record) /\ UNCHANGED baseVars
  <2>1. linked' => linked
    BY <1>9 DEF IdleTimeout, Record, HangUp
  <2>2. UNCHANGED <<toBeacon, heard, nus_notifications_enabled, transfer_conn, toBase, sent_callbacks, t>>
    BY <1>9 DEF IdleTimeout, Record, baseVars
  <2>3. Fresh' => Fresh
    BY <1>9, <2>1 DEF Fresh, baseVars
  <2> QED
    BY <1>2, <2>2, <2>3
<1>10. CASE BaseStep
  <2>1. UNCHANGED beaconVars
    BY <1>10 DEF BaseStep
  <2>2. CASE PressStart \/ PressStop \/ ScanStarts \/ ScanMatch \/ CreateConn \/ RxIdleTimeout(Quiet)
    BY <1>2, <2>1, <2>2
    DEF PressStart, PressStop, Press, ScanStarts, ScanMatch, CreateConn, RxIdleTimeout, beaconVars, Fresh
  <2>3. CASE ReadyForNus
    BY <1>2, <2>1, <2>3 DEF ReadyForNus, beaconVars, Fresh
  <2>4. CASE Discovered
    BY <2>1, <2>4, DiscoveredStarts
  <2>5. CASE DataReceived
    BY <2>1, <2>5, ReceivedStarts
  <2>6. CASE FinishDisconnect
    <3>1. linked' => linked
      BY <2>6 DEF FinishDisconnect
    <3> QED
      BY <1>2, <2>1, <2>6, <3>1 DEF FinishDisconnect, beaconVars, Fresh
  <2>7. CASE BaseDisconnected
    <3>1. UNCHANGED <<toBeacon, nus_notifications_enabled, transfer_conn, sent_callbacks, t>>
            /\ heard' = {} /\ toBase' = <<>> /\ ~Fresh'
      BY <2>1, <2>7 DEF BaseDisconnected, beaconVars, Fresh
    <3>2. Fresh \/ Commanded \/ transfer_conn => ~HoldsRef' /\ toBase' = toBase
      BY <3>1 DEF Starts, HoldsRef
    <3> QED
      BY <3>1, <3>2, StartsKept
  <2> QED
    BY <1>10, <2>2, <2>3, <2>4, <2>5, <2>6, <2>7 DEF BaseStep, Base
<1>11. CASE UNCHANGED vars
  BY <1>2, <1>11 DEF vars, beaconVars, baseVars, Fresh
<1> QED
  BY <1>1, <1>3, <1>4, <1>5, <1>6, <1>7, <1>8, <1>9, <1>10, <1>11 DEF Next, BeaconStep, Callback

-----------------------------------------------------------------------------
(* The send slot, its semaphore and its callback.                          *)

InSlot == {"post", "confirm", "retire", "cut"}

LEMMA SendsKept ==
  ASSUME Sends, UNCHANGED <<current_conn, nus_notifications_enabled, sendVars>>,
         t.pc \notin InSlot \union {"drain"}, t'.pc \notin InSlot,
         t'.pc \in SendPc \ {"check"} => Ready
  PROVE  Sends'
BY DEF Sends, Ready, At, InSlot, sendVars

LEMMA TransferSends ==
  ASSUME TypeOK, Stages, Sends, Transfer
  PROVE  Sends'
<1> USE DEF connVars, sendVars
<1>0. FlagTypes /\ CountTypes /\ t \in Thread
  BY TypeParts
<1>1. CASE Dequeue \/ TakeConn \/ FinishNone \/ CountContacts
  BY <1>0, <1>1, StartMoves, SendsKept
  DEF Dequeue, TakeConn, FinishNone, CountContacts, At, Moved, InSlot, SendPc
<1>2. CASE Begin \/ ArmReset \/ Arm
  BY <1>0, <1>2, StartMoves, SendsKept DEF Begin, ArmReset, Arm, At, Moved, Ended, InSlot, SendPc
<1>3. CASE Check
  BY <1>0, <1>3, SendMoves, SendsKept DEF Check, At, Moved, Unsent, InSlot, SendPc
<1>4. CASE Claim
  <2>1. At("claim") /\ UNCHANGED <<current_conn, nus_notifications_enabled, disconnect_when_sent, sent_callbacks>>
    BY <1>4 DEF Claim
  <2>2. CASE pending_nus_sends = 0
    BY <1>0, <1>4, <2>1, <2>2, SendMoves DEF Claim, Sends, Ready, At, Moved, SendPc, FlagTypes
  <2>3. CASE pending_nus_sends # 0
    <3>1. Unsent /\ UNCHANGED sendVars
      BY <1>0, <1>4, <2>3, SendMoves DEF Claim
    <3> QED
      BY <2>1, <3>1, SendsKept DEF Unsent, At, InSlot, SendPc
  <2> QED
    BY <2>2, <2>3
<1>5. CASE Post
  <2>1. At("post") /\ UNCHANGED <<current_conn, nus_notifications_enabled, disconnect_when_sent, nus_sent_sem>>
    BY <1>5 DEF Post
  <2>2. CASE current_conn /\ sent_callbacks' = sent_callbacks + 1 /\ Moved("confirm")
               /\ pending_nus_sends' = pending_nus_sends
    BY <1>0, <2>1, <2>2 DEF Sends, Ready, At, Moved, SendPc, FlagTypes
  <2>3. CASE pending_nus_sends' = 0 /\ Unsent /\ sent_callbacks' = sent_callbacks
    BY <1>0, <2>1, <2>3 DEF Sends, Ready, At, Unsent, SendPc, FlagTypes
  <2> QED
    BY <1>0, <1>5, <2>2, <2>3, GotoMoves, AfterUnsentMoves DEF Post, PC, Moved, Unsent
<1>6. CASE Confirm
  <2>1. At("confirm") /\ UNCHANGED <<current_conn, nus_notifications_enabled, disconnect_when_sent,
                                     pending_nus_sends, sent_callbacks>>
    BY <1>6 DEF Confirm
  <2>2. CASE nus_sent_sem = 1 /\ Moved("recheck")
    BY <1>0, <2>1, <2>2 DEF Sends, Ready, At, Moved, SendPc, FlagTypes
  <2>3. CASE nus_sent_sem = 0 /\ Moved("retire")
    BY <1>0, <2>1, <2>3 DEF Sends, Ready, At, Moved, SendPc, FlagTypes
  <2> QED
    BY <1>0, <1>6, <2>2, <2>3, GotoMoves DEF Confirm, PC, Moved
<1>7. CASE Retire
  BY <1>0, <1>7, SendMoves DEF Retire, Sends, Ready, At, Moved, SendPc, FlagTypes
<1>8. CASE Cut
  <2>1. At("cut") /\ UNCHANGED <<current_conn, sendVars>> /\ nus_notifications_enabled' = FALSE /\ Unsent
    BY <1>0, <1>8, SendMoves DEF Cut
  <2> QED
    BY <1>0, <2>1 DEF Sends, Ready, At, Unsent, SendPc, FlagTypes
<1>9. CASE Recheck
  BY <1>0, <1>9, SendMoves, SendsKept DEF Recheck, At, Accepted, Unsent, InSlot, SendPc
<1>10. CASE Await \/ Disarm \/ Abort \/ Commit \/ SyncDomain
  <2>1. t'.pc \notin SendPc \/ t'.pc = "check"
    BY <1>0, <1>10, EndMoves DEF At, Moved, Ended, InSlot, SendPc
  <2>2. t.pc \notin InSlot \union {"drain"} /\ UNCHANGED <<current_conn, nus_notifications_enabled, sendVars>>
    BY <1>10 DEF Await, Disarm, Abort, Commit, SyncDomain, At, InSlot
  <2> QED
    BY <2>1, <2>2, SendsKept DEF InSlot, SendPc
<1>11. CASE Mark
  BY <1>0, <1>11, EndMoves DEF Mark, Sends, Ready, At, Moved, SendPc
<1>12. CASE Drain
  <2>1. At("drain") /\ UNCHANGED <<current_conn, nus_notifications_enabled, pending_nus_sends, sent_callbacks, nus_sent_sem>>
    BY <1>12 DEF Drain
  <2>2. pending_nus_sends = 0
    BY <1>0, <2>1 DEF Sends, Ready, At, FlagTypes
  <2>3. disconnect_when_sent' = FALSE /\ Moved("finish")
    BY <1>0, <1>12, <2>2, EndMoves DEF Drain, DisconnectIfDrained, FlagTypes
  <2> QED
    BY <2>1, <2>2, <2>3 DEF Sends, Ready, At, Moved, SendPc
<1>13. CASE Finish \/ Leave
  BY <1>0, <1>13, EndMoves, SendsKept DEF Finish, Leave, At, Moved, InSlot, SendPc
<1> QED
  BY <1>1, <1>2, <1>3, <1>4, <1>5, <1>6, <1>7, <1>8, <1>9, <1>10, <1>11, <1>12, <1>13 DEF Transfer

LEMMA SendsStep ==
  ASSUME TypeOK, Stages, Ends, Starts, Sends, [Next]_vars
  PROVE  Sends'
<1> USE DEF connVars, sendVars
<1>0. WireTypes /\ FlagTypes /\ CountTypes /\ t \in Thread
  BY TypeParts
<1>1. ASSUME UNCHANGED <<current_conn, nus_notifications_enabled, sendVars, t>>
      PROVE  Sends'
  BY <1>1 DEF Sends, Ready, At
<1>2. CASE Connect
  <2>1. ~current_conn /\ ~HoldsRef
    BY <1>2 DEF Connect, SlotFree
  <2>2. t' = t /\ UNCHANGED sendVars /\ current_conn' = TRUE /\ nus_notifications_enabled' = FALSE
    BY <1>2 DEF Connect, OnConnected
  <2>3. pending_nus_sends = 0 /\ ~disconnect_when_sent /\ t.pc \notin SendPc
    BY <2>1 DEF Sends, HoldsRef, At, SendPc
  <2> QED
    BY <2>2, <2>3 DEF Sends, Ready, At
<1>3. CASE NoConnect \/ Environment \/ BaseStep \/ UNCHANGED vars
  BY <1>1, <1>3 DEF NoConnect, Environment, BaseStep, vars, beaconVars
<1>4. CASE Transfer
  BY <1>4, TransferSends
<1>5. CASE BeaconReceives
  <2>1. t' = t /\ UNCHANGED <<current_conn, sendVars>> /\ current_conn /\ toBeacon # <<>>
    BY <1>5 DEF BeaconReceives, SendEnabled, StartCommand, HandleAck
  <2>2. CASE nus_notifications_enabled' = nus_notifications_enabled
    BY <1>1, <2>1, <2>2
  <2>3. CASE Head(toBeacon).kind = "subscribe" /\ nus_notifications_enabled' = TRUE
    <3>1. Commanded /\ ~HoldsRef
      BY <2>1, <2>3, StartArrives
    <3>2. Subscribing
      BY <2>1, <2>3, Taken DEF Subscribing, TypeOK
    <3>3. sent_callbacks = 0 /\ pending_nus_sends = 0
      BY <2>1, <3>1, <3>2 DEF Starts, Sends
    <3>4. t.pc \notin InSlot \union {"drain"}
      BY <3>1 DEF HoldsRef, InSlot
    <3> QED
      BY <2>1, <2>3, <3>3, <3>4 DEF Sends, Ready, At, InSlot
  <2> QED
    BY <1>5, <2>2, <2>3 DEF BeaconReceives, SendEnabled, StartCommand, HandleAck
<1>6. CASE OnSent
  <2>1. /\ t' = t /\ UNCHANGED <<current_conn, nus_notifications_enabled>> /\ current_conn
        /\ sent_callbacks = 1 /\ sent_callbacks' = 0
    BY <1>0, <1>6 DEF OnSent, CountTypes, Bit
  <2>2. CASE Ready
    <3>1. /\ pending_nus_sends' = 0
          /\ nus_sent_sem' = IF pending_nus_sends = 1 THEN 1 ELSE nus_sent_sem
          /\ disconnect_when_sent' => disconnect_when_sent
      BY <1>6, <2>2 DEF OnSent, DisconnectIfDrained
    <3> QED
      BY <1>0, <2>1, <2>2, <3>1 DEF Sends, Ready, At, CountTypes, Bit
  <2>3. CASE ~Ready
    <3>1. UNCHANGED <<pending_nus_sends, nus_sent_sem, disconnect_when_sent>>
      BY <1>6, <2>3 DEF OnSent
    <3> QED
      BY <2>1, <2>3, <3>1 DEF Sends, Ready, At
  <2> QED
    BY <2>2, <2>3
<1>7. CASE OnDisconnected
  BY <1>7 DEF OnDisconnected, Sends, Ready, At
<1>8. CASE IdleTimeout(Quiet) \/ Record
  BY <1>1, <1>8 DEF IdleTimeout, Record
<1> QED
  BY <1>2, <1>3, <1>4, <1>5, <1>6, <1>7, <1>8 DEF Next, BeaconStep, Callback

-----------------------------------------------------------------------------
(* What is on its way of a domain, in a step of anybody but the thread.    *)

(* No packet of a domain is taken for more, or for later, than it was.     *)
Kept(d) ==
  /\ NoneOf(d) => NoneOf(d)' /\ \A n \in Nat : Heard(d, n) => Heard(d, n)'
  /\ Fits(d) => Fits(d)'
  /\ Fits(d) /\ Heard(d, done[d] + reserved[d]) => Heard(d, done[d] + reserved[d])'
  /\ Answered(d) => Answered(d)'

LEMMA StoredTotals ==
  ASSUME TypeOK, NEW d \in Domain
  PROVE  done[d] \in Nat /\ reserved[d] \in Nat /\ done[d] + reserved[d] \in Nat
BY BeaconAssumption DEF TypeOK

LEMMA PacketsKept ==
  ASSUME TypeOK, Stages, Packets, Acks, t' = t, UNCHANGED <<done, reserved>>,
         Single', \A d \in Domain : Kept(d)
  PROVE  Packets'
<1>1. \A d \in Domain : Later(d)' <=> Later(d)
  BY DEF Later, HoldsRef
<1>2. \A d \in Domain : Later(d) => NoneOf(d)' /\ Heard(d, 0)'
  BY DEF Packets, Kept
<1>3. \A d \in Domain : (NoneOf(d) /\ Heard(d, done[d])) => (NoneOf(d)' /\ Heard(d, done[d])')
  BY StoredTotals DEF Kept
<1>4. \A d \in Domain : Answered(d) /\ Heard(d, done[d] + reserved[d]) => Heard(d, done[d] + reserved[d])'
  BY StoredTotals DEF Kept, Answered
<1>5. InDomain /\ t.pc \in BeforePc => NoneOf(t.stage)' /\ Heard(t.stage, done[t.stage])'
  BY <1>3 DEF Packets, InDomain
<1>6. InDomain /\ t.pc \in AfterPc =>
        Fits(t.stage)' /\ Heard(t.stage, done[t.stage] + reserved[t.stage])'
  BY DEF Packets, InDomain, Kept
<1>7. InDomain /\ (At("commit") \/ (At("disarm") /\ t.ok)) =>
        Heard(t.stage, done[t.stage] + reserved[t.stage])'
  BY <1>4 DEF Packets, Acks, InDomain, At
<1>8. At("disarm") => InDomain
  BY DEF Stages, DomainPc, InDomain, At
<1> QED
  BY <1>1, <1>2, <1>5, <1>6, <1>7, <1>8 DEF Packets, InDomain, At

LEMMA AcksKept ==
  ASSUME TypeOK, Stages, Packets, Acks, t' = t, UNCHANGED <<done, reserved, ackVars>>,
         \A d \in Domain : Kept(d)
  PROVE  Acks'
<1>1. \A d \in Domain : (Answered(d) => Answered(d)') /\ (NoneOf(d) => NoneOf(d)')
  BY DEF Kept
<1>2. \A d : Waiting(d)' <=> Waiting(d)
  BY DEF Waiting, ackVars
<1>3. Unarmed' <=> Unarmed
  BY DEF Unarmed
<1>4. (At("disarm") \/ At("commit")) => InDomain
  BY DEF Stages, DomainPc, At
<1> QED
  BY <1>1, <1>2, <1>3, <1>4 DEF Acks, InDomain, At, ackVars

(* Steps that only take messages away, or forget what was heard.           *)
LEMMA FewerKept ==
  ASSUME TypeOK, Packets, Fewer, UNCHANGED <<done, reserved, got>>, heard' \subseteq heard
  PROVE  Single' /\ \A d \in Domain : Kept(d)
<1>1. Single' /\ \A d \in Domain : NoneOf(d) => NoneOf(d)'
  BY FewerPackets DEF Packets
<1>2. \A d \in Domain : (Fits(d) => Fits(d)') /\ (Answered(d) => Answered(d)')
  BY FewerPackets DEF Packets
<1>3. \A d, n : Heard(d, n) => Heard(d, n)'
  BY DEF Heard
<1>4. \A d \in Domain : Heard(d, done[d] + reserved[d]) => Heard(d, done[d] + reserved[d])'
  BY DEF Heard
<1> QED
  BY <1>1, <1>2, <1>3, <1>4 DEF Kept

(* The base takes a notification, puts a batch out and acknowledges it.    *)
LEMMA ReceivedKept ==
  ASSUME TypeOK, Packets, DataReceived, UNCHANGED beaconVars
  PROVE  Single' /\ \A d \in Domain : Kept(d)
<1>0. PICK m : m = Head(toBase)
  OBVIOUS
<1>a. PICK ack : ack = [kind |-> "ack", domain |-> m.domain, count |-> m.count]
  OBVIOUS
<1>1. /\ toBase \in Seq(Notification) /\ toBeacon \in Seq(Write) /\ toBase # <<>>
      /\ m \in Notification /\ toBase' = Tail(toBase) /\ Shrunk(toBase, toBase')
  BY <1>0, Taken DEF TypeOK, DataReceived, Shrunk
<1>2. UNCHANGED <<done, reserved>>
  BY DEF beaconVars, storeVars
<1>3. CASE UNCHANGED <<got, heard, toBeacon>>
  BY <1>1, <1>2, <1>3, FewerKept DEF Fewer, Shrunk
<1>4. CASE /\ m.kind = "batch" /\ got' = got \union Entries(m) /\ heard' = heard \union Entries(m)
           /\ toBeacon' = toBeacon \/ toBeacon' = toBeacon \o <<ack>>
  <2>1. m.domain \in Domain /\ m.first \in Positive /\ m.count \in Positive /\ ack \in Write
    BY <1>1, <1>4, <1>a DEF Notification, Write
  <2>0. ack.kind = "ack" /\ ack.domain = m.domain /\ ack.count = m.count
    BY <1>a
  <2>2. \A d \in Domain \ {m.domain} : Kept(d) /\ AcksOf(d)' \subseteq AcksOf(d)
    <3> TAKE d \in Domain \ {m.domain}
    <3>1. /\ AcksOf(d)' \subseteq AcksOf(d) /\ \A i \in AcksOf(d)' : toBeacon'[i] = toBeacon[i]
      <4>1. CASE toBeacon' = toBeacon
        BY <4>1 DEF AcksOf
      <4>2. CASE toBeacon' = toBeacon \o <<ack>>
        BY <1>1, <2>0, <2>1, <4>2, AckAdded
      <4> QED
        BY <1>4, <4>1, <4>2
    <3>2. /\ \A i \in BatchesOf(d)' : \E j \in BatchesOf(d) : toBase'[i] = toBase[j]
          /\ BatchesOf(d) = {} => BatchesOf(d)' = {}
      BY <1>1, BatchesShrink
    <3>3. \A n : Heard(d, n) <=> Heard(d, n)'
      BY <1>4 DEF Heard, Entries
    <3>4. Heard(d, done[d])' <=> Heard(d, done[d])
      BY <1>2, <1>4 DEF Heard, Entries
    <3>5. Heard(d, done[d] + reserved[d])' <=> Heard(d, done[d] + reserved[d])
      BY <1>2, <1>4 DEF Heard, Entries
    <3>6. Received(d) => Received(d)'
      BY <1>2, <1>4 DEF Received
    <3>7. NoneOf(d) => NoneOf(d)'
      BY <3>1, <3>2 DEF NoneOf
    <3>8. Fits(d) => Fits(d)'
      BY <1>2, <3>1, <3>2, <3>4, <3>6 DEF Fits
    <3> QED
      BY <3>1, <3>3, <3>5, <3>6, <3>7, <3>8 DEF Kept, Answered
  <2>3. \A i, j \in BatchesOf(m.domain) : i = j
    BY <2>1 DEF Packets, Single
  <2>4. 1 \in BatchesOf(m.domain) /\ toBase[1] = m /\ BatchesOf(m.domain)' = {}
    BY <1>0, <1>1, <1>4, <2>3, LastOf, Taken DEF BatchesOf
  <2>5. AcksOf(m.domain) = {}
    BY <2>1, <2>4 DEF Packets, Single
  <2>6. /\ \A i, j \in AcksOf(m.domain)' : i = j
        /\ \A i \in AcksOf(m.domain)' : toBeacon'[i] = ack
    <3>1. CASE toBeacon' = toBeacon
      BY <2>5, <3>1 DEF AcksOf
    <3>2. CASE toBeacon' = toBeacon \o <<ack>>
      BY <1>1, <2>0, <2>1, <2>5, <3>2, AckAdded
    <3> QED
      BY <1>4, <3>1, <3>2
  <2>7. Single'
    <3> SUFFICES ASSUME NEW d \in Domain
                 PROVE  /\ \A i, j \in AcksOf(d)' : i = j
                        /\ \A i, j \in BatchesOf(d)' : i = j
                        /\ AcksOf(d)' = {} \/ BatchesOf(d)' = {}
      BY DEF Single
    <3>1. CASE d = m.domain
      BY <2>4, <2>6, <3>1
    <3>2. CASE d # m.domain
      <4>1. AcksOf(d)' \subseteq AcksOf(d)
        BY <2>2, <3>2
      <4>2. /\ BatchesOf(d) = {} => BatchesOf(d)' = {}
            /\ (\A i, j \in BatchesOf(d) : i = j) => \A i, j \in BatchesOf(d)' : i = j
        BY <1>1, BatchesShrink
      <4> QED
        BY <4>1, <4>2 DEF Packets, Single
    <3> QED
      BY <3>1, <3>2
  <2>8. Kept(m.domain)
    <3> DEFINE d == m.domain
    <3>1. ~NoneOf(d) /\ ~Answered(d)
      BY <2>4 DEF NoneOf, Answered
    <3>2. ASSUME Fits(d)
          PROVE  Fits(d)'
      <4>1. m.first = done[d] + 1 /\ m.count = reserved[d]
        BY <2>4, <3>2 DEF Fits
      <4>2. Received(d)'
        <5> SUFFICES ASSUME NEW e \in done[d] + 1 .. done[d] + reserved[d]
                     PROVE  <<d, e>> \in got'
          BY <1>2 DEF Received
        <5>1. done[d] \in Nat /\ reserved[d] \in Nat
          BY <2>1, StoredTotals
        <5>2. e \in m.first .. m.first + m.count - 1
          BY <4>1, <5>1
        <5> QED
          BY <1>4, <5>2 DEF Entries
      <4> QED
        BY <1>2, <2>0, <2>4, <2>6, <4>1, <4>2 DEF Fits
    <3>3. ASSUME Fits(d), Heard(d, done[d] + reserved[d])
          PROVE  Heard(d, done[d] + reserved[d])'
      <4>1. m.first = done[d] + 1 /\ m.count = reserved[d]
        BY <2>4, <3>3 DEF Fits
      <4>2. done[d] \in Nat /\ reserved[d] \in Nat
        BY <2>1, StoredTotals
      <4>3. \A x \in Entries(m) : x[2] <= done[d] + reserved[d]
        BY <4>1, <4>2 DEF Entries
      <4> QED
        BY <1>2, <1>4, <3>3, <4>3 DEF Heard
    <3> QED
      BY <3>1, <3>2, <3>3 DEF Kept
  <2> QED
    BY <2>2, <2>7, <2>8
<1> QED
  BY <1>0, <1>a, <1>3, <1>4 DEF DataReceived, Sent, Ackable

(* Whatever only takes messages away, or forgets what was heard.           *)
LEMMA QuietKept ==
  ASSUME TypeOK, Stages, Packets, Acks, Fewer, t' = t,
         UNCHANGED <<done, reserved, ackVars, got>>, heard' \subseteq heard
  PROVE  Packets' /\ Acks'
BY FewerKept, PacketsKept, AcksKept

LEMMA ConnectKept ==
  ASSUME TypeOK, Stages, Packets, Acks, Connect
  PROVE  Packets' /\ Acks'
<1>1. UNCHANGED <<toBase, toBeacon, t, done, reserved, ackVars, got>> /\ heard' = {}
  BY DEF Connect, BaseConnected, storeVars
<1>2. Single'
  BY <1>1 DEF Packets, Single, AcksOf, BatchesOf
<1>3. \A d \in Domain : Kept(d)
  <2> TAKE d \in Domain
  <2>1. (NoneOf(d) <=> NoneOf(d)') /\ (Received(d) <=> Received(d)')
    BY <1>1 DEF NoneOf, AcksOf, BatchesOf, Received
  <2>2. \A n : Heard(d, n)'
    BY <1>1 DEF Heard
  <2>3. Heard(d, done[d])' /\ Heard(d, done[d] + reserved[d])'
    BY <1>1 DEF Heard
  <2>4. Fits(d) => Fits(d)'
    BY <1>1, <2>1, <2>3 DEF Fits, AcksOf, BatchesOf
  <2> QED
    BY <2>1, <2>2, <2>3, <2>4 DEF Kept, Answered
<1> QED
  BY <1>1, <1>2, <1>3, PacketsKept, AcksKept

(* The commands of a new connection are no acknowledgements.               *)
LEMMA DiscoveredKept ==
  ASSUME TypeOK, Stages, Ends, Starts, Packets, Acks, Discovered, UNCHANGED beaconVars
  PROVE  Packets' /\ Acks'
<1>1. UNCHANGED <<toBase, t, done, reserved, ackVars, got, heard>>
  BY DEF Discovered, beaconVars, storeVars
<1>2. CASE toBeacon' = toBeacon
  BY <1>1, <1>2, QuietKept DEF Fewer, Shrunk
<1>3. CASE toBeacon' # toBeacon
  <2>1. linked /\ toBeacon = <<>>
    BY <1>3 DEF Discovered, Sent, Starts, Fresh
  <2>2. \/ toBeacon' = <<>> \o <<[kind |-> "subscribe"], [kind |-> "st"]>>
        \/ toBeacon' = <<>> \o <<[kind |-> "subscribe"]>>
    BY <1>3, <2>1 DEF Discovered, Sent
  <2>3. \/ toBeacon' = <<[kind |-> "subscribe"], [kind |-> "st"]>>
        \/ toBeacon' = <<[kind |-> "subscribe"]>>
    BY <2>2
  <2>4. \A d : AcksOf(d) = {} /\ AcksOf(d)' = {}
    BY <2>1, <2>3 DEF AcksOf, Of
  <2>5. Single'
    BY <1>1, <2>4 DEF Packets, Single, BatchesOf
  <2>6. \A d \in Domain : Kept(d)
    <3> TAKE d \in Domain
    <3>1. (NoneOf(d) <=> NoneOf(d)') /\ (Received(d) <=> Received(d)')
      BY <1>1, <2>4 DEF NoneOf, BatchesOf, Received
    <3>2. \A n : Heard(d, n)' <=> Heard(d, n)
      BY <1>1 DEF Heard
    <3>3. /\ Heard(d, done[d])' <=> Heard(d, done[d])
          /\ Heard(d, done[d] + reserved[d])' <=> Heard(d, done[d] + reserved[d])
      BY <1>1 DEF Heard
    <3>4. Fits(d) => Fits(d)'
      BY <1>1, <2>4, <3>1, <3>3 DEF Fits, BatchesOf
    <3> QED
      BY <3>1, <3>2, <3>3, <3>4 DEF Kept, Answered
  <2> QED
    BY <1>1, <2>5, <2>6, PacketsKept, AcksKept
<1> QED
  BY <1>2, <1>3

(* An acknowledgement that is awaited answers the thread's own batch.      *)
LEMMA AwaitedKept ==
  ASSUME TypeOK, Stages, Packets, Acks, BeaconReceives, UNCHANGED <<got, heard>>,
         NEW m, m = Head(toBeacon), m.kind = "ack", Awaited(m),
         nus_ack_wait' = [nus_ack_wait EXCEPT !.active = FALSE], nus_ack_sem' = 1
  PROVE  Acks'
<1>1. /\ toBeacon \in Seq(Write) /\ toBeacon # <<>> /\ toBeacon' = Tail(toBeacon)
      /\ UNCHANGED <<toBase, t, done, reserved>> /\ Fewer
  BY DEF TypeOK, BeaconReceives, storeVars, Fewer, Shrunk
<1>2. m.domain \in Domain /\ nus_ack_wait.active /\ nus_ack_wait.domain = m.domain
  BY <1>1, Taken DEF Awaited, Write
<1>3. nus_ack_wait'.active = FALSE
  BY DEF TypeOK
<1>4. AcksOf(m.domain) # {} /\ AcksOf(m.domain)' = {}
  BY <1>1, <1>2, LastOf DEF AcksOf, Packets, Single
<1>5. BatchesOf(m.domain)' = {}
  BY <1>1, <1>2, <1>4 DEF BatchesOf, Packets, Single
<1>6. ~NoneOf(m.domain)
  BY <1>4 DEF NoneOf
<1>7. ~Unarmed /\ ~At("arm") /\ ~At("commit") /\ ~(At("abort") /\ t.ok)
  BY <1>2, <1>6 DEF Acks, Unarmed, At
<1>8. ~(InDomain /\ t.pc \in {"check", "claim", "post"})
  BY <1>2, <1>6 DEF Acks, Packets, Waiting, BeforePc
<1>9. InDomain /\ t.pc \in AfterPc => Answered(t.stage)'
  <2> SUFFICES ASSUME InDomain, t.pc \in AfterPc PROVE Answered(t.stage)'
    OBVIOUS
  <2>1. t.stage = m.domain
    BY <1>2 DEF Acks, Waiting
  <2>2. Received(m.domain)
    BY <1>4, <2>1 DEF Packets, Fits
  <2>3. Received(m.domain)'
    BY <1>1, <2>2 DEF Received
  <2> QED
    BY <1>1, <1>4, <1>5, <2>1, <2>3 DEF Answered, NoneOf
<1>10. At("disarm") /\ t.ok => Answered(t.stage)'
  <2>1. At("disarm") => InDomain
    BY DEF Stages, DomainPc, At
  <2>2. \A d \in Domain : Answered(d) => Answered(d)'
    BY <1>1, FewerPackets DEF Packets
  <2> QED
    BY <1>1, <2>1, <2>2 DEF Acks, InDomain
<1> QED
  BY <1>1, <1>3, <1>7, <1>8, <1>9, <1>10 DEF Acks, InDomain, At

LEMMA WritesKept ==
  ASSUME TypeOK, Stages, Packets, Acks, BeaconReceives, UNCHANGED baseVars
  PROVE  Packets' /\ Acks'
<1>1. /\ UNCHANGED <<toBase, t, done, reserved, got, heard>> /\ Fewer
  BY DEF BeaconReceives, storeVars, Fewer, Shrunk, baseVars, nusVars
<1>2. CASE UNCHANGED ackVars
  BY <1>1, <1>2, QuietKept
<1>3. CASE ~UNCHANGED ackVars
  <2>0. PICK m : m = Head(toBeacon)
    OBVIOUS
  <2>1. /\ m.kind = "ack" /\ Awaited(m)
        /\ nus_ack_wait' = [nus_ack_wait EXCEPT !.active = FALSE] /\ nus_ack_sem' = 1
    BY <1>3, <2>0 DEF BeaconReceives, SendEnabled, StartCommand, HandleAck, ackVars
  <2>2. Acks'
    BY <1>1, <2>0, <2>1, AwaitedKept
  <2> QED
    BY <1>1, <2>2, FewerKept, PacketsKept
<1> QED
  BY <1>2, <1>3

(* Packets and acknowledgements, in a step of anybody but the thread.      *)
LEMMA OthersPackets ==
  ASSUME TypeOK, Stages, Ends, Starts, Packets, Acks, [Next]_vars,
         ~(Transfer /\ UNCHANGED baseVars)
  PROVE  Packets' /\ Acks'
<1> USE DEF baseVars, nusVars, beaconVars, storeVars, Shrunk, Fewer
<1>1. CASE Connect
  BY <1>1, ConnectKept
<1>2. CASE NoConnect
  BY <1>2, QuietKept DEF NoConnect, ConnectFails
<1>3. CASE Environment
  <2>1. Fewer /\ UNCHANGED <<beaconVars, baseVars>>
    BY <1>3 DEF Environment, LinkLoss, LoseNotification
  <2> QED
    BY <2>1, QuietKept
<1>4. CASE BeaconReceives /\ UNCHANGED baseVars
  BY <1>4, WritesKept
<1>5. CASE (OnSent \/ OnDisconnected \/ IdleTimeout(Quiet) \/ Record) /\ UNCHANGED baseVars
  BY <1>5, QuietKept DEF OnSent, OnDisconnected, IdleTimeout, Record, wireVars
<1>6. CASE BaseStep
  <2>1. UNCHANGED beaconVars
    BY <1>6 DEF BaseStep
  <2>2. CASE Discovered
    BY <2>1, <2>2, DiscoveredKept
  <2>3. CASE DataReceived
    <3>1. UNCHANGED <<t, done, reserved, ackVars>>
      BY <2>1
    <3> QED
      BY <2>1, <2>3, <3>1, ReceivedKept, PacketsKept, AcksKept
  <2>4. CASE PressStart \/ PressStop \/ ScanStarts \/ ScanMatch \/ CreateConn \/ ReadyForNus
    <3>1. UNCHANGED <<toBase, toBeacon, got, heard>>
      BY <2>4 DEF PressStart, PressStop, Press, ScanStarts, ScanMatch, CreateConn, ReadyForNus
    <3> QED
      BY <2>1, <3>1, QuietKept
  <2>5. CASE FinishDisconnect \/ BaseDisconnected \/ RxIdleTimeout(Quiet)
    <3>1. Fewer /\ got' = got /\ heard' \subseteq heard
      BY <2>5 DEF FinishDisconnect, BaseDisconnected, RxIdleTimeout, Fewer, Shrunk
    <3> QED
      BY <2>1, <3>1, QuietKept
  <2> QED
    BY <1>6, <2>2, <2>3, <2>4, <2>5 DEF BaseStep, Base
<1>7. CASE UNCHANGED vars
  BY <1>7, QuietKept DEF vars, wireVars
<1> QED
  BY <1>1, <1>2, <1>3, <1>4, <1>5, <1>6, <1>7 DEF Next, BeaconStep, Callback

-----------------------------------------------------------------------------
(* What is on its way of a domain, in a step of the transfer thread.       *)

StillOnWay == UNCHANGED <<toBase, toBeacon, got, heard>>

LEMMA OnWay ==
  ASSUME StillOnWay
  PROVE  /\ Single => Single'
         /\ \A d : (NoneOf(d) <=> NoneOf(d)') /\ \A n : Heard(d, n) <=> Heard(d, n)'
BY DEF StillOnWay, Single, NoneOf, AcksOf, BatchesOf, Heard

(* What the stage reached asks of its packets.                             *)
LEMMA PacketsReached ==
  ASSUME NEW s, t'.stage = s, Single',
         \A d \in Domain : Later(d)' => NoneOf(d)' /\ Heard(d, 0)',
         s \in Domain /\ t'.pc \in BeforePc => NoneOf(s)' /\ Heard(s, done[s])',
         s \in Domain /\ t'.pc \in AfterPc => Fits(s)',
         s \in Domain /\ (t'.pc \in AfterPc \union {"commit"} \/ (t'.pc = "disarm" /\ t'.ok)) =>
           Heard(s, done[s] + reserved[s])',
         t'.pc = "disarm" => s \in Domain
  PROVE  Packets'
<1>1. InDomain' <=> s \in Domain
  BY DEF InDomain
<1>2. InDomain' /\ t'.pc \in BeforePc => (NoneOf(t.stage) /\ Heard(t.stage, done[t.stage]))'
  BY <1>1 DEF NoneOf, AcksOf, BatchesOf, Heard
<1>3. InDomain' /\ t'.pc \in AfterPc => Fits(t.stage)'
  BY <1>1
<1>4. InDomain' /\ (t'.pc \in AfterPc \union {"commit"} \/ (t'.pc = "disarm" /\ t'.ok)) =>
        Heard(t.stage, done[t.stage] + reserved[t.stage])'
  BY <1>1 DEF Heard
<1> QED
  BY <1>1, <1>2, <1>3, <1>4 DEF Packets, At

(* A step within a stage, while or after which nothing of it is on its way.*)
LEMMA WithinStage ==
  ASSUME Packets, StillOnWay, t'.stage = t.stage, HoldsRef' => HoldsRef,
         t'.pc \notin AfterPc \union {"commit", "disarm"} \/ (~InDomain /\ t'.pc # "disarm"),
         InDomain /\ t'.pc \in BeforePc => t.pc \in BeforePc /\ done' = done
  PROVE  Packets'
<1>0. PICK s : s = t.stage
  OBVIOUS
<1>1. \A d \in Domain : Later(d)' => NoneOf(d)' /\ Heard(d, 0)'
  <2>1. \A d \in Domain : Later(d)' => Later(d)
    BY DEF Later
  <2> QED
    BY <2>1, OnWay DEF Packets
<1>2. s \in Domain /\ t'.pc \in BeforePc => NoneOf(s)' /\ Heard(s, done[s])'
  <2>1. s \in Domain /\ t'.pc \in BeforePc => NoneOf(s) /\ Heard(s, done[s]) /\ done' = done
    BY <1>0 DEF Packets, InDomain
  <2>2. NoneOf(s) => NoneOf(s)'
    BY OnWay
  <2>3. done' = done => (Heard(s, done[s]) <=> Heard(s, done[s])')
    BY DEF Heard, StillOnWay
  <2> QED
    BY <2>1, <2>2, <2>3
<1>3. Single'
  BY OnWay DEF Packets
<1>4. s \in Domain \/ t'.pc = "disarm" => t'.pc \notin AfterPc \union {"commit", "disarm"}
  BY <1>0 DEF InDomain
<1> QED
  BY <1>0, <1>1, <1>2, <1>3, <1>4, PacketsReached

(* A step within a stage whose batch may be on its way.                    *)
LEMMA AfterBatch ==
  ASSUME Packets, StillOnWay, UNCHANGED <<done, reserved>>, t'.stage = t.stage, HoldsRef,
         t'.pc \notin BeforePc, t'.pc = "disarm" => InDomain,
         t'.pc \in AfterPc => t.pc \in AfterPc,
         t'.pc = "commit" \/ (t'.pc = "disarm" /\ t'.ok) =>
           t.pc \in AfterPc \union {"commit"} \/ (At("disarm") /\ t.ok)
  PROVE  Packets'
<1>0. PICK s : s = t.stage
  OBVIOUS
<1>1. \A d \in Domain : Later(d)' => NoneOf(d)' /\ Heard(d, 0)'
  <2>1. \A d \in Domain : Later(d)' => Later(d)
    BY DEF Later
  <2> QED
    BY <2>1, OnWay DEF Packets
<1>2. s \in Domain /\ t'.pc \in AfterPc => Fits(s)'
  <2>1. Fits(s) => Fits(s)'
    BY DEF Fits, StillOnWay, AcksOf, BatchesOf, Heard, Received
  <2> QED
    BY <1>0, <2>1 DEF Packets, InDomain
<1>3. s \in Domain /\ (t'.pc \in AfterPc \union {"commit"} \/ (t'.pc = "disarm" /\ t'.ok)) =>
        Heard(s, done[s] + reserved[s])'
  <2>1. Heard(s, done[s] + reserved[s]) <=> Heard(s, done[s] + reserved[s])'
    BY DEF Heard, StillOnWay
  <2>2. InDomain /\ (t.pc \in AfterPc \union {"commit"} \/ (At("disarm") /\ t.ok)) =>
          Heard(s, done[s] + reserved[s])
    BY <1>0 DEF Packets, At, InDomain
  <2> QED
    BY <1>0, <2>1, <2>2 DEF InDomain
<1>4. Single'
  BY OnWay DEF Packets
<1> QED
  BY <1>0, <1>1, <1>2, <1>3, <1>4, PacketsReached DEF InDomain

(* The step to a later stage.                                              *)
LEMMA StageTurned ==
  ASSUME TypeOK, Packets, StillOnWay, HoldsRef, t' \in Thread,
         StageRank[t'.stage] > StageRank[t.stage],
         t'.pc = IF t'.stage \in Domain THEN "begin" ELSE "check",
         done' \in [Domain -> Nat]
  PROVE  Packets'
<1>0. PICK s : s = t'.stage
  OBVIOUS
<1>1. t.stage \in Stage /\ s \in Stage /\ StageRank[t.stage] \in Nat /\ StageRank[s] \in Nat
  BY <1>0, StageOrder DEF Thread, TypeOK
<1>2. \A d \in Domain : Later(d)' => NoneOf(d)' /\ Heard(d, 0)'
  <2>1. \A d \in Domain : Later(d)' => StageRank[d] > StageRank[s]
    BY <1>0 DEF Later
  <2>2. \A d \in Domain : Later(d)' => Later(d)
    BY <1>0, <1>1, <2>1, StageOrder DEF Later
  <2> QED
    BY <2>2, OnWay DEF Packets
<1>3. s \in Domain => NoneOf(s)' /\ Heard(s, done[s])'
  <2>1. s \in Domain => NoneOf(s) /\ Heard(s, 0)
    BY <1>0 DEF Packets, Later
  <2>2. \A x \in heard : x[2] \in Nat
    BY DEF TypeOK, Positive
  <2>3. s \in Domain => done'[s] \in Nat
    OBVIOUS
  <2>4. s \in Domain => Heard(s, done'[s])
    BY <2>1, <2>2, <2>3 DEF Heard
  <2>5. s \in Domain => Heard(s, done[s])'
    BY <2>4 DEF Heard, StillOnWay
  <2> QED
    BY <2>1, <2>5, OnWay
<1>4. Single'
  BY OnWay DEF Packets
<1>5. t'.pc \in {"begin", "check"} /\ t'.pc \notin AfterPc
  BY DEF AfterPc
<1> QED
  BY <1>0, <1>2, <1>3, <1>4, <1>5, PacketsReached

(* The batch the thread posts is the only message about its domain.        *)
LEMMA BatchPosted ==
  ASSUME TypeOK, Stages, Packets, At("post"), InDomain, UNCHANGED <<toBeacon, got, heard, done, reserved>>,
         toBase' = toBase \/ toBase' = toBase \o <<Payload>>, NEW s, s = t.stage
  PROVE  /\ Single' /\ Fits(s)' /\ Heard(s, done[s] + reserved[s])'
         /\ \A d \in Domain \ {s} : NoneOf(d) => NoneOf(d)'
<1>1. s \in Domain /\ reserved[s] # 0 /\ NoneOf(s) /\ Heard(s, done[s])
  BY DEF InDomain, Stages, BatchPc, At, Packets, BeforePc
<1>2. done[s] \in Nat /\ reserved[s] \in Nat
  BY <1>1, StoredTotals
<1>3. Heard(s, done[s])' /\ Heard(s, done[s] + reserved[s])'
  <2>1. \A x \in heard : x[2] \in Nat
    BY DEF TypeOK, Positive
  <2>2. Heard(s, done[s] + reserved[s])
    BY <1>1, <1>2, <2>1 DEF Heard
  <2> QED
    BY <1>1, <2>2 DEF Heard
<1>4. \A d : AcksOf(d)' = AcksOf(d)
  BY DEF AcksOf
<1>5. CASE toBase' = toBase
  <2>1. \A d : BatchesOf(d)' = BatchesOf(d)
    BY <1>5 DEF BatchesOf
  <2>2. Single' /\ \A d : NoneOf(d) => NoneOf(d)'
    BY <1>4, <2>1 DEF Packets, Single, NoneOf
  <2>3. Fits(s)'
    BY <1>1, <1>4, <2>1 DEF NoneOf, Fits
  <2> QED
    BY <1>3, <2>2, <2>3
<1>6. CASE toBase' = toBase \o <<Payload>>
  <2>0. PICK m : m = Payload
    OBVIOUS
  <2>1. /\ m.kind = "batch" /\ m.domain = s /\ m.first = done[s] + 1 /\ m.count = reserved[s]
        /\ m \in Notification /\ toBase \in Seq(Notification) /\ toBase' = toBase \o <<m>>
    BY <1>1, <1>2, <1>6, <2>0 DEF Payload, Notification, Positive, TypeOK
  <2>2. BatchesOf(s) = {} /\ AcksOf(s) = {}
    BY <1>1 DEF NoneOf
  <2>3. (\A i, j \in BatchesOf(s)' : i = j) /\ \A i \in BatchesOf(s)' : toBase'[i] = m
    BY <2>1, <2>2, BatchAdded
  <2>4. \A d \in Domain \ {s} : BatchesOf(d)' \subseteq BatchesOf(d)
    BY <2>1, BatchAdded
  <2>5. Single'
    BY <1>4, <2>2, <2>3, <2>4 DEF Packets, Single
  <2>6. \A d \in Domain \ {s} : NoneOf(d) => NoneOf(d)'
    BY <1>4, <2>4 DEF NoneOf
  <2>7. Fits(s)'
    BY <1>3, <1>4, <2>1, <2>2, <2>3 DEF Fits
  <2> QED
    BY <1>3, <2>5, <2>6, <2>7
<1> QED
  BY <1>5, <1>6

(* Other messages of the thread are about no domain.                       *)
LEMMA NoticePosted ==
  ASSUME TypeOK, Packets, At("post"), ~InDomain, UNCHANGED <<toBeacon>>,
         toBase' = toBase \/ toBase' = toBase \o <<Payload>>
  PROVE  Single' /\ \A d \in Domain : NoneOf(d) => NoneOf(d)'
<1>1. \A d \in Domain : AcksOf(d)' = AcksOf(d) /\ BatchesOf(d)' \subseteq BatchesOf(d)
  <2>1. CASE toBase' = toBase
    BY <2>1 DEF AcksOf, BatchesOf
  <2>2. CASE toBase' = toBase \o <<Payload>>
    <3>0. PICK m : m = Payload
      OBVIOUS
    <3>1. /\ m.kind \in {"status", "finished"} /\ m \in Notification
          /\ toBase \in Seq(Notification) /\ toBase' = toBase \o <<m>>
      BY <2>2, <3>0 DEF Payload, Notification, TypeOK, Stage, InDomain
    <3>2. \A d : BatchesOf(d)' \subseteq BatchesOf(d)
      BY <3>1, BatchAdded
    <3> QED
      BY <3>2 DEF AcksOf
  <2> QED
    BY <2>1, <2>2
<1> QED
  BY <1>1 DEF Packets, Single, NoneOf

LEMMA PostPackets ==
  ASSUME TypeOK, Stages, Packets, Post, UNCHANGED baseVars
  PROVE  Packets' /\ (Unarmed => \A d \in Domain : NoneOf(d) => NoneOf(d)')
<1>0. t \in Thread
  BY TypeParts
<1>1. At("post") /\ UNCHANGED <<toBeacon, got, heard, done, reserved>> /\ (Moved("confirm") \/ Unsent)
  BY <1>0, SendMoves DEF Post, storeVars, baseVars, nusVars
<1>2. toBase' = toBase \/ toBase' = toBase \o <<Payload>>
  BY DEF Post, Sent
<1>3. PICK s : s = t.stage
  OBVIOUS
<1>4. t'.stage = s
  BY <1>1, <1>3 DEF Moved, Unsent
<1>5. \A d \in Domain : Later(d)' => Later(d) /\ Heard(d, 0)'
  <2>1. \A d \in Domain : Later(d)' => Later(d)
    BY <1>1, <1>3, <1>4 DEF Later, HoldsRef, At
  <2> QED
    BY <1>1, <2>1 DEF Packets, Heard
<1>6. CASE InDomain
  <2>1. /\ Single' /\ Fits(s)' /\ Heard(s, done[s] + reserved[s])'
        /\ \A d \in Domain \ {s} : NoneOf(d) => NoneOf(d)'
    BY <1>1, <1>2, <1>3, <1>6, BatchPosted
  <2>2. \A d \in Domain : Later(d)' => NoneOf(d)' /\ Heard(d, 0)'
    <3>1. ~Later(s)
      BY <1>3, <1>6, StageOrder DEF Later, InDomain
    <3> QED
      BY <1>5, <2>1, <3>1 DEF Packets
  <2>3. t'.pc \in {"confirm", "abort"}
    BY <1>1, <1>6 DEF Moved, Unsent
  <2>4. ~Unarmed
    BY <1>1, <1>6, StageOrder DEF Unarmed, At, InDomain
  <2> QED
    BY <1>4, <2>1, <2>2, <2>3, <2>4, PacketsReached DEF BeforePc
<1>7. CASE ~InDomain
  <2>1. Single' /\ \A d \in Domain : NoneOf(d) => NoneOf(d)'
    BY <1>1, <1>2, <1>7, NoticePosted
  <2>2. \A d \in Domain : Later(d)' => NoneOf(d)' /\ Heard(d, 0)'
    BY <1>5, <2>1 DEF Packets
  <2>3. s \notin Domain /\ t'.pc \in {"confirm", "finish"}
    BY <1>1, <1>3, <1>7 DEF Moved, Unsent, InDomain
  <2> QED
    BY <1>4, <2>1, <2>2, <2>3, PacketsReached
<1> QED
  BY <1>6, <1>7

(* A transfer begins on a connection that carries nothing yet.             *)
LEMMA TakePackets ==
  ASSUME TypeOK, Stages, Starts, Packets, TakeConn, UNCHANGED baseVars
  PROVE  Packets' /\ (t'.pc = "count" => \A d \in Domain : NoneOf(d)')
<1>0. t \in Thread
  BY TypeParts
<1>1. /\ StillOnWay /\ t'.stage = "status"
      /\ t'.pc = IF transfer_conn THEN "count" ELSE "none"
  BY <1>0, StartMoves DEF TakeConn, StillOnWay, wireVars, baseVars, nusVars
<1>2. t'.pc = "count" => heard = {} /\ toBase = <<>> /\ \A d \in Domain : AcksOf(d) = {}
  BY <1>1 DEF Starts
<1>3. t'.pc = "count" => \A d \in Domain : NoneOf(d)' /\ Heard(d, 0)'
  <2>1. t'.pc = "count" => \A d \in Domain : NoneOf(d) /\ Heard(d, 0)
    BY <1>2 DEF NoneOf, BatchesOf, Of, Heard
  <2> QED
    BY <1>1, <2>1, OnWay
<1>4. t'.pc = "none" => \A d \in Domain : ~Later(d)'
  BY DEF Later, HoldsRef
<1>5. Single'
  BY <1>1, OnWay DEF Packets
<1>6. "status" \notin Domain /\ t'.pc # "disarm"
  BY <1>1, StageOrder
<1> QED
  BY <1>1, <1>3, <1>4, <1>5, <1>6, PacketsReached

LEMMA EndedPackets ==
  ASSUME TypeOK, Packets, StillOnWay, Ended, HoldsRef, t' \in Thread, done' \in [Domain -> Nat]
  PROVE  Packets'
<1>1. CASE t'.pc = "finish" /\ t'.stage = t.stage
  <2>1. HoldsRef'
    BY <1>1 DEF HoldsRef
  <2> QED
    BY <1>1, <2>1, WithinStage DEF AfterPc, BeforePc
<1>2. CASE t'.stage = StageAfter[t.stage] /\ t'.pc = IF t'.stage \in Domain THEN "begin" ELSE "check"
  <2>1. t.stage \in Domain
    BY DEF Ended, InDomain
  <2>2. StageRank[t'.stage] > StageRank[t.stage]
    BY <1>2, <2>1, StageOrder
  <2> QED
    BY <1>2, <2>2, StageTurned
<1> QED
  BY <1>1, <1>2 DEF Ended

LEMMA TransferPackets ==
  ASSUME TypeOK, Stages, Starts, Packets, Acks, Transfer, UNCHANGED baseVars, TypeOK'
  PROVE  Packets'
<1> USE DEF At, Moved, storeVars, wireVars
<1>0. /\ t \in Thread /\ t' \in Thread /\ done' \in [Domain -> Nat]
  BY DEF TypeOK, Thread
<1>1. ~Post => StillOnWay
  <2>1. UNCHANGED <<got, heard>>
    BY DEF baseVars, nusVars
  <2> QED
    BY <2>1, TransferLink DEF StillOnWay
<1>2. CASE TakeConn
  BY <1>2, TakePackets
<1>3. CASE Post
  BY <1>3, PostPackets
<1>4. CASE Dequeue \/ FinishNone
  <2>1. ~Post
    BY <1>4 DEF Dequeue, FinishNone, Post
  <2>2. t'.stage = t.stage /\ t'.pc \in {"take", "idle"}
    BY <1>0, <1>4, StartMoves
  <2> QED
    BY <1>1, <2>1, <2>2, WithinStage DEF HoldsRef, AfterPc, BeforePc
<1>5. CASE CountContacts \/ ArmReset \/ Arm
  <2>1. ~Post /\ HoldsRef
    BY <1>5 DEF CountContacts, ArmReset, Arm, Post, HoldsRef
  <2>2. /\ t'.stage = t.stage /\ done' = done
        /\ \/ t.stage = "status" /\ t'.pc \in {"check", "finish"}
           \/ t.pc \in {"arm_reset", "arm"} /\ t'.pc \in {"arm", "check"}
    BY <1>0, <1>5, StartMoves DEF CountContacts, ArmReset, Arm
  <2> QED
    BY <1>1, <2>1, <2>2, WithinStage, StageOrder DEF AfterPc, BeforePc, InDomain
<1>6. CASE Begin
  <2>1. ~Post /\ HoldsRef /\ done' = done
    BY <1>6 DEF Begin, Post, HoldsRef
  <2>2. At("begin") /\ (Moved("arm_reset") \/ Moved("sync") \/ Ended)
    BY <1>0, <1>6, StartMoves
  <2>3. CASE Moved("arm_reset") \/ Moved("sync")
    BY <1>1, <2>1, <2>2, <2>3, WithinStage DEF AfterPc, BeforePc
  <2> QED
    BY <1>0, <1>1, <2>1, <2>2, <2>3, EndedPackets
<1>7. CASE Check \/ Claim
  <2>1. ~Post /\ HoldsRef /\ done' = done
    BY <1>7 DEF Check, Claim, Post, HoldsRef
  <2>2. /\ t'.stage = t.stage /\ t.pc \in BeforePc
        /\ t'.pc \in {"claim", "post", "abort", "finish"}
    BY <1>0, <1>7, SendMoves DEF Unsent, BeforePc
  <2> QED
    BY <1>1, <2>1, <2>2, WithinStage DEF AfterPc, BeforePc
<1>8. CASE Confirm \/ Retire
  <2>1. ~Post /\ HoldsRef /\ UNCHANGED <<done, reserved>>
    BY <1>8 DEF Confirm, Retire, Post, HoldsRef
  <2>2. t'.stage = t.stage /\ t.pc \in AfterPc /\ t'.pc \in {"recheck", "retire", "cut"}
    BY <1>0, <1>8, SendMoves DEF AfterPc
  <2> QED
    BY <1>1, <2>1, <2>2, AfterBatch DEF AfterPc, BeforePc
<1>9. CASE Cut
  <2>1. ~Post /\ HoldsRef
    BY <1>9 DEF Cut, Post, HoldsRef
  <2>2. t'.stage = t.stage /\ t'.pc \in {"abort", "finish"}
    BY <1>0, <1>9, SendMoves DEF Unsent
  <2> QED
    BY <1>1, <2>1, <2>2, WithinStage DEF AfterPc, BeforePc
<1>10. CASE Recheck
  <2>1. ~Post /\ HoldsRef /\ UNCHANGED <<done, reserved>>
    BY <1>10 DEF Recheck, Post, HoldsRef
  <2>2. At("recheck") /\ (Accepted \/ Unsent)
    BY <1>0, <1>10, SendMoves
  <2>3. CASE Unsent
    BY <1>1, <2>1, <2>3, WithinStage DEF Unsent, AfterPc, BeforePc
  <2>4. CASE t.stage = "status" /\ t'.stage = "contacts" /\ t'.pc = "begin"
    <3>1. StageRank[t'.stage] > StageRank[t.stage] /\ t'.stage \in Domain
      BY <2>4, StageOrder DEF Domain
    <3> QED
      BY <1>0, <1>1, <2>1, <2>4, <3>1, StageTurned
  <2>5. CASE InDomain /\ t'.stage = t.stage /\ t'.pc = "await"
    BY <1>1, <2>1, <2>2, <2>5, AfterBatch DEF AfterPc, BeforePc
  <2>6. CASE t.stage = "finished" /\ t'.stage = t.stage /\ t'.pc = "mark"
    BY <1>1, <2>1, <2>6, WithinStage DEF AfterPc, BeforePc
  <2> QED
    BY <2>2, <2>3, <2>4, <2>5, <2>6 DEF Accepted
<1>11. CASE Await
  <2>1. ~Post /\ HoldsRef /\ UNCHANGED <<done, reserved>>
    BY <1>11 DEF Await, Post, HoldsRef
  <2>2. At("await") /\ InDomain /\ t'.stage = t.stage /\ t'.pc = "disarm"
    BY <1>0, <1>11, EndMoves
  <2> QED
    BY <1>1, <2>1, <2>2, AfterBatch DEF AfterPc, BeforePc
<1>12. CASE Disarm
  <2>1. ~Post /\ HoldsRef /\ UNCHANGED <<done, reserved>>
    BY <1>12 DEF Disarm, Post, HoldsRef
  <2>2. At("disarm") /\ (IF t.ok THEN Moved("commit") ELSE Moved("abort"))
    BY <1>0, <1>12, EndMoves
  <2>3. CASE t.ok
    BY <1>1, <2>1, <2>2, <2>3, AfterBatch DEF AfterPc, BeforePc
  <2>4. CASE ~t.ok
    BY <1>1, <2>1, <2>2, <2>4, WithinStage DEF AfterPc, BeforePc
  <2> QED
    BY <2>3, <2>4
<1>13. CASE Abort \/ SyncDomain
  <2>1. ~Post /\ HoldsRef
    BY <1>13 DEF Abort, SyncDomain, Post, HoldsRef
  <2>2. Ended
    BY <1>0, <1>13, EndMoves
  <2> QED
    BY <1>0, <1>1, <2>1, <2>2, EndedPackets
<1>14. CASE Commit
  <2>1. ~Post /\ HoldsRef
    BY <1>14 DEF Commit, Post, HoldsRef
  <2>2. At("commit") /\ InDomain /\ (Moved("begin") \/ Ended)
    BY <1>0, <1>14, EndMoves
  <2>3. CASE Ended
    BY <1>0, <1>1, <2>1, <2>3, EndedPackets
  <2>4. CASE Moved("begin") /\ ~Ended
    <3>0. PICK s : s = t.stage
      OBVIOUS
    <3>1. done' = [done EXCEPT ![t.stage] = @ + reserved[t.stage]]
      BY <1>0, <1>14, <2>2, <2>4, EndStageMoves DEF Commit, Ended
    <3>2. s \in Domain /\ NoneOf(s) /\ Heard(s, done[s] + reserved[s])
      BY <2>2, <3>0 DEF InDomain, Acks, Answered, Packets
    <3>3. done'[s] = done[s] + reserved[s]
      BY <3>0, <3>1, <3>2 DEF TypeOK
    <3>4. NoneOf(s)' /\ Heard(s, done[s])'
      <4>1. Heard(s, done'[s])
        BY <3>2, <3>3
      <4>2. Heard(s, done[s])'
        BY <1>1, <2>1, <4>1 DEF Heard, StillOnWay
      <4> QED
        BY <1>1, <2>1, <3>2, <4>2, OnWay
    <3>5. \A d \in Domain : Later(d)' => NoneOf(d)' /\ Heard(d, 0)'
      <4>1. \A d \in Domain : Later(d)' => Later(d)
        BY <2>1, <2>4 DEF Later
      <4> QED
        BY <1>1, <2>1, <4>1, OnWay DEF Packets
    <3>6. Single'
      BY <1>1, <2>1, OnWay DEF Packets
    <3> QED
      BY <2>4, <3>0, <3>4, <3>5, <3>6, PacketsReached DEF AfterPc
  <2> QED
    BY <2>2, <2>3, <2>4
<1>15. CASE Mark \/ Drain \/ Finish
  <2>1. ~Post /\ HoldsRef
    BY <1>15 DEF Mark, Drain, Finish, Post, HoldsRef
  <2>2. t'.stage = t.stage /\ t'.pc \in {"drain", "finish", "leave"}
    BY <1>0, <1>15, EndMoves
  <2> QED
    BY <1>1, <2>1, <2>2, WithinStage DEF AfterPc, BeforePc
<1>16. CASE Leave
  <2>1. ~Post /\ t'.stage = "status" /\ t'.pc = "idle"
    BY <1>16 DEF Leave, Post
  <2>2. \A d \in Domain : ~Later(d)'
    BY <2>1 DEF Later, HoldsRef
  <2>3. Single'
    BY <1>1, <2>1, OnWay DEF Packets
  <2> QED
    BY <2>1, <2>2, <2>3, StageOrder, PacketsReached DEF AfterPc, BeforePc
<1> QED
  BY <1>2, <1>3, <1>4, <1>5, <1>6, <1>7, <1>8, <1>9, <1>10, <1>11, <1>12, <1>13, <1>14, <1>15, <1>16
  DEF Transfer

(* What the expectation of an acknowledgement asks of the step reached.    *)
ExpectPc == {"arm", "check", "claim", "post", "disarm", "commit", "abort"} \union AfterPc

LEMMA NothingExpected ==
  ASSUME t'.pc \notin ExpectPc \/ (t'.stage \notin Domain /\ t'.pc \in SendPc), ~Unarmed'
  PROVE  Acks'
BY DEF Acks, ExpectPc, AfterPc, SendPc, InDomain, At

(* A step after which whatever is expected was left by an unsent packet.   *)
LEMMA StillUnarmed ==
  ASSUME t'.pc \in {"count", "begin", "arm_reset", "sync"} \/ (t'.stage \notin Domain /\ t'.pc \in SendPc),
         UNCHANGED nus_ack_wait, ~nus_ack_wait.active \/ (Unarmed /\ Acks),
         Unarmed => \A d \in Domain : NoneOf(d) => NoneOf(d)'
  PROVE  Acks'
BY DEF Acks, AfterPc, SendPc, InDomain, At

(* Within a send, the expectation stays as it is.                          *)
LEMMA StillExpected ==
  ASSUME Acks, UNCHANGED <<ackVars, done, reserved, toBase, toBeacon, got>>, t'.stage = t.stage,
         InDomain, t'.pc \in {"check", "claim", "post"} \union AfterPc,
         t'.pc \in {"check", "claim", "post"} => t.pc \in {"check", "claim", "post"},
         t'.pc \in AfterPc => t.pc \in AfterPc
  PROVE  Acks'
<1>0. PICK s : s = t.stage
  OBVIOUS
<1>1. (Waiting(s) <=> Waiting(s)') /\ (Answered(s) <=> Answered(s)')
  BY DEF Waiting, Answered, Received, NoneOf, AcksOf, BatchesOf, ackVars
<1>2. t'.pc \in {"check", "claim", "post"} => Waiting(s)'
  BY <1>0, <1>1 DEF Acks
<1>3. t'.pc \in AfterPc =>
        Waiting(s)' \/ (~nus_ack_wait.active /\ nus_ack_sem = 1 /\ Answered(s))'
  BY <1>0, <1>1 DEF Acks, ackVars
<1>4. t'.stage = s /\ s # "status"
  BY <1>0, StageOrder DEF InDomain
<1>5. t'.pc \in {"check", "claim", "post"} => (InDomain' => Waiting(t.stage)')
  BY <1>2, <1>4 DEF Waiting
<1>6. t'.pc \in AfterPc =>
        \/ Waiting(t.stage)'
        \/ (~nus_ack_wait.active /\ nus_ack_sem = 1 /\ Answered(t.stage))'
  BY <1>3, <1>4 DEF Waiting
<1>7. ~Unarmed'
  BY <1>4 DEF Unarmed, AfterPc
<1>8. t'.pc \notin {"arm", "disarm", "commit", "abort"}
  BY DEF AfterPc
<1> QED
  BY <1>5, <1>6, <1>7, <1>8 DEF Acks, At, AfterPc

LEMMA TransferAcks ==
  ASSUME TypeOK, Stages, Starts, Packets, Acks, Transfer, UNCHANGED baseVars
  PROVE  Acks'
<1> USE DEF At, Moved, storeVars, wireVars
<1>0. t \in Thread /\ {nus_ack_sem} \subseteq {0, 1} /\ nus_ack_wait \in [active : BOOLEAN, domain : Domain, count : Nat]
  BY DEF TypeOK, Thread, Bit
<1>1. ~Post => StillOnWay
  <2>1. UNCHANGED <<got, heard>>
    BY DEF baseVars, nusVars
  <2> QED
    BY <2>1, TransferLink DEF StillOnWay
<1>a. ~Post => \A d : NoneOf(d) <=> NoneOf(d)'
  BY <1>1, OnWay
<1>2. CASE TakeConn
  <2>1. t'.stage = "status" /\ t'.pc = IF transfer_conn THEN "count" ELSE "none"
    BY <1>0, <1>2, StartMoves
  <2>2. CASE t'.pc = "none"
    BY <2>1, <2>2, NothingExpected DEF ExpectPc, AfterPc, SendPc, Unarmed
  <2>3. CASE t'.pc = "count"
    <3>1. \A d \in Domain : NoneOf(d)'
      BY <1>2, <2>3, TakePackets
    <3> QED
      BY <2>3, <3>1 DEF Acks, AfterPc
  <2> QED
    BY <2>1, <2>2, <2>3
<1>3. CASE Dequeue \/ FinishNone \/ Mark \/ Drain \/ Finish \/ Leave
  <2>1. t'.pc \in {"take", "idle", "drain", "finish", "leave"}
    BY <1>0, <1>3, StartMoves, EndMoves
  <2> QED
    BY <2>1, NothingExpected DEF ExpectPc, AfterPc, SendPc, Unarmed
<1>4. CASE CountContacts
  <2>1. /\ At("count") /\ t.stage = "status" /\ UNCHANGED ackVars /\ ~Post
        /\ t'.pc = "check" \/ t'.pc = "finish"
        /\ t'.stage = "status"
    BY <1>0, <1>4, StartMoves DEF CountContacts, Post
  <2>2. CASE t'.pc = "finish"
    BY <2>2, NothingExpected DEF ExpectPc, AfterPc, SendPc, Unarmed
  <2>3. CASE t'.pc = "check"
    BY <1>a, <2>1, <2>3, StillUnarmed, StageOrder DEF Unarmed, SendPc, ackVars
  <2> QED
    BY <2>1, <2>2, <2>3
<1>5. CASE Begin \/ SyncDomain
  <2>1. /\ t.pc \in {"begin", "sync"} /\ UNCHANGED ackVars /\ ~Post
        /\ t'.pc \in {"arm_reset", "sync", "begin", "finish"} \/ (t'.pc = "check" /\ t'.stage \notin Domain)
    BY <1>0, <1>5, StartMoves, EndMoves DEF Begin, SyncDomain, Post, Ended
  <2>2. CASE t'.pc = "finish"
    BY <2>2, NothingExpected DEF ExpectPc, AfterPc, SendPc, Unarmed
  <2>3. CASE t'.pc # "finish"
    BY <1>a, <2>1, <2>3, StillUnarmed DEF Unarmed, SendPc, ackVars
  <2> QED
    BY <2>2, <2>3
<1>6. CASE ArmReset
  <2>1. t.pc = "arm_reset" /\ t'.pc = "arm" /\ nus_ack_sem' = 0 /\ UNCHANGED nus_ack_wait /\ ~Post
    BY <1>0, <1>6, StartMoves DEF ArmReset, Post
  <2>2. nus_ack_wait.active => \A d \in Domain : NoneOf(d)'
    BY <1>a, <2>1 DEF Acks, Unarmed
  <2> QED
    BY <2>1, <2>2 DEF Acks, AfterPc
<1>7. CASE Arm
  <2>0. PICK s : s = t.stage
    OBVIOUS
  <2>1. /\ t.pc = "arm" /\ t'.pc = "check" /\ t'.stage = s /\ s \in Domain /\ s # "status"
        /\ nus_ack_wait' = [active |-> TRUE, domain |-> s, count |-> reserved[s]]
        /\ UNCHANGED <<nus_ack_sem, reserved>>
    BY <1>0, <1>7, <2>0, StartMoves, StageOrder DEF Arm, InDomain
  <2>2. Waiting(s)'
    BY <2>1 DEF Waiting, Acks
  <2>3. Waiting(t.stage)'
    BY <2>1, <2>2 DEF Waiting
  <2>4. ~Unarmed'
    BY <2>1 DEF Unarmed
  <2> QED
    BY <2>1, <2>3, <2>4 DEF Acks, AfterPc
<1>8. CASE ~InDomain /\ (Check \/ Claim \/ Confirm \/ Retire \/ Cut)
  <2>1. ~Post /\ UNCHANGED ackVars /\ t.pc \in SendPc
    BY <1>8 DEF Check, Claim, Confirm, Retire, Cut, Post, SendPc
  <2>2. t'.stage = t.stage /\ (t'.pc = "finish" \/ t'.pc \in SendPc)
    BY <1>0, <1>8, SendMoves DEF Unsent, SendPc
  <2>3. CASE t'.pc = "finish"
    BY <2>3, NothingExpected DEF ExpectPc, AfterPc, SendPc, Unarmed
  <2>4. CASE t.stage = "status" /\ t'.pc \in SendPc
    BY <1>a, <2>1, <2>2, <2>4, StillUnarmed, StageOrder DEF Unarmed, ackVars
  <2>5. CASE t.stage # "status" /\ t'.pc \in SendPc
    BY <1>8, <2>2, <2>5, NothingExpected DEF Unarmed, InDomain, SendPc
  <2> QED
    BY <2>2, <2>3, <2>4, <2>5
<1>9. CASE InDomain /\ (Check \/ Claim)
  <2>1. /\ t.pc \in {"check", "claim"} /\ ~Post
        /\ UNCHANGED <<ackVars, done, reserved, toBase, toBeacon>>
    BY <1>9 DEF Check, Claim, Post
  <2>2. (t'.pc \in {"claim", "post"} \/ (t'.pc = "abort" /\ ~t'.ok)) /\ t'.stage = t.stage
    BY <1>0, <1>9, SendMoves DEF Unsent
  <2>3. CASE t'.pc \in {"claim", "post"}
    BY <1>1, <1>9, <2>1, <2>2, <2>3, StillExpected DEF StillOnWay, AfterPc
  <2>4. CASE t'.pc = "abort" /\ ~t'.ok
    BY <2>4 DEF Acks, Unarmed, AfterPc, SendPc
  <2> QED
    BY <2>2, <2>3, <2>4
<1>10. CASE Post
  <2>1. /\ t.pc = "post" /\ UNCHANGED <<ackVars, done, reserved>>
        /\ (Moved("confirm") \/ Unsent)
    BY <1>0, <1>10, SendMoves DEF Post
  <2>2. Unarmed => \A d \in Domain : NoneOf(d) => NoneOf(d)'
    BY <1>10, PostPackets
  <2>3. CASE Unsent
    BY <2>3 DEF Unsent, Acks, Unarmed, AfterPc, SendPc
  <2>4. CASE Moved("confirm") /\ InDomain
    <3>0. PICK s : s = t.stage
      OBVIOUS
    <3>1. Waiting(s) /\ s # "status"
      BY <2>1, <2>4, <3>0, StageOrder DEF Acks, InDomain
    <3>2. Waiting(s)'
      BY <2>1, <3>1 DEF Waiting, ackVars
    <3>3. Waiting(t.stage)' /\ t'.stage # "status"
      BY <2>4, <3>0, <3>1, <3>2 DEF Waiting
    <3>4. ~Unarmed'
      BY <2>4, <3>3 DEF Unarmed
    <3> QED
      BY <2>4, <3>3, <3>4 DEF Acks, AfterPc
  <2>5. CASE Moved("confirm") /\ ~InDomain /\ t.stage = "status"
    BY <2>1, <2>2, <2>5, StillUnarmed, StageOrder DEF Unarmed, SendPc, ackVars
  <2>6. CASE Moved("confirm") /\ ~InDomain /\ t.stage # "status"
    BY <2>6, NothingExpected DEF Unarmed, InDomain, SendPc
  <2> QED
    BY <2>1, <2>3, <2>4, <2>5, <2>6
<1>11. CASE InDomain /\ (Confirm \/ Retire \/ Recheck)
  <2>1. /\ t.pc \in AfterPc /\ ~Post /\ UNCHANGED <<ackVars, done, reserved, toBase, toBeacon>>
    BY <1>11 DEF Confirm, Retire, Recheck, Post, AfterPc
  <2>2. /\ t'.pc \in {"recheck", "retire", "cut", "await"} \/ (t'.pc = "abort" /\ ~t'.ok)
        /\ t'.stage = t.stage
    BY <1>0, <1>11, SendMoves, StageOrder DEF Unsent, Accepted, InDomain
  <2>3. CASE t'.pc \in {"recheck", "retire", "cut", "await"}
    BY <1>1, <1>11, <2>1, <2>2, <2>3, StillExpected DEF StillOnWay, AfterPc
  <2>4. CASE t'.pc = "abort" /\ ~t'.ok
    BY <2>4 DEF Acks, Unarmed, AfterPc, SendPc
  <2> QED
    BY <2>2, <2>3, <2>4
<1>12. CASE InDomain /\ Cut
  <2>1. t'.pc = "abort" /\ ~t'.ok
    BY <1>0, <1>12, SendMoves DEF Unsent
  <2> QED
    BY <2>1 DEF Acks, Unarmed, AfterPc, SendPc
<1>13. CASE ~InDomain /\ Recheck
  <2>1. t.pc = "recheck" /\ ~Post /\ UNCHANGED ackVars
    BY <1>13 DEF Recheck, Post
  <2>2. \/ t'.pc \in {"finish", "mark"}
        \/ t.stage = "status" /\ t'.pc = "begin"
    BY <1>0, <1>13, SendMoves DEF Unsent, Accepted
  <2>3. CASE t'.pc \in {"finish", "mark"}
    BY <2>3, NothingExpected DEF ExpectPc, AfterPc, SendPc, Unarmed
  <2>4. CASE t.stage = "status" /\ t'.pc = "begin"
    BY <1>a, <2>1, <2>4, StillUnarmed DEF Unarmed, SendPc, ackVars
  <2> QED
    BY <2>2, <2>3, <2>4
<1>14. CASE Await
  <2>0. PICK s : s = t.stage
    OBVIOUS
  <2>1. /\ t.pc = "await" /\ s \in Domain /\ t'.stage = s /\ t'.pc = "disarm" /\ ~Post
        /\ t'.ok = TRUE => nus_ack_sem = 1
        /\ UNCHANGED <<done, reserved>>
    BY <1>0, <1>14, <2>0, EndMoves DEF Await, Post, InDomain
  <2>2. t'.ok = TRUE => Answered(s)
    BY <2>0, <2>1 DEF Acks, InDomain, AfterPc, Waiting
  <2>3. Answered(s) => Answered(s)'
    BY <1>1, <1>a, <2>1 DEF Answered, Received, StillOnWay
  <2>4. t'.ok \in BOOLEAN
    BY <1>0, <1>14, GotoWithMoves DEF Await, PC, Thread
  <2>5. t'.ok => Answered(t.stage)'
    BY <2>1, <2>2, <2>3, <2>4
  <2> QED
    BY <2>1, <2>5 DEF Acks, Unarmed, AfterPc, SendPc
<1>15. CASE Disarm
  <2>0. PICK s : s = t.stage
    OBVIOUS
  <2>1. /\ t.pc = "disarm" /\ s \in Domain /\ t'.stage = s /\ ~Post
        /\ t'.pc = IF t.ok THEN "commit" ELSE "abort"
        /\ nus_ack_wait' = [nus_ack_wait EXCEPT !.active = FALSE]
        /\ UNCHANGED <<done, reserved>>
    BY <1>0, <1>15, <2>0, EndMoves DEF Disarm, Post, InDomain
  <2>2. ~nus_ack_wait'.active
    BY <1>0, <2>1
  <2>3. t.ok => Answered(s)
    BY <2>0, <2>1 DEF Acks
  <2>4. Answered(s) => Answered(s)'
    BY <1>1, <1>a, <2>1 DEF Answered, Received, StillOnWay
  <2>5. t'.pc = "commit" => Answered(t.stage)'
    BY <2>1, <2>3, <2>4
  <2> QED
    BY <2>1, <2>2, <2>5 DEF Acks, Unarmed, AfterPc, SendPc
<1>16. CASE Abort
  <2>1. t.pc = "abort" /\ UNCHANGED ackVars /\ ~Post /\ EndStage(t.ok) /\ Ended
    BY <1>0, <1>16, EndMoves DEF Abort, Post
  <2>2. \/ t'.pc = "finish"
        \/ t'.pc = "begin" /\ t'.stage \in Domain
        \/ t'.pc = "check" /\ t'.stage = "finished"
    <3>1. t.stage \in Domain /\ StageAfter[t.stage] \in Stage /\ StageAfter[t.stage] # "status"
      BY <2>1, StageOrder DEF Ended, InDomain
    <3> QED
      BY <2>1, <3>1 DEF Ended, Stage
  <2>3. CASE t'.pc = "finish"
    BY <2>3, NothingExpected DEF ExpectPc, AfterPc, SendPc, Unarmed
  <2>4. CASE t'.pc = "check" /\ t'.stage = "finished"
    BY <2>4, NothingExpected, StageOrder DEF SendPc, Unarmed
  <2>5. CASE t'.pc = "begin" /\ t'.stage \in Domain
    <3>1. t.ok \/ t.stage = "eco"
      BY <1>0, <2>1, <2>5, GotoWithMoves DEF EndStage, PC
    <3>2. t.stage # "eco" \/ t'.stage = "finished"
      BY <2>1, <2>5 DEF Ended, StageAfter
    <3>3. t.ok
      BY <2>5, <3>1, <3>2, StageOrder
    <3>4. ~nus_ack_wait.active
      BY <2>1, <3>3 DEF Acks
    <3> QED
      BY <1>a, <2>1, <2>5, <3>4, StillUnarmed DEF ackVars
  <2> QED
    BY <2>2, <2>3, <2>4, <2>5
<1>17. CASE Commit
  <2>1. /\ t.pc = "commit" /\ UNCHANGED ackVars /\ ~Post /\ ~nus_ack_wait.active
        /\ t'.pc \in {"begin", "finish"} \/ (t'.pc = "check" /\ t'.stage \notin Domain)
    BY <1>0, <1>17, EndMoves DEF Commit, Post, Acks, Ended
  <2>2. CASE t'.pc = "finish"
    BY <2>2, NothingExpected DEF ExpectPc, AfterPc, SendPc, Unarmed
  <2>3. CASE t'.pc # "finish"
    BY <1>a, <2>1, <2>3, StillUnarmed DEF Unarmed, SendPc, ackVars
  <2> QED
    BY <2>2, <2>3
<1> QED
  BY <1>2, <1>3, <1>4, <1>5, <1>6, <1>7, <1>8, <1>9, <1>10, <1>11, <1>12, <1>13, <1>14, <1>15, <1>16, <1>17
  DEF Transfer

-----------------------------------------------------------------------------
(* What was dropped and what was sent.                                     *)

LEMMA OutputGrows ==
  ASSUME [Next]_vars
  PROVE  got \subseteq got'
<1> USE DEF baseVars, nusVars
<1>1. CASE Connect \/ NoConnect \/ Environment
  BY <1>1 DEF Connect, BaseConnected, NoConnect, ConnectFails, Environment
<1>2. CASE BeaconStep \/ UNCHANGED vars
  BY <1>2 DEF BeaconStep, vars
<1>3. CASE BaseStep
  BY <1>3 DEF BaseStep, Base, PressStart, PressStop, Press, ScanStarts, ScanMatch, CreateConn, ReadyForNus, Discovered,
              DataReceived, FinishDisconnect, BaseDisconnected, RxIdleTimeout
<1> QED
  BY <1>1, <1>2, <1>3 DEF Next

(* Only a commit drops entries, and it drops what was acknowledged.        *)
LEMMA DroppedStep ==
  ASSUME TypeOK, Stages, Acks, DroppedWereReceived, [Next]_vars
  PROVE  DroppedWereReceived'
<1>1. got \subseteq got'
  BY OutputGrows
<1>2. CASE done' = done
  BY <1>1, <1>2 DEF DroppedWereReceived
<1>3. CASE Commit
  <2>0. PICK s : s = t.stage
    OBVIOUS
  <2>1. s \in Domain /\ Received(s)
    BY <1>3, <2>0 DEF Commit, Stages, DomainPc, InDomain, At, Acks, Answered
  <2>2. done' = done \/ done' = [done EXCEPT ![s] = done[s] + reserved[s]]
    BY <1>3, <2>0 DEF Commit
  <2>3. CASE done' = [done EXCEPT ![s] = done[s] + reserved[s]]
    <3>1. done \in [Domain -> Nat] /\ done[s] \in Nat /\ reserved[s] \in Nat
      BY <2>1, StoredTotals DEF TypeOK
    <3> SUFFICES ASSUME NEW d \in Domain, NEW e \in 1 .. done'[d]
                 PROVE  <<d, e>> \in got
      BY <1>1 DEF DroppedWereReceived
    <3>2. CASE d # s
      BY <2>3, <3>1, <3>2 DEF DroppedWereReceived
    <3>3. CASE d = s
      <4>1. e \in 1 .. done[s] + reserved[s]
        BY <2>1, <2>3, <3>1, <3>3
      <4>2. e \in 1 .. done[s] \/ e \in done[s] + 1 .. done[s] + reserved[s]
        BY <3>1, <4>1
      <4> QED
        BY <2>1, <3>3, <4>2 DEF Received, DroppedWereReceived
    <3> QED
      BY <3>2, <3>3
  <2> QED
    BY <1>2, <2>2, <2>3
<1>4. CASE Transfer /\ ~Commit
  BY <1>2, <1>4
  DEF Transfer, Dequeue, TakeConn, FinishNone, CountContacts, Begin, ArmReset, Arm, Check, Claim, Post,
      Confirm, Retire, Cut, Recheck, Await, Disarm, Abort, SyncDomain, Mark, Drain, Finish, Leave, storeVars
<1> QED
  BY <1>2, <1>3, <1>4, OthersStay

(* Messages that stay on the wire are as new as they were.                 *)
LEMMA SentOnceKept ==
  ASSUME TypeOK, NotSentTwice, Shrunk(toBase, toBase'), heard' \subseteq heard
  PROVE  NotSentTwice'
<1>0. toBase \in Seq(Notification)
  BY DEF TypeOK
<1>1. /\ DOMAIN toBase = 1 .. Len(toBase) /\ DOMAIN toBase' = 1 .. Len(toBase')
      /\ \/ \A i \in DOMAIN toBase' : i \in DOMAIN toBase /\ toBase'[i] = toBase[i]
         \/ \A i \in DOMAIN toBase' : i + 1 \in DOMAIN toBase /\ toBase'[i] = toBase[i + 1]
  BY <1>0, ShrunkFacts
<1>2. \A i \in DOMAIN toBase' : \E j \in 1 .. Len(toBase) : toBase'[i] = toBase[j]
  BY <1>1
<1> QED
  BY <1>1, <1>2 DEF NotSentTwice

LEMMA PostedOnce ==
  ASSUME TypeOK, Stages, Packets, NotSentTwice, At("post"), toBase' = toBase \o <<Payload>>, heard' = heard
  PROVE  NotSentTwice'
<1>0. PICK m : m = Payload
  OBVIOUS
<1>1. m \in Notification /\ (m.kind = "batch" => Entries(m) \cap heard = {})
  <2>1. CASE InDomain
    <3>0. PICK s : s = t.stage
      OBVIOUS
    <3>1. s \in Domain /\ reserved[s] # 0 /\ Heard(s, done[s])
      BY <2>1, <3>0 DEF InDomain, Stages, BatchPc, At, Packets, BeforePc
    <3>2. done[s] \in Nat /\ reserved[s] \in Nat
      BY <3>1, StoredTotals
    <3>3. /\ m.kind = "batch" /\ m.domain = s /\ m.first = done[s] + 1 /\ m.count = reserved[s]
          /\ m \in Notification
      BY <1>0, <3>0, <3>1, <3>2 DEF Payload, Notification, Positive
    <3>4. \A x \in Entries(m) : x[1] = s /\ x[2] \in Nat /\ x[2] > done[s]
      BY <3>2, <3>3 DEF Entries
    <3>5. \A x \in heard : x[1] = s => x[2] <= done[s]
      BY <3>1 DEF Heard
    <3> QED
      BY <3>2, <3>3, <3>4, <3>5
  <2>2. CASE ~InDomain
    BY <1>0, <2>2 DEF Payload, Notification, TypeOK, Stage, InDomain
  <2> QED
    BY <2>1, <2>2
<1>2. /\ toBase \in Seq(Notification) /\ toBase' = toBase \o <<m>>
  BY <1>0 DEF TypeOK
<1>3. /\ Len(toBase) \in Nat /\ Len(toBase') = Len(toBase) + 1
      /\ \A i \in 1 .. Len(toBase) : toBase'[i] = toBase[i]
      /\ toBase'[Len(toBase) + 1] = m
  BY <1>1, <1>2, Added
<1> SUFFICES ASSUME NEW i \in 1 .. Len(toBase'), toBase'[i].kind = "batch"
             PROVE  Entries(toBase'[i]) \cap heard = {}
  BY DEF NotSentTwice
<1>4. CASE i \in 1 .. Len(toBase)
  BY <1>3, <1>4 DEF NotSentTwice
<1>5. CASE i = Len(toBase) + 1
  BY <1>1, <1>3, <1>5
<1> QED
  BY <1>3, <1>4, <1>5

LEMMA ReceivedOnce ==
  ASSUME TypeOK, Packets, NotSentTwice, DataReceived
  PROVE  NotSentTwice'
<1>0. PICK m : m = Head(toBase)
  OBVIOUS
<1>1. /\ toBase \in Seq(Notification) /\ toBase # <<>> /\ toBase' = Tail(toBase) /\ m \in Notification
      /\ Shrunk(toBase, toBase')
  BY <1>0, Taken DEF TypeOK, DataReceived, Shrunk
<1>2. CASE heard' = heard
  BY <1>1, <1>2, SentOnceKept
<1>3. CASE m.kind = "batch" /\ heard' = heard \cup Entries(m)
  <2>1. /\ Len(toBase) \in Nat \ {0} /\ DOMAIN toBase = 1 .. Len(toBase) /\ m = toBase[1]
        /\ Len(toBase') = Len(toBase) - 1
        /\ \A i \in 1 .. Len(toBase') : toBase'[i] = toBase[i + 1] /\ toBase[i + 1] \in Notification
    BY <1>0, <1>1, Taken, ElementOfSeq
  <2> SUFFICES ASSUME NEW i \in 1 .. Len(toBase'), toBase'[i].kind = "batch"
               PROVE  Entries(toBase'[i]) \cap heard' = {}
    BY DEF NotSentTwice
  <2>2. PICK n : n = toBase[i + 1]
    OBVIOUS
  <2>3. n = toBase'[i] /\ n.kind = "batch" /\ i + 1 \in 1 .. Len(toBase) /\ i \in Nat \ {0}
    BY <2>1, <2>2
  <2>4. Entries(n) \cap heard = {}
    BY <2>2, <2>3 DEF NotSentTwice
  <2>5. n.domain # m.domain
    <3> SUFFICES ASSUME n.domain = m.domain PROVE FALSE
      OBVIOUS
    <3>1. m.domain \in Domain
      BY <1>1, <1>3 DEF Notification
    <3>2. 1 \in BatchesOf(m.domain) /\ i + 1 \in BatchesOf(m.domain)
      BY <1>3, <2>1, <2>2, <2>3 DEF BatchesOf, Of
    <3> QED
      BY <2>3, <3>1, <3>2 DEF Packets, Single
  <2>6. Entries(n) \cap Entries(m) = {}
    BY <2>5 DEF Entries
  <2> QED
    BY <1>3, <2>3, <2>4, <2>6
<1> QED
  BY <1>0, <1>2, <1>3 DEF DataReceived, Ackable

LEMMA SentOnceStep ==
  ASSUME TypeOK, Stages, Packets, NotSentTwice, [Next]_vars
  PROVE  NotSentTwice'
<1> USE DEF Shrunk, baseVars, nusVars, wireVars
<1>1. CASE Connect \/ NoConnect \/ Environment
  <2>1. Shrunk(toBase, toBase') /\ heard' \subseteq heard
    BY <1>1 DEF Connect, BaseConnected, NoConnect, ConnectFails, Environment, LinkLoss, LoseNotification
  <2> QED
    BY <2>1, SentOnceKept
<1>2. CASE Transfer /\ UNCHANGED baseVars
  <2>1. CASE toBase' = toBase
    BY <1>2, <2>1, SentOnceKept
  <2>2. CASE Post /\ toBase' = toBase \o <<Payload>>
    <3>1. At("post") /\ heard' = heard
      BY <1>2, <2>2 DEF Post
    <3> QED
      BY <2>2, <3>1, PostedOnce
  <2> QED
    BY <1>2, <2>1, <2>2, TransferLink
<1>3. CASE (Callback \/ IdleTimeout(Quiet) \/ Record) /\ UNCHANGED baseVars
  <2>1. toBase' = toBase
    BY <1>3 DEF Callback, BeaconReceives, OnSent, OnDisconnected, IdleTimeout, Record
  <2> QED
    BY <1>3, <2>1, SentOnceKept
<1>4. CASE BaseStep
  <2>1. CASE DataReceived
    BY <2>1, ReceivedOnce
  <2>2. CASE PressStart \/ PressStop \/ ScanStarts \/ ScanMatch \/ CreateConn \/ ReadyForNus
    <3>1. UNCHANGED <<toBase, heard>>
      BY <2>2 DEF PressStart, PressStop, Press, ScanStarts, ScanMatch, CreateConn, ReadyForNus
    <3> QED
      BY <3>1, SentOnceKept
  <2>3. CASE Discovered \/ FinishDisconnect \/ BaseDisconnected \/ RxIdleTimeout(Quiet)
    <3>1. (toBase' = toBase \/ toBase' = <<>>) /\ heard' \subseteq heard
      BY <2>3 DEF Discovered, FinishDisconnect, BaseDisconnected, RxIdleTimeout
    <3> QED
      BY <3>1, SentOnceKept
  <2> QED
    BY <1>4, <2>1, <2>2, <2>3 DEF BaseStep, Base
<1>5. CASE UNCHANGED vars
  BY <1>5, SentOnceKept DEF vars
<1> QED
  BY <1>1, <1>2, <1>3, <1>4, <1>5 DEF Next, BeaconStep

-----------------------------------------------------------------------------
(* The invariant, and what follows from it.                                *)

LEMMA InitHolds ==
  ASSUME Init
  PROVE  IInv
<1> USE DEF Init, WireInit, BeaconInit, BaseInit
<1>1. TypeOK
  <2>1. /\ logged \in [Domain -> Nat] /\ done \in [Domain -> Nat]
        /\ reserved \in [Domain -> 0 .. MaxBatch]
        /\ \A d \in Domain : done[d] + reserved[d] <= logged[d] /\ logged[d] <= Backlog[d]
    BY BeaconAssumption
  <2>2. t \in [pc : PC, stage : Stage, ok : BOOLEAN]
    BY DEF PC, Stage
  <2>3. nus_ack_wait \in [active : BOOLEAN, domain : Domain, count : Nat]
    BY DEF NoAck, Domain
  <2>4. faults \in 0 .. MaxFaults /\ presses \in 0 .. MaxPresses
    BY FaultAssumption, BaseAssumption
  <2>5. toBase \in Seq(Notification) /\ toBeacon \in Seq(Write)
    BY EmptySeq
  <2>6. got \subseteq Domain \X Positive /\ heard \subseteq got
    OBVIOUS
  <2> QED
    BY <2>1, <2>2, <2>3, <2>4, <2>5, <2>6 DEF TypeOK, Bit
<1>2. ~InDomain /\ t.pc = "idle" /\ t.stage = "status"
  BY StageOrder DEF InDomain
<1>3. Stages
  BY <1>2 DEF Stages, DomainPc
<1>4. Ends /\ Active
  BY DEF Ends, Active, At
<1>5. Starts
  BY DEF Starts, Fresh, Commanded, Subscribing
<1>6. Sends
  BY <1>2 DEF Sends, Ready, At
<1>7. \A d : NoneOf(d)
  BY DEF NoneOf, AcksOf, BatchesOf, Of
<1>8. Packets
  BY <1>2, <1>7 DEF Packets, Single, NoneOf, Later, HoldsRef, At
<1>9. Acks
  BY <1>2 DEF Acks, Unarmed, At, NoAck
<1>10. DroppedWereReceived /\ NotSentTwice /\ StopIsFinal
  BY DEF DroppedWereReceived, NotSentTwice, StopIsFinal, InHand
<1> QED
  BY <1>1, <1>3, <1>4, <1>5, <1>6, <1>8, <1>9, <1>10 DEF IInv

LEMMA NextHolds ==
  ASSUME IInv, [Next]_vars
  PROVE  IInv'
<1>1. /\ TypeOK /\ Stages /\ Ends /\ Starts /\ Active /\ Sends /\ Packets /\ Acks
      /\ DroppedWereReceived /\ NotSentTwice /\ StopIsFinal
  BY DEF IInv
<1>2. TypeOK'
  BY <1>1, TypeStep
<1>3. Stages' /\ Ends'
  BY <1>1, StagesStep, EndsStep
<1>4. Starts' /\ Active' /\ Sends'
  BY <1>1, StartsStep, ActiveStep, SendsStep
<1>5. Packets' /\ Acks'
  <2>1. CASE Transfer /\ UNCHANGED baseVars
    BY <1>1, <1>2, <2>1, TransferPackets, TransferAcks
  <2>2. CASE ~(Transfer /\ UNCHANGED baseVars)
    BY <1>1, <2>2, OthersPackets
  <2> QED
    BY <2>1, <2>2
<1>6. DroppedWereReceived' /\ NotSentTwice'
  BY <1>1, DroppedStep, SentOnceStep
<1>7. StopIsFinal'
  BY <1>1, StopStep
<1> QED
  BY <1>2, <1>3, <1>4, <1>5, <1>6, <1>7 DEF IInv

LEMMA Invariant == Spec => []IInv
<1>1. Init => IInv
  BY InitHolds
<1>2. IInv /\ [Next]_vars => IInv'
  BY NextHolds
<1> QED
  BY <1>1, <1>2, PTL DEF Spec

(* Types, and the bounds of what the handlers of both programs count.      *)
THEOREM TypeCorrect == Spec => []TypeOK
<1>1. IInv => TypeOK
  BY DEF IInv
<1> QED
  BY <1>1, Invariant, PTL

(* The acknowledgement gate: whatever is lost, late or broken on the way,  *)
(* an entry leaves the beacon's storage only after the base has put it     *)
(* out.  The acknowledgement that lets a batch be committed names the      *)
(* domain and the number of entries only; it answers that very batch       *)
(* because no other packet of the domain is ever on its way (Packets).     *)
THEOREM DropsOnlyReceived == Spec => []DroppedWereReceived
<1>1. IInv => DroppedWereReceived
  BY DEF IInv
<1> QED
  BY <1>1, Invariant, PTL

(* On one connection no entry is sent a second time: what the base has put *)
(* out since it was connected ends where the batch being sent begins.      *)
THEOREM NothingSentTwice == Spec => []NotSentTwice
<1>1. IInv => NotSentTwice
  BY DEF IInv
<1> QED
  BY <1>1, Invariant, PTL

(* A send is confirmed by its own callback: while the connection is ready, *)
(* the send slot, the semaphore and the callback that is still to come     *)
(* always account for each other (Sends), so that none is left over when a *)
(* confirmed send is accepted.                                             *)
THEOREM SendIsConfirmedByItself == Spec => []SendConfirmsItself
<1>1. IInv => SendConfirmsItself
  BY DEF IInv, Sends, SendConfirmsItself, At
<1> QED
  BY <1>1, Invariant, PTL

(* A new connection finds nothing of an earlier transfer: no reservation,  *)
(* no pending send, no disconnect asked for, no transfer marked active.    *)
THEOREM NothingLeftBehind == Spec => []CleanBetweenConnections
<1>1. ASSUME IInv, SlotFree
      PROVE  /\ pending_nus_sends = 0 /\ ~disconnect_when_sent /\ ~transfer_active
             /\ \A d \in Domain : reserved[d] = 0
  <2>1. t.pc \notin {"post", "drain"} \union BatchPc
    BY <1>1 DEF SlotFree, HoldsRef, BatchPc
  <2>2. pending_nus_sends = 0 /\ ~disconnect_when_sent
    BY <1>1, <2>1 DEF IInv, Sends, SlotFree, At
  <2>3. ~transfer_active
    BY <1>1 DEF IInv, Active, SlotFree
  <2>4. \A d \in Domain : reserved[d] = 0
    BY <1>1, <2>1 DEF IInv, Stages
  <2> QED
    BY <2>2, <2>3, <2>4
<1>2. IInv => CleanBetweenConnections
  BY <1>1 DEF CleanBetweenConnections
<1> QED
  BY <1>2, Invariant, PTL

(* A stop is final: the request stands until the operator asks to start    *)
(* again, because whoever scans again looks at it first (RescanHeeds), and *)
(* while it stands no match is taken in hand, even if a scan that was      *)
(* being started when the button was pressed runs on.                      *)
THEOREM StopHolds == Spec => []StopIsFinal
<1>1. IInv => StopIsFinal
  BY DEF IInv
<1> QED
  BY <1>1, Invariant, PTL

(* A start command is never refused on a ready connection: it can only     *)
(* arrive before the connection's transfer has begun (Starts), and an      *)
(* earlier transfer is active no longer than it holds its connection       *)
(* (Active).                                                               *)
THEOREM StartIsHonoured == Spec => StartHonoured
<1>1. IInv /\ [Next]_vars =>
        [ (toBeacon # <<>> /\ Head(toBeacon).kind = "st" /\ toBeacon' = Tail(toBeacon) /\ Ready)
            => ~transfer_active ]_vars
  <2> SUFFICES ASSUME IInv, toBeacon # <<>>, Head(toBeacon).kind = "st"
               PROVE  ~transfer_active
    OBVIOUS
  <2>1. ~transfer_conn /\ ~HoldsRef
    BY StartArrives DEF IInv
  <2> QED
    BY <2>1 DEF IInv, Active
<1> QED
  BY <1>1, Invariant, PTL DEF Spec, StartHonoured
=============================================================================

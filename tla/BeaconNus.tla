----------------------------- MODULE BeaconNus -----------------------------
(* The beacon's side of a readout (nus.c): the transfer work item, which      *)
(* sends the status message, every domain batch by batch and "finished", and  *)
(* the Bluetooth callbacks and the idle timer that run beside it.             *)
(*                                                                            *)
(* The transfer thread is preemptible (priority 5), so a callback may run     *)
(* between any two of its steps; the callbacks run in cooperative threads     *)
(* and are atomic with respect to it.  A step of the thread is therefore one  *)
(* lock section, atomic operation, semaphore operation or call.               *)
(*                                                                            *)
(* A domain's storage is seen through its contract: entries 1 .. logged have  *)
(* been recorded, entries 1 .. done have been dropped, and an export holds    *)
(* `reserved` entries after those.                                            *)
EXTENDS NusWire

CONSTANTS
  Backlog,    \* [Domain -> Nat]: entries a domain may come to hold (bound)
  MaxBatch    \* entries that fit a notification

ASSUME BeaconAssumption == Backlog \in [Domain -> Nat] /\ MaxBatch \in Nat \ {0}

VARIABLES
  current_conn,               \* current_conn is set
  nus_notifications_enabled,
  transfer_active,
  transfer_conn,              \* transfer_conn is set: a reference for the work item
  transfer_work,              \* the work item is queued
  pending_nus_sends,
  disconnect_when_sent,
  nus_sent_sem,
  nus_ack_sem,
  nus_ack_wait,               \* nus_ack_wait_active, _domain, _count
  idle_timer,                 \* nus_idle_timeout_work is scheduled
  sent_callbacks,             \* notifications whose sent callback has not run
  t,                          \* the transfer thread: pc, stage and last result
  logged, done, reserved      \* [Domain -> Nat]

connVars  == <<current_conn, nus_notifications_enabled, transfer_active, transfer_conn, transfer_work>>
sendVars  == <<pending_nus_sends, disconnect_when_sent, nus_sent_sem, sent_callbacks>>
ackVars   == <<nus_ack_sem, nus_ack_wait>>
storeVars == <<logged, done, reserved>>
beaconVars == <<connVars, sendVars, ackVars, idle_timer, t, storeVars>>

Stage == {"status", "finished"} \cup Domain
StageAfter == [status |-> "contacts", contacts |-> "reports", reports |-> "eco", eco |-> "finished"]
PC == {"idle", "take", "none", "count", "begin", "arm_reset", "arm", "check", "claim", "post",
       "confirm", "retire", "cut", "recheck", "await", "disarm", "abort", "commit", "sync",
       "mark", "drain", "finish", "leave"}

NoAck == [active |-> FALSE, domain |-> "contacts", count |-> 0]

BeaconInit ==
  /\ current_conn = FALSE
  /\ nus_notifications_enabled = FALSE
  /\ transfer_active = FALSE
  /\ transfer_conn = FALSE
  /\ transfer_work = FALSE
  /\ pending_nus_sends = 0
  /\ disconnect_when_sent = FALSE
  /\ nus_sent_sem = 0
  /\ nus_ack_sem = 0
  /\ nus_ack_wait = NoAck
  /\ idle_timer = FALSE
  /\ sent_callbacks = 0
  /\ t = [pc |-> "idle", stage |-> "status", ok |-> TRUE]
  /\ logged = [d \in Domain |-> 0]
  /\ done = [d \in Domain |-> 0]
  /\ reserved = [d \in Domain |-> 0]

-----------------------------------------------------------------------------
(* Shared pieces of the handlers.                                             *)

\* nus_connection_ready(); the connection the caller means is the only one
\* there can be while the caller holds its reference.
Ready == current_conn /\ nus_notifications_enabled

At(pc) == t.pc = pc
Goto(pc) == t' = [t EXCEPT !.pc = pc]
GotoWith(pc, ok) == t' = [t EXCEPT !.pc = pc, !.ok = ok]

\* The transfer thread's own reference to the connection.
HoldsRef == t.pc \notin {"idle", "take", "none"}

(* The connection object can be used again, and the beacon advertises, once   *)
(* the link is down, its disconnected callback has run and every reference    *)
(* has been dropped.                                                          *)
SlotFree == ~linked /\ ~current_conn /\ ~transfer_conn /\ ~HoldsRef

StartStage(s) ==
  t' = [pc |-> IF s \in Domain THEN "begin" ELSE "check", stage |-> s, ok |-> TRUE]

(* What transfer_work_handler does with the result of a stage: an error of    *)
(* the eco log is passed over, any other fails the transfer.                  *)
EndStage(ok) ==
  IF ok \/ t.stage = "eco" THEN StartStage(StageAfter[t.stage]) ELSE GotoWith("finish", FALSE)

-----------------------------------------------------------------------------
(* The transfer thread.                                                       *)

\* The work queue takes the item; from here on it may be queued again.
Dequeue == /\ At("idle")
           /\ transfer_work
           /\ transfer_work' = FALSE
           /\ Goto("take")
           /\ UNCHANGED <<wireVars, current_conn, nus_notifications_enabled, transfer_active,
                          transfer_conn, sendVars, ackVars, idle_timer, storeVars>>

TakeConn == /\ At("take")
            /\ transfer_conn' = FALSE
            /\ t' = [pc |-> IF transfer_conn THEN "count" ELSE "none", stage |-> "status", ok |-> TRUE]
            /\ UNCHANGED <<wireVars, current_conn, nus_notifications_enabled, transfer_active,
                           transfer_work, sendVars, ackVars, idle_timer, storeVars>>

\* transfer_finish() when there was no connection to serve.
FinishNone == /\ At("none")
              /\ transfer_active' = FALSE
              /\ Goto("idle")
              /\ UNCHANGED <<wireVars, current_conn, nus_notifications_enabled, transfer_conn,
                             transfer_work, sendVars, ackVars, idle_timer, storeVars>>

\* network_get_contact_count() for the status message.
CountContacts == /\ At("count")
                 /\ \/ Goto("check") /\ NoFault
                    \/ GotoWith("finish", FALSE) /\ Fault
                 /\ UNCHANGED <<linked, toBase, toBeacon, connVars, sendVars, ackVars, idle_timer, storeVars>>

(* <domain>_export_begin(): reserves a batch, finds the domain empty, fails,  *)
(* or is busy with a flush or an earlier export.  The handler polls a busy    *)
(* domain, and gives up when the connection is no longer ready or after 2 s.  *)
Begin ==
  /\ At("begin")
  /\ LET d == t.stage IN
       \/ /\ reserved[d] = 0
          /\ NoFault
          /\ \E n \in 1 .. MaxBatch : /\ n <= logged[d] - done[d]
                                      /\ reserved' = [reserved EXCEPT ![d] = n]
          /\ Goto("arm_reset")
       \/ /\ reserved[d] = 0
          /\ logged[d] = done[d]
          /\ Goto("sync")
          /\ UNCHANGED reserved
          /\ NoFault
       \/ /\ IF Ready /\ reserved[d] = 0 THEN Fault ELSE NoFault
          /\ EndStage(FALSE)
          /\ UNCHANGED reserved
  /\ UNCHANGED <<linked, toBase, toBeacon, connVars, sendVars, ackVars, idle_timer, logged, done>>

\* nus_ack_arm(): the semaphore first, then the expectation under the lock.
ArmReset == /\ At("arm_reset")
            /\ nus_ack_sem' = 0
            /\ Goto("arm")
            /\ UNCHANGED <<wireVars, connVars, sendVars, nus_ack_wait, idle_timer, storeVars>>

Arm == /\ At("arm")
       /\ nus_ack_wait' = [active |-> TRUE, domain |-> t.stage, count |-> reserved[t.stage]]
       /\ Goto("check")
       /\ UNCHANGED <<wireVars, connVars, sendVars, nus_ack_sem, idle_timer, storeVars>>

-----------------------------------------------------------------------------
(* nus_send_confirmed().                                                      *)

AfterUnsent == IF t.stage \in Domain THEN GotoWith("abort", FALSE) ELSE GotoWith("finish", FALSE)
AfterSent   == CASE t.stage = "status"   -> StartStage("contacts")
                 [] t.stage \in Domain   -> Goto("await")
                 [] t.stage = "finished" -> Goto("mark")

Check == /\ At("check")
         /\ IF Ready THEN Goto("claim") ELSE AfterUnsent
         /\ UNCHANGED <<wireVars, connVars, sendVars, ackVars, idle_timer, storeVars>>

Claim == /\ At("claim")
         /\ IF pending_nus_sends = 0
              THEN pending_nus_sends' = 1 /\ nus_sent_sem' = 0 /\ Goto("post")
              ELSE AfterUnsent /\ UNCHANGED <<pending_nus_sends, nus_sent_sem>>
         /\ UNCHANGED <<wireVars, connVars, disconnect_when_sent, sent_callbacks, ackVars, idle_timer, storeVars>>

Payload == IF t.stage \in Domain
             THEN [kind |-> "batch", domain |-> t.stage,
                   first |-> done[t.stage] + 1, count |-> reserved[t.stage]]
             ELSE [kind |-> t.stage]

(* bt_nus_send(), with its -EAGAIN retries: the stack takes the notification, *)
(* or refuses it (freely once the link is gone).                              *)
Post ==
  /\ At("post")
  /\ \/ /\ current_conn
        /\ toBase' = Sent(toBase, <<Payload>>)
        /\ sent_callbacks' = sent_callbacks + 1
        /\ Goto("confirm")
        /\ NoFault
        /\ UNCHANGED pending_nus_sends
     \/ /\ IF linked THEN Fault ELSE NoFault
        /\ pending_nus_sends' = 0
        /\ AfterUnsent
        /\ UNCHANGED <<toBase, sent_callbacks>>
  /\ UNCHANGED <<linked, toBeacon, connVars, disconnect_when_sent, nus_sent_sem, ackVars, idle_timer, storeVars>>

\* k_sem_take(&nus_sent_sem), for at most 5 s.
Confirm == /\ At("confirm")
           /\ \/ /\ nus_sent_sem = 1
                 /\ nus_sent_sem' = 0
                 /\ Goto("recheck")
                 /\ NoFault
              \/ /\ nus_sent_sem = 0
                 /\ Fault
                 /\ Goto("retire")
                 /\ UNCHANGED nus_sent_sem
           /\ UNCHANGED <<linked, toBase, toBeacon, connVars, pending_nus_sends, disconnect_when_sent,
                          sent_callbacks, ackVars, idle_timer, storeVars>>

\* The time is up: the send slot is retired ...
Retire == /\ At("retire")
          /\ pending_nus_sends' = 0
          /\ Goto("cut")
          /\ UNCHANGED <<wireVars, connVars, disconnect_when_sent, nus_sent_sem, sent_callbacks,
                         ackVars, idle_timer, storeVars>>

CutKeepsNotifications ==      \* mutant: notifications stay enabled
       /\ At("cut")
       /\ HangUp
       /\ AfterUnsent
       /\ UNCHANGED <<toBase, toBeacon, connVars, sendVars, ackVars, idle_timer, storeVars>>

\* ... and the link is given up, so that a late callback confirms nothing.
Cut == /\ At("cut")
       /\ nus_notifications_enabled' = FALSE
       /\ HangUp
       /\ AfterUnsent
       /\ UNCHANGED <<toBase, toBeacon, current_conn, transfer_active, transfer_conn, transfer_work,
                      sendVars, ackVars, idle_timer, storeVars>>

Recheck == /\ At("recheck")
           /\ IF Ready THEN AfterSent ELSE AfterUnsent
           /\ UNCHANGED <<wireVars, connVars, sendVars, ackVars, idle_timer, storeVars>>

-----------------------------------------------------------------------------
(* The acknowledgement gate and the end of a domain.                          *)

(* nus_ack_wait(): at most 2 s.  The wait times out freely when nothing that   *)
(* could bring the acknowledgement is on its way any more.                     *)
Await == /\ At("await")
         /\ \/ /\ nus_ack_sem = 1
               /\ nus_ack_sem' = 0
               /\ GotoWith("disarm", TRUE)
               /\ NoFault
            \/ /\ nus_ack_sem = 0
               /\ IF toBase = <<>> /\ toBeacon = <<>> THEN NoFault ELSE Fault
               /\ GotoWith("disarm", FALSE)
               /\ UNCHANGED nus_ack_sem
         /\ UNCHANGED <<linked, toBase, toBeacon, connVars, sendVars, nus_ack_wait, idle_timer, storeVars>>

Disarm == /\ At("disarm")
          /\ nus_ack_wait' = [nus_ack_wait EXCEPT !.active = FALSE]
          /\ t' = IF t.ok THEN [t EXCEPT !.pc = "commit"] ELSE [t EXCEPT !.pc = "abort", !.ok = TRUE]
          /\ UNCHANGED <<wireVars, connVars, sendVars, nus_ack_sem, idle_timer, storeVars>>

AbortRetries == /\ At("abort")       \* mutant: the domain is tried again at once
                /\ reserved' = [reserved EXCEPT ![t.stage] = 0]
                /\ IF t.ok THEN Goto("begin") ELSE EndStage(FALSE)
                /\ UNCHANGED <<wireVars, connVars, sendVars, ackVars, idle_timer, logged, done>>

\* <domain>_export_abort() and the checkpoint after it, whose result is ignored.
\* A batch that was not sent is an error of the domain; one that was not
\* acknowledged just ends it.
Abort == /\ At("abort")
         /\ reserved' = [reserved EXCEPT ![t.stage] = 0]
         /\ EndStage(t.ok)
         /\ UNCHANGED <<wireVars, connVars, sendVars, ackVars, idle_timer, logged, done>>

\* <domain>_export_commit(): the entries are dropped.  When it fails they may
\* have been dropped or not; the reservation is gone in every case.
Commit ==
  /\ At("commit")
  /\ LET d == t.stage
         dropped == [done EXCEPT ![d] = @ + reserved[d]] IN
       /\ reserved' = [reserved EXCEPT ![d] = 0]
       /\ \/ done' = dropped /\ Goto("begin") /\ NoFault
          \/ done' \in {done, dropped} /\ EndStage(FALSE) /\ Fault
  /\ UNCHANGED <<linked, toBase, toBeacon, connVars, sendVars, ackVars, idle_timer, logged>>

\* <domain>_sync_storage() once the domain is empty.
SyncDomain == /\ At("sync")
              /\ \/ EndStage(TRUE) /\ NoFault
                 \/ EndStage(FALSE) /\ Fault
              /\ UNCHANGED <<linked, toBase, toBeacon, connVars, sendVars, ackVars, idle_timer, storeVars>>

-----------------------------------------------------------------------------
(* The end of a transfer.                                                     *)

Mark == /\ At("mark")
        /\ disconnect_when_sent' = TRUE
        /\ Goto("drain")
        /\ UNCHANGED <<wireVars, connVars, pending_nus_sends, nus_sent_sem, sent_callbacks,
                       ackVars, idle_timer, storeVars>>

\* disconnect_if_drained()
DisconnectIfDrained(pending) ==
  IF pending = 0 /\ disconnect_when_sent
    THEN disconnect_when_sent' = FALSE /\ HangUp
    ELSE UNCHANGED <<disconnect_when_sent, linked, faults>>

Drain == /\ At("drain")
         /\ DisconnectIfDrained(pending_nus_sends)
         /\ GotoWith("finish", TRUE)
         /\ UNCHANGED <<toBase, toBeacon, connVars, pending_nus_sends, nus_sent_sem, sent_callbacks,
                        ackVars, idle_timer, storeVars>>

FinishOnSuccess ==       \* mutant: a failed transfer stays active
  /\ At("finish")
  /\ transfer_active' = (transfer_active /\ ~t.ok)
  /\ Goto("leave")
  /\ UNCHANGED <<wireVars, current_conn, nus_notifications_enabled, transfer_conn, transfer_work,
                 sendVars, ackVars, idle_timer, storeVars>>

\* transfer_finish()
Finish == /\ At("finish")
          /\ transfer_active' = FALSE
          /\ Goto("leave")
          /\ UNCHANGED <<wireVars, current_conn, nus_notifications_enabled, transfer_conn, transfer_work,
                         sendVars, ackVars, idle_timer, storeVars>>

\* A failed transfer disconnects if it still can; the reference is dropped.
Leave == /\ At("leave")
         /\ t' = [pc |-> "idle", stage |-> "status", ok |-> TRUE]
         /\ IF ~t.ok /\ Ready THEN HangUp ELSE UNCHANGED <<linked, faults>>
         /\ UNCHANGED <<toBase, toBeacon, connVars, sendVars, ackVars, idle_timer, storeVars>>

Transfer == \/ Dequeue \/ TakeConn \/ FinishNone \/ CountContacts \/ Begin \/ ArmReset \/ Arm
            \/ Check \/ Claim \/ Post \/ Confirm \/ Retire \/ Cut \/ Recheck
            \/ Await \/ Disarm \/ Abort \/ Commit \/ SyncDomain
            \/ Mark \/ Drain \/ Finish \/ Leave

-----------------------------------------------------------------------------
(* Callbacks.                                                                 *)

\* connected(), for a connection that was established.
OnConnected == /\ current_conn' = TRUE
               /\ nus_notifications_enabled' = FALSE
               /\ idle_timer' = TRUE

\* nus_send_enabled()
SendEnabled == /\ nus_notifications_enabled' = TRUE
               /\ UNCHANGED <<current_conn, transfer_active, transfer_conn, transfer_work, ackVars, idle_timer>>

\* nus_received() with the start command.
StartRefused == transfer_active \/ ~Ready

StartCommand ==
  /\ idle_timer' = TRUE
  /\ IF StartRefused
       THEN UNCHANGED <<transfer_active, transfer_conn, transfer_work>>
       ELSE transfer_active' = TRUE /\ transfer_conn' = TRUE /\ transfer_work' = TRUE
  /\ UNCHANGED <<current_conn, nus_notifications_enabled, ackVars>>

AwaitedAny(m) == nus_ack_wait.active       \* mutant: any acknowledgement will do

\* nus_handle_ack(): only what the transfer waits for wakes it.
Awaited(m) == /\ nus_ack_wait.active
              /\ nus_ack_wait.domain = m.domain
              /\ nus_ack_wait.count = m.count

HandleAck(m) ==
  /\ idle_timer' = TRUE
  /\ IF Awaited(m)
       THEN nus_ack_wait' = [nus_ack_wait EXCEPT !.active = FALSE] /\ nus_ack_sem' = 1
       ELSE UNCHANGED ackVars
  /\ UNCHANGED connVars

BeaconReceives ==
  /\ current_conn
  /\ toBeacon # <<>>
  /\ toBeacon' = Tail(toBeacon)
  /\ LET m == Head(toBeacon) IN
       \/ m.kind = "subscribe" /\ SendEnabled
       \/ m.kind = "st" /\ StartCommand
       \/ m.kind = "ack" /\ HandleAck(m)
  /\ UNCHANGED <<linked, toBase, faults, sendVars, t, storeVars>>

\* nus_sent()
OnSent ==
  /\ current_conn
  /\ sent_callbacks > 0
  /\ sent_callbacks' = sent_callbacks - 1
  /\ IF Ready
       THEN /\ idle_timer' = TRUE
            /\ pending_nus_sends' = 0
            /\ nus_sent_sem' = IF pending_nus_sends = 1 THEN 1 ELSE nus_sent_sem
            /\ DisconnectIfDrained(0)
       ELSE UNCHANGED <<idle_timer, pending_nus_sends, nus_sent_sem, disconnect_when_sent, linked, faults>>
  /\ UNCHANGED <<toBase, toBeacon, connVars, ackVars, t, storeVars>>

OnDisconnectedKeepsActive ==       \* mutant: a queued transfer stays active
  /\ current_conn
  /\ ~linked
  /\ current_conn' = FALSE
  /\ nus_notifications_enabled' = FALSE
  /\ transfer_conn' = FALSE
  /\ disconnect_when_sent' = FALSE
  /\ idle_timer' = FALSE
  /\ pending_nus_sends' = 0
  /\ nus_sent_sem' = 1
  /\ sent_callbacks' = 0
  /\ toBeacon' = <<>>
  /\ UNCHANGED <<linked, toBase, faults, transfer_active, transfer_work, ackVars, t, storeVars>>

OnDisconnectedSilently ==       \* mutant: a waiting send is not woken
  /\ current_conn
  /\ ~linked
  /\ current_conn' = FALSE
  /\ nus_notifications_enabled' = FALSE
  /\ transfer_conn' = FALSE
  /\ transfer_active' = (transfer_active /\ ~transfer_conn)
  /\ disconnect_when_sent' = FALSE
  /\ idle_timer' = FALSE
  /\ pending_nus_sends' = 0
  /\ sent_callbacks' = 0
  /\ toBeacon' = <<>>
  /\ UNCHANGED <<linked, toBase, faults, nus_sent_sem, transfer_work, ackVars, t, storeVars>>

\* disconnected()
OnDisconnected ==
  /\ current_conn
  /\ ~linked
  /\ current_conn' = FALSE
  /\ nus_notifications_enabled' = FALSE
  /\ transfer_conn' = FALSE
  /\ transfer_active' = (transfer_active /\ ~transfer_conn)
  /\ disconnect_when_sent' = FALSE
  /\ idle_timer' = FALSE
  /\ pending_nus_sends' = 0
  /\ nus_sent_sem' = 1
  /\ sent_callbacks' = 0
  /\ toBeacon' = <<>>
  /\ UNCHANGED <<linked, toBase, faults, transfer_work, ackVars, t, storeVars>>

(* nus_idle_timeout_handler().  `quiet`: nothing is going on that would bring   *)
(* another event; at any other time the timer fires as an adverse event.       *)
IdleTimeout(quiet) ==
  /\ idle_timer
  /\ idle_timer' = FALSE
  /\ \/ quiet /\ HangUp
     \/ ~quiet /\ Fault /\ linked' \in {FALSE, linked}
  /\ UNCHANGED <<toBase, toBeacon, connVars, sendVars, ackVars, t, storeVars>>

-----------------------------------------------------------------------------
\* A contact, a button press or an ECO period is recorded.
Record == /\ \E d \in Domain : /\ logged[d] < Backlog[d]
                               /\ logged' = [logged EXCEPT ![d] = @ + 1]
          /\ UNCHANGED <<wireVars, connVars, sendVars, ackVars, idle_timer, t, done, reserved>>

Callback == BeaconReceives \/ OnSent \/ OnDisconnected
=============================================================================

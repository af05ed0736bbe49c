---------------------------- MODULE NusTransfer ----------------------------
(* A beacon being read out by the base station: BeaconNus and BaseNus over    *)
(* one link, and what the acknowledgement protocol between them promises      *)
(* (DECISIONS.md, "Exported Batches Now Require A Base Ack Before Commit").   *)
EXTENDS BeaconNus, BaseNus

vars == <<wireVars, beaconVars, baseVars>>

Init == WireInit /\ BeaconInit /\ BaseInit

(* The connection is established: the base's create succeeds while the beacon *)
(* advertises, and connected() runs on both sides.                            *)
Connect == /\ SlotFree
           /\ BaseConnected
           /\ OnConnected
           /\ linked' = TRUE
           /\ UNCHANGED <<toBase, toBeacon, faults, transfer_active, transfer_conn, transfer_work,
                          sendVars, ackVars, t, storeVars>>

\* The base's attempt ends without a connection: the beacon does not advertise.
NoConnect == ~SlotFree /\ ConnectFails /\ UNCHANGED beaconVars

Environment == (LinkLoss \/ LoseNotification) /\ UNCHANGED <<beaconVars, baseVars>>
\* Nothing is under way on the connection: both idle timers may run out.
Quiet == /\ toBase = <<>> /\ toBeacon = <<>>
         /\ sent_callbacks = 0 /\ At("idle") /\ ~transfer_work
         /\ nus_ready_notified /\ ~discovering

BeaconStep  == (Transfer \/ Callback \/ IdleTimeout(Quiet) \/ Record) /\ UNCHANGED baseVars
BaseStep    == (Base \/ RxIdleTimeout(Quiet)) /\ UNCHANGED beaconVars

Next == Connect \/ NoConnect \/ Environment \/ BeaconStep \/ BaseStep

Spec == Init /\ [][Next]_vars

(* Threads, work queues and the Bluetooth stack keep running, a beacon in     *)
(* range is heard and a connection is made when both sides are ready for it.  *)
(* Nothing is assumed of the operator, of recording and of adverse events.    *)
Fairness ==
  /\ WF_vars(Transfer /\ UNCHANGED baseVars)
  /\ WF_vars((BeaconReceives \/ OnSent \/ OnDisconnected) /\ UNCHANGED baseVars)
  /\ WF_vars((ScanStarts \/ ScanMatch \/ CreateConn \/ ReadyForNus \/ Discovered \/ DataReceived
              \/ FinishDisconnect \/ BaseDisconnected) /\ UNCHANGED beaconVars)
  /\ WF_vars(Connect \/ NoConnect)
  /\ WF_vars(Quiet /\ IdleTimeout(Quiet) /\ UNCHANGED baseVars)
  /\ WF_vars(Quiet /\ RxIdleTimeout(Quiet) /\ UNCHANGED beaconVars)

FairSpec == Spec /\ Fairness

-----------------------------------------------------------------------------
Bit == {0, 1}

\* Types, and the bounds of what the handlers count.
TypeOK ==
  /\ linked \in BOOLEAN
  /\ toBase \in Seq(Notification)
  /\ toBeacon \in Seq(Write)
  /\ faults \in 0 .. MaxFaults
  /\ {current_conn, nus_notifications_enabled, transfer_active, transfer_conn, transfer_work,
      disconnect_when_sent, idle_timer} \subseteq BOOLEAN
  /\ {pending_nus_sends, nus_sent_sem, nus_ack_sem, sent_callbacks} \subseteq Bit
  /\ nus_ack_wait \in [active : BOOLEAN, domain : Domain, count : Nat]
  /\ t \in [pc : PC, stage : Stage, ok : BOOLEAN]
  /\ logged \in [Domain -> Nat]
  /\ done \in [Domain -> Nat]
  /\ reserved \in [Domain -> 0 .. MaxBatch]
  /\ \A d \in Domain : done[d] + reserved[d] <= logged[d] /\ logged[d] <= Backlog[d]
  /\ {default_conn, connect_in_progress, nus_ready_notified, transfer_finish_pending,
      finish_disconnect_work} \subseteq BOOLEAN
  /\ {scanning_requested, stop_after_finished_requested, scanner, scan_recv} \subseteq BOOLEAN
  /\ {tagged_conn, rx_idle_timeout_work, discovering, subscribed} \subseteq BOOLEAN
  /\ got \subseteq Domain \X Positive
  /\ heard \subseteq got
  /\ scan_start \in {"none", "button", "rx"}
  /\ presses \in 0 .. MaxPresses
  /\ asked \in {"start", "finish", "stop"}

(* The acknowledgement gate: an entry leaves the beacon's storage only after   *)
(* the base has put it out, whatever is lost, late or broken on the way.       *)
DroppedWereReceived == \A d \in Domain : \A e \in 1 .. done[d] : <<d, e>> \in got

(* A repetition needs a new connection: on one connection no entry is sent a   *)
(* second time, neither after a missing acknowledgement nor after a commit     *)
(* that failed.                                                                *)
NotSentTwice == \A i \in 1 .. Len(toBase) :
                   toBase[i].kind = "batch" => Entries(toBase[i]) \cap heard = {}

(* The comment at nus.c:219: a send is only ever confirmed by its own callback,*)
(* so when a confirmed send is accepted none is outstanding.                   *)
SendConfirmsItself == (At("recheck") /\ Ready) => sent_callbacks = 0

(* Nothing of a transfer survives into the next connection: no reservation, no *)
(* pending send, no disconnect that was asked for.                             *)
CleanBetweenConnections ==
  SlotFree => /\ pending_nus_sends = 0
              /\ ~disconnect_when_sent
              /\ \A d \in Domain : reserved[d] = 0
              /\ ~transfer_active

(* The start command of a connection is never refused while the connection is  *)
(* ready, however the previous transfer ended.                                 *)
StartHonoured ==
  [][ (toBeacon # <<>> /\ Head(toBeacon).kind = "st" /\ toBeacon' = Tail(toBeacon) /\ Ready)
        => ~transfer_active ]_vars

(* The stop button ends the connecting (main.c:94, "to stop connecting"): the *)
(* request stands until the operator asks to start again, and once the match   *)
(* or the connection that was in hand is over, the base begins no other -      *)
(* although a scan that was being started, or that could not be stopped, may   *)
(* go on and find beacons.                                                     *)
StopIsFinal ==
  /\ asked # "start" => stop_after_finished_requested /\ ~scanning_requested
  /\ asked = "stop" => ~InHand

(* Everything recorded reaches the base and is dropped by the beacon in the    *)
(* end, once adverse events stop, if the operator last asked for scanning and  *)
(* the scan runs, or a connection is up, or one of the two is being started.   *)
(* So every transfer ends: whoever waits for an acknowledgement or a callback  *)
(* is woken.                                                                   *)
Reading == scanning_requested /\ (scan_start # "none" \/ scanner \/ scan_recv \/ default_conn)
AllDropped == \A d \in Domain : done[d] = logged[d]
EverythingIsReadOut == []<>Reading => []<>AllDropped
=============================================================================

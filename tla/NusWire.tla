------------------------------ MODULE NusWire ------------------------------
(* The Bluetooth link between a beacon and the base station, as the two      *)
(* programs use it.  Both are built for one connection at a time             *)
(* (CONFIG_BT_MAX_CONN = 1).  The link comes up, carries notifications to    *)
(* the base and writes to the beacon in order, and goes down; what is still  *)
(* on its way when it goes down may or may not be handed to the receiver     *)
(* before the receiver is told that the link is gone.                        *)
(*                                                                           *)
(* Every adverse event of the environment - a lost link, a lost notification,*)
(* a call of the Bluetooth stack or of the storage that fails, a timer that  *)
(* fires while work is still in progress - is drawn from one budget,         *)
(* MaxFaults, so that a run explores every placement of that many events.    *)
EXTENDS Naturals, Sequences

CONSTANT MaxFaults      \* bound on the adverse events of a behaviour

ASSUME FaultAssumption == MaxFaults \in Nat

VARIABLES
  linked,     \* the link layer is connected
  toBase,     \* notifications the base's host has not handled yet
  toBeacon,   \* writes the beacon's host has not handled yet
  faults      \* adverse events so far

wireVars == <<linked, toBase, toBeacon, faults>>

Domain == {"contacts", "reports", "eco"}

\* Batches are positions in a domain's log: entries first .. first + count - 1.
Positive == Nat \ {0}
Notification == [kind : {"status", "finished"}] \cup
                [kind : {"batch"}, domain : Domain, first : Positive, count : Positive]
Write == [kind : {"subscribe", "st"}] \cup
         [kind : {"ack"}, domain : Domain, count : Positive]
Entries(m) == {m.domain} \X (m.first .. m.first + m.count - 1)

WireInit == /\ linked = FALSE
            /\ toBase = <<>>
            /\ toBeacon = <<>>
            /\ faults = 0

Fault   == faults < MaxFaults /\ faults' = faults + 1
NoFault == UNCHANGED faults

\* What a sender adds to a queue is lost at once when there is no link.
Sent(queue, messages) == IF linked THEN queue \o messages ELSE queue

(* bt_conn_disconnect(): the link goes down, or the call fails.  On a link    *)
(* that is already down it returns -ENOTCONN and changes nothing.  `onError`  *)
(* is what the caller does when the call fails.                               *)
HangUp == \/ linked' = FALSE /\ NoFault
          \/ linked /\ Fault /\ UNCHANGED linked

\* The link is lost: supervision timeout, a device out of range.
LinkLoss == /\ linked
            /\ Fault
            /\ linked' = FALSE
            /\ UNCHANGED <<toBase, toBeacon>>

\* The base's receive buffers overrun and a notification is dropped
\* (prj.conf:30-39 of the base).
LoseNotification == /\ toBase # <<>>
                    /\ Fault
                    /\ toBase' = Tail(toBase)
                    /\ UNCHANGED <<linked, toBeacon>>
=============================================================================

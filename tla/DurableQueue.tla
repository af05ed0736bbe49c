---------------------------- MODULE DurableQueue ----------------------------
(***************************************************************************)
(* What a storage domain of the beacon (contacts, self-reports, eco log)   *)
(* is promised by its flash ring: a bounded FIFO that survives a reset.    *)
(* Entries are numbered in the order they were accepted.  Between two      *)
(* formats of the partition the queue is the interval head .. tail - 1;    *)
(* "stable" is where the queue will start again after a reset.  The gap    *)
(* head - stable is what a reset makes the beacon send a second time.      *)
(***************************************************************************)
EXTENDS Naturals

CONSTANTS Capacity  \* entries of one flash block, the most a reset replays

VARIABLES
  up,      \* the store has been initialised since the last reset
  head,    \* number of the oldest entry still queued
  tail,    \* number the next accepted entry gets
  stable   \* the head a reset would restore

dqvars == <<up, head, tail, stable>>

Init ==
  /\ up = FALSE
  /\ head = 0
  /\ tail = 0
  /\ stable = 0

(* Entries are accepted in groups of at most one block.  Accepting one     *)
(* also makes the consumer's progress durable.                             *)
Append(n) ==
  /\ up
  /\ tail' = tail + n
  /\ stable' = head
  /\ UNCHANGED <<up, head>>

(* The consumer is done with the n oldest entries.                         *)
Drop(n) ==
  /\ up
  /\ head + n <= tail
  /\ head' = head + n
  /\ \/ stable' = head'
     \/ /\ stable' = stable
        /\ head' - stable < Capacity
  /\ UNCHANGED <<up, tail>>

(* Room is made for a new block at the expense of the oldest entries.      *)
Discard(n) ==
  /\ up
  /\ head + n <= tail
  /\ head' = head + n
  /\ stable' = head'
  /\ UNCHANGED <<up, tail>>

Sync ==
  /\ up
  /\ stable' = head
  /\ UNCHANGED <<up, head, tail>>

(* A reset loses nothing but the consumer's progress since "stable".       *)
Reset ==
  /\ up' = FALSE
  /\ head' = stable
  /\ UNCHANGED <<tail, stable>>

(* An append that was cut off, or that reported an error after its block   *)
(* was written, may turn out to have been accepted.                        *)
Start(n) ==
  /\ ~up
  /\ up' = TRUE
  /\ tail' = tail + n
  /\ UNCHANGED <<head, stable>>

(* The partition is formatted, or rebooted into a firmware with another    *)
(* format: the only step that may lose entries without the consumer or a   *)
(* full ring having asked for it.                                          *)
Format ==
  /\ up' = FALSE
  /\ head' = 0
  /\ tail' = 0
  /\ stable' = 0

Next ==
  \/ \E n \in 1 .. Capacity : Append(n) \/ Drop(n) \/ Discard(n)
  \/ \E n \in 0 .. Capacity : Start(n)
  \/ Sync \/ Reset \/ Format

Spec == Init /\ [][Next]_dqvars
=============================================================================

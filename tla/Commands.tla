------------------------------ MODULE Commands ------------------------------
(***************************************************************************)
(* From the button of the control transmitter to the parameters of a tag:  *)
(* Transmitter and NetworkParams joined by the air, the queue of received  *)
(* commands and the work that applies them (radio.c of the beacon).        *)
(* scan_cb runs in the Bluetooth receive thread, which is cooperative: it  *)
(* comes between any two steps of the handler, which runs on the storage   *)
(* work queue, and is one action.  The triples of other groups (LED, radio,*)
(* motion) leave the network parameters alone; Led and EcoMode have them.  *)
(***************************************************************************)
EXTENDS Transmitter, NetworkParams

CONSTANTS
  Own, Broadcast,   \* the targets a tag listens to: its id and 0xff
  Depth,            \* COMMAND_QUEUE_DEPTH
  MaxFaults,        \* bound: calls that fail
  MaxResets         \* bound: restarts of the tag

ASSUME BoundAssumption ==
  /\ Depth \in Nat \ {0}
  /\ MaxPresses \in Nat /\ MaxFaults \in Nat /\ MaxResets \in Nat

VARIABLES
  command_msgq,
  command_work,     \* the work is queued
  pc, msg, next,    \* the handler: its step, the command and the triple
  resets

handlerVars == <<pc, msg, next>>
intakeVars == <<command_msgq, command_work, handlerVars>>
vars == <<transmitterVars, networkVars, faults, intakeVars, resets>>

Triple == [parameter : {"P_RSSI_NETWORK", "P_RSSI_LOCATION",
                        "P_TRACKING_ACTIVE", "P_NETWORK_RESET_PARAMS",
                        "other"},
           value : 0 .. 65535]
(* whole: nothing is left over behind the last triple.                     *)
Message(m) ==
  /\ DOMAIN m = {"target", "triples", "whole"}
  /\ m.triples \in Seq(Triple) /\ m.whole \in BOOLEAN

ASSUME MessageAssumption == \A m \in Messages : Message(m)

TypeOK ==
  /\ TransmitterTypeOK
  /\ NetworkTypeOK
  /\ faults \in 0 .. MaxFaults
  /\ command_msgq \in Seq(Messages) /\ Len(command_msgq) <= Depth
  /\ command_work \in BOOLEAN
  /\ pc \in {"boot", "idle", "get", "apply"}
  /\ msg \in Messages \union {Silent} /\ (pc = "apply" <=> msg # Silent)
  /\ next \in Nat /\ (pc = "apply" => next \in 1 .. Len(msg.triples) + 1)
  /\ resets \in 0 .. MaxResets

Init ==
  /\ TransmitterInit
  /\ stored \in FirstRecord
  /\ params_network = Defaults /\ tracking_active = (Defaults.tracking = 1)
  /\ command_old = Defaults /\ params_fault = FALSE /\ unloaded = FALSE
  /\ command_msgq = <<>> /\ command_work = FALSE
  /\ pc = "boot" /\ msg = Silent /\ next = 0
  /\ faults = MaxFaults /\ resets = MaxResets

-----------------------------------------------------------------------------
(* The receive thread: scan_cb, enqueue_command.                           *)

QueueHasRoom == Len(command_msgq) < Depth

(* A full queue drops the command, and nothing changes.                    *)
Hear ==
  /\ on_air # Silent
  /\ pc # "boot"
  /\ QueueHasRoom
  /\ command_msgq' = Append(command_msgq, on_air)
  /\ command_work' = TRUE
  /\ UNCHANGED <<transmitterVars, networkVars, faults, handlerVars, resets>>

-----------------------------------------------------------------------------
(* The storage work queue: command_work_handler.                           *)

Goto(label) == pc' = label /\ msg' = Silent /\ next' = 0

StartHandler ==
  /\ pc = "idle" /\ command_work
  /\ command_work' = FALSE
  /\ Goto("get")
  /\ UNCHANGED <<transmitterVars, networkVars, faults, command_msgq, resets>>

EndHandler ==
  /\ pc = "get" /\ command_msgq = <<>>
  /\ Goto("idle")
  /\ UNCHANGED <<transmitterVars, networkVars, faults, command_msgq,
                 command_work, resets>>

Take ==
  /\ pc = "get" /\ command_msgq # <<>>
  /\ command_msgq' = Tail(command_msgq)
  /\ UNCHANGED <<transmitterVars, command_work, resets>>

(* Variant: broadcasts are not for this tag.                               *)
AcceptedOwn(m) == m.target = Own /\ m.whole

(* radio_evaluate_command_data and the first test of evaluate_command_data.*)
Accepted(m) == m.target \in {Own, Broadcast} /\ m.whole

Reject ==
  /\ Take
  /\ ~Accepted(Head(command_msgq))
  /\ UNCHANGED <<networkVars, faults, handlerVars>>

Begin ==
  /\ Take
  /\ Accepted(Head(command_msgq))
  /\ pc' = "apply" /\ msg' = Head(command_msgq) /\ next' = 1
  /\ CommandBegin

ApplyTriple ==
  /\ pc = "apply" /\ next <= Len(msg.triples)
  /\ ApplyCommand(msg.triples[next])
  /\ next' = next + 1
  /\ UNCHANGED <<transmitterVars, command_msgq, command_work, pc, msg, resets>>

(* Variant: the command is saved before its last triple.                   *)
CommandDoneEarly == pc = "apply" /\ next >= Len(msg.triples)

CommandDone == pc = "apply" /\ next = Len(msg.triples) + 1

(* Variant: the handler returns after one command.                         *)
OneCommandARun == "idle"

AfterCommand == "get"

Commit ==
  /\ CommandDone
  /\ CommandCommit
  /\ Goto(AfterCommand)
  /\ UNCHANGED <<transmitterVars, command_msgq, command_work, resets>>

Handler == StartHandler \/ EndHandler \/ Reject \/ Begin \/ ApplyTriple \/ Commit

-----------------------------------------------------------------------------
(* The tag loses power or its watchdog bites; what is in RAM is gone.      *)
Reset ==
  /\ pc # "boot"
  /\ resets > 0 /\ resets' = resets - 1
  /\ Goto("boot")
  /\ command_msgq' = <<>> /\ command_work' = FALSE
  /\ SetParams(Defaults) /\ command_old' = Defaults
  /\ params_fault' = FALSE /\ unloaded' = FALSE
  /\ UNCHANGED <<transmitterVars, stored, faults>>

Boot ==
  /\ pc = "boot"
  /\ NetworkInit
  /\ Goto("idle")
  /\ UNCHANGED <<transmitterVars, command_msgq, command_work, resets>>

Next ==
  \/ Transmit /\ UNCHANGED <<networkVars, faults, intakeVars, resets>>
  \/ Hear
  \/ Handler
  \/ Reset
  \/ Boot

Spec == Init /\ [][Next]_vars

(* The storage work queue keeps running.  Nothing is assumed of the scan:   *)
(* in manual eco mode, or after a scan start that failed, a tag hears       *)
(* nothing (radio.c:356-360, 440).                                          *)
Fairness == WF_vars(Handler)

FairSpec == Spec /\ Fairness

-----------------------------------------------------------------------------
(* A command in the queue is on its way: the handler runs or will run,     *)
(* whenever the scanner put it there (radio.c:609-640).                    *)
NoCommandStranded ==
  command_msgq # <<>> => command_work \/ pc \in {"get", "apply"}

(* Between commands, what is in force is what a restart would bring back,  *)
(* unless the parameter fault says otherwise or the storage failed before  *)
(* the record was read; and contacts are recorded if the parameters say so *)
(* (network.c:105-199).                                                    *)
InForceIsStored ==
  /\ tracking_active = (params_network.tracking = 1)
  /\ pc \in {"idle", "get"} /\ ~params_fault /\ ~unloaded =>
       Meaning(stored) = params_network

(* What the first n triples of a command make of parameters, and all.      *)
AfterTriples(triples, p) ==
  LET after[n \in 0 .. Len(triples)] ==
        IF n = 0 THEN p ELSE Applied(after[n - 1], triples[n])
  IN  after
ResultOf(triples, p) == AfterTriples(triples, p)[Len(triples)]

(* What a command leaves in flash is all of it on top of what was in force *)
(* before: a reset in its middle brings back the old or the new            *)
(* parameters, nothing between them (network.c:139-199).                   *)
StoredWhole ==
  [][pc = "apply" /\ stored' # stored =>
       stored'.params = ResultOf(msg.triples, command_old)]_vars

(* A start-up never changes what the record in flash stands for: a record  *)
(* of this format is not taken for one to migrate, whichever read of it    *)
(* fails, nor is one overwritten with defaults (network.c:201-289).        *)
GoodRecordSurvives ==
  [][pc = "boot" => Meaning(stored') = Meaning(stored)]_vars

(* A command for this tag that got into the queue is in force sooner or    *)
(* later, all of its triples, or falls victim to a restart: commands that  *)
(* keep coming in do not hold it up, and no save that fails takes it back  *)
(* (radio.c:545-640, network.c:185-199).                                   *)
HeardIsApplied ==
  \A m \in Messages :
    m.whole /\ m.target \in {Own, Broadcast} =>
      ((\E i \in DOMAIN command_msgq : command_msgq[i] = m)
         ~> (pc = "boot" \/
             (pc # "apply" /\ ResultOf(m.triples, params_network) = params_network)))
=============================================================================

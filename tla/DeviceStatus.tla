---------------------------- MODULE DeviceStatus ----------------------------
(***************************************************************************)
(* The two status bytes a tag advertises (device.c).  The radio byte has   *)
(* two bits for faults of the storage and one for full storage, derived    *)
(* from aggregates with a bit for each domain; the network byte has the    *)
(* eco bit, the data level and the battery level.  A change schedules an   *)
(* update of the advertising data.  Three threads change them:             *)
(*   the storage work queue, the lowest, which the others interrupt        *)
(*     between any two of its steps (pc): flushes and commands;            *)
(*   the transfer work queue: read-out; no step of a call blocks, so its   *)
(*     call is one action for the thread below;                            *)
(*   the system work queue, cooperative: battery and data level, eco mode, *)
(*     updates of the advertising data.                                    *)
(* A call about a domain holds that domain's mutex, clearing the eco bit   *)
(* holds motion_lock.  Updates succeed here; EcoMode has those that fail.  *)
(***************************************************************************)
EXTENDS Naturals, FiniteSets

CONSTANTS
  Domains,     \* logs in flash, each with faults of its own
  ParamGroups, \* parameter records, each with a fault bit
  MaxLevel,    \* bound: the data level and the battery level
  MaxCalls     \* bound: calls made, of all threads together

ASSUME StatusAssumption ==
  Domains \intersect ParamGroups = {} /\ MaxLevel \in Nat \ {0} /\ MaxCalls \in Nat

VARIABLES
  storage_faults, storage_full, \* the aggregates: who has a fault, is full
  radio, network,               \* the status bytes
  mfg_data,                     \* their copies in the advertising data
  status_work,                  \* radio_status_update_work is queued
  leveling,                     \* the level's handler has yet to advertise it
  calls,                        \* calls still to come
  pc, call,                     \* storage work queue: step and call
  previous, snapshot,           \* what the call has read
  reported,                     \* each network field as its owner last gave it
  disturbed,                    \* the call's byte was changed meanwhile
  torn,                         \* aggregates changed behind a snapshot
  reverted,                     \* network fields undone by a stale write
  unseen                        \* a change that the comparison missed

aggregates == <<storage_faults, storage_full>>
adv == <<mfg_data, status_work, leveling>>
low == <<pc, call, previous, snapshot>>
ghosts == <<reported, disturbed, torn, reverted, unseen>>
vars == <<aggregates, radio, network, adv, calls, low, ghosts>>

Faulty == Domains \union ParamGroups
Bit == {"param_error", "storage_error", "full"}
Field == {"eco", "level", "battery"}
Value == 0 .. MaxLevel
Network == [Field -> Value]
Group == {"faults", "full", "network"}
NoCall == [group |-> "network", item |-> "eco", active |-> FALSE]
Call == [group : Group, item : Faulty \union {"eco"}, active : BOOLEAN]

TypeOK ==
  /\ storage_faults \subseteq Faulty /\ storage_full \subseteq Domains
  /\ radio \subseteq Bit /\ network \in Network
  /\ mfg_data \in [radio : SUBSET Bit, network : Network]
  /\ status_work \in BOOLEAN /\ leveling \in BOOLEAN
  /\ calls \in 0 .. MaxCalls
  /\ pc \in {"idle", "mark", "get", "param", "storage", "full", "store", "compare"}
  /\ call \in Call
  /\ reported \in Network
  /\ disturbed \in BOOLEAN /\ unseen \in BOOLEAN
  /\ torn \subseteq {"faults", "full"} /\ reverted \subseteq Field

Init ==
  /\ storage_faults = {} /\ storage_full = {}
  /\ radio = {} /\ network = [f \in Field |-> 0]
  /\ mfg_data = [radio |-> {}, network |-> network]
  /\ status_work = FALSE /\ leveling = FALSE
  /\ pc = "idle" /\ call = NoCall /\ previous = {} /\ snapshot = {}
  /\ calls = MaxCalls
  /\ reported = network
  /\ disturbed = FALSE /\ torn = {} /\ reverted = {} /\ unseen = FALSE

-----------------------------------------------------------------------------
(* The bytes.                                                              *)

Marked(aggregate, item, active) ==
  IF active THEN aggregate \union {item} ELSE aggregate \ {item}

WithBit(byte, bit, active) ==
  IF active THEN byte \union {bit} ELSE byte \ {bit}

(* Variant: any fault sets the bit of the parameters.                      *)
AnyFault(faults) == faults # {}

(* What the aggregates say the bits are.                                   *)
ParamError(faults) == faults \intersect ParamGroups # {}

StorageError(faults) == faults \intersect Domains # {}

(* device_set_storage_fault and device_set_storage_full, uninterrupted.    *)
AfterFault(byte, faults) ==
  WithBit(WithBit(byte, "param_error", ParamError(faults)),
          "storage_error", StorageError(faults))
AfterFull(byte, full) == WithBit(byte, "full", full # {})

(* Variant: the bits beside the mask are lost.                             *)
Masked(byte, field, value) ==
  [f \in Field |-> IF f = field THEN value ELSE 0]

(* device_set_network_status_bits.                                         *)
WithField(byte, field, value) == [byte EXCEPT ![field] = value]

(* Variant: a bit that goes off is not worth an update.                    *)
BitCameOn(before, after) == ~(after \subseteq before)

RadioChanged(before, after) == before # after

(* radio_schedule_status_update.                                           *)
Schedule(changed) ==
  /\ status_work' = (status_work \/ changed)
  /\ UNCHANGED mfg_data

Calling == calls > 0 /\ calls' = calls - 1

InCall(group) == pc # "idle" /\ call.group = group
RadioCall == InCall("faults") \/ InCall("full")

-----------------------------------------------------------------------------
(* The storage work queue.                                                 *)

Calls ==
  [group : {"faults"}, item : Faulty, active : BOOLEAN]
    \union [group : {"full"}, item : Domains, active : BOOLEAN]

(* The bit of the network byte that a command clears is set.               *)
EcoCalls == IF reported["eco"] = 1 THEN {NoCall} ELSE {}

Begin ==
  /\ pc = "idle" /\ Calling
  /\ \/ /\ call' \in Calls
        /\ pc' = "mark" /\ previous' = radio
        /\ UNCHANGED reported
     \/ /\ call' \in EcoCalls
        /\ pc' = "store" /\ previous' = network
        /\ reported' = [reported EXCEPT !["eco"] = 0]
  /\ disturbed' = FALSE
  /\ UNCHANGED <<aggregates, radio, network, adv, snapshot, torn, reverted,
                 unseen>>

Mark ==
  /\ pc = "mark" /\ pc' = "get"
  /\ IF call.group = "faults"
     THEN /\ storage_faults' = Marked(storage_faults, call.item, call.active)
          /\ UNCHANGED storage_full
     ELSE /\ storage_full' = Marked(storage_full, call.item, call.active)
          /\ UNCHANGED storage_faults
  /\ UNCHANGED <<radio, network, adv, calls, call, previous, snapshot, ghosts>>

Get ==
  /\ pc = "get"
  /\ IF call.group = "faults"
     THEN pc' = "param" /\ snapshot' = storage_faults
     ELSE pc' = "full" /\ snapshot' = storage_full
  /\ torn' = torn \ {call.group}
  /\ UNCHANGED <<aggregates, radio, network, adv, calls, call, previous, reported,
                 disturbed, reverted, unseen>>

SetBit ==
  /\ \/ /\ pc = "param" /\ pc' = "storage"
        /\ radio' = WithBit(radio, "param_error", ParamError(snapshot))
     \/ /\ pc = "storage" /\ pc' = "compare"
        /\ radio' = WithBit(radio, "storage_error", StorageError(snapshot))
     \/ /\ pc = "full" /\ pc' = "compare"
        /\ radio' = AfterFull(radio, snapshot)
  /\ UNCHANGED <<aggregates, network, adv, calls, call, previous, snapshot, ghosts>>

Store ==
  /\ pc = "store" /\ pc' = "compare"
  /\ network' = WithField(previous, "eco", 0)
  /\ UNCHANGED <<aggregates, radio, adv, calls, call, previous, snapshot, ghosts>>

(* The radio byte is read again, the network byte is not.                  *)
Changed ==
  IF call.group = "network" THEN WithField(previous, "eco", 0) # previous
  ELSE RadioChanged(previous, radio)

Compare ==
  /\ pc = "compare" /\ pc' = "idle"
  /\ Schedule(Changed)
  /\ unseen' = ((unseen \/ disturbed) /\ ~Changed)
  /\ call' = NoCall /\ previous' = {} /\ snapshot' = {} /\ disturbed' = FALSE
  /\ UNCHANGED <<aggregates, radio, network, leveling, calls, reported, torn,
                 reverted>>

StorageQueue == Begin \/ Mark \/ Get \/ SetBit \/ Store \/ Compare

-----------------------------------------------------------------------------
(* The transfer work queue: a whole call comes between two steps of the    *)
(* storage work queue, unless that one holds the domain's mutex.           *)

Free(group, d) == ~(InCall(group) /\ call.item = d)

(* The storage work queue has yet to write what it derived before.         *)
Stale(group) == InCall(group) /\ pc \in {"param", "storage", "full"}

Tears(group, before, after) ==
  torn' = IF Stale(group) /\ (before # after \/ group \in torn)
          THEN torn \union {group} ELSE torn \ {group}

RadioByteChanges ==
  /\ Calling
  /\ Schedule(RadioChanged(radio, radio'))
  /\ unseen' = (unseen /\ ~RadioChanged(radio, radio'))
  /\ disturbed' = (disturbed \/ (RadioCall /\ radio' # radio))
  /\ UNCHANGED <<network, leveling, low, reported, reverted>>

(* The same call comes from the system work queue too, when counting the   *)
(* contacts retries a failed flash_ring_store_init (network.c:454).  For   *)
(* the storage work queue that is this action once more; that it may also  *)
(* come between two steps of the transfer work queue's own call is left    *)
(* out: the race would be that of Tears, between these two threads.        *)
TransferFault ==
  \E d \in Domains, active \in BOOLEAN :
    /\ Free("faults", d)
    /\ storage_faults' = Marked(storage_faults, d, active)
    /\ radio' = AfterFault(radio, storage_faults')
    /\ Tears("faults", storage_faults, storage_faults')
    /\ RadioByteChanges
    /\ UNCHANGED storage_full

(* A read-out makes room.                                                  *)
TransferFull ==
  \E d \in Domains :
    /\ Free("full", d)
    /\ storage_full' = Marked(storage_full, d, FALSE)
    /\ radio' = AfterFull(radio, storage_full')
    /\ Tears("full", storage_full, storage_full')
    /\ RadioByteChanges
    /\ UNCHANGED storage_faults

-----------------------------------------------------------------------------
(* The system work queue.                                                  *)

(* A call about a network field; what the storage work queue has read      *)
(* before is going to undo it.                                             *)
Report(field, value) ==
  /\ ~leveling /\ Calling
  /\ network' = WithField(network, field, value)
  /\ reported' = [reported EXCEPT ![field] = value]
  /\ Schedule(network' # network)
  /\ unseen' = (unseen /\ network' = network)
  /\ disturbed' = (disturbed \/ (InCall("network") /\ network' # network))
  /\ reverted' = IF pc = "store" /\ previous[field] # value
                 THEN reverted \union {field} ELSE reverted \ {field}
  /\ UNCHANGED <<aggregates, radio, low, torn>>

(* battery_voltage_measure_handler, when the reading succeeds.             *)
MeasureBattery ==
  /\ \E value \in Value : Report("battery", value)
  /\ UNCHANGED leveling

(* network_status_update_handler.                                          *)
UpdateLevel ==
  /\ \E value \in Value : Report("level", value)
  /\ leveling' = TRUE

(* motion_enter_eco, motion_exit_eco, under motion_lock.                   *)
SwitchEco ==
  /\ ~InCall("network")
  /\ Report("eco", 1 - reported["eco"])
  /\ UNCHANGED leveling

(* adv_update, from the level's handler or from the work scheduled.        *)
UpdateAdv ==
  /\ \/ leveling /\ leveling' = FALSE /\ UNCHANGED status_work
     \/ ~leveling /\ status_work /\ status_work' = FALSE /\ UNCHANGED leveling
  /\ mfg_data' = [radio |-> radio, network |-> network]
  /\ unseen' = FALSE
  /\ UNCHANGED <<aggregates, radio, network, calls, low, reported, disturbed, torn,
                 reverted>>

Next ==
  \/ StorageQueue
  \/ TransferFault \/ TransferFull
  \/ MeasureBattery \/ UpdateLevel \/ SwitchEco \/ UpdateAdv

Spec == Init /\ [][Next]_vars

-----------------------------------------------------------------------------
(* The radio bits are what device.h:12 says, derived from the aggregates,  *)
(* whenever no call that sets them is under way; except after a call whose *)
(* snapshot another thread had made stale before the bits were written.    *)
BitsFollowAggregates ==
  /\ ~InCall("faults") /\ "faults" \notin torn =>
       /\ "param_error" \in radio <=> storage_faults \intersect ParamGroups # {}
       /\ "storage_error" \in radio <=> storage_faults \intersect Domains # {}
  /\ ~InCall("full") /\ "full" \notin torn =>
       ("full" \in radio <=> storage_full # {})

(* Each field of the network byte has the value its owner gave last; the   *)
(* calls of the others leave it alone, except where a command that ends    *)
(* eco mode was interrupted by its owner (device.c:125-138).               *)
NetworkAsReported ==
  \A f \in Field \ reverted :
    network[f] = reported[f] \/ (f = "eco" /\ InCall("network"))

(* What is advertised is the status, or an update is on its way; except    *)
(* after a call that found the byte as it had left it though another had   *)
(* changed it meanwhile (device.c:82-84).                                  *)
AdvertisedIsStatus ==
  \/ mfg_data = [radio |-> radio, network |-> network]
  \/ status_work \/ leveling \/ unseen
  \/ pc # "idle"
=============================================================================

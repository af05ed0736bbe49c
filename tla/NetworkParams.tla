--------------------------- MODULE NetworkParams ---------------------------
(***************************************************************************)
(* The network parameters of a tag (network.c) and their record in flash   *)
(* (param_storage.c): the RSSI thresholds a contact is judged by and       *)
(* whether contacts are recorded at all.  Commands change them triple by   *)
(* triple; a command's last step saves them; a restart loads them, in one  *)
(* of four formats.  A record is read and written as a whole: a header     *)
(* with its length and a checksum tell a record of another format from one *)
(* of this, the oldest format is a bare byte.                              *)
(***************************************************************************)
EXTENDS Naturals, Sequences

CONSTANTS
  Defaults,     \* CONFIG_DSA_NETWORK_DEFAULT_*
  FirstRecord   \* records a tag may start with

VARIABLES
  params_network,
  tracking_active,   \* what network_evaluate_contact asks
  command_old,       \* command_old_params_network
  stored,            \* the record in flash
  params_fault,      \* STORAGE_FAULT_NETWORK_PARAMS
  unloaded,          \* start-up failed before it came to the record
  faults             \* calls that may still fail

networkVars == <<params_network, tracking_active, command_old, stored,
                 params_fault, unloaded>>

MaxByte == 255
Byte == 0 .. MaxByte
Params == [rssi_threshold : Byte, tracking : 0 .. 1, rssi_location : Byte]
Format == {"current", "v2", "rssi_only", "legacy", "none", "bad"}
(* Fields that a format lacks are of no account.                           *)
Record == [format : Format, params : Params]

ASSUME DefaultsAssumption == Defaults \in Params /\ FirstRecord \subseteq Record

NetworkTypeOK ==
  /\ params_network \in Params
  /\ tracking_active \in BOOLEAN
  /\ command_old \in Params
  /\ stored \in Record
  /\ params_fault \in BOOLEAN /\ unloaded \in BOOLEAN

SetParams(p) == params_network' = p /\ tracking_active' = (p.tracking = 1)

-----------------------------------------------------------------------------
(* Commands.                                                               *)

(* network_apply_command: a value out of range leaves everything as it is. *)
Applied(p, triple) ==
  CASE triple.parameter = "P_RSSI_NETWORK" /\ triple.value \in Byte ->
         [p EXCEPT !.rssi_threshold = triple.value]
    [] triple.parameter = "P_RSSI_LOCATION" /\ triple.value \in Byte ->
         [p EXCEPT !.rssi_location = triple.value]
    [] triple.parameter = "P_TRACKING_ACTIVE" /\ triple.value \in 0 .. 1 ->
         [p EXCEPT !.tracking = triple.value]
    [] triple.parameter = "P_NETWORK_RESET_PARAMS" -> Defaults
    [] OTHER -> p

ApplyCommand(triple) ==
  /\ SetParams(Applied(params_network, triple))
  /\ UNCHANGED <<command_old, stored, params_fault, unloaded, faults>>

CommandBegin ==
  /\ command_old' = params_network
  /\ UNCHANGED <<params_network, tracking_active, stored, params_fault,
                 unloaded, faults>>

(* network_params_save.                                                    *)
SaveSucceeds ==
  /\ stored' = [format |-> "current", params |-> params_network']
  /\ params_fault' = FALSE
  /\ unloaded' = FALSE
  /\ UNCHANGED faults

SaveFails ==
  /\ faults > 0 /\ faults' = faults - 1
  /\ params_fault' = TRUE
  /\ UNCHANGED <<stored, unloaded>>

(* Variant: the threshold for location tags is not compared.               *)
OtherParamsEqual ==
  /\ command_old.rssi_threshold = params_network.rssi_threshold
  /\ command_old.tracking = params_network.tracking

(* network_params_equal.                                                   *)
ParamsEqual == command_old = params_network

CommandCommit ==
  /\ UNCHANGED <<params_network, tracking_active, command_old>>
  /\ IF ParamsEqual THEN UNCHANGED <<stored, params_fault, unloaded, faults>>
     ELSE SaveSucceeds \/ SaveFails

-----------------------------------------------------------------------------
(* Start-up: network_init and network_params_load.                         *)

(* What a migration finds: no format but the current one has the threshold *)
(* for location tags, and those older than v2 lack the tracking flag.      *)
Found(record) ==
  [rssi_threshold |-> record.params.rssi_threshold,
   tracking |-> IF record.format = "v2" THEN record.params.tracking ELSE 1,
   rssi_location |-> Defaults.rssi_location]

(* What a record stands for when every read of it succeeds.                *)
Meaning(record) ==
  CASE record.format = "current" -> record.params
    [] record.format \in {"none", "bad"} -> Defaults
    [] OTHER -> Found(record)

(* network_storage_init fails: the record is not even looked at.           *)
StorageInitFails ==
  /\ faults > 0 /\ faults' = faults - 1
  /\ SetParams(Defaults)
  /\ params_fault' = FALSE
  /\ unloaded' = TRUE
  /\ UNCHANGED stored

LoadCurrent ==
  /\ stored.format = "current"
  /\ SetParams(stored.params)
  /\ params_fault' = FALSE
  /\ unloaded' = FALSE
  /\ UNCHANGED <<stored, faults>>

(* Variant: the bare byte is taken from a record of any length.            *)
AnyMigrates == stored.format \notin {"none", "bad"}

(* The loads that save what they found in the current format.              *)
Migrates == stored.format \in {"v2", "rssi_only", "legacy"}

LoadMigrates ==
  /\ Migrates
  /\ SetParams(Found(stored))
  /\ \/ SaveSucceeds
     \/ /\ faults > 0 /\ faults' = faults - 1
        /\ params_fault' = TRUE
        /\ unloaded' = FALSE
        /\ UNCHANGED stored

(* Nothing was ever saved (-ENOENT).                                       *)
LoadNothing ==
  /\ stored.format = "none"
  /\ SetParams(Defaults)
  /\ params_fault' = FALSE
  /\ unloaded' = FALSE
  /\ UNCHANGED <<stored, faults>>

(* A missing record is noticed by the first read and by the last.          *)
ReadsToFail ==
  CASE stored.format = "bad" -> 0
    [] stored.format = "none" -> 2
    [] OTHER -> 1

(* The record is spoilt, or the read that would understand it fails; the   *)
(* loads of the other formats refuse it for its length.                    *)
LoadFails ==
  /\ faults >= ReadsToFail /\ faults' = faults - ReadsToFail
  /\ SetParams(Defaults)
  /\ params_fault' = TRUE
  /\ unloaded' = FALSE
  /\ UNCHANGED stored

(* command_old is of no account until a command begins.                    *)
NetworkInit ==
  /\ StorageInitFails \/ LoadCurrent \/ LoadMigrates \/ LoadNothing
       \/ LoadFails
  /\ command_old' = params_network'
=============================================================================

------------------------- MODULE DeviceStatusProofs -------------------------
(***************************************************************************)
(* Proofs about the status bytes, for any domains, parameter records and   *)
(* levels and any number of calls.                                         *)
(***************************************************************************)
EXTENDS DeviceStatus, TLAPS

-----------------------------------------------------------------------------
(* The steps of a call and what it is about belong to its group.           *)
Steps ==
  /\ call.group = "faults" => call.item \in Faulty
  /\ call.group = "full" => call.item \in Domains
  /\ pc \in {"mark", "get"} => call.group \in {"faults", "full"}
  /\ pc \in {"param", "storage"} => call.group = "faults"
  /\ pc = "full" => call.group = "full"
  /\ pc = "store" => call.group = "network"

FaultBits(byte, faults) ==
  /\ "param_error" \in byte <=> faults \intersect ParamGroups # {}
  /\ "storage_error" \in byte <=> faults \intersect Domains # {}

FullBit(byte, full) == "full" \in byte <=> full # {}

(* A call whose snapshot is not stale is about to make the bits right.     *)
FaultsInHand ==
  "faults" \notin torn =>
    /\ pc \in {"param", "storage"} => snapshot = storage_faults
    /\ pc = "storage" =>
         ("param_error" \in radio <=> storage_faults \intersect ParamGroups # {})
    /\ call.group # "faults" \/ pc \in {"idle", "compare"} =>
         FaultBits(radio, storage_faults)

FullInHand ==
  "full" \notin torn =>
    /\ pc = "full" => snapshot = storage_full
    /\ call.group # "full" \/ pc \in {"idle", "compare"} =>
         FullBit(radio, storage_full)

AsReported(byte) ==
  \A f \in Field \ (reverted \union {"eco"}) : byte[f] = reported[f]

(* What a command that ends eco mode has read is what the owners gave; eco *)
(* mode was on, and nobody else reports it meanwhile.                      *)
NetworkInHand ==
  /\ reported["eco"] \in {0, 1} /\ "eco" \notin reverted
  /\ AsReported(network)
  /\ ~InCall("network") => network["eco"] = reported["eco"]
  /\ InCall("network") =>
       /\ reported["eco"] = 0
       /\ previous \in Network /\ previous["eco"] = 1
  /\ pc = "store" => AsReported(previous)
  /\ pc = "compare" /\ InCall("network") => network["eco"] = 0

InSync ==
  \/ mfg_data = [radio |-> radio, network |-> network]
  \/ status_work \/ leveling \/ unseen

(* A call that nobody disturbs knows what it has changed.                  *)
ChangesInHand ==
  /\ pc = "idle" => InSync
  /\ RadioCall /\ ~disturbed =>
       /\ pc \in {"mark", "get", "param", "full"} => radio = previous
       /\ pc = "storage" =>
            radio \ {"param_error"} = previous \ {"param_error"}
       /\ radio = previous => InSync

IInv ==
  /\ TypeOK /\ Steps
  /\ FaultsInHand /\ FullInHand /\ NetworkInHand /\ ChangesInHand

-----------------------------------------------------------------------------
(* Every field of a network byte keeps its range.                          *)
LEMMA FieldKeepsType ==
  ASSUME NEW byte \in Network, NEW f \in Field, NEW value \in Value
  PROVE  /\ WithField(byte, f, value) \in Network
         /\ WithField(byte, f, value)[f] = value
         /\ \A g \in Field \ {f} : WithField(byte, f, value)[g] = byte[g]
BY DEF WithField, Network

(* A byte without fields changed is the byte.                              *)
LEMMA BitSetTwice ==
  ASSUME NEW byte, NEW before, NEW active \in BOOLEAN, NEW bit, NEW other,
         byte \ {bit} = before \ {bit}, bit # other,
         WithBit(byte, other, active) = before
  PROVE  WithBit(byte, other, active) = byte
BY DEF WithBit

(* The initial state.                                                      *)
LEMMA InitHolds == Init => IInv
<1> SUFFICES ASSUME Init PROVE IInv
  OBVIOUS
<1>1. 0 \in Value /\ calls \in 0 .. MaxCalls
  BY StatusAssumption DEF Init, Value
<1>2. network \in Network /\ reported \in Network
  BY <1>1 DEF Init, Network
<1>3. TypeOK
  BY <1>1, <1>2 DEF Init, TypeOK, NoCall, Call, Group
<1>4. NetworkInHand
  BY DEF Init, NetworkInHand, AsReported, InCall, Field
<1> QED
  BY <1>3, <1>4 DEF IInv, Init, Steps, FaultsInHand, FullInHand, ChangesInHand,
     FaultBits, FullBit, NoCall, RadioCall, InCall, InSync

-----------------------------------------------------------------------------
(* The storage work queue.                                                 *)

LEMMA BeginKeeps == IInv /\ Begin => IInv'
<1> SUFFICES ASSUME IInv, Begin PROVE IInv'
  OBVIOUS
<1> USE DEF IInv, Begin
<1>1. calls' \in 0 .. MaxCalls
  BY StatusAssumption DEF TypeOK, Calling
<1>2. call' \in Call
  <2>1. CASE call' \in Calls
    <3>1. CASE call' \in [group : {"faults"}, item : Faulty, active : BOOLEAN]
      BY <3>1 DEF Call, Group
    <3>2. CASE call' \in [group : {"full"}, item : Domains, active : BOOLEAN]
      BY <3>2 DEF Call, Group, Faulty
    <3> QED
      BY <2>1, <3>1, <3>2 DEF Calls
  <2>2. CASE call' \in EcoCalls
    <3>1. call' = NoCall
      BY <2>2 DEF EcoCalls
    <3>2. NoCall \in Call
      BY DEF NoCall, Call, Group
    <3> QED
      BY <3>1, <3>2
  <2> QED
    BY <2>1, <2>2
<1>3. pc = "idle" /\ pc' \in {"mark", "store"}
  OBVIOUS
<1>4. /\ pc' = "mark" => /\ call'.group \in {"faults", "full"}
                         /\ previous' = radio /\ reported' = reported
      /\ pc' = "store" => /\ call' = NoCall /\ reported["eco"] = 1
                          /\ previous' = network
                          /\ reported' = [reported EXCEPT !["eco"] = 0]
  BY DEF Calls, EcoCalls
<1>5. reported' \in Network
  BY <1>3, <1>4, StatusAssumption DEF TypeOK, Network, Value
<1>6. TypeOK'
  BY <1>1, <1>2, <1>3, <1>5 DEF TypeOK, aggregates, adv
<1>7. Steps'
  BY <1>3, <1>4 DEF Steps, NoCall, Calls
<1>8. FaultsInHand' /\ FullInHand'
  BY <1>3 DEF FaultsInHand, FullInHand, aggregates, FaultBits, FullBit
<1>9. NetworkInHand'
  <2>1. CASE pc' = "mark"
    BY <2>1, <1>3, <1>4 DEF NetworkInHand, AsReported, InCall
  <2>2. CASE pc' = "store"
    <3>1. /\ \A f \in Field \ {"eco"} : reported'[f] = reported[f]
          /\ reported'["eco"] = 0
      BY <2>2, <1>4 DEF TypeOK, Network, Field
    <3>2. network["eco"] = 1
      BY <2>2, <1>3, <1>4 DEF NetworkInHand, InCall
    <3> QED
      BY <2>2, <1>3, <1>4, <3>1, <3>2 DEF TypeOK, NetworkInHand, AsReported,
         InCall, NoCall
  <2> QED
    BY <1>3, <2>1, <2>2
<1>10. ChangesInHand'
  BY <1>3, <1>4 DEF ChangesInHand, RadioCall, InCall, InSync, NoCall, adv
<1> QED
  BY <1>6, <1>7, <1>8, <1>9, <1>10

LEMMA MarkKeeps == IInv /\ Mark => IInv'
<1> SUFFICES ASSUME IInv, Mark PROVE IInv'
  OBVIOUS
<1> USE DEF IInv, Mark
<1>1. pc = "mark" /\ pc' = "get" /\ call.group \in {"faults", "full"}
  BY DEF Steps
<1>2. storage_faults' \subseteq Faulty /\ storage_full' \subseteq Domains
  BY <1>1 DEF TypeOK, Steps, Marked
<1>3. TypeOK'
  BY <1>1, <1>2 DEF TypeOK, adv, ghosts
<1>4. Steps' /\ NetworkInHand' /\ ChangesInHand'
  BY <1>1 DEF Steps, NetworkInHand, AsReported, ChangesInHand, RadioCall,
     InCall, InSync, adv, ghosts
<1>5. FaultsInHand' /\ FullInHand'
  BY <1>1 DEF FaultsInHand, FullInHand, FaultBits, FullBit, ghosts
<1> QED
  BY <1>3, <1>4, <1>5

LEMMA GetKeeps == IInv /\ Get => IInv'
<1> SUFFICES ASSUME IInv, Get PROVE IInv'
  OBVIOUS
<1> USE DEF IInv, Get
<1>1. /\ pc = "get" /\ call.group \in {"faults", "full"} /\ call' = call
      /\ call.group = "faults" => pc' = "param"
      /\ call.group = "full" => pc' = "full"
  BY DEF Steps
<1>2. TypeOK'
  BY <1>1 DEF TypeOK, aggregates, adv
<1>3. Steps' /\ NetworkInHand' /\ ChangesInHand'
  BY <1>1 DEF Steps, NetworkInHand, AsReported, ChangesInHand, RadioCall,
     InCall, InSync, adv
<1>4. FaultsInHand' /\ FullInHand'
  BY <1>1 DEF FaultsInHand, FullInHand, FaultBits, FullBit, aggregates
<1> QED
  BY <1>2, <1>3, <1>4

LEMMA SetBitKeeps == IInv /\ SetBit => IInv'
<1> SUFFICES ASSUME IInv, SetBit PROVE IInv'
  OBVIOUS
<1> USE DEF IInv, SetBit
<1>1. /\ pc \in {"param", "storage", "full"} /\ pc' \in {"storage", "compare"}
      /\ pc = "full" <=> call.group = "full"
      /\ pc # "full" <=> call.group = "faults"
      /\ pc = "param" <=> pc' = "storage"
  BY DEF Steps
<1>2. radio' \subseteq Bit
  BY DEF TypeOK, WithBit, AfterFull, Bit
<1>3. TypeOK'
  BY <1>1, <1>2 DEF TypeOK, aggregates, adv, ghosts
<1>4. Steps' /\ NetworkInHand'
  BY <1>1 DEF Steps, NetworkInHand, AsReported, InCall, ghosts
<1>5. FaultsInHand'
  BY <1>1 DEF FaultsInHand, FaultBits, aggregates, ghosts, WithBit, AfterFull,
     ParamError, StorageError
<1>6. FullInHand'
  BY <1>1 DEF FullInHand, FullBit, aggregates, ghosts, WithBit, AfterFull
<1>7. ChangesInHand'
  <2> SUFFICES ASSUME ~disturbed
               PROVE  /\ pc' = "storage" =>
                           radio' \ {"param_error"} = previous \ {"param_error"}
                      /\ radio' = previous => InSync'
    BY <1>1 DEF ChangesInHand, RadioCall, InCall, ghosts
  <2>1. /\ pc \in {"param", "full"} => radio = previous
        /\ pc = "storage" =>
             radio \ {"param_error"} = previous \ {"param_error"}
        /\ radio = previous => InSync
    BY <1>1 DEF ChangesInHand, RadioCall, InCall
  <2>2. pc' = "storage" =>
          radio' \ {"param_error"} = previous \ {"param_error"}
    BY <1>1, <2>1 DEF WithBit
  <2>3. radio' = previous => radio' = radio
    <3>1. CASE pc = "storage"
      <4>1. radio' = WithBit(radio, "storage_error", StorageError(snapshot))
        BY <3>1
      <4>2. StorageError(snapshot) \in BOOLEAN
        BY DEF StorageError
      <4>3. radio \ {"param_error"} = previous \ {"param_error"}
        BY <2>1, <3>1
      <4> QED
        BY <4>1, <4>2, <4>3, BitSetTwice
    <3>2. CASE pc # "storage"
      BY <3>2, <1>1, <2>1
    <3> QED
      BY <3>1, <3>2
  <2> QED
    BY <2>1, <2>2, <2>3 DEF InSync, adv, ghosts
<1> QED
  BY <1>3, <1>4, <1>5, <1>6, <1>7

LEMMA StoreKeeps == IInv /\ Store => IInv'
<1> SUFFICES ASSUME IInv, Store PROVE IInv'
  OBVIOUS
<1> USE DEF IInv, Store
<1>1. pc = "store" /\ pc' = "compare" /\ call.group = "network"
  BY DEF Steps
<1>2. previous \in Network
  BY <1>1 DEF NetworkInHand, InCall
<1>3. /\ network' \in Network /\ network'["eco"] = 0
      /\ \A f \in Field \ {"eco"} : network'[f] = previous[f]
  BY <1>2, FieldKeepsType, StatusAssumption DEF Field, Value
<1>4. TypeOK'
  BY <1>1, <1>3 DEF TypeOK, aggregates, adv, ghosts
<1>5. Steps' /\ FaultsInHand' /\ FullInHand' /\ ChangesInHand'
  BY <1>1 DEF Steps, FaultsInHand, FullInHand, FaultBits, FullBit,
     ChangesInHand, RadioCall, InCall, aggregates, ghosts
<1>6. NetworkInHand'
  BY <1>1, <1>3 DEF NetworkInHand, AsReported, InCall, ghosts
<1> QED
  BY <1>4, <1>5, <1>6

LEMMA CompareKeeps == IInv /\ Compare => IInv'
<1> SUFFICES ASSUME IInv, Compare PROVE IInv'
  OBVIOUS
<1> USE DEF IInv, Compare
<1>1. /\ pc = "compare" /\ pc' = "idle" /\ call'.group = "network"
      /\ call' \in Call
  BY DEF NoCall, Call, Group
<1>2. /\ status_work' \in BOOLEAN /\ unseen' \in BOOLEAN
      /\ mfg_data' = mfg_data
  BY DEF TypeOK, Schedule, Changed, RadioChanged
<1>3. TypeOK'
  BY <1>1, <1>2 DEF TypeOK, aggregates
<1>4. Steps' /\ FaultsInHand' /\ FullInHand'
  BY <1>1 DEF Steps, FaultsInHand, FullInHand, FaultBits, FullBit, aggregates
<1>5. NetworkInHand'
  BY <1>1 DEF NetworkInHand, AsReported, InCall
<1>6. ChangesInHand'
  <2> SUFFICES InSync'
    BY <1>1 DEF ChangesInHand, RadioCall, InCall
  <2>1. CASE Changed
    BY <2>1 DEF InSync, Schedule
  <2>2. CASE ~Changed
    <3>1. call.group # "network"
      BY <2>2, <1>1, FieldKeepsType, StatusAssumption DEF Changed,
         NetworkInHand, InCall, Field, Value
    <3>2. RadioCall /\ radio = previous
      BY <3>1, <2>2, <1>1 DEF TypeOK, Call, Group, RadioCall, InCall, Changed,
         RadioChanged
    <3> QED
      BY <3>2, <2>2, <1>2 DEF ChangesInHand, InSync, Schedule
  <2> QED
    BY <2>1, <2>2
<1> QED
  BY <1>3, <1>4, <1>5, <1>6

-----------------------------------------------------------------------------
(* The transfer work queue.                                                *)

(* A change of the radio byte by another thread than the caller's.         *)
LEMMA RadioByteChangesKeeps ==
  ASSUME IInv, RadioByteChanges, radio' \subseteq Bit
  PROVE  /\ calls' \in 0 .. MaxCalls
         /\ status_work' \in BOOLEAN /\ disturbed' \in BOOLEAN
         /\ unseen' \in BOOLEAN /\ mfg_data' = mfg_data
         /\ Steps' /\ NetworkInHand' /\ ChangesInHand'
<1> USE DEF IInv, RadioByteChanges, low
<1>1. calls' \in 0 .. MaxCalls
  BY StatusAssumption DEF TypeOK, Calling
<1>2. /\ status_work' \in BOOLEAN /\ disturbed' \in BOOLEAN
      /\ unseen' \in BOOLEAN /\ mfg_data' = mfg_data
  BY DEF TypeOK, Schedule, RadioChanged, RadioCall, InCall
<1>3. Steps' /\ NetworkInHand'
  BY DEF Steps, NetworkInHand, AsReported, InCall
<1>4. ChangesInHand'
  <2>1. CASE radio' = radio
    BY <2>1 DEF ChangesInHand, RadioCall, InCall, InSync, Schedule, RadioChanged
  <2>2. CASE radio' # radio
    BY <2>2 DEF ChangesInHand, RadioCall, InCall, InSync, Schedule, RadioChanged
  <2> QED
    BY <2>1, <2>2
<1> QED
  BY <1>1, <1>2, <1>3, <1>4

LEMMA TransferFaultKeeps == IInv /\ TransferFault => IInv'
<1> SUFFICES ASSUME IInv, NEW d \in Domains, NEW active \in BOOLEAN,
                    storage_faults' = Marked(storage_faults, d, active),
                    radio' = AfterFault(radio, storage_faults'),
                    Tears("faults", storage_faults, storage_faults'),
                    RadioByteChanges, UNCHANGED storage_full
             PROVE  IInv'
  BY DEF TransferFault
<1>1. storage_faults' \subseteq Faulty
  BY DEF IInv, TypeOK, Marked, Faulty
<1>2. /\ radio' \subseteq Bit
      /\ FaultBits(radio', storage_faults')
      /\ "full" \in radio' <=> "full" \in radio
  BY DEF IInv, TypeOK, AfterFault, WithBit, Bit, FaultBits, ParamError,
     StorageError
<1>3. torn' \in {torn \union {"faults"}, torn \ {"faults"}}
  BY DEF Tears
<1>4. TypeOK'
  BY <1>1, <1>2, <1>3, RadioByteChangesKeeps DEF IInv, TypeOK, RadioByteChanges,
     low
<1>5. FaultsInHand'
  BY <1>2 DEF IInv, FaultsInHand, FaultBits, Tears, Stale, InCall, Steps,
     RadioByteChanges, low
<1>6. FullInHand'
  BY <1>2, <1>3 DEF IInv, FullInHand, FullBit, RadioByteChanges, low
<1> QED
  BY <1>2, <1>4, <1>5, <1>6, RadioByteChangesKeeps DEF IInv

LEMMA TransferFullKeeps == IInv /\ TransferFull => IInv'
<1> SUFFICES ASSUME IInv, NEW d \in Domains,
                    storage_full' = Marked(storage_full, d, FALSE),
                    radio' = AfterFull(radio, storage_full'),
                    Tears("full", storage_full, storage_full'),
                    RadioByteChanges, UNCHANGED storage_faults
             PROVE  IInv'
  BY DEF TransferFull
<1>1. storage_full' \subseteq Domains
  BY DEF IInv, TypeOK, Marked
<1>2. /\ radio' \subseteq Bit
      /\ FullBit(radio', storage_full')
      /\ "param_error" \in radio' <=> "param_error" \in radio
      /\ "storage_error" \in radio' <=> "storage_error" \in radio
  BY DEF IInv, TypeOK, AfterFull, WithBit, Bit, FullBit
<1>3. torn' \in {torn \union {"full"}, torn \ {"full"}}
  BY DEF Tears
<1>4. TypeOK'
  BY <1>1, <1>2, <1>3, RadioByteChangesKeeps DEF IInv, TypeOK, RadioByteChanges,
     low
<1>5. FullInHand'
  BY <1>2 DEF IInv, FullInHand, FullBit, Tears, Stale, InCall, Steps,
     RadioByteChanges, low
<1>6. FaultsInHand'
  BY <1>2, <1>3 DEF IInv, FaultsInHand, FaultBits, RadioByteChanges, low
<1> QED
  BY <1>2, <1>4, <1>5, <1>6, RadioByteChangesKeeps DEF IInv

-----------------------------------------------------------------------------
(* The system work queue.                                                  *)

(* A report keeps all but what its caller adds: the level's update that is *)
(* still to come, or the eco mode, which only its owner reports.           *)
LEMMA ReportKeeps ==
  ASSUME IInv, NEW f \in Field, NEW value \in Value, Report(f, value),
         f = "eco" => value \in {0, 1} /\ ~InCall("network"),
         leveling' \in BOOLEAN, leveling => leveling'
  PROVE  IInv'
<1> USE DEF IInv, Report, aggregates, low
<1>1. /\ network' \in Network /\ network'[f] = value
      /\ \A g \in Field \ {f} : network'[g] = network[g]
  BY FieldKeepsType DEF TypeOK
<1>2. /\ reported' \in Network /\ reported'[f] = value
      /\ \A g \in Field \ {f} : reported'[g] = reported[g]
  BY DEF TypeOK, Network
<1>3. calls' \in 0 .. MaxCalls
  BY StatusAssumption DEF TypeOK, Calling
<1>4. /\ status_work' \in BOOLEAN /\ disturbed' \in BOOLEAN
      /\ unseen' \in BOOLEAN /\ mfg_data' = mfg_data
  BY DEF TypeOK, Schedule, InCall
<1>5. reverted' \in {reverted \union {f}, reverted \ {f}}
  OBVIOUS
<1>6. TypeOK'
  BY <1>1, <1>2, <1>3, <1>4, <1>5 DEF TypeOK
<1>7. Steps' /\ FaultsInHand' /\ FullInHand'
  BY DEF Steps, FaultsInHand, FullInHand, FaultBits, FullBit
<1>8. NetworkInHand'
  <2>1. reported'["eco"] \in {0, 1} /\ "eco" \notin reverted'
    BY <1>2, <1>5 DEF NetworkInHand, InCall, Steps
  <2>2. AsReported(network)'
    BY <1>1, <1>2, <1>5 DEF NetworkInHand, AsReported
  <2>3. /\ f # "eco" => network'["eco"] = network["eco"]
        /\ f # "eco" => reported'["eco"] = reported["eco"]
    BY <1>1, <1>2 DEF Field
  <2>4. /\ ~InCall("network")' => network'["eco"] = reported'["eco"]
        /\ InCall("network")' =>
             /\ reported'["eco"] = 0
             /\ previous' \in Network /\ previous'["eco"] = 1
        /\ pc' = "compare" /\ InCall("network")' => network'["eco"] = 0
    BY <1>1, <1>2, <2>3 DEF NetworkInHand, InCall
  <2>5. pc' = "store" => AsReported(previous)'
    BY <1>2 DEF NetworkInHand, AsReported
  <2> QED
    BY <2>1, <2>2, <2>4, <2>5 DEF NetworkInHand
<1>9. ChangesInHand'
  <2>1. CASE network' = network
    BY <2>1, <1>4 DEF ChangesInHand, RadioCall, InCall, InSync, Schedule
  <2>2. CASE network' # network
    BY <2>2 DEF ChangesInHand, RadioCall, InCall, InSync, Schedule
  <2> QED
    BY <2>1, <2>2
<1> QED
  BY <1>6, <1>7, <1>8, <1>9

LEMMA MeasureBatteryKeeps == IInv /\ MeasureBattery => IInv'
BY ReportKeeps DEF MeasureBattery, Field, IInv, TypeOK

LEMMA UpdateLevelKeeps == IInv /\ UpdateLevel => IInv'
BY ReportKeeps DEF UpdateLevel, Field

LEMMA SwitchEcoKeeps == IInv /\ SwitchEco => IInv'
<1> SUFFICES ASSUME IInv, SwitchEco PROVE IInv'
  OBVIOUS
<1>1. 1 - reported["eco"] \in {0, 1} /\ {0, 1} \subseteq Value
  BY StatusAssumption DEF IInv, NetworkInHand, Value
<1>2. leveling' \in BOOLEAN /\ leveling' = leveling
  BY DEF IInv, TypeOK, SwitchEco
<1> QED
  BY <1>1, <1>2, ReportKeeps DEF SwitchEco, Field

LEMMA UpdateAdvKeeps == IInv /\ UpdateAdv => IInv'
<1> SUFFICES ASSUME IInv, UpdateAdv PROVE IInv'
  OBVIOUS
<1> USE DEF IInv, UpdateAdv, aggregates, low
<1>1. TypeOK'
  BY DEF TypeOK
<1>2. Steps' /\ FaultsInHand' /\ FullInHand'
  BY DEF Steps, FaultsInHand, FullInHand, FaultBits, FullBit
<1>3. NetworkInHand'
  BY DEF NetworkInHand, AsReported, InCall
<1>4. ChangesInHand'
  BY DEF ChangesInHand, RadioCall, InCall, InSync
<1> QED
  BY <1>1, <1>2, <1>3, <1>4

-----------------------------------------------------------------------------
LEMMA StutterKeeps == IInv /\ UNCHANGED vars => IInv'
<1> SUFFICES ASSUME IInv, UNCHANGED vars PROVE IInv'
  OBVIOUS
<1> USE DEF IInv, vars, aggregates, adv, low, ghosts
<1>1. TypeOK' /\ Steps'
  BY DEF TypeOK, Steps
<1>2. FaultsInHand' /\ FullInHand'
  BY DEF FaultsInHand, FullInHand, FaultBits, FullBit
<1>3. NetworkInHand'
  BY DEF NetworkInHand, AsReported, InCall
<1>4. ChangesInHand'
  BY DEF ChangesInHand, RadioCall, InCall, InSync
<1> QED
  BY <1>1, <1>2, <1>3, <1>4

LEMMA NextKeeps == IInv /\ [Next]_vars => IInv'
BY BeginKeeps, MarkKeeps, GetKeeps, SetBitKeeps, StoreKeeps, CompareKeeps,
   TransferFaultKeeps, TransferFullKeeps, MeasureBatteryKeeps, UpdateLevelKeeps,
   SwitchEcoKeeps, UpdateAdvKeeps, StutterKeeps
   DEF Next, StorageQueue

(* The inductive invariant: what a call has read and changed so far is     *)
(* known, unless another thread has interfered with it.                    *)
THEOREM StatusInvariant == Spec => []IInv
BY InitHolds, NextKeeps, PTL DEF Spec

(* Every byte, aggregate and step stays in its range.                      *)
THEOREM StatusTypes == Spec => []TypeOK
<1>1. IInv => TypeOK
  BY DEF IInv
<1> QED
  BY <1>1, StatusInvariant, PTL

(* The fault and full bits are what the aggregates of all domains say,     *)
(* but for a call whose snapshot was made stale (device.c:65).             *)
THEOREM BitsFollow == Spec => []BitsFollowAggregates
<1>1. IInv => BitsFollowAggregates
  <2> SUFFICES ASSUME IInv PROVE BitsFollowAggregates
    OBVIOUS
  <2>1. ASSUME ~InCall("faults"), "faults" \notin torn
        PROVE  FaultBits(radio, storage_faults)
    BY <2>1 DEF IInv, FaultsInHand, InCall
  <2>2. ASSUME ~InCall("full"), "full" \notin torn
        PROVE  FullBit(radio, storage_full)
    BY <2>2 DEF IInv, FullInHand, InCall
  <2> QED
    BY <2>1, <2>2 DEF BitsFollowAggregates, FaultBits, FullBit
<1> QED
  BY <1>1, StatusInvariant, PTL

(* Every field of the network byte is what its owner gave last, whoever    *)
(* else changed the byte, but for a field undone by a stale write.         *)
THEOREM NetworkFollows == Spec => []NetworkAsReported
<1>1. IInv => NetworkAsReported
  BY DEF IInv, NetworkInHand, AsReported, NetworkAsReported
<1> QED
  BY <1>1, StatusInvariant, PTL

(* No change of a status byte is left without an update of what is         *)
(* advertised, but for one the comparison of a disturbed call missed.      *)
THEOREM AdvertisedFollows == Spec => []AdvertisedIsStatus
<1>1. IInv => AdvertisedIsStatus
  BY DEF IInv, ChangesInHand, InSync, AdvertisedIsStatus
<1> QED
  BY <1>1, StatusInvariant, PTL
=============================================================================

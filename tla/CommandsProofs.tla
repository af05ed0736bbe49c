--------------------------- MODULE CommandsProofs ---------------------------
(***************************************************************************)
(* Proofs about the commands, for every set of commands, every depth of    *)
(* the queue, every record in flash, any defaults and any number of        *)
(* presses, failures and restarts.                                         *)
(***************************************************************************)
EXTENDS Commands, WellFoundedInduction, TLAPS

-----------------------------------------------------------------------------
(* While a command is applied, what is in flash is what was in force       *)
(* before it: that is what makes an unchanged result need no save.         *)
OldIsStored ==
  pc = "apply" /\ ~params_fault /\ ~unloaded => Meaning(stored) = command_old

IInv == TypeOK /\ NoCommandStranded /\ InForceIsStored /\ OldIsStored

(* A triple, whatever its value, leaves parameters that are in range.      *)
LEMMA AppliedType ==
  ASSUME NEW p \in Params, NEW triple \in Triple
  PROVE Applied(p, triple) \in Params
<1>1. \A v \in Byte : /\ [p EXCEPT !.rssi_threshold = v] \in Params
                      /\ [p EXCEPT !.rssi_location = v] \in Params
  BY DEF Params
<1>2. \A v \in 0 .. 1 : [p EXCEPT !.tracking = v] \in Params
  BY DEF Params
<1> QED
  BY <1>1, <1>2, DefaultsAssumption DEF Applied

(* What a migration finds in a record are parameters in range.             *)
LEMMA FoundType ==
  ASSUME NEW record \in Record
  PROVE Found(record) \in Params
<1>1. record.params \in Params
  BY DEF Record
<1>2. IF record.format = "v2" THEN record.params.tracking \in 0 .. 1
      ELSE 1 \in 0 .. 1
  BY <1>1 DEF Params
<1> QED
  BY <1>1, <1>2, DefaultsAssumption DEF Found, Params

LEMMA EmptyWorkQueue == WorkQueue(<<>>)
<1>1. \A i, j \in 1 .. Len(<<>>) : i = j
  OBVIOUS
<1> QED
  BY <1>1 DEF WorkQueue

LEMMA InitIInv == Init => IInv
<1> SUFFICES ASSUME Init PROVE IInv
  OBVIOUS
<1> USE DEF Init, TransmitterInit
<1>1. TransmitterTypeOK
  <2>1. presses \in 0 .. MaxPresses
    BY BoundAssumption
  <2> QED
    BY <2>1, EmptyWorkQueue DEF TransmitterTypeOK
<1>2. NetworkTypeOK
  BY DefaultsAssumption DEF NetworkTypeOK, Params
<1>3. TypeOK
  <2>1. faults \in 0 .. MaxFaults /\ resets \in 0 .. MaxResets
    BY BoundAssumption
  <2>2. command_msgq \in Seq(Messages) /\ Len(command_msgq) <= Depth
    BY BoundAssumption
  <2> QED
    BY <1>1, <1>2, <2>1, <2>2 DEF TypeOK
<1>4. NoCommandStranded /\ InForceIsStored /\ OldIsStored
  BY DEF NoCommandStranded, InForceIsStored, OldIsStored
<1> QED
  BY <1>3, <1>4 DEF IInv

-----------------------------------------------------------------------------
(* One lemma for each actor: what it keeps of the invariant.               *)

LEMMA TransmitterKeepsTypes == TransmitterTypeOK /\ Transmit => TransmitterTypeOK'
<1> SUFFICES ASSUME TransmitterTypeOK, Transmit PROVE TransmitterTypeOK'
  OBVIOUS
<1> USE DEF TransmitterTypeOK
<1>1. CASE Press
  <2>1. PICK work \in {"start", "stop"} :
          ~Queued(work) /\ adv_work' = Append(adv_work, work)
    BY <1>1 DEF Press
  <2>2. WorkQueue(adv_work')
    BY <2>1 DEF Queued, WorkQueue
  <2> QED
    BY <1>1, <2>2, BoundAssumption DEF Press
<1>2. CASE AdvWork
  <2>1. adv_work # <<>> /\ adv_work' = Tail(adv_work)
    BY <1>2 DEF AdvWork, StartFails, StartSucceeds, StopFails, StopSucceeds, Runs
  <2>2. WorkQueue(adv_work')
    BY <2>1 DEF WorkQueue
  <2> QED
    BY <1>2, <2>2 DEF AdvWork, StartFails, StartSucceeds, StopFails, StopSucceeds
<1>3. CASE Reflash
  <2>1. presses' \in 0 .. MaxPresses
    BY <1>3, BoundAssumption DEF Reflash
  <2> QED
    BY <1>3, <2>1, EmptyWorkQueue DEF Reflash
<1> QED
  BY <1>1, <1>2, <1>3 DEF Transmit

LEMMA TransmitKeeps ==
  IInv /\ Transmit /\ UNCHANGED <<networkVars, faults, intakeVars, resets>> => IInv'
<1> SUFFICES ASSUME IInv, Transmit,
                    UNCHANGED <<networkVars, faults, intakeVars, resets>>
             PROVE IInv'
  OBVIOUS
<1>1. TransmitterTypeOK'
  BY TransmitterKeepsTypes DEF IInv, TypeOK
<1>2. TypeOK'
  BY <1>1 DEF IInv, TypeOK, NetworkTypeOK, networkVars, intakeVars, handlerVars
<1>3. NoCommandStranded' /\ InForceIsStored' /\ OldIsStored'
  BY DEF IInv, NoCommandStranded, InForceIsStored, OldIsStored, Meaning,
         networkVars, intakeVars, handlerVars
<1> QED
  BY <1>2, <1>3 DEF IInv

(* What leaves the transmitter alone keeps its types.                      *)
LEMMA OthersKeepTypes ==
  TransmitterTypeOK /\ UNCHANGED transmitterVars => TransmitterTypeOK'
BY DEF TransmitterTypeOK, transmitterVars, WorkQueue

LEMMA HearKeeps == IInv /\ Hear => IInv'
<1> SUFFICES ASSUME IInv, Hear PROVE IInv'
  OBVIOUS
<1>1. /\ command_msgq' \in Seq(Messages)
      /\ Len(command_msgq') <= Depth
  BY BoundAssumption DEF IInv, TypeOK, TransmitterTypeOK, Hear, QueueHasRoom
<1>2. TypeOK'
  BY <1>1, OthersKeepTypes
     DEF IInv, TypeOK, NetworkTypeOK, Hear, networkVars, handlerVars
<1>3. NoCommandStranded' /\ InForceIsStored' /\ OldIsStored'
  BY DEF IInv, NoCommandStranded, InForceIsStored, OldIsStored, Meaning, Hear,
         networkVars, handlerVars
<1> QED
  BY <1>2, <1>3 DEF IInv

LEMMA StartKeeps == IInv /\ StartHandler => IInv'
<1> SUFFICES ASSUME IInv, StartHandler PROVE IInv'
  OBVIOUS
<1>1. TypeOK'
  BY OthersKeepTypes, SilentAssumption
     DEF IInv, TypeOK, NetworkTypeOK, StartHandler, Goto, networkVars
<1>2. NoCommandStranded' /\ InForceIsStored' /\ OldIsStored'
  BY DEF IInv, NoCommandStranded, InForceIsStored, OldIsStored, Meaning,
         StartHandler, Goto, networkVars
<1> QED
  BY <1>1, <1>2 DEF IInv

LEMMA EndKeeps == IInv /\ EndHandler => IInv'
<1> SUFFICES ASSUME IInv, EndHandler PROVE IInv'
  OBVIOUS
<1>1. TypeOK'
  BY OthersKeepTypes, SilentAssumption
     DEF IInv, TypeOK, NetworkTypeOK, EndHandler, Goto, networkVars
<1>2. NoCommandStranded' /\ InForceIsStored' /\ OldIsStored'
  BY DEF IInv, NoCommandStranded, InForceIsStored, OldIsStored, Meaning,
         EndHandler, Goto, networkVars
<1> QED
  BY <1>1, <1>2 DEF IInv

LEMMA TakeKeepsQueue ==
  IInv /\ Take => /\ command_msgq' \in Seq(Messages)
                  /\ Len(command_msgq') <= Depth
                  /\ Head(command_msgq) \in Messages
BY BoundAssumption DEF IInv, TypeOK, Take

LEMMA RejectKeeps == IInv /\ Reject => IInv'
<1> SUFFICES ASSUME IInv, Reject PROVE IInv'
  OBVIOUS
<1>1. Take /\ UNCHANGED <<networkVars, faults, handlerVars>>
  BY DEF Reject
<1>2. TypeOK'
  BY <1>1, TakeKeepsQueue, OthersKeepTypes
     DEF IInv, TypeOK, NetworkTypeOK, Take, networkVars, handlerVars
<1>3. NoCommandStranded' /\ InForceIsStored' /\ OldIsStored'
  BY <1>1 DEF IInv, NoCommandStranded, InForceIsStored, OldIsStored, Meaning, Take,
              networkVars, handlerVars
<1> QED
  BY <1>2, <1>3 DEF IInv

(* A command begins where in force and stored agree: the agreement passes  *)
(* to the parameters remembered.                                           *)
LEMMA BeginKeeps == IInv /\ Begin => IInv'
<1> SUFFICES ASSUME IInv, Begin PROVE IInv'
  OBVIOUS
<1>1. Take /\ CommandBegin
  BY DEF Begin
<1>2. /\ pc' = "apply" /\ next' = 1
      /\ msg' = Head(command_msgq) /\ msg' \in Messages
  BY <1>1, TakeKeepsQueue DEF Begin
<1>3. msg' # Silent /\ Len(msg'.triples) \in Nat
  BY <1>2, SilentAssumption, MessageAssumption DEF Message
<1>4. TypeOK'
  BY <1>1, <1>2, <1>3, TakeKeepsQueue, OthersKeepTypes
     DEF IInv, TypeOK, NetworkTypeOK, Take, CommandBegin
<1>5. NoCommandStranded' /\ InForceIsStored'
  BY <1>1, <1>2 DEF IInv, NoCommandStranded, InForceIsStored, CommandBegin
<1>6. OldIsStored'
  BY <1>1, Begin DEF Begin, Take, IInv, InForceIsStored, OldIsStored, Meaning,
                     CommandBegin
<1> QED
  BY <1>4, <1>5, <1>6 DEF IInv

LEMMA ApplyKeeps == IInv /\ ApplyTriple => IInv'
<1> SUFFICES ASSUME IInv, ApplyTriple PROVE IInv'
  OBVIOUS
<1>1. pc = "apply" /\ msg \in Messages /\ next \in 1 .. Len(msg.triples)
  BY SilentAssumption DEF IInv, TypeOK, ApplyTriple
<1>2. msg.triples[next] \in Triple /\ Len(msg.triples) \in Nat
  BY <1>1, MessageAssumption DEF Message
<1>3. params_network' \in Params
  BY <1>2, AppliedType
     DEF IInv, TypeOK, NetworkTypeOK, ApplyTriple, ApplyCommand, SetParams
<1>4. TypeOK'
  BY <1>1, <1>2, <1>3, OthersKeepTypes
     DEF IInv, TypeOK, NetworkTypeOK, ApplyTriple, ApplyCommand, SetParams
<1>5. NoCommandStranded' /\ InForceIsStored' /\ OldIsStored'
  BY <1>1 DEF IInv, NoCommandStranded, InForceIsStored, OldIsStored, Meaning,
              ApplyTriple, ApplyCommand, SetParams
<1> QED
  BY <1>4, <1>5 DEF IInv

(* Saved, stored and in force agree; not saved for a failure, the fault is *)
(* set; not saved for nothing has changed, the old parameters were stored. *)
LEMMA CommitKeeps == IInv /\ Commit => IInv'
<1> SUFFICES ASSUME IInv, Commit PROVE IInv'
  OBVIOUS
<1> USE DEF Commit, CommandDone, AfterCommand, Goto
<1>1. pc = "apply" /\ pc' = "get" /\ msg' = Silent /\ next' = 0
  OBVIOUS
<1>2. CASE ParamsEqual
  <2>1. UNCHANGED <<networkVars, faults>>
    BY <1>2 DEF CommandCommit, networkVars
  <2>2. TypeOK'
    BY <1>1, <2>1, OthersKeepTypes, SilentAssumption
       DEF IInv, TypeOK, NetworkTypeOK, networkVars
  <2>3. NoCommandStranded' /\ InForceIsStored' /\ OldIsStored'
    BY <1>1, <1>2, <2>1
       DEF IInv, NoCommandStranded, InForceIsStored, OldIsStored, Meaning,
           ParamsEqual, networkVars
  <2> QED
    BY <2>2, <2>3 DEF IInv
<1>3. CASE ~ParamsEqual
  <2>1. UNCHANGED <<params_network, tracking_active, command_old>>
    BY DEF CommandCommit
  <2>2. SaveSucceeds \/ SaveFails
    BY <1>3 DEF CommandCommit
  <2>3. NetworkTypeOK' /\ faults' \in 0 .. MaxFaults
    <3>1. CASE SaveSucceeds
      BY <2>1, <3>1 DEF IInv, TypeOK, NetworkTypeOK, SaveSucceeds, Record, Format
    <3>2. CASE SaveFails
      BY <2>1, <3>2, BoundAssumption DEF IInv, TypeOK, NetworkTypeOK, SaveFails
    <3> QED
      BY <2>2, <3>1, <3>2
  <2>4. TypeOK'
    BY <1>1, <2>3, OthersKeepTypes, SilentAssumption DEF IInv, TypeOK
  <2>5. NoCommandStranded' /\ OldIsStored'
    BY <1>1 DEF NoCommandStranded, OldIsStored
  <2>6. InForceIsStored'
    BY <1>1, <2>1, <2>2
       DEF IInv, InForceIsStored, Meaning, SaveSucceeds, SaveFails
  <2> QED
    BY <2>4, <2>5, <2>6 DEF IInv
<1> QED
  BY <1>2, <1>3

LEMMA ResetKeeps == IInv /\ Reset => IInv'
<1> SUFFICES ASSUME IInv, Reset PROVE IInv'
  OBVIOUS
<1>1. resets' \in 0 .. MaxResets
  BY BoundAssumption DEF IInv, TypeOK, Reset
<1>2. command_msgq' \in Seq(Messages) /\ Len(command_msgq') <= Depth
  BY BoundAssumption DEF Reset
<1>3. NetworkTypeOK'
  BY DefaultsAssumption DEF IInv, TypeOK, NetworkTypeOK, Reset, SetParams
<1>4. TypeOK'
  BY <1>1, <1>2, <1>3, OthersKeepTypes, SilentAssumption
     DEF IInv, TypeOK, Reset, Goto
<1>5. NoCommandStranded' /\ InForceIsStored' /\ OldIsStored'
  BY DEF NoCommandStranded, InForceIsStored, OldIsStored, Reset, Goto, SetParams
<1> QED
  BY <1>4, <1>5 DEF IInv

-----------------------------------------------------------------------------
(* Start-up.                                                               *)

(* Whatever start-up finds, it leaves what the record stands for, and      *)
(* takes it for its parameters unless it says that it could not.           *)
LEMMA BootLoads ==
  ASSUME IInv, Boot
  PROVE /\ NetworkTypeOK' /\ faults' \in 0 .. MaxFaults
        /\ Meaning(stored') = Meaning(stored)
        /\ tracking_active' = (params_network'.tracking = 1)
        /\ ~params_fault' /\ ~unloaded' => Meaning(stored') = params_network'
<1> USE DEF IInv, TypeOK, NetworkTypeOK, SetParams
<1>1. NetworkInit /\ stored \in Record
  BY DEF Boot
<1>2. command_old' = params_network'
  BY <1>1 DEF NetworkInit
<1>3. CASE StorageInitFails
  <2>1. faults' \in 0 .. MaxFaults
    BY <1>3, BoundAssumption DEF StorageInitFails
  <2>2. stored' = stored /\ unloaded'
    BY <1>3 DEF StorageInitFails
  <2> QED
    BY <1>2, <1>3, <2>1, <2>2, DefaultsAssumption DEF StorageInitFails
<1>4. CASE LoadCurrent
  BY <1>1, <1>2, <1>4 DEF LoadCurrent, Meaning, Record
<1>5. CASE LoadMigrates
  <2>1. Found(stored) \in Params /\ Meaning(stored) = Found(stored)
    BY <1>1, <1>5, FoundType DEF LoadMigrates, Migrates, Meaning
  <2>2. params_network' = Found(stored) /\ tracking_active' = (Found(stored).tracking = 1)
    BY <1>5 DEF LoadMigrates
  <2>3. CASE SaveSucceeds
    <3>1. stored' \in Record /\ Meaning(stored') = Found(stored)
      BY <2>1, <2>2, <2>3 DEF SaveSucceeds, Record, Format, Meaning
    <3> QED
      BY <1>2, <2>1, <2>2, <2>3, <3>1 DEF SaveSucceeds
  <2>4. CASE /\ faults > 0 /\ faults' = faults - 1
             /\ params_fault' = TRUE /\ unloaded' = FALSE
             /\ UNCHANGED stored
    <3>1. faults' \in 0 .. MaxFaults
      BY <2>4, BoundAssumption
    <3>2. Meaning(stored') = Meaning(stored)
      BY <2>4
    <3> QED
      BY <1>2, <2>1, <2>2, <2>4, <3>1, <3>2
  <2> QED
    BY <1>5, <2>3, <2>4 DEF LoadMigrates
<1>6. CASE LoadNothing
  BY <1>2, <1>6, DefaultsAssumption DEF LoadNothing, Meaning
<1>7. CASE LoadFails
  <2>1. ReadsToFail \in 0 .. 2
    BY DEF ReadsToFail
  <2>2. faults' \in 0 .. MaxFaults
    BY <1>7, <2>1, BoundAssumption DEF LoadFails
  <2>3. stored' = stored /\ params_fault'
    BY <1>7 DEF LoadFails
  <2> QED
    BY <1>2, <1>7, <2>2, <2>3, DefaultsAssumption DEF LoadFails
<1> QED
  BY <1>1, <1>3, <1>4, <1>5, <1>6, <1>7 DEF NetworkInit

LEMMA BootKeeps == IInv /\ Boot => IInv'
<1> SUFFICES ASSUME IInv, Boot PROVE IInv'
  OBVIOUS
<1>1. pc' = "idle" /\ msg' = Silent /\ next' = 0
  BY DEF Boot, Goto
<1>2. TypeOK'
  BY <1>1, BootLoads, OthersKeepTypes, SilentAssumption DEF IInv, TypeOK, Boot
<1> QED
  BY <1>1, <1>2, BootLoads DEF IInv, NoCommandStranded, InForceIsStored,
     OldIsStored, Boot

-----------------------------------------------------------------------------
LEMMA StepKeepsIInv == IInv /\ [Next]_vars => IInv'
<1> SUFFICES ASSUME IInv, [Next]_vars PROVE IInv'
  OBVIOUS
<1>1. CASE Handler
  BY <1>1, StartKeeps, EndKeeps, RejectKeeps, BeginKeeps, ApplyKeeps, CommitKeeps
     DEF Handler
<1>2. CASE UNCHANGED vars
  BY <1>2, OthersKeepTypes
     DEF vars, IInv, TypeOK, NetworkTypeOK, NoCommandStranded, InForceIsStored,
         OldIsStored, Meaning, networkVars, intakeVars, handlerVars
<1> QED
  BY <1>1, <1>2, TransmitKeeps, HearKeeps, ResetKeeps, BootKeeps DEF Next

LEMMA SpecIInv == Spec => []IInv
<1> QED
  BY InitIInv, StepKeepsIInv, PTL DEF Spec

(* The types, the bounds of the queue and of the program counter.          *)
THEOREM CommandsTypes == Spec => []TypeOK
<1>1. IInv => TypeOK
  BY DEF IInv
<1> QED
  BY <1>1, SpecIInv, PTL

(* However the scanner and the handler interleave, no command waits in the *)
(* queue of a tag whose handler neither runs nor is going to.              *)
THEOREM CommandsAreTaken == Spec => []NoCommandStranded
<1>1. IInv => NoCommandStranded
  BY DEF IInv
<1> QED
  BY <1>1, SpecIInv, PTL

(* Between commands a tag's parameters are those in flash, or a fault says *)
(* that they are not.                                                      *)
THEOREM ParametersAgree == Spec => []InForceIsStored
<1>1. IInv => InForceIsStored
  BY DEF IInv
<1> QED
  BY <1>1, SpecIInv, PTL

(* A start-up keeps what the record in flash stands for, whatever fails.   *)
THEOREM RecordSurvivesBoot == Spec => GoodRecordSurvives
<1>1. IInv /\ [Next]_vars => (pc = "boot" => Meaning(stored') = Meaning(stored))
                                \/ UNCHANGED vars
  <2> SUFFICES ASSUME IInv, Next, pc = "boot"
               PROVE Meaning(stored') = Meaning(stored)
    OBVIOUS
  <2>1. CASE Boot
    BY <2>1, BootLoads
  <2>2. CASE Transmit /\ UNCHANGED <<networkVars, faults, intakeVars, resets>>
    BY <2>2 DEF networkVars
  <2>3. ~Hear /\ ~Handler /\ ~Reset
    BY DEF Hear, Handler, StartHandler, EndHandler, Reject, Begin, Take,
           ApplyTriple, Commit, CommandDone, Reset, IInv, NoCommandStranded
  <2> QED
    BY <2>1, <2>2, <2>3 DEF Next
<1> QED
  BY <1>1, SpecIInv, PTL DEF Spec, GoodRecordSurvives

-----------------------------------------------------------------------------
(* The transmitter's light.                                                *)

LEMMA LightKept ==
  ASSUME IInv, LightTellsTheTruth, [Next]_vars
  PROVE  LightTellsTheTruth'
<1>1. mfg_data # Silent
  BY SilentAssumption DEF IInv, TypeOK, TransmitterTypeOK
<1>2. CASE Transmit
  BY <1>1, <1>2 DEF Transmit, Press, AdvWork, StartFails, StartSucceeds, StopFails,
                    StopSucceeds, Runs, Reflash, LightTellsTheTruth
<1>3. CASE UNCHANGED transmitterVars
  BY <1>3 DEF transmitterVars, LightTellsTheTruth
<1>4. CASE ~Transmit
  <2>1. UNCHANGED transmitterVars
    BY <1>4 DEF Next, Hear, Handler, StartHandler, EndHandler, Reject, Begin, Take,
                ApplyTriple, Commit, Reset, Boot, vars
  <2> QED
    BY <1>3, <2>1
<1> QED
  BY <1>2, <1>4

(* The operator's LED blinks exactly while a command is on air, whatever   *)
(* fails and in whatever order the buttons are pressed.                    *)
THEOREM LightIsTrue == Spec => []LightTellsTheTruth
<1>1. Init => LightTellsTheTruth
  BY DEF Init, TransmitterInit, LightTellsTheTruth
<1>2. IInv /\ LightTellsTheTruth /\ [Next]_vars => LightTellsTheTruth'
  BY LightKept
<1> QED
  BY <1>1, <1>2, SpecIInv, PTL DEF Spec

-----------------------------------------------------------------------------
(* What a command makes of the parameters, triple by triple.  The          *)
(* recursion is unfolded by way of the first place where it would fail.    *)

LEMMA LeastNumber ==
  ASSUME NEW T, T \subseteq Nat, T # {}
  PROVE  \E n \in T : \A m \in T : n <= m
<1> DEFINE R == OpToRel(<, Nat)
<1>1. IsWellFoundedOn(R, Nat)
  BY NatLessThanWellFounded
<1>2. \A n, m \in Nat : m < n => <<m, n>> \in R
  BY DEF OpToRel
<1> HIDE DEF R
<1>3. PICK n \in T : \A m \in T : <<m, n>> \notin R
  BY <1>1, WFMin
<1>4. \A m \in T : n <= m
  <2>1. \A m \in T : m \in Nat /\ n \in Nat /\ ~(m < n)
    BY <1>2, <1>3
  <2> QED
    BY <2>1
<1> QED
  BY <1>4

(* f lists the parameters after n triples, for n up to m.                  *)
Lists(f, triples, p, m) ==
  f = [n \in 0 .. m |-> IF n = 0 THEN p ELSE Applied(f[n - 1], triples[n])]

LEMMA ListExists ==
  ASSUME NEW triples \in Seq(Triple), NEW p
  PROVE  \E f : Lists(f, triples, p, Len(triples))
<1>1. Len(triples) \in Nat
  OBVIOUS
<1> DEFINE T == {m \in 0 .. Len(triples) : ~ \E f : Lists(f, triples, p, m)}
<1>2. SUFFICES ASSUME T # {} PROVE FALSE
  <2>1. Len(triples) \in 0 .. Len(triples)
    BY <1>1
  <2> QED
    BY <2>1
<1>3. T \subseteq Nat
  BY <1>1
<1>4. PICK m \in T : \A k \in T : m <= k
  BY <1>2, <1>3, LeastNumber
<1>5. m \in 0 .. Len(triples) /\ m \in Nat /\ ~ \E f : Lists(f, triples, p, m)
  BY <1>3, <1>4
<1>6. m # 0
  <2> DEFINE f == [n \in 0 .. 0 |-> p]
  <2>1. f = [n \in 0 .. 0 |-> IF n = 0 THEN p ELSE Applied(f[n - 1], triples[n])]
    OBVIOUS
  <2>2. Lists(f, triples, p, 0)
    BY <2>1 DEF Lists
  <2> QED
    BY <1>5, <2>2
<1>7. m - 1 \in 0 .. Len(triples) /\ ~(m <= m - 1)
  BY <1>1, <1>5, <1>6
<1>8. PICK g : Lists(g, triples, p, m - 1)
  BY <1>4, <1>7
<1>9. /\ DOMAIN g = 0 .. m - 1
      /\ \A n \in 0 .. m - 1 :
           g[n] = IF n = 0 THEN p ELSE Applied(g[n - 1], triples[n])
  BY <1>8 DEF Lists
<1> DEFINE last == Applied(g[m - 1], triples[m])
           f == [n \in 0 .. m |-> IF n = m THEN last ELSE g[n]]
<1> HIDE DEF last
<1>10. ASSUME NEW n \in 0 .. m
       PROVE  f[n] = IF n = 0 THEN p ELSE Applied(f[n - 1], triples[n])
  <2>1. CASE n = m
    <3>1. m - 1 \in 0 .. m /\ m - 1 # m
      BY <1>5, <1>6
    <3>2. f[n] = last /\ f[n - 1] = g[m - 1]
      BY <2>1, <3>1
    <3> QED
      BY <1>6, <2>1, <3>2 DEF last
  <2>2. CASE n # m /\ n = 0
    BY <1>5, <1>6, <1>9, <2>2
  <2>3. CASE n # m /\ n # 0
    <3>1. /\ n \in 0 .. m - 1 /\ n - 1 \in 0 .. m - 1
          /\ n - 1 \in 0 .. m /\ n - 1 # m
      BY <1>5, <2>3
    <3>2. f[n] = g[n] /\ f[n - 1] = g[n - 1]
      BY <2>3, <3>1
    <3> QED
      BY <1>9, <2>3, <3>1, <3>2
  <2> QED
    BY <2>1, <2>2, <2>3
<1>11. Lists(f, triples, p, m)
  BY <1>10 DEF Lists
<1> QED
  BY <1>5, <1>11

LEMMA AfterEach ==
  ASSUME NEW triples \in Seq(Triple), NEW p
  PROVE  /\ AfterTriples(triples, p)[0] = p
         /\ \A n \in 1 .. Len(triples) :
              AfterTriples(triples, p)[n] =
                Applied(AfterTriples(triples, p)[n - 1], triples[n])
<1> DEFINE f == AfterTriples(triples, p)
<1>1. f = CHOOSE g : Lists(g, triples, p, Len(triples))
  BY DEF AfterTriples, Lists
<1>2. Lists(f, triples, p, Len(triples))
  BY <1>1, ListExists
<1> HIDE DEF f
<1>3. \A n \in 0 .. Len(triples) :
        f[n] = IF n = 0 THEN p ELSE Applied(f[n - 1], triples[n])
  BY <1>2 DEF Lists
<1>4. Len(triples) \in Nat
  OBVIOUS
<1>5. f[0] = p
  BY <1>3, <1>4
<1>6. \A n \in 1 .. Len(triples) : f[n] = Applied(f[n - 1], triples[n])
  BY <1>3, <1>4
<1> QED
  BY <1>5, <1>6 DEF f

(* A command under way has applied its first triples, and these only.      *)
Underway ==
  pc = "apply" => params_network = AfterTriples(msg.triples, command_old)[next - 1]

LEMMA UnderwayKept ==
  ASSUME IInv, Underway, [Next]_vars
  PROVE  Underway'
<1>1. CASE Begin
  <2>1. /\ pc' = "apply" /\ next' = 1 /\ msg' = Head(command_msgq)
        /\ command_old' = params_network /\ params_network' = params_network
        /\ command_msgq \in Seq(Messages) /\ command_msgq # <<>>
    BY <1>1 DEF Begin, Take, CommandBegin, IInv, TypeOK
  <2>2. msg' \in Messages
    BY <2>1
  <2>3. msg'.triples \in Seq(Triple)
    BY <2>2, MessageAssumption DEF Message
  <2>4. AfterTriples(msg'.triples, command_old')[0] = command_old'
    BY <2>3, AfterEach
  <2> QED
    BY <2>1, <2>4 DEF Underway
<1>2. CASE ApplyTriple
  <2>1. /\ pc = "apply" /\ pc' = pc /\ msg' = msg /\ next' = next + 1
        /\ command_old' = command_old /\ next <= Len(msg.triples)
        /\ params_network' = Applied(params_network, msg.triples[next])
    BY <1>2 DEF ApplyTriple, ApplyCommand, SetParams
  <2>2. msg \in Messages /\ next \in 1 .. Len(msg.triples) + 1
    BY <2>1, SilentAssumption DEF IInv, TypeOK
  <2>3. msg.triples \in Seq(Triple)
    BY <2>2, MessageAssumption DEF Message
  <2>4. next \in 1 .. Len(msg.triples) /\ next + 1 - 1 = next
    BY <2>1, <2>2, <2>3
  <2>5. AfterTriples(msg.triples, command_old)[next] =
          Applied(AfterTriples(msg.triples, command_old)[next - 1], msg.triples[next])
    BY <2>3, <2>4, AfterEach
  <2> QED
    BY <2>1, <2>4, <2>5 DEF Underway
<1>3. CASE pc' # "apply"
  BY <1>3 DEF Underway
<1>4. CASE UNCHANGED <<pc, msg, next, params_network, command_old>>
  BY <1>4 DEF Underway
<1>5. CASE ~Begin /\ ~ApplyTriple
  <2>1. CASE Transmit /\ UNCHANGED <<networkVars, faults, intakeVars, resets>>
    BY <1>4, <2>1 DEF networkVars, intakeVars, handlerVars
  <2>2. CASE Hear \/ Reject
    BY <1>4, <2>2 DEF Hear, Reject, networkVars, handlerVars
  <2>3. CASE StartHandler \/ EndHandler \/ Commit \/ Reset \/ Boot
    BY <1>3, <2>3 DEF StartHandler, EndHandler, Commit, AfterCommand, Reset, Boot, Goto
  <2>4. CASE UNCHANGED vars
    BY <1>4, <2>4 DEF vars, networkVars, intakeVars, handlerVars
  <2> QED
    BY <1>5, <2>1, <2>2, <2>3, <2>4 DEF Next, Handler
<1> QED
  BY <1>1, <1>2, <1>5

LEMMA SpecUnderway == Spec => []Underway
<1>1. Init => Underway
  BY DEF Init, Underway
<1>2. IInv /\ Underway /\ [Next]_vars => Underway'
  BY UnderwayKept
<1> QED
  BY <1>1, <1>2, SpecIInv, PTL DEF Spec

(* What a command leaves in flash is the whole of it on top of what was in *)
(* force before: network_command_commit saves nothing of a command that    *)
(* has not been applied to its last triple.                                *)
THEOREM CommandsStoredWhole == Spec => StoredWhole
<1>1. ASSUME IInv, Underway, [Next]_vars, pc = "apply", stored' # stored
      PROVE  stored'.params = ResultOf(msg.triples, command_old)
  <2>1. Commit
    BY <1>1 DEF Next, Hear, Handler, StartHandler, EndHandler, Reject, Begin, Take,
                ApplyTriple, ApplyCommand, CommandBegin, Reset, Boot, vars, networkVars
  <2>2. /\ next = Len(msg.triples) + 1
        /\ stored'.params = params_network' /\ params_network' = params_network
    BY <1>1, <2>1 DEF Commit, CommandDone, CommandCommit, SaveSucceeds, SaveFails
  <2>3. msg \in Messages
    BY <1>1, SilentAssumption DEF IInv, TypeOK
  <2>4. Len(msg.triples) \in Nat
    BY <2>3, MessageAssumption DEF Message
  <2>5. next - 1 = Len(msg.triples)
    BY <2>2, <2>4
  <2> QED
    BY <1>1, <2>2, <2>5 DEF Underway, ResultOf
<1>2. IInv /\ Underway /\ [Next]_vars =>
        [pc = "apply" /\ stored' # stored =>
           stored'.params = ResultOf(msg.triples, command_old)]_vars
  BY <1>1
<1> QED
  BY <1>2, SpecIInv, SpecUnderway, PTL DEF Spec, StoredWhole
=============================================================================

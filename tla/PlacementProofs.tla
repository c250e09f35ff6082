--------------------------- MODULE PlacementProofs ---------------------------
(***************************************************************************)
(* Proofs about Placement for any number of schedulers, controllers, VMs   *)
(* and bodies.                                                             *)
(***************************************************************************)
EXTENDS Placement, SequenceTheorems, TLAPS

-----------------------------------------------------------------------------

(***************************************************************************)
(* The inductive invariant.  The first half of AssignedOnce is not         *)
(* inductive alone: AssignVM looks at the VM's controller only, and that   *)
(* nobody was told of a VM without one is the second half, which reports   *)
(* keep although they may write anybody over the assignee.                 *)
(***************************************************************************)
PlacementInv == PTypeOK /\ AssignedOnce

(* A VM that the map has is one. *)
LEMMA PresentVM ==
    ASSUME PTypeOK, NEW v \in VMIDs, HasVM(v)
    PROVE  vms[v] \in VM
  BY DEF PTypeOK, StoreTypeOK, HasVM

(* What the store's methods make of a VM. *)
LEMMA VMShapes ==
    ASSUME NEW vm \in VM
    PROVE  /\ \A d \in DesiredStates :
                /\ [vm EXCEPT !.desired = d] \in VM
                /\ [vm EXCEPT !.desired = d].controller = vm.controller
           /\ \A c \in ControllerIDs :
                /\ [vm EXCEPT !.controller = c] \in VM
                /\ [vm EXCEPT !.controller = c].controller = c
  BY DEF VM

(* A step that writes VM v alone, tells nobody, and leaves the VM assigned *)
(* if it was.                                                              *)
LEMMA NobodyTold ==
    ASSUME PlacementInv, NEW v \in VMIDs, HasVM(v), NEW vm \in VM,
           vms[v].controller # NoController => vm.controller # NoController,
           vms' = [vms EXCEPT ![v] = vm],
           UNCHANGED <<controllers, events, listed, told>>
    PROVE  PlacementInv'
<1> USE DEF PlacementInv
<1>1. PTypeOK'
  BY DEF PTypeOK, StoreTypeOK
<1>2. vm # Absent
  BY AbsentAssumption
<1>3. \A u \in VMIDs : HasVM(u) /\ ~ Unassigned(u) => (HasVM(u) /\ ~ Unassigned(u))'
  BY <1>2 DEF PTypeOK, StoreTypeOK, HasVM, Unassigned
<1>4. AssignedOnce'
  BY <1>3 DEF AssignedOnce
<1> QED
  BY <1>1, <1>4

-----------------------------------------------------------------------------

(* Nobody was told of a VM. *)
LEMMA PInitInv == PInit => PlacementInv
<1> SUFFICES ASSUME PInit PROVE PlacementInv
  OBVIOUS
<1>1. PTypeOK
  BY EmptySeq DEF PInit, StoreInit, PTypeOK, StoreTypeOK
<1>2. AssignedOnce
  BY DEF PInit, AssignedOnce
<1> QED
  BY <1>1, <1>2 DEF PlacementInv

(* A step that leaves VMs alone and tells nobody. *)
LEMMA OthersMove ==
    ASSUME PlacementInv, PTypeOK', UNCHANGED <<vms, told>>
    PROVE  PlacementInv'
  BY DEF PlacementInv, AssignedOnce, HasVM, Unassigned

(* Nobody was told of a new VM, which has no controller: it was not        *)
(* in the store.                                                           *)
LEMMA CreateKeeps ==
    ASSUME PlacementInv, APICreates
    PROVE  PlacementInv'
<1> USE DEF PlacementInv
<1>1. PICK v \in FreshIDs, b \in Bodies :
        /\ ~ HasVM(v)
        /\ vms' = [vms EXCEPT ![v] = NewVM(b)]
        /\ UNCHANGED <<controllers, events, listed, told>>
  BY DEF APICreates, CreateVM
<1>2. v \in VMIDs
  BY FreshAssumption
<1>3. NewVM(b) \in VM /\ NewVM(b).controller = NoController
  BY DEF NewVM, VM, DesiredStates, ObservedStates
<1>4. PTypeOK'
  BY <1>1, <1>2, <1>3 DEF PTypeOK, StoreTypeOK
<1>5. \A u \in VMIDs \ {v} : vms'[u] = vms[u]
  BY <1>1, <1>2 DEF PTypeOK, StoreTypeOK
<1>6. told[v] = {} /\ told' = told
  BY <1>1, <1>2 DEF AssignedOnce
<1>7. AssignedOnce'
  BY <1>5, <1>6 DEF AssignedOnce, HasVM, Unassigned
<1> QED
  BY <1>4, <1>7

(* What is desired of a VM has nothing to do with who it is assigned to. *)
LEMMA UpdateKeeps ==
    ASSUME PlacementInv, APIUpdates
    PROVE  PlacementInv'
<1>1. PICK v \in VMIDs, d \in DesiredStates :
        /\ HasVM(v)
        /\ vms' = [vms EXCEPT ![v] = [vms[v] EXCEPT !.desired = d]]
        /\ UNCHANGED <<controllers, events, listed, told>>
  BY DEF APIUpdates, UpdateVMDesiredState
<1>2. vms[v] \in VM
  BY <1>1, PresentVM DEF PlacementInv
<1>3. /\ [vms[v] EXCEPT !.desired = d] \in VM
      /\ [vms[v] EXCEPT !.desired = d].controller = vms[v].controller
  BY <1>2, VMShapes
<1> QED
  BY <1>1, <1>3, NobodyTold

(* Registrations and heartbeats are kept apart from VMs. *)
LEMMA ControllerKeeps ==
    ASSUME PlacementInv, NEW c \in ControllerIDs, Join(c) \/ Beat(c)
    PROVE  PlacementInv'
<1>1. PTypeOK
  BY DEF PlacementInv
<1>2. CASE Join(c)
  <2>1. PICK b \in Bodies : controllers' = [controllers EXCEPT ![c] = [labels |-> b, report |-> b]]
    BY <1>2 DEF Join, RegisterController
  <2>2. [labels |-> b, report |-> b] \in Controller
    BY DEF Controller
  <2>3. UNCHANGED <<vms, events, listed, told>>
    BY <1>2 DEF Join, RegisterController
  <2>4. PTypeOK'
    BY <1>1, <2>1, <2>2, <2>3 DEF PTypeOK, StoreTypeOK
  <2> QED
    BY <2>3, <2>4, OthersMove
<1>3. CASE Beat(c)
  <2>1. PICK b \in Bodies :
            controllers' = [controllers EXCEPT ![c] = [controllers[c] EXCEPT !.report = b]]
    BY <1>3 DEF Beat, UpdateControllerHeartbeat
  <2>2. controllers[c] \in Controller
    BY <1>1, <1>3 DEF Beat, UpdateControllerHeartbeat, HasController, PTypeOK, StoreTypeOK
  <2>3. [controllers[c] EXCEPT !.report = b] \in Controller
    BY <2>2 DEF Controller
  <2>4. UNCHANGED <<vms, events, listed, told>>
    BY <1>3 DEF Beat, UpdateControllerHeartbeat
  <2>5. PTypeOK'
    BY <1>1, <2>1, <2>3, <2>4 DEF PTypeOK, StoreTypeOK
  <2> QED
    BY <2>4, <2>5, OthersMove
<1> QED
  BY <1>2, <1>3

(* A scheduler that lists, or that comes too late, changes no VM. *)
LEMMA ListKeeps ==
    ASSUME PlacementInv, NEW s \in Schedulers,
           List(s) \/ \E v \in VMIDs : AssignConflict(s, v)
    PROVE  PlacementInv'
<1>1. UNCHANGED <<vms, controllers, events, told>>
  BY DEF List, AssignConflict
<1>2. listed' \in [Schedulers -> SUBSET VMIDs]
  <2>1. listed \in [Schedulers -> SUBSET VMIDs]
    BY DEF PlacementInv, PTypeOK
  <2>2. CASE List(s)
    BY <2>1, <2>2 DEF List, ListPendingVMs
  <2>3. CASE \E v \in VMIDs : AssignConflict(s, v)
    BY <2>1, <2>3 DEF AssignConflict
  <2> QED
    BY <2>2, <2>3
<1>3. PTypeOK'
  BY <1>1, <1>2 DEF PlacementInv, PTypeOK, StoreTypeOK
<1> QED
  BY <1>1, <1>3, OthersMove

(* AssignVM succeeds on a VM nobody was told of, however old the list is   *)
(* that the scheduler took it from.                                        *)
LEMMA AssignKeeps ==
    ASSUME PlacementInv, NEW s \in Schedulers, NEW v \in VMIDs, NEW c \in ControllerIDs,
           Assign(s, v, c)
    PROVE  PlacementInv'
<1> USE DEF PlacementInv
<1> DEFINE vm == [vms[v] EXCEPT !.controller = c]
<1>1. /\ HasVM(v) /\ vms[v].controller = NoController
      /\ vms' = [vms EXCEPT ![v] = vm]
      /\ told' = [told EXCEPT ![v] = told[v] \cup {c}]
      /\ listed' = [listed EXCEPT ![s] = listed[s] \ {v}]
      /\ UNCHANGED <<controllers, events>>
  BY DEF Assign, AssignVM, Unassigned
<1>2. vm \in VM /\ vm.controller = c
  BY <1>1, PresentVM, VMShapes
<1> HIDE DEF vm
<1>3. PTypeOK'
  BY <1>1, <1>2 DEF PTypeOK, StoreTypeOK
<1>4. told[v] = {}
  BY <1>1 DEF AssignedOnce, Unassigned
<1>5. /\ vms'[v] = vm
      /\ vm # Absent
      /\ \A u \in VMIDs \ {v} : vms'[u] = vms[u]
  BY <1>1, <1>2, AbsentAssumption DEF PTypeOK, StoreTypeOK
<1>6. /\ told'[v] = {c}
      /\ \A u \in VMIDs \ {v} : told'[u] = told[u]
  BY <1>1, <1>4 DEF PTypeOK
<1>7. c # NoController
  BY NoControllerAssumption
<1>8. AssignedOnce'
  BY <1>2, <1>5, <1>6, <1>7 DEF AssignedOnce, HasVM, Unassigned
<1> QED
  BY <1>3, <1>8

(* A report under a controller's identifier, whoever's it is, leaves the   *)
(* VM assigned, so that AssignVM goes on refusing it; after one under no   *)
(* controller, nobody counts as told.                                      *)
LEMMA ReportKeeps ==
    ASSUME PlacementInv, NEW c \in ControllerIDs \cup {NoController}, NEW v \in VMIDs, Report(c, v)
    PROVE  PlacementInv'
<1> USE DEF PlacementInv
<1>1. PICK o \in Reported :
        /\ HasVM(v)
        /\ vms' = [vms EXCEPT ![v] = [vms[v] EXCEPT !.observed = o, !.controller = c]]
        /\ told' = [told EXCEPT ![v] = IF c = NoController THEN {} ELSE told[v]]
        /\ UNCHANGED <<controllers, events, listed>>
  BY DEF Report, UpdateVMObservedState
<1> DEFINE vm == [vms[v] EXCEPT !.observed = o, !.controller = c]
<1>2. vm \in VM /\ vm.controller = c
  <2>1. vms[v] \in VM /\ o \in ObservedStates
    BY <1>1, PresentVM, ReportedAssumption
  <2> QED
    BY <2>1 DEF VM
<1> HIDE DEF vm
<1>3. vms' = [vms EXCEPT ![v] = vm]
  BY <1>1 DEF vm
<1>4. CASE c # NoController
  <2>1. told' = told
    BY <1>1, <1>4 DEF PTypeOK
  <2> QED
    BY <1>1, <1>2, <1>3, <1>4, <2>1, NobodyTold
<1>5. CASE c = NoController
  <2>1. PTypeOK'
    BY <1>1, <1>2, <1>3 DEF PTypeOK, StoreTypeOK
  <2>2. /\ told'[v] = {}
        /\ \A u \in VMIDs \ {v} : told'[u] = told[u] /\ vms'[u] = vms[u]
    BY <1>1, <1>3, <1>5 DEF PTypeOK, StoreTypeOK
  <2>3. AssignedOnce'
    BY <2>2 DEF AssignedOnce, HasVM, Unassigned
  <2> QED
    BY <2>1, <2>3
<1> QED
  BY <1>4, <1>5

-----------------------------------------------------------------------------

(* Every step of schedulers, controllers and API callers keeps the         *)
(* invariant.                                                              *)
LEMMA PStepKeeps ==
    ASSUME PlacementInv, [PNext]_pvars
    PROVE  PlacementInv'
<1>1. CASE APICreates \/ APIUpdates
  BY <1>1, CreateKeeps, UpdateKeeps
<1>2. ASSUME NEW c \in ControllerIDs, Join(c) \/ Beat(c) PROVE PlacementInv'
  BY <1>2, ControllerKeeps
<1>3. ASSUME NEW s \in Schedulers, List(s) PROVE PlacementInv'
  BY <1>3, ListKeeps
<1>4. ASSUME NEW s \in Schedulers, NEW v \in VMIDs, AssignConflict(s, v) PROVE PlacementInv'
  BY <1>4, ListKeeps
<1>5. ASSUME NEW s \in Schedulers, NEW v \in VMIDs, NEW c \in ControllerIDs, Assign(s, v, c)
      PROVE  PlacementInv'
  BY <1>5, AssignKeeps
<1>6. ASSUME NEW c \in ControllerIDs \cup {NoController}, NEW v \in VMIDs, Report(c, v)
      PROVE  PlacementInv'
  BY <1>6, ReportKeeps
<1>7. CASE UNCHANGED pvars
  <2>1. PTypeOK'
    BY <1>7 DEF pvars, PlacementInv, PTypeOK, StoreTypeOK
  <2> QED
    BY <1>7, <2>1, OthersMove DEF pvars
<1> QED
  BY <1>1, <1>2, <1>3, <1>4, <1>5, <1>6, <1>7 DEF PNext, ReportNotFound

(* The inductive invariant holds however stale the schedulers' lists are. *)
THEOREM PlacementInvariance == PSpec => []PlacementInv
<1>1. PlacementInv /\ [PNext]_pvars => PlacementInv'
  BY PStepKeeps
<1> QED
  BY <1>1, PInitInv, PTL DEF PSpec

(* The store and the books of schedulers and controllers stay well-typed. *)
THEOREM PlacementTyping == PSpec => []PTypeOK
<1>1. PlacementInv => PTypeOK
  BY DEF PlacementInv
<1> QED
  BY <1>1, PlacementInvariance, PTL

(* AssignVM is atomic: of all schedulers that try to assign a VM one       *)
(* succeeds before the VM is made free, whoever reports on it meanwhile.   *)
THEOREM OneHolder == PSpec => []AssignedOnce
<1>1. PlacementInv => AssignedOnce
  BY DEF PlacementInv
<1> QED
  BY <1>1, PlacementInvariance, PTL

(* UpdateControllerHeartbeat replaces the report only, and a second        *)
(* RegisterController is refused: the labels of a registration stay.       *)
THEOREM LabelsKept == PSpec => RegistrationKept
<1> DEFINE Kept == \A c \in ControllerIDs : HasController(c) =>
                      controllers'[c] # Absent /\ controllers'[c].labels = controllers[c].labels
<1>1. ASSUME PTypeOK, [PNext]_pvars PROVE Kept
  <2> SUFFICES ASSUME NEW c \in ControllerIDs, HasController(c)
               PROVE  controllers'[c] # Absent /\ controllers'[c].labels = controllers[c].labels
    OBVIOUS
  <2>1. controllers \in [ControllerIDs -> Controller \cup {Absent}] /\ controllers[c] \in Controller
    BY <1>1 DEF PTypeOK, StoreTypeOK, HasController
  <2>2. ASSUME NEW d \in ControllerIDs, Join(d)
        PROVE  controllers'[c] = controllers[c]
    <3>1. d # c
      BY <2>2 DEF Join, RegisterController
    <3> QED
      BY <2>1, <2>2, <3>1 DEF Join, RegisterController
  <2>3. ASSUME NEW d \in ControllerIDs, Beat(d)
        PROVE  controllers'[c] \in Controller /\ controllers'[c].labels = controllers[c].labels
    <3>1. PICK b \in Bodies :
            controllers' = [controllers EXCEPT ![d] = [controllers[d] EXCEPT !.report = b]]
      BY <2>3 DEF Beat, UpdateControllerHeartbeat
    <3>2. CASE d = c
      BY <2>1, <3>1, <3>2 DEF Controller
    <3>3. CASE d # c
      BY <2>1, <3>1, <3>3
    <3> QED
      BY <3>2, <3>3
  <2>4. CASE UNCHANGED controllers
    BY <2>1, <2>4, AbsentAssumption
  <2>5. \/ \E d \in ControllerIDs : Join(d)
        \/ \E d \in ControllerIDs : Beat(d)
        \/ UNCHANGED controllers
    BY <1>1 DEF PNext, pvars, APICreates, CreateVM, APIUpdates, UpdateVMDesiredState, List,
                Assign, AssignVM, AssignConflict, Report, ReportNotFound,
                UpdateVMObservedState
  <2> QED
    BY <2>1, <2>2, <2>3, <2>4, <2>5, AbsentAssumption
<1>2. PTypeOK /\ [PNext]_pvars => [Kept]_pvars
  BY <1>1
<1> QED
  BY <1>2, PlacementTyping, PTL DEF PSpec, RegistrationKept
=============================================================================

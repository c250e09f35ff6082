------------------------------- MODULE MemState -------------------------------
(***************************************************************************)
(* The in-memory StateStore (provider/state/memstate): VMs, controllers    *)
(* and the event log behind one RWMutex.  Every method holds the lock from *)
(* its first read to its last write, so each is one step; the modules that *)
(* extend this one say who calls them and in which order.                  *)
(*                                                                         *)
(* A Go map is a total function with Absent for the keys it does not have. *)
(* Timestamps, image and other fields no method reads are left out; a VM's *)
(* spec and a controller's labels and report are opaque to the store.      *)
(***************************************************************************)
EXTENDS Naturals, Sequences, FiniteSets

CONSTANTS
    VMIDs,          \* VM identifiers anyone may name
    FreshIDs,       \* those of them that newID may return, each once
    ControllerIDs,  \* controller identifiers
    NoController,   \* the empty controller identifier: a VM is unassigned
    Absent,         \* what a map holds for a key it does not have
    Bodies          \* opaque data: VM specs, labels, heartbeats

ASSUME FreshAssumption == FreshIDs \subseteq VMIDs
ASSUME NoControllerAssumption == NoController \notin ControllerIDs

VARIABLES
    vms,            \* Store.vms
    controllers,    \* Store.controllers
    events          \* Store.events, oldest first

store == <<vms, controllers, events>>

-----------------------------------------------------------------------------

DesiredStates == {"running", "stopped", "deleted"}

ObservedStates == {"pending", "scheduled", "preparing", "starting", "running",
                   "stopping", "stopped", "failed", "deleted"}

VM == [desired : DesiredStates,
       observed : ObservedStates,
       controller : ControllerIDs \cup {NoController},
       spec : Bodies]

Controller == [labels : Bodies, report : Bodies]

EventTypes == {"vm.created", "vm.stop_requested", "vm.delete_requested"}

Event == [vm : VMIDs, type : EventTypes]

ASSUME AbsentAssumption == Absent \notin VM \cup Controller

(* New: two empty maps and no event. *)
StoreInit == /\ vms = [v \in VMIDs |-> Absent]
             /\ controllers = [c \in ControllerIDs |-> Absent]
             /\ events = << >>

StoreTypeOK == /\ vms \in [VMIDs -> VM \cup {Absent}]
               /\ controllers \in [ControllerIDs -> Controller \cup {Absent}]
               /\ events \in Seq(Event)

-----------------------------------------------------------------------------

(* GetVM and every other method that takes a VM identifier: it is found or *)
(* the call ends with NotFound.                                            *)
HasVM(v) == vms[v] # Absent

HasController(c) == controllers[c] # Absent

NewVMUnset(spec) == [desired |-> "running", observed |-> "",
                     controller |-> NoController, spec |-> spec]

(* A VM as CreateVM builds it. *)
NewVM(spec) == [desired |-> "running", observed |-> "pending",
                controller |-> NoController, spec |-> spec]

CreateVM(v, spec) ==
    /\ v \in FreshIDs
    /\ ~ HasVM(v)
    /\ vms' = [vms EXCEPT ![v] = NewVM(spec)]
    /\ UNCHANGED <<controllers, events>>

RemoveIfDeleted(v, desired) ==
    /\ HasVM(v)
    /\ vms' = [vms EXCEPT ![v] = IF desired = "deleted" THEN Absent
                                 ELSE [@ EXCEPT !.desired = desired]]
    /\ UNCHANGED <<controllers, events>>

UpdateVMDesiredState(v, desired) ==
    /\ HasVM(v)
    /\ vms' = [vms EXCEPT ![v] = [@ EXCEPT !.desired = desired]]
    /\ UNCHANGED <<controllers, events>>

(* The reporting controller is written along with what it reports, whoever *)
(* the VM was assigned to.                                                 *)
UpdateVMObservedState(v, observed, c) ==
    /\ HasVM(v)
    /\ vms' = [vms EXCEPT ![v] = [@ EXCEPT !.observed = observed, !.controller = c]]
    /\ UNCHANGED <<controllers, events>>

AlwaysFree(v) == TRUE

(* AssignVM's test for a conflict. *)
Unassigned(v) == vms[v].controller = NoController

AssignVM(v, c) ==
    /\ HasVM(v)
    /\ Unassigned(v)
    /\ vms' = [vms EXCEPT ![v] = [@ EXCEPT !.controller = c]]
    /\ UNCHANGED <<controllers, events>>

ListScheduledVMs == {v \in VMIDs : HasVM(v) /\ vms[v].observed = "scheduled"}

(* The result is a set: the code ranges over a map. *)
ListPendingVMs == {v \in VMIDs : HasVM(v) /\ vms[v].observed = "pending"}

AppendEvent(v, type) ==
    /\ events' = Append(events, [vm |-> v, type |-> type])
    /\ UNCHANGED <<vms, controllers>>

Overwrite(c, body) ==
    /\ controllers' = [controllers EXCEPT ![c] = [labels |-> body, report |-> body]]
    /\ UNCHANGED <<vms, events>>

RegisterController(c, body) ==
    /\ ~ HasController(c)
    /\ controllers' = [controllers EXCEPT ![c] = [labels |-> body, report |-> body]]
    /\ UNCHANGED <<vms, events>>

(* Status and capacity are replaced, the labels stay. *)
UpdateControllerHeartbeat(c, body) ==
    /\ HasController(c)
    /\ controllers' = [controllers EXCEPT ![c] = [@ EXCEPT !.report = body]]
    /\ UNCHANGED <<vms, events>>
=============================================================================

------------------------------ MODULE Placement ------------------------------
(***************************************************************************)
(* The state store as schedulers and controllers use it.  They are not in  *)
(* the repository yet; what they may do is what StateStore offers them: a  *)
(* scheduler lists the pending VMs, and some time later, when the list may *)
(* be out of date, assigns one; a controller reports on VMs.  The store    *)
(* takes a report from anyone on any VM, under any controller's identifier *)
(* or under none, and writes what it is given over the assignment, so      *)
(* reports that are late, stray or about a VM nobody assigned are among    *)
(* the steps.  Meanwhile API calls create VMs and change what is desired   *)
(* of them.                                                                *)
(***************************************************************************)
EXTENDS MemState

CONSTANTS
    Schedulers,
    Reported        \* the observed states controllers report

ASSUME ReportedAssumption == Reported \subseteq ObservedStates

VARIABLES
    listed,     \* per scheduler: the VMs it listed and has not tried yet
    told        \* ghost, per VM: the controllers AssignVM succeeded for
                \* since the store last had no controller for it

pvars == <<vms, controllers, events, listed, told>>

-----------------------------------------------------------------------------

PInit == /\ StoreInit
         /\ listed = [s \in Schedulers |-> {}]
         /\ told = [v \in VMIDs |-> {}]

(* The API side: a VM appears, or something else is desired of it. *)
APICreates == \E v \in FreshIDs, b \in Bodies :
    CreateVM(v, b) /\ UNCHANGED <<listed, told>>

APIUpdates == \E v \in VMIDs, d \in DesiredStates :
    UpdateVMDesiredState(v, d) /\ UNCHANGED <<listed, told>>

Join(c) == \E b \in Bodies : RegisterController(c, b) /\ UNCHANGED <<listed, told>>

Beat(c) == \E b \in Bodies : UpdateControllerHeartbeat(c, b) /\ UNCHANGED <<listed, told>>

(* A scheduler reads the pending VMs. *)
List(s) == /\ listed[s] = {}
           /\ listed' = [listed EXCEPT ![s] = ListPendingVMs]
           /\ UNCHANGED <<vms, controllers, events, told>>

(* It assigns a VM of its list to a registered controller, which is told   *)
(* when the assignment succeeds.                                           *)
Assign(s, v, c) ==
    /\ v \in listed[s]
    /\ HasController(c)
    /\ AssignVM(v, c)
    /\ listed' = [listed EXCEPT ![s] = @ \ {v}]
    /\ told' = [told EXCEPT ![v] = @ \cup {c}]

(* Someone else was faster: ErrConflict, and the scheduler drops the VM. *)
AssignConflict(s, v) ==
    /\ v \in listed[s]
    /\ HasVM(v) /\ ~ Unassigned(v)
    /\ listed' = [listed EXCEPT ![s] = @ \ {v}]
    /\ UNCHANGED <<vms, controllers, events, told>>

(* Someone reports on a VM under the identifier c: the one it is assigned  *)
(* to, another one, or the empty identifier, which makes the VM free.      *)
Report(c, v) ==
    /\ \E o \in Reported : UpdateVMObservedState(v, o, c)
    /\ told' = [told EXCEPT ![v] = IF c = NoController THEN {} ELSE @]
    /\ UNCHANGED listed

(* A report on a VM the store does not have: NotFound. *)
ReportNotFound(v) == ~ HasVM(v) /\ UNCHANGED pvars

PNext ==
    \/ APICreates
    \/ APIUpdates
    \/ \E c \in ControllerIDs : Join(c) \/ Beat(c)
    \/ \E s \in Schedulers :
        \/ List(s)
        \/ \E v \in VMIDs : \/ \E c \in ControllerIDs : Assign(s, v, c)
                            \/ AssignConflict(s, v)
    \/ \E v \in VMIDs :
        \/ \E c \in ControllerIDs \cup {NoController} : Report(c, v)
        \/ ReportNotFound(v)

(* Schedulers keep working and some controller registers; nothing is asked *)
(* of what controllers report or of the API's callers.                     *)
PSpec == PInit /\ [][PNext]_pvars

PFairSpec ==
    /\ PSpec
    /\ \A c \in ControllerIDs : WF_pvars(Join(c))
    /\ \A s \in Schedulers :
        /\ WF_pvars(List(s))
        /\ \A v \in VMIDs : WF_pvars(AssignConflict(s, v) \/ \E c \in ControllerIDs : Assign(s, v, c))

-----------------------------------------------------------------------------

PTypeOK == /\ StoreTypeOK
           /\ listed \in [Schedulers -> SUBSET VMIDs]
           /\ told \in [VMIDs -> SUBSET ControllerIDs]

(* "AssignVM atomically assigns a VM to a controller": whatever schedulers *)
(* do with lists that are out of date, and whoever reports on the VM in    *)
(* between and is written over its assignee, no two controllers are told   *)
(* that the same VM is theirs before the store was told that it is free,   *)
(* and until then the VM does not look free.                               *)
AssignedOnce ==
    \A v \in VMIDs :
        /\ \A c, d \in told[v] : c = d
        /\ told[v] # {} => HasVM(v) /\ ~ Unassigned(v)

(* "Heartbeat updates can't overwrite unrelated state": what a controller  *)
(* registered with stays what it was under any later heartbeat or second   *)
(* registration.                                                           *)
RegistrationKept ==
    [][ \A c \in ControllerIDs : HasController(c) =>
            controllers'[c] # Absent /\ controllers'[c].labels = controllers[c].labels ]_pvars

(* A pending VM is assigned some day, or somebody reports that it is not  *)
(* pending: ListPendingVMs shows it to a scheduler however often lists are *)
(* out of date and however often another scheduler was faster or a report  *)
(* made the VM free again.                                                 *)
PendingGetsAssigned ==
    \A v \in VMIDs :
        (HasVM(v) /\ vms[v].observed = "pending")
            ~> (HasVM(v) /\ (~ Unassigned(v) \/ vms[v].observed # "pending"))
=============================================================================

------------------------------ MODULE ApiService ------------------------------
(***************************************************************************)
(* The transport-independent service (api/service.go) on top of the state  *)
(* store.  Each request is served by a goroutine of its own.  A method     *)
(* that changes a VM takes the store's lock twice, once to write the VM    *)
(* and once to append the event, and other calls run between the two: that *)
(* is what this module is about.  HttpApi says which requests arrive.  The  *)
(* list methods only read and are left to a module of their own; the work  *)
(* queue the service is given is never used by it.                         *)
(***************************************************************************)
EXTENDS MemState

CONSTANTS
    Requests,   \* one goroutine each
    Offered,    \* what requests may ask for: records with op, target, body
    NoRequest,  \* what a goroutine that serves nothing yet works on
    NoID        \* no identifier

VARIABLES
    call,       \* the service call each request is in
    tangled     \* ghost: VMs written while the event of an earlier write
                \* was still to come

-----------------------------------------------------------------------------

VMOps == {"GetVM", "StopVM", "DeleteVM"}
ControllerOps == {"RegisterController", "Heartbeat"}
Ops == {"CreateVM"} \cup VMOps \cup ControllerOps

(* The providererr codes the store answers with, and the absence of one. *)
Errors == {"none", "not_found", "already_exists"}

Call == [pc : {"idle", "store", "emit", "returned"},
         req : Offered \cup {NoRequest},
         id : VMIDs \cup {NoID},
         err : Errors]

Idle == [pc |-> "idle", req |-> NoRequest, id |-> NoID, err |-> "none"]

SInit == /\ StoreInit
         /\ call = [r \in Requests |-> Idle]
         /\ tangled = {}

(* Request r calls the service method its request x names. *)
Invoke(r, x) == [call EXCEPT ![r] = [pc |-> "store", req |-> x,
                    id |-> IF x.op \in VMOps THEN x.target ELSE NoID, err |-> "none"]]

Asks(r, ops) == call[r].pc = "store" /\ call[r].req.op \in ops

Return(r, err) == call' = [call EXCEPT ![r] = [@ EXCEPT !.pc = "returned", !.err = err]]

CreateVMReturns(r) ==
    /\ Asks(r, {"CreateVM"})
    /\ \E v \in FreshIDs :
        /\ CreateVM(v, call[r].req.body)
        /\ call' = [call EXCEPT ![r] = [@ EXCEPT !.pc = "returned", !.id = v]]
    /\ UNCHANGED tangled

(* CreateVM: the store creates the VM; its event is still to come. *)
CreateVMStore(r) ==
    /\ Asks(r, {"CreateVM"})
    /\ \E v \in FreshIDs :
        /\ CreateVM(v, call[r].req.body)
        /\ call' = [call EXCEPT ![r] = [@ EXCEPT !.pc = "emit", !.id = v]]
    /\ UNCHANGED tangled

DesiredBy(op) == IF op = "StopVM" THEN "stopped" ELSE "deleted"

(* The write of some other call to v is not followed by its event yet. *)
EventPending(v) == \E q \in Requests : call[q].pc = "emit" /\ call[q].id = v

(* StopVM and DeleteVM: the store records the desired state. *)
SetDesired(r) ==
    LET v == call[r].id IN
    /\ Asks(r, {"StopVM", "DeleteVM"})
    /\ UpdateVMDesiredState(v, DesiredBy(call[r].req.op))
    /\ call' = [call EXCEPT ![r] = [@ EXCEPT !.pc = "emit"]]
    /\ tangled' = IF EventPending(v) THEN tangled \cup {v} ELSE tangled

DeleteLoggedAsStop(op) == IF op = "CreateVM" THEN "vm.created" ELSE "vm.stop_requested"

EventType(op) == CASE op = "CreateVM" -> "vm.created"
                   [] op = "StopVM" -> "vm.stop_requested"
                   [] op = "DeleteVM" -> "vm.delete_requested"

(* The second half of CreateVM, StopVM and DeleteVM: the event is appended *)
(* and the call returns.  The error of AppendEvent is dropped; memstate's  *)
(* never is one.                                                           *)
Emit(r) ==
    /\ call[r].pc = "emit"
    /\ AppendEvent(call[r].id, EventType(call[r].req.op))
    /\ Return(r, "none")
    /\ UNCHANGED tangled

(* The methods that name a VM or a controller the store does not have. *)
NotFound(r) ==
    /\ \/ Asks(r, VMOps) /\ ~ HasVM(call[r].req.target)
       \/ Asks(r, {"Heartbeat"}) /\ ~ HasController(call[r].req.target)
    /\ Return(r, "not_found")
    /\ UNCHANGED <<vms, controllers, events, tangled>>

GetVM(r) ==
    /\ Asks(r, {"GetVM"})
    /\ HasVM(call[r].req.target)
    /\ Return(r, "none")
    /\ UNCHANGED <<vms, controllers, events, tangled>>

Register(r) ==
    /\ Asks(r, {"RegisterController"})
    /\ RegisterController(call[r].req.target, call[r].req.body)
    /\ Return(r, "none")
    /\ UNCHANGED tangled

AlreadyRegistered(r) ==
    /\ Asks(r, {"RegisterController"})
    /\ HasController(call[r].req.target)
    /\ Return(r, "already_exists")
    /\ UNCHANGED <<vms, controllers, events, tangled>>

Heartbeat(r) ==
    /\ Asks(r, {"Heartbeat"})
    /\ UpdateControllerHeartbeat(call[r].req.target, call[r].req.body)
    /\ Return(r, "none")
    /\ UNCHANGED tangled

ServiceStep(r) ==
    \/ CreateVMStore(r) \/ SetDesired(r) \/ Emit(r)
    \/ NotFound(r) \/ GetVM(r)
    \/ Register(r) \/ AlreadyRegistered(r) \/ Heartbeat(r)

-----------------------------------------------------------------------------

STypeOK == /\ StoreTypeOK
           /\ call \in [Requests -> Call]
           /\ tangled \in SUBSET VMIDs

(* The events of VM v, oldest first. *)
EventsOf(v) == {i \in DOMAIN events : events[i].vm = v}

(* Each VM's history begins with its creation and says so once, although   *)
(* vm.created is appended after the VM can be read and changed.            *)
CreatedFirst ==
    \A v \in VMIDs : \A i \in EventsOf(v) :
        events[i].type = "vm.created" <=> \A k \in EventsOf(v) : i <= k

LoggedAs == [CreateVM |-> "vm.created", StopVM |-> "vm.stop_requested",
             DeleteVM |-> "vm.delete_requested"]

(* Every write that a caller was told of is in the log, and nothing else   *)
(* is: the events of a VM are as many as the calls that returned from      *)
(* writing it.                                                             *)
EveryWriteLogged ==
    \A v \in VMIDs, op \in DOMAIN LoggedAs :
        Cardinality({i \in EventsOf(v) : events[i].type = LoggedAs[op]})
          = Cardinality({r \in Requests :
                /\ call[r].pc = "returned" /\ call[r].err = "none"
                /\ call[r].req.op = op /\ call[r].id = v})

DesiredAfter(type) == CASE type = "vm.created" -> "running"
                        [] type = "vm.stop_requested" -> "stopped"
                        [] type = "vm.delete_requested" -> "deleted"

(* A reader of the log knows what is desired of a VM: once the events of   *)
(* all writes are in, the last one tells the desired state, unless two     *)
(* writes of that VM overlapped and their events came in the other order.  *)
LogTellsDesired ==
    \A v \in VMIDs :
        HasVM(v) /\ ~ EventPending(v) /\ v \notin tangled =>
            \E i \in EventsOf(v) :
                /\ \A k \in EventsOf(v) : k <= i
                /\ vms[v].desired = DesiredAfter(events[i].type)
=============================================================================

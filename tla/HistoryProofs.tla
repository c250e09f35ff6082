---------------------------- MODULE HistoryProofs ----------------------------
(***************************************************************************)
(* Proofs about the event log and what the answers of the HTTP transport   *)
(* say of the store, for any number of requests, keys and VMs.  A VM and   *)
(* its event are written in two critical sections of the store, and other  *)
(* requests read and write the VM between them; what keeps the log in      *)
(* order is that nobody can name a VM before its creation is answered or   *)
(* logged.                                                                 *)
(***************************************************************************)
EXTENDS HttpApiProofs, FiniteSetTheorems

-----------------------------------------------------------------------------

(* Request r has made VM v. *)
Creates(r, v) ==
    call[r].pc \in {"emit", "returned"} /\ sent[r].op = "CreateVM" /\ call[r].id = v

(* The event of request r's write to v is still to come. *)
Pending(r, v) == call[r].pc = "emit" /\ call[r].id = v

Logged(v, type) == \E i \in DOMAIN events : events[i].vm = v /\ events[i].type = type

(* VMs are made by one request each, with its body. *)
CreatorsRight ==
    /\ \A v \in VMIDs : HasVM(v) => v \in FreshIDs
    /\ \A r \in Requests, v \in VMIDs : Creates(r, v) => HasVM(v) /\ vms[v].spec = sent[r].body
    /\ \A q, r \in Requests, v \in VMIDs : Creates(q, v) /\ Creates(r, v) => q = r

(* Events are about VMs there are, after the event of their creation. *)
EventsRight ==
    \A i \in DOMAIN events :
        /\ HasVM(events[i].vm)
        /\ \E j \in DOMAIN events :
            j <= i /\ events[j].vm = events[i].vm /\ events[j].type = "vm.created"

(* A VM that is being written is there, and the event of its creation      *)
(* comes before any other.                                                 *)
PendingRight ==
    \A r \in Requests, v \in VMIDs : Pending(r, v) =>
        HasVM(v) /\ (sent[r].op = "CreateVM" => EventsOf(v) = {})

(* Who names a VM that newID may have made has seen it. *)
SentRight ==
    \A r \in Requests :
        sent[r] # NoRequest /\ sent[r].op \in VMOps /\ sent[r].target \in FreshIDs
            => Logged(sent[r].target, "vm.created")

(* What a service call that returned says is so. *)
ReturnTrue(r) ==
    call[r].pc = "returned" =>
        /\ sent[r].op \in Writing /\ call[r].err = "none" => Logged(call[r].id, LoggedAs[sent[r].op])
        /\ sent[r].op \in VMOps /\ call[r].err = "not_found" => sent[r].target \notin FreshIDs

ReturnedRight == \A r \in Requests : ReturnTrue(r)

(* The events of a kind about v, and the calls they come from. *)
Logs(v, op) == {i \in EventsOf(v) : events[i].type = LoggedAs[op]}
Writers(v, op) == {r \in Requests : /\ call[r].pc = "returned" /\ call[r].err = "none"
                                    /\ call[r].req.op = op /\ call[r].id = v}

CountsRight ==
    \A v \in VMIDs, op \in Writing :
        /\ IsFiniteSet(Logs(v, op)) /\ IsFiniteSet(Writers(v, op))
        /\ Cardinality(Logs(v, op)) = Cardinality(Writers(v, op))

(* The last event about v tells what is desired. *)
LastTells(v) ==
    \E i \in EventsOf(v) : /\ \A k \in EventsOf(v) : k <= i
                           /\ vms[v].desired = DesiredAfter(events[i].type)

(* Of a VM whose writes did not overlap: one event at most is still to     *)
(* come, and it, or else the last one, tells what is desired.              *)
DesiredRight ==
    \A v \in VMIDs : HasVM(v) /\ v \notin tangled =>
        /\ \A q, r \in Requests : Pending(q, v) /\ Pending(r, v) => q = r
        /\ \A r \in Requests : Pending(r, v) =>
            vms[v].desired = DesiredAfter(EventType(sent[r].op))
        /\ EventPending(v) \/ LastTells(v)

HistoryInv == /\ KeyInv
              /\ CreatorsRight
              /\ EventsRight
              /\ PendingRight
              /\ SentRight
              /\ ReturnedRight
              /\ CountsRight
              /\ CreatedFirst
              /\ DesiredRight

-----------------------------------------------------------------------------

(***************************************************************************)
(* What a step does to VMs, events and service calls.                      *)
(***************************************************************************)

(* Nothing is written, and no write is done. *)
Quiet(r) ==
    /\ vms' = vms /\ events' = events /\ tangled' = tangled
    /\ \/ call'[r] = call[r]
       \/ call[r].pc = "idle" /\ call'[r].pc = "store"
       \/ /\ call[r].pc = "store" /\ call'[r].pc = "returned"
          /\ sent[r].op # "CreateVM"
          /\ sent[r].op \in Writing => call'[r].err # "none"
          /\ sent[r].op \in VMOps /\ call'[r].err = "not_found" => ~ HasVM(sent[r].target)

(* r goes from its look into the store to its event about v. *)
Writes(r, v) ==
    /\ call[r].pc = "store" /\ call'[r].pc = "emit" /\ call'[r].id = v
    /\ events' = events

Makes(r, v) ==
    /\ Writes(r, v) /\ sent[r].op = "CreateVM" /\ v \in FreshIDs /\ ~ HasVM(v)
    /\ vms' = [vms EXCEPT ![v] = NewVM(sent[r].body)]
    /\ tangled' = tangled

Sets(r, v) ==
    /\ Writes(r, v) /\ sent[r].op \in {"StopVM", "DeleteVM"} /\ sent[r].target = v /\ HasVM(v)
    /\ vms' = [vms EXCEPT ![v] = [vms[v] EXCEPT !.desired = DesiredBy(sent[r].op)]]
    /\ tangled' = IF EventPending(v) THEN tangled \cup {v} ELSE tangled

Emits(r, v) ==
    /\ call[r].pc = "emit" /\ call[r].id = v /\ sent[r].op \in Writing
    /\ call'[r].pc = "returned" /\ call'[r].id = v /\ call'[r].err = "none"
    /\ events' = Append(events, [vm |-> v, type |-> LoggedAs[sent[r].op]])
    /\ vms' = vms /\ tangled' = tangled

StoreStep(r) ==
    /\ OthersStay(r) /\ sent' = sent
    /\ Quiet(r) \/ \E v \in VMIDs : Makes(r, v) \/ Sets(r, v) \/ Emits(r, v)

(* How operations, events and desired states correspond. *)
LEMMA Kinds ==
    /\ Writing = {"CreateVM", "StopVM", "DeleteVM"} /\ DOMAIN LoggedAs = Writing
    /\ \A op \in Writing : EventType(op) = LoggedAs[op] /\ LoggedAs[op] \in EventTypes
    /\ \A op \in Writing : LoggedAs[op] = "vm.created" <=> op = "CreateVM"
    /\ \A o, p \in Writing : LoggedAs[o] = LoggedAs[p] => o = p
    /\ DesiredAfter(EventType("CreateVM")) = "running"
    /\ \A op \in {"StopVM", "DeleteVM"} : DesiredAfter(EventType(op)) = DesiredBy(op)
    /\ {"StopVM", "DeleteVM"} \subseteq VMOps /\ "CreateVM" \notin VMOps
  BY DEF Writing, LoggedAs, EventType, EventTypes, DesiredAfter, DesiredBy, VMOps

(* The log is a sequence of events. *)
LEMMA EventShape ==
    ASSUME HttpInv
    PROVE  /\ events \in Seq(Event) /\ Len(events) \in Nat /\ DOMAIN events = 1 .. Len(events)
           /\ \A i \in DOMAIN events : events[i].vm \in VMIDs
<1>1. events \in Seq(Event)
  BY DEF HttpInv, TypeOK, STypeOK, StoreTypeOK
<1>2. Len(events) \in Nat /\ DOMAIN events = 1 .. Len(events)
  BY <1>1, LenProperties
<1>3. \A i \in DOMAIN events : events[i] \in Event
  BY <1>1, <1>2, ElementOfSeq
<1> QED
  BY <1>1, <1>2, <1>3 DEF Event

(* An event about v is appended. *)
LEMMA Appended ==
    ASSUME HttpInv, NEW v \in VMIDs, NEW type \in EventTypes,
           events' = Append(events, [vm |-> v, type |-> type])
    PROVE  LET n == Len(events) + 1 IN
           /\ n \in Nat /\ n \notin DOMAIN events
           /\ DOMAIN events' = DOMAIN events \cup {n}
           /\ \A i \in DOMAIN events : i < n /\ i \in Nat
           /\ \A i \in DOMAIN events : events'[i] = events[i]
           /\ events'[n].vm = v /\ events'[n].type = type
           /\ EventsOf(v)' = EventsOf(v) \cup {n}
           /\ \A u \in VMIDs \ {v} : EventsOf(u)' = EventsOf(u)
<1> DEFINE n == Len(events) + 1
           e == [vm |-> v, type |-> type]
<1>1. e \in Event /\ e.vm = v /\ e.type = type
  BY DEF Event
<1>2. events \in Seq(Event) /\ Len(events) \in Nat /\ DOMAIN events = 1 .. Len(events)
  BY EventShape
<1> HIDE DEF e
<1>3. events' = Append(events, e)
  BY DEF e
<1>4. /\ events' \in Seq(Event) /\ Len(events') = n
      /\ \A i \in 1 .. Len(events) : events'[i] = events[i]
      /\ events'[n] = e
  BY <1>1, <1>2, <1>3, AppendProperties
<1>5. DOMAIN events' = 1 .. n
  BY <1>4, LenProperties
<1>6. /\ n \in Nat /\ n \notin DOMAIN events
      /\ DOMAIN events' = DOMAIN events \cup {n}
      /\ \A i \in DOMAIN events : i < n /\ i \in Nat
  BY <1>2, <1>5
<1> HIDE DEF n
<1>7. \A i \in DOMAIN events : events'[i] = events[i]
  BY <1>2, <1>4
<1>8. EventsOf(v)' = EventsOf(v) \cup {n} /\ \A u \in VMIDs \ {v} : EventsOf(u)' = EventsOf(u)
  BY <1>1, <1>4, <1>6, <1>7 DEF EventsOf
<1> QED
  BY <1>1, <1>4, <1>6, <1>7, <1>8 DEF n

(* Each step of a goroutine is one of these. *)
LEMMA StepIsStoreStep ==
    ASSUME HttpInv, NEW r \in Requests, Step(r)
    PROVE  StoreStep(r)
<1> USE DEF HttpInv
<1>1. OthersStay(r) /\ sent' = sent
  BY StepWired, StepIsMiddlewareStep DEF MiddlewareStep
<1>2. call \in [Requests -> Call]
  BY DEF TypeOK, STypeOK
<1>3. CASE PassThrough(r) \/ LookUpMiss(r) \/ Evict(r)
  <2>1. at[r] \in {"received", "evicting"} /\ Serve(r)
    BY <1>3 DEF PassThrough, LookUpMiss, LookUp, Evict
  <2>2. call[r].pc = "idle"
    BY <2>1 DEF Wired, RequestRight, PlaceRight
  <2>3. UNCHANGED <<vms, events, tangled>>
    BY <2>1 DEF Serve
  <2>4. call'[r] = call[r] \/ call'[r].pc = "store"
    BY <1>2, <2>1 DEF Serve, Invoke
  <2> QED
    BY <1>1, <2>2, <2>3, <2>4 DEF StoreStep, Quiet
<1>4. CASE BodyUnreadable(r) \/ LookUpExpired(r) \/ LookUpReused(r) \/ LookUpReplay(r) \/ Finish(r)
           \/ StoreEntry(r)
  BY <1>1, <1>4 DEF BodyUnreadable, LookUpExpired, LookUpReused, LookUpReplay, Answer, Finish, StoreEntry,
                    StoreStep, Quiet
<1>5. ASSUME at[r] = "serving", CreateVMStore(r)
      PROVE  StoreStep(r)
  <2>1. PICK v \in FreshIDs :
          /\ ~ HasVM(v) /\ vms' = [vms EXCEPT ![v] = NewVM(call[r].req.body)]
          /\ call' = [call EXCEPT ![r] = [call[r] EXCEPT !.pc = "emit", !.id = v]]
    BY <1>5 DEF CreateVMStore, CreateVM
  <2>2. call[r].pc = "store" /\ call[r].req.op = "CreateVM" /\ events' = events /\ tangled' = tangled
    BY <1>5 DEF CreateVMStore, CreateVM, Asks
  <2>3. call[r].req = sent[r] /\ v \in VMIDs /\ call[r] \in Call
    BY <1>2, <1>5, Serving, FreshAssumption
  <2>4. call'[r].pc = "emit" /\ call'[r].id = v
    BY <1>2, <2>1, <2>3 DEF Call
  <2>5. Makes(r, v)
    BY <2>1, <2>2, <2>3, <2>4 DEF Makes, Writes
  <2> QED
    BY <1>1, <2>3, <2>5 DEF StoreStep
<1>6. ASSUME at[r] = "serving", SetDesired(r)
      PROVE  StoreStep(r)
  <2> DEFINE v == call[r].id
  <2>1. /\ HasVM(v) /\ vms' = [vms EXCEPT ![v] = [vms[v] EXCEPT !.desired = DesiredBy(call[r].req.op)]]
        /\ call' = [call EXCEPT ![r] = [call[r] EXCEPT !.pc = "emit"]]
        /\ events' = events
        /\ tangled' = IF EventPending(v) THEN tangled \cup {v} ELSE tangled
        /\ call[r].pc = "store" /\ call[r].req.op \in {"StopVM", "DeleteVM"}
    BY <1>6 DEF SetDesired, UpdateVMDesiredState, Asks
  <2>2. call[r].req = sent[r] /\ v = sent[r].target /\ v \in VMIDs /\ call[r] \in Call
    BY <1>2, <1>6, <2>1, Serving, Kinds
  <2>3. call'[r].pc = "emit" /\ call'[r].id = v
    BY <1>2, <2>1, <2>2 DEF Call
  <2>4. Sets(r, v)
    BY <2>1, <2>2, <2>3 DEF Sets, Writes
  <2> QED
    BY <1>1, <2>2, <2>4 DEF StoreStep
<1>7. ASSUME at[r] = "serving", Emit(r)
      PROVE  StoreStep(r)
  <2> DEFINE v == call[r].id
  <2>1. /\ call[r].pc = "emit"
        /\ events' = Append(events, [vm |-> v, type |-> EventType(call[r].req.op)])
        /\ call' = [call EXCEPT ![r] = [call[r] EXCEPT !.pc = "returned", !.err = "none"]]
        /\ vms' = vms /\ tangled' = tangled
    BY <1>7 DEF Emit, AppendEvent, Return
  <2>2. call[r].req = sent[r] /\ v \in VMIDs /\ call[r] \in Call /\ sent[r].op \in Writing
    BY <1>2, <1>7, <2>1, Serving
  <2>3. call'[r].pc = "returned" /\ call'[r].id = v /\ call'[r].err = "none"
    BY <1>2, <2>1, <2>2 DEF Call
  <2>4. Emits(r, v)
    BY <2>1, <2>2, <2>3, Kinds DEF Emits
  <2> QED
    BY <1>1, <2>2, <2>4 DEF StoreStep
<1>8. ASSUME at[r] = "serving",
             NotFound(r) \/ GetVM(r) \/ Register(r) \/ AlreadyRegistered(r) \/ Heartbeat(r)
      PROVE  StoreStep(r)
  <2>1. call[r].pc = "store" /\ call[r].req = sent[r] /\ call[r] \in Call
    BY <1>8, Serving DEF NotFound, GetVM, Register, AlreadyRegistered, Heartbeat, Asks
  <2>2. UNCHANGED <<vms, events, tangled>>
    BY <1>8 DEF NotFound, GetVM, Register, AlreadyRegistered, Heartbeat, RegisterController,
                UpdateControllerHeartbeat
  <2>3. ASSUME NEW err, Return(r, err)
        PROVE  call'[r].pc = "returned" /\ call'[r].err = err
    BY <1>2, <2>1, <2>3 DEF Return, Call
  <2>4. CASE NotFound(r)
    BY <1>1, <2>1, <2>2, <2>3, <2>4
       DEF NotFound, Asks, VMOps, Writing, StoreStep, Quiet
  <2>5. CASE GetVM(r) \/ Register(r) \/ AlreadyRegistered(r) \/ Heartbeat(r)
    <3>1. sent[r].op \notin Writing
      BY <2>1, <2>5 DEF GetVM, Register, AlreadyRegistered, Heartbeat, Asks, Writing
    <3>2. call'[r].pc = "returned" /\ call'[r].err # "not_found"
      BY <2>3, <2>5 DEF GetVM, Register, AlreadyRegistered, Heartbeat
    <3> QED
      BY <1>1, <2>1, <2>2, <3>1, <3>2, Kinds DEF StoreStep, Quiet
  <2> QED
    BY <1>8, <2>4, <2>5
<1> QED
  BY <1>3, <1>4, <1>5, <1>6, <1>7, <1>8 DEF Step, InService, ServiceStep

-----------------------------------------------------------------------------

(***************************************************************************)
(* HistoryInv is inductive.                                                *)
(***************************************************************************)

(* A step that writes neither a VM nor an event, and neither begins nor    *)
(* ends a write.                                                           *)
LEMMA SameHistory ==
    ASSUME HistoryInv, vms' = vms, events' = events, tangled' = tangled,
           \A q \in Requests, v \in VMIDs :
                /\ Creates(q, v)' <=> Creates(q, v)
                /\ Pending(q, v)' <=> Pending(q, v)
                /\ Creates(q, v) \/ Pending(q, v) => sent'[q] = sent[q],
           \A v \in VMIDs, op \in Writing : Writers(v, op)' = Writers(v, op)
    PROVE  CreatorsRight' /\ EventsRight' /\ PendingRight' /\ CountsRight' /\ CreatedFirst' /\ DesiredRight'
<1> USE DEF HistoryInv
<1>1. CreatorsRight'
  BY DEF CreatorsRight, HasVM
<1>2. EventsRight'
  BY DEF EventsRight, HasVM
<1>3. PendingRight'
  BY DEF PendingRight, HasVM, EventsOf
<1>4. CountsRight'
  <2>1. \A v \in VMIDs, op \in Writing : Logs(v, op)' = Logs(v, op)
    BY DEF Logs, EventsOf
  <2> QED
    BY <2>1 DEF CountsRight
<1>5. CreatedFirst'
  BY DEF CreatedFirst, EventsOf
<1>6. DesiredRight'
  <2> SUFFICES ASSUME NEW v \in VMIDs, HasVM(v), v \notin tangled
               PROVE  /\ \A q, r \in Requests : Pending(q, v)' /\ Pending(r, v)' => q = r
                      /\ \A r \in Requests : Pending(r, v)' =>
                            vms[v].desired = DesiredAfter(EventType(sent'[r].op))
                      /\ EventPending(v)' \/ LastTells(v)'
    BY DEF DesiredRight, HasVM
  <2>1. LastTells(v)' <=> LastTells(v)
    BY DEF LastTells, EventsOf
  <2>2. EventPending(v)' <=> EventPending(v)
    BY DEF EventPending, Pending
  <2> QED
    BY <2>1, <2>2 DEF DesiredRight
<1> QED
  BY <1>1, <1>2, <1>3, <1>4, <1>5, <1>6

(* What the others have written stays. *)
LEMMA OthersWrote ==
    ASSUME NEW r \in Requests, OthersStay(r)
    PROVE  \A q \in Requests \ {r} :
            /\ \A v : Creates(q, v)' <=> Creates(q, v)
            /\ \A v : Pending(q, v)' <=> Pending(q, v)
            /\ \A v, op : q \in Writers(v, op)' <=> q \in Writers(v, op)
  BY DEF OthersStay, Creates, Pending, Writers

LEMMA QuietHistory ==
    ASSUME HistoryInv, KeyInv', NEW r \in Requests, OthersStay(r), sent' = sent, Quiet(r)
    PROVE  HistoryInv'
<1> USE DEF HistoryInv
<1>1. vms' = vms /\ events' = events /\ tangled' = tangled
  BY DEF Quiet
<1>2. \A v : (Creates(r, v)' <=> Creates(r, v)) /\ (Pending(r, v)' <=> Pending(r, v))
  BY DEF Quiet, Creates, Pending
<1>3. call[r].pc # "idle" => call[r].req = sent[r]
  BY DEF KeyInv, HttpInv, Wired, RequestRight, CallRight
<1>4. call'[r].pc # "idle" => call'[r].req = sent[r]
  BY DEF KeyInv, HttpInv, Wired, RequestRight, CallRight
<1>5. \A v \in VMIDs, op \in Writing : r \in Writers(v, op)' <=> r \in Writers(v, op)
  BY <1>3, <1>4 DEF Quiet, Writers
<1>6. \A v \in VMIDs, op \in Writing : Writers(v, op)' = Writers(v, op)
  BY <1>5, OthersWrote DEF Writers
<1>7. CreatorsRight' /\ EventsRight' /\ PendingRight' /\ CountsRight' /\ CreatedFirst' /\ DesiredRight'
  BY <1>1, <1>2, <1>6, OthersWrote, SameHistory
<1>8. SentRight'
  BY <1>1 DEF SentRight, Logged
<1>9. ReturnedRight'
  <2>1. ASSUME NEW q \in Requests \ {r}, call'[q].pc = "returned"
        PROVE  /\ sent[q].op \in Writing /\ call'[q].err = "none" => Logged(call'[q].id, LoggedAs[sent[q].op])
               /\ sent[q].op \in VMOps /\ call'[q].err = "not_found" => sent[q].target \notin FreshIDs
    BY <2>1 DEF ReturnedRight, ReturnTrue, OthersStay
  <2>2. ASSUME call'[r].pc = "returned"
        PROVE  /\ sent[r].op \in Writing /\ call'[r].err = "none" => Logged(call'[r].id, LoggedAs[sent[r].op])
               /\ sent[r].op \in VMOps /\ call'[r].err = "not_found" => sent[r].target \notin FreshIDs
    <3>1. CASE call'[r] = call[r]
      BY <2>2, <3>1 DEF ReturnedRight, ReturnTrue
    <3>2. CASE call'[r] # call[r]
      <4>1. /\ sent[r].op \in Writing => call'[r].err # "none"
            /\ sent[r].op \in VMOps /\ call'[r].err = "not_found" => ~ HasVM(sent[r].target)
            /\ call[r].pc = "store"
        BY <2>2, <3>2 DEF Quiet
      <4>2. sent[r] # NoRequest
        BY <4>1 DEF KeyInv, HttpInv, Wired, RequestRight, PlaceRight
      <4>3. sent[r].op \in VMOps /\ sent[r].target \in FreshIDs => HasVM(sent[r].target)
        BY <4>2 DEF SentRight, Logged, EventsRight
      <4> QED
        BY <4>1, <4>3
    <3> QED
      BY <3>1, <3>2
  <2> QED
    BY <1>1, <2>1, <2>2 DEF ReturnedRight, ReturnTrue, Logged
<1> QED
  BY <1>7, <1>8, <1>9

(* A write to v, after which its event is still to come. *)
LEMMA WriteHistory ==
    ASSUME HistoryInv, KeyInv', NEW r \in Requests, OthersStay(r), sent' = sent,
           NEW v \in VMIDs, Makes(r, v) \/ Sets(r, v)
    PROVE  HistoryInv'
<1> USE DEF HistoryInv
<1>1. /\ call[r].pc = "store" /\ call'[r].pc = "emit" /\ call'[r].id = v /\ events' = events
      /\ sent[r].op = "CreateVM" <=> Makes(r, v)
  BY DEF Makes, Sets, Writes
<1>2. /\ vms \in [VMIDs -> VM \cup {Absent}] /\ vms' \in [VMIDs -> VM \cup {Absent}]
      /\ \A u \in VMIDs \ {v} : vms'[u] = vms[u]
  BY DEF Makes, Sets, KeyInv, HttpInv, TypeOK, STypeOK, StoreTypeOK
<1>3. /\ v \in FreshIDs /\ vms'[v] \in VM
      /\ vms'[v].desired = DesiredAfter(EventType(sent[r].op))
      /\ Makes(r, v) => vms'[v].spec = sent[r].body
      /\ Sets(r, v) => HasVM(v) /\ vms'[v].spec = vms[v].spec
  <2>1. CASE Makes(r, v)
    <3>1. sent[r].body \in Bodies
      BY <1>1, <2>1, Serving DEF KeyInv, HttpInv, Wired, RequestRight, PlaceRight, Decoding
    <3>2. NewVM(sent[r].body) \in VM
      BY <3>1 DEF NewVM, VM, DesiredStates, ObservedStates
    <3>3. vms'[v] = NewVM(sent[r].body)
      BY <1>2, <2>1 DEF Makes
    <3>4. v \in FreshIDs /\ ~ HasVM(v) /\ sent[r].op = "CreateVM" /\ ~ Sets(r, v)
      BY <2>1 DEF Makes, Sets
    <3> QED
      BY <3>2, <3>3, <3>4, Kinds DEF NewVM
  <2>2. CASE Sets(r, v)
    <3>1. /\ HasVM(v) /\ vms'[v] = [vms[v] EXCEPT !.desired = DesiredBy(sent[r].op)]
          /\ sent[r].op \in {"StopVM", "DeleteVM"} /\ ~ Makes(r, v)
      BY <1>2, <2>2 DEF Makes, Sets
    <3>2. vms[v] \in VM /\ v \in FreshIDs
      BY <1>2, <3>1 DEF HasVM, CreatorsRight
    <3>3. DesiredBy(sent[r].op) \in DesiredStates
      BY DEF DesiredBy, DesiredStates
    <3> QED
      BY <3>1, <3>2, <3>3, Kinds DEF VM
  <2> QED
    BY <2>1, <2>2
<1>4. HasVM(v)' /\ \A u \in VMIDs : HasVM(u)' <=> HasVM(u) \/ u = v
  BY <1>2, <1>3, AbsentAssumption DEF HasVM
<1>5. /\ \A u : Pending(r, u)' <=> u = v
      /\ \A u : ~ Pending(r, u) /\ ~ Creates(r, u)
      /\ \A u : Creates(r, u)' <=> u = v /\ Makes(r, v)
  BY <1>1 DEF Pending, Creates
<1>6. CreatorsRight'
  <2>1. \A u \in VMIDs : HasVM(u)' => u \in FreshIDs
    BY <1>3, <1>4 DEF CreatorsRight
  <2>2. ASSUME NEW q \in Requests, NEW u \in VMIDs, Creates(q, u)'
        PROVE  HasVM(u)' /\ vms'[u].spec = sent[q].body
    <3>1. CASE q = r
      BY <1>3, <1>4, <1>5, <2>2, <3>1
    <3>2. CASE q # r
      <4>1. Creates(q, u) /\ HasVM(u) /\ vms[u].spec = sent[q].body
        BY <2>2, <3>2, OthersWrote DEF CreatorsRight
      <4>2. u = v => Sets(r, v)
        BY <4>1 DEF Makes
      <4> QED
        BY <1>2, <1>3, <1>4, <4>1, <4>2
    <3> QED
      BY <3>1, <3>2
  <2>3. ASSUME NEW p \in Requests, NEW q \in Requests, NEW u \in VMIDs, Creates(p, u)', Creates(q, u)'
        PROVE  p = q
    <3>1. \A s \in Requests \ {r} : Creates(s, u)' => Creates(s, u) /\ HasVM(u)
      BY OthersWrote DEF CreatorsRight
    <3>2. Creates(r, u)' => ~ HasVM(u)
      BY <1>5 DEF Makes
    <3> QED
      BY <2>3, <3>1, <3>2 DEF CreatorsRight
  <2> QED
    BY <2>1, <2>2, <2>3 DEF CreatorsRight
<1>7. EventsRight'
  BY <1>1, <1>4, EventShape DEF EventsRight, KeyInv
<1>8. Makes(r, v) => EventsOf(v) = {}
  BY DEF Makes, EventsRight, EventsOf
<1>9. PendingRight'
  <2> SUFFICES ASSUME NEW q \in Requests, NEW u \in VMIDs, Pending(q, u)'
               PROVE  HasVM(u)' /\ (sent[q].op = "CreateVM" => EventsOf(u) = {})
    BY <1>1 DEF PendingRight, EventsOf
  <2>1. CASE q = r
    BY <1>1, <1>4, <1>5, <1>8, <2>1
  <2>2. CASE q # r
    BY <1>4, <2>2, OthersWrote DEF PendingRight
  <2> QED
    BY <2>1, <2>2
<1>10. SentRight'
  BY <1>1 DEF SentRight, Logged
<1>11. ReturnedRight'
  BY <1>1 DEF ReturnedRight, ReturnTrue, Logged, OthersStay
<1>12. CountsRight'
  <2>1. \A u \in VMIDs, op \in Writing : r \notin Writers(u, op)' /\ r \notin Writers(u, op)
    BY <1>1 DEF Writers
  <2>2. ASSUME NEW u \in VMIDs, NEW op \in Writing
        PROVE  Writers(u, op)' = Writers(u, op) /\ Logs(u, op)' = Logs(u, op)
    <3>1. \A q \in Requests : q \in Writers(u, op)' <=> q \in Writers(u, op)
      BY <2>1, OthersWrote
    <3>2. Writers(u, op) \subseteq Requests /\ Writers(u, op)' \subseteq Requests
      BY DEF Writers
    <3>3. Writers(u, op)' = Writers(u, op)
      BY <3>1, <3>2, Zenon
    <3>4. Logs(u, op)' = Logs(u, op)
      BY <1>1 DEF Logs, EventsOf
    <3> QED
      BY <3>3, <3>4
  <2> QED
    BY <2>2 DEF CountsRight
<1>13. CreatedFirst'
  BY <1>1 DEF CreatedFirst, EventsOf
<1>14. DesiredRight'
  <2> SUFFICES ASSUME NEW u \in VMIDs, HasVM(u)', u \notin tangled'
               PROVE  /\ \A p, q \in Requests : Pending(p, u)' /\ Pending(q, u)' => p = q
                      /\ \A q \in Requests : Pending(q, u)' =>
                            vms'[u].desired = DesiredAfter(EventType(sent[q].op))
                      /\ EventPending(u)' \/ LastTells(u)'
    BY DEF DesiredRight
  <2>1. CASE u = v
    <3>1. \A q \in Requests : ~ Pending(q, v)
      <4>1. CASE Makes(r, v)
        BY <4>1 DEF Makes, PendingRight
      <4>2. CASE Sets(r, v)
        BY <2>1, <4>2 DEF Sets, EventPending, Pending
      <4> QED
        BY <4>1, <4>2
    <3>2. \A q \in Requests : Pending(q, v)' <=> q = r
      BY <1>5, <3>1, OthersWrote
    <3>3. EventPending(v)'
      BY <3>2 DEF EventPending, Pending
    <3> QED
      BY <1>3, <2>1, <3>2, <3>3
  <2>2. CASE u # v
    <3>1. HasVM(u) /\ u \notin tangled /\ vms'[u] = vms[u]
      BY <1>2, <1>4, <2>2 DEF Makes, Sets
    <3>2. \A q \in Requests : Pending(q, u)' <=> Pending(q, u)
      BY <1>5, <2>2, OthersWrote
    <3>3. EventPending(u)' <=> EventPending(u)
      BY <3>2 DEF EventPending, Pending
    <3>4. LastTells(u)' <=> LastTells(u)
      BY <1>1, <3>1 DEF LastTells, EventsOf
    <3> QED
      BY <3>1, <3>2, <3>3, <3>4 DEF DesiredRight
  <2> QED
    BY <2>1, <2>2
<1> QED
  BY <1>6, <1>7, <1>9, <1>10, <1>11, <1>12, <1>13, <1>14

(* The event of r's write to v is appended. *)
LEMMA EmitHistory ==
    ASSUME HistoryInv, KeyInv', NEW r \in Requests, OthersStay(r), sent' = sent,
           NEW v \in VMIDs, Emits(r, v)
    PROVE  HistoryInv'
<1> USE DEF HistoryInv
<1> DEFINE n == Len(events) + 1
           op == sent[r].op
           type == LoggedAs[op]
<1>1. /\ call[r].pc = "emit" /\ call[r].id = v /\ op \in Writing
      /\ call'[r].pc = "returned" /\ call'[r].id = v /\ call'[r].err = "none"
      /\ events' = Append(events, [vm |-> v, type |-> type])
      /\ vms' = vms /\ tangled' = tangled
  BY DEF Emits
<1>2. type \in EventTypes /\ (type = "vm.created" <=> op = "CreateVM")
  BY <1>1, Kinds
<1>3. /\ n \in Nat /\ n \notin DOMAIN events
      /\ DOMAIN events' = DOMAIN events \cup {n}
      /\ \A i \in DOMAIN events : i < n /\ i \in Nat
      /\ \A i \in DOMAIN events : events'[i] = events[i]
      /\ events'[n].vm = v /\ events'[n].type = type
      /\ EventsOf(v)' = EventsOf(v) \cup {n}
      /\ \A u \in VMIDs \ {v} : EventsOf(u)' = EventsOf(u)
  BY <1>1, <1>2, Appended DEF KeyInv
<1>4. /\ HasVM(v) /\ (op = "CreateVM" => EventsOf(v) = {})
      /\ Pending(r, v)
  BY <1>1 DEF Pending, PendingRight
<1>5. op # "CreateVM" => Logged(v, "vm.created")
  <2>1. op # "CreateVM" => op \in VMOps
    BY <1>1, Kinds
  <2>2. op \in VMOps => sent[r].target = v /\ sent[r] # NoRequest
    BY <1>1 DEF KeyInv, HttpInv, Wired, RequestRight, PlaceRight, CallRight
  <2>3. v \in FreshIDs
    BY <1>4 DEF CreatorsRight
  <2> QED
    BY <2>1, <2>2, <2>3 DEF SentRight
<1>6. \A u \in VMIDs : \A t : Logged(u, t) => Logged(u, t)'
  BY <1>3 DEF Logged
<1>7. Logged(v, type)'
  BY <1>3 DEF Logged
<1> HIDE DEF n, op, type
<1>8. /\ \A u : ~ Pending(r, u)'
      /\ \A u : Creates(r, u)' <=> Creates(r, u)
  BY <1>1 DEF Pending, Creates
<1>9. CreatorsRight'
  BY <1>1, <1>8, OthersWrote DEF CreatorsRight, HasVM
<1>10. EventsRight'
  <2> SUFFICES ASSUME NEW i \in DOMAIN events'
               PROVE  /\ HasVM(events'[i].vm)
                      /\ \E j \in DOMAIN events' : j <= i /\ events'[j].vm = events'[i].vm
                                                   /\ events'[j].type = "vm.created"
    BY <1>1 DEF EventsRight, HasVM
  <2>1. CASE i \in DOMAIN events
    BY <1>3, <2>1 DEF EventsRight
  <2>2. CASE i = n /\ op = "CreateVM"
    BY <1>2, <1>3, <1>4, <2>2
  <2>3. CASE i = n /\ op # "CreateVM"
    <3>1. PICK j \in DOMAIN events : events[j].vm = v /\ events[j].type = "vm.created"
      BY <1>5, <2>3 DEF Logged
    <3>2. j <= i /\ j \in DOMAIN events'
      BY <1>3, <2>3
    <3> QED
      BY <1>3, <1>4, <2>3, <3>1, <3>2
  <2> QED
    BY <1>3, <2>1, <2>2, <2>3
<1>11. PendingRight'
  <2> SUFFICES ASSUME NEW q \in Requests, NEW u \in VMIDs, Pending(q, u)'
               PROVE  HasVM(u) /\ (sent[q].op = "CreateVM" => EventsOf(u)' = {})
    BY <1>1 DEF PendingRight, HasVM
  <2>1. q # r /\ Pending(q, u)
    BY <1>8, OthersWrote
  <2>2. HasVM(u) /\ (sent[q].op = "CreateVM" => EventsOf(u) = {})
    BY <2>1 DEF PendingRight
  <2>3. sent[q].op = "CreateVM" => u # v
    <3> SUFFICES ASSUME sent[q].op = "CreateVM", u = v PROVE FALSE
      OBVIOUS
    <3>1. Creates(q, v)
      BY <2>1 DEF Pending, Creates
    <3>2. CASE op = "CreateVM"
      <4>1. Creates(r, v)
        BY <1>1, <3>2 DEF Creates, op
      <4> QED
        BY <2>1, <3>1, <4>1 DEF CreatorsRight
    <3>3. CASE op # "CreateVM"
      BY <1>5, <2>2, <3>3 DEF Logged, EventsOf
    <3> QED
      BY <3>2, <3>3
  <2> QED
    BY <1>3, <2>2, <2>3
<1>12. SentRight'
  BY <1>6, FreshAssumption DEF SentRight
<1>13. ReturnedRight'
  <2>1. ReturnTrue(r)'
    BY <1>1, <1>7 DEF ReturnTrue, op, type
  <2>2. ASSUME NEW q \in Requests \ {r}
        PROVE  ReturnTrue(q)'
    <3>1. call'[q] = call[q] /\ ReturnTrue(q)
      BY DEF OthersStay, ReturnedRight
    <3> QED
      BY <1>3, <3>1 DEF ReturnTrue, Logged
  <2> QED
    BY <2>1, <2>2 DEF ReturnedRight
<1>14. CountsRight'
  <2> SUFFICES ASSUME NEW u \in VMIDs, NEW o \in Writing
               PROVE  /\ IsFiniteSet(Logs(u, o)') /\ IsFiniteSet(Writers(u, o)')
                      /\ Cardinality(Logs(u, o)') = Cardinality(Writers(u, o)')
    BY DEF CountsRight
  <2>1. /\ IsFiniteSet(Logs(u, o)) /\ IsFiniteSet(Writers(u, o))
        /\ Cardinality(Logs(u, o)) = Cardinality(Writers(u, o))
    BY DEF CountsRight
  <2>2. call'[r].req.op = op /\ r \notin Writers(u, o) /\ n \notin Logs(u, o)
    BY <1>1, <1>3 DEF KeyInv, HttpInv, Wired, RequestRight, CallRight, Writers, Logs, EventsOf, op
  <2>3. CASE u = v /\ o = op
    <3>1. Logs(u, o)' = Logs(u, o) \cup {n}
      BY <1>3, <2>3 DEF Logs, EventsOf, type
    <3>2. r \in Writers(u, o)'
      BY <1>1, <2>2, <2>3 DEF Writers
    <3>3. Writers(u, o)' = Writers(u, o) \cup {r}
      BY <3>2, OthersWrote DEF Writers
    <3>4. IsFiniteSet(Logs(u, o) \cup {n}) /\ Cardinality(Logs(u, o) \cup {n}) = Cardinality(Logs(u, o)) + 1
      BY <2>1, <2>2, FS_AddElement
    <3>5. /\ IsFiniteSet(Writers(u, o) \cup {r})
          /\ Cardinality(Writers(u, o) \cup {r}) = Cardinality(Writers(u, o)) + 1
      BY <2>1, <2>2, FS_AddElement
    <3> QED
      BY <2>1, <3>1, <3>3, <3>4, <3>5
  <2>4. CASE ~ (u = v /\ o = op)
    <3>1. Logs(u, o)' = Logs(u, o)
      <4>1. CASE u = v
        <5>1. LoggedAs[o] # type
          BY <1>1, <2>4, <4>1, Kinds DEF type
        <5> QED
          BY <1>3, <4>1, <5>1 DEF Logs, EventsOf
      <4>2. CASE u # v
        BY <1>3, <4>2 DEF Logs, EventsOf
      <4> QED
        BY <4>1, <4>2
    <3>2. r \notin Writers(u, o)'
      BY <1>1, <2>2, <2>4 DEF Writers
    <3>3. Writers(u, o)' = Writers(u, o)
      BY <2>2, <3>2, OthersWrote DEF Writers
    <3> QED
      BY <2>1, <3>1, <3>3
  <2> QED
    BY <2>3, <2>4
<1>15. CreatedFirst'
  <2> SUFFICES ASSUME NEW u \in VMIDs, NEW i \in EventsOf(u)'
               PROVE  events'[i].type = "vm.created" <=> \A k \in EventsOf(u)' : i <= k
    BY DEF CreatedFirst
  <2>1. CASE u # v
    <3>1. EventsOf(u)' = EventsOf(u) /\ events'[i] = events[i]
      BY <1>3, <2>1 DEF EventsOf
    <3> QED
      BY <3>1 DEF CreatedFirst
  <2>2. CASE u = v /\ i # n
    <3>1. i \in EventsOf(v) /\ i \in DOMAIN events /\ events'[i] = events[i]
      BY <1>3, <2>2 DEF EventsOf
    <3>2. i <= n
      BY <1>3, <3>1
    <3> QED
      BY <1>3, <2>2, <3>1, <3>2 DEF CreatedFirst
  <2>3. CASE u = v /\ i = n /\ op = "CreateVM"
    BY <1>2, <1>3, <1>4, <2>3
  <2>4. CASE u = v /\ i = n /\ op # "CreateVM"
    <3>1. PICK j \in EventsOf(v) : j < n
      BY <1>3, <1>5, <2>4 DEF Logged, EventsOf
    <3>2. j \in EventsOf(v)' /\ ~ (n <= j)
      BY <1>3, <3>1 DEF EventsOf
    <3> QED
      BY <1>2, <1>3, <2>4, <3>2
  <2> QED
    BY <2>1, <2>2, <2>3, <2>4
<1>16. DesiredRight'
  <2> SUFFICES ASSUME NEW u \in VMIDs, HasVM(u), u \notin tangled
               PROVE  /\ \A p, q \in Requests : Pending(p, u)' /\ Pending(q, u)' => p = q
                      /\ \A q \in Requests : Pending(q, u)' =>
                            vms[u].desired = DesiredAfter(EventType(sent[q].op))
                      /\ EventPending(u)' \/ LastTells(u)'
    BY <1>1 DEF DesiredRight, HasVM
  <2>1. \A q \in Requests : Pending(q, u)' => Pending(q, u) /\ q # r
    BY <1>8, OthersWrote
  <2>2. CASE u = v
    <3>1. \A q \in Requests : ~ Pending(q, v)'
      BY <1>4, <2>1, <2>2 DEF DesiredRight
    <3>2. vms[v].desired = DesiredAfter(type)
      BY <1>1, <1>4, <2>2, Kinds DEF DesiredRight, op, type
    <3>3. n \in EventsOf(v)' /\ \A k \in EventsOf(v)' : k <= n
      BY <1>3 DEF EventsOf
    <3>4. LastTells(v)'
      BY <1>1, <1>3, <3>2, <3>3 DEF LastTells
    <3> QED
      BY <2>2, <3>1, <3>4
  <2>3. CASE u # v
    <3>1. \A q \in Requests : Pending(q, u) => q # r
      BY <1>1, <2>3 DEF Pending
    <3>2. EventPending(u)' <=> EventPending(u)
      BY <2>1, <3>1, OthersWrote DEF EventPending, Pending
    <3>3. LastTells(u) => LastTells(u)'
      <4>1. EventsOf(u)' = EventsOf(u) /\ \A i \in EventsOf(u) : events'[i] = events[i]
        BY <1>3, <2>3 DEF EventsOf
      <4> QED
        BY <1>1, <4>1 DEF LastTells
    <3> QED
      BY <2>1, <3>2, <3>3 DEF DesiredRight
  <2> QED
    BY <2>2, <2>3
<1> QED
  BY <1>9, <1>10, <1>11, <1>12, <1>13, <1>14, <1>15, <1>16

(* What clients know of a VM that newID made comes after the event of its  *)
(* creation.                                                               *)
LEMMA SeenIsLogged ==
    ASSUME HistoryInv, NEW v \in FreshIDs, v \in Seen
    PROVE  Logged(v, "vm.created")
<1> USE DEF HistoryInv
<1>1. v \in VMIDs /\ v # NoID /\ v \notin ControllerIDs
  BY FreshAssumption, NothingAssumption, UnguessedAssumption
<1>2. ASSUME NEW q \in ran, at[q] = "answered", response[q].id = v
      PROVE  Logged(v, "vm.created")
  <2>1. /\ q \in Requests /\ PlaceRight(q) /\ ResponseRight(q) /\ call[q].pc \in {"idle", "returned"}
        /\ sent[q] # NoRequest
    BY <1>2 DEF KeyInv, HttpInv, TypeOK, Wired, RequestRight, PlaceRight
  <2>2. call[q].pc = "returned" /\ response[q] = Outcome(q)
    BY <1>1, <1>2, <2>1 DEF ResponseRight, Failure
  <2>3. /\ call[q].err = "none"
        /\ v = IF sent[q].op = "CreateVM" THEN call[q].id ELSE sent[q].target
    BY <1>1, <1>2, <2>2 DEF Outcome, Failure
  <2>4. CASE sent[q].op = "CreateVM"
    BY <2>1, <2>2, <2>3, <2>4, Kinds DEF ReturnedRight, ReturnTrue
  <2>5. CASE sent[q].op \in VMOps
    BY <2>1, <2>3, <2>5, Kinds DEF SentRight
  <2>6. CASE sent[q].op \in ControllerOps
    <3>1. sent[q].target \in ControllerIDs /\ sent[q].op # "CreateVM"
      BY <1>2, <2>1, <2>6, SentTypes DEF KeyInv, ControllerOps
    <3> QED
      BY <1>1, <2>3, <3>1
  <2>7. sent[q].op \in Ops
    BY <1>2, <2>1, SentTypes DEF KeyInv
  <2> QED
    BY <2>4, <2>5, <2>6, <2>7 DEF Ops
<1>3. ASSUME NEW r \in Requests, at[r] = "answered", response[r].id = v
      PROVE  Logged(v, "vm.created")
  <2>1. Failure(400, "unreadable").id = NoID /\ Failure(409, "conflict").id = NoID
    BY DEF Failure
  <2> QED
    BY <1>1, <1>2, <1>3, <2>1 DEF KeyInv, AnsweredRight
<1>4. ASSUME NEW i \in DOMAIN events, events[i].vm = v
      PROVE  Logged(v, "vm.created")
  BY <1>4 DEF EventsRight, Logged
<1> QED
  BY <1>3, <1>4 DEF Seen

LEMMA SendHistory ==
    ASSUME HistoryInv, KeyInv', NEW r \in Requests, Send(r)
    PROVE  HistoryInv'
<1> USE DEF HistoryInv
<1>1. PICK x \in Offered : (x.op \in VMOps => x.target \in Seen) /\ sent' = [sent EXCEPT ![r] = x]
  BY DEF Send
<1>2. vms' = vms /\ events' = events /\ tangled' = tangled /\ call' = call /\ at[r] = "unsent"
  BY DEF Send
<1>3. /\ sent'[r] = x /\ call[r].pc = "idle"
      /\ \A q \in Requests \ {r} : sent'[q] = sent[q]
  BY <1>1, <1>2 DEF KeyInv, HttpInv, TypeOK, Wired, RequestRight, PlaceRight
<1>4. \A q \in Requests, v \in VMIDs :
        /\ Creates(q, v)' <=> Creates(q, v)
        /\ Pending(q, v)' <=> Pending(q, v)
        /\ Creates(q, v) \/ Pending(q, v) => sent'[q] = sent[q]
  BY <1>2, <1>3 DEF Creates, Pending
<1>5. \A v \in VMIDs, op \in Writing : Writers(v, op)' = Writers(v, op)
  BY <1>2 DEF Writers
<1>6. CreatorsRight' /\ EventsRight' /\ PendingRight' /\ CountsRight' /\ CreatedFirst' /\ DesiredRight'
  BY <1>2, <1>4, <1>5, SameHistory
<1>7. SentRight'
  BY <1>1, <1>2, <1>3, SeenIsLogged DEF SentRight, Logged
<1>8. ReturnedRight'
  BY <1>2, <1>3 DEF ReturnedRight, ReturnTrue, Logged
<1> QED
  BY <1>6, <1>7, <1>8

(* A step that leaves requests, service and store alone. *)
LEMMA StutterHistory ==
    ASSUME HistoryInv, KeyInv', UNCHANGED <<vms, events, tangled, call, sent>>
    PROVE  HistoryInv'
<1> USE DEF HistoryInv
<1>1. \A q \in Requests, v \in VMIDs :
        (Creates(q, v)' <=> Creates(q, v)) /\ (Pending(q, v)' <=> Pending(q, v))
  BY DEF Creates, Pending
<1>2. \A v \in VMIDs, op \in Writing : Writers(v, op)' = Writers(v, op)
  BY DEF Writers
<1>3. CreatorsRight' /\ EventsRight' /\ PendingRight' /\ CountsRight' /\ CreatedFirst' /\ DesiredRight'
  BY <1>1, <1>2, SameHistory
<1>4. SentRight' /\ ReturnedRight'
  BY DEF SentRight, ReturnedRight, ReturnTrue, Logged
<1> QED
  BY <1>3, <1>4

LEMMA NextHistory ==
    ASSUME HistoryInv, [Next]_hvars
    PROVE  HistoryInv'
<1>1. KeyInv'
  BY SendKeys, StepKeys, ExpireKeys, StutterKeys DEF HistoryInv, Next, Done
<1>2. ASSUME NEW r \in Requests, Step(r)
      PROVE  HistoryInv'
  <2>1. StoreStep(r)
    BY <1>2, StepIsStoreStep DEF HistoryInv, KeyInv
  <2> QED
    BY <1>1, <2>1, QuietHistory, WriteHistory, EmitHistory DEF StoreStep
<1>3. ASSUME NEW k \in Keys, Expire(k)
      PROVE  HistoryInv'
  BY <1>1, <1>3, StutterHistory DEF Expire
<1>4. CASE UNCHANGED hvars
  BY <1>1, <1>4, StutterHistory DEF hvars
<1> QED
  BY <1>1, <1>2, <1>3, <1>4, SendHistory DEF Next, Done

LEMMA InitHistory ==
    ASSUME Init
    PROVE  HistoryInv
<1>1. /\ \A v \in VMIDs : ~ HasVM(v) /\ EventsOf(v) = {}
      /\ DOMAIN events = {}
      /\ \A r \in Requests : sent[r] = NoRequest /\ call[r].pc = "idle"
  BY DEF Init, SInit, StoreInit, HasVM, Idle, EventsOf
<1>2. KeyInv
  BY InitKeys
<1>3. CreatorsRight /\ EventsRight /\ PendingRight
  BY <1>1 DEF CreatorsRight, EventsRight, PendingRight, Creates, Pending
<1>4. SentRight /\ ReturnedRight /\ CreatedFirst /\ DesiredRight
  BY <1>1 DEF SentRight, ReturnedRight, ReturnTrue, CreatedFirst, DesiredRight
<1>5. CountsRight
  <2>1. \A v \in VMIDs, op \in Writing : Logs(v, op) = {} /\ Writers(v, op) = {}
    BY <1>1 DEF Logs, Writers
  <2> QED
    BY <2>1, FS_EmptySet DEF CountsRight
<1> QED
  BY <1>2, <1>3, <1>4, <1>5 DEF HistoryInv

(* The log and the service calls always fit each other and the VMs. *)
THEOREM HistoryInvariance == Spec => []HistoryInv
<1>1. Init => HistoryInv
  BY InitHistory
<1>2. HistoryInv /\ [Next]_hvars => HistoryInv'
  BY NextHistory
<1> QED
  BY <1>1, <1>2, PTL DEF Spec

(* A VM's history begins with vm.created and says so once, although the    *)
(* VM can be read and written before that event is appended.               *)
THEOREM CreationFirst == Spec => []CreatedFirst
<1>1. HistoryInv => CreatedFirst
  BY DEF HistoryInv
<1> QED
  BY <1>1, HistoryInvariance, PTL

(* The log holds exactly one event for each write a caller was told of. *)
THEOREM WritesLogged == Spec => []EveryWriteLogged
<1>1. HistoryInv => EveryWriteLogged
  <2> SUFFICES ASSUME HistoryInv
               PROVE  \A v \in VMIDs, op \in DOMAIN LoggedAs :
                        Cardinality(Logs(v, op)) = Cardinality(Writers(v, op))
    BY Zenon DEF EveryWriteLogged, Logs, Writers
  <2> QED
    BY Kinds DEF HistoryInv, CountsRight
<1> QED
  BY <1>1, HistoryInvariance, PTL

(* The last event tells the desired state of a VM whose writes did not     *)
(* overlap, once it is in.                                                 *)
THEOREM DesiredTold == Spec => []LogTellsDesired
<1>1. HistoryInv => LogTellsDesired
  BY DEF HistoryInv, DesiredRight, LogTellsDesired, LastTells
<1> QED
  BY <1>1, HistoryInvariance, PTL

-----------------------------------------------------------------------------

(* Behind an answer that accepts or does not find is a handler that ran,   *)
(* for this request or for one with its key and body.                      *)
LEMMA Origin ==
    ASSUME HistoryInv, NEW r \in Requests, at[r] = "answered", response[r].status \in {202, 404},
           OnePurpose(r)
    PROVE  \E q \in Requests :
            /\ call[q].pc = "returned" /\ sent[q] # NoRequest
            /\ response[r] = Outcome(q)
            /\ sent[q].op = sent[r].op /\ sent[q].target = sent[r].target
            /\ sent[q].body = sent[r].body
            /\ sent[q].op \in Ops
<1> USE DEF HistoryInv
<1>1. PICK q \in ran : /\ at[q] = "answered" /\ response[q] = response[r]
                       /\ q = r \/ (SameKey(q, r) /\ sent[q].body = sent[r].body)
  <2>1. Failure(400, "unreadable").status = 400 /\ Failure(409, "conflict").status = 409
    BY DEF Failure
  <2> QED
    BY <2>1 DEF KeyInv, AnsweredRight
<1>2. q \in Requests /\ PlaceRight(q) /\ ResponseRight(q)
  BY DEF KeyInv, HttpInv, TypeOK, Wired, RequestRight
<1>3. sent[q].op = sent[r].op /\ sent[q].target = sent[r].target /\ sent[q].body = sent[r].body
  BY <1>1, <1>2 DEF OnePurpose
<1>4. call[q].pc \in {"idle", "returned"} /\ sent[q] # NoRequest
  BY <1>1, <1>2 DEF PlaceRight
<1>5. call[q].pc # "idle"
  BY <1>1, <1>2 DEF ResponseRight, Failure
<1>6. sent[q].op \in Ops
  BY <1>1, <1>2, SentTypes DEF KeyInv
<1> QED
  BY <1>1, <1>2, <1>3, <1>4, <1>5, <1>6 DEF ResponseRight

(* What the status of an outcome says of the service call. *)
LEMMA StatusTells ==
    ASSUME HttpInv, NEW q \in Requests, sent[q].op \in Ops
    PROVE  /\ Outcome(q).status = 202 =>
                /\ call[q].err = "none" /\ sent[q].op \in Writing
                /\ Outcome(q).id = IF sent[q].op = "CreateVM" THEN call[q].id ELSE sent[q].target
           /\ Outcome(q).status = 404 => call[q].err = "not_found"
<1>1. call[q].err \in Errors
  BY DEF HttpInv, TypeOK, STypeOK, Call
<1>2. CASE call[q].err = "none"
  BY <1>2 DEF Outcome, SuccessStatus, Ops, VMOps, ControllerOps, Writing
<1>3. CASE call[q].err # "none"
  <2>1. Outcome(q).status = ErrorStatus(call[q].err)
    BY <1>3 DEF Outcome, Failure
  <2> QED
    BY <1>1, <1>3, <2>1 DEF ErrorStatus, Errors
<1> QED
  BY <1>2, <1>3

(* A client that was given a VM's identifier has the VM it asked for. *)
THEOREM AcceptedVMs == Spec => []AcceptedCreateExists
<1>1. HistoryInv => AcceptedCreateExists
  <2> SUFFICES ASSUME HistoryInv, NEW r \in Requests, at[r] = "answered", OnePurpose(r),
                      sent[r].op = "CreateVM", response[r].status = 202
               PROVE  HasVM(response[r].id) /\ vms[response[r].id].spec = sent[r].body
    BY DEF AcceptedCreateExists
  <2>1. PICK q \in Requests : /\ call[q].pc = "returned" /\ response[r] = Outcome(q)
                              /\ sent[q].op = sent[r].op /\ sent[q].body = sent[r].body
                              /\ sent[q].op \in Ops
    BY Origin
  <2>2. response[r].id = call[q].id
    BY <2>1, StatusTells DEF HistoryInv, KeyInv
  <2>3. call[q].id \in VMIDs /\ Creates(q, call[q].id)
    BY <2>1, FreshAssumption DEF Creates, HistoryInv, KeyInv, HttpInv, Wired, RequestRight, CallRight
  <2> QED
    BY <2>1, <2>2, <2>3 DEF HistoryInv, CreatorsRight
<1> QED
  BY <1>1, HistoryInvariance, PTL

(* What was accepted is in the event log. *)
THEOREM AcceptedLogged == Spec => []AcceptedIsRecorded
<1>1. HistoryInv => AcceptedIsRecorded
  <2> SUFFICES ASSUME HistoryInv, NEW r \in Requests, at[r] = "answered", OnePurpose(r),
                      response[r].status = 202
               PROVE  Logged(IF sent[r].op = "CreateVM" THEN response[r].id ELSE sent[r].target,
                             LoggedAs[sent[r].op])
    BY DEF AcceptedIsRecorded, Logged
  <2>1. PICK q \in Requests : /\ call[q].pc = "returned" /\ response[r] = Outcome(q)
                              /\ sent[q].op = sent[r].op /\ sent[q].target = sent[r].target
                              /\ sent[q].op \in Ops
    BY Origin
  <2>2. /\ call[q].err = "none" /\ sent[q].op \in Writing
        /\ response[r].id = IF sent[q].op = "CreateVM" THEN call[q].id ELSE sent[q].target
    BY <2>1, StatusTells DEF HistoryInv, KeyInv
  <2>3. Logged(call[q].id, LoggedAs[sent[q].op])
    BY <2>1, <2>2 DEF HistoryInv, ReturnedRight, ReturnTrue
  <2>4. sent[q].op # "CreateVM" => call[q].id = sent[q].target
    BY <2>1, <2>2, Kinds DEF HistoryInv, KeyInv, HttpInv, Wired, RequestRight, CallRight
  <2> QED
    BY <2>1, <2>2, <2>3, <2>4
<1> QED
  BY <1>1, HistoryInvariance, PTL

(* A VM a client has seen is never answered with 404. *)
THEOREM SeenFound == Spec => []SeenIsFound
<1>1. HistoryInv => SeenIsFound
  <2> SUFFICES ASSUME HistoryInv, NEW r \in Requests, at[r] = "answered", OnePurpose(r),
                      sent[r].op \in VMOps, sent[r].target \in FreshIDs, response[r].status = 404
               PROVE  FALSE
    BY DEF SeenIsFound
  <2>1. PICK q \in Requests : /\ call[q].pc = "returned" /\ response[r] = Outcome(q)
                              /\ sent[q].op = sent[r].op /\ sent[q].target = sent[r].target
                              /\ sent[q].op \in Ops
    BY Origin
  <2>2. call[q].err = "not_found"
    BY <2>1, StatusTells DEF HistoryInv, KeyInv
  <2> QED
    BY <2>1, <2>2 DEF HistoryInv, ReturnedRight, ReturnTrue
<1> QED
  BY <1>1, HistoryInvariance, PTL

=============================================================================

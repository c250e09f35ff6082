----------------------------- MODULE Conformance -----------------------------
(***************************************************************************)
(* The conformance suites (providertest) run against the models of the     *)
(* in-memory providers: the models give every answer the tests of the code *)
(* expect of it.  A test is a sequence of calls with what is asserted of   *)
(* the result of each; payloads, wording and names that play no part are   *)
(* left out.                                                               *)
(* Every test gets providers of its own, and between two calls some time   *)
(* passes: the clock moves on, and no pause is as long as the short lease  *)
(* and time to live, both of which the tests rely on.                      *)
(*                                                                         *)
(* To these comes one test the suites do not have: clients that use a blob *)
(* store at the same time, with readers that may fail.                     *)
(***************************************************************************)
EXTENDS Integers, FiniteSets, MemBlob

CONSTANTS
    Nil,            \* the nil slice
    Tester,         \* the goroutine of the test
    Goroutines,     \* the controllers of testConcurrentAssign
    MinPause,       \* ticks between two calls, at least ...
    MaxPause,       \* ... and at most
    Short,          \* 50 milliseconds, in ticks
    Nap,            \* 100 milliseconds
    Long            \* 5 seconds

ASSUME PausesAssumption == MinPause <= MaxPause /\ 2 * MaxPause <= Short /\ Short < Nap /\ Nap < Long

VARIABLES
    suite, test,    \* which test runs
    pc,             \* its next call
    ids,            \* the identifiers it was given, in order
    waited,         \* ticks since the last call returned
    todo,           \* the goroutines that have not called AssignVM yet
    successes,      \* how many of them were successful
    verdict,        \* whether an assertion has failed
    topics, index, given, promise, issued, acked, nacked,
    vms, controllers, events,
    entries, got, pending, written, swapped, grant,
    endpoints

runner == <<suite, test, pc, ids, waited, todo, successes, verdict>>
queue == <<topics, index, given, promise, issued, acked, nacked>>
state == <<vms, controllers, events>>
cache == <<entries, got, pending, written, swapped, grant>>
blob == bvars
vars == <<runner, queue, state, cache, blob, endpoints>>

Fresh == {"id-1", "id-2"}

Q == INSTANCE MemQueue WITH
        Clients <- {Tester}, Topics <- {"tasks", "topic-a", "topic-b"}, JobIDs <- Fresh,
        NoTopic <- "", MaxDelay <- Long, MaxDeliveries <- 2

S == INSTANCE MemState WITH
        VMIDs <- Fresh \cup {"nonexistent"}, FreshIDs <- Fresh,
        ControllerIDs <- {"ctrl-1", "ctrl-2", "ctrl-3", "nonexistent"},
        NoController <- "", Bodies <- {}

L == INSTANCE Queries WITH
        DefaultListLimit <- 100, MaxListLimit <- 1000, NoNumber <- Absent, BadSince <- Absent

C == INSTANCE MemCache WITH
        Clients <- {Tester}, CacheKeys <- {"key", "nonexistent"},
        Values <- {"v1", "v2", "wrong"}, Empty <- "", MaxTTL <- Long, MaxWrites <- 2

(* The blob store comes with its clients, here Tester and one more, for    *)
(* whom these are the keys and what their readers deliver.                 *)
TestKeys == [dir : {"images"}, name : {"a", "b"}] \cup [dir : {"docs"}, name : {"c"}]

TestSources == {<<"a", "b">>, <<"c">>}

N == INSTANCE NoopIngress WITH EndpointVMs <- {"vm-1", "nonexistent"}

-----------------------------------------------------------------------------

(* What is asserted of a result: its error, and the value of some fields;  *)
(* of a result the test ignores, nothing.                                  *)
Ok == [err |-> "none"]

Fails(err) == [err |-> err]

Ignored == << >>

(* Identifiers are named by the order in which the test was given them; 0  *)
(* is one that does not exist.                                             *)
ID(n) == IF n = 0 THEN "nonexistent" ELSE ids[n]

Number(id) == CHOOSE n \in DOMAIN ids : ids[n] = id

-----------------------------------------------------------------------------

Enqueue(t) == [op |-> "Enqueue", topic |-> t, want |-> Ok]

Dequeue(t, d, want) == [op |-> "Dequeue", topic |-> t, lease |-> d, want |-> want]

Delivered(n, t, count) == [err |-> "none", id |-> n, topic |-> t, count |-> count]

Settle(op) == [op |-> op, id |-> 1, want |-> Ok]

Sleep == [op |-> "Sleep", want |-> Ignored]

QueueTests ==
    [EnqueueAndDequeue |->
        <<Enqueue("tasks"), Dequeue("tasks", Long, Delivered(1, "tasks", 1))>>,
     NoJobs |-> <<Dequeue("tasks", Long, Fails("no_jobs"))>>,
     Ack |-> <<Enqueue("tasks"), Dequeue("tasks", Long, Ignored), Settle("Ack"),
               Dequeue("tasks", Long, Fails("no_jobs"))>>,
     Nack |-> <<Enqueue("tasks"), Dequeue("tasks", Long, Ignored), Settle("Nack"),
                Dequeue("tasks", Long, Delivered(1, "tasks", 2))>>,
     LeaseExpiry |-> <<Enqueue("tasks"), Dequeue("tasks", Short, Ok),
                       Dequeue("tasks", Long, Fails("no_jobs")), Sleep,
                       Dequeue("tasks", Long, Delivered(1, "tasks", 2))>>,
     MultiTopic |-> <<Enqueue("topic-a"), Enqueue("topic-b"),
                      Dequeue("topic-a", Long, Delivered(1, "topic-a", 1)),
                      Dequeue("topic-b", Long, Delivered(2, "topic-b", 1))>>]

CreateVM == [op |-> "CreateVM", spec |-> "2 vCPUs", want |-> Ok]

GetVM(n, want) == [op |-> "GetVM", id |-> n, want |-> want]

SetDesired(n, want) == [op |-> "UpdateVMDesiredState", id |-> n, to |-> "stopped", want |-> want]

Observe(n, want) == [op |-> "UpdateVMObservedState", id |-> n, to |-> "running", by |-> "ctrl-1", want |-> want]

Assign(n, c, want) == [op |-> "AssignVM", id |-> n, to |-> c, want |-> want]

AssignAll(want) == [op |-> "AssignAll", id |-> 1, want |-> want]

VMTests ==
    [CreateAndGet |-> <<CreateVM, GetVM(1, [err |-> "none", id |-> 1, desired |-> "running",
                                            observed |-> "pending", spec |-> "2 vCPUs"])>>,
     UpdateDesiredState |-> <<CreateVM, SetDesired(1, Ok), GetVM(1, [desired |-> "stopped"])>>,
     UpdateObservedState |-> <<CreateVM, Observe(1, Ok),
                               GetVM(1, [observed |-> "running", controller |-> "ctrl-1"])>>,
     AssignVM |-> <<CreateVM, Assign(1, "ctrl-1", Ok), GetVM(1, [controller |-> "ctrl-1"]),
                    Assign(1, "ctrl-2", Fails("conflict"))>>,
     ConcurrentAssign |-> <<CreateVM, AssignAll([n |-> 1]), GetVM(1, [err |-> "none", assigned |-> TRUE])>>,
     ListPendingVMs |-> <<CreateVM, CreateVM, Observe(2, Ignored),
                          [op |-> "ListPendingVMs", want |-> [err |-> "none", all |-> {1}]]>>]

Append1(v, type) == [op |-> "AppendEvent", vm |-> v, type |-> type, want |-> Ok]

ListEvents(want, limit, n) ==
    [op |-> "ListEvents", filter |-> [want |-> want, since |-> 0, limit |-> limit],
     want |-> [err |-> "none", n |-> n]]

Register(c, status, want) == [op |-> "RegisterController", id |-> c, status |-> status, want |-> want]

Beat(c, want) == [op |-> "UpdateControllerHeartbeat", id |-> c, status |-> "active", want |-> want]

ListControllers(want, limit, n) ==
    [op |-> "ListControllers", filter |-> [want |-> want, limit |-> limit],
     want |-> [err |-> "none", n |-> n]]

LogTests ==
    [Events |-> <<Append1("vm-1", "vm.created"), Append1("vm-2", "vm.scheduled"),
                  Append1("vm-1", "vm.started"),
                  ListEvents([vm |-> "vm-1"], 0, 2), ListEvents([type |-> "vm.scheduled"], 0, 1),
                  ListEvents(<< >>, 2, 2)>>,
     Controllers |-> <<Register("ctrl-1", "active", Ok), Register("ctrl-1", "active", Fails("already_exists")),
                       Beat("ctrl-1", Ok)>>,
     ListControllers |-> <<Register("ctrl-1", "active", Ok), Register("ctrl-2", "draining", Ok),
                           Register("ctrl-3", "active", Ok), ListControllers(<< >>, 0, 3),
                           ListControllers([status |-> "active"], 0, 2), ListControllers(<< >>, 1, 1)>>,
     NotFoundErrors |-> <<GetVM(0, Fails("not_found")), SetDesired(0, Fails("not_found")),
                          Observe(0, Fails("not_found")), Assign(0, "ctrl-1", Fails("not_found")),
                          Beat("nonexistent", Fails("not_found"))>>]

Set(v, ttl, want) == [op |-> "Set", key |-> "key", value |-> v, ttl |-> ttl, want |-> want]

Get(k, want) == [op |-> "Get", key |-> k, want |-> want]

Hit(v) == [err |-> "none", value |-> v]

Miss == Fails("cache_miss")

DeleteOf(k, want) == [op |-> "Delete", key |-> k, want |-> want]

Swap(old, want) == [op |-> "CompareAndSet", key |-> "key", old |-> old, new |-> "v2",
                    want |-> [err |-> "none", ok |-> want]]

CacheTests ==
    [SetAndGet |-> <<Set("v1", 0, Ok), Get("key", Hit("v1"))>>,
     CacheMiss |-> <<Get("nonexistent", Miss)>>,
     TTLExpiry |-> <<Set("v1", Short, Ok), Get("key", Hit("v1")), Sleep, Get("key", Miss)>>,
     Delete |-> <<Set("v1", 0, Ignored), DeleteOf("key", Ok), Get("key", Miss)>>,
     Overwrite |-> <<Set("v1", 0, Ignored), Set("v2", 0, Ignored), Get("key", Hit("v2"))>>,
     CompareAndSet |-> <<Set("v1", 0, Ignored), Swap("v1", TRUE), Get("key", [value |-> "v2"])>>,
     CompareAndSetMismatch |-> <<Set("v1", 0, Ignored), Swap("wrong", FALSE), Get("key", [value |-> "v1"])>>]

A == [dir |-> "images", name |-> "a"]

Put(k, type, want) == [op |-> "Put", key |-> k, data |-> <<k.name, "bytes">>, type |-> type, want |-> want]

HeadOf(k, want) == [op |-> "Head", key |-> k, want |-> want]

ExistsIs(k, exists) == [op |-> "Exists", key |-> k, want |-> [err |-> "none", exists |-> exists]]

ListOf(dirs, n) == [op |-> "List", dirs |-> dirs, want |-> [err |-> "none", n |-> n]]

BlobTests ==
    [PutAndGet |-> <<Put(A, "text", Ok), Get(A, [err |-> "none", data |-> <<"a", "bytes">>])>>,
     Head |-> <<Put(A, "octets", Ok), HeadOf(A, [err |-> "none", key |-> A, size |-> 2, type |-> "octets", summed |-> TRUE])>>,
     Delete |-> <<Put(A, "", Ignored), DeleteOf(A, Ok), ExistsIs(A, FALSE)>>,
     Exists |-> <<ExistsIs(A, FALSE), Put(A, "", Ignored), ExistsIs(A, TRUE)>>,
     List |-> <<Put(A, "", Ignored), Put([A EXCEPT !.name = "b"], "", Ignored),
                Put([dir |-> "docs", name |-> "c"], "", Ignored), ListOf({"images"}, 2), ListOf({}, 3)>>,
     NotFoundErrors |-> <<Get(A, Fails("not_found")), HeadOf(A, Fails("not_found")),
                          DeleteOf(A, Fails("not_found"))>>,
     BlobsInUse |-> << >>]

Expose(host, port, want) == [op |-> "RegisterEndpoint", vm |-> "vm-1", host |-> host, port |-> port, want |-> want]

GetEndpoint(v, want) == [op |-> "GetEndpoint", vm |-> v, want |-> want]

IngressTests ==
    [RegisterAndGet |-> <<Expose("app", 8080, [err |-> "none", vm |-> "vm-1", host |-> "app", port |-> 8080]),
                          GetEndpoint("vm-1", [err |-> "none", vm |-> "vm-1"])>>,
     Unregister |-> <<Expose("app", 8080, Ignored), [op |-> "UnregisterEndpoint", vm |-> "vm-1", want |-> Ok],
                      GetEndpoint("vm-1", Fails("not_found"))>>,
     GetNotFound |-> <<GetEndpoint("nonexistent", Fails("not_found"))>>,
     OverwriteEndpoint |-> <<Expose("v1", 8080, Ignored), Expose("v2", 9090, Ignored),
                             GetEndpoint("vm-1", [err |-> "none", host |-> "v2", port |-> 9090])>>]

Suites == [queue |-> QueueTests, vms |-> VMTests, log |-> LogTests, cache |-> CacheTests,
           blob |-> BlobTests, ingress |-> IngressTests]

-----------------------------------------------------------------------------

(* The Run functions: each test with a new provider. *)
Init == /\ suite \in DOMAIN Suites
        /\ test \in DOMAIN Suites[suite]
        /\ pc = 1 /\ ids = << >> /\ waited = 0
        /\ todo = Goroutines /\ successes = 0
        /\ verdict = "ok"
        /\ Q!Init /\ S!StoreInit /\ C!Init /\ BInit /\ N!IInit

script == Suites[suite][test]

step == script[pc]

Running == pc \in DOMAIN script

(* The test makes the call that is next, or is in it already. *)
Calls(s, ops) == /\ suite \in s
                 /\ Running
                 /\ step.op \in ops
                 /\ waited >= MinPause

(* The call goes on. *)
GoesOn == UNCHANGED runner

Check(r) == /\ verdict' = IF \A x \in DOMAIN step.want : x \in DOMAIN r /\ r[x] = step.want[x]
                          THEN verdict ELSE "failed"
            /\ pc' = pc + 1
            /\ waited' = 0
            /\ UNCHANGED <<suite, test, todo, successes>>

(* The call returns r, and the test looks at it. *)
Returns(r) == Check(r) /\ UNCHANGED ids

(* The call returns a new identifier. *)
ReturnsID(id) == Check(Ok) /\ ids' = Append(ids, id)

QueueCall ==
    /\ \/ /\ Calls({"queue"}, {"Enqueue"})
          /\ Q!Enqueue(Tester, step.topic)
          /\ ReturnsID(CHOOSE j \in issued' : j \notin issued)
       \/ /\ Calls({"queue"}, {"Dequeue"})
          /\ Q!Dequeue(Tester, step.topic, step.lease)
          /\ \E i \in DOMAIN topics[step.topic] :
                LET job == topics'[step.topic][i] IN
                /\ Q!FirstAvailable(step.topic, i)
                /\ Returns(Delivered(Number(job.id), index[job.id], job.dequeueCount))
       \/ /\ Calls({"queue"}, {"Dequeue"})
          /\ Q!DequeueNoJobs(Tester, step.topic)
          /\ Returns(Fails("no_jobs"))
       \/ /\ Calls({"queue"}, {"Ack"})
          /\ Q!Ack(Tester, ID(step.id))
          /\ Returns(Ok)
       \* The time to retry at is read before the call.
       \/ /\ Calls({"queue"}, {"Nack"})
          /\ \E d \in {Q!Past, 0} : Q!Nack(Tester, ID(step.id), d)
          /\ Returns(Ok)
    /\ UNCHANGED <<state, cache, blob, endpoints>>

Stamped == [i \in DOMAIN events |-> [what |-> events[i], at |-> 1]]

Status == [c \in {d \in DOMAIN controllers : S!HasController(d)} |-> controllers[c].report]

VMCall ==
    /\ \/ /\ Calls({"vms"}, {"CreateVM"})
          /\ \E v \in Fresh : S!CreateVM(v, step.spec) /\ ReturnsID(v)
       \/ /\ Calls({"vms"}, {"GetVM"})
          /\ LET vm == vms[ID(step.id)] IN
             Returns([err |-> "none", id |-> step.id, desired |-> vm.desired, observed |-> vm.observed,
                      spec |-> vm.spec, controller |-> vm.controller, assigned |-> vm.controller # ""])
          /\ UNCHANGED state
       \/ /\ Calls({"vms"}, {"UpdateVMDesiredState"})
          /\ S!UpdateVMDesiredState(ID(step.id), step.to)
          /\ Returns(Ok)
       \/ /\ Calls({"vms"}, {"UpdateVMObservedState"})
          /\ S!UpdateVMObservedState(ID(step.id), step.to, step.by)
          /\ Returns(Ok)
       \/ /\ Calls({"vms"}, {"AssignVM"})
          /\ S!AssignVM(ID(step.id), step.to)
          /\ Returns(Ok)
       \/ /\ Calls({"vms"}, {"AssignVM"})
          /\ ~ S!Unassigned(ID(step.id))
          /\ Returns(Fails("conflict"))
          /\ UNCHANGED state
       \/ /\ Calls({"vms"}, {"ListPendingVMs"})
          /\ Returns([err |-> "none", all |-> {Number(v) : v \in S!ListPendingVMs}])
          /\ UNCHANGED state
    /\ UNCHANGED <<queue, cache, blob, endpoints>>

(* The goroutines of testConcurrentAssign, in any order, and Wait. *)
AssignConcurrently ==
    /\ Calls({"vms"}, {"AssignAll"})
    /\ \/ \E c \in todo :
            /\ \/ S!AssignVM(ID(step.id), c) /\ successes' = successes + 1
               \/ ~ S!Unassigned(ID(step.id)) /\ UNCHANGED <<state, successes>>
            /\ todo' = todo \ {c}
            /\ UNCHANGED <<suite, test, pc, ids, waited, verdict>>
       \/ todo = {} /\ Returns([n |-> successes]) /\ UNCHANGED state
    /\ UNCHANGED <<queue, cache, blob, endpoints>>

LogCall ==
    /\ \/ /\ Calls({"log"}, {"AppendEvent"})
          /\ S!AppendEvent(step.vm, step.type)
          /\ Returns(Ok)
       \/ /\ Calls({"log"}, {"ListEvents"})
          /\ Returns([err |-> "none", n |-> Len(L!ListEvents(Stamped, step.filter))])
          /\ UNCHANGED state
       \/ /\ Calls({"log"}, {"RegisterController"})
          /\ S!RegisterController(step.id, step.status)
          /\ Returns(Ok)
       \/ /\ Calls({"log"}, {"RegisterController"})
          /\ S!HasController(step.id)
          /\ Returns(Fails("already_exists"))
          /\ UNCHANGED state
       \/ /\ Calls({"log"}, {"UpdateControllerHeartbeat"})
          /\ S!UpdateControllerHeartbeat(step.id, step.status)
          /\ Returns(Ok)
       \/ /\ Calls({"log"}, {"ListControllers"})
          /\ \E result \in L!ListControllers(Status, step.filter) :
                Returns([err |-> "none", n |-> Cardinality(result)])
          /\ UNCHANGED state
       \/ /\ \/ /\ Calls({"log"}, {"GetVM", "UpdateVMDesiredState", "UpdateVMObservedState", "AssignVM"})
                /\ ~ S!HasVM(ID(step.id))
             \/ /\ Calls({"log"}, {"UpdateControllerHeartbeat"})
                /\ ~ S!HasController(step.id)
          /\ Returns(Fails("not_found"))
          /\ UNCHANGED state
    /\ UNCHANGED <<queue, cache, blob, endpoints>>

CacheCall ==
    /\ \/ Calls({"cache"}, {"Set"}) /\ C!SetPrepares(Tester, step.key, step.value, step.ttl) /\ GoesOn
       \/ Calls({"cache"}, {"Set"}) /\ C!SetStores(Tester) /\ Returns(Ok)
       \/ Calls({"cache"}, {"Get"}) /\ C!GetMisses(Tester, step.key) /\ Returns(Miss)
       \/ Calls({"cache"}, {"Get"}) /\ C!GetReads(Tester, step.key) /\ GoesOn
       \/ Calls({"cache"}, {"Get"}) /\ C!GetReturns(Tester) /\ Returns(Hit(got[Tester].entry.value))
       \/ Calls({"cache"}, {"Get"}) /\ C!GetEvicts(Tester) /\ Returns(Miss)
       \/ Calls({"cache"}, {"Delete"}) /\ C!Delete(Tester, step.key) /\ Returns(Ok)
       \/ /\ Calls({"cache"}, {"CompareAndSet"})
          /\ C!CompareAndSet(Tester, step.key, step.old, step.new, 0)
          /\ Returns([err |-> "none", ok |-> TRUE])
       \/ /\ Calls({"cache"}, {"CompareAndSet"})
          /\ C!CompareAndSetFails(Tester, step.key, step.old)
          /\ Returns([err |-> "none", ok |-> FALSE])
    /\ UNCHANGED <<queue, state, blob, endpoints>>

BlobCall ==
    /\ \/ Calls({"blob"}, {"Put"}) /\ PutBegins(Tester, step.key, step.data, step.type) /\ GoesOn
       \/ Calls({"blob"}, {"Put"}) /\ PutReads(Tester) /\ GoesOn
       \/ Calls({"blob"}, {"Put"}) /\ PutStores(Tester) /\ Returns(Ok)
       \/ Calls({"blob"}, {"Get"}) /\ GetOpens(Tester, step.key) /\ GoesOn
       \/ Calls({"blob"}, {"Get"}) /\ GetReads(Tester) /\ GoesOn
       \/ /\ Calls({"blob"}, {"Get"})
          /\ GetEnds(Tester)
          /\ Returns([err |-> "none", data |-> reading[Tester].got])
       \/ Calls({"blob"}, {"Delete"}) /\ Delete(Tester, step.key) /\ Returns(Ok)
       \/ /\ Calls({"blob"}, {"Head"})
          /\ Exists(step.key)
          /\ Returns([err |-> "none", key |-> step.key, size |-> blobs[step.key].size,
                      type |-> blobs[step.key].type, summed |-> blobs[step.key].checksum # Absent])
          /\ UNCHANGED blob
       \/ /\ Calls({"blob"}, {"Get", "Head", "Delete"})
          /\ Idle(Tester) /\ ~ Exists(step.key)
          /\ Returns(Fails("not_found"))
          /\ UNCHANGED blob
       \/ /\ Calls({"blob"}, {"Exists"})
          /\ Returns([err |-> "none", exists |-> Exists(step.key)])
          /\ UNCHANGED blob
       \/ /\ Calls({"blob"}, {"List"})
          /\ Returns([err |-> "none", n |-> Cardinality(List(step.dirs))])
          /\ UNCHANGED blob
    /\ UNCHANGED <<queue, state, cache, endpoints>>

(* Clients at work on the blobs. *)
BlobsInUse ==
    /\ test = "BlobsInUse"
    /\ BNext
    /\ UNCHANGED <<runner, queue, state, cache, endpoints>>

IngressCall ==
    /\ \/ /\ Calls({"ingress"}, {"RegisterEndpoint"})
          /\ N!RegisterEndpoint(step.vm, step.host, step.port)
          /\ Returns([err |-> "none", vm |-> step.vm, host |-> step.host, port |-> step.port])
       \/ /\ Calls({"ingress"}, {"UnregisterEndpoint"})
          /\ N!UnregisterEndpoint(step.vm)
          /\ Returns(Ok)
       \/ /\ Calls({"ingress"}, {"GetEndpoint"})
          /\ N!HasEndpoint(step.vm)
          /\ LET ep == endpoints[step.vm] IN
             Returns([err |-> "none", vm |-> ep.vm, host |-> ep.host, port |-> ep.port])
          /\ UNCHANGED endpoints
       \/ /\ Calls({"ingress"}, {"GetEndpoint"})
          /\ ~ N!HasEndpoint(step.vm)
          /\ Returns(Fails("not_found"))
          /\ UNCHANGED endpoints
    /\ UNCHANGED <<queue, state, cache, blob>>

(* How long the test may be between two calls or asleep. *)
Longest == IF step.op = "Sleep" THEN Nap + MaxPause ELSE MaxPause

Tick == /\ Running
        /\ waited < Longest
        /\ waited' = waited + 1
        /\ Q!Tick /\ C!Tick
        /\ UNCHANGED <<suite, test, pc, ids, todo, successes, verdict, state, blob, endpoints>>

WakesUp == /\ Calls(DOMAIN Suites, {"Sleep"})
           /\ waited >= Nap
           /\ Returns(Ok)
           /\ UNCHANGED <<queue, state, cache, blob, endpoints>>

Ended == ~ Running /\ UNCHANGED vars

Next == \/ QueueCall \/ VMCall \/ AssignConcurrently \/ LogCall
        \/ CacheCall \/ BlobCall \/ BlobsInUse \/ IngressCall
        \/ Tick \/ WakesUp \/ Ended

Spec == Init /\ [][Next]_vars

-----------------------------------------------------------------------------

(* Every assertion of every conformance test holds of the model, however   *)
(* the ten goroutines of testConcurrentAssign interleave and however long  *)
(* the test waits between two calls.                                       *)
TestsPass == verdict = "ok"
=============================================================================

# A TLA+ model of the Flames control plane

Flames is a control plane for virtual machines. The repository holds its API
server (`cmd/flames-api`), the HTTP transport, the service behind it and the
in-memory providers: state store, work queue, cache, blob store and ingress.
Schedulers and controllers are specified in the notes and not written yet.

The modules here model the parts whose correctness depends on the order in
which goroutines, clients and the clock take their turns. TLC checks them on
small instances; TLAPS proves, for instances of any size, the safety properties
of the work queue, the store and its users, the service and the HTTP transport,
the event log, the cache and the blob store, and that the queue, the cache and
the `Idempotency-Key` middleware implement what their interfaces promise.

## The system

| Part | State | Operations | What is hard about it |
|---|---|---|---|
| work queue, `provider/queue/memqueue` | per topic a slice of jobs with lease and delivery count; an index from job to topic | `Enqueue`, `Dequeue`, `Ack`, `Nack` | leases run out under slow clients; anyone may settle any job late; slice and index must agree; jobs at the front may starve later ones |
| state store, `provider/state/memstate` | VMs, controllers, event log | create, get, desired and observed state, `AssignVM`, `ListPendingVMs`, `AppendEvent`, register, heartbeat, lists | schedulers act on stale lists; a report overwrites the assignment |
| service, `api/service.go` | none of its own | one method per API operation | writes the VM and appends the event under two separate locks |
| HTTP transport, `transport/httpapi` | the idempotency entries by key | routes, the `Idempotency-Key` middleware, error mapping | look-up, eviction, execution and storing are four separate steps; keys are shared by routes |
| cache, `provider/cache/memcache` | entries with an expiry time | `Get`, `Set`, `Delete`, `CompareAndSet` | `Get` decides on a copy and deletes later; `Set` reads the clock before the lock |
| server process, `cmd/flames-api/main.go` | two goroutines and a signal channel | start, signal, shutdown | `main` and the shutdown goroutine do not wait for each other |
| list queries, in `memstate`, `service.go`, `handler.go` | none | `ListEvents`, `ListControllers`, limits | events are stamped before they are appended, so the log is not in the order of time, which `since` asks about; limits at their edges |
| blob store, `provider/blob/memblob` | blobs by key | put, get, head, delete, exists, list | a reader that fails half way; blobs replaced while they are read |
| ingress, `provider/ingress/noop` | endpoint by VM | register, unregister, get | little |
| conformance suites, `providertest` | the local variables of a test | five suites of tests any provider must pass | ten goroutines at once; leases and times to live against the wall clock |

The parts interact by calls. A request runs on its own goroutine through the
middleware, the handler and the service, and takes the store's lock once for
each store call. The service is given a work queue and does not use it; nothing
in the repository uses the cache, the blob store or the ingress provider yet.
Their callers are therefore modelled as clients that make any call the
interface allows with identifiers they can know.

`PROJECT.json` lists the hazards line by line, each with the property that is
about it or the reason why none is, and maps every definition to the lines it
models.

## Modules

| Module | Models | Builds on |
|---|---|---|
| `WorkQueue` | what the queue interface promises, without slices and scans | |
| `MemQueue` | the work queue and its clients | instantiates `WorkQueue` |
| `MemQueueProofs` | theorems about `MemQueue` | `MemQueue` |
| `MemQueueRefinement` | the proof that `MemQueue` implements `WorkQueue` | `MemQueueProofs` |
| `MemState` | the store's operations, one operator each | |
| `Placement` | schedulers and controllers using the store | `MemState` |
| `ApiService` | concurrent service calls, step by step | `MemState` |
| `IdempotentApi` | what the `Idempotency-Key` header promises, without entries that are looked up and stored in separate steps | |
| `HttpApi` | concurrent HTTP requests through the middleware and the service | `ApiService`; instantiates `IdempotentApi` |
| `Queries` | the list queries as operators, from query string to scan | |
| `EventLog` | concurrent writers of the event log and a client that follows it | `Queries` |
| `CacheStore` | what the cache interface promises, without expiry times, locks and eviction | |
| `MemCache` | the cache and its clients | instantiates `CacheStore` |
| `MemBlob` | the blob store and its clients | |
| `NoopIngress` | the ingress provider's operations | |
| `Conformance` | the conformance suites | `MemBlob`; instantiates the other providers and `Queries` |
| `Server` | the life of the process | |
| `PlacementProofs` | theorems about `Placement` | `Placement` |
| `HttpApiProofs` | theorems about the middleware: typing, what an `Idempotency-Key` promises, and that `HttpApi` implements `IdempotentApi` | `HttpApi` |
| `HistoryProofs` | theorems about store, event log and answers | `HttpApiProofs` |
| `EventLogProofs` | theorems about the list queries and the follower | `EventLog` |
| `MemCacheProofs` | theorems about `MemCache`, and that it implements `CacheStore` | `MemCache` |
| `MemBlobProofs` | theorems about `MemBlob` | `MemBlob` |

A module `XMC` adds to `X` what TLC needs: symmetry sets and the requests of an
instance. `MemState` and `ApiService` have no behaviour of their own: `Placement`
and `HttpApi` say who calls them. `MemBlob` and `NoopIngress` are run by
`Conformance`.

### Conventions

* **Locks.** An operation that holds its mutex from its first read to its last
  write is one action. An operation that releases it in between is one action
  for each stretch: `GetReads` and `GetEvicts` in the cache, `LookUp...`,
  `Evict` and `StoreEntry` in the middleware, the store call and `Emit` in the
  service.
* **Time** is relative. A lease or an expiry is stored as its distance from
  now; `Tick` lowers every such distance by one, and instants that are over are
  not told apart. So time is unbounded in finitely many states, and only the
  longest delay is bounded. The idempotency entries, whose 24 hours are longer
  than any request, carry a flag instead that `Expire` sets when no request
  that looked the key up is under way.
* **Data** is opaque: payloads, VM specs, labels and heartbeats are model
  values, and the SHA-256 of a body is the body. Random identifiers are taken
  from a finite set, each once.
* **Ghosts** (named so where they are declared) record what happened and are
  read by properties only, never by an action: what each client was promised,
  which identifiers were issued, which requests ran.
* **Mutants.** The definitions that precede another one without a comment of
  their own (`AvailableAtExpiry` before `Available`) are plausible mistakes in
  it. Each property fails when a certain mutant takes the place of the
  definition; `PROJECT.json` says which.

### How state and actions correspond to the code

`MemQueue`: `topics` and `index` are the two maps of `Queue`. A job keeps its
identifier, `DequeueCount` and lease. `IsZero() || now.After(LeaseExpiresAt)`
is `lease < 0`, strictly, as in the code; a negative lease timeout and a
`retryAt` in the past are among the delays. `given` says which identifiers a
client was ever given: the queue never asks whose lease it is, so a client may
`Ack` and `Nack` each of them at any time and as often as it likes, whoever
holds the job by then.

`MemState`: a Go map is a total function with `Absent` for missing keys. Each
method is an operator whose guard is the success case; the failing cases are
actions of the modules that call it. `UpdateVMObservedState` writes the
reporting controller along with the state, as the code does.

`Placement`: reports come from anyone, at any time, under any controller's
identifier or under none, also on VMs that were never assigned
(statetest.go:79 does that). The store then names the reporter. The ghost `told`
has, for each VM, the controllers `AssignVM` succeeded for since the store last
named nobody.

`ApiService`: `call` holds for each goroutine where in the service method it
is. `CreateVM`, `StopVM` and `DeleteVM` are two steps, `CreateVMStore` or
`SetDesired`, then `Emit`. The error of `AppendEvent` is dropped by the code;
memstate's never is one.

`Queries` and `EventLog`: the fields a filter sets are the domain of its
function `want`; zero values are not in it. `ListEvents` is the loop of the
code: `found[n]` is the result after `n` events, and once it is full no event is
taken any more. `AppendEvent` is two steps, `Stamp`
before the lock and `AppendEvent` under it. Here the clock is absolute and
bounded, because `since` compares instants of different queries. A follower
asks for what came since the greatest time stamp it has seen; the code offers
no other way to ask for the next events.

`MemBlob`: a `Put` reads chunk by chunk before it has the lock, and may fail at
each; the reader of a `Get` delivers chunk by chunk after the lock is released.
Keys are a directory and a name, as much as the prefix test of `List` is used
for, and SHA-256 tells contents apart.

`Conformance`: a test is a sequence of records, each a call and what the test
asserts of its result. The runner makes the calls by the actions of the
instantiated provider modules, a call of several steps step by step, and
compares. So the tests that check the code check the models as well. Between
two calls one or two ticks pass, 50 milliseconds are four ticks. The suites
rely on both ends: if the clock could stand still between two calls, the job
`testNack` gives back "immediately" (queuetest.go:90) would not be available,
because `Dequeue` asks for a time strictly after `retryAt`; if the test could be
held up for as long as the short lease, `testLeaseExpiry` would find the job
free.

`HttpApi`: `at` holds where in `wrap` and in the handler a goroutine is, and
`entries` is the middleware's map. Handlers that decode reject a malformed
body; only wrapped routes with a key go through the middleware; the heartbeat
is not wrapped. The response reaches the client when the handler chain returns,
because net/http buffers small responses.

`MemCache`: `got` is the copy a `Get` works on, `pending` what a `Set` has
prepared before it has the lock. `bytes.Equal` does not tell nil from empty,
and neither does `BytesEqual`. Values may be written again and under several
keys, and a time to live may be zero or negative. The ghosts `written` and
`swapped` count for each value how often it was written and how often a
`CompareAndSet` replaced it, and `grant` has the time a client was promised a
key for, which `Promised` takes from the interface and not from the code.

`Server`: `main` and `watcher` are the two goroutines. What `Shutdown`,
`ListenAndServe`, `signal.Notify` and the end of `main` do is taken from how
`main.go` uses them. A signal before `signal.Notify` kills the process.
`ListenAndServe` may fail at once (`ListenFails`) or while it serves
(`ServeFails`).

## Runs

| Run | Instance | Shows |
|---|---|---|
| `queue` | 2 clients, 2 topics, 2 jobs, delays up to 1, counts up to 2 | no job is lost, doubled or reordered, leases are exclusive and backed, first deliveries are in order, under late, stray and repeated settlements; the queue implements `WorkQueue`; every job is acknowledged some day |
| `placement` | 2 schedulers, 2 controllers, 1 VM, 2 bodies | the VM is given to one controller until the store is told that it is free, whoever reports on it; registrations survive; a pending VM is assigned some day |
| `http` | 4 requests on all routes, 2 keys, one of them used on three routes, 4 bodies, 2 VMs that may be created and 1 that is unknown | clients that wait before they send a key again: one execution per window, the same answer, the entry kept; the middleware implements `IdempotentApi`; clients that keep a key to one purpose: what was accepted is recorded and what was seen is found; everybody: answers have an origin and are true of the store, the event log is complete, begins with the creation and tells the desired state |
| `http_retry` | 2 requests | **violated**: a retry that overlaps the first attempt runs it again |
| `http_eviction` | 3 requests | **violated**: a fresh entry is evicted |
| `events` | 2 writers, 3 events of 2 kinds, 3 instants, 3 filters, pages of 2 | every query is answered right; a follower misses events of overlapping calls only, and gets to see the others |
| `events_newest` | the same | **violated**: the oldest events come first |
| `cache_safety` | 2 clients, 2 keys, 2 values, one of them empty, each written up to 3 times, times to live from -1 to 1 | no lost update; `CompareAndSet` from nil is a lock; the cache implements `CacheStore` |
| `cache_eviction` | 2 clients | **violated**: a late `Get` deletes an entry without expiry |
| `server_liveness` | 3 requests | a signal ends the process |
| `server_drain` | 2 requests | **violated**: the process exits before requests are drained |
| `conformance` | all 33 tests, 10 goroutines in `ConcurrentAssign`, and 2 clients on three blobs | no assertion fails; a blob is seen whole or not at all |

### Why the bounds are enough to be interesting

*Queue.* Two clients and a lease of one tick give every overlap of one client's
late settlement with another's lease; two jobs give an order to keep and a job
behind another, and two topics let the index be wrong. The count is not told
apart above 2 because no operation reads it; `FirstDeliveryInOrder` only asks
whether it is 0. What three and more jobs in a topic add, a middle to remove
from, is left to the proofs.

*Placement.* Two schedulers with separate lists and two controllers are the
least that can disagree. No operation touches two VMs, so one is enough; its
life is unbounded (it is assigned and made free by reports for ever). Reported states are pending, running and failed: no
operation tells others apart.

*Service and HTTP.* Four requests are enough for two overlapping writes of a
VM, its creation and a reader or retry. A creation comes with a valid or a
malformed body: the middleware only compares bodies and the handler only asks
whether they decode; the properties are proved for any bodies. Whether clients wait is not a parameter:
the ghost `rushed` collects the keys that were sent again too early, and the
properties about patient clients are about the other keys, while requests
with rushed ones run beside them. `MaxExpiries` bounds how often a key expires;
no more VMs are asked for than there are identifiers.

*Events.* Limits of 1 by default and 2 at most against three events make every
limit bite; limit texts are missing or malformed, negative, zero, one, the
maximum and above it. Three instants are the least for an event that is older
than one seen and younger than another.

*Cache.* `MaxWrites` bounds how often a value is written. Three times are
enough for a value to go and come back under a client that has read it. Times to
live from -1 to 1 have both kinds of "no expiry" and one entry that runs out.

*Blobs.* Contents of two chunks can be half read, by a `Put` as well as by the
reader of a `Get`; two clients are the least that can get in each other's way,
and with several blobs one could be taken for another.

Symmetry is used for clients and values of the cache and for requests in the
runs that check invariants, action properties and refinements, never with
liveness. In
instances that single an identifier out (`v1`, the keys, the bodies) it is not
permuted.

### Fairness

* `MemQueue`: the clock goes on; a topic that has an available job again and
  again is polled at such a moment by a client that asks for a real lease; a job
  handed out again and again is acknowledged some day by a client whose lease
  runs. These are assumptions about clients. They are strong fairness because a
  lease can run out at any time: availability and a running lease come and go.
  Nothing is asked of a single client, which may crash or never settle a job, but
  one thing of all: nobody goes on for ever giving back a job that is not leased
  to him. The queue takes every `Nack`, and TLC shows that a job can be put off
  for ever that way. Nothing is asked of the queue, whose operations never
  block.
* `Placement`: schedulers go on listing and trying, and controllers register.
  Controllers need not report anything.
* `EventLog`: a call that has stamped its event gets the lock, which no one
  holds for long, and the follower goes on asking. Nobody has to write and the
  clock may stop.
* `Server`: both goroutines and the clock go on. Requests need never finish.

### Findings

1. `http_retry`: `wrap` looks the key up, runs the handler and stores the entry
   under separate locks. A retry that arrives meanwhile makes a second VM,
   which "API Spec.md" says the key prevents. `PatientRunsOnce` in `http` shows
   that this overlap is the only way: for keys whose clients wait it holds.
2. `http_eviction`: two requests that saw the same expired entry delete it one
   after the other, and the second deletes the new entry of the first.
3. `events_newest`: `ListEvents` scans from the oldest event and stops at the
   limit. FR-011 and AC-007 ask for the newest first.
4. `cache_eviction`: `Get` has the same late delete as the middleware.
   `LockExclusive` therefore excepts keys such a `Get` has deleted. It also
   excepts the empty value, which `CompareAndSet` takes for nil.
5. `server_drain`: `main` returns when `ListenAndServe` does, which is when
   shutdown begins.

Some properties carry a condition because of what the code does.
`LogTellsDesired` leaves out VMs whose writes overlapped, since their events
may then be appended in the other order. `SeenIsFound` is about identifiers
the server has given out. It, `AcceptedIsRecorded` and `AcceptedCreateExists`
are about keys that come with one body on one route and for one target only:
the key is not tied to
route or path and several routes have empty bodies, so a delete with the key of
an earlier stop is answered 202 from the stop's entry and never recorded.
FR-017 read literally asks for this, FR-018 for the opposite.
`FollowerCatchesUp` leaves out instants with as many events as a page holds,
where the follower would ask for the same page for ever, and events it has gone
past, of which `MissedOnlyIfOverlapped` says what they are. `PendingGetsAssigned`
ends when somebody reports that the VM is not pending, as anybody may.

So some hazards are known to bite, and no property is about them because nothing
in the repository promises otherwise: a key used for two purposes; a page full
of events of one instant; a stray `Nack`, which takes the job from whoever holds
it; a job at the front that nobody ever acknowledges, which can starve the ones
behind it; a `Set` that waits for the lock and stores an entry that has run out.
A `Nack` at the present instant is a case of its own: queuetest.go:90 expects the
job back immediately, and gets it because the clock moves on between two calls.
With `MinPause = 0` in `Conformance.cfg` the test fails.

## Proofs

### Work queue

`MemQueueProofs` proves, for any sets of clients, topics and identifiers and
any bounds on delays and counts, every safety property `queue` checks:
`Typing`, `IndexRight`, `AtLeastOnce`, `Exclusive`, `Backed`, `FirstInOrder`
and the action property `Ordered`.

The assumptions are those of `MemQueue`: `NoTopic` is not a topic, `MaxDelay`
is a natural number, `MaxDeliveries` a positive one.

`ExclusiveLease` is not inductive. It says that two clients are not promised
one job, but whether `Dequeue` hands a job out depends on the lease field, not
on promises. `LeaseBacked` ties the two: a promise that still runs belongs to
a queued job with that very lease. That it is the very job `Dequeue`
found needs `IDsUnique`, a part of `NoJobLost`; that `Enqueue` cannot add a
second copy needs that queued jobs are issued ones, the rest of `NoJobLost`;
that `Ack` and `Nack` find the job where the index says needs
`IndexMatchesTopics`. `FirstDeliveryInOrder` needs `UntouchedAvailable`, that
a job neither handed out nor nacked has no lease, for the scan cannot pass over
such a job. The conjunction, `QueueInv`, is inductive.

The proof has one lemma per action. Lemmas about shapes (`EnqueueShape`,
`ReplaceShape`, `RemoveShape`, `TickShape`) say what an action makes of the
slices, so that the others need not reason about sequences. In the lemma
about `Ack`, `old(u, k)` is the position from which the job now at `k` came; it
is strictly increasing, which gives both uniqueness and order.

`MemQueueRefinement` proves `Refinement`: `MemQueue` implements `WorkQueue`, in
which a job has a place, a time until it may be handed out and one owner at
most, and there are no slices, positions or scans. The mapping reads a job's
lease where the scan finds the job (`LeaseOf`) and takes for its owners the
clients whose promise runs. By `QueueInv` the scan finds the job, at one position
only, so the lease it reads is determined; because `LeaseBacked` equates promise
and lease, the owner loses the job at the tick at which the job becomes free, as
`WorkQueue` demands. `Enqueue`, `Dequeue`, `Ack`, `Nack` and `Tick` map to
`Add`, `HandOut`, `Finish`, `PutOff` and `Pass`; an empty poll and a settlement
of a job that is gone map to no step.

### The store and its users

`PlacementProofs` proves `PlacementTyping`, `OneHolder` and the action property
`LabelsKept` for any schedulers, controllers, VMs and bodies. The first half of
`AssignedOnce`, that one controller was told at most, is not inductive: whether
`AssignVM` succeeds depends on what the store names, which every report writes
over. It needs the second half, that a VM somebody was told of does not look
free. Reports keep that although they may name the wrong controller, because
only one under no name makes a VM look free.

### HTTP transport and service

Two modules prove every safety property `http` checks, for any requests, keys,
bodies, VMs and number of expiries. `HttpApiProofs` is about the middleware.
`HttpInv` says how the place of a request in `wrap`, its service call and its
response fit together (`HttpTyping` needs no more). `KeyInv` adds what the
entries say:

* `WindowRight`: no request has seen a window of its key that is still to come;
* `OriginRight`: an entry is the answer of a request that ran under its key with
  its body;
* `AnsweredRight`: what the middleware answered by itself has such an origin,
  which is `ReplaysTrue` and `ConflictsTrue`;
* `PatientRight`: of a key whose clients wait, one request at most is between
  look-up and storing, and the entry is the answer of the one that ran in this
  window. That is what `RunsOnce`, `AnswerKept` and the action property
  `EntryKept` rest on, and what fails for the keys in `rushed`.

The actions are first reduced to `MiddlewareStep` and `KeyStep`, which say what
a step of any request may do to entries, windows and places, so that the
invariant is not argued once for every route.

`PromiseKept` says that `HttpApi` implements `IdempotentApi`. There a key keeps
one body and one answer, or nothing. A request whose key keeps something is
answered from it, or with a conflict if the body is another; a request is
executed only if its key keeps nothing and nobody else is being executed under
it; the answer is kept at the moment it is given; and what is kept stays until
it is forgotten. The one exemption is for keys in `rushed`, whose requests may be
executed at any time. In the mapping a key keeps what its entry says while that
is fresh; the look-up of an expired entry is no step, and its growing old is
`Forget`, which happens before the entry is evicted. `PatientRight` makes
`LookUpMiss` and `Evict` steps of the promise: nobody else is under way, and
what `Evict` deletes was forgotten already. For rushed keys both can fail,
which is what `http_retry` and `http_eviction` show.

`HistoryProofs` is about what the two critical sections of a write, the VM and
the event, leave visible between them. `HistoryInv` extends `KeyInv`: a VM has
one creator (`CreatorsRight`); an event of a VM comes after that of its creation
(`EventsRight`), because until then nobody can name the VM (`SentRight`) and its
only pending event is that one (`PendingRight`); a call that returned told the
truth (`ReturnedRight`); the events of a kind and the calls that wrote them are
equally many (`CountsRight`); and of a VM whose writes did not overlap the
pending event, or else the last one, tells what is desired (`DesiredRight`).
`CreationFirst`, `WritesLogged`, `DesiredTold`, `AcceptedVMs`, `AcceptedLogged`
and `SeenFound` follow.

The assumptions are those of `MemState`, `ApiService` and `HttpApi`: the values
that stand for nothing (`Absent`, `NoID`, `NoRequest`, `NoEntry`, `NoKey`) are
none of the things themselves, requests are what the routes take, and an
identifier from `newID`, which is random, is no controller's name.

The proof showed one property to be stated too strongly. `AcceptedCreateExists`
was about all clients; a create whose key an earlier stop had used with the same
body is answered 202 from the stop's entry, without a VM. The instance TLC
checks has no such pair of requests. The property now says what it needs, a key
kept to one purpose.

### List queries and event log

`EventLogProofs` proves `LogTyping`, `QueriesAnswered` and `MissesOverlap` for
any writers, events, filters, limits, pages and clock. From the code it assumes that the default limit is positive
and no greater than the maximum, and that a text which is no number or no time
is none.

What `ListEvents` returns for every log is an induction over the log. The
induction theorems of the library are out of the provers' reach; the proofs take
the least number of events for which a statement would fail instead (`Least`).
So `ScanExists` shows that the scan is defined and `ListRight` that its result
is what the filter selects, in order, no more than the limit and without a gap
(`Found`). `LimitRight` settles
`queryInt` and `clampLimit`, and `AnswersRight` follows in every state whose
events carry their places.

`MissedOnlyIfOverlapped` is not inductive. Whether the follower goes past an
event is decided when it polls (the page was full of earlier events) or when the
event is appended (the follower is at a later time stamp already): `MissedRight`
and `CursorRight`. That the younger event was not in the log when the missed one
was stamped is a fact about clock and log, `OnTime`, which has to be known of
the events under way too. `LogInv` is their conjunction.

### Cache and blob store

`MemCacheProofs` proves `CacheTyping`, `UpdatesKept` and `OneLocker` for any
clients, keys, values and ticks. `NoLostUpdate` says that a
value is replaced no more often than it was written. That compares two
counters, and what ties them is where the writes are (`WritesAccounted`): each
one is prepared by a `Set` that has not stored it yet, or stored under one key,
or replaced by a `CompareAndSet`, or lost. So replaced, stored and prepared are
together no more than written, and a `CompareAndSet` takes one from the stored
to the replaced.
`LockExclusive` needs `GrantBacked`: while a client may think a key its own
there is an entry with that much time left, and with a value `CompareAndSet`
does not take for nil.

`CallsAreAtomic` says that `MemCache` implements `CacheStore`, a cache without
time, in which a key has one value or none and may lose it at any moment. A
`Set` takes effect when it has the lock, a `Get` returns what the key had when
it was read, unless that expires under way, and a `CompareAndSet` compares with
what is there. In the mapping an entry that has expired is no value, so that
clearing one away, as `Get` and a failing `CompareAndSet` do, is no step; a late
`Get` that deletes a newer entry is a loss, which a cache may have. `Tick` loses
all values that run out at once. That owners lose a key at the tick at which its
value goes, and that `CompareAndSet` leaves one owner, is `GrantBacked` and
`LockExclusive`. A loss at any time is as much as the interface promises ("the
system must function identically if every call returns a miss"); that entries
without expiry are lost too is the finding `cache_eviction`.

`MemBlobProofs` proves `WholePuts` for any clients and keys and readers that
deliver anything of any length and fail anywhere. `OnlyWholePuts` is inductive
in well-typed states; the lemmas are about sequences that begin with another.

### Only model-checked

* Every liveness property (`EveryJobAcknowledged`, `PendingGetsAssigned`,
  `FollowerCatchesUp`, `EndsOnSignal`): they need fairness.
* `TestsPass`: the suites are finite programs, and running them is the proof.
* The violations, which are counterexamples already.

## Not modelled

* Wording and layout of responses, request log, `healthz`, flags: no state.
* The route `GET /v1/controllers` and `Service.ListControllers`, which pass a
  status and a limit on as those for events do; the query behind it is in `Queries` and run by
  `Conformance`.
* Aliasing of byte slices that providers hand out: below the level of the model.
* Stores that fail: memstate's methods have no failures but the modelled ones.
* Idempotency entries whose key is never sent again. Nothing removes them, so
  the 24 hours do not bound the memory as Design.md:315 says; growth without
  bound is not something a bounded instance shows.

## Plan

Done: the work queue, the store and its users, the service, the transport, the
cache and the process; then the list queries and the event log, the blob store,
the ingress provider and the conformance suites. Proofs of all the safety
properties the passing runs check, but for the conformance tests, and of three
refinements: `WorkQueue`, `IdempotentApi` and `CacheStore`.

Left: the heartbeat route, which FR-017 would wrap, once the code does; and a
blob store whose calls take effect at one moment, as `CacheStore` is for the
cache, which would say in addition to `OnlyWholePuts` that a reader has what the
key had when it was opened.

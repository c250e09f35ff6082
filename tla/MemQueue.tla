------------------------------- MODULE MemQueue -------------------------------
(***************************************************************************)
(* The in-memory WorkQueue (provider/queue/memqueue) together with the     *)
(* clients that call it.  Every operation of the queue runs under one      *)
(* mutex, so each is one atomic action here; what interleaves is which     *)
(* client calls what, and when time passes between the calls.              *)
(*                                                                         *)
(* Time is relative: a job's lease field is LeaseExpiresAt - now, and Tick *)
(* lets one unit pass for every job at once.  Anything before now looks    *)
(* the same to the queue, so the field never drops below Past; the zero    *)
(* time.Time a job is enqueued with is such an instant too, and the test   *)
(* "IsZero() || now.After(...)" becomes lease < 0.                         *)
(*                                                                         *)
(* A client can name a job only by an identifier the queue gave it (IDs    *)
(* are 128 random bits), so given[c] is the set of identifiers client c    *)
(* ever got from Enqueue or Dequeue.  It may settle any of them whenever   *)
(* and as often as it likes; and leases run out, hence several clients may *)
(* settle one job in any order.                                            *)
(***************************************************************************)
EXTENDS Integers, Sequences, FiniteSets

CONSTANTS
    Clients,        \* callers of the queue: producers and workers alike
    Topics,         \* topic names
    JobIDs,         \* what newID may return, each at most once
    NoTopic,        \* an identifier absent from the index
    MaxDelay,       \* bound: longest lease timeout or retry delay, in ticks
    MaxDeliveries   \* bound: DequeueCount is not told apart above this

ASSUME NoTopicAssumption == NoTopic \notin Topics
ASSUME BoundsAssumption == MaxDelay \in Nat /\ MaxDeliveries \in Nat \ {0}

VARIABLES
    topics,     \* Queue.topics: the jobs of each topic, in arrival order
    index,      \* Queue.index: the topic of each queued job
    given,      \* environment: the identifiers each client knows
    promise,    \* ghost: what is left of the lease each client was granted
    issued,     \* ghost: the identifiers Enqueue has returned
    acked,      \* ghost: the identifiers some Ack has succeeded on
    nacked      \* ghost: the jobs whose lease field was last set by Nack

vars == <<topics, index, given, promise, issued, acked, nacked>>

-----------------------------------------------------------------------------

(* An instant that is already over. *)
Past == -1

(* Distances from now: a lease timeout or a retryAt a client may ask for.  *)
Delays == Past .. MaxDelay

Job == [id : JobIDs, dequeueCount : 0 .. MaxDeliveries, lease : Delays]

(* A job as Enqueue builds it: no lease, never handed out. *)
NewJob(j) == [id |-> j, dequeueCount |-> 0, lease |-> Past]

(* DequeueCount++, not told apart above the bound. *)
Counted(n) == IF n < MaxDeliveries THEN n + 1 ELSE n

(* A job as Dequeue hands it out with a lease of d, as Nack gives it back  *)
(* to be retried d from now, and as it is one unit of time later.          *)
Leased(job, d) == [id |-> job.id, dequeueCount |-> Counted(job.dequeueCount), lease |-> d]

Returned(job, d) == [id |-> job.id, dequeueCount |-> job.dequeueCount, lease |-> d]

Elapsed(d) == IF d > Past THEN d - 1 ELSE Past

Aged(job) == Returned(job, Elapsed(job.lease))

AvailableAtExpiry(job) == job.lease <= 0
AvailableUnlessDelivered(job) == job.dequeueCount = 0 /\ job.lease < 0

(* The test Dequeue makes of every job: the lease was never set or now is  *)
(* strictly after its end.                                                 *)
Available(job) == job.lease < 0

LastAvailable(t, i) == /\ i \in DOMAIN topics[t]
                       /\ Available(topics[t][i])
                       /\ \A k \in (i + 1) .. Len(topics[t]) : ~ Available(topics[t][k])

(* The job the scan of a topic stops at: the first available one. *)
FirstAvailable(t, i) == /\ i \in DOMAIN topics[t]
                        /\ Available(topics[t][i])
                        /\ \A k \in 1 .. (i - 1) : ~ Available(topics[t][k])

(* Job j is found: the index knows its topic and the scan of that topic    *)
(* meets it at position i.                                                 *)
FoundAt(j, i) == /\ index[j] # NoTopic
                 /\ i \in DOMAIN topics[index[j]]
                 /\ topics[index[j]][i].id = j

Found(j) == index[j] # NoTopic /\ \E i \in DOMAIN topics[index[j]] : FoundAt(j, i)

WithoutNext(s, i) == SubSeq(s, 1, i - 1) \o SubSeq(s, i + 2, Len(s))

(* append(entries[:i], entries[i+1:]...) *)
Without(s, i) == SubSeq(s, 1, i - 1) \o SubSeq(s, i + 1, Len(s))

(* The i-th entry of topic t is overwritten in place. *)
Replace(t, i, job) == [topics EXCEPT ![t] = [@ EXCEPT ![i] = job]]

(* Whoever was promised job j is promised it no longer. *)
Revoked(j) == [c \in Clients |-> [promise[c] EXCEPT ![j] = Past]]

-----------------------------------------------------------------------------

(* New: no topic has a job and the index is empty. *)
Init == /\ topics = [t \in Topics |-> << >>]
        /\ index = [j \in JobIDs |-> NoTopic]
        /\ given = [c \in Clients |-> {}]
        /\ promise = [c \in Clients |-> [j \in JobIDs |-> Past]]
        /\ issued = {}
        /\ acked = {}
        /\ nacked = {}

EnqueueIndexingItself(c, t) ==
    \E j \in JobIDs \ issued :
        /\ topics' = [topics EXCEPT ![t] = Append(@, NewJob(j))]
        /\ index' = [index EXCEPT ![j] = j]
        /\ given' = [given EXCEPT ![c] = @ \cup {j}]
        /\ issued' = issued \cup {j}
        /\ UNCHANGED <<promise, acked, nacked>>

(* Client c adds a job to topic t under a fresh identifier. *)
Enqueue(c, t) ==
    \E j \in JobIDs \ issued :
        /\ topics' = [topics EXCEPT ![t] = Append(@, NewJob(j))]
        /\ index' = [index EXCEPT ![j] = t]
        /\ given' = [given EXCEPT ![c] = @ \cup {j}]
        /\ issued' = issued \cup {j}
        /\ UNCHANGED <<promise, acked, nacked>>

(* Client c takes the first available job of topic t and leases it for d.  *)
Dequeue(c, t, d) ==
    \E i \in DOMAIN topics[t] :
        LET j == topics[t][i].id IN
        /\ FirstAvailable(t, i)
        /\ topics' = Replace(t, i, Leased(topics[t][i], d))
        /\ given' = [given EXCEPT ![c] = @ \cup {j}]
        /\ promise' = [promise EXCEPT ![c] = [@ EXCEPT ![j] = d]]
        /\ nacked' = nacked \ {j}
        /\ UNCHANGED <<index, issued, acked>>

(* Dequeue finds no available job: ErrNoJobs, and nothing changes. *)
DequeueNoJobs(c, t) ==
    /\ \A i \in DOMAIN topics[t] : ~ Available(topics[t][i])
    /\ UNCHANGED vars

AckKeepsIndex(c, j) ==
    /\ j \in given[c]
    /\ \E i \in DOMAIN topics[index[j]] :
        /\ FoundAt(j, i)
        /\ topics' = [topics EXCEPT ![index[j]] = Without(@, i)]
    /\ promise' = Revoked(j)
    /\ acked' = acked \cup {j}
    /\ nacked' = nacked \ {j}
    /\ UNCHANGED <<index, given, issued>>

(* Client c acknowledges job j; the queue does not ask whose lease it is.  *)
Ack(c, j) ==
    /\ j \in given[c]
    /\ index[j] # NoTopic
    /\ \E i \in DOMAIN topics[index[j]] :
        /\ FoundAt(j, i)
        /\ topics' = [topics EXCEPT ![index[j]] = Without(@, i)]
    /\ index' = [index EXCEPT ![j] = NoTopic]
    /\ promise' = Revoked(j)
    /\ acked' = acked \cup {j}
    /\ nacked' = nacked \ {j}
    /\ UNCHANGED <<given, issued>>

NackToBack(c, j, d) ==
    /\ j \in given[c]
    /\ index[j] # NoTopic
    /\ \E i \in DOMAIN topics[index[j]] :
        /\ FoundAt(j, i)
        /\ topics' = [topics EXCEPT ![index[j]] = Append(Without(@, i), Returned(@[i], d))]
    /\ promise' = Revoked(j)
    /\ nacked' = nacked \cup {j}
    /\ UNCHANGED <<index, given, issued, acked>>

(* Client c gives job j back, to be retried d from now; again the queue    *)
(* does not ask whose lease it is.                                         *)
Nack(c, j, d) ==
    /\ j \in given[c]
    /\ index[j] # NoTopic
    /\ \E i \in DOMAIN topics[index[j]] :
        /\ FoundAt(j, i)
        /\ topics' = Replace(index[j], i, Returned(topics[index[j]][i], d))
    /\ promise' = Revoked(j)
    /\ nacked' = nacked \cup {j}
    /\ UNCHANGED <<index, given, issued, acked>>

(* Ack or Nack of a job that was acknowledged, by whomever: NotFound. *)
SettleNotFound(c, j) ==
    /\ j \in given[c]
    /\ ~ Found(j)
    /\ UNCHANGED vars

(* Time passes. *)
Tick ==
    /\ topics' = [t \in Topics |-> [i \in DOMAIN topics[t] |-> Aged(topics[t][i])]]
    /\ promise' = [c \in Clients |-> [j \in JobIDs |-> Elapsed(promise[c][j])]]
    /\ UNCHANGED <<index, given, issued, acked, nacked>>

Next ==
    \/ \E c \in Clients, t \in Topics :
        \/ Enqueue(c, t)
        \/ \E d \in Delays : Dequeue(c, t, d)
        \/ DequeueNoJobs(c, t)
    \/ \E c \in Clients, j \in JobIDs :
        \/ Ack(c, j)
        \/ \E d \in Delays : Nack(c, j, d)
        \/ SettleNotFound(c, j)
    \/ Tick

Spec == Init /\ [][Next]_vars

-----------------------------------------------------------------------------

(***************************************************************************)
(* Fairness of clients that do their work: time goes on; a topic that has  *)
(* a job to hand out again and again is, some day, polled at such a moment *)
(* by a client that asks for a real lease; a job handed out again and      *)
(* again is acknowledged some day by a client whose lease still runs; and  *)
(* nobody goes on for ever giving back a job that is not leased to him,    *)
(* for the queue takes every Nack and puts the job off again.  Nothing is  *)
(* asked of the queue itself, whose operations never block, nor of any     *)
(* single client, which may crash while it holds a lease.                  *)
(***************************************************************************)
Poll(t) == \E c \in Clients : Dequeue(c, t, MaxDelay)

AckInTime(j) == \E c \in Clients : promise[c][j] >= 0 /\ Ack(c, j)

StrayNack(j) == \E c \in Clients, d \in Delays : promise[c][j] < 0 /\ Nack(c, j, d)

Fairness == /\ WF_vars(Tick)
            /\ \A t \in Topics : SF_vars(Poll(t))
            /\ \A j \in JobIDs : SF_vars(AckInTime(j)) /\ <>[][~ StrayNack(j)]_vars

FairSpec == Spec /\ Fairness

-----------------------------------------------------------------------------

TypeOK == /\ topics \in [Topics -> Seq(Job)]
          /\ index \in [JobIDs -> Topics \cup {NoTopic}]
          /\ given \in [Clients -> SUBSET JobIDs]
          /\ promise \in [Clients -> [JobIDs -> Delays]]
          /\ issued \in SUBSET JobIDs
          /\ acked \in SUBSET JobIDs
          /\ nacked \in SUBSET JobIDs

(* The index and the topic slices, which Enqueue and Ack update one after  *)
(* the other, agree: job j has an index entry for topic t exactly when it  *)
(* stands in t's slice, so the scans of Ack and Nack never fall through.   *)
IndexMatchesTopics ==
    \A j \in JobIDs, t \in Topics :
        index[j] = t <=> \E i \in DOMAIN topics[t] : topics[t][i].id = j

(* No job stands in the queue twice. *)
IDsUnique ==
    \A t, u \in Topics : \A i \in DOMAIN topics[t], k \in DOMAIN topics[u] :
        topics[t][i].id = topics[u][k].id => t = u /\ i = k

(* At least once: whatever clients crash, time out, nack or settle late,   *)
(* the jobs in the queue are exactly the enqueued ones nobody acknowledged,*)
(* and none of them stands there twice.                                    *)
NoJobLost ==
    /\ IDsUnique
    /\ acked \subseteq issued
    /\ \A j \in JobIDs :
        (\E t \in Topics : \E i \in DOMAIN topics[t] : topics[t][i].id = j)
            <=> j \in issued /\ j \notin acked

(* Until its lease runs out or someone settles the job, the client Dequeue *)
(* gave a job to is the only one that works on it, up to and including the *)
(* very instant the lease ends.                                            *)
ExclusiveLease ==
    \A j \in JobIDs : \A c, e \in Clients :
        promise[c][j] >= 0 /\ promise[e][j] >= 0 => c = e

(* What Dequeue promised is still there: a client whose lease runs works   *)
(* on a job that is queued under that very lease, so a job that was        *)
(* acknowledged or put off by somebody else is in nobody's hands.          *)
LeaseBacked ==
    \A c \in Clients, j \in JobIDs :
        promise[c][j] >= 0 =>
            \E t \in Topics : \E i \in DOMAIN topics[t] :
                topics[t][i].id = j /\ topics[t][i].lease = promise[c][j]

(* A job that was neither handed out nor nacked has no lease. *)
UntouchedAvailable ==
    \A t \in Topics : \A i \in DOMAIN topics[t] :
        topics[t][i].dequeueCount = 0 /\ topics[t][i].id \notin nacked
            => topics[t][i].lease < 0

(* First delivery is in order: a job is handed out ahead of an earlier one *)
(* of its topic that was never delivered only if somebody nacked that one. *)
FirstDeliveryInOrder ==
    \A t \in Topics : \A k \in DOMAIN topics[t] : \A i \in 1 .. (k - 1) :
        topics[t][k].dequeueCount > 0 /\ topics[t][i].dequeueCount = 0
            => topics[t][i].id \in nacked

(* No step reorders a topic: two jobs that are in it before and after the  *)
(* step, whatever was removed between or before them by a late Ack, stand  *)
(* in the same order.                                                      *)
KeepsOrder ==
    \A t \in Topics : \A i, k \in DOMAIN topics[t] : \A m, n \in DOMAIN topics'[t] :
        /\ topics[t][i].id = topics'[t][m].id
        /\ topics[t][k].id = topics'[t][n].id
        /\ i < k
        => m < n

(* Every step of the queue keeps the order of the jobs it leaves. *)
OrderKept == [][KeepsOrder]_vars

(* Redelivery: with clients that poll and, some day, acknowledge in time,  *)
(* every enqueued job is acknowledged by someone, however many clients     *)
(* crashed with it, let its lease run out or nacked it, and however many   *)
(* jobs stand before it in its topic.                                      *)
EveryJobAcknowledged == \A j \in JobIDs : j \in issued ~> j \in acked

-----------------------------------------------------------------------------

(* The time until job j may be handed out, where the scan finds it. *)
LeaseOf(j) ==
    IF index[j] = NoTopic THEN Past
    ELSE topics[index[j]][CHOOSE i \in DOMAIN topics[index[j]] :
                            topics[index[j]][i].id = j].lease

WQ == INSTANCE WorkQueue WITH
        place <- index,
        left <- [j \in JobIDs |-> LeaseOf(j)],
        owners <- [j \in JobIDs |-> {c \in Clients : promise[c][j] >= 0}],
        done <- acked

(* The slices, the index and the scans of them implement the WorkQueue     *)
(* interface: every operation is one step of a job that has one owner at   *)
(* most, whatever late and stray settlements there are, or changes nothing *)
(* a client could see.                                                     *)
ImplementsWorkQueue == WQ!Spec
=============================================================================

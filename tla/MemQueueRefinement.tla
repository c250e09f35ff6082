------------------------- MODULE MemQueueRefinement -------------------------
(***************************************************************************)
(* MemQueue implements WorkQueue, for any number of clients, topics, jobs  *)
(* and ticks.                                                              *)
(***************************************************************************)
EXTENDS MemQueueProofs

-----------------------------------------------------------------------------

(* The time left of every job is where the mapping looks for it. *)
LeasesRight ==
    \A j \in JobIDs :
        /\ index[j] = NoTopic => LeaseOf(j) = Past
        /\ \A t \in Topics : \A i \in DOMAIN topics[t] :
            topics[t][i].id = j => index[j] = t /\ LeaseOf(j) = topics[t][i].lease

(* Identifiers are unique, so whatever CHOOSE finds is the job. *)
LEMMA LeasesFound == QueueInv => LeasesRight
<1> SUFFICES ASSUME QueueInv, NEW j \in JobIDs, NEW t \in Topics,
                    NEW i \in DOMAIN topics[t], topics[t][i].id = j
             PROVE  index[j] = t /\ LeaseOf(j) = topics[t][i].lease
  BY DEF LeasesRight, LeaseOf
<1> DEFINE k == CHOOSE x \in DOMAIN topics[t] : topics[t][x].id = j
<1>1. index[j] = t
  BY DEF QueueInv, IndexMatchesTopics
<1>2. k \in DOMAIN topics[t] /\ topics[t][k].id = j
  OBVIOUS
<1>3. k = i
  BY <1>2 DEF QueueInv, NoJobLost, IDsUnique
<1>4. LeaseOf(j) = topics[t][k].lease
  BY <1>1, NoTopicAssumption DEF LeaseOf
<1> QED
  BY <1>1, <1>3, <1>4

(* The same of the state after a step. *)
LEMMA LeasesFoundNext == QueueInv' => LeasesRight'
  BY LeasesFound, PTL

(* A job in the index stands in its topic. *)
LEMMA JobFound ==
    ASSUME QueueInv, NEW j \in JobIDs, index[j] # NoTopic
    PROVE  /\ index[j] \in Topics
           /\ \E i \in DOMAIN topics[index[j]] : topics[index[j]][i].id = j
<1>1. index[j] \in Topics
  BY DEF QueueInv, TypeOK
<1> QED
  BY <1>1 DEF QueueInv, IndexMatchesTopics

(* What is left of a job's lease is a delay. *)
LEMMA LeaseType ==
    ASSUME QueueInv, NEW j \in JobIDs
    PROVE  LeaseOf(j) \in Delays /\ LeaseOf(j) \in Int
<1>1. LeasesRight
  BY LeasesFound
<1>2. CASE index[j] = NoTopic
  BY <1>1, <1>2, JobShapes DEF LeasesRight
<1>3. CASE index[j] # NoTopic
  <2>1. PICK i \in DOMAIN topics[index[j]] : topics[index[j]][i].id = j
    BY <1>3, JobFound
  <2>2. index[j] \in Topics /\ LeaseOf(j) = topics[index[j]][i].lease
    BY <1>1, <1>3, <2>1, JobFound DEF LeasesRight
  <2>3. topics[index[j]][i] \in Job
    BY <2>1, <2>2, Positions DEF QueueInv, TypeOK
  <2> QED
    BY <2>2, <2>3, JobShapes
<1> QED
  BY <1>2, <1>3

(* A client whose lease runs has all the time the job has. *)
LEMMA PromiseIsLease ==
    ASSUME QueueInv, NEW c \in Clients, NEW j \in JobIDs, promise[c][j] >= 0
    PROVE  LeaseOf(j) = promise[c][j]
<1>1. PICK t \in Topics : \E i \in DOMAIN topics[t] :
        topics[t][i].id = j /\ topics[t][i].lease = promise[c][j]
  BY DEF QueueInv, LeaseBacked
<1>2. PICK i \in DOMAIN topics[t] : topics[t][i].id = j /\ topics[t][i].lease = promise[c][j]
  BY <1>1
<1> QED
  BY <1>2, LeasesFound DEF LeasesRight

(* What the queue shows of job j: the time left and who owns it. *)
Owners(j) == {c \in Clients : promise[c][j] >= 0}

-----------------------------------------------------------------------------

(* A job that keeps its lease, wherever in its topic it now stands. *)
LEMMA StaysPut ==
    ASSUME QueueInv, QueueInv', NEW j \in JobIDs,
           index'[j] = index[j],
           \A t \in Topics : \A i \in DOMAIN topics[t] : topics[t][i].id = j =>
                \E k \in DOMAIN topics'[t] : topics'[t][k] = topics[t][i]
    PROVE  LeaseOf(j)' = LeaseOf(j)
<1>1. LeasesRight /\ LeasesRight'
  BY LeasesFound, LeasesFoundNext
<1>2. CASE index[j] = NoTopic
  BY <1>1, <1>2 DEF LeasesRight
<1>3. CASE index[j] # NoTopic
  <2>1. PICK i \in DOMAIN topics[index[j]] : topics[index[j]][i].id = j
    BY <1>3, JobFound
  <2>2. index[j] \in Topics
    BY <1>3, JobFound
  <2>3. PICK k \in DOMAIN topics'[index[j]] : topics'[index[j]][k] = topics[index[j]][i]
    BY <2>1, <2>2
  <2>4. LeaseOf(j) = topics[index[j]][i].lease
    BY <1>1, <2>1, <2>2 DEF LeasesRight
  <2>5. LeaseOf(j)' = topics'[index[j]][k].lease
    BY <1>1, <2>1, <2>2, <2>3 DEF LeasesRight
  <2> QED
    BY <2>3, <2>4, <2>5
<1> QED
  BY <1>2, <1>3

(* Enqueue is Add. *)
LEMMA EnqueueMaps ==
    ASSUME QueueInv, QueueInv', NEW c \in Clients, NEW t \in Topics, Enqueue(c, t)
    PROVE  WQ!Next
<1>1. PICK j \in JobIDs \ issued :
        /\ topics' = [topics EXCEPT ![t] = Append(@, NewJob(j))]
        /\ index' = [index EXCEPT ![j] = t]
        /\ UNCHANGED <<promise, acked, nacked>>
  BY DEF Enqueue
<1>2. /\ j \notin acked
      /\ index[j] = NoTopic
      /\ index \in [JobIDs -> Topics \cup {NoTopic}]
  <2>1. j \notin acked
    BY DEF QueueInv, NoJobLost
  <2>2. index[j] \notin Topics
    BY DEF QueueInv, NoJobLost, IndexMatchesTopics
  <2> QED
    BY <2>1, <2>2 DEF QueueInv, TypeOK
<1>3. /\ Len(topics[t]) \in Nat
      /\ \A u \in Topics : DOMAIN topics[u] = 1 .. Len(topics[u])
      /\ \A u \in Topics : DOMAIN topics'[u] = 1 .. Len(topics'[u])
  BY Positions DEF QueueInv, TypeOK
<1>4. /\ Len(topics'[t]) = Len(topics[t]) + 1
      /\ topics'[t][Len(topics[t]) + 1] = NewJob(j)
      /\ \A k \in 1 .. Len(topics[t]) : topics'[t][k] = topics[t][k]
      /\ \A u \in Topics \ {t} : topics'[u] = topics[u]
  BY <1>1, EnqueueShape DEF QueueInv
<1>5. ASSUME NEW m \in JobIDs PROVE LeaseOf(m)' = LeaseOf(m)
  <2>1. CASE m = j
    <3>1. LeaseOf(j) = Past
      BY <1>2 DEF LeaseOf
    <3>2. Len(topics[t]) + 1 \in DOMAIN topics'[t]
      BY <1>3, <1>4
    <3>3. NewJob(j).id = j /\ NewJob(j).lease = Past
      BY DEF NewJob
    <3>4. LeaseOf(j)' = Past
      BY <1>4, <3>2, <3>3, LeasesFoundNext DEF LeasesRight
    <3> QED
      BY <2>1, <3>1, <3>4
  <2>2. CASE m # j
    <3>1. index'[m] = index[m]
      BY <1>1, <1>2, <2>2
    <3>2. \A u \in Topics : \A i \in DOMAIN topics[u] :
            i \in DOMAIN topics'[u] /\ topics'[u][i] = topics[u][i]
      BY <1>3, <1>4
    <3> QED
      BY <3>1, <3>2, StaysPut
  <2> QED
    BY <2>1, <2>2
<1>6. WQ!Add(j, t)
  BY <1>1, <1>2, <1>5 DEF WQ!Add
<1> QED
  BY <1>6 DEF WQ!Next

(* Nobody owns a job that is available. *)
LEMMA AvailableIsFree ==
    ASSUME QueueInv, NEW j \in JobIDs, LeaseOf(j) < 0
    PROVE  Owners(j) = {}
<1> SUFFICES ASSUME NEW c \in Clients, promise[c][j] >= 0 PROVE FALSE
  BY DEF Owners
<1> QED
  BY PromiseIsLease, PromiseIsInt DEF QueueInv

(* Dequeue of an available job is HandOut. *)
LEMMA DequeueMaps ==
    ASSUME QueueInv, QueueInv', NEW c \in Clients, NEW t \in Topics, NEW d \in Delays,
           Dequeue(c, t, d)
    PROVE  WQ!Next
<1>1. PICK i \in DOMAIN topics[t] :
        /\ FirstAvailable(t, i)
        /\ topics' = Replace(t, i, Leased(topics[t][i], d))
        /\ promise' = [promise EXCEPT ![c] = [@ EXCEPT ![topics[t][i].id] = d]]
        /\ UNCHANGED <<index, issued, acked>>
  BY DEF Dequeue
<1>1a. PICK j \in JobIDs : topics[t][i].id = j
  BY Positions DEF QueueInv, TypeOK
<1>2. /\ \A u \in Topics : DOMAIN topics[u] = 1 .. Len(topics[u])
      /\ \A u \in Topics : DOMAIN topics'[u] = 1 .. Len(topics'[u])
      /\ topics[t][i] \in Job
  BY Positions DEF QueueInv, TypeOK
<1>3. /\ Leased(topics[t][i], d) \in Job
      /\ Leased(topics[t][i], d).id = j
      /\ Leased(topics[t][i], d).lease = d
  BY <1>1a, <1>2, JobShapes
<1>4. /\ \A u \in Topics : Len(topics'[u]) = Len(topics[u])
      /\ topics'[t][i] = Leased(topics[t][i], d)
      /\ \A u \in Topics : \A k \in 1 .. Len(topics[u]) :
            u # t \/ k # i => topics'[u][k] = topics[u][k]
  BY <1>1, <1>3, ReplaceShape DEF QueueInv
<1>5. index[j] = t /\ LeaseOf(j) = topics[t][i].lease
  BY <1>1a, LeasesFound DEF LeasesRight
<1>6. LeaseOf(j) < 0
  BY <1>1, <1>5 DEF FirstAvailable, Available
<1>7. LeaseOf(j)' = d
  BY <1>2, <1>3, <1>4, LeasesFoundNext DEF LeasesRight
<1>8. ASSUME NEW m \in JobIDs, m # j PROVE LeaseOf(m)' = LeaseOf(m)
  <2>1. \A u \in Topics : \A k \in DOMAIN topics[u] : topics[u][k].id = m =>
            k \in DOMAIN topics'[u] /\ topics'[u][k] = topics[u][k]
    BY <1>1a, <1>2, <1>4, <1>8
  <2> QED
    BY <1>1, <2>1, StaysPut
<1>9. \A m \in JobIDs : Owners(m)' = IF m = j THEN WQ!Owning(c, d) ELSE Owners(m)
  <2>1. promise \in [Clients -> [JobIDs -> Delays]]
    BY DEF QueueInv, TypeOK
  <2>2. \A e \in Clients, m \in JobIDs :
            promise'[e][m] = IF e = c /\ m = j THEN d ELSE promise[e][m]
    BY <1>1a, <1>1, <2>1
  <2>3. \A e \in Clients : ~ (promise[e][j] >= 0)
    BY <1>6, AvailableIsFree DEF Owners
  <2>4. ASSUME NEW m \in JobIDs, m # j PROVE Owners(m)' = Owners(m)
    BY <2>2, <2>4 DEF Owners
  <2>5. Owners(j)' = WQ!Owning(c, d)
    BY <2>2, <2>3 DEF Owners, WQ!Owning
  <2> QED
    BY <2>4, <2>5
<1>10. WQ!HandOut(c, j, d)
  <2>1. index[j] # NoTopic
    BY <1>5, NoTopicAssumption
  <2>2. [m \in JobIDs |-> LeaseOf(m)]' = [[m \in JobIDs |-> LeaseOf(m)] EXCEPT ![j] = d]
    BY <1>7, <1>8
  <2>3. [m \in JobIDs |-> Owners(m)]'
            = [[m \in JobIDs |-> Owners(m)] EXCEPT ![j] = WQ!Owning(c, d)]
    BY <1>9
  <2> QED
    BY <1>1, <1>6, <2>1, <2>2, <2>3 DEF WQ!HandOut, Owners
<1> QED
  BY <1>10 DEF WQ!Next

(* Whoever was promised job j is promised it no longer, the rest stays. *)
LEMMA RevokedOwners ==
    ASSUME QueueInv, NEW j \in JobIDs, promise' = Revoked(j)
    PROVE  [m \in JobIDs |-> Owners(m)]' = [[m \in JobIDs |-> Owners(m)] EXCEPT ![j] = {}]
<1>1. promise \in [Clients -> [JobIDs -> Delays]]
  BY DEF QueueInv, TypeOK
<1>2. \A e \in Clients, m \in JobIDs :
        promise'[e][m] = IF m = j THEN Past ELSE promise[e][m]
  BY <1>1 DEF Revoked
<1>3. Owners(j)' = {}
  BY <1>2 DEF Owners, Past
<1>4. ASSUME NEW m \in JobIDs, m # j PROVE Owners(m)' = Owners(m)
  BY <1>2, <1>4 DEF Owners
<1> QED
  BY <1>3, <1>4

(* Ack is Finish, whoever calls it. *)
LEMMA AckMaps ==
    ASSUME QueueInv, QueueInv', NEW c \in Clients, NEW j \in JobIDs, Ack(c, j)
    PROVE  WQ!Next
<1>1. /\ index[j] # NoTopic
      /\ index' = [index EXCEPT ![j] = NoTopic]
      /\ promise' = Revoked(j)
      /\ acked' = acked \cup {j}
  BY DEF Ack
<1>2. PICK t \in Topics : t = index[j]
  BY <1>1 DEF QueueInv, TypeOK
<1>3. PICK i \in DOMAIN topics[t] :
        topics[t][i].id = j /\ topics' = [topics EXCEPT ![t] = Without(@, i)]
  BY <1>2 DEF Ack, FoundAt
<1>4. /\ Len(topics'[t]) = Len(topics[t]) - 1
      /\ \A k \in 1 .. (Len(topics[t]) - 1) :
            topics'[t][k] = IF k < i THEN topics[t][k] ELSE topics[t][k + 1]
      /\ \A u \in Topics \ {t} : topics'[u] = topics[u]
  BY <1>3, RemoveShape DEF QueueInv
<1>5. /\ \A u \in Topics : Len(topics[u]) \in Nat
      /\ \A u \in Topics : DOMAIN topics[u] = 1 .. Len(topics[u])
      /\ \A u \in Topics : DOMAIN topics'[u] = 1 .. Len(topics'[u])
  BY Positions DEF QueueInv, TypeOK
<1>6. index \in [JobIDs -> Topics \cup {NoTopic}]
  BY DEF QueueInv, TypeOK
<1>7. LeaseOf(j)' = Past
  BY <1>1, <1>6 DEF LeaseOf
<1>8. ASSUME NEW m \in JobIDs, m # j PROVE LeaseOf(m)' = LeaseOf(m)
  <2>1. ASSUME NEW u \in Topics, NEW h \in DOMAIN topics[u], topics[u][h].id = m
        PROVE  \E k \in DOMAIN topics'[u] : topics'[u][k] = topics[u][h]
    <3>1. CASE u # t
      BY <1>4, <3>1
    <3>2. CASE u = t /\ h < i
      <4>1. h \in 1 .. (Len(topics[t]) - 1)
        BY <1>5, <3>2
      <4> QED
        BY <1>4, <1>5, <3>2, <4>1
    <3>3. CASE u = t /\ h > i
      <4>1. h - 1 \in 1 .. (Len(topics[t]) - 1) /\ ~ (h - 1 < i) /\ (h - 1) + 1 = h
        BY <1>5, <3>3
      <4> QED
        BY <1>4, <1>5, <3>3, <4>1
    <3>4. ~ (u = t /\ h = i)
      BY <1>3, <1>8, <2>1
    <3> QED
      BY <1>5, <3>1, <3>2, <3>3, <3>4
  <2>2. index'[m] = index[m]
    BY <1>1, <1>6, <1>8
  <2> QED
    BY <2>1, <2>2, StaysPut
<1>9. [m \in JobIDs |-> LeaseOf(m)]' = [[m \in JobIDs |-> LeaseOf(m)] EXCEPT ![j] = WQ!Over]
  BY <1>7, <1>8 DEF WQ!Over, Past
<1>10. WQ!Finish(j)
  BY <1>1, <1>9, RevokedOwners DEF WQ!Finish, Owners
<1> QED
  BY <1>10 DEF WQ!Next

(* Nack is PutOff, whoever calls it. *)
LEMMA NackMaps ==
    ASSUME QueueInv, QueueInv', NEW c \in Clients, NEW j \in JobIDs, NEW d \in Delays,
           Nack(c, j, d)
    PROVE  WQ!Next
<1>1. /\ index[j] # NoTopic
      /\ promise' = Revoked(j)
      /\ UNCHANGED <<index, acked>>
  BY DEF Nack
<1>2. PICK t \in Topics : t = index[j]
  BY <1>1 DEF QueueInv, TypeOK
<1>3. PICK i \in DOMAIN topics[t] :
        topics[t][i].id = j /\ topics' = Replace(t, i, Returned(topics[t][i], d))
  BY <1>2 DEF Nack, FoundAt
<1>4. /\ \A u \in Topics : DOMAIN topics[u] = 1 .. Len(topics[u])
      /\ \A u \in Topics : DOMAIN topics'[u] = 1 .. Len(topics'[u])
      /\ topics[t][i] \in Job
  BY Positions DEF QueueInv, TypeOK
<1>5. /\ Returned(topics[t][i], d) \in Job
      /\ Returned(topics[t][i], d).id = j
      /\ Returned(topics[t][i], d).lease = d
  BY <1>3, <1>4, JobShapes
<1>6. /\ \A u \in Topics : Len(topics'[u]) = Len(topics[u])
      /\ topics'[t][i] = Returned(topics[t][i], d)
      /\ \A u \in Topics : \A k \in 1 .. Len(topics[u]) :
            u # t \/ k # i => topics'[u][k] = topics[u][k]
  BY <1>3, <1>5, ReplaceShape DEF QueueInv
<1>7. LeaseOf(j)' = d
  BY <1>4, <1>5, <1>6, LeasesFoundNext DEF LeasesRight
<1>8. ASSUME NEW m \in JobIDs, m # j PROVE LeaseOf(m)' = LeaseOf(m)
  <2>1. \A u \in Topics : \A k \in DOMAIN topics[u] : topics[u][k].id = m =>
            k \in DOMAIN topics'[u] /\ topics'[u][k] = topics[u][k]
    BY <1>3, <1>4, <1>6, <1>8
  <2> QED
    BY <1>1, <2>1, StaysPut
<1>9. [m \in JobIDs |-> LeaseOf(m)]' = [[m \in JobIDs |-> LeaseOf(m)] EXCEPT ![j] = d]
  BY <1>7, <1>8
<1>10. WQ!PutOff(j, d)
  BY <1>1, <1>9, RevokedOwners DEF WQ!PutOff, Owners
<1> QED
  BY <1>10 DEF WQ!Next

(* Tick is Pass: every job and its owner, if it has one, lose one unit of  *)
(* time, and they run out of it together.                                  *)
LEMMA TickMaps ==
    ASSUME QueueInv, QueueInv', Tick
    PROVE  WQ!Next
<1>1. UNCHANGED <<index, acked>>
  BY DEF Tick
<1>2. /\ \A u \in Topics : DOMAIN topics[u] = 1 .. Len(topics[u])
      /\ \A u \in Topics : DOMAIN topics'[u] = 1 .. Len(topics'[u])
      /\ \A u \in Topics : \A k \in 1 .. Len(topics[u]) : topics[u][k] \in Job
  BY Positions DEF QueueInv, TypeOK
<1>3. /\ \A u \in Topics : Len(topics'[u]) = Len(topics[u])
      /\ \A u \in Topics : \A k \in 1 .. Len(topics[u]) : topics'[u][k] = Aged(topics[u][k])
  BY TickShape DEF QueueInv
<1>4. ASSUME NEW m \in JobIDs PROVE LeaseOf(m)' = Elapsed(LeaseOf(m))
  <2>1. CASE index[m] = NoTopic
    BY <1>1, <2>1 DEF LeaseOf, Elapsed, Past
  <2>2. CASE index[m] # NoTopic
    <3>1. PICK u \in Topics : u = index[m]
      BY <2>2, JobFound
    <3>2. PICK k \in DOMAIN topics[u] : topics[u][k].id = m
      BY <2>2, <3>1, JobFound
    <3>3. k \in DOMAIN topics'[u] /\ topics[u][k] \in Job /\ topics'[u][k] = Aged(topics[u][k])
      BY <1>2, <1>3, <3>2
    <3>4. topics'[u][k].id = m /\ topics'[u][k].lease = Elapsed(topics[u][k].lease)
      BY <3>2, <3>3, JobShapes
    <3>5. LeaseOf(m) = topics[u][k].lease
      BY <3>2, LeasesFound DEF LeasesRight
    <3>6. LeaseOf(m)' = topics'[u][k].lease
      BY <3>3, <3>4, LeasesFoundNext DEF LeasesRight
    <3> QED
      BY <3>4, <3>5, <3>6
  <2> QED
    BY <2>1, <2>2
<1>5. \A e \in Clients, m \in JobIDs : promise'[e][m] = Elapsed(promise[e][m])
  BY DEF Tick
<1>6. ASSUME NEW m \in JobIDs
      PROVE  Owners(m)' = IF LeaseOf(m) > 0 THEN Owners(m) ELSE {}
  <2>1. LeaseOf(m) \in Int
    BY LeaseType
  <2>2. ASSUME NEW e \in Clients
        PROVE  promise'[e][m] >= 0 <=> LeaseOf(m) > 0 /\ promise[e][m] >= 0
    <3>1. promise[e][m] \in Int /\ promise'[e][m] = Elapsed(promise[e][m])
      BY <1>5, PromiseIsInt DEF QueueInv
    <3>2. promise'[e][m] >= 0 <=> promise[e][m] > 0
      BY <3>1 DEF Elapsed, Past
    <3>3. promise[e][m] >= 0 => LeaseOf(m) = promise[e][m]
      BY PromiseIsLease
    <3> QED
      BY <2>1, <3>1, <3>2, <3>3
  <2> QED
    BY <2>2 DEF Owners
<1>7. WQ!Pass
  BY <1>1, <1>4, <1>6 DEF WQ!Pass, WQ!Over, Owners, Elapsed, Past
<1> QED
  BY <1>7 DEF WQ!Next

-----------------------------------------------------------------------------

(* Every step of the queue is a step of the interface or changes nothing   *)
(* it shows.                                                               *)
LEMMA StepMaps ==
    ASSUME QueueInv, QueueInv', [Next]_vars
    PROVE  [WQ!Next]_(WQ!vars)
<1>1. ASSUME NEW c \in Clients, NEW t \in Topics, Enqueue(c, t) PROVE WQ!Next
  BY <1>1, EnqueueMaps
<1>2. ASSUME NEW c \in Clients, NEW t \in Topics, NEW d \in Delays, Dequeue(c, t, d)
      PROVE  WQ!Next
  BY <1>2, DequeueMaps
<1>3. ASSUME NEW c \in Clients, NEW j \in JobIDs, Ack(c, j) PROVE WQ!Next
  BY <1>3, AckMaps
<1>4. ASSUME NEW c \in Clients, NEW j \in JobIDs, NEW d \in Delays, Nack(c, j, d)
      PROVE  WQ!Next
  BY <1>4, NackMaps
<1>5. CASE Tick
  BY <1>5, TickMaps
<1>6. ASSUME UNCHANGED <<topics, index, promise, acked>> PROVE UNCHANGED WQ!vars
  BY <1>6 DEF WQ!vars, LeaseOf
<1>7. ASSUME NEW c \in Clients, NEW t \in Topics, DequeueNoJobs(c, t) PROVE UNCHANGED WQ!vars
  BY <1>6, <1>7 DEF DequeueNoJobs, vars
<1>8. ASSUME NEW c \in Clients, NEW j \in JobIDs, SettleNotFound(c, j) PROVE UNCHANGED WQ!vars
  BY <1>6, <1>8 DEF SettleNotFound, vars
<1>9. CASE UNCHANGED vars
  BY <1>6, <1>9 DEF vars
<1> QED
  BY <1>1, <1>2, <1>3, <1>4, <1>5, <1>7, <1>8, <1>9 DEF Next

(* memqueue implements the WorkQueue interface for any clients, topics,    *)
(* identifiers and delays: what clients see of its slices and its index is *)
(* a job that is queued once, has one owner at most and never comes back   *)
(* after its Ack.                                                          *)
THEOREM Refinement == Spec => ImplementsWorkQueue
<1>1. Init => WQ!Init
  BY DEF Init, WQ!Init, WQ!Over, LeaseOf, Past
<1>2. QueueInv /\ QueueInv' /\ [Next]_vars => [WQ!Next]_(WQ!vars)
  BY StepMaps
<1> QED
  BY <1>1, <1>2, Invariance, PTL DEF Spec, ImplementsWorkQueue, WQ!Spec
=============================================================================

--------------------------- MODULE MemQueueProofs ---------------------------
(***************************************************************************)
(* Proofs about MemQueue for any number of clients, topics, jobs and ticks.*)
(***************************************************************************)
EXTENDS MemQueue, SequenceTheorems, TLAPS

-----------------------------------------------------------------------------

(* What Ack leaves of a topic's slice: the jobs before position i stay     *)
(* where they are and the later ones move up by one.                       *)
LEMMA WithoutShape ==
    ASSUME NEW S, NEW s \in Seq(S), NEW i \in 1 .. Len(s)
    PROVE  /\ Without(s, i) \in Seq(S)
           /\ Len(Without(s, i)) = Len(s) - 1
           /\ \A k \in 1 .. (Len(s) - 1) :
                Without(s, i)[k] = IF k < i THEN s[k] ELSE s[k + 1]
<1> DEFINE a == SubSeq(s, 1, i - 1)
           b == SubSeq(s, i + 1, Len(s))
<1>1. /\ a \in Seq(S)
      /\ Len(a) = i - 1
      /\ \A k \in 1 .. (i - 1) : a[k] = s[k]
  OBVIOUS
<1>2. /\ b \in Seq(S)
      /\ Len(b) = Len(s) - i
      /\ \A k \in 1 .. (Len(s) - i) : b[k] = s[i + k]
  OBVIOUS
<1> HIDE DEF a, b
<1>3. /\ a \o b \in Seq(S)
      /\ Len(a \o b) = Len(s) - 1
  <2>1. a \o b \in Seq(S) /\ Len(a \o b) = Len(a) + Len(b)
    BY <1>1, <1>2, ConcatProperties
  <2>2. Len(s) \in Nat
    BY LenProperties
  <2> QED
    BY <1>1, <1>2, <2>1, <2>2
<1>4. ASSUME NEW k \in 1 .. (Len(s) - 1)
      PROVE  (a \o b)[k] = IF k < i THEN s[k] ELSE s[k + 1]
  <2>1. (a \o b)[k] = IF k <= Len(a) THEN a[k] ELSE b[k - Len(a)]
    <3>1. k \in 1 .. Len(a) + Len(b)
      BY <1>1, <1>2
    <3> QED
      BY <1>1, <1>2, <3>1, ConcatProperties
  <2> QED
    BY <1>1, <1>2, <2>1
<1> QED
  BY <1>3, <1>4 DEF Without, a, b

(* What the actions make of a job. *)
LEMMA JobShapes ==
    /\ Past \in Delays
    /\ \A j \in JobIDs : /\ NewJob(j) \in Job
                         /\ NewJob(j).id = j
                         /\ NewJob(j).dequeueCount = 0
                         /\ NewJob(j).lease < 0
    /\ \A job \in Job, d \in Delays :
        /\ Leased(job, d) \in Job
        /\ Leased(job, d).id = job.id
        /\ Leased(job, d).lease = d
        /\ Leased(job, d).dequeueCount > 0
        /\ Returned(job, d) \in Job
        /\ Returned(job, d).id = job.id
        /\ Returned(job, d).lease = d
        /\ Returned(job, d).dequeueCount = job.dequeueCount
    /\ \A job \in Job :
        /\ Aged(job) \in Job
        /\ Aged(job).id = job.id
        /\ Aged(job).lease = Elapsed(job.lease)
        /\ Aged(job).dequeueCount = job.dequeueCount
    /\ \A job \in Job : /\ job.id \in JobIDs
                        /\ job.dequeueCount \in Nat
                        /\ job.lease \in Delays
    /\ \A d \in Delays : /\ d \in Int
                         /\ Elapsed(d) \in Delays
                         /\ d < 0 => Elapsed(d) < 0
                         /\ Elapsed(d) >= 0 => d > 0 /\ Elapsed(d) = d - 1
<1> USE BoundsAssumption DEF Past, Delays
<1>1. \A d \in Delays : /\ d \in Int
                        /\ Elapsed(d) \in Delays
                        /\ d < 0 => Elapsed(d) < 0
                        /\ Elapsed(d) >= 0 => d > 0 /\ Elapsed(d) = d - 1
  BY DEF Elapsed
<1>2. \A n \in 0 .. MaxDeliveries : Counted(n) \in 0 .. MaxDeliveries /\ Counted(n) > 0
  BY DEF Counted
<1>3. \A job \in Job : /\ job.id \in JobIDs
                       /\ job.dequeueCount \in 0 .. MaxDeliveries
                       /\ job.lease \in Delays
  BY DEF Job
<1>4. \A j \in JobIDs : /\ NewJob(j) \in Job
                        /\ NewJob(j).id = j
                        /\ NewJob(j).dequeueCount = 0
                        /\ NewJob(j).lease < 0
  BY DEF NewJob, Job
<1>5. ASSUME NEW job \in Job, NEW d \in Delays
      PROVE  /\ Leased(job, d) \in Job
             /\ Leased(job, d).id = job.id
             /\ Leased(job, d).lease = d
             /\ Leased(job, d).dequeueCount > 0
  BY <1>2, <1>3 DEF Leased, Job
<1>6. ASSUME NEW job \in Job, NEW d \in Delays
      PROVE  /\ Returned(job, d) \in Job
             /\ Returned(job, d).id = job.id
             /\ Returned(job, d).lease = d
             /\ Returned(job, d).dequeueCount = job.dequeueCount
  BY <1>3 DEF Returned, Job
<1>7. ASSUME NEW job \in Job
      PROVE  /\ Aged(job) \in Job
             /\ Aged(job).id = job.id
             /\ Aged(job).lease = Elapsed(job.lease)
             /\ Aged(job).dequeueCount = job.dequeueCount
  BY <1>1, <1>3, <1>6 DEF Aged
<1>8. Past \in Delays
  OBVIOUS
<1>9. \A job \in Job : /\ job.id \in JobIDs
                       /\ job.dequeueCount \in Nat
                       /\ job.lease \in Delays
  BY <1>3
<1> HIDE BoundsAssumption DEF Past, Delays
<1> QED
  BY <1>1, <1>4, <1>5, <1>6, <1>7, <1>8, <1>9, ZenonT(30)

-----------------------------------------------------------------------------

(***************************************************************************)
(* What each action makes of the topics: the length of every slice and the *)
(* job at every position.  The proofs below use these shapes only.         *)
(***************************************************************************)

(* What Enqueue makes of the topics: one job more at the end of one slice. *)
LEMMA EnqueueShape ==
    ASSUME TypeOK, NEW t \in Topics, NEW j \in JobIDs,
           topics' = [topics EXCEPT ![t] = Append(@, NewJob(j))]
    PROVE  /\ topics' \in [Topics -> Seq(Job)]
           /\ Len(topics'[t]) = Len(topics[t]) + 1
           /\ topics'[t][Len(topics[t]) + 1] = NewJob(j)
           /\ \A k \in 1 .. Len(topics[t]) : topics'[t][k] = topics[t][k]
           /\ \A u \in Topics \ {t} : topics'[u] = topics[u]
<1>1. topics'[t] = Append(topics[t], NewJob(j))
  BY DEF TypeOK
<1>2. topics[t] \in Seq(Job) /\ NewJob(j) \in Job
  BY JobShapes DEF TypeOK
<1>3. /\ Append(topics[t], NewJob(j)) \in Seq(Job)
      /\ Len(Append(topics[t], NewJob(j))) = Len(topics[t]) + 1
      /\ \A k \in 1 .. Len(topics[t]) : Append(topics[t], NewJob(j))[k] = topics[t][k]
      /\ Append(topics[t], NewJob(j))[Len(topics[t]) + 1] = NewJob(j)
  BY <1>2, AppendProperties
<1> QED
  BY <1>1, <1>2, <1>3 DEF TypeOK

(* What overwriting one entry makes of the topics. *)
LEMMA ReplaceShape ==
    ASSUME TypeOK, NEW t \in Topics, NEW i \in DOMAIN topics[t], NEW job \in Job,
           topics' = Replace(t, i, job)
    PROVE  /\ topics' \in [Topics -> Seq(Job)]
           /\ \A u \in Topics : Len(topics'[u]) = Len(topics[u])
           /\ topics'[t][i] = job
           /\ \A u \in Topics : \A k \in 1 .. Len(topics[u]) :
                u # t \/ k # i => topics'[u][k] = topics[u][k]
<1>1. topics'[t] = [topics[t] EXCEPT ![i] = job]
  BY DEF TypeOK, Replace
<1>2. topics[t] \in Seq(Job) /\ i \in 1 .. Len(topics[t])
  BY LenProperties DEF TypeOK
<1>3. /\ [topics[t] EXCEPT ![i] = job] \in Seq(Job)
      /\ Len([topics[t] EXCEPT ![i] = job]) = Len(topics[t])
      /\ \A k \in 1 .. Len(topics[t]) :
            [topics[t] EXCEPT ![i] = job][k] = IF k = i THEN job ELSE topics[t][k]
  BY <1>2, ExceptSeq
<1>4. /\ topics' \in [Topics -> Seq(Job)]
      /\ \A u \in Topics \ {t} : topics'[u] = topics[u]
  BY <1>3 DEF TypeOK, Replace
<1> QED
  BY <1>1, <1>2, <1>3, <1>4

(* What Ack makes of the topics. *)
LEMMA RemoveShape ==
    ASSUME TypeOK, NEW t \in Topics, NEW i \in DOMAIN topics[t],
           topics' = [topics EXCEPT ![t] = Without(@, i)]
    PROVE  /\ topics' \in [Topics -> Seq(Job)]
           /\ Len(topics'[t]) = Len(topics[t]) - 1
           /\ \A k \in 1 .. (Len(topics[t]) - 1) :
                topics'[t][k] = IF k < i THEN topics[t][k] ELSE topics[t][k + 1]
           /\ \A u \in Topics \ {t} : topics'[u] = topics[u]
<1>1. topics'[t] = Without(topics[t], i)
  BY DEF TypeOK
<1>2. topics[t] \in Seq(Job) /\ i \in 1 .. Len(topics[t])
  BY LenProperties DEF TypeOK
<1>3. /\ Without(topics[t], i) \in Seq(Job)
      /\ Len(Without(topics[t], i)) = Len(topics[t]) - 1
      /\ \A k \in 1 .. (Len(topics[t]) - 1) :
            Without(topics[t], i)[k] = IF k < i THEN topics[t][k] ELSE topics[t][k + 1]
  BY <1>2, WithoutShape
<1> QED
  BY <1>1, <1>2, <1>3 DEF TypeOK

(* What the passing of time makes of the topics. *)
LEMMA TickShape ==
    ASSUME TypeOK, Tick
    PROVE  /\ topics' \in [Topics -> Seq(Job)]
           /\ \A u \in Topics : Len(topics'[u]) = Len(topics[u])
           /\ \A u \in Topics : \A k \in 1 .. Len(topics[u]) : topics'[u][k] = Aged(topics[u][k])
<1>1. ASSUME NEW u \in Topics
      PROVE  /\ topics'[u] \in Seq(Job)
             /\ Len(topics'[u]) = Len(topics[u])
             /\ \A k \in 1 .. Len(topics[u]) : topics'[u][k] = Aged(topics[u][k])
  <2>1. topics[u] \in Seq(Job)
    BY DEF TypeOK
  <2>2. DOMAIN topics[u] = 1 .. Len(topics[u]) /\ Len(topics[u]) \in Nat
    BY <2>1, LenProperties
  <2>3. \A k \in 1 .. Len(topics[u]) : Aged(topics[u][k]) \in Job
    BY <2>1, ElementOfSeq, JobShapes
  <2>4. topics'[u] = [k \in 1 .. Len(topics[u]) |-> Aged(topics[u][k])]
    BY <2>2 DEF Tick
  <2> QED
    BY <2>2, <2>3, <2>4
<1>2. topics' = [t \in Topics |-> topics'[t]]
  BY DEF Tick
<1> QED
  BY <1>1, <1>2

-----------------------------------------------------------------------------

(***************************************************************************)
(* The inductive invariant.  ExclusiveLease alone is not inductive: that   *)
(* Dequeue gives a job to nobody while a lease on it runs needs            *)
(* LeaseBacked, which ties the promise to the field the queue looks at,    *)
(* and, to know that it is the same job, the uniqueness in NoJobLost.      *)
(* FirstDeliveryInOrder needs UntouchedAvailable: the scan cannot pass     *)
(* over a job that was neither handed out nor nacked.                      *)
(***************************************************************************)
QueueInv == /\ TypeOK
            /\ IndexMatchesTopics
            /\ NoJobLost
            /\ LeaseBacked
            /\ ExclusiveLease
            /\ UntouchedAvailable
            /\ FirstDeliveryInOrder

(* Positions and jobs of well-typed topics. *)
LEMMA Positions ==
    ASSUME NEW f \in [Topics -> Seq(Job)]
    PROVE  \A t \in Topics :
             /\ Len(f[t]) \in Nat
             /\ DOMAIN f[t] = 1 .. Len(f[t])
             /\ \A k \in 1 .. Len(f[t]) : /\ f[t][k] \in Job
                                          /\ f[t][k].id \in JobIDs
                                          /\ f[t][k].dequeueCount \in Nat
                                          /\ f[t][k].lease \in Int
<1> TAKE t \in Topics
<1>1. f[t] \in Seq(Job)
  OBVIOUS
<1>2. Len(f[t]) \in Nat /\ DOMAIN f[t] = 1 .. Len(f[t])
  BY <1>1, LenProperties
<1>3. \A k \in 1 .. Len(f[t]) : f[t][k] \in Job
  BY <1>1, ElementOfSeq
<1> QED
  BY <1>2, <1>3, JobShapes

(* What is left of a lease is a number. *)
LEMMA PromiseIsInt ==
    ASSUME TypeOK
    PROVE  \A c \in Clients, j \in JobIDs : promise[c][j] \in Delays /\ promise[c][j] \in Int
  BY JobShapes DEF TypeOK

(* A step that leaves every job in its place and the index alone keeps the *)
(* index and the set of jobs right.                                        *)
LEMMA SameJobs ==
    ASSUME TypeOK, IndexMatchesTopics, NoJobLost,
           topics' \in [Topics -> Seq(Job)],
           \A u \in Topics : Len(topics'[u]) = Len(topics[u]),
           \A u \in Topics : \A k \in 1 .. Len(topics[u]) : topics'[u][k].id = topics[u][k].id,
           UNCHANGED <<index, issued, acked>>
    PROVE  IndexMatchesTopics' /\ NoJobLost'
<1>1. \A u \in Topics : DOMAIN topics[u] = 1 .. Len(topics[u])
  BY Positions DEF TypeOK
<1>2. \A u \in Topics : DOMAIN topics'[u] = DOMAIN topics[u]
  BY <1>1, Positions
<1>3. \A u \in Topics : \A k \in DOMAIN topics[u] : topics'[u][k].id = topics[u][k].id
  BY <1>1
<1>4. IndexMatchesTopics'
  BY <1>2, <1>3 DEF IndexMatchesTopics
<1>5. IDsUnique'
  BY <1>2, <1>3 DEF NoJobLost, IDsUnique
<1>6. NoJobLost'
  BY <1>2, <1>3, <1>5 DEF NoJobLost
<1> QED
  BY <1>4, <1>6

-----------------------------------------------------------------------------

(* A step that leaves every job in its place keeps the order. *)
LEMMA SamePlaces ==
    ASSUME IDsUnique',
           \A u \in Topics : \A k \in DOMAIN topics[u] :
                k \in DOMAIN topics'[u] /\ topics'[u][k].id = topics[u][k].id
    PROVE  KeepsOrder
<1> SUFFICES ASSUME NEW t \in Topics, NEW i \in DOMAIN topics[t], NEW k \in DOMAIN topics[t],
                    NEW m \in DOMAIN topics'[t], NEW n \in DOMAIN topics'[t],
                    topics[t][i].id = topics'[t][m].id, topics[t][k].id = topics'[t][n].id,
                    i < k
             PROVE  m < n
  BY DEF KeepsOrder
<1>1. m = i /\ n = k
  BY DEF IDsUnique
<1> QED
  BY <1>1

(* A new queue has no jobs, hence nothing to get wrong. *)
LEMMA InitInv == Init => QueueInv
<1> SUFFICES ASSUME Init PROVE QueueInv
  OBVIOUS
<1>1. TypeOK
  BY JobShapes, EmptySeq DEF Init, TypeOK
<1>2. \A t \in Topics : topics[t] = << >> /\ DOMAIN topics[t] = {}
  BY DEF Init
<1>3. \A c \in Clients, j \in JobIDs : ~ (promise[c][j] >= 0)
  BY DEF Init, Past
<1>4. IndexMatchesTopics
  BY <1>2, NoTopicAssumption DEF Init, IndexMatchesTopics
<1>5. NoJobLost
  BY <1>2 DEF Init, NoJobLost, IDsUnique
<1>6. LeaseBacked /\ ExclusiveLease
  BY <1>3 DEF LeaseBacked, ExclusiveLease
<1>7. UntouchedAvailable /\ FirstDeliveryInOrder
  BY <1>2 DEF UntouchedAvailable, FirstDeliveryInOrder
<1> QED
  BY <1>1, <1>4, <1>5, <1>6, <1>7 DEF QueueInv

(* Enqueue keeps the invariant: the new job has an identifier no job in    *)
(* the queue has, stands behind all others and has no lease.               *)
LEMMA EnqueueInv ==
    ASSUME QueueInv, NEW c \in Clients, NEW t \in Topics, Enqueue(c, t)
    PROVE  QueueInv' /\ KeepsOrder
<1> USE DEF QueueInv
<1>1. PICK j \in JobIDs \ issued :
        /\ topics' = [topics EXCEPT ![t] = Append(@, NewJob(j))]
        /\ index' = [index EXCEPT ![j] = t]
        /\ given' = [given EXCEPT ![c] = @ \cup {j}]
        /\ issued' = issued \cup {j}
        /\ UNCHANGED <<promise, acked, nacked>>
  BY DEF Enqueue
<1> DEFINE n == Len(topics[t]) + 1
<1>2. /\ topics' \in [Topics -> Seq(Job)]
      /\ Len(topics'[t]) = n
      /\ topics'[t][n] = NewJob(j)
      /\ \A k \in 1 .. Len(topics[t]) : topics'[t][k] = topics[t][k]
      /\ \A u \in Topics \ {t} : topics'[u] = topics[u]
  BY <1>1, EnqueueShape
<1>3. \A u \in Topics : /\ Len(topics[u]) \in Nat
                        /\ DOMAIN topics[u] = 1 .. Len(topics[u])
                        /\ DOMAIN topics'[u] = 1 .. Len(topics'[u])
  BY <1>2, Positions DEF TypeOK
<1>4. /\ NewJob(j).id = j
      /\ NewJob(j).dequeueCount = 0
      /\ NewJob(j).lease < 0
  BY JobShapes
<1>6. \A u \in Topics : \A k \in DOMAIN topics[u] :
            k \in DOMAIN topics'[u] /\ topics'[u][k] = topics[u][k]
  BY <1>2, <1>3, SMTT(30)
<1>7. \A u \in Topics : \A k \in DOMAIN topics'[u] :
            (u = t /\ k = n) \/ k \in DOMAIN topics[u]
  BY <1>2, <1>3
<1>8. n \in DOMAIN topics'[t] /\ n \notin DOMAIN topics[t]
  BY <1>2, <1>3
<1>9. \A u \in Topics : \A k \in DOMAIN topics[u] : topics[u][k].id # j
  BY <1>1 DEF NoJobLost
<1> HIDE DEF n
<1>10. TypeOK'
  BY <1>1, <1>2 DEF TypeOK
<1>11. IndexMatchesTopics'
  BY <1>1, <1>2, <1>4, <1>6, <1>7, <1>8, <1>9 DEF IndexMatchesTopics, TypeOK
<1>12. IDsUnique'
  BY <1>2, <1>4, <1>6, <1>7, <1>9, SMTT(30) DEF NoJobLost, IDsUnique
<1>13. NoJobLost'
  <2> SUFFICES ASSUME NEW m \in JobIDs
               PROVE  (\E u \in Topics : \E k \in DOMAIN topics'[u] : topics'[u][k].id = m)
                        <=> m \in issued' /\ m \notin acked'
    BY <1>1, <1>12 DEF NoJobLost
  <2>1. CASE m = j
    <3>1. j \notin acked
      BY <1>1 DEF NoJobLost, TypeOK
    <3> QED
      BY <1>1, <1>2, <1>4, <1>8, <2>1, <3>1
  <2>2. CASE m # j
    <3>1. (\E u \in Topics : \E k \in DOMAIN topics'[u] : topics'[u][k].id = m)
            <=> (\E u \in Topics : \E k \in DOMAIN topics[u] : topics[u][k].id = m)
      BY <1>2, <1>4, <1>6, <1>7, <2>2
    <3> QED
      BY <1>1, <2>2, <3>1 DEF NoJobLost
  <2> QED
    BY <2>1, <2>2
<1>14. LeaseBacked'
  BY <1>1, <1>6 DEF LeaseBacked
<1>15. ExclusiveLease'
  BY <1>1 DEF ExclusiveLease
<1>16. UntouchedAvailable'
  BY <1>1, <1>2, <1>4, <1>6, <1>7 DEF UntouchedAvailable
<1>17. FirstDeliveryInOrder'
  <2> SUFFICES ASSUME NEW u \in Topics, NEW k \in DOMAIN topics'[u], NEW i \in 1 .. (k - 1),
                      topics'[u][k].dequeueCount > 0, topics'[u][i].dequeueCount = 0
               PROVE  topics'[u][i].id \in nacked'
    BY DEF FirstDeliveryInOrder
  <2>1. k \in DOMAIN topics[u]
    BY <1>2, <1>4, <1>7
  <2>2. i \in DOMAIN topics[u]
    BY <2>1, <1>3
  <2> QED
    BY <1>1, <1>6, <2>1, <2>2 DEF FirstDeliveryInOrder
<1>18. KeepsOrder
  BY <1>6, <1>12, SamePlaces
<1> QED
  BY <1>10, <1>11, <1>13, <1>14, <1>15, <1>16, <1>17, <1>18

(* Dequeue keeps the invariant: the job it leases was available, so nobody *)
(* was promised it any longer, and no job before it was.                   *)
LEMMA DequeueInv ==
    ASSUME QueueInv, NEW c \in Clients, NEW t \in Topics, NEW d \in Delays, Dequeue(c, t, d)
    PROVE  QueueInv' /\ KeepsOrder
<1> USE DEF QueueInv
<1>1. PICK i \in DOMAIN topics[t] :
        /\ FirstAvailable(t, i)
        /\ topics' = Replace(t, i, Leased(topics[t][i], d))
        /\ given' = [given EXCEPT ![c] = @ \cup {topics[t][i].id}]
        /\ promise' = [promise EXCEPT ![c] = [@ EXCEPT ![topics[t][i].id] = d]]
        /\ nacked' = nacked \ {topics[t][i].id}
        /\ UNCHANGED <<index, issued, acked>>
  BY DEF Dequeue
<1> DEFINE j == topics[t][i].id
           job == Leased(topics[t][i], d)
<1>2. \A u \in Topics : /\ Len(topics[u]) \in Nat
                        /\ DOMAIN topics[u] = 1 .. Len(topics[u])
                        /\ \A k \in 1 .. Len(topics[u]) : /\ topics[u][k] \in Job
                                                          /\ topics[u][k].id \in JobIDs
                                                          /\ topics[u][k].dequeueCount \in Nat
                                                          /\ topics[u][k].lease \in Int
  BY Positions DEF TypeOK
<1>3. j \in JobIDs /\ topics[t][i] \in Job
  BY <1>2
<1>4. /\ job \in Job
      /\ job.id = j
      /\ job.lease = d
      /\ job.dequeueCount > 0
      /\ d \in Int
  BY <1>3, JobShapes
<1>5. topics' = Replace(t, i, job)
  BY <1>1
<1> HIDE DEF job
<1>6. /\ topics' \in [Topics -> Seq(Job)]
      /\ \A u \in Topics : Len(topics'[u]) = Len(topics[u])
      /\ topics'[t][i] = job
      /\ \A u \in Topics : \A k \in 1 .. Len(topics[u]) :
            u # t \/ k # i => topics'[u][k] = topics[u][k]
  BY <1>4, <1>5, ReplaceShape
<1>7. \A u \in Topics : DOMAIN topics'[u] = DOMAIN topics[u]
  BY <1>2, <1>6, Positions
<1>8. \A u \in Topics : \A k \in DOMAIN topics[u] :
        u # t \/ k # i => topics'[u][k] = topics[u][k] /\ topics[u][k].id # j
  BY <1>2, <1>6, SMTT(30) DEF NoJobLost, IDsUnique
<1>9. /\ topics[t][i].lease < 0
      /\ \A k \in 1 .. (i - 1) : ~ (topics[t][k].lease < 0)
  BY <1>1 DEF FirstAvailable, Available
<1>10. \A e \in Clients : ~ (promise[e][j] >= 0)
  <2> SUFFICES ASSUME NEW e \in Clients, promise[e][j] >= 0 PROVE FALSE
    OBVIOUS
  <2>0. PICK u \in Topics : \E k \in DOMAIN topics[u] :
            topics[u][k].id = j /\ topics[u][k].lease = promise[e][j]
    BY <1>3 DEF LeaseBacked
  <2>1. PICK k \in DOMAIN topics[u] :
            topics[u][k].id = j /\ topics[u][k].lease = promise[e][j]
    BY <2>0
  <2>2. u = t /\ k = i
    BY <2>1, <1>8
  <2>3. promise[e][j] \in Int
    BY <1>3, PromiseIsInt
  <2> QED
    BY <1>2, <1>9, <2>1, <2>2, <2>3
<1>11. \A e \in Clients, m \in JobIDs :
        promise'[e][m] = IF e = c /\ m = j THEN d ELSE promise[e][m]
  BY <1>1, <1>3 DEF TypeOK
<1>12. nacked' = nacked \ {j}
  BY <1>1
<1>13. TypeOK'
  <2>1. promise' \in [Clients -> [JobIDs -> Delays]]
    BY <1>1, <1>3 DEF TypeOK
  <2>2. given' \in [Clients -> SUBSET JobIDs]
    BY <1>1, <1>3 DEF TypeOK
  <2> QED
    BY <1>1, <1>6, <2>1, <2>2 DEF TypeOK
<1>14. IndexMatchesTopics' /\ NoJobLost'
  <2>1. \A u \in Topics : \A k \in 1 .. Len(topics[u]) : topics'[u][k].id = topics[u][k].id
    BY <1>2, <1>4, <1>6
  <2> QED
    BY <1>1, <1>6, <2>1, SameJobs
<1>15. LeaseBacked'
  <2> SUFFICES ASSUME NEW e \in Clients, NEW m \in JobIDs, promise'[e][m] >= 0
               PROVE  \E u \in Topics : \E k \in DOMAIN topics'[u] :
                        topics'[u][k].id = m /\ topics'[u][k].lease = promise'[e][m]
    BY DEF LeaseBacked
  <2>1. CASE m = j
    <3>1. promise'[e][m] = d
      BY <1>10, <1>11, <2>1
    <3> QED
      BY <1>4, <1>6, <1>7, <2>1, <3>1
  <2>2. CASE m # j
    <3>1. promise'[e][m] = promise[e][m]
      BY <1>11, <2>2
    <3>0. PICK u \in Topics : \E k \in DOMAIN topics[u] :
              topics[u][k].id = m /\ topics[u][k].lease = promise[e][m]
      BY <3>1 DEF LeaseBacked
    <3>2. PICK k \in DOMAIN topics[u] :
              topics[u][k].id = m /\ topics[u][k].lease = promise[e][m]
      BY <3>0
    <3>3. u # t \/ k # i
      BY <2>2, <3>2
    <3> QED
      BY <1>7, <1>8, <3>1, <3>2, <3>3
  <2> QED
    BY <2>1, <2>2
<1>16. ExclusiveLease'
  BY <1>10, <1>11 DEF ExclusiveLease
<1>17. UntouchedAvailable'
  BY <1>4, <1>6, <1>7, <1>8, <1>12 DEF UntouchedAvailable
<1>18. FirstDeliveryInOrder'
  <2> SUFFICES ASSUME NEW u \in Topics, NEW k \in DOMAIN topics'[u], NEW h \in 1 .. (k - 1),
                      topics'[u][k].dequeueCount > 0, topics'[u][h].dequeueCount = 0
               PROVE  topics'[u][h].id \in nacked'
    BY DEF FirstDeliveryInOrder
  <2>1. k \in DOMAIN topics[u] /\ h \in DOMAIN topics[u]
    BY <1>2, <1>7
  <2>2. u # t \/ h # i
    BY <1>4, <1>6
  <2>3. topics'[u][h] = topics[u][h] /\ topics[u][h].id # j
    BY <1>8, <2>1, <2>2
  <2>4. topics[u][h].id \in nacked
    <3>1. CASE u # t \/ k # i
      <4>1. topics'[u][k] = topics[u][k]
        BY <1>8, <2>1, <3>1
      <4> QED
        BY <2>1, <2>3, <4>1 DEF FirstDeliveryInOrder
    <3>2. CASE u = t /\ k = i
      BY <1>9, <2>1, <2>3, <3>2 DEF UntouchedAvailable
    <3> QED
      BY <3>1, <3>2
  <2> QED
    BY <1>12, <2>3, <2>4
<1>19. KeepsOrder
  <2>1. IDsUnique'
    BY <1>14 DEF NoJobLost
  <2>2. \A u \in Topics : \A k \in DOMAIN topics[u] :
            k \in DOMAIN topics'[u] /\ topics'[u][k].id = topics[u][k].id
    BY <1>4, <1>6, <1>7, <1>8
  <2> QED
    BY <2>1, <2>2, SamePlaces
<1> QED
  BY <1>13, <1>14, <1>15, <1>16, <1>17, <1>18, <1>19

(* Ack keeps the invariant: the job leaves its topic and the index, the    *)
(* jobs behind it move up, and nobody is promised it any longer.           *)
LEMMA AckInv ==
    ASSUME QueueInv, NEW c \in Clients, NEW j \in JobIDs, Ack(c, j)
    PROVE  QueueInv' /\ KeepsOrder
<1> USE DEF QueueInv
<1> DEFINE t == index[j]
<1>1. t \in Topics
  BY DEF Ack, TypeOK
<1>2. PICK i \in DOMAIN topics[t] :
        /\ topics[t][i].id = j
        /\ topics' = [topics EXCEPT ![t] = Without(@, i)]
  BY DEF Ack, FoundAt
<1>3. /\ index' = [index EXCEPT ![j] = NoTopic]
      /\ given' = given
      /\ promise' = Revoked(j)
      /\ acked' = acked \cup {j}
      /\ nacked' = nacked \ {j}
      /\ issued' = issued
  BY DEF Ack
<1> HIDE DEF t
<1>4. /\ topics' \in [Topics -> Seq(Job)]
      /\ Len(topics'[t]) = Len(topics[t]) - 1
      /\ \A k \in 1 .. (Len(topics[t]) - 1) :
            topics'[t][k] = IF k < i THEN topics[t][k] ELSE topics[t][k + 1]
      /\ \A u \in Topics \ {t} : topics'[u] = topics[u]
  BY <1>1, <1>2, RemoveShape
<1>5. \A u \in Topics : /\ Len(topics[u]) \in Nat
                        /\ DOMAIN topics[u] = 1 .. Len(topics[u])
                        /\ DOMAIN topics'[u] = 1 .. Len(topics'[u])
  BY <1>4, Positions DEF TypeOK
<1> DEFINE old(u, k) == IF u = t /\ k >= i THEN k + 1 ELSE k
<1>6. \A u \in Topics : \A k \in DOMAIN topics'[u] :
        /\ old(u, k) \in DOMAIN topics[u]
        /\ topics'[u][k] = topics[u][old(u, k)]
        /\ u # t \/ old(u, k) # i
  BY <1>1, <1>2, <1>4, <1>5
<1>7. \A u \in Topics : \A k \in DOMAIN topics[u] :
        u # t \/ k # i => \E m \in DOMAIN topics'[u] : old(u, m) = k
  <2> SUFFICES ASSUME NEW u \in Topics, NEW k \in DOMAIN topics[u], u # t \/ k # i
               PROVE  \E m \in DOMAIN topics'[u] : old(u, m) = k
    OBVIOUS
  <2>1. CASE u = t /\ k > i
    <3>1. k - 1 \in DOMAIN topics'[u] /\ old(u, k - 1) = k
      BY <1>2, <1>4, <1>5, <2>1
    <3> QED
      BY <3>1
  <2>2. CASE u # t \/ k < i
    <3>1. k \in DOMAIN topics'[u] /\ old(u, k) = k
      BY <1>1, <1>2, <1>4, <1>5, <2>2
    <3> QED
      BY <3>1
  <2> QED
    BY <1>1, <1>2, <1>5, <2>1, <2>2
<1>8. \A u \in Topics : \A k, m \in DOMAIN topics'[u] :
        /\ old(u, k) = old(u, m) => k = m
        /\ m < k => old(u, m) < old(u, k)
  BY <1>1, <1>2, <1>5
<1> HIDE DEF old
<1>9. \A u \in Topics : \A k \in DOMAIN topics[u] : u # t \/ k # i => topics[u][k].id # j
  BY <1>1, <1>2 DEF NoJobLost, IDsUnique
<1>10. \A e \in Clients, m \in JobIDs :
        promise'[e][m] = IF m = j THEN Past ELSE promise[e][m]
  BY <1>3 DEF TypeOK, Revoked
<1>11. ~ (Past >= 0)
  BY DEF Past
<1>12. TypeOK'
  <2>1. promise' \in [Clients -> [JobIDs -> Delays]]
    BY <1>3, JobShapes DEF TypeOK, Revoked
  <2> QED
    BY <1>3, <1>4, <2>1 DEF TypeOK
(* The jobs of the topics are the old ones but for j. *)
<1>13. ASSUME NEW u \in Topics, NEW m \in JobIDs
       PROVE  (\E k \in DOMAIN topics'[u] : topics'[u][k].id = m)
                <=> m # j /\ \E k \in DOMAIN topics[u] : topics[u][k].id = m
  <2>1. ASSUME NEW k \in DOMAIN topics'[u], topics'[u][k].id = m
        PROVE  m # j /\ \E h \in DOMAIN topics[u] : topics[u][h].id = m
    BY <1>6, <1>9, <2>1
  <2>2. ASSUME m # j, NEW k \in DOMAIN topics[u], topics[u][k].id = m
        PROVE  \E h \in DOMAIN topics'[u] : topics'[u][h].id = m
    <3>1. PICK h \in DOMAIN topics'[u] : old(u, h) = k
      BY <1>2, <1>7, <2>2
    <3> QED
      BY <1>6, <2>2, <3>1
  <2> QED
    BY <2>1, <2>2
<1>14. IndexMatchesTopics'
  <2> SUFFICES ASSUME NEW m \in JobIDs, NEW u \in Topics
               PROVE  index'[m] = u <=> \E k \in DOMAIN topics'[u] : topics'[u][k].id = m
    BY DEF IndexMatchesTopics
  <2>1. index'[m] = IF m = j THEN NoTopic ELSE index[m]
    BY <1>3 DEF TypeOK
  <2> QED
    BY <1>13, <2>1, NoTopicAssumption DEF IndexMatchesTopics
<1>15. IDsUnique'
  <2> SUFFICES ASSUME NEW u \in Topics, NEW v \in Topics,
                      NEW k \in DOMAIN topics'[u], NEW m \in DOMAIN topics'[v],
                      topics'[u][k].id = topics'[v][m].id
               PROVE  u = v /\ k = m
    BY DEF IDsUnique
  <2>1. u = v /\ old(u, k) = old(v, m)
    BY <1>6 DEF NoJobLost, IDsUnique
  <2> QED
    BY <1>8, <2>1
<1>16. NoJobLost'
  <2>1. j \in issued
    BY <1>1, <1>2 DEF NoJobLost
  <2>2. acked' \subseteq issued'
    BY <1>3, <2>1 DEF NoJobLost
  <2>3. ASSUME NEW m \in JobIDs
        PROVE  (\E u \in Topics : \E k \in DOMAIN topics'[u] : topics'[u][k].id = m)
                 <=> m \in issued' /\ m \notin acked'
    <3>1. (\E u \in Topics : \E k \in DOMAIN topics'[u] : topics'[u][k].id = m)
            <=> m # j /\ \E u \in Topics : \E k \in DOMAIN topics[u] : topics[u][k].id = m
      BY <1>13
    <3> QED
      BY <1>3, <3>1 DEF NoJobLost
  <2> QED
    BY <1>15, <2>2, <2>3 DEF NoJobLost
<1>17. LeaseBacked'
  <2> SUFFICES ASSUME NEW e \in Clients, NEW m \in JobIDs, promise'[e][m] >= 0
               PROVE  \E u \in Topics : \E k \in DOMAIN topics'[u] :
                        topics'[u][k].id = m /\ topics'[u][k].lease = promise'[e][m]
    BY DEF LeaseBacked
  <2>1. m # j /\ promise'[e][m] = promise[e][m]
    BY <1>10, <1>11
  <2>2. PICK u \in Topics : \E k \in DOMAIN topics[u] :
            topics[u][k].id = m /\ topics[u][k].lease = promise[e][m]
    BY <2>1 DEF LeaseBacked
  <2>3. PICK k \in DOMAIN topics[u] :
            topics[u][k].id = m /\ topics[u][k].lease = promise[e][m]
    BY <2>2
  <2>4. PICK h \in DOMAIN topics'[u] : old(u, h) = k
    BY <1>2, <1>7, <2>1, <2>3
  <2> QED
    BY <1>6, <2>1, <2>3, <2>4
<1>18. ExclusiveLease'
  BY <1>10, <1>11 DEF ExclusiveLease
<1>19. UntouchedAvailable'
  <2> SUFFICES ASSUME NEW u \in Topics, NEW k \in DOMAIN topics'[u],
                      topics'[u][k].dequeueCount = 0, topics'[u][k].id \notin nacked'
               PROVE  topics'[u][k].lease < 0
    BY DEF UntouchedAvailable
  <2>1. topics'[u][k].id # j
    BY <1>6, <1>9
  <2> QED
    BY <1>3, <1>6, <2>1 DEF UntouchedAvailable
<1>20. FirstDeliveryInOrder'
  <2> SUFFICES ASSUME NEW u \in Topics, NEW k \in DOMAIN topics'[u], NEW h \in 1 .. (k - 1),
                      topics'[u][k].dequeueCount > 0, topics'[u][h].dequeueCount = 0
               PROVE  topics'[u][h].id \in nacked'
    BY DEF FirstDeliveryInOrder
  <2>1. h \in DOMAIN topics'[u] /\ h < k
    BY <1>5
  <2>2. old(u, h) \in DOMAIN topics[u] /\ old(u, k) \in DOMAIN topics[u]
    BY <1>6, <2>1
  <2>3. old(u, h) \in 1 .. (old(u, k) - 1)
    BY <1>5, <1>8, <2>1, <2>2
  <2>4. topics[u][old(u, h)].id \in nacked
    BY <1>6, <2>1, <2>2, <2>3 DEF FirstDeliveryInOrder
  <2> QED
    BY <1>3, <1>6, <1>9, <2>1, <2>4
<1>21. KeepsOrder
  <2> SUFFICES ASSUME NEW u \in Topics, NEW h \in DOMAIN topics[u], NEW k \in DOMAIN topics[u],
                      NEW m \in DOMAIN topics'[u], NEW n \in DOMAIN topics'[u],
                      topics[u][h].id = topics'[u][m].id, topics[u][k].id = topics'[u][n].id,
                      h < k
               PROVE  m < n
    BY DEF KeepsOrder
  <2>1. h = old(u, m) /\ k = old(u, n)
    BY <1>6 DEF NoJobLost, IDsUnique
  <2>2. m \in Int /\ n \in Int /\ h \in Int /\ k \in Int
    BY <1>5
  <2>3. ~ (n < m) /\ n # m
    BY <1>8, <2>1, <2>2
  <2> QED
    BY <2>2, <2>3
<1> QED
  BY <1>12, <1>14, <1>16, <1>17, <1>18, <1>19, <1>20, <1>21

(* Nack keeps the invariant: the job stays where it is, with a new lease   *)
(* that backs nobody's promise, and is marked as nacked.                   *)
LEMMA NackInv ==
    ASSUME QueueInv, NEW c \in Clients, NEW j \in JobIDs, NEW d \in Delays, Nack(c, j, d)
    PROVE  QueueInv' /\ KeepsOrder
<1> USE DEF QueueInv
<1> DEFINE t == index[j]
<1>1. t \in Topics
  BY DEF Nack, TypeOK
<1>2. PICK i \in DOMAIN topics[t] :
        /\ topics[t][i].id = j
        /\ topics' = Replace(t, i, Returned(topics[t][i], d))
  BY DEF Nack, FoundAt
<1>3. /\ promise' = Revoked(j)
      /\ nacked' = nacked \cup {j}
      /\ UNCHANGED <<index, given, issued, acked>>
  BY DEF Nack
<1> HIDE DEF t
<1> DEFINE job == Returned(topics[t][i], d)
<1>4. \A u \in Topics : /\ Len(topics[u]) \in Nat
                        /\ DOMAIN topics[u] = 1 .. Len(topics[u])
                        /\ \A k \in 1 .. Len(topics[u]) : topics[u][k] \in Job
  BY Positions DEF TypeOK
<1>5. /\ job \in Job
      /\ job.id = j
      /\ job.dequeueCount = topics[t][i].dequeueCount
  <2>1. topics[t][i] \in Job
    BY <1>1, <1>2, <1>4
  <2>2. /\ Returned(topics[t][i], d) \in Job
        /\ Returned(topics[t][i], d).id = topics[t][i].id
        /\ Returned(topics[t][i], d).dequeueCount = topics[t][i].dequeueCount
    BY <2>1, JobShapes, Zenon
  <2> QED
    BY <1>2, <2>2
<1>6. topics' = Replace(t, i, job)
  BY <1>2
<1> HIDE DEF job
<1>7. /\ topics' \in [Topics -> Seq(Job)]
      /\ \A u \in Topics : Len(topics'[u]) = Len(topics[u])
      /\ topics'[t][i] = job
      /\ \A u \in Topics : \A k \in 1 .. Len(topics[u]) :
            u # t \/ k # i => topics'[u][k] = topics[u][k]
  BY <1>1, <1>5, <1>6, ReplaceShape
<1>8. \A u \in Topics : DOMAIN topics'[u] = DOMAIN topics[u]
  BY <1>4, <1>7, Positions
<1>9. \A u \in Topics : \A k \in DOMAIN topics[u] :
        u # t \/ k # i => topics'[u][k] = topics[u][k] /\ topics[u][k].id # j
  BY <1>1, <1>2, <1>4, <1>7, SMTT(30) DEF NoJobLost, IDsUnique
<1>10. \A e \in Clients, m \in JobIDs :
        promise'[e][m] = IF m = j THEN Past ELSE promise[e][m]
  BY <1>3 DEF TypeOK, Revoked
<1>11. ~ (Past >= 0)
  BY DEF Past
<1>12. TypeOK'
  <2>1. promise' \in [Clients -> [JobIDs -> Delays]]
    BY <1>3, JobShapes DEF TypeOK, Revoked
  <2> QED
    BY <1>3, <1>7, <2>1 DEF TypeOK
<1>13. \A u \in Topics : \A k \in DOMAIN topics[u] :
            /\ topics'[u][k].id = topics[u][k].id
            /\ topics'[u][k].dequeueCount = topics[u][k].dequeueCount
  BY <1>2, <1>5, <1>7, <1>9
<1>14. IndexMatchesTopics' /\ NoJobLost'
  BY <1>3, <1>4, <1>7, <1>13, SameJobs
<1>15. LeaseBacked'
  <2> SUFFICES ASSUME NEW e \in Clients, NEW m \in JobIDs, promise'[e][m] >= 0
               PROVE  \E u \in Topics : \E k \in DOMAIN topics'[u] :
                        topics'[u][k].id = m /\ topics'[u][k].lease = promise'[e][m]
    BY DEF LeaseBacked
  <2>1. m # j /\ promise'[e][m] = promise[e][m]
    BY <1>10, <1>11
  <2>2. PICK u \in Topics : \E k \in DOMAIN topics[u] :
            topics[u][k].id = m /\ topics[u][k].lease = promise[e][m]
    BY <2>1 DEF LeaseBacked
  <2>3. PICK k \in DOMAIN topics[u] :
            topics[u][k].id = m /\ topics[u][k].lease = promise[e][m]
    BY <2>2
  <2> QED
    BY <1>2, <1>8, <1>9, <2>1, <2>3
<1>16. ExclusiveLease'
  BY <1>10, <1>11 DEF ExclusiveLease
<1>17. UntouchedAvailable'
  <2> SUFFICES ASSUME NEW u \in Topics, NEW k \in DOMAIN topics'[u],
                      topics'[u][k].dequeueCount = 0, topics'[u][k].id \notin nacked'
               PROVE  topics'[u][k].lease < 0
    BY DEF UntouchedAvailable
  <2>1. u # t \/ k # i
    BY <1>3, <1>5, <1>7
  <2> QED
    BY <1>3, <1>8, <1>9, <2>1 DEF UntouchedAvailable
<1>18. FirstDeliveryInOrder'
  <2> SUFFICES ASSUME NEW u \in Topics, NEW k \in DOMAIN topics'[u], NEW h \in 1 .. (k - 1),
                      topics'[u][k].dequeueCount > 0, topics'[u][h].dequeueCount = 0
               PROVE  topics'[u][h].id \in nacked'
    BY DEF FirstDeliveryInOrder
  <2>1. k \in DOMAIN topics[u] /\ h \in DOMAIN topics[u]
    BY <1>4, <1>8
  <2> QED
    BY <1>3, <1>13, <2>1 DEF FirstDeliveryInOrder
<1>19. KeepsOrder
  <2>1. IDsUnique'
    BY <1>14 DEF NoJobLost
  <2> QED
    BY <1>8, <1>13, <2>1, SamePlaces
<1> QED
  BY <1>12, <1>14, <1>15, <1>16, <1>17, <1>18, <1>19

(* Time passes alike for the leases and for what the clients were          *)
(* promised, so a promise stays backed and a lapsed one stays lapsed.      *)
LEMMA TickInv ==
    ASSUME QueueInv, Tick
    PROVE  QueueInv' /\ KeepsOrder
<1> USE DEF QueueInv
<1>1. /\ topics' \in [Topics -> Seq(Job)]
      /\ \A u \in Topics : Len(topics'[u]) = Len(topics[u])
      /\ \A u \in Topics : \A k \in 1 .. Len(topics[u]) : topics'[u][k] = Aged(topics[u][k])
  BY TickShape
<1>2. \A u \in Topics : /\ Len(topics[u]) \in Nat
                        /\ DOMAIN topics[u] = 1 .. Len(topics[u])
                        /\ DOMAIN topics'[u] = DOMAIN topics[u]
                        /\ \A k \in 1 .. Len(topics[u]) : topics[u][k] \in Job
  BY <1>1, Positions DEF TypeOK
<1>3. \A u \in Topics : \A k \in DOMAIN topics[u] :
        /\ topics'[u][k].id = topics[u][k].id
        /\ topics'[u][k].dequeueCount = topics[u][k].dequeueCount
        /\ topics'[u][k].lease = Elapsed(topics[u][k].lease)
        /\ topics[u][k].lease \in Delays
  <2> SUFFICES ASSUME NEW u \in Topics, NEW k \in DOMAIN topics[u]
               PROVE  /\ topics'[u][k].id = topics[u][k].id
                      /\ topics'[u][k].dequeueCount = topics[u][k].dequeueCount
                      /\ topics'[u][k].lease = Elapsed(topics[u][k].lease)
                      /\ topics[u][k].lease \in Delays
    OBVIOUS
  <2>1. topics[u][k] \in Job /\ topics'[u][k] = Aged(topics[u][k])
    BY <1>1, <1>2
  <2> QED
    BY <2>1, JobShapes
<1>4. \A c \in Clients, j \in JobIDs : /\ promise'[c][j] = Elapsed(promise[c][j])
                                       /\ promise[c][j] \in Delays
  BY PromiseIsInt DEF Tick
<1>5. UNCHANGED <<index, given, issued, acked, nacked>>
  BY DEF Tick
<1>6. TypeOK'
  <2>1. promise' \in [Clients -> [JobIDs -> Delays]]
    BY <1>4, JobShapes DEF Tick
  <2> QED
    BY <1>1, <1>5, <2>1 DEF TypeOK
<1>7. IndexMatchesTopics' /\ NoJobLost'
  BY <1>1, <1>2, <1>3, <1>5, SameJobs
<1>8. LeaseBacked'
  <2> SUFFICES ASSUME NEW e \in Clients, NEW m \in JobIDs, promise'[e][m] >= 0
               PROVE  \E u \in Topics : \E k \in DOMAIN topics'[u] :
                        topics'[u][k].id = m /\ topics'[u][k].lease = promise'[e][m]
    BY DEF LeaseBacked
  <2>1. promise[e][m] > 0 /\ promise'[e][m] = promise[e][m] - 1 /\ promise[e][m] \in Int
    BY <1>4, JobShapes
  <2>2. PICK u \in Topics : \E k \in DOMAIN topics[u] :
            topics[u][k].id = m /\ topics[u][k].lease = promise[e][m]
    BY <2>1 DEF LeaseBacked
  <2>3. PICK k \in DOMAIN topics[u] :
            topics[u][k].id = m /\ topics[u][k].lease = promise[e][m]
    BY <2>2
  <2>4. topics'[u][k].lease = topics[u][k].lease - 1 /\ topics[u][k].lease \in Int
    <3>1. topics[u][k].lease \in Int /\ topics'[u][k].lease = Elapsed(topics[u][k].lease)
      BY <1>3, JobShapes
    <3>2. topics[u][k].lease > Past
      BY <2>1, <2>3, <3>1 DEF Past
    <3> QED
      BY <3>1, <3>2 DEF Elapsed
  <2>5. topics'[u][k].lease = promise'[e][m]
    BY <2>1, <2>3, <2>4
  <2> QED
    BY <1>2, <1>3, <2>3, <2>5
<1>9. ExclusiveLease'
  <2>1. ASSUME NEW c \in Clients, NEW j \in JobIDs, promise'[c][j] >= 0
        PROVE  promise[c][j] >= 0
    <3>1. promise[c][j] \in Int /\ promise[c][j] > 0
      BY <1>4, <2>1, JobShapes
    <3> QED
      BY <3>1
  <2> QED
    BY <2>1 DEF ExclusiveLease
<1>10. UntouchedAvailable'
  <2> SUFFICES ASSUME NEW u \in Topics, NEW k \in DOMAIN topics'[u],
                      topics'[u][k].dequeueCount = 0, topics'[u][k].id \notin nacked'
               PROVE  topics'[u][k].lease < 0
    BY DEF UntouchedAvailable
  <2>1. k \in DOMAIN topics[u]
    BY <1>2
  <2>2. topics[u][k].lease < 0
    BY <1>3, <1>5, <2>1 DEF UntouchedAvailable
  <2> QED
    BY <1>3, <2>1, <2>2, JobShapes
<1>11. FirstDeliveryInOrder'
  <2> SUFFICES ASSUME NEW u \in Topics, NEW k \in DOMAIN topics'[u], NEW h \in 1 .. (k - 1),
                      topics'[u][k].dequeueCount > 0, topics'[u][h].dequeueCount = 0
               PROVE  topics'[u][h].id \in nacked'
    BY DEF FirstDeliveryInOrder
  <2>1. k \in DOMAIN topics[u] /\ h \in DOMAIN topics[u]
    BY <1>2
  <2> QED
    BY <1>3, <1>5, <2>1 DEF FirstDeliveryInOrder
<1>12. KeepsOrder
  <2>1. IDsUnique'
    BY <1>7 DEF NoJobLost
  <2> QED
    BY <1>2, <1>3, <2>1, SamePlaces
<1> QED
  BY <1>6, <1>7, <1>8, <1>9, <1>10, <1>11, <1>12

-----------------------------------------------------------------------------

(* A call that finds no job, and a step that is none of the queue's, leave *)
(* everything as it is.                                                    *)
LEMMA UnchangedInv ==
    ASSUME QueueInv, UNCHANGED vars
    PROVE  QueueInv' /\ KeepsOrder
<1> USE DEF QueueInv, vars
<1>1. TypeOK' /\ IndexMatchesTopics' /\ NoJobLost'
  BY DEF TypeOK, IndexMatchesTopics, NoJobLost, IDsUnique
<1>2. LeaseBacked' /\ ExclusiveLease'
  BY DEF LeaseBacked, ExclusiveLease
<1>3. UntouchedAvailable' /\ FirstDeliveryInOrder'
  BY DEF UntouchedAvailable, FirstDeliveryInOrder
<1>4. KeepsOrder
  BY <1>1, SamePlaces DEF NoJobLost
<1> QED
  BY <1>1, <1>2, <1>3, <1>4

(* Whatever a step does, it keeps the invariant and the order. *)
LEMMA StepKeeps ==
    ASSUME QueueInv, [Next]_vars
    PROVE  QueueInv' /\ KeepsOrder
<1>1. ASSUME NEW c \in Clients, NEW t \in Topics, Enqueue(c, t) PROVE QueueInv' /\ KeepsOrder
  BY <1>1, EnqueueInv
<1>2. ASSUME NEW c \in Clients, NEW t \in Topics, NEW d \in Delays, Dequeue(c, t, d)
      PROVE  QueueInv' /\ KeepsOrder
  BY <1>2, DequeueInv
<1>3. ASSUME NEW c \in Clients, NEW t \in Topics, DequeueNoJobs(c, t) PROVE QueueInv' /\ KeepsOrder
  BY <1>3, UnchangedInv DEF DequeueNoJobs
<1>4. ASSUME NEW c \in Clients, NEW j \in JobIDs, Ack(c, j) PROVE QueueInv' /\ KeepsOrder
  BY <1>4, AckInv
<1>5. ASSUME NEW c \in Clients, NEW j \in JobIDs, NEW d \in Delays, Nack(c, j, d)
      PROVE  QueueInv' /\ KeepsOrder
  BY <1>5, NackInv
<1>6. ASSUME NEW c \in Clients, NEW j \in JobIDs, SettleNotFound(c, j) PROVE QueueInv' /\ KeepsOrder
  BY <1>6, UnchangedInv DEF SettleNotFound
<1>7. CASE Tick
  BY <1>7, TickInv
<1>8. CASE UNCHANGED vars
  BY <1>8, UnchangedInv
<1> QED
  BY <1>1, <1>2, <1>3, <1>4, <1>5, <1>6, <1>7, <1>8 DEF Next

(* The inductive invariant holds in every state of the queue. *)
THEOREM Invariance == Spec => []QueueInv
<1>1. Init => QueueInv
  BY InitInv
<1>2. QueueInv /\ [Next]_vars => QueueInv'
  BY StepKeeps
<1> QED
  BY <1>1, <1>2, PTL DEF Spec

(* Every operation keeps the queue's state well-typed. *)
THEOREM Typing == Spec => []TypeOK
<1>1. QueueInv => TypeOK
  BY DEF QueueInv
<1> QED
  BY <1>1, Invariance, PTL

(* The index Ack and Nack look a job up in always agrees with the slices   *)
(* Dequeue scans.                                                          *)
THEOREM IndexRight == Spec => []IndexMatchesTopics
<1>1. QueueInv => IndexMatchesTopics
  BY DEF QueueInv
<1> QED
  BY <1>1, Invariance, PTL

(* At least once: a job leaves the queue by a successful Ack of its own    *)
(* identifier and in no other way, and is never there twice.               *)
THEOREM AtLeastOnce == Spec => []NoJobLost
<1>1. QueueInv => NoJobLost
  BY DEF QueueInv
<1> QED
  BY <1>1, Invariance, PTL

(* Dequeue never hands a job out while the lease it granted on it runs. *)
THEOREM Exclusive == Spec => []ExclusiveLease
<1>1. QueueInv => ExclusiveLease
  BY DEF QueueInv
<1> QED
  BY <1>1, Invariance, PTL

(* A client whose lease runs works on a job that is still queued under the *)
(* very lease it was granted.                                              *)
THEOREM Backed == Spec => []LeaseBacked
<1>1. QueueInv => LeaseBacked
  BY DEF QueueInv
<1> QED
  BY <1>1, Invariance, PTL

(* Dequeue's scan passes over a job that was never delivered only if       *)
(* somebody nacked it.                                                     *)
THEOREM FirstInOrder == Spec => []FirstDeliveryInOrder
<1>1. QueueInv => FirstDeliveryInOrder
  BY DEF QueueInv
<1> QED
  BY <1>1, Invariance, PTL

(* No operation of the queue changes the order of the jobs it leaves. *)
THEOREM Ordered == Spec => OrderKept
<1>1. QueueInv /\ [Next]_vars => [KeepsOrder]_vars
  BY StepKeeps
<1> QED
  BY <1>1, Invariance, PTL DEF Spec, OrderKept
=============================================================================

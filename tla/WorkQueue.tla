------------------------------ MODULE WorkQueue ------------------------------
(***************************************************************************)
(* What the WorkQueue interface (provider/queue/queue.go) promises, with   *)
(* no slices, no index, no scan and no order: a job is somewhere or        *)
(* nowhere, some time is left until it may be handed out, and it has one   *)
(* owner at most, who loses it when that time is over or the job is        *)
(* settled by anyone.  A job that was acknowledged never comes back.       *)
(***************************************************************************)
EXTENDS Integers

CONSTANTS Clients, Topics, JobIDs, NoTopic, Delays

VARIABLES
    place,      \* the topic each job is queued in, or NoTopic
    left,       \* how long each job is not to be handed out; over if negative
    owners,     \* who was given each job and may think it is his
    done        \* the acknowledged jobs

vars == <<place, left, owners, done>>

-----------------------------------------------------------------------------

Over == -1

(* A lease that is over before it began makes nobody the owner. *)
Owning(c, d) == IF d >= 0 THEN {c} ELSE {}

Init == /\ place = [j \in JobIDs |-> NoTopic]
        /\ left = [j \in JobIDs |-> Over]
        /\ owners = [j \in JobIDs |-> {}]
        /\ done = {}

Add(j, t) == /\ place[j] = NoTopic
             /\ j \notin done
             /\ place' = [place EXCEPT ![j] = t]
             /\ UNCHANGED <<left, owners, done>>

HandOut(c, j, d) == /\ place[j] # NoTopic
                    /\ left[j] < 0
                    /\ left' = [left EXCEPT ![j] = d]
                    /\ owners' = [owners EXCEPT ![j] = Owning(c, d)]
                    /\ UNCHANGED <<place, done>>

Finish(j) == /\ place[j] # NoTopic
             /\ place' = [place EXCEPT ![j] = NoTopic]
             /\ left' = [left EXCEPT ![j] = Over]
             /\ owners' = [owners EXCEPT ![j] = {}]
             /\ done' = done \cup {j}

PutOff(j, d) == /\ place[j] # NoTopic
                /\ left' = [left EXCEPT ![j] = d]
                /\ owners' = [owners EXCEPT ![j] = {}]
                /\ UNCHANGED <<place, done>>

Pass == /\ left' = [j \in JobIDs |-> IF left[j] > Over THEN left[j] - 1 ELSE Over]
        /\ owners' = [j \in JobIDs |-> IF left[j] > 0 THEN owners[j] ELSE {}]
        /\ UNCHANGED <<place, done>>

Next == \/ \E j \in JobIDs, t \in Topics : Add(j, t)
        \/ \E c \in Clients, j \in JobIDs, d \in Delays : HandOut(c, j, d)
        \/ \E j \in JobIDs : Finish(j)
        \/ \E j \in JobIDs, d \in Delays : PutOff(j, d)
        \/ Pass

Spec == Init /\ [][Next]_vars
=============================================================================

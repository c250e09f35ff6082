------------------------------- MODULE EventLog -------------------------------
(***************************************************************************)
(* The event log of memstate under concurrent service calls, and a client  *)
(* that follows it through GET /v1/events.                                 *)
(*                                                                         *)
(* AppendEvent reads the clock first and takes the lock then, so events    *)
(* come to stand in the log in another order than that of their time       *)
(* stamps.  ListEvents answers in the order of the log.  A follower asks   *)
(* for the events since the greatest time stamp it has seen, a page at a   *)
(* time, which is all the query offers to one who wants the next events.   *)
(***************************************************************************)
EXTENDS Queries

CONSTANTS
    Writers,        \* service calls about to append an event
    Kinds,          \* what events say: records of the fields filters look at
    Wants,          \* what filters ask for
    LimitTexts,     \* what limit parameters say
    PageText,       \* what the follower's says
    NoEvent,        \* a writer that has none under way
    MaxEvents,      \* bound: length of the log
    MaxClock        \* bound: the last instant

ASSUME LogBoundsAssumption == MaxEvents \in Nat /\ MaxClock \in Nat \ {0}
ASSUME LimitTextsAssumption == LimitTexts \cup {PageText} \subseteq Int \cup {NoNumber}

VARIABLES
    log,        \* Store.events
    clock,      \* the wall clock, which is not set back
    underway,   \* the event each writer has stamped and not appended yet
    follows,    \* what the follower filters on
    cursor,     \* the greatest time stamp the follower has seen
    seen        \* the identifiers of the events it has seen

vars == <<log, clock, underway, follows, cursor, seen>>

-----------------------------------------------------------------------------

Instants == 1 .. MaxClock

(* An event under way and an event in the log; newID never returns an      *)
(* identifier twice, so the place an event will have does for one.  after  *)
(* is a ghost: how long the log was when the event was stamped.            *)
Stamped == [what : Kinds, at : Instants, after : 0 .. MaxEvents]

Logged == [id : 1 .. MaxEvents, what : Kinds, at : Instants, after : 0 .. MaxEvents]

ASSUME NoEventAssumption == NoEvent \notin Stamped

Init == /\ log = << >>
        /\ clock = 1
        /\ underway = [w \in Writers |-> NoEvent]
        /\ follows \in Wants
        /\ cursor = 0
        /\ seen = {}

UnderWay == {w \in Writers : underway[w] # NoEvent}

(* AppendEvent before it takes the lock. *)
Stamp(w) ==
    /\ underway[w] = NoEvent
    /\ Len(log) + Cardinality(UnderWay) < MaxEvents
    /\ \E k \in Kinds :
        underway' = [underway EXCEPT ![w] = [what |-> k, at |-> clock, after |-> Len(log)]]
    /\ UNCHANGED <<log, clock, follows, cursor, seen>>

AppendUnstamped(w) ==
    /\ underway[w] # NoEvent
    /\ log' = Append(log, [id |-> Len(log) + 1, what |-> underway[w].what, at |-> 0,
                           after |-> underway[w].after])
    /\ underway' = [underway EXCEPT ![w] = NoEvent]
    /\ UNCHANGED <<clock, follows, cursor, seen>>

(* AppendEvent under the lock. *)
AppendEvent(w) ==
    /\ underway[w] # NoEvent
    /\ log' = Append(log, [id |-> Len(log) + 1, what |-> underway[w].what,
                           at |-> underway[w].at, after |-> underway[w].after])
    /\ underway' = [underway EXCEPT ![w] = NoEvent]
    /\ UNCHANGED <<clock, follows, cursor, seen>>

Tick == /\ clock < MaxClock
        /\ clock' = clock + 1
        /\ UNCHANGED <<log, underway, follows, cursor, seen>>

Page == GetEvents(log, [want |-> follows, since |-> cursor, limit |-> PageText]).events

(* The follower asks for the next page. *)
Poll == /\ seen' = seen \cup {Page[n].id : n \in DOMAIN Page}
        /\ cursor' = Max({cursor} \cup {Page[n].at : n \in DOMAIN Page})
        /\ UNCHANGED <<log, clock, underway, follows>>

Next == \/ \E w \in Writers : Stamp(w) \/ AppendEvent(w)
        \/ Tick
        \/ Poll

Spec == Init /\ [][Next]_vars

(* A call that stamped its event gets the lock, and the follower goes on   *)
(* asking.  Nobody has to write and the clock may stand still.             *)
FairSpec == Spec /\ WF_vars(Poll) /\ \A w \in Writers : WF_vars(AppendEvent(w))

-----------------------------------------------------------------------------

TypeOK == /\ log \in Seq(Logged)
          /\ clock \in Instants
          /\ underway \in [Writers -> Stamped \cup {NoEvent}]
          /\ follows \in Wants
          /\ cursor \in 0 .. MaxClock
          /\ seen \subseteq {log[i].id : i \in DOMAIN log}

Queries == [want : Wants, since : Instants \cup {0, BadSince}, limit : LimitTexts]

(* What a query asks for, whatever its limit. *)
AsksFor(q, i) == /\ \A x \in DOMAIN q.want : log[i].what[x] = q.want[x]
                 /\ q.since = 0 \/ q.since <= log[i].at

(* What "limit (default 100, max 1000)" allows. *)
Allowed(q) == IF q.limit \in 1 .. MaxListLimit THEN q.limit
              ELSE IF q.limit \in Nat \ {0} THEN MaxListLimit
              ELSE DefaultListLimit

(* A query is answered with the events it asks for, in the order of the    *)
(* log and without a gap: one that is left out comes after all that are    *)
(* returned, and only if these are as many as the limit allows.  A since   *)
(* parameter that is no time is refused.                                   *)
AnswersRight ==
    \A q \in Queries :
        LET reply == GetEvents(log, q)
            n == Len(reply.events)
        IN  IF q.since = BadSince THEN reply.status = 400
            ELSE /\ \A m \in 1 .. n :
                        AsksFor(q, reply.events[m].id) /\ log[reply.events[m].id] = reply.events[m]
                 /\ \A m \in 2 .. n : reply.events[m - 1].id < reply.events[m].id
                 /\ n <= Allowed(q)
                 /\ \A i \in DOMAIN log :
                        AsksFor(q, i) /\ (\A m \in 1 .. n : reply.events[m].id # i)
                            => n = Allowed(q) /\ reply.events[n].id < i

Followed == {i \in DOMAIN log : \A x \in DOMAIN follows : log[i].what[x] = follows[x]}

(* The follower's next page will not hold event i: it has gone past it. *)
Missed(i) == i \notin seen /\ log[i].at < cursor

(* The follower goes past an event only if its time stamp is older than    *)
(* that of an event before it in the log, and that happens only to calls   *)
(* that overlap: the earlier one in the log was appended after the missed  *)
(* one was stamped.  Events of calls that follow each other are not missed.*)
MissedOnlyIfOverlapped ==
    \A i \in Followed : Missed(i) =>
        \E k \in Followed : k < i /\ log[k].at > log[i].at /\ k > log[i].after

(* As many events as a page holds carry the time stamp the follower is at, *)
(* so that its next page is always the same one.                           *)
Crowded == Cardinality({i \in Followed : log[i].at = cursor}) >= ClampLimit(QueryInt(PageText))

(* A follower that goes on asking gets to see every event, but for the     *)
(* ones it has gone past and for instants with more events than a page.    *)
FollowerCatchesUp ==
    \A i \in 1 .. MaxEvents :
        i \in Followed ~> i \in seen \/ Crowded \/ (i \in Followed /\ Missed(i))

(* FR-011: events are returned "ordered by creation time (newest first)". *)
NewestFirst ==
    \A q \in Queries :
        LET reply == GetEvents(log, q)
        IN  \A m \in 2 .. Len(reply.events) : reply.events[m - 1].at >= reply.events[m].at
=============================================================================

--------------------------- MODULE EventLogProofs ---------------------------
(***************************************************************************)
(* Proofs about EventLog for any number of writers, any events, filters    *)
(* and limits, and a follower with any page.                               *)
(***************************************************************************)
EXTENDS EventLog, SequenceTheorems, FiniteSetTheorems, WellFoundedInduction, TLAPS

-----------------------------------------------------------------------------

(***************************************************************************)
(* The scan of ListEvents, for every log.  What holds of the result after  *)
(* each number of events is shown by looking at the least number for which *)
(* it would not.                                                           *)
(***************************************************************************)

(* A set of naturals that is not empty has a least element. *)
LEMMA Least ==
    ASSUME NEW T, T \subseteq Nat, T # {}
    PROVE  \E m \in T : \A k \in T : m <= k
<1>1. PICK m \in T : \A k \in T : ~ (<<k, m>> \in OpToRel(<, Nat))
  BY NatLessThanWellFounded, WFMin, Zenon
<1>2. \A k \in T : ~ (k < m)
  BY <1>1 DEF OpToRel
<1> QED
  BY <1>2

(* A set of naturals with a bound has a greatest element, which is Max. *)
LEMMA Greatest ==
    ASSUME NEW T, NEW b \in Nat, T \subseteq 0 .. b, T # {}
    PROVE  /\ Max(T) \in T
           /\ \A k \in T : k <= Max(T)
<1> DEFINE Bounds == {m \in Nat : \A k \in T : k <= m}
<1>1. b \in Bounds /\ Bounds \subseteq Nat
  OBVIOUS
<1>2. PICK m \in Bounds : \A k \in Bounds : m <= k
  BY <1>1, Least
<1>3. m \in T
  <2> SUFFICES ASSUME m \notin T PROVE FALSE
    OBVIOUS
  <2>1. PICK t \in T : t \in 0 .. b
    OBVIOUS
  <2>2. t <= m /\ t # m /\ m \in Nat
    BY <1>2, <2>1
  <2>3. m - 1 \in Nat /\ \A k \in T : k <= m - 1
    BY <1>2, <2>1, <2>2
  <2> QED
    BY <1>2, <2>2, <2>3
<1>4. \E x \in T : \A k \in T : k <= x
  BY <1>2, <1>3
<1> QED
  BY <1>4 DEF Max

(* found[n] is the result after the first n of the first m events. *)
IsScan(found, events, f, m) ==
    found = [n \in 0 .. m |-> IF n = 0 THEN << >> ELSE Taken(found[n - 1], events[n], f)]

(* There is a scan of every length. *)
LEMMA ScanExists ==
    ASSUME NEW events, NEW f, NEW l \in Nat
    PROVE  \E found : IsScan(found, events, f, l)
<1> DEFINE T == {m \in Nat : ~ \E found : IsScan(found, events, f, m)}
<1> SUFFICES ASSUME T # {} PROVE FALSE
  OBVIOUS
<1>1. PICK m \in T : \A k \in T : m <= k
  BY Least
<1>2. CASE m = 0
  <2>1. IsScan([n \in 0 .. 0 |-> << >>], events, f, 0)
    BY DEF IsScan
  <2> QED
    BY <1>1, <1>2, <2>1
<1>3. CASE m # 0
  <2>1. m \in Nat /\ m - 1 \in Nat /\ m - 1 \notin T
    BY <1>1, <1>3
  <2>2. PICK g : IsScan(g, events, f, m - 1)
    BY <2>1
  <2> DEFINE h == [n \in 0 .. m |-> IF n = m THEN Taken(g[m - 1], events[m], f) ELSE g[n]]
  <2>3. ASSUME NEW n \in 0 .. m
        PROVE  h[n] = IF n = 0 THEN << >> ELSE Taken(h[n - 1], events[n], f)
    <3>1. CASE n = m
      BY <1>3, <2>1, <3>1
    <3>2. CASE n # m
      BY <2>1, <2>2, <3>2 DEF IsScan
    <3> QED
      BY <3>1, <3>2
  <2>4. IsScan(h, events, f, m)
    BY <2>3 DEF IsScan
  <2> QED
    BY <1>1, <2>4
<1> QED
  BY <1>2, <1>3

(* ListEvents answers with the end of a scan. *)
LEMMA ListIsScan ==
    ASSUME NEW events, NEW f, Len(events) \in Nat
    PROVE  \E found : /\ IsScan(found, events, f, Len(events))
                      /\ ListEvents(events, f) = found[Len(events)]
<1> DEFINE g == CHOOSE found : IsScan(found, events, f, Len(events))
<1>1. IsScan(g, events, f, Len(events))
  BY ScanExists
<1>2. ListEvents(events, f) = g[Len(events)]
  BY Zenon DEF ListEvents, IsScan
<1> QED
  BY <1>1, <1>2

(* How a scan begins and goes on. *)
LEMMA ScanSteps ==
    ASSUME NEW found, NEW events, NEW f, NEW l \in Nat, IsScan(found, events, f, l)
    PROVE  /\ found[0] = << >>
           /\ \A n \in 1 .. l : found[n] = Taken(found[n - 1], events[n], f)
  BY DEF IsScan

(***************************************************************************)
(* What a scan has found after m events of a log whose events carry their  *)
(* places: events the filter selects, in the order of the log, no more     *)
(* than the limit, and none left out before the limit is reached.          *)
(***************************************************************************)
Found(s, events, f, m) ==
    /\ \A j \in 1 .. Len(s) : /\ s[j].id \in 1 .. m
                              /\ events[s[j].id] = s[j]
                              /\ Selected(s[j], f)
    /\ \A j \in 2 .. Len(s) : s[j - 1].id < s[j].id
    /\ Len(s) <= f.limit
    /\ \A i \in 1 .. m : Selected(events[i], f) /\ (\A j \in 1 .. Len(s) : s[j].id # i)
                            => Len(s) = f.limit /\ s[Len(s)].id < i

(* In a sequence whose identifiers go up from each to the next the last    *)
(* one's is the greatest.                                                  *)
LEMMA Ascending ==
    ASSUME NEW s, Len(s) \in Nat, \A j \in 1 .. Len(s) : s[j].id \in Nat,
           \A j \in 2 .. Len(s) : s[j - 1].id < s[j].id
    PROVE  \A j \in 1 .. Len(s) : s[j].id <= s[Len(s)].id
<1> DEFINE l == Len(s)
           T == {d \in Nat : d < l /\ ~ (s[l - d].id <= s[l].id)}
<1>1. T = {}
  <2> SUFFICES ASSUME T # {} PROVE FALSE
    OBVIOUS
  <2>1. PICK d \in T : \A k \in T : d <= k
    BY Least
  <2>2. d # 0
    OBVIOUS
  <2>3. /\ d - 1 \in Nat /\ d - 1 < l /\ d - 1 \notin T
        /\ l - d \in 1 .. l /\ l - (d - 1) \in 2 .. l /\ l - (d - 1) - 1 = l - d
    <3>1. d \in Nat /\ l \in Nat /\ d < l
      OBVIOUS
    <3>2. d - 1 \in Nat /\ d - 1 < l /\ ~ (d <= d - 1)
      BY <2>2, <3>1
    <3>3. d - 1 \notin T
      BY <2>1, <3>2
    <3>4. l - d \in 1 .. l /\ l - (d - 1) \in 2 .. l /\ l - (d - 1) - 1 = l - d
      BY <2>2, <3>1
    <3> QED
      BY <3>2, <3>3, <3>4
  <2>4. s[l - (d - 1)].id <= s[l].id /\ s[l - d].id < s[l - (d - 1)].id
    BY <2>3
  <2>5. s[l - d].id \in Nat /\ s[l - (d - 1)].id \in Nat /\ s[l].id \in Nat
    <3>1. l \in 1 .. l /\ l - (d - 1) \in 1 .. l
      BY <2>3
    <3> QED
      BY <2>3, <3>1
  <2>6. s[l - d].id <= s[l].id
    <3>1. \A a, b, c \in Nat : a < b /\ b <= c => a <= c
      OBVIOUS
    <3> HIDE DEF l, T
    <3> QED
      BY <2>4, <2>5, <3>1, Zenon
  <2> QED
    BY <2>6
<1>2. ASSUME NEW j \in 1 .. l
      PROVE  s[j].id <= s[l].id
  <2>1. l - j \in Nat /\ l - j < l /\ l - (l - j) = j
    OBVIOUS
  <2>2. l - j \notin T
    BY <1>1
  <2> QED
    BY <2>1, <2>2
<1> QED
  BY <1>2

(* One more event of the log keeps it. *)
LEMMA TakenFound ==
    ASSUME NEW S, NEW events \in Seq(S), \A i \in DOMAIN events : events[i].id = i,
           NEW f, f.limit \in Nat \ {0}, NEW m \in 1 .. Len(events),
           NEW s \in Seq(S), Found(s, events, f, m - 1)
    PROVE  /\ Taken(s, events[m], f) \in Seq(S)
           /\ Found(Taken(s, events[m], f), events, f, m)
<1> DEFINE n == Len(s)
           e == events[m]
<1>1. /\ m \in Nat \ {0} /\ n \in Nat
      /\ e \in S
      /\ e.id = m
  BY LenProperties, ElementOfSeq
<1>2. CASE Selected(e, f) /\ ~ Full(s, f.limit)
  <2> DEFINE t == Append(s, e)
  <2>1. /\ t \in Seq(S)
        /\ Len(t) = n + 1
        /\ \A j \in 1 .. n : t[j] = s[j]
        /\ t[n + 1] = e
    BY <1>1, AppendProperties
  <2>2. n < f.limit
    BY <1>1, <1>2 DEF Full
  <2>3. Taken(s, e, f) = t
    BY <1>2 DEF Taken
  <2> HIDE DEF t
  <2>4. ASSUME NEW j \in 1 .. n + 1
        PROVE  t[j].id \in 1 .. m /\ events[t[j].id] = t[j] /\ Selected(t[j], f)
    <3>1. CASE j = n + 1
      BY <1>1, <1>2, <2>1, <3>1
    <3>2. CASE j \in 1 .. n
      BY <1>1, <2>1, <3>2 DEF Found
    <3> QED
      BY <1>1, <3>1, <3>2
  <2>5. ASSUME NEW j \in 2 .. n + 1
        PROVE  t[j - 1].id < t[j].id
    <3>1. CASE j = n + 1
      BY <1>1, <2>1, <3>1 DEF Found
    <3>2. CASE j \in 2 .. n
      <4>1. j \in 1 .. n /\ j - 1 \in 1 .. n
        BY <1>1, <3>2
      <4>2. s[j - 1].id < s[j].id
        BY <3>2 DEF Found
      <4> QED
        BY <2>1, <4>1, <4>2
    <3> QED
      BY <1>1, <3>1, <3>2
  <2>6. ASSUME NEW i \in 1 .. m, Selected(events[i], f), \A j \in 1 .. n + 1 : t[j].id # i
        PROVE  FALSE
    <3>1. i # m
      BY <1>1, <2>1, <2>6
    <3>2. i \in 1 .. m - 1 /\ \A j \in 1 .. n : s[j].id # i
      BY <1>1, <2>1, <2>6, <3>1
    <3> QED
      BY <2>2, <2>6, <3>2 DEF Found
  <2> QED
    BY <1>1, <2>1, <2>2, <2>3, <2>4, <2>5, <2>6 DEF Found
<1>3. CASE ~ (Selected(e, f) /\ ~ Full(s, f.limit))
  <2>1. Taken(s, e, f) = s
    BY <1>3 DEF Taken
  <2>2. ASSUME NEW i \in 1 .. m, Selected(events[i], f), \A j \in 1 .. n : s[j].id # i
        PROVE  n = f.limit /\ s[n].id < i
    <3>1. CASE i = m
      <4>1. n >= f.limit /\ n <= f.limit
        BY <1>3, <2>2, <3>1 DEF Full, Found
      <4>2. n = f.limit /\ n \in 1 .. n
        BY <1>1, <4>1
      <4> QED
        BY <1>1, <3>1, <4>2 DEF Found
    <3>2. CASE i # m
      BY <1>1, <2>2, <3>2 DEF Found
    <3> QED
      BY <3>1, <3>2
  <2>3. \A j \in 1 .. n : s[j].id \in 1 .. m /\ events[s[j].id] = s[j] /\ Selected(s[j], f)
    BY <1>1 DEF Found
  <2> QED
    BY <2>1, <2>2, <2>3 DEF Found
<1> QED
  BY <1>2, <1>3

(* What ListEvents returns, for a log of any length and a limit. *)
LEMMA ListRight ==
    ASSUME NEW S, NEW events \in Seq(S), \A i \in DOMAIN events : events[i].id = i,
           NEW f, f.limit \in Nat \ {0}
    PROVE  /\ ListEvents(events, f) \in Seq(S)
           /\ Found(ListEvents(events, f), events, f, Len(events))
<1> DEFINE l == Len(events)
<1>1. l \in Nat
  BY LenProperties
<1>2. PICK g : IsScan(g, events, f, l) /\ ListEvents(events, f) = g[l]
  BY <1>1, ListIsScan
<1>3. /\ g[0] = << >>
      /\ \A n \in 1 .. l : g[n] = Taken(g[n - 1], events[n], f)
  BY <1>1, <1>2, ScanSteps
<1> DEFINE T == {n \in 0 .. l : ~ (g[n] \in Seq(S) /\ Found(g[n], events, f, n))}
<1>4. T = {}
  <2> SUFFICES ASSUME T # {} PROVE FALSE
    OBVIOUS
  <2>0. T \subseteq Nat
    BY <1>1
  <2>1. PICK m \in T : \A k \in T : m <= k
    BY <2>0, Least
  <2>2. << >> \in Seq(S) /\ Found(<< >>, events, f, 0)
    BY DEF Found
  <2>3. m # 0
    BY <1>3, <2>2
  <2>4. m \in 1 .. l /\ m - 1 \in 0 .. l /\ m - 1 \notin T
    BY <1>1, <2>1, <2>3
  <2>5. g[m - 1] \in Seq(S) /\ Found(g[m - 1], events, f, m - 1)
    BY <2>4
  <2>6. g[m] \in Seq(S) /\ Found(g[m], events, f, m)
    BY <1>3, <2>4, <2>5, TakenFound
  <2> QED
    BY <2>1, <2>6
<1> QED
  BY <1>1, <1>2, <1>4

-----------------------------------------------------------------------------

(* A query that is any text a client may send. *)
Query == [want : Wants, since : Instants \cup {0, BadSince}, limit : Int \cup {NoNumber}]

(* What the store is asked for by a query whose since is one. *)
Asked(q) == [want |-> q.want, since |-> q.since, limit |-> Allowed(q)]

(* clampLimit after queryInt: "limit (default 100, max 1000)". *)
LEMMA LimitRight ==
    ASSUME NEW q \in Query
    PROVE  /\ ClampLimit(QueryInt(q.limit)) = Allowed(q)
           /\ Allowed(q) \in Nat \ {0}
<1> DEFINE n == QueryInt(q.limit)
<1> USE ListLimitsAssumption, MalformedAssumption
<1>1. /\ q.limit \in Int \cup {NoNumber}
      /\ n \in Int
  BY DEF Query, QueryInt
<1>2. CASE n <= 0
  <2>1. q.limit \notin 1 .. MaxListLimit /\ q.limit \notin Nat \ {0}
    BY <1>1, <1>2 DEF QueryInt
  <2> QED
    BY <1>2, <2>1 DEF ClampLimit, Allowed
<1>3. CASE n > 0
  <2>1. q.limit = n /\ n \in Nat \ {0}
    BY <1>1, <1>3 DEF QueryInt
  <2>2. Min({n, MaxListLimit}) = IF n <= MaxListLimit THEN n ELSE MaxListLimit
    BY <2>1 DEF Min
  <2>3. ClampLimit(n) = Min({n, MaxListLimit})
    BY <1>1, <1>3 DEF ClampLimit
  <2> QED
    BY <2>1, <2>2, <2>3 DEF Allowed
<1> QED
  BY <1>1, <1>2, <1>3

(* A query with another limit. *)
LEMMA WithLimit ==
    ASSUME NEW q \in Query, NEW n
    PROVE  [q EXCEPT !.limit = n] = [want |-> q.want, since |-> q.since, limit |-> n]
  BY DEF Query

(* GET /v1/events answers with what the store returns. *)
LEMMA ReplyIsList ==
    ASSUME NEW events, NEW q \in Query, q.since # BadSince
    PROVE  GetEvents(events, q).events = ListEvents(events, Asked(q))
<1> DEFINE p == [q EXCEPT !.limit = QueryInt(q.limit)]
           f == [p EXCEPT !.limit = ClampLimit(p.limit)]
<1>1. p = [want |-> q.want, since |-> q.since, limit |-> QueryInt(q.limit)]
  BY WithLimit
<1>2. p \in Query /\ p.limit = QueryInt(q.limit) /\ p.want = q.want /\ p.since = q.since
  BY <1>1 DEF Query, QueryInt
<1>3. f = [want |-> p.want, since |-> p.since, limit |-> ClampLimit(p.limit)]
  <2> HIDE DEF p
  <2> QED
    BY <1>2, WithLimit
<1>4. f = Asked(q)
  <2> HIDE DEF p, f
  <2> QED
    BY <1>2, <1>3, LimitRight DEF Asked
<1>5. ServiceListEvents(events, p) = ListEvents(events, f)
  BY DEF ServiceListEvents
<1>6. GetEvents(events, q).events = ServiceListEvents(events, p)
  BY DEF GetEvents
<1> QED
  BY <1>4, <1>5, <1>6

-----------------------------------------------------------------------------

(* An event's identifier is its place. *)
Numbered == \A i \in DOMAIN log : log[i].id = i

(* There is room for the events under way. *)
Room == /\ IsFiniteSet(UnderWay)
        /\ Len(log) + Cardinality(UnderWay) <= MaxEvents

(* e, which will have place i or a later one, was stamped after the events *)
(* that were in the log then.                                              *)
OnTime(e, i) ==
    /\ e.at <= clock
    /\ e.after < i
    /\ \A k \in 1 .. e.after : log[k].at <= e.at

StampedOnTime == \A w \in UnderWay : OnTime(underway[w], Len(log) + 1)

LoggedOnTime == \A i \in DOMAIN log : OnTime(log[i], i)

(* The follower is at the time stamp of an event it follows. *)
CursorRight == cursor = 0 \/ \E k \in Followed : log[k].at = cursor

(* An event it has gone past has a younger one before it. *)
MissedRight ==
    \A i \in Followed : Missed(i) => \E k \in Followed : k < i /\ log[k].at > log[i].at

(***************************************************************************)
(* The inductive invariant.  MissedOnlyIfOverlapped says of the younger    *)
(* event that it came after the missed one was stamped.  That is the order *)
(* of clock and log, which OnTime states, and needs to be known of events  *)
(* under way as well; that there is a younger one at all is a matter of    *)
(* the follower's pages and cursor.  AnswersRight rests on Numbered and    *)
(* the scan alone.                                                         *)
(***************************************************************************)
LogInv ==
    /\ TypeOK
    /\ Numbered
    /\ Room
    /\ StampedOnTime
    /\ LoggedOnTime
    /\ CursorRight
    /\ MissedRight

(* What a query is answered with. *)
LEMMA ReplyRight ==
    ASSUME TypeOK, Numbered, NEW q \in Query, q.since # BadSince
    PROVE  /\ GetEvents(log, q).events \in Seq(Logged)
           /\ Found(GetEvents(log, q).events, log, Asked(q), Len(log))
<1>1. Asked(q).limit \in Nat \ {0}
  BY LimitRight DEF Asked
<1> QED
  BY <1>1, ListRight, ReplyIsList DEF TypeOK, Numbered

(* What a filter selects is what the query asks for. *)
LEMMA SelectedRight ==
    ASSUME TypeOK, NEW q \in Query, q.since # BadSince, NEW i \in DOMAIN log
    PROVE  Selected(log[i], Asked(q)) <=> AsksFor(q, i)
<1>1. log[i] \in Logged
  BY ElementOfSeq DEF TypeOK
<1>2. log[i].at \in Int /\ q.since \in Int
  BY <1>1, LogBoundsAssumption DEF Logged, Query, Instants
<1> QED
  BY <1>2 DEF Selected, Asked, AsksFor

(* Queries are answered right in every well-typed state with numbered     *)
(* events.                                                                *)
LEMMA AnswersRightNow ==
    ASSUME TypeOK, Numbered
    PROVE  AnswersRight
<1> SUFFICES ASSUME NEW q \in Queries
             PROVE  LET reply == GetEvents(log, q)
                        n == Len(reply.events)
                    IN  IF q.since = BadSince THEN reply.status = 400
                        ELSE /\ \A m \in 1 .. n : /\ AsksFor(q, reply.events[m].id)
                                                  /\ log[reply.events[m].id] = reply.events[m]
                             /\ \A m \in 2 .. n : reply.events[m - 1].id < reply.events[m].id
                             /\ n <= Allowed(q)
                             /\ \A i \in DOMAIN log :
                                    AsksFor(q, i) /\ (\A m \in 1 .. n : reply.events[m].id # i)
                                        => n = Allowed(q) /\ reply.events[n].id < i
  BY DEF AnswersRight
<1>1. q \in Query
  BY LimitTextsAssumption DEF Queries, Query
<1>2. CASE q.since = BadSince
  BY <1>2 DEF GetEvents
<1>3. CASE q.since # BadSince
  <2> DEFINE s == GetEvents(log, q).events
  <2>1. Found(s, log, Asked(q), Len(log))
    BY <1>1, <1>3, ReplyRight
  <2>2. Asked(q).limit = Allowed(q)
    BY DEF Asked
  <2>3. DOMAIN log = 1 .. Len(log)
    BY LenProperties DEF TypeOK
  <2>4. \A i \in 1 .. Len(log) : Selected(log[i], Asked(q)) <=> AsksFor(q, i)
    BY <1>1, <1>3, <2>3, SelectedRight
  <2> HIDE DEF s
  <2>5. \A m \in 1 .. Len(s) : AsksFor(q, s[m].id) /\ log[s[m].id] = s[m]
    BY <2>1, <2>4 DEF Found
  <2>6. /\ \A m \in 2 .. Len(s) : s[m - 1].id < s[m].id
        /\ Len(s) <= Allowed(q)
    BY <2>1, <2>2 DEF Found
  <2>7. ASSUME NEW i \in DOMAIN log, AsksFor(q, i), \A m \in 1 .. Len(s) : s[m].id # i
        PROVE  Len(s) = Allowed(q) /\ s[Len(s)].id < i
    BY <2>1, <2>2, <2>3, <2>4, <2>7 DEF Found
  <2> QED
    BY <1>3, <2>5, <2>6, <2>7 DEF s
<1> QED
  BY <1>2, <1>3

-----------------------------------------------------------------------------

(* Init *)
LEMMA LogInit ==
    ASSUME Init
    PROVE  LogInv
<1> USE LogBoundsAssumption DEF Init
<1>1. TypeOK
  BY DEF TypeOK, Instants
<1>2. UnderWay = {}
  BY DEF UnderWay
<1>3. IsFiniteSet(UnderWay) /\ Cardinality(UnderWay) = 0
  BY <1>2, FS_EmptySet
<1>4. Len(log) = 0 /\ DOMAIN log = {}
  OBVIOUS
<1>5. Room
  BY <1>3, <1>4 DEF Room
<1> QED
  BY <1>1, <1>2, <1>4, <1>5
  DEF LogInv, Numbered, StampedOnTime, LoggedOnTime, CursorRight, MissedRight, Followed

(* The types of the events in the log and under way. *)
LEMMA Shapes ==
    ASSUME TypeOK
    PROVE  /\ Len(log) \in Nat
           /\ DOMAIN log = 1 .. Len(log)
           /\ \A i \in DOMAIN log : log[i] \in Logged /\ log[i].at \in Nat /\ log[i].after \in Nat
           /\ \A w \in UnderWay : /\ underway[w] \in Stamped
                                  /\ underway[w].at \in Nat /\ underway[w].after \in Nat
           /\ clock \in Nat
           /\ cursor \in Nat
<1> USE LogBoundsAssumption
<1>1. Len(log) \in Nat /\ DOMAIN log = 1 .. Len(log)
  BY LenProperties DEF TypeOK
<1>2. \A i \in DOMAIN log : log[i] \in Logged
  BY <1>1, ElementOfSeq DEF TypeOK
<1>3. \A e \in Logged : e.at \in Nat /\ e.after \in Nat
  BY DEF Logged, Instants
<1>4. \A e \in Stamped : e.at \in Nat /\ e.after \in Nat
  BY DEF Stamped, Instants
<1>5. \A w \in UnderWay : underway[w] \in Stamped
  BY DEF TypeOK, UnderWay
<1>6. clock \in Nat /\ cursor \in Nat
  BY DEF TypeOK, Instants
<1> QED
  BY <1>1, <1>2, <1>3, <1>4, <1>5, <1>6

(* AppendEvent before it takes the lock. *)
LEMMA StampKeeps ==
    ASSUME LogInv, NEW w \in Writers, Stamp(w)
    PROVE  LogInv'
<1> USE DEF LogInv
<1>1. PICK k \in Kinds :
          underway' = [underway EXCEPT ![w] = [what |-> k, at |-> clock, after |-> Len(log)]]
  BY DEF Stamp
<1> DEFINE e == [what |-> k, at |-> clock, after |-> Len(log)]
<1>2. /\ UNCHANGED <<log, clock, follows, cursor, seen>>
      /\ w \notin UnderWay
      /\ Len(log) + Cardinality(UnderWay) < MaxEvents
  BY DEF Stamp, UnderWay
<1>3. IsFiniteSet(UnderWay) /\ Cardinality(UnderWay) \in Nat
  BY FS_CardinalityType DEF Room
<1>4. Len(log) \in 0 .. MaxEvents
  BY <1>2, <1>3, Shapes, LogBoundsAssumption
<1>5. e \in Stamped
  BY <1>4 DEF Stamped, TypeOK
<1>6. e # NoEvent
  BY <1>5, NoEventAssumption
<1>7. underway' \in [Writers -> Stamped \cup {NoEvent}]
  BY <1>1, <1>5 DEF TypeOK
<1>8. underway'[w] = e /\ \A v \in Writers \ {w} : underway'[v] = underway[v]
  BY <1>1 DEF TypeOK
<1> HIDE DEF e
<1>9. TypeOK'
  BY <1>2, <1>7 DEF TypeOK
<1>10. UnderWay' = UnderWay \cup {w}
  BY <1>6, <1>8 DEF UnderWay
<1>11. Room'
  <2>1. IsFiniteSet(UnderWay') /\ Cardinality(UnderWay') = Cardinality(UnderWay) + 1
    BY <1>2, <1>3, <1>10, FS_AddElement
  <2> QED
    BY <1>2, <1>3, <1>4, <2>1, LogBoundsAssumption DEF Room
<1>12. StampedOnTime'
  <2> SUFFICES ASSUME NEW v \in UnderWay'
               PROVE  OnTime(underway[v], Len(log) + 1)'
    BY DEF StampedOnTime
  <2>1. CASE v = w
    <3>1. \A i \in DOMAIN log : log[i].at <= clock
      BY DEF LoggedOnTime, OnTime
    <3>2. e.at = clock /\ e.after = Len(log)
      BY DEF e
    <3> QED
      BY <1>2, <1>8, <2>1, <3>1, <3>2, Shapes DEF OnTime
  <2>2. CASE v # w
    <3>1. v \in UnderWay /\ underway'[v] = underway[v]
      BY <1>8, <1>10, <2>2 DEF UnderWay
    <3> QED
      BY <1>2, <3>1 DEF StampedOnTime, OnTime
  <2> QED
    BY <2>1, <2>2
<1>13. Numbered' /\ LoggedOnTime' /\ CursorRight' /\ MissedRight'
  BY <1>2 DEF Numbered, LoggedOnTime, OnTime, CursorRight, MissedRight, Followed, Missed
<1> QED
  BY <1>9, <1>11, <1>12, <1>13

(* The log after an AppendEvent. *)
LEMMA AppendShapes ==
    ASSUME LogInv, NEW w \in Writers, AppendEvent(w)
    PROVE  /\ w \in UnderWay
           /\ Len(log) + 1 \in 1 .. MaxEvents
           /\ \E e \in Logged : /\ log' = Append(log, e)
                                /\ e.id = Len(log) + 1
                                /\ e.what = underway[w].what
                                /\ e.at = underway[w].at
                                /\ e.after = underway[w].after
           /\ log' \in Seq(Logged)
           /\ Len(log') = Len(log) + 1
           /\ DOMAIN log' = 1 .. Len(log) + 1
           /\ \A i \in DOMAIN log : log'[i] = log[i]
           /\ log'[Len(log) + 1].id = Len(log) + 1
           /\ log'[Len(log) + 1].at = underway[w].at
           /\ log'[Len(log) + 1].after = underway[w].after
<1> USE DEF LogInv
<1> DEFINE l == Len(log)
           e == [id |-> Len(log) + 1, what |-> underway[w].what,
                 at |-> underway[w].at, after |-> underway[w].after]
<1>1. w \in UnderWay /\ underway[w] \in Stamped /\ log' = Append(log, e)
  BY Shapes DEF AppendEvent, UnderWay
<1>2. Cardinality(UnderWay) >= 1
  <2>1. Cardinality(UnderWay) \in Nat /\ Cardinality(UnderWay) # 0
    BY <1>1, FS_CardinalityType, FS_EmptySet DEF Room
  <2> QED
    BY <2>1
<1>3. l + 1 \in 1 .. MaxEvents
  <2>1. Cardinality(UnderWay) \in Nat /\ l + Cardinality(UnderWay) <= MaxEvents
    BY FS_CardinalityType DEF Room
  <2> QED
    BY <1>2, <2>1, Shapes, LogBoundsAssumption
<1>4. e \in Logged
  BY <1>1, <1>3 DEF Stamped, Logged
<1>5. /\ e.id = l + 1 /\ e.what = underway[w].what
      /\ e.at = underway[w].at /\ e.after = underway[w].after
  OBVIOUS
<1> HIDE DEF e
<1>6. /\ log \in Seq(Logged)
      /\ log' \in Seq(Logged)
      /\ Len(log') = l + 1
      /\ \A i \in 1 .. l : log'[i] = log[i]
      /\ log'[l + 1] = e
  BY <1>1, <1>4, AppendProperties DEF TypeOK
<1>7. DOMAIN log' = 1 .. l + 1
  BY <1>6, LenProperties
<1> QED
  BY <1>1, <1>3, <1>4, <1>5, <1>6, <1>7, Shapes

(* AppendEvent under the lock.  The new event is missed at once when the   *)
(* follower is past its time stamp: then it is the event the follower is   *)
(* at that is younger.                                                     *)
LEMMA AppendKeeps ==
    ASSUME LogInv, NEW w \in Writers, AppendEvent(w)
    PROVE  LogInv'
<1> USE DEF LogInv
<1> DEFINE l == Len(log)
<1>1. /\ w \in UnderWay
      /\ log' \in Seq(Logged)
      /\ Len(log') = l + 1
      /\ DOMAIN log' = 1 .. l + 1
      /\ \A i \in DOMAIN log : log'[i] = log[i]
      /\ log'[l + 1].id = l + 1
      /\ log'[l + 1].at = underway[w].at
      /\ log'[l + 1].after = underway[w].after
  BY AppendShapes
<1>2. /\ l \in Nat
      /\ DOMAIN log = 1 .. l
      /\ \A i \in DOMAIN log : log[i].at \in Nat /\ log[i].after \in Nat
      /\ \A v \in UnderWay : underway[v].at \in Nat /\ underway[v].after \in Nat
      /\ clock \in Nat
      /\ cursor \in Nat
  BY Shapes
<1>3. /\ underway' \in [Writers -> Stamped \cup {NoEvent}]
      /\ underway'[w] = NoEvent
      /\ \A v \in Writers \ {w} : underway'[v] = underway[v]
      /\ UNCHANGED <<clock, follows, cursor, seen>>
  BY DEF AppendEvent, TypeOK
<1>4. UnderWay' = UnderWay \ {w}
  BY <1>3 DEF UnderWay
<1>5. \A i \in DOMAIN log' : i \in DOMAIN log \/ i = l + 1
  BY <1>1, <1>2
<1>6. DOMAIN log \subseteq DOMAIN log'
  BY <1>1, <1>2
<1> HIDE DEF l
<1>7. TypeOK'
  <2>1. seen' \subseteq {log'[i].id : i \in DOMAIN log'}
    BY <1>1, <1>3, <1>6 DEF TypeOK
  <2> QED
    BY <1>1, <1>3, <2>1 DEF TypeOK
<1>8. Numbered'
  BY <1>1, <1>5 DEF Numbered
<1>9. Room'
  <2>1. /\ IsFiniteSet(UnderWay') /\ Cardinality(UnderWay') = Cardinality(UnderWay) - 1
        /\ Cardinality(UnderWay) \in Nat
    BY <1>1, <1>4, FS_RemoveElement, FS_CardinalityType DEF Room
  <2> QED
    BY <1>1, <1>2, <2>1, LogBoundsAssumption DEF Room, l
<1>10. \A v \in UnderWay : /\ underway[v].at <= clock
                           /\ underway[v].after < l + 1
                           /\ \A k \in 1 .. underway[v].after :
                                k \in DOMAIN log /\ log'[k].at <= underway[v].at
  <2> SUFFICES ASSUME NEW v \in UnderWay
               PROVE  /\ underway[v].at <= clock
                      /\ underway[v].after < l + 1
                      /\ \A k \in 1 .. underway[v].after :
                            k \in DOMAIN log /\ log'[k].at <= underway[v].at
    OBVIOUS
  <2>1. /\ underway[v].at <= clock
        /\ underway[v].after < l + 1
        /\ \A k \in 1 .. underway[v].after : log[k].at <= underway[v].at
    BY DEF StampedOnTime, OnTime, l
  <2>2. \A k \in 1 .. underway[v].after : k \in DOMAIN log
    BY <1>2, <2>1
  <2> QED
    BY <1>1, <2>1, <2>2
<1>11. StampedOnTime'
  <2> SUFFICES ASSUME NEW v \in UnderWay'
               PROVE  OnTime(underway[v], Len(log) + 1)'
    BY DEF StampedOnTime
  <2>1. v \in UnderWay /\ underway'[v] = underway[v]
    BY <1>3, <1>4 DEF UnderWay
  <2>2. underway[v].after < Len(log') + 1
    BY <1>1, <1>2, <1>10, <2>1
  <2> QED
    BY <1>3, <1>10, <2>1, <2>2 DEF OnTime
<1>12. LoggedOnTime'
  <2> SUFFICES ASSUME NEW i \in DOMAIN log'
               PROVE  OnTime(log[i], i)'
    BY DEF LoggedOnTime
  <2>1. CASE i = l + 1
    BY <1>1, <1>3, <1>10, <2>1 DEF OnTime
  <2>2. CASE i \in DOMAIN log
    <3>1. /\ log[i].at <= clock /\ log[i].after < i
          /\ \A k \in 1 .. log[i].after : log[k].at <= log[i].at
      BY <2>2 DEF LoggedOnTime, OnTime
    <3>2. \A k \in 1 .. log[i].after : k \in DOMAIN log
      BY <1>2, <2>2, <3>1
    <3> QED
      BY <1>1, <1>3, <2>2, <3>1, <3>2 DEF OnTime
  <2> QED
    BY <1>5, <2>1, <2>2
<1>13. Followed \subseteq Followed' /\ \A i \in Followed' : i \in Followed \/ i = l + 1
  BY <1>1, <1>3, <1>5, <1>6 DEF Followed
<1>14. CursorRight'
  BY <1>1, <1>3, <1>13 DEF CursorRight, Followed
<1>15. MissedRight'
  <2> SUFFICES ASSUME NEW i \in Followed', Missed(i)'
               PROVE  \E k \in Followed' : k < i /\ log'[k].at > log'[i].at
    BY DEF MissedRight
  <2>1. CASE i \in Followed
    <3>1. i \in DOMAIN log /\ Missed(i)
      BY <1>1, <1>3, <2>1 DEF Followed, Missed
    <3>2. PICK k \in Followed : k < i /\ log[k].at > log[i].at
      BY <2>1, <3>1 DEF MissedRight
    <3>3. k \in DOMAIN log /\ k \in Followed'
      BY <1>13 DEF Followed
    <3> QED
      BY <1>1, <3>1, <3>2, <3>3
  <2>2. CASE i = l + 1
    <3>1. log'[i].at < cursor /\ log'[i].at \in Nat
      BY <1>1, <1>2, <1>3, <2>2 DEF Missed
    <3>2. PICK k \in Followed : log[k].at = cursor
      BY <1>2, <3>1 DEF CursorRight
    <3>3. k \in DOMAIN log /\ k \in Followed'
      BY <1>13 DEF Followed
    <3>4. k < i /\ log'[k].at > log'[i].at
      BY <1>1, <1>2, <2>2, <3>1, <3>2, <3>3
    <3> QED
      BY <3>3, <3>4
  <2> QED
    BY <1>13, <2>1, <2>2
<1> QED
  BY <1>7, <1>8, <1>9, <1>11, <1>12, <1>14, <1>15

(* The clock goes on. *)
LEMMA TickKeeps ==
    ASSUME LogInv, Tick
    PROVE  LogInv'
<1> USE DEF LogInv
<1>1. /\ clock' = clock + 1
      /\ clock < MaxClock
      /\ UNCHANGED <<log, underway, follows, cursor, seen>>
  BY DEF Tick
<1>2. clock \in Nat /\ clock' \in Instants
  BY <1>1, Shapes, LogBoundsAssumption DEF Instants, TypeOK
<1>3. TypeOK'
  BY <1>1, <1>2 DEF TypeOK
<1>4. UnderWay' = UnderWay
  BY <1>1 DEF UnderWay
<1>5. \A t \in Nat : t <= clock => t <= clock'
  BY <1>1, <1>2
<1>6. StampedOnTime'
  BY <1>1, <1>4, <1>5, Shapes DEF StampedOnTime, OnTime
<1>7. LoggedOnTime'
  BY <1>1, <1>5, Shapes DEF LoggedOnTime, OnTime
<1>8. Numbered' /\ Room' /\ CursorRight' /\ MissedRight'
  BY <1>1, <1>4 DEF Numbered, Room, CursorRight, MissedRight, Followed, Missed
<1> QED
  BY <1>3, <1>6, <1>7, <1>8

(* What the follower's page holds: events it follows, no older than its    *)
(* cursor, and none left out before one that is on the page.               *)
LEMMA PageRight ==
    ASSUME LogInv
    PROVE  /\ DOMAIN Page = 1 .. Len(Page)
           /\ Len(Page) \in Nat
           /\ \A n \in DOMAIN Page : /\ Page[n].id \in Followed
                                     /\ log[Page[n].id] = Page[n]
           /\ \A i \in Followed : /\ log[i].at >= cursor
                                  /\ i \notin {Page[n].id : n \in DOMAIN Page}
                                  => \A n \in DOMAIN Page : Page[n].id < i
<1> USE DEF LogInv
<1> DEFINE q == [want |-> follows, since |-> cursor, limit |-> PageText]
<1>1. cursor \in Instants \cup {0} /\ cursor # BadSince
  BY LogBoundsAssumption, MalformedAssumption DEF TypeOK, Instants
<1>2. q \in Query /\ q.since # BadSince
  BY <1>1, LimitTextsAssumption DEF Query, TypeOK
<1>3. q.want = follows /\ q.since = cursor
  OBVIOUS
<1>4. Page = GetEvents(log, q).events
  BY DEF Page
<1> HIDE DEF q
<1>5. Page \in Seq(Logged) /\ Found(Page, log, Asked(q), Len(log))
  BY <1>2, <1>4, ReplyRight
<1>6. DOMAIN Page = 1 .. Len(Page) /\ Len(Page) \in Nat
  BY <1>5, LenProperties
<1>7. DOMAIN log = 1 .. Len(log) /\ Len(log) \in Nat
  BY Shapes
<1>8. \A i \in DOMAIN log : Selected(log[i], Asked(q)) <=> AsksFor(q, i)
  BY <1>2, SelectedRight
<1> HIDE DEF Page
<1>9. ASSUME NEW n \in DOMAIN Page
      PROVE  Page[n].id \in Followed /\ log[Page[n].id] = Page[n]
  <2>1. /\ Page[n].id \in DOMAIN log
        /\ log[Page[n].id] = Page[n]
        /\ AsksFor(q, Page[n].id)
    BY <1>5, <1>6, <1>7, <1>8 DEF Found
  <2> QED
    BY <1>3, <2>1 DEF AsksFor, Followed
<1>10. ASSUME NEW i \in Followed, log[i].at >= cursor,
              i \notin {Page[n].id : n \in DOMAIN Page},
              NEW n \in DOMAIN Page
       PROVE  Page[n].id < i
  <2>1. i \in DOMAIN log /\ AsksFor(q, i)
    BY <1>3, <1>10, Shapes DEF AsksFor, Followed
  <2>2. Page[Len(Page)].id < i
    BY <1>5, <1>6, <1>7, <1>8, <1>10, <2>1 DEF Found
  <2>3. \A j \in 2 .. Len(Page) : Page[j - 1].id < Page[j].id
    BY <1>5 DEF Found
  <2>4. \A j \in DOMAIN Page : Page[j].id \in Nat
    BY <1>5, <1>6 DEF Found
  <2>5. Page[n].id <= Page[Len(Page)].id
    BY <1>6, <2>3, <2>4, Ascending
  <2> QED
    BY <1>6, <1>7, <2>1, <2>2, <2>4, <2>5
<1> QED
  BY <1>6, <1>9, <1>10

(* The follower asks for the next page.  An event that it goes past now    *)
(* was asked for and left out: the page was full, of events before it.     *)
LEMMA PollKeeps ==
    ASSUME LogInv, Poll
    PROVE  LogInv'
<1> USE DEF LogInv
<1> DEFINE stamps == {cursor} \cup {Page[n].at : n \in DOMAIN Page}
<1>1. /\ seen' = seen \cup {Page[n].id : n \in DOMAIN Page}
      /\ cursor' = Max(stamps)
      /\ UNCHANGED <<log, clock, underway, follows>>
  BY DEF Poll
<1>2. /\ \A n \in DOMAIN Page : Page[n].id \in Followed /\ log[Page[n].id] = Page[n]
      /\ \A i \in Followed : /\ log[i].at >= cursor
                             /\ i \notin {Page[n].id : n \in DOMAIN Page}
                             => \A n \in DOMAIN Page : Page[n].id < i
  BY PageRight
<1> HIDE DEF Page
<1>3. \A i \in Followed : /\ i \in DOMAIN log
                          /\ log[i].at \in Instants
                          /\ log[i].at \in Nat
                          /\ log[i].id = i
  BY Shapes DEF Followed, Numbered, Logged
<1>4. cursor \in Nat /\ clock \in Nat /\ Len(log) \in Nat
  BY Shapes
<1>5. stamps \subseteq 0 .. MaxClock /\ stamps # {}
  BY <1>2, <1>3 DEF TypeOK, Instants
<1>6. cursor' \in stamps /\ \A t \in stamps : t <= cursor'
  BY <1>1, <1>5, Greatest, LogBoundsAssumption
<1>7. /\ cursor' \in 0 .. MaxClock
      /\ cursor' = cursor \/ \E n \in DOMAIN Page : Page[n].at = cursor'
  BY <1>5, <1>6
<1>8. cursor \in stamps /\ cursor <= cursor'
  BY <1>6
<1> HIDE DEF stamps
<1>9. TypeOK'
  <2>1. seen' \subseteq {log[i].id : i \in DOMAIN log}
    BY <1>1, <1>2, <1>3 DEF TypeOK
  <2> QED
    BY <1>1, <1>7, <2>1 DEF TypeOK
<1>10. Followed' = Followed /\ UnderWay' = UnderWay
  BY <1>1 DEF Followed, UnderWay
<1>11. Numbered' /\ Room' /\ StampedOnTime' /\ LoggedOnTime'
  BY <1>1, <1>10 DEF Numbered, Room, StampedOnTime, LoggedOnTime, OnTime
<1>12. CursorRight'
  <2>1. CASE cursor' = cursor
    BY <1>1, <1>10, <2>1 DEF CursorRight
  <2>2. CASE \E n \in DOMAIN Page : Page[n].at = cursor'
    BY <1>1, <1>2, <1>10, <2>2 DEF CursorRight
  <2> QED
    BY <1>7, <2>1, <2>2
<1>13. MissedRight'
  <2> SUFFICES ASSUME NEW i \in Followed, Missed(i)'
               PROVE  \E k \in Followed : k < i /\ log[k].at > log[i].at
    BY <1>1, <1>10 DEF MissedRight
  <2>1. i \notin seen' /\ log[i].at < cursor'
    BY <1>1 DEF Missed
  <2>2. CASE log[i].at < cursor
    <3>1. Missed(i)
      BY <1>1, <2>1, <2>2 DEF Missed
    <3> QED
      BY <3>1 DEF MissedRight
  <2>3. CASE log[i].at >= cursor
    <3>1. PICK n \in DOMAIN Page : Page[n].at = cursor'
      BY <1>3, <1>4, <1>7, <2>1, <2>3
    <3>2. Page[n].id < i
      BY <1>1, <1>2, <2>1, <2>3, <3>1
    <3>3. Page[n].id \in Followed /\ log[Page[n].id].at = cursor'
      BY <1>2, <3>1
    <3>4. log[Page[n].id].at > log[i].at
      BY <1>3, <2>1, <3>3
    <3> QED
      BY <3>2, <3>3, <3>4
  <2> QED
    BY <1>3, <1>4, <2>2, <2>3
<1> QED
  BY <1>9, <1>11, <1>12, <1>13

(* Every step keeps the invariant. *)
LEMMA LogStep ==
    ASSUME LogInv, [Next]_vars
    PROVE  LogInv'
<1>1. CASE UNCHANGED vars
  BY <1>1 DEF vars, LogInv, TypeOK, Numbered, Room, UnderWay, StampedOnTime, LoggedOnTime, OnTime,
              CursorRight, MissedRight, Followed, Missed
<1>2. CASE Next
  BY <1>2, StampKeeps, AppendKeeps, TickKeeps, PollKeeps DEF Next
<1> QED
  BY <1>1, <1>2

(***************************************************************************)
(* LogInv is an invariant of memstate's event log and its follower.        *)
(***************************************************************************)
THEOREM LogInvariance == Spec => []LogInv
<1>1. Init => LogInv
  BY LogInit
<1>2. LogInv /\ [Next]_vars => LogInv'
  BY LogStep
<1> QED
  BY <1>1, <1>2, PTL DEF Spec

(***************************************************************************)
(* The log never outgrows its bound, and the follower has seen only events *)
(* that AppendEvent put into the log.                                      *)
(***************************************************************************)
THEOREM LogTyping == Spec => []TypeOK
<1>1. LogInv => TypeOK
  BY DEF LogInv
<1> QED
  BY <1>1, LogInvariance, PTL

(***************************************************************************)
(* GET /v1/events answers every query with the events it asks for, in the  *)
(* order of the log, up to the limit and without a gap, for logs, filters  *)
(* and limits of any size.                                                 *)
(***************************************************************************)
THEOREM QueriesAnswered == Spec => []AnswersRight
<1>1. LogInv => AnswersRight
  BY AnswersRightNow DEF LogInv
<1> QED
  BY <1>1, LogInvariance, PTL

(***************************************************************************)
(* A follower that asks for the events since the last time stamp it has    *)
(* seen goes past one only because AppendEvent took the time before it     *)
(* took the lock, and another call came between.                           *)
(***************************************************************************)
THEOREM MissesOverlap == Spec => []MissedOnlyIfOverlapped
<1>1. LogInv => MissedOnlyIfOverlapped
  <2> SUFFICES ASSUME LogInv, NEW i \in Followed, Missed(i)
               PROVE  \E k \in Followed : k < i /\ log[k].at > log[i].at /\ k > log[i].after
    BY DEF MissedOnlyIfOverlapped
  <2>1. PICK k \in Followed : k < i /\ log[k].at > log[i].at
    BY DEF LogInv, MissedRight
  <2>2. /\ i \in DOMAIN log /\ k \in DOMAIN log
        /\ k \in Nat /\ k >= 1
        /\ log[k].at \in Nat /\ log[i].at \in Nat /\ log[i].after \in Nat
    BY Shapes DEF LogInv, Followed
  <2>3. \A j \in 1 .. log[i].after : log[j].at <= log[i].at
    BY <2>2 DEF LogInv, LoggedOnTime, OnTime
  <2>4. k > log[i].after
    BY <2>1, <2>2, <2>3
  <2> QED
    BY <2>1, <2>4
<1> QED
  BY <1>1, LogInvariance, PTL
=============================================================================

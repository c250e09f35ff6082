------------------------------- MODULE Queries -------------------------------
(***************************************************************************)
(* The list queries, from the query string to the store: queryInt and the  *)
(* list handlers (transport/httpapi/handler.go), clampLimit and the list   *)
(* methods of the service (api/service.go), and the scans of memstate.     *)
(* They change nothing, so they are operators here.                        *)
(*                                                                         *)
(* The fields of a filter that are not the zero value are the domain of    *)
(* its function want, so a filter on nothing has want = <<>>.  The zero    *)
(* time is 0.                                                              *)
(***************************************************************************)
EXTENDS Integers, Sequences, FiniteSets, FiniteSetsExt

CONSTANTS
    DefaultListLimit,
    MaxListLimit,
    NoNumber,       \* a limit that is missing or that Atoi makes nothing of
    BadSince        \* a since parameter that is not RFC 3339

ASSUME ListLimitsAssumption ==
    DefaultListLimit \in Nat \ {0} /\ MaxListLimit \in Nat /\ DefaultListLimit <= MaxListLimit
ASSUME MalformedAssumption == NoNumber \notin Int /\ BadSince \notin Int

-----------------------------------------------------------------------------

(* The error of Atoi is dropped.  It makes the greatest int of a number    *)
(* out of range, for which any number above MaxListLimit stands.           *)
QueryInt(text) == IF text = NoNumber THEN 0 ELSE text

ClampLimit(limit) == IF limit <= 0 THEN DefaultListLimit ELSE Min({limit, MaxListLimit})

SinceExclusive(e, f) == /\ \A x \in DOMAIN f.want : e.what[x] = f.want[x]
                        /\ f.since # 0 => e.at > f.since

(* The tests ListEvents makes of an event. *)
Selected(e, f) == /\ \A x \in DOMAIN f.want : e.what[x] = f.want[x]
                  /\ f.since # 0 => e.at >= f.since

FullTooSoon(found, limit) == limit > 0 /\ Len(found) + 1 >= limit

(* A scan breaks off when it has found as many as the limit says; a limit  *)
(* that is not positive is none.                                           *)
Full(found, limit) == limit > 0 /\ Len(found) >= limit

(* What has been found when the scan has come past event e. *)
Taken(found, e, f) == IF Selected(e, f) /\ ~ Full(found, f.limit) THEN Append(found, e) ELSE found

(* Store.ListEvents: found[n] is the result after the first n events. *)
ListEvents(log, f) ==
    LET found[n \in 0 .. Len(log)] ==
            IF n = 0 THEN << >> ELSE Taken(found[n - 1], log[n], f)
    IN  found[Len(log)]

(* Store.ListControllers: the code ranges over a map, so with a limit the  *)
(* result may be any choice of that many; these are the possible ones.     *)
ListControllers(status, f) ==
    LET hits == {c \in DOMAIN status : \A x \in DOMAIN f.want : status[c] = f.want[x]}
        size == IF f.limit > 0 THEN Min({f.limit, Cardinality(hits)}) ELSE Cardinality(hits)
    IN  {result \in SUBSET hits : Cardinality(result) = size}

(* Service.ListEvents *)
ServiceListEvents(log, f) == ListEvents(log, [f EXCEPT !.limit = ClampLimit(@)])

(* GET /v1/events *)
GetEvents(log, q) ==
    IF q.since = BadSince THEN [status |-> 400, events |-> << >>]
    ELSE [status |-> 200, events |-> ServiceListEvents(log, [q EXCEPT !.limit = QueryInt(@)])]
=============================================================================

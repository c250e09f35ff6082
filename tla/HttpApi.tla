------------------------------- MODULE HttpApi -------------------------------
(***************************************************************************)
(* The HTTP transport (transport/httpapi): routes, error mapping and the   *)
(* Idempotency-Key middleware, in front of the service.  net/http runs one *)
(* goroutine per request.  The middleware looks its key up under a read    *)
(* lock, may delete an expired entry under a second lock, runs the handler *)
(* under none, and stores the response under a third; requests interleave  *)
(* at each of these points and inside the service call.                    *)
(*                                                                         *)
(* A request is a record with op (the route), target (the path's           *)
(* identifier; for a registration the identifier its body carries), body   *)
(* and key.  Only the body is hashed, so two requests collide exactly when *)
(* their bodies are equal.  Responses are small, and net/http hands a      *)
(* small response to the client when the handler returns.                  *)
(***************************************************************************)
EXTENDS ApiService

CONSTANTS
    Keys,           \* values of the Idempotency-Key header
    NoKey,          \* the header is missing or empty
    Malformed,      \* a body that is not valid JSON for its route
    NoEntry,        \* what the middleware's map holds for an absent key
    NoResponse,     \* what a client has before its request is answered
    MaxExpiries     \* bound: how often the entry of a key may expire

ASSUME NoKeyAssumption == NoKey \notin Keys
ASSUME HttpBoundsAssumption == MaxExpiries \in Nat

VARIABLES
    sent,       \* what each request asks for
    at,         \* where the goroutine of each request is
    entries,    \* idempotencyStore.entries
    response,   \* what each request's handler wrote or was made to replay
    window,     \* ghost: how often each key's entry has expired
    seenIn,     \* ghost: the window in which a request's key was looked up
    ran,        \* ghost: the requests whose handler ran
    rushed      \* ghost: the keys sent again before the answer to them came

http == <<sent, at, entries, response, window, seenIn, ran, rushed>>
hvars == <<vms, controllers, events, call, tangled,
           sent, at, entries, response, window, seenIn, ran, rushed>>

-----------------------------------------------------------------------------

(* The routes NewHandler wraps: not the heartbeat, nor the ones that only  *)
(* read.                                                                   *)
Wrapped == {"CreateVM", "StopVM", "DeleteVM", "RegisterController"}

(* The handlers that decode a body. *)
Decoding == {"CreateVM", "RegisterController", "Heartbeat"}

Response == [status : {200, 201, 202, 400, 404, 409},
             code : {"ok", "bad_request", "unreadable", "conflict",
                     "not_found", "already_exists"},
             id : VMIDs \cup ControllerIDs \cup {NoID}]

Entry == [body : Bodies \cup {Malformed}, response : Response, expired : BOOLEAN]

(* What the routes take: a body and a key may come with each. *)
Routed(ops, targets) == [op : ops, target : targets,
                         body : Bodies \cup {Malformed}, key : Keys \cup {NoKey}]

ASSUME OfferedAssumption ==
    Offered \subseteq Routed({"CreateVM"}, {NoID}) \cup Routed(VMOps, VMIDs)
                        \cup Routed(ControllerOps, ControllerIDs)
ASSUME NothingAssumption ==
    NoRequest \notin Offered /\ NoID \notin VMIDs \cup ControllerIDs /\ NoEntry \notin Entry

(* newID's identifiers are random: no controller goes by one of a VM. *)
ASSUME UnguessedAssumption == FreshIDs \cap ControllerIDs = {}

(* errorToStatus *)
ErrorStatus(err) == CASE err = "not_found" -> 404
                      [] err \in {"already_exists", "conflict"} -> 409
                      [] OTHER -> 500

SuccessStatus(op) == CASE op \in {"CreateVM", "StopVM", "DeleteVM"} -> 202
                       [] op = "RegisterController" -> 201
                       [] op \in {"GetVM", "Heartbeat"} -> 200

Failure(status, code) == [status |-> status, code |-> code, id |-> NoID]

(* What the handler writes when the service call of request r returned. *)
Outcome(r) ==
    IF call[r].err # "none" THEN Failure(ErrorStatus(call[r].err), call[r].err)
    ELSE [status |-> SuccessStatus(sent[r].op), code |-> "ok",
          id |-> IF sent[r].op = "CreateVM" THEN call[r].id ELSE sent[r].target]

(* wrap has something to do for request r. *)
Keyed(r) == sent[r] # NoRequest /\ sent[r].op \in Wrapped /\ sent[r].key # NoKey

-----------------------------------------------------------------------------

Init == /\ SInit
        /\ sent = [r \in Requests |-> NoRequest]
        /\ at = [r \in Requests |-> "unsent"]
        /\ entries = [k \in Keys |-> NoEntry]
        /\ response = [r \in Requests |-> NoResponse]
        /\ window = [k \in Keys |-> 0]
        /\ seenIn = [r \in Requests |-> 0]
        /\ ran = {}
        /\ rushed = {}

(* What clients have seen: identifiers in answers and in GET /v1/events.   *)
(* Identifiers newID cannot return are free to try.                        *)
Seen == {response[r].id : r \in {q \in Requests : at[q] = "answered"}}
        \cup {events[i].vm : i \in DOMAIN events}
        \cup (VMIDs \ FreshIDs)

InFlight(q) == at[q] \notin {"unsent", "answered"}

(* Bound: no more VMs are asked for than there are fresh identifiers. *)
CreatesSent == {q \in Requests : (InFlight(q) \/ q \in ran) /\ sent[q].op = "CreateVM"}

(* A client sends a request, to be served by goroutine r. *)
Send(r) ==
    /\ at[r] = "unsent"
    /\ \E x \in Offered :
        /\ x.op \in VMOps => x.target \in Seen
        /\ x.op = "CreateVM" => Cardinality(CreatesSent) < Cardinality(FreshIDs)
        /\ rushed' = IF \E q \in Requests : InFlight(q) /\ sent[q].key = x.key
                      THEN rushed \cup ({x.key} \ {NoKey}) ELSE rushed
        /\ sent' = [sent EXCEPT ![r] = x]
    /\ at' = [at EXCEPT ![r] = "received"]
    /\ UNCHANGED <<vms, controllers, events, call, tangled,
                   entries, response, window, seenIn, ran>>

(* The response of r is written; it is kept for the middleware if that is  *)
(* waiting for it and goes straight to the client otherwise.               *)
Write(r, x) == /\ response' = [response EXCEPT ![r] = x]
               /\ at' = [at EXCEPT ![r] = IF Keyed(r) THEN "written" ELSE "answered"]

(* The middleware answers r by itself. *)
Answer(r, x) == /\ response' = [response EXCEPT ![r] = x]
                /\ at' = [at EXCEPT ![r] = "answered"]
                /\ UNCHANGED <<vms, controllers, events, call, tangled,
                               sent, entries, window, ran, rushed>>

(* The handler of r begins: it decodes the body, and either rejects it or  *)
(* calls the service.                                                      *)
Serve(r) ==
    /\ ran' = ran \cup {r}
    /\ \/ /\ sent[r].op \in Decoding /\ sent[r].body = Malformed
          /\ Write(r, Failure(400, "bad_request"))
          /\ UNCHANGED call
       \/ /\ ~ (sent[r].op \in Decoding /\ sent[r].body = Malformed)
          /\ call' = Invoke(r, sent[r])
          /\ at' = [at EXCEPT ![r] = "serving"]
          /\ UNCHANGED response
    /\ UNCHANGED <<vms, controllers, events, tangled, sent, window, rushed>>

(* A route that is not wrapped, or no key. *)
PassThrough(r) == /\ at[r] = "received"
                  /\ ~ Keyed(r)
                  /\ Serve(r)
                  /\ UNCHANGED <<entries, seenIn>>

(* The body of a keyed request cannot be read to its end. *)
BodyUnreadable(r) == /\ at[r] = "received"
                     /\ Keyed(r)
                     /\ Answer(r, Failure(400, "unreadable"))
                     /\ UNCHANGED seenIn

AlwaysExpired(k) == TRUE

(* time.Since(entry.createdAt) > idempotencyTTL *)
Expired(k) == entries[k].expired

AnyHash(r) == TRUE
NoHash(r) == FALSE

(* The stored request hash is that of the body of r. *)
HashMatches(r) == entries[sent[r].key].body = sent[r].body

(* The look-up of r's key, under the read lock, and what is decided on the *)
(* entry found.  The entry is a copy: once the lock is released others may *)
(* replace or delete it.  The clock is read after the lock is released; no *)
(* entry is replaced within its 24 hours by a request that began after it, *)
(* so a look-up at the moment the clock is read decides the same.          *)
LookUp(r) == /\ at[r] = "received"
             /\ Keyed(r)
             /\ seenIn' = [seenIn EXCEPT ![r] = window[sent[r].key]]

LookUpMiss(r) == /\ LookUp(r)
                 /\ entries[sent[r].key] = NoEntry
                 /\ Serve(r)
                 /\ UNCHANGED entries

LookUpExpired(r) == /\ LookUp(r)
                    /\ entries[sent[r].key] # NoEntry /\ Expired(sent[r].key)
                    /\ at' = [at EXCEPT ![r] = "evicting"]
                    /\ UNCHANGED <<vms, controllers, events, call, tangled,
                                   sent, entries, response, window, ran, rushed>>

LookUpReused(r) == /\ LookUp(r)
                   /\ entries[sent[r].key] # NoEntry /\ ~ Expired(sent[r].key)
                   /\ ~ HashMatches(r)
                   /\ Answer(r, Failure(409, "conflict"))

LookUpReplay(r) == /\ LookUp(r)
                   /\ entries[sent[r].key] # NoEntry /\ ~ Expired(sent[r].key)
                   /\ HashMatches(r)
                   /\ Answer(r, entries[sent[r].key].response)

(* The entry of the key is deleted under the write lock, whatever entry it *)
(* is by now, and the handler begins.                                      *)
Evict(r) == /\ at[r] = "evicting"
            /\ entries' = [entries EXCEPT ![sent[r].key] = NoEntry]
            /\ Serve(r)
            /\ UNCHANGED seenIn

(* The service call of r returned and its handler writes the outcome. *)
Finish(r) == /\ at[r] = "serving"
             /\ call[r].pc = "returned"
             /\ Write(r, Outcome(r))
             /\ UNCHANGED <<vms, controllers, events, call, tangled,
                            sent, entries, window, seenIn, ran, rushed>>

StoreNothing(r) == /\ at[r] = "written"
                   /\ at' = [at EXCEPT ![r] = "answered"]
                   /\ UNCHANGED <<vms, controllers, events, call, tangled,
                                  sent, entries, response, window, seenIn, ran, rushed>>

(* The middleware stores what the handler wrote, whatever its status, and  *)
(* the response goes out.                                                  *)
StoreEntry(r) == /\ at[r] = "written"
                 /\ at' = [at EXCEPT ![r] = "answered"]
                 /\ entries' = [entries EXCEPT ![sent[r].key] =
                        [body |-> sent[r].body, response |-> response[r], expired |-> FALSE]]
                 /\ UNCHANGED <<vms, controllers, events, call, tangled,
                                sent, response, window, seenIn, ran, rushed>>

(* A step of the service on behalf of r. *)
InService(r) == at[r] = "serving" /\ ServiceStep(r) /\ UNCHANGED http

(* 24 hours have passed since the entry of key k was stored.  No request   *)
(* takes that long, so none that looked k up before the entry was stored   *)
(* is still under way.  The code treats keys separately, and the ages of   *)
(* two keys are not related here.                                          *)
Expire(k) == /\ entries[k] # NoEntry /\ ~ entries[k].expired
             /\ \A r \in Requests : Keyed(r) /\ sent[r].key = k =>
                    at[r] \in {"received", "answered"}
             /\ window[k] < MaxExpiries
             /\ entries' = [entries EXCEPT ![k] = [@ EXCEPT !.expired = TRUE]]
             /\ window' = [window EXCEPT ![k] = @ + 1]
             /\ UNCHANGED <<vms, controllers, events, call, tangled,
                            sent, at, response, seenIn, ran, rushed>>

(* Everything sent has been answered: the server waits for more. *)
Done == /\ \A r \in Requests : at[r] = "answered"
        /\ UNCHANGED hvars

(* Whatever goroutine r does next. *)
Step(r) == \/ PassThrough(r) \/ BodyUnreadable(r)
           \/ LookUpMiss(r) \/ LookUpExpired(r) \/ LookUpReused(r) \/ LookUpReplay(r)
           \/ Evict(r) \/ InService(r) \/ Finish(r) \/ StoreEntry(r)

Next == \/ \E r \in Requests : Send(r) \/ Step(r)
        \/ \E k \in Keys : Expire(k)
        \/ Done

Spec == Init /\ [][Next]_hvars

-----------------------------------------------------------------------------

TypeOK == /\ STypeOK
          /\ sent \in [Requests -> Offered \cup {NoRequest}]
          /\ at \in [Requests -> {"unsent", "received", "evicting", "serving",
                                  "written", "answered"}]
          /\ entries \in [Keys -> Entry \cup {NoEntry}]
          /\ response \in [Requests -> Response \cup {NoResponse}]
          /\ window \in [Keys -> 0 .. MaxExpiries]
          /\ seenIn \in [Requests -> 0 .. MaxExpiries]
          /\ ran \in SUBSET Requests
          /\ rushed \in SUBSET Keys

SameKey(q, r) == Keyed(q) /\ Keyed(r) /\ sent[q].key = sent[r].key

(* One request per key runs until the key's entry expires. *)
OncePerWindow(k) ==
    \A q, r \in ran : q # r /\ SameKey(q, r) /\ sent[r].key = k => seenIn[q] # seenIn[r]

(* "This prevents duplicate VMs from retried requests": of all requests    *)
(* with one key, the handler runs for one only until the entry expires.    *)
AtMostOncePerWindow == \A k \in Keys : OncePerWindow(k)

(* That holds of the keys whose clients wait for an answer before they     *)
(* send the key again, whatever requests with other keys do meanwhile and  *)
(* however often the entry expires.                                        *)
PatientRunsOnce == \A k \in Keys \ rushed : OncePerWindow(k)

(* "The same key with the same body MUST return the original response":    *)
(* answers to one key and body are equal until the entry expires, errors   *)
(* included, to clients that wait for them.                                *)
SameAnswer ==
    \A q, r \in Requests :
        /\ at[q] = "answered" /\ at[r] = "answered"
        /\ SameKey(q, r) /\ sent[q].body = sent[r].body /\ seenIn[q] = seenIn[r]
        /\ sent[r].key \notin rushed
        /\ "unreadable" \notin {response[q].code, response[r].code}
        => response[q] = response[r]

(* The entry of key k is younger than 24 hours and stays. *)
Fresh(k) == entries[k] # NoEntry /\ ~ entries[k].expired

(* "Entries are evicted after 24 hours": no step removes a younger one. *)
FreshEntryKept == [][ \A k \in Keys : Fresh(k) => entries'[k] # NoEntry ]_hvars

(* That holds of keys whose clients wait; and but for its growing old no   *)
(* step changes the entry such a client would be answered from.            *)
PatientEntryKept ==
    [][ \A k \in Keys \ rushed : Fresh(k) =>
            entries'[k] \in {entries[k], [entries[k] EXCEPT !.expired = TRUE]} ]_hvars

(* A client is told that its key was reused only if it was: another        *)
(* request ran under this key with a different body.                       *)
ConflictOnlyOnReuse ==
    \A r \in Requests : at[r] = "answered" /\ response[r].code = "conflict" =>
        \E q \in ran : SameKey(q, r) /\ sent[q].body # sent[r].body

(* A replayed answer is what the handler of a request with the same key    *)
(* and the same body wrote, however many of them ran and in whatever order *)
(* they stored their entries, evicted or expired.                          *)
ReplayHasOrigin ==
    \A r \in Requests :
        /\ at[r] = "answered" /\ Keyed(r) /\ r \notin ran
        /\ response[r].code \notin {"conflict", "unreadable"}
        => \E q \in ran : /\ SameKey(q, r) /\ sent[q].body = sent[r].body
                          /\ response[q] = response[r]

(* The key of r, if there is one, came with this body on one route and for *)
(* one target only.                                                        *)
OnePurpose(r) ==
    \A q \in Requests : SameKey(q, r) /\ sent[q].body = sent[r].body
        => sent[q].op = sent[r].op /\ sent[q].target = sent[r].target

(* A client that was given a VM's identifier has the VM it asked for.  The *)
(* route is not part of an entry, so a key that was used with the same     *)
(* body on another route gives that route's answer; this is for clients    *)
(* that keep a key to one purpose.                                         *)
AcceptedCreateExists ==
    \A r \in Requests :
        /\ at[r] = "answered" /\ OnePurpose(r)
        /\ sent[r].op = "CreateVM" /\ response[r].status = 202
        => /\ HasVM(response[r].id)
           /\ vms[response[r].id].spec = sent[r].body

(* "the desired state is recorded": a stop, delete or creation that was    *)
(* accepted, be it by a replayed answer, is in the event log, again for a  *)
(* key kept to one purpose.                                                *)
AcceptedIsRecorded ==
    \A r \in Requests :
        at[r] = "answered" /\ response[r].status = 202 /\ OnePurpose(r) =>
            \E i \in DOMAIN events :
                /\ events[i].type = LoggedAs[sent[r].op]
                /\ events[i].vm = IF sent[r].op = "CreateVM" THEN response[r].id
                                  ELSE sent[r].target

(* A VM a client has seen is never answered with 404, whatever was done to *)
(* it meanwhile: identifiers go out only when the VM is there, and deleting*)
(* one only records the wish.  Again it takes a key kept to one purpose.   *)
SeenIsFound ==
    \A r \in Requests :
        /\ at[r] = "answered" /\ OnePurpose(r)
        /\ sent[r].op \in VMOps /\ sent[r].target \in FreshIDs
        => response[r].status # 404

(* What clients can tell of this state: who waits, who was executed under a *)
(* key, who was answered what, and what the entries have to say.           *)
Waiting == {r \in Requests : InFlight(r)}
Begun == {r \in ran : Keyed(r)}
Got == [r \in Requests |-> IF at[r] = "answered" THEN response[r] ELSE NoResponse]
Kept == [k \in Keys |-> IF Fresh(k) THEN {[body |-> entries[k].body,
                                           response |-> entries[k].response]} ELSE {}]

IA == INSTANCE IdempotentApi WITH
        pending <- Waiting, begun <- Begun, answer <- Got, kept <- Kept,
        Answers <- Response, NoAnswer <- NoResponse,
        Unreadable <- Failure(400, "unreadable"), Conflict <- Failure(409, "conflict")

(* The middleware, with its look-up, its eviction and its store in three   *)
(* critical sections and the handler in none, keeps the promise of the     *)
(* Idempotency-Key header: each step is one of a key that keeps one answer *)
(* at a time, or changes nothing a client could tell.                      *)
ImplementsIdempotentApi == IA!Spec
=============================================================================

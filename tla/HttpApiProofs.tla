---------------------------- MODULE HttpApiProofs ----------------------------
(***************************************************************************)
(* Proofs about the HTTP transport and its idempotency middleware, for any *)
(* number of requests, keys, bodies, VMs and expiries: typing, how the     *)
(* middleware, the handler and the service call of a request hang          *)
(* together, and what the Idempotency-Key promises.                        *)
(***************************************************************************)
EXTENDS HttpApi, SequenceTheorems, TLAPS

-----------------------------------------------------------------------------

(* What may be asked for. *)
LEMMA Offers ==
    \A x \in Offered :
        /\ x # NoRequest
        /\ x.op \in Ops
        /\ x.body \in Bodies \cup {Malformed}
        /\ x.key \in Keys \cup {NoKey}
        /\ x.op \in VMOps => x.target \in VMIDs
        /\ x.op \in ControllerOps => x.target \in ControllerIDs
        /\ x.op = "CreateVM" => x.target = NoID
  BY OfferedAssumption, NothingAssumption DEF Routed, Ops, VMOps, ControllerOps

(* What the service's errors and successes become. *)
LEMMA Answers ==
    /\ Failure(400, "bad_request") \in Response
    /\ Failure(400, "unreadable") \in Response
    /\ Failure(409, "conflict") \in Response
    /\ \A err \in Errors \ {"none"} : Failure(ErrorStatus(err), err) \in Response
    /\ \A op \in Ops, id \in VMIDs \cup ControllerIDs \cup {NoID} :
        [status |-> SuccessStatus(op), code |-> "ok", id |-> id] \in Response
<1>1. \A op \in Ops : SuccessStatus(op) \in {200, 201, 202}
  BY DEF Ops, VMOps, ControllerOps, SuccessStatus
<1>2. \A err \in Errors \ {"none"} : ErrorStatus(err) \in {404, 409} /\ err \in {"not_found", "already_exists"}
  BY DEF Errors, ErrorStatus
<1> QED
  BY <1>1, <1>2 DEF Failure, Response

-----------------------------------------------------------------------------

(***************************************************************************)
(* How far a request has come: where its goroutine is in the middleware,   *)
(* how far its service call is, and what has been written for it agree.    *)
(***************************************************************************)

(* The operation of request r writes a VM and logs an event. *)
Writing == {"CreateVM", "StopVM", "DeleteVM"}

(* The handler of r rejects the body. *)
Rejected(r) == sent[r].op \in Decoding /\ sent[r].body = Malformed

(* Where the goroutine of r is, and whether its handler ran. *)
PlaceRight(r) ==
    /\ at[r] = "unsent" <=> sent[r] = NoRequest
    /\ at[r] \in {"serving", "written"} => r \in ran
    /\ r \in ran => at[r] \in {"serving", "written", "answered"}
    /\ at[r] \in {"evicting", "written"} => Keyed(r)
    /\ at[r] = "answered" /\ r \notin ran => Keyed(r)
    /\ at[r] = "serving" => call[r].pc # "idle"
    /\ call[r].pc # "idle" => r \in ran
    /\ at[r] \in {"written", "answered"} => call[r].pc \in {"idle", "returned"}

(* What the service call of r is about. *)
CallRight(r) ==
    call[r].pc # "idle" =>
        /\ call[r].req = sent[r]
        /\ ~ Rejected(r)
        /\ call[r].pc \in {"store", "emit"} => call[r].err = "none"
        /\ call[r].pc = "emit" => sent[r].op \in Writing
        /\ sent[r].op \in VMOps => call[r].id = sent[r].target
        /\ sent[r].op = "CreateVM" /\ call[r].pc \in {"emit", "returned"} => call[r].id \in FreshIDs
        /\ sent[r].op = "CreateVM" => call[r].err = "none"

(* What the handler of r has written. *)
ResponseRight(r) ==
    r \in ran /\ at[r] \in {"written", "answered"} =>
        response[r] = IF call[r].pc = "idle" THEN Failure(400, "bad_request") ELSE Outcome(r)

RequestRight(r) == PlaceRight(r) /\ CallRight(r) /\ ResponseRight(r)

Wired == \A r \in Requests : RequestRight(r)

HttpInv == TypeOK /\ Wired

(* A step on behalf of r leaves every other request where it is. *)
OthersStay(r) ==
    \A q \in Requests \ {r} :
        /\ sent'[q] = sent[q] /\ at'[q] = at[q] /\ response'[q] = response[q]
        /\ seenIn'[q] = seenIn[q] /\ call'[q] = call[q]
        /\ q \in ran' <=> q \in ran

(* So all that is to be shown of it is that r is right afterwards. *)
LEMMA WiredElsewhere ==
    ASSUME NEW r \in Requests, Wired, OthersStay(r), RequestRight(r)'
    PROVE  Wired'
<1> SUFFICES ASSUME NEW q \in Requests \ {r} PROVE RequestRight(q)'
  BY DEF Wired
<1>1. /\ sent'[q] = sent[q] /\ at'[q] = at[q] /\ response'[q] = response[q]
      /\ call'[q] = call[q]
      /\ q \in ran' <=> q \in ran
  BY DEF OthersStay
<1>2. PlaceRight(q) /\ CallRight(q) /\ ResponseRight(q)
  BY DEF Wired, RequestRight
<1>3. PlaceRight(q)'
  BY <1>1, <1>2 DEF PlaceRight, Keyed
<1>4. CallRight(q)'
  BY <1>1, <1>2 DEF CallRight, Rejected
<1>5. ResponseRight(q)'
  BY <1>1, <1>2 DEF ResponseRight, Outcome
<1> QED
  BY <1>3, <1>4, <1>5 DEF RequestRight

(* What is sent and served, in a well-typed state. *)
LEMMA SentTypes ==
    ASSUME HttpInv, NEW r \in Requests, at[r] # "unsent"
    PROVE  /\ sent[r] \in Offered
           /\ sent[r].op \in Ops
           /\ sent[r].body \in Bodies \cup {Malformed}
           /\ sent[r].key \in Keys \cup {NoKey}
           /\ sent[r].op \in VMOps => sent[r].target \in VMIDs
           /\ sent[r].op \in ControllerOps => sent[r].target \in ControllerIDs
           /\ sent[r].op = "CreateVM" => sent[r].target = NoID
           /\ Keyed(r) => sent[r].key \in Keys
<1>1. sent[r] \in Offered
  BY DEF HttpInv, TypeOK, Wired, RequestRight, PlaceRight
<1> QED
  BY <1>1, Offers DEF Keyed

(* What the handler writes is a response. *)
LEMMA OutcomeType ==
    ASSUME HttpInv, NEW r \in Requests, call[r].pc # "idle"
    PROVE  Outcome(r) \in Response
<1>1. at[r] # "unsent" /\ call[r] \in Call
  BY DEF HttpInv, TypeOK, STypeOK, Wired, RequestRight, PlaceRight
<1>2. call[r].err \in Errors /\ call[r].id \in VMIDs \cup {NoID}
  BY <1>1 DEF Call
<1>3. sent[r].op \in Ops /\ sent[r].target \in VMIDs \cup ControllerIDs \cup {NoID}
  BY <1>1, SentTypes DEF Ops
<1>4. CASE call[r].err # "none"
  BY <1>2, <1>4, Answers DEF Outcome
<1>5. CASE call[r].err = "none"
  BY <1>2, <1>3, <1>5, Answers DEF Outcome
<1> QED
  BY <1>4, <1>5

-----------------------------------------------------------------------------

(***************************************************************************)
(* HttpInv is inductive.                                                   *)
(***************************************************************************)

(* A request has arrived. *)
LEMMA SendWired ==
    ASSUME HttpInv, NEW r \in Requests, Send(r)
    PROVE  HttpInv' /\ OthersStay(r)
<1> USE DEF HttpInv
<1>1. PICK x \in Offered :
        /\ rushed' = IF \E q \in Requests : InFlight(q) /\ sent[q].key = x.key
                      THEN rushed \cup ({x.key} \ {NoKey}) ELSE rushed
        /\ sent' = [sent EXCEPT ![r] = x]
  BY DEF Send
<1>2. /\ at[r] = "unsent"
      /\ at' = [at EXCEPT ![r] = "received"]
      /\ UNCHANGED <<vms, controllers, events, call, tangled, entries, response, window, seenIn, ran>>
  BY DEF Send
<1>3. rushed' \in SUBSET Keys
  <2>1. x.key \in Keys \cup {NoKey} /\ rushed \in SUBSET Keys
    BY Offers DEF TypeOK
  <2> QED
    BY <1>1, <2>1
<1>4. TypeOK'
  BY <1>1, <1>2, <1>3 DEF TypeOK, STypeOK, StoreTypeOK
<1>5. OthersStay(r)
  BY <1>1, <1>2 DEF OthersStay, TypeOK
<1>6. /\ at'[r] = "received" /\ sent'[r] = x /\ x # NoRequest
  BY <1>1, <1>2, Offers DEF TypeOK
<1>7. r \notin ran /\ call[r].pc = "idle"
  BY <1>2 DEF Wired, RequestRight, PlaceRight
<1>8. RequestRight(r)'
  BY <1>2, <1>6, <1>7 DEF RequestRight, PlaceRight, CallRight, ResponseRight
<1> QED
  BY <1>4, <1>5, <1>8, WiredElsewhere

(* A handler begins. *)
LEMMA ServeWired ==
    ASSUME HttpInv, NEW r \in Requests, at[r] \in {"received", "evicting"}, Serve(r),
           entries' \in [Keys -> Entry \cup {NoEntry}],
           seenIn' \in [Requests -> 0 .. MaxExpiries],
           \A q \in Requests \ {r} : seenIn'[q] = seenIn[q]
    PROVE  HttpInv' /\ OthersStay(r)
<1> USE DEF HttpInv
<1>1. /\ ran' = ran \cup {r}
      /\ UNCHANGED <<vms, controllers, events, tangled, sent, window, rushed>>
  BY DEF Serve
<1>2. r \notin ran /\ call[r].pc = "idle" /\ sent[r] # NoRequest
  BY DEF Wired, RequestRight, PlaceRight
<1>3. CASE /\ Rejected(r)
           /\ Write(r, Failure(400, "bad_request"))
           /\ UNCHANGED call
  <2>1. /\ response' = [response EXCEPT ![r] = Failure(400, "bad_request")]
        /\ at' = [at EXCEPT ![r] = IF Keyed(r) THEN "written" ELSE "answered"]
    BY <1>3 DEF Write
  <2>2. Failure(400, "bad_request") \in Response
    BY Answers
  <2>3. TypeOK'
    BY <1>1, <1>3, <2>1, <2>2 DEF TypeOK, STypeOK, StoreTypeOK
  <2>4. OthersStay(r)
    BY <1>1, <1>3, <2>1 DEF OthersStay, TypeOK
  <2>5. /\ response'[r] = Failure(400, "bad_request")
        /\ at'[r] = IF Keyed(r) THEN "written" ELSE "answered"
        /\ Keyed(r)' <=> Keyed(r)
    BY <1>1, <2>1 DEF TypeOK, Keyed
  <2>6. RequestRight(r)'
    BY <1>1, <1>2, <1>3, <2>5 DEF RequestRight, PlaceRight, CallRight, ResponseRight
  <2> QED
    BY <2>3, <2>4, <2>6, WiredElsewhere
<1>4. CASE /\ ~ Rejected(r)
           /\ call' = Invoke(r, sent[r])
           /\ at' = [at EXCEPT ![r] = "serving"]
           /\ UNCHANGED response
  <2> DEFINE y == [pc |-> "store", req |-> sent[r],
                   id |-> IF sent[r].op \in VMOps THEN sent[r].target ELSE NoID, err |-> "none"]
  <2>1. sent[r] \in Offered /\ (sent[r].op \in VMOps => sent[r].target \in VMIDs)
    BY SentTypes
  <2>2. /\ y \in Call
        /\ y.pc = "store" /\ y.req = sent[r] /\ y.err = "none"
        /\ sent[r].op \in VMOps => y.id = sent[r].target
    BY <2>1 DEF Call, Errors
  <2>3. call' = [call EXCEPT ![r] = y]
    BY <1>4 DEF Invoke
  <2> HIDE DEF y
  <2>4. TypeOK'
    BY <1>1, <1>4, <2>2, <2>3 DEF TypeOK, STypeOK, StoreTypeOK
  <2>5. OthersStay(r)
    BY <1>1, <1>4, <2>3 DEF OthersStay, TypeOK, STypeOK
  <2>6. at'[r] = "serving" /\ call'[r] = y /\ sent'[r] = sent[r] /\ r \in ran'
    BY <1>1, <1>4, <2>3 DEF TypeOK, STypeOK
  <2>7. RequestRight(r)'
    BY <1>2, <1>4, <2>2, <2>6 DEF RequestRight, PlaceRight, CallRight, ResponseRight, Rejected
  <2> QED
    BY <2>4, <2>5, <2>7, WiredElsewhere
<1> QED
  BY <1>3, <1>4 DEF Serve, Rejected

(* The middleware answers. *)
LEMMA AnswerWired ==
    ASSUME HttpInv, NEW r \in Requests, at[r] = "received", Keyed(r),
           NEW x \in Response, Answer(r, x),
           seenIn' \in [Requests -> 0 .. MaxExpiries],
           \A q \in Requests \ {r} : seenIn'[q] = seenIn[q]
    PROVE  HttpInv' /\ OthersStay(r)
<1> USE DEF HttpInv
<1>1. /\ response' = [response EXCEPT ![r] = x]
      /\ at' = [at EXCEPT ![r] = "answered"]
      /\ UNCHANGED <<vms, controllers, events, call, tangled, sent, entries, window, ran, rushed>>
  BY DEF Answer
<1>2. TypeOK'
  BY <1>1 DEF TypeOK, STypeOK, StoreTypeOK
<1>3. OthersStay(r)
  BY <1>1 DEF OthersStay, TypeOK
<1>4. at'[r] = "answered" /\ (Keyed(r)' <=> Keyed(r))
  BY <1>1 DEF TypeOK, Keyed
<1>5. r \notin ran /\ call[r].pc = "idle" /\ sent[r] # NoRequest
  BY DEF Wired, RequestRight, PlaceRight
<1>6. RequestRight(r)'
  BY <1>1, <1>4, <1>5 DEF RequestRight, PlaceRight, CallRight, ResponseRight
<1> QED
  BY <1>2, <1>3, <1>6, WiredElsewhere

(* The look-up notes the window. *)
LEMMA LookUpShape ==
    ASSUME HttpInv, NEW r \in Requests, LookUp(r)
    PROVE  /\ at[r] = "received" /\ Keyed(r) /\ sent[r].key \in Keys
           /\ seenIn' \in [Requests -> 0 .. MaxExpiries]
           /\ seenIn'[r] = window[sent[r].key]
           /\ \A q \in Requests \ {r} : seenIn'[q] = seenIn[q]
<1>1. at[r] = "received" /\ Keyed(r)
  BY DEF LookUp
<1>2. sent[r].key \in Keys
  BY <1>1, SentTypes
<1>3. window[sent[r].key] \in 0 .. MaxExpiries
  BY <1>2 DEF HttpInv, TypeOK
<1> QED
  BY <1>1, <1>2, <1>3 DEF LookUp, HttpInv, TypeOK

(* A step that leaves the service and its store alone, takes r to another  *)
(* place of the middleware, and may write the entries.                     *)
LEMMA MiddlewareWired ==
    ASSUME HttpInv, NEW r \in Requests,
           NEW place \in {"evicting", "written", "answered"}, at' = [at EXCEPT ![r] = place],
           entries' \in [Keys -> Entry \cup {NoEntry}],
           seenIn' \in [Requests -> 0 .. MaxExpiries],
           \A q \in Requests \ {r} : seenIn'[q] = seenIn[q],
           response' \in [Requests -> Response \cup {NoResponse}],
           \A q \in Requests \ {r} : response'[q] = response[q],
           RequestRight(r)',
           UNCHANGED <<vms, controllers, events, call, tangled, sent, window, ran, rushed>>
    PROVE  HttpInv' /\ OthersStay(r)
<1> USE DEF HttpInv
<1>1. TypeOK'
  BY DEF TypeOK, STypeOK, StoreTypeOK
<1>2. OthersStay(r)
  BY DEF OthersStay, TypeOK
<1> QED
  BY <1>1, <1>2, WiredElsewhere

(* The entry found has expired. *)
LEMMA ExpiredWired ==
    ASSUME HttpInv, NEW r \in Requests, LookUpExpired(r)
    PROVE  HttpInv' /\ OthersStay(r)
<1> USE DEF HttpInv
<1>1. /\ LookUp(r)
      /\ at' = [at EXCEPT ![r] = "evicting"]
      /\ UNCHANGED <<vms, controllers, events, call, tangled, sent, entries, response, window, ran, rushed>>
  BY DEF LookUpExpired
<1>2. /\ at[r] = "received" /\ Keyed(r)
      /\ seenIn' \in [Requests -> 0 .. MaxExpiries]
      /\ \A q \in Requests \ {r} : seenIn'[q] = seenIn[q]
  BY <1>1, LookUpShape
<1>3. at'[r] = "evicting" /\ (Keyed(r)' <=> Keyed(r))
  BY <1>1 DEF TypeOK, Keyed
<1>4. RequestRight(r)
  BY DEF Wired
<1>5. RequestRight(r)'
  BY <1>1, <1>2, <1>3, <1>4 DEF RequestRight, PlaceRight, CallRight, ResponseRight, Rejected
<1>6. response' \in [Requests -> Response \cup {NoResponse}] /\ entries' \in [Keys -> Entry \cup {NoEntry}]
  BY <1>1 DEF TypeOK
<1> QED
  BY <1>1, <1>2, <1>5, <1>6, MiddlewareWired

(* The handler writes the outcome of its service call. *)
LEMMA FinishWired ==
    ASSUME HttpInv, NEW r \in Requests, Finish(r)
    PROVE  HttpInv' /\ OthersStay(r)
<1> USE DEF HttpInv
<1> DEFINE place == IF Keyed(r) THEN "written" ELSE "answered"
<1>1. /\ at[r] = "serving" /\ call[r].pc = "returned"
      /\ response' = [response EXCEPT ![r] = Outcome(r)]
      /\ at' = [at EXCEPT ![r] = place]
      /\ UNCHANGED <<vms, controllers, events, call, tangled, sent, entries, window, seenIn, ran, rushed>>
  BY DEF Finish, Write
<1>2. Outcome(r) \in Response
  BY <1>1, OutcomeType
<1>3. /\ response'[r] = Outcome(r) /\ at'[r] = place
      /\ Keyed(r)' <=> Keyed(r)
      /\ Outcome(r)' = Outcome(r)
  BY <1>1 DEF TypeOK, Keyed, Outcome
<1>4. RequestRight(r)
  BY DEF Wired
<1>5. PlaceRight(r)' /\ CallRight(r)'
  BY <1>1, <1>3, <1>4 DEF RequestRight, PlaceRight, CallRight, Rejected
<1>6. ResponseRight(r)'
  BY <1>1, <1>3 DEF ResponseRight
<1>7. response' \in [Requests -> Response \cup {NoResponse}] /\ \A q \in Requests \ {r} : response'[q] = response[q]
  BY <1>1, <1>2 DEF TypeOK
<1> QED
  BY <1>1, <1>5, <1>6, <1>7, MiddlewareWired DEF RequestRight, TypeOK

(* What StoreEntry stores is an entry. *)
LEMMA StoredEntry ==
    ASSUME HttpInv, NEW r \in Requests, StoreEntry(r)
    PROVE  /\ Keyed(r) /\ sent[r].key \in Keys /\ r \in ran
           /\ [body |-> sent[r].body, response |-> response[r], expired |-> FALSE] \in Entry
           /\ entries' \in [Keys -> Entry \cup {NoEntry}]
           /\ entries'[sent[r].key] =
                [body |-> sent[r].body, response |-> response[r], expired |-> FALSE]
           /\ \A k \in Keys \ {sent[r].key} : entries'[k] = entries[k]
<1> USE DEF HttpInv
<1>1. at[r] = "written" /\ r \in ran /\ Keyed(r)
  BY DEF StoreEntry, Wired, RequestRight, PlaceRight
<1>2. sent[r].key \in Keys /\ sent[r].body \in Bodies \cup {Malformed}
  BY <1>1, SentTypes
<1>3. response[r] \in Response
  <2>1. CASE call[r].pc = "idle"
    BY <1>1, <2>1, Answers DEF Wired, RequestRight, ResponseRight
  <2>2. CASE call[r].pc # "idle"
    BY <1>1, <2>2, OutcomeType DEF Wired, RequestRight, ResponseRight
  <2> QED
    BY <2>1, <2>2
<1>4. [body |-> sent[r].body, response |-> response[r], expired |-> FALSE] \in Entry
  BY <1>2, <1>3 DEF Entry
<1> QED
  BY <1>1, <1>2, <1>4 DEF StoreEntry, TypeOK

(* The response is stored and goes out. *)
LEMMA StoreWired ==
    ASSUME HttpInv, NEW r \in Requests, StoreEntry(r)
    PROVE  HttpInv' /\ OthersStay(r)
<1> USE DEF HttpInv
<1>1. /\ at[r] = "written" /\ at' = [at EXCEPT ![r] = "answered"]
      /\ UNCHANGED <<vms, controllers, events, call, tangled, sent, response, window, seenIn, ran, rushed>>
  BY DEF StoreEntry
<1>2. at'[r] = "answered" /\ (Keyed(r)' <=> Keyed(r)) /\ Outcome(r)' = Outcome(r)
  BY <1>1 DEF TypeOK, Keyed, Outcome
<1>3. RequestRight(r)
  BY DEF Wired
<1>4. PlaceRight(r)' /\ CallRight(r)'
  BY <1>1, <1>2, <1>3 DEF RequestRight, PlaceRight, CallRight, Rejected
<1>5. ResponseRight(r)'
  BY <1>1, <1>2, <1>3 DEF RequestRight, ResponseRight
<1>6. entries' \in [Keys -> Entry \cup {NoEntry}]
  BY StoredEntry
<1> QED
  BY <1>1, <1>4, <1>5, <1>6, MiddlewareWired DEF RequestRight, TypeOK

(* Growing old is no change to a request. *)
LEMMA ExpireWired ==
    ASSUME HttpInv, NEW k \in Keys, Expire(k)
    PROVE  HttpInv'
<1> USE DEF HttpInv
<1>1. /\ entries[k] # NoEntry /\ window[k] < MaxExpiries
      /\ entries' = [entries EXCEPT ![k] = [entries[k] EXCEPT !.expired = TRUE]]
      /\ window' = [window EXCEPT ![k] = window[k] + 1]
      /\ UNCHANGED <<vms, controllers, events, call, tangled, sent, at, response, seenIn, ran, rushed>>
  BY DEF Expire
<1>2. [entries[k] EXCEPT !.expired = TRUE] \in Entry
  BY <1>1 DEF TypeOK, Entry
<1>3. window[k] + 1 \in 0 .. MaxExpiries
  BY <1>1, HttpBoundsAssumption DEF TypeOK
<1>4. TypeOK'
  BY <1>1, <1>2, <1>3 DEF TypeOK, STypeOK, StoreTypeOK
<1>5. Wired'
  BY <1>1 DEF Wired, RequestRight, PlaceRight, CallRight, ResponseRight, Keyed, Rejected, Outcome
<1> QED
  BY <1>4, <1>5

(* A step of the service call of r, after which it is y. *)
LEMMA CallWired ==
    ASSUME HttpInv, NEW r \in Requests, at[r] = "serving", UNCHANGED http,
           NEW y \in Call, call' = [call EXCEPT ![r] = y],
           y.req = call[r].req,
           y.pc \in {"emit", "returned"},
           y.pc = "emit" => y.err = "none" /\ sent[r].op \in Writing,
           sent[r].op \in VMOps => y.id = sent[r].target,
           sent[r].op = "CreateVM" => y.id \in FreshIDs /\ y.err = "none",
           StoreTypeOK', tangled' \in SUBSET VMIDs
    PROVE  HttpInv' /\ OthersStay(r)
<1> USE DEF HttpInv
<1>1. UNCHANGED <<sent, at, entries, response, window, seenIn, ran, rushed>>
  BY DEF http
<1>2. TypeOK'
  BY <1>1 DEF TypeOK, STypeOK
<1>3. OthersStay(r)
  BY <1>1 DEF OthersStay, TypeOK, STypeOK
<1>4. call'[r] = y
  BY DEF TypeOK, STypeOK
<1>5. RequestRight(r)
  BY DEF Wired
<1>6. RequestRight(r)'
  BY <1>1, <1>4, <1>5 DEF RequestRight, PlaceRight, CallRight, ResponseRight, Rejected, Keyed
<1> QED
  BY <1>2, <1>3, <1>6, WiredElsewhere

(* The service call of a request that is being served. *)
LEMMA Serving ==
    ASSUME HttpInv, NEW r \in Requests, at[r] = "serving"
    PROVE  /\ call[r] \in Call
           /\ call[r].req = sent[r] /\ sent[r] \in Offered
           /\ sent[r].op \in Ops
           /\ sent[r].op \in VMOps => call[r].id = sent[r].target /\ sent[r].target \in VMIDs
           /\ sent[r].op \in ControllerOps => sent[r].target \in ControllerIDs
           /\ sent[r].op \in Decoding => sent[r].body \in Bodies
           /\ call[r].pc = "emit" => sent[r].op \in Writing /\ call[r].id \in VMIDs
<1>1. RequestRight(r) /\ call[r] \in Call
  BY DEF HttpInv, Wired, TypeOK, STypeOK
<1>2. call[r].pc # "idle" /\ call[r].req = sent[r] /\ ~ Rejected(r)
  BY <1>1 DEF RequestRight, PlaceRight, CallRight
<1>3. call[r].pc = "emit" => sent[r].op \in Writing /\ call[r].id \in VMIDs
  BY <1>1, SentTypes, FreshAssumption DEF RequestRight, PlaceRight, CallRight, Writing, VMOps
<1> QED
  BY <1>1, <1>2, <1>3, SentTypes DEF Rejected, RequestRight, CallRight

(* What becomes of a call. *)
LEMMA CallShapes ==
    ASSUME NEW x \in Call
    PROVE  /\ \A err \in Errors :
                LET y == [x EXCEPT !.pc = "returned", !.err = err] IN
                y \in Call /\ y.pc = "returned" /\ y.err = err /\ y.req = x.req /\ y.id = x.id
           /\ LET y == [x EXCEPT !.pc = "emit"] IN
                y \in Call /\ y.pc = "emit" /\ y.err = x.err /\ y.req = x.req /\ y.id = x.id
  BY DEF Call

(* A service call that returns. *)
LEMMA ReturnWired ==
    ASSUME HttpInv, NEW r \in Requests, at[r] = "serving", UNCHANGED http,
           NEW err \in Errors, Return(r, err),
           sent[r].op = "CreateVM" => call[r].pc = "emit" /\ err = "none",
           StoreTypeOK', UNCHANGED tangled
    PROVE  HttpInv' /\ OthersStay(r)
<1> DEFINE y == [call[r] EXCEPT !.pc = "returned", !.err = err]
<1>1. /\ call[r] \in Call
      /\ sent[r].op \in VMOps => call[r].id = sent[r].target
  BY Serving
<1>2. y \in Call /\ y.pc = "returned" /\ y.err = err /\ y.req = call[r].req /\ y.id = call[r].id
  BY <1>1, CallShapes
<1>3. call' = [call EXCEPT ![r] = y]
  BY DEF Return
<1>4. sent[r].op = "CreateVM" => call[r].id \in FreshIDs
  BY DEF HttpInv, Wired, RequestRight, CallRight
<1>5. tangled' \in SUBSET VMIDs
  BY DEF HttpInv, TypeOK, STypeOK
<1> HIDE DEF y
<1> QED
  BY <1>1, <1>2, <1>3, <1>4, <1>5, CallWired

(* The store creates the VM. *)
LEMMA CreateWired ==
    ASSUME HttpInv, NEW r \in Requests, at[r] = "serving", CreateVMStore(r), UNCHANGED http
    PROVE  HttpInv' /\ OthersStay(r)
<1> USE DEF HttpInv
<1>1. PICK v \in FreshIDs :
        /\ vms' = [vms EXCEPT ![v] = NewVM(call[r].req.body)]
        /\ call' = [call EXCEPT ![r] = [call[r] EXCEPT !.pc = "emit", !.id = v]]
        /\ UNCHANGED <<controllers, events, tangled>>
  BY DEF CreateVMStore, CreateVM
<1> DEFINE y == [call[r] EXCEPT !.pc = "emit", !.id = v]
<1>2. call[r].pc = "store" /\ sent[r].op = "CreateVM" /\ sent[r].body \in Bodies /\ call[r].req = sent[r]
  BY Serving DEF CreateVMStore, Asks, Decoding
<1>3. call[r].err = "none" /\ call[r] \in Call /\ v \in VMIDs
  BY <1>2, Serving, FreshAssumption DEF Wired, RequestRight, CallRight
<1>4. y \in Call /\ y.pc = "emit" /\ y.err = "none" /\ y.req = call[r].req /\ y.id = v
  BY <1>3 DEF Call
<1>5. NewVM(call[r].req.body) \in VM
  BY <1>2 DEF NewVM, VM, DesiredStates, ObservedStates
<1>6. StoreTypeOK'
  BY <1>1, <1>5 DEF StoreTypeOK, TypeOK, STypeOK
<1>7. sent[r].op \notin VMOps /\ sent[r].op \in Writing
  BY <1>2 DEF VMOps, Writing
<1>8. call' = [call EXCEPT ![r] = y] /\ tangled' \in SUBSET VMIDs
  BY <1>1 DEF TypeOK, STypeOK
<1> HIDE DEF y
<1> QED
  BY <1>2, <1>4, <1>6, <1>7, <1>8, CallWired

(* The store records what is desired. *)
LEMMA DesiredWired ==
    ASSUME HttpInv, NEW r \in Requests, at[r] = "serving", SetDesired(r), UNCHANGED http
    PROVE  HttpInv' /\ OthersStay(r)
<1> USE DEF HttpInv
<1> DEFINE v == call[r].id
           d == DesiredBy(call[r].req.op)
           y == [call[r] EXCEPT !.pc = "emit"]
<1>1. /\ HasVM(v)
      /\ vms' = [vms EXCEPT ![v] = [vms[v] EXCEPT !.desired = d]]
      /\ call' = [call EXCEPT ![r] = y]
      /\ tangled' = IF EventPending(v) THEN tangled \cup {v} ELSE tangled
      /\ UNCHANGED <<controllers, events>>
  BY DEF SetDesired, UpdateVMDesiredState
<1>2. call[r].pc = "store" /\ sent[r].op \in {"StopVM", "DeleteVM"} /\ call[r].req = sent[r]
  BY Serving DEF SetDesired, Asks
<1>3. call[r].err = "none" /\ call[r] \in Call
  BY <1>2, Serving DEF Wired, RequestRight, CallRight
<1>4. y \in Call /\ y.pc = "emit" /\ y.err = "none" /\ y.req = call[r].req /\ y.id = v
  BY <1>3, CallShapes
<1>5. sent[r].op \in VMOps /\ sent[r].op \in Writing /\ sent[r].op # "CreateVM"
  BY <1>2 DEF VMOps, Writing
<1>6. v \in VMIDs /\ v = sent[r].target
  BY <1>5, Serving
<1>7. d \in DesiredStates
  BY DEF DesiredBy, DesiredStates
<1>8. vms[v] \in VM
  BY <1>1, <1>6 DEF HasVM, TypeOK, STypeOK, StoreTypeOK
<1> HIDE DEF d, y, v
<1>9. [vms[v] EXCEPT !.desired = d] \in VM
  BY <1>7, <1>8 DEF VM
<1>10. StoreTypeOK'
  BY <1>1, <1>6, <1>9 DEF StoreTypeOK, TypeOK, STypeOK
<1>11. tangled' \in SUBSET VMIDs
  BY <1>1, <1>6 DEF TypeOK, STypeOK
<1> QED
  BY <1>1, <1>2, <1>4, <1>5, <1>6, <1>10, <1>11, CallWired

(* The event is appended. *)
LEMMA EmitWired ==
    ASSUME HttpInv, NEW r \in Requests, at[r] = "serving", Emit(r), UNCHANGED http
    PROVE  HttpInv' /\ OthersStay(r)
<1>1. /\ call[r].pc = "emit"
      /\ events' = Append(events, [vm |-> call[r].id, type |-> EventType(call[r].req.op)])
      /\ Return(r, "none")
      /\ UNCHANGED <<vms, controllers, tangled>>
  BY DEF Emit, AppendEvent
<1>2. call[r].id \in VMIDs /\ call[r].req.op \in Writing
  BY <1>1, Serving
<1>3. [vm |-> call[r].id, type |-> EventType(call[r].req.op)] \in Event
  BY <1>2 DEF Event, EventType, EventTypes, Writing
<1>4. events' \in Seq(Event)
  BY <1>1, <1>3, AppendProperties DEF HttpInv, TypeOK, STypeOK, StoreTypeOK
<1>5. StoreTypeOK'
  BY <1>1, <1>4 DEF HttpInv, TypeOK, STypeOK, StoreTypeOK
<1>6. "none" \in Errors
  BY DEF Errors
<1> QED
  BY <1>1, <1>5, <1>6, ReturnWired

(* Registrations and heartbeats, and calls that write nothing. *)
LEMMA OtherCallsWired ==
    ASSUME HttpInv, NEW r \in Requests, at[r] = "serving", UNCHANGED http,
           NotFound(r) \/ GetVM(r) \/ Register(r) \/ AlreadyRegistered(r) \/ Heartbeat(r)
    PROVE  HttpInv' /\ OthersStay(r)
<1> USE DEF HttpInv
<1>1. /\ call[r].pc = "store" /\ call[r].req = sent[r]
      /\ sent[r].op \in VMOps \cup ControllerOps
  BY Serving DEF NotFound, GetVM, Register, AlreadyRegistered, Heartbeat, Asks, VMOps, ControllerOps
<1>2. sent[r].op # "CreateVM"
  BY <1>1 DEF VMOps, ControllerOps
<1>3. \E err \in Errors : Return(r, err)
  BY DEF NotFound, GetVM, Register, AlreadyRegistered, Heartbeat, Errors
<1>4. UNCHANGED <<vms, events, tangled>>
  BY DEF NotFound, GetVM, Register, AlreadyRegistered, Heartbeat, RegisterController,
         UpdateControllerHeartbeat
<1>5. controllers' \in [ControllerIDs -> Controller \cup {Absent}]
  <2>1. CASE NotFound(r) \/ GetVM(r) \/ AlreadyRegistered(r)
    BY <2>1 DEF NotFound, GetVM, AlreadyRegistered, TypeOK, STypeOK, StoreTypeOK
  <2>2. CASE Register(r)
    <3>1. /\ sent[r].body \in Bodies
          /\ controllers' = [controllers EXCEPT ![sent[r].target] =
                                [labels |-> sent[r].body, report |-> sent[r].body]]
      BY <1>1, <2>2, Serving DEF Register, RegisterController, Asks, Decoding
    <3>2. [labels |-> sent[r].body, report |-> sent[r].body] \in Controller
      BY <3>1 DEF Controller
    <3> QED
      BY <3>1, <3>2 DEF TypeOK, STypeOK, StoreTypeOK
  <2>3. CASE Heartbeat(r)
    <3> DEFINE c == sent[r].target
    <3>1. /\ c \in ControllerIDs /\ sent[r].body \in Bodies /\ HasController(c)
          /\ controllers' = [controllers EXCEPT ![c] = [controllers[c] EXCEPT !.report = sent[r].body]]
      BY <1>1, <2>3, Serving DEF Heartbeat, UpdateControllerHeartbeat, Asks, Decoding, ControllerOps
    <3>2. controllers[c] \in Controller
      BY <3>1 DEF HasController, TypeOK, STypeOK, StoreTypeOK
    <3> HIDE DEF c
    <3>3. [controllers[c] EXCEPT !.report = sent[r].body] \in Controller
      BY <3>1, <3>2 DEF Controller
    <3> QED
      BY <3>1, <3>3 DEF TypeOK, STypeOK, StoreTypeOK
  <2> QED
    BY <2>1, <2>2, <2>3
<1>6. StoreTypeOK'
  BY <1>4, <1>5 DEF TypeOK, STypeOK, StoreTypeOK
<1> QED
  BY <1>2, <1>3, <1>4, <1>6, ReturnWired

(* Any step of the service. *)
LEMMA ServiceWired ==
    ASSUME HttpInv, NEW r \in Requests, InService(r)
    PROVE  HttpInv' /\ OthersStay(r)
  BY CreateWired, DesiredWired, EmitWired, OtherCallsWired DEF InService, ServiceStep

(* What a step of goroutine r does to the middleware's bookkeeping. *)
LEMMA StepWired ==
    ASSUME HttpInv, NEW r \in Requests, Step(r)
    PROVE  HttpInv' /\ OthersStay(r)
<1> USE DEF HttpInv
<1>1. CASE PassThrough(r)
  BY <1>1, ServeWired DEF PassThrough, TypeOK
<1>2. CASE BodyUnreadable(r)
  BY <1>2, AnswerWired, Answers DEF BodyUnreadable, TypeOK
<1>3. CASE LookUpMiss(r)
  <2>1. LookUp(r) /\ Serve(r) /\ entries' = entries
    BY <1>3 DEF LookUpMiss
  <2>2. /\ at[r] = "received"
        /\ seenIn' \in [Requests -> 0 .. MaxExpiries]
        /\ \A q \in Requests \ {r} : seenIn'[q] = seenIn[q]
    BY <2>1, LookUpShape
  <2> QED
    BY <2>1, <2>2, ServeWired DEF TypeOK
<1>4. CASE LookUpExpired(r)
  BY <1>4, ExpiredWired
<1>5. CASE LookUpReused(r) \/ LookUpReplay(r)
  <2>1. LookUp(r) /\ entries[sent[r].key] # NoEntry
    BY <1>5 DEF LookUpReused, LookUpReplay
  <2>2. /\ at[r] = "received" /\ Keyed(r) /\ sent[r].key \in Keys
        /\ seenIn' \in [Requests -> 0 .. MaxExpiries]
        /\ \A q \in Requests \ {r} : seenIn'[q] = seenIn[q]
    BY <2>1, LookUpShape
  <2>3. entries[sent[r].key].response \in Response
    BY <2>1, <2>2 DEF TypeOK, Entry
  <2>4. \E x \in Response : Answer(r, x)
    BY <1>5, <2>3, Answers DEF LookUpReused, LookUpReplay
  <2> QED
    BY <2>2, <2>4, AnswerWired
<1>6. CASE Evict(r)
  <2>1. /\ at[r] = "evicting" /\ Serve(r) /\ seenIn' = seenIn
        /\ entries' = [entries EXCEPT ![sent[r].key] = NoEntry]
    BY <1>6 DEF Evict
  <2> QED
    BY <2>1, ServeWired DEF TypeOK
<1>7. CASE InService(r)
  BY <1>7, ServiceWired
<1>8. CASE Finish(r)
  BY <1>8, FinishWired
<1>9. CASE StoreEntry(r)
  BY <1>9, StoreWired
<1> QED
  BY <1>1, <1>2, <1>3, <1>4, <1>5, <1>6, <1>7, <1>8, <1>9 DEF Step

(* A step that changes nothing. *)
LEMMA StutterWired ==
    ASSUME HttpInv, UNCHANGED hvars
    PROVE  HttpInv'
<1>1. UNCHANGED <<vms, controllers, events, call, tangled,
                  sent, at, entries, response, window, seenIn, ran, rushed>>
  BY DEF hvars
<1>2. TypeOK'
  BY <1>1 DEF HttpInv, TypeOK, STypeOK, StoreTypeOK
<1>3. Wired'
  BY <1>1 DEF HttpInv, Wired, RequestRight, PlaceRight, CallRight, ResponseRight, Keyed, Rejected, Outcome
<1> QED
  BY <1>2, <1>3 DEF HttpInv

LEMMA NextWired ==
    ASSUME HttpInv, [Next]_hvars
    PROVE  HttpInv'
  BY SendWired, StepWired, ExpireWired, StutterWired DEF Next, Done

(* Nothing has been sent, created or stored. *)
LEMMA InitWired ==
    ASSUME Init
    PROVE  HttpInv
<1>1. StoreTypeOK
  <2>1. << >> \in Seq(Event)
    OBVIOUS
  <2> QED
    BY <2>1 DEF Init, SInit, StoreInit, StoreTypeOK
<1>2. Idle \in Call /\ Idle.pc = "idle"
  BY DEF Idle, Call, Errors
<1>3. TypeOK
  BY <1>1, <1>2, HttpBoundsAssumption DEF Init, SInit, TypeOK, STypeOK
<1>4. Wired
  BY <1>2 DEF Init, SInit, Wired, RequestRight, PlaceRight, CallRight, ResponseRight
<1> QED
  BY <1>3, <1>4 DEF HttpInv

(* How far the parts of a request have come always agrees. *)
THEOREM HttpWiring == Spec => []HttpInv
<1>1. Init => HttpInv
  BY InitWired
<1>2. HttpInv /\ [Next]_hvars => HttpInv'
  BY NextWired
<1> QED
  BY <1>1, <1>2, PTL DEF Spec

(* The transport, the service and the store keep to their types. *)
THEOREM HttpTyping == Spec => []TypeOK
<1>1. HttpInv => TypeOK
  BY DEF HttpInv
<1> QED
  BY <1>1, HttpWiring, PTL

-----------------------------------------------------------------------------

(***************************************************************************)
(* What the middleware keeps.                                              *)
(***************************************************************************)

(* Request r goes through the middleware with key k. *)
Uses(r, k) == Keyed(r) /\ sent[r].key = k

(* A request was looked up in the window its key is in, or an earlier one; *)
(* one that is still under way, in this very one.                          *)
WindowRight ==
    /\ \A r \in Requests : at[r] \in {"unsent", "received"} => seenIn[r] = 0
    /\ \A r \in Requests, k \in Keys : Uses(r, k) =>
        /\ seenIn[r] <= window[k]
        /\ at[r] \in {"evicting", "serving", "written"} => seenIn[r] = window[k]

(* An entry is what some request with its key and body was answered. *)
OriginRight ==
    \A k \in Keys : entries[k] # NoEntry =>
        \E q \in ran : /\ at[q] = "answered" /\ Uses(q, k)
                       /\ sent[q].body = entries[k].body
                       /\ response[q] = entries[k].response

(* Whom the middleware answered itself, it told the truth. *)
AnsweredRight ==
    \A r \in Requests : at[r] = "answered" /\ r \notin ran =>
        \/ response[r] = Failure(400, "unreadable")
        \/ /\ response[r] = Failure(409, "conflict")
           /\ \E q \in ran : at[q] = "answered" /\ SameKey(q, r) /\ sent[q].body # sent[r].body
        \/ \E q \in ran : /\ at[q] = "answered" /\ SameKey(q, r) /\ sent[q].body = sent[r].body
                          /\ response[q] = response[r]

(* A key whose clients wait has one request under way. *)
Alone(k) ==
    \A q, r \in Requests :
        InFlight(q) /\ InFlight(r) /\ sent[q].key = k /\ sent[r].key = k => q = r

(* What the entry of such a key is while a request is under way, and what  *)
(* it is to those that were answered in this window.                       *)
EntryFits(r, k) ==
    /\ at[r] \in {"serving", "written"} => entries[k] = NoEntry
    /\ at[r] = "evicting" => entries[k] # NoEntry /\ entries[k].expired
    /\ at[r] = "answered" /\ seenIn[r] = window[k] /\ response[r].code # "unreadable" =>
        /\ Fresh(k)
        /\ response[r] = IF entries[k].body = sent[r].body THEN entries[k].response
                         ELSE Failure(409, "conflict")

PatientRight ==
    \A k \in Keys \ rushed : Alone(k) /\ \A r \in Requests : Uses(r, k) => EntryFits(r, k)

KeyInv == /\ HttpInv
          /\ WindowRight
          /\ OriginRight
          /\ AnsweredRight
          /\ PatientRight
          /\ PatientRunsOnce
          /\ SameAnswer

-----------------------------------------------------------------------------

(***************************************************************************)
(* What the middleware does for a request r with key k, whatever the       *)
(* handler and the service do meanwhile.                                   *)
(***************************************************************************)

(* The key is looked up and r goes on to place. *)
LooksUp(r, k) == at[r] = "received" /\ seenIn'[r] = window[k] /\ entries' = entries

(* Its handler begins. *)
Begins(r) == at'[r] \in {"serving", "written"} /\ ran' = ran \cup {r}

(* The middleware answers it. *)
Answered(r, x) == at'[r] = "answered" /\ response'[r] = x /\ ran' = ran

Unread(r) == /\ at[r] = "received" /\ entries' = entries /\ seenIn' = seenIn
             /\ Answered(r, Failure(400, "unreadable"))

Misses(r, k) == LooksUp(r, k) /\ entries[k] = NoEntry /\ Begins(r)

FindsOld(r, k) == /\ LooksUp(r, k) /\ entries[k] # NoEntry /\ entries[k].expired
                  /\ at'[r] = "evicting" /\ ran' = ran

FindsOther(r, k) == /\ LooksUp(r, k) /\ Fresh(k) /\ entries[k].body # sent[r].body
                    /\ Answered(r, Failure(409, "conflict"))

FindsOwn(r, k) == /\ LooksUp(r, k) /\ Fresh(k) /\ entries[k].body = sent[r].body
                  /\ Answered(r, entries[k].response)

Evicts(r, k) == /\ at[r] = "evicting" /\ seenIn' = seenIn /\ entries'[k] = NoEntry
                /\ Begins(r)

GoesOn(r) == /\ at[r] = "serving" /\ at'[r] \in {"serving", "written"}
             /\ entries' = entries /\ seenIn' = seenIn /\ ran' = ran

Stores(r, k) ==
    /\ at[r] = "written" /\ at'[r] = "answered" /\ response'[r] = response[r]
    /\ seenIn' = seenIn /\ ran' = ran
    /\ entries'[k] = [body |-> sent[r].body, response |-> response[r], expired |-> FALSE]
    /\ entries'[k] \in Entry

KeyStep(r, k) == \/ Unread(r) \/ Misses(r, k) \/ FindsOld(r, k) \/ FindsOther(r, k)
                 \/ FindsOwn(r, k) \/ Evicts(r, k) \/ GoesOn(r) \/ Stores(r, k)

(* A step that does not ask the middleware for anything. *)
Unkeyed(r) == /\ ~ Keyed(r) /\ entries' = entries /\ seenIn' = seenIn
              /\ at'[r] \in {"serving", "written", "answered"} /\ ran \subseteq ran'

(* All that a step for r does, as seen by the middleware. *)
MiddlewareStep(r) ==
    /\ OthersStay(r)
    /\ sent' = sent /\ window' = window /\ rushed' = rushed
    /\ InFlight(r)
    /\ \/ Unkeyed(r)
       \/ \E k \in Keys : /\ Uses(r, k) /\ KeyStep(r, k)
                          /\ \A j \in Keys \ {k} : entries'[j] = entries[j]

(* The handler begins, and has written already if it rejects the body. *)
LEMMA ServeBegins ==
    ASSUME HttpInv, NEW r \in Requests, Serve(r)
    PROVE  /\ sent' = sent /\ window' = window /\ rushed' = rushed
           /\ Keyed(r) => Begins(r)
           /\ at'[r] \in {"serving", "written", "answered"} /\ ran \subseteq ran'
<1>1. CASE Write(r, Failure(400, "bad_request")) /\ ran' = ran \cup {r}
  BY <1>1 DEF Serve, Write, Begins, HttpInv, TypeOK
<1>2. CASE at' = [at EXCEPT ![r] = "serving"] /\ ran' = ran \cup {r}
  BY <1>2 DEF Serve, Begins, HttpInv, TypeOK
<1> QED
  BY <1>1, <1>2 DEF Serve

(* Each step of a goroutine is one of these. *)
LEMMA StepIsMiddlewareStep ==
    ASSUME HttpInv, NEW r \in Requests, Step(r)
    PROVE  MiddlewareStep(r)
<1> USE DEF HttpInv
<1> DEFINE k == sent[r].key
<1>1. OthersStay(r)
  BY StepWired
<1>2. at[r] # "unsent" /\ Keyed(r) => k \in Keys /\ Uses(r, k)
  BY SentTypes DEF Uses
<1>3. CASE PassThrough(r)
  BY <1>1, <1>3, ServeBegins DEF PassThrough, MiddlewareStep, Unkeyed, InFlight
<1>4. CASE BodyUnreadable(r)
  <2>1. /\ at[r] = "received" /\ Keyed(r)
        /\ response' = [response EXCEPT ![r] = Failure(400, "unreadable")]
        /\ at' = [at EXCEPT ![r] = "answered"]
        /\ UNCHANGED <<sent, entries, window, ran, rushed, seenIn>>
    BY <1>4 DEF BodyUnreadable, Answer
  <2>2. Unread(r)
    BY <2>1 DEF Unread, Answered, TypeOK
  <2> QED
    BY <1>1, <1>2, <2>1, <2>2 DEF MiddlewareStep, KeyStep, InFlight
<1>5. CASE LookUpMiss(r)
  <2>1. LookUp(r) /\ entries[k] = NoEntry /\ Serve(r) /\ entries' = entries
    BY <1>5 DEF LookUpMiss
  <2>2. at[r] = "received" /\ Keyed(r) /\ seenIn'[r] = window[k]
    BY <2>1, LookUpShape
  <2>3. Misses(r, k) /\ sent' = sent /\ window' = window /\ rushed' = rushed
    BY <2>1, <2>2, ServeBegins DEF Misses, LooksUp
  <2> QED
    BY <1>1, <1>2, <2>1, <2>2, <2>3 DEF MiddlewareStep, KeyStep, InFlight
<1>6. CASE LookUpExpired(r)
  <2>1. /\ LookUp(r) /\ entries[k] # NoEntry /\ entries[k].expired
        /\ at' = [at EXCEPT ![r] = "evicting"]
        /\ UNCHANGED <<sent, entries, window, ran, rushed>>
    BY <1>6 DEF LookUpExpired, Expired
  <2>2. at[r] = "received" /\ Keyed(r) /\ seenIn'[r] = window[k]
    BY <2>1, LookUpShape
  <2>3. FindsOld(r, k)
    BY <2>1, <2>2 DEF FindsOld, LooksUp, TypeOK
  <2> QED
    BY <1>1, <1>2, <2>1, <2>2, <2>3 DEF MiddlewareStep, KeyStep, InFlight
<1>7. CASE LookUpReused(r)
  <2>1. /\ LookUp(r) /\ Fresh(k) /\ entries[k].body # sent[r].body
        /\ response' = [response EXCEPT ![r] = Failure(409, "conflict")]
        /\ at' = [at EXCEPT ![r] = "answered"]
        /\ UNCHANGED <<sent, entries, window, ran, rushed>>
    BY <1>7 DEF LookUpReused, Expired, HashMatches, Answer, Fresh
  <2>2. at[r] = "received" /\ Keyed(r) /\ seenIn'[r] = window[k]
    BY <2>1, LookUpShape
  <2>3. FindsOther(r, k)
    BY <2>1, <2>2 DEF FindsOther, LooksUp, Answered, TypeOK
  <2> QED
    BY <1>1, <1>2, <2>1, <2>2, <2>3 DEF MiddlewareStep, KeyStep, InFlight
<1>8. CASE LookUpReplay(r)
  <2>1. /\ LookUp(r) /\ Fresh(k) /\ entries[k].body = sent[r].body
        /\ response' = [response EXCEPT ![r] = entries[k].response]
        /\ at' = [at EXCEPT ![r] = "answered"]
        /\ UNCHANGED <<sent, entries, window, ran, rushed>>
    BY <1>8 DEF LookUpReplay, Expired, HashMatches, Answer, Fresh
  <2>2. at[r] = "received" /\ Keyed(r) /\ seenIn'[r] = window[k]
    BY <2>1, LookUpShape
  <2>3. FindsOwn(r, k)
    BY <2>1, <2>2 DEF FindsOwn, LooksUp, Answered, TypeOK
  <2> QED
    BY <1>1, <1>2, <2>1, <2>2, <2>3 DEF MiddlewareStep, KeyStep, InFlight
<1>9. CASE Evict(r)
  <2>1. /\ at[r] = "evicting" /\ Serve(r) /\ seenIn' = seenIn
        /\ entries' = [entries EXCEPT ![k] = NoEntry]
    BY <1>9 DEF Evict
  <2>2. Keyed(r) /\ k \in Keys /\ Uses(r, k)
    BY <1>2, <2>1 DEF Wired, RequestRight, PlaceRight
  <2>3. entries'[k] = NoEntry /\ \A j \in Keys \ {k} : entries'[j] = entries[j]
    BY <2>1, <2>2 DEF TypeOK
  <2>4. Evicts(r, k) /\ sent' = sent /\ window' = window /\ rushed' = rushed
    BY <2>1, <2>2, <2>3, ServeBegins DEF Evicts
  <2> QED
    BY <1>1, <2>1, <2>2, <2>3, <2>4 DEF MiddlewareStep, KeyStep, InFlight
<1>10. CASE InService(r) \/ Finish(r)
  <2>1. /\ at[r] = "serving"
        /\ UNCHANGED <<sent, entries, window, seenIn, ran, rushed>>
    BY <1>10 DEF InService, http, Finish
  <2>2. /\ at'[r] \in {"serving", "written"} \/ ~ Keyed(r)
        /\ at'[r] \in {"serving", "written", "answered"}
    BY <1>10, <2>1 DEF InService, http, Finish, Write, TypeOK
  <2>3. CASE Keyed(r)
    <3>1. GoesOn(r)
      BY <2>1, <2>2, <2>3 DEF GoesOn
    <3> QED
      BY <1>1, <1>2, <2>1, <2>3, <3>1 DEF MiddlewareStep, KeyStep, InFlight
  <2>4. CASE ~ Keyed(r)
    BY <1>1, <2>1, <2>2, <2>4 DEF MiddlewareStep, Unkeyed, InFlight
  <2> QED
    BY <2>3, <2>4
<1>11. CASE StoreEntry(r)
  <2>1. /\ at[r] = "written" /\ at'[r] = "answered"
        /\ UNCHANGED <<sent, response, window, seenIn, ran, rushed>>
    BY <1>11 DEF StoreEntry, TypeOK
  <2>2. /\ Keyed(r)
        /\ entries'[k] = [body |-> sent[r].body, response |-> response[r], expired |-> FALSE]
        /\ entries'[k] \in Entry
        /\ \A j \in Keys \ {k} : entries'[j] = entries[j]
    BY <1>11, StoredEntry
  <2>3. Stores(r, k)
    BY <2>1, <2>2 DEF Stores
  <2> QED
    BY <1>1, <1>2, <2>1, <2>2, <2>3 DEF MiddlewareStep, KeyStep, InFlight
<1> QED
  BY <1>3, <1>4, <1>5, <1>6, <1>7, <1>8, <1>9, <1>10, <1>11 DEF Step

-----------------------------------------------------------------------------

(***************************************************************************)
(* KeyInv is inductive.                                                    *)
(***************************************************************************)

(* What was answered stays so, and who asked for what is settled. *)
LEMMA StepSettled ==
    ASSUME HttpInv, NEW r \in Requests, MiddlewareStep(r)
    PROVE  /\ \A q \in Requests, k \in Keys : Uses(q, k)' <=> Uses(q, k)
           /\ \A p, q \in Requests : SameKey(p, q)' <=> SameKey(p, q)
           /\ at[r] # "answered" /\ at[r] # "unsent"
           /\ ran \subseteq ran' /\ ran \subseteq Requests
           /\ \A q \in Requests \ {r} :
                /\ at'[q] = at[q] /\ response'[q] = response[q] /\ seenIn'[q] = seenIn[q]
                /\ q \in ran' <=> q \in ran
<1>1. sent' = sent /\ OthersStay(r) /\ InFlight(r)
  BY DEF MiddlewareStep
<1>2. ran \subseteq Requests
  BY DEF HttpInv, TypeOK
<1>3. ran \subseteq ran'
  BY DEF MiddlewareStep, Unkeyed, KeyStep, Unread, Misses, FindsOld, FindsOther, FindsOwn, Evicts,
         GoesOn, Stores, Begins, Answered
<1> QED
  BY <1>1, <1>2, <1>3 DEF OthersStay, Uses, SameKey, Keyed, InFlight

LEMMA WindowStep ==
    ASSUME HttpInv, WindowRight, NEW r \in Requests, MiddlewareStep(r)
    PROVE  WindowRight'
<1>1. window' = window /\ window \in [Keys -> 0 .. MaxExpiries]
  BY DEF MiddlewareStep, HttpInv, TypeOK
<1>2. ASSUME NEW q \in Requests \ {r}
      PROVE  /\ at'[q] \in {"unsent", "received"} => seenIn'[q] = 0
             /\ \A k \in Keys : Uses(q, k)' =>
                /\ seenIn'[q] <= window'[k]
                /\ at'[q] \in {"evicting", "serving", "written"} => seenIn'[q] = window'[k]
  BY <1>1, StepSettled DEF WindowRight
<1>3. at'[r] \notin {"unsent", "received"}
  BY DEF MiddlewareStep, Unkeyed, KeyStep, Unread, Misses, FindsOld, FindsOther, FindsOwn, Evicts,
         GoesOn, Stores, Begins, Answered
<1>4. ASSUME NEW k \in Keys, Uses(r, k)
      PROVE  /\ seenIn'[r] <= window'[k]
             /\ at'[r] \in {"evicting", "serving", "written"} => seenIn'[r] = window'[k]
  <2>1. KeyStep(r, k)
    BY <1>4 DEF MiddlewareStep, Unkeyed, Uses
  <2>2. CASE LooksUp(r, k)
    BY <1>1, <2>2, HttpBoundsAssumption DEF LooksUp
  <2>3. CASE Unread(r) \/ Evicts(r, k) \/ GoesOn(r) \/ Stores(r, k)
    BY <1>1, <1>4, <2>3 DEF Unread, Evicts, GoesOn, Stores, Answered, WindowRight
  <2> QED
    BY <2>1, <2>2, <2>3 DEF KeyStep, Misses, FindsOld, FindsOther, FindsOwn
<1> QED
  BY <1>2, <1>3, <1>4, StepSettled DEF WindowRight

LEMMA OriginStep ==
    ASSUME HttpInv, HttpInv', OriginRight, NEW r \in Requests, MiddlewareStep(r)
    PROVE  OriginRight'
<1> SUFFICES ASSUME NEW k \in Keys, entries'[k] # NoEntry
             PROVE  \E q \in ran' : /\ at'[q] = "answered" /\ Uses(q, k)'
                                    /\ sent'[q].body = entries'[k].body
                                    /\ response'[q] = entries'[k].response
  BY DEF OriginRight
<1>1. sent' = sent
  BY DEF MiddlewareStep
<1>2. CASE entries'[k] = entries[k]
  <2>1. PICK q \in ran : /\ at[q] = "answered" /\ Uses(q, k)
                         /\ sent[q].body = entries[k].body
                         /\ response[q] = entries[k].response
    BY <1>2 DEF OriginRight
  <2> QED
    BY <1>1, <1>2, <2>1, StepSettled
<1>3. CASE entries'[k] # entries[k]
  <2>1. Uses(r, k) /\ KeyStep(r, k)
    BY <1>3 DEF MiddlewareStep, Unkeyed
  <2>2. Stores(r, k)
    BY <1>3, <2>1 DEF KeyStep, Unread, Misses, FindsOld, FindsOther, FindsOwn, Evicts, GoesOn, LooksUp
  <2>3. r \in ran'
    BY <2>2 DEF Stores, HttpInv, Wired, RequestRight, PlaceRight
  <2> QED
    BY <1>1, <2>1, <2>2, <2>3, StepSettled DEF Stores
<1> QED
  BY <1>2, <1>3

LEMMA AnsweredStep ==
    ASSUME HttpInv, OriginRight, AnsweredRight, NEW r \in Requests, MiddlewareStep(r), HttpInv'
    PROVE  AnsweredRight'
<1>1. sent' = sent
  BY DEF MiddlewareStep
<1> SUFFICES ASSUME NEW q \in Requests, at'[q] = "answered", q \notin ran'
             PROVE  \/ response'[q] = Failure(400, "unreadable")
                    \/ /\ response'[q] = Failure(409, "conflict")
                       /\ \E p \in ran : at[p] = "answered" /\ SameKey(p, q) /\ sent[p].body # sent[q].body
                    \/ \E p \in ran : /\ at[p] = "answered" /\ SameKey(p, q)
                                      /\ sent[p].body = sent[q].body
                                      /\ response[p] = response'[q]
  BY <1>1, StepSettled DEF AnsweredRight
<1>2. CASE q # r
  BY <1>2, StepSettled DEF AnsweredRight
<1>3. CASE q = r
  <2>1. Keyed(r)
    BY <1>1, <1>3 DEF HttpInv, Wired, RequestRight, PlaceRight, Keyed
  <2>2. PICK k \in Keys : Uses(r, k) /\ KeyStep(r, k)
    BY <2>1 DEF MiddlewareStep, Unkeyed
  <2>3. r \notin ran /\ at'[r] = "answered"
    BY <1>3, StepSettled
  <2>4. CASE Unread(r)
    BY <1>3, <2>4 DEF Unread, Answered
  <2>5. CASE FindsOther(r, k) \/ FindsOwn(r, k)
    <3>1. PICK p \in ran : /\ at[p] = "answered" /\ Uses(p, k)
                           /\ sent[p].body = entries[k].body
                           /\ response[p] = entries[k].response
      BY <2>5 DEF FindsOther, FindsOwn, Fresh, OriginRight
    <3>2. SameKey(p, r)
      BY <2>2, <3>1 DEF SameKey, Uses
    <3> QED
      BY <1>3, <2>5, <3>1, <3>2 DEF FindsOther, FindsOwn, Answered
  <2>6. CASE Misses(r, k) \/ FindsOld(r, k) \/ Evicts(r, k) \/ GoesOn(r)
    BY <2>3, <2>6 DEF Misses, FindsOld, Evicts, GoesOn, Begins
  <2>7. CASE Stores(r, k)
    BY <2>3, <2>7 DEF Stores, HttpInv, Wired, RequestRight, PlaceRight
  <2> QED
    BY <2>2, <2>4, <2>5, <2>6, <2>7 DEF KeyStep
<1> QED
  BY <1>2, <1>3

(* What a handler writes is none of the middleware's own answers. *)
LEMMA RanCodes ==
    ASSUME HttpInv, NEW q \in ran, at[q] \in {"written", "answered"}
    PROVE  response[q].code \notin {"unreadable", "conflict"}
<1>1. q \in Requests /\ ResponseRight(q) /\ call[q].err \in Errors
  BY DEF HttpInv, TypeOK, STypeOK, Wired, RequestRight, Call
<1>2. response[q] = IF call[q].pc = "idle" THEN Failure(400, "bad_request") ELSE Outcome(q)
  BY <1>1 DEF ResponseRight
<1>3. Failure(400, "bad_request").code = "bad_request"
  BY DEF Failure
<1>4. Outcome(q).code \in {"ok", "not_found", "already_exists"}
  BY <1>1 DEF Outcome, Failure, Errors
<1> QED
  BY <1>2, <1>3, <1>4

(* A step for r touches the entry of a patient key only to evict it or to  *)
(* store it.                                                               *)
LEMMA EntryTouched ==
    ASSUME NEW r \in Requests, MiddlewareStep(r), NEW k \in Keys, entries'[k] # entries[k]
    PROVE  Uses(r, k) /\ (Evicts(r, k) \/ Stores(r, k))
<1>1. Uses(r, k) /\ KeyStep(r, k)
  BY DEF MiddlewareStep, Unkeyed
<1> QED
  BY <1>1 DEF KeyStep, Unread, Misses, FindsOld, FindsOther, FindsOwn, GoesOn, LooksUp

LEMMA PatientStep ==
    ASSUME KeyInv, NEW r \in Requests, MiddlewareStep(r), HttpInv'
    PROVE  PatientRight'
<1> USE DEF KeyInv
<1>1. sent' = sent /\ window' = window /\ rushed' = rushed /\ InFlight(r)
  BY DEF MiddlewareStep
<1> SUFFICES ASSUME NEW k \in Keys \ rushed
             PROVE  Alone(k)' /\ \A q \in Requests : Uses(q, k)' => EntryFits(q, k)'
  BY <1>1 DEF PatientRight
<1>2. Alone(k) /\ \A q \in Requests : Uses(q, k) => EntryFits(q, k)
  BY DEF PatientRight
<1>3. Alone(k)'
  <2>1. \A q \in Requests : InFlight(q)' => InFlight(q)
    BY <1>1, StepSettled DEF InFlight
  <2> QED
    BY <1>1, <1>2, <2>1 DEF Alone
<1>4. ASSUME NEW q \in Requests \ {r}, Uses(q, k)
      PROVE  EntryFits(q, k)'
  <2>1. EntryFits(q, k) /\ at[q] # "unsent"
    BY <1>2, <1>4 DEF Uses, Keyed, HttpInv, Wired, RequestRight, PlaceRight
  <2>2. at'[q] = at[q] /\ response'[q] = response[q] /\ seenIn'[q] = seenIn[q]
    BY StepSettled
  <2>3. CASE entries'[k] = entries[k]
    BY <1>1, <2>1, <2>2, <2>3 DEF EntryFits, Fresh
  <2>4. CASE entries'[k] # entries[k]
    <3>1. Uses(r, k) /\ at[r] \in {"evicting", "written"}
      BY <2>4, EntryTouched DEF Evicts, Stores
    <3>2. ~ Fresh(k)
      BY <1>2, <3>1 DEF EntryFits, Fresh
    <3>3. at[q] = "answered"
      BY <1>1, <1>2, <1>4, <2>1, <3>1 DEF Alone, Uses, InFlight
    <3> QED
      BY <1>1, <2>1, <2>2, <3>2, <3>3 DEF EntryFits
  <2> QED
    BY <2>3, <2>4
<1>5. ASSUME Uses(r, k)
      PROVE  EntryFits(r, k)'
  <2>1. KeyStep(r, k) /\ EntryFits(r, k)
    BY <1>2, <1>5 DEF MiddlewareStep, Unkeyed, Uses
  <2>2. CASE Unread(r)
    BY <2>2 DEF Unread, Answered, EntryFits, Failure
  <2>3. CASE Misses(r, k) \/ Evicts(r, k)
    BY <2>3 DEF Misses, Evicts, LooksUp, Begins, EntryFits
  <2>4. CASE FindsOld(r, k)
    BY <2>4 DEF FindsOld, LooksUp, EntryFits
  <2>5. CASE FindsOther(r, k) \/ FindsOwn(r, k)
    BY <1>1, <2>5 DEF FindsOther, FindsOwn, LooksUp, Answered, EntryFits, Fresh
  <2>6. CASE GoesOn(r)
    BY <2>1, <2>6 DEF GoesOn, EntryFits
  <2>7. CASE Stores(r, k)
    <3>1. entries'[k] # NoEntry
      BY <2>7, NothingAssumption DEF Stores
    <3>2. ~ entries'[k].expired
      BY <2>7 DEF Stores
    <3> QED
      BY <1>1, <2>7, <3>1, <3>2 DEF Stores, EntryFits, Fresh
  <2> QED
    BY <2>1, <2>2, <2>3, <2>4, <2>5, <2>6, <2>7 DEF KeyStep
<1> QED
  BY <1>3, <1>4, <1>5, StepSettled

LEMMA RunsOnceStep ==
    ASSUME KeyInv, NEW r \in Requests, MiddlewareStep(r), HttpInv'
    PROVE  PatientRunsOnce'
<1> USE DEF KeyInv
<1>1. sent' = sent /\ window' = window /\ rushed' = rushed /\ InFlight(r)
  BY DEF MiddlewareStep
<1> SUFFICES ASSUME NEW k \in Keys \ rushed, NEW p \in ran', NEW q \in ran', p # q,
                    Uses(p, k), Uses(q, k)
             PROVE  seenIn'[p] # seenIn'[q]
  BY <1>1 DEF PatientRunsOnce, OncePerWindow, SameKey, Keyed, Uses
<1>2. p \in Requests /\ q \in Requests
  BY DEF HttpInv, TypeOK
<1>3. CASE p \in ran /\ q \in ran
  <2>1. seenIn'[r] = seenIn[r] \/ at[r] = "received"
    BY DEF MiddlewareStep, Unkeyed, KeyStep, Unread, Misses, FindsOld, FindsOther, FindsOwn, Evicts,
           GoesOn, Stores, LooksUp
  <2>2. at[r] = "received" => r \notin ran
    BY DEF HttpInv, Wired, RequestRight, PlaceRight
  <2>3. seenIn'[p] = seenIn[p] /\ seenIn'[q] = seenIn[q]
    BY <1>2, <1>3, <2>1, <2>2, StepSettled
  <2>4. seenIn[p] # seenIn[q]
    BY <1>3 DEF PatientRunsOnce, OncePerWindow, SameKey, Uses
  <2> QED
    BY <2>3, <2>4
<1>4. ASSUME r \notin ran, r \in ran', Uses(r, k), NEW s \in ran, s # r, Uses(s, k)
      PROVE  seenIn'[s] # seenIn'[r]
  <2>1. s \in Requests /\ seenIn'[s] = seenIn[s] /\ EntryFits(s, k) /\ EntryFits(r, k) /\ Alone(k)
    BY <1>4, StepSettled DEF PatientRight
  <2>2. KeyStep(r, k)
    BY <1>4 DEF MiddlewareStep, Unkeyed, Uses
  <2>3. Misses(r, k) \/ Evicts(r, k)
    BY <1>4, <2>2 DEF KeyStep, Unread, FindsOld, FindsOther, FindsOwn, GoesOn, Stores, Answered
  <2>4. ~ Fresh(k)
    BY <2>1, <2>3 DEF Misses, Evicts, EntryFits, Fresh
  <2>5. seenIn'[r] = window[k]
    BY <1>4, <2>3 DEF Misses, Evicts, LooksUp, WindowRight
  <2>6. at[s] = "answered"
    <3>1. at[s] \in {"serving", "written", "answered"}
      BY <1>4, <2>1 DEF HttpInv, Wired, RequestRight, PlaceRight
    <3> QED
      BY <1>1, <1>4, <2>1, <3>1 DEF Alone, InFlight, Uses
  <2>7. response[s].code # "unreadable"
    BY <1>4, <2>6, RanCodes
  <2> QED
    BY <2>1, <2>4, <2>5, <2>6, <2>7 DEF EntryFits
<1>5. p \in ran \/ p = r
  BY <1>2, StepSettled
<1>6. q \in ran \/ q = r
  BY <1>2, StepSettled
<1> QED
  BY <1>3, <1>4, <1>5, <1>6

LEMMA SameAnswerStep ==
    ASSUME KeyInv, NEW r \in Requests, MiddlewareStep(r), PatientRight'
    PROVE  SameAnswer'
<1> USE DEF KeyInv
<1>1. sent' = sent /\ window' = window /\ rushed' = rushed
  BY DEF MiddlewareStep
<1> SUFFICES ASSUME NEW p \in Requests, NEW q \in Requests, NEW k \in Keys \ rushed,
                    at'[p] = "answered", at'[q] = "answered",
                    Uses(p, k), Uses(q, k), sent[p].body = sent[q].body, seenIn'[p] = seenIn'[q],
                    response'[p].code # "unreadable", response'[q].code # "unreadable"
             PROVE  response'[p] = response'[q]
  <2> SUFFICES ASSUME NEW p \in Requests, NEW q \in Requests,
                      at'[p] = "answered", at'[q] = "answered", SameKey(p, q)',
                      sent[p].body = sent[q].body, seenIn'[p] = seenIn'[q],
                      sent[q].key \notin rushed,
                      response'[p].code # "unreadable", response'[q].code # "unreadable"
               PROVE  response'[p] = response'[q]
    BY <1>1 DEF SameAnswer
  <2>1. SameKey(p, q) /\ at[q] # "unsent"
    BY StepSettled DEF SameKey, Keyed, HttpInv, Wired, RequestRight, PlaceRight
  <2>2. sent[q].key \in Keys /\ Uses(p, sent[q].key) /\ Uses(q, sent[q].key)
    BY <2>1, SentTypes DEF SameKey, Uses
  <2> QED
    BY <2>2
<1>2. CASE p # r /\ q # r
  <2>1. SameKey(p, q) /\ sent[q].key \notin rushed
    BY DEF SameKey, Uses
  <2> QED
    BY <1>2, <2>1, StepSettled DEF SameAnswer
<1>3. ASSUME Uses(r, k), at'[r] = "answered", response'[r].code # "unreadable"
      PROVE  seenIn'[r] = window[k]
  <2>1. KeyStep(r, k)
    BY <1>3 DEF MiddlewareStep, Unkeyed, Uses
  <2>2. ~ Unread(r)
    BY <1>3 DEF Unread, Answered, Failure
  <2>3. LooksUp(r, k) \/ Stores(r, k)
    BY <1>3, <2>1, <2>2 DEF KeyStep, Misses, FindsOld, FindsOther, FindsOwn, Evicts, GoesOn, Begins
  <2> QED
    BY <1>3, <2>3 DEF LooksUp, Stores, WindowRight
<1>4. CASE p = r \/ q = r
  <2>1. seenIn'[p] = window'[k] /\ seenIn'[q] = window'[k]
    BY <1>1, <1>3, <1>4
  <2>2. EntryFits(p, k)' /\ EntryFits(q, k)'
    BY <1>1, StepSettled DEF PatientRight
  <2> QED
    BY <1>1, <2>1, <2>2 DEF EntryFits
<1> QED
  BY <1>2, <1>4

(* A new request is nowhere yet, and comes alone if its key is patient. *)
LEMMA SendKeys ==
    ASSUME KeyInv, NEW r \in Requests, Send(r)
    PROVE  KeyInv'
<1> USE DEF KeyInv
<1>1. PICK x \in Offered :
        /\ rushed' = IF \E q \in Requests : InFlight(q) /\ sent[q].key = x.key
                      THEN rushed \cup ({x.key} \ {NoKey}) ELSE rushed
        /\ sent' = [sent EXCEPT ![r] = x]
  BY DEF Send
<1>2. /\ at[r] = "unsent" /\ at' = [at EXCEPT ![r] = "received"]
      /\ UNCHANGED <<entries, response, window, seenIn, ran>>
  BY DEF Send
<1>3. HttpInv'
  BY SendWired
<1>4. /\ at'[r] = "received" /\ sent'[r] = x /\ r \notin ran /\ ~ Keyed(r)
      /\ \A q \in Requests \ {r} : at'[q] = at[q] /\ sent'[q] = sent[q]
      /\ ran \subseteq Requests
  BY <1>1, <1>2 DEF HttpInv, TypeOK, Wired, RequestRight, PlaceRight, Keyed
<1>5. /\ \A q \in Requests \ {r}, k \in Keys : Uses(q, k)' <=> Uses(q, k)
      /\ \A p, q \in Requests \ {r} : SameKey(p, q)' <=> SameKey(p, q)
  BY <1>4 DEF Uses, SameKey, Keyed
<1>6. WindowRight'
  <2>1. seenIn[r] = 0 /\ \A k \in Keys : 0 <= window[k]
    BY <1>2, HttpBoundsAssumption DEF WindowRight, HttpInv, TypeOK
  <2>2. \A q \in Requests : at'[q] \in {"unsent", "received"} => seenIn'[q] = 0
    BY <1>2, <1>4, <2>1 DEF WindowRight
  <2>3. ASSUME NEW q \in Requests, NEW k \in Keys, Uses(q, k)'
        PROVE  /\ seenIn'[q] <= window'[k]
               /\ at'[q] \in {"evicting", "serving", "written"} => seenIn'[q] = window'[k]
    BY <1>2, <1>4, <1>5, <2>1, <2>3 DEF WindowRight
  <2> QED
    BY <2>2, <2>3 DEF WindowRight
<1>7. OriginRight'
  BY <1>2, <1>4, <1>5 DEF OriginRight
<1>8. AnsweredRight'
  <2> SUFFICES ASSUME NEW q \in Requests \ {r}, at[q] = "answered", q \notin ran
               PROVE  \/ response[q] = Failure(400, "unreadable")
                      \/ /\ response[q] = Failure(409, "conflict")
                         /\ \E p \in ran : at'[p] = "answered" /\ SameKey(p, q)' /\ sent'[p].body # sent'[q].body
                      \/ \E p \in ran : /\ at'[p] = "answered" /\ SameKey(p, q)' /\ sent'[p].body = sent'[q].body
                                        /\ response[p] = response[q]
    BY <1>2, <1>4 DEF AnsweredRight
  <2>1. \A p \in ran : p \in Requests \ {r}
    BY <1>4
  <2> QED
    BY <1>4, <1>5, <2>1 DEF AnsweredRight
<1>9. PatientRight'
  <2> SUFFICES ASSUME NEW k \in Keys \ rushed'
               PROVE  Alone(k)' /\ \A q \in Requests : Uses(q, k)' => EntryFits(q, k)'
    BY DEF PatientRight
  <2>1. k \notin rushed
    BY <1>1
  <2>2. Alone(k) /\ \A q \in Requests : Uses(q, k) => EntryFits(q, k)
    BY <2>1 DEF PatientRight
  <2>3. x.key = k => \A q \in Requests : ~ (InFlight(q) /\ sent[q].key = k)
    BY <1>1, NoKeyAssumption
  <2>4. Alone(k)'
    BY <1>4, <2>2, <2>3 DEF Alone, InFlight
  <2>5. ASSUME NEW q \in Requests, Uses(q, k)'
        PROVE  EntryFits(q, k)'
    <3>1. CASE q = r
      BY <1>4, <3>1 DEF EntryFits
    <3>2. CASE q # r
      BY <1>2, <1>4, <1>5, <2>2, <2>5, <3>2 DEF EntryFits, Fresh
    <3> QED
      BY <3>1, <3>2
  <2> QED
    BY <2>4, <2>5
<1>10. rushed \subseteq rushed'
  BY <1>1
<1>11. PatientRunsOnce'
  <2> SUFFICES ASSUME NEW k \in Keys, k \notin rushed', NEW p \in ran, NEW q \in ran, p # q,
                      SameKey(p, q)', sent'[q].key = k
               PROVE  seenIn[p] # seenIn[q]
    BY <1>2 DEF PatientRunsOnce, OncePerWindow
  <2>1. p \in Requests \ {r} /\ q \in Requests \ {r}
    BY <1>4
  <2> QED
    BY <1>4, <1>5, <1>10, <2>1 DEF PatientRunsOnce, OncePerWindow
<1>12. SameAnswer'
  <2> SUFFICES ASSUME NEW p \in Requests, NEW q \in Requests,
                      at'[p] = "answered", at'[q] = "answered", SameKey(p, q)',
                      sent'[p].body = sent'[q].body, seenIn[p] = seenIn[q], sent'[q].key \notin rushed',
                      "unreadable" \notin {response[p].code, response[q].code}
               PROVE  response[p] = response[q]
    BY <1>2 DEF SameAnswer
  <2>1. p # r /\ q # r
    BY <1>4
  <2> QED
    BY <1>4, <1>5, <1>10, <2>1 DEF SameAnswer
<1> QED
  BY <1>3, <1>6, <1>7, <1>8, <1>9, <1>11, <1>12

(* An entry grows old when nobody who looked its key up is under way: the  *)
(* window it opens is one in which nobody has been answered.               *)
LEMMA ExpireKeys ==
    ASSUME KeyInv, NEW k \in Keys, Expire(k)
    PROVE  KeyInv'
<1> USE DEF KeyInv
<1>1. /\ entries[k] # NoEntry
      /\ \A r \in Requests : Uses(r, k) => at[r] \in {"received", "answered"}
      /\ entries' = [entries EXCEPT ![k] = [entries[k] EXCEPT !.expired = TRUE]]
      /\ window' = [window EXCEPT ![k] = window[k] + 1]
      /\ UNCHANGED <<sent, at, response, seenIn, ran, rushed>>
  BY DEF Expire, Uses
<1>2. HttpInv'
  BY ExpireWired
<1>3. /\ window'[k] = window[k] + 1 /\ window[k] \in Nat
      /\ \A j \in Keys \ {k} : entries'[j] = entries[j] /\ window'[j] = window[j]
      /\ \A r \in Requests : seenIn[r] \in Nat
  BY <1>1, HttpBoundsAssumption DEF HttpInv, TypeOK
<1>4. entries'[k].body = entries[k].body /\ entries'[k].response = entries[k].response
  BY <1>1 DEF HttpInv, TypeOK, Entry
<1>5. /\ \A r \in Requests, j \in Keys : Uses(r, j)' <=> Uses(r, j)
      /\ \A p, q \in Requests : SameKey(p, q)' <=> SameKey(p, q)
      /\ ran \subseteq Requests
  BY <1>1 DEF Uses, SameKey, Keyed, HttpInv, TypeOK
<1>6. WindowRight'
  <2>1. ASSUME NEW r \in Requests, NEW j \in Keys, Uses(r, j)
        PROVE  /\ seenIn[r] <= window'[j]
               /\ at[r] \in {"evicting", "serving", "written"} => seenIn[r] = window'[j]
    <3>1. /\ seenIn[r] <= window[j]
          /\ at[r] \in {"evicting", "serving", "written"} => seenIn[r] = window[j]
      BY <2>1 DEF WindowRight
    <3>2. CASE j = k
      BY <1>1, <1>3, <2>1, <3>1, <3>2
    <3>3. CASE j # k
      BY <1>3, <3>1, <3>3
    <3> QED
      BY <3>2, <3>3
  <2> QED
    BY <1>1, <1>5, <2>1 DEF WindowRight
<1>7. OriginRight'
  BY <1>1, <1>3, <1>4, <1>5 DEF OriginRight
<1>8. AnsweredRight'
  BY <1>1, <1>5 DEF AnsweredRight
<1>9. PatientRight'
  <2>1. ASSUME NEW j \in Keys \ rushed
        PROVE  Alone(j)'
    BY <1>1 DEF PatientRight, Alone, InFlight
  <2>2. ASSUME NEW j \in Keys \ rushed, NEW r \in Requests, Uses(r, j)
        PROVE  EntryFits(r, j)'
    <3>1. EntryFits(r, j) /\ seenIn[r] <= window[j]
      BY <2>2 DEF PatientRight, WindowRight
    <3>2. CASE j = k
      BY <1>1, <1>3, <2>2, <3>1, <3>2 DEF EntryFits
    <3>3. CASE j # k
      BY <1>1, <1>3, <3>1, <3>3 DEF EntryFits, Fresh
    <3> QED
      BY <3>2, <3>3
  <2> QED
    BY <1>1, <1>5, <2>1, <2>2 DEF PatientRight
<1>10. PatientRunsOnce'
  BY <1>1, <1>5 DEF PatientRunsOnce, OncePerWindow
<1>11. SameAnswer'
  BY <1>1, <1>5 DEF SameAnswer
<1> QED
  BY <1>2, <1>6, <1>7, <1>8, <1>9, <1>10, <1>11

LEMMA StepKeys ==
    ASSUME KeyInv, NEW r \in Requests, Step(r)
    PROVE  KeyInv'
<1>1. HttpInv' /\ MiddlewareStep(r)
  BY StepWired, StepIsMiddlewareStep DEF KeyInv
<1>2. WindowRight' /\ OriginRight' /\ AnsweredRight'
  BY <1>1, WindowStep, OriginStep, AnsweredStep DEF KeyInv
<1>3. PatientRight' /\ PatientRunsOnce'
  BY <1>1, PatientStep, RunsOnceStep
<1> QED
  BY <1>1, <1>2, <1>3, SameAnswerStep DEF KeyInv

LEMMA StutterKeys ==
    ASSUME KeyInv, UNCHANGED hvars
    PROVE  KeyInv'
<1>1. UNCHANGED <<sent, at, entries, response, window, seenIn, ran, rushed>>
  BY DEF hvars
<1>2. /\ \A q, k : Uses(q, k)' <=> Uses(q, k)
      /\ \A p, q : SameKey(p, q)' <=> SameKey(p, q)
  BY <1>1 DEF Uses, SameKey, Keyed
<1>3. HttpInv'
  BY StutterWired DEF KeyInv
<1>4. WindowRight' /\ OriginRight' /\ AnsweredRight'
  BY <1>1, <1>2 DEF KeyInv, WindowRight, OriginRight, AnsweredRight
<1>5. PatientRight'
  BY <1>1, <1>2 DEF KeyInv, PatientRight, Alone, InFlight, EntryFits, Fresh
<1>6. PatientRunsOnce' /\ SameAnswer'
  BY <1>1, <1>2 DEF KeyInv, PatientRunsOnce, OncePerWindow, SameAnswer
<1> QED
  BY <1>3, <1>4, <1>5, <1>6 DEF KeyInv

LEMMA InitKeys ==
    ASSUME Init
    PROVE  KeyInv
<1>1. HttpInv
  BY InitWired
<1>2. /\ \A r \in Requests : ~ Keyed(r) /\ at[r] = "unsent" /\ seenIn[r] = 0
      /\ \A k \in Keys : entries[k] = NoEntry
      /\ ran = {}
  BY DEF Init, Keyed
<1>3. WindowRight /\ OriginRight /\ AnsweredRight
  BY <1>2 DEF WindowRight, OriginRight, AnsweredRight, Uses
<1>4. PatientRight
  BY <1>2 DEF PatientRight, Alone, InFlight, Uses
<1>5. PatientRunsOnce /\ SameAnswer
  BY <1>2 DEF PatientRunsOnce, OncePerWindow, SameAnswer
<1> QED
  BY <1>1, <1>3, <1>4, <1>5 DEF KeyInv

(* The keys' bookkeeping always fits what clients were answered. *)
THEOREM KeyInvariance == Spec => []KeyInv
<1>1. Init => KeyInv
  BY InitKeys
<1>2. KeyInv /\ [Next]_hvars => KeyInv'
  BY SendKeys, StepKeys, ExpireKeys, StutterKeys DEF Next, Done
<1> QED
  BY <1>1, <1>2, PTL DEF Spec

(* Idempotency for patient clients: of the requests with one key, the      *)
(* handler runs for one until the key's entry expires, although look-up,   *)
(* eviction and store are separate critical sections.                      *)
THEOREM RunsOnce == Spec => []PatientRunsOnce
<1>1. KeyInv => PatientRunsOnce
  BY DEF KeyInv
<1> QED
  BY <1>1, KeyInvariance, PTL

(* Such clients get one answer to one key and body until it expires. *)
THEOREM AnswerKept == Spec => []SameAnswer
<1>1. KeyInv => SameAnswer
  BY DEF KeyInv
<1> QED
  BY <1>1, KeyInvariance, PTL

(* The 409 of a reused key is given only when another body did run under   *)
(* that key, however requests interleave.                                  *)
THEOREM ConflictsTrue == Spec => []ConflictOnlyOnReuse
<1>1. KeyInv => ConflictOnlyOnReuse
  <2> SUFFICES ASSUME KeyInv, NEW r \in Requests, at[r] = "answered", response[r].code = "conflict"
               PROVE  \E q \in ran : SameKey(q, r) /\ sent[q].body # sent[r].body
    BY DEF ConflictOnlyOnReuse
  <2>1. r \notin ran
    BY RanCodes DEF KeyInv
  <2>2. Failure(400, "unreadable").code = "unreadable"
    BY DEF Failure
  <2>3. \A q \in ran : at[q] = "answered" => response[q].code # "conflict"
    BY RanCodes DEF KeyInv
  <2> QED
    BY <2>1, <2>2, <2>3 DEF KeyInv, AnsweredRight
<1> QED
  BY <1>1, KeyInvariance, PTL

(* A replayed answer was written by a handler for the same key and body. *)
THEOREM ReplaysTrue == Spec => []ReplayHasOrigin
<1>1. KeyInv => ReplayHasOrigin
  BY DEF KeyInv, AnsweredRight, ReplayHasOrigin, Failure
<1> QED
  BY <1>1, KeyInvariance, PTL

(* No step replaces or removes the entry of a patient key within its 24    *)
(* hours.                                                                  *)
THEOREM EntryKept == Spec => PatientEntryKept
<1>1. KeyInv /\ [Next]_hvars =>
        [\A k \in Keys \ rushed : Fresh(k) =>
            entries'[k] \in {entries[k], [entries[k] EXCEPT !.expired = TRUE]}]_hvars
  <2> SUFFICES ASSUME KeyInv, Next, NEW k \in Keys \ rushed, Fresh(k), entries'[k] # entries[k]
               PROVE  entries'[k] = [entries[k] EXCEPT !.expired = TRUE]
    OBVIOUS
  <2>1. ASSUME NEW r \in Requests, Send(r)
        PROVE  FALSE
    BY <2>1 DEF Send
  <2>2. ASSUME NEW r \in Requests, Step(r)
        PROVE  FALSE
    <3>1. MiddlewareStep(r)
      BY <2>2, StepIsMiddlewareStep DEF KeyInv
    <3>2. Uses(r, k) /\ at[r] \in {"evicting", "written"}
      BY <3>1, EntryTouched DEF Evicts, Stores
    <3>3. EntryFits(r, k)
      BY <3>2 DEF KeyInv, PatientRight
    <3> QED
      BY <3>2, <3>3 DEF EntryFits, Fresh
  <2>3. ASSUME NEW j \in Keys, Expire(j)
        PROVE  entries'[k] = [entries[k] EXCEPT !.expired = TRUE]
    <3>1. entries' = [entries EXCEPT ![j] = [entries[j] EXCEPT !.expired = TRUE]]
      BY <2>3 DEF Expire
    <3> QED
      BY <3>1 DEF KeyInv, HttpInv, TypeOK
  <2>4. CASE Done
    BY <2>4 DEF Done, hvars
  <2> QED
    BY <2>1, <2>2, <2>3, <2>4 DEF Next
<1> QED
  BY <1>1, KeyInvariance, PTL DEF Spec, PatientEntryKept

-----------------------------------------------------------------------------

(***************************************************************************)
(* HttpApi implements IdempotentApi.                                       *)
(***************************************************************************)

(* What a handler wrote is a response. *)
AllWritten ==
    \A r \in ran : at[r] \in {"written", "answered"} => response[r] \in Response

LEMMA Written == HttpInv => AllWritten
<1> SUFFICES ASSUME HttpInv, NEW r \in ran, at[r] \in {"written", "answered"}
             PROVE  response[r] \in Response
  BY DEF AllWritten
<1>1. r \in Requests /\ ResponseRight(r)
  BY DEF HttpInv, TypeOK, Wired, RequestRight
<1> QED
  BY <1>1, Answers, OutcomeType DEF ResponseRight

LEMMA WrittenNext == HttpInv' => AllWritten'
  BY Written, PTL

(* What a step for r changes of what clients can tell. *)
LEMMA Told ==
    ASSUME HttpInv, NEW r \in Requests, MiddlewareStep(r), HttpInv'
    PROVE  /\ r \in Waiting
           /\ Waiting' = IF at'[r] = "answered" THEN Waiting \ {r} ELSE Waiting
           /\ Begun' = IF Keyed(r) /\ r \in ran' THEN Begun \cup {r} ELSE Begun
           /\ Got' = [Got EXCEPT ![r] = Got'[r]]
           /\ IF at'[r] = "answered" THEN Got'[r] = response'[r] ELSE Got' = Got
           /\ UNCHANGED <<sent, rushed>>
<1>1. /\ InFlight(r) /\ sent' = sent /\ rushed' = rushed
      /\ \A q \in Requests \ {r} : /\ at'[q] = at[q] /\ response'[q] = response[q]
                                   /\ q \in ran' <=> q \in ran
  BY DEF MiddlewareStep, OthersStay
<1>2. ran \subseteq Requests /\ ran' \subseteq Requests
  BY DEF HttpInv, TypeOK
<1>3. r \in Waiting /\ Waiting' = IF at'[r] = "answered" THEN Waiting \ {r} ELSE Waiting
  <2>1. at'[r] # "unsent"
    BY <1>1 DEF InFlight, HttpInv, Wired, RequestRight, PlaceRight
  <2> QED
    BY <1>1, <2>1 DEF Waiting, InFlight
<1>4. \A q : Keyed(q)' <=> Keyed(q)
  BY <1>1 DEF Keyed
<1>5. Begun' = IF Keyed(r) /\ r \in ran' THEN Begun \cup {r} ELSE Begun
  <2>1. r \in ran => r \in ran'
    BY <1>1 DEF MiddlewareStep, Unkeyed, KeyStep, Unread, Misses, FindsOld, FindsOther, FindsOwn,
                Evicts, GoesOn, Stores, LooksUp, Begins, Answered
  <2> QED
    BY <1>1, <1>2, <1>4, <2>1 DEF Begun
<1>6. /\ Got' = [Got EXCEPT ![r] = Got'[r]]
      /\ IF at'[r] = "answered" THEN Got'[r] = response'[r] ELSE Got' = Got
  BY <1>1 DEF Got, InFlight
<1> QED
  BY <1>1, <1>3, <1>5, <1>6

(* A key keeps what its entry says, until that has expired. *)
LEMMA KeptShapes ==
    \A k \in Keys :
        /\ Fresh(k) => Kept[k] = {[body |-> entries[k].body, response |-> entries[k].response]}
        /\ ~ Fresh(k) => Kept[k] = {}
  BY DEF Kept

LEMMA KeptShapesNext ==
    \A k \in Keys :
        /\ Fresh(k)' => Kept'[k] = {[body |-> entries'[k].body, response |-> entries'[k].response]}
        /\ ~ Fresh(k)' => Kept'[k] = {}
  BY DEF Kept

(* Only the key whose entry changes may keep something else. *)
LEMMA KeptElsewhere ==
    ASSUME NEW k \in Keys, \A j \in Keys \ {k} : entries'[j] = entries[j]
    PROVE  Kept' = [Kept EXCEPT ![k] = Kept'[k]]
  BY DEF Kept, Fresh

LEMMA KeptSame ==
    ASSUME entries' = entries
    PROVE  Kept' = Kept
  BY DEF Kept, Fresh

(* A request that has not begun, under a patient key, is the only one that *)
(* could be running.                                                       *)
LEMMA NobodyRuns ==
    ASSUME KeyInv, NEW r \in Requests, r \in Waiting \ Begun, NEW k \in Keys \ rushed, Uses(r, k)
    PROVE  \A q \in Begun \cap Waiting : sent[q].key # k
<1> SUFFICES ASSUME NEW q \in Begun \cap Waiting, sent[q].key = k PROVE FALSE
  OBVIOUS
<1>1. q \in Requests /\ InFlight(q) /\ InFlight(r) /\ sent[r].key = k /\ q # r
  BY DEF Waiting, Uses
<1> QED
  BY <1>1 DEF KeyInv, PatientRight, Alone

(* Each step of a goroutine is a step of the promise, or tells nothing. *)
LEMMA StepKeepsPromise ==
    ASSUME KeyInv, NEW r \in Requests, Step(r)
    PROVE  IA!Next \/ UNCHANGED IA!vars
<1>1. HttpInv /\ HttpInv' /\ MiddlewareStep(r)
  BY StepWired, StepIsMiddlewareStep DEF KeyInv
<1>2. /\ r \in Waiting
      /\ Waiting' = IF at'[r] = "answered" THEN Waiting \ {r} ELSE Waiting
      /\ Begun' = IF Keyed(r) /\ r \in ran' THEN Begun \cup {r} ELSE Begun
      /\ Got' = [Got EXCEPT ![r] = Got'[r]]
      /\ IF at'[r] = "answered" THEN Got'[r] = response'[r] ELSE Got' = Got
      /\ UNCHANGED <<sent, rushed>>
  BY <1>1, Told
<1>3. PlaceRight(r) /\ PlaceRight(r)'
  BY <1>1 DEF HttpInv, Wired, RequestRight
<1>4. Keyed(r) <=> IA!Keyed(r)
  BY DEF Keyed, IA!Keyed
<1>5. at'[r] = "answered" /\ ~ (Keyed(r) /\ r \in ran' /\ r \notin ran) => IA!Reply(r)
  <2>1. Keyed(r) /\ r \in ran => Begun \cup {r} = Begun
    BY DEF Begun
  <2> QED
    BY <1>2, <2>1 DEF IA!Reply
<1>6. CASE Unkeyed(r)
  <2>1. ~ Keyed(r) /\ Kept' = Kept /\ Begun' = Begun
    BY <1>2, <1>6, KeptSame DEF Unkeyed
  <2>2. CASE at'[r] = "answered"
    <3>1. r \in ran'
      BY <1>2, <1>3, <2>1, <2>2 DEF PlaceRight, Keyed
    <3>2. response'[r] \in Response
      BY <1>1, <2>2, <3>1, WrittenNext DEF AllWritten
    <3>3. IA!Plain(r)
      BY <1>2, <1>4, <2>1, <2>2, <3>2 DEF IA!Plain
    <3> QED
      BY <1>5, <2>1, <2>2, <3>3 DEF IA!Next
  <2>3. CASE at'[r] # "answered"
    BY <1>2, <2>1, <2>3 DEF IA!vars
  <2> QED
    BY <2>2, <2>3
<1>7. ASSUME NEW k \in Keys, Uses(r, k), KeyStep(r, k),
             \A j \in Keys \ {k} : entries'[j] = entries[j]
      PROVE  IA!Next \/ UNCHANGED IA!vars
  <2>1. Keyed(r) /\ IA!Keyed(r) /\ sent[r].key = k
    BY <1>4, <1>7 DEF Uses
  <2>2. r \in ran <=> r \in Begun
    BY <2>1 DEF Begun
  <2>3. at[r] \in {"received", "evicting"} => r \notin ran
    BY <1>3 DEF PlaceRight
  <2>4. Kept' = [Kept EXCEPT ![k] = Kept'[k]]
    BY <1>7, KeptElsewhere
  <2>5. k \notin rushed => EntryFits(r, k)
    BY <1>7 DEF KeyInv, PatientRight
  <2>6. k \notin rushed /\ r \notin Begun => \A q \in IA!Running : sent[q].key # k
    BY <1>2, <1>7, NobodyRuns DEF IA!Running
  <2>7. CASE Unread(r)
    <3>1. IA!Unread(r)
      BY <1>2, <2>1, <2>2, <2>3, <2>7, KeptSame DEF IA!Unread, Unread, Answered
    <3> QED
      BY <1>5, <2>7, <3>1 DEF IA!Next, Unread, Answered
  <2>8. CASE Misses(r, k)
    <3>1. Kept[k] = {} /\ Kept' = Kept
      BY <2>8, KeptShapes, KeptSame DEF Misses, LooksUp, Fresh
    <3>2. /\ r \notin Begun /\ Begun' = Begun \cup {r}
          /\ UNCHANGED <<sent, Waiting, Got, rushed>>
      BY <1>2, <2>1, <2>2, <2>3, <2>8 DEF Misses, LooksUp, Begins
    <3>3. IA!Begin(r)
      BY <1>2, <2>1, <2>6, <3>1, <3>2 DEF IA!Begin
    <3> QED
      BY <3>3 DEF IA!Next
  <2>9. CASE FindsOld(r, k)
    BY <1>2, <2>2, <2>3, <2>9, KeptSame DEF IA!vars, FindsOld, LooksUp
  <2>10. CASE FindsOther(r, k) \/ FindsOwn(r, k)
    <3>1. /\ Fresh(k) /\ Kept' = Kept /\ at[r] = "received"
          /\ at'[r] = "answered" /\ ran' = ran
          /\ response'[r] = IF entries[k].body = sent[r].body THEN entries[k].response
                            ELSE Failure(409, "conflict")
      BY <2>10, KeptSame DEF FindsOther, FindsOwn, LooksUp, Answered
    <3>2. [body |-> entries[k].body, response |-> entries[k].response] \in Kept[k]
      BY <3>1, KeptShapes
    <3>3. IA!Replay(r)
      BY <1>2, <2>1, <2>2, <2>3, <3>1, <3>2 DEF IA!Replay
    <3> QED
      BY <1>5, <3>1, <3>3 DEF IA!Next
  <2>11. CASE Evicts(r, k)
    <3>1. Kept' = [Kept EXCEPT ![k] = {}]
      BY <2>4, <2>11, KeptShapesNext DEF Evicts, Fresh
    <3>2. /\ r \notin Begun /\ Begun' = Begun \cup {r}
          /\ UNCHANGED <<sent, Waiting, Got, rushed>>
      BY <1>2, <2>1, <2>2, <2>3, <2>11 DEF Evicts, Begins
    <3>3. CASE k \in rushed
      BY <1>2, <2>1, <3>1, <3>2, <3>3 DEF IA!Begin, IA!Next
    <3>4. CASE k \notin rushed
      <4>1. Kept[k] = {}
        BY <2>5, <2>11, <3>4, KeptShapes DEF EntryFits, Evicts, Fresh
      <4>2. Kept' = Kept
        BY <3>1, <4>1 DEF Kept
      <4> QED
        BY <1>2, <2>1, <2>6, <3>2, <3>4, <4>1, <4>2 DEF IA!Begin, IA!Next
    <3> QED
      BY <3>3, <3>4
  <2>12. CASE GoesOn(r)
    <3>1. Begun \cup {r} = Begun
      BY <1>3, <2>2, <2>12 DEF PlaceRight, GoesOn
    <3> QED
      BY <1>2, <2>12, <3>1, KeptSame DEF IA!vars, GoesOn
  <2>13. CASE Stores(r, k)
    <3>1. /\ at[r] = "written" /\ at'[r] = "answered" /\ ran' = ran
          /\ entries'[k] = [body |-> sent[r].body, response |-> response[r], expired |-> FALSE]
          /\ entries'[k] \in Entry /\ response'[r] = response[r]
      BY <2>13 DEF Stores
    <3>2. r \in ran /\ response[r] \in Response
      BY <1>1, <1>3, <3>1, Written DEF PlaceRight, AllWritten
    <3>3. Fresh(k)' /\ entries'[k].body = sent[r].body /\ entries'[k].response = response[r]
      <4>1. entries'[k] # NoEntry
        BY <3>1, NothingAssumption
      <4>2. ~ entries'[k].expired /\ entries'[k].body = sent[r].body /\ entries'[k].response = response[r]
        BY <3>1
      <4> QED
        BY <4>1, <4>2 DEF Fresh
    <3>4. Kept'[k] = {[body |-> sent[r].body, response |-> response[r]]}
      BY <3>3, KeptShapesNext
    <3>5. IA!Complete(r)
      BY <1>2, <2>1, <2>2, <2>4, <3>1, <3>2, <3>4 DEF IA!Complete
    <3> QED
      BY <1>5, <3>1, <3>2, <3>5 DEF IA!Next
  <2> QED
    BY <1>7, <2>7, <2>8, <2>9, <2>10, <2>11, <2>12, <2>13 DEF KeyStep
<1> QED
  BY <1>1, <1>6, <1>7 DEF MiddlewareStep

(* A request that comes in is asked. *)
LEMMA SendAsks ==
    ASSUME KeyInv, NEW r \in Requests, Send(r)
    PROVE  IA!Ask(r)
<1>1. PICK x \in Offered :
        /\ rushed' = IF \E q \in Requests : InFlight(q) /\ sent[q].key = x.key
                      THEN rushed \cup ({x.key} \ {NoKey}) ELSE rushed
        /\ sent' = [sent EXCEPT ![r] = x]
  BY DEF Send
<1>2. /\ at[r] = "unsent" /\ at' = [at EXCEPT ![r] = "received"]
      /\ UNCHANGED <<entries, response, ran>>
  BY DEF Send
<1>3. /\ sent[r] = NoRequest /\ r \notin ran
      /\ at'[r] = "received" /\ \A q \in Requests \ {r} : at'[q] = at[q] /\ sent'[q] = sent[q]
      /\ ran \subseteq Requests
  BY <1>1, <1>2 DEF KeyInv, HttpInv, TypeOK, Wired, RequestRight, PlaceRight
<1>4. Waiting' = Waiting \cup {r}
  BY <1>3 DEF Waiting, InFlight
<1>5. Begun' = Begun
  BY <1>2, <1>3 DEF Begun, Keyed
<1>6. Got' = Got /\ Kept' = Kept
  BY <1>2, <1>3, KeptSame DEF Got
<1>7. (\E q \in Requests : InFlight(q) /\ sent[q].key = x.key) <=> \E q \in Waiting : sent[q].key = x.key
  BY DEF Waiting
<1> QED
  BY <1>1, <1>3, <1>4, <1>5, <1>6, <1>7 DEF IA!Ask

(* An entry that grows old is forgotten. *)
LEMMA ExpireForgets ==
    ASSUME KeyInv, NEW k \in Keys, Expire(k)
    PROVE  IA!Forget(k)
<1>1. /\ Fresh(k)
      /\ \A r \in Requests : Uses(r, k) => at[r] \in {"received", "answered"}
      /\ entries' = [entries EXCEPT ![k] = [entries[k] EXCEPT !.expired = TRUE]]
      /\ UNCHANGED <<sent, at, response, ran, rushed>>
  BY DEF Expire, Uses, Fresh
<1>2. Kept[k] # {}
  BY <1>1, KeptShapes
<1>3. ~ Fresh(k)' /\ \A j \in Keys \ {k} : entries'[j] = entries[j]
  BY <1>1 DEF KeyInv, HttpInv, TypeOK, Entry, Fresh
<1>4. Kept' = [Kept EXCEPT ![k] = {}]
  BY <1>3, KeptElsewhere, KeptShapesNext
<1>5. ASSUME NEW q \in IA!Running, sent[q].key = k
      PROVE  FALSE
  <2>1. q \in Requests /\ InFlight(q) /\ q \in ran /\ Uses(q, k)
    BY <1>5 DEF IA!Running, Waiting, Begun, Uses
  <2> QED
    BY <1>1, <2>1 DEF InFlight, KeyInv, HttpInv, Wired, RequestRight, PlaceRight
<1>6. UNCHANGED <<sent, Waiting, Begun, Got, rushed>>
  BY <1>1 DEF Waiting, InFlight, Begun, Keyed, Got
<1> QED
  BY <1>2, <1>4, <1>5, <1>6 DEF IA!Forget

(* The middleware keeps the promise of the Idempotency-Key header, however *)
(* many requests, keys and bodies there are and however its three critical *)
(* sections interleave: one execution and one answer per key and body      *)
(* until it is forgotten, to all who wait for an answer.                   *)
THEOREM PromiseKept == Spec => ImplementsIdempotentApi
<1>1. Init => IA!Init
  <2> SUFFICES ASSUME Init PROVE IA!Init
    OBVIOUS
  <2>1. Waiting = {} /\ Begun = {}
    BY DEF Init, Waiting, InFlight, Begun
  <2>2. Got = [r \in Requests |-> NoResponse] /\ Kept = [k \in Keys |-> {}]
    BY DEF Init, Got, Kept, Fresh
  <2> QED
    BY <2>1, <2>2 DEF Init, IA!Init
<1>2. KeyInv /\ [Next]_hvars => [IA!Next]_(IA!vars)
  <2>1. ASSUME UNCHANGED hvars PROVE UNCHANGED IA!vars
    BY <2>1 DEF hvars, IA!vars, Waiting, InFlight, Begun, Keyed, Got, Kept, Fresh
  <2>2. ASSUME KeyInv, NEW r \in Requests, Send(r) PROVE IA!Next
    BY <2>2, SendAsks DEF IA!Next
  <2>3. ASSUME KeyInv, NEW k \in Keys, Expire(k) PROVE IA!Next
    BY <2>3, ExpireForgets DEF IA!Next
  <2> QED
    BY <2>1, <2>2, <2>3, StepKeepsPromise DEF Next, Done
<1> QED
  BY <1>1, <1>2, KeyInvariance, PTL DEF Spec, ImplementsIdempotentApi, IA!Spec

=============================================================================

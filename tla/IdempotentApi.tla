---------------------------- MODULE IdempotentApi ----------------------------
(***************************************************************************)
(* What the Idempotency-Key header promises the clients of the API, with   *)
(* no entries that are looked up, evicted and stored one after another: a  *)
(* key keeps one body and the answer to it, until that is forgotten.  A    *)
(* request whose key keeps something is answered from it and not executed; *)
(* one is executed only if its key keeps nothing and no other request with *)
(* that key is being executed.  Only keys that were sent again before the  *)
(* answer came are without that last promise.                              *)
(***************************************************************************)

CONSTANTS
    Requests, Keys, Offered,
    Wrapped,            \* the routes that honour a key
    NoKey, NoRequest,
    Answers, NoAnswer,
    Unreadable,         \* the answer to a body that cannot be read
    Conflict            \* the answer to a key used with another body

VARIABLES
    sent,       \* what each request asks for
    pending,    \* the requests without an answer
    begun,      \* the requests with a key that were executed, or are
    answer,     \* what each request was answered
    kept,       \* what each key keeps: a body and its answer, or nothing
    rushed      \* the keys sent again before the answer to them came

vars == <<sent, pending, begun, answer, kept, rushed>>

-----------------------------------------------------------------------------

Keyed(r) == sent[r] # NoRequest /\ sent[r].op \in Wrapped /\ sent[r].key # NoKey

(* The requests being executed. *)
Running == begun \cap pending

Init == /\ sent = [r \in Requests |-> NoRequest]
        /\ pending = {}
        /\ begun = {}
        /\ answer = [r \in Requests |-> NoAnswer]
        /\ kept = [k \in Keys |-> {}]
        /\ rushed = {}

Ask(r) == /\ sent[r] = NoRequest
          /\ pending' = pending \cup {r}
          /\ \E x \in Offered :
                /\ sent' = [sent EXCEPT ![r] = x]
                /\ rushed' = IF \E q \in pending : sent[q].key = x.key
                             THEN rushed \cup ({x.key} \ {NoKey}) ELSE rushed
          /\ UNCHANGED <<begun, answer, kept>>

(* A request is executed. *)
Begin(r) == /\ Keyed(r) /\ r \in pending \ begun
            /\ begun' = begun \cup {r}
            /\ \/ /\ kept[sent[r].key] = {}
                  /\ \A q \in Running : sent[q].key # sent[r].key
                  /\ UNCHANGED kept
               \/ /\ sent[r].key \in rushed
                  /\ kept' \in {kept, [kept EXCEPT ![sent[r].key] = {}]}
            /\ UNCHANGED <<sent, pending, answer, rushed>>

(* Request r, and no other, is answered. *)
Reply(r) == /\ r \in pending
            /\ pending' = pending \ {r}
            /\ answer' = [answer EXCEPT ![r] = answer'[r]]
            /\ UNCHANGED <<sent, begun, rushed>>

(* What it is answered: anything, if no key is honoured; *)
Plain(r) == /\ ~ Keyed(r)
            /\ answer'[r] \in Answers
            /\ UNCHANGED kept

Unread(r) == /\ Keyed(r) /\ r \notin begun
             /\ answer'[r] = Unreadable
             /\ UNCHANGED kept

(* what its key keeps, if that is for the same body; *)
Replay(r) == /\ Keyed(r) /\ r \notin begun
             /\ \E e \in kept[sent[r].key] :
                    answer'[r] = IF e.body = sent[r].body THEN e.response ELSE Conflict
             /\ UNCHANGED kept

(* or the outcome of its execution, which its key keeps from now on. *)
Complete(r) ==
    /\ r \in begun
    /\ answer'[r] \in Answers
    /\ kept' = [kept EXCEPT ![sent[r].key] = {[body |-> sent[r].body, response |-> answer'[r]]}]

Forget(k) == /\ kept[k] # {}
             /\ \A q \in Running : sent[q].key # k
             /\ kept' = [kept EXCEPT ![k] = {}]
             /\ UNCHANGED <<sent, pending, begun, answer, rushed>>

Next == \/ \E r \in Requests : \/ Ask(r) \/ Begin(r)
                               \/ Reply(r) /\ (Plain(r) \/ Unread(r) \/ Replay(r) \/ Complete(r))
        \/ \E k \in Keys : Forget(k)

Spec == Init /\ [][Next]_vars
=============================================================================

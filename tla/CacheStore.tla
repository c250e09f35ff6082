------------------------------ MODULE CacheStore ------------------------------
(***************************************************************************)
(* What the AtomicCacheStore interface (provider/cache/cache.go) promises, *)
(* with no expiry times, no locks and no eviction: a key has one value or  *)
(* none and may lose it at any time, for a cache may forget; a Set takes   *)
(* effect at one moment of the call, a Get answers what the key had at one *)
(* moment of the call, and a CompareAndSet compares and sets at one        *)
(* moment.  A key set from nil has one owner, until it is set, lost or     *)
(* swapped again.  Nil matches the empty value.                            *)
(***************************************************************************)

CONSTANTS Clients, CacheKeys, Values, Empty, Nil

VARIABLES
    value,      \* the value of each key, {} if it has none
    setting,    \* the key and value each client's Set is about to store
    reading,    \* what each client's Get is about to return
    owners      \* who set each key with CompareAndSet and may think it is his

vars == <<value, setting, reading, owners>>

-----------------------------------------------------------------------------

Init == /\ value = [k \in CacheKeys |-> {}]
        /\ setting = [c \in Clients |-> {}]
        /\ reading = [c \in Clients |-> {}]
        /\ owners = [k \in CacheKeys |-> {}]

(* Key k gets the values V, and the owners O. *)
Put(k, V, O) == /\ value' = [value EXCEPT ![k] = V]
                /\ owners' = [owners EXCEPT ![k] = O]

SetBegins(c, k, v) == /\ setting[c] = {}
                      /\ setting' = [setting EXCEPT ![c] = {[key |-> k, value |-> v]}]
                      /\ UNCHANGED <<value, reading, owners>>

(* What is stored may have expired on its way. *)
SetStores(c) == /\ \E x \in setting[c] : \E V \in {{x.value}, {}} : Put(x.key, V, {})
                /\ setting' = [setting EXCEPT ![c] = {}]
                /\ UNCHANGED reading

GetReads(c, k) == /\ reading[c] = {} /\ value[k] # {}
                  /\ reading' = [reading EXCEPT ![c] = value[k]]
                  /\ UNCHANGED <<value, setting, owners>>

GetReturns(c) == /\ reading[c] # {}
                 /\ reading' = [reading EXCEPT ![c] = {}]
                 /\ UNCHANGED <<value, setting, owners>>

Matches(k, old) == \/ value[k] = {} /\ old = Nil
                   \/ \E v \in value[k] : v = old \/ {v, old} \subseteq {Empty, Nil}

Swap(c, k, old, new) == /\ Matches(k, old)
                        /\ Put(k, {new}, IF new = Empty THEN {} ELSE {c})
                        /\ UNCHANGED <<setting, reading>>

(* The values of the keys S are gone, be they deleted, expired or evicted, *)
(* and those that the clients C have read have expired meanwhile.          *)
Lose(S, C) == /\ value' = [k \in CacheKeys |-> IF k \in S THEN {} ELSE value[k]]
              /\ owners' = [k \in CacheKeys |-> IF k \in S THEN {} ELSE owners[k]]
              /\ reading' = [c \in Clients |-> IF c \in C THEN {} ELSE reading[c]]
              /\ UNCHANGED setting

Next == \/ \E c \in Clients : SetStores(c) \/ GetReturns(c)
        \/ \E c \in Clients, k \in CacheKeys :
            \/ GetReads(c, k)
            \/ \E v \in Values : SetBegins(c, k, v)
            \/ \E old \in Values \cup {Nil}, new \in Values : Swap(c, k, old, new)
        \/ \E S \in SUBSET CacheKeys, C \in SUBSET Clients : Lose(S, C)

Spec == Init /\ [][Next]_vars
=============================================================================

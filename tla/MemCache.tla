------------------------------- MODULE MemCache -------------------------------
(***************************************************************************)
(* The in-memory CacheStore (provider/cache/memcache) and its clients.     *)
(* Delete and CompareAndSet hold the lock from beginning to end.  Set      *)
(* computes the expiry time before it takes the lock.  Get copies the entry *)
(* under a read lock, compares the copy with the clock after the lock is   *)
(* released and, if it has expired, comes back with the write lock to      *)
(* delete the key; other calls run in between.                             *)
(*                                                                         *)
(* Time is relative: an entry's left field is expiresAt - now, kept at     *)
(* Over once it has passed; Forever stands for the zero expiresAt.  A      *)
(* value may be written again, so that a key may come to have the value it *)
(* had before.                                                             *)
(***************************************************************************)
EXTENDS Integers, FiniteSets

CONSTANTS
    Clients,
    CacheKeys,
    Values,     \* byte slices to store
    Empty,      \* the empty, non-nil slice, which may be among them
    Nil,        \* the nil slice: "no value" as CompareAndSet's old
    Absent,     \* what the map holds for a key it does not have
    MaxTTL,     \* bound: longest time to live, in ticks
    MaxWrites   \* bound: how often a value is written

ASSUME SlicesAssumption == Nil \notin Values \cup {Empty}
ASSUME TTLAssumption == MaxTTL \in Nat \ {0}
ASSUME WritesAssumption == MaxWrites \in Nat

VARIABLES
    entries,    \* Store.entries
    got,        \* per client: the key and entry its Get has read
    pending,    \* per client: the key and entry its Set is about to store
    written,    \* ghost: how often each value was written
    swapped,    \* ghost: how often CompareAndSet was asked to replace each
                \* value and did
    grant       \* ghost: how long each client may think a key is its own

vars == <<entries, got, pending, written, swapped, grant>>

-----------------------------------------------------------------------------

Over == -1
Forever == MaxTTL + 1
Lifetimes == Over .. Forever

(* What a caller may ask for. *)
TTLs == -1 .. MaxTTL

Entry == [value : Values, left : Lifetimes]

(* A call under way, with the entry it works on. *)
Copy == [key : CacheKeys, entry : Entry]

ASSUME AbsentAssumption == Absent \notin Entry \cup Copy

TTLAsGiven(ttl) == ttl

(* A time to live of zero, or a negative one, never runs out. *)
Lifetime(ttl) == IF ttl > 0 THEN ttl ELSE Forever

(* !expiresAt.IsZero() && time.Now().After(expiresAt) *)
Expired(e) == e.left # Forever /\ e.left < 0

(* bytes.Equal does not tell nil from empty. *)
BytesEqual(a, b) == a = b \/ {a, b} \subseteq {Nil, Empty}

Init == /\ entries = [k \in CacheKeys |-> Absent]
        /\ got = [c \in Clients |-> Absent]
        /\ pending = [c \in Clients |-> Absent]
        /\ written = [v \in Values |-> 0]
        /\ swapped = [v \in Values |-> 0]
        /\ grant = [c \in Clients |-> [k \in CacheKeys |-> Over]]

(* Client c is in the middle of no call. *)
Free(c) == got[c] = Absent /\ pending[c] = Absent

(* What a client that takes a key for ttl is promised, which is a ghost:   *)
(* the time to live it asked for, and "zero means the entry never expires".*)
Promised(ttl) == IF ttl > 0 THEN ttl ELSE Forever

(* Nobody may think any longer that key k is its own. *)
Revoked(k) == [c \in Clients |-> [grant[c] EXCEPT ![k] = Over]]

-----------------------------------------------------------------------------

(* Get finds no entry: ErrCacheMiss. *)
GetMisses(c, k) == /\ Free(c)
                   /\ entries[k] = Absent
                   /\ UNCHANGED vars

GetReadsUnchecked(c, k) ==
    /\ Free(c)
    /\ got' = [got EXCEPT ![c] = [key |-> k, entry |->
                IF entries[k] = Absent THEN [value |-> Nil, left |-> Forever] ELSE entries[k]]]
    /\ UNCHANGED <<entries, pending, written, swapped, grant>>

(* Get copies the entry and releases the read lock ... *)
GetReads(c, k) == /\ Free(c)
                  /\ entries[k] # Absent
                  /\ got' = [got EXCEPT ![c] = [key |-> k, entry |-> entries[k]]]
                  /\ UNCHANGED <<entries, pending, written, swapped, grant>>

(* ... returns the value ... *)
GetReturns(c) == /\ got[c] # Absent
                 /\ ~ Expired(got[c].entry)
                 /\ got' = [got EXCEPT ![c] = Absent]
                 /\ UNCHANGED <<entries, pending, written, swapped, grant>>

(* ... or, if the copy has expired, deletes the key, whatever entry it has *)
(* by now.  What has expired stays so, hence it does not matter that the   *)
(* clock is read before the lock is taken.                                 *)
GetEvicts(c) == /\ got[c] # Absent
                /\ Expired(got[c].entry)
                /\ entries' = [entries EXCEPT ![got[c].key] = Absent]
                /\ got' = [got EXCEPT ![c] = Absent]
                /\ grant' = Revoked(got[c].key)
                /\ UNCHANGED <<pending, written, swapped>>

(* Set copies the value and reads the clock ... *)
SetPrepares(c, k, v, ttl) ==
    /\ Free(c)
    /\ written[v] < MaxWrites
    /\ pending' = [pending EXCEPT ![c] =
            [key |-> k, entry |-> [value |-> v, left |-> Lifetime(ttl)]]]
    /\ written' = [written EXCEPT ![v] = @ + 1]
    /\ UNCHANGED <<entries, got, swapped, grant>>

(* ... and stores the entry under the lock. *)
SetStores(c) ==
    /\ pending[c] # Absent
    /\ entries' = [entries EXCEPT ![pending[c].key] = pending[c].entry]
    /\ pending' = [pending EXCEPT ![c] = Absent]
    /\ grant' = Revoked(pending[c].key)
    /\ UNCHANGED <<got, written, swapped>>

Delete(c, k) == /\ Free(c)
                /\ entries' = [entries EXCEPT ![k] = Absent]
                /\ grant' = Revoked(k)
                /\ UNCHANGED <<got, pending, written, swapped>>

SwapsAnything(k, old) == TRUE

(* CompareAndSet's comparison: an entry that is absent or has expired      *)
(* matches nil, a live one matches an equal value.                         *)
Swaps(k, old) == IF entries[k] = Absent \/ Expired(entries[k]) THEN old = Nil
                 ELSE BytesEqual(entries[k].value, old)

CompareAndSet(c, k, old, new, ttl) ==
    /\ Free(c)
    /\ written[new] < MaxWrites
    /\ Swaps(k, old)
    /\ entries' = [entries EXCEPT ![k] = [value |-> new, left |-> Lifetime(ttl)]]
    /\ written' = [written EXCEPT ![new] = @ + 1]
    /\ swapped' = [v \in Values |-> IF v = old THEN swapped[v] + 1 ELSE swapped[v]]
    /\ grant' = [IF old = Nil THEN grant ELSE Revoked(k)
                    EXCEPT ![c] = [@ EXCEPT ![k] = IF new = Empty THEN Over ELSE Promised(ttl)]]
    /\ UNCHANGED <<got, pending>>

(* It fails; an expired entry goes all the same. *)
CompareAndSetFails(c, k, old) ==
    /\ Free(c)
    /\ ~ Swaps(k, old)
    /\ entries' = IF entries[k] # Absent /\ Expired(entries[k])
                  THEN [entries EXCEPT ![k] = Absent] ELSE entries
    /\ UNCHANGED <<got, pending, written, swapped, grant>>

Elapsed(d) == IF d \in {Over, Forever} THEN d ELSE d - 1

Aged(e) == [e EXCEPT !.left = Elapsed(@)]

AgedCopy(x) == IF x = Absent THEN Absent ELSE [x EXCEPT !.entry = Aged(@)]

(* Time passes. *)
Tick ==
    /\ entries' = [k \in CacheKeys |-> IF entries[k] = Absent THEN Absent ELSE Aged(entries[k])]
    /\ got' = [c \in Clients |-> AgedCopy(got[c])]
    /\ pending' = [c \in Clients |-> AgedCopy(pending[c])]
    /\ grant' = [c \in Clients |-> [k \in CacheKeys |-> Elapsed(grant[c][k])]]
    /\ UNCHANGED <<written, swapped>>

Next ==
    \/ \E c \in Clients : GetReturns(c) \/ GetEvicts(c) \/ SetStores(c)
    \/ \E c \in Clients, k \in CacheKeys :
        \/ GetMisses(c, k) \/ GetReads(c, k)
        \/ Delete(c, k)
        \/ \E v \in Values, ttl \in TTLs :
            \/ SetPrepares(c, k, v, ttl)
            \/ \E old \in Values \cup {Nil} : CompareAndSet(c, k, old, v, ttl)
        \/ \E old \in Values \cup {Nil} : CompareAndSetFails(c, k, old)
    \/ Tick

Spec == Init /\ [][Next]_vars

-----------------------------------------------------------------------------

TypeOK == /\ entries \in [CacheKeys -> Entry \cup {Absent}]
          /\ got \in [Clients -> Copy \cup {Absent}]
          /\ pending \in [Clients -> Copy \cup {Absent}]
          /\ written \in [Values -> 0 .. MaxWrites]
          /\ swapped \in [Values -> Nat]
          /\ grant \in [Clients -> [CacheKeys -> Lifetimes]]

(* No lost update: of all clients that read a value and try to replace it  *)
(* with CompareAndSet one swappedeeds for each time the value was written,    *)
(* whatever expires, is deleted, evicted late or set meanwhile, and though *)
(* a key may get a value it had before.                                    *)
NoLostUpdate == \A v \in Values : swapped[v] <= written[v]

(* CompareAndSet from nil as a lock: while the time to live a client asked *)
(* for runs and nobody set, deleted or knowingly replaced the key, no      *)
(* other client gets it.  There are two exceptions: a Get that comes late  *)
(* deletes the key, and the empty value is no lock, since CompareAndSet    *)
(* takes it for nil.                                                       *)
LockExclusive ==
    \A k \in CacheKeys : \A c, e \in Clients :
        grant[c][k] > Over /\ grant[e][k] > Over => c = e

(* "A TTL of zero means the entry never expires": only Delete removes it. *)
NeverExpires ==
    [][ (\A c \in Clients, k \in CacheKeys : ~ Delete(c, k)) =>
            \A k \in CacheKeys : entries[k] # Absent /\ entries[k].left = Forever
                => entries'[k] # Absent ]_vars

(* What clients can tell of this state: the values that are there, what    *)
(* calls under way will store and return, and who may think a key his.     *)
Live(e) == e # Absent /\ ~ Expired(e)
Value == [k \in CacheKeys |-> IF Live(entries[k]) THEN {entries[k].value} ELSE {}]
Setting == [c \in Clients |-> IF pending[c] = Absent THEN {}
                ELSE {[key |-> pending[c].key, value |-> pending[c].entry.value]}]
Reading == [c \in Clients |-> IF got[c] # Absent /\ Live(got[c].entry)
                              THEN {got[c].entry.value} ELSE {}]
Owners == [k \in CacheKeys |-> {c \in Clients : grant[c][k] > Over}]

CS == INSTANCE CacheStore WITH
        value <- Value, setting <- Setting, reading <- Reading, owners <- Owners

(* Calls that overlap, with their clocks and their late evictions, are     *)
(* steps of a cache in which each takes effect at one moment.              *)
ImplementsCacheStore == CS!Spec
=============================================================================

--------------------------- MODULE MemCacheProofs ---------------------------
(***************************************************************************)
(* Proofs about MemCache for any number of clients, keys, values and ticks.*)
(***************************************************************************)
EXTENDS MemCache, FiniteSetTheorems, TLAPS

-----------------------------------------------------------------------------

(* What time makes of a lifetime. *)
LEMMA Lives ==
    /\ Over \in Lifetimes /\ Forever \in Lifetimes
    /\ \A ttl \in TTLs : /\ Lifetime(ttl) \in Lifetimes /\ Lifetime(ttl) > Over
                         /\ Promised(ttl) = Lifetime(ttl)
    /\ \A d \in Lifetimes : /\ d \in Int
                            /\ Elapsed(d) \in Lifetimes
                            /\ Elapsed(d) > Over => d > Over
  BY TTLAssumption DEF Lifetimes, Over, Forever, TTLs, Lifetime, Promised, Elapsed

(* What time makes of an entry. *)
LEMMA AgedEntry ==
    ASSUME NEW e \in Entry
    PROVE  /\ Aged(e) \in Entry
           /\ Aged(e).value = e.value
           /\ Aged(e).left = Elapsed(e.left)
<1>1. e.left \in Lifetimes /\ e.value \in Values
  BY DEF Entry
<1>2. Elapsed(e.left) \in Lifetimes
  BY <1>1, Lives
<1> QED
  BY <1>1, <1>2 DEF Aged, Entry

(* What time makes of the copy a call works on. *)
LEMMA AgedCopies ==
    ASSUME NEW x \in Copy \cup {Absent}
    PROVE  /\ AgedCopy(x) \in Copy \cup {Absent}
           /\ x = Absent => AgedCopy(x) = Absent
           /\ x # Absent => /\ AgedCopy(x) # Absent
                            /\ AgedCopy(x).key = x.key
                            /\ AgedCopy(x).entry = Aged(x.entry)
<1>1. CASE x = Absent
  BY <1>1 DEF AgedCopy
<1>2. CASE x # Absent
  <2>1. x \in Copy
    BY <1>2
  <2>2. x.entry \in Entry /\ x.key \in CacheKeys
    BY <2>1 DEF Copy
  <2>3. Aged(x.entry) \in Entry
    BY <2>2, AgedEntry
  <2>4. AgedCopy(x) = [x EXCEPT !.entry = Aged(x.entry)]
    BY <1>2 DEF AgedCopy
  <2>5. AgedCopy(x) \in Copy /\ AgedCopy(x).key = x.key /\ AgedCopy(x).entry = Aged(x.entry)
    BY <2>1, <2>2, <2>3, <2>4 DEF Copy
  <2> QED
    BY <1>2, <2>5, AbsentAssumption
<1> QED
  BY <1>1, <1>2

(* The entries and copies of a well-typed state. *)
LEMMA Present ==
    ASSUME TypeOK
    PROVE  /\ \A k \in CacheKeys : entries[k] # Absent =>
                /\ entries[k] \in Entry
                /\ entries[k].value \in Values /\ entries[k].left \in Lifetimes
           /\ \A c \in Clients : got[c] # Absent =>
                /\ got[c] \in Copy
                /\ got[c].key \in CacheKeys /\ got[c].entry \in Entry
           /\ \A c \in Clients : pending[c] # Absent =>
                /\ pending[c] \in Copy
                /\ pending[c].key \in CacheKeys /\ pending[c].entry \in Entry
                /\ pending[c].entry.value \in Values
  BY DEF TypeOK, Entry, Copy

-----------------------------------------------------------------------------

(***************************************************************************)
(* The inductive invariant.                                                *)
(***************************************************************************)

(* The keys that have value v, and the clients about to set it. *)
Stored(v) == {k \in CacheKeys : entries[k] # Absent /\ entries[k].value = v}
Prepared(v) == {c \in Clients : pending[c] # Absent /\ pending[c].entry.value = v}

(* Every write of a value is about to be stored, is stored under one key,  *)
(* was replaced by a CompareAndSet that asked for it, or is gone.          *)
WritesAccounted ==
    \A v \in Values :
        /\ IsFiniteSet(Stored(v)) /\ IsFiniteSet(Prepared(v))
        /\ Cardinality(Stored(v)) + Cardinality(Prepared(v)) + swapped[v] <= written[v]

(* While a client may think a key its own, the key has an entry with as    *)
(* much time left, and one that CompareAndSet does not take for nil.       *)
GrantBacked ==
    \A c \in Clients, k \in CacheKeys : grant[c][k] > Over =>
        /\ entries[k] # Absent
        /\ entries[k].left = grant[c][k]
        /\ entries[k].value # Empty

CacheInv == /\ TypeOK
            /\ WritesAccounted
            /\ GrantBacked
            /\ LockExclusive

(* Nothing is stored. *)
LEMMA CacheInit == Init => CacheInv
<1> SUFFICES ASSUME Init PROVE CacheInv
  OBVIOUS
<1>1. TypeOK
  BY Lives, WritesAssumption DEF Init, TypeOK
<1>2. WritesAccounted
  <2> SUFFICES ASSUME NEW v \in Values
               PROVE  /\ IsFiniteSet(Stored(v)) /\ IsFiniteSet(Prepared(v))
                      /\ Cardinality(Stored(v)) + Cardinality(Prepared(v)) + swapped[v] <= written[v]
    BY DEF WritesAccounted
  <2>1. Stored(v) = {} /\ Prepared(v) = {} /\ swapped[v] = 0 /\ written[v] = 0
    BY DEF Init, Stored, Prepared
  <2> QED
    BY <2>1, FS_EmptySet
<1>3. \A c \in Clients, k \in CacheKeys : ~ (grant[c][k] > Over)
  BY DEF Init, Over
<1>4. GrantBacked /\ LockExclusive
  BY <1>3 DEF GrantBacked, LockExclusive
<1> QED
  BY <1>1, <1>2, <1>4 DEF CacheInv

-----------------------------------------------------------------------------

(***************************************************************************)
(* Counting.  A set that gains or loses one element at most, and what      *)
(* follows for the sum that WritesAccounted bounds.                        *)
(***************************************************************************)
LEMMA OneMore ==
    ASSUME NEW S, NEW x, IsFiniteSet(S)
    PROVE  /\ IsFiniteSet(S \cup {x}) /\ IsFiniteSet(S \ {x})
           /\ Cardinality(S) \in Nat
           /\ Cardinality(S \cup {x}) \in Nat /\ Cardinality(S \cup {x}) <= Cardinality(S) + 1
           /\ Cardinality(S \ {x}) \in Nat /\ Cardinality(S \ {x}) <= Cardinality(S)
           /\ x \in S => /\ Cardinality(S \cup {x}) = Cardinality(S)
                         /\ Cardinality(S \ {x}) = Cardinality(S) - 1
<1>1. Cardinality(S) \in Nat
  BY FS_CardinalityType
<1>2. /\ IsFiniteSet(S \cup {x})
      /\ Cardinality(S \cup {x}) = IF x \in S THEN Cardinality(S) ELSE Cardinality(S) + 1
  BY FS_AddElement
<1>3. /\ IsFiniteSet(S \ {x})
      /\ Cardinality(S \ {x}) = IF x \in S THEN Cardinality(S) - 1 ELSE Cardinality(S)
  BY FS_RemoveElement
<1>4. Cardinality(S \cup {x}) \in Nat /\ Cardinality(S \ {x}) \in Nat
  BY <1>2, <1>3, FS_CardinalityType
<1> QED
  BY <1>1, <1>2, <1>3, <1>4

(* The account of one value before a step. *)
LEMMA Account ==
    ASSUME CacheInv, NEW v \in Values
    PROVE  /\ IsFiniteSet(Stored(v)) /\ IsFiniteSet(Prepared(v))
           /\ Cardinality(Stored(v)) \in Nat /\ Cardinality(Prepared(v)) \in Nat
           /\ swapped[v] \in Nat /\ written[v] \in Nat
           /\ Cardinality(Stored(v)) + Cardinality(Prepared(v)) + swapped[v] <= written[v]
<1>1. IsFiniteSet(Stored(v)) /\ IsFiniteSet(Prepared(v))
  BY DEF CacheInv, WritesAccounted
<1>2. Cardinality(Stored(v)) \in Nat /\ Cardinality(Prepared(v)) \in Nat
  BY <1>1, FS_CardinalityType
<1> QED
  BY <1>1, <1>2, WritesAssumption DEF CacheInv, WritesAccounted, TypeOK

(* A step that leaves at most the same keys and clients with each value. *)
LEMMA SameAccount ==
    ASSUME CacheInv, UNCHANGED <<written, swapped>>,
           \A v \in Values : /\ Prepared(v)' = Prepared(v)
                             /\ \/ Stored(v)' = Stored(v)
                                \/ \E k \in CacheKeys : Stored(v)' = Stored(v) \ {k}
    PROVE  WritesAccounted'
<1> SUFFICES ASSUME NEW v \in Values
             PROVE  /\ IsFiniteSet(Stored(v)') /\ IsFiniteSet(Prepared(v)')
                    /\ Cardinality(Stored(v)') + Cardinality(Prepared(v)') + swapped'[v] <= written'[v]
  BY DEF WritesAccounted
<1>1. /\ IsFiniteSet(Stored(v)) /\ IsFiniteSet(Prepared(v))
      /\ Cardinality(Stored(v)) \in Nat /\ Cardinality(Prepared(v)) \in Nat
      /\ swapped[v] \in Nat /\ written[v] \in Nat
      /\ Cardinality(Stored(v)) + Cardinality(Prepared(v)) + swapped[v] <= written[v]
  BY Account
<1>2. Prepared(v)' = Prepared(v)
  OBVIOUS
<1>3. /\ IsFiniteSet(Stored(v)') /\ Cardinality(Stored(v)') \in Nat
      /\ Cardinality(Stored(v)') <= Cardinality(Stored(v))
  <2>1. CASE Stored(v)' = Stored(v)
    BY <1>1, <2>1
  <2>2. ASSUME NEW k \in CacheKeys, Stored(v)' = Stored(v) \ {k}
        PROVE  /\ IsFiniteSet(Stored(v)') /\ Cardinality(Stored(v)') \in Nat
               /\ Cardinality(Stored(v)') <= Cardinality(Stored(v))
    <3>1. /\ IsFiniteSet(Stored(v) \ {k}) /\ Cardinality(Stored(v) \ {k}) \in Nat
          /\ Cardinality(Stored(v) \ {k}) <= Cardinality(Stored(v))
      BY <1>1, OneMore
    <3> QED
      BY <2>2, <3>1, Zenon
  <2> QED
    BY <2>1, <2>2
<1> QED
  BY <1>1, <1>2, <1>3

(* Revoking key k takes it from everybody and touches no other key. *)
LEMMA RevokedShape ==
    ASSUME TypeOK, NEW k \in CacheKeys
    PROVE  /\ Revoked(k) \in [Clients -> [CacheKeys -> Lifetimes]]
           /\ \A c \in Clients : Revoked(k)[c][k] = Over
           /\ \A c \in Clients, l \in CacheKeys \ {k} : Revoked(k)[c][l] = grant[c][l]
  BY Lives DEF TypeOK, Revoked

(* A step that leaves the entries, the ghosts and what is about to be      *)
(* stored alone.                                                           *)
LEMMA ReadKeeps ==
    ASSUME CacheInv, got' \in [Clients -> Copy \cup {Absent}],
           UNCHANGED <<entries, pending, written, swapped, grant>>
    PROVE  CacheInv'
<1>1. \A v \in Values : Prepared(v)' = Prepared(v) /\ Stored(v)' = Stored(v)
  BY DEF Prepared, Stored
<1>2. WritesAccounted'
  BY <1>1, SameAccount
<1> QED
  BY <1>2 DEF CacheInv, TypeOK, GrantBacked, LockExclusive

(* A step that removes the entry of key k.  It must revoke the key, unless *)
(* the entry has expired, because then nobody is promised it any longer.   *)
LEMMA RemoveKeeps ==
    ASSUME CacheInv, NEW k \in CacheKeys,
           entries' = [entries EXCEPT ![k] = Absent],
           \/ grant' = Revoked(k)
           \/ grant' = grant /\ entries[k] # Absent /\ Expired(entries[k]),
           got' \in [Clients -> Copy \cup {Absent}],
           UNCHANGED <<pending, written, swapped>>
    PROVE  CacheInv'
<1> USE DEF CacheInv
<1>1. /\ entries'[k] = Absent
      /\ \A l \in CacheKeys \ {k} : entries'[l] = entries[l]
  BY DEF TypeOK
<1>2. /\ grant' \in [Clients -> [CacheKeys -> Lifetimes]]
      /\ \A c \in Clients : ~ (grant'[c][k] > Over)
      /\ \A c \in Clients, l \in CacheKeys \ {k} : grant'[c][l] = grant[c][l]
  <2>1. CASE grant' = Revoked(k)
    BY <2>1, RevokedShape DEF Over
  <2>2. CASE grant' = grant /\ entries[k] # Absent /\ Expired(entries[k])
    <3>1. \A c \in Clients : grant[c][k] \in Int
      BY Lives DEF TypeOK
    <3>2. \A c \in Clients : ~ (grant[c][k] > Over)
      BY <2>2, <3>1 DEF GrantBacked, Expired, Over
    <3> QED
      BY <2>2, <3>2 DEF TypeOK
  <2> QED
    BY <2>1, <2>2
<1>3. TypeOK'
  BY <1>2 DEF TypeOK
<1>4. WritesAccounted'
  <2>1. ASSUME NEW v \in Values PROVE Prepared(v)' = Prepared(v) /\ Stored(v)' = Stored(v) \ {k}
    BY <1>1 DEF Prepared, Stored
  <2> QED
    BY <2>1, SameAccount
<1>5. GrantBacked'
  BY <1>1, <1>2 DEF GrantBacked
<1>6. LockExclusive'
  BY <1>2 DEF LockExclusive
<1> QED
  BY <1>3, <1>4, <1>5, <1>6

(* Get, whether it misses, returns or deletes what has expired. *)
LEMMA GetKeeps ==
    ASSUME CacheInv, NEW c \in Clients,
           \/ \E k \in CacheKeys : GetMisses(c, k) \/ GetReads(c, k)
           \/ GetReturns(c)
           \/ GetEvicts(c)
    PROVE  CacheInv'
<1>1. TypeOK
  BY DEF CacheInv
<1>2. ASSUME NEW k \in CacheKeys, GetMisses(c, k) PROVE CacheInv'
  BY <1>1, <1>2, ReadKeeps DEF GetMisses, vars, TypeOK
<1>3. ASSUME NEW k \in CacheKeys, GetReads(c, k) PROVE CacheInv'
  <2>1. [key |-> k, entry |-> entries[k]] \in Copy
    BY <1>1, <1>3, Present DEF GetReads, Copy
  <2>2. got' \in [Clients -> Copy \cup {Absent}]
    BY <1>1, <1>3, <2>1 DEF GetReads, TypeOK
  <2> QED
    BY <1>3, <2>2, ReadKeeps DEF GetReads
<1>4. CASE GetReturns(c)
  BY <1>1, <1>4, ReadKeeps DEF GetReturns, TypeOK
<1>5. CASE GetEvicts(c)
  <2>1. got[c].key \in CacheKeys
    BY <1>1, <1>5, Present DEF GetEvicts
  <2>2. got' \in [Clients -> Copy \cup {Absent}]
    BY <1>1, <1>5 DEF GetEvicts, TypeOK
  <2> QED
    BY <1>5, <2>1, <2>2, RemoveKeeps DEF GetEvicts
<1> QED
  BY <1>2, <1>3, <1>4, <1>5

(* Delete, and a CompareAndSet that does not match. *)
LEMMA DropKeeps ==
    ASSUME CacheInv, NEW c \in Clients, NEW k \in CacheKeys,
           Delete(c, k) \/ \E old \in Values \cup {Nil} : CompareAndSetFails(c, k, old)
    PROVE  CacheInv'
<1>1. got \in [Clients -> Copy \cup {Absent}]
  BY DEF CacheInv, TypeOK
<1>2. CASE Delete(c, k)
  BY <1>1, <1>2, RemoveKeeps DEF Delete
<1>3. ASSUME NEW old \in Values \cup {Nil}, CompareAndSetFails(c, k, old) PROVE CacheInv'
  <2>1. CASE entries[k] # Absent /\ Expired(entries[k])
    BY <1>1, <1>3, <2>1, RemoveKeeps DEF CompareAndSetFails
  <2>2. CASE ~ (entries[k] # Absent /\ Expired(entries[k]))
    BY <1>1, <1>3, <2>2, ReadKeeps DEF CompareAndSetFails
  <2> QED
    BY <2>1, <2>2
<1> QED
  BY <1>2, <1>3

(* Set prepares an entry: one write more of its value. *)
LEMMA SetPreparesKeeps ==
    ASSUME CacheInv, NEW c \in Clients, NEW k \in CacheKeys, NEW v \in Values,
           NEW ttl \in TTLs, SetPrepares(c, k, v, ttl)
    PROVE  CacheInv'
<1> USE DEF CacheInv
<1> DEFINE x == [key |-> k, entry |-> [value |-> v, left |-> Lifetime(ttl)]]
<1>1. x \in Copy /\ x.entry.value = v
  BY Lives DEF Entry, Copy
<1>2. x # Absent
  BY <1>1, AbsentAssumption
<1>3. /\ Free(c) /\ written[v] < MaxWrites
      /\ pending' = [pending EXCEPT ![c] = x]
      /\ written' = [written EXCEPT ![v] = written[v] + 1]
      /\ UNCHANGED <<entries, got, swapped, grant>>
  BY DEF SetPrepares
<1> HIDE DEF x
<1>4. /\ pending'[c] = x
      /\ \A d \in Clients \ {c} : pending'[d] = pending[d]
  BY <1>3 DEF TypeOK
<1>5. TypeOK'
  <2>1. written[v] \in 0 .. MaxWrites
    BY DEF TypeOK
  <2>2. written[v] + 1 \in 0 .. MaxWrites
    BY <1>3, <2>1, WritesAssumption
  <2> QED
    BY <1>1, <1>3, <2>2 DEF TypeOK
<1>6. WritesAccounted'
  <2> SUFFICES ASSUME NEW w \in Values
               PROVE  /\ IsFiniteSet(Stored(w)') /\ IsFiniteSet(Prepared(w)')
                      /\ Cardinality(Stored(w)') + Cardinality(Prepared(w)') + swapped'[w] <= written'[w]
    BY DEF WritesAccounted
  <2>1. /\ IsFiniteSet(Stored(w)) /\ IsFiniteSet(Prepared(w))
        /\ Cardinality(Stored(w)) \in Nat /\ Cardinality(Prepared(w)) \in Nat
        /\ swapped[w] \in Nat /\ written[w] \in Nat
        /\ Cardinality(Stored(w)) + Cardinality(Prepared(w)) + swapped[w] <= written[w]
    BY Account
  <2>2. Stored(w)' = Stored(w) /\ swapped'[w] = swapped[w]
    BY <1>3 DEF Stored
  <2>3. CASE w = v
    <3>1. Prepared(w)' = Prepared(w) \cup {c}
      BY <1>1, <1>2, <1>4, <2>3 DEF Prepared
    <3>2. written'[w] = written[w] + 1
      BY <1>3, <2>3 DEF TypeOK
    <3>3. /\ IsFiniteSet(Prepared(w)') /\ Cardinality(Prepared(w)') \in Nat
          /\ Cardinality(Prepared(w)') <= Cardinality(Prepared(w)) + 1
      BY <2>1, <3>1, OneMore
    <3> QED
      BY <2>1, <2>2, <3>2, <3>3
  <2>4. CASE w # v
    <3>1. Prepared(w)' = Prepared(w)
      BY <1>1, <1>3, <1>4, <2>4 DEF Prepared, Free
    <3>2. written'[w] = written[w]
      BY <1>3, <2>4 DEF TypeOK
    <3> QED
      BY <2>1, <2>2, <3>1, <3>2
  <2> QED
    BY <2>3, <2>4
<1>7. GrantBacked' /\ LockExclusive'
  BY <1>3 DEF GrantBacked, LockExclusive
<1> QED
  BY <1>5, <1>6, <1>7

(* Set stores what it has prepared: the value moves. *)
LEMMA SetStoresKeeps ==
    ASSUME CacheInv, NEW c \in Clients, SetStores(c)
    PROVE  CacheInv'
<1> USE DEF CacheInv
<1> DEFINE k == pending[c].key
           e == pending[c].entry
<1>1. /\ pending[c] # Absent
      /\ entries' = [entries EXCEPT ![k] = e]
      /\ pending' = [pending EXCEPT ![c] = Absent]
      /\ grant' = Revoked(k)
      /\ UNCHANGED <<got, written, swapped>>
  BY DEF SetStores
<1>2. k \in CacheKeys /\ e \in Entry /\ e # Absent /\ e.value \in Values
  BY <1>1, Present, AbsentAssumption
<1>3. /\ entries'[k] = e
      /\ \A l \in CacheKeys \ {k} : entries'[l] = entries[l]
      /\ pending'[c] = Absent
      /\ \A d \in Clients \ {c} : pending'[d] = pending[d]
  BY <1>1, <1>2 DEF TypeOK
<1>4. /\ grant' \in [Clients -> [CacheKeys -> Lifetimes]]
      /\ \A d \in Clients : ~ (grant'[d][k] > Over)
      /\ \A d \in Clients, l \in CacheKeys \ {k} : grant'[d][l] = grant[d][l]
  BY <1>1, <1>2, RevokedShape DEF Over
<1>5. TypeOK'
  BY <1>1, <1>2, <1>4 DEF TypeOK
<1>6. WritesAccounted'
  <2> SUFFICES ASSUME NEW w \in Values
               PROVE  /\ IsFiniteSet(Stored(w)') /\ IsFiniteSet(Prepared(w)')
                      /\ Cardinality(Stored(w)') + Cardinality(Prepared(w)') + swapped'[w] <= written'[w]
    BY DEF WritesAccounted
  <2>1. /\ IsFiniteSet(Stored(w)) /\ IsFiniteSet(Prepared(w))
        /\ Cardinality(Stored(w)) \in Nat /\ Cardinality(Prepared(w)) \in Nat
        /\ swapped[w] \in Nat /\ written[w] \in Nat
        /\ Cardinality(Stored(w)) + Cardinality(Prepared(w)) + swapped[w] <= written[w]
    BY Account
  <2>2. swapped'[w] = swapped[w] /\ written'[w] = written[w]
    BY <1>1
  <2>3. CASE w = e.value
    <3>1. c \in Prepared(w) /\ Prepared(w)' = Prepared(w) \ {c}
      BY <1>1, <1>3, <2>3 DEF Prepared
    <3>2. Stored(w)' = Stored(w) \cup {k}
      BY <1>2, <1>3, <2>3 DEF Stored
    <3>3. /\ IsFiniteSet(Prepared(w)')
          /\ Cardinality(Prepared(w)') = Cardinality(Prepared(w)) - 1
      BY <2>1, <3>1, OneMore
    <3>4. /\ IsFiniteSet(Stored(w)') /\ Cardinality(Stored(w)') \in Nat
          /\ Cardinality(Stored(w)') <= Cardinality(Stored(w)) + 1
      BY <2>1, <3>2, OneMore
    <3> QED
      BY <2>1, <2>2, <3>3, <3>4
  <2>4. CASE w # e.value
    <3>1. Prepared(w)' = Prepared(w)
      BY <1>1, <1>3, <2>4 DEF Prepared
    <3>2. Stored(w)' = Stored(w) \ {k}
      BY <1>3, <2>4 DEF Stored
    <3>3. /\ IsFiniteSet(Stored(w)') /\ Cardinality(Stored(w)') \in Nat
          /\ Cardinality(Stored(w)') <= Cardinality(Stored(w))
      BY <2>1, <3>2, OneMore
    <3> QED
      BY <2>1, <2>2, <3>1, <3>3
  <2> QED
    BY <2>3, <2>4
<1>7. GrantBacked'
  BY <1>3, <1>4 DEF GrantBacked
<1>8. LockExclusive'
  BY <1>4 DEF LockExclusive
<1> QED
  BY <1>5, <1>6, <1>7, <1>8

(* CompareAndSet replaces a live entry with the value asked for, or none.  *)
(* The write it replaces moves from the stored ones to the replaced ones;  *)
(* and if it came from nil, nobody was promised the key.                   *)
LEMMA SwapKeeps ==
    ASSUME CacheInv, NEW c \in Clients, NEW k \in CacheKeys, NEW old \in Values \cup {Nil},
           NEW new \in Values, NEW ttl \in TTLs, CompareAndSet(c, k, old, new, ttl)
    PROVE  CacheInv'
<1> USE DEF CacheInv
<1> DEFINE e == [value |-> new, left |-> Lifetime(ttl)]
           g == IF new = Empty THEN Over ELSE Promised(ttl)
           others == IF old = Nil THEN grant ELSE Revoked(k)
<1>1. /\ written[new] < MaxWrites
      /\ Swaps(k, old)
      /\ entries' = [entries EXCEPT ![k] = e]
      /\ written' = [written EXCEPT ![new] = written[new] + 1]
      /\ swapped' = [v \in Values |-> IF v = old THEN swapped[v] + 1 ELSE swapped[v]]
      /\ grant' = [others EXCEPT ![c] = [others[c] EXCEPT ![k] = g]]
      /\ UNCHANGED <<got, pending>>
  BY DEF CompareAndSet
<1>2. /\ e \in Entry /\ e # Absent /\ e.value = new /\ e.left = Lifetime(ttl) /\ g \in Lifetimes
      /\ Promised(ttl) = Lifetime(ttl)
  <2>1. Lifetime(ttl) \in Lifetimes /\ Over \in Lifetimes /\ Promised(ttl) = Lifetime(ttl)
    BY Lives
  <2>2. e \in Entry
    BY <2>1 DEF Entry
  <2> QED
    BY <2>1, <2>2, AbsentAssumption
<1>3. /\ others \in [Clients -> [CacheKeys -> Lifetimes]]
      /\ \A d \in Clients, l \in CacheKeys \ {k} : others[d][l] = grant[d][l]
      /\ \A d \in Clients : ~ (others[d][k] > Over)
  <2>1. CASE old = Nil
    <3>1. \A d \in Clients : ~ (grant[d][k] > Over)
      <4> SUFFICES ASSUME NEW d \in Clients, grant[d][k] > Over PROVE FALSE
        OBVIOUS
      <4>1. /\ entries[k] # Absent /\ entries[k].left = grant[d][k] /\ entries[k].value # Empty
            /\ entries[k].value \in Values /\ entries[k].left \in Int
        BY Present, Lives DEF GrantBacked
      <4>2. ~ Expired(entries[k])
        BY <4>1 DEF Expired, Over
      <4>3. BytesEqual(entries[k].value, Nil)
        BY <1>1, <2>1, <4>1, <4>2 DEF Swaps
      <4> QED
        BY <4>1, <4>3, SlicesAssumption DEF BytesEqual
    <3> QED
      BY <2>1, <3>1 DEF TypeOK
  <2>2. CASE old # Nil
    BY <2>2, RevokedShape DEF Over
  <2> QED
    BY <2>1, <2>2
<1> HIDE DEF e, g, others
<1>4. /\ grant' \in [Clients -> [CacheKeys -> Lifetimes]]
      /\ \A d \in Clients, l \in CacheKeys \ {k} : grant'[d][l] = grant[d][l]
      /\ grant'[c][k] = g
      /\ \A d \in Clients \ {c} : ~ (grant'[d][k] > Over)
  BY <1>1, <1>2, <1>3
<1>5. /\ entries'[k] = e
      /\ \A l \in CacheKeys \ {k} : entries'[l] = entries[l]
  BY <1>1 DEF TypeOK
<1>6. TypeOK'
  <2>1. swapped' \in [Values -> Nat]
    BY <1>1 DEF TypeOK
  <2>2. written[new] \in 0 .. MaxWrites
    BY DEF TypeOK
  <2>3. written[new] + 1 \in 0 .. MaxWrites
    BY <1>1, <2>2, WritesAssumption
  <2> QED
    BY <1>1, <1>2, <1>4, <2>1, <2>3 DEF TypeOK
<1>7. old \in Values => k \in Stored(old)
  <2> SUFFICES ASSUME old \in Values PROVE k \in Stored(old)
    OBVIOUS
  <2>1. entries[k] # Absent /\ BytesEqual(entries[k].value, old)
    BY <1>1, SlicesAssumption DEF Swaps
  <2>2. entries[k].value \in Values
    BY <2>1, Present
  <2> QED
    BY <2>1, <2>2, SlicesAssumption DEF BytesEqual, Stored
<1>8. WritesAccounted'
  <2> SUFFICES ASSUME NEW w \in Values
               PROVE  /\ IsFiniteSet(Stored(w)') /\ IsFiniteSet(Prepared(w)')
                      /\ Cardinality(Stored(w)') + Cardinality(Prepared(w)') + swapped'[w] <= written'[w]
    BY DEF WritesAccounted
  <2>1. /\ IsFiniteSet(Stored(w)) /\ IsFiniteSet(Prepared(w))
        /\ Cardinality(Stored(w)) \in Nat /\ Cardinality(Prepared(w)) \in Nat
        /\ swapped[w] \in Nat /\ written[w] \in Nat
        /\ Cardinality(Stored(w)) + Cardinality(Prepared(w)) + swapped[w] <= written[w]
    BY Account
  <2>2. Prepared(w)' = Prepared(w)
    BY <1>1 DEF Prepared
  <2>3. /\ swapped'[w] = IF w = old THEN swapped[w] + 1 ELSE swapped[w]
        /\ w = old => k \in Stored(w)
    BY <1>1, <1>7
  <2>4. CASE w = new
    <3>1. Stored(w)' = Stored(w) \cup {k}
      BY <1>2, <1>5, <2>4 DEF Stored
    <3>2. /\ IsFiniteSet(Stored(w)') /\ Cardinality(Stored(w)') \in Nat
          /\ Cardinality(Stored(w)') <= Cardinality(Stored(w)) + 1
          /\ k \in Stored(w) => Cardinality(Stored(w)') = Cardinality(Stored(w))
      BY <2>1, <3>1, OneMore
    <3>3. written'[w] = written[w] + 1
      BY <1>1, <2>4 DEF TypeOK
    <3> QED
      BY <2>1, <2>2, <2>3, <3>2, <3>3
  <2>5. CASE w # new
    <3>1. Stored(w)' = Stored(w) \ {k}
      BY <1>2, <1>5, <2>5 DEF Stored
    <3>2. /\ IsFiniteSet(Stored(w)') /\ Cardinality(Stored(w)') \in Nat
          /\ Cardinality(Stored(w)') <= Cardinality(Stored(w))
          /\ k \in Stored(w) => Cardinality(Stored(w)') = Cardinality(Stored(w)) - 1
      BY <2>1, <3>1, OneMore
    <3>3. written'[w] = written[w]
      BY <1>1, <2>5 DEF TypeOK
    <3> QED
      BY <2>1, <2>2, <2>3, <3>2, <3>3
  <2> QED
    BY <2>4, <2>5
<1>9. GrantBacked'
  <2>1. grant'[c][k] > Over => e.left = grant'[c][k] /\ e.value # Empty
    BY <1>2, <1>4 DEF g, Over
  <2> QED
    BY <1>2, <1>4, <1>5, <2>1 DEF GrantBacked
<1>10. LockExclusive'
  BY <1>4 DEF LockExclusive
<1> QED
  BY <1>6, <1>8, <1>9, <1>10

(* Time passes: a grant and the entry that backs it grow old together. *)
LEMMA TickKeeps ==
    ASSUME CacheInv, Tick
    PROVE  CacheInv'
<1> USE DEF CacheInv
<1>1. ASSUME NEW k \in CacheKeys
      PROVE  /\ entries'[k] \in Entry \cup {Absent}
             /\ entries[k] = Absent => entries'[k] = Absent
             /\ entries[k] # Absent => /\ entries'[k] # Absent
                                       /\ entries'[k].value = entries[k].value
                                       /\ entries'[k].left = Elapsed(entries[k].left)
  <2>1. CASE entries[k] = Absent
    BY <2>1 DEF Tick
  <2>2. CASE entries[k] # Absent
    <3>1. entries[k] \in Entry /\ entries'[k] = Aged(entries[k])
      BY <2>2, Present DEF Tick
    <3> QED
      BY <2>2, <3>1, AgedEntry, AbsentAssumption
  <2> QED
    BY <2>1, <2>2
<1>2. ASSUME NEW c \in Clients
      PROVE  /\ pending'[c] \in Copy \cup {Absent}
             /\ pending[c] = Absent => pending'[c] = Absent
             /\ pending[c] # Absent => /\ pending'[c] # Absent
                                       /\ pending'[c].entry.value = pending[c].entry.value
  <2>1. pending[c] \in Copy \cup {Absent} /\ pending'[c] = AgedCopy(pending[c])
    BY DEF TypeOK, Tick
  <2>2. CASE pending[c] = Absent
    BY <2>1, <2>2, AgedCopies
  <2>3. CASE pending[c] # Absent
    <3>1. /\ pending'[c] \in Copy \cup {Absent} /\ pending'[c] # Absent
          /\ pending'[c].entry = Aged(pending[c].entry)
      BY <2>1, <2>3, AgedCopies
    <3>2. Aged(pending[c].entry).value = pending[c].entry.value
      BY <2>3, Present, AgedEntry
    <3> QED
      BY <2>3, <3>1, <3>2
  <2> QED
    BY <2>2, <2>3
<1>3. ASSUME NEW c \in Clients, NEW k \in CacheKeys
      PROVE  /\ grant'[c][k] = Elapsed(grant[c][k])
             /\ grant'[c][k] \in Lifetimes
             /\ grant'[c][k] > Over => grant[c][k] > Over
  <2>1. grant'[c][k] = Elapsed(grant[c][k]) /\ grant[c][k] \in Lifetimes
    BY DEF Tick, TypeOK
  <2> QED
    BY <2>1, Lives
<1>4. TypeOK'
  <2>1. entries' \in [CacheKeys -> Entry \cup {Absent}]
    BY <1>1 DEF Tick
  <2>2. got' \in [Clients -> Copy \cup {Absent}]
    BY AgedCopies DEF Tick, TypeOK
  <2>3. pending' \in [Clients -> Copy \cup {Absent}]
    BY AgedCopies DEF Tick, TypeOK
  <2>4. grant' \in [Clients -> [CacheKeys -> Lifetimes]]
    BY Lives DEF Tick, TypeOK
  <2> QED
    BY <2>1, <2>2, <2>3, <2>4 DEF Tick, TypeOK
<1>5. UNCHANGED <<written, swapped>>
  BY DEF Tick
<1>6. WritesAccounted'
  <2>1. ASSUME NEW v \in Values PROVE Prepared(v)' = Prepared(v) /\ Stored(v)' = Stored(v)
    BY <1>1, <1>2 DEF Prepared, Stored
  <2> QED
    BY <1>5, <2>1, SameAccount
<1>7. GrantBacked'
  BY <1>1, <1>3 DEF GrantBacked
<1>8. LockExclusive'
  BY <1>3 DEF LockExclusive
<1> QED
  BY <1>4, <1>6, <1>7, <1>8

-----------------------------------------------------------------------------

(* Every step of every call, and of the clock, keeps the invariant. *)
LEMMA CacheStepKeeps ==
    ASSUME CacheInv, [Next]_vars
    PROVE  CacheInv'
<1>1. ASSUME NEW c \in Clients, GetReturns(c) \/ GetEvicts(c) PROVE CacheInv'
  BY <1>1, GetKeeps
<1>2. ASSUME NEW c \in Clients, NEW k \in CacheKeys, GetMisses(c, k) \/ GetReads(c, k)
      PROVE  CacheInv'
  BY <1>2, GetKeeps
<1>3. ASSUME NEW c \in Clients, SetStores(c) PROVE CacheInv'
  BY <1>3, SetStoresKeeps
<1>4. ASSUME NEW c \in Clients, NEW k \in CacheKeys,
             Delete(c, k) \/ \E old \in Values \cup {Nil} : CompareAndSetFails(c, k, old)
      PROVE  CacheInv'
  BY <1>4, DropKeeps
<1>5. ASSUME NEW c \in Clients, NEW k \in CacheKeys, NEW v \in Values, NEW ttl \in TTLs,
             SetPrepares(c, k, v, ttl)
      PROVE  CacheInv'
  BY <1>5, SetPreparesKeeps
<1>6. ASSUME NEW c \in Clients, NEW k \in CacheKeys, NEW v \in Values, NEW ttl \in TTLs,
             NEW old \in Values \cup {Nil}, CompareAndSet(c, k, old, v, ttl)
      PROVE  CacheInv'
  BY <1>6, SwapKeeps
<1>7. CASE Tick
  BY <1>7, TickKeeps
<1>8. CASE UNCHANGED vars
  BY <1>8, ReadKeeps DEF vars, CacheInv, TypeOK
<1> QED
  BY <1>1, <1>2, <1>3, <1>4, <1>5, <1>6, <1>7, <1>8 DEF Next

(* The inductive invariant holds whatever calls overlap and expire. *)
THEOREM CacheInvariance == Spec => []CacheInv
<1>1. CacheInv /\ [Next]_vars => CacheInv'
  BY CacheStepKeeps
<1> QED
  BY <1>1, CacheInit, PTL DEF Spec

(* The cache, and what the calls under way hold of it, stay well-typed. *)
THEOREM CacheTyping == Spec => []TypeOK
<1>1. CacheInv => TypeOK
  BY DEF CacheInv
<1> QED
  BY <1>1, CacheInvariance, PTL

(* CompareAndSet loses no update: each write of a value is replaced once   *)
(* at most, whatever keys and clients the value comes back to.             *)
THEOREM UpdatesKept == Spec => []NoLostUpdate
<1>1. ASSUME CacheInv PROVE NoLostUpdate
  <2> SUFFICES ASSUME NEW v \in Values PROVE swapped[v] <= written[v]
    BY DEF NoLostUpdate
  <2> QED
    BY <1>1, Account
<1>2. CacheInv => NoLostUpdate
  BY <1>1
<1> QED
  BY <1>2, CacheInvariance, PTL

(* CompareAndSet from nil gives a key to one client at a time. *)
THEOREM OneLocker == Spec => []LockExclusive
<1>1. CacheInv => LockExclusive
  BY DEF CacheInv
<1> QED
  BY <1>1, CacheInvariance, PTL

-----------------------------------------------------------------------------

(***************************************************************************)
(* MemCache implements CacheStore.                                         *)
(***************************************************************************)

(* What clients can tell of one key and of one client's calls. *)
LEMMA CacheShapes ==
    /\ \A k \in CacheKeys : /\ Value[k] = IF Live(entries[k]) THEN {entries[k].value} ELSE {}
                            /\ Owners[k] = {c \in Clients : grant[c][k] > Over}
    /\ \A c \in Clients : /\ pending[c] = Absent => Setting[c] = {}
                          /\ pending[c] # Absent => Setting[c] =
                                {[key |-> pending[c].key, value |-> pending[c].entry.value]}
                          /\ Reading[c] = IF got[c] # Absent /\ Live(got[c].entry)
                                          THEN {got[c].entry.value} ELSE {}
  BY DEF Value, Owners, Setting, Reading

LEMMA CacheShapesNext ==
    /\ \A k \in CacheKeys : /\ Value'[k] = IF Live(entries'[k]) THEN {entries'[k].value} ELSE {}
                            /\ Owners'[k] = {c \in Clients : grant'[c][k] > Over}
    /\ \A c \in Clients : /\ pending'[c] = Absent => Setting'[c] = {}
                          /\ pending'[c] # Absent => Setting'[c] =
                                {[key |-> pending'[c].key, value |-> pending'[c].entry.value]}
                          /\ Reading'[c] = IF got'[c] # Absent /\ Live(got'[c].entry)
                                           THEN {got'[c].entry.value} ELSE {}
  BY DEF Value, Owners, Setting, Reading, Live, Expired

(* A key without a value has no owner. *)
LEMMA DeadIsUnowned ==
    ASSUME CacheInv, NEW k \in CacheKeys, ~ Live(entries[k])
    PROVE  Value[k] = {} /\ Owners[k] = {}
<1>1. ASSUME NEW c \in Clients PROVE ~ (grant[c][k] > Over)
  <2> SUFFICES ASSUME grant[c][k] > Over PROVE FALSE
    OBVIOUS
  <2>1. entries[k] # Absent /\ entries[k].left = grant[c][k] /\ grant[c][k] \in Int
    BY Lives DEF CacheInv, GrantBacked, TypeOK
  <2> QED
    BY <2>1 DEF Live, Expired, Over
<1> QED
  BY <1>1, CacheShapes

(* A step that touches one key, or one client's call, at most. *)
LEMMA OneKey ==
    ASSUME NEW k \in CacheKeys,
           \A l \in CacheKeys \ {k} : /\ entries'[l] = entries[l]
                                      /\ \A c \in Clients : grant'[c][l] = grant[c][l]
    PROVE  /\ Value' = [Value EXCEPT ![k] = Value'[k]]
           /\ Owners' = [Owners EXCEPT ![k] = Owners'[k]]
<1>1. Value' = [Value EXCEPT ![k] = Value'[k]]
  BY DEF Value, Live, Expired
<1>2. Owners' = [Owners EXCEPT ![k] = Owners'[k]]
  BY DEF Owners
<1> QED
  BY <1>1, <1>2

LEMMA OneGet ==
    ASSUME NEW c \in Clients, \A d \in Clients \ {c} : got'[d] = got[d]
    PROVE  Reading' = [Reading EXCEPT ![c] = Reading'[c]]
  BY DEF Reading, Live, Expired

LEMMA OneSet ==
    ASSUME NEW c \in Clients, \A d \in Clients \ {c} : pending'[d] = pending[d]
    PROVE  Setting' = [Setting EXCEPT ![c] = Setting'[c]]
  BY DEF Setting

LEMMA SameParts ==
    /\ entries' = entries => Value' = Value
    /\ grant' = grant => Owners' = Owners
    /\ got' = got => Reading' = Reading
    /\ pending' = pending => Setting' = Setting
  BY DEF Value, Owners, Reading, Setting, Live, Expired

(* A step that leaves key k without an entry, and its owner without it. *)
LEMMA RemovalLoses ==
    ASSUME CacheInv, NEW k \in CacheKeys,
           entries' = [entries EXCEPT ![k] = Absent], grant' = Revoked(k),
           Reading' = Reading, pending' = pending
    PROVE  CS!Next
<1>1. TypeOK
  BY DEF CacheInv
<1>2. /\ entries'[k] = Absent
      /\ \A l \in CacheKeys \ {k} : /\ entries'[l] = entries[l]
                                    /\ \A c \in Clients : grant'[c][l] = grant[c][l]
      /\ \A c \in Clients : ~ (grant'[c][k] > Over)
  BY <1>1, RevokedShape DEF TypeOK, Over
<1>3. Value'[k] = {} /\ Owners'[k] = {}
  BY <1>2, CacheShapesNext DEF Live
<1>4. /\ Value' = [Value EXCEPT ![k] = {}] /\ Owners' = [Owners EXCEPT ![k] = {}]
  BY <1>2, <1>3, OneKey
<1>5. /\ Value' = [l \in CacheKeys |-> IF l \in {k} THEN {} ELSE Value[l]]
      /\ Owners' = [l \in CacheKeys |-> IF l \in {k} THEN {} ELSE Owners[l]]
  BY <1>4 DEF Value, Owners
<1>6. Reading' = [c \in Clients |-> IF c \in {} THEN {} ELSE Reading[c]]
  BY DEF Reading
<1>7. CS!Lose({k}, {})
  BY <1>5, <1>6, SameParts DEF CS!Lose
<1> QED
  BY <1>7 DEF CS!Next

(* Get reads what is there, and returns what has not expired meanwhile. *)
LEMMA GetMaps ==
    ASSUME CacheInv, NEW c \in Clients,
           \/ \E k \in CacheKeys : GetMisses(c, k) \/ GetReads(c, k)
           \/ GetReturns(c)
           \/ GetEvicts(c)
    PROVE  CS!Next \/ UNCHANGED CS!vars
<1>1. TypeOK
  BY DEF CacheInv
<1>2. ASSUME NEW k \in CacheKeys, GetMisses(c, k) PROVE UNCHANGED CS!vars
  BY <1>2, SameParts DEF GetMisses, vars, CS!vars
<1>3. ASSUME NEW k \in CacheKeys, GetReads(c, k) PROVE CS!Next \/ UNCHANGED CS!vars
  <2> DEFINE x == [key |-> k, entry |-> entries[k]]
  <2>1. /\ got[c] = Absent /\ got' = [got EXCEPT ![c] = x]
        /\ UNCHANGED <<entries, pending, grant>> /\ entries[k] \in Entry
    BY <1>1, <1>3, Present DEF GetReads, Free
  <2>2. x # Absent /\ x.entry = entries[k]
    BY <2>1, AbsentAssumption DEF Copy
  <2> HIDE DEF x
  <2>3. got'[c] = x /\ \A d \in Clients \ {c} : got'[d] = got[d]
    BY <1>1, <2>1 DEF TypeOK
  <2>4. Reading[c] = {} /\ Reading'[c] = Value[k]
    <3>1. Reading[c] = {}
      BY <2>1, CacheShapes
    <3>2. Reading'[c] = IF Live(entries[k]) THEN {entries[k].value} ELSE {}
      BY <2>2, <2>3, CacheShapesNext DEF Live, Expired
    <3> QED
      BY <3>1, <3>2, CacheShapes DEF Live, Expired
  <2>5. Reading' = [Reading EXCEPT ![c] = Value[k]] /\ UNCHANGED <<Value, Setting, Owners>>
    BY <2>1, <2>3, <2>4, OneGet, SameParts
  <2>6. CASE Value[k] = {}
    <3>1. Reading' = Reading
      BY <2>4, <2>5, <2>6 DEF Reading
    <3> QED
      BY <2>5, <3>1 DEF CS!vars
  <2>7. CASE Value[k] # {}
    <3>1. CS!GetReads(c, k)
      BY <2>4, <2>5, <2>7 DEF CS!GetReads
    <3> QED
      BY <3>1 DEF CS!Next
  <2> QED
    BY <2>6, <2>7
<1>4. CASE GetReturns(c)
  <2>1. /\ got[c] # Absent /\ ~ Expired(got[c].entry) /\ got[c].entry # Absent
        /\ got'[c] = Absent /\ \A d \in Clients \ {c} : got'[d] = got[d]
        /\ UNCHANGED <<entries, pending, grant>>
    BY <1>1, <1>4, Present, AbsentAssumption DEF GetReturns, TypeOK
  <2>2. Reading[c] # {} /\ Reading'[c] = {}
    BY <2>1, CacheShapes, CacheShapesNext DEF Live
  <2>3. CS!GetReturns(c)
    BY <2>1, <2>2, OneGet, SameParts DEF CS!GetReturns
  <2> QED
    BY <2>3 DEF CS!Next
<1>5. CASE GetEvicts(c)
  <2>1. /\ got[c] # Absent /\ Expired(got[c].entry) /\ got[c].key \in CacheKeys
        /\ got'[c] = Absent /\ \A d \in Clients \ {c} : got'[d] = got[d]
        /\ entries' = [entries EXCEPT ![got[c].key] = Absent]
        /\ grant' = Revoked(got[c].key) /\ pending' = pending
    BY <1>1, <1>5, Present DEF GetEvicts, TypeOK
  <2>2. Reading[c] = {} /\ Reading'[c] = {}
    BY <2>1, CacheShapes, CacheShapesNext DEF Live
  <2>3. Reading' = Reading
    BY <2>1, <2>2, OneGet DEF Reading
  <2> QED
    BY <2>1, <2>3, RemovalLoses
<1> QED
  BY <1>2, <1>3, <1>4, <1>5

(* Set takes effect when it has the lock. *)
LEMMA SetMaps ==
    ASSUME CacheInv, NEW c \in Clients,
           \/ \E k \in CacheKeys, v \in Values, ttl \in TTLs : SetPrepares(c, k, v, ttl)
           \/ SetStores(c)
    PROVE  CS!Next
<1>1. TypeOK
  BY DEF CacheInv
<1>2. ASSUME NEW k \in CacheKeys, NEW v \in Values, NEW ttl \in TTLs, SetPrepares(c, k, v, ttl)
      PROVE  CS!Next
  <2> DEFINE x == [key |-> k, entry |-> [value |-> v, left |-> Lifetime(ttl)]]
  <2>1. x \in Copy /\ x.key = k /\ x.entry.value = v
    BY Lives DEF Entry, Copy
  <2>2. /\ pending[c] = Absent /\ pending' = [pending EXCEPT ![c] = x]
        /\ UNCHANGED <<entries, got, grant>>
    BY <1>2 DEF SetPrepares, Free
  <2> HIDE DEF x
  <2>3. pending'[c] = x /\ x # Absent /\ \A d \in Clients \ {c} : pending'[d] = pending[d]
    BY <1>1, <2>1, <2>2, AbsentAssumption DEF TypeOK
  <2>4. Setting[c] = {} /\ Setting'[c] = {[key |-> k, value |-> v]}
    BY <2>1, <2>2, <2>3, CacheShapes, CacheShapesNext
  <2>5. CS!SetBegins(c, k, v)
    BY <2>2, <2>3, <2>4, OneSet, SameParts DEF CS!SetBegins
  <2> QED
    BY <2>5 DEF CS!Next
<1>3. CASE SetStores(c)
  <2> DEFINE k == pending[c].key
             e == pending[c].entry
  <2>1. /\ pending[c] # Absent /\ k \in CacheKeys /\ e \in Entry
        /\ entries' = [entries EXCEPT ![k] = e]
        /\ pending' = [pending EXCEPT ![c] = Absent]
        /\ grant' = Revoked(k) /\ got' = got
    BY <1>1, <1>3, Present DEF SetStores
  <2>2. Setting[c] = {[key |-> k, value |-> e.value]}
    BY <2>1, CacheShapes
  <2> HIDE DEF k, e
  <2>3. /\ entries'[k] = e /\ \A l \in CacheKeys \ {k} : entries'[l] = entries[l]
        /\ pending'[c] = Absent /\ \A d \in Clients \ {c} : pending'[d] = pending[d]
    BY <1>1, <2>1 DEF TypeOK
  <2>4. /\ \A d \in Clients : ~ (grant'[d][k] > Over)
        /\ \A d \in Clients, l \in CacheKeys \ {k} : grant'[d][l] = grant[d][l]
    BY <1>1, <2>1, RevokedShape DEF Over
  <2>5. Value'[k] \in {{e.value}, {}} /\ Owners'[k] = {} /\ Setting'[c] = {}
    BY <2>1, <2>3, <2>4, CacheShapesNext
  <2>6. CS!Put(k, Value'[k], {})
    BY <2>1, <2>3, <2>4, <2>5, OneKey DEF CS!Put
  <2>7. CS!SetStores(c)
    <3>1. \E x \in Setting[c] : \E V \in {{x.value}, {}} : CS!Put(x.key, V, {})
      <4> DEFINE x == [key |-> k, value |-> e.value]
      <4>1. x \in Setting[c] /\ x.key = k /\ x.value = e.value
        BY <2>2
      <4> QED
        BY <4>1, <2>5, <2>6
    <3> QED
      BY <2>1, <2>3, <2>5, <3>1, OneSet, SameParts DEF CS!SetStores
  <2> QED
    BY <2>7 DEF CS!Next
<1> QED
  BY <1>2, <1>3

(* CompareAndSet swaps a value, or nothing a client could tell.  Whoever   *)
(* swaps a value that is not empty is then the only owner of the key.      *)
LEMMA SwapMaps ==
    ASSUME CacheInv, CacheInv', NEW c \in Clients, NEW k \in CacheKeys,
           NEW old \in Values \cup {Nil}, NEW new \in Values, NEW ttl \in TTLs,
           CompareAndSet(c, k, old, new, ttl)
    PROVE  CS!Next
<1>1. TypeOK /\ TypeOK'
  BY DEF CacheInv
<1> DEFINE e == [value |-> new, left |-> Lifetime(ttl)]
           g == IF new = Empty THEN Over ELSE Promised(ttl)
           others == IF old = Nil THEN grant ELSE Revoked(k)
<1>2. /\ Swaps(k, old)
      /\ entries' = [entries EXCEPT ![k] = e]
      /\ grant' = [others EXCEPT ![c] = [others[c] EXCEPT ![k] = g]]
      /\ UNCHANGED <<got, pending>>
  BY DEF CompareAndSet
<1>3. /\ others \in [Clients -> [CacheKeys -> Lifetimes]]
      /\ \A d \in Clients, l \in CacheKeys \ {k} : others[d][l] = grant[d][l]
  BY <1>1, RevokedShape DEF TypeOK
<1>4. e \in Entry /\ e # Absent /\ e.value = new /\ ~ Expired(e)
  <2>1. Lifetime(ttl) \in Lifetimes /\ Lifetime(ttl) \in Int /\ Lifetime(ttl) > Over
    BY Lives
  <2>2. e \in Entry /\ e.left = Lifetime(ttl)
    BY <2>1 DEF Entry
  <2> QED
    BY <2>1, <2>2, AbsentAssumption DEF Expired, Over
<1> HIDE DEF e, others
<1>5. /\ entries'[k] = e /\ grant'[c][k] = g
      /\ \A l \in CacheKeys \ {k} : /\ entries'[l] = entries[l]
                                    /\ \A d \in Clients : grant'[d][l] = grant[d][l]
  BY <1>1, <1>2, <1>3 DEF TypeOK
<1>6. Value'[k] = {new}
  BY <1>4, <1>5, CacheShapesNext DEF Live
<1>7. Owners'[k] = IF new = Empty THEN {} ELSE {c}
  <2>1. Owners'[k] = {d \in Clients : grant'[d][k] > Over}
    BY CacheShapesNext
  <2>2. CASE new = Empty
    BY <1>4, <1>5, <2>1, <2>2 DEF CacheInv, GrantBacked
  <2>3. CASE new # Empty
    <3>1. grant'[c][k] > Over
      BY <1>5, <2>3, Lives
    <3> QED
      BY <2>1, <2>3, <3>1 DEF CacheInv, LockExclusive
  <2> QED
    BY <2>2, <2>3
<1>8. CS!Matches(k, old)
  <2>1. CASE Live(entries[k])
    BY <1>2, <2>1, CacheShapes DEF Swaps, Live, BytesEqual, CS!Matches
  <2>2. CASE ~ Live(entries[k])
    BY <1>2, <2>2, CacheShapes DEF Swaps, Live, CS!Matches
  <2> QED
    BY <2>1, <2>2
<1>9. CS!Swap(c, k, old, new)
  BY <1>2, <1>5, <1>6, <1>7, <1>8, OneKey, SameParts DEF CS!Swap, CS!Put
<1>10. old \in Values \cup {Nil}
  BY <1>1 DEF TypeOK
<1> QED
  BY <1>9, <1>10 DEF CS!Next

(* A CompareAndSet that does not match clears away what nobody could see. *)
LEMMA MismatchMaps ==
    ASSUME CacheInv, NEW c \in Clients, NEW k \in CacheKeys, NEW old \in Values \cup {Nil},
           CompareAndSetFails(c, k, old)
    PROVE  UNCHANGED CS!vars
<1>1. UNCHANGED <<Setting, Reading, Owners>>
  BY SameParts DEF CompareAndSetFails
<1>2. Value' = Value
  <2>1. CASE entries[k] # Absent /\ Expired(entries[k])
    <3>1. /\ entries'[k] = Absent /\ \A l \in CacheKeys \ {k} : entries'[l] = entries[l]
          /\ grant' = grant
      BY <2>1 DEF CompareAndSetFails, CacheInv, TypeOK
    <3>2. Value[k] = {} /\ Value'[k] = {}
      BY <2>1, <3>1, CacheShapes, CacheShapesNext DEF Live
    <3> QED
      BY <3>1, <3>2, OneKey DEF Value
  <2>2. CASE ~ (entries[k] # Absent /\ Expired(entries[k]))
    BY <2>2, SameParts DEF CompareAndSetFails
  <2> QED
    BY <2>1, <2>2
<1> QED
  BY <1>1, <1>2 DEF CS!vars

(* What has expired stays so. *)
LEMMA AgedIsDead ==
    ASSUME NEW e \in Entry
    PROVE  Live(Aged(e)) => Live(e)
<1>1. e.left \in Lifetimes /\ Aged(e).left = Elapsed(e.left)
  BY AgedEntry DEF Entry
<1>2. e # Absent
  BY AbsentAssumption
<1> QED
  BY <1>1, <1>2, TTLAssumption DEF Live, Expired, Elapsed, Lifetimes, Over, Forever

(* Time takes values away, with their owners, and gives none back. *)
LEMMA TickMaps ==
    ASSUME CacheInv, CacheInv', Tick
    PROVE  CS!Next
<1> DEFINE S == {k \in CacheKeys : ~ Live(entries'[k])}
           C == {c \in Clients : Reading'[c] = {}}
<1>1. TypeOK
  BY DEF CacheInv
<1>2. ASSUME NEW k \in CacheKeys
      PROVE  /\ k \in S => Value'[k] = {} /\ Owners'[k] = {}
             /\ k \notin S => Value'[k] = Value[k] /\ Owners'[k] = Owners[k]
  <2>1. CASE k \in S
    <3>1. \A c \in Clients : grant'[c][k] \in Lifetimes
      BY DEF CacheInv, TypeOK
    <3>2. \A c \in Clients : ~ (grant'[c][k] > Over)
      BY <2>1, <3>1, Lives DEF CacheInv, GrantBacked, Live, Expired, Over
    <3> QED
      BY <2>1, <3>2, CacheShapesNext
  <2>2. CASE k \notin S
    <3>1. entries[k] # Absent /\ entries'[k] = Aged(entries[k]) /\ Live(Aged(entries[k]))
      BY <2>2 DEF Tick, Live
    <3>2. entries[k] \in Entry /\ Live(entries[k]) /\ Aged(entries[k]).value = entries[k].value
      BY <1>1, <3>1, Present, AgedIsDead, AgedEntry
    <3>3. Value'[k] = Value[k]
      <4>1. Value[k] = {entries[k].value}
        BY <3>2, CacheShapes
      <4>2. Live(entries'[k]) /\ entries'[k].value = entries[k].value
        BY <3>1, <3>2
      <4>3. Value'[k] = {entries'[k].value}
        BY <4>2, CacheShapesNext
      <4> QED
        BY <4>1, <4>2, <4>3
    <3>4. ASSUME NEW c \in Clients PROVE grant'[c][k] > Over <=> grant[c][k] > Over
      <4>1. grant[c][k] \in Lifetimes /\ grant'[c][k] = Elapsed(grant[c][k])
        BY <1>1 DEF Tick, TypeOK
      <4>2. grant'[c][k] > Over => grant[c][k] > Over
        BY <4>1, Lives
      <4>3. ASSUME grant[c][k] > Over PROVE grant'[c][k] > Over
        <5>1. entries[k].left = grant[c][k] /\ Aged(entries[k]).left = Elapsed(grant[c][k])
          BY <3>2, <4>3, AgedEntry DEF CacheInv, GrantBacked
        <5> QED
          BY <3>1, <4>1, <5>1, TTLAssumption DEF Live, Expired, Elapsed, Lifetimes, Over, Forever
      <4> QED
        BY <4>2, <4>3
    <3>5. Owners'[k] = Owners[k]
      BY <3>4, CacheShapes, CacheShapesNext
    <3> QED
      BY <2>2, <3>3, <3>5
  <2> QED
    BY <2>1, <2>2
<1>3. ASSUME NEW c \in Clients
      PROVE  Reading'[c] = IF c \in C THEN {} ELSE Reading[c]
  <2> SUFFICES ASSUME Reading'[c] # {} PROVE Reading'[c] = Reading[c]
    OBVIOUS
  <2>1. got'[c] # Absent /\ Live(got'[c].entry) /\ Reading'[c] = {got'[c].entry.value}
    BY CacheShapesNext
  <2>2. got'[c] = AgedCopy(got[c]) /\ got[c] \in Copy \cup {Absent}
    BY <1>1 DEF Tick, TypeOK
  <2>3. got[c] # Absent /\ got'[c].entry = Aged(got[c].entry)
    BY <2>1, <2>2, AgedCopies
  <2>4. Live(got[c].entry) /\ got'[c].entry.value = got[c].entry.value
    BY <1>1, <2>1, <2>3, Present, AgedIsDead, AgedEntry
  <2> QED
    BY <2>1, <2>3, <2>4, CacheShapes
<1>4. ASSUME NEW c \in Clients
      PROVE  Setting'[c] = Setting[c]
  <2>1. pending'[c] = AgedCopy(pending[c]) /\ pending[c] \in Copy \cup {Absent}
    BY <1>1 DEF Tick, TypeOK
  <2>2. CASE pending[c] = Absent
    BY <2>1, <2>2, AgedCopies, CacheShapes, CacheShapesNext
  <2>3. CASE pending[c] # Absent
    <3>1. /\ pending'[c] # Absent /\ pending'[c].key = pending[c].key
          /\ pending'[c].entry = Aged(pending[c].entry)
      BY <2>1, <2>3, AgedCopies
    <3>2. pending'[c].entry.value = pending[c].entry.value
      BY <1>1, <2>3, <3>1, Present, AgedEntry
    <3> QED
      BY <2>3, <3>1, <3>2, CacheShapes, CacheShapesNext
  <2> QED
    BY <2>2, <2>3
<1> HIDE DEF S, C
<1>5. /\ Value' = [k \in CacheKeys |-> IF k \in S THEN {} ELSE Value[k]]
      /\ Owners' = [k \in CacheKeys |-> IF k \in S THEN {} ELSE Owners[k]]
  BY <1>2 DEF Value, Owners
<1>6. Reading' = [c \in Clients |-> IF c \in C THEN {} ELSE Reading[c]]
  BY <1>3 DEF Reading
<1>7. Setting' = Setting
  BY <1>4 DEF Setting
<1>8. CS!Lose(S, C)
  BY <1>5, <1>6, <1>7 DEF CS!Lose
<1>9. S \in SUBSET CacheKeys /\ C \in SUBSET Clients
  BY DEF S, C
<1> QED
  BY <1>8, <1>9 DEF CS!Next

(* The cache is one in which every call takes effect at one moment, for    *)
(* any number of clients, keys, values and ticks: what a Get returns was   *)
(* there during the call, CompareAndSet compares with what is there, and a *)
(* key taken from nil has one owner.                                       *)
THEOREM CallsAreAtomic == Spec => ImplementsCacheStore
<1>1. Init => CS!Init
  <2> SUFFICES ASSUME Init PROVE CS!Init
    OBVIOUS
  <2>1. Value = [k \in CacheKeys |-> {}] /\ Owners = [k \in CacheKeys |-> {}]
    BY DEF Init, Value, Owners, Live, Over
  <2>2. Setting = [c \in Clients |-> {}] /\ Reading = [c \in Clients |-> {}]
    BY DEF Init, Setting, Reading
  <2> QED
    BY <2>1, <2>2 DEF CS!Init
<1>2. ASSUME CacheInv, CacheInv', [Next]_vars PROVE CS!Next \/ UNCHANGED CS!vars
  <2>1. CASE UNCHANGED vars
    BY <2>1, SameParts DEF vars, CS!vars
  <2>2. ASSUME NEW c \in Clients, NEW k \in CacheKeys, Delete(c, k) PROVE CS!Next
    BY <1>2, <2>2, RemovalLoses, SameParts DEF Delete
  <2>3. ASSUME NEW c \in Clients, NEW k \in CacheKeys, NEW old \in Values \cup {Nil},
               CompareAndSetFails(c, k, old)
        PROVE  UNCHANGED CS!vars
    BY <1>2, <2>3, MismatchMaps
  <2>4. ASSUME NEW c \in Clients, NEW k \in CacheKeys, NEW old \in Values \cup {Nil},
               NEW v \in Values, NEW ttl \in TTLs, CompareAndSet(c, k, old, v, ttl)
        PROVE  CS!Next
    BY <1>2, <2>4, SwapMaps
  <2>5. ASSUME NEW c \in Clients, GetReturns(c) \/ GetEvicts(c)
        PROVE  CS!Next \/ UNCHANGED CS!vars
    BY <1>2, <2>5, GetMaps
  <2>6. ASSUME NEW c \in Clients, NEW k \in CacheKeys, GetMisses(c, k) \/ GetReads(c, k)
        PROVE  CS!Next \/ UNCHANGED CS!vars
    BY <1>2, <2>6, GetMaps
  <2>7. ASSUME NEW c \in Clients, SetStores(c) PROVE CS!Next
    BY <1>2, <2>7, SetMaps
  <2>8. ASSUME NEW c \in Clients, NEW k \in CacheKeys, NEW v \in Values, NEW ttl \in TTLs,
               SetPrepares(c, k, v, ttl)
        PROVE  CS!Next
    BY <1>2, <2>8, SetMaps
  <2>9. CASE Tick
    BY <1>2, <2>9, TickMaps
  <2> QED
    BY <1>2, <2>1, <2>2, <2>3, <2>4, <2>5, <2>6, <2>7, <2>8, <2>9 DEF Next
<1>3. CacheInv /\ CacheInv' /\ [Next]_vars => [CS!Next]_(CS!vars)
  BY <1>2
<1> QED
  BY <1>1, <1>3, CacheInvariance, PTL DEF Spec, ImplementsCacheStore, CS!Spec
=============================================================================

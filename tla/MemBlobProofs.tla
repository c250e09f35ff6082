---------------------------- MODULE MemBlobProofs ----------------------------
(***************************************************************************)
(* Proofs about MemBlob for any number of clients and keys, and for        *)
(* readers that deliver anything of any length.                            *)
(***************************************************************************)
EXTENDS MemBlob, SequenceTheorems, TLAPS

-----------------------------------------------------------------------------

(* The stored blobs and the calls under way. *)
Blob == [data : Seq(Chunks), size : Nat, checksum : [sha256 : Seq(Chunks)], type : {NoType}]

PutCall == [key : BlobKeys, source : Seq(Chunks), type : {NoType}, data : Seq(Chunks)]

GetCall == [key : BlobKeys, data : Seq(Chunks), got : Seq(Chunks)]

BTypeOK ==
    /\ blobs \in [BlobKeys -> Blob \cup {Absent}]
    /\ putting \in [BlobClients -> PutCall \cup {Absent}]
    /\ reading \in [BlobClients -> GetCall \cup {Absent}]

(***************************************************************************)
(* OnlyWholePuts is inductive in well-typed states: what is stored is in   *)
(* stored from the moment PutStores succeeds, and a reader holds a blob's  *)
(* bytes by itself, so nothing done to the blob reaches it.                *)
(***************************************************************************)
BlobInv == BTypeOK /\ OnlyWholePuts

(* A reader that has delivered the beginning delivers the next chunk. *)
LEMMA NextChunk ==
    ASSUME NEW s \in Seq(Chunks), NEW t \in Seq(Chunks),
           BeginsWith(s, t), Len(t) < Len(s)
    PROVE  /\ Append(t, s[Len(t) + 1]) \in Seq(Chunks)
           /\ BeginsWith(s, Append(t, s[Len(t) + 1]))
<1> DEFINE n == Len(t) + 1
           u == Append(t, s[n])
<1>1. /\ Len(s) \in Nat /\ Len(t) \in Nat
      /\ n \in 1 .. Len(s)
  BY LenProperties
<1>2. s[n] \in Chunks
  BY <1>1, ElementOfSeq
<1>3. /\ u \in Seq(Chunks)
      /\ Len(u) = n
      /\ \A i \in 1 .. Len(t) : u[i] = t[i]
      /\ u[n] = s[n]
  BY <1>2, AppendProperties
<1>4. /\ SubSeq(s, 1, Len(t)) \in Seq(Chunks)
      /\ \A i \in 1 .. Len(t) : SubSeq(s, 1, Len(t))[i] = s[i]
  BY <1>1, SubSeqProperties
<1>5. \A i \in 1 .. n : u[i] = s[i]
  BY <1>1, <1>3, <1>4 DEF BeginsWith
<1>6. /\ SubSeq(s, 1, n) \in Seq(Chunks)
      /\ Len(SubSeq(s, 1, n)) = n
      /\ \A i \in 1 .. n : SubSeq(s, 1, n)[i] = s[i]
  BY <1>1, SubSeqProperties
<1> HIDE DEF u, n
<1>7. SubSeq(s, 1, n) = u
  BY <1>3, <1>5, <1>6, SeqEqual
<1>8. n <= Len(s)
  BY <1>1
<1>9. BeginsWith(s, u)
  BY <1>3, <1>7, <1>8 DEF BeginsWith
<1> QED
  BY <1>3, <1>9 DEF u, n

-----------------------------------------------------------------------------

(* Calls that have got another chunk are calls. *)
LEMMA CallShapes ==
    ASSUME NEW d \in Seq(Chunks)
    PROVE  /\ \A p \in PutCall : [p EXCEPT !.data = d] \in PutCall
           /\ \A r \in GetCall : /\ [r EXCEPT !.got = d] \in GetCall
                                         /\ [r EXCEPT !.got = d].key = r.key
                                         /\ [r EXCEPT !.got = d].data = r.data
                                         /\ [r EXCEPT !.got = d].got = d
  BY DEF PutCall, GetCall

(* A step that changes no blob and no reader. *)
LEMMA NoBlobMoves ==
    ASSUME BlobInv,
           putting' \in [BlobClients -> PutCall \cup {Absent}],
           UNCHANGED <<blobs, reading, stored>>
    PROVE  BlobInv'
  BY DEF BlobInv, BTypeOK, OnlyWholePuts, Exists, Checksum, BeginsWith

(* What reads its reader, stores nothing; a reader that fails leaves the   *)
(* blob that was there.                                                    *)
LEMMA PutUnderWayKeeps ==
    ASSUME BlobInv,
           NEW c \in BlobClients,
           \/ \E k \in BlobKeys, source \in Sources : PutBegins(c, k, source, NoType)
           \/ PutReads(c)
           \/ PutFails(c)
    PROVE  BlobInv'
<1>1. putting \in [BlobClients -> PutCall \cup {Absent}]
  BY DEF BlobInv, BTypeOK
<1>2. ASSUME NEW k \in BlobKeys, NEW source \in Sources, PutBegins(c, k, source, NoType)
      PROVE  BlobInv'
  <2>1. [key |-> k, source |-> source, type |-> NoType, data |-> << >>] \in PutCall
    BY EmptySeq, SourcesAssumption DEF PutCall
  <2>2. putting' \in [BlobClients -> PutCall \cup {Absent}]
    BY <1>1, <1>2, <2>1 DEF PutBegins
  <2> QED
    BY <1>2, <2>2, NoBlobMoves DEF PutBegins
<1>3. CASE PutReads(c)
  <2> DEFINE p == putting[c]
             q == [p EXCEPT !.data = Append(p.data, p.source[Len(p.data) + 1])]
  <2>1. p \in PutCall /\ Len(p.data) < Len(p.source)
    BY <1>1, <1>3 DEF PutReads
  <2>2. p.data \in Seq(Chunks) /\ p.source \in Seq(Chunks)
    BY <2>1 DEF PutCall
  <2>3. Append(p.data, p.source[Len(p.data) + 1]) \in Seq(Chunks)
    <3>1. Len(p.data) \in Nat /\ Len(p.source) \in Nat
      BY <2>2, LenProperties
    <3>2. p.source[Len(p.data) + 1] \in Chunks
      BY <2>1, <2>2, <3>1, ElementOfSeq
    <3> QED
      BY <2>2, <3>2, AppendProperties
  <2>4. q \in PutCall
    BY <2>1, <2>3, CallShapes
  <2>5. putting' = [putting EXCEPT ![c] = q]
    BY <1>3 DEF PutReads
  <2> HIDE DEF q
  <2>6. putting' \in [BlobClients -> PutCall \cup {Absent}]
    BY <1>1, <2>4, <2>5
  <2> QED
    BY <1>3, <2>6, NoBlobMoves DEF PutReads
<1>4. CASE PutFails(c)
  <2>1. putting' \in [BlobClients -> PutCall \cup {Absent}]
    BY <1>1, <1>4 DEF PutFails
  <2> QED
    BY <1>4, <2>1, NoBlobMoves DEF PutFails
<1> QED
  BY <1>2, <1>3, <1>4

(* Put replaces the blob by all that its reader delivered; whoever reads   *)
(* the old one goes on with the old bytes.                                 *)
LEMMA PutStoresKeeps ==
    ASSUME BlobInv, NEW c \in BlobClients, PutStores(c)
    PROVE  BlobInv'
<1> USE DEF BlobInv
<1> DEFINE k == putting[c].key
           d == putting[c].data
           b == NewBlob(d, putting[c].type)
<1>1. /\ putting[c] # Absent
      /\ blobs' = [blobs EXCEPT ![k] = b]
      /\ putting' = [putting EXCEPT ![c] = Absent]
      /\ stored' = stored \cup {[key |-> k, data |-> d]}
      /\ UNCHANGED reading
  BY DEF PutStores
<1>2. k \in BlobKeys /\ d \in Seq(Chunks) /\ putting[c].type = NoType
  BY <1>1 DEF BTypeOK, PutCall
<1>3. /\ b \in Blob
      /\ b.data = d
      /\ b.size = Len(d)
      /\ b.checksum = Checksum(d)
  BY <1>2, LenProperties DEF NewBlob, Checksum, Blob
<1> HIDE DEF k, d, b
<1>4. BTypeOK'
  BY <1>1, <1>2, <1>3 DEF BTypeOK
<1>5. blobs'[k] = b /\ \A l \in BlobKeys \ {k} : blobs'[l] = blobs[l]
  BY <1>1, <1>2 DEF BTypeOK
<1>6. [key |-> k, data |-> d] \in stored' /\ stored \subseteq stored'
  BY <1>1
<1>7. ASSUME NEW l \in BlobKeys, Exists(l)'
      PROVE  /\ [key |-> l, data |-> blobs'[l].data] \in stored'
             /\ blobs'[l].size = Len(blobs'[l].data)
             /\ blobs'[l].checksum = Checksum(blobs'[l].data)
  <2>1. CASE l = k
    BY <1>3, <1>5, <1>6, <2>1
  <2>2. CASE l # k
    BY <1>5, <1>6, <1>7, <2>2 DEF OnlyWholePuts, Exists
  <2> QED
    BY <2>1, <2>2
<1>8. \A e \in BlobClients : reading'[e] # Absent =>
        /\ [key |-> reading'[e].key, data |-> reading'[e].data] \in stored'
        /\ BeginsWith(reading'[e].data, reading'[e].got)
  BY <1>1, <1>6 DEF OnlyWholePuts
<1> QED
  BY <1>4, <1>7, <1>8 DEF OnlyWholePuts, Checksum, BeginsWith

(* A step of a reader. *)
LEMMA ReaderMoves ==
    ASSUME BlobInv, NEW c \in BlobClients,
           NEW x \in GetCall \cup {Absent},
           reading' = [reading EXCEPT ![c] = x],
           x # Absent => /\ [key |-> x.key, data |-> x.data] \in stored
                         /\ BeginsWith(x.data, x.got),
           UNCHANGED <<blobs, putting, stored>>
    PROVE  BlobInv'
<1> USE DEF BlobInv
<1>1. BTypeOK'
  BY DEF BTypeOK
<1>2. reading'[c] = x /\ \A e \in BlobClients \ {c} : reading'[e] = reading[e]
  BY DEF BTypeOK
<1>3. \A e \in BlobClients : reading'[e] # Absent =>
        /\ [key |-> reading'[e].key, data |-> reading'[e].data] \in stored
        /\ BeginsWith(reading'[e].data, reading'[e].got)
  BY <1>2 DEF OnlyWholePuts
<1>4. \A k \in BlobKeys : Exists(k)' =>
        /\ [key |-> k, data |-> blobs[k].data] \in stored
        /\ blobs[k].size = Len(blobs[k].data)
        /\ blobs[k].checksum = Checksum(blobs[k].data)
  BY DEF OnlyWholePuts, Exists
<1> QED
  BY <1>1, <1>3, <1>4 DEF OnlyWholePuts, Checksum, BeginsWith

(* Get and the reader it returns. *)
LEMMA GetKeeps ==
    ASSUME BlobInv, NEW c \in BlobClients,
           (\E k \in BlobKeys : GetOpens(c, k)) \/ GetReads(c) \/ GetEnds(c)
    PROVE  BlobInv'
<1> USE DEF BlobInv
<1>1. ASSUME NEW k \in BlobKeys, GetOpens(c, k) PROVE BlobInv'
  <2> DEFINE x == [key |-> k, data |-> blobs[k].data, got |-> << >>]
  <2>1. blobs[k] \in Blob /\ [key |-> k, data |-> blobs[k].data] \in stored
    BY <1>1 DEF GetOpens, Exists, BTypeOK, OnlyWholePuts
  <2>2. blobs[k].data \in Seq(Chunks)
    BY <2>1 DEF Blob
  <2>3. x \in GetCall
    BY <2>2, EmptySeq DEF GetCall
  <2>4. BeginsWith(x.data, x.got)
    <3>1. SubSeq(blobs[k].data, 1, 0) = << >>
      BY SubSeqEmpty
    <3>2. Len(blobs[k].data) \in Nat
      BY <2>2, LenProperties
    <3> QED
      BY <3>1, <3>2 DEF BeginsWith
  <2>5. reading' = [reading EXCEPT ![c] = x] /\ UNCHANGED <<blobs, putting, stored>>
    BY <1>1 DEF GetOpens
  <2>6. [key |-> x.key, data |-> x.data] \in stored
    BY <2>1
  <2> HIDE DEF x
  <2> QED
    BY <2>3, <2>4, <2>5, <2>6, ReaderMoves
<1>2. CASE GetReads(c)
  <2> DEFINE r == reading[c]
             more == Append(r.got, r.data[Len(r.got) + 1])
             x == [r EXCEPT !.got = more]
  <2>1. /\ r \in GetCall /\ Len(r.got) < Len(r.data)
        /\ [key |-> r.key, data |-> r.data] \in stored
        /\ BeginsWith(r.data, r.got)
    BY <1>2 DEF GetReads, BTypeOK, OnlyWholePuts
  <2>2. r.data \in Seq(Chunks) /\ r.got \in Seq(Chunks)
    BY <2>1 DEF GetCall
  <2>3. more \in Seq(Chunks) /\ BeginsWith(r.data, more)
    BY <2>1, <2>2, NextChunk
  <2>4. x \in GetCall /\ x.key = r.key /\ x.data = r.data /\ x.got = more
    <3> HIDE DEF r, more
    <3> QED
      BY <2>1, <2>3, CallShapes
  <2>5. reading' = [reading EXCEPT ![c] = x] /\ UNCHANGED <<blobs, putting, stored>>
    BY <1>2 DEF GetReads
  <2> HIDE DEF x
  <2> QED
    BY <2>1, <2>3, <2>4, <2>5, ReaderMoves
<1>3. CASE GetEnds(c)
  BY <1>3, ReaderMoves DEF GetEnds
<1> QED
  BY <1>1, <1>2, <1>3

(* Delete takes a blob from the map and not from its readers. *)
LEMMA DeleteKeeps ==
    ASSUME BlobInv, NEW c \in BlobClients, NEW k \in BlobKeys, Delete(c, k)
    PROVE  BlobInv'
<1> USE DEF BlobInv
<1>1. blobs' = [blobs EXCEPT ![k] = Absent] /\ UNCHANGED <<putting, reading, stored>>
  BY DEF Delete
<1>2. BTypeOK'
  BY <1>1 DEF BTypeOK
<1>3. blobs'[k] = Absent /\ \A l \in BlobKeys \ {k} : blobs'[l] = blobs[l]
  BY <1>1 DEF BTypeOK
<1>4. OnlyWholePuts'
  BY <1>1, <1>3 DEF OnlyWholePuts, Exists, Checksum, BeginsWith
<1> QED
  BY <1>2, <1>4

-----------------------------------------------------------------------------

(* However many clients put, read and delete blobs at the same time, and   *)
(* wherever their readers fail, nobody sees a part of a blob or a mixture  *)
(* of two.                                                                 *)
THEOREM WholePuts == BSpec => []OnlyWholePuts
<1>1. BInit => BlobInv
  <2> SUFFICES ASSUME BInit PROVE BlobInv
    OBVIOUS
  <2>1. BTypeOK
    BY DEF BInit, BTypeOK
  <2>2. OnlyWholePuts
    BY DEF BInit, OnlyWholePuts, Exists
  <2> QED
    BY <2>1, <2>2 DEF BlobInv
<1>2. ASSUME BlobInv, [BNext]_bvars
      PROVE  BlobInv'
  <2>1. CASE UNCHANGED bvars
    BY <1>2, <2>1, NoBlobMoves DEF bvars, BlobInv, BTypeOK
  <2>2. CASE BNext
    BY <1>2, <2>2, PutUnderWayKeeps, PutStoresKeeps, GetKeeps, DeleteKeeps DEF BNext
  <2> QED
    BY <1>2, <2>1, <2>2
<1>3. BlobInv /\ [BNext]_bvars => BlobInv'
  BY <1>2
<1>4. BlobInv => OnlyWholePuts
  BY DEF BlobInv
<1> QED
  BY <1>1, <1>3, <1>4, PTL DEF BSpec
=============================================================================

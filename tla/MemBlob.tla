------------------------------- MODULE MemBlob -------------------------------
(***************************************************************************)
(* The in-memory BlobStore (provider/blob/memblob).  Put reads its reader  *)
(* to the end, which takes as long as it takes and may fail half way,      *)
(* before it takes the lock.  Get hands out a reader over the stored bytes *)
(* and the caller reads from it when no lock is held, while others put and *)
(* delete.                                                                 *)
(*                                                                         *)
(* Bytes are sequences of chunks.  Keys are records of a directory and a   *)
(* name, which is as much of a string as List's prefix test looks at.  The *)
(* content type stands for all the metadata the caller provides.           *)
(***************************************************************************)
EXTENDS Naturals, Sequences

CONSTANTS
    BlobClients,
    BlobKeys,
    Chunks,         \* what readers deliver at a time
    Sources,        \* what the readers of Puts have to deliver in all
    NoType,         \* the content type of a Put that names none
    Absent          \* no blob, no call under way

ASSUME SourcesAssumption == Sources \subseteq Seq(Chunks)

VARIABLES
    blobs,      \* Store.blobs
    putting,    \* per client: the Put that is reading its reader
    reading,    \* per client: the reader its Get returned and what came of it
    stored      \* ghost: the key and contents of every Put that succeeded

bvars == <<blobs, putting, reading, stored>>

-----------------------------------------------------------------------------

(* hex.EncodeToString(sha256.Sum256(data)): equal for equal bytes only. *)
Checksum(data) == [sha256 |-> data]

NewBlob(data, type) == [data |-> data, size |-> Len(data), checksum |-> Checksum(data), type |-> type]

BInit == /\ blobs = [k \in BlobKeys |-> Absent]
         /\ putting = [c \in BlobClients |-> Absent]
         /\ reading = [c \in BlobClients |-> Absent]
         /\ stored = {}

Exists(k) == blobs[k] # Absent

Idle(c) == putting[c] = Absent /\ reading[c] = Absent

(* Client c calls Put with a reader that has source to deliver. *)
PutBegins(c, k, source, type) ==
    /\ Idle(c)
    /\ putting' = [putting EXCEPT ![c] = [key |-> k, source |-> source, type |-> type, data |-> << >>]]
    /\ UNCHANGED <<blobs, reading, stored>>

(* io.ReadAll gets another chunk. *)
PutReads(c) ==
    /\ putting[c] # Absent
    /\ Len(putting[c].data) < Len(putting[c].source)
    /\ putting' = [putting EXCEPT ![c].data = Append(@, putting[c].source[Len(@) + 1])]
    /\ UNCHANGED <<blobs, reading, stored>>

PutStoresTheRest(c) ==
    /\ putting[c] # Absent
    /\ blobs' = [blobs EXCEPT ![putting[c].key] = NewBlob(putting[c].data, putting[c].type)]
    /\ putting' = [putting EXCEPT ![c] = Absent]
    /\ UNCHANGED <<reading, stored>>

(* The reader fails; what it has delivered is dropped. *)
PutFails(c) ==
    /\ putting[c] # Absent
    /\ putting' = [putting EXCEPT ![c] = Absent]
    /\ UNCHANGED <<blobs, reading, stored>>

(* The reader is at its end: the blob is replaced under the lock. *)
PutStores(c) ==
    /\ putting[c] # Absent
    /\ putting[c].data = putting[c].source
    /\ blobs' = [blobs EXCEPT ![putting[c].key] = NewBlob(putting[c].data, putting[c].type)]
    /\ putting' = [putting EXCEPT ![c] = Absent]
    /\ stored' = stored \cup {[key |-> putting[c].key, data |-> putting[c].data]}
    /\ UNCHANGED reading

(* Get: a reader over the bytes the blob has now. *)
GetOpens(c, k) ==
    /\ Idle(c)
    /\ Exists(k)
    /\ reading' = [reading EXCEPT ![c] = [key |-> k, data |-> blobs[k].data, got |-> << >>]]
    /\ UNCHANGED <<blobs, putting, stored>>

(* The caller reads a chunk ... *)
GetReads(c) ==
    /\ reading[c] # Absent
    /\ Len(reading[c].got) < Len(reading[c].data)
    /\ reading' = [reading EXCEPT ![c].got = Append(@, reading[c].data[Len(@) + 1])]
    /\ UNCHANGED <<blobs, putting, stored>>

(* ... until it meets the end. *)
GetEnds(c) ==
    /\ reading[c] # Absent
    /\ reading[c].got = reading[c].data
    /\ reading' = [reading EXCEPT ![c] = Absent]
    /\ UNCHANGED <<blobs, putting, stored>>

Delete(c, k) ==
    /\ Idle(c)
    /\ Exists(k)
    /\ blobs' = [blobs EXCEPT ![k] = Absent]
    /\ UNCHANGED <<putting, reading, stored>>

(* List: the keys, in no order, that begin with the directories given; no  *)
(* directory is the empty prefix.                                          *)
List(dirs) == {k \in BlobKeys : Exists(k) /\ (dirs = {} \/ k.dir \in dirs)}

(* Clients at work. *)
BNext ==
    \E c \in BlobClients :
        \/ \E k \in BlobKeys :
            \/ \E source \in Sources : PutBegins(c, k, source, NoType)
            \/ GetOpens(c, k)
            \/ Delete(c, k)
        \/ PutReads(c) \/ PutFails(c) \/ PutStores(c)
        \/ GetReads(c) \/ GetEnds(c)

BSpec == BInit /\ [][BNext]_bvars

-----------------------------------------------------------------------------

BeginsWith(s, t) == Len(t) <= Len(s) /\ SubSeq(s, 1, Len(t)) = t

(* Nobody ever gets to see a part of a blob or a mixture of two: what is   *)
(* stored is what one successful Put of that key was given, with its size  *)
(* and checksum, and what a reader has delivered is the beginning of such  *)
(* contents and all of it in the end, whatever Puts failed half way and    *)
(* whatever was put and deleted under the reader.                          *)
OnlyWholePuts ==
    /\ \A k \in BlobKeys : Exists(k) =>
        /\ [key |-> k, data |-> blobs[k].data] \in stored
        /\ blobs[k].size = Len(blobs[k].data)
        /\ blobs[k].checksum = Checksum(blobs[k].data)
    /\ \A c \in BlobClients : reading[c] # Absent =>
        /\ [key |-> reading[c].key, data |-> reading[c].data] \in stored
        /\ BeginsWith(reading[c].data, reading[c].got)
=============================================================================

----------------------------- MODULE LocalView -----------------------------
(***************************************************************************)
(* What the pages of Travelers are shown of a document: LocalStore's copy  *)
(* of a version of the backend, under the writes of this device that the   *)
(* backend has not answered.  The two come by different streams.  The      *)
(* watch stream brings versions of the document, the write stream the      *)
(* versions the device's own writes became, and neither waits for the      *)
(* other: an acknowledged write is put on top of whatever copy there is,   *)
(* and a version may come that is older than it.                           *)
(*                                                                         *)
(* One document, of several fields; a write sets some of them (merge) or   *)
(* all of them, to the number of the write.                                *)
(***************************************************************************)
EXTENDS Naturals, Sequences, FiniteSetsExt

CONSTANTS
  Fields,
  MaxMade,     \* bound on the writes, of this device and of others
  MaxVersions  \* bound on the versions of the document

ASSUME ViewAssumption == MaxMade \in Nat /\ MaxVersions \in Nat

NoValue == 0
Values == 0 .. MaxMade
Writes == [id : Values, fields : SUBSET Fields]

VARIABLES
  docs,    \* the versions of the document at the backend
  made,    \* how many writes were made
  queue,   \* this device's mutation queue
  acks,    \* versions of the writes at its front, executed and not answered
  cache,   \* the remote document cache
  snap     \* version of the last snapshot of the watch stream

vars == <<docs, made, queue, acks, cache, snap>>

(* Version 1 was made before, with number 0. *)
Init ==
  /\ docs = << [f \in Fields |-> NoValue] >>
  /\ made = 0
  /\ queue = << >>
  /\ acks = << >>
  /\ cache = [version |-> 0, data |-> [f \in Fields |-> NoValue], committed |-> FALSE]
  /\ snap = 0
-----------------------------------------------------------------------------
(* Mutation::ApplyTo: the fields of a write over those of a document. *)
Patched(data, w) == [f \in Fields |-> IF f \in w.fields THEN w.id ELSE data[f]]

(* The document with all batches of the queue applied. *)
View(f) ==
  LET own == {i \in DOMAIN queue : f \in queue[i].fields}
  IN  IF own = {} THEN cache.data[f] ELSE queue[Max(own)].id

WriteLocally(F) ==
  /\ made < MaxMade
  /\ made' = made + 1
  /\ queue' = Append(queue, [id |-> made + 1, fields |-> F])
  /\ UNCHANGED <<docs, acks, cache, snap>>

(* ApplyBatchResult: has the copy seen the write? *)
ApplyBatchResult(w, ackVersion) ==
  cache' = IF cache.version < ackVersion
             THEN [version |-> ackVersion, data |-> Patched(cache.data, w), committed |-> TRUE]
             ELSE cache

AcknowledgeBatch ==
  /\ acks # << >>
  /\ ApplyBatchResult(Head(queue), Head(acks))
  /\ queue' = Tail(queue)
  /\ acks' = Tail(acks)
  /\ UNCHANGED <<docs, made, snap>>

(* A permanent error closes the stream, and the front is blamed for it     *)
(* even if it was executed (WriteStream, RejectedWasRefused).              *)
RejectBatch ==
  /\ queue # << >>
  /\ queue' = Tail(queue)
  /\ acks' = << >>
  /\ UNCHANGED <<docs, made, cache, snap>>

(* Faulty: a version the copy has already is never taken. *)
TakesOnlyNewer(version) == version > cache.version

(* Faulty: the last to come is right. *)
TakesAny(version) == TRUE

(* PopulateDocumentChanges: the same version is taken for what this device *)
(* put together itself.                                                    *)
Takes(version) ==
  \/ cache.version = 0 \/ version > cache.version
  \/ version = cache.version /\ cache.committed

ApplyRemoteEvent(version) ==
  /\ version \in 1 .. Len(docs) /\ version >= snap
  /\ snap' = version
  /\ cache' = IF Takes(version)
                THEN [version |-> version, data |-> docs[version], committed |-> FALSE]
                ELSE cache
  /\ UNCHANGED <<docs, made, queue, acks>>
-----------------------------------------------------------------------------
(* The backend. *)

Execute(w) ==
  /\ Len(docs) < MaxVersions
  /\ docs' = Append(docs, Patched(docs[Len(docs)], w))

Commit ==
  /\ Len(acks) < Len(queue)
  /\ Execute(queue[Len(acks) + 1])
  /\ acks' = Append(acks, Len(docs) + 1)
  /\ UNCHANGED <<made, queue, cache, snap>>

ForeignWrite(F) ==
  /\ made < MaxMade
  /\ made' = made + 1
  /\ Execute([id |-> made + 1, fields |-> F])
  /\ UNCHANGED <<queue, acks, cache, snap>>

(* A lost write stream: what was sent is sent again. *)
StreamClosed ==
  /\ acks # << >>
  /\ acks' = << >>
  /\ UNCHANGED <<docs, made, queue, cache, snap>>

Next ==
  \/ \E F \in SUBSET Fields \ {{}} : WriteLocally(F) \/ ForeignWrite(F)
  \/ AcknowledgeBatch \/ RejectBatch
  \/ \E version \in 1 .. MaxVersions : ApplyRemoteEvent(version)
  \/ Commit \/ StreamClosed

Spec == Init /\ [][Next]_vars
-----------------------------------------------------------------------------
(* Every variable in its range; what was executed is in the queue.         *)
TypeOK ==
  /\ docs \in Seq([Fields -> Values]) /\ docs # << >>
  /\ made \in 0 .. MaxMade
  /\ queue \in Seq(Writes)
  /\ acks \in Seq(1 .. Len(docs)) /\ Len(acks) <= Len(queue)
  /\ cache \in [version : 0 .. Len(docs), data : [Fields -> Values], committed : BOOLEAN]
  /\ snap \in 0 .. Len(docs)

(* A copy that is not marked as having committed mutations is a version of *)
(* the document; what the device put together itself is marked, until the  *)
(* watch stream has brought that version or a later one.                   *)
CopyIsVersion ==
  ~cache.committed /\ cache.version > 0 => cache.data = docs[cache.version]

(* Once the writes are answered and the watch stream has caught up, the    *)
(* pages are shown what the backend has, whatever the order of the answers *)
(* and versions was.                                                       *)
SettledIsCurrent ==
  queue = << >> /\ snap = Len(docs) => \A f \in Fields : View(f) = docs[Len(docs)][f]

(* A field never goes back on the screen: not from an own write to what it *)
(* replaced, nor from a version to an earlier one.  Only the refusal of a  *)
(* write takes it back.                                                    *)
ReplacedBy(f, a, b) ==
  \/ \E i \in DOMAIN queue' : queue'[i].id = b
  \/ \E v, w \in DOMAIN docs' : v < w /\ docs'[v][f] = a /\ docs'[w][f] = b

NeverGoesBack ==
  [][\A f \in Fields :
       View(f)' # View(f) => ReplacedBy(f, View(f), View(f)') \/ RejectBatch]_vars
=============================================================================

--------------------------- MODULE LocalViewProofs ---------------------------
(***************************************************************************)
(* Proofs about LocalView, for any number of fields, writes and versions.  *)
(* The inductive invariant adds where the copy stands to the snapshots:    *)
(* never behind the last one, and no longer put together on the device     *)
(* once that has come.                                                     *)
(***************************************************************************)
EXTENDS LocalView, WellFoundedInduction, TLAPS

CopyIsRecent == snap <= cache.version /\ (cache.version = snap => ~cache.committed)

(* What was executed is in the versions, the later the newer, and newer    *)
(* than a copy the device put together itself.                             *)
AcksCommitted ==
  /\ \A i \in DOMAIN acks : \A f \in queue[i].fields : docs[acks[i]][f] = queue[i].id
  /\ \A i, j \in DOMAIN acks : i < j => acks[i] < acks[j]
  /\ cache.committed => \A i \in DOMAIN acks : cache.version < acks[i]

(* Each field of the copy is that of a version it is not older than.       *)
CopyIsFromVersions ==
  \A f \in Fields : \E v \in DOMAIN docs :
    (v = 1 \/ v <= cache.version) /\ cache.data[f] = docs[v][f]

IInv == TypeOK /\ CopyIsVersion /\ CopyIsRecent

ViewIInv == IInv /\ AcksCommitted /\ CopyIsFromVersions

LEMMA InitIInv == Init => IInv
BY ViewAssumption
   DEF Init, IInv, TypeOK, CopyIsVersion, CopyIsRecent, Values, NoValue, Writes

LEMMA PatchedType ==
  ASSUME NEW data \in [Fields -> Values], NEW w \in Writes
  PROVE  Patched(data, w) \in [Fields -> Values]
BY DEF Patched, Writes

(* A version more at the backend leaves the others as they are.            *)
LEMMA ExecuteFacts ==
  ASSUME IInv, NEW w \in Writes, Execute(w), UNCHANGED <<cache, snap>>
  PROVE  /\ docs' \in Seq([Fields -> Values]) /\ docs' # << >>
         /\ Len(docs') = Len(docs) + 1 /\ Len(docs) \in Nat
         /\ cache' \in [version : 0 .. Len(docs'), data : [Fields -> Values],
                        committed : BOOLEAN]
         /\ snap' \in 0 .. Len(docs')
         /\ CopyIsVersion' /\ CopyIsRecent'
<1>1. docs[Len(docs)] \in [Fields -> Values]
  BY DEF IInv, TypeOK
<1>2. docs' = Append(docs, Patched(docs[Len(docs)], w))
      /\ Patched(docs[Len(docs)], w) \in [Fields -> Values]
  BY <1>1, PatchedType DEF Execute
<1>3. /\ docs' \in Seq([Fields -> Values]) /\ docs' # << >>
      /\ Len(docs') = Len(docs) + 1 /\ Len(docs) \in Nat
      /\ \A v \in 1 .. Len(docs) : docs'[v] = docs[v]
  BY <1>2 DEF IInv, TypeOK
<1> QED
  BY <1>3 DEF IInv, TypeOK, CopyIsVersion, CopyIsRecent

LEMMA NextIInv == IInv /\ [Next]_vars => IInv'
<1> SUFFICES ASSUME IInv, [Next]_vars PROVE IInv'
  OBVIOUS
<1>0. MaxMade \in Nat
  BY ViewAssumption
<1>1. ASSUME NEW F \in SUBSET Fields, WriteLocally(F) PROVE IInv'
  <2>1. [id |-> made + 1, fields |-> F] \in Writes /\ made' \in 0 .. MaxMade
    BY <1>0, <1>1 DEF WriteLocally, Writes, Values, IInv, TypeOK
  <2>2. queue' \in Seq(Writes) /\ Len(queue') = Len(queue) + 1
    BY <1>1, <2>1 DEF WriteLocally, IInv, TypeOK
  <2>3. UNCHANGED <<docs, acks, cache, snap>>
    BY <1>1 DEF WriteLocally
  <2> QED
    BY <2>1, <2>2, <2>3 DEF IInv, TypeOK, CopyIsVersion, CopyIsRecent
<1>2. ASSUME NEW F \in SUBSET Fields, ForeignWrite(F) PROVE IInv'
  <2>1. [id |-> made + 1, fields |-> F] \in Writes /\ made' \in 0 .. MaxMade
    BY <1>0, <1>2 DEF ForeignWrite, Writes, Values, IInv, TypeOK
  <2>2. Execute([id |-> made + 1, fields |-> F]) /\ UNCHANGED <<queue, acks, cache, snap>>
    BY <1>2 DEF ForeignWrite
  <2>3. acks' \in Seq(1 .. Len(docs')) /\ Len(acks') <= Len(queue')
    BY <2>1, <2>2, ExecuteFacts DEF IInv, TypeOK
  <2> QED
    BY <2>1, <2>2, <2>3, ExecuteFacts DEF IInv, TypeOK
<1>3. CASE Commit
  <2>1. queue[Len(acks) + 1] \in Writes /\ Len(acks) < Len(queue)
    BY <1>3 DEF Commit, IInv, TypeOK
  <2>2. Execute(queue[Len(acks) + 1]) /\ UNCHANGED <<made, queue, cache, snap>>
    BY <1>3 DEF Commit
  <2>3. acks' = Append(acks, Len(docs) + 1)
    BY <1>3 DEF Commit
  <2>4. Len(docs') = Len(docs) + 1 /\ Len(docs) \in Nat
    BY <2>1, <2>2, ExecuteFacts
  <2>5. acks \in Seq(1 .. Len(docs')) /\ Len(docs) + 1 \in 1 .. Len(docs')
    BY <2>4 DEF IInv, TypeOK
  <2>6. acks' \in Seq(1 .. Len(docs')) /\ Len(acks') = Len(acks) + 1
    BY <2>3, <2>5
  <2> QED
    BY <2>1, <2>2, <2>6, ExecuteFacts DEF IInv, TypeOK
<1>4. CASE AcknowledgeBatch
  <2>1. /\ Head(acks) \in 1 .. Len(docs) /\ Head(queue) \in Writes
        /\ acks' \in Seq(1 .. Len(docs)) /\ queue' \in Seq(Writes)
        /\ Len(acks') <= Len(queue')
    BY <1>4 DEF AcknowledgeBatch, IInv, TypeOK
  <2>2. UNCHANGED <<docs, made, snap>>
    BY <1>4 DEF AcknowledgeBatch
  <2>3. Patched(cache.data, Head(queue)) \in [Fields -> Values]
    BY <2>1, PatchedType DEF IInv, TypeOK
  <2>4. \/ cache' = cache
        \/ /\ cache.version < Head(acks)
           /\ cache' = [version |-> Head(acks), data |-> Patched(cache.data, Head(queue)),
                        committed |-> TRUE]
    BY <1>4 DEF AcknowledgeBatch, ApplyBatchResult
  <2>5. CASE cache' = cache
    BY <2>1, <2>2, <2>5 DEF IInv, TypeOK, CopyIsVersion, CopyIsRecent
  <2>6. CASE /\ cache.version < Head(acks)
             /\ cache' = [version |-> Head(acks), data |-> Patched(cache.data, Head(queue)),
                          committed |-> TRUE]
    <3>1. /\ cache'.version = Head(acks) /\ cache'.committed
          /\ cache' \in [version : 0 .. Len(docs), data : [Fields -> Values],
                         committed : BOOLEAN]
      BY <2>1, <2>3, <2>6
    <3>2. snap < cache'.version
      BY <2>1, <2>6, <3>1 DEF IInv, TypeOK, CopyIsRecent
    <3> QED
      BY <2>1, <2>2, <3>1, <3>2 DEF IInv, TypeOK, CopyIsVersion, CopyIsRecent
  <2> QED
    BY <2>4, <2>5, <2>6
<1>5. CASE RejectBatch
  BY <1>5 DEF RejectBatch, IInv, TypeOK, CopyIsVersion, CopyIsRecent
<1>6. ASSUME NEW version \in 1 .. MaxVersions, ApplyRemoteEvent(version) PROVE IInv'
  <2>1. /\ version \in 1 .. Len(docs) /\ version >= snap /\ snap' = version
        /\ UNCHANGED <<docs, made, queue, acks>>
    BY <1>6 DEF ApplyRemoteEvent
  <2>2. docs[version] \in [Fields -> Values]
    BY <2>1 DEF IInv, TypeOK
  <2>3. CASE Takes(version)
    <3>1. cache' = [version |-> version, data |-> docs[version], committed |-> FALSE]
      BY <1>6, <2>3 DEF ApplyRemoteEvent
    <3> QED
      BY <2>1, <2>2, <3>1 DEF IInv, TypeOK, CopyIsVersion, CopyIsRecent
  <2>4. CASE ~Takes(version)
    <3>1. cache' = cache /\ version <= cache.version
          /\ (version = cache.version => ~cache.committed)
      BY <1>6, <2>1, <2>4 DEF ApplyRemoteEvent, Takes, IInv, TypeOK
    <3> QED
      BY <2>1, <3>1 DEF IInv, TypeOK, CopyIsVersion, CopyIsRecent
  <2> QED
    BY <2>3, <2>4
<1>7. CASE StreamClosed
  BY <1>7 DEF StreamClosed, IInv, TypeOK, CopyIsVersion, CopyIsRecent
<1>8. CASE UNCHANGED vars
  BY <1>8 DEF vars, IInv, TypeOK, CopyIsVersion, CopyIsRecent
<1> QED
  BY <1>1, <1>2, <1>3, <1>4, <1>5, <1>6, <1>7, <1>8 DEF Next

LEMMA InvariantHolds == Spec => []IInv
BY InitIInv, NextIInv, PTL DEF Spec

(* Every variable keeps its type.                                          *)
THEOREM TypeCorrect == Spec => []TypeOK
<1>1. IInv => TypeOK
  BY DEF IInv
<1> QED
  BY <1>1, InvariantHolds, PTL

(* A copy not marked as put together on the device is a version of the     *)
(* document (ApplyBatchResult, PopulateDocumentChanges).                   *)
THEOREM CopiesAreVersions == Spec => []CopyIsVersion
<1>1. IInv => CopyIsVersion
  BY DEF IInv
<1> QED
  BY <1>1, InvariantHolds, PTL

(* At rest the pages are shown what the backend has, in whatever order the *)
(* two streams brought it.                                                 *)
THEOREM SettledAlwaysCurrent == Spec => []SettledIsCurrent
<1>1. IInv => SettledIsCurrent
  <2> SUFFICES ASSUME IInv, queue = << >>, snap = Len(docs), NEW f \in Fields
               PROVE  View(f) = docs[Len(docs)][f]
    BY DEF SettledIsCurrent
  <2>1. cache.version = Len(docs) /\ ~cache.committed /\ cache.version > 0
    BY DEF IInv, TypeOK, CopyIsRecent
  <2>2. cache.data = docs[Len(docs)]
    BY <2>1 DEF IInv, CopyIsVersion
  <2>3. {i \in DOMAIN queue : f \in queue[i].fields} = {}
    OBVIOUS
  <2> QED
    BY <2>2, <2>3 DEF View
<1> QED
  BY <1>1, InvariantHolds, PTL
-----------------------------------------------------------------------------
(* What is left of a sequence moves up by one.                             *)
LEMMA TailMovesUp ==
  ASSUME NEW T, NEW s \in Seq(T), s # << >>
  PROVE  /\ DOMAIN Tail(s) = 1 .. Len(s) - 1 /\ Len(s) \in Nat \ {0}
         /\ \A i \in 1 .. Len(s) - 1 : Tail(s)[i] = s[i + 1] /\ i + 1 \in DOMAIN s
OBVIOUS

LEMMA InitViewIInv == Init => ViewIInv
<1> SUFFICES ASSUME Init PROVE AcksCommitted /\ CopyIsFromVersions
  BY InitIInv DEF ViewIInv
<1> QED
  BY DEF Init, AcksCommitted, CopyIsFromVersions

LEMMA ExecuteKeepsVersions ==
  ASSUME IInv, NEW w \in Writes, Execute(w)
  PROVE  /\ \A v \in 1 .. Len(docs) : docs'[v] = docs[v]
         /\ docs'[Len(docs) + 1] = Patched(docs[Len(docs)], w)
         /\ Len(docs) \in Nat /\ DOMAIN docs = 1 .. Len(docs)
         /\ DOMAIN docs' = 1 .. Len(docs) + 1
<1>1. docs[Len(docs)] \in [Fields -> Values]
  BY DEF IInv, TypeOK
<1>2. docs' = Append(docs, Patched(docs[Len(docs)], w))
      /\ Patched(docs[Len(docs)], w) \in [Fields -> Values]
  BY <1>1, PatchedType DEF Execute
<1> QED
  BY <1>2 DEF IInv, TypeOK

LEMMA NextViewIInv == ViewIInv /\ [Next]_vars => ViewIInv'
<1> SUFFICES ASSUME ViewIInv, [Next]_vars PROVE AcksCommitted' /\ CopyIsFromVersions'
  BY NextIInv DEF ViewIInv
<1> USE DEF ViewIInv
<1>0. MaxMade \in Nat
  BY ViewAssumption
<1>1. ASSUME NEW F \in SUBSET Fields, WriteLocally(F)
      PROVE  AcksCommitted' /\ CopyIsFromVersions'
  <2>1. [id |-> made + 1, fields |-> F] \in Writes
    BY <1>0, <1>1 DEF WriteLocally, Writes, Values, IInv, TypeOK
  <2>2. \A i \in DOMAIN acks : queue'[i] = queue[i]
    BY <1>1, <2>1 DEF WriteLocally, IInv, TypeOK
  <2>3. UNCHANGED <<docs, acks, cache>>
    BY <1>1 DEF WriteLocally
  <2>4. \A i \in DOMAIN acks' : \A f \in queue'[i].fields : docs'[acks'[i]][f] = queue'[i].id
    BY <2>2, <2>3 DEF AcksCommitted
  <2> QED
    BY <2>3, <2>4 DEF AcksCommitted, CopyIsFromVersions
<1>2. ASSUME NEW F \in SUBSET Fields, ForeignWrite(F)
      PROVE  AcksCommitted' /\ CopyIsFromVersions'
  <2>1. [id |-> made + 1, fields |-> F] \in Writes
    BY <1>0, <1>2 DEF ForeignWrite, Writes, Values, IInv, TypeOK
  <2>2. Execute([id |-> made + 1, fields |-> F]) /\ UNCHANGED <<queue, acks, cache, snap>>
    BY <1>2 DEF ForeignWrite
  <2>3. \A i \in DOMAIN acks : acks[i] \in 1 .. Len(docs)
    BY DEF IInv, TypeOK
  <2> QED
    BY <2>1, <2>2, <2>3, ExecuteKeepsVersions DEF AcksCommitted, CopyIsFromVersions
<1>3. CASE Commit
  <2> DEFINE n == Len(acks) + 1
  <2>1. queue[n] \in Writes /\ n \in DOMAIN queue
    BY <1>3 DEF Commit, IInv, TypeOK
  <2>2. /\ Execute(queue[n]) /\ UNCHANGED <<made, queue, cache, snap>>
        /\ acks' = Append(acks, Len(docs) + 1)
    BY <1>3 DEF Commit
  <2>3. \A i \in DOMAIN acks : acks[i] \in 1 .. Len(docs)
    BY DEF IInv, TypeOK
  <2>4. /\ DOMAIN acks' = DOMAIN acks \cup {n} /\ acks'[n] = Len(docs) + 1
        /\ \A i \in DOMAIN acks : acks'[i] = acks[i] /\ i < n
    BY <2>2 DEF IInv, TypeOK
  <2>5. \A f \in queue[n].fields : docs'[Len(docs) + 1][f] = queue[n].id
    BY <2>1, <2>2, ExecuteKeepsVersions DEF Patched, Writes
  <2>6. cache.version \in 0 .. Len(docs) /\ Len(docs) \in Nat
    BY DEF IInv, TypeOK
  <2>7. \A i \in DOMAIN acks' : \A f \in queue'[i].fields : docs'[acks'[i]][f] = queue'[i].id
    BY <2>1, <2>2, <2>3, <2>4, <2>5, ExecuteKeepsVersions DEF AcksCommitted
  <2>8. \A i, j \in DOMAIN acks' : i < j => acks'[i] < acks'[j]
    <3> SUFFICES ASSUME NEW i \in DOMAIN acks', NEW j \in DOMAIN acks', i < j
                 PROVE  acks'[i] < acks'[j]
      OBVIOUS
    <3>1. i \in DOMAIN acks
      BY <2>4 DEF IInv, TypeOK
    <3>2. CASE j = n
      BY <3>1, <3>2, <2>3, <2>4, <2>6
    <3>3. CASE j \in DOMAIN acks
      BY <3>1, <3>3, <2>4 DEF AcksCommitted
    <3> QED
      BY <2>4, <3>2, <3>3
  <2>9. cache'.committed => \A i \in DOMAIN acks' : cache'.version < acks'[i]
    BY <2>2, <2>4, <2>6 DEF AcksCommitted
  <2>10. CopyIsFromVersions'
    BY <2>1, <2>2, ExecuteKeepsVersions DEF CopyIsFromVersions
  <2> QED
    BY <2>7, <2>8, <2>9, <2>10 DEF AcksCommitted
<1>4. CASE AcknowledgeBatch
  <2>1. UNCHANGED <<docs, made, snap>> /\ 1 \in DOMAIN acks /\ 1 \in DOMAIN queue
        /\ Head(acks) = acks[1] /\ Head(queue) = queue[1] /\ acks[1] \in DOMAIN docs
    BY <1>4 DEF AcknowledgeBatch, IInv, TypeOK
  <2>2. \A i \in DOMAIN acks' : /\ i + 1 \in DOMAIN acks /\ i + 1 \in DOMAIN queue
                                /\ acks'[i] = acks[i + 1] /\ queue'[i] = queue[i + 1]
                                /\ 1 < i + 1 /\ i \in Nat
    <3>1. /\ acks \in Seq(1 .. Len(docs)) /\ acks # << >> /\ acks' = Tail(acks)
          /\ queue \in Seq(Writes) /\ queue # << >> /\ queue' = Tail(queue)
          /\ Len(acks) <= Len(queue)
      BY <1>4 DEF AcknowledgeBatch, IInv, TypeOK
    <3>2. /\ DOMAIN acks' = 1 .. Len(acks) - 1 /\ Len(acks) \in Nat
          /\ \A i \in 1 .. Len(acks) - 1 : acks'[i] = acks[i + 1] /\ i + 1 \in DOMAIN acks
      BY <3>1, TailMovesUp
    <3>3. /\ Len(queue) \in Nat
          /\ \A i \in 1 .. Len(queue) - 1 : queue'[i] = queue[i + 1] /\ i + 1 \in DOMAIN queue
      BY <3>1, TailMovesUp
    <3> QED
      BY <3>1, <3>2, <3>3
  <2>3. \/ cache' = cache
        \/ /\ cache.version < acks[1]
           /\ cache' = [version |-> acks[1], data |-> Patched(cache.data, queue[1]),
                        committed |-> TRUE]
    BY <1>4, <2>1 DEF AcknowledgeBatch, ApplyBatchResult
  <2>4. \A i, j \in DOMAIN acks' : i < j => acks'[i] < acks'[j]
    BY <2>2 DEF AcksCommitted
  <2>5. CASE cache' = cache
    BY <2>1, <2>2, <2>4, <2>5 DEF AcksCommitted, CopyIsFromVersions
  <2>6. CASE /\ cache.version < acks[1]
             /\ cache' = [version |-> acks[1], data |-> Patched(cache.data, queue[1]),
                          committed |-> TRUE]
    <3>1. \A i \in DOMAIN acks' : cache'.version < acks'[i]
      BY <2>1, <2>2, <2>6 DEF AcksCommitted
    <3>2. ASSUME NEW f \in Fields
          PROVE  \E v \in DOMAIN docs' :
                   (v = 1 \/ v <= cache'.version) /\ cache'.data[f] = docs'[v][f]
      <4>1. CASE f \in queue[1].fields
        <5>1. cache'.data[f] = docs[acks[1]][f]
          BY <2>1, <2>6, <4>1 DEF AcksCommitted, Patched
        <5>2. acks[1] <= acks[1]
          BY <2>1 DEF IInv, TypeOK
        <5> QED
          BY <2>1, <2>6, <5>1, <5>2
      <4>2. CASE f \notin queue[1].fields
        <5>1. PICK v \in DOMAIN docs :
                (v = 1 \/ v <= cache.version) /\ cache.data[f] = docs[v][f]
          BY DEF CopyIsFromVersions
        <5>2. v = 1 \/ v <= acks[1]
          BY <2>1, <2>6, <5>1 DEF IInv, TypeOK
        <5> QED
          BY <2>1, <2>6, <4>2, <5>1, <5>2 DEF Patched
      <4> QED
        BY <4>1, <4>2
    <3> QED
      BY <2>1, <2>2, <2>4, <3>1, <3>2 DEF AcksCommitted, CopyIsFromVersions
  <2> QED
    BY <2>3, <2>5, <2>6
<1>5. CASE RejectBatch
  BY <1>5 DEF RejectBatch, AcksCommitted, CopyIsFromVersions
<1>6. ASSUME NEW version \in 1 .. MaxVersions, ApplyRemoteEvent(version)
      PROVE  AcksCommitted' /\ CopyIsFromVersions'
  <2>1. /\ version \in DOMAIN docs /\ version <= version
        /\ UNCHANGED <<docs, made, queue, acks>>
    BY <1>6 DEF ApplyRemoteEvent, IInv, TypeOK
  <2>2. \/ cache' = cache
        \/ cache' = [version |-> version, data |-> docs[version], committed |-> FALSE]
    BY <1>6 DEF ApplyRemoteEvent
  <2>3. CopyIsFromVersions'
    BY <2>1, <2>2 DEF CopyIsFromVersions
  <2> QED
    BY <2>1, <2>2, <2>3 DEF AcksCommitted
<1>7. CASE StreamClosed
  BY <1>7 DEF StreamClosed, AcksCommitted, CopyIsFromVersions
<1>8. CASE UNCHANGED vars
  BY <1>8 DEF vars, AcksCommitted, CopyIsFromVersions
<1> QED
  BY <1>1, <1>2, <1>3, <1>4, <1>5, <1>6, <1>7, <1>8 DEF Next

LEMMA ViewInvariantHolds == Spec => []ViewIInv
BY InitViewIInv, NextViewIInv, PTL DEF Spec
-----------------------------------------------------------------------------
LEMMA MaxIsLargest ==
  ASSUME NEW n \in Nat, NEW S \in SUBSET (1 .. n), S # {}
  PROVE  Max(S) \in S /\ \A i \in S : i <= Max(S)
<1> DEFINE T == {n - i : i \in S}
<1>1. T \subseteq Nat /\ T # {}
  <2>1. \A i \in S : i \in Nat /\ i <= n /\ n - i \in Nat
    OBVIOUS
  <2> QED
    BY <2>1
<1>2. PICK x \in T : \A y \in T : ~(<<y, x>> \in OpToRel(<, Nat))
  <2>1. IsWellFoundedOn(OpToRel(<, Nat), Nat)
    BY NatLessThanWellFounded, Zenon
  <2> HIDE DEF T
  <2> QED
    BY <1>1, <2>1, WFMin, Zenon
<1>3. \A y \in T : ~(y < x)
  BY <1>1, <1>2, Zenon DEF OpToRel
<1>4. PICK m \in S : x = n - m
  OBVIOUS
<1>5. ASSUME NEW i \in S PROVE m >= i
  <2>1. n - i \in T
    OBVIOUS
  <2>2. ~(n - i < n - m)
    BY <1>3, <1>4, <2>1
  <2>3. i \in Nat /\ m \in Nat
    OBVIOUS
  <2> QED
    BY <2>2, <2>3
<1>6. Max(S) \in S /\ \A i \in S : Max(S) >= i
  BY <1>5 DEF Max
<1> QED
  BY <1>6

Own(f) == {i \in DOMAIN queue : f \in queue[i].fields}

(* Under a write of its own, a field shows that write.                     *)
LEMMA OwnIsShown ==
  ASSUME IInv, NEW f \in Fields, Own(f) # {}
  PROVE  Max(Own(f)) \in Own(f) /\ View(f) = queue[Max(Own(f))].id
<1>1. Own(f) \subseteq 1 .. Len(queue) /\ Len(queue) \in Nat
  BY DEF Own, IInv, TypeOK
<1>2. Max(Own(f)) \in Own(f)
  BY <1>1, MaxIsLargest
<1> QED
  BY <1>2 DEF View, Own

LEMMA CopyIsShown ==
  ASSUME NEW f \in Fields, Own(f) = {}
  PROVE  View(f) = cache.data[f]
BY DEF View, Own

(* The answer to the last own write of a field leaves it, or shows what    *)
(* came after it.                                                          *)
LEMMA AnswerGoesOn ==
  ASSUME ViewIInv, AcknowledgeBatch, NEW f \in Fields, Own(f)' = {}, View(f)' # View(f)
  PROVE  ReplacedBy(f, View(f), View(f)')
<1> USE DEF ViewIInv
<1>1. /\ UNCHANGED docs /\ 1 \in DOMAIN acks /\ 1 \in DOMAIN queue
      /\ Head(acks) = acks[1] /\ Head(queue) = queue[1] /\ acks[1] \in DOMAIN docs
      /\ DOMAIN docs = 1 .. Len(docs) /\ Len(docs) \in Nat
  BY DEF AcknowledgeBatch, IInv, TypeOK
<1>2. \A i \in DOMAIN queue : i # 1 => i - 1 \in DOMAIN queue' /\ queue'[i - 1] = queue[i]
  BY SMTT(30) DEF AcknowledgeBatch, IInv, TypeOK
<1>3. Own(f) \subseteq {1}
  BY <1>2 DEF Own
<1>4. View(f)' = cache'.data[f]
  BY DEF View, Own
<1>5. \/ cache' = cache /\ ~(cache.version < acks[1])
      \/ /\ cache.version < acks[1]
         /\ cache' = [version |-> acks[1], data |-> Patched(cache.data, queue[1]),
                      committed |-> TRUE]
  BY <1>1 DEF AcknowledgeBatch, ApplyBatchResult
<1>6. CASE f \in queue[1].fields
  <2>1. Own(f) = {1} /\ View(f) = queue[1].id
    <3>1. Own(f) = {1}
      BY <1>1, <1>3, <1>6 DEF Own
    <3>2. Max(Own(f)) = 1
      BY <3>1, OwnIsShown
    <3> QED
      BY <3>1, <3>2, OwnIsShown
  <2>2. docs[acks[1]][f] = queue[1].id
    BY <1>1, <1>6 DEF AcksCommitted
  <2>3. cache' = cache /\ ~(cache.version < acks[1])
    BY <1>4, <1>5, <1>6, <2>1 DEF Patched
  <2>4. ~cache.committed
    BY <1>1, <2>3 DEF AcksCommitted
  <2>5. cache.version \in DOMAIN docs /\ cache.version >= acks[1]
    BY <1>1, <2>3 DEF IInv, TypeOK
  <2>6. cache.data = docs[cache.version]
    BY <1>1, <2>4, <2>5 DEF IInv, CopyIsVersion
  <2>7. acks[1] < cache.version
    <3>1. cache.version # acks[1]
      BY <1>4, <2>1, <2>2, <2>3, <2>6
    <3> QED
      BY <1>1, <2>5, <3>1
  <2> QED
    BY <1>1, <1>4, <2>1, <2>2, <2>3, <2>5, <2>6, <2>7 DEF ReplacedBy
<1>7. CASE f \notin queue[1].fields
  <2>1. Own(f) = {}
    BY <1>3, <1>7 DEF Own
  <2>2. View(f) = cache.data[f]
    BY <2>1, CopyIsShown
  <2> QED
    BY <1>4, <1>5, <1>7, <2>2 DEF Patched
<1> QED
  BY <1>6, <1>7

LEMMA SnapshotGoesOn ==
  ASSUME ViewIInv, NEW version \in 1 .. MaxVersions, ApplyRemoteEvent(version),
         NEW f \in Fields, Own(f)' = {}, View(f)' # View(f)
  PROVE  ReplacedBy(f, View(f), View(f)')
<1> USE DEF ViewIInv
<1>1. UNCHANGED <<docs, queue>> /\ version \in DOMAIN docs /\ version \in Nat
  BY DEF ApplyRemoteEvent, IInv, TypeOK
<1>2. View(f) = cache.data[f] /\ View(f)' = cache'.data[f]
  BY <1>1 DEF View, Own
<1>3. /\ cache' = [version |-> version, data |-> docs[version], committed |-> FALSE]
      /\ version >= cache.version
  BY <1>1, <1>2 DEF ApplyRemoteEvent, Takes, IInv, TypeOK
<1>4. PICK v \in DOMAIN docs : (v = 1 \/ v <= cache.version) /\ cache.data[f] = docs[v][f]
  BY DEF CopyIsFromVersions
<1>5. v <= version /\ v # version
  BY <1>1, <1>2, <1>3, <1>4 DEF IInv, TypeOK
<1>6. v < version
  BY <1>1, <1>4, <1>5 DEF IInv, TypeOK
<1> QED
  BY <1>1, <1>2, <1>3, <1>4, <1>6 DEF ReplacedBy

(* What the pages show of a field only goes on to what replaced it, unless *)
(* a write was refused: acknowledgements and snapshots, which come by two  *)
(* streams in any order, never take it back.                               *)
THEOREM ViewNeverGoesBack == Spec => NeverGoesBack
<1>1. ASSUME ViewIInv, [Next]_vars, ViewIInv', NEW f \in Fields, View(f)' # View(f), ~RejectBatch
      PROVE  ReplacedBy(f, View(f), View(f)')
  <2>1. CASE Own(f)' # {}
    <3>1. ASSUME IInv', Own(f)' # {}
          PROVE  Max(Own(f)') \in Own(f)' /\ View(f)' = queue'[Max(Own(f)')].id
      <4>1. Own(f)' \subseteq 1 .. Len(queue') /\ Len(queue') \in Nat
        BY <3>1 DEF Own, IInv, TypeOK
      <4>2. Max(Own(f)') \in Own(f)'
        BY <3>1, <4>1, MaxIsLargest
      <4> QED
        BY <4>2 DEF View, Own
    <3> QED
      BY <1>1, <2>1, <3>1 DEF ReplacedBy, Own, ViewIInv
  <2>2. CASE Own(f)' = {}
    <3>1. CASE UNCHANGED <<queue, cache>>
      BY <1>1, <3>1 DEF View
    <3>2. ASSUME NEW F \in SUBSET Fields, WriteLocally(F) PROVE FALSE
      <4>1. /\ \A i \in DOMAIN queue : i \in DOMAIN queue' /\ queue'[i] = queue[i]
            /\ UNCHANGED cache
        BY <3>2 DEF WriteLocally, ViewIInv, IInv, TypeOK
      <4>2. Own(f) = {}
        BY <2>2, <4>1 DEF Own
      <4> QED
        BY <1>1, <2>2, <4>1, <4>2 DEF View, Own
    <3>3. CASE AcknowledgeBatch
      BY <1>1, <2>2, <3>3, AnswerGoesOn
    <3>4. ASSUME NEW version \in 1 .. MaxVersions, ApplyRemoteEvent(version)
          PROVE  ReplacedBy(f, View(f), View(f)')
      BY <1>1, <2>2, <3>4, SnapshotGoesOn
    <3> QED
      BY <1>1, <3>1, <3>2, <3>3, <3>4 DEF Next, ForeignWrite, Commit, StreamClosed, vars
  <2> QED
    BY <2>1, <2>2
<1>2. ViewIInv /\ [Next]_vars /\ ViewIInv' =>
        [\A f \in Fields : View(f)' # View(f) => ReplacedBy(f, View(f), View(f)') \/ RejectBatch]_vars
  BY <1>1
<1> QED
  BY <1>2, ViewInvariantHolds, PTL DEF Spec, NeverGoesBack
=============================================================================

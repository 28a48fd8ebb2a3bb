---------------------------- MODULE SearchProofs ----------------------------
(***************************************************************************)
(* Proofs about the range query, for strings of every length over every    *)
(* set of code points, and about the search page, for every number of      *)
(* blogs, searches and edits.                                              *)
(***************************************************************************)
EXTENDS Search, SequenceTheorems, TLAPS

(* StartsWith, position by position. *)
LEMMA StartsWithPointwise ==
  ASSUME NEW t \in Seq(Nat), NEW l \in Seq(Nat)
  PROVE  StartsWith(l, t) <=> Len(t) <= Len(l) /\ \A i \in 1 .. Len(t) : l[i] = t[i]
<1>1. ASSUME Len(t) <= Len(l)
      PROVE  /\ SubSeq(t, 1, Len(t)) = [i \in 1 .. Len(t) |-> t[i]]
             /\ SubSeq(l, 1, Len(t)) = [i \in 1 .. Len(t) |-> l[i]]
  BY <1>1, SMT
<1> QED
  BY <1>1 DEF StartsWith, IsPrefix

(* Whatever the text, nothing is found that does not start with it: the    *)
(* two comparisons of searchFirestore do what a test of the prefix would.  *)
(* (The first difference of two strings settles every other comparison.)   *)
THEOREM FoundIsPrefix ==
  ASSUME NEW t \in Seq(Nat), NEW l \in Seq(Nat), PrivateEnd \in Nat, Matches(t, l)
  PROVE  StartsWith(l, t)
<1> DEFINE upper == Append(t, PrivateEnd)
<1>1. upper \in Seq(Nat) /\ Len(upper) = Len(t) + 1 /\ \A i \in 1 .. Len(t) : upper[i] = t[i]
  OBVIOUS
<1>2. CASE l = t
  BY <1>2, StartsWithPointwise
<1>3. CASE Len(t) < Len(l) /\ \A j \in DOMAIN t : t[j] = l[j]
  <2>1. Len(t) <= Len(l) /\ \A j \in 1 .. Len(t) : l[j] = t[j]
    BY <1>3
  <2> QED
    BY <2>1, StartsWithPointwise
<1>4. CASE \E i \in DOMAIN t \cap DOMAIN l : t[i] < l[i] /\ \A j \in 1 .. i - 1 : t[j] = l[j]
  <2>1. PICK i \in DOMAIN t \cap DOMAIN l : t[i] < l[i] /\ \A j \in 1 .. i - 1 : t[j] = l[j]
    BY <1>4
  <2>2. i \in 1 .. Len(t) /\ i \in 1 .. Len(l) /\ upper[i] = t[i] /\ t[i] \in Nat /\ l[i] \in Nat
    BY <2>1, <1>1
  <2>3. l # upper
    BY <2>1, <2>2
  <2>4. ~ (Len(l) < Len(upper) /\ \A j \in DOMAIN l : l[j] = upper[j])
    BY <2>1, <2>2
  <2>5. ASSUME NEW k \in DOMAIN l \cap DOMAIN upper, l[k] < upper[k],
               \A j \in 1 .. k - 1 : l[j] = upper[j]
        PROVE  FALSE
    <3>1. k \in 1 .. Len(l) /\ k \in 1 .. Len(t) + 1 /\ l[k] \in Nat /\ upper[k] \in Nat
      BY <2>5, <1>1
    <3>2. CASE k < i
      <4>1. k \in 1 .. i - 1 /\ k \in 1 .. Len(t)
        BY <3>1, <3>2, <2>2
      <4>2. l[k] = t[k] /\ upper[k] = t[k]
        BY <4>1, <2>1, <1>1
      <4> QED
        BY <4>2, <3>1, <2>5
    <3>3. CASE k = i
      BY <3>3, <2>1, <2>2, <2>5
    <3>4. CASE k > i
      <4>1. i \in 1 .. k - 1
        BY <3>1, <3>4, <2>2
      <4>2. l[i] = upper[i]
        BY <4>1, <2>5
      <4> QED
        BY <4>2, <2>1, <2>2
    <3> QED
      BY <3>1, <2>2, <3>2, <3>3, <3>4
  <2> QED
    BY <2>3, <2>4, <2>5 DEF Matches, NotGreater, Precedes
<1> QED
  BY <1>2, <1>3, <1>4 DEF Matches, NotLess, Precedes

(* Above the text, what comes next decides.                                *)
LEMMA PrefixIsFound ==
  ASSUME NEW t \in Seq(Nat), NEW l \in Seq(Nat), PrivateEnd \in Nat, StartsWith(l, t),
         Len(l) > Len(t) => l[Len(t) + 1] < PrivateEnd
  PROVE  Matches(t, l)
<1> DEFINE upper == Append(t, PrivateEnd)
           n == Len(t) + 1
<1>1. /\ upper \in Seq(Nat) /\ Len(upper) = n /\ upper[n] = PrivateEnd
      /\ \A i \in 1 .. Len(t) : upper[i] = t[i]
  OBVIOUS
<1>2. Len(t) <= Len(l) /\ \A i \in 1 .. Len(t) : l[i] = t[i]
  BY StartsWithPointwise
<1>3. CASE Len(l) = Len(t)
  <2>1. l = t
    BY SMTT(30), <1>2, <1>3
  <2>2. Precedes(l, upper)
    BY <1>1, <1>2, <1>3 DEF Precedes
  <2> QED
    BY <2>1, <2>2 DEF Matches, NotLess, NotGreater
<1>4. CASE Len(l) > Len(t)
  <2>0. DOMAIN t = 1 .. Len(t) /\ Len(t) \in Nat /\ Len(l) \in Nat
    OBVIOUS
  <2>1. Len(t) < Len(l) /\ \A j \in DOMAIN t : t[j] = l[j]
    BY <1>2, <1>4, <2>0
  <2>2. n \in DOMAIN l \cap DOMAIN upper /\ l[n] < upper[n]
    BY <1>1, <1>4
  <2>3. \A j \in 1 .. n - 1 : l[j] = upper[j]
    BY <1>1, <1>2
  <2>4. Precedes(l, upper)
    BY <2>2, <2>3 DEF Precedes
  <2> QED
    BY <2>1, <2>4 DEF Matches, NotLess, NotGreater, Precedes
<1> QED
  BY <1>2, <1>3, <1>4

(* What starts with the text and is missed all the same goes on with       *)
(* U+F8FF or later (the isLessThanOrEqualTo of searchFirestore).           *)
THEOREM MissedGoesOnLate ==
  ASSUME NEW t \in Seq(Nat), NEW l \in Seq(Nat), PrivateEnd \in Nat,
         StartsWith(l, t), ~Matches(t, l)
  PROVE  GoesOnLate(l, t)
<1>1. ~ (Len(l) > Len(t) => l[Len(t) + 1] < PrivateEnd)
  BY PrefixIsFound
<1>2. Len(l) > Len(t) /\ Len(t) + 1 \in 1 .. Len(l)
  BY <1>1
<1>3. l[Len(t) + 1] \in Nat
  BY <1>2
<1> QED
  BY <1>1, <1>3 DEF GoesOnLate

(* Typing a character before U+F8FF only narrows the results: what the     *)
(* longer text finds, the shorter one does.                                *)
THEOREM TypingNarrows ==
  ASSUME NEW t \in Seq(Nat), NEW c \in Nat, NEW l \in Seq(Nat), PrivateEnd \in Nat,
         c < PrivateEnd, Matches(Append(t, c), l)
  PROVE  Matches(t, l)
<1> DEFINE u == Append(t, c)
<1>1. u \in Seq(Nat) /\ Len(u) = Len(t) + 1 /\ u[Len(t) + 1] = c
      /\ \A i \in 1 .. Len(t) : u[i] = t[i]
  OBVIOUS
<1>2. Len(u) <= Len(l) /\ \A i \in 1 .. Len(u) : l[i] = u[i]
  <2>1. Matches(u, l)
    OBVIOUS
  <2> HIDE DEF u
  <2>2. StartsWith(l, u)
    BY <1>1, <2>1, FoundIsPrefix
  <2> QED
    BY <1>1, <2>2, StartsWithPointwise
<1>3. /\ Len(t) <= Len(l) /\ \A i \in 1 .. Len(t) : l[i] = t[i]
      /\ l[Len(t) + 1] = c
  <2>1. Len(t) \in Nat /\ Len(l) \in Nat
    OBVIOUS
  <2>2. Len(t) + 1 <= Len(l) /\ \A i \in 1 .. Len(t) + 1 : l[i] = u[i]
    BY <1>1, <1>2
  <2> HIDE DEF u
  <2>3. l[Len(t) + 1] = u[Len(t) + 1] /\ \A i \in 1 .. Len(t) : l[i] = u[i]
    BY <2>1, <2>2
  <2> QED
    BY <1>1, <2>1, <2>2, <2>3
<1>4. StartsWith(l, t)
  BY <1>3, StartsWithPointwise
<1> QED
  BY <1>3, <1>4, PrefixIsFound
-----------------------------------------------------------------------------
(* The search page. *)

(* Whatever is being fetched was found by an earlier query of the page, as *)
(* it was then: of the last search, if the backend answered the query,     *)
(* unless it was edited since.                                             *)
FetchesAreHits ==
  \A f \in fetches :
    /\ f.search \in 1 .. Latest
    /\ Matches(asked[f.search], f.doc.location)
    /\ (f.search = Latest /\ Latest \notin incomplete /\ docs[f.blog].version <= begun) =>
         f.doc = docs[f.blog]

(* A search queries, then fetches each blog once, then shows it.           *)
EachStageOnce ==
  /\ \A f \in fetches : f.search \notin querying
  /\ \A f, g \in fetches : (f.search = g.search /\ f.blog = g.blog) => f = g
  /\ \A i \in DOMAIN blogArray :
       /\ blogArray[i].search \in (1 .. Latest) \ querying
       /\ \A f \in fetches : f.search = blogArray[i].search => f.blog # blogArray[i].blog

(* Rows that are not those of blogArray are those of earlier searches.     *)
StaleRowsAreOld ==
  /\ \A i \in DOMAIN rows : rows[i].search \in 1 .. Latest
  /\ rows # blogArray => \A i \in DOMAIN rows : rows[i].search # Latest

OlderAreOvertaken == \A s \in UnderWay : s = Latest \/ s \in overtaken

(* A blog the last search should find is still to be queried, being        *)
(* fetched, or shown.                                                      *)
Wanted(b) ==
  /\ docs[b].version <= begun /\ docs[b].state = "complete"
  /\ StartsWith(docs[b].location, asked[Latest])
  /\ ~GoesOnLate(docs[b].location, asked[Latest])

Fetching(b) == \E f \in fetches : f.search = Latest /\ f.blog = b

Showing(b) ==
  \E i \in DOMAIN rows :
    rows[i].search = Latest /\ rows[i].blog = b /\ rows[i].doc = docs[b]

NoneIsLost ==
  (Latest > 0 /\ Latest \notin querying \cup incomplete) =>
    \A b \in Blogs : Wanted(b) => Fetching(b) \/ Showing(b)

NoneIsForeign ==
  Latest \notin incomplete => \A i \in DOMAIN rows :
    (rows[i].search = Latest /\ rows[i].doc.version <= begun) =>
      StartsWith(rows[i].doc.location, asked[Latest])

RowsIInv == TypeOK /\ FetchesAreHits /\ StaleRowsAreOld /\ TapOpensWhatIsShown

IInv ==
  /\ RowsIInv /\ EachStageOnce /\ TrapsOnlyOnStaleRows /\ OneRowPerHit
  /\ ForeignRowsWereOvertaken /\ OlderAreOvertaken /\ NoneIsLost /\ NoneIsForeign
-----------------------------------------------------------------------------
(* What the steps have in common: an answer to a query, one that brings a  *)
(* blog, one that brings none, a tap or a scroll.                          *)
QueryDone(s, hits) ==
  /\ Fetch(s, hits) /\ s \in 1 .. Latest
  /\ \A f \in hits : f.search = s /\ Matches(asked[s], f.doc.location)
  /\ \A f, g \in hits : f.blog = g.blog => f = g
  /\ \/ hits = Hits(s) /\ incomplete' = incomplete
     \/ incomplete' = incomplete \cup {s}

BlogArrived(f, e) ==
  /\ ~trapped /\ f \in fetches /\ fetches' = fetches \ {f}
  /\ e \in Entries /\ e.search = f.search /\ e.blog = f.blog
  /\ \/ e.doc = docs[f.blog] /\ incomplete' = incomplete
     \/ e.doc = f.doc /\ incomplete' = incomplete \cup {f.search}
  /\ blogArray' = Append(blogArray, e) /\ rows' = blogArray'
  /\ UNCHANGED <<docs, versions, asked, querying, trapped, opened, edits, overtaken, begun>>

BlogMissed(f) ==
  /\ ~trapped /\ f \in fetches /\ fetches' = fetches \ {f}
  /\ \/ docs[f.blog].state # "complete" /\ incomplete' = incomplete
     \/ incomplete' = incomplete \cup {f.search}
  /\ UNCHANGED <<docs, versions, asked, querying, blogArray, rows, trapped, opened, edits,
                 overtaken, begun>>

RowUsed ==
  /\ UNCHANGED <<docs, versions, asked, querying, fetches, blogArray, rows, edits, overtaken,
                 incomplete, begun>>
  /\ \/ trapped' = TRUE /\ rows # blogArray /\ opened' = opened
     \/ /\ trapped' = trapped
        /\ \E i \in DOMAIN rows : rows = blogArray /\ opened' = <<rows[i], rows[i]>>
     \/ UNCHANGED <<trapped, opened>>

LEMMA QueryIsDone ==
  ASSUME RowsIInv, NEW s \in 1 .. MaxSearches, QueryAnswered(s) \/ QueryUnreachable(s)
  PROVE  \E hits \in SUBSET Fetches : QueryDone(s, hits)
<1>1. s \in querying /\ s \in 1 .. Latest
  BY DEF QueryAnswered, QueryUnreachable, Fetch, RowsIInv, TypeOK
<1>2. Hits(s) \subseteq Fetches /\ \A f, g \in Hits(s) : f.blog = g.blog => f = g
  BY DEF Hits, Fetches, RowsIInv, TypeOK
<1>3. \A f \in Hits(s) : f.search = s /\ Matches(asked[s], f.doc.location)
  BY DEF Hits, Finds
<1>4. ASSUME NEW f \in CacheHits(s)
      PROVE  f \in Fetches /\ f.search = s /\ Matches(asked[s], f.doc.location)
  <2>1. PICK b \in Blogs : \E d \in versions[b] :
          f = [search |-> s, blog |-> b, doc |-> d] /\ Finds(s, d)
    BY DEF CacheHits
  <2>2. versions[b] \subseteq Docs
    BY DEF RowsIInv, TypeOK
  <2> QED
    BY <2>1, <2>2 DEF Fetches, Finds
<1>5. CASE QueryAnswered(s)
  BY <1>1, <1>2, <1>3, <1>5 DEF QueryAnswered, QueryDone
<1>6. CASE QueryUnreachable(s)
  <2>1. PICK hits \in SUBSET CacheHits(s) :
          (\A f, g \in hits : f.blog = g.blog => f = g) /\ Fetch(s, hits)
    BY <1>6 DEF QueryUnreachable
  <2>2. incomplete' = incomplete \cup {s}
    BY <1>6 DEF QueryUnreachable
  <2>3. hits \in SUBSET Fetches
    BY <1>4
  <2>4. QueryDone(s, hits)
    BY <1>1, <1>4, <2>1, <2>2 DEF QueryDone
  <2> QED
    BY <2>3, <2>4
<1> QED
  BY <1>5, <1>6

LEMMA FetchIsDone ==
  ASSUME RowsIInv, NEW f \in fetches,
         Retrieved(f) \/ RetrievedFromCache(f) \/ RetrieveFailed(f)
  PROVE  BlogMissed(f) \/ \E e \in Entries : BlogArrived(f, e)
<1>1. /\ f \in Fetches /\ f.search \in 1 .. MaxSearches /\ f.blog \in Blogs
      /\ docs[f.blog] \in Docs
  BY DEF RowsIInv, TypeOK, Fetches
<1>2. CASE Retrieved(f)
  <2> DEFINE e == [search |-> f.search, blog |-> f.blog, doc |-> docs[f.blog]]
  <2>1. e \in Entries /\ e.search = f.search /\ e.blog = f.blog /\ e.doc = docs[f.blog]
    BY <1>1 DEF Entries, Fetches
  <2>2. CASE docs[f.blog].state = "complete"
    <3>1. BlogArrived(f, e)
      BY <1>2, <2>1, <2>2 DEF Retrieved, BlogArrived, ReloadData
    <3> QED
      BY <2>1, <3>1
  <2>3. CASE docs[f.blog].state # "complete"
    BY <1>2, <2>3 DEF Retrieved, BlogMissed
  <2> QED
    BY <2>2, <2>3
<1>3. CASE RetrievedFromCache(f)
  <2>1. f \in Entries
    BY <1>1 DEF Entries
  <2>2. CASE f.doc.state = "complete"
    BY <1>3, <2>1, <2>2 DEF RetrievedFromCache, BlogArrived, ReloadData
  <2>3. CASE f.doc.state # "complete"
    BY <1>3, <2>3 DEF RetrievedFromCache, BlogMissed
  <2> QED
    BY <2>1, <2>2, <2>3
<1>4. CASE RetrieveFailed(f)
  BY <1>4 DEF RetrieveFailed, BlogMissed
<1> QED
  BY <1>2, <1>3, <1>4

LEMMA RowIsUsed ==
  ASSUME RowsIInv, NEW i \in DOMAIN rows, DidSelectRow(i) \/ CellForRow(i)
  PROVE  RowUsed
<1>1. i \in DOMAIN blogArray => rows = blogArray
  BY DEF RowsIInv, TapOpensWhatIsShown
<1>2. i \notin DOMAIN blogArray => rows # blogArray
  OBVIOUS
<1>3. CASE DidSelectRow(i)
  <2>1. CASE i \in DOMAIN blogArray
    BY <1>1, <1>3, <2>1 DEF DidSelectRow, RowUsed
  <2>2. CASE i \notin DOMAIN blogArray
    BY <1>2, <1>3, <2>2 DEF DidSelectRow, RowUsed
  <2> QED
    BY <2>1, <2>2
<1>4. CASE CellForRow(i)
  <2>1. CASE i \in DOMAIN blogArray
    <3>1. [rows EXCEPT ![i] = blogArray[i]] = rows
      BY <1>1, <2>1 DEF RowsIInv, TypeOK
    <3> QED
      BY <1>4, <2>1, <3>1 DEF CellForRow, RowUsed
  <2>2. CASE i \notin DOMAIN blogArray
    BY <1>2, <1>4, <2>2 DEF CellForRow, RowUsed
  <2> QED
    BY <2>1, <2>2
<1> QED
  BY <1>3, <1>4

LEMMA StepCases ==
  ASSUME RowsIInv, [Next]_vars
  PROVE  \/ \E b \in Blogs : Edited(b)
         \/ \E t \in Texts : SearchBarSearchButtonClicked(t)
         \/ \E s \in 1 .. MaxSearches : \E hits \in SUBSET Fetches : QueryDone(s, hits)
         \/ \E f \in fetches : BlogMissed(f)
         \/ \E f \in fetches : \E e \in Entries : BlogArrived(f, e)
         \/ RowUsed
         \/ UNCHANGED vars
BY QueryIsDone, FetchIsDone, RowIsUsed DEF Next, Answers
-----------------------------------------------------------------------------
LEMMA InitIInv == Init => IInv
<1> SUFFICES ASSUME Init PROVE IInv
  OBVIOUS
<1> USE SearchAssumption DEF Init
<1>1. \A d \in Docs : d.version \in 0 .. MaxEdits
  BY DEF Docs
<1>2. TypeOK
  <2>1. docs \in [Blogs -> Docs] /\ versions \in [Blogs -> SUBSET Docs]
    OBVIOUS
  <2>2. asked \in Seq(Texts) /\ blogArray \in Seq(Entries) /\ rows \in Seq(Entries)
    OBVIOUS
  <2>3. Len(asked) <= MaxSearches /\ edits \in 0 .. MaxEdits /\ begun \in 0 .. edits
    OBVIOUS
  <2> QED
    BY <2>1, <2>2, <2>3 DEF TypeOK
<1>3. RowsIInv
  BY <1>2 DEF RowsIInv, FetchesAreHits, StaleRowsAreOld, TapOpensWhatIsShown, Covered
<1>4. EachStageOnce /\ TrapsOnlyOnStaleRows /\ OneRowPerHit
  BY DEF EachStageOnce, TrapsOnlyOnStaleRows, OneRowPerHit
<1>5. ForeignRowsWereOvertaken /\ OlderAreOvertaken /\ NoneIsForeign
  BY DEF ForeignRowsWereOvertaken, OlderAreOvertaken, UnderWay, NoneIsForeign
<1>6. NoneIsLost
  BY DEF NoneIsLost, Latest
<1> QED
  BY <1>3, <1>4, <1>5, <1>6 DEF IInv

LEMMA TextsAreStrings ==
  /\ \A t \in Texts : t \in Seq(Nat)
  /\ \A l \in Locations : l \in Seq(Nat)
BY SearchAssumption

LEMMA NextTypeOK == RowsIInv /\ [Next]_vars => TypeOK'
<1> SUFFICES ASSUME RowsIInv, [Next]_vars PROVE TypeOK'
  OBVIOUS
<1> USE SearchAssumption DEF RowsIInv, TypeOK
<1>1. ASSUME NEW b \in Blogs, Edited(b) PROVE TypeOK'
  <2>1. edits + 1 \in 0 .. MaxEdits /\ docs[b] \in Docs
    BY <1>1 DEF Edited
  <2>2. docs' \in [Blogs -> Docs]
    <3>1. CASE \E l \in Locations :
                 docs' = [docs EXCEPT ![b] = [state |-> "draft", location |-> l,
                                              version |-> edits']]
      BY <1>1, <2>1, <3>1 DEF Edited, Docs
    <3>2. CASE docs' = [docs EXCEPT ![b].state = "complete", ![b].version = edits']
      <4>1. [docs[b] EXCEPT !.state = "complete", !.version = edits'] \in Docs
        BY <1>1, <2>1 DEF Edited, Docs
      <4> QED
        BY <1>1, <3>2, <4>1 DEF Edited
    <3> QED
      BY <1>1, <3>1, <3>2 DEF Edited
  <2>3. versions' \in [Blogs -> SUBSET Docs]
    <3>1. docs'[b] \in Docs /\ versions' = [versions EXCEPT ![b] = versions[b] \cup {docs'[b]}]
      BY <1>1, <2>2 DEF Edited
    <3>2. versions[b] \cup {docs'[b]} \in SUBSET Docs
      BY <3>1
    <3> QED
      BY <3>1, <3>2
  <2> QED
    BY <1>1, <2>1, <2>2, <2>3 DEF Edited, Latest
<1>2. ASSUME NEW t \in Texts, SearchBarSearchButtonClicked(t) PROVE TypeOK'
  <2>1. /\ asked' \in Seq(Texts) /\ Len(asked') = Len(asked) + 1 /\ Len(asked) \in Nat
        /\ Len(asked') <= MaxSearches
    BY <1>2 DEF SearchBarSearchButtonClicked, Latest
  <2>2. UnderWay \subseteq 1 .. Len(asked)
    BY DEF UnderWay, FetchesAreHits, Latest
  <2>3. overtaken' \subseteq 1 .. Len(asked') /\ querying' \subseteq 1 .. Len(asked')
        /\ incomplete' \subseteq 1 .. Len(asked') /\ begun' \in 0 .. edits'
    <3>1. 1 .. Len(asked) \subseteq 1 .. Len(asked') /\ Len(asked') \in 1 .. Len(asked')
      BY <2>1
    <3>2. /\ overtaken' = overtaken \cup UnderWay /\ querying' = querying \cup {Len(asked')}
          /\ incomplete' = incomplete /\ begun' = edits /\ edits' = edits
      BY <1>2 DEF SearchBarSearchButtonClicked, Latest
    <3>3. /\ overtaken \subseteq 1 .. Len(asked) /\ querying \subseteq 1 .. Len(asked)
          /\ incomplete \subseteq 1 .. Len(asked) /\ edits \in 0 .. MaxEdits
      BY DEF Latest
    <3>4. begun' \in 0 .. edits'
      BY <3>2, <3>3
    <3> HIDE DEF TypeOK, RowsIInv
    <3>5. overtaken' \subseteq 1 .. Len(asked')
      BY <2>2, <3>1, <3>2, <3>3, Zenon
    <3>6. querying' \subseteq 1 .. Len(asked')
      BY <3>1, <3>2, <3>3, Zenon
    <3>7. incomplete' \subseteq 1 .. Len(asked')
      BY <3>1, <3>2, <3>3, Zenon
    <3> QED
      BY <3>4, <3>5, <3>6, <3>7
  <2>4. /\ blogArray' \in Seq(Entries)
        /\ UNCHANGED <<docs, versions, fetches, rows, trapped, opened, edits>>
    BY <1>2 DEF SearchBarSearchButtonClicked
  <2> QED
    BY <2>1, <2>3, <2>4 DEF Latest
<1>3. ASSUME NEW s \in 1 .. MaxSearches, NEW hits \in SUBSET Fetches, QueryDone(s, hits)
      PROVE  TypeOK'
  BY <1>3 DEF QueryDone, Fetch, Latest
<1>4. ASSUME NEW f \in fetches, BlogMissed(f) PROVE TypeOK'
  <2>1. f.search \in 1 .. Len(asked)
    BY DEF FetchesAreHits, Latest
  <2>2. incomplete' \subseteq 1 .. Len(asked) /\ fetches' \subseteq Fetches
    BY <1>4, <2>1 DEF BlogMissed, Latest
  <2> QED
    BY <1>4, <2>2 DEF BlogMissed, Latest
<1>5. ASSUME NEW f \in fetches, NEW e \in Entries, BlogArrived(f, e) PROVE TypeOK'
  <2>1. f.search \in 1 .. Len(asked)
    BY DEF FetchesAreHits, Latest
  <2>2. incomplete' \subseteq 1 .. Len(asked) /\ fetches' \subseteq Fetches
    BY <1>5, <2>1 DEF BlogArrived, Latest
  <2>3. blogArray' \in Seq(Entries) /\ rows' \in Seq(Entries)
    BY <1>5 DEF BlogArrived
  <2> QED
    BY <1>5, <2>2, <2>3 DEF BlogArrived, Latest
<1>6. CASE RowUsed
  <2>1. \A i \in DOMAIN rows : rows[i] \in Entries /\ <<rows[i], rows[i]>> \in Entries \X Entries
    OBVIOUS
  <2>2. opened' \in {<< >>} \cup (Entries \X Entries) /\ trapped' \in BOOLEAN
    BY <1>6, <2>1 DEF RowUsed
  <2> QED
    BY <1>6, <2>2 DEF RowUsed, Latest
<1>7. CASE UNCHANGED vars
  BY <1>7 DEF vars, Latest
<1> QED
  BY <1>1, <1>2, <1>3, <1>4, <1>5, <1>6, <1>7, StepCases

(* What a query finds is unchanged since, or was edited after the last     *)
(* search began.                                                           *)
LEMMA NextFetchesAreHits == RowsIInv /\ TypeOK' /\ [Next]_vars => FetchesAreHits'
<1> SUFFICES ASSUME RowsIInv, TypeOK', [Next]_vars PROVE FetchesAreHits'
  OBVIOUS
<1> USE DEF RowsIInv
<1>1. ASSUME NEW b \in Blogs, Edited(b) PROVE FetchesAreHits'
  <2>1. docs'[b].version = edits' /\ edits' > begun /\ begun' = begun
        /\ \A c \in Blogs : c # b => docs'[c] = docs[c]
    <3>1. edits' = edits + 1 /\ edits' > begun /\ begun' = begun
      BY <1>1 DEF Edited, TypeOK
    <3>2. docs \in [Blogs -> Docs] /\ docs[b] \in Docs
      BY DEF TypeOK
    <3>3. docs'[b].version = edits' /\ \A c \in Blogs : c # b => docs'[c] = docs[c]
      <4>1. CASE \E l \in Locations :
                   docs' = [docs EXCEPT ![b] = [state |-> "draft", location |-> l,
                                                version |-> edits']]
        BY <3>2, <4>1
      <4>2. CASE docs' = [docs EXCEPT ![b].state = "complete", ![b].version = edits']
        BY <3>2, <4>2 DEF Docs
      <4> QED
        BY <1>1, <4>1, <4>2 DEF Edited
    <3> QED
      BY <3>1, <3>3
  <2>2. \A f \in fetches : f.blog \in Blogs
    BY DEF TypeOK, Fetches
  <2>3. UNCHANGED <<fetches, asked, incomplete>> /\ edits' \in Nat /\ begun \in Nat
    BY <1>1 DEF Edited, TypeOK
  <2>4. ASSUME NEW f \in fetches, docs'[f.blog].version <= begun
        PROVE  docs'[f.blog] = docs[f.blog]
    BY <2>1, <2>2, <2>3, <2>4
  <2> QED
    BY <2>1, <2>3, <2>4 DEF FetchesAreHits, Latest
<1>2. ASSUME NEW t \in Texts, SearchBarSearchButtonClicked(t) PROVE FetchesAreHits'
  <2>1. Len(asked') = Len(asked) + 1 /\ \A i \in 1 .. Len(asked) : asked'[i] = asked[i]
    BY <1>2 DEF SearchBarSearchButtonClicked, TypeOK
  <2>2. Len(asked) \in Nat
    BY DEF TypeOK
  <2> QED
    BY <1>2, <2>1, <2>2 DEF SearchBarSearchButtonClicked, FetchesAreHits, Latest
<1>3. ASSUME NEW s \in 1 .. MaxSearches, NEW hits \in SUBSET Fetches, QueryDone(s, hits)
      PROVE  FetchesAreHits'
  <2>1. hits = Hits(s) => \A f \in hits : f.doc = docs[f.blog]
    BY DEF Hits
  <2>2. /\ \A f \in hits : f.search = s /\ Matches(asked[s], f.doc.location)
        /\ UNCHANGED <<docs, asked, begun>> /\ fetches' = fetches \cup hits /\ s \in 1 .. Latest
        /\ \/ hits = Hits(s) /\ incomplete' = incomplete
           \/ incomplete' = incomplete \cup {s}
    BY <1>3 DEF QueryDone, Fetch
  <2> QED
    BY <2>1, <2>2 DEF FetchesAreHits, Latest
<1>4. ASSUME NEW f \in fetches, BlogMissed(f) PROVE FetchesAreHits'
  BY <1>4 DEF BlogMissed, FetchesAreHits, Latest
<1>5. ASSUME NEW f \in fetches, NEW e \in Entries, BlogArrived(f, e) PROVE FetchesAreHits'
  BY <1>5 DEF BlogArrived, FetchesAreHits, Latest
<1>6. CASE RowUsed
  BY <1>6 DEF RowUsed, FetchesAreHits, Latest
<1>7. CASE UNCHANGED vars
  BY <1>7 DEF vars, FetchesAreHits, Latest
<1> QED
  BY <1>1, <1>2, <1>3, <1>4, <1>5, <1>6, <1>7, StepCases

LEMMA NextRows ==
  RowsIInv /\ TypeOK' /\ [Next]_vars => StaleRowsAreOld' /\ TapOpensWhatIsShown'
<1> SUFFICES ASSUME RowsIInv, TypeOK', [Next]_vars
             PROVE  StaleRowsAreOld' /\ TapOpensWhatIsShown'
  OBVIOUS
<1> USE DEF RowsIInv, StaleRowsAreOld, TapOpensWhatIsShown, Covered, Latest
<1>1. ASSUME NEW b \in Blogs, Edited(b) PROVE StaleRowsAreOld' /\ TapOpensWhatIsShown'
  BY <1>1 DEF Edited
<1>2. ASSUME NEW t \in Texts, SearchBarSearchButtonClicked(t)
      PROVE  StaleRowsAreOld' /\ TapOpensWhatIsShown'
  <2>1. Len(asked') = Len(asked) + 1 /\ Len(asked) \in Nat
    BY <1>2 DEF SearchBarSearchButtonClicked, TypeOK
  <2> QED
    BY <1>2, <2>1 DEF SearchBarSearchButtonClicked
<1>3. ASSUME NEW s \in 1 .. MaxSearches, NEW hits \in SUBSET Fetches, QueryDone(s, hits)
      PROVE  StaleRowsAreOld' /\ TapOpensWhatIsShown'
  BY <1>3 DEF QueryDone, Fetch
<1>4. ASSUME NEW f \in fetches, BlogMissed(f) PROVE StaleRowsAreOld' /\ TapOpensWhatIsShown'
  BY <1>4 DEF BlogMissed
<1>5. ASSUME NEW f \in fetches, NEW e \in Entries, BlogArrived(f, e)
      PROVE  StaleRowsAreOld' /\ TapOpensWhatIsShown'
  <2>1. \A i \in DOMAIN blogArray : blogArray[i].search \in 1 .. Len(asked)
    OBVIOUS
  <2>2. \A i \in DOMAIN blogArray' : blogArray'[i].search \in 1 .. Len(asked)
    BY <1>5, <2>1 DEF BlogArrived, TypeOK, FetchesAreHits
  <2> QED
    BY <1>5, <2>2 DEF BlogArrived
<1>6. CASE RowUsed
  BY <1>6 DEF RowUsed
<1>7. CASE UNCHANGED vars
  BY <1>7 DEF vars
<1> QED
  BY <1>1, <1>2, <1>3, <1>4, <1>5, <1>6, <1>7, StepCases

LEMMA NextRowsIInv == RowsIInv /\ [Next]_vars => RowsIInv'
BY NextTypeOK, NextFetchesAreHits, NextRows DEF RowsIInv
-----------------------------------------------------------------------------
AppendedIs(e) ==
  /\ DOMAIN blogArray' = DOMAIN blogArray \cup {Len(blogArray) + 1}
  /\ Len(blogArray) + 1 \notin DOMAIN blogArray
  /\ blogArray'[Len(blogArray) + 1] = e
  /\ \A i \in DOMAIN blogArray : blogArray'[i] = blogArray[i]

LEMMA BlogIsAppended ==
  ASSUME TypeOK, NEW f \in fetches, NEW e \in Entries, BlogArrived(f, e)
  PROVE  AppendedIs(e)
BY DEF BlogArrived, TypeOK, AppendedIs

(* No stage of a search is entered twice.                                  *)
LEMMA NextEachStageOnce == IInv /\ [Next]_vars => EachStageOnce' /\ OneRowPerHit'
<1> SUFFICES ASSUME IInv, [Next]_vars PROVE EachStageOnce' /\ OneRowPerHit'
  OBVIOUS
<1>0. RowsIInv /\ TypeOK /\ EachStageOnce /\ OneRowPerHit /\ FetchesAreHits
  BY DEF IInv, RowsIInv
<1>1. ASSUME NEW b \in Blogs, Edited(b) PROVE EachStageOnce' /\ OneRowPerHit'
  BY <1>0, <1>1 DEF Edited, EachStageOnce, OneRowPerHit, Latest
<1>2. ASSUME NEW t \in Texts, SearchBarSearchButtonClicked(t)
      PROVE  EachStageOnce' /\ OneRowPerHit'
  <2>1. /\ Len(asked') = Len(asked) + 1 /\ Len(asked) \in Nat /\ blogArray' = << >>
        /\ querying' = querying \cup {Len(asked) + 1} /\ fetches' = fetches
    BY <1>0, <1>2 DEF SearchBarSearchButtonClicked, TypeOK, Latest
  <2>2. \A f \in fetches : f.search # Len(asked) + 1
    BY <1>0, <2>1 DEF FetchesAreHits, Latest
  <2> QED
    BY <1>0, <2>1, <2>2 DEF EachStageOnce, OneRowPerHit, Latest
<1>3. ASSUME NEW s \in 1 .. MaxSearches, NEW hits \in SUBSET Fetches, QueryDone(s, hits)
      PROVE  EachStageOnce' /\ OneRowPerHit'
  <2>1. /\ \A f \in hits : f.search = s
        /\ \A f, g \in hits : f.blog = g.blog => f = g
    BY <1>3 DEF QueryDone
  <2>2. /\ fetches' = fetches \cup hits /\ querying' = querying \ {s} /\ s \in querying
        /\ UNCHANGED <<asked, blogArray>>
    BY <1>3 DEF QueryDone, Fetch
  <2>3. \A f \in fetches' : f.search \notin querying'
    BY <1>0, <2>1, <2>2 DEF EachStageOnce
  <2>4. \A f, g \in fetches' : (f.search = g.search /\ f.blog = g.blog) => f = g
    <3>1. \A f \in fetches : f.search # s
      BY <1>0, <2>2 DEF EachStageOnce
    <3> QED
      BY <1>0, <2>1, <2>2, <3>1 DEF EachStageOnce
  <2>5. \A i \in DOMAIN blogArray' :
          /\ blogArray'[i].search \in (1 .. Latest') \ querying'
          /\ \A f \in fetches' : f.search = blogArray'[i].search => f.blog # blogArray'[i].blog
    BY <1>0, <2>1, <2>2 DEF EachStageOnce, Latest
  <2> QED
    BY <1>0, <2>2, <2>3, <2>4, <2>5 DEF EachStageOnce, OneRowPerHit
<1>4. ASSUME NEW f \in fetches, BlogMissed(f) PROVE EachStageOnce' /\ OneRowPerHit'
  BY <1>0, <1>4 DEF BlogMissed, EachStageOnce, OneRowPerHit, Latest
<1>5. ASSUME NEW f \in fetches, NEW e \in Entries, BlogArrived(f, e)
      PROVE  EachStageOnce' /\ OneRowPerHit'
  <2>1. AppendedIs(e)
    BY <1>0, <1>5, BlogIsAppended
  <2>2. /\ e.search = f.search /\ e.blog = f.blog /\ fetches' = fetches \ {f}
        /\ UNCHANGED <<asked, querying>>
    BY <1>5 DEF BlogArrived
  <2>3. \A g \in fetches' : g.search = e.search => g.blog # e.blog
    BY <1>0, <2>2 DEF EachStageOnce
  <2>4. e.search \in (1 .. Latest) \ querying
    BY <1>0, <2>2 DEF EachStageOnce, FetchesAreHits
  <2>5. \A i \in DOMAIN blogArray : ~(blogArray[i].search = e.search /\ blogArray[i].blog = e.blog)
    BY <1>0, <2>2 DEF EachStageOnce
  <2>6. EachStageOnce'
    BY <1>0, <2>1, <2>2, <2>3, <2>4 DEF EachStageOnce, AppendedIs, Latest
  <2>7. OneRowPerHit'
    BY <1>0, <2>1, <2>5 DEF OneRowPerHit, AppendedIs
  <2> QED
    BY <2>6, <2>7
<1>6. CASE RowUsed
  BY <1>0, <1>6 DEF RowUsed, EachStageOnce, OneRowPerHit, Latest
<1>7. CASE UNCHANGED vars
  BY <1>0, <1>7 DEF vars, EachStageOnce, OneRowPerHit, Latest
<1> QED
  BY <1>0, <1>1, <1>2, <1>3, <1>4, <1>5, <1>6, <1>7, StepCases

(* A search that has answers to come, and is not the last, was overtaken.  *)
LEMMA NextOvertaken ==
  IInv /\ [Next]_vars =>
    OlderAreOvertaken' /\ ForeignRowsWereOvertaken' /\ TrapsOnlyOnStaleRows'
<1> DEFINE Q == OlderAreOvertaken /\ ForeignRowsWereOvertaken /\ TrapsOnlyOnStaleRows
<1> SUFFICES ASSUME IInv, [Next]_vars PROVE Q'
  OBVIOUS
<1>0. RowsIInv /\ TypeOK /\ Q /\ FetchesAreHits /\ StaleRowsAreOld
  BY DEF IInv, RowsIInv
<1> USE DEF OlderAreOvertaken, ForeignRowsWereOvertaken, TrapsOnlyOnStaleRows, UnderWay, Latest
<1>1. ASSUME NEW b \in Blogs, Edited(b) PROVE Q'
  BY <1>0, <1>1 DEF Edited
<1>2. ASSUME NEW t \in Texts, SearchBarSearchButtonClicked(t) PROVE Q'
  BY <1>0, <1>2 DEF SearchBarSearchButtonClicked
<1>3. ASSUME NEW s \in 1 .. MaxSearches, NEW hits \in SUBSET Fetches, QueryDone(s, hits)
      PROVE  Q'
  <2>1. \A f \in hits : f.search = s
    BY <1>3 DEF QueryDone
  <2>2. UnderWay' \subseteq UnderWay
    BY <1>3, <2>1 DEF QueryDone, Fetch
  <2>3. UNCHANGED <<asked, overtaken, blogArray, rows, trapped>>
    BY <1>3 DEF QueryDone, Fetch
  <2> QED
    BY <1>0, <2>2, <2>3
<1>4. ASSUME NEW f \in fetches, BlogMissed(f) PROVE Q'
  BY <1>0, <1>4 DEF BlogMissed
<1>5. ASSUME NEW f \in fetches, NEW e \in Entries, BlogArrived(f, e) PROVE Q'
  <2>1. AppendedIs(e)
    BY <1>0, <1>5, BlogIsAppended
  <2>2. /\ e.search = f.search /\ fetches' = fetches \ {f} /\ ~trapped'
        /\ UNCHANGED <<asked, overtaken, querying>>
    BY <1>0, <1>5 DEF BlogArrived, TypeOK
  <2>3. e.search = Len(asked) \/ e.search \in overtaken
    BY <1>0, <2>2
  <2> QED
    BY <1>0, <2>1, <2>2, <2>3 DEF AppendedIs
<1>6. CASE RowUsed
  BY <1>0, <1>6 DEF RowUsed, StaleRowsAreOld
<1>7. CASE UNCHANGED vars
  BY <1>0, <1>7 DEF vars
<1> QED
  BY <1>0, <1>1, <1>2, <1>3, <1>4, <1>5, <1>6, <1>7, StepCases
-----------------------------------------------------------------------------
(* The query and the proofs about it: a blog is found exactly if it starts *)
(* with the text and does not go on too late.                              *)
LEMMA FoundOrLate ==
  ASSUME TypeOK, NEW s \in 1 .. Latest, NEW l \in Locations
  PROVE  /\ Matches(asked[s], l) => StartsWith(l, asked[s])
         /\ (StartsWith(l, asked[s]) /\ ~GoesOnLate(l, asked[s])) => Matches(asked[s], l)
<1>1. asked[s] \in Seq(Nat) /\ l \in Seq(Nat)
  <2>1. asked[s] \in Texts
    BY DEF TypeOK, Latest
  <2> QED
    BY <2>1, TextsAreStrings
<1> QED
  BY <1>1, FoundIsPrefix, MissedGoesOnLate, QueryAssumption

(* A complete blog that has not been edited since the search began stays   *)
(* wanted; on its way from the query to the table it is always somewhere.  *)
LEMMA NextNoneIsLost == IInv /\ [Next]_vars => NoneIsLost'
<1> SUFFICES ASSUME IInv, [Next]_vars,
                    Latest' > 0, Latest' \notin querying', Latest' \notin incomplete',
                    NEW b \in Blogs, Wanted(b)'
             PROVE  Fetching(b)' \/ Showing(b)'
  BY DEF NoneIsLost
<1>0. /\ RowsIInv /\ TypeOK /\ NoneIsLost /\ FetchesAreHits /\ StaleRowsAreOld
      /\ TapOpensWhatIsShown
  BY DEF IInv, RowsIInv
<1>a. (UNCHANGED <<docs, asked, begun>> /\ Latest \notin querying /\ Latest \notin incomplete) =>
        (Fetching(b) \/ Showing(b))
  BY <1>0 DEF NoneIsLost, Wanted, Latest
<1>1. ASSUME NEW c \in Blogs, Edited(c) PROVE Fetching(b)' \/ Showing(b)'
  <2>1. edits' = edits + 1 /\ edits' > begun /\ begun' = begun
    BY <1>0, <1>1 DEF Edited, TypeOK
  <2>2. docs \in [Blogs -> Docs] /\ docs[c] \in Docs
    BY <1>0 DEF TypeOK
  <2>3. docs'[c].version = edits' /\ (b # c => docs'[b] = docs[b])
    <3>1. CASE \E l \in Locations :
                 docs' = [docs EXCEPT ![c] = [state |-> "draft", location |-> l,
                                              version |-> edits']]
      BY <2>2, <3>1
    <3>2. CASE docs' = [docs EXCEPT ![c].state = "complete", ![c].version = edits']
      BY <2>2, <3>2 DEF Docs
    <3> QED
      BY <1>1, <3>1, <3>2 DEF Edited
  <2>4. b # c
    BY <1>0, <2>1, <2>3 DEF Wanted, TypeOK
  <2>5. UNCHANGED <<asked, querying, incomplete, fetches, rows>> /\ docs'[b] = docs[b]
    BY <1>1, <2>3, <2>4 DEF Edited
  <2>6. Wanted(b)
    BY <2>1, <2>5 DEF Wanted, Latest
  <2>7. Fetching(b) \/ Showing(b)
    BY <1>0, <2>5, <2>6 DEF NoneIsLost, Latest
  <2> QED
    BY <2>5, <2>7 DEF Fetching, Showing, Latest
<1>2. ASSUME NEW t \in Texts, SearchBarSearchButtonClicked(t) PROVE Fetching(b)' \/ Showing(b)'
  BY <1>2 DEF SearchBarSearchButtonClicked
<1>3. ASSUME NEW s \in 1 .. MaxSearches, NEW hits \in SUBSET Fetches, QueryDone(s, hits)
      PROVE  Fetching(b)' \/ Showing(b)'
  <2>1. /\ UNCHANGED <<docs, asked, begun, rows>> /\ fetches' = fetches \cup hits
        /\ querying' = querying \ {s} /\ s \in 1 .. Latest
        /\ \/ hits = Hits(s) /\ incomplete' = incomplete
           \/ incomplete' = incomplete \cup {s}
    BY <1>3 DEF QueryDone, Fetch
  <2>2. CASE s = Latest
    <3>1. hits = Hits(s)
      BY <2>1, <2>2 DEF Latest
    <3>2. docs[b].state # "absent" /\ docs[b].location \in Locations /\ Wanted(b)
      BY <1>0, <2>1 DEF Wanted, TypeOK, Docs, Latest
    <3>3. Matches(asked[s], docs[b].location)
      BY <1>0, <2>1, <2>2, <3>2, FoundOrLate DEF Wanted
    <3>4. [search |-> s, blog |-> b, doc |-> docs[b]] \in fetches'
      BY <2>1, <3>1, <3>2, <3>3 DEF Hits, Finds
    <3> QED
      BY <2>1, <2>2, <3>4 DEF Fetching, Latest
  <2>3. CASE s # Latest
    <3>1. Fetching(b) \/ Showing(b)
      BY <1>a, <2>1, <2>3 DEF Latest
    <3> QED
      BY <2>1, <3>1 DEF Fetching, Showing, Latest
  <2> QED
    BY <2>2, <2>3
<1>4. ASSUME NEW f \in fetches, BlogMissed(f) PROVE Fetching(b)' \/ Showing(b)'
  <2>1. /\ UNCHANGED <<docs, versions, asked, querying, begun, rows>> /\ fetches' = fetches \ {f}
        /\ \/ docs[f.blog].state # "complete" /\ incomplete' = incomplete
           \/ incomplete' = incomplete \cup {f.search}
    BY <1>4 DEF BlogMissed
  <2>2. Fetching(b) \/ Showing(b)
    BY <1>a, <2>1 DEF Latest
  <2>3. ~(f.search = Latest /\ f.blog = b)
    BY <2>1 DEF Wanted, Latest
  <2> QED
    BY <2>1, <2>2, <2>3 DEF Fetching, Showing, Latest
<1>5. ASSUME NEW f \in fetches, NEW e \in Entries, BlogArrived(f, e)
      PROVE  Fetching(b)' \/ Showing(b)'
  <2>1. /\ UNCHANGED <<docs, versions, asked, querying, begun>> /\ fetches' = fetches \ {f}
        /\ e.search = f.search /\ e.blog = f.blog /\ rows' = blogArray'
        /\ \/ e.doc = docs[f.blog] /\ incomplete' = incomplete
           \/ incomplete' = incomplete \cup {f.search}
    BY <1>5 DEF BlogArrived
  <2>2. Fetching(b) \/ Showing(b)
    BY <1>a, <2>1 DEF Latest
  <2>3. AppendedIs(e)
    BY <1>0, <1>5, BlogIsAppended
  <2>4. CASE f.search = Latest /\ f.blog = b
    <3>1. e.search = Latest /\ e.blog = b /\ e.doc = docs[b]
      BY <2>1, <2>4 DEF Latest
    <3> QED
      BY <2>1, <2>3, <3>1 DEF AppendedIs, Showing, Latest
  <2>5. CASE ~(f.search = Latest /\ f.blog = b) /\ Fetching(b)
    BY <2>1, <2>5 DEF Fetching, Latest
  <2>6. CASE Showing(b)
    <3>1. rows = blogArray
      BY <1>0, <2>6 DEF Showing, StaleRowsAreOld
    <3> QED
      BY <2>1, <2>3, <2>6, <3>1 DEF AppendedIs, Showing, Latest
  <2> QED
    BY <2>2, <2>4, <2>5, <2>6
<1>6. CASE RowUsed
  BY <1>a, <1>6 DEF RowUsed, Fetching, Showing, Latest
<1>7. CASE UNCHANGED vars
  BY <1>a, <1>7 DEF vars, Fetching, Showing, Latest
<1> QED
  BY <1>0, <1>1, <1>2, <1>3, <1>4, <1>5, <1>6, <1>7, StepCases

LEMMA NextNoneIsForeign == IInv /\ [Next]_vars => NoneIsForeign'
<1> SUFFICES ASSUME IInv, [Next]_vars PROVE NoneIsForeign'
  OBVIOUS
<1>0. /\ RowsIInv /\ TypeOK /\ NoneIsForeign /\ FetchesAreHits /\ StaleRowsAreOld
      /\ TapOpensWhatIsShown
  BY DEF IInv, RowsIInv
<1>1. ASSUME NEW c \in Blogs, Edited(c) PROVE NoneIsForeign'
  BY <1>0, <1>1 DEF Edited, NoneIsForeign, Latest
<1>2. ASSUME NEW t \in Texts, SearchBarSearchButtonClicked(t) PROVE NoneIsForeign'
  <2>1. Latest' = Latest + 1 /\ Latest \in Nat /\ rows' = rows
    BY <1>0, <1>2 DEF SearchBarSearchButtonClicked, Latest, TypeOK
  <2> QED
    BY <1>0, <2>1 DEF NoneIsForeign, StaleRowsAreOld
<1>3. ASSUME NEW s \in 1 .. MaxSearches, NEW hits \in SUBSET Fetches, QueryDone(s, hits)
      PROVE  NoneIsForeign'
  BY <1>0, <1>3 DEF QueryDone, Fetch, NoneIsForeign, Latest
<1>4. ASSUME NEW f \in fetches, BlogMissed(f) PROVE NoneIsForeign'
  BY <1>0, <1>4 DEF BlogMissed, NoneIsForeign, Latest
<1>5. ASSUME NEW f \in fetches, NEW e \in Entries, BlogArrived(f, e) PROVE NoneIsForeign'
  <2>1. /\ UNCHANGED <<asked, begun>> /\ e.search = f.search /\ rows' = blogArray'
        /\ \/ e.doc = docs[f.blog] /\ incomplete' = incomplete
           \/ incomplete' = incomplete \cup {f.search}
    BY <1>5 DEF BlogArrived
  <2>2. AppendedIs(e)
    BY <1>0, <1>5, BlogIsAppended
  <2>3. ASSUME e.search = Latest, Latest \notin incomplete', e.doc.version <= begun
        PROVE  StartsWith(e.doc.location, asked[Latest])
    <3>1. e.doc = f.doc
      <4>1. f.search = Latest /\ e.doc = docs[f.blog] /\ incomplete' = incomplete
        BY <2>1, <2>3
      <4> QED
        BY <1>0, <2>3, <4>1 DEF FetchesAreHits
    <3>2. f.doc.location \in Locations
      BY <1>0 DEF TypeOK, Fetches, Docs
    <3>3. Latest \in 1 .. Latest /\ Matches(asked[Latest], f.doc.location)
      BY <1>0, <2>1, <2>3 DEF FetchesAreHits
    <3> QED
      BY <1>0, <3>1, <3>2, <3>3, FoundOrLate
  <2>4. Latest \notin incomplete' => \A i \in DOMAIN blogArray :
          (blogArray[i].search = Latest /\ blogArray[i].doc.version <= begun) =>
            StartsWith(blogArray[i].doc.location, asked[Latest])
    BY <1>0, <2>1 DEF TapOpensWhatIsShown, NoneIsForeign
  <2> QED
    BY <2>1, <2>2, <2>3, <2>4 DEF NoneIsForeign, AppendedIs, Latest
<1>6. CASE RowUsed
  BY <1>0, <1>6 DEF RowUsed, NoneIsForeign, Latest
<1>7. CASE UNCHANGED vars
  BY <1>0, <1>7 DEF vars, NoneIsForeign, Latest
<1> QED
  BY <1>0, <1>1, <1>2, <1>3, <1>4, <1>5, <1>6, <1>7, StepCases

LEMMA InvariantHolds == Spec => []IInv
<1>1. IInv /\ [Next]_vars => IInv'
  BY NextRowsIInv, NextEachStageOnce, NextOvertaken, NextNoneIsLost, NextNoneIsForeign DEF IInv
<1> QED
  BY <1>1, InitIInv, PTL DEF Spec
-----------------------------------------------------------------------------
(* The variables of the search page keep to their types.                   *)
THEOREM TypeCorrect == Spec => []TypeOK
BY InvariantHolds, PTL DEF IInv, RowsIInv

(* A tap never opens a blog other than the one its row shows               *)
(* (didSelectRowAt), although the table is not told that blogArray has     *)
(* been emptied.                                                           *)
THEOREM TapAlwaysOpensWhatIsShown == Spec => []TapOpensWhatIsShown
BY InvariantHolds, PTL DEF IInv, RowsIInv

(* The index of a row is out of range only before the last search has      *)
(* shown a row.                                                            *)
THEOREM TrapsOnlyBeforeResults == Spec => []TrapsOnlyOnStaleRows
BY InvariantHolds, PTL DEF IInv

(* No search puts a blog into the table twice.                             *)
THEOREM AlwaysOneRowPerHit == Spec => []OneRowPerHit
BY InvariantHolds, PTL DEF IInv

(* Results of an earlier search among those of the last are those of a     *)
(* search that had not finished.                                           *)
THEOREM ForeignRowsAlwaysOvertaken == Spec => []ForeignRowsWereOvertaken
BY InvariantHolds, PTL DEF IInv

(* Whatever is fetched starts with the text it was searched for: the range *)
(* query finds prefixes, for all strings.                                  *)
THEOREM FoundAlwaysStarts == Spec => []FoundStartsWithText
<1>1. IInv => FoundStartsWithText
  <2>1. ASSUME IInv, NEW f \in fetches PROVE StartsWith(f.doc.location, asked[f.search])
    <3>1. TypeOK /\ f.search \in 1 .. Latest /\ Matches(asked[f.search], f.doc.location)
      BY <2>1 DEF IInv, RowsIInv, FetchesAreHits
    <3>2. f.doc.location \in Locations
      BY <3>1 DEF TypeOK, Fetches, Docs
    <3> QED
      BY <3>1, <3>2, FoundOrLate
  <2> QED
    BY <2>1 DEF FoundStartsWithText
<1> QED
  BY <1>1, InvariantHolds, PTL

(* When the last search is over and nothing of it went unanswered, the     *)
(* table has every blog it should have, and no other that was there        *)
(* before it.                                                              *)
THEOREM ResultsAlwaysComplete == Spec => []ResultsAreComplete
<1>1. IInv => ResultsAreComplete
  <2> SUFFICES ASSUME IInv, Latest > 0, Latest \notin UnderWay, Latest \notin incomplete
               PROVE  /\ \A b \in Blogs : Wanted(b) => Showing(b)
                      /\ NoneIsForeign
    BY DEF ResultsAreComplete, Wanted, Showing, NoneIsForeign
  <2>1. \A b \in Blogs : ~Fetching(b)
    BY DEF Fetching, UnderWay
  <2>2. Latest \notin querying
    BY DEF UnderWay
  <2> QED
    BY <2>1, <2>2 DEF IInv, NoneIsLost
<1> QED
  BY <1>1, InvariantHolds, PTL
=============================================================================

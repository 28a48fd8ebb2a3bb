------------------------------- MODULE Search -------------------------------
(***************************************************************************)
(* The search page (SearchViewController).  A search empties blogArray and *)
(* asks for the ids of the blogs whose location starts with the text; each *)
(* id found is fetched again, and each blog that decodes is appended and   *)
(* the table reloaded.  Answers come back in any order, those of an older  *)
(* search too, while other people publish.  The table keeps showing the    *)
(* rows of its last reload, and asks blogArray again for a row that is     *)
(* tapped or scrolled back into view.                                      *)
(***************************************************************************)
EXTENDS Naturals, Sequences, PrefixQuery

CONSTANTS
  Blogs,        \* ids of documents
  Locations,    \* values of travel_location, strings
  Texts,        \* what is typed into the search bar, strings
  MaxSearches,  \* bound on the searches made on a page
  MaxEdits      \* bound on the changes of all documents together

ASSUME SearchAssumption ==
  /\ Texts \subseteq Seq(Nat) /\ Locations \subseteq Seq(Nat)
  /\ MaxSearches \in Nat
  /\ MaxEdits \in Nat

(* A document as a search sees it: a "draft" has no author yet, and        *)
(* "absent" stands for one without a location too.  Versions count edits.  *)
Docs == [state : {"absent", "draft", "complete"}, location : Locations,
         version : 0 .. MaxEdits]
Fetches == [search : 1 .. MaxSearches, blog : Blogs, doc : Docs]
Entries == Fetches

VARIABLES
  docs,       \* the collection blogs on the backend
  versions,   \* what each document has been, so what a cache may have of it
  asked,      \* the texts searched for so far, the last one last
  querying,   \* searches whose query is not answered
  fetches,    \* getDocument calls not answered, with what the query found
  blogArray,  \* the decoded blogs, in order of arrival, with their search
  rows,       \* what the rows of the table show
  trapped,    \* has an index into blogArray been out of range?
  opened,     \* the page a tap pushed: what its row showed, what it was given
  edits,      \* history: number of edits (for the bound)
  overtaken,  \* history: searches not finished when the next one began
  incomplete, \* history: searches with a request the backend did not answer
  begun       \* history: number of edits when the last search began

vars == <<docs, versions, asked, querying, fetches, blogArray, rows, trapped, opened, edits,
          overtaken, incomplete, begun>>

Latest == Len(asked)
Covered == opened # << >>     \* pages are never popped
UnderWay == querying \cup {f.search : f \in fetches}

Init ==
  /\ docs \in [Blogs -> {d \in Docs : d.version = 0}]
  /\ versions = [b \in Blogs |-> {docs[b]}]
  /\ asked = << >>
  /\ querying = {}
  /\ fetches = {}
  /\ blogArray = << >>
  /\ rows = << >>
  /\ trapped = FALSE
  /\ opened = << >>
  /\ edits = 0
  /\ overtaken = {}
  /\ incomplete = {}
  /\ begun = 0

(* Someone publishes: the document is there, is replaced, or gets its      *)
(* author.  (No document is ever deleted.)                                 *)
Edited(b) ==
  /\ edits < MaxEdits
  /\ edits' = edits + 1
  /\ \/ \E l \in Locations :
          docs' = [docs EXCEPT ![b] = [state |-> "draft", location |-> l,
                                       version |-> edits']]
     \/ /\ docs[b].state = "draft"
        /\ docs' = [docs EXCEPT ![b].state = "complete", ![b].version = edits']
  /\ versions' = [versions EXCEPT ![b] = @ \cup {docs'[b]}]
  /\ UNCHANGED <<asked, querying, fetches, blogArray, rows, trapped, opened,
                 overtaken, incomplete, begun>>

(* Faulty: the results so far stay. *)
SearchClickedKeeps(t) ==
  /\ ~trapped /\ ~Covered
  /\ Latest < MaxSearches
  /\ asked' = Append(asked, t)
  /\ querying' = querying \cup {Latest'}
  /\ overtaken' = overtaken \cup UnderWay
  /\ begun' = edits
  /\ UNCHANGED <<docs, versions, fetches, blogArray, rows, trapped, opened, edits, incomplete>>

(* The Search button of the keyboard.  blogArray is emptied; the table is  *)
(* not told.                                                               *)
SearchBarSearchButtonClicked(t) ==
  /\ ~trapped /\ ~Covered
  /\ Latest < MaxSearches
  /\ asked' = Append(asked, t)
  /\ blogArray' = << >>
  /\ querying' = querying \cup {Latest'}
  /\ overtaken' = overtaken \cup UnderWay
  /\ begun' = edits
  /\ UNCHANGED <<docs, versions, fetches, rows, trapped, opened, edits, incomplete>>

(* The query of searchFirestore, put to one version of a document. *)
Finds(s, d) == d.state # "absent" /\ Matches(asked[s], d.location)

(* The backend's answer: every document found is fetched again. *)
Hits(s) ==
  {[search |-> s, blog |-> b, doc |-> docs[b]] : b \in {c \in Blogs : Finds(s, docs[c])}}

(* The cache matches the copies it has, of whatever age. *)
CacheHits(s) ==
  UNION {{[search |-> s, blog |-> b, doc |-> d] : d \in {v \in versions[b] : Finds(s, v)}} :
           b \in Blogs}

(* Faulty: a standing listener takes the place of the query. *)
FetchListening(s, hits) ==
  /\ ~trapped
  /\ s \in querying
  /\ fetches' = fetches \cup hits
  /\ UNCHANGED <<docs, versions, asked, querying, blogArray, rows, trapped, opened, edits,
                 overtaken, begun>>

Fetch(s, hits) ==
  /\ ~trapped
  /\ s \in querying
  /\ querying' = querying \ {s}
  /\ fetches' = fetches \cup hits
  /\ UNCHANGED <<docs, versions, asked, blogArray, rows, trapped, opened, edits, overtaken,
                 begun>>

QueryAnswered(s) == Fetch(s, Hits(s)) /\ UNCHANGED incomplete

(* An error, or, out of reach of the backend, what the cache has. *)
QueryUnreachable(s) ==
  /\ s \in querying
  /\ \E hits \in SUBSET CacheHits(s) :
       /\ \A f, g \in hits : f.blog = g.blog => f = g
       /\ Fetch(s, hits)
  /\ incomplete' = incomplete \cup {s}

(* Faulty: the table is not told. *)
ReloadDataForgotten == UNCHANGED rows

(* The table takes over blogArray as it is then. *)
ReloadData == rows' = blogArray'

(* retrieveDataFromBlogsCollection's answer: a complete blog is appended   *)
(* and shown; of any other the decoding error is printed.                  *)
Retrieved(f) ==
  /\ ~trapped
  /\ f \in fetches
  /\ fetches' = fetches \ {f}
  /\ IF docs[f.blog].state = "complete"
       THEN /\ blogArray' = Append(blogArray, [search |-> f.search, blog |-> f.blog,
                                               doc |-> docs[f.blog]])
            /\ ReloadData
       ELSE UNCHANGED <<blogArray, rows>>
  /\ UNCHANGED <<docs, versions, asked, querying, trapped, opened, edits, overtaken,
                 incomplete, begun>>

(* Out of reach of the backend the document comes from the cache, as the   *)
(* query left it there.                                                    *)
RetrievedFromCache(f) ==
  /\ ~trapped
  /\ f \in fetches
  /\ fetches' = fetches \ {f}
  /\ incomplete' = incomplete \cup {f.search}
  /\ IF f.doc.state = "complete"
       THEN /\ blogArray' = Append(blogArray, f)
            /\ ReloadData
       ELSE UNCHANGED <<blogArray, rows>>
  /\ UNCHANGED <<docs, versions, asked, querying, trapped, opened, edits, overtaken, begun>>

(* Faulty: an error empties the results. *)
RetrieveFailedEmpties(f) ==
  /\ ~trapped
  /\ f \in fetches
  /\ fetches' = fetches \ {f}
  /\ incomplete' = incomplete \cup {f.search}
  /\ blogArray' = << >>
  /\ UNCHANGED <<docs, versions, asked, querying, rows, trapped, opened, edits,
                 overtaken, begun>>

RetrieveFailed(f) ==
  /\ ~trapped
  /\ f \in fetches
  /\ fetches' = fetches \ {f}
  /\ incomplete' = incomplete \cup {f.search}
  /\ UNCHANGED <<docs, versions, asked, querying, blogArray, rows, trapped, opened, edits,
                 overtaken, begun>>

(* didSelectRowAt and cellForRowAt both index blogArray with a row of the  *)
(* table.                                                                  *)
DidSelectRow(i) ==
  /\ ~trapped /\ ~Covered
  /\ i \in DOMAIN rows
  /\ IF i \in DOMAIN blogArray
       THEN opened' = <<rows[i], blogArray[i]>> /\ UNCHANGED trapped
       ELSE trapped' = TRUE /\ UNCHANGED opened
  /\ UNCHANGED <<docs, versions, asked, querying, fetches, blogArray, rows, edits,
                 overtaken, incomplete, begun>>

CellForRow(i) ==
  /\ ~trapped /\ ~Covered
  /\ i \in DOMAIN rows
  /\ IF i \in DOMAIN blogArray
       THEN rows' = [rows EXCEPT ![i] = blogArray[i]] /\ UNCHANGED trapped
       ELSE trapped' = TRUE /\ UNCHANGED rows
  /\ UNCHANGED <<docs, versions, asked, querying, fetches, blogArray, opened, edits,
                 overtaken, incomplete, begun>>

Answers ==
  \/ \E s \in 1 .. MaxSearches : QueryAnswered(s) \/ QueryUnreachable(s)
  \/ \E f \in fetches : Retrieved(f) \/ RetrievedFromCache(f) \/ RetrieveFailed(f)

Next ==
  \/ \E b \in Blogs : Edited(b)
  \/ \E t \in Texts : SearchBarSearchButtonClicked(t)
  \/ Answers
  \/ \E i \in DOMAIN rows : DidSelectRow(i) \/ CellForRow(i)

Spec == Init /\ [][Next]_vars

(* Every request is answered or times out; nobody has to tap or to edit.   *)
FairSpec == Spec /\ WF_vars(Answers)
-----------------------------------------------------------------------------
TypeOK ==
  /\ docs \in [Blogs -> Docs] /\ versions \in [Blogs -> SUBSET Docs]
  /\ asked \in Seq(Texts) /\ Len(asked) <= MaxSearches
  /\ querying \subseteq 1 .. Latest
  /\ fetches \subseteq Fetches
  /\ blogArray \in Seq(Entries)
  /\ rows \in Seq(Entries)
  /\ trapped \in BOOLEAN
  /\ opened \in {<< >>} \cup (Entries \X Entries)
  /\ edits \in 0 .. MaxEdits
  /\ overtaken \subseteq 1 .. Latest
  /\ incomplete \subseteq 1 .. Latest
  /\ begun \in 0 .. edits

(* A tap opens the blog its row shows (lines 20 to 24), although the table *)
(* and blogArray are not the same after line 61: they differ only while    *)
(* blogArray is empty, so a tap on a stale row traps, and does not open    *)
(* another blog.                                                           *)
TapOpensWhatIsShown ==
  /\ Covered => opened[1] = opened[2]
  /\ rows # blogArray => blogArray = << >>

(* An index is out of range only before the first row of the last search   *)
(* has come: once a row of it is shown, every row may be tapped.           *)
TrapsOnlyOnStaleRows ==
  trapped => \A i \in DOMAIN rows : rows[i].search # Latest

(* One search puts a blog into the table once, whatever the order of       *)
(* answers and edits.                                                      *)
OneRowPerHit ==
  \A i, j \in DOMAIN blogArray :
    (blogArray[i].search = blogArray[j].search /\ blogArray[i].blog = blogArray[j].blog)
      => i = j

(* A row of a search other than the last one is there only because that    *)
(* search had not finished when the next began: its answers are appended   *)
(* to the new results.                                                     *)
ForeignRowsWereOvertaken ==
  \A i \in DOMAIN blogArray :
    blogArray[i].search # Latest => blogArray[i].search \in overtaken

(* The search asks only for documents whose location started with the text *)
(* when it was answered: comparing whole strings twice (lines 68 and 69)   *)
(* does what a test of the prefix would.                                   *)
FoundStartsWithText ==
  \A f \in fetches : StartsWith(f.doc.location, asked[f.search])

(* When the last search is over and the backend answered all of it, the    *)
(* table has every blog that has been complete, at a place that starts     *)
(* with the text, since before the search, unless the place goes on too    *)
(* late (line 69); and a row that does not start so was edited after the   *)
(* search began (its document is fetched after the query).                 *)
ResultsAreComplete ==
  (Latest > 0 /\ Latest \notin UnderWay \cup incomplete) =>
    LET t == asked[Latest]
        current == {i \in DOMAIN rows : rows[i].search = Latest}
    IN  /\ \A b \in Blogs :
             (/\ docs[b].version <= begun /\ docs[b].state = "complete"
              /\ StartsWith(docs[b].location, t) /\ ~GoesOnLate(docs[b].location, t)) =>
               \E i \in current : rows[i].blog = b /\ rows[i].doc = docs[b]
        /\ \A i \in current :
             rows[i].doc.version <= begun => StartsWith(rows[i].doc.location, t)

(* Every search comes to an end, unless a tap ends the app first.          *)
SearchEnds ==
  \A s \in 1 .. MaxSearches : s \in querying ~> (trapped \/ s \notin UnderWay)
=============================================================================

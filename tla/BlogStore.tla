------------------------------ MODULE BlogStore ------------------------------
(***************************************************************************)
(* What publishing promises to whoever reads the blogs: a document gets    *)
(* the four fields of one publication at a time and an author; a           *)
(* publication may store its fields again and again until it is reported,  *)
(* never after; and one is reported only when its blog has an author or    *)
(* has been taken over by another publication.                             *)
(***************************************************************************)
CONSTANTS
  Keys,    \* ids of documents
  Pubs,    \* publications
  NoPub    \* the four fields are absent

VARIABLES
  docs,      \* the four fields, by their publication, and is there an author?
  reported   \* publications whose user was shown the blog page

vars == <<docs, reported>>

Init ==
  /\ docs = [k \in Keys |-> [info |-> NoPub, named |-> FALSE]]
  /\ reported = {}

(* The four fields replace the document, always the same one for p. *)
StoreInfo(p, k) ==
  /\ p \notin reported
  /\ \A j \in Keys \ {k} : docs[j].info # p
  /\ docs' = [docs EXCEPT ![k] = [info |-> p, named |-> FALSE]]
  /\ UNCHANGED reported

(* The author is merged into it. *)
StoreAuthor(k) ==
  /\ docs' = [docs EXCEPT ![k].named = TRUE]
  /\ UNCHANGED reported

(* What p stored, if it is still there, has its author by now. *)
Report(p) ==
  /\ p \notin reported
  /\ \E k \in Keys : docs[k].info # NoPub
  /\ \A k \in Keys : docs[k].info = p => docs[k].named
  /\ reported' = reported \cup {p}
  /\ UNCHANGED docs

Next ==
  \/ \E p \in Pubs, k \in Keys : StoreInfo(p, k)
  \/ \E k \in Keys : StoreAuthor(k)
  \/ \E p \in Pubs : Report(p)

Spec == Init /\ [][Next]_vars
==============================================================================

------------------------------ MODULE Travelers ------------------------------
(***************************************************************************)
(* Publishing seen from the pages: Publish, with the blog page that a      *)
(* publication ends with.  A page is pushed by a callback on top of        *)
(* whatever is shown, at a moment nobody chose: its user may have signed   *)
(* out, another may have signed in, and the document it reads may be under *)
(* way again.                                                              *)
(***************************************************************************)
EXTENDS Publish, FiniteSetsExt

VARIABLES
  page,    \* of each publication, what its blog page shows
  outrun   \* history: was the last sign-out forced, or ahead of a callback?

travelVars == <<vars, page, outrun>>

TravelInit ==
  /\ Init
  /\ page = [p \in Pubs |-> "none"]
  /\ outrun = [d \in Devices |-> FALSE]

(* What still brings a page: a sign-in's closure, a publication. *)
CallbackDue(d) ==
  \/ \E i \in DOMAIN notices'[d] : notices'[d][i] # NoUser
  \/ \E p \in Pubs : post[p].device = d /\ phase[p] \in Active

SignOutsSeen ==
  outrun' = [d \in Devices |->
    IF authUser'[d] # NoUser THEN FALSE
    ELSE IF inside[d] /\ ~inside'[d] THEN CallbackDue(d)
    ELSE outrun[d] \/ authUser[d] # NoUser]

(* The page is pushed by its publication, and starts its read. *)
PagesPushed ==
  page' = [p \in Pubs |->
    IF phase[p] # "published" /\ phase'[p] = "published" THEN "reading" ELSE page[p]]

(* A read ends with its process. *)
PagesEnd(d) ==
  page' = [p \in Pubs |->
    IF page[p] = "reading" /\ post[p].device = d THEN "gone" ELSE page[p]]

(* What Firestore shows of a document: the backend's, under the writes the *)
(* device has queued for the user it works for.                            *)
Shown(d, k) ==
  LET q == Current(d)
      infos == {i \in DOMAIN q : q[i].kind = "info" /\ InfoKey(q[i].pub) = k}
      authors == {i \in DOMAIN q : q[i].kind = "author" /\ AuthorKey(q[i].pub) = k}
      doc == IF infos = {} THEN blogs[k]
             ELSE [info |-> q[Max(infos)].pub, author |-> NoUser]
  IN  IF \E i \in authors : \A j \in infos : j < i THEN [doc EXCEPT !.author = k[2]] ELSE doc

(* Faulty: the page asks for the document of the user there is. *)
DocumentIDOfCurrentUser(p) ==
  LET u == authUser[post[p].device]
  IN  <<post[p].name, IF u = NoUser THEN author[p] ELSE u>>

DocumentID(p) == AuthorKey(p)

(* retrieveDataFromBlogsCollection, of the page: a blog that decodes is    *)
(* set up; of any other the error is printed and the page stays empty.     *)
PageRead(p) ==
  LET doc == Shown(post[p].device, DocumentID(p)) IN
  /\ page[p] = "reading"
  /\ page' = [page EXCEPT ![p] = IF Complete(doc) THEN "set up" ELSE "empty"]
  /\ UNCHANGED <<vars, outrun>>

(* Out of reach of the backend: an error, or what the cache has. *)
PageReadOffline(p) ==
  /\ page[p] = "reading"
  /\ page' = [page EXCEPT ![p] = "offline"]
  /\ UNCHANGED <<vars, outrun>>

TravelNext ==
  \/ Runs /\ SignOutsSeen /\ PagesPushed
  \/ \E d \in Devices : Ends(d) /\ SignOutsSeen /\ PagesEnd(d)
  \/ \E p \in Pubs : PageRead(p) \/ PageReadOffline(p)

TravelSpec == TravelInit /\ [][TravelNext]_travelVars

FairTravelSpec == TravelSpec /\ Fairness
-----------------------------------------------------------------------------
(* A page behind the login is open with nobody signed in only after a      *)
(* sign-out by force, or one that a callback outran: the closure of        *)
(* another sign-in, or that of a publication (line 128), which pushes the  *)
(* blog page on top of the launch page.                                    *)
InsideIsSignedIn ==
  \A d \in Devices : inside[d] /\ authUser[d] = NoUser => outrun[d]

(* The blog page of a publication is empty, although the backend answered, *)
(* only when another user was signed in half way, or when the same name    *)
(* was published again.                                                    *)
EmptyPageIsExplained ==
  \A p \in Pubs :
    page[p] = "empty" =>
      \/ author[p] # post[p].uid
      \/ \E q \in Pubs \ {p} : phase[q] # "unused" /\ InfoKey(q) = InfoKey(p)
=============================================================================

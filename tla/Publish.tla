------------------------------- MODULE Publish -------------------------------
(***************************************************************************)
(* Publishing a travel blog (CreateNewBlogViewController) on top of the    *)
(* Firestore client.  One tap on Publish is one publication, and takes two *)
(* writes and a read:                                                      *)
(*                                                                         *)
(*   unused -tap-> info -ack-> stored -callback-> reading -users/<uid>->   *)
(*   author -ack-> named -callback-> published                             *)
(*                                                                         *)
(* "info" replaces the document blogs/<name><uid> by the four fields the   *)
(* page holds; "author" merges travel_author into blogs/<name><uid'>,      *)
(* where uid' is the user Auth has when the acknowledgement of the first   *)
(* write is handled.  Between two steps the user may sign out, another may *)
(* sign in, the stream may close, the process may end, and another device  *)
(* of the same user may publish under the same name.                       *)
(***************************************************************************)
EXTENDS FirestoreClient

CONSTANTS
  Names,        \* what is typed as the name of a blog
  Slashed,      \* the names that make an invalid document path
  Unprofiled,   \* accounts without a usable document users/<uid>
  Pubs,         \* taps on Publish; each happens once (a bound)
  NoPub,        \* no publication: the four fields are absent
  MaxSwitches   \* bound on the sign-ins and sign-outs of a device

ASSUME PublishAssumption ==
  /\ Slashed \subseteq Names
  /\ Unprofiled \subseteq Users
  /\ NoPub \notin Pubs
  /\ MaxSwitches \in Nat
  /\ Devices # {} /\ Names # {} /\ Users # {}

VARIABLES
  authUser,   \* Auth.auth().currentUser of each device, kept in the keychain
  notices,    \* auth state changes posted to the main thread, oldest first
  signingIn,  \* sign-ins asked for and not yet answered
  inside,     \* is the page shown one of those behind the login page?
  saved,      \* does UserDefaults have a value for "url"?
  switches,   \* number of sign-ins and sign-outs so far (for the bound)
  phase,      \* how far each publication has got
  post,       \* its device, its name and the uid it was tapped with
  author,     \* the uid its acknowledgement was handled with
  blogs       \* the documents of the collection blogs

sessionVars == <<authUser, notices, signingIn, inside, saved, switches>>
pubVars == <<phase, post, author>>
vars == <<clientVars, sessionVars, pubVars, blogs>>

(* name and uid make the document's id: the uid, whose length is fixed,    *)
(* ends it, so two pairs never make the same id.                           *)
Keys == Names \X Users
Docs == [info : Pubs \cup {NoPub}, author : Signers]
Absent == [info |-> NoPub, author |-> NoUser]
Posts == [device : Devices, name : Names, uid : Users]
Mutations == [pub : Pubs, kind : {"info", "author"}]
Info(p) == [pub |-> p, kind |-> "info"]
Author(p) == [pub |-> p, kind |-> "author"]

Active == {"info", "stored", "reading", "author", "named"}
Settled == {"published", "failed", "lost"}
Phases == {"unused"} \cup Active \cup Settled

(* BlogData decodes only when all five fields are there. *)
Complete(doc) == doc.info # NoPub /\ doc.author # NoUser

InfoKey(p) == <<post[p].name, post[p].uid>>
(* Faulty: the author is written to the document of the one who tapped. *)
AuthorKeyOfTapper(p) == InfoKey(p)

AuthorKey(p) == <<post[p].name, author[p]>>

Init ==
  /\ ClientInit
  /\ authUser = [d \in Devices |-> NoUser]
  /\ notices = [d \in Devices |-> << >>]
  /\ signingIn = [d \in Devices |-> {}]
  /\ inside = [d \in Devices |-> FALSE]
  /\ saved = [d \in Devices |-> FALSE]
  /\ switches = [d \in Devices |-> 0]
  /\ phase = [p \in Pubs |-> "unused"]
  /\ post = [p \in Pubs |-> CHOOSE b \in Posts : TRUE]
  /\ author = [p \in Pubs |-> NoUser]
  /\ blogs = [k \in Keys |-> Absent]
-----------------------------------------------------------------------------
(* The session, as far as publishing depends on it. *)

MaySwitch(d) ==
  /\ switches[d] < MaxSwitches
  /\ switches' = [switches EXCEPT ![d] = @ + 1]

(* currentUser changes on Auth's own queue; the main thread hears of it    *)
(* from a block dispatched to it.                                          *)
UpdateCurrentUser(d, u) ==
  /\ authUser' = [authUser EXCEPT ![d] = u]
  /\ notices' = [notices EXCEPT ![d] = Append(@, u)]

(* A login button: email and password, Facebook or Google. *)
LoginTapped(d, u) ==
  /\ ~inside[d]
  /\ u \notin signingIn[d]
  /\ MaySwitch(d)
  /\ signingIn' = [signingIn EXCEPT ![d] = @ \cup {u}]
  /\ UNCHANGED <<clientVars, authUser, notices, inside, saved, pubVars, blogs>>

(* The answer to a sign-in, whatever page is shown by then. *)
SignInAnswered(d, u) ==
  /\ u \in signingIn[d]
  /\ signingIn' = [signingIn EXCEPT ![d] = @ \ {u}]
  /\ \/ UpdateCurrentUser(d, u)
     \/ UNCHANGED <<authUser, notices>>      \* refused: only printed
  /\ UNCHANGED <<clientVars, inside, saved, switches, pubVars, blogs>>

(* The main thread runs the oldest notice, and after that of a sign-in the *)
(* sign-in's callback, which shows the search page.                        *)
AuthStateChanged(d) ==
  /\ notices[d] # << >>
  /\ HandleCredentialChange(d, Head(notices[d]))
  /\ notices' = [notices EXCEPT ![d] = Tail(@)]
  /\ inside' = [inside EXCEPT ![d] = @ \/ Head(notices[d]) # NoUser]
  /\ UNCHANGED <<authUser, signingIn, saved, switches, pubVars, blogs>>

(* Faulty: the login page does not ask whether there is a user. *)
AlreadyLoggedInUnchecked(d) ==
  /\ ~inside[d]
  /\ inside' = [inside EXCEPT ![d] = TRUE]
  /\ UNCHANGED <<clientVars, authUser, notices, signingIn, saved, switches,
                 pubVars, blogs>>

(* The login page, opened with a user restored from the keychain. *)
AlreadyLoggedIn(d) ==
  /\ ~inside[d]
  /\ authUser[d] # NoUser
  /\ inside' = [inside EXCEPT ![d] = TRUE]
  /\ UNCHANGED <<clientVars, authUser, notices, signingIn, saved, switches,
                 pubVars, blogs>>

(* Sign-out, and the launch page. *)
UserProfileButtonTapped(d) ==
  /\ inside[d]
  /\ MaySwitch(d)
  /\ IF authUser[d] = NoUser
       THEN UNCHANGED <<authUser, notices>>
       ELSE UpdateCurrentUser(d, NoUser)
  /\ inside' = [inside EXCEPT ![d] = FALSE]
  /\ UNCHANGED <<clientVars, signingIn, saved, pubVars, blogs>>

(* Auth drops a user whose token the backend no longer accepts; the page   *)
(* stays.                                                                  *)
SignOutByForce(d) ==
  /\ authUser[d] # NoUser
  /\ MaySwitch(d)
  /\ UpdateCurrentUser(d, NoUser)
  /\ UNCHANGED <<clientVars, signingIn, inside, saved, pubVars, blogs>>

(* A chosen image has been uploaded and its URL kept (module TravelShot).  *)
UrlSaved(d) ==
  /\ ~saved[d]
  /\ saved' = [saved EXCEPT ![d] = TRUE]
  /\ UNCHANGED <<clientVars, authUser, notices, signingIn, inside, switches,
                 pubVars, blogs>>

(* The process ends and the app is opened again.  Publications that were   *)
(* under way have lost their callbacks; their queued writes have not gone. *)
Restart(d) ==
  /\ RestartClient(d, authUser[d])
  /\ notices' = [notices EXCEPT ![d] = << >>]
  /\ signingIn' = [signingIn EXCEPT ![d] = {}]
  /\ inside' = [inside EXCEPT ![d] = FALSE]
  /\ phase' = [p \in Pubs |-> IF phase[p] \in Active /\ post[p].device = d
                                THEN "lost" ELSE phase[p]]
  /\ UNCHANGED <<authUser, saved, switches, post, author, blogs>>
-----------------------------------------------------------------------------
(* Publishing. *)

(* The Publish button.  With nobody signed in the handler returns. *)
PublishBlogButtonTapped(d, p, n) ==
  /\ inside[d]
  /\ phase[p] = "unused"
  /\ saved[d]
  /\ authUser[d] # NoUser
  /\ n \notin Slashed
  /\ post' = [post EXCEPT ![p] = [device |-> d, name |-> n, uid |-> authUser[d]]]
  /\ phase' = [phase EXCEPT ![p] = "info"]
  /\ WriteMutations(d, Info(p))
  /\ UNCHANGED <<sessionVars, author, blogs>>

(* The same button without a saved URL (a forced cast of nil) or with a    *)
(* name that is no document id (an exception): the app ends.               *)
PublishTraps(d) ==
  /\ inside[d]
  /\ \/ ~saved[d]
     \/ authUser[d] # NoUser /\ Slashed # {}
  /\ Restart(d)

(* retrieveFullNameOfAuthorFromUsersCollection: its guard hides the uid it *)
(* was called with behind that of the current user.                        *)
RetrieveFullName(p) ==
  LET u == authUser[post[p].device] IN
  /\ phase[p] = "stored"
  /\ phase' = [phase EXCEPT ![p] = IF u = NoUser THEN "failed" ELSE "reading"]
  /\ author' = [author EXCEPT ![p] = u]
  /\ UNCHANGED <<clientVars, sessionVars, post, blogs>>

(* users/<uid> decodes: merge the author's name into the blog. *)
ProfileRead(p) ==
  /\ phase[p] = "reading"
  /\ author[p] \notin Unprofiled
  /\ phase' = [phase EXCEPT ![p] = "author"]
  /\ WriteMutations(post[p].device, Author(p))
  /\ UNCHANGED <<sessionVars, post, author, blogs>>

(* It does not, or cannot be fetched: the failure is printed. *)
ProfileNotRead(p) ==
  /\ phase[p] = "reading"
  /\ phase' = [phase EXCEPT ![p] = "failed"]
  /\ UNCHANGED <<clientVars, sessionVars, post, author, blogs>>

(* Faulty: the blog page is shown without waiting for the second write. *)
TransferToBlogPageEarly(p) ==
  /\ phase[p] \in {"author", "named"}
  /\ phase' = [phase EXCEPT ![p] = "published"]
  /\ inside' = [inside EXCEPT ![post[p].device] = TRUE]
  /\ UNCHANGED <<clientVars, authUser, notices, signingIn, saved, switches,
                 post, author, blogs>>

(* "Successfully Uploaded all data": the blog page goes on top of whatever *)
(* page is shown.                                                          *)
TransferToBlogPage(p) ==
  /\ phase[p] = "named"
  /\ phase' = [phase EXCEPT ![p] = "published"]
  /\ inside' = [inside EXCEPT ![post[p].device] = TRUE]
  /\ UNCHANGED <<clientVars, authUser, notices, signingIn, saved, switches,
                 post, author, blogs>>
-----------------------------------------------------------------------------
(* The backend and its answers. *)

(* Faulty: the fields are merged into the document. *)
SetInfoMerged(p) == [blogs EXCEPT ![InfoKey(p)].info = p]

(* A set mutation replaces the document. *)
SetInfo(p) == [blogs EXCEPT ![InfoKey(p)] = [info |-> p, author |-> NoUser]]

(* Faulty: the author replaces the document. *)
PatchAuthorReplaces(p) ==
  [blogs EXCEPT ![AuthorKey(p)] = [info |-> NoPub, author |-> author[p]]]

(* A patch mutation leaves the other fields, and creates the document when *)
(* it is not there.                                                        *)
PatchAuthor(p) == [blogs EXCEPT ![AuthorKey(p)].author = author[p]]

Applied(m) == IF m.kind = "info" THEN SetInfo(m.pub) ELSE PatchAuthor(m.pub)

Commit(d) ==
  /\ CommitWrite(d)
  /\ blogs' = Applied(NextWrite(d))
  /\ UNCHANGED <<sessionVars, pubVars>>

(* The caller hears of its write if the process that made it still runs.   *)
NotifyUser(m, outcome) ==
  phase' = [phase EXCEPT ![m.pub] = IF @ = m.kind THEN outcome ELSE @]

WriteAcknowledged(d) ==
  LET m == Head(Current(d)) IN
  /\ HandleSuccessfulWrite(d)
  /\ NotifyUser(m, IF m.kind = "info" THEN "stored" ELSE "named")
  /\ UNCHANGED <<sessionVars, post, author, blogs>>

(* Faulty: nobody is told of a refused write. *)
WriteRejectedSilently(d) ==
  /\ HandleRejectedWrite(d)
  /\ UNCHANGED <<sessionVars, pubVars, blogs>>

WriteRejected(d) ==
  /\ HandleRejectedWrite(d)
  /\ NotifyUser(Head(Current(d)), "failed")
  /\ UNCHANGED <<sessionVars, post, author, blogs>>

StreamClosed(d) ==
  /\ OnWriteStreamClose(d)
  /\ UNCHANGED <<sessionVars, pubVars, blogs>>
-----------------------------------------------------------------------------
Session(d) ==
  \/ \E u \in Users : LoginTapped(d, u) \/ SignInAnswered(d, u)
  \/ AuthStateChanged(d)
  \/ AlreadyLoggedIn(d)
  \/ UserProfileButtonTapped(d)
  \/ SignOutByForce(d)
  \/ UrlSaved(d)

Answer(d) == WriteAcknowledged(d) \/ WriteRejected(d)

Callback(p) ==
  \/ RetrieveFullName(p)
  \/ ProfileRead(p)
  \/ ProfileNotRead(p)
  \/ TransferToBlogPage(p)

(* The steps of a process that goes on, and those that end one. *)
Runs ==
  \/ \E d \in Devices :
       \/ Session(d)
       \/ \E p \in Pubs, n \in Names : PublishBlogButtonTapped(d, p, n)
       \/ Commit(d)
       \/ Answer(d)
       \/ StreamClosed(d)
  \/ \E p \in Pubs : Callback(p)

Ends(d) == PublishTraps(d) \/ Restart(d)

Next == Runs \/ \E d \in Devices : Ends(d)

Spec == Init /\ [][Next]_vars

(* What the runtime does by itself: dispatched blocks run, a connected     *)
(* client's writes are executed, and the connection is not lost each time  *)
(* between a commit and its acknowledgement.  Taps, restarts and losses    *)
(* are under no obligation.                                                *)
Fairness ==
  /\ \A d \in Devices :
       /\ WF_vars(AuthStateChanged(d))
       /\ WF_vars(Commit(d))
       /\ SF_vars(WriteAcknowledged(d))
       /\ WF_vars(WriteRejected(d))
  /\ \A p \in Pubs : WF_vars(Callback(p))

FairSpec == Spec /\ Fairness
-----------------------------------------------------------------------------
(* Every variable has a value of its kind, the pipeline never runs past    *)
(* the queue it sends, nor past its capacity.                              *)
TypeOK ==
  /\ ClientTypeOK(Mutations)
  /\ authUser \in [Devices -> Signers]
  /\ notices \in [Devices -> Seq(Signers)]
  /\ signingIn \in [Devices -> SUBSET Users]
  /\ inside \in [Devices -> BOOLEAN]
  /\ saved \in [Devices -> BOOLEAN]
  /\ switches \in [Devices -> 0 .. MaxSwitches]
  /\ phase \in [Pubs -> Phases]
  /\ post \in [Pubs -> Posts]
  /\ author \in [Pubs -> Signers]
  /\ blogs \in [Keys -> Docs]

(* A blog whose publication went through to the blog page (line 128), and  *)
(* was not handled under another user than the one who tapped, has all its *)
(* fields as long as no later publication has replaced the four fields:    *)
(* neither a resent write, a restart nor another device undoes it.         *)
ReportedBlogIsComplete ==
  \A p \in Pubs :
    (phase[p] = "published" /\ author[p] = post[p].uid) =>
      LET doc == blogs[InfoKey(p)] IN doc.info = p => Complete(doc)

(* A document with an author and nothing else (line 122 merges into a      *)
(* document that is not there) is only ever left by a publication that     *)
(* another user tapped.                                                    *)
OrphanOnlyAfterSwitch ==
  \A k \in Keys :
    (blogs[k].info = NoPub /\ blogs[k].author # NoUser) =>
      \E p \in Pubs : AuthorKey(p) = k /\ post[p].uid # k[2]

(* The author a blog shows is the owner of its document, whoever was       *)
(* signed in at each of the steps that wrote it.                           *)
AuthorOwnsBlog ==
  \A k \in Keys : blogs[k].author \in {NoUser, k[2]}

(* A write is in at most one place of one queue, and a publication that is *)
(* still under way waits for no other write than the one it has queued.    *)
(* (A second copy, or one kept after its acknowledgement, would write an   *)
(* old version again after the publication has moved on.)                  *)
QueuedOnce ==
  \A d, e \in Devices, u, v \in Signers :
    \A i \in DOMAIN queue[d][u], j \in DOMAIN queue[e][v] :
      LET m == queue[d][u][i] IN
      /\ phase[m.pub] \in {m.kind, "lost"}
      /\ m = queue[e][v][j] => <<d, u, i>> = <<e, v, j>>

(* The publication waits for a write in the queue of a user the client     *)
(* does not work for now.                                                  *)
Shelved(p) ==
  \E d \in Devices, u \in Signers :
    u # fsUser[d] /\ \E i \in DOMAIN queue[d][u] : queue[d][u][i].pub = p

(* A publication comes to an end, in success, failure or with its process, *)
(* unless its write is left behind for good in the queue of a user who     *)
(* signed out: there is no other way to wait for ever.                     *)
PublicationSettles ==
  \A p \in Pubs : phase[p] \in Active ~> (phase[p] \in Settled \/ []Shelved(p))

(* What the module promises without its queues, devices and sessions: the  *)
(* publications told to be uploaded, for the blog they were tapped for,    *)
(* and the documents.                                                      *)
Reported == {p \in Pubs : phase[p] = "published" /\ author[p] = post[p].uid}
Visible ==
  [k \in Keys |-> [info |-> blogs[k].info, named |-> blogs[k].author # NoUser]]

Store == INSTANCE BlogStore WITH docs <- Visible, reported <- Reported

ImplementsBlogStore == Store!Spec

(* Line 127 prints "Successfully Uploaded all data to Firestore" as it     *)
(* goes to the blog page: then the blog that was tapped is complete.       *)
SuccessMeansAllUploaded ==
  [][\A p \in Pubs :
       (phase[p] # "published" /\ phase'[p] = "published") =>
         Complete(blogs[InfoKey(p)])]_vars
==============================================================================

# Travelers: models, checks and proofs

Travelers is an iOS app (ten Swift files under `src/Travelers/Travelers`) on
which people publish travel blogs and search for those of others. It has no
server of its own: it talks to Firebase Auth, Cloud Firestore and Cloud Storage
through SDKs that are vendored under `src/Travelers/Pods`. The app's own code is
short and all of it is callbacks, so what is hard about it is not in any one
handler. It is in what may happen between one callback and the next: another
user signs in, the connection is lost, the process ends, an older answer comes
late, another device writes the same document.

This directory models that: the app's pages, the parts of the Firestore client they
rely on, the configurations that check them with TLC, and eight modules of proofs
checked by TLAPS.

## 1. Inventory

| part | state it keeps | operations | talks to |
|---|---|---|---|
| Create New Blog page, publishing (`CreateNewBlogViewController` 107-164) | nothing of its own: closures hold the name and the uid | Publish tapped; first write acknowledged; profile read; second write acknowledged; blog page pushed | Firestore client, Auth, UserDefaults |
| Create New Blog page, travel shot (29-94) | the image view; `UserDefaults["url"]`, shared by all pages and kept over restarts | image chosen; uploaded; URL answered; image downloaded | Cloud Storage, URLSession |
| Search page (`SearchViewController`) | `blogArray`, the rows the table shows | search; query answered; document fetched; row tapped, row scrolled into view | Firestore client, URLSession |
| Firestore client, writes (Pods `FirebaseFirestore`) | current user; one persistent mutation queue per user; write stream and its pipeline | write; token; open; commit; acknowledge; refuse; stream closed; credential change; start | backend, Auth |
| Firestore client, reads | listeners, views, watch stream, online state, document cache | `getDocument`; snapshot; timeout; error; removal | backend |
| Firebase Auth (Pods `FirebaseAuth`) | `currentUser`, copied in the keychain | sign-in answered, sign-out, forced sign-out, notice to listeners | backend, Firestore client |
| Login page (`LoginViewController`) | nothing | log in by e-mail, Facebook or Google; user restored | Auth, Facebook and Google SDKs |
| Sign-up page (`SignUpViewController`) | nothing | create account, then write `users/<uid>` | Auth, Firestore client |
| Blog page, search result page | what they show | one read, one image download; sign-out | Firestore client, URLSession, Auth |
| Launch page, cell, delegates | nothing | styling, configuration, URL hand-over | SDKs |

How the parts interact. The pages share no objects. They share `Auth.currentUser`
(read again wherever it is needed), `UserDefaults["url"]`, the collection
`blogs`, and the main thread, on which all completion handlers run. The Firestore
client learns of a sign-in from a notice on the main thread, later than
`currentUser` changes. A write has two lives: the entry in the client's
queue, which survives the process, and the completion handler, which does not.

What is hard, and what makes each part correct:

* **Publishing** takes two writes and a read, and only both writes together make
  a document that any page of the app can decode (`BlogData` has five
  non-optional fields). Correct means: a blog reported as uploaded is complete;
  the author shown is the owner of the document; nothing but a change of user
  leaves an author without a blog; a publication does not hang.
* **The write path** must execute each write in order, keep it until it is
  answered, and not leave a second copy. Resending is allowed, so a committed
  write can be executed twice. It must use the token of the user whose queue it
  sends, although tokens are fetched while users change, and a stream that ends,
  for whatever reason, must be started again as long as writes wait.
* **Reading a document** must be answered once: by the backend, or from the cache when
  the client learns that it is offline. What is shown is a copy of the backend's
  version under the device's own writes; the two arrive by different streams, and
  no order of them may bring an old value back.
* **The travel shot** must never keep the URL of an object that is not there; if
  the user does not hurry, the URL kept is that of the image on the page.
* **Searching** must end; it must find what starts with the text, and show each blog it
  found once; the table and its array must agree whenever a row is used; a row must
  end up with its own image although its cell is used again.
* **Sessions** decide who is the author. Four records of who is signed in (Auth's
  user, the Firestore client's user, Facebook's token, Google's user) change at
  different times. Correct means: a page behind the login has a user; an account
  that was created gets its profile, written under its own name; a token belongs
  to the user it signed in.

`PROJECT.json` lists the hazards at the lines where they bite.

## 2. Modules

| module | models | builds on |
|---|---|---|
| `FirestoreClient` | the write half of the Firestore client, one per device | |
| `WriteStream` | the same in detail: token, stream, pipeline, threads | implements `FirestoreClient` |
| `LocalView` | the cached copy of a document and the view of it | |
| `ReadOnce` | how `getDocument` is answered | |
| `Publish` | sessions, publications and the documents, on top of the client | `FirestoreClient` |
| `BlogStore` | what publishing promises a reader of the blogs (abstract) | implemented by `Publish` |
| `Travelers` | publishing together with the blog page it ends on | `Publish` |
| `Session` | the login and sign-up pages, Auth, Facebook's and Google's sessions | `FirestoreClient` |
| `TravelShot` | the image of a blog, from the picker to Publish | |
| `PrefixQuery` | the range query of the search page, on strings | |
| `Search`, `MCSearch` | the search page; the instance TLC checks | `PrefixQuery` |
| `ResultCells` | the table's cells, their reuse and their images | |
| `PublishProofs` (with `BlogStore` and `Travelers`), `WriteStreamProofs`, `ReadOnceProofs`, `SessionProofs`, `TravelShotProofs`, `SearchProofs` (with `PrefixQuery`), `ResultCellsProofs`, `LocalViewProofs` | section 5 | the module they name, `TLAPS` |

### FirestoreClient

| variable | code |
|---|---|
| `fsUser[d]` | `SyncEngine::current_user_` |
| `queue[d][u]` | the LevelDB mutation queue of user `u` on device `d` |
| `inflight[d]` | how many writes of `write_pipeline_` the backend has committed and not yet answered |

`WriteMutations` appends to the queue of the client's *current* user.
`CommitWrite` is the backend executing the next write of the pipeline, at most
`kMaxPendingWrites` ahead of the acknowledgements. `HandleSuccessfulWrite` takes
the front off. `OnWriteStreamClose` is a transient error: everything that was
sent and not answered will be sent again, committed or not.
`HandleCredentialChange` swaps the queue and restarts the stream; the credentials
provider does not compare the new user with the old, so a notice of the same user
restarts it too. `RestartClient` is a new process: queues from disk, a new stream.
`Denied` is the set of signers whose writes the backend refuses. The security
rules are not in the repository, so the set is a parameter.

### WriteStream

`FirestoreClient` says that a queue is worked off in order under its owner's name. This
module is how. Auth's serial queue changes the user and answers requests for tokens; the
main thread runs its notices and those answers in the order they were dispatched;
the worker queue owns the stream and the pipeline; gRPC and the backend do the rest.
`stream` is a record, and the methods of `Stream` and `RemoteStore` are functions of it, so
that one action is one task of the worker queue with every call it makes
(`RestartNetwork` is `Stop`, clearing the pipeline, and `StartIfNeeded`). A failed
`HARD_ASSERT` sets `failed` and nothing else.

`asks` are tokens under way, each with the `token_counter` of the credentials provider and
the `close_count_` of the stream at the time. `RunToken` drops an answer whose counter is
old, `ResumeStart` one whose close count is. Either check alone would be enough for
`CommittedAsOwner`; the mutants show what they protect besides.
`sent` and `done` count the writes at the front of the pipeline that gRPC was given, and
those executed whose answer was not read. `ImplementsClient` maps `done` to `inflight` and
checks every step against an action of `FirestoreClient`, for a backend that refuses
either all or none of a user's writes; `Invalid`, single writes that are refused, is what
`rejected_was_refused` needs.

Abstractions: `Healthy` is `Open`; a request that was handed to a stream that has closed
is not executed afterwards; `force_refresh`, the app-check token and the stream token of
the handshake carry no decision.

### LocalView

One document of several fields. `docs` are its versions at the backend, `queue` and `acks`
this device's writes and the versions they became, `cache` the remote document cache:
a version number, values, and `committed`, the flag `HasCommittedMutations`. `Patched` is
a set (all fields) or a merge (some). `ApplyBatchResult` puts an acknowledged write on top
of whatever copy there is and gives the result the backend's number, though not
necessarily the backend's values; `Takes` is the test of `PopulateDocumentChanges` that
makes up for it: an update of the same number replaces a copy so marked. The watch
stream's snapshots never go back (`snap`, the assertion at line 325). `RejectBatch`
follows a permanent error, which closes the stream, and may drop a write that was
executed (section 6). Deleted documents, transforms and preconditions are left out: the
app uses none.

### ReadOnce

Reads of one document, which share a query, a view and a target. `client` is what the
worker queue owns: listeners and those that have raised their first event, the view's
sync state, the watch stream, and `OnlineStateTracker` with its timer and its count of
failures. `main` are events on their way to the main thread, where `RunEvent` is
`ListenOnce::OnEvent`: it removes the registration, which mutes the listener at once, and
calls the completion. A token that fails and a connection that cannot be made are one
action (`StreamFailed`).

### Publish

One element of `Pubs` is one tap on Publish. Its `phase` says which callback the
tap is waiting for:

    unused -tap-> info -ack-> stored -callback-> reading -users/<uid>-> author -ack-> named -callback-> published

`post[p]` is what the first closure holds (name and uid), `author[p]` the uid that
`retrieveFullNameOfAuthorFromUsersCollection` finds when it asks Auth *again*: its
`guard let user_ID` hides the parameter of that name. `blogs[<<name, uid>>]` is the
document `blogs/<name><uid>`: which publication wrote its four fields (`info`), and
whose name is its author. `Applied` is the effect of the two mutations: a set
replaces, a merge patches and creates. `lost` is a publication whose process ended.
Its closure is gone, its queued write is not.

The session is modelled as far as publishing depends on it. `SignInAnswered` sets
`currentUser` and posts a notice; `AuthStateChanged` is the main thread running it.
The sign-in's own callback is decorated so that it is dispatched behind the notice.
Nothing a publication does depends on what runs between the two, so they are one
action. `SignOutByForce` is Auth dropping a user whose token is no longer accepted.
`PublishTraps` is the two ways in which the Publish button ends the app, the
forced cast at line 142 and a name that makes an invalid document path.

Abstractions: the author's *name* is identified with the uid it was read from (a
`users` document is never rewritten by the app); reads answered by the cache give
the same profile; the token the backend checks is that of the client's user; the uid
has a fixed length, so that two different pairs of name and uid never make the same
id; a sign-up, to publishing, is a sign-in to an account that may be `Unprofiled`.

### Travelers

`Publish` with what a publication ends on. `page[p]` is the blog page of `p`: pushed by the
callback of the second write, on top of whatever is shown, it reads the document whose id
it was given. `Shown` is the view of that document: what the backend holds, under the
writes the device has queued for its current user; of the copies a client may have, the
read of an online client waits for a current one. A blog that does not decode leaves the
page empty without a word. `outrun` remembers a sign-out that was forced, or made while a
closure that pushes a page was still due. The end of the process, by a restart or a trap
(`Ends` of `Publish`), ends the pages and their reads (`PagesEnd`); every other step of `Publish`
(`Runs`) is followed by `PagesPushed`. The other pages navigate without changing anything
the model has.

### Session

One device, all of whose users log in and out on it. The pages are reduced to what
the login depends on: `page` is the launch page, the login page, the sign-up page, or
any page behind the login (`inside`). The navigation bar is hidden
(`Main.storyboard` 420) and every handler pushes, the "back" buttons too, so no page
is ever popped and a closure of any page shown before can still push its own.

| variable | code |
|---|---|
| `authUser` | `Auth.auth().currentUser`, and its copy in the keychain |
| `waiting` | requests to Auth whose answer is outstanding |
| `main` | blocks dispatched to the main thread: notices of Auth, closures of a sign-in, closures of a sign-up |
| `dialog` | the web page of Facebook or Google in front of the app |
| `validating` | `validateReauthentication`: Facebook logins being compared, each with the token there was when it was granted |
| `fbToken`, `google` | `AccessToken.current` and GIDSignIn's user, both kept on disk |
| `accounts`, `profiles` | Auth's e-mail accounts, and which of them have `users/<uid>` |
| `heard` | closures of `setData` on the sign-up page that still exist |

An answer of Auth sets `authUser`, dispatches the notice, and behind it the closure
(`UpdateCurrentUser`, `signInFlowAuthDataResultCallbackByDecoratingCallback`). The main
thread takes one block at a time (`AuthStateChanged`, `TransferToSearchVC`, `StoreUser`),
and taps come in between. Here, unlike in `Publish`, that order is the subject:
the write of a profile goes to the queue of the *client's* user, which is the right
one only because the notice was dispatched first. `FacebookGranted` follows
`completeAuthentication`: with a token the login is a reauthorization and the accounts
are compared (`FacebookValidated`), by the token captured then, whatever became of it since.
`FacebookCancelled` is the closure going on without looking at `isCancelled`,
`FacebookTraps` the forced unwrap at line 62. `FacebookTokenRefused` is the one thing that
takes the token away: the requests that refresh it, which the SDK adds to any other
(`FBSDKGraphRequestPiggybackManager.m` 87 to 103), carry no
`DoNotInvalidateTokenOnError`, so when the server answers 190 or 102 the token is set to
`nil` (`FBSDKGraphRequestConnection.m` 814 to 835), and the next login is a first one again,
with Firebase's session left as it is. (With subcode 493 an expired token of the same account
is kept: nothing here depends on that.) A sign-out is the same handler on all four pages
behind the login.

Abstractions: a Facebook or Google account stands for its Firebase account; when Facebook's
server refuses a token is its own affair, so it may happen at any time; a second sign-in
of the same account posts a second notice (the code posts one when the token differs, which
it does after a sign-in); Google's SDK is a binary framework and is read from the delegate
the app gives it. Five history variables (`cut`, `excused`, `vouched`, `restored`, `refused`)
are there for the properties only, and `taps` for the bound. `refused` is forgotten at a first
Facebook login that finds nothing left of an earlier one (`Leftover`).

### BlogStore

Two variables: what the documents hold, and which publications have been reported.
A publication may store its fields again and again until it is reported and never
after; it is reported only when the fields it stored, if they are still there,
have an author. `Publish` implements it (`ImplementsBlogStore`), with queues,
devices, sessions, callbacks and resent writes hidden behind the mapping.

### TravelShot

Choices are numbered as they are made, pages as they are opened. Each choice runs
through `putting`, `linking`, `done` or `failed`, and is then downloaded again. The
requests of one choice follow each other; those of two choices overtake each other
freely. `saved` is `UserDefaults["url"]`. Three history variables (`published`,
`overlapped`, `missed`) are there for the properties only.

### PrefixQuery

Strings are sequences of code points, which is the order Firestore's byte-wise comparison
of UTF-8 gives. `NotLess` and `NotGreater` are the two filters, `Matches` the query of the
search page. `StartsWith` and `GoesOnLate` are what the properties compare it with.

### Search

`docs` is the collection as others edit it (`Edited`: a republished blog is a draft
until its author is merged). A search empties `blogArray` and does not tell the table,
so `rows`, what the table shows, is a variable of its own, updated by `ReloadData`
and, row by row, by `CellForRow`. Every document a query finds is fetched again; the
answer may come from the backend, from the cache as the query left it, or not at all.
`Matches` of `PrefixQuery` decides what a query finds (`Finds`): of the backend, the documents
as they are (`Hits`); of a cache, one copy at most of each document, of any of the `versions`
it has been (`CacheHits`). Which copies a device has is left open.
An index out of range sets `trapped`. Pages are never popped, so a tap that
opens a blog (`Covered`) ends the user's part of the run. Answers still arrive.

### ResultCells

`cellOf` is the table's assignment of cells to rows on screen. A use of a cell sets its
labels and starts a download; nothing cancels it, and nothing clears the image, so a cell
keeps the image of its previous row until an answer comes, be it of that row. A string that
is no URL starts no download (line 111), and bytes that are no image end the app (line 121):
`ImageTraps` leaves the page of a new process. `displaced` and `missed` are history variables.

## 3. Runs

| run | instance | question | distinct states |
|---|---|---|---|
| `travelers` | 1 device, 2 users, 2 names (one with a slash), 2 publications, 3 sign-ins or sign-outs, fairness | who ends up in which document, which page is open for whom and what does it show, does a publication end? | 300 000 |
| `session` | 2 e-mail accounts (one refused by the backend), 2 Facebook, 1 Google, 4 taps, fairness | who is signed in where, whose profile is written, whose token is kept, who gets in without a login? | 701 000 |
| `travel_shot` | 3 choices, 2 pages | which image's URL is kept, and is it that of the page? | 11 000 |
| `search` | 2 blogs, 3 locations and 2 texts on both sides of U+F8FF, 2 searches, 1 edit, fairness | are the right blogs found, do table, array and taps agree, does a search end? | 433 000 |
| `result_cells` | 2 cells, 2 rows, 2 blogs, 3 uses | whose image does a row show? | 2 350 000 |
| `write_stream` | 2 users, 2 writes, 2 notices, 1 failure, fairness | do the assertions hold, is each write executed as its owner and answered in order, is it `FirestoreClient`? | 266 000 |
| `read_once` | 3 reads, 2 losses, 2 waiting events, fairness | is every read answered, once? | 172 000 |
| `local_view` | 2 fields, 4 writes, 5 versions | is what is shown ever older than what was shown before, and right in the end? | 546 000 |
| `publish_success` | 1 device, 2 users, 1 publication | is a success message true? *(violated)* | |
| `chosen_is_displayed` | as `travel_shot` | does the page show the last image chosen on it? *(violated)* | |
| `search_after_login` | as `session` | has whoever reaches the search page logged in? *(violated)* | |
| `rejected_was_refused` | 1 user, 4 writes, one of them invalid | is a write reported as rejected one that was refused? *(violated)* | |

What the passing runs show:

* `ReportedBlogIsComplete`: once the app has gone to the blog page, restarts, resent
  writes and other devices do not take the author away again from that publication.
  This rests on the queue's order: a second write is only queued after the first was
  acknowledged, and so is never followed by a resent first write of the same
  publication.
* `OrphanOnlyAfterSwitch`: an author without a blog is left only by a publication
  that another user tapped. `AuthorOwnsBlog`: even then nobody is named author of a
  document that is not theirs, because the wrong uid goes into the id as well.
* `ImplementsBlogStore`: nothing is stored for a publication after its report.
* `PublicationSettles`: the only way to wait for ever is to have one's write
  in the queue of a user who signed out *and never comes back*.
* `InsideIsSignedIn` (`travelers`, `session`): a page behind the login without a user needs a
  sign-out by force, or one that a closure outran: that of another sign-in, or a
  publication's, which pushes the blog page on top of the launch page.
* `EmptyPageIsExplained`: the blog page of a publication comes up empty only when its author
  was written into another user's document, or when the name was published again.
* `ShownIsSaved`, `SavedNeverGoesBack`, `OwnImageIsPublished`: as long as the user waits for one
  image before choosing the next, the URL kept is that of the image shown, never goes back
  to an older one, and is not that of another page once this page has one of its own.
* `TapOpensWhatIsShown`, `TrapsOnlyOnStaleRows`: the table and the array differ only
  while the array is empty, so a stale row can end the app but cannot open the wrong
  blog; after the first row of the last search has come, every row is safe.
* `FoundStartsWithText`, `ResultsAreComplete`: two comparisons of strings do what a test of the
  prefix would, except for places that go on with U+F8FF or later; when the last search
  has been answered by the backend, the blogs it should find and unchanged since are in the
  table. `ForeignRowsWereOvertaken`: rows of another search come only from one that was
  still under way. `SearchEnds`.
* `WrongImageIsExplained`, `RightImageLostOnlyToReuse`: a row without its own image waits for it,
  failed to get it, or lost it to the late answer of a row that had its cell before.
* `ProfileFollowsAccount`: an account without a profile is one whose creation was answered
  with an error, whose write was refused, or whose process ended in the one gap
  between the answer and `setData`. `ProfileIsOwn`: the write waits in the queue of its own
  account. `SignUpIsAnswered`: the closure is called, unless the account is
  signed out for good.
* `FacebookSessionHasToken`: while a Facebook user is signed in, Facebook's token is theirs, unless
  its server has refused a token since. Logins of other accounts while there is one are
  refused as mismatches, but a comparison may be answered after the token it was made with has
  gone, and puts that account back (line 430), under whoever logged in meanwhile: hence the exception.
  `OnlyFacebookSkipsLogin`: whoever is taken to the search page has logged in since the last sign-out,
  but for the account of a Facebook token that was kept. Google's user is kept too, but the
  delegate stops at an error, where Facebook's closure goes on. `FoundIsRestoredOrUnfinished`: whom the login page finds signed in was restored
  with the process, or is in the middle of a sign-in or sign-up.
* `AssertionsHold` (`write_stream`, `read_once`): no order of timers, tokens, failures and notices
  trips an assertion of the SDK. For the write stream this includes that a stream stopped
  gracefully is no longer needed; else its queue would wait with nobody to send it.
* `CommittedAsOwner`, `PipelineIsQueueFront`, `AcknowledgedIsCommitted`, `WritesAreAnswered`: the
  stream sends the front of the current user's queue under that user's token, answers match
  by position, and whatever ends the stream, the writes get another one.
* `WaitingIsServed`: nobody waits for what will not come. A write without an answer is in its owner's
  queue, and if that is the current user's, its stream waits for its backoff, for a token that is
  somewhere between the threads, for its handshake, for a write, or for the backend. This is
  what `WritesAreAnswered` needs of the states; fairness does the rest.
* `ImplementsClient`: so `Publish`, `Session` and `Travelers` may use `FirestoreClient`.
* `AnsweredOnce`, `ReadsAreAnswered`: a promise that is used once is not asked a second time,
  with a second event or an error already dispatched; and each read ends, online or not.
  `SyncedIsOnline`, `TargetIsListenedTo`: an offline client does not pass its copy off as
  current, and the backend's targets are those of queries somebody listens to.
* `SettledIsCurrent`, `NeverGoesBack`: an acknowledgement that overtakes the snapshot it belongs
  to, or is overtaken by it, never makes a field go back on the screen; with nothing queued
  and the snapshots caught up, the screen shows the document.

The type invariants of the modules that list none in a run, `QueuedOnce`, `OneRowPerHit`, `SavedIsUploaded` and
`CopyIsVersion` are not listed in a run: they are theorems (section 5).

What the violated runs show is listed in section 6.

### Bounds, and why they are enough

* *Two publications* are what it takes for one to replace, resend over or precede
  another; the properties quantify over at most two at a time. The proofs cover any
  number, of publications, users and devices, and with them the instances that two devices
  and longer histories of sign-ins would need.
* *Three switches* (`travelers`): user A in, out, B in, which is what it takes for a callback to
  find another user, or nobody; a restart gives A's queue back without one.
* *Four taps* (`session`): sign up, sign out, log in, sign out, or a Facebook login before
  and after a sign-out with one tap to spare. *Two Facebook accounts* for a mismatch, *two
  e-mail accounts* so that a closure may find somebody else signed in. Opening a page is not
  counted.
* *MaxPendingWrites* is 2 (10 in the code) with two publications or two writes, so the pipeline
  can be both full and not full.
* *Three choices, two pages*: two choices overtaking each other, and a third after them;
  a page left with an upload under way.
* *Two searches, two blogs, one edit*: one overtaken search, two rows, one document that
  changes between query and fetch. Four code points, the third for U+F8FF.
* *Two cells, three uses*: a cell used again while both of its earlier downloads are out.
* *Two writes, two notices, one failure* (`write_stream`): a user who changes and changes back while
  a token is on its way, the shortest history in which an old token would be taken for
  a new one; a write queued behind one that is being sent. `rejected_was_refused` needs four:
  two answered, the third refused, the fourth being sent.
* *Three reads, two losses* (`read_once`): a listener added while another's removal is queued; the
  connection lost, found again, and lost again. *Two events* wait for the main thread.
* *Four writes, five versions* (`local_view`): two own writes, one committed and one acknowledged,
  with foreign writes before, between and after them.

`CHECK_DEADLOCK FALSE` is stated where the bounded counts run out or a page that is covered or
trapped does nothing more. In `Publish`, `Travelers`, `ResultCells` and `Session` something is
always possible.

## 4. Fairness

`Publish!Fairness` (used by `Travelers`) assumes what the runtime does by itself: a block
dispatched to the main thread is run (`AuthStateChanged`, `Callback`), a connected client's
writes are executed (`Commit`), refused writes are answered (`WriteRejected`). The acknowledgement
has strong fairness: the client reconnects with backoff for ever, so we assume that the
connection is not lost *every* time between a commit and its acknowledgement.
`ProfileRead` and `ProfileNotRead` share one weak fairness, as the read is answered one
way or the other. Nobody is obliged to tap, sign in, restart or lose a connection.

`Session!FairSpec` assumes the same of the same parts: blocks on the main thread are run,
writes executed and refused ones answered, an acknowledgement not lost every time. Requests to
Auth need not be answered and dialogs need not be closed.

`Search!FairSpec` has weak fairness of the answers together: each request of the SDK is
answered, from the cache or with an error. `ReadOnce` is what makes that a fact.

`WriteStream!FairSpec` and `ReadOnce!FairSpec` assume that the threads run what they are given, that
timers expire, that a request for a token ends, and that a connection either brings the
next message or is found lost (gRPC's keepalive). A connection that works is lost at most
`MaxFailures` or `MaxLosses` times; in `ReadOnce` attempts to make one may fail for ever.
Nobody need write, read or sign in.

## 5. Proofs

Eight modules prove, for all values of the constants that satisfy the assumptions of the
modules they are about (`NoUser` is no user, bounds are numbers, texts are strings):

| module | theorems |
|---|---|
| `PublishProofs` | `TypeCorrect`, `WritesQueuedOnce`, `ReportedBlogsComplete`, `OrphansExplained`, `AuthorsOwnBlogs`; `PublishImplementsBlogStore`; `TravelersImplementsPublish`, `OpenPagesExplained`, `EmptyPagesExplained` |
| `WriteStreamProofs` | `TypesAreOK`, `NoAssertionFails`, `ExecutedAsOwner`, `OpenAsCurrentUser`, `PipelineIsFront`, `AcknowledgedWasCommitted`, `WaitingAlwaysServed`, `StreamImplementsClient` |
| `ReadOnceProofs` | `ReadTypesCorrect`, `ReadAssertionsHold`, `CompletionCalledOnce`, `SyncedViewIsOnline`, `TargetHasListeners` |
| `SessionProofs` | `TypeCorrect`, `InsideAlwaysSignedIn`, `ProfileAlwaysFollows`, `ProfileAlwaysOwn`, `FacebookAlwaysHasToken`, `OnlyFacebookEverSkips`, `FoundAlwaysExplained` |
| `TravelShotProofs` | `TypeCorrect`, `SavedAlwaysUploaded`, `ShownAlwaysSaved`, `NeverGoesBack`, `OwnImageAlwaysPublished` |
| `SearchProofs` | `FoundIsPrefix`, `MissedGoesOnLate`, `TypingNarrows`; `TypeCorrect`, `TapAlwaysOpensWhatIsShown`, `TrapsOnlyBeforeResults`, `AlwaysOneRowPerHit`, `ForeignRowsAlwaysOvertaken`, `FoundAlwaysStarts`, `ResultsAlwaysComplete` |
| `ResultCellsProofs` | `TypeCorrect`, `WrongImageAlwaysExplained`, `LostOnlyToReuse` |
| `LocalViewProofs` | `TypeCorrect`, `CopiesAreVersions`, `SettledAlwaysCurrent`, `ViewNeverGoesBack` |

Together they prove every invariant and every safety property the passing runs check.

Each argument is an inductive invariant `IInv`, checked with TLC before it was proved, that
says what the code relies on without saying it.

* `PublishProofs`. `PipelineInQueue`: the pipeline is a prefix of the current user's queue.
  `AuthorKnown`: the uid an author is written for is that of a user. `InfoStored`: from the
  commit of a publication's first write on, its document has four fields, its own or those
  of one that came after it. `NamedInFlight`, `NamedOnceAcknowledged`: a second write that was
  committed has left its author, answered or not, unless the document was replaced.
  For `BlogStore` it adds `FieldsHome`: the four fields of a document were written by a
  publication whose id is that document's. Then `Commit` maps to storing, the callback
  after the second acknowledgement to reporting, and everything else is hidden. The actions
  of `Travelers` add to those of `Publish` and change none of its variables
  (`TravelersImplementsPublish`), so all this is about `Travelers` too. Its own invariant is
  `TravelIInv`: a device with nobody signed in, and no sign-out that was forced or outrun, is
  deserted, with no page open, no other notice and no closure to come (`SignedOutQuietly`), and pages
  are of publications that were published (`PagesOfPublished`).
* `WriteStreamProofs`. `Sound` is what a task of the worker queue may rely on and has to leave
  behind: the pipeline is the front of the queue, the stream idles only with nothing to send, and
  until the handshake is answered there is something to send. Each method of the stream is shown
  once to go from a sound stream to a sound one (`FillSound`, `RestartFacts`, `CloseWithErrorFacts`...),
  and `NoAssertionFails` follows. `RequestsAreOld` and `OneRequest` follow a request for a token
  through its four places (asked for, at the network, on the main thread, on the worker queue): one
  at most is for the stream as it is, and only while that is starting. `UsersAreKnown` and `TokensAreCurrent`
  say who the client will work for once it has run the tasks and notices before a given one: a token not
  out of date by the counter belongs to that user. `QueuesAreOrdered`: batch ids ascend in each queue,
  so that the next batch is the one after the pipeline's last. `CommitsAreKnown` and
  `RefusedAsDenied` are about what the backend did. `Fed` says that a task leaves the pipeline with all there
  is room for (`Filled`) and a stream for it (`Needed`), and `Sending` that with the handshake answered
  either a write is out or all were; with `Awaited` (a stream that starts has its request, followed through the
  same four places, asked again when it came too late) and `Kept` (what leaves a queue was answered)
  they make `WaitingAlwaysServed`, with no fairness. The refinement needs `Invalid = {}`, as the
  backend of `FirestoreClient` looks at the signer alone.
* `ReadOnceProofs`. `Connected`: between two tasks the listeners, the view and the target, and the tracker's
  state, its timer, its count of failures and the watch stream, agree. `AddedOnce`: no listener is added twice. `Delivered`: an
  error is the last event of its listener, which is gone then, and a read that was answered hears no
  more, as its listener is muted, or gone with nothing dispatched.
* `SessionProofs`. `NoticeGoesFirst` is the heart: a closure on the main thread stands right behind
  the notice of its own user, so that when it is the first, the client works for that user.
  That makes `ProfileIsOwn` inductive. `CommittedIsWritten` (what awaits its acknowledgement has
  been written) carries `ProfileFollowsAccount` over lost connections; `PushIsExcused` and
  `OutsideIsUnfinished` are about closures that will push a page; `RequestsAreInOrder` and
  `ClosuresAreInOrder` say that a sign-in comes from a login or a Facebook token, and that what a Facebook
  token began belongs to the token there is, or one was refused; a first login may forget
  the refusal because nothing is left of the earlier token then.
* `TravelShotProofs`. Without overlap only the last choice is under way (`OneAtATime`), the URL kept
  is that of the last image uploaded (`LastIsSaved`), and once downloaded it is shown
  (`DownloadedIsShown`); choices and pages are in the order they were made (`MadeInOrder`).
* `SearchProofs`. What is fetched was found by its search and, if the backend answered the query, is
  unchanged unless edited since (`FetchesAreHits`); a blog is queried, fetched or shown, one at a time (`EachStageOnce`) and none
  is lost between (`NoneIsLost`); rows that are not those of the array are of earlier
  searches (`StaleRowsAreOld`). At the query enter three theorems about strings of any length. The first
  difference of two strings settles every comparison; a found string cannot differ from the text at
  one of its positions: if it were smaller there, it would fail the first filter, if larger the second.
* `ResultCellsProofs`. No download belongs to a later use of its cell than the present one, and one
  of the present use brings the image of its labels (`DownloadsAreInOrder`).
* `LocalViewProofs`. A copy is never behind the last snapshot, and is unmarked once it has come
  (`CopyIsRecent`); acknowledgements under way are in the order of their versions, and later than
  a copy put together on the device (`AcksCommitted`); each field of the copy is that of a
  version no later than its number (`CopyIsFromVersions`).

Only model-checked: the liveness properties (`PublicationSettles`, `SearchEnds`, `SignUpIsAnswered`,
`WritesAreAnswered`, `ReadsAreAnswered`), which are out of the prover's reach, and the four
properties that are violated.

## 6. Where the code and its text differ

* `publish_success`. Ann taps Publish, signs out, and Bob signs in before the first write
  is acknowledged (it is committed, and answered before Auth's notice reaches the client).
  The callback asks for the current user and gets Bob. "Successfully Uploaded all data to
  Firestore" (line 127) is printed, Ann's blog has no author, so that no page can decode it,
  and `blogs/<name><bob>` holds an author and nothing else.
* `chosen_is_displayed`. "Choose an image from the Photo Library and display it on the Create
  New Blog page" (line 37): of two choices, the download that is answered last stays.
* `search_after_login`. "Navigate to Search View Controller after logging in with a Social Account"
  (login page, line 98): after a sign-out, opening Facebook's dialog and cancelling it signs
  the previous Facebook user in again, with the token that was kept.
* `rejected_was_refused`. "If this was a permanent error, the request itself was the problem"
  (`remote_store.cc` 513): when the backend refuses the third of four writes while the fourth is
  being sent, the failure of that operation ends the stream before the answers to the first
  two are read. They are dropped with the call, and the write at the front of the pipeline,
  which was made, is reported as rejected.

Smaller ones, not given a run of their own. "Upload the information from the Create New Blog
page" (line 136): without an upload of its own, a page publishes the URL kept from another page or
an earlier run of the app (`OwnImageIsPublished` says when it does not). "Log out of Firebase, Google,
and Facebook" (on each of the four pages): only Firebase's session ends, so on one device
another Facebook account is refused as a mismatch until the first one's token is refused by the server;
the exceptions of `OnlyFacebookSkipsLogin` say what else follows. "User is logged in from previous session" (login page, line 24): also
when the account was created a moment ago and its profile is not written yet
(`FoundIsRestoredOrUnfinished`). "If the timeout is reached, we transition to Offline rather than waiting
indefinitely" (`online_state_tracker.cc` 50): when the last listener goes while the stream is between
two attempts, the state is set back to Unknown with no timer running, and the next read
waits for the attempt instead; it is answered all the same (`ReadsAreAnswered`).

## 7. Mutants

Definitions marked "Faulty" in the modules are plausible bugs of the code (an update that counts
only when it is newer, a merge turned into a replacement, a page pushed too early, a table not
told). `PROJECT.json` names, for every property of a passing run, the one that violates it.
No action uses them.

## 8. Not modelled, and what could come next

The repository is ten Swift files of about 900 lines in all and two dozen vendored pods, which make up
almost all of its 687 000 lines: BoringSSL, gRPC, abseil, leveldb, the C++ of Firestore,
tables of certificates and Unicode. The app's own files are modelled nearly line by line, and of the
pods the parts whose order of events the app depends on. The rest is third-party transport,
cryptography, storage and utilities: no property of this program is about it, and a module of it
would model another project. So the share of all lines that the models stand for stays small.

Not modelled, part by part:

* The launch page and the scene delegate (styling, templates), the search result page (it shows five
  strings it was given), the blog page's one image (no second download to race with), and
  navigation between pages that changes nothing else. The unit and UI tests are Xcode's templates.
* Firestore: views of queries beyond their first answer, limbo documents, garbage collection and
  bundles (the app has no standing listener), transforms and preconditions (the app uses none),
  several tabs. In `WriteStream`: see its abstractions above.
* Firebase Auth's token refresh and its revoked tokens, beyond the forced sign-out they end in; Google's SDK, a binary framework, beyond its delegate.
* Cloud Storage: each of its two requests is an answer or an error in `TravelShot`.

What could come next: `LocalView` as the source of what `Search` fetches from the cache; for `ReadOnce` what
`WaitingIsServed` is for `WriteStream`, the part of `ReadsAreAnswered` that is a matter of states.

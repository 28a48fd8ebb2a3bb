------------------------------- MODULE Session -------------------------------
(***************************************************************************)
(* Who is signed in, and which page is shown, on one device.  Four records *)
(* of a session are kept apart: Firebase's current user, Facebook's access *)
(* token, Google's user (all three on disk), and the user the Firestore    *)
(* client has heard of.  Requests to Auth are answered on Auth's queue;    *)
(* what follows from an answer is dispatched to the main thread, where     *)
(* taps come in between.  A sign-up takes a second request, the write of   *)
(* users/<uid>, before the search page is shown.                           *)
(***************************************************************************)
EXTENDS FirestoreClient

CONSTANTS
  Device,      \* the one device
  Facebook,    \* Facebook accounts, each with its Firebase account
  Google,      \* Google accounts, likewise
  MaxTaps      \* bound on the taps that ask for something

(* All other users sign up with e-mail and password. *)
Emails == Users \ (Facebook \cup Google)

ASSUME SessionAssumption ==
  /\ Devices = {Device}
  /\ Facebook \subseteq Users /\ Google \subseteq Users \ Facebook
  /\ MaxTaps \in Nat

VARIABLES
  page,        \* the page shown; "inside" is any page behind the login
  authUser,    \* Auth.auth().currentUser
  waiting,     \* requests to Auth not answered
  main,        \* blocks dispatched to the main thread, oldest first
  dialog,      \* the login dialog in front of the app
  validating,  \* Facebook logins being compared, with the token of then
  fbToken,     \* AccessToken.current, by its account
  google,      \* GIDSignIn's user
  accounts,    \* e-mail accounts that exist
  profiles,    \* accounts with a document users/<uid>
  heard,       \* sign-ups whose closure waits for the write of the profile
  taps,        \* number of taps (for the bound)
  cut,         \* history: sign-ups lost between the account and its profile
  excused,     \* history: how the last user left: by force, or overtaking a closure
  vouched,     \* history: who logged in since the last sign-out, or was
               \* about to be signed in then
  restored,    \* history: the user the process started with
  refused      \* history: did Facebook refuse a token, with something of it left?

requestVars == <<waiting, main, dialog, validating>>
providerVars == <<fbToken, google>>
profileVars == <<accounts, profiles, heard>>
historyVars == <<cut, excused, vouched, restored, refused>>
vars == <<clientVars, page, authUser, requestVars, providerVars, profileVars, taps,
          historyVars>>

Blocks == [run : {"notice", "signIn", "create"}, user : Signers]
Requests == [ask : {"signIn", "create"}, user : Users]
Reauthorizations == [login : Facebook, token : Facebook]
Due == {i \in DOMAIN main : main[i].run # "notice"}
Pending ==
  {r.user : r \in waiting} \cup {main[i].user : i \in Due} \cup {v.login : v \in validating}

Init ==
  /\ ClientInit
  /\ page = "launch"
  /\ authUser = NoUser
  /\ waiting = {} /\ main = << >> /\ dialog = "none" /\ validating = {}
  /\ fbToken = NoUser /\ google = NoUser
  /\ accounts = {} /\ profiles = {} /\ heard = {}
  /\ taps = 0
  /\ cut = {} /\ excused = FALSE /\ vouched = {} /\ restored = NoUser
  /\ refused = FALSE

Tap ==
  /\ taps < MaxTaps
  /\ taps' = taps + 1
-----------------------------------------------------------------------------
(* Pages.  None is ever popped, so a closure of any of them can push. *)

OpenLogin ==
  /\ page = "launch"
  /\ page' = IF authUser = NoUser THEN "login" ELSE "inside"
  /\ UNCHANGED <<clientVars, authUser, requestVars, providerVars, profileVars, taps,
                 historyVars>>

OpenSignUp ==
  /\ page \in {"launch", "login"}
  /\ page' = "signup"
  /\ UNCHANGED <<clientVars, authUser, requestVars, providerVars, profileVars, taps,
                 historyVars>>

BackButton ==
  /\ page \in {"login", "signup"}
  /\ page' = "launch"
  /\ UNCHANGED <<clientVars, authUser, requestVars, providerVars, profileVars, taps,
                 historyVars>>
-----------------------------------------------------------------------------
(* Logging in. *)

Ask(ask, u) == waiting' = waiting \cup {[ask |-> ask, user |-> u]}

LoginButtonTapped(u) ==
  /\ page = "login" /\ dialog = "none"
  /\ u \in Emails
  /\ Tap
  /\ Ask("signIn", u)
  /\ vouched' = vouched \cup {u}
  /\ UNCHANGED <<clientVars, page, authUser, main, dialog, validating, providerVars,
                 profileVars, cut, excused, restored, refused>>

CreateAccountButtonTapped(u) ==
  /\ page = "signup"
  /\ u \in Emails
  /\ Tap
  /\ Ask("create", u)
  /\ UNCHANGED <<clientVars, page, authUser, main, dialog, validating, providerVars,
                 profileVars, historyVars>>

(* The dialog of Facebook or Google covers the app. *)
DialogOpened(which) ==
  /\ page = "login" /\ dialog = "none"
  /\ Tap
  /\ dialog' = which
  /\ UNCHANGED <<clientVars, page, authUser, waiting, main, validating, providerVars,
                 profileVars, historyVars>>

(* Faulty: an error is passed over, and Google's user of before is taken.  *)
DialogFailedGoesOn ==
  /\ dialog # "none"
  /\ dialog' = "none"
  /\ IF google # NoUser THEN Ask("signIn", google) ELSE UNCHANGED waiting
  /\ UNCHANGED <<clientVars, page, authUser, main, validating, providerVars,
                 profileVars, taps, historyVars>>

(* The dialog ends with an error: it is printed. *)
DialogFailed ==
  /\ dialog # "none"
  /\ dialog' = "none"
  /\ UNCHANGED <<clientVars, page, authUser, waiting, main, validating, providerVars,
                 profileVars, taps, historyVars>>

(* Is there anything left that a Facebook token began? *)
Leftover == (Pending \cup {authUser}) \cap Facebook # {}

(* completeAuthentication: without a token the login is a first one; with  *)
(* one it is a reauthorization, and the accounts are compared.             *)
FacebookGranted(u) ==
  /\ dialog = "facebook"
  /\ dialog' = "none"
  /\ vouched' = vouched \cup {u}
  /\ IF fbToken = NoUser
       THEN /\ fbToken' = u
            /\ Ask("signIn", u)
            /\ refused' = (refused /\ Leftover)
            /\ UNCHANGED validating
       ELSE /\ validating' = validating \cup {[login |-> u, token |-> fbToken]}
            /\ UNCHANGED <<fbToken, waiting, refused>>
  /\ UNCHANGED <<clientVars, page, authUser, main, google, profileVars, taps, cut,
                 excused, restored>>

(* Faulty: the account is not compared. *)
FacebookValidatedAny(v) ==
  /\ v \in validating
  /\ validating' = validating \ {v}
  /\ fbToken' = v.login
  /\ Ask("signIn", v.login)
  /\ UNCHANGED <<clientVars, page, authUser, main, dialog, google, profileVars, taps,
                 historyVars>>

(* validateReauthentication: another account than the token's, or no       *)
(* answer, is an error.  The token is the one there was when the login was *)
(* granted, whatever became of it since.                                   *)
FacebookValidated(v) ==
  /\ v \in validating
  /\ validating' = validating \ {v}
  /\ \/ v.login = v.token /\ fbToken' = v.login /\ Ask("signIn", v.login)
     \/ UNCHANGED <<fbToken, waiting>>
  /\ UNCHANGED <<clientVars, page, authUser, main, dialog, google, profileVars, taps,
                 historyVars>>

(* The refresh requests that the SDK adds to any other (addRefreshPiggy-   *)
(* back) do not ask for the token to be left alone: when the server        *)
(* answers that it is no longer valid, it is dropped.  (An expired one is  *)
(* kept for its account: nothing here changes.)                            *)
FacebookTokenRefused ==
  /\ fbToken # NoUser
  /\ fbToken' = NoUser
  /\ refused' = TRUE
  /\ UNCHANGED <<clientVars, page, authUser, requestVars, google, profileVars, taps, cut,
                 excused, vouched, restored>>

(* A cancelled login is no error: the closure takes the token there is.    *)
FacebookCancelled ==
  /\ dialog = "facebook"
  /\ fbToken # NoUser
  /\ dialog' = "none"
  /\ Ask("signIn", fbToken)
  /\ UNCHANGED <<clientVars, page, authUser, main, validating, providerVars, profileVars,
                 taps, historyVars>>

GoogleGranted(u) ==
  /\ dialog = "google"
  /\ dialog' = "none"
  /\ google' = u
  /\ Ask("signIn", u)
  /\ vouched' = vouched \cup {u}
  /\ UNCHANGED <<clientVars, page, authUser, main, validating, fbToken, profileVars, taps,
                 cut, excused, restored, refused>>
-----------------------------------------------------------------------------
(* Auth, on its own queue. *)

UpdateCurrentUser(u, blocks) ==
  /\ authUser' = u
  /\ main' = main \o <<[run |-> "notice", user |-> u]>> \o blocks

SignInAnswered(u) ==
  /\ [ask |-> "signIn", user |-> u] \in waiting
  /\ u \in Emails => u \in accounts
  /\ waiting' = waiting \ {[ask |-> "signIn", user |-> u]}
  /\ UpdateCurrentUser(u, <<[run |-> "signIn", user |-> u]>>)
  /\ UNCHANGED <<clientVars, page, dialog, validating, providerVars, profileVars, taps,
                 historyVars>>

CreateAnswered(u) ==
  /\ [ask |-> "create", user |-> u] \in waiting
  /\ u \notin accounts
  /\ waiting' = waiting \ {[ask |-> "create", user |-> u]}
  /\ accounts' = accounts \cup {u}
  /\ UpdateCurrentUser(u, <<[run |-> "create", user |-> u]>>)
  /\ UNCHANGED <<clientVars, page, dialog, validating, providerVars, profiles, heard, taps,
                 historyVars>>

(* An error is printed.  A sign-up may have made the account all the same. *)
RequestFailed(r) ==
  /\ r \in waiting
  /\ waiting' = waiting \ {r}
  /\ \/ UNCHANGED <<accounts, cut>>
     \/ /\ r.ask = "create" /\ r.user \notin accounts
        /\ accounts' = accounts \cup {r.user}
        /\ cut' = cut \cup {r.user}
  /\ UNCHANGED <<clientVars, page, authUser, main, dialog, validating, providerVars,
                 profiles, heard, taps, excused, vouched, restored, refused>>

(* Faulty: the launch page is not shown. *)
SignOutStays ==
  /\ page = "inside"
  /\ Tap
  /\ authUser # NoUser
  /\ UpdateCurrentUser(NoUser, << >>)
  /\ excused' = (Due # {} \/ heard # {})
  /\ UNCHANGED <<clientVars, page, waiting, dialog, validating, providerVars, profileVars,
                 cut, vouched, restored, refused>>

(* userProfileButtonTapped of each page: Firebase's session only. *)
SignOut ==
  /\ page = "inside"
  /\ Tap
  /\ page' = "launch"
  /\ IF authUser = NoUser THEN UNCHANGED <<authUser, main>>
                          ELSE UpdateCurrentUser(NoUser, << >>)
  /\ excused' = (Due # {} \/ heard # {} \/ (authUser = NoUser /\ excused))
  /\ vouched' = vouched \cap Pending
  /\ UNCHANGED <<clientVars, waiting, dialog, validating, providerVars, profileVars, cut,
                 restored, refused>>

SignOutByForce ==
  /\ authUser # NoUser
  /\ Tap
  /\ UpdateCurrentUser(NoUser, << >>)
  /\ excused' = TRUE
  /\ UNCHANGED <<clientVars, page, waiting, dialog, validating, providerVars, profileVars,
                 cut, vouched, restored, refused>>
-----------------------------------------------------------------------------
(* The main thread. *)

NextBlock(run) ==
  /\ main # << >>
  /\ Head(main).run = run
  /\ main' = Tail(main)

AuthStateChanged ==
  /\ NextBlock("notice")
  /\ HandleCredentialChange(Device, Head(main).user)
  /\ UNCHANGED <<page, authUser, waiting, dialog, validating, providerVars, profileVars,
                 taps, historyVars>>

(* Faulty: the search page is not pushed. *)
TransferToSearchVCForgotten ==
  /\ NextBlock("signIn")
  /\ UNCHANGED <<clientVars, page, authUser, waiting, dialog, validating, providerVars,
                 profileVars, taps, historyVars>>

TransferToSearchVC ==
  /\ NextBlock("signIn")
  /\ page' = "inside"
  /\ UNCHANGED <<clientVars, authUser, waiting, dialog, validating, providerVars,
                 profileVars, taps, historyVars>>

(* Faulty: the profile is written for whoever is signed in by now. *)
StoreUserOfCurrent ==
  /\ NextBlock("create")
  /\ authUser # NoUser
  /\ WriteMutations(Device, authUser)
  /\ heard' = heard \cup {authUser}
  /\ UNCHANGED <<page, authUser, waiting, dialog, validating, providerVars, accounts,
                 profiles, taps, historyVars>>

(* The closure of a sign-up writes the profile of the account it made. *)
StoreUser ==
  /\ NextBlock("create")
  /\ WriteMutations(Device, Head(main).user)
  /\ heard' = heard \cup {Head(main).user}
  /\ UNCHANGED <<page, authUser, waiting, dialog, validating, providerVars, accounts,
                 profiles, taps, historyVars>>
-----------------------------------------------------------------------------
(* The backend and its answers.  A write in a queue is the account whose   *)
(* profile it holds.                                                       *)

Commit ==
  /\ CommitWrite(Device)
  /\ profiles' = profiles \cup {NextWrite(Device)}
  /\ UNCHANGED <<page, authUser, requestVars, providerVars, accounts, heard, taps,
                 historyVars>>

WriteAcknowledged ==
  LET u == Head(Current(Device)) IN
  /\ HandleSuccessfulWrite(Device)
  /\ heard' = heard \ {u}
  /\ page' = IF u \in heard THEN "inside" ELSE page
  /\ UNCHANGED <<authUser, requestVars, providerVars, accounts, profiles, taps,
                 historyVars>>

(* Faulty: nobody is told of a refused write. *)
WriteRejectedSilently ==
  /\ HandleRejectedWrite(Device)
  /\ cut' = cut \cup {Head(Current(Device))}
  /\ UNCHANGED <<page, authUser, requestVars, providerVars, profileVars, taps, excused,
                 vouched, restored, refused>>

WriteRejected ==
  LET u == Head(Current(Device)) IN
  /\ HandleRejectedWrite(Device)
  /\ heard' = heard \ {u}
  /\ cut' = cut \cup {u}
  /\ UNCHANGED <<page, authUser, requestVars, providerVars, accounts, profiles, taps,
                 excused, vouched, restored, refused>>

StreamClosed ==
  /\ OnWriteStreamClose(Device)
  /\ UNCHANGED <<page, authUser, requestVars, providerVars, profileVars, taps, historyVars>>

(* A new process: what is on disk is left, and no closure. *)
Restart ==
  /\ RestartClient(Device, authUser)
  /\ page' = "launch"
  /\ waiting' = {} /\ main' = << >> /\ dialog' = "none" /\ validating' = {}
  /\ heard' = {}
  /\ cut' = cut \cup {main[i].user : i \in {j \in Due : main[j].run = "create"}}
  /\ restored' = authUser
  /\ UNCHANGED <<authUser, providerVars, accounts, profiles, taps, excused, vouched,
                 refused>>

(* A cancelled login without a token, a first one or one after the token   *)
(* was refused: the unwrap of AccessToken.current.                         *)
FacebookTraps == dialog = "facebook" /\ fbToken = NoUser /\ Restart
-----------------------------------------------------------------------------
Taps ==
  \/ OpenLogin \/ OpenSignUp \/ BackButton \/ SignOut
  \/ \E u \in Users : LoginButtonTapped(u) \/ CreateAccountButtonTapped(u)
  \/ \E which \in {"facebook", "google"} : DialogOpened(which)

Dialogs ==
  \/ DialogFailed \/ FacebookCancelled \/ FacebookTraps \/ FacebookTokenRefused
  \/ \E u \in Facebook : FacebookGranted(u)
  \/ \E v \in validating : FacebookValidated(v)
  \/ \E u \in Google : GoogleGranted(u)

Auth ==
  \/ \E u \in Users : SignInAnswered(u) \/ CreateAnswered(u)
  \/ \E r \in waiting : RequestFailed(r)
  \/ SignOutByForce

MainThread == AuthStateChanged \/ TransferToSearchVC \/ StoreUser

Answer == WriteAcknowledged \/ WriteRejected

Next ==
  \/ Taps \/ Dialogs \/ Auth \/ MainThread
  \/ Commit \/ Answer \/ StreamClosed
  \/ Restart

Spec == Init /\ [][Next]_vars

(* As in Publish: blocks run, writes are executed, and the connection is   *)
(* not lost each time before an answer.                                    *)
FairSpec ==
  Spec /\ WF_vars(MainThread) /\ WF_vars(Commit) /\ SF_vars(WriteAcknowledged)
       /\ WF_vars(WriteRejected)
-----------------------------------------------------------------------------
TypeOK ==
  /\ ClientTypeOK(Users)
  /\ page \in {"launch", "login", "signup", "inside"}
  /\ authUser \in Signers
  /\ waiting \subseteq Requests
  /\ main \in Seq(Blocks)
  /\ dialog \in {"none", "facebook", "google"}
  /\ validating \subseteq Reauthorizations
  /\ fbToken \in Facebook \cup {NoUser} /\ google \in Google \cup {NoUser}
  /\ profiles \subseteq accounts /\ accounts \subseteq Emails
  /\ heard \subseteq accounts /\ cut \subseteq accounts
  /\ taps \in 0 .. MaxTaps
  /\ excused \in BOOLEAN
  /\ vouched \subseteq Users
  /\ restored \in Signers
  /\ refused \in BOOLEAN

(* A page behind the login is shown with nobody signed in only after the   *)
(* user was signed out by force, or signed out while a closure that pushes *)
(* the search page was due (Login lines 49, 68 and 93, SignUp line 59).    *)
InsideIsSignedIn == page = "inside" => authUser # NoUser \/ excused

Queued(u) ==
  \E v \in Signers : \E i \in DOMAIN queue[Device][v] : queue[Device][v][i] = u

(* An account made by a sign-up has its profile, or its write is queued    *)
(* or about to be, unless the answer was lost, the write refused or the    *)
(* process ended before line 52: sign-outs, sign-ins of others and later   *)
(* restarts do not lose it.                                                *)
ProfileFollowsAccount ==
  \A u \in accounts :
    \/ u \in profiles \cup cut
    \/ Queued(u)
    \/ \E i \in Due : main[i] = [run |-> "create", user |-> u]

(* The write of a profile waits in the queue of its own account, so the    *)
(* backend sees it signed by its owner, although the closure of line 52    *)
(* does not look who is signed in.                                         *)
ProfileIsOwn ==
  \A v \in Signers : \A i \in DOMAIN queue[Device][v] : queue[Device][v][i] = v

(* A Facebook user is signed in only while Facebook's token is theirs,     *)
(* unless Facebook refused a token since the last first login that found   *)
(* nothing of an older one: logins of other accounts, cancelled logins and *)
(* late comparisons do not take the token away from a session.             *)
FacebookSessionHasToken == authUser \in Facebook => fbToken = authUser \/ refused

(* Whoever is taken to the search page (line 98) has logged in since the   *)
(* last sign-out, but for the Facebook account whose token was kept: a     *)
(* dialog that failed, and Google's user, still there after a sign-out     *)
(* too, open no session.                                                   *)
OnlyFacebookSkipsLogin ==
  \A i \in DOMAIN main : main[i].run = "signIn" =>
    LET u == main[i].user
    IN  u \in vouched \/ (u \in Facebook /\ (u = fbToken \/ refused))

(* The closure of a sign-up (line 52) is called, unless its account is     *)
(* signed out and stays so, its write left behind in the queue.            *)
SignUpIsAnswered ==
  \A u \in Emails : u \in heard ~> (u \notin heard \/ [](fsUser[Device] # u))

(* "Navigate to Search View Controller after logging in with a Social      *)
(* Account" (Login line 98): whoever is taken there has logged in since    *)
(* the last sign-out.                                                      *)
SearchAfterLogin ==
  \A i \in DOMAIN main : main[i].run = "signIn" => main[i].user \in vouched

(* A user the login page finds (line 23) was restored with the process, or *)
(* has a sign-in or sign-up that is not finished: its closure is due, its  *)
(* profile is being written, or never was.                                 *)
FoundIsRestoredOrUnfinished ==
  [][(OpenLogin /\ authUser # NoUser) =>
       \/ authUser \in {restored} \cup heard \cup cut
       \/ \E i \in Due : main[i].user = authUser]_vars
=============================================================================

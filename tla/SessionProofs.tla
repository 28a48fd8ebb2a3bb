---------------------------- MODULE SessionProofs ----------------------------
(***************************************************************************)
(* Proofs about the session, for every set of users and number of taps.    *)
(***************************************************************************)
EXTENDS Session, SequenceTheorems, TLAPS

DueBlock(i) == main[i].run # "notice"

(* An account is signed up only by e-mail; it is signed in only if it      *)
(* logged in, or has a token of Facebook's; and what a Facebook token      *)
(* began belongs to the token there is, unless one was refused.            *)
RequestsAreInOrder ==
  /\ \A r \in waiting :
       /\ r.ask = "create" => r.user \in Emails
       /\ r.ask = "signIn" => r.user \in vouched \cup Facebook
       /\ r.user \in Facebook => r.user = fbToken \/ refused
  /\ \A v \in validating : v.token = fbToken \/ refused

(* The same of the closures that are due.                                  *)
ClosuresAreInOrder ==
  \A i \in DOMAIN main : DueBlock(i) =>
    /\ main[i].run = "signIn" => main[i].user \in vouched \cup Facebook
    /\ main[i].user \in Facebook => main[i].user = fbToken \/ refused

(* A closure is dispatched right behind the notice of its user, so the     *)
(* client has heard of that user when it runs.                             *)
NoticeGoesFirst ==
  \A i \in DOMAIN main : DueBlock(i) =>
    IF i = 1 THEN fsUser[Device] = main[1].user
             ELSE main[i - 1] = [run |-> "notice", user |-> main[i].user]

(* The profiles to come are those of accounts that were made.              *)
ProfilesHaveAccounts ==
  /\ \A i \in DOMAIN main : main[i].run = "create" => main[i].user \in accounts
  /\ \A v \in Signers : \A i \in DOMAIN queue[Device][v] : queue[Device][v][i] \in accounts

(* What awaits its acknowledgement has been written.                       *)
PipelineInQueue == inflight[Device] <= Len(Current(Device))

CommittedIsWritten == \A i \in 1 .. inflight[Device] : Current(Device)[i] \in profiles

(* A closure that pushes the search page finds a user, or an excuse.       *)
PushIsExcused ==
  ((\E i \in DOMAIN main : DueBlock(i)) \/ heard # {}) => authUser # NoUser \/ excused

(* Outside, whoever is signed in was restored or is not finished.          *)
OutsideIsUnfinished ==
  (page # "inside" /\ authUser # NoUser) =>
    \/ authUser \in {restored} \cup heard \cup cut
    \/ \E i \in DOMAIN main : DueBlock(i) /\ main[i].user = authUser

TypeIInv == TypeOK /\ RequestsAreInOrder /\ ProfilesHaveAccounts /\ PipelineInQueue

QueueIInv == NoticeGoesFirst /\ CommittedIsWritten /\ ProfileIsOwn /\ ProfileFollowsAccount

PageIInv == PushIsExcused /\ OutsideIsUnfinished /\ InsideIsSignedIn

LoginIInv == ClosuresAreInOrder /\ FacebookSessionHasToken

IInv == TypeIInv /\ QueueIInv /\ PageIInv /\ LoginIInv
-----------------------------------------------------------------------------
(* What the steps have in common: something is asked for, or a page opened *)
(* by hand; somebody is signed in or out; a closure runs; a write is       *)
(* answered.                                                               *)
Asks ==
  /\ UNCHANGED <<clientVars, authUser, main, profileVars, cut, excused, restored>>
  /\ \/ page' = page
     \/ page' \in {"launch", "login", "signup"} /\ page # "inside"
     \/ page' = "inside" /\ authUser # NoUser
  /\ waiting' \subseteq Requests /\ RequestsAreInOrder'
  /\ dialog' \in {"none", "facebook", "google"} /\ validating' \subseteq Reauthorizations
  /\ fbToken' \in Facebook \cup {NoUser} /\ google' \in Google \cup {NoUser}
  /\ \/ fbToken' = fbToken /\ refused' = refused
     \/ refused'
     \/ fbToken = NoUser /\ (refused => ~Leftover)
  /\ taps' \in 0 .. MaxTaps /\ refused' \in BOOLEAN
  /\ vouched' \subseteq Users /\ vouched \subseteq vouched'

SignsIn(u) ==
  /\ u \in Users
  /\ \E ask \in {"signIn", "create"} :
       /\ [ask |-> ask, user |-> u] \in waiting
       /\ main' = main \o <<[run |-> "notice", user |-> u]>> \o <<[run |-> ask, user |-> u]>>
       /\ accounts' = IF ask = "create" THEN accounts \cup {u} ELSE accounts
  /\ waiting' \subseteq waiting
  /\ authUser' = u
  /\ UNCHANGED <<clientVars, page, dialog, validating, providerVars, profiles, heard, taps,
                 historyVars>>

SignsOut ==
  /\ page' \in {page, "launch"}
  /\ authUser' = NoUser
  /\ \/ main' = Append(main, [run |-> "notice", user |-> NoUser])
     \/ main' = main /\ authUser = NoUser
  /\ taps' \in 0 .. MaxTaps /\ excused' \in BOOLEAN /\ vouched' \subseteq Users
  /\ \/ excused'
     \/ /\ page' = "launch" /\ heard = {} /\ \A i \in DOMAIN main : ~DueBlock(i)
  /\ vouched \cap Pending \subseteq vouched'
  /\ UNCHANGED <<clientVars, waiting, dialog, validating, providerVars, profileVars, cut,
                 restored, refused>>

LEMMA AsksForIt ==
  ASSUME TypeIInv,
         \/ OpenLogin \/ OpenSignUp \/ BackButton
         \/ \E u \in Users : LoginButtonTapped(u) \/ CreateAccountButtonTapped(u)
         \/ \E which \in {"facebook", "google"} : DialogOpened(which)
         \/ DialogFailed \/ FacebookCancelled \/ FacebookTokenRefused
         \/ \E u \in Facebook : FacebookGranted(u)
         \/ \E v \in validating : FacebookValidated(v)
         \/ \E u \in Google : GoogleGranted(u)
  PROVE  Asks
<1> USE ClientAssumption, SessionAssumption
        DEF TypeIInv, TypeOK, Requests, Emails, Signers, requestVars, providerVars, historyVars,
            Tap, Ask
<1>1. CASE OpenLogin \/ OpenSignUp \/ BackButton
  BY <1>1 DEF OpenLogin, OpenSignUp, BackButton, Asks, RequestsAreInOrder
<1>2. ASSUME NEW u \in Users, LoginButtonTapped(u) PROVE Asks
  BY <1>2 DEF LoginButtonTapped, Asks, RequestsAreInOrder
<1>3. ASSUME NEW u \in Users, CreateAccountButtonTapped(u) PROVE Asks
  BY <1>3 DEF CreateAccountButtonTapped, Asks, RequestsAreInOrder
<1>4. ASSUME NEW which \in {"facebook", "google"}, DialogOpened(which) PROVE Asks
  BY <1>4 DEF DialogOpened, Asks, RequestsAreInOrder
<1>5. CASE DialogFailed
  BY <1>5 DEF DialogFailed, Asks, RequestsAreInOrder
<1>6. CASE FacebookCancelled
  BY <1>6 DEF FacebookCancelled, Asks, RequestsAreInOrder
<1>7. ASSUME NEW u \in Facebook, FacebookGranted(u) PROVE Asks
  <2>1. CASE fbToken = NoUser
    <3>1. ~Leftover => /\ \A r \in waiting : r.user \notin Facebook
                       /\ validating = {}
      BY DEF Leftover, Pending, Reauthorizations
    <3>2. ~refused => /\ \A r \in waiting : r.user \notin Facebook
                      /\ validating = {}
      BY <2>1 DEF RequestsAreInOrder, Reauthorizations
    <3>3. RequestsAreInOrder'
      BY <1>7, <2>1, <3>1, <3>2 DEF FacebookGranted, RequestsAreInOrder
    <3> QED
      BY <1>7, <2>1, <3>3 DEF FacebookGranted, Asks
  <2>2. CASE fbToken # NoUser
    BY <1>7, <2>2 DEF FacebookGranted, Asks, RequestsAreInOrder, Reauthorizations
  <2> QED
    BY <2>1, <2>2
<1>8. ASSUME NEW v \in validating, FacebookValidated(v) PROVE Asks
  <2>1. v.login \in Facebook /\ (v.token = fbToken \/ refused)
    BY DEF RequestsAreInOrder, Reauthorizations
  <2> QED
    BY <1>8, <2>1 DEF FacebookValidated, Asks, RequestsAreInOrder
<1>10. CASE FacebookTokenRefused
  BY <1>10 DEF FacebookTokenRefused, Asks, RequestsAreInOrder
<1>9. ASSUME NEW u \in Google, GoogleGranted(u) PROVE Asks
  BY <1>9 DEF GoogleGranted, Asks, RequestsAreInOrder
<1> QED
  BY <1>1, <1>2, <1>3, <1>4, <1>5, <1>6, <1>7, <1>8, <1>9, <1>10

LEMMA AnswerSignsIn ==
  ASSUME TypeIInv, NEW u \in Users, SignInAnswered(u) \/ CreateAnswered(u)
  PROVE  SignsIn(u)
BY DEF SignInAnswered, CreateAnswered, UpdateCurrentUser, SignsIn, profileVars, historyVars,
       requestVars, providerVars

LEMMA SignOutSignsOut ==
  ASSUME TypeIInv, SignOut \/ SignOutByForce
  PROVE  SignsOut
<1> USE DEF TypeIInv, TypeOK, Tap, profileVars, providerVars, historyVars, requestVars, SignsOut
<1>1. main \o <<[run |-> "notice", user |-> NoUser]>> \o << >> =
        Append(main, [run |-> "notice", user |-> NoUser])
  OBVIOUS
<1>2. Due = {} => \A i \in DOMAIN main : ~DueBlock(i)
  BY DEF Due, DueBlock
<1>3. taps < MaxTaps => taps + 1 \in 0 .. MaxTaps
  BY SessionAssumption
<1>4. CASE SignOut
  <2>1. excused' \in BOOLEAN
    BY <1>4 DEF SignOut
  <2> QED
    BY <1>1, <1>2, <1>3, <1>4, <2>1 DEF SignOut, UpdateCurrentUser
<1>5. CASE SignOutByForce
  BY <1>1, <1>3, <1>5 DEF SignOutByForce, UpdateCurrentUser
<1> QED
  BY <1>4, <1>5

LEMMA StepCases ==
  ASSUME TypeIInv, [Next]_vars
  PROVE  \/ Asks
         \/ \E u \in Users : SignsIn(u)
         \/ \E r \in waiting : RequestFailed(r)
         \/ SignsOut
         \/ AuthStateChanged \/ TransferToSearchVC \/ StoreUser
         \/ Commit \/ WriteAcknowledged \/ WriteRejected \/ StreamClosed
         \/ Restart
         \/ UNCHANGED vars
BY AsksForIt, AnswerSignsIn, SignOutSignsOut
   DEF Next, Taps, Dialogs, Auth, MainThread, Answer, FacebookTraps
-----------------------------------------------------------------------------
(* What the queues and the main thread look like after a step.             *)
Q(v) == queue[Device][v]

LEMMA QueueTypes ==
  ASSUME TypeOK
  PROVE  /\ fsUser[Device] \in Signers /\ inflight[Device] \in Nat /\ Device \in Devices
         /\ fsUser \in [Devices -> Signers] /\ inflight \in [Devices -> Nat]
         /\ Current(Device) = Q(fsUser[Device])
         /\ \A v \in Signers : Q(v) \in Seq(Users) /\ Len(Q(v)) \in Nat
BY SessionAssumption DEF TypeOK, ClientTypeOK, Current, Q

LEMMA QueueAppended ==
  ASSUME TypeOK, NEW u \in Users, WriteMutations(Device, u)
  PROVE  /\ queue' \in [Devices -> [Signers -> Seq(Users)]]
         /\ UNCHANGED <<fsUser, inflight>>
         /\ Q(fsUser[Device])' = Append(Q(fsUser[Device]), u)
         /\ \A v \in Signers \ {fsUser[Device]} : Q(v)' = Q(v)
<1> DEFINE c == fsUser[Device]
<1>1. c \in Signers /\ Device \in Devices /\ queue \in [Devices -> [Signers -> Seq(Users)]]
  BY QueueTypes DEF TypeOK, ClientTypeOK
<1>2. queue[Device][c] \in Seq(Users)
  BY <1>1
<1>3. Append(queue[Device][c], u) \in Seq(Users)
  BY <1>2
<1>4. queue' = [queue EXCEPT ![Device] =
                  [queue[Device] EXCEPT ![c] = Append(queue[Device][c], u)]]
  BY DEF WriteMutations
<1>5. /\ queue' \in [Devices -> [Signers -> Seq(Users)]]
      /\ queue'[Device][c] = Append(queue[Device][c], u)
      /\ \A v \in Signers \ {c} : queue'[Device][v] = queue[Device][v]
  BY <1>1, <1>3, <1>4
<1>6. UNCHANGED <<fsUser, inflight>>
  BY DEF WriteMutations
<1> QED
  BY <1>5, <1>6 DEF Q

LEMMA QueueRemoved ==
  ASSUME TypeOK, RemoveFront(Device), UNCHANGED fsUser, Current(Device) # << >>
  PROVE  /\ queue' \in [Devices -> [Signers -> Seq(Users)]]
         /\ Q(fsUser[Device])' = Tail(Q(fsUser[Device]))
         /\ \A v \in Signers \ {fsUser[Device]} : Q(v)' = Q(v)
<1> DEFINE c == fsUser[Device]
<1>1. c \in Signers /\ Device \in Devices /\ queue \in [Devices -> [Signers -> Seq(Users)]]
  BY QueueTypes DEF TypeOK, ClientTypeOK
<1>2. queue[Device][c] \in Seq(Users) /\ queue[Device][c] # << >>
  BY <1>1 DEF Current
<1>3. Tail(queue[Device][c]) \in Seq(Users)
  BY <1>2
<1>4. queue' = [queue EXCEPT ![Device] =
                  [queue[Device] EXCEPT ![c] = Tail(queue[Device][c])]]
  BY DEF RemoveFront
<1>5. /\ queue' \in [Devices -> [Signers -> Seq(Users)]]
      /\ queue'[Device][c] = Tail(queue[Device][c])
      /\ \A v \in Signers \ {c} : queue'[Device][v] = queue[Device][v]
  BY <1>1, <1>3, <1>4
<1> QED
  BY <1>5 DEF Q

LEMMA TailFacts ==
  ASSUME NEW S, NEW s \in Seq(S), s # << >>
  PROVE  /\ Tail(s) \in Seq(S) /\ Len(Tail(s)) = Len(s) - 1 /\ Len(s) \in Nat \ {0}
         /\ Head(s) = s[1] /\ 1 \in DOMAIN s /\ s[1] \in S
         /\ \A i \in DOMAIN Tail(s) : i + 1 \in DOMAIN s /\ Tail(s)[i] = s[i + 1]
         /\ \A i \in DOMAIN s \ {1} : i - 1 \in DOMAIN Tail(s) /\ Tail(s)[i - 1] = s[i]
OBVIOUS

LEMMA AppendFacts ==
  ASSUME NEW S, NEW s \in Seq(S), NEW x \in S
  PROVE  /\ Append(s, x) \in Seq(S) /\ Len(Append(s, x)) = Len(s) + 1 /\ Len(s) \in Nat
         /\ DOMAIN Append(s, x) = DOMAIN s \cup {Len(s) + 1} /\ Len(s) + 1 \notin DOMAIN s
         /\ Append(s, x)[Len(s) + 1] = x
         /\ \A i \in DOMAIN s : Append(s, x)[i] = s[i]
OBVIOUS

LEMMA TwoAppended ==
  ASSUME NEW S, NEW s \in Seq(S), NEW x \in S, NEW y \in S
  PROVE  s \o <<x>> \o <<y>> = Append(Append(s, x), y)
<1>1. s \o <<x>> = Append(s, x) /\ s \o <<x>> \in Seq(S)
  OBVIOUS
<1>2. \A t \in Seq(S) : t \o <<y>> = Append(t, y)
  OBVIOUS
<1> QED
  BY <1>1, <1>2

(* A sign-in puts its notice, then its closure, behind what there is.      *)
LEMMA SignInBlocks ==
  ASSUME TypeOK, NEW u \in Users, SignsIn(u)
  PROVE  \E ask \in {"signIn", "create"} :
           /\ [ask |-> ask, user |-> u] \in waiting
           /\ accounts' = IF ask = "create" THEN accounts \cup {u} ELSE accounts
           /\ main' \in Seq(Blocks) /\ Len(main) \in Nat
           /\ DOMAIN main' = DOMAIN main \cup {Len(main) + 1, Len(main) + 2}
           /\ DOMAIN main = 1 .. Len(main)
           /\ \A i \in DOMAIN main : main'[i] = main[i]
           /\ main'[Len(main) + 1] = [run |-> "notice", user |-> u]
           /\ main'[Len(main) + 2] = [run |-> ask, user |-> u]
<1>1. PICK ask \in {"signIn", "create"} :
        /\ [ask |-> ask, user |-> u] \in waiting
        /\ main' = main \o <<[run |-> "notice", user |-> u]>> \o <<[run |-> ask, user |-> u]>>
        /\ accounts' = IF ask = "create" THEN accounts \cup {u} ELSE accounts
  BY DEF SignsIn
<1> DEFINE x == [run |-> "notice", user |-> u]
           y == [run |-> ask, user |-> u]
<1>2. main \in Seq(Blocks) /\ x \in Blocks /\ y \in Blocks
  BY DEF TypeOK, Blocks, Signers
<1>3. main' = Append(Append(main, x), y)
  BY <1>1, <1>2, TwoAppended
<1> HIDE DEF x, y
<1>4. /\ main' \in Seq(Blocks) /\ Len(main) \in Nat /\ DOMAIN main = 1 .. Len(main)
      /\ DOMAIN main' = DOMAIN main \cup {Len(main) + 1, Len(main) + 2}
      /\ \A i \in DOMAIN main : main'[i] = main[i]
      /\ main'[Len(main) + 1] = x /\ main'[Len(main) + 2] = y
  BY <1>2, <1>3
<1> QED
  BY <1>1, <1>4 DEF x, y

LEMMA SignOutBlocks ==
  ASSUME TypeOK, SignsOut
  PROVE  /\ main' \in Seq(Blocks)
         /\ \/ main' = main
            \/ /\ Len(main) \in Nat /\ Len(main) + 1 \notin DOMAIN main
               /\ DOMAIN main' = DOMAIN main \cup {Len(main) + 1}
               /\ \A i \in DOMAIN main : main'[i] = main[i]
               /\ main'[Len(main) + 1] = [run |-> "notice", user |-> NoUser]
<1>1. main \in Seq(Blocks) /\ [run |-> "notice", user |-> NoUser] \in Blocks
  BY DEF TypeOK, Blocks, Signers
<1> DEFINE x == [run |-> "notice", user |-> NoUser]
<1>2. main' = Append(main, x) \/ main' = main
  BY DEF SignsOut
<1> HIDE DEF x
<1>3. x \in Blocks
  BY <1>1 DEF x
<1>4. CASE main' = Append(main, x)
  <2>1. /\ main' \in Seq(Blocks) /\ Len(main) \in Nat /\ Len(main) + 1 \notin DOMAIN main
        /\ DOMAIN main' = DOMAIN main \cup {Len(main) + 1}
        /\ \A i \in DOMAIN main : main'[i] = main[i]
        /\ main'[Len(main) + 1] = x
    BY <1>1, <1>3, <1>4, AppendFacts
  <2> QED
    BY <2>1 DEF x
<1> QED
  BY <1>1, <1>2, <1>4

LEMMA BlockTaken ==
  ASSUME TypeOK, NEW run, NextBlock(run)
  PROVE  /\ main' \in Seq(Blocks) /\ 1 \in DOMAIN main /\ Head(main) = main[1]
         /\ main[1].run = run /\ main[1].user \in Signers
         /\ \A i \in DOMAIN main' : i + 1 \in DOMAIN main /\ main'[i] = main[i + 1] /\ i \in Nat \ {0}
         /\ \A i \in DOMAIN main \ {1} : i - 1 \in DOMAIN main' /\ main'[i - 1] = main[i]
<1>1. main \in Seq(Blocks) /\ main # << >> /\ main' = Tail(main) /\ Head(main).run = run
  BY DEF NextBlock, TypeOK
<1>2. main[1] \in Blocks /\ main[1].user \in Signers
  <2>1. main[1] \in Blocks
    BY <1>1
  <2> QED
    BY <2>1 DEF Blocks
<1>3. \A i \in DOMAIN Tail(main) : i \in Nat \ {0}
  <2>1. Tail(main) \in Seq(Blocks)
    BY <1>1
  <2> QED
    BY <2>1
<1> QED
  BY <1>1, <1>2, <1>3, TailFacts
-----------------------------------------------------------------------------
LEMMA InitIInv == Init => IInv
<1> SUFFICES ASSUME Init PROVE IInv
  OBVIOUS
<1> USE ClientAssumption, SessionAssumption DEF Init, ClientInit
<1>1. ClientTypeOK(Users)
  <2>1. << >> \in Seq(Users)
    OBVIOUS
  <2> QED
    BY <2>1 DEF ClientTypeOK, Signers
<1>2. TypeOK
  <2>1. main \in Seq(Blocks) /\ waiting \subseteq Requests /\ validating \subseteq Reauthorizations
    OBVIOUS
  <2>2. authUser \in Signers /\ restored \in Signers /\ taps \in 0 .. MaxTaps
    BY DEF Signers
  <2> QED
    BY <1>1, <2>1, <2>2 DEF TypeOK
<1>3. \A v \in Signers : queue[Device][v] = << >>
  OBVIOUS
<1>5. CommittedIsWritten /\ PipelineInQueue
  <2>1. inflight[Device] = 0 /\ fsUser[Device] = NoUser /\ NoUser \in Signers
    BY DEF Signers
  <2>2. Len(Current(Device)) = 0
    BY <1>3, <2>1 DEF Current
  <2> QED
    BY <2>1, <2>2 DEF CommittedIsWritten, PipelineInQueue
<1>4. TypeIInv
  <2>1. RequestsAreInOrder /\ ProfilesHaveAccounts
    BY <1>3 DEF RequestsAreInOrder, ProfilesHaveAccounts
  <2> QED
    BY <1>2, <1>5, <2>1 DEF TypeIInv
<1>6. QueueIInv
  BY <1>3, <1>5 DEF QueueIInv, NoticeGoesFirst, ProfileIsOwn, ProfileFollowsAccount
<1>7. PageIInv
  BY DEF PageIInv, PushIsExcused, OutsideIsUnfinished, InsideIsSignedIn
<1>8. LoginIInv
  BY DEF LoginIInv, ClosuresAreInOrder, FacebookSessionHasToken
<1> QED
  BY <1>4, <1>6, <1>7, <1>8 DEF IInv

LEMMA AnswerTypes ==
  ASSUME TypeIInv, Current(Device) # << >>
  PROVE  /\ Head(Current(Device)) = Current(Device)[1] /\ 1 \in DOMAIN Q(fsUser[Device])
         /\ Head(Current(Device)) \in accounts /\ Head(Current(Device)) \in Users
<1>1. Current(Device) = Q(fsUser[Device]) /\ Q(fsUser[Device]) \in Seq(Users)
      /\ fsUser[Device] \in Signers
  BY QueueTypes DEF TypeIInv
<1>2. Head(Q(fsUser[Device])) = Q(fsUser[Device])[1] /\ 1 \in DOMAIN Q(fsUser[Device])
      /\ Q(fsUser[Device])[1] \in Users
  BY <1>1, TailFacts
<1>3. Q(fsUser[Device])[1] \in accounts
  BY <1>1, <1>2 DEF TypeIInv, ProfilesHaveAccounts, Q
<1> QED
  BY <1>1, <1>2, <1>3

LEMMA CommitTypes ==
  ASSUME TypeIInv, Commit
  PROVE  /\ inflight' \in [Devices -> Nat] /\ inflight'[Device] = inflight[Device] + 1
         /\ inflight[Device] < Len(Current(Device))
         /\ NextWrite(Device) = Current(Device)[inflight[Device] + 1]
         /\ NextWrite(Device) \in accounts
         /\ profiles' = profiles \cup {NextWrite(Device)}
         /\ UNCHANGED <<fsUser, queue>>
<1>1. /\ Current(Device) = Q(fsUser[Device]) /\ Q(fsUser[Device]) \in Seq(Users)
      /\ fsUser[Device] \in Signers /\ inflight[Device] \in Nat /\ Device \in Devices
      /\ inflight \in [Devices -> Nat]
  BY QueueTypes DEF TypeIInv
<1>2. /\ inflight[Device] < Len(Current(Device))
      /\ inflight' = [inflight EXCEPT ![Device] = inflight[Device] + 1]
      /\ UNCHANGED <<fsUser, queue>> /\ profiles' = profiles \cup {NextWrite(Device)}
  BY DEF Commit, CommitWrite, CanCommit
<1>3. inflight[Device] + 1 \in DOMAIN Q(fsUser[Device])
  BY <1>1, <1>2
<1>4. Q(fsUser[Device])[inflight[Device] + 1] \in accounts
  BY <1>1, <1>3 DEF TypeIInv, ProfilesHaveAccounts, Q
<1>5. inflight' \in [Devices -> Nat] /\ inflight'[Device] = inflight[Device] + 1
  BY <1>1, <1>2
<1> QED
  BY <1>1, <1>2, <1>4, <1>5 DEF NextWrite

LEMMA CurrentTypes ==
  ASSUME TypeOK
  PROVE  /\ Current(Device) \in Seq(Users) /\ Len(Current(Device)) \in Nat
         /\ inflight[Device] \in Nat /\ Device \in Devices /\ inflight \in [Devices -> Nat]
BY QueueTypes

(* No more is on its way than there is to send.                            *)
LEMMA NextPipelineInQueue == TypeIInv /\ [Next]_vars => PipelineInQueue'
<1> SUFFICES ASSUME TypeIInv, [Next]_vars PROVE PipelineInQueue'
  OBVIOUS
<1>0. TypeOK /\ PipelineInQueue
  BY DEF TypeIInv
<1>1. (clientVars' = clientVars) => PipelineInQueue'
  BY <1>0 DEF PipelineInQueue, Current, clientVars
<1>2. (inflight' = [inflight EXCEPT ![Device] = 0] /\ Current(Device)' \in Seq(Users)) =>
        PipelineInQueue'
  BY <1>0, QueueTypes DEF PipelineInQueue
<1>3. CASE AuthStateChanged \/ Restart
  <2>1. PICK u \in Signers : HandleCredentialChange(Device, u)
    <3>1. CASE AuthStateChanged
      BY <1>0, <3>1, BlockTaken DEF AuthStateChanged
    <3>2. CASE Restart
      BY <1>0, <3>2 DEF Restart, RestartClient, TypeOK
    <3> QED
      BY <1>3, <3>1, <3>2
  <2>2. /\ fsUser' = [fsUser EXCEPT ![Device] = u] /\ queue' = queue
        /\ inflight' = [inflight EXCEPT ![Device] = 0]
    BY <2>1 DEF HandleCredentialChange
  <2>3. fsUser'[Device] = u /\ Q(u) \in Seq(Users)
    BY <1>0, <2>2, QueueTypes
  <2>4. Current(Device)' = Q(u)
    BY <2>2, <2>3 DEF Current, Q
  <2> QED
    BY <1>2, <2>2, <2>3, <2>4
<1>4. CASE StreamClosed
  <2>1. inflight' = [inflight EXCEPT ![Device] = 0] /\ UNCHANGED <<fsUser, queue>>
    BY <1>4 DEF StreamClosed, OnWriteStreamClose
  <2>2. Current(Device)' \in Seq(Users)
    BY <1>0, <2>1, CurrentTypes DEF Current
  <2> QED
    BY <1>2, <2>1, <2>2
<1>5. CASE StoreUser
  <2>1. NextBlock("create") /\ Head(main) = main[1] /\ 1 \in DOMAIN main /\ main[1].run = "create"
    BY <1>0, <1>5, BlockTaken DEF StoreUser
  <2>2. main[1].user \in Users
    BY <2>1 DEF TypeIInv, ProfilesHaveAccounts, TypeOK, Emails
  <2>3. WriteMutations(Device, main[1].user)
    BY <1>5, <2>1 DEF StoreUser
  <2>4. /\ UNCHANGED <<fsUser, inflight>>
        /\ Current(Device)' = Append(Current(Device), main[1].user)
    BY <1>0, <2>2, <2>3, QueueAppended, QueueTypes DEF Current, Q
  <2> QED
    BY <1>0, <2>2, <2>4, CurrentTypes, AppendFacts DEF PipelineInQueue
<1>6. CASE Commit
  <2>1. /\ inflight[Device] < Len(Current(Device)) /\ UNCHANGED <<fsUser, queue>>
        /\ inflight' = [inflight EXCEPT ![Device] = inflight[Device] + 1]
    BY <1>6 DEF Commit, CommitWrite, CanCommit
  <2>2. inflight'[Device] = inflight[Device] + 1
    BY <1>0, <2>1, CurrentTypes
  <2> QED
    BY <1>0, <2>1, <2>2, CurrentTypes DEF PipelineInQueue, Current
<1>7. CASE WriteAcknowledged \/ WriteRejected
  <2>1. RemoveFront(Device) /\ UNCHANGED fsUser
    BY <1>7 DEF WriteAcknowledged, WriteRejected, HandleSuccessfulWrite, HandleRejectedWrite
  <2>2. Current(Device) # << >>
    <3>1. CASE WriteRejected
      BY <3>1 DEF WriteRejected, HandleRejectedWrite
    <3>2. CASE WriteAcknowledged
      <4>1. inflight[Device] > 0
        BY <3>2 DEF WriteAcknowledged, HandleSuccessfulWrite
      <4> QED
        BY <1>0, <4>1, CurrentTypes DEF PipelineInQueue
    <3> QED
      BY <1>7, <3>1, <3>2
  <2>3. Current(Device)' = Tail(Current(Device))
    BY <1>0, <2>1, <2>2, QueueRemoved DEF Current, Q
  <2>4. \/ inflight'[Device] = inflight[Device] - 1
        \/ inflight'[Device] = 0 /\ inflight[Device] = 0
    <3>1. \/ inflight' = [inflight EXCEPT ![Device] = inflight[Device] - 1]
          \/ inflight' = inflight /\ inflight[Device] = 0
      BY <1>7
         DEF WriteAcknowledged, WriteRejected, HandleSuccessfulWrite, HandleRejectedWrite
    <3> QED
      BY <1>0, <3>1, CurrentTypes
  <2>5. Len(Current(Device)') = Len(Current(Device)) - 1 /\ Len(Current(Device)) \in Nat \ {0}
    BY <1>0, <2>2, <2>3, CurrentTypes, TailFacts
  <2> QED
    BY <1>0, <2>4, <2>5, CurrentTypes DEF PipelineInQueue
<1>8. CASE UNCHANGED clientVars
  BY <1>1, <1>8
<1>9. (Asks \/ SignsOut \/ TransferToSearchVC \/ UNCHANGED vars) => UNCHANGED clientVars
  BY DEF Asks, SignsOut, TransferToSearchVC, vars
<1>10. (\E u \in Users : SignsIn(u)) \/ (\E r \in waiting : RequestFailed(r)) =>
         UNCHANGED clientVars
  BY DEF SignsIn, RequestFailed
<1> QED
  BY <1>3, <1>4, <1>5, <1>6, <1>7, <1>8, <1>9, <1>10, StepCases

(* What a sign-in, a closure and an answer leave behind has its account.   *)
LEMMA NextTypeIInv == TypeIInv /\ [Next]_vars => TypeIInv'
<1> SUFFICES ASSUME TypeIInv, [Next]_vars PROVE TypeIInv'
  OBVIOUS
<1>0. TypeOK /\ RequestsAreInOrder /\ ProfilesHaveAccounts /\ PipelineInQueue /\ PipelineInQueue'
  BY NextPipelineInQueue DEF TypeIInv
<1> USE <1>0 DEF TypeIInv
<1>1. CASE Asks
  <2>1. TypeOK'
    BY <1>1 DEF Asks, TypeOK, ClientTypeOK, clientVars, profileVars
  <2>2. ProfilesHaveAccounts'
    BY <1>1 DEF Asks, ProfilesHaveAccounts, clientVars, profileVars
  <2> QED
    BY <1>1, <2>1, <2>2 DEF Asks
<1>2. ASSUME NEW u \in Users, SignsIn(u) PROVE TypeIInv'
  <2>1. PICK ask \in {"signIn", "create"} :
          /\ [ask |-> ask, user |-> u] \in waiting
          /\ accounts' = IF ask = "create" THEN accounts \cup {u} ELSE accounts
          /\ main' \in Seq(Blocks) /\ Len(main) \in Nat
          /\ DOMAIN main' = DOMAIN main \cup {Len(main) + 1, Len(main) + 2}
          /\ \A i \in DOMAIN main : main'[i] = main[i]
          /\ main'[Len(main) + 1] = [run |-> "notice", user |-> u]
          /\ main'[Len(main) + 2] = [run |-> ask, user |-> u]
    BY <1>2, SignInBlocks
  <2>2. accounts \subseteq accounts' /\ accounts' \subseteq Emails
    BY <2>1 DEF RequestsAreInOrder, TypeOK
  <2>3. TypeOK'
    BY <1>2, <2>1, <2>2
       DEF SignsIn, TypeOK, ClientTypeOK, clientVars, providerVars, historyVars, Signers
  <2>4. RequestsAreInOrder'
    BY <1>2 DEF SignsIn, RequestsAreInOrder, providerVars, historyVars
  <2>5. ProfilesHaveAccounts'
    <3>1. \A i \in DOMAIN main' : main'[i].run = "create" => main'[i].user \in accounts'
      BY <2>1, <2>2 DEF ProfilesHaveAccounts
    <3>2. queue' = queue
      BY <1>2 DEF SignsIn, clientVars
    <3> QED
      BY <2>2, <3>1, <3>2 DEF ProfilesHaveAccounts
  <2> QED
    BY <2>3, <2>4, <2>5
<1>3. ASSUME NEW r \in waiting, RequestFailed(r) PROVE TypeIInv'
  <2>1. accounts \subseteq accounts' /\ accounts' \subseteq Emails /\ cut' \subseteq accounts'
    BY <1>3 DEF RequestFailed, RequestsAreInOrder, TypeOK
  <2>2. TypeOK'
    BY <1>3, <2>1 DEF RequestFailed, TypeOK, ClientTypeOK, clientVars, providerVars
  <2>3. RequestsAreInOrder'
    BY <1>3 DEF RequestFailed, RequestsAreInOrder, providerVars
  <2>4. ProfilesHaveAccounts'
    BY <1>3, <2>1 DEF RequestFailed, ProfilesHaveAccounts, clientVars
  <2> QED
    BY <2>2, <2>3, <2>4
<1>4. CASE SignsOut
  <2>1. main' \in Seq(Blocks)
    BY <1>4, SignOutBlocks
  <2>2. TypeOK'
    BY <1>4, <2>1 DEF SignsOut, TypeOK, ClientTypeOK, clientVars, providerVars, profileVars, Signers
  <2>3. RequestsAreInOrder'
    BY <1>4 DEF SignsOut, RequestsAreInOrder, Pending, providerVars
  <2>4. \A i \in DOMAIN main' : main'[i].run = "create" => main'[i].user \in accounts
    BY <1>4, SignOutBlocks DEF ProfilesHaveAccounts
  <2>5. UNCHANGED <<queue, accounts>>
    BY <1>4 DEF SignsOut, clientVars, profileVars
  <2> QED
    BY <2>2, <2>3, <2>4, <2>5 DEF ProfilesHaveAccounts
<1>5. CASE AuthStateChanged
  <2>1. NextBlock("notice") /\ Head(main) = main[1] /\ main[1].user \in Signers
    BY <1>5, BlockTaken DEF AuthStateChanged
  <2>2. /\ fsUser' = [fsUser EXCEPT ![Device] = main[1].user]
        /\ inflight' = [inflight EXCEPT ![Device] = 0] /\ queue' = queue
        /\ UNCHANGED <<page, authUser, waiting, dialog, validating, providerVars, profileVars,
                       taps, historyVars>>
    BY <1>5, <2>1 DEF AuthStateChanged, HandleCredentialChange
  <2>3. ClientTypeOK(Users)'
    BY <2>1, <2>2 DEF TypeOK, ClientTypeOK
  <2>4. TypeOK'
    BY <2>1, <2>2, <2>3, BlockTaken DEF TypeOK, providerVars, profileVars, historyVars
  <2>5. RequestsAreInOrder'
    BY <2>2 DEF RequestsAreInOrder, providerVars, historyVars
  <2>6. ProfilesHaveAccounts'
    BY <2>1, <2>2, BlockTaken DEF ProfilesHaveAccounts, profileVars
  <2> QED
    BY <2>4, <2>5, <2>6
<1>6. CASE TransferToSearchVC
  <2>1. NextBlock("signIn") /\ page' = "inside"
        /\ UNCHANGED <<clientVars, authUser, waiting, dialog, validating, providerVars,
                       profileVars, taps, historyVars>>
    BY <1>6 DEF TransferToSearchVC
  <2>2. TypeOK'
    BY <2>1, BlockTaken
       DEF TypeOK, ClientTypeOK, clientVars, providerVars, profileVars, historyVars
  <2>3. RequestsAreInOrder'
    BY <2>1 DEF RequestsAreInOrder, providerVars, historyVars
  <2>4. ProfilesHaveAccounts'
    BY <2>1, BlockTaken DEF ProfilesHaveAccounts, profileVars, clientVars
  <2> QED
    BY <2>2, <2>3, <2>4
<1>7. CASE StoreUser
  <2> DEFINE u == main[1].user
  <2>1. NextBlock("create") /\ Head(main) = main[1] /\ 1 \in DOMAIN main /\ main[1].run = "create"
    BY <1>7, BlockTaken DEF StoreUser
  <2>2. u \in accounts /\ u \in Users
    BY <2>1 DEF ProfilesHaveAccounts, TypeOK, Emails
  <2>3. /\ WriteMutations(Device, u) /\ heard' = heard \cup {u}
        /\ UNCHANGED <<page, authUser, waiting, dialog, validating, providerVars, accounts,
                       profiles, taps, historyVars>>
    BY <1>7, <2>1 DEF StoreUser
  <2> HIDE DEF u
  <2>4. /\ queue' \in [Devices -> [Signers -> Seq(Users)]] /\ UNCHANGED <<fsUser, inflight>>
        /\ Q(fsUser[Device])' = Append(Q(fsUser[Device]), u)
        /\ \A v \in Signers \ {fsUser[Device]} : Q(v)' = Q(v)
    BY <2>2, <2>3, QueueAppended
  <2>5. TypeOK'
    BY <2>1, <2>2, <2>3, <2>4, BlockTaken DEF TypeOK, ClientTypeOK, providerVars, historyVars
  <2>6. RequestsAreInOrder'
    BY <2>3 DEF RequestsAreInOrder, providerVars, historyVars
  <2>7. ASSUME NEW v \in Signers, NEW i \in DOMAIN Q(v)' PROVE Q(v)'[i] \in accounts
    <3>1. Q(v) \in Seq(Users) /\ \A j \in DOMAIN Q(v) : Q(v)[j] \in accounts
      BY QueueTypes DEF ProfilesHaveAccounts, Q
    <3>2. CASE v = fsUser[Device]
      <4>1. Q(v)' = Append(Q(v), u)
        BY <2>4, <3>2
      <4>2. i \in DOMAIN Q(v) \/ i = Len(Q(v)) + 1
        BY <2>2, <2>7, <3>1, <4>1, AppendFacts
      <4> QED
        BY <2>2, <3>1, <4>1, <4>2, AppendFacts
    <3>3. CASE v # fsUser[Device]
      BY <2>4, <2>7, <3>1, <3>3
    <3> QED
      BY <3>2, <3>3
  <2>8. ProfilesHaveAccounts'
    BY <2>1, <2>3, <2>7, BlockTaken DEF ProfilesHaveAccounts, Q
  <2> QED
    BY <2>5, <2>6, <2>8
<1>8. CASE Commit
  <2>1. UNCHANGED <<page, authUser, requestVars, providerVars, accounts, heard, taps, historyVars>>
    BY <1>8 DEF Commit
  <2>2. TypeOK'
    BY <1>8, <2>1, CommitTypes
       DEF TypeOK, ClientTypeOK, requestVars, providerVars, historyVars
  <2>3. RequestsAreInOrder' /\ ProfilesHaveAccounts'
    BY <1>8, <2>1, CommitTypes
       DEF RequestsAreInOrder, ProfilesHaveAccounts, providerVars, requestVars, historyVars
  <2> QED
    BY <2>2, <2>3
<1>9. CASE WriteAcknowledged \/ WriteRejected
  <2> DEFINE c == fsUser[Device]
  <2>1. /\ RemoveFront(Device) /\ UNCHANGED fsUser
        /\ UNCHANGED <<authUser, requestVars, providerVars, accounts, profiles, taps>>
        /\ heard' = heard \ {Head(Current(Device))}
        /\ cut' \subseteq cut \cup {Head(Current(Device))} /\ page' \in {page, "inside"}
        /\ UNCHANGED <<excused, vouched, restored, refused>>
    BY <1>9 DEF WriteAcknowledged, WriteRejected, HandleSuccessfulWrite, HandleRejectedWrite,
                historyVars
  <2>2. Current(Device) # << >> /\ inflight' \in [Devices -> Nat]
    <3>1. CASE WriteRejected
      BY <3>1, QueueTypes DEF WriteRejected, HandleRejectedWrite
    <3>2. CASE WriteAcknowledged
      <4>1. inflight[Device] > 0 /\ inflight' = [inflight EXCEPT ![Device] = inflight[Device] - 1]
            /\ inflight \in [Devices -> Nat]
        BY <3>2, QueueTypes DEF WriteAcknowledged, HandleSuccessfulWrite
      <4>2. inflight' \in [Devices -> Nat]
        <5>1. inflight[Device] \in Nat /\ inflight[Device] - 1 \in Nat
          BY <4>1, QueueTypes
        <5> QED
          BY <4>1, <5>1
      <4>3. Len(Current(Device)) # 0 /\ Current(Device) \in Seq(Users)
        BY <4>1, CurrentTypes DEF PipelineInQueue
      <4> QED
        BY <4>2, <4>3
    <3> QED
      BY <1>9, <3>1, <3>2
  <2>3. Head(Current(Device)) \in accounts
    BY <2>2, AnswerTypes
  <2>4. /\ queue' \in [Devices -> [Signers -> Seq(Users)]]
        /\ Q(c)' = Tail(Q(c)) /\ \A v \in Signers \ {c} : Q(v)' = Q(v)
    BY <2>1, <2>2, QueueRemoved
  <2>5. TypeOK'
    BY <2>1, <2>2, <2>3, <2>4 DEF TypeOK, ClientTypeOK, requestVars, providerVars
  <2>6. RequestsAreInOrder'
    BY <2>1 DEF RequestsAreInOrder, providerVars, requestVars
  <2>7. ASSUME NEW v \in Signers, NEW i \in DOMAIN Q(v)' PROVE Q(v)'[i] \in accounts
    <3>1. Q(v) \in Seq(Users) /\ \A j \in DOMAIN Q(v) : Q(v)[j] \in accounts
      BY QueueTypes DEF ProfilesHaveAccounts, Q
    <3>2. CASE v = c
      <4>1. Q(v)' = Tail(Q(v))
        BY <2>1, <2>4, <3>2 DEF Q
      <4>2. Q(v) # << >>
        BY <2>2, <3>2 DEF Current, Q
      <4> QED
        BY <2>7, <3>1, <4>1, <4>2, TailFacts
    <3>3. CASE v # c
      BY <2>4, <2>7, <3>1, <3>3
    <3> QED
      BY <3>2, <3>3
  <2>8. ProfilesHaveAccounts'
    BY <2>1, <2>7 DEF ProfilesHaveAccounts, Q, requestVars
  <2> QED
    BY <2>5, <2>6, <2>8
<1>10. CASE StreamClosed
  <2>1. /\ inflight' = [inflight EXCEPT ![Device] = 0] /\ UNCHANGED <<fsUser, queue>>
        /\ UNCHANGED <<page, authUser, requestVars, providerVars, profileVars, taps, historyVars>>
    BY <1>10 DEF StreamClosed, OnWriteStreamClose
  <2> QED
    BY <2>1 DEF TypeOK, ClientTypeOK, RequestsAreInOrder, ProfilesHaveAccounts, requestVars,
                providerVars, profileVars, historyVars
<1>11. CASE Restart
  <2>1. /\ fsUser' = [fsUser EXCEPT ![Device] = authUser]
        /\ inflight' = [inflight EXCEPT ![Device] = 0] /\ queue' = queue
        /\ page' = "launch" /\ waiting' = {} /\ main' = << >> /\ dialog' = "none"
        /\ validating' = {} /\ heard' = {} /\ restored' = authUser
        /\ UNCHANGED <<authUser, providerVars, accounts, profiles, taps, excused, vouched,
                       refused>>
    BY <1>11 DEF Restart, RestartClient, HandleCredentialChange
  <2>2. cut' \subseteq accounts
    BY <1>11 DEF Restart, Due, TypeOK, ProfilesHaveAccounts
  <2>3. ClientTypeOK(Users)'
    BY <2>1 DEF TypeOK, ClientTypeOK
  <2>4. TypeOK'
    BY <2>1, <2>2, <2>3 DEF TypeOK, providerVars
  <2> QED
    BY <2>1, <2>4 DEF RequestsAreInOrder, ProfilesHaveAccounts
<1>12. CASE UNCHANGED vars
  BY <1>12 DEF vars, TypeOK, ClientTypeOK, RequestsAreInOrder, ProfilesHaveAccounts, clientVars,
               requestVars, providerVars, profileVars, historyVars
<1> QED
  BY <1>1, <1>2, <1>3, <1>4, <1>5, <1>6, <1>7, <1>8, <1>9, <1>10, <1>11, <1>12, StepCases
-----------------------------------------------------------------------------
(* The client hears of a user before that user's closure runs.             *)
LEMMA NextNoticeGoesFirst == IInv /\ [Next]_vars => NoticeGoesFirst'
<1> SUFFICES ASSUME IInv, [Next]_vars PROVE NoticeGoesFirst'
  OBVIOUS
<1>0. TypeIInv /\ TypeOK /\ NoticeGoesFirst
  BY DEF IInv, TypeIInv, QueueIInv
<1> USE DEF NoticeGoesFirst, DueBlock
<1>1. UNCHANGED <<main, fsUser>> => NoticeGoesFirst'
  BY <1>0
<1>2. ASSUME NEW u \in Users, SignsIn(u) PROVE NoticeGoesFirst'
  <2>1. PICK ask \in {"signIn", "create"} :
          /\ Len(main) \in Nat
          /\ DOMAIN main' = DOMAIN main \cup {Len(main) + 1, Len(main) + 2}
          /\ DOMAIN main = 1 .. Len(main)
          /\ \A i \in DOMAIN main : main'[i] = main[i]
          /\ main'[Len(main) + 1] = [run |-> "notice", user |-> u]
          /\ main'[Len(main) + 2] = [run |-> ask, user |-> u]
    BY <1>0, <1>2, SignInBlocks
  <2>2. fsUser' = fsUser
    BY <1>2 DEF SignsIn, clientVars
  <2>3. ASSUME NEW i \in DOMAIN main', main'[i].run # "notice"
        PROVE  IF i = 1 THEN fsUser'[Device] = main'[1].user
               ELSE main'[i - 1] = [run |-> "notice", user |-> main'[i].user]
    <3>1. CASE i \in DOMAIN main
      <4>1. i # 1 => i - 1 \in DOMAIN main
        BY <2>1, <3>1
      <4> QED
        BY <1>0, <2>1, <2>2, <2>3, <3>1, <4>1
    <3>2. CASE i = Len(main) + 1
      <4>1. main'[i] = [run |-> "notice", user |-> u]
        BY <2>1, <3>2
      <4> QED
        BY <2>3, <4>1
    <3>3. CASE i = Len(main) + 2
      <4>1. i # 1 /\ i - 1 = Len(main) + 1
        BY <2>1, <3>3
      <4> QED
        BY <2>1, <3>3, <4>1
    <3> QED
      BY <2>1, <2>3, <3>1, <3>2, <3>3
  <2> QED
    BY <2>3
<1>3. CASE SignsOut
  <2>1. fsUser' = fsUser
    BY <1>3 DEF SignsOut, clientVars
  <2>2. CASE main' = main
    BY <1>1, <2>1, <2>2
  <2>3. CASE /\ DOMAIN main' = DOMAIN main \cup {Len(main) + 1}
             /\ \A i \in DOMAIN main : main'[i] = main[i]
             /\ main'[Len(main) + 1] = [run |-> "notice", user |-> NoUser]
    <3>1. \A i \in DOMAIN main : i # 1 => i - 1 \in DOMAIN main
      BY <1>0 DEF TypeOK
    <3> QED
      BY <1>0, <2>1, <2>3, <3>1
  <2> QED
    BY <1>0, <1>3, <2>2, <2>3, SignOutBlocks
<1>4. ASSUME NEW run, NextBlock(run),
             run = "notice" => fsUser'[Device] = main[1].user,
             run # "notice" => fsUser' = fsUser
      PROVE  NoticeGoesFirst'
  <2>1. /\ main[1].run = run
        /\ \A i \in DOMAIN main' : i + 1 \in DOMAIN main /\ main'[i] = main[i + 1] /\ i \in Nat \ {0}
    BY <1>0, <1>4, BlockTaken
  <2>2. ASSUME NEW i \in DOMAIN main', main'[i].run # "notice"
        PROVE  IF i = 1 THEN fsUser'[Device] = main'[1].user
               ELSE main'[i - 1] = [run |-> "notice", user |-> main'[i].user]
    <3>1. /\ i + 1 \in DOMAIN main /\ i + 1 # 1 /\ (i + 1) - 1 = i
          /\ main[i + 1].run # "notice"
      BY <2>1, <2>2
    <3>2. main[i] = [run |-> "notice", user |-> main'[i].user]
      BY <1>0, <2>1, <2>2, <3>1
    <3>3. CASE i = 1
      BY <1>4, <2>1, <3>2, <3>3
    <3>4. CASE i # 1
      <4>1. i - 1 \in DOMAIN main' /\ (i - 1) + 1 = i
        <5>1. main' \in Seq(Blocks) /\ i \in Nat \ {0}
          BY <1>0, <1>4, <2>1, BlockTaken
        <5> QED
          BY <3>4, <5>1
      <4>2. main'[i - 1] = main[i]
        BY <2>1, <4>1
      <4> QED
        BY <3>2, <3>4, <4>2
    <3> QED
      BY <3>3, <3>4
  <2> QED
    BY <2>2
<1>5. CASE AuthStateChanged
  <2>1. NextBlock("notice") /\ fsUser' = [fsUser EXCEPT ![Device] = main[1].user]
    BY <1>0, <1>5, BlockTaken DEF AuthStateChanged, HandleCredentialChange
  <2>2. fsUser'[Device] = main[1].user
    BY <1>0, <2>1, QueueTypes
  <2> QED
    BY <1>4, <2>1, <2>2
<1>6. CASE TransferToSearchVC
  BY <1>4, <1>6 DEF TransferToSearchVC, clientVars
<1>7. CASE StoreUser
  BY <1>4, <1>7 DEF StoreUser, WriteMutations
<1>8. CASE Restart
  BY <1>8 DEF Restart
<1>9. CASE Commit \/ WriteAcknowledged \/ WriteRejected \/ StreamClosed
  BY <1>1, <1>9 DEF Commit, CommitWrite, WriteAcknowledged, HandleSuccessfulWrite, WriteRejected,
                    HandleRejectedWrite, StreamClosed, OnWriteStreamClose, requestVars
<1>10. CASE Asks \/ (\E r \in waiting : RequestFailed(r)) \/ UNCHANGED vars
  BY <1>1, <1>10 DEF Asks, RequestFailed, vars, clientVars, requestVars
<1> QED
  BY <1>0, <1>2, <1>3, <1>5, <1>6, <1>7, <1>8, <1>9, <1>10, StepCases

(* A profile is queued in the name of its owner, sent and acknowledged     *)
(* from the front.                                                         *)
StoredIs(u) ==
  /\ u = main[1].user /\ u = fsUser[Device] /\ u \in Users
  /\ main[1] = [run |-> "create", user |-> u]
  /\ UNCHANGED <<fsUser, inflight>>
  /\ Q(u)' = Append(Q(u), u) /\ \A v \in Signers \ {u} : Q(v)' = Q(v)
  /\ heard' = heard \cup {u}
  /\ UNCHANGED <<page, authUser, accounts, profiles, fbToken, restored, cut, excused>>

LEMMA StoreUserFacts ==
  ASSUME IInv, StoreUser
  PROVE  \E u \in Users : StoredIs(u)
<1>0. TypeIInv /\ TypeOK /\ NoticeGoesFirst /\ ProfilesHaveAccounts
  BY DEF IInv, TypeIInv, QueueIInv
<1>1. NextBlock("create") /\ Head(main) = main[1] /\ 1 \in DOMAIN main /\ main[1].run = "create"
  BY <1>0, BlockTaken DEF StoreUser
<1>2. PICK u \in Users : u = main[1].user
  BY <1>0, <1>1 DEF ProfilesHaveAccounts, TypeOK, Emails
<1>3. u = fsUser[Device]
  BY <1>0, <1>1, <1>2 DEF NoticeGoesFirst, DueBlock
<1>4. main[1] = [run |-> "create", user |-> u]
  <2>1. main[1] \in Blocks
    BY <1>0, <1>1 DEF TypeOK
  <2> QED
    BY <1>1, <1>2, <2>1 DEF Blocks
<1>5. /\ WriteMutations(Device, u) /\ heard' = heard \cup {u}
      /\ UNCHANGED <<page, authUser, accounts, profiles, fbToken, restored, cut, excused>>
  BY <1>1, <1>2 DEF StoreUser, providerVars, historyVars
<1>6. /\ UNCHANGED <<fsUser, inflight>>
      /\ Q(fsUser[Device])' = Append(Q(fsUser[Device]), u)
      /\ \A v \in Signers \ {fsUser[Device]} : Q(v)' = Q(v)
  BY <1>0, <1>5, QueueAppended
<1>7. Q(u)' = Append(Q(u), u) /\ \A v \in Signers \ {u} : Q(v)' = Q(v)
  BY <1>3, <1>6 DEF Q
<1> QED
  BY <1>2, <1>3, <1>4, <1>5, <1>6, <1>7 DEF StoredIs

AnsweredIs(c, u) ==
  /\ c = fsUser[Device] /\ c \in Signers /\ fsUser' = fsUser
  /\ Q(c) \in Seq(Users) /\ Q(c) # << >> /\ u = Q(c)[1]
  /\ Q(c)' = Tail(Q(c)) /\ \A v \in Signers \ {c} : Q(v)' = Q(v)
  /\ heard' = heard \ {u} /\ accounts' = accounts /\ profiles' = profiles
  /\ UNCHANGED <<authUser, main, fbToken, restored, excused>>
  /\ \/ /\ WriteAcknowledged /\ inflight[Device] > 0 /\ inflight'[Device] = inflight[Device] - 1
        /\ cut' = cut /\ page' = IF u \in heard THEN "inside" ELSE page
     \/ /\ WriteRejected /\ inflight[Device] = 0 /\ inflight'[Device] = 0
        /\ cut' = cut \cup {u} /\ page' = page

LEMMA AnswerFacts ==
  ASSUME IInv, WriteAcknowledged \/ WriteRejected
  PROVE  \E c \in Signers : \E u \in Users : AnsweredIs(c, u)
<1>0. TypeIInv /\ TypeOK
  BY DEF IInv, TypeIInv
<1>1. RemoveFront(Device) /\ fsUser' = fsUser
  BY DEF WriteAcknowledged, WriteRejected, HandleSuccessfulWrite, HandleRejectedWrite
<1>2. Current(Device) # << >>
  <2>1. inflight[Device] > 0 \/ Current(Device) # << >>
    BY DEF WriteAcknowledged, WriteRejected, HandleSuccessfulWrite, HandleRejectedWrite
  <2> QED
    BY <1>0, <2>1, CurrentTypes DEF TypeIInv, PipelineInQueue
<1>3. PICK c \in Signers : c = fsUser[Device]
  BY <1>0, QueueTypes
<1>4. PICK u \in Users : u = Head(Current(Device))
  BY <1>0, <1>2, AnswerTypes
<1>5. /\ heard' = heard \ {u} /\ accounts' = accounts /\ profiles' = profiles
      /\ UNCHANGED <<authUser, main, fbToken, restored, excused>>
  BY <1>4 DEF WriteAcknowledged, WriteRejected, requestVars, providerVars, historyVars
<1>6. /\ Q(c) \in Seq(Users) /\ Q(c) # << >> /\ u = Q(c)[1]
      /\ inflight \in [Devices -> Nat] /\ Device \in Devices
  BY <1>0, <1>2, <1>3, <1>4, QueueTypes, AnswerTypes
<1>7. \/ /\ WriteAcknowledged /\ inflight[Device] > 0
         /\ inflight' = [inflight EXCEPT ![Device] = inflight[Device] - 1]
         /\ cut' = cut /\ page' = IF u \in heard THEN "inside" ELSE page
      \/ /\ WriteRejected /\ inflight[Device] = 0 /\ inflight' = inflight
         /\ cut' = cut \cup {u} /\ page' = page
  BY <1>4 DEF WriteAcknowledged, WriteRejected, HandleSuccessfulWrite, HandleRejectedWrite,
              historyVars
<1>8. \/ /\ WriteAcknowledged /\ inflight[Device] > 0 /\ inflight'[Device] = inflight[Device] - 1
         /\ cut' = cut /\ page' = IF u \in heard THEN "inside" ELSE page
      \/ /\ WriteRejected /\ inflight[Device] = 0 /\ inflight'[Device] = 0
         /\ cut' = cut \cup {u} /\ page' = page
  BY <1>6, <1>7
<1>9. Q(c)' = Tail(Q(c)) /\ \A v \in Signers \ {c} : Q(v)' = Q(v)
  BY <1>0, <1>1, <1>2, <1>3, QueueRemoved DEF Q
<1> QED
  BY <1>1, <1>3, <1>5, <1>6, <1>8, <1>9 DEF AnsweredIs

LEMMA QuietQueue ==
  ASSUME [Next]_vars, TypeIInv, ~StoreUser, ~WriteAcknowledged, ~WriteRejected
  PROVE  queue' = queue
BY StepCases DEF Asks, SignsIn, RequestFailed, SignsOut, AuthStateChanged, HandleCredentialChange,
   TransferToSearchVC, Commit, CommitWrite, StreamClosed, OnWriteStreamClose, Restart,
   RestartClient, vars, clientVars

LEMMA NextProfileIsOwn == IInv /\ [Next]_vars => ProfileIsOwn'
<1> SUFFICES ASSUME IInv, [Next]_vars, NEW v \in Signers, NEW i \in DOMAIN Q(v)'
             PROVE  Q(v)'[i] = v
  BY DEF ProfileIsOwn, Q
<1>0. TypeIInv /\ Q(v) \in Seq(Users) /\ \A j \in DOMAIN Q(v) : Q(v)[j] = v
  BY QueueTypes DEF IInv, TypeIInv, QueueIInv, ProfileIsOwn, Q
<1>1. CASE StoreUser
  <2>1. PICK u \in Users : StoredIs(u)
    BY <1>1, StoreUserFacts
  <2>2. CASE v = u
    BY <1>0, <2>1, <2>2, AppendFacts DEF StoredIs
  <2>3. CASE v # u
    BY <1>0, <2>1, <2>3 DEF StoredIs
  <2> QED
    BY <2>2, <2>3
<1>2. CASE WriteAcknowledged \/ WriteRejected
  <2>1. PICK c \in Signers, u \in Users : AnsweredIs(c, u)
    BY <1>2, AnswerFacts
  <2>2. CASE v = c
    BY <1>0, <2>1, <2>2, TailFacts DEF AnsweredIs
  <2>3. CASE v # c
    BY <1>0, <2>1, <2>3 DEF AnsweredIs
  <2> QED
    BY <2>2, <2>3
<1>3. CASE queue' = queue
  BY <1>0, <1>3 DEF Q
<1> QED
  BY <1>0, <1>1, <1>2, <1>3, QuietQueue

LEMMA NextCommittedIsWritten == IInv /\ [Next]_vars => CommittedIsWritten'
<1> SUFFICES ASSUME IInv, [Next]_vars, NEW i \in 1 .. inflight'[Device]
             PROVE  Current(Device)'[i] \in profiles'
  BY DEF CommittedIsWritten
<1>0. /\ TypeIInv /\ TypeOK /\ PipelineInQueue
      /\ \A j \in 1 .. inflight[Device] : Current(Device)[j] \in profiles
  BY DEF IInv, TypeIInv, QueueIInv, CommittedIsWritten
<1>1. CASE StoreUser
  <2>1. PICK u \in Users : StoredIs(u)
    BY <1>1, StoreUserFacts
  <2>2. /\ Current(Device)' = Append(Current(Device), u) /\ inflight' = inflight
        /\ profiles' = profiles
    BY <2>1 DEF StoredIs, Current, Q
  <2>3. i \in 1 .. Len(Current(Device)) /\ i \in 1 .. inflight[Device]
    BY <1>0, <2>2, CurrentTypes DEF PipelineInQueue
  <2> QED
    BY <1>0, <2>2, <2>3, CurrentTypes, AppendFacts
<1>2. CASE WriteAcknowledged \/ WriteRejected
  <2>1. PICK c \in Signers, u \in Users : AnsweredIs(c, u)
    BY <1>2, AnswerFacts
  <2>2. /\ Current(Device)' = Tail(Current(Device)) /\ Current(Device) # << >>
        /\ profiles' = profiles
    BY <2>1 DEF AnsweredIs, Current, Q
  <2>3. inflight'[Device] = inflight[Device] - 1
    BY <2>1 DEF AnsweredIs
  <2>4. i + 1 \in 1 .. inflight[Device] /\ i \in DOMAIN Tail(Current(Device))
    <3>1. Len(Tail(Current(Device))) = Len(Current(Device)) - 1
          /\ Tail(Current(Device)) \in Seq(Users)
      BY <1>0, <2>2, CurrentTypes, TailFacts
    <3> QED
      BY <1>0, <2>3, <3>1, CurrentTypes DEF PipelineInQueue
  <2> QED
    BY <1>0, <2>2, <2>4, CurrentTypes, TailFacts
<1>3. CASE Commit
  <2>1. /\ inflight'[Device] = inflight[Device] + 1
        /\ profiles' = profiles \cup {Current(Device)[inflight[Device] + 1]}
        /\ Current(Device)' = Current(Device)
    BY <1>0, <1>3, CommitTypes DEF Current
  <2> QED
    BY <1>0, <2>1, CurrentTypes
<1>4. CASE AuthStateChanged \/ StreamClosed \/ Restart
  <2>1. inflight' = [inflight EXCEPT ![Device] = 0]
    BY <1>4 DEF AuthStateChanged, StreamClosed, Restart, RestartClient, HandleCredentialChange,
                OnWriteStreamClose
  <2> QED
    BY <1>0, <2>1, CurrentTypes
<1>5. CASE UNCHANGED <<fsUser, queue, inflight, profiles>>
  BY <1>0, <1>5 DEF Current
<1> QED
  BY <1>0, <1>1, <1>2, <1>3, <1>4, <1>5, StepCases
     DEF Asks, SignsIn, RequestFailed, SignsOut, TransferToSearchVC, vars, clientVars, profileVars

(* Nothing that follows an account is lost.                                *)
Follows(u) ==
  \/ u \in profiles \cup cut
  \/ \E v \in Signers : \E i \in DOMAIN Q(v) : Q(v)[i] = u
  \/ \E i \in DOMAIN main : main[i] = [run |-> "create", user |-> u]

LEMMA FollowsIs == ProfileFollowsAccount <=> \A u \in accounts : Follows(u)
BY DEF ProfileFollowsAccount, Follows, Queued, Q, Due

LEMMA NextProfileFollows == IInv /\ [Next]_vars => ProfileFollowsAccount'
<1> SUFFICES ASSUME IInv, [Next]_vars, NEW u \in accounts' PROVE Follows(u)'
  BY DEF ProfileFollowsAccount, Follows, Queued, Q, Due
<1>0. /\ TypeIInv /\ TypeOK /\ CommittedIsWritten
      /\ \A x \in accounts : Follows(x)
  BY FollowsIs DEF IInv, TypeIInv, QueueIInv
<1>1. CASE UNCHANGED <<queue, main, accounts>> /\ profiles \subseteq profiles' /\ cut \subseteq cut'
  BY <1>0, <1>1 DEF Follows, Q
<1>2. ASSUME NEW w \in Users, SignsIn(w) PROVE Follows(u)'
  <2>1. PICK ask \in {"signIn", "create"} :
          /\ accounts' = IF ask = "create" THEN accounts \cup {w} ELSE accounts
          /\ DOMAIN main' = DOMAIN main \cup {Len(main) + 1, Len(main) + 2}
          /\ \A i \in DOMAIN main : main'[i] = main[i]
          /\ main'[Len(main) + 2] = [run |-> ask, user |-> w]
    BY <1>0, <1>2, SignInBlocks
  <2>2. UNCHANGED <<queue, profiles, cut>>
    BY <1>2 DEF SignsIn, clientVars, historyVars
  <2>3. CASE u \in accounts
    BY <1>0, <2>1, <2>2, <2>3 DEF Follows, Q
  <2>4. CASE u \notin accounts
    <3>1. ask = "create" /\ u = w
      BY <2>1, <2>4
    <3>2. Len(main) + 2 \in DOMAIN main' /\ main'[Len(main) + 2] = [run |-> "create", user |-> u]
      BY <2>1, <3>1
    <3> QED
      BY <3>2 DEF Follows
  <2> QED
    BY <2>3, <2>4
<1>3. ASSUME NEW r \in waiting, RequestFailed(r) PROVE Follows(u)'
  <2>1. UNCHANGED <<queue, main, profiles>> /\ cut \subseteq cut' /\ (u \in accounts \/ u \in cut')
    BY <1>3 DEF RequestFailed, clientVars
  <2> QED
    BY <1>0, <2>1 DEF Follows, Q
<1>4. CASE SignsOut
  <2>1. UNCHANGED <<queue, profiles, cut, accounts>>
    BY <1>4 DEF SignsOut, clientVars, profileVars
  <2>2. \A i \in DOMAIN main : i \in DOMAIN main' /\ main'[i] = main[i]
    BY <1>0, <1>4, SignOutBlocks
  <2> QED
    BY <1>0, <2>1, <2>2 DEF Follows, Q
<1>5. CASE AuthStateChanged \/ TransferToSearchVC
  <2>1. NextBlock("notice") \/ NextBlock("signIn")
    BY <1>5 DEF AuthStateChanged, TransferToSearchVC
  <2>2. UNCHANGED <<queue, profiles, cut, accounts>>
    BY <1>5 DEF AuthStateChanged, TransferToSearchVC, HandleCredentialChange, clientVars,
                profileVars, historyVars
  <2>3. /\ main[1].run # "create"
        /\ \A i \in DOMAIN main \ {1} : i - 1 \in DOMAIN main' /\ main'[i - 1] = main[i]
    BY <1>0, <2>1, BlockTaken
  <2> QED
    BY <1>0, <2>2, <2>3 DEF Follows, Q
<1>6. CASE StoreUser
  <2>1. PICK w \in Users : StoredIs(w)
    BY <1>6, StoreUserFacts
  <2>2. \A i \in DOMAIN main \ {1} : i - 1 \in DOMAIN main' /\ main'[i - 1] = main[i]
    BY <1>0, <1>6, BlockTaken DEF StoreUser
  <2>3. u \in accounts /\ UNCHANGED <<profiles, cut>> /\ w \in Signers
    BY <2>1 DEF StoredIs, Signers
  <2>4. ASSUME NEW v \in Signers, NEW i \in DOMAIN Q(v)
        PROVE  i \in DOMAIN Q(v)' /\ Q(v)'[i] = Q(v)[i]
    <3>1. Q(v) \in Seq(Users)
      BY <1>0, QueueTypes
    <3>2. CASE v = w
      BY <2>1, <2>4, <3>1, <3>2, AppendFacts DEF StoredIs
    <3>3. CASE v # w
      BY <2>1, <2>4, <3>3 DEF StoredIs
    <3> QED
      BY <3>2, <3>3
  <2>5. \E i \in DOMAIN Q(w)' : Q(w)'[i] = w
    <3>1. Q(w) \in Seq(Users)
      BY <1>0, <2>3, QueueTypes
    <3> QED
      BY <2>1, <3>1, AppendFacts DEF StoredIs
  <2>6. CASE u = w
    BY <2>3, <2>5, <2>6 DEF Follows
  <2>7. CASE u # w
    <3>1. \A i \in DOMAIN main : main[i] = [run |-> "create", user |-> u] => i # 1
      BY <2>1, <2>7 DEF StoredIs
    <3> QED
      BY <1>0, <2>2, <2>3, <2>4, <3>1 DEF Follows
  <2> QED
    BY <2>6, <2>7
<1>7. CASE WriteAcknowledged \/ WriteRejected
  <2>1. PICK c \in Signers, w \in Users : AnsweredIs(c, w)
    BY <1>7, AnswerFacts
  <2>2. UNCHANGED <<main, accounts, profiles>> /\ cut \subseteq cut' /\ (w \in profiles \/ w \in cut')
    <3>1. inflight[Device] > 0 => w \in profiles
      <4>1. Current(Device)[1] = w /\ inflight[Device] \in Nat
        BY <1>0, <2>1, CurrentTypes DEF AnsweredIs, Current, Q
      <4> QED
        BY <1>0, <4>1 DEF CommittedIsWritten
    <3> QED
      BY <2>1, <3>1 DEF AnsweredIs
  <2>3. CASE u = w
    BY <2>2, <2>3 DEF Follows
  <2>4. CASE u # w
    <3>1. ASSUME NEW v \in Signers, NEW i \in DOMAIN Q(v), Q(v)[i] = u
          PROVE  \E j \in DOMAIN Q(v)' : Q(v)'[j] = u
      <4>1. CASE v = c
        <5>1. i # 1
          BY <2>1, <2>4, <3>1, <4>1 DEF AnsweredIs
        <5>2. Q(c) \in Seq(Users) /\ Q(c) # << >> /\ Q(c)' = Tail(Q(c))
          BY <2>1 DEF AnsweredIs
        <5>3. i - 1 \in DOMAIN Tail(Q(c)) /\ Tail(Q(c))[i - 1] = Q(c)[i]
          BY <3>1, <4>1, <5>1, <5>2, TailFacts
        <5> QED
          BY <3>1, <4>1, <5>2, <5>3
      <4>2. CASE v # c
        BY <2>1, <3>1, <4>2 DEF AnsweredIs
      <4> QED
        BY <4>1, <4>2
    <3> QED
      BY <1>0, <2>2, <3>1 DEF Follows
  <2> QED
    BY <2>3, <2>4
<1>8. CASE Restart
  <2>1. UNCHANGED <<queue, profiles, accounts>>
    BY <1>8 DEF Restart, RestartClient, HandleCredentialChange
  <2>2. cut \subseteq cut' /\ \A i \in DOMAIN main : main[i].run = "create" => main[i].user \in cut'
    BY <1>8 DEF Restart, Due
  <2> QED
    BY <1>0, <2>1, <2>2 DEF Follows, Q
<1> QED
  BY <1>0, <1>1, <1>2, <1>3, <1>4, <1>5, <1>6, <1>7, <1>8, StepCases
     DEF Asks, Commit, CommitWrite, StreamClosed, OnWriteStreamClose, vars, clientVars,
         profileVars, requestVars, historyVars
-----------------------------------------------------------------------------
LEMMA QuietPages ==
  PageIInv /\ UNCHANGED <<page, authUser, heard, main, cut, excused, restored>> => PageIInv'
BY DEF PageIInv, PushIsExcused, OutsideIsUnfinished, InsideIsSignedIn, DueBlock

(* Who is signed in, which page is shown and what is still due change      *)
(* together.                                                               *)
LEMMA NextPageIInv == IInv /\ [Next]_vars => PageIInv'
<1> SUFFICES ASSUME IInv, [Next]_vars PROVE PageIInv'
  OBVIOUS
<1>0. TypeIInv /\ TypeOK /\ PageIInv
  BY DEF IInv, TypeIInv
<1>a. NoUser \notin Users
  BY ClientAssumption
<1> USE DEF PageIInv, PushIsExcused, OutsideIsUnfinished, InsideIsSignedIn, DueBlock
<1>1. CASE Asks
  BY <1>0, <1>a, <1>1 DEF Asks, profileVars
<1>2. ASSUME NEW u \in Users, SignsIn(u) PROVE PageIInv'
  <2>1. PICK ask \in {"signIn", "create"} :
          /\ [ask |-> ask, user |-> u] \in waiting
          /\ DOMAIN main' = DOMAIN main \cup {Len(main) + 1, Len(main) + 2}
          /\ main'[Len(main) + 2] = [run |-> ask, user |-> u]
    BY <1>0, <1>2, SignInBlocks
  <2>2. authUser' = u /\ u # NoUser /\ UNCHANGED <<page, heard, cut, excused, restored>>
    BY <1>a, <1>2 DEF SignsIn, historyVars
  <2>3. Len(main) + 2 \in DOMAIN main' /\ main'[Len(main) + 2].run # "notice"
        /\ main'[Len(main) + 2].user = u
    BY <2>1
  <2> QED
    BY <2>2, <2>3
<1>3. ASSUME NEW r \in waiting, RequestFailed(r) PROVE PageIInv'
  BY <1>0, <1>3 DEF RequestFailed, providerVars
<1>4. CASE SignsOut
  <2>1. /\ page' \in {page, "launch"} /\ authUser' = NoUser
        /\ UNCHANGED <<heard, cut, restored>>
        /\ \/ excused'
           \/ /\ page' = "launch" /\ heard = {} /\ \A i \in DOMAIN main : main[i].run = "notice"
    BY <1>4 DEF SignsOut, providerVars, profileVars
  <2>2. (\A i \in DOMAIN main : main[i].run = "notice") =>
          (\A i \in DOMAIN main' : main'[i].run = "notice")
    BY <1>0, <1>4, SignOutBlocks
  <2> QED
    BY <1>a, <2>1, <2>2
<1>5. ASSUME NEW run, NextBlock(run), UNCHANGED <<authUser, cut, excused, restored>>,
             \/ run = "notice" /\ UNCHANGED <<page, heard>>
             \/ run = "signIn" /\ page' = "inside" /\ heard' = heard
             \/ run = "create" /\ page' = page /\ heard' = heard \cup {main[1].user}
      PROVE  PageIInv'
  <2>1. /\ 1 \in DOMAIN main /\ main[1].run = run
        /\ \A i \in DOMAIN main' : i + 1 \in DOMAIN main /\ main'[i] = main[i + 1]
        /\ \A i \in DOMAIN main \ {1} : i - 1 \in DOMAIN main' /\ main'[i - 1] = main[i]
    BY <1>0, <1>5, BlockTaken
  <2>2. (\E i \in DOMAIN main' : main'[i].run # "notice") =>
          (\E i \in DOMAIN main : main[i].run # "notice")
    BY <2>1
  <2>3. ASSUME NEW u, NEW i \in DOMAIN main, main[i].run # "notice", main[i].user = u
        PROVE  \/ i = 1
               \/ \E j \in DOMAIN main' : main'[j].run # "notice" /\ main'[j].user = u
    BY <2>1, <2>3
  <2>4. PushIsExcused'
    BY <1>0, <1>5, <2>1, <2>2
  <2>5. InsideIsSignedIn'
    BY <1>0, <1>5, <2>1
  <2>6. OutsideIsUnfinished'
    <3>1. CASE run = "signIn"
      BY <1>5, <3>1
    <3>2. CASE run # "signIn"
      <4> SUFFICES ASSUME page # "inside", authUser # NoUser,
                          authUser \notin {restored} \cup heard \cup cut
                   PROVE  \/ authUser \in heard'
                          \/ \E j \in DOMAIN main' : main'[j].run # "notice" /\ main'[j].user = authUser
        BY <1>5, <3>2
      <4>1. PICK i \in DOMAIN main : main[i].run # "notice" /\ main[i].user = authUser
        BY <1>0
      <4>2. i = 1 \/ \E j \in DOMAIN main' : main'[j].run # "notice" /\ main'[j].user = authUser
        BY <2>3, <4>1
      <4> QED
        BY <1>5, <2>1, <3>2, <4>1, <4>2
    <3> QED
      BY <3>1, <3>2
  <2> QED
    BY <2>4, <2>5, <2>6
<1>6. CASE AuthStateChanged
  BY <1>5, <1>6 DEF AuthStateChanged, providerVars, profileVars, historyVars
<1>7. CASE TransferToSearchVC
  BY <1>5, <1>7 DEF TransferToSearchVC, providerVars, profileVars, historyVars
<1>8. CASE StoreUser
  <2>1. PICK u \in Users : StoredIs(u)
    BY <1>8, StoreUserFacts
  <2> QED
    BY <1>5, <1>8, <2>1 DEF StoreUser, StoredIs
<1>9. CASE WriteAcknowledged \/ WriteRejected
  <2>1. PICK c \in Signers, u \in Users : AnsweredIs(c, u)
    BY <1>9, AnswerFacts
  <2>2. /\ heard' = heard \ {u} /\ UNCHANGED <<authUser, main, fbToken, restored, excused>>
        /\ \/ cut' = cut /\ page' = IF u \in heard THEN "inside" ELSE page
           \/ cut' = cut \cup {u} /\ page' = page
    BY <2>1 DEF AnsweredIs
  <2> QED
    BY <1>0, <2>2
<1>10. CASE Restart
  BY <1>0, <1>10 DEF Restart, providerVars
<1>11. CASE UNCHANGED <<page, authUser, heard, main, cut, excused, restored>>
  BY <1>0, <1>11, QuietPages
<1> QED
  BY <1>0, <1>1, <1>2, <1>3, <1>4, <1>6, <1>7, <1>8, <1>9, <1>10, <1>11, StepCases
     DEF Commit, StreamClosed, vars, providerVars, profileVars, requestVars, historyVars

LEMMA QuietLogins ==
  LoginIInv /\ UNCHANGED <<authUser, main, fbToken, vouched, refused>> => LoginIInv'
BY DEF LoginIInv, ClosuresAreInOrder, FacebookSessionHasToken, DueBlock

(* A session and a closure have what they came from: a login, or the token *)
(* of Facebook's that is still there.                                      *)
LEMMA NextLoginIInv == IInv /\ [Next]_vars => LoginIInv'
<1> SUFFICES ASSUME IInv, [Next]_vars PROVE LoginIInv'
  OBVIOUS
<1>0. TypeIInv /\ TypeOK /\ RequestsAreInOrder /\ LoginIInv
  BY DEF IInv, TypeIInv
<1>a. NoUser \notin Facebook
  BY ClientAssumption, SessionAssumption
<1>b. \A i \in DOMAIN main : DueBlock(i) => main[i].user \in Pending
  BY DEF Pending, Due, DueBlock
<1> USE DEF LoginIInv, ClosuresAreInOrder, FacebookSessionHasToken, DueBlock
<1>1. CASE Asks
  <2>1. UNCHANGED <<authUser, main>> /\ vouched \subseteq vouched'
    BY <1>1 DEF Asks
  <2>2. CASE (fbToken' = fbToken /\ refused' = refused) \/ refused'
    BY <1>0, <2>1, <2>2
  <2>3. CASE fbToken = NoUser /\ (refused => ~Leftover)
    <3>1. authUser \notin Facebook
      BY <1>0, <1>a, <2>3 DEF Leftover
    <3>2. \A i \in DOMAIN main : DueBlock(i) => main[i].user \notin Facebook
      BY <1>0, <1>a, <1>b, <2>3 DEF Leftover
    <3> QED
      BY <1>0, <2>1, <3>1, <3>2
  <2> QED
    BY <1>1, <2>2, <2>3 DEF Asks
<1>2. ASSUME NEW u \in Users, SignsIn(u) PROVE LoginIInv'
  <2>1. PICK ask \in {"signIn", "create"} :
          /\ [ask |-> ask, user |-> u] \in waiting
          /\ DOMAIN main' = DOMAIN main \cup {Len(main) + 1, Len(main) + 2}
          /\ \A i \in DOMAIN main : main'[i] = main[i]
          /\ main'[Len(main) + 1] = [run |-> "notice", user |-> u]
          /\ main'[Len(main) + 2] = [run |-> ask, user |-> u]
    BY <1>0, <1>2, SignInBlocks
  <2>2. authUser' = u /\ UNCHANGED <<fbToken, vouched, refused>>
    BY <1>2 DEF SignsIn, providerVars, historyVars
  <2>3. /\ ask = "signIn" => u \in vouched \cup Facebook
        /\ u \in Facebook => u = fbToken \/ refused
    BY <1>0, <2>1 DEF RequestsAreInOrder
  <2>4. FacebookSessionHasToken'
    BY <2>2, <2>3
  <2>5. ASSUME NEW i \in DOMAIN main', DueBlock(i)'
        PROVE  /\ main'[i].run = "signIn" => main'[i].user \in vouched' \cup Facebook
               /\ main'[i].user \in Facebook => main'[i].user = fbToken' \/ refused'
    <3>1. CASE i \in DOMAIN main
      BY <1>0, <2>1, <2>2, <2>5, <3>1
    <3>2. CASE i = Len(main) + 1
      BY <2>1, <2>5, <3>2
    <3>3. CASE i = Len(main) + 2
      BY <2>1, <2>2, <2>3, <3>3
    <3> QED
      BY <2>1, <3>1, <3>2, <3>3
  <2> QED
    BY <2>4, <2>5
<1>3. CASE SignsOut
  <2>1. /\ authUser' = NoUser /\ vouched \cap Pending \subseteq vouched'
        /\ UNCHANGED <<fbToken, refused>>
    BY <1>3 DEF SignsOut, providerVars
  <2>2. \A i \in DOMAIN main' : DueBlock(i)' => i \in DOMAIN main /\ main'[i] = main[i]
    BY <1>0, <1>3, SignOutBlocks
  <2> QED
    BY <1>0, <1>a, <1>b, <2>1, <2>2
<1>4. CASE AuthStateChanged \/ TransferToSearchVC \/ StoreUser
  <2>1. PICK run \in {"notice", "signIn", "create"} : NextBlock(run)
    BY <1>4 DEF AuthStateChanged, TransferToSearchVC, StoreUser
  <2>2. UNCHANGED <<authUser, fbToken, vouched, refused>>
    BY <1>4 DEF AuthStateChanged, TransferToSearchVC, StoreUser, providerVars, historyVars
  <2>3. \A i \in DOMAIN main' : i + 1 \in DOMAIN main /\ main'[i] = main[i + 1]
    BY <1>0, <2>1, BlockTaken
  <2> QED
    BY <1>0, <2>2, <2>3
<1>5. CASE Restart
  <2>1. main' = << >> /\ UNCHANGED <<authUser, fbToken, refused>>
    BY <1>5 DEF Restart, providerVars
  <2> QED
    BY <1>0, <2>1
<1>6. CASE UNCHANGED <<authUser, main, fbToken, vouched, refused>>
  BY <1>0, <1>6, QuietLogins
<1> QED
  BY <1>0, <1>1, <1>2, <1>3, <1>4, <1>5, <1>6, StepCases
     DEF RequestFailed, Commit, WriteAcknowledged, WriteRejected, StreamClosed, vars,
         requestVars, providerVars, historyVars

LEMMA InvariantHolds == Spec => []IInv
<1>1. IInv /\ [Next]_vars => IInv'
  BY NextTypeIInv, NextNoticeGoesFirst, NextCommittedIsWritten, NextProfileIsOwn,
     NextProfileFollows, NextPageIInv, NextLoginIInv DEF IInv, QueueIInv
<1> QED
  BY <1>1, InitIInv, PTL DEF Spec
-----------------------------------------------------------------------------
(* The variables of the session keep to their types.                       *)
THEOREM TypeCorrect == Spec => []TypeOK
BY InvariantHolds, PTL DEF IInv, TypeIInv

(* A page behind the login is shown to nobody only after a forced sign-out *)
(* or one that a closure overtook (transferToSearchVC).                    *)
THEOREM InsideAlwaysSignedIn == Spec => []InsideIsSignedIn
BY InvariantHolds, PTL DEF IInv, PageIInv

(* An account that was made has its profile, is about to, or has lost it   *)
(* to one of the named failures (SignUpViewController, storeUser).         *)
THEOREM ProfileAlwaysFollows == Spec => []ProfileFollowsAccount
BY InvariantHolds, PTL DEF IInv, QueueIInv

(* The backend sees a profile written by its owner: the closure of a       *)
(* sign-up runs only when the client has heard of its user.                *)
THEOREM ProfileAlwaysOwn == Spec => []ProfileIsOwn
BY InvariantHolds, PTL DEF IInv, QueueIInv

(* A Facebook user is signed in only while Facebook's token is theirs,     *)
(* unless the server refused one (validateReauthentication, clearToken).   *)
THEOREM FacebookAlwaysHasToken == Spec => []FacebookSessionHasToken
BY InvariantHolds, PTL DEF IInv, LoginIInv

(* Nobody is taken to the search page without a login since the last       *)
(* sign-out, but by way of a Facebook token that was kept                  *)
(* (transferToSearchVC).                                                   *)
THEOREM OnlyFacebookEverSkips == Spec => []OnlyFacebookSkipsLogin
<1>1. IInv => OnlyFacebookSkipsLogin
  BY DEF IInv, LoginIInv, ClosuresAreInOrder, DueBlock, OnlyFacebookSkipsLogin
<1> QED
  BY <1>1, InvariantHolds, PTL

(* Whom the login page finds signed in was restored with the process, or   *)
(* is not finished.                                                        *)
THEOREM FoundAlwaysExplained == Spec => FoundIsRestoredOrUnfinished
<1> DEFINE A == (OpenLogin /\ authUser # NoUser) =>
                   \/ authUser \in {restored} \cup heard \cup cut
                   \/ \E i \in Due : main[i].user = authUser
<1>1. IInv => A
  BY DEF IInv, PageIInv, OutsideIsUnfinished, OpenLogin, Due, DueBlock
<1>2. IInv /\ [Next]_vars => [A]_vars
  BY <1>1
<1> QED
  BY <1>2, InvariantHolds, PTL DEF Spec, FoundIsRestoredOrUnfinished
=============================================================================

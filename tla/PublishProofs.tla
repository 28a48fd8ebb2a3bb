---------------------------- MODULE PublishProofs ----------------------------
(***************************************************************************)
(* Proofs about Publish, and Travelers, which extends it, for every set of *)
(* devices, users, names and taps.  The inductive invariant adds to the    *)
(* properties what links a write on its way to the publication that made   *)
(* it and to the document it is for.                                       *)
(***************************************************************************)
EXTENDS Travelers, TLAPS

(* The pipeline holds a prefix of the current user's queue. *)
PipelineInQueue == \A d \in Devices : inflight[d] <= Len(Current(d))

(* The uid an author is written for is known once it has been read.        *)
AuthorKnown ==
  /\ \A p \in Pubs :
       /\ phase[p] \in {"unused", "info", "stored"} => author[p] = NoUser
       /\ phase[p] \in {"reading", "author", "named", "published"} =>
            author[p] \in Users
  /\ \A d \in Devices, u \in Signers : \A i \in DOMAIN queue[d][u] :
       queue[d][u][i].kind = "author" => author[queue[d][u][i].pub] \in Users

HasInfo(p) == blogs[InfoKey(p)].info # NoPub

(* The four fields of a publication are in place from the commit of its    *)
(* first write on, its own or those of one that came after it.             *)
InfoStored ==
  /\ \A p \in Pubs :
       phase[p] \in {"stored", "reading", "author", "named", "published"} =>
         HasInfo(p)
  /\ \A d \in Devices, u \in Signers : \A i \in DOMAIN queue[d][u] :
       queue[d][u][i].kind = "author" => HasInfo(queue[d][u][i].pub)
  /\ \A d \in Devices : \A i \in 1 .. inflight[d] :
       Current(d)[i].kind = "info" => HasInfo(Current(d)[i].pub)

(* If p's four fields are still the ones stored, its author is there too.  *)
NamedIfCurrent(p) ==
  author[p] = post[p].uid =>
    LET doc == blogs[InfoKey(p)] IN doc.info = p => Complete(doc)

(* It holds from the commit of the second write on.                        *)
NamedInFlight ==
  \A d \in Devices : \A i \in 1 .. inflight[d] :
    LET m == Current(d)[i] IN
    (m.kind = "author" /\ phase[m.pub] = "author") => NamedIfCurrent(m.pub)

NamedOnceAcknowledged ==
  \A p \in Pubs : phase[p] \in {"named", "published"} => NamedIfCurrent(p)

IInv ==
  /\ TypeOK
  /\ QueuedOnce
  /\ PipelineInQueue
  /\ AuthorKnown
  /\ InfoStored
  /\ NamedInFlight
  /\ NamedOnceAcknowledged
  /\ OrphanOnlyAfterSwitch
  /\ AuthorOwnsBlog
-----------------------------------------------------------------------------
LEMMA InitTypeOK == Init => TypeOK
<1> SUFFICES ASSUME Init PROVE TypeOK
  OBVIOUS
<1> USE ClientAssumption, PublishAssumption
<1>1. ClientTypeOK(Mutations)
  BY DEF Init, ClientInit, ClientTypeOK, Signers
<1>2. Posts # {}
  <2>1. PICK d \in Devices, n \in Names, u \in Users : TRUE
    BY DEF PublishAssumption
  <2>2. [device |-> d, name |-> n, uid |-> u] \in Posts
    BY <2>1 DEF Posts
  <2> QED BY <2>2
<1>3. (CHOOSE b \in Posts : TRUE) \in Posts
  BY <1>2
<1>4. blogs \in [Keys -> Docs]
  BY DEF Init, Absent, Docs, Signers
<1> QED
  BY <1>1, <1>3, <1>4 DEF Init, TypeOK, Signers, Phases, PublishAssumption

LEMMA MaySwitchType ==
  ASSUME NEW d \in Devices, switches \in [Devices -> 0 .. MaxSwitches], MaySwitch(d)
  PROVE  switches' \in [Devices -> 0 .. MaxSwitches]
<1>1. switches[d] + 1 \in 0 .. MaxSwitches
  BY PublishAssumption DEF MaySwitch, PublishAssumption
<1> QED
  BY <1>1 DEF MaySwitch

LEMMA UpdateCurrentUserType ==
  ASSUME NEW d \in Devices, NEW u \in Signers, UpdateCurrentUser(d, u),
         authUser \in [Devices -> Signers], notices \in [Devices -> Seq(Signers)]
  PROVE  /\ authUser' \in [Devices -> Signers]
         /\ notices' \in [Devices -> Seq(Signers)]
<1>1. Append(notices[d], u) \in Seq(Signers)
  OBVIOUS
<1> QED
  BY <1>1 DEF UpdateCurrentUser

(* The steps that leave the publications and the blogs alone.              *)
LEMMA SessionTypeOK ==
  ASSUME TypeOK, NEW d \in Devices, Session(d) PROVE TypeOK'
<1> USE DEF TypeOK, ClientTypeOK, clientVars, pubVars
<1>1. ASSUME NEW u \in Users, LoginTapped(d, u) PROVE TypeOK'
  <2>1. switches' \in [Devices -> 0 .. MaxSwitches]
    BY <1>1, MaySwitchType DEF LoginTapped
  <2>2. signingIn[d] \cup {u} \in SUBSET Users
    OBVIOUS
  <2>3. signingIn' \in [Devices -> SUBSET Users]
    BY <1>1, <2>2 DEF LoginTapped
  <2> QED
    BY <1>1, <2>1, <2>3 DEF LoginTapped
<1>2. ASSUME NEW u \in Users, SignInAnswered(d, u) PROVE TypeOK'
  <2>1. signingIn[d] \ {u} \in SUBSET Users
    OBVIOUS
  <2>2. signingIn' \in [Devices -> SUBSET Users]
    BY <1>2, <2>1 DEF SignInAnswered
  <2>3. authUser' \in [Devices -> Signers] /\ notices' \in [Devices -> Seq(Signers)]
    BY <1>2, UpdateCurrentUserType DEF SignInAnswered, Signers
  <2> QED
    BY <1>2, <2>2, <2>3 DEF SignInAnswered
<1>3. CASE AuthStateChanged(d)
  BY <1>3 DEF AuthStateChanged, HandleCredentialChange
<1>4. CASE AlreadyLoggedIn(d)
  BY <1>4 DEF AlreadyLoggedIn
<1>5. CASE UserProfileButtonTapped(d)
  <2>1. switches' \in [Devices -> 0 .. MaxSwitches]
    BY <1>5, MaySwitchType DEF UserProfileButtonTapped
  <2>2. authUser' \in [Devices -> Signers] /\ notices' \in [Devices -> Seq(Signers)]
    BY <1>5, UpdateCurrentUserType DEF UserProfileButtonTapped, Signers
  <2> QED
    BY <1>5, <2>1, <2>2 DEF UserProfileButtonTapped
<1>6. CASE SignOutByForce(d)
  <2>1. switches' \in [Devices -> 0 .. MaxSwitches]
    BY <1>6, MaySwitchType DEF SignOutByForce
  <2>2. authUser' \in [Devices -> Signers] /\ notices' \in [Devices -> Seq(Signers)]
    BY <1>6, UpdateCurrentUserType DEF SignOutByForce, Signers
  <2> QED
    BY <1>6, <2>1, <2>2 DEF SignOutByForce
<1>7. CASE UrlSaved(d)
  BY <1>7 DEF UrlSaved
<1> QED
  BY <1>1, <1>2, <1>3, <1>4, <1>5, <1>6, <1>7 DEF Session

LEMMA RestartTypeOK ==
  ASSUME TypeOK, NEW d \in Devices, Restart(d) PROVE TypeOK'
<1> USE DEF TypeOK, ClientTypeOK
<1>1. phase' \in [Pubs -> Phases]
  BY DEF Restart, Phases, Settled
<1> QED
  BY <1>1 DEF Restart, RestartClient, HandleCredentialChange

(* The client's steps, whatever they do to the publications.               *)
LEMMA AppendType ==
  ASSUME NEW d \in Devices, NEW m \in Mutations, ClientTypeOK(Mutations),
         WriteMutations(d, m)
  PROVE  ClientTypeOK(Mutations)'
<1> USE DEF ClientTypeOK
<1>1. Append(queue[d][fsUser[d]], m) \in Seq(Mutations)
  OBVIOUS
<1>2. [queue[d] EXCEPT ![fsUser[d]] = Append(@, m)] \in [Signers -> Seq(Mutations)]
  BY <1>1
<1> QED
  BY <1>2 DEF WriteMutations

LEMMA RemoveFrontType ==
  ASSUME NEW d \in Devices, ClientTypeOK(Mutations), Current(d) # << >>,
         RemoveFront(d)
  PROVE  /\ queue' \in [Devices -> [Signers -> Seq(Mutations)]]
         /\ Head(Current(d)) \in Mutations
<1> USE DEF ClientTypeOK, Current
<1>1. Tail(queue[d][fsUser[d]]) \in Seq(Mutations)
  OBVIOUS
<1>2. [queue[d] EXCEPT ![fsUser[d]] = Tail(@)] \in [Signers -> Seq(Mutations)]
  BY <1>1
<1>3. Head(Current(d)) \in Mutations
  OBVIOUS
<1> QED
  BY <1>2, <1>3 DEF RemoveFront

LEMMA AppendFacts ==
  ASSUME TypeOK, NEW d \in Devices, NEW m \in Mutations, WriteMutations(d, m)
  PROVE  /\ \A e \in Devices, v \in Signers : \A i \in DOMAIN queue[e][v] :
              i \in DOMAIN queue'[e][v] /\ queue'[e][v][i] = queue[e][v][i]
         /\ \A e \in Devices, v \in Signers : \A i \in DOMAIN queue'[e][v] :
              i \notin DOMAIN queue[e][v] =>
                /\ e = d /\ v = fsUser[d] /\ i = Len(queue[d][v]) + 1
                /\ queue'[e][v][i] = m
<1> USE DEF TypeOK, ClientTypeOK
<1> DEFINE q == queue[d][fsUser[d]]
<1>1. q \in Seq(Mutations)
  OBVIOUS
<1>2. /\ DOMAIN Append(q, m) = 1 .. Len(q) + 1 /\ DOMAIN q = 1 .. Len(q)
      /\ Append(q, m)[Len(q) + 1] = m
      /\ \A i \in 1 .. Len(q) : Append(q, m)[i] = q[i]
  BY <1>1
<1>3. /\ queue'[d][fsUser[d]] = Append(q, m)
      /\ \A e \in Devices, v \in Signers :
           (e # d \/ v # fsUser[d]) => queue'[e][v] = queue[e][v]
  BY DEF WriteMutations
<1>4. Len(q) \in Nat
  BY <1>1
<1> HIDE DEF q, TypeOK, ClientTypeOK
<1>5. \A i \in 1 .. Len(q) : i \in 1 .. Len(q) + 1
  BY <1>4, SMTT(20)
<1>6. \A i \in 1 .. Len(q) + 1 : i \notin 1 .. Len(q) => i = Len(q) + 1
  BY <1>4, SMTT(20)
<1> QED
  BY ZenonT(30), <1>2, <1>3, <1>5, <1>6 DEF q

LEMMA RemoveFacts ==
  ASSUME TypeOK, NEW d \in Devices, Current(d) # << >>, RemoveFront(d)
  PROVE  /\ Head(Current(d)) = Current(d)[1] /\ 1 \in DOMAIN Current(d)
         /\ Len(queue'[d][fsUser[d]]) = Len(Current(d)) - 1
         /\ \A e \in Devices, v \in Signers :
              (e # d \/ v # fsUser[d]) => queue'[e][v] = queue[e][v]
         /\ \A i \in DOMAIN queue'[d][fsUser[d]] :
              /\ i \in Nat /\ i > 0 /\ i + 1 \in DOMAIN Current(d)
              /\ queue'[d][fsUser[d]][i] = Current(d)[i + 1]
<1> USE DEF TypeOK, ClientTypeOK, Current
<1>1. Current(d) \in Seq(Mutations)
  OBVIOUS
<1>2. /\ queue'[d][fsUser[d]] = Tail(Current(d))
      /\ \A e \in Devices, v \in Signers :
           (e # d \/ v # fsUser[d]) => queue'[e][v] = queue[e][v]
  BY DEF RemoveFront
<1> HIDE DEF Current
<1>3. /\ DOMAIN Tail(Current(d)) = 1 .. Len(Current(d)) - 1
      /\ Len(Tail(Current(d))) = Len(Current(d)) - 1
      /\ DOMAIN Current(d) = 1 .. Len(Current(d))
      /\ Len(Current(d)) \in Nat \ {0}
      /\ Head(Current(d)) = Current(d)[1]
      /\ \A i \in 1 .. Len(Current(d)) - 1 : Tail(Current(d))[i] = Current(d)[i + 1]
  BY <1>1
<1> QED
  BY <1>2, <1>3

LEMMA NotifyUserType ==
  ASSUME phase \in [Pubs -> Phases], NEW m \in Mutations,
         NEW outcome \in {"failed", "stored", "named"}, NotifyUser(m, outcome)
  PROVE  /\ phase' \in [Pubs -> Phases]
         /\ \A p \in Pubs : p # m.pub => phase'[p] = phase[p]
         /\ phase'[m.pub] = IF phase[m.pub] = m.kind THEN outcome ELSE phase[m.pub]
BY DEF NotifyUser, Phases, Active, Settled, Mutations

(* An answer, good or bad: what the two have in common.                    *)
LEMMA AnswerFacts ==
  ASSUME TypeOK, NEW d \in Devices, Answer(d), PipelineInQueue
  PROVE  /\ Current(d) # << >> /\ RemoveFront(d)
         /\ fsUser' = fsUser
         /\ \/ inflight' = inflight /\ inflight[d] = 0
            \/ inflight' = [inflight EXCEPT ![d] = @ - 1] /\ inflight[d] > 0
         /\ UNCHANGED <<sessionVars, post, author, blogs>>
         /\ LET m == Head(Current(d)) IN
            \/ inflight[d] = 0 /\ NotifyUser(m, "failed")
            \/ /\ inflight[d] > 0
               /\ \/ m.kind = "info" /\ NotifyUser(m, "stored")
                  \/ m.kind # "info" /\ NotifyUser(m, "named")
<1> USE DEF TypeOK, ClientTypeOK, Current
<1>1. CASE WriteAcknowledged(d)
  <2>1. Current(d) # << >>
    BY <1>1 DEF WriteAcknowledged, HandleSuccessfulWrite, PipelineInQueue
  <2> QED
    BY <1>1, <2>1 DEF WriteAcknowledged, HandleSuccessfulWrite
<1>2. CASE WriteRejected(d)
  BY <1>2 DEF WriteRejected, HandleRejectedWrite
<1> QED
  BY <1>1, <1>2 DEF Answer

LEMMA MutationTypes ==
  ASSUME NEW p \in Pubs
  PROVE  /\ Info(p) \in Mutations /\ Info(p).pub = p /\ Info(p).kind = "info"
         /\ Author(p) \in Mutations /\ Author(p).pub = p /\ Author(p).kind = "author"
BY DEF Info, Author, Mutations

(* What a commit does: the write it executes is in the current user's      *)
(* queue, and it changes one document.                                     *)
LEMMA CommitFacts ==
  ASSUME TypeOK, NEW d \in Devices, Commit(d)
  PROVE  /\ inflight[d] + 1 \in DOMAIN Current(d)
         /\ NextWrite(d) = Current(d)[inflight[d] + 1]
         /\ NextWrite(d) \in Mutations
         /\ inflight' = [inflight EXCEPT ![d] = @ + 1]
         /\ UNCHANGED <<fsUser, queue, sessionVars, pubVars>>
         /\ blogs' = Applied(NextWrite(d))
<1> USE DEF TypeOK, ClientTypeOK, Current
<1>1. Current(d) \in Seq(Mutations) /\ inflight[d] \in Nat
  OBVIOUS
<1>2. inflight[d] + 1 \in 1 .. Len(Current(d))
  BY <1>1 DEF Commit, CommitWrite, CanCommit
<1>3. Current(d)[inflight[d] + 1] \in Mutations
  BY <1>1, <1>2
<1> QED
  BY <1>1, <1>2, <1>3 DEF Commit, CommitWrite, NextWrite

LEMMA AppliedType ==
  ASSUME TypeOK, NEW m \in Mutations
  PROVE  /\ Applied(m) \in [Keys -> Docs]
         /\ m.kind = "info" => InfoKey(m.pub) \in Keys
         /\ m.kind = "info" =>
              Applied(m) = [blogs EXCEPT ![InfoKey(m.pub)] =
                              [info |-> m.pub, author |-> NoUser]]
         /\ \A k \in Keys : m.kind = "author" =>
              /\ Applied(m)[k].info = blogs[k].info
              /\ Applied(m)[k].author = IF k = AuthorKey(m.pub) THEN author[m.pub]
                                          ELSE blogs[k].author
<1>1. m.pub \in Pubs /\ m.kind \in {"info", "author"}
  BY DEF Mutations
<1>2. InfoKey(m.pub) \in Keys
  BY <1>1 DEF TypeOK, Posts, InfoKey, Keys
<1>3. author[m.pub] \in Signers /\ blogs \in [Keys -> Docs]
  BY <1>1 DEF TypeOK
<1>4. CASE m.kind = "info"
  <2>1. [info |-> m.pub, author |-> NoUser] \in Docs
    BY <1>1 DEF Docs, Signers
  <2> QED
    BY <1>2, <1>3, <1>4, <2>1 DEF Applied, SetInfo, PatchAuthor
<1>5. CASE m.kind = "author"
  <2>1. \A k \in Keys : [blogs[k] EXCEPT !.author = author[m.pub]] \in Docs
    BY <1>3 DEF Docs
  <2>2. Applied(m) = [blogs EXCEPT ![AuthorKey(m.pub)].author = author[m.pub]]
    BY <1>5 DEF Applied, SetInfo, PatchAuthor
  <2> HIDE DEF Applied, SetInfo, PatchAuthor
  <2>3. \A k \in Keys : Applied(m)[k] =
          IF k = AuthorKey(m.pub) THEN [blogs[k] EXCEPT !.author = author[m.pub]]
                                  ELSE blogs[k]
    BY <1>3, <2>2
  <2>4. Applied(m) \in [Keys -> Docs]
    BY <1>3, <2>1, <2>2, <2>3
  <2>5. \A k \in Keys : blogs[k] \in Docs
    BY <1>3
  <2> QED
    BY <1>2, <1>5, <2>3, <2>4, <2>5 DEF Docs
<1> QED
  BY <1>1, <1>4, <1>5

LEMMA NextTypeOK == TypeOK /\ PipelineInQueue /\ [Next]_vars => TypeOK'
<1> SUFFICES ASSUME TypeOK, PipelineInQueue, [Next]_vars PROVE TypeOK'
  OBVIOUS
<1>1. CASE UNCHANGED vars
  BY <1>1 DEF TypeOK, ClientTypeOK, vars, clientVars, sessionVars, pubVars
<1>2. ASSUME NEW d \in Devices, Session(d) PROVE TypeOK'
  BY <1>2, SessionTypeOK
<1>3. ASSUME NEW d \in Devices, Restart(d) PROVE TypeOK'
  BY <1>3, RestartTypeOK
<1>4. ASSUME NEW d \in Devices, NEW p \in Pubs, NEW n \in Names,
             PublishBlogButtonTapped(d, p, n)
      PROVE  TypeOK'
  <2>1. ClientTypeOK(Mutations)'
    BY <1>4, AppendType, MutationTypes DEF TypeOK, PublishBlogButtonTapped
  <2>2. [device |-> d, name |-> n, uid |-> authUser[d]] \in Posts
    BY <1>4 DEF PublishBlogButtonTapped, Posts, TypeOK, Signers
  <2> QED
    BY <1>4, <2>1, <2>2
    DEF PublishBlogButtonTapped, TypeOK, sessionVars, Phases, Active
<1>5. ASSUME NEW p \in Pubs, Callback(p) PROVE TypeOK'
  <2>0. post[p].device \in Devices
    BY DEF TypeOK, Posts
  <2>1. CASE RetrieveFullName(p)
    BY <2>0, <2>1 DEF RetrieveFullName, TypeOK, ClientTypeOK, clientVars,
                      sessionVars, Phases, Active, Settled
  <2>2. CASE ProfileRead(p)
    <3>1. ClientTypeOK(Mutations)'
      BY <2>0, <2>2, AppendType, MutationTypes DEF TypeOK, ProfileRead
    <3> QED
      BY <2>2, <3>1 DEF ProfileRead, TypeOK, sessionVars, Phases, Active
  <2>3. CASE ProfileNotRead(p)
    BY <2>3 DEF ProfileNotRead, TypeOK, ClientTypeOK, clientVars, sessionVars,
                Phases, Settled
  <2>4. CASE TransferToBlogPage(p)
    BY <2>0, <2>4 DEF TransferToBlogPage, TypeOK, ClientTypeOK, clientVars,
                      Phases, Settled
  <2> QED
    BY <1>5, <2>1, <2>2, <2>3, <2>4 DEF Callback
<1>6. ASSUME NEW d \in Devices, Commit(d) PROVE TypeOK'
  <2>1. inflight' \in [Devices -> Nat]
    BY SMTT(30), <1>6, CommitFacts DEF TypeOK, ClientTypeOK
  <2>2. blogs' \in [Keys -> Docs]
    BY ZenonT(30), <1>6, CommitFacts, AppliedType
  <2>3. UNCHANGED <<fsUser, queue, sessionVars, pubVars>>
    BY <1>6, CommitFacts
  <2> QED
    BY <2>1, <2>2, <2>3 DEF TypeOK, ClientTypeOK, sessionVars, pubVars
<1>7. ASSUME NEW d \in Devices, Answer(d) PROVE TypeOK'
  <2>1. /\ queue' \in [Devices -> [Signers -> Seq(Mutations)]]
        /\ Head(Current(d)) \in Mutations
    BY <1>7, AnswerFacts, RemoveFrontType DEF TypeOK
  <2>a. \/ inflight' = inflight /\ inflight[d] = 0
        \/ inflight' = [inflight EXCEPT ![d] = @ - 1] /\ inflight[d] > 0
    BY <1>7, AnswerFacts
  <2>b. inflight \in [Devices -> Nat]
    BY DEF TypeOK, ClientTypeOK
  <2>2. inflight' \in [Devices -> Nat]
    BY <2>a, <2>b
  <2>3. phase' \in [Pubs -> Phases]
    BY <1>7, <2>1, AnswerFacts, NotifyUserType DEF TypeOK
  <2>4. UNCHANGED <<fsUser, sessionVars, post, author, blogs>>
    BY <1>7, AnswerFacts
  <2> QED
    BY <2>1, <2>2, <2>3, <2>4 DEF TypeOK, ClientTypeOK, sessionVars
<1>8. ASSUME NEW d \in Devices, StreamClosed(d) PROVE TypeOK'
  BY <1>8 DEF StreamClosed, OnWriteStreamClose, TypeOK, ClientTypeOK,
              sessionVars, pubVars
<1>9. ASSUME NEW d \in Devices, PublishTraps(d) PROVE TypeOK'
  BY <1>9, RestartTypeOK DEF PublishTraps
<1> QED
  BY <1>1, <1>2, <1>3, <1>4, <1>5, <1>6, <1>7, <1>8, <1>9 DEF Next, Runs, Ends
-----------------------------------------------------------------------------
(* Most steps neither queue, commit nor answer a write: at most they close *)
(* a stream, change its user, or end publications or show their page.      *)
QuietStep ==
  /\ UNCHANGED <<queue, post, author, blogs>>
  /\ \A d \in Devices : \/ inflight'[d] = 0
                        \/ inflight'[d] = inflight[d] /\ fsUser'[d] = fsUser[d]
  /\ \A p \in Pubs : \/ phase'[p] = phase[p]
                     \/ phase[p] \in Active /\ phase'[p] = "lost"
                     \/ phase[p] \in {"stored", "reading"} /\ phase'[p] = "failed"
                     \/ phase[p] = "named" /\ phase'[p] = "published"

LEMMA QuietStepIInv == ASSUME IInv, QuietStep, TypeOK' PROVE IInv'
<1>0. TypeOK
  BY DEF IInv
<1>1. \A d \in Devices, u \in Signers : \A i \in DOMAIN queue[d][u] :
        queue[d][u][i] \in Mutations
  BY <1>0 DEF TypeOK, ClientTypeOK
<1>2. \A d \in Devices, u \in Signers : \A i \in DOMAIN queue[d][u] :
        queue[d][u][i].pub \in Pubs /\ queue[d][u][i].kind \in {"info", "author"}
  BY <1>1 DEF Mutations
<1>3. \A d \in Devices : fsUser[d] \in Signers /\ fsUser'[d] \in Signers
                      /\ inflight[d] \in Nat /\ inflight'[d] \in Nat
  BY <1>0 DEF TypeOK, ClientTypeOK
<1>4. \A d \in Devices : Current(d) \in Seq(Mutations) /\ Len(Current(d)) \in Nat
                      /\ Current(d)' \in Seq(Mutations) /\ Len(Current(d)') \in Nat
                      /\ DOMAIN Current(d) = 1 .. Len(Current(d))
  BY <1>0 DEF TypeOK, ClientTypeOK, Current
<1>5. \A d \in Devices : inflight'[d] # 0 =>
        inflight'[d] = inflight[d] /\ Current(d)' = Current(d)
  BY DEF QuietStep, Current
<1>6. PipelineInQueue'
  <2> SUFFICES ASSUME NEW d \in Devices PROVE inflight'[d] <= Len(Current(d)')
    BY DEF PipelineInQueue
  <2>1. inflight[d] <= Len(Current(d))
    BY DEF IInv, PipelineInQueue
  <2> QED
    BY <2>1, <1>3, <1>4, <1>5
<1>7. \A d \in Devices : \A i \in 1 .. inflight'[d] :
        i \in 1 .. inflight[d] /\ Current(d)' = Current(d)
        /\ i \in DOMAIN Current(d) /\ Current(d)[i] \in Mutations
        /\ Current(d)[i].pub \in Pubs
  <2> SUFFICES ASSUME NEW d \in Devices, NEW i \in 1 .. inflight'[d]
               PROVE  i \in 1 .. inflight[d] /\ Current(d)' = Current(d)
                      /\ i \in DOMAIN Current(d)
                      /\ Current(d)[i] \in Mutations /\ Current(d)[i].pub \in Pubs
    OBVIOUS
  <2>1. inflight'[d] # 0
    BY <1>3
  <2>2. i \in 1 .. Len(Current(d))
    BY <2>1, <1>3, <1>4, <1>5 DEF IInv, PipelineInQueue
  <2>3. inflight'[d] = inflight[d] /\ Current(d)' = Current(d)
    BY <2>1, <1>5
  <2>4. i \in 1 .. inflight[d]
    BY <2>3
  <2>5. i \in DOMAIN Current(d)
    BY <2>2, <1>4
  <2>6. Current(d)[i] \in Mutations
    BY <2>5, <1>1, <1>3 DEF Current
  <2>7. Current(d)[i].pub \in Pubs
    BY <2>6 DEF Mutations
  <2> QED
    BY <2>3, <2>4, <2>5, <2>6, <2>7
<1>8. QueuedOnce'
  <2>1. \A m \in Mutations : phase[m.pub] \in {m.kind, "lost"} =>
                               phase'[m.pub] \in {m.kind, "lost"}
    BY DEF Mutations, QuietStep
  <2> QED
    BY <1>1, <2>1 DEF IInv, QueuedOnce, QuietStep
<1>9. AuthorKnown'
  <2>1. \A p \in Pubs : author'[p] = author[p]
    BY DEF QuietStep
  <2>2. \A p \in Pubs :
          /\ phase'[p] \in {"unused", "info", "stored"} => phase'[p] = phase[p]
          /\ phase'[p] \in {"reading", "author", "named", "published"} =>
               phase[p] \in {"reading", "author", "named", "published"}
    BY DEF QuietStep
  <2> QED
    BY <2>1, <2>2 DEF IInv, AuthorKnown, QuietStep
<1>10. \A p \in Pubs : /\ HasInfo(p) => HasInfo(p)'
                       /\ NamedIfCurrent(p) => NamedIfCurrent(p)'
  BY DEF QuietStep, HasInfo, NamedIfCurrent, InfoKey, Complete
<1>11. InfoStored'
  <2>1. \A p \in Pubs :
          phase'[p] \in {"stored", "reading", "author", "named", "published"} =>
            phase[p] \in {"stored", "reading", "author", "named", "published"}
    BY DEF QuietStep
  <2>2. (\A d \in Devices, u \in Signers : \A i \in DOMAIN queue[d][u] :
           queue[d][u][i].kind = "author" => HasInfo(queue[d][u][i].pub))'
    BY <1>2, <1>10 DEF IInv, InfoStored, QuietStep
  <2>3. (\A d \in Devices : \A i \in 1 .. inflight[d] :
           Current(d)[i].kind = "info" => HasInfo(Current(d)[i].pub))'
    BY <1>7, <1>10 DEF IInv, InfoStored
  <2> QED
    BY <1>10, <2>1, <2>2, <2>3 DEF IInv, InfoStored
<1>12. NamedInFlight'
  <2>1. \A p \in Pubs : phase'[p] = "author" => phase[p] = "author"
    BY DEF QuietStep
  <2> QED
    BY <1>7, <1>10, <2>1 DEF IInv, NamedInFlight
<1>13. NamedOnceAcknowledged'
  <2>1. \A p \in Pubs :
          phase'[p] \in {"named", "published"} => phase[p] \in {"named", "published"}
    BY DEF QuietStep
  <2> QED
    BY <1>10, <2>1 DEF IInv, NamedOnceAcknowledged
<1>14. OrphanOnlyAfterSwitch' /\ AuthorOwnsBlog'
  BY DEF IInv, OrphanOnlyAfterSwitch, AuthorOwnsBlog, QuietStep, AuthorKey
<1> QED
  BY <1>6, <1>8, <1>9, <1>11, <1>12, <1>13, <1>14 DEF IInv

LEMMA QuietDeviceActions ==
  ASSUME IInv, NEW d \in Devices,
         Session(d) \/ Restart(d) \/ PublishTraps(d) \/ StreamClosed(d)
  PROVE  QuietStep
<1>0. TypeOK
  BY DEF IInv
<1> USE DEF clientVars, sessionVars, pubVars
<1>1. CASE Session(d)
  <2>1. CASE AuthStateChanged(d)
    BY <2>1, <1>0 DEF AuthStateChanged, HandleCredentialChange, QuietStep, TypeOK,
                      ClientTypeOK
  <2>2. CASE \/ \E u \in Users : LoginTapped(d, u) \/ SignInAnswered(d, u)
             \/ AlreadyLoggedIn(d) \/ UserProfileButtonTapped(d)
             \/ SignOutByForce(d) \/ UrlSaved(d)
    <3>1. UNCHANGED <<clientVars, pubVars, blogs>>
      BY <2>2 DEF LoginTapped, SignInAnswered, AlreadyLoggedIn,
                  UserProfileButtonTapped, SignOutByForce, UrlSaved
    <3> QED
      BY <3>1 DEF QuietStep
  <2> QED
    BY <1>1, <2>1, <2>2 DEF Session
<1>2. ASSUME Restart(d) PROVE QuietStep
  <2>1. \A e \in Devices : \/ inflight'[e] = 0
                           \/ inflight'[e] = inflight[e] /\ fsUser'[e] = fsUser[e]
    BY <1>0, <1>2 DEF Restart, RestartClient, HandleCredentialChange, TypeOK, ClientTypeOK
  <2>2. \A q \in Pubs : \/ phase'[q] = phase[q]
                        \/ phase[q] \in Active /\ phase'[q] = "lost"
    BY <1>2 DEF Restart
  <2> QED
    BY <1>2, <2>1, <2>2 DEF Restart, RestartClient, HandleCredentialChange, QuietStep
<1>3. CASE PublishTraps(d)
  BY <1>2, <1>3 DEF PublishTraps
<1>4. CASE StreamClosed(d)
  BY <1>0, <1>4 DEF StreamClosed, OnWriteStreamClose, QuietStep, TypeOK, ClientTypeOK
<1> QED
  BY <1>1, <1>2, <1>3, <1>4

LEMMA QuietCallbacks ==
  ASSUME IInv, NEW p \in Pubs, ProfileNotRead(p) \/ TransferToBlogPage(p)
  PROVE  QuietStep
BY DEF IInv, TypeOK, ProfileNotRead, TransferToBlogPage, QuietStep, clientVars

(* The callback of the first write: it only learns whose name to fetch.    *)
LEMMA RetrieveFullNameIInv ==
  ASSUME IInv, NEW p \in Pubs, RetrieveFullName(p), TypeOK' PROVE IInv'
<1>0. TypeOK /\ phase[p] = "stored" /\ author[p] = NoUser /\ NoUser \notin Users
  BY ClientAssumption DEF IInv, RetrieveFullName, AuthorKnown, ClientAssumption
<1>1. /\ UNCHANGED <<fsUser, queue, inflight, post, blogs>>
      /\ \A q \in Pubs : q # p => phase'[q] = phase[q] /\ author'[q] = author[q]
      /\ phase'[p] \in {"failed", "reading"}
      /\ phase'[p] = "reading" => author'[p] \in Users
  <2>1. post[p].device \in Devices
    BY <1>0 DEF TypeOK, Posts
  <2> QED
    BY <1>0, <2>1 DEF RetrieveFullName, TypeOK, clientVars, Signers
<1>2. \A d \in Devices, u \in Signers : \A i \in DOMAIN queue[d][u] :
        /\ queue[d][u][i] \in Mutations /\ queue[d][u][i].pub \in Pubs
        /\ queue[d][u][i].kind \in {"info", "author"}
        /\ queue[d][u][i].pub # p
  <2>1. ASSUME NEW d \in Devices, NEW u \in Signers, NEW i \in DOMAIN queue[d][u]
        PROVE  queue[d][u][i] \in Mutations
    <3>1. queue[d][u] \in Seq(Mutations)
      BY <1>0 DEF TypeOK, ClientTypeOK
    <3> QED BY <3>1
  <2>2. \A d \in Devices, u \in Signers : \A i \in DOMAIN queue[d][u] :
          phase[queue[d][u][i].pub] \in {queue[d][u][i].kind, "lost"}
    BY DEF IInv, QueuedOnce
  <2> QED
    BY <1>0, <2>1, <2>2 DEF Mutations
<1>3. \A d \in Devices : \A i \in 1 .. inflight[d] :
        Current(d)[i].pub \in Pubs \ {p}
  <2> SUFFICES ASSUME NEW d \in Devices, NEW i \in 1 .. inflight[d]
               PROVE  Current(d)[i].pub \in Pubs \ {p}
    OBVIOUS
  <2>1. Current(d) \in Seq(Mutations) /\ fsUser[d] \in Signers /\ inflight[d] \in Nat
    BY <1>0 DEF TypeOK, ClientTypeOK, Current
  <2>2. i \in DOMAIN Current(d)
    BY <2>1 DEF IInv, PipelineInQueue
  <2> QED
    BY <1>2, <2>1, <2>2 DEF Current
<1>4. \A q \in Pubs \ {p} : /\ HasInfo(q) => HasInfo(q)'
                            /\ NamedIfCurrent(q) => NamedIfCurrent(q)'
  BY <1>1 DEF HasInfo, NamedIfCurrent, InfoKey, Complete
<1>5. HasInfo(p) /\ HasInfo(p)'
  BY <1>0, <1>1 DEF IInv, InfoStored, HasInfo, InfoKey
<1>6. QueuedOnce' /\ PipelineInQueue'
  <2>1. QueuedOnce'
    BY <1>1, <1>2 DEF IInv, QueuedOnce
  <2> QED
    BY <2>1, <1>1 DEF IInv, PipelineInQueue, Current
<1>7. AuthorKnown'
  BY <1>0, <1>1, <1>2 DEF IInv, AuthorKnown
<1>8. InfoStored'
  BY <1>1, <1>2, <1>3, <1>4, <1>5 DEF IInv, InfoStored, Current
<1>9. NamedInFlight'
  BY <1>1, <1>3, <1>4 DEF IInv, NamedInFlight, Current
<1>10. NamedOnceAcknowledged'
  BY <1>1, <1>4 DEF IInv, NamedOnceAcknowledged
<1>11. OrphanOnlyAfterSwitch'
  <2> SUFFICES ASSUME NEW k \in Keys, blogs[k].info = NoPub, blogs[k].author # NoUser
               PROVE  \E q \in Pubs : AuthorKey(q)' = k /\ post'[q].uid # k[2]
    BY <1>1 DEF OrphanOnlyAfterSwitch
  <2>1. PICK q \in Pubs : AuthorKey(q) = k /\ post[q].uid # k[2]
    BY DEF IInv, OrphanOnlyAfterSwitch
  <2>2. author[q] \in Users
    BY <2>1 DEF AuthorKey, Keys
  <2>3. q # p
    BY <1>0, <2>2
  <2> QED
    BY <1>1, <2>1, <2>3 DEF AuthorKey
<1>12. AuthorOwnsBlog'
  BY <1>1 DEF IInv, AuthorOwnsBlog
<1> QED
  BY <1>6, <1>7, <1>8, <1>9, <1>10, <1>11, <1>12 DEF IInv

(* Facts about writes on their way that the next three lemmas share.       *)
LEMMA QueuedFacts ==
  ASSUME IInv
  PROVE  /\ \A d \in Devices, u \in Signers : \A i \in DOMAIN queue[d][u] :
              /\ i \in Nat
              /\ queue[d][u][i] \in Mutations /\ queue[d][u][i].pub \in Pubs
              /\ queue[d][u][i].kind \in {"info", "author"}
              /\ phase[queue[d][u][i].pub] \in {queue[d][u][i].kind, "lost"}
         /\ \A d \in Devices :
              /\ fsUser[d] \in Signers /\ inflight[d] \in Nat
              /\ Len(Current(d)) \in Nat /\ inflight[d] <= Len(Current(d))
              /\ DOMAIN Current(d) = 1 .. Len(Current(d))
              /\ \A i \in 1 .. inflight[d] : i \in DOMAIN Current(d)
<1>0. TypeOK
  BY DEF IInv
<1>1. ASSUME NEW d \in Devices, NEW u \in Signers, NEW i \in DOMAIN queue[d][u]
      PROVE  /\ i \in Nat
             /\ queue[d][u][i] \in Mutations /\ queue[d][u][i].pub \in Pubs
             /\ queue[d][u][i].kind \in {"info", "author"}
             /\ phase[queue[d][u][i].pub] \in {queue[d][u][i].kind, "lost"}
  <2>1. queue[d][u] \in Seq(Mutations)
    BY <1>0 DEF TypeOK, ClientTypeOK
  <2>2. queue[d][u][i] \in Mutations /\ i \in Nat
    BY <2>1
  <2>3. phase[queue[d][u][i].pub] \in {queue[d][u][i].kind, "lost"}
    BY DEF IInv, QueuedOnce
  <2> QED
    BY <2>2, <2>3 DEF Mutations
<1>2. ASSUME NEW d \in Devices
      PROVE  /\ fsUser[d] \in Signers /\ inflight[d] \in Nat
             /\ Len(Current(d)) \in Nat /\ inflight[d] <= Len(Current(d))
             /\ DOMAIN Current(d) = 1 .. Len(Current(d))
             /\ \A i \in 1 .. inflight[d] : i \in DOMAIN Current(d)
  <2>1. Current(d) \in Seq(Mutations) /\ fsUser[d] \in Signers /\ inflight[d] \in Nat
    BY <1>0 DEF TypeOK, ClientTypeOK, Current
  <2> QED
    BY <2>1 DEF IInv, PipelineInQueue
<1> QED
  BY <1>1, <1>2

(* A publication queues its first or its second write.                     *)
LEMMA WriteStepIInv ==
  ASSUME IInv, TypeOK', NEW d \in Devices, NEW p \in Pubs, NEW m \in Mutations,
         m.pub = p, WriteMutations(d, m),
         phase' = [phase EXCEPT ![p] = m.kind],
         UNCHANGED <<author, blogs>>,
         \/ m.kind = "info" /\ phase[p] = "unused"
         \/ m.kind = "author" /\ phase[p] = "reading" /\ post' = post,
         \A q \in Pubs : q # p => post'[q] = post[q]
  PROVE  IInv'
<1>0. TypeOK /\ NoUser \notin Users /\ phase \in [Pubs -> Phases]
  BY ClientAssumption DEF IInv, ClientAssumption, TypeOK
<1>1. /\ \A q \in Pubs : q # p => phase'[q] = phase[q]
      /\ phase'[p] = m.kind
      /\ m.kind \in {"info", "author"}
      /\ UNCHANGED <<fsUser, inflight>>
  BY <1>0 DEF WriteMutations, Mutations
<1>2. \A e \in Devices, v \in Signers : \A i \in DOMAIN queue[e][v] :
        /\ i \in DOMAIN queue'[e][v] /\ queue'[e][v][i] = queue[e][v][i]
        /\ queue[e][v][i] \in Mutations
        /\ queue[e][v][i].pub \in Pubs \ {p}
        /\ queue[e][v][i].kind \in {"info", "author"}
        /\ phase[queue[e][v][i].pub] \in {queue[e][v][i].kind, "lost"}
  BY <1>0, AppendFacts, QueuedFacts
<1>3. \A e \in Devices, v \in Signers : \A i \in DOMAIN queue'[e][v] :
        i \notin DOMAIN queue[e][v] =>
          /\ e = d /\ v = fsUser[d] /\ i = Len(queue[d][v]) + 1
          /\ queue'[e][v][i] = m
  BY <1>0, AppendFacts
<1>4. QueuedOnce'
  <2> SUFFICES ASSUME NEW e \in Devices, NEW f \in Devices,
                      NEW u \in Signers, NEW v \in Signers,
                      NEW i \in DOMAIN queue'[e][u], NEW j \in DOMAIN queue'[f][v]
               PROVE  /\ phase'[queue'[e][u][i].pub] \in {queue'[e][u][i].kind, "lost"}
                      /\ queue'[e][u][i] = queue'[f][v][j] => <<e, u, i>> = <<f, v, j>>
    BY DEF QueuedOnce
  <2>1. phase'[queue'[e][u][i].pub] \in {queue'[e][u][i].kind, "lost"}
    BY <1>1, <1>2, <1>3
  <2>2. CASE i \in DOMAIN queue[e][u] /\ j \in DOMAIN queue[f][v]
    BY <2>1, <2>2, <1>2 DEF IInv, QueuedOnce
  <2>3. CASE i \notin DOMAIN queue[e][u] \/ j \notin DOMAIN queue[f][v]
    BY <2>1, <2>3, <1>2, <1>3
  <2> QED
    BY <2>2, <2>3
<1>5. \A e \in Devices : \A i \in 1 .. inflight'[e] :
        /\ i \in 1 .. inflight[e] /\ i \in DOMAIN Current(e)
        /\ Current(e)'[i] = Current(e)[i] /\ Current(e)[i].pub \in Pubs \ {p}
        /\ i \in DOMAIN Current(e)'
  BY <1>1, <1>2, QueuedFacts DEF Current
<1>6. PipelineInQueue'
  <2> SUFFICES ASSUME NEW e \in Devices PROVE inflight'[e] <= Len(Current(e)')
    BY DEF PipelineInQueue
  <2>1. Len(Current(e)') \in Nat /\ DOMAIN Current(e)' = 1 .. Len(Current(e)')
        /\ inflight'[e] \in Nat
    BY DEF TypeOK, ClientTypeOK, Current
  <2>2. inflight'[e] # 0 => inflight'[e] \in 1 .. inflight'[e]
    BY <2>1
  <2> QED
    BY <2>1, <2>2, <1>5
<1>7. AuthorKnown'
  <2>1. author'[p] = author[p] /\ (phase[p] = "unused" => author[p] = NoUser)
        /\ (phase[p] = "reading" => author[p] \in Users)
    BY DEF IInv, AuthorKnown
  <2> QED
    BY <1>1, <1>2, <1>3, <2>1 DEF IInv, AuthorKnown
<1>8. \A q \in Pubs \ {p} : /\ HasInfo(q) => HasInfo(q)'
                            /\ NamedIfCurrent(q) => NamedIfCurrent(q)'
  BY <1>1 DEF HasInfo, NamedIfCurrent, InfoKey, Complete
<1>9. m.kind = "author" => HasInfo(p)'
  BY DEF IInv, InfoStored, HasInfo, InfoKey
<1>10. InfoStored'
  <2>1. (\A q \in Pubs :
           phase[q] \in {"stored", "reading", "author", "named", "published"} =>
             HasInfo(q))'
    BY <1>1, <1>8, <1>9 DEF IInv, InfoStored
  <2>2. (\A e \in Devices, u \in Signers : \A i \in DOMAIN queue[e][u] :
           queue[e][u][i].kind = "author" => HasInfo(queue[e][u][i].pub))'
    BY <1>2, <1>3, <1>8, <1>9 DEF IInv, InfoStored
  <2>3. (\A e \in Devices : \A i \in 1 .. inflight[e] :
           Current(e)[i].kind = "info" => HasInfo(Current(e)[i].pub))'
    BY <1>5, <1>8 DEF IInv, InfoStored
  <2> QED
    BY <2>1, <2>2, <2>3 DEF InfoStored
<1>11. NamedInFlight'
  BY <1>1, <1>5, <1>8 DEF IInv, NamedInFlight
<1>12. NamedOnceAcknowledged'
  BY <1>1, <1>8 DEF IInv, NamedOnceAcknowledged
<1>13. OrphanOnlyAfterSwitch'
  <2> SUFFICES ASSUME NEW k \in Keys, blogs[k].info = NoPub, blogs[k].author # NoUser
               PROVE  \E q \in Pubs : AuthorKey(q)' = k /\ post'[q].uid # k[2]
    BY <1>1 DEF OrphanOnlyAfterSwitch
  <2>1. PICK q \in Pubs : AuthorKey(q) = k /\ post[q].uid # k[2]
    BY DEF IInv, OrphanOnlyAfterSwitch
  <2>2. author[q] \in Users
    BY <2>1 DEF AuthorKey, Keys
  <2>3. post'[q] = post[q]
    BY <1>0, <2>2 DEF IInv, AuthorKnown
  <2> QED
    BY <2>1, <2>3 DEF AuthorKey
<1>14. AuthorOwnsBlog'
  BY DEF IInv, AuthorOwnsBlog
<1> QED
  BY <1>4, <1>6, <1>7, <1>10, <1>11, <1>12, <1>13, <1>14 DEF IInv

(* The backend executes the next write, whatever has happened to its       *)
(* publication since.                                                      *)
LEMMA CommitIInv ==
  ASSUME IInv, TypeOK', NEW d \in Devices, Commit(d) PROVE IInv'
<1>a. PICK m \in Mutations : m = NextWrite(d)
  BY CommitFacts DEF IInv
<1> DEFINE p == m.pub
<1>0. TypeOK /\ NoUser \notin Users /\ NoPub \notin Pubs
  BY ClientAssumption, PublishAssumption DEF IInv, ClientAssumption, PublishAssumption
<1>1. /\ UNCHANGED <<fsUser, queue, phase, post, author>>
      /\ m \in Mutations /\ p \in Pubs /\ m.kind \in {"info", "author"}
      /\ inflight[d] + 1 \in DOMAIN Current(d)
      /\ m = Current(d)[inflight[d] + 1]
      /\ inflight' = [inflight EXCEPT ![d] = @ + 1]
      /\ blogs' = Applied(m)
  BY <1>0, <1>a, CommitFacts DEF pubVars, Mutations
<1>2. phase[p] \in {m.kind, "lost"}
  BY <1>1, QueuedFacts DEF Current
<1>3. \A e \in Devices : \A i \in 1 .. inflight'[e] :
        \/ i \in 1 .. inflight[e] /\ Current(e)[i].pub \in Pubs
        \/ e = d /\ Current(e)[i] = m
  <2> SUFFICES ASSUME NEW e \in Devices, NEW i \in 1 .. inflight'[e]
               PROVE  \/ i \in 1 .. inflight[e] /\ Current(e)[i].pub \in Pubs
                      \/ e = d /\ Current(e)[i] = m
    OBVIOUS
  <2>1. inflight[e] \in Nat /\ inflight \in [Devices -> Nat]
    BY <1>0 DEF TypeOK, ClientTypeOK
  <2>2. i \in 1 .. inflight[e] \/ (e = d /\ i = inflight[d] + 1)
    BY <1>1, <2>1
  <2> QED
    BY <1>1, <2>2, QueuedFacts DEF Current
<1>4. QueuedOnce' /\ AuthorKnown' /\ PipelineInQueue'
  <2>1. QueuedOnce' /\ AuthorKnown'
    BY <1>1 DEF IInv, QueuedOnce, AuthorKnown
  <2>2. \A e \in Devices : inflight'[e] <= Len(Current(e))
    BY <1>0, <1>1, QueuedFacts DEF TypeOK, ClientTypeOK
  <2> QED
    BY <1>1, <2>1, <2>2 DEF PipelineInQueue, Current
<1>5. \A q \in Pubs : InfoKey(q) \in Keys /\ InfoKey(q)' = InfoKey(q)
  BY <1>0, <1>1 DEF TypeOK, Posts, InfoKey, Keys
<1>6. CASE m.kind = "info"
  <2>1. blogs' = [blogs EXCEPT ![InfoKey(p)] = [info |-> p, author |-> NoUser]]
    BY <1>0, <1>1, <1>6, AppliedType
  <2>2. \A k \in Keys : blogs'[k] = IF k = InfoKey(p)
                                      THEN [info |-> p, author |-> NoUser] ELSE blogs[k]
    BY <1>0, <2>1 DEF TypeOK
  <2> HIDE DEF p
  <2>3. HasInfo(p)' /\ \A q \in Pubs : HasInfo(q) => HasInfo(q)'
    BY <1>0, <1>1, <1>5, <2>2 DEF HasInfo
  <2>4. \A q \in Pubs : q # p /\ NamedIfCurrent(q) => NamedIfCurrent(q)'
    BY <1>1, <1>5, <2>2 DEF NamedIfCurrent, Complete
  <2>5. phase[p] \in {"info", "lost"}
    BY <1>2, <1>6
  <2>6. InfoStored'
    <3>1. (\A e \in Devices, u \in Signers : \A i \in DOMAIN queue[e][u] :
             queue[e][u][i].kind = "author" => HasInfo(queue[e][u][i].pub))'
      BY <1>1, <2>3, QueuedFacts DEF IInv, InfoStored
    <3>2. (\A e \in Devices : \A i \in 1 .. inflight[e] :
             Current(e)[i].kind = "info" => HasInfo(Current(e)[i].pub))'
      BY <1>1, <1>3, <2>3 DEF IInv, InfoStored, Current, p
    <3> QED
      BY <1>1, <2>3, <3>1, <3>2 DEF IInv, InfoStored
  <2>7. NamedInFlight'
    BY <1>1, <1>3, <1>6, <2>4, <2>5 DEF IInv, NamedInFlight, Current
  <2>8. NamedOnceAcknowledged'
    BY <1>1, <2>4, <2>5 DEF IInv, NamedOnceAcknowledged
  <2>9. OrphanOnlyAfterSwitch' /\ AuthorOwnsBlog'
    BY <1>0, <1>1, <2>2 DEF IInv, OrphanOnlyAfterSwitch, AuthorOwnsBlog, AuthorKey
  <2> QED
    BY <1>4, <2>6, <2>7, <2>8, <2>9 DEF IInv
<1>7. CASE m.kind = "author"
  <2>1. author[p] \in Users
    BY <1>1, <1>7, QueuedFacts DEF IInv, AuthorKnown, Current
  <2>2. \A k \in Keys :
          /\ blogs'[k].info = blogs[k].info
          /\ blogs'[k].author = IF k = AuthorKey(p) THEN author[p] ELSE blogs[k].author
    BY <1>0, <1>1, <1>7, AppliedType
  <2>3. HasInfo(p)
    BY <1>1, <1>7, QueuedFacts DEF IInv, InfoStored, Current
  <2> HIDE DEF p
  <2>4. \A q \in Pubs : HasInfo(q) => HasInfo(q)'
    BY <1>1, <1>5, <2>2 DEF HasInfo
  <2>5. \A q \in Pubs : NamedIfCurrent(q) => NamedIfCurrent(q)'
    BY <1>0, <1>1, <1>5, <2>1, <2>2 DEF NamedIfCurrent, Complete
  <2>6. NamedIfCurrent(p)'
    <3>1. author[p] = post[p].uid => AuthorKey(p) = InfoKey(p)
      BY DEF AuthorKey, InfoKey
    <3> QED
      BY <1>0, <1>1, <1>5, <2>1, <2>2, <3>1 DEF NamedIfCurrent, Complete
  <2>7. InfoStored'
    <3>1. (\A e \in Devices, u \in Signers : \A i \in DOMAIN queue[e][u] :
             queue[e][u][i].kind = "author" => HasInfo(queue[e][u][i].pub))'
      BY <1>1, <2>4, QueuedFacts DEF IInv, InfoStored
    <3>2. (\A e \in Devices : \A i \in 1 .. inflight[e] :
             Current(e)[i].kind = "info" => HasInfo(Current(e)[i].pub))'
      BY <1>1, <1>3, <1>7, <2>4 DEF IInv, InfoStored, Current
    <3> QED
      BY <1>1, <2>4, <3>1, <3>2 DEF IInv, InfoStored
  <2>8. NamedInFlight'
    BY <1>1, <1>3, <2>5, <2>6 DEF IInv, NamedInFlight, Current, p
  <2>9. NamedOnceAcknowledged'
    BY <1>1, <2>5 DEF IInv, NamedOnceAcknowledged
  <2>10. OrphanOnlyAfterSwitch'
    <3> SUFFICES ASSUME NEW k \in Keys, blogs'[k].info = NoPub, blogs'[k].author # NoUser
                 PROVE  \E q \in Pubs : AuthorKey(q) = k /\ post[q].uid # k[2]
      BY <1>1 DEF OrphanOnlyAfterSwitch, AuthorKey
    <3>1. CASE k = AuthorKey(p)
      <4>1. post[p].uid # author[p]
        BY <2>2, <2>3, <3>1 DEF HasInfo, AuthorKey, InfoKey
      <4> QED
        BY <1>1, <3>1, <4>1 DEF AuthorKey
    <3>2. CASE k # AuthorKey(p)
      BY <2>2, <3>2 DEF IInv, OrphanOnlyAfterSwitch
    <3> QED
      BY <3>1, <3>2
  <2>11. AuthorOwnsBlog'
    BY <2>2 DEF IInv, AuthorOwnsBlog, AuthorKey
  <2> QED
    BY <1>4, <2>7, <2>8, <2>9, <2>10, <2>11 DEF IInv
<1> QED
  BY <1>1, <1>6, <1>7

(* The front of a queue is answered and its publication moves on, unless   *)
(* the process that made it has ended.                                     *)
LEMMA AnswerIInv ==
  ASSUME IInv, TypeOK', NEW d \in Devices, Answer(d) PROVE IInv'
<1>0. TypeOK /\ PipelineInQueue /\ phase \in [Pubs -> Phases]
  BY DEF IInv, TypeOK
<1>a. PICK m \in Mutations : m = Head(Current(d))
  BY <1>0, AnswerFacts, RemoveFrontType DEF TypeOK
<1> DEFINE p == m.pub
<1>1. /\ RemoveFront(d) /\ Current(d) # << >> /\ UNCHANGED <<fsUser, post, author, blogs>>
      /\ p \in Pubs /\ m.kind \in {"info", "author"}
  BY <1>0, AnswerFacts DEF Mutations
<1>2. /\ \A q \in Pubs : q # p => phase'[q] = phase[q]
      /\ \/ phase'[p] = phase[p] /\ phase[p] # m.kind
         \/ phase[p] = m.kind /\ phase'[p] = "failed"
         \/ /\ phase[p] = m.kind /\ inflight[d] > 0
            /\ \/ m.kind = "info" /\ phase'[p] = "stored"
               \/ m.kind = "author" /\ phase'[p] = "named"
  <2>1. \/ inflight[d] = 0 /\ NotifyUser(m, "failed")
        \/ /\ inflight[d] > 0
           /\ \/ m.kind = "info" /\ NotifyUser(m, "stored")
              \/ m.kind # "info" /\ NotifyUser(m, "named")
    BY <1>0, <1>a, AnswerFacts
  <2> QED
    BY <1>0, <1>1, <2>1, NotifyUserType
<1>3. /\ m = Current(d)[1] /\ 1 \in DOMAIN Current(d)
      /\ \A e \in Devices, v \in Signers :
           (e # d \/ v # fsUser[d]) => queue'[e][v] = queue[e][v]
      /\ \A i \in DOMAIN queue'[d][fsUser[d]] :
           /\ i \in Nat /\ i > 0 /\ i + 1 \in DOMAIN Current(d)
           /\ queue'[d][fsUser[d]][i] = Current(d)[i + 1]
      /\ Len(queue'[d][fsUser[d]]) = Len(Current(d)) - 1
  BY <1>0, <1>1, <1>a, RemoveFacts
<1> DEFINE Old(e, v, i) == IF e = d /\ v = fsUser[d] THEN i + 1 ELSE i
(* Each write that stays was one place further back, and is not m.         *)
<1>4. \A e \in Devices, v \in Signers : \A i \in DOMAIN queue'[e][v] :
        /\ Old(e, v, i) \in DOMAIN queue[e][v]
        /\ queue'[e][v][i] = queue[e][v][Old(e, v, i)]
        /\ queue'[e][v][i] # m
  <2> SUFFICES ASSUME NEW e \in Devices, NEW v \in Signers, NEW i \in DOMAIN queue'[e][v]
               PROVE  /\ Old(e, v, i) \in DOMAIN queue[e][v]
                      /\ queue'[e][v][i] = queue[e][v][Old(e, v, i)]
                      /\ queue'[e][v][i] # m
    OBVIOUS
  <2>0. fsUser[d] \in Signers
    BY QueuedFacts
  <2>1. CASE e = d /\ v = fsUser[d]
    <3>1. /\ i + 1 \in DOMAIN queue[d][v] /\ 1 \in DOMAIN queue[d][v] /\ i + 1 # 1
          /\ queue'[e][v][i] = queue[d][v][i + 1] /\ m = queue[d][v][1]
      BY <1>3, <2>1 DEF Current
    <3>2. queue[d][v][i + 1] # queue[d][v][1]
      BY <3>1 DEF IInv, QueuedOnce
    <3> QED
      BY <2>1, <3>1, <3>2
  <2>2. CASE ~(e = d /\ v = fsUser[d])
    <3>1. queue'[e][v] = queue[e][v]
      BY <1>3, <2>2
    <3>2. 1 \in DOMAIN queue[d][fsUser[d]] /\ m = queue[d][fsUser[d]][1]
      BY <1>3 DEF Current
    <3>3. queue[e][v][i] # m
      BY <2>0, <2>2, <3>1, <3>2 DEF IInv, QueuedOnce
    <3> QED
      BY <2>2, <3>1, <3>3
  <2> QED
    BY <2>1, <2>2
<1>5. \A e \in Devices, v \in Signers : \A i \in DOMAIN queue'[e][v] :
        /\ queue'[e][v][i] \in Mutations /\ queue'[e][v][i].pub \in Pubs
        /\ phase[queue'[e][v][i].pub] \in {queue'[e][v][i].kind, "lost"}
        /\ queue'[e][v][i].pub = p => phase'[p] = "lost"
  <2> SUFFICES ASSUME NEW e \in Devices, NEW v \in Signers, NEW i \in DOMAIN queue'[e][v]
               PROVE  /\ queue'[e][v][i] \in Mutations /\ queue'[e][v][i].pub \in Pubs
                      /\ phase[queue'[e][v][i].pub] \in {queue'[e][v][i].kind, "lost"}
                      /\ queue'[e][v][i].pub = p => phase'[p] = "lost"
    OBVIOUS
  <2>1. /\ queue'[e][v][i] \in Mutations /\ queue'[e][v][i].pub \in Pubs
        /\ phase[queue'[e][v][i].pub] \in {queue'[e][v][i].kind, "lost"}
    BY <1>4, QueuedFacts
  <2>2. phase[p] \in {m.kind, "lost"}
    BY <1>3, QueuedFacts DEF Current
  <2>3. ASSUME queue'[e][v][i].pub = p PROVE queue'[e][v][i].kind # m.kind
    BY <1>4, <2>1, <2>3 DEF Mutations
  <2> QED
    BY <1>1, <1>2, <2>1, <2>2, <2>3
<1>6. QueuedOnce'
  <2> SUFFICES ASSUME NEW e \in Devices, NEW f \in Devices,
                      NEW u \in Signers, NEW v \in Signers,
                      NEW i \in DOMAIN queue'[e][u], NEW j \in DOMAIN queue'[f][v]
               PROVE  /\ phase'[queue'[e][u][i].pub] \in {queue'[e][u][i].kind, "lost"}
                      /\ queue'[e][u][i] = queue'[f][v][j] => <<e, u, i>> = <<f, v, j>>
    BY DEF QueuedOnce
  <2>1. phase'[queue'[e][u][i].pub] \in {queue'[e][u][i].kind, "lost"}
    BY <1>2, <1>5
  <2>2. ASSUME queue'[e][u][i] = queue'[f][v][j]
        PROVE  e = f /\ u = v /\ Old(e, u, i) = Old(f, v, j)
    BY <1>4, <2>2 DEF IInv, QueuedOnce
  <2>3. i \in Nat /\ j \in Nat
    <3>1. queue'[e][u] \in Seq(Mutations) /\ queue'[f][v] \in Seq(Mutations)
      BY DEF TypeOK, ClientTypeOK
    <3> QED
      BY <3>1
  <2> QED
    BY <2>1, <2>2, <2>3
<1>7. inflight' \in [Devices -> Nat] /\ inflight \in [Devices -> Nat]
      /\ \/ inflight' = inflight /\ inflight[d] = 0
         \/ inflight' = [inflight EXCEPT ![d] = @ - 1] /\ inflight[d] > 0
  BY <1>0, AnswerFacts DEF TypeOK, ClientTypeOK
<1>8. PipelineInQueue'
  <2> SUFFICES ASSUME NEW e \in Devices PROVE inflight'[e] <= Len(Current(e)')
    BY DEF PipelineInQueue
  <2>1. inflight[e] <= Len(Current(e)) /\ Len(Current(e)) \in Nat
        /\ (Len(Current(e)') \in Nat) /\ inflight[e] \in Nat
    BY <1>0, QueuedFacts DEF TypeOK, ClientTypeOK, Current
  <2>2. CASE e = d
    <3>1. Len(Current(e)') = Len(Current(e)) - 1
      BY <1>1, <1>3, <2>2 DEF Current
    <3> QED
      BY <2>1, <2>2, <3>1, <1>7
  <2>3. CASE e # d
    <3>1. Current(e)' = Current(e) /\ inflight'[e] = inflight[e]
      BY <1>1, <1>3, <1>7, <2>3, QueuedFacts DEF Current
    <3> QED
      BY <2>1, <3>1
  <2> QED
    BY <2>2, <2>3
<1>9. \A e \in Devices : \A i \in 1 .. inflight'[e] :
        /\ i \in DOMAIN Current(e)'
        /\ \E j \in 1 .. inflight[e] : Current(e)'[i] = Current(e)[j]
  <2> SUFFICES ASSUME NEW e \in Devices, NEW i \in 1 .. inflight'[e]
               PROVE  /\ i \in DOMAIN Current(e)'
                      /\ \E j \in 1 .. inflight[e] : Current(e)'[i] = Current(e)[j]
    OBVIOUS
  <2>1. i \in DOMAIN Current(e)'
    <3>1. DOMAIN Current(e)' = 1 .. Len(Current(e)') /\ Len(Current(e)') \in Nat
      BY DEF TypeOK, ClientTypeOK, Current
    <3> QED
      BY <1>7, <1>8, <3>1 DEF PipelineInQueue
  <2>2. Old(e, fsUser[e], i) \in 1 .. inflight[e]
    BY <1>7
  <2>3. Current(e)'[i] = Current(e)[Old(e, fsUser[e], i)]
    BY <1>1, <1>4, <2>1, QueuedFacts DEF Current
  <2> QED
    BY <2>1, <2>2, <2>3
<1>10. AuthorKnown'
  <2>1. \A q \in Pubs : author'[q] = author[q]
    BY <1>1
  <2>2. (\A e \in Devices, u \in Signers : \A i \in DOMAIN queue[e][u] :
           queue[e][u][i].kind = "author" => author[queue[e][u][i].pub] \in Users)'
    BY <1>1, <1>4 DEF IInv, AuthorKnown
  <2> HIDE DEF p
  <2>3. \A q \in Pubs :
          /\ phase'[q] \in {"unused", "info", "stored"} => author'[q] = NoUser
          /\ phase'[q] \in {"reading", "author", "named", "published"} =>
               author'[q] \in Users
    BY <1>2, <2>1 DEF IInv, AuthorKnown
  <2> QED
    BY <2>2, <2>3 DEF AuthorKnown
<1>11. \A q \in Pubs : /\ HasInfo(q)' = HasInfo(q)
                       /\ NamedIfCurrent(q)' = NamedIfCurrent(q)
  BY <1>1 DEF HasInfo, NamedIfCurrent, InfoKey, Complete
<1>12. inflight[d] > 0 => 1 \in 1 .. inflight[d]
  BY <1>7
<1>13. InfoStored'
  <2>1. (\A e \in Devices, u \in Signers : \A i \in DOMAIN queue[e][u] :
           queue[e][u][i].kind = "author" => HasInfo(queue[e][u][i].pub))'
    BY <1>4, <1>5, <1>11 DEF IInv, InfoStored
  <2>2. (\A e \in Devices : \A i \in 1 .. inflight[e] :
           Current(e)[i].kind = "info" => HasInfo(Current(e)[i].pub))'
    BY SMTT(30), <1>1, <1>5, <1>9, <1>11, QueuedFacts DEF IInv, InfoStored, Current
  <2>3. ASSUME phase'[p] \in {"stored", "named"}, phase'[p] # phase[p] PROVE HasInfo(p)
    <3>1. \/ phase[p] = "author"
          \/ m.kind = "info" /\ inflight[d] > 0
      BY <1>2, <2>3
    <3>2. CASE phase[p] = "author"
      BY <1>1, <3>2 DEF IInv, InfoStored
    <3>3. CASE m.kind = "info" /\ inflight[d] > 0
      BY <1>3, <1>12, <3>3 DEF IInv, InfoStored
    <3> QED
      BY <3>1, <3>2, <3>3
  <2>4. (\A q \in Pubs :
           phase[q] \in {"stored", "reading", "author", "named", "published"} =>
             HasInfo(q))'
    <3> SUFFICES ASSUME NEW q \in Pubs,
                        phase'[q] \in {"stored", "reading", "author", "named", "published"}
                 PROVE  HasInfo(q)'
      OBVIOUS
    <3>1. CASE phase'[q] = phase[q]
      BY <3>1, <1>11 DEF IInv, InfoStored
    <3>2. CASE phase'[q] # phase[q]
      BY <3>2, <1>2, <1>11, <2>3
    <3> QED
      BY <3>1, <3>2
  <2> QED
    BY <2>1, <2>2, <2>4 DEF InfoStored
<1>14. NamedInFlight'
  <2> SUFFICES ASSUME NEW e \in Devices, NEW i \in 1 .. inflight'[e],
                      Current(e)'[i].kind = "author",
                      phase'[Current(e)'[i].pub] = "author"
               PROVE  (NamedIfCurrent(Current(e)[i].pub))'
    BY DEF NamedInFlight
  <2>1. PICK j \in 1 .. inflight[e] : Current(e)'[i] = Current(e)[j]
    BY <1>9
  <2>2. PICK q \in Pubs : q = Current(e)[j].pub
    BY <2>1, QueuedFacts DEF Current
  <2>3. phase[q] = "author"
    BY <1>2, <2>1, <2>2
  <2>4. NamedIfCurrent(q)
    BY <2>1, <2>2, <2>3 DEF IInv, NamedInFlight
  <2> QED
    BY <1>11, <2>1, <2>2, <2>4
<1>15. NamedOnceAcknowledged'
  <2>1. phase'[p] = "named" /\ phase[p] # "named" => NamedIfCurrent(p)
    BY <1>2, <1>3, <1>12 DEF IInv, NamedInFlight
  <2> SUFFICES ASSUME NEW q \in Pubs, phase'[q] \in {"named", "published"}
               PROVE  NamedIfCurrent(q)'
    BY DEF NamedOnceAcknowledged
  <2>2. CASE phase'[q] = phase[q]
    BY <2>2, <1>11 DEF IInv, NamedOnceAcknowledged
  <2>3. CASE phase'[q] # phase[q]
    BY <2>1, <2>3, <1>2, <1>11
  <2> QED
    BY <2>2, <2>3
<1>16. OrphanOnlyAfterSwitch' /\ AuthorOwnsBlog'
  BY <1>1 DEF IInv, OrphanOnlyAfterSwitch, AuthorOwnsBlog, AuthorKey
<1> QED
  BY <1>6, <1>8, <1>10, <1>13, <1>14, <1>15, <1>16 DEF IInv

LEMMA InitIInv == Init => IInv
<1> SUFFICES ASSUME Init PROVE IInv
  OBVIOUS
<1>1. TypeOK
  BY InitTypeOK
<1>2. /\ \A d \in Devices, u \in Signers : queue[d][u] = << >> /\ DOMAIN queue[d][u] = {}
      /\ \A d \in Devices : inflight[d] = 0 /\ fsUser[d] \in Signers
                           /\ 1 .. inflight[d] = {} /\ Len(Current(d)) = 0
  BY <1>1 DEF Init, ClientInit, TypeOK, ClientTypeOK, Current
<1>3. \A p \in Pubs : phase[p] = "unused" /\ author[p] = NoUser
  BY DEF Init
<1>4. \A k \in Keys : blogs[k].author = NoUser
  BY DEF Init, Absent
<1>5. QueuedOnce /\ PipelineInQueue
  BY <1>2 DEF QueuedOnce, PipelineInQueue
<1>6. AuthorKnown /\ InfoStored
  BY <1>2, <1>3 DEF AuthorKnown, InfoStored
<1>7. NamedInFlight /\ NamedOnceAcknowledged
  BY <1>2, <1>3 DEF NamedInFlight, NamedOnceAcknowledged
<1> QED
  BY <1>1, <1>4, <1>5, <1>6, <1>7 DEF IInv, OrphanOnlyAfterSwitch, AuthorOwnsBlog

LEMMA NextIInv == IInv /\ [Next]_vars => IInv'
<1> SUFFICES ASSUME IInv, [Next]_vars PROVE IInv'
  OBVIOUS
<1>0. TypeOK'
  BY NextTypeOK DEF IInv
<1>1. ASSUME NEW d \in Devices, NEW p \in Pubs, NEW n \in Names,
             PublishBlogButtonTapped(d, p, n)
      PROVE  IInv'
  <2>1. /\ WriteMutations(d, Info(p)) /\ phase[p] = "unused"
        /\ phase' = [phase EXCEPT ![p] = "info"]
        /\ UNCHANGED <<author, blogs>>
    BY <1>1 DEF PublishBlogButtonTapped
  <2>2. \A q \in Pubs : q # p => post'[q] = post[q]
    BY <1>1 DEF PublishBlogButtonTapped, IInv, TypeOK
  <2> QED
    BY <1>0, <2>1, <2>2, MutationTypes, WriteStepIInv
<1>2. ASSUME NEW p \in Pubs, ProfileRead(p) PROVE IInv'
  <2>1. /\ WriteMutations(post[p].device, Author(p)) /\ phase[p] = "reading"
        /\ phase' = [phase EXCEPT ![p] = "author"]
        /\ UNCHANGED <<post, author, blogs>>
    BY <1>2 DEF ProfileRead
  <2>2. post[p].device \in Devices
    BY DEF IInv, TypeOK, Posts
  <2> QED
    BY <1>0, <2>1, <2>2, MutationTypes, WriteStepIInv
<1>3. ASSUME NEW p \in Pubs, RetrieveFullName(p) PROVE IInv'
  BY <1>0, <1>3, RetrieveFullNameIInv
<1>4. ASSUME NEW d \in Devices, Commit(d) PROVE IInv'
  BY <1>0, <1>4, CommitIInv
<1>5. ASSUME NEW d \in Devices, Answer(d) PROVE IInv'
  BY <1>0, <1>5, AnswerIInv
<1>6. ASSUME NEW d \in Devices,
             Session(d) \/ Restart(d) \/ PublishTraps(d) \/ StreamClosed(d)
      PROVE  IInv'
  <2>1. QuietStep
    BY <1>6, QuietDeviceActions
  <2> QED
    BY <1>0, <2>1, QuietStepIInv
<1>7. ASSUME NEW p \in Pubs, ProfileNotRead(p) \/ TransferToBlogPage(p) PROVE IInv'
  <2>1. QuietStep
    BY <1>7, QuietCallbacks
  <2> QED
    BY <1>0, <2>1, QuietStepIInv
<1>8. CASE UNCHANGED vars
  <2>1. QuietStep
    BY <1>8 DEF vars, clientVars, pubVars, QuietStep
  <2> QED
    BY <1>0, <2>1, QuietStepIInv
<1> QED
  BY <1>1, <1>2, <1>3, <1>4, <1>5, <1>6, <1>7, <1>8 DEF Next, Runs, Ends, Callback

THEOREM InvariantHolds == Spec => []IInv
  BY InitIInv, NextIInv, PTL DEF Spec

(* Every variable keeps a value of its kind, through sign-ins, restarts    *)
(* and resent writes (all the handlers of Publish).                        *)
THEOREM TypeCorrect == Spec => []TypeOK
<1>1. IInv => TypeOK
  BY DEF IInv
<1> QED
  BY <1>1, InvariantHolds, PTL

(* A write waits in one place of one queue, and only as long as its        *)
(* publication waits for it (SyncEngine::WriteMutations and NotifyUser).   *)
THEOREM WritesQueuedOnce == Spec => []QueuedOnce
<1>1. IInv => QueuedOnce
  BY DEF IInv
<1> QED
  BY <1>1, InvariantHolds, PTL

(* The blog page is reached (line 128) only with all five fields stored,   *)
(* unless another user was signed in when the author's name was fetched    *)
(* (line 108) or a later publication replaced the fields (line 147).       *)
THEOREM ReportedBlogsComplete == Spec => []ReportedBlogIsComplete
<1>1. IInv => ReportedBlogIsComplete
  BY DEF IInv, NamedOnceAcknowledged, NamedIfCurrent, ReportedBlogIsComplete
<1> QED
  BY <1>1, InvariantHolds, PTL

(* A document that holds an author alone (line 122) is always the work of  *)
(* a publication another user tapped.                                      *)
THEOREM OrphansExplained == Spec => []OrphanOnlyAfterSwitch
<1>1. IInv => OrphanOnlyAfterSwitch
  BY DEF IInv
<1> QED
  BY <1>1, InvariantHolds, PTL

(* Whoever is signed in when, a blog never shows another user's name than  *)
(* its owner's (lines 117 and 122 use one and the same uid).               *)
THEOREM AuthorsOwnBlogs == Spec => []AuthorOwnsBlog
<1>1. IInv => AuthorOwnsBlog
  BY DEF IInv
<1> QED
  BY <1>1, InvariantHolds, PTL
-----------------------------------------------------------------------------
(* Publish implements BlogStore: each step is a step of the store or       *)
(* leaves it as it is.                                                     *)

(* The four fields of a publication are found in one document only, the    *)
(* one it was tapped for.                                                  *)
FieldsHome ==
  \A k \in Keys, p \in Pubs :
    blogs[k].info = p => k = InfoKey(p) /\ phase[p] # "unused"

(* Steps that write no document and report nothing. *)
HiddenStep ==
  /\ UNCHANGED blogs
  /\ \A p \in Pubs :
       /\ phase[p] # "unused" => phase'[p] # "unused" /\ post'[p] = post[p]
       /\ phase[p] = "published" <=> phase'[p] = "published"
       /\ phase[p] = "published" => author'[p] = author[p]

LEMMA HiddenStepFieldsHome == ASSUME FieldsHome, HiddenStep PROVE FieldsHome'
<1>1. \A p \in Pubs : phase[p] # "unused" =>
        phase'[p] # "unused" /\ InfoKey(p)' = InfoKey(p)
  BY DEF HiddenStep, InfoKey
<1> QED
  BY <1>1 DEF FieldsHome, HiddenStep

LEMMA HiddenStepStutters ==
  ASSUME HiddenStep PROVE UNCHANGED <<Visible, Reported>>
<1>1. Visible' = Visible
  BY DEF HiddenStep, Visible
<1>2. \A p \in Pubs : p \in Reported' <=> p \in Reported
  BY DEF HiddenStep, Reported
<1>3. Reported' = Reported
  BY <1>2 DEF Reported
<1> QED
  BY <1>1, <1>3

LEMMA DeviceStepsHidden ==
  ASSUME IInv, NEW d \in Devices,
         Session(d) \/ Restart(d) \/ PublishTraps(d) \/ StreamClosed(d)
  PROVE  HiddenStep
<1>1. QuietStep /\ UNCHANGED <<post, author, blogs>>
  BY QuietDeviceActions DEF QuietStep
<1>2. \A p \in Pubs : phase'[p] = phase[p] \/ (phase[p] \in Active /\ phase'[p] = "lost")
  <2>1. CASE Session(d) \/ StreamClosed(d)
    BY <2>1 DEF Session, LoginTapped, SignInAnswered, AuthStateChanged, AlreadyLoggedIn,
                UserProfileButtonTapped, SignOutByForce, UrlSaved, StreamClosed, pubVars
  <2>2. CASE Restart(d) \/ PublishTraps(d)
    BY <2>2 DEF Restart, PublishTraps
  <2> QED
    BY <2>1, <2>2
<1> QED
  BY <1>1, <1>2 DEF HiddenStep, Active

(* The steps of publications that are told to nobody. *)
LEMMA CallbacksHidden ==
  ASSUME TypeOK, NEW p \in Pubs,
         RetrieveFullName(p) \/ ProfileRead(p) \/ ProfileNotRead(p)
  PROVE  HiddenStep
<1>1. /\ UNCHANGED <<post, blogs>>
      /\ \A q \in Pubs \ {p} : phase'[q] = phase[q] /\ author'[q] = author[q]
      /\ phase[p] \in {"stored", "reading"}
      /\ phase'[p] \in {"reading", "author", "failed"}
  BY DEF TypeOK, RetrieveFullName, ProfileRead, ProfileNotRead
<1> QED
  BY <1>1 DEF HiddenStep

LEMMA TapHidden ==
  ASSUME TypeOK, NEW d \in Devices, NEW p \in Pubs, NEW n \in Names,
         PublishBlogButtonTapped(d, p, n)
  PROVE  HiddenStep
<1>1. /\ UNCHANGED <<author, blogs>>
      /\ \A q \in Pubs \ {p} : phase'[q] = phase[q] /\ post'[q] = post[q]
      /\ phase[p] = "unused" /\ phase'[p] = "info"
  BY DEF TypeOK, PublishBlogButtonTapped
<1> QED
  BY <1>1 DEF HiddenStep

LEMMA AnswerHidden ==
  ASSUME IInv, NEW d \in Devices, Answer(d) PROVE HiddenStep
<1>0. TypeOK
  BY DEF IInv
<1>1. PICK m \in Mutations :
        /\ m.pub \in Pubs /\ phase[m.pub] \in {m.kind, "lost"}
        /\ \E o \in {"stored", "named", "failed"} : NotifyUser(m, o)
        /\ UNCHANGED <<post, author, blogs>>
  <2>1. Current(d) # << >> /\ RemoveFront(d)
    <3>1. Current(d) \in Seq(Mutations) /\ inflight[d] \in Nat
      BY <1>0 DEF TypeOK, ClientTypeOK, Current
    <3>2. inflight[d] > 0 => Current(d) # << >>
      BY <3>1 DEF IInv, PipelineInQueue
    <3> QED
      BY <3>2 DEF Answer, WriteAcknowledged, WriteRejected, HandleSuccessfulWrite,
                  HandleRejectedWrite
  <2>2. Head(Current(d)) = Current(d)[1] /\ 1 \in DOMAIN Current(d)
    BY <1>0, <2>1, RemoveFacts
  <2>3. fsUser[d] \in Signers
    BY <1>0 DEF TypeOK, ClientTypeOK
  <2>4. /\ Head(Current(d)) \in Mutations /\ Head(Current(d)).pub \in Pubs
        /\ phase[Head(Current(d)).pub] \in {Head(Current(d)).kind, "lost"}
    BY <2>2, <2>3, QueuedFacts DEF Current
  <2>5. \E o \in {"stored", "named", "failed"} : NotifyUser(Head(Current(d)), o)
    BY DEF Answer, WriteAcknowledged, WriteRejected
  <2> QED
    BY <2>4, <2>5 DEF Answer, WriteAcknowledged, WriteRejected
<1>2. m.kind \in {"info", "author"}
  BY DEF Mutations
<1>3. \A q \in Pubs \ {m.pub} : phase'[q] = phase[q]
  BY <1>0, <1>1 DEF NotifyUser, TypeOK
<1>4. phase'[m.pub] \in {"stored", "named", "failed", "lost"}
  BY <1>0, <1>1, <1>2 DEF NotifyUser, TypeOK
<1> QED
  BY <1>1, <1>2, <1>3, <1>4 DEF HiddenStep

(* A commit that stores the fields of p, or an author. *)
LEMMA CommitStores ==
  ASSUME IInv, FieldsHome, NEW d \in Devices, Commit(d)
  PROVE  /\ FieldsHome'
         /\ \/ \E p \in Pubs, k \in Keys : Store!StoreInfo(p, k)
            \/ \E k \in Keys : Store!StoreAuthor(k)
<1>a. PICK m \in Mutations : m = NextWrite(d)
  BY CommitFacts DEF IInv
<1> DEFINE p == m.pub
<1>0. TypeOK /\ NoUser \notin Users /\ NoPub \notin Pubs
  BY ClientAssumption, PublishAssumption DEF IInv, ClientAssumption, PublishAssumption
<1>1. /\ UNCHANGED <<phase, post, author>>
      /\ p \in Pubs /\ m.kind \in {"info", "author"}
      /\ inflight[d] + 1 \in DOMAIN Current(d) /\ m = Current(d)[inflight[d] + 1]
      /\ blogs' = Applied(m)
  BY <1>0, <1>a, CommitFacts DEF pubVars, Mutations
<1>2. phase[p] \in {m.kind, "lost"}
  BY <1>1, QueuedFacts DEF Current
<1>3. InfoKey(p) \in Keys /\ blogs \in [Keys -> Docs] /\ InfoKey(p)' = InfoKey(p)
  BY <1>0, <1>1 DEF TypeOK, Posts, InfoKey, Keys
<1>4. Reported' = Reported /\ p \notin Reported
  BY <1>1, <1>2 DEF Reported
<1>5. CASE m.kind = "info"
  <2>1. \A k \in Keys : blogs'[k] = IF k = InfoKey(p)
                                      THEN [info |-> p, author |-> NoUser] ELSE blogs[k]
    BY <1>0, <1>3, <1>5, AppliedType, <1>1
  <2> HIDE DEF p
  <2>2. FieldsHome'
    BY <1>1, <1>2, <1>3, <1>5, <2>1 DEF FieldsHome, InfoKey
  <2>3. Visible' = [Visible EXCEPT ![InfoKey(p)] = [info |-> p, named |-> FALSE]]
    <3>1. \A k \in Keys :
            /\ k = InfoKey(p) => /\ blogs'[k].info = p
                                 /\ (blogs'[k].author # NoUser) = FALSE
            /\ k # InfoKey(p) => blogs'[k] = blogs[k]
      BY <2>1
    <3>2. \A k \in Keys :
            [info |-> blogs'[k].info, named |-> blogs'[k].author # NoUser] =
              IF k = InfoKey(p) THEN [info |-> p, named |-> FALSE]
              ELSE [info |-> blogs[k].info, named |-> blogs[k].author # NoUser]
      BY <3>1, Zenon
    <3>3. Visible' =
            [k \in Keys |-> IF k = InfoKey(p) THEN [info |-> p, named |-> FALSE]
                                              ELSE Visible[k]]
      BY <3>2, Zenon DEF Visible
    <3> QED
      BY <1>3, <3>3 DEF Visible
  <2>4. \A j \in Keys \ {InfoKey(p)} : Visible[j].info # p
    BY <1>1, <1>3 DEF FieldsHome, Visible
  <2>5. Store!StoreInfo(p, InfoKey(p))
    BY <1>4, <2>3, <2>4 DEF Store!StoreInfo
  <2> QED
    BY <1>1, <1>3, <2>2, <2>5
<1>6. CASE m.kind = "author"
  <2>1. author[p] \in Users /\ AuthorKey(p) \in Keys
    BY <1>0, <1>1, <1>6, QueuedFacts DEF IInv, AuthorKnown, Current, AuthorKey, Keys,
                                         TypeOK, Posts
  <2>2. \A k \in Keys :
          /\ blogs'[k].info = blogs[k].info
          /\ blogs'[k].author = IF k = AuthorKey(p) THEN author[p] ELSE blogs[k].author
    BY <1>0, <1>1, <1>6, AppliedType
  <2> HIDE DEF p
  <2>3. FieldsHome'
    BY <1>1, <2>2 DEF FieldsHome, InfoKey
  <2>4. Visible' = [Visible EXCEPT ![AuthorKey(p)].named = TRUE]
    BY <1>0, <2>1, <2>2 DEF Visible
  <2>5. Store!StoreAuthor(AuthorKey(p))
    BY <1>4, <2>4 DEF Store!StoreAuthor
  <2> QED
    BY <2>1, <2>3, <2>5
<1> QED
  BY <1>1, <1>5, <1>6

(* The one step a user is told of. *)
LEMMA TransferReports ==
  ASSUME IInv, FieldsHome, NEW p \in Pubs, TransferToBlogPage(p)
  PROVE  /\ FieldsHome'
         /\ Store!Report(p) \/ UNCHANGED <<Visible, Reported>>
<1>0. TypeOK
  BY DEF IInv
<1>1. /\ UNCHANGED <<post, author, blogs>>
      /\ phase[p] = "named" /\ phase' = [phase EXCEPT ![p] = "published"]
  BY DEF TransferToBlogPage
<1>2. \A q \in Pubs \ {p} : phase'[q] = phase[q]
  BY <1>1
<1>3. phase'[p] = "published"
  BY <1>0, <1>1 DEF TypeOK
<1>4. FieldsHome'
  BY <1>1, <1>2, <1>3 DEF FieldsHome, InfoKey
<1>5. Visible' = Visible
  BY <1>1 DEF Visible
<1>6. CASE author[p] # post[p].uid
  <2>1. \A q \in Pubs : q \in Reported' <=> q \in Reported
    BY <1>1, <1>2, <1>6 DEF Reported
  <2> QED
    BY <1>4, <1>5, <2>1 DEF Reported
<1>7. CASE author[p] = post[p].uid
  <2>1. p \notin Reported /\ Reported' = Reported \cup {p}
    BY <1>1, <1>2, <1>3, <1>7 DEF Reported
  <2>2. InfoKey(p) \in Keys /\ Visible[InfoKey(p)].info # NoPub
    <3>1. InfoKey(p) \in Keys
      BY <1>0 DEF TypeOK, Posts, InfoKey, Keys
    <3>2. HasInfo(p)
      BY <1>1 DEF IInv, InfoStored
    <3> QED
      BY <3>1, <3>2 DEF HasInfo, Visible
  <2>3. \A k \in Keys : Visible[k].info = p => Visible[k].named
    <3>1. NamedIfCurrent(p)
      BY <1>1 DEF IInv, NamedOnceAcknowledged
    <3> QED
      BY <1>7, <3>1 DEF NamedIfCurrent, Complete, FieldsHome, Visible
  <2>4. Store!Report(p)
    BY <1>5, <2>1, <2>2, <2>3 DEF Store!Report
  <2> QED
    BY <1>4, <2>4
<1> QED
  BY <1>6, <1>7

LEMMA InitStore == Init => FieldsHome /\ Store!Init
<1> SUFFICES ASSUME Init PROVE FieldsHome /\ Store!Init
  OBVIOUS
<1>1. \A k \in Keys : blogs[k] = [info |-> NoPub, author |-> NoUser]
  BY DEF Init, Absent
<1>2. FieldsHome
  BY <1>1, PublishAssumption DEF FieldsHome, PublishAssumption
<1>3. Visible = [k \in Keys |-> [info |-> NoPub, named |-> FALSE]]
  <2>1. \A k \in Keys : blogs[k].info = NoPub /\ (blogs[k].author # NoUser) = FALSE
    BY <1>1
  <2> QED
    BY <2>1, Zenon DEF Visible
<1>4. Reported = {}
  BY DEF Reported, Init
<1> QED
  BY <1>2, <1>3, <1>4 DEF Store!Init

LEMMA NextStore ==
  IInv /\ FieldsHome /\ [Next]_vars => FieldsHome' /\ [Store!Next]_(Store!vars)
<1> SUFFICES ASSUME IInv, FieldsHome, [Next]_vars
             PROVE  FieldsHome' /\ [Store!Next]_(Store!vars)
  OBVIOUS
<1>0. TypeOK
  BY DEF IInv
<1>1. ASSUME HiddenStep PROVE FieldsHome' /\ [Store!Next]_(Store!vars)
  BY <1>1, HiddenStepFieldsHome, HiddenStepStutters DEF Store!vars
<1>2. ASSUME NEW d \in Devices, NEW p \in Pubs, NEW n \in Names,
             PublishBlogButtonTapped(d, p, n)
      PROVE  HiddenStep
  BY <1>0, <1>2, TapHidden
<1>3. ASSUME NEW d \in Devices, Commit(d)
      PROVE  FieldsHome' /\ [Store!Next]_(Store!vars)
  BY <1>3, CommitStores DEF Store!Next
<1>4. ASSUME NEW d \in Devices, Answer(d) PROVE HiddenStep
  BY <1>4, AnswerHidden
<1>5. ASSUME NEW d \in Devices,
             Session(d) \/ Restart(d) \/ PublishTraps(d) \/ StreamClosed(d)
      PROVE  HiddenStep
  BY <1>5, DeviceStepsHidden
<1>6. ASSUME NEW p \in Pubs, RetrieveFullName(p) \/ ProfileRead(p) \/ ProfileNotRead(p)
      PROVE  HiddenStep
  BY <1>0, <1>6, CallbacksHidden
<1>7. ASSUME NEW p \in Pubs, TransferToBlogPage(p)
      PROVE  FieldsHome' /\ [Store!Next]_(Store!vars)
  BY <1>7, TransferReports DEF Store!Next, Store!vars
<1>8. CASE UNCHANGED vars
  <2>1. HiddenStep
    BY <1>8 DEF vars, pubVars, HiddenStep
  <2> QED
    BY <1>1, <2>1
<1> QED
  BY <1>1, <1>2, <1>3, <1>4, <1>5, <1>6, <1>7, <1>8 DEF Next, Runs, Ends, Callback

(* Publishing keeps the promise of BlogStore whatever happens to sessions, *)
(* streams and processes: what is reported (line 128) is complete or       *)
(* replaced, and is never stored again.                                    *)
THEOREM PublishImplementsBlogStore == Spec => ImplementsBlogStore
<1>1. Init => FieldsHome /\ Store!Init
  BY InitStore
<1>2. IInv /\ FieldsHome /\ [Next]_vars => FieldsHome' /\ [Store!Next]_(Store!vars)
  BY NextStore
<1> QED
  BY <1>1, <1>2, InvariantHolds, PTL DEF Spec, ImplementsBlogStore, Store!Spec
-----------------------------------------------------------------------------
(* The pages of Travelers.  Nobody is signed in, and the sign-out outran   *)
(* no callback: no page is open, and nothing is under way that would push  *)
(* one.                                                                    *)
Deserted(d) ==
  /\ ~inside[d]
  /\ \A i \in DOMAIN notices[d] : notices[d][i] = NoUser
  /\ \A p \in Pubs : post[p].device = d => phase[p] \notin Active

SignedOutQuietly ==
  \A d \in Devices : authUser[d] = NoUser /\ ~outrun[d] => Deserted(d)

PagesOfPublished ==
  \A p \in Pubs : page[p] # "none" => phase[p] = "published"

TravelTyped ==
  /\ page \in [Pubs -> {"none", "reading", "gone", "set up", "empty", "offline"}]
  /\ outrun \in [Devices -> BOOLEAN]

TravelIInv ==
  /\ IInv
  /\ FieldsHome
  /\ TravelTyped
  /\ SignedOutQuietly
  /\ PagesOfPublished
  /\ EmptyPageIsExplained

(* A tap is the only step that makes a publication active; what was tapped *)
(* and what was reported does not change.                                  *)
LEMMA PublicationMoves ==
  ASSUME IInv, [Next]_vars, NEW p \in Pubs
  PROVE  /\ phase[p] # "unused" => phase'[p] # "unused" /\ post'[p] = post[p]
         /\ phase[p] = "published" => phase'[p] = "published" /\ author'[p] = author[p]
         /\ phase'[p] \in Active =>
              \/ phase[p] \in Active
              \/ \E d \in Devices, n \in Names : PublishBlogButtonTapped(d, p, n)
<1> DEFINE Moves == /\ phase[p] # "unused" => phase'[p] # "unused" /\ post'[p] = post[p]
                    /\ phase[p] = "published" =>
                         phase'[p] = "published" /\ author'[p] = author[p]
<1>0. TypeOK
  BY DEF IInv
<1>a. HiddenStep => Moves
  BY DEF HiddenStep
<1>b. UNCHANGED pubVars => Moves /\ phase'[p] = phase[p]
  BY DEF pubVars
<1>1. ASSUME NEW d \in Devices, NEW q \in Pubs, NEW n \in Names,
             PublishBlogButtonTapped(d, q, n)
      PROVE  Moves /\ (phase'[p] = phase[p] \/ p = q)
  BY <1>0, <1>1, <1>a, TapHidden DEF PublishBlogButtonTapped, TypeOK
<1>2. ASSUME NEW d \in Devices, Commit(d) PROVE Moves /\ phase'[p] = phase[p]
  BY <1>2, <1>b DEF Commit
<1>3. ASSUME NEW d \in Devices, Answer(d)
      PROVE  Moves /\ (phase'[p] \in Active => phase[p] \in Active)
  <2>1. Moves
    BY <1>3, <1>a, AnswerHidden
  <2>2. PipelineInQueue /\ phase \in [Pubs -> Phases]
    BY <1>0 DEF IInv, TypeOK
  <2>3. PICK m \in Mutations : m = Head(Current(d))
    BY <1>0, <1>3, <2>2, AnswerFacts, RemoveFrontType DEF TypeOK
  <2>4. \E outcome \in {"failed", "stored", "named"} : NotifyUser(m, outcome)
    BY <1>0, <1>3, <2>2, <2>3, AnswerFacts
  <2>5. phase'[p] = phase[p] \/ phase[p] \in {"info", "author"}
    BY <2>2, <2>4, NotifyUserType DEF Mutations
  <2> QED
    BY <2>1, <2>5 DEF Active
<1>4. ASSUME NEW d \in Devices,
             Session(d) \/ Restart(d) \/ PublishTraps(d) \/ StreamClosed(d)
      PROVE  Moves /\ (phase'[p] \in Active => phase[p] \in Active)
  <2>1. Moves
    BY <1>4, <1>a, DeviceStepsHidden
  <2>2. QuietStep
    BY <1>4, QuietDeviceActions
  <2> QED
    BY <2>1, <2>2 DEF QuietStep, Active
<1>5. ASSUME NEW q \in Pubs, RetrieveFullName(q) \/ ProfileRead(q) \/ ProfileNotRead(q)
      PROVE  Moves /\ (phase'[p] \in Active => phase[p] \in Active)
  <2>1. Moves
    BY <1>0, <1>5, <1>a, CallbacksHidden
  <2>2. phase'[p] = phase[p] \/ phase[p] \in {"stored", "reading"}
    BY <1>0, <1>5 DEF RetrieveFullName, ProfileRead, ProfileNotRead, TypeOK
  <2> QED
    BY <2>1, <2>2 DEF Active
<1>6. ASSUME NEW q \in Pubs, TransferToBlogPage(q)
      PROVE  Moves /\ (phase'[p] \in Active => phase[p] \in Active)
  <2>1. /\ phase[q] = "named" /\ phase' = [phase EXCEPT ![q] = "published"]
        /\ UNCHANGED <<post, author>>
    BY <1>6 DEF TransferToBlogPage
  <2> QED
    BY <1>0, <2>1 DEF TypeOK, Active
<1>7. ASSUME UNCHANGED vars PROVE Moves /\ phase'[p] = phase[p]
  BY <1>7, <1>b DEF vars
<1> HIDE DEF Moves
<1>8. /\ Moves
      /\ phase'[p] \in Active =>
           \/ phase[p] \in Active
           \/ \E d \in Devices, n \in Names : PublishBlogButtonTapped(d, p, n)
  BY <1>1, <1>2, <1>3, <1>4, <1>5, <1>6, <1>7 DEF Next, Runs, Ends, Callback
<1> QED
  BY <1>8 DEF Moves

LEMMA TapSteps ==
  ASSUME TypeOK, NEW d \in Devices, NEW p \in Pubs, NEW n \in Names,
         PublishBlogButtonTapped(d, p, n)
  PROVE  /\ UNCHANGED sessionVars /\ inside[d]
         /\ post'[p].device = d
BY DEF PublishBlogButtonTapped, TypeOK

(* Signed out and deserted, a device stays so until somebody signs in.     *)
LEMMA DesertedStays ==
  ASSUME IInv, [Next]_vars, NEW d \in Devices, Deserted(d), authUser[d] = NoUser,
         authUser'[d] = NoUser
  PROVE  Deserted(d)'
<1>0. TypeOK
  BY DEF IInv
<1> DEFINE Still == /\ inside'[d] = FALSE
                    /\ \/ notices'[d] = notices[d]
                       \/ notices'[d] = << >>
                       \/ notices[d] # << >> /\ notices'[d] = Tail(notices[d])
<1>a. UNCHANGED sessionVars => Still
  BY <1>0 DEF sessionVars, Deserted, TypeOK
<1>1. ASSUME NEW e \in Devices, Session(e) PROVE Still
  <2>0. NoUser \notin Users
    BY ClientAssumption DEF ClientAssumption
  <2>1. ASSUME NEW u \in Users, LoginTapped(e, u) \/ SignInAnswered(e, u) PROVE Still
    <3>1. inside'[d] = FALSE
      BY <1>0, <2>1 DEF LoginTapped, SignInAnswered, Deserted, TypeOK
    <3>2. notices'[d] = notices[d]
      BY <1>0, <2>0, <2>1 DEF LoginTapped, SignInAnswered, UpdateCurrentUser, TypeOK
    <3> QED
      BY <3>1, <3>2
  <2>2. CASE AuthStateChanged(e)
    <3>1. CASE e = d
      <4>1. notices[d] # << >> /\ notices[d] \in Seq(Signers)
        BY <1>0, <2>2, <3>1 DEF AuthStateChanged, TypeOK
      <4>2. 1 \in DOMAIN notices[d] /\ Head(notices[d]) = notices[d][1]
        BY <4>1
      <4>3. Head(notices[d]) = NoUser
        BY <4>2 DEF Deserted
      <4>4. inside'[d] = FALSE /\ notices'[d] = Tail(notices[d])
        BY <1>0, <2>2, <3>1, <4>3 DEF AuthStateChanged, Deserted, TypeOK
      <4> QED
        BY <4>1, <4>4
    <3>2. CASE e # d
      BY <1>0, <2>2, <3>2 DEF AuthStateChanged, Deserted, TypeOK
    <3> QED
      BY <3>1, <3>2
  <2>3. CASE AlreadyLoggedIn(e)
    BY <1>0, <2>3 DEF AlreadyLoggedIn, Deserted, TypeOK
  <2>4. CASE UserProfileButtonTapped(e)
    <3>1. e # d
      BY <2>4 DEF UserProfileButtonTapped, Deserted
    <3> QED
      BY <1>0, <2>4, <3>1 DEF UserProfileButtonTapped, UpdateCurrentUser, Deserted, TypeOK
  <2>5. CASE SignOutByForce(e)
    BY <1>0, <2>5 DEF SignOutByForce, UpdateCurrentUser, Deserted, TypeOK
  <2>6. CASE UrlSaved(e)
    BY <1>0, <2>6 DEF UrlSaved, Deserted, TypeOK
  <2> QED
    BY <1>1, <2>1, <2>2, <2>3, <2>4, <2>5, <2>6 DEF Session
<1>2. ASSUME NEW e \in Devices, Restart(e) \/ PublishTraps(e) PROVE Still
  <2>1. Restart(e)
    BY <1>2 DEF PublishTraps
  <2> QED
    BY <1>0, <2>1 DEF Restart, Deserted, TypeOK
<1>3. ASSUME NEW q \in Pubs, TransferToBlogPage(q) PROVE Still
  <2>1. phase[q] \in Active
    BY <1>3 DEF TransferToBlogPage, Active
  <2>2. post[q].device # d
    BY <2>1 DEF Deserted
  <2> QED
    BY <1>0, <1>3, <2>2 DEF TransferToBlogPage, Deserted, TypeOK
<1>4. ASSUME NEW e \in Devices,
             Commit(e) \/ Answer(e) \/ StreamClosed(e)
             \/ \E p \in Pubs, n \in Names : PublishBlogButtonTapped(e, p, n)
      PROVE  UNCHANGED sessionVars
  BY <1>4 DEF Commit, Answer, WriteAcknowledged, WriteRejected, StreamClosed,
              PublishBlogButtonTapped
<1>5. ASSUME NEW q \in Pubs, RetrieveFullName(q) \/ ProfileRead(q) \/ ProfileNotRead(q)
      PROVE  UNCHANGED sessionVars
  BY <1>5 DEF RetrieveFullName, ProfileRead, ProfileNotRead
<1>6. ASSUME UNCHANGED vars PROVE Still
  BY <1>6, <1>a DEF vars
<1> HIDE DEF Still
<1>7. Still
  BY <1>a, <1>1, <1>2, <1>3, <1>4, <1>5, <1>6 DEF Next, Runs, Ends, Callback
<1>8. notices[d] \in Seq(Signers)
  BY <1>0 DEF TypeOK
<1>9. \A i \in DOMAIN notices'[d] : notices'[d][i] = NoUser
  <2>1. CASE notices'[d] = notices[d] \/ notices'[d] = << >>
    BY <2>1 DEF Deserted
  <2>2. CASE notices[d] # << >> /\ notices'[d] = Tail(notices[d])
    <3>1. \A i \in DOMAIN Tail(notices[d]) :
            i + 1 \in DOMAIN notices[d] /\ Tail(notices[d])[i] = notices[d][i + 1]
      BY <1>8, <2>2
    <3> QED
      BY <2>2, <3>1 DEF Deserted
  <2> QED
    BY <1>7, <2>1, <2>2 DEF Still
<1>10. ASSUME NEW p \in Pubs, post'[p].device = d, phase'[p] \in Active PROVE FALSE
  <2>1. CASE phase[p] \in Active
    <3>1. post'[p] = post[p]
      BY <2>1, PublicationMoves DEF Active
    <3> QED
      BY <1>10, <2>1, <3>1 DEF Deserted
  <2>2. ASSUME NEW e \in Devices, NEW n \in Names, PublishBlogButtonTapped(e, p, n)
        PROVE  FALSE
    BY <1>0, <1>10, <2>2, TapSteps DEF Deserted
  <2> QED
    BY <1>10, <2>1, <2>2, PublicationMoves
<1> QED
  BY <1>7, <1>9, <1>10 DEF Deserted, Still

LEMMA SignOutsKeepDeserted ==
  ASSUME IInv, SignedOutQuietly, TravelTyped, Next, SignOutsSeen
  PROVE  SignedOutQuietly' /\ outrun' \in [Devices -> BOOLEAN]
<1>0. TypeOK
  BY DEF IInv
<1>1. \A d \in Devices : outrun'[d] =
        IF authUser'[d] # NoUser THEN FALSE
        ELSE IF inside[d] /\ ~inside'[d] THEN CallbackDue(d)
        ELSE outrun[d] \/ authUser[d] # NoUser
  BY DEF SignOutsSeen
<1>2. outrun' \in [Devices -> BOOLEAN]
  <2>1. \A d \in Devices : CallbackDue(d) \in BOOLEAN
    BY DEF CallbackDue
  <2>2. \A d \in Devices :
          (IF authUser'[d] # NoUser THEN FALSE
           ELSE IF inside[d] /\ ~inside'[d] THEN CallbackDue(d)
           ELSE outrun[d] \/ authUser[d] # NoUser) \in BOOLEAN
    BY <2>1, Zenon
  <2> QED
    BY <2>2, Zenon DEF SignOutsSeen
<1>3. ASSUME NEW d \in Devices, authUser'[d] = NoUser, ~outrun'[d]
      PROVE  Deserted(d)'
  <2>1. CASE inside[d] /\ ~inside'[d]
    <3>1. ~CallbackDue(d)
      BY <1>1, <1>3, <2>1
    <3>2. \A i \in DOMAIN notices'[d] : notices'[d][i] = NoUser
      BY <3>1 DEF CallbackDue
    <3>3. ASSUME NEW p \in Pubs, post'[p].device = d, phase'[p] \in Active PROVE FALSE
      <4>1. CASE phase[p] \in Active
        <5>1. post'[p] = post[p]
          BY <4>1, PublicationMoves DEF Active
        <5> QED
          BY <3>1, <3>3, <4>1, <5>1 DEF CallbackDue
      <4>2. ASSUME NEW e \in Devices, NEW n \in Names, PublishBlogButtonTapped(e, p, n)
            PROVE  FALSE
        <5>1. inside' = inside
          BY <1>0, <4>2, TapSteps DEF sessionVars
        <5> QED
          BY <2>1, <5>1
      <4> QED
        BY <3>3, <4>1, <4>2, PublicationMoves
    <3> QED
      BY <2>1, <3>2, <3>3 DEF Deserted
  <2>2. CASE ~(inside[d] /\ ~inside'[d])
    <3>1. authUser[d] = NoUser /\ ~outrun[d]
      BY <1>1, <1>3, <2>2
    <3>2. Deserted(d)
      BY <3>1 DEF SignedOutQuietly
    <3> QED
      BY <1>3, <3>1, <3>2, DesertedStays
  <2> QED
    BY <2>1, <2>2
<1> QED
  BY <1>2, <1>3 DEF SignedOutQuietly

LEMMA PushesKeepPages ==
  ASSUME TravelIInv, [Next]_vars, PagesPushed \/ \E d \in Devices : PagesEnd(d)
  PROVE  /\ page' \in [Pubs -> {"none", "reading", "gone", "set up", "empty", "offline"}]
         /\ PagesOfPublished' /\ EmptyPageIsExplained'
<1>1. \A p \in Pubs :
        \/ page'[p] = page[p]
        \/ page'[p] = "reading" /\ phase'[p] = "published"
        \/ page'[p] = "gone" /\ page[p] = "reading"
  BY DEF PagesPushed, PagesEnd
<1>2. \A p \in Pubs : page[p] \in {"none", "reading", "gone", "set up", "empty", "offline"}
  BY DEF TravelIInv, TravelTyped
<1>3. \A p \in Pubs : page'[p] \in {"none", "reading", "gone", "set up", "empty", "offline"}
  BY <1>1, <1>2
<1>4. page' \in [Pubs -> {"none", "reading", "gone", "set up", "empty", "offline"}]
  <2>1. page' = [p \in Pubs |-> page'[p]]
    BY DEF PagesPushed, PagesEnd
  <2> QED
    BY <1>3, <2>1
<1>5. \A p \in Pubs :
        /\ phase[p] # "unused" => phase'[p] # "unused" /\ post'[p] = post[p]
        /\ phase[p] = "published" => phase'[p] = "published" /\ author'[p] = author[p]
  BY PublicationMoves DEF TravelIInv
<1>6. PagesOfPublished'
  BY <1>1, <1>5 DEF TravelIInv, PagesOfPublished
<1>7. ASSUME NEW p \in Pubs, page'[p] = "empty"
      PROVE  \/ author'[p] # post'[p].uid
             \/ \E q \in Pubs \ {p} : phase'[q] # "unused" /\ InfoKey(q)' = InfoKey(p)'
  <2>1. page[p] = "empty" /\ phase[p] = "published"
    BY <1>1, <1>7 DEF TravelIInv, PagesOfPublished
  <2>2. author'[p] = author[p] /\ post'[p] = post[p]
    BY <1>5, <2>1
  <2>3. CASE author[p] # post[p].uid
    BY <2>2, <2>3
  <2>4. CASE author[p] = post[p].uid
    <3>1. PICK q \in Pubs \ {p} : phase[q] # "unused" /\ InfoKey(q) = InfoKey(p)
      BY <2>1, <2>4 DEF TravelIInv, EmptyPageIsExplained
    <3>2. phase'[q] # "unused" /\ post'[q] = post[q]
      BY <1>5, <3>1
    <3> QED
      BY <2>2, <3>1, <3>2 DEF InfoKey
  <2> QED
    BY <2>3, <2>4
<1> QED
  BY <1>4, <1>6, <1>7 DEF EmptyPageIsExplained

(* The read of a page, of a blog that is its user's own and nobody else's: *)
(* the two writes are committed, and none to the same document is queued.  *)
LEMMA OwnPageIsComplete ==
  ASSUME TravelIInv, NEW p \in Pubs, phase[p] = "published", author[p] = post[p].uid,
         \A q \in Pubs \ {p} : phase[q] = "unused" \/ InfoKey(q) # InfoKey(p)
  PROVE  Complete(Shown(post[p].device, DocumentID(p)))
<1>0. IInv /\ TypeOK /\ FieldsHome
  BY DEF TravelIInv, IInv
<1> DEFINE k == InfoKey(p)
           d == post[p].device
           q == Current(d)
           infos == {i \in DOMAIN q : q[i].kind = "info" /\ InfoKey(q[i].pub) = k}
           authors == {i \in DOMAIN q : q[i].kind = "author" /\ AuthorKey(q[i].pub) = k}
<1>1. DocumentID(p) = k
  BY DEF DocumentID, AuthorKey, InfoKey
<1>2. k \in Keys /\ d \in Devices /\ post[p].uid \in Users /\ k[2] = post[p].uid
  BY <1>0 DEF TypeOK, Posts, InfoKey, Keys
<1>3. blogs[k] \in Docs
  BY <1>0, <1>2 DEF TypeOK
<1>4. blogs[k].info = p
  <2>1. blogs[k].info # NoPub
    BY <1>0 DEF IInv, InfoStored, HasInfo
  <2>2. blogs[k].info \in Pubs
    BY <1>3, <2>1 DEF Docs
  <2> QED
    BY <1>0, <1>2, <2>2 DEF FieldsHome
<1>5. Complete(blogs[k])
  BY <1>0, <1>4 DEF IInv, NamedOnceAcknowledged, NamedIfCurrent
<1>6. infos = {}
  <2> SUFFICES ASSUME NEW i \in DOMAIN q, q[i].kind = "info", InfoKey(q[i].pub) = k
               PROVE  FALSE
    OBVIOUS
  <2>1. fsUser[d] \in Signers
    BY <1>0, <1>2 DEF TypeOK, ClientTypeOK
  <2>2. q[i].pub \in Pubs /\ phase[q[i].pub] \in {"info", "lost"}
    BY <1>0, <1>2, <2>1, QueuedFacts DEF Current
  <2> QED
    BY <2>2
<1> DEFINE doc == IF infos = {} THEN blogs[k] ELSE [info |-> q[Max(infos)].pub, author |-> NoUser]
<1>7. Shown(d, k) = IF \E i \in authors : \A j \in infos : j < i
                      THEN [doc EXCEPT !.author = k[2]] ELSE doc
  BY DEF Shown
<1>8. doc = blogs[k]
  BY <1>6
<1> HIDE DEF k, infos, authors, doc
<1>9. Complete([blogs[k] EXCEPT !.author = k[2]])
  <2>1. k[2] # NoUser
    BY <1>2, ClientAssumption DEF ClientAssumption
  <2> QED
    BY <1>3, <1>5, <2>1 DEF Complete, Docs
<1> QED
  BY <1>1, <1>5, <1>7, <1>8, <1>9

LEMMA ReadsKeepPages ==
  ASSUME TravelIInv, NEW p \in Pubs, PageRead(p) \/ PageReadOffline(p)
  PROVE  TravelIInv'
<1>1. /\ UNCHANGED vars /\ UNCHANGED outrun /\ page[p] = "reading"
      /\ page' \in [Pubs -> {"none", "reading", "gone", "set up", "empty", "offline"}]
      /\ \A q \in Pubs : q # p => page'[q] = page[q]
  BY DEF TravelIInv, TravelTyped, PageRead, PageReadOffline
<1>2. phase[p] = "published"
  BY <1>1 DEF TravelIInv, PagesOfPublished
<1>3. UNCHANGED <<queue, fsUser, inflight, authUser, notices, signingIn, inside, saved,
                  switches, phase, post, author, blogs>>
  BY <1>1 DEF vars, clientVars, sessionVars, pubVars
<1>4. IInv'
  BY <1>1, NextIInv DEF TravelIInv
<1>5. FieldsHome'
  BY <1>1, NextStore DEF TravelIInv
<1>6. TravelTyped' /\ SignedOutQuietly' /\ PagesOfPublished'
  <2>1. SignedOutQuietly'
    BY <1>1, <1>3 DEF TravelIInv, SignedOutQuietly, Deserted
  <2>2. PagesOfPublished'
    BY <1>1, <1>2, <1>3 DEF TravelIInv, PagesOfPublished
  <2> QED
    BY <1>1, <2>1, <2>2 DEF TravelIInv, TravelTyped
<1>7. EmptyPageIsExplained'
  <2>1. page'[p] = "empty" =>
          \/ author[p] # post[p].uid
          \/ \E q \in Pubs \ {p} : phase[q] # "unused" /\ InfoKey(q) = InfoKey(p)
    <3>1. page'[p] = "empty" => ~Complete(Shown(post[p].device, DocumentID(p)))
      BY DEF TravelIInv, TravelTyped, PageRead, PageReadOffline
    <3> QED
      BY <1>2, <3>1, OwnPageIsComplete
  <2> QED
    BY ZenonT(30), <1>1, <1>3, <2>1 DEF TravelIInv, EmptyPageIsExplained, InfoKey
<1> QED
  BY <1>4, <1>5, <1>6, <1>7 DEF TravelIInv

LEMMA InitTravel == TravelInit => TravelIInv
<1> SUFFICES ASSUME TravelInit PROVE TravelIInv
  OBVIOUS
<1>1. IInv /\ FieldsHome
  BY InitIInv, InitStore DEF TravelInit
<1>2. TravelTyped /\ PagesOfPublished /\ EmptyPageIsExplained
  BY DEF TravelInit, TravelTyped, PagesOfPublished, EmptyPageIsExplained
<1>3. SignedOutQuietly
  <2>1. \A d \in Devices : ~inside[d] /\ notices[d] = << >>
    BY DEF TravelInit, Init
  <2>2. \A p \in Pubs : phase[p] \notin Active
    BY DEF TravelInit, Init, Active
  <2> QED
    BY <2>1, <2>2 DEF SignedOutQuietly, Deserted
<1> QED
  BY <1>1, <1>2, <1>3 DEF TravelIInv

LEMMA NextTravel == TravelIInv /\ [TravelNext]_travelVars => TravelIInv'
<1> SUFFICES ASSUME TravelIInv, [TravelNext]_travelVars PROVE TravelIInv'
  OBVIOUS
<1>1. CASE /\ Next /\ SignOutsSeen
           /\ PagesPushed \/ \E d \in Devices : PagesEnd(d)
  <2>1. IInv' /\ FieldsHome'
    BY <1>1, NextIInv, NextStore DEF TravelIInv
  <2>2. SignedOutQuietly' /\ outrun' \in [Devices -> BOOLEAN]
    BY <1>1, SignOutsKeepDeserted DEF TravelIInv
  <2>3. /\ page' \in [Pubs -> {"none", "reading", "gone", "set up", "empty", "offline"}]
        /\ PagesOfPublished' /\ EmptyPageIsExplained'
    BY <1>1, PushesKeepPages
  <2> QED
    BY <2>1, <2>2, <2>3 DEF TravelIInv, TravelTyped
<1>2. ASSUME NEW p \in Pubs, PageRead(p) \/ PageReadOffline(p) PROVE TravelIInv'
  BY <1>2, ReadsKeepPages
<1>3. CASE UNCHANGED travelVars
  <2>1. UNCHANGED <<vars, page, outrun>>
    BY <1>3 DEF travelVars
  <2>2. IInv' /\ FieldsHome'
    BY <2>1, NextIInv, NextStore DEF TravelIInv
  <2>3. UNCHANGED <<authUser, notices, inside, phase, post, author>>
    BY <2>1 DEF vars, sessionVars, pubVars
  <2> QED
    BY <2>1, <2>2, <2>3 DEF TravelIInv, TravelTyped, SignedOutQuietly, Deserted,
                            PagesOfPublished, EmptyPageIsExplained, InfoKey
<1> QED
  BY <1>1, <1>2, <1>3 DEF TravelNext, Next

LEMMA TravelInvariantHolds == TravelSpec => []TravelIInv
  BY InitTravel, NextTravel, PTL DEF TravelSpec

(* The blog pages only watch: whatever is proved of Publish holds with     *)
(* them, too.                                                              *)
THEOREM TravelersImplementsPublish == TravelSpec => Spec
<1>1. TravelInit => Init
  BY DEF TravelInit
<1>2. [TravelNext]_travelVars => [Next]_vars
  BY DEF TravelNext, Next, travelVars, PageRead, PageReadOffline
<1> QED
  BY <1>1, <1>2, PTL DEF TravelSpec, Spec

(* With nobody signed in, a page behind the login is open only after a     *)
(* sign-out by force or one that ran ahead of a callback still to come     *)
(* (the closures of signIn, line 128 of the publishing page).              *)
THEOREM OpenPagesExplained == TravelSpec => []InsideIsSignedIn
<1>1. TravelIInv => InsideIsSignedIn
  BY DEF TravelIInv, SignedOutQuietly, Deserted, InsideIsSignedIn
<1> QED
  BY <1>1, TravelInvariantHolds, PTL

(* The page of a blog that was reported uploaded finds all of its fields,  *)
(* under whatever the device has queued, unless another user was signed in *)
(* half way or the same name was published again.                          *)
THEOREM EmptyPagesExplained == TravelSpec => []EmptyPageIsExplained
<1>1. TravelIInv => EmptyPageIsExplained
  BY DEF TravelIInv
<1> QED
  BY <1>1, TravelInvariantHolds, PTL
==============================================================================

---------------------------- MODULE WriteStream ----------------------------
(***************************************************************************)
(* How the Firestore client of one device sends its writes: the write      *)
(* stream (Stream, WriteStream, GrpcStream), the pipeline (RemoteStore)    *)
(* and the token it is opened with (FirebaseAuthCredentialsProvider).      *)
(* Module FirestoreClient has the result, queues worked off in order; here *)
(* are the threads that bring it about:                                    *)
(*                                                                         *)
(*   Auth's queue   changes the user, answers requests for a token         *)
(*   main thread    runs its notices and the answers, in dispatch order    *)
(*   worker queue   owns the stream, the pipeline and the mutation queues  *)
(*   backend        executes what arrives, under the stream's token        *)
(*                                                                         *)
(* A stream needs a token before it opens, and by the time it comes the    *)
(* user may be another and the stream closed and started again.            *)
(***************************************************************************)
EXTENDS Naturals, Sequences, SequencesExt, FiniteSetsExt

CONSTANTS
  Users, NoUser,
  Denied, Invalid,   \* signers, and writes of anyone, the backend refuses
  MaxPendingWrites,  \* kMaxPendingWrites
  MaxWrites,         \* bound on the writes made
  MaxNotices,        \* bound on the changes of user and token
  MaxFailures        \* bound on lost connections and network changes

Signers == Users \cup {NoUser}
Batches == 1 .. MaxWrites
Refused == {x \in Signers \X Batches : x[1] \in Denied \/ x[2] \in Invalid}

ASSUME StreamAssumption ==
  /\ NoUser \notin Users
  /\ Denied \subseteq Signers /\ Invalid \subseteq Batches
  /\ MaxPendingWrites \in Nat \ {0}
  /\ MaxWrites \in Nat /\ MaxNotices \in Nat /\ MaxFailures \in Nat

VARIABLES
  authUser,   \* FIRAuth's _currentUser
  fetching,   \* token requests waiting for the network, with their user
  main,       \* blocks dispatched to the main thread, oldest first
  counter,    \* token_counter of the credentials provider
  worker,     \* tasks of the worker queue, oldest first
  fsUser,     \* SyncEngine::current_user_
  queue,      \* the mutation queue of each user
  stream,     \* the write stream and the pipeline, see below
  answer,     \* what the caller of each write was told
  committed,  \* history: pairs <<token's user, batch id>> executed
  owner,      \* history: whose queue each write was put in
  failures    \* failures so far (for the bound)

vars == <<authUser, fetching, main, counter, worker, fsUser, queue, stream, answer,
          committed, owner, failures>>
authVars == <<authUser, fetching>>
history == <<committed, owner>>

(* The stream's record.  sent and done count writes at the front of the    *)
(* pipeline: those handed to gRPC, and those executed whose answer has not *)
(* been read.                                                              *)
Streams ==
  [state : {"Initial", "Starting", "Open", "Error", "Backoff"},
   closes : Nat,             \* close_count_
   asks : SUBSET [counter : Nat, closes : Nat],  \* tokens asked for
   token : Signers,          \* whose token the open stream carries
   handshake : BOOLEAN,      \* handshake_complete_
   idle : BOOLEAN,           \* is idleness_timer_ running?
   pipeline : Seq(Batches),  \* write_pipeline_
   writing : BOOLEAN,        \* has_active_write_
   sent : Nat, done : Nat,
   status : {"ok", "unavailable", "denied"},  \* the backend's last word
   failing : BOOLEAN,        \* is the failure of the active write in the worker queue,
   ahead : BOOLEAN,          \* and an answer before it?
   failed : BOOLEAN]         \* has an assertion of the source failed?

Init ==
  /\ authUser = NoUser
  /\ fetching = {}
  /\ main = << >>
  /\ counter = 0
  /\ worker = << >>
  /\ fsUser = NoUser
  /\ queue = [u \in Signers |-> << >>]
  /\ stream = [state |-> "Initial", closes |-> 0, asks |-> {}, token |-> NoUser,
               handshake |-> FALSE, idle |-> FALSE, pipeline |-> << >>,
               writing |-> FALSE, sent |-> 0, done |-> 0, status |-> "ok",
               failing |-> FALSE, ahead |-> FALSE, failed |-> FALSE]
  /\ answer = [b \in Batches |-> "none"]
  /\ committed = {}
  /\ owner = [b \in Batches |-> NoUser]
  /\ failures = 0
-----------------------------------------------------------------------------
(* The methods of the stream and of RemoteStore, as functions of the       *)
(* stream s and of the queue q the pipeline is filled from.                *)

IsOpen(s) == s.state = "Open"
IsStarted(s) == s.state \in {"Starting", "Backoff", "Open"}
HardAssert(s, condition) == [s EXCEPT !.failed = @ \/ ~condition]

Start(s) ==
  IF s.state = "Error" THEN [s EXCEPT !.state = "Backoff"]
  ELSE [HardAssert(s, s.state = "Initial") EXCEPT
          !.state = "Starting",
          !.asks = @ \cup {[counter |-> counter, closes |-> s.closes]}]

InhibitBackoff(s) == [HardAssert(s, ~IsStarted(s)) EXCEPT !.state = "Initial"]

StartIfNeeded(s) == IF ~IsStarted(s) /\ s.pipeline # << >> THEN Start(s) ELSE s

(* WriteMutations for what is new in the pipeline: gRPC takes one message  *)
(* at a time, the others wait in the BufferedWriter.                       *)
Write(s) ==
  LET t == [HardAssert(s, s.handshake) EXCEPT !.idle = FALSE] IN
  IF s.writing \/ s.sent = Len(s.pipeline) THEN t
  ELSE [t EXCEPT !.writing = TRUE, !.sent = @ + 1]

(* GetNextMutationBatch, as often as there is room.  A queue is in the      *)
(* order of its batch ids, which are the keys of the database.              *)
NextBatches(s, q) ==
  LET next == {i \in DOMAIN q : s.pipeline = << >> \/ q[i] > Last(s.pipeline)}
      room == MaxPendingWrites - Len(s.pipeline)
  IN  IF next = {} THEN << >> ELSE SubSeq(q, Min(next), Min({Len(q), Min(next) + room - 1}))

FillWritePipeline(s, q) ==
  LET new == NextBatches(s, q)
      t == [s EXCEPT !.pipeline = @ \o new]
  IN  IF t.pipeline = << >> THEN [t EXCEPT !.idle = @ \/ IsOpen(s)]
      ELSE StartIfNeeded(IF new # << >> /\ IsOpen(s) /\ s.handshake THEN Write(t) ELSE t)

(* OnWriteStreamClose finds a permanent error and writes that were sent.   *)
BlamesFront(s, status) == status = "denied" /\ s.pipeline # << >> /\ s.handshake

(* Faulty: what was sent on a stream counts as sent on the next. *)
ClosedKeepsCounts(s, state) ==
  [s EXCEPT !.state = state, !.closes = @ + 1, !.idle = FALSE, !.token = NoUser,
            !.writing = FALSE, !.status = "ok"]

(* Close without its callback: what the error cases and Stop share. *)
Closed(s, state) ==
  [HardAssert(s, IsStarted(s)) EXCEPT
     !.state = state, !.closes = @ + 1, !.idle = FALSE, !.token = NoUser,
     !.writing = FALSE, !.sent = 0, !.done = 0, !.status = "ok",
     !.failing = FALSE, !.ahead = FALSE]

(* Faulty: a failed stream waits for the next write. *)
CloseWithErrorAndWait(s, status, q) ==
  LET t == Closed(s, "Error") IN
  [IF BlamesFront(s, status)
     THEN FillWritePipeline(InhibitBackoff([t EXCEPT !.pipeline = Tail(@)]), q)
     ELSE t
   EXCEPT !.handshake = FALSE]

(* Close with an error, HandleWriteError, and the restart.  q is the queue *)
(* without the write that is blamed.                                       *)
CloseWithError(s, status, q) ==
  LET t == Closed(s, "Error") IN
  [StartIfNeeded(
     IF BlamesFront(s, status)
       THEN FillWritePipeline(InhibitBackoff([t EXCEPT !.pipeline = Tail(@)]), q)
       ELSE t)
   EXCEPT !.handshake = FALSE]

(* Stop, with the network enabled or not; OnWriteStreamClose asserts that  *)
(* nobody needed the stream.                                               *)
Stop(s, enabled) ==
  IF ~IsStarted(s) THEN s
  ELSE [HardAssert(Closed(s, "Initial"), ~(enabled /\ s.pipeline # << >>))
        EXCEPT !.handshake = FALSE]

(* Faulty: the pipeline outlives the connection. *)
RestartNetworkKeepsPipeline(s, q) == FillWritePipeline(InhibitBackoff(Stop(s, FALSE)), q)

(* Faulty: an authenticated connection is used for the next user, too. *)
RestartNetworkKeepsStream(s, q) ==
  FillWritePipeline(
    IF s.handshake /\ s.token # NoUser
      THEN [s EXCEPT !.pipeline = << >>, !.writing = FALSE, !.sent = 0, !.done = 0]
      ELSE InhibitBackoff([Stop(s, FALSE) EXCEPT !.pipeline = << >>]), q)

RestartNetwork(s, q) ==
  FillWritePipeline(InhibitBackoff([Stop(s, FALSE) EXCEPT !.pipeline = << >>]), q)
-----------------------------------------------------------------------------
(* Auth's queue. *)

Notice(u) == [kind |-> "notice", user |-> u]
Token(a, u, ok) ==
  [kind |-> "token", counter |-> a.counter, closes |-> a.closes, user |-> u, ok |-> ok]

(* Of the bounds: how many of a kind wait; and the notices run, dispatched, *)
(* and still to come from the network.                                      *)
Waiting(blocks, kind) == Cardinality({i \in DOMAIN blocks : blocks[i].kind = kind})
NoticesMade == counter + Waiting(main, "notice") + Cardinality(fetching)

(* A sign-in, a sign-out or a refresh of the token by Auth's own timer.    *)
UpdateCurrentUser(u) ==
  /\ NoticesMade < MaxNotices
  /\ authUser' = u
  /\ main' = Append(main, Notice(u))
  /\ UNCHANGED <<fetching, counter, worker, fsUser, queue, stream, answer, history, failures>>

(* getTokenForcingRefresh: nil with nobody signed in, the token there is,  *)
(* or a new one from the network.                                          *)
TakeToken(a) ==
  /\ stream' = [stream EXCEPT !.asks = @ \ {a}]
  /\ \/ main' = Append(main, Token(a, authUser, TRUE)) /\ UNCHANGED fetching
     \/ /\ authUser # NoUser /\ NoticesMade < MaxNotices
        /\ fetching' = fetching \cup {Token(a, authUser, TRUE)}
        /\ UNCHANGED main
  /\ UNCHANGED <<authUser, counter, worker, fsUser, queue, answer, history, failures>>

(* A new token of the current user is announced first; one of a user who   *)
(* is gone is not.                                                         *)
TokenFetched(f) ==
  /\ fetching' = fetching \ {f}
  /\ \/ f.user # authUser /\ main' = Append(main, f)
     \/ f.user = authUser /\ main' = main \o <<Notice(f.user), f>>
  /\ UNCHANGED <<authUser, counter, worker, fsUser, queue, stream, answer, history, failures>>

(* The network fails, or refuses, the request. *)
TokenFailed(f) ==
  /\ failures < MaxFailures
  /\ failures' = failures + 1
  /\ fetching' = fetching \ {f}
  /\ main' = Append(main, [f EXCEPT !.ok = FALSE])
  /\ UNCHANGED <<authUser, counter, worker, fsUser, queue, stream, answer, history>>

(* The main thread. *)

Change(u) == [kind |-> "change", user |-> u]
Resume(x) == [kind |-> "resume", user |-> x.user, closes |-> x.closes, ok |-> x.ok]

RunNotice ==
  /\ main # << >> /\ Head(main).kind = "notice"
  /\ main' = Tail(main)
  /\ counter' = counter + 1
  /\ worker' = Append(worker, Change(Head(main).user))
  /\ UNCHANGED <<authVars, fsUser, queue, stream, answer, history, failures>>

(* Faulty: an answer that is out of date is dropped, and no other asked for. *)
RunTokenDropped ==
  /\ main # << >> /\ Head(main).kind = "token"
  /\ main' = Tail(main)
  /\ worker' = IF Head(main).counter = counter THEN Append(worker, Resume(Head(main))) ELSE worker
  /\ UNCHANGED <<authVars, counter, fsUser, queue, stream, answer, history, failures>>

(* GetToken's callback: after a notice it asks again. *)
RunToken ==
  /\ main # << >> /\ Head(main).kind = "token"
  /\ main' = Tail(main)
  /\ LET x == Head(main) IN
     IF x.counter # counter
       THEN /\ stream' = [stream EXCEPT
                 !.asks = @ \cup {[counter |-> counter, closes |-> x.closes]}]
            /\ UNCHANGED worker
       ELSE worker' = Append(worker, Resume(x)) /\ UNCHANGED stream
  /\ UNCHANGED <<authVars, counter, fsUser, queue, answer, history, failures>>

(* setData, in a callback of the app. *)
AppWrite ==
  /\ Waiting(worker, "write") + Cardinality({b \in Batches : answer[b] # "none"}) < MaxWrites
  /\ worker' = Append(worker, [kind |-> "write"])
  /\ UNCHANGED <<authVars, main, counter, fsUser, queue, stream, answer, history, failures>>
-----------------------------------------------------------------------------
(* The worker queue: first the tasks of the other threads. *)

Task(kind) ==
  /\ worker # << >> /\ Head(worker).kind = kind
  /\ worker' = Tail(worker)

(* SyncEngine::WriteMutations.  Batch ids grow over all queues. *)
RunWrite ==
  LET b == 1 + Cardinality({c \in Batches : answer[c] # "none"}) IN
  /\ Task("write")
  /\ queue' = [queue EXCEPT ![fsUser] = Append(@, b)]
  /\ answer' = [answer EXCEPT ![b] = "waiting"]
  /\ owner' = [owner EXCEPT ![b] = fsUser]
  /\ stream' = FillWritePipeline(stream, queue'[fsUser])
  /\ UNCHANGED <<authVars, main, counter, fsUser, committed, failures>>

(* Faulty: the queue of the previous user is dropped. *)
HandleCredentialChangeDrops ==
  /\ Task("change")
  /\ fsUser' = Head(worker).user
  /\ queue' = [u \in Signers |-> IF u = fsUser' THEN queue[u] ELSE << >>]
  /\ stream' = RestartNetwork(stream, queue'[fsUser'])
  /\ UNCHANGED <<authVars, main, counter, answer, history, failures>>

HandleCredentialChange ==
  /\ Task("change")
  /\ fsUser' = Head(worker).user
  /\ stream' = RestartNetwork(stream, queue[fsUser'])
  /\ UNCHANGED <<authVars, main, counter, queue, answer, history, failures>>

(* Faulty: the answer may be for a stream that was closed since. *)
ResumeStale(s, x) ==
  LET t == HardAssert(s, s.state = "Starting") IN
  IF x.ok THEN [t EXCEPT !.state = "Open", !.token = x.user] ELSE t

(* ResumeStartWithCredentials: gRPC starts the call, and the handshake is  *)
(* sent, within the same task.  Or there is no token.                      *)
ResumeStart(s, x) ==
  IF s.closes # x.closes THEN s
  ELSE LET t == HardAssert(s, s.state = "Starting") IN
       IF x.ok THEN [HardAssert(t, ~t.handshake) EXCEPT !.state = "Open", !.token = x.user]
       ELSE CloseWithError(t, "unavailable", queue[fsUser])

RunResume ==
  /\ Task("resume")
  /\ stream' = ResumeStart(stream, Head(worker))
  /\ UNCHANGED <<authVars, main, counter, fsUser, queue, answer, history, failures>>

(* What gRPC completes.  The first answer of a stream is that to the       *)
(* handshake; then the pipeline is sent.                                   *)
HandshakeAnswered ==
  /\ IsOpen(stream) /\ ~stream.handshake /\ stream.status = "ok"
  /\ stream' = Write([stream EXCEPT !.handshake = TRUE])
  /\ UNCHANGED <<authVars, main, counter, worker, fsUser, queue, answer, history, failures>>

(* OnWrite: the next buffered message goes out. *)
Written ==
  /\ stream.writing /\ ~stream.failing
  /\ stream' = IF stream.sent < Len(stream.pipeline)
                 THEN [stream EXCEPT !.sent = @ + 1]
                 ELSE [stream EXCEPT !.writing = FALSE]
  /\ UNCHANGED <<authVars, main, counter, worker, fsUser, queue, answer, history, failures>>

(* A write fails once the call has ended.  One read is always pending: its *)
(* completion, if any answer came, is in the worker queue before.          *)
WriteFailed ==
  /\ stream.status = "denied" /\ stream.writing /\ ~stream.failing
  /\ stream.sent > stream.done + 1
  /\ stream' = [stream EXCEPT !.failing = TRUE, !.ahead = @ \/ stream.done > 0]
  /\ UNCHANGED <<authVars, main, counter, worker, fsUser, queue, answer, history, failures>>

CanRead == stream.done > 0 /\ (stream.failing => stream.ahead)

(* Faulty: a write counts as made once it was sent. *)
MutationResultUnsent ==
  LET b == stream.pipeline[1] IN
  /\ stream.sent > 0 /\ ~stream.failing
  /\ answer' = [answer EXCEPT ![b] = "acknowledged"]
  /\ queue' = [queue EXCEPT ![fsUser] = RemoveFirst(@, b)]
  /\ stream' = FillWritePipeline([stream EXCEPT
       !.pipeline = Tail(@), !.sent = @ - 1, !.done = IF @ > 0 THEN @ - 1 ELSE 0], queue'[fsUser])
  /\ UNCHANGED <<authVars, main, counter, worker, fsUser, history, failures>>

(* OnWriteStreamMutationResult, with HandleSuccessfulWrite: an answer      *)
(* concerns the front of the pipeline.                                     *)
MutationResult ==
  LET b == stream.pipeline[1] IN
  /\ CanRead
  /\ answer' = [answer EXCEPT ![b] = "acknowledged"]
  /\ queue' = [queue EXCEPT ![fsUser] = RemoveFirst(@, b)]
  /\ stream' = FillWritePipeline([stream EXCEPT !.pipeline = Tail(@), !.sent = @ - 1,
                                                !.done = @ - 1, !.ahead = FALSE], queue'[fsUser])
  /\ UNCHANGED <<authVars, main, counter, worker, fsUser, history, failures>>

(* OnOperationFailed, then OnStreamFinish with the backend's status.  The  *)
(* operation that fails is the read after the last answer, or the active   *)
(* write: then the answers not read yet are dropped, as they are when the  *)
(* connection is lost.                                                     *)
StreamFinished ==
  /\ \/ stream.status = "unavailable"
     \/ stream.status = "denied" /\ stream.done = 0
     \/ stream.failing /\ ~stream.ahead
  /\ IF BlamesFront(stream, stream.status)
       THEN LET b == stream.pipeline[1] IN
            /\ answer' = [answer EXCEPT ![b] = "rejected"]
            /\ queue' = [queue EXCEPT ![fsUser] = RemoveFirst(@, b)]
       ELSE UNCHANGED <<answer, queue>>
  /\ stream' = CloseWithError(stream, stream.status, queue'[fsUser])
  /\ UNCHANGED <<authVars, main, counter, worker, fsUser, history, failures>>

(* Timers. *)
BackoffElapsed ==
  /\ stream.state = "Backoff"
  /\ stream' = Start([stream EXCEPT !.state = "Initial"])
  /\ UNCHANGED <<authVars, main, counter, worker, fsUser, queue, answer, history, failures>>

IdleTimeout ==
  /\ stream.idle
  /\ stream' = Stop(stream, TRUE)
  /\ UNCHANGED <<authVars, main, counter, worker, fsUser, queue, answer, history, failures>>

(* The connectivity monitor sees another network. *)
NetworkChanged ==
  /\ failures < MaxFailures
  /\ failures' = failures + 1
  /\ stream' = RestartNetwork(stream, queue[fsUser])
  /\ UNCHANGED <<authVars, main, counter, worker, fsUser, queue, answer, history>>
-----------------------------------------------------------------------------
(* The backend and the connection. *)

Arrived == IsOpen(stream) /\ stream.status = "ok" /\ stream.done < stream.sent
Next1 == <<stream.token, stream.pipeline[stream.done + 1]>>

Commit ==
  /\ Arrived /\ Next1 \notin Refused
  /\ committed' = committed \cup {Next1}
  /\ stream' = [stream EXCEPT !.done = @ + 1]
  /\ UNCHANGED <<authVars, main, counter, worker, fsUser, queue, answer, owner, failures>>

(* The backend ends the stream at the first write it refuses. *)
Refuse ==
  /\ Arrived /\ Next1 \in Refused
  /\ stream' = [stream EXCEPT !.status = "denied"]
  /\ UNCHANGED <<authVars, main, counter, worker, fsUser, queue, answer, history, failures>>

ConnectionLost ==
  /\ IsOpen(stream) /\ stream.status = "ok"
  /\ failures < MaxFailures
  /\ failures' = failures + 1
  /\ stream' = [stream EXCEPT !.status = "unavailable"]
  /\ UNCHANGED <<authVars, main, counter, worker, fsUser, queue, answer, history>>
-----------------------------------------------------------------------------
Auth == \/ \E a \in stream.asks : TakeToken(a)
        \/ \E f \in fetching : TokenFetched(f) \/ TokenFailed(f)
MainThread == RunNotice \/ RunToken
Worker == RunWrite \/ HandleCredentialChange \/ RunResume
Grpc == \/ HandshakeAnswered \/ Written \/ WriteFailed \/ MutationResult
        \/ StreamFinished \/ Commit \/ Refuse

Next ==
  \/ \E u \in Signers : UpdateCurrentUser(u)
  \/ AppWrite
  \/ Auth \/ MainThread \/ Worker \/ Grpc
  \/ BackoffElapsed \/ IdleTimeout
  \/ NetworkChanged \/ ConnectionLost

(* The threads run what they are given, gRPC and the backend get on, and   *)
(* the backoff delay is finite.  Nobody need write, sign in, or fail.      *)
Fairness ==
  /\ WF_vars(Auth) /\ WF_vars(MainThread) /\ WF_vars(Worker)
  /\ WF_vars(Grpc) /\ WF_vars(BackoffElapsed)

Spec == Init /\ [][Next]_vars
FairSpec == Spec /\ Fairness
-----------------------------------------------------------------------------
(* Every variable in its range; the counts stay within the pipeline.       *)
TypeOK ==
  /\ authUser \in Signers /\ fsUser \in Signers
  /\ counter \in 0 .. MaxNotices /\ failures \in 0 .. MaxFailures
  /\ queue \in [Signers -> Seq(Batches)]
  /\ stream.state \in {"Initial", "Starting", "Open", "Error", "Backoff"}
  /\ stream.token \in Signers
  /\ stream.pipeline \in Seq(Batches) /\ Len(stream.pipeline) <= MaxPendingWrites
  /\ stream.done <= stream.sent /\ stream.sent <= Len(stream.pipeline)
  /\ answer \in [Batches -> {"none", "waiting", "acknowledged", "rejected"}]

(* No assertion of the stream or of RemoteStore fails, whatever order the  *)
(* timers, the token, the network and the notices come in: a stream is     *)
(* started, resumed and stopped only when it may be, its idle timer does   *)
(* not run while it has writes to send (OnWriteStreamClose would find them *)
(* with nobody to restart it), and nothing is sent before the handshake.   *)
AssertionsHold == ~stream.failed

(* A write is executed under the token of the user whose queue it was put  *)
(* in: the users may change, and change back, while a token is on its way, *)
(* and the stream it is for may be closed and started again meanwhile.     *)
CommittedAsOwner == \A x \in committed : owner[x[2]] = x[1]

(* What was sent is the front of the current user's queue: the answers     *)
(* carry no batch id and are matched by position alone.                    *)
PipelineIsQueueFront == IsPrefix(stream.pipeline, queue[fsUser])

(* A write the caller is told was made was made, by its owner.             *)
AcknowledgedIsCommitted ==
  \A b \in Batches : answer[b] = "acknowledged" => <<owner[b], b>> \in committed

(* HandleWriteError (remote_store.cc:513): after a permanent error "the    *)
(* request itself was the problem", so the write at the front, which is    *)
(* dropped and reported as rejected, is one the backend refused.           *)
RejectedWasRefused ==
  \A b \in Batches : answer[b] = "rejected" => <<owner[b], b>> \in Refused \ committed

(* A request for a token is in one of four places: asked for, waiting for  *)
(* the network, answered on the main thread, answered on the worker queue. *)
(* It is current while its stream has not been closed.                     *)
Current(x) == x.closes = stream.closes

Asking == \E a \in stream.asks : Current(a)
Fetching == \E f \in fetching : Current(f)
Answered == \E i \in DOMAIN main : main[i].kind = "token" /\ Current(main[i])
Resuming == \E i \in DOMAIN worker : worker[i].kind = "resume" /\ Current(worker[i])

(* Nobody waits for what will not come.  A write that was not answered is  *)
(* in its owner's queue.  If that is the queue being sent, there is a      *)
(* stream that waits for its backoff, for a token that is on its way, for  *)
(* its handshake, for the write that is being sent, or for an answer to    *)
(* all that the pipeline has.                                              *)
WaitingIsServed ==
  \A b \in Batches : answer[b] = "waiting" =>
    /\ \E i \in DOMAIN queue[owner[b]] : queue[owner[b]][i] = b
    /\ owner[b] = fsUser =>
         /\ stream.pipeline # << >>
         /\ \/ stream.state = "Backoff"
            \/ stream.state = "Starting" /\ (Asking \/ Fetching \/ Answered \/ Resuming)
            \/ /\ stream.state = "Open"
               /\ ~stream.handshake \/ stream.writing \/ stream.sent = Len(stream.pipeline)

(* A write waiting in the current user's queue is answered, unless the     *)
(* user changes first.                                                     *)
WritesAreAnswered ==
  \A b \in Batches :
    answer[b] = "waiting" /\ owner[b] = fsUser ~> answer[b] # "waiting" \/ owner[b] # fsUser

(* All this machinery does, as long as the backend refuses either all or   *)
(* none of a user's writes, is what module FirestoreClient says in one     *)
(* step each.                                                              *)
Device == 1
Client == INSTANCE FirestoreClient WITH
  Devices <- {Device}, fsUser <- [d \in {Device} |-> fsUser],
  queue <- [d \in {Device} |-> queue], inflight <- [d \in {Device} |-> stream.done]

ClientStep ==
  \/ \E b \in Batches : Client!WriteMutations(Device, b)
  \/ Client!CommitWrite(Device)
  \/ Client!HandleSuccessfulWrite(Device)
  \/ Client!HandleRejectedWrite(Device)
  \/ Client!OnWriteStreamClose(Device)
  \/ \E u \in Signers : Client!HandleCredentialChange(Device, u)

ImplementsClient == Client!ClientInit /\ [][ClientStep]_(Client!clientVars)
=============================================================================

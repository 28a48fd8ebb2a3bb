------------------------------ MODULE ReadOnce ------------------------------
(***************************************************************************)
(* How the Firestore client of one device answers getDocument, which the   *)
(* pages of Travelers call for profiles and blogs: a listener on the       *)
(* document that is removed at its first event.  The event waits for the   *)
(* backend as long as the client may be online, and comes from the cache   *)
(* once OnlineStateTracker gives up.                                       *)
(*                                                                         *)
(*   main thread    calls getDocument, runs the events                     *)
(*   worker queue   owns the listeners, the view, the watch stream and the *)
(*                  tracker, the fields of the record client               *)
(*   backend        answers, refuses, or is not heard of                   *)
(*                                                                         *)
(* The reads are of the same document: those in progress share one query,  *)
(* one view and one target on the watch stream.                            *)
(***************************************************************************)
EXTENDS Naturals, Sequences, SequencesExt, FiniteSetsExt

CONSTANTS
  MaxReads,   \* bound on the calls of getDocument
  MaxLosses,  \* bound on the losses of a working connection
  MaxEvents   \* bound on the events waiting for the main thread

ASSUME ReadsAssumption ==
  MaxReads \in Nat /\ MaxLosses \in Nat /\ MaxEvents \in Nat \ {0}

Reads == 1 .. MaxReads

VARIABLES
  made,      \* how many reads were called
  worker,    \* tasks of the worker queue, oldest first
  main,      \* events dispatched to the main thread, oldest first
  muted,     \* the listeners whose muted_ is set
  answers,   \* what the completion of each read was called with
  client,    \* what the worker queue owns
  losses     \* losses so far (for the bound)

vars == <<made, worker, main, muted, answers, client, losses>>

(* An event: a snapshot of the document, or the lack of one, from the      *)
(* backend or from the cache; or an error.                                 *)
Kinds == {"document", "missing", "cached", "unavailable", "error"}
Events == [read : Reads, kind : Kinds]

Clients ==
  [listeners : SUBSET Reads,   \* of the query; empty when it is not in queries_
   raised : SUBSET Reads,      \* those with raised_initial_event_
   view : {"none", "local", "synced"},  \* the sync state of the query's view
   cached : BOOLEAN,           \* is the document in the local cache?
   target : BOOLEAN,           \* is the query in listen_targets_?
   stream : {"Initial", "Starting", "Open", "Error", "Backoff"},
   asked : BOOLEAN,            \* was the target sent on the open stream?
   idle : BOOLEAN,             \* is the stream's idleness_timer_ running?
   state : {"Unknown", "Online", "Offline"},
   failures : 0 .. 1,          \* watch_stream_failures_, up to its limit of 1
   timer : BOOLEAN,            \* is online_state_timer_ running?
   out : Seq(Events),     \* raised by the task, so far
   failed : BOOLEAN]           \* has an assertion of the source failed?

Init ==
  /\ made = 0
  /\ worker = << >>
  /\ main = << >>
  /\ muted = {}
  /\ answers = [r \in Reads |-> << >>]
  /\ losses = 0
  /\ \E cached \in BOOLEAN :
       client = [listeners |-> {}, raised |-> {}, view |-> "none", cached |-> cached,
                 target |-> FALSE, stream |-> "Initial", asked |-> FALSE, idle |-> FALSE,
                 state |-> "Unknown", failures |-> 0, timer |-> FALSE, out |-> << >>,
                 failed |-> FALSE]
-----------------------------------------------------------------------------
(* The methods that run on the worker queue, as functions of the client c. *)

HardAssert(c, condition) == [c EXCEPT !.failed = @ \/ ~condition]

(* The listeners rs get the view as it is. *)
Raise(c, rs) ==
  LET kind == IF c.view = "synced" THEN IF c.cached THEN "document" ELSE "missing"
              ELSE IF c.cached THEN "cached" ELSE "unavailable"
  IN  [c EXCEPT !.raised = @ \cup rs,
                !.out = @ \o [i \in 1 .. Cardinality(rs) |->
                                [read |-> SetToSeq(rs)[i], kind |-> kind]]]

(* wait_for_sync_when_online is set: nothing from the cache but offline.   *)
ShouldRaiseInitialEvent(c) == c.view = "synced" \/ c.state = "Offline"

OnViewSnapshot(c) ==
  Raise(c, {r \in c.listeners : r \in c.raised \/ ShouldRaiseInitialEvent(c)})

(* Faulty: a view stays synced when the client goes offline. *)
SetAndBroadcastKeepsView(c, state) ==
  LET d == [c EXCEPT !.state = state] IN
  IF state = c.state \/ c.view = "none" \/ ~ShouldRaiseInitialEvent(d) THEN d
  ELSE Raise(d, d.listeners \ d.raised)

(* Faulty: only the listeners that had an event are told. *)
SetAndBroadcastToRaised(c, state) ==
  LET d == [c EXCEPT !.state = state] IN
  IF state = "Offline" /\ d.view = "synced"
    THEN Raise([d EXCEPT !.view = "local"], d.listeners \cap d.raised) ELSE d

(* The tracker's callback: first the view, which is not current any more   *)
(* when the client goes offline, then the listeners without an event.      *)
SetAndBroadcast(c, state) ==
  LET d == [c EXCEPT !.state = state]
      e == IF state = "Offline" /\ d.view = "synced"
             THEN Raise([d EXCEPT !.view = "local"], d.listeners \cap d.raised) ELSE d
  IN  IF state = c.state \/ c.view = "none" \/ ~ShouldRaiseInitialEvent(e) THEN e
      ELSE Raise(e, e.listeners \ e.raised)

UpdateState(c, state) ==
  SetAndBroadcast([c EXCEPT !.timer = FALSE, !.failures = 0], state)

HandleWatchStreamStart(c) ==
  IF c.failures # 0 THEN c
  ELSE [HardAssert(SetAndBroadcast(c, "Unknown"), ~c.timer) EXCEPT !.timer = TRUE]

(* Faulty: a failed connection leaves the tracker's timer running. *)
HandleWatchStreamFailureKeepsTimer(c) ==
  IF c.state = "Online" THEN SetAndBroadcast(c, "Unknown")
  ELSE SetAndBroadcast([c EXCEPT !.failures = 1], "Offline")

HandleWatchStreamFailure(c) ==
  IF c.state = "Online"
    THEN HardAssert(SetAndBroadcast(c, "Unknown"), c.failures = 0 /\ ~c.timer)
    ELSE SetAndBroadcast([c EXCEPT !.failures = 1, !.timer = FALSE], "Offline")

IsStarted(c) == c.stream \in {"Starting", "Backoff", "Open"}
ShouldStartWatchStream(c) == ~IsStarted(c) /\ c.target

StartWatchStream(c) ==
  HandleWatchStreamStart([c EXCEPT
    !.stream = IF @ = "Error" THEN "Backoff" ELSE "Starting"])

(* The stream ends with an error. *)
StreamClosed(c) ==
  LET d == [c EXCEPT !.stream = "Error", !.asked = FALSE, !.idle = FALSE] IN
  IF ShouldStartWatchStream(d) THEN StartWatchStream(HandleWatchStreamFailure(d))
  ELSE UpdateState(d, "Unknown")

(* The client stops it, with the network enabled or not. *)
Stop(c, enabled) ==
  IF ~IsStarted(c) THEN c
  ELSE LET d == [c EXCEPT !.stream = "Initial", !.asked = FALSE, !.idle = FALSE]
       IN  UpdateState(HardAssert(d, ~(enabled /\ c.target)), "Unknown")

RestartNetwork(c) ==
  LET d == [UpdateState(Stop(c, FALSE), "Unknown") EXCEPT !.stream = "Initial"] IN
  IF ShouldStartWatchStream(d) THEN StartWatchStream(d) ELSE d

(* RemoteStore::Listen and StopListening. *)
ListenToTarget(c) ==
  LET d == [c EXCEPT !.target = TRUE] IN
  IF ShouldStartWatchStream(d) THEN StartWatchStream(d)
  ELSE IF d.stream = "Open" THEN [d EXCEPT !.asked = TRUE, !.idle = FALSE] ELSE d

StopListening(c) ==
  LET d == [HardAssert(c, c.target) EXCEPT !.target = FALSE, !.view = "none"] IN
  IF d.stream = "Open" THEN [d EXCEPT !.asked = FALSE, !.idle = TRUE]
  ELSE UpdateState(d, "Unknown")
-----------------------------------------------------------------------------
(* Faulty: the events stay with the worker queue, too. *)
PerformKeepsEvents(c) ==
  /\ client' = c
  /\ main' = main \o c.out

(* The end of a task: its events are dispatched. *)
Perform(c) ==
  /\ client' = [c EXCEPT !.out = << >>]
  /\ main' = main \o c.out

Task(kind) ==
  /\ worker # << >> /\ Head(worker).kind = kind
  /\ worker' = Tail(worker)

(* A listener is added to the query, or is its first.                      *)
AddQueryListener ==
  /\ Task("add")
  /\ LET r == Head(worker).read
         c == [client EXCEPT !.listeners = @ \cup {r}] IN
     Perform(
       IF client.listeners = {}
         THEN OnViewSnapshot([ListenToTarget(HardAssert(c, c.view = "none"))
                              EXCEPT !.view = "local"])
       ELSE IF ShouldRaiseInitialEvent(c) THEN Raise(c, {r})
       ELSE c)
  /\ UNCHANGED <<made, muted, answers, losses>>

(* Nothing to remove after an error. *)
RemoveQueryListener ==
  /\ Task("remove")
  /\ LET c == [client EXCEPT !.listeners = @ \ {Head(worker).read}] IN
     Perform(IF client.listeners # {} /\ c.listeners = {} THEN StopListening(c) ELSE c)
  /\ UNCHANGED <<made, muted, answers, losses>>

(* The token comes, and the targets are sent with the handshake. *)
OnWatchStreamOpen ==
  /\ client.stream = "Starting"
  /\ Perform([client EXCEPT !.stream = "Open", !.asked = client.target])
  /\ UNCHANGED <<made, worker, muted, answers, losses>>

(* No token, a connection that cannot be made, or one that is lost. *)
StreamFailed ==
  /\ client.stream \in {"Starting", "Open"}
  /\ Len(main) < MaxEvents
  /\ losses' = IF client.state = "Online" THEN losses + 1 ELSE losses
  /\ losses' <= MaxLosses
  /\ Perform(StreamClosed(client))
  /\ UNCHANGED <<made, worker, muted, answers>>

BackoffElapsed ==
  /\ client.stream = "Backoff"
  /\ Perform([client EXCEPT !.stream = "Starting"])
  /\ UNCHANGED <<made, worker, muted, answers, losses>>

IdleTimeout ==
  /\ client.idle
  /\ Perform(Stop(client, TRUE))
  /\ UNCHANGED <<made, worker, muted, answers, losses>>

(* Ten seconds without a message. *)
OnlineStateTimeout ==
  /\ client.timer
  /\ Perform(SetAndBroadcast(
       [HardAssert(client, client.state = "Unknown") EXCEPT !.timer = FALSE], "Offline"))
  /\ UNCHANGED <<made, worker, muted, answers, losses>>

(* The user or the network changes. *)
NetworkRestarted ==
  /\ losses < MaxLosses
  /\ losses' = losses + 1
  /\ Perform(RestartNetwork(client))
  /\ UNCHANGED <<made, worker, muted, answers>>

(* OnWatchStreamChange.  The backend acknowledges what it was sent ...     *)
TargetAcknowledged ==
  /\ client.stream = "Open" /\ (client.asked \/ client.idle)
  /\ Perform(UpdateState(client, "Online"))
  /\ UNCHANGED <<made, worker, muted, answers, losses>>

(* ... sends a consistent snapshot (a document is never deleted) ...       *)
WatchSnapshot ==
  /\ client.stream = "Open" /\ client.asked
  /\ Len(main) < MaxEvents
  /\ \E cached \in {TRUE, client.cached} :
       LET c == [UpdateState(client, "Online") EXCEPT !.view = "synced", !.cached = cached]
       IN  Perform(IF client.view = "synced" /\ client.cached = cached THEN c
                   ELSE OnViewSnapshot(c))
  /\ UNCHANGED <<made, worker, muted, answers, losses>>

(* Faulty: the target of a refused listen is kept. *)
TargetErrorKeepsTarget ==
  /\ client.stream = "Open" /\ client.asked
  /\ LET c == UpdateState(client, "Online")
         rs == SetToSeq(c.listeners) IN
     Perform([c EXCEPT !.listeners = {}, !.view = "none",
                       !.out = @ \o [i \in DOMAIN rs |-> [read |-> rs[i], kind |-> "error"]]])
  /\ UNCHANGED <<made, worker, muted, answers, losses>>

(* ... or refuses the target: its listeners are told, and gone.            *)
ProcessTargetError ==
  /\ client.stream = "Open" /\ client.asked
  /\ LET c == UpdateState(client, "Online")
         rs == SetToSeq(c.listeners) IN
     Perform([c EXCEPT !.listeners = {}, !.view = "none", !.target = FALSE, !.asked = FALSE,
                       !.out = @ \o [i \in DOMAIN rs |-> [read |-> rs[i], kind |-> "error"]]])
  /\ UNCHANGED <<made, worker, muted, answers, losses>>
-----------------------------------------------------------------------------
(* The main thread. *)

GetDocument ==
  /\ made < MaxReads
  /\ made' = made + 1
  /\ worker' = Append(worker, [kind |-> "add", read |-> made + 1])
  /\ UNCHANGED <<main, muted, answers, client, losses>>

(* Faulty: the registration is removed without muting the listener. *)
RunEventUnmuted ==
  /\ main # << >>
  /\ main' = Tail(main)
  /\ LET e == Head(main) IN
     /\ answers' = [answers EXCEPT ![e.read] = Append(@, e.kind)]
     /\ worker' = IF e.kind = "error" THEN worker
                  ELSE Append(worker, [kind |-> "remove", read |-> e.read])
  /\ UNCHANGED <<made, muted, client, losses>>

(* ListenOnce::OnEvent removes the registration, which mutes the listener  *)
(* at once, and calls the completion.  An error leaves nothing to remove.  *)
RunEvent ==
  /\ main # << >>
  /\ main' = Tail(main)
  /\ LET e == Head(main) IN
     IF e.read \in muted THEN UNCHANGED <<worker, muted, answers>>
     ELSE /\ answers' = [answers EXCEPT ![e.read] = Append(@, e.kind)]
          /\ IF e.kind = "error" THEN UNCHANGED <<worker, muted>>
             ELSE /\ muted' = muted \cup {e.read}
                  /\ worker' = Append(worker, [kind |-> "remove", read |-> e.read])
  /\ UNCHANGED <<made, client, losses>>
-----------------------------------------------------------------------------
Worker == AddQueryListener \/ RemoveQueryListener
Backend == TargetAcknowledged \/ WatchSnapshot \/ ProcessTargetError

Next ==
  \/ GetDocument \/ RunEvent
  \/ Worker
  \/ OnWatchStreamOpen \/ StreamFailed \/ BackoffElapsed \/ IdleTimeout
  \/ OnlineStateTimeout \/ NetworkRestarted
  \/ Backend

(* The threads run, the timers expire, a request for a token ends, and an  *)
(* open connection brings the snapshot or is found lost (gRPC's keepalive).*)
(* Attempts may fail for ever; what was acknowledged is lost MaxLosses     *)
(* times.                                                                  *)
Fairness ==
  /\ WF_vars(RunEvent) /\ WF_vars(Worker)
  /\ WF_vars(OnlineStateTimeout) /\ WF_vars(BackoffElapsed)
  /\ WF_vars(OnWatchStreamOpen \/ StreamFailed)
  /\ WF_vars(WatchSnapshot \/ ProcessTargetError \/ StreamFailed)

Spec == Init /\ [][Next]_vars
FairSpec == Spec /\ Fairness
-----------------------------------------------------------------------------
(* Every variable in its range. *)
TypeOK ==
  /\ made \in 0 .. MaxReads
  /\ muted \subseteq Reads
  /\ client.listeners \subseteq Reads /\ client.raised \subseteq Reads
  /\ client.view \in {"none", "local", "synced"}
  /\ client.stream \in {"Initial", "Starting", "Open", "Error", "Backoff"}
  /\ client.state \in {"Unknown", "Online", "Offline"}
  /\ client.out = << >>

(* No assertion of the tracker, RemoteStore or SyncEngine fails.           *)
AssertionsHold == ~client.failed

(* The completion of a read is called once at most: the second event of a  *)
(* listener may be on its way when the first removes it, and its promise   *)
(* has been used.                                                          *)
AnsweredOnce == \A r \in Reads : Len(answers[r]) <= 1

(* What is shown as the backend's word is not older than the client's      *)
(* going offline.                                                          *)
SyncedIsOnline == client.view = "synced" => client.state # "Offline"

(* The watch stream has a target as long as somebody listens, no longer.   *)
TargetIsListenedTo == client.target <=> client.listeners # {}

(* Every read is answered, with or without a connection. *)
ReadsAreAnswered ==
  \A r \in Reads : made >= r ~> answers[r] # << >>
=============================================================================

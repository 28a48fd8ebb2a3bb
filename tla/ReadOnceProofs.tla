--------------------------- MODULE ReadOnceProofs ---------------------------
(***************************************************************************)
(* Proofs about ReadOnce, for every number of reads, losses and events.    *)
(* The inductive invariant says how the fields of the client belong        *)
(* together (Connected) and where the events of a read may still be        *)
(* (Delivered).                                                            *)
(***************************************************************************)
EXTENDS ReadOnce, FiniteSetTheorems, TLAPS

(* What holds of the client's fields between two tasks.  A target is kept  *)
(* for the listeners and asked for on an open stream; the tracker's timer  *)
(* runs only while a started stream has neither failed nor been heard of.  *)
Connected(c) ==
  /\ ~c.failed
  /\ c.target <=> c.listeners # {}
  /\ c.view = "none" <=> c.listeners = {}
  /\ c.view = "synced" => c.state # "Offline"
  /\ c.asked => c.stream = "Open" /\ c.target
  /\ c.idle => c.stream = "Open" /\ ~c.target
  /\ c.timer => c.state = "Unknown" /\ IsStarted(c)
  /\ c.state = "Online" => c.failures = 0

Tasks == [kind : {"add", "remove"}, read : Reads]

Typed ==
  /\ made \in 0 .. MaxReads
  /\ worker \in Seq(Tasks)
  /\ main \in Seq(Events)
  /\ muted \subseteq Reads
  /\ answers \in [Reads -> Seq(Kinds)]
  /\ client \in Clients /\ client.out = << >>

(* The listener of r has been added. *)
Added(r) ==
  /\ r <= made
  /\ \A i \in DOMAIN worker : worker[i].kind = "add" => worker[i].read # r

(* It has been, and is gone. *)
Over(r) == Added(r) /\ r \notin client.listeners

AddedOnce ==
  \A i, j \in DOMAIN worker :
    /\ worker[i].read <= made
    /\ worker[i].kind = "add" /\ worker[j].kind = "add" /\ worker[i].read = worker[j].read
         => i = j

(* Events belong to listeners that were added.  An error is the last of    *)
(* its listener, which is gone; and a read that was answered hears no      *)
(* more, being muted or gone.                                              *)
Delivered ==
  /\ \A r \in client.listeners : Added(r)
  /\ \A i \in DOMAIN main :
       /\ Added(main[i].read)
       /\ main[i].kind = "error" =>
            /\ Over(main[i].read)
            /\ \A j \in DOMAIN main : j > i => main[j].read # main[i].read
  /\ \A r \in Reads : answers[r] # << >> =>
       /\ Len(answers[r]) = 1
       /\ \/ r \in muted
          \/ Over(r) /\ \A i \in DOMAIN main : main[i].read # r

IInv == Typed /\ Connected(client) /\ AddedOnce /\ Delivered
-----------------------------------------------------------------------------
(* SetToSeq lists a set, each element once. *)
LEMMA Listed ==
  ASSUME NEW rs \in SUBSET Reads
  PROVE  /\ Cardinality(rs) \in Nat
         /\ SetToSeq(rs) \in [1 .. Cardinality(rs) -> rs]
         /\ \A i, j \in 1 .. Cardinality(rs) : SetToSeq(rs)[i] = SetToSeq(rs)[j] => i = j
<1>1. IsFiniteSet(rs)
  <2>1. IsFiniteSet(Reads)
    BY FS_Interval, ReadsAssumption DEF Reads, ReadsAssumption
  <2> QED
    BY <2>1, FS_Subset
<1>2. Cardinality(rs) \in Nat /\ ExistsBijection(1 .. Cardinality(rs), rs)
  BY <1>1, FS_CardinalityType
<1>3. PICK f \in [1 .. Cardinality(rs) -> rs] : IsInjective(f)
  BY <1>2 DEF ExistsBijection, Bijection, Injection
<1>4. SetToSeq(rs) \in [1 .. Cardinality(rs) -> rs] /\ IsInjective(SetToSeq(rs))
  BY <1>3 DEF SetToSeq
<1> QED
  BY <1>2, <1>4 DEF IsInjective

(* What a listener of L may be told while it is kept. *)
Told(L) == [read : L, kind : {"document", "missing", "cached", "unavailable"}]

(* The client within a task that removes no listener. *)
Running(c) == c \in Clients /\ c.out \in Seq(Told(c.listeners))

LEMMA ToldAreEvents ==
  ASSUME NEW L \in SUBSET Reads PROVE Seq(Told(L)) \subseteq Seq(Events)
<1>1. Told(L) \subseteq Events
  BY DEF Told, Events, Kinds
<1> QED
  BY <1>1

(* The fields that neither the tracker nor an event changes; those of the  *)
(* tracker, but for the state.                                             *)
SameQuery(c, d) ==
  /\ d.listeners = c.listeners /\ d.cached = c.cached /\ d.target = c.target
  /\ d.stream = c.stream /\ d.asked = c.asked /\ d.idle = c.idle
SameTracker(c, d) == d.failures = c.failures /\ d.timer = c.timer /\ d.failed = c.failed

LEMMA RaiseFacts ==
  ASSUME NEW c, Running(c), NEW rs \in SUBSET c.listeners
  PROVE  LET d == Raise(c, rs) IN
         /\ Running(d) /\ SameQuery(c, d) /\ SameTracker(c, d)
         /\ d.view = c.view /\ d.state = c.state
<1> DEFINE kind == IF c.view = "synced" THEN IF c.cached THEN "document" ELSE "missing"
                   ELSE IF c.cached THEN "cached" ELSE "unavailable"
           new == [i \in 1 .. Cardinality(rs) |-> [read |-> SetToSeq(rs)[i], kind |-> kind]]
<1>1. rs \in SUBSET Reads /\ c.raised \cup rs \in SUBSET Reads /\ c.listeners \in SUBSET Reads
  BY DEF Running, Clients
<1>2. \A i \in 1 .. Cardinality(rs) : [read |-> SetToSeq(rs)[i], kind |-> kind] \in Told(c.listeners)
  BY <1>1, Listed DEF Told
<1>3. new \in Seq(Told(c.listeners))
  BY <1>1, <1>2, Listed
<1>4. c.out \o new \in Seq(Told(c.listeners))
  BY <1>3 DEF Running
<1>5. c.out \o new \in Seq(Events)
  BY <1>1, <1>4, ToldAreEvents
<1>6. Raise(c, rs) = [c EXCEPT !.raised = c.raised \cup rs, !.out = c.out \o new]
  BY DEF Raise, Running, Clients
<1> HIDE DEF new
<1> QED
  BY <1>1, <1>4, <1>5, <1>6 DEF Running, Clients, SameQuery, SameTracker

(* What SetAndBroadcast leaves of a client: its new state and a view that  *)
(* is not synced offline.                                                  *)
LEMMA BroadcastFacts ==
  ASSUME NEW c, Running(c), NEW state \in {"Unknown", "Online", "Offline"}
  PROVE  LET d == SetAndBroadcast(c, state) IN
         /\ Running(d) /\ SameQuery(c, d) /\ SameTracker(c, d)
         /\ d.state = state
         /\ d.view = IF state = "Offline" /\ c.view = "synced" THEN "local" ELSE c.view
<1> DEFINE d == [c EXCEPT !.state = state]
           f == [d EXCEPT !.view = "local"]
           stale == state = "Offline" /\ d.view = "synced"
           e == IF stale THEN Raise(f, d.listeners \cap d.raised) ELSE d
           view == IF state = "Offline" /\ c.view = "synced" THEN "local" ELSE c.view
           Good(x) == /\ Running(x) /\ SameQuery(c, x) /\ SameTracker(c, x)
                      /\ x.state = state /\ x.view = view
<1>1. /\ Running(d) /\ SameQuery(c, d) /\ SameTracker(c, d) /\ d.state = state
      /\ d.view = c.view
  BY DEF Running, Clients, SameQuery, SameTracker
<1>2. /\ Running(f) /\ SameQuery(c, f) /\ SameTracker(c, f) /\ f.state = state
      /\ f.view = "local" /\ d.listeners \cap d.raised \in SUBSET f.listeners
  BY DEF Running, Clients, SameQuery, SameTracker
<1> HIDE DEF d, f
<1>3. Good(e)
  <2>1. CASE stale
    <3>1. Good(Raise(f, d.listeners \cap d.raised))
      BY <1>1, <1>2, <2>1, RaiseFacts DEF SameQuery, SameTracker
    <3> QED
      BY <2>1, <3>1
  <2>2. CASE ~stale
    BY <1>1, <2>2
  <2> QED
    BY <2>1, <2>2
<1> HIDE DEF e
<1>4. Good(Raise(e, e.listeners \ e.raised))
  BY <1>3, RaiseFacts DEF SameQuery, SameTracker
<1>5. SetAndBroadcast(c, state) \in {e, Raise(e, e.listeners \ e.raised)}
  BY DEF SetAndBroadcast, e, d, f
<1> QED
  BY <1>3, <1>4, <1>5

LEMMA UpdateStateFacts ==
  ASSUME NEW c, Running(c), NEW state \in {"Unknown", "Online"}
  PROVE  LET d == UpdateState(c, state) IN
         /\ Running(d) /\ SameQuery(c, d) /\ d.failed = c.failed
         /\ d.state = state /\ d.view = c.view /\ d.timer = FALSE /\ d.failures = 0
<1> DEFINE none == 0
           e == [c EXCEPT !.timer = FALSE]
           d == [e EXCEPT !.failures = none]
<1>1. /\ Running(e) /\ SameQuery(c, e) /\ e.failed = c.failed
      /\ e.view = c.view /\ e.timer = FALSE
  BY DEF Running, Clients, SameQuery
<1>2. UpdateState(c, state) = SetAndBroadcast(d, state)
  BY DEF UpdateState
<1> HIDE DEF e
<1>3. none \in 0 .. 1
  OBVIOUS
<1> HIDE DEF none
<1>4. d \in Clients /\ d.failures = none
  BY <1>1, <1>3 DEF Running, Clients
<1>5. SameQuery(c, d) /\ d.failed = c.failed /\ d.view = c.view /\ d.timer = FALSE
  BY <1>1 DEF Running, Clients, SameQuery
<1>6. d.out = e.out /\ d.listeners = e.listeners
  BY <1>1 DEF Running, Clients
<1>7. Running(d)
  BY <1>1, <1>4, <1>6 DEF Running
<1> HIDE DEF d
<1> QED
  BY <1>2, <1>4, <1>5, <1>7, BroadcastFacts DEF SameQuery, SameTracker, none

LEMMA OnViewSnapshotFacts ==
  ASSUME NEW c, Running(c)
  PROVE  LET d == OnViewSnapshot(c) IN
         /\ Running(d) /\ SameQuery(c, d) /\ SameTracker(c, d)
         /\ d.view = c.view /\ d.state = c.state
<1>1. {r \in c.listeners : r \in c.raised \/ ShouldRaiseInitialEvent(c)} \in SUBSET c.listeners
  OBVIOUS
<1> QED
  BY <1>1, RaiseFacts DEF OnViewSnapshot

LEMMA HandleWatchStreamStartFacts ==
  ASSUME NEW c, Running(c), c.failures = 0 => ~c.timer
  PROVE  LET d == HandleWatchStreamStart(c) IN
         /\ Running(d) /\ SameQuery(c, d) /\ d.failed = c.failed
         /\ d.view = c.view /\ d.failures = c.failures
         /\ c.failures # 0 => d = c
         /\ c.failures = 0 => d.state = "Unknown" /\ d.timer = TRUE
<1>1. CASE c.failures # 0
  BY <1>1 DEF HandleWatchStreamStart, SameQuery
<1>2. CASE c.failures = 0
  <2> DEFINE b == SetAndBroadcast(c, "Unknown")
  <2>1. /\ Running(b) /\ SameQuery(c, b) /\ SameTracker(c, b)
        /\ b.state = "Unknown" /\ b.view = c.view
    BY BroadcastFacts
  <2> HIDE DEF b
  <2>2. HandleWatchStreamStart(c) = [[b EXCEPT !.failed = @ \/ ~~c.timer] EXCEPT !.timer = TRUE]
    BY <1>2 DEF HandleWatchStreamStart, HardAssert, b
  <2>3. HandleWatchStreamStart(c) = [b EXCEPT !.timer = TRUE]
    BY <1>2, <2>1, <2>2 DEF Running, Clients
  <2>4. /\ Running([b EXCEPT !.timer = TRUE]) /\ SameQuery(b, [b EXCEPT !.timer = TRUE])
        /\ [b EXCEPT !.timer = TRUE].timer = TRUE
    BY <2>1 DEF Running, Clients, SameQuery
  <2>5. /\ [b EXCEPT !.timer = TRUE].view = b.view
        /\ [b EXCEPT !.timer = TRUE].state = b.state
        /\ [b EXCEPT !.timer = TRUE].failures = b.failures
        /\ [b EXCEPT !.timer = TRUE].failed = b.failed
    BY <2>1 DEF Running, Clients
  <2> QED
    BY <1>2, <2>1, <2>3, <2>4, <2>5 DEF SameQuery, SameTracker
<1> QED
  BY <1>1, <1>2

LEMMA HandleWatchStreamFailureFacts ==
  ASSUME NEW c, Running(c), c.state = "Online" => c.failures = 0 /\ c.timer = FALSE
  PROVE  LET d == HandleWatchStreamFailure(c) IN
         /\ Running(d) /\ SameQuery(c, d) /\ d.failed = c.failed /\ d.timer = FALSE
         /\ \/ d.state = "Unknown" /\ d.failures = 0 /\ d.view = c.view
            \/ /\ d.state = "Offline" /\ d.failures = 1
               /\ d.view = IF c.view = "synced" THEN "local" ELSE c.view
<1>1. CASE c.state = "Online"
  <2> DEFINE b == SetAndBroadcast(c, "Unknown")
  <2>1. /\ Running(b) /\ SameQuery(c, b) /\ SameTracker(c, b)
        /\ b.state = "Unknown" /\ b.view = c.view
    BY BroadcastFacts
  <2>2. HandleWatchStreamFailure(c) = HardAssert(b, c.failures = 0 /\ ~c.timer)
    BY <1>1 DEF HandleWatchStreamFailure
  <2> HIDE DEF b
  <2>3. HardAssert(b, c.failures = 0 /\ ~c.timer) = b
    BY <1>1, <2>1 DEF HardAssert, Running, Clients
  <2> QED
    BY <1>1, <2>1, <2>2, <2>3 DEF SameTracker
<1>2. CASE c.state # "Online"
  <2> DEFINE d == [c EXCEPT !.timer = FALSE]
             e == [d EXCEPT !.failures = 1]
  <2>1. /\ Running(d) /\ SameQuery(c, d) /\ d.failed = c.failed
        /\ d.view = c.view /\ d.timer = FALSE
    BY DEF Running, Clients, SameQuery
  <2>2. [c EXCEPT !.failures = 1, !.timer = FALSE] = e
    BY DEF Running, Clients
  <2> HIDE DEF d
  <2>3. /\ Running(e) /\ SameQuery(c, e) /\ e.failed = c.failed
        /\ e.view = c.view /\ e.timer = FALSE /\ e.failures = 1
    BY <2>1 DEF Running, Clients, SameQuery
  <2>4. HandleWatchStreamFailure(c) = SetAndBroadcast(e, "Offline")
    BY <1>2, <2>2 DEF HandleWatchStreamFailure
  <2> HIDE DEF e
  <2> QED
    BY <2>3, <2>4, BroadcastFacts DEF SameQuery, SameTracker
<1> QED
  BY <1>1, <1>2

LEMMA StartWatchStreamFacts ==
  ASSUME NEW c, Running(c), c.stream \in {"Initial", "Error"}, c.timer = FALSE
  PROVE  LET d == StartWatchStream(c) IN
         /\ Running(d) /\ IsStarted(d) /\ d.stream # "Open"
         /\ d.listeners = c.listeners /\ d.target = c.target /\ d.cached = c.cached
         /\ d.asked = c.asked /\ d.idle = c.idle /\ d.view = c.view
         /\ d.failed = c.failed /\ d.failures = c.failures
         /\ c.failures # 0 => d.state = c.state /\ d.timer = FALSE
         /\ c.failures = 0 => d.state = "Unknown"
<1> DEFINE stream == IF c.stream = "Error" THEN "Backoff" ELSE "Starting"
           e == [c EXCEPT !.stream = stream]
<1>1. /\ Running(e) /\ e.stream \in {"Starting", "Backoff"} /\ e.timer = FALSE
      /\ e.listeners = c.listeners /\ e.target = c.target /\ e.cached = c.cached
      /\ e.asked = c.asked /\ e.idle = c.idle /\ e.view = c.view /\ e.state = c.state
      /\ e.failed = c.failed /\ e.failures = c.failures
  BY DEF Running, Clients
<1>2. StartWatchStream(c) = HandleWatchStreamStart(e)
  BY DEF StartWatchStream
<1> HIDE DEF e
<1>3. e.failures = 0 => ~e.timer
  BY <1>1
<1> DEFINE d == HandleWatchStreamStart(e)
<1>4. /\ Running(d) /\ SameQuery(e, d) /\ d.failed = e.failed
      /\ d.view = e.view /\ d.failures = e.failures
      /\ e.failures # 0 => d = e
      /\ e.failures = 0 => d.state = "Unknown" /\ d.timer = TRUE
  BY <1>1, <1>3, HandleWatchStreamStartFacts
<1> HIDE DEF d
<1> QED
  BY <1>1, <1>2, <1>4 DEF SameQuery, IsStarted, d

(* Closing a stream, by an error or by the client, keeps the fields in     *)
(* accord, and so do the restarts and the listener's coming and going.     *)
LEMMA StreamClosedKeeps ==
  ASSUME NEW c, Running(c), Connected(c)
  PROVE  LET d == StreamClosed(c) IN
         Running(d) /\ Connected(d) /\ d.listeners = c.listeners
<1> DEFINE d == [c EXCEPT !.stream = "Error", !.asked = FALSE, !.idle = FALSE]
           f == HandleWatchStreamFailure(d)
<1>1. /\ Running(d) /\ d.stream = "Error" /\ d.asked = FALSE /\ d.idle = FALSE
      /\ d.listeners = c.listeners /\ d.target = c.target /\ d.view = c.view
      /\ d.state = c.state /\ d.failures = c.failures /\ d.timer = c.timer
      /\ d.failed = c.failed
  BY DEF Running, Clients
<1>2. StreamClosed(c) = IF ShouldStartWatchStream(d) THEN StartWatchStream(f)
                        ELSE UpdateState(d, "Unknown")
  BY DEF StreamClosed
<1> HIDE DEF d
<1>3. d.state = "Online" => d.failures = 0 /\ d.timer = FALSE
  BY <1>1 DEF Connected, Running, Clients
<1>4. CASE ShouldStartWatchStream(d)
  <2>1. /\ Running(f) /\ SameQuery(d, f) /\ f.failed = d.failed /\ f.timer = FALSE
        /\ \/ f.state = "Unknown" /\ f.failures = 0 /\ f.view = d.view
           \/ /\ f.state = "Offline" /\ f.failures = 1
              /\ f.view = IF d.view = "synced" THEN "local" ELSE d.view
    BY <1>1, <1>3, HandleWatchStreamFailureFacts
  <2>2. f.stream = "Error"
    BY <1>1, <2>1 DEF SameQuery
  <2> HIDE DEF f
  <2> DEFINE u == StartWatchStream(f)
  <2>3. /\ Running(u) /\ IsStarted(u) /\ u.stream # "Open"
        /\ u.listeners = f.listeners /\ u.target = f.target /\ u.cached = f.cached
        /\ u.asked = f.asked /\ u.idle = f.idle /\ u.view = f.view
        /\ u.failed = f.failed /\ u.failures = f.failures
        /\ f.failures # 0 => u.state = f.state /\ u.timer = FALSE
        /\ f.failures = 0 => u.state = "Unknown"
    BY <2>1, <2>2, StartWatchStreamFacts
  <2> HIDE DEF u
  <2>4. Connected(u)
    <3>1. u.failed = FALSE /\ u.asked = FALSE /\ u.idle = FALSE
      BY <1>1, <2>1, <2>3 DEF Connected, SameQuery, Running, Clients
    <3>2. u.target <=> u.listeners # {}
      BY <1>1, <2>1, <2>3 DEF Connected, SameQuery
    <3>3. u.view = "none" <=> u.listeners = {}
      BY <1>1, <2>1, <2>3 DEF Connected, SameQuery
    <3>4. /\ u.timer = TRUE => u.state = "Unknown"
          /\ u.state # "Online"
          /\ u.view = "synced" => u.state # "Offline"
      BY <1>1, <2>1, <2>3 DEF Connected, SameQuery, Running, Clients
    <3> QED
      BY <2>3, <3>1, <3>2, <3>3, <3>4 DEF Connected, Running, Clients
  <2> QED
    BY <1>1, <1>2, <1>4, <2>1, <2>3, <2>4 DEF SameQuery, u, f
<1>5. CASE ~ShouldStartWatchStream(d)
  <2>1. ~d.target
    BY <1>1, <1>5 DEF ShouldStartWatchStream, IsStarted
  <2> DEFINE u == UpdateState(d, "Unknown")
  <2>2. /\ Running(u) /\ SameQuery(d, u) /\ u.failed = d.failed
        /\ u.state = "Unknown" /\ u.view = d.view /\ u.timer = FALSE /\ u.failures = 0
    BY <1>1, UpdateStateFacts
  <2> HIDE DEF u
  <2>3. Connected(u)
    <3>1. u.failed = FALSE /\ u.asked = FALSE /\ u.idle = FALSE /\ u.timer = FALSE
      BY <1>1, <2>2 DEF Connected, SameQuery, Running, Clients
    <3>2. /\ u.view = "none" <=> u.listeners = {}
          /\ u.target <=> u.listeners # {}
      BY <1>1, <2>2 DEF Connected, SameQuery
    <3> QED
      BY <2>2, <3>1, <3>2 DEF Connected
  <2> QED
    BY <1>1, <1>2, <1>5, <2>2, <2>3 DEF SameQuery, u
<1> QED
  BY <1>4, <1>5

LEMMA StopKeeps ==
  ASSUME NEW c, Running(c), Connected(c), NEW enabled \in BOOLEAN, enabled => ~c.target
  PROVE  LET d == Stop(c, enabled) IN
         /\ Running(d) /\ d.listeners = c.listeners /\ d.target = c.target
         /\ d.view = c.view /\ d.failed = FALSE /\ d.asked = FALSE /\ d.idle = FALSE
         /\ ~IsStarted(d) /\ d.timer = FALSE /\ (d.state = "Online" => d.failures = 0)
         /\ d.view = "synced" => d.state # "Offline"
<1>1. CASE ~IsStarted(c)
  <2>1. Stop(c, enabled) = c
    BY <1>1 DEF Stop
  <2>2. c.failed = FALSE /\ c.asked = FALSE /\ c.idle = FALSE /\ c.timer = FALSE
    BY <1>1 DEF Connected, Running, Clients, IsStarted
  <2> QED
    BY <1>1, <2>1, <2>2 DEF Connected
<1>2. CASE IsStarted(c)
  <2> DEFINE d == [c EXCEPT !.stream = "Initial", !.asked = FALSE, !.idle = FALSE]
             u == UpdateState(d, "Unknown")
  <2>1. /\ Running(d) /\ d.stream = "Initial" /\ d.asked = FALSE /\ d.idle = FALSE
        /\ d.listeners = c.listeners /\ d.target = c.target /\ d.view = c.view
        /\ d.failed = c.failed
    BY DEF Running, Clients
  <2>2. HardAssert(d, ~(enabled /\ c.target)) = d
    BY <2>1 DEF HardAssert, Running, Clients
  <2>3. Stop(c, enabled) = u
    BY <1>2, <2>2 DEF Stop
  <2> HIDE DEF d
  <2>4. /\ Running(u) /\ SameQuery(d, u) /\ u.failed = d.failed
        /\ u.state = "Unknown" /\ u.view = d.view /\ u.timer = FALSE /\ u.failures = 0
    BY <2>1, UpdateStateFacts
  <2> HIDE DEF u
  <2>5. c.failed = FALSE
    BY DEF Connected, Running, Clients
  <2> QED
    BY <2>1, <2>3, <2>4, <2>5 DEF SameQuery, IsStarted
<1> QED
  BY <1>1, <1>2

(* The pieces of Connected, each from the fields it is about. *)
LEMMA ConnectedFromFields ==
  ASSUME NEW c, c.failed = FALSE, c.target <=> c.listeners # {},
         c.view = "none" <=> c.listeners = {},
         c.view = "synced" => c.state # "Offline",
         c.asked => c.stream = "Open" /\ c.target,
         c.idle => c.stream = "Open" /\ ~c.target,
         c.timer => c.state = "Unknown" /\ IsStarted(c),
         c.state = "Online" => c.failures = 0
  PROVE  Connected(c)
BY DEF Connected

LEMMA IdleStopKeeps ==
  ASSUME NEW c, Running(c), Connected(c), c.idle
  PROVE  LET d == Stop(c, TRUE) IN
         Running(d) /\ Connected(d) /\ d.listeners = c.listeners
<1> DEFINE d == Stop(c, TRUE)
<1>0. ~c.target
  BY DEF Connected
<1>1. /\ Running(d) /\ d.listeners = c.listeners /\ d.target = c.target
      /\ d.view = c.view /\ d.failed = FALSE /\ d.asked = FALSE /\ d.idle = FALSE
      /\ ~IsStarted(d) /\ d.timer = FALSE /\ (d.state = "Online" => d.failures = 0)
      /\ d.view = "synced" => d.state # "Offline"
  BY <1>0, StopKeeps
<1> HIDE DEF d
<1>2. /\ d.target <=> d.listeners # {}
      /\ d.view = "none" <=> d.listeners = {}
  BY <1>1 DEF Connected
<1>3. Connected(d)
  BY <1>1, <1>2, ConnectedFromFields
<1> QED
  BY <1>1, <1>3 DEF d

(* A stream is started for a target it does not have yet. *)
LEMMA StartKeeps ==
  ASSUME NEW c, Running(c), c.stream \in {"Initial", "Error"}, c.timer = FALSE,
         c.failed = FALSE, c.asked = FALSE, c.idle = FALSE,
         c.target <=> c.listeners # {}, c.view = "none" <=> c.listeners = {},
         c.view = "synced" => c.state # "Offline", c.state = "Online" => c.failures = 0
  PROVE  LET d == StartWatchStream(c) IN
         Running(d) /\ Connected(d) /\ d.listeners = c.listeners
<1> DEFINE d == StartWatchStream(c)
<1>1. /\ Running(d) /\ IsStarted(d) /\ d.stream # "Open"
      /\ d.listeners = c.listeners /\ d.target = c.target /\ d.cached = c.cached
      /\ d.asked = c.asked /\ d.idle = c.idle /\ d.view = c.view
      /\ d.failed = c.failed /\ d.failures = c.failures
      /\ c.failures # 0 => d.state = c.state /\ d.timer = FALSE
      /\ c.failures = 0 => d.state = "Unknown"
  BY StartWatchStreamFacts
<1> HIDE DEF d
<1>2. /\ d.failed = FALSE /\ d.asked = FALSE /\ d.idle = FALSE
      /\ d.target <=> d.listeners # {}
      /\ d.view = "none" <=> d.listeners = {}
      /\ d.view = "synced" => d.state # "Offline"
  BY <1>1
<1>3. d.timer => d.state = "Unknown" /\ IsStarted(d)
  BY <1>1
<1>4. d.state = "Online" => d.failures = 0
  BY <1>1
<1>5. Connected(d)
  BY <1>2, <1>3, <1>4, ConnectedFromFields
<1> QED
  BY <1>1, <1>5 DEF d

LEMMA RestartNetworkKeeps ==
  ASSUME NEW c, Running(c), Connected(c)
  PROVE  LET d == RestartNetwork(c) IN
         Running(d) /\ Connected(d) /\ d.listeners = c.listeners
<1> DEFINE s == Stop(c, FALSE)
           u == UpdateState(s, "Unknown")
           d == [u EXCEPT !.stream = "Initial"]
<1>1. /\ Running(s) /\ s.listeners = c.listeners /\ s.target = c.target
      /\ s.view = c.view /\ s.failed = FALSE /\ s.asked = FALSE /\ s.idle = FALSE
  BY StopKeeps
<1> HIDE DEF s
<1>2. /\ Running(u) /\ SameQuery(s, u) /\ u.failed = s.failed
      /\ u.state = "Unknown" /\ u.view = s.view /\ u.timer = FALSE /\ u.failures = 0
  BY <1>1, UpdateStateFacts
<1> HIDE DEF u
<1>3. /\ Running(d) /\ d.stream = "Initial" /\ d.listeners = u.listeners
      /\ d.target = u.target /\ d.view = u.view /\ d.failed = u.failed
      /\ d.asked = u.asked /\ d.idle = u.idle /\ d.state = u.state
      /\ d.timer = u.timer /\ d.failures = u.failures
  BY <1>2 DEF Running, Clients
<1>4. RestartNetwork(c) = IF ShouldStartWatchStream(d) THEN StartWatchStream(d) ELSE d
  BY DEF RestartNetwork, u, s
<1> HIDE DEF d
<1>5. /\ d.failed = FALSE /\ d.asked = FALSE /\ d.idle = FALSE /\ d.timer = FALSE
      /\ d.target <=> d.listeners # {}
      /\ d.view = "none" <=> d.listeners = {}
      /\ d.state = "Unknown" /\ d.failures = 0 /\ d.listeners = c.listeners
  BY <1>1, <1>2, <1>3 DEF SameQuery, Connected
<1>6. CASE ShouldStartWatchStream(d)
  BY <1>3, <1>4, <1>5, <1>6, StartKeeps
<1>7. CASE ~ShouldStartWatchStream(d)
  <2>1. Connected(d)
    BY <1>5, ConnectedFromFields
  <2> QED
    BY <1>3, <1>4, <1>5, <1>7, <2>1
<1> QED
  BY <1>6, <1>7
-----------------------------------------------------------------------------
(* What is left of a queue moves up by one, what is added comes last.      *)
LEMMA TailMovesUp ==
  ASSUME NEW T, NEW s \in Seq(T), s # << >>
  PROVE  /\ DOMAIN Tail(s) = 1 .. Len(s) - 1 /\ Len(s) \in Nat \ {0}
         /\ Tail(s) \in Seq(T) /\ Head(s) = s[1] /\ Head(s) \in T
         /\ 1 \in DOMAIN s /\ DOMAIN s = 1 .. Len(s)
         /\ \A i \in 1 .. Len(s) - 1 : Tail(s)[i] = s[i + 1] /\ i + 1 \in DOMAIN s
OBVIOUS

LEMMA AppendComesLast ==
  ASSUME NEW T, NEW s \in Seq(T), NEW x \in T
  PROVE  /\ Append(s, x) \in Seq(T) /\ Len(s) \in Nat
         /\ DOMAIN Append(s, x) = 1 .. Len(s) + 1 /\ DOMAIN s = 1 .. Len(s)
         /\ Append(s, x)[Len(s) + 1] = x
         /\ \A i \in 1 .. Len(s) : Append(s, x)[i] = s[i]
OBVIOUS

LEMMA Concatenated ==
  ASSUME NEW T, NEW s \in Seq(T), NEW t \in Seq(T)
  PROVE  /\ s \o t \in Seq(T) /\ Len(s) \in Nat /\ Len(t) \in Nat
         /\ DOMAIN (s \o t) = 1 .. Len(s) + Len(t)
         /\ DOMAIN s = 1 .. Len(s) /\ DOMAIN t = 1 .. Len(t)
         /\ \A i \in 1 .. Len(s) : (s \o t)[i] = s[i]
         /\ \A i \in Len(s) + 1 .. Len(s) + Len(t) :
              i - Len(s) \in 1 .. Len(t) /\ (s \o t)[i] = t[i - Len(s)]
OBVIOUS

(* A task that ends in the client d, with the listeners L, and tells no    *)
(* error.                                                                  *)
PlainTask(L) ==
  \E d \in Clients : Running(d) /\ Connected(d) /\ d.listeners = L /\ Perform(d)

LEMMA ClientNow ==
  ASSUME IInv
  PROVE  /\ client \in Clients /\ Running(client) /\ Connected(client)
         /\ client.listeners \in SUBSET Reads /\ client.failed = FALSE
<1>1. << >> \in Seq(Told(client.listeners))
  OBVIOUS
<1>2. client \in Clients /\ client.out = << >> /\ Connected(client)
  BY DEF IInv, Typed
<1> QED
  BY <1>1, <1>2 DEF Running, Clients, Connected

LEMMA AddTask ==
  ASSUME IInv, AddQueryListener
  PROVE  PlainTask(client.listeners \cup {Head(worker).read})
<1> DEFINE r == Head(worker).read
           c == [client EXCEPT !.listeners = @ \cup {r}]
<1>0. r \in Reads
  <2>1. worker \in Seq(Tasks) /\ worker # << >>
    BY DEF IInv, Typed, AddQueryListener, Task
  <2>2. Head(worker) \in Tasks
    BY <2>1, TailMovesUp
  <2> QED
    BY <2>2 DEF Tasks
<1>1. /\ client \in Clients /\ client.out = << >> /\ Connected(client)
      /\ client.listeners \in SUBSET Reads /\ client.failed = FALSE
  BY ClientNow DEF IInv, Typed
<1>2. /\ c \in Clients /\ c.out = << >> /\ c.listeners = client.listeners \cup {r}
      /\ c.view = client.view /\ c.target = client.target /\ c.stream = client.stream
      /\ c.asked = client.asked /\ c.idle = client.idle /\ c.state = client.state
      /\ c.failures = client.failures /\ c.timer = client.timer /\ c.failed = FALSE
  BY <1>0, <1>1 DEF Clients
<1>3. Running(c)
  <2>1. << >> \in Seq(Told(c.listeners))
    OBVIOUS
  <2> HIDE DEF c
  <2> QED
    BY <1>2, <2>1 DEF Running
<1>4. CASE client.listeners = {}
  <2> DEFINE t == [c EXCEPT !.target = TRUE]
             l == ListenToTarget(c)
             v == [l EXCEPT !.view = "local"]
             d == OnViewSnapshot(v)
  <2>1. HardAssert(c, c.view = "none") = c
    <3>1. c.view = "none"
      BY <1>1, <1>2, <1>4 DEF Connected
    <3> HIDE DEF c
    <3> QED
      BY <1>2, <3>1 DEF HardAssert, Clients
  <2>2. Perform(d)
    BY <1>4, <2>1 DEF AddQueryListener
  <2> HIDE DEF c
  <2>3. /\ Running(t) /\ t.listeners = c.listeners /\ t.target = TRUE
        /\ t.view = c.view /\ t.stream = c.stream /\ t.asked = c.asked
        /\ t.idle = c.idle /\ t.state = c.state /\ t.failures = c.failures
        /\ t.timer = c.timer /\ t.failed = FALSE
    BY <1>2, <1>3 DEF Running, Clients
  <2>4. l = IF ShouldStartWatchStream(t) THEN StartWatchStream(t)
            ELSE IF t.stream = "Open" THEN [t EXCEPT !.asked = TRUE, !.idle = FALSE] ELSE t
    BY DEF ListenToTarget
  <2> HIDE DEF t, l
  <2>5. /\ t.view = "none" /\ t.asked = FALSE
        /\ t.state = "Online" => t.failures = 0
        /\ t.timer => t.state = "Unknown" /\ IsStarted(t)
        /\ t.idle => t.stream = "Open"
    BY <1>1, <1>2, <1>4, <2>3 DEF Connected, Clients, IsStarted
  <2>6. /\ Running(l) /\ l.listeners = c.listeners /\ l.target = TRUE /\ l.failed = FALSE
        /\ l.asked => l.stream = "Open"
        /\ l.idle = FALSE
        /\ l.timer => l.state = "Unknown" /\ IsStarted(l)
        /\ l.state = "Online" => l.failures = 0
    <3>1. CASE ShouldStartWatchStream(t)
      <4>1. t.stream \in {"Initial", "Error"} /\ t.timer = FALSE /\ t.idle = FALSE
        BY <2>3, <2>5, <3>1 DEF ShouldStartWatchStream, IsStarted, Running, Clients
      <4> DEFINE u == StartWatchStream(t)
      <4>2. /\ Running(u) /\ IsStarted(u) /\ u.stream # "Open"
            /\ u.listeners = t.listeners /\ u.target = t.target /\ u.cached = t.cached
            /\ u.asked = t.asked /\ u.idle = t.idle /\ u.view = t.view
            /\ u.failed = t.failed /\ u.failures = t.failures
            /\ t.failures # 0 => u.state = t.state /\ u.timer = FALSE
            /\ t.failures = 0 => u.state = "Unknown"
        BY <2>3, <4>1, StartWatchStreamFacts
      <4> HIDE DEF u
      <4>3. u.asked = FALSE /\ u.idle = FALSE /\ u.target = TRUE /\ u.failed = FALSE
        BY <2>3, <2>5, <4>1, <4>2
      <4>4. /\ u.timer => u.state = "Unknown" /\ IsStarted(u)
            /\ u.state = "Online" => u.failures = 0
        BY <2>5, <4>2
      <4>5. l = u
        BY <2>4, <3>1 DEF u
      <4> QED
        BY <2>3, <4>2, <4>3, <4>4, <4>5
    <3>2. CASE ~ShouldStartWatchStream(t) /\ t.stream = "Open"
      <4> DEFINE u == [t EXCEPT !.asked = TRUE, !.idle = FALSE]
      <4>1. /\ Running(u) /\ u.listeners = t.listeners /\ u.target = t.target
            /\ u.failed = t.failed /\ u.stream = t.stream /\ u.idle = FALSE
            /\ u.timer = t.timer /\ u.state = t.state /\ u.failures = t.failures
        BY <2>3 DEF Running, Clients
      <4>2. l = u
        BY <2>4, <3>2
      <4> HIDE DEF u
      <4> QED
        BY <2>3, <2>5, <3>2, <4>1, <4>2 DEF IsStarted
    <3>3. CASE ~ShouldStartWatchStream(t) /\ t.stream # "Open"
      <4>1. l = t
        BY <2>4, <3>3
      <4>2. t.idle = FALSE
        BY <2>3, <2>5, <3>3 DEF Running, Clients
      <4> QED
        BY <2>3, <2>5, <4>1, <4>2
    <3> QED
      BY <3>1, <3>2, <3>3
  <2>7. /\ Running(v) /\ v.listeners = l.listeners /\ v.target = l.target
        /\ v.failed = l.failed /\ v.stream = l.stream /\ v.idle = l.idle
        /\ v.asked = l.asked /\ v.timer = l.timer /\ v.state = l.state
        /\ v.failures = l.failures /\ v.view = "local"
    BY <2>6 DEF Running, Clients
  <2> HIDE DEF v
  <2>8. /\ Running(d) /\ SameQuery(v, d) /\ SameTracker(v, d)
        /\ d.view = v.view /\ d.state = v.state
    BY <2>7, OnViewSnapshotFacts
  <2> HIDE DEF d
  <2>9. /\ d.listeners = client.listeners \cup {r} /\ d.target = TRUE /\ d.failed = FALSE
        /\ d.view = "local" /\ d.idle = FALSE /\ d.listeners # {}
        /\ d.state = "Online" => d.failures = 0
    BY <1>2, <2>6, <2>7, <2>8 DEF SameQuery, SameTracker
  <2>10. /\ d.asked => d.stream = "Open"
         /\ d.timer => d.state = "Unknown" /\ IsStarted(d)
    BY <2>6, <2>7, <2>8 DEF SameQuery, SameTracker, IsStarted
  <2>11. Connected(d)
    BY <2>9, <2>10, ConnectedFromFields
  <2> QED
    BY <2>2, <2>8, <2>9, <2>11 DEF PlainTask, Running
<1>5. CASE client.listeners # {}
  <2>1. Connected(c)
    <3>1. /\ c.target <=> c.listeners # {}
          /\ c.view = "none" <=> c.listeners = {}
          /\ c.view = "synced" => c.state # "Offline"
      BY <1>1, <1>2, <1>5 DEF Connected
    <3>2. /\ c.asked => c.stream = "Open" /\ c.target
          /\ c.idle => c.stream = "Open" /\ ~c.target
          /\ c.timer => c.state = "Unknown" /\ IsStarted(c)
          /\ c.state = "Online" => c.failures = 0
      BY <1>1, <1>2 DEF Connected, IsStarted
    <3> HIDE DEF c
    <3> QED
      BY <1>2, <3>1, <3>2, ConnectedFromFields
  <2>2. Perform(c) \/ Perform(Raise(c, {r}))
    BY <1>5 DEF AddQueryListener
  <2>3. c.listeners = client.listeners \cup {r}
    BY <1>2
  <2> HIDE DEF c
  <2> DEFINE d == Raise(c, {r})
  <2>4. /\ Running(d) /\ SameQuery(c, d) /\ SameTracker(c, d)
        /\ d.view = c.view /\ d.state = c.state
    <3>1. {r} \in SUBSET c.listeners
      BY <2>3
    <3> QED
      BY <1>3, <3>1, RaiseFacts
  <2> HIDE DEF d
  <2>5. Connected(d)
    BY <2>1, <2>4 DEF Connected, SameQuery, SameTracker, IsStarted
  <2> QED
    BY <1>2, <1>3, <2>1, <2>2, <2>3, <2>4, <2>5 DEF PlainTask, Running, SameQuery, d
<1> QED
  BY <1>4, <1>5

LEMMA RemoveTask ==
  ASSUME IInv, RemoveQueryListener
  PROVE  PlainTask(client.listeners \ {Head(worker).read})
<1> DEFINE L == client.listeners \ {Head(worker).read}
           c == [client EXCEPT !.listeners = L]
<1>1. /\ client \in Clients /\ client.out = << >> /\ Connected(client)
      /\ client.listeners \in SUBSET Reads /\ client.failed = FALSE
      /\ L \in SUBSET Reads
  BY ClientNow DEF IInv, Typed
<1>a. Perform(IF client.listeners # {} /\ c.listeners = {} THEN StopListening(c) ELSE c)
  BY DEF RemoveQueryListener
<1> HIDE DEF L
<1>2. /\ c \in Clients /\ c.out = << >> /\ c.listeners = L
      /\ c.view = client.view /\ c.target = client.target /\ c.stream = client.stream
      /\ c.asked = client.asked /\ c.idle = client.idle /\ c.state = client.state
      /\ c.failures = client.failures /\ c.timer = client.timer /\ c.failed = FALSE
  BY <1>1 DEF Clients
<1> HIDE DEF c
<1>3. Running(c)
  <2>1. << >> \in Seq(Told(c.listeners))
    OBVIOUS
  <2> QED
    BY <1>2, <2>1 DEF Running
<1>4. CASE client.listeners # {} /\ L = {}
  <2>0. c.target = TRUE
    BY <1>1, <1>2, <1>4 DEF Connected, Clients
  <2>1. HardAssert(c, c.target) = c
    BY <1>2, <2>0 DEF HardAssert, Clients
  <2> DEFINE d == [c EXCEPT !.target = FALSE, !.view = "none"]
  <2>2. StopListening(c) = IF d.stream = "Open" THEN [d EXCEPT !.asked = FALSE, !.idle = TRUE]
                           ELSE UpdateState(d, "Unknown")
    BY <2>1 DEF StopListening
  <2>3. /\ Running(d) /\ d.listeners = {} /\ d.target = FALSE /\ d.view = "none"
        /\ d.stream = c.stream /\ d.asked = c.asked /\ d.idle = c.idle /\ d.state = c.state
        /\ d.failures = c.failures /\ d.timer = c.timer /\ d.failed = FALSE
    BY <1>2, <1>3, <1>4 DEF Running, Clients
  <2> HIDE DEF d
  <2>4. CASE d.stream = "Open"
    <3> DEFINE e == [d EXCEPT !.asked = FALSE, !.idle = TRUE]
    <3>1. /\ Running(e) /\ e.listeners = {} /\ e.target = FALSE /\ e.view = "none"
          /\ e.stream = d.stream /\ e.asked = FALSE /\ e.state = d.state
          /\ e.failures = d.failures /\ e.timer = d.timer /\ e.failed = FALSE
      BY <2>3 DEF Running, Clients
    <3>2. StopListening(c) = e
      BY <2>2, <2>4
    <3> HIDE DEF e
    <3>3. /\ e.timer => e.state = "Unknown" /\ IsStarted(e)
          /\ e.state = "Online" => e.failures = 0
      BY <1>1, <1>2, <2>3, <2>4, <3>1 DEF Connected, IsStarted
    <3>4. Connected(e)
      BY <2>4, <3>1, <3>3, ConnectedFromFields
    <3> QED
      BY <1>a, <1>2, <1>4, <3>1, <3>2, <3>4 DEF PlainTask, Running, L
  <2>5. CASE d.stream # "Open"
    <3> DEFINE u == UpdateState(d, "Unknown")
    <3>1. /\ Running(u) /\ SameQuery(d, u) /\ u.failed = d.failed
          /\ u.state = "Unknown" /\ u.view = d.view /\ u.timer = FALSE /\ u.failures = 0
      BY <2>3, UpdateStateFacts
    <3>2. StopListening(c) = u
      BY <2>2, <2>5
    <3> HIDE DEF u
    <3>3. u.asked = FALSE /\ u.idle = FALSE
      BY <1>1, <1>2, <2>3, <2>5, <3>1 DEF Connected, SameQuery, Clients
    <3>4. Connected(u)
      BY <2>3, <3>1, <3>3, ConnectedFromFields DEF SameQuery
    <3> QED
      BY <1>a, <1>2, <1>4, <2>3, <3>1, <3>2, <3>4 DEF PlainTask, Running, SameQuery, L
  <2> QED
    BY <2>4, <2>5
<1>5. CASE ~(client.listeners # {} /\ L = {})
  <2>1. (L = {}) = (client.listeners = {})
    BY <1>5 DEF L
  <2>2. /\ c.target <=> c.listeners # {}
        /\ c.view = "none" <=> c.listeners = {}
        /\ c.view = "synced" => c.state # "Offline"
    BY <1>1, <1>2, <2>1 DEF Connected
  <2>3. /\ c.asked => c.stream = "Open" /\ c.target
        /\ c.idle => c.stream = "Open" /\ ~c.target
        /\ c.timer => c.state = "Unknown" /\ IsStarted(c)
        /\ c.state = "Online" => c.failures = 0
    BY <1>1, <1>2 DEF Connected, IsStarted
  <2>4. Connected(c)
    BY <1>2, <2>2, <2>3, ConnectedFromFields
  <2> QED
    BY <1>a, <1>2, <1>3, <1>5, <2>4 DEF PlainTask, L
<1> QED
  BY <1>4, <1>5 DEF L

(* Timers, the stream and the tracker: the listeners stay. *)
LEMMA QuietTasks ==
  ASSUME IInv,
         \/ OnWatchStreamOpen \/ StreamFailed \/ BackoffElapsed \/ IdleTimeout
         \/ OnlineStateTimeout \/ NetworkRestarted \/ TargetAcknowledged \/ WatchSnapshot
  PROVE  PlainTask(client.listeners)
<1>1. /\ client \in Clients /\ Running(client) /\ Connected(client)
      /\ client.listeners \in SUBSET Reads /\ client.failed = FALSE
  BY ClientNow
<1>2. CASE OnWatchStreamOpen
  <2> DEFINE d == [client EXCEPT !.stream = "Open", !.asked = client.target]
  <2>1. /\ Running(d) /\ d.listeners = client.listeners /\ d.target = client.target
        /\ d.view = client.view /\ d.stream = "Open" /\ d.asked = client.target
        /\ d.idle = client.idle /\ d.state = client.state
        /\ d.failures = client.failures /\ d.timer = client.timer /\ d.failed = FALSE
    BY <1>1 DEF Running, Clients
  <2>2. Perform(d)
    BY <1>2 DEF OnWatchStreamOpen
  <2> HIDE DEF d
  <2>3. client.stream = "Starting"
    BY <1>2 DEF OnWatchStreamOpen
  <2>4. d.idle = FALSE
    BY <1>1, <2>1, <2>3 DEF Connected, Clients
  <2>5. /\ d.asked => d.stream = "Open" /\ d.target
        /\ d.timer => d.state = "Unknown" /\ IsStarted(d)
        /\ d.state = "Online" => d.failures = 0
    BY <1>1, <2>1 DEF Connected, IsStarted
  <2>6. /\ d.target <=> d.listeners # {}
        /\ d.view = "none" <=> d.listeners = {}
        /\ d.view = "synced" => d.state # "Offline"
    BY <1>1, <2>1 DEF Connected
  <2>7. Connected(d)
    BY <2>1, <2>4, <2>5, <2>6, ConnectedFromFields
  <2> QED
    BY <2>1, <2>2, <2>7 DEF PlainTask, Running
<1>3. CASE StreamFailed
  <2> DEFINE d == StreamClosed(client)
  <2>1. Running(d) /\ Connected(d) /\ d.listeners = client.listeners
    BY <1>1, StreamClosedKeeps
  <2>2. Perform(d)
    BY <1>3 DEF StreamFailed
  <2> HIDE DEF d
  <2> QED
    BY <2>1, <2>2 DEF PlainTask, Running
<1>4. CASE BackoffElapsed
  <2> DEFINE d == [client EXCEPT !.stream = "Starting"]
  <2>1. /\ Running(d) /\ d.listeners = client.listeners /\ d.target = client.target
        /\ d.view = client.view /\ d.stream = "Starting" /\ d.asked = client.asked
        /\ d.idle = client.idle /\ d.state = client.state
        /\ d.failures = client.failures /\ d.timer = client.timer /\ d.failed = FALSE
    BY <1>1 DEF Running, Clients
  <2>2. Perform(d) /\ client.stream = "Backoff"
    BY <1>4 DEF BackoffElapsed
  <2> HIDE DEF d
  <2>3. d.asked = FALSE /\ d.idle = FALSE
    BY <1>1, <2>1, <2>2 DEF Connected, Clients
  <2>4. /\ d.timer => d.state = "Unknown" /\ IsStarted(d)
        /\ d.state = "Online" => d.failures = 0
        /\ d.target <=> d.listeners # {}
        /\ d.view = "none" <=> d.listeners = {}
        /\ d.view = "synced" => d.state # "Offline"
    BY <1>1, <2>1 DEF Connected, IsStarted
  <2>5. Connected(d)
    BY <2>1, <2>3, <2>4, ConnectedFromFields
  <2> QED
    BY <2>1, <2>2, <2>5 DEF PlainTask, Running
<1>5. CASE IdleTimeout
  <2> DEFINE d == Stop(client, TRUE)
  <2>1. Running(d) /\ Connected(d) /\ d.listeners = client.listeners
    BY <1>1, <1>5, IdleStopKeeps DEF IdleTimeout
  <2>2. Perform(d)
    BY <1>5 DEF IdleTimeout
  <2> HIDE DEF d
  <2> QED
    BY <2>1, <2>2 DEF PlainTask, Running
<1>6. CASE OnlineStateTimeout
  <2> DEFINE c == [client EXCEPT !.timer = FALSE]
             d == SetAndBroadcast(c, "Offline")
  <2>1. client.state = "Unknown"
    BY <1>1, <1>6 DEF OnlineStateTimeout, Connected
  <2>2. HardAssert(client, client.state = "Unknown") = client
    BY <1>1, <2>1 DEF HardAssert, Clients
  <2>3. Perform(d)
    BY <1>6, <2>2 DEF OnlineStateTimeout
  <2>4. /\ Running(c) /\ SameQuery(client, c) /\ c.view = client.view
        /\ c.timer = FALSE /\ c.failed = FALSE
    BY <1>1 DEF Running, Clients, SameQuery
  <2> HIDE DEF c
  <2>5. /\ Running(d) /\ SameQuery(c, d) /\ SameTracker(c, d) /\ d.state = "Offline"
        /\ d.view = IF c.view = "synced" THEN "local" ELSE c.view
    BY <2>4, BroadcastFacts
  <2> HIDE DEF d
  <2>6. /\ d.failed = FALSE /\ d.timer = FALSE /\ d.view # "synced"
        /\ d.listeners = client.listeners
        /\ d.target <=> d.listeners # {}
        /\ d.view = "none" <=> d.listeners = {}
    BY <1>1, <2>4, <2>5 DEF Connected, SameQuery, SameTracker
  <2>7. /\ d.asked => d.stream = "Open" /\ d.target
        /\ d.idle => d.stream = "Open" /\ ~d.target
    BY <1>1, <2>4, <2>5 DEF Connected, SameQuery
  <2>8. Connected(d)
    BY <2>5, <2>6, <2>7, ConnectedFromFields
  <2> QED
    BY <2>3, <2>5, <2>6, <2>8 DEF PlainTask, Running
<1>7. CASE NetworkRestarted
  <2> DEFINE d == RestartNetwork(client)
  <2>1. Running(d) /\ Connected(d) /\ d.listeners = client.listeners
    BY <1>1, RestartNetworkKeeps
  <2>2. Perform(d)
    BY <1>7 DEF NetworkRestarted
  <2> HIDE DEF d
  <2> QED
    BY <2>1, <2>2 DEF PlainTask, Running
<1> DEFINE u == UpdateState(client, "Online")
<1>8. /\ Running(u) /\ SameQuery(client, u) /\ u.failed = FALSE
      /\ u.state = "Online" /\ u.view = client.view /\ u.timer = FALSE /\ u.failures = 0
      /\ u.listeners = client.listeners
  BY <1>1, UpdateStateFacts DEF SameQuery
<1> HIDE DEF u
<1>9. /\ u.target <=> u.listeners # {}
      /\ u.asked => u.stream = "Open" /\ u.target
      /\ u.idle => u.stream = "Open" /\ ~u.target
      /\ u.view = "none" <=> u.listeners = {}
  BY <1>1, <1>8 DEF Connected, SameQuery
<1>10. CASE TargetAcknowledged
  <2>1. Connected(u)
    BY <1>8, <1>9, ConnectedFromFields
  <2>2. Perform(u)
    BY <1>10 DEF TargetAcknowledged, u
  <2> QED
    BY <1>8, <2>1, <2>2 DEF PlainTask, Running
<1>11. CASE WatchSnapshot
  <2>1. PICK cached \in {TRUE, client.cached} :
          LET c == [u EXCEPT !.view = "synced", !.cached = cached]
          IN  Perform(IF client.view = "synced" /\ client.cached = cached THEN c
                      ELSE OnViewSnapshot(c))
    BY <1>11 DEF WatchSnapshot, u
  <2> DEFINE c == [u EXCEPT !.view = "synced", !.cached = cached]
             d == OnViewSnapshot(c)
  <2>2. Perform(c) \/ Perform(d)
    BY <2>1
  <2>3. cached \in BOOLEAN
    BY <1>1, <2>1 DEF Clients
  <2>4. /\ Running(c) /\ c.listeners = u.listeners /\ c.target = u.target
        /\ c.view = "synced" /\ c.stream = u.stream /\ c.asked = u.asked
        /\ c.idle = u.idle /\ c.state = u.state
        /\ c.failures = u.failures /\ c.timer = FALSE /\ c.failed = FALSE
    BY <1>8, <2>3 DEF Running, Clients
  <2> HIDE DEF c
  <2>5. client.asked /\ client.target
    BY <1>1, <1>11 DEF WatchSnapshot, Connected
  <2>6. c.listeners # {}
    BY <1>1, <1>8, <2>4, <2>5 DEF Connected
  <2>7. Connected(c)
    BY <1>8, <1>9, <2>4, <2>6, ConnectedFromFields
  <2>8. /\ Running(d) /\ SameQuery(c, d) /\ SameTracker(c, d)
        /\ d.view = c.view /\ d.state = c.state
    BY <2>4, OnViewSnapshotFacts
  <2> HIDE DEF d
  <2>9. Connected(d)
    BY <2>7, <2>8 DEF Connected, SameQuery, SameTracker, IsStarted
  <2> QED
    BY <1>8, <2>2, <2>4, <2>7, <2>8, <2>9 DEF PlainTask, Running, SameQuery
<1> QED
  BY <1>2, <1>3, <1>4, <1>5, <1>6, <1>7, <1>10, <1>11
-----------------------------------------------------------------------------
(* A task keeps what was delivered: the events it tells go to the          *)
(* listeners L, which are neither over nor yet to be added.                *)
LEMMA PlainTaskDelivers ==
  ASSUME IInv, NEW L \in SUBSET Reads, PlainTask(L), UNCHANGED <<muted, answers>>,
         \A r \in Reads : Added(r) => Added(r)' /\ (Over(r) => r \notin L),
         \A r \in L : Added(r)'
  PROVE  Connected(client)' /\ Delivered' /\ client' \in Clients /\ client'.out = << >>
         /\ main' \in Seq(Events)
<1>1. PICK d \in Clients : Running(d) /\ Connected(d) /\ d.listeners = L /\ Perform(d)
  BY DEF PlainTask
<1> DEFINE o == d.out
<1>2. o \in Seq(Told(L)) /\ o \in Seq(Events) /\ main \in Seq(Events)
  BY <1>1 DEF Running, Clients, IInv, Typed
<1>3. main' = main \o o /\ client' = [d EXCEPT !.out = << >>]
  BY <1>1 DEF Perform
<1>4. /\ client' \in Clients /\ client'.out = << >> /\ client'.listeners = L
      /\ client'.failed = d.failed /\ client'.target = d.target /\ client'.view = d.view
      /\ client'.state = d.state /\ client'.asked = d.asked /\ client'.stream = d.stream
      /\ client'.idle = d.idle /\ client'.timer = d.timer /\ client'.failures = d.failures
  <2>1. << >> \in Seq(Events)
    OBVIOUS
  <2> QED
    BY <1>1, <1>3, <2>1 DEF Clients
<1>5. Connected(client)'
  BY <1>1, <1>4 DEF Connected, IsStarted
<1>6. /\ main' \in Seq(Events) /\ Len(main) \in Nat /\ Len(o) \in Nat
      /\ DOMAIN main' = 1 .. Len(main) + Len(o)
      /\ DOMAIN main = 1 .. Len(main) /\ DOMAIN o = 1 .. Len(o)
      /\ \A i \in 1 .. Len(main) : main'[i] = main[i]
      /\ \A i \in Len(main) + 1 .. Len(main) + Len(o) :
           i - Len(main) \in 1 .. Len(o) /\ main'[i] = o[i - Len(main)]
  BY <1>2, <1>3, Concatenated
<1>7. \A i \in 1 .. Len(o) : o[i].read \in L /\ o[i].kind # "error"
  <2>1. \A i \in 1 .. Len(o) : o[i] \in Told(L)
    BY <1>2
  <2> QED
    BY <2>1 DEF Told
<1> HIDE DEF o
<1>8. \A i \in DOMAIN main' :
        \/ i \in DOMAIN main /\ main'[i] = main[i]
        \/ i \notin DOMAIN main /\ main'[i].read \in L /\ main'[i].kind # "error"
  BY <1>6, <1>7
<1>9. \A r \in Reads : Over(r) => Over(r)' /\ r \notin L
  BY <1>4 DEF Over
<1>10. \A i \in DOMAIN main' : main'[i].read \in Reads
  <2>1. \A i \in DOMAIN main' : main'[i] \in Events
    BY <1>6
  <2> QED
    BY <2>1 DEF Events
<1>11. ASSUME NEW i \in DOMAIN main', NEW r \in Reads, r = main'[i].read
       PROVE  /\ Added(r)'
              /\ main'[i].kind = "error" =>
                   Over(r)' /\ \A j \in DOMAIN main' : j > i => main'[j].read # r
  <2>1. CASE i \notin DOMAIN main
    BY <1>8, <1>11, <2>1
  <2>2. CASE i \in DOMAIN main
    <3>1. /\ Added(r)
          /\ main'[i].kind = "error" =>
               Over(r) /\ \A j \in DOMAIN main : j > i => main[j].read # r
      BY <1>8, <1>11, <2>2 DEF IInv, Delivered
    <3> QED
      BY <1>8, <1>9, <3>1
  <2> QED
    BY <2>1, <2>2
<1>12. ASSUME NEW r \in Reads, answers'[r] # << >>
       PROVE  /\ Len(answers'[r]) = 1
              /\ \/ r \in muted'
                 \/ Over(r)' /\ \A i \in DOMAIN main' : main'[i].read # r
  <2>1. /\ Len(answers[r]) = 1
        /\ r \in muted \/ (Over(r) /\ \A i \in DOMAIN main : main[i].read # r)
    BY <1>12 DEF IInv, Delivered
  <2> QED
    BY <1>8, <1>9, <2>1
<1>13. Delivered'
  BY <1>4, <1>10, <1>11, <1>12 DEF Delivered
<1> QED
  BY <1>4, <1>5, <1>6, <1>13

(* Nothing else changes: a timer, the stream or the tracker's. *)
LEMMA QuietTaskKeeps ==
  ASSUME IInv, PlainTask(client.listeners), UNCHANGED <<made, worker, muted, answers>>
  PROVE  IInv'
<1>1. \A r \in Reads : Added(r) => Added(r)' /\ (Over(r) => r \notin client.listeners)
  BY DEF Added, Over
<1>2. client.listeners \in SUBSET Reads
  BY ClientNow
<1>3. \A r \in client.listeners : Added(r)'
  BY <1>1, <1>2 DEF IInv, Delivered
<1>4. /\ Connected(client)' /\ Delivered' /\ client' \in Clients /\ client'.out = << >>
      /\ main' \in Seq(Events)
  BY <1>1, <1>2, <1>3, PlainTaskDelivers
<1> QED
  BY <1>4 DEF IInv, Typed, AddedOnce

(* The head of the worker queue leaves it. *)
LEMMA TaskTaken ==
  ASSUME IInv, NEW kind, Task(kind)
  PROVE  /\ worker' \in Seq(Tasks) /\ Head(worker) \in Tasks /\ Head(worker).kind = kind
         /\ 1 \in DOMAIN worker /\ Head(worker) = worker[1]
         /\ \A i \in DOMAIN worker' :
              i \in Nat /\ i + 1 \in DOMAIN worker /\ worker'[i] = worker[i + 1]
<1>1. worker \in Seq(Tasks) /\ worker # << >> /\ worker' = Tail(worker)
      /\ Head(worker).kind = kind
  BY DEF IInv, Typed, Task
<1> QED
  BY <1>1, TailMovesUp

LEMMA TaskTakenOnce ==
  ASSUME IInv, NEW kind, Task(kind), UNCHANGED made
  PROVE  /\ AddedOnce'
         /\ \A r \in Reads : Added(r) => Added(r)'
         /\ \A r \in Reads :
              kind = "add" /\ r = Head(worker).read => ~Added(r) /\ Added(r)'
<1>1. /\ Head(worker) \in Tasks /\ Head(worker).kind = kind
      /\ 1 \in DOMAIN worker /\ Head(worker) = worker[1]
      /\ \A i \in DOMAIN worker' :
           i \in Nat /\ i + 1 \in DOMAIN worker /\ worker'[i] = worker[i + 1]
  BY TaskTaken
<1>2. AddedOnce'
  <2> SUFFICES ASSUME NEW i \in DOMAIN worker', NEW j \in DOMAIN worker'
               PROVE  /\ worker'[i].read <= made
                      /\ worker'[i].kind = "add" /\ worker'[j].kind = "add"
                           /\ worker'[i].read = worker'[j].read => i = j
    BY DEF AddedOnce
  <2>1. /\ worker[i + 1].read <= made
        /\ worker[i + 1].kind = "add" /\ worker[j + 1].kind = "add"
             /\ worker[i + 1].read = worker[j + 1].read => i + 1 = j + 1
    BY <1>1 DEF IInv, AddedOnce
  <2> QED
    BY <1>1, <2>1
<1>3. \A r \in Reads : Added(r) => Added(r)'
  BY <1>1 DEF Added
<1>4. ASSUME kind = "add", NEW r \in Reads, r = Head(worker).read
      PROVE  ~Added(r) /\ Added(r)'
  <2>1. ~Added(r) /\ r <= made
    BY <1>1, <1>4 DEF Added, IInv, AddedOnce
  <2>2. ASSUME NEW i \in DOMAIN worker', worker'[i].kind = "add", worker'[i].read = r
        PROVE  FALSE
    <3>1. /\ i + 1 \in DOMAIN worker /\ worker[i + 1].kind = "add"
          /\ worker[i + 1].read = worker[1].read /\ worker[1].kind = "add"
      BY <1>1, <1>4, <2>2
    <3>2. \A j, k \in DOMAIN worker :
            worker[j].kind = "add" /\ worker[k].kind = "add"
              /\ worker[j].read = worker[k].read => j = k
      BY DEF IInv, AddedOnce
    <3>3. i + 1 = 1 /\ i \in 1 .. Len(worker')
      <4>1. worker' \in Seq(Tasks)
        BY TaskTaken
      <4>2. i \in 1 .. Len(worker')
        BY <2>2, <4>1
      <4>3. i + 1 = 1
        BY <1>1, <3>1, <3>2
      <4> QED
        BY <4>2, <4>3
    <3> QED
      BY <3>3
  <2> QED
    BY <2>1, <2>2 DEF Added
<1> QED
  BY <1>2, <1>3, <1>4

LEMMA AddKeeps ==
  ASSUME IInv, AddQueryListener PROVE IInv'
<1> DEFINE r == Head(worker).read
           L == client.listeners \cup {r}
<1>1. Task("add") /\ UNCHANGED <<made, muted, answers, losses>>
  BY DEF AddQueryListener
<1>2. worker' \in Seq(Tasks) /\ Head(worker) \in Tasks
  BY <1>1, TaskTaken
<1>3. r \in Reads /\ L \in SUBSET Reads
  BY <1>2, ClientNow DEF Tasks
<1>4. /\ AddedOnce'
      /\ \A x \in Reads : Added(x) => Added(x)'
      /\ \A x \in Reads : x = r => ~Added(x) /\ Added(x)'
  BY <1>1, TaskTakenOnce
<1>5. PlainTask(L)
  BY AddTask
<1> HIDE DEF r
<1>6. \A x \in Reads : Added(x) => Added(x)' /\ (Over(x) => x \notin L)
  BY <1>4 DEF Over
<1>7. \A x \in L : Added(x)'
  BY <1>3, <1>4 DEF IInv, Delivered
<1>8. /\ Connected(client)' /\ Delivered' /\ client' \in Clients /\ client'.out = << >>
      /\ main' \in Seq(Events)
  BY <1>1, <1>3, <1>5, <1>6, <1>7, PlainTaskDelivers
<1> QED
  BY <1>1, <1>2, <1>4, <1>8 DEF IInv, Typed

LEMMA RemoveKeeps ==
  ASSUME IInv, RemoveQueryListener PROVE IInv'
<1> DEFINE L == client.listeners \ {Head(worker).read}
<1>1. Task("remove") /\ UNCHANGED <<made, muted, answers, losses>>
  BY DEF RemoveQueryListener
<1>2. worker' \in Seq(Tasks)
  BY <1>1, TaskTaken
<1>3. L \in SUBSET Reads
  BY ClientNow
<1>4. AddedOnce' /\ \A x \in Reads : Added(x) => Added(x)'
  BY <1>1, TaskTakenOnce
<1>5. PlainTask(L)
  BY RemoveTask
<1>6. \A x \in Reads : Added(x) => Added(x)' /\ (Over(x) => x \notin L)
  BY <1>4 DEF Over
<1>7. \A x \in L : Added(x)'
  BY <1>3, <1>4 DEF IInv, Delivered
<1>8. /\ Connected(client)' /\ Delivered' /\ client' \in Clients /\ client'.out = << >>
      /\ main' \in Seq(Events)
  BY <1>1, <1>3, <1>5, <1>6, <1>7, PlainTaskDelivers
<1> QED
  BY <1>1, <1>2, <1>4, <1>8 DEF IInv, Typed

(* The events of a refused target: what the listeners are told of the      *)
(* client being online, and an error each.                                 *)
LEMMA TargetErrorTask ==
  ASSUME IInv, ProcessTargetError
  PROVE  /\ Connected(client)' /\ client' \in Clients /\ client'.out = << >>
         /\ client'.listeners = {}
         /\ \E o \in Seq(Events) :
              /\ main' = main \o o
              /\ \A i \in DOMAIN o : o[i].read \in client.listeners
              /\ \A i, j \in DOMAIN o :
                   o[i].kind = "error" /\ j > i => o[j].read # o[i].read
<1> DEFINE u == UpdateState(client, "Online")
           rs == SetToSeq(u.listeners)
           errors == [i \in DOMAIN rs |-> [read |-> rs[i], kind |-> "error"]]
           o == u.out \o errors
           d == [u EXCEPT !.listeners = {}, !.view = "none", !.target = FALSE,
                          !.asked = FALSE, !.out = o]
<1>1. /\ Running(client) /\ Connected(client) /\ client.failed = FALSE
      /\ client.listeners \in SUBSET Reads
  BY ClientNow
<1>2. /\ Running(u) /\ SameQuery(client, u) /\ u.failed = FALSE
      /\ u.state = "Online" /\ u.timer = FALSE /\ u.failures = 0
      /\ u.listeners = client.listeners
  BY <1>1, UpdateStateFacts DEF SameQuery
<1>3. Perform(d) /\ client.stream = "Open" /\ client.asked
  BY DEF ProcessTargetError
<1> DEFINE n == Cardinality(u.listeners)
<1>4. /\ n \in Nat /\ rs \in [1 .. n -> u.listeners]
      /\ \A i, j \in 1 .. n : rs[i] = rs[j] => i = j
  BY <1>1, <1>2, Listed
<1>5. u.out \in Seq(Told(u.listeners)) /\ u.out \in Seq(Events) /\ u \in Clients
      /\ \A i \in DOMAIN u.out : u.out[i] \in Told(u.listeners)
  BY <1>2 DEF Running, Clients
<1> HIDE DEF u, rs, n
<1>6. /\ errors \in [1 .. n -> [read : u.listeners, kind : {"error"}]]
      /\ \A i \in 1 .. n : errors[i].read = rs[i] /\ errors[i].kind = "error"
  BY <1>4
<1>7. [read : u.listeners, kind : {"error"}] \subseteq Events
  BY <1>1, <1>2 DEF Events, Kinds
<1>8. errors \in Seq(Events) /\ DOMAIN errors = 1 .. n /\ Len(errors) = n
  <2>1. errors \in [1 .. n -> Events]
    BY <1>6, <1>7
  <2> QED
    BY <1>4, <2>1
<1> HIDE DEF errors
<1>9. /\ o \in Seq(Events) /\ Len(u.out) \in Nat
      /\ DOMAIN o = 1 .. Len(u.out) + n /\ DOMAIN u.out = 1 .. Len(u.out)
      /\ \A i \in 1 .. Len(u.out) : o[i] = u.out[i]
      /\ \A i \in Len(u.out) + 1 .. Len(u.out) + n :
           i - Len(u.out) \in 1 .. n /\ o[i] = errors[i - Len(u.out)]
  <2> DEFINE p == u.out
  <2>0. p \in Seq(Events) /\ errors \in Seq(Events)
    BY <1>5, <1>8
  <2> HIDE DEF p
  <2>1. /\ p \o errors \in Seq(Events) /\ Len(p) \in Nat
        /\ DOMAIN (p \o errors) = 1 .. Len(p) + Len(errors) /\ DOMAIN p = 1 .. Len(p)
        /\ \A i \in 1 .. Len(p) : (p \o errors)[i] = p[i]
        /\ \A i \in Len(p) + 1 .. Len(p) + Len(errors) :
             i - Len(p) \in 1 .. Len(errors) /\ (p \o errors)[i] = errors[i - Len(p)]
    BY <2>0, Concatenated
  <2>2. o = p \o errors
    BY DEF p
  <2> HIDE DEF o
  <2> QED
    BY <1>8, <2>1, <2>2 DEF p
<1> HIDE DEF o
<1>10. \A i \in 1 .. Len(u.out) : o[i].read \in u.listeners /\ o[i].kind # "error"
  BY <1>5, <1>9 DEF Told
<1>11. \A i \in Len(u.out) + 1 .. Len(u.out) + n :
         i - Len(u.out) \in 1 .. n /\ o[i].read = rs[i - Len(u.out)]
         /\ rs[i - Len(u.out)] \in u.listeners
  BY <1>4, <1>6, <1>9
<1>12. \A i \in DOMAIN o : o[i].read \in client.listeners
  BY <1>2, <1>9, <1>10, <1>11
<1>13. ASSUME NEW i \in DOMAIN o, NEW j \in DOMAIN o, o[i].kind = "error", j > i
       PROVE  o[j].read # o[i].read
  <2>1. i \in Len(u.out) + 1 .. Len(u.out) + n
    BY <1>4, <1>9, <1>10, <1>13
  <2>2. j \in Len(u.out) + 1 .. Len(u.out) + n
    BY <1>4, <1>9, <1>13, <2>1
  <2> DEFINE k == i - Len(u.out)
             l == j - Len(u.out)
  <2>3. /\ k # l /\ k \in 1 .. n /\ l \in 1 .. n
        /\ o[i].read = rs[k] /\ o[j].read = rs[l]
    BY <1>9, <1>11, <1>13, <2>1, <2>2
  <2> HIDE DEF k, l
  <2> QED
    BY <1>4, <2>3
<1>14. main' = main \o o /\ client' = [d EXCEPT !.out = << >>]
  <2>1. d.out = o
    BY <1>5 DEF Clients
  <2> HIDE DEF d
  <2> QED
    BY <1>3, <2>1 DEF Perform
<1>15. /\ client' \in Clients /\ client'.out = << >> /\ client'.listeners = {}
       /\ client'.failed = FALSE /\ client'.target = FALSE /\ client'.view = "none"
       /\ client'.state = "Online" /\ client'.asked = FALSE /\ client'.idle = u.idle
       /\ client'.timer = FALSE /\ client'.failures = 0
  <2>1. << >> \in Seq(Events) /\ {} \in SUBSET Reads
    OBVIOUS
  <2>2. /\ d \in Clients /\ d.listeners = {} /\ d.failed = FALSE /\ d.target = FALSE
        /\ d.view = "none" /\ d.state = "Online" /\ d.asked = FALSE /\ d.idle = u.idle
        /\ d.timer = FALSE /\ d.failures = 0
    BY <1>2, <1>5, <1>9, <2>1 DEF Clients
  <2>3. client' = [d EXCEPT !.out = << >>]
    BY <1>14
  <2> HIDE DEF d
  <2> QED
    BY <2>1, <2>2, <2>3 DEF Clients
<1>16. u.idle = FALSE
  BY <1>1, <1>2, <1>3, <1>5 DEF Connected, SameQuery, Clients
<1>17. Connected(client')
  BY <1>15, <1>16, ConnectedFromFields
<1>18. Connected(client)'
  BY <1>17 DEF Connected, IsStarted
<1>19. /\ main' = main \o o
       /\ \A i, j \in DOMAIN o : o[i].kind = "error" /\ j > i => o[j].read # o[i].read
  BY <1>13, <1>14
<1> QED
  BY <1>9, <1>12, <1>15, <1>18, <1>19

LEMMA TargetErrorKeeps ==
  ASSUME IInv, ProcessTargetError PROVE IInv'
<1>1. UNCHANGED <<made, worker, muted, answers>>
  BY DEF ProcessTargetError
<1>2. /\ Connected(client)' /\ client' \in Clients /\ client'.out = << >>
      /\ client'.listeners = {}
  BY TargetErrorTask
<1>3. PICK o \in Seq(Events) :
        /\ main' = main \o o
        /\ \A i \in DOMAIN o : o[i].read \in client.listeners
        /\ \A i, j \in DOMAIN o : o[i].kind = "error" /\ j > i => o[j].read # o[i].read
  BY TargetErrorTask
<1>4. main \in Seq(Events) /\ client.listeners \in SUBSET Reads
  BY ClientNow DEF IInv, Typed
<1>5. /\ main' \in Seq(Events) /\ Len(main) \in Nat /\ Len(o) \in Nat
      /\ DOMAIN main' = 1 .. Len(main) + Len(o)
      /\ DOMAIN main = 1 .. Len(main) /\ DOMAIN o = 1 .. Len(o)
      /\ \A i \in 1 .. Len(main) : main'[i] = main[i]
      /\ \A i \in Len(main) + 1 .. Len(main) + Len(o) :
           i - Len(main) \in 1 .. Len(o) /\ main'[i] = o[i - Len(main)]
  BY <1>3, <1>4, Concatenated
<1>6. \A i \in DOMAIN main' :
        \/ i \in DOMAIN main /\ main'[i] = main[i]
        \/ i \notin DOMAIN main /\ main'[i].read \in client.listeners
  BY <1>3, <1>5
<1>7. \A r \in Reads :
        /\ Added(r) => Added(r)' /\ Over(r)'
        /\ Over(r) => r \notin client.listeners
        /\ r \in client.listeners => Added(r)
  BY <1>1, <1>2 DEF Added, Over, IInv, Delivered
<1>8. \A i \in DOMAIN main' : main'[i].read \in Reads
  <2>1. \A i \in DOMAIN main' : main'[i] \in Events
    BY <1>5
  <2> QED
    BY <2>1 DEF Events
<1>9. ASSUME NEW i \in DOMAIN main', NEW j \in DOMAIN main', main'[i].kind = "error", j > i
      PROVE  main'[j].read # main'[i].read
  <2>1. CASE i \in DOMAIN main
    <3>1. /\ main[i].kind = "error" /\ main'[i].read = main[i].read
          /\ main[i].read \in Reads
      BY <1>5, <1>8, <1>9, <2>1
    <3>2. /\ Over(main[i].read)
          /\ \A k \in DOMAIN main : k > i => main[k].read # main[i].read
      BY <2>1, <3>1 DEF IInv, Delivered
    <3> QED
      BY <1>6, <1>7, <1>9, <3>1, <3>2
  <2>2. CASE i \notin DOMAIN main
    <3> DEFINE k == i - Len(main)
               l == j - Len(main)
    <3>1. /\ k \in DOMAIN o /\ l \in DOMAIN o /\ l > k
          /\ main'[i] = o[k] /\ main'[j] = o[l]
      BY <1>5, <1>9, <2>2
    <3> HIDE DEF k, l
    <3> QED
      BY <1>3, <1>9, <3>1
  <2> QED
    BY <2>1, <2>2
<1>10. ASSUME NEW i \in DOMAIN main', NEW r \in Reads, r = main'[i].read
       PROVE  /\ Added(r)'
              /\ main'[i].kind = "error" => Over(r)'
  <2>1. CASE i \in DOMAIN main
    <3>1. Added(r)
      BY <1>6, <1>10, <2>1 DEF IInv, Delivered
    <3> QED
      BY <1>7, <3>1
  <2>2. CASE i \notin DOMAIN main
    BY <1>6, <1>7, <1>10, <2>2
  <2> QED
    BY <2>1, <2>2
<1>11. ASSUME NEW r \in Reads, answers'[r] # << >>
       PROVE  /\ Len(answers'[r]) = 1
              /\ \/ r \in muted'
                 \/ Over(r)' /\ \A i \in DOMAIN main' : main'[i].read # r
  <2>1. /\ Len(answers[r]) = 1
        /\ r \in muted \/ (Over(r) /\ \A i \in DOMAIN main : main[i].read # r)
    BY <1>1, <1>11 DEF IInv, Delivered
  <2>2. Over(r) => Over(r)'
    BY <1>7 DEF Over
  <2> QED
    BY <1>1, <1>6, <1>7, <2>1, <2>2
<1>12. Delivered'
  BY <1>2, <1>8, <1>9, <1>10, <1>11 DEF Delivered
<1> QED
  BY <1>1, <1>2, <1>5, <1>12 DEF IInv, Typed, AddedOnce
-----------------------------------------------------------------------------
(* A call of getDocument: its listener is yet to be added. *)
LEMMA GetDocumentKeeps ==
  ASSUME IInv, GetDocument PROVE IInv'
<1> DEFINE n == made + 1
           t == [kind |-> "add", read |-> n]
<1>1. /\ made' = n /\ worker' = Append(worker, t) /\ made < MaxReads
      /\ UNCHANGED <<main, muted, answers, client>>
  BY DEF GetDocument
<1>2. /\ made \in Nat /\ n \in Reads /\ n \in 0 .. MaxReads /\ n > made /\ t \in Tasks
      /\ worker \in Seq(Tasks) /\ t.kind = "add" /\ t.read = n
  BY <1>1, ReadsAssumption DEF IInv, Typed, Tasks, Reads, ReadsAssumption
<1> HIDE DEF t, n
<1>3. /\ worker' \in Seq(Tasks) /\ Len(worker) \in Nat
      /\ DOMAIN worker' = 1 .. Len(worker) + 1 /\ DOMAIN worker = 1 .. Len(worker)
      /\ worker'[Len(worker) + 1] = t
      /\ \A i \in 1 .. Len(worker) : worker'[i] = worker[i]
  BY <1>1, <1>2, AppendComesLast
<1>4. \A i \in DOMAIN worker' :
        \/ i \in DOMAIN worker /\ worker'[i] = worker[i] /\ worker'[i].read <= made
        \/ i = Len(worker) + 1 /\ worker'[i].read = n
  BY <1>2, <1>3 DEF IInv, AddedOnce
<1>5. \A i \in DOMAIN worker' : worker'[i].read \in Reads
  <2>1. \A i \in DOMAIN worker' : worker'[i] \in Tasks
    BY <1>3
  <2> QED
    BY <2>1 DEF Tasks
<1>6. \A r \in Reads : Added(r) => Added(r)' /\ r # n
  BY <1>1, <1>2, <1>4 DEF Added, Reads
<1>7. AddedOnce'
  <2> SUFFICES ASSUME NEW i \in DOMAIN worker', NEW j \in DOMAIN worker'
               PROVE  /\ worker'[i].read <= made'
                      /\ worker'[i].kind = "add" /\ worker'[j].kind = "add"
                           /\ worker'[i].read = worker'[j].read => i = j
    BY DEF AddedOnce
  <2>1. worker'[i].read <= made'
    BY <1>1, <1>2, <1>4, <1>5 DEF Reads, n
  <2>2. CASE i \in DOMAIN worker /\ j \in DOMAIN worker
    BY <1>4, <1>3, <2>1, <2>2 DEF IInv, AddedOnce
  <2>3. CASE ~(i \in DOMAIN worker /\ j \in DOMAIN worker)
    BY <1>2, <1>3, <1>4, <1>5, <2>1, <2>3 DEF Reads
  <2> QED
    BY <2>2, <2>3
<1>8. \A r \in Reads : Over(r) => Over(r)'
  BY <1>1, <1>6 DEF Over
<1>9. \A i \in DOMAIN main : main[i].read \in Reads
  <2>1. \A i \in DOMAIN main : main[i] \in Events
    BY DEF IInv, Typed
  <2> QED
    BY <2>1 DEF Events
<1>10. ASSUME NEW i \in DOMAIN main, NEW r \in Reads, r = main[i].read
       PROVE  /\ Added(r)'
              /\ main[i].kind = "error" => Over(r)'
  <2>1. Added(r) /\ (main[i].kind = "error" => Over(r))
    BY <1>10 DEF IInv, Delivered
  <2> QED
    BY <1>6, <1>8, <2>1
<1>11. Delivered'
  <2>1. \A r \in client.listeners : Added(r)'
    BY <1>6, ClientNow DEF IInv, Delivered
  <2>2. \A i \in DOMAIN main : main[i].kind = "error" =>
          \A j \in DOMAIN main : j > i => main[j].read # main[i].read
    BY DEF IInv, Delivered
  <2>3. \A r \in Reads : answers[r] # << >> =>
          /\ Len(answers[r]) = 1
          /\ \/ r \in muted
             \/ Over(r)' /\ \A i \in DOMAIN main : main[i].read # r
    BY <1>8 DEF IInv, Delivered
  <2> QED
    BY <1>1, <1>9, <1>10, <2>1, <2>2, <2>3 DEF Delivered
<1>12. Connected(client)' /\ Typed'
  BY <1>1, <1>2, <1>3 DEF IInv, Typed, Connected, IsStarted
<1> QED
  BY <1>7, <1>11, <1>12 DEF IInv

(* An event runs: the listener is muted or gone once it has answered.      *)
LEMMA RunEventKeeps ==
  ASSUME IInv, RunEvent PROVE IInv'
<1> DEFINE e == Head(main)
           t == [kind |-> "remove", read |-> e.read]
<1>1. /\ main \in Seq(Events) /\ main # << >> /\ main' = Tail(main)
      /\ UNCHANGED <<made, client, losses>> /\ worker \in Seq(Tasks)
      /\ muted \in SUBSET Reads /\ answers \in [Reads -> Seq(Kinds)]
  BY DEF IInv, Typed, RunEvent
<1>2. /\ main' \in Seq(Events) /\ e = main[1] /\ e \in Events /\ 1 \in DOMAIN main
      /\ DOMAIN main' = 1 .. Len(main) - 1 /\ DOMAIN main = 1 .. Len(main)
      /\ Len(main) \in Nat \ {0}
      /\ \A i \in DOMAIN main' : main'[i] = main[i + 1] /\ i + 1 \in DOMAIN main
  BY <1>1, TailMovesUp
<1>3. \/ e.read \in muted /\ UNCHANGED <<worker, muted, answers>>
      \/ /\ e.read \notin muted
         /\ answers' = [answers EXCEPT ![e.read] = Append(answers[e.read], e.kind)]
         /\ \/ e.kind = "error" /\ UNCHANGED <<worker, muted>>
            \/ /\ e.kind # "error" /\ muted' = muted \cup {e.read}
               /\ worker' = Append(worker, t)
  BY DEF RunEvent
<1>4. e.read \in Reads /\ e.kind \in Kinds /\ t \in Tasks /\ t.kind = "remove"
      /\ t.read = e.read
  BY <1>2 DEF Events, Tasks
<1>5. /\ Added(e.read)
      /\ e.kind = "error" => /\ Over(e.read)
                             /\ \A i \in DOMAIN main' : main'[i].read # e.read
  <2>1. \A i \in DOMAIN main' : i + 1 > 1
    BY <1>2
  <2> HIDE DEF e
  <2> QED
    BY <1>2, <2>1 DEF IInv, Delivered
<1> HIDE DEF e, t
<1>6. /\ worker' \in Seq(Tasks)
      /\ \A i \in DOMAIN worker' :
           \/ i \in DOMAIN worker /\ worker'[i] = worker[i]
           \/ worker'[i] = t
  <2>1. CASE worker' = worker
    BY <1>1, <2>1
  <2>2. CASE worker' = Append(worker, t)
    <3>1. /\ worker' \in Seq(Tasks) /\ Len(worker) \in Nat
          /\ DOMAIN worker' = 1 .. Len(worker) + 1 /\ DOMAIN worker = 1 .. Len(worker)
          /\ worker'[Len(worker) + 1] = t
          /\ \A i \in 1 .. Len(worker) : worker'[i] = worker[i]
      BY <1>1, <1>4, <2>2, AppendComesLast
    <3> QED
      BY <3>1
  <2> QED
    BY <1>3, <2>1, <2>2
<1>7. AddedOnce'
  <2>1. e.read <= made
    BY <1>5 DEF Added
  <2> QED
    BY <1>1, <1>4, <1>6, <2>1 DEF IInv, AddedOnce
<1>8. \A r \in Reads : (Added(r) => Added(r)') /\ (Over(r) => Over(r)')
  BY <1>1, <1>4, <1>6 DEF Added, Over
<1>9. /\ muted' \in SUBSET Reads /\ answers' \in [Reads -> Seq(Kinds)]
      /\ muted \subseteq muted'
      /\ \A r \in Reads : r # e.read => answers'[r] = answers[r]
  <2>1. Append(answers[e.read], e.kind) \in Seq(Kinds)
    BY <1>1, <1>4
  <2> QED
    BY <1>1, <1>3, <1>4, <2>1
<1>10. answers'[e.read] # << >> =>
         /\ Len(answers'[e.read]) = 1
         /\ e.read \in muted' \/ (Over(e.read) /\ \A i \in DOMAIN main' : main'[i].read # e.read)
  <2>1. CASE e.read \in muted
    BY <1>3, <1>4, <2>1 DEF IInv, Delivered
  <2>2. CASE e.read \notin muted
    <3>1. answers[e.read] = << >>
      BY <1>2, <1>4, <2>2 DEF IInv, Delivered
    <3>2. answers'[e.read] = <<e.kind>>
      BY <1>1, <1>3, <1>4, <2>2, <3>1
    <3> QED
      BY <1>3, <1>5, <2>2, <3>2
  <2> QED
    BY <2>1, <2>2
<1>11. ASSUME NEW r \in Reads, answers'[r] # << >>
       PROVE  /\ Len(answers'[r]) = 1
              /\ \/ r \in muted'
                 \/ Over(r)' /\ \A i \in DOMAIN main' : main'[i].read # r
  <2>1. CASE r = e.read
    BY <1>8, <1>10, <1>11, <2>1
  <2>2. CASE r # e.read
    <3>1. /\ Len(answers[r]) = 1
          /\ r \in muted \/ (Over(r) /\ \A i \in DOMAIN main : main[i].read # r)
      BY <1>9, <1>11, <2>2 DEF IInv, Delivered
    <3> QED
      BY <1>2, <1>8, <1>9, <2>2, <3>1
  <2> QED
    BY <2>1, <2>2
<1>12. ASSUME NEW i \in DOMAIN main', NEW r \in Reads, r = main'[i].read
       PROVE  /\ Added(r)'
              /\ main'[i].kind = "error" =>
                   Over(r)' /\ \A j \in DOMAIN main' : j > i => main'[j].read # r
  <2>1. i + 1 \in DOMAIN main /\ main'[i] = main[i + 1]
    BY <1>2
  <2>2. /\ Added(r)
        /\ main'[i].kind = "error" =>
             Over(r) /\ \A j \in DOMAIN main : j > i + 1 => main[j].read # r
    BY <1>12, <2>1 DEF IInv, Delivered
  <2>3. ASSUME NEW j \in DOMAIN main', j > i PROVE j + 1 > i + 1
    BY <1>2, <2>3
  <2> QED
    BY <1>2, <1>8, <2>2, <2>3
<1>13. \A i \in DOMAIN main' : main'[i].read \in Reads
  <2>1. \A i \in DOMAIN main' : main'[i] \in Events
    BY <1>2
  <2> QED
    BY <2>1 DEF Events
<1>14. \A r \in client'.listeners : Added(r)'
  BY <1>1, <1>8, ClientNow DEF IInv, Delivered
<1>15. Delivered'
  BY <1>11, <1>12, <1>13, <1>14 DEF Delivered
<1>16. Connected(client)' /\ Typed'
  BY <1>1, <1>2, <1>6, <1>9 DEF IInv, Typed, Connected, IsStarted
<1> QED
  BY <1>7, <1>15, <1>16 DEF IInv
-----------------------------------------------------------------------------
LEMMA InitIInv ==
  ASSUME Init PROVE IInv
<1>1. /\ made = 0 /\ worker = << >> /\ main = << >> /\ muted = {}
      /\ answers = [r \in Reads |-> << >>]
  BY DEF Init
<1>2. /\ client \in Clients /\ client.out = << >> /\ client.listeners = {}
      /\ client.failed = FALSE /\ client.target = FALSE /\ client.view = "none"
      /\ client.stream = "Initial" /\ client.asked = FALSE /\ client.idle = FALSE
      /\ client.timer = FALSE /\ client.state = "Unknown"
  <2>1. << >> \in Seq(Events) /\ {} \in SUBSET Reads
    OBVIOUS
  <2> QED
    BY <2>1 DEF Init, Clients
<1>3. Connected(client)
  BY <1>2, ConnectedFromFields
<1>4. Typed
  <2>1. /\ << >> \in Seq(Tasks) /\ << >> \in Seq(Events) /\ {} \subseteq Reads
        /\ [r \in Reads |-> << >>] \in [Reads -> Seq(Kinds)]
    OBVIOUS
  <2>2. made \in 0 .. MaxReads
    BY <1>1, ReadsAssumption DEF ReadsAssumption
  <2> QED
    BY <1>1, <1>2, <2>1, <2>2 DEF Typed
<1>5. AddedOnce
  BY <1>1 DEF AddedOnce
<1>6. Delivered
  BY <1>1, <1>2 DEF Delivered
<1> QED
  BY <1>3, <1>4, <1>5, <1>6 DEF IInv

LEMMA NextIInv ==
  ASSUME IInv, [Next]_vars PROVE IInv'
<1>1. CASE GetDocument
  BY <1>1, GetDocumentKeeps
<1>2. CASE RunEvent
  BY <1>2, RunEventKeeps
<1>3. CASE AddQueryListener
  BY <1>3, AddKeeps
<1>4. CASE RemoveQueryListener
  BY <1>4, RemoveKeeps
<1>5. CASE ProcessTargetError
  BY <1>5, TargetErrorKeeps
<1>6. CASE \/ OnWatchStreamOpen \/ StreamFailed \/ BackoffElapsed \/ IdleTimeout
           \/ OnlineStateTimeout \/ NetworkRestarted \/ TargetAcknowledged \/ WatchSnapshot
  <2>1. PlainTask(client.listeners)
    BY <1>6, QuietTasks
  <2>2. UNCHANGED <<made, worker, muted, answers>>
    BY <1>6 DEF OnWatchStreamOpen, StreamFailed, BackoffElapsed, IdleTimeout,
                OnlineStateTimeout, NetworkRestarted, TargetAcknowledged, WatchSnapshot
  <2> QED
    BY <2>1, <2>2, QuietTaskKeeps
<1>7. CASE UNCHANGED vars
  BY <1>7 DEF vars, IInv, Typed, Connected, IsStarted, AddedOnce, Delivered, Added, Over
<1> QED
  BY <1>1, <1>2, <1>3, <1>4, <1>5, <1>6, <1>7 DEF Next, Worker, Backend

LEMMA InvariantHolds == Spec => []IInv
  BY InitIInv, NextIInv, PTL DEF Spec

(* Every variable stays in its range, for any number of reads and losses:  *)
(* a task leaves no event behind, whatever the stream and the tracker do   *)
(* in it.                                                                  *)
THEOREM ReadTypesCorrect == Spec => []TypeOK
<1>1. IInv => TypeOK
  BY DEF IInv, Typed, TypeOK, Clients
<1> QED
  BY <1>1, InvariantHolds, PTL

(* No assertion of OnlineStateTracker, RemoteStore or SyncEngine fails: the *)
(* tracker's timer has been cancelled when a stream starts or fails, a     *)
(* query that is dropped has a target, and the stream that idles has none. *)
THEOREM ReadAssertionsHold == Spec => []AssertionsHold
<1>1. IInv => AssertionsHold
  BY DEF IInv, Connected, AssertionsHold
<1> QED
  BY <1>1, InvariantHolds, PTL

(* The completion of getDocument is called once at most, however many      *)
(* snapshots and errors are on their way when the first of them runs.      *)
THEOREM CompletionCalledOnce == Spec => []AnsweredOnce
<1>1. IInv => AnsweredOnce
  <2> SUFFICES ASSUME IInv, NEW r \in Reads PROVE Len(answers[r]) <= 1
    BY DEF AnsweredOnce
  <2>1. CASE answers[r] = << >>
    <3>1. Len(answers[r]) = 0
      BY <2>1
    <3> QED
      BY <3>1
  <2>2. CASE answers[r] # << >>
    <3>1. Len(answers[r]) = 1
      BY <2>2 DEF IInv, Delivered
    <3> QED
      BY <3>1
  <2> QED
    BY <2>1, <2>2
<1> QED
  BY <1>1, InvariantHolds, PTL

(* A view counts as the backend's word only while the client is not known  *)
(* to be offline: the tracker takes it back before the listeners hear.     *)
THEOREM SyncedViewIsOnline == Spec => []SyncedIsOnline
<1>1. IInv => SyncedIsOnline
  BY DEF IInv, Connected, SyncedIsOnline
<1> QED
  BY <1>1, InvariantHolds, PTL

(* RemoteStore keeps the target of a query exactly as long as EventManager *)
(* has a listener of it, through errors, restarts and idle streams.        *)
THEOREM TargetHasListeners == Spec => []TargetIsListenedTo
<1>1. IInv => TargetIsListenedTo
  BY DEF IInv, Connected, TargetIsListenedTo
<1> QED
  BY <1>1, InvariantHolds, PTL
=============================================================================

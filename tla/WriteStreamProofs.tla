--------------------------- MODULE WriteStreamProofs ---------------------------
(***************************************************************************)
(* Proofs about WriteStream, for any number of users, writes, notices and  *)
(* failures, and for every length of the pipeline.                         *)
(***************************************************************************)
EXTENDS WriteStream, FiniteSetTheorems, TLAPS

(* The pipeline is the front of the queue, pointwise. *)
Fits(s, q) ==
  /\ Len(s.pipeline) <= Len(q) /\ Len(s.pipeline) <= MaxPendingWrites
  /\ \A i \in 1 .. Len(s.pipeline) : s.pipeline[i] = q[i]

Ascending(q) == \A i, j \in 1 .. Len(q) : i < j => q[i] < q[j]

LEMMA TailMovesUp ==
  ASSUME NEW T, NEW s \in Seq(T), s # << >>
  PROVE  /\ DOMAIN Tail(s) = 1 .. Len(s) - 1 /\ Len(s) \in Nat \ {0} /\ Len(Tail(s)) = Len(s) - 1
         /\ Tail(s) \in Seq(T) /\ Head(s) = s[1] /\ Head(s) \in T
         /\ 1 \in DOMAIN s /\ DOMAIN s = 1 .. Len(s)
         /\ \A i \in 1 .. Len(s) - 1 : Tail(s)[i] = s[i + 1] /\ i + 1 \in DOMAIN s
OBVIOUS

LEMMA AppendComesLast ==
  ASSUME NEW T, NEW s \in Seq(T), NEW x \in T
  PROVE  /\ Append(s, x) \in Seq(T) /\ Len(s) \in Nat /\ Len(Append(s, x)) = Len(s) + 1
         /\ DOMAIN Append(s, x) = 1 .. Len(s) + 1 /\ DOMAIN s = 1 .. Len(s)
         /\ Append(s, x)[Len(s) + 1] = x
         /\ \A i \in 1 .. Len(s) : Append(s, x)[i] = s[i]
OBVIOUS

LEMMA Concatenated ==
  ASSUME NEW T, NEW s \in Seq(T), NEW t \in Seq(T)
  PROVE  /\ s \o t \in Seq(T) /\ Len(s) \in Nat /\ Len(t) \in Nat
         /\ Len(s \o t) = Len(s) + Len(t)
         /\ DOMAIN (s \o t) = 1 .. Len(s) + Len(t)
         /\ DOMAIN s = 1 .. Len(s) /\ DOMAIN t = 1 .. Len(t)
         /\ \A i \in 1 .. Len(s) : (s \o t)[i] = s[i]
         /\ \A i \in Len(s) + 1 .. Len(s) + Len(t) :
              i - Len(s) \in 1 .. Len(t) /\ (s \o t)[i] = t[i - Len(s)]
OBVIOUS

(* The smallest of two numbers, of an interval. *)
LEMMA MinOfTwo ==
  ASSUME NEW a \in Int, NEW b \in Int
  PROVE  Min({a, b}) = IF a <= b THEN a ELSE b
<1>1. \A x \in {a, b} : (\A y \in {a, b} : x =< y) <=> x = IF a <= b THEN a ELSE b
  OBVIOUS
<1> QED
  BY <1>1 DEF Min

LEMMA MinOfInterval ==
  ASSUME NEW a \in Int, NEW b \in Int, a <= b
  PROVE  Min(a .. b) = a
<1>1. \A x \in a .. b : (\A y \in a .. b : x =< y) <=> x = a
  OBVIOUS
<1>2. a \in a .. b
  OBVIOUS
<1> QED
  BY <1>1, <1>2 DEF Min

LEMMA Between ==
  ASSUME NEW T, NEW s \in Seq(T), NEW n \in Nat, NEW m \in n .. Len(s)
  PROVE  /\ SubSeq(s, n + 1, m) \in Seq(T) /\ Len(SubSeq(s, n + 1, m)) = m - n
         /\ \A i \in 1 .. m - n : SubSeq(s, n + 1, m)[i] = s[n + i]
OBVIOUS

LEMMA NextBatchesFacts ==
  ASSUME NEW s \in Streams, NEW q \in Seq(Batches), Ascending(q), Fits(s, q)
  PROVE  LET new == NextBatches(s, q) IN
         /\ new \in Seq(Batches)
         /\ Len(s.pipeline) + Len(new) <= Len(q)
         /\ Len(s.pipeline) + Len(new) <= MaxPendingWrites
         /\ Len(s.pipeline) + Len(new) \in {Len(q), MaxPendingWrites}
         /\ \A i \in 1 .. Len(new) : new[i] = q[Len(s.pipeline) + i]
<1> DEFINE p == s.pipeline
           next == {i \in DOMAIN q : p = << >> \/ q[i] > Last(p)}
           room == MaxPendingWrites - Len(p)
<1>1. p \in Seq(Batches) /\ Len(p) \in Nat /\ Len(q) \in Nat /\ DOMAIN q = 1 .. Len(q)
  BY DEF Streams
<1>2. MaxPendingWrites \in Nat \ {0} /\ room \in Nat /\ Batches \subseteq Nat
  BY <1>1, StreamAssumption DEF StreamAssumption, Fits, Batches
<1>3. next = Len(p) + 1 .. Len(q)
  <2>1. CASE p = << >>
    BY <1>1, <2>1
  <2>2. CASE p # << >>
    <3>1. Len(p) \in 1 .. Len(q) /\ Last(p) = q[Len(p)]
      BY <1>1, <2>2 DEF Last, Fits
    <3>2. \A i \in 1 .. Len(q) : q[i] \in Nat
      <4>1. \A i \in 1 .. Len(q) : q[i] \in Batches
        OBVIOUS
      <4> QED
        BY <4>1, <1>2
    <3>3. \A i \in 1 .. Len(q) : q[i] > q[Len(p)] <=> i > Len(p)
      BY <1>1, <3>1, <3>2 DEF Ascending
    <3> QED
      BY <1>1, <2>2, <3>1, <3>3
  <2> QED
    BY <2>1, <2>2
<1>4. CASE next = {}
  <2>1. NextBatches(s, q) = << >>
    BY <1>4 DEF NextBatches
  <2>2. Len(p) = Len(q)
    BY <1>1, <1>3, <1>4 DEF Fits
  <2> QED
    BY <1>1, <2>1, <2>2 DEF Fits
<1>5. CASE next # {}
  <2> DEFINE last == IF Len(q) <= Len(p) + room THEN Len(q) ELSE Len(p) + room
             first == Len(p) + 1
  <2>1. NextBatches(s, q) = SubSeq(q, Min(next), Min({Len(q), Min(next) + room - 1}))
    BY <1>5 DEF NextBatches
  <2> HIDE DEF next
  <2>2. first \in Int /\ Len(p) < Len(q) /\ first <= Len(q)
    BY <1>1, <1>3, <1>5
  <2>3. Min(next) = first
    BY <1>1, <1>3, <2>2, MinOfInterval
  <2> HIDE DEF room
  <2>4. first + room - 1 = Len(p) + room /\ Len(p) + room \in Nat
    BY <1>1, <1>2
  <2>5. Min({Len(q), Len(p) + room}) = last
    BY <1>1, <2>4, MinOfTwo
  <2>6. NextBatches(s, q) = SubSeq(q, first, last)
    BY <2>1, <2>3, <2>4, <2>5
  <2>7. /\ first \in 1 .. Len(q) /\ last \in Len(p) .. Len(q) /\ last <= MaxPendingWrites
        /\ last \in {Len(q), MaxPendingWrites} /\ last \in Int /\ Len(p) \in Int
    BY <1>1, <1>2, <2>2 DEF room
  <2> HIDE DEF last
  <2> DEFINE new == SubSeq(q, Len(p) + 1, last)
  <2>8. /\ new \in Seq(Batches) /\ Len(new) = last - Len(p)
        /\ \A i \in 1 .. last - Len(p) : new[i] = q[Len(p) + i]
    BY <1>1, <2>7, Between
  <2>9. NextBatches(s, q) = new
    BY <2>6
  <2> HIDE DEF new
  <2>10. Len(p) + Len(new) = last
    <3>1. \A k, l \in Int : k + (l - k) = l
      OBVIOUS
    <3> QED
      BY <2>7, <2>8, <3>1, Zenon
  <2>11. \A i \in 1 .. Len(new) : new[i] = q[Len(p) + i]
    BY <2>8
  <2> HIDE DEF p
  <2>12. /\ Len(p) + Len(new) <= Len(q) /\ Len(p) + Len(new) <= MaxPendingWrites
         /\ Len(p) + Len(new) \in {Len(q), MaxPendingWrites}
    BY <2>7, <2>10, SMTT(30)
  <2> QED
    BY <2>8, <2>9, <2>11, <2>12 DEF p
<1> QED
  BY <1>4, <1>5

(* The batch that is removed is the first of its queue. *)
LEMMA FrontRemoved ==
  ASSUME NEW q \in Seq(Batches), q # << >>
  PROVE  RemoveFirst(q, q[1]) = Tail(q)
<1> DEFINE I == {i \in 1 .. Len(q) : q[i] = q[1]}
<1>1. Len(q) \in Nat \ {0} /\ 1 \in 1 .. Len(q)
  BY TailMovesUp
<1>2. 1 \in I /\ \A y \in I : 1 =< y
  BY <1>1
<1>3. Min(I) = 1
  BY <1>1, <1>2 DEF Min
<1>4. SelectInSeq(q, LAMBDA v : v = q[1]) = 1
  BY <1>2, <1>3 DEF SelectInSeq
<1>5. RemoveFirst(q, q[1]) = RemoveAt(q, 1)
  BY <1>1, <1>4 DEF RemoveFirst
<1>6. RemoveAt(q, 1) = Tail(q)
  BY <1>1 DEF RemoveAt
<1> QED
  BY <1>5, <1>6

(* An assertion that holds leaves no trace. *)
LEMMA AssertedHolds ==
  ASSUME NEW s \in Streams, NEW condition \in BOOLEAN, condition
  PROVE  HardAssert(s, condition) = s
BY DEF HardAssert, Streams
-----------------------------------------------------------------------------
(* The pipeline has all there is room for. *)
Filled(s, q) == Len(s.pipeline) \in {Len(q), MaxPendingWrites}

(* There is a stream for what is in it, *)
Needed(s) == s.pipeline # << >> => IsStarted(s)

(* and what was not sent yet waits for a write, once there may be one.     *)
Sending(s) == s.handshake /\ s.sent < Len(s.pipeline) => s.writing

(* What starting a stream, and sending on it, leave alone.                 *)
SameCall(s, d) ==
  /\ d.closes = s.closes /\ d.token = s.token /\ d.handshake = s.handshake
  /\ d.done = s.done /\ d.status = s.status /\ d.failing = s.failing
  /\ d.failed = s.failed

SameCounts(s, d) == d.sent = s.sent /\ d.writing = s.writing

(* The stream is what it was, waits for its backoff, or has asked for a    *)
(* token.                                                                  *)
Begun(s, d) ==
  \/ d.state = s.state /\ d.asks = s.asks
  \/ /\ ~IsStarted(s) /\ d.state = "Backoff" /\ d.asks = s.asks
     /\ d.pipeline # << >>
  \/ /\ ~IsStarted(s) /\ d.state = "Starting" /\ d.pipeline # << >>
     /\ d.asks = s.asks \cup {[counter |-> counter, closes |-> s.closes]}

LEMMA StartFacts ==
  ASSUME NEW s \in Streams, counter \in Nat, s.state \in {"Initial", "Error"}
  PROVE  LET d == Start(s) IN
         /\ d \in Streams /\ SameCall(s, d) /\ SameCounts(s, d)
         /\ d.pipeline = s.pipeline /\ d.idle = s.idle
         /\ \/ d.state = "Backoff" /\ d.asks = s.asks
            \/ /\ d.state = "Starting"
               /\ d.asks = s.asks \cup {[counter |-> counter, closes |-> s.closes]}
<1> DEFINE asks == s.asks \cup {[counter |-> counter, closes |-> s.closes]}
<1>1. asks \in SUBSET [counter : Nat, closes : Nat]
  BY DEF Streams
<1>2. CASE s.state = "Error"
  <2>1. Start(s) = [s EXCEPT !.state = "Backoff"]
    BY <1>2 DEF Start
  <2> QED
    BY <2>1 DEF Streams, SameCall, SameCounts
<1>3. CASE s.state = "Initial"
  <2>1. HardAssert(s, s.state = "Initial") = s
    BY <1>3, AssertedHolds
  <2>2. Start(s) = [s EXCEPT !.state = "Starting", !.asks = asks]
    BY <1>3, <2>1 DEF Start
  <2> HIDE DEF asks
  <2> QED
    BY <1>1, <2>2 DEF Streams, SameCall, SameCounts, asks
<1> QED
  BY <1>2, <1>3

LEMMA StartIfNeededFacts ==
  ASSUME NEW s \in Streams, counter \in Nat
  PROVE  LET d == StartIfNeeded(s) IN
         /\ d \in Streams /\ SameCall(s, d) /\ SameCounts(s, d)
         /\ d.pipeline = s.pipeline /\ d.idle = s.idle
         /\ Begun(s, d) /\ Needed(d)
<1>1. s.state \in {"Initial", "Error"} <=> ~IsStarted(s)
  BY DEF Streams, IsStarted
<1>2. CASE ~IsStarted(s) /\ s.pipeline # << >>
  <2>1. StartIfNeeded(s) = Start(s)
    BY <1>2 DEF StartIfNeeded
  <2> QED
    BY <1>1, <1>2, <2>1, StartFacts DEF Begun, Needed, IsStarted
<1>3. CASE ~(~IsStarted(s) /\ s.pipeline # << >>)
  BY <1>3 DEF StartIfNeeded, SameCall, SameCounts, Begun, Needed
<1> QED
  BY <1>2, <1>3

LEMMA WriteFacts ==
  ASSUME NEW s \in Streams, s.handshake, s.sent <= Len(s.pipeline)
  PROVE  LET d == Write(s) IN
         /\ d \in Streams /\ SameCall(s, d) /\ d.idle = FALSE
         /\ d.pipeline = s.pipeline /\ d.state = s.state /\ d.asks = s.asks
         /\ s.sent <= d.sent /\ d.sent <= Len(s.pipeline) /\ Sending(d)
<1> DEFINE t == [s EXCEPT !.idle = FALSE]
<1>1. HardAssert(s, s.handshake) = s
  BY AssertedHolds DEF Streams
<1>2. /\ t \in Streams /\ SameCall(s, t) /\ t.idle = FALSE /\ t.pipeline = s.pipeline
      /\ t.state = s.state /\ t.asks = s.asks /\ t.sent = s.sent /\ t.writing = s.writing
  BY DEF Streams, SameCall
<1>3. /\ s.sent \in Nat /\ Len(s.pipeline) \in Nat
  BY DEF Streams
<1>4. Write(s) = IF s.writing \/ s.sent = Len(s.pipeline) THEN t
                 ELSE [t EXCEPT !.writing = TRUE, !.sent = @ + 1]
  BY <1>1 DEF Write
<1> HIDE DEF t
<1>5. CASE s.writing \/ s.sent = Len(s.pipeline)
  <2>1. Sending(t)
    BY <1>2, <1>3, <1>5 DEF Sending
  <2> QED
    BY <1>2, <1>3, <1>4, <1>5, <2>1
<1>6. CASE ~(s.writing \/ s.sent = Len(s.pipeline))
  <2> DEFINE e == [t EXCEPT !.writing = TRUE]
  <2>1. Write(s) = [e EXCEPT !.sent = t.sent + 1]
    BY <1>4, <1>6
  <2>2. /\ e \in Streams /\ SameCall(t, e) /\ e.idle = t.idle /\ e.pipeline = t.pipeline
        /\ e.state = t.state /\ e.asks = t.asks /\ e.writing
    BY <1>2 DEF Streams, SameCall
  <2>3. t.sent + 1 \in Nat /\ s.sent <= t.sent + 1 /\ t.sent + 1 <= Len(s.pipeline)
    BY <1>2, <1>3, <1>6
  <2> HIDE DEF e
  <2> DEFINE n == t.sent + 1
             d == [e EXCEPT !.sent = n]
  <2> HIDE DEF n
  <2>4. /\ d \in Streams /\ SameCall(e, d) /\ d.idle = e.idle /\ d.pipeline = e.pipeline
        /\ d.state = e.state /\ d.asks = e.asks /\ d.sent = n /\ d.writing = e.writing
    BY <2>2, <2>3 DEF Streams, SameCall, n
  <2>5. Write(s) = d
    BY <2>1 DEF n
  <2> HIDE DEF d
  <2>6. SameCall(s, d) /\ Sending(d)
    BY <1>2, <2>2, <2>4 DEF SameCall, Sending
  <2> QED
    BY <1>2, <2>2, <2>3, <2>4, <2>5, <2>6 DEF n
<1> QED
  BY <1>5, <1>6

(* What is sent is the front of the pipeline, and only on an open stream.  *)
Sends(s, d) ==
  /\ s.sent <= d.sent /\ d.sent <= Len(d.pipeline)
  /\ SameCounts(s, d) \/ (s.state = "Open" /\ s.handshake)
  /\ d.idle => \/ d.pipeline = << >> /\ (s.idle \/ s.state = "Open")
               \/ d.pipeline = s.pipeline /\ s.idle

LEMMA FillFacts ==
  ASSUME NEW s \in Streams, NEW q \in Seq(Batches), Ascending(q), Fits(s, q),
         s.sent <= Len(s.pipeline), s.idle => s.state = "Open" /\ s.handshake,
         counter \in Nat
  PROVE  LET d == FillWritePipeline(s, q) IN
         /\ d \in Streams /\ SameCall(s, d) /\ Begun(s, d) /\ Sends(s, d)
         /\ Fits(d, q) /\ Len(s.pipeline) <= Len(d.pipeline)
         /\ Filled(d, q) /\ Needed(d)
         /\ Sending(s) /\ (s.handshake => s.state = "Open") => Sending(d)
<1> DEFINE new == NextBatches(s, q)
           p == s.pipeline \o new
           t == [s EXCEPT !.pipeline = p]
           i == [t EXCEPT !.idle = t.idle \/ IsOpen(s)]
           sends == new # << >> /\ IsOpen(s) /\ s.handshake
           w == IF sends THEN Write(t) ELSE t
<1>1. /\ new \in Seq(Batches) /\ s.pipeline \in Seq(Batches) /\ s.sent \in Nat
      /\ Len(s.pipeline) + Len(new) <= Len(q)
      /\ Len(s.pipeline) + Len(new) <= MaxPendingWrites
      /\ Len(s.pipeline) + Len(new) \in {Len(q), MaxPendingWrites}
      /\ \A j \in 1 .. Len(new) : new[j] = q[Len(s.pipeline) + j]
  BY NextBatchesFacts DEF Streams
<1>2. FillWritePipeline(s, q) = IF p = << >> THEN i ELSE StartIfNeeded(w)
  <2>1. t.pipeline = p
    BY DEF Streams
  <2>2. FillWritePipeline(s, q) = IF t.pipeline = << >> THEN i ELSE StartIfNeeded(w)
    BY DEF FillWritePipeline
  <2> QED
    BY <2>1, <2>2
<1> HIDE DEF new
<1>3. /\ p \in Seq(Batches) /\ Len(p) = Len(s.pipeline) + Len(new)
      /\ Len(s.pipeline) \in Nat /\ Len(new) \in Nat /\ Len(p) \in Nat
      /\ new = << >> => p = s.pipeline
      /\ \A j \in 1 .. Len(p) : p[j] = q[j]
  <2>1. \A j \in 1 .. Len(s.pipeline) : p[j] = q[j]
    BY <1>1, Concatenated DEF Fits
  <2>2. \A j \in Len(s.pipeline) + 1 .. Len(s.pipeline) + Len(new) : p[j] = q[j]
    <3> TAKE j \in Len(s.pipeline) + 1 .. Len(s.pipeline) + Len(new)
    <3>1. /\ j - Len(s.pipeline) \in 1 .. Len(new) /\ p[j] = new[j - Len(s.pipeline)]
          /\ Len(s.pipeline) + (j - Len(s.pipeline)) = j
      BY <1>1, Concatenated
    <3> QED
      BY <1>1, <3>1
  <2>3. /\ p \in Seq(Batches) /\ Len(p) = Len(s.pipeline) + Len(new)
        /\ Len(s.pipeline) \in Nat /\ Len(new) \in Nat
    BY <1>1, Concatenated
  <2>4. new = << >> => p = s.pipeline
    BY <1>1
  <2> HIDE DEF p
  <2> QED
    BY <2>1, <2>2, <2>3, <2>4
<1> HIDE DEF p
<1>4. /\ t \in Streams /\ SameCall(s, t) /\ SameCounts(s, t) /\ t.pipeline = p
      /\ t.state = s.state /\ t.asks = s.asks /\ t.idle = s.idle
  BY <1>3 DEF Streams, SameCall, SameCounts
<1> HIDE DEF t
<1>5. CASE p = << >>
  <2>1. /\ i \in Streams /\ SameCall(t, i) /\ SameCounts(t, i) /\ i.pipeline = p
        /\ i.state = s.state /\ i.asks = s.asks /\ (i.idle => s.idle \/ s.state = "Open")
    BY <1>4 DEF Streams, SameCall, SameCounts, IsOpen
  <2> HIDE DEF i
  <2>2. Len(i.pipeline) = Len(s.pipeline) + Len(new) /\ i.sent = s.sent /\ i.sent <= Len(i.pipeline)
    BY <1>1, <1>3, <1>4, <2>1 DEF SameCounts
  <2>3. SameCall(s, i) /\ SameCounts(s, i)
    BY <1>4, <2>1 DEF SameCall, SameCounts
  <2>4. Fits(i, q)
    BY <1>1, <1>3, <2>1 DEF Fits
  <2>5. Begun(s, i)
    BY <2>1 DEF Begun
  <2>6. s.sent <= i.sent /\ (i.idle => s.idle \/ s.state = "Open")
    BY <1>1, <2>1, <2>2
  <2>7. Sends(s, i)
    BY <1>5, <2>1, <2>2, <2>3, <2>6 DEF Sends
  <2>8. Filled(i, q)
    BY <1>1, <1>3, <2>1 DEF Filled
  <2>9. Needed(i) /\ Sending(i)
    <3>1. i.pipeline = << >> /\ Len(i.pipeline) = 0 /\ ~(i.sent < 0)
      BY <1>1, <1>5, <2>1, <2>2
    <3> QED
      BY <3>1 DEF Needed, Sending
  <2> QED
    BY <1>2, <1>3, <1>5, <2>1, <2>2, <2>3, <2>4, <2>5, <2>7, <2>8, <2>9
<1>6. CASE p # << >>
  <2>1. /\ w \in Streams /\ SameCall(t, w) /\ w.pipeline = p /\ w.state = s.state
        /\ w.asks = s.asks /\ s.sent <= w.sent /\ w.sent <= Len(p)
        /\ SameCounts(s, w) \/ (s.state = "Open" /\ s.handshake)
        /\ w.idle => p = s.pipeline /\ s.idle
        /\ Sending(s) /\ (s.handshake => s.state = "Open") => Sending(w)
    <3>1. CASE sends
      <4>1. t.handshake /\ t.sent <= Len(t.pipeline) /\ t.sent = s.sent
        BY <1>1, <1>3, <1>4, <3>1 DEF SameCall, SameCounts
      <4>2. w = Write(t)
        BY <3>1
      <4>3. s.state = "Open" /\ s.handshake
        BY <3>1 DEF IsOpen
      <4> QED
        BY <1>4, <4>1, <4>2, <4>3, WriteFacts
    <3>2. CASE ~sends
      <4>1. w = t
        BY <3>2
      <4>2. t.idle => p = s.pipeline
        BY <1>3, <1>4, <3>2 DEF IsOpen
      <4>3. w.sent = s.sent /\ w.sent <= Len(p)
        BY <1>1, <1>3, <1>4, <4>1 DEF SameCounts
      <4>4. SameCounts(s, w) /\ SameCall(t, w)
        BY <1>4, <4>1 DEF SameCall, SameCounts
      <4>5. w.idle => p = s.pipeline /\ s.idle
        BY <1>4, <4>1, <4>2
      <4>6. ASSUME Sending(s), s.handshake => s.state = "Open" PROVE Sending(w)
        <5>1. CASE s.handshake
          <6>1. p = s.pipeline
            BY <1>3, <3>2, <4>6, <5>1 DEF IsOpen
          <6> QED
            BY <1>4, <4>1, <4>6, <6>1 DEF Sending, SameCall, SameCounts
        <5>2. CASE ~s.handshake
          BY <1>4, <4>1, <5>2 DEF Sending, SameCall
        <5> QED
          BY <5>1, <5>2
      <4> QED
        BY <1>1, <1>4, <4>1, <4>3, <4>4, <4>5, <4>6
    <3> QED
      BY <3>1, <3>2
  <2> HIDE DEF w
  <2> DEFINE d == StartIfNeeded(w)
  <2>2. /\ d \in Streams /\ SameCall(w, d) /\ SameCounts(w, d)
        /\ d.pipeline = p /\ d.idle = w.idle /\ Begun(w, d) /\ Needed(d)
    BY <2>1, StartIfNeededFacts
  <2>3. FillWritePipeline(s, q) = d
    BY <1>2, <1>6
  <2> HIDE DEF d
  <2>4. SameCall(s, d)
    BY <1>4, <2>1, <2>2 DEF SameCall
  <2>5. Begun(s, d)
    <3>1. w.closes = s.closes
      BY <1>4, <2>1 DEF SameCall
    <3> QED
      BY <2>1, <2>2, <3>1 DEF Begun, IsStarted
  <2>6. Sends(s, d)
    BY <1>3, <2>1, <2>2 DEF Sends, SameCounts
  <2>7. Fits(d, q) /\ Filled(d, q)
    BY <1>1, <1>3, <2>2 DEF Fits, Filled
  <2>8. Sending(w) => Sending(d)
    BY <2>1, <2>2 DEF Sending, SameCall, SameCounts
  <2> QED
    BY <1>3, <2>1, <2>2, <2>3, <2>4, <2>5, <2>6, <2>7, <2>8
<1> QED
  BY <1>5, <1>6

-----------------------------------------------------------------------------
(* What holds of the stream between two tasks, q being the current user's  *)
(* queue.  It is idle only with nothing to send, and until the handshake   *)
(* is answered it has something to send; then a write is under way, or all *)
(* of it is sent.                                                          *)
Sound(s, q) ==
  /\ s \in Streams /\ s.failed = FALSE
  /\ Fits(s, q)
  /\ s.done <= s.sent /\ s.sent <= Len(s.pipeline)
  /\ s.handshake => s.state = "Open"
  /\ s.idle => s.handshake /\ s.pipeline = << >>
  /\ IsStarted(s) /\ ~s.handshake => s.pipeline # << >>
  /\ ~s.handshake => s.sent = 0 /\ s.done = 0 /\ s.writing = FALSE
  /\ s.state # "Open" => s.status = "ok" /\ s.failing = FALSE
  /\ Sending(s)

(* After a task it has all there is room for, and is started for it.       *)
Fed(s, q) == Filled(s, q) /\ Needed(s)

(* A request for a token is current until the stream is closed.  From s to *)
(* d all requests go out of date, or those there are stay as they are, or  *)
(* there was none and the stream makes one.                                *)
Recalls(s, d) ==
  /\ d.closes >= s.closes
  /\ \/ /\ d.asks = s.asks /\ (d.closes > s.closes \/ d.state = s.state \/ s.state # "Starting")
        /\ d.state = "Starting" => s.state = "Starting" /\ d.closes = s.closes
     \/ /\ d.state = "Starting" /\ (d.closes > s.closes \/ s.state # "Starting")
        /\ d.asks = s.asks \cup {[counter |-> counter, closes |-> d.closes]}

(* An open stream stays as it is or is closed, and the answers that were   *)
(* not read yet stay those of the same writes.                             *)
Keeps(s, d) ==
  /\ d.state = "Open" => s.state = "Open" /\ d.token = s.token
  /\ \A i \in 1 .. d.done : \E j \in 1 .. s.done : d.pipeline[i] = s.pipeline[j]

(* The backend has not spoken meanwhile. *)
Unheard(s, d) == d.status = "denied" => s.status = "denied" /\ d.token = s.token

Proceeds(s, d) == Recalls(s, d) /\ Keeps(s, d) /\ Unheard(s, d)

LEMMA ClosedFacts ==
  ASSUME NEW s \in Streams, IsStarted(s), NEW state \in {"Initial", "Error"}
  PROVE  LET d == Closed(s, state) IN
         /\ d \in Streams /\ d.state = state /\ d.closes = s.closes + 1
         /\ d.asks = s.asks /\ d.token = NoUser /\ d.handshake = s.handshake
         /\ d.pipeline = s.pipeline /\ d.idle = FALSE /\ d.writing = FALSE
         /\ d.sent = 0 /\ d.done = 0 /\ d.status = "ok" /\ d.failing = FALSE
         /\ d.failed = s.failed
<1>1. HardAssert(s, IsStarted(s)) = s
  BY AssertedHolds DEF IsStarted
<1>2. Closed(s, state) =
  [s EXCEPT
     !.state = state, !.closes = @ + 1, !.idle = FALSE, !.token = NoUser,
     !.writing = FALSE, !.sent = 0, !.done = 0, !.status = "ok",
     !.failing = FALSE, !.ahead = FALSE]
  BY <1>1 DEF Closed
<1> DEFINE n == s.closes + 1
           c == [s EXCEPT !.state = state, !.closes = n]
           e == [c EXCEPT !.idle = FALSE]
           f == [e EXCEPT !.token = NoUser]
           g == [f EXCEPT !.writing = FALSE]
           h == [g EXCEPT !.sent = 0, !.done = 0, !.status = "ok"]
           Same(x) == /\ x \in Streams /\ x.state = state /\ x.closes = n
                      /\ x.asks = s.asks /\ x.handshake = s.handshake
                      /\ x.pipeline = s.pipeline /\ x.failed = s.failed
<1>3. n \in Nat /\ state \in {"Initial", "Starting", "Open", "Error", "Backoff"}
  BY DEF Streams
<1>4. Closed(s, state) = [h EXCEPT !.failing = FALSE, !.ahead = FALSE]
  BY <1>2
<1> HIDE DEF n
<1>5. Same(c)
  BY <1>3 DEF Streams
<1> HIDE DEF c
<1>6. Same(e) /\ e.idle = FALSE
  BY <1>5 DEF Streams
<1> HIDE DEF e
<1>7. Same(f) /\ f.idle = FALSE /\ f.token = NoUser
  BY <1>6 DEF Streams, Signers
<1> HIDE DEF f
<1>8. Same(g) /\ g.idle = FALSE /\ g.token = NoUser /\ g.writing = FALSE
  BY <1>7 DEF Streams
<1> HIDE DEF g
<1>9. /\ Same(h) /\ h.idle = FALSE /\ h.token = NoUser /\ h.writing = FALSE
      /\ h.sent = 0 /\ h.done = 0 /\ h.status = "ok"
  BY <1>8 DEF Streams
<1> HIDE DEF h
<1> DEFINE d == [h EXCEPT !.failing = FALSE, !.ahead = FALSE]
<1>10. Same(d) /\ d.failing = FALSE
  BY <1>9 DEF Streams
<1>11. /\ d.idle = FALSE /\ d.token = NoUser /\ d.writing = FALSE
       /\ d.sent = 0 /\ d.done = 0 /\ d.status = "ok"
  BY <1>9 DEF Streams
<1> HIDE DEF d
<1> QED
  BY <1>4, <1>10, <1>11 DEF n, d

LEMMA InhibitFacts ==
  ASSUME NEW s \in Streams, ~IsStarted(s)
  PROVE  LET d == InhibitBackoff(s) IN
         /\ d \in Streams /\ SameCall(s, d) /\ SameCounts(s, d) /\ d.state = "Initial"
         /\ d.asks = s.asks /\ d.pipeline = s.pipeline /\ d.idle = s.idle
<1>1. InhibitBackoff(s) = [s EXCEPT !.state = "Initial"]
  <2>1. HardAssert(s, ~IsStarted(s)) = s
    BY AssertedHolds DEF IsStarted
  <2> QED
    BY <2>1 DEF InhibitBackoff
<1> QED
  BY <1>1 DEF Streams, SameCall, SameCounts

(* A stream a that was s and is closed, or was not started. *)
AtRest(s, a) ==
  /\ a \in Streams /\ ~IsStarted(a) /\ a.failed = FALSE
  /\ a.asks = s.asks /\ a.closes >= s.closes
  /\ a.closes > s.closes \/ s.state # "Starting"
  /\ a.idle = FALSE /\ a.writing = FALSE /\ a.sent = 0 /\ a.done = 0
  /\ a.status = "ok" /\ a.failing = FALSE

LEMMA StopFacts ==
  ASSUME NEW s, NEW q, Sound(s, q)
  PROVE  LET a == Stop(s, FALSE) IN
         AtRest(s, a) /\ a.handshake = FALSE /\ a.pipeline = s.pipeline
<1>1. s \in Streams /\ s.failed = FALSE
  BY DEF Sound
<1>2. CASE ~IsStarted(s)
  <2>1. Stop(s, FALSE) = s
    BY <1>2 DEF Stop
  <2>2. s.state # "Open" /\ s.state # "Starting"
    BY <1>2 DEF IsStarted
  <2>3. s.handshake = FALSE
    BY <1>1, <2>2 DEF Sound, Streams
  <2>4. s.idle = FALSE
    BY <1>1, <2>3 DEF Sound, Streams
  <2>5. s.closes \in Nat
    BY <1>1 DEF Streams
  <2>6. /\ s.sent = 0 /\ s.done = 0 /\ s.writing = FALSE /\ s.status = "ok" /\ s.failing = FALSE
    BY <2>2, <2>3 DEF Sound
  <2>7. AtRest(s, s)
    BY <1>1, <1>2, <2>2, <2>4, <2>5, <2>6 DEF AtRest
  <2> QED
    BY <2>1, <2>3, <2>7
<1>3. CASE IsStarted(s)
  <2> DEFINE c == Closed(s, "Initial")
             a == [c EXCEPT !.handshake = FALSE]
  <2>1. /\ c \in Streams /\ c.state = "Initial" /\ c.closes = s.closes + 1
        /\ c.asks = s.asks /\ c.pipeline = s.pipeline /\ c.idle = FALSE
        /\ c.writing = FALSE /\ c.sent = 0 /\ c.done = 0 /\ c.status = "ok"
        /\ c.failing = FALSE /\ c.failed = FALSE
    BY <1>1, <1>3, ClosedFacts
  <2> HIDE DEF c
  <2>2. HardAssert(c, ~(FALSE /\ s.pipeline # << >>)) = c
    BY <2>1, AssertedHolds
  <2>3. Stop(s, FALSE) = a
    BY <1>3, <2>2 DEF Stop, c
  <2>4. /\ a \in Streams /\ a.state = "Initial" /\ a.closes = s.closes + 1
        /\ a.asks = s.asks /\ a.pipeline = s.pipeline /\ a.idle = FALSE
        /\ a.writing = FALSE /\ a.sent = 0 /\ a.done = 0 /\ a.status = "ok"
        /\ a.failing = FALSE /\ a.failed = FALSE /\ a.handshake = FALSE
    BY <2>1 DEF Streams
  <2> HIDE DEF a
  <2>5. s.closes \in Nat
    BY <1>1 DEF Streams
  <2>6. AtRest(s, a)
    BY <2>4, <2>5 DEF AtRest, IsStarted
  <2> QED
    BY <2>3, <2>4, <2>6
<1> QED
  BY <1>2, <1>3

LEMMA FromRest ==
  ASSUME NEW s \in Streams, NEW a, NEW d \in Streams, NEW q, AtRest(s, a), SameCall(a, d),
         SameCounts(a, d), Begun(a, d), Fits(d, q), d.idle = FALSE, counter \in Nat
  PROVE  LET e == [d EXCEPT !.handshake = FALSE] IN
         /\ Sound(e, q) /\ Proceeds(s, e) /\ e.done = 0 /\ e.state # "Open"
         /\ s.state = "Starting" => e.closes > s.closes
         /\ Fed(d, q) => Fed(e, q)
<1> DEFINE e == [d EXCEPT !.handshake = FALSE]
<1>1. /\ e \in Streams /\ e.state = d.state /\ e.asks = d.asks /\ e.pipeline = d.pipeline
      /\ e.closes = d.closes /\ e.handshake = FALSE /\ e.idle = FALSE
      /\ e.writing = d.writing /\ e.sent = d.sent /\ e.done = d.done /\ e.status = d.status
      /\ e.failing = d.failing /\ e.failed = d.failed
  BY DEF Streams
<1> HIDE DEF e
<1>2. /\ e.closes = a.closes /\ e.writing = FALSE /\ e.sent = 0 /\ e.done = 0
      /\ e.status = "ok" /\ e.failing = FALSE /\ e.failed = FALSE
  BY <1>1 DEF AtRest, SameCall, SameCounts
<1>3. e.state # "Open" /\ (IsStarted(e) => e.pipeline # << >>) /\ Sending(e)
  BY <1>1 DEF Begun, AtRest, IsStarted, Sending
<1>4. Fits(e, q)
  BY <1>1 DEF Fits
<1>5. Sound(e, q)
  BY <1>1, <1>2, <1>3, <1>4 DEF Sound, Streams
<1>6. Recalls(s, e)
  BY <1>1, <1>2 DEF Recalls, Begun, AtRest, IsStarted
<1>7. Keeps(s, e) /\ Unheard(s, e)
  BY <1>2, <1>3 DEF Keeps, Unheard
<1>8. s.state = "Starting" => e.closes > s.closes
  BY <1>2 DEF AtRest
<1>9. Fed(d, q) => Fed(e, q)
  BY <1>1 DEF Fed, Filled, Needed, IsStarted
<1> QED
  BY <1>2, <1>3, <1>5, <1>6, <1>7, <1>8, <1>9 DEF Proceeds, e

LEMMA BegunTwice ==
  ASSUME NEW s, NEW d, NEW e, Begun(s, d), Begun(d, e), d.closes = s.closes, e.pipeline = d.pipeline
  PROVE  Begun(s, e)
BY DEF Begun, IsStarted

LEMMA RestartFacts ==
  ASSUME NEW s, NEW r, Sound(s, r), NEW q \in Seq(Batches), Ascending(q), counter \in Nat
  PROVE  LET d == RestartNetwork(s, q) IN
         Sound(d, q) /\ Fed(d, q) /\ Proceeds(s, d) /\ d.done = 0 /\ d.state # "Open"
<1> DEFINE a == Stop(s, FALSE)
           none == << >>
           b == [a EXCEPT !.pipeline = none]
           c == InhibitBackoff(b)
           d == FillWritePipeline(c, q)
<1>1. s \in Streams /\ AtRest(s, a) /\ a.handshake = FALSE
  BY StopFacts DEF Sound
<1> HIDE DEF a
<1>2. /\ b \in Streams /\ b.handshake = FALSE /\ b.pipeline = << >> /\ b.state = a.state
      /\ b.failed = a.failed /\ b.asks = a.asks /\ b.closes = a.closes /\ b.idle = a.idle
      /\ b.writing = a.writing /\ b.sent = a.sent /\ b.done = a.done
      /\ b.status = a.status /\ b.failing = a.failing
  <2>1. a \in Streams /\ none \in Seq(Batches)
    BY <1>1 DEF AtRest
  <2> HIDE DEF none
  <2>2. /\ b \in Streams /\ b.handshake = a.handshake /\ b.pipeline = none /\ b.state = a.state
        /\ b.failed = a.failed /\ b.asks = a.asks /\ b.closes = a.closes /\ b.idle = a.idle
        /\ b.writing = a.writing /\ b.sent = a.sent /\ b.done = a.done
        /\ b.status = a.status /\ b.failing = a.failing
    BY <2>1 DEF Streams
  <2> HIDE DEF b
  <2> QED
    BY <1>1, <2>2 DEF none
<1> HIDE DEF b
<1>3. AtRest(s, b)
  BY <1>1, <1>2 DEF AtRest, IsStarted
<1>4. /\ c \in Streams /\ SameCall(b, c) /\ SameCounts(b, c) /\ c.state = "Initial"
      /\ c.asks = b.asks /\ c.pipeline = << >> /\ c.idle = FALSE
  BY <1>2, <1>3, InhibitFacts DEF AtRest
<1> HIDE DEF c
<1>5. AtRest(s, c)
  BY <1>4, <1>3 DEF AtRest, SameCall, SameCounts, IsStarted
<1>6. c.handshake = FALSE
  BY <1>2, <1>4 DEF SameCall
<1>7. Fits(c, q)
  BY <1>4, StreamAssumption DEF Fits, StreamAssumption
<1>8. c.sent <= Len(c.pipeline)
  BY <1>4, <1>5 DEF AtRest
<1>9. /\ d \in Streams /\ SameCall(c, d) /\ Begun(c, d) /\ Sends(c, d) /\ Fits(d, q)
      /\ Filled(d, q) /\ Needed(d)
  BY <1>4, <1>7, <1>8, FillFacts
<1> HIDE DEF d
<1>10. SameCounts(c, d) /\ d.idle = FALSE
  BY <1>4, <1>9 DEF Sends, Streams
<1>11. d.handshake = FALSE
  BY <1>6, <1>9 DEF SameCall
<1>12. [d EXCEPT !.handshake = FALSE] = d
  BY <1>9, <1>11 DEF Streams
<1>13. Sound(d, q) /\ Proceeds(s, d) /\ d.done = 0 /\ d.state # "Open"
  BY <1>1, <1>5, <1>9, <1>10, <1>12, FromRest
<1> QED
  BY <1>9, <1>13 DEF RestartNetwork, Fed, a, b, c, d

LEMMA TailFits ==
  ASSUME NEW s \in Streams, NEW d \in Streams, NEW q \in Seq(Batches), Ascending(q), Fits(s, q),
         s.pipeline # << >>, d.pipeline = Tail(s.pipeline)
  PROVE  /\ Fits(d, Tail(q)) /\ Ascending(Tail(q)) /\ Tail(q) \in Seq(Batches)
         /\ q # << >> /\ s.pipeline[1] = q[1]
<1>1. /\ s.pipeline \in Seq(Batches) /\ Len(s.pipeline) \in Nat \ {0} /\ MaxPendingWrites \in Nat
      /\ Len(d.pipeline) = Len(s.pipeline) - 1
      /\ \A i \in 1 .. Len(s.pipeline) - 1 : d.pipeline[i] = s.pipeline[i + 1]
  BY TailMovesUp, StreamAssumption DEF Streams, StreamAssumption
<1>2. q # << >> /\ s.pipeline[1] = q[1]
  BY <1>1 DEF Fits
<1>3. /\ Tail(q) \in Seq(Batches) /\ Len(q) \in Nat \ {0} /\ Len(Tail(q)) = Len(q) - 1
      /\ \A i \in 1 .. Len(q) - 1 : Tail(q)[i] = q[i + 1]
  BY <1>2, TailMovesUp
<1>4. Fits(d, Tail(q))
  BY <1>1, <1>3 DEF Fits
<1>5. Ascending(Tail(q))
  BY <1>3 DEF Ascending
<1> QED
  BY <1>2, <1>3, <1>4, <1>5

(* The queue without the write that is blamed, if any. *)
Unblamed(s, status, q) == IF BlamesFront(s, status) THEN Tail(q) ELSE q

LEMMA CloseWithErrorFacts ==
  ASSUME NEW s, NEW q \in Seq(Batches), Ascending(q), Sound(s, q), IsStarted(s),
         NEW status, counter \in Nat
  PROVE  LET rest == Unblamed(s, status, q)
             d == CloseWithError(s, status, rest) IN
         /\ Sound(d, rest) /\ Proceeds(s, d) /\ d.done = 0 /\ d.state # "Open"
         /\ s.state = "Starting" => d.closes > s.closes
         /\ Fed(s, q) => Fed(d, rest)
         /\ rest \in Seq(Batches) /\ Ascending(rest)
         /\ BlamesFront(s, status) => q # << >> /\ s.pipeline[1] = q[1]
<1> DEFINE rest == Unblamed(s, status, q)
           t == Closed(s, "Error")
           u == [t EXCEPT !.pipeline = Tail(t.pipeline)]
           v == InhibitBackoff(u)
           w == FillWritePipeline(v, rest)
           x == IF BlamesFront(s, status) THEN w ELSE t
           d == StartIfNeeded(x)
           e == [d EXCEPT !.handshake = FALSE]
<1>1. /\ s \in Streams /\ s.failed = FALSE /\ Fits(s, q) /\ s.closes \in Nat
  BY DEF Sound, Streams
<1>2. /\ t \in Streams /\ t.state = "Error" /\ t.closes = s.closes + 1
      /\ t.asks = s.asks /\ t.pipeline = s.pipeline /\ t.idle = FALSE
      /\ t.writing = FALSE /\ t.sent = 0 /\ t.done = 0 /\ t.status = "ok"
      /\ t.failing = FALSE /\ t.failed = FALSE
  BY <1>1, ClosedFacts
<1>3. CloseWithError(s, status, rest) = e
  BY DEF CloseWithError
<1> HIDE DEF t
<1>4. AtRest(s, t)
  BY <1>1, <1>2 DEF AtRest, IsStarted
<1>5. /\ x \in Streams
      /\ \E a : AtRest(s, a) /\ SameCall(a, x) /\ SameCounts(a, x) /\ Begun(a, x)
      /\ Fits(x, rest) /\ x.idle = FALSE /\ (Filled(s, q) => Filled(x, rest))
      /\ rest \in Seq(Batches) /\ Ascending(rest)
      /\ BlamesFront(s, status) => q # << >> /\ s.pipeline[1] = q[1]
  <2>1. CASE ~BlamesFront(s, status)
    <3>1. x = t /\ rest = q
      BY <2>1 DEF Unblamed
    <3>2. Fits(t, q) /\ (Filled(s, q) => Filled(t, q))
      BY <1>1, <1>2 DEF Fits, Filled
    <3> QED
      BY <1>2, <1>4, <2>1, <3>1, <3>2 DEF SameCall, SameCounts, Begun
  <2>2. CASE BlamesFront(s, status)
    <3>1. x = w /\ rest = Tail(q) /\ s.pipeline # << >>
      BY <2>2 DEF Unblamed, BlamesFront
    <3>2. Tail(t.pipeline) \in Seq(Batches)
      BY <1>1, <1>2, <3>1, TailMovesUp DEF Streams
    <3>3. /\ u \in Streams /\ SameCall(t, u) /\ SameCounts(t, u) /\ u.state = "Error"
          /\ u.asks = t.asks /\ u.idle = FALSE /\ u.pipeline = Tail(s.pipeline)
      BY <1>2, <3>2 DEF Streams, SameCall, SameCounts
    <3> HIDE DEF u
    <3>4. /\ Fits(u, rest) /\ Ascending(rest) /\ rest \in Seq(Batches)
          /\ q # << >> /\ s.pipeline[1] = q[1]
      BY <1>1, <3>1, <3>3, TailFits
    <3>5. /\ v \in Streams /\ SameCall(u, v) /\ SameCounts(u, v) /\ v.state = "Initial"
          /\ v.asks = u.asks /\ v.pipeline = u.pipeline /\ v.idle = FALSE
      BY <3>3, InhibitFacts DEF IsStarted
    <3> HIDE DEF v, rest
    <3>6. Fits(v, rest) /\ Len(v.pipeline) \in Nat /\ v.sent = 0
      BY <1>2, <3>3, <3>4, <3>5 DEF Fits, SameCounts, Streams
    <3>7. /\ w \in Streams /\ SameCall(v, w) /\ Begun(v, w) /\ Sends(v, w) /\ Fits(w, rest)
          /\ Filled(w, rest)
      BY <3>4, <3>5, <3>6, FillFacts
    <3> HIDE DEF w
    <3>8. SameCounts(v, w) /\ w.idle = FALSE
      BY <3>5, <3>7 DEF Sends, Streams
    <3>9. AtRest(s, v)
      BY <1>2, <1>4, <3>3, <3>5 DEF AtRest, SameCall, SameCounts, IsStarted
    <3> QED
      BY <2>2, <3>1, <3>4, <3>7, <3>8, <3>9
  <2> QED
    BY <2>1, <2>2
<1> HIDE DEF x
<1>6. /\ d \in Streams /\ SameCall(x, d) /\ SameCounts(x, d) /\ d.pipeline = x.pipeline
      /\ d.idle = FALSE /\ Begun(x, d) /\ Needed(d)
  BY <1>5, StartIfNeededFacts
<1> HIDE DEF d
<1>7. PICK a : AtRest(s, a) /\ SameCall(a, x) /\ SameCounts(a, x) /\ Begun(a, x)
  BY <1>5
<1>8. SameCall(a, d) /\ SameCounts(a, d) /\ Fits(d, rest)
  BY <1>5, <1>6, <1>7 DEF SameCall, SameCounts, Fits
<1>9. Begun(a, d)
  BY <1>6, <1>7, BegunTwice DEF SameCall
<1>10. /\ Sound(e, rest) /\ Proceeds(s, e) /\ e.done = 0 /\ e.state # "Open"
       /\ s.state = "Starting" => e.closes > s.closes
       /\ Fed(d, rest) => Fed(e, rest)
  BY <1>1, <1>6, <1>7, <1>8, <1>9, FromRest
<1>11. Fed(s, q) => Fed(d, rest)
  BY <1>5, <1>6 DEF Fed, Filled
<1> QED
  BY <1>3, <1>5, <1>10, <1>11

-----------------------------------------------------------------------------
Notices == [kind : {"notice"}, user : Signers]
Tokens == [kind : {"token"}, counter : Nat, closes : Nat, user : Signers, ok : BOOLEAN]
Changes == [kind : {"change"}, user : Signers]
Resumes == [kind : {"resume"}, user : Signers, closes : Nat, ok : BOOLEAN]
Writes == [kind : {"write"}]

Typed ==
  /\ authUser \in Signers /\ fsUser \in Signers
  /\ counter \in Nat /\ failures \in 0 .. MaxFailures
  /\ fetching \in SUBSET Tokens /\ IsFiniteSet(fetching)
  /\ main \in Seq(Notices \cup Tokens)
  /\ worker \in Seq(Changes \cup Resumes \cup Writes)
  /\ queue \in [Signers -> Seq(Batches)]
  /\ answer \in [Batches -> {"none", "waiting", "acknowledged", "rejected"}]
  /\ owner \in [Batches -> Signers]
  /\ committed \subseteq Signers \X Batches

(* Requests are of streams started, and of counts reached.                 *)
RequestsAreOld ==
  /\ \A a \in stream.asks : a.closes <= stream.closes /\ a.counter <= counter
  /\ \A f \in fetching : f.closes <= stream.closes /\ f.counter <= counter
  /\ \A i \in DOMAIN main : main[i].kind = "token" =>
       main[i].closes <= stream.closes /\ main[i].counter <= counter
  /\ \A i \in DOMAIN worker : worker[i].kind = "resume" => worker[i].closes <= stream.closes

(* One at most is current, and only for a stream that is starting. *)
OneRequest ==
  /\ Asking \/ Fetching \/ Answered \/ Resuming => stream.state = "Starting"
  /\ ~(Asking /\ Fetching) /\ ~(Asking /\ Answered) /\ ~(Asking /\ Resuming)
  /\ ~(Fetching /\ Answered) /\ ~(Fetching /\ Resuming) /\ ~(Answered /\ Resuming)
  /\ \A a, b \in stream.asks : Current(a) /\ Current(b) => a = b
  /\ \A f, g \in fetching : Current(f) /\ Current(g) => f = g
  /\ \A i, j \in DOMAIN main :
       /\ main[i].kind = "token" /\ Current(main[i])
       /\ main[j].kind = "token" /\ Current(main[j])
       => i = j
  /\ \A i, j \in DOMAIN worker :
       /\ worker[i].kind = "resume" /\ Current(worker[i])
       /\ worker[j].kind = "resume" /\ Current(worker[j])
       => i = j

(* The client will work for u when it comes to the n-th task.              *)
UserAt(n, u) ==
  /\ (\A j \in DOMAIN worker : j < n => worker[j].kind # "change") => fsUser = u
  /\ \A j \in DOMAIN worker :
       /\ j < n /\ worker[j].kind = "change"
       /\ \A k \in DOMAIN worker : j < k /\ k < n => worker[k].kind # "change"
       => worker[j].user = u

(* It will work for u after the tasks there are.                           *)
MainUser(u) == UserAt(Len(worker) + 1, u)

NoNotice == \A j \in DOMAIN main : main[j].kind # "notice"

(* Whoever is signed in is the user of the last notice, run or not.  A     *)
(* token that is not out of date by the counter is of the user the client  *)
(* has, or will have when it resumes the stream.                           *)
UsersAreKnown ==
  /\ NoNotice => MainUser(authUser)
  /\ \A i \in DOMAIN main :
       /\ main[i].kind = "notice"
       /\ \A j \in DOMAIN main : j > i => main[j].kind # "notice"
       => main[i].user = authUser

TokensAreCurrent ==
  /\ NoNotice => \A f \in fetching : f.counter = counter => f.user = authUser
  /\ \A i \in DOMAIN main :
       /\ main[i].kind = "token" /\ main[i].ok /\ main[i].counter = counter
       /\ \A j \in DOMAIN main : j < i => main[j].kind # "notice"
       => MainUser(main[i].user)
  /\ \A i \in DOMAIN worker : worker[i].kind = "resume" /\ worker[i].ok
       => UserAt(i, worker[i].user)
  /\ stream.state = "Open" => stream.token = fsUser

(* The ids of the writes made so far. *)
Made == {b \in Batches : answer[b] # "none"}

QueuesAreOrdered ==
  /\ \A u \in Signers : Ascending(queue[u])
  /\ \A u \in Signers : \A i \in 1 .. Len(queue[u]) :
       answer[queue[u][i]] # "none" /\ owner[queue[u][i]] = u
  /\ Made = 1 .. Cardinality(Made)

Bounded ==
  /\ NoticesMade <= MaxNotices
  /\ Waiting(worker, "write") + Cardinality(Made) <= MaxWrites

(* What was executed and not answered is the front of the pipeline.        *)
CommitsAreKnown ==
  /\ \A x \in committed : answer[x[2]] # "none" /\ owner[x[2]] = x[1]
  /\ \A i \in 1 .. stream.done : <<stream.token, stream.pipeline[i]>> \in committed
  /\ AcknowledgedIsCommitted

(* The backend's rules, when they look at the signer alone. *)
RefusedAsDenied ==
  /\ stream.done > 0 => stream.token \notin Denied
  /\ Invalid = {} /\ stream.status = "denied" => stream.token \in Denied

IInv ==
  /\ Typed /\ Sound(stream, queue[fsUser]) /\ Fed(stream, queue[fsUser])
  /\ RequestsAreOld /\ OneRequest
  /\ UsersAreKnown /\ TokensAreCurrent
  /\ QueuesAreOrdered /\ Bounded
  /\ CommitsAreKnown /\ RefusedAsDenied
-----------------------------------------------------------------------------
(* The steps that concern the stream alone.                                *)

LEMMA CurrentQueue ==
  ASSUME IInv
  PROVE  /\ queue[fsUser] \in Seq(Batches) /\ Ascending(queue[fsUser]) /\ counter \in Nat
         /\ stream \in Streams /\ Sound(stream, queue[fsUser]) /\ Fed(stream, queue[fsUser])
BY DEF IInv, Typed, QueuesAreOrdered, Sound

(* What the stream may do in a task. *)
StreamGoesOn ==
  /\ Sound(stream', queue'[fsUser']) /\ Fed(stream', queue'[fsUser'])
  /\ Recalls(stream, stream') /\ Keeps(stream, stream')

LEMMA FillSound ==
  ASSUME NEW s, NEW q \in Seq(Batches), Ascending(q), Sound(s, q), counter \in Nat
  PROVE  LET d == FillWritePipeline(s, q) IN
         Sound(d, q) /\ Fed(d, q) /\ Proceeds(s, d) /\ d.done = s.done
<1> DEFINE d == FillWritePipeline(s, q)
<1>1. /\ s \in Streams /\ Len(s.pipeline) \in Nat /\ s.sent \in Nat /\ s.done \in Nat
      /\ s.closes \in Nat
  BY DEF Sound, Streams
<1>2. s.idle => s.state = "Open" /\ s.handshake
  BY DEF Sound
<1>3. /\ d \in Streams /\ SameCall(s, d) /\ Begun(s, d) /\ Sends(s, d)
      /\ Fits(d, q) /\ Len(s.pipeline) <= Len(d.pipeline)
      /\ Filled(d, q) /\ Needed(d) /\ Sending(d)
  BY <1>1, <1>2, FillFacts DEF Sound
<1> HIDE DEF d
<1>4. /\ d.closes = s.closes /\ d.token = s.token /\ d.handshake = s.handshake
      /\ d.done = s.done /\ d.status = s.status /\ d.failing = s.failing
      /\ d.failed = FALSE
  BY <1>3 DEF SameCall, Sound
<1>5. d.sent \in Nat /\ d.done <= d.sent /\ d.sent <= Len(d.pipeline)
  BY <1>1, <1>3, <1>4 DEF Sends, Sound, Streams
<1>6. (d.state = "Open") <=> (s.state = "Open")
  BY <1>3 DEF Begun, IsStarted
<1>7. d.handshake => d.state = "Open"
  BY <1>4, <1>6 DEF Sound
<1>8. ~d.handshake => d.sent = 0 /\ d.done = 0 /\ d.writing = FALSE
  BY <1>3, <1>4 DEF Sends, SameCounts, Sound
<1>9. d.state # "Open" => d.status = "ok" /\ d.failing = FALSE
  BY <1>4, <1>6 DEF Sound
<1>10. d.pipeline = << >> => s.pipeline = << >>
  BY <1>1, <1>3 DEF Streams
<1>11. d.idle => d.handshake /\ d.pipeline = << >>
  BY <1>1, <1>3, <1>4, <1>10 DEF Sends, Sound, IsStarted
<1>12. IsStarted(d) /\ ~d.handshake => d.pipeline # << >>
  BY <1>3, <1>4, <1>10 DEF Begun, IsStarted, Sound
<1>13. Sound(d, q)
  BY <1>3, <1>4, <1>5, <1>7, <1>8, <1>9, <1>11, <1>12 DEF Sound
<1>14. Recalls(s, d)
  BY <1>1, <1>3, <1>4 DEF Recalls, Begun, IsStarted
<1>15. Keeps(s, d)
  <2>1. ASSUME NEW i \in 1 .. s.done PROVE d.pipeline[i] = s.pipeline[i]
    <3>1. i \in 1 .. Len(s.pipeline) /\ i \in 1 .. Len(d.pipeline)
      BY <1>1, <1>3 DEF Sound, Streams
    <3> QED
      BY <1>3, <3>1 DEF Fits, Sound
  <2> QED
    BY <1>4, <1>6, <2>1 DEF Keeps
<1>16. Unheard(s, d)
  BY <1>4 DEF Unheard
<1> QED
  BY <1>3, <1>4, <1>13, <1>14, <1>15, <1>16 DEF Proceeds, Fed, d

(* The stream steps that change no request, no count of what was executed, *)
(* and neither open nor close the stream.                                  *)
LEMMA SameStream ==
  ASSUME NEW s \in Streams, NEW d, d.closes = s.closes, d.state = s.state, d.asks = s.asks,
         d.token = s.token, d.done = s.done, d.pipeline = s.pipeline
  PROVE  Recalls(s, d) /\ Keeps(s, d) /\ \A q : Fed(s, q) => Fed(d, q)
BY DEF Recalls, Keeps, Fed, Filled, Needed, IsStarted, Streams

LEMMA HandshakeStep ==
  ASSUME IInv, HandshakeAnswered
  PROVE  /\ Sound(stream', queue[fsUser]) /\ Fed(stream', queue[fsUser])
         /\ Proceeds(stream, stream') /\ stream'.done = stream.done
<1> DEFINE s == [stream EXCEPT !.handshake = TRUE]
           d == Write(s)
<1>1. stream \in Streams /\ Sound(stream, queue[fsUser]) /\ Fed(stream, queue[fsUser])
  BY CurrentQueue
<1>2. /\ stream.state = "Open" /\ ~stream.handshake /\ stream' = d
      /\ stream.sent = 0 /\ stream.done = 0 /\ Len(stream.pipeline) \in Nat
  BY <1>1 DEF HandshakeAnswered, IsOpen, Sound, Streams
<1>3. /\ s \in Streams /\ s.handshake /\ s.closes = stream.closes /\ s.asks = stream.asks
      /\ s.token = stream.token /\ s.done = stream.done /\ s.status = stream.status
      /\ s.failing = stream.failing /\ s.failed = stream.failed /\ s.state = stream.state
      /\ s.sent = stream.sent /\ s.pipeline = stream.pipeline
  BY <1>1 DEF Streams
<1> HIDE DEF s
<1>4. s.sent = 0 /\ s.done = 0 /\ s.sent <= Len(s.pipeline)
  BY <1>2, <1>3
<1>5. /\ d \in Streams /\ SameCall(s, d) /\ d.idle = FALSE
      /\ d.pipeline = s.pipeline /\ d.state = s.state /\ d.asks = s.asks
      /\ s.sent <= d.sent /\ d.sent <= Len(s.pipeline) /\ Sending(d)
  <2>1. s \in Streams /\ s.handshake /\ s.sent <= Len(s.pipeline)
    BY <1>3, <1>4
  <2> QED
    BY <2>1, WriteFacts
<1> HIDE DEF d
<1>6. /\ d.handshake /\ d.done = 0 /\ d.failed = FALSE /\ d.state = "Open"
      /\ d.closes = stream.closes /\ d.token = stream.token /\ d.status = stream.status
      /\ d.pipeline = stream.pipeline /\ d.asks = stream.asks
  BY <1>1, <1>2, <1>3, <1>4, <1>5 DEF SameCall, Sound
<1>7. Fits(d, queue[fsUser])
  BY <1>1, <1>6 DEF Fits, Sound
<1>8. Sound(d, queue[fsUser])
  BY <1>3, <1>4, <1>5, <1>6, <1>7 DEF Sound
<1>9. Proceeds(stream, d) /\ Fed(d, queue[fsUser])
  BY <1>1, <1>2, <1>6, SameStream DEF Proceeds, Unheard
<1> QED
  BY <1>2, <1>6, <1>8, <1>9

LEMMA WrittenStep ==
  ASSUME IInv, Written
  PROVE  /\ Sound(stream', queue[fsUser]) /\ Fed(stream', queue[fsUser])
         /\ Proceeds(stream, stream') /\ stream'.done = stream.done
<1>1. stream \in Streams /\ Sound(stream, queue[fsUser]) /\ Fed(stream, queue[fsUser])
  BY CurrentQueue
<1>2. stream.handshake
  BY <1>1 DEF Written, Sound, Streams
<1>3. Len(stream.pipeline) \in Nat /\ stream.sent \in Nat /\ stream.done \in Nat
  BY <1>1 DEF Streams
<1>4. /\ stream' \in Streams /\ stream'.closes = stream.closes /\ stream'.state = stream.state
      /\ stream'.asks = stream.asks /\ stream'.token = stream.token
      /\ stream'.done = stream.done /\ stream'.pipeline = stream.pipeline
      /\ stream'.status = stream.status /\ stream'.handshake = stream.handshake
      /\ stream'.idle = stream.idle /\ stream'.failing = stream.failing
      /\ stream'.failed = stream.failed
      /\ stream.sent <= stream'.sent /\ stream'.sent <= Len(stream.pipeline)
      /\ Sending(stream')
  <2>1. CASE stream.sent < Len(stream.pipeline)
    <3> DEFINE n == stream.sent + 1
               d == [stream EXCEPT !.sent = n]
    <3>1. n \in Nat /\ stream.sent <= n /\ n <= Len(stream.pipeline)
      BY <1>3, <2>1
    <3>2. stream' = d
      BY <2>1 DEF Written
    <3> HIDE DEF n
    <3>3. /\ d \in Streams /\ d.closes = stream.closes /\ d.state = stream.state
          /\ d.asks = stream.asks /\ d.token = stream.token
          /\ d.done = stream.done /\ d.pipeline = stream.pipeline
          /\ d.status = stream.status /\ d.handshake = stream.handshake
          /\ d.idle = stream.idle /\ d.failing = stream.failing
          /\ d.failed = stream.failed /\ d.sent = n /\ d.writing = stream.writing
      BY <1>1, <3>1 DEF Streams
    <3> HIDE DEF d
    <3>4. Sending(d)
      BY <3>3 DEF Sending, Written
    <3> QED
      BY <3>1, <3>2, <3>3, <3>4
  <2>2. CASE ~(stream.sent < Len(stream.pipeline))
    <3> DEFINE d == [stream EXCEPT !.writing = FALSE]
    <3>1. stream' = d
      BY <2>2 DEF Written
    <3>2. /\ d \in Streams /\ d.closes = stream.closes /\ d.state = stream.state
          /\ d.asks = stream.asks /\ d.token = stream.token
          /\ d.done = stream.done /\ d.pipeline = stream.pipeline
          /\ d.status = stream.status /\ d.handshake = stream.handshake
          /\ d.idle = stream.idle /\ d.failing = stream.failing
          /\ d.failed = stream.failed /\ d.sent = stream.sent
      BY <1>1 DEF Streams
    <3> HIDE DEF d
    <3>3. stream.sent <= Len(stream.pipeline) /\ stream.sent <= stream.sent
      BY <1>1, <1>3 DEF Sound
    <3>4. Sending(d)
      BY <2>2, <3>2 DEF Sending
    <3> QED
      BY <3>1, <3>2, <3>3, <3>4
  <2> QED
    BY <2>1, <2>2
<1>5. Fits(stream', queue[fsUser])
  BY <1>1, <1>4 DEF Fits, Sound
<1>6. stream'.done <= stream'.sent
  BY <1>1, <1>3, <1>4 DEF Sound, Streams
<1>7. Sound(stream', queue[fsUser])
  BY <1>1, <1>2, <1>4, <1>5, <1>6 DEF Sound, IsStarted
<1>8. Proceeds(stream, stream') /\ Fed(stream', queue[fsUser])
  BY <1>1, <1>4, SameStream DEF Proceeds, Unheard
<1> QED
  BY <1>4, <1>7, <1>8

(* A write that fails, like the backend's and the connection's last word,  *)
(* leaves the stream to be finished.                                       *)
LEMMA WriteFailedStep ==
  ASSUME IInv, WriteFailed
  PROVE  /\ Sound(stream', queue[fsUser]) /\ Fed(stream', queue[fsUser])
         /\ Proceeds(stream, stream') /\ stream'.done = stream.done
<1> DEFINE ahead == stream.ahead \/ stream.done > 0
           c == [stream EXCEPT !.failing = TRUE]
           d == [c EXCEPT !.ahead = ahead]
<1>1. stream \in Streams /\ Sound(stream, queue[fsUser]) /\ Fed(stream, queue[fsUser])
  BY CurrentQueue
<1>2. stream' = d /\ stream.status = "denied" /\ ahead \in BOOLEAN
  BY <1>1 DEF WriteFailed, Streams
<1>3. stream.state = "Open"
  BY <1>1, <1>2 DEF Sound
<1>4. /\ c \in Streams /\ c.closes = stream.closes /\ c.state = stream.state
      /\ c.asks = stream.asks /\ c.token = stream.token
      /\ c.done = stream.done /\ c.pipeline = stream.pipeline
      /\ c.status = stream.status /\ c.handshake = stream.handshake
      /\ c.idle = stream.idle /\ c.failed = stream.failed
      /\ c.sent = stream.sent /\ c.writing = stream.writing
  BY <1>1 DEF Streams
<1> HIDE DEF ahead, c
<1>5. /\ d \in Streams /\ d.closes = stream.closes /\ d.state = stream.state
      /\ d.asks = stream.asks /\ d.token = stream.token
      /\ d.done = stream.done /\ d.pipeline = stream.pipeline
      /\ d.status = stream.status /\ d.handshake = stream.handshake
      /\ d.idle = stream.idle /\ d.failed = stream.failed
      /\ d.sent = stream.sent /\ d.writing = stream.writing
  BY <1>2, <1>4 DEF Streams
<1> HIDE DEF d
<1>6. Sound(d, queue[fsUser])
  BY <1>1, <1>3, <1>5 DEF Sound, Fits, Sending, IsStarted
<1>7. Proceeds(stream, d) /\ Fed(d, queue[fsUser])
  BY <1>1, <1>5, SameStream DEF Proceeds, Unheard
<1> QED
  BY <1>2, <1>5, <1>6, <1>7

LEMMA StatusStep ==
  ASSUME NEW status \in {"unavailable", "denied"}, NEW s, NEW q, Sound(s, q), s.state = "Open"
  PROVE  LET d == [s EXCEPT !.status = status] IN
         /\ Sound(d, q) /\ Recalls(s, d) /\ Keeps(s, d) /\ (Fed(s, q) => Fed(d, q))
         /\ d.done = s.done /\ d.token = s.token /\ d.status = status
<1> DEFINE d == [s EXCEPT !.status = status]
<1>1. s \in Streams
  BY DEF Sound
<1>2. /\ d \in Streams /\ d.closes = s.closes /\ d.state = s.state
      /\ d.asks = s.asks /\ d.token = s.token
      /\ d.done = s.done /\ d.pipeline = s.pipeline
      /\ d.status = status /\ d.handshake = s.handshake
      /\ d.idle = s.idle /\ d.failed = s.failed /\ d.failing = s.failing
      /\ d.sent = s.sent /\ d.writing = s.writing
  BY <1>1 DEF Streams
<1> HIDE DEF d
<1>3. Sound(d, q)
  BY <1>2 DEF Sound, Fits, Sending, IsStarted
<1>4. Recalls(s, d) /\ Keeps(s, d) /\ (Fed(s, q) => Fed(d, q))
  BY <1>1, <1>2, SameStream
<1> QED
  BY <1>2, <1>3, <1>4 DEF d

LEMMA BackoffStep ==
  ASSUME IInv, BackoffElapsed
  PROVE  /\ Sound(stream', queue[fsUser]) /\ Fed(stream', queue[fsUser])
         /\ Proceeds(stream, stream') /\ stream'.done = stream.done
<1> DEFINE s == [stream EXCEPT !.state = "Initial"]
           d == Start(s)
<1>1. /\ stream \in Streams /\ Sound(stream, queue[fsUser]) /\ Fed(stream, queue[fsUser])
      /\ counter \in Nat
  BY CurrentQueue
<1>2. stream' = d /\ stream.state = "Backoff"
  BY DEF BackoffElapsed
<1>3. /\ s \in Streams /\ s.closes = stream.closes /\ s.state = "Initial"
      /\ s.asks = stream.asks /\ s.token = stream.token
      /\ s.done = stream.done /\ s.pipeline = stream.pipeline
      /\ s.status = stream.status /\ s.handshake = stream.handshake
      /\ s.idle = stream.idle /\ s.failed = stream.failed /\ s.failing = stream.failing
      /\ s.sent = stream.sent /\ s.writing = stream.writing
  BY <1>1 DEF Streams
<1> HIDE DEF s
<1>4. /\ d \in Streams /\ SameCall(s, d) /\ SameCounts(s, d)
      /\ d.pipeline = s.pipeline /\ d.idle = s.idle
      /\ \/ d.state = "Backoff" /\ d.asks = s.asks
         \/ /\ d.state = "Starting"
            /\ d.asks = s.asks \cup {[counter |-> counter, closes |-> s.closes]}
  BY <1>1, <1>3, StartFacts
<1> HIDE DEF d
<1>5. /\ d.closes = stream.closes /\ d.token = stream.token /\ d.done = stream.done
      /\ d.pipeline = stream.pipeline /\ d.status = stream.status
      /\ d.handshake = stream.handshake /\ d.idle = stream.idle
      /\ d.failed = stream.failed /\ d.failing = stream.failing
      /\ d.sent = stream.sent /\ d.writing = stream.writing
  BY <1>3, <1>4 DEF SameCall, SameCounts
<1>6. /\ stream.closes \in Nat /\ stream.pipeline # << >>
      /\ stream.handshake = FALSE
  BY <1>1, <1>2 DEF Sound, Streams, IsStarted
<1>7. Sound(d, queue[fsUser])
  BY <1>1, <1>2, <1>4, <1>5, <1>6 DEF Sound, Fits, Sending
<1>8. Recalls(stream, d)
  BY <1>2, <1>3, <1>4, <1>5, <1>6 DEF Recalls
<1>9. Keeps(stream, d) /\ Unheard(stream, d)
  BY <1>4, <1>5 DEF Keeps, Unheard
<1>10. Fed(d, queue[fsUser])
  BY <1>1, <1>4, <1>5 DEF Fed, Filled, Needed, IsStarted
<1> QED
  BY <1>2, <1>5, <1>7, <1>8, <1>9, <1>10 DEF Proceeds

(* The idle timer stops a stream that has nothing to send. *)
LEMMA IdleStep ==
  ASSUME IInv, IdleTimeout
  PROVE  /\ Sound(stream', queue[fsUser]) /\ Fed(stream', queue[fsUser]) /\ Proceeds(stream, stream')
         /\ stream'.done = 0 /\ stream.done = 0
<1> DEFINE s == stream
           c == Closed(s, "Initial")
           a == [c EXCEPT !.handshake = FALSE]
<1>1. /\ s \in Streams /\ Sound(s, queue[fsUser]) /\ s.failed = FALSE /\ s.closes \in Nat
      /\ Fed(s, queue[fsUser])
  BY CurrentQueue DEF Sound, Streams
<1>2. s.pipeline = << >> /\ s.state = "Open" /\ IsStarted(s)
  BY <1>1 DEF IdleTimeout, Sound, IsStarted
<1>3. /\ c \in Streams /\ c.state = "Initial" /\ c.closes = s.closes + 1
      /\ c.asks = s.asks /\ c.pipeline = s.pipeline /\ c.idle = FALSE
      /\ c.writing = FALSE /\ c.sent = 0 /\ c.done = 0 /\ c.status = "ok"
      /\ c.failing = FALSE /\ c.failed = FALSE
  BY <1>1, <1>2, ClosedFacts
<1> HIDE DEF c
<1>4. HardAssert(c, ~(TRUE /\ s.pipeline # << >>)) = c
  BY <1>2, <1>3, AssertedHolds
<1>5. Stop(s, TRUE) = a
  BY <1>2, <1>4 DEF Stop, c
<1>6. /\ a \in Streams /\ a.state = "Initial" /\ a.closes = s.closes + 1
      /\ a.asks = s.asks /\ a.pipeline = s.pipeline /\ a.idle = FALSE
      /\ a.writing = FALSE /\ a.sent = 0 /\ a.done = 0 /\ a.status = "ok"
      /\ a.failing = FALSE /\ a.failed = FALSE /\ a.handshake = FALSE
  BY <1>3 DEF Streams
<1> HIDE DEF a
<1>7. stream' = a /\ stream.done = 0
  <2>1. stream' = a
    BY <1>5 DEF IdleTimeout
  <2>2. s.done \in Nat /\ s.sent \in Nat /\ s.done <= s.sent /\ s.sent <= 0
    BY <1>1, <1>2 DEF Sound, Streams
  <2> QED
    BY <2>1, <2>2
<1>8. Sound(a, queue[fsUser])
  <2>1. Fits(a, queue[fsUser])
    BY <1>1, <1>6 DEF Sound, Fits
  <2>2. a.done <= a.sent /\ a.sent <= Len(a.pipeline)
    BY <1>2, <1>6
  <2> QED
    BY <1>6, <2>1, <2>2 DEF Sound, Sending, IsStarted
<1>9. Recalls(s, a)
  BY <1>1, <1>6 DEF Recalls
<1>10. Keeps(s, a) /\ Unheard(s, a)
  BY <1>6 DEF Keeps, Unheard
<1>11. Fed(a, queue[fsUser])
  BY <1>1, <1>2, <1>6 DEF Fed, Filled, Needed
<1> QED
  BY <1>1, <1>6, <1>7, <1>8, <1>9, <1>10, <1>11 DEF Proceeds

(* An answer, or the write that is blamed, takes the front of the queue.   *)
LEMMA QueueFront ==
  ASSUME IInv, NEW b, stream.pipeline # << >>, b = stream.pipeline[1],
         queue' = [queue EXCEPT ![fsUser] = RemoveFirst(@, b)]
  PROVE  /\ b \in Batches /\ queue[fsUser] # << >> /\ b = queue[fsUser][1]
         /\ queue' = [queue EXCEPT ![fsUser] = Tail(queue[fsUser])]
         /\ queue'[fsUser] = Tail(queue[fsUser])
         /\ queue' \in [Signers -> Seq(Batches)]
<1> DEFINE q == queue[fsUser]
<1>1. /\ q \in Seq(Batches) /\ queue \in [Signers -> Seq(Batches)] /\ fsUser \in Signers
      /\ stream \in Streams /\ Fits(stream, q)
  BY CurrentQueue DEF IInv, Typed, Sound
<1>2. q # << >> /\ b = q[1]
  <2>1. 1 \in 1 .. Len(stream.pipeline) /\ Len(stream.pipeline) \in Nat \ {0}
    BY <1>1, TailMovesUp DEF Streams
  <2> QED
    BY <1>1, <2>1 DEF Fits
<1>3. RemoveFirst(q, b) = Tail(q) /\ Tail(q) \in Seq(Batches) /\ b \in Batches
  BY <1>1, <1>2, FrontRemoved, TailMovesUp
<1>4. queue' = [queue EXCEPT ![fsUser] = Tail(q)]
  BY <1>3
<1> QED
  BY <1>1, <1>2, <1>3, <1>4

LEMMA ProceedsFrom ==
  ASSUME NEW s \in Streams, NEW m, NEW d, m.closes = s.closes, m.state = s.state, m.asks = s.asks,
         Keeps(s, m), Unheard(s, m), m.status = "denied" => m.token = s.token, Proceeds(m, d)
  PROVE  Proceeds(s, d)
<1>1. Recalls(s, d)
  BY DEF Proceeds, Recalls
<1>2. d.state = "Open" => s.state = "Open" /\ d.token = s.token
  BY DEF Proceeds, Keeps
<1>3. \A i \in 1 .. d.done : \E j \in 1 .. s.done : d.pipeline[i] = s.pipeline[j]
  <2> TAKE i \in 1 .. d.done
  <2>1. PICK k \in 1 .. m.done : d.pipeline[i] = m.pipeline[k]
    BY DEF Proceeds, Keeps
  <2>2. PICK j \in 1 .. s.done : m.pipeline[k] = s.pipeline[j]
    BY <2>1 DEF Keeps
  <2> QED
    BY <2>1, <2>2
<1>4. Unheard(s, d)
  BY DEF Proceeds, Unheard
<1> QED
  BY <1>1, <1>2, <1>3, <1>4 DEF Proceeds, Keeps

LEMMA AnswerStep ==
  ASSUME IInv, MutationResult
  PROVE  /\ StreamGoesOn /\ Proceeds(stream, stream') /\ stream'.done = stream.done - 1
         /\ stream.done \in Nat \ {0} /\ stream.pipeline # << >>
         /\ queue' = [queue EXCEPT ![fsUser] = Tail(queue[fsUser])]
<1> DEFINE q == queue[fsUser]
           rest == Tail(stream.pipeline)
           sent == stream.sent - 1
           done == stream.done - 1
           c == [stream EXCEPT !.pipeline = rest]
           e == [c EXCEPT !.sent = sent]
           f == [e EXCEPT !.done = done]
           m == [f EXCEPT !.ahead = FALSE]
           d == FillWritePipeline(m, Tail(q))
<1>1. /\ stream \in Streams /\ Sound(stream, q) /\ q \in Seq(Batches) /\ Ascending(q)
      /\ counter \in Nat
  BY CurrentQueue
<1>2. /\ stream.done \in Nat \ {0} /\ sent \in Nat /\ done \in Nat /\ done <= sent
      /\ stream.sent \in Nat /\ stream.sent <= Len(stream.pipeline)
  BY <1>1 DEF MutationResult, CanRead, Sound, Streams
<1>3. stream.pipeline \in Seq(Batches) /\ stream.pipeline # << >>
  BY <1>1, <1>2 DEF Streams
<1>4. stream.handshake
  BY <1>1, <1>2 DEF Sound
<1>5. /\ queue' = [queue EXCEPT ![fsUser] = Tail(q)] /\ queue'[fsUser] = Tail(q)
  <2>1. queue' = [queue EXCEPT ![fsUser] = RemoveFirst(@, stream.pipeline[1])]
    BY DEF MutationResult
  <2> QED
    BY <1>3, <2>1, QueueFront
<1>6. stream' = d
  BY <1>5 DEF MutationResult
<1>7. /\ rest \in Seq(Batches) /\ Len(rest) = Len(stream.pipeline) - 1 /\ sent <= Len(rest)
      /\ \A i \in 1 .. Len(stream.pipeline) - 1 : rest[i] = stream.pipeline[i + 1]
      /\ Len(stream.pipeline) \in Nat
  BY <1>2, <1>3, TailMovesUp
<1> DEFINE Same(x) == /\ x \in Streams /\ x.closes = stream.closes /\ x.state = stream.state
                      /\ x.asks = stream.asks /\ x.token = stream.token
                      /\ x.status = stream.status /\ x.handshake = stream.handshake
                      /\ x.idle = stream.idle /\ x.failed = stream.failed
                      /\ x.failing = stream.failing /\ x.writing = stream.writing
                      /\ x.pipeline = rest
<1> HIDE DEF rest, sent, done
<1>8. Same(c)
  BY <1>1, <1>7 DEF Streams
<1> HIDE DEF c
<1>9. Same(e) /\ e.sent = sent
  BY <1>2, <1>8 DEF Streams
<1> HIDE DEF e
<1>10. Same(f) /\ f.sent = sent /\ f.done = done
  BY <1>2, <1>9 DEF Streams
<1> HIDE DEF f
<1>11. Same(m) /\ m.sent = sent /\ m.done = done
  BY <1>10 DEF Streams
<1> HIDE DEF m
<1>12. Fits(m, Tail(q)) /\ Ascending(Tail(q)) /\ Tail(q) \in Seq(Batches)
  BY <1>1, <1>3, <1>11, TailFits DEF Sound, rest
<1>13. Sound(m, Tail(q))
  <2>1. Sending(m)
    BY <1>1, <1>2, <1>7, <1>11 DEF Sound, Sending, sent
  <2> QED
    BY <1>1, <1>2, <1>3, <1>4, <1>7, <1>11, <1>12, <2>1 DEF Sound, IsStarted
<1>14. Keeps(stream, m) /\ Unheard(stream, m)
  <2>1. ASSUME NEW i \in 1 .. done PROVE \E j \in 1 .. stream.done : rest[i] = stream.pipeline[j]
    <3>1. i + 1 \in 1 .. stream.done /\ i \in 1 .. Len(stream.pipeline) - 1
      BY <1>2, <1>7 DEF done
    <3> QED
      BY <1>7, <3>1
  <2> QED
    BY <1>11, <2>1 DEF Keeps, Unheard
<1>15. Sound(d, Tail(q)) /\ Fed(d, Tail(q)) /\ Proceeds(m, d) /\ d.done = done
  BY <1>1, <1>11, <1>12, <1>13, FillSound
<1> HIDE DEF d
<1>16. Proceeds(stream, d)
  BY <1>1, <1>11, <1>14, <1>15, ProceedsFrom
<1>17. fsUser' = fsUser
  BY DEF MutationResult
<1> QED
  BY <1>2, <1>3, <1>5, <1>6, <1>15, <1>16, <1>17 DEF StreamGoesOn, Proceeds, done

(* The new write has the largest id, and comes last in its queue. *)
LEMMA NewWrite ==
  ASSUME IInv, RunWrite
  PROVE  LET b == 1 + Cardinality(Made) IN
         /\ b \in Batches /\ b \notin Made /\ Cardinality(Made) \in Nat
         /\ b <= MaxWrites /\ Made = 1 .. Cardinality(Made)
         /\ queue' = [queue EXCEPT ![fsUser] = Append(@, b)]
         /\ answer' = [answer EXCEPT ![b] = "waiting"]
         /\ owner' = [owner EXCEPT ![b] = fsUser]
         /\ stream' = FillWritePipeline(stream, queue'[fsUser])
<1> DEFINE b == 1 + Cardinality(Made)
<1>1. /\ queue' = [queue EXCEPT ![fsUser] = Append(@, b)]
      /\ answer' = [answer EXCEPT ![b] = "waiting"]
      /\ owner' = [owner EXCEPT ![b] = fsUser]
      /\ stream' = FillWritePipeline(stream, queue'[fsUser])
  BY DEF RunWrite, Made
<1>2. Made = 1 .. Cardinality(Made) /\ MaxWrites \in Nat
  BY StreamAssumption DEF IInv, QueuesAreOrdered, StreamAssumption
<1>3. IsFiniteSet(Made) /\ Cardinality(Made) \in Nat
  <2>1. IsFiniteSet(Batches)
    BY <1>2, FS_Interval DEF Batches
  <2> QED
    BY <2>1, FS_Subset, FS_CardinalityType DEF Made
<1>4. b <= MaxWrites
  <2>1. Waiting(worker, "write") \in Nat \ {0}
    <3> DEFINE W == {i \in DOMAIN worker : worker[i].kind = "write"}
    <3>1. worker # << >> /\ worker[1].kind = "write" /\ worker \in Seq(Changes \cup Resumes \cup Writes)
      BY DEF RunWrite, Task, IInv, Typed
    <3>2. 1 \in W /\ DOMAIN worker = 1 .. Len(worker) /\ Len(worker) \in Nat
      BY <3>1
    <3>3. IsFiniteSet(W)
      <4>1. IsFiniteSet(1 .. Len(worker))
        BY <3>2, FS_Interval
      <4> QED
        BY <3>2, <4>1, FS_Subset
    <3> QED
      BY <3>2, <3>3, FS_CardinalityType, FS_EmptySet DEF Waiting
  <2>2. Waiting(worker, "write") + Cardinality(Made) <= MaxWrites
    BY DEF IInv, Bounded
  <2> QED
    BY <1>2, <1>3, <2>1, <2>2
<1>5. b \in Batches /\ b \notin Made
  BY <1>2, <1>3, <1>4 DEF Batches
<1> QED
  BY <1>1, <1>2, <1>3, <1>4, <1>5

LEMMA WriteStep ==
  ASSUME IInv, RunWrite
  PROVE  /\ StreamGoesOn /\ Proceeds(stream, stream') /\ stream'.done = stream.done
         /\ queue' \in [Signers -> Seq(Batches)] /\ \A u \in Signers : Ascending(queue'[u])
<1> DEFINE q == queue[fsUser]
           b == 1 + Cardinality(Made)
           r == Append(q, b)
           d == FillWritePipeline(stream, r)
<1>1. /\ stream \in Streams /\ Sound(stream, q) /\ q \in Seq(Batches) /\ Ascending(q)
      /\ counter \in Nat /\ fsUser \in Signers /\ queue \in [Signers -> Seq(Batches)]
      /\ \A u \in Signers : Ascending(queue[u])
  BY CurrentQueue DEF IInv, Typed, QueuesAreOrdered
<1>2. /\ b \in Batches /\ Cardinality(Made) \in Nat /\ Made = 1 .. Cardinality(Made)
      /\ queue' = [queue EXCEPT ![fsUser] = r]
      /\ stream' = FillWritePipeline(stream, queue'[fsUser])
  BY NewWrite
<1> DEFINE n == Cardinality(Made)
<1>3. \A i \in 1 .. Len(q) : q[i] \in 1 .. n
  <2>1. \A i \in 1 .. Len(q) : q[i] \in Batches /\ answer[q[i]] # "none"
    BY <1>1 DEF IInv, QueuesAreOrdered
  <2>2. \A i \in 1 .. Len(q) : q[i] \in Made
    BY <2>1 DEF Made
  <2> QED
    BY <1>2, <2>2
<1>4. /\ r \in Seq(Batches) /\ Len(q) \in Nat /\ Len(r) = Len(q) + 1 /\ r[Len(q) + 1] = b
      /\ \A i \in 1 .. Len(q) : r[i] = q[i]
  BY <1>1, <1>2, AppendComesLast
<1>5. queue'[fsUser] = r /\ stream' = d
  BY <1>1, <1>2
<1>6. n \in Nat /\ b = n + 1
  BY <1>2
<1> HIDE DEF n, b, r
<1>7. Ascending(r)
  <2> SUFFICES ASSUME NEW i \in 1 .. Len(r), NEW j \in 1 .. Len(r), i < j
               PROVE  r[i] < r[j]
    BY DEF Ascending
  <2>1. i \in 1 .. Len(q) /\ r[i] = q[i]
    BY <1>4
  <2>2. CASE j \in 1 .. Len(q)
    BY <1>1, <1>4, <2>1, <2>2 DEF Ascending
  <2>3. CASE j \notin 1 .. Len(q)
    <3>1. j = Len(q) + 1
      BY <1>4, <2>3
    <3>2. r[j] = n + 1 /\ r[i] \in 1 .. n
      BY <1>3, <1>4, <1>6, <2>1, <3>1
    <3> QED
      BY <1>6, <3>2
  <2> QED
    BY <2>2, <2>3
<1>8. Fits(stream, r)
  BY <1>1, <1>4 DEF Sound, Fits, Streams
<1>9. Sound(stream, r)
  BY <1>1, <1>8 DEF Sound
<1>10. Sound(d, r) /\ Fed(d, r) /\ Proceeds(stream, d) /\ d.done = stream.done
  BY <1>1, <1>4, <1>7, <1>9, FillSound
<1>11. fsUser' = fsUser
  BY DEF RunWrite
<1>12. queue' \in [Signers -> Seq(Batches)] /\ \A u \in Signers : Ascending(queue'[u])
  BY <1>1, <1>2, <1>4, <1>5, <1>7
<1> QED
  BY <1>5, <1>10, <1>11, <1>12 DEF StreamGoesOn, Proceeds

(* The first task is run, and leaves the others. *)
LEMMA TaskRuns ==
  ASSUME Typed, NEW kind, Task(kind)
  PROVE  /\ worker # << >> /\ Head(worker) = worker[1] /\ worker[1].kind = kind
         /\ 1 \in DOMAIN worker /\ worker[1] \in Changes \cup Resumes \cup Writes
         /\ worker' = Tail(worker) /\ worker' \in Seq(Changes \cup Resumes \cup Writes)
         /\ DOMAIN worker = 1 .. Len(worker) /\ DOMAIN worker' = 1 .. Len(worker) - 1
         /\ Len(worker) \in Nat \ {0} /\ Len(worker') = Len(worker) - 1
         /\ \A i \in DOMAIN worker' : i + 1 \in DOMAIN worker /\ worker'[i] = worker[i + 1]
<1> DEFINE T == Changes \cup Resumes \cup Writes
<1>1. worker \in Seq(T) /\ worker # << >> /\ worker' = Tail(worker) /\ Head(worker).kind = kind
  BY DEF Typed, Task
<1> HIDE DEF T
<1>2. /\ Head(worker) = worker[1] /\ worker[1] \in T /\ Tail(worker) \in Seq(T)
      /\ 1 \in DOMAIN worker
      /\ DOMAIN worker = 1 .. Len(worker) /\ DOMAIN Tail(worker) = 1 .. Len(worker) - 1
      /\ Len(worker) \in Nat \ {0} /\ Len(Tail(worker)) = Len(worker) - 1
      /\ \A i \in 1 .. Len(worker) - 1 : Tail(worker)[i] = worker[i + 1] /\ i + 1 \in DOMAIN worker
  BY <1>1, TailMovesUp
<1> QED
  BY <1>1, <1>2 DEF T

LEMMA CredentialStep ==
  ASSUME IInv, HandleCredentialChange
  PROVE  /\ StreamGoesOn /\ Proceeds(stream, stream') /\ stream'.done = 0
         /\ stream'.state # "Open" /\ fsUser' = worker[1].user /\ fsUser' \in Signers
<1>1. /\ Typed /\ Task("change") /\ fsUser' = Head(worker).user
      /\ stream' = RestartNetwork(stream, queue[fsUser']) /\ queue' = queue
  BY DEF IInv, HandleCredentialChange
<1>2. worker[1] \in Changes /\ Head(worker) = worker[1]
  <2>1. /\ worker[1].kind = "change" /\ worker[1] \in Changes \cup Resumes \cup Writes
        /\ Head(worker) = worker[1]
    BY <1>1, TaskRuns
  <2> QED
    BY <2>1 DEF Resumes, Writes
<1>3. fsUser' \in Signers /\ fsUser' = worker[1].user
  BY <1>1, <1>2 DEF Changes
<1>4. queue[fsUser'] \in Seq(Batches) /\ Ascending(queue[fsUser']) /\ counter \in Nat
  BY <1>3 DEF IInv, Typed, QueuesAreOrdered
<1>5. Sound(stream, queue[fsUser])
  BY CurrentQueue
<1>6. /\ Sound(stream', queue[fsUser']) /\ Fed(stream', queue[fsUser'])
      /\ Proceeds(stream, stream') /\ stream'.done = 0
      /\ stream'.state # "Open"
  BY <1>1, <1>4, <1>5, RestartFacts
<1> QED
  BY <1>1, <1>3, <1>6 DEF StreamGoesOn, Proceeds

LEMMA NetworkStep ==
  ASSUME IInv, NetworkChanged
  PROVE  /\ StreamGoesOn /\ Proceeds(stream, stream') /\ stream'.done = 0
<1>1. stream' = RestartNetwork(stream, queue[fsUser]) /\ UNCHANGED <<queue, fsUser>>
  BY DEF NetworkChanged
<1>2. /\ queue[fsUser] \in Seq(Batches) /\ Ascending(queue[fsUser]) /\ counter \in Nat
      /\ Sound(stream, queue[fsUser])
  BY CurrentQueue
<1>3. /\ Sound(stream', queue[fsUser]) /\ Fed(stream', queue[fsUser]) /\ Proceeds(stream, stream') /\ stream'.done = 0
  BY <1>1, <1>2, RestartFacts
<1> QED
  BY <1>1, <1>3 DEF StreamGoesOn, Proceeds

(* What is done when a stream finishes: the blamed write, if any, goes.    *)
LEMMA FinishStep ==
  ASSUME IInv, StreamFinished
  PROVE  /\ StreamGoesOn /\ Proceeds(stream, stream') /\ stream'.done = 0
         /\ \/ ~BlamesFront(stream, stream.status) /\ UNCHANGED <<answer, queue>>
            \/ /\ BlamesFront(stream, stream.status)
               /\ queue' = [queue EXCEPT ![fsUser] = Tail(queue[fsUser])]
               /\ answer' = [answer EXCEPT ![stream.pipeline[1]] = "rejected"]
               /\ stream.pipeline[1] \in Batches /\ queue[fsUser] # << >>
               /\ stream.pipeline[1] = queue[fsUser][1]
<1> DEFINE q == queue[fsUser]
           status == stream.status
           rest == Unblamed(stream, status, q)
<1>1. /\ stream \in Streams /\ Sound(stream, q) /\ q \in Seq(Batches) /\ Ascending(q)
      /\ counter \in Nat /\ Fed(stream, q)
  BY CurrentQueue
<1>2. IsStarted(stream)
  <2>1. stream.status # "ok" \/ stream.failing
    BY DEF StreamFinished
  <2>2. stream.state = "Open"
    BY <1>1, <2>1 DEF Sound
  <2> QED
    BY <2>2 DEF IsStarted
<1>3. /\ Sound(CloseWithError(stream, status, rest), rest)
      /\ Fed(CloseWithError(stream, status, rest), rest)
      /\ Proceeds(stream, CloseWithError(stream, status, rest))
      /\ CloseWithError(stream, status, rest).done = 0
  BY <1>1, <1>2, CloseWithErrorFacts
<1>4. /\ fsUser' = fsUser /\ queue'[fsUser] = rest
      /\ \/ ~BlamesFront(stream, stream.status) /\ UNCHANGED <<answer, queue>>
         \/ /\ BlamesFront(stream, stream.status)
            /\ queue' = [queue EXCEPT ![fsUser] = Tail(queue[fsUser])]
            /\ answer' = [answer EXCEPT ![stream.pipeline[1]] = "rejected"]
            /\ stream.pipeline[1] \in Batches /\ queue[fsUser] # << >>
            /\ stream.pipeline[1] = queue[fsUser][1]
  <2>1. fsUser' = fsUser
    BY DEF StreamFinished
  <2>2. CASE ~BlamesFront(stream, stream.status)
    BY <2>1, <2>2 DEF StreamFinished, Unblamed
  <2>3. CASE BlamesFront(stream, stream.status)
    <3>1. /\ stream.pipeline # << >>
          /\ queue' = [queue EXCEPT ![fsUser] = RemoveFirst(@, stream.pipeline[1])]
          /\ answer' = [answer EXCEPT ![stream.pipeline[1]] = "rejected"]
      BY <2>3 DEF StreamFinished, BlamesFront
    <3>2. /\ stream.pipeline[1] \in Batches /\ queue[fsUser] # << >>
          /\ stream.pipeline[1] = queue[fsUser][1] /\ queue'[fsUser] = Tail(queue[fsUser])
          /\ queue' = [queue EXCEPT ![fsUser] = Tail(queue[fsUser])]
      BY <3>1, QueueFront
    <3> QED
      BY <2>1, <2>3, <3>1, <3>2 DEF Unblamed
  <2> QED
    BY <2>2, <2>3
<1>5. stream' = CloseWithError(stream, status, rest)
  BY <1>4 DEF StreamFinished
<1> QED
  BY <1>3, <1>4, <1>5 DEF StreamGoesOn, Proceeds

(* The backend executes the next write. *)
LEMMA CommitStep ==
  ASSUME IInv, Commit
  PROVE  /\ Sound(stream', queue[fsUser]) /\ Fed(stream', queue[fsUser]) /\ Recalls(stream, stream')
         /\ stream.state = "Open" /\ stream'.state = "Open" /\ stream'.token = stream.token
         /\ stream'.status = stream.status /\ stream'.pipeline = stream.pipeline
         /\ stream'.done = stream.done + 1 /\ stream.done \in Nat
         /\ stream.done + 1 \in 1 .. Len(stream.pipeline)
<1> DEFINE done == stream.done + 1
           d == [stream EXCEPT !.done = done]
<1>1. stream \in Streams /\ Sound(stream, queue[fsUser]) /\ Fed(stream, queue[fsUser])
  BY CurrentQueue
<1>2. /\ stream' = d /\ stream.state = "Open" /\ done <= stream.sent /\ done \in Nat
      /\ stream.done \in Nat /\ done \in 1 .. Len(stream.pipeline) /\ stream.sent > 0
  BY <1>1 DEF Commit, Arrived, IsOpen, Sound, Streams
<1>3. stream.handshake
  BY <1>1, <1>2 DEF Sound
<1> HIDE DEF done
<1>4. /\ d \in Streams /\ d.closes = stream.closes /\ d.state = stream.state
      /\ d.asks = stream.asks /\ d.token = stream.token
      /\ d.done = done /\ d.pipeline = stream.pipeline
      /\ d.status = stream.status /\ d.handshake = stream.handshake
      /\ d.idle = stream.idle /\ d.failed = stream.failed /\ d.failing = stream.failing
      /\ d.sent = stream.sent /\ d.writing = stream.writing
  BY <1>1, <1>2 DEF Streams
<1> HIDE DEF d
<1>5. Sound(d, queue[fsUser])
  BY <1>1, <1>2, <1>3, <1>4 DEF Sound, Fits, Sending, IsStarted
<1>6. Recalls(stream, d)
  BY <1>1, <1>4 DEF Recalls, Streams
<1>7. Fed(d, queue[fsUser])
  BY <1>1, <1>4 DEF Fed, Filled, Needed, IsStarted
<1> QED
  BY <1>2, <1>4, <1>5, <1>6, <1>7 DEF done

(* A token is asked for, or handed out: nothing else of the stream.        *)
LEMMA AsksAside ==
  ASSUME NEW s, NEW q, Sound(s, q), NEW asks \in SUBSET [counter : Nat, closes : Nat]
  PROVE  LET d == [s EXCEPT !.asks = asks] IN
         /\ Sound(d, q) /\ (Fed(s, q) => Fed(d, q)) /\ d.asks = asks /\ d.closes = s.closes /\ d.state = s.state
         /\ d.token = s.token /\ d.done = s.done /\ d.pipeline = s.pipeline
         /\ d.status = s.status
<1> DEFINE d == [s EXCEPT !.asks = asks]
<1>1. s \in Streams
  BY DEF Sound
<1>2. /\ d \in Streams /\ d.closes = s.closes /\ d.state = s.state
      /\ d.asks = asks /\ d.token = s.token
      /\ d.done = s.done /\ d.pipeline = s.pipeline
      /\ d.status = s.status /\ d.handshake = s.handshake
      /\ d.idle = s.idle /\ d.failed = s.failed /\ d.failing = s.failing
      /\ d.sent = s.sent /\ d.writing = s.writing
  BY <1>1 DEF Streams
<1> HIDE DEF d
<1>3. Sound(d, q)
  BY <1>2 DEF Sound, Fits, Sending, IsStarted
<1>4. Fed(s, q) => Fed(d, q)
  BY <1>2 DEF Fed, Filled, Needed, IsStarted
<1> QED
  BY <1>2, <1>3, <1>4 DEF d

(* A token is of no use to a stream that was closed, opens the one that    *)
(* asked for it, or is none, and closes it.                                *)
LEMMA ResumeStep ==
  ASSUME IInv, RunResume
  PROVE  /\ Sound(stream', queue[fsUser]) /\ Fed(stream', queue[fsUser])
         /\ worker[1] \in Resumes /\ worker[1].kind = "resume"
         /\ \/ stream' = stream /\ ~Current(worker[1])
            \/ /\ Current(worker[1]) /\ worker[1].ok
               /\ stream.state = "Starting" /\ stream'.state = "Open"
               /\ stream'.token = worker[1].user /\ stream'.asks = stream.asks
               /\ stream'.closes = stream.closes /\ stream.done = 0 /\ stream'.done = 0
               /\ stream'.status = "ok"
            \/ /\ Proceeds(stream, stream') /\ stream'.done = 0 /\ stream.done = 0
               /\ stream.state = "Starting" /\ Current(worker[1])
               /\ stream'.closes > stream.closes
<1> DEFINE q == queue[fsUser]
           x == worker[1]
<1>1. /\ stream \in Streams /\ Sound(stream, q) /\ q \in Seq(Batches) /\ Ascending(q)
      /\ counter \in Nat /\ stream.failed = FALSE /\ Fed(stream, q)
  BY CurrentQueue DEF Sound
<1>2. /\ Head(worker) = x /\ x.kind = "resume" /\ 1 \in DOMAIN worker
      /\ x \in Changes \cup Resumes \cup Writes
  BY TaskRuns DEF IInv, RunResume
<1>3. x \in Resumes
  BY <1>2 DEF Changes, Writes
<1>4. stream' = ResumeStart(stream, x)
  BY <1>2 DEF RunResume
<1>5. CASE stream.closes # x.closes
  <2>1. stream' = stream /\ ~Current(x)
    BY <1>4, <1>5 DEF ResumeStart, Current
  <2> QED
    BY <1>1, <1>2, <1>3, <2>1
<1>6. CASE stream.closes = x.closes
  <2>1. Current(x)
    BY <1>6 DEF Current
  <2>2. stream.state = "Starting"
    BY <1>2, <2>1 DEF IInv, OneRequest, Resuming
  <2>3. /\ stream.handshake = FALSE /\ stream.done = 0 /\ stream.sent = 0
        /\ stream.writing = FALSE /\ stream.status = "ok" /\ stream.failing = FALSE
        /\ stream.pipeline # << >> /\ stream.idle = FALSE
    BY <1>1, <2>2 DEF Sound, Streams, IsStarted
  <2>4. HardAssert(stream, stream.state = "Starting") = stream
    BY <1>1, <2>2, AssertedHolds
  <2>5. HardAssert(stream, ~stream.handshake) = stream
    BY <1>1, <2>3, AssertedHolds
  <2>6. stream' = IF x.ok THEN [stream EXCEPT !.state = "Open", !.token = x.user]
                  ELSE CloseWithError(stream, "unavailable", q)
    BY <1>4, <1>6, <2>4, <2>5 DEF ResumeStart
  <2>7. CASE x.ok
    <3> DEFINE u == x.user
               d == [stream EXCEPT !.state = "Open", !.token = u]
    <3>1. u \in Signers
      BY <1>3 DEF Resumes
    <3> HIDE DEF u
    <3>2. /\ d \in Streams /\ d.closes = stream.closes /\ d.state = "Open"
          /\ d.asks = stream.asks /\ d.token = u
          /\ d.done = stream.done /\ d.pipeline = stream.pipeline
          /\ d.status = stream.status /\ d.handshake = stream.handshake
          /\ d.idle = stream.idle /\ d.failed = stream.failed /\ d.failing = stream.failing
          /\ d.sent = stream.sent /\ d.writing = stream.writing
      BY <1>1, <3>1 DEF Streams
    <3>3. stream' = d
      BY <2>6, <2>7 DEF u
    <3> HIDE DEF d
    <3>4. Sound(d, q) /\ Fed(d, q)
      <4>1. Sending(d)
        BY <2>3, <3>2 DEF Sending
      <4>2. Fed(d, q)
        BY <1>1, <3>2 DEF Fed, Filled, Needed, IsStarted
      <4> QED
        BY <1>1, <2>3, <3>2, <4>1, <4>2 DEF Sound, Fits
    <3> QED
      BY <1>2, <1>3, <2>1, <2>2, <2>3, <2>7, <3>2, <3>3, <3>4 DEF u
  <2>8. CASE ~x.ok
    <3>1. Unblamed(stream, "unavailable", q) = q
      BY DEF Unblamed, BlamesFront
    <3>2. stream' = CloseWithError(stream, "unavailable", q) /\ IsStarted(stream)
      BY <2>2, <2>6, <2>8 DEF IsStarted
    <3>3. /\ Sound(stream', q) /\ Fed(stream', q) /\ Proceeds(stream, stream') /\ stream'.done = 0
          /\ stream'.closes > stream.closes
      BY <1>1, <2>2, <3>1, <3>2, CloseWithErrorFacts
    <3> QED
      BY <1>2, <1>3, <2>1, <2>2, <2>3, <3>3
  <2> QED
    BY <2>7, <2>8
<1> QED
  BY <1>5, <1>6

(* Steps of the stream, the timers and the network that leave all else     *)
(* alone.                                                                  *)
StreamAlone ==
  \/ HandshakeAnswered \/ Written \/ WriteFailed \/ Refuse
  \/ BackoffElapsed \/ IdleTimeout \/ NetworkChanged \/ ConnectionLost

LEMMA StreamAloneFacts ==
  ASSUME IInv, StreamAlone
  PROVE  /\ StreamGoesOn
         /\ UNCHANGED <<authVars, main, counter, worker, fsUser, queue, answer, history>>
         /\ Unheard(stream, stream') \/ (stream'.token = stream.token /\ stream.token \in Signers
                                         /\ Next1 \in Refused)
         /\ failures' \in 0 .. MaxFailures
         /\ stream'.done = stream.done \/ stream'.done = 0
<1>1. UNCHANGED <<authVars, main, counter, worker, fsUser, queue, answer, history>>
  BY DEF StreamAlone, HandshakeAnswered, Written, WriteFailed, Refuse, BackoffElapsed,
         IdleTimeout, NetworkChanged, ConnectionLost, authVars, history
<1>2. failures' \in 0 .. MaxFailures
  <2>1. failures \in 0 .. MaxFailures /\ MaxFailures \in Nat
    BY StreamAssumption DEF IInv, Typed, StreamAssumption
  <2>2. CASE HandshakeAnswered \/ Written \/ WriteFailed \/ Refuse \/ BackoffElapsed \/ IdleTimeout
    BY <2>1, <2>2, Zenon DEF HandshakeAnswered, Written, WriteFailed, Refuse, BackoffElapsed,
                             IdleTimeout
  <2>3. CASE NetworkChanged \/ ConnectionLost
    <3>1. failures < MaxFailures /\ failures' = failures + 1
      BY <2>3 DEF NetworkChanged, ConnectionLost
    <3> QED
      BY <2>1, <3>1
  <2> QED
    BY <2>2, <2>3 DEF StreamAlone
<1>3. CASE HandshakeAnswered \/ Written \/ WriteFailed \/ BackoffElapsed
  BY <1>1, <1>2, <1>3, HandshakeStep, WrittenStep, WriteFailedStep, BackoffStep
  DEF StreamGoesOn, Proceeds
<1>4. CASE IdleTimeout \/ NetworkChanged
  BY <1>1, <1>2, <1>4, IdleStep, NetworkStep DEF StreamGoesOn, Proceeds
<1>5. CASE Refuse \/ ConnectionLost
  <2>1. /\ stream.state = "Open" /\ Sound(stream, queue[fsUser]) /\ stream \in Streams
        /\ Fed(stream, queue[fsUser])
    BY <1>5, CurrentQueue DEF Refuse, Arrived, ConnectionLost, IsOpen
  <2>2. CASE Refuse
    <3>1. stream' = [stream EXCEPT !.status = "denied"] /\ Next1 \in Refused
      BY <2>2 DEF Refuse
    <3>2. /\ Sound(stream', queue[fsUser]) /\ Recalls(stream, stream') /\ Keeps(stream, stream')
          /\ stream'.done = stream.done /\ stream'.token = stream.token /\ Fed(stream', queue[fsUser])
      BY <2>1, <3>1, StatusStep
    <3>3. stream.token \in Signers
      BY <2>1 DEF Streams
    <3>4. StreamGoesOn
      BY <1>1, <3>2 DEF StreamGoesOn
    <3> QED
      BY <1>1, <1>2, <3>1, <3>2, <3>3, <3>4
  <2>3. CASE ConnectionLost
    <3>1. stream' = [stream EXCEPT !.status = "unavailable"]
      BY <2>3 DEF ConnectionLost
    <3>2. /\ Sound(stream', queue[fsUser]) /\ Recalls(stream, stream') /\ Keeps(stream, stream')
          /\ stream'.done = stream.done /\ stream'.status = "unavailable"
          /\ Fed(stream', queue[fsUser])
      BY <2>1, <3>1, StatusStep
    <3> QED
      BY <1>1, <1>2, <3>2 DEF StreamGoesOn, Unheard
  <2> QED
    BY <1>5, <2>2, <2>3
<1> QED
  BY <1>3, <1>4, <1>5 DEF StreamAlone

LEMMA NextCases ==
  ASSUME Next
  PROVE  \/ StreamAlone \/ Commit \/ MutationResult \/ StreamFinished
         \/ RunWrite \/ HandleCredentialChange \/ RunResume
         \/ \E a \in stream.asks : TakeToken(a)
         \/ \E f \in fetching : TokenFetched(f)
         \/ \E f \in fetching : TokenFailed(f)
         \/ RunNotice \/ RunToken \/ AppWrite
         \/ \E u \in Signers : UpdateCurrentUser(u)
BY DEF Next, Auth, MainThread, Worker, Grpc, StreamAlone

(* What RunToken does when a notice was run after the token was asked for, *)
(* and when not.                                                           *)
LEMMA TokenRuns ==
  ASSUME IInv, RunToken
  PROVE  LET x == main[1] IN
         /\ main # << >> /\ x \in Tokens /\ x.kind = "token" /\ main' = Tail(main)
         /\ main' \in Seq(Notices \cup Tokens)
         /\ 1 \in DOMAIN main /\ Len(main) \in Nat \ {0}
         /\ DOMAIN main' = 1 .. Len(main) - 1 /\ DOMAIN main = 1 .. Len(main)
         /\ \A i \in DOMAIN main' : i + 1 \in DOMAIN main /\ main'[i] = main[i + 1]
         /\ Sound(stream', queue[fsUser]) /\ Fed(stream', queue[fsUser])
         /\ stream'.closes = stream.closes /\ stream'.state = stream.state
         /\ stream'.token = stream.token /\ stream'.done = stream.done
         /\ stream'.pipeline = stream.pipeline /\ stream'.status = stream.status
         /\ \/ /\ x.counter # counter /\ worker' = worker
               /\ stream'.asks = stream.asks \cup {[counter |-> counter, closes |-> x.closes]}
            \/ /\ x.counter = counter /\ stream' = stream /\ worker' = Append(worker, Resume(x))
               /\ Resume(x) \in Resumes /\ Resume(x).kind = "resume"
               /\ Resume(x).closes = x.closes /\ Resume(x).user = x.user /\ Resume(x).ok = x.ok
<1> DEFINE x == main[1]
           asks == stream.asks \cup {[counter |-> counter, closes |-> x.closes]}
<1>1. main \in Seq(Notices \cup Tokens) /\ main # << >> /\ main' = Tail(main) /\ Head(main).kind = "token"
  BY DEF IInv, Typed, RunToken
<1>2. /\ Head(main) = x /\ x \in Notices \cup Tokens /\ main' \in Seq(Notices \cup Tokens)
      /\ 1 \in DOMAIN main /\ Len(main) \in Nat \ {0}
      /\ DOMAIN main' = 1 .. Len(main) - 1 /\ DOMAIN main = 1 .. Len(main)
      /\ \A i \in DOMAIN main' : i + 1 \in DOMAIN main /\ main'[i] = main[i + 1]
  BY <1>1, TailMovesUp
<1>3. x \in Tokens /\ x.kind = "token"
  BY <1>1, <1>2 DEF Notices
<1>4. /\ stream \in Streams /\ Sound(stream, queue[fsUser]) /\ counter \in Nat
      /\ Fed(stream, queue[fsUser])
  BY CurrentQueue
<1>5. asks \in SUBSET [counter : Nat, closes : Nat]
  BY <1>3, <1>4 DEF Streams, Tokens
<1>6. \/ /\ x.counter # counter /\ worker' = worker
         /\ stream' = [stream EXCEPT !.asks = asks]
      \/ x.counter = counter /\ stream' = stream /\ worker' = Append(worker, Resume(x))
  BY <1>2 DEF RunToken
<1>7. /\ Resume(x) \in Resumes /\ Resume(x).kind = "resume"
      /\ Resume(x).closes = x.closes /\ Resume(x).user = x.user /\ Resume(x).ok = x.ok
  BY <1>3 DEF Resume, Resumes, Tokens
<1> HIDE DEF asks
<1>8. CASE stream' = [stream EXCEPT !.asks = asks]
  <2>1. /\ Sound(stream', queue[fsUser]) /\ Fed(stream', queue[fsUser]) /\ stream'.closes = stream.closes
        /\ stream'.state = stream.state /\ stream'.token = stream.token
        /\ stream'.done = stream.done /\ stream'.pipeline = stream.pipeline
        /\ stream'.status = stream.status /\ stream'.asks = asks
    BY <1>4, <1>5, <1>8, AsksAside
  <2>2. \/ x.counter # counter /\ worker' = worker
        \/ x.counter = counter /\ stream' = stream /\ worker' = Append(worker, Resume(x))
    BY <1>6
  <2> QED
    BY <1>1, <1>2, <1>3, <1>7, <2>1, <2>2 DEF asks
<1>9. CASE stream' = stream /\ ~(stream' = [stream EXCEPT !.asks = asks])
  BY <1>1, <1>2, <1>3, <1>4, <1>6, <1>7, <1>9
<1> QED
  BY <1>6, <1>8, <1>9

(* What was asked for is handed out, and made a token of.                  *)
LEMMA TakeFacts ==
  ASSUME IInv, NEW a \in stream.asks, TakeToken(a)
  PROVE  LET x == Token(a, authUser, TRUE) IN
         /\ Sound(stream', queue[fsUser]) /\ Fed(stream', queue[fsUser]) /\ stream'.asks = stream.asks \ {a}
         /\ stream'.closes = stream.closes /\ stream'.state = stream.state
         /\ stream'.token = stream.token /\ stream'.done = stream.done
         /\ stream'.pipeline = stream.pipeline /\ stream'.status = stream.status
         /\ x \in Tokens /\ x.kind = "token" /\ x.closes = a.closes /\ x.counter = a.counter
         /\ x.user = authUser /\ x.ok
         /\ \/ main' = Append(main, x) /\ fetching' = fetching
            \/ main' = main /\ fetching' = fetching \cup {x} /\ NoticesMade < MaxNotices
<1> DEFINE x == Token(a, authUser, TRUE)
           asks == stream.asks \ {a}
<1>1. stream \in Streams /\ Sound(stream, queue[fsUser]) /\ Fed(stream, queue[fsUser]) /\ authUser \in Signers
  BY CurrentQueue DEF IInv, Typed
<1>2. a \in [counter : Nat, closes : Nat] /\ asks \in SUBSET [counter : Nat, closes : Nat]
  BY <1>1 DEF Streams
<1>3. /\ x \in Tokens /\ x.kind = "token" /\ x.closes = a.closes /\ x.counter = a.counter
      /\ x.user = authUser /\ x.ok
  BY <1>1, <1>2 DEF Token, Tokens
<1> HIDE DEF x
<1>4. \/ main' = Append(main, x) /\ fetching' = fetching
      \/ main' = main /\ fetching' = fetching \cup {x} /\ NoticesMade < MaxNotices
  BY DEF TakeToken, x
<1>5. stream' = [stream EXCEPT !.asks = asks]
  BY DEF TakeToken
<1> HIDE DEF asks
<1>6. /\ Sound(stream', queue[fsUser]) /\ Fed(stream', queue[fsUser]) /\ stream'.closes = stream.closes
      /\ stream'.state = stream.state /\ stream'.token = stream.token
      /\ stream'.done = stream.done /\ stream'.pipeline = stream.pipeline
      /\ stream'.status = stream.status /\ stream'.asks = asks
  BY <1>1, <1>2, <1>5, AsksAside
<1> QED
  BY <1>3, <1>4, <1>6 DEF x, asks

-----------------------------------------------------------------------------
(* Requests for tokens. *)

(* The blocks of a kind are some of those there were, k places further up. *)
MovedUp(kind, r, q, k) ==
  \A i \in DOMAIN r : r[i].kind = kind => i + k \in DOMAIN q /\ r[i] = q[i + k]

(* What is asked by asks, waits for the network in f, and is answered on   *)
(* the threads m and w is of streams closed since.                         *)
NoneCurrent(closes) ==
  /\ \A a \in stream.asks : a.closes # closes
  /\ \A f \in fetching : f.closes # closes
  /\ \A i \in DOMAIN main : main[i].kind = "token" => main[i].closes # closes
  /\ \A i \in DOMAIN worker : worker[i].kind = "resume" => worker[i].closes # closes

LEMMA RequestsTyped ==
  ASSUME Typed, stream \in Streams
  PROVE  /\ stream.closes \in Nat /\ counter \in Nat
         /\ \A a \in stream.asks : a.closes \in Nat /\ a.counter \in Nat
         /\ \A f \in fetching : f.closes \in Nat /\ f.counter \in Nat /\ f \in Tokens
         /\ DOMAIN main = 1 .. Len(main) /\ Len(main) \in Nat
         /\ DOMAIN worker = 1 .. Len(worker) /\ Len(worker) \in Nat
         /\ \A i \in DOMAIN main : main[i].kind = "token" =>
              main[i].closes \in Nat /\ main[i].counter \in Nat /\ main[i] \in Tokens
         /\ \A i \in DOMAIN main : main[i].kind # "notice" => main[i].kind = "token"
         /\ \A i \in DOMAIN worker : worker[i].kind = "resume" =>
              worker[i].closes \in Nat /\ worker[i] \in Resumes
<1>1. \A a \in stream.asks : a.closes \in Nat /\ a.counter \in Nat
  BY DEF Streams
<1>2. \A i \in DOMAIN main : main[i] \in Notices \cup Tokens
  BY DEF Typed
<1>3. \A i \in DOMAIN worker : worker[i] \in Changes \cup Resumes \cup Writes
  BY DEF Typed
<1>4. \A f \in Tokens : f.closes \in Nat /\ f.counter \in Nat /\ f.kind = "token"
  BY DEF Tokens
<1>5. \A x \in Notices \cup Tokens :
        /\ x.kind = "token" => x \in Tokens
        /\ x.kind # "notice" => x.kind = "token"
  BY DEF Notices, Tokens
<1>6. \A x \in Changes \cup Resumes \cup Writes :
        x.kind = "resume" => x.closes \in Nat /\ x \in Resumes
  BY DEF Changes, Resumes, Writes
<1>7. stream.closes \in Nat /\ counter \in Nat
  BY DEF Typed, Streams
<1>8. /\ DOMAIN main = 1 .. Len(main) /\ Len(main) \in Nat
      /\ DOMAIN worker = 1 .. Len(worker) /\ Len(worker) \in Nat
  BY DEF Typed
<1>9. \A f \in fetching : f \in Tokens
  BY DEF Typed
<1> QED
  BY <1>1, <1>2, <1>3, <1>4, <1>5, <1>6, <1>7, <1>8, <1>9

(* A step that makes no current request, and keeps the stream.             *)
LEMMA CurrentStay ==
  ASSUME OneRequest, NEW c, c = stream.closes, stream'.closes = c, stream'.state = stream.state,
         \A a \in stream'.asks : a.closes = c => a \in stream.asks,
         \A f \in fetching' : f.closes = c => f \in fetching,
         \A i \in DOMAIN main' : i \in Nat, \A i \in DOMAIN worker' : i \in Nat,
         NEW k \in Nat,
         \A i \in DOMAIN main' : main'[i].kind = "token" /\ main'[i].closes = c
           => i + k \in DOMAIN main /\ main'[i] = main[i + k],
         NEW m \in Nat,
         \A i \in DOMAIN worker' : worker'[i].kind = "resume" /\ worker'[i].closes = c
           => i + m \in DOMAIN worker /\ worker'[i] = worker[i + m]
  PROVE  OneRequest'
<1>1. /\ Asking' => Asking
      /\ Fetching' => Fetching
  BY DEF Asking, Fetching, Current
<1>2. Answered' => Answered
  BY DEF Answered, Current
<1>3. Resuming' => Resuming
  BY DEF Resuming, Current
<1>4. \A a, b \in stream'.asks : a.closes = c /\ b.closes = c => a = b
  BY DEF OneRequest, Current
<1>5. \A f, g \in fetching' : f.closes = c /\ g.closes = c => f = g
  BY DEF OneRequest, Current
<1>6. \A i, j \in DOMAIN main' :
        /\ main'[i].kind = "token" /\ main'[i].closes = c
        /\ main'[j].kind = "token" /\ main'[j].closes = c
        => i = j
  <2> SUFFICES ASSUME NEW i \in DOMAIN main', NEW j \in DOMAIN main',
                      main'[i].kind = "token", main'[i].closes = c,
                      main'[j].kind = "token", main'[j].closes = c
               PROVE  i = j
    OBVIOUS
  <2>1. /\ i + k \in DOMAIN main /\ main'[i] = main[i + k]
        /\ j + k \in DOMAIN main /\ main'[j] = main[j + k]
    OBVIOUS
  <2>2. i + k = j + k
    BY <2>1 DEF OneRequest, Current
  <2> QED
    BY <2>2
<1>7. \A i, j \in DOMAIN worker' :
        /\ worker'[i].kind = "resume" /\ worker'[i].closes = c
        /\ worker'[j].kind = "resume" /\ worker'[j].closes = c
        => i = j
  <2> SUFFICES ASSUME NEW i \in DOMAIN worker', NEW j \in DOMAIN worker',
                      worker'[i].kind = "resume", worker'[i].closes = c,
                      worker'[j].kind = "resume", worker'[j].closes = c
               PROVE  i = j
    OBVIOUS
  <2>1. /\ i + m \in DOMAIN worker /\ worker'[i] = worker[i + m]
        /\ j + m \in DOMAIN worker /\ worker'[j] = worker[j + m]
    OBVIOUS
  <2>2. i + m = j + m
    BY <2>1 DEF OneRequest, Current
  <2> QED
    BY <2>2
<1>8. Asking \/ Fetching \/ Answered \/ Resuming => stream'.state = "Starting"
  BY DEF OneRequest
<1>9. /\ ~(Asking /\ Fetching) /\ ~(Asking /\ Answered) /\ ~(Asking /\ Resuming)
      /\ ~(Fetching /\ Answered) /\ ~(Fetching /\ Resuming) /\ ~(Answered /\ Resuming)
  BY DEF OneRequest
<1>10. /\ ~(Asking' /\ Fetching') /\ ~(Asking' /\ Answered') /\ ~(Asking' /\ Resuming')
       /\ ~(Fetching' /\ Answered') /\ ~(Fetching' /\ Resuming') /\ ~(Answered' /\ Resuming')
       /\ Asking' \/ Fetching' \/ Answered' \/ Resuming' => stream'.state = "Starting"
  BY <1>1, <1>2, <1>3, <1>8, <1>9
<1> QED
  BY <1>4, <1>5, <1>6, <1>7, <1>10 DEF OneRequest, Current

LEMMA RequestsStay ==
  ASSUME Typed, Typed', RequestsAreOld, OneRequest, stream \in Streams, stream' \in Streams,
         Recalls(stream, stream'), counter <= counter', fetching' \subseteq fetching,
         NEW k \in Nat, MovedUp("token", main', main, k),
         NEW m \in Nat, MovedUp("resume", worker', worker, m)
  PROVE  RequestsAreOld' /\ OneRequest'
<1> DEFINE c == stream'.closes
           new == [counter |-> counter, closes |-> c]
<1>1. /\ stream.closes \in Nat /\ c \in Nat /\ stream.closes <= c
      /\ counter \in Nat /\ counter' \in Nat
      /\ \A i \in DOMAIN main' : i \in Nat
      /\ \A i \in DOMAIN worker' : i \in Nat
  <2>1. main' \in Seq(Notices \cup Tokens) /\ worker' \in Seq(Changes \cup Resumes \cup Writes)
    BY DEF Typed
  <2>2. DOMAIN main' = 1 .. Len(main') /\ DOMAIN worker' = 1 .. Len(worker')
    BY <2>1
  <2>3. (\A i \in DOMAIN main' : i \in Nat) /\ (\A i \in DOMAIN worker' : i \in Nat)
    BY <2>2
  <2>4. stream.closes \in Nat /\ counter \in Nat /\ counter' \in Nat
    BY RequestsTyped DEF Typed
  <2>5. c \in Nat /\ stream.closes <= c
    BY <2>4 DEF Recalls, Streams
  <2> QED
    BY <2>3, <2>4, <2>5
<1>2. /\ stream'.asks = stream.asks \/ stream'.asks = stream.asks \cup {new}
      /\ new.closes = c /\ new.counter = counter
  BY DEF Recalls
<1>3. \A a \in stream'.asks : a.closes <= c /\ a.counter <= counter'
  <2>1. \A a \in stream.asks : a.closes <= c /\ a.counter <= counter'
    BY <1>1, RequestsTyped DEF RequestsAreOld
  <2> QED
    BY <1>1, <1>2, <2>1
<1>4. \A f \in fetching' : f.closes <= c /\ f.counter <= counter'
  BY <1>1, RequestsTyped DEF RequestsAreOld
<1>5. \A i \in DOMAIN main' : main'[i].kind = "token" =>
        main'[i].closes <= c /\ main'[i].counter <= counter'
  BY <1>1, RequestsTyped DEF RequestsAreOld, MovedUp
<1>6. \A i \in DOMAIN worker' : worker'[i].kind = "resume" => worker'[i].closes <= c
  BY <1>1, RequestsTyped DEF RequestsAreOld, MovedUp
<1>7. RequestsAreOld'
  BY <1>3, <1>4, <1>5, <1>6 DEF RequestsAreOld
<1>8. \/ NoneCurrent(c) /\ (stream'.asks = stream.asks \/ stream'.state = "Starting")
      \/ stream'.asks = stream.asks /\ c = stream.closes /\ stream'.state = stream.state
  <2>1. stream.closes < c \/ stream.state # "Starting" => NoneCurrent(c)
    <3>1. CASE stream.closes < c
      BY <1>1, <3>1, RequestsTyped DEF RequestsAreOld, NoneCurrent
    <3>2. CASE stream.closes = c /\ stream.state # "Starting"
      <4>1. ~Asking /\ ~Fetching /\ ~Answered /\ ~Resuming
        BY <3>2 DEF OneRequest
      <4> QED
        BY <3>2, <4>1 DEF Asking, Fetching, Answered, Resuming, Current, NoneCurrent
    <3> QED
      BY <1>1, <3>1, <3>2
  <2> QED
    BY <1>1, <2>1 DEF Recalls
<1>9. CASE NoneCurrent(c) /\ (stream'.asks = stream.asks \/ stream'.state = "Starting")
  <2>1. ~Fetching' /\ ~Answered' /\ ~Resuming'
    BY <1>9 DEF Fetching, Answered, Resuming, Current, NoneCurrent, MovedUp
  <2>2. Asking' => stream'.state = "Starting"
    BY <1>2, <1>9 DEF Asking, Current, NoneCurrent
  <2>3. \A a \in stream'.asks : a.closes = c => a = new
    BY <1>2, <1>9 DEF NoneCurrent
  <2> QED
    BY <1>7, <2>1, <2>2, <2>3 DEF OneRequest, Fetching, Answered, Resuming, Current
<1>10. CASE stream'.asks = stream.asks /\ c = stream.closes /\ stream'.state = stream.state
  <2>1. OneRequest'
    BY <1>1, <1>10, CurrentStay DEF MovedUp
  <2> QED
    BY <1>7, <2>1
<1> QED
  BY <1>8, <1>9, <1>10

-----------------------------------------------------------------------------
(* Every variable in its range. *)

LEMMA NothingTyped ==
  ASSUME IInv, UNCHANGED vars
  PROVE  Typed'
BY DEF IInv, Typed, vars

LEMMA GrpcTyped ==
  ASSUME IInv, StreamAlone \/ Commit \/ MutationResult \/ StreamFinished
  PROVE  Typed'
<1>0. Typed
  BY DEF IInv
<1>1. CASE StreamAlone
  <2>1. /\ UNCHANGED <<authVars, main, counter, worker, fsUser, queue, answer, history>>
        /\ failures' \in 0 .. MaxFailures
    BY <1>1, StreamAloneFacts
  <2> QED
    BY <1>0, <2>1 DEF Typed, authVars, history
<1>2. CASE Commit
  <2>1. /\ committed' = committed \cup {Next1} /\ UNCHANGED <<authVars, main, counter, worker,
             fsUser, queue, answer, owner, failures>>
    BY <1>2 DEF Commit
  <2>2. Next1 \in Signers \X Batches
    <3>1. stream.done + 1 \in 1 .. Len(stream.pipeline) /\ stream \in Streams
      BY <1>2, CommitStep, CurrentQueue
    <3> QED
      BY <3>1 DEF Next1, Streams
  <2> QED
    BY <1>0, <2>1, <2>2 DEF Typed, authVars
<1>3. CASE MutationResult
  <2> DEFINE b == stream.pipeline[1]
  <2>1. /\ queue' = [queue EXCEPT ![fsUser] = RemoveFirst(@, b)]
        /\ answer' = [answer EXCEPT ![b] = "acknowledged"]
        /\ UNCHANGED <<authVars, main, counter, worker, fsUser, history, failures>>
    BY <1>3 DEF MutationResult
  <2>2. b \in Batches /\ queue' \in [Signers -> Seq(Batches)]
    BY <1>3, <2>1, AnswerStep, QueueFront
  <2>3. answer' \in [Batches -> {"none", "waiting", "acknowledged", "rejected"}]
    BY <1>0, <2>1, <2>2 DEF Typed
  <2> QED
    BY <1>0, <2>1, <2>2, <2>3 DEF Typed, authVars, history
<1>4. CASE StreamFinished
  <2> DEFINE b == stream.pipeline[1]
  <2>1. UNCHANGED <<authVars, main, counter, worker, fsUser, history, failures>>
    BY <1>4 DEF StreamFinished
  <2>2. /\ answer' \in [Batches -> {"none", "waiting", "acknowledged", "rejected"}]
        /\ queue' \in [Signers -> Seq(Batches)]
    <3>1. CASE UNCHANGED <<answer, queue>>
      BY <1>0, <3>1 DEF Typed
    <3>2. CASE /\ queue' = [queue EXCEPT ![fsUser] = Tail(queue[fsUser])]
               /\ answer' = [answer EXCEPT ![b] = "rejected"]
               /\ b \in Batches /\ queue[fsUser] # << >>
      <4>1. Tail(queue[fsUser]) \in Seq(Batches) /\ queue \in [Signers -> Seq(Batches)]
        BY <3>2, CurrentQueue, TailMovesUp DEF IInv, Typed
      <4> QED
        BY <1>0, <3>2, <4>1 DEF Typed
    <3> QED
      BY <1>4, <3>1, <3>2, FinishStep
  <2> QED
    BY <1>0, <2>1, <2>2 DEF Typed, authVars, history
<1> QED
  BY <1>1, <1>2, <1>3, <1>4

LEMMA WorkerTyped ==
  ASSUME IInv, RunWrite \/ HandleCredentialChange \/ RunResume
  PROVE  Typed'
<1>0. Typed
  BY DEF IInv
<1>1. worker' \in Seq(Changes \cup Resumes \cup Writes)
  BY <1>0, TaskRuns DEF RunWrite, HandleCredentialChange, RunResume
<1>2. CASE RunWrite
  <2> DEFINE b == 1 + Cardinality(Made)
  <2>1. /\ b \in Batches /\ answer' = [answer EXCEPT ![b] = "waiting"]
        /\ owner' = [owner EXCEPT ![b] = fsUser] /\ queue' \in [Signers -> Seq(Batches)]
        /\ UNCHANGED <<authVars, main, counter, fsUser, committed, failures>>
    BY <1>2, NewWrite, WriteStep DEF RunWrite
  <2> HIDE DEF b
  <2> QED
    BY <1>0, <1>1, <2>1 DEF Typed, authVars
<1>3. CASE HandleCredentialChange
  <2>1. /\ fsUser' \in Signers
        /\ UNCHANGED <<authVars, main, counter, queue, answer, history, failures>>
    BY <1>3, CredentialStep DEF HandleCredentialChange
  <2> QED
    BY <1>0, <1>1, <2>1 DEF Typed, authVars, history
<1>4. CASE RunResume
  <2>1. UNCHANGED <<authVars, main, counter, fsUser, queue, answer, history, failures>>
    BY <1>4 DEF RunResume
  <2> QED
    BY <1>0, <1>1, <2>1 DEF Typed, authVars, history
<1> QED
  BY <1>2, <1>3, <1>4

(* The notice first in main, when it is run. *)
LEMMA NoticeRuns ==
  ASSUME Typed, RunNotice
  PROVE  LET x == main[1] IN
         /\ main # << >> /\ x \in Notices /\ x.kind = "notice" /\ main' = Tail(main)
         /\ main' \in Seq(Notices \cup Tokens)
         /\ 1 \in DOMAIN main /\ Len(main) \in Nat \ {0} /\ Len(main') = Len(main) - 1
         /\ DOMAIN main' = 1 .. Len(main) - 1 /\ DOMAIN main = 1 .. Len(main)
         /\ \A i \in DOMAIN main' : i + 1 \in DOMAIN main /\ main'[i] = main[i + 1]
         /\ worker' = Append(worker, Change(x.user)) /\ counter' = counter + 1
         /\ Change(x.user) \in Changes /\ Change(x.user).kind = "change"
         /\ Change(x.user).user = x.user
<1> DEFINE x == main[1]
<1>1. main \in Seq(Notices \cup Tokens) /\ main # << >> /\ main' = Tail(main) /\ Head(main).kind = "notice"
  BY DEF Typed, RunNotice
<1>2. /\ Head(main) = x /\ x \in Notices \cup Tokens /\ main' \in Seq(Notices \cup Tokens)
      /\ 1 \in DOMAIN main /\ Len(main) \in Nat \ {0} /\ Len(main') = Len(main) - 1
      /\ DOMAIN main' = 1 .. Len(main) - 1 /\ DOMAIN main = 1 .. Len(main)
      /\ \A i \in DOMAIN main' : i + 1 \in DOMAIN main /\ main'[i] = main[i + 1]
  BY <1>1, TailMovesUp
<1>3. x \in Notices /\ x.kind = "notice"
  BY <1>1, <1>2 DEF Tokens
<1>4. /\ Change(x.user) \in Changes /\ Change(x.user).kind = "change"
      /\ Change(x.user).user = x.user
  BY <1>3 DEF Change, Changes, Notices
<1>5. worker' = Append(worker, Change(x.user)) /\ counter' = counter + 1
  BY <1>2 DEF RunNotice
<1> QED
  BY <1>1, <1>2, <1>3, <1>4, <1>5

LEMMA NoticeFacts ==
  ASSUME NEW u \in Signers
  PROVE  Notice(u) \in Notices /\ Notice(u).kind = "notice" /\ Notice(u).user = u
BY DEF Notice, Notices

LEMMA FailedToken ==
  ASSUME NEW f \in Tokens
  PROVE  LET g == [f EXCEPT !.ok = FALSE] IN
         /\ g \in Tokens /\ g.kind = "token" /\ g.closes = f.closes /\ g.counter = f.counter
         /\ g.user = f.user /\ g.ok = FALSE
BY DEF Tokens

LEMMA OthersTyped ==
  ASSUME IInv,
         \/ \E a \in stream.asks : TakeToken(a)
         \/ \E f \in fetching : TokenFetched(f)
         \/ \E f \in fetching : TokenFailed(f)
         \/ RunNotice \/ RunToken \/ AppWrite
         \/ \E u \in Signers : UpdateCurrentUser(u)
  PROVE  Typed'
<1> DEFINE M == Notices \cup Tokens
           W == Changes \cup Resumes \cup Writes
<1>1. /\ Typed /\ main \in Seq(M) /\ worker \in Seq(W) /\ fetching \in SUBSET Tokens
      /\ IsFiniteSet(fetching) /\ authUser \in Signers
  BY DEF IInv, Typed
<1>2. ASSUME NEW a \in stream.asks, TakeToken(a) PROVE Typed'
  <2> DEFINE x == Token(a, authUser, TRUE)
  <2>1. /\ x \in Tokens
        /\ \/ main' = Append(main, x) /\ fetching' = fetching
           \/ main' = main /\ fetching' = fetching \cup {x}
    BY <1>2, TakeFacts
  <2>2. UNCHANGED <<authUser, counter, worker, fsUser, queue, answer, history, failures>>
    BY <1>2 DEF TakeToken
  <2> HIDE DEF x
  <2>3. fetching' \in SUBSET Tokens /\ IsFiniteSet(fetching')
    BY <1>1, <2>1, FS_AddElement
  <2>4. main' \in Seq(M)
    BY <1>1, <2>1, AppendComesLast
  <2> QED
    BY <1>1, <2>2, <2>3, <2>4 DEF Typed, history
<1>3. ASSUME NEW f \in fetching, TokenFetched(f) \/ TokenFailed(f) PROVE Typed'
  <2>1. f \in Tokens /\ fetching' = fetching \ {f}
    BY <1>1, <1>3 DEF TokenFetched, TokenFailed
  <2>2. fetching' \in SUBSET Tokens /\ IsFiniteSet(fetching')
    BY <1>1, <2>1, FS_RemoveElement
  <2>3. CASE TokenFetched(f)
    <3>1. f.user \in Signers
      BY <2>1 DEF Tokens
    <3>2. \/ main' = Append(main, f)
          \/ main' = main \o <<Notice(f.user), f>>
      BY <2>3 DEF TokenFetched
    <3>3. f \in M /\ Notice(f.user) \in M
      BY <2>1, <3>1, NoticeFacts
    <3>4. main' \in Seq(M)
      <4> HIDE DEF M
      <4>1. Append(main, f) \in Seq(M)
        BY <1>1, <3>3, AppendComesLast
      <4>2. <<Notice(f.user), f>> \in Seq(M)
        BY <3>3
      <4>3. main \o <<Notice(f.user), f>> \in Seq(M)
        BY <1>1, <4>2, Concatenated
      <4> QED
        BY <3>2, <4>1, <4>3
    <3>5. UNCHANGED <<authUser, counter, worker, fsUser, queue, answer, history, failures>>
      BY <2>3 DEF TokenFetched
    <3> QED
      BY <1>1, <2>2, <3>4, <3>5 DEF Typed, history
  <2>4. CASE TokenFailed(f)
    <3>1. main' = Append(main, [f EXCEPT !.ok = FALSE]) /\ [f EXCEPT !.ok = FALSE] \in M
      BY <2>1, <2>4, FailedToken DEF TokenFailed
    <3>2. main' \in Seq(M)
      BY <1>1, <3>1, AppendComesLast
    <3>3. UNCHANGED <<authUser, counter, worker, fsUser, queue, answer, history>>
      BY <2>4 DEF TokenFailed
    <3>4. failures' \in 0 .. MaxFailures
      <4>1. failures \in 0 .. MaxFailures /\ MaxFailures \in Nat
        BY <1>1, StreamAssumption DEF Typed, StreamAssumption
      <4> QED
        BY <2>4, <4>1 DEF TokenFailed
    <3> QED
      BY <1>1, <2>2, <3>2, <3>3, <3>4 DEF Typed, history
  <2> QED
    BY <1>3, <2>3, <2>4
<1>4. CASE RunNotice
  <2>1. main' \in Seq(M) /\ worker' = Append(worker, Change(main[1].user))
    BY <1>1, <1>4, NoticeRuns
  <2>2. Change(main[1].user) \in W /\ counter' = counter + 1
    BY <1>1, <1>4, NoticeRuns
  <2>3. worker' \in Seq(W)
    BY <1>1, <2>1, <2>2, AppendComesLast
  <2>4. UNCHANGED <<authVars, fsUser, queue, answer, history, failures>> /\ counter' \in Nat
    BY <1>1, <1>4, <2>2 DEF RunNotice, Typed
  <2> QED
    BY <1>1, <2>1, <2>3, <2>4 DEF Typed, authVars, history
<1>5. CASE RunToken
  <2>1. \/ worker' = worker
        \/ worker' = Append(worker, Resume(main[1])) /\ Resume(main[1]) \in Resumes
    BY <1>5, TokenRuns
  <2>2. main' \in Seq(M)
    BY <1>5, TokenRuns
  <2>3. worker' \in Seq(W)
    BY <1>1, <2>1, AppendComesLast
  <2>4. UNCHANGED <<authVars, counter, fsUser, queue, answer, history, failures>>
    BY <1>5 DEF RunToken
  <2> QED
    BY <1>1, <2>2, <2>3, <2>4 DEF Typed, authVars, history
<1>6. CASE AppWrite
  <2>1. worker' = Append(worker, [kind |-> "write"]) /\ [kind |-> "write"] \in W
    BY <1>6 DEF AppWrite, Writes
  <2>2. worker' \in Seq(W)
    BY <1>1, <2>1, AppendComesLast
  <2>3. UNCHANGED <<authVars, main, counter, fsUser, queue, answer, history, failures>>
    BY <1>6 DEF AppWrite
  <2> QED
    BY <1>1, <2>2, <2>3 DEF Typed, authVars, history
<1>7. ASSUME NEW u \in Signers, UpdateCurrentUser(u) PROVE Typed'
  <2>1. main' = Append(main, Notice(u)) /\ Notice(u) \in M /\ authUser' = u
    BY <1>7, NoticeFacts DEF UpdateCurrentUser
  <2>2. main' \in Seq(M)
    BY <1>1, <2>1, AppendComesLast
  <2>3. UNCHANGED <<fetching, counter, worker, fsUser, queue, answer, history, failures>>
    BY <1>7 DEF UpdateCurrentUser
  <2> QED
    BY <1>1, <2>1, <2>2, <2>3 DEF Typed, history
<1> QED
  BY <1>2, <1>3, <1>4, <1>5, <1>6, <1>7

LEMMA TypedStep ==
  ASSUME IInv, [Next]_vars
  PROVE  Typed'
BY NextCases, NothingTyped, GrpcTyped, WorkerTyped, OthersTyped

-----------------------------------------------------------------------------
(* The stream is sound after every step. *)
LEMMA SoundStep ==
  ASSUME IInv, [Next]_vars
  PROVE  Sound(stream', queue'[fsUser']) /\ Fed(stream', queue'[fsUser'])
<1>1. Sound(stream, queue[fsUser]) /\ Fed(stream, queue[fsUser])
  BY CurrentQueue
<1>2. CASE UNCHANGED vars
  BY <1>1, <1>2 DEF vars
<1>3. CASE StreamAlone \/ MutationResult \/ StreamFinished \/ RunWrite \/ HandleCredentialChange
  BY <1>3, StreamAloneFacts, AnswerStep, FinishStep, WriteStep, CredentialStep DEF StreamGoesOn
<1>4. CASE Commit
  BY <1>4, CommitStep DEF Commit
<1>5. CASE RunResume
  BY <1>5, ResumeStep DEF RunResume
<1>6. ASSUME NEW a \in stream.asks, TakeToken(a) PROVE Sound(stream', queue'[fsUser']) /\ Fed(stream', queue'[fsUser'])
  BY <1>6, TakeFacts DEF TakeToken
<1>7. CASE RunToken
  BY <1>7, TokenRuns DEF RunToken
<1>8. ASSUME \/ \E f \in fetching : TokenFetched(f) \/ TokenFailed(f)
             \/ RunNotice \/ AppWrite \/ \E u \in Signers : UpdateCurrentUser(u)
      PROVE  Sound(stream', queue'[fsUser']) /\ Fed(stream', queue'[fsUser'])
  <2>1. UNCHANGED <<stream, queue, fsUser>>
    BY <1>8 DEF TokenFetched, TokenFailed, RunNotice, AppWrite, UpdateCurrentUser
  <2> QED
    BY <1>1, <2>1
<1> QED
  BY <1>2, <1>3, <1>4, <1>5, <1>6, <1>7, <1>8, NextCases
-----------------------------------------------------------------------------
(* A block that is appended is the only new one.                           *)
LEMMA OneAppended ==
  ASSUME NEW T, NEW q \in Seq(T), NEW x \in T
  PROVE  /\ Len(q) \in Nat /\ DOMAIN q = 1 .. Len(q)
         /\ Len(Append(q, x)) = Len(q) + 1
         /\ DOMAIN Append(q, x) = 1 .. Len(q) + 1
         /\ \A i \in DOMAIN Append(q, x) : i \in Nat /\
              \/ i \in DOMAIN q /\ i + 0 = i /\ Append(q, x)[i] = q[i]
              \/ i = Len(q) + 1 /\ i \notin DOMAIN q /\ Append(q, x)[i] = x
BY AppendComesLast

LEMMA RequestsStream ==
  ASSUME IInv, Typed', Recalls(stream, stream'), stream' \in Streams,
         UNCHANGED <<authVars, main, counter>>, UNCHANGED worker \/ Task("write") \/ Task("change") \/ Task("resume")
  PROVE  RequestsAreOld' /\ OneRequest'
<1>1. Typed /\ RequestsAreOld /\ OneRequest /\ stream \in Streams /\ counter \in Nat
  BY CurrentQueue DEF IInv
<1>2. \A i \in DOMAIN main : i \in Nat /\ i + 0 = i
  BY <1>1, RequestsTyped
<1>3. MovedUp("token", main', main, 0)
  BY <1>2 DEF MovedUp
<1>4. \E m \in Nat : MovedUp("resume", worker', worker, m)
  <2>1. CASE UNCHANGED worker
    <3>1. \A i \in DOMAIN worker : i \in Nat /\ i + 0 = i
      BY <1>1, RequestsTyped
    <3>2. MovedUp("resume", worker', worker, 0)
      BY <2>1, <3>1 DEF MovedUp
    <3> QED
      BY <3>2
  <2>2. ASSUME NEW kind, Task(kind) PROVE MovedUp("resume", worker', worker, 1)
    BY <1>1, <2>2, TaskRuns DEF MovedUp
  <2> QED
    BY <2>1, <2>2
<1>5. counter <= counter' /\ fetching' \subseteq fetching
  BY <1>1 DEF authVars
<1> QED
  BY <1>1, <1>3, <1>4, <1>5, RequestsStay

(* Blocks of other kinds do not count. *)
LEMMA RequestsThreads ==
  ASSUME IInv, Typed', stream' = stream,
         RunNotice \/ AppWrite \/ \E u \in Signers : UpdateCurrentUser(u)
  PROVE  RequestsAreOld' /\ OneRequest'
<1> DEFINE M == Notices \cup Tokens
           W == Changes \cup Resumes \cup Writes
<1>1. /\ Typed /\ RequestsAreOld /\ OneRequest /\ stream \in Streams /\ counter \in Nat
      /\ main \in Seq(M) /\ worker \in Seq(W)
  BY CurrentQueue DEF IInv, Typed
<1>2. Recalls(stream, stream')
  BY <1>1 DEF Recalls, Streams
<1>3. /\ \A i \in DOMAIN main : i \in Nat /\ i + 0 = i
      /\ \A i \in DOMAIN worker : i \in Nat /\ i + 0 = i
  BY <1>1, RequestsTyped
<1>4. CASE RunNotice
  <2>1. MovedUp("token", main', main, 1)
    BY <1>1, <1>4, NoticeRuns DEF MovedUp
  <2>2. /\ worker' = Append(worker, Change(main[1].user)) /\ Change(main[1].user) \in W
        /\ Change(main[1].user).kind = "change" /\ counter' = counter + 1
    BY <1>1, <1>4, NoticeRuns
  <2> HIDE DEF W
  <2>3. MovedUp("resume", worker', worker, 0)
    BY <1>1, <2>2, OneAppended DEF MovedUp
  <2>4. counter <= counter' /\ fetching' \subseteq fetching
    BY <1>1, <1>4, <2>2 DEF RunNotice, authVars
  <2> QED
    BY <1>1, <1>2, <2>1, <2>3, <2>4, RequestsStay
<1>5. CASE AppWrite
  <2>1. MovedUp("token", main', main, 0)
    BY <1>3, <1>5 DEF MovedUp, AppWrite
  <2>2. /\ worker' = Append(worker, [kind |-> "write"]) /\ [kind |-> "write"] \in W
        /\ [kind |-> "write"].kind = "write"
    BY <1>5 DEF AppWrite, Writes
  <2> HIDE DEF W
  <2>3. MovedUp("resume", worker', worker, 0)
    BY <1>1, <2>2, OneAppended DEF MovedUp
  <2>4. counter <= counter' /\ fetching' \subseteq fetching
    BY <1>1, <1>5 DEF AppWrite, authVars
  <2> QED
    BY <1>1, <1>2, <2>1, <2>3, <2>4, RequestsStay
<1>6. ASSUME NEW u \in Signers, UpdateCurrentUser(u) PROVE RequestsAreOld' /\ OneRequest'
  <2>1. main' = Append(main, Notice(u)) /\ Notice(u) \in M /\ Notice(u).kind = "notice"
    BY <1>6, NoticeFacts DEF UpdateCurrentUser
  <2> HIDE DEF M
  <2>2. MovedUp("token", main', main, 0)
    BY <1>1, <2>1, OneAppended DEF MovedUp
  <2>3. MovedUp("resume", worker', worker, 0)
    BY <1>3, <1>6 DEF MovedUp, UpdateCurrentUser
  <2>4. counter <= counter' /\ fetching' \subseteq fetching
    BY <1>1, <1>6 DEF UpdateCurrentUser
  <2> QED
    BY <1>1, <1>2, <2>2, <2>3, <2>4, RequestsStay
<1> QED
  BY <1>4, <1>5, <1>6

LEMMA RequestsTaken ==
  ASSUME IInv, Typed', NEW a \in stream.asks, TakeToken(a)
  PROVE  RequestsAreOld' /\ OneRequest'
<1> DEFINE x == Token(a, authUser, TRUE)
           c == stream.closes
           M == Notices \cup Tokens
<1>1. /\ Typed /\ RequestsAreOld /\ OneRequest /\ stream \in Streams /\ counter \in Nat
      /\ main \in Seq(M) /\ worker' = worker /\ counter' = counter
  BY CurrentQueue DEF IInv, Typed, TakeToken
<1>2. /\ stream'.asks = stream.asks \ {a} /\ stream'.closes = c /\ stream'.state = stream.state
      /\ x \in M /\ x.kind = "token" /\ x.closes = a.closes /\ x.counter = a.counter
      /\ \/ main' = Append(main, x) /\ fetching' = fetching
         \/ main' = main /\ fetching' = fetching \cup {x}
  BY TakeFacts
<1> HIDE DEF x
<1>3. /\ \A i \in DOMAIN main : i \in Nat /\ i + 0 = i
      /\ \A i \in DOMAIN worker : i \in Nat /\ i + 0 = i
  BY <1>1, RequestsTyped
<1>4. a.closes <= c /\ a.counter <= counter
  BY <1>1 DEF RequestsAreOld
<1>5. \A i \in DOMAIN main' : i \in Nat /\
        \/ i \in DOMAIN main /\ i + 0 = i /\ main'[i] = main[i]
        \/ i = Len(main) + 1 /\ main'[i] = x /\ main' = Append(main, x)
  <2> HIDE DEF M
  <2>1. CASE main' = Append(main, x)
    BY <1>1, <1>2, <2>1, OneAppended
  <2>2. CASE main' = main
    BY <1>3, <2>2
  <2> QED
    BY <1>2, <2>1, <2>2
<1>6. RequestsAreOld'
  BY <1>1, <1>2, <1>4, <1>5 DEF RequestsAreOld
<1>7. CASE a.closes # c
  BY SMTT(30), <1>1, <1>2, <1>3, <1>5, <1>6, <1>7, CurrentStay
<1>8. CASE a.closes = c
  <2>1. Asking /\ \A b \in stream.asks : b.closes = c => b = a
    BY <1>1, <1>8 DEF Asking, OneRequest, Current
  <2>2. stream.state = "Starting" /\ ~Fetching /\ ~Answered /\ ~Resuming
    BY <1>1, <2>1 DEF OneRequest
  <2>3. ~Asking' /\ ~Resuming'
    BY <1>1, <1>2, <2>1, <2>2 DEF Asking, Resuming, Current
  <2>4. CASE main' = Append(main, x) /\ fetching' = fetching
    <3>1. ~Fetching'
      BY <1>2, <2>2, <2>4 DEF Fetching, Current
    <3>2. \A i \in DOMAIN main' : main'[i].kind = "token" /\ main'[i].closes = c => i = Len(main) + 1
      BY <1>5, <2>2 DEF Answered, Current
    <3> QED
      BY <1>2, <1>6, <2>2, <2>3, <3>1, <3>2 DEF OneRequest, Asking, Fetching, Resuming, Current
  <2>5. CASE main' = main /\ fetching' = fetching \cup {x}
    <3>1. ~Answered'
      BY <1>2, <2>2, <2>5 DEF Answered, Current
    <3>2. \A f \in fetching' : f.closes = c => f = x
      BY <2>2, <2>5 DEF Fetching, Current
    <3> QED
      BY <1>2, <1>6, <2>2, <2>3, <3>1, <3>2 DEF OneRequest, Asking, Answered, Resuming, Current
  <2> QED
    BY <1>2, <2>4, <2>5
<1> QED
  BY <1>7, <1>8

LEMMA TwoAppended ==
  ASSUME NEW T, NEW s \in Seq(T), NEW a \in T, NEW b \in T
  PROVE  s \o <<a, b>> = Append(Append(s, a), b) /\ Append(s, a) \in Seq(T)
OBVIOUS

(* An answer of the network comes last, after the notice that the user has *)
(* a new token.                                                            *)
LEMMA AnswerComes ==
  ASSUME Typed, NEW f \in fetching, TokenFetched(f) \/ TokenFailed(f)
  PROVE  \E mid \in Seq(Notices \cup Tokens), g \in Tokens :
           /\ main' = Append(mid, g) /\ g.kind = "token" /\ g.closes = f.closes
           /\ g.counter = f.counter /\ g.user = f.user
           /\ \/ mid = main /\ (g.ok => g.user # authUser)
              \/ mid = Append(main, Notice(f.user)) /\ f.user = authUser
<1> DEFINE M == Notices \cup Tokens
<1>1. main \in Seq(M) /\ f \in Tokens /\ f.user \in Signers /\ f.kind = "token"
  BY DEF Typed, Tokens
<1>2. CASE TokenFetched(f)
  <2>1. CASE f.user # authUser /\ main' = Append(main, f)
    BY <1>1, <2>1
  <2>2. CASE f.user = authUser /\ main' = main \o <<Notice(f.user), f>>
    <3> DEFINE mid == Append(main, Notice(f.user))
    <3>1. Notice(f.user) \in M /\ f \in M
      BY <1>1, NoticeFacts
    <3> HIDE DEF M
    <3>2. main' = Append(mid, f) /\ mid \in Seq(M)
      BY <1>1, <2>2, <3>1, TwoAppended
    <3> QED
      BY <1>1, <2>2, <3>2 DEF M
  <2> QED
    BY <1>2, <2>1, <2>2 DEF TokenFetched
<1>3. CASE TokenFailed(f)
  <2> DEFINE g == [f EXCEPT !.ok = FALSE]
  <2>1. /\ g \in Tokens /\ g.kind = "token" /\ g.closes = f.closes /\ g.counter = f.counter
        /\ g.user = f.user /\ g.ok = FALSE
    BY <1>1, FailedToken
  <2>2. main' = Append(main, g)
    BY <1>3 DEF TokenFailed
  <2> HIDE DEF g
  <2> QED
    BY <1>1, <2>1, <2>2
<1> QED
  BY <1>2, <1>3

LEMMA RequestsAnswered ==
  ASSUME IInv, Typed', NEW f \in fetching, TokenFetched(f) \/ TokenFailed(f)
  PROVE  RequestsAreOld' /\ OneRequest'
<1> DEFINE c == stream.closes
           M == Notices \cup Tokens
<1>1. /\ Typed /\ RequestsAreOld /\ OneRequest /\ stream \in Streams /\ counter \in Nat
      /\ main \in Seq(M)
  BY CurrentQueue DEF IInv, Typed
<1>2. worker' = worker /\ counter' = counter /\ stream' = stream /\ fetching' = fetching \ {f}
  BY DEF TokenFetched, TokenFailed
<1>3. PICK mid \in Seq(M), g \in Tokens :
        /\ main' = Append(mid, g) /\ g.kind = "token" /\ g.closes = f.closes
        /\ g.counter = f.counter
        /\ \/ mid = main
           \/ mid = Append(main, Notice(f.user))
  BY <1>1, AnswerComes
<1>4. /\ \A i \in DOMAIN main : i \in Nat /\ i + 0 = i
      /\ \A i \in DOMAIN worker : i \in Nat /\ i + 0 = i
      /\ \A h \in fetching : h \in Tokens /\ h.closes \in Nat
  BY <1>1, RequestsTyped
<1>5. f.user \in Signers /\ g \in M
  BY <1>4 DEF Tokens
<1>6. f.closes <= c /\ f.counter <= counter
  BY <1>1 DEF RequestsAreOld
<1>7. \A i \in DOMAIN mid : mid[i].kind = "token" =>
        i \in DOMAIN main /\ i + 0 = i /\ mid[i] = main[i]
  <2>1. Notice(f.user) \in M /\ Notice(f.user).kind = "notice"
    BY <1>5, NoticeFacts
  <2> HIDE DEF M
  <2>2. CASE mid = main
    BY <1>4, <2>2
  <2>3. CASE mid = Append(main, Notice(f.user))
    BY <1>1, <2>1, <2>3, OneAppended
  <2> QED
    BY <1>3, <2>2, <2>3
<1>8. \A i \in DOMAIN main' : i \in Nat /\
        (main'[i].kind = "token" =>
          \/ i \in DOMAIN main /\ i + 0 = i /\ main'[i] = main[i]
          \/ i = Len(mid) + 1 /\ main'[i] = g)
  <2> HIDE DEF M
  <2> QED
    BY <1>3, <1>5, <1>7, OneAppended
<1>9. RequestsAreOld'
  BY <1>1, <1>2, <1>3, <1>6, <1>8 DEF RequestsAreOld
<1>10. CASE f.closes # c
  <2>1. \A i \in DOMAIN main' : main'[i].kind = "token" /\ main'[i].closes = c
          => i + 0 \in DOMAIN main /\ main'[i] = main[i + 0]
    BY <1>3, <1>8, <1>10
  <2>2. \A i \in DOMAIN worker' : worker'[i].kind = "resume" /\ worker'[i].closes = c
          => i + 0 \in DOMAIN worker /\ worker'[i] = worker[i + 0]
    BY <1>2, <1>4
  <2>3. /\ \A i \in DOMAIN main' : i \in Nat
        /\ \A i \in DOMAIN worker' : i \in Nat
        /\ \A h \in fetching' : h.closes = c => h \in fetching
        /\ \A a \in stream'.asks : a.closes = c => a \in stream.asks
        /\ stream'.closes = c /\ stream'.state = stream.state
    BY <1>2, <1>4, <1>8
  <2> HIDE DEF c
  <2>4. OneRequest'
    BY <1>1, <2>1, <2>2, <2>3, CurrentStay DEF c
  <2> QED
    BY <1>9, <2>4
<1>11. CASE f.closes = c
  <2>1. Fetching /\ \A h \in fetching : h.closes = c => h = f
    BY <1>1, <1>11 DEF Fetching, OneRequest, Current
  <2>2. stream.state = "Starting" /\ ~Asking /\ ~Answered /\ ~Resuming
    BY <1>1, <2>1 DEF OneRequest
  <2>3. ~Asking' /\ ~Resuming' /\ ~Fetching'
    BY <1>2, <2>1, <2>2 DEF Asking, Resuming, Fetching, Current
  <2>4. \A i \in DOMAIN main' : main'[i].kind = "token" /\ main'[i].closes = c => i = Len(mid) + 1
    BY <1>8, <2>2 DEF Answered, Current
  <2> QED
    BY <1>2, <1>9, <2>2, <2>3, <2>4 DEF OneRequest, Asking, Fetching, Resuming, Current
<1> QED
  BY <1>10, <1>11

(* A token goes on to the worker queue, or is asked for again.             *)
LEMMA RequestsRun ==
  ASSUME IInv, Typed', RunToken
  PROVE  RequestsAreOld' /\ OneRequest'
<1> DEFINE c == stream.closes
           x == main[1]
           y == Resume(x)
           new == [counter |-> counter, closes |-> x.closes]
           W == Changes \cup Resumes \cup Writes
<1>1. /\ Typed /\ RequestsAreOld /\ OneRequest /\ stream \in Streams /\ counter \in Nat
      /\ worker \in Seq(W) /\ counter' = counter /\ fetching' = fetching
  BY CurrentQueue DEF IInv, Typed, RunToken, authVars
<1>2. /\ x \in Tokens /\ x.kind = "token" /\ 1 \in DOMAIN main
      /\ \A i \in DOMAIN main' : i \in 1 .. Len(main) - 1 /\ i + 1 \in DOMAIN main /\ main'[i] = main[i + 1]
      /\ Len(main) \in Nat
      /\ stream'.closes = c /\ stream'.state = stream.state
      /\ \/ worker' = worker /\ stream'.asks = stream.asks \cup {new}
         \/ /\ stream' = stream /\ worker' = Append(worker, y) /\ y \in W
            /\ y.kind = "resume" /\ y.closes = x.closes
  BY TokenRuns
<1>3. new.counter = counter /\ new.closes = x.closes
  OBVIOUS
<1> HIDE DEF y, new
<1>4. /\ \A i \in DOMAIN worker : i \in Nat /\ i + 0 = i
      /\ \A i \in DOMAIN main' : i \in Nat
  BY <1>1, <1>2, RequestsTyped
<1>5. x.closes <= c /\ x.closes \in Nat
  BY <1>1, <1>2, RequestsTyped DEF RequestsAreOld
<1>6. \A i \in DOMAIN worker' : i \in Nat /\
        \/ i \in DOMAIN worker /\ i + 0 = i /\ worker'[i] = worker[i]
        \/ i = Len(worker) + 1 /\ worker'[i] = y /\ worker' = Append(worker, y) /\ y.closes = x.closes
  <2> HIDE DEF W
  <2>1. CASE worker' = Append(worker, y) /\ y \in W /\ y.closes = x.closes
    BY <1>1, <2>1, OneAppended
  <2>2. CASE worker' = worker
    BY <1>4, <2>2
  <2> QED
    BY <1>2, <2>1, <2>2
<1>7. RequestsAreOld'
  <2>1. \A a \in stream'.asks : a \in stream.asks \/ a = new
    BY <1>2
  <2>2. \A a \in stream'.asks : a.closes <= c /\ a.counter <= counter
    BY <1>1, <1>3, <1>5, <2>1 DEF RequestsAreOld
  <2> QED
    BY <1>1, <1>2, <1>5, <1>6, <2>2 DEF RequestsAreOld
<1>8. CASE x.closes # c
  <2>1. \A a \in stream'.asks : a.closes = c => a \in stream.asks
    BY <1>2, <1>3, <1>8
  <2>2. \A i \in DOMAIN main' : i + 1 \in DOMAIN main /\ main'[i] = main[i + 1]
    BY <1>2
  <2>3. \A i \in DOMAIN worker' : worker'[i].kind = "resume" /\ worker'[i].closes = c
          => i + 0 \in DOMAIN worker /\ worker'[i] = worker[i + 0]
    BY <1>6, <1>8
  <2>4. /\ \A i \in DOMAIN worker' : i \in Nat
        /\ \A f \in fetching' : f.closes = c => f \in fetching
    BY <1>1, <1>6
  <2> HIDE DEF c
  <2>5. OneRequest'
    BY <1>1, <1>2, <1>4, <2>1, <2>2, <2>3, <2>4, CurrentStay DEF c
  <2> QED
    BY <1>7, <2>5
<1>9. CASE x.closes = c
  <2>1. Answered /\ \A i \in DOMAIN main : main[i].kind = "token" /\ main[i].closes = c => i = 1
    BY <1>1, <1>2, <1>9 DEF Answered, OneRequest, Current
  <2>2. stream.state = "Starting" /\ ~Asking /\ ~Fetching /\ ~Resuming
    BY <1>1, <2>1 DEF OneRequest
  <2>3. ~Fetching'
    BY <1>1, <1>2, <2>2 DEF Fetching, Current
  <2>4. ~Answered'
    <3>1. \A i \in DOMAIN main' : i + 1 # 1 /\ i + 1 \in DOMAIN main /\ main'[i] = main[i + 1]
      BY <1>2
    <3> QED
      BY <1>2, <2>1, <3>1 DEF Answered, Current
  <2>5. CASE worker' = worker /\ stream'.asks = stream.asks \cup {new}
    <3>1. ~Resuming' /\ \A a \in stream'.asks : a.closes = c => a = new
      BY <1>2, <2>2, <2>5 DEF Resuming, Asking, Current
    <3> QED
      BY <1>2, <1>7, <2>2, <2>3, <2>4, <3>1 DEF OneRequest, Fetching, Answered, Resuming, Current
  <2>6. CASE stream' = stream /\ worker' = Append(worker, y)
    <3>1. ~Asking'
      BY <2>2, <2>6 DEF Asking, Current
    <3>2. \A i \in DOMAIN worker' : worker'[i].kind = "resume" /\ worker'[i].closes = c
            => i = Len(worker) + 1
      BY <1>6, <2>2 DEF Resuming, Current
    <3> QED
      BY <1>2, <1>7, <2>2, <2>3, <2>4, <3>1, <3>2 DEF OneRequest, Asking, Fetching, Answered, Current
  <2> QED
    BY <1>2, <2>5, <2>6
<1> QED
  BY <1>8, <1>9

(* The stream that is opened was the only one to wait for a token. *)
LEMMA RequestsResumed ==
  ASSUME IInv, Typed', RunResume
  PROVE  RequestsAreOld' /\ OneRequest'
<1> DEFINE c == stream.closes
           x == worker[1]
<1>1. /\ Typed /\ RequestsAreOld /\ OneRequest /\ stream \in Streams /\ counter \in Nat
      /\ UNCHANGED <<authVars, main, counter>> /\ Task("resume")
  BY CurrentQueue DEF IInv, RunResume
<1>2. stream' \in Streams
  BY ResumeStep DEF Sound
<1>3. CASE Recalls(stream, stream')
  BY <1>1, <1>2, <1>3, RequestsStream
<1>4. CASE /\ Current(x) /\ stream'.state = "Open" /\ stream'.asks = stream.asks
           /\ stream'.closes = c
  <2>1. x.kind = "resume" /\ 1 \in DOMAIN worker
    BY <1>1, TaskRuns
  <2>2. Resuming /\ \A i \in DOMAIN worker : worker[i].kind = "resume" /\ worker[i].closes = c => i = 1
    BY <1>1, <1>4, <2>1 DEF Resuming, OneRequest, Current
  <2>3. ~Asking /\ ~Fetching /\ ~Answered
    BY <1>1, <2>2 DEF OneRequest
  <2>4. \A i \in DOMAIN worker' : i + 1 # 1 /\ i + 1 \in DOMAIN worker /\ worker'[i] = worker[i + 1]
    BY <1>1, TaskRuns
  <2>5. ~Asking' /\ ~Fetching' /\ ~Answered'
    BY <1>1, <1>4, <2>3 DEF Asking, Fetching, Answered, Current, authVars
  <2>6. ~Resuming'
    BY <1>4, <2>2, <2>4 DEF Resuming, Current
  <2>7. RequestsAreOld'
    <3>1. counter' = counter /\ fetching' = fetching /\ main' = main
      BY <1>1 DEF authVars
    <3> QED
      BY <1>1, <1>4, <2>4, <3>1 DEF RequestsAreOld
  <2> QED
    BY <2>5, <2>6, <2>7 DEF OneRequest, Asking, Fetching, Answered, Resuming, Current
<1>5. stream' = stream => Recalls(stream, stream')
  BY <1>1 DEF Recalls, Streams
<1> QED
  BY <1>3, <1>4, <1>5, ResumeStep DEF Proceeds

LEMMA RequestsStep ==
  ASSUME IInv, [Next]_vars
  PROVE  RequestsAreOld' /\ OneRequest'
<1>1. Typed' /\ stream' \in Streams
  BY TypedStep, SoundStep DEF Sound
<1>2. CASE UNCHANGED vars
  BY <1>2 DEF IInv, RequestsAreOld, OneRequest, Asking, Fetching, Answered, Resuming, Current, vars
<1>3. CASE StreamAlone \/ MutationResult \/ StreamFinished \/ Commit
  <2>1. Recalls(stream, stream')
    BY <1>3, StreamAloneFacts, AnswerStep, FinishStep, CommitStep DEF StreamGoesOn
  <2>2. UNCHANGED <<authVars, main, counter, worker>>
    BY <1>3, StreamAloneFacts DEF MutationResult, StreamFinished, Commit
  <2> QED
    BY <1>1, <2>1, <2>2, RequestsStream
<1>4. CASE RunWrite \/ HandleCredentialChange
  <2>1. Recalls(stream, stream')
    BY <1>4, WriteStep, CredentialStep DEF StreamGoesOn
  <2>2. UNCHANGED <<authVars, main, counter>> /\ (Task("write") \/ Task("change"))
    BY <1>4 DEF RunWrite, HandleCredentialChange
  <2> QED
    BY <1>1, <2>1, <2>2, RequestsStream
<1>5. CASE RunNotice \/ AppWrite \/ \E u \in Signers : UpdateCurrentUser(u)
  <2>1. stream' = stream
    BY <1>5 DEF RunNotice, AppWrite, UpdateCurrentUser
  <2> QED
    BY <1>1, <1>5, <2>1, RequestsThreads
<1> QED
  BY <1>1, <1>2, <1>3, <1>4, <1>5, NextCases, RequestsTaken, RequestsAnswered, RequestsRun,
     RequestsResumed

-----------------------------------------------------------------------------
(* Users and their tokens. *)

(* A task that is run: those after it will find the users they did.        *)
LEMMA TailUsers ==
  ASSUME Typed, NEW kind, Task(kind),
         fsUser' = IF kind = "change" THEN worker[1].user ELSE fsUser
  PROVE  /\ \A n \in Nat \ {0} : \A u : UserAt(n + 1, u) => UserAt(n, u)'
         /\ \A u : MainUser(u) => MainUser(u)'
<1>1. /\ worker[1].kind = kind /\ 1 \in DOMAIN worker
      /\ DOMAIN worker = 1 .. Len(worker) /\ DOMAIN worker' = 1 .. Len(worker) - 1
      /\ Len(worker) \in Nat \ {0} /\ Len(worker') = Len(worker) - 1
      /\ \A i \in DOMAIN worker' : i + 1 \in DOMAIN worker /\ worker'[i] = worker[i + 1]
  BY TaskRuns
<1>2. ASSUME NEW n \in Nat \ {0}, NEW u, UserAt(n + 1, u) PROVE UserAt(n, u)'
  <2>1. ASSUME \A j \in DOMAIN worker' : j < n => worker'[j].kind # "change" PROVE fsUser' = u
    <3>1. \A j \in DOMAIN worker : 1 < j /\ j < n + 1 => worker[j].kind # "change"
      <4> SUFFICES ASSUME NEW j \in DOMAIN worker, 1 < j, j < n + 1 PROVE worker[j].kind # "change"
        OBVIOUS
      <4>1. j - 1 \in DOMAIN worker' /\ j - 1 < n /\ (j - 1) + 1 = j
        BY <1>1
      <4> QED
        BY <1>1, <2>1, <4>1
    <3>2. CASE kind = "change"
      <4>1. \A k \in DOMAIN worker : 1 < k /\ k < n + 1 => worker[k].kind # "change"
        BY <3>1
      <4>2. 1 < n + 1
        BY <1>2
      <4> QED
        BY <1>1, <1>2, <3>2, <4>1, <4>2 DEF UserAt
    <3>3. CASE kind # "change"
      <4>1. \A j \in DOMAIN worker : j < n + 1 => worker[j].kind # "change"
        BY <1>1, <3>1, <3>3
      <4> QED
        BY <1>2, <3>3, <4>1 DEF UserAt
    <3> QED
      BY <3>2, <3>3
  <2>2. ASSUME NEW j \in DOMAIN worker', j < n, worker'[j].kind = "change",
               \A k \in DOMAIN worker' : j < k /\ k < n => worker'[k].kind # "change"
        PROVE  worker'[j].user = u
    <3>1. j + 1 \in DOMAIN worker /\ worker'[j] = worker[j + 1] /\ j + 1 < n + 1 /\ j \in Nat
      BY <1>1, <2>2
    <3>2. \A k \in DOMAIN worker : j + 1 < k /\ k < n + 1 => worker[k].kind # "change"
      <4> SUFFICES ASSUME NEW k \in DOMAIN worker, j + 1 < k, k < n + 1 PROVE worker[k].kind # "change"
        OBVIOUS
      <4>1. k - 1 \in DOMAIN worker' /\ j < k - 1 /\ k - 1 < n /\ (k - 1) + 1 = k
        BY <1>1, <3>1
      <4> QED
        BY <1>1, <2>2, <4>1
    <3> QED
      BY <1>2, <2>2, <3>1, <3>2 DEF UserAt
  <2> QED
    BY <2>1, <2>2 DEF UserAt
<1>3. ASSUME NEW u, MainUser(u) PROVE MainUser(u)'
  <2>1. Len(worker) \in Nat \ {0} /\ Len(worker') + 1 = Len(worker)
    BY <1>1
  <2>2. UserAt(Len(worker) + 1, u)
    BY <1>3 DEF MainUser
  <2> DEFINE n == Len(worker)
  <2> HIDE DEF n
  <2> QED
    BY <1>2, <2>1, <2>2 DEF MainUser, n
<1> QED
  BY <1>2, <1>3

(* A new task is for the users after the others. *)
LEMMA AppendUsers ==
  ASSUME Typed, NEW x \in Changes \cup Resumes \cup Writes, worker' = Append(worker, x),
         fsUser' = fsUser, NEW l, l = Len(worker)
  PROVE  /\ \A n \in 1 .. l + 1 : \A u : UserAt(n, u) => UserAt(n, u)'
         /\ l + 1 \in DOMAIN worker' /\ worker'[l + 1] = x /\ l + 1 \in Nat \ {0}
         /\ \A i \in DOMAIN worker' : (i \in DOMAIN worker /\ worker'[i] = worker[i]) \/ i = l + 1
         /\ \A i \in DOMAIN worker : i \in 1 .. l + 1
         /\ \A u : MainUser(u) => UserAt(l + 1, u)'
         /\ x.kind # "change" => \A u : MainUser(u) => MainUser(u)'
         /\ x.kind = "change" => MainUser(x.user)'
<1> DEFINE W == Changes \cup Resumes \cup Writes
<1>1. worker \in Seq(W) /\ x \in W
  BY DEF Typed
<1> HIDE DEF W
<1>2. /\ l \in Nat /\ DOMAIN worker = 1 .. l /\ DOMAIN worker' = 1 .. l + 1
      /\ Len(worker') = l + 1 /\ worker'[l + 1] = x
      /\ \A i \in 1 .. l : worker'[i] = worker[i]
  BY <1>1, AppendComesLast
<1>3. ASSUME NEW n \in 1 .. l + 1, NEW u, UserAt(n, u) PROVE UserAt(n, u)'
  <2>1. \A j \in DOMAIN worker' : j < n => j \in DOMAIN worker /\ worker'[j] = worker[j]
    BY <1>2, <1>3
  <2>2. \A j \in DOMAIN worker : j \in DOMAIN worker' /\ worker'[j] = worker[j]
    BY <1>2
  <2> QED
    BY <1>3, <2>1, <2>2 DEF UserAt
<1>4. ASSUME NEW u, MainUser(u) PROVE UserAt(l + 1, u)'
  BY <1>2, <1>3, <1>4 DEF MainUser
<1>5. ASSUME x.kind # "change", NEW u, MainUser(u) PROVE MainUser(u)'
  <2>1. UserAt(l + 1, u)
    BY <1>5 DEF MainUser
  <2>2. /\ \A j \in DOMAIN worker' :
             (j \in DOMAIN worker /\ worker'[j] = worker[j] /\ j < l + 1) \/ worker'[j].kind # "change"
        /\ \A j \in DOMAIN worker : j \in DOMAIN worker' /\ worker'[j] = worker[j] /\ j < l + 1 /\ j < l + 2
    BY <1>2, <1>5
  <2>3. Len(worker') + 1 = l + 2
    BY <1>2
  <2>4. UserAt(l + 2, u)'
    BY <2>1, <2>2 DEF UserAt
  <2> QED
    BY <2>3, <2>4 DEF MainUser
<1>6. ASSUME x.kind = "change" PROVE MainUser(x.user)'
  <2>1. Len(worker') + 1 = l + 2 /\ l + 1 < l + 2 /\ l + 1 \in DOMAIN worker'
    BY <1>2
  <2>2. \A j \in DOMAIN worker' : j # l + 1 => j < l + 1
    BY <1>2
  <2>3. UserAt(l + 2, x.user)'
    BY <1>2, <1>6, <2>1, <2>2 DEF UserAt
  <2> QED
    BY <2>1, <2>3 DEF MainUser
<1>7. /\ l + 1 \in DOMAIN worker' /\ l + 1 \in Nat \ {0}
      /\ \A i \in DOMAIN worker' : (i \in DOMAIN worker /\ worker'[i] = worker[i]) \/ i = l + 1
      /\ \A i \in DOMAIN worker : i \in 1 .. l + 1
  BY <1>2
<1> QED
  BY <1>2, <1>3, <1>4, <1>5, <1>6, <1>7

(* The last notice waiting is of user u, if there is one. *)
LastNoticeOf(q, u) ==
  \A i \in DOMAIN q :
    /\ q[i].kind = "notice"
    /\ \A j \in DOMAIN q : j > i => q[j].kind # "notice"
    => q[i].user = u

Unnoticed(q) == \A j \in DOMAIN q : q[j].kind # "notice"

LEMMA KnownUsers ==
  UsersAreKnown <=> (Unnoticed(main) => MainUser(authUser)) /\ LastNoticeOf(main, authUser)
BY DEF UsersAreKnown, NoNotice, Unnoticed, LastNoticeOf

LEMMA BlockAppended ==
  ASSUME NEW q \in Seq(Notices \cup Tokens), NEW x \in Notices \cup Tokens, NEW u
  PROVE  LET r == Append(q, x) IN
         /\ r \in Seq(Notices \cup Tokens)
         /\ x.kind # "notice" /\ LastNoticeOf(q, u) => LastNoticeOf(r, u)
         /\ x.kind # "notice" => (Unnoticed(r) <=> Unnoticed(q))
         /\ x.kind = "notice" => ~Unnoticed(r) /\ LastNoticeOf(r, x.user)
         /\ \A i \in DOMAIN r :
              (i \in DOMAIN q /\ r[i] = q[i]) \/ (i = Len(q) + 1 /\ r[i] = x)
         /\ \A i \in DOMAIN q : i \in DOMAIN r /\ r[i] = q[i] /\ i < Len(q) + 1
         /\ Len(q) + 1 \in DOMAIN r
<1> DEFINE M == Notices \cup Tokens
           r == Append(q, x)
<1>1. q \in Seq(M) /\ x \in M
  OBVIOUS
<1> HIDE DEF M
<1>2. /\ r \in Seq(M) /\ Len(q) \in Nat /\ DOMAIN q = 1 .. Len(q) /\ DOMAIN r = 1 .. Len(q) + 1
      /\ r[Len(q) + 1] = x /\ \A i \in 1 .. Len(q) : r[i] = q[i]
  BY <1>1, AppendComesLast
<1> HIDE DEF r
<1>3. /\ \A i \in DOMAIN r : (i \in DOMAIN q /\ r[i] = q[i]) \/ (i = Len(q) + 1 /\ r[i] = x)
      /\ \A i \in DOMAIN q : i \in DOMAIN r /\ r[i] = q[i] /\ i < Len(q) + 1
      /\ Len(q) + 1 \in DOMAIN r
  BY <1>2
<1>4. ASSUME x.kind # "notice", LastNoticeOf(q, u) PROVE LastNoticeOf(r, u)
  BY <1>3, <1>4 DEF LastNoticeOf
<1>5. x.kind # "notice" => (Unnoticed(r) <=> Unnoticed(q))
  BY <1>3 DEF Unnoticed
<1>6. ASSUME x.kind = "notice" PROVE ~Unnoticed(r) /\ LastNoticeOf(r, x.user)
  BY <1>2, <1>3, <1>6 DEF Unnoticed, LastNoticeOf
<1> QED
  BY <1>2, <1>3, <1>4, <1>5, <1>6 DEF r, M

LEMMA BlockTaken ==
  ASSUME NEW q \in Seq(Notices \cup Tokens), q # << >>, NEW u, LastNoticeOf(q, u)
  PROVE  /\ LastNoticeOf(Tail(q), u)
         /\ Unnoticed(Tail(q)) /\ q[1].kind = "notice" => q[1].user = u
         /\ q[1].kind # "notice" => (Unnoticed(Tail(q)) <=> Unnoticed(q))
<1> DEFINE r == Tail(q)
<1>1. /\ DOMAIN r = 1 .. Len(q) - 1 /\ Len(q) \in Nat \ {0} /\ DOMAIN q = 1 .. Len(q)
      /\ \A i \in 1 .. Len(q) - 1 : r[i] = q[i + 1] /\ i + 1 \in DOMAIN q
  BY TailMovesUp
<1> HIDE DEF r
<1>2. \A j \in DOMAIN q : j # 1 => j > 1 /\ j - 1 \in DOMAIN r /\ q[j] = r[j - 1]
  <2> SUFFICES ASSUME NEW j \in DOMAIN q, j # 1 PROVE j > 1 /\ j - 1 \in DOMAIN r /\ q[j] = r[j - 1]
    OBVIOUS
  <2>1. j > 1 /\ j - 1 \in 1 .. Len(q) - 1 /\ (j - 1) + 1 = j
    BY <1>1
  <2> QED
    BY <1>1, <2>1
<1>3. LastNoticeOf(r, u)
  <2> SUFFICES ASSUME NEW i \in DOMAIN r, r[i].kind = "notice",
                      \A j \in DOMAIN r : j > i => r[j].kind # "notice"
               PROVE  r[i].user = u
    BY DEF LastNoticeOf
  <2>1. \A j \in DOMAIN q : j > i + 1 => q[j].kind # "notice"
    <3> SUFFICES ASSUME NEW j \in DOMAIN q, j > i + 1 PROVE q[j].kind # "notice"
      OBVIOUS
    <3>1. j # 1 /\ j - 1 > i
      BY <1>1
    <3> QED
      BY <1>2, <3>1
  <2> QED
    BY <1>1, <2>1 DEF LastNoticeOf
<1>4. Unnoticed(r) /\ q[1].kind = "notice" => q[1].user = u
  BY <1>1, <1>2 DEF Unnoticed, LastNoticeOf
<1>5. q[1].kind # "notice" => (Unnoticed(r) <=> Unnoticed(q))
  BY <1>1, <1>2 DEF Unnoticed
<1> QED
  BY <1>3, <1>4, <1>5 DEF r

LEMMA UsersStep ==
  ASSUME IInv, [Next]_vars
  PROVE  UsersAreKnown'
<1> DEFINE M == Notices \cup Tokens
           W == Changes \cup Resumes \cup Writes
<1>1. /\ Typed /\ main \in Seq(M) /\ worker \in Seq(W) /\ authUser \in Signers
      /\ (Unnoticed(main) => MainUser(authUser)) /\ LastNoticeOf(main, authUser)
  BY KnownUsers DEF IInv, Typed
<1>2. UsersAreKnown' <=> (Unnoticed(main') => MainUser(authUser)') /\ LastNoticeOf(main', authUser')
  BY DEF UsersAreKnown, NoNotice, Unnoticed, LastNoticeOf
<1>3. CASE UNCHANGED <<authUser, main, worker, fsUser>>
  BY <1>1, <1>2, <1>3 DEF MainUser, UserAt
<1>4. CASE UNCHANGED vars \/ StreamAlone \/ Commit \/ MutationResult \/ StreamFinished
  <2>1. UNCHANGED <<authUser, main, worker, fsUser>>
    BY <1>4, StreamAloneFacts DEF vars, Commit, MutationResult, StreamFinished, authVars
  <2> QED
    BY <1>3, <2>1
<1>5. CASE RunWrite \/ HandleCredentialChange \/ RunResume
  <2>1. authUser' = authUser /\ main' = main
    BY <1>5 DEF RunWrite, HandleCredentialChange, RunResume, authVars
  <2>2. \A v : MainUser(v) => MainUser(v)'
    <3>1. CASE RunWrite
      BY <1>1, <3>1, TailUsers DEF RunWrite
    <3>2. CASE HandleCredentialChange
      <4>1. fsUser' = worker[1].user /\ Task("change")
        BY <3>2, CredentialStep DEF HandleCredentialChange
      <4> QED
        BY <1>1, <4>1, TailUsers
    <3>3. CASE RunResume
      BY <1>1, <3>3, TailUsers DEF RunResume
    <3> QED
      BY <1>5, <3>1, <3>2, <3>3
  <2>3. Unnoticed(main) => MainUser(authUser)'
    <3>1. PICK v : v = authUser
      OBVIOUS
    <3>2. Unnoticed(main) => MainUser(v)'
      BY <1>1, <2>2, <3>1
    <3> QED
      BY <2>1, <3>1, <3>2 DEF MainUser, UserAt
  <2> QED
    BY <1>1, <1>2, <2>1, <2>3
<1>6. PICK v : v = authUser
  OBVIOUS
<1>7. CASE AppWrite
  <2>1. /\ worker' = Append(worker, [kind |-> "write"]) /\ [kind |-> "write"] \in W
        /\ [kind |-> "write"].kind = "write" /\ UNCHANGED <<authUser, main, fsUser>>
    BY <1>7 DEF AppWrite, Writes, authVars
  <2>2. MainUser(v) => MainUser(v)'
    BY <1>1, <2>1, AppendUsers
  <2> QED
    BY <1>1, <1>2, <1>6, <2>1, <2>2 DEF MainUser, UserAt
<1>8. CASE RunNotice
  <2>1. PICK x : x = main[1]
    OBVIOUS
  <2>2. PICK y : y = Change(main[1].user)
    OBVIOUS
  <2>3. /\ main # << >> /\ main' = Tail(main) /\ x.kind = "notice"
        /\ worker' = Append(worker, y) /\ y \in W /\ y.kind = "change" /\ y.user = x.user
    BY <1>1, <1>8, <2>1, <2>2, NoticeRuns
  <2>4. authUser' = authUser /\ fsUser' = fsUser
    BY <1>8 DEF RunNotice, authVars
  <2>5. MainUser(x.user)'
    BY <1>1, <2>3, <2>4, AppendUsers
  <2>6. LastNoticeOf(main', v) /\ (Unnoticed(main') => x.user = v)
    BY <1>1, <1>6, <2>1, <2>3, BlockTaken
  <2> QED
    BY <1>2, <1>6, <2>4, <2>5, <2>6 DEF MainUser, UserAt
<1>9. CASE RunToken
  <2>1. PICK y : y = Resume(main[1])
    OBVIOUS
  <2>2. /\ main # << >> /\ main' = Tail(main) /\ main[1].kind = "token"
        /\ \/ worker' = worker
           \/ worker' = Append(worker, y) /\ y \in W /\ y.kind = "resume"
    BY <1>9, <2>1, TokenRuns
  <2>3. authUser' = authUser /\ fsUser' = fsUser
    BY <1>9 DEF RunToken, authVars
  <2>4. LastNoticeOf(main', v) /\ (Unnoticed(main') => Unnoticed(main))
    BY <1>1, <1>6, <2>2, BlockTaken
  <2>5. MainUser(v) => MainUser(v)'
    <3>1. CASE worker' = worker
      BY <2>3, <3>1 DEF MainUser, UserAt
    <3>2. CASE worker' = Append(worker, y) /\ y \in W /\ y.kind = "resume"
      BY <1>1, <2>3, <3>2, AppendUsers
    <3> QED
      BY <2>2, <3>1, <3>2
  <2> QED
    BY <1>1, <1>2, <1>6, <2>3, <2>4, <2>5 DEF MainUser, UserAt
<1>10. ASSUME NEW w \in Signers, UpdateCurrentUser(w) PROVE UsersAreKnown'
  <2>1. /\ main' = Append(main, Notice(w)) /\ authUser' = w
        /\ Notice(w) \in M /\ Notice(w).kind = "notice" /\ Notice(w).user = w
    BY <1>10, NoticeFacts DEF UpdateCurrentUser
  <2>2. ~Unnoticed(main') /\ LastNoticeOf(main', w)
    BY <1>1, <2>1, BlockAppended
  <2> QED
    BY <1>2, <2>1, <2>2
<1>11. ASSUME authUser' = authUser, worker' = worker, fsUser' = fsUser,
              NEW mid \in Seq(M), NEW x \in Tokens, x.kind = "token", main' = Append(mid, x),
              \/ mid = main
              \/ \E w \in Signers : mid = Append(main, Notice(w)) /\ w = authUser
       PROVE  UsersAreKnown'
  <2>1. LastNoticeOf(mid, v) /\ (Unnoticed(mid) => Unnoticed(main))
    <3>1. ASSUME NEW w \in Signers, mid = Append(main, Notice(w)), w = authUser
          PROVE  LastNoticeOf(mid, v) /\ ~Unnoticed(mid)
      BY <1>1, <1>6, <3>1, BlockAppended, NoticeFacts
    <3> QED
      BY <1>1, <1>6, <1>11, <3>1
  <2>2. LastNoticeOf(main', v) /\ (Unnoticed(main') => Unnoticed(mid))
    BY <1>11, <2>1, BlockAppended
  <2>3. MainUser(v) => MainUser(v)'
    BY <1>11 DEF MainUser, UserAt
  <2> QED
    BY <1>1, <1>2, <1>6, <1>11, <2>1, <2>2, <2>3 DEF MainUser, UserAt
<1>12. ASSUME NEW a \in stream.asks, TakeToken(a) PROVE UsersAreKnown'
  <2>1. UNCHANGED <<authUser, worker, fsUser>>
    BY <1>12 DEF TakeToken
  <2>2. \/ main' = main
        \/ \E x \in Tokens : x.kind = "token" /\ main' = Append(main, x)
    BY <1>12, TakeFacts
  <2> QED
    BY <1>1, <1>3, <1>11, <2>1, <2>2
<1>13. ASSUME NEW f \in fetching, TokenFetched(f) \/ TokenFailed(f) PROVE UsersAreKnown'
  <2>1. UNCHANGED <<authUser, worker, fsUser>> /\ f \in Tokens
    BY <1>1, <1>13 DEF TokenFetched, TokenFailed, Typed
  <2>2. f.user \in Signers
    BY <2>1 DEF Tokens
  <2>3. \E mid \in Seq(M), x \in Tokens :
          /\ main' = Append(mid, x) /\ x.kind = "token"
          /\ \/ mid = main
             \/ mid = Append(main, Notice(f.user)) /\ f.user = authUser
    BY <1>1, <1>13, AnswerComes
  <2> QED
    BY <1>11, <2>1, <2>2, <2>3
<1> QED
  BY <1>4, <1>5, <1>7, <1>8, <1>9, <1>10, <1>12, <1>13, NextCases


LEMMA TokensGrpc ==
  ASSUME IInv, UNCHANGED vars \/ StreamAlone \/ Commit \/ MutationResult \/ StreamFinished
  PROVE  TokensAreCurrent'
<1>1. UNCHANGED <<authUser, fetching, main, counter, worker, fsUser>>
  BY StreamAloneFacts DEF vars, Commit, MutationResult, StreamFinished, authVars
<1>2. stream'.state = "Open" => stream.state = "Open" /\ stream'.token = stream.token
  <2>1. CASE UNCHANGED vars
    BY <2>1 DEF vars
  <2>2. CASE StreamAlone \/ MutationResult \/ StreamFinished
    BY <2>2, StreamAloneFacts, AnswerStep, FinishStep DEF StreamGoesOn, Keeps
  <2>3. CASE Commit
    BY <2>3, CommitStep
  <2> QED
    BY <2>1, <2>2, <2>3
<1> QED
  BY <1>1, <1>2 DEF IInv, TokensAreCurrent, MainUser, UserAt, NoNotice

LEMMA TokensWorker ==
  ASSUME IInv, RunWrite \/ HandleCredentialChange \/ RunResume
  PROVE  TokensAreCurrent'
<1>1. Typed /\ TokensAreCurrent
  BY DEF IInv
<1>2. UNCHANGED <<authUser, fetching, main, counter>>
  BY DEF RunWrite, HandleCredentialChange, RunResume, authVars
<1>3. PICK kind : /\ Task(kind) /\ fsUser' = IF kind = "change" THEN worker[1].user ELSE fsUser
                  /\ RunResume => kind = "resume"
                  /\ RunWrite => kind = "write"
  <2>1. CASE RunWrite /\ ~RunResume
    BY <2>1 DEF RunWrite
  <2>2. CASE HandleCredentialChange /\ ~RunResume /\ ~RunWrite
    <3>1. fsUser' = worker[1].user /\ Task("change")
      BY <2>2, CredentialStep DEF HandleCredentialChange
    <3> QED
      BY <2>2, <3>1
  <2>3. CASE RunResume
    <3>1. Task("resume") /\ fsUser' = fsUser
      BY <2>3 DEF RunResume
    <3>2. ~RunWrite
      BY <3>1 DEF RunWrite, Task
    <3> QED
      BY <3>1, <3>2
  <2> QED
    BY <2>1, <2>2, <2>3
<1>4. /\ \A n \in Nat \ {0} : \A u : UserAt(n + 1, u) => UserAt(n, u)'
      /\ \A u : MainUser(u) => MainUser(u)'
  BY <1>1, <1>3, TailUsers
<1>5. /\ 1 \in DOMAIN worker /\ worker[1].kind = kind /\ DOMAIN worker = 1 .. Len(worker)
      /\ \A i \in DOMAIN worker' : i \in Nat \ {0}
      /\ \A i \in DOMAIN worker' : i + 1 \in DOMAIN worker /\ worker'[i] = worker[i + 1]
  <2>1. /\ 1 \in DOMAIN worker /\ worker[1].kind = kind /\ DOMAIN worker = 1 .. Len(worker)
        /\ DOMAIN worker' = 1 .. Len(worker) - 1 /\ Len(worker) \in Nat \ {0}
        /\ \A i \in DOMAIN worker' : i + 1 \in DOMAIN worker /\ worker'[i] = worker[i + 1]
    BY <1>1, <1>3, TaskRuns
  <2> QED
    BY <2>1
<1>6. NoNotice' => \A f \in fetching' : f.counter = counter' => f.user = authUser'
  BY <1>1, <1>2 DEF TokensAreCurrent, NoNotice
<1>7. ASSUME NEW i \in DOMAIN main', main'[i].kind = "token", main'[i].ok, main'[i].counter = counter',
             \A j \in DOMAIN main' : j < i => main'[j].kind # "notice",
             NEW u, u = main'[i].user
      PROVE  MainUser(u)'
  BY <1>1, <1>2, <1>4, <1>7 DEF TokensAreCurrent
<1>8. ASSUME NEW i \in DOMAIN worker', worker'[i].kind = "resume", worker'[i].ok,
             NEW u, u = worker'[i].user
      PROVE  UserAt(i, u)'
  BY <1>1, <1>4, <1>5, <1>8 DEF TokensAreCurrent
<1>9. stream'.state = "Open" => stream'.token = fsUser'
  <2>1. CASE HandleCredentialChange
    BY <2>1, CredentialStep
  <2>2. CASE RunWrite
    <3>1. fsUser' = fsUser /\ Keeps(stream, stream')
      BY <2>2, WriteStep DEF StreamGoesOn, RunWrite
    <3> QED
      BY <1>1, <3>1 DEF Keeps, TokensAreCurrent
  <2>3. CASE RunResume
    <3>1. fsUser' = fsUser
      BY <2>3 DEF RunResume
    <3>2. CASE stream' = stream
      BY <1>1, <3>1, <3>2 DEF TokensAreCurrent
    <3>3. CASE worker[1].ok /\ stream'.token = worker[1].user
      <4>1. UserAt(1, worker[1].user)
        BY <1>1, <1>3, <1>5, <2>3, <3>3 DEF TokensAreCurrent
      <4>2. \A j \in DOMAIN worker : ~(j < 1)
        BY <1>5
      <4> QED
        BY <3>1, <3>3, <4>1, <4>2 DEF UserAt
    <3>4. CASE Keeps(stream, stream')
      BY <1>1, <3>1, <3>4 DEF Keeps, TokensAreCurrent
    <3> QED
      BY <2>3, <3>2, <3>3, <3>4, ResumeStep DEF Proceeds
  <2> QED
    BY <2>1, <2>2, <2>3
<1> QED
  BY <1>6, <1>7, <1>8, <1>9 DEF TokensAreCurrent, MainUser, UserAt

(* The tokens on the worker queue after a task is put there.               *)
LEMMA ResumesAppended ==
  ASSUME Typed, TokensAreCurrent, NEW x \in Changes \cup Resumes \cup Writes,
         worker' = Append(worker, x), fsUser' = fsUser,
         x.kind = "resume" /\ x.ok => MainUser(x.user)
  PROVE  \A i \in DOMAIN worker' : worker'[i].kind = "resume" /\ worker'[i].ok =>
           \A u : u = worker'[i].user => UserAt(i, u)'
<1>1. PICK l : l = Len(worker)
  OBVIOUS
<1>2. /\ \A n \in 1 .. l + 1 : \A u : UserAt(n, u) => UserAt(n, u)'
      /\ worker'[l + 1] = x
      /\ \A i \in DOMAIN worker' : (i \in DOMAIN worker /\ worker'[i] = worker[i]) \/ i = l + 1
      /\ \A i \in DOMAIN worker : i \in 1 .. l + 1
      /\ \A u : MainUser(u) => UserAt(l + 1, u)'
  BY <1>1, AppendUsers
<1> QED
  BY <1>2 DEF TokensAreCurrent

LEMMA TokensThreads ==
  ASSUME IInv, AppWrite \/ RunNotice \/ RunToken \/ \E u \in Signers : UpdateCurrentUser(u)
  PROVE  TokensAreCurrent'
<1> DEFINE M == Notices \cup Tokens
           W == Changes \cup Resumes \cup Writes
<1>1. /\ Typed /\ TokensAreCurrent /\ UsersAreKnown /\ RequestsAreOld
      /\ main \in Seq(M) /\ worker \in Seq(W) /\ counter \in Nat
  BY DEF IInv, Typed
<1>2. fsUser' = fsUser /\ stream'.state = stream.state /\ stream'.token = stream.token
  <2>1. CASE RunToken
    BY <2>1, TokenRuns DEF RunToken
  <2>2. CASE AppWrite \/ RunNotice \/ \E u \in Signers : UpdateCurrentUser(u)
    BY <2>2 DEF AppWrite, RunNotice, UpdateCurrentUser
  <2> QED
    BY <2>1, <2>2
<1>3. stream'.state = "Open" => stream'.token = fsUser'
  BY <1>1, <1>2 DEF TokensAreCurrent
<1>4. CASE AppWrite
  <2>1. PICK x : x = [kind |-> "write"]
    OBVIOUS
  <2>2. /\ worker' = Append(worker, x) /\ x \in W /\ x.kind = "write"
        /\ UNCHANGED <<authUser, fetching, main, counter>>
    BY <1>4, <2>1 DEF AppWrite, Writes, authVars
  <2>3. \A u : MainUser(u) => MainUser(u)'
    <3>1. PICK l : l = Len(worker)
      OBVIOUS
    <3> QED
      BY <1>1, <1>2, <2>2, <3>1, AppendUsers
  <2>4. \A i \in DOMAIN worker' : worker'[i].kind = "resume" /\ worker'[i].ok =>
          \A u : u = worker'[i].user => UserAt(i, u)'
    BY <1>1, <1>2, <2>2, ResumesAppended
  <2>5. \A i \in DOMAIN main' :
          /\ main'[i].kind = "token" /\ main'[i].ok /\ main'[i].counter = counter'
          /\ \A j \in DOMAIN main' : j < i => main'[j].kind # "notice"
          => \A u : u = main'[i].user => MainUser(u)'
    BY <1>1, <2>2, <2>3 DEF TokensAreCurrent
  <2>6. NoNotice' => \A f \in fetching' : f.counter = counter' => f.user = authUser'
    BY <1>1, <2>2 DEF TokensAreCurrent, NoNotice
  <2> QED
    BY <1>3, <2>4, <2>5, <2>6 DEF TokensAreCurrent, MainUser, UserAt
<1>5. CASE RunNotice
  <2>1. PICK x : x = Change(main[1].user)
    OBVIOUS
  <2>2. /\ worker' = Append(worker, x) /\ x \in W /\ x.kind = "change" /\ counter' = counter + 1
        /\ \A i \in DOMAIN main' : i + 1 \in DOMAIN main /\ main'[i] = main[i + 1]
    BY <1>1, <1>5, <2>1, NoticeRuns
  <2>3. fetching' = fetching
    BY <1>5 DEF RunNotice, authVars
  <2>4. \A i \in DOMAIN worker' : worker'[i].kind = "resume" /\ worker'[i].ok =>
          \A u : u = worker'[i].user => UserAt(i, u)'
    BY <1>1, <1>2, <2>2, ResumesAppended
  <2>5. \A f \in fetching' : f.counter # counter'
    <3>1. \A f \in fetching : f.counter \in Nat /\ f.counter <= counter
      BY <1>1 DEF RequestsAreOld, Typed, Tokens
    <3> QED
      BY <1>1, <2>2, <2>3, <3>1
  <2>6. \A i \in DOMAIN main' : main'[i].kind = "token" => main'[i].counter # counter'
    <3>1. \A i \in DOMAIN main : main[i].kind = "token" =>
            main[i].counter \in Nat /\ main[i].counter <= counter
      <4>1. stream \in Streams
        BY CurrentQueue
      <4> QED
        BY <1>1, <4>1, RequestsTyped DEF RequestsAreOld
    <3> QED
      BY <1>1, <2>2, <3>1
  <2> QED
    BY <1>3, <2>4, <2>5, <2>6 DEF TokensAreCurrent, UserAt
<1>6. CASE RunToken
  <2>1. PICK x : x = main[1]
    OBVIOUS
  <2>2. PICK y : y = Resume(main[1])
    OBVIOUS
  <2>3. /\ main # << >> /\ x.kind = "token" /\ 1 \in DOMAIN main /\ DOMAIN main = 1 .. Len(main)
        /\ Len(main) \in Nat /\ DOMAIN main' = 1 .. Len(main) - 1
        /\ \A i \in DOMAIN main' : i + 1 \in DOMAIN main /\ main'[i] = main[i + 1]
        /\ \/ worker' = worker
           \/ /\ worker' = Append(worker, y) /\ y \in W /\ y.kind = "resume" /\ x.counter = counter
              /\ y.user = x.user /\ y.ok = x.ok
    BY <1>6, <2>1, <2>2, TokenRuns
  <2>4. UNCHANGED <<authUser, fetching, counter>>
    BY <1>6 DEF RunToken, authVars
  <2>5. \A j \in DOMAIN main : j # 1 => j - 1 \in DOMAIN main' /\ main[j] = main'[j - 1] /\ j \in Nat
    <3> SUFFICES ASSUME NEW j \in DOMAIN main, j # 1
                 PROVE  j - 1 \in DOMAIN main' /\ main[j] = main'[j - 1] /\ j \in Nat
      OBVIOUS
    <3>1. j - 1 \in DOMAIN main' /\ (j - 1) + 1 = j /\ j \in Nat
      BY <2>3
    <3> QED
      BY <2>3, <3>1
  <2>6. \A u : MainUser(u) => MainUser(u)'
    <3>1. CASE worker' = worker
      BY <1>2, <3>1 DEF MainUser, UserAt
    <3>2. CASE worker' = Append(worker, y) /\ y \in W /\ y.kind = "resume"
      <4>1. PICK l : l = Len(worker)
        OBVIOUS
      <4> QED
        BY <1>1, <1>2, <3>2, <4>1, AppendUsers
    <3> QED
      BY <2>3, <3>1, <3>2
  <2>7. \A i \in DOMAIN worker' : worker'[i].kind = "resume" /\ worker'[i].ok =>
          \A u : u = worker'[i].user => UserAt(i, u)'
    <3>1. CASE worker' = worker
      BY <1>1, <1>2, <3>1 DEF TokensAreCurrent, UserAt
    <3>2. CASE /\ worker' = Append(worker, y) /\ y \in W /\ y.kind = "resume"
               /\ x.counter = counter /\ y.user = x.user /\ y.ok = x.ok
      <4>1. \A j \in DOMAIN main : ~(j < 1)
        BY <2>3
      <4>2. y.ok => MainUser(y.user)
        BY <1>1, <2>1, <2>3, <3>2, <4>1 DEF TokensAreCurrent
      <4> QED
        BY <1>1, <1>2, <3>2, <4>2, ResumesAppended
    <3> QED
      BY <2>3, <3>1, <3>2
  <2>8. NoNotice' => NoNotice
    BY <2>1, <2>3, <2>5 DEF NoNotice
  <2>9. ASSUME NEW i \in DOMAIN main', main'[i].kind = "token", main'[i].ok,
               main'[i].counter = counter',
               \A j \in DOMAIN main' : j < i => main'[j].kind # "notice"
        PROVE  \A u : u = main'[i].user => MainUser(u)'
    <3>1. \A j \in DOMAIN main : j < i + 1 => main[j].kind # "notice"
      <4> SUFFICES ASSUME NEW j \in DOMAIN main, j < i + 1, j # 1 PROVE main[j].kind # "notice"
        BY <2>1, <2>3
      <4>1. j - 1 < i
        BY <2>3
      <4> QED
        BY <2>5, <2>9, <4>1
    <3>2. i + 1 \in DOMAIN main /\ main'[i] = main[i + 1]
      BY <2>3
    <3> QED
      BY <1>1, <2>4, <2>6, <2>9, <3>1, <3>2 DEF TokensAreCurrent
  <2>10. NoNotice' => \A f \in fetching' : f.counter = counter' => f.user = authUser'
    BY <1>1, <2>4, <2>8 DEF TokensAreCurrent
  <2> QED
    BY <1>3, <2>7, <2>9, <2>10 DEF TokensAreCurrent, MainUser, UserAt
<1>7. ASSUME NEW w \in Signers, UpdateCurrentUser(w) PROVE TokensAreCurrent'
  <2>1. /\ main' = Append(main, Notice(w)) /\ Notice(w) \in M /\ Notice(w).kind = "notice"
        /\ UNCHANGED <<fetching, counter, worker>>
    BY <1>7, NoticeFacts DEF UpdateCurrentUser
  <2>2. /\ ~Unnoticed(main')
        /\ \A i \in DOMAIN main' :
             (i \in DOMAIN main /\ main'[i] = main[i]) \/ main'[i].kind = "notice"
        /\ \A i \in DOMAIN main : i \in DOMAIN main' /\ main'[i] = main[i]
    <3>1. PICK x \in M : x = Notice(w)
      BY <2>1
    <3>2. x.kind = "notice" /\ main' = Append(main, x)
      BY <2>1, <3>1
    <3>3. /\ ~Unnoticed(main')
          /\ \A i \in DOMAIN main' :
               (i \in DOMAIN main /\ main'[i] = main[i]) \/ (i = Len(main) + 1 /\ main'[i] = x)
          /\ \A i \in DOMAIN main : i \in DOMAIN main' /\ main'[i] = main[i]
      BY SMTT(30), <1>1, <3>2, BlockAppended
    <3> QED
      BY <3>2, <3>3
  <2>3. ~NoNotice'
    BY <2>2 DEF NoNotice, Unnoticed
  <2>4. \A i \in DOMAIN main' :
          /\ main'[i].kind = "token" /\ main'[i].ok /\ main'[i].counter = counter'
          /\ \A j \in DOMAIN main' : j < i => main'[j].kind # "notice"
          => MainUser(main[i].user) /\ main'[i] = main[i]
    BY <1>1, <2>1, <2>2 DEF TokensAreCurrent
  <2> QED
    BY <1>1, <1>2, <1>3, <2>1, <2>3, <2>4 DEF TokensAreCurrent, MainUser, UserAt
<1> QED
  BY <1>4, <1>5, <1>6, <1>7

(* A token is put last in main, or waits for the network.                  *)
LEMMA TokensAuth ==
  ASSUME IInv, \/ \E a \in stream.asks : TakeToken(a)
               \/ \E f \in fetching : TokenFetched(f) \/ TokenFailed(f)
  PROVE  TokensAreCurrent'
<1> DEFINE M == Notices \cup Tokens
<1>1. /\ Typed /\ TokensAreCurrent /\ UsersAreKnown /\ main \in Seq(M)
      /\ fetching \subseteq Tokens
  BY DEF IInv, Typed
<1>2. UNCHANGED <<authUser, counter, worker, fsUser>>
  BY DEF TakeToken, TokenFetched, TokenFailed
<1>3. stream'.state = stream.state /\ stream'.token = stream.token
  <2>1. ASSUME NEW a \in stream.asks, TakeToken(a)
        PROVE  stream'.state = stream.state /\ stream'.token = stream.token
    BY <2>1, TakeFacts
  <2> QED
    BY <2>1 DEF TokenFetched, TokenFailed
<1>4. ASSUME NEW mid \in Seq(M), NEW x \in Tokens, x.kind = "token", main' = Append(mid, x),
             \/ mid = main
             \/ \E w \in Signers : mid = Append(main, Notice(w)),
             x.counter = counter /\ NoNotice => x.user = authUser
      PROVE  /\ NoNotice' => NoNotice
             /\ \A i \in DOMAIN main' :
                  /\ main'[i].kind = "token" /\ main'[i].ok /\ main'[i].counter = counter'
                  /\ \A j \in DOMAIN main' : j < i => main'[j].kind # "notice"
                  => MainUser(main'[i].user)
  <2>1. /\ \A i \in DOMAIN main' : (i \in DOMAIN mid /\ main'[i] = mid[i]) \/ (i = Len(mid) + 1 /\ main'[i] = x)
        /\ \A i \in DOMAIN mid : i \in DOMAIN main' /\ main'[i] = mid[i] /\ i < Len(mid) + 1
    BY <1>4, BlockAppended
  <2>2. /\ \A i \in DOMAIN mid : (i \in DOMAIN main /\ mid[i] = main[i]) \/ mid[i].kind = "notice"
        /\ \A i \in DOMAIN main : i \in DOMAIN mid /\ mid[i] = main[i]
    <3>1. ASSUME NEW w \in Signers, mid = Append(main, Notice(w))
          PROVE  /\ \A i \in DOMAIN mid : (i \in DOMAIN main /\ mid[i] = main[i]) \/ mid[i].kind = "notice"
                 /\ \A i \in DOMAIN main : i \in DOMAIN mid /\ mid[i] = main[i]
      BY <1>1, <3>1, BlockAppended, NoticeFacts
    <3> QED
      BY <1>4, <3>1
  <2>3. (\A j \in DOMAIN mid : mid[j].kind # "notice") => NoNotice
    BY <2>2 DEF NoNotice
  <2>4. NoNotice' => NoNotice
    BY <2>1, <2>3 DEF NoNotice
  <2>5. ASSUME NEW i \in DOMAIN main', main'[i].kind = "token", main'[i].ok,
               main'[i].counter = counter',
               \A j \in DOMAIN main' : j < i => main'[j].kind # "notice"
        PROVE  MainUser(main'[i].user)
    <3>1. CASE i \in DOMAIN mid /\ main'[i] = mid[i]
      <4>1. i \in DOMAIN main /\ main'[i] = main[i]
        BY <2>2, <2>5, <3>1
      <4>2. \A j \in DOMAIN main : j < i => main[j].kind # "notice"
        BY <2>1, <2>2, <2>5
      <4> QED
        BY <1>1, <1>2, <2>5, <4>1, <4>2 DEF TokensAreCurrent
    <3>2. CASE i = Len(mid) + 1 /\ main'[i] = x
      <4>1. NoNotice
        BY <2>1, <2>3, <2>5, <3>2
      <4>2. x.user = authUser
        BY <1>2, <1>4, <2>5, <3>2, <4>1
      <4> QED
        BY <1>1, <3>2, <4>1, <4>2 DEF UsersAreKnown
    <3> QED
      BY <2>1, <3>1, <3>2
  <2> QED
    BY <2>4, <2>5
<1>5. ASSUME \A i \in DOMAIN main' :
               /\ main'[i].kind = "token" /\ main'[i].ok /\ main'[i].counter = counter'
               /\ \A j \in DOMAIN main' : j < i => main'[j].kind # "notice"
               => MainUser(main'[i].user),
             NoNotice' => \A f \in fetching' : f.counter = counter' => f.user = authUser'
      PROVE  TokensAreCurrent'
  BY <1>1, <1>2, <1>3, <1>5 DEF TokensAreCurrent, MainUser, UserAt
<1>6. ASSUME NEW a \in stream.asks, TakeToken(a) PROVE TokensAreCurrent'
  <2> DEFINE x == Token(a, authUser, TRUE)
  <2>1. /\ x \in Tokens /\ x.kind = "token" /\ x.user = authUser
        /\ \/ main' = Append(main, x) /\ fetching' = fetching
           \/ main' = main /\ fetching' = fetching \cup {x}
    BY <1>6, TakeFacts
  <2> HIDE DEF x
  <2>2. CASE main' = Append(main, x) /\ fetching' = fetching
    <3>1. /\ NoNotice' => NoNotice
          /\ \A i \in DOMAIN main' :
               /\ main'[i].kind = "token" /\ main'[i].ok /\ main'[i].counter = counter'
               /\ \A j \in DOMAIN main' : j < i => main'[j].kind # "notice"
               => MainUser(main'[i].user)
      BY <1>1, <1>4, <2>1, <2>2
    <3> QED
      BY <1>1, <1>2, <1>5, <2>2, <3>1 DEF TokensAreCurrent
  <2>3. CASE main' = main /\ fetching' = fetching \cup {x}
    <3>1. NoNotice' => NoNotice
      BY <2>3 DEF NoNotice
    <3> QED
      BY <1>1, <1>2, <1>5, <2>1, <2>3, <3>1 DEF TokensAreCurrent
  <2> QED
    BY <2>1, <2>2, <2>3
<1>7. ASSUME NEW f \in fetching, TokenFetched(f) \/ TokenFailed(f) PROVE TokensAreCurrent'
  <2>1. PICK mid \in Seq(M), g \in Tokens :
          /\ main' = Append(mid, g) /\ g.kind = "token" /\ g.counter = f.counter /\ g.user = f.user
          /\ \/ mid = main
             \/ mid = Append(main, Notice(f.user))
    BY <1>1, <1>7, AnswerComes
  <2>2. f.user \in Signers /\ fetching' = fetching \ {f}
    BY <1>1, <1>7 DEF TokenFetched, TokenFailed, Tokens
  <2>3. g.counter = counter /\ NoNotice => g.user = authUser
    BY <1>1, <2>1 DEF TokensAreCurrent
  <2>4. /\ NoNotice' => NoNotice
        /\ \A i \in DOMAIN main' :
             /\ main'[i].kind = "token" /\ main'[i].ok /\ main'[i].counter = counter'
             /\ \A j \in DOMAIN main' : j < i => main'[j].kind # "notice"
             => MainUser(main'[i].user)
    BY <1>4, <2>1, <2>2, <2>3
  <2> QED
    BY <1>1, <1>2, <1>5, <2>2, <2>4 DEF TokensAreCurrent
<1> QED
  BY <1>6, <1>7

LEMMA TokensStep ==
  ASSUME IInv, [Next]_vars
  PROVE  TokensAreCurrent'
BY NextCases, TokensGrpc, TokensWorker, TokensThreads, TokensAuth


-----------------------------------------------------------------------------
(* The queues. *)

LEMMA TailOrdered ==
  ASSUME NEW q \in Seq(Batches), Ascending(q), q # << >>
  PROVE  /\ Ascending(Tail(q))
         /\ \A i \in 1 .. Len(Tail(q)) : \E j \in 1 .. Len(q) : Tail(q)[i] = q[j]
<1>1. /\ Len(q) \in Nat \ {0} /\ Len(Tail(q)) = Len(q) - 1
      /\ \A i \in 1 .. Len(q) - 1 : Tail(q)[i] = q[i + 1]
  BY TailMovesUp
<1>2. \A i \in 1 .. Len(q) - 1 : i + 1 \in 1 .. Len(q)
  BY <1>1
<1>3. ASSUME NEW i \in 1 .. Len(Tail(q)), NEW j \in 1 .. Len(Tail(q)), i < j
      PROVE  Tail(q)[i] < Tail(q)[j]
  <2>1. i + 1 \in 1 .. Len(q) /\ j + 1 \in 1 .. Len(q) /\ i + 1 < j + 1
    BY <1>1, <1>3
  <2>2. q[i + 1] < q[j + 1]
    BY <2>1 DEF Ascending
  <2> QED
    BY <1>1, <2>2
<1> QED
  BY <1>1, <1>2, <1>3 DEF Ascending

(* The front of the user's queue is answered, and goes. *)
LEMMA FrontGone ==
  ASSUME IInv, queue[fsUser] # << >>, NEW a, a # "none",
         queue' = [queue EXCEPT ![fsUser] = Tail(queue[fsUser])],
         answer' = [answer EXCEPT ![queue[fsUser][1]] = a], owner' = owner
  PROVE  QueuesAreOrdered' /\ Made' = Made
<1> DEFINE q == queue[fsUser]
           b == q[1]
<1>1. /\ q \in Seq(Batches) /\ Ascending(q) /\ fsUser \in Signers
      /\ queue \in [Signers -> Seq(Batches)] /\ DOMAIN answer = Batches
  BY CurrentQueue DEF IInv, Typed
<1>2. 1 \in 1 .. Len(q)
  BY <1>1, TailMovesUp
<1>3. b \in Batches /\ answer[b] # "none"
  BY <1>1, <1>2 DEF IInv, QueuesAreOrdered
<1>4. Made' = Made
  BY <1>1, <1>3 DEF Made
<1>5. ASSUME NEW u \in Signers
      PROVE  /\ Ascending(queue'[u])
             /\ \A i \in 1 .. Len(queue'[u]) : \E j \in 1 .. Len(queue[u]) : queue'[u][i] = queue[u][j]
  <2>1. CASE u = fsUser
    BY <1>1, <2>1, TailOrdered
  <2>2. CASE u # fsUser
    BY <1>1, <2>2 DEF IInv, QueuesAreOrdered
  <2> QED
    BY <2>1, <2>2
<1>6. ASSUME NEW u \in Signers, NEW i \in 1 .. Len(queue'[u])
      PROVE  answer'[queue'[u][i]] # "none" /\ owner'[queue'[u][i]] = u
  <2>1. PICK j \in 1 .. Len(queue[u]) : queue'[u][i] = queue[u][j]
    BY <1>5
  <2>2. queue[u][j] \in Batches /\ answer[queue[u][j]] # "none" /\ owner[queue[u][j]] = u
    BY <1>1 DEF IInv, QueuesAreOrdered
  <2>3. answer'[queue[u][j]] # "none"
    BY <1>1, <2>2
  <2> QED
    BY <2>1, <2>2, <2>3
<1>7. Made' = 1 .. Cardinality(Made')
  BY <1>4 DEF IInv, QueuesAreOrdered
<1> QED
  BY <1>4, <1>5, <1>6, <1>7 DEF QueuesAreOrdered

(* Which write is made, and which writes there are then. *)
LEMMA OneMoreMade ==
  ASSUME IInv, RunWrite
  PROVE  Cardinality(Made') = Cardinality(Made) + 1 /\ Made' = 1 .. Cardinality(Made')
<1> DEFINE n == Cardinality(Made)
           b == 1 + n
<1>1. /\ b \in Batches /\ b \notin Made /\ n \in Nat /\ Made = 1 .. n
      /\ answer' = [answer EXCEPT ![b] = "waiting"]
  BY NewWrite
<1>2. DOMAIN answer = Batches
  BY DEF IInv, Typed
<1> HIDE DEF n
<1>3. Made' = Made \cup {b}
  BY <1>1, <1>2 DEF Made
<1>4. Made' = 1 .. b /\ b \in Nat
  BY <1>1, <1>3
<1>5. Cardinality(1 .. b) = b
  BY <1>4, FS_Interval
<1> QED
  BY <1>1, <1>4, <1>5 DEF n

LEMMA QueuesUnchanged ==
  ASSUME QueuesAreOrdered, UNCHANGED <<queue, answer, owner>>
  PROVE  QueuesAreOrdered'
BY DEF QueuesAreOrdered, Made

LEMMA QueuesWritten ==
  ASSUME IInv, RunWrite
  PROVE  QueuesAreOrdered'
<1> DEFINE b == 1 + Cardinality(Made)
<1>1. /\ b \in Batches /\ b \notin Made
      /\ queue' = [queue EXCEPT ![fsUser] = Append(@, b)]
      /\ answer' = [answer EXCEPT ![b] = "waiting"]
      /\ owner' = [owner EXCEPT ![b] = fsUser]
  BY NewWrite
<1>2. \A u \in Signers : Ascending(queue'[u])
  BY WriteStep
<1>3. /\ queue \in [Signers -> Seq(Batches)] /\ fsUser \in Signers
      /\ DOMAIN answer = Batches /\ DOMAIN owner = Batches
  BY DEF IInv, Typed
<1> HIDE DEF b
<1>4. ASSUME NEW u \in Signers, NEW i \in 1 .. Len(queue'[u])
      PROVE  answer'[queue'[u][i]] # "none" /\ owner'[queue'[u][i]] = u
  <2>1. CASE u = fsUser /\ i \notin 1 .. Len(queue[u])
    <3>1. queue'[u] = Append(queue[u], b) /\ queue[u] \in Seq(Batches)
      BY <1>1, <1>3, <2>1
    <3>2. queue'[u][i] = b
      BY <1>1, <2>1, <3>1, AppendComesLast
    <3> QED
      BY <1>1, <1>3, <2>1, <3>2
  <2>2. CASE i \in 1 .. Len(queue[u]) \/ u # fsUser
    <3>1. i \in 1 .. Len(queue[u]) /\ queue'[u][i] = queue[u][i] /\ queue[u] \in Seq(Batches)
      <4>1. CASE u = fsUser
        <5>1. queue'[u] = Append(queue[u], b) /\ queue[u] \in Seq(Batches)
          BY <1>1, <1>3, <4>1
        <5> QED
          BY <1>1, <2>2, <4>1, <5>1, AppendComesLast
      <4>2. CASE u # fsUser
        BY <1>1, <1>3, <2>2, <4>2
      <4> QED
        BY <4>1, <4>2
    <3>2. /\ queue[u][i] \in Batches /\ answer[queue[u][i]] # "none"
          /\ owner[queue[u][i]] = u
      BY <3>1 DEF IInv, QueuesAreOrdered
    <3>3. queue[u][i] # b
      BY <1>1, <3>2 DEF Made
    <3> QED
      BY <1>1, <1>3, <3>1, <3>2, <3>3
  <2> QED
    BY <2>1, <2>2
<1> QED
  BY <1>2, <1>4, OneMoreMade DEF QueuesAreOrdered

(* A step makes a write, answers the one at the front of the queue, or     *)
(* leaves the queues alone.                                                *)
LEMMA QueueCases ==
  ASSUME IInv, [Next]_vars
  PROVE  \/ RunWrite
         \/ UNCHANGED <<queue, answer, owner>>
         \/ /\ queue[fsUser] # << >> /\ stream.pipeline[1] = queue[fsUser][1]
            /\ queue' = [queue EXCEPT ![fsUser] = Tail(queue[fsUser])] /\ owner' = owner
            /\ \/ MutationResult /\ answer' = [answer EXCEPT ![queue[fsUser][1]] = "acknowledged"]
               \/ /\ StreamFinished /\ BlamesFront(stream, stream.status)
                  /\ answer' = [answer EXCEPT ![queue[fsUser][1]] = "rejected"]
<1>1. CASE MutationResult
  <2>1. /\ queue' = [queue EXCEPT ![fsUser] = Tail(queue[fsUser])] /\ stream.pipeline # << >>
    BY <1>1, AnswerStep
  <2>2. /\ queue' = [queue EXCEPT ![fsUser] = RemoveFirst(@, stream.pipeline[1])]
        /\ answer' = [answer EXCEPT ![stream.pipeline[1]] = "acknowledged"] /\ owner' = owner
    BY <1>1 DEF MutationResult, history
  <2>3. queue[fsUser] # << >> /\ stream.pipeline[1] = queue[fsUser][1]
    BY <2>1, <2>2, QueueFront
  <2> QED
    BY <1>1, <2>1, <2>2, <2>3
<1>2. CASE StreamFinished
  <2>1. owner' = owner
    BY <1>2 DEF StreamFinished, history
  <2> QED
    BY <1>2, <2>1, FinishStep
<1>3. CASE UNCHANGED vars
  BY <1>3 DEF vars
<1>4. CASE StreamAlone
  BY <1>4, StreamAloneFacts DEF history
<1>5. CASE Commit \/ HandleCredentialChange \/ RunResume \/ RunNotice \/ RunToken \/ AppWrite
  <2>1. UNCHANGED <<queue, answer, owner>>
    BY <1>5, Zenon DEF Commit, HandleCredentialChange, RunResume, RunNotice, RunToken, AppWrite,
                       history
  <2> QED
    BY <2>1
<1>6. ASSUME NEW a, TakeToken(a) PROVE UNCHANGED <<queue, answer, owner>>
  BY <1>6 DEF TakeToken, history
<1>7. ASSUME NEW f, TokenFetched(f) \/ TokenFailed(f) PROVE UNCHANGED <<queue, answer, owner>>
  BY <1>7 DEF TokenFetched, TokenFailed, history
<1>8. ASSUME NEW u, UpdateCurrentUser(u) PROVE UNCHANGED <<queue, answer, owner>>
  BY <1>8 DEF UpdateCurrentUser, history
<1> QED
  BY <1>1, <1>2, <1>3, <1>4, <1>5, <1>6, <1>7, <1>8, NextCases

LEMMA QueuesStep ==
  ASSUME IInv, [Next]_vars
  PROVE  QueuesAreOrdered' /\ (Made' = Made \/ RunWrite)
<1>1. CASE RunWrite
  BY <1>1, QueuesWritten
<1>2. CASE UNCHANGED <<queue, answer, owner>>
  BY <1>2, QueuesUnchanged DEF IInv, Made
<1> QED
  BY <1>1, <1>2, QueueCases, FrontGone

-----------------------------------------------------------------------------
(* The bounds: how the number of blocks of a kind changes.                 *)

LEMMA WaitingFinite ==
  ASSUME NEW T, NEW q \in Seq(T), NEW kind
  PROVE  /\ IsFiniteSet({i \in DOMAIN q : q[i].kind = kind})
         /\ Waiting(q, kind) \in Nat
<1>1. DOMAIN q = 1 .. Len(q) /\ Len(q) \in Nat
  OBVIOUS
<1>2. IsFiniteSet(DOMAIN q)
  BY <1>1, FS_Interval
<1>3. IsFiniteSet({i \in DOMAIN q : q[i].kind = kind})
  BY <1>2, FS_Subset
<1> QED
  BY <1>3, FS_CardinalityType DEF Waiting

LEMMA WaitingAppended ==
  ASSUME NEW T, NEW q \in Seq(T), NEW x \in T, NEW kind
  PROVE  /\ x.kind = kind => Waiting(Append(q, x), kind) = Waiting(q, kind) + 1
         /\ x.kind # kind => Waiting(Append(q, x), kind) = Waiting(q, kind)
<1> DEFINE r == Append(q, x)
           n == Len(q)
           S == {i \in DOMAIN q : q[i].kind = kind}
           R == {i \in DOMAIN r : r[i].kind = kind}
<1>1. /\ n \in Nat /\ DOMAIN q = 1 .. n /\ DOMAIN r = 1 .. n + 1 /\ r[n + 1] = x
      /\ \A i \in 1 .. n : r[i] = q[i]
  BY AppendComesLast
<1> HIDE DEF r, n
<1>2. n + 1 \notin S
  BY <1>1
<1>3. IsFiniteSet(S)
  BY WaitingFinite
<1>4. x.kind = kind => R = S \cup {n + 1}
  BY <1>1
<1>5. x.kind # kind => R = S
  BY <1>1
<1>6. Waiting(r, kind) = Cardinality(R) /\ Waiting(q, kind) = Cardinality(S)
  BY DEF Waiting
<1> HIDE DEF R, S
<1>7. Cardinality(S \cup {n + 1}) = Cardinality(S) + 1
  BY <1>2, <1>3, FS_AddElement
<1> QED
  BY <1>4, <1>5, <1>6, <1>7 DEF r

LEMMA WaitingTaken ==
  ASSUME NEW T, NEW q \in Seq(T), q # << >>, NEW kind
  PROVE  /\ q[1].kind = kind => Waiting(Tail(q), kind) = Waiting(q, kind) - 1
         /\ q[1].kind # kind => Waiting(Tail(q), kind) = Waiting(q, kind)
<1> DEFINE r == Tail(q)
           n == Len(q)
           S == {i \in DOMAIN q : q[i].kind = kind}
           R == {i \in DOMAIN r : r[i].kind = kind}
           next == [i \in R |-> i + 1]
<1>1. /\ n \in Nat \ {0} /\ DOMAIN q = 1 .. n /\ DOMAIN r = 1 .. n - 1
      /\ \A i \in 1 .. n - 1 : r[i] = q[i + 1] /\ i + 1 \in 1 .. n
  BY TailMovesUp
<1>2. IsFiniteSet(S)
  BY WaitingFinite
<1>3. IsFiniteSet(R)
  <2>1. r \in Seq(T)
    BY TailMovesUp
  <2> QED
    BY <2>1, WaitingFinite
<1> HIDE DEF r, n
<1>4. next \in Bijection(R, S \ {1})
  <2>1. \A i \in R : i \in Nat /\ i + 1 \in S \ {1}
    BY <1>1
  <2>2. next \in [R -> S \ {1}]
    BY <2>1
  <2>3. \A a, b \in R : next[a] = next[b] => a = b
    BY <2>1
  <2>4. ASSUME NEW t \in S \ {1} PROVE \E i \in R : next[i] = t
    <3>1. t - 1 \in 1 .. n - 1 /\ (t - 1) + 1 = t
      BY <1>1
    <3>2. t - 1 \in R
      BY <1>1, <3>1
    <3> QED
      BY <3>1, <3>2
  <2> HIDE DEF next
  <2> QED
    BY <2>2, <2>3, <2>4, Zenon DEF Bijection, Injection, Surjection, IsInjective
<1>5. Waiting(r, kind) = Cardinality(R) /\ Waiting(q, kind) = Cardinality(S)
  BY DEF Waiting
<1>6. 1 \in S <=> q[1].kind = kind
  BY <1>1
<1> HIDE DEF R, S, next
<1>7. Cardinality(S \ {1}) = Cardinality(R)
  BY <1>3, <1>4, FS_Bijection DEF ExistsBijection
<1>8. Cardinality(S \ {1}) = IF 1 \in S THEN Cardinality(S) - 1 ELSE Cardinality(S)
  BY <1>2, FS_RemoveElement
<1> QED
  BY <1>5, <1>6, <1>7, <1>8 DEF r

LEMMA CountsTyped ==
  ASSUME IInv
  PROVE  /\ counter \in Nat /\ MaxNotices \in Nat /\ MaxWrites \in Nat
         /\ Waiting(main, "notice") \in Nat /\ Waiting(worker, "write") \in Nat
         /\ IsFiniteSet(fetching) /\ Cardinality(fetching) \in Nat
         /\ NoticesMade <= MaxNotices
         /\ Waiting(worker, "write") + Cardinality(Made) <= MaxWrites
<1>1. Typed /\ MaxNotices \in Nat /\ MaxWrites \in Nat
  BY StreamAssumption DEF IInv, StreamAssumption
<1>2. Waiting(main, "notice") \in Nat /\ Waiting(worker, "write") \in Nat
  BY <1>1, WaitingFinite DEF Typed
<1>3. IsFiniteSet(fetching) /\ Cardinality(fetching) \in Nat
  BY <1>1, FS_CardinalityType DEF Typed
<1> QED
  BY <1>1, <1>2, <1>3 DEF IInv, Bounded, Typed

(* A notice is made within the bound, and only moves after that. *)
LEMMA NoticesStep ==
  ASSUME IInv, [Next]_vars
  PROVE  (NoticesMade <= MaxNotices)'
<1> DEFINE M == Notices \cup Tokens
           c == counter
           w == Waiting(main, "notice")
           k == Cardinality(fetching)
<1>1. /\ c \in Nat /\ w \in Nat /\ k \in Nat /\ MaxNotices \in Nat
      /\ c + w + k <= MaxNotices /\ IsFiniteSet(fetching)
  BY CountsTyped DEF NoticesMade
<1>2. main \in Seq(M) /\ fetching \in SUBSET Tokens /\ authUser \in Signers
  BY DEF IInv, Typed
<1> SUFFICES counter' + Waiting(main', "notice") + Cardinality(fetching') <= MaxNotices
  BY DEF NoticesMade
<1>3. CASE UNCHANGED <<counter, main, fetching>>
  BY <1>1, <1>3
<1>4. ASSUME NEW a \in stream.asks, TakeToken(a)
      PROVE  counter' + Waiting(main', "notice") + Cardinality(fetching') <= MaxNotices
  <2> DEFINE x == Token(a, authUser, TRUE)
  <2>1. /\ x \in Tokens /\ x.kind = "token" /\ counter' = counter
        /\ \/ main' = Append(main, x) /\ fetching' = fetching
           \/ main' = main /\ fetching' = fetching \cup {x} /\ NoticesMade < MaxNotices
    BY <1>4, TakeFacts DEF TakeToken
  <2> HIDE DEF x
  <2>2. CASE main' = Append(main, x) /\ fetching' = fetching
    <3>1. Waiting(main', "notice") = w
      BY <1>2, <2>1, <2>2, WaitingAppended
    <3> QED
      BY <1>1, <2>1, <2>2, <3>1
  <2>3. CASE main' = main /\ fetching' = fetching \cup {x} /\ NoticesMade < MaxNotices
    <3>1. Cardinality(fetching') \in {k, k + 1}
      BY <1>1, <2>3, FS_AddElement
    <3>2. c + w + k < MaxNotices
      BY <2>3 DEF NoticesMade
    <3> HIDE DEF c, w, k
    <3> QED
      BY <1>1, <2>1, <2>3, <3>1, <3>2 DEF c, w
  <2> QED
    BY <2>1, <2>2, <2>3
<1>5. ASSUME NEW f \in fetching, TokenFetched(f) \/ TokenFailed(f)
      PROVE  counter' + Waiting(main', "notice") + Cardinality(fetching') <= MaxNotices
  <2>1. fetching' = fetching \ {f} /\ counter' = counter /\ f \in Tokens
    BY <1>2, <1>5 DEF TokenFetched, TokenFailed
  <2>2. Cardinality(fetching') = k - 1
    BY <1>1, <2>1, FS_RemoveElement
  <2>3. Waiting(main', "notice") \in {w, w + 1}
    <3>1. f.kind = "token" /\ f.user \in Signers /\ f \in M
      BY <2>1 DEF Tokens
    <3>2. CASE main' = Append(main, f)
      BY <1>2, <3>1, <3>2, WaitingAppended
    <3>3. CASE main' = main \o <<Notice(f.user), f>>
      <4> DEFINE n == Notice(f.user)
      <4>1. n \in M /\ n.kind = "notice"
        BY <3>1, NoticeFacts
      <4> HIDE DEF n, M
      <4>2. main' = Append(Append(main, n), f)
        BY <1>2, <3>1, <3>3, <4>1, TwoAppended DEF n
      <4>3. Append(main, n) \in Seq(M)
        BY <1>2, <4>1, AppendComesLast
      <4>4. Waiting(Append(main, n), "notice") = w + 1
        BY <1>2, <4>1, WaitingAppended
      <4>5. Waiting(main', "notice") = Waiting(Append(main, n), "notice")
        <5>1. PICK r \in Seq(M) : r = Append(main, n)
          BY <4>3
        <5>2. main' = Append(r, f) /\ f.kind # "notice"
          BY <3>1, <4>2, <5>1
        <5>3. Waiting(Append(r, f), "notice") = Waiting(r, "notice")
          BY <3>1, <5>2, WaitingAppended
        <5> QED
          BY <5>1, <5>2, <5>3
      <4> QED
        BY <4>4, <4>5
    <3>4. CASE main' = Append(main, [f EXCEPT !.ok = FALSE])
      <4>1. [f EXCEPT !.ok = FALSE] \in M /\ [f EXCEPT !.ok = FALSE].kind = "token"
        BY <2>1, FailedToken
      <4> QED
        BY <1>2, <3>4, <4>1, WaitingAppended
    <3> QED
      BY <1>5, <3>2, <3>3, <3>4 DEF TokenFetched, TokenFailed
  <2> HIDE DEF c, w, k
  <2> QED
    BY <1>1, <2>1, <2>2, <2>3 DEF c
<1>6. CASE RunNotice
  <2>1. /\ main # << >> /\ main[1].kind = "notice" /\ main' = Tail(main) /\ counter' = counter + 1
    BY <1>6, NoticeRuns DEF IInv
  <2>2. Waiting(main', "notice") = w - 1
    BY <1>2, <2>1, WaitingTaken
  <2>3. fetching' = fetching
    BY <1>6 DEF RunNotice, authVars
  <2> QED
    BY <1>1, <2>1, <2>2, <2>3
<1>7. CASE RunToken
  <2>1. main # << >> /\ main[1].kind = "token" /\ main' = Tail(main)
    BY <1>7, TokenRuns
  <2>2. Waiting(main', "notice") = w
    BY <1>2, <2>1, WaitingTaken
  <2>3. UNCHANGED <<fetching, counter>>
    BY <1>7 DEF RunToken, authVars
  <2> QED
    BY <1>1, <2>2, <2>3
<1>8. ASSUME NEW u \in Signers, UpdateCurrentUser(u)
      PROVE  counter' + Waiting(main', "notice") + Cardinality(fetching') <= MaxNotices
  <2>1. /\ main' = Append(main, Notice(u)) /\ UNCHANGED <<fetching, counter>>
        /\ c + w + k < MaxNotices
    BY <1>8 DEF UpdateCurrentUser, NoticesMade
  <2>2. Notice(u) \in M /\ Notice(u).kind = "notice"
    BY <1>8, NoticeFacts
  <2>3. Waiting(main', "notice") = w + 1
    BY <1>2, <2>1, <2>2, WaitingAppended
  <2> QED
    BY <1>1, <2>1, <2>3
<1>9. CASE UNCHANGED vars
  <2>1. UNCHANGED <<counter, main, fetching>>
    BY <1>9 DEF vars
  <2> QED
    BY <1>3, <2>1
<1>10. CASE StreamAlone
  <2>1. UNCHANGED <<counter, main, fetching>>
    BY <1>10, StreamAloneFacts DEF authVars
  <2> QED
    BY <1>3, <2>1
<1>11. CASE \/ Commit \/ MutationResult \/ StreamFinished \/ RunWrite
            \/ HandleCredentialChange \/ RunResume \/ AppWrite
  <2>1. UNCHANGED <<counter, main, fetching>>
    BY <1>11, Zenon DEF Commit, MutationResult, StreamFinished, RunWrite, HandleCredentialChange,
                        RunResume, AppWrite, authVars
  <2> QED
    BY <1>3, <2>1
<1> QED
  BY <1>4, <1>5, <1>6, <1>7, <1>8, <1>9, <1>10, <1>11, NextCases

(* A write waits, or is one of those made. *)
LEMMA WritesStep ==
  ASSUME IInv, [Next]_vars
  PROVE  (Waiting(worker, "write") + Cardinality(Made) <= MaxWrites)'
<1> DEFINE W == Changes \cup Resumes \cup Writes
           w == Waiting(worker, "write")
           n == Cardinality(Made)
<1>1. /\ w \in Nat /\ n \in Nat /\ MaxWrites \in Nat /\ w + n <= MaxWrites
      /\ worker \in Seq(W) /\ Typed
  <2>1. n \in Nat
    <3>1. IsFiniteSet(Batches)
      BY CountsTyped, FS_Interval DEF Batches
    <3> QED
      BY <3>1, FS_Subset, FS_CardinalityType DEF Made
  <2> QED
    BY <2>1, CountsTyped DEF IInv, Typed
<1> SUFFICES Waiting(worker', "write") + Cardinality(Made') <= MaxWrites
  OBVIOUS
<1>2. CASE RunWrite
  <2>1. worker # << >> /\ worker[1].kind = "write" /\ worker' = Tail(worker)
    BY <1>1, <1>2, TaskRuns DEF RunWrite
  <2>2. Waiting(worker', "write") = w - 1
    BY <1>1, <2>1, WaitingTaken
  <2>3. Cardinality(Made') = n + 1
    BY <1>2, OneMoreMade
  <2> QED
    BY <1>1, <2>2, <2>3
<1>3. ASSUME ~RunWrite PROVE Cardinality(Made') = n
  BY <1>3, QueuesStep
<1>4. ASSUME ~RunWrite, Waiting(worker', "write") = w
      PROVE  Waiting(worker', "write") + Cardinality(Made') <= MaxWrites
  BY <1>1, <1>3, <1>4
<1>5. CASE ~RunWrite /\ (HandleCredentialChange \/ RunResume)
  <2>1. worker # << >> /\ worker[1].kind # "write" /\ worker' = Tail(worker)
    <3>1. CASE HandleCredentialChange
      BY <1>1, <3>1, TaskRuns DEF HandleCredentialChange
    <3>2. CASE RunResume
      BY <1>1, <3>2, TaskRuns DEF RunResume
    <3> QED
      BY <1>5, <3>1, <3>2
  <2>2. Waiting(worker', "write") = w
    BY <1>1, <2>1, WaitingTaken
  <2> QED
    BY <1>4, <1>5, <2>2
<1>6. CASE ~RunWrite /\ RunNotice
  <2> DEFINE x == Change(main[1].user)
  <2>1. worker' = Append(worker, x) /\ x \in W /\ x.kind = "change"
    BY <1>1, <1>6, NoticeRuns
  <2> HIDE DEF x
  <2>2. Waiting(worker', "write") = w
    BY <1>1, <2>1, WaitingAppended
  <2> QED
    BY <1>4, <1>6, <2>2
<1>7. CASE ~RunWrite /\ RunToken
  <2> DEFINE x == Resume(main[1])
  <2>1. worker' = worker \/ (worker' = Append(worker, x) /\ x \in W /\ x.kind = "resume")
    BY <1>7, TokenRuns
  <2> HIDE DEF x
  <2>2. CASE worker' = worker
    BY <1>4, <1>7, <2>2
  <2>3. CASE worker' = Append(worker, x) /\ x \in W /\ x.kind = "resume"
    <3>1. Waiting(worker', "write") = w
      BY <1>1, <2>3, WaitingAppended
    <3> QED
      BY <1>4, <1>7, <3>1
  <2> QED
    BY <2>1, <2>2, <2>3
<1>8. CASE ~RunWrite /\ AppWrite
  <2> DEFINE x == [kind |-> "write"]
  <2>1. worker' = Append(worker, x) /\ x \in W /\ x.kind = "write"
    BY <1>8 DEF AppWrite, Writes
  <2>2. w + n < MaxWrites
    BY <1>8 DEF AppWrite, Made
  <2> HIDE DEF x
  <2>3. Waiting(worker', "write") = w + 1
    BY <1>1, <2>1, WaitingAppended
  <2> QED
    BY <1>1, <1>3, <1>8, <2>2, <2>3
<1>9. CASE ~RunWrite /\ worker' = worker
  BY <1>4, <1>9
<1>10. \/ RunWrite \/ HandleCredentialChange \/ RunResume \/ RunNotice \/ RunToken \/ AppWrite
       \/ worker' = worker
  <2>1. CASE UNCHANGED vars
    BY <2>1 DEF vars
  <2>2. CASE StreamAlone
    BY <2>2, StreamAloneFacts
  <2>3. CASE Commit \/ MutationResult \/ StreamFinished
    BY <2>3, Zenon DEF Commit, MutationResult, StreamFinished
  <2>4. ASSUME NEW a, TakeToken(a) PROVE worker' = worker
    BY <2>4 DEF TakeToken
  <2>5. ASSUME NEW f, TokenFetched(f) \/ TokenFailed(f) PROVE worker' = worker
    BY <2>5 DEF TokenFetched, TokenFailed
  <2>6. ASSUME NEW u, UpdateCurrentUser(u) PROVE worker' = worker
    BY <2>6 DEF UpdateCurrentUser
  <2> QED
    BY <2>1, <2>2, <2>3, <2>4, <2>5, <2>6, NextCases
<1> QED
  BY <1>2, <1>5, <1>6, <1>7, <1>8, <1>9, <1>10

LEMMA BoundedStep ==
  ASSUME IInv, [Next]_vars
  PROVE  Bounded'
BY NoticesStep, WritesStep DEF Bounded

-----------------------------------------------------------------------------
(* What was executed. *)

LEMMA StreamKept ==
  ASSUME IInv, [Next]_vars
  PROVE  /\ Commit \/ Keeps(stream, stream') \/ stream'.done = 0
         /\ Unheard(stream, stream') \/ (stream'.token = stream.token /\ Next1 \in Refused)
<1>1. stream \in Streams
  BY CurrentQueue
<1>2. stream' = stream => Keeps(stream, stream') /\ Unheard(stream, stream')
  BY <1>1 DEF Keeps, Unheard, Streams
<1>3. CASE UNCHANGED vars
  BY <1>2, <1>3 DEF vars
<1>4. CASE StreamAlone
  BY <1>4, StreamAloneFacts DEF StreamGoesOn
<1>5. CASE MutationResult \/ StreamFinished \/ RunWrite \/ HandleCredentialChange
  BY <1>5, AnswerStep, FinishStep, WriteStep, CredentialStep DEF Proceeds
<1>6. CASE Commit
  BY <1>6, CommitStep DEF Unheard
<1>7. CASE RunResume
  <2>1. CASE stream' = stream
    BY <1>2, <2>1
  <2>2. CASE stream'.done = 0 /\ (stream'.status = "ok" \/ Proceeds(stream, stream'))
    BY <2>2 DEF Unheard, Proceeds
  <2> QED
    BY <1>7, <2>1, <2>2, ResumeStep
<1>8. ASSUME stream'.state = stream.state, stream'.token = stream.token,
             stream'.done = stream.done, stream'.pipeline = stream.pipeline,
             stream'.status = stream.status
      PROVE  Keeps(stream, stream') /\ Unheard(stream, stream')
  BY <1>1, <1>8 DEF Keeps, Unheard, Streams
<1>9. ASSUME NEW a \in stream.asks, TakeToken(a)
      PROVE  Keeps(stream, stream') /\ Unheard(stream, stream')
  BY <1>8, <1>9, TakeFacts
<1>10. CASE RunToken
  BY <1>8, <1>10, TokenRuns
<1>11. ASSUME \/ \E f \in fetching : TokenFetched(f) \/ TokenFailed(f)
              \/ RunNotice \/ AppWrite \/ \E u \in Signers : UpdateCurrentUser(u)
       PROVE  stream' = stream
  BY <1>11 DEF TokenFetched, TokenFailed, RunNotice, AppWrite, UpdateCurrentUser
<1> QED
  BY <1>2, <1>3, <1>4, <1>5, <1>6, <1>7, <1>9, <1>10, <1>11, NextCases

(* What is in the pipeline was made, and is the current user's. *)
LEMMA PipelineIsOwned ==
  ASSUME IInv, NEW i \in 1 .. Len(stream.pipeline)
  PROVE  /\ stream.pipeline[i] \in Batches
         /\ answer[stream.pipeline[i]] # "none" /\ owner[stream.pipeline[i]] = fsUser
<1>1. /\ stream \in Streams /\ Fits(stream, queue[fsUser]) /\ queue[fsUser] \in Seq(Batches)
      /\ fsUser \in Signers
  BY CurrentQueue DEF Sound, IInv, Typed
<1>2. i \in 1 .. Len(queue[fsUser]) /\ stream.pipeline[i] = queue[fsUser][i]
  BY <1>1 DEF Fits, Streams
<1> QED
  BY <1>1, <1>2 DEF IInv, QueuesAreOrdered

LEMMA UnreadIsOpen ==
  ASSUME NEW s, NEW q, Sound(s, q), NEW i \in 1 .. s.done
  PROVE  s.state = "Open"
<1>1. s.done \in Nat
  BY DEF Sound, Streams
<1>2. s.done # 0
  BY <1>1
<1>3. s.handshake
  BY <1>2 DEF Sound
<1> QED
  BY <1>3 DEF Sound

(* Writes whose answers were not read were executed for the current user. *)
LEMMA ExecutedForUser ==
  ASSUME IInv, NEW i \in 1 .. stream.done
  PROVE  <<fsUser, stream.pipeline[i]>> \in committed /\ stream.token = fsUser
<1>1. stream.state = "Open"
  BY CurrentQueue, UnreadIsOpen
<1> QED
  BY <1>1 DEF IInv, TokensAreCurrent, CommitsAreKnown

LEMMA CommitAdds ==
  ASSUME IInv, Commit
  PROVE  LET b == stream.pipeline[stream.done + 1] IN
         /\ committed' = committed \cup {<<fsUser, b>>} /\ <<fsUser, b>> \notin Refused
         /\ b \in Batches /\ answer[b] # "none" /\ owner[b] = fsUser
         /\ stream.token = fsUser /\ fsUser \in Signers
<1>1. /\ committed' = committed \cup {Next1} /\ Next1 \notin Refused
      /\ stream.state = "Open"
  BY DEF Commit, Arrived, IsOpen
<1>2. stream.token = fsUser /\ fsUser \in Signers
  BY <1>1 DEF IInv, TokensAreCurrent, Typed
<1>3. stream.done + 1 \in 1 .. Len(stream.pipeline)
  BY CommitStep
<1> QED
  BY <1>1, <1>2, <1>3, PipelineIsOwned DEF Next1

LEMMA CommittedPairs ==
  ASSUME IInv, NEW x \in committed
  PROVE  x = <<x[1], x[2]>> /\ x[2] \in Batches /\ x[2] \in Made /\ owner[x[2]] = x[1]
BY DEF IInv, Typed, CommitsAreKnown, Made

(* Each write executed is one that was made, of the user it was made by.   *)
LEMMA CommitsMade ==
  ASSUME IInv, [Next]_vars
  PROVE  /\ \A x \in committed' : answer'[x[2]] # "none" /\ owner'[x[2]] = x[1]
         /\ committed \subseteq committed' /\ (Commit \/ committed' = committed)
<1>0. DOMAIN answer = Batches /\ DOMAIN owner = Batches
  BY DEF IInv, Typed
<1>1. CASE Commit
  <2>1. UNCHANGED <<answer, owner>>
    BY <1>1 DEF Commit
  <2> DEFINE y == <<fsUser, stream.pipeline[stream.done + 1]>>
  <2>2. /\ committed' = committed \cup {y} /\ answer[y[2]] # "none" /\ owner[y[2]] = y[1]
    BY <1>1, CommitAdds
  <2> HIDE DEF y
  <2>3. \A x \in committed : answer[x[2]] # "none" /\ owner[x[2]] = x[1]
    BY DEF IInv, CommitsAreKnown
  <2> QED
    BY <1>1, <2>1, <2>2, <2>3
<1>2. CASE ~Commit
  <2>1. committed' = committed
    <3>1. CASE UNCHANGED vars
      BY <3>1 DEF vars
    <3>2. CASE StreamAlone
      BY <3>2, StreamAloneFacts DEF history
    <3>3. CASE \/ MutationResult \/ StreamFinished \/ RunWrite \/ HandleCredentialChange
               \/ RunResume \/ RunNotice \/ RunToken \/ AppWrite
      BY <3>3, Zenon DEF MutationResult, StreamFinished, RunWrite, HandleCredentialChange,
                         RunResume, RunNotice, RunToken, AppWrite, history
    <3>4. ASSUME NEW a, TakeToken(a) PROVE committed' = committed
      BY <3>4 DEF TakeToken, history
    <3>5. ASSUME NEW f, TokenFetched(f) \/ TokenFailed(f) PROVE committed' = committed
      BY <3>5 DEF TokenFetched, TokenFailed, history
    <3>6. ASSUME NEW u, UpdateCurrentUser(u) PROVE committed' = committed
      BY <3>6 DEF UpdateCurrentUser, history
    <3> QED
      BY <1>2, <3>1, <3>2, <3>3, <3>4, <3>5, <3>6, NextCases
  <2>2. ASSUME NEW x \in committed PROVE answer'[x[2]] # "none" /\ owner'[x[2]] = x[1]
    <3>1. x[2] \in Batches /\ x[2] \in Made /\ owner[x[2]] = x[1] /\ answer[x[2]] # "none"
      BY CommittedPairs DEF Made
    <3>2. CASE RunWrite
      <4> DEFINE b == 1 + Cardinality(Made)
      <4>1. /\ b \notin Made /\ answer' = [answer EXCEPT ![b] = "waiting"]
            /\ owner' = [owner EXCEPT ![b] = fsUser]
        BY <3>2, NewWrite
      <4> HIDE DEF b
      <4> QED
        BY <1>0, <3>1, <4>1
    <3>3. CASE UNCHANGED <<queue, answer, owner>>
      BY <3>1, <3>3
    <3>4. CASE /\ owner' = owner
               /\ \/ answer' = [answer EXCEPT ![queue[fsUser][1]] = "acknowledged"]
                  \/ answer' = [answer EXCEPT ![queue[fsUser][1]] = "rejected"]
      BY <1>0, <3>1, <3>4
    <3> QED
      BY <3>2, <3>3, <3>4, QueueCases
  <2> QED
    BY <2>1, <2>2
<1> QED
  BY <1>1, <1>2

(* What was executed on the stream, and not answered. *)
LEMMA ExecutedStep ==
  ASSUME IInv, [Next]_vars
  PROVE  \A i \in 1 .. stream'.done : <<stream'.token, stream'.pipeline[i]>> \in committed'
<1>1. committed \subseteq committed'
  BY CommitsMade
<1>2. \A i \in 1 .. stream.done : <<stream.token, stream.pipeline[i]>> \in committed
  BY DEF IInv, CommitsAreKnown
<1>3. CASE Commit
  <2>1. /\ stream'.token = stream.token /\ stream'.pipeline = stream.pipeline
        /\ stream'.done = stream.done + 1 /\ stream.done \in Nat
    BY <1>3, CommitStep
  <2>2. <<stream.token, stream.pipeline[stream.done + 1]>> \in committed'
    BY <1>3, CommitAdds
  <2>3. ASSUME NEW i \in 1 .. stream'.done
        PROVE  i \in 1 .. stream.done \/ i = stream.done + 1
    BY <2>1
  <2> QED
    BY <1>1, <1>2, <2>1, <2>2, <2>3
<1>4. CASE Keeps(stream, stream')
  <2> SUFFICES ASSUME NEW i \in 1 .. stream'.done
               PROVE  <<stream'.token, stream'.pipeline[i]>> \in committed'
    OBVIOUS
  <2>1. stream'.state = "Open"
    BY SoundStep, UnreadIsOpen
  <2>2. PICK j \in 1 .. stream.done : stream'.pipeline[i] = stream.pipeline[j]
    BY <1>4 DEF Keeps
  <2> QED
    BY <1>1, <1>2, <1>4, <2>1, <2>2 DEF Keeps
<1>5. CASE stream'.done = 0
  BY <1>5
<1> QED
  BY <1>3, <1>4, <1>5, StreamKept

LEMMA AcknowledgedStep ==
  ASSUME IInv, [Next]_vars
  PROVE  AcknowledgedIsCommitted'
<1>0. DOMAIN answer = Batches /\ DOMAIN owner = Batches
  BY DEF IInv, Typed
<1>1. committed \subseteq committed'
  BY CommitsMade
<1>2. \A c \in Batches : answer[c] = "acknowledged" => <<owner[c], c>> \in committed
  BY DEF IInv, CommitsAreKnown, AcknowledgedIsCommitted
<1> SUFFICES ASSUME NEW c \in Batches, answer'[c] = "acknowledged"
             PROVE  <<owner'[c], c>> \in committed'
  BY DEF AcknowledgedIsCommitted
<1>3. CASE RunWrite
  <2> DEFINE b == 1 + Cardinality(Made)
  <2>1. /\ answer' = [answer EXCEPT ![b] = "waiting"]
        /\ owner' = [owner EXCEPT ![b] = fsUser]
    BY <1>3, NewWrite
  <2> HIDE DEF b
  <2>2. c # b
    BY <1>0, <2>1
  <2> QED
    BY <1>0, <1>1, <1>2, <2>1, <2>2
<1>4. CASE UNCHANGED <<queue, answer, owner>>
  BY <1>1, <1>2, <1>4
<1>5. CASE /\ MutationResult /\ owner' = owner
           /\ queue[fsUser][1] = stream.pipeline[1]
           /\ answer' = [answer EXCEPT ![queue[fsUser][1]] = "acknowledged"]
  <2>1. CASE c = stream.pipeline[1]
    <3>1. 1 \in 1 .. stream.done
      BY <1>5, AnswerStep
    <3>2. 1 \in 1 .. Len(stream.pipeline)
      <4>1. stream.done <= stream.sent /\ stream.sent <= Len(stream.pipeline) /\ stream \in Streams
        BY CurrentQueue DEF Sound
      <4> QED
        BY <3>1, <4>1 DEF Streams
    <3>3. owner[c] = fsUser /\ <<fsUser, c>> \in committed
      BY <2>1, <3>1, <3>2, PipelineIsOwned, ExecutedForUser
    <3> QED
      BY <1>1, <1>5, <3>3
  <2>2. CASE c # stream.pipeline[1]
    <3>1. answer[c] = "acknowledged"
      BY <1>0, <1>5, <2>2
    <3> QED
      BY <1>1, <1>2, <1>5, <3>1
  <2> QED
    BY <2>1, <2>2
<1>6. CASE /\ owner' = owner
           /\ answer' = [answer EXCEPT ![queue[fsUser][1]] = "rejected"]
  <2>1. answer[c] = "acknowledged"
    BY <1>0, <1>6
  <2> QED
    BY <1>1, <1>2, <1>6, <2>1
<1> QED
  BY <1>3, <1>4, <1>5, <1>6, QueueCases

LEMMA CommitsStep ==
  ASSUME IInv, [Next]_vars
  PROVE  CommitsAreKnown'
BY CommitsMade, ExecutedStep, AcknowledgedStep DEF CommitsAreKnown

(* The backend executes nothing of a signer it refuses.                    *)
LEMMA RefusedStep ==
  ASSUME IInv, [Next]_vars
  PROVE  RefusedAsDenied'
<1>1. /\ stream.done > 0 => stream.token \notin Denied
      /\ Invalid = {} /\ stream.status = "denied" => stream.token \in Denied
      /\ stream \in Streams /\ Sound(stream', queue'[fsUser'])
  BY SoundStep, CurrentQueue DEF IInv, RefusedAsDenied
<1>2. ASSUME stream'.done > 0 PROVE stream'.token \notin Denied
  <2>1. CASE Commit
    <3> DEFINE b == stream.pipeline[stream.done + 1]
    <3>1. /\ <<fsUser, b>> \notin Refused /\ fsUser \in Signers /\ b \in Batches
          /\ stream.token = fsUser /\ stream'.token = stream.token
      BY <2>1, CommitAdds, CommitStep
    <3> HIDE DEF b
    <3> QED
      BY <3>1 DEF Refused
  <2>2. CASE Keeps(stream, stream')
    <3>1. stream'.state = "Open" /\ stream'.done \in Nat
      BY <1>1, <1>2 DEF Sound, Streams
    <3>2. 1 \in 1 .. stream'.done
      BY <1>2, <3>1
    <3>3. stream.done \in Nat /\ 1 .. stream.done # {}
      BY <1>1, <2>2, <3>2 DEF Keeps, Streams
    <3>4. stream.done > 0
      BY <3>3
    <3> QED
      BY <1>1, <2>2, <3>1, <3>4 DEF Keeps
  <2>3. CASE stream'.done = 0
    BY <1>2, <2>3
  <2> QED
    BY <2>1, <2>2, <2>3, StreamKept
<1>3. ASSUME Invalid = {}, stream'.status = "denied" PROVE stream'.token \in Denied
  <2>1. CASE Unheard(stream, stream')
    BY <1>1, <1>3, <2>1 DEF Unheard
  <2>2. CASE stream'.token = stream.token /\ Next1 \in Refused
    BY <1>3, <2>2 DEF Refused, Next1
  <2> QED
    BY <2>1, <2>2, StreamKept
<1> QED
  BY <1>2, <1>3 DEF RefusedAsDenied

-----------------------------------------------------------------------------
LEMMA InitTyped ==
  ASSUME Init
  PROVE  Typed
<1>1. /\ NoUser \in Signers /\ MaxFailures \in Nat
  BY StreamAssumption DEF StreamAssumption, Signers
<1>2. IsFiniteSet(fetching) /\ fetching \in SUBSET Tokens
  BY FS_EmptySet DEF Init
<1>3. main \in Seq(Notices \cup Tokens) /\ worker \in Seq(Changes \cup Resumes \cup Writes)
  BY DEF Init
<1>4. queue \in [Signers -> Seq(Batches)]
  BY DEF Init
<1>5. /\ answer \in [Batches -> {"none", "waiting", "acknowledged", "rejected"}]
      /\ owner \in [Batches -> Signers]
  BY <1>1 DEF Init
<1>6. /\ authUser \in Signers /\ fsUser \in Signers /\ counter \in Nat
      /\ failures \in 0 .. MaxFailures /\ committed \subseteq Signers \X Batches
  BY <1>1 DEF Init
<1> QED
  BY <1>2, <1>3, <1>4, <1>5, <1>6 DEF Typed

LEMMA InitStream ==
  ASSUME Init
  PROVE  /\ Sound(stream, queue[fsUser]) /\ Fed(stream, queue[fsUser])
         /\ stream.asks = {} /\ stream.closes = 0
         /\ stream.state = "Initial" /\ stream.done = 0 /\ stream.status = "ok"
<1>1. NoUser \in Signers /\ MaxPendingWrites \in Nat
  BY StreamAssumption DEF StreamAssumption, Signers
<1>2. stream \in Streams
  BY <1>1 DEF Init, Streams
<1>3. /\ stream.asks = {} /\ stream.closes = 0 /\ stream.state = "Initial"
      /\ stream.handshake = FALSE /\ stream.idle = FALSE /\ stream.pipeline = << >>
      /\ stream.writing = FALSE /\ stream.sent = 0 /\ stream.done = 0
      /\ stream.status = "ok" /\ stream.failing = FALSE /\ stream.failed = FALSE
  BY DEF Init
<1>4. queue[fsUser] = << >>
  BY <1>1 DEF Init
<1>5. Fits(stream, queue[fsUser]) /\ Sending(stream)
  BY <1>1, <1>3, <1>4 DEF Fits, Sending
<1>6. Fed(stream, queue[fsUser])
  BY <1>3, <1>4 DEF Fed, Filled, Needed
<1> QED
  BY <1>2, <1>3, <1>5, <1>6 DEF Sound, IsStarted

LEMMA InitIInv ==
  ASSUME Init
  PROVE  IInv
<1>1. Typed /\ Sound(stream, queue[fsUser]) /\ Fed(stream, queue[fsUser])
  BY InitTyped, InitStream
<1>2. /\ stream.asks = {} /\ stream.closes = 0 /\ stream.done = 0
      /\ stream.state = "Initial" /\ stream.status = "ok"
  BY InitStream
<1>3. /\ fetching = {} /\ main = << >> /\ worker = << >> /\ counter = 0 /\ committed = {}
      /\ authUser = NoUser /\ fsUser = NoUser
      /\ queue = [u \in Signers |-> << >>] /\ answer = [b \in Batches |-> "none"]
  BY DEF Init
<1>4. DOMAIN main = {} /\ DOMAIN worker = {}
  BY <1>3
<1>5. RequestsAreOld /\ OneRequest
  BY <1>2, <1>3, <1>4 DEF RequestsAreOld, OneRequest, Asking, Fetching, Answered, Resuming
<1>6. UsersAreKnown /\ TokensAreCurrent
  BY <1>2, <1>3, <1>4 DEF UsersAreKnown, TokensAreCurrent, MainUser, UserAt
<1>7. Made = {}
  BY <1>3 DEF Made
<1>8. Cardinality({}) = 0
  BY FS_EmptySet
<1>9. QueuesAreOrdered
  <2>1. \A u \in Signers : queue[u] = << >> /\ Len(queue[u]) = 0
    BY <1>3
  <2>2. Made = 1 .. Cardinality(Made)
    BY <1>7, <1>8
  <2> QED
    BY <2>1, <2>2 DEF QueuesAreOrdered, Ascending
<1>10. Bounded
  <2>1. Waiting(main, "notice") = 0 /\ Waiting(worker, "write") = 0
    <3>1. /\ {i \in DOMAIN main : main[i].kind = "notice"} = {}
          /\ {i \in DOMAIN worker : worker[i].kind = "write"} = {}
      BY <1>4
    <3> QED
      BY <1>8, <3>1 DEF Waiting
  <2>2. MaxNotices \in Nat /\ MaxWrites \in Nat
    BY StreamAssumption DEF StreamAssumption
  <2> QED
    BY <1>3, <1>7, <1>8, <2>1, <2>2 DEF Bounded, NoticesMade
<1>11. CommitsAreKnown
  BY <1>2, <1>3 DEF CommitsAreKnown, AcknowledgedIsCommitted
<1>12. RefusedAsDenied
  BY <1>2 DEF RefusedAsDenied
<1> QED
  BY <1>1, <1>5, <1>6, <1>9, <1>10, <1>11, <1>12 DEF IInv

LEMMA NextIInv ==
  ASSUME IInv, [Next]_vars
  PROVE  IInv'
BY TypedStep, SoundStep, RequestsStep, UsersStep, TokensStep, QueuesStep, BoundedStep,
   CommitsStep, RefusedStep DEF IInv

LEMMA InvariantHolds == Spec => []IInv
BY InitIInv, NextIInv, PTL DEF Spec
-----------------------------------------------------------------------------
(* Every variable in its range; the counts stay within the pipeline, and   *)
(* the pipeline within kMaxPendingWrites.                                  *)
THEOREM TypesAreOK == Spec => []TypeOK
<1>1. ASSUME IInv PROVE TypeOK
  <2>1. Typed /\ Sound(stream, queue[fsUser]) /\ stream \in Streams
    BY <1>1, CurrentQueue DEF IInv
  <2>2. counter \in 0 .. MaxNotices
    BY <1>1, CountsTyped DEF NoticesMade
  <2>3. /\ stream.state \in {"Initial", "Starting", "Open", "Error", "Backoff"}
        /\ stream.token \in Signers /\ stream.pipeline \in Seq(Batches)
    BY <2>1 DEF Streams
  <2>4. /\ Len(stream.pipeline) <= MaxPendingWrites
        /\ stream.done <= stream.sent /\ stream.sent <= Len(stream.pipeline)
    BY <2>1 DEF Sound, Fits
  <2> QED
    BY <2>1, <2>2, <2>3, <2>4 DEF TypeOK, Typed
<1> QED
  BY <1>1, InvariantHolds, PTL

(* No assertion of the stream or of RemoteStore fails: a stream is started *)
(* when it is not, resumed by the token it asked for and no other, stopped *)
(* with nothing left to send, and sends nothing before the handshake.      *)
THEOREM NoAssertionFails == Spec => []AssertionsHold
<1>1. ASSUME IInv PROVE AssertionsHold
  BY <1>1 DEF IInv, Sound, AssertionsHold
<1> QED
  BY <1>1, InvariantHolds, PTL

(* A write is executed under the token of the user whose queue it was put  *)
(* in, whatever users came and went while the token was on its way.        *)
THEOREM ExecutedAsOwner == Spec => []CommittedAsOwner
<1>1. ASSUME IInv PROVE CommittedAsOwner
  BY <1>1 DEF IInv, CommitsAreKnown, CommittedAsOwner
<1> QED
  BY <1>1, InvariantHolds, PTL

(* An open stream carries the token of the user whose queue is being sent. *)
THEOREM OpenAsCurrentUser == Spec => [](stream.state = "Open" => stream.token = fsUser)
<1>1. ASSUME IInv PROVE stream.state = "Open" => stream.token = fsUser
  BY <1>1 DEF IInv, TokensAreCurrent
<1> QED
  BY <1>1, InvariantHolds, PTL

(* What was sent is the front of the current user's queue, which is how    *)
(* the answers are matched with the writes.                                *)
LEMMA FitsIsPrefix ==
  ASSUME NEW s \in Streams, NEW q \in Seq(Batches), Fits(s, q)
  PROVE  IsPrefix(s.pipeline, q)
<1>1. s.pipeline \in Seq(Batches) /\ Len(s.pipeline) \in Nat /\ Len(q) \in Nat
  BY DEF Streams
<1>2. Len(s.pipeline) <= Len(q) /\ \A i \in 1 .. Len(s.pipeline) : s.pipeline[i] = q[i]
  BY DEF Fits
<1>3. Len(SubSeq(q, 1, Len(s.pipeline))) = Len(s.pipeline)
  BY <1>1, <1>2, Between
<1> QED
  BY <1>1, <1>2, <1>3, Between DEF IsPrefix

THEOREM PipelineIsFront == Spec => []PipelineIsQueueFront
<1>1. ASSUME IInv PROVE PipelineIsQueueFront
  BY <1>1, CurrentQueue, FitsIsPrefix DEF Sound, PipelineIsQueueFront
<1> QED
  BY <1>1, InvariantHolds, PTL

(* A write the caller is told was made was made, by its owner.             *)
THEOREM AcknowledgedWasCommitted == Spec => []AcknowledgedIsCommitted
<1>1. ASSUME IInv PROVE AcknowledgedIsCommitted
  BY <1>1 DEF IInv, CommitsAreKnown
<1> QED
  BY <1>1, InvariantHolds, PTL

-----------------------------------------------------------------------------
(* Nobody waits for what will not come. *)

Requested == Asking \/ Fetching \/ Answered \/ Resuming

(* A stream that starts has a request, *)
Awaited == stream.state = "Starting" => Requested

(* and a write that was not answered is in its owner's queue. *)
Kept == \A b \in Batches : answer[b] = "waiting" =>
          \E i \in DOMAIN queue[owner[b]] : queue[owner[b]][i] = b

(* The current requests among the blocks of q are among those of r.        *)
Carried(kind, q, r) ==
  \A i \in DOMAIN q : q[i].kind = kind /\ Current(q[i]) => \E j \in DOMAIN r : r[j] = q[i]

LEMMA CarriedOver ==
  ASSUME NEW T, NEW q \in Seq(T), NEW x \in T, NEW kind
  PROVE  Carried(kind, q, q) /\ Carried(kind, q, Append(q, x))
<1>1. \A i \in DOMAIN q : i \in DOMAIN Append(q, x) /\ Append(q, x)[i] = q[i]
  BY AppendComesLast
<1> QED
  BY <1>1 DEF Carried

LEMMA CarriedAlong ==
  ASSUME NEW T, NEW q \in Seq(T), q # << >>, NEW kind, q[1].kind # kind \/ ~Current(q[1])
  PROVE  Carried(kind, q, Tail(q))
<1> SUFFICES ASSUME NEW i \in DOMAIN q, q[i].kind = kind, Current(q[i])
             PROVE  \E j \in DOMAIN Tail(q) : Tail(q)[j] = q[i]
  BY DEF Carried
<1>1. /\ DOMAIN Tail(q) = 1 .. Len(q) - 1 /\ Len(q) \in Nat \ {0} /\ DOMAIN q = 1 .. Len(q)
      /\ \A j \in 1 .. Len(q) - 1 : Tail(q)[j] = q[j + 1]
  BY TailMovesUp
<1>2. i # 1
  OBVIOUS
<1>3. i - 1 \in 1 .. Len(q) - 1 /\ (i - 1) + 1 = i
  BY <1>1, <1>2
<1> QED
  BY <1>1, <1>3

(* A request is not lost when the tasks and blocks with it are not.        *)
LEMMA RequestStays ==
  ASSUME Requested, stream'.closes = stream.closes,
         \A a \in stream.asks : Current(a) => a \in stream'.asks,
         \A f \in fetching : Current(f) => f \in fetching',
         Carried("token", main, main'), Carried("resume", worker, worker')
  PROVE  Requested'
<1>1. \A x : Current(x) => x.closes = stream'.closes
  BY DEF Current
<1>2. CASE Asking
  BY <1>1, <1>2 DEF Asking, Requested, Current
<1>3. CASE Fetching
  BY <1>1, <1>3 DEF Fetching, Requested, Current
<1>4. CASE Answered
  <2>1. PICK i \in DOMAIN main : main[i].kind = "token" /\ Current(main[i])
    BY <1>4 DEF Answered
  <2>2. PICK j \in DOMAIN main' : main'[j] = main[i]
    BY <2>1 DEF Carried
  <2> QED
    BY <1>1, <2>1, <2>2 DEF Answered, Requested, Current
<1>5. CASE Resuming
  <2>1. PICK i \in DOMAIN worker : worker[i].kind = "resume" /\ Current(worker[i])
    BY <1>5 DEF Resuming
  <2>2. PICK j \in DOMAIN worker' : worker'[j] = worker[i]
    BY <2>1 DEF Carried
  <2> QED
    BY <1>1, <2>1, <2>2 DEF Resuming, Requested, Current
<1> QED
  BY <1>2, <1>3, <1>4, <1>5 DEF Requested

(* A step of the stream leaves the request it has, or makes a new one.     *)
LEMMA AwaitedStream ==
  ASSUME IInv, Awaited, Recalls(stream, stream'), fetching' = fetching,
         Carried("token", main, main'), Carried("resume", worker, worker')
  PROVE  Awaited'
<1> SUFFICES ASSUME stream'.state = "Starting" PROVE Requested'
  BY DEF Awaited
<1>1. CASE stream'.asks = stream.asks /\ stream.state = "Starting" /\ stream'.closes = stream.closes
  <2>1. Requested
    BY <1>1 DEF Awaited
  <2> QED
    BY <1>1, <2>1, RequestStays
<1>2. CASE stream'.asks = stream.asks \cup {[counter |-> counter, closes |-> stream'.closes]}
  <2> DEFINE a == [counter |-> counter, closes |-> stream'.closes]
  <2>1. a \in stream'.asks /\ a.closes = stream'.closes
    BY <1>2
  <2> QED
    BY <2>1 DEF Asking, Requested, Current
<1> QED
  BY <1>1, <1>2 DEF Recalls

(* What the threads do to the blocks they have no request in.              *)
LEMMA AwaitedThreads ==
  ASSUME IInv, Awaited, RunNotice \/ AppWrite \/ \E u \in Signers : UpdateCurrentUser(u)
  PROVE  Awaited'
<1> DEFINE M == Notices \cup Tokens
           W == Changes \cup Resumes \cup Writes
<1>1. Typed /\ stream' = stream /\ fetching' = fetching
  BY DEF IInv, RunNotice, AppWrite, UpdateCurrentUser, authVars
<1>2. main \in Seq(M) /\ worker \in Seq(W)
  BY <1>1 DEF Typed
<1> SUFFICES Carried("token", main, main') /\ Carried("resume", worker, worker')
  BY <1>1, RequestStays DEF Awaited
<1>3. CASE RunNotice
  <2>1. /\ main # << >> /\ main[1].kind # "token" /\ main' = Tail(main)
        /\ worker' = Append(worker, Change(main[1].user)) /\ Change(main[1].user) \in W
    BY <1>1, <1>3, NoticeRuns
  <2> HIDE DEF M, W
  <2>2. Carried("token", main, main')
    BY <1>2, <2>1, CarriedAlong
  <2> QED
    BY <1>2, <2>1, <2>2, CarriedOver
<1>4. CASE AppWrite
  <2>1. /\ main' = main /\ worker' = Append(worker, [kind |-> "write"])
        /\ [kind |-> "write"] \in W
    BY <1>4 DEF AppWrite, Writes
  <2>2. Carried("token", main, main')
    BY <2>1 DEF Carried
  <2> HIDE DEF M, W
  <2> QED
    BY <1>2, <2>1, <2>2, CarriedOver
<1>5. ASSUME NEW u \in Signers, UpdateCurrentUser(u)
      PROVE  Carried("token", main, main') /\ Carried("resume", worker, worker')
  <2>1. main' = Append(main, Notice(u)) /\ Notice(u) \in M /\ worker' = worker
    BY <1>5, NoticeFacts DEF UpdateCurrentUser
  <2>2. Carried("resume", worker, worker')
    BY <2>1 DEF Carried
  <2> HIDE DEF M, W
  <2> QED
    BY <1>2, <2>1, <2>2, CarriedOver
<1> QED
  BY <1>3, <1>4, <1>5

(* What is asked for waits for the network, or is answered.                *)
LEMMA AwaitedTaken ==
  ASSUME IInv, Awaited, NEW a \in stream.asks, TakeToken(a)
  PROVE  Awaited'
<1> DEFINE x == Token(a, authUser, TRUE)
           M == Notices \cup Tokens
<1>1. /\ stream'.asks = stream.asks \ {a} /\ stream'.closes = stream.closes
      /\ stream'.state = stream.state
      /\ x \in M /\ x.kind = "token" /\ x.closes = a.closes
      /\ \/ main' = Append(main, x) /\ fetching' = fetching
         \/ main' = main /\ fetching' = fetching \cup {x}
  BY TakeFacts
<1>2. main \in Seq(M) /\ worker' = worker
  BY DEF IInv, Typed, TakeToken
<1> HIDE DEF x, M
<1> SUFFICES ASSUME Requested PROVE Requested'
  BY <1>1 DEF Awaited
<1>3. CASE Current(a)
  <2>1. x.closes = stream'.closes
    BY <1>1, <1>3 DEF Current
  <2>2. CASE main' = Append(main, x)
    <3>1. Len(main) + 1 \in DOMAIN main' /\ main'[Len(main) + 1] = x
      BY <1>1, <1>2, <2>2, AppendComesLast
    <3> QED
      BY <1>1, <2>1, <3>1 DEF Answered, Requested, Current
  <2>3. CASE fetching' = fetching \cup {x}
    BY <2>1, <2>3 DEF Fetching, Requested, Current
  <2> QED
    BY <1>1, <2>2, <2>3
<1>4. CASE ~Current(a)
  <2>1. Carried("token", main, main')
    BY <1>1, <1>2, CarriedOver
  <2>2. Carried("resume", worker, worker')
    BY <1>2 DEF Carried
  <2>3. \A b \in stream.asks : Current(b) => b \in stream'.asks
    BY <1>1, <1>4
  <2>4. \A f \in fetching : f \in fetching'
    BY <1>1
  <2> QED
    BY <1>1, <2>1, <2>2, <2>3, <2>4, RequestStays
<1> QED
  BY <1>3, <1>4

(* The network answers, one way or the other. *)
LEMMA AwaitedAnswered ==
  ASSUME IInv, Awaited, NEW f \in fetching, TokenFetched(f) \/ TokenFailed(f)
  PROVE  Awaited'
<1> DEFINE M == Notices \cup Tokens
<1>1. /\ Typed /\ main \in Seq(M) /\ f.user \in Signers /\ worker' = worker /\ stream' = stream
      /\ fetching' = fetching \ {f}
  BY DEF IInv, Typed, Tokens, TokenFetched, TokenFailed
<1>2. PICK mid \in Seq(M), g \in M :
        /\ main' = Append(mid, g) /\ g.kind = "token" /\ g.closes = f.closes
        /\ mid = main \/ mid = Append(main, Notice(f.user))
  BY <1>1, AnswerComes
<1>3. Notice(f.user) \in M
  BY <1>1, NoticeFacts
<1> HIDE DEF M
<1> SUFFICES ASSUME Requested PROVE Requested'
  BY <1>1 DEF Awaited
<1>4. CASE Current(f)
  <2>1. Len(mid) + 1 \in DOMAIN main' /\ main'[Len(mid) + 1] = g
    BY <1>2, AppendComesLast
  <2> QED
    BY <1>1, <1>2, <1>4, <2>1 DEF Answered, Requested, Current
<1>5. CASE ~Current(f)
  <2>1. Carried("token", main, mid)
    BY <1>1, <1>2, <1>3, CarriedOver
  <2>2. Carried("token", mid, main')
    BY <1>2, CarriedOver
  <2>3. Carried("token", main, main')
    BY <2>1, <2>2 DEF Carried
  <2>4. Carried("resume", worker, worker')
    BY <1>1 DEF Carried
  <2> QED
    BY <1>1, <1>5, <2>3, <2>4, RequestStays
<1> QED
  BY <1>4, <1>5

(* The token goes on to the worker queue, or is asked for again.           *)
LEMMA AwaitedRun ==
  ASSUME IInv, Awaited, RunToken
  PROVE  Awaited'
<1> DEFINE x == main[1]
           y == Resume(x)
           new == [counter |-> counter, closes |-> x.closes]
           M == Notices \cup Tokens
           W == Changes \cup Resumes \cup Writes
<1>1. main \in Seq(M) /\ worker \in Seq(W) /\ fetching' = fetching
  BY DEF IInv, Typed, RunToken, authVars
<1>2. /\ main # << >> /\ main' = Tail(main)
      /\ stream'.closes = stream.closes /\ stream'.state = stream.state
      /\ \/ worker' = worker /\ stream'.asks = stream.asks \cup {new}
         \/ /\ stream' = stream /\ worker' = Append(worker, y) /\ y \in W
            /\ y.kind = "resume" /\ y.closes = x.closes
  BY TokenRuns
<1>3. new.closes = x.closes
  OBVIOUS
<1> HIDE DEF y, new, M, W
<1> SUFFICES ASSUME Requested PROVE Requested'
  BY <1>2 DEF Awaited
<1>4. CASE Current(x)
  <2>1. CASE stream'.asks = stream.asks \cup {new}
    BY <1>2, <1>3, <1>4, <2>1 DEF Asking, Requested, Current
  <2>2. CASE worker' = Append(worker, y) /\ y \in W /\ y.kind = "resume" /\ y.closes = x.closes
    <3>1. Len(worker) + 1 \in DOMAIN worker' /\ worker'[Len(worker) + 1] = y
      BY <1>1, <2>2, AppendComesLast
    <3> QED
      BY <1>2, <1>4, <2>2, <3>1 DEF Resuming, Requested, Current
  <2> QED
    BY <1>2, <2>1, <2>2
<1>5. CASE ~Current(x)
  <2>1. Carried("token", main, main')
    BY <1>1, <1>2, <1>5, CarriedAlong
  <2>2. Carried("resume", worker, worker')
    <3>1. CASE worker' = worker
      BY <3>1 DEF Carried
    <3>2. CASE worker' = Append(worker, y) /\ y \in W
      BY <1>1, <3>2, CarriedOver
    <3> QED
      BY <1>2, <3>1, <3>2
  <2>3. \A a \in stream.asks : a \in stream'.asks
    BY <1>2
  <2> QED
    BY <1>1, <1>2, <2>1, <2>2, <2>3, RequestStays
<1> QED
  BY <1>4, <1>5

(* The worker queue runs a task. *)
LEMMA AwaitedTask ==
  ASSUME IInv, Awaited, RunWrite \/ HandleCredentialChange \/ RunResume
  PROVE  Awaited'
<1> DEFINE W == Changes \cup Resumes \cup Writes
<1>1. Typed /\ worker \in Seq(W) /\ fetching' = fetching /\ main' = main
  BY DEF IInv, Typed, RunWrite, HandleCredentialChange, RunResume, authVars
<1>2. Carried("token", main, main')
  BY <1>1 DEF Carried
<1>3. CASE RunWrite \/ HandleCredentialChange
  <2>1. Recalls(stream, stream')
    BY <1>3, WriteStep, CredentialStep DEF StreamGoesOn
  <2>2. ASSUME NEW kind, kind # "resume", Task(kind) PROVE Carried("resume", worker, worker')
    <3>1. worker # << >> /\ worker[1].kind # "resume" /\ worker' = Tail(worker)
      BY <1>1, <2>2, TaskRuns
    <3> HIDE DEF W
    <3> QED
      BY <1>1, <3>1, CarriedAlong
  <2>3. Carried("resume", worker, worker')
    BY <1>3, <2>2 DEF RunWrite, HandleCredentialChange
  <2> QED
    BY <1>1, <1>2, <2>1, <2>3, AwaitedStream
<1>4. CASE RunResume
  <2>1. CASE stream' = stream /\ ~Current(worker[1])
    <3>1. worker # << >> /\ worker' = Tail(worker)
      BY <1>1, <1>4, TaskRuns DEF RunResume
    <3> HIDE DEF W
    <3>2. Carried("resume", worker, worker')
      BY <1>1, <2>1, <3>1, CarriedAlong
    <3> QED
      BY <1>1, <1>2, <2>1, <3>2, RequestStays DEF Awaited
  <2>2. CASE stream'.state = "Open"
    BY <2>2 DEF Awaited
  <2>3. CASE Recalls(stream, stream') /\ stream'.closes > stream.closes
    <3>1. stream.closes \in Nat
      BY CurrentQueue DEF Streams
    <3>2. stream'.closes # stream.closes
      BY <2>3, <3>1
    <3>3. CASE stream'.state = "Starting"
      <4> DEFINE a == [counter |-> counter, closes |-> stream'.closes]
      <4>1. a \in stream'.asks /\ a.closes = stream'.closes
        BY <2>3, <3>2, <3>3 DEF Recalls
      <4> QED
        BY <4>1 DEF Asking, Requested, Current, Awaited
    <3> QED
      BY <3>3 DEF Awaited
  <2> QED
    BY <1>4, <2>1, <2>2, <2>3, ResumeStep DEF Proceeds
<1> QED
  BY <1>3, <1>4

LEMMA AwaitedStep ==
  ASSUME IInv, Awaited, [Next]_vars
  PROVE  Awaited'
<1>1. CASE UNCHANGED vars
  BY <1>1 DEF Awaited, Requested, Asking, Fetching, Answered, Resuming, Current, vars
<1>2. CASE StreamAlone \/ MutationResult \/ StreamFinished \/ Commit
  <2>1. Recalls(stream, stream')
    BY <1>2, StreamAloneFacts, AnswerStep, FinishStep, CommitStep DEF StreamGoesOn
  <2>2. UNCHANGED <<authVars, main, worker>>
    BY <1>2, StreamAloneFacts DEF MutationResult, StreamFinished, Commit
  <2> QED
    BY <2>1, <2>2, AwaitedStream DEF Carried, authVars
<1> QED
  BY <1>1, <1>2, NextCases, AwaitedTask, AwaitedThreads, AwaitedTaken, AwaitedAnswered, AwaitedRun

LEMMA KeptWritten ==
  ASSUME IInv, Kept, RunWrite
  PROVE  Kept'
<1> DEFINE b == 1 + Cardinality(Made)
           q == queue[fsUser]
<1>1. /\ b \in Batches
      /\ queue' = [queue EXCEPT ![fsUser] = Append(@, b)]
      /\ answer' = [answer EXCEPT ![b] = "waiting"]
      /\ owner' = [owner EXCEPT ![b] = fsUser]
  BY NewWrite
<1>2. /\ queue \in [Signers -> Seq(Batches)] /\ fsUser \in Signers /\ q \in Seq(Batches)
      /\ answer \in [Batches -> {"none", "waiting", "acknowledged", "rejected"}]
      /\ owner \in [Batches -> Signers]
  BY DEF IInv, Typed
<1> HIDE DEF b
<1>3. /\ Len(q) + 1 \in DOMAIN Append(q, b) /\ Append(q, b)[Len(q) + 1] = b
      /\ \A i \in DOMAIN q : i \in DOMAIN Append(q, b) /\ Append(q, b)[i] = q[i]
  BY <1>1, <1>2, AppendComesLast
<1> SUFFICES ASSUME NEW c \in Batches, answer'[c] = "waiting"
             PROVE  \E i \in DOMAIN queue'[owner'[c]] : queue'[owner'[c]][i] = c
  BY DEF Kept
<1>4. CASE c = b
  BY <1>1, <1>2, <1>3, <1>4
<1>5. CASE c # b
  <2>1. owner'[c] = owner[c] /\ answer[c] = "waiting" /\ owner[c] \in Signers
    BY <1>1, <1>2, <1>5
  <2>2. PICK i \in DOMAIN queue[owner[c]] : queue[owner[c]][i] = c
    BY <2>1 DEF Kept
  <2>3. i \in DOMAIN queue'[owner[c]] /\ queue'[owner[c]][i] = c
    BY <1>1, <1>2, <1>3, <2>1, <2>2
  <2> QED
    BY <2>1, <2>3
<1> QED
  BY <1>4, <1>5

(* What leaves a queue was answered. *)
LEMMA KeptAnswered ==
  ASSUME IInv, Kept, queue[fsUser] # << >>, NEW a, a # "waiting",
         queue' = [queue EXCEPT ![fsUser] = Tail(queue[fsUser])],
         answer' = [answer EXCEPT ![queue[fsUser][1]] = a], owner' = owner
  PROVE  Kept'
<1> DEFINE q == queue[fsUser]
<1>1. /\ queue \in [Signers -> Seq(Batches)] /\ fsUser \in Signers /\ q \in Seq(Batches)
      /\ DOMAIN answer = Batches /\ owner \in [Batches -> Signers]
  BY DEF IInv, Typed
<1>2. /\ DOMAIN Tail(q) = 1 .. Len(q) - 1 /\ Len(q) \in Nat \ {0} /\ DOMAIN q = 1 .. Len(q)
      /\ \A j \in 1 .. Len(q) - 1 : Tail(q)[j] = q[j + 1]
  BY <1>1, TailMovesUp
<1> SUFFICES ASSUME NEW c \in Batches, answer'[c] = "waiting"
             PROVE  \E i \in DOMAIN queue'[owner[c]] : queue'[owner[c]][i] = c
  BY DEF Kept
<1>3. c # q[1] /\ answer[c] = "waiting"
  BY <1>1
<1>4. PICK i \in DOMAIN queue[owner[c]] : queue[owner[c]][i] = c
  BY <1>3 DEF Kept
<1>5. CASE owner[c] = fsUser
  <2>1. i # 1 /\ i \in 1 .. Len(q)
    BY <1>2, <1>3, <1>4, <1>5
  <2>2. i - 1 \in 1 .. Len(q) - 1 /\ (i - 1) + 1 = i
    BY <1>2, <2>1
  <2>3. Tail(q)[i - 1] = c
    BY <1>2, <1>4, <1>5, <2>2
  <2> HIDE DEF q
  <2> QED
    BY <1>1, <1>2, <1>5, <2>2, <2>3 DEF q
<1>6. CASE owner[c] # fsUser
  BY <1>1, <1>4, <1>6
<1> QED
  BY <1>5, <1>6

LEMMA KeptStep ==
  ASSUME IInv, Kept, [Next]_vars
  PROVE  Kept'
<1>1. CASE UNCHANGED <<queue, answer, owner>>
  BY <1>1 DEF Kept
<1> QED
  BY <1>1, KeptWritten, KeptAnswered, QueueCases

(* Nobody waits for what will not come: a write that was not answered is   *)
(* in its owner's queue, and for those in the current user's queue there   *)
(* is a stream with a delay, a token, a handshake, a write or an answer on *)
(* its way.  This is the state part of WritesAreAnswered.                  *)
THEOREM WaitingAlwaysServed == Spec => []WaitingIsServed
<1>1. Init => Awaited /\ Kept
  <2> SUFFICES ASSUME Init PROVE Awaited /\ Kept
    OBVIOUS
  <2>1. stream.state = "Initial"
    BY InitStream
  <2>2. \A b \in Batches : answer[b] = "none"
    BY DEF Init
  <2> QED
    BY <2>1, <2>2 DEF Awaited, Kept
<1>2. IInv /\ Awaited /\ Kept /\ [Next]_vars => Awaited' /\ Kept'
  BY AwaitedStep, KeptStep
<1>3. ASSUME IInv, Awaited, Kept PROVE WaitingIsServed
  <2> SUFFICES ASSUME NEW b \in Batches, answer[b] = "waiting", owner[b] = fsUser
               PROVE  /\ stream.pipeline # << >>
                      /\ \/ stream.state = "Backoff"
                         \/ stream.state = "Starting" /\ Requested
                         \/ /\ stream.state = "Open"
                            /\ \/ ~stream.handshake \/ stream.writing
                               \/ stream.sent = Len(stream.pipeline)
    BY <1>3 DEF WaitingIsServed, Kept, Requested
  <2>1. /\ stream \in Streams /\ Sound(stream, queue[fsUser]) /\ Fed(stream, queue[fsUser])
        /\ queue[fsUser] \in Seq(Batches) /\ MaxPendingWrites \in Nat \ {0}
    BY <1>3, CurrentQueue, StreamAssumption DEF StreamAssumption
  <2>2. Len(queue[fsUser]) > 0 /\ Len(queue[fsUser]) \in Nat
    <3>1. PICK i \in DOMAIN queue[fsUser] : queue[fsUser][i] = b
      BY <1>3 DEF Kept
    <3> QED
      BY <2>1, <3>1
  <2>3. Len(stream.pipeline) > 0 /\ stream.pipeline # << >>
    BY <2>1, <2>2 DEF Fed, Filled
  <2>4. IsStarted(stream)
    BY <2>1, <2>3 DEF Fed, Needed
  <2>5. CASE stream.state = "Starting"
    BY <1>3, <2>3, <2>5 DEF Awaited
  <2>6. CASE stream.state = "Open"
    <3>1. stream.sent <= Len(stream.pipeline) /\ stream.sent \in Nat /\ Len(stream.pipeline) \in Nat
      BY <2>1 DEF Sound, Streams
    <3>2. stream.handshake => stream.writing \/ stream.sent = Len(stream.pipeline)
      BY <2>1, <3>1 DEF Sound, Sending
    <3> QED
      BY <2>3, <2>6, <3>2
  <2> QED
    BY <2>3, <2>4, <2>5, <2>6 DEF IsStarted
<1> QED
  BY <1>1, <1>2, <1>3, InvariantHolds, PTL DEF Spec

-----------------------------------------------------------------------------
(* The machinery implements module FirestoreClient, when the rules look at *)
(* the signer alone.  A step of the client is one of the machinery; most   *)
(* steps of the machinery are none of the client's.                        *)

(* The queues of the one device.                                           *)
LEMMA OneDevice ==
  ASSUME NEW f, NEW u \in DOMAIN f, NEW x
  PROVE  /\ [[d \in {Device} |-> f] EXCEPT ![Device][u] = x]
              = [d \in {Device} |-> [f EXCEPT ![u] = x]]
         /\ [[d \in {Device} |-> f] EXCEPT ![Device] = x] = [d \in {Device} |-> x]
         /\ [d \in {Device} |-> f][Device] = f
BY DEF Device

LEMMA InitMaps ==
  ASSUME Init
  PROVE  Client!ClientInit
BY DEF Init, Client!ClientInit, Client!Signers, Signers

(* The stream is closed, or nothing happens that the client knows of.      *)
LEMMA CloseMaps ==
  ASSUME IInv, UNCHANGED <<fsUser, queue>>, stream'.done = stream.done \/ stream'.done = 0
  PROVE  ClientStep \/ UNCHANGED Client!clientVars
<1>1. stream.done \in Nat
  BY CurrentQueue DEF Streams
<1>2. CASE stream'.done = stream.done
  BY <1>2 DEF Client!clientVars
<1>3. CASE stream'.done = 0 /\ stream.done # 0
  <2>1. stream.done > 0
    BY <1>1, <1>3
  <2>2. Client!OnWriteStreamClose(Device)
    BY <1>3, <2>1 DEF Client!OnWriteStreamClose, Device
  <2> QED
    BY <2>2 DEF ClientStep
<1> QED
  BY <1>2, <1>3

LEMMA WriteMaps ==
  ASSUME IInv, RunWrite
  PROVE  ClientStep
<1> DEFINE b == 1 + Cardinality(Made)
<1>1. /\ b \in Batches /\ queue' = [queue EXCEPT ![fsUser] = Append(@, b)]
      /\ fsUser' = fsUser /\ stream'.done = stream.done
  BY NewWrite, WriteStep DEF RunWrite
<1> HIDE DEF b
<1>2. fsUser \in DOMAIN queue
  BY DEF IInv, Typed
<1>3. Client!WriteMutations(Device, b)
  BY <1>1, <1>2, OneDevice DEF Client!WriteMutations, Device
<1> QED
  BY <1>1, <1>3 DEF ClientStep

LEMMA CommitMaps ==
  ASSUME IInv, Commit
  PROVE  ClientStep
<1>1. /\ UNCHANGED <<fsUser, queue>> /\ stream'.done = stream.done + 1 /\ stream.done \in Nat
      /\ stream.done + 1 \in 1 .. Len(stream.pipeline)
  BY CommitStep DEF Commit
<1>2. fsUser \notin Denied
  <2> DEFINE b == stream.pipeline[stream.done + 1]
  <2>1. <<fsUser, b>> \notin Refused /\ b \in Batches /\ fsUser \in Signers
    BY CommitAdds
  <2> HIDE DEF b
  <2> QED
    BY <2>1 DEF Refused
<1>3. /\ stream.done < Len(queue[fsUser]) /\ stream.done < MaxPendingWrites
  <2>1. /\ Len(stream.pipeline) <= Len(queue[fsUser]) /\ Len(stream.pipeline) <= MaxPendingWrites
        /\ Len(queue[fsUser]) \in Nat /\ Len(stream.pipeline) \in Nat /\ MaxPendingWrites \in Nat
    BY CurrentQueue, StreamAssumption DEF Sound, Fits, Streams, StreamAssumption
  <2> QED
    BY <1>1, <2>1
<1>4. Client!CommitWrite(Device)
  BY <1>1, <1>2, <1>3 DEF Client!CommitWrite, Client!CanCommit, Client!Current, Device
<1> QED
  BY <1>4 DEF ClientStep

LEMMA AnswerMaps ==
  ASSUME IInv, MutationResult
  PROVE  ClientStep
<1>1. /\ fsUser' = fsUser /\ stream'.done = stream.done - 1 /\ stream.done \in Nat \ {0}
      /\ queue' = [queue EXCEPT ![fsUser] = Tail(queue[fsUser])]
  BY AnswerStep DEF MutationResult
<1>2. fsUser \in DOMAIN queue
  BY DEF IInv, Typed
<1>3. Client!RemoveFront(Device)
  BY <1>1, <1>2, OneDevice DEF Client!RemoveFront, Device
<1>4. stream.done > 0
  BY <1>1
<1>5. [d \in {Device} |-> stream'.done] = [[d \in {Device} |-> stream.done] EXCEPT ![Device] = @ - 1]
  BY <1>1 DEF Device
<1>6. Client!HandleSuccessfulWrite(Device)
  BY <1>1, <1>3, <1>4, <1>5 DEF Client!HandleSuccessfulWrite, Device
<1> QED
  BY <1>6 DEF ClientStep

(* Only a user whose writes are all refused has one blamed, and then none  *)
(* was executed.                                                           *)
LEMMA FinishMaps ==
  ASSUME Invalid = {}, IInv, StreamFinished
  PROVE  ClientStep \/ UNCHANGED Client!clientVars
<1>1. fsUser' = fsUser /\ stream'.done = 0
  BY FinishStep DEF StreamFinished
<1>2. CASE UNCHANGED <<answer, queue>>
  BY <1>1, <1>2, CloseMaps
<1>3. CASE /\ BlamesFront(stream, stream.status)
           /\ queue' = [queue EXCEPT ![fsUser] = Tail(queue[fsUser])]
           /\ queue[fsUser] # << >>
  <2>1. stream.status = "denied" /\ stream.state = "Open"
    BY <1>3, CurrentQueue DEF BlamesFront, Sound
  <2>2. fsUser \in Denied /\ ~(stream.done > 0)
    BY <2>1 DEF IInv, RefusedAsDenied, TokensAreCurrent
  <2>3. stream.done = 0
    BY <2>2, CurrentQueue DEF Streams
  <2>4. fsUser \in DOMAIN queue
    BY DEF IInv, Typed
  <2>5. Client!HandleRejectedWrite(Device)
    BY <1>1, <1>3, <2>2, <2>3, <2>4, OneDevice
    DEF Client!HandleRejectedWrite, Client!RemoveFront, Client!Current, Device
  <2> QED
    BY <2>5 DEF ClientStep
<1> QED
  BY <1>2, <1>3, FinishStep

LEMMA CredentialMaps ==
  ASSUME IInv, HandleCredentialChange
  PROVE  ClientStep
<1>1. fsUser' \in Signers /\ stream'.done = 0 /\ queue' = queue
  BY CredentialStep DEF HandleCredentialChange
<1>2. \E u \in Signers : u = fsUser'
  BY <1>1
<1>3. PICK u \in Signers : u = fsUser'
  BY <1>2
<1>4. Client!HandleCredentialChange(Device, u)
  BY <1>1, <1>3 DEF Client!HandleCredentialChange, Device
<1> QED
  BY <1>4 DEF ClientStep

LEMMA StepMaps ==
  ASSUME Invalid = {}, IInv, [Next]_vars
  PROVE  ClientStep \/ UNCHANGED Client!clientVars
<1>1. CASE RunWrite \/ Commit \/ MutationResult \/ StreamFinished \/ HandleCredentialChange
  BY <1>1, WriteMaps, CommitMaps, AnswerMaps, FinishMaps, CredentialMaps
<1>2. ASSUME \/ UNCHANGED vars \/ StreamAlone \/ RunResume \/ RunNotice \/ RunToken \/ AppWrite
             \/ \E a \in stream.asks : TakeToken(a)
             \/ \E f \in fetching : TokenFetched(f) \/ TokenFailed(f)
             \/ \E u \in Signers : UpdateCurrentUser(u)
      PROVE  /\ UNCHANGED <<fsUser, queue>>
             /\ stream'.done = stream.done \/ stream'.done = 0
  <2>1. CASE UNCHANGED vars
    BY <2>1 DEF vars
  <2>2. CASE StreamAlone
    BY <2>2, StreamAloneFacts
  <2>3. CASE RunResume
    <3>1. UNCHANGED <<fsUser, queue>>
      BY <2>3 DEF RunResume
    <3>2. stream'.done = stream.done \/ stream'.done = 0
      BY <2>3, ResumeStep
    <3> QED
      BY <3>1, <3>2
  <2>4. CASE RunToken
    BY <2>4, TokenRuns DEF RunToken
  <2>5. ASSUME NEW a \in stream.asks, TakeToken(a)
        PROVE  UNCHANGED <<fsUser, queue>> /\ stream'.done = stream.done
    BY <2>5, TakeFacts DEF TakeToken
  <2>6. ASSUME \/ \E f \in fetching : TokenFetched(f) \/ TokenFailed(f)
               \/ RunNotice \/ AppWrite \/ \E u \in Signers : UpdateCurrentUser(u)
        PROVE  UNCHANGED <<fsUser, queue, stream>>
    BY <2>6 DEF TokenFetched, TokenFailed, RunNotice, AppWrite, UpdateCurrentUser
  <2> QED
    BY <1>2, <2>1, <2>2, <2>3, <2>4, <2>5, <2>6
<1> QED
  BY <1>1, <1>2, CloseMaps, NextCases

(* Tokens, streams, timers and notices come to what FirestoreClient says:  *)
(* queues worked off in order, each under its user, with answers that      *)
(* concern the front.                                                      *)
THEOREM StreamImplementsClient ==
  ASSUME Invalid = {}
  PROVE  Spec => ImplementsClient
<1>1. Init => Client!ClientInit
  BY InitMaps
<1>2. IInv /\ [Next]_vars => [ClientStep]_(Client!clientVars)
  BY StepMaps
<1> QED
  BY <1>1, <1>2, InvariantHolds, PTL DEF Spec, ImplementsClient
================================================================================

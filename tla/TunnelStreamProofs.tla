------------------------- MODULE TunnelStreamProofs -------------------------
(***************************************************************************)
(* Theorems about one tunnel stream, for every number of frames, every     *)
(* reorder window and every number of sessions.                            *)
(***************************************************************************)
EXTENDS TunnelStream, FiniteSetTheorems, SequenceTheorems, TLAPS

---------------------------------------------------------------------------
(* The run of frames that WriteRun hands to the socket.                    *)

Written(n, k) == [i \in 1 .. k |-> n + i - 1]

LEMMA RunOfFrames ==
  ASSUME NEW n \in Nat, NEW k \in Nat, n + k <= NumFrames, NumFrames \in Nat
  PROVE  /\ Written(n, k) \in Seq(Frames)
         /\ Len(Written(n, k)) = k
PROOF
<1> DEFINE at(i) == n + i - 1
<1>1. \A i \in 1 .. k : at(i) \in Frames
  BY DEF Frames
<1> HIDE DEF at
<1>2. [i \in 1 .. k |-> at(i)] \in Seq(Frames)
  BY <1>1, IsASeq
<1>3. Len([i \in 1 .. k |-> at(i)]) = k
  OBVIOUS
<1> QED
  BY <1>2, <1>3 DEF Written, at

LEMMA FiniteFrames ==
  ASSUME NumFrames \in Nat
  PROVE  IsFiniteSet(Frames)
PROOF
  BY FS_Interval DEF Frames

\* What a written frame does to the variables of feed(): the buffer shrinks or
\* stays within the window, and the frame the stream waits for is not in it.
LEMMA WriteRunKeeps ==
  ASSUME StreamAssumption, StreamTypeOK, ~closed,
         NEW s \in Frames, ~Overflows(s), nextIn <= s, WriteRun(s)
  PROVE  /\ nextIn' \in 0 .. NumFrames
         /\ pending' \subseteq Frames
         /\ written' \in Seq(Frames)
         /\ Len(written') = Len(written) + (nextIn' - nextIn)
         /\ nextIn <= nextIn'
         /\ written' = written \o Written(nextIn, nextIn' - nextIn)
         /\ \A f \in pending' : nextIn' < f
         /\ Cardinality(pending') <= ReorderWindow
PROOF
<1> USE DEF StreamAssumption, StreamTypeOK
<1>1. PICK upTo \in nextIn .. NumFrames :
        /\ upTo \notin pending \cup {s}
        /\ written' = written \o Written(nextIn, upTo - nextIn)
        /\ nextIn' = upTo
        /\ pending' = (pending \cup {s}) \ (nextIn .. (upTo - 1))
  BY DEF WriteRun, Written
<1>2. nextIn' \in 0 .. NumFrames /\ nextIn <= nextIn'
  BY <1>1
<1>3. pending' \subseteq Frames
  BY <1>1
<1>4. /\ Written(nextIn, upTo - nextIn) \in Seq(Frames)
      /\ Len(Written(nextIn, upTo - nextIn)) = upTo - nextIn
  <2>1. upTo - nextIn \in Nat /\ nextIn \in Nat /\ nextIn + (upTo - nextIn) <= NumFrames
    BY <1>1
  <2> QED
    BY <2>1, RunOfFrames
<1>5. /\ written' \in Seq(Frames)
      /\ Len(written') = Len(written) + (nextIn' - nextIn)
  BY <1>1, <1>4, ConcatProperties
<1>6. \A f \in pending' : nextIn' < f
  <2> SUFFICES ASSUME NEW f \in pending' PROVE nextIn' < f
    OBVIOUS
  <2>1. f \in pending \cup {s} /\ f \notin nextIn .. (upTo - 1) /\ f # upTo
    BY <1>1
  <2>2. f \in Nat /\ nextIn <= f
    BY <2>1, <1>3 DEF Frames
  <2> QED
    BY <1>1, <2>1, <2>2
<1>7. Cardinality(pending') <= ReorderWindow
  <2>1. pending \cup {s} \subseteq Frames
    OBVIOUS
  <2>2. IsFiniteSet(pending \cup {s})
    BY <2>1, FiniteFrames, FS_Subset
  <2>3. pending' \subseteq pending \cup {s}
    BY <1>1
  <2>4. /\ Cardinality(pending') <= Cardinality(pending \cup {s})
        /\ IsFiniteSet(pending')
    BY <2>2, <2>3, FS_Subset
  <2>5. Cardinality(pending \cup {s}) <= ReorderWindow
    BY <2>2, FS_CardinalityType DEF Overflows
  <2>6. Cardinality(pending') \in Nat /\ Cardinality(pending \cup {s}) \in Nat
    BY <2>2, <2>4, FS_CardinalityType
  <2> QED
    BY <2>4, <2>5, <2>6
<1> QED
  BY <1>1, <1>2, <1>3, <1>5, <1>6, <1>7

---------------------------------------------------------------------------
(* Types.                                                                  *)

\* what feed() keeps of its variables, and the rest of the types
FeedTypes ==
  /\ nextIn \in 0 .. NumFrames
  /\ pending \subseteq Frames
  /\ written \in Seq(Frames)
  /\ \A s \in pending : nextIn < s \/ (closed /\ nextIn <= s)
  /\ ~closed => Cardinality(pending) <= ReorderWindow

TaskTypes ==
  /\ closed \in BOOLEAN
  /\ inTable \in BOOLEAN
  /\ rx \in {"idle", "draining", "closing", "telling"}
  /\ pump \in {"reading", "sending", "closing", "telling", "ended"}
  /\ timer \in {"watching", "closing", "telling", "ended"}
  /\ outSeq \in 0 .. MaxChunks
  /\ pump = "sending" => outSeq < MaxChunks
  /\ up \in BOOLEAN
  /\ session \in 0 .. MaxSessions
  /\ via \in {Nowhere} \cup (0 .. session)
  /\ outbox \in Seq(Messages)

LEMMA TypesSplit == StreamTypeOK <=> FeedTypes /\ TaskTypes
PROOF
  BY DEF StreamTypeOK, FeedTypes, TaskTypes

\* A step either leaves the variables of feed() alone and a closed stream
\* closed, or is one of the two outcomes of feed().
LEMMA FeedOrNot ==
  ASSUME StreamNext
  PROVE  \/ \E s \in Frames : FeedOverflows(s) \/ FeedWrites(s)
         \/ UNCHANGED feedVars /\ (closed => closed')
PROOF
  BY DEF StreamNext, Feed, BadFrame, Drained, DrainFails, PumpReads, PumpSent,
         PumpEnds, PumpIsCancelled, PumpCloses, TimerFires, Forgets, Tells, TellInterrupted,
         TableCleared, TimerCancelled, LinkBreaks, LinkReturns, ReceiverCloses

LEMMA FeedTypesStep ==
  ASSUME StreamAssumption, StreamTypeOK, StreamNext
  PROVE  FeedTypes'
PROOF
<1>1. ASSUME NEW s \in Frames, FeedOverflows(s)
      PROVE  FeedTypes'
  BY <1>1 DEF FeedOverflows, ReceiverCloses, FeedTypes, StreamTypeOK, Fresh
<1>2. ASSUME NEW s \in Frames, FeedWrites(s)
      PROVE  FeedTypes'
  BY <1>2, WriteRunKeeps DEF FeedWrites, Fresh, FeedTypes
<1>3. CASE UNCHANGED feedVars /\ (closed => closed')
  BY <1>3 DEF feedVars, FeedTypes, StreamTypeOK
<1> QED
  BY <1>1, <1>2, <1>3, FeedOrNot

LEMMA MessageTypes ==
  ASSUME TaskTypes, StreamAssumption
  PROVE  Data \in Messages /\ Closed \in Messages
PROOF
  BY DEF TaskTypes, StreamAssumption, Data, Closed, Messages

LEMMA SentType ==
  ASSUME TaskTypes, NEW m \in Messages, Sent(m)
  PROVE  outbox' \in Seq(Messages)
PROOF
  BY AppendProperties DEF TaskTypes, Sent

LEMMA LastFrameType ==
  ASSUME TaskTypes, StreamAssumption, LastFrame
  PROVE  outbox' \in Seq(Messages)
PROOF
  BY MessageTypes, SentType DEF LastFrame, TaskTypes

LEMMA TaskTypesStep ==
  ASSUME StreamAssumption, TaskTypes, StreamNext
  PROVE  TaskTypes'
PROOF
<1>1. CASE Feed \/ BadFrame \/ DrainFails
  <2>1. ASSUME ReceiverCloses, UNCHANGED inTable PROVE TaskTypes'
    <3>1. outbox' \in Seq(Messages)
      BY <2>1, LastFrameType DEF ReceiverCloses
    <3> QED
      BY <2>1, <3>1 DEF ReceiverCloses, TaskTypes, PumpCancelled
  <2>2. ASSUME NEW s \in Frames, FeedWrites(s) PROVE TaskTypes'
    BY <2>2 DEF FeedWrites, outVars, TaskTypes
  <2> QED
    BY <1>1, <2>1, <2>2 DEF Feed, BadFrame, DrainFails, FeedOverflows
<1>2. CASE Drained
  BY <1>2 DEF Drained, outVars, TaskTypes
<1>3. CASE PumpReads
  BY <1>3 DEF PumpReads, SendStarts, TaskTypes, StreamAssumption
<1>4. CASE PumpSent
  <2>1. outbox' \in Seq(Messages)
    BY <1>4, MessageTypes, SentType DEF PumpSent
  <2> QED
    BY <1>4, <2>1 DEF PumpSent, TaskTypes, StreamAssumption
<1>5. CASE PumpEnds
  BY <1>5 DEF PumpEnds, PumpCloses, outVars, TaskTypes
<1>6. CASE PumpIsCancelled \/ TimerFires
  <2>1. outbox' \in Seq(Messages)
    BY <1>6, LastFrameType DEF PumpIsCancelled, PumpCloses, TimerFires
  <2> QED
    BY <1>6, <2>1 DEF PumpIsCancelled, PumpCloses, TimerFires, PumpCancelled, TaskTypes
<1>7. CASE Forgets
  <2>1. via' \in {Nowhere} \cup (0 .. session')
    BY <1>7 DEF Forgets, TimerCancelled, SendStarts, TaskTypes
  <2>2. timer' \in {"watching", "closing", "telling", "ended"}
    BY <1>7 DEF Forgets, TimerCancelled, TaskTypes
  <2> QED
    BY <1>7, <2>1, <2>2 DEF Forgets, TimerCancelled, TaskTypes
<1>8. CASE Tells
  <2>1. outbox' \in Seq(Messages)
    BY <1>8, MessageTypes, SentType DEF Tells
  <2> QED
    BY <1>8, <2>1 DEF Tells, TaskTypes
<1>9. CASE TellInterrupted \/ TableCleared
  BY <1>9 DEF TellInterrupted, TableCleared, TimerCancelled, outVars, TaskTypes
<1>10. CASE LinkBreaks
  BY <1>10 DEF LinkBreaks, taskVars, TaskTypes
<1>11. CASE LinkReturns
  <2>1. session' \in 0 .. MaxSessions /\ via' \in {Nowhere} \cup (0 .. session')
    BY <1>11 DEF LinkReturns, TaskTypes, StreamAssumption
  <2> QED
    BY <1>11, <2>1 DEF LinkReturns, taskVars, TaskTypes
<1> QED
  BY <1>1, <1>2, <1>3, <1>4, <1>5, <1>6, <1>7, <1>8, <1>9, <1>10,
     <1>11 DEF StreamNext

\* The types hold in every reachable state; with them, the buffer of an open
\* stream holds only frames behind a gap and never more than the window
\* (tunnel.py feed).
THEOREM StreamTypeCorrect == StreamSpec => []StreamTypeOK
PROOF
<1>1. StreamInit => StreamTypeOK
  <2>1. 0 \in 0 .. NumFrames /\ 0 \in 0 .. MaxChunks /\ 0 \in 0 .. MaxSessions
        /\ Cardinality({}) <= ReorderWindow
    BY StreamAssumption, FS_EmptySet DEF StreamAssumption
  <2>2. <<>> \in Seq(Frames) /\ <<>> \in Seq(Messages)
    BY EmptySeq
  <2> QED
    BY <2>1, <2>2 DEF StreamInit, StreamTypeOK
<1>2. StreamTypeOK /\ [StreamNext]_streamVars => StreamTypeOK'
  <2>1. StreamTypeOK /\ StreamNext => StreamTypeOK'
    <3> SUFFICES ASSUME StreamTypeOK, StreamNext PROVE StreamTypeOK'
      OBVIOUS
    <3>1. FeedTypes'
      BY FeedTypesStep, StreamAssumption
    <3>2. TaskTypes'
      BY TypesSplit, TaskTypesStep, StreamAssumption
    <3> QED
      BY <3>1, <3>2 DEF StreamTypeOK, FeedTypes, TaskTypes
  <2>2. StreamTypeOK /\ UNCHANGED streamVars => StreamTypeOK'
    BY DEF StreamTypeOK, streamVars, feedVars, taskVars, outVars
  <2> QED
    BY <2>1, <2>2
<1> QED
  BY <1>1, <1>2, PTL DEF StreamSpec

---------------------------------------------------------------------------
(* The socket gets the frames in order.                                    *)

\* the next frame has the number of those written so far
Counted == Len(written) = nextIn

LEMMA Advance ==
  ASSUME NEW a \in Nat, NEW b \in Nat, NEW n \in Nat, a <= b, b <= n
  PROVE  /\ a + (b - a) = b
         /\ a # b => (b - a) \in 1 .. (n - a)
PROOF
  OBVIOUS

LEMMA StreamStep ==
  ASSUME StreamAssumption, StreamTypeOK, Counted, [StreamNext]_streamVars
  PROVE  /\ Counted'
         /\ [Ordered!Deliver \/ Ordered!Close]_<<written, ~closed>>
PROOF
<1>1. ASSUME NEW s \in Frames, FeedOverflows(s)
      PROVE  Counted' /\ Ordered!Close
  BY <1>1 DEF FeedOverflows, Fresh, ReceiverCloses, Counted, Ordered!Close
<1>2. ASSUME NEW s \in Frames, FeedWrites(s)
      PROVE  Counted' /\ (Ordered!Deliver \/ UNCHANGED <<written, ~closed>>)
  <2>1. written' = written \o Written(nextIn, nextIn' - nextIn)
    BY <1>2, WriteRunKeeps DEF FeedWrites, Fresh
  <2>2. /\ nextIn' \in 0 .. NumFrames
        /\ nextIn <= nextIn'
        /\ Len(written') = Len(written) + (nextIn' - nextIn)
    BY <1>2, WriteRunKeeps DEF FeedWrites, Fresh
  <2>3. /\ nextIn \in Nat /\ nextIn' \in Nat /\ NumFrames \in Nat
        /\ nextIn <= nextIn' /\ nextIn' <= NumFrames
    BY <2>2, StreamAssumption DEF StreamAssumption, StreamTypeOK
  <2>4. Counted'
    <3>1. nextIn + (nextIn' - nextIn) = nextIn'
      BY <2>3, Advance
    <3>2. Len(written') = nextIn + (nextIn' - nextIn)
      BY <2>2 DEF Counted
    <3> QED
      BY <3>1, <3>2 DEF Counted
  <2>5. CASE nextIn' = nextIn
    <3>1. nextIn \in Nat /\ nextIn' - nextIn = 0 /\ nextIn + 0 <= NumFrames
      BY <2>3, <2>5, StreamAssumption DEF StreamAssumption, StreamTypeOK
    <3>2. Written(nextIn, 0) \in Seq(Frames) /\ Len(Written(nextIn, 0)) = 0
      BY <3>1, RunOfFrames, StreamAssumption DEF StreamAssumption
    <3>3. Written(nextIn, nextIn' - nextIn) = <<>>
      BY <3>1, <3>2, EmptySeq
    <3>4. written' = written
      BY <2>1, <3>3, ConcatEmptySeq DEF StreamTypeOK
    <3> QED
      BY <1>2, <2>4, <3>4 DEF FeedWrites
  <2>6. CASE nextIn' # nextIn
    <3> DEFINE n == nextIn' - nextIn
    <3>1. n \in 1 .. (NumFrames - nextIn)
      BY <2>3, <2>6, Advance
    <3>2. Ordered!Following(n) = Written(nextIn, n)
      BY Counted DEF Counted, Written, Ordered!Following
    <3>3. written' = written \o Ordered!Following(n)
      BY <2>1, <3>2
    <3> HIDE DEF n
    <3> QED
      BY <1>2, <2>4, <3>1, <3>3 DEF FeedWrites, Fresh, Counted, Ordered!Deliver
  <2> QED
    BY <2>5, <2>6
<1>3. CASE UNCHANGED feedVars /\ (closed => closed')
  <2>1. UNCHANGED <<nextIn, written>>
    BY <1>3 DEF feedVars
  <2>2. closed' \in BOOLEAN \/ UNCHANGED closed
    BY DEF StreamNext, Feed, FeedOverflows, FeedWrites, BadFrame, Drained,
           DrainFails, PumpReads, PumpSent, PumpEnds, PumpIsCancelled, PumpCloses, TimerFires,
           Forgets, Tells, TellInterrupted, TableCleared, TimerCancelled, LinkBreaks, LinkReturns,
           ReceiverCloses, streamVars
  <2>3. closed' = closed \/ (~closed /\ closed' = TRUE)
    BY <1>3, <2>2 DEF StreamTypeOK
  <2> QED
    BY <2>1, <2>3 DEF Counted, Ordered!Close
<1>4. CASE UNCHANGED streamVars
  BY <1>4 DEF streamVars, feedVars, Counted
<1> QED
  BY <1>1, <1>2, <1>3, <1>4, FeedOrNot

\* A stream implements OrderedStream: whatever frames arrive, in whatever order
\* and how often, the local socket gets a prefix of the server's frames, and
\* nothing after the close (tunnel.py feed, close).
THEOREM StreamKeepsOrder == StreamSpec => InOrder
PROOF
<1>1. StreamInit => Ordered!Init /\ Counted
  BY DEF StreamInit, Ordered!Init, Counted
<1>2. StreamTypeOK /\ Counted /\ [StreamNext]_streamVars
        => Counted' /\ [Ordered!Deliver \/ Ordered!Close]_<<written, ~closed>>
  BY StreamStep, StreamAssumption
<1> QED
  BY <1>1, <1>2, StreamTypeCorrect, PTL DEF StreamSpec, InOrder, Ordered!Spec

---------------------------------------------------------------------------
(* The window.                                                             *)

\* Whatever the window, a stream is cut off for its reorder buffer only if the
\* server ran as far ahead of the missing frame as the window is wide
\* (tunnel.py feed).
THEOREM WindowIsGranted == StreamSpec => NoCutBeforeWindow
PROOF
<1> DEFINE Ahead == ~closed /\ closed' /\ pending' # pending
                      => \E s \in pending' : s >= nextIn + ReorderWindow
<1>1. StreamTypeOK /\ [StreamNext]_streamVars => Ahead
  <2> SUFFICES ASSUME StreamTypeOK, [StreamNext]_streamVars,
                      ~closed, closed', pending' # pending
               PROVE  \E s \in pending' : s >= nextIn + ReorderWindow
    OBVIOUS
  <2>1. PICK s \in Frames : FeedOverflows(s)
    BY FeedOrNot DEF FeedWrites, streamVars, feedVars
  <2>2. pending' = pending \cup {s} /\ Cardinality(pending') > ReorderWindow
    BY <2>1 DEF FeedOverflows, Overflows
  <2>3. \A f \in pending' : f \in Nat /\ nextIn <= f
    BY <2>1, <2>2 DEF FeedOverflows, Fresh, StreamTypeOK, Frames
  <2>4. nextIn \in Nat /\ ReorderWindow \in Nat
    BY StreamAssumption DEF StreamAssumption, StreamTypeOK
  <2> SUFFICES ASSUME \A f \in pending' : ~(f >= nextIn + ReorderWindow)
               PROVE  FALSE
    OBVIOUS
  <2> DEFINE Window == nextIn .. (nextIn + ReorderWindow - 1)
  <2>5. pending' \subseteq Window
    BY <2>3, <2>4
  <2>6. IsFiniteSet(Window) /\ Cardinality(Window) = ReorderWindow
    BY <2>4, FS_Interval
  <2>7. Cardinality(pending') <= ReorderWindow /\ IsFiniteSet(pending')
    <3> HIDE DEF Window
    <3> QED
      BY <2>5, <2>6, FS_Subset
  <2>8. Cardinality(pending') \in Nat
    BY <2>7, FS_CardinalityType
  <2> QED
    BY <2>2, <2>4, <2>7, <2>8
<1> QED
  BY <1>1, StreamTypeCorrect, PTL DEF StreamSpec, NoCutBeforeWindow, Ahead

---------------------------------------------------------------------------
(* What the relay gets.                                                    *)

InClose == {"closing", "telling"}

\* The stream is closed once; whoever closed it is the only one in close(), and
\* the pump runs exactly while the stream is open.
OneCloser ==
  /\ closed <=> pump \notin {"reading", "sending"}
  /\ rx \in InClose => closed /\ pump \notin InClose /\ timer \notin InClose
  /\ timer \in InClose => closed /\ pump \notin InClose /\ rx \notin InClose

NobodyCloses == {rx, pump, timer} \cap InClose = {}

\* A frame that is not in its session: the session has nothing of the stream.
\* Otherwise the last frame of the session has the number before the next one.
Contiguous ==
  ~closed /\ up =>
    \A i \in 1 .. Len(outbox) :
      /\ outbox[i].session = session => pump # "sending" \/ via = session
      /\ i = Len(outbox) /\ outbox[i].session = session => outbox[i].seq = outSeq - 1

OutInv ==
  /\ OutgoingInOrder
  /\ OneCloser
  /\ \A i \in 1 .. Len(outbox) :
       /\ outbox[i].session <= session
       /\ ~closed => outbox[i].seq < outSeq
       /\ outbox[i].what = "closed" => closed /\ NobodyCloses
  /\ Contiguous

\* a message after messages that it may follow
LEMMA Follows ==
  ASSUME TaskTypes, OutgoingInOrder, NEW m \in Messages,
         outbox' = Append(outbox, m),
         \A i \in 1 .. Len(outbox) : outbox[i].what = "data",
         m.what = "data" =>
           /\ \A i \in 1 .. Len(outbox) : outbox[i].seq < m.seq
           /\ \A i \in 1 .. Len(outbox) :
                i = Len(outbox) /\ outbox[i].session = m.session => m.seq = outbox[i].seq + 1
  PROVE  /\ OutgoingInOrder'
         /\ Len(outbox') = Len(outbox) + 1
         /\ Len(outbox) \in Nat
         /\ \A i \in 1 .. Len(outbox) : outbox'[i] = outbox[i]
         /\ outbox'[Len(outbox) + 1] = m
PROOF
<1> DEFINE n == Len(outbox)
<1>1. outbox \in Seq(Messages)
  BY DEF TaskTypes
<1>2. /\ n \in Nat
      /\ Len(outbox') = n + 1
      /\ \A i \in 1 .. n : outbox'[i] = outbox[i]
      /\ outbox'[n + 1] = m
  BY <1>1, AppendProperties, LenProperties
<1>3. ASSUME NEW i \in 1 .. Len(outbox'), NEW j \in 1 .. Len(outbox'), i < j
      PROVE  /\ outbox'[i].what = "data"
             /\ outbox'[j].what = "data" => outbox'[i].seq < outbox'[j].seq
             /\ j = i + 1 /\ outbox'[j].what = "data" /\ outbox'[i].session = outbox'[j].session
                  => outbox'[j].seq = outbox'[i].seq + 1
  <2>1. i \in 1 .. n /\ outbox'[i] = outbox[i]
    BY <1>2, <1>3
  <2>2. CASE j = n + 1
    <3>1. j = i + 1 => i = n
      BY <1>2, <2>1, <2>2
    <3> QED
      BY <1>2, <2>1, <2>2, <3>1
  <2>3. CASE j # n + 1
    <3>1. j \in 1 .. n /\ outbox'[j] = outbox[j]
      BY <1>2, <1>3, <2>3
    <3> QED
      BY <1>3, <2>1, <3>1 DEF OutgoingInOrder
  <2> QED
    BY <2>2, <2>3
<1> QED
  BY <1>2, <1>3 DEF OutgoingInOrder

\* the frame of the pump goes out, or not
LEMMA DataGoesOut ==
  ASSUME TaskTypes, StreamAssumption, OutInv, pump = "sending",
         Sent(Data) \/ UNCHANGED outbox
  PROVE  /\ OutgoingInOrder'
         /\ \A i \in 1 .. Len(outbox') :
              /\ outbox'[i].session <= session
              /\ outbox'[i].seq < outSeq + 1
              /\ outbox'[i].what = "data"
         /\ Sent(Data) /\ up => \A i \in 1 .. Len(outbox') :
              i = Len(outbox') /\ outbox'[i].session = session => outbox'[i].seq = outSeq
PROOF
<1>1. ~closed
  BY DEF OutInv, OneCloser
<1>2. /\ outSeq \in Nat /\ session \in Nat
      /\ \A i \in 1 .. Len(outbox) : outbox[i] \in Messages
  BY ElementOfSeq DEF TaskTypes, StreamAssumption
<1>3. \A i \in 1 .. Len(outbox) :
        /\ outbox[i].what = "data"
        /\ outbox[i].session <= session
        /\ outbox[i].seq \in Nat /\ outbox[i].seq < outSeq
  BY <1>1, <1>2 DEF OutInv, Messages
<1>4. CASE UNCHANGED outbox /\ ~(up /\ via = session)
  <2>1. up => \A i \in 1 .. Len(outbox) : outbox[i].session # session
    BY <1>1, <1>4 DEF OutInv, Contiguous
  <2>2. OutgoingInOrder'
    BY <1>4 DEF OutInv, OutgoingInOrder
  <2> QED
    BY <1>2, <1>3, <1>4, <2>1, <2>2
<1>5. CASE outbox' = Append(outbox, Data) /\ up /\ via = session
  <2>1. \A i \in 1 .. Len(outbox) :
          i = Len(outbox) /\ outbox[i].session = session => outSeq = outbox[i].seq + 1
    BY <1>1, <1>2, <1>3, <1>5 DEF OutInv, Contiguous
  <2>2. Data \in Messages /\ Data.what = "data" /\ Data.seq = outSeq /\ Data.session = session
    BY MessageTypes DEF Data
  <2>3. /\ OutgoingInOrder'
        /\ Len(outbox') = Len(outbox) + 1
        /\ Len(outbox) \in Nat
        /\ \A i \in 1 .. Len(outbox) : outbox'[i] = outbox[i]
        /\ outbox'[Len(outbox) + 1] = Data
    BY <1>3, <1>5, <2>1, <2>2, Follows DEF OutInv
  <2>4. \A i \in 1 .. Len(outbox') : i \in 1 .. Len(outbox) \/ i = Len(outbox) + 1
    BY <2>3
  <2> QED
    BY <1>2, <1>3, <2>2, <2>3, <2>4
<1>6. CASE UNCHANGED outbox /\ up /\ via = session /\ ~Sent(Data)
  BY <1>2, <1>3, <1>6 DEF OutInv, OutgoingInOrder
<1> QED
  BY <1>4, <1>5, <1>6 DEF Sent

LEMMA OutboxTypes ==
  ASSUME TaskTypes
  PROVE  \A i \in 1 .. Len(outbox) :
           /\ outbox[i] \in Messages
           /\ outbox[i].session \in Nat
           /\ outbox[i].what \in {"data", "closed"}
PROOF
<1>1. \A i \in 1 .. Len(outbox) : outbox[i] \in Messages
  BY ElementOfSeq DEF TaskTypes
<1>2. \A m \in Messages : m.session \in Nat /\ m.what \in {"data", "closed"}
  BY DEF Messages
<1> QED
  BY <1>1, <1>2

\* a step that closes the stream
LEMMA Closes ==
  ASSUME TaskTypes, StreamAssumption, OutInv, ~closed, closed', LastFrame,
         UNCHANGED session, OneCloser'
  PROVE  OutInv'
PROOF
<1>1. session \in Nat /\ \A i \in 1 .. Len(outbox) : outbox[i].what # "closed"
  BY DEF TaskTypes, OutInv
<1>2. CASE UNCHANGED outbox
  BY <1>1, <1>2 DEF OutInv, OutgoingInOrder, Contiguous
<1>3. CASE pump = "sending" /\ Sent(Data)
  BY <1>3, DataGoesOut DEF OutInv, Contiguous
<1> QED
  BY <1>2, <1>3 DEF LastFrame

\* a step that neither sends nor closes
LEMMA SaysNothing ==
  ASSUME TaskTypes, OutInv, UNCHANGED <<outbox, outSeq, closed>>,
         session' = session \/ session' = session + 1,
         OneCloser', NobodyCloses => NobodyCloses', Contiguous'
  PROVE  OutInv'
PROOF
<1>1. session \in Nat
  BY DEF TaskTypes
<1>2. \A i \in 1 .. Len(outbox) : outbox[i].session \in Nat
  BY OutboxTypes
<1>3. OutgoingInOrder'
  BY DEF OutInv, OutgoingInOrder
<1>4. \A i \in 1 .. Len(outbox) : outbox[i].session <= session'
  BY <1>1, <1>2 DEF OutInv
<1> QED
  BY <1>3, <1>4 DEF OutInv

LEMMA OutInvStep ==
  ASSUME StreamAssumption, TaskTypes, OutInv, StreamNext
  PROVE  OutInv'
PROOF
<1>1. ASSUME ReceiverCloses, rx \in {"idle", "draining"}, ~closed
      PROVE  OutInv'
  <2>1. OneCloser'
    BY <1>1 DEF ReceiverCloses, PumpCancelled, OutInv, OneCloser, InClose
  <2> QED
    BY <1>1, <2>1, Closes DEF ReceiverCloses
<1>2. CASE \/ BadFrame \/ DrainFails
           \/ \E s \in Frames : FeedOverflows(s)
  BY <1>1, <1>2 DEF BadFrame, DrainFails, FeedOverflows, Receives, Fresh
<1>3. CASE TimerFires \/ PumpIsCancelled \/ PumpEnds
  <2>1. OneCloser' /\ ~closed /\ closed' /\ UNCHANGED session
    BY <1>3 DEF TimerFires, PumpIsCancelled, PumpEnds, PumpCloses, outVars, PumpCancelled,
                OutInv, OneCloser, InClose
  <2>2. LastFrame
    BY <1>3 DEF TimerFires, PumpIsCancelled, PumpEnds, PumpCloses, outVars, LastFrame
  <2> QED
    BY <2>1, <2>2, Closes
<1>4. CASE \/ Drained \/ TellInterrupted \/ TableCleared
           \/ \E s \in Frames : FeedWrites(s)
  <2>1. /\ UNCHANGED <<outbox, outSeq, closed, session, up, via>>
        /\ pump' = "sending" => pump = "sending"
    BY <1>4 DEF Drained, TellInterrupted, TableCleared, TimerCancelled, FeedWrites, outVars
  <2>2. OneCloser' /\ (NobodyCloses => NobodyCloses')
    BY <1>4 DEF Drained, TellInterrupted, TableCleared, TimerCancelled, FeedWrites, Receives,
                OutInv, OneCloser, InClose, NobodyCloses
  <2>3. Contiguous'
    BY <2>1 DEF OutInv, Contiguous
  <2> QED
    BY <2>1, <2>2, <2>3, SaysNothing
<1>5. CASE Forgets
  <2>1. UNCHANGED <<outbox, outSeq, closed, session>> /\ closed
    BY <1>5 DEF Forgets, TimerCancelled, OutInv, OneCloser, InClose
  <2>2. OneCloser' /\ ~NobodyCloses
    BY <1>5 DEF Forgets, TimerCancelled, OutInv, OneCloser, InClose, NobodyCloses
  <2>3. Contiguous'
    BY <2>1 DEF Contiguous
  <2> QED
    BY <2>1, <2>2, <2>3, SaysNothing
<1>6. CASE PumpReads
  <2>1. UNCHANGED <<outbox, outSeq, closed, session, up>> /\ (up => via' = session)
    BY <1>6 DEF PumpReads, SendStarts
  <2>2. OneCloser' /\ (NobodyCloses => NobodyCloses')
    BY <1>6 DEF PumpReads, OutInv, OneCloser, InClose, NobodyCloses
  <2>3. Contiguous'
    BY <2>1 DEF OutInv, Contiguous
  <2> QED
    BY <2>1, <2>2, <2>3, SaysNothing
<1>7. CASE LinkBreaks
  BY <1>7, SaysNothing
     DEF LinkBreaks, taskVars, OutInv, OneCloser, NobodyCloses, Contiguous
<1>8. CASE LinkReturns
  <2>1. session \in Nat /\ \A i \in 1 .. Len(outbox) : outbox[i].session # session + 1
    <3>1. \A i \in 1 .. Len(outbox) : outbox[i].session \in Nat
      BY OutboxTypes
    <3> QED
      BY <3>1 DEF TaskTypes, OutInv
  <2>2. Contiguous'
    BY <1>8, <2>1 DEF LinkReturns, Contiguous
  <2> QED
    BY <1>8, <2>2, SaysNothing DEF LinkReturns, taskVars, OutInv, OneCloser, NobodyCloses
<1>9. CASE PumpSent
  <2>1. /\ pump = "sending" /\ Sent(Data) /\ ~closed
        /\ UNCHANGED <<closed, rx, timer, up, session, via>>
        /\ outSeq' = outSeq + 1 /\ pump' = "reading"
    BY <1>9 DEF PumpSent, OutInv, OneCloser
  <2>2. /\ OutgoingInOrder'
        /\ \A i \in 1 .. Len(outbox') :
             outbox'[i].session <= session' /\ outbox'[i].seq < outSeq' /\ outbox'[i].what = "data"
        /\ up => \A i \in 1 .. Len(outbox') :
             i = Len(outbox') /\ outbox'[i].session = session => outbox'[i].seq = outSeq
    BY <2>1, DataGoesOut
  <2>3. outSeq = outSeq' - 1
    BY <2>1 DEF TaskTypes
  <2>4. Contiguous'
    BY <2>1, <2>2, <2>3 DEF Contiguous
  <2>5. OneCloser'
    BY <2>1 DEF OutInv, OneCloser, InClose
  <2> QED
    BY <2>2, <2>4, <2>5 DEF OutInv
<1>10. CASE Tells
  <2>1. /\ closed /\ ~NobodyCloses
        /\ UNCHANGED <<closed, session, outSeq>>
    BY <1>10 DEF Tells, OutInv, OneCloser, InClose, NobodyCloses
  <2>2. OneCloser' /\ NobodyCloses' /\ Contiguous'
    BY <1>10, <2>1 DEF Tells, OutInv, OneCloser, InClose, NobodyCloses, Contiguous, TaskTypes
  <2>3. \A i \in 1 .. Len(outbox) : outbox[i] \in Messages /\ outbox[i].what = "data"
    BY <2>1, OutboxTypes DEF OutInv
  <2>4. Closed \in Messages /\ Closed.what = "closed" /\ Closed.session = session
    BY MessageTypes DEF Closed
  <2>5. CASE UNCHANGED outbox
    BY <2>1, <2>2, <2>3, <2>5 DEF OutInv, OutgoingInOrder
  <2>6. CASE outbox' = Append(outbox, Closed)
    <3>1. /\ OutgoingInOrder'
          /\ Len(outbox') = Len(outbox) + 1
          /\ Len(outbox) \in Nat
          /\ \A i \in 1 .. Len(outbox) : outbox'[i] = outbox[i]
          /\ outbox'[Len(outbox) + 1] = Closed
      BY <2>3, <2>4, <2>6, Follows DEF OutInv
    <3>2. \A i \in 1 .. Len(outbox') : outbox'[i].session <= session
      <4>1. \A i \in 1 .. Len(outbox') : i \in 1 .. Len(outbox) \/ i = Len(outbox) + 1
        BY <3>1
      <4>2. session \in Nat
        BY DEF TaskTypes
      <4> QED
        BY <2>4, <3>1, <4>1, <4>2 DEF OutInv
    <3> QED
      BY <2>1, <2>2, <3>1, <3>2 DEF OutInv
  <2> QED
    BY <1>10, <2>5, <2>6 DEF Tells, Sent
<1> QED
  BY <1>2, <1>3, <1>4, <1>5, <1>6, <1>7, <1>8, <1>9, <1>10 DEF StreamNext, Feed

\* One task at most closes the stream, and the messages to the relay follow.
LEMMA OutInvariant == StreamSpec => []OutInv
PROOF
<1>1. StreamInit => OutInv
  BY DEF StreamInit, OutInv, OutgoingInOrder, OneCloser, InClose, Contiguous
<1>2. StreamTypeOK /\ OutInv /\ [StreamNext]_streamVars => OutInv'
  <2>1. ASSUME StreamTypeOK, OutInv, StreamNext PROVE OutInv'
    BY <2>1, TypesSplit, OutInvStep, StreamAssumption
  <2>2. ASSUME OutInv, UNCHANGED streamVars PROVE OutInv'
    BY <2>2 DEF streamVars, taskVars, outVars, OutInv, OutgoingInOrder, OneCloser,
                NobodyCloses, Contiguous
  <2> QED
    BY <2>1, <2>2
<1> QED
  BY <1>1, <1>2, StreamTypeCorrect, PTL DEF StreamSpec

\* Of every stream the relay gets numbered frames in order, without a gap inside
\* a session, and nothing after tunnel_closed, whichever of the three tasks
\* closes it and whatever sessions come and go (tunnel.py _pump, close).
THEOREM RelayGetsOrder == StreamSpec => []OutgoingInOrder
PROOF
<1>1. OutInv => OutgoingInOrder
  BY DEF OutInv
<1> QED
  BY <1>1, OutInvariant, PTL

---------------------------------------------------------------------------
(* The life of the stream.                                                 *)

\* A step ends the stream, ends its close, drops it from the table or is
\* nothing to the table.
LEMMA LifeStep ==
  ASSUME TaskTypes, OneCloser, StreamNext
  PROVE  [Life!LifeNext]_<<Sock, inTable>>
PROOF
<1>1. ASSUME ReceiverCloses, rx \in {"idle", "draining"}, ~closed, UNCHANGED inTable
      PROVE  Life!Ends
  <2>1. Sock = "open"
    BY <1>1 DEF Sock
  <2>2. Sock' = "expiring"
    BY <1>1 DEF Sock, ReceiverCloses, PumpCancelled, OneCloser, InClose, TaskTypes
  <2> QED
    BY <1>1, <2>1, <2>2 DEF Life!Ends
<1>2. CASE BadFrame \/ DrainFails \/ \E s \in Frames : FeedOverflows(s)
  BY <1>1, <1>2 DEF BadFrame, DrainFails, FeedOverflows, Receives, Fresh, Life!LifeNext
<1>3. CASE TimerFires
  <2>1. Sock = "open" /\ Sock' = "expiring"
    BY <1>3 DEF TimerFires, Sock, PumpCancelled, OneCloser, InClose, TaskTypes
  <2> QED
    BY <1>3, <2>1 DEF TimerFires, Life!LifeNext, Life!Ends
<1>4. CASE PumpEnds \/ PumpIsCancelled
  <2>1. Sock = "open" /\ Sock' = "closing"
    BY <1>4 DEF PumpEnds, PumpIsCancelled, PumpCloses, Sock, OneCloser
  <2> QED
    BY <1>4, <2>1 DEF PumpEnds, PumpIsCancelled, PumpCloses, Life!LifeNext, Life!Ends
<1>5. CASE Forgets
  <2>1. Sock \in {"closing", "expiring"} /\ Sock' = "closed"
    BY <1>5 DEF Forgets, TimerCancelled, Sock, OneCloser, InClose, TaskTypes
  <2> QED
    BY <1>5, <2>1 DEF Forgets, TimerCancelled, Life!LifeNext, Life!CloseEnds
<1>6. CASE TableCleared
  <2>1. UNCHANGED Sock
    BY <1>6 DEF TableCleared, TimerCancelled, Sock, TaskTypes
  <2> QED
    BY <1>6, <2>1 DEF TableCleared, TimerCancelled, Life!LifeNext, Life!Dropped
<1>7. CASE \/ Drained \/ PumpReads \/ PumpSent \/ Tells \/ TellInterrupted
           \/ LinkBreaks \/ LinkReturns
           \/ \E s \in Frames : FeedWrites(s)
  <2>1. UNCHANGED <<Sock, inTable>>
    BY <1>7 DEF Drained, PumpReads, PumpSent, Tells, TellInterrupted, LinkBreaks,
                LinkReturns, FeedWrites, Receives, taskVars, Sock
  <2> QED
    BY <2>1
<1> QED
  BY <1>2, <1>3, <1>4, <1>5, <1>6, <1>7 DEF StreamNext, Feed

\* A stream lives the life that the table of all streams counts on: whichever of
\* the three tasks closes it, the close runs once, and its end takes the stream
\* out of the table (tunnel.py close, cancel, _expire, _forget).
THEOREM StreamIsALife == StreamSpec => LivesOnce
PROOF
<1>1. StreamInit => Life!LifeInit
  BY DEF StreamInit, Life!LifeInit, Sock
<1>2. StreamTypeOK /\ OutInv /\ [StreamNext]_streamVars
        => [Life!LifeNext]_<<Sock, inTable>>
  <2>1. ASSUME StreamTypeOK, OutInv, StreamNext
        PROVE  [Life!LifeNext]_<<Sock, inTable>>
    BY <2>1, TypesSplit, LifeStep DEF OutInv
  <2>2. ASSUME UNCHANGED streamVars
        PROVE  UNCHANGED <<Sock, inTable>>
    BY <2>2 DEF streamVars, taskVars, Sock
  <2> QED
    BY <2>1, <2>2
<1> QED
  BY <1>1, <1>2, OutInvariant, StreamTypeCorrect, PTL
     DEF StreamSpec, LivesOnce, Life!LifeSpec

=============================================================================

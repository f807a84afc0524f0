---------------------------- MODULE TunnelStream ----------------------------
(***************************************************************************)
(* One tunnel stream in both directions (tunnel.py TunnelStream).          *)
(*                                                                         *)
(* Frames of the server reach feed() through the receive loop, in any      *)
(* order, any number of times or never; the pump reads the local socket    *)
(* and sends what it reads to the session of the moment.  Three tasks may  *)
(* close the stream: the receive loop, the pump (by itself or because it   *)
(* was cancelled) and the timer.  Tunnel has the table and the consent;    *)
(* here they only say that a close may come at any moment.                 *)
(*                                                                         *)
(* A frame is its number: the server gives one content to each.            *)
(***************************************************************************)
EXTENDS Integers, FiniteSets, Sequences

CONSTANTS
  NumFrames,     \* BOUND: the frames of the server are 0 .. NumFrames - 1
  ReorderWindow, \* how many frames may wait for an earlier one: 64 in the code
  MaxChunks,     \* BOUND: what the pump reads from the local socket
  MaxSessions    \* BOUND: sessions with the relay

ASSUME StreamAssumption ==
  /\ NumFrames \in Nat
  /\ ReorderWindow \in Nat
  /\ MaxChunks \in Nat
  /\ MaxSessions \in Nat

VARIABLES
  nextIn,   \* _next_in_seq
  pending,  \* the keys of _pending
  written,  \* history: the frames written to the local socket
  closed,   \* _closed
  inTable,  \* the table of the client still has the stream
  rx,       \* where the receive loop is in a message to this stream
  pump,     \* where the pump is
  timer,    \* where the _expire task is
  outSeq,   \* _out_seq
  up,       \* a session with the relay is open
  session,  \* its number
  via,      \* the session the message under way goes to, or Nowhere
  outbox    \* history: what the relay has got of this stream

feedVars   == <<nextIn, pending, written>>
taskVars   == <<rx, pump, timer>>
outVars    == <<outSeq, up, session, via, outbox>>
streamVars == <<feedVars, closed, inTable, taskVars, outVars>>

Frames == 0 .. NumFrames - 1

Nowhere == -1
Data == [what |-> "data", seq |-> outSeq, session |-> session]
Closed == [what |-> "closed", seq |-> outSeq, session |-> session]
Messages == [what : {"data", "closed"}, seq : 0 .. MaxChunks, session : 0 .. MaxSessions]

\* The variables have their types; while the stream is open, the buffer holds
\* only frames that wait for an earlier one, and never more than the window.
StreamTypeOK ==
  /\ nextIn \in 0 .. NumFrames
  /\ pending \subseteq Frames
  /\ written \in Seq(Frames)
  /\ closed \in BOOLEAN
  /\ inTable \in BOOLEAN
  /\ rx \in {"idle", "draining", "closing", "telling"}
  /\ pump \in {"reading", "sending", "closing", "telling", "ended"}
  /\ timer \in {"watching", "closing", "telling", "ended"}
  /\ outSeq \in 0 .. MaxChunks
  /\ pump = "sending" => outSeq < MaxChunks
  /\ up \in BOOLEAN
  /\ session \in 0 .. MaxSessions
  /\ via \in {Nowhere} \cup (0 .. session)
  /\ outbox \in Seq(Messages)
  /\ \A s \in pending : nextIn < s \/ (closed /\ nextIn <= s)
  /\ ~closed => Cardinality(pending) <= ReorderWindow

StreamInit ==
  /\ nextIn = 0 /\ pending = {} /\ written = <<>>
  /\ closed = FALSE
  /\ inTable = TRUE
  /\ rx = "idle" /\ pump = "reading" /\ timer = "watching"
  /\ outSeq = 0
  /\ up = TRUE /\ session = 0 /\ via = Nowhere
  /\ outbox = <<>>

---------------------------------------------------------------------------
(* Messages to the relay.                                                  *)

\* _send() up to its await takes the session of the moment
SendStarts == via' = IF up THEN session ELSE Nowhere

\* the message reaches that session if it is still open
Sent(m) == outbox' = IF up /\ via = session THEN Append(outbox, m) ELSE outbox

\* the frame in the pump's hands when the pump is cancelled: the socket has it
\* already, or it never goes out
LastFrame ==
  \/ UNCHANGED outbox
  \/ pump = "sending" /\ Sent(Data)

---------------------------------------------------------------------------
(* Closing.                                                                *)

\* mutant: a close by another task leaves the pump alone
PumpGoesOn == pump

\* a close by another task cancels the pump, unless the pump has ended
PumpCancelled == IF pump \in {"reading", "sending"} THEN "ended" ELSE pump

\* close() in the receive loop, up to the await of wait_closed()
ReceiverCloses ==
  /\ closed' = TRUE
  /\ rx' = "closing"
  /\ pump' = PumpCancelled
  /\ LastFrame
  /\ UNCHANGED <<timer, outSeq, up, session, via>>

\* mutant: close() does not ask whether the stream is being closed
TimerFiresAgain ==
  /\ timer = "watching" /\ inTable
  /\ closed' = TRUE
  /\ timer' = "closing"
  /\ pump' = PumpCancelled
  /\ LastFrame
  /\ UNCHANGED <<feedVars, inTable, rx, outSeq, up, session, via>>

\* _expire finds the deadline past or the consent inactive
TimerFires ==
  /\ timer = "watching" /\ inTable
  /\ ~closed
  /\ closed' = TRUE
  /\ timer' = "closing"
  /\ pump' = PumpCancelled
  /\ LastFrame
  /\ UNCHANGED <<feedVars, inTable, rx, outSeq, up, session, via>>

\* on its way out the pump closes the stream, unless somebody has
PumpCloses ==
  /\ closed' = TRUE
  /\ pump' = IF closed THEN "ended" ELSE "closing"

\* the pump reads the end of the local connection, an error or nothing for too
\* long
PumpEnds ==
  /\ pump = "reading"
  /\ PumpCloses
  /\ UNCHANGED <<feedVars, inTable, rx, timer, outVars>>

\* cancel(), for a tunnel_close or close_all()
PumpIsCancelled ==
  /\ pump \in {"reading", "sending"}
  /\ PumpCloses
  /\ LastFrame
  /\ UNCHANGED <<feedVars, inTable, rx, timer, outSeq, up, session, via>>

TimerCancelled == IF timer = "watching" THEN "ended" ELSE timer

\* wait_closed() returns, or five seconds are over: _forget drops the stream and
\* cancels its timer, unless the timer itself closes; then tell the server
Forgets ==
  /\ \/ rx = "closing" /\ rx' = "telling" /\ timer' = TimerCancelled /\ UNCHANGED pump
     \/ pump = "closing" /\ pump' = "telling" /\ timer' = TimerCancelled /\ UNCHANGED rx
     \/ timer = "closing" /\ timer' = "telling" /\ UNCHANGED <<rx, pump>>
  /\ inTable' = FALSE
  /\ SendStarts
  /\ UNCHANGED <<feedVars, closed, outSeq, up, session, outbox>>

\* whoever closed the stream tells the server
Tells ==
  /\ \/ rx = "telling" /\ rx' = "idle" /\ UNCHANGED <<pump, timer>>
     \/ pump = "telling" /\ pump' = "ended" /\ UNCHANGED <<rx, timer>>
     \/ timer = "telling" /\ timer' = "ended" /\ UNCHANGED <<rx, pump>>
  /\ Sent(Closed)
  /\ UNCHANGED <<feedVars, closed, inTable, outSeq, up, session, via>>

\* the message of the pump is lost to a cancel() by a close_all() that has the
\* stream in its copy of the table, that of feed() to the ten seconds of _data
TellInterrupted ==
  /\ \/ rx = "telling" /\ rx' = "idle" /\ UNCHANGED pump
     \/ pump = "telling" /\ pump' = "ended" /\ UNCHANGED rx
  /\ UNCHANGED <<feedVars, closed, inTable, timer, outVars>>

\* the last step of close_all() clears the table, whatever is in it
TableCleared ==
  /\ inTable
  /\ inTable' = FALSE
  /\ timer' = TimerCancelled
  /\ UNCHANGED <<feedVars, closed, rx, pump, outVars>>

---------------------------------------------------------------------------
(* From the server to the local socket.                                    *)

\* the receive loop is free, the table has the stream
Receives == rx = "idle" /\ inTable

\* a frame that feed() does not ignore: the stream is open, the frame not
\* written yet
Fresh(s) == ~closed /\ s >= nextIn

\* mutant: the frames of the buffer are counted before the new one is in it
OverflowsLate(s) == s \in Frames /\ Cardinality(pending) > ReorderWindow

\* mutant: the buffer may not be as full as the window is wide
OverflowsEarly(s) == Cardinality(pending \cup {s}) >= ReorderWindow

Overflows(s) == Cardinality(pending \cup {s}) > ReorderWindow

\* too many frames wait for an earlier one: close
FeedOverflows(s) ==
  /\ Receives /\ Fresh(s)
  /\ Overflows(s)
  /\ pending' = pending \cup {s}
  /\ ReceiverCloses
  /\ UNCHANGED <<nextIn, written, inTable>>

\* mutant: whatever arrives is written at once
WriteRunAtOnce(s) ==
  /\ written' = Append(written, s)
  /\ nextIn' = s + 1
  /\ pending' = pending

\* the frames from the next one up to, not including, the first that is missing
WriteRun(s) ==
  \E upTo \in nextIn .. NumFrames :
    /\ \A f \in nextIn .. (upTo - 1) : f \in pending \cup {s}
    /\ upTo \notin pending \cup {s}
    /\ written' = written \o [i \in 1 .. (upTo - nextIn) |-> nextIn + i - 1]
    /\ nextIn' = upTo
    /\ pending' = (pending \cup {s}) \ (nextIn .. (upTo - 1))

\* feed() up to the await of drain()
FeedWrites(s) ==
  /\ Receives /\ Fresh(s)
  /\ ~Overflows(s)
  /\ WriteRun(s)
  /\ rx' = "draining"
  /\ UNCHANGED <<closed, inTable, pump, timer, outVars>>

\* a frame that is too long or not base64
BadFrame ==
  /\ Receives /\ ~closed
  /\ ReceiverCloses
  /\ UNCHANGED <<feedVars, inTable>>

\* drain() returns; on a stream closed meanwhile it may as well raise
Drained ==
  /\ rx = "draining"
  /\ rx' = "idle"
  /\ UNCHANGED <<feedVars, closed, inTable, pump, timer, outVars>>

\* mutant: drain() has no time-out, only an error the pump sees as well ends it
DrainHangs ==
  /\ rx = "draining" /\ ~closed
  /\ pump = "ended"
  /\ ReceiverCloses
  /\ UNCHANGED <<feedVars, inTable>>

\* drain() raises, or ten seconds are over
DrainFails ==
  /\ rx = "draining" /\ ~closed
  /\ ReceiverCloses
  /\ UNCHANGED <<feedVars, inTable>>

---------------------------------------------------------------------------
(* From the local socket to the server.                                    *)

PumpReads ==
  /\ pump = "reading"
  /\ outSeq < MaxChunks
  /\ pump' = "sending"
  /\ SendStarts
  /\ UNCHANGED <<feedVars, closed, inTable, rx, timer, outSeq, up, session, outbox>>

\* the send returns, whether a session took the frame or not
PumpSent ==
  /\ pump = "sending"
  /\ Sent(Data)
  /\ outSeq' = outSeq + 1
  /\ pump' = "reading"
  /\ UNCHANGED <<feedVars, closed, inTable, rx, timer, up, session, via>>

LinkBreaks ==
  /\ up
  /\ up' = FALSE
  /\ UNCHANGED <<feedVars, closed, inTable, taskVars, outSeq, session, via, outbox>>

\* a new session starts once the receive loop of the old one has ended
LinkReturns ==
  /\ ~up /\ rx = "idle"
  /\ session < MaxSessions
  /\ up' = TRUE
  /\ session' = session + 1
  /\ UNCHANGED <<feedVars, closed, inTable, taskVars, outSeq, via, outbox>>

---------------------------------------------------------------------------
Feed == \E s \in Frames : FeedOverflows(s) \/ FeedWrites(s)

StreamNext ==
  \/ Feed \/ BadFrame \/ Drained \/ DrainFails
  \/ PumpReads \/ PumpSent \/ PumpEnds \/ PumpIsCancelled \/ TimerFires
  \/ Forgets \/ Tells \/ TellInterrupted
  \/ TableCleared \/ LinkBreaks \/ LinkReturns

StreamSpec == StreamInit /\ [][StreamNext]_streamVars

\* The time-outs of feed() and close() end what the receive loop awaits, and a
\* message is sent or dropped; nothing makes the local socket take data.
StreamFairSpec ==
  /\ StreamSpec
  /\ WF_streamVars(DrainFails \/ (Drained /\ closed))
  /\ WF_streamVars(Forgets)
  /\ WF_streamVars(Tells)

---------------------------------------------------------------------------
(* Properties.                                                             *)

Ordered == INSTANCE OrderedStream WITH delivered <- written, open <- ~closed

\* The local socket gets a prefix of what the server sent, in order, each frame
\* once, and nothing after the close, however the frames arrive and whoever
\* closes the stream meanwhile (tunnel.py feed, close).
InOrder == Ordered!Spec

\* the socket as the table of the client sees it, until the close of it has ended
Sock ==
  IF ~closed THEN "open"
  ELSE IF pump = "closing" THEN "closing"
  ELSE IF rx = "closing" \/ timer = "closing" THEN "expiring" ELSE "closed"

Life == INSTANCE StreamLife WITH sock <- Sock, known <- inTable

\* Three tasks may close the stream, and still it is closed by one of them, and once:
\* its life is the one that the table of all streams builds on (tunnel.py close,
\* cancel, _forget).
LivesOnce == Life!LifeSpec

\* A server that stays less than the window ahead of the first missing frame is never
\* cut off, however late that frame comes and whatever was sent twice (tunnel.py feed).
NoCutBeforeWindow ==
  [][~closed /\ closed' /\ pending' # pending
       => \E s \in pending' : s >= nextIn + ReorderWindow]_streamVars

\* What the relay gets of a stream has increasing numbers, without a gap within
\* a session, and nothing follows tunnel_closed: sends that wait, sessions that
\* come and go and three tasks that may close do not mix it up (_pump, close).
OutgoingInOrder ==
  \A i \in 1 .. Len(outbox) : \A j \in 1 .. Len(outbox) : i < j =>
    /\ outbox[i].what = "data"
    /\ outbox[j].what = "data" => outbox[i].seq < outbox[j].seq
    /\ j = i + 1 /\ outbox[j].what = "data" /\ outbox[i].session = outbox[j].session
         => outbox[j].seq = outbox[i].seq + 1

\* The receive loop, which serves all streams and every other message, always
\* gets away from this one, even if its local socket takes no more data
\* (tunnel.py _data, feed, close).
ReceiverGoesOn == (rx # "idle") ~> (rx = "idle")

---------------------------------------------------------------------------
(* What the log says and the code does not keep.                           *)

\* "more than %d out-of-order frames, closing" (tunnel.py feed): a stream that overflows
\* has more than a window of frames that wait for an earlier one.
CutOnlyByTooManyWaiting ==
  [][~closed /\ closed' /\ pending' # pending
       => Cardinality(pending' \ {nextIn}) > ReorderWindow]_streamVars

=============================================================================

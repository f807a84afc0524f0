------------------------------- MODULE Tunnel -------------------------------
(***************************************************************************)
(* The tunnel streams of the agent (tunnel.py TunnelClient, TunnelStream)  *)
(* and the consent listener that closes them (agent.py _on_consent_change).*)
(*                                                                         *)
(* Of the consent this module keeps what a stream can see, ConsentView.  A *)
(* refresh that changes the status runs the listener before it returns, so *)
(* the task that refreshes is the task that closes all streams and then    *)
(* tells the server: the polling loop, a command, or the receive loop      *)
(* itself when it opens a stream.                                          *)
(***************************************************************************)
EXTENDS Naturals, FiniteSets, ConsentView

CONSTANTS
  Streams,      \* the streams the server opens, each identifier once
  Pollers,      \* the tasks that refresh the consent beside the receive loop
  Receiver,     \* the receive loop: it handles one message at a time
  NoStream,
  StreamLimit   \* how many streams may be open: 16 in the code

ASSUME TunnelAssumption ==
  /\ IsFiniteSet(Streams)
  /\ Receiver \notin Pollers
  /\ NoStream \notin Streams
  /\ StreamLimit \in Nat

Tasks == Pollers \cup {Receiver}

VARIABLES
  table,     \* the keys of TunnelClient._streams
  state,     \* the sockets of the streams
  timer,     \* the streams whose _expire task is alive
  due,       \* the streams whose own expires_at is past
  handling,  \* the stream whose message the receive loop handles
  at,        \* where each task is
  todo,      \* close_all(): the streams it has still to cancel
  waitFor,   \* close_all(): the stream it waits for
  told       \* the consent_state last sent in the session of the moment, if one is up

streamVars  == <<table, state, timer>>
taskVars    == <<handling, at, todo, waitFor>>
tunnelVars  == <<consentView, streamVars, due, taskVars, told>>

\* a socket that is being closed is closed by the pump, because it ended or was
\* cancelled ("closing"), or by another task, which ended the pump ("expiring")
States == {"new", "refused", "open", "closing", "expiring", "closed"}

\* The variables have their types; only the receive loop opens streams, and
\* while it handles a message it has a stream in hand.
TunnelTypeOK ==
  /\ enabled \in BOOLEAN /\ inWindow \in BOOLEAN
  /\ table \subseteq Streams
  /\ state \in [Streams -> States]
  /\ timer \subseteq Streams
  /\ due \subseteq Streams
  /\ handling \in Streams \cup {NoStream}
  /\ at[Receiver] # "idle" => handling \in Streams
  /\ at \in [Tasks -> {"idle", "reading", "closeAll", "check", "connect", "cancel"}]
  /\ \A p \in Pollers : at[p] \in {"idle", "closeAll"}
  /\ todo \in [Tasks -> SUBSET Streams]
  /\ waitFor \in [Tasks -> Streams \cup {NoStream}]
  /\ told \in {"nothing", "on", "off"}

TunnelInit ==
  /\ ViewInit
  /\ table = {}
  /\ state = [s \in Streams |-> "new"]
  /\ timer = {}
  /\ due = {}
  /\ handling = NoStream
  /\ at = [t \in Tasks |-> "idle"]
  /\ todo = [t \in Tasks |-> {}]
  /\ waitFor = [t \in Tasks |-> NoStream]
  /\ told = "nothing"

---------------------------------------------------------------------------
(* One stream.                                                             *)

IsOpen(s) == state[s] = "open"

\* close() up to the await of wait_closed(), in the pump: the target closed the
\* connection, was idle too long or failed
PumpEnds(s) ==
  /\ IsOpen(s)
  /\ state' = [state EXCEPT ![s] = "closing"]
  /\ UNCHANGED <<consentView, table, timer, due, taskVars, told>>

\* mutant: the timer looks at the stream's own deadline only
TimerFiresWhenDue(s) ==
  /\ s \in timer /\ s \in table
  /\ IsOpen(s)
  /\ s \in due
  /\ state' = [state EXCEPT ![s] = "expiring"]
  /\ UNCHANGED <<consentView, table, timer, due, taskVars, told>>

\* _expire finds the deadline past or the consent inactive: close()
TimerFires(s) ==
  /\ s \in timer /\ s \in table
  /\ IsOpen(s)
  /\ s \in due \/ ~IsActive
  /\ state' = [state EXCEPT ![s] = "expiring"]
  /\ UNCHANGED <<consentView, table, timer, due, taskVars, told>>

\* _expire finds its stream gone from the table, and stops watching it
TimerEnds(s) ==
  /\ s \in timer /\ s \notin table
  /\ state[s] # "expiring"
  /\ timer' = timer \ {s}
  /\ UNCHANGED <<consentView, table, state, due, taskVars, told>>

\* mutant: the stream is not forgotten
ClosedKept(s) ==
  /\ state[s] \in {"closing", "expiring"}
  /\ state' = [state EXCEPT ![s] = "closed"]
  /\ UNCHANGED <<consentView, table, timer, due, taskVars, told>>

\* close() goes on: _forget; the message that tells the server is left out
Closed(s) ==
  /\ state[s] \in {"closing", "expiring"}
  /\ state' = [state EXCEPT ![s] = "closed"]
  /\ table' = table \ {s}
  /\ timer' = timer \ {s}
  /\ UNCHANGED <<consentView, due, taskVars, told>>

\* mutant: the pump is awaited, not cancelled
CancelStartsNot(s) == s \in Streams /\ UNCHANGED state

\* cancel() makes the pump close the stream and waits for the pump; if another
\* task is closing it, the pump has ended and there is nothing to wait for
CancelStarts(s) ==
  state' = IF IsOpen(s) THEN [state EXCEPT ![s] = "closing"] ELSE state

PumpRuns(s) == state[s] \in {"open", "closing"}

---------------------------------------------------------------------------
(* close_all(), in the task of the refresh that closed the consent.        *)

\* where a task goes when its refresh has returned
AfterRefresh(t) == IF t = Receiver THEN "check" ELSE "idle"

\* mutant: the server hears nothing of a consent that has ended
TellOnly(what) == told' = IF what = "off" THEN told ELSE what

\* _send_consent_state: the messages wait for the one send lock in the order of
\* their calls; without a session the message is dropped
Tell(what) == told' = IF told = "nothing" THEN told ELSE what

\* What close_all() does up to its next await, with these streams still to
\* cancel: wait for the pump of one, or, when no pump is left to wait for,
\* _streams.clear(), whatever was added meanwhile. The listener then tells the
\* server.
CloseRest(t, rest) ==
  \/ /\ \A s \in rest : ~PumpRuns(s)
     /\ table' = {}
     /\ Tell("off")
     /\ at' = [at EXCEPT ![t] = AfterRefresh(t)]
     /\ todo' = [todo EXCEPT ![t] = {}]
     /\ waitFor' = [waitFor EXCEPT ![t] = NoStream]
     /\ UNCHANGED state
  \/ \E s \in rest :
       /\ PumpRuns(s)
       /\ CancelStarts(s)
       /\ at' = [at EXCEPT ![t] = "closeAll"]
       /\ todo' = [todo EXCEPT ![t] = rest \ {s}]
       /\ waitFor' = [waitFor EXCEPT ![t] = s]
       /\ UNCHANGED <<table, told>>

CancelReturns(t) ==
  /\ at[t] = "closeAll"
  /\ state[waitFor[t]] = "closed"
  /\ CloseRest(t, todo[t])
  /\ UNCHANGED <<consentView, timer, due, handling>>

---------------------------------------------------------------------------
(* The consent.                                                            *)

\* refresh() of a task commits a status: enabled with an open window, or not.  A
\* change, be it of the expiry or the source alone, runs the listener, which
\* closes all streams unless the new status is active, and tells the server.
Commit(t, on) ==
  /\ Install(on)
  /\ \/ ~on /\ CloseRest(t, table)
     \/ /\ \/ on /\ Tell("on")
           \/ on = enabled /\ UNCHANGED told
        /\ at' = [at EXCEPT ![t] = AfterRefresh(t)]
        /\ UNCHANGED <<table, state, todo, waitFor>>

Poll(p) ==
  /\ at[p] = "idle"
  /\ \E on \in BOOLEAN : Commit(p, on)
  /\ UNCHANGED <<timer, due, handling>>

WindowEnds ==
  /\ WindowCloses
  /\ UNCHANGED <<streamVars, due, taskVars, told>>

\* a session with the relay is lost; the streams, close_all() and the command
\* tasks go on
SessionEnds ==
  /\ told # "nothing"
  /\ told' = "nothing"
  /\ UNCHANGED <<consentView, streamVars, due, taskVars>>

\* _serve: a new session, without a receive loop yet, begins with the status
SessionStarts ==
  /\ told = "nothing"
  /\ at[Receiver] = "idle"
  /\ told' = IF enabled THEN "on" ELSE "off"
  /\ UNCHANGED <<consentView, streamVars, due, taskVars>>

\* the expires_at that the server gave the stream passes
StreamDue(s) ==
  /\ s \notin due
  /\ due' = due \cup {s}
  /\ UNCHANGED <<consentView, streamVars, taskVars, told>>

---------------------------------------------------------------------------
(* The receive loop.                                                       *)

\* tunnel_open: refresh the consent first
ReceiveOpen(s) ==
  /\ at[Receiver] = "idle"
  /\ state[s] = "new"
  /\ at' = [at EXCEPT ![Receiver] = "reading"]
  /\ handling' = s
  /\ UNCHANGED <<consentView, streamVars, due, todo, waitFor, told>>

OpenRefreshed ==
  /\ at[Receiver] = "reading"
  /\ \E on \in BOOLEAN : Commit(Receiver, on)
  /\ UNCHANGED <<timer, due, handling>>

MessageDone ==
  /\ at' = [at EXCEPT ![Receiver] = "idle"]
  /\ handling' = NoStream

Refuse ==
  /\ state' = [state EXCEPT ![handling] = "refused"]
  /\ MessageDone

\* mutant: one stream too many
MayOpenPlusOne(s) == IsActive /\ s \notin due /\ Cardinality(table) <= StreamLimit

MayOpen(s) == IsActive /\ s \notin due /\ Cardinality(table) < StreamLimit

CheckOpen ==
  /\ at[Receiver] = "check"
  /\ IF MayOpen(handling)
     THEN at' = [at EXCEPT ![Receiver] = "connect"] /\ UNCHANGED <<handling, state>>
     ELSE Refuse
  /\ UNCHANGED <<consentView, table, timer, due, todo, waitFor, told>>

ConnectFails ==
  /\ at[Receiver] = "connect"
  /\ Refuse
  /\ UNCHANGED <<consentView, table, timer, due, todo, waitFor, told>>

\* mutant: nothing is checked once connected
StillMayOpenAlways(s) == s \in Streams

\* the consent and the deadline again, after the connection was made
StillMayOpen(s) == IsActive /\ s \notin due

\* mutant: the stream is not watched
WatchNot(s) == UNCHANGED timer

\* create the _expire task
Watch(s) == timer' = timer \cup {s}

Connected ==
  /\ at[Receiver] = "connect"
  /\ IF StillMayOpen(handling)
     THEN /\ state' = [state EXCEPT ![handling] = "open"]
          /\ table' = table \cup {handling}
          /\ Watch(handling)
          /\ MessageDone
     ELSE Refuse /\ UNCHANGED <<table, timer>>
  /\ UNCHANGED <<consentView, due, todo, waitFor, told>>

\* tunnel_close: the loop cancels the stream if the table has it, and waits
ReceiveClose(s) ==
  /\ at[Receiver] = "idle"
  /\ s \in table
  /\ PumpRuns(s)
  /\ CancelStarts(s)
  /\ at' = [at EXCEPT ![Receiver] = "cancel"]
  /\ handling' = s
  /\ UNCHANGED <<consentView, table, timer, due, todo, waitFor, told>>

\* a tunnel_data that cannot be decoded or written: the loop itself closes the
\* stream; one that is closing already takes no data
ReceiveBadData(s) ==
  /\ at[Receiver] = "idle"
  /\ s \in table
  /\ IsOpen(s)
  /\ state' = [state EXCEPT ![s] = "expiring"]
  /\ at' = [at EXCEPT ![Receiver] = "cancel"]
  /\ handling' = s
  /\ UNCHANGED <<consentView, table, timer, due, todo, waitFor, told>>

CloseReturns ==
  /\ at[Receiver] = "cancel"
  /\ state[handling] = "closed"
  /\ MessageDone
  /\ UNCHANGED <<consentView, streamVars, due, todo, waitFor, told>>

---------------------------------------------------------------------------
TunnelNext ==
  \/ \E s \in Streams :
       \/ PumpEnds(s) \/ TimerFires(s) \/ TimerEnds(s) \/ Closed(s) \/ StreamDue(s)
       \/ ReceiveOpen(s) \/ ReceiveClose(s) \/ ReceiveBadData(s)
  \/ \E t \in Tasks : CancelReturns(t)
  \/ \E p \in Pollers : Poll(p)
  \/ WindowEnds \/ SessionEnds \/ SessionStarts
  \/ OpenRefreshed \/ CheckOpen \/ ConnectFails \/ Connected \/ CloseReturns

TunnelSpec == TunnelInit /\ [][TunnelNext]_tunnelVars

\* A task that is not waiting runs, a socket is closed within five seconds, a
\* timer looks at least once per second.  Nothing makes the target close, the
\* server send, or a refresh find what it finds.
TunnelFairSpec ==
  /\ TunnelSpec
  /\ \A s \in Streams : WF_tunnelVars(TimerFires(s)) /\ WF_tunnelVars(Closed(s))
  /\ \A t \in Tasks : WF_tunnelVars(CancelReturns(t))

---------------------------------------------------------------------------
(* Safety.                                                                 *)

\* A stream opens only while the consent is active and its own deadline ahead,
\* whatever happened while the connection was made (tunnel.py _open).
OpensWithConsent ==
  [][\A s \in Streams : ~IsOpen(s) /\ IsOpen(s)' => IsActive /\ s \notin due]_tunnelVars

\* The table never holds more streams than the limit, although it is tested
\* before the connection and filled after it (tunnel.py _open).
WithinLimit == Cardinality(table) <= StreamLimit

\* The table keeps no stream whose socket is closed or was never made, and one
\* that is open has a timer that watches it (tunnel.py _open, _forget, close_all).
TableIsWatched ==
  \A s \in table :
    /\ state[s] \in {"open", "closing", "expiring"}
    /\ IsOpen(s) => s \in timer

\* What the receive loop, the timers and every close_all() make of the one table.
TableIsSound == WithinLimit /\ TableIsWatched

\* a stream that was put into the table, as a module of its own has it
Living == States \ {"new", "refused"}

Life(s) == INSTANCE StreamLife WITH sock <- state[s], known <- s \in table

\* The receive loop, the pumps, the timers and every close_all() do to a stream only
\* what TunnelStream says a stream undergoes: it enters the table open and once, and
\* leaves it when its close ends or the table is cleared (tunnel.py _open, _forget).
StreamsLiveOnce ==
  [][\A s \in Streams :
       IF state[s] \in Living
       THEN Life(s)!LifeNext \/ UNCHANGED <<state[s], s \in table>>
       ELSE state'[s] \in Living => Life(s)!LifeInit']_tunnelVars

\* Once every close_all() has returned, the server does not believe in a consent
\* that has ended, although a message may be overtaken: the one that enables is
\* sent at once, the one that disables after the streams were closed (agent.py
\* _on_consent_change, _serve).
NoStaleOn ==
  told = "on" /\ (\A t \in Tasks : at[t] # "closeAll") => enabled

(* Liveness.                                                               *)

\* An open stream the table knows is closed once its deadline passes, and when the
\* consent ends unless the consent comes back first (tunnel.py _expire).
TimerCloses ==
  \A s \in Streams :
    /\ (IsOpen(s) /\ s \in due) ~> (~IsOpen(s) \/ s \notin table)
    /\ (IsOpen(s) /\ ~IsActive) ~> (~IsOpen(s) \/ IsActive \/ s \notin table)

\* close_all() comes to its end, whatever streams end meanwhile by themselves.
CloseAllTerminates ==
  \A t \in Tasks : (at[t] = "closeAll") ~> (at[t] # "closeAll")

---------------------------------------------------------------------------
(* What the documentation says and the code does not keep.                 *)

\* "close streams when consent expires or is withdrawn" (CHANGELOG.md 0.2.0).
WithdrawalClosesAll ==
  \A s \in Streams : (IsOpen(s) /\ ~IsActive) ~> (~IsOpen(s) \/ IsActive)

=============================================================================

---------------------------- MODULE TunnelProofs ----------------------------
(***************************************************************************)
(* Theorems about Tunnel, for every finite set of streams, every set of    *)
(* refreshing tasks and every limit.                                       *)
(***************************************************************************)
EXTENDS Tunnel, FiniteSetTheorems, TLAPS

---------------------------------------------------------------------------
(* Type correctness.                                                       *)

\* Lemma: the steps of close_all keep the types of what they change.
LEMMA CloseRestType ==
  ASSUME TunnelTypeOK, NEW t \in Tasks, NEW rest \in SUBSET Streams, CloseRest(t, rest)
  PROVE  /\ table' \subseteq table
         /\ state' \in [Streams -> States]
         /\ todo' \in [Tasks -> SUBSET Streams]
         /\ waitFor' \in [Tasks -> Streams \cup {NoStream}]
         /\ told' \in {"nothing", "on", "off"}
         /\ \/ at' = [at EXCEPT ![t] = AfterRefresh(t)]
            \/ at' = [at EXCEPT ![t] = "closeAll"]
         /\ \A s \in Streams :
              state'[s] = state[s] \/ (state[s] # "new" /\ state'[s] = "closing")
<1>1. CASE /\ table' = {}
           /\ Tell("off")
           /\ at' = [at EXCEPT ![t] = AfterRefresh(t)]
           /\ todo' = [todo EXCEPT ![t] = {}]
           /\ waitFor' = [waitFor EXCEPT ![t] = NoStream]
           /\ UNCHANGED state
  BY <1>1 DEF TunnelTypeOK, Tell
<1>2. ASSUME NEW s \in rest,
             CancelStarts(s),
             at' = [at EXCEPT ![t] = "closeAll"],
             todo' = [todo EXCEPT ![t] = rest \ {s}],
             waitFor' = [waitFor EXCEPT ![t] = s],
             UNCHANGED <<table, told>>
      PROVE  /\ table' \subseteq table
             /\ state' \in [Streams -> States]
             /\ todo' \in [Tasks -> SUBSET Streams]
             /\ waitFor' \in [Tasks -> Streams \cup {NoStream}]
             /\ told' \in {"nothing", "on", "off"}
             /\ at' = [at EXCEPT ![t] = "closeAll"]
             /\ \A q \in Streams :
                  state'[q] = state[q] \/ (state[q] # "new" /\ state'[q] = "closing")
  BY <1>2 DEF TunnelTypeOK, CancelStarts, IsOpen, States
<1> QED
  BY <1>1, <1>2 DEF CloseRest

\* Lemma: so do the steps that install a status.
LEMMA CommitType ==
  ASSUME TunnelTypeOK, NEW t \in Tasks, NEW on \in BOOLEAN, Commit(t, on)
  PROVE  /\ enabled' \in BOOLEAN /\ inWindow' \in BOOLEAN
         /\ table' \subseteq table
         /\ state' \in [Streams -> States]
         /\ todo' \in [Tasks -> SUBSET Streams]
         /\ waitFor' \in [Tasks -> Streams \cup {NoStream}]
         /\ told' \in {"nothing", "on", "off"}
         /\ \/ at' = [at EXCEPT ![t] = AfterRefresh(t)]
            \/ at' = [at EXCEPT ![t] = "closeAll"]
         /\ \A s \in Streams :
              state'[s] = state[s] \/ (state[s] # "new" /\ state'[s] = "closing")
<1>1. enabled' \in BOOLEAN /\ inWindow' \in BOOLEAN
  BY DEF Commit, Install
<1>2. CASE CloseRest(t, table)
  <2>1. table \in SUBSET Streams
    BY DEF TunnelTypeOK
  <2> QED
    BY <1>1, <1>2, <2>1, CloseRestType
<1>3. CASE ~CloseRest(t, table)
  <2>1. /\ at' = [at EXCEPT ![t] = AfterRefresh(t)]
        /\ UNCHANGED <<table, state, todo, waitFor>>
        /\ Tell("on") \/ UNCHANGED told
    BY <1>3 DEF Commit
  <2> QED
    BY <1>1, <2>1 DEF TunnelTypeOK, Tell
<1> QED
  BY <1>2, <1>3

Places == {"idle", "reading", "closeAll", "check", "connect", "cancel"}

PlacesOK ==
  /\ at \in [Tasks -> Places]
  /\ \A p \in Pollers : at[p] \in {"idle", "closeAll"}

\* Lemma: where a task is after a refresh, or in close_all; the receive loop was
\* busy before.
LEMMA AfterRefreshType ==
  ASSUME TunnelTypeOK, NEW t \in Tasks, t = Receiver => at[t] # "idle",
         \/ at' = [at EXCEPT ![t] = AfterRefresh(t)]
         \/ at' = [at EXCEPT ![t] = "closeAll"]
  PROVE  PlacesOK' /\ (at'[Receiver] # "idle" => handling \in Streams)
BY TunnelAssumption DEF TunnelTypeOK, TunnelAssumption, PlacesOK, Places, AfterRefresh, Tasks

\* Lemma: a step of the receive loop leaves the pollers where they are.
LEMMA ReceiverPlace ==
  ASSUME TunnelTypeOK, NEW w \in Places, at' = [at EXCEPT ![Receiver] = w]
  PROVE  PlacesOK' /\ at'[Receiver] = w
BY TunnelAssumption DEF TunnelTypeOK, TunnelAssumption, PlacesOK, Places, Tasks

LEMMA TypeStep == TunnelTypeOK /\ [TunnelNext]_tunnelVars => TunnelTypeOK'
<1> SUFFICES ASSUME TunnelTypeOK, [TunnelNext]_tunnelVars PROVE TunnelTypeOK'
  OBVIOUS
<1> USE DEF Places
<1>1. CASE UNCHANGED tunnelVars
  BY <1>1 DEF TunnelTypeOK, tunnelVars, consentView, streamVars, taskVars
<1>2. ASSUME NEW s \in Streams,
             PumpEnds(s) \/ TimerFires(s) \/ TimerEnds(s) \/ Closed(s) \/ StreamDue(s)
      PROVE  TunnelTypeOK'
  BY <1>2 DEF PumpEnds, TimerFires, TimerEnds, Closed, StreamDue, TunnelTypeOK, States,
     consentView, streamVars, taskVars
<1>3. ASSUME NEW s \in Streams, ReceiveOpen(s) PROVE TunnelTypeOK'
  BY <1>3, ReceiverPlace DEF ReceiveOpen, TunnelTypeOK, PlacesOK, consentView, streamVars
<1>4. ASSUME NEW s \in Streams, ReceiveClose(s) \/ ReceiveBadData(s) PROVE TunnelTypeOK'
  <2>1. state' \in [Streams -> States]
    BY <1>4 DEF ReceiveClose, ReceiveBadData, CancelStarts, TunnelTypeOK, States
  <2> QED
    BY <1>4, <2>1, ReceiverPlace
    DEF ReceiveClose, ReceiveBadData, TunnelTypeOK, PlacesOK, consentView
<1>5. ASSUME NEW t \in Tasks, CancelReturns(t) PROVE TunnelTypeOK'
  <2>1. CloseRest(t, todo[t]) /\ at[t] # "idle"
    BY <1>5 DEF CancelReturns
  <2>2. todo[t] \in SUBSET Streams
    BY DEF TunnelTypeOK
  <2>3. PlacesOK' /\ (at'[Receiver] # "idle" => handling \in Streams)
    BY <2>1, <2>2, CloseRestType, AfterRefreshType
  <2>4. /\ table' \subseteq table
        /\ state' \in [Streams -> States]
        /\ todo' \in [Tasks -> SUBSET Streams]
        /\ waitFor' \in [Tasks -> Streams \cup {NoStream}]
        /\ told' \in {"nothing", "on", "off"}
    BY <2>1, <2>2, CloseRestType
  <2> QED
    BY <1>5, <2>3, <2>4 DEF CancelReturns, TunnelTypeOK, PlacesOK, consentView
<1>6. ASSUME NEW t \in Tasks, NEW on \in BOOLEAN, Commit(t, on),
             t = Receiver => at[t] # "idle", UNCHANGED <<timer, due, handling>>
      PROVE  TunnelTypeOK'
  <2>1. /\ enabled' \in BOOLEAN /\ inWindow' \in BOOLEAN
        /\ table' \subseteq table
        /\ state' \in [Streams -> States]
        /\ todo' \in [Tasks -> SUBSET Streams]
        /\ waitFor' \in [Tasks -> Streams \cup {NoStream}]
        /\ told' \in {"nothing", "on", "off"}
        /\ \/ at' = [at EXCEPT ![t] = AfterRefresh(t)]
           \/ at' = [at EXCEPT ![t] = "closeAll"]
    BY <1>6, CommitType
  <2>2. PlacesOK' /\ (at'[Receiver] # "idle" => handling \in Streams)
    BY <1>6, <2>1, AfterRefreshType
  <2> QED
    BY <1>6, <2>1, <2>2 DEF TunnelTypeOK, PlacesOK
<1>7. CASE \/ \E p \in Pollers : Poll(p)
           \/ OpenRefreshed
  BY <1>6, <1>7, TunnelAssumption DEF Poll, OpenRefreshed, Tasks, TunnelAssumption
<1>8. CASE WindowEnds \/ SessionEnds \/ SessionStarts
  BY <1>8 DEF WindowEnds, WindowCloses, SessionEnds, SessionStarts, TunnelTypeOK,
     consentView, streamVars, taskVars
<1>9. ASSUME Refuse PROVE state' \in [Streams -> States] /\ handling' \in Streams \cup {NoStream}
  BY <1>9 DEF Refuse, MessageDone, TunnelTypeOK, States
<1>10. CASE CheckOpen
  BY <1>10, <1>9, ReceiverPlace
  DEF CheckOpen, Refuse, MessageDone, TunnelTypeOK, PlacesOK, consentView
<1>11. CASE ConnectFails
  BY <1>11, <1>9, ReceiverPlace
  DEF ConnectFails, Refuse, MessageDone, TunnelTypeOK, PlacesOK, consentView
<1>12. CASE Connected
  <2>1. PlacesOK' /\ at'[Receiver] = "idle"
    BY <1>12, ReceiverPlace DEF Connected, Refuse, MessageDone
  <2>2. handling \in Streams
    BY <1>12 DEF Connected, TunnelTypeOK
  <2>3. /\ state' \in [Streams -> States]
        /\ table' \subseteq Streams
        /\ timer' \subseteq Streams
        /\ handling' \in Streams \cup {NoStream}
    <3>1. CASE StillMayOpen(handling)
      BY <1>12, <2>2, <3>1 DEF Connected, Watch, MessageDone, TunnelTypeOK, States
    <3>2. CASE ~StillMayOpen(handling)
      BY <1>12, <1>9, <3>2 DEF Connected, Refuse, TunnelTypeOK
    <3> QED
      BY <3>1, <3>2
  <2> QED
    BY <1>12, <2>1, <2>3 DEF Connected, TunnelTypeOK, PlacesOK, consentView
<1>13. CASE CloseReturns
  BY <1>13, ReceiverPlace
  DEF CloseReturns, MessageDone, TunnelTypeOK, PlacesOK, consentView, streamVars
<1> QED
  BY <1>1, <1>2, <1>3, <1>4, <1>5, <1>6, <1>7, <1>8, <1>10, <1>11, <1>12, <1>13
  DEF TunnelNext

\* The variables keep their types (tunnel.py).
THEOREM TunnelTypeCorrect == TunnelSpec => []TunnelTypeOK
<1>1. TunnelInit => TunnelTypeOK
  BY DEF TunnelInit, ViewInit, TunnelTypeOK, States, Tasks
<1>2. TunnelTypeOK /\ [TunnelNext]_tunnelVars => TunnelTypeOK'
  BY TypeStep
<1> QED
  BY <1>1, <1>2, PTL DEF TunnelSpec

---------------------------------------------------------------------------
(* What a step does to the streams.                                        *)

\* Where the receive loop has a stream to open in hand.
InHand == at[Receiver] \in {"reading", "closeAll", "check", "connect"}

\* No stream opens or enters the table; one that stays there keeps its timer and
\* has its socket left alone or closing.
Quiet ==
  /\ table' \subseteq table
  /\ \A s \in Streams :
       \/ state'[s] = state[s]
       \/ state[s] # "new" /\ state'[s] \in {"closing", "expiring"}
       \/ state[s] # "new" /\ state'[s] = "closed" /\ s \notin table'
       \/ InHand /\ s = handling /\ state'[s] = "refused" /\ ~InHand'
  /\ \A s \in table' : s \in timer => s \in timer'
  /\ InHand' => (InHand /\ handling' = handling) \/ (state' = state /\ state[handling'] = "new")

\* The receive loop begins to connect only where the limit was tested.
RoomStep ==
  at'[Receiver] = "connect" =>
    at[Receiver] = "connect" \/ (table' = table /\ Cardinality(table) < StreamLimit)

Opens == Connected /\ StillMayOpen(handling)

\* Lemma: a step of close_all, or of a status installed, is quiet.
LEMMA RefreshQuiet ==
  ASSUME TunnelTypeOK, NEW t \in Tasks, UNCHANGED timer,
         table' \subseteq table,
         UNCHANGED handling, t = Receiver => InHand,
         \A s \in Streams :
           state'[s] = state[s] \/ (state[s] # "new" /\ state'[s] = "closing"),
         \/ at' = [at EXCEPT ![t] = AfterRefresh(t)]
         \/ at' = [at EXCEPT ![t] = "closeAll"]
  PROVE  Quiet /\ RoomStep
<1>1. InHand' => InHand
  BY DEF InHand, TunnelTypeOK, Tasks
<1>3. Quiet
  BY <1>1 DEF Quiet
<1>2. RoomStep
  BY DEF RoomStep, TunnelTypeOK, AfterRefresh, Tasks
<1> QED
  BY <1>2, <1>3

\* Lemma: a step is quiet unless it puts a connected stream into the table.
LEMMA StepShape ==
  TunnelTypeOK /\ [TunnelNext]_tunnelVars => (Quiet /\ RoomStep) \/ Opens
<1> SUFFICES ASSUME TunnelTypeOK, [TunnelNext]_tunnelVars
             PROVE  (Quiet /\ RoomStep) \/ Opens
  OBVIOUS
<1>1. CASE UNCHANGED tunnelVars
  BY <1>1 DEF Quiet, RoomStep, InHand, tunnelVars, streamVars, taskVars
<1>2. ASSUME NEW s \in Streams,
             PumpEnds(s) \/ TimerFires(s) \/ TimerEnds(s) \/ Closed(s) \/ StreamDue(s)
      PROVE  Quiet /\ RoomStep
  BY <1>2 DEF PumpEnds, TimerFires, TimerEnds, Closed, StreamDue, TunnelTypeOK, States,
     IsOpen, Quiet, RoomStep, InHand, streamVars, taskVars
<1>3. ASSUME NEW s \in Streams, ReceiveOpen(s) PROVE Quiet /\ RoomStep
  BY <1>3 DEF ReceiveOpen, TunnelTypeOK, Quiet, RoomStep, InHand, streamVars, Tasks
<1>4. ASSUME NEW s \in Streams, ReceiveClose(s) \/ ReceiveBadData(s) PROVE Quiet /\ RoomStep
  BY <1>4 DEF ReceiveClose, ReceiveBadData, CancelStarts, IsOpen, TunnelTypeOK,
     Quiet, RoomStep, InHand, Tasks
<1>5. ASSUME NEW t \in Tasks, CancelReturns(t) PROVE Quiet /\ RoomStep
  <2>1. /\ CloseRest(t, todo[t])
        /\ UNCHANGED <<timer, handling>>
        /\ t = Receiver => InHand
    BY <1>5 DEF CancelReturns, InHand
  <2>2. todo[t] \in SUBSET Streams
    BY DEF TunnelTypeOK
  <2> QED
    BY <2>1, <2>2, CloseRestType, RefreshQuiet
<1>6. ASSUME NEW t \in Tasks, NEW on \in BOOLEAN, Commit(t, on),
             UNCHANGED <<timer, handling>>, t = Receiver => InHand
      PROVE  Quiet /\ RoomStep
  BY <1>6, CommitType, RefreshQuiet
<1>7. CASE \/ \E p \in Pollers : Poll(p)
           \/ OpenRefreshed
  BY <1>6, <1>7, TunnelAssumption DEF Poll, OpenRefreshed, InHand, Tasks, TunnelAssumption
<1>8. CASE WindowEnds \/ SessionEnds \/ SessionStarts
  BY <1>8 DEF WindowEnds, SessionEnds, SessionStarts, Quiet, RoomStep, InHand,
     streamVars, taskVars
<1>9. ASSUME Refuse, InHand, UNCHANGED <<table, timer>> PROVE Quiet /\ RoomStep
  BY <1>9 DEF Refuse, MessageDone, TunnelTypeOK, States, Quiet, RoomStep, InHand, Tasks
<1>10. CASE CheckOpen
  <2>1. CASE MayOpen(handling)
    BY <1>10, <2>1 DEF CheckOpen, MayOpen, Quiet, RoomStep, InHand
  <2> QED
    BY <1>9, <1>10, <2>1 DEF CheckOpen, InHand
<1>11. CASE ConnectFails
  BY <1>9, <1>11 DEF ConnectFails, InHand
<1>12. CASE Connected
  BY <1>9, <1>12 DEF Connected, Opens, InHand
<1>13. CASE CloseReturns
  BY <1>13 DEF CloseReturns, MessageDone, TunnelTypeOK, Quiet, RoomStep, InHand, streamVars, Tasks
<1> QED
  BY <1>1, <1>2, <1>3, <1>4, <1>5, <1>7, <1>8, <1>10, <1>11, <1>12, <1>13 DEF TunnelNext

\* A stream opens only while the consent is active and its own deadline ahead
\* (tunnel.py _open).
THEOREM OpensOnlyWithConsent == TunnelSpec => OpensWithConsent
<1>1. TunnelTypeOK /\ [TunnelNext]_tunnelVars =>
        [\A s \in Streams : ~IsOpen(s) /\ IsOpen(s)' => IsActive /\ s \notin due]_tunnelVars
  <2> SUFFICES ASSUME TunnelTypeOK, [TunnelNext]_tunnelVars,
                      NEW s \in Streams, state[s] # "open", state'[s] = "open"
               PROVE  IsActive /\ s \notin due
    BY DEF IsOpen
  <2>1. Opens
    BY StepShape DEF Quiet
  <2>2. s = handling
    BY <2>1 DEF Opens, Connected, TunnelTypeOK
  <2> QED
    BY <2>1, <2>2 DEF Opens, StillMayOpen
<1> QED
  BY <1>1, TunnelTypeCorrect, PTL DEF TunnelSpec, OpensWithConsent

\* What the table needs: the stream that the receive loop has in hand to open was
\* never connected, so a refusal touches no stream of the table.
TableInv ==
  /\ TableIsWatched
  /\ InHand => state[handling] = "new"

LEMMA TableInvariant == TunnelSpec => []TableInv
<1>1. TunnelInit => TableInv
  BY DEF TunnelInit, TableInv, TableIsWatched, InHand, Tasks
<1>2. TunnelTypeOK /\ TableInv /\ [TunnelNext]_tunnelVars => TableInv'
  <2> SUFFICES ASSUME TunnelTypeOK, TableInv, [TunnelNext]_tunnelVars PROVE TableInv'
    OBVIOUS
  <2>1. InHand => handling \in Streams
    BY DEF InHand, TunnelTypeOK
  <2>2. CASE Quiet
    <3>1. TableIsWatched'
      BY <2>1, <2>2 DEF Quiet, TableInv, TableIsWatched, IsOpen, TunnelTypeOK
    <3>2. InHand' => (state[handling] = "new")'
      BY <2>1, <2>2 DEF Quiet, TableInv
    <3> QED
      BY <3>1, <3>2 DEF TableInv
  <2>3. CASE Opens
    <3>1. TableIsWatched'
      BY <2>3 DEF Opens, Connected, Watch, TableInv, TableIsWatched, IsOpen, TunnelTypeOK
    <3>2. ~InHand'
      BY <2>3 DEF Opens, Connected, MessageDone, InHand, TunnelTypeOK, Tasks
    <3> QED
      BY <3>1, <3>2 DEF TableInv
  <2> QED
    BY <2>2, <2>3, StepShape
<1> QED
  BY <1>1, <1>2, TunnelTypeCorrect, PTL DEF TunnelSpec

\* The table holds only streams with a socket, and watches the open ones
\* (tunnel.py _open, _forget, close_all).
THEOREM TableWatched == TunnelSpec => []TableIsWatched
<1>1. TableInv => TableIsWatched
  BY DEF TableInv
<1> QED
  BY <1>1, TableInvariant, PTL

---------------------------------------------------------------------------
(* The limit.                                                              *)

\* What the limit needs: while the receive loop connects there is room for the
\* stream, because only the receive loop fills the table.
LimitInv ==
  /\ WithinLimit
  /\ at[Receiver] = "connect" => Cardinality(table) < StreamLimit

\* Lemma: a table that shrinks has no more streams.
LEMMA TableShrinks ==
  ASSUME TunnelTypeOK, NEW T \in SUBSET table
  PROVE  /\ Cardinality(table) \in Nat
         /\ Cardinality(T) \in Nat
         /\ Cardinality(T) <= Cardinality(table)
<1>1. IsFiniteSet(table)
  BY TunnelAssumption, FS_Subset DEF TunnelAssumption, TunnelTypeOK
<1> QED
  BY <1>1, FS_Subset, FS_CardinalityType

\* The table never holds more streams than the limit (tunnel.py _open).
THEOREM LimitHolds == TunnelSpec => []WithinLimit
<1>1. TunnelInit => LimitInv
  BY FS_EmptySet, TunnelAssumption DEF TunnelInit, LimitInv, WithinLimit, TunnelAssumption, Tasks
<1>2. TunnelTypeOK /\ LimitInv /\ [TunnelNext]_tunnelVars => LimitInv'
  <2> SUFFICES ASSUME TunnelTypeOK, LimitInv, [TunnelNext]_tunnelVars PROVE LimitInv'
    OBVIOUS
  <2> StreamLimit \in Nat
    BY TunnelAssumption DEF TunnelAssumption
  <2>1. CASE Quiet /\ RoomStep
    <3> DEFINE T == table'
    <3>1. T \subseteq table
      BY <2>1 DEF Quiet
    <3>2. /\ Cardinality(table) \in Nat
          /\ Cardinality(T) \in Nat
          /\ Cardinality(T) <= Cardinality(table)
      BY <3>1, TableShrinks
    <3>3. Cardinality(T) <= StreamLimit
      BY <3>2 DEF LimitInv, WithinLimit
    <3>4. ASSUME at'[Receiver] = "connect" PROVE Cardinality(T) < StreamLimit
      <4>1. Cardinality(table) < StreamLimit
        BY <2>1, <3>4 DEF RoomStep, LimitInv
      <4> QED
        BY <3>2, <4>1
    <3> QED
      BY <3>3, <3>4 DEF LimitInv, WithinLimit
  <2>2. CASE Opens
    <3>1. /\ table' = table \cup {handling}
          /\ at[Receiver] = "connect"
          /\ at'[Receiver] = "idle"
      BY <2>2 DEF Opens, Connected, MessageDone, TunnelTypeOK, Tasks
    <3>2. IsFiniteSet(table) /\ Cardinality(table) \in Nat /\ Cardinality(table) < StreamLimit
      BY <3>1, TunnelAssumption, FS_Subset, FS_CardinalityType
      DEF TunnelAssumption, TunnelTypeOK, LimitInv
    <3>3. Cardinality(table \cup {handling}) <= StreamLimit
      BY <3>2, FS_AddElement
    <3> QED
      BY <3>1, <3>3 DEF LimitInv, WithinLimit
  <2> QED
    BY <2>1, <2>2, StepShape
<1>3. LimitInv => WithinLimit
  BY DEF LimitInv
<1> QED
  BY <1>1, <1>2, <1>3, TunnelTypeCorrect, PTL DEF TunnelSpec

\* The table is sound, for every limit, every finite set of streams and any number
\* of tasks that close all streams at once (tunnel.py _open, _forget, close_all).
THEOREM TableStaysSound == TunnelSpec => []TableIsSound
<1>1. WithinLimit /\ TableIsWatched => TableIsSound
  BY DEF TableIsSound
<1> QED
  BY <1>1, LimitHolds, TableWatched, PTL

---------------------------------------------------------------------------
(* What the server is told.                                                *)

Closing(t) == at[t] = "closeAll"

\* A step that installs no status and goes on with no close_all() leaves the server
\* and the consent as they are, and only a closed stream leaves the table.
LEMMA NewsUntouched ==
  ASSUME TunnelTypeOK, [TunnelNext]_tunnelVars,
         ~\E t \in Tasks, on \in BOOLEAN : Commit(t, on) /\ ~Closing(t),
         ~\E t \in Tasks : CancelReturns(t),
         ~SessionEnds, ~SessionStarts
  PROVE  /\ UNCHANGED <<enabled, told, todo>>
         /\ \A t \in Tasks : Closing(t)' <=> Closing(t)
         /\ \A s \in table : s \in table' \/ state'[s] = "closed"
<1>1. CASE UNCHANGED tunnelVars
  BY <1>1 DEF tunnelVars, consentView, streamVars, taskVars, Closing
<1>2. ASSUME NEW s \in Streams,
             PumpEnds(s) \/ TimerFires(s) \/ TimerEnds(s) \/ Closed(s) \/ StreamDue(s)
      PROVE  /\ UNCHANGED <<enabled, told, todo, at>>
             /\ \A q \in table : q \in table' \/ state'[q] = "closed"
  BY <1>2 DEF PumpEnds, TimerFires, TimerEnds, Closed, StreamDue, TunnelTypeOK,
     consentView, streamVars, taskVars
<1>3. ASSUME NEW s \in Streams, ReceiveOpen(s) \/ ReceiveClose(s) \/ ReceiveBadData(s)
      PROVE  /\ UNCHANGED <<enabled, told, todo, table>>
             /\ \A t \in Tasks : Closing(t)' <=> Closing(t)
  BY <1>3 DEF ReceiveOpen, ReceiveClose, ReceiveBadData, consentView, streamVars,
     TunnelTypeOK, Closing, Tasks
<1>4. ~(\E p \in Pollers : Poll(p)) /\ ~OpenRefreshed
  BY DEF Poll, OpenRefreshed, Closing, Tasks
<1>5. CASE WindowEnds
  BY <1>5 DEF WindowEnds, WindowCloses, streamVars, taskVars, Closing
<1>6. CASE CheckOpen \/ ConnectFails \/ Connected \/ CloseReturns
  BY <1>6 DEF CheckOpen, ConnectFails, Connected, CloseReturns, Refuse, MessageDone,
     consentView, streamVars, TunnelTypeOK, Closing, Tasks
<1> QED
  BY <1>1, <1>2, <1>3, <1>4, <1>5, <1>6 DEF TunnelNext, Closing

\* What is left of close_all() goes on, or the server is told.
LEMMA CloseRestTells ==
  ASSUME TunnelTypeOK, NEW t \in Tasks, NEW rest \in SUBSET Streams, CloseRest(t, rest)
  PROVE  /\ \A q \in Tasks : q # t => at'[q] = at[q] /\ todo'[q] = todo[q]
         /\ \/ told' # "on" /\ \A s \in rest : ~IsOpen(s)
            \/ told' = told /\ Closing(t)'
<1>1. CASE /\ \A s \in rest : ~PumpRuns(s)
           /\ Tell("off")
           /\ at' = [at EXCEPT ![t] = AfterRefresh(t)]
           /\ todo' = [todo EXCEPT ![t] = {}]
  BY <1>1 DEF TunnelTypeOK, Tell, PumpRuns, IsOpen
<1>2. ASSUME NEW s \in rest,
             at' = [at EXCEPT ![t] = "closeAll"],
             todo' = [todo EXCEPT ![t] = rest \ {s}],
             UNCHANGED told
      PROVE  /\ \A q \in Tasks : q # t => at'[q] = at[q] /\ todo'[q] = todo[q]
             /\ told' = told /\ Closing(t)'
  BY <1>2 DEF TunnelTypeOK, Closing
<1> QED
  BY <1>1, <1>2 DEF CloseRest

\* When no close_all() is under way, a server that was told of a consent was told
\* the truth, however the messages of several refreshes overtook each other
\* (agent.py _on_consent_change, _send, _serve).
THEOREM ServerNotMisled == TunnelSpec => []NoStaleOn
<1>1. TunnelInit => NoStaleOn
  BY DEF TunnelInit, NoStaleOn
<1>2. TunnelTypeOK /\ NoStaleOn /\ [TunnelNext]_tunnelVars => NoStaleOn'
  <2> SUFFICES ASSUME TunnelTypeOK, NoStaleOn, [TunnelNext]_tunnelVars, told' = "on", ~enabled'
               PROVE  \E t \in Tasks : Closing(t)'
    BY DEF NoStaleOn, Closing
  <2>1. ASSUME NEW t \in Tasks, NEW on \in BOOLEAN, Commit(t, on), ~Closing(t)
        PROVE  \E q \in Tasks : Closing(q)'
    <3>1. ~on
      BY <2>1 DEF Commit, Install
    <3>2. CASE CloseRest(t, table)
      BY <3>2, CloseRestTells DEF TunnelTypeOK
    <3>3. CASE ~CloseRest(t, table)
      \* nothing changed: another task is still closing
      <4>1. ~enabled /\ told = "on" /\ at' = [at EXCEPT ![t] = AfterRefresh(t)]
        BY <2>1, <3>1, <3>3 DEF Commit
      <4>2. PICK q \in Tasks : Closing(q)
        BY <4>1 DEF NoStaleOn, Closing
      <4> QED
        BY <2>1, <4>1, <4>2 DEF Closing, TunnelTypeOK
    <3> QED
      BY <3>2, <3>3
  <2>2. ASSUME NEW t \in Tasks, CancelReturns(t) PROVE \E q \in Tasks : Closing(q)'
    <3>1. CloseRest(t, todo[t]) /\ todo[t] \in SUBSET Streams
      BY <2>2 DEF CancelReturns, TunnelTypeOK
    <3> QED
      BY <3>1, CloseRestTells
  <2>3. CASE SessionEnds \/ SessionStarts
    BY <2>3 DEF SessionEnds, SessionStarts, consentView
  <2>4. CASE /\ ~\E t \in Tasks, on \in BOOLEAN : Commit(t, on) /\ ~Closing(t)
             /\ ~\E t \in Tasks : CancelReturns(t)
             /\ ~SessionEnds /\ ~SessionStarts
    BY <2>4, NewsUntouched DEF NoStaleOn, Closing
  <2> QED
    BY <2>1, <2>2, <2>3, <2>4
<1> QED
  BY <1>1, <1>2, TunnelTypeCorrect, PTL DEF TunnelSpec

---------------------------------------------------------------------------
(* The streams that close_all() misses.                                    *)

\* no stream begins to be served while a task closes all streams
OpensBetween ==
  [][\A s \in Streams : ~IsOpen(s) /\ IsOpen(s)' => \A t \in Tasks : ~Closing(t)]_tunnelVars

\* the agent can still find every stream that is open, to close it
NoneLost == \A s \in Streams : IsOpen(s) => s \in table

\* A close_all() under way has yet to come to every stream that is open.
LostInv ==
  /\ NoneLost
  /\ \A t \in Tasks : Closing(t) => \A s \in Streams : IsOpen(s) => s \in todo[t]

\* What close_all() leaves to do covers what is open.
LEMMA CloseRestCovers ==
  ASSUME TunnelTypeOK, NEW t \in Tasks, NEW rest \in SUBSET Streams, CloseRest(t, rest),
         \A s \in Streams : IsOpen(s) => s \in rest /\ s \in table
  PROVE  /\ \A s \in Streams : IsOpen(s)' => IsOpen(s) /\ s \in table'
         /\ Closing(t)' => \A s \in Streams : IsOpen(s)' => s \in todo'[t]
<1>1. CASE /\ \A s \in rest : ~PumpRuns(s)
           /\ at' = [at EXCEPT ![t] = AfterRefresh(t)]
           /\ UNCHANGED state
  BY <1>1 DEF TunnelTypeOK, PumpRuns, IsOpen, Closing, AfterRefresh
<1>2. ASSUME NEW s \in rest, CancelStarts(s),
             todo' = [todo EXCEPT ![t] = rest \ {s}], UNCHANGED table
      PROVE  \A q \in Streams : IsOpen(q)' => IsOpen(q) /\ q \in table' /\ q \in todo'[t]
  BY <1>2 DEF TunnelTypeOK, CancelStarts, IsOpen
<1> QED
  BY <1>1, <1>2 DEF CloseRest

\* The only way the agent loses a stream is the one the documentation excludes: a
\* stream served while close_all() waits for another (tunnel.py close_all, _open).
THEOREM OnlyOneWayToLose == TunnelSpec /\ OpensBetween => []NoneLost
<1> DEFINE Between == \A s \in Streams : ~IsOpen(s) /\ IsOpen(s)' => \A t \in Tasks : ~Closing(t)
<1>1. TunnelInit => LostInv
  BY DEF TunnelInit, LostInv, NoneLost, IsOpen, Closing
<1>2. TunnelTypeOK /\ LostInv /\ [TunnelNext]_tunnelVars /\ [Between]_tunnelVars => LostInv'
  <2> SUFFICES ASSUME TunnelTypeOK, LostInv, [TunnelNext]_tunnelVars, [Between]_tunnelVars
               PROVE  LostInv'
    OBVIOUS
  <2>1. ASSUME NEW t \in Tasks, NEW rest \in SUBSET Streams, CloseRest(t, rest),
               \A s \in Streams : IsOpen(s) => s \in rest
        PROVE  LostInv'
    <3>1. /\ \A s \in Streams : IsOpen(s)' => IsOpen(s) /\ s \in table'
          /\ Closing(t)' => \A s \in Streams : IsOpen(s)' => s \in todo'[t]
      BY <2>1, CloseRestCovers DEF LostInv, NoneLost
    <3>2. \A q \in Tasks : q # t => at'[q] = at[q] /\ todo'[q] = todo[q]
      BY <2>1, CloseRestTells
    <3> QED
      BY <3>1, <3>2 DEF LostInv, NoneLost, Closing
  <2>2. ASSUME NEW t \in Tasks, NEW on \in BOOLEAN, Commit(t, on), ~Closing(t) PROVE LostInv'
    <3>1. CASE CloseRest(t, table)
      BY <2>1, <3>1 DEF LostInv, NoneLost, TunnelTypeOK
    <3>2. CASE ~CloseRest(t, table)
      <4>1. at' = [at EXCEPT ![t] = AfterRefresh(t)] /\ UNCHANGED <<table, state, todo>>
        BY <2>2, <3>2 DEF Commit
      <4>2. \A q \in Tasks : Closing(q)' => Closing(q)
        BY <4>1 DEF Closing, AfterRefresh, TunnelTypeOK
      <4> QED
        BY <4>1, <4>2 DEF LostInv, NoneLost, IsOpen
    <3> QED
      BY <3>1, <3>2
  <2>3. ASSUME NEW t \in Tasks, CancelReturns(t) PROVE LostInv'
    <3>1. CloseRest(t, todo[t]) /\ todo[t] \in SUBSET Streams /\ Closing(t)
      BY <2>3 DEF CancelReturns, TunnelTypeOK, Closing
    <3> QED
      BY <2>1, <3>1 DEF LostInv
  <2>4. CASE SessionEnds \/ SessionStarts
    BY <2>4 DEF SessionEnds, SessionStarts, streamVars, taskVars, LostInv, NoneLost, IsOpen, Closing
  <2>5. CASE /\ ~\E t \in Tasks, on \in BOOLEAN : Commit(t, on) /\ ~Closing(t)
             /\ ~\E t \in Tasks : CancelReturns(t)
             /\ ~SessionEnds /\ ~SessionStarts
    <3>1. /\ UNCHANGED todo
          /\ \A t \in Tasks : Closing(t)' <=> Closing(t)
          /\ \A s \in table : s \in table' \/ state'[s] = "closed"
      BY <2>5, NewsUntouched
    <3>2. CASE Opens
      \* nobody closes all streams, and the table gets the new one
      <4>1. table' = table \cup {handling} /\ state' = [state EXCEPT ![handling] = "open"]
            /\ handling \in Streams
        BY <3>2 DEF Opens, Connected, TunnelTypeOK
      <4>2. NoneLost'
        BY <4>1 DEF NoneLost, LostInv, IsOpen, TunnelTypeOK
      <4>3. /\ state'[handling] = "open"
            /\ \A s \in Streams : IsOpen(s)' => IsOpen(s) \/ s = handling
        BY <4>1 DEF IsOpen, TunnelTypeOK
      <4>4. ASSUME NEW t \in Tasks, Closing(t) PROVE IsOpen(handling)
        <5>1. CASE state' = state
          BY <4>1, <5>1 DEF IsOpen, TunnelTypeOK
        <5>2. CASE state' # state
          BY <4>1, <4>4, <5>2 DEF IsOpen, TunnelTypeOK, tunnelVars, streamVars
        <5> QED
          BY <5>1, <5>2
      <4>5. ASSUME NEW t \in Tasks, Closing(t)', NEW s \in Streams, IsOpen(s)'
            PROVE  s \in todo'[t]
        BY <3>1, <4>1, <4>3, <4>4, <4>5 DEF LostInv
      <4> QED
        BY <4>2, <4>5 DEF LostInv
    <3>3. CASE ~Opens
      <4>1. \A s \in Streams : IsOpen(s)' => IsOpen(s)
        BY <3>3, StepShape DEF Quiet, IsOpen
      <4>2. \A s \in Streams : IsOpen(s)' => s \in table'
        BY <3>1, <4>1 DEF LostInv, NoneLost, IsOpen
      <4>3. NoneLost'
        BY <4>2 DEF NoneLost
      <4>4. ASSUME NEW t \in Tasks, Closing(t)', NEW s \in Streams, IsOpen(s)'
            PROVE  s \in todo'[t]
        BY <3>1, <4>1, <4>4 DEF LostInv
      <4> QED
        BY <4>3, <4>4 DEF LostInv
    <3> QED
      BY <3>2, <3>3
  <2> QED
    BY <2>2, <2>3, <2>4, <2>5
<1>3. LostInv => NoneLost
  BY DEF LostInv
<1> QED
  BY <1>1, <1>2, <1>3, TunnelTypeCorrect, PTL DEF TunnelSpec, OpensBetween

---------------------------------------------------------------------------
(* The life of each stream.                                                *)

\* what a step may do to a stream that was opened
Lives(s) == Life(s)!LifeNext \/ (state'[s] = state[s] /\ (s \in table' <=> s \in table))

\* A step that leaves the sockets alone and adds nothing to the table.
LEMMA SocketsLeft ==
  ASSUME NEW s \in Streams, UNCHANGED state, table' = table \/ table' = {}
  PROVE  Lives(s)
<1>1. CASE s \in table /\ s \notin table'
  BY <1>1 DEF Lives, Life!LifeNext, Life!Dropped
<1>2. CASE s \in table' <=> s \in table
  BY <1>2 DEF Lives
<1> QED
  BY <1>1, <1>2

\* A step that closes one socket that was open.
LEMMA OneEnds ==
  ASSUME TunnelTypeOK, NEW q \in Streams, NEW s \in Streams, IsOpen(q),
         NEW how \in {"closing", "expiring"}, state' = [state EXCEPT ![q] = how], UNCHANGED table
  PROVE  Lives(s)
<1>1. CASE s = q
  BY <1>1 DEF TunnelTypeOK, IsOpen, Lives, Life!LifeNext, Life!Ends
<1>2. CASE s # q
  BY <1>2 DEF TunnelTypeOK, Lives
<1> QED
  BY <1>1, <1>2

LEMMA CloseRestLives ==
  ASSUME TunnelTypeOK, NEW t \in Tasks, NEW rest \in SUBSET Streams, CloseRest(t, rest),
         NEW s \in Streams
  PROVE  Lives(s)
<1>1. CASE table' = {} /\ UNCHANGED state
  BY <1>1, SocketsLeft
<1>2. ASSUME NEW q \in rest, CancelStarts(q), UNCHANGED table
      PROVE  Lives(s)
  <2>1. CASE IsOpen(q)
    BY <1>2, <2>1, OneEnds DEF CancelStarts
  <2>2. CASE ~IsOpen(q)
    BY <1>2, <2>2, SocketsLeft DEF CancelStarts
  <2> QED
    BY <2>1, <2>2
<1> QED
  BY <1>1, <1>2 DEF CloseRest

LEMMA LifeStep ==
  ASSUME TunnelTypeOK, TableInv, [TunnelNext]_tunnelVars, NEW s \in Streams
  PROVE  IF state[s] \in Living THEN Lives(s)
         ELSE state'[s] \in Living => state'[s] = "open" /\ s \in table'
<1>1. CASE UNCHANGED tunnelVars
  BY <1>1, SocketsLeft DEF tunnelVars, streamVars
<1>2. ASSUME NEW q \in Streams, PumpEnds(q) \/ TimerFires(q) \/ ReceiveBadData(q)
      PROVE  Lives(s) /\ (state[s] \notin Living => state'[s] = state[s])
  BY <1>2, OneEnds DEF PumpEnds, TimerFires, ReceiveBadData, IsOpen, Living, TunnelTypeOK
<1>3. ASSUME NEW q \in Streams, Closed(q)
      PROVE  Lives(s) /\ (state[s] \notin Living => state'[s] = state[s])
  <2>1. CASE s = q
    BY <1>3, <2>1 DEF Closed, TunnelTypeOK, Living, States, Lives, Life!LifeNext, Life!CloseEnds
  <2>2. CASE s # q
    BY <1>3, <2>2 DEF Closed, TunnelTypeOK, Lives
  <2> QED
    BY <2>1, <2>2
<1>4. ASSUME NEW q \in Streams, TimerEnds(q) \/ StreamDue(q) \/ ReceiveOpen(q)
      PROVE  Lives(s) /\ state' = state
  BY <1>4, SocketsLeft DEF TimerEnds, StreamDue, ReceiveOpen, streamVars
<1>5. ASSUME NEW q \in Streams, ReceiveClose(q)
      PROVE  Lives(s) /\ (state[s] \notin Living => state'[s] = state[s])
  <2>1. CASE IsOpen(q)
    BY <1>5, <2>1, OneEnds DEF ReceiveClose, CancelStarts, IsOpen, Living, TunnelTypeOK
  <2>2. CASE ~IsOpen(q)
    BY <1>5, <2>2, SocketsLeft DEF ReceiveClose, CancelStarts
  <2> QED
    BY <2>1, <2>2
<1>6. ASSUME NEW t \in Tasks, NEW rest \in SUBSET Streams, CloseRest(t, rest)
      PROVE  Lives(s) /\ (state[s] \notin Living => state'[s] = state[s])
  <2>1. state'[s] = state[s] \/ IsOpen(s)
    BY <1>6 DEF CloseRest, CancelStarts, TunnelTypeOK, IsOpen
  <2> QED
    BY <1>6, <2>1, CloseRestLives DEF Living, IsOpen, States
<1>7. CASE \E t \in Tasks : CancelReturns(t)
  <2>1. PICK t \in Tasks : CloseRest(t, todo[t]) /\ todo[t] \in SUBSET Streams
    BY <1>7 DEF CancelReturns, TunnelTypeOK
  <2> QED
    BY <1>6, <2>1
<1>8. ASSUME NEW t \in Tasks, NEW on \in BOOLEAN, Commit(t, on)
      PROVE  Lives(s) /\ (state[s] \notin Living => state'[s] = state[s])
  <2>1. CASE CloseRest(t, table)
    BY <1>6, <2>1 DEF TunnelTypeOK
  <2>2. CASE ~CloseRest(t, table)
    BY <1>8, <2>2, SocketsLeft DEF Commit
  <2> QED
    BY <2>1, <2>2
<1>9. CASE (\E p \in Pollers : Poll(p)) \/ OpenRefreshed
  BY <1>8, <1>9 DEF Poll, OpenRefreshed, Tasks
<1>10. CASE WindowEnds \/ SessionEnds \/ SessionStarts \/ CloseReturns
  BY <1>10, SocketsLeft DEF WindowEnds, SessionEnds, SessionStarts, CloseReturns, streamVars
<1>11. ASSUME Refuse, InHand, UNCHANGED table
       PROVE  IF state[s] \in Living THEN Lives(s) ELSE state'[s] \notin Living
  \* the stream in hand was never open
  <2>1. state[handling] = "new" /\ state' = [state EXCEPT ![handling] = "refused"]
    BY <1>11 DEF TableInv, Refuse
  <2>2. CASE state[s] \in Living
    BY <1>11, <2>1, <2>2 DEF Living, TunnelTypeOK, Lives
  <2>3. CASE state[s] \notin Living
    BY <2>1, <2>3 DEF Living, TunnelTypeOK
  <2> QED
    BY <2>2, <2>3
<1>12. CASE CheckOpen \/ ConnectFails
  <2>1. CASE Refuse
    BY <1>11, <1>12, <2>1 DEF CheckOpen, ConnectFails, InHand
  <2>2. CASE ~Refuse
    BY <1>12, <2>2, SocketsLeft DEF CheckOpen, ConnectFails
  <2> QED
    BY <2>1, <2>2
<1>13. CASE Connected
  <2>1. CASE StillMayOpen(handling)
    <3>1. /\ state' = [state EXCEPT ![handling] = "open"] /\ table' = table \cup {handling}
          /\ handling \in Streams /\ state[handling] = "new"
      BY <1>13, <2>1 DEF Connected, TableInv, InHand, TunnelTypeOK
    <3>2. CASE s = handling
      BY <3>1, <3>2 DEF Living, TunnelTypeOK
    <3>3. CASE s # handling
      BY <3>1, <3>3 DEF Lives, TunnelTypeOK
    <3> QED
      BY <3>2, <3>3
  <2>2. CASE ~StillMayOpen(handling)
    BY <1>11, <1>13, <2>2 DEF Connected, InHand
  <2> QED
    BY <2>1, <2>2
<1> QED
  BY <1>1, <1>2, <1>3, <1>4, <1>5, <1>7, <1>9, <1>10, <1>12, <1>13 DEF TunnelNext

\* Every stream of the table lives as TunnelStream says, however many tasks close all
\* streams at once: it enters the table open and leaves it once, no closed stream is
\* reopened, no close is begun twice (tunnel.py _open, close_all, _forget).
THEOREM TableKeepsLives == TunnelSpec => StreamsLiveOnce
<1> DEFINE Good ==
      \A s \in Streams :
        IF state[s] \in Living
        THEN Life(s)!LifeNext \/ UNCHANGED <<state[s], s \in table>>
        ELSE state'[s] \in Living => Life(s)!LifeInit'
<1>1. TunnelTypeOK /\ TableInv /\ [TunnelNext]_tunnelVars => [Good]_tunnelVars
  <2> SUFFICES ASSUME TunnelTypeOK, TableInv, [TunnelNext]_tunnelVars, NEW s \in Streams
               PROVE  IF state[s] \in Living
                      THEN Life(s)!LifeNext \/ UNCHANGED <<state[s], s \in table>>
                      ELSE state'[s] \in Living => Life(s)!LifeInit'
    OBVIOUS
  <2> QED
    BY LifeStep DEF Lives, Life!LifeInit
<1>2. TunnelSpec => [][Good]_tunnelVars
  BY <1>1, TunnelTypeCorrect, TableInvariant, PTL DEF TunnelSpec
<1> QED
  BY <1>2 DEF StreamsLiveOnce

---------------------------------------------------------------------------
(* The consent as the streams see it.                                      *)

\* The table and the streams add nothing to the consent: they leave it alone, and a
\* refresh in the receive loop or beside it installs what any refresh may, so that
\* whatever implements the view may stand in its place (agent.py _on_consent_change,
\* tunnel.py _open).
THEOREM TunnelSeesView == TunnelSpec => ViewSpec
<1>1. TunnelInit => ViewInit
  BY DEF TunnelInit
<1>2. [TunnelNext]_tunnelVars => [ViewNext]_consentView
  <2> SUFFICES ASSUME [TunnelNext]_tunnelVars PROVE [ViewNext]_consentView
    OBVIOUS
  <2>1. CASE UNCHANGED tunnelVars
    BY <2>1 DEF tunnelVars
  <2>2. ASSUME NEW s \in Streams,
               \/ PumpEnds(s) \/ TimerFires(s) \/ TimerEnds(s) \/ Closed(s) \/ StreamDue(s)
               \/ ReceiveOpen(s) \/ ReceiveClose(s) \/ ReceiveBadData(s)
        PROVE  UNCHANGED consentView
    BY <2>2 DEF PumpEnds, TimerFires, TimerEnds, Closed, StreamDue, ReceiveOpen,
       ReceiveClose, ReceiveBadData
  <2>3. ASSUME NEW t \in Tasks, CancelReturns(t) PROVE UNCHANGED consentView
    BY <2>3 DEF CancelReturns
  <2>4. CASE (\E p \in Pollers : Poll(p)) \/ OpenRefreshed
    BY <2>4 DEF Poll, OpenRefreshed, Commit, ViewNext
  <2>5. CASE WindowEnds
    BY <2>5 DEF WindowEnds, ViewNext
  <2>6. CASE \/ SessionEnds \/ SessionStarts
             \/ CheckOpen \/ ConnectFails \/ Connected \/ CloseReturns
    BY <2>6 DEF SessionEnds, SessionStarts, CheckOpen, ConnectFails, Connected, CloseReturns
  <2> QED
    BY <2>1, <2>2, <2>3, <2>4, <2>5, <2>6 DEF TunnelNext
<1> QED
  BY <1>1, <1>2, PTL DEF TunnelSpec, ViewSpec

=============================================================================

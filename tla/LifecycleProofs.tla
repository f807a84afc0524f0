-------------------------- MODULE LifecycleProofs --------------------------
(***************************************************************************)
(* Theorems about Lifecycle, for every set of codes and every attempt at   *)
(* which the delay overflows, beside crashes and lost answers.             *)
(***************************************************************************)
EXTENDS Lifecycle, TLAPS

USE LifecycleAssumption DEF LifecycleAssumption

---------------------------------------------------------------------------
(* Type correctness.                                                       *)

\* Lemma: the values a reset gives the counter.
LEMMA Resets == 0 \in 0 .. Overflow /\ 1 \in 0 .. Overflow
OBVIOUS

\* Lemma: a failed attempt keeps the counter in its bounds and leaves the session.
LEMMA DelayType ==
  ASSUME LifecycleTypeOK, Delay
  PROVE  at' \in {"waiting", "crashed"} /\ attempt' \in 0 .. Overflow
BY DEF Delay, Goto, LifecycleTypeOK

\* Lemma: so does the end of a session.
LEMMA AfterSessionType ==
  ASSUME LifecycleTypeOK, AfterSession
  PROVE  at' \in {"stopping", "waiting", "crashed"} /\ attempt' \in 0 .. Overflow
BY DelayType DEF AfterSession, Goto, LifecycleTypeOK

\* Lemma: a step of the agent keeps the types.
LEMMA AgentType ==
  ASSUME LifecycleTypeOK, Agent
  PROVE  LifecycleTypeOK'
<1> USE DEF LifecycleTypeOK, dataVars, serverVars, sessionVars, InSession, Places, SessionTasks
<1>1. CASE Wakes
  BY <1>1 DEF Wakes, LoopTop, Goto, Connect, NothingToEnroll
<1>2. CASE ShutsDown
  BY <1>2 DEF ShutsDown, Goto
<1>3. CASE EnrollAccepted
  BY <1>3, Resets DEF EnrollAccepted, Connect, Goto
<1>4. CASE EnrollRejected
  BY <1>4 DEF EnrollRejected, Goto
<1>5. CASE EnrollUnavailable
  BY <1>5, DelayType DEF EnrollUnavailable
<1>6. CASE HandshakeOk
  BY <1>6 DEF HandshakeOk, Goto
<1>7. CASE HandshakeRefused
  BY <1>7, AfterSessionType DEF HandshakeRefused
<1>8. CASE ConnectFails
  BY <1>8, AfterSessionType DEF ConnectFails
<1>9. CASE HelloAck
  BY <1>9 DEF HelloAck, Goto
<1>10. CASE SessionOver
  BY <1>10, Resets DEF SessionOver, Goto
<1>11. CASE SendFails
  BY <1>11 DEF SendFails
<1>12. CASE LoopsEnd
  BY <1>12 DEF LoopsEnd
<1>13. CASE CloserEnds
  BY <1>13 DEF CloserEnds
<1>14. CASE ReceiveEnds
  BY <1>14 DEF ReceiveEnds
<1>15. CASE RevokedArrives
  BY <1>15 DEF RevokedArrives
<1> QED
  BY <1>1, <1>2, <1>3, <1>4, <1>5, <1>6, <1>7, <1>8, <1>9, <1>10, <1>11, <1>12,
     <1>13, <1>14, <1>15 DEF Agent

\* The variables have their types: a connection exists exactly in a session, the tasks of
\* the group only while it is served, and a request only while the run loop awaits its answer.
THEOREM LifecycleTypeCorrect == LifecycleSpec => []LifecycleTypeOK
<1>1. LifecycleInit => LifecycleTypeOK
  BY Resets DEF LifecycleInit, LifecycleTypeOK, SessionTasks, InSession, Places
<1>2. LifecycleTypeOK /\ [LifecycleNext]_lifeVars => LifecycleTypeOK'
  <2> SUFFICES ASSUME LifecycleTypeOK, [LifecycleNext]_lifeVars
               PROVE  LifecycleTypeOK'
    OBVIOUS
  <2> USE DEF LifecycleTypeOK, dataVars, serverVars, sessionVars, InSession, Places, Goto
  <2>1. CASE Agent
    BY <2>1, AgentType
  <2>2. CASE EnrollNotJson
    BY <2>2 DEF EnrollNotJson
  <2>3. CASE ServerExchanges
    BY <2>3 DEF ServerExchanges
  <2>4. CASE LinkBreaks
    BY <2>4 DEF LinkBreaks
  <2>5. CASE ServerRevokes
    BY <2>5 DEF ServerRevokes
  <2>6. CASE RequestStop
    BY <2>6 DEF RequestStop
  <2>7. CASE StartAgain
    BY <2>7, Resets DEF StartAgain, Starts
  <2>8. CASE SetCode
    BY <2>8, Resets DEF SetCode, Starts
  <2>9. CASE Dies
    BY <2>9, Resets DEF Dies, Starts
  <2>10. CASE UNCHANGED lifeVars
    BY <2>10 DEF lifeVars
  <2> HIDE DEF LifecycleTypeOK
  <2> QED
    BY <2>1, <2>2, <2>3, <2>4, <2>5, <2>6, <2>7, <2>8, <2>9, <2>10 DEF LifecycleNext
<1> QED
  BY <1>1, <1>2, PTL DEF LifecycleSpec

---------------------------------------------------------------------------
(* Enrolment.                                                              *)

\* Once the server has refused the code it is marked in /data, and no request goes out
\* for it again, whatever crashes, restarts and revocations follow.
THEOREM RefusedCodeNotRetried == LifecycleSpec => []RefusedCodeIsSpent
<1>1. LifecycleInit => RefusedCodeIsSpent
  BY DEF LifecycleInit, RefusedCodeIsSpent
<1>2. RefusedCodeIsSpent /\ [LifecycleNext]_lifeVars => RefusedCodeIsSpent'
  <2> SUFFICES ASSUME RefusedCodeIsSpent, [LifecycleNext]_lifeVars
               PROVE  RefusedCodeIsSpent'
    OBVIOUS
  <2> USE DEF RefusedCodeIsSpent, NothingToEnroll, dataVars, serverVars, sessionVars
  <2>1. CASE Wakes
    BY <2>1 DEF Wakes, LoopTop
  <2>2. CASE ServerExchanges \/ EnrollAccepted \/ EnrollRejected \/ EnrollUnavailable \/ EnrollNotJson
    BY <2>2 DEF ServerExchanges, EnrollAccepted, EnrollRejected, EnrollUnavailable, EnrollNotJson
  <2>3. CASE ShutsDown \/ HandshakeOk \/ HandshakeRefused \/ ConnectFails \/ HelloAck \/ SessionOver
    BY <2>3 DEF ShutsDown, HandshakeOk, HandshakeRefused, ConnectFails, HelloAck, SessionOver
  <2>4. CASE SendFails \/ LoopsEnd \/ CloserEnds \/ ReceiveEnds \/ RevokedArrives
    BY <2>4 DEF SendFails, LoopsEnd, CloserEnds, ReceiveEnds, RevokedArrives
  <2>5. CASE LinkBreaks \/ ServerRevokes \/ RequestStop
    BY <2>5 DEF LinkBreaks, ServerRevokes, RequestStop
  <2>6. CASE StartAgain \/ SetCode \/ Dies
    BY <2>6 DEF StartAgain, SetCode, Dies, Starts
  <2>7. CASE UNCHANGED lifeVars
    BY <2>7 DEF lifeVars
  <2> QED
    BY <2>1, <2>2, <2>3, <2>4, <2>5, <2>6, <2>7 DEF LifecycleNext, Agent
<1> QED
  BY <1>1, <1>2, PTL DEF LifecycleSpec

---------------------------------------------------------------------------
(* The session.                                                            *)

\* Every task of a session runs until the session is known to be over or a stop was
\* requested: no task ends alone.
THEOREM SessionStaysWhole == LifecycleSpec => []SessionIsWhole
<1>1. LifecycleInit => SessionIsWhole
  BY DEF LifecycleInit, SessionIsWhole
<1>2. SessionIsWhole /\ [LifecycleNext]_lifeVars => SessionIsWhole'
  <2> SUFFICES ASSUME SessionIsWhole, [LifecycleNext]_lifeVars
               PROVE  SessionIsWhole'
    OBVIOUS
  <2> USE DEF SessionIsWhole, dataVars, serverVars, sessionVars, Goto
  <2>1. CASE Wakes
    BY <2>1 DEF Wakes, LoopTop, Connect
  <2>2. CASE ServerExchanges \/ EnrollRejected \/ EnrollUnavailable \/ EnrollNotJson
    BY <2>2 DEF ServerExchanges, EnrollRejected, EnrollUnavailable, EnrollNotJson, Delay
  <2>3. CASE EnrollAccepted
    BY <2>3 DEF EnrollAccepted, Connect
  <2>4. CASE ShutsDown \/ HandshakeOk \/ HandshakeRefused \/ ConnectFails \/ SessionOver
    BY <2>4 DEF ShutsDown, HandshakeOk, HandshakeRefused, ConnectFails, SessionOver
  <2>5. CASE HelloAck
    BY <2>5 DEF HelloAck
  <2>6. CASE SendFails \/ LoopsEnd \/ CloserEnds \/ ReceiveEnds \/ RevokedArrives
    BY <2>6 DEF SendFails, LoopsEnd, CloserEnds, ReceiveEnds, RevokedArrives
  <2>7. CASE LinkBreaks \/ ServerRevokes \/ RequestStop
    BY <2>7 DEF LinkBreaks, ServerRevokes, RequestStop
  <2>8. CASE StartAgain \/ SetCode \/ Dies
    BY <2>8 DEF StartAgain, SetCode, Dies, Starts
  <2>9. CASE UNCHANGED lifeVars
    BY <2>9 DEF lifeVars
  <2> QED
    BY <2>1, <2>2, <2>3, <2>4, <2>5, <2>6, <2>7, <2>8, <2>9 DEF LifecycleNext, Agent
<1> QED
  BY <1>1, <1>2, PTL DEF LifecycleSpec

=============================================================================

----------------------------- MODULE Lifecycle -----------------------------
(***************************************************************************)
(* The run loop of the agent (agent.py run), its enrolment (enroll.py),    *)
(* the delay between attempts (backoff.py) and its relay session           *)
(* (_connect_and_serve, _serve), with the durable state they use           *)
(* (state.py).                                                             *)
(*                                                                         *)
(* The run loop is one task; a session adds the tasks of its group.  A     *)
(* code that the server exchanges gives one device token, so a token bears *)
(* the name of its code here.                                              *)
(***************************************************************************)
EXTENDS Naturals

CONSTANTS
  Codes,        \* the enrolment codes the provider has issued
  None,         \* no code, no token
  Overflow,     \* the attempt whose ceiling, 2.0 ** attempt, is no float: 1024
  AnswersLost,  \* may the answer to an exchanged code be lost?
  NotJson,      \* may an answer to the code have a body that is not JSON?
  PowerLoss     \* may the agent die at any moment?

ASSUME LifecycleAssumption ==
  /\ None \notin Codes
  /\ Overflow \in Nat \ {0}
  /\ AnswersLost \in BOOLEAN
  /\ NotJson \in BOOLEAN
  /\ PowerLoss \in BOOLEAN

VARIABLES
  option,     \* the add-on option enroll_code
  token,      \* /data: device_token
  usedCode,   \* /data: used_enroll_code
  exchanged,  \* the server: the codes it has exchanged
  valid,      \* the server: the tokens it accepts
  request,    \* what became of the enrolment request under way
  at,         \* where the run loop is
  attempt,    \* ExponentialBackoff._attempt
  stop,       \* _stop_event
  closed,     \* _session_closed
  ws,         \* the connection of the session
  alive,      \* the tasks of the session that have not ended
  refused     \* history: the server has refused the code of the option

dataVars    == <<token, usedCode>>
serverVars  == <<exchanged, valid>>
sessionVars == <<closed, ws, alive>>
lifeVars    == <<option, dataVars, serverVars, request, at, attempt, stop, sessionVars, refused>>

\* _receive_loop, _close_on_stop, and the loops that report and poll
SessionTasks == {"receive", "closer", "loops"}

Places == {"starting", "enrolling", "resting", "waiting", "connecting", "hello",
           "serving", "stopping", "exited", "crashed"}

Ended == at \in {"exited", "crashed"}

InSession == at \in {"hello", "serving"}

\* The variables have their types; there is a connection exactly in a session, and
\* the tasks of the group only once the server has said hello.
LifecycleTypeOK ==
  /\ option \in Codes \cup {None}
  /\ token \in Codes \cup {None}
  /\ usedCode \in Codes \cup {None}
  /\ exchanged \subseteq Codes
  /\ valid \subseteq exchanged
  /\ request \in {"none", "asked", "accepted", "rejected"}
  /\ at \in Places
  /\ attempt \in 0 .. Overflow
  /\ stop \in BOOLEAN
  /\ closed \in BOOLEAN
  /\ ws \in {"none", "open", "broken", "closed"}
  /\ alive \subseteq SessionTasks
  /\ refused \in BOOLEAN
  /\ ws # "none" <=> InSession
  /\ alive # {} => at = "serving"
  /\ request # "none" <=> at = "enrolling"
  /\ request # "none" => option \in Codes

LifecycleInit ==
  /\ option \in Codes \cup {None}
  /\ token = None
  /\ usedCode = None
  /\ exchanged = {}
  /\ valid = {}
  /\ request = "none"
  /\ at = "starting"
  /\ attempt = 0
  /\ stop = FALSE
  /\ closed = FALSE
  /\ ws = "none"
  /\ alive = {}
  /\ refused = FALSE

---------------------------------------------------------------------------
(* The run loop, from one await to the next.                               *)

Goto(place) == at' = place

\* next_delay() and the sleep; the power that computes the ceiling may overflow,
\* and the exception ends the agent
Delay ==
  IF attempt = Overflow
  THEN Goto("crashed") /\ UNCHANGED attempt
  ELSE Goto("waiting") /\ attempt' = attempt + 1

\* mutant: the session starts as the last one ended
ConnectUncleared == Goto("connecting") /\ UNCHANGED closed

\* _connect_and_serve up to the await of the handshake
Connect == Goto("connecting") /\ closed' = FALSE

\* no code, or one that the agent knows to be used
NothingToEnroll == option = None \/ option = usedCode

\* from the top of the loop to its next await
LoopTop ==
  \/ /\ stop
     /\ Goto("stopping")
     /\ UNCHANGED <<request, closed>>
  \/ /\ ~stop /\ token # None
     /\ Connect
     /\ UNCHANGED request
  \/ /\ ~stop /\ token = None /\ NothingToEnroll
     /\ Goto("resting")
     /\ UNCHANGED <<request, closed>>
  \/ /\ ~stop /\ token = None /\ ~NothingToEnroll
     /\ Goto("enrolling")
     /\ request' = "asked"
     /\ UNCHANGED closed

\* the start, or the end of a sleep: a stop cuts it short
Wakes ==
  /\ at \in {"starting", "resting", "waiting"}
  /\ LoopTop
  /\ UNCHANGED <<option, dataVars, serverVars, attempt, stop, ws, alive, refused>>

\* _shutdown
ShutsDown ==
  /\ at = "stopping"
  /\ Goto("exited")
  /\ UNCHANGED <<option, dataVars, serverVars, request, attempt, stop, sessionVars, refused>>

---------------------------------------------------------------------------
(* Enrolment.                                                              *)

\* the server handles the request: a code is exchanged once
ServerExchanges ==
  /\ request = "asked"
  /\ IF option \in exchanged
     THEN request' = "rejected" /\ UNCHANGED serverVars
     ELSE /\ request' = "accepted"
          /\ exchanged' = exchanged \cup {option}
          /\ valid' = valid \cup {option}
  /\ UNCHANGED <<option, dataVars, at, attempt, stop, sessionVars, refused>>

\* the credentials and the used code are stored, and the loop connects, stop or not
EnrollAccepted ==
  /\ request = "accepted"
  /\ token' = option
  /\ usedCode' = option
  /\ attempt' = 0
  /\ request' = "none"
  /\ Connect
  /\ UNCHANGED <<option, serverVars, stop, ws, alive, refused>>

\* mutant: only a code that was exchanged is remembered as used
EnrollRejectedForgets ==
  /\ request = "rejected"
  /\ request' = "none"
  /\ refused' = TRUE
  /\ Goto("resting")
  /\ UNCHANGED <<option, dataVars, serverVars, attempt, stop, sessionVars>>

EnrollRejected ==
  /\ request = "rejected"
  /\ usedCode' = option
  /\ request' = "none"
  /\ refused' = TRUE
  /\ Goto("resting")
  /\ UNCHANGED <<option, token, serverVars, attempt, stop, sessionVars>>

\* no usable answer: out of reach, a time-out or a server error
EnrollUnavailable ==
  /\ request = "asked" \/ (request # "none" /\ AnswersLost)
  /\ request' = "none"
  /\ Delay
  /\ UNCHANGED <<option, dataVars, serverVars, stop, sessionVars, refused>>

\* the body is parsed before the status is looked at: no JSON, no agent
EnrollNotJson ==
  /\ NotJson
  /\ request # "none"
  /\ request' = "none"
  /\ Goto("crashed")
  /\ UNCHANGED <<option, dataVars, serverVars, attempt, stop, sessionVars, refused>>

---------------------------------------------------------------------------
(* The session.                                                            *)

\* once the session is over or was refused, the loop stops or waits
AfterSession == IF stop THEN Goto("stopping") /\ UNCHANGED attempt ELSE Delay

HandshakeOk ==
  /\ at = "connecting"
  /\ token \in valid
  /\ ws' = "open"
  /\ Goto("hello")
  /\ UNCHANGED <<option, dataVars, serverVars, request, attempt, stop, closed, alive, refused>>

\* mutant: a refused token is kept
HandshakeRefusedKeeps ==
  /\ at = "connecting"
  /\ token \notin valid
  /\ closed' = TRUE
  /\ AfterSession
  /\ UNCHANGED <<option, dataVars, serverVars, request, stop, ws, alive, refused>>

\* 401 or 403: the credentials are of no use
HandshakeRefused ==
  /\ at = "connecting"
  /\ token \notin valid
  /\ token' = None
  /\ closed' = TRUE
  /\ AfterSession
  /\ UNCHANGED <<option, usedCode, serverVars, request, stop, ws, alive, refused>>

ConnectFails ==
  /\ at = "connecting"
  /\ closed' = TRUE
  /\ AfterSession
  /\ UNCHANGED <<option, dataVars, serverVars, request, stop, ws, alive, refused>>

\* hello_ack: inventory and consent state are sent, the tasks start
HelloAck ==
  /\ at = "hello"
  /\ ws = "open"
  /\ Goto("serving")
  /\ alive' = SessionTasks
  /\ UNCHANGED <<option, dataVars, serverVars, request, attempt, stop, closed, ws, refused>>

\* the connection ended before hello_ack, or no hello_ack came in time, or every
\* task of the group has ended: a session it was, so the delay starts over
SessionOver ==
  /\ at = "hello" \/ (at = "serving" /\ alive = {})
  /\ ws' = "none"
  /\ closed' = TRUE
  /\ IF stop THEN Goto("stopping") /\ UNCHANGED attempt
             ELSE Goto("waiting") /\ attempt' = 1
  /\ UNCHANGED <<option, dataVars, serverVars, request, stop, alive, refused>>

\* a send fails
SendFails ==
  /\ "loops" \in alive
  /\ ws = "broken"
  /\ ~closed
  /\ closed' = TRUE
  /\ UNCHANGED <<option, dataVars, serverVars, request, at, attempt, stop, ws, alive, refused>>

\* the loops sleep between their rounds, and end there
LoopsEnd ==
  /\ "loops" \in alive
  /\ stop \/ closed
  /\ alive' = alive \ {"loops"}
  /\ UNCHANGED <<option, dataVars, serverVars, request, at, attempt, stop, closed, ws, refused>>

\* mutant: the closer waits for a stop, but closes nothing
CloserEndsIdle ==
  /\ "closer" \in alive
  /\ stop \/ closed
  /\ alive' = alive \ {"closer"}
  /\ UNCHANGED <<option, dataVars, serverVars, request, at, attempt, stop, closed, ws, refused>>

\* a stop closes the connection, unless the session ended by itself before
CloserEnds ==
  /\ "closer" \in alive
  /\ stop \/ closed
  /\ alive' = alive \ {"closer"}
  /\ ws' = IF stop THEN "closed" ELSE ws
  /\ UNCHANGED <<option, dataVars, serverVars, request, at, attempt, stop, closed, refused>>

\* mutant: the other tasks are not told
ReceiveEndsAlone ==
  /\ "receive" \in alive
  /\ ws \in {"broken", "closed"}
  /\ alive' = alive \ {"receive"}
  /\ UNCHANGED <<option, dataVars, serverVars, request, at, attempt, stop, closed, ws, refused>>

\* the connection has ended, as the ping finds out if nothing else does
ReceiveEnds ==
  /\ "receive" \in alive
  /\ ws \in {"broken", "closed"}
  /\ alive' = alive \ {"receive"}
  /\ closed' = TRUE
  /\ UNCHANGED <<option, dataVars, serverVars, request, at, attempt, stop, ws, refused>>

\* token_revoked, in the receive loop or before hello_ack
RevokedArrives ==
  /\ at = "hello" \/ "receive" \in alive
  /\ ws = "open"
  /\ token \notin valid
  /\ token' = None
  /\ closed' = TRUE
  /\ ws' = "closed"
  /\ UNCHANGED <<option, usedCode, serverVars, request, at, attempt, stop, alive, refused>>

---------------------------------------------------------------------------
(* The network, the provider, the customer, the Supervisor.                *)

LinkBreaks ==
  /\ ws = "open"
  /\ ws' \in {"broken", "closed"}
  /\ UNCHANGED <<option, dataVars, serverVars, request, at, attempt, stop, closed, alive, refused>>

ServerRevokes ==
  /\ \E t \in valid : valid' = valid \ {t}
  /\ UNCHANGED <<option, dataVars, exchanged, request, at, attempt, stop, sessionVars, refused>>

\* request_stop(), at SIGTERM
RequestStop ==
  /\ ~Ended
  /\ stop' = TRUE
  /\ closed' = TRUE
  /\ UNCHANGED <<option, dataVars, serverVars, request, at, attempt, ws, alive, refused>>

\* a new process: only /data is left
Starts ==
  /\ Goto("starting")
  /\ request' = "none"
  /\ attempt' = 0
  /\ stop' = FALSE
  /\ closed' = FALSE
  /\ ws' = "none"
  /\ alive' = {}

StartAgain ==
  /\ Ended
  /\ Starts
  /\ UNCHANGED <<option, dataVars, serverVars, refused>>

\* the customer enters another code, which restarts the add-on
SetCode ==
  /\ Ended
  /\ Starts
  /\ option' \in Codes \ {option}
  /\ refused' = FALSE
  /\ UNCHANGED <<dataVars, serverVars>>

\* a crash, also between the two writes of an accepted code
Dies ==
  /\ PowerLoss
  /\ Starts
  /\ token' \in IF request = "accepted" THEN {token, option} ELSE {token}
  /\ UNCHANGED <<option, usedCode, serverVars, refused>>

Agent ==
  \/ Wakes \/ ShutsDown
  \/ EnrollAccepted \/ EnrollRejected \/ EnrollUnavailable
  \/ HandshakeOk \/ HandshakeRefused \/ ConnectFails
  \/ HelloAck \/ SessionOver
  \/ SendFails \/ LoopsEnd \/ CloserEnds \/ ReceiveEnds \/ RevokedArrives

LifecycleNext ==
  \/ Agent \/ EnrollNotJson \/ ServerExchanges
  \/ LinkBreaks \/ ServerRevokes \/ RequestStop \/ StartAgain \/ SetCode \/ Dies

LifecycleSpec == LifecycleInit /\ [][LifecycleNext]_lifeVars

\* Every await of the agent ends, by a time-out at the latest, and every task that
\* can run does.  A server that is tried again and again answers in the end, and a
\* session it accepts gets its hello_ack now and then.
LifecycleFairSpec ==
  /\ LifecycleSpec
  /\ WF_lifeVars(Wakes) /\ WF_lifeVars(ShutsDown)
  /\ WF_lifeVars(EnrollAccepted \/ EnrollRejected \/ EnrollUnavailable)
  /\ WF_lifeVars(HandshakeOk \/ HandshakeRefused \/ ConnectFails)
  /\ WF_lifeVars(SessionOver)
  /\ WF_lifeVars(LoopsEnd) /\ WF_lifeVars(CloserEnds) /\ WF_lifeVars(ReceiveEnds)
  /\ SF_lifeVars(HandshakeOk) /\ SF_lifeVars(HandshakeRefused) /\ SF_lifeVars(HelloAck)

---------------------------------------------------------------------------
(* Safety.                                                                 *)

\* A code that the server has refused is not sent again, not even after a restart,
\* until the customer enters another one (agent.py _ensure_enrolled, state.py).
RefusedCodeIsSpent == refused => request = "none" /\ NothingToEnroll

\* A session that is neither over nor to be stopped has all its tasks, the polling of the
\* consent among them (agent.py _send, _receive_loop, _sleep).
SessionIsWhole ==
  at = "serving" /\ ~closed /\ ~stop => alive = SessionTasks

(* Liveness.                                                               *)

\* A stop request is obeyed, wherever it finds the agent, even while _session_closed is
\* cleared for a new session (agent.py request_stop, _close_on_stop, _sleep).
StopStops == stop ~> (Ended \/ ~stop)

\* An agent with a token the server accepts gets a session whose loops run, unless it
\* is stopped or the token revoked meanwhile; a session that is over ends, so that the
\* agent does not stay half connected (agent.py run, _connect_and_serve, _serve).
Reconnects ==
  (token \in valid) ~> ((at = "serving" /\ ~closed) \/ stop \/ Ended \/ token \notin valid)

\* An agent whose token was revoked finds out at its next attempt to connect at the
\* latest, and forgets the token (agent.py _connect_and_serve, state.py).
RevocationNoticed ==
  (token # None /\ token \notin valid) ~>
    (token = None \/ token \in valid \/ stop \/ Ended \/ ws = "open")

---------------------------------------------------------------------------
(* What the documentation says and the code does not keep.                 *)

\* "exponential backoff with jitter (5 min cap) and retry" (agent.py docstring): no
\* failure of the server ends the agent.
NeverGivesUp == at # "crashed"

=============================================================================

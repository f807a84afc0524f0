------------------------------ MODULE Consent ------------------------------
(***************************************************************************)
(* The local maintenance consent of the agent (consent.py) with the part   *)
(* of the durable state it owns (state.py).                                *)
(*                                                                         *)
(* ConsentManager.refresh() runs in several asyncio tasks: the polling     *)
(* loop, every command about to execute, every tunnel about to open.  A    *)
(* task gives up control only where it awaits: the read of the helper, the *)
(* turn_off service call, the listeners.  A step of the model is what one  *)
(* task does from one await to the next, so the refreshes interleave here  *)
(* as they do in the event loop.                                           *)
(*                                                                         *)
(* Time is a counter of coarse ticks.  A reply is photographed when the    *)
(* read starts and handled when it arrives, any number of steps later.     *)
(***************************************************************************)
EXTENDS Integers

CONSTANTS
  Refreshers,     \* the tasks that call ConsentManager.refresh()
  Window,         \* consent_window_hours, in ticks
  MaxTime,        \* BOUND: the clock stops here
  HaRestarts,     \* may Home Assistant restart (keeps the helper, resets last_changed)?
  AnswersEarly,   \* does it answer before it has restored the helper, or only fail?
  TurnOffFails,   \* may the turn_off service call fail?
  HelperChanges,  \* may the customer create and delete the helper?
  OmitsStamp      \* may a state object come without a usable last_changed?

ASSUME ConsentAssumption ==
  /\ Window \in Nat \ {0}
  /\ MaxTime \in Nat
  /\ HaRestarts \in BOOLEAN
  /\ AnswersEarly \in BOOLEAN
  /\ TurnOffFails \in BOOLEAN
  /\ HelperChanges \in BOOLEAN
  /\ OmitsStamp \in BOOLEAN

VARIABLES
  now,          \* the clock
  loaded,       \* has Home Assistant restored its helpers since it started?
  helper,       \* the input_boolean in Home Assistant, the one to restore included
  lastChanged,  \* its last_changed attribute
  option,       \* the add-on option consent_default
  stored,       \* /data: consent_activated_at
  status,       \* ConsentManager._status
  prevOn,       \* ConsentManager._previous_entity_on
  pc,           \* where each refresh is suspended
  reply,        \* the state object on its way to each refresh
  onSince,      \* history: when the customer last switched the helper on
  known,        \* history: the agent has handled a reply of that switch-on
  optGranted    \* history: when the current option was first given a window

haVars      == <<loaded, helper, lastChanged, option>>
histVars    == <<onSince, known, optGranted>>
consentVars == <<now, loaded, helper, lastChanged, option, stored, status, prevOn,
                 pc, reply, onSince, known, optGranted>>

---------------------------------------------------------------------------
NoTime == -1                                    \* Python's None
Times  == 0 .. MaxTime

Disabled(src) == [enabled |-> FALSE, expires |-> NoTime, source |-> src]

Enabled(exp, src) == [enabled |-> TRUE, expires |-> exp, source |-> src]

Statuses ==
  [enabled : BOOLEAN, expires : {NoTime} \cup (0 .. MaxTime + Window),
   source : {"entity", "option", "unavailable"}]

HelperStates == {"on", "off", "absent"}
Replies ==
  [state : HelperStates \cup {"unavailable", "error"}, lastChanged : Times \cup {NoTime}]
NoReply == [state |-> "absent", lastChanged |-> NoTime]

\* ConsentStatus.is_active at instant t: without an expiry, for ever
ActiveAt(st, t) == st.enabled /\ (st.expires = NoTime \/ t < st.expires)

\* ConsentManager.is_active()
IsActive == ActiveAt(status, now)

\* The variables have their types, and a status that enables maintenance always
\* carries an expiry: is_active() would hold for ever without one.
TypeOK ==
  /\ now \in Times
  /\ loaded \in BOOLEAN
  /\ helper \in HelperStates
  /\ lastChanged \in Times
  /\ option \in BOOLEAN
  /\ stored \in Times \cup {NoTime}
  /\ status \in Statuses
  /\ status.enabled => status.expires # NoTime
  /\ prevOn \in {"none", "on", "off"}
  /\ pc \in [Refreshers -> {"idle", "reading", "turningOff", "turnedOff", "notifying"}]
  /\ reply \in [Refreshers -> Replies]
  /\ onSince \in Times
  /\ known \in BOOLEAN
  /\ optGranted \in Times \cup {NoTime}

Init ==
  /\ now = 0
  /\ loaded = TRUE
  /\ helper \in {"off", "absent"}
  /\ lastChanged = 0
  /\ option \in BOOLEAN
  /\ stored = NoTime
  /\ status = Disabled("unavailable")
  /\ prevOn = "none"
  /\ pc = [r \in Refreshers |-> "idle"]
  /\ reply = [r \in Refreshers |-> NoReply]
  /\ onSince = 0
  /\ known = FALSE
  /\ optGranted = NoTime

---------------------------------------------------------------------------
(* The steps of a refresh.                                                 *)

\* What Home Assistant may answer now: the helper as it is, or, until it is restored,
\* an error, a 404, or a helper that is registered and unavailable
HaAnswers ==
  IF loaded
  THEN [state : {helper},
        lastChanged : {lastChanged} \cup (IF OmitsStamp THEN {NoTime} ELSE {})]
  ELSE [state : {"error"} \cup (IF AnswersEarly THEN {"absent", "unavailable"} ELSE {}),
        lastChanged : {NoTime}]

\* refresh() up to the await of ha_state(); the answer is photographed now
StartRead(r) ==
  /\ pc[r] = "idle"
  /\ pc' = [pc EXCEPT ![r] = "reading"]
  /\ \E answer \in HaAnswers : reply' = [reply EXCEPT ![r] = answer]
  /\ UNCHANGED <<now, haVars, stored, status, prevOn, histVars>>

\* the end of refresh(): install the status; listeners run only on a change
Commit(r, st) ==
  /\ status' = st
  /\ pc' = [pc EXCEPT ![r] = IF st = status THEN "idle" ELSE "notifying"]

Arrived(r, states) ==
  /\ pc[r] = "reading"
  /\ reply[r].state \in states
  /\ reply' = [reply EXCEPT ![r] = NoReply]

\* mutant: an unreadable helper changes nothing
ReadFailsKeeps(r) ==
  /\ pc[r] = "reading"
  /\ reply' = [reply EXCEPT ![r] = NoReply]
  /\ Commit(r, status)
  /\ UNCHANGED <<now, haVars, stored, prevOn, histVars>>

\* ha_state() raised SupervisorError
ReadFails(r) ==
  /\ pc[r] = "reading"
  /\ reply' = [reply EXCEPT ![r] = NoReply]
  /\ Commit(r, Disabled("unavailable"))
  /\ UNCHANGED <<now, haVars, stored, prevOn, histVars>>

\* mutant: an off helper is remembered, but the status that was open stays
ReadOffKeeps(r) ==
  /\ Arrived(r, {"off", "unavailable"})
  /\ stored' = NoTime
  /\ prevOn' = "off"
  /\ Commit(r, status)
  /\ UNCHANGED <<now, haVars, histVars>>

\* the helper is anything but on: close the window
ReadOff(r) ==
  /\ Arrived(r, {"off", "unavailable"})
  /\ stored' = NoTime
  /\ prevOn' = "off"
  /\ Commit(r, Disabled("entity"))
  /\ UNCHANGED <<now, haVars, histVars>>

\* mutant: the window starts when the agent first sees the helper on
ActivationWhenSeen(lc) == IF prevOn = "off" \/ stored = NoTime THEN now ELSE stored

\* mutant: last_changed wins over the persisted instant
ActivationLastChanged(lc) ==
  IF lc # NoTime THEN lc ELSE IF stored = NoTime THEN now ELSE stored

\* _activation_instant: when the window started; lc is last_changed or NoTime
ActivationInstant(lc) ==
  LET fresh == IF lc = NoTime THEN now ELSE lc
  IN  IF prevOn = "off" \/ stored = NoTime THEN fresh
      ELSE IF lc # NoTime /\ lc < stored THEN lc ELSE stored

\* what _evaluate_entity does for a helper that is on, before it looks at the expiry
OpenWindow(r) ==
  /\ Arrived(r, {"on"})
  /\ stored' = ActivationInstant(reply[r].lastChanged)
  /\ prevOn' = "on"
  /\ known' = (known \/ reply[r].lastChanged = onSince)
  /\ UNCHANGED <<now, haVars, onSince, optGranted>>

\* the helper is on and its window open
ReadOn(r) ==
  /\ OpenWindow(r)
  /\ now < stored' + Window
  /\ Commit(r, Enabled(stored' + Window, "entity"))

\* mutant: the window is closed, the helper left on
ReadExpiredQuietly(r) ==
  /\ OpenWindow(r)
  /\ now >= stored' + Window
  /\ Commit(r, Disabled("entity"))

\* the helper is on and its window over: call turn_off
ReadExpired(r) ==
  /\ OpenWindow(r)
  /\ now >= stored' + Window
  /\ pc' = [pc EXCEPT ![r] = "turningOff"]
  /\ UNCHANGED status

\* Home Assistant executes the turn_off service call
HaTurnsOff(r) ==
  /\ pc[r] = "turningOff"
  /\ loaded
  /\ pc' = [pc EXCEPT ![r] = "turnedOff"]
  /\ IF helper = "on"
     THEN helper' = "off" /\ lastChanged' = now
     ELSE UNCHANGED <<helper, lastChanged>>
  /\ UNCHANGED <<now, loaded, option, stored, status, prevOn, reply, histVars>>

\* _turn_entity_off() returns, an error included, and the window is closed
TurnOffReturns(r) ==
  /\ pc[r] = "turnedOff" \/ (pc[r] = "turningOff" /\ (TurnOffFails \/ ~loaded))
  /\ stored' = NoTime
  /\ prevOn' = "off"
  /\ Commit(r, Disabled("entity"))
  /\ UNCHANGED <<now, haVars, reply, histVars>>

\* 404, option false
OptionOff(r) ==
  /\ Arrived(r, {"absent"})
  /\ ~option
  /\ stored' = NoTime
  /\ Commit(r, Disabled("option"))
  /\ UNCHANGED <<now, haVars, prevOn, histVars>>

\* mutant: every evaluation of the option renews its window
OptionOnRenews(r) ==
  /\ Arrived(r, {"absent"})
  /\ option
  /\ stored' = now
  /\ Commit(r, Enabled(stored' + Window, "option"))
  /\ optGranted' = IF optGranted = NoTime THEN now ELSE optGranted
  /\ UNCHANGED <<now, haVars, prevOn, onSince, known>>

\* 404, option true: the window starts at the first evaluation and is never reopened
OptionOn(r) ==
  /\ Arrived(r, {"absent"})
  /\ option
  /\ stored' = IF stored = NoTime THEN now ELSE stored
  /\ IF now >= stored' + Window
     THEN Commit(r, Disabled("option")) /\ UNCHANGED optGranted
     ELSE /\ Commit(r, Enabled(stored' + Window, "option"))
          /\ optGranted' = IF optGranted = NoTime THEN now ELSE optGranted
  /\ UNCHANGED <<now, haVars, prevOn, onSince, known>>

\* the listeners have returned
Notified(r) ==
  /\ pc[r] = "notifying"
  /\ pc' = [pc EXCEPT ![r] = "idle"]
  /\ UNCHANGED <<now, haVars, stored, status, prevOn, reply, histVars>>

\* the steps that end with a status committed
Decide(r) ==
  \/ ReadFails(r) \/ ReadOff(r) \/ ReadOn(r) \/ OptionOff(r) \/ OptionOn(r)
  \/ TurnOffReturns(r)

Refresh(r) ==
  StartRead(r) \/ Decide(r) \/ ReadExpired(r) \/ Notified(r)

---------------------------------------------------------------------------
(* The customer, Home Assistant and the add-on container.                  *)

SwitchOn ==
  /\ loaded
  /\ helper = "off"
  /\ helper' = "on"
  /\ lastChanged' = now
  /\ onSince' = now
  /\ known' = FALSE
  /\ UNCHANGED <<now, loaded, option, stored, status, prevOn, pc, reply, optGranted>>

SwitchOff ==
  /\ loaded
  /\ helper = "on"
  /\ helper' = "off"
  /\ lastChanged' = now
  /\ UNCHANGED <<now, loaded, option, stored, status, prevOn, pc, reply, histVars>>

\* a new helper starts off
CreateOrDeleteHelper ==
  /\ HelperChanges
  /\ loaded
  /\ helper' = IF helper = "absent" THEN "off" ELSE "absent"
  /\ lastChanged' = now
  /\ UNCHANGED <<now, loaded, option, stored, status, prevOn, pc, reply, histVars>>

\* Home Assistant goes down and comes up without its helpers
HaRestart ==
  /\ HaRestarts
  /\ loaded
  /\ loaded' = FALSE
  /\ UNCHANGED <<now, helper, lastChanged, option, stored, status, prevOn, pc, reply, histVars>>

\* input_boolean states are restored, with a new last_changed
HaRestores ==
  /\ ~loaded
  /\ loaded' = TRUE
  /\ lastChanged' = now
  /\ UNCHANGED <<now, helper, option, stored, status, prevOn, pc, reply, histVars>>

\* the agent process dies and starts again: only /data survives
Reboot ==
  /\ status' = Disabled("unavailable")
  /\ prevOn' = "none"
  /\ pc' = [r \in Refreshers |-> "idle"]
  /\ reply' = [r \in Refreshers |-> NoReply]

AgentRestart ==
  /\ Reboot
  /\ UNCHANGED <<now, haVars, stored, histVars>>

\* the Supervisor restarts the add-on when its options change
SetOption ==
  /\ option' = ~option
  /\ optGranted' = NoTime
  /\ Reboot
  /\ UNCHANGED <<now, loaded, helper, lastChanged, stored, onSince, known>>

Tick ==
  /\ now < MaxTime
  /\ now' = now + 1
  /\ UNCHANGED <<haVars, stored, status, prevOn, pc, reply, histVars>>

Environment ==
  \/ SwitchOn \/ SwitchOff \/ CreateOrDeleteHelper \/ HaRestart \/ HaRestores
  \/ AgentRestart \/ SetOption \/ Tick
  \/ \E r \in Refreshers : HaTurnsOff(r)

Next == Environment \/ \E r \in Refreshers : Refresh(r)

Spec == Init /\ [][Next]_consentVars

\* The polling loop repeats for as long as a session with the relay is up, every
\* call to Home Assistant ends, by its time-out at the latest, and if they do not
\* always succeed, they do again and again.
Fairness ==
  \A r \in Refreshers :
    /\ WF_consentVars(StartRead(r))
    /\ WF_consentVars(Decide(r) \/ ReadExpired(r))
    /\ SF_consentVars(ReadOff(r))
    /\ SF_consentVars(ReadExpired(r))
    /\ SF_consentVars(HaTurnsOff(r))
    /\ WF_consentVars(Notified(r))

FairSpec == Spec /\ Fairness

---------------------------------------------------------------------------
(* Safety.                                                                 *)

\* Whatever is active is in /data, with an instant that gives no later expiry:
\* an agent killed at any point restarts with a window that is not longer.  It
\* relates the file, written before an await, to the status installed after it,
\* for refreshes that overlap (consent.py refresh, _activation_instant).
ActiveIsBacked ==
  IsActive => stored # NoTime /\ stored + Window <= status.expires

\* While Home Assistant keeps running, no maintenance is allowed more than a
\* window after the customer last switched the helper on, however late, and in
\* whatever order, the replies of overlapping refreshes are handled.
WindowBound ==
  IsActive /\ status.source = "entity" => status.expires <= onSince + Window

\* The fallback option opens one window each time it is given, and restarting
\* the add-on does not reopen it (consent.py _evaluate_option, DOCS.md).
OptionWindowBound ==
  IsActive /\ status.source = "option" => status.expires <= optGranted + Window

\* Whoever gave the consent, the customer with the helper or the add-on option,
\* gave a window and no more (consent.py refresh, DOCS.md).
NoLongerThanGiven == WindowBound /\ OptionWindowBound

\* A window in force is only ever lengthened when the helper takes over from the
\* option: no later reply, no restart and no second refresh moves its end
\* (consent.py _activation_instant, _evaluate_option).
NeverExtended ==
  [][IsActive /\ IsActive' /\ status'.expires > status.expires
       => status.source = "option" /\ status'.source = "entity"]_consentVars

\* the consent seen as a lease: in force until then, by whom, and on file
LeaseUntil == IF IsActive THEN status.expires ELSE NoTime
LeaseGiver == IF IsActive THEN status.source ELSE "nobody"
LeaseKept == IF stored = NoTime THEN NoTime ELSE stored + Window

Promise == INSTANCE Lease WITH
  until <- LeaseUntil, giver <- LeaseGiver, kept <- LeaseKept, seenOff <- prevOn = "off"

\* The consent is a lease: given for a window at most, written down before it is
\* in force, resumed after a restart and not renewed, ended by the clock, for
\* refreshes that overlap and calls that fail (consent.py refresh).
IsALease == Promise!LeaseSpec

\* what the tunnel and the commands see of it
View == INSTANCE ConsentView WITH enabled <- status.enabled, inWindow <- IsActive

\* The tunnel may take the consent for a switch and a window that only the clock
\* closes: a status that enables is never installed with its window over, nor does
\* a window open again without a new status (consent.py refresh, is_active).
SeenAsView == View!ViewSpec

(* Liveness.                                                               *)

WindowOver == helper = "on" /\ now >= onSince + Window

\* A helper whose window is over does not stay on: the agent switches it off,
\* trying again after failed calls and after its own restarts.
ExpiredWindowCloses == WindowOver ~> ~WindowOver

\* A withdrawal is noticed: while the helper stays off, the consent ends without
\* the help of the clock.
WithdrawalNoticed == (helper = "off") ~> (~IsActive \/ helper # "off")

---------------------------------------------------------------------------
(* What the documentation says and the code does not keep.                 *)

\* "Taking the earliest known instant prevents a Home Assistant or add-on restart from
\* silently extending an open maintenance window" (consent.py _activation_instant): a
\* window the agent has seen being opened ends no later than it would have.  A turn_off
\* that fails is enough to break it.
KnownWindowBound ==
  known /\ IsActive /\ status.source = "entity" => status.expires <= onSince + Window

\* The same of a window that is still open: not even that is kept through a restart
\* of Home Assistant, if it answers before it has restored the helper.
OpenWindowBound == now < onSince + Window => KnownWindowBound

=============================================================================

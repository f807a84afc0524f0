---------------------------- MODULE Maintenance ----------------------------
(***************************************************************************)
(* The command executor (commands.py) with the task that runs a command    *)
(* (agent.py _run_command), over the consent manager.                      *)
(*                                                                         *)
(* Every command received becomes a task.  The tasks share the maintenance *)
(* lock, the consent status and the cached slug of the add-on, and refresh *)
(* the consent beside the polling loop; they are two kinds of refreshers   *)
(* of module Consent.  As there, a step runs from one await to the next.   *)
(***************************************************************************)
EXTENDS Consent

CONSTANTS
  Commands,        \* the commands the server sends, each once
  Guarded,         \* those that _guard_self examines: addon_update, addon_restart
  Own,             \* those aimed at this very add-on
  Loop,            \* the consent polling loop
  Nobody,          \* the lock is free
  SelfInfoFails    \* may the question for the add-on's own slug fail?

ASSUME MaintenanceAssumption ==
  /\ Refreshers = Commands \cup {Loop}
  /\ Loop \notin Commands
  /\ Nobody \notin Commands
  /\ Guarded \subseteq Commands
  /\ Own \subseteq Guarded
  /\ SelfInfoFails \in BOOLEAN

VARIABLES
  phase,      \* where each command is
  deadline,   \* its expires_at
  lock,       \* the holder of _maintenance_lock
  selfSlug,   \* CommandExecutor._self_slug
  link,       \* is there an open relay session?
  box,        \* the maintenance jobs running on the box
  acted,      \* history: the commands whose job was started
  answer,     \* the status of the command_result
  delivered,  \* the commands whose command_result left for the server
  withdrawn   \* history: off ever since the command was received, which is not executed yet?

maintVars ==
  <<phase, deadline, lock, selfSlug, link, box, acted, answer, delivered, withdrawn>>
allVars   == <<consentVars, maintVars>>

Phases  == {"unsent", "received", "gate", "guard", "calling", "done", "lost"}
\* "racing": off, but a refresh held an older answer when the command was received
Withdrawals == {"no", "racing", "settled"}
Answers == {"none", "busy", "expired", "refused", "success", "failed", "timeout"}

\* between the acquisition of the lock and its release
Busy(c) == phase[c] \in {"gate", "guard", "calling"}

\* The variables have their types, and the lock belongs to the command that is
\* executing.
MaintenanceTypeOK ==
  /\ TypeOK
  /\ phase \in [Commands -> Phases]
  /\ deadline \in [Commands -> Times]
  /\ lock \in Commands \cup {Nobody}
  /\ selfSlug \in {"unasked", "known", "empty"}
  /\ link \in BOOLEAN
  /\ box \subseteq Commands
  /\ acted \subseteq Commands
  /\ answer \in [Commands -> Answers]
  /\ delivered \subseteq Commands
  /\ withdrawn \in [Commands -> Withdrawals]
  /\ \A c \in Commands : lock = c <=> Busy(c)

MaintenanceInit ==
  /\ Init
  /\ phase = [c \in Commands |-> "unsent"]
  /\ deadline = [c \in Commands |-> 0]
  /\ lock = Nobody
  /\ selfSlug = "unasked"
  /\ link = TRUE
  /\ box = {}
  /\ acted = {}
  /\ answer = [c \in Commands |-> "none"]
  /\ delivered = {}
  /\ withdrawn = [c \in Commands |-> "no"]

---------------------------------------------------------------------------
(* The task of one command.                                                *)

IsOff == loaded /\ helper = "off"

NobodyHoldsOlder == \A r \in Refreshers : pc[r] = "reading" => reply[r].state = "off"

Receive(c) ==
  /\ link
  /\ phase[c] = "unsent"
  /\ phase' = [phase EXCEPT ![c] = "received"]
  /\ \E d \in Times : deadline' = [deadline EXCEPT ![c] = d]
  /\ withdrawn' = [withdrawn EXCEPT ![c] =
       IF ~IsOff THEN "no" ELSE IF NobodyHoldsOlder THEN "settled" ELSE "racing"]
  /\ UNCHANGED <<consentVars, lock, selfSlug, link, box, acted, answer, delivered>>

\* execute() returns, which releases the lock its caller holds, and _send passes
\* the result to the session; without one it is dropped
Finish(c, a) ==
  /\ phase' = [phase EXCEPT ![c] = "done"]
  /\ answer' = [answer EXCEPT ![c] = a]
  /\ lock' = IF lock = c THEN Nobody ELSE lock
  /\ delivered' = IF link THEN delivered \cup {c} ELSE delivered
  /\ withdrawn' = [withdrawn EXCEPT ![c] = "no"]

RejectBusy(c) ==
  /\ phase[c] = "received"
  /\ lock # Nobody
  /\ Finish(c, "busy")
  /\ UNCHANGED <<consentVars, deadline, selfSlug, link, box, acted>>

RejectExpired(c) ==
  /\ phase[c] = "received"
  /\ lock = Nobody
  /\ deadline[c] <= now
  /\ Finish(c, "expired")
  /\ UNCHANGED <<consentVars, deadline, selfSlug, link, box, acted>>

\* mutant: commands do not wait for each other
BeginUnlocked(c) ==
  /\ phase[c] = "received"
  /\ now < deadline[c]
  /\ lock' = c
  /\ phase' = [phase EXCEPT ![c] = "gate"]
  /\ StartRead(c)
  /\ UNCHANGED <<deadline, selfSlug, link, box, acted, answer, delivered, withdrawn>>

\* take the lock and begin to refresh the consent
Begin(c) ==
  /\ phase[c] = "received"
  /\ lock = Nobody
  /\ now < deadline[c]
  /\ lock' = c
  /\ phase' = [phase EXCEPT ![c] = "gate"]
  /\ StartRead(c)
  /\ UNCHANGED <<deadline, selfSlug, link, box, acted, answer, delivered, withdrawn>>

\* a step of the refresh the command waits for
Refreshing(c) ==
  /\ phase[c] = "gate"
  /\ Decide(c) \/ ReadExpired(c) \/ Notified(c)

RefreshGoesOn(c) ==
  /\ Refreshing(c)
  /\ pc'[c] # "idle"
  /\ UNCHANGED maintVars

\* is_active() as soon as the refresh has returned, in the same step
GateOpen(c) == pc'[c] = "idle" /\ IsActive'

GateRefuses(c) ==
  /\ Refreshing(c)
  /\ pc'[c] = "idle"
  /\ ~GateOpen(c)
  /\ Finish(c, "refused")
  /\ UNCHANGED <<deadline, selfSlug, link, box, acted>>

\* the call to the Supervisor API is sent and its job begins
StartJob(c) ==
  /\ phase' = [phase EXCEPT ![c] = "calling"]
  /\ box' = box \cup {c}
  /\ acted' = acted \cup {c}
  /\ withdrawn' = [withdrawn EXCEPT ![c] = "no"]
  /\ UNCHANGED <<lock, answer, delivered>>

\* a ValueError, of a parameter or of the guard: no call is made
Reject(c) == Finish(c, "failed") /\ UNCHANGED <<box, acted>>

\* _guard_self once the slug was asked for, then the version and the call
GuardedJob(c) ==
  IF selfSlug' = "known" /\ c \in Own THEN Reject(c) ELSE StartJob(c) \/ Reject(c)

\* a kind without guard, a guard that needs no question, or bad parameters
GatePasses(c) ==
  /\ Refreshing(c)
  /\ GateOpen(c)
  /\ UNCHANGED <<deadline, selfSlug, link>>
  /\ \/ c \notin Guarded /\ StartJob(c)
     \/ c \in Guarded /\ selfSlug # "unasked" /\ GuardedJob(c)
     \/ Reject(c)

GatePassesToGuard(c) ==
  /\ Refreshing(c)
  /\ GateOpen(c)
  /\ c \in Guarded
  /\ selfSlug = "unasked"
  /\ phase' = [phase EXCEPT ![c] = "guard"]
  /\ UNCHANGED <<deadline, lock, selfSlug, link, box, acted, answer, delivered, withdrawn>>

\* self_info() returns; an error is remembered as an empty slug
SelfInfoReturns(c) ==
  /\ phase[c] = "guard"
  /\ selfSlug' \in {"known"} \cup (IF SelfInfoFails THEN {"empty"} ELSE {})
  /\ GuardedJob(c)
  /\ UNCHANGED <<consentVars, deadline, link>>

\* the time-out of the whole command ends the guard's question
GuardTimesOut(c) ==
  /\ phase[c] = "guard"
  /\ Finish(c, "timeout")
  /\ UNCHANGED <<consentVars, deadline, selfSlug, link, box, acted>>

\* the job ends and the call reports it
JobEnds(c) ==
  /\ phase[c] = "calling"
  /\ c \in box
  /\ box' = box \ {c}
  /\ \E a \in {"success", "failed"} : Finish(c, a)
  /\ UNCHANGED <<consentVars, deadline, selfSlug, link, acted>>

\* mutant: what became of the job is not left open
CallEndsWell(c) ==
  /\ phase[c] = "calling"
  /\ Finish(c, "success")
  /\ UNCHANGED <<consentVars, deadline, selfSlug, link, box, acted>>

\* mutant: no time-out, the call waits for its job
CallWaits(c) ==
  /\ phase[c] = "calling"
  /\ c \notin box
  /\ \E a \in {"timeout", "failed"} : Finish(c, a)
  /\ UNCHANGED <<consentVars, deadline, selfSlug, link, box, acted>>

\* the time-out or a broken connection ends the call; the job goes on
CallEnds(c) ==
  /\ phase[c] = "calling"
  /\ \E a \in {"timeout", "failed"} : Finish(c, a)
  /\ UNCHANGED <<consentVars, deadline, selfSlug, link, box, acted>>

CommandStep(c) ==
  \/ RejectBusy(c) \/ RejectExpired(c) \/ Begin(c)
  \/ RefreshGoesOn(c) \/ GateRefuses(c) \/ GatePasses(c) \/ GatePassesToGuard(c)
  \/ SelfInfoReturns(c) \/ GuardTimesOut(c) \/ CallEnds(c)

---------------------------------------------------------------------------
(* What happens around the commands.                                       *)

\* a job nobody waits for any more comes to its end
OrphanEnds(c) ==
  /\ c \in box
  /\ phase[c] \in {"done", "lost"}
  /\ box' = box \ {c}
  /\ UNCHANGED <<consentVars, phase, deadline, lock, selfSlug, link, acted, answer, delivered, withdrawn>>

LinkChanges ==
  /\ link' = ~link
  /\ UNCHANGED <<consentVars, phase, deadline, lock, selfSlug, box, acted, answer, delivered, withdrawn>>

\* a shutdown cancels the command tasks, a crash ends them: no answer either way
AgentStops ==
  /\ AgentRestart \/ SetOption
  /\ phase' = [c \in Commands |-> IF Busy(c) \/ phase[c] = "received" THEN "lost" ELSE phase[c]]
  /\ lock' = Nobody
  /\ selfSlug' = "unasked"
  /\ link' = FALSE
  /\ withdrawn' = [c \in Commands |-> "no"]
  /\ UNCHANGED <<deadline, box, acted, answer, delivered>>

\* the customer, Home Assistant, the clock and the consent polling loop
ConsentStep ==
  /\ \/ SwitchOn \/ SwitchOff \/ CreateOrDeleteHelper \/ HaRestart \/ HaRestores \/ Tick
     \/ \E r \in Refreshers : HaTurnsOff(r)
     \/ Refresh(Loop)
  /\ withdrawn' = IF IsOff' THEN withdrawn ELSE [c \in Commands |-> "no"]
  /\ UNCHANGED <<phase, deadline, lock, selfSlug, link, box, acted, answer, delivered>>

MaintenanceNext ==
  \/ \E c \in Commands : Receive(c) \/ CommandStep(c) \/ JobEnds(c) \/ OrphanEnds(c)
  \/ LinkChanges \/ AgentStops \/ ConsentStep

MaintenanceSpec == MaintenanceInit /\ [][MaintenanceNext]_allVars

\* A command task runs whenever it can, and each of its calls ends, by a time-out
\* at the latest; the jobs themselves may hang.
MaintenanceFairSpec ==
  MaintenanceSpec /\ \A c \in Commands : WF_allVars(CommandStep(c))

---------------------------------------------------------------------------
(* Safety.                                                                 *)

Starts(c) == c \in acted' /\ c \notin acted

\* A command that is received after the customer switched the helper off is not
\* executed while it stays off, whatever was believed before and whichever refreshes
\* fail or overlap, unless one of them holds an answer from before the withdrawal: its
\* own question is newer (commands.py _execute, "the final decision belongs to the
\* agent").
WithdrawalStopsCommands ==
  [][\A c \in Commands : Starts(c) => withdrawn[c] # "settled"]_allVars

\* At most one command is executing, however the tasks interleave (commands.py
\* execute).
OneExecutes == \A c, d \in Commands : Busy(c) /\ Busy(d) => c = d

\* An answer that says nothing was done is true, and one that reports success
\* follows the end of the job (commands.py docstring).
AnswersAreTrue ==
  \A c \in Commands :
    /\ answer[c] \in {"busy", "expired", "refused"} => c \notin acted
    /\ answer[c] = "success" => c \in acted /\ c \notin box

(* Liveness.                                                               *)

\* A received command comes to its answer, unless the agent stops first.
EveryCommandEnds ==
  \A c \in Commands : (phase[c] = "received") ~> (phase[c] \in {"done", "lost"})

---------------------------------------------------------------------------
(* What the documentation says and the code does not keep.                 *)

\* "No command is ever executed unless the local consent is active" (consent.py
\* docstring): also a guarded one, which waits for self_info() after the gate.
NoJobWithoutConsent == [][\A c \in Commands : Starts(c) => IsActive']_allVars

\* The same where the customer is asked and not the agent: WithdrawalStopsCommands
\* for refreshes that overlap in any way.
NoJobOnceWithdrawn == [][\A c \in Commands : Starts(c) => withdrawn[c] = "no"]_allVars

\* "Refuse to act on this very add-on" (commands.py _guard_self).
NeverItself == Own \cap acted = {}

\* "always answers exactly one command_result" (commands.py docstring): a command
\* that was executed to its end has its result sent.
DoneIsReported == \A c \in Commands : phase[c] = "done" => c \in delivered

=============================================================================

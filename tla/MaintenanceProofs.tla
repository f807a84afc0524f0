------------------------- MODULE MaintenanceProofs -------------------------
(***************************************************************************)
(* Theorems about Maintenance, for every set of commands: composing the    *)
(* executor with the consent manager leaves the consent manager what it    *)
(* is, the lock is exclusive, the answers say the truth, and a withdrawal  *)
(* stops the commands that come after it.                                  *)
(***************************************************************************)
EXTENDS Maintenance, ConsentProofs

USE MaintenanceAssumption DEF MaintenanceAssumption

---------------------------------------------------------------------------
(* Every step of the composition is a step of the consent manager, or none. *)

LEMMA ConsentStepOrNone == [MaintenanceNext]_allVars => [Next]_consentVars
<1> SUFFICES ASSUME [MaintenanceNext]_allVars PROVE [Next]_consentVars
  OBVIOUS
<1>1. CASE UNCHANGED allVars
  BY <1>1 DEF allVars
<1>2. ASSUME NEW c \in Commands,
             Receive(c) \/ CommandStep(c) \/ JobEnds(c) \/ OrphanEnds(c)
      PROVE  [Next]_consentVars
  <2>1. c \in Refreshers
    OBVIOUS
  <2>2. CASE \/ Receive(c) \/ RejectBusy(c) \/ RejectExpired(c) \/ SelfInfoReturns(c)
             \/ GuardTimesOut(c) \/ CallEnds(c) \/ JobEnds(c) \/ OrphanEnds(c)
    BY <2>2 DEF Receive, RejectBusy, RejectExpired, SelfInfoReturns, GuardTimesOut, CallEnds,
       JobEnds, OrphanEnds
  <2>3. CASE Begin(c)
    BY <2>1, <2>3 DEF Begin, Refresh, Next
  <2>4. CASE RefreshGoesOn(c) \/ GateRefuses(c) \/ GatePasses(c) \/ GatePassesToGuard(c)
    BY <2>1, <2>4 DEF RefreshGoesOn, GateRefuses, GatePasses, GatePassesToGuard,
       Refreshing, Refresh, Next
  <2> QED
    BY <1>2, <2>2, <2>3, <2>4 DEF CommandStep
<1>3. CASE LinkChanges
  BY <1>3 DEF LinkChanges
<1>4. CASE AgentStops
  BY <1>4 DEF AgentStops, Next, Environment
<1>5. CASE ConsentStep
  BY <1>5 DEF ConsentStep, Next, Environment
<1> QED
  BY <1>1, <1>2, <1>3, <1>4, <1>5 DEF MaintenanceNext

\* With commands that refresh it, the consent manager still behaves as Consent
\* says, so all that is proved of Consent holds here (consent.py, commands.py).
THEOREM ImplementsConsent == MaintenanceSpec => Spec
<1>1. MaintenanceInit => Init
  BY DEF MaintenanceInit
<1>2. [MaintenanceNext]_allVars => [Next]_consentVars
  BY ConsentStepOrNone
<1> QED
  BY <1>1, <1>2, PTL DEF MaintenanceSpec, Spec

\* An active consent is backed by /data while commands are executed, too.
THEOREM BackedInMaintenance == MaintenanceSpec => []ActiveIsBacked
  BY ImplementsConsent, Backed, PTL

\* A command that refreshes the consent before it acts resumes the lease and
\* renews nothing, whatever the other commands and the polling loop do.
THEOREM LeaseInMaintenance == MaintenanceSpec => IsALease
  BY ImplementsConsent, ConsentIsALease, PTL

\* No command lengthens a window in force by asking for it again.
THEOREM EndStaysInMaintenance == MaintenanceSpec => NeverExtended
  BY ImplementsConsent, EndStays, PTL

\* The tunnel may take the consent for its view of it while commands refresh, too.
THEOREM SeenAsViewInMaintenance == MaintenanceSpec => SeenAsView
  BY ImplementsConsent, ConsentIsSeenAsView, PTL

---------------------------------------------------------------------------
(* Type correctness and the lock.                                          *)

\* The part of the type invariant that Maintenance adds.
OwnTypeOK ==
  /\ phase \in [Commands -> Phases]
  /\ deadline \in [Commands -> Times]
  /\ lock \in Commands \cup {Nobody}
  /\ selfSlug \in {"unasked", "known", "empty"}
  /\ link \in BOOLEAN
  /\ box \subseteq Commands
  /\ acted \subseteq Commands
  /\ answer \in [Commands -> Answers]
  /\ delivered \subseteq Commands
  /\ withdrawn \in [Commands -> Withdrawals]

LockInv == \A c \in Commands : lock = c <=> Busy(c)

\* What a command that ends does to the types and to the lock.
LEMMA FinishType ==
  ASSUME OwnTypeOK, LockInv, NEW c \in Commands, NEW a \in Answers, Finish(c, a)
  PROVE  /\ phase' \in [Commands -> Phases]
         /\ lock' \in Commands \cup {Nobody}
         /\ answer' \in [Commands -> Answers]
         /\ delivered' \subseteq Commands
         /\ withdrawn' \in [Commands -> Withdrawals]
         /\ LockInv'
<1>1. /\ phase' = [phase EXCEPT ![c] = "done"]
      /\ lock' = IF lock = c THEN Nobody ELSE lock
  BY DEF Finish
<1>2. phase \in [Commands -> Phases]
  BY DEF OwnTypeOK
<1>3. ASSUME NEW d \in Commands PROVE lock' = d <=> Busy(d)'
  BY <1>1, <1>2, <1>3 DEF LockInv, Busy
<1>4. LockInv'
  BY <1>3 DEF LockInv
<1> QED
  BY <1>1, <1>2, <1>4 DEF Finish, OwnTypeOK, Phases, Withdrawals

\* What a command that starts its job does to them.
LEMMA StartJobType ==
  ASSUME OwnTypeOK, LockInv, NEW c \in Commands, Busy(c), StartJob(c)
  PROVE  /\ phase' \in [Commands -> Phases]
         /\ box' \subseteq Commands /\ acted' \subseteq Commands
         /\ withdrawn' \in [Commands -> Withdrawals]
         /\ LockInv'
<1>1. phase' = [phase EXCEPT ![c] = "calling"] /\ lock' = lock
  BY DEF StartJob
<1>2. phase \in [Commands -> Phases]
  BY DEF OwnTypeOK
<1>3. ASSUME NEW d \in Commands PROVE lock' = d <=> Busy(d)'
  BY <1>1, <1>2, <1>3 DEF LockInv, Busy
<1> QED
  BY <1>1, <1>2, <1>3 DEF StartJob, OwnTypeOK, Phases, Withdrawals, LockInv

LEMMA OwnTypeStep == OwnTypeOK /\ LockInv /\ [MaintenanceNext]_allVars => OwnTypeOK' /\ LockInv'
<1> SUFFICES ASSUME OwnTypeOK, LockInv, [MaintenanceNext]_allVars
             PROVE  OwnTypeOK' /\ LockInv'
  OBVIOUS
<1> phase \in [Commands -> Phases]
  BY DEF OwnTypeOK
<1> {"busy", "expired", "refused", "success", "failed", "timeout"} \subseteq Answers
  BY DEF Answers
<1>1. CASE UNCHANGED maintVars
  BY <1>1 DEF maintVars, OwnTypeOK, LockInv, Busy
<1>2. ASSUME NEW c \in Commands,
             Receive(c) \/ CommandStep(c) \/ JobEnds(c) \/ OrphanEnds(c)
      PROVE  OwnTypeOK' /\ LockInv'
  <2>1. CASE Receive(c)
    <3>1. phase' = [phase EXCEPT ![c] = "received"] /\ phase[c] = "unsent" /\ lock' = lock
      BY <2>1 DEF Receive
    <3>2. ASSUME NEW d \in Commands PROVE lock' = d <=> Busy(d)'
      BY <3>1 DEF LockInv, Busy
    <3>3. withdrawn' \in [Commands -> Withdrawals]
      BY <2>1 DEF Receive, OwnTypeOK, Withdrawals
    <3> QED
      BY <2>1, <3>1, <3>2, <3>3 DEF Receive, OwnTypeOK, Phases, LockInv
  <2>2. CASE RejectBusy(c)
    BY <2>2, FinishType DEF RejectBusy, OwnTypeOK
  <2>3. CASE RejectExpired(c)
    BY <2>3, FinishType DEF RejectExpired, OwnTypeOK
  <2>4. CASE Begin(c)
    <3>1. /\ phase' = [phase EXCEPT ![c] = "gate"] /\ lock' = c /\ lock = Nobody
      BY <2>4 DEF Begin
    <3>2. ASSUME NEW d \in Commands PROVE lock' = d <=> Busy(d)'
      BY <3>1 DEF LockInv, Busy
    <3> QED
      BY <2>4, <3>1, <3>2 DEF Begin, OwnTypeOK, Phases, LockInv
  <2>5. CASE RefreshGoesOn(c)
    BY <2>5, <1>1 DEF RefreshGoesOn
  <2>6. CASE GateRefuses(c)
    BY <2>6, FinishType DEF GateRefuses, OwnTypeOK
  <2>7. ASSUME Busy(c), GuardedJob(c) \/ StartJob(c) \/ Reject(c),
               selfSlug' \in {"unasked", "known", "empty"}, UNCHANGED <<deadline, link>>
        PROVE  OwnTypeOK' /\ LockInv'
    <3>1. CASE StartJob(c)
      BY <2>7, <3>1, StartJobType DEF StartJob, OwnTypeOK
    <3>2. CASE Reject(c)
      BY <2>7, <3>2, FinishType DEF Reject, OwnTypeOK
    <3> QED
      BY <2>7, <3>1, <3>2 DEF GuardedJob
  <2>8. CASE GatePasses(c)
    BY <2>8, <2>7 DEF GatePasses, Refreshing, Busy, OwnTypeOK
  <2>9. CASE GatePassesToGuard(c)
    <3>1. phase' = [phase EXCEPT ![c] = "guard"] /\ phase[c] = "gate" /\ lock' = lock
      BY <2>9 DEF GatePassesToGuard, Refreshing
    <3>2. ASSUME NEW d \in Commands PROVE lock' = d <=> Busy(d)'
      BY <3>1 DEF LockInv, Busy
    <3> QED
      BY <2>9, <3>1, <3>2 DEF GatePassesToGuard, OwnTypeOK, Phases, LockInv
  <2>10. CASE SelfInfoReturns(c)
    BY <2>10, <2>7 DEF SelfInfoReturns, Busy
  <2>11. CASE CallEnds(c) \/ GuardTimesOut(c)
    BY <2>11, FinishType DEF CallEnds, GuardTimesOut, OwnTypeOK
  <2>12. CASE JobEnds(c)
    BY <2>12, FinishType DEF JobEnds, OwnTypeOK
  <2>13. CASE OrphanEnds(c)
    BY <2>13 DEF OrphanEnds, OwnTypeOK, LockInv, Busy
  <2> QED
    BY <1>2, <2>1, <2>2, <2>3, <2>4, <2>5, <2>6, <2>8, <2>9, <2>10, <2>11, <2>12, <2>13
    DEF CommandStep
<1>3. CASE LinkChanges
  BY <1>3 DEF LinkChanges, OwnTypeOK, LockInv, Busy
<1>4. CASE AgentStops
  <2>1. /\ phase' = [c \in Commands |-> IF Busy(c) \/ phase[c] = "received"
                                        THEN "lost" ELSE phase[c]]
        /\ lock' = Nobody
    BY <1>4 DEF AgentStops
  <2>2. ASSUME NEW d \in Commands PROVE ~Busy(d)'
    BY <2>1, <2>2 DEF Busy
  <2>3. phase' \in [Commands -> Phases]
    BY <2>1 DEF Phases
  <2> QED
    BY <1>4, <2>1, <2>2, <2>3 DEF AgentStops, OwnTypeOK, LockInv, Withdrawals
<1>5. CASE ConsentStep
  <2>1. withdrawn' \in [Commands -> Withdrawals]
    BY <1>5 DEF ConsentStep, OwnTypeOK, Withdrawals
  <2> QED
    BY <1>5, <2>1 DEF ConsentStep, OwnTypeOK, LockInv, Busy
<1> QED
  BY <1>1, <1>2, <1>3, <1>4, <1>5 DEF MaintenanceNext, allVars

\* The variables keep their types, and the lock belongs to the command that is
\* executing (commands.py execute).
THEOREM MaintenanceTypeCorrect == MaintenanceSpec => []MaintenanceTypeOK
<1>1. MaintenanceInit => OwnTypeOK /\ LockInv
  <2> SUFFICES ASSUME MaintenanceInit PROVE OwnTypeOK /\ LockInv
    OBVIOUS
  <2>1. 0 \in Times
    BY ConsentAssumption DEF ConsentAssumption, Times
  <2>2. OwnTypeOK
    BY <2>1 DEF MaintenanceInit, OwnTypeOK, Phases, Answers, Withdrawals
  <2>3. LockInv
    BY DEF MaintenanceInit, LockInv, Busy
  <2> QED
    BY <2>2, <2>3
<1>2. OwnTypeOK /\ LockInv /\ [MaintenanceNext]_allVars => (OwnTypeOK /\ LockInv)'
  BY OwnTypeStep
<1>3. TypeOK /\ OwnTypeOK /\ LockInv => MaintenanceTypeOK
  BY DEF OwnTypeOK, LockInv, MaintenanceTypeOK
<1> QED
  BY <1>1, <1>2, <1>3, ImplementsConsent, TypeCorrect, PTL DEF MaintenanceSpec

\* At most one command executes (commands.py execute, CHANGELOG.md 0.5.0).
THEOREM Exclusive == MaintenanceSpec => []OneExecutes
<1>1. MaintenanceTypeOK => OneExecutes
  BY DEF MaintenanceTypeOK, OneExecutes
<1> QED
  BY <1>1, MaintenanceTypeCorrect, PTL

---------------------------------------------------------------------------
(* The gate and the answers.                                               *)

\* What holds of each command: how its phase, the history of its job, the job
\* itself and its answer go together.  The phase decides what may follow, so the
\* truth of the answers is inductive only with it.
CommandOK(c) ==
  /\ phase[c] = "guard" => c \in Guarded
  /\ phase[c] \in {"unsent", "received", "gate", "guard"} => c \notin acted
  /\ phase[c] = "calling" => c \in acted
  /\ answer[c] # "none" => phase[c] = "done"
  /\ answer[c] \in {"busy", "expired", "refused"} => c \notin acted
  /\ answer[c] = "success" => c \in acted /\ c \notin box

CommandInv == \A c \in Commands : CommandOK(c)

\* Of a command that keeps its phase, its answer and its job, all this stays true.
LEMMA OthersUntouched ==
  ASSUME NEW c \in Commands, CommandOK(c), phase'[c] = phase[c], answer'[c] = answer[c],
         c \in acted' <=> c \in acted, c \in box' => c \in box
  PROVE  CommandOK(c)'
BY DEF CommandOK

\* An answer ends a command.
LEMMA FinishOK ==
  ASSUME MaintenanceTypeOK, CommandInv, NEW c \in Commands, NEW a, Finish(c, a),
         a \in {"busy", "expired", "refused"} => c \notin acted,
         a = "success" => c \in acted /\ c \notin box',
         acted' = acted, box' \subseteq box
  PROVE  CommandInv'
<1>1. /\ phase' = [phase EXCEPT ![c] = "done"]
      /\ answer' = [answer EXCEPT ![c] = a]
  BY DEF Finish
<1>2. phase \in [Commands -> Phases] /\ answer \in [Commands -> Answers]
  BY DEF MaintenanceTypeOK
<1>3. CommandOK(c)'
  BY <1>1, <1>2 DEF CommandOK
<1>4. ASSUME NEW d \in Commands, d # c PROVE CommandOK(d)'
  BY <1>1, <1>2, <1>4, OthersUntouched DEF CommandInv
<1> QED
  BY <1>3, <1>4 DEF CommandInv

\* A command between the gate and the call starts its job.
LEMMA StartJobOK ==
  ASSUME MaintenanceTypeOK, CommandInv, NEW c \in Commands, Busy(c), StartJob(c)
  PROVE  CommandInv'
<1>1. /\ phase' = [phase EXCEPT ![c] = "calling"] /\ answer' = answer
      /\ acted' = acted \cup {c} /\ box' = box \cup {c}
  BY DEF StartJob
<1>2. phase \in [Commands -> Phases]
  BY DEF MaintenanceTypeOK
<1>3. CommandOK(c)'
  BY <1>1, <1>2 DEF CommandOK, CommandInv, Busy
<1>4. ASSUME NEW d \in Commands, d # c PROVE CommandOK(d)'
  BY <1>1, <1>2, <1>4, OthersUntouched DEF CommandInv
<1> QED
  BY <1>3, <1>4 DEF CommandInv

\* A command that goes on towards its call takes nothing with it.
LEMMA MovesOn ==
  ASSUME MaintenanceTypeOK, CommandInv, NEW c \in Commands, NEW p,
         phase[c] \in {"unsent", "received", "gate"},
         p \in {"received", "gate"},
         phase' = [phase EXCEPT ![c] = p], UNCHANGED <<acted, box, answer>>
  PROVE  CommandInv'
<1>1. phase \in [Commands -> Phases]
  BY DEF MaintenanceTypeOK
<1>2. CommandOK(c)'
  BY <1>1 DEF CommandOK, CommandInv
<1>3. ASSUME NEW d \in Commands, d # c PROVE CommandOK(d)'
  BY <1>1, <1>3, OthersUntouched DEF CommandInv
<1> QED
  BY <1>2, <1>3 DEF CommandInv

LEMMA CommandStepOK ==
  MaintenanceTypeOK /\ CommandInv /\ [MaintenanceNext]_allVars => CommandInv'
<1> SUFFICES ASSUME MaintenanceTypeOK, CommandInv, [MaintenanceNext]_allVars
             PROVE  CommandInv'
  OBVIOUS
<1>1. CASE UNCHANGED maintVars
  BY <1>1 DEF maintVars, CommandInv, CommandOK
<1>2. ASSUME NEW c \in Commands,
             Receive(c) \/ CommandStep(c) \/ JobEnds(c) \/ OrphanEnds(c)
      PROVE  CommandInv'
  <2>1. CASE Receive(c)
    BY <2>1, MovesOn DEF Receive
  <2>2. CASE RejectBusy(c)
    BY <2>2, FinishOK DEF RejectBusy, CommandInv, CommandOK
  <2>3. CASE RejectExpired(c)
    BY <2>3, FinishOK DEF RejectExpired, CommandInv, CommandOK
  <2>4. CASE Begin(c)
    BY <2>4, MovesOn DEF Begin
  <2>5. CASE RefreshGoesOn(c)
    BY <2>5, <1>1 DEF RefreshGoesOn
  <2>6. CASE GateRefuses(c)
    BY <2>6, FinishOK DEF GateRefuses, Refreshing, CommandInv, CommandOK
  <2>7. ASSUME Busy(c), GuardedJob(c) \/ Reject(c) PROVE CommandInv'
    BY <2>7, FinishOK, StartJobOK DEF GuardedJob, Reject
  <2>8. CASE GatePasses(c)
    <3>1. Busy(c)
      BY <2>8 DEF GatePasses, Refreshing, Busy
    <3>2. CASE StartJob(c)
      BY <3>1, <3>2, StartJobOK
    <3>3. CASE GuardedJob(c) \/ Reject(c)
      BY <3>1, <3>3, <2>7
    <3> QED
      BY <2>8, <3>2, <3>3 DEF GatePasses
  <2>9. CASE GatePassesToGuard(c)
    <3>1. /\ phase[c] = "gate" /\ c \in Guarded
          /\ phase' = [phase EXCEPT ![c] = "guard"] /\ UNCHANGED <<acted, box, answer>>
      BY <2>9 DEF GatePassesToGuard, Refreshing
    <3>2. phase \in [Commands -> Phases]
      BY DEF MaintenanceTypeOK
    <3>3. CommandOK(c)'
      BY <3>1, <3>2 DEF CommandInv, CommandOK
    <3>4. ASSUME NEW d \in Commands, d # c PROVE CommandOK(d)'
      BY <3>1, <3>2, <3>4, OthersUntouched DEF CommandInv
    <3> QED
      BY <3>3, <3>4 DEF CommandInv
  <2>10. CASE SelfInfoReturns(c)
    BY <2>10, <2>7 DEF SelfInfoReturns, Busy
  <2>11. CASE CallEnds(c) \/ GuardTimesOut(c)
    <3>1. PICK a \in {"timeout", "failed"} : Finish(c, a)
      BY <2>11 DEF CallEnds, GuardTimesOut
    <3> QED
      BY <2>11, <3>1, FinishOK DEF CallEnds, GuardTimesOut
  <2>12. CASE JobEnds(c)
    <3>1. PICK a \in {"success", "failed"} : Finish(c, a)
      BY <2>12 DEF JobEnds
    <3>2. c \in acted /\ c \notin box' /\ acted' = acted /\ box' \subseteq box
      BY <2>12 DEF JobEnds, CommandInv, CommandOK
    <3> QED
      BY <3>1, <3>2, FinishOK
  <2>13. CASE OrphanEnds(c)
    <3>1. box' \subseteq box /\ UNCHANGED <<phase, acted, answer>>
      BY <2>13 DEF OrphanEnds
    <3>2. ASSUME NEW d \in Commands PROVE CommandOK(d)'
      BY <3>1, OthersUntouched DEF CommandInv
    <3> QED
      BY <3>2 DEF CommandInv
  <2> QED
    BY <1>2, <2>1, <2>2, <2>3, <2>4, <2>5, <2>6, <2>8, <2>9, <2>10, <2>11, <2>12, <2>13
    DEF CommandStep
<1>3. CASE LinkChanges
  BY <1>3, OthersUntouched DEF LinkChanges, CommandInv
<1>4. CASE AgentStops
  <2>1. /\ phase' = [c \in Commands |-> IF Busy(c) \/ phase[c] = "received"
                                        THEN "lost" ELSE phase[c]]
        /\ UNCHANGED <<box, acted, answer>>
    BY <1>4 DEF AgentStops
  <2>2. ASSUME NEW c \in Commands PROVE CommandOK(c)'
    <3>1. CASE phase'[c] = phase[c]
      BY <2>1, <3>1, OthersUntouched DEF CommandInv
    <3>2. CASE phase'[c] = "lost" /\ phase[c] # "done"
      BY <2>1, <3>2 DEF CommandInv, CommandOK
    <3> QED
      BY <2>1, <3>1, <3>2 DEF Busy
  <2> QED
    BY <2>2 DEF CommandInv
<1>5. CASE ConsentStep
  BY <1>5 DEF ConsentStep, CommandInv, CommandOK
<1> QED
  BY <1>1, <1>2, <1>3, <1>4, <1>5 DEF MaintenanceNext, allVars

LEMMA CommandInvariant == MaintenanceSpec => []CommandInv
<1>1. MaintenanceInit => CommandInv
  BY DEF MaintenanceInit, CommandInv, CommandOK
<1>2. MaintenanceTypeOK /\ CommandInv /\ [MaintenanceNext]_allVars => CommandInv'
  BY CommandStepOK
<1> QED
  BY <1>1, <1>2, MaintenanceTypeCorrect, PTL DEF MaintenanceSpec

\* "Busy", "expired" and "refused" are answered only if nothing was started, and
\* success only of a job that ended (commands.py docstring, _result).
THEOREM Truthful == MaintenanceSpec => []AnswersAreTrue
<1>1. CommandInv => AnswersAreTrue
  BY DEF CommandInv, CommandOK, AnswersAreTrue
<1> QED
  BY <1>1, CommandInvariant, PTL

---------------------------------------------------------------------------
(* The withdrawal.                                                         *)

\* The helper is off, and everybody who has asked for it has been told so.
AllOff ==
  /\ helper = "off" /\ loaded = TRUE
  /\ \A r \in Refreshers : pc[r] = "reading" => reply[r].state = "off"

\* As long as the withdrawal stands, a command that came after it can learn only
\* that the helper is off, and what it learned no other refresh takes back.
SettledOK(c) ==
  withdrawn[c] = "settled" =>
    /\ AllOff
    /\ phase[c] \in {"received", "gate"}
    /\ phase[c] = "gate" => pc[c] = "reading" \/ (pc[c] = "notifying" /\ ~status.enabled)

SettledInv == \A c \in Commands : SettledOK(c)

\* With all answers off a refresh can install nothing that enables.
LEMMA AllOffRefresh ==
  ASSUME TypeOK, AllOff, NEW r \in Refreshers, Refresh(r)
  PROVE  /\ AllOff'
         /\ status' = status \/ ~status'.enabled
         /\ \A q \in Refreshers : q # r => pc'[q] = pc[q]
         /\ pc[r] = "idle" => pc'[r] = "reading"
         /\ pc[r] = "reading" => ~status'.enabled /\ pc'[r] \in {"idle", "notifying"}
         /\ pc[r] = "notifying" => status' = status /\ pc'[r] = "idle"
<1> pc \in [Refreshers -> {"idle", "reading", "turningOff", "turnedOff", "notifying"}]
    /\ reply \in [Refreshers -> Replies]
  BY DEF TypeOK
<1>0. UNCHANGED <<helper, loaded>>
  BY DEF Refresh, Decide, StartRead, ReadFails, ReadOff, ReadOn, ReadExpired, OpenWindow,
     OptionOff, OptionOn, TurnOffReturns, Notified, haVars
<1>1. CASE StartRead(r)
  <2>1. PICK a \in HaAnswers : reply' = [reply EXCEPT ![r] = a]
    BY <1>1 DEF StartRead
  <2>2. a.state = "off"
    BY DEF AllOff, HaAnswers
  <2>3. pc[r] = "idle" /\ pc' = [pc EXCEPT ![r] = "reading"] /\ status' = status
    BY <1>1 DEF StartRead
  <2> QED
    BY <1>0, <2>1, <2>2, <2>3 DEF AllOff
<1>2. CASE ReadFails(r) \/ ReadOff(r)
  <2>1. /\ pc[r] = "reading" /\ ~status'.enabled
        /\ pc' = [pc EXCEPT ![r] = "idle"] \/ pc' = [pc EXCEPT ![r] = "notifying"]
        /\ reply' = [reply EXCEPT ![r] = NoReply]
    BY <1>2 DEF ReadFails, ReadOff, Arrived, Commit, Disabled
  <2> QED
    BY <1>0, <2>1 DEF AllOff
<1>3. CASE TurnOffReturns(r)
  <2>1. /\ pc[r] \in {"turningOff", "turnedOff"} /\ ~status'.enabled /\ reply' = reply
        /\ pc' = [pc EXCEPT ![r] = "idle"] \/ pc' = [pc EXCEPT ![r] = "notifying"]
    BY <1>3 DEF TurnOffReturns, Commit, Disabled
  <2> QED
    BY <1>0, <2>1 DEF AllOff
<1>4. CASE Notified(r)
  <2>1. /\ pc[r] = "notifying" /\ pc' = [pc EXCEPT ![r] = "idle"]
        /\ reply' = reply /\ status' = status
    BY <1>4 DEF Notified
  <2> QED
    BY <1>0, <2>1 DEF AllOff
<1>5. ~ReadOn(r) /\ ~ReadExpired(r) /\ ~OptionOff(r) /\ ~OptionOn(r)
  BY DEF ReadOn, ReadExpired, OpenWindow, OptionOff, OptionOn, Arrived, AllOff
<1> QED
  BY <1>1, <1>2, <1>3, <1>4, <1>5 DEF Refresh, Decide

\* So the gate is closed to a command that came after the withdrawal.
LEMMA GateClosed ==
  ASSUME TypeOK, NEW c \in Commands, SettledOK(c), withdrawn[c] = "settled", Refreshing(c)
  PROVE  ~GateOpen(c)
<1>1. Refresh(c) /\ phase[c] = "gate"
  BY DEF Refreshing, Refresh
<1>2. pc[c] = "reading" \/ (pc[c] = "notifying" /\ ~status.enabled)
  BY <1>1 DEF SettledOK
<1>3. ~status'.enabled
  BY <1>1, <1>2, AllOffRefresh DEF SettledOK
<1> QED
  BY <1>3 DEF GateOpen, IsActive, ActiveAt

\* A step of somebody else's refresh leaves a command that came after it where it is.
LEMMA SettledBesides ==
  ASSUME TypeOK, NEW r \in Refreshers, Refresh(r), NEW c \in Commands, c # r, SettledOK(c),
         phase'[c] = phase[c], withdrawn'[c] \in {"no", withdrawn[c]}
  PROVE  SettledOK(c)'
<1> SUFFICES ASSUME withdrawn'[c] = "settled"
             PROVE  /\ AllOff' /\ phase'[c] \in {"received", "gate"}
                    /\ phase'[c] = "gate" =>
                         pc'[c] = "reading" \/ (pc'[c] = "notifying" /\ ~status'.enabled)
  BY DEF SettledOK
<1>1. withdrawn[c] = "settled" /\ AllOff
  BY DEF SettledOK
<1>2. /\ AllOff' /\ pc'[c] = pc[c]
      /\ status' = status \/ ~status'.enabled
  BY <1>1, AllOffRefresh
<1> QED
  BY <1>1, <1>2 DEF SettledOK

\* Of a command that keeps its place, while nothing moves that it depends on.
LEMMA SettledUntouched ==
  ASSUME NEW c \in Commands, SettledOK(c), UNCHANGED <<helper, loaded, status, pc, reply>>,
         phase'[c] = phase[c], withdrawn'[c] \in {"no", withdrawn[c]}
  PROVE  SettledOK(c)'
BY DEF SettledOK, AllOff

\* A command whose mark is reset.
LEMMA NotSettled ==
  ASSUME NEW c \in Commands, withdrawn'[c] # "settled"
  PROVE  SettledOK(c)'
BY DEF SettledOK

\* What a step of a command's own refresh does to all of them.
LEMMA SettledOwnRefresh ==
  ASSUME MaintenanceTypeOK, SettledInv, NEW c \in Commands, Refresh(c),
         SettledOK(c)',
         \A d \in Commands : d # c => phase'[d] = phase[d] /\ withdrawn'[d] = withdrawn[d]
  PROVE  SettledInv'
<1>1. ASSUME NEW d \in Commands, d # c PROVE SettledOK(d)'
  BY <1>1, SettledBesides DEF MaintenanceTypeOK, SettledInv
<1> QED
  BY <1>1 DEF SettledInv

\* What the end of a command, or the start of its job, leaves of the others.
LEMMA MarkReset ==
  ASSUME MaintenanceTypeOK, NEW c \in Commands,
         (\E a : Finish(c, a)) \/ StartJob(c)
  PROVE  /\ withdrawn'[c] = "no"
         /\ \A d \in Commands : d # c => phase'[d] = phase[d] /\ withdrawn'[d] = withdrawn[d]
BY DEF MaintenanceTypeOK, Finish, StartJob

LEMMA SettledCommandStep ==
  ASSUME MaintenanceTypeOK, SettledInv, NEW c \in Commands,
         Receive(c) \/ CommandStep(c) \/ JobEnds(c) \/ OrphanEnds(c)
  PROVE  SettledInv'
<1> /\ phase \in [Commands -> Phases] /\ withdrawn \in [Commands -> Withdrawals]
    /\ TypeOK /\ c \in Refreshers
  BY DEF MaintenanceTypeOK
<1>1. CASE Receive(c)
  <2>1. /\ UNCHANGED <<helper, loaded, status, pc, reply>>
        /\ phase' = [phase EXCEPT ![c] = "received"]
        /\ withdrawn' = [withdrawn EXCEPT ![c] =
             IF ~IsOff THEN "no" ELSE IF NobodyHoldsOlder THEN "settled" ELSE "racing"]
    BY <1>1 DEF Receive, consentVars
  <2>2. SettledOK(c)'
    <3>1. withdrawn'[c] = "settled" => IsOff /\ NobodyHoldsOlder
      BY <2>1
    <3>2. IsOff /\ NobodyHoldsOlder => AllOff
      BY DEF IsOff, NobodyHoldsOlder, AllOff, TypeOK
    <3>3. AllOff => AllOff'
      BY <2>1 DEF AllOff
    <3> QED
      BY <2>1, <3>1, <3>2, <3>3 DEF SettledOK
  <2>3. ASSUME NEW d \in Commands, d # c PROVE SettledOK(d)'
    BY <2>1, <2>3, SettledUntouched DEF SettledInv
  <2> QED
    BY <2>2, <2>3 DEF SettledInv
<1>2. CASE \/ RejectBusy(c) \/ RejectExpired(c) \/ SelfInfoReturns(c) \/ GuardTimesOut(c)
           \/ CallEnds(c) \/ JobEnds(c)
  <2>1. UNCHANGED <<helper, loaded, status, pc, reply>> /\ ((\E a : Finish(c, a)) \/ StartJob(c))
    BY <1>2 DEF RejectBusy, RejectExpired, SelfInfoReturns, GuardTimesOut, CallEnds, JobEnds,
       GuardedJob, Reject, consentVars
  <2>2. SettledOK(c)'
    BY <2>1, MarkReset, NotSettled
  <2>3. ASSUME NEW d \in Commands, d # c PROVE SettledOK(d)'
    BY <2>1, <2>3, MarkReset, SettledUntouched DEF SettledInv
  <2> QED
    BY <2>2, <2>3 DEF SettledInv
<1>3. CASE OrphanEnds(c)
  BY <1>3, SettledUntouched DEF OrphanEnds, consentVars, SettledInv
<1>4. CASE Begin(c)
  <2>1. /\ StartRead(c) /\ Refresh(c) /\ withdrawn' = withdrawn
        /\ phase' = [phase EXCEPT ![c] = "gate"]
    BY <1>4 DEF Begin, Refresh
  <2>2. pc[c] = "idle"
    BY <2>1 DEF StartRead
  <2>3. SettledOK(c)'
    <3>1. withdrawn[c] = "settled" => AllOff' /\ pc'[c] = "reading"
      BY <2>1, <2>2, AllOffRefresh DEF SettledInv, SettledOK
    <3> QED
      BY <2>1, <3>1 DEF SettledOK
  <2> QED
    BY <2>1, <2>3, SettledOwnRefresh
<1>5. CASE GateRefuses(c) \/ GatePasses(c)
  <2>1. Refresh(c) /\ ((\E a : Finish(c, a)) \/ StartJob(c))
    BY <1>5 DEF GateRefuses, GatePasses, GuardedJob, Reject, Refreshing, Refresh
  <2> QED
    BY <2>1, MarkReset, NotSettled, SettledOwnRefresh
<1>6. CASE GatePassesToGuard(c)
  <2>1. /\ Refresh(c) /\ Refreshing(c) /\ GateOpen(c) /\ withdrawn' = withdrawn
        /\ phase' = [phase EXCEPT ![c] = "guard"]
    BY <1>6 DEF GatePassesToGuard, Refreshing, Refresh
  <2>2. withdrawn[c] # "settled"
    BY <2>1, GateClosed DEF SettledInv
  <2> QED
    BY <2>1, <2>2, NotSettled, SettledOwnRefresh
<1>7. CASE RefreshGoesOn(c)
  <2>1. /\ Refresh(c) /\ pc'[c] # "idle" /\ UNCHANGED <<phase, withdrawn>> /\ phase[c] = "gate"
    BY <1>7 DEF RefreshGoesOn, Refreshing, Refresh, maintVars
  <2>2. SettledOK(c)'
    <3>1. ASSUME withdrawn[c] = "settled"
          PROVE  AllOff' /\ pc'[c] = "notifying" /\ ~status'.enabled
      <4>1. pc[c] = "reading" \/ pc[c] = "notifying"
        BY <2>1, <3>1 DEF SettledInv, SettledOK
      <4>2. AllOff
        BY <3>1 DEF SettledInv, SettledOK
      <4> QED
        BY <2>1, <4>1, <4>2, AllOffRefresh
    <3> QED
      BY <2>1, <3>1 DEF SettledOK
  <2> QED
    BY <2>1, <2>2, SettledOwnRefresh
<1> QED
  BY <1>1, <1>2, <1>3, <1>4, <1>5, <1>6, <1>7 DEF CommandStep

LEMMA SettledStep ==
  MaintenanceTypeOK /\ SettledInv /\ [MaintenanceNext]_allVars => SettledInv'
<1> SUFFICES ASSUME MaintenanceTypeOK, SettledInv, [MaintenanceNext]_allVars PROVE SettledInv'
  OBVIOUS
<1> /\ withdrawn \in [Commands -> Withdrawals] /\ TypeOK
  BY DEF MaintenanceTypeOK
<1>1. CASE UNCHANGED allVars
  BY <1>1, SettledUntouched DEF allVars, consentVars, maintVars, SettledInv
<1>2. CASE LinkChanges
  BY <1>2, SettledUntouched DEF LinkChanges, consentVars, SettledInv
<1>3. CASE AgentStops
  BY <1>3, NotSettled DEF AgentStops, SettledInv
<1>4. ASSUME ConsentStep, NEW c \in Commands PROVE SettledOK(c)'
  <2>1. /\ phase' = phase
        /\ withdrawn' = IF IsOff' THEN withdrawn ELSE [d \in Commands |-> "no"]
    BY <1>4 DEF ConsentStep
  <2>2. withdrawn'[c] \in {"no", withdrawn[c]}
    BY <2>1
  <2>3. CASE Refresh(Loop)
    BY <2>1, <2>2, <2>3, SettledBesides DEF SettledInv
  <2>4. CASE SwitchOn \/ CreateOrDeleteHelper \/ HaRestart \/ SwitchOff
    <3>1. CASE SwitchOff
      <4>1. ~AllOff
        BY <3>1 DEF SwitchOff, AllOff
      <4> QED
        BY <2>2, <4>1, NotSettled DEF SettledInv, SettledOK
    <3>2. CASE SwitchOn \/ CreateOrDeleteHelper \/ HaRestart
      <4>1. AllOff => ~IsOff'
        BY <3>2 DEF SwitchOn, CreateOrDeleteHelper, HaRestart, AllOff, IsOff
      <4> QED
        BY <2>1, <2>2, <4>1, NotSettled DEF SettledInv, SettledOK
    <3> QED
      BY <2>4, <3>1, <3>2
  <2>5. CASE HaRestores
    <3>1. ~AllOff
      BY <2>5 DEF HaRestores, AllOff
    <3> QED
      BY <2>2, <3>1, NotSettled DEF SettledInv, SettledOK
  <2>6. CASE Tick
    BY <2>1, <2>2, <2>6, SettledUntouched DEF Tick, haVars, SettledInv
  <2>7. ASSUME NEW r \in Refreshers, HaTurnsOff(r) PROVE SettledOK(c)'
    <3>1. CASE withdrawn[c] = "settled"
      <4>1. AllOff /\ SettledOK(c)
        BY <3>1 DEF SettledInv, SettledOK
      <4>2. /\ pc[r] = "turningOff" /\ pc' = [pc EXCEPT ![r] = "turnedOff"]
            /\ UNCHANGED <<helper, loaded, status, reply>>
        BY <2>7, <4>1 DEF HaTurnsOff, AllOff
      <4>3. pc \in [Refreshers -> {"idle", "reading", "turningOff", "turnedOff", "notifying"}]
        BY DEF TypeOK
      <4>4. AllOff'
        BY <4>1, <4>2, <4>3 DEF AllOff
      <4> QED
        BY <2>1, <3>1, <4>1, <4>2, <4>3, <4>4 DEF SettledOK
    <3> QED
      BY <2>2, <3>1, NotSettled
  <2> QED
    BY <1>4, <2>3, <2>4, <2>5, <2>6, <2>7 DEF ConsentStep
<1> QED
  BY <1>1, <1>2, <1>3, <1>4, SettledCommandStep DEF MaintenanceNext, SettledInv

\* Only two actions of a command start its job.
LEMMA WhoStarts ==
  ASSUME [MaintenanceNext]_allVars, NEW c \in Commands, Starts(c)
  PROVE  GatePasses(c) \/ SelfInfoReturns(c)
<1>1. ~UNCHANGED acted
  BY DEF Starts
<1>2. ~UNCHANGED allVars /\ ~UNCHANGED maintVars
  BY <1>1 DEF allVars, maintVars
<1>3. PICK d \in Commands : Receive(d) \/ CommandStep(d) \/ JobEnds(d) \/ OrphanEnds(d)
  BY <1>1, <1>2 DEF MaintenanceNext, LinkChanges, AgentStops, ConsentStep
<1>4. GatePasses(d) \/ SelfInfoReturns(d)
  BY <1>1, <1>2, <1>3 DEF Receive, CommandStep, JobEnds, OrphanEnds, RejectBusy,
     RejectExpired, Begin, RefreshGoesOn, GateRefuses, GatePassesToGuard, GuardTimesOut, CallEnds
<1>5. acted' \in {acted, acted \cup {d}}
  BY <1>4 DEF GatePasses, SelfInfoReturns, GuardedJob, StartJob, Reject
<1>6. c = d
  BY <1>5 DEF Starts
<1> QED
  BY <1>4, <1>6

\* A command received after the customer switched the helper off is not executed while
\* it stays off, for any number of commands and refreshes that fail or overlap, unless
\* one of them still held an older answer (commands.py _execute, consent.py refresh).
THEOREM WithdrawnNotExecuted == MaintenanceSpec => WithdrawalStopsCommands
<1> DEFINE Stops == \A c \in Commands : Starts(c) => withdrawn[c] # "settled"
<1>1. MaintenanceInit => SettledInv
  BY DEF MaintenanceInit, SettledInv, SettledOK
<1>2. ASSUME MaintenanceTypeOK, SettledInv, [MaintenanceNext]_allVars
      PROVE  [Stops]_allVars
  <2> SUFFICES ASSUME NEW c \in Commands, Starts(c), withdrawn[c] = "settled"
               PROVE  FALSE
    OBVIOUS
  <2>1. GatePasses(c) \/ SelfInfoReturns(c)
    BY <1>2, WhoStarts
  <2>2. CASE GatePasses(c)
    BY <1>2, <2>2, GateClosed DEF GatePasses, SettledInv, MaintenanceTypeOK
  <2>3. CASE SelfInfoReturns(c)
    BY <1>2, <2>3 DEF SelfInfoReturns, SettledInv, SettledOK
  <2> QED
    BY <2>1, <2>2, <2>3
<1>3. MaintenanceSpec => [][Stops]_allVars
  BY <1>1, <1>2, SettledStep, MaintenanceTypeCorrect, PTL DEF MaintenanceSpec
<1> QED
  BY <1>3 DEF WithdrawalStopsCommands

=============================================================================

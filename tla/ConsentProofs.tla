--------------------------- MODULE ConsentProofs ---------------------------
(***************************************************************************)
(* Theorems about Consent, for every set of refreshing tasks, window and   *)
(* bound of the clock: type correctness, what /data guarantees about an    *)
(* active consent, the bounds of a window, that its end stays, and the     *)
(* refinement of the lease it promises.                                    *)
(***************************************************************************)
EXTENDS Consent, TLAPS

USE ConsentAssumption DEF ConsentAssumption

---------------------------------------------------------------------------
(* Lemmas about the operators.                                             *)

\* The activation instant of a reply is an instant of the clock.
LEMMA ActivationType ==
  ASSUME TypeOK, NEW lc \in Times \cup {NoTime}
  PROVE  ActivationInstant(lc) \in Times
BY DEF TypeOK, ActivationInstant, Times, NoTime

\* The activation instant is never later than the last_changed of the reply.
LEMMA ActivationNotAfterChange ==
  ASSUME TypeOK, NEW lc \in Times
  PROVE  ActivationInstant(lc) <= lc
BY DEF TypeOK, ActivationInstant, Times, NoTime

\* Whatever Home Assistant answers is a reply.
LEMMA AnswersType ==
  ASSUME TypeOK, NEW answer \in HaAnswers
  PROVE  answer \in Replies
<1>1. PICK s \in HelperStates \cup {"unavailable", "error"}, lc \in Times \cup {NoTime} :
        answer = [state |-> s, lastChanged |-> lc]
  <2>1. CASE loaded
    BY <2>1 DEF TypeOK, HaAnswers
  <2>2. CASE ~loaded
    BY <2>2 DEF HaAnswers, HelperStates
  <2> QED
    BY <2>1, <2>2
<1> QED
  BY <1>1 DEF Replies

\* The two forms of a status are statuses.
LEMMA StatusType ==
  ASSUME NEW t \in Times, NEW src \in {"entity", "option", "unavailable"}
  PROVE  /\ Disabled(src) \in Statuses
         /\ Enabled(t + Window, src) \in Statuses
         /\ t + Window # NoTime
BY DEF Disabled, Enabled, Statuses, Times, NoTime

---------------------------------------------------------------------------
(* Type correctness.                                                       *)

LEMMA TypeInit == Init => TypeOK
<1> SUFFICES ASSUME Init PROVE TypeOK
  OBVIOUS
<1>1. 0 \in Times
  BY DEF Times
<1>2. status \in Statuses /\ ~status.enabled
  BY DEF Init, Disabled, Statuses
<1>3. NoReply \in Replies
  BY DEF NoReply, Replies, HelperStates
<1> QED
  BY <1>1, <1>2, <1>3 DEF Init, TypeOK, HelperStates

\* A refresh that commits a well-formed status keeps the types of what Commit sets.
LEMMA CommitType ==
  ASSUME TypeOK, NEW r \in Refreshers, NEW st \in Statuses,
         st.enabled => st.expires # NoTime, Commit(r, st)
  PROVE  /\ status' \in Statuses
         /\ status'.enabled => status'.expires # NoTime
         /\ pc' \in [Refreshers -> {"idle", "reading", "turningOff", "turnedOff", "notifying"}]
BY DEF TypeOK, Commit

LEMMA TypeStep == TypeOK /\ [Next]_consentVars => TypeOK'
<1> SUFFICES ASSUME TypeOK, [Next]_consentVars PROVE TypeOK'
  OBVIOUS
<1>1. CASE UNCHANGED consentVars
  BY <1>1 DEF TypeOK, consentVars
<1>2. ASSUME NEW r \in Refreshers, Refresh(r) PROVE TypeOK'
  <2> reply[r] \in Replies
    BY DEF TypeOK
  <2>1. CASE StartRead(r)
    <3>1. PICK answer \in HaAnswers : reply' = [reply EXCEPT ![r] = answer]
      BY <2>1 DEF StartRead
    <3>2. reply' \in [Refreshers -> Replies]
      BY <3>1, AnswersType DEF TypeOK
    <3> QED
      BY <2>1, <3>2 DEF StartRead, TypeOK, haVars, histVars
  <2>2. CASE ReadFails(r)
    <3>1. Disabled("unavailable") \in Statuses /\ ~Disabled("unavailable").enabled
      BY DEF Disabled, Statuses
    <3>2. Commit(r, Disabled("unavailable"))
      BY <2>2 DEF ReadFails
    <3> QED
      BY <2>2, <3>1, <3>2, CommitType
      DEF ReadFails, TypeOK, haVars, histVars, Replies, NoReply, HelperStates
  <2>3. CASE ReadOff(r)
    <3>1. Disabled("entity") \in Statuses /\ ~Disabled("entity").enabled
      BY DEF Disabled, Statuses
    <3>2. Commit(r, Disabled("entity"))
      BY <2>3 DEF ReadOff
    <3> QED
      BY <2>3, <3>1, <3>2, CommitType
      DEF ReadOff, Arrived, TypeOK, haVars, histVars, Replies, NoReply, HelperStates
  <2>4. ASSUME OpenWindow(r) PROVE stored' \in Times
    BY <2>4, ActivationType DEF OpenWindow, Replies
  <2>5. CASE ReadOn(r)
    <3>1. OpenWindow(r) /\ Commit(r, Enabled(stored' + Window, "entity"))
      BY <2>5 DEF ReadOn
    <3>2. stored' \in Times
      BY <3>1, <2>4
    <3>3. /\ Enabled(stored' + Window, "entity") \in Statuses
          /\ Enabled(stored' + Window, "entity").expires # NoTime
      BY <3>2, StatusType DEF Enabled
    <3> QED
      BY <3>1, <3>2, <3>3, CommitType
      DEF OpenWindow, Arrived, TypeOK, haVars, Replies, NoReply, HelperStates
  <2>6. CASE ReadExpired(r)
    <3>1. OpenWindow(r)
      BY <2>6 DEF ReadExpired
    <3> QED
      BY <2>6, <3>1, <2>4
      DEF ReadExpired, OpenWindow, Arrived, TypeOK, haVars, Replies, NoReply, HelperStates
  <2>7. CASE TurnOffReturns(r)
    <3>1. Disabled("entity") \in Statuses /\ ~Disabled("entity").enabled
      BY DEF Disabled, Statuses
    <3>2. Commit(r, Disabled("entity"))
      BY <2>7 DEF TurnOffReturns
    <3> QED
      BY <2>7, <3>1, <3>2, CommitType DEF TurnOffReturns, TypeOK, haVars, histVars
  <2>8. CASE OptionOff(r)
    <3>1. Disabled("option") \in Statuses /\ ~Disabled("option").enabled
      BY DEF Disabled, Statuses
    <3>2. Commit(r, Disabled("option"))
      BY <2>8 DEF OptionOff
    <3> QED
      BY <2>8, <3>1, <3>2, CommitType
      DEF OptionOff, Arrived, TypeOK, haVars, histVars, Replies, NoReply, HelperStates
  <2>9. CASE OptionOn(r)
    <3>1. stored' \in Times
      BY <2>9 DEF OptionOn, TypeOK, Times
    <3>2. /\ Enabled(stored' + Window, "option") \in Statuses
          /\ Enabled(stored' + Window, "option").expires # NoTime
          /\ Disabled("option") \in Statuses /\ ~Disabled("option").enabled
      BY <3>1, StatusType DEF Enabled, Disabled
    <3>3. \/ Commit(r, Enabled(stored' + Window, "option"))
          \/ Commit(r, Disabled("option"))
      BY <2>9 DEF OptionOn
    <3>4. /\ status' \in Statuses
          /\ status'.enabled => status'.expires # NoTime
          /\ pc' \in [Refreshers -> {"idle", "reading", "turningOff", "turnedOff", "notifying"}]
      BY <3>2, <3>3, CommitType
    <3>5. optGranted' \in Times \cup {NoTime}
      BY <2>9 DEF OptionOn, TypeOK
    <3> QED
      BY <2>9, <3>1, <3>4, <3>5
      DEF OptionOn, Arrived, TypeOK, haVars, Replies, NoReply, HelperStates
  <2>10. CASE Notified(r)
    BY <2>10 DEF Notified, TypeOK, haVars, histVars
  <2> QED
    BY <1>2, <2>1, <2>2, <2>3, <2>5, <2>6, <2>7, <2>8, <2>9, <2>10 DEF Refresh, Decide
<1>3. CASE Environment
  <2>1. CASE SwitchOn
    BY <2>1 DEF SwitchOn, TypeOK, HelperStates
  <2>2. CASE SwitchOff
    BY <2>2 DEF SwitchOff, TypeOK, HelperStates, histVars
  <2>3. CASE CreateOrDeleteHelper
    BY <2>3 DEF CreateOrDeleteHelper, TypeOK, HelperStates, histVars
  <2>4. CASE HaRestart
    BY <2>4 DEF HaRestart, TypeOK, histVars
  <2>10. CASE HaRestores
    BY <2>10 DEF HaRestores, TypeOK, histVars
  <2>5. ASSUME Reboot
        PROVE  /\ status' \in Statuses /\ ~status'.enabled
               /\ prevOn' \in {"none", "on", "off"}
               /\ pc' \in [Refreshers -> {"idle", "reading", "turningOff", "turnedOff", "notifying"}]
               /\ reply' \in [Refreshers -> Replies]
    BY <2>5 DEF Reboot, Statuses, Disabled, Replies, NoReply, HelperStates
  <2>6. CASE AgentRestart
    BY <2>5, <2>6 DEF AgentRestart, TypeOK, haVars, histVars
  <2>7. CASE SetOption
    BY <2>5, <2>7 DEF SetOption, TypeOK
  <2>8. CASE Tick
    BY <2>8 DEF Tick, TypeOK, haVars, histVars, Times
  <2>9. ASSUME NEW r \in Refreshers, HaTurnsOff(r) PROVE TypeOK'
    BY <2>9 DEF HaTurnsOff, TypeOK, HelperStates, histVars
  <2> QED
    BY <1>3, <2>1, <2>2, <2>3, <2>4, <2>6, <2>7, <2>8, <2>9, <2>10 DEF Environment
<1> QED
  BY <1>1, <1>2, <1>3 DEF Next

\* The variables keep their types and an active status always has an expiry
\* (consent.py ConsentStatus, refresh).
THEOREM TypeCorrect == Spec => []TypeOK
<1>1. Init => TypeOK
  BY TypeInit
<1>2. TypeOK /\ [Next]_consentVars => TypeOK'
  BY TypeStep
<1> QED
  BY <1>1, <1>2, PTL DEF Spec

---------------------------------------------------------------------------
(* What /data guarantees.                                                  *)

\* An active consent stays backed when neither the file nor the status change,
\* the clock included: time only ends windows.
LEMMA BackedUnchanged ==
  ASSUME TypeOK, ActiveIsBacked, now' \in Nat, now' >= now, UNCHANGED <<stored, status>>
  PROVE  ActiveIsBacked'
BY DEF TypeOK, Statuses, Times, NoTime, ActiveIsBacked, IsActive, ActiveAt

LEMMA BackedStep == TypeOK /\ ActiveIsBacked /\ [Next]_consentVars => ActiveIsBacked'
<1> SUFFICES ASSUME TypeOK, ActiveIsBacked, [Next]_consentVars PROVE ActiveIsBacked'
  OBVIOUS
<1> now \in Nat
  BY DEF TypeOK, Times
<1>1. CASE UNCHANGED consentVars
  BY <1>1, BackedUnchanged DEF consentVars
<1>2. ASSUME ~status'.enabled PROVE ActiveIsBacked'
  BY <1>2 DEF ActiveIsBacked, IsActive, ActiveAt
<1>3. ASSUME NEW a \in Times, stored' = a, NEW src, status' = Enabled(a + Window, src)
      PROVE  ActiveIsBacked'
  <2>1. stored' # NoTime /\ stored' + Window <= status'.expires
    BY <1>3 DEF Enabled, Times, NoTime
  <2> QED
    BY <2>1 DEF ActiveIsBacked
<1>4. ASSUME NEW r \in Refreshers, Refresh(r) PROVE ActiveIsBacked'
  <2>1. CASE StartRead(r) \/ Notified(r)
    BY <2>1, BackedUnchanged DEF StartRead, Notified
  <2>2. CASE ReadFails(r) \/ ReadOff(r) \/ TurnOffReturns(r) \/ OptionOff(r)
    BY <2>2, <1>2
    DEF ReadFails, ReadOff, TurnOffReturns, OptionOff, Commit, Disabled
  <2> DEFINE a == ActivationInstant(reply[r].lastChanged)
  <2>3. a \in Times
    BY ActivationType DEF TypeOK, Replies
  <2>4. CASE ReadOn(r)
    <3>1. stored' = a /\ status' = Enabled(a + Window, "entity")
      BY <2>4 DEF ReadOn, OpenWindow, Commit
    <3> HIDE DEF a
    <3> QED
      BY <2>3, <3>1, <1>3
  <2>5. CASE ReadExpired(r)
    \* what is still active expires after now, which the file's window does not
    <3>1. stored' = a /\ now >= a + Window /\ status' = status /\ now' = now
      BY <2>5 DEF ReadExpired, OpenWindow
    <3>2. IsActive' => now < status.expires
      BY <3>1 DEF IsActive, ActiveAt, TypeOK
    <3>3. status.expires \in Int
      BY DEF TypeOK, Statuses, NoTime
    <3> HIDE DEF a
    <3>4. IsActive' => stored' # NoTime /\ stored' + Window <= status'.expires
      BY <2>3, <3>1, <3>2, <3>3 DEF Times, NoTime
    <3> QED
      BY <3>4 DEF ActiveIsBacked
  <2>6. CASE OptionOn(r)
    <3> DEFINE b == IF stored = NoTime THEN now ELSE stored
    <3>1. b \in Times
      BY DEF TypeOK
    <3>2. stored' = b
      BY <2>6 DEF OptionOn
    <3>3. \/ status' = Enabled(b + Window, "option")
          \/ status' = Disabled("option")
      BY <2>6 DEF OptionOn, Commit
    <3> HIDE DEF b
    <3> QED
      BY <3>1, <3>2, <3>3, <1>2, <1>3 DEF Disabled
  <2> QED
    BY <1>4, <2>1, <2>2, <2>4, <2>5, <2>6 DEF Refresh, Decide
<1>5. CASE Environment
  <2>1. CASE SwitchOn \/ SwitchOff \/ CreateOrDeleteHelper \/ HaRestart \/ HaRestores
    BY <2>1, BackedUnchanged DEF SwitchOn, SwitchOff, CreateOrDeleteHelper, HaRestart, HaRestores
  <2>2. CASE AgentRestart \/ SetOption
    BY <2>2, <1>2 DEF AgentRestart, SetOption, Reboot, Disabled
  <2>3. CASE Tick
    BY <2>3, BackedUnchanged DEF Tick
  <2>4. ASSUME NEW r \in Refreshers, HaTurnsOff(r) PROVE ActiveIsBacked'
    BY <2>4, BackedUnchanged DEF HaTurnsOff
  <2> QED
    BY <1>5, <2>1, <2>2, <2>3, <2>4 DEF Environment
<1> QED
  BY <1>1, <1>4, <1>5 DEF Next

\* Whatever happens, an active consent is in /data with no later expiry, so a
\* restart of the agent at any point never lengthens it (consent.py refresh,
\* state.py set_consent_activated_at).
THEOREM Backed == Spec => []ActiveIsBacked
<1>1. Init => ActiveIsBacked
  BY DEF Init, ActiveIsBacked, IsActive, ActiveAt, Disabled
<1>2. TypeOK /\ ActiveIsBacked /\ [Next]_consentVars => ActiveIsBacked'
  BY BackedStep
<1> QED
  BY <1>1, <1>2, TypeCorrect, PTL DEF Spec

---------------------------------------------------------------------------
(* The bound of a window.                                                  *)

\* What the bound rests on: an on helper, and an on reply still on its way,
\* changed when the customer switched it on or before; the bound holds of the
\* status whether or not it is active any more.
BoundInv ==
  /\ loaded = TRUE
  /\ onSince <= now
  /\ helper = "on" => lastChanged <= onSince
  /\ \A r \in Refreshers :
       pc[r] = "reading" /\ reply[r].state = "on" =>
         reply[r].lastChanged \in Times /\ reply[r].lastChanged <= onSince
  /\ status.enabled /\ status.source = "entity" => status.expires <= onSince + Window

LEMMA BoundStep ==
  ASSUME ~HaRestarts, ~OmitsStamp
  PROVE  TypeOK /\ BoundInv /\ [Next]_consentVars => BoundInv'
<1> SUFFICES ASSUME TypeOK, BoundInv, [Next]_consentVars PROVE BoundInv'
  OBVIOUS
<1> now \in Nat /\ onSince \in Nat /\ lastChanged \in Times
  BY DEF TypeOK, Times
<1>1. CASE UNCHANGED consentVars
  BY <1>1 DEF BoundInv, consentVars
<1>2. ASSUME NEW r \in Refreshers, Refresh(r) PROVE BoundInv'
  <2>1. onSince' = onSince /\ now' = now /\ UNCHANGED <<loaded, helper, lastChanged>>
    BY <1>2 DEF Refresh, Decide, StartRead, ReadFails, ReadOff, ReadOn, ReadExpired,
       OpenWindow, OptionOff, OptionOn, TurnOffReturns, Notified, haVars, histVars
  <2>2. ASSUME NEW q \in Refreshers, pc'[q] = "reading", reply'[q].state = "on"
        PROVE  reply'[q].lastChanged \in Times /\ reply'[q].lastChanged <= onSince
    <3>1. CASE StartRead(r)
      BY <3>1, <2>2 DEF StartRead, HaAnswers, BoundInv, TypeOK
    <3>2. CASE ~StartRead(r)
      \* no other step of a refresh starts a read
      <4>1. pc[q] = "reading" /\ reply[q] = reply'[q]
        BY <3>2, <1>2, <2>2 DEF Refresh, Decide, ReadFails, ReadOff, ReadOn, ReadExpired,
           OpenWindow, Arrived, OptionOff, OptionOn, TurnOffReturns, Notified, Commit,
           TypeOK, NoReply
      <4> QED
        BY <4>1, <2>2 DEF BoundInv
    <3> QED
      BY <3>1, <3>2
  <2>3. status'.enabled /\ status'.source = "entity" => status'.expires <= onSince + Window
    <3>1. CASE StartRead(r) \/ Notified(r) \/ ReadExpired(r)
      BY <3>1 DEF StartRead, Notified, ReadExpired, BoundInv
    <3>2. CASE ReadFails(r) \/ ReadOff(r) \/ TurnOffReturns(r) \/ OptionOff(r) \/ OptionOn(r)
      BY <3>2 DEF ReadFails, ReadOff, TurnOffReturns, OptionOff, OptionOn, Commit,
         Disabled, Enabled
    <3>3. CASE ReadOn(r)
      <4>1. reply[r].lastChanged \in Times /\ reply[r].lastChanged <= onSince
        BY <3>3 DEF ReadOn, OpenWindow, Arrived, BoundInv
      <4>2. /\ stored' = ActivationInstant(reply[r].lastChanged)
            /\ status' = Enabled(stored' + Window, "entity")
        BY <3>3 DEF ReadOn, OpenWindow, Commit
      <4>3. stored' \in Times /\ stored' <= reply[r].lastChanged
        BY <4>1, <4>2, ActivationType, ActivationNotAfterChange
      <4> QED
        BY <4>1, <4>2, <4>3 DEF Enabled, Times
    <3> QED
      BY <1>2, <3>1, <3>2, <3>3 DEF Refresh, Decide
  <2> QED
    BY <2>1, <2>2, <2>3 DEF BoundInv
<1>3. CASE Environment
  <2>1. CASE SwitchOn
    \* the instant of the last switch-on only grows
    <3>1. /\ onSince' = now /\ lastChanged' = now
          /\ UNCHANGED <<now, loaded, status, pc, reply>>
      BY <2>1 DEF SwitchOn
    <3>2. status.expires \in Int /\ \A r \in Refreshers : reply[r].lastChanged \in Int
      BY DEF TypeOK, Statuses, Replies, Times, NoTime
    <3> QED
      BY <3>1, <3>2 DEF BoundInv
  <2>2. CASE SwitchOff
    BY <2>2 DEF SwitchOff, BoundInv, histVars
  <2>3. CASE CreateOrDeleteHelper
    BY <2>3 DEF CreateOrDeleteHelper, BoundInv, histVars
  <2>4. CASE HaRestart \/ HaRestores
    BY <2>4 DEF HaRestart, HaRestores, BoundInv
  <2>5. CASE AgentRestart \/ SetOption
    <3>1. /\ ~status'.enabled /\ \A q \in Refreshers : pc'[q] = "idle"
          /\ UNCHANGED <<now, loaded, helper, lastChanged, onSince>>
      BY <2>5 DEF AgentRestart, SetOption, Reboot, Disabled, haVars, histVars
    <3> QED
      BY <3>1 DEF BoundInv
  <2>6. CASE Tick
    BY <2>6 DEF Tick, BoundInv, haVars, histVars
  <2>7. ASSUME NEW r \in Refreshers, HaTurnsOff(r) PROVE BoundInv'
    BY <2>7 DEF HaTurnsOff, BoundInv, TypeOK, histVars
  <2> QED
    BY <1>3, <2>1, <2>2, <2>3, <2>4, <2>5, <2>6, <2>7 DEF Environment
<1> QED
  BY <1>1, <1>2, <1>3 DEF Next

\* While Home Assistant does not restart and stamps its answers, no consent
\* given with the helper outlives a window counted from the last time the
\* customer switched the helper on, for any number of overlapping refreshes
\* (consent.py _activation_instant, _evaluate_entity).
THEOREM Bounded == ~HaRestarts /\ ~OmitsStamp => (Spec => []WindowBound)
<1> SUFFICES ASSUME ~HaRestarts, ~OmitsStamp PROVE Spec => []WindowBound
  OBVIOUS
<1>1. Init => BoundInv
  BY DEF Init, BoundInv, Disabled
<1>2. TypeOK /\ BoundInv /\ [Next]_consentVars => BoundInv'
  BY BoundStep
<1>3. BoundInv => WindowBound
  BY DEF BoundInv, WindowBound, IsActive, ActiveAt
<1> QED
  BY <1>1, <1>2, <1>3, TypeCorrect, PTL DEF Spec

---------------------------------------------------------------------------
(* The window of the option.                                               *)

\* Without the helper every reply is a 404 or an error, nothing but the option
\* opens a window, and /data keeps the instant of the first one for as long as
\* the option stays. With the helper the option opens nothing.
OptionInv ==
  IF helper = "absent"
  THEN /\ \A r \in Refreshers : pc[r] \in {"idle", "reading", "notifying"}
       /\ \A r \in Refreshers : pc[r] = "reading" => reply[r].state \in {"absent", "error"}
       /\ stored # NoTime => stored <= now
       /\ optGranted # NoTime => option /\ stored # NoTime /\ stored <= optGranted
       /\ status.enabled => optGranted # NoTime /\ status.expires <= optGranted + Window
  ELSE /\ \A r \in Refreshers : pc[r] = "reading" => reply[r].state # "absent"
       /\ ~(status.enabled /\ status.source = "option")

\* Home Assistant does not answer for its helpers before it has restored them.
NeverEarly == ~HaRestarts \/ ~AnswersEarly

\* It is up, or it answers nothing
UpOrSilent == loaded \/ ~AnswersEarly

LEMMA UpOrSilentAlways == NeverEarly => (Spec => []UpOrSilent)
<1> SUFFICES ASSUME NeverEarly PROVE Spec => []UpOrSilent
  OBVIOUS
<1>1. Init => UpOrSilent
  BY DEF Init, UpOrSilent
<1>2. UpOrSilent /\ [Next]_consentVars => UpOrSilent'
  BY DEF NeverEarly, UpOrSilent, Next, Environment, Refresh, Decide, StartRead, ReadFails,
     ReadOff, ReadOn, ReadExpired, OpenWindow, OptionOff, OptionOn, TurnOffReturns, Notified,
     SwitchOn, SwitchOff, CreateOrDeleteHelper, HaRestart, HaRestores, AgentRestart, SetOption,
     Tick, HaTurnsOff, haVars, consentVars
<1> QED
  BY <1>1, <1>2, PTL DEF Spec

LEMMA OptionStep ==
  ASSUME ~HelperChanges, UpOrSilent, TypeOK, OptionInv, Next
  PROVE  OptionInv'
<1> /\ now \in Nat /\ Window \in Nat /\ stored \in Times \cup {NoTime}
    /\ optGranted \in Times \cup {NoTime}
  BY ConsentAssumption DEF ConsentAssumption, TypeOK, Times
<1>1. ASSUME NEW r \in Refreshers, Refresh(r), helper = "absent"
      PROVE  OptionInv'
  <2>1. helper' = "absent" /\ now' = now /\ option' = option
    BY <1>1 DEF Refresh, Decide, StartRead, ReadFails, ReadOff, ReadOn, ReadExpired,
       OpenWindow, OptionOff, OptionOn, TurnOffReturns, Notified, haVars
  <2>2. ~ReadOff(r) /\ ~ReadOn(r) /\ ~ReadExpired(r) /\ ~TurnOffReturns(r)
    BY <1>1 DEF ReadOff, ReadOn, ReadExpired, OpenWindow, Arrived, TurnOffReturns, OptionInv
  <2>3. CASE StartRead(r)
    BY <1>1, <2>1, <2>3 DEF StartRead, HaAnswers, UpOrSilent, OptionInv, TypeOK, histVars
  <2>4. CASE Notified(r)
    BY <1>1, <2>1, <2>4 DEF Notified, OptionInv, histVars
  <2>5. CASE ReadFails(r)
    BY <1>1, <2>1, <2>5 DEF ReadFails, Commit, Disabled, OptionInv, histVars, NoReply, TypeOK
  <2>6. CASE OptionOff(r)
    BY <1>1, <2>1, <2>6 DEF OptionOff, Arrived, Commit, Disabled, OptionInv, histVars, NoReply,
                            TypeOK
  <2>7. CASE OptionOn(r)
    <3> DEFINE b == IF stored = NoTime THEN now ELSE stored
    <3>1. /\ option /\ stored' = b /\ b \in Nat /\ b <= now /\ b # NoTime
          /\ reply' = [reply EXCEPT ![r] = NoReply]
      BY <1>1, <2>7 DEF OptionOn, Arrived, OptionInv, Times, NoTime
    <3>2. \A q \in Refreshers :
            /\ pc'[q] \in {"idle", "reading", "notifying"}
            /\ pc'[q] = "reading" => reply'[q].state \in {"absent", "error"}
      BY <1>1, <2>7, <3>1 DEF OptionOn, Commit, OptionInv, NoReply, TypeOK
    <3>3. CASE now >= b + Window
      <4>1. optGranted' = optGranted /\ ~status'.enabled
        BY <2>7, <3>1, <3>3 DEF OptionOn, Commit, Disabled
      <4> QED
        BY <1>1, <2>1, <3>1, <3>2, <4>1 DEF OptionInv
    <3>4. CASE ~(now >= b + Window)
      <4>1. /\ optGranted' = IF optGranted = NoTime THEN now ELSE optGranted
            /\ status'.expires = b + Window
        BY <2>7, <3>1, <3>4 DEF OptionOn, Commit, Enabled
      <4>2. optGranted' \in Nat /\ optGranted' # NoTime /\ b <= optGranted'
        <5>1. CASE optGranted = NoTime
          BY <3>1, <4>1, <5>1 DEF NoTime
        <5>2. CASE optGranted # NoTime
          <6>1. stored # NoTime /\ stored <= optGranted
            BY <1>1, <5>2 DEF OptionInv
          <6>2. b = stored
            BY <6>1
          <6>3. optGranted' = optGranted /\ optGranted \in Nat
            BY <4>1, <5>2 DEF Times
          <6> QED
            BY <5>2, <6>1, <6>2, <6>3
        <5> QED
          BY <5>1, <5>2
      <4> HIDE DEF b
      <4>3. status'.expires <= optGranted' + Window
        BY <3>1, <4>1, <4>2
      <4> QED
        BY <2>1, <3>1, <3>2, <4>2, <4>3 DEF OptionInv
    <3> QED
      BY <3>3, <3>4
  <2> QED
    BY <1>1, <2>2, <2>3, <2>4, <2>5, <2>6, <2>7 DEF Refresh, Decide
<1>2. ASSUME NEW r \in Refreshers, Refresh(r), helper # "absent"
      PROVE  OptionInv'
  <2>1. helper' = helper
    BY <1>2 DEF Refresh, Decide, StartRead, ReadFails, ReadOff, ReadOn, ReadExpired,
       OpenWindow, OptionOff, OptionOn, TurnOffReturns, Notified, haVars
  <2>2. ~OptionOff(r) /\ ~OptionOn(r)
    BY <1>2 DEF OptionOff, OptionOn, Arrived, OptionInv
  <2>3. ASSUME NEW q \in Refreshers, pc'[q] = "reading" PROVE reply'[q].state # "absent"
    <3>1. CASE StartRead(r)
      BY <1>2, <2>3, <3>1 DEF StartRead, HaAnswers, UpOrSilent, OptionInv, TypeOK
    <3>2. CASE ~StartRead(r)
      <4>1. pc[q] = "reading" /\ reply[q] = reply'[q]
        BY <1>2, <2>2, <2>3, <3>2 DEF Refresh, Decide, ReadFails, ReadOff, ReadOn, ReadExpired,
           OpenWindow, Arrived, TurnOffReturns, Notified, Commit, TypeOK, NoReply
      <4> QED
        BY <1>2, <4>1 DEF OptionInv
    <3> QED
      BY <3>1, <3>2
  <2>4. ~(status'.enabled /\ status'.source = "option")
    BY <1>2, <2>2 DEF Refresh, Decide, StartRead, ReadFails, ReadOff, ReadOn, ReadExpired,
       TurnOffReturns, Notified, Commit, Disabled, Enabled, OptionInv
  <2> QED
    BY <1>2, <2>1, <2>3, <2>4 DEF OptionInv
<1>3. CASE Environment
  <2>1. CASE SwitchOn \/ SwitchOff
    BY <2>1 DEF SwitchOn, SwitchOff, OptionInv
  <2>2. CASE CreateOrDeleteHelper
    BY <2>2 DEF CreateOrDeleteHelper
  <2>3. CASE HaRestart \/ HaRestores
    BY <2>3 DEF HaRestart, HaRestores, OptionInv, histVars
  <2>4. CASE AgentRestart
    BY <2>4 DEF AgentRestart, Reboot, Disabled, OptionInv, haVars, histVars
  <2>5. CASE SetOption
    BY <2>5 DEF SetOption, Reboot, Disabled, OptionInv
  <2>6. CASE Tick
    BY <2>6 DEF Tick, OptionInv, haVars, histVars, Times, NoTime
  <2>7. ASSUME NEW r \in Refreshers, HaTurnsOff(r) PROVE OptionInv'
    BY <2>7 DEF HaTurnsOff, OptionInv, TypeOK, histVars
  <2> QED
    BY <1>3, <2>1, <2>2, <2>3, <2>4, <2>5, <2>6, <2>7 DEF Environment
<1> QED
  BY <1>1, <1>2, <1>3 DEF Next

\* As long as the helper is neither created nor deleted, and is not taken for
\* deleted while Home Assistant starts, the option opens one window each time it
\* is given, whatever fails and however often the agent restarts (consent.py
\* _evaluate_option, DOCS.md).
THEOREM OptionBounded == ~HelperChanges /\ NeverEarly => (Spec => []OptionWindowBound)
<1> SUFFICES ASSUME ~HelperChanges, NeverEarly PROVE Spec => []OptionWindowBound
  OBVIOUS
<1>1. Init => OptionInv
  BY DEF Init, OptionInv, Disabled
<1>2. TypeOK /\ UpOrSilent /\ OptionInv /\ [Next]_consentVars => OptionInv'
  <2>1. ASSUME TypeOK, UpOrSilent, OptionInv, Next PROVE OptionInv'
    BY <2>1, OptionStep
  <2>2. ASSUME OptionInv, UNCHANGED consentVars PROVE OptionInv'
    BY <2>2 DEF OptionInv, consentVars
  <2> QED
    BY <2>1, <2>2
<1>3. OptionInv => OptionWindowBound
  BY DEF OptionInv, OptionWindowBound, IsActive, ActiveAt
<1> QED
  BY <1>1, <1>2, <1>3, TypeCorrect, UpOrSilentAlways, PTL DEF Spec

---------------------------------------------------------------------------
(* Nothing that was written or is on its way comes from the future.        *)

ReadsOn(r) == pc[r] = "reading" /\ reply[r].state = "on"

\* Nothing that was read or written is later than the clock, and a reply is no
\* newer than the helper it tells of.
PastInv ==
  /\ onSince <= now /\ lastChanged <= now /\ stored <= now
  /\ \A r \in Refreshers : ReadsOn(r) => reply[r].lastChanged <= lastChanged

\* The activation instant is not later than the clock if nothing it looks at is.
LEMMA ActivationPast ==
  ASSUME TypeOK, PastInv, NEW lc \in Times \cup {NoTime}, lc <= now
  PROVE  ActivationInstant(lc) <= now
BY DEF TypeOK, PastInv, ActivationInstant, Times, NoTime

\* A window that is in /data and was not seen closing does not begin later.
LEMMA ActivationKept ==
  ASSUME TypeOK, NEW lc \in Times \cup {NoTime}, stored # NoTime, prevOn # "off"
  PROVE  ActivationInstant(lc) <= stored
BY DEF TypeOK, ActivationInstant, Times, NoTime

\* A step of a refresh begins a read or handles the reply it was reading; what
\* other refreshes read stays as it was.
LEMMA RefreshReads ==
  ASSUME TypeOK, NEW r \in Refreshers, Refresh(r)
  PROVE  /\ UNCHANGED <<now, helper, lastChanged, onSince>>
         /\ \A q \in Refreshers : q # r => pc'[q] = pc[q] /\ reply'[q] = reply[q]
         /\ pc'[r] = "reading" => StartRead(r)
BY DEF Refresh, Decide, StartRead, ReadFails, ReadOff, ReadOn, ReadExpired,
   OpenWindow, Arrived, OptionOff, OptionOn, TurnOffReturns, Notified, Commit,
   haVars, histVars, TypeOK

LEMMA PastStep ==
  ASSUME TypeOK, PastInv, [Next]_consentVars
  PROVE  PastInv'
<1> /\ now \in Nat /\ onSince \in Nat /\ lastChanged \in Nat /\ stored \in Int
  BY DEF TypeOK, Times, NoTime
<1> \A r \in Refreshers :
      reply[r].lastChanged \in Times \cup {NoTime} /\ reply[r].lastChanged \in Int
  BY DEF TypeOK, Replies, Times, NoTime
<1>1. ASSUME NEW r \in Refreshers, Refresh(r) PROVE PastInv'
  <2>1. stored' <= now
    <3>1. CASE ReadOn(r) \/ ReadExpired(r)
      <4>1. ReadsOn(r) /\ stored' = ActivationInstant(reply[r].lastChanged)
        BY <3>1 DEF ReadOn, ReadExpired, OpenWindow, Arrived, ReadsOn
      <4>2. reply[r].lastChanged <= now
        BY <4>1 DEF PastInv
      <4> QED
        BY <4>1, <4>2, ActivationPast
    <3>2. CASE ~(ReadOn(r) \/ ReadExpired(r))
      <4>1. stored' = stored \/ stored' = NoTime \/ stored' = now
        BY <1>1, <3>2 DEF Refresh, Decide, StartRead, ReadFails, ReadOff, OptionOff,
           OptionOn, TurnOffReturns, Notified
      <4> QED
        BY <4>1 DEF PastInv, NoTime
    <3> QED
      BY <3>1, <3>2
  <2>2. ASSUME NEW q \in Refreshers, ReadsOn(q)'
        PROVE  reply'[q].lastChanged <= lastChanged
    <3>1. CASE q = r
      <4>1. StartRead(r)
        BY <1>1, <2>2, <3>1, RefreshReads DEF ReadsOn
      <4>2. reply'[q].lastChanged \in {lastChanged, NoTime}
        BY <3>1, <4>1 DEF StartRead, HaAnswers, TypeOK
      <4> QED
        BY <4>2 DEF NoTime
    <3>2. CASE q # r
      <4>1. ReadsOn(q) /\ reply'[q] = reply[q]
        BY <1>1, <2>2, <3>2, RefreshReads DEF ReadsOn
      <4> QED
        BY <4>1 DEF PastInv
    <3> QED
      BY <3>1, <3>2
  <2>3. UNCHANGED <<now, helper, lastChanged, onSince>>
    BY <1>1, RefreshReads
  <2> QED
    BY <2>1, <2>2, <2>3 DEF PastInv
<1>2. CASE Environment
  <2>1. CASE SwitchOn \/ SwitchOff \/ CreateOrDeleteHelper \/ HaRestart \/ HaRestores
    <3>1. /\ UNCHANGED <<now, stored, pc, reply>> /\ lastChanged' \in {now, lastChanged}
          /\ onSince' \in {now, onSince}
      BY <2>1 DEF SwitchOn, SwitchOff, CreateOrDeleteHelper, HaRestart, HaRestores, histVars
    <3> QED
      BY <3>1 DEF PastInv, ReadsOn
  <2>2. CASE AgentRestart \/ SetOption
    BY <2>2 DEF AgentRestart, SetOption, Reboot, PastInv, ReadsOn, haVars, histVars
  <2>3. CASE Tick
    BY <2>3 DEF Tick, PastInv, ReadsOn, haVars, histVars
  <2>4. ASSUME NEW r \in Refreshers, HaTurnsOff(r) PROVE PastInv'
    <3>1. /\ UNCHANGED <<now, stored, reply, onSince>> /\ lastChanged' \in {now, lastChanged}
          /\ \A q \in Refreshers : pc'[q] = "reading" => pc[q] = "reading"
      BY <2>4 DEF HaTurnsOff, histVars, TypeOK
    <3> QED
      BY <3>1 DEF PastInv, ReadsOn
  <2> QED
    BY <1>2, <2>1, <2>2, <2>3, <2>4 DEF Environment
<1>3. CASE UNCHANGED consentVars
  BY <1>3 DEF consentVars, PastInv, ReadsOn
<1> QED
  BY <1>1, <1>2, <1>3 DEF Next

LEMMA NothingFromTheFuture == Spec => []PastInv
<1>1. Init => PastInv
  BY DEF Init, PastInv, ReadsOn, NoTime
<1>2. TypeOK /\ PastInv /\ [Next]_consentVars => PastInv'
  BY PastStep
<1> QED
  BY <1>1, <1>2, TypeCorrect, PTL DEF Spec

---------------------------------------------------------------------------
(* The lease.                                                              *)

\* Every consent has a giver, and one given by the helper rests on a helper last
\* seen on.
GivenByOn ==
  status.enabled => status.source = "option" \/ (status.source = "entity" /\ prevOn = "on")

LEMMA GivenByOnStep == TypeOK /\ GivenByOn /\ [Next]_consentVars => GivenByOn'
<1> SUFFICES ASSUME TypeOK, GivenByOn, [Next]_consentVars PROVE GivenByOn'
  OBVIOUS
<1>1. ASSUME NEW r \in Refreshers, Refresh(r) PROVE GivenByOn'
  <2>1. CASE StartRead(r) \/ Notified(r)
    BY <2>1 DEF StartRead, Notified, GivenByOn
  <2>2. CASE ReadFails(r) \/ ReadOff(r) \/ TurnOffReturns(r) \/ OptionOff(r) \/ OptionOn(r)
    BY <2>2 DEF ReadFails, ReadOff, TurnOffReturns, OptionOff, OptionOn, Commit,
       Disabled, Enabled, GivenByOn
  <2>3. CASE ReadOn(r)
    BY <2>3 DEF ReadOn, OpenWindow, Commit, Enabled, GivenByOn
  <2>4. CASE ReadExpired(r)
    BY <2>4 DEF ReadExpired, OpenWindow, GivenByOn
  <2> QED
    BY <1>1, <2>1, <2>2, <2>3, <2>4 DEF Refresh, Decide
<1>2. CASE Environment
  <2>1. CASE AgentRestart \/ SetOption
    BY <2>1 DEF AgentRestart, SetOption, Reboot, Disabled, GivenByOn
  <2>2. CASE ~(AgentRestart \/ SetOption)
    BY <1>2, <2>2 DEF Environment, SwitchOn, SwitchOff, CreateOrDeleteHelper, HaRestart, HaRestores,
       HaTurnsOff, Tick, GivenByOn
  <2> QED
    BY <2>1, <2>2
<1>3. CASE UNCHANGED consentVars
  BY <1>3 DEF consentVars, GivenByOn
<1> QED
  BY <1>1, <1>2, <1>3 DEF Next

\* What a step does to the status: nothing, it disables, or it gives the window
\* that starts at the instant it leaves in /data.
LEMMA StatusStep ==
  ASSUME TypeOK, [Next]_consentVars
  PROVE  \/ status' = status
         \/ ~status'.enabled
         \/ \E r \in Refreshers :
              /\ ReadOn(r)
              /\ stored' = ActivationInstant(reply[r].lastChanged)
              /\ status' = Enabled(stored' + Window, "entity")
         \/ /\ stored' = IF stored = NoTime THEN now ELSE stored
            /\ status' = Enabled(stored' + Window, "option")
<1>1. ASSUME NEW r \in Refreshers, Refresh(r)
      PROVE  \/ status' = status
             \/ ~status'.enabled
             \/ /\ ReadOn(r)
                /\ stored' = ActivationInstant(reply[r].lastChanged)
                /\ status' = Enabled(stored' + Window, "entity")
             \/ /\ stored' = IF stored = NoTime THEN now ELSE stored
                /\ status' = Enabled(stored' + Window, "option")
  <2>1. CASE StartRead(r) \/ Notified(r) \/ ReadExpired(r)
    BY <2>1 DEF StartRead, Notified, ReadExpired
  <2>2. CASE ReadFails(r) \/ ReadOff(r) \/ TurnOffReturns(r) \/ OptionOff(r)
    BY <2>2 DEF ReadFails, ReadOff, TurnOffReturns, OptionOff, Commit, Disabled
  <2>3. CASE OptionOn(r)
    BY <2>3 DEF OptionOn, Commit, Disabled
  <2>4. CASE ReadOn(r)
    BY <2>4 DEF ReadOn, OpenWindow, Commit
  <2> QED
    BY <1>1, <2>1, <2>2, <2>3, <2>4 DEF Refresh, Decide
<1>2. CASE Environment
  <2>1. CASE AgentRestart \/ SetOption
    BY <2>1 DEF AgentRestart, SetOption, Reboot, Disabled
  <2>2. CASE ~(AgentRestart \/ SetOption)
    BY <1>2, <2>2 DEF Environment, SwitchOn, SwitchOff, CreateOrDeleteHelper, HaRestart, HaRestores,
       HaTurnsOff, Tick
  <2> QED
    BY <2>1, <2>2
<1>3. CASE UNCHANGED consentVars
  BY <1>3 DEF consentVars
<1> QED
  BY <1>1, <1>2, <1>3 DEF Next

LEMMA NoExtension ==
  ASSUME TypeOK, ActiveIsBacked, GivenByOn, [Next]_consentVars,
         IsActive, IsActive', status'.expires > status.expires
  PROVE  status.source = "option" /\ status'.source = "entity"
<1> /\ stored \in Times /\ status.expires \in Int /\ Window \in Nat
    /\ status.source \in {"entity", "option", "unavailable"}
  BY DEF TypeOK, ActiveIsBacked, Statuses, Times, NoTime
<1>0. stored # NoTime /\ stored + Window <= status.expires /\ status.enabled
  BY DEF ActiveIsBacked, IsActive, ActiveAt
<1>1. status' # status /\ status'.enabled
  BY DEF IsActive, ActiveAt
<1>2. PICK r \in Refreshers :
        /\ ReadOn(r)
        /\ stored' = ActivationInstant(reply[r].lastChanged)
        /\ status' = Enabled(stored' + Window, "entity")
  <2>1. CASE /\ stored' = IF stored = NoTime THEN now ELSE stored
             /\ status' = Enabled(stored' + Window, "option")
    <3>1. stored' = stored
      BY <1>0, <2>1
    <3>2. status'.expires = stored' + Window
      BY <2>1 DEF Enabled
    <3> QED
      BY <1>0, <3>1, <3>2 DEF Times
  <2> QED
    BY <1>1, <2>1, StatusStep
<1>3. reply[r].lastChanged \in Times \cup {NoTime}
  BY DEF TypeOK, Replies
<1>4. stored' \in Times /\ stored' + Window > status.expires
  BY <1>2, <1>3, ActivationType DEF Enabled
<1>5. prevOn = "off"
  <2>1. ~(ActivationInstant(reply[r].lastChanged) <= stored)
    BY <1>0, <1>2, <1>4 DEF Times
  <2> QED
    BY <1>0, <1>3, <2>1, ActivationKept
<1>6. status.source # "entity"
  BY <1>0, <1>5 DEF GivenByOn
<1> QED
  <2>1. status.source = "option"
    BY <1>0, <1>6 DEF GivenByOn
  <2> QED
    BY <1>2, <2>1 DEF Enabled

LEMMA GivenByOnAlways == Spec => []GivenByOn
<1>1. Init => GivenByOn
  BY DEF Init, Disabled, GivenByOn
<1>2. TypeOK /\ GivenByOn /\ [Next]_consentVars => GivenByOn'
  BY GivenByOnStep
<1> QED
  BY <1>1, <1>2, TypeCorrect, PTL DEF Spec

\* No step moves the end of a window in force to a later time, unless the helper
\* takes over from the option (consent.py _activation_instant, _evaluate_option).
THEOREM EndStays == Spec => NeverExtended
<1> DEFINE Kept ==
      IsActive /\ IsActive' /\ status'.expires > status.expires
        => status.source = "option" /\ status'.source = "entity"
<1>1. TypeOK /\ ActiveIsBacked /\ GivenByOn /\ [Next]_consentVars => [Kept]_consentVars
  BY NoExtension
<1>2. Spec => [][Kept]_consentVars
  BY <1>1, TypeCorrect, Backed, GivenByOnAlways, PTL DEF Spec
<1> QED
  BY <1>2 DEF NeverExtended

---------------------------------------------------------------------------
(* The refinement: every step of a refresh, of the environment or of a     *)
(* restart is a step of the lease or leaves it alone.                      *)

\* A status that disables is a lease not in force.
LEMMA NotInForce ==
  ASSUME ~status'.enabled
  PROVE  LeaseUntil' = NoTime /\ LeaseGiver' = "nobody"
BY DEF LeaseUntil, LeaseGiver, IsActive, ActiveAt

\* A status that enables, with its end ahead, is a lease in force and on file.
LEMMA InForce ==
  ASSUME NEW a \in Times, NEW src, stored' = a, status' = Enabled(a + Window, src),
         now' = now, now < a + Window
  PROVE  LeaseUntil' = a + Window /\ LeaseGiver' = src /\ LeaseKept' = a + Window
<1>1. status'.enabled /\ status'.expires = a + Window /\ status'.source = src
  BY DEF Enabled
<1>2. a # NoTime
  BY DEF Times, NoTime
<1>3. IsActive'
  BY <1>1 DEF IsActive, ActiveAt
<1> QED
  BY <1>1, <1>2, <1>3 DEF LeaseUntil, LeaseGiver, LeaseKept

LEMMA LeaseRefresh ==
  ASSUME TypeOK, PastInv, NEW r \in Refreshers, Refresh(r)
  PROVE  [Promise!LeaseNext]_(Promise!leaseVars)
<1> /\ now \in Nat /\ stored \in Times \cup {NoTime}
  BY DEF TypeOK, Times
<1>0. now' = now
  BY RefreshReads
<1>1. CASE StartRead(r) \/ Notified(r)
  <2>1. UNCHANGED <<now, status, stored, prevOn>>
    BY <1>1 DEF StartRead, Notified
  <2>2. UNCHANGED <<LeaseUntil, LeaseGiver, LeaseKept>>
    BY <2>1 DEF LeaseUntil, LeaseGiver, LeaseKept, IsActive
  <2> QED
    BY <2>1, <2>2 DEF Promise!leaseVars
<1>2. CASE ReadFails(r) \/ ReadOff(r) \/ TurnOffReturns(r) \/ OptionOff(r)
  <2>1. LeaseUntil' = NoTime /\ LeaseGiver' = "nobody"
    BY <1>2, NotInForce
    DEF ReadFails, ReadOff, TurnOffReturns, OptionOff, Commit, Disabled
  <2>2. \/ LeaseKept' = LeaseKept /\ prevOn' = prevOn
        \/ LeaseKept' = NoTime /\ (prevOn' = "off" \/ prevOn' = prevOn)
    BY <1>2 DEF ReadFails, ReadOff, TurnOffReturns, OptionOff, LeaseKept
  <2> QED
    BY <1>0, <2>1, <2>2 DEF Promise!LeaseNext, Promise!Withdraw, Promise!None, NoTime
<1>3. CASE OptionOn(r)
  <2> DEFINE b == IF stored = NoTime THEN now ELSE stored
  <2>1. stored' = b /\ prevOn' = prevOn /\ b \in Times /\ b <= now
    BY <1>3 DEF OptionOn, PastInv, TypeOK
  <2> HIDE DEF b
  <2>2. CASE now >= b + Window
    <3>1. ~status'.enabled
      BY <1>3, <2>1, <2>2 DEF OptionOn, Commit, Disabled
    <3>2. stored # NoTime
      BY <2>2 DEF b
    <3>3. LeaseKept' = LeaseKept
      BY <2>1, <3>2 DEF LeaseKept, b
    <3> QED
      BY <1>0, <2>1, <3>1, <3>3, NotInForce
      DEF Promise!LeaseNext, Promise!Withdraw, Promise!None, NoTime
  <2>3. CASE now < b + Window
    <3>1. status' = Enabled(b + Window, "option")
      BY <1>3, <2>1, <2>3 DEF OptionOn, Commit, Times
    <3>2. /\ LeaseUntil' = LeaseKept' /\ LeaseGiver' = "option"
          /\ LeaseKept' = b + Window
      BY <1>0, <2>1, <2>3, <3>1, InForce
    <3>3. LeaseKept' \in now + 1 .. now + Window
      BY <2>1, <2>3, <3>2 DEF Times
    <3>4. CASE stored = NoTime
      <4>1. Promise!Grant("option")
        BY <1>0, <2>1, <3>2, <3>3, <3>4
        DEF Promise!Grant, Promise!Hears, Promise!None, LeaseKept, NoTime
      <4> QED
        BY <4>1 DEF Promise!LeaseNext, Promise!Givers
    <3>5. CASE stored # NoTime
      <4>1. LeaseKept = b + Window /\ LeaseKept # -1
        BY <2>1, <3>5 DEF LeaseKept, b, Times
      <4>2. Promise!Resume("option")
        BY <1>0, <2>1, <2>3, <3>2, <4>1, <3>3
        DEF Promise!Resume, Promise!Hears, Promise!None
      <4> QED
        BY <4>2 DEF Promise!LeaseNext, Promise!Givers
    <3> QED
      BY <3>4, <3>5
  <2> QED
    BY <2>1, <2>2, <2>3 DEF Times
<1>4. ASSUME OpenWindow(r)
      PROVE  /\ stored' \in Times /\ stored' <= now /\ prevOn' = "on"
             /\ stored # NoTime /\ prevOn # "off" => stored' <= stored
  <2>1. /\ ReadsOn(r) /\ stored' = ActivationInstant(reply[r].lastChanged) /\ prevOn' = "on"
    BY <1>4 DEF OpenWindow, Arrived, ReadsOn
  <2>2. reply[r].lastChanged \in Times \cup {NoTime} /\ reply[r].lastChanged \in Int
    BY DEF TypeOK, Replies, Times, NoTime
  <2>3. reply[r].lastChanged <= now
    BY <2>1, <2>2 DEF PastInv, TypeOK, Times
  <2> QED
    BY <2>1, <2>2, <2>3, ActivationType, ActivationPast, ActivationKept
<1>5. CASE ReadOn(r)
  <2>1. OpenWindow(r) /\ now < stored' + Window /\ status' = Enabled(stored' + Window, "entity")
    BY <1>5 DEF ReadOn, Commit
  <2>2. LeaseUntil' = LeaseKept' /\ LeaseGiver' = "entity" /\ LeaseKept' = stored' + Window
    BY <1>0, <1>4, <2>1, InForce
  <2>3. LeaseKept' \in now + 1 .. now + Window
    BY <1>4, <2>1, <2>2 DEF Times
  <2>4. CASE stored = NoTime \/ prevOn = "off"
    <3>1. LeaseKept = -1 \/ prevOn = "off"
      BY <2>4 DEF LeaseKept, NoTime
    <3>2. Promise!Grant("entity")
      BY <1>0, <1>4, <2>1, <2>2, <2>3, <3>1
      DEF Promise!Grant, Promise!Hears, Promise!None
    <3> QED
      BY <3>2 DEF Promise!LeaseNext, Promise!Givers
  <2>5. CASE stored # NoTime /\ prevOn # "off"
    <3>1. LeaseKept = stored + Window /\ LeaseKept # -1
      BY <2>5 DEF LeaseKept, Times
    <3>2. LeaseKept' \in now + 1 .. LeaseKept
      BY <1>4, <2>1, <2>2, <2>3, <2>5, <3>1 DEF Times
    <3>3. Promise!Resume("entity")
      BY <1>0, <1>4, <2>1, <2>2, <2>5, <3>1, <3>2
      DEF Promise!Resume, Promise!Hears, Promise!None
    <3> QED
      BY <3>3 DEF Promise!LeaseNext, Promise!Givers
  <2> QED
    BY <2>4, <2>5
<1>6. CASE ReadExpired(r)
  <2>1. OpenWindow(r) /\ now >= stored' + Window /\ status' = status
    BY <1>6 DEF ReadExpired
  <2>2. UNCHANGED <<LeaseUntil, LeaseGiver>>
    BY <1>0, <2>1 DEF LeaseUntil, LeaseGiver, IsActive
  <2>3. LeaseKept' = stored' + Window
    BY <1>4, <2>1 DEF LeaseKept, Times, NoTime
  <2>4. LeaseKept' \in 0 .. now
    BY <1>4, <2>1, <2>3 DEF Times
  <2>5. LeaseKept # -1 /\ prevOn # "off" => LeaseKept' <= LeaseKept
    BY <1>4, <2>1, <2>3 DEF LeaseKept, Times, NoTime
  <2> QED
    BY <1>0, <1>4, <2>1, <2>2, <2>4, <2>5
    DEF Promise!LeaseNext, Promise!FindOver, Promise!None
<1> QED
  BY <1>1, <1>2, <1>3, <1>5, <1>6 DEF Refresh, Decide

LEMMA LeaseEnvironment ==
  ASSUME TypeOK, Environment
  PROVE  [Promise!LeaseNext]_(Promise!leaseVars)
<1>1. CASE AgentRestart \/ SetOption
  <2>1. ~status'.enabled /\ prevOn' = "none" /\ now' = now /\ LeaseKept' = LeaseKept
    BY <1>1 DEF AgentRestart, SetOption, Reboot, Disabled, LeaseKept
  <2> QED
    BY <2>1, NotInForce DEF Promise!LeaseNext, Promise!Withdraw, Promise!None, NoTime
<1>2. CASE Tick
  <2>1. now' = now + 1 /\ UNCHANGED <<status, stored, prevOn>>
    BY <1>2 DEF Tick
  <2>2. LeaseKept' = LeaseKept
    BY <2>1 DEF LeaseKept
  <2>3. now \in Nat /\ status.expires \in Int /\ (status.enabled => status.expires # -1)
    BY DEF TypeOK, Statuses, Times, NoTime
  <2>4. IF LeaseUntil # -1 /\ LeaseUntil <= now'
        THEN LeaseUntil' = -1 /\ LeaseGiver' = "nobody"
        ELSE UNCHANGED <<LeaseUntil, LeaseGiver>>
    BY <2>1, <2>3 DEF LeaseUntil, LeaseGiver, IsActive, ActiveAt, NoTime
  <2> QED
    BY <2>1, <2>2, <2>4 DEF Promise!LeaseNext, Promise!Tick, Promise!None
<1>3. CASE ~(AgentRestart \/ SetOption \/ Tick)
  <2>1. UNCHANGED <<now, status, stored, prevOn>>
    BY <1>3 DEF Environment, SwitchOn, SwitchOff, CreateOrDeleteHelper, HaRestart, HaRestores, HaTurnsOff
  <2>2. UNCHANGED <<LeaseUntil, LeaseGiver, LeaseKept>>
    BY <2>1 DEF LeaseUntil, LeaseGiver, LeaseKept, IsActive
  <2> QED
    BY <2>1, <2>2 DEF Promise!leaseVars
<1> QED
  BY <1>1, <1>2, <1>3

\* The consent manager keeps its promise, the lease: for any number of refreshes
\* that overlap, whatever call fails and whoever restarts (consent.py refresh).
THEOREM ConsentIsALease == Spec => IsALease
<1>1. Init => Promise!LeaseInit
  BY DEF Init, Disabled, Promise!LeaseInit, Promise!None, NoTime,
     LeaseUntil, LeaseGiver, LeaseKept, IsActive, ActiveAt
<1>2. TypeOK /\ PastInv /\ [Next]_consentVars => [Promise!LeaseNext]_(Promise!leaseVars)
  <2>1. ASSUME UNCHANGED consentVars PROVE UNCHANGED Promise!leaseVars
    BY <2>1 DEF consentVars, Promise!leaseVars, LeaseUntil, LeaseGiver, LeaseKept, IsActive
  <2> QED
    BY <2>1, LeaseRefresh, LeaseEnvironment DEF Next
<1> QED
  BY <1>1, <1>2, TypeCorrect, NothingFromTheFuture, PTL DEF Spec, IsALease, Promise!LeaseSpec

---------------------------------------------------------------------------
(* What the tunnel and the commands see.                                   *)

\* A status that enables is installed with its window open.
LEMMA InstalledOpen ==
  ASSUME TypeOK, [Next]_consentVars, status' # status, status'.enabled
  PROVE  IsActive'
<1>1. PICK r \in Refreshers : ReadOn(r) \/ OptionOn(r)
  <2>1. ~UNCHANGED consentVars
    BY DEF consentVars
  <2>2. ~Environment
    BY DEF Environment, SwitchOn, SwitchOff, CreateOrDeleteHelper, HaRestart, HaRestores, AgentRestart,
       SetOption, Reboot, Disabled, HaTurnsOff, Tick
  <2>3. PICK r \in Refreshers : Refresh(r)
    BY <2>1, <2>2 DEF Next
  <2>4. ~(StartRead(r) \/ Notified(r) \/ ReadExpired(r))
    BY DEF StartRead, Notified, ReadExpired
  <2>5. ~(ReadFails(r) \/ ReadOff(r) \/ TurnOffReturns(r) \/ OptionOff(r))
    BY DEF ReadFails, ReadOff, TurnOffReturns, OptionOff, Commit, Disabled
  <2> QED
    BY <2>3, <2>4, <2>5 DEF Refresh, Decide
<1>2. now' = now
  BY <1>1, RefreshReads DEF Refresh, Decide
<1>3. status'.expires = stored' + Window /\ now < stored' + Window
  <2>1. CASE ReadOn(r)
    BY <2>1 DEF ReadOn, Commit, Enabled
  <2>2. CASE OptionOn(r)
    <3> DEFINE b == IF stored = NoTime THEN now ELSE stored
    <3>1. stored' = b /\ b \in Times /\ ~(now >= b + Window)
      BY <2>2 DEF OptionOn, Commit, Disabled, TypeOK
    <3>2. status' = Enabled(stored' + Window, "option")
      BY <2>2, <3>1 DEF OptionOn, Commit
    <3> QED
      BY <3>1, <3>2 DEF Enabled, TypeOK, Times
  <2> QED
    BY <1>1, <2>1, <2>2
<1> QED
  BY <1>2, <1>3 DEF IsActive, ActiveAt

\* The clock does not go back.
LEMMA ClockStep == TypeOK /\ [Next]_consentVars => now' \in Nat /\ now <= now'
<1> SUFFICES ASSUME TypeOK, [Next]_consentVars PROVE now' \in Nat /\ now <= now'
  OBVIOUS
<1>1. now' = now \/ now' = now + 1
  <2>1. ASSUME NEW r \in Refreshers, Refresh(r) PROVE now' = now
    BY <2>1, RefreshReads
  <2>2. ASSUME Environment PROVE now' = now \/ now' = now + 1
    BY <2>2 DEF Environment, SwitchOn, SwitchOff, CreateOrDeleteHelper, HaRestart, HaRestores,
       AgentRestart, SetOption, HaTurnsOff, Tick
  <2> QED
    BY <2>1, <2>2 DEF Next, consentVars
<1> QED
  BY <1>1 DEF TypeOK, Times

LEMMA ViewStep ==
  ASSUME TypeOK, [Next]_consentVars
  PROVE  [View!ViewNext]_(View!consentView)
<1>1. CASE ~status'.enabled
  <2>1. status'.enabled = FALSE /\ IsActive' = FALSE
    <3>1. status'.enabled \in BOOLEAN
      BY TypeStep DEF TypeOK, Statuses
    <3> QED
      BY <1>1, <3>1 DEF IsActive, ActiveAt
  <2> QED
    BY <2>1 DEF View!ViewNext, View!Install
<1>2. CASE status'.enabled /\ status' # status
  <2>1. IsActive'
    BY <1>2, InstalledOpen
  <2> QED
    BY <1>2, <2>1 DEF View!ViewNext, View!Install
<1>3. CASE status' = status
  <2>1. IsActive' => IsActive
    BY <1>3, ClockStep DEF IsActive, ActiveAt, TypeOK, Statuses, Times, NoTime
  <2>2. IsActive \in BOOLEAN /\ IsActive' \in BOOLEAN
    BY DEF IsActive, ActiveAt
  <2> QED
    BY <1>3, <2>1, <2>2 DEF View!ViewNext, View!WindowCloses, View!consentView
<1> QED
  BY <1>1, <1>2, <1>3

\* The tunnel's view of the consent is one the consent manager implements, so what
\* TunnelProofs shows of the view holds of the manager (consent.py refresh,
\* is_active).
THEOREM ConsentIsSeenAsView == Spec => SeenAsView
<1>1. Init => View!ViewInit
  BY DEF Init, Disabled, View!ViewInit, IsActive, ActiveAt
<1>2. TypeOK /\ [Next]_consentVars => [View!ViewNext]_(View!consentView)
  BY ViewStep
<1> QED
  BY <1>1, <1>2, TypeCorrect, PTL DEF Spec, SeenAsView, View!ViewSpec

=============================================================================

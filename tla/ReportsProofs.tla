---------------------------- MODULE ReportsProofs ----------------------------
(***************************************************************************)
(* Theorems about the inventory of module Reports, for every list of       *)
(* sections around the three that depend on each other.                    *)
(***************************************************************************)
EXTENDS Reports, TLAPS

---------------------------------------------------------------------------
(* Types.                                                                  *)

\* a new inventory under way keeps the shape of the old one
LEMMA Shape ==
  ASSUME NEW p \in Payloads, NEW s \in Reported
  PROVE  /\ [p EXCEPT !.ok = @ \ {s}] \in Payloads
         /\ \A v \in Values : s \in Plain =>
              [p EXCEPT !.plain[s] = v, !.ok = @ \cup {s}] \in Payloads
         /\ \A b \in BOOLEAN : [p EXCEPT !.hacsFound = b, !.ok = @ \cup {s}] \in Payloads
         /\ \A q \in SUBSET Repos, o \in SUBSET Reported,
               m \in [Repos -> {"on", "off", "unavailable", "unlisted"}] :
              [p EXCEPT !.repos = q, !.modules = m, !.ok = o] \in Payloads
         /\ \A o \in SUBSET Reported : [p EXCEPT !.ok = o] \in Payloads
PROOF
  BY DEF Payloads

LEMMA ReportsTypeStep ==
  ASSUME ReportsAssumption, ReportsTypeOK, ReportsNext
  PROVE  ReportsTypeOK'
PROOF
<1> Sections \subseteq Reported
  BY DEF Reported
<1>0. 1 \in 1 .. (Len(Order) + 1) /\ Len(Order) \in Nat
  BY DEF ReportsAssumption
<1>1. ASSUME NEW s \in Sections, Reads(s)
      PROVE  /\ part' \in 1 .. (Len(Order) + 1)
             /\ UNCHANGED <<content, loaded, shown, pending, session, at, force, last,
                            refresh, asked, served, allAlong>>
  BY <1>0, <1>1 DEF Reads, ReportsTypeOK, box
<1>2. ASSUME NEW s \in Plain \ {"automations"}, ReadPlain(s)
      PROVE  ReportsTypeOK'
  <2>1. s \in Sections /\ s \in Plain
    BY DEF Plain
  <2>2. content[s] \in Values
    BY <2>1 DEF ReportsTypeOK
  <2>3. current' \in Payloads /\ states' = states
    <3>1. CASE Lost(s)
      BY <1>2, <2>1, <3>1, Shape DEF ReadPlain, Lost, ReportsTypeOK
    <3>2. CASE current' = [current EXCEPT !.plain[s] = content[s], !.ok = @ \cup {s}]
      BY <1>2, <2>1, <2>2, <3>2, Shape DEF ReadPlain, ReportsTypeOK
    <3> QED
      BY <1>2, <3>1, <3>2 DEF ReadPlain
  <2> QED
    BY <1>1, <1>2, <2>1, <2>3 DEF ReadPlain, ReportsTypeOK
<1>3. "integrations" \in Sections /\ "automations" \in Sections /\ "hacs" \in Sections
      /\ "automations" \in Plain
  <2>1. HacsAt - 2 \in 1 .. Len(Order) /\ HacsAt - 1 \in 1 .. Len(Order)
        /\ HacsAt \in 1 .. Len(Order)
    BY <1>0 DEF ReportsAssumption
  <2> QED
    BY <2>1 DEF ReportsAssumption, Sections, Plain
<1>4. CASE ReadIntegrations
  <2>1. current' \in Payloads /\ states' = states
    <3>1. CASE Lost("integrations")
      BY <1>3, <1>4, <3>1, Shape DEF ReadIntegrations, Lost, ReportsTypeOK
    <3>2. CASE current' = [current EXCEPT !.hacsFound = loaded, !.ok = @ \cup {"integrations"}]
      BY <1>3, <1>4, <3>2, Shape DEF ReadIntegrations, ReportsTypeOK
    <3> QED
      BY <1>4, <3>1, <3>2 DEF ReadIntegrations
  <2> QED
    BY <1>1, <1>3, <1>4, <2>1 DEF ReadIntegrations, ReportsTypeOK
<1>5. CASE ReadStates
  <2>1. content["automations"] \in Values
    BY <1>3 DEF ReportsTypeOK
  <2>2. current' \in Payloads
    <3>1. CASE Lost("automations")
      BY <1>3, <3>1, Shape DEF Lost, ReportsTypeOK
    <3>2. CASE current' = [current EXCEPT !.plain["automations"] = content["automations"],
                                          !.ok = @ \cup {"automations"}]
      BY <1>3, <2>1, <3>2, Shape DEF ReportsTypeOK
    <3> QED
      BY <1>5, <3>1, <3>2 DEF ReadStates
  <2>3. states' \in States
    BY <1>5 DEF ReadStates, ReportsTypeOK, States
  <2> QED
    BY <1>1, <1>3, <1>5, <2>2, <2>3 DEF ReadStates, ReportsTypeOK
<1>6. CASE ReadHacs
  <2>1. /\ current \in Payloads /\ current.ok \subseteq Reported
        /\ {"hacs", "hacs_inventory"} \subseteq Reported
    BY <1>3 DEF ReportsTypeOK, Payloads, Reported
  <2>2. /\ HacsRepositories \in SUBSET Repos
        /\ HacsModules \in [Repos -> {"on", "off", "unavailable", "unlisted"}]
    BY DEF HacsRepositories, HacsModules, ReportsTypeOK, States, Unlisted
  <2>3. current' \in Payloads
    <3>1. CASE HacsLost
      <4>1. current' = [current EXCEPT !.ok = current.ok \ {"hacs", "hacs_inventory"}]
        BY <3>1, <2>1 DEF HacsLost
      <4>2. current.ok \ {"hacs", "hacs_inventory"} \in SUBSET Reported
        BY <2>1
      <4> QED
        BY <1>6, <2>1, <4>1, <4>2, Shape DEF ReadHacs
    <3>2. CASE current' = [current EXCEPT
                 !.repos = HacsRepositories,
                 !.modules = HacsModules,
                 !.ok = (@ \ {"hacs"}) \cup {"hacs_inventory"}
                          \cup (IF HacsIsCurrent THEN {"hacs"} ELSE {})]
      <4> DEFINE o == (current.ok \ {"hacs"}) \cup {"hacs_inventory"}
                        \cup (IF HacsIsCurrent THEN {"hacs"} ELSE {})
      <4>1. o \in SUBSET Reported
        BY <2>1
      <4>2. current' = [current EXCEPT !.repos = HacsRepositories, !.modules = HacsModules,
                                       !.ok = o]
        BY <3>2
      <4> HIDE DEF o
      <4> QED
        BY <1>6, <2>1, <2>2, <4>1, <4>2, Shape DEF ReadHacs
    <3> QED
      BY <1>6, <3>1, <3>2 DEF ReadHacs
  <2>4. states' \in States
    BY <1>6 DEF ReadHacs, Unread, States
  <2> QED
    BY <1>1, <1>3, <1>6, <2>3, <2>4 DEF ReadHacs, ReportsTypeOK
<1>7. CASE SessionStarts
  BY <1>0, <1>7 DEF SessionStarts, StartCollection, ReportsTypeOK, States, Unread, box
<1>8. CASE WakesByTimer \/ WakesForRequest
  BY <1>0, <1>8 DEF WakesByTimer, WakesForRequest, Wake, StartCollection, ReportsTypeOK,
                    States, Unread, box
<1>9. CASE CollectionEnds
  <2>1. PICK sends \in BOOLEAN : Collected(sends)
    BY <1>9 DEF CollectionEnds
  <2>2. /\ at = "reading" /\ at' = "waiting"
        /\ asked' = IF asked = "collected" THEN "no" ELSE asked
        /\ force' = FALSE
        /\ last' \in {current, last} /\ served' \in BOOLEAN
    BY <2>1 DEF Collected, ReportsTypeOK
  <2>3. UNCHANGED <<content, loaded, shown, pending, session, part, current, states,
                    refresh, allAlong>>
    BY <1>9 DEF CollectionEnds, box
  <2> QED
    BY <2>2, <2>3 DEF ReportsTypeOK
<1>10. CASE LoopEnds
  BY <1>10 DEF LoopEnds, ReportsTypeOK, box
<1>11. CASE CommandEnds
  BY <1>11 DEF CommandEnds, ReportsTypeOK, box
<1>12. CASE ConnectionBreaks \/ SessionCloses
  BY <1>12 DEF ConnectionBreaks, SessionCloses, ReportsTypeOK, box
<1>13. CASE AgentRestarts
  <2>1. Empty \in Payloads /\ Unread \in States
    BY DEF Empty, Payloads, Unread, Unlisted, States
  <2> QED
    BY <1>0, <1>13, <2>1 DEF AgentRestarts, ReportsTypeOK, box
<1>14. CASE BoxChanges
  BY <1>14 DEF BoxChanges, ReportsTypeOK
<1>15. CASE HaRestarts
  BY <1>15 DEF HaRestarts, ReportsTypeOK
<1> QED
  BY <1>2, <1>4, <1>5, <1>6, <1>7, <1>8, <1>9, <1>10, <1>11, <1>12, <1>13, <1>14, <1>15
     DEF ReportsNext, ReadSection

\* Types, and a request that has not been taken up is still set, for every list
\* of sections, whenever commands end, sessions break and the process restarts
\* (agent.py _inventory_loop).
THEOREM ReportsTypeCorrect == ReportsSpec => []ReportsTypeOK
PROOF
<1>1. ReportsInit => ReportsTypeOK
  <2>1. Empty \in Payloads /\ Unread \in States
    BY DEF Empty, Payloads, Unread, Unlisted, States
  <2>2. 1 \in 1 .. (Len(Order) + 1)
    BY ReportsAssumption DEF ReportsAssumption
  <2> QED
    BY <2>1, <2>2 DEF ReportsInit, ReportsTypeOK
<1>2. ReportsTypeOK /\ [ReportsNext]_reportsVars => ReportsTypeOK'
  <2>1. ASSUME ReportsTypeOK, ReportsNext PROVE ReportsTypeOK'
    BY <2>1, ReportsTypeStep, ReportsAssumption
  <2>2. ASSUME ReportsTypeOK, UNCHANGED reportsVars PROVE ReportsTypeOK'
    BY <2>2 DEF ReportsTypeOK, reportsVars, box
  <2> QED
    BY <2>1, <2>2
<1> QED
  BY <1>1, <1>2, PTL DEF ReportsSpec

---------------------------------------------------------------------------
(* No update is lost between two reads.                                    *)

\* A state that is read as off was off: its update was not pending. What the
\* reads of one collection contradict is never called current.
Honest ==
  /\ \A r \in allAlong : states[r] # "off"
  /\ NoFalseClear

\* what the reading of a plain section leaves alone
LEMMA Apart ==
  ASSUME NEW p \in Payloads, NEW s \in Plain, NEW v
  PROVE  LET q == [p EXCEPT !.plain[s] = v, !.ok = @ \cup {s}]
             l == [p EXCEPT !.ok = @ \ {s}]
         IN /\ q.repos = p.repos /\ q.hacsFound = p.hacsFound /\ q.modules = p.modules
            /\ \A h \in q.ok : h = s \/ h \in p.ok
            /\ l.repos = p.repos /\ l.hacsFound = p.hacsFound /\ l.modules = p.modules
            /\ l.ok \subseteq p.ok
PROOF
  BY DEF Payloads, Plain

LEMMA HonestStep ==
  ASSUME ReportsAssumption, ReportsTypeOK, Honest, ReportsNext
  PROVE  Honest'
PROOF
<1>1. ASSUME NEW s \in Sections, Reads(s), s # "hacs"
      PROVE  part # HacsAt /\ (part' > HacsAt => part > HacsAt)
  BY <1>1 DEF Reads, ReportsAssumption, ReportsTypeOK
<1>2. "integrations" \in Sections /\ "automations" \in Sections
  <2>1. HacsAt - 2 \in 1 .. Len(Order) /\ HacsAt - 1 \in 1 .. Len(Order)
    BY DEF ReportsAssumption
  <2> QED
    BY <2>1 DEF ReportsAssumption, Sections
<1>3. /\ current \in Payloads /\ states \in States /\ allAlong \subseteq Repos
      /\ allAlong \subseteq pending
  BY DEF ReportsTypeOK
<1>4. ASSUME NEW s \in Plain \ {"automations"}, ReadPlain(s)
      PROVE  Honest'
  <2>1. s \in Sections /\ s # "hacs" /\ s # "hacs_inventory"
    BY DEF Plain, ReportsAssumption
  <2>2. Reads(s) /\ states' = states
    BY <1>4 DEF ReadPlain
  <2>3. /\ current'.repos = current.repos /\ current'.hacsFound = current.hacsFound
        /\ current'.modules = current.modules
        /\ \A h \in current'.ok : h = s \/ h \in current.ok
    <3>1. CASE Lost(s)
      BY <1>3, <2>1, <3>1, Apart DEF Lost
    <3>2. CASE current' = [current EXCEPT !.plain[s] = content[s], !.ok = @ \cup {s}]
      BY <1>3, <2>1, <3>2, Apart
    <3> QED
      BY <1>4, <3>1, <3>2 DEF ReadPlain
  <2>4. part' > HacsAt => part > HacsAt
    BY <1>1, <2>1, <2>2
  <2>5. /\ "hacs" \in current'.ok => "hacs" \in current.ok
        /\ "hacs_inventory" \in current'.ok => "hacs_inventory" \in current.ok
    BY <2>1, <2>3
  <2> QED
    BY <2>2, <2>3, <2>4, <2>5 DEF Reads, Honest, NoFalseClear, HacsReported, ModulesReported
<1>5. CASE ReadStates
  <2>1. Reads("automations")
    BY <1>5 DEF ReadStates
  <2>2. /\ current'.repos = current.repos /\ current'.hacsFound = current.hacsFound
        /\ current'.modules = current.modules
        /\ \A h \in current'.ok : h = "automations" \/ h \in current.ok
    <3>1. "automations" \in Plain
      BY <1>2 DEF Plain
    <3>2. CASE Lost("automations")
      BY <1>3, <3>1, <3>2, Apart DEF Lost
    <3>3. CASE current' = [current EXCEPT !.plain["automations"] = content["automations"],
                                          !.ok = @ \cup {"automations"}]
      BY <1>3, <3>1, <3>3, Apart
    <3> QED
      BY <1>5, <3>2, <3>3 DEF ReadStates
  <2>3. part' > HacsAt => part > HacsAt
    BY <1>1, <1>2, <2>1
  <2>4. \A r \in allAlong : states'[r] # "off"
    BY <1>3, <1>5 DEF ReadStates, Honest
  <2> QED
    BY <2>1, <2>2, <2>3, <2>4 DEF Reads, Honest, NoFalseClear, HacsReported, ModulesReported
<1>6. CASE ReadIntegrations
  <2>1. Reads("integrations") /\ states' = states
    BY <1>6 DEF ReadIntegrations
  <2>2. part = HacsAt - 2
    BY <2>1 DEF Reads, ReportsAssumption, ReportsTypeOK
  <2>3. ~(part' > HacsAt)
    BY <2>1, <2>2 DEF Reads, ReportsAssumption
  <2> QED
    BY <2>1, <2>3 DEF Reads, Honest, NoFalseClear, HacsReported, ModulesReported
<1>7. CASE ReadHacs
  <2>1. Reads("hacs") /\ states' = Unread
    BY <1>7 DEF ReadHacs
  <2>2. ASSUME "hacs" \in current'.ok, current'.hacsFound
        PROVE  allAlong \subseteq current'.repos
    <3>0. PICK o : /\ current' = [current EXCEPT !.repos = HacsRepositories,
                                                !.modules = HacsModules, !.ok = o]
                   /\ o = (current.ok \ {"hacs"}) \cup {"hacs_inventory"}
                            \cup (IF HacsIsCurrent THEN {"hacs"} ELSE {})
      <4>1. ~HacsLost
        BY <1>3, <2>2 DEF HacsLost, Payloads
      <4> QED
        BY <1>7, <4>1 DEF ReadHacs
    <3>1. /\ current.hacsFound /\ HacsIsCurrent
          /\ current'.repos = HacsRepositories
      <4>1. /\ current'.ok = o /\ current'.repos = HacsRepositories
            /\ current'.hacsFound = current.hacsFound
        BY <1>3, <3>0 DEF Payloads
      <4> QED
        BY <2>2, <3>0, <4>1
    <3>2. \A r \in allAlong : r \in Repos /\ states[r] = "on"
      BY <1>3, <3>1 DEF HacsIsCurrent, Honest, States
    <3> QED
      BY <3>1, <3>2 DEF HacsRepositories
  <2>3. ASSUME "hacs_inventory" \in current'.ok, current'.hacsFound, NEW r \in allAlong
        PROVE  current'.modules[r] # "off"
    <3>1. current.hacsFound /\ current'.modules = HacsModules
      BY <1>3, <1>7, <2>3 DEF ReadHacs, HacsLost, Payloads
    <3> QED
      BY <3>1 DEF HacsModules, Honest
  <2> QED
    <3>1. allAlong' = allAlong /\ \A r \in allAlong' : states'[r] # "off"
      BY <1>3, <2>1 DEF Reads, Unread
    <3>2. NoFalseClear'
      BY <2>2, <2>3, <3>1 DEF NoFalseClear, HacsReported, ModulesReported
    <3> QED
      BY <3>1, <3>2 DEF Honest
<1>8. CASE SessionStarts \/ WakesByTimer \/ WakesForRequest
  <2>1. StartCollection
    BY <1>8 DEF SessionStarts, WakesByTimer, WakesForRequest, Wake
  <2>2. part' = 1 /\ states' = Unread /\ allAlong' = pending /\ pending \subseteq Repos
    BY <2>1 DEF StartCollection, ReportsTypeOK
  <2>3. ~(part' > HacsAt)
    BY <2>2 DEF ReportsAssumption
  <2> QED
    BY <2>2, <2>3 DEF Honest, NoFalseClear, HacsReported, ModulesReported, Unread
<1>9. CASE AgentRestarts
  BY <1>3, <1>9 DEF AgentRestarts, Honest, NoFalseClear, HacsReported, ModulesReported, Unread
<1>10. CASE CollectionEnds \/ LoopEnds \/ CommandEnds \/ ConnectionBreaks \/ SessionCloses
            \/ HaRestarts
  <2>1. UNCHANGED <<part, current, states, allAlong>> /\ (at' # "off" => at # "off")
    BY <1>10 DEF CollectionEnds, Collected, LoopEnds, CommandEnds, ConnectionBreaks,
                 SessionCloses, HaRestarts
  <2> QED
    BY <2>1 DEF Honest, NoFalseClear, HacsReported, ModulesReported
<1>11. CASE BoxChanges
  <2>1. UNCHANGED <<at, part, current, states>> /\ allAlong' \subseteq allAlong
    BY <1>11 DEF BoxChanges
  <2> QED
    BY <2>1 DEF Honest, NoFalseClear, HacsReported, ModulesReported
<1> QED
  BY <1>4, <1>5, <1>6, <1>7, <1>8, <1>9, <1>10, <1>11 DEF ReportsNext, ReadSection

\* Whatever the box does between the reads of one collection, and whichever of
\* them fail, a HACS section that is called ok leaves out no update that was
\* pending all along, nor does an ok list of modules deny it, once HACS was
\* found (collectors.py inventory_payload).
THEOREM NothingCleared == ReportsSpec => []NoFalseClear
PROOF
<1>1. ReportsInit => Honest
  BY DEF ReportsInit, Honest, NoFalseClear, HacsReported, ModulesReported
<1>2. ReportsTypeOK /\ Honest /\ [ReportsNext]_reportsVars => Honest'
  <2>1. ASSUME ReportsTypeOK, Honest, ReportsNext PROVE Honest'
    BY <2>1, HonestStep, ReportsAssumption
  <2>2. ASSUME Honest, UNCHANGED reportsVars PROVE Honest'
    BY <2>2 DEF Honest, NoFalseClear, HacsReported, ModulesReported, reportsVars
  <2> QED
    BY <2>1, <2>2
<1>3. Honest => NoFalseClear
  BY DEF Honest
<1> QED
  BY <1>1, <1>2, <1>3, ReportsTypeCorrect, PTL DEF ReportsSpec

---------------------------------------------------------------------------
(* The server has what the agent remembers.                                *)

\* While a working session has not been served, its first inventory is under way.
Serving == session = "open" => served \/ (force /\ at = "reading")

\* The agent never takes a lost inventory for one the server has once the
\* first of the session is out, for every order of losses, failing reads and
\* reconnections (agent.py _send_inventory, _serve).
THEOREM ServerKeepsUp == ReportsSpec => []ServerHasLast
PROOF
<1>1. ReportsInit => Serving
  BY DEF ReportsInit, Serving
<1>2. ReportsTypeOK /\ Serving /\ [ReportsNext]_reportsVars => Serving'
  <2>1. ASSUME ReportsTypeOK, Serving, CollectionEnds PROVE Serving'
    <3>1. PICK due \in BOOLEAN : Collected(force \/ due \/ current.ok # {} \/ current # last)
      BY <2>1 DEF CollectionEnds
    <3>2. session' = session
      BY <2>1 DEF CollectionEnds
    <3>3. CASE force
      BY <3>1, <3>2, <3>3 DEF Collected, Serving
    <3>4. CASE ~force
      BY <2>1, <3>1, <3>2, <3>4 DEF Collected, Serving
    <3> QED
      BY <2>1, <3>3, <3>4
  <2>2. ASSUME Serving, SessionStarts PROVE Serving'
    BY <2>2 DEF SessionStarts, StartCollection, Serving
  <2>3. ASSUME Serving, WakesByTimer \/ WakesForRequest PROVE Serving'
    BY <2>3 DEF WakesByTimer, WakesForRequest, Wake, Serving
  <2>4. ASSUME Serving, ReadSection PROVE Serving'
    BY <2>4 DEF ReadSection, ReadPlain, ReadIntegrations, ReadStates, ReadHacs, Reads, Serving
  <2>5. ASSUME Serving, LoopEnds \/ CommandEnds \/ ConnectionBreaks \/ SessionCloses
                        \/ AgentRestarts \/ BoxChanges \/ HaRestarts \/ UNCHANGED reportsVars
        PROVE  Serving'
    BY <2>5 DEF LoopEnds, CommandEnds, ConnectionBreaks, SessionCloses, AgentRestarts,
                BoxChanges, HaRestarts, reportsVars, Serving
  <2> QED
    BY <2>1, <2>2, <2>3, <2>4, <2>5 DEF ReportsNext
<1>3. Serving => ServerHasLast
  BY DEF Serving, ServerHasLast
<1> QED
  BY <1>1, <1>2, <1>3, ReportsTypeCorrect, PTL DEF ReportsSpec

=============================================================================

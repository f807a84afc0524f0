------------------------------ MODULE Reports ------------------------------
(***************************************************************************)
(* The inventory: collected section by section from the Supervisor and     *)
(* Home Assistant, which go on changing and may fail, and sent to the      *)
(* relay, at the start of a session and then by a loop that a timer or the *)
(* end of a command wakes (agent.py, collectors.py).                       *)
(*                                                                         *)
(* A delay is any delay: when the timer wakes the loop, and whether the    *)
(* inventory is due by then, is left open.  Calls fail with the error that *)
(* the collectors handle; what they raise on an answer of another shape    *)
(* ends the task and is left out.                                          *)
(***************************************************************************)
EXTENDS Naturals, Sequences, FiniteSets

CONSTANTS
  Order,    \* the sections in the order in which they are read
  HacsAt,   \* the place of the HACS section, after the two it is made from
  Values,   \* what a plain section may say
  Repos,    \* what HACS has installed: the registry of entities lists it
  Nothing   \* neither a value nor a payload

Sections == {Order[i] : i \in 1 .. Len(Order)}
Plain    == Sections \ {"integrations", "hacs"}
\* what is called ok or not: the HACS section is read with the list of its modules
Reported == Sections \cup {"hacs_inventory"}

ASSUME ReportsAssumption ==
  /\ Order \in Seq(STRING)
  /\ \A i, j \in 1 .. Len(Order) : Order[i] = Order[j] => i = j
  /\ HacsAt \in 3 .. Len(Order)
  /\ Order[HacsAt - 2] = "integrations" /\ Order[HacsAt - 1] = "automations"
  /\ Order[HacsAt] = "hacs" /\ "hacs_inventory" \notin Sections
  /\ Nothing \notin Values

VARIABLES
  content,  \* box: what each plain section says now
  loaded,   \* box: Home Assistant has loaded HACS
  shown,    \* box: the update entities that have a state, on or off
  pending,  \* box: the repositories with an update
  session,  \* "none", "open", "broken" (nothing arrives), "closed" (noticed)
  at,       \* what the task does: nothing, collect, wait
  part,     \* the section to be read next
  force,    \* the collection is the one of the start of the session
  current,  \* the inventory under way; at rest, _inventory
  states,   \* the states this collection has read
  last,     \* _last_inventory
  refresh,  \* _inventory_refresh
  asked,    \* history: one of the commands that have ended, and its request
  served,   \* history: the server has got the inventory of last
  allAlong  \* history: the updates pending since this collection began

box         == <<content, loaded, shown, pending>>
reportsVars == <<box, session, at, part, force, current, states, last, refresh,
                 asked, served, allAlong>>

States   == [Repos -> {"on", "off", "unavailable"}]
Payloads == [plain : [Plain -> Values \cup {Nothing}], hacsFound : BOOLEAN,
             repos : SUBSET Repos, modules : [Repos -> {"on", "off", "unavailable", "unlisted"}],
             ok : SUBSET Reported]
Unread   == [r \in Repos |-> "unavailable"]
Unlisted == [r \in Repos |-> "unlisted"]
Empty    == [plain |-> [s \in Plain |-> Nothing], hacsFound |-> FALSE,
             repos |-> {}, modules |-> Unlisted, ok |-> {}]

\* The variables have their types; the task runs in a session only, and no
\* request is held back while the task waits for one.
ReportsTypeOK ==
  /\ content \in [Plain -> Values]
  /\ loaded \in BOOLEAN
  /\ shown \subseteq Repos /\ pending \subseteq Repos
  /\ session \in {"none", "open", "broken", "closed"}
  /\ at \in {"off", "reading", "waiting"}
  /\ (at = "off") = (session = "none")
  /\ part \in 1 .. (Len(Order) + 1)
  /\ force \in BOOLEAN
  /\ current \in Payloads
  /\ states \in States
  /\ last \in Payloads \cup {Nothing}
  /\ refresh \in BOOLEAN
  /\ asked \in {"no", "waits", "collected"}
  /\ asked = "waits" => refresh
  /\ asked = "collected" => at = "reading"
  /\ served \in BOOLEAN
  /\ allAlong \subseteq pending

ReportsInit ==
  /\ content \in [Plain -> Values]
  /\ loaded \in BOOLEAN
  /\ shown = {} /\ pending = {}
  /\ session = "none" /\ at = "off"
  /\ part = 1 /\ force = FALSE
  /\ current = Empty /\ states = Unread
  /\ last = Nothing
  /\ refresh = FALSE
  /\ asked = "no" /\ served = FALSE /\ allAlong = {}

---------------------------------------------------------------------------
(* The session and its inventory loop.                                     *)

StartCollection ==
  /\ at' = "reading"
  /\ part' = 1
  /\ asked' = IF asked = "waits" THEN "collected" ELSE asked
  /\ allAlong' = pending
  /\ states' = Unread

\* mutant: a new session trusts what was sent in the old one
SessionStartsQuietly ==
  /\ session = "none"
  /\ session' = "open"
  /\ StartCollection
  /\ force' = FALSE
  /\ UNCHANGED <<box, current, last, refresh, served>>

\* _serve(): the first inventory is sent whatever it says; a request of a
\* command that ended between two sessions stays set
SessionStarts ==
  /\ session = "none"
  /\ session' = "open"
  /\ StartCollection
  /\ force' = TRUE
  /\ UNCHANGED <<box, current, last, refresh, served>>

\* the loop wakes and forgets the request before it collects
Wake ==
  /\ at = "waiting" /\ session # "closed"
  /\ refresh' = FALSE
  /\ StartCollection
  /\ force' = FALSE
  /\ UNCHANGED <<box, session, current, last, served>>

WakesByTimer == Wake

WakesForRequest == refresh /\ Wake

\* collected and sent: _send_inventory() tells what it compared and recorded,
\* not what has arrived; a session that is closed may still have a socket
Collected(sends) ==
  /\ at = "reading" /\ part > Len(Order)
  /\ at' = "waiting"
  /\ asked' = IF asked = "collected" THEN "no" ELSE asked
  /\ force' = FALSE
  /\ IF sends
       THEN /\ last' = current
            /\ \/ session \in {"open", "closed"} /\ served' = TRUE
               \/ session \in {"broken", "closed"} /\ served' = FALSE
       ELSE UNCHANGED <<last, served>>

\* mutant: the request is forgotten once it has been answered
CollectionEndsAndClears ==
  /\ \E due \in BOOLEAN : Collected(force \/ due \/ current # last)
  /\ refresh' = FALSE
  /\ UNCHANGED <<box, session, part, current, states, allAlong>>

\* A section that was read has a new time stamp: the inventory then differs
\* from the last one even if it says the same.
CollectionEnds ==
  /\ \E due \in BOOLEAN : Collected(force \/ due \/ current.ok # {} \/ current # last)
  /\ UNCHANGED <<box, session, part, current, states, refresh, allAlong>>

LoopEnds ==
  /\ at = "waiting" /\ session = "closed"
  /\ at' = "off" /\ session' = "none"
  /\ UNCHANGED <<box, part, force, current, states, last, refresh, asked, served, allAlong>>

---------------------------------------------------------------------------
(* inventory_payload(): one section after the other.                       *)

Reads(s) ==
  /\ at = "reading" /\ part <= Len(Order) /\ Order[part] = s
  /\ part' = part + 1
  /\ UNCHANGED <<box, session, at, force, last, refresh, asked, served, allAlong>>

\* a section that could not be read keeps its value
Lost(s) == current' = [current EXCEPT !.ok = @ \ {s}]

ReadPlain(s) ==
  /\ Reads(s)
  /\ \/ Lost(s)
     \/ current' = [current EXCEPT !.plain[s] = content[s], !.ok = @ \cup {s}]
  /\ UNCHANGED states

ReadIntegrations ==
  /\ Reads("integrations")
  /\ \/ Lost("integrations")
     \/ current' = [current EXCEPT !.hacsFound = loaded, !.ok = @ \cup {"integrations"}]
  /\ UNCHANGED states

\* the automations are counted in the states of all entities; those of the
\* updates are kept for the next section
ReadStates ==
  /\ Reads("automations")
  /\ \/ Lost("automations") /\ UNCHANGED states
     \/ /\ current' = [current EXCEPT !.plain["automations"] = content["automations"],
                                      !.ok = @ \cup {"automations"}]
        /\ states' = [r \in Repos |-> IF r \notin shown THEN "unavailable"
                                      ELSE IF r \in pending THEN "on" ELSE "off"]

\* mutant: an update entity without a state is taken for one that is off
HacsIsCurrentAlways == TRUE

\* "unavailable HACS update entities must not mean 'no updates'"
HacsIsCurrent == current.hacsFound => \A r \in Repos : states[r] # "unavailable"

\* the update entities of the registry that are on
HacsRepositories == {r \in Repos : current.hacsFound /\ states[r] = "on"}

\* hacs_inventory(): every module of the registry, with its state or without
HacsModules == IF current.hacsFound THEN states ELSE Unlisted

HacsLost == current' = [current EXCEPT !.ok = @ \ {"hacs", "hacs_inventory"}]

\* Both lists are replaced as soon as the registry was read, and the one of the modules
\* is called ok before it is known whether their updates have a state.
ReadHacs ==
  /\ Reads("hacs")
  /\ \/ /\ ~({"integrations", "automations"} \subseteq current.ok) \/ current.hacsFound
        /\ HacsLost
     \/ /\ {"integrations", "automations"} \subseteq current.ok
        /\ current' = [current EXCEPT
             !.repos = HacsRepositories,
             !.modules = HacsModules,
             !.ok = (@ \ {"hacs"}) \cup {"hacs_inventory"}
                      \cup (IF HacsIsCurrent THEN {"hacs"} ELSE {})]
  /\ states' = Unread

ReadSection ==
  \/ \E s \in Plain \ {"automations"} : ReadPlain(s)
  \/ ReadIntegrations \/ ReadStates \/ ReadHacs

---------------------------------------------------------------------------
(* The world.                                                              *)

\* _run_command(): the end of an update or a restart asks for an inventory.
\* History follows one request at a time, any of them.
CommandEnds ==
  /\ refresh' = TRUE
  /\ asked' \in IF asked = "no" THEN {"no", "waits"} ELSE {asked}
  /\ UNCHANGED <<box, session, at, part, force, current, states, last, served, allAlong>>

ConnectionBreaks ==
  /\ session = "open"
  /\ session' = "broken"
  /\ UNCHANGED <<box, at, part, force, current, states, last, refresh, asked, served, allAlong>>

SessionCloses ==
  /\ session \in {"open", "broken"}
  /\ session' = "closed"
  /\ UNCHANGED <<box, at, part, force, current, states, last, refresh, asked, served, allAlong>>

AgentRestarts ==
  /\ session' = "none" /\ at' = "off"
  /\ part' = 1 /\ force' = FALSE
  /\ current' = Empty /\ states' = Unread
  /\ last' = Nothing
  /\ refresh' = FALSE
  /\ asked' = "no" /\ served' = FALSE
  /\ UNCHANGED <<box, allAlong>>

BoxChanges ==
  /\ \/ /\ \E s \in Plain, v \in Values : content' = [content EXCEPT ![s] = v]
        /\ UNCHANGED <<loaded, shown, pending, allAlong>>
     \/ /\ loaded' = TRUE
        /\ UNCHANGED <<content, shown, pending, allAlong>>
     \/ /\ \E r \in Repos : loaded /\ shown' = shown \cup {r}
        /\ UNCHANGED <<content, loaded, pending, allAlong>>
     \/ /\ \E r \in Repos : pending' = pending \cup {r}
        /\ UNCHANGED <<content, loaded, shown, allAlong>>
     \/ /\ \E r \in Repos : pending' = pending \ {r} /\ allAlong' = allAlong \ {r}
        /\ UNCHANGED <<content, loaded, shown>>
  /\ UNCHANGED <<session, at, part, force, current, states, last, refresh, asked, served>>

\* Home Assistant starts again: its components are loaded one by one, and an
\* entity has no state until its integration is
HaRestarts ==
  /\ loaded' = FALSE /\ shown' = {}
  /\ UNCHANGED <<content, pending, session, at, part, force, current, states, last,
                 refresh, asked, served, allAlong>>

---------------------------------------------------------------------------
ReportsNext ==
  \/ SessionStarts \/ WakesByTimer \/ WakesForRequest
  \/ ReadSection \/ CollectionEnds \/ LoopEnds
  \/ CommandEnds \/ ConnectionBreaks \/ SessionCloses \/ AgentRestarts
  \/ BoxChanges \/ HaRestarts

ReportsSpec == ReportsInit /\ [][ReportsNext]_reportsVars

\* A call to the Supervisor ends or times out, a set event wakes the loop; the
\* timer may be as slow as it likes.
ReportsFairSpec ==
  /\ ReportsSpec
  /\ WF_reportsVars(ReadSection)
  /\ WF_reportsVars(CollectionEnds)
  /\ WF_reportsVars(WakesForRequest)

---------------------------------------------------------------------------
(* Properties.                                                             *)

\* The HACS section has been handled in this collection, and is called ok
HacsReported == at # "off" /\ part > HacsAt /\ "hacs" \in current.ok

\* so has the list of its modules
ModulesReported == at # "off" /\ part > HacsAt /\ "hacs_inventory" \in current.ok

\* Once HACS was found, an update that is pending from the beginning of the collection
\* to its end is in a HACS section that calls itself ok, and no list of modules that
\* calls itself ok says of its module that there is none, although integrations, states
\* and registry are read one after the other and Home Assistant may restart in between
\* (collectors.py inventory_payload).
NoFalseClear ==
  current.hacsFound =>
    /\ HacsReported => allAlong \subseteq current.repos
    /\ ModulesReported => \A r \in allAlong : current.modules[r] # "off"

\* While the connection works, the server has the inventory the agent compares
\* the next one with, whatever was lost in earlier sessions and whatever could
\* not be read since (agent.py _send_inventory, _serve).
ServerHasLast == at = "waiting" /\ session = "open" => served

\* The request of a command that ends, be it in the middle of a collection, is
\* answered by a collection that begins after it, without waiting for the
\* timer, unless the session is over (agent.py _inventory_loop).
RequestAnswered == asked # "no" ~> (asked = "no" \/ session # "open")

---------------------------------------------------------------------------
(* What the documentation says and the code does not keep.                 *)

\* "Unavailable HACS update entities must not mean 'no updates'" (collectors.py): also
\* while Home Assistant loads its components, when HACS is not among them yet.
ClearMeansClear == HacsReported => allAlong \subseteq current.repos

\* "Inventory sections retain their last successful values and timestamp during a
\* collection failure" (DOCS.md): the HACS section as well.
FailureKeepsHacs ==
  [][at = "reading" /\ at' = "reading" /\ "hacs" \notin current'.ok
       => current'.repos = current.repos]_reportsVars

=============================================================================

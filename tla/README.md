# Verification of the HA Supervisor Agent

TLA+ models of the add-on in `src/hasup_agent`, the TLC runs that check them on
small instances, and theorems about them checked by TLAPS. The agent is one
asyncio process: a coroutine gives up control only where it awaits, so in every
module **a step is what one task does from one await to the next**, and steps of
different tasks interleave freely.

## Inventory

| component | state it keeps | operations | talks to |
|---|---|---|---|
| consent (`consent.py`) | `_status`, `_previous_entity_on`, and `consent_activated_at` in `/data` | `refresh`, `is_active`; listeners on a change | Home Assistant through `supervisor.py`; `state.py`; the agent's listener |
| durable state (`state.py`) | one JSON file, replaced atomically | credentials, used enrolment code, consent instant | consent, agent |
| command executor (`commands.py`) | `_maintenance_lock`, `_self_slug` | `execute`: lock, deadline, consent gate, self guard, Supervisor call under a time-out | consent, Supervisor, HACS updater |
| tunnel client (`tunnel.py`) | `_streams`, `_deadlines`; per stream `_closed`, pump, sequence numbers, reorder buffer | `_open`, `_data`, `_close`, `close_all`; pump and `_expire` tasks | consent, relay session, the local Home Assistant |
| agent (`agent.py`) | stop and session events, the session, command tasks, inventory bookkeeping | run loop, enrolment, session with eight tasks, `_send`, consent listener | everything |
| HACS updater (`hacs.py`) | none but the progress it reports | backup, second gate, install or restart, verification | Supervisor, Home Assistant, consent |
| log watcher (`logwatch.py`) | ring of processed records, deduplication table, token bucket | `poll`, `offer`, rate-limit summary | Supervisor, agent |
| collectors (`collectors.py`) | last inventory, times of last success | telemetry, inventory, disk usage | Supervisor, Home Assistant |
| enrolment, delay (`enroll.py`, `backoff.py`) | attempt counter | exchange a code, next delay | server |
| metrics, settings, protocol, Supervisor client | none that matters here | reading, parsing, validation, HTTP | files, network |

**How they interact.** The consent is the centre. It is refreshed by four kinds
of tasks: the polling loop, every command before it runs (and a HACS command once
more after its backup), and the receive loop before it opens a tunnel. They share one
`_status` without a lock. A refresh that changes the status awaits the agent's
listener, which closes all tunnels if the consent is gone and sends
`consent_state`. Commands are tasks that outlive the session they came in; their
results go to whatever session is open when they end.

**What is hard.** Replies handled in another order than they were asked for;
conditions tested before an await and relied on after it; a table cleared after
the last await of a loop over its copy; a failing `turn_off`; restarts of Home
Assistant, which first forget the helpers and then restore them with a new `last_changed`; restarts of the agent
at any point; a time-out that ends a call and not its job; results without a
session. `PROJECT.json` lists each with its line and the properties on it.

**What makes each component correct** (not all of it is kept, see below). Consent: no
window longer than the customer gave, not even through restarts; what is active is on
disk; an expired helper gets switched off; a withdrawal is noticed. Executor: one
execution at a time, never without consent, never on itself, true answers, always an answer. Tunnel: opened only with
consent, within the limit, watched while open, closed at the deadline and when the
consent ends, and the server not left to believe in a consent that is over. Agent: enrolment survives crashes and lost answers, sessions end and
come back, a stop request stops. HACS: nothing is installed without a verified
backup, a live consent and the confirmed version. A stream: frames in order in both
directions, nothing after its close, and the receive loop never caught in it. Log
watcher: each record at most once, none swallowed uncounted, the rate bounded. Reports:
no update reported as gone while it is pending, the server never behind what the agent
compares with, and no request for an inventory lost.

## Modules

### Consent (`consent.py`, part of `state.py`)

`StartRead` is `refresh()` up to the await of `ha_state()`; the reply is what
Home Assistant holds at that moment and is handled any number of steps later by
`ReadFails`, `ReadOff`, `ReadOn`, `ReadExpired`, `OptionOff` or `OptionOn`, one for
each way through `_evaluate`. `ReadExpired` stops at the await of `turn_off`;
`HaTurnsOff` is the service call taking effect, `TurnOffReturns` the rest. Every
way ends in `Commit`, the end of `refresh()`; `Notified` is the return of the
listeners. `ActivationInstant` is `_activation_instant`. `stored` is what `/data`
holds, `status` and `prevOn` are the two attributes of the manager, lost by
`AgentRestart`; the Supervisor restarts the add-on when an option changes, hence
`SetOption` restarts too. The customer and Home Assistant are
`SwitchOn`, `SwitchOff` and `CreateOrDeleteHelper`. `HaRestart` takes Home Assistant down, and
`HaRestores` ends its start: until then (`loaded` is FALSE) a read fails, or, with
`AnswersEarly`, is answered with a 404 or the state "unavailable", which
`supervisor.py:269` and `consent.py:134` take for a helper that is deleted or off. That a
starting Home Assistant may answer so is an assumption about it. Three history
variables say what the properties are about: `onSince`, when the customer last
switched the helper on; `known`, whether the agent has handled a reply of that
switch-on; `optGranted`, when the present option first gave a window.

Time is a counter of coarse ticks that stops at `MaxTime`; `HaRestarts`, `AnswersEarly`,
`TurnOffFails`, `HelperChanges` and `OmitsStamp` say what may go wrong.
A helper switched off and on again between two polls keeps the earlier persisted instant in the
code, and in the model: the window gets shorter, never longer.

**Lease** is what all of this promises: maintenance is allowed under a lease that ends by
the clock (`Tick`), given once (`Grant`), written down before it is in force and then
resumed, not renewed (`Resume`), found to be over (`FindOver`) or given back (`Withdraw`).
`LeaseUntil`, `LeaseGiver` and `LeaseKept` map Consent to it: the lease in force is an
active status, the one on file is the persisted instant plus a window, and a helper last
seen off is what lets `_activation_instant` start a new one. **ConsentView** is what the
rest of the agent sees: `enabled`, `inWindow` and `is_active()`. A status is installed
with its window open or not at all, and then only the clock closes it. Tunnel is built
on ConsentView, and Consent is shown to implement it.

### Maintenance (`commands.py`, `_run_command` and `_send` of `agent.py`)

Extends Consent: `Refreshers` are the commands and the polling loop. A command
is received with any deadline, rejected because the lock is held or its deadline
past, or takes the lock and refreshes the consent with Consent's own actions. The
step that ends that refresh also passes the gate, as in the code, which has no
await between the two. Bad parameters and the guard end a command without a call
(`Reject`). Guarded kinds wait for `self_info()` once, and the command's time-out may end
that too (`GuardTimesOut`); then the call starts a job on the box. `JobEnds` is a call that hears the end of its job,
`CallEnds` one that does not (time-out, broken connection): the job goes on without
the lock (`OrphanEnds`). `Finish` releases the lock and sends the result if there
is a session. `AgentStops` is a shutdown, a crash or a change of options. History:
`withdrawn` follows a command that was received while the helper was off and is not
executed yet, for as long as the helper stays off: "settled" if no refresh under way held
an older answer then, "racing" if one did.

### Tunnel (`tunnel.py`; `_on_consent_change`, `_send_consent_state`, `_serve` of `agent.py`)

Of the consent it has ConsentView, which it extends. A refresh that withdraws the consent
runs the listener in the task that refreshes: `close_all()` first, where `CloseRest` goes
to the next await, the end of a stream's pump, and the last one clears the table; then
`Tell`, the `consent_state` for the server. A refresh that enables or changes only the
expiry or the source tells at once, so the messages of two refreshes may be sent in the
other order than the two statuses were installed. `told` is what the server heard last in
the session of the moment; `SessionEnds` and `SessionStarts` let sessions come and go, and
a session begins with the status as it then is. The receive loop
opens streams one at a time: `ReceiveOpen`, `OpenRefreshed`, `CheckOpen`, then
`Connected` (or `ConnectFails`), which tests the consent and the deadline again.
A stream ends by its pump, its timer, a cancel, a bad frame or `close_all()`. A
stream identifier is used once. The order in which `close_all()` visits the streams is left open.

**StreamLife** is the seam between Tunnel and TunnelStream: a stream in the table is open,
is closed by one task, and the end of that close takes it out of the table, unless
`close_all()` dropped it before. TunnelStream, which has one stream in detail and no
table, is shown to live such a life (`LivesOnce`), and Tunnel, which has the table and a
stream only as a state, to give each stream one (`StreamsLiveOnce`); the map is the same
socket state on both sides (`Sock`, `state[s]`). What may close a stream in one module may
so close it in the other.

### Lifecycle (`run`, enrolment, session of `agent.py`; `enroll.py`, `backoff.py`, `state.py`)

`at` is where the run loop awaits. `LoopTop` is its head: stop, connect, enrol, or
rest when there is nothing to enrol with. A code is exchanged once by the server
(`ServerExchanges`); the answer is `EnrollAccepted`, `EnrollRejected`,
`EnrollUnavailable` or `EnrollNotJson`. `Delay` is `next_delay()` and counts attempts;
its power overflows at `Overflow`. A handshake succeeds, is refused (401, 403) or fails; `HelloAck`
starts the group, of which `alive` keeps three tasks: the receive loop, the task that
closes the connection at a stop, and the periodic loops as one. Each ends on its own
action, `SessionOver` when the last has. `closed` is `_session_closed`, cleared by
`Connect` and set wherever the code sets it. A token has the name of the code it was
exchanged for. `RequestStop` may come at any point, `Dies` too: only `token` and
`usedCode` are left, and a crash between their two writes leaves the first.

### Hacs (`hacs.py`)

One command of either kind, after the executor let it pass. `at` is the await of
`run()`: for an update the first read, the backup, the archive's metadata, the gate
(`_check_consent`), the second read, the installation, the verification; for a restart
the first read, the integrations in error, the gate, the restart, the verification
(`Verify`, `ConfigRead`) and the integrations again. Everything around it moves by
itself: the consent, the versions offered and installed, the archive, the job that an
installation starts, and Home Assistant, which goes down and comes up in stages, its
HACS before itself. A restart pending for a module stays pending until Home Assistant restarts:
that is what HACS does. History: `held` collects whether the consent was active and
the confirmed version offered at some moment since the backup ended; `restarted`,
whether Home Assistant restarted since the first read. A shutdown, which ends the
command without an answer, is in Maintenance. No fairness is stated: that a command ends
is its time-out and nothing else.

### OrderedStream and TunnelStream (`TunnelStream`, `_data`, `_expire` of `tunnel.py`)

`OrderedStream` is the promise for the way in: the local socket gets the frames of the server one
after the other, several at a time, and after a close none. `TunnelStream` is one
stream of the code. A frame is its number, and any frame may arrive at any time, again
or never. `FeedWrites` and `FeedOverflows` are `feed()` up to its await, `Drained` and
`DrainFails` the rest; `Overflows` counts the buffer with the new frame in it, as the
code does. `PumpReads` and `PumpSent` carry one chunk to the relay; the send takes the
session of the moment at its start (`via`) and reaches it if it is still there at its
end. Three tasks may close: the receive loop (`ReceiverCloses`), the pump (`PumpEnds`,
`PumpIsCancelled`) and the timer (`TimerFires`), each only if nobody has (`~closed`;
a pump that ends on a closed stream just ends, `PumpCloses`). `Forgets` and `Tells` are the two
halves of the rest of `close()`, the first with the end of the timer (`TimerCancelled`), and `TellInterrupted` the messages that `cancel()`
or the ten seconds of `_data` cut off. `Tunnel` says when streams close; here a close
may come at any moment.

### LogWatch (`logwatch.py`, `_log_loop` of `agent.py`)

The log is a sequence of lines: the first line of a record (its key says what it is
about, or that its level is too low), a line that continues one, or any other line.
`LogsArrive` parses the last `TailLines` of them; a record is where it starts and how
many lines follow it, for a traceback may be cut by the end of the log and be longer
in the next poll, and its fingerprint and its key are then others. (In the code so if
the new lines fall into the first 200 characters; the model always takes them for
different, which only adds behaviours.) `Absorb` is the first poll, `Ignore`, `Suppress`, `Deny` and
`Report` are the ways through `offer()`, `Summarize` is
`drain_rate_limit_summary()`, `SendNext` an event on its way. The token bucket counts in
ticks: an event costs `Cost`, a tick refills 1. History: what was marked, let through,
accounted for, and when tokens were spent; `AgentRestarts` forgets all of it, as the
process does.

### Reports (inventory loop of `agent.py`, `inventory_payload` of `collectors.py`)

A collection reads the sections in `Order`; each may fail and then keeps its value.
`ReadIntegrations` learns whether HACS is loaded, `ReadStates` counts the automations
and keeps the states of the update entities, `ReadHacs` reads the registry and makes
two lists of all three: the updates (section "hacs") and the modules with their states
("hacs_inventory"), of which the second is called ok before the first is checked
(`HacsIsCurrent`); other sections are `ReadPlain`. A read fails with the error that
the collectors catch; what an answer of another shape raises is left out. Between any two the box
may change and Home Assistant restart, which leaves entities without a state until
their integration is loaded. `CollectionEnds` is `_send_inventory()`: it sends if
forced, due or changed, and records what it sent whether it arrived or not. A session
is open, broken (nothing arrives, nobody knows), or closed. `Wake` clears the request
before the collection; `CommandEnds` sets it. History: `asked` follows one request,
`served` says whether the server has the inventory of `_last_inventory`, `allAlong`
the updates pending since the collection began.

### Proof modules

`ConsentProofs`, `MaintenanceProofs`, `TunnelProofs`, `LifecycleProofs`, `HacsProofs`,
`TunnelStreamProofs`, `LogWatchProofs` and `ReportsProofs` hold the theorems, `MC...`
modules what the runs need.

## Runs

| run | what is in it | what it shows |
|---|---|---|
| `consent_overlap` | 2 refreshers, window 1, clock 3, failing calls, restarts of the agent | `ActiveIsBacked`, `NoLongerThanGiven` (helper and option) for all orders of replies; `IsALease` (implements `Lease`); `ExpiredWindowCloses`, `WithdrawalNoticed` |
| `consent_restarts` | 2 refreshers, window 2, clock 3, restarts of Home Assistant and of the agent, failing calls, helper created and deleted | `NeverExtended` |
| `maintenance` | 2 commands (one guarded and aimed at the agent), polling loop, window 1, clock 1, sessions lost, agent stopped | exclusion (`OneExecutes`), true answers (`AnswersAreTrue`), no execution of what came after the withdrawal (`WithdrawalStopsCommands`), an answer for every command (`EveryCommandEnds`) |
| `tunnel` | 3 streams, limit 2, a polling task beside the receive loop, sessions come and go | limit and watching (`TableIsSound`), consent at opening, one life for each stream (`StreamsLiveOnce`), what the server is told (`NoStaleOn`), deadline and end of consent (`TimerCloses`), end of `close_all()` |
| `lifecycle` | 2 codes, lost and unparsable answers, crashes, an overflow at the third failure in a row | `RefusedCodeIsSpent`, `SessionIsWhole`, `StopStops`, `Reconnects`, `RevocationNoticed` |
| `hacs` | 3 versions: confirmed, older, newer | `InstallIsCovered`, `VerifiedMeansRestarted`, `HacsAnswersTrue` |
| `stream` | 5 frames, window 2, 3 chunks of the pump, 3 sessions | `InOrder` (implements `OrderedStream`), `LivesOnce` (implements `StreamLife`), `NoCutBeforeWindow`, `OutgoingInOrder`, `ReceiverGoesOn` |
| `logwatch` | 5 lines of one key, polls of 3 lines, a ring of 3, one continuation line, one event of 2 ticks, clock 3 | `NothingSwallowed`, `OnceEach`, `RateBound` |
| `reports` | 4 sections, one repository | `NoFalseClear`, `ServerHasLast`, `RequestAnswered` |
| `consent_ha_restart` | 1 refresher, window 2, clock 6, no call fails | `OpenWindowBound` is violated, see below |
| `tunnel_orphan`, `lifecycle_gives_up` | the smallest instance that shows it | `WithdrawalClosesAll`, `NeverGivesUp` are violated, see below |

**Bounds.** Two refreshers are every order of two replies; a third only adds a
later or an earlier one, and the proofs hold for any number. The clock needs to pass
one whole window and reach into a second one (a window of two ticks where Home
Assistant restarts, which leaves a moment within the window for its new `last_changed`);
Maintenance needs an instant with and one without consent, and deadlines on both
sides; `self_info()` does not fail in its run, which doubles the states (its properties hold with
`SelfInfoFails` TRUE as well, and the theorems do not depend on it). Three streams and a limit of two are one stream too many, and one
opened while `close_all()` waits for another. Two codes are the present one and one entered after it.
Three versions are needed for a module that changed to something other than the confirmed one.
A window of two and five frames fill the buffer, overflow it and drain it, with a frame
to spare; three sessions are one that breaks while a send waits, one that takes its
place and one after the last message of the stream.
A poll of three lines holds a record, its continuation and another
record; five lines push the first ones out of the poll and of the ring, which is as
large as a poll, its smallest size that works (`WatchTypeOK` and the theorems hold
for every size). In `reports` a plain section has one value, since a section that was read
differs from the last one by its time stamp anyway, and one repository is enough
because repositories do not touch each other. No symmetry is used.

**Fairness.** A task that is not waiting runs (weak fairness of its steps): asyncio
is a fair scheduler. Each call to Home Assistant or the Supervisor ends, by its
time-out at the latest. Calls may fail, but not always: strong fairness of the
handling of an `off` reply, of an expired one and of `turn_off` says so, and is
needed, because an agent whose calls always fail closes nothing. Consent polling goes
on only while a session is up; `consent_overlap` speaks of that time. A socket
is closed within the five seconds of its `wait_for`, and timers look once a second.
The relay
lets a connection and a `hello_ack` through again and again (strong fairness of `HandshakeOk`,
`HandshakeRefused`, `HelloAck`), or nothing would ever reconnect; a broken connection is
found by the ping of `aiohttp`. A command's task runs whenever it can, and its calls end by
their time-outs. In a stream the time-outs
of `feed()` and `close()` end what the receive loop awaits, and a send returns; nothing
makes the local socket take data. A read of the inventory ends or times out and a set
event wakes the loop; the timer is under no fairness, so `RequestAnswered` does not
rely on it. Jobs on the box, the customer, the server and the targets are under no fairness.

## Where the code and its documentation differ

For each of these but the last three there is a property that states what the document or the
comment says, and a configuration with which TLC finds it violated
(`tlc -config <configuration> <MC module>`).

* `ConsentHaRestart.cfg` (`OpenWindowBound`): a starting Home Assistant that answers 404 or
  "unavailable" for the helper makes the agent clear the persisted instant; the helper, restored as
  "on" with a new `last_changed`, then opens another window. The docstring of
  `_activation_instant` (consent.py:156-158) says that this cannot happen. Nothing overlaps and no
  call fails in this run.
* `ConsentTurnOffFails.cfg` (`KnownWindowBound`): a failed `turn_off` clears the persisted instant
  while the helper is still on; after a restart of Home Assistant the next refresh takes the
  new `last_changed` for a new switch-on. Two refreshes that overlap do the same: one that was
  told "off" before the switch-on clears what the other has persisted.
* `ConsentSecondWindow.cfg` (`OptionWindowBound`): helper and option share the persisted instant, and
  reading a helper as off clears it: a helper created, read and deleted gives the option a
  second window.
* `MaintenanceGate.cfg` (`NoJobWithoutConsent`): a guarded command awaits `self_info()` between the
  gate and the call, without another look at the consent (consent.py:3 "No command is ever
  executed unless the local consent is active").
* `MaintenanceStale.cfg` (`NoJobOnceWithdrawn`): the gate looks at the shared status and not at
  what its own refresh has returned; an older answer of another task may be in its place.
  `WithdrawalStopsCommands` is what remains: where no older answer is under way when the
  command comes in, a withdrawal stops it.
* `MaintenanceItself.cfg` (`NeverItself`): an error of `self_info()` is cached as the empty slug, which
  turns the guard off until the agent restarts (commands.py:210 "Refuse to act on this very add-on").
* `MaintenanceUnreported.cfg` (`DoneIsReported`): the result of a command that ends between two
  sessions is dropped (commands.py:3-4 "always answers exactly one").
* `HacsGate.cfg` (`ActsWithConsent`): after its second gate a HACS update reads the module again
  before it installs; the consent may end meanwhile (DOCS.md:48 "No remote action is possible
  while the consent is inactive").
* `TunnelOrphan.cfg` (`WithdrawalClosesAll`): a stream opened while `close_all()` waits is dropped from
  the table by its final `clear()` without being closed, and its timer stops watching it.
* `TunnelStreamWindow.cfg` (`CutOnlyByTooManyWaiting`): the missing frame that would empty a full reorder
  buffer is counted in it first and closes the stream (tunnel.py:118-121 "more than %d
  out-of-order frames"). `NoCutBeforeWindow` is what a server may rely on: it is safe while less
  than a window ahead.
* `LifecycleGivesUp.cfg` (`NeverGivesUp`): an enrolment answer whose body is not JSON ends the agent, which
  its caller would retry. So does attempt 1024 of an unbroken series of failures
  (`2.0 ** 1024` is an `OverflowError`, before `min()` caps the delay): set `NotJson` to
  FALSE in that configuration to see it. Either way the container stops (`finish` of the
  s6 service) and only the Supervisor's watchdog, if the customer enabled it, starts the agent again.
* `ReportsFailure.cfg` (`FailureKeepsHacs`): the HACS list is replaced as soon as the registry was read,
  before the section is known to be current (collectors.py:361, 376); DOCS.md:83-84 says
  "Inventory sections retain their last successful values and timestamp during a collection
  failure". Installed versions are likewise replaced by nothing.
* `ReportsLoading.cfg` (`ClearMeansClear`): while Home Assistant loads its components HACS is not among
  them, and the HACS section is then "ok" and empty, although collectors.py:368 says "Unavailable
  HACS update entities must not mean 'no updates'". `NoFalseClear` is what holds once HACS was found.
* A section that was read carries a new time stamp, so every check finds a changed
  inventory and sends it, every five minutes (agent.py:457), not only after a change.
* `log_lines_per_poll` may be up to 5000 (config.py:56), the ring holds 2000
  (logwatch.py:39): with `Ring` smaller than `TailLines`, `OnceEach` fails in
  `LogWatch.cfg`. A traceback that grows between two polls is a new text, and is
  considered again.
* The disk usage of an unnoticed broken connection is recorded as sent (agent.py:431-438)
  and not sent again for an hour. Not modelled.

## Theorems

All hold for every value of the constants under the named assumptions of each
module, which only fix types and the partition of tasks, and under the conditions
some theorems state.

* **Consent.** `TypeCorrect`, `Backed` (`ActiveIsBacked`), `Bounded` (`WindowBound`, where Home
  Assistant neither restarts nor omits `last_changed`) and `OptionBounded` (`OptionWindowBound`,
  where no helper is created or deleted, nor taken for deleted while Home Assistant starts:
  `NeverEarly`), the two halves of `NoLongerThanGiven`, whose conditions `consent_overlap` meets.
  `Backed` is inductive
  with the types: every step that commits an active status has just made `stored`
  the instant it was computed from, and steps that change `stored` otherwise commit
  an inactive status or an expired one. `Bounded` needs a strengthening: no reply
  under way, persisted instant or installed expiry is later than the switch-on it
  came from. `OptionBounded` needs the like for the option: what is persisted, once the
  option has given a window, is no later than that.
  `EndStays` (`NeverExtended`) and `ConsentIsALease` (`IsALease`) need none of these conditions: whatever
  overlaps, fails or restarts, the end of a window in force is never moved to a later time by
  the source that gave it, and a window that is on file is resumed, unless the helper was
  seen off. The two say what the manager keeps even where `WindowBound` is lost: a new
  window may be wrongly begun after one was given back, and never while one is in force.
  They rest on `Backed` and on `GivenByOn`: a status that enables comes from the option, or
  from a helper that was last seen on. `ConsentIsSeenAsView` (`SeenAsView`) is the
  refinement that Tunnel relies on.
* **Maintenance.** `ImplementsConsent`: every step of a command, the loop or the
  environment is a step of Consent or leaves its variables alone, so the theorems on
  Consent carry over (`BackedInMaintenance`, `LeaseInMaintenance`, `EndStaysInMaintenance`,
  `SeenAsViewInMaintenance`): a command that refreshes before it acts is one more
  refresher. `MaintenanceTypeCorrect` includes that
  the lock belongs to the executing command, which is what makes `Exclusive`
  (`OneExecutes`) inductive. `Truthful` (`AnswersAreTrue`). `WithdrawnNotExecuted`
  (`WithdrawalStopsCommands`) rests on `SettledInv`: while a command is
  "settled", the helper is off and every answer under way says so, and a command that awaits its
  listeners has found the status disabled, which no other refresh can take back.
* **Tunnel.** One lemma, `StepShape`, says that a step is quiet (nothing opens or
  enters the table, what stays keeps its timer) unless it is the step that puts a
  connected stream in. From it follow `OpensOnlyWithConsent`, `TableWatched` (with
  the fact that the stream in hand was never connected) and `LimitHolds` (with the
  fact that there is room while the receive loop connects, because no one else fills
  the table); `TableStaysSound` is both. `TableKeepsLives` (`StreamsLiveOnce`) goes through the
  same steps for one stream. `ServerNotMisled` (`NoStaleOn`, inductive with the
  types) holds because a message that enables is sent in the step that installs its status,
  and a task that withdraws the consent is either still in `close_all()` or has told the
  server: the last one to return from `close_all()` has the last word.
  `OnlyOneWayToLose` confines the flaw of `tunnel_orphan`: in a behaviour in which no stream is
  opened while a `close_all()` is under way (`OpensBetween`), every open stream is in the table
  (`NoneLost`). The invariant (`LostInv`) is that what a `close_all()` has not yet cancelled
  is in its list as long as it is open. Without that condition `NoneLost` is false, by the counterexample of that run.
* **TunnelStream.** `StreamTypeCorrect` includes what the buffer may hold.
  `StreamKeepsOrder` (`InOrder`) is the refinement: what is written is always
  0 .. `nextIn` - 1 in order, so each step that writes is a `Deliver`, each step that
  closes a `Close`, and every other a stutter. `WindowIsGranted` (`NoCutBeforeWindow`)
  is a count: more than a window of different frames from `nextIn` on contains one at
  least a window ahead. `RelayGetsOrder` (`OutgoingInOrder`) needs to know
  what may still be sent: while the pump lives, everything in the outbox is data below
  `outSeq`, and only one task tells the close, after the pump's last frame. `StreamIsALife` (`LivesOnce`)
  builds on the same invariant, of which `OneCloser` says that of the three tasks only one is in `close()`.
* **LogWatch.** `WatchTypeCorrect` (with: ring and set agree), `Conserved`
  (`NothingSwallowed`) and `RateBounded` (`RateBound`), by the invariant that the tokens
  left and those refilled since cover whatever a span that began at any earlier event
  may still spend. `OnceOnly` (`OnceEach`) holds if `Ring >= TailLines`: the ring keeps the
  latest of the texts that were marked, in the order of their last lines (`RingInv`). To mark
  a known text again, the ring would have to be full of texts that end after it, all
  of them at different lines of the poll that reads it, and a poll has too few lines
  for that (`MarksAreNew`). It also needs that whatever a poll reads before a known record is
  known in the same text, because nothing but the last record of a log can still grow
  (`KnownInv`).
* **Reports.** `ReportsTypeCorrect` (with: no request is forgotten), `NothingCleared`
  (`NoFalseClear`), from the states read meaning "not off" for whatever was pending all
  along, and `ServerKeepsUp` (`ServerHasLast`), from a session starting with a forced
  inventory.
* **Lifecycle.** `LifecycleTypeCorrect`, `RefusedCodeNotRetried` (`RefusedCodeIsSpent`)
  and `SessionStaysWhole` (`SessionIsWhole`). Each is inductive by itself: the mark of a
  refused code is only replaced by another accepted or refused code, which needs a new
  option, and the tasks of a session look at nothing but the two events.
* **Hacs.** `HacsTypeCorrect` (with: called once, at its place), `InstallsCovered`
  (`InstallIsCovered`), from what is known of archive, consent and offer at each await
  (`Covered`), `RestartsVerified` (`VerifiedMeansRestarted`), from the marker staying
  until the restart (`Awaited`), and `HacsAnswers` (`HacsAnswersTrue`), from the installation being
  called before anything is verified, and nothing before the gate (`Called`).

**Composition.** Consent implements ConsentView (`ConsentIsSeenAsView`), also beside commands
(`SeenAsViewInMaintenance`), and Tunnel is written on ConsentView: a refresh installs any status, and nothing else but
the clock touches the view (`TunnelSeesView`), so what is proved of Tunnel holds with the
consent manager in the place of the view. TunnelStream implements StreamLife (`StreamIsALife`), and the table of
Tunnel gives each stream a StreamLife (`TableKeepsLives`).

**Only model-checked.** The liveness properties: `ExpiredWindowCloses`, `WithdrawalNoticed`,
`EveryCommandEnds`, `TimerCloses`, `CloseAllTerminates`, `StopStops`, `Reconnects`,
`RevocationNoticed`, `ReceiverGoesOn` and `RequestAnswered` rest on fairness, and so on ENABLED, which the
prover does not treat. Every invariant, action property and refinement of a passing run has a theorem, `NoLongerThanGiven`
one for each of its two halves, under the conditions named there. The violations are TLC's.

**Only proved.** The type invariants that say nothing but types, and `SeenAsView`, are no part of a
run: their theorems hold for every value of the constants.

## Not modelled

The settings, the metrics, the conversion of inventories, the wire format and HTTP
itself: data without control. Versions, health entries, telemetry and disk usage, which
are read and sent without a decision that depends on earlier ones. A failing write of
the state file, which ends the agent (`OSError`, or an `ExceptionGroup` out of a session), and
in general exceptions that no handler of the code expects, such as those of an answer of another
shape. A Home Assistant that answers before its registry is
loaded while a HACS restart is verified.
The `consent_state` messages are counted by Tunnel from the one with which a session
begins; what is sent while the handshake is under way is superseded by that one. A stale "off" may
stay with the server until the next session, since the message that disables waits for
`close_all()`; `NoStaleOn` is about the other direction, the one that would mislead it.

## Plan

Done: Consent with Lease and ConsentView, Maintenance, Tunnel with StreamLife, Lifecycle,
Hacs, TunnelStream with OrderedStream, LogWatch, Reports, and their proofs. What is left:
a HACS command inside the executor (Hacs as the job of a Maintenance command, with the
gates of both); an abstract session that Lifecycle implements; the disk usage loop beside Reports.

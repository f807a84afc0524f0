------------------------------ MODULE LogWatch ------------------------------
(***************************************************************************)
(* From the log of Home Assistant to the events of the relay: logwatch.py  *)
(* and the loop of the agent that polls it.                                *)
(*                                                                         *)
(* A poll reads the last lines of the log and parses all of them again.    *)
(* Nothing awaits between the reply and the last record, but no other task *)
(* touches this state either: a step handles one record.                   *)
(*                                                                         *)
(* A record is where its first line stands and how many lines follow it,   *)
(* for a traceback may be cut by the end of one poll and whole in the next *)
(* one: its text, hence its fingerprint and its key, then changes.         *)
(***************************************************************************)
EXTENDS Integers, Sequences, FiniteSets

CONSTANTS
  Keys,        \* what a record at or above min_level is about
  Low,         \* a record below min_level
  TailLines,   \* lines of the log a poll reads
  FollowLines, \* lines kept of what follows a record: 5 in the code
  Ring,        \* _PROCESSED_RING
  DedupTtl,    \* dedup_ttl_s, in ticks
  PruneTtl,    \* 4 * dedup_ttl_s in the code
  Capacity,    \* events the full bucket allows: max_per_hour
  Cost,        \* ticks in which one event is refilled
  MaxLines,    \* BOUND: lines Home Assistant writes
  MaxNow       \* BOUND: the clock

ASSUME WatchAssumption ==
  /\ Low \notin Keys
  /\ Keys \cap {"more", "other"} = {} /\ Low \notin {"more", "other"}
  /\ Ring \in Nat \ {0}
  /\ TailLines \in Nat /\ FollowLines \in Nat
  /\ DedupTtl \in Nat /\ PruneTtl \in Nat
  /\ Capacity \in Nat \ {0} /\ Cost \in Nat \ {0}
  /\ MaxLines \in Nat /\ MaxNow \in Nat

VARIABLES
  journal,    \* the log of Home Assistant
  now,        \* the monotonic clock
  up,         \* a session with the relay is open
  at,         \* where the loop is
  polled,     \* the records of this poll that are still to be handled
  events,     \* how many events of this poll are still to be sent
  primed,     \* _primed
  ring,       \* _processed
  ringSet,    \* _processed_set
  lastSent,   \* _last_sent: for each key the last event and the repeats since
  limited,    \* _rate_limited_count
  tokens,     \* _tokens, an event costs Cost
  last,       \* _last, the time of the last refill
  known,      \* history: the fingerprints marked in this process
  considered, \* history: for each key, records the replay guard let through
  accounted,  \* history: those an event told of, or the rate limiter counted
  denied,     \* history: events the rate limiter dropped
  summarized, \* history: those it told of
  spentAt     \* history: when tokens were spent

world     == <<journal, now>>
throttle  == <<ring, ringSet, lastSent, limited, tokens, last>>
ledger    == <<known, considered, accounted, denied, summarized, spentAt>>
watchVars == <<world, up, at, polled, events, primed, throttle, ledger>>

Lines        == Keys \cup {Low, "more", "other"}
DedupKeys    == Keys \X (0 .. FollowLines)
Fingerprints == (1 .. MaxLines) \X (0 .. FollowLines)
Records      == [pos : 1 .. MaxLines, key : Keys \cup {Low}, more : 0 .. FollowLines]
NoEntry == [sent |-> -1, suppressed |-> 0]

Fingerprint(r) == <<r.pos, r.more>>
DedupKey(r) == <<r.key, r.more>>

\* The variables have their types; the ring and its set hold the same
\* fingerprints, each once, and the ring is bounded.
WatchTypeOK ==
  /\ journal \in Seq(Lines) /\ Len(journal) <= MaxLines
  /\ now \in 0 .. MaxNow
  /\ up \in BOOLEAN
  /\ at \in {"off", "asking", "priming", "offering", "sending", "asleep"}
  /\ polled \subseteq Records
  /\ events \in Nat
  /\ primed \in BOOLEAN
  /\ ring \in Seq(Fingerprints) /\ Len(ring) <= Ring
  /\ ringSet = {ring[i] : i \in 1 .. Len(ring)}
  /\ \A i, j \in 1 .. Len(ring) : ring[i] = ring[j] => i = j
  /\ lastSent \in [DedupKeys -> [sent : -1 .. MaxNow, suppressed : Nat]]
  /\ limited \in Nat
  /\ tokens \in 0 .. (Capacity * Cost)
  /\ last \in 0 .. now
  /\ known \subseteq Fingerprints
  /\ considered \in [DedupKeys -> Nat]
  /\ accounted \in [DedupKeys -> Nat]
  /\ denied \in Nat /\ summarized \in Nat
  /\ spentAt \in Seq(0 .. MaxNow)

WatchInit ==
  /\ journal = <<>> /\ now = 0
  /\ up = FALSE /\ at = "off"
  /\ polled = {} /\ events = 0
  /\ primed = FALSE
  /\ ring = <<>> /\ ringSet = {}
  /\ lastSent = [k \in DedupKeys |-> NoEntry]
  /\ limited = 0
  /\ tokens = Capacity * Cost /\ last = now
  /\ known = {}
  /\ considered = [k \in DedupKeys |-> 0]
  /\ accounted = [k \in DedupKeys |-> 0]
  /\ denied = 0 /\ summarized = 0
  /\ spentAt = <<>>

---------------------------------------------------------------------------
(* The loop.                                                               *)

SessionStarts ==
  /\ ~up /\ at = "off"
  /\ up' = TRUE
  /\ at' = "asking"
  /\ UNCHANGED <<world, polled, events, primed, throttle, ledger>>

\* How many lines the parser adds to the record that starts at i: those that
\* continue it without another line between them
Follows(i) ==
  Cardinality({m \in 1 .. FollowLines :
                 \A j \in (i + 1) .. (i + m) : j <= Len(journal) /\ journal[j] = "more"})

\* what the parser finds in the last lines: a line that only continues a record
\* which is cut off is dropped, like any other line
Parsed ==
  {[pos |-> i, key |-> journal[i], more |-> Follows(i)] :
     i \in {n \in 1 .. Len(journal) :
              n > Len(journal) - TailLines /\ journal[n] \in Keys \cup {Low}}}

LogsArrive ==
  /\ at = "asking"
  /\ polled' = Parsed
  /\ at' = IF primed THEN "offering" ELSE "priming"
  /\ primed' = TRUE
  /\ UNCHANGED <<world, up, events, throttle, ledger>>

LogsFail ==
  /\ at = "asking"
  /\ at' = "asleep"
  /\ UNCHANGED <<world, up, polled, events, primed, throttle, ledger>>

\* _send(): a closed session drops the event
SendNext ==
  /\ at = "sending"
  /\ events > 0
  /\ events' = events - 1
  /\ UNCHANGED <<world, up, at, polled, primed, throttle, ledger>>

PollEnds ==
  /\ \/ at = "priming" /\ polled = {}
     \/ at = "sending" /\ events = 0
  /\ at' = "asleep"
  /\ UNCHANGED <<world, up, polled, events, primed, throttle, ledger>>

Wakes ==
  /\ at = "asleep"
  /\ at' = IF up THEN "asking" ELSE "off"
  /\ UNCHANGED <<world, up, polled, events, primed, throttle, ledger>>

---------------------------------------------------------------------------
(* The replay guard.                                                       *)

\* the records are handled in the order of the log
IsNext(r) == r \in polled /\ \A q \in polled : r.pos <= q.pos

\* mutant: what leaves the ring stays in the set
MarkSeenLeaks(r) ==
  /\ ring' = IF Len(ring) = Ring THEN Append(Tail(ring), Fingerprint(r))
                                 ELSE Append(ring, Fingerprint(r))
  /\ ringSet' = ringSet \cup {Fingerprint(r)}
  /\ known' = known \cup {Fingerprint(r)}

\* mutant: the ring is emptied when it is full
MarkSeenForgets(r) ==
  /\ ring' = IF Len(ring) = Ring THEN <<Fingerprint(r)>> ELSE Append(ring, Fingerprint(r))
  /\ ringSet' = (IF Len(ring) = Ring THEN {} ELSE ringSet) \cup {Fingerprint(r)}
  /\ known' = known \cup {Fingerprint(r)}

\* mark_seen() of a record that is not in the ring: the oldest one makes room
MarkSeen(r) ==
  /\ IF Len(ring) = Ring
       THEN /\ ring' = Append(Tail(ring), Fingerprint(r))
            /\ ringSet' = (ringSet \ {Head(ring)}) \cup {Fingerprint(r)}
       ELSE /\ ring' = Append(ring, Fingerprint(r))
            /\ ringSet' = ringSet \cup {Fingerprint(r)}
  /\ known' = known \cup {Fingerprint(r)}

\* the first poll marks what it finds, whatever its level
Absorb(r) ==
  /\ at = "priming" /\ IsNext(r)
  /\ IF Fingerprint(r) \in ringSet THEN UNCHANGED <<ring, ringSet, known>> ELSE MarkSeen(r)
  /\ polled' = polled \ {r}
  /\ UNCHANGED <<world, up, at, events, primed, lastSent, limited, tokens, last,
                 considered, accounted, denied, summarized, spentAt>>

Ignore(r) ==
  /\ at = "offering" /\ IsNext(r)
  /\ r.key = Low \/ Fingerprint(r) \in ringSet
  /\ polled' = polled \ {r}
  /\ UNCHANGED <<world, up, at, events, primed, throttle, ledger>>

---------------------------------------------------------------------------
(* Deduplication and rate limit.                                           *)

\* mutant: the refill may exceed the capacity
RefilledBeyond == tokens + (now - last)

Refilled ==
  IF tokens + (now - last) > Capacity * Cost THEN Capacity * Cost ELSE tokens + (now - last)

\* consume() with and without an event's worth of tokens; both refill
Spend ==
  /\ Refilled >= Cost
  /\ tokens' = Refilled - Cost
  /\ last' = now
  /\ spentAt' = Append(spentAt, now)

Short ==
  /\ Refilled < Cost
  /\ tokens' = Refilled
  /\ last' = now
  /\ UNCHANGED spentAt

\* the key has been reported within the last DedupTtl
Recent(k) == lastSent[k] # NoEntry /\ now - lastSent[k].sent < DedupTtl

\* offer() of a record that the guard lets through
Considered(r) ==
  /\ at = "offering" /\ IsNext(r)
  /\ r.key # Low /\ Fingerprint(r) \notin ringSet
  /\ MarkSeen(r)
  /\ polled' = polled \ {r}
  /\ considered' = [considered EXCEPT ![DedupKey(r)] = @ + 1]
  /\ UNCHANGED <<world, up, at, primed, summarized>>

Suppress(r) ==
  /\ Considered(r)
  /\ Recent(DedupKey(r))
  /\ lastSent' = [lastSent EXCEPT ![DedupKey(r)].suppressed = @ + 1]
  /\ UNCHANGED <<events, limited, tokens, last, accounted, denied, spentAt>>

Deny(r) ==
  /\ Considered(r)
  /\ ~Recent(DedupKey(r))
  /\ Short
  /\ limited' = limited + 1
  /\ denied' = denied + 1
  /\ accounted' = [accounted EXCEPT ![DedupKey(r)] = @ + 1]
  /\ UNCHANGED <<events, lastSent>>

\* mutant: _prune() looks at the age alone
StaleByAge(e) == e # NoEntry /\ now - e.sent > PruneTtl

\* _prune() drops entries that are old and have nothing to tell
Stale(e) == e # NoEntry /\ now - e.sent > PruneTtl /\ e.suppressed = 0

Report(r) ==
  /\ Considered(r)
  /\ ~Recent(DedupKey(r))
  /\ Spend
  /\ accounted' = [accounted EXCEPT ![DedupKey(r)] = @ + 1 + lastSent[DedupKey(r)].suppressed]
  /\ lastSent' = [k \in DedupKeys |->
                    IF k = DedupKey(r) THEN [sent |-> now, suppressed |-> 0]
                    ELSE IF Stale(lastSent[k]) THEN NoEntry ELSE lastSent[k]]
  /\ events' = events + 1
  /\ UNCHANGED <<limited, denied>>

\* after the last record: one event for all that was dropped, if the bucket
\* allows it
Summarize ==
  /\ at = "offering" /\ polled = {}
  /\ at' = "sending"
  /\ \/ /\ limited = 0
        /\ UNCHANGED <<events, limited, tokens, last, summarized, spentAt>>
     \/ /\ limited > 0 /\ Short
        /\ UNCHANGED <<events, limited, summarized>>
     \/ /\ limited > 0 /\ Spend
        /\ events' = events + 1
        /\ limited' = 0
        /\ summarized' = summarized + limited
  /\ UNCHANGED <<world, up, polled, primed, ring, ringSet, lastSent,
                 known, considered, accounted, denied>>

---------------------------------------------------------------------------
(* The world.                                                              *)

SessionEnds ==
  /\ up
  /\ up' = FALSE
  /\ UNCHANGED <<world, at, polled, events, primed, throttle, ledger>>

HaLogs ==
  /\ Len(journal) < MaxLines
  /\ \E line \in Lines : journal' = Append(journal, line)
  /\ UNCHANGED <<now, up, at, polled, events, primed, throttle, ledger>>

Tick ==
  /\ now < MaxNow
  /\ now' = now + 1
  /\ UNCHANGED <<journal, up, at, polled, events, primed, throttle, ledger>>

\* a new process knows nothing of what the old one reported
AgentRestarts ==
  /\ UNCHANGED world
  /\ up' = FALSE /\ at' = "off"
  /\ polled' = {} /\ events' = 0
  /\ primed' = FALSE
  /\ ring' = <<>> /\ ringSet' = {}
  /\ lastSent' = [k \in DedupKeys |-> NoEntry]
  /\ limited' = 0
  /\ tokens' = Capacity * Cost /\ last' = now
  /\ known' = {}
  /\ considered' = [k \in DedupKeys |-> 0]
  /\ accounted' = [k \in DedupKeys |-> 0]
  /\ denied' = 0 /\ summarized' = 0
  /\ spentAt' = <<>>

---------------------------------------------------------------------------
Handle == \E r \in polled : Absorb(r) \/ Ignore(r) \/ Suppress(r) \/ Deny(r) \/ Report(r)

WatchNext ==
  \/ SessionStarts \/ LogsArrive \/ LogsFail \/ Handle \/ Summarize
  \/ SendNext \/ PollEnds \/ Wakes
  \/ SessionEnds \/ HaLogs \/ Tick \/ AgentRestarts

WatchSpec == WatchInit /\ [][WatchNext]_watchVars

---------------------------------------------------------------------------
(* Properties.                                                             *)

\* Of the records the guard let through, whatever the order of repeats, refused
\* tokens and pruned entries, each is told of in an event, counted for the next
\* one of its key, or counted for a summary (logwatch.py offer, _prune,
\* drain_rate_limit_summary).
NothingSwallowed ==
  /\ \A k \in DedupKeys : considered[k] = accounted[k] + lastSent[k].suppressed
  /\ denied = summarized + limited

\* A text that one process has marked, be it in its first poll, is not
\* considered again while the ring holds at least the lines of a poll, although
\* every poll reads it again and the ring forgets (logwatch.py mark_seen).
OnceEach ==
  [][considered' # considered /\ primed'
       => \A r \in polled \ polled' : Fingerprint(r) \notin known]_watchVars

\* In any span of time one process makes at most as many events as the full
\* bucket allows and the span refills (logwatch.py TokenBucket).
RateBound ==
  \A i \in 1 .. Len(spentAt) : \A j \in i .. Len(spentAt) :
    (j - i + 1) * Cost <= Capacity * Cost + (spentAt[j] - spentAt[i])

=============================================================================

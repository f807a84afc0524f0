--------------------------- MODULE LogWatchProofs ---------------------------
(***************************************************************************)
(* Theorems about the log watcher, for every ring, tail, capacity, rate    *)
(* and time to live, and for every log.                                    *)
(***************************************************************************)
EXTENDS LogWatch, SequenceTheorems, FiniteSetTheorems, WellFoundedInduction, TLAPS

---------------------------------------------------------------------------
(* Types.                                                                  *)

\* the replay guard
RingOK ==
  /\ ring \in Seq(Fingerprints) /\ Len(ring) <= Ring
  /\ ringSet = {ring[i] : i \in 1 .. Len(ring)}
  /\ \A i, j \in 1 .. Len(ring) : ring[i] = ring[j] => i = j
  /\ known \subseteq Fingerprints

\* deduplication, rate limiter and what the histories count
ThrottleOK ==
  /\ events \in Nat
  /\ lastSent \in [DedupKeys -> [sent : -1 .. MaxNow, suppressed : Nat]]
  /\ limited \in Nat
  /\ tokens \in 0 .. (Capacity * Cost)
  /\ last \in 0 .. now
  /\ considered \in [DedupKeys -> Nat]
  /\ accounted \in [DedupKeys -> Nat]
  /\ denied \in Nat /\ summarized \in Nat
  /\ spentAt \in Seq(0 .. MaxNow)

LoopOK ==
  /\ journal \in Seq(Lines) /\ Len(journal) <= MaxLines
  /\ now \in 0 .. MaxNow
  /\ up \in BOOLEAN
  /\ at \in {"off", "asking", "priming", "offering", "sending", "asleep"}
  /\ polled \subseteq Records
  /\ primed \in BOOLEAN

LEMMA TypesSplit == WatchTypeOK <=> RingOK /\ ThrottleOK /\ LoopOK
PROOF
  BY DEF WatchTypeOK, RingOK, ThrottleOK, LoopOK

\* A full ring loses its head, the set the same fingerprint.
LEMMA MarkSeenKeeps ==
  ASSUME WatchAssumption, RingOK, NEW r \in Records,
         Fingerprint(r) \notin ringSet, MarkSeen(r)
  PROVE  RingOK'
PROOF
<1> USE DEF WatchAssumption, RingOK
<1> DEFINE f == Fingerprint(r)
<1>1. f \in Fingerprints
  BY DEF Fingerprint, Fingerprints, Records
<1>2. Len(ring) \in Nat /\ ring \in Seq(Fingerprints)
  BY LenProperties
<1>3. known' \subseteq Fingerprints
  BY <1>1 DEF MarkSeen
<1>4. CASE Len(ring) # Ring
  <2>1. /\ ring' \in Seq(Fingerprints)
        /\ Len(ring') = Len(ring) + 1
        /\ \A i \in 1 .. Len(ring) : ring'[i] = ring[i]
        /\ ring'[Len(ring) + 1] = f
    BY <1>1, <1>4, AppendProperties DEF MarkSeen
  <2>2. ringSet' = ringSet \cup {f}
    BY <1>4 DEF MarkSeen
  <2>3. \A i \in 1 .. Len(ring') : i \in 1 .. Len(ring) \/ i = Len(ring) + 1
    BY <1>2, <2>1
  <2>4. ringSet' = {ring'[i] : i \in 1 .. Len(ring')}
    BY <1>2, <2>1, <2>2, <2>3
  <2>5. \A i, j \in 1 .. Len(ring') : ring'[i] = ring'[j] => i = j
    BY <2>1, <2>3
  <2> QED
    BY <1>2, <1>3, <1>4, <2>1, <2>4, <2>5
<1>5. CASE Len(ring) = Ring
  <2> DEFINE t == Tail(ring)
  <2>1. /\ t \in Seq(Fingerprints)
        /\ Len(t) = Len(ring) - 1
        /\ \A i \in 1 .. Len(t) : t[i] = ring[i + 1]
        /\ Head(ring) = ring[1]
    BY <1>2, <1>5, HeadTailProperties
  <2>2. ring' = Append(t, f) /\ ringSet' = (ringSet \ {ring[1]}) \cup {f}
    BY <1>5, <2>1 DEF MarkSeen
  <2> HIDE DEF t
  <2>3. /\ ring' \in Seq(Fingerprints)
        /\ Len(ring') = Len(ring)
        /\ \A i \in 1 .. (Len(ring) - 1) : ring'[i] = ring[i + 1]
        /\ ring'[Len(ring)] = f
    <3>1. Len(t) \in Nat /\ Len(t) + 1 = Len(ring)
      BY <1>2, <2>1
    <3> QED
      BY <1>1, <2>1, <2>2, <3>1, AppendProperties
  <2>4. \A i \in 1 .. Len(ring') : i \in 1 .. (Len(ring) - 1) \/ i = Len(ring)
    BY <1>2, <2>3
  <2>5. \A i \in 1 .. (Len(ring) - 1) : i + 1 \in 1 .. Len(ring) /\ i + 1 # 1
    BY <1>2
  <2>6. ringSet' = {ring'[i] : i \in 1 .. Len(ring')}
    <3>1. ASSUME NEW i \in 1 .. Len(ring') PROVE ring'[i] \in ringSet'
      BY <1>5, <2>2, <2>3, <2>4, <2>5
    <3>2. ASSUME NEW x \in ringSet' PROVE \E i \in 1 .. Len(ring') : ring'[i] = x
      <4>1. CASE x = f
        BY <1>2, <1>5, <2>3, <4>1
      <4>2. CASE x # f
        <5>1. PICK k \in 1 .. Len(ring) : ring[k] = x /\ k # 1
          BY <2>2, <3>2, <4>2
        <5>2. k - 1 \in 1 .. (Len(ring) - 1) /\ k - 1 \in 1 .. Len(ring) /\ (k - 1) + 1 = k
          BY <1>2, <5>1
        <5> QED
          BY <2>3, <5>1, <5>2
      <4> QED
        BY <4>1, <4>2
    <3> QED
      BY <3>1, <3>2
  <2>7. \A i, j \in 1 .. Len(ring') : ring'[i] = ring'[j] => i = j
    BY <2>3, <2>4, <2>5
  <2> QED
    BY <1>3, <1>5, <2>3, <2>6, <2>7
<1> QED
  BY <1>4, <1>5

LEMMA RingStep ==
  ASSUME WatchAssumption, WatchTypeOK, WatchNext
  PROVE  RingOK'
PROOF
<1>1. RingOK /\ polled \subseteq Records
  BY DEF WatchTypeOK, RingOK
<1>2. ASSUME NEW r \in polled,
             Absorb(r) \/ Ignore(r) \/ Suppress(r) \/ Deny(r) \/ Report(r)
      PROVE  \/ Fingerprint(r) \notin ringSet /\ MarkSeen(r)
             \/ UNCHANGED <<ring, ringSet, known>>
  BY <1>2 DEF Absorb, Ignore, Suppress, Deny, Report, Considered, throttle, ledger
<1>3. CASE Handle
  BY <1>1, <1>2, <1>3, MarkSeenKeeps DEF Handle, RingOK
<1>4. CASE AgentRestarts
  <2>1. ring' = <<>> /\ ringSet' = {} /\ known' = {}
    BY <1>4 DEF AgentRestarts
  <2> QED
    BY <2>1, EmptySeq DEF RingOK, WatchAssumption
<1>5. CASE ~Handle /\ ~AgentRestarts
  <2>1. UNCHANGED <<ring, ringSet, known>>
    BY <1>5 DEF WatchNext, SessionStarts, LogsArrive, LogsFail, Summarize, SendNext,
                PollEnds, Wakes, SessionEnds, HaLogs, Tick, throttle, ledger
  <2> QED
    BY <1>1, <2>1 DEF RingOK
<1> QED
  BY <1>3, <1>4, <1>5

LEMMA ParsedRecords ==
  ASSUME WatchAssumption, LoopOK
  PROVE  Parsed \subseteq Records
PROOF
<1> SUFFICES ASSUME NEW i \in 1 .. Len(journal), journal[i] \in Keys \cup {Low}
             PROVE  [pos |-> i, key |-> journal[i], more |-> Follows(i)] \in Records
  BY DEF Parsed
<1>1. Len(journal) \in Nat /\ Len(journal) <= MaxLines /\ MaxLines \in Nat
  BY LenProperties DEF LoopOK, WatchAssumption
<1>2. i \in 1 .. MaxLines
  BY <1>1
<1>3. Follows(i) \in 0 .. FollowLines
  <2>1. FollowLines \in Nat
    BY DEF WatchAssumption
  <2>2. IsFiniteSet(1 .. FollowLines) /\ Cardinality(1 .. FollowLines) = FollowLines
    <3>1. \A a, b \in Int : /\ IsFiniteSet(a .. b)
                            /\ Cardinality(a .. b) = IF a > b THEN 0 ELSE b - a + 1
      BY FS_Interval
    <3>2. 1 \in Int /\ FollowLines \in Int
      BY <2>1
    <3>3. /\ IsFiniteSet(1 .. FollowLines)
          /\ Cardinality(1 .. FollowLines)
               = IF 1 > FollowLines THEN 0 ELSE FollowLines - 1 + 1
      BY ONLY <3>1, <3>2
    <3> QED
      BY <2>1, <3>3
  <2> DEFINE F == {m \in 1 .. FollowLines :
                     \A j \in (i + 1) .. (i + m) : j <= Len(journal) /\ journal[j] = "more"}
  <2>3. F \subseteq 1 .. FollowLines
    OBVIOUS
  <2> HIDE DEF F
  <2>4. Cardinality(F) \in Nat /\ Cardinality(F) <= FollowLines
    BY <2>2, <2>3, FS_Subset, FS_CardinalityType
  <2> QED
    BY <2>1, <2>4 DEF Follows, F
<1> QED
  BY <1>2, <1>3 DEF Records

LEMMA LoopStep ==
  ASSUME WatchAssumption, LoopOK, WatchNext
  PROVE  LoopOK'
PROOF
<1> USE DEF LoopOK
<1>1. CASE SessionStarts
  BY <1>1 DEF SessionStarts, world
<1>2. CASE LogsArrive
  BY <1>2, ParsedRecords DEF LogsArrive, world
<1>3. CASE LogsFail
  BY <1>3 DEF LogsFail, world
<1>4. CASE Handle
  BY <1>4 DEF Handle, Absorb, Ignore, Suppress, Deny, Report, Considered, world
<1>5. CASE Summarize \/ SendNext
  BY <1>5 DEF Summarize, SendNext, world
<1>6. CASE PollEnds \/ Wakes
  BY <1>6 DEF PollEnds, Wakes, world
<1>7. CASE SessionEnds
  BY <1>7 DEF SessionEnds, world
<1>8. CASE HaLogs
  <2>1. PICK line \in Lines : journal' = Append(journal, line)
    BY <1>8 DEF HaLogs
  <2>2. journal' \in Seq(Lines) /\ Len(journal') = Len(journal) + 1
    BY <2>1, AppendProperties
  <2>3. Len(journal') <= MaxLines
    BY <1>8, <2>2, LenProperties DEF HaLogs, WatchAssumption
  <2> QED
    BY <1>8, <2>2, <2>3 DEF HaLogs
<1>9. CASE Tick
  BY <1>9 DEF Tick, WatchAssumption
<1>10. CASE AgentRestarts
  BY <1>10 DEF AgentRestarts, world
<1> QED
  BY <1>1, <1>2, <1>3, <1>4, <1>5, <1>6, <1>7, <1>8, <1>9, <1>10 DEF WatchNext

LEMMA BucketStep ==
  ASSUME WatchAssumption, now \in 0 .. MaxNow, tokens \in 0 .. (Capacity * Cost),
         last \in 0 .. now, spentAt \in Seq(0 .. MaxNow), Spend \/ Short
  PROVE  /\ tokens' \in 0 .. (Capacity * Cost)
         /\ last' = now
         /\ spentAt' \in Seq(0 .. MaxNow)
PROOF
<1> DEFINE full == Capacity * Cost
<1>1. full \in Nat /\ Cost \in Nat
  BY DEF WatchAssumption
<1>2. MaxNow \in Nat /\ now \in Nat /\ last \in Nat /\ last <= now
  BY DEF WatchAssumption
<1> HIDE DEF full
<1>3. Refilled \in 0 .. full
  BY <1>1, <1>2 DEF Refilled, full
<1>4. tokens' \in 0 .. full
  BY <1>1, <1>3 DEF Spend, Short
<1>5. spentAt' = spentAt \/ spentAt' = Append(spentAt, now)
  BY DEF Spend, Short
<1>6. spentAt' \in Seq(0 .. MaxNow)
  BY <1>5, AppendProperties
<1> QED
  BY <1>4, <1>6 DEF Spend, Short, full

LEMMA ThrottleStep ==
  ASSUME WatchAssumption, ThrottleOK, LoopOK, WatchNext
  PROVE  ThrottleOK'
PROOF
<1>1. now \in 0 .. MaxNow /\ MaxNow \in Nat /\ now \in Nat
  BY DEF LoopOK, WatchAssumption
<1>2. ASSUME NEW r \in polled, r.key # Low
      PROVE  DedupKey(r) \in DedupKeys
  BY <1>2 DEF LoopOK, Records, DedupKey, DedupKeys
<1>3. ASSUME NEW r \in polled, Absorb(r) \/ Ignore(r)
      PROVE  ThrottleOK'
  BY <1>3 DEF Absorb, Ignore, throttle, ledger, world, ThrottleOK
<1>4. ASSUME NEW r \in polled, Suppress(r)
      PROVE  ThrottleOK'
  <2> DEFINE k == DedupKey(r)
  <2>1. k \in DedupKeys
    BY <1>2, <1>4 DEF Suppress, Considered
  <2> HIDE DEF k
  <2>2. considered' \in [DedupKeys -> Nat]
    <3>1. considered' = [considered EXCEPT ![k] = @ + 1]
      BY <1>4 DEF Suppress, Considered, k
    <3> QED
      BY <2>1, <3>1 DEF ThrottleOK
  <2>3. lastSent' \in [DedupKeys -> [sent : -1 .. MaxNow, suppressed : Nat]]
    <3>1. lastSent' = [lastSent EXCEPT ![k].suppressed = @ + 1]
      BY <1>4 DEF Suppress, k
    <3>2. /\ lastSent \in [DedupKeys -> [sent : -1 .. MaxNow, suppressed : Nat]]
          /\ lastSent[k].suppressed + 1 \in Nat
      BY <2>1 DEF ThrottleOK
    <3> QED
      BY <2>1, <3>1, <3>2
  <2> QED
    BY <1>4, <2>2, <2>3 DEF Suppress, Considered, world, ThrottleOK
<1>5. ASSUME NEW r \in polled, Deny(r)
      PROVE  ThrottleOK'
  <2> DEFINE k == DedupKey(r)
  <2>1. k \in DedupKeys
    BY <1>2, <1>5 DEF Deny, Considered
  <2> HIDE DEF k
  <2>2. considered' \in [DedupKeys -> Nat] /\ accounted' \in [DedupKeys -> Nat]
    <3>1. /\ considered' = [considered EXCEPT ![k] = @ + 1]
          /\ accounted' = [accounted EXCEPT ![k] = @ + 1]
      BY <1>5 DEF Deny, Considered, k
    <3> QED
      BY <2>1, <3>1 DEF ThrottleOK
  <2>3. /\ tokens' \in 0 .. (Capacity * Cost)
        /\ last' = now
        /\ spentAt' \in Seq(0 .. MaxNow)
    BY <1>1, <1>5, BucketStep DEF Deny, ThrottleOK
  <2> QED
    BY <1>1, <1>5, <2>2, <2>3 DEF Deny, Considered, world, ThrottleOK
<1>6. ASSUME NEW r \in polled, Report(r)
      PROVE  ThrottleOK'
  <2> DEFINE k == DedupKey(r)
  <2>1. k \in DedupKeys
    BY <1>2, <1>6 DEF Report, Considered
  <2> HIDE DEF k
  <2>2. considered' \in [DedupKeys -> Nat] /\ accounted' \in [DedupKeys -> Nat]
    <3>1. lastSent[k].suppressed \in Nat
      BY <2>1 DEF ThrottleOK
    <3>2. /\ considered' = [considered EXCEPT ![k] = @ + 1]
          /\ accounted' = [accounted EXCEPT ![k] = @ + 1 + lastSent[k].suppressed]
      BY <1>6 DEF Report, Considered, k
    <3>3. considered \in [DedupKeys -> Nat] /\ accounted \in [DedupKeys -> Nat]
      BY DEF ThrottleOK
    <3> HIDE DEF ThrottleOK
    <3> QED
      BY <2>1, <3>1, <3>2, <3>3
  <2>3. lastSent' \in [DedupKeys -> [sent : -1 .. MaxNow, suppressed : Nat]]
    <3>1. NoEntry \in [sent : -1 .. MaxNow, suppressed : Nat]
      BY <1>1 DEF NoEntry
    <3>2. [sent |-> now, suppressed |-> 0] \in [sent : -1 .. MaxNow, suppressed : Nat]
      BY <1>1
    <3> QED
      BY <1>6, <3>1, <3>2 DEF Report, ThrottleOK
  <2>4. /\ tokens' \in 0 .. (Capacity * Cost)
        /\ last' = now
        /\ spentAt' \in Seq(0 .. MaxNow)
    BY <1>1, <1>6, BucketStep DEF Report, ThrottleOK
  <2> QED
    BY <1>1, <1>6, <2>2, <2>3, <2>4 DEF Report, Considered, world, ThrottleOK
<1>7. CASE Summarize
  <2>1. CASE limited = 0 /\ UNCHANGED <<events, limited, tokens, last, summarized, spentAt>>
    BY <1>7, <2>1 DEF Summarize, world, ThrottleOK
  <2>2. CASE limited > 0 /\ Short /\ UNCHANGED <<events, limited, summarized>>
    <3>1. /\ tokens' \in 0 .. (Capacity * Cost)
          /\ last' = now
          /\ spentAt' \in Seq(0 .. MaxNow)
      BY <1>1, <2>2, BucketStep DEF ThrottleOK
    <3> QED
      BY <1>1, <1>7, <2>2, <3>1 DEF Summarize, world, ThrottleOK
  <2>3. CASE /\ limited > 0 /\ Spend /\ events' = events + 1
             /\ limited' = 0 /\ summarized' = summarized + limited
    <3>1. /\ tokens' \in 0 .. (Capacity * Cost)
          /\ last' = now
          /\ spentAt' \in Seq(0 .. MaxNow)
      BY <1>1, <2>3, BucketStep DEF ThrottleOK
    <3> QED
      BY <1>1, <1>7, <2>3, <3>1 DEF Summarize, world, ThrottleOK
  <2> QED
    BY <1>7, <2>1, <2>2, <2>3 DEF Summarize
<1>8. CASE SendNext
  BY <1>8 DEF SendNext, throttle, ledger, world, ThrottleOK
<1>9. CASE Tick
  BY <1>1, <1>9 DEF Tick, throttle, ledger, ThrottleOK
<1>10. CASE AgentRestarts
  <2>1. Capacity * Cost \in Nat
    BY DEF WatchAssumption
  <2>2. /\ limited' = 0 /\ events' = 0 /\ denied' = 0 /\ summarized' = 0
        /\ tokens' = Capacity * Cost /\ last' = now /\ now' = now
        /\ lastSent' = [k \in DedupKeys |-> NoEntry]
        /\ considered' = [k \in DedupKeys |-> 0]
        /\ accounted' = [k \in DedupKeys |-> 0]
        /\ spentAt' = <<>>
    BY <1>10 DEF AgentRestarts, world
  <2>3. spentAt' \in Seq(0 .. MaxNow)
    BY <2>2, EmptySeq
  <2>4. lastSent' \in [DedupKeys -> [sent : -1 .. MaxNow, suppressed : Nat]]
    BY <1>1, <2>2 DEF NoEntry
  <2> QED
    BY <1>1, <2>1, <2>2, <2>3, <2>4 DEF ThrottleOK
<1>11. CASE \/ SessionStarts \/ LogsArrive \/ LogsFail \/ PollEnds \/ Wakes
            \/ SessionEnds \/ HaLogs
  BY <1>11 DEF SessionStarts, LogsArrive, LogsFail, PollEnds, Wakes, SessionEnds,
               HaLogs, world, throttle, ledger, ThrottleOK
<1> QED
  BY <1>3, <1>4, <1>5, <1>6, <1>7, <1>8, <1>9, <1>10, <1>11 DEF WatchNext, Handle

\* In every reachable state the types hold, and the ring of processed records
\* and its set hold the same fingerprints, each once, for every ring and every
\* log (logwatch.py mark_seen).
THEOREM WatchTypeCorrect == WatchSpec => []WatchTypeOK
PROOF
<1>1. WatchInit => WatchTypeOK
  <2> SUFFICES ASSUME WatchInit PROVE WatchTypeOK
    OBVIOUS
  <2>1. Capacity * Cost \in Nat /\ MaxNow \in Nat /\ MaxLines \in Nat /\ Ring \in Nat
    BY WatchAssumption DEF WatchAssumption
  <2>2. /\ <<>> \in Seq(Lines) /\ <<>> \in Seq(Fingerprints) /\ <<>> \in Seq(0 .. MaxNow)
        /\ Len(<<>>) = 0
    BY EmptySeq
  <2>3. LoopOK
    <3>1. /\ journal = <<>> /\ now = 0 /\ up = FALSE /\ at = "off"
          /\ polled = {} /\ primed = FALSE
      BY DEF WatchInit
    <3>2. journal \in Seq(Lines)
      BY <2>2, <3>1
    <3>3. Len(journal) = 0
      BY <2>2, <3>1
    <3>4. Len(journal) <= MaxLines
      BY <2>1, <3>3
    <3>5. now \in 0 .. MaxNow
      BY <2>1, <3>1
    <3>6. polled \subseteq Records
      BY <3>1
    <3> QED
      BY <3>1, <3>2, <3>4, <3>5, <3>6 DEF LoopOK
  <2>4. RingOK
    BY <2>1, <2>2 DEF WatchInit, RingOK
  <2>5. ThrottleOK
    BY <2>1, <2>2 DEF WatchInit, ThrottleOK, NoEntry
  <2> QED
    BY <2>3, <2>4, <2>5, TypesSplit
<1>2. WatchTypeOK /\ [WatchNext]_watchVars => WatchTypeOK'
  <2>1. ASSUME WatchTypeOK, WatchNext PROVE WatchTypeOK'
    <3>1. RingOK' /\ ThrottleOK' /\ LoopOK'
      BY <2>1, TypesSplit, RingStep, ThrottleStep, LoopStep, WatchAssumption
    <3> QED
      BY <3>1 DEF WatchTypeOK, RingOK, ThrottleOK, LoopOK
  <2>2. ASSUME WatchTypeOK, UNCHANGED watchVars PROVE WatchTypeOK'
    BY <2>2 DEF WatchTypeOK, watchVars, world, throttle, ledger
  <2> QED
    BY <2>1, <2>2
<1> QED
  BY <1>1, <1>2, PTL DEF WatchSpec

---------------------------------------------------------------------------
(* Nothing is swallowed.                                                   *)

LEMMA SwallowStep ==
  ASSUME WatchAssumption, WatchTypeOK, NothingSwallowed, WatchNext
  PROVE  NothingSwallowed'
PROOF
<1>1. /\ lastSent \in [DedupKeys -> [sent : -1 .. MaxNow, suppressed : Nat]]
      /\ considered \in [DedupKeys -> Nat] /\ accounted \in [DedupKeys -> Nat]
      /\ limited \in Nat /\ denied \in Nat /\ summarized \in Nat
  BY DEF WatchTypeOK
<1>2. ASSUME NEW r \in polled, r.key # Low
      PROVE  DedupKey(r) \in DedupKeys
  BY <1>2 DEF WatchTypeOK, Records, DedupKey, DedupKeys
<1>3. ASSUME NEW r \in polled, Absorb(r) \/ Ignore(r)
      PROVE  NothingSwallowed'
  BY <1>3 DEF Absorb, Ignore, throttle, ledger, NothingSwallowed
<1>4. ASSUME NEW r \in polled, Suppress(r)
      PROVE  NothingSwallowed'
  <2> DEFINE k == DedupKey(r)
  <2>1. k \in DedupKeys
    BY <1>2, <1>4 DEF Suppress, Considered
  <2>2. /\ considered' = [considered EXCEPT ![k] = @ + 1]
        /\ lastSent' = [lastSent EXCEPT ![k].suppressed = @ + 1]
        /\ UNCHANGED <<accounted, denied, summarized, limited>>
    BY <1>4 DEF Suppress, Considered
  <2> HIDE DEF k
  <2>3. ASSUME NEW q \in DedupKeys
        PROVE  considered'[q] = accounted'[q] + lastSent'[q].suppressed
    <3>1. considered[q] = accounted[q] + lastSent[q].suppressed
      BY DEF NothingSwallowed
    <3>2. CASE q = k
      <4>1. considered'[q] = considered[q] + 1
        BY <1>1, <2>1, <2>2, <3>2
      <4>2. lastSent'[q].suppressed = lastSent[q].suppressed + 1
        BY <1>1, <2>1, <2>2, <3>2
      <4>3. accounted[q] \in Nat /\ lastSent[q].suppressed \in Nat /\ accounted'[q] = accounted[q]
        BY <1>1, <2>2
      <4> QED
        BY <3>1, <4>1, <4>2, <4>3
    <3>3. CASE q # k
      <4>1. considered'[q] = considered[q] /\ lastSent'[q] = lastSent[q]
        BY <1>1, <2>1, <2>2, <3>3
      <4> QED
        BY <2>2, <3>1, <4>1
    <3> QED
      BY <3>2, <3>3
  <2> QED
    BY <2>2, <2>3 DEF NothingSwallowed
<1>5. ASSUME NEW r \in polled, Deny(r)
      PROVE  NothingSwallowed'
  <2> DEFINE k == DedupKey(r)
  <2>1. k \in DedupKeys
    BY <1>2, <1>5 DEF Deny, Considered
  <2>2. /\ considered' = [considered EXCEPT ![k] = @ + 1]
        /\ accounted' = [accounted EXCEPT ![k] = @ + 1]
        /\ denied' = denied + 1 /\ limited' = limited + 1
        /\ UNCHANGED <<lastSent, summarized>>
    BY <1>5 DEF Deny, Considered
  <2> HIDE DEF k
  <2>3. \A q \in DedupKeys : considered'[q] = accounted'[q] + lastSent'[q].suppressed
    BY <1>1, <2>1, <2>2 DEF NothingSwallowed
  <2>4. denied' = summarized' + limited'
    BY <1>1, <2>2 DEF NothingSwallowed
  <2> QED
    BY <2>3, <2>4 DEF NothingSwallowed
<1>6. ASSUME NEW r \in polled, Report(r)
      PROVE  NothingSwallowed'
  <2> DEFINE k == DedupKey(r)
  <2>1. k \in DedupKeys
    BY <1>2, <1>6 DEF Report, Considered
  <2>2. /\ considered' = [considered EXCEPT ![k] = @ + 1]
        /\ accounted' = [accounted EXCEPT ![k] = @ + 1 + lastSent[k].suppressed]
        /\ lastSent' = [q \in DedupKeys |->
                          IF q = k THEN [sent |-> now, suppressed |-> 0]
                          ELSE IF Stale(lastSent[q]) THEN NoEntry ELSE lastSent[q]]
        /\ UNCHANGED <<denied, summarized, limited>>
    BY <1>6 DEF Report, Considered
  <2> HIDE DEF k
  <2>3. ASSUME NEW q \in DedupKeys
        PROVE  considered'[q] = accounted'[q] + lastSent'[q].suppressed
    <3>1. considered[q] = accounted[q] + lastSent[q].suppressed
      BY DEF NothingSwallowed
    <3>2. accounted[q] \in Nat /\ lastSent[q].suppressed \in Nat
      BY <1>1
    <3>3. CASE q = k
      <4>1. considered'[q] = considered[q] + 1
        BY <1>1, <2>1, <2>2, <3>3
      <4>2. accounted'[q] = accounted[q] + 1 + lastSent[q].suppressed
        BY <1>1, <2>1, <2>2, <3>3
      <4>3. lastSent'[q].suppressed = 0
        BY <2>2, <3>3
      <4> QED
        BY <3>1, <3>2, <4>1, <4>2, <4>3
    <3>4. CASE q # k
      <4>1. considered'[q] = considered[q] /\ accounted'[q] = accounted[q]
        BY <1>1, <2>1, <2>2, <3>4
      <4>2. lastSent'[q].suppressed = lastSent[q].suppressed
        BY <2>2, <3>4 DEF Stale, NoEntry
      <4> QED
        BY <3>1, <4>1, <4>2
    <3> QED
      BY <3>3, <3>4
  <2> QED
    BY <2>2, <2>3 DEF NothingSwallowed
<1>7. CASE Summarize
  <2>1. UNCHANGED <<lastSent, considered, accounted, denied>>
    BY <1>7 DEF Summarize
  <2>2. summarized' + limited' = summarized + limited
    BY <1>1, <1>7 DEF Summarize
  <2> QED
    BY <2>1, <2>2 DEF NothingSwallowed
<1>8. CASE AgentRestarts
  <2>1. /\ lastSent' = [q \in DedupKeys |-> NoEntry]
        /\ considered' = [q \in DedupKeys |-> 0]
        /\ accounted' = [q \in DedupKeys |-> 0]
        /\ limited' = 0 /\ denied' = 0 /\ summarized' = 0
    BY <1>8 DEF AgentRestarts
  <2> QED
    BY <2>1 DEF NothingSwallowed, NoEntry
<1>9. CASE \/ SessionStarts \/ LogsArrive \/ LogsFail \/ SendNext \/ PollEnds \/ Wakes
           \/ SessionEnds \/ HaLogs \/ Tick
  BY <1>9 DEF SessionStarts, LogsArrive, LogsFail, SendNext, PollEnds, Wakes,
              SessionEnds, HaLogs, Tick, throttle, ledger, NothingSwallowed
<1> QED
  BY <1>3, <1>4, <1>5, <1>6, <1>7, <1>8, <1>9 DEF WatchNext, Handle

\* Deduplication, rate limit and pruning together lose no record that passed
\* the replay guard without a trace in a counter that an event will tell, for
\* every order of records, ticks and restarts (logwatch.py offer, _prune).
THEOREM Conserved == WatchSpec => []NothingSwallowed
PROOF
<1>1. WatchInit => NothingSwallowed
  BY DEF WatchInit, NothingSwallowed, NoEntry
<1>2. WatchTypeOK /\ NothingSwallowed /\ [WatchNext]_watchVars => NothingSwallowed'
  <2>1. ASSUME WatchTypeOK, NothingSwallowed, WatchNext PROVE NothingSwallowed'
    BY <2>1, SwallowStep, WatchAssumption
  <2>2. ASSUME NothingSwallowed, UNCHANGED watchVars PROVE NothingSwallowed'
    BY <2>2 DEF watchVars, throttle, ledger, NothingSwallowed
  <2> QED
    BY <2>1, <2>2
<1> QED
  BY <1>1, <1>2, WatchTypeCorrect, PTL DEF WatchSpec

---------------------------------------------------------------------------
(* The rate.                                                               *)

\* What is in the bucket and what was spent since any earlier event fit into
\* the capacity and the refill since.
Budgeted ==
  /\ RateBound
  /\ \A i \in 1 .. Len(spentAt) :
       /\ spentAt[i] <= last
       /\ tokens + (Len(spentAt) - i + 1) * Cost <= Capacity * Cost + (last - spentAt[i])

LEMMA OneMore ==
  ASSUME NEW n \in Int, NEW c \in Int
  PROVE  (n + 1) * c = n * c + c
PROOF
  OBVIOUS

\* the arithmetic of a refill, and of what the refill leaves room for
LEMMA RefillKeepsBudget ==
  ASSUME NEW t \in Int, NEW u \in Int, NEW c \in Int, NEW full \in Int,
         NEW before \in Int, NEW after \in Int, NEW s \in Int,
         s <= before, before <= after, t + c <= full + (before - s),
         u <= t + (after - before)
  PROVE  s <= after /\ u + c <= full + (after - s)
PROOF
  OBVIOUS

LEMMA SpentFits ==
  ASSUME NEW t \in Nat, NEW c \in Int, NEW b \in Int, t + c <= b
  PROVE  c <= b
PROOF
  OBVIOUS

LEMMA SpendStep ==
  ASSUME WatchAssumption, WatchTypeOK, Budgeted, Spend
  PROVE  Budgeted'
PROOF
<1> DEFINE n == Len(spentAt)
           full == Capacity * Cost
           cost(m) == m * Cost
<1>1. /\ Cost \in Nat /\ full \in Nat /\ Cost <= full
  <2>1. Capacity \in Nat /\ Cost \in Nat /\ 1 <= Capacity
    BY DEF WatchAssumption
  <2>2. Capacity * Cost = (Capacity - 1) * Cost + Cost
    BY <2>1, OneMore
  <2>3. (Capacity - 1) * Cost \in Nat
    BY <2>1
  <2> QED
    BY <2>1, <2>2, <2>3
<1>2. /\ tokens \in Nat /\ last \in Nat /\ now \in Nat /\ last <= now
      /\ spentAt \in Seq(0 .. MaxNow)
  BY <1>1 DEF WatchTypeOK, WatchAssumption
<1>3. /\ n \in Nat
      /\ Len(spentAt') = n + 1
      /\ \A i \in 1 .. n : spentAt'[i] = spentAt[i] /\ spentAt[i] \in Nat
      /\ spentAt'[n + 1] = now
  <2>1. spentAt' = Append(spentAt, now) /\ now \in 0 .. MaxNow
    BY DEF Spend, WatchTypeOK
  <2> QED
    BY <1>2, <2>1, AppendProperties, LenProperties, ElementOfSeq
<1>4. \A m \in Int : cost(m) \in Int /\ cost(m + 1) = cost(m) + Cost
  BY <1>1, OneMore
<1>5. cost(1) = Cost
  BY <1>1
<1>6. /\ tokens' = Refilled - Cost /\ last' = now
      /\ Refilled \in Int /\ Cost <= Refilled
      /\ Refilled <= full /\ Refilled <= tokens + (now - last)
  BY <1>1, <1>2 DEF Spend, Refilled
<1>7. \A i \in 1 .. n : spentAt[i] <= last /\ tokens + cost(n - i + 1) <= full + (last - spentAt[i])
  BY DEF Budgeted
<1>8. \A i \in 1 .. n : \A j \in i .. n : cost(j - i + 1) <= full + (spentAt[j] - spentAt[i])
  BY DEF Budgeted, RateBound
<1> HIDE DEF n, full, cost
<1>9. ASSUME NEW i \in 1 .. (n + 1)
      PROVE  /\ spentAt'[i] <= now
             /\ tokens' + cost((n + 1) - i + 1) <= full + (now - spentAt'[i])
  <2>1. CASE i = n + 1
    <3>1. (n + 1) - i + 1 = 1 /\ spentAt'[i] = now
      BY <1>3, <2>1
    <3> QED
      BY <1>1, <1>2, <1>5, <1>6, <3>1
  <2>2. CASE i # n + 1
    <3>1. i \in 1 .. n /\ spentAt'[i] = spentAt[i] /\ spentAt[i] \in Nat
      BY <1>3, <2>2
    <3>2. n - i + 1 \in Int /\ (n + 1) - i + 1 = (n - i + 1) + 1
      BY <1>3, <3>1
    <3>3. cost((n + 1) - i + 1) = cost(n - i + 1) + Cost /\ cost(n - i + 1) \in Int
      BY <1>4, <3>2
    <3>4. spentAt[i] <= last /\ tokens + cost(n - i + 1) <= full + (last - spentAt[i])
      BY <1>7, <3>1
    <3>5. /\ full \in Int /\ Cost \in Int /\ tokens \in Int /\ Refilled \in Int
          /\ last \in Int /\ now \in Int /\ spentAt[i] \in Int
      BY <1>1, <1>2, <1>6, <3>1
    <3>6. /\ spentAt[i] <= now
          /\ Refilled + cost(n - i + 1) <= full + (now - spentAt[i])
      <4>1. /\ last <= now /\ cost(n - i + 1) \in Int
            /\ Refilled <= tokens + (now - last)
        BY <1>2, <1>6, <3>3
      <4> QED
        BY <3>4, <3>5, <4>1, RefillKeepsBudget
    <3>7. tokens' + cost((n + 1) - i + 1) = Refilled + cost(n - i + 1)
      BY <1>6, <3>3, <3>5
    <3> QED
      BY <3>1, <3>6, <3>7
  <2> QED
    BY <2>1, <2>2
<1>10. ASSUME NEW i \in 1 .. (n + 1), NEW j \in i .. (n + 1)
       PROVE  cost(j - i + 1) <= full + (spentAt'[j] - spentAt'[i])
  <2>1. CASE j = n + 1
    <3>1. tokens' \in Nat
      BY <1>1, <1>6
    <3>2. spentAt'[j] = now /\ spentAt'[i] \in Int
      BY <1>2, <1>3, <2>1
    <3>3. cost((n + 1) - i + 1) \in Int /\ full + (now - spentAt'[i]) \in Int
      <4>1. (n + 1) - i + 1 \in Int
        BY <1>3
      <4>2. full \in Int /\ now \in Int
        BY <1>1, <1>2
      <4> QED
        BY <1>4, <3>2, <4>1, <4>2
    <3>4. tokens' + cost((n + 1) - i + 1) <= full + (now - spentAt'[i])
      BY <1>9
    <3>5. cost((n + 1) - i + 1) <= full + (now - spentAt'[i])
      BY <3>1, <3>3, <3>4, SpentFits
    <3>6. cost(j - i + 1) = cost((n + 1) - i + 1)
      BY <2>1
    <3>7. spentAt'[j] - spentAt'[i] = now - spentAt'[i]
      BY ONLY <3>2
    <3> QED
      BY ONLY <3>5, <3>6, <3>7
  <2>2. CASE j # n + 1
    <3>1. i \in 1 .. n /\ j \in i .. n /\ j \in 1 .. n
      BY <1>3, <2>2
    <3> QED
      BY <1>3, <1>8, <3>1
  <2> QED
    BY <2>1, <2>2
<1>11. RateBound'
  BY <1>3, <1>10 DEF RateBound, cost, full
<1>12. \A i \in 1 .. Len(spentAt') :
         /\ spentAt'[i] <= last'
         /\ tokens' + (Len(spentAt') - i + 1) * Cost <= Capacity * Cost + (last' - spentAt'[i])
  BY <1>3, <1>6, <1>9 DEF cost, full
<1> QED
  BY <1>11, <1>12 DEF Budgeted

LEMMA ShortStep ==
  ASSUME WatchAssumption, WatchTypeOK, Budgeted, Short
  PROVE  Budgeted'
PROOF
<1> DEFINE full == Capacity * Cost
           cost(m) == m * Cost
<1>1. Cost \in Nat /\ full \in Nat /\ \A m \in Int : cost(m) \in Int
  BY DEF WatchAssumption
<1>2. /\ tokens \in Nat /\ last \in Nat /\ now \in Nat /\ last <= now
      /\ Len(spentAt) \in Nat
      /\ \A i \in 1 .. Len(spentAt) : spentAt[i] \in Nat
  BY <1>1, ElementOfSeq, LenProperties DEF WatchTypeOK, WatchAssumption
<1>3. /\ tokens' \in Int /\ last' = now /\ spentAt' = spentAt
      /\ tokens' <= tokens + (now - last)
  BY <1>1, <1>2 DEF Short, Refilled
<1>4. \A i \in 1 .. Len(spentAt) :
        spentAt[i] <= last /\ tokens + cost(Len(spentAt) - i + 1) <= full + (last - spentAt[i])
  BY DEF Budgeted
<1> HIDE DEF full, cost
<1>5. ASSUME NEW i \in 1 .. Len(spentAt)
      PROVE  spentAt[i] <= now /\ tokens' + cost(Len(spentAt) - i + 1) <= full + (now - spentAt[i])
  <2>1. cost(Len(spentAt) - i + 1) \in Int
    BY <1>1, <1>2
  <2>2. /\ tokens \in Int /\ tokens' \in Int /\ full \in Int
        /\ last \in Int /\ now \in Int /\ spentAt[i] \in Int
    BY <1>1, <1>2, <1>3
  <2>3. /\ spentAt[i] <= last /\ last <= now
        /\ tokens + cost(Len(spentAt) - i + 1) <= full + (last - spentAt[i])
        /\ tokens' <= tokens + (now - last)
    BY <1>2, <1>3, <1>4
  <2> QED
    BY <2>1, <2>2, <2>3, RefillKeepsBudget
<1>6. RateBound'
  BY <1>3 DEF Budgeted, RateBound
<1> QED
  BY <1>3, <1>5, <1>6 DEF Budgeted, cost, full

LEMMA BudgetStep ==
  ASSUME WatchAssumption, WatchTypeOK, Budgeted, WatchNext
  PROVE  Budgeted'
PROOF
<1>1. CASE Spend
  BY <1>1, SpendStep
<1>2. CASE Short
  BY <1>2, ShortStep
<1>3. CASE UNCHANGED <<tokens, last, spentAt>>
  BY <1>3 DEF Budgeted, RateBound
<1>4. CASE AgentRestarts
  <2>1. spentAt' = <<>>
    BY <1>4 DEF AgentRestarts
  <2> QED
    BY <2>1 DEF Budgeted, RateBound
<1> QED
  BY <1>1, <1>2, <1>3, <1>4
     DEF WatchNext, Handle, Absorb, Ignore, Suppress, Deny, Report, Summarize,
         SessionStarts, LogsArrive, LogsFail, SendNext, PollEnds, Wakes,
         SessionEnds, HaLogs, Tick, throttle, ledger

\* One process never makes more events in a span of time than the bucket holds
\* and the span refills, summaries included (logwatch.py TokenBucket, offer,
\* drain_rate_limit_summary).
THEOREM RateBounded == WatchSpec => []RateBound
PROOF
<1>1. WatchInit => Budgeted
  BY DEF WatchInit, Budgeted, RateBound
<1>2. WatchTypeOK /\ Budgeted /\ [WatchNext]_watchVars => Budgeted'
  <2>1. ASSUME WatchTypeOK, Budgeted, WatchNext PROVE Budgeted'
    BY <2>1, BudgetStep, WatchAssumption
  <2>2. ASSUME Budgeted, UNCHANGED watchVars PROVE Budgeted'
    BY <2>2 DEF watchVars, throttle, ledger, Budgeted, RateBound
  <2> QED
    BY <2>1, <2>2
<1>3. Budgeted => RateBound
  BY DEF Budgeted
<1> QED
  BY <1>1, <1>2, <1>3, WatchTypeCorrect, PTL DEF WatchSpec

---------------------------------------------------------------------------
(* No text is considered twice.                                            *)

\* the last line of the record with fingerprint f
LineOf(f) == f[1] + f[2]

\* log s has the record with fingerprint f, be it with more lines
InLog(s, f) ==
  /\ LineOf(f) <= Len(s)
  /\ s[f[1]] \in Keys \cup {Low}
  /\ \A j \in (f[1] + 1) .. LineOf(f) : s[j] = "more"

\* exactly k lines are kept of what follows line p
Complete(s, p, k) ==
  /\ k \in 0 .. FollowLines
  /\ p + k <= Len(s)
  /\ \A j \in (p + 1) .. (p + k) : s[j] = "more"
  /\ k < FollowLines => p + k = Len(s) \/ s[p + k + 1] # "more"

\* a poll of log s reads the record at line p
InTail(s, p) == p > Len(s) - TailLines /\ s[p] \in Keys

\* what stands at line p is one of the texts K
Dealt(s, K, p) == \E k \in 0 .. FollowLines : <<p, k>> \in K /\ Complete(s, p, k)

KnownInv ==
  /\ \A f \in known : InLog(journal, f)
  /\ \A f \in known : \A p \in 1 .. (f[1] - 1) :
       InTail(journal, p) => Dealt(journal, known, p)

\* the ring holds the latest of the texts that were marked, in their order
RingInv ==
  /\ \A i, j \in 1 .. Len(ring) : i < j => LineOf(ring[i]) < LineOf(ring[j])
  /\ ringSet \subseteq known
  /\ \A f \in known \ ringSet : Len(ring) = Ring /\ LineOf(f) < LineOf(ring[1])

LoopInv ==
  /\ ~primed => known = {}
  /\ polled # {} => primed /\ at \in {"priming", "offering"}
  /\ at = "priming" => \A r \in polled : \A f \in known : f[1] < r.pos

PolledInv ==
  \A r \in polled :
    /\ InLog(journal, Fingerprint(r)) /\ journal[r.pos] = r.key
    /\ \A f \in known :
         /\ LineOf(f) < r.pos + TailLines
         /\ f[1] = r.pos => f[2] <= r.more
         /\ f[1] > r.pos => r.key = Low \/ Fingerprint(r) \in known
    /\ \A q \in polled :
         /\ LineOf(Fingerprint(q)) < r.pos + TailLines
         /\ q.pos = r.pos => q = r
         /\ q.pos > r.pos => Complete(journal, r.pos, r.more)
    /\ \A p \in 1 .. (r.pos - 1) :
         InTail(journal, p) => Dealt(journal, known, p) \/ \E q \in polled : q.pos = p

OnceInv == KnownInv /\ RingInv /\ LoopInv /\ PolledInv

\* What the parser keeps of the lines that follow line i is all there is, or
\* as much as it keeps at most.
LEMMA FollowsComplete ==
  ASSUME WatchAssumption, journal \in Seq(Lines), NEW i \in 1 .. Len(journal)
  PROVE  Complete(journal, i, Follows(i))
PROOF
<1> DEFINE F == {m \in 1 .. FollowLines :
                   \A j \in (i + 1) .. (i + m) : j <= Len(journal) /\ journal[j] = "more"}
           T == {n \in Nat : n >= 1 /\ n \notin F}
<1>1. FollowLines \in Nat /\ Len(journal) \in Nat /\ i \in Nat /\ i <= Len(journal)
  BY LenProperties DEF WatchAssumption
<1>2. FollowLines + 1 \in T
  BY <1>1
<1>3. PICK x \in T : \A y \in T : ~(y < x)
  <2>1. T \subseteq Nat /\ T # {}
    BY <1>2
  <2> HIDE DEF T
  <2>2. PICK x \in T : \A y \in T : <<y, x>> \notin OpToRel(<, Nat)
    BY <2>1, WFMin, NatLessThanWellFounded
  <2> QED
    BY <2>1, <2>2 DEF OpToRel
<1>4. x \in Nat /\ x >= 1 /\ x <= FollowLines + 1
  BY <1>1, <1>2, <1>3
<1>5. F = 1 .. (x - 1)
  <2>1. ASSUME NEW m \in F PROVE m \in 1 .. (x - 1)
    BY <1>1, <1>3, <1>4
  <2>2. ASSUME NEW m \in 1 .. (x - 1) PROVE m \in F
    <3>1. m \in Nat /\ m >= 1 /\ m < x
      BY <1>4
    <3>2. m \notin T
      BY <1>3, <3>1
    <3> QED
      BY <3>1, <3>2
  <2> QED
    BY <2>1, <2>2
<1>6. \A j \in (i + 1) .. (i + (x - 1)) : j <= Len(journal) /\ journal[j] = "more"
  <2>1. CASE x = 1
    BY <1>1, <2>1
  <2>2. CASE x # 1
    <3>1. x - 1 \in F
      BY <1>4, <1>5, <2>2
    <3> QED
      BY <3>1
  <2> QED
    BY <2>1, <2>2
<1>7. x - 1 < FollowLines => i + (x - 1) = Len(journal) \/ journal[i + (x - 1) + 1] # "more"
  <2> SUFFICES ASSUME x - 1 < FollowLines, i + (x - 1) # Len(journal)
               PROVE  journal[i + (x - 1) + 1] # "more"
    OBVIOUS
  <2>1. x \in 1 .. FollowLines /\ x \notin F
    BY <1>1, <1>3, <1>4
  <2>2. PICK j \in (i + 1) .. (i + x) : ~(j <= Len(journal) /\ journal[j] = "more")
    BY <2>1
  <2>3. j = i + x
    BY <1>1, <1>4, <1>6, <2>2
  <2>4. i + (x - 1) <= Len(journal)
    BY <1>1, <1>4, <1>6
  <2>5. i + x <= Len(journal) /\ i + (x - 1) + 1 = i + x
    BY <1>1, <1>4, <2>4
  <2> QED
    BY <2>2, <2>3, <2>5
<1>8. i + (x - 1) <= Len(journal)
  BY <1>1, <1>4, <1>6
<1>9. Follows(i) = x - 1
  <2>1. \A a, b \in Int : Cardinality(a .. b) = IF a > b THEN 0 ELSE b - a + 1
    BY FS_Interval
  <2>2. 1 \in Int /\ x - 1 \in Int
    BY <1>4
  <2>3. Cardinality(1 .. (x - 1)) = IF 1 > x - 1 THEN 0 ELSE (x - 1) - 1 + 1
    BY ONLY <2>1, <2>2
  <2>4. Cardinality(1 .. (x - 1)) = x - 1
    BY <1>4, <2>3
  <2> HIDE DEF T
  <2> QED
    BY <1>5, <2>4 DEF Follows
<1> HIDE DEF F, T
<1> QED
  BY <1>1, <1>4, <1>6, <1>7, <1>8, <1>9 DEF Complete

\* A record is complete in one way only.
LEMMA CompleteUnique ==
  ASSUME NEW s, Len(s) \in Nat, NEW p \in Nat, NEW k, NEW l,
         FollowLines \in Nat, Complete(s, p, k), Complete(s, p, l)
  PROVE  k = l
PROOF
<1>1. ASSUME NEW a \in 0 .. FollowLines, NEW b \in 0 .. FollowLines,
             Complete(s, p, a), Complete(s, p, b)
      PROVE  ~(a < b)
  <2> SUFFICES ASSUME a < b PROVE FALSE
    OBVIOUS
  <2>1. p + a + 1 \in (p + 1) .. (p + b) /\ a < FollowLines /\ p + a # Len(s)
    BY <1>1 DEF Complete
  <2> QED
    BY <1>1, <2>1 DEF Complete
<1>2. k \in 0 .. FollowLines /\ l \in 0 .. FollowLines
  BY DEF Complete
<1> QED
  BY <1>1, <1>2

\* What was seen of a record is no longer than the whole of it.
LEMMA CompleteLongest ==
  ASSUME NEW s, Len(s) \in Nat, FollowLines \in Nat, NEW k,
         NEW f \in Nat \X (0 .. FollowLines), InLog(s, f), Complete(s, f[1], k)
  PROVE  f[2] <= k
PROOF
<1> SUFFICES ASSUME ~(f[2] <= k) PROVE FALSE
  OBVIOUS
<1>1. f[1] \in Nat /\ f[2] \in 0 .. FollowLines /\ k \in 0 .. FollowLines
  BY DEF Complete
<1>2. /\ f[1] + k + 1 \in (f[1] + 1) .. LineOf(f)
      /\ k < FollowLines /\ f[1] + k # Len(s)
  BY <1>1 DEF InLog, LineOf
<1> QED
  BY <1>1, <1>2 DEF InLog, Complete

\* A record ends before the next one begins.
LEMMA EndsBefore ==
  ASSUME WatchAssumption, NEW s, Len(s) \in Nat, NEW f \in Nat \X Nat, InLog(s, f),
         NEW z \in Nat, f[1] < z, s[z] \in Keys \cup {Low}
  PROVE  LineOf(f) < z
PROOF
<1>1. f[1] \in Nat /\ f[2] \in Nat
  OBVIOUS
<1>2. s[z] # "more"
  BY DEF WatchAssumption
<1>3. ASSUME ~(LineOf(f) < z)
      PROVE  z \in (f[1] + 1) .. LineOf(f)
  BY <1>1, <1>3 DEF LineOf
<1> QED
  BY <1>2, <1>3 DEF InLog

\* What a log says of its records stays so when it grows.
LEMMA LogGrows ==
  ASSUME WatchAssumption, NEW s \in Seq(Lines), NEW x \in Lines
  PROVE  /\ \A f \in (1 .. MaxLines) \X Nat : InLog(s, f) => InLog(Append(s, x), f)
         /\ \A p, k, z \in Nat : Complete(s, p, k) /\ p < z /\ z <= Len(s) /\ p >= 1
              /\ s[z] \in Keys \cup {Low} => Complete(Append(s, x), p, k)
         /\ \A p \in 1 .. Len(s) : InTail(Append(s, x), p) => InTail(s, p)
PROOF
<1> DEFINE t == Append(s, x)
<1>1. /\ Len(s) \in Nat /\ Len(t) = Len(s) + 1
      /\ \A j \in 1 .. Len(s) : t[j] = s[j]
  BY LenProperties, AppendProperties
<1> HIDE DEF t
<1>2. ASSUME NEW f \in (1 .. MaxLines) \X Nat, InLog(s, f)
      PROVE  InLog(t, f)
  <2>1. f[1] \in Nat /\ f[1] >= 1 /\ f[2] \in Nat /\ f[1] <= LineOf(f) /\ LineOf(f) \in Nat
    BY DEF LineOf, WatchAssumption
  <2>2. LineOf(f) <= Len(s)
    BY <1>2 DEF InLog
  <2>3. t[f[1]] = s[f[1]] /\ \A j \in (f[1] + 1) .. LineOf(f) : t[j] = s[j]
    BY <1>1, <2>1, <2>2
  <2> QED
    BY <1>1, <1>2, <2>1, <2>2, <2>3 DEF InLog
<1>3. ASSUME NEW p \in Nat, NEW k \in Nat, NEW z \in Nat, Complete(s, p, k),
             p < z, z <= Len(s), p >= 1, s[z] \in Keys \cup {Low}
      PROVE  Complete(t, p, k)
  <2>1. s[z] # "more"
    BY <1>3 DEF WatchAssumption
  <2>2. p + k < z
    BY <1>3, <2>1 DEF Complete
  <2>3. /\ \A j \in (p + 1) .. (p + k) : t[j] = s[j]
        /\ t[p + k + 1] = s[p + k + 1] /\ p + k # Len(s) /\ p + k <= Len(t)
    BY <1>1, <1>3, <2>2
  <2> QED
    BY <1>3, <2>3 DEF Complete
<1>4. ASSUME NEW p \in 1 .. Len(s), InTail(t, p)
      PROVE  InTail(s, p)
  <2>1. p > Len(t) - TailLines /\ t[p] \in Keys /\ t[p] = s[p]
    BY <1>1, <1>4 DEF InTail
  <2>2. TailLines \in Nat
    BY DEF WatchAssumption
  <2>3. p > Len(s) - TailLines
    BY <1>1, <2>1, <2>2
  <2> QED
    BY <2>1, <2>3 DEF InTail
<1> QED
  BY <1>2, <1>3, <1>4 DEF t

\* A text that is to be marked was not marked before, and stands after all that were.
LEMMA MarksAreNew ==
  ASSUME WatchAssumption, Ring >= TailLines, WatchTypeOK, OnceInv,
         NEW r \in polled, IsNext(r), Fingerprint(r) \notin ringSet,
         at = "priming" \/ r.key # Low
  PROVE  /\ Fingerprint(r) \notin known
         /\ \A f \in known : LineOf(f) < LineOf(Fingerprint(r))
PROOF
<1>1. /\ r.pos \in 1 .. MaxLines /\ r.more \in 0 .. FollowLines
      /\ r.key \in Keys \cup {Low}
  BY DEF WatchTypeOK, Records
<1>2. /\ MaxLines \in Nat /\ FollowLines \in Nat /\ TailLines \in Nat /\ Ring \in Nat
      /\ Ring >= 1
  BY DEF WatchAssumption
<1>3. /\ r.pos \in Nat /\ r.more \in Nat
      /\ Fingerprint(r)[1] = r.pos /\ Fingerprint(r)[2] = r.more
      /\ LineOf(Fingerprint(r)) = r.pos + r.more
  BY <1>1, <1>2 DEF Fingerprint, LineOf
<1>4. \A f \in known : f \in (1 .. MaxLines) \X (0 .. FollowLines) /\ LineOf(f) \in Nat
  BY <1>2 DEF WatchTypeOK, Fingerprints, LineOf
<1>5. Fingerprint(r) \notin known
  <2> SUFFICES ASSUME Fingerprint(r) \in known PROVE FALSE
    OBVIOUS
  <2>1. Len(ring) = Ring /\ LineOf(Fingerprint(r)) < LineOf(ring[1])
    BY DEF OnceInv, RingInv
  <2>2. ASSUME NEW i \in 1 .. Ring
        PROVE  LineOf(ring[i]) \in (r.pos + 1) .. (r.pos + TailLines - 1)
    <3>1. ring[i] \in known
      BY <2>1 DEF OnceInv, RingInv, WatchTypeOK
    <3>2. LineOf(ring[i]) < r.pos + TailLines
      BY <3>1 DEF OnceInv, PolledInv
    <3>3. i = 1 \/ LineOf(ring[1]) < LineOf(ring[i])
      BY <1>2, <2>1 DEF OnceInv, RingInv
    <3>4. ring[1] \in known
      BY <1>2, <2>1 DEF OnceInv, RingInv, WatchTypeOK
    <3>5. LineOf(ring[1]) \in Nat /\ LineOf(ring[i]) \in Nat
      BY <1>4, <3>1, <3>4
    <3>6. r.pos < LineOf(ring[i])
      BY <1>3, <2>1, <3>3, <3>5
    <3> QED
      BY <1>2, <1>3, <3>2, <3>5, <3>6
  <2> DEFINE S == (r.pos + 1) .. (r.pos + TailLines - 1)
             g == [i \in 1 .. Ring |-> LineOf(ring[i])]
  <2>3. g \in [1 .. Ring -> S]
    BY <2>2
  <2>4. IsFiniteSet(S) /\ IsFiniteSet(1 .. Ring) /\ Cardinality(S) < Cardinality(1 .. Ring)
    <3>1. \A a, b \in Int : /\ IsFiniteSet(a .. b)
                            /\ Cardinality(a .. b) = IF a > b THEN 0 ELSE b - a + 1
      BY FS_Interval
    <3>2. /\ 1 \in Int /\ Ring \in Int /\ r.pos + 1 \in Int
          /\ r.pos + TailLines - 1 \in Int
      BY <1>2, <1>3
    <3>3. /\ IsFiniteSet(S) /\ IsFiniteSet(1 .. Ring)
          /\ Cardinality(1 .. Ring) = IF 1 > Ring THEN 0 ELSE Ring - 1 + 1
          /\ Cardinality(S) = IF r.pos + 1 > r.pos + TailLines - 1 THEN 0
                              ELSE (r.pos + TailLines - 1) - (r.pos + 1) + 1
      BY <3>1, <3>2
    <3> HIDE DEF S
    <3>4. Cardinality(1 .. Ring) = Ring
      BY <1>2, <3>3
    <3>5. Cardinality(S) = 0 \/ Cardinality(S) = TailLines - 1
      BY <1>2, <1>3, <3>3
    <3> QED
      BY <1>2, <3>3, <3>4, <3>5
  <2> HIDE DEF S
  <2>5. PICK x, y \in 1 .. Ring : x # y /\ g[x] = g[y]
    <3> HIDE DEF g
    <3> QED
      BY <2>3, <2>4, FS_PigeonHole
  <2>6. x < y \/ y < x
    BY <1>2, <2>5
  <2>7. LineOf(ring[x]) < LineOf(ring[y]) \/ LineOf(ring[y]) < LineOf(ring[x])
    BY <2>1, <2>6 DEF OnceInv, RingInv
  <2>8. LineOf(ring[x]) = LineOf(ring[y])
    BY <2>5
  <2>9. LineOf(ring[x]) \in Nat
    BY <1>2, <1>3, <2>2
  <2> QED
    BY <2>7, <2>8, <2>9
<1>6. ASSUME NEW f \in known
      PROVE  LineOf(f) < LineOf(Fingerprint(r))
  <2>1. f[1] \in Nat /\ f[2] \in Nat /\ f = <<f[1], f[2]>> /\ LineOf(f) = f[1] + f[2]
    BY <1>2, <1>4 DEF LineOf
  <2>2. CASE f[1] < r.pos
    <3>1. InLog(journal, f) /\ journal[r.pos] \in Keys \cup {Low}
      BY <1>1 DEF OnceInv, KnownInv, PolledInv
    <3>2. Len(journal) \in Nat /\ f \in Nat \X Nat
      BY <2>1, LenProperties DEF WatchTypeOK
    <3>3. LineOf(f) < r.pos
      BY <1>3, <2>2, <3>1, <3>2, EndsBefore
    <3> QED
      BY <1>3, <2>1, <3>3
  <2>3. CASE f[1] = r.pos
    <3>1. f[2] <= r.more
      BY <2>3 DEF OnceInv, PolledInv
    <3>2. f[2] # r.more
      BY <1>5, <2>1, <2>3 DEF Fingerprint
    <3> QED
      BY <1>3, <2>1, <2>3, <3>1, <3>2
  <2>4. ~(f[1] > r.pos)
    <3> SUFFICES ASSUME f[1] > r.pos PROVE FALSE
      OBVIOUS
    <3>1. r.key = Low
      BY <1>5 DEF OnceInv, PolledInv
    <3>2. f[1] < r.pos
      BY <3>1 DEF OnceInv, LoopInv
    <3> QED
      BY <1>3, <2>1, <3>2
  <2> QED
    BY <1>3, <2>1, <2>2, <2>3, <2>4
<1> QED
  BY <1>5, <1>6

\* The ring stays in order and holds the latest.
LEMMA MarkKeepsOrder ==
  ASSUME WatchAssumption, WatchTypeOK, RingInv,
         NEW r \in polled, Fingerprint(r) \notin ringSet, MarkSeen(r),
         \A f \in known : LineOf(f) < LineOf(Fingerprint(r))
  PROVE  RingInv'
PROOF
<1> DEFINE g == Fingerprint(r)
<1>1. /\ g \in Fingerprints /\ ring \in Seq(Fingerprints) /\ Len(ring) \in Nat
      /\ Ring \in Nat /\ Ring >= 1 /\ Len(ring) <= Ring
      /\ \A i \in 1 .. Len(ring) : ring[i] \in ringSet /\ ring[i] \in known
      /\ \A i \in 1 .. Len(ring) : ring[i] = ring[1] => i = 1
  <2>1. g \in Fingerprints
    BY DEF WatchTypeOK, Records, Fingerprint, Fingerprints
  <2> QED
    BY <2>1, LenProperties DEF WatchTypeOK, WatchAssumption, RingInv
<1>2. \A f \in Fingerprints : LineOf(f) \in Nat
  BY DEF Fingerprints, LineOf, WatchAssumption
<1>3. known' = known \cup {g} /\ known \subseteq Fingerprints
  BY DEF MarkSeen, WatchTypeOK
<1> HIDE DEF g
<1>4. CASE Len(ring) # Ring
  <2>1. /\ Len(ring') = Len(ring) + 1
        /\ \A i \in 1 .. Len(ring) : ring'[i] = ring[i]
        /\ ring'[Len(ring) + 1] = g
        /\ ringSet' = ringSet \cup {g}
    BY <1>1, <1>4, AppendProperties DEF MarkSeen, g
  <2>2. known = ringSet
    BY <1>4 DEF RingInv
  <2>3. ASSUME NEW i \in 1 .. Len(ring'), NEW j \in 1 .. Len(ring'), i < j
        PROVE  LineOf(ring'[i]) < LineOf(ring'[j])
    <3>1. i \in 1 .. Len(ring) /\ ring'[i] = ring[i] /\ ring[i] \in known
      BY <1>1, <2>1, <2>3
    <3>2. CASE j = Len(ring) + 1
      BY <2>1, <3>1, <3>2 DEF g
    <3>3. CASE j # Len(ring) + 1
      <4>1. j \in 1 .. Len(ring) /\ ring'[j] = ring[j]
        BY <1>1, <2>1, <3>3
      <4> QED
        BY <2>3, <3>1, <4>1 DEF RingInv
    <3> QED
      BY <3>2, <3>3
  <2> QED
    BY <1>3, <2>1, <2>2, <2>3 DEF RingInv
<1>5. CASE Len(ring) = Ring
  <2> DEFINE u == Tail(ring)
  <2>1. ring # <<>>
    BY <1>1, <1>5, EmptySeq
  <2>2. /\ u \in Seq(Fingerprints) /\ Len(u) = Ring - 1
        /\ \A i \in 1 .. Len(u) : u[i] = ring[i + 1]
        /\ Head(ring) = ring[1]
    BY <1>1, <1>5, <2>1, HeadTailProperties
  <2> HIDE DEF u
  <2>3. /\ Len(ring') = Ring
        /\ \A i \in 1 .. (Ring - 1) : ring'[i] = ring[i + 1]
        /\ ring'[Ring] = g
        /\ ringSet' = (ringSet \ {ring[1]}) \cup {g}
    <3>1. ring' = Append(u, g) /\ ringSet' = (ringSet \ {Head(ring)}) \cup {g}
      BY <1>5 DEF MarkSeen, g, u
    <3>2. /\ Len(Append(u, g)) = Len(u) + 1
          /\ \A i \in 1 .. Len(u) : Append(u, g)[i] = u[i]
          /\ Append(u, g)[Len(u) + 1] = g
      BY <1>1, <2>2, AppendProperties
    <3> QED
      BY <1>1, <2>2, <3>1, <3>2
  <2>4. ASSUME NEW i \in 1 .. Ring, NEW j \in 1 .. Ring, i < j
        PROVE  LineOf(ring'[i]) < LineOf(ring'[j])
    <3>1. i \in 1 .. (Ring - 1) /\ ring'[i] = ring[i + 1] /\ i + 1 \in 1 .. Len(ring)
      BY <1>1, <1>5, <2>3, <2>4
    <3>2. CASE j = Ring
      BY <1>1, <2>3, <3>1, <3>2 DEF g
    <3>3. CASE j # Ring
      <4>1. ring'[j] = ring[j + 1] /\ j + 1 \in 1 .. Len(ring) /\ i + 1 < j + 1
        BY <1>1, <1>5, <2>3, <2>4, <3>3
      <4> QED
        BY <3>1, <4>1 DEF RingInv
    <3> QED
      BY <3>2, <3>3
  <2>5. LineOf(ring[1]) < LineOf(ring'[1])
    <3>1. CASE Ring = 1
      BY <1>1, <1>5, <2>3, <3>1 DEF g
    <3>2. CASE Ring # 1
      <4>1. 1 \in 1 .. (Ring - 1) /\ 1 \in 1 .. Len(ring) /\ 1 + 1 \in 1 .. Len(ring)
        BY <1>1, <1>5, <3>2
      <4>2. ring'[1] = ring[1 + 1] /\ LineOf(ring[1]) < LineOf(ring[1 + 1])
        BY <2>3, <4>1 DEF RingInv
      <4> QED
        BY <4>2
    <3> QED
      BY <3>1, <3>2
  <2>6. ASSUME NEW f \in known' \ ringSet'
        PROVE  LineOf(f) < LineOf(ring'[1])
    <3>1. f \in known /\ (f \notin ringSet \/ f = ring[1])
      BY <1>3, <2>3
    <3>2. LineOf(f) <= LineOf(ring[1])
      <4>1. f \in Fingerprints /\ ring[1] \in Fingerprints
        BY <1>1, <1>3, <1>5, <3>1
      <4> QED
        BY <1>2, <3>1, <4>1 DEF RingInv
    <3>3. LineOf(f) \in Nat /\ LineOf(ring[1]) \in Nat /\ LineOf(ring'[1]) \in Nat
      <4>1. f \in Fingerprints /\ ring[1] \in Fingerprints
        BY <1>1, <1>3, <1>5, <3>1
      <4>2. ring'[1] \in Fingerprints
        BY <1>1, <1>3, <1>5, <2>3
      <4> QED
        BY <1>2, <4>1, <4>2
    <3> QED
      BY <2>5, <3>2, <3>3
  <2> QED
    BY <1>3, <2>3, <2>4, <2>6 DEF RingInv
<1> QED
  BY <1>4, <1>5

\* A record that is handled, and marked if it is one to report, leaves what is
\* known of the log in order.
LEMMA HandledKeeps ==
  ASSUME WatchAssumption, WatchTypeOK, OnceInv,
         NEW r \in polled, IsNext(r), polled' = polled \ {r},
         UNCHANGED <<journal, at, primed>>,
         known' = known \/ known' = known \cup {Fingerprint(r)},
         r.key = Low \/ Fingerprint(r) \in known'
  PROVE  KnownInv' /\ PolledInv' /\ LoopInv'
PROOF
<1> DEFINE g == Fingerprint(r)
<1>1. g[1] = r.pos /\ g[2] = r.more
  BY DEF Fingerprint
<1>2. /\ r.pos \in Nat /\ r.more \in 0 .. FollowLines
      /\ \A q \in polled : q.pos \in Nat
  BY DEF WatchTypeOK, Records, WatchAssumption
<1>3. \A q \in polled : r.pos <= q.pos /\ (q.pos = r.pos => q = r)
  BY DEF IsNext, OnceInv, PolledInv
<1>4. known \subseteq known' /\ \A f \in known' : f \in known \/ f = g
  OBVIOUS
<1>5. \A p : Dealt(journal, known, p) => Dealt(journal, known', p)
  BY <1>4 DEF Dealt
<1>6. \A q \in polled' : q \in polled /\ q # r /\ r.pos < q.pos
  BY <1>2, <1>3
<1> HIDE DEF g
<1>7. KnownInv'
  <2>1. \A f \in known' : InLog(journal, f)
    BY <1>4 DEF OnceInv, KnownInv, PolledInv, g
  <2>2. ASSUME NEW f \in known', NEW p \in 1 .. (f[1] - 1), InTail(journal, p)
        PROVE  Dealt(journal, known', p)
    <3>1. CASE f \in known
      BY <1>5, <2>2, <3>1 DEF OnceInv, KnownInv
    <3>2. CASE f = g
      <4>1. p \in 1 .. (r.pos - 1)
        BY <1>1, <3>2
      <4>2. ~ \E q \in polled : q.pos = p
        BY <1>2, <1>3, <4>1
      <4> QED
        BY <1>5, <2>2, <4>1, <4>2 DEF OnceInv, PolledInv
    <3> QED
      BY <1>4, <3>1, <3>2
  <2> QED
    BY <2>1, <2>2 DEF KnownInv
<1>8. ASSUME NEW q \in polled'
      PROVE  /\ InLog(journal, Fingerprint(q)) /\ journal[q.pos] = q.key
             /\ \A f \in known' :
                  /\ LineOf(f) < q.pos + TailLines
                  /\ f[1] = q.pos => f[2] <= q.more
                  /\ f[1] > q.pos => q.key = Low \/ Fingerprint(q) \in known'
             /\ \A z \in polled' :
                  /\ LineOf(Fingerprint(z)) < q.pos + TailLines
                  /\ z.pos = q.pos => z = q
                  /\ z.pos > q.pos => Complete(journal, q.pos, q.more)
             /\ \A p \in 1 .. (q.pos - 1) :
                  InTail(journal, p)
                    => Dealt(journal, known', p) \/ \E z \in polled' : z.pos = p
  <2>1. q \in polled /\ q # r /\ r.pos < q.pos
    BY <1>6
  <2>2. InLog(journal, Fingerprint(q)) /\ journal[q.pos] = q.key
    BY <2>1 DEF OnceInv, PolledInv
  <2>3. ASSUME NEW f \in known'
        PROVE  /\ LineOf(f) < q.pos + TailLines
               /\ f[1] = q.pos => f[2] <= q.more
               /\ f[1] > q.pos => q.key = Low \/ Fingerprint(q) \in known'
    <3>1. CASE f \in known
      BY <1>4, <2>1, <3>1 DEF OnceInv, PolledInv
    <3>2. CASE f = g
      <4>1. LineOf(f) < q.pos + TailLines
        BY <2>1, <3>2 DEF OnceInv, PolledInv, g
      <4>2. f[1] # q.pos /\ ~(f[1] > q.pos)
        BY <1>1, <1>2, <2>1, <3>2
      <4> QED
        BY <4>1, <4>2
    <3> QED
      BY <1>4, <3>1, <3>2
  <2>4. \A z \in polled' :
          /\ LineOf(Fingerprint(z)) < q.pos + TailLines
          /\ z.pos = q.pos => z = q
          /\ z.pos > q.pos => Complete(journal, q.pos, q.more)
    BY <1>6, <2>1 DEF OnceInv, PolledInv
  <2>5. ASSUME NEW p \in 1 .. (q.pos - 1), InTail(journal, p),
               ~ \E z \in polled' : z.pos = p
        PROVE  Dealt(journal, known', p)
    <3>1. CASE Dealt(journal, known, p)
      BY <1>5, <3>1
    <3>2. CASE ~Dealt(journal, known, p)
      <4>1. PICK z \in polled : z.pos = p
        BY <2>1, <2>5, <3>2 DEF OnceInv, PolledInv
      <4>2. z = r
        BY <2>5, <4>1
      <4>3. r.key # Low
        BY <2>5, <4>1, <4>2 DEF InTail, OnceInv, PolledInv, WatchAssumption
      <4>4. <<p, r.more>> \in known'
        BY <4>1, <4>2, <4>3 DEF Fingerprint
      <4>5. Complete(journal, p, r.more)
        BY <1>2, <2>1, <4>1, <4>2 DEF OnceInv, PolledInv
      <4> QED
        BY <1>2, <4>4, <4>5 DEF Dealt
    <3> QED
      BY <3>1, <3>2
  <2> QED
    BY <2>2, <2>3, <2>4, <2>5
<1>9. PolledInv'
  BY <1>8 DEF PolledInv, InLog, LineOf, Complete, InTail, Dealt, Fingerprint
<1>10. LoopInv'
  <2>1. primed /\ at \in {"priming", "offering"}
    BY DEF OnceInv, LoopInv
  <2>2. ASSUME at = "priming", NEW q \in polled', NEW f \in known'
        PROVE  f[1] < q.pos
    BY <1>1, <1>4, <1>6, <2>2 DEF OnceInv, LoopInv
  <2> QED
    BY <2>1, <2>2 DEF LoopInv
<1> QED
  BY <1>7, <1>9, <1>10

\* One record.
LEMMA HandleStep ==
  ASSUME WatchAssumption, Ring >= TailLines, WatchTypeOK, OnceInv, Handle
  PROVE  OnceInv'
PROOF
<1>1. PICK r \in polled : Absorb(r) \/ Ignore(r) \/ Suppress(r) \/ Deny(r) \/ Report(r)
  BY DEF Handle
<1>2. IsNext(r) /\ polled' = polled \ {r} /\ UNCHANGED <<journal, at, primed>>
  BY <1>1 DEF Absorb, Ignore, Suppress, Deny, Report, Considered, world
<1>3. CASE /\ Fingerprint(r) \notin ringSet /\ MarkSeen(r)
           /\ at = "priming" \/ r.key # Low
  <2>1. known' = known \cup {Fingerprint(r)}
    BY <1>3 DEF MarkSeen
  <2>2. \A f \in known : LineOf(f) < LineOf(Fingerprint(r))
    BY <1>2, <1>3, MarksAreNew
  <2>3. RingInv'
    BY <1>3, <2>2, MarkKeepsOrder DEF OnceInv
  <2>4. KnownInv' /\ PolledInv' /\ LoopInv'
    BY <1>2, <2>1, HandledKeeps
  <2> QED
    BY <2>3, <2>4 DEF OnceInv
<1>4. CASE /\ r.key = Low \/ Fingerprint(r) \in ringSet
           /\ UNCHANGED <<ring, ringSet, known>>
  <2>1. RingInv'
    BY <1>4 DEF OnceInv, RingInv
  <2>2. r.key = Low \/ Fingerprint(r) \in known'
    BY <1>4 DEF OnceInv, RingInv
  <2>3. KnownInv' /\ PolledInv' /\ LoopInv'
    BY <1>2, <1>4, <2>2, HandledKeeps
  <2> QED
    BY <2>1, <2>3 DEF OnceInv
<1> QED
  BY <1>1, <1>3, <1>4
     DEF Absorb, Ignore, Suppress, Deny, Report, Considered, throttle, ledger

\* A poll reads every record of the last lines, and as much of each as there is.
LEMMA LogsArriveStep ==
  ASSUME WatchAssumption, WatchTypeOK, OnceInv, LogsArrive
  PROVE  OnceInv'
PROOF
<1>1. /\ polled' = Parsed /\ primed' = TRUE
      /\ at' = IF primed THEN "offering" ELSE "priming"
      /\ UNCHANGED <<journal, known, ring, ringSet>>
  BY DEF LogsArrive, world, throttle, ledger
<1>2. /\ Len(journal) \in Nat /\ TailLines \in Nat /\ FollowLines \in Nat
      /\ journal \in Seq(Lines)
  BY LenProperties DEF WatchTypeOK, WatchAssumption
<1>3. ASSUME NEW r \in Parsed
      PROVE  /\ r.pos \in 1 .. Len(journal) /\ r.pos \in Nat
             /\ r.pos > Len(journal) - TailLines
             /\ r.key = journal[r.pos] /\ r.key \in Keys \cup {Low}
             /\ r.more = Follows(r.pos)
             /\ Complete(journal, r.pos, r.more)
             /\ InLog(journal, Fingerprint(r))
             /\ LineOf(Fingerprint(r)) <= Len(journal)
  <2>1. PICK i \in 1 .. Len(journal) :
          /\ i > Len(journal) - TailLines /\ journal[i] \in Keys \cup {Low}
          /\ r = [pos |-> i, key |-> journal[i], more |-> Follows(i)]
    BY DEF Parsed
  <2>2. Complete(journal, i, Follows(i))
    BY <1>2, FollowsComplete
  <2>3. Fingerprint(r) = <<i, Follows(i)>>
    BY <2>1 DEF Fingerprint
  <2>4. InLog(journal, Fingerprint(r))
    BY <2>1, <2>2, <2>3 DEF InLog, LineOf, Complete
  <2> QED
    BY <2>1, <2>2, <2>4 DEF InLog
<1>4. ASSUME NEW f \in known
      PROVE  /\ f \in Nat \X (0 .. FollowLines) /\ f = <<f[1], f[2]>>
             /\ InLog(journal, f) /\ LineOf(f) \in Nat /\ LineOf(f) <= Len(journal)
  <2>1. f \in Nat \X (0 .. FollowLines)
    BY DEF WatchTypeOK, Fingerprints, WatchAssumption
  <2> QED
    BY <2>1 DEF OnceInv, KnownInv, InLog, LineOf, WatchAssumption
<1>5. ASSUME NEW r \in Parsed
      PROVE  /\ \A f \in known :
                  /\ LineOf(f) < r.pos + TailLines
                  /\ f[1] = r.pos => f[2] <= r.more
                  /\ f[1] > r.pos => r.key = Low \/ Fingerprint(r) \in known
             /\ \A q \in Parsed :
                  /\ LineOf(Fingerprint(q)) < r.pos + TailLines
                  /\ q.pos = r.pos => q = r
             /\ \A p \in 1 .. (r.pos - 1) :
                  InTail(journal, p) => \E q \in Parsed : q.pos = p
  <2>1. ASSUME NEW f \in known
        PROVE  /\ LineOf(f) < r.pos + TailLines
               /\ f[1] = r.pos => f[2] <= r.more
    <3>1. LineOf(f) < r.pos + TailLines
      BY <1>2, <1>3, <1>4
    <3>2. ASSUME f[1] = r.pos PROVE f[2] <= r.more
      BY <1>2, <1>3, <1>4, <3>2, CompleteLongest
    <3> QED
      BY <3>1, <3>2
  <2>2. ASSUME NEW f \in known, f[1] > r.pos, r.key # Low
        PROVE  Fingerprint(r) \in known
    <3>1. InTail(journal, r.pos)
      BY <1>3, <2>2 DEF InTail
    <3>2. r.pos \in 1 .. (f[1] - 1)
      BY <1>3, <1>4, <2>2
    <3>3. PICK k \in 0 .. FollowLines :
            <<r.pos, k>> \in known /\ Complete(journal, r.pos, k)
      BY <3>1, <3>2 DEF OnceInv, KnownInv, Dealt
    <3>4. k = r.more
      BY <1>2, <1>3, <3>3, CompleteUnique
    <3> QED
      BY <3>3, <3>4 DEF Fingerprint
  <2>3. ASSUME NEW q \in Parsed
        PROVE  LineOf(Fingerprint(q)) < r.pos + TailLines /\ (q.pos = r.pos => q = r)
    <3>1. LineOf(Fingerprint(q)) <= Len(journal) /\ LineOf(Fingerprint(q)) \in Int
      <4>1. Complete(journal, q.pos, q.more) /\ q.pos \in Nat
        BY <1>3
      <4>2. LineOf(Fingerprint(q)) = q.pos + q.more /\ q.more \in 0 .. FollowLines
        BY <4>1 DEF Fingerprint, LineOf, Complete
      <4> QED
        BY <1>2, <1>3, <4>1, <4>2
    <3>2. LineOf(Fingerprint(q)) < r.pos + TailLines
      BY <1>2, <1>3, <3>1
    <3>3. q.pos = r.pos => q = r
      BY DEF Parsed
    <3> QED
      BY <3>2, <3>3
  <2>4. ASSUME NEW p \in 1 .. (r.pos - 1), InTail(journal, p)
        PROVE  \E q \in Parsed : q.pos = p
    <3>1. p \in 1 .. Len(journal) /\ p > Len(journal) - TailLines /\ journal[p] \in Keys
      BY <1>2, <1>3, <2>4 DEF InTail
    <3>2. [pos |-> p, key |-> journal[p], more |-> Follows(p)] \in Parsed
      BY <3>1 DEF Parsed
    <3> QED
      BY <3>2
  <2> QED
    BY <2>1, <2>2, <2>3, <2>4
<1>6. PolledInv'
  BY <1>1, <1>3, <1>5 DEF PolledInv, InLog, LineOf, Complete, InTail, Dealt, Fingerprint
<1>7. LoopInv'
  <2>1. at' = "priming" => known = {}
    BY <1>1 DEF OnceInv, LoopInv
  <2> QED
    BY <1>1, <2>1 DEF LoopInv
<1>8. KnownInv' /\ RingInv'
  <2>1. KnownInv'
    BY <1>1, Zenon DEF OnceInv, KnownInv
  <2>2. RingInv'
    BY <1>1, Zenon DEF OnceInv, RingInv
  <2> QED
    BY <2>1, <2>2
<1> QED
  BY <1>6, <1>7, <1>8 DEF OnceInv

\* A line that is written after a poll changes nothing of what is known, but
\* for the last record.
LEMMA HaLogsStep ==
  ASSUME WatchAssumption, WatchTypeOK, OnceInv, HaLogs
  PROVE  OnceInv'
PROOF
<1>1. PICK line \in Lines : journal' = Append(journal, line)
  BY DEF HaLogs
<1>2. UNCHANGED <<known, ring, ringSet, polled, primed, at>>
  BY DEF HaLogs, throttle, ledger
<1>3. /\ Len(journal) \in Nat /\ journal \in Seq(Lines)
      /\ MaxLines \in Nat /\ FollowLines \in Nat /\ Len(journal) <= MaxLines
      /\ \A j \in 1 .. Len(journal) : journal'[j] = journal[j]
  BY <1>1, LenProperties, AppendProperties DEF WatchTypeOK, WatchAssumption
<1>4. \A f \in (1 .. MaxLines) \X Nat : InLog(journal, f) => InLog(journal', f)
  BY <1>1, <1>3, LogGrows
<1>5. \A p, k, z \in Nat : Complete(journal, p, k) /\ p < z /\ z <= Len(journal) /\ p >= 1
        /\ journal[z] \in Keys \cup {Low} => Complete(journal', p, k)
  BY <1>1, <1>3, LogGrows
<1>6. \A p \in 1 .. Len(journal) : InTail(journal', p) => InTail(journal, p)
  BY <1>1, <1>3, LogGrows
<1>7. ASSUME NEW p \in Nat, p >= 1, NEW z \in Nat, p < z, z <= Len(journal),
             journal[z] \in Keys \cup {Low}, Dealt(journal, known, p)
      PROVE  Dealt(journal', known, p)
  <2>1. PICK k \in 0 .. FollowLines : <<p, k>> \in known /\ Complete(journal, p, k)
    BY <1>7 DEF Dealt
  <2>2. Complete(journal', p, k)
    BY <1>3, <1>5, <1>7, <2>1
  <2> QED
    BY <2>1, <2>2 DEF Dealt
<1>8. ASSUME NEW f \in known
      PROVE  /\ f \in (1 .. MaxLines) \X Nat
             /\ f[1] \in Nat /\ f[1] <= Len(journal)
             /\ journal[f[1]] \in Keys \cup {Low}
             /\ InLog(journal, f)
  <2>1. f \in (1 .. MaxLines) \X Nat /\ f[1] \in Nat /\ f[2] \in Nat
    BY <1>3 DEF WatchTypeOK, Fingerprints
  <2>2. InLog(journal, f)
    BY DEF OnceInv, KnownInv
  <2>3. f[1] <= Len(journal)
    BY <1>3, <2>1, <2>2 DEF InLog, LineOf
  <2> QED
    BY <2>1, <2>2, <2>3 DEF InLog
<1>9. ASSUME NEW r \in polled
      PROVE  /\ Fingerprint(r) \in (1 .. MaxLines) \X Nat
             /\ r.pos \in 1 .. Len(journal) /\ r.pos \in Nat
             /\ journal[r.pos] \in Keys \cup {Low} /\ journal[r.pos] = r.key
             /\ r.more \in Nat
             /\ InLog(journal, Fingerprint(r))
  <2>1. r.pos \in 1 .. MaxLines /\ r.more \in Nat /\ r.key \in Keys \cup {Low}
    BY <1>3 DEF WatchTypeOK, Records
  <2>2. InLog(journal, Fingerprint(r)) /\ journal[r.pos] = r.key
    BY DEF OnceInv, PolledInv
  <2>3. r.pos + r.more <= Len(journal)
    BY <2>2 DEF InLog, LineOf, Fingerprint
  <2> QED
    BY <1>3, <2>1, <2>2, <2>3 DEF Fingerprint
<1>10. \A f \in known : InLog(journal', f)
  BY <1>4, <1>8
<1>11. ASSUME NEW f \in known, NEW p \in 1 .. (f[1] - 1), InTail(journal', p)
       PROVE  Dealt(journal', known, p)
  <2>1. p \in 1 .. Len(journal) /\ p \in Nat /\ p >= 1 /\ p < f[1]
    BY <1>3, <1>8, <1>11
  <2>2. Dealt(journal, known, p)
    BY <1>6, <1>11, <2>1 DEF OnceInv, KnownInv
  <2> QED
    BY <1>7, <1>8, <2>1, <2>2
<1>12. KnownInv'
  BY <1>2, <1>10, <1>11 DEF KnownInv
<1>13. ASSUME NEW r \in polled
       PROVE  /\ InLog(journal', Fingerprint(r)) /\ journal'[r.pos] = r.key
              /\ \A q \in polled : q.pos > r.pos => Complete(journal', r.pos, r.more)
              /\ \A p \in 1 .. (r.pos - 1) :
                   InTail(journal', p)
                     => Dealt(journal', known, p) \/ \E q \in polled : q.pos = p
  <2>1. InLog(journal', Fingerprint(r)) /\ journal'[r.pos] = r.key
    BY <1>3, <1>4, <1>9
  <2>2. ASSUME NEW q \in polled, q.pos > r.pos
        PROVE  Complete(journal', r.pos, r.more)
    <3>1. Complete(journal, r.pos, r.more)
      BY <2>2 DEF OnceInv, PolledInv
    <3>2. q.pos \in Nat /\ q.pos <= Len(journal) /\ journal[q.pos] \in Keys \cup {Low}
      BY <1>9
    <3>3. r.pos \in Nat /\ r.pos >= 1 /\ r.more \in Nat /\ r.pos < q.pos
      BY <1>9, <2>2, <3>2
    <3> QED
      BY <1>5, <3>1, <3>2, <3>3
  <2>3. ASSUME NEW p \in 1 .. (r.pos - 1), InTail(journal', p)
        PROVE  Dealt(journal', known, p) \/ \E q \in polled : q.pos = p
    <3>1. p \in 1 .. Len(journal) /\ p \in Nat /\ p >= 1 /\ p < r.pos
      BY <1>3, <1>9, <2>3
    <3>2. Dealt(journal, known, p) \/ \E q \in polled : q.pos = p
      BY <1>6, <2>3, <3>1 DEF OnceInv, PolledInv
    <3>3. r.pos \in Nat /\ r.pos <= Len(journal) /\ journal[r.pos] \in Keys \cup {Low}
      BY <1>9
    <3> QED
      BY <1>7, <3>1, <3>2, <3>3
  <2> QED
    BY <2>1, <2>2, <2>3
<1>14. PolledInv'
  <2>1. ASSUME NEW r \in polled
        PROVE  /\ \A f \in known :
                    /\ LineOf(f) < r.pos + TailLines
                    /\ f[1] = r.pos => f[2] <= r.more
                    /\ f[1] > r.pos => r.key = Low \/ Fingerprint(r) \in known
               /\ \A q \in polled :
                    /\ LineOf(Fingerprint(q)) < r.pos + TailLines
                    /\ q.pos = r.pos => q = r
    BY DEF OnceInv, PolledInv
  <2> QED
    BY <1>2, <1>13, <2>1 DEF PolledInv, LineOf, Fingerprint
<1>15. LoopInv' /\ RingInv'
  BY <1>2 DEF OnceInv, LoopInv, RingInv, LineOf
<1> QED
  BY <1>12, <1>14, <1>15 DEF OnceInv

LEMMA OnceStays ==
  ASSUME KnownInv, RingInv, PolledInv, UNCHANGED <<journal, known, ring, ringSet, polled>>
  PROVE  KnownInv' /\ RingInv' /\ PolledInv'
PROOF
<1>1. KnownInv'
  BY Zenon DEF KnownInv
<1>2. RingInv'
  BY Zenon DEF RingInv
<1>3. PolledInv'
  BY Zenon DEF PolledInv
<1> QED
  BY <1>1, <1>2, <1>3

LEMMA OnceStep ==
  ASSUME WatchAssumption, Ring >= TailLines, WatchTypeOK, OnceInv, WatchNext
  PROVE  OnceInv'
PROOF
<1>1. CASE Handle
  BY <1>1, HandleStep
<1>2. CASE LogsArrive
  BY <1>2, LogsArriveStep
<1>3. CASE HaLogs
  BY <1>3, HaLogsStep
<1>4. CASE AgentRestarts
  <2>1. /\ known' = {} /\ ring' = <<>> /\ ringSet' = {} /\ polled' = {}
        /\ at' = "off"
    BY <1>4 DEF AgentRestarts
  <2>2. 1 .. Len(ring') = {}
    BY <2>1, EmptySeq
  <2> QED
    BY <2>1, <2>2 DEF OnceInv, KnownInv, RingInv, LoopInv, PolledInv
<1>5. CASE SessionStarts \/ LogsFail \/ Summarize \/ SendNext \/ PollEnds \/ Wakes
             \/ SessionEnds \/ Tick
  <2>1. UNCHANGED <<journal, known, ring, ringSet, polled, primed>>
    BY <1>5 DEF SessionStarts, LogsFail, Summarize, SendNext, PollEnds, Wakes,
                SessionEnds, Tick, world, throttle, ledger
  <2>2. at' = at \/ (at' # "priming" /\ (polled = {} \/ at \notin {"priming", "offering"}))
    BY <1>5 DEF SessionStarts, LogsFail, Summarize, SendNext, PollEnds, Wakes,
                SessionEnds, Tick
  <2>3. LoopInv'
    <3>1. polled # {} => at' = at
      BY <2>2 DEF OnceInv, LoopInv
    <3>2. at' = "priming" => at = "priming"
      BY <2>2
    <3>3. polled' # {} => primed' /\ at' \in {"priming", "offering"}
      BY <2>1, <3>1 DEF OnceInv, LoopInv
    <3>4. at' = "priming" => \A r \in polled' : \A f \in known' : f[1] < r.pos
      BY <2>1, <3>2 DEF OnceInv, LoopInv
    <3>5. ~primed' => known' = {}
      BY <2>1 DEF OnceInv, LoopInv
    <3> QED
      BY <3>3, <3>4, <3>5 DEF LoopInv
  <2>4. KnownInv' /\ RingInv' /\ PolledInv'
    BY <2>1, OnceStays DEF OnceInv
  <2> QED
    BY <2>3, <2>4 DEF OnceInv
<1> QED
  BY <1>1, <1>2, <1>3, <1>4, <1>5 DEF WatchNext

\* While the ring holds at least the lines of a poll, no text that one process
\* has marked is considered again, although every poll reads it again and the
\* ring forgets; for every log, be a record cut by the end of a poll
\* (logwatch.py mark_seen, prime, process).
THEOREM OnceOnly == Ring >= TailLines => (WatchSpec => OnceEach)
PROOF
<1> SUFFICES ASSUME Ring >= TailLines PROVE WatchSpec => OnceEach
  OBVIOUS
<1>1. WatchInit => OnceInv
  <2>1. 1 .. Len(<<>>) = {}
    BY EmptySeq
  <2> QED
    BY <2>1 DEF WatchInit, OnceInv, KnownInv, RingInv, LoopInv, PolledInv
<1>2. WatchTypeOK /\ OnceInv /\ [WatchNext]_watchVars => OnceInv'
  <2>1. ASSUME WatchTypeOK, OnceInv, WatchNext PROVE OnceInv'
    BY <2>1, OnceStep, WatchAssumption
  <2>2. ASSUME OnceInv, UNCHANGED watchVars PROVE OnceInv'
    <3>1. UNCHANGED <<journal, known, ring, ringSet, polled, primed, at>>
      BY <2>2 DEF watchVars, world, throttle, ledger
    <3>2. KnownInv' /\ RingInv' /\ PolledInv'
      BY <2>2, <3>1, OnceStays DEF OnceInv
    <3>3. LoopInv'
      BY <2>2, <3>1 DEF OnceInv, LoopInv
    <3> QED
      BY <3>2, <3>3 DEF OnceInv
  <2> QED
    BY <2>1, <2>2
<1>3. WatchTypeOK /\ OnceInv /\ [WatchNext]_watchVars
        => [considered' # considered /\ primed'
              => \A r \in polled \ polled' : Fingerprint(r) \notin known]_watchVars
  <2> SUFFICES ASSUME WatchTypeOK, OnceInv, WatchNext, considered' # considered, primed',
                      NEW r \in polled \ polled'
               PROVE  Fingerprint(r) \notin known
    OBVIOUS
  <2>1. ~AgentRestarts
    BY DEF AgentRestarts
  <2>2. PICK q \in polled : Considered(q)
    BY <2>1 DEF WatchNext, SessionStarts, LogsArrive, LogsFail, Handle, Absorb, Ignore,
                Suppress, Deny, Report, Summarize, SendNext, PollEnds, Wakes,
                SessionEnds, HaLogs, Tick, ledger
  <2>3. q = r
    BY <2>2 DEF Considered
  <2> QED
    BY <2>2, <2>3, WatchAssumption, MarksAreNew DEF Considered
<1> QED
  BY <1>1, <1>2, <1>3, WatchTypeCorrect, PTL DEF WatchSpec, OnceEach

=============================================================================

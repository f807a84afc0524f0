----------------------------- MODULE HacsProofs -----------------------------
(***************************************************************************)
(* Theorems about Hacs, for every set of versions.                         *)
(***************************************************************************)
EXTENDS Hacs, TLAPS

USE HacsAssumption DEF HacsAssumption

---------------------------------------------------------------------------
(* Type correctness.                                                       *)

\* The variables have their types, and an installation or a restart is called at its
\* place in run() and only once, whatever fails, expires or changes meanwhile.
THEOREM HacsTypeCorrect == HacsSpec => []HacsTypeOK
<1>1. HacsInit => HacsTypeOK
  BY DEF HacsInit, HacsTypeOK, Running
<1>2. HacsTypeOK /\ [HacsNext]_hacsVars => HacsTypeOK'
  <2> SUFFICES ASSUME HacsTypeOK, [HacsNext]_hacsVars
               PROVE  HacsTypeOK'
    OBVIOUS
  <2> USE DEF HacsTypeOK, Running, Ends, Goto, Checked, moduleVars, boxVars, runVars
  <2>1. CASE FirstRead
    BY <2>1 DEF FirstRead
  <2>2. CASE BackupReturns
    BY <2>2 DEF BackupReturns
  <2>3. CASE ArchiveRead
    BY <2>3 DEF ArchiveRead
  <2>4. CASE BaselineRead
    BY <2>4 DEF BaselineRead
  <2>5. CASE GatePasses
    BY <2>5 DEF GatePasses, GateOpen
  <2>6. CASE GateRefuses
    BY <2>6 DEF GateRefuses
  <2>7. CASE SecondRead
    BY <2>7 DEF SecondRead
  <2>8. CASE InstallCalled
    BY <2>8 DEF InstallCalled, Call
  <2>9. CASE RestartCalled
    BY <2>9 DEF RestartCalled, Call
  <2>10. CASE CallReturns
    BY <2>10 DEF CallReturns
  <2>11. CASE Verify
    BY <2>11 DEF Verify
  <2>12. CASE ConfigRead
    BY <2>12 DEF ConfigRead
  <2>13. CASE AfterRead
    BY <2>13 DEF AfterRead
  <2>14. CASE CallFails
    BY <2>14 DEF CallFails
  <2>15. CASE TimesOut
    BY <2>15 DEF TimesOut
  <2>16. CASE ConsentChanges
    BY <2>16 DEF ConsentChanges
  <2>17. CASE CommandExpires
    BY <2>17 DEF CommandExpires
  <2>18. CASE ArchiveDeleted
    BY <2>18 DEF ArchiveDeleted
  <2>19. CASE HacsOffers
    BY <2>19 DEF HacsOffers
  <2>20. CASE CustomerInstalls
    BY <2>20 DEF CustomerInstalls
  <2>21. CASE JobEnds
    BY <2>21 DEF JobEnds
  <2>22. CASE HaStops
    BY <2>22 DEF HaStops
  <2>23. CASE HaStarts
    <3>1. /\ marker' \in BOOLEAN /\ broken' \in BOOLEAN /\ restarted' \in BOOLEAN
          /\ ha' = "starting"
      BY <2>23 DEF HaStarts
    <3> QED
      BY <2>23, <3>1 DEF HaStarts
  <2>24. CASE HaComesUp
    BY <2>24 DEF HaComesUp
  <2>25. CASE UNCHANGED hacsVars
    BY <2>25 DEF hacsVars
  <2> HIDE DEF HacsTypeOK
  <2> QED
    BY <2>1, <2>2, <2>3, <2>4, <2>5, <2>6, <2>7, <2>8, <2>9, <2>10, <2>11, <2>12,
       <2>13, <2>14, <2>15, <2>16, <2>17, <2>18, <2>19, <2>20, <2>21, <2>22, <2>23,
       <2>24, <2>25
       DEF HacsNext, Step, Box
<1> QED
  BY <1>1, <1>2, PTL DEF HacsSpec

---------------------------------------------------------------------------
(* The update.                                                             *)

\* What is known of the archive, the consent and the offer at each await of an update.
Covered ==
  /\ archive # None => /\ consent => "consent" \in held
                       /\ latest = Expected => "offer" \in held
  /\ kind = "update" => at # "baseline"
  /\ kind = "update" /\ at \in {"gate", "second", "call"} => archive \in {"full", "deleted"}
  /\ kind = "update" /\ at \in {"second", "call"} => "consent" \in held
  /\ kind = "update" /\ at = "call" => "offer" \in held
  /\ InstallIsCovered

\* Nothing is installed without its archive, and without a consent and an offer that
\* were seen after the backup.
THEOREM InstallsCovered == HacsSpec => []InstallIsCovered
<1>1. HacsInit => Covered
  BY DEF HacsInit, Covered, InstallIsCovered
<1>2. HacsTypeOK /\ Covered /\ [HacsNext]_hacsVars => Covered'
  <2> SUFFICES ASSUME HacsTypeOK, Covered, [HacsNext]_hacsVars
               PROVE  Covered'
    OBVIOUS
  <2> USE DEF Covered, InstallIsCovered, HacsTypeOK, Goto, Checked, moduleVars, boxVars, runVars
  <2>1. CASE FirstRead
    BY <2>1 DEF FirstRead
  <2>2. CASE BackupReturns
    BY <2>2 DEF BackupReturns
  <2>3. CASE ArchiveRead
    BY <2>3 DEF ArchiveRead
  <2>4. CASE BaselineRead
    BY <2>4 DEF BaselineRead
  <2>5. CASE GateRefuses
    BY <2>5 DEF GateRefuses
  <2>6. CASE GatePasses
    BY <2>6 DEF GatePasses, GateOpen
  <2>7. CASE SecondRead
    BY <2>7 DEF SecondRead, MayUpdate
  <2>8. CASE InstallCalled
    <3>1. held = {"consent", "offer"} /\ archive \in {"full", "deleted"}
      BY <2>8 DEF InstallCalled, Call
    <3> QED
      BY <2>8, <3>1 DEF InstallCalled, Call
  <2>9. CASE RestartCalled
    BY <2>9 DEF RestartCalled, Call
  <2>10. CASE CallReturns
    BY <2>10 DEF CallReturns
  <2>11. CASE Verify
    BY <2>11 DEF Verify
  <2>12. CASE ConfigRead
    BY <2>12 DEF ConfigRead
  <2>13. CASE AfterRead
    BY <2>13 DEF AfterRead
  <2>14. CASE CallFails
    BY <2>14 DEF CallFails
  <2>15. CASE TimesOut
    BY <2>15 DEF TimesOut, Running
  <2>16. CASE ConsentChanges
    BY <2>16 DEF ConsentChanges
  <2>17. CASE HacsOffers
    BY <2>17 DEF HacsOffers
  <2>18. CASE CommandExpires
    BY <2>18 DEF CommandExpires
  <2>19. CASE ArchiveDeleted
    BY <2>19 DEF ArchiveDeleted
  <2>20. CASE CustomerInstalls
    BY <2>20 DEF CustomerInstalls
  <2>21. CASE JobEnds
    BY <2>21 DEF JobEnds
  <2>22. CASE HaStops
    BY <2>22 DEF HaStops
  <2>23. CASE HaStarts
    BY <2>23 DEF HaStarts
  <2>24. CASE HaComesUp
    BY <2>24 DEF HaComesUp
  <2>25. CASE UNCHANGED hacsVars
    BY <2>25 DEF hacsVars
  <2> HIDE DEF Covered
  <2> QED
    BY <2>1, <2>2, <2>3, <2>4, <2>5, <2>6, <2>7, <2>8, <2>9, <2>10, <2>11, <2>12,
       <2>13, <2>14, <2>15, <2>16, <2>17, <2>18, <2>19, <2>20, <2>21, <2>22, <2>23,
       <2>24, <2>25
       DEF HacsNext, Step, Box
<1>3. Covered => InstallIsCovered
  BY DEF Covered
<1> QED
  BY <1>1, <1>2, <1>3, HacsTypeCorrect, PTL DEF HacsSpec

---------------------------------------------------------------------------
(* The restart.                                                            *)

\* Until Home Assistant has restarted the module is marked, and no await beyond the
\* verification is reached.
Awaited ==
  kind = "restart" =>
    /\ at \notin {"backup", "archive", "second"}
    /\ at \in {"baseline", "gate", "call", "calling", "verify"} => restarted \/ marker
    /\ at \in {"config", "after", "success"} => restarted

\* A restart reported as verified took place after the command had found it to be due.
THEOREM RestartsVerified == HacsSpec => []VerifiedMeansRestarted
<1>1. HacsInit => Awaited
  BY DEF HacsInit, Awaited
<1>2. HacsTypeOK /\ Awaited /\ [HacsNext]_hacsVars => Awaited'
  <2> SUFFICES ASSUME HacsTypeOK, Awaited, [HacsNext]_hacsVars
               PROVE  Awaited'
    OBVIOUS
  <2> USE DEF Awaited, HacsTypeOK, Goto, Checked, moduleVars, boxVars, runVars
  <2>1. CASE FirstRead
    BY <2>1 DEF FirstRead, MayRestart
  <2>2. CASE BackupReturns
    BY <2>2 DEF BackupReturns
  <2>3. CASE ArchiveRead
    BY <2>3 DEF ArchiveRead
  <2>4. CASE BaselineRead
    BY <2>4 DEF BaselineRead
  <2>5. CASE GatePasses
    BY <2>5 DEF GatePasses, GateOpen
  <2>6. CASE GateRefuses
    BY <2>6 DEF GateRefuses
  <2>7. CASE SecondRead
    BY <2>7 DEF SecondRead
  <2>8. CASE InstallCalled
    BY <2>8 DEF InstallCalled, Call
  <2>9. CASE RestartCalled
    BY <2>9 DEF RestartCalled, Call
  <2>10. CASE CallReturns
    BY <2>10 DEF CallReturns
  <2>11. CASE Verify
    BY <2>11 DEF Verify, RestartVerified
  <2>12. CASE ConfigRead
    BY <2>12 DEF ConfigRead
  <2>13. CASE AfterRead
    BY <2>13 DEF AfterRead
  <2>14. CASE CallFails
    BY <2>14 DEF CallFails
  <2>15. CASE TimesOut
    BY <2>15 DEF TimesOut
  <2>16. CASE ConsentChanges
    BY <2>16 DEF ConsentChanges
  <2>17. CASE CommandExpires
    BY <2>17 DEF CommandExpires
  <2>18. CASE ArchiveDeleted
    BY <2>18 DEF ArchiveDeleted
  <2>19. CASE HacsOffers
    BY <2>19 DEF HacsOffers
  <2>20. CASE CustomerInstalls
    BY <2>20 DEF CustomerInstalls
  <2>21. CASE JobEnds
    BY <2>21 DEF JobEnds
  <2>22. CASE HaStops
    BY <2>22 DEF HaStops
  <2>23. CASE HaStarts
    BY <2>23 DEF HaStarts
  <2>24. CASE HaComesUp
    BY <2>24 DEF HaComesUp
  <2>25. CASE UNCHANGED hacsVars
    BY <2>25 DEF hacsVars
  <2> HIDE DEF Awaited
  <2> QED
    BY <2>1, <2>2, <2>3, <2>4, <2>5, <2>6, <2>7, <2>8, <2>9, <2>10, <2>11, <2>12,
       <2>13, <2>14, <2>15, <2>16, <2>17, <2>18, <2>19, <2>20, <2>21, <2>22, <2>23,
       <2>24, <2>25
       DEF HacsNext, Step, Box
<1>3. Awaited => VerifiedMeansRestarted
  BY DEF Awaited, VerifiedMeansRestarted
<1> QED
  BY <1>1, <1>2, <1>3, HacsTypeCorrect, PTL DEF HacsSpec

---------------------------------------------------------------------------
(* The answers.                                                            *)

\* Up to the call nothing is installed, and an update that is verified has seen its own
\* installation end: the customer's does not count.
Called ==
  /\ at \in {"first", "backup", "archive", "gate", "second", "call", "baseline", "refused"} =>
       calls = 0 /\ job = "none"
  /\ kind = "update" => at \notin {"baseline", "config", "after"}
  /\ kind = "update" /\ at \in {"verify", "success"} => calls = 1 /\ job = "done"
  /\ at \in {"calling", "verify", "config"} => calls = 1
  /\ kind = "update" => at # "calling" \/ job # "none"

\* What the command answers is true (hacs.py run, commands.py _execute).
THEOREM HacsAnswers == HacsSpec => []HacsAnswersTrue
<1>1. HacsInit => Called
  BY DEF HacsInit, Called
<1>2. HacsTypeOK /\ Called /\ [HacsNext]_hacsVars => Called'
  <2> SUFFICES ASSUME HacsTypeOK, Called, [HacsNext]_hacsVars
               PROVE  Called'
    OBVIOUS
  <2> USE DEF Called, HacsTypeOK, Goto, Checked, moduleVars, boxVars, runVars
  <2>1. CASE FirstRead
    BY <2>1 DEF FirstRead, MayRestart
  <2>2. CASE BackupReturns
    BY <2>2 DEF BackupReturns
  <2>3. CASE ArchiveRead
    BY <2>3 DEF ArchiveRead
  <2>4. CASE BaselineRead
    BY <2>4 DEF BaselineRead
  <2>5. CASE GatePasses
    BY <2>5 DEF GatePasses, GateOpen
  <2>6. CASE GateRefuses
    BY <2>6 DEF GateRefuses
  <2>7. CASE SecondRead
    BY <2>7 DEF SecondRead
  <2>8. CASE InstallCalled
    BY <2>8 DEF InstallCalled, Call
  <2>9. CASE RestartCalled
    BY <2>9 DEF RestartCalled, Call
  <2>10. CASE CallReturns
    BY <2>10 DEF CallReturns
  <2>11. CASE Verify
    BY <2>11 DEF Verify, RestartVerified
  <2>12. CASE ConfigRead
    BY <2>12 DEF ConfigRead
  <2>13. CASE AfterRead
    BY <2>13 DEF AfterRead
  <2>14. CASE CallFails
    BY <2>14 DEF CallFails
  <2>15. CASE TimesOut
    BY <2>15 DEF TimesOut
  <2>16. CASE ConsentChanges
    BY <2>16 DEF ConsentChanges
  <2>17. CASE CommandExpires
    BY <2>17 DEF CommandExpires
  <2>18. CASE ArchiveDeleted
    BY <2>18 DEF ArchiveDeleted
  <2>19. CASE HacsOffers
    BY <2>19 DEF HacsOffers
  <2>20. CASE CustomerInstalls
    BY <2>20 DEF CustomerInstalls
  <2>21. CASE JobEnds
    BY <2>21 DEF JobEnds, InProgress
  <2>22. CASE HaStops
    BY <2>22 DEF HaStops, InProgress
  <2>23. CASE HaStarts
    BY <2>23 DEF HaStarts
  <2>24. CASE HaComesUp
    BY <2>24 DEF HaComesUp
  <2>25. CASE UNCHANGED hacsVars
    BY <2>25 DEF hacsVars
  <2> HIDE DEF Called
  <2> QED
    BY <2>1, <2>2, <2>3, <2>4, <2>5, <2>6, <2>7, <2>8, <2>9, <2>10, <2>11, <2>12,
       <2>13, <2>14, <2>15, <2>16, <2>17, <2>18, <2>19, <2>20, <2>21, <2>22, <2>23,
       <2>24, <2>25
       DEF HacsNext, Step, Box
<1>3. HacsTypeOK /\ Called => HacsAnswersTrue
  BY DEF HacsTypeOK, Called, HacsAnswersTrue
<1> QED
  BY <1>1, <1>2, <1>3, HacsTypeCorrect, PTL DEF HacsSpec

=============================================================================

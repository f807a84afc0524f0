-------------------------------- MODULE Hacs --------------------------------
(***************************************************************************)
(* One HACS command (hacs.py HacsUpdater): the update of a module behind a *)
(* backup, or the restart that activates it, over a Home Assistant that    *)
(* changes under it.                                                       *)
(*                                                                         *)
(* The executor has let the command pass (Maintenance).  A read sees Home  *)
(* Assistant as it is when the read is handled; between two steps of the   *)
(* command anything else may happen there.  The progress reports are part  *)
(* of the steps that send them.                                            *)
(***************************************************************************)
EXTENDS Naturals

CONSTANTS
  Versions,  \* the versions of the module
  Expected,  \* the version the operator has confirmed
  None       \* no version, no archive

ASSUME HacsAssumption ==
  /\ Expected \in Versions
  /\ None \notin Versions
  /\ None \notin {"full", "other", "deleted"}

VARIABLES
  kind,       \* HACS_UPDATE or HACS_RESTART
  at,         \* the await of run(), or how it ended
  due,        \* the command's expires_at is past
  consent,    \* ConsentManager.is_active() after a refresh
  installed,  \* the module: installed_version
  latest,     \* the module: latest_version
  marker,     \* the module: "restart of Home Assistant required"
  job,        \* the installation called by the command, at Home Assistant
  ha,         \* Home Assistant
  archive,    \* the backup made by the command
  first,      \* installed_version at the first read
  broken,     \* is an integration in error?
  baseline,   \* was it before the restart?
  calls,      \* history: installations and restarts called
  held,       \* history: what has held at some moment since the backup ended
  restarted   \* history: Home Assistant has restarted since the first read

moduleVars == <<installed, latest, marker>>
boxVars    == <<moduleVars, job, ha, broken>>
runVars    == <<first, baseline, archive>>
hacsVars   == <<kind, at, due, consent, boxVars, runVars, calls, held, restarted>>

Running == {"first", "backup", "archive", "gate", "second", "call", "calling",
            "verify", "baseline", "config", "after"}
Ends    == {"success", "failed", "refused", "timeout"}

\* The variables have their types; an installation or restart is called at its
\* place in run(), and never again (CHANGELOG.md, "never automatically retry").
HacsTypeOK ==
  /\ kind \in {"update", "restart"}
  /\ at \in Running \cup Ends
  /\ due \in BOOLEAN
  /\ consent \in BOOLEAN
  /\ installed \in Versions
  /\ latest \in Versions
  /\ marker \in BOOLEAN
  /\ job \in {"none", "running", "done", "failed"}
  /\ ha \in {"down", "starting", "loaded", "running"}
  /\ archive \in {None, "full", "other", "deleted"}
  /\ first \in Versions \cup {None}
  /\ broken \in BOOLEAN
  /\ baseline \in BOOLEAN
  /\ calls \in {0, 1}
  /\ held \subseteq {"consent", "offer"}
  /\ restarted \in BOOLEAN
  /\ at \in {"first", "backup", "archive", "gate", "second", "call", "baseline"} => calls = 0

HacsInit ==
  /\ kind \in {"update", "restart"}
  /\ at = "first"
  /\ due = FALSE
  /\ consent = TRUE
  /\ installed \in Versions
  /\ latest \in Versions
  /\ marker \in BOOLEAN
  /\ job = "none"
  /\ ha = "running"
  /\ archive = None
  /\ first = None
  /\ broken \in BOOLEAN
  /\ baseline = FALSE
  /\ calls = 0
  /\ held = {}
  /\ restarted = FALSE

---------------------------------------------------------------------------
(* What a read of the module finds.                                        *)

\* the entity has a state: HACS is loaded, which it may be before Home Assistant runs
Available == ha \in {"loaded", "running"}

InProgress == job = "running"

\* _check_update
MayUpdate ==
  Available /\ ~InProgress /\ ~marker /\ latest = Expected /\ installed # Expected

Installed == Available /\ ~InProgress /\ installed = Expected

MayRestart == Installed /\ marker

\* mutant: the version is all that is verified after a restart
RestartVerifiedInstalled == Installed

\* _wait_installed, after a restart
RestartVerified == Installed /\ ~marker

---------------------------------------------------------------------------
(* The steps of run().                                                     *)

Goto(place) == at' = place

Checked(ok, place) == Goto(IF ok THEN place ELSE "failed")

FirstRead ==
  /\ at = "first"
  /\ IF kind = "update" THEN Checked(MayUpdate, "backup") ELSE Checked(MayRestart, "baseline")
  /\ first' = installed
  /\ restarted' = FALSE
  /\ UNCHANGED <<kind, due, consent, boxVars, baseline, archive, calls, held>>

\* backup_full answers with a slug
BackupReturns ==
  /\ at = "backup"
  /\ Goto("archive")
  /\ archive' \in {"full", "other"}
  /\ held' = (IF consent THEN {"consent"} ELSE {}) \cup (IF latest = Expected THEN {"offer"} ELSE {})
  /\ UNCHANGED <<kind, due, consent, boxVars, first, baseline, calls, restarted>>

\* storage_backup_info, which finds nothing of a deleted archive
ArchiveRead ==
  /\ at = "archive"
  /\ Checked(archive = "full", "gate")
  /\ UNCHANGED <<kind, due, consent, boxVars, runVars, calls, held, restarted>>

\* the integrations in error before the restart
BaselineRead ==
  /\ at = "baseline"
  /\ baseline' = broken
  /\ Goto("gate")
  /\ UNCHANGED <<kind, due, consent, boxVars, first, archive, calls, held, restarted>>

\* mutant: the consent of the time before the backup is relied on
GateOpenAlways == at = "gate"

\* _check_consent passes
GateOpen == at = "gate" /\ ~due /\ consent

GatePasses ==
  /\ GateOpen
  /\ Goto(IF kind = "update" THEN "second" ELSE "call")
  /\ UNCHANGED <<kind, due, consent, boxVars, runVars, calls, held, restarted>>

\* the consent is not active, or could not be read
GateRefuses ==
  /\ at = "gate"
  /\ ~due
  /\ Goto("refused")
  /\ UNCHANGED <<kind, due, consent, boxVars, runVars, calls, held, restarted>>

SecondRead ==
  /\ at = "second"
  /\ Checked(MayUpdate /\ installed = first, "call")
  /\ UNCHANGED <<kind, due, consent, boxVars, runVars, calls, held, restarted>>

Call == at = "call" /\ Goto("calling") /\ calls' = calls + 1

\* the installation starts, or fails at once: the version is one of HACS's
InstallCalled ==
  /\ kind = "update"
  /\ Call
  /\ job' \in {"running", "failed"}
  /\ UNCHANGED <<kind, due, consent, moduleVars, ha, broken, runVars, held, restarted>>

\* core_restart, which may or may not be followed by a restart
RestartCalled ==
  /\ kind = "restart"
  /\ Call
  /\ UNCHANGED <<kind, due, consent, boxVars, runVars, held, restarted>>

\* mutant: the call does not wait for its installation
CallReturnsAtOnce ==
  /\ at = "calling"
  /\ Goto("verify")
  /\ UNCHANGED <<kind, due, consent, boxVars, runVars, calls, held, restarted>>

\* the call returns; an error of a restart call is ignored
CallReturns ==
  /\ at = "calling"
  /\ kind = "update" => job = "done"
  /\ Goto("verify")
  /\ UNCHANGED <<kind, due, consent, boxVars, runVars, calls, held, restarted>>

\* one round of _wait_installed; a round that finds less is repeated
Verify ==
  /\ at = "verify"
  /\ \/ kind = "update" /\ Installed /\ Goto("success")
     \/ kind = "restart" /\ RestartVerified /\ Goto("config")
  /\ UNCHANGED <<kind, due, consent, boxVars, runVars, calls, held, restarted>>

\* ha_config, in the same round; an error starts another one
ConfigRead ==
  /\ at = "config"
  /\ Goto(IF ha = "running" THEN "after" ELSE "verify")
  /\ UNCHANGED <<kind, due, consent, boxVars, runVars, calls, held, restarted>>

AfterRead ==
  /\ at = "after"
  /\ Checked(broken => baseline, "success")
  /\ UNCHANGED <<kind, due, consent, boxVars, runVars, calls, held, restarted>>

\* a call raises SupervisorError where nothing expects it
CallFails ==
  /\ \/ at \in {"first", "backup", "archive", "baseline", "second", "after"}
     \/ at = "calling" /\ kind = "update"
  /\ Goto("failed")
  /\ UNCHANGED <<kind, due, consent, boxVars, runVars, calls, held, restarted>>

\* a time-out of the call, the verification or the command, or an expired command at
\* the gate: what was started goes on
TimesOut ==
  /\ at \in Running
  /\ Goto("timeout")
  /\ UNCHANGED <<kind, due, consent, boxVars, runVars, calls, held, restarted>>

Step ==
  \/ FirstRead \/ BackupReturns \/ ArchiveRead \/ BaselineRead
  \/ GatePasses \/ GateRefuses \/ SecondRead
  \/ InstallCalled \/ RestartCalled \/ CallReturns
  \/ Verify \/ ConfigRead \/ AfterRead \/ CallFails \/ TimesOut

---------------------------------------------------------------------------
(* Home Assistant, the customer, HACS.                                     *)

ConsentChanges ==
  /\ consent' = ~consent
  /\ held' = IF consent' /\ archive # None THEN held \cup {"consent"} ELSE held
  /\ UNCHANGED <<kind, at, due, boxVars, runVars, calls, restarted>>

CommandExpires ==
  /\ ~due
  /\ due' = TRUE
  /\ UNCHANGED <<kind, at, consent, boxVars, runVars, calls, held, restarted>>

ArchiveDeleted ==
  /\ archive = "full"
  /\ archive' = "deleted"
  /\ UNCHANGED <<kind, at, due, consent, boxVars, first, baseline, calls, held, restarted>>

HacsOffers ==
  /\ Available
  /\ latest' \in Versions \ {latest}
  /\ held' = IF latest' = Expected /\ archive # None THEN held \cup {"offer"} ELSE held
  /\ UNCHANGED <<kind, at, due, consent, installed, marker, job, ha, broken, runVars, calls, restarted>>

\* the customer installs a version; a pending restart stays pending
CustomerInstalls ==
  /\ Available /\ ~InProgress
  /\ installed' \in Versions \ {installed}
  /\ marker' \in BOOLEAN /\ (marker => marker')
  /\ UNCHANGED <<kind, at, due, consent, latest, job, ha, broken, runVars, calls, held, restarted>>

JobEnds ==
  /\ InProgress
  /\ \/ /\ job' = "done"
        /\ installed' = Expected
        /\ marker' \in BOOLEAN /\ (marker => marker')
     \/ job' = "failed" /\ UNCHANGED <<installed, marker>>
  /\ UNCHANGED <<kind, at, due, consent, latest, ha, broken, runVars, calls, held, restarted>>

\* with Home Assistant goes the installation under way
HaStops ==
  /\ ha = "running"
  /\ ha' = "down"
  /\ job' = IF InProgress THEN "failed" ELSE job
  /\ UNCHANGED <<kind, at, due, consent, moduleVars, broken, runVars, calls, held, restarted>>

\* the restart the module was waiting for; its integrations load or do not
HaStarts ==
  /\ ha = "down"
  /\ ha' = "starting"
  /\ marker' = FALSE
  /\ broken' \in BOOLEAN
  /\ restarted' = TRUE
  /\ UNCHANGED <<kind, at, due, consent, installed, latest, job, runVars, calls, held>>

HaComesUp ==
  /\ \/ ha = "starting" /\ ha' = "loaded"
     \/ ha = "loaded" /\ ha' = "running"
  /\ UNCHANGED <<kind, at, due, consent, moduleVars, job, broken, runVars, calls, held, restarted>>

Box ==
  \/ ConsentChanges \/ CommandExpires \/ ArchiveDeleted \/ HacsOffers \/ CustomerInstalls
  \/ JobEnds \/ HaStops \/ HaStarts \/ HaComesUp

HacsNext == Step \/ Box

HacsSpec == HacsInit /\ [][HacsNext]_hacsVars

---------------------------------------------------------------------------
(* Safety.                                                                 *)

\* Nothing is installed without a full archive made for it, and unless the consent
\* was active and the version offered after the backup had ended, which may take an
\* hour (hacs.py run; DOCS.md, "Consent and versions are checked again after the backup").
InstallIsCovered ==
  kind = "update" /\ calls = 1 =>
    archive \in {"full", "deleted"} /\ held = {"consent", "offer"}

\* A restart reported as verified has taken place since the command looked at the
\* module, although the answer to the restart call is ignored and Home Assistant may be
\* read before it goes down (hacs.py run, _wait_installed).
VerifiedMeansRestarted == kind = "restart" /\ at = "success" => restarted

\* The answers of a HACS command are true: one that is refused for want of consent has
\* changed nothing, though it may have made its backup, and an update that succeeds is
\* the command's own, not the same version installed meanwhile by the customer; and one
\* answer is for one call at most, whatever fails (hacs.py _check_consent, run;
\* CHANGELOG.md, "never automatically retry an install").
HacsAnswersTrue ==
  /\ calls <= 1
  /\ at = "refused" => calls = 0 /\ job = "none"
  /\ kind = "update" /\ at = "success" => calls = 1 /\ job = "done"

---------------------------------------------------------------------------
(* What the documentation says and the code does not keep.                 *)

\* "No remote action is possible while the consent is inactive" (DOCS.md): an
\* installation or restart is called only while the consent lasts.  Between the gate
\* and the call run() waits for a report and for a second read of the module.
ActsWithConsent == [][calls' > calls => consent]_hacsVars

=============================================================================

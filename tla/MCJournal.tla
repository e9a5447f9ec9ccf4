------------------------------- MODULE MCJournal -------------------------------
(***************************************************************************)
(* The qualification transaction journal: every history one session can    *)
(* write, and the process that writes them, through the lifecycle          *)
(* operations, through a recovered adoption, and through power losses; the *)
(* adoption of a capture, and the recovery of an interrupted one; and the  *)
(* qualification runs whose evidence is captured. part says which of the   *)
(* nine runs.                                                              *)
(***************************************************************************)
EXTENDS TransactionJournal

VARIABLES
  part, history,
  child, status, group, attr, content, place, rebound, stray, odd, taken, parent, disk, co,
  adoptedLease, trouble,
  record, durable, tombstone, world, session, lease, runner, launches, answered, used,
  time, deployed, held, run, runStatus, latest, reports, reader

CONSTANTS s1, s2, r1, r2, None

\* Every way through the lifecycle operations, to the end of a cleared session.
LifecycleStates ==
  {"reserved", "staging_create_intent", "staging_exposed", "child_launch_intent",
   "child_running", "capture_ready", "lifecycle_clearance_intent",
   "lifecycle_scope_empty", "staging_tombstone_ack_pending",
   "staging_tombstone_acked", "staging_absent_cleanup_complete",
   "operator_attention", "operator_resolved"}

\* A recovered adoption, from its intent to the signature.
RecoveredStates ==
  {"reserved", "staging_create_intent", "staging_exposed", "child_launch_intent",
   "child_running", "capture_ready", "lifecycle_clearance_intent",
   "lifecycle_scope_empty", "adoption_intent", "staging_tombstone_ack_pending",
   "adoption_reconciliation_required", "adoption_reconciled",
   "staging_tombstone_acked", "verifier_output_bound",
   "live_revalidation_started", "live_revalidation_receipt_complete",
   "signing_intent"}

\* The shortest sessions.
ShortStates == {"reserved", "operator_attention", "operator_resolved"}

Histories == INSTANCE JournalHistory
Recovered_ == INSTANCE TransactionJournal WITH Offered <- RecoveredStates
Power == INSTANCE TransactionJournal WITH
  Offered <- ShortStates, Faults <- {"power"}, MaxFaults <- 2

Adopting == INSTANCE CaptureAdoption WITH
  Files <- 2, Contents <- {"x", "y"}, MaxWrites <- 2, MaxMischief <- 1, MaxTrouble <- 2,
  lease <- adoptedLease
Recovering == INSTANCE RecoveredAdoption WITH
  Runners <- {r1, r2}, MaxChanges <- 2, MaxSessions <- 2, MaxTrouble <- 3, MaxLaunches <- 2

\* One candidate while the deployment changes, two candidates while it does not,
\* and one run on a clock that goes beyond its wall budget.
Single == INSTANCE QualificationRun WITH
  Candidates <- 1, Scenarios <- 1, MaxTokens <- 2, MaxWall <- 1, MaxAge <- 1, MaxRuns <- 2,
  MaxTime <- 1, MaxVersions <- 2, CallTokens <- {1}, status <- runStatus
Several == INSTANCE QualificationRun WITH
  Candidates <- 2, Scenarios <- 1, MaxTokens <- 4, MaxWall <- 1, MaxAge <- 1, MaxRuns <- 2,
  MaxTime <- 0, MaxVersions <- 1, CallTokens <- {1}, status <- runStatus
Slow == INSTANCE QualificationRun WITH
  Candidates <- 2, Scenarios <- 1, MaxTokens <- 4, MaxWall <- 1, MaxAge <- 1, MaxRuns <- 1,
  MaxTime <- 3, MaxVersions <- 1, CallTokens <- {1, 2}, status <- runStatus

ASSUME AdoptionAssumption == Adopting!AdoptionConstants /\ Recovering!RecoveredConstants
ASSUME RunAssumption ==
  Single!QualificationConstants /\ Several!QualificationConstants /\ Slow!QualificationConstants

adoptionVars == <<child, status, group, attr, content, place, rebound, stray, odd, taken, parent,
                  disk, co, adoptedLease, trouble>>
recoveredVars == <<record, durable, tombstone, world, session, lease, runner, launches, answered,
                   used>>
qualificationVars == <<time, deployed, held, run, runStatus, latest, reports, reader>>
suiteVars == <<part, history, journalVars, adoptionVars, recoveredVars, qualificationVars>>

SuiteInit ==
  /\ part \in {"history", "lifecycle", "recovered", "power", "adoption", "recovery",
             "single", "several", "slow"}
  /\ Histories!HistoryInit /\ JournalInit /\ Recovering!RecoveredInit
  /\ Adopting!AdoptionInit
  /\ CASE part = "several" -> Several!RunInit
       [] part = "slow" -> Slow!RunInit
       [] OTHER -> Single!RunInit
  /\ part # "adoption" => ~group /\ ~taken /\ content = <<"x", "x">>

\* Bound: one session, where power is not lost.
OneSession == where'[s2] = "none"

SuiteNext ==
  /\ UNCHANGED part
  /\ \/ /\ part = "history" /\ Histories!HistoryNext
        /\ UNCHANGED <<journalVars, adoptionVars, recoveredVars, qualificationVars>>
     \/ /\ part = "lifecycle" /\ JournalNext /\ OneSession
        /\ UNCHANGED <<history, adoptionVars, recoveredVars, qualificationVars>>
     \/ /\ part = "recovered" /\ Recovered_!JournalNext /\ OneSession
        /\ UNCHANGED <<history, adoptionVars, recoveredVars, qualificationVars>>
     \/ /\ part = "power" /\ Power!JournalNext
        /\ UNCHANGED <<history, adoptionVars, recoveredVars, qualificationVars>>
     \/ /\ part = "adoption" /\ Adopting!AdoptionNext
        /\ UNCHANGED <<history, journalVars, recoveredVars, qualificationVars>>
     \/ /\ part = "recovery" /\ Recovering!RecoveredNext
        /\ UNCHANGED <<history, journalVars, adoptionVars, qualificationVars>>
     \/ /\ part = "single" /\ Single!RunNext
        /\ UNCHANGED <<history, journalVars, adoptionVars, recoveredVars>>
     \/ /\ part = "several" /\ Several!RunNext
        /\ UNCHANGED <<history, journalVars, adoptionVars, recoveredVars>>
     \/ /\ part = "slow" /\ Slow!RunNext
        /\ UNCHANGED <<history, journalVars, adoptionVars, recoveredVars>>

SuiteSpec == SuiteInit /\ [][SuiteNext]_suiteVars

-----------------------------------------------------------------------------
(* Properties *)

\* Every history _validate_history accepts: the limit of MAX_EVENTS_PER_SESSION
\* never stops it short of its end; what is signed is one object that left
\* staging, adopted or recovered; once a child launch was intended, staging is
\* not touched before the scope was proven empty; and only three ways lead to
\* a session that can neither finish nor continue and blocks reserve_session.
HistorySafe ==
  /\ Histories!RoomToFinish /\ Histories!PublishedObject
  /\ Histories!ScopeEmptyFirst /\ Histories!OnlyTheseEnds

\* The adoption of a capture: a lease, and what it leaves to recovery, is the
\* object its receipt describes, owned by root, out of reach of every process of
\* the child and durable; a failure that reports no failed cleanup, or a closed
\* lease, leaves nothing (_adopt_impl, AdoptedCaptureLease). A recovered
\* adoption, with runs that share a session, changed objects, kills and power
\* losses: the verifier is never launched again once its evidence is durable,
\* the journal acknowledges after staging, and the evidence recorded and
\* answered is of the reconciled object (run_recovered_adoption_verifier_v5).
\* The evidence itself: "qualified" is what every candidate earned, however the
\* runs that wrote it and the readers without a lock interleave or die, and a
\* reader no run overlaps always understands it (run_qualification,
\* status_qualification, verify_qualification).
EvidenceSafe ==
  /\ Adopting!AdoptionSafe /\ Recovering!RecoveredSafe
  /\ part = "single" => Single!QualificationSafe
  /\ part = "several" => Several!QualificationSafe
  /\ part = "slow" => Slow!QualificationSafe

=============================================================================

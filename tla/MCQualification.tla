---------------------------- MODULE MCQualification ----------------------------
(***************************************************************************)
(* A qualification capture: its scope under the lifecycle supervisor, with *)
(* a coordinator that crashes or a host that restarts; its staging         *)
(* directory; the child that takes it, under the old and the new protocol; *)
(* and the publication of what was verified, with faults or with a power   *)
(* loss. part says which of the seven runs.                                *)
(***************************************************************************)
EXTENDS LifecycleScope, TLC

CONSTANTS None, Unset, k1, k2, o1, o2

VARIABLES
  part,
  journal, leaf, synced, stagingScope, op, receipts, acks, stagingFaults,
  now, spent, archive, temp, head, public, durable, co, session, captures, aborted,
  pending, cleanups, committed,
  live, slot, lock, child, todo, coord, frames, instant, gate, used

Crashing == INSTANCE LifecycleScope WITH MaxRestarts <- 0, MaxReboots <- 0
Restarting == INSTANCE LifecycleScope WITH MaxCrashes <- 0
Staging == INSTANCE CaptureStaging WITH
  Outers <- {o1, o2}, MaxSpawns <- 1, MaxKills <- 1, MaxRaises <- 1,
  MaxLosses <- 1, MaxTorn <- 1, scope <- stagingScope, faults <- stagingFaults

\* Two runs; a capture of a run may differ from an earlier one.
Publishing == INSTANCE AttestationPublication WITH
  Coordinators <- {k1, k2}, Runs <- {0, 1}, Contents <- {"x", "y"}, Life <- 3,
  MaxFiles <- 2, MaxTime <- 2, MaxCaptures <- 2, MaxKills <- 1, MaxFaults <- 1, MaxLosses <- 0
PowerLosing == INSTANCE AttestationPublication WITH
  Coordinators <- {k1, k2}, Runs <- {0, 1}, Contents <- {"x"}, Life <- 2,
  MaxFiles <- 2, MaxTime <- 2, MaxCaptures <- 3, MaxKills <- 0, MaxFaults <- 0, MaxLosses <- 1

\* Two sessions share a parent; a session of its own meets more edits.
Helping == INSTANCE OpaqueCapture WITH
  Files <- {1, 2}, Protocol <- "v1", MaxSlots <- 2, MaxSessions <- 2, MaxEdits <- 1,
  MaxFaults <- 1
Handing == INSTANCE OpaqueCapture WITH
  Files <- {1, 2}, Protocol <- "v2", MaxSlots <- 1, MaxSessions <- 1, MaxEdits <- 3,
  MaxFaults <- 2

ASSUME QualificationAssumption ==
  /\ Staging!StagingConstants /\ Publishing!PublicationConstants /\ PowerLosing!PublicationConstants
  /\ Helping!CaptureConstants /\ Handing!CaptureConstants

stagingVars == <<journal, leaf, synced, stagingScope, op, receipts, acks, stagingFaults>>
publicationVars == <<now, spent, archive, temp, head, public, durable, co, session, captures,
                     aborted, pending, cleanups, committed>>
captureVars == <<live, slot, lock, child, todo, coord, frames, instant, gate, used>>
suiteVars == <<part, vars, stagingVars, publicationVars, captureVars>>

SuiteInit ==
  /\ part \in {"crashes", "restarts", "staging", "publishing", "power",
             "helper", "handoff"}
  /\ Init /\ Staging!Init
  /\ IF part = "power" THEN PowerLosing!PublicationInit ELSE Publishing!PublicationInit
  /\ IF part = "handoff" THEN Handing!CaptureInit ELSE Helping!CaptureInit

Publication == UNCHANGED <<vars, stagingVars, captureVars>>
Capture == UNCHANGED <<vars, stagingVars, publicationVars>>

SuiteNext ==
  /\ UNCHANGED part
  /\ \/ /\ part = "crashes" /\ Crashing!Next
        /\ UNCHANGED <<stagingVars, publicationVars, captureVars>>
     \/ /\ part = "restarts" /\ Restarting!Next
        /\ UNCHANGED <<stagingVars, publicationVars, captureVars>>
     \/ part = "staging" /\ Staging!Next /\ UNCHANGED <<vars, publicationVars, captureVars>>
     \/ part = "publishing" /\ Publishing!PublicationNext /\ Publication
     \/ part = "power" /\ PowerLosing!PublicationNext /\ Publication
     \/ part = "helper" /\ Helping!CaptureNext /\ Capture
     \/ part = "handoff" /\ Handing!CaptureNext /\ Capture

\* The coordinators of a publication are alike, and so are the outer records of
\* a staging session.
Alike == Permutations({k1, k2}) \union Permutations({o1, o2})

SuiteSpec == SuiteInit /\ [][SuiteNext]_suiteVars

-----------------------------------------------------------------------------
(* Properties *)

\* The scope: a scope-empty receipt is given only when nothing runs and stays
\* true, the outer journal never claims what the supervisor's ledger does not
\* show, the ledger is a valid history and no request sent is malformed,
\* whichever side died.
ScopeSafe ==
  /\ ScopeTypeOK /\ EmptyMeansEmpty /\ ReceiptTrue /\ JournalFollowsLedger
  /\ HistoryValid /\ WellFormedRequests

\* The staging directory: a terminal receipt stays true whatever is killed or
\* lost after it was handed out, a session is acknowledged for one outer record
\* and with one answer, and never while a process the journal knows of may run
\* (_build_absence_outcome, _build_quarantine_outcome, _acknowledge_terminal_impl).
StagingSafe ==
  /\ Staging!StagingTypeOK /\ Staging!ReceiptTrue
  /\ Staging!OneAcknowledgement /\ Staging!AcknowledgedContained

\* The raw capture: it is the evidence at one moment, a signature is authorised
\* only over evidence unchanged since, a leased capture is left alone by the
\* recoveries of others and one answered as cleaned is gone (serve_protocol_with_lease,
\* serve_handoff_with_lease, recover_stale_opaque_captures).
CaptureSafe ==
  /\ part = "helper" => Helping!CaptureSafe
  /\ part = "handoff" => Handing!CaptureSafe

\* What no step may do: start the capture of a session again, or destroy what
\* it left other than by a lease that recorded the death of the process scope
\* or after an acknowledged quarantine.
CaptureSteps == NeverRestarted /\ Staging!EvidenceKept

\* The publication, whichever coordinators race, fail, die or find a run
\* captured again: a committed result is archived and public ("both the signed
\* chain head and the public projection are durable"), the public head is of
\* the chain, a run answered as aborted was not signed, and a session was only
\* told of an archived attestation (run_prepared_transaction).
PublicationSafe ==
  /\ part = "publishing" => Publishing!PublicationSafe
  /\ part = "power" => PowerLosing!PublicationSafe

=============================================================================

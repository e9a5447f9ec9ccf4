--------------------------- MODULE RecoveredAdoption ---------------------------
(***************************************************************************)
(* A recovered adoption, from the reconciled record to verified evidence:  *)
(* the lease on the object that an interrupted adoption left               *)
(* (adoption_recovery.py), the acknowledgement of the staging tombstone    *)
(* and the run of the verifier (orchestrator.py), over the session of the  *)
(* journal and its one reservation (transaction_journal.py). The journal   *)
(* is its newest record; TransactionJournal has what is below it.          *)
(***************************************************************************)
EXTENDS Integers, FiniteSets

CONSTANTS
  Runners,                          \* who calls run_recovered_adoption_verifier_v5
  None,
  MaxChanges, MaxSessions, MaxTrouble, MaxLaunches   \* bounds

VARIABLES
  record,     \* the newest record of the transaction and what it binds
  durable,    \* the newest record a power loss would leave
  tombstone,  \* staging acknowledged its tombstone
  world,      \* versions of the object under its final name, the installed
              \* controls and the live sources
  session,    \* the journal session of the process
  lease,      \* RecoveredAdoptedCaptureLeaseV2
  runner,     \* the runs in progress
  launches,   \* verifier launches, and the durable state each was made in
  answered,   \* the evidence handed to callers
  used        \* what was used up of the bounds

recoveredVars == <<record, durable, tombstone, world, session, lease, runner,
                   launches, answered, used>>

RecoveredConstants ==
  /\ None \notin Runners
  /\ {MaxChanges, MaxSessions, MaxTrouble, MaxLaunches} \subseteq Nat

-----------------------------------------------------------------------------
(* Records *)

\* bind_recovered_adoption_evidence, PreparedRecoveredQualificationTransaction:
\* the versions the evidence and the preparation name.
Reconciled == 0
Prepared == 0
Captured == 0
Versions == 0 .. MaxChanges

States == <<"adoption_reconciled", "staging_tombstone_acked", "verifier_output_bound",
            "live_revalidation_started", "live_revalidation_receipt_complete">>
RankOf(s) == CHOOSE i \in 1 .. 5 : States[i] = s
Bound == {States[i] : i \in 3 .. 5}

\* _normalize_record_value, RecoveredAdoptionJournalContext: the states a lease
\* can be taken in.
Claimable == {"adoption_reconciled", "staging_tombstone_acked"}

\* normalize_recovered_adoption_lease_binding_v2: the journal's head and the object.
LeaseBinding == [head : Claimable, object : Versions]

\* _normalize_verifier_request_v5_for_recovered_evidence and
\* normalize_verifier_output_v4: what the verifier was asked and what it read.
VerifierRequest == [object : Versions]
VerifierOutput == [request : VerifierRequest, read : Versions]

\* normalize_recovered_verifier_source_evidence: the path-free envelope.
Envelope == [pre : LeaseBinding, post : LeaseBinding, output : VerifierOutput]

\* _validate_recovered_verifier_source_evidence_history: records from
\* verifier_output_bound on carry the envelope.
RecordType ==
  {r \in [state : {States[i] : i \in 1 .. 5}, envelope : Envelope \cup {None}] :
     (r.envelope = None) = (r.state \notin Bound)}

\* TransactionJournalSession: its records, its reservation and whether it must
\* be opened again.
SessionType ==
  [open : BOOLEAN, seen : RecordType,
   reserved : {"none", "ack"} \cup Runners, recovery : BOOLEAN]

\* flow_state of the lease, the head of its context and what it found before
\* the verifier ran.
LeaseType ==
  [flow : {"none", "reconciled", "ack_reserved", "acked", "ack_failed"},
   context : Claimable, pre : LeaseBinding \cup {None}]

NoLease == [flow |-> "none", context |-> "adoption_reconciled", pre |-> None]
IdleRun == [pc |-> "idle", pre |-> None, output |-> None, post |-> None]

RecoveredTypeOK ==
  /\ record \in RecordType /\ durable \in RecordType
  /\ tombstone \in BOOLEAN /\ world \in [{"object", "controls", "sources"} -> Versions]
  /\ session \in SessionType /\ lease \in LeaseType
  /\ \A r \in Runners :
       runner[r].pc \in {"idle", "begun", "checked", "launched", "verified", "current", "minted"}
  /\ answered \subseteq Envelope

RecoveredInit ==
  /\ record = [state |-> "adoption_reconciled", envelope |-> None] /\ durable = record
  /\ tombstone = FALSE
  /\ world = [object |-> Reconciled, controls |-> Prepared, sources |-> Captured]
  /\ session = [open |-> TRUE, seen |-> record, reserved |-> "none", recovery |-> FALSE]
  /\ lease = NoLease
  /\ runner = [r \in Runners |-> IdleRun]
  /\ launches = {} /\ answered = {}
  /\ used = [change |-> 0, session |-> 0, trouble |-> 0, launch |-> 0]

Use(what, bound) == used[what] < bound /\ used' = [used EXCEPT ![what] = @ + 1]
Trouble == Use("trouble", MaxTrouble)

-----------------------------------------------------------------------------
(* The session of the journal *)

\* begin_recovered_adoption_tombstone_ack, begin_recovered_verifier_source_evidence,
\* mint_recovered_adoption_journal_context, recover_recovered_verified_evidence_v6:
\* nothing is reserved and the session need not be opened again.
Unreserved == session.open /\ session.reserved = "none" /\ ~session.recovery

\* _scan_live_snapshot: the disk is what the session last saw.
Live == session.seen = record

Release(s) == [s EXCEPT !.reserved = "none"]

\* _commit_candidate and the readback after it, with what the failure handlers
\* of _commit_recovered_adoption_tombstone_ack and
\* _commit_recovered_verifier_material make of an error. committed says if the
\* caller is told of a success.
Commit(next, committed) ==
  \/ \* written and synced, or found written and then synced
     /\ committed /\ record' = next /\ durable' = next
     /\ session' = [Release(session) EXCEPT !.seen = next]
     /\ UNCHANGED used
  \/ \* written and synced, and interrupted before the caller is told
     /\ ~committed /\ record' = next /\ durable' = next
     /\ session' = [Release(session) EXCEPT !.seen = next]
     /\ Trouble
  \/ \* not written
     /\ ~committed /\ session' = Release(session)
     /\ Trouble /\ UNCHANGED <<record, durable>>
  \/ \* written, and it cannot be synced or read
     /\ ~committed /\ record' = next
     /\ session' = [Release(session) EXCEPT !.recovery = TRUE]
     /\ Trouble /\ UNCHANGED durable

\* A process opens the session again and loads what it finds.
OpenSession ==
  /\ ~session.open /\ Use("session", MaxSessions)
  /\ session' = [open |-> TRUE, seen |-> record, reserved |-> "none", recovery |-> FALSE]
  /\ UNCHANGED <<record, durable, tombstone, world, lease, runner, launches, answered>>

CloseSession ==
  /\ session.open /\ \A r \in Runners : runner[r].pc = "idle"
  /\ session' = [session EXCEPT !.open = FALSE]
  /\ lease' = NoLease
  /\ UNCHANGED <<record, durable, tombstone, world, runner, launches, answered, used>>

-----------------------------------------------------------------------------
(* The lease on the recovered object *)

\* _validate_bound_object: the object is the reconciled one, its name, owner,
\* modes, times and contents included.
ObjectValid == world.object = Reconciled

\* _revalidate_against_context: the head is the one of the lease's context, and
\* the object is valid.
Revalidated == session.seen.state = lease.context /\ Live /\ ObjectValid

\* _build_binding_v2
BindingNow == [head |-> lease.context, object |-> world.object]

\* recover_adopted_capture_v2: from the reconciled head or the acknowledged one.
RecoverLease ==
  /\ lease.flow = "none" /\ Unreserved /\ Live
  /\ record.state \in Claimable /\ ObjectValid
  /\ lease' = [flow |-> IF record.state = "adoption_reconciled" THEN "reconciled" ELSE "acked",
               context |-> record.state, pre |-> None]
  /\ UNCHANGED <<record, durable, tombstone, world, session, runner, launches, answered, used>>

\* begin_outer_ack: the lease reserves the journal's head.
BeginAck ==
  /\ lease.flow = "reconciled" /\ lease.pre = None /\ Unreserved /\ Revalidated
  /\ record.state = "adoption_reconciled"
  /\ session' = [session EXCEPT !.reserved = "ack"]
  /\ lease' = [lease EXCEPT !.flow = "ack_reserved"]
  /\ UNCHANGED <<record, durable, tombstone, world, runner, launches, answered, used>>

\* _cancel_outer_ack
CancelAck ==
  /\ lease.flow = "ack_reserved"
  /\ session' = Release(session)
  /\ lease' = [lease EXCEPT !.flow = "reconciled"]
  /\ UNCHANGED <<record, durable, tombstone, world, runner, launches, answered, used>>

\* _commit_outer_ack finds the object changed before it commits: the journal's
\* reservation stays until the session is closed.
AckObjectChanged ==
  /\ lease.flow = "ack_reserved" /\ ~Revalidated
  /\ lease' = [lease EXCEPT !.flow = "ack_failed"]
  /\ UNCHANGED <<record, durable, tombstone, world, session, runner, launches, answered, used>>

\* _acknowledge_recovered_adoption_tombstone: staging answers the same again.
\* An error of staging, before or after its record, fails the operation.
AckStaging(done) ==
  /\ lease.flow = "ack_reserved" /\ session.reserved = "ack" /\ Revalidated
  /\ tombstone' \in {tombstone, done}
  /\ session' = Release(session)
  /\ lease' = [lease EXCEPT !.flow = "ack_failed"]
  /\ Trouble
  /\ UNCHANGED <<record, durable, world, runner, launches, answered>>

\* _commit_outer_ack: staging first, then the outer record, then the lease
\* takes the new context.
CommitAck ==
  LET next == [state |-> "staging_tombstone_acked", envelope |-> None] IN
  /\ lease.flow = "ack_reserved" /\ session.reserved = "ack" /\ Revalidated
  /\ tombstone' = TRUE
  /\ \/ /\ Commit(next, TRUE)
        /\ lease' = [lease EXCEPT !.flow = "acked", !.context = "staging_tombstone_acked"]
     \/ /\ Commit(next, FALSE)
        /\ lease' = [lease EXCEPT !.flow = "ack_failed"]
  /\ UNCHANGED <<world, runner, launches, answered>>

\* close: an acknowledgement in progress is cancelled.
CloseLease ==
  /\ lease.flow # "none"
  /\ session' = IF lease.flow = "ack_reserved" THEN Release(session) ELSE session
  /\ lease' = NoLease
  /\ UNCHANGED <<record, durable, tombstone, world, runner, launches, answered, used>>

-----------------------------------------------------------------------------
(* run_recovered_adoption_verifier_v5 *)

Goto(r, pc) == runner' = [runner EXCEPT ![r].pc = pc]
untouched == <<record, durable, tombstone, world>>

\* Mutant: the head is not reserved against another run.
BeginRunShared(r) ==
  /\ runner[r].pc = "idle" /\ session.open /\ ~session.recovery /\ Live
  /\ record.state = "staging_tombstone_acked"
  /\ session' = [session EXCEPT !.reserved = r] /\ Goto(r, "begun")
  /\ UNCHANGED <<untouched, lease, launches, answered, used>>

\* begin_recovered_verifier_source_evidence
BeginRun(r) ==
  /\ runner[r].pc = "idle" /\ Unreserved /\ Live
  /\ record.state = "staging_tombstone_acked"
  /\ session' = [session EXCEPT !.reserved = r] /\ Goto(r, "begun")
  /\ UNCHANGED <<untouched, lease, launches, answered, used>>

\* _assert_recovered_ack_binding: the lease, the session and the preparation
\* are of one acknowledged head.
AckBinding == lease.context = record.state /\ record.state = "staging_tombstone_acked"

\* pre_verifier_revalidate, and the controls.
CheckBefore(r) ==
  /\ runner[r].pc = "begun" /\ lease.flow = "acked" /\ Revalidated /\ AckBinding
  /\ lease.pre \in {None, BindingNow} /\ world.controls = Prepared
  /\ lease' = [lease EXCEPT !.pre = BindingNow]
  /\ runner' = [runner EXCEPT ![r].pc = "checked", ![r].pre = BindingNow]
  /\ UNCHANGED <<untouched, session, launches, answered, used>>

\* The call of verifier_v5_launcher.
Launch(r) ==
  /\ runner[r].pc = "checked" /\ Use("launch", MaxLaunches)
  /\ launches' = launches \cup {durable.state}
  /\ Goto(r, "launched")
  /\ UNCHANGED <<untouched, session, lease, answered>>

\* _build_recovered_verifier_request_v5
RequestOf(r) == [object |-> runner[r].pre.object]

\* verify_capture_adoption_result: the verifier reads the adopted tree itself and
\* succeeds only on what the request names.
Succeeds(request) == world.object = request.object

\* _parse_recovered_verifier_v5_result, _assert_recovered_verifier_output_binding:
\* an output for this request, about what the evidence names.
Verify(r) ==
  /\ runner[r].pc = "launched" /\ Succeeds(RequestOf(r)) /\ world.object = Reconciled
  /\ runner' = [runner EXCEPT ![r].pc = "verified",
                              ![r].output = [request |-> RequestOf(r), read |-> world.object]]
  /\ UNCHANGED <<untouched, session, lease, launches, answered, used>>

\* _revalidate_recovered_live_sources
CheckSources(r) ==
  /\ runner[r].pc = "verified" /\ world.sources = Captured
  /\ Goto(r, "current")
  /\ UNCHANGED <<untouched, session, lease, launches, answered, used>>

\* post_verifier_revalidate, the controls again, and mint_material.
CheckAfter(r) ==
  /\ runner[r].pc = "current" /\ lease.flow = "acked" /\ lease.pre # None /\ Revalidated
  /\ BindingNow = lease.pre /\ BindingNow = runner[r].pre /\ world.controls = Prepared
  /\ session.reserved = r /\ AckBinding
  /\ runner' = [runner EXCEPT ![r].pc = "minted", ![r].post = BindingNow]
  /\ UNCHANGED <<untouched, session, lease, launches, answered, used>>

\* _build_recovered_verifier_source_evidence_envelope
EnvelopeOf(r) == [pre |-> runner[r].pre, post |-> runner[r].post, output |-> runner[r].output]

\* operation.commit
CommitRun(r) ==
  LET next == [state |-> "verifier_output_bound", envelope |-> EnvelopeOf(r)] IN
  /\ runner[r].pc = "minted" /\ session.open /\ session.reserved = r /\ Live
  /\ record.state = "staging_tombstone_acked"
  /\ \E told \in BOOLEAN : Commit(next, told)
  /\ runner' = [runner EXCEPT ![r] = IdleRun]
  /\ UNCHANGED <<tombstone, world, lease, launches, answered>>

\* Whatever check fails, or an exception: a reservation still open is cancelled
\* (_cancel_recovered_verifier_operation).
FailRun(r) ==
  /\ runner[r].pc # "idle"
  /\ session' = IF session.reserved = r THEN Release(session) ELSE session
  /\ runner' = [runner EXCEPT ![r] = IdleRun]
  /\ UNCHANGED <<untouched, lease, launches, answered, used>>

\* _reconstruct_recovered_verified_evidence_v6: what was verified can be had
\* again from the record alone.
Reconstructed ==
  record.envelope # None /\ record.envelope.pre = record.envelope.post
  /\ record.envelope.output.request.object = record.envelope.pre.object

\* advance_recovered_verifier_source_evidence: one more record.
Advance ==
  LET next == [record EXCEPT !.state = States[RankOf(record.state) + 1]] IN
  /\ Unreserved /\ Live /\ record.state \in Bound /\ Reconstructed
  /\ record.state # "live_revalidation_receipt_complete"
  /\ \E told \in BOOLEAN : Commit(next, told)
  /\ UNCHANGED <<tombstone, world, lease, runner, launches, answered>>

\* resume_recovered_adoption_verifier_v5 answers once all three are recorded.
Resume ==
  /\ Unreserved /\ Live /\ record.state = "live_revalidation_receipt_complete" /\ Reconstructed
  /\ answered' = answered \cup {record.envelope}
  /\ UNCHANGED <<untouched, session, lease, runner, launches, used>>

-----------------------------------------------------------------------------
(* The environment *)

\* Something changes the object, the controls or the sources.
Change(what) ==
  /\ Use("change", MaxChanges)
  /\ world' = [world EXCEPT ![what] = @ + 1]
  /\ UNCHANGED <<record, durable, tombstone, session, lease, runner, launches, answered>>

Forgotten ==
  /\ session' = [session EXCEPT !.open = FALSE] /\ lease' = NoLease
  /\ runner' = [r \in Runners |-> IdleRun]

Kill ==
  /\ session.open /\ Trouble /\ Forgotten
  /\ UNCHANGED <<untouched, launches, answered>>

PowerLoss ==
  /\ Trouble /\ Forgotten
  /\ record' \in {record, durable} /\ durable' = record'
  /\ UNCHANGED <<tombstone, world, launches, answered>>

RecoveredNext ==
  \/ OpenSession \/ CloseSession
  \/ RecoverLease \/ BeginAck \/ CancelAck \/ AckObjectChanged \/ AckStaging(TRUE)
  \/ CommitAck \/ CloseLease
  \/ \E r \in Runners : \/ BeginRun(r) \/ CheckBefore(r) \/ Launch(r) \/ Verify(r)
                        \/ CheckSources(r) \/ CheckAfter(r) \/ CommitRun(r) \/ FailRun(r)
  \/ Advance \/ Resume
  \/ (\E what \in DOMAIN world : Change(what)) \/ Kill \/ PowerLoss

RecoveredSpec == RecoveredInit /\ [][RecoveredNext]_recoveredVars

-----------------------------------------------------------------------------
(* Properties *)

\* "A crash before the path-free journal commit may safely repeat read-only
\* work; a crash after it ... can never relaunch the verifier"
\* (run_recovered_adoption_verifier_v5), however many runs share the session.
NeverRelaunched == launches \cap Bound = {}

\* The outer journal acknowledges only what staging has acknowledged, whatever
\* fails between the two (_commit_recovered_adoption_tombstone_ack).
AcknowledgedInOrder == record.state # "adoption_reconciled" => tombstone

\* What is recorded, and what is answered, is about the object as reconciled,
\* before and after the verifier read it; an answer is never taken back.
EvidenceTrue ==
  /\ \A e \in answered \cup ({record.envelope} \ {None}) :
       e.pre = e.post /\ e.pre.object = Reconciled /\ e.output.read = Reconciled
  /\ answered # {} => record.state \in Bound /\ answered = {record.envelope}

\* A reservation of the journal's head has an owner, except the one a lease
\* leaves behind when its object changed before the commit.
ReservationOwned ==
  /\ session.open /\ session.reserved = "ack" => lease.flow \in {"ack_reserved", "ack_failed", "none"}
  /\ session.open /\ session.reserved \in Runners => runner[session.reserved].pc # "idle"

RecoveredSafe ==
  /\ RecoveredTypeOK /\ NeverRelaunched /\ AcknowledgedInOrder
  /\ EvidenceTrue /\ ReservationOwned

=============================================================================

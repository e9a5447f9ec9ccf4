------------------------------ MODULE JournalRules ------------------------------
(***************************************************************************)
(* What a history of the qualification transaction journal may say         *)
(* (_allowed_transition, _validate_history and the functions it calls, in  *)
(* john_lomein_persona_qualification_transaction_journal.py).              *)
(*                                                                         *)
(* A record is its state and a mark: the one detail of that state the      *)
(* rules tell apart. A detail the history determines is not kept: the      *)
(* digests that bind a record to the ones before it, from_state, which is  *)
(* the state of the record before, and effect_origin_state. A record       *)
(* whose bound details differ from its history is refused, so it is not    *)
(* offered here.                                                           *)
(***************************************************************************)
EXTENDS Integers, Sequences, FiniteSets

CONSTANT MaxEvents       \* MAX_EVENTS_PER_SESSION

ASSUME MaxEventsAssumption == MaxEvents \in Nat \ {0}

EffectOrigins == {"child_launch_intent", "child_running", "capture_ready"}

Terminal == {"cleanup_complete", "staging_absent_cleanup_complete",
             "staging_quarantined_cleanup_complete", "quarantined",
             "operator_resolved"}

Verified == {"verifier_output_bound", "live_revalidation_started",
             "live_revalidation_receipt_complete"}

\* _LINEAR_SUCCESSORS
LinearSuccessor ==
  [reserved |-> "staging_create_intent",
   staging_create_intent |-> "staging_exposed",
   staging_exposed |-> "child_launch_intent",
   child_launch_intent |-> "child_running",
   child_running |-> "capture_ready",
   capture_ready |-> "lifecycle_clearance_intent",
   lifecycle_clearance_intent |-> "lifecycle_scope_empty",
   lifecycle_scope_empty |-> "adoption_intent",
   adoption_intent |-> "adopted",
   verifier_output_bound |-> "live_revalidation_started",
   live_revalidation_started |-> "live_revalidation_receipt_complete",
   live_revalidation_receipt_complete |-> "signing_intent",
   signing_intent |-> "attestation_archive_durable_head_pending",
   attestation_archive_durable_head_pending |->
     "attestation_head_committed_trust_projection_pending",
   attestation_head_committed_trust_projection_pending |->
     "full_publication_committed_cleanup_required"]

-----------------------------------------------------------------------------
(* Records: the marks _normalize_details leaves open in each state *)

ClearanceMarks == {"wait_clean_then_terminate_on_deadline", "terminate_and_clear"}
ScopeEmptyMarks == {"eligible", "ineligible"}
Dispositions == {"absent", "quarantined"}
ReconciliationResults == {"recovered_adoption", "staging_absent",
                          "staging_quarantined", "operator_attention"}
AckMarks == {"normal", "recovered"}
EvidenceMarks == {"normal", "recovered"}
Namespaces == {"staging", "adopted"}
CleanupPhases == {"name_bound", "parent_fsync_only"}
CleanupResults == {"removed_and_fsynced", "parent_fsynced",
                   "already_absent_parent_fsynced"}

\* The states whose details leave nothing open, by the phase they belong to.
CapturePlain == {"reserved", "staging_create_intent", "staging_exposed",
                 "child_launch_intent", "child_running"}
AdoptionPlain == {"capture_ready", "adoption_intent", "adopted"}
SigningPlain == {"signing_intent"}
PublicationPlain == {"attestation_archive_durable_head_pending",
                     "attestation_head_committed_trust_projection_pending",
                     "full_publication_committed_cleanup_required"}
RemovalPlain == {"staging_absent_cleanup_complete",
                 "staging_quarantined_cleanup_complete"}
OperatorPlain == {"operator_attention", "adoption_reconciliation_required",
                  "operator_resolved"}
Plain == CapturePlain \cup AdoptionPlain \cup SigningPlain \cup PublicationPlain
           \cup RemovalPlain \cup OperatorPlain

Record ==
  [state : {"lifecycle_clearance_intent"}, mark : ClearanceMarks]
    \cup [state : {"lifecycle_scope_empty"}, mark : ScopeEmptyMarks]
    \cup [state : {"staging_tombstone_ack_pending"}, mark : Dispositions]
    \cup [state : {"adoption_reconciled"}, mark : ReconciliationResults]
    \cup [state : {"staging_tombstone_acked"}, mark : AckMarks]
    \cup [state : Verified, mark : EvidenceMarks]
    \cup [state : {"quarantine_pending", "quarantined"}, mark : Namespaces]
    \cup [state : {"committed_cleanup_pending"}, mark : CleanupPhases]
    \cup [state : {"cleanup_complete"}, mark : CleanupResults]
    \cup [state : Plain, mark : {"none"}]

JournalStates == {r.state : r \in Record}

At(h, s) == {i \in DOMAIN h : h[i].state = s}
Has(h, s) == At(h, s) # {}

\* _record_for_state: the first record with the state.
First(h, s) == CHOOSE i \in At(h, s) : \A j \in At(h, s) : i <= j

\* The record before i, and the one an attention at that place was raised on.
Behind(h, i) == IF h[i - 1].state = "operator_attention" THEN i - 2 ELSE i - 1

-----------------------------------------------------------------------------
(* Transitions *)

\* Mutant: staging is cleared while the child may still run.
AllowedWhileRunning(prev, next) ==
  \/ prev = "child_running" /\ next = "staging_tombstone_ack_pending"
  \/ prev \in DOMAIN LinearSuccessor /\ LinearSuccessor[prev] = next

\* The states _allowed_transition names before its general rules.
Singular == {"staging_tombstone_ack_pending", "adoption_reconciliation_required",
             "adoption_reconciled", "staging_tombstone_acked", "adopted",
             "quarantine_pending", "staging_create_intent", "operator_attention"}

\* The general rules of _allowed_transition.
AllowedAhead(prev, next) ==
  \/ next = "operator_attention"
  \/ /\ next \in {"staging_tombstone_ack_pending", "quarantine_pending"}
     /\ prev \in {"staging_exposed", "lifecycle_scope_empty", "adoption_intent"}
  \/ next = "lifecycle_clearance_intent" /\ prev \in EffectOrigins
  \/ /\ next \notin {"staging_tombstone_ack_pending", "quarantine_pending",
                     "lifecycle_clearance_intent", "quarantined"}
     /\ \/ prev \in DOMAIN LinearSuccessor /\ LinearSuccessor[prev] = next
        \/ /\ prev \in {"full_publication_committed_cleanup_required",
                        "committed_cleanup_pending"}
           /\ next \in {"committed_cleanup_pending", "cleanup_complete"}

\* _allowed_transition; nothing follows a terminal state.
Allowed(prev, next) ==
  \/ /\ prev = "staging_tombstone_ack_pending"
     /\ next \in {"staging_tombstone_acked", "adoption_reconciliation_required",
                  "operator_attention"}
  \/ /\ prev = "adoption_reconciliation_required"
     /\ next \in {"adoption_reconciled", "operator_attention"}
  \/ /\ prev = "adoption_reconciled"
     /\ next \in {"staging_tombstone_acked", "operator_attention"}
  \/ /\ prev = "staging_tombstone_acked"
     /\ next \in {"staging_absent_cleanup_complete",
                  "staging_quarantined_cleanup_complete",
                  "verifier_output_bound", "operator_attention"}
  \/ /\ prev = "adopted"
     /\ next \in {"staging_tombstone_ack_pending", "quarantine_pending",
                  "operator_attention"}
  \/ /\ prev = "quarantine_pending"
     /\ next \in {"staging_tombstone_ack_pending", "quarantined",
                  "operator_attention"}
  \/ /\ prev = "staging_create_intent"
     /\ next \in {"staging_exposed", "staging_tombstone_ack_pending",
                  "operator_attention"}
  \/ /\ prev = "operator_attention"
     /\ next \in {"operator_resolved", "lifecycle_clearance_intent",
                  "lifecycle_scope_empty", "staging_tombstone_ack_pending",
                  "staging_tombstone_acked", "adoption_reconciliation_required",
                  "adoption_reconciled", "quarantined", "cleanup_complete",
                  "attestation_head_committed_trust_projection_pending",
                  "full_publication_committed_cleanup_required"}
  \/ prev \notin Terminal \cup Singular /\ AllowedAhead(prev, next)

-----------------------------------------------------------------------------
(* Origins *)

\* _effect_record_for_clearance_intent: the state of the record whose effect
\* the clearance clears.
ClearedOrigin(h) == h[Behind(h, First(h, "lifecycle_clearance_intent"))].state

\* _staging_tombstone_effect_origin of the tombstone at i.
TombstoneOrigin(h, i) ==
  LET b == Behind(h, i)
      s == IF h[b].state = "quarantine_pending" THEN h[b - 1].state ELSE h[b].state
  IN  IF s = "lifecycle_scope_empty" THEN ClearedOrigin(h) ELSE s

\* The state a quarantine record at i stems from.
QuarantineOrigin(h, i) ==
  LET b == IF h[i].state = "quarantined" THEN Behind(h, i) ELSE i - 1
  IN  IF h[b].state = "quarantine_pending" THEN h[b - 1].state ELSE h[b].state

\* Mutant: the namespaces of a pending quarantine are swapped.
QuarantineResolutionSwapped(namespace) ==
  IF namespace = "staging" THEN "quarantined" ELSE "staging_tombstone_ack_pending"

\* The resolution of an attention on a pending quarantine.
QuarantineResolution(namespace) ==
  IF namespace = "staging" THEN "staging_tombstone_ack_pending" ELSE "quarantined"

\* next may follow the operator attention at i (expected_resolution); nothing
\* may for an origin the code does not support.
Resolves(h, i, next) ==
  LET origin == h[i - 1].state IN
  \/ origin = "reserved" /\ next = "operator_resolved"
  \/ /\ origin \in {"staging_create_intent", "staging_exposed",
                    "lifecycle_scope_empty", "adoption_intent"}
     /\ next = "staging_tombstone_ack_pending"
  \/ origin \in EffectOrigins /\ next = "lifecycle_clearance_intent"
  \/ origin = "lifecycle_clearance_intent" /\ next = "lifecycle_scope_empty"
  \/ /\ origin = "attestation_archive_durable_head_pending"
     /\ next = "attestation_head_committed_trust_projection_pending"
  \/ /\ origin = "attestation_head_committed_trust_projection_pending"
     /\ next = "full_publication_committed_cleanup_required"
  \/ /\ origin \in {"full_publication_committed_cleanup_required",
                    "committed_cleanup_pending"}
     /\ next = "cleanup_complete"
  \/ /\ origin = "staging_tombstone_ack_pending"
     /\ next = (IF TombstoneOrigin(h, i - 1) = "adoption_intent"
                THEN "adoption_reconciliation_required"
                ELSE "staging_tombstone_acked")
  \/ origin = "adoption_reconciliation_required" /\ next = "adoption_reconciled"
  \/ origin \in Verified \cup {"adopted", "signing_intent"} /\ next = "quarantined"
  \/ origin = "quarantine_pending" /\ next = QuarantineResolution(h[i - 1].mark)

-----------------------------------------------------------------------------
(* Whole histories *)

\* The loop of _validate_history over the records.
Chain(h) ==
  /\ h[1].state = "reserved"
  /\ \A i \in 2 .. Len(h) :
       /\ Allowed(h[i - 1].state, h[i].state)
       /\ h[i - 1].state = "operator_attention"
            => Resolves(h, i - 1, h[i].state)
       /\ h[i].state = "operator_attention" /\ h[i - 1].state = "adoption_reconciled"
            => h[i - 1].mark \in {"recovered_adoption", "operator_attention"}
       /\ h[i].state = "quarantined" /\ h[i - 1].state = "quarantine_pending"
            => h[i].mark = h[i - 1].mark

\* _validate_lifecycle_history, with the eligibility the scope-empty receipt
\* computes (normalize_lifecycle_scope_empty_receipt).
Lifecycle(h) ==
  /\ \E s \in EffectOrigins \cup {"lifecycle_clearance_intent",
                                  "lifecycle_scope_empty", "adoption_intent"} :
        Has(h, s)
      => Has(h, "child_launch_intent")
  /\ Has(h, "capture_ready") => Has(h, "child_running")
  /\ Has(h, "lifecycle_clearance_intent") =>
       /\ ClearedOrigin(h) \in EffectOrigins
       /\ ClearedOrigin(h) # "capture_ready" =>
            h[First(h, "lifecycle_clearance_intent")].mark = "terminate_and_clear"
  /\ \A i \in At(h, "lifecycle_scope_empty") :
       /\ Behind(h, i) = First(h, "lifecycle_clearance_intent")
       /\ h[i].mark = "eligible" =>
            /\ ClearedOrigin(h) = "capture_ready"
            /\ h[Behind(h, i)].mark = "wait_clean_then_terminate_on_deadline"
  /\ Has(h, "adoption_intent") =>
       h[First(h, "lifecycle_scope_empty")].mark = "eligible"

\* The disposition a reconciliation result asks of the tombstone
\* (_expected_result).
ExpectedDisposition(result) ==
  IF result = "staging_quarantined" THEN "quarantined" ELSE "absent"

\* _validate_adoption_reconciled_binding and the adoption half of
\* _validate_staging_tombstone_handshake: the reconciliation of the tombstone
\* at p, before any acknowledgement.
Reconciliation(h, p) ==
  LET required == At(h, "adoption_reconciliation_required")
      reconciled == At(h, "adoption_reconciled")
      settled == \/ Has(h, "staging_tombstone_acked")
                 \/ Has(h, "staging_absent_cleanup_complete")
                 \/ Has(h, "staging_quarantined_cleanup_complete")
  IN  IF TombstoneOrigin(h, p) # "adoption_intent"
      THEN required = {} /\ reconciled = {}
      ELSE /\ required = {} => reconciled = {}
           /\ reconciled = {} => ~ settled
           /\ \A r \in reconciled :
                /\ Behind(h, r) \in required
                /\ IF h[r].mark = "operator_attention" THEN ~ settled
                   ELSE h[p].mark = ExpectedDisposition(h[r].mark)

Recovered(h) == \E r \in At(h, "adoption_reconciled") : h[r].mark = "recovered_adoption"

\* Mutant: the object may still lie in the staging quarantine.
ContinuationInQuarantine(h, p) ==
  Has(h, "verifier_output_bound") =>
    TombstoneOrigin(h, p) = "adopted" \/ Recovered(h)

\* What may follow the acknowledged tombstone at p: the verifier for an
\* adopted or recovered object that left staging, the completion otherwise.
Continuation(h, p) ==
  LET origin == TombstoneOrigin(h, p)
      verifier == At(h, "verifier_output_bound")
      done == At(h, "staging_absent_cleanup_complete")
                \cup At(h, "staging_quarantined_cleanup_complete")
  IN  /\ verifier # {} =>
           /\ Cardinality(verifier) = 1
           /\ h[p].mark = "absent"
           /\ origin = "adopted" \/ Recovered(h)
           /\ h[First(h, "verifier_output_bound")].mark
                = (IF Recovered(h) THEN "recovered" ELSE "normal")
           /\ done = {}
      /\ \A d \in done :
           /\ origin # "adopted"
           /\ ~ Recovered(h)
           /\ (h[d].state = "staging_absent_cleanup_complete")
                <=> (h[p].mark = "absent")

\* _validate_staging_tombstone_handshake
Tombstone(h) ==
  LET pending == At(h, "staging_tombstone_ack_pending")
      acked == At(h, "staging_tombstone_acked")
      later == {"adoption_reconciliation_required", "adoption_reconciled",
                "staging_tombstone_acked", "staging_absent_cleanup_complete",
                "staging_quarantined_cleanup_complete"}
  IN  /\ Cardinality(pending) <= 1
      /\ \A s \in later : Cardinality(At(h, s)) <= 1
      /\ (\E s \in later : Has(h, s)) => pending # {}
      /\ \A p \in pending :
           LET b == Behind(h, p) IN
           /\ h[b].state = "quarantine_pending" => h[b].mark = "staging"
           /\ h[p].mark = "quarantined" => h[b].state = "quarantine_pending"
           /\ Reconciliation(h, p)
           /\ \A a \in acked :
                /\ p < a
                /\ h[a].mark = (IF Recovered(h) THEN "recovered" ELSE "normal")
                /\ Recovered(h) => h[a - 1].state = "adoption_reconciled"
           /\ Continuation(h, p)

\* _validate_recovered_verifier_source_evidence_history
RecoveredEvidence(h) ==
  LET enriched == {i \in DOMAIN h : h[i].state \in Verified /\ h[i].mark = "recovered"}
      v == First(h, "verifier_output_bound")
  IN  enriched # {} =>
        /\ \A i \in DOMAIN h : h[i].state \in Verified => h[i].mark = "recovered"
        /\ Cardinality(At(h, "verifier_output_bound")) = 1
        /\ h[v - 1] = [state |-> "staging_tombstone_acked", mark |-> "recovered"]
        /\ h[v - 2].state = "adoption_reconciled"
        /\ \A i \in At(h, "live_revalidation_started") : i = v + 1
        /\ \A i \in At(h, "live_revalidation_receipt_complete") : i = v + 2

\* The quarantine loop of _validate_history.
Quarantine(h) ==
  \A i \in At(h, "quarantine_pending") \cup At(h, "quarantined") :
    /\ QuarantineOrigin(h, i) \in Verified \cup
         {"staging_exposed", "lifecycle_scope_empty", "adoption_intent", "adopted",
          "signing_intent"}
    /\ QuarantineOrigin(h, i) \in {"staging_exposed", "lifecycle_scope_empty"}
         => h[i].mark = "staging"
    /\ h[i].mark = "staging" => Has(h, "staging_exposed")
    /\ h[i].mark = "adopted" => Has(h, "capture_ready")
    /\ h[i].state = "quarantined" => h[i].mark = "adopted"

\* Mutant: the phase of a repeated cleanup is not advanced.
CleanupRepeats(h) ==
  LET pending == At(h, "committed_cleanup_pending") IN
  \A i, j \in pending : i < j => h[j].mark = "parent_fsync_only"

\* The cleanup phases of _validate_history: a pending cleanup is repeated at
\* most once, for the fsync that the removal left open.
Cleanup(h) ==
  LET pending == At(h, "committed_cleanup_pending")
      phase == IF \E i \in pending : h[i].mark = "parent_fsync_only"
               THEN "parent_fsync_only" ELSE "name_bound"
  IN  /\ \A i, j \in pending : i < j => /\ h[i].mark = "name_bound"
                                       /\ h[j].mark = "parent_fsync_only"
      /\ h[Len(h)].state = "cleanup_complete" =>
           h[Len(h)].mark \in
             {"already_absent_parent_fsynced",
              IF phase = "name_bound" THEN "removed_and_fsynced" ELSE "parent_fsynced"}

\* _validate_history
ValidHistory(h) ==
  /\ Len(h) \in 1 .. MaxEvents
  /\ Chain(h)
  /\ Tombstone(h)
  /\ RecoveredEvidence(h)
  /\ Lifecycle(h)
  /\ Quarantine(h)
  /\ Cleanup(h)

Newest(h) == h[Len(h)]

=============================================================================

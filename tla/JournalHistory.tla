----------------------------- MODULE JournalHistory -----------------------------
(***************************************************************************)
(* What one session of the qualification transaction journal promises: an  *)
(* append-only history, valid at every length, with no fault and no        *)
(* process in sight.                                                       *)
(***************************************************************************)
EXTENDS JournalRules

VARIABLE history

\* reserve_session
Reserve ==
  /\ history = <<>>
  /\ history' = <<[state |-> "reserved", mark |-> "none"]>>

\* append_event and the operations that append.
Extend ==
  /\ history # <<>>
  /\ \E r \in Record :
       /\ ValidHistory(Append(history, r))
       /\ history' = Append(history, r)

HistoryInit == history = <<>>
HistoryNext == Reserve \/ Extend
HistorySpec == HistoryInit /\ [][HistoryNext]_history

-----------------------------------------------------------------------------
(* Properties *)

\* The limit of MAX_EVENTS_PER_SESSION never stops a session short of its
\* end: a history that has used all its records is terminal, whatever detours
\* through operator_attention, quarantine, reconciliation and repeated cleanup
\* _validate_history let it take.
RoomToFinish ==
  Len(history) = MaxEvents => Newest(history).state \in Terminal

\* What is signed is one object that left staging: the journal holds an
\* acknowledged tombstone whose staging leaf is absent, a scope proven empty
\* after a clean exit, and either the adoption or its recovery, not both.
PublishedObject ==
  Has(history, "signing_intent") =>
    /\ Has(history, "staging_tombstone_acked")
    /\ history[First(history, "staging_tombstone_ack_pending")].mark = "absent"
    /\ history[First(history, "lifecycle_scope_empty")].mark = "eligible"
    /\ Has(history, "adopted") <=> ~ Recovered(history)

\* Once a child launch was intended, staging is neither cleared, quarantined
\* nor adopted before the scope was proven empty.
ScopeEmptyFirst ==
  \A i \in DOMAIN history :
    /\ history[i].state \in {"staging_tombstone_ack_pending", "quarantine_pending",
                              "adoption_intent"}
    /\ Has(history, "child_launch_intent")
    => \E j \in 1 .. i - 1 : history[j].state = "lifecycle_scope_empty"

CanExtend == \E r \in Record : /\ r.state # "operator_attention"
                              /\ ValidHistory(Append(history, r))

\* A session that can neither finish nor continue blocks reserve_session for
\* good. There are three ways into that: an attention on an acknowledged or
\* reconciled tombstone, for which _validate_history has no resolution; a
\* reconciliation that asks for the operator; and the tombstone of an adopted
\* object whose staging leaf lies in quarantine.
OnlyTheseEnds ==
  LET n == Len(history) IN
  \/ history = <<>> \/ Newest(history).state \in Terminal \/ CanExtend
  \/ /\ Newest(history).state = "operator_attention"
     /\ history[n - 1].state \in {"staging_tombstone_acked", "adoption_reconciled"}
  \/ Newest(history) = [state |-> "adoption_reconciled", mark |-> "operator_attention"]
  \/ LET p == First(history, "staging_tombstone_ack_pending") IN
     /\ Newest(history).state = "staging_tombstone_acked"
     /\ TombstoneOrigin(history, p) = "adopted"
     /\ history[p].mark = "quarantined"

=============================================================================

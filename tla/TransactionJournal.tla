--------------------------- MODULE TransactionJournal ---------------------------
(***************************************************************************)
(* The qualification transaction journal as a process runs it              *)
(* (TransactionJournalStore and TransactionJournalSession in               *)
(* john_lomein_persona_qualification_transaction_journal.py).              *)
(*                                                                         *)
(* One process holds the store lock. A record is committed by writing a    *)
(* temporary file, renaming it to its final name and syncing the           *)
(* directory; the process can be killed or the host lose power between     *)
(* any two of these, and each can fail. A session keeps its records in     *)
(* memory, and reserves its head for at most one operation: a lifecycle    *)
(* operation against the supervisor, the acknowledgement of a recovered    *)
(* adoption, or the evidence of a recovered verifier.                      *)
(***************************************************************************)
EXTENDS JournalRules

CONSTANTS
  Sessions, NoSession,   \* session identifiers
  Offered,               \* bound: the states the callers append
  Faults,                \* which faults happen: "kill", "power", "io"
  MaxFaults,             \* bound: how many of them
  MaxTemps,              \* MAX_STALE_TEMP_FILES
  MaxCompleted           \* MAX_COMPLETED_SESSION_DIRECTORIES

ASSUME JournalAssumption ==
  /\ NoSession \notin Sessions
  /\ Offered \subseteq JournalStates
  /\ Faults \subseteq {"kill", "power", "io"}
  /\ MaxFaults \in Nat /\ MaxTemps \in Nat /\ MaxCompleted \in Nat

RemoteOperations == {"start_scope", "await_capture_event", "request_clearance",
                     "recover_scope"}
Operations == RemoteOperations \cup {"prepare_clearance"}

\* _LIFECYCLE_OPERATION_BASE_STATES
OperationBase(o) ==
  CASE o = "start_scope" -> {"child_launch_intent"}
    [] o = "await_capture_event" -> {"child_running", "capture_ready"}
    [] o = "request_clearance" -> {"lifecycle_clearance_intent"}
    [] o = "recover_scope" ->
         EffectOrigins \cup {"lifecycle_clearance_intent", "operator_attention",
                             "lifecycle_scope_empty"}
    [] o = "prepare_clearance" -> EffectOrigins \cup {"operator_attention"}

\* _LIFECYCLE_OPERATION_SUCCESSORS_BY_BASE
OperationSuccessors(o, base) ==
  LET ahead == CASE base = "child_launch_intent" -> {"child_running"}
                 [] base = "child_running" -> {"capture_ready"}
                 [] base = "lifecycle_clearance_intent" -> {"lifecycle_scope_empty"}
                 [] OTHER -> {}
  IN  CASE o = "prepare_clearance" -> {"lifecycle_clearance_intent"}
        [] o = "start_scope" \/ base = "lifecycle_clearance_intent" ->
             ahead \cup {"operator_attention"}
        [] o = "recover_scope" /\ base = "operator_attention" ->
             {"lifecycle_clearance_intent", "lifecycle_scope_empty"}
        [] o = "recover_scope" /\ base = "lifecycle_scope_empty" -> {}
        [] OTHER -> ahead \cup {"lifecycle_clearance_intent", "operator_attention"}

\* The reservation of the head: kind is a lifecycle operation, "ack" or "verifier".
NoOperation == [kind |-> "none", at |-> "none"]
OperationType == [kind : Operations \cup {"ack", "verifier", "none"},
                  at : {"open", "dispatched", "none"}]

\* The commit in progress and the caller it belongs to.
NoCommit == [at |-> "idle", record |-> [state |-> "reserved", mark |-> "none"],
             by |-> "none"]
CommitType == [at : {"idle", "mkdir", "temp", "renamed"}, record : Record,
               by : {"none", "reserve", "append", "permit", "ack", "verifier",
                     "advance"}]

VARIABLES
  where,      \* the tier of each session directory
  files,      \* the records visible in it
  synced,     \* how many of them are durable
  temps,      \* stale temporary files in it
  reported,   \* how many records a caller was told are committed
  unsure,     \* an effect was dispatched and its outcome never learned
  up,         \* a process holds the store
  open,       \* the session it works on
  mem,        \* the records that session holds in memory
  recovery,   \* _recovery_required
  op,         \* the active operation
  commit,
  faults

diskVars == <<where, files, synced, temps>>
ghostVars == <<reported, unsure>>
procVars == <<up, open, mem, recovery, op, commit>>
journalVars == <<where, files, synced, temps, reported, unsure, up, open, mem,
                 recovery, op, commit, faults>>

JournalTypeOK ==
  /\ where \in [Sessions -> {"none", "active", "completed"}]
  /\ files \in [Sessions -> Seq(Record)]
  /\ synced \in [Sessions -> Nat]
  /\ temps \in [Sessions -> 0 .. MaxTemps + 1]
  /\ reported \in [Sessions -> Nat]
  /\ unsure \in [Sessions -> BOOLEAN]
  /\ up \in BOOLEAN /\ recovery \in BOOLEAN
  /\ open \in Sessions \cup {NoSession}
  /\ mem \in Seq(Record)
  /\ op \in OperationType
  /\ commit \in CommitType
  /\ faults \in 0 .. MaxFaults

JournalInit ==
  /\ where = [s \in Sessions |-> "none"]
  /\ files = [s \in Sessions |-> <<>>]
  /\ synced = [s \in Sessions |-> 0]
  /\ temps = [s \in Sessions |-> 0]
  /\ reported = [s \in Sessions |-> 0]
  /\ unsure = [s \in Sessions |-> FALSE]
  /\ up = FALSE /\ open = NoSession /\ mem = <<>> /\ recovery = FALSE
  /\ op = NoOperation /\ commit = NoCommit
  /\ faults = 0

-----------------------------------------------------------------------------
(* The store *)

Active == {s \in Sessions : where[s] = "active"}
Completed == {s \in Sessions : where[s] = "completed"}
Finished(s) == files[s] # <<>> /\ Newest(files[s]).state \in Terminal

\* Mutant: stale temporary files are never counted.
ReadableAlways(s) == temps[s] \in Nat

\* _scan_session of s raises on too many stale temporary files.
Readable(s) == temps[s] <= MaxTemps

\* _scan_store with _validate_completed_archive: it raises unless every
\* archived history is terminal.
StoreReadable ==
  /\ \A s \in Active : Readable(s)
  /\ \A s \in Completed : Finished(s)

\* Mutant: the sweep leaves a session without a record where it is.
CleanedKeepsEmpty(tier) ==
  /\ temps' = [s \in Sessions |-> IF s \in Active THEN 0 ELSE temps[s]]
  /\ synced' = [s \in Sessions |-> IF s \in Active /\ temps[s] > 0
                                   THEN Len(files[s]) ELSE synced[s]]
  /\ where' = tier

\* The writes of _scan_store: stale temporary files are removed, with a sync
\* of the directory they lay in, and a session without a record is removed.
Cleaned(tier) ==
  /\ temps' = [s \in Sessions |-> IF s \in Active THEN 0 ELSE temps[s]]
  /\ synced' = [s \in Sessions |-> IF s \in Active /\ temps[s] > 0
                                   THEN Len(files[s]) ELSE synced[s]]
  /\ where' = [s \in Sessions |-> IF s \in Active /\ files[s] = <<>>
                                  THEN "none" ELSE tier[s]]

\* _open_transaction_store
OpenStore ==
  /\ ~ up
  /\ StoreReadable
  /\ Cleaned(where)
  /\ up' = TRUE
  /\ UNCHANGED <<files, reported, unsure, open, mem, recovery, op, commit, faults>>

\* Mutant: a reloaded session trusts its head.
RequiresRecoveryNever(h) == h = <<>>

\* _history_requires_lifecycle_recovery
RequiresRecovery(h) ==
  LET lifecycle == EffectOrigins \cup {"lifecycle_clearance_intent"} IN
  \/ Newest(h).state \in lifecycle
  \/ Newest(h).state = "operator_attention" /\ h[Len(h) - 1].state \in lifecycle

\* load_incomplete_sessions
LoadIncomplete(s) ==
  /\ up /\ open = NoSession /\ commit.at = "idle"
  /\ StoreReadable
  /\ s \in Active /\ files[s] # <<>> /\ ~ Finished(s)
  /\ Cleaned(where)
  /\ open' = s
  /\ mem' = files[s]
  /\ recovery' = RequiresRecovery(files[s])
  /\ op' = NoOperation
  /\ UNCHANGED <<files, reported, unsure, up, commit, faults>>

\* close, of the store and its sessions.
CloseStore ==
  /\ up /\ commit.at = "idle"
  /\ up' = FALSE /\ open' = NoSession /\ mem' = <<>> /\ recovery' = FALSE
  /\ op' = NoOperation
  /\ UNCHANGED <<diskVars, ghostVars, commit, faults>>

\* reserve_session: _scan_store archives the terminal sessions and refuses
\* while one is incomplete; a full archive admits no new session.
ReserveSession(s) ==
  LET left == {t \in Active : files[t] # <<>>}
      room == Cardinality(Completed) + Cardinality(left) < MaxCompleted
  IN  /\ up /\ commit.at = "idle" /\ where[s] = "none" /\ files[s] = <<>>
      /\ StoreReadable
      /\ \A t \in left : Finished(t)
      /\ Cardinality(Completed) + Cardinality(left) <= MaxCompleted
      /\ Cleaned([t \in Sessions |-> IF t \in left THEN "completed" ELSE where[t]])
      /\ IF room
         THEN /\ open' = s /\ mem' = <<>> /\ recovery' = FALSE /\ op' = NoOperation
              /\ commit' = [NoCommit EXCEPT !.at = "mkdir", !.by = "reserve"]
         ELSE UNCHANGED <<open, mem, recovery, op, commit>>
      /\ UNCHANGED <<files, reported, unsure, up, faults>>

MakeDirectory ==
  /\ commit.at = "mkdir"
  /\ where' = [where EXCEPT ![open] = "active"]
  /\ commit' = [commit EXCEPT !.at = "temp"]
  /\ UNCHANGED <<files, synced, temps, ghostVars, up, open, mem, recovery, op,
                 faults>>

-----------------------------------------------------------------------------
(* Appending a record *)

Ready == up /\ open # NoSession /\ commit.at = "idle" /\ mem # <<>>

\* Mutant: the session trusts its memory.
FreshUnread == Readable(open)

\* The disk holds what the session holds, and can be read.
Fresh == Readable(open) /\ files[open] = mem

\* _prepare_candidate and the head of _commit_candidate.
BeginCommit(r, by) ==
  /\ r.state \in Offered
  /\ ValidHistory(Append(mem, r))
  /\ commit' = [at |-> "temp", record |-> r, by |-> by]
  /\ UNCHANGED <<diskVars, ghostVars, up, open, mem, recovery, op, faults>>

\* What _prepare_candidate takes only from a permit: the records the supervisor
\* or a local clearance authorizes, and an attention raised on one of them.
PermitOnly(r) ==
  \/ r.state \in {"child_running", "capture_ready", "lifecycle_clearance_intent",
                  "lifecycle_scope_empty"}
  \/ /\ r.state = "operator_attention"
     /\ Newest(mem).state \in EffectOrigins \cup {"lifecycle_clearance_intent"}

RecoveredOnly(r) == r.state \in Verified \cup {"staging_tombstone_acked"}
                    /\ r.mark = "recovered"

\* append_event, with begin_capture_recording and the methods of
\* CaptureTransactionRecorder that append.
AppendEvent(r) ==
  /\ Ready /\ Fresh /\ op = NoOperation /\ ~ recovery
  /\ ~ PermitOnly(r) /\ ~ RecoveredOnly(r)
  /\ BeginCommit(r, "append")

\* The exclusive rename of the temporary file to the record's name.
RenameRecord ==
  /\ commit.at = "temp"
  /\ files' = [files EXCEPT ![open] = Append(@, commit.record)]
  /\ commit' = [commit EXCEPT !.at = "renamed"]
  /\ UNCHANGED <<where, synced, temps, ghostVars, up, open, mem, recovery, op,
                 faults>>

\* Mutant: the commit is reported before the directory is synced.
CommittedUnsynced ==
  /\ synced' = synced
  /\ reported' = [reported EXCEPT ![open] = Len(files[open])]
  /\ mem' = files[open]
  /\ op' = NoOperation
  /\ recovery' = (commit.by = "permit" /\ commit.record.state = "operator_attention")
  /\ unsure' = [unsure EXCEPT ![open] = @ /\ commit.by # "permit"]
  /\ commit' = NoCommit

\* The record is durable and its caller is told so; a permit leaves the session
\* in recovery exactly when it raised an attention.
Committed ==
  /\ synced' = [synced EXCEPT ![open] = Len(files[open])]
  /\ reported' = [reported EXCEPT ![open] = Len(files[open])]
  /\ mem' = files[open]
  /\ op' = NoOperation
  /\ recovery' = IF commit.by = "permit"
                 THEN commit.record.state = "operator_attention" ELSE recovery
  /\ unsure' = [unsure EXCEPT ![open] = @ /\ commit.by # "permit"]
  /\ commit' = NoCommit

SyncDirectory ==
  /\ commit.at = "renamed"
  /\ Committed
  /\ UNCHANGED <<where, files, temps, up, open, faults>>

\* The except branches: the caller learns only that the commit failed, and the
\* session keeps the records it had. A permit always leaves it in recovery; the
\* recovered operations only when the disk is not what it was.
CommitFailed(stale) ==
  /\ reported' = reported /\ unsure' = unsure /\ mem' = mem /\ synced' = synced
  /\ open' = IF commit.by = "reserve" THEN NoSession ELSE open
  /\ op' = NoOperation
  /\ recovery' = \/ recovery
                 \/ commit.by = "permit"
                 \/ commit.by \in {"ack", "verifier", "advance"} /\ stale
  /\ commit' = NoCommit

\* A write, an fsync or the rename fails before the record has its name.
FailBeforeRename ==
  /\ "io" \in Faults /\ faults < MaxFaults /\ faults' = faults + 1
  /\ commit.at = "temp"
  /\ temps' = [temps EXCEPT ![open] = @ + 1]
  /\ CommitFailed(temps[open] + 1 > MaxTemps)
  /\ UNCHANGED <<where, files, up>>

\* The fsync of the directory fails. An operation then reads the session back,
\* finds its record and syncs once more, which can fail too.
FailToSync ==
  /\ "io" \in Faults /\ faults < MaxFaults /\ faults' = faults + 1
  /\ commit.at = "renamed"
  /\ \/ CommitFailed(TRUE)
     \/ /\ commit.by \in {"permit", "ack", "verifier", "advance"}
        /\ Readable(open)
        /\ Committed
        /\ open' = open
  /\ UNCHANGED <<where, files, temps, up>>

-----------------------------------------------------------------------------
(* Operations that reserve the head *)

\* _begin_lifecycle_operation_for_client and _begin_local_clearance_operation
BeginLifecycle(o) ==
  /\ Ready /\ op = NoOperation
  /\ recovery => o = "recover_scope"
  /\ o \in RemoteOperations => Fresh
  /\ Newest(mem).state \in OperationBase(o)
  /\ op' = [kind |-> o, at |-> "open"]
  /\ UNCHANGED <<diskVars, ghostVars, up, open, mem, recovery, commit, faults>>

\* _mark_lifecycle_operation_dispatched
Dispatch ==
  /\ Ready /\ op.kind \in RemoteOperations /\ op.at = "open"
  /\ op' = [op EXCEPT !.at = "dispatched"]
  /\ unsure' = [unsure EXCEPT ![open] = @ \/ op.kind # "recover_scope"]
  /\ UNCHANGED <<diskVars, reported, up, open, mem, recovery, commit, faults>>

\* _cancel_lifecycle_operation_before_dispatch, and the cancellation of the
\* recovered operations.
CancelOperation ==
  /\ Ready /\ op.at = "open"
  /\ op' = NoOperation
  /\ UNCHANGED <<diskVars, ghostVars, up, open, mem, recovery, commit, faults>>

\* _require_lifecycle_operation_recovery: the answer never came.
LoseOperation ==
  /\ Ready /\ op.kind \in Operations
  /\ op' = NoOperation
  /\ recovery' = TRUE
  /\ UNCHANGED <<diskVars, ghostVars, up, open, mem, commit, faults>>

\* _complete_lifecycle_operation_no_effect
CompleteNoEffect ==
  /\ Ready /\ op.at = "dispatched"
  /\ op' = NoOperation
  /\ recovery' = IF op.kind = "recover_scope"
                 THEN Newest(mem).state = "operator_attention" ELSE recovery
  /\ unsure' = [unsure EXCEPT ![open] = FALSE]
  /\ UNCHANGED <<diskVars, reported, up, open, mem, commit, faults>>

PermitReady ==
  Ready /\ (op.at = "dispatched" \/ op = [kind |-> "prepare_clearance", at |-> "open"])

\* _mint_outer_successor_permit and _commit_outer_successor_permit. Only this
\* process writes the directory and nothing else is appended meanwhile, so the
\* head is still the one the permit was minted for.
CommitPermit(r) ==
  /\ PermitReady /\ Fresh
  /\ r.state \in OperationSuccessors(op.kind, Newest(mem).state)
  /\ BeginCommit(r, "permit")

\* begin_recovered_adoption_tombstone_ack, begin_recovered_verifier_source_evidence
BeginRecovered(kind) ==
  /\ Ready /\ op = NoOperation /\ ~ recovery /\ Fresh
  /\ \/ kind = "ack" /\ Newest(mem) = [state |-> "adoption_reconciled",
                                        mark |-> "recovered_adoption"]
     \/ kind = "verifier" /\ Newest(mem) = [state |-> "staging_tombstone_acked",
                                             mark |-> "recovered"]
  /\ op' = [kind |-> kind, at |-> "open"]
  /\ UNCHANGED <<diskVars, ghostVars, up, open, mem, recovery, commit, faults>>

\* _commit_recovered_adoption_tombstone_ack, once staging has acknowledged. A
\* tombstone behind a quarantine intent is refused, and the operation stays open.
CommitAck ==
  /\ Ready /\ op.kind = "ack"
  /\ LET p == First(mem, "staging_tombstone_ack_pending") IN
     mem[Behind(mem, p)].state # "quarantine_pending"
  /\ BeginCommit([state |-> "staging_tombstone_acked", mark |-> "recovered"], "ack")

\* _commit_recovered_verifier_material
CommitVerifier ==
  /\ Ready /\ op.kind = "verifier" /\ Fresh
  /\ BeginCommit([state |-> "verifier_output_bound", mark |-> "recovered"], "verifier")

\* advance_recovered_verifier_source_evidence
AdvanceRecovered ==
  /\ Ready /\ Fresh /\ op = NoOperation /\ ~ recovery
  /\ Newest(mem).state \in {"verifier_output_bound", "live_revalidation_started"}
  /\ Newest(mem).mark = "recovered"
  /\ BeginCommit([state |-> LinearSuccessor[Newest(mem).state],
                  mark |-> "recovered"], "advance")

-----------------------------------------------------------------------------
(* Faults of the process and the host *)

Forgotten ==
  /\ up' = FALSE /\ open' = NoSession /\ mem' = <<>> /\ recovery' = FALSE
  /\ op' = NoOperation /\ commit' = NoCommit
  /\ temps' = [s \in Sessions |-> IF s = open /\ commit.at = "temp"
                                  THEN temps[s] + 1 ELSE temps[s]]
  /\ UNCHANGED <<where, ghostVars>>

\* The process dies; what it wrote stays visible.
Kill ==
  /\ "kill" \in Faults /\ faults < MaxFaults /\ faults' = faults + 1
  /\ up
  /\ Forgotten
  /\ UNCHANGED <<files, synced>>

\* The host loses power: a rename whose directory was not synced may be undone.
LosePower ==
  /\ "power" \in Faults /\ faults < MaxFaults /\ faults' = faults + 1
  /\ Forgotten
  /\ \E kept \in [Sessions -> 0 .. MaxEvents] :
       /\ \A s \in Sessions : kept[s] \in synced[s] .. Len(files[s])
       /\ files' = [s \in Sessions |-> SubSeq(files[s], 1, kept[s])]
       /\ synced' = kept

-----------------------------------------------------------------------------

JournalNext ==
  \/ OpenStore \/ CloseStore \/ MakeDirectory
  \/ \E s \in Sessions : LoadIncomplete(s) \/ ReserveSession(s)
  \/ RenameRecord \/ SyncDirectory \/ FailBeforeRename \/ FailToSync
  \/ \E r \in Record : AppendEvent(r) \/ CommitPermit(r)
  \/ \E o \in Operations : BeginLifecycle(o)
  \/ Dispatch \/ CancelOperation \/ LoseOperation \/ CompleteNoEffect
  \/ \E kind \in {"ack", "verifier"} : BeginRecovered(kind)
  \/ CommitAck \/ CommitVerifier \/ AdvanceRecovered
  \/ Kill \/ LosePower

JournalSpec == JournalInit /\ [][JournalNext]_journalVars

-----------------------------------------------------------------------------
(* Properties *)

\* At most one session directory is live, so load_incomplete_sessions restores
\* the only transaction there is: reserve_session never starts a second one
\* beside a session whose reservation half failed.
OneTransaction == Cardinality(Active) <= 1

\* A record its caller was told is committed survives every crash: it is among
\* the records that are durable.
ReportedDurable == \A s \in Sessions : reported[s] <= synced[s]

\* The session never runs ahead of the disk, and is at most one record behind:
\* the one whose commit it was told had failed.
MemoryFollowsDisk ==
  open # NoSession /\ mem # <<>> =>
    \/ files[open] = mem
    \/ Len(files[open]) = Len(mem) + 1 /\ SubSeq(files[open], 1, Len(mem)) = mem

\* The session tier and the archive tier hold what _validate_completed_archive
\* asserts: an archived history is terminal, in every state the store can be
\* found in.
ArchivedTerminal == \A s \in Completed : Finished(s)

\* An effect on the supervisor whose outcome was lost is never dispatched
\* again blindly: the next dispatch is a recovery of the scope.
NoBlindRetry ==
  [][op.at = "open" /\ op'.at = "dispatched" /\ op.kind # "recover_scope"
       => ~ unsure[open]]_journalVars

History(s) == INSTANCE JournalHistory WITH history <- files[s]

\* The record files of a session change only as its history may.
HistoryStep ==
  \A s \in Sessions : files'[s] # files[s] => History(s)!HistoryNext

\* A loss of power takes the last records of a session, none of them durable.
CutShort(s) ==
  ~ up' /\ \E n \in synced[s] .. Len(files[s]) : files'[s] = SubSeq(files[s], 1, n)

\* The open journal after any kills and I/O errors: one transaction is active,
\* memory follows the disk, what was reported is durable and what is archived
\* is terminal (append_event, _commit_record, open_journal, archive).
JournalSafe ==
  /\ JournalTypeOK /\ OneTransaction /\ MemoryFollowsDisk
  /\ ReportedDurable /\ ArchivedTerminal

\* What no step may do: write again after an ambiguous write without reading
\* the directory back; or change the record files of a session other than by
\* appending to a history that stays valid, or by losing records nobody was
\* told of (_commit_candidate, _history_requires_lifecycle_recovery).
JournalSteps ==
  /\ NoBlindRetry
  /\ [][\A s \in Sessions :
          files'[s] # files[s] => History(s)!HistoryNext \/ CutShort(s)]_journalVars

=============================================================================

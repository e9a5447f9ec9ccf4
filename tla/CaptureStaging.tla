---------------------------- MODULE CaptureStaging ----------------------------
(***************************************************************************)
(* The staging leaf of one capture session                                 *)
(* (john_lomein_persona_qualification_capture_staging.py): a directory     *)
(* that a journal of intents follows from its creation to its removal, or  *)
(* into a root-only quarantine. Creation (which first reconciles what an   *)
(* earlier run left), the live lease, the acknowledgement of a terminal    *)
(* receipt by the outer journal and the operator's resolution all hold one *)
(* exclusive lock. A process may be killed between any two effects, an     *)
(* effect may raise, and a power loss takes back what was not synced.      *)
(***************************************************************************)
EXTENDS Integers, Sequences, FiniteSets

CONSTANTS
  Outers,      \* digests of records of the outer journal, named by callers
  None,
  MaxSpawns, MaxKills, MaxRaises, MaxLosses, MaxTorn      \* bounds

StagingConstants ==
  /\ \A n \in {MaxSpawns, MaxKills, MaxRaises, MaxLosses, MaxTorn} : n \in Nat
  /\ None \notin Outers

VARIABLES
  journal,   \* its directory, its events, a torn tail, the outer records it binds
  leaf,      \* its namespace, its mode, whether the capture left anything in it
  synced,    \* the directories of both as a power loss would leave them
  scope,     \* the processes of the capture
  op,        \* the operation that holds the lock
  receipts,  \* terminal receipts that were handed out
  acks,      \* acknowledgements that were returned
  faults

disk == <<journal, leaf, synced>>
answers == <<receipts, acks>>
vars == <<disk, scope, op, answers, faults>>

AckEvent == "outer_tombstone_acknowledged"
AbsenceTerminal == {"removed", "quarantine_removed", "startup_absent"}
QuarantineTerminal == {"quarantined", "startup_quarantined"}
NoOp == [kind |-> "none"]
Free == op = NoOp
Go(pc) == op' = [op EXCEPT !.pc = pc]
End == op' = NoOp
At(kind, pc) == op.kind = kind /\ op.pc = pc
Doing(pc) == ~Free /\ op.pc = pc

-----------------------------------------------------------------------------
(* What a parse of the journal yields *)

Log == journal.log
Last == IF Log = <<>> THEN "" ELSE Log[Len(Log)]
Recorded(e) == \E i \in DOMAIN Log : Log[i] = e
IdentityKnown == \E i \in DOMAIN Log : Log[i] \notin {"create_intent", "startup_absent", AckEvent}
Acked == Recorded(AckEvent)

\* _terminal_state_from_journal: the prefix before an acknowledgement.
TerminalLength ==
  IF Acked THEN (CHOOSE i \in DOMAIN Log : Log[i] = AckEvent) - 1 ELSE Len(Log)
TerminalEvent == IF TerminalLength = 0 THEN "" ELSE Log[TerminalLength]
AckedQuarantine == Acked /\ TerminalEvent \in QuarantineTerminal
AckedAbsence == Acked /\ TerminalEvent \in AbsenceTerminal

\* operator_attention_predecessor
AttentionPredecessor ==
  LET at == {i \in DOMAIN Log : Log[i] = "operator_attention"}
  IN  IF at = {} THEN "" ELSE Log[(CHOOSE i \in at : \A j \in at : j =< i) - 1]

\* _journal_lifecycle_binding
Lifecycle ==
  CASE ~Recorded("spawned") -> "not_applicable"
    [] Recorded("spawned") /\ Recorded("process_scope_dead") -> "scope_empty"
    [] OTHER -> "scope_not_proven"

Live == {"leaf_created", "staging_exposure_intent", "staging_exposed", "spawn_failed",
         "process_scope_dead"}

_JOURNAL_PREDECESSORS(e) ==
  CASE e = "create_intent" -> {""}
    [] e = "leaf_created" -> {"create_intent"}
    [] e = "staging_exposure_intent" -> {"leaf_created"}
    [] e = "staging_exposed" -> {"staging_exposure_intent"}
    [] e = "spawn_intent" -> {"staging_exposed", "spawn_failed"}
    [] e \in {"spawn_failed", "spawned"} -> {"spawn_intent"}
    [] e = "ready_bound" -> {"spawned"}
    [] e = "process_scope_dead" -> {"spawned", "ready_bound"}
    [] e = "cleanup_intent" -> {"staging_exposed", "spawn_failed", "process_scope_dead"}
    [] e = "removed" -> {"cleanup_intent"}
    [] e = "quarantine_intent" -> Live
    [] e = "quarantined" -> {"quarantine_intent"}
    [] e = "quarantine_remove_intent" -> {"quarantined"}
    [] e = "quarantine_removed" -> {"quarantine_remove_intent", "operator_attention"}
    [] e = "startup_identity_observed" -> {"create_intent"}
    [] e = "startup_quarantine_intent" ->
         Live \cup {"startup_identity_observed", "spawn_intent", "spawned", "ready_bound",
                    "cleanup_intent", "quarantine_intent", "operator_attention"}
    [] e = "startup_quarantined" ->
         {"startup_quarantine_intent", "quarantine_intent", "operator_attention"}
    [] e = "startup_absent" ->
         Live \cup {"create_intent", "spawn_intent", "cleanup_intent", "quarantine_intent",
                    "quarantine_remove_intent", "operator_resolution_intent",
                    "operator_attention"}
    [] e = "operator_attention" ->
         Live \cup {"spawn_intent", "spawned", "ready_bound", "cleanup_intent",
                    "quarantine_intent", "quarantine_remove_intent",
                    "startup_identity_observed", "startup_quarantine_intent",
                    "operator_resolution_intent"}
    [] e = AckEvent -> AbsenceTerminal \cup QuarantineTerminal
    [] e = "operator_resolution_intent" -> {AckEvent}
    [] e = "operator_removed" -> {"operator_resolution_intent"}

\* _validate_journal_event_transition
_validate_journal_event_transition(e) ==
  /\ Last \in _JOURNAL_PREDECESSORS(e)
  /\ e = AckEvent => ~Acked
  /\ e = "operator_resolution_intent" => AckedQuarantine
  /\ e = "startup_absent" /\ Last = "operator_attention" =>
       AttentionPredecessor \in
         {"cleanup_intent", "quarantine_remove_intent", "operator_resolution_intent"}
  /\ e = "quarantine_removed" /\ Last = "operator_attention" =>
       AttentionPredecessor = "quarantine_remove_intent"

-----------------------------------------------------------------------------
(* How an operation ends when something raises *)

MakingLeaf == {"shutnew", "opennew"}
MadeLeaf == {"leaf_created", "exposure_intent", "shutexpose", "expose", "exposed"}

\* The except clauses of _create_impl and of CaptureStagingLease._finish; every
\* other operation only closes its descriptors. An identity that was observed
\* is moved to quarantine, a leaf without one is revoked and removed.
Handler ==
  CASE op.kind = "create" /\ op.pc \in MadeLeaf ->
         [kind |-> "failing", pc |-> "move", live |-> TRUE, after |-> ""]
    [] op.kind = "create" /\ op.pc \in MakingLeaf ->
         [kind |-> "failing", pc |-> "revoke", live |-> TRUE, after |-> "drop"]
    [] op.kind = "lease" /\ op.pc \notin {"held", "attention"} -> [op EXCEPT !.pc = "attention"]
    [] OTHER -> NoOp
Raised == op' = Handler

\* _append_record: the whole journal is parsed, the event must follow from it,
\* the record is written and synced, or rolled back.
_append_record(e, pc) ==
  /\ UNCHANGED <<leaf, synced, scope, answers, faults>>
  /\ IF _validate_journal_event_transition(e)
     THEN /\ journal' = [journal EXCEPT !.log = Append(@, e)]
          /\ Go(pc)
     ELSE UNCHANGED journal /\ Raised

Leave == UNCHANGED <<disk, scope, answers, faults>>
Sync == synced' = [leaf |-> leaf.at, journal |-> journal.at]

StagingTypeOK ==
  /\ journal.at \in {"none", "active", "completed"} /\ journal.torn \in BOOLEAN
  /\ {journal.outer, journal.cleared} \subseteq Outers \cup {None}
  /\ leaf.at \in {"none", "recovery", "quarantine"}
  /\ leaf.mode \in {"root", "exposed", "revoked", "shut"} /\ leaf.full \in BOOLEAN
  /\ synced.leaf \in {"none", "recovery", "quarantine"}
  /\ synced.journal \in {"none", "active", "completed"}
  /\ scope \in {"none", "live", "dead"}
  /\ Acked <=> journal.outer # None
  /\ \A r \in receipts : r.last \in 1 .. Len(Log)
  /\ faults \in [kill : 0 .. MaxKills, raise : 0 .. MaxRaises,
                 loss : 0 .. MaxLosses, torn : 0 .. MaxTorn]

Init ==
  /\ journal = [at |-> "none", log |-> <<>>, torn |-> FALSE, outer |-> None, cleared |-> None]
  /\ leaf = [at |-> "none", mode |-> "root", full |-> FALSE]
  /\ synced = [leaf |-> "none", journal |-> "none"]
  /\ scope = "none" /\ op = NoOp
  /\ receipts = {} /\ acks = {}
  /\ faults = [kill |-> 0, raise |-> 0, loss |-> 0, torn |-> 0]

-----------------------------------------------------------------------------
(* Taking the lock *)

Begin(o) == Free /\ op' = o /\ Leave

CreateSession ==
  Begin([kind |-> "create", pc |-> "reconcile", live |-> FALSE, after |-> ""])
Acknowledge(r, o) == Begin([kind |-> "ack", pc |-> "open", receipt |-> r, outer |-> o])
Resolve(o) == Begin([kind |-> "resolve", pc |-> "open", outer |-> o])

\* _open_existing_journal of an active journal truncates a torn tail.
Opening == At("create", "reconcile") \/ Doing("open")
\* Mutant: the repair keeps nothing.
TruncateAll ==
  /\ Opening /\ journal.at = "active" /\ journal.torn
  /\ journal' = [journal EXCEPT !.torn = FALSE, !.log = <<>>]
  /\ UNCHANGED <<leaf, synced, scope, op, answers, faults>>
_open_existing_journal ==
  /\ Opening /\ journal.at = "active" /\ journal.torn
  /\ journal' = [journal EXCEPT !.torn = FALSE]
  /\ UNCHANGED <<leaf, synced, scope, op, answers, faults>>
Opened == Opening /\ ~journal.torn

-----------------------------------------------------------------------------
(* _reconcile_selected_session *)

Reconciling == At("create", "reconcile") /\ Opened

\* _validate_leaf: the owner and the mode are one of those the code sets last.
_validate_leaf == leaf.mode \in {"root", "exposed", "revoked"}

ReconcileNothing ==
  /\ Reconciling /\ journal.at = "none"
  /\ IF leaf.at = "none" THEN Go("journal") ELSE End
  /\ Leave

ReconcileCompleted ==
  /\ Reconciling /\ journal.at = "completed"
  /\ IF leaf.at = "none" /\ AckedAbsence /\ Last = AckEvent THEN Go("absence") ELSE End
  /\ Leave

\* A journal without its first record names no transaction.
Unintended == journal.at = "active" /\ Log = <<>>
ReconcileUnintended == Reconciling /\ Unintended /\ End /\ Leave

MayRecover ==
  /\ Last \notin AbsenceTerminal \cup QuarantineTerminal
  /\ IF IdentityKnown THEN _validate_leaf ELSE leaf.mode = "root"

ReconcileRecovery ==
  /\ Reconciling /\ journal.at = "active" /\ Log # <<>> /\ leaf.at = "recovery"
  /\ \/ ~MayRecover /\ End /\ Leave
     \/ MayRecover /\ IdentityKnown /\ Go("move") /\ Leave
     \/ MayRecover /\ ~IdentityKnown /\ _append_record("startup_identity_observed", "move")

ReconcileQuarantine ==
  /\ Reconciling /\ journal.at = "active" /\ Log # <<>> /\ leaf.at = "quarantine"
  /\ IF IdentityKnown /\ Last \notin AbsenceTerminal /\ _validate_leaf
     THEN op' = [op EXCEPT !.pc = "revoke", !.after = "quarantinesync"]
     ELSE End
  /\ Leave

QuarantineSync ==
  /\ Doing("quarantinesync") /\ Sync
  /\ Go("requarantine")
  /\ UNCHANGED <<journal, leaf, scope, answers, faults>>

\* Only a removal that was already authorised is carried out by a restart.
AuthorizedEmptyRemoval ==
  \/ Last = "quarantine_remove_intent"
  \/ Last = "operator_attention" /\ AttentionPredecessor = "quarantine_remove_intent"

Requarantine ==
  /\ Doing("requarantine")
  /\ \/ AuthorizedEmptyRemoval /\ (IF leaf.full THEN End ELSE Go("rmdir")) /\ Leave
     \/ /\ ~AuthorizedEmptyRemoval /\ Last \in QuarantineTerminal \cup {AckEvent}
        /\ Go("quarantine") /\ Leave
     \/ /\ ~AuthorizedEmptyRemoval /\ Last \notin QuarantineTerminal \cup {AckEvent}
        /\ _append_record("startup_quarantined", "quarantine")

\* The leaf is gone: what the journal says decides whether that was meant.
Gone == AbsenceTerminal \cup {AckEvent}
ReconcileAbsent ==
  /\ Reconciling /\ journal.at = "active" /\ Log # <<>> /\ leaf.at = "none"
  /\ \/ Last \in QuarantineTerminal /\ End /\ Leave
     \/ Last \in Gone /\ (IF AckedQuarantine THEN End ELSE Go("absence")) /\ Leave
     \/ Last = "quarantine_remove_intent" /\ _append_record("quarantine_removed", "absence")
     \/ /\ Last \notin QuarantineTerminal \cup Gone \cup {"quarantine_remove_intent"}
        /\ _append_record("startup_absent", "absence")

-----------------------------------------------------------------------------
(* _create_impl, once there is nothing to reconcile *)

Mode(m, pc) ==
  /\ leaf' = [leaf EXCEPT !.mode = m]
  /\ Go(pc)
  /\ UNCHANGED <<journal, synced, scope, answers, faults>>

CreateJournal ==
  /\ Doing("journal")
  /\ journal' = [journal EXCEPT !.at = "active"]
  /\ Go("create_intent")
  /\ UNCHANGED <<leaf, synced, scope, answers, faults>>
CreateIntent == Doing("create_intent") /\ _append_record("create_intent", "journalsync")
JournalSync ==
  /\ Doing("journalsync") /\ Sync /\ Go("mkdir")
  /\ UNCHANGED <<journal, leaf, scope, answers, faults>>
MakeLeaf ==
  /\ Doing("mkdir")
  /\ leaf' = [at |-> "recovery", mode |-> "root", full |-> FALSE]
  /\ Go("shutnew")
  /\ UNCHANGED <<journal, synced, scope, answers, faults>>
ShutNew == Doing("shutnew") /\ Mode("shut", "opennew")
OpenNew ==
  /\ Doing("opennew")
  /\ leaf' = [leaf EXCEPT !.mode = "root"]
  /\ Sync /\ Go("leaf_created")
  /\ UNCHANGED <<journal, scope, answers, faults>>
LeafCreated == Doing("leaf_created") /\ _append_record("leaf_created", "exposure_intent")
ExposureIntent ==
  Doing("exposure_intent") /\ _append_record("staging_exposure_intent", "shutexpose")
ShutExpose == Doing("shutexpose") /\ Mode("shut", "expose")
Expose == Doing("expose") /\ Mode("exposed", "exposed")
Exposed ==
  /\ Doing("exposed")
  /\ journal' = [journal EXCEPT !.log = Append(@, "staging_exposed")]
  /\ op' = [kind |-> "lease", pc |-> "held", live |-> TRUE, after |-> ""]
  /\ UNCHANGED <<leaf, synced, scope, answers, faults>>

\* A leaf whose identity was never observed is dropped by the failing creation.
Drop ==
  /\ Doing("drop")
  /\ leaf' = [leaf EXCEPT !.at = "none"]
  /\ synced' = [synced EXCEPT !.leaf = "none"]
  /\ End
  /\ UNCHANGED <<journal, scope, answers, faults>>

-----------------------------------------------------------------------------
(* _revoke_leaf and _move_to_quarantine, in whatever operation they run *)

RevokeShut ==
  /\ Doing("revoke")
  /\ \/ ~_validate_leaf /\ Raised /\ Leave
     \/ leaf.mode = "revoked" /\ Go(op.after) /\ Leave
     \/ leaf.mode \in {"root", "exposed"} /\ Mode("shut", "seal")
RevokeSeal == Doing("seal") /\ Mode("revoked", op.after)

\* Mutant: the intent is recorded again by the restart that finds it.
MoveIntentAgain ==
  LET e == IF op.live THEN "quarantine_intent" ELSE "startup_quarantine_intent"
  IN  Doing("move") /\ _append_record(e, "rename")
MoveIntent ==
  LET e == IF op.live THEN "quarantine_intent" ELSE "startup_quarantine_intent"
  IN  /\ Doing("move")
      /\ IF Last = e THEN Go("rename") /\ Leave ELSE _append_record(e, "rename")
Rename ==
  /\ Doing("rename")
  /\ leaf' = [leaf EXCEPT !.at = "quarantine"]
  /\ Go("movesync")
  /\ UNCHANGED <<journal, synced, scope, answers, faults>>
MoveSync ==
  /\ Doing("movesync") /\ Sync
  /\ op' = [op EXCEPT !.pc = "revoke", !.after = "moved"]
  /\ UNCHANGED <<journal, leaf, scope, answers, faults>>
Moved ==
  /\ Doing("moved")
  /\ IF op.live
     THEN _append_record("quarantined", IF leaf.full THEN "quarantine" ELSE "remove_intent")
     ELSE _append_record("startup_quarantined", "quarantine")
RemoveIntent ==
  Doing("remove_intent") /\ _append_record("quarantine_remove_intent", "rmdir")

Rmdir(pc, next) ==
  /\ Doing(pc)
  /\ IF leaf.full THEN Raised /\ UNCHANGED leaf
     ELSE leaf' = [leaf EXCEPT !.at = "none"] /\ Go(next)
  /\ UNCHANGED <<journal, synced, scope, answers, faults>>
RmSync(pc, next) ==
  /\ Doing(pc) /\ Sync /\ Go(next)
  /\ UNCHANGED <<journal, leaf, scope, answers, faults>>
QuarantineRmdir == Rmdir("rmdir", "rmsync")
QuarantineRmSync == RmSync("rmsync", "quarantine_removed")
QuarantineRemoved ==
  Doing("quarantine_removed") /\ _append_record("quarantine_removed", "absence")

-----------------------------------------------------------------------------
(* Terminal receipts *)

Receipt(d) == [disposition |-> d, last |-> TerminalLength, lifecycle |-> Lifecycle]
Hand(r) ==
  /\ receipts' = receipts \cup {r}
  /\ End /\ UNCHANGED acks

AbsenceProven == leaf.at = "none" /\ TerminalEvent \in AbsenceTerminal
QuarantineProven == leaf.at = "quarantine" /\ TerminalEvent \in QuarantineTerminal

\* Mutant: the receipt is handed out before the parents are synced.
AbsenceUnsynced ==
  /\ Doing("absence") /\ op.kind # "failing"
  /\ IF AbsenceProven THEN Hand(Receipt("absent")) ELSE Raised /\ UNCHANGED answers
  /\ UNCHANGED <<disk, scope, faults>>
_build_absence_outcome ==
  /\ Doing("absence") /\ op.kind # "failing" /\ Sync
  /\ IF AbsenceProven THEN Hand(Receipt("absent")) ELSE Raised /\ UNCHANGED answers
  /\ UNCHANGED <<journal, leaf, scope, faults>>
_build_quarantine_outcome ==
  /\ Doing("quarantine") /\ op.kind # "failing"
  /\ IF QuarantineProven THEN Hand(Receipt("quarantined")) ELSE Raised /\ UNCHANGED answers
  /\ UNCHANGED <<disk, scope, faults>>

\* The creation that fails raises its own exception and hands out no receipt.
CreateRaises == At("failing", "absence") \/ At("failing", "quarantine")
CreateFails == CreateRaises /\ End /\ Leave

-----------------------------------------------------------------------------
(* CaptureStagingLease *)

Held == At("lease", "held")
Intended == Last = "spawn_intent"
RecordSpawnIntent ==
  /\ Held /\ Last \in {"staging_exposed", "spawn_failed"}
  /\ Cardinality({i \in DOMAIN Log : Log[i] = "spawn_intent"}) < MaxSpawns
  /\ _append_record("spawn_intent", "held")
RecordSpawnFailed ==
  /\ Held /\ Intended /\ scope = "none"
  /\ _append_record("spawn_failed", "held")
RecordSpawned ==
  /\ Held /\ Intended /\ scope # "none"
  /\ _append_record("spawned", "held")
RecordReadyBound ==
  /\ Held /\ Last = "spawned"
  /\ _append_record("ready_bound", "held")
\* The supervisor issues the receipt of an empty scope for a dead one only.
MarkProcessScopeDead ==
  /\ Held /\ Last \in {"spawned", "ready_bound"} /\ scope = "dead"
  /\ _append_record("process_scope_dead", "held")
Contained == Recorded("spawned") => Recorded("process_scope_dead")
\* finish_success and finish_failure; their caller has killed and reaped what
\* it started, or it abandons the lease.
Finish ==
  /\ Held /\ Contained /\ scope # "live"
  /\ op' \in {[op EXCEPT !.pc = "cleanup"], [op EXCEPT !.pc = "move"]}
  /\ Leave
Abandon == Held /\ End /\ Leave

Cleanup ==
  /\ Doing("cleanup")
  /\ UNCHANGED <<leaf, synced, scope, answers, faults>>
  /\ IF _validate_journal_event_transition("cleanup_intent")
     THEN /\ journal' = [journal EXCEPT !.log = Append(@, "cleanup_intent")]
          /\ op' = [op EXCEPT !.pc = "revoke", !.after = "wipe"]
     ELSE UNCHANGED journal /\ Raised
Wipe == Rmdir("wipe", "wipesync")
WipeSync == RmSync("wipesync", "wiped")
Wiped == Doing("wiped") /\ _append_record("removed", "absence")
\* operator_attention, unless the journal refuses it: the lease is closed.
Attention ==
  /\ Doing("attention")
  /\ journal' = IF _validate_journal_event_transition("operator_attention")
                THEN [journal EXCEPT !.log = Append(@, "operator_attention")] ELSE journal
  /\ End
  /\ UNCHANGED <<leaf, synced, scope, answers, faults>>

-----------------------------------------------------------------------------
(* _acknowledge_terminal_impl *)

Rebuilt(r) ==
  /\ IF r.disposition = "absent" THEN AbsenceProven ELSE QuarantineProven
  /\ r = Receipt(r.disposition)
\* Mutant: a lifecycle that was never proven empty is acknowledged, too.
AckAnyLifecycle(r) ==
  /\ r.disposition = "quarantined" => journal.at = "active"
  /\ journal.at # "none" /\ Rebuilt(r)
AckAdmitted(r) ==
  /\ r.lifecycle # "scope_not_proven"
  /\ r.disposition = "quarantined" => journal.at = "active"
  /\ journal.at # "none" /\ Rebuilt(r)

AckOpen ==
  /\ At("ack", "open") /\ Opened
  /\ UNCHANGED <<leaf, synced, scope, answers, faults>>
  /\ \/ ~AckAdmitted(op.receipt) /\ End /\ UNCHANGED journal
     \/ AckAdmitted(op.receipt) /\ Acked /\ Go("bound") /\ UNCHANGED journal
     \/ /\ AckAdmitted(op.receipt) /\ ~Acked
        /\ IF journal.at = "active" /\ _validate_journal_event_transition(AckEvent)
           THEN /\ journal' = [journal EXCEPT !.log = Append(@, AckEvent), !.outer = op.outer]
                /\ Go("bound")
           ELSE End /\ UNCHANGED journal
\* Mutant: a second outer record is told what was bound to the first.
AckBoundToAny ==
  /\ Doing("bound")
  /\ Go("archive")
  /\ Leave
AckBound ==
  /\ Doing("bound")
  /\ IF journal.outer = op.outer THEN Go("archive") ELSE End
  /\ Leave
AckArchive ==
  /\ At("ack", "archive")
  /\ journal' = IF op.receipt.disposition = "absent"
                THEN [journal EXCEPT !.at = "completed"] ELSE journal
  /\ Go("acksync")
  /\ UNCHANGED <<leaf, synced, scope, answers, faults>>
AckReturn ==
  /\ Doing("acksync") /\ Sync /\ End
  /\ acks' = acks \cup {[receipt |-> op.receipt, outer |-> op.outer]}
  /\ UNCHANGED <<journal, leaf, scope, receipts, faults>>

-----------------------------------------------------------------------------
(* _resolve_quarantined_impl *)

\* Mutant: a quarantine nobody acknowledged is disposed of.
ResolvableUnacked ==
  /\ journal.at = "active" /\ leaf.at # "recovery"
  /\ Last \in QuarantineTerminal \cup {AckEvent, "operator_resolution_intent", "operator_removed"}
  /\ TerminalEvent \in QuarantineTerminal \cup {"operator_resolution_intent", "operator_removed"}
Resolvable ==
  /\ journal.at = "active" /\ leaf.at # "recovery"
  /\ AckedQuarantine
  /\ Last \in {AckEvent, "operator_resolution_intent", "operator_removed"}
Clears == journal.cleared \in {None, op.outer}
Resealable ==
  leaf.mode = "revoked" \/ (leaf.mode = "root" /\ Last = "operator_resolution_intent")

ResolveCompleted ==
  /\ At("resolve", "open") /\ Opened /\ journal.at = "completed"
  /\ End
  /\ IF leaf.at = "none" /\ Last = "operator_removed" /\ Clears THEN Sync ELSE UNCHANGED synced
  /\ UNCHANGED <<journal, leaf, scope, answers, faults>>
ResolveRefused ==
  /\ At("resolve", "open") /\ Opened /\ journal.at # "completed"
  /\ \/ ~Resolvable \/ ~Clears
     \/ leaf.at = "quarantine" /\ (Last = "operator_removed" \/ ~Resealable)
     \/ leaf.at = "none" /\ Last = AckEvent
  /\ End /\ Leave
ResolveQuarantined ==
  /\ At("resolve", "open") /\ Opened /\ Resolvable /\ Clears /\ leaf.at = "quarantine"
  /\ Last # "operator_removed" /\ Resealable
  /\ leaf' = [leaf EXCEPT !.mode = "revoked"]
  /\ journal' = IF Last = "operator_resolution_intent" THEN journal
                ELSE [journal EXCEPT !.log = Append(@, "operator_resolution_intent"),
                                     !.cleared = op.outer]
  /\ Go("openup")
  /\ UNCHANGED <<synced, scope, answers, faults>>
ResolveAbsent ==
  /\ At("resolve", "open") /\ Opened /\ Resolvable /\ Clears /\ leaf.at = "none"
  /\ Last # AckEvent
  /\ Go("gonesync") /\ Leave
\* _remove_quarantined_contents
OpenUp == Doing("openup") /\ Mode("root", "empty")
Empty ==
  /\ Doing("empty")
  /\ leaf' = [leaf EXCEPT !.full = FALSE]
  /\ Go("oprmdir")
  /\ UNCHANGED <<journal, synced, scope, answers, faults>>
ResolveRmdir == Rmdir("oprmdir", "gonesync")
ResolveSync == RmSync("gonesync", "operator_removed")
ResolveRemoved ==
  /\ Doing("operator_removed")
  /\ IF Last = "operator_removed" THEN Go("oparchive") /\ Leave
     ELSE _append_record("operator_removed", "oparchive")
ResolveArchive ==
  /\ Doing("oparchive")
  /\ journal' = [journal EXCEPT !.at = "completed"]
  /\ Go("archivesync")
  /\ UNCHANGED <<leaf, synced, scope, answers, faults>>
ResolveReturn ==
  /\ Doing("archivesync") /\ Sync /\ End
  /\ UNCHANGED <<journal, leaf, scope, answers, faults>>

-----------------------------------------------------------------------------
(* The capture itself, and what goes wrong *)

SpawnChild ==
  /\ Held /\ Intended /\ scope = "none" /\ scope' = "live"
  /\ UNCHANGED <<disk, op, answers, faults>>
ChildWrites ==
  /\ scope = "live" /\ leaf.mode = "exposed" /\ leaf.at # "none"
  /\ leaf' = [leaf EXCEPT !.full = TRUE]
  /\ UNCHANGED <<journal, synced, scope, op, answers, faults>>
ChildExits ==
  /\ scope = "live" /\ scope' = "dead"
  /\ UNCHANGED <<disk, op, answers, faults>>
\* The adopter takes the captured object out of the leaf.
Adopt ==
  /\ Held /\ Recorded("process_scope_dead")
  /\ leaf' = [leaf EXCEPT !.full = FALSE]
  /\ UNCHANGED <<journal, synced, scope, op, answers, faults>>

Raise ==
  /\ ~Free /\ faults.raise < MaxRaises /\ ~(op.kind = "lease" /\ op.pc = "held")
  /\ faults' = [faults EXCEPT !.raise = @ + 1]
  /\ Raised
  /\ UNCHANGED <<disk, scope, answers>>

\* The steps that write a record may be cut in the middle of it.
Writing ==
  /\ journal.at = "active" /\ ~journal.torn
  /\ At("ack", "open") => AckAdmitted(op.receipt) /\ ~Acked
  /\ At("resolve", "open") => Resolvable /\ Last = AckEvent
  /\ At("create", "reconcile") => leaf.at = "none" \/ (leaf.at = "recovery" /\ ~IdentityKnown)
  /\ op.pc \notin {"journal", "journalsync", "mkdir", "shutnew", "opennew", "shutexpose",
                   "expose", "drop", "revoke", "seal", "rename", "movesync", "rmdir", "rmsync",
                   "absence", "quarantine", "wipe", "wipesync", "bound", "archive", "acksync",
                   "openup", "empty", "oprmdir", "gonesync", "oparchive", "archivesync"}
Kill ==
  /\ ~Free /\ faults.kill < MaxKills
  /\ \/ /\ faults' = [faults EXCEPT !.kill = @ + 1]
        /\ UNCHANGED journal
     \/ /\ Writing /\ faults.torn < MaxTorn
        /\ faults' = [faults EXCEPT !.kill = @ + 1, !.torn = @ + 1]
        /\ journal' = [journal EXCEPT !.torn = TRUE]
  /\ End
  /\ UNCHANGED <<leaf, synced, scope, answers>>
PowerLoss ==
  /\ faults.loss < MaxLosses
  /\ faults' = [faults EXCEPT !.loss = @ + 1]
  /\ leaf' \in {leaf, [leaf EXCEPT !.at = synced.leaf]}
  /\ \/ UNCHANGED journal
     \/ synced.journal # "none" /\ journal' = [journal EXCEPT !.at = synced.journal]
     \/ synced.journal = "none" /\ journal' = [journal EXCEPT !.at = "none", !.log = <<>>]
  /\ synced' = [leaf |-> leaf'.at, journal |-> journal'.at]
  /\ scope' = IF scope = "live" THEN "dead" ELSE scope
  /\ op' = NoOp
  /\ UNCHANGED answers

Creation ==
  \/ CreateJournal \/ CreateIntent \/ JournalSync \/ MakeLeaf \/ ShutNew \/ OpenNew
  \/ LeafCreated \/ ExposureIntent \/ ShutExpose \/ Expose \/ Exposed \/ Drop
Reconcile ==
  \/ ReconcileNothing \/ ReconcileCompleted \/ ReconcileUnintended \/ ReconcileRecovery
  \/ ReconcileQuarantine \/ QuarantineSync \/ Requarantine \/ ReconcileAbsent
Moving ==
  \/ RevokeShut \/ RevokeSeal \/ MoveIntent \/ Rename \/ MoveSync \/ Moved \/ RemoveIntent
  \/ QuarantineRmdir \/ QuarantineRmSync \/ QuarantineRemoved
  \/ _build_absence_outcome \/ _build_quarantine_outcome \/ CreateFails
Lease ==
  \/ RecordSpawnIntent \/ RecordSpawnFailed \/ RecordSpawned \/ RecordReadyBound
  \/ MarkProcessScopeDead \/ Finish \/ Abandon \/ Cleanup \/ Wipe \/ WipeSync \/ Wiped
  \/ Attention
Acknowledging == AckOpen \/ AckBound \/ AckArchive \/ AckReturn
Resolving ==
  \/ ResolveCompleted \/ ResolveRefused \/ ResolveQuarantined \/ ResolveAbsent \/ OpenUp
  \/ Empty \/ ResolveRmdir \/ ResolveSync \/ ResolveRemoved \/ ResolveArchive \/ ResolveReturn
Step == _open_existing_journal \/ Creation \/ Reconcile \/ Moving \/ Acknowledging \/ Resolving
Capture == SpawnChild \/ ChildWrites \/ ChildExits \/ Adopt

Next ==
  \/ CreateSession
  \/ \E o \in Outers : Resolve(o) \/ \E r \in receipts : Acknowledge(r, o)
  \/ Step \/ Lease \/ Capture
  \/ Raise \/ Kill \/ PowerLoss

Spec == Init /\ [][Next]_vars
Finishing == Cleanup \/ Wipe \/ WipeSync \/ Wiped \/ Attention

-----------------------------------------------------------------------------
(* Properties *)

\* What a terminal receipt says stays true whatever is killed or lost after it
\* was handed out: a leaf said to be absent never comes back, and one said to
\* be quarantined is sealed there until an acknowledged resolution began
\* (_build_absence_outcome, _build_quarantine_outcome, _resolve_quarantined_impl).
ReceiptTrue ==
  \A r \in receipts :
    /\ r.disposition = "absent" => leaf.at = "none" /\ synced.leaf = "none"
    /\ r.disposition = "quarantined" =>
         \/ leaf.at = "quarantine" /\ synced.leaf = "quarantine" /\ leaf.mode = "revoked"
         \/ Recorded("operator_resolution_intent")

\* The session has one terminal truth: whatever is acknowledged, however often
\* it is retried, is one receipt bound to one outer record, and the journal
\* that says so is on disk for good (_acknowledge_terminal_impl).
OneAcknowledgement ==
  /\ Cardinality(acks) =< 1
  /\ \A a \in acks : /\ synced.journal # "none" /\ Acked
                     /\ journal.outer = a.outer /\ a.receipt.last = TerminalLength

\* What a capture left behind is destroyed only by the adopter of a live lease
\* or by a resolution that the outer journal acknowledged
\* (_remove_quarantined_contents; every other removal wants an empty leaf).
EvidenceKept ==
  [][leaf.full /\ ~(leaf'.full /\ leaf'.at # "none") =>
       (Held /\ Recorded("process_scope_dead")) \/ AckedQuarantine]_vars

\* An acknowledgement closes the session for the outer journal, so it is never
\* given while a process that the journal knows of may be running
\* (_journal_lifecycle_binding, _acknowledge_terminal_impl).
AcknowledgedContained == acks # {} /\ Recorded("spawned") => scope = "dead"

\* The reconciliation accepts the leaf of an interrupted session.
Accepted ==
  /\ journal.at = "active" /\ Log # <<>> /\ ~Acked
  /\ leaf.at = "recovery" => MayRecover
  /\ leaf.at = "quarantine" => _validate_leaf

=============================================================================

---------------------------- MODULE LifecycleScope ----------------------------
(***************************************************************************)
(* One supervised capture scope, end to end: the coordinator, which drives *)
(* the root lifecycle supervisor through the client                        *)
(* (john_lomein_persona_qualification_lifecycle_supervisor_client.py) and  *)
(* follows it in its own journal; the connection, which may lose or delay  *)
(* a request; the supervisor's ledger; and the processes of the scope. The *)
(* daemon that serves requests with the ledger is not part of the          *)
(* repository: it is modelled from the ledger's operations and from what   *)
(* the protocol accepts as an answer.                                      *)
(*                                                                         *)
(* The ledger                                                              *)
(* (john_lomein_persona_qualification_lifecycle_supervisor.py) and the     *)
(* receipt grammar it must satisfy (..._lifecycle_receipts.py) are         *)
(* operators on the sequence of records of one scope incarnation. The      *)
(* digest of a record is its position: the chain is append-only and the    *)
(* records are immutable.                                                  *)
(***************************************************************************)
EXTENDS Naturals, Sequences, TLC

CONSTANTS
  MaxMishaps,    \* calls that time out, evidence that does not match
  MaxCrashes, MaxRestarts, MaxReboots

ASSUME ScopeAssumption ==
  \A n \in {MaxMishaps, MaxCrashes, MaxRestarts, MaxReboots} : n \in Nat

Providers == {"direct_waitid_deny_fork", "cgroup"}
Direct == "direct_waitid_deny_fork"
EffectOrigins == {"child_launch_intent", "child_running", "capture_ready"}
Modes == {"wait_clean_then_terminate_on_deadline", "terminate_and_clear"}
Wait == "wait_clean_then_terminate_on_deadline"

\* PROVIDER_OBSERVATION_KINDS; stderr is kept only as empty (0) or not (1).
Kinds == {"clean_exit", "abnormal_exit", "forced_scope_empty", "scope_absent",
          "scope_empty_unobserved"}
StderrKinds == {"clean_exit", "abnormal_exit", "forced_scope_empty"}
NoStderr == 2

\* _normalize_observation: stderr belongs to the kinds that observed an exit.
Observation(kind, stderr, boot, epoch) ==
  [kind |-> kind, stderr |-> IF kind \in StderrKinds THEN stderr ELSE NoStderr,
   boot |-> boot, epoch |-> epoch]

-----------------------------------------------------------------------------
(* The chain *)

_allowed_transition(previous, next) ==
  CASE previous = "" -> next = "start_intent"
    [] previous = "start_intent" -> next \in {"scope_started", "clearance_intent"}
    [] previous = "scope_started" -> next \in {"capture_event", "clearance_intent"}
    [] previous = "capture_event" -> next = "clearance_intent"
    [] previous = "clearance_intent" ->
         next \in {"provider_observation", "operator_attention"}
    [] previous = "provider_observation" -> next = "settled_bundle"
    [] OTHER -> FALSE

LatestState(records) == IF records = <<>> THEN "" ELSE records[Len(records)].state
Has(records, state) == \E i \in DOMAIN records : records[i].state = state

\* _record_for_state: the first record of that state.
_record_for_state(records, state) ==
  records[CHOOSE i \in DOMAIN records :
            /\ records[i].state = state
            /\ \A j \in 1 .. i - 1 : records[j].state # state]

-----------------------------------------------------------------------------
(* The receipt grammar *)

\* normalize_clearance_intent_receipt
normalize_clearance_intent_receipt(r) ==
  /\ (r.origin = "child_launch_intent") = ~ r.started
  /\ r.origin # "capture_ready" => r.mode = "terminate_and_clear"

Basis(provider, disposition) ==
  CASE disposition = "never_started" -> "no_effect"
    [] disposition \in {"never_started_after_reboot", "host_reboot"} -> "reboot"
    [] OTHER -> provider

\* Mutant: any clean exit may be adopted.
EligibleOnCleanExit(disposition, origin, mode, stderr) == disposition = "clean_exit"

EligibleDisposition(disposition, origin, mode, stderr) ==
  disposition = "clean_exit" /\ origin = "capture_ready" /\ mode = Wait /\ stderr = 0

\* normalize_scope_empty_receipt: sboot and sepoch are those of the start
\* receipt and count only when the receipt names one.
normalize_scope_empty_receipt(r) ==
  /\ r.origin # "capture_ready" => r.mode = "terminate_and_clear"
  /\ r.stderr # NoStderr <=>
       r.disposition \in {"clean_exit", "abnormal_exit", "forced_termination"}
  /\ CASE r.disposition \in {"never_started", "never_started_after_reboot"} ->
            /\ r.basis = Basis(r.provider, r.disposition)
            /\ r.origin = "child_launch_intent" /\ ~ r.started
       [] r.disposition = "host_reboot" ->
            /\ r.basis = "reboot" /\ r.started
            /\ r.sboot # r.boot /\ r.sepoch # r.epoch
       [] OTHER ->
            /\ r.basis = r.provider /\ r.started /\ r.sboot = r.boot
            /\ r.provider = Direct => r.sepoch = r.epoch
            /\ r.disposition \in {"clean_exit", "abnormal_exit"} => r.sepoch = r.epoch
            /\ r.disposition = "exit_unobserved_after_restart" =>
                 r.provider # Direct /\ r.sepoch # r.epoch
  /\ r.disposition = "clean_exit" => r.stderr = 0
  /\ r.eligible = EligibleDisposition(r.disposition, r.origin, r.mode, r.stderr)

-----------------------------------------------------------------------------
(* What an observation proves *)

Attention(reason) == [outcome |-> "attention", reason |-> reason]
Empty(disposition) == [outcome |-> "empty", disposition |-> disposition]

\* The classification of _derive_scope_empty_receipt. The epoch and boot of a
\* start receipt are those of the start intent.
Disposition(records, o) ==
  LET start == records[1]
      sameBoot == start.boot = o.boot
      sameEpoch == start.epoch = o.epoch
  IN  CASE ~ Has(records, "scope_started") ->
             CASE o.kind # "scope_absent" -> Attention("reboot_observation")
               [] o.kind = "scope_absent" /\ sameBoot -> Empty("never_started")
               [] OTHER -> IF sameEpoch THEN Attention("host_epoch_incoherent")
                           ELSE Empty("never_started_after_reboot")
        [] Has(records, "scope_started") /\ ~ sameBoot ->
             CASE sameEpoch -> Attention("host_epoch_incoherent")
               [] ~ sameEpoch /\ o.kind # "scope_absent" -> Attention("reboot_observation")
               [] OTHER -> Empty("host_reboot")
        [] OTHER ->
             CASE start.provider = Direct /\ ~ sameEpoch -> Attention("direct_wait_restart")
               [] ~ (start.provider = Direct /\ ~ sameEpoch)
                    /\ o.kind \in {"clean_exit", "abnormal_exit"} ->
                    IF sameEpoch THEN Empty(o.kind) ELSE Attention("exit_epoch")
               [] ~ (start.provider = Direct /\ ~ sameEpoch)
                    /\ o.kind = "forced_scope_empty" -> Empty("forced_termination")
               [] OTHER -> IF sameEpoch THEN Attention("absence_epoch")
                           ELSE Empty("exit_unobserved_after_restart")

\* The receipt _derive_scope_empty_receipt builds for a disposition.
ScopeEmptyReceipt(records, o, disposition) ==
  LET start == records[1]
      intent == _record_for_state(records, "clearance_intent")
      started == Has(records, "scope_started")
      stderr == IF disposition \in {"clean_exit", "abnormal_exit", "forced_termination"}
                THEN o.stderr ELSE NoStderr
  IN  [provider |-> start.provider, origin |-> intent.origin, mode |-> intent.mode,
       started |-> started, sboot |-> start.boot, sepoch |-> start.epoch,
       boot |-> o.boot, epoch |-> o.epoch,
       basis |-> Basis(start.provider, disposition), disposition |-> disposition,
       stderr |-> stderr,
       eligible |-> EligibleDisposition(disposition, intent.origin, intent.mode, stderr)]

\* normalize_clearance_bundle for the start, the intent and the empty receipt of
\* one ledger; a start that the intent does not name is a deferred one.
normalize_clearance_bundle(records, empty) ==
  LET intent == _record_for_state(records, "clearance_intent") IN
  /\ normalize_clearance_intent_receipt(intent)
  /\ normalize_scope_empty_receipt(empty)
  /\ empty.origin = intent.origin /\ empty.mode = intent.mode
  /\ empty.started = Has(records, "scope_started")
  /\ ~ empty.started =>
       /\ ~ intent.started
       /\ empty.disposition \in {"never_started", "never_started_after_reboot"}
       /\ (empty.disposition = "never_started") = (records[1].boot = empty.boot)
  /\ empty.started =>
       /\ intent.started \/ intent.origin = "child_launch_intent"
       /\ empty.disposition # "never_started"
       /\ empty.sepoch = records[1].epoch /\ empty.sboot = records[1].boot

-----------------------------------------------------------------------------
(* _validate_history *)

HistoryChain(records) ==
  \A i \in DOMAIN records :
    _allowed_transition(IF i = 1 THEN "" ELSE records[i - 1].state, records[i].state)

CaptureBinding(records) ==
  Has(records, "capture_event") =>
    /\ Has(records, "scope_started")
    /\ _record_for_state(records, "capture_event").origin \in {"child_running", "capture_ready"}

\* Without a capture event the clearance comes from the launch and names no start.
ClearanceBinding(records) ==
  Has(records, "clearance_intent") =>
    LET intent == _record_for_state(records, "clearance_intent") IN
    IF Has(records, "capture_event")
    THEN intent.origin = _record_for_state(records, "capture_event").origin /\ intent.started
    ELSE intent.origin = "child_launch_intent" /\ ~ intent.started

Prefix(records, state) ==
  SubSeq(records, 1, (CHOOSE i \in DOMAIN records : records[i].state = state) - 1)

\* A recorded observation and a recorded attention are derived again.
ObservationBinding(records) ==
  /\ Has(records, "provider_observation") =>
       LET r == _record_for_state(records, "provider_observation")
           d == Disposition(Prefix(records, "provider_observation"), r.observation)
       IN  /\ d.outcome = "empty"
           /\ r.empty = ScopeEmptyReceipt(records, r.observation, d.disposition)
  /\ Has(records, "operator_attention") =>
       LET r == _record_for_state(records, "operator_attention")
       IN  Disposition(Prefix(records, "operator_attention"), r.observation)
             = Attention(r.reason)

SettledBinding(records) ==
  Has(records, "settled_bundle") =>
    normalize_clearance_bundle(records, _record_for_state(records, "provider_observation").empty)

_validate_history(records) ==
  /\ HistoryChain(records)
  /\ CaptureBinding(records) /\ ClearanceBinding(records)
  /\ ObservationBinding(records) /\ SettledBinding(records)

\* recovery_status: what is due for an incomplete session.
recovery_status(records, boot, epoch) ==
  LET start == records[1] IN
  CASE LatestState(records) = "settled_bundle" -> "complete"
    [] LatestState(records) = "operator_attention" -> "operator_attention"
    [] LatestState(records) = "provider_observation" -> "settle_bundle"
    [] LatestState(records) = "clearance_intent" ->
         IF Has(records, "scope_started") /\ start.provider = Direct
            /\ start.boot = boot /\ start.epoch # epoch
         THEN "operator_attention" ELSE "observe_provider"
    [] OTHER -> "request_clearance"

-----------------------------------------------------------------------------
(* One scope *)

VARIABLES
  host,      \* boot, supervisor epoch, whether the daemon runs
  scope,     \* the processes of the scope, how they exited, whether they ever ran
  ledger,
  handler,   \* the request the daemon works on
  inbox,     \* requests sent and not yet read
  reply,     \* the answer on its way
  outer,     \* the coordinator's journal from child_launch_intent on
  lease,     \* the reservation of its head
  recovery,  \* only recover_scope is allowed
  proofs,    \* bundles a clearance proof was minted for
  faults

disk == <<ledger, outer>>
vars == <<host, scope, ledger, handler, inbox, reply, outer, lease, recovery, proofs, faults>>

Idle == [op |-> "none"]
NoLease == [op |-> "none", at |-> "none", n |-> 0, head |-> 0]
NoReply == [n |-> 0]
Attempt == 1 + faults.mishaps + faults.crashes     \* tells calls apart
OuterHead == outer[Len(outer)].state
OuterHas(s) == \E i \in DOMAIN outer : outer[i].state = s
OuterRecord(s) == outer[CHOOSE i \in DOMAIN outer : outer[i].state = s]

\* _binding_from_records: the newest ledger head an outer record carries.
BoundHead ==
  LET bound == {i \in DOMAIN outer : outer[i].head # 0} IN
  IF bound = {} THEN 0 ELSE outer[CHOOSE i \in bound : \A j \in bound : j =< i].head

\* _effect_origin_record: the last of the origin states.
EffectOrigin ==
  LET at == {i \in DOMAIN outer : outer[i].state \in EffectOrigins}
  IN  outer[CHOOSE i \in at : \A j \in at : j =< i].state

AttentionFrom == IF OuterHead = "operator_attention" THEN outer[Len(outer) - 1].state ELSE ""

Init ==
  /\ host = [boot |-> 0, epoch |-> 0, up |-> TRUE]
  /\ \E p \in Providers : scope = [phase |-> "none", exit |-> "none", ran |-> FALSE, provider |-> p]
  /\ ledger = <<>> /\ handler = Idle /\ inbox = {} /\ reply = NoReply
  /\ outer = <<[state |-> "child_launch_intent", head |-> 0]>>
  /\ lease = NoLease /\ recovery = FALSE /\ proofs = {}
  /\ faults = [mishaps |-> 0, crashes |-> 0, restarts |-> 0, reboots |-> 0]

-----------------------------------------------------------------------------
(* The scope's processes *)

\* The launched helper signals READY.
SignalReady ==
  /\ scope.phase = "running" /\ scope' = [scope EXCEPT !.phase = "ready"]
  /\ UNCHANGED <<host, ledger, handler, inbox, reply, outer, lease, recovery, proofs, faults>>

\* It exits: cleanly only after READY.
Exit(how) ==
  /\ scope.phase \in {"running", "ready"}
  /\ how = "clean_exit" => scope.phase = "ready"
  /\ scope' = [scope EXCEPT !.phase = "exited", !.exit = how]
  /\ UNCHANGED <<host, ledger, handler, inbox, reply, outer, lease, recovery, proofs, faults>>

-----------------------------------------------------------------------------
(* The client *)

\* _LIFECYCLE_OPERATION_BASES of the operations the client makes
OperationBase(op) ==
  CASE op = "start_scope" -> {"child_launch_intent"}
    [] op = "await_capture_event" -> {"child_running", "capture_ready"}
    [] op = "request_clearance" -> {"lifecycle_clearance_intent"}
    [] op = "recover_scope" ->
         EffectOrigins \cup {"lifecycle_clearance_intent", "lifecycle_scope_empty",
                             "operator_attention"}

ClientOperations ==
  {"start_scope", "await_capture_event", "request_clearance", "recover_scope"}

Clearance == OuterRecord("lifecycle_clearance_intent")
RequestedOrigin == IF OuterHas("lifecycle_clearance_intent") THEN Clearance.origin ELSE EffectOrigin

\* The payloads derived from the durable outer records.
Payload(op) ==
  [op |-> op, n |-> lease.n, outer |-> OuterHead, head |-> BoundHead, origin |-> RequestedOrigin,
   mode |-> IF OuterHas("lifecycle_clearance_intent") THEN Clearance.mode ELSE "",
   started |-> OuterHas("child_running")]

\* What the protocol accepts as a request. A null ledger head is 0, no mode "".
_normalize_start_scope_payload(r) == r.outer = "child_launch_intent"

_normalize_await_capture_event_payload(r) ==
  r.outer \in {"child_running", "capture_ready"} /\ r.started /\ r.head # 0

_normalize_request_clearance_payload(r) ==
  /\ (r.origin = "child_launch_intent") = ~ r.started
  /\ r.origin # "capture_ready" => r.mode = "terminate_and_clear"
  /\ r.head # 0

_normalize_recover_scope_payload(r) ==
  /\ r.outer \in EffectOrigins => r.origin = r.outer /\ r.mode = ""
  /\ r.outer \in {"lifecycle_clearance_intent", "lifecycle_scope_empty"} => r.mode \in Modes

normalize_request(r) ==
  CASE r.op = "start_scope" -> _normalize_start_scope_payload(r)
    [] r.op = "await_capture_event" -> _normalize_await_capture_event_payload(r)
    [] r.op = "request_clearance" -> _normalize_request_clearance_payload(r)
    [] OTHER -> _normalize_recover_scope_payload(r)

\* _begin_scoped_operation: the exact head is reserved before a socket is opened.
\* request_clearance needs a ledger head bound by an earlier answer, and its
\* clearance must name the start exactly when a start was accepted.
BeginOperation(op) ==
  /\ lease = NoLease
  /\ OuterHead \in OperationBase(op)
  /\ recovery => op = "recover_scope"
  /\ op \in {"await_capture_event", "request_clearance"} => BoundHead # 0
  /\ op = "request_clearance" => Clearance.started = OuterHas("child_running")
  /\ lease' = [op |-> op, at |-> "open", n |-> Attempt, head |-> 0]
  /\ UNCHANGED <<host, scope, ledger, handler, inbox, reply, outer, recovery, proofs, faults>>

\* The handshake of _exchange: an activation of another boot sends nothing and
\* asks for recovery where the launch activation must still be current.
ActivationMismatch ==
  /\ lease.at = "open" /\ host.up
  /\ lease.op \in {"start_scope", "await_capture_event"} /\ host.boot # 0
  /\ lease' = NoLease /\ recovery' = TRUE
  /\ UNCHANGED <<host, scope, ledger, handler, inbox, reply, outer, proofs, faults>>

\* Nobody answers the connection: the reservation is cancelled.
ConnectFails ==
  /\ lease.at = "open" /\ ~ host.up
  /\ lease' = NoLease
  /\ UNCHANGED <<host, scope, ledger, handler, inbox, reply, outer, recovery, proofs, faults>>

\* mark_dispatched, then the request is sent.
Dispatch ==
  /\ lease.at = "open" /\ host.up
  /\ lease.op \in {"start_scope", "await_capture_event"} => host.boot = 0
  /\ normalize_request(Payload(lease.op))
  /\ inbox' = inbox \cup {Payload(lease.op)}
  /\ lease' = [lease EXCEPT !.at = "dispatched"]
  /\ UNCHANGED <<host, scope, ledger, handler, reply, outer, recovery, proofs, faults>>

\* No answer in time, or the connection breaks: the outcome is ambiguous. The
\* request may still be read.
LoseAnswer ==
  /\ lease.at = "dispatched"
  /\ \/ faults.mishaps < MaxMishaps /\ faults' = [faults EXCEPT !.mishaps = @ + 1]
     \/ /\ reply = NoReply /\ handler = Idle /\ inbox = {}   \* the daemon died on it
        /\ faults' = faults
  /\ recovery' = TRUE /\ lease' = NoLease /\ reply' = NoReply
  /\ UNCHANGED <<host, scope, ledger, handler, inbox, outer, proofs>>

Answered == lease.at = "dispatched" /\ reply.n = lease.n
Consume == lease' = NoLease /\ reply' = NoReply
Commit(r) == outer' = Append(outer, r)

\* A response the protocol guard or the snapshot refuses: recovery is required.
Ambiguous ==
  /\ Consume /\ recovery' = TRUE /\ outer' = outer /\ proofs' = proofs

\* complete_no_effect: a recovery without effect leaves recovery unless the
\* outer record is an attention.
NoEffect ==
  /\ Consume /\ outer' = outer /\ proofs' = proofs
  /\ recovery' = IF lease.op = "recover_scope" THEN OuterHead = "operator_attention" ELSE recovery

\* The failure barrier: an operator attention is committed on the reserved head.
FailureBarrier ==
  IF OuterHead \in EffectOrigins \cup {"lifecycle_clearance_intent"}
  THEN /\ Consume /\ recovery' = TRUE /\ proofs' = proofs
       /\ Commit([state |-> "operator_attention", head |-> reply.head])
  ELSE Ambiguous

\* validate_response_for_request with _validate_error_response_for_request: an
\* answer without effect must name the head the request expected.
ReceiveError ==
  /\ Answered /\ reply.status = "error"
  /\ IF reply.outcome = "no_effect"
     THEN IF reply.head = reply.req.head THEN NoEffect ELSE Ambiguous
     ELSE FailureBarrier
  /\ UNCHANGED <<host, scope, ledger, handler, inbox, faults>>

Accept(r) == Consume /\ recovery' = FALSE /\ proofs' = proofs /\ Commit(r)
NoChange == Consume /\ recovery' = FALSE /\ outer' = outer /\ proofs' = proofs

ClearanceRecord(origin) ==
  [state |-> "lifecycle_clearance_intent", head |-> reply.head, origin |-> origin,
   started |-> origin # "child_launch_intent",
   mode |-> IF origin = "capture_ready" THEN Wait ELSE "terminate_and_clear"]

\* Mutant: the pending event forgets what it reserved.
PendingUnreserved ==
  /\ lease' = [lease EXCEPT !.at = "unreserved", !.head = reply.head]
  /\ reply' = NoReply
  /\ UNCHANGED <<outer, recovery, proofs>>

\* LifecycleSupervisorPendingCaptureEvent: the reservation stays dispatched.
Pending ==
  /\ lease' = [lease EXCEPT !.at = "pending", !.head = reply.head]
  /\ reply' = NoReply
  /\ UNCHANGED <<outer, recovery, proofs>>

\* start_scope, on success
ReceiveStarted ==
  /\ Answered /\ reply.status = "started"
  /\ Accept([state |-> "child_running", head |-> reply.head])
  /\ UNCHANGED <<host, scope, ledger, handler, inbox, faults>>

\* await_capture_event: READY stays pending until its evidence is committed, any
\* other event goes to clearance.
ReceiveEvent ==
  /\ Answered /\ reply.status = "event"
  /\ IF reply.event = "capture_ready"
     THEN /\ OuterHead = "child_running"
          /\ Pending
     ELSE Accept(ClearanceRecord(EffectOrigin))
  /\ UNCHANGED <<host, scope, ledger, handler, inbox, faults>>

\* commit_capture_ready, or the evidence does not match and recovery is required.
CommitCaptureReady ==
  /\ lease.at = "pending"
  /\ \/ /\ Accept([state |-> "capture_ready", head |-> lease.head])
        /\ faults' = faults
     \/ /\ faults.mishaps < MaxMishaps /\ faults' = [faults EXCEPT !.mishaps = @ + 1]
        /\ Consume /\ recovery' = TRUE /\ UNCHANGED <<outer, proofs>>
  /\ UNCHANGED <<host, scope, ledger, handler, inbox>>

\* _validate_clearance_bundle_against_snapshot: the bundle is of the launch, of
\* the accepted start and of the durable clearance intent.
BundleMatches(b) ==
  /\ OuterHas("lifecycle_clearance_intent")
  /\ OuterHas("child_running") => b.empty.started
  /\ b.intent.origin = Clearance.origin /\ b.intent.mode = Clearance.mode
  /\ b.intent.started = Clearance.started
  /\ OuterHas("lifecycle_scope_empty") => b = OuterRecord("lifecycle_scope_empty").bundle

Mint(b) == proofs' = proofs \cup {b}

\* request_clearance, on success: the outer record first, then the proof.
ReceiveBundle ==
  /\ Answered /\ reply.status = "bundle"
  /\ IF BundleMatches(reply.bundle)
     THEN /\ Consume /\ recovery' = FALSE /\ Mint(reply.bundle)
          /\ Commit([state |-> "lifecycle_scope_empty", head |-> reply.head,
                     bundle |-> reply.bundle])
     ELSE Ambiguous
  /\ UNCHANGED <<host, scope, ledger, handler, inbox, faults>>

\* The shape a recovery answer must have for the state it reports.
_normalize_recover_scope_result(r) ==
  /\ (r.state = "capture_event") = (r.event # "")
  /\ r.state = "start_intent" => ~ r.started
  /\ r.state \in {"scope_started", "capture_event"} => r.started
  /\ r.state = "settled_bundle" => r.bundle.intent.origin = r.origin

\* _validate_recovery_result_against_snapshot and the recovery clauses of
\* _validate_success_result_for_request
RecoveryMatches ==
  /\ _normalize_recover_scope_result(reply)
  /\ reply.origin = reply.req.origin
  /\ OuterHas("child_running") => reply.started
  /\ OuterHas("lifecycle_scope_empty") => reply.state = "settled_bundle"
  /\ reply.state = "settled_bundle" => BundleMatches(reply.bundle)

AcceptSettled ==
  /\ Consume /\ recovery' = FALSE /\ Mint(reply.bundle)
  /\ Commit([state |-> "lifecycle_scope_empty", head |-> reply.head, bundle |-> reply.bundle])

\* Mutant: a recovered scope that started is not adopted by the outer journal.
RecoveryForgetsStart ==
  CASE reply.state = "scope_started" /\ OuterHead = "child_launch_intent" ->
         Accept(ClearanceRecord("child_running"))
    [] OTHER -> NoChange

\* recover_scope, once the answer agrees with the journal
RecoverySuccessor ==
  CASE AttentionFrom \in EffectOrigins -> Accept(ClearanceRecord(AttentionFrom))
    [] AttentionFrom = "lifecycle_clearance_intent" /\ reply.state = "settled_bundle" ->
         AcceptSettled
    [] OuterHead = "operator_attention"
         /\ ~ (AttentionFrom \in EffectOrigins)
         /\ ~ (AttentionFrom = "lifecycle_clearance_intent" /\ reply.state = "settled_bundle") ->
         Ambiguous
    [] reply.state = "scope_started" /\ OuterHead = "child_launch_intent" ->
         Accept([state |-> "child_running", head |-> reply.head])
    [] reply.state = "capture_event" /\ reply.event = "capture_ready" ->
         CASE OuterHead = "child_running" ->
                Pending
           [] OuterHead = "capture_ready" /\ reply.head = outer[Len(outer)].head -> NoChange
           [] OTHER -> Ambiguous
    [] /\ reply.state = "capture_event" /\ reply.event # "capture_ready"
       /\ OuterHead \in {"child_running", "capture_ready"} -> Accept(ClearanceRecord(EffectOrigin))
    [] reply.state = "settled_bundle" /\ OuterHead = "lifecycle_clearance_intent" -> AcceptSettled
    [] reply.state = "settled_bundle" /\ OuterHead = "lifecycle_scope_empty" ->
         /\ Consume /\ recovery' = FALSE /\ outer' = outer /\ Mint(reply.bundle)
    [] reply.state = "start_intent" /\ OuterHead = "child_launch_intent" ->
         Accept(ClearanceRecord("child_launch_intent"))
    [] \/ reply.state = "scope_started" /\ OuterHead = "child_running"
       \/ /\ reply.state \in {"clearance_intent", "provider_observation"}
          /\ OuterHead = "lifecycle_clearance_intent" -> NoChange
    [] OTHER -> Ambiguous

ReceiveRecovery ==
  /\ Answered /\ reply.status = "recovered"
  /\ IF RecoveryMatches THEN RecoverySuccessor ELSE Ambiguous
  /\ UNCHANGED <<host, scope, ledger, handler, inbox, faults>>

\* Mutant: every clearance lets the capture finish.
PrepareClearanceWaiting ==
  /\ lease = NoLease /\ ~ recovery
  /\ OuterHead \in EffectOrigins
  /\ Commit([state |-> "lifecycle_clearance_intent", head |-> 0, origin |-> OuterHead,
             started |-> OuterHead # "child_launch_intent", mode |-> Wait])
  /\ UNCHANGED <<host, scope, ledger, handler, inbox, reply, lease, recovery, proofs, faults>>

\* The local operation of the outer journal that prepares a clearance without
\* the supervisor.
PrepareClearance ==
  /\ lease = NoLease /\ ~ recovery
  /\ OuterHead \in EffectOrigins
  /\ Commit([state |-> "lifecycle_clearance_intent", head |-> 0, origin |-> OuterHead,
             started |-> OuterHead # "child_launch_intent",
             mode |-> IF OuterHead = "capture_ready" THEN Wait ELSE "terminate_and_clear"])
  /\ UNCHANGED <<host, scope, ledger, handler, inbox, reply, lease, recovery, proofs, faults>>

\* load_incomplete_sessions: a journal that stops inside the lifecycle is loaded
\* in recovery.
RequiresRecovery ==
  LET within == EffectOrigins \cup {"lifecycle_clearance_intent"}
  IN  OuterHead \in within \/ AttentionFrom \in within

\* The coordinator dies and is started again: only the journal survives.
ClientCrash ==
  /\ faults.crashes < MaxCrashes /\ faults' = [faults EXCEPT !.crashes = @ + 1]
  /\ lease # NoLease
  /\ lease' = NoLease /\ recovery' = RequiresRecovery /\ reply' = NoReply
  /\ UNCHANGED <<host, scope, ledger, handler, inbox, outer, proofs>>

-----------------------------------------------------------------------------
(* The daemon *)

Latest == LatestState(ledger)
Request == handler.req
RecordOf(r) == ledger' = Append(ledger, r)
Serving(op) == host.up /\ handler.op = op

\* The request reaches the daemon, perhaps after its sender gave up.
ReadRequest ==
  /\ host.up /\ handler = Idle
  /\ \E r \in inbox : inbox' = inbox \ {r} /\ handler' = [op |-> r.op, req |-> r]
  /\ UNCHANGED <<host, scope, ledger, reply, outer, lease, recovery, proofs, faults>>

\* An answer nobody waits for is lost.
Answer(a) ==
  /\ handler' = Idle
  /\ reply' = IF handler # [op |-> "resume"] /\ lease.at = "dispatched"
                 /\ lease.n = Request.n
              THEN [n |-> Request.n, req |-> Request, head |-> Len(ledger)] @@ a ELSE reply

NoEffectAnswer == Answer([status |-> "error", outcome |-> "no_effect"])
RefusalAnswer == Answer([status |-> "error", outcome |-> "attention"])

\* Mutant: a second start is taken as a new one.
_start_session_again ==
  /\ Serving("start_scope")
  /\ RecordOf([state |-> "start_intent", boot |-> host.boot, epoch |-> host.epoch,
               provider |-> scope.provider])
  /\ handler' = [handler EXCEPT !.op = "contain"]
  /\ UNCHANGED <<host, scope, inbox, reply, outer, lease, recovery, proofs, faults>>

\* _start_session: every request carries a fresh operation id, so a session that
\* exists is an idempotency conflict; the activation must be of this boot.
_start_session ==
  /\ Serving("start_scope")
  /\ CASE ledger # <<>> -> RefusalAnswer /\ UNCHANGED ledger
       [] ledger = <<>> /\ host.boot # 0 -> NoEffectAnswer /\ UNCHANGED ledger
       [] OTHER ->
            /\ RecordOf([state |-> "start_intent", boot |-> host.boot, epoch |-> host.epoch,
                         provider |-> scope.provider])
            /\ handler' = [handler EXCEPT !.op = "contain"] /\ reply' = reply
  /\ UNCHANGED <<host, scope, inbox, outer, lease, recovery, proofs, faults>>

\* The provider contains a process that waits for its release.
Contain ==
  /\ Serving("contain")
  /\ scope' = [scope EXCEPT !.phase = "contained"]
  /\ handler' = [handler EXCEPT !.op = "contained"]
  /\ UNCHANGED <<host, ledger, inbox, reply, outer, lease, recovery, proofs, faults>>

record_scope_started ==
  /\ Serving("contained")
  /\ ledger[1].boot = host.boot /\ ledger[1].epoch = host.epoch
  /\ RecordOf([state |-> "scope_started"])
  /\ handler' = [handler EXCEPT !.op = "release"]
  /\ UNCHANGED <<host, scope, inbox, reply, outer, lease, recovery, proofs, faults>>

\* Only the durable start receipt releases the process.
Release ==
  /\ Serving("release")
  /\ scope' = [scope EXCEPT !.phase = "running", !.ran = TRUE]
  /\ Answer([status |-> "started"])
  /\ UNCHANGED <<host, ledger, inbox, outer, lease, recovery, proofs, faults>>

\* READY is reported once, then only what ends the capture; a wait may time out
\* without effect. A head that moved is a conflict.
ServeAwait ==
  /\ Serving("await_capture_event")
  /\ IF Request.head # Len(ledger) \/ Latest # "scope_started"
     THEN RefusalAnswer
     ELSE \/ /\ scope.phase = "ready" /\ Request.outer = "child_running"
             /\ Answer([status |-> "event", event |-> "capture_ready"])
          \/ Answer([status |-> "event", event |-> "capture_deadline_exceeded"])
          \/ scope.phase = "exited" /\ Answer([status |-> "event", event |-> "child_exited"])
          \/ faults.mishaps < MaxMishaps /\ NoEffectAnswer
  /\ UNCHANGED <<host, scope, ledger, inbox, outer, lease, recovery, proofs, faults>>

Bundle ==
  [intent |-> _record_for_state(ledger, "clearance_intent"),
   empty |-> _record_for_state(ledger, "provider_observation").empty]

\* A recovery that names a durable clearance intent carries all that recording
\* and settling it needs.
ServesClearance ==
  /\ host.up
  /\ \/ handler.op = "request_clearance"
     \/ handler.op = "recover_scope" /\ Request.mode # ""

\* A clearance request that the durable records contradict.
ClearanceConflict ==
  \/ Latest \in {"", "operator_attention"}
  \/ Latest = "start_intent" /\ Request.origin # "child_launch_intent"
  \/ Latest = "capture_event"
       /\ _record_for_state(ledger, "capture_event").origin # Request.origin
  \/ Has(ledger, "clearance_intent")
       /\ LET i == _record_for_state(ledger, "clearance_intent")
          IN  i.origin # Request.origin \/ i.mode # Request.mode

RefuseClearance ==
  /\ Serving("request_clearance") /\ ClearanceConflict
  /\ RefusalAnswer
  /\ UNCHANGED <<host, scope, ledger, inbox, outer, lease, recovery, proofs, faults>>

\* Mutant: the event a clearance came from is recorded whatever it is.
record_capture_event_any ==
  /\ ServesClearance /\ ~ ClearanceConflict
  /\ Latest = "scope_started"
  /\ RecordOf([state |-> "capture_event", origin |-> Request.origin])
  /\ UNCHANGED <<host, scope, handler, inbox, reply, outer, lease, recovery, proofs, faults>>

\* record_capture_event binds the durable outer event just before clearance.
record_capture_event ==
  /\ ServesClearance /\ ~ ClearanceConflict
  /\ Latest = "scope_started" /\ Request.origin # "child_launch_intent"
  /\ RecordOf([state |-> "capture_event", origin |-> Request.origin])
  /\ UNCHANGED <<host, scope, handler, inbox, reply, outer, lease, recovery, proofs, faults>>

record_clearance_intent ==
  /\ ServesClearance /\ ~ ClearanceConflict
  /\ \/ Latest \in {"start_intent", "scope_started"} /\ Request.origin = "child_launch_intent"
     \/ Latest = "capture_event"
  /\ LET r == [state |-> "clearance_intent", origin |-> Request.origin,
               started |-> Has(ledger, "capture_event"), mode |-> Request.mode]
     IN  normalize_clearance_intent_receipt(r) /\ RecordOf(r)
  /\ UNCHANGED <<host, scope, handler, inbox, reply, outer, lease, recovery, proofs, faults>>

Resuming == host.up /\ handler.op = "resume"
Clearing ==
  Latest = "clearance_intent" /\ (Resuming \/ (ServesClearance /\ ~ ClearanceConflict))

\* The provider ends what still runs: at once, or at the deadline of a wait.
Terminate ==
  /\ Clearing /\ scope.phase \in {"contained", "running", "ready"}
  /\ scope' = [scope EXCEPT !.phase = "cleared", !.exit = "forced"]
  /\ UNCHANGED <<host, ledger, handler, inbox, reply, outer, lease, recovery, proofs, faults>>

\* What a truthful provider can report. An exit status is known to the epoch
\* that started the scope, a termination to the one that is asking.
Observable ==
  CASE scope.phase = "none" -> {"scope_absent"}
    [] scope.phase = "exited" ->
         IF host.epoch = ledger[1].epoch THEN {scope.exit}
         ELSE {"scope_absent", "scope_empty_unobserved"}
    [] scope.phase = "cleared" /\ scope.exit = "forced" /\ scope.ran = Has(ledger, "scope_started") ->
         {"forced_scope_empty"}
    [] scope.phase = "cleared" /\ ~ (scope.exit = "forced" /\ scope.ran = Has(ledger, "scope_started")) ->
         {"scope_absent", "forced_scope_empty"}
    [] OTHER -> {}

\* record_provider_observation: a scope-empty receipt, or a durable attention.
record_provider_observation ==
  /\ Clearing
  /\ \E kind \in Observable, stderr \in {0, 1} :
       LET o == Observation(kind, stderr, host.boot, host.epoch)
           d == Disposition(ledger, o)
       IN  /\ kind = "clean_exit" => stderr = 0
           /\ IF d.outcome = "attention"
              THEN RecordOf([state |-> "operator_attention", observation |-> o,
                             reason |-> d.reason])
              ELSE LET e == ScopeEmptyReceipt(ledger, o, d.disposition)
                   IN  /\ normalize_scope_empty_receipt(e)
                       /\ RecordOf([state |-> "provider_observation", observation |-> o,
                                    empty |-> e])
  /\ UNCHANGED <<host, scope, handler, inbox, reply, outer, lease, recovery, proofs, faults>>

record_settled_bundle ==
  /\ Resuming \/ ServesClearance
  /\ Latest = "provider_observation"
  /\ normalize_clearance_bundle(ledger, _record_for_state(ledger, "provider_observation").empty)
  /\ RecordOf([state |-> "settled_bundle"])
  /\ UNCHANGED <<host, scope, handler, inbox, reply, outer, lease, recovery, proofs, faults>>

AnswerClearance ==
  /\ Serving("request_clearance") /\ Latest = "settled_bundle" /\ ~ ClearanceConflict
  /\ Answer([status |-> "bundle", bundle |-> Bundle])
  /\ UNCHANGED <<host, scope, ledger, inbox, outer, lease, recovery, proofs, faults>>

RecoveredEvents ==
  CASE Latest = "capture_event" ->
         {IF _record_for_state(ledger, "capture_event").origin = "capture_ready"
          THEN "capture_ready" ELSE "child_exited"}
    [] Latest = "scope_started" /\ Request.outer \in {"child_running", "capture_ready"} ->
         {""} \cup (IF scope.phase = "ready" THEN {"capture_ready"} ELSE {})
             \cup (IF scope.phase = "exited" THEN {"child_exited"} ELSE {})
    [] OTHER -> {""}

\* The report of the durable state, after the clearance it asks for; an unknown
\* scope is without effect exactly when the journal never bound a head. An event
\* is reported to a journal that can take it.
ServeRecover ==
  /\ Serving("recover_scope")
  /\ \/ Request.mode = "" \/ ClearanceConflict \/ Latest = "settled_bundle"
     \/ /\ Request.outer = "lifecycle_clearance_intent" /\ Request.head # 0
        /\ Latest \in {"clearance_intent", "provider_observation"}
  /\ CASE Latest = "" ->
            Answer([status |-> "error",
                    outcome |-> IF Request.head = 0 THEN "no_effect" ELSE "attention"])
       [] Latest = "operator_attention" -> RefusalAnswer
       [] OTHER ->
            \E raw \in RecoveredEvents :
              Answer([status |-> "recovered", event |-> raw,
                      state |-> IF raw = "" THEN Latest ELSE "capture_event",
                      started |-> Has(ledger, "scope_started"),
                      origin |-> IF Has(ledger, "clearance_intent")
                                 THEN _record_for_state(ledger, "clearance_intent").origin
                                 ELSE IF Has(ledger, "capture_event")
                                 THEN _record_for_state(ledger, "capture_event").origin
                                 ELSE Request.origin,
                      bundle |-> IF Latest = "settled_bundle" THEN Bundle ELSE [intent |-> ""]])
  /\ UNCHANGED <<host, scope, ledger, inbox, outer, lease, recovery, proofs, faults>>

\* load_incomplete_sessions and recovery_status at start: what needs only the
\* provider is resumed.
Resumed == IF ledger # <<>> /\ recovery_status(ledger, host'.boot, host'.epoch)
                \in {"observe_provider", "settle_bundle"}
           THEN [op |-> "resume"] ELSE Idle

ResumeDone ==
  /\ host.up /\ handler.op = "resume" /\ Latest \in {"settled_bundle", "operator_attention"}
  /\ handler' = Idle
  /\ UNCHANGED <<host, scope, ledger, inbox, reply, outer, lease, recovery, proofs, faults>>

SupervisorDies ==
  /\ faults.restarts < MaxRestarts /\ faults' = [faults EXCEPT !.restarts = @ + 1]
  /\ host.up
  /\ host' = [host EXCEPT !.up = FALSE]
  /\ handler' = Idle /\ inbox' = {} /\ reply' = NoReply
  /\ UNCHANGED <<scope, ledger, outer, lease, recovery, proofs>>

\* open_lifecycle_supervisor_store with a fresh epoch. A process that was never
\* released may have died with the supervisor that held it.
SupervisorStarts ==
  /\ ~ host.up
  /\ host' = [host EXCEPT !.up = TRUE, !.epoch = @ + 1]
  /\ handler' = Resumed
  /\ scope' \in {scope} \cup (IF scope.phase = "contained"
                             THEN {[scope EXCEPT !.phase = "none"]} ELSE {})
  /\ UNCHANGED <<ledger, inbox, reply, outer, lease, recovery, proofs, faults>>

Reboot ==
  /\ faults.reboots < MaxReboots /\ faults' = [faults EXCEPT !.reboots = @ + 1]
  /\ host' = [boot |-> host.boot + 1, epoch |-> host.epoch + 1, up |-> TRUE]
  /\ scope' = IF scope.phase = "none" THEN scope ELSE [scope EXCEPT !.phase = "none"]
  /\ handler' = Resumed /\ inbox' = {} /\ reply' = NoReply
  /\ lease' = NoLease /\ recovery' = RequiresRecovery
  /\ UNCHANGED <<ledger, outer, proofs>>

-----------------------------------------------------------------------------

Client ==
  \/ \E op \in ClientOperations : BeginOperation(op)
  \/ ActivationMismatch \/ ConnectFails \/ Dispatch \/ LoseAnswer
  \/ ReceiveError \/ ReceiveStarted \/ ReceiveEvent \/ CommitCaptureReady
  \/ ReceiveBundle \/ ReceiveRecovery \/ PrepareClearance \/ ClientCrash

Daemon ==
  \/ ReadRequest \/ _start_session \/ Contain \/ record_scope_started \/ Release
  \/ ServeAwait \/ RefuseClearance \/ record_capture_event \/ record_clearance_intent
  \/ Terminate \/ record_provider_observation \/ record_settled_bundle \/ AnswerClearance
  \/ ServeRecover \/ ResumeDone

Processes == SignalReady \/ \E how \in {"clean_exit", "abnormal_exit"} : Exit(how)

Next == Client \/ Daemon \/ Processes \/ SupervisorDies \/ SupervisorStarts \/ Reboot

Spec == Init /\ [][Next]_vars

-----------------------------------------------------------------------------
(* Properties *)

ScopeTypeOK ==
  /\ host \in [boot : 0 .. MaxReboots, epoch : 0 .. MaxReboots + MaxRestarts, up : BOOLEAN]
  /\ scope.phase \in {"none", "contained", "running", "ready", "exited", "cleared"}
  /\ lease.at \in {"none", "open", "dispatched", "pending"}
  /\ recovery \in BOOLEAN
  /\ OuterHead \in EffectOrigins \cup {"lifecycle_clearance_intent", "lifecycle_scope_empty",
                                     "operator_attention"}

\* Once the coordinator's journal says the scope is empty, or a clearance proof
\* exists, no process of the scope runs or waits for its release, and none will:
\* not even for a start request that is read late.
EmptyMeansEmpty ==
  OuterHas("lifecycle_scope_empty") \/ proofs # {} =>
    scope.phase \in {"none", "exited", "cleared"} /\ handler.op \notin {"contain", "contained", "release"}

\* What a settled bundle says of the capture is what happened to it: a scope that
\* never started never ran, a clean exit is one, and only a capture that was
\* durably ready before it was cleared and then exited cleanly may be adopted.
ReceiptTrue ==
  Latest = "settled_bundle" =>
    LET e == Bundle.empty IN
    /\ e.disposition \in {"never_started", "never_started_after_reboot"} => ~ scope.ran
    /\ e.disposition = "clean_exit" => scope.exit = "clean_exit"
    /\ e.disposition = "forced_termination" => scope.exit = "forced"
    /\ e.eligible => scope.exit = "clean_exit" /\ OuterHas("capture_ready")

\* The coordinator's journal never runs ahead of the ledger and never disagrees
\* with it, whatever was lost between them.
JournalFollowsLedger ==
  /\ BoundHead <= Len(ledger)
  /\ OuterHas("child_running") => Has(ledger, "scope_started")
  /\ OuterHas("lifecycle_clearance_intent") =>
       /\ Clearance.started => OuterHas("child_running")
       /\ Has(ledger, "clearance_intent") =>
            LET i == _record_for_state(ledger, "clearance_intent") IN
            i.origin = Clearance.origin /\ i.mode = Clearance.mode
  /\ Has(ledger, "clearance_intent") => OuterHas("lifecycle_clearance_intent")
  /\ OuterHas("lifecycle_scope_empty") =>
       Latest = "settled_bundle" /\ OuterRecord("lifecycle_scope_empty").bundle = Bundle
  /\ proofs # {} => OuterHas("lifecycle_scope_empty")

\* Everything the store appends it accepts when it validates the history again,
\* in whatever epoch and boot it is opened.
HistoryValid == _validate_history(ledger)

\* Whatever the durable records let the coordinator begin, it can also ask: the
\* request built from them is one the protocol accepts, so a reserved head is
\* never held by an operation that cannot be sent.
WellFormedRequests == lease.at = "open" => normalize_request(Payload(lease.op))

\* A scope incarnation is executed at most once.
NeverRestarted == [][scope'.phase = "running" /\ scope.phase # "running" => ~ scope.ran]_vars
=============================================================================

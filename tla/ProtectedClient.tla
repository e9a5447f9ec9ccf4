---------------------------- MODULE ProtectedClient ----------------------------
(***************************************************************************)
(* The unprivileged client of the protected-action broker                  *)
(* (scripts/john-lomein-protected-submit.py) against the receipts the      *)
(* broker builds, signs and replays (broker/john_lomein_broker_receipts.py,*)
(* normalize_submission of john_lomein_broker_protocol.py). Runs of the    *)
(* client share one socket and one receipt file; answers are lost, runs    *)
(* and the broker are killed, the clock steps back, heads are pushed away.  *)
(* The configuration is one: bind_runtime ties the store to it for ever.   *)
(*                                                                         *)
(* What the broker decides, its budgets and its store are ProtectedBroker; *)
(* here a request is handled up to the receipts it leaves. A packet asks   *)
(* for one effect.                                                         *)
(*                                                                         *)
(* The rules for packets and receipts are written twice in the program,    *)
(* for the broker (john_lomein_broker_protocol.py, _receipts.py) and,      *)
(* without a shared line, for the client: what one of them signs the other *)
(* must accept. Times are seconds, 0 stands for none; the identities a     *)
(* receipt repeats (broker, key, repository, app) are one config.          *)
(***************************************************************************)
EXTENDS Naturals, Sequences, FiniteSets

CONSTANTS
  MaxTime,      \* bound: the last second
  Skew,         \* MAX_CLOCK_SKEW_SECONDS
  MinTtl,       \* MIN_PACKET_TTL_SECONDS
  MaxTtl,       \* MAX_PACKET_TTL_SECONDS
  MaxAge,       \* MAX_PACKET_EVIDENCE_AGE_SECONDS
  Packets,      \* identities; the request of each is Asked
  NoPacket,
  Asked,        \* [Packets -> [action, targets, draft, open, proven, seen, created, expires]]
  Runs,         \* runs of the client
  MaxLoads,     \* bound: submissions
  MaxTrouble    \* bound: pushes, kills, lost answers, steps of the clock

ClientConstants == MaxTime > 0 /\ NoPacket \notin Packets

Seconds == 0 .. MaxTime
Actions == {"mark_pr_ready", "resolve_review_thread"}
MutationStatuses ==
  {"not_attempted", "already_satisfied", "applied", "reconciled", "failed", "indeterminate"}
ReadbackStatuses == {"not_attempted", "confirmed", "not_confirmed", "indeterminate"}
Outcomes == {"succeeded", "rejected", "failed", "indeterminate"}

\* A reason code, by the prefix or the word the rules look for.
Reasons == {"readback_verified", "reconciled_readback_verified", "already_satisfied",
            "refused", "mutation", "indeterminate"}

\* The observation of a readback: which head, draft or not, which threads.
Observation == [head : {"none", "bound", "other"}, draft : {"none", "yes", "no"},
                resolved : {"none", "target", "other"}]
Nothing == [head |-> "none", draft |-> "none", resolved |-> "none"]

-----------------------------------------------------------------------------
(* The broker's rules, normalize_receipt_payload.                            *)

BrokerTargets(r) ==
  IF r.action = "mark_pr_ready" THEN r.targets = 0 ELSE r.targets = 1

BrokerMutation(r) ==
  /\ IF r.mutation \in {"not_attempted", "already_satisfied"}
     THEN r.attempted = 0 /\ ~r.operation
     ELSE r.attempted # 0
  /\ r.mutation \in {"applied", "reconciled"} => r.operation

BrokerReadback(r) ==
  /\ IF r.readback = "not_attempted"
     THEN r.observed = 0 /\ r.view = Nothing
     ELSE r.observed # 0
  /\ r.readback = "confirmed" =>
       /\ r.view.head = "bound" /\ r.view.draft # "none"
       /\ IF r.action = "mark_pr_ready"
          THEN r.view.draft = "no" /\ r.view.resolved = "none"
          ELSE r.view.resolved = "target"

BrokerTimes(r) ==
  /\ r.started <= r.completed
  /\ r.attempted # 0 => r.started <= r.attempted /\ r.attempted <= r.completed
  /\ r.observed # 0 => r.started <= r.observed /\ r.observed <= r.completed
  /\ r.attempted # 0 /\ r.observed # 0 => r.attempted <= r.observed

BrokerOutcome(r) ==
  CASE r.outcome = "succeeded" ->
         /\ r.mutation \in {"applied", "reconciled", "already_satisfied"}
         /\ r.readback = "confirmed"
         /\ r.reason = CASE r.mutation = "applied" -> "readback_verified"
                         [] r.mutation = "reconciled" -> "reconciled_readback_verified"
                         [] OTHER -> "already_satisfied"
    [] r.outcome = "rejected" ->
         r.mutation = "not_attempted" /\ r.readback = "not_attempted" /\ r.reason = "refused"
    [] r.outcome = "failed" ->
         r.mutation = "failed" /\ r.readback = "not_attempted" /\ r.reason = "mutation"
    [] OTHER ->
         /\ r.mutation \in {"applied", "reconciled", "indeterminate"}
         /\ r.readback \in {"not_confirmed", "indeterminate"}
         /\ r.reason = "indeterminate"

BrokerAccepts(r) ==
  /\ BrokerTargets(r) /\ BrokerMutation(r) /\ BrokerReadback(r)
  /\ BrokerTimes(r) /\ BrokerOutcome(r)

-----------------------------------------------------------------------------
(* The client's rules, normalize_receipt_payload of protected-submit.        *)

ClientTargets(r) ==
  /\ r.action = "mark_pr_ready" => r.targets = 0
  /\ r.action = "resolve_review_thread" => r.targets = 1

ClientMutation(r) ==
  /\ r.mutation \in {"not_attempted", "already_satisfied"} => r.attempted = 0 /\ ~r.operation
  /\ r.mutation \notin {"not_attempted", "already_satisfied"} => r.attempted # 0
  /\ r.mutation \in {"applied", "reconciled"} => r.operation

ClientReadback(r) ==
  /\ r.readback = "not_attempted" => r.observed = 0 /\ r.view = Nothing
  /\ r.readback # "not_attempted" => r.observed # 0
  /\ r.readback = "confirmed" => r.view.head = "bound" /\ r.view.draft # "none"
  /\ r.readback = "confirmed" /\ r.action = "mark_pr_ready" =>
       r.view.draft = "no" /\ r.view.resolved = "none"
  /\ r.readback = "confirmed" /\ r.action # "mark_pr_ready" => r.view.resolved = "target"

\* Mutant: a readback in the second of the attempt is taken for one before it.
ClientTimesStrict(r) ==
  /\ r.started <= r.completed
  /\ \A t \in {r.attempted, r.observed} \ {0} : t \in r.started .. r.completed
  /\ r.attempted # 0 /\ r.observed # 0 => r.attempted < r.observed

ClientTimes(r) ==
  /\ r.started <= r.completed
  /\ \A t \in {r.attempted, r.observed} \ {0} : t \in r.started .. r.completed
  /\ r.attempted # 0 /\ r.observed # 0 => r.attempted <= r.observed

Expected == [applied |-> "readback_verified", reconciled |-> "reconciled_readback_verified",
             already_satisfied |-> "already_satisfied"]

ClientOutcome(r) ==
  \/ /\ r.outcome = "succeeded" /\ r.mutation \in DOMAIN Expected
     /\ r.readback = "confirmed" /\ r.reason = Expected[r.mutation]
  \/ /\ r.outcome = "rejected" /\ r.reason = "refused"
     /\ r.mutation = "not_attempted" /\ r.readback = "not_attempted"
  \/ /\ r.outcome = "failed" /\ r.reason = "mutation"
     /\ r.mutation = "failed" /\ r.readback = "not_attempted"
  \/ /\ r.outcome = "indeterminate" /\ r.reason = "indeterminate"
     /\ r.mutation \in {"applied", "reconciled", "indeterminate"}
     /\ r.readback \in {"not_confirmed", "indeterminate"}

ClientAccepts(r) ==
  /\ ClientTargets(r) /\ ClientMutation(r) /\ ClientReadback(r)
  /\ ClientTimes(r) /\ ClientOutcome(r)

\* receipt_is_completion, _verified_receipt_is_completion
Completion(r) ==
  /\ r.outcome = "succeeded" /\ r.readback = "confirmed"
  /\ r.mutation \in {"applied", "reconciled", "already_satisfied"}

-----------------------------------------------------------------------------
(* Packets.                                                                  *)

\* _normalize_packet_request of the broker: what of a request its rules tell
\* apart. mark_pr_ready needs a draft with no open thread; resolving a thread
\* needs its thread, and no more open ones than it names.
BrokerRequest(q) ==
  /\ q.action \in Actions /\ q.proven
  /\ IF q.action = "mark_pr_ready"
     THEN q.draft /\ q.open = 0 /\ q.targets = 0
     ELSE q.targets > 0 /\ q.open >= q.targets

\* _normalize_packet_request of the client.
ClientRequest(q) ==
  \/ q.action = "mark_pr_ready" /\ q.draft /\ q.open = 0 /\ q.targets = 0 /\ q.proven
  \/ q.action = "resolve_review_thread" /\ q.targets > 0 /\ q.open >= q.targets /\ q.proven

\* verify_protected_packet, at a time.
BrokerPacket(p, now) ==
  /\ p.expires - p.created \in MinTtl .. MaxTtl
  /\ p.seen <= p.created + Skew /\ p.created <= p.seen + MaxAge
  /\ BrokerRequest(p)
  /\ p.created <= now + Skew /\ now < p.expires

\* verify_packet of the client; a receipt is checked with an expired packet too.
ClientPacket(p, now, allowExpired) ==
  /\ p.expires - p.created \in MinTtl .. MaxTtl
  /\ p.seen <= p.created + Skew /\ p.created <= p.seen + MaxAge
  /\ ClientRequest(p)
  /\ p.created <= now + Skew /\ (allowExpired \/ now < p.expires)

-----------------------------------------------------------------------------
(* The client and what it meets.                                            *)

VARIABLES
  clock,
  chain,        \* the receipts of the broker's store, in order
  pending,      \* the time of a packet's attempt that has no receipt, 0 if none
  attempts,     \* mutation_attempts
  effect,       \* packets whose requested state GitHub shows
  moved,        \* packets whose head was pushed away
  handler,      \* the request the broker is handling
  run,          \* the runs of the client
  file,         \* the receipt output, as a position of the chain; 0 if absent
  told,         \* what the client said of each packet, errors left out
  trouble, loads

clientVars == <<clock, chain, pending, attempts, effect, moved, handler, run, file,
                told, trouble, loads>>

Quiet == [run |-> {}, packet |-> NoPacket, started |-> 0, todo |-> {}, phase |-> "idle"]
Fresh == [pc |-> "idle", packet |-> NoPacket, answer |-> 0]

ReceiptsOf(p) == {i \in 1 .. Len(chain) : chain[i].packet = p}
Stored(p) == CHOOSE i \in ReceiptsOf(p) : TRUE

ClientInit ==
  /\ clock = 1 /\ chain = <<>>
  /\ pending = [p \in Packets |-> 0] /\ attempts = [p \in Packets |-> 0]
  /\ effect = {} /\ moved = {}
  /\ handler = Quiet /\ run = [c \in Runs |-> Fresh]
  /\ file = 0 /\ told = [p \in Packets |-> {}] /\ trouble = 0 /\ loads = 0

-----------------------------------------------------------------------------
(* Receipts.                                                                 *)

\* build_receipt_payload, before its checks. truth is not part of a receipt: it
\* is what GitHub showed when the receipt was built.
Built(p, outcome, reason, mutation, readback, started, attempted, view) ==
  [packet |-> p, action |-> Asked[p].action, targets |-> Asked[p].targets,
   mutation |-> mutation, attempted |-> attempted,
   operation |-> attempted # 0, readback |-> readback,
   observed |-> IF readback = "not_attempted" THEN 0 ELSE clock, view |-> view,
   outcome |-> outcome, reason |-> reason, started |-> started, completed |-> clock,
   truth |-> p \in effect /\ p \notin moved]

\* _readback_fields of the snapshot GitHub gives now.
ViewOf(p) ==
  [head |-> IF p \in moved THEN "other" ELSE "bound",
   draft |-> IF Asked[p].action = "mark_pr_ready" /\ p \in effect THEN "no" ELSE "yes",
   resolved |-> IF Asked[p].action # "mark_pr_ready" /\ p \in effect THEN "target" ELSE "none"]

\* normalize_submission, at a time: one thread of a packet at most.
Admitted(p, now) == Asked[p].targets <= 1 /\ BrokerPacket(Asked[p], now)

\* _assert_context_binding: the receipt started within the packet's authority.
WithinAuthority(p, t) == Asked[p].created <= t + Skew /\ t < Asked[p].expires

\* build_receipt_payload and sign_receipt: a receipt that fails a check is
\* not signed, and the request ends with an error.
Signable(r) ==
  BrokerAccepts(r) /\ Admitted(r.packet, r.started) /\ WithinAuthority(r.packet, r.started)

-----------------------------------------------------------------------------
(* The broker.                                                               *)

BrokerQuiet == UNCHANGED <<clock, file, told, trouble, loads, moved>>

\* The daemon answers the run it serves, if that run still waits: a signed
\* receipt, or a closed error code (0).
AnswerWith(i) ==
  /\ handler' = Quiet
  /\ run' = [c \in Runs |-> IF c \in handler.run /\ run[c].pc = "sent"
                            THEN [run[c] EXCEPT !.pc = "answered", !.answer = i] ELSE run[c]]

\* handle: a receipt of the packet is replayed, whatever the time is.
Replay(c) ==
  /\ handler.phase = "idle" /\ run[c].pc = "sent"
  /\ ReceiptsOf(run[c].packet) # {}
  /\ run' = [run EXCEPT ![c].pc = "answered",
       ![c].answer = IF Admitted(run[c].packet, Asked[run[c].packet].created)
                     THEN Stored(run[c].packet) ELSE 0]
  /\ UNCHANGED <<chain, pending, attempts, effect, handler>> /\ BrokerQuiet

Receive(c) ==
  /\ handler.phase = "idle" /\ run[c].pc = "sent"
  /\ ReceiptsOf(run[c].packet) = {}
  /\ IF Admitted(run[c].packet, Asked[run[c].packet].created)
     THEN /\ handler' = [run |-> {c}, packet |-> run[c].packet, started |-> clock,
                         todo |-> {q \in Packets : pending[q] # 0}, phase |-> "recover"]
          /\ UNCHANGED run
     ELSE /\ run' = [run EXCEPT ![c].pc = "answered", ![c].answer = 0]
          /\ UNCHANGED handler
  /\ UNCHANGED <<chain, pending, attempts, effect>> /\ BrokerQuiet

\* The receipt a recovery builds of what GitHub shows, or of nothing when
\* GitHub is out of reach.
Reconciliation(q, live) ==
  IF live /\ q \in effect /\ q \notin moved
  THEN Built(q, "succeeded", "reconciled_readback_verified", "reconciled", "confirmed",
             pending[q], pending[q], ViewOf(q))
  ELSE Built(q, "indeterminate", "indeterminate", "indeterminate", "indeterminate",
             pending[q], pending[q], IF live THEN ViewOf(q) ELSE Nothing)

\* _recover_one: the attempt is absent, and the packet of this request may try
\* it once more.
Absent(q) == q \notin effect /\ q \notin moved /\ clock < Asked[q].expires /\ attempts[q] < 2

RecoverOne(q, live) ==
  /\ handler.phase = "recover" /\ q \in handler.todo
  /\ IF live /\ Absent(q)
     THEN /\ handler' = [handler EXCEPT !.todo = @ \ {q}]
          /\ pending' = IF q = handler.packet THEN [pending EXCEPT ![q] = 0] ELSE pending
          /\ UNCHANGED <<chain, run>>
     ELSE IF Signable(Reconciliation(q, live))
     THEN /\ chain' = Append(chain, Reconciliation(q, live))
          /\ pending' = [pending EXCEPT ![q] = 0]
          /\ handler' = [handler EXCEPT !.todo = @ \ {q}]
          /\ UNCHANGED run
     ELSE /\ AnswerWith(0)
          /\ UNCHANGED <<chain, pending>>
  /\ UNCHANGED <<attempts, effect>> /\ BrokerQuiet

\* handle after recovery: the recovered receipt, an expired packet, or go on.
Recovered ==
  /\ handler.phase = "recover" /\ handler.todo = {}
  /\ IF ReceiptsOf(handler.packet) # {} THEN AnswerWith(Stored(handler.packet))
     ELSE IF Admitted(handler.packet, handler.started)
     THEN handler' = [handler EXCEPT !.phase = "decide"] /\ UNCHANGED run
     ELSE AnswerWith(0)
  /\ UNCHANGED <<chain, pending, attempts, effect>> /\ BrokerQuiet

\* Sign the receipt and answer with it, or answer with an error.
Conclude(r, settled) ==
  IF Signable(r)
  THEN /\ chain' = Append(chain, r)
       /\ pending' = [p \in Packets |-> IF p = r.packet /\ settled THEN 0 ELSE pending[p]]
       /\ AnswerWith(Len(chain) + 1)
  ELSE AnswerWith(0) /\ UNCHANGED <<chain, pending>>

\* _record_rejection, or _record_already_satisfied.
Decline ==
  /\ handler.phase = "decide"
  /\ \/ Conclude(Built(handler.packet, "rejected", "refused", "not_attempted", "not_attempted",
                       handler.started, 0, Nothing), FALSE)
     \/ /\ handler.packet \in effect /\ handler.packet \notin moved
        /\ Conclude(Built(handler.packet, "succeeded", "already_satisfied", "already_satisfied",
                          "confirmed", handler.started, 0, ViewOf(handler.packet)), FALSE)
  /\ UNCHANGED <<attempts, effect>> /\ BrokerQuiet

\* begin_mutation refuses an expired packet; then the mutation is sent, and
\* GitHub applies it or not.
Attempt ==
  /\ handler.phase = "decide"
  /\ handler.packet \notin effect \cup moved
  /\ IF clock < Asked[handler.packet].expires /\ attempts[handler.packet] < 2
     THEN /\ pending' = [pending EXCEPT ![handler.packet] = clock]
          /\ attempts' = [attempts EXCEPT ![handler.packet] = @ + 1]
          /\ effect' \in {effect, effect \cup {handler.packet}}
          /\ handler' = [handler EXCEPT !.phase = "settle"]
          /\ UNCHANGED run
     ELSE AnswerWith(0) /\ UNCHANGED <<pending, attempts, effect>>
  /\ UNCHANGED chain /\ BrokerQuiet

\* The readback confirms, or the attempt is recorded as indeterminate.
Settle ==
  /\ handler.phase = "settle"
  /\ \/ /\ handler.packet \in effect /\ handler.packet \notin moved
        /\ Conclude(Built(handler.packet, "succeeded", "readback_verified", "applied",
                          "confirmed", handler.started, pending[handler.packet],
                          ViewOf(handler.packet)), TRUE)
     \/ Conclude(Built(handler.packet, "indeterminate", "indeterminate", "indeterminate",
                       "indeterminate", handler.started, pending[handler.packet], Nothing),
                 TRUE)
  /\ UNCHANGED <<attempts, effect>> /\ BrokerQuiet

-----------------------------------------------------------------------------
(* The client.                                                               *)

ClientQuiet ==
  UNCHANGED <<clock, chain, pending, attempts, effect, moved, handler, trouble>>

\* submit_packet up to the frame on the socket: load_packet refuses an expired
\* packet.
Submit(c, p) ==
  /\ run[c].pc = "idle" /\ ClientPacket(Asked[p], clock, FALSE)
  /\ loads < MaxLoads /\ loads' = loads + 1
  /\ run' = [run EXCEPT ![c] = [Fresh EXCEPT !.pc = "sent", !.packet = p]]
  /\ UNCHANGED <<file, told>> /\ ClientQuiet

\* main, for a run that prints an error.
Blocked(c) == run' = [run EXCEPT ![c] = Fresh] /\ UNCHANGED told

Says(c, p, answer) ==
  /\ told' = [told EXCEPT ![p] = @ \cup {answer}]
  /\ run' = [run EXCEPT ![c] = Fresh]

\* Mutant: the receipt's packet is not compared with the one submitted.
VerifiesAnyPacket(r, p) ==
  /\ ClientAccepts(r)
  /\ WithinAuthority(p, r.started)
  /\ r.completed <= clock + Skew

\* verify_signed_receipt: its rules, the packet, the packet's authority.
Verifies(r, p) ==
  /\ ClientAccepts(r)
  /\ r.packet = p
  /\ WithinAuthority(p, r.started)
  /\ r.completed <= clock + Skew

\* submit_packet after exchange: an error code, or a receipt that does not
\* verify, ends the run; a verified one goes to the output.
Verify(c) ==
  /\ run[c].pc = "answered"
  /\ IF run[c].answer = 0 THEN Blocked(c)
     ELSE IF Verifies(chain[run[c].answer], run[c].packet)
     THEN run' = [run EXCEPT ![c].pc = "verified"] /\ UNCHANGED told
     ELSE Blocked(c)
  /\ UNCHANGED <<file, loads>> /\ ClientQuiet

\* persist_receipt: linked under its name if there is none, left alone if it is
\* the same; a different one ends the run.
Persist(c) ==
  /\ run[c].pc = "verified"
  /\ IF file \in {0, run[c].answer}
     THEN /\ file' = run[c].answer
          /\ run' = [run EXCEPT ![c].pc = "saved"]
          /\ UNCHANGED told
     ELSE Blocked(c) /\ UNCHANGED file
  /\ UNCHANGED loads /\ ClientQuiet

\* main: success for a completion receipt, denial for any other.
Report(c) ==
  /\ run[c].pc = "saved"
  /\ Says(c, run[c].packet,
          IF Completion(chain[run[c].answer]) THEN "complete" ELSE "denied")
  /\ UNCHANGED <<file, loads>> /\ ClientQuiet

\* verify_receipt_file: the saved receipt against a packet, expired or not.
VerifyFile(p) ==
  /\ file # 0 /\ ClientPacket(Asked[p], clock, TRUE)
  /\ Verifies(chain[file], p)
  /\ told' = [told EXCEPT ![p] = @ \cup
       {IF Completion(chain[file]) THEN "complete" ELSE "denied"}]
  /\ UNCHANGED <<run, file, loads>> /\ ClientQuiet

-----------------------------------------------------------------------------
(* The world.                                                                *)

Trouble == trouble < MaxTrouble /\ trouble' = trouble + 1

Tick ==
  /\ clock < MaxTime /\ clock' = clock + 1
  /\ UNCHANGED <<chain, pending, attempts, effect, moved, handler, run, file, told,
                 trouble, loads>>

Push(p) ==
  /\ Trouble /\ p \notin moved
  /\ moved' = moved \cup {p}
  /\ UNCHANGED <<clock, chain, pending, attempts, effect, handler, run, file, told,
                 loads>>

Fault ==
  /\ Trouble
  /\ \/ /\ handler.phase # "idle" /\ handler' = Quiet
        /\ run' = [c \in Runs |-> IF c \in handler.run /\ run[c].pc = "sent" THEN Fresh ELSE run[c]]
        /\ UNCHANGED clock
     \/ /\ \E c \in Runs :
             /\ run[c].pc # "idle" /\ run' = [run EXCEPT ![c] = Fresh]
             /\ handler' = [handler EXCEPT !.run = @ \ {c}]
        /\ UNCHANGED clock
     \/ clock > 1 /\ clock' = clock - 1 /\ UNCHANGED <<run, handler>>
  /\ UNCHANGED <<chain, pending, attempts, effect, moved, file, told, loads>>

ClientNext ==
  \/ \E c \in Runs : Replay(c) \/ Receive(c) \/ Verify(c) \/ Persist(c) \/ Report(c)
  \/ \E c \in Runs, p \in Packets : Submit(c, p)
  \/ \E q \in Packets, live \in BOOLEAN : RecoverOne(q, live)
  \/ Recovered \/ Decline \/ Attempt \/ Settle
  \/ \E p \in Packets : VerifyFile(p) \/ Push(p)
  \/ Tick \/ Fault

ClientSpec == ClientInit /\ [][ClientNext]_clientVars

-----------------------------------------------------------------------------
(* Properties *)

\* "complete" is said only of a packet whose state GitHub showed, on its head,
\* when the broker signed it, and never beside a denial: the answers of every
\* run and of the saved file come from the one receipt of the packet.
CompleteTrue ==
  \A p \in Packets :
    /\ Cardinality(ReceiptsOf(p)) <= 1
    /\ "complete" \in told[p] =>
         ReceiptsOf(p) # {} /\ chain[Stored(p)].truth /\ "denied" \notin told[p]

\* What the broker signs the client accepts: a run refuses the receipt it was
\* answered with only when the clock stepped back beyond the skew since it was
\* completed.
AcceptedByBoth ==
  \A c \in Runs : run[c].pc = "answered" /\ run[c].answer # 0 =>
    LET r == chain[run[c].answer]
    IN r.completed <= clock + Skew => Verifies(r, run[c].packet)

\* A recovery always has a receipt it can sign, also after the packet expired,
\* unless the clock stands before the attempt.
RecoverySignable ==
  \A q \in Packets : pending[q] # 0 /\ clock >= pending[q] =>
    \A live \in BOOLEAN : Signable(Reconciliation(q, live))

ClientSafe == CompleteTrue /\ AcceptedByBoth /\ RecoverySignable

=============================================================================

------------------------------ MODULE BrokerStore ------------------------------
(***************************************************************************)
(* The durable SQLite store of the protected-action broker                 *)
(* (broker/john_lomein_broker_store.py).                                   *)
(*                                                                         *)
(* Every public method of BrokerStore that writes is one BEGIN IMMEDIATE   *)
(* transaction (`_immediate`), so it is one atomic action here; the guard  *)
(* of the action is what the method demands before it writes, and a call   *)
(* that raises or replays a stored row changes nothing and is no action.   *)
(*                                                                         *)
(* The module is a specification on its own, in which any caller makes any *)
(* call with any clock reading and any attempt key, and it is the state    *)
(* that ProtectedBroker extends with the service, the daemon and GitHub.   *)
(***************************************************************************)
EXTENDS Integers, FiniteSets

CONSTANTS
  Packets,               \* signed request packets (packet_id, content bound by digest)
  NoPacket,              \* NULL in active_attempt_packet_id
  Request,               \* the content of each packet
  PRs, Heads, Threads,   \* pull requests, head commits, review threads
  Keys,                  \* attempt keys a caller can generate
  Times,                 \* clock readings, in epoch units
  Window,                \* REQUEST_WINDOW_SECONDS
  DayLength,             \* one UTC day
  RequestsPerHour, DailyMutations, ActionDailyLimit, IndeterminateLimit

Actions == {"mark_pr_ready", "resolve_review_thread"}

RequestType == [action : Actions, pr : PRs, head : Heads, thread : Threads,
                expires : Nat]

ASSUME PacketAssumption ==
  /\ Request \in [Packets -> RequestType]
  /\ NoPacket \notin Packets
  /\ IsFiniteSet(Packets)

ASSUME KeyAssumption == Keys \subseteq Nat \ {0}

ASSUME TimeAssumption ==
  /\ Times \subseteq Nat
  /\ Window \in Nat
  /\ DayLength \in Nat \ {0}

\* BudgetLimits.__post_init__
ASSUME LimitAssumption ==
  /\ RequestsPerHour \in Nat
  /\ DailyMutations \in Nat
  /\ ActionDailyLimit \in [Actions -> Nat]
  /\ IndeterminateLimit \in Nat \ {0}

NoKey == 0
Never == -1

\* _semantic_identity: the mark-ready key binds the head, the review-thread key
\* binds the thread and not the head.
EffectKey(p) ==
  LET r == Request[p]
  IN  IF r.action = "mark_pr_ready"
        THEN [action |-> r.action, pr |-> r.pr, target |-> r.head]
        ELSE [action |-> r.action, pr |-> r.pr, target |-> r.thread]

Effects == {EffectKey(p) : p \in Packets}

\* Rows of `effects`. "absent" stands for no row; `absent` is the attempt key
\* of last_reconciliation_json, the last attempt proved to have had no effect.
States == {"absent", "pending", "completed", "reconciled", "indeterminate"}
TerminalStates == {"completed", "reconciled", "indeterminate"}

EffectRow == [state : States, key : Keys \cup {NoKey},
              packet : Packets \cup {NoPacket}, attempts : Nat,
              absent : Keys \cup {NoKey}]

NoRow == [state |-> "absent", key |-> NoKey, packet |-> NoPacket,
          attempts |-> 0, absent |-> NoKey]

NewRow == [state |-> "pending", key |-> NoKey, packet |-> NoPacket,
           attempts |-> 0, absent |-> NoKey]

\* A receipt is told apart by its mutation_status. Two are written by
\* record_packet_receipt, three by terminalize.
PacketStatuses == {"not_attempted", "already_satisfied"}
AttemptStatuses == {"applied", "reconciled", "indeterminate"}
SuccessStatuses == {"applied", "reconciled", "already_satisfied"}
Statuses == PacketStatuses \cup AttemptStatuses

\* Mutant: the receipt's status is written into the effect row.
TerminalStateRaw(s) == s

TerminalState(s) ==
  IF s = "applied" THEN "completed"
  ELSE IF s = "already_satisfied" THEN "reconciled" ELSE s

\* Mutation rows of `budget_events`; its request rows are `accepted`.
Charge == [effect : Effects, key : Keys, packet : Packets, at : Times]

VARIABLES
  accepted,   \* packets.accepted_at, Never when the packet has no row
  effects,    \* the effect row of each semantic key
  charges,    \* the charged mutation attempts
  receipts,   \* the receipt of each packet, "none" when it has no row
  circuit     \* the circuit breaker of each action

storeVars == <<accepted, effects, charges, receipts, circuit>>

StoreTypeOK ==
  /\ accepted \in [Packets -> Times \cup {Never}]
  /\ effects \in [Effects -> EffectRow]
  /\ charges \in SUBSET Charge
  /\ receipts \in [Packets -> Statuses \cup {"none"}]
  /\ circuit \in [Actions -> [open : BOOLEAN, count : Nat]]

StoreInit ==
  /\ accepted = [p \in Packets |-> Never]
  /\ effects = [e \in Effects |-> NoRow]
  /\ charges = {}
  /\ receipts = [p \in Packets |-> "none"]
  /\ circuit = [a \in Actions |-> [open |-> FALSE, count |-> 0]]

-----------------------------------------------------------------------------
(* Budgets and circuits *)

Day(t) == t \div DayLength

ChargesOf(e) == {c \in charges : c.effect = e}
ChargesOn(d) == {c \in charges : Day(c.at) = d}
ActionChargesOn(a, d) == {c \in charges : c.effect.action = a /\ Day(c.at) = d}

\* _request_budget counts the acceptances after the cutoff.
RequestsInWindow(t) ==
  {q \in Packets : accepted[q] # Never /\ accepted[q] > t - Window}

\* Mutant: the budget is compared one too late.
RequestBudgetOffByOne(t) ==
  Cardinality(RequestsInWindow(t)) <= RequestsPerHour

RequestBudgetLeft(t) ==
  Cardinality(RequestsInWindow(t)) < RequestsPerHour

\* Mutant: the same comparison, off by one.
MutationBudgetOffByOne(a, t) ==
  /\ Cardinality(ChargesOn(Day(t))) <= DailyMutations
  /\ Cardinality(ActionChargesOn(a, Day(t))) <= ActionDailyLimit[a]

MutationBudgetLeft(a, t) ==
  /\ Cardinality(ChargesOn(Day(t))) < DailyMutations
  /\ Cardinality(ActionChargesOn(a, Day(t))) < ActionDailyLimit[a]

CircuitClosed(a) == ~ circuit[a].open

\* Mutant: the circuit opens one indeterminate outcome too late.
CircuitAfterLate(a, state) ==
  LET count == circuit[a].count + 1
  IN  IF state = "indeterminate"
        THEN [open |-> count > IndeterminateLimit, count |-> count]
        ELSE [open |-> FALSE, count |-> 0]

\* _record_terminal_circuit: any other outcome resets the circuit and closes it.
CircuitAfter(a, state) ==
  LET count == circuit[a].count + 1
  IN  IF state = "indeterminate"
        THEN [open |-> count >= IndeterminateLimit, count |-> count]
        ELSE [open |-> FALSE, count |-> 0]

-----------------------------------------------------------------------------
(* Transactions *)

Fresh(p, t) == t < Request[p].expires

\* reserve: only a new packet spends request budget, and only a new packet or
\* a new effect needs a closed circuit.
CanReserve(p, t) ==
  LET e == EffectKey(p) IN
  /\ Fresh(p, t)
  /\ accepted[p] = Never => RequestBudgetLeft(t)
  /\ (accepted[p] = Never \/ effects[e].state = "absent")
       => CircuitClosed(e.action)

Reserve(p, t) ==
  LET e == EffectKey(p) IN
  /\ CanReserve(p, t)
  /\ accepted' = [accepted EXCEPT ![p] = IF @ = Never THEN t ELSE @]
  /\ effects' = [effects EXCEPT
       ![e] = IF @.state = "absent" THEN NewRow ELSE @]
  /\ UNCHANGED <<charges, receipts, circuit>>

\* Mutant: an open attempt does not block the next one.
MayAttemptBlind(p, k, t) ==
  LET e == EffectKey(p) IN
  /\ accepted[p] # Never /\ receipts[p] = "none" /\ Fresh(p, t)
  /\ effects[e].state = "pending" /\ effects[e].attempts < 2
  /\ \A c \in ChargesOf(e) : c.key # k

\* Mutant: the attempt key of an earlier attempt is accepted again.
MayAttemptReusesKey(p, k, t) ==
  LET e == EffectKey(p) IN
  /\ accepted[p] # Never /\ receipts[p] = "none" /\ Fresh(p, t)
  /\ effects[e].state = "pending" /\ effects[e].attempts < 2
  /\ effects[e].key = NoKey

\* begin_mutation up to the circuit and the budget: the packet is accepted,
\* fresh and unanswered, the effect is pending with no charged attempt, at most
\* one attempt was made before, and the key is new.
MayAttempt(p, k, t) ==
  LET e == EffectKey(p) IN
  /\ accepted[p] # Never
  /\ receipts[p] = "none"
  /\ effects[e].state = "pending"
  /\ Fresh(p, t)
  /\ effects[e].key = NoKey
  /\ effects[e].attempts < 2
  /\ \A c \in ChargesOf(e) : c.key # k

CanCharge(p, k, t) ==
  LET a == EffectKey(p).action IN
  /\ MayAttempt(p, k, t)
  /\ CircuitClosed(a)
  /\ MutationBudgetLeft(a, t)

BeginMutation(p, k, t) ==
  LET e == EffectKey(p) IN
  /\ CanCharge(p, k, t)
  /\ charges' = charges \cup
       {[effect |-> e, key |-> k, packet |-> p, at |-> t]}
  /\ effects' = [effects EXCEPT
       ![e] = [state |-> "pending", key |-> k, packet |-> p,
               attempts |-> effects[e].attempts + 1,
               absent |-> effects[e].absent]]
  /\ UNCHANGED <<accepted, receipts, circuit>>

ActiveAttempt(p, k) ==
  LET row == effects[EffectKey(p)] IN
  row.state = "pending" /\ row.key = k /\ row.packet = p

\* Mutant: the proof of absence is not kept with the cleared attempt.
ClearedWithoutProof(row, state, absent) ==
  [state |-> state, key |-> NoKey, packet |-> NoPacket,
   attempts |-> row.attempts, absent |-> row.absent]

\* Every active_attempt_* column set to NULL.
Cleared(row, state, absent) ==
  [state |-> state, key |-> NoKey, packet |-> NoPacket,
   attempts |-> row.attempts, absent |-> absent]

\* reconcile_absent: proof that the first charged attempt had no live effect.
ReconcileAbsent(p, k) ==
  LET e == EffectKey(p) IN
  /\ ActiveAttempt(p, k)
  /\ effects[e].attempts < 2
  /\ effects' = [effects EXCEPT
       ![e] = Cleared(effects[e], "pending", k)]
  /\ UNCHANGED <<accepted, charges, receipts, circuit>>

\* Mutant: a charged attempt of the effect does not block a packet receipt.
CanRecordHidesAttempt(p, status, bound) ==
  LET row == effects[EffectKey(p)] IN
  /\ accepted[p] # Never /\ receipts[p] = "none"
  /\ status = "already_satisfied" => bound /\ row.state # "indeterminate"
  /\ bound => row.state # "absent"

\* Mutant: an indeterminate effect may be reported as already satisfied.
CanRecordTrustsIndeterminate(p, status, bound) ==
  LET row == effects[EffectKey(p)] IN
  /\ accepted[p] # Never /\ receipts[p] = "none"
  /\ bound => row.state # "absent" /\ row.key = NoKey

\* Mutant: an existing receipt is replaced.
CanRecordOverwrites(p, status, bound) ==
  LET row == effects[EffectKey(p)] IN
  /\ accepted[p] # Never
  /\ status = "already_satisfied" => bound /\ row.state # "indeterminate"
  /\ bound => row.state # "absent" /\ row.key = NoKey

\* record_packet_receipt: `bound` says whether the caller names the effect.
CanRecord(p, status, bound) ==
  LET row == effects[EffectKey(p)] IN
  /\ accepted[p] # Never
  /\ receipts[p] = "none"
  /\ status = "already_satisfied" => bound /\ row.state # "indeterminate"
  /\ bound => row.state # "absent" /\ row.key = NoKey

RecordPacketReceipt(p, status, bound) ==
  LET e == EffectKey(p)
      settles == status = "already_satisfied" /\ effects[e].state = "pending"
  IN
  /\ CanRecord(p, status, bound)
  /\ receipts' = [receipts EXCEPT ![p] = status]
  /\ effects' = IF settles THEN [effects EXCEPT ![e].state = "reconciled"]
                ELSE effects
  /\ circuit' = IF settles
                  THEN [circuit EXCEPT
                         ![e.action] = CircuitAfter(e.action, "reconciled")]
                  ELSE circuit
  /\ UNCHANGED <<accepted, charges>>

\* terminalize: receipt, effect row and circuit in one transaction. The receipt
\* of a packet is UNIQUE, so the insert fails when the packet already has one.
Terminalize(p, k, status) ==
  LET e == EffectKey(p)
      state == TerminalState(status)
  IN
  /\ ActiveAttempt(p, k)
  /\ receipts[p] = "none"
  /\ receipts' = [receipts EXCEPT ![p] = status]
  /\ effects' = [effects EXCEPT
       ![e] = Cleared(effects[e], state, effects[e].absent)]
  /\ circuit' = [circuit EXCEPT ![e.action] = CircuitAfter(e.action, state)]
  /\ UNCHANGED <<accepted, charges>>

\* close_circuit, called by an operator.
CloseCircuit(a) ==
  /\ circuit' = [circuit EXCEPT ![a] = [open |-> FALSE, count |-> 0]]
  /\ UNCHANGED <<accepted, effects, charges, receipts>>

-----------------------------------------------------------------------------
(* The store under any caller *)

\* The one rule the store leaves to its caller: a receipt that names no effect
\* is not written for the packet that owns a charged attempt.
MayRecordUnbound(p) == \A e \in Effects : effects[e].packet # p

StoreNext ==
  \/ \E p \in Packets, t \in Times : Reserve(p, t)
  \/ \E p \in Packets, k \in Keys, t \in Times : BeginMutation(p, k, t)
  \/ \E p \in Packets, k \in Keys : ReconcileAbsent(p, k)
  \/ \E p \in Packets, s \in PacketStatuses : RecordPacketReceipt(p, s, TRUE)
  \/ \E p \in Packets :
       MayRecordUnbound(p) /\ RecordPacketReceipt(p, "not_attempted", FALSE)
  \/ \E p \in Packets, k \in Keys, s \in AttemptStatuses : Terminalize(p, k, s)
  \/ \E a \in Actions : CloseCircuit(a)

StoreSpec == StoreInit /\ [][StoreNext]_storeVars
-----------------------------------------------------------------------------
(* What the store promises *)

(* A charge is spent before the attempt exists and is never given back: the   *)
(* attempt counter of an effect row is the number of its budget events, and   *)
(* no semantic effect is ever attempted more than twice (begin_mutation,      *)
(* reconcile_absent).                                                         *)
ChargesAccounted ==
  \A e \in Effects :
    /\ effects[e].attempts = Cardinality(ChargesOf(e))
    /\ effects[e].attempts <= 2

(* A charged attempt that is still active belongs to a pending effect, was    *)
(* charged to the packet that owns it, and that packet has no receipt yet, so *)
(* recovery can always settle it (terminalize inserts a UNIQUE receipt).      *)
ActiveAttemptOwned ==
  \A e \in Effects :
    effects[e].key # NoKey =>
      /\ effects[e].state = "pending"
      /\ effects[e].packet \in Packets
      /\ EffectKey(effects[e].packet) = e
      /\ receipts[effects[e].packet] = "none"
      /\ \E c \in ChargesOf(e) :
           c.key = effects[e].key /\ c.packet = effects[e].packet

(* "The broker never blindly retries an externally visible mutation": a       *)
(* second attempt exists only when an earlier attempt of the effect was       *)
(* recorded absent, and the recorded one is not the attempt now active.       *)
NoBlindRetry ==
  \A e \in Effects :
    effects[e].attempts = 2 =>
      /\ \E c \in ChargesOf(e) : c.key = effects[e].absent
      /\ effects[e].absent # effects[e].key

(* record_packet_receipt "cannot hide a charged attempt": a packet answered   *)
(* without a terminalized attempt has only charges that recovery proved       *)
(* absent.                                                                    *)
NoHiddenAttempt ==
  \A c \in charges :
    receipts[c.packet] \in PacketStatuses => c.key = effects[c.effect].absent

(* Verdicts about one effect agree across all the packets that asked for it:  *)
(* at most one packet terminalizes it, its row carries that verdict, an       *)
(* indeterminate effect never has a success receipt, and every terminal row   *)
(* has the receipt that reserve and begin_mutation insist on finding.         *)
VerdictAgreement ==
  /\ \A p \in Packets :
       LET state == effects[EffectKey(p)].state IN
       /\ receipts[p] \in AttemptStatuses => state = TerminalState(receipts[p])
       /\ receipts[p] \in SuccessStatuses => state \in {"completed", "reconciled"}
  /\ \A p, q \in Packets :
       /\ receipts[p] \in AttemptStatuses /\ receipts[q] \in AttemptStatuses
       /\ EffectKey(p) = EffectKey(q)
       => p = q
  /\ \A e \in Effects :
       effects[e].state \in TerminalStates =>
         \E p \in Packets : /\ EffectKey(p) = e
                            /\ receipts[p] \in Statuses \ {"not_attempted"}
                            /\ TerminalState(receipts[p]) = effects[e].state

(* _mutation_budget: on no UTC day are more attempts charged than the global  *)
(* and the per-action daily limits allow, whatever was retried, crashed or    *)
(* recovered in between.                                                      *)
MutationBudgetRespected ==
  \A t \in Times :
    /\ Cardinality(ChargesOn(Day(t))) <= DailyMutations
    /\ \A a \in Actions :
         Cardinality(ActionChargesOn(a, Day(t))) <= ActionDailyLimit[a]

(* The circuit counts each indeterminate effect at most once, and it is open  *)
(* exactly when the count has reached the limit (_record_terminal_circuit).   *)
CircuitBacked ==
  \A a \in Actions :
    /\ circuit[a].count <= Cardinality({e \in Effects :
         e.action = a /\ effects[e].state = "indeterminate"})
    /\ circuit[a].open <=> circuit[a].count >= IndeterminateLimit

(* What is durable stays: a receipt is never rewritten, a terminal effect     *)
(* never changes its verdict, a charge is never refunded, an accepted packet  *)
(* is never forgotten (an exact replay returns the receipt it returned first).*)
DurableOutcome ==
  [][/\ \A p \in Packets :
          /\ receipts[p] # "none" => receipts'[p] = receipts[p]
          /\ accepted[p] # Never => accepted'[p] = accepted[p]
     /\ \A e \in Effects :
          effects[e].state \in TerminalStates =>
            effects'[e].state = effects[e].state
     /\ charges \subseteq charges']_storeVars

(* The strengthening that makes the invariants above inductive. A row is in   *)
(* one of the shapes the transactions leave behind: an open attempt makes the *)
(* effect pending, a pending effect without one has been tried at most once   *)
(* (so begin_mutation's "exhausted its single absent-state retry" is never    *)
(* raised), and an open attempt after an absent one is the second.            *)
RowShape ==
  \A e \in Effects :
    LET row == effects[e] IN
    /\ row.attempts <= 2
    /\ row.key = NoKey <=> row.packet = NoPacket
    /\ row.key # NoKey => row.state = "pending" /\ row.attempts >= 1
    /\ row.key # NoKey /\ row.absent # NoKey => row.attempts = 2
    /\ row.state = "pending" /\ row.key = NoKey => row.attempts <= 1
    /\ row.state = "absent" => row.attempts = 0 /\ row.absent = NoKey
    /\ row.attempts = 0 => row.absent = NoKey

(* A charge never loses its fate: it is the open attempt of its effect, or it *)
(* was recorded absent, or its packet holds a receipt about it.               *)
ChargeFate ==
  \A c \in charges :
    LET row == effects[c.effect] IN
    /\ c.effect = EffectKey(c.packet)
    /\ \/ row.key = c.key /\ row.packet = c.packet
       \/ row.absent = c.key
       \/ receipts[c.packet] \in AttemptStatuses

(* A pending effect whose first attempt is over has that attempt on record.   *)
RetryEvidence ==
  \A e \in Effects :
    /\ effects[e].state = "pending"
    /\ effects[e].key = NoKey
    /\ effects[e].attempts = 1
    => \E c \in ChargesOf(e) : c.key = effects[e].absent

AttemptInv == RowShape /\ ChargeFate /\ RetryEvidence

StoreInv ==
  /\ StoreTypeOK
  /\ AttemptInv
  /\ ActiveAttemptOwned
  /\ NoBlindRetry
  /\ VerdictAgreement

-----------------------------------------------------------------------------
(* The store implements the promise of ProtectedEffect *)

VerdictOf(state) ==
  IF state \in {"completed", "reconciled"} THEN "done"
  ELSE IF state = "indeterminate" THEN "unknown" ELSE "open"

AnswerOf(status) ==
  IF status = "none" THEN "none"
  ELSE IF status = "not_attempted" THEN "refused"
  ELSE VerdictOf(TerminalState(status))

Promise == INSTANCE ProtectedEffect WITH
  EffectOf <- [p \in Packets |-> EffectKey(p)],
  tries    <- [e \in Effects |-> effects[e].attempts],
  owner    <- [e \in Effects |-> effects[e].packet],
  verdict  <- [e \in Effects |-> VerdictOf(effects[e].state)],
  answer   <- [p \in Packets |-> AnswerOf(receipts[p])]

(* Every run of the store, through any order of calls, is a run of the        *)
(* promise: two attempts at most, one verdict, one answer per packet, none    *)
(* while the packet's own attempt is open.                                    *)
KeepsPromise == Promise!PromiseSpec
=============================================================================

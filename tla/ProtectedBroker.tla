---------------------------- MODULE ProtectedBroker ----------------------------
(***************************************************************************)
(* The protected-action broker: the daemon that takes one request at a     *)
(* time (broker/john_lomein_broker_daemon.py), the service that handles it *)
(* (broker/john_lomein_broker_service.py), the live evaluation and the     *)
(* mutation with its readback (broker/john_lomein_broker_actions.py), over *)
(* the durable store of BrokerStore and over GitHub.                       *)
(*                                                                         *)
(* One action is one step between two points at which the process can die  *)
(* or the world can move: a call to GitHub, or a store transaction with    *)
(* the reads that lead to it. A request whose packet already has a receipt *)
(* is answered from the store and changes nothing; an answer that carries  *)
(* an error instead of a receipt changes nothing durable either, so        *)
(* answering is the return of the service to idle.                         *)
(***************************************************************************)
EXTENDS BrokerStore

CONSTANTS
  MaxCrashes,   \* bound: how often the daemon dies or a step raises
  MaxEdits      \* bound: how often people change a pull request

ASSUME BoundAssumption == MaxCrashes \in Nat /\ MaxEdits \in Nat /\ 0 \in Times

\* secrets.token_hex gives each of the two attempts of an effect a key.
ASSUME AttemptKeyAssumption == {1, 2} \subseteq Keys

PullRequest == [head : Heads, open : BOOLEAN, ready : BOOLEAN,
                resolved : SUBSET Threads]

\* _fetch_identity, what of it the properties tell apart.
Identity == [head : Heads, open : BOOLEAN, ready : BOOLEAN]

\* What one live snapshot says of one packet: whether it could be fetched,
\* whether the pull request is open on the packet's head, whether the state the
\* packet asks for is there, and whether every other check of evaluate_snapshot
\* passes (policy, paths, checks, evidence, thread counts).
View == [live : BOOLEAN, exact : BOOLEAN, satisfied : BOOLEAN, checks : BOOLEAN]
NoView == [live |-> FALSE, exact |-> FALSE, satisfied |-> FALSE, checks |-> FALSE]

Phases == {"idle", "recover", "fetch", "threads", "confirm", "reconcile",
           "decide", "send", "await", "settle"}

\* Where a finished observation leads.
Uses == {"reconcile", "decide", "settle"}

\* "head": the pull request was open on the packet's head; "state": it was in
\* the state the packet asks for; "both": at one moment.
Facts == {"head", "state", "both"}

VARIABLES
  now,       \* the wall clock
  gh,        \* the pull requests on GitHub
  calls,     \* mutations sent and not yet processed by GitHub
  sent,      \* how many mutations each effect has put on the wire
  seen,      \* what was true of each packet since it was last admitted
  svc,       \* the request the daemon is handling (volatile)
  crashes, edits

vars == <<storeVars, now, gh, calls, sent, seen, svc, crashes, edits>>

Handler == [pc : Phases, packet : Packets \cup {NoPacket}, started : Times,
            queue : SUBSET Effects, target : SUBSET Effects,
            key : Keys \cup {NoKey}, use : Uses,
            identity : SUBSET Identity, view : View]

Idle == [pc |-> "idle", packet |-> NoPacket, started |-> 0, queue |-> {},
         target |-> {}, key |-> NoKey, use |-> "decide", identity |-> {},
         view |-> NoView]

TypeOK ==
  /\ StoreTypeOK
  /\ now \in Times
  /\ gh \in [PRs -> PullRequest]
  /\ calls \in SUBSET [packet : Packets, key : Keys]
  /\ sent \in [Effects -> Nat]
  /\ seen \in [Packets -> SUBSET Facts]
  /\ svc \in Handler
  /\ crashes \in 0 .. MaxCrashes
  /\ edits \in 0 .. MaxEdits

-----------------------------------------------------------------------------
(* GitHub as the code uses it *)

Satisfied(p, g) ==
  LET r == Request[p]
  IN  IF r.action = "mark_pr_ready" THEN g.ready ELSE r.thread \in g.resolved

Exact(p, g) == g.open /\ g.head = Request[p].head

ViewOf(p, g, ok) ==
  [live |-> TRUE, exact |-> Exact(p, g), satisfied |-> Satisfied(p, g),
   checks |-> ok]

\* What world w shows of packet p, kept while p waits for its receipt.
FactsIn(p, w) ==
  LET g == w[Request[p].pr]
  IN  {f \in Facts : /\ f \in {"head", "both"} => Exact(p, g)
                     /\ f \in {"state", "both"} => Satisfied(p, g)}

Witness(w) ==
  seen' = [p \in Packets |->
             IF accepted[p] # Never /\ receipts[p] = "none"
               THEN seen[p] \cup FactsIn(p, w) ELSE seen[p]]

\* A person pushes, closes or reopens, changes draft, or resolves a thread.
Edit ==
  /\ edits < MaxEdits
  /\ edits' = edits + 1
  /\ \E r \in PRs :
       \/ \E h \in Heads \ {gh[r].head} : gh' = [gh EXCEPT ![r].head = h]
       \/ gh' = [gh EXCEPT ![r].open = ~ @]
       \/ gh' = [gh EXCEPT ![r].ready = ~ @]
       \/ \E t \in Threads :
            gh' = [gh EXCEPT ![r].resolved =
                     IF t \in @ THEN @ \ {t} ELSE @ \cup {t}]
  /\ Witness(gh')
  /\ UNCHANGED <<storeVars, now, calls, sent, svc, crashes>>

\* Neither mutation names a head: GitHub applies it to the pull request as it
\* is when the call is processed, perhaps after the sender has given up.
Mutated(p, g) ==
  IF Request[p].action = "mark_pr_ready"
    THEN [g EXCEPT !.ready = TRUE]
    ELSE [g EXCEPT !.resolved = @ \cup {Request[p].thread}]

Awaiting(c) == svc.pc = "await" /\ svc.packet = c.packet /\ svc.key = c.key

GitHubApply(c) ==
  LET p == c.packet
      r == Request[p].pr
      g == Mutated(p, gh[r])
  IN
  /\ Request[p].action = "mark_pr_ready" => gh[r].open
  /\ calls' = calls \ {c}
  /\ gh' = [gh EXCEPT ![r] = g]
  /\ Witness(gh')
  /\ svc' = IF Awaiting(c) THEN [svc EXCEPT !.view = ViewOf(p, g, TRUE)] ELSE svc
  /\ UNCHANGED <<storeVars, now, sent, crashes, edits>>

GitHubDrop(c) ==
  /\ calls' = calls \ {c}
  /\ UNCHANGED <<storeVars, now, gh, sent, seen, svc, crashes, edits>>

Tick ==
  /\ now + 1 \in Times
  /\ now' = now + 1
  /\ UNCHANGED <<storeVars, gh, calls, sent, seen, svc, crashes, edits>>

-----------------------------------------------------------------------------
(* Evaluation *)

\* Mutant: the pull request's state and head are not compared.
EvaluateOkAnyHead(v, allowSatisfied) ==
  v.live /\ v.checks /\ (v.satisfied => allowSatisfied)

\* evaluate_snapshot: strict evaluation refuses a state that is already there.
EvaluateOk(v, allowSatisfied) ==
  v.live /\ v.exact /\ v.checks /\ (v.satisfied => allowSatisfied)

\* desired_state_observed
DesiredObserved(v) == v.live /\ v.exact /\ v.satisfied

\* execute_evaluated_action on the mutation's own answer: mark-ready returns the
\* pull request, resolve-thread only the thread.
ReplyOk(p, v) ==
  v.live /\ v.satisfied /\ (Request[p].action = "mark_pr_ready" => v.exact)

\* execute_evaluated_action on the readback.
ReadbackOk(v) == EvaluateOk(v, TRUE) /\ DesiredObserved(v)

-----------------------------------------------------------------------------
(* The service *)

Quiet == UNCHANGED <<now, gh, calls, sent, seen, crashes, edits>>

Goto(pc) == svc' = [svc EXCEPT !.pc = pc]

\* pending_recovery
PendingRecovery == {e \in Effects : effects[e].state = "pending"
                                    /\ effects[e].key # NoKey}

StartedAt(e) ==
  (CHOOSE c \in ChargesOf(e) : c.key = effects[e].key).at

\* handle, on a packet with no receipt.
Receive(p) ==
  /\ svc.pc = "idle"
  /\ receipts[p] = "none"
  /\ svc' = [Idle EXCEPT !.pc = "recover", !.packet = p, !.started = now,
                         !.queue = PendingRecovery]
  /\ UNCHANGED storeVars
  /\ Quiet

\* fetch_snapshot takes several calls, and the world moves between them: the
\* identity, then the review threads, then the identity again, which must not
\* have changed. A call that fails fails the snapshot.
IdentityOf(p) ==
  LET g == gh[Request[p].pr]
  IN  [head |-> g.head, open |-> g.open, ready |-> g.ready]

\* The service state once the identity has been read for packet p.
Observing(p, use, target) ==
  [svc EXCEPT !.pc = "threads", !.use = use, !.target = target,
              !.identity = {IdentityOf(p)}, !.view = NoView]

Observed ==
  CHOOSE p \in Packets :
    IF svc.target = {} THEN p = svc.packet
    ELSE \E e \in svc.target : p = effects[e].packet

ObserveThreads ==
  /\ svc.pc = "threads"
  /\ svc' = [svc EXCEPT !.pc = "confirm",
       !.view.satisfied = Satisfied(Observed, gh[Request[Observed].pr])]
  /\ UNCHANGED storeVars
  /\ Quiet

\* A mark-ready packet's state is part of the identity, a thread's is not.
ObserveAgain ==
  LET p == Observed
      g == gh[Request[p].pr]
      satisfied == IF Request[p].action = "mark_pr_ready" THEN g.ready
                   ELSE svc.view.satisfied
  IN
  /\ svc.pc = "confirm"
  /\ svc.identity = {IdentityOf(p)}
  /\ \E ok \in BOOLEAN :
       svc' = [svc EXCEPT !.pc = svc.use, !.identity = {},
                 !.view = [live |-> TRUE, exact |-> Exact(p, g),
                           satisfied |-> satisfied, checks |-> ok]]
  /\ UNCHANGED storeVars
  /\ Quiet

ObserveFail ==
  /\ svc.pc \in {"threads", "confirm"}
  /\ svc' = [svc EXCEPT !.pc = svc.use, !.identity = {}, !.view = NoView]
  /\ UNCHANGED storeVars
  /\ Quiet

\* recover_pending: oldest attempt first.
RecoverFetch ==
  /\ svc.pc = "recover"
  /\ \E e \in svc.queue :
       /\ \A f \in svc.queue : StartedAt(e) <= StartedAt(f)
       /\ svc' = [Observing(effects[e].packet, "reconcile", {e}) EXCEPT
                    !.queue = @ \ {e}]
  /\ UNCHANGED storeVars
  /\ Quiet

\* _recover_one, what the query decides about an attempt of packet q.
Confirmed(v) == DesiredObserved(v) /\ EvaluateOk(v, TRUE)

\* Mutant: an expired packet stays eligible for its retry.
RetryableForever(q, v) ==
  EvaluateOk(v, FALSE) /\ effects[EffectKey(q)].attempts < 2

Retryable(q, v) ==
  /\ EvaluateOk(v, FALSE)
  /\ Fresh(q, now)
  /\ effects[EffectKey(q)].attempts < 2

RecoverSettle ==
  /\ svc.pc = "reconcile"
  /\ \E e \in svc.target :
       LET q == effects[e].packet
           k == effects[e].key
           v == svc.view
       IN
       \/ /\ Confirmed(v)
          /\ Terminalize(q, k, "reconciled")
       \/ /\ ~ Confirmed(v) /\ ~ Retryable(q, v)
          /\ Terminalize(q, k, "indeterminate")
       \/ /\ Retryable(q, v) /\ q = svc.packet
          /\ ReconcileAbsent(q, k)
       \/ /\ Retryable(q, v) /\ q # svc.packet
          /\ UNCHANGED storeVars
  /\ svc' = [svc EXCEPT !.pc = "recover", !.target = {}, !.view = NoView]
  /\ Quiet

\* Mutant: the request goes on before every pending attempt is recovered.
RecoveryDoneEarly == svc.pc = "recover"

\* handle, between recovery and the live fetch.
RecoveryDone == svc.pc = "recover" /\ svc.queue = {}

ReturnRecovered ==
  /\ RecoveryDone
  /\ receipts[svc.packet] # "none"
  /\ svc' = Idle
  /\ UNCHANGED storeVars
  /\ Quiet

\* An expired packet, an open circuit or a spent request budget: the request is
\* refused and nothing is recorded.
RefuseAdmission ==
  /\ RecoveryDone
  /\ receipts[svc.packet] = "none"
  /\ ~ CanReserve(svc.packet, svc.started)
  /\ svc' = Idle
  /\ UNCHANGED storeVars
  /\ Quiet

Admit ==
  /\ RecoveryDone
  /\ receipts[svc.packet] = "none"
  /\ Reserve(svc.packet, svc.started)
  /\ Goto("fetch")
  /\ seen' = [seen EXCEPT ![svc.packet] = FactsIn(svc.packet, gh)]
  /\ UNCHANGED <<now, gh, calls, sent, crashes, edits>>

\* A store call that refuses raises out of handle: the daemon answers
\* broker_failure and nothing is recorded.
Answer(p, status, bound) ==
  /\ \/ RecordPacketReceipt(p, status, bound)
     \/ ~ CanRecord(p, status, bound) /\ UNCHANGED storeVars
  /\ svc' = Idle
  /\ Quiet

Row == effects[EffectKey(svc.packet)]

RejectIndeterminate ==
  /\ svc.pc = "fetch"
  /\ Row.state = "indeterminate"
  /\ Answer(svc.packet, "not_attempted", TRUE)

FetchLive ==
  /\ svc.pc = "fetch"
  /\ Row.state # "indeterminate"
  /\ svc' = Observing(svc.packet, "decide", {})
  /\ UNCHANGED storeVars
  /\ Quiet

\* The live state fails a precondition, or a completed effect has drifted.
RejectPrecondition ==
  /\ svc.pc = "decide"
  /\ \/ ~ EvaluateOk(svc.view, TRUE)
     \/ Row.state \in {"completed", "reconciled"} /\ ~ svc.view.satisfied
  /\ Answer(svc.packet, "not_attempted", TRUE)

AlreadySatisfied ==
  /\ svc.pc = "decide"
  /\ EvaluateOk(svc.view, TRUE)
  /\ svc.view.satisfied
  /\ Answer(svc.packet, "already_satisfied", TRUE)

ReadyToMutate ==
  /\ svc.pc = "decide"
  /\ EvaluateOk(svc.view, FALSE)
  /\ Row.state = "pending"

\* secrets.token_hex: a key this effect has not used.
NewKey == Row.attempts + 1

ChargeAttempt ==
  /\ ReadyToMutate
  /\ BeginMutation(svc.packet, NewKey, now)
  /\ svc' = [svc EXCEPT !.pc = "send", !.key = NewKey, !.view = NoView]
  /\ Quiet

\* CircuitOpenError and BudgetExceeded from begin_mutation.
RejectLimit ==
  /\ ReadyToMutate
  /\ MayAttempt(svc.packet, NewKey, now)
  /\ ~ CanCharge(svc.packet, NewKey, now)
  /\ Answer(svc.packet, "not_attempted", TRUE)

\* PendingRecoveryError: another packet's attempt is charged; the receipt names
\* no effect.
RejectPending ==
  /\ ReadyToMutate
  /\ Fresh(svc.packet, now)
  /\ Row.key # NoKey
  /\ Answer(svc.packet, "not_attempted", FALSE)

\* The packet expired since the request started (BrokerServiceError).
FailMutation ==
  /\ ReadyToMutate
  /\ ~ Fresh(svc.packet, now)
  /\ svc' = Idle
  /\ UNCHANGED storeVars
  /\ Quiet

Send ==
  /\ svc.pc = "send"
  /\ calls' = calls \cup {[packet |-> svc.packet, key |-> svc.key]}
  /\ sent' = [sent EXCEPT ![EffectKey(svc.packet)] = @ + 1]
  /\ Goto("await")
  /\ UNCHANGED <<storeVars, now, gh, seen, crashes, edits>>

\* The mutation's answer is the expected one, and the readback begins.
MutationAnswered ==
  /\ svc.pc = "await"
  /\ ReplyOk(svc.packet, svc.view)
  /\ svc' = Observing(svc.packet, "settle", {})
  /\ UNCHANGED storeVars
  /\ Quiet

\* Mutant: the call is sent again when its answer is lost.
MutationIndeterminateResends ==
  /\ svc.pc = "await"
  /\ Goto("send")
  /\ UNCHANGED storeVars
  /\ Quiet

\* No trustworthy answer, or one that does not match.
MutationIndeterminate ==
  /\ svc.pc = "await"
  /\ svc' = [svc EXCEPT !.pc = "settle", !.view = NoView]
  /\ UNCHANGED storeVars
  /\ Quiet

\* Mutant: the effect's terminal state is used as the receipt's status.
SettleStatusOfEffect(v) ==
  IF ReadbackOk(v) THEN "completed" ELSE "indeterminate"

SettleStatus(v) == IF ReadbackOk(v) THEN "applied" ELSE "indeterminate"

Settle ==
  /\ svc.pc = "settle"
  /\ Terminalize(svc.packet, svc.key, SettleStatus(svc.view))
  /\ svc' = Idle
  /\ Quiet

\* The process dies, or a step raises: what was not committed is gone.
Crash ==
  /\ svc.pc # "idle"
  /\ crashes < MaxCrashes
  /\ crashes' = crashes + 1
  /\ svc' = Idle
  /\ UNCHANGED <<storeVars, now, gh, calls, sent, seen, edits>>

Operator ==
  /\ \E a \in Actions : CloseCircuit(a)
  /\ UNCHANGED svc
  /\ Quiet

-----------------------------------------------------------------------------
Init ==
  /\ StoreInit
  /\ now = 0
  /\ gh \in [PRs -> [head : Heads, open : {TRUE}, ready : {FALSE},
                     resolved : {{}}]]
  /\ calls = {}
  /\ sent = [e \in Effects |-> 0]
  /\ seen = [p \in Packets |-> {}]
  /\ svc = Idle
  /\ crashes = 0
  /\ edits = 0

Handle ==
  \/ ObserveThreads \/ ObserveAgain \/ ObserveFail
  \/ RecoverFetch \/ RecoverSettle \/ ReturnRecovered \/ RefuseAdmission
  \/ Admit \/ RejectIndeterminate \/ FetchLive \/ RejectPrecondition
  \/ AlreadySatisfied \/ ChargeAttempt \/ RejectLimit \/ RejectPending
  \/ FailMutation \/ Send \/ MutationAnswered \/ MutationIndeterminate
  \/ Settle

World ==
  \/ Edit
  \/ \E c \in calls : GitHubApply(c) \/ GitHubDrop(c)
  \/ Tick

Next == (\E p \in Packets : Receive(p)) \/ Handle \/ World \/ Crash \/ Operator

Spec == Init /\ [][Next]_vars

-----------------------------------------------------------------------------
(* What the broker promises *)

(* Nothing reaches GitHub that was not charged first: at any moment, through  *)
(* crashes and recoveries, an effect has put at most as many mutations on the *)
(* wire as it has budget events (at most two), and every call still under way *)
(* belongs to one of them (begin_mutation before execute_evaluated_action).   *)
SentOnlyCharged ==
  /\ \A e \in Effects : sent[e] <= Cardinality(ChargesOf(e)) /\ sent[e] <= 2
  /\ \A c \in calls :
       \E d \in charges : d.packet = c.packet /\ d.key = c.key

(* Neither mutation names a head, GitHub may apply one late, and a snapshot   *)
(* takes several calls. Still a success receipt is issued only if, since the  *)
(* packet was last admitted, the pull request was open on the packet's head   *)
(* and was in the requested state, for mark_pr_ready at one moment (readback  *)
(* and recovery, evaluate_snapshot, fetch_snapshot).                          *)
SuccessWitnessed ==
  \A p \in Packets :
    receipts[p] \in SuccessStatuses =>
      /\ {"head", "state"} \subseteq seen[p]
      /\ Request[p].action = "mark_pr_ready" => "both" \in seen[p]

(* What the handler works on; an observation belongs to what uses it.         *)
Stage == IF svc.pc \in {"threads", "confirm"} THEN svc.use ELSE svc.pc

(* The handler and the store agree on who owns a charged attempt: past        *)
(* recovery the packet in hand owns none, and from the charge to the receipt  *)
(* it owns exactly the attempt the handler will terminalize.                  *)
HandlerOwnsAttempt ==
  /\ Stage \in {"fetch", "decide"} =>
       \A e \in Effects : effects[e].packet # svc.packet
  /\ Stage \in {"send", "await", "settle"} =>
       ActiveAttempt(svc.packet, svc.key)
  /\ Stage = "reconcile" =>
       svc.target # {} /\ \A e \in svc.target : effects[e].key # NoKey

(* Recovery reaches what it must: while it runs, every open attempt of the    *)
(* packet in hand is still to be recovered, and what is to be recovered is    *)
(* open although it was listed before the attempts settled since              *)
(* (recover_pending, _recover_one).                                           *)
RecoveryCovers ==
  /\ svc.pc # "idle" => svc.packet \in Packets
  /\ Stage \in {"recover", "reconcile"} =>
       /\ \A e \in Effects :
            effects[e].packet = svc.packet => e \in svc.queue \cup svc.target
       /\ \A e \in svc.queue \cup svc.target : effects[e].key # NoKey
       /\ svc.queue \cap svc.target = {}
  /\ IF Stage = "reconcile" THEN \E e \in Effects : svc.target = {e}
     ELSE svc.target = {}

(* A packet past its admission is accepted and unanswered, and so is the      *)
(* owner of every open attempt (reserve, begin_mutation).                     *)
AdmittedInHand ==
  /\ Stage \in {"fetch", "decide", "send", "await", "settle"} =>
       accepted[svc.packet] # Never /\ receipts[svc.packet] = "none"
  /\ \A e \in Effects :
       effects[e].key # NoKey => accepted[effects[e].packet] # Never

(* Requests start one after the other: none was accepted after the start of   *)
(* the one in hand (handle reads the clock once).                             *)
StartedInOrder ==
  \A q \in Packets :
    /\ accepted[q] <= now
    /\ svc.pc # "idle" => accepted[q] <= svc.started /\ svc.started <= now

(* What is charged and not yet sent is owed by the handler about to send it.  *)
SendOwed ==
  \A e \in Effects :
    /\ sent[e] <= effects[e].attempts
    /\ svc.pc = "send" /\ e = EffectKey(svc.packet) => sent[e] < effects[e].attempts

(* What the handler has seen of packet p was so since p was last admitted.    *)
ViewBacked(p) ==
  LET v == svc.view IN
  /\ svc.pc = "confirm" /\ v.satisfied => "state" \in seen[p]
  /\ svc.pc \in Uses /\ v.live =>
       /\ v.exact => "head" \in seen[p]
       /\ v.satisfied => "state" \in seen[p]
       /\ Request[p].action = "mark_pr_ready" /\ v.exact /\ v.satisfied =>
            "both" \in seen[p]

(* Nothing true of a packet that waits for its receipt goes unseen, and what  *)
(* the handler saw of the packet it observes was so (evaluate_snapshot,       *)
(* fetch_snapshot).                                                           *)
SeenBacked ==
  /\ \A p \in Packets :
       accepted[p] # Never /\ receipts[p] = "none" => FactsIn(p, gh) \subseteq seen[p]
  /\ Stage \in {"decide", "settle"} => ViewBacked(svc.packet)
  /\ Stage = "reconcile" => \A e \in svc.target : ViewBacked(effects[e].packet)

(* _request_budget: no window of the request budget's length holds more       *)
(* accepted packets than the budget, although the budget is read at the time  *)
(* the request started and not at the time it is reserved.                    *)
RequestBudgetRespected ==
  \A t \in Times :
    Cardinality({q \in Packets : /\ accepted[q] # Never
                                 /\ accepted[q] > t - Window
                                 /\ accepted[q] <= t}) <= RequestsPerHour

(* An attempt of the effect is charged and not yet settled.                   *)
Charged(e) == effects[e].key # NoKey

(* The handlers together: each open attempt has one handler that answers for  *)
(* it, and no hour has more requests than allowed, although a handler may die *)
(* anywhere and the next one recovers what it left.                           *)
HandlersSafe ==
  /\ TypeOK /\ HandlerOwnsAttempt /\ RecoveryCovers /\ AdmittedInHand
  /\ StartedInOrder /\ SendOwed /\ SeenBacked /\ RequestBudgetRespected

=============================================================================

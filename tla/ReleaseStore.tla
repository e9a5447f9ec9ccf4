------------------------------ MODULE ReleaseStore ------------------------------
(***************************************************************************)
(* The durable SQLite store of the protected release broker                *)
(* (release_broker/john_lomein_release_broker_store.py).                   *)
(*                                                                         *)
(* A packet asks for a bundle: an ordered list of pull requests that are   *)
(* squash-merged one after the other. A bundle is created by one packet    *)
(* and a second packet for it is refused, so the rows of `bundles`,        *)
(* `bundle_steps` and `mutation_attempts` are kept here by packet. Every   *)
(* writing method is one BEGIN IMMEDIATE transaction and one action; a     *)
(* call that raises or replays a stored row is no action, and the caller   *)
(* is anyone, in any order. ReleaseBroker adds the service.                *)
(***************************************************************************)
EXTENDS Integers, FiniteSets

CONSTANTS
  Packets, NoPacket,     \* request packets; NULL in last_event_bundle_key
  Order,                 \* the content of each packet
  Repos,                 \* repositories
  Bundles, Assertions,   \* semantic bundles, owner assertions (nonce and digest)
  Commits, NoCommit,     \* commits of the default branch; NULL
  Times,                 \* clock readings
  Window, DayLength,     \* REQUEST_WINDOW_SECONDS, one UTC day
  RequestsPerHour, AssertionsPerHour, BundlesPerDay, AttemptsPerDay,
  MergesPerDay, IndeterminateLimit, MaxPRs,
  MaxCount               \* bound: the circuit count at which a caller stops opening it

Positions == 1 .. MaxPRs

\* expires: the packet's; window: the bundle's; consent: the owner assertion's.
OrderType == [bundle : Bundles, assertion : Assertions, repo : Repos,
              base : Commits, size : Nat \ {0}, expires : Nat, window : Nat,
              consent : Nat]

ASSUME OrderAssumption ==
  /\ Order \in [Packets -> OrderType]
  /\ \A p \in Packets : Order[p].expires <= Order[p].window
  /\ NoPacket \notin Packets
  /\ NoCommit \notin Commits
  /\ IsFiniteSet(Packets)

ASSUME ReleaseTimeAssumption ==
  Times \subseteq Nat /\ Window \in Nat /\ DayLength \in Nat \ {0}

\* BudgetLimits.__post_init__
ASSUME ReleaseLimitAssumption ==
  /\ RequestsPerHour \in Nat /\ AssertionsPerHour \in Nat
  /\ BundlesPerDay \in Nat /\ AttemptsPerDay \in Nat /\ MergesPerDay \in Nat
  /\ IndeterminateLimit \in Nat \ {0}
  /\ MaxPRs \in Nat \ {0}
  /\ MaxCount \in Nat

Never == -1

\* MAX_ATTEMPTS_PER_STEP
Tries == 1 .. 2

ActiveStates == {"reserved", "executing"}
Outcomes == {"succeeded", "rejected", "partial", "indeterminate"}
BundleStates == {"none"} \cup ActiveStates \cup Outcomes
StepStates == {"pending", "mutation_pending", "confirmed", "indeterminate",
               "rejected"}
AttemptStates == {"none", "pending", "confirmed", "absent", "indeterminate"}

\* active: the number of the attempt active_attempt_id names, 0 for NULL.
StepRow == [state : StepStates, active : Tries \cup {0},
            merge : Commits \cup {NoCommit}]
NewStep == [state |-> "pending", active |-> 0, merge |-> NoCommit]

AttemptRow == [state : AttemptStates, at : Times \cup {Never},
               base : Commits \cup {NoCommit}]
NoAttempt == [state |-> "none", at |-> Never, base |-> NoCommit]

CircuitRow == [open : BOOLEAN, count : Nat, last : Packets \cup {NoPacket}]
ClosedCircuit == [open |-> FALSE, count |-> 0, last |-> NoPacket]

VARIABLES
  accepted,   \* packets.accepted_at, Never when the packet has no row
  bundles,    \* the state of the packet's bundle; an outcome is its receipt
  steps,      \* the steps of the bundle
  attempts,   \* the charged attempts of each step, in order
  circuit     \* the circuit breaker of each repository

releaseVars == <<accepted, bundles, steps, attempts, circuit>>

ReleaseTypeOK ==
  /\ accepted \in [Packets -> Times \cup {Never}]
  /\ bundles \in [Packets -> BundleStates]
  /\ steps \in [Packets \X Positions -> StepRow]
  /\ attempts \in [Packets \X Positions \X Tries -> AttemptRow]
  /\ circuit \in [Repos -> CircuitRow]

ReleaseInit ==
  /\ accepted = [p \in Packets |-> Never]
  /\ bundles = [p \in Packets |-> "none"]
  /\ steps = [s \in Packets \X Positions |-> NewStep]
  /\ attempts = [s \in Packets \X Positions \X Tries |-> NoAttempt]
  /\ circuit = [r \in Repos |-> ClosedCircuit]

-----------------------------------------------------------------------------
(* Budgets and circuits *)

Day(t) == t \div DayLength

\* Request rows and assertion rows of `budget_events`: one of each per packet.
AcceptedSince(t) == {q \in Packets : accepted[q] # Never
                                     /\ accepted[q] > t - Window}
BundlesOn(d) == {q \in Packets : accepted[q] # Never /\ Day(accepted[q]) = d}

\* Attempt rows charged on day d. A confirmed merge is booked on the day its
\* attempt was charged (merge_budget_day).
AttemptsOn(d, states) ==
  {s \in Packets \X Positions \X Tries :
     attempts[s].state \in states /\ Day(attempts[s].at) = d}

Charged == {"pending", "confirmed", "absent", "indeterminate"}

CircuitClosed(p) == ~ circuit[Order[p].repo].open

\* Mutant: a success closes the circuit, open or not.
CircuitAfterSuccessCloses(p, mode) ==
  LET c == circuit[Order[p].repo] IN
  IF mode = "success" THEN ClosedCircuit
  ELSE [open |-> c.open \/ mode = "immediate", count |-> c.count, last |-> p]

\* _record_circuit_locked: a success does not close an open circuit, and the
\* bundle of the last event is not counted again.
CircuitAfter(p, mode) ==
  LET c == circuit[Order[p].repo]
      again == mode = "immediate" \/ c.open
  IN  CASE mode = "none" -> c
        [] mode = "success" -> IF c.open THEN c ELSE ClosedCircuit
        [] mode \in {"threshold", "immediate"} /\ c.last = p ->
             [open |-> again, count |-> c.count, last |-> p]
        [] mode \in {"threshold", "immediate"} /\ c.last # p ->
             [open |-> again \/ c.count + 1 >= IndeterminateLimit,
              count |-> c.count + 1, last |-> p]

RecordCircuit(p, mode) ==
  circuit' = [circuit EXCEPT ![Order[p].repo] = CircuitAfter(p, mode)]

-----------------------------------------------------------------------------
(* Transactions *)

\* _packet_identity with enforce_freshness.
Fresh(p, t) ==
  t < Order[p].expires /\ t < Order[p].window /\ t < Order[p].consent

Taken == {q \in Packets : accepted[q] # Never}

\* Mutant: an owner's assertion serves every bundle once.
UnusedBundle(p) == \A q \in Taken : Order[q].bundle # Order[p].bundle

\* The bundle has no row and the owner's assertion was not consumed.
Unused(p) ==
  \A q \in Taken : /\ Order[q].bundle # Order[p].bundle
                   /\ Order[q].assertion # Order[p].assertion

\* Mutant: a bundle occupies its repository only once it executes.
RepositoryNotExecuting(p) ==
  \A q \in Taken : Order[q].repo = Order[p].repo => bundles[q] # "executing"

\* Mutant: a repository takes any number of bundles.
RepositoryAlwaysFree(p) == accepted[p] = Never

RepositoryFree(p) ==
  \A q \in Taken :
    Order[q].repo = Order[p].repo => bundles[q] \notin ActiveStates

\* reserve, for a packet that has no row yet.
CanReserve(p, t) ==
  /\ p \notin Taken
  /\ Fresh(p, t)
  /\ Unused(p)
  /\ CircuitClosed(p)
  /\ Cardinality(AcceptedSince(t)) < RequestsPerHour
  /\ Cardinality(AcceptedSince(t)) < AssertionsPerHour
  /\ Order[p].size <= MaxPRs
  /\ RepositoryFree(p)
  /\ Cardinality(BundlesOn(Day(t))) < BundlesPerDay

Reserve(p, t) ==
  /\ CanReserve(p, t)
  /\ accepted' = [accepted EXCEPT ![p] = t]
  /\ bundles' = [bundles EXCEPT ![p] = "reserved"]
  /\ UNCHANGED <<steps, attempts, circuit>>

IsStep(p, i) == accepted[p] # Never /\ i <= Order[p].size

Tried(p, i) == {n \in Tries : attempts[<<p, i, n>>].state # "none"}

\* Mutant: every step is merged on the base the owner saw.
BaseReadyOwnerBase(p, i, base) ==
  /\ base = Order[p].base
  /\ i > 1 => steps[<<p, i - 1>>].state = "confirmed"

\* The base a step may be merged on: the bundle's, or the commit of the step
\* before it, which must be confirmed.
BaseReady(p, i, base) ==
  IF i = 1 THEN base = Order[p].base
  ELSE steps[<<p, i - 1>>].state = "confirmed" /\ steps[<<p, i - 1>>].merge = base

\* Mutant: absent attempts are retried without limit.
RetryAllowedUnlimited(p, i) ==
  \A n \in Tried(p, i) : attempts[<<p, i, n>>].state = "absent"

\* The previous attempt of the step, if any, was absent, and it was the only one.
RetryAllowed(p, i) == \A n \in Tried(p, i) : n = 1 /\ attempts[<<p, i, n>>].state = "absent"

\* Mutant: the last merge of the day is still allowed when the limit is reached.
AttemptBudgetOffByOne(t) ==
  /\ Cardinality(AttemptsOn(Day(t), Charged)) < AttemptsPerDay
  /\ Cardinality(AttemptsOn(Day(t), {"confirmed", "pending"})) <= MergesPerDay

\* _daily_budget and the merge capacity: a pending attempt may still become a
\* merge of its day.
AttemptBudgetLeft(t) ==
  /\ Cardinality(AttemptsOn(Day(t), Charged)) < AttemptsPerDay
  /\ Cardinality(AttemptsOn(Day(t), {"confirmed", "pending"})) < MergesPerDay

\* begin_mutation: what raises an error, in order, and what refuses.
InWindow(p, t) == bundles[p] \in ActiveStates /\ t < Order[p].window

MayBegin(p, i, base) ==
  /\ steps[<<p, i>>].state = "pending"
  /\ BaseReady(p, i, base)
  /\ RetryAllowed(p, i)

BeginMutation(p, i, base, t) ==
  LET n == Cardinality(Tried(p, i)) + 1 IN
  /\ IsStep(p, i)
  /\ InWindow(p, t)
  /\ CircuitClosed(p)
  /\ MayBegin(p, i, base)
  /\ AttemptBudgetLeft(t)
  /\ attempts' = [attempts EXCEPT
       ![<<p, i, n>>] = [state |-> "pending", at |-> t, base |-> base]]
  /\ steps' = [steps EXCEPT
       ![<<p, i>>] = [state |-> "mutation_pending", active |-> n,
                  merge |-> NoCommit]]
  /\ bundles' = [bundles EXCEPT ![p] = "executing"]
  /\ UNCHANGED <<accepted, circuit>>

\* The attempt is the open one of its step.
ActiveAttempt(p, i, n) ==
  /\ steps[<<p, i>>].state = "mutation_pending"
  /\ steps[<<p, i>>].active = n
  /\ attempts[<<p, i, n>>].state = "pending"

EndAttempt(p, i, n, state) ==
  attempts' = [attempts EXCEPT
    ![<<p, i, n>>] = [state |-> state, at |-> attempts[<<p, i, n>>].at,
                  base |-> attempts[<<p, i, n>>].base]]

\* Mutant: active_attempt_id is not cleared.
EndStepKeepsActive(p, i, state, merge) ==
  steps' = [steps EXCEPT
    ![<<p, i>>] = [state |-> state, active |-> steps[<<p, i>>].active, merge |-> merge]]

EndStep(p, i, state, merge) ==
  steps' = [steps EXCEPT
    ![<<p, i>>] = [state |-> state, active |-> 0, merge |-> merge]]

\* confirm_step, and record_recovery with "confirmed".
ConfirmStep(p, i, n, merge, parent) ==
  /\ IsStep(p, i)
  /\ ActiveAttempt(p, i, n)
  /\ parent = attempts[<<p, i, n>>].base
  /\ EndAttempt(p, i, n, "confirmed")
  /\ EndStep(p, i, "confirmed", merge)
  /\ UNCHANGED <<accepted, bundles, circuit>>

\* record_recovery with "absent": the step is pending again.
RecordAbsent(p, i, n) ==
  /\ IsStep(p, i)
  /\ ActiveAttempt(p, i, n)
  /\ EndAttempt(p, i, n, "absent")
  /\ EndStep(p, i, "pending", NoCommit)
  /\ UNCHANGED <<accepted, bundles, circuit>>

\* record_recovery with "indeterminate".
RecordIndeterminate(p, i, n, mode) ==
  /\ IsStep(p, i)
  /\ ActiveAttempt(p, i, n)
  /\ EndAttempt(p, i, n, "indeterminate")
  /\ EndStep(p, i, "indeterminate", NoCommit)
  /\ RecordCircuit(p, mode)
  /\ UNCHANGED <<accepted, bundles>>

\* Mutant: a step is stopped whatever became of it.
StopStepAnyState(p, i, state) ==
  /\ IsStep(p, i)
  /\ steps[<<p, i>>].state # "mutation_pending"
  /\ EndStep(p, i, state, NoCommit)
  /\ UNCHANGED <<accepted, bundles, attempts, circuit>>

\* stop_step looks at the step and not at the bundle.
StopStep(p, i, state) ==
  /\ IsStep(p, i)
  /\ steps[<<p, i>>].state = "pending"
  /\ EndStep(p, i, state, NoCommit)
  /\ UNCHANGED <<accepted, bundles, attempts, circuit>>

\* The rows `bundle_steps` has for the bundle: a bundle of more than MaxPRs pull
\* requests has none, reserve refuses it.
StepsIn(p, states) ==
  {i \in Positions : i <= Order[p].size /\ steps[<<p, i>>].state \in states}

\* Mutant: a bundle is reported while an attempt is still open.
OutcomeAllowedEarly(p, outcome) ==
  LET confirmed == Cardinality(StepsIn(p, {"confirmed"})) IN
  /\ outcome = "succeeded" => confirmed = Order[p].size
  /\ outcome = "rejected" => confirmed = 0
  /\ outcome = "partial" => confirmed # 0
  /\ outcome = "indeterminate" => StepsIn(p, {"indeterminate"}) # {}

\* terminalize_bundle: what the steps must say for each outcome.
OutcomeAllowed(p, outcome) ==
  LET confirmed == Cardinality(StepsIn(p, {"confirmed"})) IN
  /\ StepsIn(p, {"mutation_pending"}) = {}
  /\ outcome = "succeeded" => confirmed = Order[p].size
  /\ outcome = "rejected" => confirmed = 0
  /\ outcome = "partial" => confirmed # 0
  /\ outcome = "indeterminate" => StepsIn(p, {"indeterminate"}) # {}

TerminalizeBundle(p, outcome, mode) ==
  /\ bundles[p] \in ActiveStates
  /\ OutcomeAllowed(p, outcome)
  /\ bundles' = [bundles EXCEPT ![p] = outcome]
  /\ RecordCircuit(p, IF outcome = "succeeded" THEN "success" ELSE mode)
  /\ UNCHANGED <<accepted, steps, attempts>>

\* open_circuit, for a failed invariant of the service.
OpenCircuit(r) ==
  /\ circuit' = [circuit EXCEPT
       ![r] = [open |-> TRUE, count |-> circuit[r].count + 1,
               last |-> NoPacket]]
  /\ UNCHANGED <<accepted, bundles, steps, attempts>>

\* close_circuit: "Explicit root-operator recovery".
CloseCircuit(r) ==
  /\ circuit' = [circuit EXCEPT ![r] = ClosedCircuit]
  /\ UNCHANGED <<accepted, bundles, steps, attempts>>

-----------------------------------------------------------------------------
(* The store under any caller *)

Modes == {"none", "threshold", "immediate"}

ReleaseNext ==
  \/ \E p \in Packets, t \in Times : Reserve(p, t)
  \/ \E p \in Packets, i \in Positions :
       \/ \E base \in Commits, t \in Times : BeginMutation(p, i, base, t)
       \/ \E n \in Tries, merge, parent \in Commits :
            ConfirmStep(p, i, n, merge, parent)
       \/ \E n \in Tries : RecordAbsent(p, i, n)
       \/ \E n \in Tries, mode \in Modes : RecordIndeterminate(p, i, n, mode)
       \/ \E state \in {"rejected", "indeterminate"} : StopStep(p, i, state)
  \/ \E p \in Packets, outcome \in Outcomes, mode \in Modes :
       TerminalizeBundle(p, outcome, mode)
  \/ \E r \in Repos : circuit[r].count < MaxCount /\ OpenCircuit(r)
  \/ \E r \in Repos : CloseCircuit(r)

ReleaseStoreSpec == ReleaseInit /\ [][ReleaseNext]_releaseVars

-----------------------------------------------------------------------------
(* What the store promises *)

(* Nothing is used twice: two accepted packets never share a bundle or an     *)
(* owner assertion, and a repository has at most one bundle that is not yet   *)
(* terminal, whatever was retried or stopped in between (reserve).            *)
NothingReused ==
  \A p, q \in Packets :
    p # q /\ accepted[p] # Never /\ accepted[q] # Never =>
      /\ Order[p].bundle # Order[q].bundle
      /\ Order[p].assertion # Order[q].assertion
      /\ Order[p].repo = Order[q].repo =>
           ~ (bundles[p] \in ActiveStates /\ bundles[q] \in ActiveStates)

(* The step and its attempts tell one story: a step is open exactly on its    *)
(* one pending attempt, confirmed exactly when an attempt is, and a second    *)
(* attempt exists only after the first was recorded absent (begin_mutation,   *)
(* record_recovery, confirm_step, stop_step).                                 *)
StepAgrees(p, i) ==
  LET step == steps[<<p, i>>]
      state(n) == attempts[<<p, i, n>>].state
  IN
  /\ step.state = "mutation_pending" <=> step.active # 0
  /\ \A n \in Tries : state(n) = "pending" <=> step.active = n
  /\ \A n \in Tries : state(n) = "confirmed" => step.state = "confirmed"
  /\ step.state = "confirmed" => \E n \in Tries : state(n) = "confirmed"
  /\ state(2) # "none" => state(1) = "absent"

AttemptsAgree == \A p \in Packets, i \in Positions : StepAgrees(p, i)

(* A packet and its bundle are written together, and a bundle has as many     *)
(* step rows as it has pull requests (reserve).                               *)
RowsTogether ==
  \A p \in Packets :
    /\ accepted[p] = Never <=> bundles[p] = "none"
    /\ accepted[p] # Never => Order[p].size <= MaxPRs

(* A merge is only ever attempted on top of the confirmed merge of the step   *)
(* before it, on the commit that merge made, and that step stays confirmed    *)
(* (begin_mutation: "release attempt base does not match the authorized       *)
(* chain").                                                                   *)
ChainIntact ==
  \A p \in Packets, i \in Positions, n \in Tries :
    attempts[<<p, i, n>>].state # "none" =>
      IF i = 1 THEN attempts[<<p, i, n>>].base = Order[p].base
      ELSE /\ steps[<<p, i - 1>>].state = "confirmed"
           /\ attempts[<<p, i, n>>].base = steps[<<p, i - 1>>].merge

(* All the steps before an attempted one are merged, so that at most one step *)
(* of a bundle is under way (begin_mutation looks one step back).             *)
MergedPrefix ==
  \A p \in Packets, i \in Positions, n \in Tries :
    attempts[<<p, i, n>>].state # "none" =>
      \A j \in Positions : j < i => steps[<<p, j>>].state = "confirmed"

(* A receipt stays true although stop_step ignores the bundle's state:        *)
(* succeeded means every step is merged, rejected that none is or can still   *)
(* become so, partial that some is, indeterminate that one is unknown; and no *)
(* terminal bundle has an attempt whose outcome is still open.                *)
ReceiptTrue ==
  \A p \in Packets :
    LET In(states) == StepsIn(p, states) IN
    /\ bundles[p] = "succeeded" => In({"confirmed"}) = 1 .. Order[p].size
    /\ bundles[p] = "rejected" => In({"confirmed"}) = {}
    /\ bundles[p] = "partial" => In({"confirmed"}) # {}
    /\ bundles[p] = "indeterminate" => In({"indeterminate"}) # {}
    /\ bundles[p] \in Outcomes => In({"mutation_pending"}) = {}

(* On no UTC day are more attempts charged, or more merges confirmed or still *)
(* possible, than the limits allow, although a merge is confirmed long after  *)
(* its attempt was charged, perhaps on another day (begin_mutation,           *)
(* _confirm_step_locked).                                                     *)
ReleaseBudgetRespected ==
  \A t \in Times :
    /\ Cardinality(AttemptsOn(Day(t), Charged)) <= AttemptsPerDay
    /\ Cardinality(AttemptsOn(Day(t), {"confirmed", "pending"})) <= MergesPerDay

(* A closed circuit is below its limit (_record_circuit_locked, close_circuit).*)
ClosedBelowLimit ==
  \A r \in Repos : ~ circuit[r].open => circuit[r].count < IndeterminateLimit

(* close_circuit: "packets cannot close circuits". An open circuit closes     *)
(* only in a step that touches no packet, bundle, step or attempt             *)
(* (_record_circuit_locked).                                                  *)
PacketsCannotClose ==
  [][\A r \in Repos :
       circuit[r].open /\ ~ circuit'[r].open =>
         UNCHANGED <<accepted, bundles, steps, attempts>>]_releaseVars

(* What is durable stays: a receipt is never rewritten, a confirmed merge     *)
(* keeps its commit, and an attempt that ended keeps its end and its charge.  *)
ReleaseDurable ==
  [][/\ \A p \in Packets : bundles[p] \in Outcomes => bundles'[p] = bundles[p]
     /\ \A s \in Packets \X Positions :
          steps[s].state = "confirmed" => steps'[s] = steps[s]
     /\ \A s \in Packets \X Positions \X Tries :
          /\ attempts[s].state \notin {"none", "pending"} =>
               attempts'[s] = attempts[s]
          /\ attempts[s].state # "none" => attempts'[s].at = attempts[s].at
    ]_releaseVars

PhaseOf(state) ==
  IF state = "none" THEN "new"
  ELSE IF state \in ActiveStates THEN "active" ELSE state

Promise == INSTANCE ReleasePromise WITH
  Size   <- [p \in Packets |-> Order[p].size],
  RepoOf <- [p \in Packets |-> Order[p].repo],
  phase  <- [p \in Packets |-> PhaseOf(bundles[p])],
  merged <- [p \in Packets |-> StepsIn(p, {"confirmed"})],
  flying <- [p \in Packets |-> StepsIn(p, {"mutation_pending"})]

(* Every run of the store is a run of ReleasePromise: one bundle at a time,   *)
(* merges in order and one at a time, and true reports.                       *)
KeepsReleasePromise == Promise!PromiseSpec

(* What the tables say of each other, after any sequence of calls: attempts   *)
(* agree with their steps, the bases of a bundle's steps form a chain, no     *)
(* packet, bundle or assertion serves twice, no day exceeds its limits and no *)
(* circuit stays closed at its limit.                                         *)
ReleaseInv ==
  /\ ReleaseTypeOK /\ RowsTogether /\ AttemptsAgree /\ ChainIntact
  /\ MergedPrefix /\ NothingReused /\ ReleaseBudgetRespected
  /\ ClosedBelowLimit

(* What no call may do: close a circuit from a packet, or rewrite what is     *)
(* durable.                                                                   *)
ReleaseSteps == PacketsCannotClose /\ ReleaseDurable

=============================================================================

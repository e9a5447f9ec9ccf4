------------------------------ MODULE MCProgress ------------------------------
(***************************************************************************)
(* What must eventually happen, in the four components that carry on after *)
(* an interruption. part names the component that runs; the others do      *)
(* nothing, and components share the variables of the same name. The       *)
(* fairness is that of each component's own module.                        *)
(***************************************************************************)
EXTENDS Integers, Sequences, FiniteSets, TLC

CONSTANTS p1, p2, pr1, pr2, h1, h2, t1, r1, b1, b2, o1, o2, q1, e1, w1, idA, idC, x1,
          NoPacket, NoCommit, None

VARIABLES
  part,
  accepted, effects, charges, receipts, circuit,             \* ProtectedBroker
  now, gh, calls, sent, seen, svc, crashes, edits,
  bundles, steps, attempts, head, prs, wire, faults,         \* ReleaseBroker
  file, pending, unlinked, config, key, envelopes, proc, acked, view, \* ContinuityLedger
  journal, leaf, synced, scope, op, acks                     \* CaptureStaging

-----------------------------------------------------------------------------
(* The instances *)

Request ==
  LET Ask(h, x) == [action |-> "resolve_review_thread", pr |-> pr1, head |-> h,
                    thread |-> t1, expires |-> x]
  IN  (p1 :> Ask(h1, 1)) @@ (p2 :> Ask(h2, 2))

Broker == INSTANCE ProtectedBroker WITH
  Packets <- {p1, p2}, PRs <- {pr1}, Heads <- {h1, h2}, Threads <- {t1},
  Keys <- 1 .. 2, Times <- 0 .. 2, Window <- 1, DayLength <- 2,
  RequestsPerHour <- 2, DailyMutations <- 2,
  ActionDailyLimit <- [mark_pr_ready |-> 1, resolve_review_thread |-> 2],
  IndeterminateLimit <- 1, MaxCrashes <- 1, MaxEdits <- 0

\* Two packets for one repository and two pull requests, one after the other.
Order ==
  LET Ask(b, o, base, x) ==
        [bundle |-> b, assertion |-> o, repo |-> r1, base |-> base, size |-> 1,
         expires |-> x, window |-> 2, consent |-> 2]
  IN  (p1 :> Ask(b1, o1, 1, 1)) @@ (p2 :> Ask(b2, o2, 2, 2))

Release == INSTANCE ReleaseBroker WITH
  Packets <- {p1, p2}, Repos <- {r1}, Bundles <- {b1, b2}, Assertions <- {o1, o2},
  Commits <- 1 .. 3, Times <- 0 .. 2, Window <- 1, DayLength <- 2,
  RequestsPerHour <- 2, AssertionsPerHour <- 2, BundlesPerDay <- 2,
  AttemptsPerDay <- 2, MergesPerDay <- 2, IndeterminateLimit <- 2, MaxPRs <- 1,
  MaxCount <- 1, PRs <- {pr1, pr2}, PrOf <- (p1 :> pr1) @@ (p2 :> pr2),
  MaxExecution <- 1, MaxFaults <- 2, MaxEdits <- 0

\* One process at a time, the plugin among others; an importer writes w1, which
\* corrects the entry of e1.
Continuity == INSTANCE ContinuityLedger WITH
  Procs <- {q1}, Hook <- q1, Commands <- {"project", "init"}, Requests <- {e1},
  WriteIds <- {w1}, Ids <- {idA, idC}, Id <- (e1 :> idA) @@ (w1 :> idC),
  Target <- (e1 :> None) @@ (w1 :> idA), Suppressions <- {}, MaxTime <- 0,
  MaxKills <- 1, MaxLosses <- 0, MaxTorn <- 0, MaxSigned <- 1, MaxEdits <- 1,
  TTL <- 1, Skew <- 1

Staging == INSTANCE CaptureStaging WITH
  Outers <- {x1}, MaxSpawns <- 1, MaxKills <- 1, MaxRaises <- 1, MaxLosses <- 0,
  MaxTorn <- 1

-----------------------------------------------------------------------------
(* One component runs *)

brokerVars == <<effects, charges, gh, calls, seen, crashes>>
releaseVars == <<bundles, steps, attempts, prs, wire>>
continuityVars == <<file, pending, unlinked, config, key, envelopes, proc, acked, view>>
stagingVars == <<journal, leaf, synced, scope, op, acks>>
sharedVars == <<accepted, receipts, circuit, now, sent, svc, edits, head, faults>>
vars == <<part, sharedVars, brokerVars, releaseVars, continuityVars, stagingVars>>

BrokerOff ==
  /\ effects = 0 /\ charges = 0 /\ gh = 0 /\ calls = 0 /\ seen = 0 /\ crashes = 0
ReleaseOff == bundles = 0 /\ steps = 0 /\ attempts = 0 /\ prs = 0 /\ wire = 0
ContinuityOff ==
  /\ file = 0 /\ pending = 0 /\ unlinked = 0 /\ config = 0 /\ key = 0
  /\ envelopes = 0 /\ proc = 0 /\ acked = 0 /\ view = 0
StagingOff ==
  /\ journal = 0 /\ leaf = 0 /\ synced = 0 /\ scope = 0 /\ op = 0 /\ acks = 0

Init ==
  \/ /\ part = "broker" /\ Broker!Init
     /\ ReleaseOff /\ ContinuityOff /\ StagingOff /\ head = 0 /\ faults = 0
  \/ /\ part = "release" /\ Release!BrokerInit
     /\ BrokerOff /\ ContinuityOff /\ StagingOff /\ receipts = 0
  \/ /\ part = "continuity" /\ Continuity!Init
     /\ BrokerOff /\ ReleaseOff /\ StagingOff
     /\ accepted = 0 /\ receipts = 0 /\ circuit = 0 /\ sent = 0 /\ svc = 0
  \/ /\ part = "staging" /\ Staging!Init
     /\ BrokerOff /\ ReleaseOff /\ ContinuityOff /\ accepted = 0 /\ circuit = 0
     /\ now = 0 /\ sent = 0 /\ svc = 0 /\ edits = 0 /\ head = 0

Next ==
  \/ /\ part = "broker" /\ Broker!Next
     /\ UNCHANGED <<part, releaseVars, continuityVars, stagingVars, head, faults>>
  \/ /\ part = "release" /\ Release!BrokerNext
     /\ UNCHANGED <<part, brokerVars, continuityVars, stagingVars, receipts>>
  \/ /\ part = "continuity" /\ Continuity!Next
     /\ UNCHANGED <<part, brokerVars, releaseVars, stagingVars, accepted, receipts,
                    circuit, sent, svc>>
  \/ /\ part = "staging" /\ Staging!Next
     /\ UNCHANGED <<part, brokerVars, releaseVars, continuityVars, accepted, circuit,
                    now, sent, svc, edits, head>>

-----------------------------------------------------------------------------
(* Fairness *)

bVars == Broker!vars
rVars == Release!brokerVars
cVars == Continuity!vars
sVars == Staging!vars

\* Handlers run, time passes, and packets keep being retried.
BrokerFairness ==
  /\ WF_bVars(part = "broker" /\ Broker!Handle)
  /\ WF_bVars(part = "broker" /\ Broker!Tick)
  /\ SF_bVars(part = "broker" /\ \E p \in {p1, p2} : Broker!Receive(p))

\* The daemon serves, time passes, and a packet is sent until it is answered.
ReleaseFairness ==
  /\ WF_rVars(part = "release" /\ Release!Tick)
  /\ WF_rVars(part = "release" /\ Release!ServiceStep)
  /\ \A p \in {p1, p2} : SF_rVars(part = "release" /\ Release!Receive(p))

\* Processes go on unless killed; the plugin projects again and again.
ContinuityFairness ==
  /\ WF_cVars(part = "continuity" /\ Continuity!Step(q1))
  /\ SF_cVars(part = "continuity" /\ Continuity!Begin(q1, "project", None))
  /\ WF_cVars(part = "continuity" /\ Continuity!Acquire(q1))

\* The coordinator goes on unless killed, and a restarted one opens the session.
StagingFairness ==
  /\ WF_sVars(part = "staging" /\ Staging!Step)
  /\ WF_sVars(part = "staging" /\ Staging!Finishing)
  /\ WF_sVars(part = "staging" /\ Staging!Abandon)
  /\ SF_sVars(part = "staging" /\ Staging!CreateSession)

Spec ==
  /\ Init /\ [][Next]_vars
  /\ BrokerFairness /\ ReleaseFairness /\ ContinuityFairness /\ StagingFairness

-----------------------------------------------------------------------------
(* Properties *)

Charged(e) == part = "broker" /\ Broker!Charged(e)
Unanswered(p) == part = "release" /\ Release!Unanswered(p)

\* A charged attempt does not stay open while requests of any kind arrive:
\* recover_pending of the protected-action broker terminalizes it, records it
\* absent, or leaves it to its own packet's retry until that packet expires.
AttemptSettles ==
  \A e \in Broker!Effects : Charged(e) ~> ~ Charged(e)

\* Every accepted packet of the release broker gets its receipt in the end, and
\* with it the repository is free again: also after two absent attempts, when
\* the step is pending and can no longer begin a mutation.
AcceptedAnswered ==
  \A p \in {p1, p2} : Unanswered(p) ~> ~ Unanswered(p)

\* An interrupted transaction of the continuity ledger is reconciled by the
\* plugin's next projections, once no other process is at work and the importer
\* is configured.
TransactionReconciled ==
  <>[](part = "continuity" => Continuity!Undisturbed)
    => []<>(part = "continuity" => pending = Continuity!NoTx)

\* An interrupted capture session whose leaf the reconciliation accepts gets
\* its terminal receipt in the end (_reconcile_selected_session).
SessionReconciled == []<>(part = "staging" => (Staging!Accepted => receipts # {}))

=============================================================================

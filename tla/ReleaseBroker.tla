------------------------------ MODULE ReleaseBroker ------------------------------
(***************************************************************************)
(* The protected release broker at work                                    *)
(* (release_broker/john_lomein_release_broker_service.py, its daemon, its  *)
(* preflight and its GitHub client) over ReleaseStore.                     *)
(*                                                                         *)
(* One daemon handles one request at a time for one repository. A live     *)
(* bundle has one pull request, so every step is step 1. Between two       *)
(* actions the daemon can die, people can work on GitHub and a merge call  *)
(* whose sender has given up can still be carried out.                     *)
(***************************************************************************)
EXTENDS ReleaseStore

CONSTANTS
  PRs, PrOf,             \* pull requests; the one each packet asks to merge
  MaxExecution,          \* maximum_execution_seconds
  MaxFaults, MaxEdits    \* bounds: deaths and signing failures, people's changes

\* validate_packet_binding refuses a packet for another repository than the
\* configured one. The clock starts at 0.
ASSUME BrokerAssumption ==
  /\ PrOf \in [Packets -> PRs]
  /\ \A p, q \in Packets : Order[p].repo = Order[q].repo
  /\ Commits \subseteq Nat
  /\ 0 \in Times
  /\ MaxExecution \in Nat /\ MaxFaults \in Nat /\ MaxEdits \in Nat

VARIABLES
  now,
  head,     \* the newest commit of the default branch
  prs,      \* the pull requests
  wire,     \* merge calls under way, by packet
  sent,     \* merge calls ever sent, by packet
  svc,      \* the request in hand
  faults, edits

worldVars == <<now, head, prs, wire, edits>>
brokerVars == <<releaseVars, worldVars, sent, svc, faults>>

\* open: on the authorized head and clean; moved: anything else that is not
\* merged; merged by the broker's App, or taken: merged by somebody else.
\* by is the packet whose call merged it.
PullRequest == [state : {"open", "moved", "merged", "taken"},
                commit : Commits \cup {NoCommit}, parent : Commits \cup {NoCommit},
                by : Packets \cup {NoPacket}]
OpenRequest == [state |-> "open", commit |-> NoCommit, parent |-> NoCommit,
                by |-> NoPacket]

Phases == {"down", "idle", "recover", "sweep", "live", "charge", "fence", "send",
           "await", "readback", "stop", "terminal"}

\* packet is NoPacket during the recovery at startup; target is the bundle
\* that is about to get its receipt, and then the phase that follows.
Idle == [pc |-> "idle", packet |-> NoPacket, started |-> 0, merge |-> NoCommit,
         target |-> NoPacket, outcome |-> "none", mode |-> "none",
         then |-> "idle"]
Down == [Idle EXCEPT !.pc = "down"]

ServiceType == [pc : Phases, packet : Packets \cup {NoPacket}, started : Times,
                merge : Commits \cup {NoCommit}, target : Packets \cup {NoPacket},
                outcome : Outcomes \cup {"none"},
                mode : {"none", "threshold", "immediate"},
                then : {"idle", "recover"}]

BrokerTypeOK ==
  /\ ReleaseTypeOK
  /\ now \in Times
  /\ head \in Commits
  /\ prs \in [PRs -> PullRequest]
  /\ wire \in [Packets -> 0 .. 2] /\ sent \in [Packets -> 0 .. 2]
  /\ svc \in ServiceType
  /\ faults \in 0 .. MaxFaults /\ edits \in 0 .. MaxEdits

BrokerInit ==
  /\ ReleaseInit
  /\ now \in Times /\ \A t \in Times : now <= t
  /\ head \in Commits /\ \A c \in Commits : head <= c
  /\ prs = [r \in PRs |-> OpenRequest]
  /\ wire = [p \in Packets |-> 0] /\ sent = [p \in Packets |-> 0]
  /\ svc = Down
  /\ faults = 0 /\ edits = 0

-----------------------------------------------------------------------------
(* GitHub and its people *)

Tick ==
  /\ now + 1 \in Times
  /\ now' = now + 1
  /\ UNCHANGED <<releaseVars, head, prs, wire, edits, sent, svc, faults>>

Squashed(r, state, p) ==
  /\ prs[r].state = "open"
  /\ head + 1 \in Commits
  /\ head' = head + 1
  /\ prs' = [prs EXCEPT ![r] = [state |-> state, commit |-> head + 1,
                                parent |-> head, by |-> p]]

\* Somebody pushes to the default branch, changes a pull request (its head,
\* draft state, checks or reviews) and perhaps back, or merges it.
Edit ==
  /\ edits < MaxEdits /\ edits' = edits + 1
  /\ \/ head + 1 \in Commits /\ head' = head + 1 /\ prs' = prs
     \/ \E r \in PRs :
          \/ /\ prs[r].state \in {"open", "moved"}
             /\ prs' = [prs EXCEPT ![r].state = IF @ = "open" THEN "moved" ELSE "open"]
             /\ head' = head
          \/ Squashed(r, "taken", NoPacket)
  /\ UNCHANGED <<releaseVars, now, wire, sent, svc, faults>>

\* The PUT names the head, not the base: GitHub merges the pull request on
\* whatever the default branch is when it gets to it. The answer reaches the
\* sender if it still waits and the call is its own.
GitHubMerge(p) ==
  /\ wire[p] > 0
  /\ wire' = [wire EXCEPT ![p] = @ - 1]
  /\ Squashed(PrOf[p], "merged", p)
  /\ \/ /\ svc.pc = "await" /\ svc.packet = p
        /\ svc' = [svc EXCEPT !.merge = head + 1]
     \/ /\ (svc.pc = "await" /\ svc.packet = p) => wire[p] > 1
        /\ svc' = svc
  /\ UNCHANGED <<releaseVars, now, edits, sent, faults>>

GitHubRefuse(p) ==
  /\ wire[p] > 0
  /\ wire' = [wire EXCEPT ![p] = @ - 1]
  /\ UNCHANGED <<releaseVars, now, head, prs, edits, sent, svc, faults>>

-----------------------------------------------------------------------------
(* What the readback shows *)

\* validate_preflight and the bindings of _readback_is_exactly_absent: the pull
\* request as authorized, on the authorized base.
Untouched(p) == prs[PrOf[p]].state = "open" /\ head = Order[p].base

\* Mutant: who merged is not compared.
ReadbackOkAnyActor(p, merge) ==
  LET r == prs[PrOf[p]] IN
  r.commit = merge /\ head = merge /\ r.parent = Order[p].base

\* _validate_readback, validate_merge_readback: merged by the App, and that
\* merge is the newest commit, on the authorized base. Its tree is then the
\* approved one.
ReadbackOk(p, merge) ==
  LET r == prs[PrOf[p]] IN
  /\ r.state = "merged" /\ r.commit = merge
  /\ head = merge /\ r.parent = Order[p].base

-----------------------------------------------------------------------------
(* The request in hand *)

Goto(pc) == svc' = [svc EXCEPT !.pc = pc]
Elsewhere == UNCHANGED <<worldVars, sent, faults>>

\* Mutant: the receipt takes the state of the step for its outcome.
ReportStepState(p, outcome, mode, then) ==
  svc' = [svc EXCEPT !.pc = "terminal", !.target = p, !.outcome = steps[<<p, 1>>].state,
                     !.mode = mode, !.then = then]

\* The bundle of p is about to get the receipt.
Report(p, outcome, mode, then) ==
  svc' = [svc EXCEPT !.pc = "terminal", !.target = p, !.outcome = outcome,
                     !.mode = mode, !.then = then]

\* main of the daemon: recover_pending without a packet to retry.
Start ==
  /\ svc.pc = "down"
  /\ svc' = [Idle EXCEPT !.pc = "recover"]
  /\ UNCHANGED releaseVars /\ Elsewhere

\* handle, on an accepted packet without a receipt.
Receive(p) ==
  /\ svc.pc = "idle"
  /\ accepted[p] # Never /\ bundles[p] \notin Outcomes
  /\ svc' = [Idle EXCEPT !.pc = "recover", !.packet = p, !.started = now]
  /\ UNCHANGED releaseVars /\ Elsewhere

\* handle, on a new packet; a refused reservation changes nothing.
Accept(p) ==
  /\ svc.pc = "idle"
  /\ Reserve(p, now)
  /\ svc' = [Idle EXCEPT !.pc = "live", !.packet = p, !.started = now]
  /\ Elsewhere

-----------------------------------------------------------------------------
(* recover_pending *)

OpenAttempts == {p \in Packets : steps[<<p, 1>>].state = "mutation_pending"}
Open(p) == steps[<<p, 1>>].active

\* _record_and_terminalize_indeterminate, up to the receipt.
Unknown(p, mode, then) ==
  /\ RecordIndeterminate(p, 1, Open(p), mode)
  /\ Report(p, "indeterminate", mode, then)

Confirm(p, then) ==
  LET r == prs[PrOf[p]] IN
  /\ ConfirmStep(p, 1, Open(p), r.commit, r.parent)
  /\ Report(p, "succeeded", "none", then)

\* _recover_one
RecoverUnavailable(p) ==
  /\ svc.pc = "recover" /\ p \in OpenAttempts
  /\ Unknown(p, "threshold", "recover")
  /\ Elsewhere

RecoverMerged(p) ==
  /\ svc.pc = "recover" /\ p \in OpenAttempts
  /\ ReadbackOk(p, prs[PrOf[p]].commit)
  /\ Confirm(p, "recover")
  /\ Elsewhere

RecoverMismatch(p) ==
  /\ svc.pc = "recover" /\ p \in OpenAttempts
  /\ ~ ReadbackOk(p, prs[PrOf[p]].commit)
  /\ ~ Untouched(p)
  /\ Unknown(p, "immediate", "recover")
  /\ Elsewhere

\* "only an exact replay unlocks absence"
RecoverAbsent(p) ==
  /\ svc.pc = "recover" /\ p \in OpenAttempts
  /\ Untouched(p)
  /\ IF svc.packet = p
     THEN RecordAbsent(p, 1, Open(p)) /\ Goto("recover")
     ELSE UNCHANGED releaseVars /\ Goto("sweep")
  /\ Elsewhere

RecoverDone ==
  /\ svc.pc = "recover" /\ OpenAttempts = {}
  /\ Goto("sweep")
  /\ UNCHANGED releaseVars /\ Elsewhere

\* bundles_awaiting_terminal_receipt, but for those _snapshot_terminal_receipt
\* leaves alone.
AwaitingReceipt == {p \in Packets :
  /\ bundles[p] \in ActiveStates
  /\ steps[<<p, 1>>].state \in {"confirmed", "rejected", "indeterminate"}}

\* _snapshot_terminal_receipt
SweepReceipt(p) ==
  /\ svc.pc = "sweep" /\ p \in AwaitingReceipt
  /\ TerminalizeBundle(p,
       [confirmed |-> "succeeded", rejected |-> "rejected",
        indeterminate |-> "indeterminate"][steps[<<p, 1>>].state],
       IF steps[<<p, 1>>].state = "indeterminate" THEN "threshold" ELSE "none")
  /\ Goto("sweep")
  /\ Elsewhere

\* The startup is over, the recovery has answered the packet, or its
\* reservation is taken up again.
SweepDone ==
  /\ svc.pc = "sweep" /\ AwaitingReceipt = {}
  /\ IF svc.packet = NoPacket \/ bundles[svc.packet] \in Outcomes
     THEN svc' = Idle ELSE Goto("live")
  /\ UNCHANGED releaseVars /\ Elsewhere

-----------------------------------------------------------------------------
(* _handle_reserved *)

\* Mutant: the expiry is compared only for a packet that was never tried.
PacketExpiredUntried(p) == svc.started >= Order[p].expires /\ Tried(p, 1) = {}

\* _packet_expired
PacketExpired(p) == svc.started >= Order[p].expires

\* The packet has expired, or the snapshot or its validation fails: always
\* possible, because checks, reviews and the policy are not modelled.
RejectLive ==
  /\ svc.pc = "live"
  /\ Goto("stop")
  /\ UNCHANGED releaseVars /\ Elsewhere

Preflight ==
  /\ svc.pc = "live"
  /\ ~ PacketExpired(svc.packet)
  /\ Untouched(svc.packet)
  /\ Goto("charge")
  /\ UNCHANGED releaseVars /\ Elsewhere

ChargeAttempt ==
  /\ svc.pc = "charge"
  /\ BeginMutation(svc.packet, 1, Order[svc.packet].base, now)
  /\ Goto("fence")
  /\ Elsewhere

\* BudgetExceeded, CircuitOpenError
RefuseCharge ==
  /\ svc.pc = "charge"
  /\ InWindow(svc.packet, now)
  /\ \/ ~ CircuitClosed(svc.packet)
     \/ /\ MayBegin(svc.packet, 1, Order[svc.packet].base)
        /\ ~ AttemptBudgetLeft(now)
  /\ Goto("stop")
  /\ UNCHANGED releaseVars /\ Elsewhere

\* StateTransitionError is not caught: the window has passed or both attempts
\* are used up, and the daemon answers broker_failure.
FailCharge ==
  /\ svc.pc = "charge"
  /\ \/ ~ InWindow(svc.packet, now)
     \/ /\ CircuitClosed(svc.packet)
        /\ ~ MayBegin(svc.packet, 1, Order[svc.packet].base)
  /\ svc' = Idle
  /\ UNCHANGED releaseVars /\ Elsewhere

\* validate_immediate_base_fence and the execution window.
FenceHolds ==
  /\ svc.pc = "fence"
  /\ now - svc.started <= MaxExecution
  /\ head = Order[svc.packet].base
  /\ Goto("send")
  /\ UNCHANGED releaseVars /\ Elsewhere

\* _record_known_absent
FenceFails ==
  /\ svc.pc = "fence"
  /\ RecordAbsent(svc.packet, 1, Open(svc.packet))
  /\ Goto("stop")
  /\ Elsewhere

\* merge_pull_request
Send ==
  /\ svc.pc = "send"
  /\ wire' = [wire EXCEPT ![svc.packet] = @ + 1]
  /\ sent' = [sent EXCEPT ![svc.packet] = @ + 1]
  /\ Goto("await")
  /\ UNCHANGED <<releaseVars, now, head, prs, edits, faults>>

MergeAnswered ==
  /\ svc.pc = "await" /\ svc.merge # NoCommit
  /\ Goto("readback")
  /\ UNCHANGED releaseVars /\ Elsewhere

\* Mutant: a merge call without an answer is sent once more.
MergeUnansweredResends ==
  /\ svc.pc = "await"
  /\ sent[svc.packet] < 2
  /\ Goto("send")
  /\ UNCHANGED releaseVars /\ Elsewhere

\* Mutant: a merge call without an answer is reported to the client only.
MergeUnansweredForgets ==
  /\ svc.pc = "await"
  /\ svc' = Idle
  /\ UNCHANGED releaseVars /\ Elsewhere

\* The call is refused, fails or times out, or its answer is lost.
MergeUnanswered ==
  /\ svc.pc = "await"
  /\ Unknown(svc.packet, "threshold", "idle")
  /\ Elsewhere

ReadBack ==
  /\ svc.pc = "readback"
  /\ \/ ReadbackOk(svc.packet, svc.merge) /\ Confirm(svc.packet, "idle")
     \/ ~ ReadbackOk(svc.packet, svc.merge) /\ Unknown(svc.packet, "immediate", "idle")
     \/ Unknown(svc.packet, "threshold", "idle")
  /\ Elsewhere

\* _stop_and_reject
Stop ==
  /\ svc.pc = "stop"
  /\ StopStep(svc.packet, 1, "rejected")
  /\ Report(svc.packet, "rejected", "none", "idle")
  /\ Elsewhere

\* _terminalize
Terminalize ==
  /\ svc.pc = "terminal"
  /\ TerminalizeBundle(svc.target, svc.outcome, svc.mode)
  /\ svc' = IF svc.then = "idle" THEN Idle
            ELSE [svc EXCEPT !.pc = "recover", !.target = NoPacket,
                             !.outcome = "none", !.mode = "none", !.then = "idle"]
  /\ Elsewhere

\* The receipt cannot be built or signed. handle opens the circuit; the error
\* of a recovery ends the request or the startup.
SigningFails ==
  /\ faults < MaxFaults /\ faults' = faults + 1
  /\ svc.pc = "terminal"
  /\ IF svc.then = "idle" THEN OpenCircuit(Order[svc.target].repo)
     ELSE UNCHANGED releaseVars
  /\ svc' = IF svc.packet = NoPacket THEN Down ELSE Idle
  /\ UNCHANGED <<worldVars, sent>>

Crash ==
  /\ faults < MaxFaults /\ faults' = faults + 1
  /\ svc.pc # "down"
  /\ svc' = Down
  /\ UNCHANGED <<releaseVars, worldVars, sent>>

\* close_circuit
Operator ==
  /\ \E r \in Repos : circuit[r].open /\ CloseCircuit(r)
  /\ svc' = svc
  /\ Elsewhere

ServiceStep ==
  \/ Start
  \/ \E p \in Packets : \/ RecoverUnavailable(p) \/ RecoverMerged(p)
                        \/ RecoverMismatch(p) \/ RecoverAbsent(p)
                        \/ SweepReceipt(p)
  \/ RecoverDone \/ SweepDone
  \/ RejectLive \/ Preflight \/ ChargeAttempt \/ RefuseCharge \/ FailCharge
  \/ FenceHolds \/ FenceFails \/ Send \/ MergeAnswered \/ MergeUnanswered
  \/ ReadBack \/ Stop \/ Terminalize

BrokerNext ==
  \/ ServiceStep
  \/ \E p \in Packets : Receive(p) \/ Accept(p) \/ GitHubMerge(p) \/ GitHubRefuse(p)
  \/ SigningFails \/ Crash \/ Operator \/ Tick \/ Edit

BrokerSpec == BrokerInit /\ [][BrokerNext]_brokerVars

-----------------------------------------------------------------------------
(* Properties *)

(* A phase that works for a packet has one, and a bundle about to get its     *)
(* receipt has an outcome (_handle_reserved, _terminalize).                   *)
PacketInHand ==
  /\ svc.pc \in {"live", "charge", "fence", "send", "await", "readback", "stop"} =>
       svc.packet \in Packets
  /\ svc.pc = "terminal" => svc.target \in Packets /\ svc.outcome \in Outcomes
  /\ svc.pc \in {"idle", "down"} => svc.packet = NoPacket

(* An attempt is open only while its bundle is (begin_mutation,               *)
(* terminalize_bundle).                                                       *)
OpenWhileActive ==
  \A p \in OpenAttempts : bundles[p] \in ActiveStates

(* While a request for a packet is in hand no other bundle is at work, and    *)
(* past the recovery of the request nothing is open but what it charged.      *)
OneAtWork ==
  svc.packet # NoPacket =>
    /\ \A p \in Packets : bundles[p] \in ActiveStates => p = svc.packet
    /\ svc.pc \in {"sweep", "live", "charge", "stop", "terminal"} => OpenAttempts = {}

(* Every merge made a commit of its own, and what a step has confirmed was    *)
(* merged by the App on the authorized base (_validate_readback).             *)
ConfirmedMerged ==
  /\ \A r \in PRs :
       /\ prs[r].commit = NoCommit <=> prs[r].state \in {"open", "moved"}
       /\ prs[r].commit # NoCommit => prs[r].commit <= head
  /\ \A r, s \in PRs :
       r # s /\ prs[r].commit # NoCommit => prs[r].commit # prs[s].commit
  /\ \A p \in Packets :
       steps[<<p, 1>>].state = "confirmed" =>
         /\ prs[PrOf[p]].state = "merged"
         /\ prs[PrOf[p]].parent = Order[p].base
         /\ prs[PrOf[p]].commit = steps[<<p, 1>>].merge

(* Once a packet is credited with the merge of its pull request, no other     *)
(* packet for that pull request is or can become so: its preflight would have *)
(* to find it open (validate_preflight, reserve).                             *)
CreditGone ==
  \A p, q \in Packets :
    p # q /\ PrOf[p] = PrOf[q] /\ steps[<<p, 1>>].state = "confirmed" =>
      /\ steps[<<q, 1>>].state \notin {"mutation_pending", "confirmed"}
      /\ svc.pc = "charge" => svc.packet # q

(* What is charged and not yet sent is owed by the request about to send it.  *)
SendOwed ==
  \A p \in Packets :
    /\ wire[p] <= sent[p] /\ sent[p] <= Cardinality(Tried(p, 1))
    /\ svc.pc \in {"fence", "send"} /\ svc.packet = p =>
         sent[p] < Cardinality(Tried(p, 1))

(* "a post-mutation tree, parent, or actor mismatch becomes indeterminate,    *)
(* never success": a succeeded bundle is merged on GitHub by the App, on the  *)
(* authorized base, as the commit its step records, whoever pushed when and   *)
(* wherever the daemon died.                                                  *)
SucceededMerged ==
  \A p \in Packets : bundles[p] = "succeeded" =>
    /\ prs[PrOf[p]].state = "merged"
    /\ prs[PrOf[p]].parent = Order[p].base
    /\ prs[PrOf[p]].commit = steps[<<p, 1>>].merge

(* "crash recovery ... never blindly repeats an ambiguous merge": every merge *)
(* call belongs to a charged attempt of its own, and a second one goes out    *)
(* only after the first attempt was read back as absent.                      *)
SentOnlyCharged ==
  \A p \in Packets :
    /\ sent[p] <= Cardinality(Tried(p, 1))
    /\ sent[p] = 2 => attempts[<<p, 1, 1>>].state = "absent"

(* One merge is credited to one bundle, although a bundle for the same pull   *)
(* request may be accepted while the merge call of an earlier one is still    *)
(* under way.                                                                 *)
MergeCreditedOnce ==
  \A p, q \in Packets :
    p # q /\ bundles[p] = "succeeded" /\ bundles[q] = "succeeded" =>
      steps[<<p, 1>>].merge # steps[<<q, 1>>].merge

(* A request that comes to an end, by whichever way out of handle, leaves no  *)
(* charged attempt open.                                                      *)
RequestSettles ==
  [][svc.pc \notin {"idle", "down"} /\ svc.packet # NoPacket /\ svc'.pc = "idle" =>
       OpenAttempts' = {}]_brokerVars

(* An accepted packet that has no receipt yet.                                *)
Unanswered(p) == accepted[p] # Never /\ bundles[p] \notin Outcomes

(* The merges on GitHub and the bundles of the store agree: what succeeded    *)
(* was merged, once, by a call that was charged, and a call is repeated only  *)
(* after its attempt was read back as absent.                                 *)
MergesTrue ==
  /\ BrokerTypeOK /\ PacketInHand /\ OpenWhileActive /\ OneAtWork
  /\ ConfirmedMerged /\ CreditGone /\ SendOwed
  /\ SucceededMerged /\ MergeCreditedOnce /\ SentOnlyCharged

=============================================================================

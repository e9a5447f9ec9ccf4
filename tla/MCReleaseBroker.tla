---------------------------- MODULE MCReleaseBroker ----------------------------
(***************************************************************************)
(* Two packets for one repository and one pull request at the release      *)
(* broker; the clients of both brokers, with two runs and one packet or    *)
(* one run and two packets; the bundler that puts together what is asked;  *)
(* and every release receipt payload of up to two steps. part says which   *)
(* of the eight runs.                                                      *)
(***************************************************************************)
EXTENDS ReleaseBroker, Sequences, TLC

CONSTANTS p1, p2, r1, b1, b2, o1, o2, pr1, pr2, c1, c2

VARIABLES
  part, payload,
  clock, chain, handler, run, file, told, trouble, loads,
  pending, tries, effect, moved,
  step, pull, disk, back,
  requests, tip, verdicts, receipts, bundler, bundleFiles, shown, remembered, merges, changes,
  bundlings

Ask(b, o, base, expires) ==
  [bundle |-> b, assertion |-> o, repo |-> r1, base |-> base, size |-> 1,
   expires |-> expires, window |-> 2, consent |-> 2]

MCOrder == (p1 :> Ask(b1, o1, 1, 1)) @@ (p2 :> Ask(b2, o2, 1, 2))
SamePr == (p1 :> pr1) @@ (p2 :> pr1)

MCTimes == 0 .. 2
MCCommits == 1 .. 3

-----------------------------------------------------------------------------
(* The clients.                                                              *)

Asked ==
  (p1 :> [action |-> "mark_pr_ready", targets |-> 0, draft |-> TRUE, open |-> 0,
          proven |-> TRUE, seen |-> 1, created |-> 1, expires |-> 3]) @@
  (p2 :> [action |-> "resolve_review_thread", targets |-> 1, draft |-> FALSE, open |-> 1,
          proven |-> TRUE, seen |-> 1, created |-> 2, expires |-> 3])

Release(id, created, expires, window, consent) ==
  [id |-> id, base |-> 1, created |-> created, expires |-> expires,
   bundle |-> [id |-> id, created |-> 1, expires |-> window, size |-> 1, within |-> TRUE],
   assertion |-> [of |-> id, issued |-> 1, expires |-> consent]]
Releases == (p1 :> Release(1, 1, 3, 4, 3)) @@ (p2 :> Release(2, 2, 4, 4, 4))

TwoRuns == INSTANCE ProtectedClient WITH
  Packets <- {p1}, Runs <- {c1, c2}, MaxLoads <- 3, MaxTrouble <- 2, MaxTime <- 3,
  Skew <- 1, MinTtl <- 1, MaxTtl <- 3, MaxAge <- 2, attempts <- tries
TwoPackets == INSTANCE ProtectedClient WITH
  Packets <- {p1, p2}, Runs <- {c1}, MaxLoads <- 3, MaxTrouble <- 1, MaxTime <- 3,
  Skew <- 1, MinTtl <- 1, MaxTtl <- 3, MaxAge <- 2, attempts <- tries
ReleaseRuns == INSTANCE ReleaseClient WITH
  Packets <- {p1}, Asked <- Releases, Runs <- {c1, c2}, MaxLoads <- 2, MaxTrouble <- 2,
  MaxTime <- 5, Skew <- 1, MinTtl <- 1, MaxTtl <- 4, MaxDuration <- 2
ReleasePackets == INSTANCE ReleaseClient WITH
  Packets <- {p1, p2}, Asked <- Releases, Runs <- {c1}, MaxLoads <- 2, MaxTrouble <- 1,
  MaxTime <- 5, Skew <- 1, MinTtl <- 1, MaxTtl <- 4, MaxDuration <- 2

\* Every head changes paths of its own.
HeadPaths(head_) == {head_}
OneRequest == INSTANCE ReleaseBundle WITH
  PullRequests <- 1, Heads <- 2, PathsOf <- HeadPaths, Roles <- {"overwatch"},
  MaxBase <- 3, MaxRuns <- 1, MaxChanges <- 6,
  base <- tip, bundles <- bundleFiles, told <- shown, runs <- bundlings
TwoRequests == INSTANCE ReleaseBundle WITH
  PullRequests <- 2, Heads <- 1, PathsOf <- HeadPaths, Roles <- {"overwatch"},
  MaxBase <- 2, MaxRuns <- 1, MaxChanges <- 5,
  base <- tip, bundles <- bundleFiles, told <- shown, runs <- bundlings

ASSUME BundleAssumption == OneRequest!BundleConstants /\ TwoRequests!BundleConstants
ASSUME ClientAssumption == TwoPackets!ClientConstants /\ ReleasePackets!ReleaseClientConstants

\* Steps of a payload, by outcome, base, merge and parent, in the first or the
\* second second; payloads of one and two of them.
PayloadSteps(second) ==
  [outcome : ReleaseRuns!StepOutcomes, base : {1, 2}, merge : {0, 2, 3}, parent : {0, 1, 2},
   attempted : {0, second}, started : {second}, completed : {second}]
PayloadsOf(steps_) ==
  [of : {1}, base : {1}, size : {Len(steps_)}, steps : {steps_},
   outcome : ReleaseRuns!TerminalOutcomes, started : {1}, completed : {2},
   final : [head : {0, 2, 3}, observed : {0, 2}]]

-----------------------------------------------------------------------------
(* The parts.                                                                *)

clientVars == <<clock, chain, handler, run, file, told, trouble, loads>>
protectedVars == <<pending, tries, effect, moved>>
releaseClientVars == <<step, pull, disk, back>>
bundlerVars == <<requests, tip, verdicts, receipts, bundler, bundleFiles, shown, remembered, merges,
                 changes, bundlings>>
suiteVars == <<part, payload, brokerVars, clientVars, protectedVars, releaseClientVars, bundlerVars>>

ProtectedParked == pending = <<>> /\ tries = <<>> /\ effect = {} /\ moved = {}
ReleaseParked == step = <<>> /\ pull = <<>> /\ disk = <<>> /\ back = FALSE
Parked ==
  /\ clock = 0 /\ chain = <<>> /\ handler = <<>> /\ run = <<>> /\ file = <<>> /\ told = <<>>
  /\ trouble = 0 /\ loads = 0 /\ ProtectedParked /\ ReleaseParked

SuiteInit ==
  /\ BrokerInit
  /\ \/ part = "broker" /\ payload = <<>> /\ Parked
     \/ /\ part = "payload" /\ Parked
        /\ \E first \in PayloadSteps(1) :
             \/ payload \in PayloadsOf(<<first>>)
             \/ \E second \in PayloadSteps(2) : payload \in PayloadsOf(<<first, second>>)
     \/ part \in {"one request", "two requests"} /\ payload = <<>> /\ Parked
     \/ part = "two runs" /\ payload = <<>> /\ TwoRuns!ClientInit /\ ReleaseParked
     \/ part = "two packets" /\ payload = <<>> /\ TwoPackets!ClientInit /\ ReleaseParked
     \/ part = "release runs" /\ payload = <<>> /\ ReleaseRuns!ReleaseClientInit
        /\ ProtectedParked
     \/ part = "release packets" /\ payload = <<>> /\ ReleasePackets!ReleaseClientInit
        /\ ProtectedParked
  /\ IF part = "two requests" THEN TwoRequests!BundleInit ELSE OneRequest!BundleInit

SuiteNext ==
  /\ UNCHANGED <<part, payload>>
  /\ \/ /\ part = "broker" /\ BrokerNext
        /\ UNCHANGED <<clientVars, protectedVars, releaseClientVars, bundlerVars>>
     \/ /\ part = "two runs" /\ TwoRuns!ClientNext
        /\ UNCHANGED <<brokerVars, releaseClientVars, bundlerVars>>
     \/ /\ part = "two packets" /\ TwoPackets!ClientNext
        /\ UNCHANGED <<brokerVars, releaseClientVars, bundlerVars>>
     \/ /\ part = "release runs" /\ ReleaseRuns!ReleaseClientNext
        /\ UNCHANGED <<brokerVars, protectedVars, bundlerVars>>
     \/ /\ part = "release packets" /\ ReleasePackets!ReleaseClientNext
        /\ UNCHANGED <<brokerVars, protectedVars, bundlerVars>>
     \/ /\ \/ part = "one request" /\ OneRequest!BundleNext
           \/ part = "two requests" /\ TwoRequests!BundleNext
        /\ UNCHANGED <<brokerVars, clientVars, protectedVars, releaseClientVars>>

SuiteSpec == SuiteInit /\ [][SuiteNext]_suiteVars

-----------------------------------------------------------------------------
(* Properties *)

\* What the clients of both brokers say is true, durable and said of one
\* receipt; what a broker signs its client accepts; a recovery can always be
\* signed; the release broker's receipts form a chain that verifies, and a
\* bundle that ended can get one; every payload the rules let through says what
\* happened (john-lomein-protected-submit.py, john-lomein-release-submit.py and
\* the receipts modules of both brokers). A bundle, whatever moved while it was
\* put together, names heads that were reviewed, and only what it shows is
\* merged on its authority (john-lomein-release-bundler.py).
ClientSafe ==
  /\ part = "two runs" => TwoRuns!ClientSafe
  /\ part = "two packets" => TwoPackets!ClientSafe
  /\ part = "release runs" => ReleaseRuns!ReleaseClientSafe
  /\ part = "release packets" => ReleasePackets!ReleaseClientSafe
  /\ part = "one request" => OneRequest!BundleSafe
  /\ part = "two requests" => TwoRequests!BundleSafe
  /\ part = "payload" => ReleaseRuns!PayloadTells(payload)

=============================================================================

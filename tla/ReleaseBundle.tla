---------------------------- MODULE ReleaseBundle -----------------------------
(***************************************************************************)
(* How a release bundle comes about (john-lomein-release-bundler.py): the  *)
(* open pull requests are inspected with one GitHub call after the other   *)
(* while people push, review and merge; what was clean, with the review    *)
(* quorum of its head (john_lomein_review_quorum.py), is written into one  *)
(* bundle, and the owner is told. The release broker compares an approved  *)
(* bundle with GitHub once more before it merges (validate_preflight,      *)
(* select_codex_evidence); its steps are the subject of ReleaseBroker.     *)
(*                                                                         *)
(* A head is a number, the tree of a merge is the base and head it joins,  *)
(* the paths a pull request changes are named by PathsOf of its head, and  *)
(* a bundle is its content, of which its identifier is the digest.         *)
(***************************************************************************)
EXTENDS Integers, Sequences, FiniteSets

CONSTANTS
  PullRequests,      \* how many, numbered in the order they were created
  Heads,             \* the heads each of them may have
  PathsOf(_),        \* the changed paths of a head
  Roles,             \* required_roles of the review policy
  MaxBase, MaxRuns, MaxChanges

BundleConstants ==
  /\ {PullRequests, Heads, MaxBase, MaxRuns, MaxChanges} \subseteq Nat
  /\ PullRequests > 0 /\ Heads > 0 /\ MaxBase > 0 /\ IsFiniteSet(Roles)

Numbers == 1 .. PullRequests
HeadSet == 1 .. Heads

VARIABLES
  requests,    \* GitHub: the pull requests
  base,        \* GitHub: the tip of the default branch, counted
  verdicts,    \* GitHub: what Codex said last of each head
  receipts,    \* the role review receipts
  bundler,     \* one run of the bundler
  bundles,     \* the bundle files, complete and durable
  told, remembered,   \* what the owner was told; .last-owner-action-fingerprint
  merges,      \* what the broker merged, with what was so at that moment
  changes, runs

bundleVars == <<requests, base, verdicts, receipts, bundler, bundles, told, remembered, merges,
                changes, runs>>

Opened == [open |-> TRUE, head |-> 1, draft |-> FALSE, checks |-> "none", threads |-> FALSE]
NoEntry == [number |-> 0, head |-> 0, checks |-> "none", draft |-> FALSE, clean |-> FALSE,
            paths |-> {}, tree |-> <<0, 0>>]
NoBundle == [base |-> 0, ordered |-> <<>>]
Idle == [pc |-> "off", queue |-> <<>>, entry |-> NoEntry, clean |-> <<>>, bundle |-> NoBundle]

BundleInit ==
  /\ requests = [n \in Numbers |-> Opened] /\ base = 1
  /\ verdicts = [n \in Numbers |-> [h \in HeadSet |-> "none"]]
  /\ receipts = [n \in Numbers |-> [h \in HeadSet |-> [role \in Roles |-> "none"]]]
  /\ bundler = Idle /\ bundles = {} /\ told = {} /\ remembered = NoBundle
  /\ merges = {} /\ changes = 0 /\ runs = 0

World == <<requests, base, verdicts, receipts, changes>>
Outputs == <<bundles, told, remembered>>

-----------------------------------------------------------------------------
(* People, Codex, checks and the role reviewers                              *)

Changed == changes < MaxChanges /\ changes' = changes + 1
Elsewhere == UNCHANGED <<bundler, bundles, told, remembered, merges, runs>>

\* External: a push, also back to an earlier head; the checks start again.
Push(n) ==
  \E h \in HeadSet \ {requests[n].head} :
    /\ requests[n].open /\ Changed
    /\ requests' = [requests EXCEPT ![n].head = h, ![n].checks = "none"]
    /\ UNCHANGED <<base, verdicts, receipts>> /\ Elsewhere

\* External: checks end, a thread or a draft is opened or closed.
Alter(n) ==
  \E altered \in {[requests[n] EXCEPT !.checks = c] : c \in {"success", "failed"}}
                 \cup {[requests[n] EXCEPT !.threads = ~ @], [requests[n] EXCEPT !.draft = ~ @]} :
    /\ requests[n].open /\ Changed /\ altered # requests[n]
    /\ requests' = [requests EXCEPT ![n] = altered]
    /\ UNCHANGED <<base, verdicts, receipts>> /\ Elsewhere

\* External: Codex reviews the head it finds.
CodexReviews(n) ==
  \E v \in {"clean", "adverse"} :
    /\ requests[n].open /\ Changed
    /\ verdicts' = [verdicts EXCEPT ![n][requests[n].head] = v]
    /\ UNCHANGED <<requests, base, receipts>> /\ Elsewhere

\* parse_role_review_output, role_review_receipt: what a role's receipt says
\* after a round in which a role failed, or none did; the first role that does
\* not pass ends the round, and the others keep what they said before.
Verdict(role, failing, before) ==
  IF role \in failing THEN "REVISE" ELSE IF failing = {} THEN "PASS" ELSE before

\* run_required_pr_role_reviews: each role reviews the head of the worktree,
\* which may not be the pull request's any more, and its receipt replaces the
\* one it wrote for that head before.
RoleReviews(n) ==
  \E h \in HeadSet, failing \in {{}} \cup {{role} : role \in Roles} :
    /\ Changed
    /\ receipts' = [receipts EXCEPT ![n][h] =
         [role \in Roles |-> Verdict(role, failing, @[role])]]
    /\ UNCHANGED <<requests, base, verdicts>> /\ Elsewhere

\* External: somebody else moves the default branch.
Advance ==
  /\ base < MaxBase /\ Changed /\ base' = base + 1
  /\ UNCHANGED <<requests, verdicts, receipts>> /\ Elsewhere

-----------------------------------------------------------------------------
(* clean_candidates                                                          *)

Bundling(pc) == bundler' = [bundler EXCEPT !.pc = pc]
Reading(pc) == bundler.pc = pc /\ UNCHANGED <<World, Outputs, merges, runs>>

\* open_pull_request_numbers
List ==
  /\ bundler.pc = "off" /\ runs < MaxRuns /\ runs' = runs + 1
  /\ bundler' = [Idle EXCEPT !.pc = "view",
       !.queue = SelectSeq([n \in Numbers |-> n], LAMBDA n : requests[n].open)]
  /\ UNCHANGED <<World, Outputs, merges>>

\* The next pull request, without or with this one.
Drop == [bundler EXCEPT !.pc = "view", !.queue = Tail(@), !.entry = NoEntry]
Take == [Drop EXCEPT !.clean = Append(@, bundler.entry)]

View ==
  /\ Reading("view") /\ bundler.queue # <<>>
  /\ LET n == bundler.queue[1]
         r == requests[n] IN
     bundler' = [bundler EXCEPT !.pc = "files",
       !.entry = [NoEntry EXCEPT !.number = n, !.head = r.head, !.checks = r.checks,
                                 !.draft = r.draft, !.clean = r.open]]

\* pull_request_changed_paths: of the head there is now.
Files ==
  /\ Reading("files")
  /\ bundler' = [bundler EXCEPT !.pc = "tree",
                                !.entry.paths = PathsOf(requests[bundler.entry.number].head)]

\* pull_request_expected_merge_tree: one answer, consistent in itself, of the
\* base and head there are now.
MergeTree ==
  /\ Reading("tree")
  /\ bundler' = IF requests[bundler.entry.number].open
                THEN [bundler EXCEPT !.pc = "threads",
                                     !.entry.tree = <<base, requests[bundler.entry.number].head>>]
                ELSE Drop

\* unresolved_threads, and what the readings so far say.
Threads ==
  /\ Reading("threads")
  /\ bundler' = IF /\ ~ requests[bundler.entry.number].threads
                   /\ ~ bundler.entry.draft /\ bundler.entry.clean
                   /\ bundler.entry.checks \in {"success", "none"}
                THEN [bundler EXCEPT !.pc = "codex"]
                ELSE Drop

\* Mutant: the latest verdict counts, whichever head it is about.
CodexCleanAny(n, h) == "clean" \in {verdicts[n][k] : k \in HeadSet}

\* codex_review_status: the latest verdict on the head that was viewed.
CodexClean(n, h) == verdicts[n][h] = "clean"

Codex ==
  /\ Reading("codex")
  /\ bundler' = IF CodexClean(bundler.entry.number, bundler.entry.head)
                THEN [bundler EXCEPT !.pc = "quorum"] ELSE Drop

\* load_role_review_receipts, evaluate_review_quorum: tests that succeeded, and
\* the latest receipt of every role, of the head that was viewed.
MergeReady(n, h, checks) ==
  /\ checks = "success"
  /\ \A role \in Roles : receipts[n][h][role] = "PASS"

Quorum ==
  /\ Reading("quorum")
  /\ bundler' = IF MergeReady(bundler.entry.number, bundler.entry.head, bundler.entry.checks)
                THEN Take ELSE Drop

\* A GitHub call fails: the pull request is left out, or the run ends.
CallFails ==
  /\ bundler.pc \in {"files", "tree", "threads", "codex", "base"}
  /\ bundler' = IF bundler.pc = "base" THEN Idle ELSE Drop
  /\ UNCHANGED <<World, Outputs, merges, runs>>

-----------------------------------------------------------------------------
(* write_bundle                                                              *)

\* write_release_status when nothing is clean.
Nothing ==
  /\ Reading("view") /\ bundler.queue = <<>> /\ bundler.clean = <<>>
  /\ bundler' = Idle

Finish ==
  /\ Reading("view") /\ bundler.queue = <<>> /\ bundler.clean # <<>>
  /\ Bundling("base")

\* ordered_pr_contract
Contract(entry) ==
  [number |-> entry.number, head |-> entry.head, tree |-> entry.tree, paths |-> entry.paths]

\* repository_identity, default_branch_oid and the authority that is digested.
ReadBase ==
  /\ Reading("base")
  /\ bundler' = [bundler EXCEPT !.pc = "write", !.bundle =
       [base |-> base, ordered |-> [i \in DOMAIN bundler.clean |-> Contract(bundler.clean[i])]]]

\* atomic_write_private of the bundle, then of its text.
WriteBundle ==
  /\ bundler.pc = "write" /\ bundles' = bundles \cup {bundler.bundle}
  /\ Bundling("post")
  /\ UNCHANGED <<World, told, remembered, merges, runs>>

\* post, unless the fingerprint is the one remembered; whether the message
\* arrives nobody asks.
Post ==
  /\ bundler.pc = "post"
  /\ IF remembered = bundler.bundle
     THEN bundler' = Idle /\ UNCHANGED told
     ELSE Bundling("remember") /\ told' \in {told, told \cup {bundler.bundle}}
  /\ UNCHANGED <<World, bundles, remembered, merges, runs>>

Remember ==
  /\ bundler.pc = "remember" /\ remembered' = bundler.bundle /\ bundler' = Idle
  /\ UNCHANGED <<World, bundles, told, merges, runs>>

\* External: the run is killed.
KillBundler ==
  /\ bundler.pc # "off" /\ bundler' = Idle
  /\ UNCHANGED <<World, Outputs, merges, runs>>

-----------------------------------------------------------------------------
(* The release broker, of a bundle the owner approved                        *)

\* select_codex_evidence
EvidenceClean(n, h) == verdicts[n][h] = "clean"

\* _required_check_evidence: a required check is there and green.
ChecksGreen(n) == requests[n].checks = "success"

\* validate_preflight
Mergeable(b) ==
  /\ Len(b.ordered) = 1
  /\ LET e == b.ordered[1]
         r == requests[e.number] IN
     /\ r.open /\ ~ r.draft /\ ~ r.threads
     /\ r.head = e.head /\ base = b.base
     /\ e.tree = <<base, r.head>>
     /\ e.paths = PathsOf(r.head)
     /\ ChecksGreen(e.number)
     /\ EvidenceClean(e.number, e.head)

\* The merge, of the exact head; ReleaseBroker has the steps of it.
BrokerMerges(b) ==
  LET e == b.ordered[1] IN
  /\ b \in told /\ Mergeable(b) /\ base < MaxBase
  /\ base' = base + 1 /\ requests' = [requests EXCEPT ![e.number].open = FALSE]
  /\ merges' = merges \cup {[bundle |-> b, head |-> requests[e.number].head, base |-> base,
                             paths |-> PathsOf(requests[e.number].head)]}
  /\ UNCHANGED <<verdicts, receipts, changes, bundler, Outputs, runs>>

BundleNext ==
  \/ \E n \in Numbers : Push(n) \/ Alter(n) \/ CodexReviews(n) \/ RoleReviews(n)
  \/ Advance
  \/ List \/ View \/ Files \/ MergeTree \/ Threads \/ Codex \/ Quorum \/ CallFails
  \/ Nothing \/ Finish \/ ReadBase \/ WriteBundle \/ Post \/ Remember \/ KillBundler
  \/ \E b \in bundles : BrokerMerges(b)

BundleSpec == BundleInit /\ [][BundleNext]_bundleVars

-----------------------------------------------------------------------------
(* Properties *)

\* Pull requests, runs and bundles have their kinds.
BundleTypeOK ==
  /\ base \in 1 .. MaxBase
  /\ \A n \in Numbers : requests[n].head \in HeadSet
  /\ \A b \in bundles : Len(b.ordered) \in Numbers
  /\ told \subseteq bundles

\* Every head in a bundle was reviewed as that head, by Codex and by the roles,
\* although the pull request may have moved on between any two readings: no
\* review of another head is ever counted for it (clean_candidates).
BundleReviewed ==
  \A b \in bundles : \A i \in DOMAIN b.ordered :
    LET e == b.ordered[i] IN
    /\ verdicts[e.number][e.head] # "none"
    /\ \A role \in Roles : receipts[e.number][e.head][role] # "none"

\* A bundle may have been put together from readings of different heads and
\* bases; whatever is merged on its authority is nevertheless the head, base,
\* tree and paths the owner was shown (validate_preflight).
MergedAsShown ==
  \A m \in merges :
    LET e == m.bundle.ordered[1] IN
    /\ m.bundle \in told
    /\ m.bundle.ordered = <<[number |-> e.number, head |-> m.head, tree |-> <<m.base, m.head>>,
                             paths |-> m.paths]>>
    /\ m.bundle.base = m.base

\* What a release bundle promises, all together.
BundleSafe == BundleTypeOK /\ BundleReviewed /\ MergedAsShown

=============================================================================

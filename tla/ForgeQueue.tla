------------------------------ MODULE ForgeQueue ------------------------------
(***************************************************************************)
(* The forge's queue (scripts/john-lomein-forge-orchestrator.py): which    *)
(* issue a run takes up, how design and critique decide over it, and what  *)
(* a deferral does to its later runs. GitHub is read in two calls (the     *)
(* lists, then the label events), people and the forge itself change       *)
(* issues in between, a run may be killed at any step, and a GitHub call   *)
(* of a deferral may fail.                                                 *)
(*                                                                         *)
(* An issue's content is the number of its edits; updatedAt is moved by    *)
(* edits, labels and comments alike. Every change on GitHub has a second   *)
(* of its own: two within one second cannot be told apart by updatedAt,    *)
(* neither by this code nor here. Issues are named by their numbers.       *)
(***************************************************************************)
EXTENDS Naturals, FiniteSets

CONSTANTS
  Issues,       \* issue numbers
  Needs,        \* issue -> the issues its body names as dependencies
  MaxTime, MaxChanges, MaxFaults,   \* bounds: clock, changes by people, kills and failed calls
  MaxRounds,    \* in_cycle_revise_max_rounds
  MaxRetries,   \* revise_max_retries
  RetryAfter,   \* revise_retry_after_seconds
  MaxTotal, MaxForge   \* max_open_total_prs, max_open_forge_prs

QueueConstants ==
  /\ Issues \subseteq Nat \ {0} /\ IsFiniteSet(Issues)
  /\ Needs \in [Issues -> SUBSET Issues]
  /\ {MaxTime, MaxChanges, MaxFaults, MaxRounds, MaxRetries, RetryAfter} \subseteq Nat
  /\ {MaxTotal, MaxForge} \subseteq Nat \ {0}

\* No issue names another.
NoNeeds == [i \in Issues |-> {}]

VARIABLES
  clock,
  changes,  \* changes by people so far
  faults,   \* kills and failed calls so far
  issue,    \* GitHub: issue -> [open, ready, event, by, updated, edited, edits]
  pr,       \* GitHub: issue -> the forge's pull request for it
  others,   \* GitHub: open pull requests of other branches
  defer,    \* state/forge-deferred: issue -> its file, or NoFile
  tree,     \* the implementation worktree of an issue
  run,      \* the forge run in progress
  held      \* history: issue -> the updatedAt of what was last deferred with KILL

queueVars == <<clock, changes, faults, issue, pr, others, defer, tree, run, held>>

NoFile == [status |-> "none", count |-> 0, at |-> 0, updated |-> 0]
Idle == [at |-> "idle", list |-> <<>>, i |-> 0, seen |-> <<>>, round |-> 0, status |-> "none"]

QueueTypeOK ==
  /\ clock \in 0 .. MaxTime /\ changes \in 0 .. MaxChanges /\ faults \in 0 .. MaxFaults
  /\ issue \in [Issues -> [open : BOOLEAN, ready : BOOLEAN, event : 0 .. MaxTime,
                           by : {"owner", "other"}, updated : 0 .. MaxTime,
                           edited : 0 .. MaxTime, edits : 0 .. MaxChanges]]
  /\ pr \in [Issues -> {"none", "open", "merged", "closed"}]
  /\ others \in 0 .. MaxChanges
  /\ defer \in [Issues -> [status : {"none", "REVISE", "KILL"}, count : 0 .. MaxRetries,
                           at : 0 .. MaxTime, updated : 0 .. MaxTime]]
  /\ tree \in [Issues -> {"none", "clean", "dirty"}]
  /\ run.at \in {"idle", "listed", "design", "critique", "defer", "sync", "save",
                 "verify", "build"}
  /\ held \in [Issues -> 0 .. MaxTime]

Init ==
  /\ clock = 1 /\ changes = 0 /\ faults = 0
  /\ issue = [i \in Issues |-> [open |-> TRUE, ready |-> TRUE, event |-> 1, by |-> "owner",
                                updated |-> 1, edited |-> 0, edits |-> 0]]
  /\ pr = [i \in Issues |-> "none"]
  /\ others = 0
  /\ defer = [i \in Issues |-> NoFile]
  /\ tree = [i \in Issues |-> "none"]
  /\ run = Idle
  /\ held = [i \in Issues |-> 0]

-----------------------------------------------------------------------------
(* Choosing *)

\* issue_snapshot_sha256: number, title, body, labels and updatedAt.
Snapshot(x) == [ready |-> x.ready, edits |-> x.edits, updated |-> x.updated]

\* issue_readiness_provenance and the comparison of times in choose_candidate:
\* the last event of the label is by an owner, and the issue as listed was not
\* updated after it.
OwnerReady(listed, now) ==
  /\ listed.ready
  /\ now.ready /\ now.by = "owner"
  /\ listed.updated <= now.event

\* is_covered
Covered(list, i) == list.pr[i] = "open"

\* dependency_status over merged_dependency_prs: a dependency still open, with
\* no merged pull request that refers to it, blocks.
Unresolved(list, i) ==
  {d \in Needs[i] \ {i} : list.issue[d].open /\ pr[d] # "merged"}

\* Mutant: a deferral counts as stale as soon as the issue is as it was.
FileStaleSame(listed, file) == file # NoFile /\ listed.updated >= file.updated
\* deferral_blocks: the file is stale when the issue changed since.
FileStale(listed, file) == file # NoFile /\ listed.updated > file.updated

DeferralBlocks(listed, file) ==
  /\ file # NoFile /\ ~FileStale(listed, file)
  /\ \/ file.status # "REVISE"
     \/ file.count >= MaxRetries
     \/ clock - file.at < RetryAfter

Candidates(list) ==
  {i \in Issues :
     /\ list.issue[i].open /\ ~Covered(list, i)
     /\ OwnerReady(list.issue[i], issue[i])
     /\ Unresolved(list, i) = {}
     /\ ~DeferralBlocks(list.issue[i], defer[i])}

\* The issues whose deferral file choose_candidate looks at.
Examined(list) ==
  {i \in Issues :
     /\ list.issue[i].open /\ ~Covered(list, i)
     /\ OwnerReady(list.issue[i], issue[i])
     /\ Unresolved(list, i) = {}}

Smallest(S) == CHOOSE i \in S : \A j \in S : i <= j

OpenForge(p) == Cardinality({i \in Issues : p[i] = "open"})

\* main: the pull requests and the issues are listed first; at capacity the
\* run ends.
List ==
  /\ run.at = "idle"
  /\ OpenForge(pr) + others < MaxTotal
  /\ OpenForge(pr) < MaxForge
  /\ run' = [Idle EXCEPT !.at = "listed", !.list = [issue |-> issue, pr |-> pr]]
  /\ UNCHANGED <<clock, changes, faults, issue, pr, others, defer, tree, held>>

\* choose_candidate after the lists: label events and merged pull requests are
\* asked for, stale deferrals are removed, the lowest number is taken.
Choose ==
  /\ run.at = "listed"
  /\ LET l == run.list IN
     /\ defer' = [i \in Issues |->
          IF i \in Examined(l) /\ FileStale(l.issue[i], defer[i]) THEN NoFile ELSE defer[i]]
     /\ run' =
          IF Candidates(l) = {} THEN Idle
          ELSE LET i == Smallest(Candidates(l)) IN
               [run EXCEPT !.at = "design", !.i = i, !.seen = Snapshot(l.issue[i]),
                           !.list = <<>>]
  /\ UNCHANGED <<clock, changes, faults, issue, pr, others, tree, held>>

-----------------------------------------------------------------------------
(* Design and critique *)

\* The agent of a stage ends with one marker; a failed process or another
\* marker ends the run with a blocked receipt. REVISE repeats the loop up to
\* MaxRounds times, then defers; KILL defers.
Judge(next) ==
  \/ run' = [run EXCEPT !.at = next]
  \/ run' = Idle
  \/ /\ run.round < MaxRounds
     /\ run' = [run EXCEPT !.at = "design", !.round = @ + 1]
  \/ /\ run.round = MaxRounds
     /\ run' = [run EXCEPT !.at = "defer", !.status = "REVISE"]
  \/ run' = [run EXCEPT !.at = "defer", !.status = "KILL"]

Design ==
  /\ run.at = "design" /\ Judge("critique")
  /\ UNCHANGED <<clock, changes, faults, issue, pr, others, defer, tree, held>>

Critique ==
  /\ run.at = "critique" /\ Judge("verify")
  /\ UNCHANGED <<clock, changes, faults, issue, pr, others, defer, tree, held>>

-----------------------------------------------------------------------------
(* Deferring *)

\* defer_issue writes its file, ...
Defer ==
  /\ run.at = "defer"
  /\ defer' = [defer EXCEPT ![run.i] =
       [status |-> run.status,
        count |-> IF run.status = "REVISE" THEN @.count + 1 ELSE @.count,
        at |-> clock, updated |-> run.seen.updated]]
  /\ run' = [run EXCEPT !.at = "sync"]
  /\ held' = IF run.status = "KILL" THEN [held EXCEPT ![run.i] = run.seen.updated] ELSE held
  /\ UNCHANGED <<clock, changes, faults, issue, pr, others, tree>>

\* ... sync_deferred_issue_to_github comments on the issue (a new cycle has a
\* new marker, so it is a new comment), which moves updatedAt; a failed call
\* leaves it out.
Sync ==
  /\ run.at = "sync"
  /\ \/ /\ clock < MaxTime /\ clock' = clock + 1
        /\ issue' = [issue EXCEPT ![run.i].updated = clock + 1]
        /\ UNCHANGED faults
     \/ /\ faults < MaxFaults /\ faults' = faults + 1
        /\ UNCHANGED <<clock, issue>>
  /\ run' = [run EXCEPT !.at = "save"]
  /\ UNCHANGED <<changes, pr, others, defer, tree, held>>

\* ... and writes the file again with the updatedAt it reads back.
Save ==
  /\ run.at = "save"
  /\ \/ /\ defer' = [defer EXCEPT ![run.i].updated = issue[run.i].updated]
        /\ UNCHANGED faults
     \/ /\ faults < MaxFaults /\ faults' = faults + 1
        /\ UNCHANGED defer
  /\ run' = Idle
  /\ UNCHANGED <<clock, changes, issue, pr, others, tree, held>>

-----------------------------------------------------------------------------
(* Building *)

\* Mutant: only the text is compared.
SnapshotContentOnly == issue[run.i].edits = run.seen.edits
\* verify_owner_ready_snapshot: the issue must still be what was chosen.
SnapshotCurrent == Snapshot(issue[run.i]) = run.seen

\* prepare_implementation_worktree: a worktree left dirty is never reused.
Verify ==
  /\ run.at = "verify"
  /\ IF SnapshotCurrent /\ tree[run.i] # "dirty"
     THEN /\ tree' = [tree EXCEPT ![run.i] = "clean"]
          /\ run' = [run EXCEPT !.at = "build"]
     ELSE run' = Idle /\ UNCHANGED tree
  /\ UNCHANGED <<clock, changes, faults, issue, pr, others, defer, held>>

\* run_implementation without an owner scope: the executor opens the pull
\* request of its branch, or stops with the worktree as it is.
Build ==
  /\ run.at = "build"
  /\ \/ pr' = [pr EXCEPT ![run.i] = "open"] /\ UNCHANGED tree
     \/ tree' = [tree EXCEPT ![run.i] = "dirty"] /\ UNCHANGED pr
  /\ run' = Idle
  /\ UNCHANGED <<clock, changes, faults, issue, others, defer, held>>

Kill ==
  /\ run.at # "idle" /\ faults < MaxFaults
  /\ faults' = faults + 1
  /\ run' = Idle
  /\ UNCHANGED <<clock, changes, issue, pr, others, defer, tree, held>>

-----------------------------------------------------------------------------
(* People and time *)

\* An edit, a comment, a label taken off or set again, a close.
ChangeIssue(i) ==
  /\ changes < MaxChanges /\ changes' = changes + 1
  /\ clock < MaxTime /\ clock' = clock + 1
  /\ LET touched == [issue[i] EXCEPT !.updated = clock']
         Labelled(r, who) == [touched EXCEPT !.ready = r, !.event = clock', !.by = who]
     IN \E x \in {[touched EXCEPT !.edits = @ + 1, !.edited = clock'], touched,
                  Labelled(FALSE, "owner"), Labelled(TRUE, "owner"), Labelled(TRUE, "other"),
                  [touched EXCEPT !.open = FALSE]} :
          issue' = [issue EXCEPT ![i] = x]
  /\ UNCHANGED <<faults, pr, others, defer, tree, run, held>>

ChangePulls ==
  /\ changes < MaxChanges /\ changes' = changes + 1
  /\ \/ others' = others + 1 /\ UNCHANGED pr
     \/ others > 0 /\ others' = others - 1 /\ UNCHANGED pr
     \/ \E i \in Issues, s \in {"merged", "closed"} :
          /\ pr[i] = "open" /\ pr' = [pr EXCEPT ![i] = s] /\ UNCHANGED others
  /\ UNCHANGED <<clock, faults, issue, defer, tree, run, held>>

Tick ==
  /\ clock < MaxTime /\ clock' = clock + 1
  /\ UNCHANGED <<changes, faults, issue, pr, others, defer, tree, run, held>>

Next ==
  \/ List \/ Choose \/ Design \/ Critique
  \/ Defer \/ Sync \/ Save
  \/ Verify \/ Build \/ Kill
  \/ \E i \in Issues : ChangeIssue(i)
  \/ ChangePulls \/ Tick

Spec == Init /\ [][Next]_queueVars

-----------------------------------------------------------------------------
(* Properties *)

\* What is built is what the owner labelled: when a run goes on to build, the
\* issue's content is no younger than the owner's label, the label still
\* stands, and what was once deferred with KILL was labelled anew ("exact issue
\* snapshot digest recorded with that label"), whatever changed between the two
\* calls and during the agents' work, and whatever a deferral left half done.
BuiltAsLabelledStep ==
  (run.at # "build" /\ run'.at = "build") =>
    LET x == issue[run.i] IN
    /\ x.ready /\ x.by = "owner" /\ x.edited <= x.event
    /\ held[run.i] < x.event

\* The forge stays within its limits: it never works on more than MaxForge
\* pull requests, and no issue is deferred with REVISE more often than
\* MaxRetries without a change to it (choose_candidate, deferral_blocks).
WithinLimits ==
  /\ OpenForge(pr) <= MaxForge
  /\ \A i \in Issues : defer[i].count <= MaxRetries

\* "REVISE deferrals are retried automatically after the configured backoff
\* until the retry limit": an issue nobody touched since the owner labelled it,
\* deferred with REVISE and due again, is a candidate.
DeferralRetried ==
  \A i \in Issues :
    LET now == [issue |-> issue, pr |-> pr] IN
    (/\ run.at = "idle" /\ changes = 0 /\ faults = 0
     /\ defer[i].status = "REVISE" /\ defer[i].count < MaxRetries
     /\ clock - defer[i].at >= RetryAfter
     /\ Unresolved(now, i) = {} /\ ~Covered(now, i))
    => i \in Candidates(now)

=============================================================================

--------------------------- MODULE ScopedPublication ---------------------------
(***************************************************************************)
(* An owner-scoped implementation of the forge, from the executor's dirty  *)
(* worktree to a verified draft pull request: publish_scoped_draft         *)
(* (scripts/john_lomein_scoped_publication.py) with the forge's cycles,    *)
(* their resumption and their verification around it                       *)
(* (scripts/john-lomein-forge-orchestrator.py). A run may be killed        *)
(* between any two steps, its commands may fail with or without their      *)
(* effect, two runs may overlap, and others may edit the worktree, move    *)
(* the default branch, push to the branch or close the pull request.       *)
(*                                                                         *)
(* A tree gives every path its content, 0 being that of the bound base. A  *)
(* commit is a number and a tree; number 0 is the base.                    *)
(***************************************************************************)
EXTENDS Naturals, Sequences, FiniteSets

CONSTANTS
  Procs,      \* forge runs that may overlap
  Paths,      \* the paths of the repository
  Allowed,    \* the scope's allowed_paths
  Mode,       \* BOT_IMPLEMENTATION_MODE: "omh" or "direct"
  Backend,    \* BOT_VERIFIER_BACKEND: "docker" or "sandbox"
  MaxRuns, MaxFails, MaxKills, MaxMeddles, MaxContent,
  NoProc

PublicationConstants ==
  /\ Allowed \subseteq Paths /\ Allowed # {} 
  /\ Mode \in {"omh", "direct"} /\ Backend \in {"docker", "sandbox"}
  /\ {MaxRuns, MaxFails, MaxKills, MaxMeddles, MaxContent} \subseteq Nat
  /\ NoProc \notin Procs

VARIABLES
  runs, fails, kills, meddles,
  live,      \* GitHub: has the default branch moved from the bound base?
  remote,    \* GitHub: the branch, or NoCommit
  prs,       \* GitHub: pull requests of the branch, in order
  asked,     \* GitHub: review requests on them
  files,     \* the worktree's files
  ref,       \* the worktree's branch
  count,     \* commits made
  cycles,    \* the cycle directories of the issue, oldest first
  lock,      \* cycle -> holder of its publication lock
  proc,      \* the runs
  sent,      \* history: commits the parent pushed
  passed     \* history: trees whose tests passed

gitVars == <<files, ref, count>>
hubVars == <<live, remote, prs, asked>>
histVars == <<sent, passed>>
pubVars == <<runs, fails, kills, meddles, hubVars, gitVars, cycles, lock, proc, histVars>>

Untouched == [p \in Paths |-> 0]
Base == [n |-> 0, tree |-> Untouched]
NoCommit == [n |-> 0, tree |-> <<>>]
NoArtifact == [at |-> "absent", paths |-> {}, tree |-> <<>>, head |-> NoCommit, pr |-> 0]
Stopped == [at |-> "stopped", c |-> 0, tested |-> NoCommit, why |-> "none"]

Changed(t) == {p \in Paths : t[p] # 0}
Dirty == {p \in Paths : files[p] # ref.tree[p]}

\* PHASE_ORDER
Phase(s) == CASE s \in {"absent", "initialized"} -> 0 [] s = "validated" -> 1
              [] s = "committed" -> 2 [] s = "pushed" -> 3 [] s = "complete" -> 4

Init ==
  /\ runs = 0 /\ fails = 0 /\ kills = 0 /\ meddles = 0
  /\ live = FALSE /\ remote = NoCommit /\ prs = <<>> /\ asked = 0
  /\ files = Untouched /\ ref = Base /\ count = 0
  /\ cycles = <<>> /\ lock = <<>>
  /\ proc = [p \in Procs |-> Stopped]
  /\ sent = {} /\ passed = {}

PublicationTypeOK ==
  /\ files \in [Paths -> Nat] /\ Len(lock) = Len(cycles)
  /\ \A c \in 1 .. Len(cycles) :
       /\ cycles[c].art.at \in {"absent", "initialized", "validated", "committed",
                                "pushed", "complete"}
       /\ {cycles[c].done, cycles[c].complete, cycles[c].marked} \subseteq BOOLEAN
       /\ lock[c] \in Procs \cup {NoProc}
  /\ prs \in Seq([open : BOOLEAN, draft : BOOLEAN])

-----------------------------------------------------------------------------
(* A run's beginning *)

\* find_owner_scoped_cycle: the newest cycle with an artifact of this scope.
Resumable ==
  LET S == {c \in 1 .. Len(cycles) : cycles[c].art.at # "absent"} IN
  IF S = {} THEN 0 ELSE CHOOSE c \in S : \A d \in S : d <= c

\* resume_owner_scoped_cycle goes on only with the executor's exit at hand,
\* from summary.json or from executor-result.json.
ExitKnown(c) == cycles[c].done

\* owner_scoped_dirty_worktree_ready, and a clean worktree of whatever head.
WorktreeReady == Dirty = {} \/ (ref = Base /\ Dirty \subseteq Allowed)

Covered == \E k \in DOMAIN prs : prs[k].open

FreshCycle == [art |-> NoArtifact, done |-> FALSE, complete |-> FALSE, marked |-> FALSE]

\* main: safe_update_managed_checkout, the resumption of the scope's cycle,
\* else the choice of the issue and a new cycle.
Begin(p) ==
  /\ proc[p].at = "stopped" /\ runs < MaxRuns
  /\ runs' = runs + 1
  /\ LET c == Resumable IN
     IF c # 0 /\ cycles[c].complete THEN UNCHANGED <<proc, cycles, lock>>
     ELSE IF c # 0 /\ ExitKnown(c)
     THEN /\ proc' = [proc EXCEPT ![p] = [Stopped EXCEPT !.at = "publish", !.c = c]]
          /\ UNCHANGED <<cycles, lock>>
     ELSE IF ~Covered /\ WorktreeReady
     THEN /\ cycles' = Append(cycles, FreshCycle)
          /\ lock' = Append(lock, NoProc)
          /\ proc' = [proc EXCEPT ![p] =
               [Stopped EXCEPT !.at = "execute", !.c = Len(cycles) + 1]]
     ELSE UNCHANGED <<proc, cycles, lock>>
  /\ UNCHANGED <<fails, kills, meddles, hubVars, gitVars, histVars>>

\* run_implementation: the executor leaves edits of the allowed paths and
\* reports; its wrapper leaves executor-result.json in mode "omh" only. A run
\* that reported BLOCKED ends with its summary, without an artifact.
Execute(p) ==
  /\ proc[p].at = "execute"
  /\ \E S \in SUBSET Allowed :
       /\ \A q \in S : files[q] < MaxContent
       /\ files' = [q \in Paths |-> IF q \in S THEN files[q] + 1 ELSE files[q]]
  /\ \/ /\ proc' = [proc EXCEPT ![p].at = "publish"]
        /\ cycles' = [cycles EXCEPT ![proc[p].c].done = (Mode = "omh")]
     \/ /\ proc' = [proc EXCEPT ![p] = Stopped]
        /\ cycles' = [cycles EXCEPT ![proc[p].c].done = TRUE]
  /\ UNCHANGED <<runs, fails, kills, meddles, hubVars, ref, count, lock, histVars>>

-----------------------------------------------------------------------------
(* publish_scoped_draft *)

Art(p) == cycles[proc[p].c].art

\* A refused or failed publication: the artifact keeps its checkpoint with
\* status repair_due, the lock is released, finalize_implementation records the
\* block and main (or the resumption) its summary.
Refuse(p, why) ==
  /\ proc' = [proc EXCEPT ![p] = [Stopped EXCEPT !.why = why]]
  /\ lock' = [lock EXCEPT ![proc[p].c] = NoProc]
  /\ cycles' = [cycles EXCEPT
       ![proc[p].c].art.at = IF @ = "absent" THEN "initialized" ELSE @,
       ![proc[p].c].done = TRUE]

\* _verify_exact_commit
ExactCommit(a) ==
  /\ ref = a.head /\ ref.n # 0
  /\ ref.tree = a.tree
  /\ Changed(ref.tree) = a.paths
  /\ Dirty = {}

\* Mutant: the paths are not compared with the scope.
InScopeAny(S) == S # {}
\* The dirty paths lie in the scope.
InScope(S) == S # {} /\ S \subseteq Allowed

\* The next step of a publication, by the artifact's checkpoint.
AfterCheck(p) ==
  LET a == Art(p) IN
  IF a.at = "validated" /\ ref # Base THEN "recover"
  ELSE IF Phase(a.at) < 2 THEN "validate" ELSE "push"

\* _publication_lock without waiting, then the checks of scope, worktree and
\* base that every attempt repeats.
Lock(p) ==
  /\ proc[p].at = "publish"
  /\ IF lock[proc[p].c] # NoProc
     THEN /\ proc' = [proc EXCEPT ![p] = [Stopped EXCEPT !.why = "busy"]]
          /\ UNCHANGED <<lock, cycles>>
     ELSE IF live THEN Refuse(p, "base")
     ELSE /\ lock' = [lock EXCEPT ![proc[p].c] = p]
          /\ proc' = [proc EXCEPT ![p].at = AfterCheck(p)]
          /\ UNCHANGED cycles
  /\ UNCHANGED <<runs, fails, kills, meddles, hubVars, gitVars, histVars>>

\* A commit made before its checkpoint was written is taken up when it is
\* exactly the recorded tree on the base.
Recover(p) ==
  /\ proc[p].at = "recover"
  /\ LET a == [Art(p) EXCEPT !.head = ref] IN
     IF a.tree # <<>> /\ ExactCommit(a)
     THEN /\ cycles' = [cycles EXCEPT ![proc[p].c].art = [a EXCEPT !.at = "committed"]]
          /\ proc' = [proc EXCEPT ![p].at = "push"]
          /\ UNCHANGED lock
     ELSE Refuse(p, "recover")
  /\ UNCHANGED <<runs, fails, kills, meddles, hubVars, gitVars, histVars>>

\* No branch and no pull request may exist before a recorded commit; the dirty
\* paths are recorded.
Validate(p) ==
  /\ proc[p].at = "validate"
  /\ IF ref = Base /\ remote = NoCommit /\ prs = <<>> /\ InScope(Dirty)
     THEN /\ cycles' = [cycles EXCEPT ![proc[p].c].art =
               [NoArtifact EXCEPT !.at = "validated", !.paths = Dirty]]
          /\ proc' = [proc EXCEPT ![p].at = "stage"]
          /\ UNCHANGED lock
     ELSE Refuse(p, IF ref = Base /\ remote = NoCommit /\ prs = <<>> THEN "paths" ELSE "fresh")
  /\ UNCHANGED <<runs, fails, kills, meddles, hubVars, gitVars, histVars>>

\* git add, the comparison of what is staged with what was validated, and the
\* tree written and recorded.
Stage(p) ==
  /\ proc[p].at = "stage"
  /\ IF ref = Base /\ Dirty = Art(p).paths
     THEN /\ cycles' = [cycles EXCEPT ![proc[p].c].art.tree = files]
          /\ proc' = [proc EXCEPT ![p].at = "commit"]
          /\ UNCHANGED lock
     ELSE Refuse(p, "staged")
  /\ UNCHANGED <<runs, fails, kills, meddles, hubVars, gitVars, histVars>>

\* commit-tree and update-ref from the base.
Commit(p) ==
  /\ proc[p].at = "commit"
  /\ IF ref = Base
     THEN /\ ref' = [n |-> count + 1, tree |-> Art(p).tree]
          /\ count' = count + 1
          /\ proc' = [proc EXCEPT ![p].at = "record", ![p].tested = [n |-> count + 1, tree |-> Art(p).tree]]
          /\ UNCHANGED <<lock, cycles>>
     ELSE Refuse(p, "moved") /\ UNCHANGED <<ref, count>>
  /\ UNCHANGED <<runs, fails, kills, meddles, hubVars, files, histVars>>

\* The commit is verified and its checkpoint written.
Record(p) ==
  /\ proc[p].at = "record"
  /\ LET a == [Art(p) EXCEPT !.head = proc[p].tested] IN
     IF ExactCommit(a)
     THEN /\ cycles' = [cycles EXCEPT ![proc[p].c].art = [a EXCEPT !.at = "committed"]]
          /\ proc' = [proc EXCEPT ![p].at = "push", ![p].tested = NoCommit]
          /\ UNCHANGED lock
     ELSE Refuse(p, "commit")
  /\ UNCHANGED <<runs, fails, kills, meddles, hubVars, gitVars, histVars>>

\* The commit is verified again and pushed without force, unless the branch
\* already is at it; a branch elsewhere refuses. The command may fail, with or
\* without its effect. Checkpoint "pushed" and beyond skip the push.
Push(p) ==
  /\ proc[p].at = "push"
  /\ LET a == Art(p) IN
     IF ~ExactCommit(a) \/ live
     THEN Refuse(p, IF live THEN "base" ELSE "commit") /\ UNCHANGED <<remote, sent, fails>>
     ELSE IF remote = a.head
     THEN /\ proc' = [proc EXCEPT ![p].at = "pushed"]
          /\ UNCHANGED <<lock, cycles, remote, sent, fails>>
     ELSE IF remote # NoCommit \/ Phase(a.at) >= 3
     THEN Refuse(p, "collision") /\ UNCHANGED <<remote, sent, fails>>
     ELSE \/ /\ remote' = a.head /\ sent' = sent \cup {a.head}
             /\ proc' = [proc EXCEPT ![p].at = "pushed"]
             /\ UNCHANGED <<lock, cycles, fails>>
          \/ /\ fails < MaxFails /\ fails' = fails + 1
             /\ \/ remote' = a.head /\ sent' = sent \cup {a.head}
                \/ UNCHANGED <<remote, sent>>
             /\ Refuse(p, "command")
  /\ UNCHANGED <<runs, kills, meddles, live, prs, asked, gitVars, passed>>

\* The push is read back and its checkpoint written.
Pushed(p) ==
  /\ proc[p].at = "pushed"
  /\ IF remote = Art(p).head
     THEN /\ cycles' = [cycles EXCEPT ![proc[p].c].art.at = IF Phase(@) < 3 THEN "pushed" ELSE @]
          /\ proc' = [proc EXCEPT ![p].at = "pr"]
          /\ UNCHANGED lock
     ELSE Refuse(p, "readback")
  /\ UNCHANGED <<runs, fails, kills, meddles, hubVars, gitVars, histVars>>

\* Mutant: only open pull requests of the branch are listed.
ListedOpen == {k \in DOMAIN prs : prs[k].open}
\* _list_prs_for_branch asks for every state.
Listed == DOMAIN prs

\* The branch's pull request is found, or created as a draft; GitHub refuses a
\* second open one.
OpenPr(p) ==
  /\ proc[p].at = "pr"
  /\ LET a == Art(p) IN
     IF ~ExactCommit(a) \/ live
     THEN Refuse(p, IF live THEN "base" ELSE "commit") /\ UNCHANGED <<prs, fails>>
     ELSE IF a.at = "complete"
     THEN /\ proc' = [proc EXCEPT ![p].at = "view"]
          /\ UNCHANGED <<lock, cycles, prs, fails>>
     ELSE IF Cardinality(Listed) > 1
     THEN Refuse(p, "many") /\ UNCHANGED <<prs, fails>>
     ELSE IF Listed # {}
     THEN /\ cycles' = [cycles EXCEPT ![proc[p].c].art.pr = CHOOSE k \in Listed : TRUE]
          /\ proc' = [proc EXCEPT ![p].at = "view"]
          /\ UNCHANGED <<lock, prs, fails>>
     ELSE \/ /\ prs' = Append(prs, [open |-> TRUE, draft |-> TRUE])
             /\ cycles' = [cycles EXCEPT ![proc[p].c].art.pr = Len(prs) + 1]
             /\ proc' = [proc EXCEPT ![p].at = "view"]
             /\ UNCHANGED <<lock, fails>>
          \/ /\ fails < MaxFails /\ fails' = fails + 1
             /\ \/ prs' = Append(prs, [open |-> TRUE, draft |-> TRUE])
                \/ UNCHANGED prs
             /\ Refuse(p, "command")
  /\ UNCHANGED <<runs, kills, meddles, live, remote, asked, gitVars, histVars>>

\* _verify_pr and exact_pr_binding_reason: open, a draft, at the head, on the base.
Bound(a) == a.pr \in DOMAIN prs /\ prs[a.pr].open /\ prs[a.pr].draft /\ remote = a.head /\ ~live

\* The readback decides "complete"; the lock is released.
View(p) ==
  /\ proc[p].at = "view"
  /\ IF Bound(Art(p))
     THEN /\ cycles' = [cycles EXCEPT ![proc[p].c].art.at = "complete"]
          /\ lock' = [lock EXCEPT ![proc[p].c] = NoProc]
          /\ proc' = [proc EXCEPT ![p].at = "test"]
     ELSE Refuse(p, "readback")
  /\ UNCHANGED <<runs, fails, kills, meddles, hubVars, gitVars, histVars>>

-----------------------------------------------------------------------------
(* finalize_implementation *)

\* block: verifier.json, blocked.json, the receipt and the summary.
Block(p) ==
  /\ cycles' = [cycles EXCEPT ![proc[p].c].done = TRUE]
  /\ proc' = [proc EXCEPT ![p] = [Stopped EXCEPT !.why = "verifier"]]

\* The pull request is looked up, and the verifier examines the worktree: clean,
\* and at a commit of its own.
Examine(p) ==
  /\ proc[p].at = "test"
  /\ \/ /\ Bound(Art(p)) /\ Dirty = {} /\ ref # Base
        /\ proc' = [proc EXCEPT ![p].at = "run", ![p].tested = ref]
        /\ UNCHANGED cycles
     \/ Block(p)
  /\ UNCHANGED <<runs, fails, kills, meddles, hubVars, gitVars, lock, histVars>>

\* Mutant: the container, too, tests the worktree.
TestedWorktree(p) == files
\* What the configured test sees: the archive of the examined commit in the
\* container, the worktree itself in the sandbox.
Tested(p) == IF Backend = "docker" THEN proc[p].tested.tree ELSE files

RunTests(p) ==
  /\ proc[p].at = "run"
  /\ \/ /\ passed' = passed \cup {Tested(p)}
        /\ proc' = [proc EXCEPT ![p].at = "reexamine"]
        /\ UNCHANGED cycles
     \/ Block(p) /\ UNCHANGED passed
  /\ UNCHANGED <<runs, fails, kills, meddles, hubVars, gitVars, lock, sent>>

\* The same questions after the tests; the head must not have moved.
Reexamine(p) ==
  /\ proc[p].at = "reexamine"
  /\ IF ref = proc[p].tested /\ Dirty = {}
     THEN proc' = [proc EXCEPT ![p].at = "confirm"] /\ UNCHANGED cycles
     ELSE Block(p)
  /\ UNCHANGED <<runs, fails, kills, meddles, hubVars, gitVars, lock, histVars>>

\* The pull request is read again; completion_verdict compares its head with
\* the tested one.
Verdict(p) == Bound(Art(p)) /\ proc[p].tested = Art(p).head

Confirm(p) ==
  /\ proc[p].at = "confirm"
  /\ IF Verdict(p)
     THEN proc' = [proc EXCEPT ![p].at = "review"] /\ UNCHANGED cycles
     ELSE Block(p)
  /\ UNCHANGED <<runs, fails, kills, meddles, hubVars, gitVars, lock, histVars>>

\* run_required_pr_role_reviews: every role passes, on the head and a clean
\* worktree before and after.
Review(p) ==
  /\ proc[p].at = "review"
  /\ \/ /\ ref = Art(p).head /\ Dirty = {}
        /\ proc' = [proc EXCEPT ![p].at = "handoff"] /\ UNCHANGED cycles
     \/ Block(p)
  /\ UNCHANGED <<runs, fails, kills, meddles, hubVars, gitVars, lock, histVars>>

\* trigger_codex_if_pr_created: one comment per cycle, by codex-trigger.json.
Handoff(p) ==
  /\ proc[p].at = "handoff"
  /\ \/ /\ Bound(Art(p)) /\ cycles[proc[p].c].marked
        /\ proc' = [proc EXCEPT ![p].at = "finish"] /\ UNCHANGED <<cycles, asked, fails>>
     \/ /\ Bound(Art(p)) /\ ~cycles[proc[p].c].marked
        /\ asked' = asked + 1
        /\ proc' = [proc EXCEPT ![p].at = "mark"] /\ UNCHANGED <<cycles, fails>>
     \/ ~Bound(Art(p)) /\ Block(p) /\ UNCHANGED <<asked, fails>>
     \/ fails < MaxFails /\ fails' = fails + 1 /\ Block(p) /\ UNCHANGED asked
  /\ UNCHANGED <<runs, kills, meddles, live, remote, prs, gitVars, lock, histVars>>

Mark(p) ==
  /\ proc[p].at = "mark"
  /\ IF Bound(Art(p))
     THEN /\ cycles' = [cycles EXCEPT ![proc[p].c].marked = TRUE]
          /\ proc' = [proc EXCEPT ![p].at = "finish"]
     ELSE Block(p)
  /\ UNCHANGED <<runs, fails, kills, meddles, hubVars, gitVars, lock, histVars>>

Finish(p) ==
  /\ proc[p].at = "finish"
  /\ cycles' = [cycles EXCEPT ![proc[p].c].done = TRUE, ![proc[p].c].complete = TRUE]
  /\ proc' = [proc EXCEPT ![p] = Stopped]
  /\ UNCHANGED <<runs, fails, kills, meddles, hubVars, gitVars, lock, histVars>>

-----------------------------------------------------------------------------
(* Kills and others *)

\* The kernel releases the lock of a killed run.
Kill(p) ==
  /\ proc[p].at # "stopped" /\ kills < MaxKills
  /\ kills' = kills + 1
  /\ lock' = [c \in DOMAIN lock |-> IF lock[c] = p THEN NoProc ELSE lock[c]]
  /\ proc' = [proc EXCEPT ![p] = Stopped]
  /\ UNCHANGED <<runs, fails, meddles, hubVars, gitVars, cycles, histVars>>

\* A leftover executor edits any path; people move the default branch, push to
\* the branch, close the pull request or mark it ready.
Meddle ==
  /\ meddles < MaxMeddles /\ meddles' = meddles + 1
  /\ \/ \E q \in Paths :
          /\ \E v \in (0 .. MaxContent) \ {files[q]} : files' = [files EXCEPT ![q] = v]
          /\ UNCHANGED <<hubVars, count>>
     \/ live' = TRUE /\ UNCHANGED <<remote, prs, asked, files, count>>
     \/ /\ count' = count + 1
        /\ remote' = [n |-> count + 1, tree |-> Untouched]
        /\ UNCHANGED <<live, prs, asked, files>>
     \/ \E k \in DOMAIN prs, f \in {"open", "draft"} :
          /\ prs' = [prs EXCEPT ![k][f] = FALSE]
          /\ UNCHANGED <<live, remote, asked, files, count>>
  /\ UNCHANGED <<runs, fails, kills, ref, cycles, lock, proc, histVars>>

Next ==
  \/ \E p \in Procs :
       \/ Begin(p) \/ Execute(p) \/ Lock(p) \/ Recover(p) \/ Validate(p) \/ Stage(p)
       \/ Commit(p) \/ Record(p) \/ Push(p) \/ Pushed(p) \/ OpenPr(p) \/ View(p)
       \/ Examine(p) \/ RunTests(p) \/ Reexamine(p) \/ Confirm(p) \/ Review(p)
       \/ Handoff(p) \/ Mark(p) \/ Finish(p) \/ Kill(p)
  \/ Meddle

Spec == Init /\ [][Next]_pubVars

-----------------------------------------------------------------------------
(* Properties *)

\* What leaves the machine is in scope and leaves once: every commit pushed
\* changes allowed paths only, however the worktree changes between the
\* validation, the staging and the commit; no retry, resumption or overlapping
\* run pushes a second commit or opens a second pull request ("a retry can
\* resume without rewriting history or creating a duplicate PR").
OnePublication ==
  /\ \A c \in sent : Changed(c.tree) # {} /\ Changed(c.tree) \subseteq Allowed
  /\ Cardinality(sent) <= 1
  /\ Len(prs) <= 1

\* A cycle recorded complete stands on a head that was pushed and whose exact
\* content passed the tests, and that its artifact names, with the worktree
\* changing during the tests (forge_receipt_verified_complete). The sandbox
\* backend, which tests the worktree itself, cannot promise it.
CompleteTrue ==
  \A c \in 1 .. Len(cycles) :
    cycles[c].complete =>
      /\ cycles[c].art.at = "complete"
      /\ cycles[c].art.head \in sent /\ cycles[c].art.head.tree \in passed
      /\ cycles[c].art.head.tree = cycles[c].art.tree

\* The publication never refuses its own work: while nobody meddles and runs do
\* not overlap, a run is stopped by a failed command, the executor or the
\* verifier, and by nothing an earlier kill left behind ("Resume the same publication/verifier
\* transaction after a transient stop").
NeverSelfRefused ==
  meddles = 0 =>
    \A p \in Procs : proc[p].why \in {"none", "command", "verifier", "paths"}

=============================================================================

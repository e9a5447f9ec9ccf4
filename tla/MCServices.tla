------------------------------ MODULE MCServices ------------------------------
(***************************************************************************)
(* The owner's approval of a release bundle, with two helpers: one message *)
(* and kills, two bundles and edited messages, two messages for one        *)
(* bundle. The continuity ledger: appends by two processes, signed imports *)
(* and their recovery, and the capsules that are shown. The forge's queue, *)
(* and its publication of owner-scoped work by one run and by two. The     *)
(* public memory service's retention: with a kill, a failure and a         *)
(* restored backup, over a time longer than a message may be served, and   *)
(* with identities that could come back. part says which of them runs.     *)
(***************************************************************************)
EXTENDS OwnerApproval, TLC

CONSTANTS b1, b2, m1, m2, h1, h2, p1, p2, r1, r2, r3, w1, w2, idA, idB, idC, NoEntry,
          f1, f2, NoRun, u1, supervisor, operator

VARIABLES
  part, hour, rewrites,
  faults, file, head, pending, unlinked, config, key, envelopes, proc, acked, view,
  clock, changes, queueFaults, issue, pr, others, defer, tree, run, held,
  runs, fails, pubKills, meddles, live, remote, prs, asked, kept, ref, count, cycles,
  lock, forge, sent, passed,
  budget, db, cache, redis, pause, tombs, backups, keeper

continuityVars == <<faults, file, head, pending, unlinked, config, key, envelopes, proc,
                    acked, view>>
queueVars == <<clock, changes, queueFaults, issue, pr, others, defer, tree, run, held>>
forgeVars == <<runs, fails, pubKills, meddles, live, remote, prs, asked, kept, ref,
               count, cycles, lock, forge, sent, passed>>
memoryVars == <<budget, db, cache, redis, pause, tombs, backups, keeper>>
vars == <<part, hour, rewrites, approvalVars, continuityVars, queueVars, forgeVars, memoryVars>>

MCSymmetry == Permutations({h1, h2})

\* One bundle and one message, two bundles and one message that is edited, two
\* messages for one bundle.
Killed == INSTANCE OwnerApproval WITH MaxEdits <- 0
Edited == INSTANCE OwnerApproval WITH MaxTime <- 1, MaxKills <- 0
Twice == INSTANCE OwnerApproval WITH MaxTime <- 1, MaxKills <- 0, MaxEdits <- 0

\* Bounds on what there is in a part.
OneBundle == bundle'[b2] = None /\ \A m \in Messages : message'[m].text # b2
OneMessage == message'[m2].at = None

\* r2 corrects r1; r3 claims r1's entry id.
Appends == INSTANCE ContinuityLedger WITH
  Procs <- {p1, p2}, Hook <- p1, Commands <- {"init", "capsule"},
  Requests <- {r1, r2, r3}, WriteIds <- {}, Ids <- {idA, idB},
  Id <- (r1 :> idA) @@ (r2 :> idB) @@ (r3 :> idA),
  Target <- (r1 :> NoEntry) @@ (r2 :> idA) @@ (r3 :> NoEntry), Suppressions <- {},
  MaxTime <- 1, MaxKills <- 1, MaxLosses <- 0, MaxTorn <- 1, MaxSigned <- 0,
  MaxEdits <- 0, TTL <- 1, Skew <- 1, None <- NoEntry,
  now <- hour, edits <- rewrites
\* w1 corrects r1, w2 suppresses it.
Imports == INSTANCE ContinuityLedger WITH
  Procs <- {p1}, Hook <- p1, Commands <- {"recover", "init"}, Requests <- {r1},
  WriteIds <- {w1, w2}, Ids <- {idA, idC}, Id <- (r1 :> idA) @@ (w1 :> idC) @@ (w2 :> idC),
  Target <- (r1 :> NoEntry) @@ (w1 :> idA) @@ (w2 :> idA), Suppressions <- {w2},
  MaxTime <- 0, MaxKills <- 1, MaxLosses <- 1, MaxTorn <- 0, MaxSigned <- 2,
  MaxEdits <- 1, TTL <- 1, Skew <- 1, None <- NoEntry,
  now <- hour, edits <- rewrites
\* r2 corrects r1, w2 suppresses the correction.
Views == INSTANCE ContinuityLedger WITH
  Procs <- {p1}, Hook <- p1, Commands <- {"project", "init"}, Requests <- {r1, r2},
  WriteIds <- {w2}, Ids <- {idA, idB, idC}, Id <- (r1 :> idA) @@ (r2 :> idB) @@ (w2 :> idC),
  Target <- (r1 :> NoEntry) @@ (r2 :> idA) @@ (w2 :> idB), Suppressions <- {w2},
  MaxTime <- 0, MaxKills <- 1, MaxLosses <- 0, MaxTorn <- 0, MaxSigned <- 1,
  MaxEdits <- 2, TTL <- 1, Skew <- 1, None <- NoEntry,
  now <- hour, edits <- rewrites

Queue == INSTANCE ForgeQueue WITH
  Issues <- {1, 2}, Needs <- (1 :> {2}) @@ (2 :> {}), MaxTime <- 4, MaxChanges <- 2,
  MaxFaults <- 1, MaxRounds <- 1, MaxRetries <- 1, RetryAfter <- 1, MaxTotal <- 3,
  MaxForge <- 1, faults <- queueFaults

Alone == INSTANCE ScopedPublication WITH
  Procs <- {f1}, Paths <- {"a", "b"}, Allowed <- {"a"}, Mode <- "omh",
  Backend <- "docker", MaxRuns <- 3, MaxFails <- 1, MaxKills <- 2, MaxMeddles <- 2,
  MaxContent <- 2, NoProc <- NoRun, kills <- pubKills, proc <- forge,
  files <- kept
Overlapped == INSTANCE ScopedPublication WITH
  Procs <- {f1, f2}, Paths <- {"a", "b"}, Allowed <- {"a"}, Mode <- "direct",
  Backend <- "docker", MaxRuns <- 2, MaxFails <- 1, MaxKills <- 1, MaxMeddles <- 2,
  MaxContent <- 2, NoProc <- NoRun, kills <- pubKills, proc <- forge,
  files <- kept

MemoryKilled == INSTANCE HonchoRetention WITH
  Peers <- {u1}, Sup <- supervisor, Op <- operator, Life <- 2, Reuse <- 1,
  MaxBackups <- 2, MaxTime <- 3, MaxRows <- 1, MaxPlans <- 1, MaxKills <- 1,
  MaxFaults <- 1, MaxRestores <- 1, proc <- keeper, now <- hour
\* A message can get older than Life + 2.
MemoryAged == INSTANCE HonchoRetention WITH
  Peers <- {u1}, Sup <- supervisor, Op <- operator, Life <- 2, Reuse <- 1,
  MaxBackups <- 2, MaxTime <- 5, MaxRows <- 1, MaxPlans <- 0, MaxKills <- 1,
  MaxFaults <- 1, MaxRestores <- 1, proc <- keeper, now <- hour
\* Two rows are deleted one after the other; the restored backup knows the first
\* only, so its sequence would give the identity of the second to a third.
MemoryReused == INSTANCE HonchoRetention WITH
  Peers <- {u1}, Sup <- supervisor, Op <- operator, Life <- 2, Reuse <- 1,
  MaxBackups <- 2, MaxTime <- 2, MaxRows <- 3, MaxPlans <- 2, MaxKills <- 0,
  MaxFaults <- 0, MaxRestores <- 1, proc <- keeper, now <- hour

ASSUME ServicesAssumption ==
  /\ ApprovalConstants
  /\ Appends!ContinuityConstants /\ Imports!ContinuityConstants
  /\ Views!ContinuityConstants
  /\ Queue!QueueConstants /\ Alone!PublicationConstants /\ Overlapped!PublicationConstants
  /\ MemoryKilled!RetentionConstants /\ MemoryAged!RetentionConstants
  /\ MemoryReused!RetentionConstants

ContinuityOff ==
  /\ faults = 0 /\ file = 0 /\ head = 0 /\ pending = 0 /\ unlinked = 0 /\ config = 0
  /\ key = 0 /\ envelopes = 0 /\ proc = 0 /\ acked = 0 /\ view = 0

QueueOff ==
  /\ clock = 0 /\ changes = 0 /\ queueFaults = 0 /\ issue = 0 /\ pr = 0 /\ others = 0
  /\ defer = 0 /\ tree = 0 /\ run = 0 /\ held = 0
ForgeOff ==
  /\ runs = 0 /\ fails = 0 /\ pubKills = 0 /\ meddles = 0 /\ live = 0 /\ remote = 0
  /\ prs = 0 /\ asked = 0 /\ kept = 0 /\ ref = 0 /\ count = 0 /\ cycles = 0 /\ lock = 0
  /\ forge = 0 /\ sent = 0 /\ passed = 0

MemoryOff ==
  /\ budget = 0 /\ db = 0 /\ cache = 0 /\ redis = 0 /\ pause = 0 /\ tombs = 0
  /\ backups = 0 /\ keeper = 0

Init ==
  /\ ApprovalInit
  /\ \/ /\ part \in {"killed", "edited", "twice"}
        /\ hour = 0 /\ rewrites = 0 /\ ContinuityOff /\ QueueOff /\ ForgeOff /\ MemoryOff
     \/ /\ \/ part = "appends" /\ Appends!Init
           \/ part = "imports" /\ Imports!Init
           \/ part = "views" /\ Views!Init
        /\ QueueOff /\ ForgeOff /\ MemoryOff
     \/ /\ hour = 0 /\ rewrites = 0 /\ ContinuityOff /\ MemoryOff
        /\ \/ part = "queue" /\ Queue!Init /\ ForgeOff
           \/ part = "alone" /\ Alone!Init /\ QueueOff
           \/ part = "overlapped" /\ Overlapped!Init /\ QueueOff
     \/ /\ rewrites = 0 /\ ContinuityOff /\ QueueOff /\ ForgeOff
        /\ \/ part = "memoryKilled" /\ MemoryKilled!Init
           \/ part = "memoryAged" /\ MemoryAged!Init
           \/ part = "memoryReused" /\ MemoryReused!Init

Next ==
  /\ UNCHANGED part
  /\ \/ /\ \/ part = "killed" /\ Killed!ApprovalNext /\ OneBundle /\ OneMessage
           \/ part = "edited" /\ Edited!ApprovalNext /\ OneMessage
           \/ part = "twice" /\ Twice!ApprovalNext /\ OneBundle
        /\ UNCHANGED <<hour, rewrites, continuityVars, queueVars, forgeVars, memoryVars>>
     \/ /\ \/ part = "appends" /\ Appends!Next
           \/ part = "imports" /\ Imports!Next
           \/ part = "views" /\ Views!Next
        /\ UNCHANGED <<approvalVars, queueVars, forgeVars, memoryVars>>
     \/ /\ UNCHANGED <<hour, rewrites, approvalVars, continuityVars, memoryVars>>
        /\ \/ part = "queue" /\ Queue!Next /\ UNCHANGED forgeVars
           \/ part = "alone" /\ Alone!Next /\ UNCHANGED queueVars
           \/ part = "overlapped" /\ Overlapped!Next /\ UNCHANGED queueVars
     \/ /\ UNCHANGED <<rewrites, approvalVars, continuityVars, queueVars, forgeVars>>
        /\ \/ part = "memoryKilled" /\ MemoryKilled!Next
           \/ part = "memoryAged" /\ MemoryAged!Next
           \/ part = "memoryReused" /\ MemoryReused!Next

Spec == Init /\ [][Next]_vars

-----------------------------------------------------------------------------
(* Properties *)

\* The continuity ledger: what was answered stays, at its place, through kills
\* and power losses; retries and replays get the same answer; nothing takes
\* effect twice; what is on disk is at every instant a verified store or one
\* that recovery enumerates; a capsule never shows again what an earlier one
\* hid (append_entry, admit_envelope, effective_entries, projection_state).
LedgerSafe ==
  /\ part = "appends" =>
       Appends!ContinuityTypeOK /\ Appends!AckedDurable /\ Appends!OneAnswer
  /\ part = "imports" =>
       /\ Imports!AckedDurable /\ Imports!OneAnswer
       /\ Imports!OnceApplied /\ Imports!Recoverable
  /\ part = "views" => Views!NoResurrection

\* The forge: it stays within its limits; what it publishes is in the owner's
\* scope and leaves once, however the worktree, the branch and the pull request
\* change under it; a cycle recorded complete stands on a pushed head whose
\* content passed the tests; and it never refuses what an earlier kill of its
\* own left (choose_candidate, publish_scoped_draft, finalize_implementation).
ForgeSafe ==
  /\ part = "queue" => Queue!QueueTypeOK /\ Queue!WithinLimits
  /\ part = "alone" =>
       /\ Alone!PublicationTypeOK /\ Alone!OnePublication /\ Alone!CompleteTrue
       /\ Alone!NeverSelfRefused
  /\ part = "overlapped" => Overlapped!OnePublication /\ Overlapped!CompleteTrue

\* The public memory service: it serves over no deletion left half done by a
\* kill, a failure or a refusal; what was deleted stays deleted while it serves,
\* through a restored backup too, and its identities name no new message; what
\* was deleted is in a backup until that expires; and no message is served that
\* is older than the retention allows (supervise_public_service,
\* honcho_startup_blockers, run_public_retention_cycle).
MemorySafe ==
  /\ part = "memoryKilled" =>
       /\ MemoryKilled!RetentionTypeOK /\ MemoryKilled!NoneHalfDeleted
       /\ MemoryKilled!ErasedStaysErased /\ MemoryKilled!DeletedIsBackedUp
  /\ part = "memoryAged" =>
       /\ MemoryAged!NoneHalfDeleted /\ MemoryAged!ErasedStaysErased
       /\ MemoryAged!DeletedIsBackedUp /\ MemoryAged!ServedYoung
  /\ part = "memoryReused" =>
       /\ MemoryReused!NoneHalfDeleted /\ MemoryReused!ErasedStaysErased
       /\ MemoryReused!DeletedIsBackedUp

\* With a torn row on disk the continuity ledger answers nothing any more
\* (verify_store); and the forge builds only what the owner labelled, as it was
\* labelled (choose_candidate, verify_owner_ready_snapshot).
ServiceSteps ==
  [][/\ part = "appends" => Appends!TornFailsClosedStep
     /\ part = "queue" => Queue!BuiltAsLabelledStep]_vars

=============================================================================

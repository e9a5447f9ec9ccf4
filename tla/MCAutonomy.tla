------------------------------ MODULE MCAutonomy ------------------------------
(***************************************************************************)
(* The autonomy controls. Their hash-chained journal: one caller with      *)
(* rotations and deaths, and two callers over midnight. The controls that  *)
(* are decided from it: a lane that pushes, a lane that comments, and      *)
(* three runs over three days. And the operator's commands around them:    *)
(* the registry of services, the owner's mission, the credentials of the   *)
(* model's homes. part says which of the eight.                            *)
(***************************************************************************)
EXTENDS Integers

CONSTANT Nothing

VARIABLES
  part,
  today, calls, holder, files, archive, checkpoint, index, lines, acked, faults,
  now, lease, worker, child, runs, charged, circuit, effects, latest, applied,
  remote, deaths,
  conf, registry, plist, loaded, lock, job, restored, count,
  date, manifest, safe, proposals, draft, confirming, confirms, tally,
  clock, stores, others, issued, spent, jobs

journalVars == <<today, calls, holder, files, archive, checkpoint, index, lines,
                 acked, faults>>
controlVars == <<now, lease, worker, child, runs, charged, circuit, effects, latest,
                 applied, remote, deaths>>
registryVars == <<conf, registry, plist, loaded, lock, job, restored, count>>
missionVars == <<date, manifest, safe, proposals, draft, confirming, confirms, tally>>
authVars == <<clock, stores, others, issued, spent, jobs>>
operatorVars == <<registryVars, missionVars, authVars>>
vars == <<part, journalVars, controlVars, operatorVars>>

Journal == INSTANCE AutonomyJournal WITH
  Callers <- {"c1"}, Sizes <- {1, 2}, Target <- 2, MaxDay <- 2, MaxEvents <- 4,
  MaxFaults <- 2
Race == INSTANCE AutonomyJournal WITH
  Callers <- {"c1", "c2"}, Sizes <- {1}, Target <- 2, MaxDay <- 2, MaxEvents <- 4,
  MaxFaults <- 1

Pushing == INSTANCE AutonomyControls WITH
  Lanes <- {"forge", "triage"}, Spawned <- {"forge"}, RunKeys <- {"k1"},
  Comments <- {}, Pushes <- {"push"}, Runs <- 1 .. 2, Effects <- 1 .. 2,
  MaxTime <- 3, DayLength <- 3, MaxDeaths <- 1, MaxRun <- 1, Grace <- 1,
  RuntimeLimit <- 3, RunLimit <- 2, EffectLimit <- 2, MinReservation <- 1,
  Threshold <- 2, Cooldown <- 2
Commenting == INSTANCE AutonomyControls WITH
  Lanes <- {"forge", "triage"}, Spawned <- {"forge"}, RunKeys <- {"k1"},
  Comments <- {"comment"}, Pushes <- {}, Runs <- 1 .. 2, Effects <- 1 .. 2,
  MaxTime <- 3, DayLength <- 3, MaxDeaths <- 2, MaxRun <- 1, Grace <- 1,
  RuntimeLimit <- 3, RunLimit <- 2, EffectLimit <- 2, MinReservation <- 1,
  Threshold <- 2, Cooldown <- 2
Running == INSTANCE AutonomyControls WITH
  Lanes <- {"forge", "maintainer"}, Spawned <- {"forge", "maintainer"},
  RunKeys <- {"k1"}, Comments <- {}, Pushes <- {}, Runs <- 1 .. 3, Effects <- 1 .. 2,
  MaxTime <- 6, DayLength <- 3, MaxDeaths <- 1, MaxRun <- 3, Grace <- 1,
  RuntimeLimit <- 3, RunLimit <- 2, EffectLimit <- 2, MinReservation <- 1,
  Threshold <- 2, Cooldown <- 2

Registry == INSTANCE ServiceRegistry WITH
  Instances <- {1, 2}, Kinds <- {"scheduler", "guide"},
  MaxScripts <- 2, MaxFaults <- 2, MaxTouches <- 1
Mission == INSTANCE MissionProposal WITH
  Missions <- {"m1"}, Undecided <- Nothing, Names <- {"n1", "n2"},
  Lifetime <- 0, MaxTime <- 1, MaxEdits <- 1, MaxRuns <- 2, MaxFaults <- 2,
  now <- date, files <- proposals, holder <- confirming
Auth == INSTANCE AuthProjection WITH
  Homes <- 2, Accounts <- {"a1", "a2"}, Owner <- "a1",
  Horizon <- 0, Life <- 1, MaxTime <- 1, MaxIssued <- 3, MaxJobs <- 2, MaxOthers <- 1

ASSUME AutonomyAssumption ==
  /\ Journal!JournalConstants /\ Race!JournalConstants
  /\ Pushing!ControlsConstants /\ Commenting!ControlsConstants
  /\ Running!ControlsConstants
  /\ Registry!RegistryConstants /\ Mission!MissionConstants /\ Auth!AuthConstants

JournalOff ==
  /\ today = 0 /\ calls = 0 /\ holder = 0 /\ files = 0 /\ archive = 0
  /\ checkpoint = 0 /\ index = 0 /\ lines = 0 /\ acked = 0 /\ faults = 0
ControlsOff ==
  /\ now = 0 /\ lease = 0 /\ worker = 0 /\ child = 0 /\ runs = 0 /\ charged = 0
  /\ circuit = 0 /\ effects = 0 /\ latest = 0 /\ applied = 0 /\ remote = 0 /\ deaths = 0

RegistryOff ==
  /\ conf = 0 /\ registry = 0 /\ plist = 0 /\ loaded = 0 /\ lock = 0 /\ job = 0
  /\ restored = 0 /\ count = 0
MissionOff ==
  /\ date = 0 /\ manifest = 0 /\ safe = 0 /\ proposals = 0 /\ draft = 0
  /\ confirming = 0 /\ confirms = 0 /\ tally = 0
AuthOff ==
  /\ clock = 0 /\ stores = 0 /\ others = 0 /\ issued = 0 /\ spent = 0 /\ jobs = 0
OperatorOff == RegistryOff /\ MissionOff /\ AuthOff
AutonomyOff == JournalOff /\ ControlsOff

Init ==
  \/ part = "journal" /\ Journal!Init /\ ControlsOff /\ OperatorOff
  \/ part = "race" /\ Race!Init /\ ControlsOff /\ OperatorOff
  \/ part = "pushing" /\ Pushing!Init /\ JournalOff /\ OperatorOff
  \/ part = "commenting" /\ Commenting!Init /\ JournalOff /\ OperatorOff
  \/ part = "running" /\ Running!Init /\ JournalOff /\ OperatorOff
  \/ part = "registry" /\ Registry!RegistryInit /\ AutonomyOff /\ MissionOff /\ AuthOff
  \/ part = "mission" /\ Mission!MissionInit /\ AutonomyOff /\ RegistryOff /\ AuthOff
  \/ part = "auth" /\ Auth!AuthInit /\ AutonomyOff /\ RegistryOff /\ MissionOff

Next ==
  /\ UNCHANGED part
  /\ \/ part = "journal" /\ Journal!Next /\ UNCHANGED <<controlVars, operatorVars>>
     \/ part = "race" /\ Race!Next /\ UNCHANGED <<controlVars, operatorVars>>
     \/ part = "pushing" /\ Pushing!Next /\ UNCHANGED <<journalVars, operatorVars>>
     \/ part = "commenting" /\ Commenting!Next /\ UNCHANGED <<journalVars, operatorVars>>
     \/ part = "running" /\ Running!Next /\ UNCHANGED <<journalVars, operatorVars>>
     \/ /\ part = "registry" /\ Registry!RegistryNext
        /\ UNCHANGED <<journalVars, controlVars, missionVars, authVars>>
     \/ /\ part = "mission" /\ Mission!MissionNext
        /\ UNCHANGED <<journalVars, controlVars, registryVars, authVars>>
     \/ /\ part = "auth" /\ Auth!AuthNext
        /\ UNCHANGED <<journalVars, controlVars, registryVars, missionVars>>

Spec == Init /\ [][Next]_vars

-----------------------------------------------------------------------------
(* Properties *)

\* The journal of one caller after any deaths: an event whose append returned
\* is in the history exactly once, wherever rotations left its copies; the
\* projection that decides idempotency, budgets and circuits is that of the
\* whole history when it is read; and what was written can be read back
\* (append_event, _rotate_checkpoint, _index_ready).
JournalSafe ==
  part = "journal" =>
    /\ Journal!JournalTypeOK /\ Journal!AckedKept
    /\ Journal!IndexTrue /\ Journal!JournalVerifies

\* Effects: a completed or reconciled effect stands on a call that was carried
\* out, although the git guard settles the effects of other processes by a
\* reading of the branch that may be old; a comment, issue or pull request is
\* written at most once, whichever processes died between journal and call.
\* Runs: one trigger of a lane succeeds once, although an abandoned run may
\* come back beside its successor; the runtime kept by adding and taking away
\* reservations is the runtime the runs really have, and within each day's budget.
ControlsSafe ==
  /\ part = "pushing" => Pushing!ControlTypeOK /\ Pushing!EffectTrue
  /\ part = "commenting" => Commenting!EffectTrue /\ Commenting!WriteAtMostOnce
  /\ part = "running" => Running!ControlsSafe

\* The operator's commands, interrupted anywhere and beside one another: a
\* label has one owner, what is registered runs its own home, and an uninstall
\* leaves nothing (john_lomein_service_registry.py); a mission reported as
\* confirmed is on disk for good and asks for nothing but an observer
\* (john_lomein_mission.py); no command loses another provider's credentials,
\* and one that ran alone leaves the homes as it says
\* (john_lomein_auth_projection.py).
OperatorSafe ==
  /\ part = "registry" => Registry!RegistrySafe
  /\ part = "mission" => Mission!MissionSafe
  /\ part = "auth" => Auth!AuthSafe

\* What no step does: write to a journal that does not verify, whoever was
\* waiting for its lock (append_event); strike a label from the registry whose
\* service is still there (_stop_services_unlocked); take the authority back
\* to a login it had left (recover_authority).
ControlSteps ==
  [][/\ part = "race" => Race!FailsClosedStep
     /\ part = "registry" => Registry!StruckGoneStep
     /\ part = "auth" => Auth!AuthorityForwardStep]_vars

=============================================================================

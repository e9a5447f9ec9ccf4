---------------------------- MODULE AutonomyControls ----------------------------
(***************************************************************************)
(* What the autonomy controls decide (scripts/john_lomein_autonomy.py) and *)
(* who asks them: the lane workers (john-lomein-worker.py), the triage job *)
(* (john-lomein-issue-triage.py), and the guards through which the work of *)
(* a run writes to GitHub (john-lomein-gh-guard.py, john-lomein-git-guard. *)
(* py). Every call of the controls is one step here; AutonomyJournal shows *)
(* that a call sees all earlier ones.                                      *)
(*                                                                         *)
(* A worker holds the mutation lease while its child, a process in a       *)
(* session of its own, works. Worker and child can die separately.         *)
(***************************************************************************)
EXTENDS Integers, FiniteSets, FiniteSetsExt

CONSTANTS
  Lanes, Spawned,        \* all lanes; those the worker spawns
  RunKeys,               \* idempotency keys of runs
  Comments, Pushes,      \* operations of the gh guard and of the git guard
  Runs, Effects,         \* bounds: 1 .. n, in the order they are begun
  MaxTime, DayLength, MaxDeaths,
  MaxRun, Grace,         \* max_run_seconds, the 300 seconds of a stale run
  RuntimeLimit, RunLimit, EffectLimit, MinReservation,
  Threshold, Cooldown

ControlsConstants ==
  /\ Spawned \subseteq Lanes /\ IsFiniteSet(Runs)
  /\ Comments \cap Pushes = {}
  /\ \A n \in Runs : n \in Nat \ {0} /\ 1 .. n \subseteq Runs
  /\ \A n \in Effects : n \in Nat \ {0} /\ 1 .. n \subseteq Effects
  /\ \A n \in {MaxTime, MaxDeaths, Grace, RuntimeLimit, RunLimit, EffectLimit,
               Threshold, Cooldown} : n \in Nat
  /\ \A n \in {DayLength, MaxRun, MinReservation} : n \in Nat \ {0}

VARIABLES
  now,
  lease,     \* the lane that holds .mutation.lock
  worker,    \* the worker of each lane
  child,     \* the process that does the work of each run
  runs,      \* active_runs and terminal_runs
  charged,   \* daily_runtime
  circuit,   \* lane_circuits
  effects,   \* pending_effects and terminal_effects
  latest,    \* latest_effects, by operation
  applied,   \* comments written, and pushes landed, ever
  remote,    \* the pushes whose commit the branch is on
  deaths

controlVars == <<runs, charged, circuit, effects, latest>>
processVars == <<lease, worker, child>>
worldVars == <<applied, remote>>
vars == <<now, controlVars, processVars, worldVars, deaths>>

Times == 0 .. MaxTime
Day(t) == t \div DayLength
Days == 0 .. Day(MaxTime + MaxRun)
Operations == Comments \cup Pushes
None == 0

NoRun == [state |-> "none", lane |-> "none", key |-> "none", started |-> 0,
          allowed |-> 0, used |-> 0]
NoChild == [pc |-> "none", op |-> "none", effect |-> None, saw |-> FALSE, ok |-> FALSE]
NoEffect == [state |-> "none", op |-> "none", day |-> 0]
Off == [pc |-> "off", run |-> None, ok |-> FALSE]

WorkerType == [pc : {"off", "started", "leased", "watching", "ended", "finishing"},
               run : Runs \cup {None}, ok : BOOLEAN]
ChildType == [pc : {"none", "idle", "checked", "read", "refused", "retry", "begun", "acted",
                    "done"},
              op : Operations \cup {"none"}, effect : Effects \cup {None},
              saw : BOOLEAN, ok : BOOLEAN]
RunType == [state : {"none", "active", "ok", "failed", "abandoned"},
            lane : Lanes \cup {"none"}, key : RunKeys \cup {"none"},
            started : Times, allowed : 0 .. MaxRun, used : 0 .. MaxRun]
CircuitType == [failures : Nat, at : Times]
EffectType == [state : {"none", "pending", "completed", "failed", "reconciled_completed",
                        "reconciled_absent"},
               op : Operations \cup {"none"}, day : Days]

ControlTypeOK ==
  /\ now \in Times /\ deaths \in 0 .. MaxDeaths
  /\ lease \in Lanes \cup {"free"}
  /\ worker \in [Lanes -> WorkerType] /\ child \in [Runs -> ChildType]
  /\ runs \in [Runs -> RunType] /\ charged \in [Days -> Nat]
  /\ circuit \in [Lanes -> CircuitType]
  /\ effects \in [Effects -> EffectType] /\ latest \in [Operations -> Effects \cup {None}]
  /\ applied \in [Operations -> Nat] /\ remote \subseteq Pushes

Init ==
  /\ now = 0
  /\ lease = "free"
  /\ worker = [l \in Lanes |-> Off]
  /\ child = [r \in Runs |-> NoChild]
  /\ runs = [r \in Runs |-> NoRun]
  /\ charged = [d \in Days |-> 0]
  /\ circuit = [l \in Lanes |-> [failures |-> 0, at |-> 0]]
  /\ effects = [e \in Effects |-> NoEffect]
  /\ latest = [o \in Operations |-> None]
  /\ applied = [o \in Operations |-> 0]
  /\ remote = {}
  /\ deaths = 0

-----------------------------------------------------------------------------
(* The projection *)

ActiveRuns == {r \in Runs : runs[r].state = "active"}

\* _runtime_allocations: the seconds of a reservation that fall on a day.
Allocation(started, seconds, d) ==
  Cardinality({t \in started .. started + seconds - 1 : Day(t) = d})

\* Mutant: all of a reservation is charged to the day it starts on.
AdjustFirstDay(table, started, seconds, sign) ==
  [table EXCEPT ![Day(started)] = @ + sign * seconds]

\* _adjust_daily_runtime
Adjust(table, started, seconds, sign) ==
  [d \in Days |-> table[d] + sign * Allocation(started, seconds, d)]

\* The failure streak of a lane after a terminal event.
Streak(table, lane, good) ==
  [table EXCEPT ![lane] = IF good THEN [failures |-> 0, at |-> 0]
                          ELSE [failures |-> @.failures + 1, at |-> now]]

\* _recover_stale_runs_unlocked
Stale == {r \in ActiveRuns : now - runs[r].started > runs[r].allowed + Grace}

Recovered == [r \in Runs |-> IF r \in Stale
                             THEN [runs[r] EXCEPT !.state = "abandoned",
                                                  !.used = runs[r].allowed]
                             ELSE runs[r]]

RecoveredCircuit ==
  [l \in Lanes |->
     LET lost == {r \in Stale : runs[r].lane = l} IN
     IF lost = {} THEN circuit[l]
     ELSE [failures |-> circuit[l].failures + Cardinality(lost), at |-> now]]

-----------------------------------------------------------------------------
(* begin_run, finish_run *)

CircuitOpen(table, l) ==
  table[l].failures >= Threshold /\ now < table[l].at + Cooldown

LaneRuns(l) == Cardinality({r \in Runs : /\ runs[r].state # "none"
                                         /\ runs[r].lane = l
                                         /\ Day(runs[r].started) = Day(now)})

\* Mutant: the reservation of an active run is not counted.
RemainingUsed ==
  RuntimeLimit - FoldSet(LAMBDA r, n : n + runs[r].used, 0,
                         {r \in Runs : Day(runs[r].started) = Day(now)})

Remaining == RuntimeLimit - charged[Day(now)]

\* Mutant: only a run that is still active blocks its trigger.
RunAllowedAgain(l, k) ==
  /\ \A r \in Runs : runs[r].lane = l /\ runs[r].key = k => runs[r].state # "active"
  /\ ~ CircuitOpen(RecoveredCircuit, l)
  /\ LaneRuns(l) < RunLimit
  /\ Remaining >= MinReservation

RunAllowed(l, k) ==
  /\ \A r \in Runs : /\ Recovered[r].lane = l
                     /\ Recovered[r].key = k
                     => Recovered[r].state \notin {"active", "ok"}
  /\ ~ CircuitOpen(RecoveredCircuit, l)
  /\ LaneRuns(l) < RunLimit
  /\ Remaining >= MinReservation

NextRun == {r \in Runs : runs[r].state = "none" /\ \A s \in Runs : s < r => runs[s].state # "none"}

\* Where a worker is when it calls finish_run.
MayFinish(l) == worker[l].pc = IF l \in Spawned THEN "finishing" ELSE "ended"
Left(l) == IF lease = l THEN "free" ELSE lease

\* begin_run of a worker that holds the lease; its child starts.
BeginRun(l, k) ==
  /\ worker[l].pc = "leased"
  /\ RunAllowed(l, k)
  /\ \E r \in NextRun :
       LET allowed == IF MaxRun <= Remaining THEN MaxRun ELSE Remaining IN
       /\ runs' = [Recovered EXCEPT ![r] = [state |-> "active", lane |-> l, key |-> k,
                                            started |-> now, allowed |-> allowed,
                                            used |-> 0]]
       /\ charged' = Adjust(charged, now, allowed, 1)
       /\ worker' = [worker EXCEPT ![l] = [pc |-> "watching", run |-> r, ok |-> FALSE]]
       /\ child' = [child EXCEPT ![r] = [NoChild EXCEPT !.pc = "idle"]]
  /\ circuit' = RecoveredCircuit
  /\ UNCHANGED <<now, lease, effects, latest, worldVars, deaths>>

RefuseRun(l, k) ==
  /\ worker[l].pc = "leased"
  /\ ~ RunAllowed(l, k)
  /\ runs' = Recovered /\ circuit' = RecoveredCircuit
  /\ worker' = [worker EXCEPT ![l] = Off]
  /\ lease' = "free"
  /\ UNCHANGED <<now, charged, effects, latest, child, worldVars, deaths>>

\* Mutant: the time used is not cut to the reservation.
FinishRunUncut(l) ==
  LET r == worker[l].run IN
  /\ MayFinish(l)
  /\ IF runs[r].state # "active" THEN UNCHANGED <<runs, circuit>>
     ELSE /\ runs' = [runs EXCEPT ![r].state = IF worker[l].ok THEN "ok" ELSE "failed",
                                  ![r].used = now - runs[r].started]
          /\ circuit' = Streak(circuit, runs[r].lane, worker[l].ok)
  /\ worker' = [worker EXCEPT ![l] = Off] /\ lease' = Left(l)
  /\ UNCHANGED <<now, charged, effects, latest, child, worldVars, deaths>>

\* finish_run, with the monotonic time of the worker; nothing reported is the
\* whole reservation.
FinishRun(l) ==
  LET r == worker[l].run
      t == runs[r].started
      passed == IF now - t < runs[r].allowed THEN now - t ELSE runs[r].allowed
      used == IF passed = 0 THEN runs[r].allowed ELSE passed IN
  /\ MayFinish(l)
  /\ IF runs[r].state # "active" THEN UNCHANGED <<runs, charged, circuit>>
     ELSE /\ runs' = [runs EXCEPT ![r].state = IF worker[l].ok THEN "ok" ELSE "failed",
                                  ![r].used = used]
          /\ charged' = Adjust(Adjust(charged, t, runs[r].allowed, -1), t, used, 1)
          /\ circuit' = Streak(circuit, runs[r].lane, worker[l].ok)
  /\ worker' = [worker EXCEPT ![l] = Off] /\ lease' = Left(l)
  /\ UNCHANGED <<now, effects, latest, child, worldVars, deaths>>

-----------------------------------------------------------------------------
(* The worker *)

WorkerOnly == UNCHANGED <<now, controlVars, worldVars, deaths>>

\* spawn_lane; the triage job starts without looking at the others.
Spawn(l) ==
  /\ worker[l].pc = "off"
  /\ l \in Spawned => \A m \in Spawned : worker[m].pc = "off"
  /\ worker' = [worker EXCEPT ![l] = [Off EXCEPT !.pc = "started"]]
  /\ UNCHANGED <<lease, child>> /\ WorkerOnly

\* mutation_lease, without waiting.
TakeLease(l) ==
  /\ worker[l].pc = "started"
  /\ IF lease = "free"
     THEN lease' = l /\ worker' = [worker EXCEPT ![l].pc = "leased"]
     ELSE lease' = lease /\ worker' = [worker EXCEPT ![l] = Off]
  /\ UNCHANGED child /\ WorkerOnly

\* stream_command: the child has ended.
ChildEnds(l) ==
  /\ worker[l].pc = "watching"
  /\ child[worker[l].run].pc \in {"none", "idle"}
  /\ \E ok \in BOOLEAN :
       /\ ok => child[worker[l].run].pc = "idle"
       /\ worker' = [worker EXCEPT ![l].pc = "ended", ![l].ok = ok]
  /\ child' = [child EXCEPT ![worker[l].run] = NoChild]
  /\ UNCHANGED lease /\ WorkerOnly

\* The deadline: the session of the child is killed.
Deadline(l) ==
  LET r == worker[l].run IN
  /\ l \in Spawned /\ worker[l].pc = "watching"
  /\ now >= runs[r].started + runs[r].allowed
  /\ child' = [child EXCEPT ![r] = NoChild]
  /\ worker' = [worker EXCEPT ![l].pc = "ended"]
  /\ UNCHANGED lease /\ WorkerOnly

\* A worker releases the lease before it finishes the run; the triage job
\* after it.
Release(l) ==
  /\ l \in Spawned /\ worker[l].pc = "ended"
  /\ lease' = "free"
  /\ worker' = [worker EXCEPT ![l].pc = "finishing"]
  /\ UNCHANGED child /\ WorkerOnly

\* The kernel frees the lease of a dead worker; the child lives on. The
\* triage job does its work itself.
WorkerDies(l) ==
  /\ deaths < MaxDeaths /\ deaths' = deaths + 1
  /\ worker[l].pc # "off"
  /\ worker' = [worker EXCEPT ![l] = Off]
  /\ lease' = Left(l)
  /\ child' = [r \in Runs |-> IF l \notin Spawned /\ runs[r].lane = l THEN NoChild
                              ELSE child[r]]
  /\ UNCHANGED <<now, controlVars, worldVars>>

ChildDies(r) ==
  /\ deaths < MaxDeaths /\ deaths' = deaths + 1
  /\ child[r].pc # "none" /\ runs[r].lane \in Spawned
  /\ child' = [child EXCEPT ![r] = NoChild]
  /\ UNCHANGED <<now, controlVars, lease, worker, worldVars>>

-----------------------------------------------------------------------------
(* The guards: what the child of run r does for an operation *)

Step(r, pc) == child' = [child EXCEPT ![r].pc = pc]
ByChild == UNCHANGED <<now, lease, worker, deaths>>

\* require_active_run
Check(r, o) ==
  /\ child[r].pc = "idle"
  /\ runs' = Recovered /\ circuit' = RecoveredCircuit
  /\ child' = IF Recovered[r].state = "active"
              THEN [child EXCEPT ![r] = [NoChild EXCEPT !.pc = "checked", !.op = o]]
              ELSE child
  /\ UNCHANGED <<charged, effects, latest, worldVars>> /\ ByChild

\* _remote_branch_oid, before begin_effect
ReadRemote(r) ==
  /\ child[r].pc = "checked" /\ child[r].op \in Pushes
  /\ child' = [child EXCEPT ![r].pc = "read", ![r].saw = child[r].op \in remote]
  /\ UNCHANGED <<controlVars, worldVars>> /\ ByChild

Asking(r) == \/ child[r].pc = "checked" /\ child[r].op \in Comments
             \/ child[r].pc \in {"read", "retry"}

\* Mutant: a failed effect may be begun again.
EffectFreeAfterFailure(o) ==
  latest[o] # None => effects[latest[o]].state \in {"reconciled_absent", "failed"}

EffectFree(o) == latest[o] # None => effects[latest[o]].state = "reconciled_absent"

\* The kinds of effects: comments, and branches.
SameKind(o, p) == o \in Comments <=> p \in Comments

EffectsToday(o) == Cardinality({e \in Effects : /\ effects[e].state # "none"
                                                /\ SameKind(effects[e].op, o)
                                                /\ effects[e].day = Day(now)})

NextEffect == {e \in Effects : /\ effects[e].state = "none"
                               /\ \A f \in Effects : f < e => effects[f].state # "none"}

\* begin_effect, allowed
BeginEffect(r) ==
  LET o == child[r].op IN
  /\ Asking(r)
  /\ runs[r].state = "active"
  /\ EffectFree(o)
  /\ EffectsToday(o) < EffectLimit
  /\ \E e \in NextEffect :
       /\ effects' = [effects EXCEPT ![e] = [state |-> "pending", op |-> o,
                                             day |-> Day(now)]]
       /\ latest' = [latest EXCEPT ![o] = e]
       /\ child' = [child EXCEPT ![r].pc = "begun", ![r].effect = e]
  /\ UNCHANGED <<runs, charged, circuit, worldVars>> /\ ByChild

\* begin_effect, refused. The git guard goes on to reconcile an effect of
\* unknown outcome, once.
RefuseEffect(r) ==
  LET o == child[r].op IN
  /\ Asking(r)
  /\ ~ (runs[r].state = "active" /\ EffectFree(o) /\ EffectsToday(o) < EffectLimit)
  /\ IF /\ child[r].pc = "read" /\ runs[r].state = "active" /\ latest[o] # None
        /\ effects[latest[o]].state \in {"pending", "failed"}
     THEN child' = [child EXCEPT ![r].pc = "refused", ![r].effect = latest[o]]
     ELSE child' = [child EXCEPT ![r] = [NoChild EXCEPT !.pc = "idle"]]
  /\ UNCHANGED <<controlVars, worldVars>> /\ ByChild

Settled(e) == effects[e].state \notin {"pending", "failed"}

\* reconcile_effect
Reconciled(e, observed) ==
  effects' = IF Settled(e) THEN effects ELSE [effects EXCEPT ![e].state = observed]

\* Mutant: a push of unknown outcome is taken for done.
ReconcileAssumed(r) ==
  /\ child[r].pc = "refused"
  /\ Reconciled(child[r].effect, "reconciled_completed")
  /\ child' = [child EXCEPT ![r] = [NoChild EXCEPT !.pc = "idle"]]
  /\ UNCHANGED <<runs, charged, circuit, latest, worldVars>> /\ ByChild

\* The git guard settles an earlier effect by what it read of the branch.
Reconcile(r) ==
  /\ child[r].pc = "refused"
  /\ Reconciled(child[r].effect, IF child[r].saw THEN "reconciled_completed"
                                 ELSE "reconciled_absent")
  /\ IF child[r].saw THEN child' = [child EXCEPT ![r] = [NoChild EXCEPT !.pc = "idle"]]
     ELSE Step(r, "retry")
  /\ UNCHANGED <<runs, charged, circuit, latest, worldVars>> /\ ByChild

\* The branch was on the commit already.
AlreadyThere(r) ==
  /\ child[r].pc = "begun" /\ child[r].saw
  /\ Reconciled(child[r].effect, "reconciled_completed")
  /\ child' = [child EXCEPT ![r] = [NoChild EXCEPT !.pc = "idle"]]
  /\ UNCHANGED <<runs, charged, circuit, latest, worldVars>> /\ ByChild

\* gh runs; a failure may have been carried out.
Comment(r) ==
  /\ child[r].pc = "begun" /\ child[r].op \in Comments
  /\ \E ok, done \in BOOLEAN :
       /\ ok => done
       /\ applied' = [applied EXCEPT ![child[r].op] = @ + (IF done THEN 1 ELSE 0)]
       /\ child' = [child EXCEPT ![r].pc = "done", ![r].ok = ok]
  /\ UNCHANGED <<controlVars, remote>> /\ ByChild

\* git push runs; ok is its return code.
Push(r) ==
  /\ child[r].pc = "begun" /\ child[r].op \in Pushes /\ ~ child[r].saw
  /\ \E ok, done \in BOOLEAN :
       /\ ok => done
       /\ applied' = [applied EXCEPT ![child[r].op] = IF done THEN 1 ELSE @]
       /\ remote' = IF done THEN remote \cup {child[r].op} ELSE remote
       /\ child' = [child EXCEPT ![r].pc = "acted", ![r].ok = ok]
  /\ UNCHANGED controlVars /\ ByChild

\* The readback of the branch decides; a push that was accepted and is not
\* there is an error that leaves the effect pending.
ReadBack(r) ==
  /\ child[r].pc = "acted"
  /\ \/ /\ child[r].op \in remote
        /\ child' = [child EXCEPT ![r].pc = "done", ![r].ok = TRUE]
     \/ /\ child[r].op \notin remote
        /\ child' = IF child[r].ok THEN [child EXCEPT ![r] = [NoChild EXCEPT !.pc = "idle"]]
                    ELSE [child EXCEPT ![r].pc = "done"]
  /\ UNCHANGED <<controlVars, worldVars>> /\ ByChild

\* finish_effect: the first terminal event stands.
FinishEffect(r) ==
  /\ child[r].pc = "done"
  /\ effects' = IF effects[child[r].effect].state = "pending"
                THEN [effects EXCEPT ![child[r].effect].state =
                        IF child[r].ok THEN "completed" ELSE "failed"]
                ELSE effects
  /\ child' = [child EXCEPT ![r] = [NoChild EXCEPT !.pc = "idle"]]
  /\ UNCHANGED <<runs, charged, circuit, latest, worldVars>> /\ ByChild

-----------------------------------------------------------------------------
Tick ==
  /\ now < MaxTime
  /\ now' = now + 1
  /\ UNCHANGED <<controlVars, processVars, worldVars, deaths>>

\* Somebody else moves the branch.
BranchMoves(o) ==
  /\ o \in remote
  /\ remote' = remote \ {o}
  /\ UNCHANGED <<now, controlVars, processVars, applied, deaths>>

Next ==
  \/ \E l \in Lanes :
       \/ Spawn(l) \/ TakeLease(l) \/ ChildEnds(l) \/ Deadline(l) \/ Release(l)
       \/ FinishRun(l) \/ WorkerDies(l)
       \/ \E k \in RunKeys : BeginRun(l, k) \/ RefuseRun(l, k)
  \/ \E r \in Runs :
       \/ ChildDies(r)
       \/ \E o \in Operations : Check(r, o)
       \/ ReadRemote(r) \/ BeginEffect(r) \/ RefuseEffect(r) \/ Reconcile(r)
       \/ AlreadyThere(r) \/ Comment(r) \/ Push(r) \/ ReadBack(r) \/ FinishEffect(r)
  \/ \E o \in Pushes : BranchMoves(o)
  \/ Tick

Spec == Init /\ [][Next]_vars

-----------------------------------------------------------------------------
(* Properties *)

(* "Durable autonomy budgets, idempotency": a comment, issue or pull request *)
(* is written to GitHub at most once, whichever processes died between the   *)
(* journal and the call and however often the lane is run again.             *)
WriteAtMostOnce == \A o \in Comments : applied[o] <= 1

(* A completed or reconciled effect stands on a call that was carried out,   *)
(* although the git guard settles the effects of other processes by a        *)
(* reading of the branch that may be old.                                    *)
EffectTrue ==
  \A e \in Effects : effects[e].state \in {"completed", "reconciled_completed"} =>
    applied[effects[e].op] > 0

(* One trigger of a lane succeeds once: a run that was abandoned and retried *)
(* cannot come back and succeed beside its successor.                        *)
OneSuccess ==
  \A r, s \in Runs : runs[r].state = "ok" /\ runs[s].state = "ok" /\ r # s =>
    runs[r].lane # runs[s].lane \/ runs[r].key # runs[s].key

\* The seconds of day d that the runs in S have reserved, or used.
Clock == 0 .. MaxTime + MaxRun
Booked(r) == IF runs[r].state = "active" THEN runs[r].allowed ELSE runs[r].used
Seconds(S, d) ==
  {x \in S \X {t \in Clock : Day(t) = d} :
     runs[x[1]].started <= x[2] /\ x[2] < runs[x[1]].started + Booked(x[1])}

(* The runtime that decides the daily budget, kept by adding and taking away *)
(* reservations, is the runtime the runs really have on each day.            *)
RuntimeAccounted == \A d \in Days : charged[d] = Cardinality(Seconds(Runs, d))

(* The runs a day has begun never get more than its budget of that day.      *)
RuntimeWithinDay ==
  \A d \in Days :
    Cardinality(Seconds({r \in Runs : Day(runs[r].started) = d}, d)) <= RuntimeLimit

(* Effects: a completed or reconciled effect stands on a call that was       *)
(* carried out, and a comment, issue or pull request is written at most      *)
(* once, whichever processes died between journal and call. Runs: one        *)
(* trigger of a lane succeeds once, and the runtime kept by adding and       *)
(* taking away reservations is that of the runs, within each day's budget.   *)
ControlsSafe ==
  /\ ControlTypeOK /\ EffectTrue /\ WriteAtMostOnce
  /\ OneSuccess /\ RuntimeAccounted /\ RuntimeWithinDay

=============================================================================

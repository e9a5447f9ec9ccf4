--------------------------- MODULE HonchoRetention ---------------------------
(***************************************************************************)
(* The dedicated public memory service: its supervisor                     *)
(* (john_lomein_public_honcho_service.supervise_public_service), the       *)
(* retention cycle it runs between two spells of serving                   *)
(* (john_lomein_honcho_pilot.run_public_retention_cycle) and the           *)
(* operator's commands on the same database: delete a participant, replay  *)
(* a tombstone, restore an older backup, clear the pause.                  *)
(*                                                                         *)
(* A row of the database is a message with the bigint identity its         *)
(* sequence gave it, the time it was created and its peer; uid tells two   *)
(* rows apart that got one identity. A deletion writes a tombstone with    *)
(* the exact rows and the sequence's high water before the SQL runs, and   *)
(* marks it applied after the cache was flushed. A tick of the clock is    *)
(* the retention interval of five minutes; Life stands for thirty days.    *)
(***************************************************************************)
EXTENDS Integers, FiniteSets

CONSTANTS Peers,       \* participants
          Sup, Op,     \* the supervisor and the operator's shell
          Life,        \* days messages and backups are kept, in ticks
          Reuse,       \* PUBLIC_BACKUP_REUSE_MAX_AGE_SECONDS, in ticks
          MaxBackups,  \* PUBLIC_BACKUP_MAX_COUNT
          MaxTime, MaxRows, MaxPlans, MaxKills, MaxFaults, MaxRestores

RetentionConstants ==
  /\ Sup # Op
  /\ {Life, Reuse, MaxBackups} \subseteq Nat \ {0}
  /\ {MaxTime, MaxRows, MaxPlans, MaxKills, MaxFaults, MaxRestores} \subseteq Nat
  /\ Reuse <= Life

VARIABLES
  now,      \* the clock, and the bounded faults used so far
  budget,
  db,       \* rows, the sequence's last value, rows ever inserted
  cache,    \* rows the dedicated Redis holds
  redis,    \* who runs it: "off", "sup" or "op"
  pause,    \* INGESTION_PAUSED.json exists
  tombs,    \* the tombstone directory
  backups,  \* the backup directory
  proc      \* what the supervisor and the operator are doing

hrVars == <<now, budget, db, cache, redis, pause, tombs, backups, proc>>
Procs == {Sup, Op}

\* checked: the tombstones the supervisor looked at when its cycle began.
NoPlan == [kind |-> "none", cut |-> 0, peer |-> "none", rows |-> {}, high |-> 0, gen |-> 0]
Idle(p) == [pc |-> IF p = Sup THEN "down" ELSE "idle", obs |-> -1, plan |-> NoPlan,
            made |-> -1, replay |-> FALSE, until |-> 0, cut |-> 0, checked |-> {}]

\* One supervisor serves; the API answers while it does.
Serving == proc[Sup].pc = "serve"
IdsOf(rows) == {r.id : r \in rows}

Init ==
  /\ now = 0 /\ budget = [plans |-> 0, kills |-> 0, faults |-> 0, restores |-> 0]
  /\ db = [rows |-> {}, seq |-> 0, count |-> 0]
  /\ cache = {} /\ redis = "off" /\ pause = FALSE
  /\ tombs = {} /\ backups = {}
  /\ proc = [p \in Procs |-> Idle(p)]

-----------------------------------------------------------------------------
(* What the code computes from the database, the tombstones and the backups *)

RetentionCandidates(cut) == {r \in db.rows : r.born < cut}
ParticipantCandidates(peer) == {r \in db.rows : r.peer = peer}

\* deletion_candidates_for_plan: the exact rows and the high water of now.
PlanCurrent(plan) ==
  /\ plan.rows = IF plan.kind = "retention" THEN RetentionCandidates(plan.cut)
                 ELSE ParticipantCandidates(plan.peer)
  /\ plan.high = db.seq

\* A bigint identity of the tombstone now names another row.
Collides(t) == \E r \in db.rows : r.id \in IdsOf(t.plan.rows) /\ r \notin t.plan.rows
Residue(t) == t.plan.rows \cap db.rows # {} \/ db.seq < t.plan.high

\* _load_tombstone_records refuses the whole directory for one bad file.
Readable == \A t \in tombs : t.state # "torn"

\* Mutant: a pending tombstone is left for a later replay.
PendingLater ==
  /\ Readable
  /\ \A t \in tombs : t.state = "applied" => ~Collides(t) /\ ~Residue(t)

\* honcho_startup_blockers finds none, and the check itself did not raise.
StartupClear ==
  /\ Readable
  /\ \A t \in tombs : t.state = "applied" /\ ~Collides(t) /\ ~Residue(t)

Archives == {b \in backups : b.state # "orphan"}

\* verified_backup_metadata and deletion_backup_covers_plan.
BackupCovers(plan, made) ==
  \E b \in backups :
    /\ b.state = "whole" /\ b.plan = plan /\ b.made = made
    /\ now - b.made <= Reuse

\* assert_honcho_quiescent with a receipt that has not expired.
ReceiptFresh(p) == proc[p].obs = now
Quiescent == ~Serving

\* Plans made at different instants differ (generated_at has microseconds).
NextGen ==
  LET used == {b.plan.gen : b \in backups} \cup {t.plan.gen : t \in tombs}
              \cup {proc[p].plan.gen : p \in Procs} IN
  CHOOSE n \in 1 .. Cardinality(used) + 1 : n \notin used

Expired(b) == now - b.made >= Life
ExpiryRefused == \E b \in backups : b.state = "orphan"

-----------------------------------------------------------------------------
(* Failing: the operator's command ends; the supervisor stops its children, *)
(* redis among them, and pauses until it is cleared by hand.                *)

Abort(p) ==
  /\ proc' = [proc EXCEPT ![p] = [Idle(p) EXCEPT !.pc = IF p = Sup THEN "paused" ELSE "idle"]]
  /\ pause' = (pause \/ p = Sup)
  /\ IF p = Sup /\ redis = "sup"
     THEN redis' = "off" /\ cache' = {}
     ELSE UNCHANGED <<redis, cache>>

\* A step of p from one place to another, refused unless ok.
Step(p, from, ok, to) ==
  /\ proc[p].pc = from
  /\ IF ok THEN proc' = [proc EXCEPT ![p] = to] /\ UNCHANGED <<redis, cache, pause>>
     ELSE Abort(p)

-----------------------------------------------------------------------------
(* The deletion both run: backup, reserve the tombstone, SQL, flush, mark *)

\* create_backup up to the dump: the candidates are read again first. The
\* dump is a .partial file until it is replaced into place.
Dump(p) ==
  LET plan == proc[p].plan
      b == [state |-> "partial", db |-> db, plan |-> plan, made |-> now] IN
  /\ Step(p, "planned", PlanCurrent(plan) /\ b \notin backups,
          [proc[p] EXCEPT !.pc = "dumped", !.made = now])
  /\ backups' = IF proc'[p].pc = "dumped" THEN backups \cup {b} ELSE backups
  /\ UNCHANGED <<now, budget, db, tombs>>

\* The archive p is making.
Making(p) == {b \in backups : b.plan = proc[p].plan /\ b.made = proc[p].made}

\* The archive is in place and the candidates are read a third time; if they
\* changed it is removed. The manifest makes it usable.
Install(p) ==
  /\ Step(p, "dumped", PlanCurrent(proc[p].plan), [proc[p] EXCEPT !.pc = "installed"])
  /\ backups' = IF proc'[p].pc = "installed"
                THEN {IF b \in Making(p) THEN [b EXCEPT !.state = "archive"] ELSE b
                      : b \in backups}
                ELSE backups \ Making(p)
  /\ UNCHANGED <<now, budget, db, tombs>>

Manifest(p) ==
  /\ Step(p, "installed", TRUE, [proc[p] EXCEPT !.pc = "backed", !.made = now])
  /\ backups' = {IF b \in Making(p) THEN [b EXCEPT !.state = "whole", !.made = now] ELSE b
                 : b \in backups}
  /\ UNCHANGED <<now, budget, db, tombs>>

\* apply_retention and apply_participant_deletion up to the tombstone: a fresh
\* receipt, quiescence, a cutoff thirty days back, the plan's exact candidates
\* and a backup that covers them.
Reserve(p) ==
  LET plan == proc[p].plan
      ok == /\ ReceiptFresh(p) /\ Quiescent
            /\ (plan.kind = "retention" => plan.cut <= now - Life)
            /\ PlanCurrent(plan)
            /\ BackupCovers(plan, proc[p].made)
            /\ \A t \in tombs : t.plan # plan IN
  /\ Step(p, "backed", ok, [proc[p] EXCEPT !.pc = "reserved"])
  /\ tombs' = IF proc'[p].pc = "reserved"
              THEN tombs \cup {[state |-> "pending", plan |-> plan, made |-> proc[p].made]}
              ELSE tombs
  /\ UNCHANGED <<now, budget, db, backups>>

\* The SQL transaction: no other session, exact counts, exact rows, and the
\* sequences moved past the high water.
Delete(p) ==
  LET t == [plan |-> proc[p].plan] IN
  /\ Step(p, "reserved",
          /\ ~Serving /\ ~Collides(t)
          /\ (~proc[p].replay => proc[p].plan.rows \subseteq db.rows),
          [proc[p] EXCEPT !.pc = "deleted"])
  /\ db' = IF proc'[p].pc = "deleted"
           THEN [db EXCEPT !.rows = @ \ proc[p].plan.rows,
                           !.seq = IF @ < proc[p].plan.high THEN proc[p].plan.high ELSE @]
           ELSE db
  /\ UNCHANGED <<now, budget, tombs, backups>>

\* The residue is read again, the cache is flushed, quiescence is asserted.
Flush(p) ==
  LET t == [plan |-> proc[p].plan] IN
  /\ proc[p].pc = "deleted"
  /\ IF redis # "off" /\ ~Collides(t) /\ ~Residue(t)
     THEN /\ cache' = {}
          /\ IF Quiescent
             THEN /\ proc' = [proc EXCEPT ![p].pc = "flushed"]
                  /\ UNCHANGED <<redis, pause>>
             ELSE /\ proc' = [proc EXCEPT ![p] = Idle(p)]
                  /\ UNCHANGED <<redis, pause>>
     ELSE Abort(p)
  /\ UNCHANGED <<now, budget, db, tombs, backups>>

\* write_private_json replaces the pending file by the applied one.
Mark(p) ==
  /\ proc[p].pc = "flushed"
  /\ tombs' = {IF t.plan = proc[p].plan THEN [t EXCEPT !.state = "applied"] ELSE t
               : t \in tombs}
  /\ proc' = [proc EXCEPT ![p] = IF p = Sup THEN [@ EXCEPT !.pc = "receipt"] ELSE Idle(p)]
  /\ UNCHANGED <<now, budget, db, cache, redis, pause, backups>>

-----------------------------------------------------------------------------
(* The supervisor *)

\* The pause file first, then a Redis of its own: a listener that is already
\* there is refused.
Start ==
  /\ proc[Sup].pc = "down"
  /\ IF pause \/ redis # "off" THEN Abort(Sup)
     ELSE /\ redis' = "sup" /\ cache' = {}
          /\ proc' = [proc EXCEPT ![Sup].pc = "gate"]
          /\ UNCHANGED pause
  /\ UNCHANGED <<now, budget, db, tombs, backups>>

Gate ==
  /\ proc[Sup].pc = "gate"
  /\ IF StartupClear
     THEN /\ cache' = {} /\ proc' = [proc EXCEPT ![Sup].pc = "cycle"]
          /\ UNCHANGED <<redis, pause>>
     ELSE Abort(Sup)
  /\ UNCHANGED <<now, budget, db, tombs, backups>>

\* run_public_retention_cycle: the blockers again, then the old backups go,
\* files without a manifest too; a manifest without its archive is refused.
Expire ==
  /\ Step(Sup, "cycle", StartupClear /\ ~ExpiryRefused,
          [proc[Sup] EXCEPT !.pc = "expired", !.checked = {t.plan : t \in tombs}])
  /\ backups' = IF proc'[Sup].pc = "expired" THEN {b \in backups : ~Expired(b)} ELSE backups
  /\ UNCHANGED <<now, budget, db, tombs>>

Boundary ==
  LET cut == now - Life IN
  /\ proc[Sup].pc = "expired"
  /\ proc' = [proc EXCEPT ![Sup] =
       [@ EXCEPT !.pc = IF RetentionCandidates(cut) = {} THEN "receipt" ELSE "quiesced",
                 !.cut = cut, !.obs = now, !.plan = NoPlan]]
  /\ UNCHANGED <<now, budget, db, cache, redis, pause, tombs, backups>>

\* The boundary is read again after the receipt; the plan is made from it.
Plan ==
  LET cut == now - Life
      plan == [NoPlan EXCEPT !.kind = "retention", !.cut = cut,
                             !.rows = RetentionCandidates(cut), !.high = db.seq,
                             !.gen = NextGen] IN
  /\ Step(Sup, "quiesced",
          plan.rows = {} \/ Cardinality(Archives) + 1 <= MaxBackups,
          [proc[Sup] EXCEPT !.pc = IF plan.rows = {} THEN "receipt" ELSE "planned",
                            !.cut = cut, !.plan = plan])
  /\ UNCHANGED <<now, budget, db, tombs, backups>>

\* A cycle that took longer than the interval writes no receipt.
Receipt ==
  /\ Step(Sup, "receipt", now - proc[Sup].cut <= Life + 1,
          [Idle(Sup) EXCEPT !.pc = "serve", !.until = now + 1, !.cut = proc[Sup].cut,
                            !.checked = proc[Sup].checked])
  /\ UNCHANGED <<now, budget, db, tombs, backups>>

\* The interval is over: the children stop, Redis stays.
StopChildren ==
  /\ Serving /\ now >= proc[Sup].until
  /\ proc' = [proc EXCEPT ![Sup].pc = "cycle"]
  /\ UNCHANGED <<now, budget, db, cache, redis, pause, tombs, backups>>

\* Another actor's pause file, or a child that exits, ends serving.
WatchPause ==
  /\ Serving /\ pause
  /\ Abort(Sup)
  /\ UNCHANGED <<now, budget, db, tombs, backups>>

\* The paused supervisor still expires backups.
PausedExpire ==
  /\ proc[Sup].pc = "paused" /\ ~ExpiryRefused
  /\ \E b \in backups : Expired(b)
  /\ backups' = {b \in backups : ~Expired(b)}
  /\ UNCHANGED <<now, budget, db, cache, redis, pause, tombs, proc>>

-----------------------------------------------------------------------------
(* The service's children, the watchdog and the operator *)

\* The API stores a message and caches what it reads.
Ingest ==
  /\ Serving /\ db.count < MaxRows
  /\ \E peer \in Peers :
       db' = [rows |-> db.rows \cup {[id |-> db.seq + 1, uid |-> db.count + 1,
                                      born |-> now, peer |-> peer]},
              seq |-> db.seq + 1, count |-> db.count + 1]
  /\ cache' = db'.rows
  /\ UNCHANGED <<now, budget, redis, pause, tombs, backups, proc>>

\* The watchdog finds the service unhealthy and writes the pause file.
Watchdog ==
  /\ ~pause /\ budget.faults < MaxFaults
  /\ budget' = [budget EXCEPT !.faults = @ + 1]
  /\ pause' = TRUE
  /\ UNCHANGED <<now, db, cache, redis, tombs, backups, proc>>

OpPlan ==
  /\ proc[Op].pc = "idle"
  /\ budget.plans < MaxPlans
  /\ budget' = [budget EXCEPT !.plans = @ + 1]
  /\ \E peer \in Peers :
       /\ ParticipantCandidates(peer) # {}
       /\ proc' = [proc EXCEPT ![Op] =
            [Idle(Op) EXCEPT !.pc = "planned",
               !.plan = [NoPlan EXCEPT !.kind = "participant_deletion", !.peer = peer,
                                       !.rows = ParticipantCandidates(peer),
                                       !.high = db.seq, !.gen = NextGen]]]
  /\ UNCHANGED <<now, db, cache, redis, pause, tombs, backups>>

\* deletion-quiescence-receipt, a command of its own.
OpQuiesce ==
  /\ proc[Op].pc \in {"idle", "backed"} /\ Quiescent
  /\ proc[Op].pc = "idle" => tombs # {}
  /\ proc[Op].obs # now
  /\ proc' = [proc EXCEPT ![Op].obs = now]
  /\ UNCHANGED <<now, budget, db, cache, redis, pause, tombs, backups>>

\* tombstone-replay: any tombstone of a readable directory, and any backup
\* that verifies; an applied one with nothing left is deleted from again.
OpReplay ==
  /\ proc[Op].pc = "idle" /\ Readable
  /\ ReceiptFresh(Op) /\ Quiescent
  /\ \E b \in backups : b.state = "whole"
  /\ \E t \in tombs :
       /\ t.state = "pending" \/ Residue(t)
       /\ ~Collides(t)
       /\ proc' = [proc EXCEPT ![Op] = [@ EXCEPT !.pc = "reserved", !.plan = t.plan,
                                                 !.made = t.made, !.replay = TRUE]]
  /\ UNCHANGED <<now, budget, db, cache, redis, pause, tombs, backups>>

\* An older backup is restored into the service database, with the service
\* down (the runbook's precondition; the code is not asked).
Restore ==
  /\ proc[Sup].pc \in {"down", "paused"} /\ proc[Op].pc = "idle"
  /\ budget.restores < MaxRestores
  /\ budget' = [budget EXCEPT !.restores = @ + 1]
  /\ \E b \in backups :
       /\ b.state = "whole"
       /\ db' = [b.db EXCEPT !.count = db.count]
  /\ UNCHANGED <<now, cache, redis, pause, tombs, backups, proc>>

\* A Redis for the replay: the paused supervisor stopped its own.
OpRedis ==
  /\ redis \in {"off", "op"} /\ proc[Sup].pc = "paused"
  /\ proc[Op].pc \notin {"planned", "dumped", "installed"}
  /\ redis' = IF redis = "off" THEN "op" ELSE "off"
  /\ cache' = {}
  /\ UNCHANGED <<now, budget, db, pause, tombs, backups, proc>>

\* The pause receipt is removed by hand and the service reloaded.
ClearPause ==
  /\ pause /\ proc[Sup].pc = "paused" /\ proc[Op].pc = "idle"
  /\ pause' = FALSE
  /\ proc' = [proc EXCEPT ![Sup] = Idle(Sup)]
  /\ UNCHANGED <<now, budget, db, cache, redis, tombs, backups>>

-----------------------------------------------------------------------------
(* Faults *)

\* The supervisor is unloaded or killed, its children with it; launchd starts
\* it again. Killed while it expires, it leaves a manifest without archive;
\* killed while it reserves, a torn tombstone.
TornTombs(p) ==
  IF proc[p].pc = "backed" /\ ReceiptFresh(p) /\ Quiescent
  THEN {tombs, tombs \cup {[state |-> "torn", plan |-> proc[p].plan, made |-> proc[p].made]}}
  ELSE {tombs}
TornBackups(p) ==
  IF p = Sup /\ proc[p].pc = "cycle" /\ StartupClear
  THEN {backups} \cup
       {{b \in backups : b # x} \cup {[x EXCEPT !.state = "orphan"]}
        : x \in {b \in backups : b.state = "whole" /\ Expired(b)}}
  ELSE {backups}

Kill(p) ==
  /\ proc[p].pc \notin {"down", "idle", "paused"}
  /\ budget.kills < MaxKills
  /\ budget' = [budget EXCEPT !.kills = @ + 1]
  /\ tombs' \in TornTombs(p) /\ backups' \in TornBackups(p)
  /\ proc' = [proc EXCEPT ![p] = Idle(p)]
  /\ IF p = Sup THEN redis' = "off" /\ cache' = {} ELSE UNCHANGED <<redis, cache>>
  /\ UNCHANGED <<now, db, pause>>

\* A command of a step fails (pg_dump, psql, redis-cli), or a child exits. A
\* dump that fails is removed.
Fail(p) ==
  /\ proc[p].pc \notin {"down", "idle", "paused"}
  /\ budget.faults < MaxFaults
  /\ budget' = [budget EXCEPT !.faults = @ + 1]
  /\ Abort(p)
  /\ backups' = IF proc[p].pc = "dumped" THEN backups \ Making(p) ELSE backups
  /\ UNCHANGED <<now, db, tombs>>

\* The supervisor polls every second: no interval passes unseen.
Tick ==
  /\ now < MaxTime
  /\ Serving => now < proc[Sup].until
  /\ now' = now + 1
  /\ UNCHANGED <<budget, db, cache, redis, pause, tombs, backups, proc>>

Next ==
  \/ \E p \in Procs : Dump(p) \/ Install(p) \/ Manifest(p) \/ Reserve(p) \/ Delete(p)
                      \/ Flush(p) \/ Mark(p) \/ Kill(p) \/ Fail(p)
  \/ Start \/ Gate \/ Expire \/ Boundary \/ Plan \/ Receipt \/ StopChildren
  \/ WatchPause \/ PausedExpire
  \/ Ingest \/ Watchdog \/ OpPlan \/ OpQuiesce \/ OpReplay \/ Restore \/ OpRedis
  \/ ClearPause \/ Tick

-----------------------------------------------------------------------------
(* Properties *)

RetentionTypeOK ==
  /\ now \in 0 .. MaxTime
  /\ redis \in {"off", "sup", "op"} /\ pause \in BOOLEAN
  /\ db.seq \in 0 .. MaxRows /\ db.count \in 0 .. MaxRows
  /\ \A t \in tombs : t.state \in {"torn", "pending", "applied"}
  /\ \A b \in backups : b.state \in {"partial", "archive", "whole", "orphan"}

\* No deletion is left half done behind a service: of the tombstones that were
\* there when its cycle began, none is pending or torn while it serves. (One the
\* operator reserves later may be.)
NoneHalfDeleted ==
  Serving => \A t \in tombs : t.plan \in proc[Sup].checked => t.state = "applied"

\* What a tombstone says is deleted is never served again, neither from the
\* database nor from the cache, whatever was killed or restored in between;
\* and its identities are not given to new messages.
ErasedStaysErased ==
  Serving =>
    \A t \in tombs : t.state = "applied" =>
      IdsOf(t.plan.rows) \cap IdsOf(db.rows \cup cache) = {}

\* Nothing is deleted that a backup does not hold: until it expires, the
\* backup the tombstone names is there and has every row.
DeletedIsBackedUp ==
  \A t \in tombs : t.state # "torn" /\ now - t.made < Life =>
    \E b \in backups : b.state = "whole" /\ b.made = t.made /\ t.plan.rows \subseteq b.db.rows

\* Only young messages are served: thirty days, the interval, and a cycle
\* that may take as long.
ServedYoung == Serving => \A r \in db.rows : now - r.born <= Life + 2

=============================================================================

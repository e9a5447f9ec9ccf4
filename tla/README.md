# John Lomein in TLA+

John Lomein is an autonomous engineering agent for GitHub repositories. What
people outside the agent can see of it goes through small programs that hold a
credential, a lock or a key, and keep a record of what they did: two brokers
that act on GitHub, a signer of the owner's decisions, controls that count runs
and effects, a ledger of memories, a journal of qualification captures, a memory
service. Each of them can be killed between two durable steps while GitHub, the
owner or another process moves on. This directory models them, model-checks the
models on small instances, and proves the most important properties for every
value of the constants: of the two brokers, the qualification journal and its
runs, the owner's approval and the autonomy controls.

Paths below are relative to `src/`.

## 1. Inventory of the system

| Component | State it keeps | Operations | Interacts with | What is hard | What makes it correct |
|---|---|---|---|---|---|
| Protected-action broker, store (`broker/…_broker_store.py`) | packets, effects, budget events, receipts, circuits (SQLite, WAL) | reserve, begin_mutation, reconcile_absent, record_packet_receipt, terminalize, close_circuit | the service, an operator | several packets share one effect row; a crash between any two transactions | attempts are charged before they exist and counted for ever; one verdict per effect; one receipt per packet; budgets and circuits hold |
| …, service and daemon (`…_broker_service.py`, `…_broker_actions.py`, `…_github_live.py`, `…_broker_daemon.py`) | the request in hand (volatile) | handle, recover_pending, fetch_snapshot, evaluate_snapshot, execute_evaluated_action | store, GitHub, clients | GitHub moves between any two calls; a mutation may land after its sender gave up | nothing is sent uncharged or blindly twice; a success stands on what was really seen; open attempts are settled |
| Protected release broker, store (`release_broker/…_store.py`) | packets, owner assertions, bundles, steps, attempts, budget events, receipts, circuits | reserve, begin_mutation, confirm_step, record_recovery, stop_step, terminalize_bundle, open_circuit, close_circuit | the service, an operator | a bundle that stops half way; one fact recorded by steps, attempts and receipts | no step before its predecessor is confirmed; a receipt stays true; assertions are single-use; one active bundle per repository |
| …, service and daemon | the request in hand | handle, recover_pending, preflight, base fence, merge, readback, receipt sweep | owner gateway, GitHub | the merge names a head and not a base; a merge may land late | a succeeded bundle is merged on the authorized base; a merge is credited once; an accepted bundle is answered |
| Receipts and clients (`…_receipts.py`, `scripts/john-lomein-protected-submit.py`, `…-release-submit.py`) | the chain of receipts, receipt files | build, sign, verify, submit, persist | brokers | answer lost after the broker acted; two copies of the rules; link, sync, unlink | what a broker signs its client accepts; a reported receipt is kept |
| Release owner gateway (`owner_gateway/`, `…-release-approve.py`) | signing records, spool, outbox | fetch the owner's message, mint, build a packet | Discord, release broker | mints that race; edited messages; deaths between link and unlink | one message is one assertion and one merge |
| Release bundler (`…-release-bundler.py`, `…_review_quorum.py`) | bundle files, fingerprints | inspect pull requests, bundle, tell the owner | GitHub, release broker | a bundle is read by many calls while people push | only what a bundle shows, and was reviewed, is merged on it |
| Autonomy controls (`scripts/john_lomein_autonomy.py`, git and gh guards, worker) | hash-chained journal, archive, checkpoint, SQLite projection, mutation lease | append, rotate, rebuild, begin/finish run and effect, reconcile | every job | two processes, deaths between two writes, midnight, children that outlive their worker | nothing acknowledged is lost; an effect is written once; the day's budget holds |
| Continuity ledger (`scripts/john_lomein_continuity*.py`) | ledger, import journal, heads, one transaction file | append, import, recover, project | runtime plugin, importer | four files per import; torn rows; power loss | what was answered stays and is applied once; hidden stays hidden |
| Qualification, transaction journal (`qualification_attestor/…_transaction_journal.py`) | session directories of records | reserve, append, commit, reload, archive; lifecycle, acknowledgement and verifier operations | orchestrator, supervisor | thirty states with cross-record rules; rename and fsync | what was reported committed stays; a valid history can always finish |
| Qualification, capture (`…_opaque_capture.py`, `…_capture_child.py`, `…_capture_helper.py`, `…_capture_staging.py`, `…_capture_adoption.py`, `…_lifecycle_*.py`) | capture directories, staging leaves and their journals, the supervisor's ledger | capture, stage, hand over, adopt, quarantine, acknowledge, start and clear a scope | kernel, supervisor, journal | owners change evidence while it is copied; kills between system calls; lost answers | a capture is one moment of the evidence; nothing is adopted while something can write to it; a receipt stays true |
| Qualification, publication (`…_attestor.py`, `…_orchestrator.py`, `…_trust_projection.py`) | archive of attestations, head, public projection | sign, move the head, publish, reconcile | verifier, capture session | coordinators that race and die after signing | committed means archived and public; aborted means not signed |
| Qualification runs (`scripts/john-lomein-persona-qualification.py`) | records, summary, latest, status | run, status, verify | adapters | four files read without a lock | "qualified" is what every candidate earned |
| Forge (`scripts/john-lomein-forge-orchestrator.py`, `john_lomein_scoped_publication.py`) | deferral files, cycles, worktrees, branches, pull requests | choose an issue, design, defer, publish a scoped draft | GitHub, agents | agents work for an hour on what was read before; a push that failed with its effect | what is built was labelled as it is; what is published was tested and leaves once |
| Public memory service (`john_lomein_honcho_pilot.py`, `john_lomein_public_honcho_service.py`) | database, cache, tombstones, backups, pause | serve, retention cycle, delete, replay, restore | operator | deletion in several durable steps; restored backups | deleted stays deleted; nothing older than the retention is served |
| Operator commands (`john_lomein_service_registry.py`, `john_lomein_mission.py`, `john_lomein_auth_projection.py`) | registry, plists, manifest, auth stores | install, uninstall, propose, confirm, sync, scrub, recover | launchd, owner, Hermes | scripts killed half way; stale proposals; refreshes meanwhile | a label has one owner; a confirmed mission is durable; no login of others is lost |
| Model isolation, provider relays, native bundles, learning and queue jobs, installers, Doctor | configuration files, reports | batch jobs, relays, installers | all | mostly I/O | declarative contracts |

`PROJECT.json` lists the components with their files and says of each whether it
is modelled, maps every definition to the lines it models, and lists the
hazards: the places in the code where something can go wrong that a unit test
would hardly reach, each with the property that would catch it.

## 2. Modules

Every module has one action per operation or, where the process can die or the
world can move inside an operation, one per step between two such points. A call
that raises or replays a stored answer without changing anything is no action.
Digests are what they are digests of; a signature is valid when its signer made
it; schema checks and formatting are left out unless a property is about them.

| Module | Subject | State and actions |
|---|---|---|
| `ProtectedEffect` | promise of the first broker | an effect is attempted at most twice and by one packet at a time, the second time only after the first was found to have done nothing; one verdict, one answer |
| `BrokerStore` | its store | one action per writing transaction, see below |
| `ProtectedBroker` | service, daemon and GitHub over the store | see below |
| `ReleasePromise`, `ReleaseStore` | promise and store of the release broker | see below |
| `ReleaseBroker` | its service, daemon and GitHub | `svc` is the request in hand with its stage; `wire` and `sent` are merge calls; recovery at startup and in each request, preflight, charge, fence, merge, readback, terminal receipt, sweep; others push and close |
| `ProtectedClient` | packets and receipts of the first broker and its client | the rules as both sides write them; runs of the client over one receipt file, a broker that recovers, lost answers, a clock that steps back |
| `ReleaseClient` | the same for the release broker | the receipt over its steps; chain, sweep, receipt files through kills and power losses |
| `ReleaseBundle` | bundler and review quorum | one GitHub call after the other while people push, review and merge; the broker's comparison before it merges |
| `OwnerApproval` | from a Discord message to a receipt | helpers, signer records, spool, packets, client; files with one or two names; edits of messages |
| `AutonomyJournal` | storage of the controls | files by day, archive generations, checkpoint, index; a step lies between two durable writes under `autonomy_lock` |
| `AutonomyControls` | what is decided from it | lease, workers and children, runs, runtime, circuits, effects and the guards |
| `ContinuityLedger` | continuity store | ledger and journal with synced and torn parts, heads, the transaction file, processes, what was answered and shown |
| `JournalRules`, `JournalHistory`, `TransactionJournal` | qualification journal | the rules for histories; the promise of one session; the process with its files, memory and one reservation |
| `CaptureStaging` | staging leaf of a capture | journal of intents, leaf, what is synced, the operation that holds the lock |
| `LifecycleScope` | lifecycle supervisor | ledger rules; coordinator, connection, supervisor and processes of one scope |
| `OpaqueCapture` | capture, child and coordinator | live evidence, capture slots, flock, pipes; protocols v1 and v2 |
| `CaptureAdoption`, `RecoveredAdoption` | adoption and its recovery | every kernel call of an adoption with ownership, modes, names and what is durable; acknowledgement, verifier runs and evidence of an interrupted one |
| `AttestationPublication` | signing and publishing | archive, head, projection and their durable parts; coordinators with their sessions |
| `QualificationRun` | one qualification | run lock, records, summary, latest, status; readers without a lock |
| `ForgeQueue`, `ScopedPublication` | forge | issues, deferrals and one run; cycles, worktree, branch and pull requests of owner-scoped work |
| `HonchoRetention` | public memory service | rows with identities, cache, tombstones, backups, pause, supervisor and operator |
| `ServiceRegistry`, `MissionProposal`, `AuthProjection` | operator commands | registry, plists and loaded services; manifest and proposals; auth stores and logins |
| `MC…` | instances for TLC | see section 3 |
| `BrokerStoreProofs`, `ProtectedBrokerProofs`, `ReleaseStoreProofs`, `ReleaseBrokerProofs`, `QualificationRunProofs`, `TransactionJournalProofs`, `OwnerApprovalProofs`, `AutonomyControlsProofs` | theorems | see section 4 |

### The first store

`_immediate` wraps every writing method in one `BEGIN IMMEDIATE` transaction, so
a method is one atomic action.

| Variable | Rows |
|---|---|
| `accepted` | `packets.accepted_at`, also the request rows of `budget_events` |
| `effects` | `effects`: state, active attempt key and packet, attempt count, and the attempt that `last_reconciliation_json` proves absent |
| `charges` | the mutation rows of `budget_events` |
| `receipts` | `receipts`, told apart by mutation_status |
| `circuit` | `circuits`: open or closed, consecutive indeterminate outcomes |

`EffectKey` is `_semantic_identity`: two packets for the same review thread have
one key even when they name different heads. `CanReserve`, `MayAttempt`,
`CanCharge` and `CanRecord` are the checks of the methods in their order, apart
from the writes, because the service distinguishes which of them failed.
`StoreNext` leaves the calls free with one exception, `MayRecordUnbound`: a
receipt that names no effect is not written for a packet that owns an open
attempt. The store does not check this; that the service never does it is what
`BrokerImplementsStore` proves.

Left out: `bind_runtime` (one row, read by nothing else here), the hash chain and
signature of receipts (one thread appends; `ProtectedClient` has the chain), the
refusal of a clock that runs backwards, `last_packet_id` (diagnostic), the
receipt status `failed` (the service never writes it), and integrity checks that
raise on a row no transaction writes.

### The first service

`svc` is the request in hand, the only volatile state. An action is a step
between two points at which the process can die or the world can move: one call
to GitHub, or one transaction with the reads before it.

| Code | Actions |
|---|---|
| `handle`, entry | `Receive` |
| `fetch_snapshot` | the identity is read in the action that starts it (`RecoverFetch`, `FetchLive`, `MutationAnswered`), then `ObserveThreads`, then `ObserveAgain` (identity compared) or `ObserveFail` |
| `recover_pending`, `_recover_one` | `RecoverFetch`, `RecoverSettle` |
| `handle`, admission | `ReturnRecovered`, `RefuseAdmission`, `Admit` |
| `handle`, evaluation | `RejectIndeterminate`, `FetchLive`, `RejectPrecondition`, `AlreadySatisfied` |
| `handle`, begin_mutation | `ChargeAttempt`, `RejectLimit`, `RejectPending`, `FailMutation` |
| `execute_evaluated_action` | `Send`, `MutationAnswered`, `MutationIndeterminate`, then the readback as a snapshot |
| `handle`, terminalize | `Settle` |
| daemon dies or a step raises | `Crash` |
| operator | `Operator` |

A snapshot is reduced to what the properties tell apart (`View`): whether it
could be fetched, whether the pull request is open on the packet's head, whether
the requested state is there, and one nondeterministic verdict for the remaining
checks of `evaluate_snapshot` (policy, paths, check runs, evidence, thread
counts). Each of those is a guard that rejects, so any of them failing is the
verdict `FALSE`.

GitHub is external and modelled from its use: a mutation on the wire is applied
at any later moment (`GitHubApply`), also after its sender timed out or died, or
never (`GitHubDrop`); it applies to the pull request as it then is, because
neither mutation carries an expected head. People push, close, reopen, toggle
draft and resolve or reopen threads at any moment (`Edit`). `seen` is a history
variable of what was true on GitHub since a packet was last admitted; nothing in
the broker reads it.

### The release store and its service

A bundle belongs to the one packet that created it (`reserve` refuses a second
packet for the same bundle), so the rows are kept by packet.

| Variable | Rows |
|---|---|
| `accepted` | `packets.accepted_at`; also the request, assertion and bundle rows of `budget_events`, and the consumed rows of `owner_nonces` |
| `bundles` | `bundles.state`; a terminal state is also the receipt |
| `steps` | `bundle_steps`: state, active attempt, merge commit |
| `attempts` | `mutation_attempts` in order, with the charge in `budget_events`; a confirmed attempt is the merge booked on the day of its charge |
| `circuit` | `circuits`: open or closed, count, bundle of the last event |

`confirm_step` and `record_recovery` with "confirmed" share
`_confirm_step_locked` and are one action, `ConfirmStep`; the other outcomes of
`record_recovery` are `RecordAbsent` and `RecordIndeterminate`. A caller may name
any commit as base, merge or parent. In `ReleaseBroker` a live bundle has one
pull request ("live release v1 accepts exactly one PR per bundle"); merge calls
on the wire are carried out later or never, if the pull request still has the
head they name, on whatever base there is then.

## 3. What is checked

Several runs put components that do not interact side by side: `part` names the
one that runs, and a step of one leaves the variables of the others alone. The
reachable states are the disjoint union of those of the parts, so each part is
checked on its own instance. A property of such a run is the conjunction of what
the components promise.

| Run | Instance | Shows |
|---|---|---|
| `store` | 3 packets (two for one thread on two heads), 2 keys, 2 days, limits of 1 and 2 | the first store is right under any caller, and implements `ProtectedEffect` |
| `broker` | 3 packets of two effects, 1 crash, 1 edit; 553 thousand states | the service owns what it charged, sends nothing uncharged, and gives no success that was not there; it uses the store as `StoreSpec` allows |
| `release_store` | 3 packets on one repository, one with two steps, two sharing an assertion, 2 days with one merge each | the release store under any caller; implements `ReleasePromise` |
| `release_broker` | 2 packets for one pull request, 2 deaths or signing failures, 1 push; the clients with two runs or two packets; bundles of one and of two pull requests; every receipt payload of up to two steps | merges are true, charged and credited once; clients keep what they reported; only what a bundle shows is merged; no attempt is open once a request was answered |
| `journal` | every history of a session, with `MAX_EVENTS_PER_SESSION` 32; the process with its lifecycle operations, a recovered adoption, power losses; adoption of a tree of two files; its recovery with two runs; qualification runs with one and two candidates, and one whose clock passes its wall budget | the journal's histories are valid and can finish, what it reported is durable; evidence is whole, of one object and verified once |
| `qualification` | a scope with crashes of the coordinator, or restarts of supervisor and host; a staging leaf with a kill, an error, a power loss and a torn record; two coordinators that publish; captures under v1 (two sessions) and v2 | ledger and journal agree; receipts stay true; committed is archived and public; a capture is one moment |
| `autonomy` | one caller with rotations and deaths, two callers over midnight; two lanes pushing, commenting, three runs over three days; two instances of services; two proposals; two homes | journal, index, effects and runtime agree; operator commands interrupted anywhere |
| `services` | two helpers on one or two messages and bundles; two processes on the continuity ledger, imports with kills and a power loss, capsules; two issues of the forge; publication by one run and by two; the memory service with a kill, a failure and a restored backup, over five ticks, and with three rows and two deletions | one merge per owner message; the ledger keeps its answers; the forge publishes what was tested; the memory service serves over no half-done deletion, no deleted and no expired row, and reuses no deleted identity |
| `progress` | the two brokers, continuity and staging, each with a crash | attempts settle, accepted release packets are answered, interrupted transactions and sessions are reconciled |

**Bounds.** Two packets on one effect are the smallest instance in which one
packet meets another's attempt; the third adds the second action, its own limit
and its circuit. Two attempt keys suffice because an effect is attempted at most
twice (`ChargesCounted`, proved). Three clock readings let a packet expire
before, during and after its request; with a window of 1 and days of 1 or 2 the
budgets are exhausted and renewed within a run. For the release store, two steps
are the smallest bundle with an order and a partial outcome, and two days with
one merge a day make the second merge wait for the next day. In the other
components the bounds are one or two of each kind of trouble (kill, error, power
loss, edit), because a second one can strike the recovery from the first, and
two actors wherever two can meet; every bound is a constant with `Max` in its
name and stands in the guards of the actions it limits. The memory service has
three instances, each with room for what it is about: in `memoryKilled` a kill, a
failed step, an operator's deletion and a restored backup meet; in `memoryAged` the
clock reaches 5 while a message may be served up to `Life + 2` = 4 ticks, so that a
cycle that takes too long, or removes too little, would be seen; in `memoryReused`
two rows are deleted one after the other and the backup of the first deletion is
restored, the smallest history in which a third row could get the identity of a
deleted one. `NoneHalfDeleted` speaks of the tombstones that were there when the
cycle began (`checked`, a history field no guard reads), because an operator may
reserve another one after that. The clock and the faults
run out and everything may have been answered, so a bounded behaviour really
ends: the configurations that contain such a component say
`CHECK_DEADLOCK FALSE`; deadlock is checked in both stores, where the operator
can always act. Symmetry is used for coordinators and outer records
(`qualification`) and helpers (`services`), which no definition tells apart, and
only in runs without temporal properties beyond action properties.

**Fairness.** In `progress` the steps of the request in hand are weakly fair: a
daemon has one thread and every wait in it has a timeout (socket reads, SQLite's
busy timeout, HTTP calls). The clock advances. That requests keep coming
(`Receive`), that a packet's holder keeps submitting it, that somebody opens the
continuity store or creates the session again (`Begin`, `CreateSession`) is an
environment assumption, strongly fair because another process may hold the lock
or the daemon may be down at some moments; it is stated where it is used, and
is no promise of the code. Crashes, edits, and calls that land or are lost are
never assumed to happen.

**Mutants.** The operators whose comment begins with "Mutant" are plausible bugs
of the definition that follows them (a dropped guard, an off-by-one, a proof of
absence not kept). Nothing uses them in the specification; putting one in place
of its definition violates the property `PROJECT.json` pairs it with.

### Where the documentation and the code disagree

Three runs check what a document says, and TLC finds a behaviour of the code that
contradicts it.

| Run | Statement | What the code does |
|---|---|---|
| `autonomy_midnight` | "The full hash-chained JSONL archive remains authoritative for explicit verification and rebuilds" (`docs/productization/autonomy-and-reputation-roadmap.md:17`) | The clock is read before the lock is taken and names the file: of two appends over midnight, line n+1 can go into the earlier file, and the journal no longer verifies. |
| `publication_gap` | an equivalent recapture is accepted "solely so a crash after signing but before trust publication can be repaired" (`qualification_attestor/…_attestor.py:4834`) | When another run is signed before the repair, the projection is two behind and `publish_projection` refuses every later head as a gap. |
| `deferral_retry` | "`REVISE` deferrals retry automatically" (`docs/productization/maintainer-appliance-10-10-standard.md:14`) | The comment of the deferral itself moves `updatedAt` past the owner's label, and the issue is refused until it is labelled again. |

The models show more of these; they are recorded here without a run of their own.

| Statement | What the code does |
|---|---|
| "startup/request recovery queries GitHub before doing anything else" (`docs/productization/protected-action-broker.md:153`) | Only `handle` calls `recover_pending`; after a restart the attempt stays open until another request arrives. |
| record_packet_receipt persists an outcome "that did not mutate GitHub" (`broker/…_broker_store.py:2057`) | The process dies with the call on the wire, the resubmitted packet finds the state absent and is refused, and the call lands. The release broker has the same case: stop_step stops "an unmutated step" (`release_broker/…_store.py:3127`) and the merge lands afterwards. |
| "Every accepted packet can therefore replay an exact receipt" (`broker/…_broker_store.py:2062`) | A packet that expires between reservation and charge is accepted and never gets one. |
| the key `resolve_review_thread:<repo>:<pr>:<head>:<thread-node-id>` (`docs/productization/protected-action-broker.md:148`) | The key has no head: packets for two heads share the effect and its verdict. |
| "a concurrent head update produces `indeterminate`, never a success receipt" (`docs/productization/protected-action-broker.md:171`) | A head that moves and moves back between the two identity reads goes unnoticed. |
| archived histories are terminal (`…_transaction_journal.py:12449`) | A record renamed and never synced is taken at face value and its session archived; a power loss then leaves an archive that no open of the store accepts. |
| "A crash before step 2 leaves an orphan generation that is validated and reused on retry" (`scripts/john_lomein_autonomy.py:2766`) | A smaller event is appended first; then the orphan differs from the segment and every rotation fails. |
| "Hold the single instance-wide mutation lease for an entire lane run." (`scripts/john_lomein_autonomy.py:726`) | The child is in a session of its own and outlives a killed worker, whose lease the kernel frees. |
| a reservation "never exceeds remaining daily budget" (`tests/test_autonomy_controls.py:1401`) | The part after midnight is charged to the next day unchecked. |
| persistence of an assertion "is idempotent" (`tests/test_release_owner_signer.py:459`) | `observed_at` is part of the request compared, so the same message minted a second later is refused. |
| projection_state is "the sole read-path bridge used by continuity capsule generation" (`scripts/john_lomein_continuity_importer.py:811`) | The capsule command reads `verify_store` and shows what a suppression hid. |
| crash recovery "must remove or root-quarantine that exact leaf without blocking a later run" (`docs/productization/autonomous-delivery-hardening-tracker.md:95`) | Mode 0 is set before the owner changes; a kill there leaves a leaf that every later validation refuses. |
| resolution faults are "retryable or restart safe" (`tests/test_persona_qualification_capture_staging.py:1558`) | A create between a killed resolution and its retry appends `startup_absent`, after which every retry raises. |
| a leaf without proof of death is quarantined and "left sealed" (`…_capture_staging.py:9`) | A coordinator killed between the start of the child and the record `spawned` leaves a journal whose quarantine is acknowledged without such a proof. |
| retention is "30 days plus at most 5 minutes" (`docs/productization/honcho-pilot-operations.md:52`) | It is 30 days, the interval and the duration of a cycle. |

### Behaviours worth knowing

They are part of the models and no property forbids them, since no document
promises otherwise.

- Broker: a success of an effect that was pending when its circuit opened closes
  the circuit without an operator.
- Release broker: a readback whose parent is not the base makes the first
  indeterminate receipt unbuildable until a later sweep; an expired packet whose
  step was rejected, or a recovery more than a day after its attempt, gets no
  receipt; a kill between link and unlink leaves the client's receipt file with
  two names, and later runs answer "blocked".
- Bundler: a torn bundle is reachable and refused by the broker; a bundle of two
  pull requests is always refused; the fingerprint contains the bundle's digest,
  so every run tells the owner again, and a failed post is remembered as told.
- Publication: a kill between unlink and fsync of the archive's temporary link,
  another coordinator and a power loss together can take back a committed
  result; a retried committed cleanup compares with the newest head and then
  never matches.
- Staging: a leaf without a recorded identity, an empty or torn first record and a
  leaf lost after `startup_quarantine_intent` leave a session no create resolves.
- Journal: a kill and a power loss together can have an effect dispatched twice.
  `child_launch_intent` is renamed and the process killed before the directory is
  synced; a reload takes the record at face value, `recover_scope` reports no
  effect and `start_scope` is dispatched; the power loss takes the record back, and
  the session, loaded without recovery, appends the intent and dispatches
  `start_scope` again. The archived histories of the table above have the same
  cause. It is why `JournalSafe` and `JournalSteps` are stated where power is not
  lost behind a kill or an I/O error (`PowerAlone`).
- Lifecycle: a launch intent whose start never arrived, or whose boot is over, has
  no path to an empty scope; a retried start is always an idempotency conflict.
- Opaque capture: under v1 a kill inside the removal leaves a published name with
  mode 0700 that every later recovery refuses; v1 is dormant.
- Qualification run: a reader that overlaps the end of a run may answer "invalid";
  an aborted run replaces an earlier "qualified"; tokens of failed adapter calls
  are not counted.
- Forge: in mode "direct" a kill before `summary.json` makes a new cycle that is
  refused for ever as `worktree_base_mismatch`; a kill between the comment and
  `codex-trigger.json` repeats the review request.
- Memory service: a torn tombstone raises for ever; a kill between the removal of
  an archive and of its manifest pauses the service for ever; an operator that
  deletes while the supervisor starts can leave a pending tombstone while it
  serves.
- Operator: a torn plist or proposal blocks its name; an owner's edit between the
  last reading and `os.replace` is lost; a profile that holds the newest login can
  be scrubbed while the authority's refresh token is spent.

## 4. What is proved

All theorems hold for every value of the constants that meets the named
assumptions of the modules, which TLC evaluates on every instance.

| Theorem | Statement | Module |
|---|---|---|
| `StoreTypeCorrect`, `StoreInvariant` | `StoreTypeOK` and `StoreInv` (the inductive invariant) always | `BrokerStoreProofs` |
| `AttemptOwnership`, `RetryNeedsAbsence`, `VerdictsAgree`, `NothingHidden` | `ActiveAttemptOwned`, `NoBlindRetry`, `VerdictAgreement`, `NoHiddenAttempt` always | `BrokerStoreProofs` |
| `OutcomesAreDurable` | the action property `DurableOutcome` | `BrokerStoreProofs` |
| `StoreKeepsPromise` | `StoreSpec` implements `ProtectedEffect` | `BrokerStoreProofs` |
| `BudgetsHold`, `ChargesCounted`, `CircuitCounts` | `MutationBudgetRespected`, `ChargesAccounted`, `CircuitBacked` always | `BrokerStoreProofs` |
| `HandlerInvariant` | `HandlerInv` (the inductive invariant) of the broker always | `ProtectedBrokerProofs` |
| `BrokerImplementsStore` | `Spec => StoreSpec` | `ProtectedBrokerProofs` |
| `NothingSentUncharged` | `SentOnlyCharged` always | `ProtectedBrokerProofs` |
| `SuccessIsWitnessed` | `SuccessWitnessed` always | `ProtectedBrokerProofs` |
| `HandlersAreSafe` | `HandlersSafe` always | `ProtectedBrokerProofs` |
| `ReleaseInvariant` | `ReleaseInv` always | `ReleaseStoreProofs` |
| `ReceiptsStayTrue` | `ReceiptTrue` always | `ReleaseStoreProofs` |
| `ReleaseStepsKept` | the action property `ReleaseSteps` | `ReleaseStoreProofs` |
| `ReleaseKeepsPromise` | `ReleaseStoreSpec` implements `ReleasePromise` | `ReleaseStoreProofs` |
| `ReleaseMergesTrue` | `MergesTrue` always | `ReleaseBrokerProofs` |
| `RequestsSettle` | the action property `RequestSettles` | `ReleaseBrokerProofs` |
| `StoreUnderService` | `ReleaseInv` and `ReceiptTrue` always, under the release broker | `ReleaseBrokerProofs` |
| `EvidenceIsSafe` | `QualificationSafe` of one qualification always | `QualificationRunProofs` |
| `ReportedStays`, `MemoryNeverAhead`, `OneTransactionOnly` | `ReportedDurable`, `MemoryFollowsDisk`, `OneTransaction` always, whatever the faults | `TransactionJournalProofs` |
| `JournalIsSafe` | `JournalSafe` always: these three, and what is archived is terminal | `TransactionJournalProofs` |
| `NeverRetriedBlindly` | the action property `NoBlindRetry` of effects on the supervisor | `TransactionJournalProofs` |
| `HistoriesOnlyGrow` | every step that is no power loss extends a history by at most one record, validly | `TransactionJournalProofs` |
| `JournalStepsKept` | the action property `JournalSteps` | `TransactionJournalProofs` |
| `JournalImplementsHistory` | without power losses the store implements `JournalHistory`, session by session | `TransactionJournalProofs` |
| `ApprovalIsSafe` | `ApprovalSafe` of the owner's approval always | `OwnerApprovalProofs` |
| `NothingTakenBack` | the action property `Onward` | `OwnerApprovalProofs` |
| `ControlsInvariant`, `ControlsAreSafe` | `ControlsInv` (the inductive invariant) and `ControlsSafe` always | `AutonomyControlsProofs` |

**Assumptions.** Of the first store: `PacketAssumption` (packets have well-formed
requests, there are finitely many, NULL is not one of them), `KeyAssumption`
(keys are positive), `TimeAssumption` (clock readings are natural numbers, a day
is not empty) and `LimitAssumption` (limits are natural numbers and the circuit
limit is not zero, as `BudgetLimits.__post_init__` demands). Of its service:
`BoundAssumption` (the bounds are numbers, and 0, where the clock starts, is one
of its readings) and
`AttemptKeyAssumption` (there is a key for each of the two attempts an effect may
have). Of the release store: the same kinds of facts about its orders and limits.
Of its service: `BrokerAssumption`, which adds that all packets name the one
configured repository (`validate_packet_binding` refuses any other), that every
packet has a pull request, and that commits are numbered in the order they are
made. Of a qualification: `QualificationConstants`, stated as the hypothesis of the
theorem because the module is instantiated with more than one set of bounds
(`validate_run_matrix` and the argument checks of `run_qualification` demand it).
`ApprovalConstants` and `ControlsConstants` are stated the same way, and for the same
reason: limits are natural numbers, lifetimes, days and reservations not zero; runs
and effects are numbered from 1 in the order they are begun, and there are finitely
many runs, since seconds are counted. Of the journal: `JournalAssumption`, and, for
`JournalIsSafe`, `NeverRetriedBlindly` and `JournalStepsKept` only, `PowerAlone`: if
the host can lose power, nothing else goes wrong; without it the statements are
false (section 3). The run `journal` has an instance of each kind.

**The first store.** `ActiveAttemptOwned`, `NoBlindRetry` and `VerdictAgreement`
are not inductive by themselves: a row with two attempts and no open one, still
pending, satisfies them and would allow a state no transaction leaves.
`StoreInv` adds `AttemptInv`:

- `RowShape` says in which shapes the transactions leave a row. An open attempt
  makes the effect pending, a pending effect without one was tried at most once,
  and an open attempt after an absent one is the second.
- `ChargeFate` says where every charge went: it is the open attempt, or it was
  recorded absent, or its packet holds a receipt about it. This is what makes
  `NoHiddenAttempt` a consequence.
- `RetryEvidence` says that a pending effect tried once and not open has that
  attempt on record as absent, which is the evidence begin_mutation's second
  attempt needs.

The proof has one lemma per transaction and in each one step per conjunct the
transaction can disturb. `PromiseStep` maps every transaction to a step of the
promise or to a stutter (`Reserve` and `CloseCircuit` stutter, `BeginMutation` is
`Attempt`, `ReconcileAbsent` is `FoundAbsent`, `Terminalize` is `Conclude`,
`RecordPacketReceipt` is `Confirm` or `Refuse`); it needs `StoreInv`, because that
an attempt found absent is the first one, and that a packet without an open
attempt may be refused, are not visible in the guards. `CountCharges` and
`UnknownStep` relate the cardinality of a set before and after one element is
added; budgets, attempt counts and circuits rest on them.

**The first service.** That the service uses the store as `StoreSpec` allows
needs to know, at each transaction, what the request in hand has done so far.
`HandlerInv` is `TypeOK`, `StoreInv` and three facts that relate the volatile
request to the durable rows:

- `HandlerOwnsAttempt`: while a mutation is sent, observed or settled, the open
  attempt of the effect is the one this request charged.
- `RecoveryCovers`: while a recovery runs, every open attempt of the packet in
  hand is still on its list and everything on the list is still open, so a
  request that went past recovery meets none of its own packet.
- `AdmittedInHand`: past admission the packet in hand is accepted and has no
  receipt, and the owner of every open attempt was accepted.

With them each step is a transaction of the store or leaves its rows alone
(`BrokerImplementsStore`), so every theorem about the store is one about the
broker, whatever crashes and edits happen. `SentOnlyCharged` follows from
`SendOwed` (a request about to send was charged once more than was sent).
`SuccessWitnessed` needs `Watched` and `ViewsBacked`: what is in the snapshot of
the request in hand was on GitHub after its packet was admitted, whichever of the
snapshot's calls came before which edit. `RequestBudgetRespected` needs
`StartedInOrder`: nothing was accepted after the time the request in hand read
from the clock.

**The release store.** `ReleaseInv` is inductive as a conjunction. `RowsTogether`
says which rows appear and disappear together. `AttemptsAgree` relates a step's
state and active attempt to the last of its attempts; without it a step whose
second attempt was found absent could be confirmed from the first. `ChainIntact`
and `MergedPrefix` say that confirmed steps are a prefix of the bundle, each on
the merge of the one before. `ClosedBelowLimit` keeps a circuit's count below the
limit while it is closed, which is what makes `PacketsCannotClose` a matter of
single steps. `ReceiptTrue` is proved on top of it: after the receipt, the steps
it speaks of can only change in ways it allows. The budgets rest on a counting
lemma for the attempts of a day, with an attempt charged, and later confirmed, on
the day of its charge.

**The release service.** `SucceededMerged`, `MergeCreditedOnce` and
`SentOnlyCharged` say what the bundles, the pull requests and the calls have to do
with each other, and nothing about how they came to agree. `BrokerInv` adds the
store's invariants and

- `OpenWhileActive` and `OneAtWork`: an attempt is open only while its bundle is
  at work, and while a request has a packet no other bundle is at work; past its
  recovery nothing is open that it did not charge itself. This is what makes
  `RequestSettles` true on every way out of `handle`, and what excludes that two
  packets for one pull request are under way together.
- `ConfirmedMerged`: a confirmed step names the commit of a merge by the App on
  the authorized base, and no two merges made the same commit.
- `CreditGone`: once a packet is credited with a pull request, no other packet for
  it is open, confirmed or about to be charged. The late merge call of an earlier
  packet may merge the pull request while a later packet is under way, and then
  the later one is credited: the bundle of the earlier one has its receipt, and
  every packet after that fails its preflight.
- `SendOwed`: calls under way are no more than calls sent, calls sent no more than
  attempts charged, and fewer by one while the request is about to send.
- `PacketInHand`: which phases have a packet, and which a bundle to report.

`Narrows` is the idea the proof turns on: all but three kinds of steps (a charge,
a credit, a reservation) open nothing, credit nothing and charge nothing, whatever
else they write, and for those one lemma, `QuietStep`, keeps every part. What
happens on GitHub is summarised by `Progresses`: nothing that is merged changes,
and a merge makes a commit newer than all others.

**The qualification run.** `QualificationSafe` says that "qualified" was earned,
that a reader no run overlapped never answers "invalid", and that what a reader
answers was so; none of it mentions how the files came to agree. `EvidenceInv` does:

- `AskedInOrder`: a run begins with nothing; while it asks, the scenarios that are
  over are exactly those with an answer, the candidates that are over have their true
  record, and unless an answer is an error the calls are the two of every scenario
  that is over (and the one of the scenario at the judge). This is what makes the
  reader's test `calls = Planned` succeed for every run without gaps.
- `SummaryTrue`: a summary, once written, is what its records say and they are what
  the answers say, also when the run dies at any later point.
- `StatusSound`, of any status, current or held by a reader: it was announced by its
  run, or the run is over and its summary is in it. A reader's old copy stays sound
  because what is over is never written again.
- `OneRunAtWork`: the lock, the status and the run at work belong together, and
  `latest.json` is ahead of the status only while the run is about to write it.
- `ReaderSound`: a reader that noticed no run holds the current status.

`OthersKept` says once what a step of a run leaves of every other run and of every
sound status; `Step` reduces each action of a run to its own two conjuncts and
`OneRunAtWork`. The attempt to prove `QuietReadable` found an error of the model: the
summary took its time of completion when it was written, but the code reads that
time before the last check of the wall budget, so the model had quiet readers that
refuse a slow summary and the program does not. The time is now read in `CheckEnd`,
and the run `journal` has an instance with a clock that passes the budget.

**The transaction journal.** A commit is three steps (directory or temporary file,
rename, sync), and a kill, an I/O error or a power loss can fall between any two.
`JournalInv` says what each step finds: `MkdirInv`, `TempInv` and `RenamedInv` where
the directory stands and that the history about to be written is valid, `IdleInv`
that between commits the disk is at most the one record ahead that the session was
told had failed, `OpInv` that an operation that began by reading back still has the
disk in memory, `DiskInv` that reported records are among the synced ones and only
one directory is live. From it follow the durability of what was reported, for any
faults, and `HistoriesOnlyGrow`, on which `JournalImplementsHistory` rests: with
`files[t]` for the history, every step of the store is a step of `JournalHistory`
or a stutter. `ArchiveInv` adds that what is archived is finished and synced;
`RetryInv` that an effect of unknown outcome lies in a history that demands a
recovery or is past the effects (`Launched`), which every extension keeps, so that
a reload finds from the records alone that it must recover. Both need `PowerAlone`.

**The owner's approval.** `ApprovalSafe` follows what a helper of the owner
carries from a Discord message to a receipt. `Onward` says what no step takes back:
the author, the time and the first text of a message, the time of a bundle, the
assertion of a record, a packet of the outbox, what the broker accepted.
`ApprovalInv` says of every place a packet can be (a helper's hand, the outbox, the
broker, a receipt) that it carries the assertion of the record of its message and
that the message, of the owner and no older than the bundle, asked for that bundle
from the start. Every part of the invariant is kept by any step that is `Onward`,
so each action has only to be shown onward and right about the one row it writes.

**The autonomy controls.** The runtime of a day is defined as the number of its
seconds that runs have reserved or used, so that what `_adjust_daily_runtime` keeps
by adding and taking away is compared with a cardinality: changing one run changes
it by that run's allocation (`SecondsOfOne`, `OneRunCharged`). `RuntimeWithinDay`
needs that a run never gets more time than it reserved, and that a run begins with
no more than the table has left. The effects are the other half. `ChildOK` says
what a child knows at each point of the guards (an operation, an effect that is of
that operation, a reading of the branch that was true once); it survives every
step that takes nothing back from GitHub or the effects (`EffectsOnward`), whoever
runs beside it. `CommentsInv` is why a comment is written once: a child between its
journal entry and its call is the only one there, and nothing was written for the
operation before. Worker, child and lease come apart when a worker dies; nothing in
the invariant says they belong together, and nothing needs it.
`autonomy` checks the parts of `ControlsSafe` on three instances, each with the
operations the part is about; the theorem is about one with all of them.

**Only model-checked, and why.** Liveness (`progress`) needs fairness and ENABLED,
for which the prover has no rules. The receipts, clients and the bundler
(`ClientSafe`), staging, scope, capture and publication (`qualification`), adoption,
the autonomy journal, the operator's commands, the continuity ledger, the forge and
the memory service are checked by TLC on the instances above: most of their
invariants are not inductive, and the strengthening is not worked out yet. What
`HistorySafe` says of the rules for histories is checked for every history of a
session up to `MAX_EVENTS_PER_SESSION`, so there is no larger instance to prove;
by `JournalImplementsHistory` it holds of every session directory of the store.

## 5. Not modelled

Framing, peer credentials, path and lock-file checks, schema validation,
canonical JSON, signatures, pagination and HTTP: they have no state that the
properties relate, or belong to the operating system. The daemon that would serve
the lifecycle ledger is not in the repository and is modelled from the ledger's
operations. The sandbox and native bundles of captures, model isolation and
provider relays, the learning, reputation and queue jobs, the installers and
Doctor are I/O, cryptography or validation of one document; the legacy release
executor only writes a dry-run report. `PROJECT.json` says so component by
component.

## 6. Plan

1. The invariants of the bundler (`ReleaseBundle`) and of the clients, whose state
   is small, and of the autonomy journal, whose rotation is a sequence of durable
   writes like the commits of the transaction journal.
2. The staging leaf and its adoption, for any number of kills.
3. The continuity ledger, the forge and the memory service.

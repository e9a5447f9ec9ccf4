----------------------------- MODULE ReleaseClient -----------------------------
(***************************************************************************)
(* The unprivileged client of the release broker                           *)
(* (scripts/john-lomein-release-submit.py) against the receipts the        *)
(* broker builds, signs, sweeps up and replays. Runs of the client share   *)
(* one socket and one directory of receipts; answers are lost, runs and    *)
(* the broker are killed, power is lost, the clock steps back, and others  *)
(* push to the branch.                                                     *)
(*                                                                         *)
(* What the broker decides, its budgets and its circuit are ReleaseBroker; *)
(* here a request is handled up to the receipt it leaves, and a refusal is *)
(* always possible. The broker serves one request at a time and one bundle *)
(* at a time.                                                              *)
(*                                                                         *)
(* What a packet and a signed receipt must look like is what               *)
(* john_lomein_release_broker_protocol.py and _receipts.py say, which the  *)
(* broker and its client share. Times are seconds and commits are numbers, *)
(* 0 stands for none; digests, names and keys a receipt repeats are        *)
(* compared through the packet they belong to. The evidence of a merge     *)
(* (commit, parent, tree, actor) is its commit and its parent.             *)
(***************************************************************************)
EXTENDS Naturals, Sequences, FiniteSets

CONSTANTS
  Skew,          \* MAX_CLOCK_SKEW_SECONDS
  MinTtl,        \* MIN_PACKET_TTL_SECONDS, MIN_BUNDLE_TTL_SECONDS
  MaxTtl,        \* the longest lifetime policy allows a bundle
  MaxDuration,   \* MAX_RECEIPT_DURATION_SECONDS
  Packets, NoPacket,
  Asked,        \* the content of each packet
  Runs,         \* runs of the client
  MaxTime,      \* bound: the last second
  MaxLoads,     \* bound: runs started
  MaxTrouble    \* bound: pushes, kills, lost answers, failed calls, steps of the clock

ReleaseClientConstants == NoPacket \notin Packets /\ MinTtl > 0 /\ MaxDuration > 0

StepOutcomes == {"merged", "rejected", "not_attempted", "indeterminate"}
TerminalOutcomes == {"succeeded", "rejected", "partial", "indeterminate"}

-----------------------------------------------------------------------------
(* Packets.                                                                  *)

\* normalize_release_bundle
BundleAccepts(b) == b.expires - b.created \in MinTtl .. MaxTtl /\ b.size > 0

\* normalize_owner_assertion_envelope, verify_owner_assertion_signature
AssertionAccepts(o, now, allowExpired) ==
  /\ o.issued < o.expires /\ o.issued <= now + Skew
  /\ allowExpired \/ now < o.expires

\* normalize_release_packet: one pull request, an owner who approved this bundle,
\* and a lifetime within the bundle's. allowExpired is for packet and assertion.
PacketAccepts(p, now, allowExpired) ==
  /\ p.expires - p.created \in MinTtl .. MaxTtl
  /\ p.created <= now + Skew /\ (allowExpired \/ now < p.expires)
  /\ BundleAccepts(p.bundle)
  /\ AssertionAccepts(p.assertion, now, allowExpired)
  /\ p.bundle.size = 1 /\ p.assertion.of = p.bundle.id
  /\ p.bundle.created <= p.created /\ p.expires <= p.bundle.expires

\* normalize_configured_submission: the limits of the configured policy.
PolicyAccepts(p) == p.bundle.within

-----------------------------------------------------------------------------
(* Receipts.                                                                 *)

\* _normalize_step
StepAccepts(s, from, to) ==
  /\ from <= s.started /\ s.started <= s.completed /\ s.completed <= to
  /\ s.attempted # 0 => s.attempted \in s.started .. s.completed
  /\ (s.merge = 0) = (s.parent = 0)
  /\ CASE s.outcome = "merged" -> s.attempted # 0 /\ s.merge # 0 /\ s.parent = s.base
       [] s.outcome \in {"rejected", "not_attempted"} -> s.attempted = 0 /\ s.merge = 0
       [] OTHER -> s.attempted # 0 /\ s.parent \in {0, s.base}

\* _normalize_final_branch
FinalAccepts(f, from, to) ==
  (f.head = 0) = (f.observed = 0) /\ (f.observed # 0 => f.observed \in from .. to)

\* Mutant: the base a step is merged on is not compared with the merge before it.
StepsChainAnyBase(r) ==
  /\ r.steps[1].base = r.base
  /\ \A i \in 2 .. Len(r.steps) : r.steps[i - 1].completed <= r.steps[i].started
  /\ \A i, j \in 1 .. Len(r.steps) :
       i < j /\ r.steps[i].outcome # "merged" => r.steps[j].outcome = "not_attempted"

\* normalize_receipt_payload: the chain of bases, the order of the steps and the
\* first step that stopped.
StepsChain(r) ==
  /\ r.steps[1].base = r.base
  /\ \A i \in 2 .. Len(r.steps) :
       /\ r.steps[i].base = IF r.steps[i - 1].outcome = "merged" THEN r.steps[i - 1].merge
                            ELSE r.steps[i - 1].base
       /\ r.steps[i - 1].completed <= r.steps[i].started
  /\ \A i, j \in 1 .. Len(r.steps) :
       i < j /\ r.steps[i].outcome # "merged" => r.steps[j].outcome = "not_attempted"

Merged(r) == {i \in 1 .. Len(r.steps) : r.steps[i].outcome = "merged"}
Some(r, outcome) == \E i \in 1 .. Len(r.steps) : r.steps[i].outcome = outcome

OutcomeAccepts(r) ==
  CASE r.outcome = "succeeded" -> Merged(r) = 1 .. Len(r.steps)
    [] r.outcome = "rejected" ->
         Merged(r) = {} /\ ~ Some(r, "indeterminate") /\ Some(r, "rejected")
    [] r.outcome = "partial" ->
         /\ Merged(r) # {} /\ Merged(r) # 1 .. Len(r.steps)
         /\ Some(r, "rejected") /\ ~ Some(r, "indeterminate")
    [] OTHER -> Some(r, "indeterminate")

\* The final branch is the last merge, seen after it.
FinalProves(r) ==
  r.outcome \in {"succeeded", "partial"} =>
    LET last == r.steps[CHOOSE i \in Merged(r) : \A j \in Merged(r) : j <= i]
    IN r.final.head = last.merge /\ last.completed <= r.final.observed

PayloadAccepts(r) ==
  /\ r.started <= r.completed /\ r.completed <= r.started + MaxDuration
  /\ Len(r.steps) = r.size
  /\ \A i \in 1 .. Len(r.steps) : StepAccepts(r.steps[i], r.started, r.completed)
  /\ StepsChain(r)
  /\ FinalAccepts(r.final, r.started, r.completed)
  /\ OutcomeAccepts(r) /\ FinalProves(r)

\* assert_receipt_packet_binding
BindsPacket(r, p) ==
  /\ PacketAccepts(p, r.started, TRUE)
  /\ r.of = p.id /\ r.base = p.base /\ r.size = p.bundle.size
  /\ p.created <= r.started + Skew /\ r.started < p.expires

\* build_receipt_payload and sign_receipt
Signable(r, p) == PayloadAccepts(r) /\ BindsPacket(r, p)

\* verify_receipt_with_public_key
Verifies(r, p, now) == PayloadAccepts(r) /\ BindsPacket(r, p) /\ r.completed <= now + Skew

\* verify_receipt_chain, assert_append_binding
ChainVerifies(rs) ==
  /\ \A i \in 1 .. Len(rs) : PayloadAccepts(rs[i])
  /\ \A i, j \in 1 .. Len(rs) : rs[i].of = rs[j].of => i = j
  /\ \A i \in 2 .. Len(rs) : rs[i - 1].completed <= rs[i].started

-----------------------------------------------------------------------------
(* The client and what it meets.                                            *)

VARIABLES
  clock,
  step,         \* the durable step of a packet's bundle
  chain,        \* the receipts of the store, in order
  pull,         \* the pull request of a packet on GitHub
  handler,      \* the request the broker is handling
  run,          \* the runs of the client
  file, disk,   \* names of a packet's receipt file: now, and through a power loss
  told,         \* the exit codes of the runs for each packet
  back,         \* whether the clock ever stepped back
  trouble, loads

releaseClientVars == <<clock, step, chain, pull, handler, run, file, disk, told, back,
                       trouble, loads>>

Quiet == [phase |-> "idle", packet |-> NoPacket, started |-> 0]
Fresh == [pc |-> "idle", packet |-> NoPacket, answer |-> 0, own |-> FALSE]
NewStep == [state |-> "none", started |-> 0, completed |-> 0]
NoName == [name |-> FALSE, temp |-> FALSE]

ReleaseClientInit ==
  /\ clock = 1 /\ chain = <<>> /\ handler = Quiet
  /\ step = [p \in Packets |-> NewStep]
  /\ pull = [p \in Packets |-> "open"]
  /\ run = [c \in Runs |-> Fresh]
  /\ file = [p \in Packets |-> NoName] /\ disk = file
  /\ told = [p \in Packets |-> {}]
  /\ back = FALSE /\ trouble = 0 /\ loads = 0

ReceiptOf(p) == {i \in 1 .. Len(chain) : chain[i].of = Asked[p].id}
At(p) == CHOOSE i \in ReceiptOf(p) : TRUE

-----------------------------------------------------------------------------
(* The broker.                                                               *)

Unmoved == UNCHANGED <<clock, file, disk, told, back, trouble, loads>>

\* The daemon answers the run that waits for this packet, if one still does: a
\* receipt, or a closed error code (0). An error at its start ends the daemon.
Answer(i) ==
  /\ handler' = IF handler.packet = NoPacket THEN [Quiet EXCEPT !.phase = "down"] ELSE Quiet
  /\ run' = [c \in Runs |->
       IF run[c].pc = "served" THEN [run[c] EXCEPT !.pc = "answered", !.answer = i] ELSE run[c]]

\* _build_rejected_step, _build_indeterminate_step, _build_merged_step and the
\* payload around them. parent is 0 where no evidence of a merge is given.
Payload(p, outcome, started, attempted, completed, parent) ==
  LET merge == IF parent = 0 THEN 0 ELSE Asked[p].base + 1
      one == [base |-> Asked[p].base, attempted |-> attempted, merge |-> merge,
              parent |-> parent, started |-> started, completed |-> completed,
              outcome |-> IF outcome = "succeeded" THEN "merged" ELSE outcome]
  IN [of |-> Asked[p].id, base |-> Asked[p].base, size |-> 1, steps |-> <<one>>,
      outcome |-> outcome, started |-> started, completed |-> completed,
      final |-> IF outcome = "succeeded" THEN [head |-> merge, observed |-> completed]
                ELSE [head |-> 0, observed |-> 0]]

\* _terminalize: a receipt that cannot be built or signed leaves the step as it
\* is, and the request ends with an error.
Receipted(p, r, next) ==
  IF Signable(r, Asked[p])
  THEN /\ chain' = Append(chain, r)
       /\ IF next = "idle" THEN Answer(Len(chain) + 1)
          ELSE handler' = [handler EXCEPT !.phase = next] /\ UNCHANGED run
  ELSE UNCHANGED chain /\ Answer(0)

\* _snapshot_terminal_receipt: from what the store keeps of the step.
Swept(p) ==
  LET s == step[p] IN
  CASE s.state = "confirmed" ->
         Payload(p, "succeeded", s.started, s.started, s.completed, Asked[p].base)
    [] s.state = "rejected" -> Payload(p, "rejected", s.started, 0, s.completed, 0)
    [] OTHER -> Payload(p, "indeterminate", s.started, s.started, s.completed, 0)

Active == {p \in Packets : step[p].state # "none" /\ ReceiptOf(p) = {}}

\* handle: a receipt is replayed; an accepted packet recovers first; a new one is
\* reserved while it is fresh and no other bundle is active.
Serve(c) ==
  /\ handler.phase = "idle" /\ run[c].pc = "sent"
  /\ LET p == run[c].packet
         served == [run EXCEPT ![c].pc = "served"]
         refused == [run EXCEPT ![c].pc = "answered", ![c].answer = 0]
     IN IF ReceiptOf(p) # {}
        THEN /\ run' = IF Verifies(chain[At(p)], Asked[p], clock)
                       THEN [run EXCEPT ![c].pc = "answered", ![c].answer = At(p)]
                       ELSE refused
             /\ UNCHANGED <<handler, step>>
        ELSE IF step[p].state # "none"
        THEN /\ run' = served /\ UNCHANGED step
             /\ handler' = [phase |-> "recover", packet |-> p, started |-> clock]
        ELSE IF PacketAccepts(Asked[p], clock, FALSE) /\ PolicyAccepts(Asked[p])
                /\ Active = {}
        THEN /\ run' = served
             /\ step' = [step EXCEPT ![p].state = "pending"]
             /\ handler' = [phase |-> "decide", packet |-> p, started |-> clock]
        ELSE run' = refused /\ UNCHANGED <<handler, step>>
  /\ UNCHANGED <<chain, pull>> /\ Unmoved

\* The daemon's start: recover_pending, nothing to retry.
Restart ==
  /\ handler.phase = "down"
  /\ handler' = [Quiet EXCEPT !.phase = "recover"]
  /\ UNCHANGED <<step, chain, pull, run>> /\ Unmoved

\* The parent a mismatching readback shows: the one of the newest commit.
Shown(p) == IF pull[p] = "taken" THEN Asked[p].base ELSE Asked[p].base + 1

\* The readback of a charged attempt, and what the receipt may say of it.
Concluded(p, started, next) ==
  \/ /\ pull[p] = "merged"
     /\ step' = [step EXCEPT ![p] = [state |-> "confirmed", started |-> started,
                                     completed |-> clock]]
     /\ Receipted(p, Payload(p, "succeeded", started, started, clock, Asked[p].base), next)
  \/ \E parent \in {0} \cup IF pull[p] \in {"taken", "off"} THEN {Shown(p)} ELSE {} :
       /\ step' = [step EXCEPT ![p] = [state |-> "indeterminate", started |-> started,
                                       completed |-> clock]]
       /\ Receipted(p, Payload(p, "indeterminate", started, started, clock, parent), next)

\* _recover_one; an absent merge is left to the replay of its own packet.
RecoverAttempt(p) ==
  /\ handler.phase = "recover" /\ step[p].state = "mutation"
  /\ \/ Concluded(p, step[p].started, "recover")
     \/ /\ pull[p] = "open"
        /\ step' = IF handler.packet = p THEN [step EXCEPT ![p].state = "pending"] ELSE step
        /\ handler' = [handler EXCEPT !.phase = "sweep"]
        /\ UNCHANGED <<chain, run>>
  /\ UNCHANGED pull /\ Unmoved

\* recover_pending: the bundles that ended without a receipt, then the packet.
Sweep ==
  /\ \/ handler.phase = "sweep"
     \/ handler.phase = "recover" /\ \A p \in Packets : step[p].state # "mutation"
  /\ LET due == {p \in Active : step[p].state \in {"confirmed", "rejected", "indeterminate"}}
         p == handler.packet
     IN IF due # {}
        THEN \E q \in due : Receipted(q, Swept(q), "sweep")
        ELSE /\ UNCHANGED chain
             /\ IF p = NoPacket THEN handler' = Quiet /\ UNCHANGED run
                ELSE IF ReceiptOf(p) # {} THEN Answer(At(p))
                ELSE handler' = [handler EXCEPT !.phase = "decide"] /\ UNCHANGED run
  /\ UNCHANGED <<step, pull>> /\ Unmoved

\* _stop_and_reject, for any of its reasons, expiry among them.
Decline ==
  /\ handler.phase = "decide" /\ step[handler.packet].state = "pending"
  /\ step' = [step EXCEPT ![handler.packet] = [state |-> "rejected",
                started |-> handler.started, completed |-> clock]]
  /\ Receipted(handler.packet,
               Payload(handler.packet, "rejected", handler.started, 0, clock, 0), "idle")
  /\ UNCHANGED pull /\ Unmoved

\* GitHub with one more commit: a pull request is no longer on the authorized
\* base, a merge no longer the newest commit.
NewCommit ==
  [p \in Packets |-> CASE pull[p] = "open" -> "pushed"
                       [] pull[p] \in {"merged", "taken"} -> "off"
                       [] OTHER -> pull[p]]

\* A merge, by the broker or by others: as authorized, or on another base.
MergeOf(p, state) ==
  [NewCommit EXCEPT ![p] = IF pull[p] = "open" THEN state ELSE "off"]

\* begin_mutation within the bundle, then the merge call: GitHub merges on the
\* newest commit, or not at all.
Attempt ==
  /\ handler.phase = "decide" /\ step[handler.packet].state = "pending"
  /\ handler.started < Asked[handler.packet].expires
  /\ clock < Asked[handler.packet].bundle.expires
  /\ step' = [step EXCEPT ![handler.packet] = [state |-> "mutation", started |-> clock,
                                               completed |-> 0]]
  /\ pull' \in {pull} \cup IF pull[handler.packet] \in {"open", "pushed"}
                           THEN {MergeOf(handler.packet, "merged")} ELSE {}
  /\ handler' = [handler EXCEPT !.phase = "readback"]
  /\ UNCHANGED <<chain, run>> /\ Unmoved

\* A pending step that cannot be charged any more ends the request.
Uncharged ==
  /\ handler.phase = "decide"
  /\ \/ step[handler.packet].state # "pending"
     \/ clock >= Asked[handler.packet].bundle.expires
  /\ Answer(0)
  /\ UNCHANGED <<step, chain, pull>> /\ Unmoved

ReadBack ==
  /\ handler.phase = "readback"
  /\ Concluded(handler.packet, step[handler.packet].started, "idle")
  /\ UNCHANGED pull /\ Unmoved

-----------------------------------------------------------------------------
(* The client.                                                               *)

Elsewhere == UNCHANGED <<clock, step, chain, pull, handler, back>>

Exit(c, code) ==
  /\ told' = [told EXCEPT ![run[c].packet] = @ \cup {code}]
  /\ run' = [run EXCEPT ![c] = Fresh]

\* submit_packet up to the request: load_packet refuses an expired packet, and
\* validate_packet_config_binding another repository's.
Submit(c, p) ==
  /\ run[c].pc = "idle" /\ PacketAccepts(Asked[p], clock, FALSE)
  /\ loads < MaxLoads /\ loads' = loads + 1
  /\ run' = [run EXCEPT ![c] = [Fresh EXCEPT !.pc = "sent", !.packet = p]]
  /\ UNCHANGED <<file, disk, told, trouble>> /\ Elsewhere

\* exchange and verify_signed_receipt: an error code, or a receipt that does not
\* verify, leaves the outcome ambiguous.
Check(c) ==
  /\ run[c].pc = "answered"
  /\ IF run[c].answer = 0 THEN Exit(c, "ambiguous")
     ELSE IF Verifies(chain[run[c].answer], Asked[run[c].packet], clock)
     THEN run' = [run EXCEPT ![c].pc = "verified"] /\ UNCHANGED told
     ELSE Exit(c, "ambiguous")
  /\ UNCHANGED <<file, disk, trouble, loads>> /\ Elsewhere

\* verify_receipt_file of the saved file, which must have one name; it is saved
\* again like the receipt of a submission.
VerifyFile(c, p) ==
  /\ run[c].pc = "idle" /\ loads < MaxLoads /\ loads' = loads + 1
  /\ PacketAccepts(Asked[p], clock, TRUE)
  /\ file[p].name /\ ~ file[p].temp /\ Verifies(chain[At(p)], Asked[p], clock)
  /\ run' = [run EXCEPT ![c] = [pc |-> "verified", packet |-> p, answer |-> At(p),
                                own |-> FALSE]]
  /\ UNCHANGED <<file, disk, told, trouble>> /\ Elsewhere

\* Mutant: the temporary file is renamed over, whatever the name holds, and the
\* directory is not synchronized.
LinkUnsynced(c) ==
  /\ run[c].pc = "verified"
  /\ file' = [file EXCEPT ![run[c].packet] = [name |-> TRUE, temp |-> FALSE]]
  /\ run' = [run EXCEPT ![c].pc = "unlinked"]
  /\ UNCHANGED <<disk, told, trouble, loads>> /\ Elsewhere

\* persist_receipt: the synchronized temporary file is linked under the name of
\* the receipt; a file that is there already must have that one name.
Link(c) ==
  /\ run[c].pc = "verified"
  /\ LET f == file[run[c].packet]
     IN IF ~ f.name
        THEN /\ file' = [file EXCEPT ![run[c].packet] = [name |-> TRUE, temp |-> TRUE]]
             /\ run' = [run EXCEPT ![c].pc = "linked", ![c].own = TRUE]
             /\ UNCHANGED told
        ELSE /\ IF f.temp THEN Exit(c, "blocked")
                ELSE run' = [run EXCEPT ![c].pc = "linked"] /\ UNCHANGED told
             /\ UNCHANGED file
  /\ UNCHANGED <<disk, trouble, loads>> /\ Elsewhere

Sync(c) ==
  /\ run[c].pc = "linked"
  /\ disk' = file
  /\ run' = [run EXCEPT ![c].pc = "synced"]
  /\ UNCHANGED <<file, told, trouble, loads>> /\ Elsewhere

Trouble == trouble < MaxTrouble /\ trouble' = trouble + 1

\* The temporary name goes; an error there is passed over.
Unlink(c) ==
  /\ run[c].pc = "synced"
  /\ \/ /\ file' = IF run[c].own THEN [file EXCEPT ![run[c].packet].temp = FALSE] ELSE file
        /\ UNCHANGED trouble
     \/ run[c].own /\ Trouble /\ UNCHANGED file
  /\ run' = [run EXCEPT ![c].pc = "unlinked"]
  /\ UNCHANGED <<disk, told, loads>> /\ Elsewhere

\* The second synchronization, then exit_for_outcome.
Report(c) ==
  /\ run[c].pc = "unlinked"
  /\ disk' \in {file, disk}
  /\ Exit(c, chain[run[c].answer].outcome)
  /\ UNCHANGED <<file, trouble, loads>> /\ Elsewhere

-----------------------------------------------------------------------------
(* The world.                                                                *)

Tick ==
  /\ clock < MaxTime /\ clock' = clock + 1
  /\ UNCHANGED <<step, chain, pull, handler, run, file, disk, told, back, trouble, loads>>

\* Others push, or merge a pull request themselves.
Push ==
  /\ Trouble
  /\ pull' \in {NewCommit} \cup
       {MergeOf(p, "taken") : p \in {q \in Packets : pull[q] \in {"open", "pushed"}}}
  /\ pull' # pull
  /\ UNCHANGED <<clock, step, chain, handler, run, file, disk, told, back, loads>>

\* A run whose answer cannot come any more.
Hangs(c) == run[c].pc \in {"served", "sent"}

Killed ==
  /\ Trouble
  /\ \/ /\ handler.phase # "down"
        /\ handler' = [Quiet EXCEPT !.phase = "down"]
        /\ run' = [c \in Runs |-> IF Hangs(c) THEN [run[c] EXCEPT !.pc = "answered", !.answer = 0]
                                  ELSE run[c]]
     \/ \E c \in Runs : run[c].pc # "idle" /\ run' = [run EXCEPT ![c] = Fresh]
          /\ UNCHANGED handler
  /\ UNCHANGED <<clock, step, chain, pull, file, disk, told, back, loads>>

PowerLoss ==
  /\ Trouble
  /\ handler' = [Quiet EXCEPT !.phase = "down"] /\ run' = [c \in Runs |-> Fresh]
  /\ \E f \in [Packets -> [name : BOOLEAN, temp : BOOLEAN]] :
       /\ \A p \in Packets : /\ f[p].name \in {file[p].name, disk[p].name}
                             /\ f[p].temp \in {file[p].temp, disk[p].temp}
                             /\ ~ f[p].name => ~ f[p].temp
       /\ file' = f /\ disk' = f
  /\ UNCHANGED <<clock, step, chain, pull, told, back, loads>>

StepBack ==
  /\ Trouble /\ clock > 1 /\ clock' = clock - 1 /\ back' = TRUE
  /\ UNCHANGED <<step, chain, pull, handler, run, file, disk, told, loads>>

ReleaseClientNext ==
  \/ \E c \in Runs : Serve(c) \/ Check(c) \/ Link(c) \/ Sync(c) \/ Unlink(c) \/ Report(c)
  \/ \E c \in Runs, p \in Packets : Submit(c, p) \/ VerifyFile(c, p)
  \/ \E p \in Packets : RecoverAttempt(p)
  \/ Restart \/ Sweep \/ Decline \/ Attempt \/ Uncharged \/ ReadBack
  \/ Tick \/ Push \/ Killed \/ PowerLoss \/ StepBack

ReleaseClientSpec == ReleaseClientInit /\ [][ReleaseClientNext]_releaseClientVars

-----------------------------------------------------------------------------
(* Properties *)

\* Whatever payload normalize_receipt_payload lets through: the merges are the
\* first steps, one on top of the other from the authorized base, at most one
\* step stopped and none ran after it, and the terminal outcome says exactly
\* that; after a success or a partial release the branch is the last merge.
PayloadTells(r) ==
  PayloadAccepts(r) =>
    \E k \in 0 .. Len(r.steps) :
      /\ Merged(r) = 1 .. k
      /\ \A i \in 1 .. k : r.steps[i].parent = IF i = 1 THEN r.base ELSE r.steps[i - 1].merge
      /\ \A i \in 1 .. Len(r.steps) : i > k + 1 =>
           r.steps[i].outcome = "not_attempted" /\ r.steps[i].attempted = 0
      /\ k < Len(r.steps) => r.steps[k + 1].outcome \in {"rejected", "indeterminate"}
      /\ r.outcome = IF k = Len(r.steps) THEN "succeeded"
                     ELSE IF r.steps[k + 1].outcome = "indeterminate" THEN "indeterminate"
                     ELSE IF k = 0 THEN "rejected" ELSE "partial"
      /\ r.outcome \in {"succeeded", "partial"} => r.final.head = r.steps[k].merge

\* The exit codes of all runs for a packet, of submissions and of later
\* verifications, tell of one receipt; 0 only of a release that was merged on
\* the authorized base, and only once its receipt survives a power loss.
ExitTrue ==
  \A p \in Packets :
    /\ Cardinality(ReceiptOf(p)) <= 1
    /\ \A code \in told[p] \cap TerminalOutcomes :
         /\ ReceiptOf(p) # {} /\ chain[At(p)].outcome = code
         /\ file[p].name /\ disk[p].name
    /\ "succeeded" \in told[p] => pull[p] \in {"merged", "off"}

\* The receipts of the store pass verify_receipt_chain as long as the clock
\* never stepped back, although they are signed late and in recoveries.
ChainTrue == back \/ ChainVerifies(chain)

\* A bundle that ended can get its receipt, so that its repository is free again,
\* unless the packet had expired when it was retried, the clock stepped back, or
\* the attempt lasted longer than a receipt may.
ReceiptPossible ==
  \A p \in Active : step[p].state \in {"confirmed", "rejected", "indeterminate"} =>
    \/ Signable(Swept(p), Asked[p])
    \/ back
    \/ step[p].started >= Asked[p].expires
    \/ step[p].completed > step[p].started + MaxDuration

ReleaseClientSafe == ExitTrue /\ ChainTrue /\ ReceiptPossible

=============================================================================

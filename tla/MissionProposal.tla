--------------------------- MODULE MissionProposal ---------------------------
(***************************************************************************)
(* The owner's mission (john_lomein_mission.py): propose writes a private  *)
(* file that binds a mission to the manifest it was drafted against, and   *)
(* confirm, given the phrase of exactly that proposal, replaces the        *)
(* manifest by the observer candidate derived from it.                     *)
(*                                                                         *)
(* A manifest is what the product reads of it: the authority it asks for,  *)
(* its mission and the rest, numbered by the edits of the owner. A digest  *)
(* is the thing digested. A rename is lost in a power failure until the    *)
(* directory is synchronised.                                              *)
(***************************************************************************)
EXTENDS Integers, FiniteSets

CONSTANTS
  Missions, Undecided,
  Names,        \* file names under private/
  Lifetime,     \* PROPOSAL_LIFETIME
  MaxTime, MaxEdits, MaxRuns, MaxFaults

MissionConstants ==
  /\ Undecided \notin Missions
  /\ {Lifetime, MaxTime, MaxEdits, MaxRuns, MaxFaults} \subseteq Nat

Runs == 1 .. MaxRuns

VARIABLES
  now,
  manifest,     \* the manifest and the signature of its file
  safe,         \* the manifest a power failure would leave
  files,        \* the proposal files
  draft,        \* the proposal being written: its file and its content
  holder,       \* the confirmation holding the lifecycle lock, 0 if none
  confirms,     \* the confirmations
  tally

missionVars == <<now, manifest, safe, files, draft, holder, confirms, tally>>

NoFile == [kind |-> "none"]
NoConfirm == [pc |-> "off", proposal |-> NoFile, expected |-> NoFile]

MissionInit ==
  /\ now = 0
  /\ \E a \in {"active", "observer"} :
       manifest = [raw |-> [rest |-> 0, authority |-> a, mission |-> Undecided], signature |-> 0]
  /\ safe = manifest.raw
  /\ files = [n \in Names |-> NoFile]
  /\ draft = NoFile
  /\ holder = 0
  /\ confirms = [r \in Runs |-> NoConfirm]
  /\ tally = [edits |-> 0, faults |-> 0, writes |-> 0]

Fails == tally.faults < MaxFaults /\ tally' = [tally EXCEPT !.faults = @ + 1]
To(r, pc) == confirms' = [confirms EXCEPT ![r].pc = pc]

\* _observer_candidate: the mission, and every authority reset.
Candidate(raw, m) == [raw EXCEPT !.mission = m, !.authority = "observer"]

\* validate_manifest_contract, effective_authority_posture, _is_dormant_observer
Dormant(raw) == raw.mission # Undecided /\ raw.authority = "observer"

-----------------------------------------------------------------------------
(* propose *)

Propose(n, m) ==
  /\ draft = NoFile /\ files[n] = NoFile
  /\ manifest.raw.mission = Undecided
  /\ files' = [files EXCEPT ![n] = [kind |-> "torn"]]
  /\ draft' = [kind |-> "proposal", name |-> n, base |-> manifest.raw, mission |-> m,
               candidate |-> Candidate(manifest.raw, m), created |-> now]
  /\ UNCHANGED <<now, manifest, safe, holder, confirms, tally>>

\* _write_new_private: a failed write is removed again.
Written ==
  /\ draft # NoFile
  /\ \/ files' = [files EXCEPT ![draft.name] = draft] /\ UNCHANGED tally
     \/ files' = [files EXCEPT ![draft.name] = NoFile] /\ Fails
  /\ draft' = NoFile
  /\ UNCHANGED <<now, manifest, safe, holder, confirms>>

-----------------------------------------------------------------------------
(* confirm *)

\* The checks between the phrase and the first write.
Bound(p) ==
  /\ Candidate(manifest.raw, p.mission) = p.candidate
  /\ now <= p.created + Lifetime
  /\ manifest.raw = p.base
  /\ manifest.raw.mission = Undecided

\* The lock, _load_proposal and the owner's phrase, which is the digest of what
\* is in the file.
Confirm(r, n) ==
  /\ confirms[r].pc = "off" /\ \A q \in 1 .. r - 1 : confirms[q].pc # "off"
  /\ holder = 0 /\ files[n].kind = "proposal"
  /\ LET p == files[n] IN
     \/ /\ manifest.raw = p.candidate /\ Dormant(manifest.raw)
        /\ confirms' = [confirms EXCEPT ![r] = [NoConfirm EXCEPT !.pc = "already", !.proposal = p]]
        /\ UNCHANGED holder
     \/ /\ manifest.raw # p.candidate /\ ~ Bound(p)
        /\ confirms' = [confirms EXCEPT ![r].pc = "refused"]
        /\ UNCHANGED holder
     \/ /\ manifest.raw # p.candidate /\ Bound(p)
        /\ holder' = r
        /\ confirms' = [confirms EXCEPT ![r] = [pc |-> "stage", proposal |-> p,
                                                expected |-> manifest]]
  /\ UNCHANGED <<now, manifest, safe, files, draft, tally>>

Finish(r, pc) == To(r, pc) /\ holder' = 0

\* _write_manifest_candidate: the candidate is staged, then the manifest is
\* read again.
Stage(r) ==
  /\ confirms[r].pc = "stage"
  /\ \/ To(r, "check") /\ UNCHANGED <<holder, tally>>
     \/ Finish(r, "refused") /\ Fails
  /\ UNCHANGED <<now, manifest, safe, files, draft>>

Recheck(r) ==
  /\ confirms[r].pc = "check"
  /\ IF manifest = confirms[r].expected
     THEN To(r, "replace") /\ UNCHANGED holder
     ELSE Finish(r, "refused")
  /\ UNCHANGED <<now, manifest, safe, files, draft, tally>>

Replace(r) ==
  /\ confirms[r].pc = "replace"
  /\ \/ /\ manifest' = [raw |-> confirms[r].proposal.candidate, signature |-> tally.writes + 1]
        /\ tally' = [tally EXCEPT !.writes = @ + 1]
        /\ To(r, "sync")
        /\ UNCHANGED holder
     \/ Finish(r, "refused") /\ Fails /\ UNCHANGED manifest
  /\ UNCHANGED <<now, safe, files, draft>>

\* Mutant: the directory is not synchronised.
SyncSkipped(r) ==
  /\ confirms[r].pc = "sync"
  /\ To(r, "verify")
  /\ UNCHANGED <<now, manifest, safe, files, draft, holder, tally>>

\* The directory's fsync, which fails into manifest_commit_ambiguous.
SyncDirectory(r) ==
  /\ confirms[r].pc = "sync"
  /\ \/ safe' = manifest.raw /\ To(r, "verify") /\ UNCHANGED <<holder, tally>>
     \/ Finish(r, "ambiguous") /\ Fails /\ UNCHANGED safe
  /\ UNCHANGED <<now, manifest, files, draft>>

\* The last readings, here and in confirm.
VerifyFinal(r) ==
  /\ confirms[r].pc = "verify"
  /\ Finish(r, IF manifest.raw = confirms[r].proposal.candidate /\ Dormant(manifest.raw)
               THEN "confirmed" ELSE "ambiguous")
  /\ UNCHANGED <<now, manifest, safe, files, draft, tally>>

-----------------------------------------------------------------------------
(* The rest of the world *)

Pass == now < MaxTime /\ now' = now + 1 /\ UNCHANGED <<manifest, safe, files, draft, holder, confirms, tally>>

\* External: the owner edits the manifest (its rest, its authority, or by
\* taking the mission out again) or saves it as it is, which changes the
\* signature only. What was confirmed before is then no longer promised.
Edit ==
  /\ tally.edits < MaxEdits
  /\ tally' = [tally EXCEPT !.edits = @ + 1, !.writes = @ + 1]
  /\ \E raw \in {manifest.raw, [manifest.raw EXCEPT !.rest = tally.edits + 1],
                 [manifest.raw EXCEPT !.authority = "active"],
                 [manifest.raw EXCEPT !.mission = Undecided]} :
       /\ manifest' = [raw |-> raw, signature |-> tally.writes + 1]
       /\ safe' = raw
  /\ confirms' = [r \in Runs |->
       IF confirms[r].pc = "confirmed" THEN [confirms[r] EXCEPT !.pc = "past"] ELSE confirms[r]]
  /\ UNCHANGED <<now, files, draft, holder>>

\* External: the owner removes a proposal file, as one that was cut short
\* must be before its name can be used again.
Remove(n) ==
  /\ files[n] # NoFile /\ (draft # NoFile => draft.name # n)
  /\ files' = [files EXCEPT ![n] = NoFile]
  /\ UNCHANGED <<now, manifest, safe, draft, holder, confirms, tally>>

\* External: the process is killed, or the machine loses power.
Dead(c) == IF c.pc \in {"stage", "check", "replace", "sync", "verify"} THEN [c EXCEPT !.pc = "killed"] ELSE c
Kill ==
  /\ Fails
  /\ confirms' = [r \in Runs |-> Dead(confirms[r])]
  /\ holder' = 0 /\ draft' = NoFile
  /\ UNCHANGED <<now, manifest, safe, files>>
PowerLoss ==
  /\ Fails
  /\ confirms' = [r \in Runs |-> Dead(confirms[r])]
  /\ holder' = 0 /\ draft' = NoFile
  /\ manifest' = [manifest EXCEPT !.raw = safe]
  /\ UNCHANGED <<now, safe, files>>

MissionNext ==
  \/ \E n \in Names, m \in Missions : Propose(n, m)
  \/ \E n \in Names : Remove(n)
  \/ Written \/ Pass \/ Edit \/ Kill \/ PowerLoss
  \/ \E r \in Runs :
       \/ \E n \in Names : Confirm(r, n)
       \/ Stage(r) \/ Recheck(r) \/ Replace(r) \/ SyncDirectory(r) \/ VerifyFinal(r)

MissionSpec == MissionInit /\ [][MissionNext]_missionVars

-----------------------------------------------------------------------------
(* Properties *)

\* Files, runs and the lock have their kinds.
MissionTypeOK ==
  /\ holder \in 0 .. MaxRuns
  /\ \A n \in Names : files[n].kind \in {"none", "torn", "proposal"}
  /\ \A r \in Runs : confirms[r].pc \in {"stage", "check", "replace", "sync", "verify"} <=> holder = r

\* A mission reported as confirmed is on disk, and stays there through kills,
\* power failures and later confirmations, until the owner edits the manifest.
ConfirmedDurable ==
  \A r \in Runs : confirms[r].pc = "confirmed" =>
    manifest.raw = confirms[r].proposal.candidate /\ safe = manifest.raw

\* The manifest asks for nothing but an observer once a mission was adopted,
\* and only its owner changes that: no confirmation of an older proposal
\* brings back what was asked for before.
AdoptedObserver ==
  tally.edits = 0 /\ manifest.raw.mission # Undecided => Dormant(manifest.raw)

\* What a confirmation replaces is the manifest its proposal was written
\* against: an edit made before the manifest was read the last time is never
\* overwritten. (One made between that reading and the rename is.)
ReplacesReviewed ==
  \A r \in Runs : confirms[r].pc = "replace" =>
    confirms[r].expected.raw = confirms[r].proposal.base

\* What the mission workflow promises, all together.
MissionSafe == MissionTypeOK /\ ConfirmedDurable /\ AdoptedObserver /\ ReplacesReviewed

=============================================================================

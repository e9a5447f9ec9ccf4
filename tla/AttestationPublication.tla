------------------------ MODULE AttestationPublication ------------------------
(***************************************************************************)
(* From an adopted capture to public trust: coordinators verify a run,     *)
(* sign it into the archive of attestations, move the head, publish the    *)
(* trust projection and close the capture session, and reconcile what a    *)
(* failure left (orchestrator, attestor, trust projection and the adopted  *)
(* capture session). The archive and the projection are each written under *)
(* an exclusive lock, so a coordinator's turn in one of them is one step   *)
(* that may stop anywhere.                                                 *)
(***************************************************************************)
EXTENDS Integers, Sequences, FiniteSets

CONSTANTS
  Coordinators,
  Runs,          \* runs, named by the time they were qualified at
  Contents,      \* what captures of a run may differ in beyond the capture itself
  Life,          \* from qualification to expiry
  MaxFiles,      \* the limit of the archive
  Unset,         \* no attestation, no projection
  MaxTime, MaxCaptures, MaxKills, MaxFaults, MaxLosses    \* bounds

VARIABLES
  now,
  spent,         \* what was used up of the bounds
  archive,       \* the signed attestations, in sequence
  temp,          \* a link of the last attestation was not removed
  head,          \* the head file
  public,        \* the published projection
  durable,       \* what of these three survives a power loss
  co,            \* the coordinators: run_prepared_transaction or a reconciliation
  session,       \* the capture session a coordinator holds
  captures,      \* the adopted captures on disk
  aborted,       \* the captures whose session was told to abort
  pending,       \* pending-publication receipts
  cleanups,      \* committed-cleanup receipts
  committed      \* the results that say committed

files == <<archive, temp, head, public, durable>>
papers == <<pending, cleanups, committed>>
publicationVars == <<now, spent, files, co, session, captures, aborted, papers>>

PublicationConstants ==
  /\ Runs \subseteq Nat
  /\ {MaxFiles, Life, MaxCaptures} \subseteq Nat \ {0}
  /\ {MaxTime, MaxKills, MaxFaults, MaxLosses} \subseteq Nat

-----------------------------------------------------------------------------
(* Records *)

CaptureIds == 1 .. MaxCaptures

\* normalize_payload: what an attestation binds. Its digest is itself.
Attestation == [run : Runs, content : Contents, capture : CaptureIds, verified : 0 .. MaxTime]

\* normalize_public_head: a projection names its head and the one before.
Public == [seq : Nat, att : Attestation, prev : Attestation \cup {Unset}]

SessionStates ==
  {"capture_ready", "verification_active", "post_verifier_revalidation_failed",
   "signing_authorized", "cleanup_pending", "cleaned", "publication_completed",
   "publication_ambiguity_deferred", "aborted"}
Committed == {"cleanup_pending", "cleaned", "publication_completed"}
NoSession == [state |-> "none"]
Idle == [pc |-> "idle"]

\* normalize_pending_publication_receipt.
PendingReceipt == [requested : Attestation, capture : CaptureIds, cleaned : BOOLEAN]

\* normalize_committed_cleanup_receipt: the attestation is the head's.
CleanupReceipt ==
  [att : Attestation, capture : CaptureIds, both : BOOLEAN, public : Public]

PublicationTypeOK ==
  /\ now \in 0 .. MaxTime
  /\ spent \in [{"capture", "kill", "fault", "loss"} -> Nat]
  /\ archive \in Seq(Attestation) /\ temp \in BOOLEAN
  /\ head \in Attestation \cup {Unset} /\ public \in Public \cup {Unset}
  /\ \A c \in Coordinators :
       /\ co[c].pc \in {"idle", "captured", "verified", "recover", "signed", "project", "reconcile"}
       /\ session[c] # NoSession =>
            session[c].state \in SessionStates /\ session[c].capture \in CaptureIds
  /\ captures \in [CaptureIds -> {"none", "held", "destroyed", "deferred"}]
  /\ pending \subseteq PendingReceipt /\ cleanups \subseteq CleanupReceipt

PublicationInit ==
  /\ now = 0 /\ spent = [x \in {"capture", "kill", "fault", "loss"} |-> 0]
  /\ archive = <<>> /\ temp = FALSE /\ head = Unset /\ public = Unset
  /\ durable = [archive |-> <<>>, head |-> Unset, public |-> Unset]
  /\ co = [c \in Coordinators |-> Idle]
  /\ session = [c \in Coordinators |-> NoSession]
  /\ captures = [k \in CaptureIds |-> "none"]
  /\ aborted = {} /\ pending = {} /\ cleanups = {} /\ committed = {}

Spend(what) == spent' = [spent EXCEPT ![what] = @ + 1]
Left(what) ==
  CASE what = "kill" -> spent.kill < MaxKills
    [] what = "fault" -> spent.fault < MaxFaults
    [] OTHER -> spent.loss < MaxLosses

Tick ==
  /\ now < MaxTime /\ now' = now + 1
  /\ UNCHANGED <<spent, files, co, session, captures, aborted, papers>>

-----------------------------------------------------------------------------
(* The adopted capture session *)

\* complete_signing: the digest is fixed at the first call; from then on only
\* the cleanup of the lease (which may fail) is retried.
complete_signing(s, digest, ok) ==
  IF s.state \in Committed /\ s.signing # digest THEN [after |-> s, done |-> FALSE]
  ELSE IF s.state \in {"signing_authorized", "cleanup_pending"}
  THEN [after |-> [s EXCEPT !.state = IF ok THEN "cleaned" ELSE "cleanup_pending",
                            !.signing = digest],
        done |-> ok]
  ELSE [after |-> s, done |-> s.state \in Committed]

complete_publication(s, projection) ==
  IF s.state = "cleaned"
  THEN [after |-> [s EXCEPT !.state = "publication_completed", !.publication = projection],
        done |-> TRUE]
  ELSE [after |-> s,
        done |-> s.state = "publication_completed" /\ s.publication = projection]

\* abort, and close after it: past complete_signing it can only finish the
\* cleanup.
Abort(s, ok) ==
  [s EXCEPT !.state =
     CASE s.state = "cleanup_pending" /\ ok -> "cleaned"
       [] s.state \in Committed \cup {"publication_ambiguity_deferred", "aborted"} -> @
       [] OTHER -> IF ok THEN "aborted" ELSE @]

\* The lease of a session that came to these states was cleaned up.
CaptureAfter(s) ==
  [captures EXCEPT ![s.capture] =
     CASE s.state \in {"cleaned", "publication_completed", "aborted"} -> "destroyed"
       [] s.state = "publication_ambiguity_deferred" -> "deferred"
       [] OTHER -> @]

\* A lease cleanup, a handoff or a call that fails is a fault.
Tried(ok) == IF ok THEN UNCHANGED spent ELSE Left("fault") /\ Spend("fault")

-----------------------------------------------------------------------------
(* The archive of attestations and its head *)

Expires(r) == r + Life
Latest(a) == IF a = <<>> THEN Unset ELSE a[Len(a)]
Places(a, x) == {i \in DOMAIN a : a[i] = x}
SeqOf(x) == CHOOSE i \in Places(archive, x) : TRUE

\* _read_attestation_archive: one attestation per run, times increasing.
ArchiveVerifies ==
  \A i, j \in DOMAIN archive : i < j =>
    /\ archive[i].run # archive[j].run
    /\ archive[i].run < archive[j].run
    /\ archive[i].verified < archive[j].verified

\* _reconcile_head_with_archive: a head that is missing or behind is repaired,
\* a head the archive does not have is not.
Reconcilable == ArchiveVerifies /\ (head = Unset \/ Places(archive, head) # {})

\* _repair_interrupted_publications syncs the directory if it finds a link.
RepairLinks ==
  /\ temp' = FALSE
  /\ durable' = [durable EXCEPT !.archive = IF temp THEN archive ELSE @]

\* _replace_json_at writes the head of the latest attestation if it differs.
RepairHead ==
  /\ temp' = FALSE /\ head' = Latest(archive)
  /\ durable' = [durable EXCEPT
       !.archive = IF temp THEN archive ELSE @,
       !.head = IF head # Latest(archive) THEN Latest(archive) ELSE @]

\* The attestation of the same run, and whether it may stand for the evidence:
\* equivalent_verified_evidence_recapture ignores the capture and its times.
SameRun(e) == {i \in DOMAIN archive : archive[i].run = e.run}
Equivalent(x, e) == x.content = e.content

\* Mutant: a verification of the same time is taken for a later one.
PreflightSameTime(e) ==
  /\ now >= e.verified /\ now < Expires(e.run)
  /\ archive # <<>> => Latest(archive).run < e.run /\ Latest(archive).verified <= e.verified

\* _plan_verified_head_transition, and the capacity of the archive.
Preflight(e) ==
  /\ now >= e.verified /\ now < Expires(e.run)
  /\ archive # <<>> =>
       /\ Latest(archive).run < e.run
       /\ Latest(archive).verified < e.verified
CapacityLeft == Len(archive) < MaxFiles

\* What sign_and_publish_attestation decides before it asks for the key.
Decision(e) ==
  CASE ~Reconcilable -> "refused"
    [] SameRun(e) # {} ->
         IF \A i \in SameRun(e) : Equivalent(archive[i], e) THEN "found" ELSE "refused"
    [] Preflight(e) /\ CapacityLeft -> "sign"
    [] OTHER -> "refused"

Found(e) == archive[CHOOSE i \in SameRun(e) : TRUE]

-----------------------------------------------------------------------------
(* run_prepared_transaction: verification *)

Go(c, pc) == co' = [co EXCEPT ![c].pc = pc]
Return(c) == co' = [co EXCEPT ![c] = Idle]

\* A capture was launched, adopted and handed to a coordinator.
Capture(c, r) ==
  LET k == spent.capture + 1 IN
  /\ co[c].pc = "idle" /\ session[c] = NoSession
  /\ k \in CaptureIds /\ now >= r
  /\ Spend("capture")
  /\ co' = [co EXCEPT ![c] = [pc |-> "captured", run |-> r]]
  /\ session' = [session EXCEPT ![c] = [state |-> "capture_ready", capture |-> k,
                                        signing |-> Unset, publication |-> Unset]]
  /\ captures' = [captures EXCEPT ![k] = "held"]
  /\ UNCHANGED <<now, files, aborted, papers>>

\* Where a check that fails leaves the session.
SessionRefused == "capture_ready"                        \* _validate_session
ControlsChanged == "capture_ready"                       \* _control_revalidation
RequestRefused == "capture_ready"                        \* build_verifier_request
VerifierFailed == "verification_active"                  \* _parse_verifier_result
EvidenceRefused == "verification_active"                 \* _assert_evidence_binding
SourcesChanged == "post_verifier_revalidation_failed"    \* complete_verification
RevalidationUnbound == "signing_authorized"              \* _bind_source_revalidation_receipt
ClockRolledBack == "signing_authorized"
Refusals == {SessionRefused, ControlsChanged, RequestRefused, VerifierFailed,
             EvidenceRefused, SourcesChanged, RevalidationUnbound, ClockRolledBack}

\* The evidence is signed with the time of the live sources' revalidation.
Verify(c, content) ==
  /\ co[c].pc = "captured"
  /\ session' = [session EXCEPT ![c].state = "signing_authorized"]
  /\ co' = [co EXCEPT ![c] = [pc |-> "verified",
              evidence |-> [run |-> co[c].run, content |-> content,
                            capture |-> session[c].capture, verified |-> now]]]
  /\ UNCHANGED <<now, spent, files, captures, aborted, papers>>

\* An exception before anything could have been signed ends in abort and close.
Refuse(c, where, ok) ==
  LET s == Abort([session[c] EXCEPT !.state = where], ok) IN
  /\ co[c].pc = "captured" /\ Tried(ok)
  /\ session' = [session EXCEPT ![c] = s]
  /\ captures' = CaptureAfter(s)
  /\ aborted' = aborted \cup {s.capture}
  /\ Return(c)
  /\ UNCHANGED <<now, files, papers>>

-----------------------------------------------------------------------------
(* Failures *)

\* What is left of the files when the power goes: the durable ones.
Powered(d) == archive' = d.archive /\ head' = d.head /\ public' = d.public /\ durable' = d

Die(c) ==
  /\ co' = [co EXCEPT ![c] = Idle]
  /\ session' = [session EXCEPT ![c] = NoSession]

AllDie ==
  /\ co' = [x \in Coordinators |-> Idle]
  /\ session' = [x \in Coordinators |-> NoSession]

Kill(c) ==
  /\ (co[c].pc # "idle" \/ session[c] # NoSession) /\ Left("kill") /\ Spend("kill")
  /\ Die(c)
  /\ UNCHANGED <<now, files, captures, aborted, papers>>

PowerLoss ==
  /\ Left("loss") /\ Spend("loss")
  /\ Powered(durable) /\ temp' = FALSE
  /\ AllDie
  /\ UNCHANGED <<now, captures, aborted, papers>>

-----------------------------------------------------------------------------
(* Signing *)

\* An archived attestation of the run answers for the evidence.
SignFound(c) ==
  LET e == co[c].evidence IN
  /\ co[c].pc = "verified" /\ Decision(e) = "found"
  /\ RepairHead
  /\ co' = [co EXCEPT ![c] = [pc |-> "signed", evidence |-> e, requested |-> Found(e)]]
  /\ UNCHANGED <<now, spent, archive, public, session, captures, aborted, papers>>

SignRefused(c) ==
  /\ co[c].pc = "verified" /\ Decision(co[c].evidence) = "refused"
  /\ RepairLinks /\ Go(c, "recover")
  /\ UNCHANGED <<now, spent, archive, head, public, session, captures, aborted, papers>>

\* The key is loaded, the attestation signed and linked, the head moved.
SignNew(c) ==
  LET e == co[c].evidence
      a == Append(archive, e)
  IN
  /\ co[c].pc = "verified" /\ Decision(e) = "sign"
  /\ archive' = a /\ temp' = FALSE /\ head' = e
  /\ durable' = [durable EXCEPT !.archive = a, !.head = e]
  /\ co' = [co EXCEPT ![c] = [pc |-> "signed", evidence |-> e, requested |-> e]]
  /\ UNCHANGED <<now, spent, public, session, captures, aborted, papers>>

\* _publish_immutable_at and _replace_json_at, stopped: before the link, at the
\* link, before the directory is synced, before the head, before it is synced.
Stopped(a, where) ==
  /\ archive' = IF where = "key" THEN archive ELSE a
  /\ temp' = (where = "link")
  /\ head' = IF where = "rename" THEN Latest(a) ELSE head
  /\ durable' = [durable EXCEPT !.archive = IF where \in {"head", "rename"} THEN a
                                            ELSE IF temp THEN archive ELSE @]

\* An error is answered by the handler of run_prepared_transaction; it unlinks
\* the temporary link itself.
SignFails(c, where) ==
  /\ co[c].pc = "verified" /\ Decision(co[c].evidence) = "sign"
  /\ where # "link" /\ Left("fault") /\ Spend("fault")
  /\ Stopped(Append(archive, co[c].evidence), where)
  /\ Go(c, "recover")
  /\ UNCHANGED <<now, public, session, captures, aborted, papers>>

SignKilled(c, where) ==
  /\ co[c].pc = "verified" /\ Decision(co[c].evidence) = "sign"
  /\ Left("kill") /\ Spend("kill")
  /\ Stopped(Append(archive, co[c].evidence), where)
  /\ Die(c)
  /\ UNCHANGED <<now, public, captures, aborted, papers>>

\* The power goes in between: the link is durable or not, and so is the head.
SignLost(c, where) ==
  LET e == co[c].evidence IN
  /\ co[c].pc = "verified" /\ Decision(e) = "sign" /\ where \in {"unlink", "head"}
  /\ Left("loss") /\ Spend("loss")
  /\ Powered([durable EXCEPT !.archive = Append(archive, e),
                             !.head = IF where = "head" THEN @ ELSE e])
  /\ temp' = FALSE
  /\ AllDie
  /\ UNCHANGED <<now, captures, aborted, papers>>

-----------------------------------------------------------------------------
(* Recovery from a failed signing *)

\* The cleanup after a proven signature, tried once more, and the receipt that
\* lets anyone finish the publication.
PendPublication(c, requested, ok) ==
  LET done == complete_signing(session[c], requested, ok) IN
  /\ session' = [session EXCEPT ![c] = done.after]
  /\ captures' = CaptureAfter(done.after)
  /\ pending' = pending \cup {[requested |-> requested, capture |-> session[c].capture,
                               cleaned |-> done.done]}
  /\ Return(c)

\* _reconcile_sign_attempt_without_key found the attestation.
RecoverFound(c, ok) ==
  LET e == co[c].evidence IN
  /\ co[c].pc = "recover" /\ Decision(e) = "found" /\ Tried(ok)
  /\ RepairHead
  /\ PendPublication(c, Found(e), ok)
  /\ UNCHANGED <<now, archive, public, aborted, cleanups, committed>>

\* It would have needed the key: nothing was signed.
RecoverUnsigned(c, ok) ==
  LET s == Abort(session[c], ok) IN
  /\ co[c].pc = "recover" /\ Decision(co[c].evidence) = "sign" /\ Tried(ok)
  /\ session' = [session EXCEPT ![c] = s]
  /\ captures' = CaptureAfter(s)
  /\ aborted' = aborted \cup {s.capture}
  /\ RepairLinks /\ Return(c)
  /\ UNCHANGED <<now, archive, head, public, papers>>

\* _ambiguous_publication_result: the capture is handed to recovery, or, when
\* the handoff fails, left in the session.
RecoverAmbiguous(c, ok) ==
  LET s == [session[c] EXCEPT !.state = IF ok THEN "publication_ambiguity_deferred" ELSE @] IN
  /\ co[c].pc = "recover"
  /\ \/ Decision(co[c].evidence) = "refused" /\ Tried(ok)
     \/ Left("fault") /\ Spend("fault")
  /\ session' = [session EXCEPT ![c] = s]
  /\ captures' = CaptureAfter(s)
  /\ RepairLinks /\ Return(c)
  /\ UNCHANGED <<now, archive, head, public, aborted, papers>>

-----------------------------------------------------------------------------
(* After signing: the authoritative head, the session and the projection *)

Authority == [seq |-> Len(archive), att |-> Latest(archive),
              prev |-> IF Len(archive) > 1 THEN archive[Len(archive) - 1] ELSE Unset]

\* read_attestation_chain_tip repairs and returns the newest attestation.
Tip(c) ==
  LET done == complete_signing(session[c], co[c].requested, TRUE) IN
  /\ co[c].pc = "signed" /\ Reconcilable
  /\ RepairHead
  /\ session' = [session EXCEPT ![c] = done.after]
  /\ captures' = CaptureAfter(done.after)
  /\ co' = [co EXCEPT ![c] = [pc |-> "project", requested |-> co[c].requested,
                              capture |-> session[c].capture, authority |-> Authority]]
  /\ UNCHANGED <<now, spent, archive, public, aborted, papers>>

\* The tip cannot be read or the lease not be cleaned up; the handler tries to
\* clean up again.
TipFails(c, ok) ==
  /\ co[c].pc = "signed"
  /\ \/ ~Reconcilable /\ Tried(ok)
     \/ Left("fault") /\ Spend("fault")
  /\ PendPublication(c, co[c].requested, ok)
  /\ UNCHANGED <<now, files, aborted, cleanups, committed>>

\* build_projection and verify_projection: the head must be current.
Current(p) == now >= p.att.verified /\ now < Expires(p.att.run)
SameHead(p) == public # Unset /\ public.seq = p.seq /\ public.att = p.att

\* publish_projection: never back, never past one, on the same chain.
Follows(p) ==
  public # Unset =>
    /\ p.seq = public.seq + 1 /\ p.prev = public.att
    /\ public.att.run < p.att.run
    /\ public.att.verified < p.att.verified

Publishable(p) == Current(p) /\ (SameHead(p) \/ Follows(p))

\* The rename, and the sync of the directory after it. When the sync fails the
\* readback finds the projection and the publication counts.
Replace(p, synced) ==
  /\ public' = IF SameHead(p) THEN public ELSE p
  /\ durable' = [durable EXCEPT !.public = IF synced /\ ~SameHead(p) THEN p ELSE @]

Result(requested, p) == [requested |-> requested, seq |-> p.seq, att |-> p.att]

CleanupOf(p, k, both) == [att |-> p.att, capture |-> k, both |-> both, public |-> p]

\* The projection is public; complete_publication may still be interrupted.
Project(c, synced, told) ==
  LET p == co[c].authority
      done == complete_publication(session[c], p)
  IN
  /\ co[c].pc = "project" /\ Publishable(p)
  /\ Replace(p, synced) /\ Tried(synced /\ told)
  /\ committed' = committed \cup {Result(co[c].requested, p)}
  /\ IF told
     THEN session' = [session EXCEPT ![c] = done.after] /\ UNCHANGED cleanups
     ELSE /\ cleanups' = cleanups \cup {CleanupOf(p, co[c].capture, FALSE)}
          /\ UNCHANGED session
  /\ Return(c)
  /\ UNCHANGED <<now, archive, temp, head, captures, aborted, pending>>

\* It is refused, or fails before the rename: a pending receipt.
ProjectFails(c) ==
  /\ co[c].pc = "project"
  /\ \/ ~Publishable(co[c].authority) /\ UNCHANGED spent
     \/ Left("fault") /\ Spend("fault")
  /\ PendPublication(c, co[c].requested, TRUE)
  /\ UNCHANGED <<now, files, aborted, cleanups, committed>>

\* The power goes with the rename on disk.
ProjectLost(c) ==
  LET p == co[c].authority IN
  /\ co[c].pc \in {"project", "reconcile"} /\ Publishable(p) /\ Left("loss") /\ Spend("loss")
  /\ Powered([durable EXCEPT !.public = IF SameHead(p) THEN @ ELSE p])
  /\ temp' = FALSE
  /\ AllDie
  /\ UNCHANGED <<now, captures, aborted, papers>>

-----------------------------------------------------------------------------
(* reconcile_pending_publication *)

\* _matching_archive_entry: the receipt's attestation is still archived.
Reconcile(c, r) ==
  /\ co[c].pc = "idle" /\ r \in pending /\ Reconcilable
  /\ archive # <<>> /\ Places(archive, r.requested) # {}
  /\ RepairHead
  /\ co' = [co EXCEPT ![c] = [pc |-> "reconcile", receipt |-> r, authority |-> Authority]]
  /\ UNCHANGED <<now, spent, archive, public, session, captures, aborted, papers>>

\* _publication_cleanup_result: with the session, without it, or when there is
\* nothing to clean up.
ReconcileProject(c, synced, ok) ==
  LET p == co[c].authority
      r == co[c].receipt
      signing == complete_signing(session[c], r.requested, ok)
      publishing == complete_publication(signing.after, p)
      held == session[c] # NoSession /\ session[c].capture = r.capture
  IN
  /\ co[c].pc = "reconcile" /\ Publishable(p)
  /\ Replace(p, synced) /\ Tried(synced /\ ok)
  /\ committed' = committed \cup {Result(r.requested, p)}
  /\ pending' = pending \ {r}
  /\ IF ~r.cleaned /\ held
     THEN LET s == IF signing.done THEN publishing.after ELSE signing.after IN
          /\ session' = [session EXCEPT ![c] = s]
          /\ captures' = CaptureAfter(s)
     ELSE UNCHANGED <<session, captures>>
  /\ cleanups' = IF r.cleaned \/ (held /\ signing.done /\ publishing.done) THEN cleanups
                 ELSE cleanups \cup {CleanupOf(p, r.capture, TRUE)}
  /\ Return(c)
  /\ UNCHANGED <<now, archive, temp, head, aborted>>

\* The receipt stays, whatever its refreshed state says.
ReconcileFails(c) ==
  /\ co[c].pc = "reconcile"
  /\ \/ ~Publishable(co[c].authority) /\ UNCHANGED spent
     \/ Left("fault") /\ Spend("fault")
  /\ Return(c)
  /\ UNCHANGED <<now, files, session, captures, aborted, papers>>

\* reconcile_committed_cleanup, by the holder of the session.
CleanUp(c, k, ok) ==
  LET signing == IF k.both THEN complete_signing(session[c], k.att, ok)
                 ELSE [after |-> session[c], done |-> TRUE]
      publishing == complete_publication(signing.after, k.public)
      s == IF signing.done THEN publishing.after ELSE signing.after
  IN
  /\ co[c].pc = "idle" /\ k \in cleanups /\ Tried(ok)
  /\ session[c] # NoSession /\ session[c].capture = k.capture
  /\ session' = [session EXCEPT ![c] = s]
  /\ captures' = CaptureAfter(s)
  /\ cleanups' = IF signing.done /\ publishing.done THEN cleanups \ {k} ELSE cleanups
  /\ UNCHANGED <<now, files, co, aborted, pending, committed>>

\* The caller lets go of the session: close, or its finalizer.
Close(c, ok) ==
  LET s == Abort(session[c], ok) IN
  /\ co[c].pc = "idle" /\ session[c] # NoSession /\ Tried(ok)
  /\ captures' = CaptureAfter(s)
  /\ session' = [session EXCEPT ![c] = NoSession]
  /\ UNCHANGED <<now, files, co, aborted, papers>>

-----------------------------------------------------------------------------

Stops == {"key", "link", "unlink", "head", "rename"}

PublicationNext ==
  \/ Tick \/ PowerLoss
  \/ \E c \in Coordinators :
       \/ \E r \in Runs : Capture(c, r)
       \/ \E x \in Contents : Verify(c, x)
       \/ SignFound(c) \/ SignRefused(c) \/ SignNew(c) \/ Tip(c)
       \/ \E w \in Stops : SignFails(c, w) \/ SignKilled(c, w) \/ SignLost(c, w)
       \/ ProjectFails(c) \/ ProjectLost(c) \/ ReconcileFails(c) \/ Kill(c)
       \/ \E r \in pending : Reconcile(c, r)
       \/ \E ok \in BOOLEAN :
            \/ \E w \in Refusals : Refuse(c, w, ok)
            \/ RecoverFound(c, ok) \/ RecoverUnsigned(c, ok) \/ RecoverAmbiguous(c, ok)
            \/ TipFails(c, ok) \/ Close(c, ok)
            \/ \E k \in cleanups : CleanUp(c, k, ok)
            \/ \E synced \in BOOLEAN : Project(c, synced, ok) \/ ReconcileProject(c, synced, ok)

PublicationSpec == PublicationInit /\ [][PublicationNext]_publicationVars

-----------------------------------------------------------------------------
(* Properties *)

\* "both the signed chain head and the public projection are durable": what a
\* committed result names is archived, and public at its place or later.
CommittedTrue ==
  \A k \in committed :
    /\ Places(archive, k.requested) # {}
    /\ k.seq \in DOMAIN archive /\ archive[k.seq] = k.att
    /\ public # Unset /\ public.seq >= k.seq

\* The public head is an attestation of the archive, which verifies: one per
\* run, although runs are captured again and coordinators race.
PublicOfChain ==
  /\ ArchiveVerifies
  /\ public # Unset => public.seq \in DOMAIN archive /\ archive[public.seq] = public.att

\* "Abort is no longer a truthful or permitted state transition": a run that was
\* answered as aborted was not signed from that capture.
AbortedUnsigned ==
  \A i \in DOMAIN archive : archive[i].capture \notin aborted

\* The evidence of a proven signature is what is destroyed: a session that was
\* told an attestation was told one that is in the archive.
ToldTrue ==
  \A c \in Coordinators :
    session[c] # NoSession /\ session[c].signing # Unset => Places(archive, session[c].signing) # {}

PublicationSafe ==
  PublicationTypeOK /\ CommittedTrue /\ PublicOfChain /\ AbortedUnsigned /\ ToldTrue

\* "so a crash after signing but before trust publication can be repaired": the
\* newest attestation is published or may follow the published one.
TrustRepairable ==
  archive # <<>> => SameHead(Authority) \/ Follows(Authority)

=============================================================================

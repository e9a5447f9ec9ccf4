---------------------------- MODULE OpaqueCapture ----------------------------
(***************************************************************************)
(* The opaque capture of live evidence                                     *)
(* (john_lomein_persona_qualification_opaque_capture.py), the confined     *)
(* child that takes it (.._capture_child.py) and the coordinator that      *)
(* launches and commands the child (.._capture_helper.py).                 *)
(*                                                                         *)
(* A session is one launch. With Protocol "v1" the child keeps the lease   *)
(* of its capture, a flock on the parent directory all sessions share, and *)
(* serves the coordinator's commands until publication; an orphan is       *)
(* reaped by the recovery at the next launch. With "v2" every session has  *)
(* a staging leaf of its own, the child hands its capture over and exits,  *)
(* and the coordinator adopts it (CaptureStaging and CaptureAdoption model *)
(* the leaf and the adoption).                                             *)
(*                                                                         *)
(* The live evidence is a directory and its files. Everything has an       *)
(* identity (device, inode, times, digest) that a change replaces by one   *)
(* never seen before; 0 is a file that does not exist.                     *)
(***************************************************************************)
EXTENDS Integers, FiniteSets

CONSTANTS
  Files,       \* the names the evidence directory may hold, numbered in name order
  Protocol,    \* LEGACY_PROTOCOL_SCHEMA "v1", HANDOFF_PROTOCOL_SCHEMA "v2"
  MaxSlots,    \* lifecycle.max_capture_slots
  MaxSessions, MaxEdits,
  MaxFaults    \* failures, kills and deaths together

CaptureConstants ==
  /\ Files \subseteq Nat \ {0} /\ IsFiniteSet(Files)
  /\ Protocol \in {"v1", "v2"}
  /\ {MaxSlots, MaxSessions} \subseteq Nat \ {0}
  /\ {MaxEdits, MaxFaults} \subseteq Nat

Sessions == 1 .. MaxSessions

VARIABLES
  live,      \* the evidence: the directory's identity and each file's
  slot,      \* the capture directory of each session
  lock,      \* the session holding the parent's flock, 0 if none
  child,     \* each session's child process
  todo,      \* files its present walk has still to visit
  coord,     \* each session's coordinator
  frames,    \* the command and the event under way on its two pipes
  instant,   \* the evidence when a child had copied its last file
  gate,      \* the evidence when the walk before the signature began
  used       \* edits and faults so far

captureVars == <<live, slot, lock, child, todo, coord, frames, instant, gate, used>>

\* COMMAND_TRANSITIONS: required state, next state (which is also the event
\* for all but the first).
Transition ==
  [begin_verification |-> <<"capture_ready", "verification_active">>,
   complete_verification |-> <<"verification_active", "signing_authorized">>,
   complete_signing |-> <<"signing_authorized", "publication_authorized">>,
   complete_publication |-> <<"publication_authorized", "cleaned">>]
Commands == DOMAIN Transition

NoFiles == [f \in Files |-> 0]
NoManifest == [dir |-> 0, file |-> NoFiles]
NoSlot == [name |-> "none", mode |-> "none", dir |-> 0, file |-> NoFiles, manifest |-> NoManifest]
NoFrames == [command |-> "none", event |-> "none"]

CaptureInit ==
  /\ live = [dir |-> 0, file |-> [f \in Files |-> IF f = 1 THEN 1 ELSE 0]]
  /\ slot = [s \in Sessions |-> NoSlot]
  /\ lock = 0
  /\ child = [s \in Sessions |-> [pc |-> "off", ok |-> FALSE]]
  /\ todo = [s \in Sessions |-> {}]
  /\ coord = [s \in Sessions |-> [pc |-> "off", state |-> "none", after |-> "none", victim |-> 0]]
  /\ frames = [s \in Sessions |-> NoFrames]
  /\ instant = [s \in Sessions |-> live] /\ gate = [s \in Sessions |-> live]
  /\ used = [edits |-> 1, faults |-> 0]

Fault == used.faults < MaxFaults /\ used' = [used EXCEPT !.faults = @ + 1]
Present(files) == {f \in Files : files[f] # 0}
NextFile(s) == CHOOSE f \in todo[s] : \A g \in todo[s] : f <= g
Slots == {s \in Sessions : slot[s] # NoSlot}
Running(s) == child[s].pc \notin {"off", "exited"}
ToChild(s, pc) == child' = [child EXCEPT ![s].pc = pc]
ToCoord(s, pc) == coord' = [coord EXCEPT ![s].pc = pc]

-----------------------------------------------------------------------------
(* The evidence changes under the capture *)

\* External: a file is rewritten in place, or created, replaced or removed,
\* which changes its directory too.
Edit ==
  /\ used.edits <= MaxEdits
  /\ LET v == used.edits + 1 IN
     /\ used' = [used EXCEPT !.edits = v]
     /\ \E f \in Files :
          \/ live.file[f] # 0 /\ live' = [live EXCEPT !.file[f] = v]
          \/ live' = [live EXCEPT !.file[f] = v, !.dir = v]
          \/ live.file[f] # 0 /\ live' = [live EXCEPT !.file[f] = 0, !.dir = v]
  /\ UNCHANGED <<slot, lock, child, todo, coord, frames, instant, gate>>

-----------------------------------------------------------------------------
(* The child *)

\* The process is gone and its descriptors, the lock among them, are closed.
\* A child that sent no answer leaves an end of file on the pipe.
Exit(s, ok) ==
  /\ child' = [child EXCEPT ![s] = [pc |-> "exited", ok |-> ok]]
  /\ lock' = IF lock = s THEN 0 ELSE lock
  /\ todo' = [todo EXCEPT ![s] = {}]

\* Mutant: the lock is only taken for the admission.
AdmitUnlocked(s) ==
  /\ child[s].pc = "admit" /\ lock = 0
  /\ slot' = [slot EXCEPT ![s] = [NoSlot EXCEPT !.name = "building", !.mode = "open"]]
  /\ ToChild(s, "scan")
  /\ UNCHANGED <<live, lock, todo, coord, frames, instant, gate, used>>

\* The admission of _capture_opaque_snapshot_from_plan: the lock, a free
\* slot, the directory.
Admit(s) ==
  /\ child[s].pc = "admit"
  /\ Protocol = "v1" => lock = 0 /\ Cardinality(Slots) < MaxSlots
  /\ lock' = IF Protocol = "v1" THEN s ELSE lock
  /\ slot' = [slot EXCEPT ![s] = [NoSlot EXCEPT !.name = "building", !.mode = "open"]]
  /\ ToChild(s, "scan")
  /\ UNCHANGED <<live, todo, coord, frames, instant, gate, used>>

\* admission_busy, slot_count_exceeded, or the sources do not pass.
Refused(s) ==
  /\ child[s].pc = "admit"
  /\ \/ Protocol = "v1" /\ (lock # 0 \/ Cardinality(Slots) >= MaxSlots) /\ UNCHANGED used
     \/ Fault
  /\ Exit(s, FALSE)
  /\ frames' = [frames EXCEPT ![s].event = "error"]
  /\ UNCHANGED <<live, slot, coord, instant, gate>>

\* _directory_before
DirectoryBefore(s) ==
  /\ child[s].pc = "scan"
  /\ slot' = [slot EXCEPT ![s].dir = live.dir]
  /\ todo' = [todo EXCEPT ![s] = Present(live.file)]
  /\ ToChild(s, "copy")
  /\ UNCHANGED <<live, lock, coord, frames, instant, gate, used>>

\* _stable_open_source_file and _write_evidence_file for the next entry.
CopyFile(s) ==
  /\ child[s].pc = "copy" /\ todo[s] # {}
  /\ LET f == NextFile(s) IN
     /\ live.file[f] # 0
     /\ slot' = [slot EXCEPT ![s].file[f] = live.file[f]]
     /\ todo' = [todo EXCEPT ![s] = @ \ {f}]
  /\ UNCHANGED <<live, lock, child, coord, frames, instant, gate, used>>

\* _record_stable_directory
StableDirectory(s) ==
  /\ child[s].pc = "copy" /\ todo[s] = {}
  /\ live.dir = slot[s].dir
  /\ todo' = [todo EXCEPT ![s] = Present(slot[s].file)]
  /\ instant' = [instant EXCEPT ![s] = live]
  /\ ToChild(s, "check")
  /\ UNCHANGED <<live, slot, lock, coord, frames, gate, used>>

\* What the builder wrote down (source_directory_manifest and files), which
\* becomes the manifest.
Inventory(s) == [dir |-> slot[s].dir, file |-> slot[s].file]
Recorded(s) == IF child[s].pc = "check" THEN Inventory(s) ELSE slot[s].manifest

\* _revalidate_one_source_file for the next file on record.
SameFile(s) ==
  /\ todo[s] # {}
  /\ live.file[NextFile(s)] = Recorded(s).file[NextFile(s)]
  /\ todo' = [todo EXCEPT ![s] = @ \ {NextFile(s)}]

\* Mutant: the directory is not looked at again.
SameDirectoryUnread(s) == todo[s] = {}

\* The directory after its files, in revalidate_sources and
\* revalidate_live_opaque_sources.
SameDirectory(s) == todo[s] = {} /\ live.dir = Recorded(s).dir

\* The walk has met a change.
Differs(s) ==
  IF todo[s] = {} THEN live.dir # Recorded(s).dir
  ELSE live.file[NextFile(s)] # Recorded(s).file[NextFile(s)]

\* revalidate_sources
CheckFile(s) ==
  /\ child[s].pc \in {"check", "gate"}
  /\ SameFile(s)
  /\ UNCHANGED <<live, slot, lock, child, coord, frames, instant, gate, used>>

\* The manifest is written and the tree sealed, still under its building name.
Seal(s) ==
  /\ child[s].pc = "check" /\ SameDirectory(s)
  /\ slot' = [slot EXCEPT ![s].mode = "sealed", ![s].manifest = Inventory(s)]
  /\ ToChild(s, "publish")
  /\ UNCHANGED <<live, lock, todo, coord, frames, instant, gate, used>>

\* verify_sealed_opaque_capture: the published, sealed tree is what its
\* manifest says, nothing more and nothing less (_walk_sealed_inventory).
Sealed(s) ==
  /\ slot[s].name = "final" /\ slot[s].mode = "sealed"
  /\ Inventory(s) = slot[s].manifest

\* The rename, the verification and the answer: ready to serve, or, for a
\* handoff, one more walk over the sources before the answer.
Publish(s) ==
  /\ child[s].pc = "publish"
  /\ slot' = [slot EXCEPT ![s].name = "final"]
  /\ IF Protocol = "v1"
     THEN /\ ToChild(s, "serve")
          /\ frames' = [frames EXCEPT ![s].event = "capture_ready"]
          /\ UNCHANGED todo
     ELSE /\ ToChild(s, "gate")
          /\ todo' = [todo EXCEPT ![s] = Present(Recorded(s).file)]
          /\ UNCHANGED frames
  /\ UNCHANGED <<live, lock, coord, instant, gate, used>>

\* A walk that meets a change, or any other failure before the capture is
\* handed out, removes the directory before the error is told.
Undo(s) ==
  /\ child[s].pc \in {"scan", "copy", "check", "publish", "gate"}
  /\ frames[s].command = "none"
  /\ \/ /\ UNCHANGED used
        /\ \/ child[s].pc = "copy" /\ todo[s] # {} /\ live.file[NextFile(s)] = 0
           \/ child[s].pc = "copy" /\ todo[s] = {} /\ live.dir # slot[s].dir
           \/ child[s].pc \in {"check", "gate"} /\ Differs(s)
     \/ Fault
  /\ ToChild(s, "undo")
  /\ UNCHANGED <<live, slot, lock, todo, coord, frames, instant, gate>>

-----------------------------------------------------------------------------
(* The child serves (serve_protocol_with_lease); ProtocolMachine.accept takes *)
(* the only command the coordinator's own state lets it send.                 *)

\* Mutant: the gate before the key looks at the sealed tree only.
AcceptSealedOnly(s) ==
  LET c == frames[s].command IN
  /\ child[s].pc = "serve" /\ c \in Commands \ {"complete_publication"}
  /\ gate' = [gate EXCEPT ![s] = live]
  /\ frames' = [frames EXCEPT ![s] = [command |-> "none", event |-> Transition[c][2]]]
  /\ UNCHANGED <<live, slot, lock, child, todo, coord, instant, used>>

\* begin_verification and complete_signing verify the sealed tree.
Accept(s) ==
  LET c == frames[s].command IN
  /\ child[s].pc = "serve" /\ c \in {"begin_verification", "complete_signing"}
  /\ Sealed(s)
  /\ frames' = [frames EXCEPT ![s] = [command |-> "none", event |-> Transition[c][2]]]
  /\ UNCHANGED <<live, slot, lock, child, todo, coord, instant, gate, used>>

\* complete_verification: the gate before the private key, which walks the
\* live sources too.
OpenGate(s) ==
  /\ child[s].pc = "serve" /\ frames[s].command = "complete_verification"
  /\ Sealed(s)
  /\ gate' = [gate EXCEPT ![s] = live]
  /\ todo' = [todo EXCEPT ![s] = Present(Recorded(s).file)]
  /\ ToChild(s, "gate")
  /\ UNCHANGED <<live, slot, lock, coord, frames, instant, used>>

PassGate(s) ==
  /\ child[s].pc = "gate" /\ frames[s].command = "complete_verification"
  /\ SameDirectory(s)
  /\ frames' = [frames EXCEPT ![s] = [command |-> "none", event |-> "signing_authorized"]]
  /\ ToChild(s, "serve")
  /\ UNCHANGED <<live, slot, lock, todo, coord, instant, gate, used>>

\* A failed command is told first, and the lease cleaned up on the way out.
CommandFails(s) ==
  /\ child[s].pc \in {"serve", "gate"} /\ frames[s].command # "none"
  /\ \/ child[s].pc = "gate" /\ Differs(s) /\ UNCHANGED used
     \/ Fault
  /\ frames' = [frames EXCEPT ![s] = [command |-> "none", event |-> "error"]]
  /\ ToChild(s, "leave")
  /\ UNCHANGED <<live, slot, lock, todo, coord, instant, gate>>

\* complete_publication and abort remove the capture before they answer; so
\* does a child whose coordinator is gone (end of file), without an answer.
Finish(s) ==
  /\ child[s].pc = "serve"
  /\ \/ frames[s].command = "complete_publication" /\ Sealed(s) /\ ToChild(s, "clean")
     \/ frames[s].command = "abort" /\ ToChild(s, "abort")
     \/ coord[s].pc = "dead" /\ ToChild(s, "leave")
  /\ UNCHANGED <<live, slot, lock, todo, coord, frames, instant, gate, used>>

Removing == {"undo", "clean", "abort", "leave"}

\* _recursive_cleanup: the root becomes writable, its contents go.
Emptied(s) == slot' = [slot EXCEPT ![s].mode = "open", ![s].file = NoFiles]

RemoveTree(s) ==
  /\ child[s].pc \in Removing /\ slot[s].mode = "sealed"
  /\ Emptied(s)
  /\ UNCHANGED <<live, lock, child, todo, coord, frames, instant, gate, used>>

\* rmdir, the answer and the exit.
RemoveName(s) ==
  /\ child[s].pc \in Removing /\ slot[s].mode = "open"
  /\ slot' = [slot EXCEPT ![s] = NoSlot]
  /\ frames' = [frames EXCEPT ![s] =
       CASE child[s].pc = "undo" -> [command |-> "none", event |-> "error"]
         [] child[s].pc = "clean" -> [command |-> "none", event |-> "cleaned"]
         [] child[s].pc = "abort" -> [command |-> "none", event |-> "aborted"]
         [] OTHER -> frames[s]]
  /\ Exit(s, child[s].pc \in {"clean", "abort"})
  /\ UNCHANGED <<live, coord, instant, gate, used>>

\* serve_handoff_with_lease: the answer, then the descriptors are given up.
Stage(s) ==
  /\ Protocol = "v2" /\ child[s].pc = "gate" /\ SameDirectory(s)
  /\ frames' = [frames EXCEPT ![s].event = "capture_staged"]
  /\ ToChild(s, "relinquish")
  /\ UNCHANGED <<live, slot, lock, todo, coord, instant, gate, used>>

\* _relinquish_for_adoption; an fsync that fails keeps the lease, and the
\* capture already told of is removed.
Relinquish(s) ==
  /\ child[s].pc = "relinquish"
  /\ \/ Exit(s, TRUE) /\ UNCHANGED used
     \/ Fault /\ ToChild(s, "leave") /\ UNCHANGED <<lock, todo>>
  /\ UNCHANGED <<live, slot, coord, frames, instant, gate>>

\* The child is killed: out of memory, a signal, its own deadline cut short.
ChildDies(s) ==
  /\ Running(s) /\ Fault
  /\ Exit(s, FALSE)
  /\ UNCHANGED <<live, slot, coord, frames, instant, gate>>

-----------------------------------------------------------------------------
(* The coordinator: recovery of orphans *)

\* recover_stale_opaque_captures accepts a directory under its building name
\* with either mode, and a published one only while it is sealed.
Reapable(t) == slot[t].name = "building" \/ slot[t].mode = "sealed"

\* Where a recovery leads: to the child of a launch, or to the end of a
\* session that was terminated.
Onward(s) ==
  IF coord[s].after = "spawn"
  THEN /\ ToCoord(s, "launching") /\ ToChild(s, "admit")
  ELSE /\ ToCoord(s, "closed") /\ UNCHANGED child

\* _launch_validated_helper begins with a recovery that takes every orphan,
\* however young (force_orphans); _launch_validated_handoff makes its leaf.
Launch(s) ==
  /\ coord[s].pc = "off" /\ \A t \in 1 .. s - 1 : coord[t].pc # "off"
  /\ IF Protocol = "v1"
     THEN /\ coord' = [coord EXCEPT ![s].pc = "recover", ![s].after = "spawn"]
          /\ UNCHANGED child
     ELSE /\ ToCoord(s, "launching") /\ ToChild(s, "admit")
  /\ UNCHANGED <<live, slot, lock, todo, frames, instant, gate, used>>

\* Mutant: the recovery does not ask for the lock.
BeginRecoveryUnlocked(s) ==
  /\ coord[s].pc = "recover"
  /\ ToCoord(s, "reaping")
  /\ UNCHANGED <<live, slot, lock, child, todo, frames, instant, gate, used>>

\* A parent locked by somebody else is left alone.
BeginRecovery(s) ==
  /\ coord[s].pc = "recover"
  /\ IF lock = 0
     THEN lock' = s /\ ToCoord(s, "reaping") /\ UNCHANGED child
     ELSE Onward(s) /\ UNCHANGED lock
  /\ UNCHANGED <<live, slot, todo, frames, instant, gate, used>>

\* The entries come in the order of their random names.
Reap(s, t) ==
  /\ coord[s].pc = "reaping" /\ t \in Slots /\ Reapable(t)
  /\ Emptied(t)
  /\ coord' = [coord EXCEPT ![s].pc = "rmdir", ![s].victim = t]
  /\ UNCHANGED <<live, lock, child, todo, frames, instant, gate, used>>

ReapName(s) ==
  /\ coord[s].pc = "rmdir"
  /\ slot' = [slot EXCEPT ![coord[s].victim] = NoSlot]
  /\ coord' = [coord EXCEPT ![s].pc = "reaping", ![s].victim = 0]
  /\ UNCHANGED <<live, lock, child, todo, frames, instant, gate, used>>

\* recovery_entry_unsafe: the launch, or the end of the session, raises.
RecoveryFails(s) ==
  /\ coord[s].pc = "reaping" /\ \E t \in Slots : ~ Reapable(t)
  /\ lock' = 0
  /\ ToCoord(s, "closed")
  /\ UNCHANGED <<live, slot, child, todo, frames, instant, gate, used>>

Recovered(s) ==
  /\ coord[s].pc = "reaping" /\ Slots = {}
  /\ lock' = 0
  /\ Onward(s)
  /\ UNCHANGED <<live, slot, todo, frames, instant, gate, used>>

-----------------------------------------------------------------------------
(* The coordinator: the session *)

\* _terminate_and_recover: the child is killed and reaped; with "v2" what is
\* left in the leaf is the staging lease's business.
Terminate(s) ==
  /\ IF Running(s) THEN Exit(s, FALSE) ELSE UNCHANGED <<child, lock, todo>>
  /\ IF Protocol = "v1"
     THEN coord' = [coord EXCEPT ![s].pc = "recover", ![s].after = "closed"]
     ELSE ToCoord(s, "closed")
  /\ frames' = [frames EXCEPT ![s] = NoFrames]

\* The coordinator waits for an answer and gets an error or an end of file,
\* or its deadline passes.
GiveUp(s) ==
  /\ coord[s].pc \in {"launching", "asking", "reap"}
  /\ \/ frames[s].event = "error" /\ UNCHANGED used
     \/ ~ Running(s) /\ frames[s].event = "none" /\ coord[s].pc # "reap" /\ UNCHANGED used
     \/ Fault
  /\ Terminate(s)
  /\ UNCHANGED <<live, slot, instant, gate>>

\* capture_ready, or capture_staged for a handoff: its object is opened
\* before the child is waited for (retain_provisional_capture).
Ready(s) ==
  /\ coord[s].pc = "launching"
  /\ \/ /\ frames[s].event = "capture_ready"
        /\ coord' = [coord EXCEPT ![s].pc = "open", ![s].state = "capture_ready"]
     \/ /\ frames[s].event = "capture_staged" /\ slot[s].name = "final"
        /\ ToCoord(s, "reap")
  /\ frames' = [frames EXCEPT ![s].event = "none"]
  /\ UNCHANGED <<live, slot, lock, child, todo, instant, gate, used>>

\* Mutant: the capture is adopted whatever the child's exit.
AdoptAnyway(s) ==
  /\ coord[s].pc = "reap" /\ child[s].pc = "exited"
  /\ coord' = [coord EXCEPT ![s].pc = "open", ![s].state = "capture_ready"]
  /\ UNCHANGED <<live, slot, lock, child, todo, frames, instant, gate, used>>

\* reap_capture_child and _adopt_ready_capture: only a child that exited
\* cleanly lets its capture be adopted.
Adopt(s) ==
  /\ coord[s].pc = "reap" /\ child[s].pc = "exited"
  /\ IF child[s].ok
     THEN coord' = [coord EXCEPT ![s].pc = "open", ![s].state = "capture_ready"]
     ELSE ToCoord(s, "closed")
  /\ UNCHANGED <<live, slot, lock, child, todo, frames, instant, gate, used>>

\* CaptureHelperSession._command, first half. A session is aborted in any state.
Command(s, c) ==
  /\ Protocol = "v1" /\ coord[s].pc = "open"
  /\ c # "abort" => coord[s].state = Transition[c][1]
  /\ ToCoord(s, "asking")
  /\ frames' = [frames EXCEPT ![s].command = c]
  /\ UNCHANGED <<live, slot, lock, child, todo, instant, gate, used>>

\* Its second half; the last answer is followed by the wait for the child.
Answer(s) ==
  LET e == frames[s].event IN
  /\ coord[s].pc = "asking" /\ e \notin {"none", "error"}
  /\ coord' = [coord EXCEPT ![s].state = e,
                            ![s].pc = IF e \in {"cleaned", "aborted"} THEN "closed" ELSE "open"]
  /\ frames' = [frames EXCEPT ![s].event = "none"]
  /\ UNCHANGED <<live, slot, lock, child, todo, instant, gate, used>>

\* AdoptedCaptureSessionV2: the coordinator itself walks the live sources in
\* complete_verification; its adopted capture goes when the signature is
\* committed, when the walk fails and when the session is aborted.
BeginVerification(s) ==
  /\ Protocol = "v2" /\ coord[s].pc = "open" /\ coord[s].state = "capture_ready"
  /\ coord' = [coord EXCEPT ![s].state = "verification_active"]
  /\ UNCHANGED <<live, slot, lock, child, todo, frames, instant, gate, used>>

CompleteVerification(s) ==
  /\ Protocol = "v2" /\ coord[s].pc = "open" /\ coord[s].state = "verification_active"
  /\ gate' = [gate EXCEPT ![s] = live]
  /\ todo' = [todo EXCEPT ![s] = Present(Recorded(s).file)]
  /\ ToCoord(s, "walk")
  /\ UNCHANGED <<live, slot, lock, child, frames, instant, used>>

WalkFile(s) ==
  /\ coord[s].pc = "walk" /\ SameFile(s)
  /\ UNCHANGED <<live, slot, lock, child, coord, frames, instant, gate, used>>

WalkEnds(s) ==
  /\ coord[s].pc = "walk"
  /\ \/ /\ SameDirectory(s)
        /\ coord' = [coord EXCEPT ![s].pc = "open", ![s].state = "signing_authorized"]
        /\ UNCHANGED <<slot, todo>>
     \/ /\ Differs(s)
        /\ ToCoord(s, "closed")
        /\ slot' = [slot EXCEPT ![s] = NoSlot]
        /\ todo' = [todo EXCEPT ![s] = {}]
  /\ UNCHANGED <<live, lock, child, frames, instant, gate, used>>

CompleteSigning(s) ==
  /\ Protocol = "v2" /\ coord[s].pc = "open"
  /\ \/ /\ coord[s].state = "signing_authorized"
        /\ coord' = [coord EXCEPT ![s].pc = "closed", ![s].state = "cleaned"]
     \/ coord' = [coord EXCEPT ![s].pc = "closed", ![s].state = "aborted"]
  /\ slot' = [slot EXCEPT ![s] = NoSlot]
  /\ UNCHANGED <<live, lock, child, todo, frames, instant, gate, used>>

\* The coordinator dies. Linux kills the child with it (PDEATHSIG); on Darwin
\* the child lives on until it meets the closed pipe.
Die(s) ==
  /\ coord[s].pc \notin {"off", "closed", "dead"}
  /\ Fault
  /\ ToCoord(s, "dead")
  /\ frames' = [frames EXCEPT ![s] = NoFrames]
  /\ \/ Running(s) /\ Exit(s, FALSE)
     \/ /\ lock' = IF lock = s /\ ~ Running(s) THEN 0 ELSE lock
        /\ UNCHANGED <<child, todo>>
  /\ UNCHANGED <<live, slot, instant, gate>>

-----------------------------------------------------------------------------

ChildNext(s) ==
  \/ Admit(s) \/ Refused(s) \/ DirectoryBefore(s) \/ CopyFile(s) \/ StableDirectory(s)
  \/ CheckFile(s) \/ Seal(s) \/ Publish(s) \/ Undo(s)
  \/ Accept(s) \/ OpenGate(s) \/ PassGate(s) \/ CommandFails(s) \/ Finish(s)
  \/ RemoveTree(s) \/ RemoveName(s) \/ Stage(s) \/ Relinquish(s) \/ ChildDies(s)

CoordinatorNext(s) ==
  \/ Launch(s) \/ BeginRecovery(s) \/ ReapName(s) \/ RecoveryFails(s) \/ Recovered(s)
  \/ \E t \in Sessions : Reap(s, t)
  \/ GiveUp(s) \/ Ready(s) \/ Adopt(s)
  \/ \E c \in Commands \cup {"abort"} : Command(s, c)
  \/ Answer(s)
  \/ BeginVerification(s) \/ CompleteVerification(s) \/ WalkFile(s) \/ WalkEnds(s)
  \/ CompleteSigning(s) \/ Die(s)

CaptureNext == Edit \/ \E s \in Sessions : ChildNext(s) \/ CoordinatorNext(s)

CaptureSpec == CaptureInit /\ [][CaptureNext]_captureVars

-----------------------------------------------------------------------------
(* Properties *)

\* The slots, locks and states have their kinds, and the shared parent never
\* holds more captures than lifecycle.max_capture_slots.
CaptureTypeOK ==
  /\ lock \in 0 .. MaxSessions
  /\ \A s \in Sessions :
       /\ slot[s].name \in {"none", "building", "final"}
       /\ slot[s].mode \in {"none", "open", "sealed"}
       /\ todo[s] \subseteq Files
       /\ coord[s].state \in {"none", "capture_ready", "aborted"}
                               \cup {Transition[c][2] : c \in Commands}
       /\ frames[s].command \in Commands \cup {"none", "abort"}
  /\ Protocol = "v1" => Cardinality(Slots) <= MaxSlots

\* A published capture, and its manifest, are the evidence as it was at one moment, every file of
\* it and no other, although it was copied file by file while the evidence
\* changed (_record_stable_directory, revalidate_sources).
SnapshotTrue ==
  \A s \in Sessions :
    Sealed(s) => slot[s].dir = instant[s].dir /\ slot[s].file = instant[s].file

\* Where a signature is authorised, the evidence had not changed from the
\* capture until the walk after the verifier's exit ("every live source is
\* revalidated before the ACK").
SignedCurrent ==
  \A s \in Sessions :
    coord[s].state \in {"signing_authorized", "publication_authorized"} => gate[s] = instant[s]

\* As long as its child holds the lease, nobody else touches a capture:
\* recoveries of other sessions take every orphan regardless of age.
LeasedIntact ==
  \A s \in Sessions :
    /\ child[s].pc \in {"serve", "gate", "relinquish"} => Sealed(s)
    /\ Protocol = "v2" /\ coord[s].pc \in {"open", "walk"} => Sealed(s)
    /\ child[s].pc \in {"scan", "copy", "check", "publish"} => slot[s].name = "building"

\* After the answers cleaned and aborted the raw capture is gone.
CleanedGone ==
  \A s \in Sessions : coord[s].state \in {"cleaned", "aborted"} => slot[s] = NoSlot

\* What a capture promises, all together.
CaptureSafe == CaptureTypeOK /\ SnapshotTrue /\ SignedCurrent /\ LeasedIntact /\ CleanedGone

=============================================================================

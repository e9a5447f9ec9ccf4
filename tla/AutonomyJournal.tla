----------------------------- MODULE AutonomyJournal -----------------------------
(***************************************************************************)
(* The storage of the autonomy controls (scripts/john_lomein_autonomy.py): *)
(* a hash-chained journal with one file per UTC day, the archive it is     *)
(* rotated into, the checkpoint that anchors the archive, and the SQLite   *)
(* projection all decisions are read from.                                 *)
(*                                                                         *)
(* Callers take autonomy_lock for the whole of an operation; a step is     *)
(* what lies between two durable writes, and the holder can die after      *)
(* each. An event stands for its place in the chain. The projection is the *)
(* list of the events it was computed from: its digests, which are         *)
(* functions of that list, are left out.                                   *)
(***************************************************************************)
EXTENDS Naturals, FiniteSets, SequencesExt

CONSTANTS
  Callers,
  Sizes,        \* sizes of an event
  Target,       \* CHECKPOINT_BYTE_TARGET
  MaxDay, MaxEvents, MaxFaults   \* bounds

JournalConstants ==
  /\ Sizes \subseteq Nat /\ Target \in Nat
  /\ MaxDay \in Nat \ {0} /\ MaxEvents \in Nat /\ MaxFaults \in Nat

VARIABLES
  today,
  calls,        \* what each caller wants, with the day it read
  holder,       \* the operation that holds autonomy_lock
  files,        \* the journal, by day
  archive,      \* the generations on disk, each a copy of the files
  checkpoint,   \* checkpoint.json
  index,        \* control-index.sqlite3
  lines,        \* lines ever written; a line's number stands for its hash
  acked,        \* the events whose append has returned
  faults

storeVars == <<lines, files, archive, checkpoint, index>>
vars == <<today, calls, holder, storeVars, acked, faults>>

Days == 1 .. MaxDay
Zero == 0   \* ZERO_HASH

\* previous and id stand for the hashes.
Event == [sequence : 1 .. MaxEvents, id : 1 .. MaxEvents,
          previous : 0 .. MaxEvents, size : Sizes]

Segment(fs) == FlattenSeq([d \in Days |-> fs[d]])
NoFiles == [d \in Days |-> <<>>]
NoIndex == [present |-> FALSE, events |-> <<>>, generation |-> 0]

Idle == [pc |-> "idle", day |-> 1, size |-> 0]
Free == [pc |-> "free", caller |-> "none", event |-> 0]

Phases == {"free", "open", "index", "ready", "copy", "checkpoint", "unlink",
           "anchor", "write", "apply"}

JournalTypeOK ==
  /\ today \in Days
  /\ calls \in [Callers -> [pc : {"idle", "waiting"}, day : Days,
                            size : Sizes \cup {0}]]
  /\ holder \in [pc : Phases, caller : Callers \cup {"none"}, event : 0 .. MaxEvents]
  /\ files \in [Days -> Seq(Event)]
  /\ archive \in Seq([Days -> Seq(Event)])
  /\ checkpoint \in [generation : Nat, sequence : 0 .. MaxEvents,
                     head : 0 .. MaxEvents]
  /\ index \in [present : BOOLEAN, events : Seq(1 .. MaxEvents), generation : Nat]
  /\ lines \in 0 .. MaxEvents
  /\ acked \subseteq 1 .. MaxEvents
  /\ faults \in 0 .. MaxFaults

Init ==
  /\ today = 1
  /\ calls = [c \in Callers |-> Idle]
  /\ holder = Free
  /\ files = NoFiles
  /\ archive = <<>>
  /\ checkpoint = [generation |-> 0, sequence |-> 0, head |-> Zero]
  /\ index = NoIndex
  /\ lines = 0
  /\ acked = {}
  /\ faults = 0

-----------------------------------------------------------------------------
(* Reading the journal *)

\* _partition_active_files: files that the newest committed generation holds.
Residual == {d \in Days : /\ checkpoint.generation > 0
                          /\ files[d] # <<>>
                          /\ files[d] = archive[checkpoint.generation][d]}

Active == Segment([d \in Days |-> IF d \in Residual THEN <<>> ELSE files[d]])

\* _validate_event over _read_event_files: file after file, in the order of
\* the names.
Chained(events, sequence, head) ==
  \A i \in 1 .. Len(events) :
    /\ events[i].sequence = sequence + i
    /\ events[i].previous = IF i = 1 THEN head ELSE events[i - 1].id

Readable == Chained(Active, checkpoint.sequence, checkpoint.head)

Ids(events) == [i \in 1 .. Len(events) |-> events[i].id]

\* _read_archived_events_unlocked
Archived == FlattenSeq([g \in 1 .. checkpoint.generation |-> Segment(archive[g])])

\* _read_events_unlocked: what full verification and a rebuild see.
History == Archived \o Active

ChainHead == IF Active = <<>> THEN checkpoint.head ELSE Last(Active).id
NextSequence == checkpoint.sequence + Len(Active) + 1
Size(events) == FoldSeq(LAMBDA e, n : e.size + n, 0, events)

-----------------------------------------------------------------------------
(* Callers *)

\* Mutant: the day is taken from a clock ahead of UTC.
CallAhead(c) ==
  /\ calls[c].pc = "idle"
  /\ \E s \in Sizes : calls' = [calls EXCEPT ![c] = [pc |-> "waiting", day |-> today + 1,
                                                    size |-> s]]
  /\ UNCHANGED <<today, holder, storeVars, acked, faults>>

\* utc_now is read before autonomy_lock is taken.
Call(c) ==
  /\ calls[c].pc = "idle"
  /\ \E s \in Sizes : calls' = [calls EXCEPT ![c] = [pc |-> "waiting", day |-> today,
                                                    size |-> s]]
  /\ UNCHANGED <<today, holder, storeVars, acked, faults>>

Lock(c) ==
  /\ holder = Free /\ calls[c].pc = "waiting"
  /\ holder' = [pc |-> "open", caller |-> c, event |-> 0]
  /\ UNCHANGED <<today, calls, storeVars, acked, faults>>

Tick ==
  /\ today < MaxDay
  /\ today' = today + 1
  /\ UNCHANGED <<calls, holder, storeVars, acked, faults>>

Goto(pc) == holder' = [holder EXCEPT !.pc = pc]

\* The operation ends, with its result or an error, or its process dies.
Leave ==
  /\ holder' = Free
  /\ calls' = [calls EXCEPT ![holder.caller] = Idle]

Quiet == UNCHANGED <<today, acked, faults>>
Working == UNCHANGED calls /\ Quiet

-----------------------------------------------------------------------------
(* _open_current_control_index_unlocked *)

\* _cleanup_archived_residuals_unlocked, one file at a time.
Cleanup(d) ==
  /\ holder.pc = "open" /\ d \in Residual
  /\ files' = [files EXCEPT ![d] = <<>>]
  /\ UNCHANGED <<lines, archive, checkpoint, index, holder>> /\ Working

\* Mutant: an append does not wait for the residual files to go.
ReadJournalUncleaned ==
  /\ holder.pc = "open"
  /\ Readable
  /\ Goto("index")
  /\ UNCHANGED storeVars /\ Working

\* Mutant: a broken chain is read up to its last line.
ReadJournalBroken ==
  /\ holder.pc = "open" /\ Residual = {}
  /\ Goto("index")
  /\ UNCHANGED storeVars /\ Working

ReadJournal ==
  /\ holder.pc = "open" /\ Residual = {}
  /\ Readable
  /\ Goto("index")
  /\ UNCHANGED storeVars /\ Working

Unreadable ==
  /\ holder.pc = "open" /\ Residual = {}
  /\ ~ Readable
  /\ Leave
  /\ UNCHANGED storeVars /\ Quiet

\* The index stops at an event of the active segment or at the checkpoint,
\* with that event's hash, and knows the newest generation.
IndexFits ==
  LET n == Len(index.events) IN
  /\ index.present
  /\ n >= checkpoint.sequence /\ n <= Len(History)
  /\ index.events = SubSeq(Ids(History), 1, n)
  /\ index.generation = checkpoint.generation

\* One event of the suffix, one transaction.
CatchUp ==
  /\ holder.pc = "index"
  /\ IndexFits /\ Len(index.events) < Len(History)
  /\ index' = [index EXCEPT !.events = Append(@, History[Len(@) + 1].id)]
  /\ UNCHANGED <<lines, files, archive, checkpoint, holder>> /\ Working

\* _rebuild_control_index_unlocked: built beside the old one and renamed.
Rebuild ==
  /\ holder.pc = "index" /\ ~ IndexFits
  /\ index' = [present |-> TRUE, events |-> Ids(History),
               generation |-> checkpoint.generation]
  /\ UNCHANGED <<lines, files, archive, checkpoint, holder>> /\ Working

\* Mutant: an index that fits is taken as it is.
IndexReadyStale ==
  /\ holder.pc = "index"
  /\ IndexFits
  /\ Goto("ready")
  /\ UNCHANGED storeVars /\ Working

IndexReady ==
  /\ holder.pc = "index"
  /\ IndexFits /\ Len(index.events) = Len(History)
  /\ Goto("ready")
  /\ UNCHANGED storeVars /\ Working

\* The operation only reads, or is refused.
Answer ==
  /\ holder.pc = "ready"
  /\ Leave
  /\ UNCHANGED storeVars /\ Quiet

-----------------------------------------------------------------------------
(* _append_event_unlocked *)

Wanted == calls[holder.caller]

RotationDue == Active # <<>> /\ Size(Active) + Wanted.size > Target

Prepare ==
  /\ holder.pc = "ready"
  /\ lines < MaxEvents
  /\ Goto(IF RotationDue THEN "copy" ELSE "write")
  /\ UNCHANGED storeVars /\ Working

\* _archive_active_segment_unlocked: the copy appears under its name at once.
\* An orphan generation is reused if it is the same.
Copy ==
  /\ holder.pc = "copy"
  /\ \/ Len(archive) = checkpoint.generation /\ archive' = Append(archive, files)
     \/ /\ Len(archive) > checkpoint.generation
        /\ archive[checkpoint.generation + 1] = files
        /\ archive' = archive
  /\ Goto("checkpoint")
  /\ UNCHANGED <<lines, files, checkpoint, index>> /\ Working

\* "autonomy archive generation collision"
Collision ==
  /\ holder.pc = "copy"
  /\ Len(archive) > checkpoint.generation
  /\ archive[checkpoint.generation + 1] # files
  /\ Leave
  /\ UNCHANGED storeVars /\ Quiet

\* Mutant: the files go before the checkpoint names their copies.
CheckpointLate ==
  /\ holder.pc = "checkpoint"
  /\ \/ /\ files # NoFiles
        /\ \E d \in Days : files[d] # <<>> /\ files' = [files EXCEPT ![d] = <<>>]
        /\ UNCHANGED <<lines, checkpoint, holder>>
     \/ /\ files = NoFiles
        /\ LET copy == Segment(archive[checkpoint.generation + 1]) IN
           checkpoint' = [generation |-> checkpoint.generation + 1,
                          sequence |-> Last(copy).sequence, head |-> Last(copy).id]
        /\ Goto("anchor")
        /\ UNCHANGED files
  /\ UNCHANGED <<lines, archive, index>> /\ Working

Checkpoint ==
  /\ holder.pc = "checkpoint"
  /\ checkpoint' = [generation |-> checkpoint.generation + 1,
                    sequence |-> NextSequence - 1, head |-> ChainHead]
  /\ Goto("unlink")
  /\ UNCHANGED <<lines, files, archive, index>> /\ Working

Unlink ==
  /\ holder.pc = "unlink"
  /\ \E d \in Residual :
       /\ \A e \in Residual : d <= e
       /\ files' = [files EXCEPT ![d] = <<>>]
       /\ Goto(IF Residual = {d} THEN "anchor" ELSE "unlink")
  /\ UNCHANGED <<lines, archive, checkpoint, index>> /\ Working

\* _update_control_archive_anchor
Anchor ==
  /\ holder.pc = "anchor"
  /\ index' = [index EXCEPT !.generation = checkpoint.generation]
  /\ Goto("write")
  /\ UNCHANGED <<lines, files, archive, checkpoint>> /\ Working

\* The event binds the head it extends.
Line == [sequence |-> NextSequence, id |-> lines + 1, previous |-> ChainHead,
         size |-> Wanted.size]

\* The line goes to the file of the day the caller read.
Write ==
  /\ holder.pc = "write"
  /\ files' = [files EXCEPT ![Wanted.day] = Append(@, Line)]
  /\ lines' = lines + 1
  /\ holder' = [holder EXCEPT !.pc = "apply", !.event = Line.id]
  /\ UNCHANGED <<archive, checkpoint, index>> /\ Working

\* A short write is truncated again.
WriteFails ==
  /\ holder.pc = "write"
  /\ Leave
  /\ UNCHANGED storeVars /\ Quiet

\* _apply_control_event, and the operation returns.
Apply ==
  /\ holder.pc = "apply"
  /\ index' = [index EXCEPT !.events = Append(@, holder.event)]
  /\ acked' = acked \cup {holder.event}
  /\ Leave
  /\ UNCHANGED <<lines, files, archive, checkpoint, today, faults>>

-----------------------------------------------------------------------------
Die ==
  /\ faults < MaxFaults /\ faults' = faults + 1
  /\ holder # Free
  /\ Leave
  /\ UNCHANGED <<today, storeVars, acked>>

\* The index file is lost or damaged.
LoseIndex ==
  /\ faults < MaxFaults /\ faults' = faults + 1
  /\ holder = Free /\ index.present
  /\ index' = NoIndex
  /\ UNCHANGED <<today, calls, holder, lines, files, archive, checkpoint, acked>>

Next ==
  \/ \E c \in Callers : Call(c) \/ Lock(c)
  \/ \E d \in Days : Cleanup(d)
  \/ ReadJournal \/ Unreadable \/ CatchUp \/ Rebuild \/ IndexReady \/ Answer
  \/ Prepare \/ Copy \/ Collision \/ Checkpoint \/ Unlink \/ Anchor
  \/ Write \/ WriteFails \/ Apply
  \/ Die \/ LoseIndex \/ Tick

Spec == Init /\ [][Next]_vars

-----------------------------------------------------------------------------
(* Properties *)

(* An event whose append has returned is in the history exactly once,        *)
(* wherever rotations and deaths leave its copies, and the chain verifies.   *)
AckedKept ==
  \A n \in acked : Cardinality({i \in 1 .. Len(History) : History[i].id = n}) = 1

(* "idempotency, budgets, circuits, and effect reconciliation" are decided   *)
(* from the projection: when an operation reads it, it is the projection of  *)
(* the whole history, although lines, checkpoints and projection are written *)
(* one after the other.                                                      *)
IndexTrue ==
  holder.pc \in {"ready", "copy", "write"} => index.events = Ids(History)

(* "The full hash-chained JSONL archive remains authoritative for explicit   *)
(* verification and rebuilds": the journal the controls have written can be  *)
(* read back.                                                                *)
JournalVerifies == Chained(History, 0, Zero)

(* A journal that does not verify is never written to again: the controls     *)
(* fail closed and the evidence stays as it is, whoever was waiting for the  *)
(* lock.                                                                     *)
FailsClosedStep == ~ Readable => UNCHANGED <<files, archive, checkpoint>>

=============================================================================

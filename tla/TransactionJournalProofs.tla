------------------------ MODULE TransactionJournalProofs ------------------------
(***************************************************************************)
(* Proofs about the qualification transaction journal, for any sessions,   *)
(* any limits and any number of faults.                                    *)
(*                                                                         *)
(* A commit is three steps, and a kill, an I/O error or a power loss can   *)
(* fall between any two. The inductive invariant says what each of the     *)
(* steps may assume of the one before it: which directory it writes in,    *)
(* what lies there, and that the history it writes is valid.               *)
(***************************************************************************)
EXTENDS TransactionJournal, FiniteSetTheorems, SequenceTheorems, TLAPS

-----------------------------------------------------------------------------
(* The inductive invariant *)

\* What a commit for the caller by may add to h.
Legal(h, r, by) ==
  IF by = "reserve" THEN h = <<>> /\ r = [state |-> "reserved", mark |-> "none"]
  ELSE by # "none" /\ h # <<>> /\ ValidHistory(Append(h, r))

\* A process that is down holds nothing, and without a session there is
\* neither an operation nor a commit.
ProcessInv ==
  /\ ~ up => open = NoSession
  /\ open = NoSession => mem = <<>> /\ commit.at = "idle" /\ op = NoOperation
  /\ commit.at = "idle" => commit = NoCommit

\* Each step of a commit finds the directory as the step before it left it.
MkdirInv ==
  commit.at = "mkdir" =>
    /\ mem = <<>> /\ Active = {} /\ where[open] = "none"
    /\ commit.by = "reserve" /\ commit.record = NoCommit.record
TempInv ==
  commit.at = "temp" =>
    /\ where[open] = "active" /\ files[open] = mem /\ temps[open] <= MaxTemps
    /\ Legal(mem, commit.record, commit.by)
RenamedInv ==
  commit.at = "renamed" =>
    /\ where[open] = "active" /\ files[open] = Append(mem, commit.record)
    /\ Legal(mem, commit.record, commit.by)

\* Between commits the session is at most the one record behind that it was
\* told had failed; a session archived while it is open is finished.
IdleInv ==
  commit.at = "idle" /\ open # NoSession =>
    /\ mem # <<>>
    /\ where[open] \in {"active", "completed"}
    /\ where[open] = "completed" => Finished(open)
    /\ files[open] = mem \/ \E r \in Record : files[open] = Append(mem, r)

\* An operation that begins with the disk read back keeps it so.
OpInv ==
  /\ op.kind = "none" <=> op.at = "none"
  /\ op.at = "dispatched" => op.kind \in RemoteOperations
  /\ op.kind \notin {"none", "prepare_clearance"} /\ commit.at = "idle" =>
       files[open] = mem /\ temps[open] <= MaxTemps

DiskInv ==
  /\ \A s \in Sessions : reported[s] <= synced[s] /\ synced[s] <= Len(files[s])
  /\ \A s \in Sessions : where[s] = "none" => files[s] = <<>> /\ temps[s] = 0
  /\ \A s, t \in Active : s = t

JournalInv ==
  /\ JournalTypeOK /\ ProcessInv /\ MkdirInv /\ TempInv /\ RenamedInv
  /\ IdleInv /\ OpInv /\ DiskInv

-----------------------------------------------------------------------------
(* Records and histories *)

LEMMA ReservedIsRecord == [state |-> "reserved", mark |-> "none"] \in Record
  BY DEF Record, Plain, CapturePlain

LEMMA NoCommitType == NoCommit \in CommitType /\ NoOperation \in OperationType
  BY ReservedIsRecord DEF NoCommit, CommitType, NoOperation, OperationType

LEMMA EmptyHistory == <<>> \in Seq(Record)
  OBVIOUS

\* _validate_history refuses a record after a terminal one.
LEMMA TerminalEnds ==
  ASSUME NEW h \in Seq(Record), h # <<>>, Newest(h).state \in Terminal,
         NEW r \in Record, ValidHistory(Append(h, r))
  PROVE  FALSE
<1> DEFINE g == Append(h, r)
<1>1. Len(g) = Len(h) + 1 /\ Len(h) \in 1 .. Len(h) /\ g[Len(h)] = h[Len(h)]
  OBVIOUS
<1>2. Allowed(g[Len(h) + 1 - 1].state, g[Len(h) + 1].state)
  BY <1>1 DEF ValidHistory, Chain
<1>3. g[Len(h) + 1 - 1].state \in Terminal
  BY <1>1 DEF Newest
<1> QED
  BY <1>2, <1>3 DEF Allowed, AllowedAhead, Terminal, Singular

-----------------------------------------------------------------------------
(* The operations of the store *)

\* What _scan_store writes keeps the facts about the disk.
LEMMA CleanedKeeps ==
  ASSUME JournalAssumption, JournalTypeOK, DiskInv,
         NEW tier \in [Sessions -> {"none", "active", "completed"}],
         \A s \in Sessions : tier[s] = "none" => where[s] = "none",
         \A s, t \in Sessions : tier[s] = "active" /\ tier[t] = "active" => s = t,
         UNCHANGED <<files, reported>>, Cleaned(tier)
  PROVE  /\ where' \in [Sessions -> {"none", "active", "completed"}]
         /\ temps' \in [Sessions -> 0 .. MaxTemps + 1]
         /\ synced' \in [Sessions -> Nat]
         /\ DiskInv'
         /\ \A s \in Sessions : temps'[s] <= temps[s]
<1>1. /\ where' \in [Sessions -> {"none", "active", "completed"}]
      /\ temps' \in [Sessions -> 0 .. MaxTemps + 1]
      /\ synced' \in [Sessions -> Nat]
      /\ \A s \in Sessions : temps'[s] <= temps[s]
  BY DEF JournalAssumption, JournalTypeOK, Cleaned
<1>2. \A s \in Sessions : reported'[s] <= synced'[s] /\ synced'[s] <= Len(files'[s])
  BY DEF JournalTypeOK, DiskInv, Cleaned
<1>3. \A s \in Sessions : where'[s] = "none" => files'[s] = <<>> /\ temps'[s] = 0
  BY DEF JournalTypeOK, DiskInv, Cleaned, Active
<1>4. \A s, t \in Active' : s = t
  BY DEF Cleaned, Active
<1> QED
  BY <1>1, <1>2, <1>3, <1>4 DEF DiskInv

LEMMA OpenKeeps ==
  ASSUME JournalAssumption, JournalInv, OpenStore  PROVE JournalInv'
<1> USE DEF JournalInv
<1>1. Cleaned(where) /\ ~ up /\ commit = NoCommit /\ open = NoSession
  BY DEF OpenStore, ProcessInv
<1>2. /\ where' \in [Sessions -> {"none", "active", "completed"}]
      /\ temps' \in [Sessions -> 0 .. MaxTemps + 1]
      /\ synced' \in [Sessions -> Nat]
      /\ DiskInv'
  <2>1. /\ where \in [Sessions -> {"none", "active", "completed"}]
        /\ \A s, t \in Sessions : where[s] = "active" /\ where[t] = "active" => s = t
        /\ UNCHANGED <<files, reported>>
    BY DEF OpenStore, JournalTypeOK, DiskInv, Active
  <2> QED
    BY <1>1, <2>1, CleanedKeeps
<1>3. JournalTypeOK'
  BY <1>2 DEF OpenStore, JournalTypeOK
<1>4. ProcessInv' /\ MkdirInv' /\ TempInv' /\ RenamedInv' /\ IdleInv'
  BY <1>1 DEF OpenStore, ProcessInv, MkdirInv, TempInv, RenamedInv, IdleInv, NoCommit
<1>5. OpInv'
  BY <1>1 DEF OpenStore, OpInv, ProcessInv, NoCommit, NoOperation
<1> QED
  BY <1>2, <1>3, <1>4, <1>5

LEMMA LoadKeeps ==
  ASSUME JournalAssumption, JournalInv, NEW s \in Sessions, LoadIncomplete(s)
  PROVE  JournalInv'
<1> USE DEF JournalInv
<1>1. /\ Cleaned(where) /\ commit = NoCommit /\ s \in Active /\ files[s] # <<>>
      /\ open' = s /\ s # NoSession /\ mem' = files[s] /\ op' = NoOperation
  BY DEF LoadIncomplete, ProcessInv, JournalAssumption
<1>2. /\ where' \in [Sessions -> {"none", "active", "completed"}]
      /\ temps' \in [Sessions -> 0 .. MaxTemps + 1]
      /\ synced' \in [Sessions -> Nat]
      /\ DiskInv'
  <2>1. /\ where \in [Sessions -> {"none", "active", "completed"}]
        /\ \A t, u \in Sessions : where[t] = "active" /\ where[u] = "active" => t = u
        /\ UNCHANGED <<files, reported>>
    BY DEF LoadIncomplete, JournalTypeOK, DiskInv, Active
  <2> QED
    BY <1>1, <2>1, CleanedKeeps
<1>3. JournalTypeOK'
  <2>1. recovery' \in BOOLEAN
    BY DEF LoadIncomplete, RequiresRecovery
  <2> QED
    BY <1>1, <1>2, <2>1, NoCommitType DEF LoadIncomplete, JournalTypeOK
<1>4. where'[s] = "active" /\ files' = files
  BY <1>1 DEF LoadIncomplete, Cleaned, Active, JournalTypeOK
<1>5. ProcessInv' /\ MkdirInv' /\ TempInv' /\ RenamedInv' /\ OpInv'
  BY <1>1 DEF LoadIncomplete, ProcessInv, MkdirInv, TempInv, RenamedInv, OpInv,
              NoCommit, NoOperation
<1>6. IdleInv'
  BY <1>1, <1>4 DEF IdleInv
<1> QED
  BY <1>2, <1>3, <1>5, <1>6

LEMMA CloseKeeps ==
  ASSUME JournalAssumption, JournalInv, CloseStore  PROVE JournalInv'
<1> USE DEF JournalInv
<1>1. commit = NoCommit /\ commit' = NoCommit
  BY DEF CloseStore, ProcessInv
<1>2. JournalTypeOK'
  <2>1. op' \in OperationType /\ commit' \in CommitType
    BY <1>1, NoCommitType DEF CloseStore
  <2> QED
    BY <2>1, EmptyHistory DEF CloseStore, JournalTypeOK, diskVars, ghostVars
<1>3. ProcessInv' /\ MkdirInv' /\ TempInv' /\ RenamedInv' /\ IdleInv' /\ OpInv'
  BY <1>1 DEF CloseStore, ProcessInv, MkdirInv, TempInv, RenamedInv, IdleInv, OpInv,
              NoCommit, NoOperation
<1>4. DiskInv'
  BY DEF CloseStore, DiskInv, Active, diskVars, ghostVars
<1> QED
  BY <1>2, <1>3, <1>4

LEMMA ReserveKeeps ==
  ASSUME JournalAssumption, JournalInv, NEW s \in Sessions, ReserveSession(s)
  PROVE  JournalInv'
<1> USE DEF JournalInv
<1> DEFINE left == {t \in Active : files[t] # <<>>}
           room == Cardinality(Completed) + Cardinality(left) < MaxCompleted
           tier == [t \in Sessions |-> IF t \in left THEN "completed" ELSE where[t]]
<1>1. /\ up /\ commit = NoCommit /\ where[s] = "none" /\ files[s] = <<>>
      /\ \A t \in left : Finished(t)
      /\ Cleaned(tier)
      /\ UNCHANGED <<files, reported, unsure, up, faults>>
  BY DEF ReserveSession, ProcessInv
<1>2. \/ /\ open' = s /\ mem' = <<>> /\ recovery' = FALSE /\ op' = NoOperation
         /\ commit' = [NoCommit EXCEPT !.at = "mkdir", !.by = "reserve"]
      \/ UNCHANGED <<open, mem, recovery, op, commit>>
  BY DEF ReserveSession
<1>3. /\ tier \in [Sessions -> {"none", "active", "completed"}]
      /\ \A t \in Sessions : tier[t] = "none" => where[t] = "none"
      /\ \A t, u \in Sessions : tier[t] = "active" /\ tier[u] = "active" => t = u
  BY DEF JournalTypeOK, DiskInv, Active
<1>4. /\ where' \in [Sessions -> {"none", "active", "completed"}]
      /\ temps' \in [Sessions -> 0 .. MaxTemps + 1]
      /\ synced' \in [Sessions -> Nat]
      /\ DiskInv'
      /\ \A t \in Sessions : temps'[t] <= temps[t]
  <2> HIDE DEF tier
  <2> QED
    BY <1>1, <1>3, CleanedKeeps
<1>5. JournalTypeOK'
  <2>1. [NoCommit EXCEPT !.at = "mkdir", !.by = "reserve"] \in CommitType
    BY ReservedIsRecord DEF NoCommit, CommitType
  <2>2. op' \in OperationType /\ commit' \in CommitType
    BY <1>2, <2>1, NoCommitType DEF JournalTypeOK
  <2>3. recovery' \in BOOLEAN /\ open' \in Sessions \cup {NoSession} /\ mem' \in Seq(Record)
    BY <1>2, EmptyHistory DEF JournalTypeOK
  <2> QED
    BY <1>1, <1>4, <2>2, <2>3 DEF JournalTypeOK
<1>6. /\ \A t \in Sessions : where'[t] # "active"
      /\ where'[s] = "none"
      /\ \A t \in Sessions : files[t] # <<>> /\ where[t] \in {"active", "completed"}
           => where'[t] = "completed"
      /\ \A t \in Sessions : where[t] = "active" /\ files[t] # <<>> => Finished(t)
  BY <1>1 DEF Cleaned, Active, JournalTypeOK
<1>7. CASE /\ open' = s /\ mem' = <<>> /\ op' = NoOperation
           /\ commit' = [NoCommit EXCEPT !.at = "mkdir", !.by = "reserve"]
  <2>1. /\ commit'.at = "mkdir" /\ commit'.by = "reserve"
        /\ commit'.record = NoCommit.record /\ s # NoSession
    BY <1>7 DEF NoCommit, JournalAssumption
  <2>2. ProcessInv' /\ TempInv' /\ RenamedInv' /\ IdleInv' /\ OpInv'
    BY <1>1, <1>7, <2>1 DEF ProcessInv, TempInv, RenamedInv, IdleInv, OpInv, NoOperation
  <2>3. MkdirInv'
    BY <1>6, <1>7, <2>1 DEF MkdirInv, Active
  <2> QED
    BY <1>4, <1>5, <2>2, <2>3
<1>8. CASE UNCHANGED <<open, mem, recovery, op, commit>>
  <2>1. commit.at = "idle"
    BY <1>1 DEF NoCommit
  <2>2. ProcessInv' /\ MkdirInv' /\ TempInv' /\ RenamedInv'
    BY <1>1, <1>8, <2>1 DEF ProcessInv, MkdirInv, TempInv, RenamedInv
  <2>3. IdleInv'
    <3> SUFFICES ASSUME open # NoSession  PROVE IdleInv'
      BY <1>8 DEF IdleInv
    <3>1. /\ open \in Sessions /\ mem # <<>> /\ where[open] \in {"active", "completed"}
          /\ where[open] = "completed" => Finished(open)
          /\ files[open] = mem \/ \E r \in Record : files[open] = Append(mem, r)
      BY <2>1 DEF IdleInv, JournalTypeOK
    <3>2. files[open] # <<>>
      BY <3>1 DEF JournalTypeOK
    <3>3. Finished(open) /\ where'[open] = "completed"
      BY <1>6, <3>1, <3>2
    <3> QED
      BY <1>1, <1>8, <3>1, <3>3 DEF IdleInv, Finished
  <2>4. OpInv'
    <3>1. open = NoSession => op.kind = "none"
      BY DEF ProcessInv, NoOperation
    <3>2. open # NoSession => open \in Sessions /\ temps'[open] <= temps[open]
      BY <1>4 DEF JournalTypeOK
    <3>3. open \in Sessions => temps[open] \in Int /\ temps'[open] \in Int
      BY <1>4 DEF JournalTypeOK
    <3> QED
      BY <1>1, <1>8, <3>1, <3>2, <3>3 DEF OpInv, JournalAssumption
  <2> QED
    BY <1>4, <1>5, <2>2, <2>3, <2>4
<1> QED
  BY <1>2, <1>7, <1>8

-----------------------------------------------------------------------------
(* The steps of a commit *)

LEMMA MkdirKeeps ==
  ASSUME JournalAssumption, JournalInv, MakeDirectory  PROVE JournalInv'
<1> USE DEF JournalInv
<1>1. /\ commit.at = "mkdir" /\ open \in Sessions /\ mem = <<>> /\ Active = {}
      /\ where[open] = "none" /\ commit.by = "reserve" /\ commit.record = NoCommit.record
      /\ files[open] = <<>> /\ temps[open] = 0 /\ op.at = op.at
  BY DEF MakeDirectory, MkdirInv, ProcessInv, DiskInv, JournalTypeOK
<1>2. /\ where' = [where EXCEPT ![open] = "active"]
      /\ commit' = [commit EXCEPT !.at = "temp"]
      /\ UNCHANGED <<files, synced, temps, reported, unsure, up, open, mem, recovery, op,
                     faults>>
  BY DEF MakeDirectory, ghostVars
<1>3. /\ commit' \in CommitType /\ commit'.at = "temp" /\ commit'.by = "reserve"
      /\ commit'.record = [state |-> "reserved", mark |-> "none"]
  BY <1>1, <1>2 DEF JournalTypeOK, CommitType, NoCommit
<1>4. JournalTypeOK'
  BY <1>2, <1>3 DEF JournalTypeOK
<1>5. DiskInv'
  BY <1>1, <1>2 DEF DiskInv, Active, JournalTypeOK
<1>6. TempInv'
  BY <1>1, <1>2, <1>3 DEF TempInv, Legal, JournalTypeOK, JournalAssumption
<1>7. ProcessInv' /\ MkdirInv' /\ RenamedInv' /\ IdleInv' /\ OpInv'
  BY <1>1, <1>2, <1>3 DEF ProcessInv, MkdirInv, RenamedInv, IdleInv, OpInv, JournalAssumption
<1> QED
  BY <1>4, <1>5, <1>6, <1>7

\* A record is only ever offered to a directory that was read back and lies in
\* the session tier.
LEMMA BeginKeeps ==
  ASSUME JournalAssumption, JournalInv, Ready, files[open] = mem, temps[open] <= MaxTemps,
         NEW r \in Record, NEW by \in {"append", "permit", "ack", "verifier", "advance"},
         BeginCommit(r, by)
  PROVE  JournalInv' /\ where[open] = "active"
<1> USE DEF JournalInv
<1>1. /\ open \in Sessions /\ commit.at = "idle" /\ mem # <<>> /\ up
      /\ ValidHistory(Append(mem, r))
      /\ commit' = [at |-> "temp", record |-> r, by |-> by]
      /\ UNCHANGED <<where, files, synced, temps, reported, unsure, up, open, mem, recovery,
                     op, faults>>
  BY DEF Ready, BeginCommit, JournalTypeOK, diskVars, ghostVars
<1>2. where[open] = "active"
  <2>1. where[open] \in {"active", "completed"} /\ (where[open] = "completed" => Finished(open))
    BY <1>1 DEF IdleInv, Ready
  <2>2. SUFFICES ASSUME where[open] = "completed"  PROVE FALSE
    BY <2>1
  <2>3. mem \in Seq(Record) /\ Newest(mem).state \in Terminal
    BY <2>1, <2>2 DEF Finished, JournalTypeOK
  <2> QED
    BY <1>1, <2>3, TerminalEnds
<1>3. commit' \in CommitType /\ commit'.at = "temp" /\ commit'.by = by /\ commit'.record = r
  BY <1>1 DEF CommitType
<1>4. JournalTypeOK'
  BY <1>1, <1>3 DEF JournalTypeOK
<1>5. DiskInv'
  BY <1>1 DEF DiskInv, Active
<1>6. TempInv'
  BY <1>1, <1>2, <1>3 DEF TempInv, Legal
<1>7. ProcessInv' /\ MkdirInv' /\ RenamedInv' /\ IdleInv' /\ OpInv'
  BY <1>1, <1>3 DEF ProcessInv, MkdirInv, RenamedInv, IdleInv, OpInv, JournalAssumption
<1> QED
  BY <1>2, <1>4, <1>5, <1>6, <1>7

LEMMA AppendKeeps ==
  ASSUME JournalAssumption, JournalInv, NEW r \in Record, AppendEvent(r)
  PROVE  JournalInv'
  BY BeginKeeps DEF AppendEvent, Fresh, Readable

LEMMA PermitKeeps ==
  ASSUME JournalAssumption, JournalInv, NEW r \in Record, CommitPermit(r)
  PROVE  JournalInv'
  BY BeginKeeps DEF CommitPermit, PermitReady, Fresh, Readable

LEMMA AckKeeps ==
  ASSUME JournalAssumption, JournalInv, CommitAck  PROVE JournalInv'
<1> DEFINE r == [state |-> "staging_tombstone_acked", mark |-> "recovered"]
<1>1. r \in Record
  BY DEF Record, AckMarks
<1>2. files[open] = mem /\ temps[open] <= MaxTemps
  BY DEF CommitAck, Ready, JournalInv, OpInv
<1> QED
  BY <1>1, <1>2, BeginKeeps DEF CommitAck

LEMMA VerifierKeeps ==
  ASSUME JournalAssumption, JournalInv, CommitVerifier  PROVE JournalInv'
<1> DEFINE r == [state |-> "verifier_output_bound", mark |-> "recovered"]
<1>1. r \in Record
  BY DEF Record, Verified, EvidenceMarks
<1> QED
  BY <1>1, BeginKeeps DEF CommitVerifier, Fresh, Readable

LEMMA AdvanceKeeps ==
  ASSUME JournalAssumption, JournalInv, AdvanceRecovered  PROVE JournalInv'
<1> DEFINE r == [state |-> LinearSuccessor[Newest(mem).state], mark |-> "recovered"]
<1>1. r \in Record
  <2>1. LinearSuccessor[Newest(mem).state] \in Verified
    BY DEF AdvanceRecovered, LinearSuccessor, Verified
  <2> QED
    BY <2>1 DEF Record, EvidenceMarks
<1> QED
  BY <1>1, BeginKeeps DEF AdvanceRecovered, Fresh, Readable

LEMMA RenameKeeps ==
  ASSUME JournalAssumption, JournalInv, RenameRecord  PROVE JournalInv'
<1> USE DEF JournalInv
<1>1. PICK r \in Record : r = commit.record
  BY DEF JournalTypeOK, CommitType
<1>2. /\ commit.at = "temp" /\ open \in Sessions /\ where[open] = "active"
      /\ files[open] = mem /\ Legal(mem, r, commit.by)
  BY <1>1 DEF RenameRecord, TempInv, ProcessInv, JournalTypeOK
<1>3. /\ files' = [files EXCEPT ![open] = Append(mem, r)]
      /\ commit' = [commit EXCEPT !.at = "renamed"]
      /\ UNCHANGED <<where, synced, temps, reported, unsure, up, open, mem, recovery, op,
                     faults>>
  BY <1>1, <1>2 DEF RenameRecord, ghostVars
<1>4. /\ commit' \in CommitType /\ commit'.at = "renamed" /\ commit'.by = commit.by
      /\ commit'.record = r
  BY <1>1, <1>3 DEF JournalTypeOK, CommitType
<1>5. Append(mem, r) \in Seq(Record) /\ Len(Append(mem, r)) = Len(mem) + 1
  BY DEF JournalTypeOK
<1>6. JournalTypeOK'
  BY <1>3, <1>4, <1>5 DEF JournalTypeOK
<1>7. DiskInv'
  <2>1. \A s \in Sessions : reported[s] <= synced[s] /\ synced[s] <= Len(files'[s])
    BY <1>2, <1>3, <1>5 DEF DiskInv, JournalTypeOK
  <2>2. \A s \in Sessions : where[s] = "none" => files'[s] = <<>> /\ temps[s] = 0
    BY <1>2, <1>3 DEF DiskInv, JournalTypeOK
  <2> QED
    BY <1>3, <2>1, <2>2 DEF DiskInv, Active
<1>8. RenamedInv'
  BY <1>2, <1>3, <1>4 DEF RenamedInv, JournalTypeOK
<1>9. ProcessInv' /\ MkdirInv' /\ TempInv' /\ IdleInv' /\ OpInv'
  BY <1>2, <1>3, <1>4 DEF ProcessInv, MkdirInv, TempInv, IdleInv, OpInv, JournalAssumption
<1> QED
  BY <1>6, <1>7, <1>8, <1>9

\* The end of a commit that is durable.
LEMMA CommittedKeeps ==
  ASSUME JournalAssumption, JournalInv, commit.at = "renamed", Committed,
         UNCHANGED <<where, files, temps, up, open>>, faults' \in 0 .. MaxFaults
  PROVE  JournalInv'
<1> USE DEF JournalInv
<1>1. PICK r \in Record : r = commit.record
  BY DEF JournalTypeOK, CommitType
<1>2. /\ open \in Sessions /\ where[open] = "active" /\ files[open] = Append(mem, r)
      /\ open # NoSession /\ up
  BY <1>1 DEF RenamedInv, ProcessInv, JournalTypeOK, JournalAssumption
<1>3. /\ files[open] \in Seq(Record) /\ files[open] # <<>> /\ Len(files[open]) \in Nat
  BY <1>2 DEF JournalTypeOK
<1>4. /\ synced' = [synced EXCEPT ![open] = Len(files[open])]
      /\ reported' = [reported EXCEPT ![open] = Len(files[open])]
      /\ mem' = files[open] /\ op' = NoOperation /\ commit' = NoCommit
      /\ unsure' \in [Sessions -> BOOLEAN] /\ recovery' \in BOOLEAN
  BY DEF Committed, JournalTypeOK
<1>5. JournalTypeOK'
  BY <1>3, <1>4, NoCommitType DEF JournalTypeOK
<1>6. DiskInv'
  BY <1>2, <1>3, <1>4 DEF DiskInv, Active, JournalTypeOK
<1>7. IdleInv'
  BY <1>2, <1>3, <1>4 DEF IdleInv
<1>8. ProcessInv' /\ MkdirInv' /\ TempInv' /\ RenamedInv' /\ OpInv'
  BY <1>2, <1>4 DEF ProcessInv, MkdirInv, TempInv, RenamedInv, OpInv, NoCommit, NoOperation
<1> QED
  BY <1>5, <1>6, <1>7, <1>8

\* The end of a commit that failed: the session keeps the records it had.
LEMMA FailedKeeps ==
  ASSUME JournalAssumption, JournalInv, commit.at \in {"temp", "renamed"},
         NEW stale \in BOOLEAN, CommitFailed(stale),
         UNCHANGED <<where, files, up>>, faults' \in 0 .. MaxFaults,
         temps' \in [Sessions -> 0 .. MaxTemps + 1],
         \A s \in Sessions : where[s] = "none" => temps'[s] = 0
  PROVE  JournalInv'
<1> USE DEF JournalInv
<1>1. PICK r \in Record : r = commit.record
  BY DEF JournalTypeOK, CommitType
<1>2. /\ open \in Sessions /\ open # NoSession /\ where[open] = "active"
      /\ Legal(mem, r, commit.by)
      /\ files[open] = mem \/ files[open] = Append(mem, r)
  BY <1>1 DEF TempInv, RenamedInv, ProcessInv, JournalTypeOK, JournalAssumption
<1>3. /\ UNCHANGED <<reported, unsure, mem, synced>> /\ op' = NoOperation
      /\ commit' = NoCommit /\ recovery' \in BOOLEAN
      /\ open' = IF commit.by = "reserve" THEN NoSession ELSE open
  BY DEF CommitFailed, JournalTypeOK
<1>4. JournalTypeOK'
  BY <1>3, NoCommitType DEF JournalTypeOK
<1>5. DiskInv'
  BY <1>3 DEF DiskInv, Active
<1>6. mem = <<>> <=> commit.by = "reserve"
  BY <1>2 DEF Legal
<1>7. IdleInv'
  BY <1>2, <1>3, <1>6 DEF IdleInv
<1>8. ProcessInv' /\ MkdirInv' /\ TempInv' /\ RenamedInv' /\ OpInv'
  BY <1>2, <1>3, <1>6
     DEF ProcessInv, MkdirInv, TempInv, RenamedInv, OpInv, NoCommit, NoOperation
<1> QED
  BY <1>4, <1>5, <1>7, <1>8

LEMMA SyncKeeps ==
  ASSUME JournalAssumption, JournalInv, SyncDirectory  PROVE JournalInv'
<1>1. faults' \in 0 .. MaxFaults
  BY DEF SyncDirectory, JournalInv, JournalTypeOK
<1> QED
  BY <1>1, CommittedKeeps DEF SyncDirectory

LEMMA FailBeforeKeeps ==
  ASSUME JournalAssumption, JournalInv, FailBeforeRename  PROVE JournalInv'
<1>1. faults' \in 0 .. MaxFaults
  BY DEF FailBeforeRename, JournalInv, JournalTypeOK, JournalAssumption
<1>2. /\ open \in Sessions /\ where[open] = "active" /\ temps[open] <= MaxTemps
      /\ commit.at = "temp"
  BY DEF FailBeforeRename, JournalInv, JournalTypeOK, TempInv, ProcessInv
<1>3. temps' \in [Sessions -> 0 .. MaxTemps + 1]
  BY <1>2 DEF FailBeforeRename, JournalInv, JournalTypeOK, JournalAssumption
<1>4. \A s \in Sessions : where[s] = "none" => temps'[s] = 0
  BY <1>2 DEF FailBeforeRename, JournalInv, JournalTypeOK, DiskInv
<1>5. (temps[open] + 1 > MaxTemps) \in BOOLEAN
  OBVIOUS
<1> QED
  BY <1>1, <1>2, <1>3, <1>4, <1>5, FailedKeeps DEF FailBeforeRename

LEMMA FailToSyncKeeps ==
  ASSUME JournalAssumption, JournalInv, FailToSync  PROVE JournalInv'
<1>1. faults' \in 0 .. MaxFaults
  BY DEF FailToSync, JournalInv, JournalTypeOK, JournalAssumption
<1>2. CASE CommitFailed(TRUE)
  <2>1. temps' \in [Sessions -> 0 .. MaxTemps + 1]
    BY DEF FailToSync, JournalInv, JournalTypeOK
  <2>2. \A s \in Sessions : where[s] = "none" => temps'[s] = 0
    BY DEF FailToSync, JournalInv, DiskInv
  <2> QED
    BY <1>1, <1>2, <2>1, <2>2, FailedKeeps DEF FailToSync
<1>3. CASE Committed /\ open' = open
  BY <1>1, <1>3, CommittedKeeps DEF FailToSync
<1> QED
  BY <1>2, <1>3 DEF FailToSync

-----------------------------------------------------------------------------
(* Operations, and the faults of the process and the host *)

\* A step of an operation leaves the disk and the commit alone.
LEMMA OperationKeeps ==
  ASSUME JournalAssumption, JournalInv, Ready,
         UNCHANGED <<where, files, synced, temps, reported, up, open, mem, commit, faults>>,
         unsure' \in [Sessions -> BOOLEAN], recovery' \in BOOLEAN, op' \in OperationType,
         op'.kind = "none" <=> op'.at = "none",
         op'.at = "dispatched" => op'.kind \in RemoteOperations,
         op'.kind \notin {"none", "prepare_clearance"} =>
           files[open] = mem /\ temps[open] <= MaxTemps
  PROVE  JournalInv'
<1> USE DEF JournalInv
<1>1. JournalTypeOK'
  BY DEF JournalTypeOK
<1>2. DiskInv'
  BY DEF DiskInv, Active
<1>3. ProcessInv' /\ MkdirInv' /\ TempInv' /\ RenamedInv' /\ IdleInv' /\ OpInv'
  BY DEF ProcessInv, MkdirInv, TempInv, RenamedInv, IdleInv, OpInv, Ready, Active, Finished
<1> QED
  BY <1>1, <1>2, <1>3

LEMMA BeginLifecycleKeeps ==
  ASSUME JournalAssumption, JournalInv, NEW o \in Operations, BeginLifecycle(o)
  PROVE  JournalInv'
<1>1. /\ op' \in OperationType /\ op'.kind = o /\ op'.at = "open" /\ o # "none"
      /\ o \in RemoteOperations \cup {"prepare_clearance"}
  BY DEF BeginLifecycle, OperationType, Operations, RemoteOperations
<1>2. /\ UNCHANGED <<where, files, synced, temps, reported, up, open, mem, commit, faults>>
      /\ unsure' \in [Sessions -> BOOLEAN] /\ recovery' \in BOOLEAN
  BY DEF BeginLifecycle, JournalInv, JournalTypeOK, diskVars, ghostVars
<1> QED
  BY <1>1, <1>2, OperationKeeps DEF BeginLifecycle, Fresh, Readable

LEMMA DispatchKeeps ==
  ASSUME JournalAssumption, JournalInv, Dispatch  PROVE JournalInv'
<1>1. /\ op' \in OperationType /\ op'.kind = op.kind /\ op'.at = "dispatched"
      /\ op.kind \in RemoteOperations /\ op.kind # "none" /\ op.kind # "prepare_clearance"
  BY DEF Dispatch, OperationType, RemoteOperations, JournalInv, JournalTypeOK
<1>2. /\ UNCHANGED <<where, files, synced, temps, reported, up, open, mem, commit, faults>>
      /\ unsure' \in [Sessions -> BOOLEAN] /\ recovery' \in BOOLEAN
  BY DEF Dispatch, JournalInv, JournalTypeOK, diskVars
<1>3. files[open] = mem /\ temps[open] <= MaxTemps
  BY <1>1 DEF Dispatch, Ready, JournalInv, OpInv
<1> QED
  BY <1>1, <1>2, <1>3, OperationKeeps DEF Dispatch

LEMMA EndOperationKeeps ==
  ASSUME JournalAssumption, JournalInv, CancelOperation \/ LoseOperation \/ CompleteNoEffect
  PROVE  JournalInv'
<1>1. op' \in OperationType /\ op'.kind = "none" /\ op'.at = "none"
  BY NoCommitType DEF CancelOperation, LoseOperation, CompleteNoEffect, NoOperation
<1>2. UNCHANGED <<where, files, synced, temps, reported, up, open, mem, commit, faults>>
  BY DEF CancelOperation, LoseOperation, CompleteNoEffect, diskVars, ghostVars
<1>3. unsure' \in [Sessions -> BOOLEAN] /\ recovery' \in BOOLEAN
  BY DEF CancelOperation, LoseOperation, CompleteNoEffect, ghostVars, JournalInv,
         JournalTypeOK
<1>4. Ready
  BY DEF CancelOperation, LoseOperation, CompleteNoEffect
<1> QED
  BY <1>1, <1>2, <1>3, <1>4, OperationKeeps

LEMMA BeginRecoveredKeeps ==
  ASSUME JournalAssumption, JournalInv, NEW kind \in {"ack", "verifier"},
         BeginRecovered(kind)
  PROVE  JournalInv'
<1>1. op' \in OperationType /\ op'.kind = kind /\ op'.at = "open" /\ kind # "none"
  BY DEF BeginRecovered, OperationType
<1>2. /\ UNCHANGED <<where, files, synced, temps, reported, up, open, mem, commit, faults>>
      /\ unsure' \in [Sessions -> BOOLEAN] /\ recovery' \in BOOLEAN
  BY DEF BeginRecovered, JournalInv, JournalTypeOK, diskVars, ghostVars
<1> QED
  BY <1>1, <1>2, OperationKeeps DEF BeginRecovered, Fresh, Readable

\* A process that is gone leaves at most one temporary file.
LEMMA ForgottenKeeps ==
  ASSUME JournalAssumption, JournalInv, Forgotten, faults' \in 0 .. MaxFaults,
         files' \in [Sessions -> Seq(Record)], synced' \in [Sessions -> Nat],
         \A s \in Sessions : reported[s] <= synced'[s] /\ synced'[s] <= Len(files'[s]),
         \A s \in Sessions : files[s] = <<>> => files'[s] = <<>>
  PROVE  JournalInv'
<1> USE DEF JournalInv
<1>1. /\ commit' = NoCommit /\ op' = NoOperation /\ open' = NoSession /\ mem' = <<>>
      /\ up' = FALSE /\ recovery' = FALSE /\ UNCHANGED <<where, reported, unsure>>
  BY DEF Forgotten, ghostVars
<1>2. /\ temps' \in [Sessions -> 0 .. MaxTemps + 1]
      /\ \A s \in Sessions : where[s] = "none" => temps'[s] = 0
  BY DEF Forgotten, TempInv, DiskInv, JournalTypeOK, JournalAssumption
<1>3. JournalTypeOK'
  BY <1>1, <1>2, NoCommitType, EmptyHistory DEF JournalTypeOK
<1>4. DiskInv'
  BY <1>1, <1>2 DEF DiskInv, Active
<1>5. ProcessInv' /\ MkdirInv' /\ TempInv' /\ RenamedInv' /\ IdleInv' /\ OpInv'
  BY <1>1 DEF ProcessInv, MkdirInv, TempInv, RenamedInv, IdleInv, OpInv, NoCommit,
              NoOperation
<1> QED
  BY <1>3, <1>4, <1>5

LEMMA KillKeeps ==
  ASSUME JournalAssumption, JournalInv, Kill  PROVE JournalInv'
<1>1. faults' \in 0 .. MaxFaults
  BY DEF Kill, JournalInv, JournalTypeOK, JournalAssumption
<1>2. /\ files' = files /\ synced' = synced
      /\ files \in [Sessions -> Seq(Record)] /\ synced \in [Sessions -> Nat]
      /\ \A s \in Sessions : reported[s] <= synced[s] /\ synced[s] <= Len(files[s])
  BY DEF Kill, JournalInv, JournalTypeOK, DiskInv
<1> QED
  BY <1>1, <1>2, ForgottenKeeps DEF Kill

LEMMA LosePowerKeeps ==
  ASSUME JournalAssumption, JournalInv, LosePower  PROVE JournalInv'
<1>1. faults' \in 0 .. MaxFaults
  BY DEF LosePower, JournalInv, JournalTypeOK, JournalAssumption
<1>2. PICK kept \in [Sessions -> 0 .. MaxEvents] :
        /\ \A s \in Sessions : kept[s] \in synced[s] .. Len(files[s])
        /\ files' = [s \in Sessions |-> SubSeq(files[s], 1, kept[s])]
        /\ synced' = kept
  BY DEF LosePower
<1>3. ASSUME NEW s \in Sessions
      PROVE  /\ files'[s] \in Seq(Record) /\ Len(files'[s]) = kept[s]
             /\ reported[s] <= kept[s] /\ kept[s] \in Nat
             /\ files[s] = <<>> => files'[s] = <<>>
  <2>1. PICK h \in Seq(Record), k \in Nat :
          /\ k <= Len(h) /\ h = files[s] /\ k = kept[s]
          /\ files'[s] = SubSeq(h, 1, k)
    <3>1. files[s] \in Seq(Record) /\ synced[s] \in Nat /\ Len(files[s]) \in Nat
      BY DEF JournalInv, JournalTypeOK
    <3>2. kept[s] \in Nat /\ kept[s] <= Len(files[s])
      BY <1>2, <3>1
    <3> QED
      BY <1>2, <3>1, <3>2
  <2>2. SubSeq(h, 1, k) \in Seq(Record) /\ Len(SubSeq(h, 1, k)) = k
    <3>1. \A i \in 1 .. k : h[i] \in Record
      BY <2>1
    <3> QED
      BY <3>1, 1 \in Int, k \in Int, SubSeqProperties
  <2>3. h = <<>> => SubSeq(h, 1, k) = <<>>
    BY <2>1, <2>2
  <2> QED
    BY <1>2, <2>1, <2>2, <2>3 DEF JournalInv, JournalTypeOK, DiskInv
<1>4. files' \in [Sessions -> Seq(Record)] /\ synced' \in [Sessions -> Nat]
  BY <1>2, <1>3
<1>5. \A s \in Sessions : reported[s] <= synced'[s] /\ synced'[s] <= Len(files'[s])
  BY <1>2, <1>3
<1> QED
  BY <1>1, <1>3, <1>4, <1>5, ForgottenKeeps DEF LosePower

-----------------------------------------------------------------------------
(* The invariant *)

LEMMA InitHolds == ASSUME JournalAssumption, JournalInit  PROVE JournalInv
<1>1. JournalTypeOK
  <2>1. files \in [Sessions -> Seq(Record)] /\ mem \in Seq(Record)
    BY EmptyHistory DEF JournalInit
  <2>2. op \in OperationType /\ commit \in CommitType
    BY NoCommitType DEF JournalInit
  <2>3. /\ temps \in [Sessions -> 0 .. MaxTemps + 1] /\ faults \in 0 .. MaxFaults
        /\ synced \in [Sessions -> Nat] /\ reported \in [Sessions -> Nat]
    BY DEF JournalInit, JournalAssumption
  <2>4. /\ where \in [Sessions -> {"none", "active", "completed"}]
        /\ unsure \in [Sessions -> BOOLEAN]
    BY DEF JournalInit
  <2> QED
    BY <2>1, <2>2, <2>3, <2>4 DEF JournalInit, JournalTypeOK, JournalAssumption
<1>2. ProcessInv /\ MkdirInv /\ TempInv /\ RenamedInv /\ IdleInv /\ OpInv
  BY DEF JournalInit, ProcessInv, MkdirInv, TempInv, RenamedInv, IdleInv, OpInv, NoCommit,
         NoOperation
<1>3. DiskInv
  BY DEF JournalInit, DiskInv, Active
<1> QED
  BY <1>1, <1>2, <1>3 DEF JournalInv

LEMMA NextKeeps == ASSUME JournalAssumption, JournalInv, JournalNext  PROVE JournalInv'
  BY OpenKeeps, CloseKeeps, MkdirKeeps, LoadKeeps, ReserveKeeps, RenameKeeps, SyncKeeps,
     FailBeforeKeeps, FailToSyncKeeps, AppendKeeps, PermitKeeps, BeginLifecycleKeeps,
     DispatchKeeps, EndOperationKeeps, BeginRecoveredKeeps, AckKeeps, VerifierKeeps,
     AdvanceKeeps, KillKeeps, LosePowerKeeps
  DEF JournalNext

LEMMA StutterKeeps ==
  ASSUME JournalInv, UNCHANGED journalVars  PROVE JournalInv'
  BY DEF journalVars, JournalInv, JournalTypeOK, ProcessInv, MkdirInv, TempInv, RenamedInv,
         IdleInv, OpInv, DiskInv, Active, Finished

LEMMA JournalInvariant == JournalSpec => []JournalInv
<1>1. JournalInit => JournalInv
  BY JournalAssumption, InitHolds
<1>2. JournalInv /\ [JournalNext]_journalVars => JournalInv'
  BY JournalAssumption, NextKeeps, StutterKeeps
<1> QED
  BY <1>1, <1>2, PTL DEF JournalSpec

-----------------------------------------------------------------------------
(* What the invariant implies, whatever the faults *)

LEMMA PrefixOfAppend ==
  ASSUME NEW h \in Seq(Record), NEW r \in Record
  PROVE  Len(Append(h, r)) = Len(h) + 1 /\ SubSeq(Append(h, r), 1, Len(h)) = h
<1> DEFINE g == SubSeq(Append(h, r), 1, Len(h))
<1>1. \A i \in 1 .. Len(h) : Append(h, r)[i] \in Record /\ Append(h, r)[i] = h[i]
  OBVIOUS
<1>2. /\ g \in Seq(Record)
      /\ Len(g) = Len(h)
      /\ \A i \in 1 .. Len(h) : g[i] = h[i]
  <2>1. 1 \in Int /\ Len(h) \in Int /\ Len(h) \in Nat
    OBVIOUS
  <2> QED
    BY <1>1, <2>1, SubSeqProperties
<1> QED
  BY <1>2, SeqEqual

LEMMA MemoryFollows == ASSUME JournalInv  PROVE MemoryFollowsDisk
<1> SUFFICES ASSUME open # NoSession, mem # <<>>
             PROVE  \/ files[open] = mem
                    \/ /\ Len(files[open]) = Len(mem) + 1
                       /\ SubSeq(files[open], 1, Len(mem)) = mem
  BY DEF MemoryFollowsDisk
<1>1. commit.at \in {"idle", "mkdir", "temp", "renamed"} /\ commit.record \in Record
      /\ mem \in Seq(Record)
  BY DEF JournalInv, JournalTypeOK, CommitType
<1>2. files[open] = mem \/ \E r \in Record : files[open] = Append(mem, r)
  BY <1>1 DEF JournalInv, IdleInv, MkdirInv, TempInv, RenamedInv
<1> QED
  BY <1>1, <1>2, PrefixOfAppend

LEMMA OneActive == ASSUME JournalInv  PROVE OneTransaction
<1>1. CASE Active = {}
  BY <1>1, FS_EmptySet DEF OneTransaction
<1>2. CASE Active # {}
  <2>1. PICK s \in Active : Active = {s}
    BY <1>2 DEF JournalInv, DiskInv
  <2> QED
    BY <2>1, FS_Singleton DEF OneTransaction
<1> QED
  BY <1>1, <1>2

\* A record its caller was told is committed survives every kill, I/O error
\* and power loss, in any number and order (_commit_candidate).
THEOREM ReportedStays == JournalSpec => []ReportedDurable
<1>1. JournalInv => ReportedDurable
  BY DEF JournalInv, DiskInv, ReportedDurable
<1> QED
  BY <1>1, JournalInvariant, PTL

\* The session never runs ahead of the disk and is at most the one record
\* behind whose commit it was told had failed, whatever the faults
\* (TransactionJournalSession).
THEOREM MemoryNeverAhead == JournalSpec => []MemoryFollowsDisk
  BY MemoryFollows, JournalInvariant, PTL

\* At most one session directory is live, whatever the faults (reserve_session,
\* load_incomplete_sessions).
THEOREM OneTransactionOnly == JournalSpec => []OneTransaction
  BY OneActive, JournalInvariant, PTL

-----------------------------------------------------------------------------
(* What is archived, when the host does not lose power behind a kill or an *)
(* I/O error: a record renamed and never synced is taken at face value, so *)
(* that the two together can take back what was archived.                  *)

PowerAlone == "power" \in Faults => Faults = {"power"}

\* Where only power is lost, all is synced but the record just renamed.
ArchiveInv ==
  /\ ArchivedTerminal
  /\ "power" \in Faults =>
       \A s \in Sessions :
         \/ synced[s] = Len(files[s])
         \/ commit.at = "renamed" /\ s = open /\ synced[s] = Len(mem)

LEMMA ArchiveFrame ==
  ASSUME ArchiveInv, UNCHANGED <<where, files>>,
         "power" \in Faults =>
           UNCHANGED <<synced, open, mem>> /\ (commit.at = "renamed" => commit'.at = "renamed")
  PROVE  ArchiveInv'
  BY DEF ArchiveInv, ArchivedTerminal, Completed, Finished

\* The sweep of the store, with the sessions it archives.
LEMMA ArchiveSweep ==
  ASSUME JournalInv, ArchiveInv, commit.at = "idle", files' = files,
         NEW tier, Cleaned(tier),
         \A s \in Sessions : tier[s] = "completed" => where[s] = "completed" \/ Finished(s)
  PROVE  ArchiveInv'
<1>1. \A s \in Sessions : where'[s] = "completed" => Finished(s)
  BY DEF Cleaned, ArchiveInv, ArchivedTerminal, Completed
<1>2. ArchivedTerminal'
  BY <1>1 DEF ArchivedTerminal, Completed, Finished
<1>3. "power" \in Faults => \A s \in Sessions : synced'[s] = Len(files'[s])
  BY DEF Cleaned, ArchiveInv, JournalInv, JournalTypeOK
<1> QED
  BY <1>2, <1>3 DEF ArchiveInv

LEMMA ArchiveCommitted ==
  ASSUME JournalInv, ArchiveInv, commit.at = "renamed", Committed,
         UNCHANGED <<where, files>>
  PROVE  ArchiveInv'
<1>1. ArchivedTerminal'
  BY DEF ArchiveInv, ArchivedTerminal, Completed, Finished
<1>2. "power" \in Faults => \A s \in Sessions : synced'[s] = Len(files'[s])
  BY DEF Committed, ArchiveInv, JournalInv, JournalTypeOK
<1> QED
  BY <1>1, <1>2 DEF ArchiveInv

LEMMA ArchiveRename ==
  ASSUME JournalInv, ArchiveInv, RenameRecord  PROVE ArchiveInv'
<1>1. /\ commit.at = "temp" /\ open \in Sessions /\ where[open] = "active"
      /\ files[open] = mem /\ commit'.at = "renamed"
      /\ UNCHANGED <<where, synced, open, mem>>
      /\ \A s \in Sessions \ {open} : files'[s] = files[s]
  BY DEF RenameRecord, JournalInv, JournalTypeOK, CommitType, TempInv, ProcessInv
<1>2. ArchivedTerminal'
  BY <1>1 DEF ArchiveInv, ArchivedTerminal, Completed, Finished
<1>3. "power" \in Faults =>
        \A s \in Sessions : \/ synced'[s] = Len(files'[s])
                            \/ s = open /\ synced'[s] = Len(mem)
  BY <1>1 DEF ArchiveInv
<1> QED
  BY <1>1, <1>2, <1>3 DEF ArchiveInv

LEMMA ArchivePower ==
  ASSUME JournalInv, ArchiveInv, LosePower  PROVE ArchiveInv'
<1>1. PICK kept \in [Sessions -> 0 .. MaxEvents] :
        /\ \A s \in Sessions : kept[s] \in synced[s] .. Len(files[s])
        /\ files' = [s \in Sessions |-> SubSeq(files[s], 1, kept[s])]
        /\ synced' = kept
  BY DEF LosePower
<1>2. "power" \in Faults /\ where' = where
  BY DEF LosePower, Forgotten
<1>3. ASSUME NEW s \in Sessions
      PROVE  /\ synced'[s] = Len(files'[s])
             /\ synced[s] = Len(files[s]) => files'[s] = files[s]
  <2>1. PICK h \in Seq(Record), k \in Nat :
          /\ k <= Len(h) /\ h = files[s] /\ k = kept[s]
          /\ files'[s] = SubSeq(h, 1, k) /\ synced'[s] = k
          /\ synced[s] = Len(files[s]) => k = Len(h)
    <3>1. files[s] \in Seq(Record) /\ synced[s] \in Nat /\ Len(files[s]) \in Nat
      BY DEF JournalInv, JournalTypeOK
    <3>2. /\ kept[s] \in Nat /\ kept[s] <= Len(files[s])
          /\ synced[s] = Len(files[s]) => kept[s] = Len(files[s])
      BY <1>1, <3>1
    <3> QED
      BY <1>1, <3>1, <3>2
  <2>2. Len(SubSeq(h, 1, k)) = k
    <3>1. \A i \in 1 .. k : h[i] \in Record
      BY <2>1
    <3> QED
      BY <3>1, 1 \in Int, k \in Int, SubSeqProperties
  <2>3. SubSeq(h, 1, Len(h)) = h
    BY SubSeqFull
  <2> QED
    BY <2>1, <2>2, <2>3
<1>4. \A s \in Sessions : where[s] = "completed" => synced[s] = Len(files[s])
  BY <1>2 DEF ArchiveInv, JournalInv, RenamedInv
<1>5. ArchivedTerminal'
  BY <1>2, <1>3, <1>4 DEF ArchiveInv, ArchivedTerminal, Completed, Finished
<1> QED
  BY <1>3, <1>5 DEF ArchiveInv

LEMMA ArchiveKeeps ==
  ASSUME PowerAlone, JournalInv, ArchiveInv, JournalNext  PROVE ArchiveInv'
<1>1. CASE OpenStore
  <2>1. commit.at = "idle"
    BY <1>1 DEF OpenStore, JournalInv, ProcessInv
  <2> QED
    BY <1>1, <2>1, ArchiveSweep DEF OpenStore
<1>2. CASE \E s \in Sessions : LoadIncomplete(s)
  BY <1>2, ArchiveSweep DEF LoadIncomplete
<1>3. CASE \E s \in Sessions : ReserveSession(s)
  <2> DEFINE left == {t \in Active : files[t] # <<>>}
             tier == [t \in Sessions |-> IF t \in left THEN "completed" ELSE where[t]]
  <2>1. commit.at = "idle" /\ files' = files /\ Cleaned(tier)
        /\ \A t \in left : Finished(t)
    BY <1>3 DEF ReserveSession
  <2>2. \A s \in Sessions : tier[s] = "completed" => where[s] = "completed" \/ Finished(s)
    BY <2>1
  <2> HIDE DEF tier
  <2> QED
    BY <2>1, <2>2, ArchiveSweep
<1>4. CASE MakeDirectory
  <2>1. /\ open \in Sessions /\ where' = [where EXCEPT ![open] = "active"]
        /\ UNCHANGED <<files, synced, open, mem>> /\ commit.at = "mkdir"
    BY <1>4 DEF MakeDirectory, JournalInv, JournalTypeOK, ProcessInv
  <2>2. ArchivedTerminal'
    BY <2>1 DEF ArchiveInv, ArchivedTerminal, Completed, Finished, JournalInv, JournalTypeOK
  <2> QED
    BY <2>1, <2>2 DEF ArchiveInv
<1>5. CASE RenameRecord
  BY <1>5, ArchiveRename
<1>6. CASE SyncDirectory
  BY <1>6, ArchiveCommitted DEF SyncDirectory
<1>7. CASE FailBeforeRename \/ FailToSync \/ Kill
  <2>1. "power" \notin Faults /\ UNCHANGED <<where, files>>
    BY <1>7 DEF FailBeforeRename, FailToSync, Kill, Forgotten, PowerAlone
  <2> QED
    BY <2>1, ArchiveFrame
<1>8. CASE LosePower
  BY <1>8, ArchivePower
<1>9. CASE CloseStore
  <2>1. commit.at = "idle" /\ UNCHANGED <<where, files, synced>>
    BY <1>9 DEF CloseStore, diskVars
  <2> QED
    BY <2>1 DEF ArchiveInv, ArchivedTerminal, Completed, Finished
<1>10. CASE \/ \E r \in Record : AppendEvent(r) \/ CommitPermit(r)
            \/ CommitAck \/ CommitVerifier \/ AdvanceRecovered
  <2>1. commit.at = "idle" /\ UNCHANGED <<where, files, synced, open, mem>>
    BY <1>10 DEF AppendEvent, CommitPermit, PermitReady, CommitAck, CommitVerifier,
                 AdvanceRecovered, BeginCommit, Ready, diskVars
  <2> QED
    BY <2>1, ArchiveFrame
<1>11. CASE \/ \E o \in Operations : BeginLifecycle(o)
            \/ Dispatch \/ CancelOperation \/ LoseOperation \/ CompleteNoEffect
            \/ \E kind \in {"ack", "verifier"} : BeginRecovered(kind)
  <2>1. UNCHANGED <<where, files, synced, open, mem, commit>>
    BY <1>11 DEF BeginLifecycle, Dispatch, CancelOperation, LoseOperation,
                 CompleteNoEffect, BeginRecovered, diskVars
  <2> QED
    BY <2>1, ArchiveFrame
<1> QED
  BY <1>1, <1>2, <1>3, <1>4, <1>5, <1>6, <1>7, <1>8, <1>9, <1>10, <1>11 DEF JournalNext

LEMMA ArchiveInvariant == ASSUME PowerAlone  PROVE JournalSpec => []ArchiveInv
<1>1. JournalInit => ArchiveInv
  BY DEF JournalInit, ArchiveInv, ArchivedTerminal, Completed
<1>2. JournalInv /\ ArchiveInv /\ [JournalNext]_journalVars => ArchiveInv'
  <2>1. ASSUME ArchiveInv, UNCHANGED journalVars  PROVE ArchiveInv'
    BY <2>1, ArchiveFrame DEF journalVars
  <2> QED
    BY <2>1, ArchiveKeeps
<1> QED
  BY <1>1, <1>2, JournalInvariant, PTL DEF JournalSpec

-----------------------------------------------------------------------------
(* Effects on the supervisor. A history from which one was dispatched is   *)
(* one that a reloaded session recovers first, or one that has left the    *)
(* states of the effects behind for good.                                  *)

EffectStates == EffectOrigins \cup {"lifecycle_clearance_intent"}
BeforeLaunch == {"reserved", "staging_create_intent", "staging_exposed"}

Beyond(h) ==
  /\ Newest(h).state \notin BeforeLaunch \cup EffectStates
  /\ Newest(h).state = "operator_attention" => h[Len(h) - 1].state \notin EffectStates

Launched(h) == h # <<>> /\ (RequiresRecovery(h) \/ Beyond(h))

LEMMA AfterBeyond ==
  ASSUME NEW p, NEW x, Allowed(p, x),
         p \notin BeforeLaunch \cup EffectStates \cup {"operator_attention"}
  PROVE  x \notin BeforeLaunch \cup EffectStates
  BY DEF Allowed, AllowedAhead, Singular, Terminal, BeforeLaunch, EffectStates,
         EffectOrigins, LinearSuccessor

LEMMA AfterEffect ==
  ASSUME NEW p \in EffectStates, NEW x, Allowed(p, x)
  PROVE  x \in EffectStates \cup {"lifecycle_scope_empty", "operator_attention"}
  BY DEF Allowed, AllowedAhead, Singular, Terminal, EffectStates, EffectOrigins,
         LinearSuccessor

LEMMA AfterAttention ==
  ASSUME NEW h, NEW i \in Nat, NEW x, Resolves(h, i, x)
  PROVE  /\ x \notin BeforeLaunch \cup {"operator_attention"}
         /\ x \in EffectStates => x = "lifecycle_clearance_intent"
         /\ h[i - 1].state \notin EffectStates => x \notin EffectStates
         /\ h[i - 1].state \in EffectStates =>
              x \in {"lifecycle_clearance_intent", "lifecycle_scope_empty"}
  BY DEF Resolves, QuarantineResolution, BeforeLaunch, EffectStates, EffectOrigins, Verified

\* Whatever record a valid history goes on with, it stays launched, and beyond.
LEMMA LaunchedStep ==
  ASSUME NEW h \in Seq(Record), NEW r \in Record, ValidHistory(Append(h, r)), h # <<>>
  PROVE  /\ Launched(h) => Launched(Append(h, r))
         /\ Beyond(h) => Beyond(Append(h, r))
<1> DEFINE g == Append(h, r)
           n == Len(h)
           p == Newest(h).state
           x == r.state
<1>1. /\ n \in Nat /\ n >= 1 /\ Len(g) = n + 1 /\ g[n] = h[n] /\ g[n + 1] = r
      /\ Newest(g) = r /\ Newest(h) = h[n] /\ g[Len(g) - 1] = h[n] /\ g # <<>>
  BY DEF Newest
<1>2. Allowed(p, x) /\ (p = "operator_attention" => Resolves(g, n, x))
  BY <1>1 DEF ValidHistory, Chain
<1>3. p = "operator_attention" => n >= 2 /\ g[n - 1] = h[n - 1]
  <2>1. g[1].state = "reserved"
    BY DEF ValidHistory, Chain
  <2> QED
    BY <1>1, <2>1
<1>4. /\ Newest(g).state = x /\ g[Len(g) - 1].state = p
  BY <1>1
<1>5. ASSUME Beyond(h)  PROVE Beyond(g)
  <2>1. p \notin BeforeLaunch \cup EffectStates
    BY <1>5 DEF Beyond
  <2>2. p = "operator_attention" => g[n - 1].state \notin EffectStates
    BY <1>1, <1>3, <1>5 DEF Beyond
  <2>3. x \notin BeforeLaunch \cup EffectStates
    BY <1>1, <1>2, <2>1, <2>2, AfterBeyond, AfterAttention
  <2> HIDE DEF g
  <2> QED
    BY <1>4, <2>1, <2>3 DEF Beyond
<1>6. ASSUME RequiresRecovery(h)  PROVE RequiresRecovery(g) \/ Beyond(g)
  <2>1. \/ p \in EffectStates
        \/ p = "operator_attention" /\ g[n - 1].state \in EffectStates
    BY <1>1, <1>3, <1>6 DEF RequiresRecovery, EffectStates
  <2>2. \/ x \in EffectStates \cup {"lifecycle_scope_empty"}
        \/ x = "operator_attention" /\ p \in EffectStates
    BY <1>1, <1>2, <2>1, AfterEffect, AfterAttention DEF EffectStates
  <2>3. x = "lifecycle_scope_empty" => Beyond(g)
    BY <1>4 DEF Beyond, BeforeLaunch, EffectStates, EffectOrigins
  <2>4. \/ x \in EffectStates
        \/ x = "operator_attention" /\ p \in EffectStates
        => RequiresRecovery(g)
    BY <1>4 DEF RequiresRecovery, EffectStates
  <2> QED
    BY <2>2, <2>3, <2>4
<1>7. Launched(h) => Launched(g)
  <2> HIDE DEF g
  <2> QED
    BY <1>1, <1>5, <1>6 DEF Launched
<1> QED
  BY <1>5, <1>7

\* An effect whose outcome is unknown lies in a launched history, and the
\* session that holds it is in recovery, beyond the effects, or waits for the
\* answer.
RetryInv ==
  /\ \A s \in Sessions : unsure[s] => Launched(files[s])
  /\ open # NoSession /\ unsure[open] =>
       /\ Launched(mem)
       /\ recovery \/ Beyond(mem) \/ op.at = "dispatched"
  /\ op.at = "open" /\ op.kind \in RemoteOperations \ {"recover_scope"} =>
       ~ recovery /\ Newest(mem).state \in EffectStates
  /\ op.at = "dispatched" /\ op.kind # "recover_scope" =>
       Newest(mem).state \in EffectStates
  /\ op.kind \in {"ack", "verifier"} => ~ recovery
  /\ commit.by \notin {"none", "permit"} => ~ recovery /\ op.at # "dispatched"

\* No effect is dispatched from a head beyond them, nor from one in recovery.
LEMMA EffectBase ==
  ASSUME NEW o \in RemoteOperations \ {"recover_scope"}, NEW b \in OperationBase(o)
  PROVE  b \in EffectStates
  BY Zenon DEF OperationBase, RemoteOperations, EffectOrigins, EffectStates

\* The session is put down, and its directories stay as they were.
LEMMA RetryDown ==
  ASSUME RetryInv, UNCHANGED <<files, unsure>>, open' = NoSession, op' = NoOperation,
         commit' = NoCommit
  PROVE  RetryInv'
  BY DEF RetryInv, NoOperation, NoCommit

\* The session stays as it is, with at most an operation less.
LEMMA RetryFrame ==
  ASSUME RetryInv, UNCHANGED <<files, unsure, open, mem, recovery>>,
         op' = op \/ (op' = NoOperation /\ op.at # "dispatched"),
         commit'.by \in {"none", "permit", commit.by}
  PROVE  RetryInv'
  BY DEF RetryInv, NoOperation

LEMMA RetryBegin ==
  ASSUME RetryInv, NEW r, NEW by, BeginCommit(r, by),
         by = "permit" \/ (~ recovery /\ op.at # "dispatched")
  PROVE  RetryInv'
  BY DEF RetryInv, BeginCommit, diskVars, ghostVars

LEMMA RetryCommits ==
  ASSUME JournalInv, RetryInv,
         \/ \E r \in Record : AppendEvent(r) \/ CommitPermit(r)
         \/ CommitAck \/ CommitVerifier \/ AdvanceRecovered
  PROVE  RetryInv'
<1>1. op.kind \in {"ack", "verifier"} => ~ recovery /\ op.at # "dispatched"
  BY DEF RetryInv, JournalInv, OpInv, RemoteOperations
<1>2. op = NoOperation => op.at # "dispatched"
  BY DEF NoOperation
<1> QED
  BY <1>1, <1>2, RetryBegin DEF AppendEvent, CommitPermit, CommitAck, CommitVerifier,
     AdvanceRecovered

LEMMA RetryRename ==
  ASSUME JournalInv, RetryInv, RenameRecord  PROVE RetryInv'
<1>1. PICK h \in Seq(Record), r \in Record : h = mem /\ r = commit.record
  BY DEF JournalInv, JournalTypeOK, CommitType
<1>2. /\ open \in Sessions /\ open # NoSession /\ files[open] = h
      /\ files'[open] = Append(h, r)
      /\ \A s \in Sessions \ {open} : files'[s] = files[s]
      /\ Legal(h, r, commit.by) /\ commit'.by = commit.by
      /\ UNCHANGED <<unsure, open, mem, recovery, op>>
  BY <1>1 DEF RenameRecord, JournalInv, JournalTypeOK, CommitType, TempInv, ProcessInv,
              ghostVars
<1>3. unsure[open] => Launched(h) /\ Launched(Append(h, r))
  <2> SUFFICES ASSUME unsure[open]  PROVE Launched(h) /\ Launched(Append(h, r))
    OBVIOUS
  <2>1. Launched(h) /\ h # <<>>
    BY <1>1, <1>2 DEF RetryInv, Launched
  <2>2. ValidHistory(Append(h, r))
    BY <1>2, <2>1 DEF Legal
  <2> QED
    BY <2>1, <2>2, LaunchedStep
<1>4. \A s \in Sessions : unsure'[s] => Launched(files'[s])
  BY <1>2, <1>3 DEF RetryInv
<1> QED
  BY <1>2, <1>4 DEF RetryInv

LEMMA RetryCommitted ==
  ASSUME JournalInv, RetryInv, commit.at = "renamed", Committed,
         UNCHANGED <<files, open>>
  PROVE  RetryInv'
<1>1. PICK h \in Seq(Record), r \in Record : h = mem /\ r = commit.record
  BY DEF JournalInv, JournalTypeOK, CommitType
<1>2. /\ open \in Sessions /\ open # NoSession /\ files[open] = Append(h, r)
      /\ Legal(h, r, commit.by)
  BY <1>1 DEF JournalInv, JournalTypeOK, RenamedInv, ProcessInv
<1>3. /\ mem' = Append(h, r) /\ op' = NoOperation /\ commit' = NoCommit
      /\ unsure' = [unsure EXCEPT ![open] = @ /\ commit.by # "permit"]
  BY <1>2 DEF Committed
<1>4. \A s \in Sessions : unsure'[s] => unsure[s]
  BY <1>2, <1>3 DEF JournalInv, JournalTypeOK
<1>5. unsure'[open] => /\ unsure[open] /\ commit.by \notin {"none", "permit"}
                       /\ h # <<>> /\ ValidHistory(Append(h, r))
  <2>1. unsure'[open] => unsure[open] /\ commit.by # "permit"
    BY <1>2, <1>3 DEF JournalInv, JournalTypeOK
  <2>2. unsure[open] => h # <<>>
    BY <1>1, <1>2 DEF RetryInv, Launched
  <2>3. h # <<>> => ValidHistory(Append(h, r)) /\ commit.by # "none"
    BY <1>2 DEF Legal
  <2> QED
    BY <2>1, <2>2, <2>3
<1>6. unsure'[open] => Launched(Append(h, r)) /\ Beyond(Append(h, r))
  <2> SUFFICES ASSUME unsure'[open]  PROVE Launched(Append(h, r)) /\ Beyond(Append(h, r))
    OBVIOUS
  <2>1. unsure[open] /\ ~ recovery /\ op.at # "dispatched"
    BY <1>5 DEF RetryInv
  <2>2. Launched(h) /\ Beyond(h)
    BY <1>1, <1>2, <2>1 DEF RetryInv
  <2> QED
    BY <1>5, <2>2, LaunchedStep
<1> QED
  BY <1>2, <1>3, <1>4, <1>6 DEF RetryInv, NoOperation, NoCommit

LEMMA RetryFailed ==
  ASSUME JournalInv, RetryInv, commit.at \in {"temp", "renamed"}, NEW stale \in BOOLEAN,
         CommitFailed(stale), files' = files
  PROVE  RetryInv'
<1>1. /\ UNCHANGED <<unsure, mem>> /\ op' = NoOperation /\ commit' = NoCommit
      /\ open' = IF commit.by = "reserve" THEN NoSession ELSE open
  BY DEF CommitFailed
<1>2. recovery' \/ op.at # "dispatched"
  <2>1. commit.by # "none"
    BY DEF JournalInv, TempInv, RenamedInv, Legal
  <2>2. commit.by = "permit" => recovery'
    BY DEF CommitFailed
  <2> QED
    BY <2>1, <2>2 DEF RetryInv
<1>3. recovery => recovery'
  BY DEF CommitFailed
<1> QED
  BY <1>1, <1>2, <1>3 DEF RetryInv, NoOperation, NoCommit

LEMMA RetryOperation ==
  ASSUME JournalInv, RetryInv,
         \/ \E o \in Operations : BeginLifecycle(o)
         \/ Dispatch \/ CancelOperation \/ LoseOperation \/ CompleteNoEffect
         \/ \E kind \in {"ack", "verifier"} : BeginRecovered(kind)
  PROVE  RetryInv'
<1>0. /\ open \in Sessions /\ open # NoSession /\ mem \in Seq(Record) /\ mem # <<>>
      /\ commit = NoCommit /\ UNCHANGED <<files, open, mem, commit>>
      /\ unsure \in [Sessions -> BOOLEAN]
  BY DEF BeginLifecycle, Dispatch, CancelOperation, LoseOperation, CompleteNoEffect,
         BeginRecovered, Ready, JournalInv, JournalTypeOK, ProcessInv, diskVars, ghostVars
<1>1. ASSUME NEW o \in Operations, BeginLifecycle(o)  PROVE RetryInv'
  <2>1. /\ op = NoOperation /\ op' = [kind |-> o, at |-> "open"] /\ (recovery => o = "recover_scope")
        /\ Newest(mem).state \in OperationBase(o) /\ UNCHANGED <<unsure, recovery>>
        /\ o \notin {"ack", "verifier"}
    BY <1>1 DEF BeginLifecycle, ghostVars, Operations, RemoteOperations
  <2>2. op.at # "dispatched"
    BY <2>1 DEF NoOperation
  <2>3. o \in RemoteOperations \ {"recover_scope"} =>
          ~ recovery /\ Newest(mem).state \in EffectStates
    BY <2>1, EffectBase
  <2> QED
    BY <1>0, <2>1, <2>2, <2>3 DEF RetryInv
<1>2. CASE Dispatch
  <2>1. /\ op.kind \in RemoteOperations /\ op.at = "open" /\ op'.kind = op.kind
        /\ op'.at = "dispatched" /\ recovery' = recovery
        /\ \A s \in Sessions \ {open} : unsure'[s] = unsure[s]
        /\ unsure'[open] = (unsure[open] \/ op.kind # "recover_scope")
    BY <1>0, <1>2 DEF Dispatch, JournalInv, JournalTypeOK, OperationType
  <2>2. op.kind # "recover_scope" => Newest(mem).state \in EffectStates
    BY <2>1 DEF RetryInv
  <2>3. unsure'[open] => Launched(mem)
    <3>1. Newest(mem).state \in EffectStates => Launched(mem)
      BY <1>0 DEF Launched, RequiresRecovery, EffectStates
    <3> QED
      BY <1>0, <2>1, <2>2, <3>1 DEF RetryInv
  <2>4. files[open] = mem
    BY <1>0, <2>1 DEF JournalInv, OpInv, NoCommit, RemoteOperations
  <2>5. \A s \in Sessions : unsure'[s] => Launched(files[s])
    BY <2>1, <2>3, <2>4 DEF RetryInv
  <2> QED
    BY <1>0, <2>1, <2>2, <2>3, <2>5 DEF RetryInv, NoCommit, RemoteOperations
<1>3. CASE CancelOperation
  BY <1>3, RetryFrame DEF CancelOperation, diskVars, ghostVars
<1>4. CASE LoseOperation
  BY <1>0, <1>4 DEF LoseOperation, RetryInv, NoOperation, NoCommit, diskVars, ghostVars
<1>5. CASE CompleteNoEffect
  <2>1. /\ op' = NoOperation /\ unsure' = [unsure EXCEPT ![open] = FALSE]
    BY <1>5 DEF CompleteNoEffect
  <2> QED
    BY <1>0, <2>1 DEF RetryInv, NoOperation, NoCommit
<1>6. ASSUME NEW kind \in {"ack", "verifier"}, BeginRecovered(kind)  PROVE RetryInv'
  <2>1. /\ op = NoOperation /\ op' = [kind |-> kind, at |-> "open"] /\ ~ recovery
        /\ UNCHANGED <<unsure, recovery>>
    BY <1>6 DEF BeginRecovered, ghostVars
  <2> QED
    BY <1>0, <2>1 DEF RetryInv, NoOperation, NoCommit, RemoteOperations
<1> QED
  BY <1>1, <1>2, <1>3, <1>4, <1>5, <1>6

LEMMA RetryStore ==
  ASSUME JournalInv, RetryInv,
         \/ OpenStore \/ CloseStore \/ MakeDirectory \/ Kill
         \/ \E s \in Sessions : LoadIncomplete(s) \/ ReserveSession(s)
  PROVE  RetryInv'
<1>1. CASE OpenStore
  BY <1>1, RetryFrame DEF OpenStore
<1>2. CASE CloseStore
  <2>1. commit = NoCommit
    BY <1>2 DEF CloseStore, JournalInv, ProcessInv
  <2> QED
    BY <1>2, <2>1, RetryDown DEF CloseStore, diskVars, ghostVars
<1>3. CASE MakeDirectory
  <2>1. commit'.by = commit.by
    BY <1>3 DEF MakeDirectory, JournalInv, JournalTypeOK, CommitType
  <2> QED
    BY <1>3, <2>1, RetryFrame DEF MakeDirectory, ghostVars
<1>4. CASE Kill
  BY <1>4, RetryDown DEF Kill, Forgotten, ghostVars
<1>5. ASSUME NEW s \in Sessions, LoadIncomplete(s)  PROVE RetryInv'
  <2>1. /\ open' = s /\ mem' = files[s] /\ recovery' = RequiresRecovery(files[s])
        /\ op' = NoOperation /\ commit' = NoCommit /\ UNCHANGED <<files, unsure>>
    BY <1>5 DEF LoadIncomplete, JournalInv, ProcessInv
  <2>2. unsure[s] => Launched(files[s]) /\ (RequiresRecovery(files[s]) \/ Beyond(files[s]))
    BY DEF RetryInv, Launched
  <2> QED
    BY <2>1, <2>2 DEF RetryInv, NoOperation, NoCommit
<1>6. ASSUME NEW s \in Sessions, ReserveSession(s)  PROVE RetryInv'
  <2>1. /\ files[s] = <<>> /\ UNCHANGED <<files, unsure>>
        /\ \/ /\ open' = s /\ mem' = <<>> /\ recovery' = FALSE /\ op' = NoOperation
           \/ UNCHANGED <<open, mem, recovery, op, commit>>
    BY <1>6 DEF ReserveSession
  <2>2. ~ unsure[s]
    BY <2>1 DEF RetryInv, Launched
  <2>3. CASE open' = s /\ mem' = <<>> /\ recovery' = FALSE /\ op' = NoOperation
    BY <2>1, <2>2, <2>3 DEF RetryInv, NoOperation
  <2>4. CASE UNCHANGED <<open, mem, recovery, op, commit>>
    BY <2>1, <2>4 DEF RetryInv
  <2> QED
    BY <2>1, <2>3, <2>4
<1> QED
  BY <1>1, <1>2, <1>3, <1>4, <1>5, <1>6

LEMMA RetryPower ==
  ASSUME JournalInv, ArchiveInv, RetryInv, LosePower  PROVE RetryInv'
<1>1. PICK kept \in [Sessions -> 0 .. MaxEvents] :
        /\ \A s \in Sessions : kept[s] \in synced[s] .. Len(files[s])
        /\ files' = [s \in Sessions |-> SubSeq(files[s], 1, kept[s])]
  BY DEF LosePower
<1>2. /\ "power" \in Faults /\ open' = NoSession /\ op' = NoOperation /\ commit' = NoCommit
      /\ UNCHANGED unsure
  BY DEF LosePower, Forgotten, ghostVars
<1>3. ASSUME NEW s \in Sessions
      PROVE  files'[s] = files[s] \/ (s = open /\ files'[s] = mem)
  <2>1. PICK h \in Seq(Record), k \in Nat :
          k <= Len(h) /\ h = files[s] /\ k \in synced[s] .. Len(h) /\ files'[s] = SubSeq(h, 1, k)
    <3>1. files[s] \in Seq(Record) /\ synced[s] \in Nat /\ Len(files[s]) \in Nat
      BY DEF JournalInv, JournalTypeOK
    <3>2. kept[s] \in Nat /\ kept[s] <= Len(files[s]) /\ kept[s] \in synced[s] .. Len(files[s])
      BY <1>1, <3>1
    <3> QED
      BY <1>1, <3>1, <3>2
  <2>2. CASE k = Len(h)
    BY <2>1, <2>2, SubSeqFull
  <2>3. CASE k # Len(h)
    <3>1. synced[s] # Len(h) /\ synced[s] \in Nat /\ Len(h) \in Nat
      BY <2>1, <2>3 DEF JournalInv, JournalTypeOK
    <3>2. commit.at = "renamed" /\ s = open /\ synced[s] = Len(mem)
      BY <1>2, <2>1, <3>1 DEF ArchiveInv
    <3>3. PICK m \in Seq(Record), r \in Record : m = mem /\ h = Append(m, r)
      BY <2>1, <3>2 DEF JournalInv, RenamedInv, JournalTypeOK, CommitType
    <3>4. Len(h) = Len(m) + 1 /\ SubSeq(h, 1, Len(m)) = m
      BY <3>3, PrefixOfAppend
    <3>5. k = Len(m)
      <4>1. Len(m) \in Nat /\ Len(h) = Len(m) + 1 /\ synced[s] = Len(m)
        BY <3>2, <3>3, <3>4
      <4>2. k >= synced[s] /\ k <= Len(h)
        BY <2>1, <3>1
      <4> QED
        BY <2>3, <4>1, <4>2
    <3> QED
      BY <2>1, <3>2, <3>3, <3>4, <3>5
  <2> QED
    BY <2>2, <2>3
<1>4. ASSUME NEW s \in Sessions, unsure[s]  PROVE Launched(files'[s])
  <2>1. Launched(files[s]) /\ (s = open => Launched(mem))
    BY <1>4, JournalAssumption DEF RetryInv, JournalAssumption
  <2> QED
    BY <1>3, <2>1
<1> QED
  BY <1>2, <1>4 DEF RetryInv, NoOperation, NoCommit

LEMMA RetryKeeps ==
  ASSUME JournalInv, ArchiveInv, RetryInv, JournalNext  PROVE RetryInv'
<1>1. CASE SyncDirectory
  BY <1>1, RetryCommitted DEF SyncDirectory
<1>2. CASE FailBeforeRename
  <2>1. (temps[open] + 1 > MaxTemps) \in BOOLEAN
    OBVIOUS
  <2> QED
    BY <1>2, <2>1, RetryFailed DEF FailBeforeRename
<1>3. CASE FailToSync
  BY <1>3, RetryFailed, RetryCommitted DEF FailToSync
<1> QED
  BY <1>1, <1>2, <1>3, RetryStore, RetryRename, RetryCommits, RetryOperation, RetryPower
  DEF JournalNext

LEMMA RetryInvariant == ASSUME PowerAlone  PROVE JournalSpec => []RetryInv
<1>1. JournalInit => RetryInv
  BY DEF JournalInit, RetryInv, NoOperation, NoCommit
<1>2. JournalInv /\ ArchiveInv /\ RetryInv /\ [JournalNext]_journalVars => RetryInv'
  <2>1. ASSUME RetryInv, UNCHANGED journalVars  PROVE RetryInv'
    BY <2>1 DEF journalVars, RetryInv
  <2> QED
    BY <2>1, RetryKeeps
<1> QED
  BY <1>1, <1>2, JournalInvariant, ArchiveInvariant, PTL DEF JournalSpec

\* An effect on the supervisor whose outcome was lost is never dispatched again
\* but by a recovery of the scope (_begin_lifecycle_operation_for_client,
\* _history_requires_lifecycle_recovery), for any kills and I/O errors, or any
\* power losses: a reload finds in the records alone that it has to recover.
THEOREM NeverRetriedBlindly == ASSUME PowerAlone  PROVE JournalSpec => NoBlindRetry
<1>1. JournalInv /\ RetryInv /\ [JournalNext]_journalVars =>
        (op.at = "open" /\ op'.at = "dispatched" /\ op.kind # "recover_scope"
           => ~ unsure[open])
  <2> SUFFICES ASSUME JournalInv, RetryInv, [JournalNext]_journalVars,
                      op.at = "open", op'.at = "dispatched", op.kind # "recover_scope"
               PROVE  ~ unsure[open]
    OBVIOUS
  <2>1. Dispatch
    <3>1. op' # op /\ op' # NoOperation
      BY DEF NoOperation
    <3>2. ~ (OpenStore \/ CloseStore \/ MakeDirectory \/ RenameRecord \/ SyncDirectory
             \/ FailBeforeRename \/ FailToSync \/ Kill \/ LosePower)
      BY <3>1 DEF OpenStore, CloseStore, MakeDirectory, RenameRecord, SyncDirectory,
                  Committed, FailBeforeRename, FailToSync, CommitFailed, Kill, LosePower,
                  Forgotten
    <3>3. ~ \E s \in Sessions : LoadIncomplete(s) \/ ReserveSession(s)
      BY <3>1 DEF LoadIncomplete, ReserveSession
    <3>4. ~ (\/ \E r \in Record : AppendEvent(r) \/ CommitPermit(r)
             \/ CommitAck \/ CommitVerifier \/ AdvanceRecovered)
      BY <3>1 DEF AppendEvent, CommitPermit, BeginCommit, CommitAck, CommitVerifier,
                  AdvanceRecovered
    <3>5. ~ (CancelOperation \/ LoseOperation \/ CompleteNoEffect)
      BY <3>1 DEF CancelOperation, LoseOperation, CompleteNoEffect
    <3>6. ~ \E o \in Operations : BeginLifecycle(o)
      BY DEF BeginLifecycle
    <3>7. ~ \E kind \in {"ack", "verifier"} : BeginRecovered(kind)
      BY DEF BeginRecovered
    <3>8. ~ UNCHANGED journalVars
      BY <3>1 DEF journalVars
    <3> QED
      BY <3>2, <3>3, <3>4, <3>5, <3>6, <3>7, <3>8 DEF JournalNext
  <2>2. /\ op.kind \in RemoteOperations \ {"recover_scope"} /\ open # NoSession
    BY <2>1 DEF Dispatch, Ready
  <2>3. ~ recovery /\ Newest(mem).state \in EffectStates
    BY <2>2 DEF RetryInv
  <2>4. ~ Beyond(mem)
    BY <2>3 DEF Beyond
  <2> QED
    BY <2>2, <2>3, <2>4 DEF RetryInv
<1> QED
  BY <1>1, JournalInvariant, RetryInvariant, PTL DEF JournalSpec, NoBlindRetry

-----------------------------------------------------------------------------
(* The histories: what the files of one session go through is what         *)
(* JournalHistory allows. Its rules are those of JournalRules.             *)

LEMMA SameRecord == ASSUME NEW s  PROVE History(s)!Record = Record
  BY DEF Record, History!Record, ClearanceMarks, History!ClearanceMarks,
         ScopeEmptyMarks, History!ScopeEmptyMarks, Dispositions, History!Dispositions,
         ReconciliationResults, History!ReconciliationResults, AckMarks,
         History!AckMarks, EvidenceMarks, History!EvidenceMarks, Namespaces,
         History!Namespaces, CleanupPhases, History!CleanupPhases, CleanupResults,
         History!CleanupResults, CapturePlain, History!CapturePlain, AdoptionPlain,
         History!AdoptionPlain, SigningPlain, History!SigningPlain, PublicationPlain,
         History!PublicationPlain, RemovalPlain, History!RemovalPlain, OperatorPlain,
         History!OperatorPlain, Plain, History!Plain, Verified, History!Verified

LEMMA SameChain == ASSUME NEW s, NEW h  PROVE History(s)!Chain(h) <=> Chain(h)
  BY DEF Chain, History!Chain, Allowed, History!Allowed, AllowedAhead,
         History!AllowedAhead, Terminal, History!Terminal, Singular, History!Singular,
         EffectOrigins, History!EffectOrigins, LinearSuccessor, History!LinearSuccessor,
         Resolves, History!Resolves, QuarantineResolution, History!QuarantineResolution,
         Verified, History!Verified, TombstoneOrigin, History!TombstoneOrigin,
         ClearedOrigin, History!ClearedOrigin, Behind, History!Behind, First,
         History!First, At, History!At, Has, History!Has

LEMMA SameCardinality == ASSUME NEW s, NEW S  PROVE History(s)!Cardinality(S) = Cardinality(S)
  BY DEF Cardinality, History!Cardinality

LEMMA SameTombstone == ASSUME NEW s, NEW h  PROVE History(s)!Tombstone(h) <=> Tombstone(h)
<1>1. \A n : History(s)!At(h, n) = At(h, n)
  BY DEF At, History!At
<1>2. /\ \A n : /\ History(s)!Has(h, n) <=> Has(h, n)
               /\ History(s)!First(h, n) = First(h, n)
      /\ \A i : History(s)!Behind(h, i) = Behind(h, i)
      /\ \A d : History(s)!ExpectedDisposition(d) = ExpectedDisposition(d)
  BY <1>1 DEF Has, History!Has, First, History!First, Behind, History!Behind,
              ExpectedDisposition, History!ExpectedDisposition
<1>3. \A i : History(s)!TombstoneOrigin(h, i) = TombstoneOrigin(h, i)
  BY <1>2 DEF TombstoneOrigin, History!TombstoneOrigin, ClearedOrigin, History!ClearedOrigin
<1>4. \A i : History(s)!Reconciliation(h, i) <=> Reconciliation(h, i)
  BY <1>1, <1>2, <1>3 DEF Reconciliation, History!Reconciliation
<1>5. History(s)!Recovered(h) <=> Recovered(h)
  BY <1>1 DEF Recovered, History!Recovered
<1>6. \A i : History(s)!Continuation(h, i) <=> Continuation(h, i)
  BY <1>1, <1>2, <1>3, <1>5, SameCardinality DEF Continuation, History!Continuation
<1> QED
  BY <1>1, <1>2, <1>4, <1>5, <1>6, SameCardinality DEF Tombstone, History!Tombstone

LEMMA SameRecoveredEvidence ==
  ASSUME NEW s, NEW h  PROVE History(s)!RecoveredEvidence(h) <=> RecoveredEvidence(h)
  BY SameCardinality
  DEF RecoveredEvidence, History!RecoveredEvidence, Verified, History!Verified,
         First, History!First, At, History!At

LEMMA SameLifecycle == ASSUME NEW s, NEW h  PROVE History(s)!Lifecycle(h) <=> Lifecycle(h)
  BY DEF Lifecycle, History!Lifecycle, EffectOrigins, History!EffectOrigins,
         ClearedOrigin, History!ClearedOrigin, Behind, History!Behind, First,
         History!First, At, History!At, Has, History!Has

LEMMA SameQuarantine == ASSUME NEW s, NEW h  PROVE History(s)!Quarantine(h) <=> Quarantine(h)
  BY DEF Quarantine, History!Quarantine, QuarantineOrigin, History!QuarantineOrigin,
         Verified, History!Verified, Behind, History!Behind, First, History!First, At,
         History!At, Has, History!Has

LEMMA SameCleanup == ASSUME NEW s, NEW h  PROVE History(s)!Cleanup(h) <=> Cleanup(h)
  BY DEF Cleanup, History!Cleanup, At, History!At

LEMMA SameHistory == ASSUME NEW s, NEW h  PROVE History(s)!ValidHistory(h) <=> ValidHistory(h)
  BY SameChain, SameTombstone, SameRecoveredEvidence, SameLifecycle, SameQuarantine, SameCleanup
  DEF ValidHistory, History!ValidHistory

\* The record files of a session change only as its history may.
LEMMA RenameExtends ==
  ASSUME JournalInv, RenameRecord, NEW s \in Sessions, files'[s] # files[s]
  PROVE  History(s)!HistoryNext
<1>1. PICK h \in Seq(Record), r \in Record : h = mem /\ r = commit.record
  BY DEF JournalInv, JournalTypeOK, CommitType
<1>2. /\ s = open /\ files[s] = h /\ files'[s] = Append(h, r) /\ Legal(h, r, commit.by)
  BY <1>1 DEF RenameRecord, JournalInv, JournalTypeOK, CommitType, TempInv, ProcessInv
<1>3. CASE commit.by = "reserve"
  <2>1. h = <<>> /\ r = [state |-> "reserved", mark |-> "none"]
    BY <1>2, <1>3 DEF Legal
  <2>2. Append(h, r) = <<[state |-> "reserved", mark |-> "none"]>>
    BY <2>1
  <2>3. History(s)!Reserve
    BY <1>2, <2>1, <2>2 DEF History!Reserve
  <2> QED
    BY <2>3 DEF History!HistoryNext
<1>4. CASE commit.by # "reserve"
  <2>1. h # <<>> /\ ValidHistory(Append(h, r))
    BY <1>2, <1>4 DEF Legal
  <2>2. History(s)!ValidHistory(Append(h, r))
    BY <2>1, SameHistory
  <2>3. History(s)!Extend
    BY <1>2, <2>1, <2>2, SameRecord DEF History!Extend
  <2> QED
    BY <2>3 DEF History!HistoryNext
<1> QED
  BY <1>3, <1>4

LEMMA OnlyRenames ==
  ASSUME [JournalNext]_journalVars, ~ LosePower, files' # files  PROVE RenameRecord
<1>1. ~ (OpenStore \/ CloseStore \/ MakeDirectory \/ SyncDirectory \/ FailBeforeRename
         \/ FailToSync \/ Kill)
  BY DEF OpenStore, CloseStore, diskVars, MakeDirectory, SyncDirectory, FailBeforeRename,
         FailToSync, Kill
<1>2. ~ \E s \in Sessions : LoadIncomplete(s) \/ ReserveSession(s)
  BY DEF LoadIncomplete, ReserveSession
<1>3. ~ (\/ \E r \in Record : AppendEvent(r) \/ CommitPermit(r)
         \/ CommitAck \/ CommitVerifier \/ AdvanceRecovered)
  BY DEF AppendEvent, CommitPermit, BeginCommit, CommitAck, CommitVerifier,
         AdvanceRecovered, diskVars
<1>4. ~ (\/ Dispatch \/ CancelOperation \/ LoseOperation \/ CompleteNoEffect
         \/ \E o \in Operations : BeginLifecycle(o)
         \/ \E kind \in {"ack", "verifier"} : BeginRecovered(kind))
  BY DEF Dispatch, CancelOperation, LoseOperation, CompleteNoEffect, BeginLifecycle,
         BeginRecovered, diskVars
<1>5. ~ UNCHANGED journalVars
  BY DEF journalVars
<1> QED
  BY <1>1, <1>2, <1>3, <1>4, <1>5 DEF JournalNext

LEMMA StepExtends ==
  ASSUME JournalInv, [JournalNext]_journalVars, ~ LosePower  PROVE HistoryStep
  BY OnlyRenames, RenameExtends DEF HistoryStep

\* Whatever goes wrong, short of a loss of power, the records of a session change
\* only by one more that keeps its history valid (_prepare_candidate,
\* _commit_candidate): no retry, reload or half commit writes a record twice.
THEOREM HistoriesOnlyGrow == JournalSpec => [][LosePower \/ HistoryStep]_journalVars
<1>1. JournalInv /\ [JournalNext]_journalVars => LosePower \/ HistoryStep
  BY StepExtends
<1> QED
  BY <1>1, JournalInvariant, PTL DEF JournalSpec

\* On a host that keeps its power the journal implements JournalHistory, session
\* by session.
THEOREM JournalImplementsHistory ==
  ASSUME "power" \notin Faults, NEW t \in Sessions
  PROVE  JournalSpec => History(t)!HistorySpec
<1>1. JournalInit => History(t)!HistoryInit
  BY DEF JournalInit, History!HistoryInit
<1>2. JournalInv /\ [JournalNext]_journalVars => [History(t)!HistoryNext]_(files[t])
  <2>1. ~ LosePower
    BY DEF LosePower
  <2> QED
    BY <2>1, StepExtends DEF HistoryStep
<1> QED
  BY <1>1, <1>2, JournalInvariant, PTL DEF JournalSpec, History!HistorySpec

-----------------------------------------------------------------------------
(* What the run checks.                                                    *)

\* The open journal, through any kills and I/O errors or any power losses: one
\* transaction, memory behind the disk by at most a record, what was reported
\* durable and what is archived terminal (append_event, _commit_record, archive).
THEOREM JournalIsSafe == ASSUME PowerAlone  PROVE JournalSpec => []JournalSafe
<1>1. JournalInv => JournalTypeOK /\ ReportedDurable
  BY DEF JournalInv, DiskInv, ReportedDurable
<1>2. JournalInv /\ ArchiveInv => JournalSafe
  BY <1>1, MemoryFollows, OneActive DEF JournalSafe, ArchiveInv
<1> QED
  BY <1>2, JournalInvariant, ArchiveInvariant, PTL

\* No step dispatches an unresolved effect again, and the records of a session
\* change only by one more that keeps its history valid or by the loss of
\* records that were not durable (_commit_candidate).
THEOREM JournalStepsKept == ASSUME PowerAlone  PROVE JournalSpec => JournalSteps
<1>1. JournalInv /\ [JournalNext]_journalVars =>
        \A s \in Sessions :
          files'[s] # files[s] => History(s)!HistoryNext \/ CutShort(s)
  <2> SUFFICES ASSUME JournalInv, [JournalNext]_journalVars, NEW s \in Sessions,
                      files'[s] # files[s]
               PROVE  History(s)!HistoryNext \/ CutShort(s)
    OBVIOUS
  <2>1. CASE ~ LosePower
    BY <2>1, StepExtends DEF HistoryStep
  <2>2. CASE LosePower
    BY <2>2 DEF LosePower, Forgotten, CutShort
  <2> QED
    BY <2>1, <2>2
<1> QED
  BY <1>1, JournalInvariant, NeverRetriedBlindly, PTL DEF JournalSpec, JournalSteps

=============================================================================

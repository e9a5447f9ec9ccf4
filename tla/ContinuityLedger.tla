--------------------------- MODULE ContinuityLedger ---------------------------
(***************************************************************************)
(* The continuity store of a runtime: an append-only ledger with its head  *)
(* (john_lomein_continuity.py), the journal of signed imports with its     *)
(* head (john_lomein_continuity_importer.py) and the one transaction file  *)
(* both writers use. Every operation holds the exclusive flock of the      *)
(* store; a process may be killed between any two effects, and a power     *)
(* loss takes what was not synced. A digest is modelled by what it is the  *)
(* digest of: a head holds the rows it commits to.                         *)
(***************************************************************************)
EXTENDS Integers, Sequences, FiniteSets

CONSTANTS
  Procs, Hook,         \* Hook: the process of the plugin's projections
  Commands,            \* the operations in use
  Requests, WriteIds, Ids,
  Id,                  \* [Requests \cup WriteIds -> Ids], entry ids
  Target,              \* [Requests \cup WriteIds -> Ids \cup {None}]
  Suppressions,        \* the write ids whose effect is a suppression
  None,
  MaxTime, MaxKills, MaxLosses, MaxTorn, MaxSigned, MaxEdits,     \* bounds
  TTL, Skew

ContinuityConstants ==
  /\ \A n \in {MaxTime, MaxKills, MaxLosses, MaxTorn, MaxSigned, MaxEdits, Skew} : n \in Nat
  /\ TTL \in Nat \ {0}
  /\ Id \in [Requests \cup WriteIds -> Ids]
  /\ Target \in [Requests \cup WriteIds -> Ids \cup {None}]
  /\ Suppressions \subseteq WriteIds /\ Hook \in Procs

VARIABLES
  now, faults, edits,
  file,      \* the ledger and the journal: rows, how many are synced, a torn tail
  head,      \* their heads: the rows they commit to and updated_at
  pending,   \* continuity-transaction.json
  unlinked,  \* what a power loss may bring back at its name
  config,    \* the importer's configuration file
  key,       \* the state of the signing key in it
  envelopes, \* signed
  proc,      \* the processes; at most one is past the lock
  acked,     \* what was answered, and to whom
  view       \* what the last capsule showed, and every entry one has hidden

disk == <<file, head, pending, unlinked>>
setup == <<config, key, edits>>
vars == <<now, faults, disk, setup, envelopes, proc, acked, view>>

Times == 0 .. MaxTime + Skew
Rows(f) == file[f].rows
Absent == [rows |-> <<>>, at |-> -1]
NoTx == [kind |-> "none"]
Idle == [pc |-> "idle"]
Importer == {"admit", "recover", "project"}
Operations == Importer \cup {"append", "init", "capsule"}   \* "init" stands for verify, too

EntryType == [id : Ids, by : Requests \cup WriteIds, at : Times, target : Ids \cup {None}]
HeadType == [rows : Seq(EntryType), at : Times]
EnvelopeType == [write : WriteIds, issued : Times, expires : Nat, head : HeadType]
RecordType == [write : WriteIds, env : EnvelopeType, at : Times]
Held(p) == proc[p].pc \notin {"idle", "wait"}
Free == \A p \in Procs : ~Held(p)

\* The entry a normalised write request stands for.
Entry(x, at) == [id |-> Id[x], by |-> x, at |-> at, target |-> Target[x]]

\* What build_capsule and effective_entries leave out.
Superseded(rows) == {rows[i].target : i \in DOMAIN rows} \ {None}
_suppressed_ids(records) ==
  {Target[records[i].write] : i \in {j \in DOMAIN records : records[j].write \in Suppressions}}
\* Mutant: the supersession edges of the entries that are left only.
EffectiveAfterTombstones(rows, records) ==
  {rows[i].id : i \in DOMAIN rows} \ (_suppressed_ids(records) \cup
    {rows[i].target : i \in {j \in DOMAIN rows : rows[j].id \notin _suppressed_ids(records)}})
effective_entries(rows, records) ==
  {rows[i].id : i \in DOMAIN rows} \ (Superseded(rows) \cup _suppressed_ids(records))

ContinuityTypeOK ==
  /\ now \in 0 .. MaxTime /\ edits \in 0 .. MaxEdits
  /\ faults \in [kill : 0 .. MaxKills, loss : 0 .. MaxLosses, torn : 0 .. MaxTorn]
  /\ \A f \in {"ledger", "journal"} :
       /\ file[f].there \in BOOLEAN /\ file[f].torn \in BOOLEAN
       /\ file[f].synced \in 0 .. Len(Rows(f))
       /\ Len(Rows(f)) - file[f].synced =< 1
       /\ head[f].at \in Times \cup {-1}
  /\ Rows("ledger") \in Seq(EntryType) /\ Rows("journal") \in Seq(RecordType)
  /\ envelopes \subseteq EnvelopeType
  /\ pending.kind \in {"none", "ordinary", "import"}
  /\ config \in {"absent", "disabled", "enabled"}
  /\ key \in {"active", "retired", "revoked"}
  /\ Cardinality(envelopes) =< MaxSigned
  /\ Cardinality({p \in Procs : Held(p)}) =< 1
  /\ view.shown \subseteq Ids /\ view.hidden \subseteq Ids

Init ==
  /\ now = 0 /\ edits = 0
  /\ faults = [kill |-> 0, loss |-> 0, torn |-> 0]
  /\ file = [f \in {"ledger", "journal"} |->
               [there |-> FALSE, rows |-> <<>>, synced |-> 0, torn |-> FALSE]]
  /\ head = [f \in {"ledger", "journal"} |-> Absent]
  /\ pending = NoTx /\ unlinked = NoTx
  /\ config = "absent" /\ key = "active"
  /\ envelopes = {}
  /\ proc = [p \in Procs |-> Idle]
  /\ acked = {}
  /\ view = [shown |-> {}, hidden |-> {}]

-----------------------------------------------------------------------------
(* What is verified before anything is believed *)

\* _validate_supersession: the target is there, not yet superseded, and a
\* signed (owner) entry gives way to a signed one only.
_validate_supersession(e, rows) ==
  e.target # None =>
    /\ e.target \notin Superseded(rows)
    /\ \E i \in DOMAIN rows : /\ rows[i].id = e.target
                              /\ rows[i].by \in WriteIds => e.by \in WriteIds

\* _verify_ledger_snapshot
_verify_ledger_snapshot(rows, h) ==
  /\ rows = h.rows
  /\ rows # <<>> => h.at = rows[Len(rows)].at
  /\ \A i \in DOMAIN rows :
       LET before == SubSeq(rows, 1, i - 1)
       IN  /\ \A j \in DOMAIN before : before[j].id # rows[i].id /\ before[j].at =< rows[i].at
           /\ _validate_supersession(rows[i], before)

\* _load_protocol_material
Configured == config # "absent"

\* _verify_cryptographic_history: a retired key still verifies, a revoked one
\* does not.
HistoryVerifies == key # "revoked"

\* verify_for_replay of a recorded envelope, and what its record says of the
\* ledger: an entry follows the head that was signed, a target was under it.
_verify_record_binding(r, rows) ==
  /\ HistoryVerifies
  /\ r.at = r.env.issued
  /\ LET n == Len(r.env.head.rows)
     IN  /\ n =< Len(rows) /\ SubSeq(rows, 1, n) = r.env.head.rows
         /\ IF r.write \in Suppressions
            THEN \E i \in 1 .. n : rows[i].id = Target[r.write]
            ELSE n < Len(rows) /\ rows[n + 1].by = r.write /\ rows[n + 1].at = r.at

\* _verify_journal_snapshot
_verify_journal_snapshot(records, h, rows) ==
  /\ records = h.rows
  /\ records # <<>> => h.at = records[Len(records)].at
  /\ \A i \in DOMAIN records :
       /\ _verify_record_binding(records[i], rows)
       /\ \A j \in 1 .. i - 1 :
            /\ records[j].write # records[i].write
            /\ records[j].at =< records[i].at
            /\ {records[i].write, records[j].write} \subseteq Suppressions =>
                 Target[records[j].write] # Target[records[i].write]

\* Mutant: a partial last line passes.
WholeEnough(f) == file[f].there
Whole(f) == file[f].there /\ ~file[f].torn

\* _verify_store_unlocked
StoreVerifies ==
  /\ pending = NoTx
  /\ Whole("ledger") /\ head["ledger"] # Absent
  /\ _verify_ledger_snapshot(Rows("ledger"), head["ledger"])

\* _read_verified_import_state_unlocked
JournalVerifies ==
  /\ Whole("journal") /\ head["journal"] # Absent
  /\ _verify_journal_snapshot(Rows("journal"), head["journal"], Rows("ledger"))
NoJournal == ~file["journal"].there /\ head["journal"] = Absent
ImportVerifies == NoJournal \/ JournalVerifies

-----------------------------------------------------------------------------
(* The importer's configuration, the signer and the clock *)

Configure(c, k) ==
  /\ <<c, k>> # <<config, key>> /\ edits < MaxEdits
  /\ key = "retired" => k # "active"
  /\ key = "revoked" => k = "revoked"
  /\ config' = c /\ key' = k /\ edits' = edits + 1
  /\ UNCHANGED <<now, faults, disk, envelopes, proc, acked, view>>

\* A signer works from a head it was shown, here or in the past.
Sign(w, issued, n) ==
  LET h == head["ledger"]
      e == [write |-> w, issued |-> issued, expires |-> issued + TTL,
            head |-> IF n = Len(h.rows) THEN h
                     ELSE [rows |-> SubSeq(h.rows, 1, n), at |-> h.rows[n].at]]
  IN  /\ h # Absent /\ n =< Len(h.rows)
      /\ n = Len(h.rows) \/ n > 0
      /\ e.head.at =< issued
      /\ Cardinality(envelopes) < MaxSigned /\ e \notin envelopes
      /\ envelopes' = envelopes \cup {e}
      /\ UNCHANGED <<now, faults, disk, setup, proc, acked, view>>

Tick ==
  /\ now < MaxTime
  /\ now' = now + 1
  /\ UNCHANGED <<faults, disk, setup, envelopes, proc, acked, view>>

-----------------------------------------------------------------------------
(* Taking the lock *)

\* append_entry reads its clock before it waits for the lock.
Begin(p, op, what) ==
  /\ proc[p].pc = "idle"
  /\ proc' = [proc EXCEPT ![p] = [pc |-> "wait", op |-> op, what |-> what,
                                 at |-> IF op \in {"append", "init"} THEN now ELSE 0]]
  /\ UNCHANGED <<now, faults, disk, setup, envelopes, acked, view>>

Go(p, pc) == proc' = [proc EXCEPT ![p].pc = pc]
Quit(p) == proc' = [proc EXCEPT ![p] = Idle]

\* Mutant: no lock.
AcquireAnyway(p) ==
  /\ proc[p].pc = "wait"
  /\ head["ledger"] # Absent \/ proc[p].op = "init"
  /\ Go(p, "recover")
  /\ UNCHANGED <<now, faults, disk, setup, envelopes, acked, view>>

\* The store has a lock file only once it is initialised.
Acquire(p) ==
  /\ proc[p].pc = "wait" /\ Free
  /\ head["ledger"] # Absent \/ proc[p].op = "init"
  /\ Go(p, "recover")
  /\ UNCHANGED <<now, faults, disk, setup, envelopes, acked, view>>

\* LOCK_TIMEOUT_SECONDS, store_busy
GiveUp(p) ==
  /\ proc[p].pc = "wait" /\ ~Free
  /\ Quit(p)
  /\ UNCHANGED <<now, faults, disk, setup, envelopes, acked, view>>

\* initialize_store: the empty ledger, synced, then its head. An initialiser
\* killed between the two leaves what the next one completes.
CreateLedger(p) ==
  /\ proc[p].pc = "recover" /\ proc[p].op = "init"
  /\ ~file["ledger"].there
  /\ file' = [file EXCEPT !["ledger"].there = TRUE]
  /\ UNCHANGED <<now, faults, head, pending, unlinked, setup, envelopes, proc, acked, view>>

CreateHead(p) ==
  /\ proc[p].pc = "recover" /\ proc[p].op = "init"
  /\ file["ledger"].there /\ head["ledger"] = Absent
  /\ Rows("ledger") = <<>> /\ pending = NoTx
  /\ head' = [head EXCEPT !["ledger"] = [rows |-> <<>>, at |-> proc[p].at]]
  /\ Quit(p)
  /\ UNCHANGED <<now, faults, file, pending, unlinked, setup, envelopes, acked, view>>

-----------------------------------------------------------------------------
(* Recovery: _recover_transaction_unlocked, _recover_import_transaction_    *)
(* unlocked. The recoverable projections are enumerated; from each the      *)
(* recovering process goes on where the killed one was.                     *)

Grown(f) == Append(pending.pre[f].rows, pending.row[f])
Untouched(f) == Whole(f) /\ head[f] = pending.pre[f] /\ Rows(f) = pending.pre[f].rows
Tailed(f) == Whole(f) /\ head[f] = pending.pre[f] /\ Rows(f) = Grown(f)
Complete(f) == Whole(f) /\ head[f] = pending.post[f] /\ Rows(f) = Grown(f)

\* The transaction's own rows, verified against what precedes them.
OrdinaryVerifies == _verify_ledger_snapshot(Grown("ledger"), pending.post["ledger"])
ImportTxVerifies ==
  IF pending.row["ledger"] = None
  THEN _verify_journal_snapshot(Grown("journal"), pending.post["journal"],
                                pending.pre["ledger"].rows)
  ELSE /\ OrdinaryVerifies
       /\ _verify_journal_snapshot(Grown("journal"), pending.post["journal"], Grown("ledger"))
PendingVerifies ==
  IF pending.kind = "ordinary" THEN OrdinaryVerifies ELSE ImportTxVerifies

\* Where the recovering process goes on; "stuck" is store_ambiguous or
\* state_invalid.
Resume ==
  CASE ~PendingVerifies -> "stuck"
    [] pending.kind = "ordinary" ->
         CASE Untouched("ledger") -> "unlink"
           [] Tailed("ledger") -> "fsync"
           [] Complete("ledger") -> "unlink"
           [] OTHER -> "stuck"
    [] OTHER ->
         LET put == pending.row["ledger"] # None IN
         CASE put /\ Untouched("ledger") /\ Untouched("journal") -> "unlink"
           [] put /\ Tailed("ledger") /\ Untouched("journal") -> "fsync"
           [] ~put /\ Untouched("ledger") /\ Untouched("journal") -> "unlink"
           [] put /\ Complete("ledger") /\ Untouched("journal") -> "jappend"
           [] (IF put THEN Complete("ledger") ELSE Untouched("ledger")) /\ Tailed("journal") -> "jfsync"
           [] (IF put THEN Complete("ledger") ELSE Untouched("ledger")) /\ Complete("journal") -> "unlink"
           [] OTHER -> "stuck"

\* Mutant: nobody knows an import's transaction.
MayRecoverOrdinary(op) == pending.kind = "ordinary"

\* Which transactions an operation recovers: ordinary writers and readers do
\* not know an import's, an unconfigured projection fails closed on it.
MayRecover(op) ==
  IF op \in Importer THEN Configured \/ (op = "project" /\ pending.kind = "ordinary")
  ELSE pending.kind = "ordinary"

Recover(p) ==
  /\ proc[p].pc = "recover" /\ head["ledger"] # Absent
  /\ pending # NoTx
  /\ IF MayRecover(proc[p].op) /\ Resume # "stuck"
     THEN proc' = [proc EXCEPT ![p] =
            [pc |-> Resume, op |-> proc[p].op, what |-> proc[p].what, at |-> proc[p].at,
             done |-> pending.by, ok |-> Resume # "unlink" \/ ~Untouched("ledger")]]
     ELSE Quit(p)
  /\ UNCHANGED <<now, faults, disk, setup, envelopes, acked, view>>

NothingPending(p) ==
  /\ proc[p].pc = "recover" /\ head["ledger"] # Absent
  /\ pending = NoTx
  /\ Go(p, "work")
  /\ UNCHANGED <<now, faults, disk, setup, envelopes, acked, view>>

-----------------------------------------------------------------------------
(* The effects of a transaction, in the order of append_entry and           *)
(* _commit_new_transaction_unlocked                                         *)

At(p, pc) == proc[p].pc = pc
Rest == <<now, faults, setup, envelopes, acked, view>>

WriteRow(p, f, from, to) ==
  /\ At(p, from)
  /\ Rows(f) = pending.pre[f].rows
  /\ file' = [file EXCEPT ![f].rows = Grown(f)]
  /\ Go(p, to)
  /\ UNCHANGED <<head, pending, unlinked, Rest>>

\* Mutant: the row is left to the page cache.
SyncRowLater(p, f, from, to) ==
  /\ At(p, from)
  /\ Go(p, to)
  /\ UNCHANGED <<file, head, pending, unlinked, Rest>>

SyncRow(p, f, from, to) ==
  /\ At(p, from)
  /\ file' = [file EXCEPT ![f].synced = Len(Rows(f))]
  /\ Go(p, to)
  /\ UNCHANGED <<head, pending, unlinked, Rest>>

WriteHead(p, f, from, to) ==
  /\ At(p, from)
  /\ head' = [head EXCEPT ![f] = pending.post[f]]
  /\ Go(p, to)
  /\ UNCHANGED <<file, pending, unlinked, Rest>>

Commit(p) ==
  \/ WriteRow(p, "ledger", "append", "fsync")
  \/ SyncRow(p, "ledger", "fsync", "head")
  \/ WriteHead(p, "ledger", "head", IF pending.kind = "import" THEN "jappend" ELSE "unlink")
  \/ WriteRow(p, "journal", "jappend", "jfsync")
  \/ SyncRow(p, "journal", "jfsync", "jhead")
  \/ WriteHead(p, "journal", "jhead", "unlink")

Unlink(p) ==
  /\ At(p, "unlink")
  /\ unlinked' = pending /\ pending' = NoTx
  /\ Go(p, "dirsync")
  /\ UNCHANGED <<file, head, Rest>>

\* What an answer tells its caller: the row, and where it is.
Answer(p, what, f, i) == acked' = acked \cup {[to |-> what, file |-> f, at |-> i]}

\* append_entry answers at once when what it recovered was its own request,
\* and was committed.
\* Mutant: or abandoned.
RecoveredSomehow(p) == proc[p].op = "append" /\ proc[p].done = proc[p].what
RecoveredMine(p) == proc[p].op = "append" /\ proc[p].ok /\ proc[p].done = proc[p].what

\* The directory is synced; the writer answers, a recovering process goes on
\* with what it came for.
DirSync(p) ==
  /\ At(p, "dirsync")
  /\ unlinked' = NoTx
  /\ IF "done" \notin DOMAIN proc[p] \/ RecoveredMine(p)
         THEN /\ Quit(p)
              /\ IF proc[p].op = "append"
                 THEN Answer(p, proc[p].what, "ledger", Len(Rows("ledger")))
                 ELSE Answer(p, proc[p].what, "journal", Len(Rows("journal")))
         ELSE /\ Go(p, "work")
              /\ UNCHANGED acked
  /\ UNCHANGED <<now, faults, file, head, pending, setup, envelopes, view>>

-----------------------------------------------------------------------------
(* What the operations do once the store is recovered *)

Begun(tx) == pending' = tx /\ unlinked' = NoTx

\* The entry that already has the id of a request.
\* Mutant: it is not looked up.
NoneExisting(rows, id) == {}
Existing(rows, id) == {i \in DOMAIN rows : rows[i].id = id}

\* append_entry, public: product-observed, so never signed.
AppendEntry(p) ==
  LET r == proc[p].what
      rows == Rows("ledger")
      e == Entry(r, proc[p].at)
      same == Existing(rows, e.id)
  IN  /\ At(p, "work") /\ proc[p].op = "append"
      /\ \/ /\ ~StoreVerifies
            /\ Quit(p) /\ UNCHANGED <<disk, acked>>
         \/ /\ StoreVerifies /\ same # {}
            /\ \E i \in same :
                 IF rows[i].by = r THEN Answer(p, r, "ledger", i) ELSE UNCHANGED acked
            /\ Quit(p) /\ UNCHANGED disk
         \/ /\ StoreVerifies /\ same = {}
            /\ e.at < head["ledger"].at \/ ~_validate_supersession(e, rows)
            /\ Quit(p) /\ UNCHANGED <<disk, acked>>
         \/ /\ StoreVerifies /\ same = {}
            /\ e.at >= head["ledger"].at /\ _validate_supersession(e, rows)
            /\ Begun([kind |-> "ordinary", by |-> r,
                      pre |-> head, row |-> [ledger |-> e, journal |-> None],
                      post |-> [head EXCEPT !["ledger"] =
                                  [rows |-> Append(rows, e), at |-> e.at]]])
            /\ Go(p, "append") /\ UNCHANGED <<file, head, acked>>
      /\ UNCHANGED <<now, faults, setup, envelopes, view>>

\* verify_for_new_admission
Fresh(env) ==
  /\ config = "enabled" /\ key = "active"
  /\ env.issued =< now + Skew /\ now < env.expires

\* _validate_suppression_target
TargetStands(w) ==
  /\ \E i \in DOMAIN Rows("ledger") : Rows("ledger")[i].id = Target[w]
  /\ Target[w] \notin _suppressed_ids(Rows("journal"))

\* _candidate_entry
CandidateFits(w) ==
  /\ Existing(Rows("ledger"), Id[w]) = {}
  /\ _validate_supersession(Entry(w, now), Rows("ledger"))

\* Mutant: whatever head was signed.
OnAnyHead(env) == TRUE
OnExpectedHead(env) == env.head = head["ledger"]

Admissible(env) ==
  /\ Fresh(env) /\ OnExpectedHead(env)
  /\ IF env.write \in Suppressions THEN TargetStands(env.write) ELSE CandidateFits(env.write)

\* The import's transaction: for a put both files, for a suppression the
\* journal only.
ImportTx(env) ==
  LET w == env.write
      e == IF w \in Suppressions THEN None
           ELSE Entry(w, env.issued)
      r == [write |-> w, env |-> env, at |-> env.issued]
  IN  [kind |-> "import", by |-> env, pre |-> head,
       row |-> [ledger |-> e, journal |-> r],
       post |-> [ledger |-> IF e = None THEN head["ledger"]
                            ELSE [rows |-> Append(Rows("ledger"), e), at |-> e.at],
                 journal |-> [rows |-> Append(Rows("journal"), r), at |-> r.at]]]

\* admit_envelope. An envelope that is already recorded is replayed whatever
\* the clock or a retired key says.
AdmitEnvelope(p) ==
  LET env == proc[p].what
      records == Rows("journal")
      seen == {i \in DOMAIN records : records[i].env = env}
      open == Configured /\ StoreVerifies /\ ImportVerifies
      fresh == open /\ \A i \in DOMAIN records : records[i].write # env.write
  IN  /\ At(p, "work") /\ proc[p].op = "admit"
      /\ \/ /\ ~open \/ (seen = {} /\ ~(fresh /\ Admissible(env)))
            /\ Quit(p) /\ UNCHANGED <<disk, acked>>
         \/ /\ open
            /\ \E i \in seen : Answer(p, env, "journal", i)
            /\ Quit(p) /\ UNCHANGED disk
         \/ /\ fresh /\ Admissible(env) /\ NoJournal
            /\ file' = [file EXCEPT !["journal"].there = TRUE]
            /\ Go(p, "jcreated") /\ UNCHANGED <<head, pending, unlinked, acked>>
         \/ /\ fresh /\ Admissible(env) /\ ~NoJournal
            /\ IF head["journal"].at > env.issued THEN Quit(p) /\ UNCHANGED <<pending, unlinked>>
               ELSE /\ Begun(ImportTx(env))
                    /\ Go(p, IF env.write \in Suppressions THEN "jappend" ELSE "append")
            /\ UNCHANGED <<file, head, acked>>
      /\ UNCHANGED <<now, faults, setup, envelopes, view>>

\* _ensure_journal_unlocked, second half: the empty journal's head. The
\* recover command's repair writes the same head.
JournalHead(p) ==
  /\ At(p, "jcreated")
  /\ Rows("journal") = <<>>
  /\ head' = [head EXCEPT !["journal"] = [rows |-> <<>>, at |-> head["ledger"].at]]
  /\ IF proc[p].op = "admit" THEN Go(p, "work") ELSE Quit(p)
  /\ UNCHANGED <<file, pending, unlinked, Rest>>

\* recover_runtime; nothing is repaired after an import's recovery
RecoverRuntime(p) ==
  /\ At(p, "work") /\ proc[p].op = "recover"
  /\ IF /\ Configured /\ StoreVerifies
        /\ file["journal"].there /\ head["journal"] = Absent
     THEN Go(p, "jcreated") ELSE Quit(p)
  /\ UNCHANGED <<disk, Rest>>

\* projection_state, then build_runtime_capsule. Without a configuration a
\* journal of any kind fails closed.
Project(p) ==
  /\ At(p, "work") /\ proc[p].op = "project"
  /\ IF StoreVerifies /\ (IF Configured THEN ImportVerifies ELSE NoJournal)
     THEN LET shown == effective_entries(Rows("ledger"), Rows("journal"))
              ids == {Rows("ledger")[i].id : i \in DOMAIN Rows("ledger")}
          IN  view' = [shown |-> shown, hidden |-> view.hidden \cup (ids \ shown)]
     ELSE UNCHANGED view
  /\ Quit(p)
  /\ UNCHANGED <<now, faults, disk, setup, envelopes, acked>>

\* The capsule command: build_capsule over verify_store, without the journal.
Capsule(p) ==
  /\ At(p, "work") /\ proc[p].op = "capsule"
  /\ IF StoreVerifies
     THEN view' = [view EXCEPT !.shown = effective_entries(Rows("ledger"), <<>>)]
     ELSE UNCHANGED view
  /\ Quit(p)
  /\ UNCHANGED <<now, faults, disk, setup, envelopes, acked>>

InitializeStore(p) ==
  /\ At(p, "work") /\ proc[p].op = "init"
  /\ Quit(p)
  /\ UNCHANGED <<disk, Rest>>

-----------------------------------------------------------------------------
(* Faults *)

Fault(f, max) == faults[f] < max /\ faults' = [faults EXCEPT ![f] = @ + 1]

Kill(p) ==
  /\ proc[p].pc # "idle"
  /\ Fault("kill", MaxKills)
  /\ Quit(p)
  /\ UNCHANGED <<now, disk, setup, envelopes, acked, view>>

\* A process is killed in the middle of a row.
KillWriting(p, f) ==
  /\ At(p, IF f = "ledger" THEN "append" ELSE "jappend")
  /\ Fault("torn", MaxTorn)
  /\ file' = [file EXCEPT ![f].torn = TRUE]
  /\ Quit(p)
  /\ UNCHANGED <<now, head, pending, unlinked, setup, envelopes, acked, view>>

\* Power is lost: a row that was not synced may be gone, a transaction file
\* whose unlink was not may be back.
PowerLoss ==
  /\ Fault("loss", MaxLosses)
  /\ \E keep \in [{"ledger", "journal"} -> BOOLEAN], back \in BOOLEAN :
       /\ file' = [f \in {"ledger", "journal"} |->
            LET rows == IF keep[f] THEN Rows(f) ELSE SubSeq(Rows(f), 1, file[f].synced)
            IN  [file[f] EXCEPT !.rows = rows, !.synced = Len(rows)]]
       /\ pending' = IF back /\ pending = NoTx THEN unlinked ELSE pending
  /\ unlinked' = NoTx
  /\ proc' = [p \in Procs |-> Idle]
  /\ UNCHANGED <<now, head, setup, envelopes, acked, view>>

-----------------------------------------------------------------------------
Work(p) ==
  \/ AppendEntry(p) \/ AdmitEnvelope(p) \/ JournalHead(p) \/ RecoverRuntime(p)
  \/ Project(p) \/ Capsule(p) \/ InitializeStore(p)
Step(p) ==
  \/ CreateLedger(p) \/ CreateHead(p) \/ Recover(p) \/ NothingPending(p)
  \/ Commit(p) \/ Unlink(p) \/ DirSync(p) \/ Work(p)
Call(p) ==
  \/ \E r \in Requests : Begin(p, "append", r)
  \/ \E e \in envelopes : Begin(p, "admit", e)
  \/ \E op \in Commands : Begin(p, op, None)
Next ==
  \/ \E p \in Procs : \/ Call(p) \/ Acquire(p) \/ GiveUp(p) \/ Step(p) \/ Kill(p)
                      \/ \E f \in {"ledger", "journal"} : KillWriting(p, f)
  \/ \E w \in WriteIds, i \in Times, n \in 0 .. Len(head["ledger"].rows) :
       i \in now .. now + Skew /\ Sign(w, i, n)
  \/ \E c \in {"absent", "disabled", "enabled"}, k \in {"active", "retired", "revoked"} :
       Configure(c, k)
  \/ PowerLoss \/ Tick

Spec == Init /\ [][Next]_vars

-----------------------------------------------------------------------------
(* Properties *)

Torn == file["ledger"].torn \/ file["journal"].torn

\* Whatever was answered stays, at the place it was answered with, through
\* kills and power losses (append_entry and admit_envelope answer last).
AckedDurable ==
  \A a \in acked :
    /\ a.at \in 1 .. Len(Rows(a.file))
    /\ IF a.file = "ledger" THEN Rows("ledger")[a.at].by = a.to
       ELSE Rows("journal")[a.at].env = a.to

\* A retry, a replay after a kill or an expiry, and the original call are told
\* the same thing.
OneAnswer == \A a, b \in acked : a.to = b.to => a = b

\* No request and no write id takes effect twice, however often it is retried
\* or signed again over another head.
OnceApplied ==
  /\ \A i, j \in DOMAIN Rows("ledger") :
       Rows("ledger")[i].by = Rows("ledger")[j].by => i = j
  /\ \A i, j \in DOMAIN Rows("journal") :
       Rows("journal")[i].write = Rows("journal")[j].write => i = j

\* At every instant, so wherever a process is killed, what is on disk is a
\* verified store or a projection that recovery enumerates; only a torn row
\* and a revoked key are beyond it.
Recoverable ==
  (~Torn /\ key # "revoked" /\ file["ledger"].there) =>
    IF pending # NoTx THEN Resume # "stuck"
    ELSE IF head["ledger"] = Absent THEN Rows("ledger") = <<>> /\ ~file["journal"].there
    ELSE /\ StoreVerifies
         /\ ImportVerifies \/ (head["journal"] = Absent /\ Rows("journal") = <<>>)

\* A capsule never shows again what an earlier one hid: neither a superseded
\* entry whose successor is suppressed nor a tombstone whose configuration
\* was removed (effective_entries, projection_state).
NoResurrection == view.shown \cap view.hidden = {}

\* With a torn row on disk nothing is answered any more.
TornFailsClosedStep == Torn => acked' = acked

\* No other process is at work and the importer is configured.
Undisturbed ==
  /\ \A p \in Procs \ {Hook} : proc[p].pc = "idle"
  /\ ~Torn /\ config # "absent" /\ key # "revoked" /\ head["ledger"] # Absent

=============================================================================

--------------------------- MODULE QualificationRun ---------------------------
(***************************************************************************)
(* One persona qualification (john-lomein-persona-qualification.py): run   *)
(* asks every candidate every scenario through an adapter, has the answers *)
(* judged, and publishes records, summary, latest.json and status.json one *)
(* after the other; status and verify read them, without a lock, and       *)
(* decide whether the deployment is qualified now.                         *)
(*                                                                         *)
(* What a qualification is about (manifest, persona, souls, models,        *)
(* scenarios, rubric, the programs themselves) is one version number, a    *)
(* digest is the thing digested, and an answer with its judgements is      *)
(* "pass", "fail", or "error" when an adapter failed its checks.           *)
(***************************************************************************)
EXTENDS Integers, FiniteSets

CONSTANTS
  Candidates, Scenarios,   \* how many
  MaxTokens,               \* max_total_tokens
  MaxWall,                 \* max_wall_seconds
  MaxAge,                  \* max_age_seconds
  MaxRuns, MaxTime, MaxVersions,
  CallTokens               \* what one answer may use

QualificationConstants ==
  /\ {Candidates, Scenarios, MaxTokens, MaxWall, MaxAge, MaxRuns, MaxTime, MaxVersions} \subseteq Nat
  /\ Candidates > 0 /\ Scenarios > 0 /\ CallTokens \subseteq Nat \ {0}

Runs == 1 .. MaxRuns
Matrix == (1 .. Candidates) \X (1 .. Scenarios)
Planned == 2 * Candidates * Scenarios

VARIABLES
  time,
  deployed,    \* the version that is deployed
  held,        \* the run that holds .run.lock, 0 if none
  run,         \* what each run has in memory and in its private directory
  status,      \* status.json
  latest,      \* latest.json
  reports,     \* each run's public directory: its records and its summary
  reader       \* status or verify, reading file after file

runVars == <<time, deployed, held, run, status, latest, reports, reader>>

NoDoc == [state |-> "missing"]
NoRun == [pc |-> "off", binding |-> 0, at |-> <<1, 1>>, answers |-> [p \in Matrix |-> "none"],
          calls |-> 0, tokens |-> 0, started |-> 0, completed |-> 0]
NoReport == [records |-> [c \in 1 .. Candidates |-> NoDoc], summary |-> NoDoc]
NoReader == [pc |-> "off", status |-> NoDoc, current |-> FALSE, answer |-> "none", quiet |-> TRUE]

RunInit ==
  /\ time = 0 /\ deployed = 1 /\ held = 0
  /\ run = [r \in Runs |-> NoRun]
  /\ status = NoDoc /\ latest = NoDoc
  /\ reports = [r \in Runs |-> NoReport]
  /\ reader = NoReader

Working(r) == run[r].pc \notin {"off", "dead", "done"}
ToPc(r, pc) == run' = [run EXCEPT ![r].pc = pc]
\* acquire_run_lock does not wait, and run_lock_is_held tries it.
LockFree == held = 0
\* current_binding: what is deployed now.
CurrentBinding == deployed
\* What a process leaves is its evidence; without a summary nobody reads that,
\* and it is forgotten here.
Complete(r) == reports[r].summary # NoDoc
Over(r, pc) ==
  /\ run' = [run EXCEPT ![r] = [NoRun EXCEPT !.pc = pc,
                                            !.answers = IF Complete(r) THEN run[r].answers ELSE @]]
  /\ reports' = [reports EXCEPT ![r] = IF Complete(r) THEN @ ELSE NoReport]

\* _public_status
Status(r, state, reason, summary) ==
  [state |-> state, reason |-> reason, run |-> r, binding |-> run[r].binding, summary |-> summary,
   started |-> run[r].started, deadline |-> run[r].started + MaxWall,
   expires |-> IF summary = NoDoc THEN 0 ELSE summary.completed + MaxAge]

-----------------------------------------------------------------------------
(* run_qualification *)

\* current_binding and the descriptors, before the lock is asked for.
Prepare(r) ==
  /\ run[r].pc = "off" /\ \A q \in 1 .. r - 1 : run[q].pc # "off"
  /\ run' = [run EXCEPT ![r] = [NoRun EXCEPT !.pc = "prepared", !.binding = CurrentBinding]]
  /\ UNCHANGED <<time, deployed, held, status, latest, reports, reader>>

\* acquire_run_lock, the directories and the snapshots, which must be of the
\* version that was read.
Open(r) ==
  /\ run[r].pc = "prepared"
  /\ IF LockFree /\ CurrentBinding = run[r].binding
     THEN held' = r /\ ToPc(r, "open") /\ UNCHANGED reports
     ELSE Over(r, "dead") /\ UNCHANGED held
  /\ reader' = [reader EXCEPT !.quiet = FALSE]
  /\ UNCHANGED <<time, deployed, status, latest>>

\* The first status, after which a failure is reported as an abort.
Announce(r) ==
  /\ run[r].pc = "open"
  /\ run' = [run EXCEPT ![r].pc = "candidate", ![r].started = time]
  /\ status' = [Status(r, "incomplete", "qualification-running", NoDoc) EXCEPT
                  !.started = time, !.deadline = time + MaxWall]
  /\ UNCHANGED <<time, deployed, held, latest, reports, reader>>

OutOfBudget(r) == time - run[r].started >= MaxWall \/ run[r].tokens >= MaxTokens

\* The next scenario, or the end of the candidate.
Advance(r, answer, tokens, calls) ==
  run' = [run EXCEPT ![r].answers[run[r].at] = answer,
                     ![r].tokens = tokens, ![r].calls = calls,
                     ![r].pc = IF run[r].at[2] = Scenarios THEN "record" ELSE "candidate",
                     ![r].at = IF @[2] = Scenarios THEN @ ELSE <<@[1], @[2] + 1>>]

\* invoke_adapter: a call that fails, times out, leaves processes behind or does
\* not answer its request; the tokens it used nobody counts.
AdapterFails(r) == Advance(r, "error", run[r].tokens, run[r].calls + 1)

\* candidate_request, validate_candidate_result: an answer of a fresh session
\* within the remaining tokens.
AskCandidate(r) ==
  /\ run[r].pc = "candidate"
  /\ IF OutOfBudget(r)
     THEN Advance(r, "error", run[r].tokens, run[r].calls)
     ELSE \/ AdapterFails(r)
          \/ \E t \in CallTokens :
               /\ run[r].tokens + t <= MaxTokens
               /\ IF run[r].tokens + t >= MaxTokens
                  THEN Advance(r, "error", run[r].tokens + t, run[r].calls + 1)
                  ELSE run' = [run EXCEPT ![r].tokens = @ + t, ![r].calls = @ + 1, ![r].pc = "judge"]
  /\ UNCHANGED <<time, deployed, held, status, latest, reports, reader>>

\* judge_request, validate_judge_result
AskJudge(r) ==
  /\ run[r].pc = "judge"
  /\ IF time - run[r].started >= MaxWall
     THEN Advance(r, "error", run[r].tokens, run[r].calls)
     ELSE \/ AdapterFails(r)
          \/ \E verdict \in {"pass", "fail"}, t \in CallTokens :
               /\ run[r].tokens + t <= MaxTokens
               /\ Advance(r, verdict, run[r].tokens + t, run[r].calls + 1)
  /\ UNCHANGED <<time, deployed, held, status, latest, reports, reader>>

Answers(r, c) == {run[r].answers[<<c, s>>] : s \in 1 .. Scenarios}

\* Mutant: what failed without a verdict does not count against a candidate.
CandidateStateLenient(answers) ==
  IF "fail" \in answers THEN "failed" ELSE "qualified"

\* PERSONA_EVAL.evaluate and the state of a candidate.
CandidateState(answers) ==
  IF "error" \in answers THEN "incomplete"
  ELSE IF "fail" \in answers THEN "failed"
  ELSE "qualified"

\* The private evidence manifest and the candidate's public record.
WriteRecord(r) ==
  LET c == run[r].at[1] IN
  /\ run[r].pc = "record"
  /\ reports' = [reports EXCEPT ![r].records[c] =
       [state |-> CandidateState(Answers(r, c)), input |-> Answers(r, c)]]
  /\ run' = [run EXCEPT ![r].pc = IF c = Candidates THEN "check" ELSE "candidate",
                        ![r].at = IF c = Candidates THEN @ ELSE <<c + 1, 1>>]
  /\ UNCHANGED <<time, deployed, held, status, latest, reader>>

\* verify_command_artifacts, the wall budget and the binding once more; the
\* time read here is the summary's.
CheckEnd(r) ==
  /\ run[r].pc = "check"
  /\ time - run[r].started <= MaxWall /\ CurrentBinding = run[r].binding
  /\ run' = [run EXCEPT ![r].pc = "summary", ![r].completed = time]
  /\ UNCHANGED <<time, deployed, held, status, latest, reports, reader>>

\* overall
Overall(states) ==
  IF "incomplete" \in states THEN "incomplete"
  ELSE IF "failed" \in states THEN "failed"
  ELSE "qualified"

States(report) == {report.records[c].state : c \in 1 .. Candidates}

WriteSummary(r) ==
  /\ run[r].pc = "summary"
  /\ reports' = [reports EXCEPT ![r].summary =
       [state |-> Overall(States(reports[r])), run |-> r, binding |-> run[r].binding,
        calls |-> run[r].calls, tokens |-> run[r].tokens, records |-> reports[r].records,
        started |-> run[r].started, completed |-> run[r].completed]]
  /\ ToPc(r, "latest")
  /\ UNCHANGED <<time, deployed, held, status, latest, reader>>

WriteLatest(r) ==
  /\ run[r].pc = "latest"
  /\ latest' = [state |-> "latest", run |-> r, summary |-> reports[r].summary]
  /\ ToPc(r, "status")
  /\ UNCHANGED <<time, deployed, held, status, reports, reader>>

\* The final status; the lock goes with the process.
WriteStatus(r) ==
  /\ run[r].pc = "status"
  /\ status' = Status(r, reports[r].summary.state, "complete", reports[r].summary)
  /\ held' = 0 /\ Over(r, "done")
  /\ UNCHANGED <<time, deployed, latest, reader>>

\* main's handlers and mark_active_run_aborted: any failure once the status was
\* announced, the run's own last write included, which may have been made.
Abort(r) ==
  /\ Working(r) /\ run[r].pc # "prepared"
  /\ \/ /\ status.state = "incomplete" /\ status.reason = "qualification-running" /\ status.run = r
        /\ status' = Status(r, "incomplete", "qualification-aborted", NoDoc)
     \/ /\ status.state # "missing" => status.run # r
        /\ UNCHANGED status
     \/ /\ run[r].pc = "status"
        /\ status' = Status(r, reports[r].summary.state, "complete", reports[r].summary)
  /\ held' = 0 /\ Over(r, "dead")
  /\ UNCHANGED <<time, deployed, latest, reader>>

\* External: the process is killed, or the machine stops.
Kill(r) ==
  /\ Working(r)
  /\ held' = IF held = r THEN 0 ELSE held
  /\ Over(r, "dead")
  /\ UNCHANGED <<time, deployed, status, latest, reader>>

-----------------------------------------------------------------------------
(* status_qualification, verify_qualification *)

Reads(pc) == reader' = [reader EXCEPT !.pc = pc]
Answer(a) == reader' = [reader EXCEPT !.pc = "answered", !.answer = a]

\* The parts of _validate_public_evidence, in the order the files are read:
\* status.json alone,
Announced(s) == s.summary = NoDoc
\* latest.json against it,
LatestMatches(s, l) == l.state # "missing" /\ l.run = s.run /\ l.summary = s.summary
\* summary.json against both,
SummaryMatches(s, m) ==
  /\ m = s.summary
  /\ m.run = s.run /\ m.binding = s.binding /\ m.state = s.state
  /\ m.tokens <= MaxTokens /\ m.completed - m.started <= MaxWall + 1
  /\ s.started = m.started /\ s.expires = m.completed + MaxAge
\* and the records against the summary.
RecordsMatch(m, records) ==
  /\ records = m.records
  /\ \A c \in 1 .. Candidates : records[c].state # "missing"
  /\ m.state = Overall({records[c].state : c \in 1 .. Candidates})
  /\ m.state # "incomplete" => m.calls = Planned

\* The private evidence gives the records again.
Reproducible(r) ==
  \A c \in 1 .. Candidates : reports[r].records[c].state = CandidateState(Answers(r, c))

\* The verdict: drift first, then an overdue run, then the age.
Verdict(s, current, locked) ==
  IF ~ current THEN "drifted"
  ELSE IF Announced(s) /\ s.reason = "qualification-running" /\ time >= s.deadline
  THEN IF locked THEN "overdue" ELSE "abandoned"
  ELSE IF ~ Announced(s) /\ time >= s.expires THEN "expired"
  ELSE s.state

ReadStatus ==
  /\ reader.pc = "off"
  /\ reader' = [NoReader EXCEPT !.status = status, !.quiet = LockFree,
       !.pc = IF status.state = "missing" THEN "answered" ELSE IF Announced(status) THEN "binding" ELSE "latest",
       !.answer = IF status.state = "missing" THEN "missing" ELSE @]
  /\ UNCHANGED <<time, deployed, held, run, status, latest, reports>>

ReadLatest ==
  /\ reader.pc = "latest"
  /\ IF LatestMatches(reader.status, latest) THEN Reads("summary") ELSE Answer("invalid")
  /\ UNCHANGED <<time, deployed, held, run, status, latest, reports>>

ReadSummary ==
  /\ reader.pc = "summary"
  /\ IF SummaryMatches(reader.status, reports[reader.status.run].summary)
     THEN Reads("records") ELSE Answer("invalid")
  /\ UNCHANGED <<time, deployed, held, run, status, latest, reports>>

ReadRecords ==
  /\ reader.pc = "records"
  /\ IF RecordsMatch(reader.status.summary, reports[reader.status.run].records)
     THEN Reads("binding") ELSE Answer("invalid")
  /\ UNCHANGED <<time, deployed, held, run, status, latest, reports>>

ReadBinding ==
  /\ reader.pc = "binding"
  /\ reader' = [reader EXCEPT !.pc = "decide", !.current = reader.status.binding = CurrentBinding]
  /\ UNCHANGED <<time, deployed, held, run, status, latest, reports>>

Decide ==
  /\ reader.pc = "decide"
  /\ IF Announced(reader.status) \/ Reproducible(reader.status.run)
     THEN Answer(Verdict(reader.status, reader.current, ~ LockFree))
     ELSE Answer("invalid")
  /\ UNCHANGED <<time, deployed, held, run, status, latest, reports>>

\* verify_qualification_from_opaque_snapshot: the same checks on a sealed
\* capture, which is of one moment (OpaqueCapture), of a run that is complete;
\* the lock file of a capture cannot be opened.
VerifySealed ==
  /\ reader.pc = "off" /\ status.state # "missing"
  /\ reader' = [NoReader EXCEPT !.pc = "answered", !.status = status, !.quiet = ~ Announced(status),
       !.answer = IF /\ ~ Announced(status)
                     /\ LatestMatches(status, latest)
                     /\ SummaryMatches(status, reports[status.run].summary)
                     /\ RecordsMatch(status.summary, reports[status.run].records)
                     /\ Reproducible(status.run)
                  THEN Verdict(status, status.binding = CurrentBinding, FALSE)
                  ELSE "invalid"]
  /\ UNCHANGED <<time, deployed, held, run, status, latest, reports>>

-----------------------------------------------------------------------------
(* The rest of the world *)

Pass == time < MaxTime /\ time' = time + 1
        /\ UNCHANGED <<deployed, held, run, status, latest, reports, reader>>

\* External: another version is deployed.
Deploy ==
  /\ deployed < MaxVersions /\ deployed' = deployed + 1
  /\ UNCHANGED <<time, held, run, status, latest, reports, reader>>

\* Bound: nothing is followed beyond an answer.
RunNext ==
  /\ reader.pc # "answered"
  /\ \/ \E r \in Runs :
          \/ Prepare(r) \/ Open(r) \/ Announce(r) \/ AskCandidate(r) \/ AskJudge(r)
          \/ WriteRecord(r) \/ CheckEnd(r) \/ WriteSummary(r) \/ WriteLatest(r)
          \/ WriteStatus(r) \/ Abort(r) \/ Kill(r)
     \/ ReadStatus \/ ReadLatest \/ ReadSummary \/ ReadRecords \/ ReadBinding \/ Decide
     \/ VerifySealed \/ Pass \/ Deploy

RunSpec == RunInit /\ [][RunNext]_runVars

-----------------------------------------------------------------------------
(* Properties *)

Kinds == {"none", "pass", "fail", "error"}
RunRow == [pc : {"off", "prepared", "open", "candidate", "judge", "record", "check", "summary",
                 "latest", "status", "done", "dead"},
           binding : Nat, at : Matrix, answers : [Matrix -> Kinds], calls : 0 .. Planned,
           tokens : 0 .. MaxTokens, started : Nat, completed : Nat]
Verdicts == {"incomplete", "failed", "qualified"}
Record == [state : Verdicts, input : SUBSET Kinds]
Records == [1 .. Candidates -> {NoDoc} \cup Record]
Summary == [state : Verdicts, run : Runs, binding : Nat, calls : Nat, tokens : Nat,
            records : Records, started : Nat, completed : Nat]
Report == [records : Records, summary : {NoDoc} \cup Summary]
StatusDoc == [state : Verdicts, reason : {"qualification-running", "qualification-aborted", "complete"},
              run : Runs, binding : Nat, summary : {NoDoc} \cup Summary, started : Nat,
              deadline : Nat, expires : Nat]
LatestDoc == [state : {"latest"}, run : Runs, summary : {NoDoc} \cup Summary]
ReaderRow == [pc : {"off", "latest", "summary", "records", "binding", "decide", "answered"},
              status : {NoDoc} \cup StatusDoc, current : BOOLEAN, quiet : BOOLEAN,
              answer : Verdicts \cup {"none", "missing", "invalid", "drifted", "overdue",
                                     "abandoned", "expired"}]

\* Runs, documents and answers have their kinds, and a run keeps to its calls
\* and tokens.
RunTypeOK ==
  /\ time \in Nat /\ deployed \in Nat /\ held \in Runs \cup {0}
  /\ run \in [Runs -> RunRow]
  /\ reports \in [Runs -> Report]
  /\ status \in {NoDoc} \cup StatusDoc /\ latest \in {NoDoc} \cup LatestDoc
  /\ reader \in ReaderRow

\* The run has announced itself and is not over, and has no summary yet.
Asking == {"candidate", "judge", "record", "check", "summary"}
Busy == Asking \cup {"latest", "status"}

\* The candidate is done, and the scenario of a candidate.
Past(r, c) ==
  \/ run[r].pc \in {"check", "summary"}
  \/ run[r].pc \in {"candidate", "judge", "record"} /\ c < run[r].at[1]
Asked(r, c, s) ==
  \/ Past(r, c)
  \/ run[r].pc = "record" /\ c = run[r].at[1]
  \/ run[r].pc \in {"candidate", "judge"} /\ c = run[r].at[1] /\ s < run[r].at[2]

\* The calls of a run of which none has failed so far.
CallsDue(r) ==
  CASE run[r].pc = "candidate" ->
         2 * ((run[r].at[1] - 1) * Scenarios + (run[r].at[2] - 1))
    [] run[r].pc = "judge" ->
         2 * ((run[r].at[1] - 1) * Scenarios + (run[r].at[2] - 1)) + 1
    [] run[r].pc = "record" -> 2 * (run[r].at[1] * Scenarios)
    [] OTHER -> 2 * (Candidates * Scenarios)

ErrorFree(r) == \A p \in Matrix : run[r].answers[p] # "error"
RecordTrue(r, c) == reports[r].records[c].state = CandidateState(Answers(r, c))

\* A run begins with nothing. While it asks, the scenarios that are over are
\* the ones with an answer, every candidate that is over has its true record,
\* and no call is missing unless an answer is an error (run_qualification).
AskedInOrder(r) ==
  /\ run[r].pc \in {"off", "prepared", "open"} =>
       /\ run[r] = [NoRun EXCEPT !.pc = run[r].pc, !.binding = run[r].binding]
       /\ reports[r] = NoReport
  /\ run[r].pc \in Asking =>
       \A c \in 1 .. Candidates, s \in 1 .. Scenarios :
         Asked(r, c, s) <=> run[r].answers[<<c, s>>] # "none"
  /\ \A c \in 1 .. Candidates : Past(r, c) => RecordTrue(r, c)
  /\ run[r].pc \in Asking =>
       run[r].calls <= CallsDue(r) /\ (ErrorFree(r) => run[r].calls = CallsDue(r))
  /\ run[r].pc = "summary" => run[r].completed - run[r].started <= MaxWall

\* A summary, once written, is what its records say, and they are what the
\* answers say, whatever happens to the run afterwards.
SummaryTrue(r) ==
  LET m == reports[r].summary IN
  /\ run[r].pc \in {"latest", "status"} =>
       Complete(r) /\ m.binding = run[r].binding /\ m.started = run[r].started
  /\ Complete(r) =>
       /\ run[r].pc \in {"latest", "status", "done", "dead"}
       /\ \A p \in Matrix : run[r].answers[p] # "none"
       /\ \A c \in 1 .. Candidates : RecordTrue(r, c)
       /\ m.run = r /\ m.records = reports[r].records
       /\ m.state = Overall(States(reports[r]))
       /\ m.tokens <= MaxTokens /\ m.completed - m.started <= MaxWall
       /\ ErrorFree(r) => m.calls = Planned

\* What a status says of its run: it was announced, or its summary is there.
StatusSound(s) ==
  s # NoDoc =>
    /\ s.run \in Runs /\ run[s.run].pc \in Busy \cup {"done", "dead"}
    /\ Announced(s) => s.state = "incomplete"
    /\ ~ Announced(s) =>
         /\ s.summary = reports[s.run].summary /\ run[s.run].pc \in {"done", "dead"}
         /\ s.state = s.summary.state /\ s.binding = s.summary.binding
         /\ s.started = s.summary.started /\ s.expires = s.summary.completed + MaxAge

\* One run at a time has the lock, and the status is its own from the first to
\* the last; latest.json is ahead of the status only meanwhile.
OneRunAtWork ==
  /\ \A r \in Runs : run[r].pc \in Busy \cup {"open"} <=> held = r
  /\ \A r \in Runs : run[r].pc \in Busy =>
       /\ status # NoDoc /\ Announced(status)
       /\ status.reason = "qualification-running" /\ status.run = r
  /\ \A r \in Runs : run[r].pc = "status" =>
       latest # NoDoc /\ latest.run = r /\ latest.summary = reports[r].summary
  /\ status # NoDoc /\ ~ Announced(status) => LatestMatches(status, latest)

\* What a reader holds was once the status, and is still while no run overlaps.
ReaderSound ==
  /\ StatusSound(reader.status)
  /\ reader.pc \notin {"off", "answered"} =>
       /\ reader.status # NoDoc
       /\ reader.quiet => held = 0 /\ reader.status = status
  /\ reader.pc \in {"latest", "summary", "records"} => ~ Announced(reader.status)

\* Whenever the public status is "qualified", every scenario was answered and
\* judged good for every candidate of that run, within its calls and tokens.
QualifiedEarned ==
  status.state = "qualified" =>
    \A p \in Matrix : run[status.run].answers[p] = "pass" /\ status.summary.calls = Planned

\* A reader that no run overlapped always understands the files, wherever the
\* runs before it were killed or failed; so does the protected verifier with a
\* capture of a complete run, even one taken while another run was at work.
QuietReadable == reader.pc = "answered" /\ reader.quiet => reader.answer # "invalid"

\* What a reader answers is so: "qualified" of a run all of whose answers
\* passed, although it read file after file while other runs wrote them, and
\* "abandoned" of a run that is at work no more.
AnswersTrue ==
  reader.pc = "answered" =>
    /\ reader.answer = "qualified" =>
         \A p \in Matrix : run[reader.status.run].answers[p] = "pass"
    /\ reader.answer = "abandoned" => ~ Working(reader.status.run)

\* What a qualification promises, and why it can: what a run has written is
\* true, step by step, and what is read of it was true when it was written.
EvidenceInv ==
  /\ \A r \in Runs : AskedInOrder(r) /\ SummaryTrue(r)
  /\ StatusSound(status) /\ OneRunAtWork /\ ReaderSound
QualificationSafe == RunTypeOK /\ EvidenceInv /\ QualifiedEarned /\ QuietReadable /\ AnswersTrue

=============================================================================

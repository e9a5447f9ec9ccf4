-------------------------- MODULE QualificationRunProofs --------------------------
(***************************************************************************)
(* Proofs about QualificationRun: runs that write their evidence file by   *)
(* file and die anywhere, and readers without a lock, for any number of    *)
(* candidates, scenarios and runs, all budgets and any clock.              *)
(***************************************************************************)
EXTENDS QualificationRun, TLAPS

-----------------------------------------------------------------------------
(* Facts about the constants, the rows and the documents *)

LEMMA ConstantFacts ==
  ASSUME QualificationConstants
  PROVE  /\ Candidates \in Nat /\ Candidates >= 1 /\ Scenarios \in Nat /\ Scenarios >= 1
         /\ MaxTokens \in Nat /\ MaxWall \in Nat /\ MaxAge \in Nat /\ MaxRuns \in Nat
         /\ <<1, 1>> \in Matrix /\ 1 \in 1 .. Candidates
         /\ \A t \in CallTokens : t \in Nat /\ t > 0
BY DEF QualificationConstants, Matrix

(* The number of cells before a position, and of all.                         *)
LEMMA CellFacts ==
  ASSUME QualificationConstants, NEW c \in 1 .. Candidates, NEW s \in 1 .. Scenarios
  PROVE  /\ (c - 1) * Scenarios \in Nat /\ c * Scenarios \in Nat
         /\ c * Scenarios = (c - 1) * Scenarios + Scenarios
         /\ ((c + 1) - 1) * Scenarios = c * Scenarios
         /\ c * Scenarios <= Candidates * Scenarios
         /\ Candidates * Scenarios \in Nat /\ Planned = 2 * (Candidates * Scenarios)
         /\ Planned \in Nat
<1>1. c \in Nat /\ c >= 1 /\ c <= Candidates /\ Scenarios \in Nat /\ Candidates \in Nat
  BY ConstantFacts
<1>2. /\ (c - 1) * Scenarios \in Nat /\ c * Scenarios \in Nat
      /\ Candidates * Scenarios \in Nat
  BY <1>1
<1>3. c * Scenarios = (c - 1) * Scenarios + Scenarios
  BY <1>1
<1>4. ((c + 1) - 1) * Scenarios = c * Scenarios
  BY <1>1
<1>5. c * Scenarios <= Candidates * Scenarios
  <2>1. (Candidates - c) * Scenarios \in Nat
    BY <1>1
  <2>2. Candidates * Scenarios = c * Scenarios + (Candidates - c) * Scenarios
    BY <1>1
  <2> QED BY <1>2, <2>1, <2>2
<1>6. Planned = 2 * (Candidates * Scenarios)
  BY <1>1 DEF Planned
<1> QED BY <1>2, <1>3, <1>4, <1>5, <1>6

LEMMA RowFacts ==
  ASSUME NEW x \in RunRow
  PROVE  /\ x.binding \in Nat /\ x.at \in Matrix /\ x.answers \in [Matrix -> Kinds]
         /\ x.calls \in 0 .. Planned /\ x.tokens \in 0 .. MaxTokens
         /\ x.started \in Nat /\ x.completed \in Nat
         /\ x.at[1] \in 1 .. Candidates /\ x.at[2] \in 1 .. Scenarios
         /\ x.at = <<x.at[1], x.at[2]>>
         /\ x.pc \in {"off", "prepared", "open", "candidate", "judge", "record", "check",
                      "summary", "latest", "status", "done", "dead"}
BY DEF RunRow, Matrix

LEMMA SummaryFacts ==
  ASSUME NEW m \in {NoDoc} \cup Summary
  PROVE  /\ m = NoDoc <=> m.state = "missing"
         /\ m # NoDoc =>
              /\ m \in Summary /\ m.state \in Verdicts /\ m.run \in Runs /\ m.binding \in Nat
              /\ m.calls \in Nat /\ m.tokens \in Nat /\ m.records \in Records
              /\ m.started \in Nat /\ m.completed \in Nat
BY DEF NoDoc, Summary, Verdicts

LEMMA StatusFacts ==
  ASSUME NEW s \in {NoDoc} \cup StatusDoc
  PROVE  /\ s = NoDoc <=> s.state = "missing"
         /\ s # NoDoc =>
              /\ s \in StatusDoc /\ s.state \in Verdicts /\ s.run \in Runs /\ s.binding \in Nat
              /\ s.summary \in {NoDoc} \cup Summary /\ s.started \in Nat
              /\ s.deadline \in Nat /\ s.expires \in Nat
BY DEF NoDoc, StatusDoc, Verdicts

LEMMA RecordFacts ==
  ASSUME NEW d \in {NoDoc} \cup Record
  PROVE  /\ d = NoDoc <=> d.state = "missing"
         /\ d # NoDoc => d.state \in Verdicts
BY DEF NoDoc, Record, Verdicts

LEMMA LatestFacts ==
  ASSUME NEW l \in {NoDoc} \cup LatestDoc
  PROVE  l = NoDoc <=> l.state = "missing"
BY DEF NoDoc, LatestDoc

LEMMA ReaderFacts ==
  ASSUME NEW x \in ReaderRow
  PROVE  /\ x.pc \in {"off", "latest", "summary", "records", "binding", "decide", "answered"}
         /\ x.status \in {NoDoc} \cup StatusDoc /\ x.current \in BOOLEAN
         /\ x.quiet \in BOOLEAN
         /\ x.answer \in Verdicts \cup {"none", "missing", "invalid", "drifted", "overdue",
                                        "abandoned", "expired"}
BY DEF ReaderRow

(* Nothing that is about a run changes with another one.                      *)
LEMMA RunFrame ==
  ASSUME NEW r \in Runs, run'[r] = run[r], reports'[r] = reports[r],
         AskedInOrder(r), SummaryTrue(r)
  PROVE  AskedInOrder(r)' /\ SummaryTrue(r)'
<1>1. \A c : Past(r, c)' <=> Past(r, c)
  BY DEF Past
<1>2. \A c, s : Asked(r, c, s)' <=> Asked(r, c, s)
  BY <1>1 DEF Asked
<1>3. \A c : RecordTrue(r, c)' <=> RecordTrue(r, c)
  BY DEF RecordTrue, Answers, CandidateState
<1>4. CallsDue(r)' = CallsDue(r) /\ (ErrorFree(r)' <=> ErrorFree(r))
      /\ (Complete(r)' <=> Complete(r))
  BY DEF CallsDue, ErrorFree, Complete
<1>5. AskedInOrder(r)'
  BY <1>1, <1>2, <1>3, <1>4 DEF AskedInOrder
<1>6. SummaryTrue(r)'
  BY <1>3, <1>4 DEF SummaryTrue, States
<1> QED BY <1>5, <1>6

LEMMA ReportFacts ==
  ASSUME NEW x \in Report
  PROVE  x.records \in Records /\ x.summary \in {NoDoc} \cup Summary
BY DEF Report

LEMMA StartFacts ==
  ASSUME QualificationConstants
  PROVE  NoRun \in RunRow /\ NoReport \in Report /\ NoReader \in ReaderRow
         /\ NoRun.pc = "off" /\ NoReport.summary = NoDoc /\ NoReader.status = NoDoc
         /\ NoReader.pc = "off"
<1>1. <<1, 1>> \in Matrix /\ 0 \in 0 .. Planned /\ 0 \in 0 .. MaxTokens
  <2>1. 1 \in 1 .. Candidates /\ 1 \in 1 .. Scenarios
    BY ConstantFacts
  <2>2. Planned \in Nat /\ MaxTokens \in Nat
    BY <2>1, CellFacts, ConstantFacts
  <2> QED BY <2>1, <2>2, ConstantFacts
<1>2. [p \in Matrix |-> "none"] \in [Matrix -> Kinds]
  BY DEF Kinds
<1>3. [c \in 1 .. Candidates |-> NoDoc] \in Records
  BY DEF Records
<1>4. NoRun \in RunRow /\ NoRun.pc = "off"
  BY <1>1, <1>2 DEF NoRun, RunRow
<1>5. NoReport \in Report /\ NoReport.summary = NoDoc
  BY <1>3 DEF NoReport, Report
<1>6. NoReader \in ReaderRow /\ NoReader.status = NoDoc /\ NoReader.pc = "off"
  BY DEF NoReader, ReaderRow
<1> QED BY <1>4, <1>5, <1>6

(* What a step of one run leaves of the others, and of any status: a run that *)
(* was announced stays announced until it is over, and what is over stays.    *)
LEMMA OthersKept ==
  ASSUME EvidenceInv, NEW r \in Runs,
         run[r].pc \notin {"done", "dead"},
         run[r].pc \in Busy => run'[r].pc \in Busy \cup {"done", "dead"},
         \A q \in Runs \ {r} : run'[q] = run[q] /\ reports'[q] = reports[q]
  PROVE  /\ \A q \in Runs \ {r} : AskedInOrder(q)' /\ SummaryTrue(q)'
         /\ \A s \in {NoDoc} \cup StatusDoc : StatusSound(s) => StatusSound(s)'
<1>1. ASSUME NEW q \in Runs \ {r}
      PROVE  AskedInOrder(q)' /\ SummaryTrue(q)'
  BY <1>1, RunFrame DEF EvidenceInv
<1>2. ASSUME NEW s \in {NoDoc} \cup StatusDoc, StatusSound(s)
      PROVE  StatusSound(s)'
  <2>1. CASE s = NoDoc
    BY <2>1 DEF StatusSound
  <2>2. CASE s # NoDoc /\ s.run # r
    BY <1>2, <2>2 DEF StatusSound, Announced
  <2>3. CASE s # NoDoc /\ s.run = r
    <3>1. run[r].pc \in Busy /\ Announced(s) /\ s.state = "incomplete" /\ s.run \in Runs
      BY <1>2, <2>3 DEF StatusSound
    <3> QED BY <3>1, <2>3 DEF StatusSound, Announced
  <2> QED BY <2>1, <2>2, <2>3
<1> QED BY <1>1, <1>2

(* What every step of a run must show. A reader that thinks nobody overlaps   *)
(* it is right: either the lock is taken, or neither it nor the status moves. *)
LEMMA Step ==
  ASSUME QualificationConstants, RunTypeOK, EvidenceInv, reader.pc # "answered",
         NEW r \in Runs, run[r].pc \notin {"done", "dead"},
         run[r].pc \in Busy => run'[r].pc \in Busy \cup {"done", "dead"},
         NEW x \in RunRow, run' = [run EXCEPT ![r] = x],
         NEW y \in Report, reports' = [reports EXCEPT ![r] = y],
         held' \in Runs \cup {0}, status' \in {NoDoc} \cup StatusDoc,
         latest' \in {NoDoc} \cup LatestDoc,
         UNCHANGED <<time, deployed>>,
         reader' = reader \/ reader' = [reader EXCEPT !.quiet = FALSE],
         held # 0 \/ ~ reader'.quiet \/ (held' = held /\ status' = status),
         AskedInOrder(r)', SummaryTrue(r)', OneRunAtWork',
         status' = status \/ StatusSound(status)'
  PROVE  RunTypeOK' /\ EvidenceInv' /\ QuietReadable' /\ AnswersTrue'
<1>1. /\ reader \in ReaderRow /\ reader' \in ReaderRow /\ reader'.pc = reader.pc
      /\ reader'.status = reader.status /\ (reader'.quiet => reader.quiet)
  BY DEF RunTypeOK, ReaderRow
<1>2. RunTypeOK'
  BY <1>1 DEF RunTypeOK
<1>3. \A q \in Runs \ {r} : run'[q] = run[q] /\ reports'[q] = reports[q]
  BY DEF RunTypeOK
<1>4. /\ \A q \in Runs : AskedInOrder(q)' /\ SummaryTrue(q)'
      /\ \A s \in {NoDoc} \cup StatusDoc : StatusSound(s) => StatusSound(s)'
  BY <1>3, OthersKept
<1>5. StatusSound(status)' /\ StatusSound(reader.status)'
  <2>1. PICK s \in {NoDoc} \cup StatusDoc : s = status
    BY DEF RunTypeOK
  <2>2. PICK t \in {NoDoc} \cup StatusDoc : t = reader.status
    BY <1>1, ReaderFacts
  <2>3. StatusSound(s)' /\ StatusSound(t)'
    BY <1>4, <2>1, <2>2 DEF EvidenceInv, ReaderSound
  <2>4. reader'.status = t /\ (status' = status => status' = s)
    BY <1>1, <2>1, <2>2
  <2>5. StatusSound(reader.status)'
    BY <2>3, <2>4 DEF StatusSound, Announced
  <2>6. status' = status => StatusSound(status)'
    BY <2>3, <2>4 DEF StatusSound, Announced
  <2> QED BY <2>5, <2>6
<1>6. ReaderSound'
  <2>1. reader'.pc \notin {"off", "answered"} =>
          /\ reader'.status # NoDoc
          /\ reader'.quiet => held' = 0 /\ reader'.status = status'
    BY <1>1 DEF EvidenceInv, ReaderSound
  <2>2. reader'.pc \in {"latest", "summary", "records"} => ~ Announced(reader'.status)
    BY <1>1 DEF EvidenceInv, ReaderSound
  <2> QED BY <1>5, <2>1, <2>2 DEF ReaderSound, Announced
<1>7. QuietReadable' /\ AnswersTrue'
  BY <1>1 DEF QuietReadable, AnswersTrue
<1> QED BY <1>2, <1>4, <1>5, <1>6, <1>7 DEF EvidenceInv

(* A step of a run that asks and writes its report: it has the lock, so every *)
(* reader it meets is overlapped, and no status tells of its summary yet.     *)
LEMMA Inside ==
  ASSUME QualificationConstants, RunTypeOK, EvidenceInv, reader.pc # "answered",
         NEW r \in Runs, run[r].pc \in Busy, run'[r].pc \in Busy \ {"status"},
         NEW x \in RunRow, run' = [run EXCEPT ![r] = x],
         NEW y \in Report, reports' = [reports EXCEPT ![r] = y],
         UNCHANGED <<time, deployed, held, status, latest, reader>>,
         AskedInOrder(r)', SummaryTrue(r)'
  PROVE  RunTypeOK' /\ EvidenceInv' /\ QuietReadable' /\ AnswersTrue'
<1>1. \A q \in Runs \ {r} : run'[q] = run[q] /\ reports'[q] = reports[q]
  BY DEF RunTypeOK
<1>2. held = r /\ held # 0 /\ 0 \notin Runs /\ run[r].pc \notin {"done", "dead"}
  BY DEF EvidenceInv, OneRunAtWork, Runs, Busy, Asking
<1>3. OneRunAtWork'
  <2>1. \A q \in Runs : run'[q].pc \in Busy \cup {"open"} <=> held' = q
    BY <1>1, <1>2 DEF EvidenceInv, OneRunAtWork
  <2>2. \A q \in Runs : run'[q].pc \in Busy =>
          /\ status' # NoDoc /\ Announced(status')
          /\ status'.reason = "qualification-running" /\ status'.run = q
    BY <1>1 DEF EvidenceInv, OneRunAtWork
  <2>3. \A q \in Runs : run'[q].pc # "status"
    BY <1>2, <2>1 DEF Busy
  <2>4. status' # NoDoc /\ ~ Announced(status') => LatestMatches(status', latest')
    BY DEF EvidenceInv, OneRunAtWork
  <2> QED BY <2>1, <2>2, <2>3, <2>4 DEF OneRunAtWork, Announced, LatestMatches
<1>4. held' \in Runs \cup {0} /\ status' \in {NoDoc} \cup StatusDoc
      /\ latest' \in {NoDoc} \cup LatestDoc
  BY DEF RunTypeOK
<1> QED BY <1>2, <1>3, <1>4, Step

(* The row that answers one cell: at a cell, pc is "candidate" or "judge".    *)
LEMMA AdvanceFacts ==
  ASSUME QualificationConstants, RunTypeOK, NEW r \in Runs,
         NEW answer \in Kinds \ {"none"}, NEW tokens \in 0 .. MaxTokens, NEW calls \in 0 .. Planned,
         Advance(r, answer, tokens, calls)
  PROVE  \E x \in RunRow :
           /\ run' = [run EXCEPT ![r] = x]
           /\ x.answers = [run[r].answers EXCEPT ![run[r].at] = answer]
           /\ x.tokens = tokens /\ x.calls = calls
           /\ x.pc = IF run[r].at[2] = Scenarios THEN "record" ELSE "candidate"
           /\ x.at = IF run[r].at[2] = Scenarios THEN run[r].at
                                                 ELSE <<run[r].at[1], run[r].at[2] + 1>>
           /\ x.binding = run[r].binding /\ x.started = run[r].started
           /\ x.completed = run[r].completed
<1> DEFINE pc == IF run[r].at[2] = Scenarios THEN "record" ELSE "candidate"
           at == IF run[r].at[2] = Scenarios THEN run[r].at
                                             ELSE <<run[r].at[1], run[r].at[2] + 1>>
           answers == [run[r].answers EXCEPT ![run[r].at] = answer]
           x == [run[r] EXCEPT !.answers = answers, !.tokens = tokens, !.calls = calls,
                               !.pc = pc, !.at = at]
<1>1. run[r] \in RunRow
  BY DEF RunTypeOK
<1>2. at \in Matrix
  <2>1. run[r].at \in Matrix /\ run[r].at[1] \in 1 .. Candidates /\ run[r].at[2] \in 1 .. Scenarios
    BY <1>1, RowFacts
  <2>2. run[r].at[2] # Scenarios => run[r].at[2] + 1 \in 1 .. Scenarios
    BY <2>1, ConstantFacts
  <2> QED BY <2>1, <2>2 DEF Matrix
<1>3. answers \in [Matrix -> Kinds]
  BY <1>1, RowFacts
<1>4. run' = [run EXCEPT ![r] = x]
  <2>1. run' = [run EXCEPT ![r] = [run[r] EXCEPT !.answers = answers, !.tokens = tokens,
                                    !.calls = calls, !.pc = pc, !.at = at]]
    BY <1>1, Zenon DEF Advance, RunTypeOK
  <2> QED BY <2>1
<1>5. pc \in {"record", "candidate", "judge"}
  OBVIOUS
<1>6. x = [run[r] EXCEPT !.answers = answers, !.tokens = tokens, !.calls = calls,
                         !.pc = pc, !.at = at]
  OBVIOUS
<1> HIDE DEF pc, at, answers, x
<1>7. /\ x \in RunRow
      /\ x.answers = answers /\ x.tokens = tokens /\ x.calls = calls /\ x.pc = pc /\ x.at = at
      /\ x.binding = run[r].binding /\ x.started = run[r].started
      /\ x.completed = run[r].completed
  BY <1>1, <1>2, <1>3, <1>5, <1>6 DEF RunRow
<1> QED BY <1>4, <1>7 DEF pc, at, answers

(* A cell is answered: with a verdict by the judge that was called, or with   *)
(* an error whether anybody was called or not.                                *)
LEMMA AdvanceKeeps ==
  ASSUME QualificationConstants, RunTypeOK, EvidenceInv, reader.pc # "answered",
         NEW r \in Runs, run[r].pc \in {"candidate", "judge"},
         NEW answer \in Kinds \ {"none"}, NEW tokens \in 0 .. MaxTokens, NEW calls,
         calls = run[r].calls \/ calls = run[r].calls + 1,
         answer # "error" => run[r].pc = "judge" /\ calls = run[r].calls + 1,
         Advance(r, answer, tokens, calls),
         UNCHANGED <<time, deployed, held, status, latest, reports, reader>>
  PROVE  RunTypeOK' /\ EvidenceInv' /\ QuietReadable' /\ AnswersTrue'
<1>1. PICK c \in 1 .. Candidates, s \in 1 .. Scenarios : run[r].at = <<c, s>>
  BY RowFacts DEF RunTypeOK
<1>2. PICK k \in Nat : k = (c - 1) * Scenarios + (s - 1)
  BY CellFacts
<1>3. /\ 2 * k + 2 <= Planned /\ Planned \in Nat
      /\ s = Scenarios => c * Scenarios = k + 1
  <2>1. k + 1 <= c * Scenarios /\ c * Scenarios <= Candidates * Scenarios
        /\ Planned = 2 * (Candidates * Scenarios) /\ c * Scenarios \in Nat
        /\ Candidates * Scenarios \in Nat /\ (s = Scenarios => c * Scenarios = k + 1)
    <3>1. PICK a \in Nat : a = (c - 1) * Scenarios
      BY CellFacts
    <3>2. PICK b \in Nat : b = c * Scenarios
      BY CellFacts
    <3>3. b = a + Scenarios /\ k = a + (s - 1) /\ Scenarios \in Nat
      BY <1>2, <3>1, <3>2, CellFacts, ConstantFacts
    <3>4. k + 1 <= b /\ (s = Scenarios => b = k + 1)
      BY <3>3
    <3> QED BY <3>2, <3>4, CellFacts
  <2> QED BY <2>1
<1>4. /\ CallsDue(r) = IF run[r].pc = "judge" THEN 2 * k + 1 ELSE 2 * k
      /\ run[r].calls \in Nat /\ run[r].calls <= CallsDue(r)
      /\ ErrorFree(r) => run[r].calls = CallsDue(r)
  <2>1. run[r].calls \in Nat
    BY <1>3, RowFacts DEF RunTypeOK
  <2>2. CallsDue(r) = IF run[r].pc = "judge" THEN 2 * k + 1 ELSE 2 * k
    BY <1>1, <1>2 DEF CallsDue
  <2> QED BY <2>1, <2>2 DEF EvidenceInv, AskedInOrder, Asking
<1>5. calls \in 0 .. Planned /\ calls <= 2 * k + 2
  BY <1>3, <1>4
<1>6. PICK x \in RunRow :
           /\ run' = [run EXCEPT ![r] = x]
           /\ x.answers = [run[r].answers EXCEPT ![run[r].at] = answer]
           /\ x.tokens = tokens /\ x.calls = calls
           /\ x.pc = IF run[r].at[2] = Scenarios THEN "record" ELSE "candidate"
           /\ x.at = IF run[r].at[2] = Scenarios THEN run[r].at
                                                 ELSE <<run[r].at[1], run[r].at[2] + 1>>
           /\ x.binding = run[r].binding /\ x.started = run[r].started
           /\ x.completed = run[r].completed
  BY <1>5, AdvanceFacts
<1>7. /\ run'[r] = x /\ run[r] \in RunRow /\ run[r].answers \in [Matrix -> Kinds]
      /\ x.pc = IF s = Scenarios THEN "record" ELSE "candidate"
      /\ x.at = IF s = Scenarios THEN <<c, s>> ELSE <<c, s + 1>>
  BY <1>1, <1>6, RowFacts DEF RunTypeOK
<1>8. /\ x.answers[<<c, s>>] = answer
      /\ \A p \in Matrix : p # <<c, s>> => x.answers[p] = run[r].answers[p]
  BY <1>1, <1>6, <1>7 DEF Matrix
<1>9. CallsDue(r)' = 2 * (k + 1)
  <2>1. CASE s = Scenarios
    <3>1. x.pc = "record" /\ x.at[1] = c
      BY <1>7, <2>1
    <3>2. CallsDue(r)' = 2 * (c * Scenarios)
      BY <1>7, <3>1 DEF CallsDue
    <3> QED BY <1>3, <2>1, <3>2
  <2>2. CASE s # Scenarios
    <3>1. x.pc = "candidate" /\ x.at[1] = c /\ x.at[2] = s + 1
      BY <1>7, <2>2
    <3>2. CallsDue(r)' = 2 * ((c - 1) * Scenarios + ((s + 1) - 1))
      BY <1>7, <3>1 DEF CallsDue
    <3>3. (c - 1) * Scenarios \in Nat
      BY CellFacts
    <3> QED BY <1>2, <3>2, <3>3
  <2> QED BY <2>1, <2>2
<1>10. \A d \in 1 .. Candidates : (Past(r, d)' <=> d < c) /\ (Past(r, d) <=> d < c)
  BY <1>1, <1>7 DEF Past
<1>11. \A d \in 1 .. Candidates, t \in 1 .. Scenarios :
          Asked(r, d, t)' <=> Asked(r, d, t) \/ <<d, t>> = <<c, s>>
  <2> SUFFICES ASSUME NEW d \in 1 .. Candidates, NEW t \in 1 .. Scenarios
               PROVE  Asked(r, d, t)' <=> Asked(r, d, t) \/ (d = c /\ t = s)
    OBVIOUS
  <2>1. Asked(r, d, t) <=> d < c \/ (d = c /\ t < s)
    BY <1>1, <1>10 DEF Asked
  <2>2. CASE s = Scenarios
    <3>1. Asked(r, d, t)' <=> d < c \/ d = c
      BY <1>7, <1>10, <2>2 DEF Asked
    <3> QED BY <2>1, <2>2, <3>1, ConstantFacts
  <2>3. CASE s # Scenarios
    <3>1. Asked(r, d, t)' <=> d < c \/ (d = c /\ t < s + 1)
      BY <1>7, <1>10, <2>3 DEF Asked
    <3> QED BY <2>1, <3>1
  <2> QED BY <2>2, <2>3
<1>12. \A d \in 1 .. Candidates : Past(r, d)' => RecordTrue(r, d)'
  <2> SUFFICES ASSUME NEW d \in 1 .. Candidates, d < c
               PROVE  RecordTrue(r, d)'
    BY <1>10
  <2>1. RecordTrue(r, d)
    BY <1>10 DEF EvidenceInv, AskedInOrder
  <2>2. \A t \in 1 .. Scenarios : run'[r].answers[<<d, t>>] = run[r].answers[<<d, t>>]
    BY <1>7, <1>8 DEF Matrix
  <2>3. Answers(r, d)' = Answers(r, d)
    BY <2>2 DEF Answers
  <2> QED BY <2>1, <2>3 DEF RecordTrue, CandidateState
<1>13. ErrorFree(r)' => calls = 2 * (k + 1)
  <2> SUFFICES ASSUME ErrorFree(r)'
               PROVE  calls = 2 * (k + 1)
    OBVIOUS
  <2>1. answer # "error" /\ run[r].pc = "judge" /\ calls = run[r].calls + 1
    BY <1>7, <1>8 DEF ErrorFree, Matrix
  <2>2. run[r].answers[<<c, s>>] = "none"
    <3>1. ~ Asked(r, c, s)
      BY <1>1, <2>1 DEF Asked, Past
    <3> QED BY <3>1, <2>1 DEF EvidenceInv, AskedInOrder, Asking
  <2>3. ErrorFree(r)
    BY <1>7, <1>8, <2>2 DEF ErrorFree
  <2> QED BY <1>4, <2>1, <2>3
<1>14. AskedInOrder(r)'
  <2>1. run'[r].pc \in {"record", "candidate"}
    BY <1>7
  <2>2. \A d \in 1 .. Candidates, t \in 1 .. Scenarios :
          Asked(r, d, t)' <=> run'[r].answers[<<d, t>>] # "none"
    <3> SUFFICES ASSUME NEW d \in 1 .. Candidates, NEW t \in 1 .. Scenarios
                 PROVE  Asked(r, d, t)' <=> run'[r].answers[<<d, t>>] # "none"
      OBVIOUS
    <3>1. Asked(r, d, t) <=> run[r].answers[<<d, t>>] # "none"
      BY DEF EvidenceInv, AskedInOrder, Asking
    <3>2. CASE <<d, t>> = <<c, s>>
      BY <1>7, <1>8, <1>11, <3>2
    <3>3. CASE <<d, t>> # <<c, s>>
      BY <1>7, <1>8, <1>11, <3>1, <3>3 DEF Matrix
    <3> QED BY <3>2, <3>3
  <2>3. run'[r].calls <= CallsDue(r)' /\ (ErrorFree(r)' => run'[r].calls = CallsDue(r)')
    BY <1>5, <1>6, <1>7, <1>9, <1>13
  <2> QED BY <1>12, <2>1, <2>2, <2>3 DEF AskedInOrder
<1>15. SummaryTrue(r)'
  <2>1. ~ Complete(r)
    BY DEF EvidenceInv, SummaryTrue
  <2> QED BY <1>7, <2>1 DEF SummaryTrue, Complete
<1>16. run[r].pc \in Busy /\ run'[r].pc \in Busy \ {"status"}
  BY <1>7 DEF Busy, Asking
<1>17. PICK y \in Report : reports' = [reports EXCEPT ![r] = y]
  <2>1. reports[r] \in Report /\ reports' = [reports EXCEPT ![r] = reports[r]]
    BY DEF RunTypeOK
  <2> QED BY <2>1
<1> QED BY <1>6, <1>14, <1>15, <1>16, <1>17, Inside

LEMMA AskCandidateKeeps ==
  ASSUME QualificationConstants, RunTypeOK, EvidenceInv, reader.pc # "answered",
         NEW r \in Runs, AskCandidate(r)
  PROVE  RunTypeOK' /\ EvidenceInv' /\ QuietReadable' /\ AnswersTrue'
<1>1. /\ run[r].pc = "candidate" /\ run[r] \in RunRow
      /\ UNCHANGED <<time, deployed, held, status, latest, reports, reader>>
  BY DEF AskCandidate, RunTypeOK
<1>2. MaxTokens \in Nat /\ run[r].tokens \in Nat /\ run[r].tokens <= MaxTokens /\ run[r].calls \in Nat
  <2>1. Planned \in Nat
    BY CellFacts, ConstantFacts
  <2> QED BY <1>1, <2>1, RowFacts, ConstantFacts
<1>3. PICK n, m : n = run[r].calls /\ m = run[r].tokens
  OBVIOUS
<1>4. "error" \in Kinds \ {"none"}
  BY DEF Kinds
<1>5. CASE Advance(r, "error", run[r].tokens, run[r].calls)
  BY <1>1, <1>2, <1>3, <1>4, <1>5, AdvanceKeeps
<1>6. CASE AdapterFails(r)
  <2>1. PICK k : k = n + 1
    OBVIOUS
  <2>2. Advance(r, "error", m, k)
    BY <1>3, <1>6, <2>1 DEF AdapterFails
  <2> QED BY <1>1, <1>2, <1>3, <1>4, <2>1, <2>2, AdvanceKeeps
<1>7. ASSUME NEW t \in CallTokens, run[r].tokens + t <= MaxTokens,
             Advance(r, "error", run[r].tokens + t, run[r].calls + 1)
      PROVE  RunTypeOK' /\ EvidenceInv' /\ QuietReadable' /\ AnswersTrue'
  <2>1. PICK k, u : k = n + 1 /\ u = m + t
    OBVIOUS
  <2>2. u \in 0 .. MaxTokens
    BY <1>2, <1>3, <1>7, <2>1, ConstantFacts
  <2>3. Advance(r, "error", u, k)
    BY <1>3, <1>7, <2>1
  <2> QED BY <1>1, <1>2, <1>3, <1>4, <2>1, <2>2, <2>3, AdvanceKeeps
<1>8. ASSUME NEW t \in CallTokens, run[r].tokens + t <= MaxTokens,
             run' = [run EXCEPT ![r].tokens = @ + t, ![r].calls = @ + 1, ![r].pc = "judge"]
      PROVE  RunTypeOK' /\ EvidenceInv' /\ QuietReadable' /\ AnswersTrue'
  <2>1. PICK c \in 1 .. Candidates, s \in 1 .. Scenarios : run[r].at = <<c, s>>
    BY <1>1, RowFacts
  <2>2. PICK k \in Nat : k = (c - 1) * Scenarios + (s - 1)
    BY CellFacts
  <2>3. 2 * k + 2 <= Planned /\ Planned \in Nat
    <3>1. PICK a \in Nat, b \in Nat : a = (c - 1) * Scenarios /\ b = c * Scenarios
      BY CellFacts
    <3>2. b = a + Scenarios /\ k = a + (s - 1) /\ Scenarios \in Nat
      BY <2>2, <3>1, CellFacts, ConstantFacts
    <3>3. k + 1 <= b
      BY <3>2
    <3>4. b <= Candidates * Scenarios /\ Candidates * Scenarios \in Nat
          /\ Planned = 2 * (Candidates * Scenarios)
      BY <3>1, CellFacts
    <3> QED BY <3>3, <3>4
  <2>4. /\ CallsDue(r) = 2 * k /\ run[r].calls <= 2 * k
        /\ ErrorFree(r) => run[r].calls = 2 * k
    <3>1. CallsDue(r) = 2 * k
      BY <1>1, <2>1, <2>2 DEF CallsDue
    <3> QED BY <1>1, <3>1 DEF EvidenceInv, AskedInOrder, Asking
  <2>5. PICK x \in RunRow :
          /\ run' = [run EXCEPT ![r] = x] /\ x.pc = "judge" /\ x.calls = run[r].calls + 1
          /\ x.at = run[r].at /\ x.answers = run[r].answers
    <3> DEFINE x == [run[r] EXCEPT !.tokens = run[r].tokens + t, !.calls = run[r].calls + 1,
                                   !.pc = "judge"]
    <3>1. run[r].tokens + t \in 0 .. MaxTokens /\ run[r].calls + 1 \in 0 .. Planned
      BY <1>2, <1>8, <2>3, <2>4, ConstantFacts
    <3>2. run' = [run EXCEPT ![r] = x]
      BY <1>8, Zenon DEF RunTypeOK
    <3>3. x \in RunRow /\ x.pc = "judge" /\ x.calls = run[r].calls + 1
          /\ x.at = run[r].at /\ x.answers = run[r].answers
      BY <1>1, <3>1 DEF RunRow
    <3> HIDE DEF x
    <3> QED BY <3>2, <3>3
  <2>6. run'[r] = x
    BY <2>5 DEF RunTypeOK
  <2>7. /\ \A d : Past(r, d)' <=> Past(r, d)
        /\ \A d, t2 : Asked(r, d, t2)' <=> Asked(r, d, t2)
        /\ \A d : RecordTrue(r, d)' <=> RecordTrue(r, d)
        /\ ErrorFree(r)' <=> ErrorFree(r)
    <3>1. \A d : Past(r, d)' <=> Past(r, d)
      BY <1>1, <2>5, <2>6 DEF Past
    <3>2. \A d, t2 : Asked(r, d, t2)' <=> Asked(r, d, t2)
      BY <1>1, <2>5, <2>6, <3>1 DEF Asked
    <3>3. \A d : RecordTrue(r, d)' <=> RecordTrue(r, d)
      BY <1>1, <2>5, <2>6 DEF RecordTrue, Answers, CandidateState
    <3> QED BY <2>5, <2>6, <3>1, <3>2, <3>3 DEF ErrorFree
  <2>8. CallsDue(r)' = 2 * k + 1
    BY <2>1, <2>2, <2>5, <2>6 DEF CallsDue
  <2>9. AskedInOrder(r)'
    <3>1. run'[r].calls <= CallsDue(r)' /\ (ErrorFree(r)' => run'[r].calls = CallsDue(r)')
      BY <1>2, <2>4, <2>5, <2>6, <2>7, <2>8
    <3>2. \A d \in 1 .. Candidates, t2 \in 1 .. Scenarios :
            Asked(r, d, t2)' <=> run'[r].answers[<<d, t2>>] # "none"
      <4>1. \A d \in 1 .. Candidates, t2 \in 1 .. Scenarios :
              Asked(r, d, t2) <=> run[r].answers[<<d, t2>>] # "none"
        BY <1>1 DEF EvidenceInv, AskedInOrder, Asking
      <4>2. run'[r].answers = run[r].answers
        BY <2>5, <2>6
      <4> QED BY <2>7, <4>1, <4>2
    <3>3. \A d \in 1 .. Candidates : Past(r, d)' => RecordTrue(r, d)'
      BY <2>7 DEF EvidenceInv, AskedInOrder
    <3> QED BY <2>5, <2>6, <3>1, <3>2, <3>3 DEF AskedInOrder
  <2>10. SummaryTrue(r)'
    <3>1. ~ Complete(r)
      BY <1>1 DEF EvidenceInv, SummaryTrue
    <3> QED BY <1>1, <2>5, <2>6, <3>1 DEF SummaryTrue, Complete
  <2>11. run[r].pc \in Busy /\ run'[r].pc \in Busy \ {"status"}
    BY <1>1, <2>5, <2>6 DEF Busy, Asking
  <2>12. PICK y \in Report : reports' = [reports EXCEPT ![r] = y]
    <3>1. reports[r] \in Report /\ reports' = [reports EXCEPT ![r] = reports[r]]
      BY <1>1 DEF RunTypeOK
    <3> QED BY <3>1
  <2> QED BY <1>1, <2>5, <2>9, <2>10, <2>11, <2>12, Inside
<1> QED BY <1>5, <1>6, <1>7, <1>8 DEF AskCandidate

LEMMA AskJudgeKeeps ==
  ASSUME QualificationConstants, RunTypeOK, EvidenceInv, reader.pc # "answered",
         NEW r \in Runs, AskJudge(r)
  PROVE  RunTypeOK' /\ EvidenceInv' /\ QuietReadable' /\ AnswersTrue'
<1>1. /\ run[r].pc = "judge" /\ run[r] \in RunRow
      /\ UNCHANGED <<time, deployed, held, status, latest, reports, reader>>
  BY DEF AskJudge, RunTypeOK
<1>2. MaxTokens \in Nat /\ run[r].tokens \in Nat /\ run[r].tokens <= MaxTokens
  BY <1>1, RowFacts, ConstantFacts
<1>3. PICK n, m : n = run[r].calls /\ m = run[r].tokens
  OBVIOUS
<1>4. "error" \in Kinds \ {"none"} /\ {"pass", "fail"} \subseteq Kinds \ {"none"}
  BY DEF Kinds
<1>5. CASE Advance(r, "error", run[r].tokens, run[r].calls)
  BY <1>1, <1>2, <1>3, <1>4, <1>5, AdvanceKeeps
<1>6. CASE AdapterFails(r)
  <2>1. PICK k : k = n + 1
    OBVIOUS
  <2>2. Advance(r, "error", m, k)
    BY <1>3, <1>6, <2>1 DEF AdapterFails
  <2> QED BY <1>1, <1>2, <1>3, <1>4, <2>1, <2>2, AdvanceKeeps
<1>7. ASSUME NEW verdict \in {"pass", "fail"}, NEW t \in CallTokens,
             run[r].tokens + t <= MaxTokens,
             Advance(r, verdict, run[r].tokens + t, run[r].calls + 1)
      PROVE  RunTypeOK' /\ EvidenceInv' /\ QuietReadable' /\ AnswersTrue'
  <2>1. PICK k, u : k = n + 1 /\ u = m + t
    OBVIOUS
  <2>2. u \in 0 .. MaxTokens
    BY <1>2, <1>3, <1>7, <2>1, ConstantFacts
  <2>3. Advance(r, verdict, u, k)
    BY <1>3, <1>7, <2>1
  <2> QED BY <1>1, <1>2, <1>3, <1>4, <2>1, <2>2, <2>3, AdvanceKeeps
<1> QED BY <1>5, <1>6, <1>7 DEF AskJudge

LEMMA WriteRecordKeeps ==
  ASSUME QualificationConstants, RunTypeOK, EvidenceInv, reader.pc # "answered",
         NEW r \in Runs, WriteRecord(r)
  PROVE  RunTypeOK' /\ EvidenceInv' /\ QuietReadable' /\ AnswersTrue'
<1>1. /\ run[r].pc = "record" /\ run[r] \in RunRow /\ reports[r] \in Report
      /\ UNCHANGED <<time, deployed, held, status, latest, reader>>
  BY DEF WriteRecord, RunTypeOK
<1>2. PICK c \in 1 .. Candidates, s \in 1 .. Scenarios : run[r].at = <<c, s>>
  BY <1>1, RowFacts
<1>3. Answers(r, c) \subseteq Kinds
  <2>1. \A t \in 1 .. Scenarios : <<c, t>> \in Matrix
    BY DEF Matrix
  <2>2. run[r].answers \in [Matrix -> Kinds]
    BY <1>1, RowFacts
  <2> QED BY <2>1, <2>2 DEF Answers
<1>4. PICK d : d = [state |-> CandidateState(Answers(r, c)), input |-> Answers(r, c)]
  OBVIOUS
<1>5. d \in Record /\ d.state = CandidateState(Answers(r, c))
  <2>1. CandidateState(Answers(r, c)) \in Verdicts
    BY DEF CandidateState, Verdicts
  <2> QED BY <1>3, <1>4, <2>1 DEF Record
<1>6. PICK y \in Report :
        /\ reports' = [reports EXCEPT ![r] = y] /\ y.summary = reports[r].summary
        /\ y.records = [reports[r].records EXCEPT ![c] = d]
  <2> DEFINE y == [reports[r] EXCEPT !.records = [reports[r].records EXCEPT ![c] = d]]
  <2>1. [reports[r].records EXCEPT ![c] = d] \in Records
    BY <1>1, <1>5, ReportFacts DEF Records
  <2>2. reports' = [reports EXCEPT ![r] = y]
    <3>1. run[r].at[1] = c
      BY <1>2
    <3>2. reports' = [reports EXCEPT ![r].records[c] = d]
      BY <1>4, <3>1, Zenon DEF WriteRecord
    <3> QED BY <3>2, Zenon DEF RunTypeOK
  <2>3. y \in Report /\ y.summary = reports[r].summary
        /\ y.records = [reports[r].records EXCEPT ![c] = d]
    BY <1>1, <2>1 DEF Report
  <2> HIDE DEF y
  <2> QED BY <2>2, <2>3
<1>7. PICK x \in RunRow :
        /\ run' = [run EXCEPT ![r] = x] /\ x.answers = run[r].answers /\ x.calls = run[r].calls
        /\ x.pc = IF c = Candidates THEN "check" ELSE "candidate"
        /\ x.at = IF c = Candidates THEN <<c, s>> ELSE <<c + 1, 1>>
  <2> DEFINE pc == IF c = Candidates THEN "check" ELSE "candidate"
             at == IF c = Candidates THEN <<c, s>> ELSE <<c + 1, 1>>
             x == [run[r] EXCEPT !.pc = pc, !.at = at]
  <2>1. at \in Matrix
    <3>1. 1 \in 1 .. Scenarios /\ (c # Candidates => c + 1 \in 1 .. Candidates)
      BY ConstantFacts
    <3> QED BY <3>1 DEF Matrix
  <2>2. run' = [run EXCEPT ![r] = x]
    <3>1. run[r].at[1] = c
      BY <1>2
    <3>2. run' = [run EXCEPT ![r].pc = IF c = Candidates THEN "check" ELSE "candidate",
                             ![r].at = IF c = Candidates THEN @ ELSE <<c + 1, 1>>]
      BY <3>1, Zenon DEF WriteRecord
    <3>3. run' = [run EXCEPT ![r] = [run[r] EXCEPT !.pc = pc,
                    !.at = IF c = Candidates THEN run[r].at ELSE <<c + 1, 1>>]]
      BY <3>2, Zenon DEF RunTypeOK
    <3> QED BY <1>2, <3>3
  <2>3. pc \in {"check", "candidate"} /\ x = [run[r] EXCEPT !.pc = pc, !.at = at]
    OBVIOUS
  <2> HIDE DEF pc, at, x
  <2>4. x \in RunRow /\ x.answers = run[r].answers /\ x.calls = run[r].calls /\ x.pc = pc /\ x.at = at
    BY <1>1, <2>1, <2>3 DEF RunRow
  <2> QED BY <2>2, <2>4 DEF pc, at
<1>8. run'[r] = x /\ reports'[r] = y
  BY <1>6, <1>7 DEF RunTypeOK
<1>9. Candidates \in Nat /\ c \in Nat /\ Scenarios \in Nat /\ c <= Candidates
  BY ConstantFacts
<1>10. \A e \in 1 .. Candidates :
         (Past(r, e)' <=> e <= c) /\ (Past(r, e) <=> e < c)
  <2>1. \A e \in 1 .. Candidates : Past(r, e) <=> e < c
    BY <1>1, <1>2 DEF Past
  <2>2. CASE c = Candidates
    BY <1>7, <1>8, <1>9, <2>1, <2>2 DEF Past
  <2>3. CASE c # Candidates
    <3>1. x.pc = "candidate" /\ x.at[1] = c + 1
      BY <1>7, <2>3
    <3> QED BY <1>8, <1>9, <2>1, <3>1 DEF Past
  <2> QED BY <2>2, <2>3
<1>11. \A e \in 1 .. Candidates, t \in 1 .. Scenarios :
          (Asked(r, e, t)' <=> e <= c) /\ (Asked(r, e, t) <=> e <= c)
  <2>1. \A e \in 1 .. Candidates, t \in 1 .. Scenarios : Asked(r, e, t) <=> e <= c
    BY <1>1, <1>2, <1>9, <1>10 DEF Asked
  <2>2. CASE c = Candidates
    BY <1>7, <1>8, <1>10, <2>1, <2>2 DEF Asked
  <2>3. CASE c # Candidates
    <3>1. x.pc = "candidate" /\ x.at[2] = 1
      BY <1>7, <2>3
    <3> QED BY <1>8, <1>9, <1>10, <2>1, <3>1 DEF Asked
  <2> QED BY <2>2, <2>3
<1>12. \A e \in 1 .. Candidates : Answers(r, e)' = Answers(r, e)
  BY <1>7, <1>8 DEF Answers
<1>13. \A e \in 1 .. Candidates : Past(r, e)' => RecordTrue(r, e)'
  <2> SUFFICES ASSUME NEW e \in 1 .. Candidates, e <= c
               PROVE  RecordTrue(r, e)'
    BY <1>10
  <2>1. CASE e = c
    <3>1. reports'[r].records[c] = d
      BY <1>1, <1>6, <1>8, ReportFacts DEF Records
    <3> QED BY <1>5, <1>12, <2>1, <3>1 DEF RecordTrue, CandidateState
  <2>2. CASE e # c
    <3>1. RecordTrue(r, e)
      <4>1. e < c
        BY <1>9, <2>2
      <4> QED BY <1>10, <4>1 DEF EvidenceInv, AskedInOrder
    <3>2. reports'[r].records[e] = reports[r].records[e]
      BY <1>1, <1>6, <1>8, <2>2, ReportFacts DEF Records
    <3> QED BY <1>12, <3>1, <3>2 DEF RecordTrue, CandidateState
  <2> QED BY <2>1, <2>2
<1>14. CallsDue(r)' = CallsDue(r)
  <2>1. CallsDue(r) = 2 * (c * Scenarios)
    BY <1>1, <1>2 DEF CallsDue
  <2>2. CASE c = Candidates
    BY <1>7, <1>8, <2>1, <2>2 DEF CallsDue
  <2>3. CASE c # Candidates
    <3>1. x.pc = "candidate" /\ x.at[1] = c + 1 /\ x.at[2] = 1
      BY <1>7, <2>3
    <3>2. CallsDue(r)' = 2 * (((c + 1) - 1) * Scenarios + (1 - 1))
      BY <1>8, <3>1 DEF CallsDue
    <3>3. ((c + 1) - 1) * Scenarios = c * Scenarios /\ c * Scenarios \in Nat
      BY CellFacts
    <3> QED BY <2>1, <3>2, <3>3
  <2> QED BY <2>2, <2>3
<1>15. AskedInOrder(r)'
  <2>1. run'[r].pc \in {"check", "candidate"}
    BY <1>7, <1>8
  <2>2. \A e \in 1 .. Candidates, t \in 1 .. Scenarios :
          Asked(r, e, t)' <=> run'[r].answers[<<e, t>>] # "none"
    <3>1. \A e \in 1 .. Candidates, t \in 1 .. Scenarios :
            Asked(r, e, t) <=> run[r].answers[<<e, t>>] # "none"
      BY <1>1 DEF EvidenceInv, AskedInOrder, Asking
    <3> QED BY <1>7, <1>8, <1>11, <3>1
  <2>3. run'[r].calls <= CallsDue(r)' /\ (ErrorFree(r)' => run'[r].calls = CallsDue(r)')
    <3>1. run[r].calls <= CallsDue(r) /\ (ErrorFree(r) => run[r].calls = CallsDue(r))
      BY <1>1 DEF EvidenceInv, AskedInOrder, Asking
    <3>2. ErrorFree(r)' <=> ErrorFree(r)
      BY <1>7, <1>8 DEF ErrorFree
    <3> QED BY <1>7, <1>8, <1>14, <3>1, <3>2
  <2> QED BY <1>13, <2>1, <2>2, <2>3 DEF AskedInOrder
<1>16. SummaryTrue(r)'
  <2>1. ~ Complete(r)
    BY <1>1 DEF EvidenceInv, SummaryTrue
  <2>2. ~ Complete(r)' /\ run'[r].pc \notin {"latest", "status"}
    BY <1>6, <1>7, <1>8, <2>1 DEF Complete
  <2> QED BY <2>2 DEF SummaryTrue
<1>17. run[r].pc \in Busy /\ run'[r].pc \in Busy \ {"status"}
  BY <1>1, <1>7, <1>8 DEF Busy, Asking
<1> QED BY <1>1, <1>6, <1>7, <1>15, <1>16, <1>17, Inside

LEMMA CheckEndKeeps ==
  ASSUME QualificationConstants, RunTypeOK, EvidenceInv, reader.pc # "answered",
         NEW r \in Runs, CheckEnd(r)
  PROVE  RunTypeOK' /\ EvidenceInv' /\ QuietReadable' /\ AnswersTrue'
<1>1. /\ run[r].pc = "check" /\ run[r] \in RunRow /\ reports[r] \in Report
      /\ time - run[r].started <= MaxWall /\ time \in Nat
      /\ UNCHANGED <<time, deployed, held, status, latest, reports, reader>>
  BY DEF CheckEnd, RunTypeOK
<1>2. PICK x \in RunRow :
        /\ run' = [run EXCEPT ![r] = x] /\ x.answers = run[r].answers /\ x.calls = run[r].calls
        /\ x.pc = "summary" /\ x.completed = time /\ x.started = run[r].started
  <2> DEFINE x == [run[r] EXCEPT !.pc = "summary", !.completed = time]
  <2>1. run' = [run EXCEPT ![r] = x]
    BY Zenon DEF CheckEnd, RunTypeOK
  <2>2. x \in RunRow /\ x.answers = run[r].answers /\ x.calls = run[r].calls
        /\ x.pc = "summary" /\ x.completed = time /\ x.started = run[r].started
    BY <1>1 DEF RunRow
  <2> HIDE DEF x
  <2> QED BY <2>1, <2>2
<1>3. run'[r] = x /\ reports'[r] = reports[r]
  BY <1>1, <1>2 DEF RunTypeOK
<1>4. /\ \A c : Past(r, c)' <=> Past(r, c)
      /\ \A c, s : Asked(r, c, s)' <=> Asked(r, c, s)
      /\ \A c : RecordTrue(r, c)' <=> RecordTrue(r, c)
      /\ ErrorFree(r)' <=> ErrorFree(r)
  <2>1. \A c : Past(r, c)' <=> Past(r, c)
    BY <1>1, <1>2, <1>3 DEF Past
  <2>2. \A c, s : Asked(r, c, s)' <=> Asked(r, c, s)
    BY <1>1, <1>2, <1>3, <2>1 DEF Asked
  <2>3. \A c : RecordTrue(r, c)' <=> RecordTrue(r, c)
    BY <1>2, <1>3 DEF RecordTrue, Answers, CandidateState
  <2> QED BY <1>2, <1>3, <2>1, <2>2, <2>3 DEF ErrorFree
<1>5. CallsDue(r)' = CallsDue(r)
  BY <1>1, <1>2, <1>3 DEF CallsDue
<1>6. AskedInOrder(r)'
  <2>1. run'[r].calls <= CallsDue(r)' /\ (ErrorFree(r)' => run'[r].calls = CallsDue(r)')
    BY <1>1, <1>2, <1>3, <1>4, <1>5 DEF EvidenceInv, AskedInOrder, Asking
  <2>2. \A c \in 1 .. Candidates, s \in 1 .. Scenarios :
          Asked(r, c, s)' <=> run'[r].answers[<<c, s>>] # "none"
    <3>1. \A c \in 1 .. Candidates, s \in 1 .. Scenarios :
            Asked(r, c, s) <=> run[r].answers[<<c, s>>] # "none"
      BY <1>1 DEF EvidenceInv, AskedInOrder, Asking
    <3> QED BY <1>2, <1>3, <1>4, <3>1
  <2>3. \A c \in 1 .. Candidates : Past(r, c)' => RecordTrue(r, c)'
    BY <1>4 DEF EvidenceInv, AskedInOrder
  <2>4. run'[r].completed - run'[r].started <= MaxWall
    BY <1>1, <1>2, <1>3
  <2> QED BY <1>2, <1>3, <2>1, <2>2, <2>3, <2>4 DEF AskedInOrder
<1>7. SummaryTrue(r)'
  <2>1. ~ Complete(r)
    BY <1>1 DEF EvidenceInv, SummaryTrue
  <2> QED BY <1>2, <1>3, <2>1 DEF SummaryTrue, Complete
<1>8. run[r].pc \in Busy /\ run'[r].pc \in Busy \ {"status"}
  BY <1>1, <1>2, <1>3 DEF Busy, Asking
<1>9. PICK y \in Report : reports' = [reports EXCEPT ![r] = y]
  <2>1. reports[r] \in Report /\ reports' = [reports EXCEPT ![r] = reports[r]]
    BY <1>1 DEF RunTypeOK
  <2> QED BY <2>1
<1> QED BY <1>1, <1>2, <1>6, <1>7, <1>8, <1>9, Inside

LEMMA OverallFacts ==
  ASSUME NEW states
  PROVE  Overall(states) \in Verdicts
BY DEF Overall, Verdicts

LEMMA WriteSummaryKeeps ==
  ASSUME QualificationConstants, RunTypeOK, EvidenceInv, reader.pc # "answered",
         NEW r \in Runs, WriteSummary(r)
  PROVE  RunTypeOK' /\ EvidenceInv' /\ QuietReadable' /\ AnswersTrue'
<1>1. /\ run[r].pc = "summary" /\ run[r] \in RunRow /\ reports[r] \in Report
      /\ UNCHANGED <<time, deployed, held, status, latest, reader>>
  BY DEF WriteSummary, RunTypeOK
<1>2. Planned \in Nat /\ Planned = 2 * (Candidates * Scenarios) /\ MaxTokens \in Nat
  BY CellFacts, ConstantFacts
<1>3. PICK m : m = [state |-> Overall(States(reports[r])), run |-> r, binding |-> run[r].binding,
                    calls |-> run[r].calls, tokens |-> run[r].tokens,
                    records |-> reports[r].records,
                    started |-> run[r].started, completed |-> run[r].completed]
  OBVIOUS
<1>4. /\ m \in Summary /\ m.state = Overall(States(reports[r])) /\ m.run = r
      /\ m.binding = run[r].binding /\ m.calls = run[r].calls /\ m.tokens = run[r].tokens
      /\ m.records = reports[r].records /\ m.started = run[r].started
      /\ m.completed = run[r].completed
  <2>1. PICK o \in Verdicts : o = Overall(States(reports[r]))
    BY OverallFacts
  <2>2. /\ run[r].binding \in Nat /\ run[r].calls \in Nat /\ run[r].tokens \in Nat
        /\ reports[r].records \in Records /\ run[r].started \in Nat /\ run[r].completed \in Nat
    BY <1>1, <1>2, RowFacts, ReportFacts
  <2> QED BY <1>3, <2>1, <2>2 DEF Summary
<1>5. m # NoDoc
  <2>1. m.state \in Verdicts
    BY <1>4, OverallFacts
  <2> QED BY <2>1 DEF NoDoc, Verdicts
<1>6. PICK y \in Report :
        /\ reports' = [reports EXCEPT ![r] = y] /\ y.summary = m
        /\ y.records = reports[r].records
  <2> DEFINE y == [reports[r] EXCEPT !.summary = m]
  <2>1. reports' = [reports EXCEPT ![r] = y]
    <3>1. reports' = [reports EXCEPT ![r].summary = m]
      BY <1>3, Zenon DEF WriteSummary
    <3> QED BY <3>1, Zenon DEF RunTypeOK
  <2>2. y \in Report /\ y.summary = m /\ y.records = reports[r].records
    BY <1>1, <1>4 DEF Report
  <2> HIDE DEF y
  <2> QED BY <2>1, <2>2
<1>7. PICK x \in RunRow :
        /\ run' = [run EXCEPT ![r] = x] /\ x.answers = run[r].answers
        /\ x.pc = "latest" /\ x.binding = run[r].binding /\ x.started = run[r].started
  <2> DEFINE x == [run[r] EXCEPT !.pc = "latest"]
  <2>1. run' = [run EXCEPT ![r] = x]
    BY Zenon DEF WriteSummary, ToPc, RunTypeOK
  <2>2. x \in RunRow /\ x.answers = run[r].answers
        /\ x.pc = "latest" /\ x.binding = run[r].binding /\ x.started = run[r].started
    BY <1>1 DEF RunRow
  <2> HIDE DEF x
  <2> QED BY <2>1, <2>2
<1>8. run'[r] = x /\ reports'[r] = y
  BY <1>6, <1>7 DEF RunTypeOK
<1>9. AskedInOrder(r)'
  <2>1. run'[r].pc = "latest" /\ "latest" \notin Asking
    BY <1>7, <1>8 DEF Asking
  <2>2. \A c : ~ Past(r, c)'
    BY <2>1 DEF Past
  <2> QED BY <2>1, <2>2 DEF AskedInOrder
<1>10. SummaryTrue(r)'
  <2>1. \A p \in Matrix : run'[r].answers[p] # "none"
    <3>1. \A c \in 1 .. Candidates, s \in 1 .. Scenarios : run[r].answers[<<c, s>>] # "none"
      <4>1. \A c \in 1 .. Candidates, s \in 1 .. Scenarios : Asked(r, c, s)
        BY <1>1 DEF Asked, Past
      <4> QED BY <1>1, <4>1 DEF EvidenceInv, AskedInOrder, Asking
    <3>2. \A p \in Matrix : \E c \in 1 .. Candidates, s \in 1 .. Scenarios : p = <<c, s>>
      BY DEF Matrix
    <3> QED BY <1>7, <1>8, <3>1, <3>2
  <2>2. \A c \in 1 .. Candidates : RecordTrue(r, c)'
    <3>1. \A c \in 1 .. Candidates : RecordTrue(r, c)
      BY <1>1 DEF EvidenceInv, AskedInOrder, Past
    <3>2. \A c \in 1 .. Candidates : Answers(r, c)' = Answers(r, c)
      BY <1>7, <1>8 DEF Answers
    <3>3. reports'[r].records = reports[r].records
      BY <1>6, <1>8
    <3> QED BY <3>1, <3>2, <3>3 DEF RecordTrue, CandidateState
  <2>3. reports'[r].summary = m /\ reports'[r].records = reports[r].records
    BY <1>6, <1>8
  <2>4. m.state = Overall(States(reports'[r]))
    <3>1. States(reports'[r]) = States(reports[r])
      BY <2>3 DEF States
    <3> QED BY <1>4, <3>1
  <2>5. m.tokens <= MaxTokens /\ m.completed - m.started <= MaxWall
    <3>1. run[r].completed - run[r].started <= MaxWall
      BY <1>1 DEF EvidenceInv, AskedInOrder
    <3>2. run[r].tokens <= MaxTokens
      BY <1>1, <1>2, RowFacts
    <3> QED BY <1>4, <3>1, <3>2
  <2>6. ErrorFree(r)' => m.calls = Planned
    <3>1. ErrorFree(r)' <=> ErrorFree(r)
      BY <1>7, <1>8 DEF ErrorFree
    <3>2. CallsDue(r) = Planned
      BY <1>1, <1>2 DEF CallsDue
    <3> QED BY <1>1, <1>4, <3>1, <3>2 DEF EvidenceInv, AskedInOrder, Asking
  <2>7. run'[r].pc = "latest" /\ m.binding = run'[r].binding /\ m.started = run'[r].started
    BY <1>4, <1>7, <1>8
  <2> QED BY <1>4, <1>5, <2>1, <2>2, <2>3, <2>4, <2>5, <2>6, <2>7 DEF SummaryTrue, Complete, States
<1>11. run[r].pc \in Busy /\ run'[r].pc \in Busy \ {"status"}
  BY <1>1, <1>7, <1>8 DEF Busy, Asking
<1> QED BY <1>1, <1>6, <1>7, <1>9, <1>10, <1>11, Inside

-----------------------------------------------------------------------------
(* The steps around the asking: a run begins, announces itself and ends       *)

(* A process that ends leaves the evidence of a complete run as it was.       *)
LEMMA OverFacts ==
  ASSUME QualificationConstants, RunTypeOK, EvidenceInv, NEW r \in Runs,
         NEW pc \in {"done", "dead"}, Over(r, pc)
  PROVE  \E x \in RunRow, y \in Report :
           /\ run' = [run EXCEPT ![r] = x] /\ reports' = [reports EXCEPT ![r] = y]
           /\ run'[r] = x /\ reports'[r] = y /\ x.pc = pc
           /\ Complete(r) => y = reports[r]
           /\ AskedInOrder(r)' /\ SummaryTrue(r)'
<1>1. run[r] \in RunRow /\ reports[r] \in Report
  BY DEF RunTypeOK
<1>2. PICK a \in [Matrix -> Kinds] : /\ a = (IF Complete(r) THEN run[r].answers ELSE NoRun.answers)
  <2>1. NoRun.answers \in [Matrix -> Kinds]
    BY StartFacts, RowFacts
  <2>2. run[r].answers \in [Matrix -> Kinds]
    BY <1>1, RowFacts
  <2> QED BY <2>1, <2>2
<1>3. PICK x \in RunRow :
        run' = [run EXCEPT ![r] = x] /\ x.pc = pc /\ x.answers = a
  <2> DEFINE x == [NoRun EXCEPT !.pc = pc, !.answers = a]
  <2>1. run' = [run EXCEPT ![r] = x]
    BY <1>2, Zenon DEF Over
  <2>2. x \in RunRow /\ x.pc = pc /\ x.answers = a
    BY StartFacts DEF RunRow
  <2> HIDE DEF x
  <2> QED BY <2>1, <2>2
<1>4. PICK y \in Report : /\ y = (IF Complete(r) THEN reports[r] ELSE NoReport)
                          /\ reports' = [reports EXCEPT ![r] = y]
  <2> DEFINE y == IF Complete(r) THEN reports[r] ELSE NoReport
  <2>1. reports' = [reports EXCEPT ![r] = y]
    BY Zenon DEF Over
  <2>2. y \in Report
    BY <1>1, StartFacts
  <2> QED BY <2>1, <2>2
<1>5. run'[r] = x /\ reports'[r] = y
  BY <1>3, <1>4 DEF RunTypeOK
<1>6. AskedInOrder(r)'
  <2>1. run'[r].pc \in {"done", "dead"}
    BY <1>3, <1>5
  <2>2. \A c : ~ Past(r, c)'
    BY <2>1 DEF Past
  <2> QED BY <2>1, <2>2 DEF AskedInOrder, Asking
<1>7. SummaryTrue(r)'
  <2>1. run'[r].pc \in {"done", "dead"}
    BY <1>3, <1>5
  <2>2. CASE Complete(r)
    <3>1. reports'[r] = reports[r] /\ run'[r].answers = run[r].answers
      BY <1>2, <1>3, <1>4, <1>5, <2>2
    <3>2. \A c : RecordTrue(r, c)' <=> RecordTrue(r, c)
      BY <3>1 DEF RecordTrue, Answers, CandidateState
    <3>3. ErrorFree(r)' <=> ErrorFree(r)
      BY <3>1 DEF ErrorFree
    <3>4. SummaryTrue(r)
      BY DEF EvidenceInv
    <3> QED BY <2>1, <2>2, <3>1, <3>2, <3>3, <3>4 DEF SummaryTrue, Complete, States
  <2>3. CASE ~ Complete(r)
    <3>1. reports'[r].summary = NoDoc
      BY <1>4, <1>5, <2>3, StartFacts
    <3> QED BY <2>1, <3>1 DEF SummaryTrue, Complete
  <2> QED BY <2>2, <2>3
<1> QED BY <1>3, <1>4, <1>5, <1>6, <1>7

(* The lock is the row's: who has it works, and who works has it.             *)
LEMMA LockFacts ==
  ASSUME RunTypeOK, EvidenceInv
  PROVE  /\ 0 \notin Runs
         /\ \A q \in Runs : run[q].pc \in Busy \cup {"open"} <=> held = q
         /\ "open" \notin Busy /\ "off" \notin Busy /\ "prepared" \notin Busy
         /\ "done" \notin Busy /\ "dead" \notin Busy /\ "status" \in Busy
BY DEF EvidenceInv, OneRunAtWork, Runs, Busy, Asking

LEMMA PrepareKeeps ==
  ASSUME QualificationConstants, RunTypeOK, EvidenceInv, reader.pc # "answered",
         NEW r \in Runs, Prepare(r)
  PROVE  RunTypeOK' /\ EvidenceInv' /\ QuietReadable' /\ AnswersTrue'
<1>1. /\ run[r].pc = "off" /\ run[r] \in RunRow /\ deployed \in Nat
      /\ UNCHANGED <<time, deployed, held, status, latest, reports, reader>>
  BY DEF Prepare, RunTypeOK
<1>2. PICK x \in RunRow :
        /\ run' = [run EXCEPT ![r] = x] /\ x.pc = "prepared"
        /\ x = [NoRun EXCEPT !.pc = x.pc, !.binding = x.binding]
  <2> DEFINE x == [NoRun EXCEPT !.pc = "prepared", !.binding = deployed]
  <2>1. run' = [run EXCEPT ![r] = x]
    BY Zenon DEF Prepare, CurrentBinding
  <2>2. x \in RunRow /\ x.pc = "prepared" /\ x.binding = deployed
    BY <1>1, StartFacts DEF RunRow
  <2>3. x = [NoRun EXCEPT !.pc = x.pc, !.binding = x.binding]
    <3>1. x = [NoRun EXCEPT !.pc = "prepared", !.binding = deployed]
      OBVIOUS
    <3> HIDE DEF x
    <3> QED BY <2>2, <3>1, Zenon
  <2> HIDE DEF x
  <2> QED BY <2>1, <2>2, <2>3
<1>3. PICK y \in Report : reports' = [reports EXCEPT ![r] = y]
  <2>1. reports[r] \in Report /\ reports' = [reports EXCEPT ![r] = reports[r]]
    BY <1>1 DEF RunTypeOK
  <2> QED BY <2>1
<1>4. run'[r] = x /\ (\A q \in Runs \ {r} : run'[q] = run[q])
  BY <1>2 DEF RunTypeOK
<1>5. reports'[r] = NoReport
  BY <1>1 DEF EvidenceInv, AskedInOrder
<1>6. AskedInOrder(r)'
  <2>1. \A c : ~ Past(r, c)'
    BY <1>2, <1>4 DEF Past
  <2>2. run'[r] = [NoRun EXCEPT !.pc = run'[r].pc, !.binding = run'[r].binding]
        /\ run'[r].pc = "prepared"
    BY <1>2, <1>4
  <2>3. "prepared" \notin Asking
    BY DEF Asking
  <2> QED BY <1>5, <2>1, <2>2, <2>3 DEF AskedInOrder
<1>7. SummaryTrue(r)'
  BY <1>2, <1>4, <1>5, StartFacts DEF SummaryTrue, Complete
<1>8. OneRunAtWork'
  <2>1. \A q \in Runs : /\ run'[q].pc \in Busy \cup {"open"} <=> run[q].pc \in Busy \cup {"open"}
                        /\ run'[q].pc \in Busy => run[q].pc \in Busy
                        /\ run'[q].pc = "status" => run[q].pc = "status"
    BY <1>1, <1>2, <1>4, LockFacts
  <2> QED BY <1>1, <2>1 DEF EvidenceInv, OneRunAtWork, Announced, LatestMatches
<1>9. /\ run[r].pc \notin Busy /\ held' \in Runs \cup {0} /\ status' \in {NoDoc} \cup StatusDoc
      /\ latest' \in {NoDoc} \cup LatestDoc
  BY <1>1, LockFacts DEF RunTypeOK
<1> QED BY <1>1, <1>2, <1>3, <1>6, <1>7, <1>8, <1>9, Step

(* The process ends before it took the lock.                                  *)
LEMMA PreparedEnds ==
  ASSUME QualificationConstants, RunTypeOK, EvidenceInv, reader.pc # "answered",
         NEW r \in Runs, run[r].pc = "prepared", Over(r, "dead"),
         UNCHANGED <<time, deployed, held, status, latest>>,
         reader' = reader \/ reader' = [reader EXCEPT !.quiet = FALSE]
  PROVE  RunTypeOK' /\ EvidenceInv' /\ QuietReadable' /\ AnswersTrue'
<1>1. PICK x \in RunRow, y \in Report :
           /\ run' = [run EXCEPT ![r] = x] /\ reports' = [reports EXCEPT ![r] = y]
           /\ run'[r] = x /\ reports'[r] = y /\ x.pc = "dead"
           /\ AskedInOrder(r)' /\ SummaryTrue(r)'
  BY OverFacts
<1>2. \A q \in Runs \ {r} : run'[q] = run[q] /\ reports'[q] = reports[q]
  BY <1>1 DEF RunTypeOK
<1>3. OneRunAtWork'
  <2>1. \A q \in Runs : /\ run'[q].pc \in Busy \cup {"open"} <=> run[q].pc \in Busy \cup {"open"}
                        /\ run'[q].pc \in Busy => run[q].pc \in Busy
                        /\ run'[q].pc = "status" => run[q].pc = "status" /\ reports'[q] = reports[q]
    BY <1>1, <1>2, LockFacts
  <2> QED BY <2>1 DEF EvidenceInv, OneRunAtWork, Announced, LatestMatches
<1>4. /\ run[r].pc \notin Busy /\ held' \in Runs \cup {0} /\ status' \in {NoDoc} \cup StatusDoc
      /\ latest' \in {NoDoc} \cup LatestDoc
  BY LockFacts DEF RunTypeOK
<1> QED BY <1>1, <1>3, <1>4, Step

LEMMA OpenKeeps ==
  ASSUME QualificationConstants, RunTypeOK, EvidenceInv, reader.pc # "answered",
         NEW r \in Runs, Open(r)
  PROVE  RunTypeOK' /\ EvidenceInv' /\ QuietReadable' /\ AnswersTrue'
<1>1. /\ run[r].pc = "prepared" /\ run[r] \in RunRow
      /\ reader' = [reader EXCEPT !.quiet = FALSE]
      /\ UNCHANGED <<time, deployed, status, latest>>
  BY DEF Open, RunTypeOK
<1>2. CASE Over(r, "dead") /\ UNCHANGED held
  BY <1>1, <1>2, PreparedEnds
<1>3. CASE LockFree /\ held' = r /\ ToPc(r, "open") /\ UNCHANGED reports
  <2>1. run[r] = [NoRun EXCEPT !.pc = run[r].pc, !.binding = run[r].binding]
        /\ reports[r] = NoReport
    BY <1>1 DEF EvidenceInv, AskedInOrder
  <2>2. PICK x \in RunRow :
          /\ run' = [run EXCEPT ![r] = x] /\ x.pc = "open"
          /\ x = [NoRun EXCEPT !.pc = x.pc, !.binding = x.binding]
    <3> DEFINE x == [run[r] EXCEPT !.pc = "open"]
    <3>1. run' = [run EXCEPT ![r] = x]
      BY <1>3, Zenon DEF ToPc, RunTypeOK
    <3>2. x \in RunRow /\ x.pc = "open" /\ x.binding = run[r].binding
      BY <1>1 DEF RunRow
    <3>3. x = [NoRun EXCEPT !.pc = x.pc, !.binding = x.binding]
      BY <2>1, <3>2 DEF NoRun
    <3> HIDE DEF x
    <3> QED BY <3>1, <3>2, <3>3
  <2>3. run'[r] = x /\ (\A q \in Runs \ {r} : run'[q] = run[q])
    BY <2>2 DEF RunTypeOK
  <2>4. PICK y \in Report : reports' = [reports EXCEPT ![r] = y]
    <3>1. reports[r] \in Report /\ reports' = [reports EXCEPT ![r] = reports[r]]
      BY <1>3 DEF RunTypeOK
    <3> QED BY <3>1
  <2>5. AskedInOrder(r)'
    <3>1. \A c : ~ Past(r, c)'
      BY <2>2, <2>3 DEF Past
    <3>2. run'[r] = [NoRun EXCEPT !.pc = run'[r].pc, !.binding = run'[r].binding]
          /\ run'[r].pc = "open" /\ reports'[r] = NoReport
      BY <1>3, <2>1, <2>2, <2>3
    <3>3. "open" \notin Asking
      BY DEF Asking
    <3> QED BY <3>1, <3>2, <3>3 DEF AskedInOrder
  <2>6. SummaryTrue(r)'
    BY <1>3, <2>1, <2>2, <2>3, StartFacts DEF SummaryTrue, Complete
  <2>7. OneRunAtWork'
    <3>1. \A q \in Runs : run[q].pc \notin Busy \cup {"open"}
      BY <1>3, LockFacts DEF LockFree
    <3>2. \A q \in Runs : /\ run'[q].pc \in Busy \cup {"open"} <=> held' = q
                          /\ run'[q].pc \notin Busy /\ run'[q].pc # "status"
      BY <1>3, <2>2, <2>3, <3>1, LockFacts
    <3> QED BY <1>1, <3>2 DEF EvidenceInv, OneRunAtWork, Announced, LatestMatches
  <2>8. /\ run[r].pc \notin Busy /\ held' \in Runs \cup {0} /\ status' \in {NoDoc} \cup StatusDoc
        /\ latest' \in {NoDoc} \cup LatestDoc /\ ~ reader'.quiet
    BY <1>1, <1>3, LockFacts DEF RunTypeOK, ReaderRow
  <2> QED BY <1>1, <2>2, <2>4, <2>5, <2>6, <2>7, <2>8, Step
<1> QED BY <1>2, <1>3 DEF Open

LEMMA AnnounceKeeps ==
  ASSUME QualificationConstants, RunTypeOK, EvidenceInv, reader.pc # "answered",
         NEW r \in Runs, Announce(r)
  PROVE  RunTypeOK' /\ EvidenceInv' /\ QuietReadable' /\ AnswersTrue'
<1>1. /\ run[r].pc = "open" /\ run[r] \in RunRow /\ time \in Nat /\ time + MaxWall \in Nat
      /\ UNCHANGED <<time, deployed, held, latest, reports, reader>>
  BY ConstantFacts DEF Announce, RunTypeOK
<1>2. /\ run[r].at = <<1, 1>> /\ run[r].calls = 0 /\ run[r].answers = [p \in Matrix |-> "none"]
      /\ reports[r] = NoReport
  <2>1. run[r] = [NoRun EXCEPT !.pc = run[r].pc, !.binding = run[r].binding]
        /\ reports[r] = NoReport
    BY <1>1 DEF EvidenceInv, AskedInOrder
  <2>2. run[r].at = NoRun.at /\ run[r].calls = NoRun.calls /\ run[r].answers = NoRun.answers
    BY <2>1 DEF NoRun
  <2> QED BY <2>1, <2>2 DEF NoRun
<1>3. PICK x \in RunRow :
        /\ run' = [run EXCEPT ![r] = x] /\ x.pc = "candidate" /\ x.at = <<1, 1>>
        /\ x.calls = 0 /\ x.answers = [p \in Matrix |-> "none"]
  <2> DEFINE x == [run[r] EXCEPT !.pc = "candidate", !.started = time]
  <2>1. run' = [run EXCEPT ![r] = x]
    BY Zenon DEF Announce, RunTypeOK
  <2>2. x \in RunRow /\ x.pc = "candidate" /\ x.at = run[r].at /\ x.calls = run[r].calls
        /\ x.answers = run[r].answers
    BY <1>1 DEF RunRow
  <2> HIDE DEF x
  <2> QED BY <1>2, <2>1, <2>2
<1>4. run'[r] = x /\ (\A q \in Runs \ {r} : run'[q] = run[q])
  BY <1>3 DEF RunTypeOK
<1>5. PICK y \in Report : reports' = [reports EXCEPT ![r] = y]
  <2>1. reports[r] \in Report /\ reports' = [reports EXCEPT ![r] = reports[r]]
    BY <1>1 DEF RunTypeOK
  <2> QED BY <2>1
<1>6. /\ status' \in StatusDoc /\ status'.state = "incomplete" /\ status'.summary = NoDoc
      /\ status'.reason = "qualification-running" /\ status'.run = r
  <2>1. run[r].binding \in Nat /\ run[r].started \in Nat /\ run[r].started + MaxWall \in Nat
    BY <1>1, RowFacts, ConstantFacts
  <2> QED BY <1>1, <2>1 DEF Announce, Status, StatusDoc, Verdicts
<1>7. status' # NoDoc /\ Announced(status')
  BY <1>6 DEF NoDoc, Announced
<1>8. AskedInOrder(r)'
  <2>1. \A c \in 1 .. Candidates : ~ Past(r, c)'
    <3>1. run'[r].pc = "candidate" /\ run'[r].at[1] = 1
      BY <1>3, <1>4
    <3> QED BY <3>1 DEF Past
  <2>2. \A c \in 1 .. Candidates, s \in 1 .. Scenarios : ~ Asked(r, c, s)'
    <3>1. run'[r].pc = "candidate" /\ run'[r].at[2] = 1
      BY <1>3, <1>4
    <3> QED BY <2>1, <3>1 DEF Asked
  <2>3. \A c \in 1 .. Candidates, s \in 1 .. Scenarios : run'[r].answers[<<c, s>>] = "none"
    BY <1>3, <1>4 DEF Matrix
  <2>4. CallsDue(r)' = 0
    <3>1. run'[r].pc = "candidate" /\ run'[r].at[1] = 1 /\ run'[r].at[2] = 1
      BY <1>3, <1>4
    <3>2. CallsDue(r)' = 2 * ((1 - 1) * Scenarios + (1 - 1))
      BY <3>1 DEF CallsDue
    <3> QED BY <3>2, ConstantFacts
  <2>5. run'[r].calls <= CallsDue(r)' /\ (ErrorFree(r)' => run'[r].calls = CallsDue(r)')
    BY <1>3, <1>4, <2>4
  <2> QED BY <1>3, <1>4, <2>1, <2>2, <2>3, <2>5 DEF AskedInOrder
<1>9. SummaryTrue(r)'
  BY <1>1, <1>2, <1>3, <1>4, StartFacts DEF SummaryTrue, Complete
<1>10. held = r /\ "candidate" \in Busy /\ "candidate" # "status"
  BY <1>1, LockFacts DEF Busy, Asking
<1>11. OneRunAtWork'
  <2>1. \A q \in Runs : run'[q].pc \in Busy \cup {"open"} <=> held' = q
    BY <1>1, <1>3, <1>4, <1>10, LockFacts
  <2>2. \A q \in Runs : run'[q].pc \in Busy =>
          /\ status' # NoDoc /\ Announced(status')
          /\ status'.reason = "qualification-running" /\ status'.run = q
    BY <1>1, <1>6, <1>7, <1>10, <2>1
  <2>3. \A q \in Runs : run'[q].pc # "status"
    BY <1>1, <1>3, <1>4, <1>10, LockFacts
  <2> QED BY <1>7, <2>1, <2>2, <2>3 DEF OneRunAtWork, Announced
<1>12. StatusSound(status)'
  BY <1>3, <1>4, <1>6, <1>7, <1>10 DEF StatusSound, Announced
<1>13. /\ run[r].pc \notin Busy /\ held' \in Runs \cup {0} /\ status' \in {NoDoc} \cup StatusDoc
       /\ latest' \in {NoDoc} \cup LatestDoc /\ held # 0
  BY <1>1, <1>6, <1>10, LockFacts DEF RunTypeOK
<1> QED BY <1>1, <1>3, <1>5, <1>8, <1>9, <1>11, <1>12, <1>13, Step

LEMMA WriteLatestKeeps ==
  ASSUME QualificationConstants, RunTypeOK, EvidenceInv, reader.pc # "answered",
         NEW r \in Runs, WriteLatest(r)
  PROVE  RunTypeOK' /\ EvidenceInv' /\ QuietReadable' /\ AnswersTrue'
<1>1. /\ run[r].pc = "latest" /\ run[r] \in RunRow /\ reports[r] \in Report
      /\ latest' = [state |-> "latest", run |-> r, summary |-> reports[r].summary]
      /\ UNCHANGED <<time, deployed, held, status, reports, reader>>
  BY DEF WriteLatest, RunTypeOK
<1>2. PICK x \in RunRow :
        /\ run' = [run EXCEPT ![r] = x] /\ x.pc = "status" /\ x.answers = run[r].answers
        /\ x.binding = run[r].binding /\ x.started = run[r].started
  <2> DEFINE x == [run[r] EXCEPT !.pc = "status"]
  <2>1. run' = [run EXCEPT ![r] = x]
    BY Zenon DEF WriteLatest, ToPc, RunTypeOK
  <2>2. x \in RunRow /\ x.pc = "status" /\ x.answers = run[r].answers
        /\ x.binding = run[r].binding /\ x.started = run[r].started
    BY <1>1 DEF RunRow
  <2> HIDE DEF x
  <2> QED BY <2>1, <2>2
<1>3. run'[r] = x /\ (\A q \in Runs \ {r} : run'[q] = run[q])
  BY <1>2 DEF RunTypeOK
<1>4. PICK y \in Report : reports' = [reports EXCEPT ![r] = y]
  <2>1. reports[r] \in Report /\ reports' = [reports EXCEPT ![r] = reports[r]]
    BY <1>1 DEF RunTypeOK
  <2> QED BY <2>1
<1>5. AskedInOrder(r)'
  <2>1. run'[r].pc = "status" /\ "status" \notin Asking
    BY <1>2, <1>3 DEF Asking
  <2>2. \A c : ~ Past(r, c)'
    BY <2>1 DEF Past
  <2> QED BY <2>1, <2>2 DEF AskedInOrder
<1>6. SummaryTrue(r)'
  <2>1. SummaryTrue(r)
    BY DEF EvidenceInv
  <2>2. /\ \A c : RecordTrue(r, c)' <=> RecordTrue(r, c)
        /\ ErrorFree(r)' <=> ErrorFree(r)
        /\ reports'[r] = reports[r] /\ run'[r].pc = "status" /\ run'[r].binding = run[r].binding
        /\ run'[r].started = run[r].started /\ run'[r].answers = run[r].answers
    <3>1. reports'[r] = reports[r] /\ run'[r].pc = "status" /\ run'[r].binding = run[r].binding
          /\ run'[r].started = run[r].started /\ run'[r].answers = run[r].answers
      BY <1>1, <1>2, <1>3
    <3>2. \A c : RecordTrue(r, c)' <=> RecordTrue(r, c)
      BY <3>1 DEF RecordTrue, Answers, CandidateState
    <3>3. ErrorFree(r)' <=> ErrorFree(r)
      BY <3>1 DEF ErrorFree
    <3> QED BY <3>1, <3>2, <3>3
  <2> QED BY <1>1, <2>1, <2>2 DEF SummaryTrue, Complete, States
<1>7. latest' \in LatestDoc /\ latest' # NoDoc /\ latest'.run = r
      /\ latest'.summary = reports[r].summary
  <2>1. latest' \in LatestDoc
    BY <1>1, ReportFacts DEF LatestDoc
  <2> QED BY <1>1, <2>1 DEF NoDoc
<1>8. held = r /\ run[r].pc \in Busy /\ run'[r].pc \in Busy
  BY <1>1, <1>2, <1>3, LockFacts DEF Busy, Asking
<1>9. OneRunAtWork'
  <2>1. \A q \in Runs : run'[q].pc \in Busy \cup {"open"} <=> held' = q
    BY <1>1, <1>3, <1>8, LockFacts
  <2>2. /\ status # NoDoc /\ Announced(status)
        /\ status.reason = "qualification-running" /\ status.run = r
    BY <1>8 DEF EvidenceInv, OneRunAtWork
  <2>3. \A q \in Runs : run'[q].pc \in Busy => q = r
    BY <1>1, <1>8, <2>1
  <2>4. \A q \in Runs : run'[q].pc = "status" => q = r
    BY <2>3, LockFacts
  <2> QED BY <1>1, <1>7, <2>1, <2>2, <2>3, <2>4 DEF OneRunAtWork, Announced
<1>10. /\ held' \in Runs \cup {0} /\ status' \in {NoDoc} \cup StatusDoc
       /\ latest' \in {NoDoc} \cup LatestDoc /\ held # 0 /\ run[r].pc \notin {"done", "dead"}
  BY <1>1, <1>7, <1>8, LockFacts DEF RunTypeOK
<1> QED BY <1>1, <1>2, <1>4, <1>5, <1>6, <1>8, <1>9, <1>10, Step

(* A process that has the lock ends, after the status it left.                *)
LEMMA HolderEnds ==
  ASSUME QualificationConstants, RunTypeOK, EvidenceInv, reader.pc # "answered",
         NEW r \in Runs, run[r].pc \in Busy \cup {"open"},
         NEW pc \in {"done", "dead"}, Over(r, pc), held' = 0,
         status' \in {NoDoc} \cup StatusDoc, status' = status \/ StatusSound(status)',
         status' # NoDoc /\ ~ Announced(status') => LatestMatches(status', latest),
         UNCHANGED <<time, deployed, latest, reader>>
  PROVE  RunTypeOK' /\ EvidenceInv' /\ QuietReadable' /\ AnswersTrue'
<1>1. PICK x \in RunRow, y \in Report :
           /\ run' = [run EXCEPT ![r] = x] /\ reports' = [reports EXCEPT ![r] = y]
           /\ run'[r] = x /\ reports'[r] = y /\ x.pc = pc
           /\ AskedInOrder(r)' /\ SummaryTrue(r)'
  BY OverFacts
<1>2. \A q \in Runs \ {r} : run'[q] = run[q]
  BY <1>1 DEF RunTypeOK
<1>3. held = r /\ held # 0 /\ run[r].pc \notin {"done", "dead"}
  BY LockFacts
<1>4. OneRunAtWork'
  <2>1. \A q \in Runs : run'[q].pc \notin Busy \cup {"open"} /\ run'[q].pc # "status" /\ q # 0
    BY <1>1, <1>2, <1>3, LockFacts
  <2> QED BY <2>1 DEF OneRunAtWork, Announced, LatestMatches
<1>5. held' \in Runs \cup {0} /\ latest' \in {NoDoc} \cup LatestDoc
      /\ (run[r].pc \in Busy => run'[r].pc \in Busy \cup {"done", "dead"})
  BY <1>1 DEF RunTypeOK
<1> QED BY <1>1, <1>3, <1>4, <1>5, Step

(* The final status, whether the process learns that it was written or not.   *)
LEMMA FinalStatus ==
  ASSUME QualificationConstants, RunTypeOK, EvidenceInv, reader.pc # "answered",
         NEW r \in Runs, run[r].pc = "status",
         NEW pc \in {"done", "dead"}, Over(r, pc), held' = 0,
         status' = Status(r, reports[r].summary.state, "complete", reports[r].summary),
         UNCHANGED <<time, deployed, latest, reader>>
  PROVE  RunTypeOK' /\ EvidenceInv' /\ QuietReadable' /\ AnswersTrue'
<1>1. PICK m \in {NoDoc} \cup Summary : m = reports[r].summary
  BY ReportFacts DEF RunTypeOK
<1>2. /\ Complete(r) /\ m # NoDoc /\ m.run = r
      /\ m.binding = run[r].binding /\ m.started = run[r].started
  BY <1>1 DEF EvidenceInv, SummaryTrue, Complete
<1>3. /\ m \in Summary /\ m.state \in Verdicts /\ m.completed \in Nat /\ m.completed + MaxAge \in Nat
      /\ run[r].binding \in Nat /\ run[r].started \in Nat /\ run[r].started + MaxWall \in Nat
  <2>1. m \in Summary /\ m.state \in Verdicts /\ m.completed \in Nat
    BY <1>2, SummaryFacts
  <2>2. run[r].binding \in Nat /\ run[r].started \in Nat
    BY RowFacts DEF RunTypeOK
  <2> QED BY <2>1, <2>2, ConstantFacts
<1>4. status' = [state |-> m.state, reason |-> "complete", run |-> r, binding |-> run[r].binding,
                 summary |-> m, started |-> run[r].started, deadline |-> run[r].started + MaxWall,
                 expires |-> m.completed + MaxAge]
  BY <1>1, <1>2 DEF Status
<1>5. /\ status' \in StatusDoc /\ status'.state = m.state /\ status'.run = r
      /\ status'.binding = m.binding /\ status'.summary = m /\ status'.started = m.started
      /\ status'.expires = m.completed + MaxAge
  <2>1. status' \in StatusDoc
    BY <1>3, <1>4 DEF StatusDoc
  <2> QED BY <1>2, <1>4, <2>1
<1>6. ~ Announced(status')
  BY <1>2, <1>5 DEF Announced
<1>7. PICK x \in RunRow, y \in Report :
           /\ run'[r] = x /\ reports'[r] = y /\ x.pc = pc
           /\ Complete(r) => y = reports[r]
  BY OverFacts
<1>8. StatusSound(status)'
  <2>1. reports'[r].summary = m /\ run'[r].pc \in {"done", "dead"}
    BY <1>1, <1>2, <1>7
  <2> QED BY <1>5, <1>6, <2>1 DEF StatusSound, Announced
<1>9. LatestMatches(status', latest)
  <2>1. latest # NoDoc /\ latest.run = r /\ latest.summary = m
    BY <1>1 DEF EvidenceInv, OneRunAtWork
  <2>2. latest.state # "missing"
    BY <2>1, LatestFacts DEF RunTypeOK
  <2> QED BY <1>5, <2>1, <2>2 DEF LatestMatches
<1>10. run[r].pc \in Busy \cup {"open"} /\ status' \in {NoDoc} \cup StatusDoc
  BY <1>5, LockFacts
<1> QED BY <1>8, <1>9, <1>10, HolderEnds

LEMMA WriteStatusKeeps ==
  ASSUME QualificationConstants, RunTypeOK, EvidenceInv, reader.pc # "answered",
         NEW r \in Runs, WriteStatus(r)
  PROVE  RunTypeOK' /\ EvidenceInv' /\ QuietReadable' /\ AnswersTrue'
<1>1. PICK pc \in {"done", "dead"} : pc = "done"
  OBVIOUS
<1> QED BY <1>1, FinalStatus DEF WriteStatus

LEMMA AbortKeeps ==
  ASSUME QualificationConstants, RunTypeOK, EvidenceInv, reader.pc # "answered",
         NEW r \in Runs, Abort(r)
  PROVE  RunTypeOK' /\ EvidenceInv' /\ QuietReadable' /\ AnswersTrue'
<1>1. /\ held' = 0 /\ Over(r, "dead") /\ "dead" \in {"done", "dead"}
      /\ UNCHANGED <<time, deployed, latest, reader>>
  BY DEF Abort
<1>2. run[r].pc \in Busy \cup {"open"} /\ run[r] \in RunRow
  <2>1. run[r] \in RunRow
    BY DEF RunTypeOK
  <2>2. run[r].pc \notin {"off", "dead", "done", "prepared"}
    BY DEF Abort, Working
  <2> QED BY <2>1, <2>2, RowFacts DEF Busy, Asking
<1>3. CASE /\ status.state = "incomplete" /\ status.run = r
           /\ status' = Status(r, "incomplete", "qualification-aborted", NoDoc)
  <2>1. /\ status' \in StatusDoc /\ status'.state = "incomplete" /\ status'.run = r
        /\ status'.summary = NoDoc
    <3>1. run[r].binding \in Nat /\ run[r].started \in Nat /\ run[r].started + MaxWall \in Nat
      BY <1>2, RowFacts, ConstantFacts
    <3> QED BY <1>3, <3>1 DEF Status, StatusDoc, Verdicts
  <2>2. Announced(status')
    BY <2>1 DEF Announced
  <2>3. PICK x \in RunRow : run'[r] = x /\ x.pc = "dead"
    BY <1>1, OverFacts
  <2>4. StatusSound(status)'
    BY <2>1, <2>2, <2>3 DEF StatusSound, Announced
  <2> QED BY <1>1, <1>2, <2>1, <2>2, <2>4, HolderEnds
<1>4. CASE UNCHANGED status
  <2>1. status' # NoDoc /\ ~ Announced(status') => LatestMatches(status', latest)
    BY <1>4 DEF EvidenceInv, OneRunAtWork
  <2>2. status' \in {NoDoc} \cup StatusDoc
    BY <1>4 DEF RunTypeOK
  <2> QED BY <1>1, <1>2, <1>4, <2>1, <2>2, HolderEnds
<1>5. CASE /\ run[r].pc = "status"
           /\ status' = Status(r, reports[r].summary.state, "complete", reports[r].summary)
  BY <1>1, <1>5, FinalStatus
<1> QED BY <1>3, <1>4, <1>5 DEF Abort

LEMMA KillKeeps ==
  ASSUME QualificationConstants, RunTypeOK, EvidenceInv, reader.pc # "answered",
         NEW r \in Runs, Kill(r)
  PROVE  RunTypeOK' /\ EvidenceInv' /\ QuietReadable' /\ AnswersTrue'
<1>1. /\ held' = (IF held = r THEN 0 ELSE held) /\ Over(r, "dead") /\ "dead" \in {"done", "dead"}
      /\ run[r] \in RunRow /\ run[r].pc \notin {"off", "dead", "done"}
      /\ UNCHANGED <<time, deployed, status, latest, reader>>
  BY DEF Kill, Working, RunTypeOK
<1>2. CASE run[r].pc = "prepared"
  <2>1. held' = held
    BY <1>1, <1>2, LockFacts
  <2> QED BY <1>1, <1>2, <2>1, PreparedEnds
<1>3. CASE run[r].pc # "prepared"
  <2>1. run[r].pc \in Busy \cup {"open"}
    BY <1>1, <1>3, RowFacts DEF Busy, Asking
  <2>2. held' = 0
    BY <1>1, <2>1, LockFacts
  <2>3. status' # NoDoc /\ ~ Announced(status') => LatestMatches(status', latest)
    BY <1>1 DEF EvidenceInv, OneRunAtWork
  <2>4. status' \in {NoDoc} \cup StatusDoc
    BY <1>1 DEF RunTypeOK
  <2> QED BY <1>1, <2>1, <2>2, <2>3, <2>4, HolderEnds
<1> QED BY <1>2, <1>3

-----------------------------------------------------------------------------
(* The readers                                                                *)

LEMMA RecordState ==
  ASSUME RunTypeOK, EvidenceInv, NEW r \in Runs, Complete(r)
  PROVE  /\ SummaryTrue(r) /\ reports[r].summary \in Summary
         /\ \A c \in 1 .. Candidates : reports[r].records[c].state = CandidateState(Answers(r, c))
         /\ \A p \in Matrix : run[r].answers[p] \in Kinds \ {"none"}
         /\ \A c \in 1 .. Candidates, s \in 1 .. Scenarios :
              <<c, s>> \in Matrix /\ run[r].answers[<<c, s>>] \in Answers(r, c)
<1>1. SummaryTrue(r)
  BY DEF EvidenceInv
<1>2. reports[r].summary \in Summary
  BY ReportFacts DEF RunTypeOK, Complete
<1>3. run[r].answers \in [Matrix -> Kinds]
  BY RowFacts DEF RunTypeOK
<1>4. \A c \in 1 .. Candidates : reports[r].records[c].state = CandidateState(Answers(r, c))
  BY <1>1 DEF SummaryTrue, RecordTrue
<1>5. \A p \in Matrix : run[r].answers[p] \in Kinds \ {"none"}
  BY <1>1, <1>3 DEF SummaryTrue
<1>6. \A c \in 1 .. Candidates, s \in 1 .. Scenarios :
        <<c, s>> \in Matrix /\ run[r].answers[<<c, s>>] \in Answers(r, c)
  BY DEF Matrix, Answers
<1> QED BY <1>1, <1>2, <1>4, <1>5, <1>6

(* A summary without an incomplete candidate is one of a run without errors.  *)
LEMMA CompleteVerdicts ==
  ASSUME RunTypeOK, EvidenceInv, NEW r \in Runs, Complete(r)
  PROVE  /\ reports[r].summary.state # "incomplete" =>
              ErrorFree(r) /\ reports[r].summary.calls = Planned
         /\ reports[r].summary.state = "qualified" =>
              \A p \in Matrix : run[r].answers[p] = "pass"
<1>1. PICK m \in Summary : m = reports[r].summary
  BY RecordState
<1>2. m.state = Overall(States(reports[r])) /\ (ErrorFree(r) => m.calls = Planned)
  BY <1>1, RecordState DEF SummaryTrue
<1>3. \A c \in 1 .. Candidates : CandidateState(Answers(r, c)) \in States(reports[r])
  BY RecordState DEF States
<1>4. \A p \in Matrix : \E c \in 1 .. Candidates, s \in 1 .. Scenarios : p = <<c, s>>
  BY DEF Matrix
<1>5. ASSUME m.state # "incomplete"
      PROVE  ErrorFree(r)
  <2>1. \A c \in 1 .. Candidates : CandidateState(Answers(r, c)) # "incomplete"
    BY <1>2, <1>3, <1>5 DEF Overall
  <2>2. \A c \in 1 .. Candidates : "error" \notin Answers(r, c)
    BY <2>1 DEF CandidateState
  <2>3. \A c \in 1 .. Candidates, s \in 1 .. Scenarios : run[r].answers[<<c, s>>] # "error"
    BY <2>2, RecordState
  <2> QED BY <1>4, <2>3 DEF ErrorFree
<1>6. ASSUME m.state = "qualified"
      PROVE  \A p \in Matrix : run[r].answers[p] = "pass"
  <2>1. \A c \in 1 .. Candidates : CandidateState(Answers(r, c)) # "failed"
                                   /\ CandidateState(Answers(r, c)) # "incomplete"
    BY <1>2, <1>3, <1>6 DEF Overall
  <2>2. \A c \in 1 .. Candidates : "error" \notin Answers(r, c) /\ "fail" \notin Answers(r, c)
    BY <2>1 DEF CandidateState
  <2>3. \A c \in 1 .. Candidates, s \in 1 .. Scenarios :
          run[r].answers[<<c, s>>] # "error" /\ run[r].answers[<<c, s>>] # "fail"
          /\ run[r].answers[<<c, s>>] \in Kinds \ {"none"}
    BY <2>2, RecordState
  <2>4. \A c \in 1 .. Candidates, s \in 1 .. Scenarios : run[r].answers[<<c, s>>] = "pass"
    BY <2>3 DEF Kinds
  <2> QED BY <1>4, <2>4
<1> QED BY <1>1, <1>2, <1>5, <1>6

(* The files of a final status answer it, whatever became of the run.         *)
LEMMA FilesAnswer ==
  ASSUME QualificationConstants, RunTypeOK, EvidenceInv,
         NEW s \in {NoDoc} \cup StatusDoc, s # NoDoc, StatusSound(s), ~ Announced(s)
  PROVE  /\ s.run \in Runs /\ Complete(s.run)
         /\ SummaryMatches(s, reports[s.run].summary)
         /\ RecordsMatch(s.summary, reports[s.run].records) /\ Reproducible(s.run)
<1>1. PICK r \in Runs : r = s.run
  BY DEF StatusSound
<1>2. Complete(r)
  BY <1>1 DEF StatusSound, Announced, Complete
<1>3. PICK m \in Summary : m = reports[r].summary
  BY <1>2, RecordState
<1>4. /\ s.summary = m /\ s.state = m.state /\ s.binding = m.binding /\ s.started = m.started
      /\ s.expires = m.completed + MaxAge
  BY <1>1, <1>3 DEF StatusSound
<1>5. /\ m.run = r /\ m.records = reports[r].records /\ m.state = Overall(States(reports[r]))
      /\ m.tokens <= MaxTokens /\ m.completed - m.started <= MaxWall
  BY <1>2, <1>3, RecordState DEF SummaryTrue
<1>6. SummaryMatches(s, reports[r].summary)
  <2>1. m.completed \in Nat /\ m.started \in Nat /\ MaxWall \in Nat
    BY ConstantFacts DEF Summary
  <2>2. m.completed - m.started <= MaxWall + 1
    BY <1>5, <2>1
  <2> QED BY <1>1, <1>3, <1>4, <1>5, <2>2 DEF SummaryMatches
<1>7. RecordsMatch(s.summary, reports[r].records)
  <2>1. \A c \in 1 .. Candidates : reports[r].records[c].state # "missing"
    BY <1>2, RecordState DEF CandidateState
  <2>2. m.state # "incomplete" => m.calls = Planned
    BY <1>2, <1>3, CompleteVerdicts
  <2> QED BY <1>4, <1>5, <2>1, <2>2 DEF RecordsMatch, States
<1>8. Reproducible(r)
  BY <1>2, RecordState DEF Reproducible
<1> QED BY <1>1, <1>2, <1>6, <1>7, <1>8

(* "qualified" in a sound status was earned.                                  *)
LEMMA SoundQualified ==
  ASSUME RunTypeOK, EvidenceInv,
         NEW s \in {NoDoc} \cup StatusDoc, StatusSound(s), s.state = "qualified"
  PROVE  \A p \in Matrix : run[s.run].answers[p] = "pass" /\ s.summary.calls = Planned
<1>1. s # NoDoc /\ ~ Announced(s)
  BY DEF StatusSound, NoDoc
<1>2. PICK r \in Runs : r = s.run
  BY <1>1 DEF StatusSound
<1>3. Complete(r) /\ reports[r].summary = s.summary /\ s.summary.state = "qualified"
  BY <1>1, <1>2 DEF StatusSound, Announced, Complete
<1> QED BY <1>2, <1>3, CompleteVerdicts

LEMMA Earned ==
  ASSUME RunTypeOK, EvidenceInv
  PROVE  QualifiedEarned
<1>1. PICK s \in {NoDoc} \cup StatusDoc : s = status
  BY DEF RunTypeOK
<1>2. StatusSound(s)
  BY <1>1 DEF EvidenceInv
<1> QED BY <1>1, <1>2, SoundQualified DEF QualifiedEarned

(* What a verdict says, of a status that is sound.                            *)
LEMMA VerdictFacts ==
  ASSUME RunTypeOK, EvidenceInv,
         NEW s \in {NoDoc} \cup StatusDoc, s # NoDoc, StatusSound(s),
         NEW current \in BOOLEAN, NEW locked \in BOOLEAN
  PROVE  /\ Verdict(s, current, locked) \in Verdicts \cup {"drifted", "overdue", "abandoned", "expired"}
         /\ Verdict(s, current, locked) = "qualified" =>
              \A p \in Matrix : run[s.run].answers[p] = "pass"
         /\ Verdict(s, current, locked) = "abandoned" => Announced(s) /\ ~ locked
<1>1. s.state \in Verdicts
  BY StatusFacts
<1>2. /\ Verdict(s, current, locked) \in Verdicts \cup {"drifted", "overdue", "abandoned", "expired"}
      /\ Verdict(s, current, locked) = "abandoned" => Announced(s) /\ ~ locked
      /\ Verdict(s, current, locked) = "qualified" => s.state = "qualified"
  BY <1>1 DEF Verdict, Verdicts
<1> QED BY <1>2, SoundQualified

(* A step of a reader or of the world writes nothing of the qualification's.  *)
LEMMA WorldStep ==
  ASSUME RunTypeOK, EvidenceInv, UNCHANGED <<held, run, status, latest, reports>>,
         time' \in Nat, deployed' \in Nat, reader' \in ReaderRow,
         reader'.status = NoDoc \/ reader'.status = reader.status \/ reader'.status = status,
         reader'.pc \notin {"off", "answered"} =>
           /\ reader'.status # NoDoc
           /\ reader'.quiet => held = 0 /\ reader'.status = status,
         reader'.pc \in {"latest", "summary", "records"} => ~ Announced(reader'.status)
  PROVE  RunTypeOK' /\ EvidenceInv'
<1>1. RunTypeOK'
  BY DEF RunTypeOK
<1>2. \A q \in Runs : AskedInOrder(q)' /\ SummaryTrue(q)'
  BY RunFrame DEF EvidenceInv
<1>3. \A s : StatusSound(s)' <=> StatusSound(s)
  BY DEF StatusSound, Announced
<1>4. StatusSound(status) /\ StatusSound(reader.status) /\ StatusSound(NoDoc)
  BY DEF EvidenceInv, ReaderSound, StatusSound
<1>5. PICK s, t : s = status /\ t = reader'.status
  OBVIOUS
<1>6. StatusSound(status)' /\ StatusSound(reader.status)'
  <2>1. StatusSound(s) /\ StatusSound(t)
    BY <1>4, <1>5
  <2>2. StatusSound(s)' /\ StatusSound(t)'
    BY <1>3, <2>1
  <2>3. status' = s /\ reader'.status = t
    BY <1>5
  <2> QED BY <2>2, <2>3 DEF StatusSound, Announced
<1>7. OneRunAtWork'
  BY DEF EvidenceInv, OneRunAtWork, Announced, LatestMatches
<1>8. ReaderSound'
  BY <1>6 DEF ReaderSound, Announced
<1> QED BY <1>1, <1>2, <1>6, <1>7, <1>8 DEF EvidenceInv

(* The reader that read on, or answered, without another look at the status.  *)
LEMMA Reading ==
  ASSUME RunTypeOK, EvidenceInv, reader.pc \notin {"off", "answered"},
         UNCHANGED <<time, deployed, held, run, status, latest, reports>>,
         NEW x \in ReaderRow, reader' = x, x.status = reader.status, x.quiet = reader.quiet,
         x.pc \in {"summary", "records"} => ~ Announced(reader.status)
  PROVE  x.pc \in {"summary", "records", "binding", "decide", "answered"} =>
           RunTypeOK' /\ EvidenceInv'
<1> SUFFICES ASSUME x.pc \in {"summary", "records", "binding", "decide", "answered"}
             PROVE  RunTypeOK' /\ EvidenceInv'
  OBVIOUS
<1>1. /\ reader.status # NoDoc
      /\ reader.quiet => held = 0 /\ reader.status = status
  BY DEF EvidenceInv, ReaderSound
<1>2. time' \in Nat /\ deployed' \in Nat
  BY DEF RunTypeOK
<1> QED BY <1>1, <1>2, WorldStep

LEMMA ReadStatusKeeps ==
  ASSUME RunTypeOK, EvidenceInv, QualificationConstants, ReadStatus
  PROVE  RunTypeOK' /\ EvidenceInv' /\ QuietReadable' /\ AnswersTrue'
<1>1. PICK s \in {NoDoc} \cup StatusDoc : s = status
  BY DEF RunTypeOK
<1>2. s = NoDoc <=> s.state = "missing"
  BY StatusFacts
<1>3. PICK x \in ReaderRow :
        /\ reader' = x /\ x.status = s /\ x.quiet = LockFree
        /\ x.pc = (IF s = NoDoc THEN "answered" ELSE IF Announced(s) THEN "binding" ELSE "latest")
        /\ x.answer = (IF s = NoDoc THEN "missing" ELSE "none")
  <2> DEFINE pc == IF s = NoDoc THEN "answered" ELSE IF Announced(s) THEN "binding" ELSE "latest"
             answer == IF s = NoDoc THEN "missing" ELSE "none"
             x == [pc |-> pc, status |-> s, current |-> FALSE, answer |-> answer, quiet |-> LockFree]
  <2>1. reader' = x
    BY <1>1, <1>2 DEF ReadStatus, NoReader
  <2>2. x \in ReaderRow
    BY DEF ReaderRow, LockFree
  <2>3. /\ x.status = s /\ x.quiet = LockFree /\ x.pc = pc /\ x.answer = answer
    OBVIOUS
  <2> HIDE DEF x
  <2> QED BY <2>1, <2>2, <2>3
<1>4. /\ UNCHANGED <<time, deployed, held, run, status, latest, reports>>
      /\ time' \in Nat /\ deployed' \in Nat
  BY DEF ReadStatus, RunTypeOK
<1>5. /\ x.pc \notin {"off", "answered"} => /\ x.status # NoDoc
                                            /\ x.quiet => held = 0 /\ x.status = status
      /\ x.pc \in {"latest", "summary", "records"} => ~ Announced(x.status)
  BY <1>1, <1>3 DEF LockFree
<1>6. RunTypeOK' /\ EvidenceInv'
  BY <1>1, <1>3, <1>4, <1>5, WorldStep
<1>7. x.answer \notin {"invalid", "qualified", "abandoned"}
  BY <1>3
<1> QED BY <1>3, <1>6, <1>7 DEF QuietReadable, AnswersTrue

(* A check of one file: what is quiet passes it, and another file is next.    *)
LEMMA FileKeeps ==
  ASSUME RunTypeOK, EvidenceInv, QualificationConstants,
         reader.pc \in {"latest", "summary", "records"},
         UNCHANGED <<time, deployed, held, run, status, latest, reports>>,
         NEW next \in {"summary", "records", "binding"},
         \/ reader' = [reader EXCEPT !.pc = next]
         \/ reader' = [reader EXCEPT !.pc = "answered", !.answer = "invalid"] /\ ~ reader.quiet
  PROVE  RunTypeOK' /\ EvidenceInv' /\ QuietReadable' /\ AnswersTrue'
<1>1. reader \in ReaderRow /\ ~ Announced(reader.status)
  BY DEF RunTypeOK, EvidenceInv, ReaderSound
<1>2. PICK x \in ReaderRow :
        /\ reader' = x /\ x.status = reader.status /\ x.quiet = reader.quiet
        /\ x.pc = next \/ (x.pc = "answered" /\ x.answer = "invalid" /\ ~ x.quiet)
  <2>1. CASE reader' = [reader EXCEPT !.pc = next]
    <3> DEFINE x == [reader EXCEPT !.pc = next]
    <3>1. x \in ReaderRow /\ x.status = reader.status /\ x.quiet = reader.quiet /\ x.pc = next
      BY <1>1 DEF ReaderRow
    <3> HIDE DEF x
    <3>2. reader' = x
      BY <2>1 DEF x
    <3> QED BY <3>1, <3>2
  <2>2. CASE reader' = [reader EXCEPT !.pc = "answered", !.answer = "invalid"] /\ ~ reader.quiet
    <3> DEFINE x == [reader EXCEPT !.pc = "answered", !.answer = "invalid"]
    <3>1. x \in ReaderRow /\ x.status = reader.status /\ x.quiet = reader.quiet
          /\ x.pc = "answered" /\ x.answer = "invalid"
      BY <1>1 DEF ReaderRow
    <3> HIDE DEF x
    <3>2. reader' = x
      BY <2>2 DEF x
    <3> QED BY <2>2, <3>1, <3>2
  <2> QED BY <2>1, <2>2
<1>3. RunTypeOK' /\ EvidenceInv'
  <2>1. reader.pc \notin {"off", "answered"}
        /\ x.pc \in {"summary", "records", "binding", "decide", "answered"}
    BY <1>2
  <2> QED BY <1>1, <1>2, <2>1, Reading
<1> QED BY <1>2, <1>3 DEF QuietReadable, AnswersTrue

LEMMA FilesKeep ==
  ASSUME RunTypeOK, EvidenceInv, QualificationConstants, ReadLatest \/ ReadSummary \/ ReadRecords
  PROVE  RunTypeOK' /\ EvidenceInv' /\ QuietReadable' /\ AnswersTrue'
<1>1. UNCHANGED <<time, deployed, held, run, status, latest, reports>>
      /\ reader.pc \in {"latest", "summary", "records"}
  BY DEF ReadLatest, ReadSummary, ReadRecords
<1>2. PICK s \in {NoDoc} \cup StatusDoc : s = reader.status
  BY ReaderFacts DEF RunTypeOK
<1>3. /\ s # NoDoc /\ StatusSound(s) /\ ~ Announced(s)
      /\ reader.quiet => held = 0 /\ s = status
  BY <1>1, <1>2 DEF EvidenceInv, ReaderSound
<1>4. /\ SummaryMatches(s, reports[s.run].summary)
      /\ RecordsMatch(s.summary, reports[s.run].records)
  BY <1>3, FilesAnswer
<1>5. reader.quiet => LatestMatches(s, latest)
  BY <1>3 DEF EvidenceInv, OneRunAtWork
<1>6. CASE ReadLatest
  BY <1>1, <1>2, <1>5, <1>6, FileKeeps DEF ReadLatest, Reads, Answer
<1>7. CASE ReadSummary
  BY <1>1, <1>2, <1>4, <1>7, FileKeeps DEF ReadSummary, Reads
<1>8. CASE ReadRecords
  BY <1>1, <1>2, <1>4, <1>8, FileKeeps DEF ReadRecords, Reads
<1> QED BY <1>6, <1>7, <1>8

LEMMA ReadBindingKeeps ==
  ASSUME RunTypeOK, EvidenceInv, QualificationConstants, ReadBinding
  PROVE  RunTypeOK' /\ EvidenceInv' /\ QuietReadable' /\ AnswersTrue'
<1>1. UNCHANGED <<time, deployed, held, run, status, latest, reports>>
      /\ reader.pc = "binding" /\ reader \in ReaderRow
  BY DEF ReadBinding, RunTypeOK
<1>2. PICK x \in ReaderRow : /\ reader' = x /\ x.status = reader.status /\ x.quiet = reader.quiet
                             /\ x.pc = "decide"
  <2> DEFINE x == [reader EXCEPT !.pc = "decide", !.current = reader.status.binding = CurrentBinding]
  <2>1. reader' = x
    BY DEF ReadBinding
  <2>2. x \in ReaderRow /\ x.status = reader.status /\ x.quiet = reader.quiet /\ x.pc = "decide"
    BY <1>1 DEF ReaderRow
  <2> HIDE DEF x
  <2> QED BY <2>1, <2>2
<1>3. RunTypeOK' /\ EvidenceInv'
  BY <1>1, <1>2, Reading
<1> QED BY <1>2, <1>3 DEF QuietReadable, AnswersTrue

LEMMA DecideKeeps ==
  ASSUME RunTypeOK, EvidenceInv, QualificationConstants, Decide
  PROVE  RunTypeOK' /\ EvidenceInv' /\ QuietReadable' /\ AnswersTrue'
<1>1. UNCHANGED <<time, deployed, held, run, status, latest, reports>>
      /\ reader.pc = "decide" /\ reader \in ReaderRow
  BY DEF Decide, RunTypeOK
<1>2. PICK s \in {NoDoc} \cup StatusDoc : s = reader.status
  BY <1>1, ReaderFacts
<1>3. s # NoDoc /\ StatusSound(s)
  BY <1>1, <1>2 DEF EvidenceInv, ReaderSound
<1>4. PICK a : a = Verdict(s, reader.current, ~ LockFree)
  OBVIOUS
<1>5. /\ a \in Verdicts \cup {"drifted", "overdue", "abandoned", "expired"}
      /\ a = "qualified" => \A p \in Matrix : run[s.run].answers[p] = "pass"
      /\ a = "abandoned" => LockFree
  BY <1>1, <1>3, <1>4, VerdictFacts, ReaderFacts DEF LockFree
<1>6. a = "abandoned" => ~ Working(s.run)
  <2>1. s.run \in Runs /\ run[s.run].pc \in Busy \cup {"done", "dead"}
    BY <1>3 DEF StatusSound
  <2>2. LockFree => run[s.run].pc \notin Busy
    BY <2>1, LockFacts DEF LockFree
  <2> QED BY <1>5, <2>1, <2>2 DEF Working
<1>7. Announced(s) \/ Reproducible(s.run)
  BY <1>3, FilesAnswer
<1>8. reader' = [reader EXCEPT !.pc = "answered", !.answer = a]
  BY <1>2, <1>4, <1>7 DEF Decide, Answer
<1>9. PICK x \in ReaderRow : /\ reader' = x /\ x.status = s /\ x.quiet = reader.quiet
                             /\ x.pc = "answered" /\ x.answer = a
  <2> DEFINE x == [reader EXCEPT !.pc = "answered", !.answer = a]
  <2>1. x \in ReaderRow /\ x.status = reader.status /\ x.quiet = reader.quiet /\ x.pc = "answered"
        /\ x.answer = a
    BY <1>1, <1>5 DEF ReaderRow
  <2> HIDE DEF x
  <2>2. reader' = x
    BY <1>8 DEF x
  <2> QED BY <1>2, <2>1, <2>2
<1>10. RunTypeOK' /\ EvidenceInv'
  BY <1>1, <1>2, <1>9, Reading
<1>11. a # "invalid"
  BY <1>5 DEF Verdicts
<1> QED BY <1>1, <1>5, <1>6, <1>9, <1>10, <1>11 DEF QuietReadable, AnswersTrue, Working

LEMMA VerifySealedKeeps ==
  ASSUME RunTypeOK, EvidenceInv, QualificationConstants, VerifySealed
  PROVE  RunTypeOK' /\ EvidenceInv' /\ QuietReadable' /\ AnswersTrue'
<1>1. /\ UNCHANGED <<time, deployed, held, run, status, latest, reports>>
      /\ time' \in Nat /\ deployed' \in Nat
  BY DEF VerifySealed, RunTypeOK
<1>2. PICK s \in {NoDoc} \cup StatusDoc : s = status
  BY DEF RunTypeOK
<1>3. s # NoDoc /\ StatusSound(s)
  BY <1>2, StatusFacts DEF VerifySealed, EvidenceInv
<1>4. PICK b \in BOOLEAN : b = (s.binding = CurrentBinding)
  OBVIOUS
<1>5. PICK a : a = IF ~ Announced(s) THEN Verdict(s, b, FALSE) ELSE "invalid"
  OBVIOUS
<1>6. /\ a \in Verdicts \cup {"drifted", "overdue", "expired", "invalid"}
      /\ a = "qualified" => \A p \in Matrix : run[s.run].answers[p] = "pass"
      /\ a = "invalid" => Announced(s)
  <2>1. CASE Announced(s)
    BY <1>5, <2>1
  <2>2. CASE ~ Announced(s)
    <3>1. a = Verdict(s, b, FALSE)
      BY <1>5, <2>2
    <3>2. a # "abandoned" /\ a # "invalid"
      BY <1>3, <2>2, <3>1, VerdictFacts DEF Verdicts
    <3> QED BY <1>3, <3>1, <3>2, VerdictFacts
  <2> QED BY <2>1, <2>2
<1>7. ~ Announced(s) =>
        /\ LatestMatches(s, latest) /\ SummaryMatches(s, reports[s.run].summary)
        /\ RecordsMatch(s.summary, reports[s.run].records) /\ Reproducible(s.run)
  BY <1>2, <1>3, FilesAnswer DEF EvidenceInv, OneRunAtWork
<1>8. reader' = [NoReader EXCEPT !.pc = "answered", !.status = s, !.quiet = ~ Announced(s),
                                 !.answer = a]
  BY <1>2, <1>4, <1>5, <1>7 DEF VerifySealed
<1>9. PICK x \in ReaderRow : /\ reader' = x /\ x.status = s /\ x.pc = "answered" /\ x.answer = a
                             /\ x.quiet = ~ Announced(s)
  <2> DEFINE x == [pc |-> "answered", status |-> s, current |-> FALSE, answer |-> a,
                   quiet |-> ~ Announced(s)]
  <2>1. reader' = x
    BY <1>8 DEF NoReader
  <2>2. x \in ReaderRow
    BY <1>6 DEF ReaderRow, Announced
  <2>3. x.status = s /\ x.pc = "answered" /\ x.answer = a /\ x.quiet = ~ Announced(s)
    OBVIOUS
  <2> HIDE DEF x
  <2> QED BY <2>1, <2>2, <2>3
<1>10. RunTypeOK' /\ EvidenceInv'
  BY <1>1, <1>2, <1>9, WorldStep
<1>11. a # "abandoned"
  BY <1>6 DEF Verdicts
<1> QED BY <1>1, <1>6, <1>9, <1>10, <1>11 DEF QuietReadable, AnswersTrue

LEMMA WorldKeeps ==
  ASSUME RunTypeOK, EvidenceInv, reader.pc # "answered", Pass \/ Deploy
  PROVE  RunTypeOK' /\ EvidenceInv' /\ QuietReadable' /\ AnswersTrue'
<1>1. /\ UNCHANGED <<held, run, status, latest, reports, reader>>
      /\ time' \in Nat /\ deployed' \in Nat /\ reader' \in ReaderRow
  BY DEF Pass, Deploy, RunTypeOK
<1>2. RunTypeOK' /\ EvidenceInv'
  BY <1>1, WorldStep DEF EvidenceInv, ReaderSound
<1> QED BY <1>1, <1>2 DEF QuietReadable, AnswersTrue

-----------------------------------------------------------------------------
(* The theorem                                                                *)

LEMMA EvidenceInit ==
  ASSUME QualificationConstants, RunInit
  PROVE  RunTypeOK /\ EvidenceInv /\ QuietReadable /\ AnswersTrue
<1>1. /\ time = 0 /\ deployed = 1 /\ held = 0 /\ status = NoDoc /\ latest = NoDoc
      /\ reader = NoReader /\ \A r \in Runs : run[r] = NoRun /\ reports[r] = NoReport
  BY DEF RunInit
<1>2. RunTypeOK
  BY <1>1, StartFacts DEF RunInit, RunTypeOK
<1>3. \A r \in Runs : AskedInOrder(r) /\ SummaryTrue(r)
  <2> SUFFICES ASSUME NEW r \in Runs
               PROVE  AskedInOrder(r) /\ SummaryTrue(r)
    OBVIOUS
  <2>1. run[r].pc = "off" /\ run[r] = NoRun /\ reports[r] = NoReport /\ ~ Complete(r)
    BY <1>1, StartFacts DEF Complete
  <2>2. \A c : ~ Past(r, c)
    BY <2>1 DEF Past
  <2>3. NoRun = [NoRun EXCEPT !.pc = NoRun.pc, !.binding = NoRun.binding]
    BY DEF NoRun
  <2> QED BY <2>1, <2>2, <2>3 DEF AskedInOrder, SummaryTrue, Asking
<1>4. StatusSound(status) /\ ReaderSound
  BY <1>1, StartFacts DEF StatusSound, ReaderSound
<1>5. OneRunAtWork
  BY <1>1, StartFacts DEF OneRunAtWork, Busy, Asking, Runs
<1> QED BY <1>1, <1>2, <1>3, <1>4, <1>5, StartFacts DEF EvidenceInv, QuietReadable, AnswersTrue

LEMMA EvidenceStep ==
  ASSUME QualificationConstants, RunTypeOK, EvidenceInv, QuietReadable, AnswersTrue,
         [RunNext]_runVars
  PROVE  RunTypeOK' /\ EvidenceInv' /\ QuietReadable' /\ AnswersTrue'
<1>1. ASSUME NEW r \in Runs, reader.pc # "answered",
             Prepare(r) \/ Open(r) \/ Announce(r) \/ AskCandidate(r) \/ AskJudge(r)
      PROVE  RunTypeOK' /\ EvidenceInv' /\ QuietReadable' /\ AnswersTrue'
  BY <1>1, PrepareKeeps, OpenKeeps, AnnounceKeeps, AskCandidateKeeps, AskJudgeKeeps
<1>2. ASSUME NEW r \in Runs, reader.pc # "answered",
             WriteRecord(r) \/ CheckEnd(r) \/ WriteSummary(r) \/ WriteLatest(r)
      PROVE  RunTypeOK' /\ EvidenceInv' /\ QuietReadable' /\ AnswersTrue'
  BY <1>2, WriteRecordKeeps, CheckEndKeeps, WriteSummaryKeeps, WriteLatestKeeps
<1>3. ASSUME NEW r \in Runs, reader.pc # "answered", WriteStatus(r) \/ Abort(r) \/ Kill(r)
      PROVE  RunTypeOK' /\ EvidenceInv' /\ QuietReadable' /\ AnswersTrue'
  BY <1>3, WriteStatusKeeps, AbortKeeps, KillKeeps
<1>4. CASE ReadStatus
  BY <1>4, ReadStatusKeeps
<1>5. CASE ReadLatest \/ ReadSummary \/ ReadRecords
  BY <1>5, FilesKeep
<1>6. CASE ReadBinding \/ Decide \/ VerifySealed
  BY <1>6, ReadBindingKeeps, DecideKeeps, VerifySealedKeeps
<1>7. CASE reader.pc # "answered" /\ (Pass \/ Deploy)
  BY <1>7, WorldKeeps
<1>8. CASE UNCHANGED runVars
  <2>1. RunTypeOK'
    BY <1>8 DEF runVars, RunTypeOK
  <2>2. UNCHANGED <<held, run, status, latest, reports, reader>>
    BY <1>8 DEF runVars
  <2>3. RunTypeOK' /\ EvidenceInv'
    BY <2>1, <2>2, WorldStep DEF EvidenceInv, ReaderSound, RunTypeOK
  <2> QED BY <2>2, <2>3 DEF QuietReadable, AnswersTrue, Working
<1> QED BY <1>1, <1>2, <1>3, <1>4, <1>5, <1>6, <1>7, <1>8 DEF RunNext

(* In every behaviour, of any number of candidates, scenarios and runs, with  *)
(* any budgets, ages and clock: a status or a reader says "qualified" only of *)
(* a run that every candidate answered well, a reader that no run overlapped  *)
(* understands the files, and nobody calls a run at work abandoned            *)
(* (run_qualification, status_qualification, verify_qualification and         *)
(* mark_active_run_aborted of john-lomein-persona-qualification.py).          *)
THEOREM EvidenceIsSafe ==
  ASSUME QualificationConstants
  PROVE  RunSpec => []QualificationSafe
<1> DEFINE Inv == RunTypeOK /\ EvidenceInv /\ QuietReadable /\ AnswersTrue
<1>1. RunInit => Inv
  BY EvidenceInit
<1>2. Inv /\ [RunNext]_runVars => Inv'
  BY EvidenceStep
<1>3. Inv => QualificationSafe
  BY Earned DEF QualificationSafe
<1> QED BY <1>1, <1>2, <1>3, PTL DEF RunSpec
=============================================================================

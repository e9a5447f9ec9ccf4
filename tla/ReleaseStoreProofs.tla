--------------------------- MODULE ReleaseStoreProofs ---------------------------
(***************************************************************************)
(* Proofs about ReleaseStore, for every set of packets, repositories,      *)
(* commits and clock readings, for bundles of any length and for all       *)
(* limits.                                                                 *)
(***************************************************************************)
EXTENDS ReleaseStore, FiniteSetTheorems, FunctionTheorems, TLAPS

-----------------------------------------------------------------------------
(* What the transactions write, row by row *)

LEMMA OrderFields ==
  ASSUME NEW p \in Packets
  PROVE  /\ Order[p].repo \in Repos /\ Order[p].size \in Nat
         /\ Order[p].size >= 1 /\ Order[p].base \in Commits
BY OrderAssumption DEF OrderType

(* A position of a bundle that has step rows.                                 *)
LEMMA PositionFacts ==
  /\ 1 \in Positions
  /\ \A i \in Positions : i \in Nat /\ i >= 1 /\ i <= MaxPRs
  /\ \A i \in Positions : i # 1 => i - 1 \in Positions
  /\ \A i \in Nat : i >= 1 /\ i <= MaxPRs => i \in Positions
BY ReleaseLimitAssumption DEF Positions

LEMMA RowFields ==
  ASSUME ReleaseTypeOK
  PROVE  /\ \A p \in Packets, i \in Positions :
              /\ steps[<<p, i>>].state \in StepStates
              /\ steps[<<p, i>>].active \in Tries \cup {0}
              /\ steps[<<p, i>>].merge \in Commits \cup {NoCommit}
         /\ \A p \in Packets, i \in Positions, n \in Tries :
              /\ attempts[<<p, i, n>>].state \in AttemptStates
              /\ attempts[<<p, i, n>>].at \in Times \cup {Never}
              /\ attempts[<<p, i, n>>].base \in Commits \cup {NoCommit}
<1>1. \A p \in Packets, i \in Positions : steps[<<p, i>>] \in StepRow
  BY DEF ReleaseTypeOK
<1>2. \A p \in Packets, i \in Positions, n \in Tries :
        attempts[<<p, i, n>>] \in AttemptRow
  BY DEF ReleaseTypeOK
<1> QED BY <1>1, <1>2 DEF StepRow, AttemptRow

(* One step row, and one attempt row, is written.                             *)
WritesStep(p, i, row) ==
  \A q \in Packets, j \in Positions :
    steps'[<<q, j>>] = IF q = p /\ j = i THEN row ELSE steps[<<q, j>>]

WritesAttempt(p, i, n, row) ==
  \A q \in Packets, j \in Positions, m \in Tries :
    attempts'[<<q, j, m>>] =
      IF q = p /\ j = i /\ m = n THEN row ELSE attempts[<<q, j, m>>]

LEMMA StepWritten ==
  ASSUME ReleaseTypeOK, NEW p \in Packets, NEW i \in Positions,
         NEW row \in StepRow, steps' = [steps EXCEPT ![<<p, i>>] = row]
  PROVE  /\ WritesStep(p, i, row)
         /\ steps' \in [Packets \X Positions -> StepRow]
BY DEF ReleaseTypeOK, WritesStep

LEMMA AttemptWritten ==
  ASSUME ReleaseTypeOK, NEW p \in Packets, NEW i \in Positions, NEW n \in Tries,
         NEW row \in AttemptRow, attempts' = [attempts EXCEPT ![<<p, i, n>>] = row]
  PROVE  /\ WritesAttempt(p, i, n, row)
         /\ attempts' \in [Packets \X Positions \X Tries -> AttemptRow]
BY DEF ReleaseTypeOK, WritesAttempt

(* The number begin_mutation gives to an attempt: the first when there is     *)
(* none, the second when the first was absent.                                *)
LEMMA NextTry ==
  ASSUME NEW p \in Packets, NEW i \in Positions, RetryAllowed(p, i)
  PROVE  LET n == Cardinality(Tried(p, i)) + 1 IN
         /\ n \in Tries
         /\ n = 1 => \A m \in Tries : attempts[<<p, i, m>>].state = "none"
         /\ n = 2 => /\ attempts[<<p, i, 1>>].state = "absent"
                     /\ attempts[<<p, i, 2>>].state = "none"
<1> DEFINE n == Cardinality(Tried(p, i)) + 1
<1>0. Tries = {1, 2}
  BY DEF Tries
<1>1. Tried(p, i) \subseteq {1}
  BY DEF RetryAllowed
<1>2. CASE Tried(p, i) = {}
  <2>1. n = 1
    BY <1>2, FS_EmptySet
  <2>2. \A m \in Tries : attempts[<<p, i, m>>].state = "none"
    BY <1>2 DEF Tried
  <2> QED BY <1>0, <2>1, <2>2
<1>3. CASE Tried(p, i) = {1}
  <2>1. n = 2
    BY <1>3, FS_Singleton
  <2>2. attempts[<<p, i, 1>>].state = "absent" /\ attempts[<<p, i, 2>>].state = "none"
    BY <1>0, <1>3 DEF Tried, RetryAllowed
  <2> QED BY <1>0, <2>1, <2>2
<1> QED BY <1>1, <1>2, <1>3

-----------------------------------------------------------------------------
(* What a transaction changes, in one line each: the lemmas below speak of    *)
(* these summaries, the actions of Next are instances of them.                *)

(* begin_mutation *)
Begins(p, i, n, base, t) ==
  /\ WritesAttempt(p, i, n, [state |-> "pending", at |-> t, base |-> base])
  /\ WritesStep(p, i, [state |-> "mutation_pending", active |-> n,
                       merge |-> NoCommit])
  /\ bundles' = [bundles EXCEPT ![p] = "executing"]
  /\ UNCHANGED <<accepted, circuit>>

(* confirm_step and record_recovery: the open attempt n ends in state a, and  *)
(* its step in state s.                                                       *)
Ends(p, i, n, a, s, merge) ==
  /\ ActiveAttempt(p, i, n)
  /\ WritesAttempt(p, i, n, [state |-> a, at |-> attempts[<<p, i, n>>].at,
                             base |-> attempts[<<p, i, n>>].base])
  /\ WritesStep(p, i, [state |-> s, active |-> 0, merge |-> merge])
  /\ UNCHANGED <<accepted, bundles>>

Endings == {<<"confirmed", "confirmed">>, <<"absent", "pending">>,
            <<"indeterminate", "indeterminate">>}

LEMMA BeginsWrites ==
  ASSUME ReleaseTypeOK, NEW p \in Packets, NEW i \in Positions,
         NEW base \in Commits, NEW t \in Times, BeginMutation(p, i, base, t)
  PROVE  \E n \in Tries :
           /\ Begins(p, i, n, base, t)
           /\ n = 1 => \A m \in Tries : attempts[<<p, i, m>>].state = "none"
           /\ n = 2 => /\ attempts[<<p, i, 1>>].state = "absent"
                       /\ attempts[<<p, i, 2>>].state = "none"
           /\ ReleaseTypeOK'
<1> DEFINE n == Cardinality(Tried(p, i)) + 1
           a == [state |-> "pending", at |-> t, base |-> base]
           s == [state |-> "mutation_pending", active |-> n, merge |-> NoCommit]
<1>1. RetryAllowed(p, i)
  BY DEF BeginMutation, MayBegin
<1>2. /\ n \in Tries
      /\ n = 1 => \A m \in Tries : attempts[<<p, i, m>>].state = "none"
      /\ n = 2 => /\ attempts[<<p, i, 1>>].state = "absent"
                  /\ attempts[<<p, i, 2>>].state = "none"
  BY <1>1, NextTry
<1>3. a \in AttemptRow /\ s \in StepRow
  BY <1>2 DEF AttemptRow, AttemptStates, StepRow, StepStates
<1>4. /\ attempts' = [attempts EXCEPT ![<<p, i, n>>] = a]
      /\ steps' = [steps EXCEPT ![<<p, i>>] = s]
      /\ bundles' = [bundles EXCEPT ![p] = "executing"]
      /\ UNCHANGED <<accepted, circuit>>
  BY DEF BeginMutation
<1> HIDE DEF n, a, s
<1>5. WritesAttempt(p, i, n, a) /\ attempts' \in [Packets \X Positions \X Tries -> AttemptRow]
  BY <1>2, <1>3, <1>4, AttemptWritten
<1>6. WritesStep(p, i, s) /\ steps' \in [Packets \X Positions -> StepRow]
  BY <1>3, <1>4, StepWritten
<1>7. ReleaseTypeOK'
  BY <1>4, <1>5, <1>6 DEF ReleaseTypeOK, BundleStates, ActiveStates
<1>8. Begins(p, i, n, base, t)
  BY <1>4, <1>5, <1>6 DEF Begins, a, s
<1> QED BY <1>2, <1>7, <1>8

LEMMA CircuitAfterType ==
  ASSUME ReleaseTypeOK, NEW p \in Packets, NEW mode \in Modes \cup {"success"}
  PROVE  LET c == circuit[Order[p].repo]
             d == CircuitAfter(p, mode) IN
         /\ d \in CircuitRow
         /\ c.open => d.open
         /\ ClosedBelowLimit => (~ d.open => d.count < IndeterminateLimit)
<1> DEFINE c == circuit[Order[p].repo]
<1>1. Order[p].repo \in Repos
  BY OrderFields
<1>2. c \in CircuitRow /\ c.open \in BOOLEAN /\ c.count \in Nat
      /\ c.last \in Packets \cup {NoPacket}
  BY <1>1 DEF ReleaseTypeOK, CircuitRow
<1>3. ClosedBelowLimit => (~ c.open => c.count < IndeterminateLimit)
  BY <1>1 DEF ClosedBelowLimit
<1>4. mode \in {"none", "threshold", "immediate", "success"}
  BY DEF Modes
<1> HIDE DEF c
<1>5. CASE mode = "none"
  BY <1>2, <1>3, <1>5 DEF CircuitAfter, c
<1>6. CASE mode = "success"
  BY <1>2, <1>3, <1>6, ReleaseLimitAssumption
  DEF CircuitAfter, c, ClosedCircuit, CircuitRow
<1>7. CASE mode \in {"threshold", "immediate"} /\ c.last = p
  <2>1. CircuitAfter(p, mode) = [open |-> mode = "immediate" \/ c.open,
                                 count |-> c.count, last |-> p]
    BY <1>7 DEF CircuitAfter, c
  <2> QED BY <1>2, <1>3, <2>1 DEF CircuitRow, c
<1>8. CASE mode \in {"threshold", "immediate"} /\ c.last # p
  <2>1. CircuitAfter(p, mode) =
          [open |-> (mode = "immediate" \/ c.open)
                    \/ c.count + 1 >= IndeterminateLimit,
           count |-> c.count + 1, last |-> p]
    BY <1>8 DEF CircuitAfter, c
  <2> DEFINE opens == (mode = "immediate" \/ c.open)
                      \/ c.count + 1 >= IndeterminateLimit
  <2>2. opens \in BOOLEAN /\ c.count + 1 \in Nat
    BY <1>2
  <2>3. (c.open => opens) /\ (~ opens => c.count + 1 < IndeterminateLimit)
    BY <1>2, ReleaseLimitAssumption
  <2> HIDE DEF opens
  <2>4. CircuitAfter(p, mode) = [open |-> opens, count |-> c.count + 1, last |-> p]
    BY <2>1 DEF opens
  <2> QED BY <2>2, <2>3, <2>4 DEF CircuitRow, c
<1> QED BY <1>4, <1>5, <1>6, <1>7, <1>8

LEMMA EndsWrites ==
  ASSUME ReleaseTypeOK, NEW p \in Packets, NEW i \in Positions, NEW n \in Tries,
         NEW a, NEW s, <<a, s>> \in Endings, NEW merge \in Commits \cup {NoCommit},
         ActiveAttempt(p, i, n), EndAttempt(p, i, n, a), EndStep(p, i, s, merge),
         UNCHANGED <<accepted, bundles>>
  PROVE  /\ Ends(p, i, n, a, s, merge)
         /\ steps' \in [Packets \X Positions -> StepRow]
         /\ attempts' \in [Packets \X Positions \X Tries -> AttemptRow]
<1> DEFINE x == [state |-> a, at |-> attempts[<<p, i, n>>].at,
                 base |-> attempts[<<p, i, n>>].base]
           y == [state |-> s, active |-> 0, merge |-> merge]
<1>1. a \in AttemptStates /\ s \in StepStates
  BY DEF Endings, AttemptStates, StepStates
<1>2. x \in AttemptRow
  BY <1>1, RowFields DEF AttemptRow
<1>3. y \in StepRow
  BY <1>1 DEF StepRow
<1>4. attempts' = [attempts EXCEPT ![<<p, i, n>>] = x]
  BY DEF EndAttempt
<1>5. steps' = [steps EXCEPT ![<<p, i>>] = y]
  BY DEF EndStep
<1> HIDE DEF x, y
<1>6. WritesAttempt(p, i, n, x)
      /\ attempts' \in [Packets \X Positions \X Tries -> AttemptRow]
  BY <1>2, <1>4, AttemptWritten
<1>7. WritesStep(p, i, y) /\ steps' \in [Packets \X Positions -> StepRow]
  BY <1>3, <1>5, StepWritten
<1> QED BY <1>6, <1>7 DEF Ends, x, y

LEMMA StopWrites ==
  ASSUME ReleaseTypeOK, NEW p \in Packets, NEW i \in Positions,
         NEW s \in {"rejected", "indeterminate"}, StopStep(p, i, s)
  PROVE  /\ steps[<<p, i>>].state = "pending"
         /\ WritesStep(p, i, [state |-> s, active |-> 0, merge |-> NoCommit])
         /\ steps' \in [Packets \X Positions -> StepRow]
         /\ UNCHANGED <<accepted, bundles, attempts, circuit>>
<1> DEFINE y == [state |-> s, active |-> 0, merge |-> NoCommit]
<1>1. y \in StepRow
  BY DEF StepRow, StepStates
<1>2. steps' = [steps EXCEPT ![<<p, i>>] = y]
  BY DEF StopStep, EndStep
<1> HIDE DEF y
<1>3. WritesStep(p, i, y) /\ steps' \in [Packets \X Positions -> StepRow]
  BY <1>1, <1>2, StepWritten
<1> QED BY <1>3 DEF StopStep, y

-----------------------------------------------------------------------------
(* Every step of the store is one of six kinds.                               *)

Concludes ==
  \E p \in Packets, i \in Positions, n \in Tries, e \in Endings,
     merge \in Commits \cup {NoCommit} :
       /\ IsStep(p, i)
       /\ Ends(p, i, n, e[1], e[2], merge)
       /\ steps' \in [Packets \X Positions -> StepRow]
       /\ attempts' \in [Packets \X Positions \X Tries -> AttemptRow]

Stops ==
  \E p \in Packets, i \in Positions, s \in {"rejected", "indeterminate"} :
    StopStep(p, i, s)

Reports ==
  \E p \in Packets, outcome \in Outcomes, mode \in Modes :
    TerminalizeBundle(p, outcome, mode)

Breaks == UNCHANGED <<accepted, bundles, steps, attempts>>

LEMMA StepKinds ==
  ASSUME ReleaseTypeOK, ReleaseNext
  PROVE  \/ \E p \in Packets, t \in Times : Reserve(p, t)
         \/ \E p \in Packets, i \in Positions, base \in Commits, t \in Times :
              BeginMutation(p, i, base, t)
         \/ Concludes \/ Stops \/ Reports \/ Breaks
<1>1. ASSUME NEW p \in Packets, NEW i \in Positions, NEW n \in Tries,
             NEW merge \in Commits, NEW parent \in Commits,
             ConfirmStep(p, i, n, merge, parent)
      PROVE  Concludes
  <2>1. <<"confirmed", "confirmed">> \in Endings
    BY DEF Endings
  <2>2. /\ Ends(p, i, n, "confirmed", "confirmed", merge) /\ IsStep(p, i)
        /\ steps' \in [Packets \X Positions -> StepRow]
        /\ attempts' \in [Packets \X Positions \X Tries -> AttemptRow]
    BY <1>1, <2>1, EndsWrites DEF ConfirmStep
  <2> QED BY <2>1, <2>2 DEF Concludes
<1>2. ASSUME NEW p \in Packets, NEW i \in Positions, NEW n \in Tries,
             RecordAbsent(p, i, n)
      PROVE  Concludes
  <2>1. <<"absent", "pending">> \in Endings
    BY DEF Endings
  <2>2. /\ Ends(p, i, n, "absent", "pending", NoCommit) /\ IsStep(p, i)
        /\ steps' \in [Packets \X Positions -> StepRow]
        /\ attempts' \in [Packets \X Positions \X Tries -> AttemptRow]
    BY <1>2, <2>1, EndsWrites DEF RecordAbsent
  <2> QED BY <2>1, <2>2 DEF Concludes
<1>3. ASSUME NEW p \in Packets, NEW i \in Positions, NEW n \in Tries,
             NEW mode \in Modes, RecordIndeterminate(p, i, n, mode)
      PROVE  Concludes
  <2>1. <<"indeterminate", "indeterminate">> \in Endings
    BY DEF Endings
  <2>2. /\ Ends(p, i, n, "indeterminate", "indeterminate", NoCommit) /\ IsStep(p, i)
        /\ steps' \in [Packets \X Positions -> StepRow]
        /\ attempts' \in [Packets \X Positions \X Tries -> AttemptRow]
    BY <1>3, <2>1, EndsWrites DEF RecordIndeterminate
  <2> QED BY <2>1, <2>2 DEF Concludes
<1>4. ASSUME NEW r \in Repos, OpenCircuit(r) \/ CloseCircuit(r) PROVE Breaks
  BY <1>4 DEF OpenCircuit, CloseCircuit, Breaks
<1> QED BY <1>1, <1>2, <1>3, <1>4 DEF ReleaseNext, Stops, Reports

-----------------------------------------------------------------------------
(* Types *)

LEMMA CircuitWritten ==
  ASSUME ReleaseTypeOK, NEW p \in Packets, NEW mode \in Modes \cup {"success"},
         RecordCircuit(p, mode)
  PROVE  /\ circuit' \in [Repos -> CircuitRow]
         /\ \A r \in Repos : circuit[r].open => circuit'[r].open
         /\ ClosedBelowLimit => ClosedBelowLimit'
<1> DEFINE d == CircuitAfter(p, mode)
           s == Order[p].repo
<1>1. s \in Repos
  BY OrderFields
<1>2. circuit' = [circuit EXCEPT ![s] = d]
  BY DEF RecordCircuit
<1>3. /\ d \in CircuitRow /\ (circuit[s].open => d.open)
      /\ ClosedBelowLimit => (~ d.open => d.count < IndeterminateLimit)
  BY CircuitAfterType
<1> HIDE DEF d, s
<1>4. \A r \in Repos : circuit'[r] = IF r = s THEN d ELSE circuit[r]
  BY <1>1, <1>2 DEF ReleaseTypeOK
<1>5. circuit' \in [Repos -> CircuitRow]
  BY <1>1, <1>2, <1>3 DEF ReleaseTypeOK
<1> QED BY <1>3, <1>4, <1>5 DEF ClosedBelowLimit

(* The circuits move in one of three ways.                                    *)
LEMMA CircuitStep ==
  ASSUME ReleaseTypeOK, ReleaseNext
  PROVE  \/ circuit' = circuit
         \/ \E p \in Packets, mode \in Modes \cup {"success"} :
              RecordCircuit(p, mode)
         \/ \E r \in Repos : Breaks /\ (OpenCircuit(r) \/ CloseCircuit(r))
<1>1. ASSUME NEW p \in Packets, NEW outcome \in Outcomes, NEW mode \in Modes,
             TerminalizeBundle(p, outcome, mode)
      PROVE  \E m \in Modes \cup {"success"} : RecordCircuit(p, m)
  <2>1. CASE outcome = "succeeded"
    <3>1. RecordCircuit(p, "success")
      BY <1>1, <2>1 DEF TerminalizeBundle
    <3> QED BY <3>1
  <2>2. CASE outcome # "succeeded"
    BY <1>1, <2>2 DEF TerminalizeBundle
  <2> QED BY <2>1, <2>2
<1>2. ASSUME NEW r \in Repos, OpenCircuit(r) \/ CloseCircuit(r) PROVE Breaks
  BY <1>2 DEF OpenCircuit, CloseCircuit, Breaks
<1>3. ASSUME NEW p \in Packets, NEW t \in Times, Reserve(p, t)
      PROVE  circuit' = circuit
  BY <1>3 DEF Reserve
<1>4. ASSUME NEW p \in Packets, NEW i \in Positions, NEW base \in Commits,
             NEW t \in Times, BeginMutation(p, i, base, t)
      PROVE  circuit' = circuit
  BY <1>4 DEF BeginMutation
<1>5. ASSUME NEW p \in Packets, NEW i \in Positions, NEW n \in Tries,
             \/ RecordAbsent(p, i, n)
             \/ \E merge, parent \in Commits : ConfirmStep(p, i, n, merge, parent)
             \/ \E s \in {"rejected", "indeterminate"} : StopStep(p, i, s)
      PROVE  circuit' = circuit
  BY <1>5 DEF RecordAbsent, ConfirmStep, StopStep
<1>6. ASSUME NEW p \in Packets, NEW i \in Positions, NEW n \in Tries,
             NEW mode \in Modes, RecordIndeterminate(p, i, n, mode)
      PROVE  RecordCircuit(p, mode)
  BY <1>6 DEF RecordIndeterminate
<1>7. 1 \in Tries
  BY DEF Tries
<1> QED BY <1>1, <1>2, <1>3, <1>4, <1>5, <1>6, <1>7 DEF ReleaseNext

LEMMA CircuitTypeStep ==
  ASSUME ReleaseTypeOK, ReleaseNext
  PROVE  /\ circuit' \in [Repos -> CircuitRow]
         /\ ClosedBelowLimit => ClosedBelowLimit'
         /\ \/ Breaks
            \/ \A r \in Repos : circuit[r].open => circuit'[r].open
<1>1. CASE circuit' = circuit
  BY <1>1 DEF ReleaseTypeOK, ClosedBelowLimit
<1>2. CASE \E p \in Packets, mode \in Modes \cup {"success"} :
             RecordCircuit(p, mode)
  BY <1>2, CircuitWritten
<1>3. ASSUME NEW r \in Repos, OpenCircuit(r), Breaks
      PROVE  /\ circuit' \in [Repos -> CircuitRow]
             /\ ClosedBelowLimit => ClosedBelowLimit'
  <2> DEFINE d == [open |-> TRUE, count |-> circuit[r].count + 1,
                   last |-> NoPacket]
  <2>1. circuit[r] \in CircuitRow
    BY DEF ReleaseTypeOK
  <2>2. d \in CircuitRow
    BY <2>1 DEF CircuitRow
  <2>3. circuit' = [circuit EXCEPT ![r] = d]
    BY <1>3 DEF OpenCircuit
  <2>4. d.open
    OBVIOUS
  <2> HIDE DEF d
  <2>5. \A q \in Repos : circuit'[q] = IF q = r THEN d ELSE circuit[q]
    BY <2>3 DEF ReleaseTypeOK
  <2>6. circuit' \in [Repos -> CircuitRow]
    BY <2>2, <2>3 DEF ReleaseTypeOK
  <2> QED BY <2>4, <2>5, <2>6 DEF ClosedBelowLimit
<1>4. ASSUME NEW r \in Repos, CloseCircuit(r), Breaks
      PROVE  /\ circuit' \in [Repos -> CircuitRow]
             /\ ClosedBelowLimit => ClosedBelowLimit'
  <2>1. ClosedCircuit \in CircuitRow /\ ClosedCircuit.count < IndeterminateLimit
    BY ReleaseLimitAssumption DEF ClosedCircuit, CircuitRow
  <2>2. \A q \in Repos : circuit'[q] = IF q = r THEN ClosedCircuit ELSE circuit[q]
    BY <1>4 DEF CloseCircuit, ReleaseTypeOK
  <2>3. circuit' \in [Repos -> CircuitRow]
    BY <1>4, <2>1 DEF CloseCircuit, ReleaseTypeOK
  <2> QED BY <2>1, <2>2, <2>3 DEF ClosedBelowLimit
<1> QED BY <1>1, <1>2, <1>3, <1>4, CircuitStep

LEMMA TypeStep ==
  ASSUME ReleaseTypeOK, ReleaseNext
  PROVE  ReleaseTypeOK'
<1> USE CircuitTypeStep
<1>1. ASSUME NEW p \in Packets, NEW t \in Times, Reserve(p, t)
      PROVE  ReleaseTypeOK'
  BY <1>1 DEF Reserve, ReleaseTypeOK, BundleStates, ActiveStates
<1>2. ASSUME NEW p \in Packets, NEW i \in Positions, NEW base \in Commits,
             NEW t \in Times, BeginMutation(p, i, base, t)
      PROVE  ReleaseTypeOK'
  BY <1>2, BeginsWrites
<1>3. CASE Concludes
  BY <1>3 DEF Concludes, Ends, ReleaseTypeOK
<1>4. CASE Stops
  BY <1>4, StopWrites DEF Stops, ReleaseTypeOK
<1>5. CASE Reports
  BY <1>5 DEF Reports, TerminalizeBundle, ReleaseTypeOK, BundleStates
<1>6. CASE Breaks
  BY <1>6 DEF Breaks, ReleaseTypeOK
<1> QED BY <1>1, <1>2, <1>3, <1>4, <1>5, <1>6, StepKinds

-----------------------------------------------------------------------------
(* Packets and bundles *)

LEMMA RowsStep ==
  ASSUME ReleaseTypeOK, RowsTogether, ReleaseNext
  PROVE  RowsTogether'
<1>0. Never \notin Times
  BY ReleaseTimeAssumption DEF Never
<1>1. ASSUME NEW p \in Packets, NEW t \in Times, Reserve(p, t)
      PROVE  RowsTogether'
  BY <1>0, <1>1 DEF Reserve, CanReserve, RowsTogether, ReleaseTypeOK
<1>2. ASSUME NEW p \in Packets, NEW i \in Positions, NEW base \in Commits,
             NEW t \in Times, BeginMutation(p, i, base, t)
      PROVE  RowsTogether'
  BY <1>2 DEF BeginMutation, IsStep, RowsTogether, ReleaseTypeOK
<1>3. CASE Concludes \/ Breaks
  BY <1>3 DEF Concludes, Ends, Breaks, RowsTogether
<1>4. CASE Stops
  BY <1>4 DEF Stops, StopStep, RowsTogether
<1>5. CASE Reports
  BY <1>5 DEF Reports, TerminalizeBundle, RowsTogether, ReleaseTypeOK,
     ActiveStates, Outcomes
<1> QED BY <1>1, <1>2, <1>3, <1>4, <1>5, StepKinds

LEMMA ReuseStep ==
  ASSUME ReleaseTypeOK, RowsTogether, NothingReused, ReleaseNext
  PROVE  NothingReused'
<1>1. ASSUME NEW p \in Packets, NEW t \in Times, Reserve(p, t)
      PROVE  NothingReused'
  <2> SUFFICES ASSUME NEW q \in Packets, NEW r \in Packets, q # r,
                      accepted'[q] # Never, accepted'[r] # Never
      PROVE  /\ Order[q].bundle # Order[r].bundle
             /\ Order[q].assertion # Order[r].assertion
             /\ Order[q].repo = Order[r].repo =>
                  ~ (bundles'[q] \in ActiveStates /\ bundles'[r] \in ActiveStates)
    BY DEF NothingReused
  <2>1. \A s \in Packets : s # p => /\ accepted'[s] = accepted[s]
                                    /\ bundles'[s] = bundles[s]
    BY <1>1 DEF Reserve, ReleaseTypeOK
  <2>2. \A s \in Packets : accepted[s] # Never =>
          /\ Order[s].bundle # Order[p].bundle
          /\ Order[s].assertion # Order[p].assertion
          /\ Order[s].repo = Order[p].repo => bundles[s] \notin ActiveStates
    BY <1>1 DEF Reserve, CanReserve, Unused, RepositoryFree, Taken
  <2>3. CASE q = p
    BY <2>1, <2>2, <2>3
  <2>4. CASE r = p
    BY <2>1, <2>2, <2>4
  <2>5. CASE q # p /\ r # p
    BY <2>1, <2>5 DEF NothingReused
  <2> QED BY <2>3, <2>4, <2>5
<1>2. CASE accepted' = accepted /\ \A p \in Packets :
             bundles'[p] \in ActiveStates => bundles[p] \in ActiveStates
  BY <1>2 DEF NothingReused
<1>3. ASSUME NEW p \in Packets, NEW i \in Positions, NEW base \in Commits,
             NEW t \in Times, BeginMutation(p, i, base, t)
      PROVE  NothingReused'
  BY <1>2, <1>3 DEF BeginMutation, InWindow, ReleaseTypeOK
<1>4. CASE Concludes \/ Breaks
  BY <1>2, <1>4 DEF Concludes, Ends, Breaks
<1>5. CASE Stops
  BY <1>2, <1>5 DEF Stops, StopStep
<1>6. CASE Reports
  BY <1>2, <1>6 DEF Reports, TerminalizeBundle, ReleaseTypeOK
<1> QED BY <1>1, <1>3, <1>4, <1>5, <1>6, StepKinds

-----------------------------------------------------------------------------
(* Steps and attempts *)

StepsAgree == AttemptsAgree /\ ChainIntact /\ MergedPrefix

(* While a step can still be begun or is under way, none after it was tried.  *)
LEMMA NothingAfter ==
  ASSUME MergedPrefix, NEW p \in Packets, NEW i \in Positions,
         steps[<<p, i>>].state # "confirmed"
  PROVE  \A j \in Positions, n \in Tries :
           i < j => attempts[<<p, j, n>>].state = "none"
BY DEF MergedPrefix

LEMMA AgreeBegins ==
  ASSUME ReleaseTypeOK, StepsAgree, NEW p \in Packets, NEW i \in Positions,
         NEW base \in Commits, NEW t \in Times, BeginMutation(p, i, base, t)
  PROVE  StepsAgree'
<1>1. PICK n \in Tries :
        /\ Begins(p, i, n, base, t)
        /\ n = 1 => \A m \in Tries : attempts[<<p, i, m>>].state = "none"
        /\ n = 2 => /\ attempts[<<p, i, 1>>].state = "absent"
                    /\ attempts[<<p, i, 2>>].state = "none"
  BY BeginsWrites
<1> DEFINE x == [state |-> "pending", at |-> t, base |-> base]
           y == [state |-> "mutation_pending", active |-> n, merge |-> NoCommit]
<1>2. /\ WritesAttempt(p, i, n, x) /\ x.state = "pending" /\ x.base = base
      /\ WritesStep(p, i, y) /\ y.state = "mutation_pending" /\ y.active = n
  BY <1>1 DEF Begins
<1> HIDE DEF x, y
<1>3. steps[<<p, i>>].state = "pending" /\ BaseReady(p, i, base)
  BY DEF BeginMutation, MayBegin
<1>4. Tries = {1, 2}
  BY DEF Tries
<1>5. \A j \in Positions, m \in Tries :
        i < j => attempts[<<p, j, m>>].state = "none"
  BY <1>3, NothingAfter DEF StepsAgree
<1>6. AttemptsAgree'
  <2> SUFFICES ASSUME NEW q \in Packets, NEW j \in Positions
      PROVE  StepAgrees(q, j)'
    BY DEF AttemptsAgree
  <2>1. CASE q = p /\ j = i
    <3>1. steps'[<<q, j>>] = y
      BY <1>2, <2>1 DEF WritesStep
    <3>2. \A m \in Tries : attempts'[<<q, j, m>>] =
            IF m = n THEN x ELSE attempts[<<p, i, m>>]
      BY <1>2, <2>1 DEF WritesAttempt
    <3>3. \A m \in Tries : /\ attempts[<<p, i, m>>].state # "confirmed"
                           /\ attempts[<<p, i, m>>].state # "pending"
      BY <1>1, <1>4
    <3> QED BY <1>1, <1>2, <1>4, <3>1, <3>2, <3>3 DEF StepAgrees
  <2>2. CASE ~ (q = p /\ j = i)
    <3>1. /\ steps'[<<q, j>>] = steps[<<q, j>>]
          /\ \A m \in Tries : attempts'[<<q, j, m>>] = attempts[<<q, j, m>>]
      BY <1>2, <2>2 DEF WritesStep, WritesAttempt
    <3> QED BY <1>4, <3>1 DEF StepsAgree, AttemptsAgree, StepAgrees
  <2> QED BY <2>1, <2>2
<1>7. \A q \in Packets, j \in Positions :
        steps[<<q, j>>].state = "confirmed" => steps'[<<q, j>>] = steps[<<q, j>>]
  BY <1>2, <1>3 DEF WritesStep
<1>8. ChainIntact'
  <2> SUFFICES ASSUME NEW q \in Packets, NEW j \in Positions, NEW m \in Tries,
                      attempts'[<<q, j, m>>].state # "none"
      PROVE  IF j = 1 THEN attempts'[<<q, j, m>>].base = Order[q].base
             ELSE /\ steps'[<<q, j - 1>>].state = "confirmed"
                  /\ attempts'[<<q, j, m>>].base = steps'[<<q, j - 1>>].merge
    BY DEF ChainIntact
  <2>1. j # 1 => j - 1 \in Positions
    BY PositionFacts
  <2>2. CASE q = p /\ j = i /\ m = n
    <3>1. attempts'[<<q, j, m>>] = x
      BY <1>2, <2>2 DEF WritesAttempt
    <3> QED BY <1>2, <1>3, <1>7, <2>1, <2>2, <3>1 DEF BaseReady
  <2>3. CASE ~ (q = p /\ j = i /\ m = n)
    <3>1. attempts'[<<q, j, m>>] = attempts[<<q, j, m>>]
      BY <1>2, <2>3 DEF WritesAttempt
    <3> QED BY <1>7, <2>1, <3>1 DEF StepsAgree, ChainIntact
  <2> QED BY <2>2, <2>3
<1>9. MergedPrefix'
  <2> SUFFICES ASSUME NEW q \in Packets, NEW j \in Positions, NEW m \in Tries,
                      attempts'[<<q, j, m>>].state # "none",
                      NEW k \in Positions, k < j
      PROVE  steps'[<<q, k>>].state = "confirmed"
    BY DEF MergedPrefix
  <2>1. CASE q = p /\ j = i /\ m = n
    <3>1. j # 1 /\ j - 1 \in Positions
      BY PositionFacts
    <3>2. steps[<<p, i - 1>>].state = "confirmed"
      BY <1>3, <2>1, <3>1 DEF BaseReady
    <3>3. \E l \in Tries : attempts[<<p, i - 1, l>>].state = "confirmed"
      BY <2>1, <3>1, <3>2 DEF StepsAgree, AttemptsAgree, StepAgrees
    <3>4. k = i - 1 \/ k < i - 1
      BY <2>1, PositionFacts
    <3>5. steps[<<p, k>>].state = "confirmed"
      BY <2>1, <3>1, <3>2, <3>3, <3>4 DEF StepsAgree, MergedPrefix
    <3> QED BY <1>7, <2>1, <3>5
  <2>2. CASE ~ (q = p /\ j = i /\ m = n)
    <3>1. attempts'[<<q, j, m>>] = attempts[<<q, j, m>>]
      BY <1>2, <2>2 DEF WritesAttempt
    <3> QED BY <1>7, <3>1 DEF StepsAgree, MergedPrefix
  <2> QED BY <2>1, <2>2
<1> QED BY <1>6, <1>8, <1>9 DEF StepsAgree

LEMMA AgreeEnds ==
  ASSUME ReleaseTypeOK, StepsAgree, NEW p \in Packets, NEW i \in Positions,
         NEW n \in Tries, NEW a, NEW s, <<a, s>> \in Endings, NEW merge,
         Ends(p, i, n, a, s, merge)
  PROVE  StepsAgree'
<1> DEFINE x == [state |-> a, at |-> attempts[<<p, i, n>>].at,
                 base |-> attempts[<<p, i, n>>].base]
           y == [state |-> s, active |-> 0, merge |-> merge]
<1>1. /\ WritesAttempt(p, i, n, x) /\ x.state = a
      /\ x.base = attempts[<<p, i, n>>].base
      /\ WritesStep(p, i, y) /\ y.state = s /\ y.active = 0
  BY DEF Ends
<1>2. /\ steps[<<p, i>>].state = "mutation_pending" /\ steps[<<p, i>>].active = n
      /\ attempts[<<p, i, n>>].state = "pending"
  BY DEF Ends, ActiveAttempt
<1> HIDE DEF x, y
<1>3. Tries = {1, 2}
  BY DEF Tries
<1>4. /\ a \in {"confirmed", "absent", "indeterminate"}
      /\ s \in {"confirmed", "pending", "indeterminate"}
      /\ a = "confirmed" <=> s = "confirmed"
  BY DEF Endings
<1>5. \A q \in Packets, j \in Positions :
        steps[<<q, j>>].state = "confirmed" => steps'[<<q, j>>] = steps[<<q, j>>]
  BY <1>1, <1>2 DEF WritesStep
<1>6. \A q \in Packets, j \in Positions, m \in Tries :
        /\ attempts'[<<q, j, m>>].base = attempts[<<q, j, m>>].base
        /\ attempts'[<<q, j, m>>].state # "none" => attempts[<<q, j, m>>].state # "none"
  BY <1>1, <1>2 DEF WritesAttempt
<1>7. AttemptsAgree'
  <2> SUFFICES ASSUME NEW q \in Packets, NEW j \in Positions
      PROVE  StepAgrees(q, j)'
    BY DEF AttemptsAgree
  <2>1. CASE q = p /\ j = i
    <3>1. steps'[<<q, j>>] = y
      BY <1>1, <2>1 DEF WritesStep
    <3>2. \A m \in Tries : attempts'[<<q, j, m>>] =
            IF m = n THEN x ELSE attempts[<<p, i, m>>]
      BY <1>1, <2>1 DEF WritesAttempt
    <3>3. StepAgrees(p, i)
      BY DEF StepsAgree, AttemptsAgree
    <3>4. \A m \in Tries : m # n => /\ attempts[<<p, i, m>>].state # "confirmed"
                                    /\ attempts[<<p, i, m>>].state # "pending"
      BY <1>2, <3>3 DEF StepAgrees
    <3>5. /\ n = 2 => attempts[<<p, i, 1>>].state = "absent"
          /\ n = 1 => attempts[<<p, i, 2>>].state = "none"
      BY <1>2, <1>3, <3>3 DEF StepAgrees
    <3>6. \A m \in Tries : attempts'[<<q, j, m>>].state # "pending"
      BY <1>1, <1>4, <3>2, <3>4
    <3>7. 0 \notin Tries
      BY <1>3
    <3>8. \A m \in Tries : attempts'[<<q, j, m>>].state = "confirmed" => s = "confirmed"
      BY <1>1, <1>4, <3>2, <3>4
    <3>9. s = "confirmed" => attempts'[<<q, j, n>>].state = "confirmed"
      BY <1>1, <1>4, <3>2
    <3>10. attempts'[<<q, j, 2>>].state # "none" => attempts'[<<q, j, 1>>].state = "absent"
      BY <1>3, <3>2, <3>5
    <3> QED BY <1>1, <1>4, <3>1, <3>6, <3>7, <3>8, <3>9, <3>10 DEF StepAgrees
  <2>2. CASE ~ (q = p /\ j = i)
    <3>1. /\ steps'[<<q, j>>] = steps[<<q, j>>]
          /\ \A m \in Tries : attempts'[<<q, j, m>>] = attempts[<<q, j, m>>]
      BY <1>1, <2>2 DEF WritesStep, WritesAttempt
    <3> QED BY <1>3, <3>1 DEF StepsAgree, AttemptsAgree, StepAgrees
  <2> QED BY <2>1, <2>2
<1>8. ChainIntact'
  <2>1. \A j \in Positions : j # 1 => j - 1 \in Positions
    BY PositionFacts
  <2> QED BY <1>5, <1>6, <2>1 DEF StepsAgree, ChainIntact
<1>9. MergedPrefix'
  BY <1>5, <1>6 DEF StepsAgree, MergedPrefix
<1> QED BY <1>7, <1>8, <1>9 DEF StepsAgree

LEMMA AgreeStops ==
  ASSUME ReleaseTypeOK, StepsAgree, NEW p \in Packets, NEW i \in Positions,
         NEW s \in {"rejected", "indeterminate"}, StopStep(p, i, s)
  PROVE  StepsAgree'
<1> DEFINE y == [state |-> s, active |-> 0, merge |-> NoCommit]
<1>1. /\ steps[<<p, i>>].state = "pending" /\ attempts' = attempts
      /\ WritesStep(p, i, y) /\ y.state = s /\ y.active = 0
  BY StopWrites
<1> HIDE DEF y
<1>2. \A q \in Packets, j \in Positions :
        steps[<<q, j>>].state = "confirmed" => steps'[<<q, j>>] = steps[<<q, j>>]
  BY <1>1 DEF WritesStep
<1>3. AttemptsAgree'
  <2> SUFFICES ASSUME NEW q \in Packets, NEW j \in Positions
      PROVE  StepAgrees(q, j)'
    BY DEF AttemptsAgree
  <2>1. StepAgrees(q, j)
    BY DEF StepsAgree, AttemptsAgree
  <2>2. CASE q = p /\ j = i
    <3>1. steps'[<<q, j>>] = y
      BY <1>1, <2>2 DEF WritesStep
    <3> QED BY <1>1, <2>1, <2>2, <3>1 DEF StepAgrees
  <2>3. CASE ~ (q = p /\ j = i)
    <3>1. steps'[<<q, j>>] = steps[<<q, j>>]
      BY <1>1, <2>3 DEF WritesStep
    <3> QED BY <1>1, <2>1, <3>1 DEF StepAgrees
  <2> QED BY <2>2, <2>3
<1>4. ChainIntact'
  <2>1. \A j \in Positions : j # 1 => j - 1 \in Positions
    BY PositionFacts
  <2> QED BY <1>1, <1>2, <2>1 DEF StepsAgree, ChainIntact
<1>5. MergedPrefix'
  BY <1>1, <1>2 DEF StepsAgree, MergedPrefix
<1> QED BY <1>3, <1>4, <1>5 DEF StepsAgree

LEMMA AgreeStep ==
  ASSUME ReleaseTypeOK, StepsAgree, ReleaseNext
  PROVE  StepsAgree'
<1>1. CASE Concludes
  <2>1. PICK p \in Packets, i \in Positions, n \in Tries, e \in Endings,
             merge \in Commits \cup {NoCommit} :
               Ends(p, i, n, e[1], e[2], merge)
    BY <1>1 DEF Concludes
  <2>2. <<e[1], e[2]>> \in Endings
    BY DEF Endings
  <2> QED BY <2>1, <2>2, AgreeEnds
<1>2. CASE Stops
  BY <1>2, AgreeStops DEF Stops
<1>3. CASE steps' = steps /\ attempts' = attempts
  BY <1>3 DEF StepsAgree, AttemptsAgree, StepAgrees, ChainIntact, MergedPrefix
<1>4. CASE Reports \/ Breaks \/ \E p \in Packets, t \in Times : Reserve(p, t)
  BY <1>3, <1>4 DEF Reports, TerminalizeBundle, Breaks, Reserve
<1> QED BY <1>1, <1>2, <1>4, AgreeBegins, StepKinds

-----------------------------------------------------------------------------
(* Receipts *)

LEMMA StepsInFacts ==
  ASSUME NEW p \in Packets, NEW states
  PROVE  /\ StepsIn(p, states) \subseteq 1 .. Order[p].size
         /\ IsFiniteSet(StepsIn(p, states))
         /\ Cardinality(StepsIn(p, states)) = Order[p].size =>
              StepsIn(p, states) = 1 .. Order[p].size
         /\ Cardinality(StepsIn(p, states)) = 0 <=> StepsIn(p, states) = {}
<1> DEFINE S == StepsIn(p, states)
           k == Order[p].size
<1>1. k \in Nat /\ k >= 1
  BY OrderFields
<1>2. S \subseteq 1 .. k
  BY <1>1, PositionFacts DEF StepsIn
<1> HIDE DEF S, k
<1>3. IsFiniteSet(1 .. k) /\ Cardinality(1 .. k) = k
  BY <1>1, FS_Interval
<1>4. IsFiniteSet(S) /\ (Cardinality(S) = Cardinality(1 .. k) => S = 1 .. k)
  BY <1>2, <1>3, FS_Subset
<1>5. Cardinality(S) = 0 <=> S = {}
  BY <1>4, FS_EmptySet
<1> QED BY <1>2, <1>3, <1>4, <1>5 DEF S, k

(* ReceiptTrue of one packet.                                                 *)
ReceiptTrueOf(p) ==
  /\ bundles[p] = "succeeded" => StepsIn(p, {"confirmed"}) = 1 .. Order[p].size
  /\ bundles[p] = "rejected" => StepsIn(p, {"confirmed"}) = {}
  /\ bundles[p] = "partial" => StepsIn(p, {"confirmed"}) # {}
  /\ bundles[p] = "indeterminate" => StepsIn(p, {"indeterminate"}) # {}
  /\ bundles[p] \in Outcomes => StepsIn(p, {"mutation_pending"}) = {}

LEMMA ReceiptByPacket ==
  /\ ReceiptTrue <=> \A p \in Packets : ReceiptTrueOf(p)
  /\ ReceiptTrue' <=> \A p \in Packets : ReceiptTrueOf(p)'
BY DEF ReceiptTrue, ReceiptTrueOf

(* A packet whose bundle and steps are untouched keeps its receipt.           *)
LEMMA ReceiptUntouched ==
  ASSUME NEW p \in Packets, ReceiptTrueOf(p), bundles'[p] = bundles[p],
         \A i \in Positions : steps'[<<p, i>>] = steps[<<p, i>>]
  PROVE  ReceiptTrueOf(p)'
<1>1. \A states : StepsIn(p, states)' = StepsIn(p, states)
  BY DEF StepsIn
<1> QED BY <1>1 DEF ReceiptTrueOf

LEMMA ReceiptStep ==
  ASSUME ReleaseTypeOK, RowsTogether, ReceiptTrue, ReleaseNext
  PROVE  ReceiptTrue'
<1> SUFFICES ASSUME NEW q \in Packets PROVE ReceiptTrueOf(q)'
  BY ReceiptByPacket
<1>0. ReceiptTrueOf(q)
  BY ReceiptByPacket
<1>1. ASSUME NEW p \in Packets, NEW t \in Times, Reserve(p, t)
      PROVE  ReceiptTrueOf(q)'
  <2>1. CASE q = p
    <3>1. bundles'[q] = "reserved"
      BY <1>1, <2>1 DEF Reserve, ReleaseTypeOK
    <3> QED BY <3>1 DEF ReceiptTrueOf, Outcomes
  <2>2. CASE q # p
    BY <1>0, <1>1, <2>2, ReceiptUntouched DEF Reserve, ReleaseTypeOK
  <2> QED BY <2>1, <2>2
<1>2. ASSUME NEW p \in Packets, NEW i \in Positions, NEW base \in Commits,
             NEW t \in Times, BeginMutation(p, i, base, t)
      PROVE  ReceiptTrueOf(q)'
  <2>1. PICK n \in Tries : Begins(p, i, n, base, t)
    BY <1>2, BeginsWrites
  <2>2. CASE q = p
    <3>1. bundles'[q] = "executing"
      BY <2>1, <2>2 DEF Begins, ReleaseTypeOK
    <3> QED BY <3>1 DEF ReceiptTrueOf, Outcomes
  <2>3. CASE q # p
    BY <1>0, <2>1, <2>3, ReceiptUntouched DEF Begins, WritesStep, ReleaseTypeOK
  <2> QED BY <2>2, <2>3
<1>3. CASE Concludes
  <2>1. PICK p \in Packets, i \in Positions, n \in Tries, e \in Endings,
             merge \in Commits \cup {NoCommit} :
               IsStep(p, i) /\ Ends(p, i, n, e[1], e[2], merge)
    BY <1>3 DEF Concludes
  <2>2. CASE q = p
    <3>1. i \in StepsIn(p, {"mutation_pending"})
      BY <2>1 DEF IsStep, Ends, ActiveAttempt, StepsIn
    <3>2. bundles'[q] \notin Outcomes
      BY <1>0, <2>1, <2>2, <3>1 DEF ReceiptTrueOf, Ends
    <3> QED BY <3>2 DEF ReceiptTrueOf, Outcomes
  <2>3. CASE q # p
    BY <1>0, <2>1, <2>3, ReceiptUntouched DEF Ends, WritesStep
  <2> QED BY <2>2, <2>3
<1>4. CASE Stops
  <2>1. PICK p \in Packets, i \in Positions, s \in {"rejected", "indeterminate"} :
          StopStep(p, i, s)
    BY <1>4 DEF Stops
  <2>2. /\ steps[<<p, i>>].state = "pending"
        /\ WritesStep(p, i, [state |-> s, active |-> 0, merge |-> NoCommit])
        /\ bundles' = bundles
    BY <2>1, StopWrites
  <2>3. \A j \in Positions : \/ steps'[<<q, j>>].state = steps[<<q, j>>].state
                             \/ /\ steps[<<q, j>>].state = "pending"
                                /\ steps'[<<q, j>>].state = s
    <3> TAKE j \in Positions
    <3>1. CASE q = p /\ j = i
      BY <2>2, <3>1 DEF WritesStep
    <3>2. CASE ~ (q = p /\ j = i)
      BY <2>2, <3>2 DEF WritesStep
    <3> QED BY <3>1, <3>2
  <2>4. /\ StepsIn(q, {"confirmed"})' = StepsIn(q, {"confirmed"})
        /\ StepsIn(q, {"mutation_pending"})' = StepsIn(q, {"mutation_pending"})
    BY <2>3 DEF StepsIn
  <2>5. StepsIn(q, {"indeterminate"}) \subseteq StepsIn(q, {"indeterminate"})'
    BY <2>3 DEF StepsIn
  <2> QED BY <1>0, <2>2, <2>4, <2>5 DEF ReceiptTrueOf
<1>5. CASE Reports
  <2>1. PICK p \in Packets, outcome \in Outcomes, mode \in Modes :
          TerminalizeBundle(p, outcome, mode)
    BY <1>5 DEF Reports
  <2>2. CASE q = p
    <3>1. bundles'[q] = outcome /\ steps' = steps /\ OutcomeAllowed(q, outcome)
      BY <2>1, <2>2 DEF TerminalizeBundle, ReleaseTypeOK
    <3>2. \A states : StepsIn(q, states)' = StepsIn(q, states)
      BY <3>1 DEF StepsIn
    <3>3. outcome = "succeeded" => StepsIn(q, {"confirmed"}) = 1 .. Order[q].size
      BY <3>1, StepsInFacts DEF OutcomeAllowed
    <3>4. /\ outcome = "rejected" => StepsIn(q, {"confirmed"}) = {}
          /\ outcome = "partial" => StepsIn(q, {"confirmed"}) # {}
      BY <3>1, StepsInFacts DEF OutcomeAllowed
    <3>5. /\ outcome = "indeterminate" => StepsIn(q, {"indeterminate"}) # {}
          /\ StepsIn(q, {"mutation_pending"}) = {}
      BY <3>1 DEF OutcomeAllowed
    <3> QED BY <3>1, <3>2, <3>3, <3>4, <3>5 DEF ReceiptTrueOf
  <2>3. CASE q # p
    BY <1>0, <2>1, <2>3, ReceiptUntouched DEF TerminalizeBundle, ReleaseTypeOK
  <2> QED BY <2>2, <2>3
<1>6. CASE Breaks
  BY <1>0, <1>6, ReceiptUntouched DEF Breaks
<1> QED BY <1>1, <1>2, <1>3, <1>4, <1>5, <1>6, StepKinds

-----------------------------------------------------------------------------
(* Budgets *)

Rows == Packets \X Positions \X Tries

LEMMA RowsFinite == IsFiniteSet(Rows)
<1> DEFINE Pairs == Packets \X Positions
           f == [x \in Pairs \X Tries |-> <<x[1][1], x[1][2], x[2]>>]
<1>1. IsFiniteSet(Positions) /\ IsFiniteSet(Tries)
  <2>1. MaxPRs \in Int /\ 1 \in Int /\ 2 \in Int
    BY ReleaseLimitAssumption
  <2>2. IsFiniteSet(1 .. MaxPRs)
    BY <2>1, FS_Interval
  <2>3. IsFiniteSet(1 .. 2)
    BY <2>1, FS_Interval
  <2> QED BY <2>2, <2>3 DEF Positions, Tries
<1>2. IsFiniteSet(Pairs)
  BY <1>1, FS_Product, OrderAssumption
<1> HIDE DEF Pairs
<1>3. IsFiniteSet(Pairs \X Tries)
  BY <1>1, <1>2, FS_Product
<1>4. f \in Surjection(Pairs \X Tries, Rows)
  <2>1. f \in [Pairs \X Tries -> Rows]
    BY DEF Pairs, Rows
  <2>2. ASSUME NEW r \in Rows PROVE \E x \in Pairs \X Tries : f[x] = r
    <3>1. PICK p \in Packets, i \in Positions, n \in Tries : r = <<p, i, n>>
      BY DEF Rows
    <3>2. <<<<p, i>>, n>> \in Pairs \X Tries
      BY DEF Pairs
    <3>3. f[<<<<p, i>>, n>>] = r
      BY <3>1, <3>2
    <3> QED BY <3>2, <3>3
  <2> QED BY <2>1, <2>2 DEF Surjection
<1> QED BY <1>3, <1>4, FS_Surjection

(* Subsets of the attempt rows are finite, and one more row counts one.       *)
LEMMA CountGrows ==
  ASSUME NEW A, NEW B, NEW x, A \subseteq Rows, B \subseteq A \cup {x}
  PROVE  /\ IsFiniteSet(A) /\ Cardinality(A) \in Nat /\ Cardinality(B) \in Nat
         /\ Cardinality(B) <= Cardinality(A) + 1
         /\ B \subseteq A => Cardinality(B) <= Cardinality(A)
<1>1. IsFiniteSet(A)
  BY RowsFinite, FS_Subset
<1>2. /\ IsFiniteSet(A \cup {x}) /\ Cardinality(A) \in Nat
      /\ Cardinality(A \cup {x}) \in Nat
      /\ Cardinality(A \cup {x}) <= Cardinality(A) + 1
  BY <1>1, FS_AddElement, FS_CardinalityType
<1>3. /\ IsFiniteSet(B) /\ Cardinality(B) \in Nat
      /\ Cardinality(B) <= Cardinality(A \cup {x})
  BY <1>2, FS_Subset, FS_CardinalityType
<1>4. ASSUME B \subseteq A PROVE Cardinality(B) <= Cardinality(A)
  BY <1>1, <1>4, FS_Subset
<1> QED BY <1>1, <1>2, <1>3, <1>4

(* The days a step adds an attempt to: none, but the day of begin_mutation.   *)
LEMMA CountStep ==
  ASSUME ReleaseTypeOK, ReleaseNext, NEW S, "pending" \in S, "none" \notin S, NEW d
  PROVE  \/ AttemptsOn(d, S)' \subseteq AttemptsOn(d, S)
         \/ /\ \E x : AttemptsOn(d, S)' \subseteq AttemptsOn(d, S) \cup {x}
            /\ \E t \in Times : d = Day(t) /\ AttemptBudgetLeft(t)
<1>1. CASE Concludes
  <2>1. PICK p \in Packets, i \in Positions, n \in Tries, e \in Endings,
             merge \in Commits \cup {NoCommit} :
               Ends(p, i, n, e[1], e[2], merge)
    BY <1>1 DEF Concludes
  <2>2. attempts[<<p, i, n>>].state \in S
    BY <2>1 DEF Ends, ActiveAttempt
  <2>3. ASSUME NEW s \in AttemptsOn(d, S)' PROVE s \in AttemptsOn(d, S)
    <3>1. PICK q \in Packets, j \in Positions, m \in Tries : s = <<q, j, m>>
      BY <2>3 DEF AttemptsOn
    <3>2. attempts'[s].state \in S /\ Day(attempts'[s].at) = d
      BY <2>3 DEF AttemptsOn, Day
    <3>3. CASE q = p /\ j = i /\ m = n
      <4>1. attempts'[s].at = attempts[s].at
        BY <2>1, <3>1, <3>3 DEF Ends, WritesAttempt
      <4> QED BY <2>2, <3>1, <3>2, <3>3, <4>1 DEF AttemptsOn
    <3>4. CASE ~ (q = p /\ j = i /\ m = n)
      <4>1. attempts'[s] = attempts[s]
        BY <2>1, <3>1, <3>4 DEF Ends, WritesAttempt
      <4> QED BY <3>1, <3>2, <4>1 DEF AttemptsOn
    <3> QED BY <3>3, <3>4
  <2> QED BY <2>3
<1>2. CASE attempts' = attempts
  BY <1>2 DEF AttemptsOn, Day
<1>3. ASSUME NEW p \in Packets, NEW i \in Positions, NEW base \in Commits,
             NEW t \in Times, BeginMutation(p, i, base, t)
      PROVE  \/ AttemptsOn(d, S)' \subseteq AttemptsOn(d, S)
             \/ /\ \E x : AttemptsOn(d, S)' \subseteq AttemptsOn(d, S) \cup {x}
                /\ d = Day(t) /\ AttemptBudgetLeft(t)
  <2>1. PICK n \in Tries : Begins(p, i, n, base, t)
    BY <1>3, BeginsWrites
  <2>2. ASSUME NEW s \in AttemptsOn(d, S)', s \notin AttemptsOn(d, S)
        PROVE  s = <<p, i, n>> /\ d = Day(t)
    <3>1. PICK q \in Packets, j \in Positions, m \in Tries : s = <<q, j, m>>
      BY <2>2 DEF AttemptsOn
    <3>2. attempts'[s].state \in S /\ Day(attempts'[s].at) = d
      BY <2>2 DEF AttemptsOn, Day
    <3>3. q = p /\ j = i /\ m = n
      <4>1. SUFFICES ASSUME ~ (q = p /\ j = i /\ m = n) PROVE FALSE
        OBVIOUS
      <4>2. attempts'[s] = attempts[s]
        BY <2>1, <3>1, <4>1 DEF Begins, WritesAttempt
      <4> QED BY <2>2, <3>1, <3>2, <4>2 DEF AttemptsOn
    <3>4. attempts'[s].at = t
      BY <2>1, <3>1, <3>3 DEF Begins, WritesAttempt
    <3> QED BY <3>1, <3>2, <3>3, <3>4
  <2>3. AttemptsOn(d, S)' \subseteq AttemptsOn(d, S) \cup {<<p, i, n>>}
    BY <2>2
  <2>4. AttemptBudgetLeft(t)
    BY <1>3 DEF BeginMutation
  <2> QED BY <2>2, <2>3, <2>4
<1>4. CASE Stops \/ Breaks \/ Reports
  BY <1>2, <1>4 DEF Stops, StopStep, Breaks, Reports, TerminalizeBundle
<1>5. ASSUME NEW p \in Packets, NEW t \in Times, Reserve(p, t)
      PROVE  attempts' = attempts
  BY <1>5 DEF Reserve
<1> QED BY <1>1, <1>2, <1>3, <1>4, <1>5, StepKinds

LEMMA BudgetStep ==
  ASSUME ReleaseTypeOK, ReleaseBudgetRespected, ReleaseNext
  PROVE  ReleaseBudgetRespected'
<1> SUFFICES ASSUME NEW t \in Times
    PROVE  /\ Cardinality(AttemptsOn(Day(t), Charged)') <= AttemptsPerDay
           /\ Cardinality(AttemptsOn(Day(t), {"confirmed", "pending"})') <= MergesPerDay
  BY DEF ReleaseBudgetRespected, Charged, Day
<1> DEFINE A(S) == AttemptsOn(Day(t), S)
           Live == {"confirmed", "pending"}
<1>0. AttemptsPerDay \in Nat /\ MergesPerDay \in Nat
  BY ReleaseLimitAssumption
<1>1. \A S : A(S) \subseteq Rows
  BY DEF AttemptsOn, Rows
<1>2. /\ Cardinality(A(Charged)) <= AttemptsPerDay
      /\ Cardinality(A(Live)) <= MergesPerDay
  BY DEF ReleaseBudgetRespected
<1>3. ASSUME NEW u \in Times, Day(t) = Day(u), AttemptBudgetLeft(u)
      PROVE  /\ Cardinality(A(Charged)) < AttemptsPerDay
             /\ Cardinality(A(Live)) < MergesPerDay
  BY <1>3 DEF AttemptBudgetLeft
<1>4. "pending" \in Charged /\ "none" \notin Charged /\ "pending" \in Live /\ "none" \notin Live
  BY DEF Charged
<1>5. ASSUME NEW S, NEW limit \in Nat, "pending" \in S, "none" \notin S,
             Cardinality(A(S)) <= limit,
             \A u \in Times : Day(t) = Day(u) /\ AttemptBudgetLeft(u) =>
                                Cardinality(A(S)) < limit
      PROVE  Cardinality(AttemptsOn(Day(t), S)') <= limit
  <2> DEFINE B == AttemptsOn(Day(t), S)'
  <2>1. CASE B \subseteq A(S)
    <3>1. B \subseteq A(S) \cup {0}
      BY <2>1
    <3>2. /\ Cardinality(A(S)) \in Nat /\ Cardinality(B) \in Nat
          /\ Cardinality(B) <= Cardinality(A(S))
      BY <1>1, <2>1, <3>1, CountGrows
    <3>3. Cardinality(B) <= limit
      <4> HIDE DEF A, B
      <4> QED BY <1>5, <3>2
    <3> QED BY <3>3
  <2>2. CASE /\ \E x : B \subseteq A(S) \cup {x}
             /\ \E u \in Times : Day(t) = Day(u) /\ AttemptBudgetLeft(u)
    <3>1. PICK x : B \subseteq A(S) \cup {x}
      BY <2>2
    <3>2. /\ Cardinality(A(S)) \in Nat /\ Cardinality(B) \in Nat
          /\ Cardinality(B) <= Cardinality(A(S)) + 1
      BY <1>1, <3>1, CountGrows
    <3>3. Cardinality(A(S)) < limit
      BY <1>5, <2>2
    <3>4. Cardinality(B) <= limit
      <4> HIDE DEF A, B
      <4> QED BY <1>5, <3>2, <3>3
    <3> QED BY <3>4
  <2> QED BY <1>5, <2>1, <2>2, CountStep
<1> HIDE DEF A
<1>6. Cardinality(AttemptsOn(Day(t), Charged)') <= AttemptsPerDay
  BY <1>0, <1>2, <1>3, <1>4, <1>5
<1>7. Cardinality(AttemptsOn(Day(t), Live)') <= MergesPerDay
  BY <1>0, <1>2, <1>3, <1>4, <1>5
<1> QED BY <1>6, <1>7

-----------------------------------------------------------------------------
(* The invariant *)

LEMMA InvStep ==
  ASSUME ReleaseInv, ReceiptTrue, ReleaseNext
  PROVE  ReleaseInv' /\ ReceiptTrue'
<1>1. /\ ReleaseTypeOK /\ RowsTogether /\ StepsAgree /\ NothingReused
      /\ ReleaseBudgetRespected /\ ClosedBelowLimit
  BY DEF ReleaseInv, StepsAgree
<1>2. /\ ReleaseTypeOK' /\ RowsTogether' /\ StepsAgree' /\ NothingReused'
      /\ ReleaseBudgetRespected' /\ ClosedBelowLimit' /\ ReceiptTrue'
  BY <1>1, TypeStep, RowsStep, AgreeStep, ReuseStep, BudgetStep, CircuitTypeStep,
     ReceiptStep
<1> QED BY <1>2 DEF ReleaseInv, StepsAgree

LEMMA InvStutter ==
  ASSUME ReleaseInv, ReceiptTrue, UNCHANGED releaseVars
  PROVE  ReleaseInv' /\ ReceiptTrue'
<1>1. /\ accepted' = accepted /\ bundles' = bundles /\ steps' = steps
      /\ attempts' = attempts /\ circuit' = circuit
  BY DEF releaseVars
<1>2. ReleaseTypeOK' /\ RowsTogether' /\ NothingReused' /\ ClosedBelowLimit'
  BY <1>1 DEF ReleaseInv, ReleaseTypeOK, RowsTogether, NothingReused, ClosedBelowLimit
<1>3. AttemptsAgree' /\ ChainIntact' /\ MergedPrefix'
  <2>1. \A p \in Packets, i \in Positions : StepAgrees(p, i)' <=> StepAgrees(p, i)
    BY <1>1 DEF StepAgrees
  <2>2. AttemptsAgree'
    BY <2>1 DEF ReleaseInv, AttemptsAgree
  <2> QED BY <1>1, <2>2 DEF ReleaseInv, ChainIntact, MergedPrefix
<1>4. ReleaseBudgetRespected'
  BY <1>1 DEF ReleaseInv, ReleaseBudgetRespected, AttemptsOn, Day, Charged
<1>5. ReceiptTrue'
  BY <1>1, ReceiptByPacket, ReceiptUntouched
<1> QED BY <1>2, <1>3, <1>4, <1>5 DEF ReleaseInv

LEMMA InvInit ==
  ASSUME ReleaseInit
  PROVE  ReleaseInv /\ ReceiptTrue
<1>1. NewStep \in StepRow /\ NoAttempt \in AttemptRow /\ ClosedCircuit \in CircuitRow
  BY DEF NewStep, StepRow, StepStates, NoAttempt, AttemptRow, AttemptStates,
     ClosedCircuit, CircuitRow
<1>2. ReleaseTypeOK
  BY <1>1 DEF ReleaseInit, ReleaseTypeOK, BundleStates
<1>3. \A p \in Packets : accepted[p] = Never /\ bundles[p] = "none"
  BY DEF ReleaseInit
<1>4. \A p \in Packets, i \in Positions :
        steps[<<p, i>>].state = "pending" /\ steps[<<p, i>>].active = 0
  BY DEF ReleaseInit, NewStep
<1>5. \A s \in Packets \X Positions \X Tries : attempts[s].state = "none"
  BY DEF ReleaseInit, NoAttempt
<1>6. \A p \in Packets, i \in Positions, n \in Tries :
        attempts[<<p, i, n>>].state = "none"
  BY <1>5
<1>7. RowsTogether /\ NothingReused
  BY <1>3 DEF RowsTogether, NothingReused
<1>8. AttemptsAgree /\ ChainIntact /\ MergedPrefix
  <2>1. Tries = {1, 2}
    BY DEF Tries
  <2>2. ASSUME NEW p \in Packets, NEW i \in Positions PROVE StepAgrees(p, i)
    BY <1>4, <1>6, <2>1 DEF StepAgrees
  <2> QED BY <1>6, <2>2 DEF AttemptsAgree, ChainIntact, MergedPrefix
<1>9. ReleaseBudgetRespected
  <2>1. \A d : AttemptsOn(d, Charged) = {} /\ AttemptsOn(d, {"confirmed", "pending"}) = {}
    BY <1>5 DEF AttemptsOn, Charged
  <2>2. Cardinality({}) = 0 /\ AttemptsPerDay \in Nat /\ MergesPerDay \in Nat
    BY FS_EmptySet, ReleaseLimitAssumption
  <2> QED BY <2>1, <2>2 DEF ReleaseBudgetRespected
<1>10. ClosedBelowLimit
  BY ReleaseLimitAssumption DEF ReleaseInit, ClosedBelowLimit, ClosedCircuit
<1>11. ReceiptTrue
  BY <1>3 DEF ReceiptTrue, Outcomes
<1> QED BY <1>2, <1>7, <1>8, <1>9, <1>10, <1>11 DEF ReleaseInv

(* ReleaseInv for every instance: after any sequence of calls on the release  *)
(* store, attempts agree with their steps, a bundle's bases form a chain over *)
(* a confirmed prefix, nothing serves twice, no day exceeds its limits, and   *)
(* no circuit stays closed at its limit (reserve, begin_mutation,             *)
(* confirm_step, record_recovery, stop_step, terminalize_bundle).             *)
THEOREM ReleaseInvariant == ReleaseStoreSpec => []ReleaseInv
<1> DEFINE Inv == ReleaseInv /\ ReceiptTrue
<1>1. ReleaseInit => Inv
  BY InvInit
<1>2. Inv /\ [ReleaseNext]_releaseVars => Inv'
  BY InvStep, InvStutter
<1> QED BY <1>1, <1>2, PTL DEF ReleaseStoreSpec

(* ReceiptTrue for every instance: what a bundle was reported to be stays     *)
(* true of its steps (terminalize_bundle, stop_step).                         *)
THEOREM ReceiptsStayTrue == ReleaseStoreSpec => []ReceiptTrue
<1> DEFINE Inv == ReleaseInv /\ ReceiptTrue
<1>1. ReleaseInit => Inv
  BY InvInit
<1>2. Inv /\ [ReleaseNext]_releaseVars => Inv'
  BY InvStep, InvStutter
<1> QED BY <1>1, <1>2, PTL DEF ReleaseStoreSpec

-----------------------------------------------------------------------------
(* Steps *)

(* ReleaseDurable of one step. *)
DurableStep ==
  /\ \A p \in Packets : bundles[p] \in Outcomes => bundles'[p] = bundles[p]
  /\ \A s \in Packets \X Positions :
       steps[s].state = "confirmed" => steps'[s] = steps[s]
  /\ \A s \in Packets \X Positions \X Tries :
       /\ attempts[s].state \notin {"none", "pending"} => attempts'[s] = attempts[s]
       /\ attempts[s].state # "none" => attempts'[s].at = attempts[s].at

LEMMA DurableByRow ==
  ASSUME \A p \in Packets : bundles[p] \in Outcomes => bundles'[p] = bundles[p],
         \A p \in Packets, i \in Positions :
           steps[<<p, i>>].state = "confirmed" => steps'[<<p, i>>] = steps[<<p, i>>],
         \A p \in Packets, i \in Positions, n \in Tries :
           /\ attempts[<<p, i, n>>].state \notin {"none", "pending"} =>
                attempts'[<<p, i, n>>] = attempts[<<p, i, n>>]
           /\ attempts[<<p, i, n>>].state # "none" =>
                attempts'[<<p, i, n>>].at = attempts[<<p, i, n>>].at
  PROVE  DurableStep
BY DEF DurableStep

LEMMA DurableNext ==
  ASSUME ReleaseTypeOK, RowsTogether, ReleaseNext
  PROVE  DurableStep
<1>0. ActiveStates \cap Outcomes = {} /\ "none" \notin Outcomes
  BY DEF ActiveStates, Outcomes
<1>1. ASSUME NEW p \in Packets, NEW t \in Times, Reserve(p, t)
      PROVE  DurableStep
  <2>1. bundles[p] = "none"
    BY <1>1 DEF Reserve, CanReserve, Taken, RowsTogether
  <2>2. \A q \in Packets : bundles[q] \in Outcomes => bundles'[q] = bundles[q]
    BY <1>0, <1>1, <2>1 DEF Reserve, ReleaseTypeOK
  <2>3. steps' = steps /\ attempts' = attempts
    BY <1>1 DEF Reserve
  <2> QED BY <2>2, <2>3, DurableByRow
<1>2. ASSUME NEW p \in Packets, NEW i \in Positions, NEW base \in Commits,
             NEW t \in Times, BeginMutation(p, i, base, t)
      PROVE  DurableStep
  <2>1. PICK n \in Tries :
          /\ Begins(p, i, n, base, t)
          /\ n = 1 => \A m \in Tries : attempts[<<p, i, m>>].state = "none"
          /\ n = 2 => /\ attempts[<<p, i, 1>>].state = "absent"
                      /\ attempts[<<p, i, 2>>].state = "none"
    BY <1>2, BeginsWrites
  <2>2. /\ bundles[p] \in ActiveStates /\ steps[<<p, i>>].state = "pending"
        /\ attempts[<<p, i, n>>].state = "none"
    BY <1>2, <2>1 DEF BeginMutation, InWindow, MayBegin, Tries
  <2>3. \A q \in Packets : bundles[q] \in Outcomes => bundles'[q] = bundles[q]
    BY <1>0, <2>1, <2>2 DEF Begins, ReleaseTypeOK
  <2>4. \A q \in Packets, j \in Positions :
          steps[<<q, j>>].state = "confirmed" => steps'[<<q, j>>] = steps[<<q, j>>]
    BY <2>1, <2>2 DEF Begins, WritesStep
  <2>5. \A q \in Packets, j \in Positions, m \in Tries :
          attempts[<<q, j, m>>].state # "none" =>
            attempts'[<<q, j, m>>] = attempts[<<q, j, m>>]
    BY <2>1, <2>2 DEF Begins, WritesAttempt
  <2> QED BY <2>3, <2>4, <2>5, DurableByRow
<1>3. CASE Concludes
  <2>1. PICK p \in Packets, i \in Positions, n \in Tries, e \in Endings,
             merge \in Commits \cup {NoCommit} :
               Ends(p, i, n, e[1], e[2], merge)
    BY <1>3 DEF Concludes
  <2>2. /\ steps[<<p, i>>].state = "mutation_pending"
        /\ attempts[<<p, i, n>>].state = "pending"
    BY <2>1 DEF Ends, ActiveAttempt
  <2>3. \A q \in Packets, j \in Positions :
          steps[<<q, j>>].state = "confirmed" => steps'[<<q, j>>] = steps[<<q, j>>]
    BY <2>1, <2>2 DEF Ends, WritesStep
  <2>4. ASSUME NEW q \in Packets, NEW j \in Positions, NEW m \in Tries
        PROVE  /\ attempts[<<q, j, m>>].state \notin {"none", "pending"} =>
                    attempts'[<<q, j, m>>] = attempts[<<q, j, m>>]
               /\ attempts[<<q, j, m>>].state # "none" =>
                    attempts'[<<q, j, m>>].at = attempts[<<q, j, m>>].at
    <3>1. CASE q = p /\ j = i /\ m = n
      BY <2>1, <2>2, <3>1 DEF Ends, WritesAttempt
    <3>2. CASE ~ (q = p /\ j = i /\ m = n)
      BY <2>1, <3>2 DEF Ends, WritesAttempt
    <3> QED BY <3>1, <3>2
  <2>5. bundles' = bundles
    BY <2>1 DEF Ends
  <2> QED BY <2>3, <2>4, <2>5, DurableByRow
<1>4. CASE Stops
  <2>1. PICK p \in Packets, i \in Positions, s \in {"rejected", "indeterminate"} :
          StopStep(p, i, s)
    BY <1>4 DEF Stops
  <2>2. /\ steps[<<p, i>>].state = "pending" /\ bundles' = bundles
        /\ attempts' = attempts
        /\ WritesStep(p, i, [state |-> s, active |-> 0, merge |-> NoCommit])
    BY <2>1, StopWrites
  <2>3. \A q \in Packets, j \in Positions :
          steps[<<q, j>>].state = "confirmed" => steps'[<<q, j>>] = steps[<<q, j>>]
    BY <2>2 DEF WritesStep
  <2> QED BY <2>2, <2>3, DurableByRow
<1>5. CASE Reports
  <2>1. PICK p \in Packets, outcome \in Outcomes, mode \in Modes :
          TerminalizeBundle(p, outcome, mode)
    BY <1>5 DEF Reports
  <2>2. \A q \in Packets : bundles[q] \in Outcomes => bundles'[q] = bundles[q]
    BY <1>0, <2>1 DEF TerminalizeBundle, ReleaseTypeOK
  <2>3. steps' = steps /\ attempts' = attempts
    BY <2>1 DEF TerminalizeBundle
  <2> QED BY <2>2, <2>3, DurableByRow
<1>6. CASE Breaks
  BY <1>6, DurableByRow DEF Breaks
<1> QED BY <1>1, <1>2, <1>3, <1>4, <1>5, <1>6, StepKinds

(* ReleaseSteps for every instance: only a step that touches no packet,       *)
(* bundle, step or attempt closes an open circuit, and no call rewrites a     *)
(* receipt, a confirmed merge, an ended attempt or a charge                   *)
(* (_record_circuit_locked, close_circuit, terminalize_bundle,                *)
(* _confirm_step_locked).                                                     *)
THEOREM ReleaseStepsKept == ReleaseStoreSpec => ReleaseSteps
<1> DEFINE Closes == \A r \in Repos :
             circuit[r].open /\ ~ circuit'[r].open =>
               UNCHANGED <<accepted, bundles, steps, attempts>>
<1>1. ReleaseInv /\ [ReleaseNext]_releaseVars => [Closes]_releaseVars
  BY CircuitTypeStep DEF ReleaseInv, Breaks
<1>2. ReleaseInv /\ [ReleaseNext]_releaseVars => [DurableStep]_releaseVars
  BY DurableNext DEF ReleaseInv
<1>3. ReleaseStoreSpec => [][Closes]_releaseVars /\ [][DurableStep]_releaseVars
  BY <1>1, <1>2, ReleaseInvariant, PTL DEF ReleaseStoreSpec
<1> QED
  BY <1>3 DEF ReleaseSteps, PacketsCannotClose, ReleaseDurable, DurableStep

-----------------------------------------------------------------------------
(* The store keeps the promise *)

(* The sets of positions after one step row was written.                      *)
LEMMA StepsInWritten ==
  ASSUME NEW p \in Packets, NEW i \in Positions, NEW row, WritesStep(p, i, row),
         i <= Order[p].size, NEW states
  PROVE  /\ \A q \in Packets : q # p => StepsIn(q, states)' = StepsIn(q, states)
         /\ row.state \in states => StepsIn(p, states)' = StepsIn(p, states) \cup {i}
         /\ row.state \notin states => StepsIn(p, states)' = StepsIn(p, states) \ {i}
<1>1. \A q \in Packets : q # p => StepsIn(q, states)' = StepsIn(q, states)
  BY DEF StepsIn, WritesStep
<1>2. \A j \in Positions : j # i => steps'[<<p, j>>] = steps[<<p, j>>]
  BY DEF WritesStep
<1>3. steps'[<<p, i>>] = row
  BY DEF WritesStep
<1> QED BY <1>1, <1>2, <1>3 DEF StepsIn

(* The step under way is the only one of its bundle.                          *)
LEMMA OneUnderWay ==
  ASSUME ReleaseTypeOK, StepsAgree, NEW p \in Packets, NEW i \in Positions,
         NEW j \in Positions, steps[<<p, j>>].state = "mutation_pending",
         \/ steps[<<p, i>>].state = "mutation_pending"
         \/ /\ steps[<<p, i>>].state = "pending"
            /\ \A k \in Positions : k < i => steps[<<p, k>>].state = "confirmed"
  PROVE  i = j
<1> DEFINE Open(k) == steps[<<p, k>>].state = "mutation_pending"
<1>1. \A k \in Positions : Open(k) => \E n \in Tries : attempts[<<p, k, n>>].state # "none"
  <2> SUFFICES ASSUME NEW k \in Positions, Open(k)
      PROVE  \E n \in Tries : attempts[<<p, k, n>>].state # "none"
    OBVIOUS
  <2>1. StepAgrees(p, k) /\ steps[<<p, k>>].active \in Tries \cup {0}
    BY RowFields DEF StepsAgree, AttemptsAgree
  <2>2. steps[<<p, k>>].active \in Tries
    BY <2>1 DEF StepAgrees
  <2> QED BY <2>1, <2>2 DEF StepAgrees
<1>2. \A k \in Positions : Open(k) =>
        \A m \in Positions : m < k => steps[<<p, m>>].state = "confirmed"
  BY <1>1 DEF StepsAgree, MergedPrefix
<1>3. i \in Nat /\ j \in Nat
  BY PositionFacts
<1>4. ~ i < j
  BY <1>2
<1>5. ~ j < i
  BY <1>2
<1> QED BY <1>3, <1>4, <1>5

LEMMA PromiseStep ==
  ASSUME ReleaseInv, ReleaseNext
  PROVE  Promise!PromiseNext \/ UNCHANGED Promise!promiseVars
<1> DEFINE Size_ == [p \in Packets |-> Order[p].size]
           Repo_ == [p \in Packets |-> Order[p].repo]
           Phase == [p \in Packets |-> PhaseOf(bundles[p])]
           Merged == [p \in Packets |-> StepsIn(p, {"confirmed"})]
           Flying == [p \in Packets |-> StepsIn(p, {"mutation_pending"})]
<1>0. ReleaseTypeOK /\ RowsTogether /\ StepsAgree
  BY DEF ReleaseInv, StepsAgree
<1>1. ASSUME NEW p \in Packets, NEW t \in Times, Reserve(p, t)
      PROVE  Promise!Admit(p)
  <2>1. bundles[p] = "none" /\ \A q \in Packets :
          Order[q].repo = Order[p].repo => bundles[q] \notin ActiveStates
    BY <1>0, <1>1 DEF Reserve, CanReserve, RepositoryFree, Taken, RowsTogether, ActiveStates
  <2>2. Phase[p] = "new"
    BY <2>1 DEF PhaseOf
  <2>3. \A q \in Packets : Repo_[q] = Repo_[p] => Phase[q] # "active"
    <3>1. ASSUME NEW q \in Packets, bundles[q] \notin ActiveStates
          PROVE  PhaseOf(bundles[q]) # "active"
      BY <1>0, <3>1 DEF PhaseOf, ReleaseTypeOK, BundleStates, Outcomes
    <3> QED BY <2>1, <3>1
  <2>4. Phase' = [Phase EXCEPT ![p] = "active"]
    BY <1>0, <1>1 DEF Reserve, ReleaseTypeOK, PhaseOf, ActiveStates
  <2>5. Merged' = Merged /\ Flying' = Flying
    BY <1>1 DEF Reserve, StepsIn
  <2> QED BY <2>2, <2>3, <2>4, <2>5 DEF Promise!Admit
<1>2. ASSUME NEW p \in Packets, NEW i \in Positions, NEW base \in Commits,
             NEW t \in Times, BeginMutation(p, i, base, t)
      PROVE  i \in 1 .. Size_[p] /\ Promise!Attempt(p, i)
  <2>1. PICK n \in Tries : Begins(p, i, n, base, t)
    BY <1>0, <1>2, BeginsWrites
  <2> DEFINE row == [state |-> "mutation_pending", active |-> n, merge |-> NoCommit]
  <2>2. /\ bundles[p] \in ActiveStates /\ steps[<<p, i>>].state = "pending"
        /\ i <= Order[p].size /\ WritesStep(p, i, row) /\ row.state = "mutation_pending"
    BY <1>2, <2>1 DEF BeginMutation, InWindow, MayBegin, IsStep, Begins
  <2>3. \A k \in Positions : k < i => steps[<<p, k>>].state = "confirmed"
    <3>1. MergedPrefix'
      BY <1>0, <1>2, AgreeBegins DEF StepsAgree
    <3>2. attempts'[<<p, i, n>>].state # "none"
      BY <2>1 DEF Begins, WritesAttempt
    <3>3. \A k \in Positions : k < i => steps'[<<p, k>>].state = "confirmed"
      BY <3>1, <3>2 DEF MergedPrefix
    <3>4. \A k \in Positions : k < i => k # i
      BY PositionFacts
    <3> QED BY <2>2, <3>3, <3>4 DEF WritesStep
  <2>4. Flying[p] = {}
    <3>1. \A j \in Positions : steps[<<p, j>>].state = "mutation_pending" => i = j
      BY <1>0, <2>2, <2>3, OneUnderWay
    <3> QED BY <2>2, <3>1 DEF StepsIn
  <2>5. i \in 1 .. Size_[p] /\ i \in Nat /\ i >= 1
    BY <2>2, OrderFields, PositionFacts
  <2>6. i \notin Merged[p] /\ \A j \in 1 .. i - 1 : j \in Merged[p]
    <3>1. i \notin Merged[p]
      BY <2>2 DEF StepsIn
    <3>2. ASSUME NEW j \in 1 .. i - 1 PROVE j \in Merged[p]
      <4>1. j \in Nat /\ j >= 1 /\ j < i /\ j <= Order[p].size
        BY <2>2, <2>5, OrderFields
      <4>2. j \in Positions
        BY <2>5, <4>1, PositionFacts, ReleaseLimitAssumption
      <4> QED BY <2>3, <4>1, <4>2 DEF StepsIn
    <3> QED BY <3>1, <3>2
  <2> HIDE DEF row
  <2>7. Flying' = [Flying EXCEPT ![p] = {i}]
    <3>1. StepsIn(p, {"mutation_pending"})' = {i}
      BY <2>2, <2>4, StepsInWritten
    <3>2. \A q \in Packets : q # p =>
            StepsIn(q, {"mutation_pending"})' = StepsIn(q, {"mutation_pending"})
      BY <2>2, StepsInWritten
    <3> QED BY <3>1, <3>2
  <2>8. Merged' = Merged
    <3>1. StepsIn(p, {"confirmed"})' = StepsIn(p, {"confirmed"}) \ {i}
      BY <2>2, StepsInWritten
    <3>2. \A q \in Packets : q # p =>
            StepsIn(q, {"confirmed"})' = StepsIn(q, {"confirmed"})
      BY <2>2, StepsInWritten
    <3> QED BY <2>6, <3>1, <3>2
  <2>9. Phase[p] = "active" /\ Phase' = Phase
    BY <1>0, <2>1, <2>2 DEF Begins, ReleaseTypeOK, PhaseOf, ActiveStates
  <2> QED BY <2>4, <2>5, <2>6, <2>7, <2>8, <2>9 DEF Promise!Attempt
<1>3. CASE Concludes
  <2>1. PICK p \in Packets, i \in Positions, n \in Tries, e \in Endings,
             merge \in Commits \cup {NoCommit} :
               IsStep(p, i) /\ Ends(p, i, n, e[1], e[2], merge)
    BY <1>3 DEF Concludes
  <2> DEFINE row == [state |-> e[2], active |-> 0, merge |-> merge]
  <2>2. /\ steps[<<p, i>>].state = "mutation_pending" /\ i <= Order[p].size
        /\ WritesStep(p, i, row) /\ row.state = e[2] /\ bundles' = bundles
        /\ e[2] \in {"confirmed", "pending", "indeterminate"}
    BY <2>1 DEF Ends, ActiveAttempt, IsStep, Endings
  <2> HIDE DEF row
  <2>3. Flying[p] = {i}
    <3>1. \A j \in Positions : steps[<<p, j>>].state = "mutation_pending" => i = j
      BY <1>0, <2>2, OneUnderWay
    <3> QED BY <2>2, <3>1 DEF StepsIn
  <2>4. Flying' = [Flying EXCEPT ![p] = {}]
    <3>1. StepsIn(p, {"mutation_pending"})' = {}
      BY <2>2, <2>3, StepsInWritten
    <3>2. \A q \in Packets : q # p =>
            StepsIn(q, {"mutation_pending"})' = StepsIn(q, {"mutation_pending"})
      BY <2>2, StepsInWritten
    <3> QED BY <3>1, <3>2
  <2>5. Phase' = Phase
    BY <2>2
  <2>6. \A q \in Packets : q # p =>
          StepsIn(q, {"confirmed"})' = StepsIn(q, {"confirmed"})
    BY <2>2, StepsInWritten
  <2>7. CASE e[2] = "confirmed"
    <3>1. StepsIn(p, {"confirmed"})' = StepsIn(p, {"confirmed"}) \cup {i}
      BY <2>2, <2>7, StepsInWritten
    <3>2. Merged' = [Merged EXCEPT ![p] = Merged[p] \cup Flying[p]]
      BY <2>3, <2>6, <3>1
    <3>3. Promise!Land(p)
      BY <2>3, <2>4, <2>5, <3>2 DEF Promise!Land
    <3> QED BY <3>3 DEF Promise!PromiseNext
  <2>8. CASE e[2] # "confirmed"
    <3>1. StepsIn(p, {"confirmed"})' = StepsIn(p, {"confirmed"}) \ {i}
      BY <2>2, <2>8, StepsInWritten
    <3>2. i \notin StepsIn(p, {"confirmed"})
      BY <2>2 DEF StepsIn
    <3>3. Merged' = Merged
      BY <2>6, <3>1, <3>2
    <3>4. Promise!GiveUp(p)
      BY <2>3, <2>4, <2>5, <3>3 DEF Promise!GiveUp
    <3> QED BY <3>4 DEF Promise!PromiseNext
  <2> QED BY <2>7, <2>8
<1>4. CASE Stops
  <2>1. PICK p \in Packets, i \in Positions, s \in {"rejected", "indeterminate"} :
          StopStep(p, i, s)
    BY <1>4 DEF Stops
  <2> DEFINE row == [state |-> s, active |-> 0, merge |-> NoCommit]
  <2>2. /\ steps[<<p, i>>].state = "pending" /\ bundles' = bundles
        /\ WritesStep(p, i, row) /\ row.state = s /\ i <= Order[p].size
    BY <1>0, <2>1, StopWrites DEF StopStep, IsStep
  <2> HIDE DEF row
  <2>3. ASSUME NEW x \in {"confirmed", "mutation_pending"}, NEW q \in Packets
        PROVE  StepsIn(q, {x})' = StepsIn(q, {x})
    <3>1. CASE q # p
      BY <2>2, <3>1, StepsInWritten
    <3>2. CASE q = p
      <4>1. StepsIn(p, {x})' = StepsIn(p, {x}) \ {i}
        BY <2>2, StepsInWritten
      <4>2. i \notin StepsIn(p, {x})
        BY <2>2 DEF StepsIn
      <4> QED BY <3>2, <4>1, <4>2
    <3> QED BY <3>1, <3>2
  <2>4. Merged' = Merged /\ Flying' = Flying /\ Phase' = Phase
    BY <2>2, <2>3
  <2> QED BY <2>4 DEF Promise!promiseVars
<1>5. ASSUME NEW p \in Packets, NEW outcome \in Outcomes, NEW mode \in Modes,
             TerminalizeBundle(p, outcome, mode)
      PROVE  outcome \in Promise!Reports /\ Promise!Report(p, outcome)
  <2>1. /\ bundles[p] \in ActiveStates /\ OutcomeAllowed(p, outcome)
        /\ bundles' = [bundles EXCEPT ![p] = outcome] /\ steps' = steps
    BY <1>5 DEF TerminalizeBundle
  <2>2. Phase[p] = "active" /\ Flying[p] = {} /\ outcome \in Promise!Reports
    BY <2>1 DEF PhaseOf, ActiveStates, OutcomeAllowed, Promise!Reports, Outcomes
  <2>3. /\ outcome = "succeeded" => Merged[p] = 1 .. Size_[p]
        /\ outcome = "rejected" => Merged[p] = {}
        /\ outcome = "partial" => Merged[p] # {}
    BY <2>1, StepsInFacts DEF OutcomeAllowed
  <2>4. Phase' = [Phase EXCEPT ![p] = outcome]
    BY <1>0, <2>1 DEF PhaseOf, Outcomes, ActiveStates, ReleaseTypeOK
  <2>5. Merged' = Merged /\ Flying' = Flying
    BY <2>1 DEF StepsIn
  <2> QED BY <2>2, <2>3, <2>4, <2>5 DEF Promise!Report
<1>6. CASE Breaks
  BY <1>6 DEF Breaks, Promise!promiseVars, StepsIn
<1> QED
  BY <1>0, <1>1, <1>2, <1>3, <1>4, <1>5, <1>6, StepKinds DEF Promise!PromiseNext, Reports

(* KeepsReleasePromise for every instance: the store implements               *)
(* ReleasePromise. A repository works on one bundle at a time, merges are     *)
(* made in order, one under way at a time, each on all those before it, and   *)
(* a report agrees with what was merged (reserve, begin_mutation,             *)
(* confirm_step, record_recovery, terminalize_bundle).                        *)
THEOREM ReleaseKeepsPromise == ReleaseStoreSpec => KeepsReleasePromise
<1>1. ReleaseInit => Promise!PromiseInit
  <2> SUFFICES ASSUME ReleaseInit PROVE Promise!PromiseInit
    OBVIOUS
  <2>1. \A p \in Packets : PhaseOf(bundles[p]) = "new"
    BY DEF ReleaseInit, PhaseOf
  <2>2. \A p \in Packets, i \in Positions : steps[<<p, i>>].state = "pending"
    BY DEF ReleaseInit, NewStep
  <2>3. \A p \in Packets : /\ StepsIn(p, {"confirmed"}) = {}
                           /\ StepsIn(p, {"mutation_pending"}) = {}
    BY <2>2 DEF StepsIn
  <2> QED BY <2>1, <2>3 DEF Promise!PromiseInit
<1>2. ReleaseInv /\ [ReleaseNext]_releaseVars =>
        [Promise!PromiseNext]_(Promise!promiseVars)
  <2>1. CASE UNCHANGED releaseVars
    BY <2>1 DEF releaseVars, Promise!promiseVars, StepsIn
  <2> QED BY <2>1, PromiseStep
<1> QED BY <1>1, <1>2, ReleaseInvariant, PTL
    DEF ReleaseStoreSpec, KeepsReleasePromise, Promise!PromiseSpec
=============================================================================

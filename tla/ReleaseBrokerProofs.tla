--------------------------- MODULE ReleaseBrokerProofs ---------------------------
(***************************************************************************)
(* Proofs about ReleaseBroker: the release broker over its store, with     *)
(* crashes, signing failures, late merges and people at work on GitHub,    *)
(* for every set of packets and pull requests, all limits and clocks.      *)
(***************************************************************************)
EXTENDS ReleaseBroker, ReleaseStoreProofs

-----------------------------------------------------------------------------
(* What the transactions do to the first step of every bundle *)

StateOf(q) == steps[<<q, 1>>].state
MergeOf(q) == steps[<<q, 1>>].merge

(* Nothing new is at work: no attempt or bundle is opened, no merge is        *)
(* credited, no attempt is charged, and what is open keeps its bundle.        *)
Narrows ==
  \A q \in Packets :
    /\ StateOf(q)' = "mutation_pending" =>
         StateOf(q) = "mutation_pending" /\ bundles'[q] = bundles[q]
    /\ StateOf(q)' = "confirmed" =>
         StateOf(q) = "confirmed" /\ MergeOf(q)' = MergeOf(q)
    /\ bundles'[q] \in ActiveStates => bundles[q] \in ActiveStates
    /\ Tried(q, 1)' = Tried(q, 1)

(* The store and its promises go through a step.                              *)
StoreKept == ReleaseInv' /\ ReceiptTrue'

LEMMA FirstStep ==
  ASSUME ReleaseTypeOK
  PROVE  /\ 1 \in Positions
         /\ \A q \in Packets : /\ StateOf(q) \in StepStates
                               /\ MergeOf(q) \in Commits \cup {NoCommit}
                               /\ Open(q) \in Tries \cup {0}
BY PositionFacts, RowFields DEF StateOf, MergeOf, Open

LEMMA SameNarrows ==
  ASSUME UNCHANGED <<accepted, bundles, steps, attempts>>
  PROVE  Narrows /\ OpenAttempts' = OpenAttempts
BY DEF Narrows, StateOf, MergeOf, Tried, OpenAttempts

LEMMA SameKept ==
  ASSUME ReleaseInv, ReceiptTrue, UNCHANGED releaseVars
  PROVE  StoreKept /\ Narrows /\ OpenAttempts' = OpenAttempts
BY InvStutter, SameNarrows DEF StoreKept, releaseVars

(* open_circuit and close_circuit.                                            *)
LEMMA BreakerKept ==
  ASSUME ReleaseInv, ReceiptTrue, NEW r \in Repos,
         OpenCircuit(r) \/ CloseCircuit(r)
  PROVE  StoreKept /\ Narrows /\ OpenAttempts' = OpenAttempts
<1>1. UNCHANGED <<accepted, bundles, steps, attempts>>
  BY DEF OpenCircuit, CloseCircuit
<1>2. Narrows /\ OpenAttempts' = OpenAttempts
  BY <1>1, SameNarrows
<1>3. CASE CloseCircuit(r)
  <2>1. ReleaseNext
    BY <1>3 DEF ReleaseNext
  <2> QED BY <1>2, <2>1, InvStep DEF StoreKept
<1>4. CASE OpenCircuit(r)
  <2> DEFINE d == [open |-> TRUE, count |-> circuit[r].count + 1, last |-> NoPacket]
  <2>1. circuit \in [Repos -> CircuitRow]
    BY DEF ReleaseInv, ReleaseTypeOK
  <2>2. circuit[r].count \in Nat
    BY <2>1 DEF CircuitRow
  <2>3. d \in CircuitRow /\ d.open
    BY <2>2 DEF CircuitRow
  <2>4. circuit' = [circuit EXCEPT ![r] = d]
    BY <1>4 DEF OpenCircuit
  <2> HIDE DEF d
  <2>5. circuit' \in [Repos -> CircuitRow]
        /\ \A x \in Repos : circuit'[x] = IF x = r THEN d ELSE circuit[x]
    BY <2>1, <2>3, <2>4
  <2>6. ClosedBelowLimit'
    BY <2>3, <2>5 DEF ReleaseInv, ClosedBelowLimit
  <2>7. ReleaseTypeOK' /\ RowsTogether' /\ NothingReused'
    BY <1>1, <2>5 DEF ReleaseInv, ReleaseTypeOK, RowsTogether, NothingReused
  <2>8. \A p \in Packets, i \in Positions : StepAgrees(p, i)' <=> StepAgrees(p, i)
    BY <1>1 DEF StepAgrees
  <2>9. AttemptsAgree'
    BY <2>8 DEF ReleaseInv, AttemptsAgree
  <2>10. ChainIntact' /\ MergedPrefix'
    BY <1>1 DEF ReleaseInv, ChainIntact, MergedPrefix
  <2>11. ReleaseBudgetRespected'
    BY <1>1 DEF ReleaseInv, ReleaseBudgetRespected, AttemptsOn, Day, Charged
  <2>12. ReceiptTrue'
    BY <1>1, ReceiptByPacket, ReceiptUntouched
  <2> QED BY <1>2, <2>6, <2>7, <2>9, <2>10, <2>11, <2>12 DEF StoreKept, ReleaseInv
<1> QED BY <1>3, <1>4

(* The number of the attempt an open step names.                              *)
LEMMA OpenTry ==
  ASSUME ReleaseInv, NEW p \in Packets, NEW n, n = Open(p), ActiveAttempt(p, 1, n)
  PROVE  n \in Tries /\ StateOf(p) = "mutation_pending"
<1>1. StepAgrees(p, 1) /\ Open(p) \in Tries \cup {0}
  BY FirstStep DEF ReleaseInv, AttemptsAgree
<1> QED BY <1>1 DEF ActiveAttempt, StepAgrees, Open, StateOf

(* record_recovery with "absent" or "indeterminate".                          *)
LEMMA EndKept ==
  ASSUME ReleaseInv, ReceiptTrue, NEW p \in Packets, NEW mode \in Modes,
         \/ RecordAbsent(p, 1, Open(p))
         \/ RecordIndeterminate(p, 1, Open(p), mode)
  PROVE  /\ StoreKept /\ Narrows
         /\ StateOf(p) = "mutation_pending" /\ OpenAttempts' = OpenAttempts \ {p}
<1> DEFINE n == Open(p)
<1>0. ReleaseTypeOK /\ 1 \in Positions
  BY PositionFacts DEF ReleaseInv
<1>1. ActiveAttempt(p, 1, n)
  BY DEF RecordAbsent, RecordIndeterminate
<1>2. n \in Tries /\ StateOf(p) = "mutation_pending"
  BY <1>1, OpenTry
<1> HIDE DEF n
<1>3. ASSUME NEW a, NEW s, <<a, s>> \in Endings, s # "confirmed",
             Ends(p, 1, n, a, s, NoCommit)
      PROVE  Narrows /\ OpenAttempts' = OpenAttempts \ {p}
  <2>1. s \notin {"mutation_pending", "confirmed"} /\ a # "none"
    BY <1>3 DEF Endings
  <2>2. \A q \in Packets :
          /\ StateOf(q)' = IF q = p THEN s ELSE StateOf(q)
          /\ q # p => MergeOf(q)' = MergeOf(q)
    BY <1>0, <1>3 DEF Ends, WritesStep, StateOf, MergeOf
  <2>3. ASSUME NEW q \in Packets, NEW m \in Tries
        PROVE  (attempts[<<q, 1, m>>].state # "none")' <=>
                 attempts[<<q, 1, m>>].state # "none"
    <3>1. attempts[<<p, 1, n>>].state = "pending"
      BY <1>3 DEF Ends, ActiveAttempt
    <3> QED BY <1>0, <1>3, <2>1, <3>1 DEF Ends, WritesAttempt
  <2>4. \A q \in Packets : Tried(q, 1)' = Tried(q, 1)
    BY <2>3 DEF Tried
  <2>5. bundles' = bundles
    BY <1>3 DEF Ends
  <2> QED BY <2>1, <2>2, <2>4, <2>5 DEF Narrows, OpenAttempts, StateOf
<1>4. CASE RecordAbsent(p, 1, n)
  <2>1. ReleaseNext
    BY <1>0, <1>2, <1>4 DEF ReleaseNext
  <2>2. <<"absent", "pending">> \in Endings
    BY DEF Endings
  <2>3. Ends(p, 1, n, "absent", "pending", NoCommit)
    BY <1>0, <1>2, <1>4, <2>2, EndsWrites DEF RecordAbsent
  <2> QED BY <1>2, <1>3, <2>1, <2>2, <2>3, InvStep DEF StoreKept
<1>5. CASE RecordIndeterminate(p, 1, n, mode)
  <2>1. ReleaseNext
    BY <1>0, <1>2, <1>5 DEF ReleaseNext
  <2>2. <<"indeterminate", "indeterminate">> \in Endings
    BY DEF Endings
  <2>3. Ends(p, 1, n, "indeterminate", "indeterminate", NoCommit)
    BY <1>0, <1>2, <1>5, <2>2, EndsWrites DEF RecordIndeterminate
  <2> QED BY <1>2, <1>3, <2>1, <2>2, <2>3, InvStep DEF StoreKept
<1> QED BY <1>4, <1>5 DEF n

(* stop_step *)
LEMMA StopKept ==
  ASSUME ReleaseInv, ReceiptTrue, NEW p \in Packets, StopStep(p, 1, "rejected")
  PROVE  StoreKept /\ Narrows /\ OpenAttempts' = OpenAttempts
<1>0. ReleaseTypeOK /\ 1 \in Positions
  BY PositionFacts DEF ReleaseInv
<1>1. ReleaseNext
  BY <1>0 DEF ReleaseNext
<1>2. /\ StateOf(p) = "pending"
      /\ WritesStep(p, 1, [state |-> "rejected", active |-> 0, merge |-> NoCommit])
      /\ UNCHANGED <<bundles, attempts>>
  BY <1>0, StopWrites DEF StateOf
<1>3. \A q \in Packets :
        /\ StateOf(q)' = IF q = p THEN "rejected" ELSE StateOf(q)
        /\ q # p => MergeOf(q)' = MergeOf(q)
  BY <1>0, <1>2 DEF WritesStep, StateOf, MergeOf
<1>4. \A q \in Packets : Tried(q, 1)' = Tried(q, 1)
  BY <1>2 DEF Tried
<1> QED BY <1>1, <1>2, <1>3, <1>4, InvStep DEF StoreKept, Narrows, OpenAttempts, StateOf

(* terminalize_bundle: no attempt of the bundle is open.                      *)
LEMMA ReportKept ==
  ASSUME ReleaseInv, ReceiptTrue, NEW p \in Packets, NEW outcome \in Outcomes,
         NEW mode \in Modes, TerminalizeBundle(p, outcome, mode)
  PROVE  StoreKept /\ Narrows /\ OpenAttempts' = OpenAttempts
<1>0. ReleaseTypeOK /\ 1 \in Positions /\ 1 <= Order[p].size
  BY PositionFacts, OrderFields DEF ReleaseInv
<1>1. ReleaseNext
  BY DEF ReleaseNext
<1>2. /\ UNCHANGED <<accepted, steps, attempts>>
      /\ bundles' = [bundles EXCEPT ![p] = outcome]
      /\ StepsIn(p, {"mutation_pending"}) = {}
  BY DEF TerminalizeBundle, OutcomeAllowed
<1>3. StateOf(p) # "mutation_pending"
  BY <1>0, <1>2 DEF StepsIn, StateOf
<1>4. \A q \in Packets : bundles'[q] = IF q = p THEN outcome ELSE bundles[q]
  BY <1>0, <1>2 DEF ReleaseTypeOK
<1>5. outcome \notin ActiveStates
  BY DEF Outcomes, ActiveStates
<1>6. \A q \in Packets : /\ StateOf(q)' = StateOf(q) /\ MergeOf(q)' = MergeOf(q)
                         /\ Tried(q, 1)' = Tried(q, 1)
  BY <1>2 DEF StateOf, MergeOf, Tried
<1>7. OpenAttempts' = OpenAttempts
  BY <1>2 DEF OpenAttempts
<1> QED BY <1>1, <1>3, <1>4, <1>5, <1>6, <1>7, InvStep DEF StoreKept, Narrows

(* confirm_step, for the open attempt of p.                                   *)
Credits(p, merge) ==
  /\ StateOf(p) = "mutation_pending"
  /\ \A q \in Packets :
       /\ StateOf(q)' = IF q = p THEN "confirmed" ELSE StateOf(q)
       /\ MergeOf(q)' = IF q = p THEN merge ELSE MergeOf(q)
       /\ Tried(q, 1)' = Tried(q, 1)
  /\ bundles' = bundles
  /\ OpenAttempts' = OpenAttempts \ {p}

LEMMA ConfirmKept ==
  ASSUME ReleaseInv, ReceiptTrue, NEW p \in Packets, NEW merge \in Commits,
         NEW parent \in Commits, ConfirmStep(p, 1, Open(p), merge, parent)
  PROVE  StoreKept /\ Credits(p, merge)
<1> DEFINE n == Open(p)
<1>0. ReleaseTypeOK /\ 1 \in Positions
  BY PositionFacts DEF ReleaseInv
<1>1. ActiveAttempt(p, 1, n)
  BY DEF ConfirmStep
<1>2. n \in Tries /\ StateOf(p) = "mutation_pending"
  BY <1>1, OpenTry
<1> HIDE DEF n
<1>3. ConfirmStep(p, 1, n, merge, parent)
  BY DEF n
<1>4. ReleaseNext
  BY <1>0, <1>2, <1>3 DEF ReleaseNext
<1>5. <<"confirmed", "confirmed">> \in Endings
  BY DEF Endings
<1>6. Ends(p, 1, n, "confirmed", "confirmed", merge)
  BY <1>0, <1>2, <1>3, <1>5, EndsWrites DEF ConfirmStep
<1>7. \A q \in Packets :
        /\ StateOf(q)' = IF q = p THEN "confirmed" ELSE StateOf(q)
        /\ MergeOf(q)' = IF q = p THEN merge ELSE MergeOf(q)
  BY <1>0, <1>6 DEF Ends, WritesStep, StateOf, MergeOf
<1>8. ASSUME NEW q \in Packets, NEW m \in Tries
      PROVE  (attempts[<<q, 1, m>>].state # "none")' <=>
               attempts[<<q, 1, m>>].state # "none"
  <2>1. attempts[<<p, 1, n>>].state = "pending"
    BY <1>6 DEF Ends, ActiveAttempt
  <2> QED BY <1>0, <1>6, <2>1 DEF Ends, WritesAttempt
<1>9. \A q \in Packets : Tried(q, 1)' = Tried(q, 1)
  BY <1>8 DEF Tried
<1>10. bundles' = bundles
  BY <1>6 DEF Ends
<1>11. OpenAttempts' = OpenAttempts \ {p}
  BY <1>7 DEF OpenAttempts, StateOf
<1> QED BY <1>2, <1>4, <1>7, <1>9, <1>10, <1>11, InvStep DEF StoreKept, Credits

LEMMA TriesCount == IsFiniteSet(Tries) /\ Cardinality(Tries) = 2
<1>0. 1 \in Int /\ 2 \in Int
  OBVIOUS
<1>1. /\ IsFiniteSet(1 .. 2)
      /\ Cardinality(1 .. 2) = IF 1 > 2 THEN 0 ELSE 2 - 1 + 1
  BY <1>0, FS_Interval
<1> QED BY <1>1 DEF Tries

(* How many attempts a step can have been charged for.                        *)
LEMMA TriedCount ==
  ASSUME NEW p \in Packets
  PROVE  /\ Cardinality(Tried(p, 1)) \in Nat /\ Cardinality(Tried(p, 1)) <= 2
         /\ Cardinality(Tried(p, 1)) = 2 => attempts[<<p, 1, 2>>].state # "none"
<1>0. Tries = {1, 2} /\ IsFiniteSet({1}) /\ Cardinality({1}) = 1
  BY FS_Singleton DEF Tries
<1>1. IsFiniteSet(Tries) /\ Cardinality(Tries) = 2
  BY TriesCount
<1>2. Tried(p, 1) \subseteq Tries
  BY DEF Tried
<1>3. IsFiniteSet(Tried(p, 1)) /\ Cardinality(Tried(p, 1)) <= 2
  BY <1>1, <1>2, FS_Subset
<1>4. ASSUME attempts[<<p, 1, 2>>].state = "none" PROVE Cardinality(Tried(p, 1)) <= 1
  <2>1. Tried(p, 1) \subseteq {1}
    BY <1>0, <1>4 DEF Tried
  <2> QED BY <1>0, <2>1, FS_Subset
<1> QED BY <1>3, <1>4, FS_CardinalityType

(* begin_mutation, for the first step of p.                                   *)
Charges(p) ==
  /\ bundles[p] \in ActiveStates
  /\ \A q \in Packets :
       /\ StateOf(q)' = IF q = p THEN "mutation_pending" ELSE StateOf(q)
       /\ q # p => MergeOf(q)' = MergeOf(q) /\ Tried(q, 1)' = Tried(q, 1)
       /\ bundles'[q] \in ActiveStates <=> bundles[q] \in ActiveStates
  /\ Cardinality(Tried(p, 1))' = Cardinality(Tried(p, 1)) + 1

LEMMA ChargeKept ==
  ASSUME ReleaseInv, ReceiptTrue, NEW p \in Packets, NEW t \in Times,
         BeginMutation(p, 1, Order[p].base, t)
  PROVE  StoreKept /\ Charges(p)
<1> DEFINE base == Order[p].base
<1>0. ReleaseTypeOK /\ 1 \in Positions /\ base \in Commits
  BY PositionFacts, OrderFields DEF ReleaseInv
<1>1. ReleaseNext
  BY <1>0 DEF ReleaseNext
<1>2. bundles[p] \in ActiveStates
  BY DEF BeginMutation, InWindow
<1>3. PICK n \in Tries :
        /\ Begins(p, 1, n, base, t)
        /\ n = 1 => \A m \in Tries : attempts[<<p, 1, m>>].state = "none"
        /\ n = 2 => /\ attempts[<<p, 1, 1>>].state = "absent"
                    /\ attempts[<<p, 1, 2>>].state = "none"
  BY <1>0, BeginsWrites
<1>4. /\ attempts[<<p, 1, n>>].state = "none"
      /\ \A q \in Packets, m \in Tries :
           attempts'[<<q, 1, m>>].state =
             IF q = p /\ m = n THEN "pending" ELSE attempts[<<q, 1, m>>].state
  <2>1. n = 1 \/ n = 2
    BY DEF Tries
  <2> QED BY <1>0, <1>3, <2>1 DEF Begins, WritesAttempt
<1>5. \A q \in Packets :
        /\ StateOf(q)' = IF q = p THEN "mutation_pending" ELSE StateOf(q)
        /\ q # p => MergeOf(q)' = MergeOf(q)
  BY <1>0, <1>3 DEF Begins, WritesStep, StateOf, MergeOf
<1>6. \A q \in Packets : q # p => Tried(q, 1)' = Tried(q, 1)
  BY <1>4 DEF Tried
<1>7. n \notin Tried(p, 1) /\ Tried(p, 1)' = Tried(p, 1) \cup {n}
  BY <1>4 DEF Tried
<1>8. IsFiniteSet(Tried(p, 1))
  <2>1. IsFiniteSet(Tries)
    BY TriesCount
  <2>2. Tried(p, 1) \subseteq Tries
    BY DEF Tried
  <2> QED BY <2>1, <2>2, FS_Subset
<1>9. Cardinality(Tried(p, 1))' = Cardinality(Tried(p, 1)) + 1
  BY <1>7, <1>8, FS_AddElement
<1>10. \A q \in Packets : bundles'[q] \in ActiveStates <=> bundles[q] \in ActiveStates
  <2>1. bundles' = [bundles EXCEPT ![p] = "executing"]
    BY <1>3 DEF Begins
  <2>2. \A q \in Packets : bundles'[q] = IF q = p THEN "executing" ELSE bundles[q]
    BY <1>0, <2>1 DEF ReleaseTypeOK
  <2> QED BY <1>2, <2>2 DEF ActiveStates
<1> QED BY <1>1, <1>2, <1>5, <1>6, <1>9, <1>10, InvStep DEF StoreKept, Charges

(* A bundle at work was accepted, and it is the only one at work: the broker  *)
(* serves one repository.                                                     *)
LEMMA OneActive ==
  ASSUME ReleaseInv, NEW p \in Packets, NEW q \in Packets,
         bundles[p] \in ActiveStates, bundles[q] \in ActiveStates
  PROVE  p = q /\ accepted[p] # Never
<1>1. "none" \notin ActiveStates
  BY DEF ActiveStates
<1>2. accepted[p] # Never /\ accepted[q] # Never
  BY <1>1 DEF ReleaseInv, RowsTogether
<1>3. Order[p].repo = Order[q].repo
  BY BrokerAssumption
<1> QED BY <1>2, <1>3 DEF ReleaseInv, NothingReused

(* reserve: no bundle was at work.                                            *)
LEMMA ReserveKept ==
  ASSUME ReleaseInv, ReceiptTrue, NEW p \in Packets, NEW t \in Times, Reserve(p, t)
  PROVE  /\ StoreKept /\ UNCHANGED <<steps, attempts>>
         /\ \A q \in Packets :
              /\ bundles[q] \notin ActiveStates
              /\ bundles'[q] \in ActiveStates => q = p
<1>1. ReleaseNext
  BY DEF ReleaseNext
<1>2. ASSUME NEW q \in Packets, bundles[q] \in ActiveStates PROVE FALSE
  <2>1. accepted[q] # Never
    BY <1>2, OneActive
  <2>2. Order[q].repo = Order[p].repo
    BY BrokerAssumption
  <2> QED BY <1>2, <2>1, <2>2 DEF Reserve, CanReserve, RepositoryFree, Taken
<1>3. UNCHANGED <<steps, attempts>> /\ bundles' = [bundles EXCEPT ![p] = "reserved"]
  BY DEF Reserve
<1>4. \A q \in Packets : q # p => bundles'[q] = bundles[q]
  BY <1>3 DEF ReleaseInv, ReleaseTypeOK
<1> QED BY <1>1, <1>2, <1>3, <1>4, InvStep DEF StoreKept

-----------------------------------------------------------------------------
(* What the service writes about its request *)

LEMMA ServiceFields ==
  ASSUME NEW s \in ServiceType
  PROVE  /\ s.pc \in Phases /\ s.packet \in Packets \cup {NoPacket}
         /\ s.started \in Times /\ s.merge \in Commits \cup {NoCommit}
         /\ s.target \in Packets \cup {NoPacket} /\ s.outcome \in Outcomes \cup {"none"}
         /\ s.mode \in {"none", "threshold", "immediate"}
         /\ s.then \in {"idle", "recover"}
BY DEF ServiceType

LEMMA IdleFacts ==
  /\ Idle \in ServiceType /\ Idle.pc = "idle" /\ Idle.packet = NoPacket
  /\ Down \in ServiceType /\ Down.pc = "down" /\ Down.packet = NoPacket
BY BrokerAssumption DEF Idle, Down, ServiceType, Phases

LEMMA RequestFacts ==
  ASSUME NEW pc \in {"recover", "live"}, NEW p \in Packets \cup {NoPacket},
         NEW t \in Times,
         svc' = [Idle EXCEPT !.pc = pc, !.packet = p, !.started = t]
  PROVE  svc' \in ServiceType /\ svc'.pc = pc /\ svc'.packet = p
BY DEF Idle, ServiceType, Phases

LEMMA GotoFacts ==
  ASSUME svc \in ServiceType, NEW pc \in Phases, Goto(pc)
  PROVE  svc' \in ServiceType /\ svc'.pc = pc /\ svc'.packet = svc.packet
BY DEF Goto, ServiceType

LEMMA ReportFacts ==
  ASSUME svc \in ServiceType, NEW p \in Packets, NEW outcome \in Outcomes,
         NEW mode \in {"none", "threshold", "immediate"},
         NEW then \in {"idle", "recover"}, Report(p, outcome, mode, then)
  PROVE  /\ svc' \in ServiceType /\ svc'.pc = "terminal" /\ svc'.packet = svc.packet
         /\ svc'.target = p /\ svc'.outcome = outcome
BY DEF Report, ServiceType, Phases

-----------------------------------------------------------------------------
(* The inductive invariant and what keeps each part of it *)

BrokerInv ==
  /\ ReleaseInv /\ ReceiptTrue
  /\ BrokerTypeOK /\ PacketInHand /\ OpenWhileActive /\ OneAtWork
  /\ ConfirmedMerged /\ CreditGone /\ SendOwed

(* A request that ends leaves nothing open: one step of RequestSettles.       *)
Settles ==
  svc.pc \notin {"idle", "down"} /\ svc.packet # NoPacket /\ svc'.pc = "idle" =>
    OpenAttempts' = {}

StepKept == BrokerInv' /\ Settles

LEMMA WorldType ==
  ASSUME BrokerTypeOK, UNCHANGED worldVars, UNCHANGED sent,
         ReleaseTypeOK', svc' \in ServiceType, faults' \in 0 .. MaxFaults
  PROVE  BrokerTypeOK'
BY DEF BrokerTypeOK, worldVars

LEMMA OpenByState ==
  /\ \A q \in Packets : q \in OpenAttempts <=> StateOf(q) = "mutation_pending"
  /\ OpenAttempts \subseteq Packets
BY DEF OpenAttempts, StateOf

LEMMA OpenKept ==
  ASSUME OpenWhileActive, Narrows
  PROVE  OpenWhileActive'
BY DEF OpenWhileActive, Narrows, OpenAttempts, StateOf

(* Nothing new is confirmed and no pull request changes.                      *)
LEMMA MergedKept ==
  ASSUME ConfirmedMerged, Narrows, UNCHANGED <<head, prs>>
  PROVE  ConfirmedMerged'
BY DEF ConfirmedMerged, Narrows, StateOf, MergeOf

(* Nothing new is credited and nothing new is about to be charged.            *)
LEMMA CreditKept ==
  ASSUME CreditGone, Narrows,
         svc'.pc = "charge" => svc.pc = "charge" /\ svc'.packet = svc.packet
  PROVE  CreditGone'
BY DEF CreditGone, Narrows, StateOf

(* Nothing is charged or sent, and no request comes to the fence.             *)
LEMMA OwedKept ==
  ASSUME BrokerTypeOK, wire' \in [Packets -> 0 .. 2], SendOwed, sent' = sent,
         \A q \in Packets : wire'[q] <= wire[q] /\ Tried(q, 1)' = Tried(q, 1),
         svc'.pc \in {"fence", "send"} =>
           svc.pc \in {"fence", "send"} /\ svc'.packet = svc.packet
  PROVE  SendOwed'
<1> SUFFICES ASSUME NEW q \in Packets
             PROVE  /\ wire'[q] <= sent'[q]
                    /\ sent'[q] <= Cardinality(Tried(q, 1)')
                    /\ svc'.pc \in {"fence", "send"} /\ svc'.packet = q =>
                         sent'[q] < Cardinality(Tried(q, 1)')
  BY DEF SendOwed
<1>1. wire[q] \in 0 .. 2 /\ sent[q] \in 0 .. 2 /\ wire'[q] \in 0 .. 2
  BY DEF BrokerTypeOK
<1>2. Tried(q, 1)' = Tried(q, 1) /\ sent'[q] = sent[q] /\ wire'[q] <= wire[q]
  OBVIOUS
<1>3. /\ wire[q] <= sent[q] /\ sent[q] <= Cardinality(Tried(q, 1))
      /\ svc.pc \in {"fence", "send"} /\ svc.packet = q =>
           sent[q] < Cardinality(Tried(q, 1))
  BY DEF SendOwed
<1>4. wire'[q] <= sent'[q]
  BY <1>1, <1>2, <1>3
<1> QED BY <1>2, <1>3, <1>4

(* The request stays with its packet or ends.                                 *)
LEMMA WorkKept ==
  ASSUME OneAtWork, Narrows, svc'.packet \in {NoPacket, svc.packet},
         svc'.packet # NoPacket =>
           (svc'.pc \in {"sweep", "live", "charge", "stop", "terminal"} =>
              OpenAttempts' = {})
  PROVE  OneAtWork'
BY DEF OneAtWork, Narrows

(* A step of the service that opens, credits, charges and sends nothing.      *)
LEMMA QuietStep ==
  ASSUME BrokerInv, StoreKept, Narrows, UNCHANGED worldVars, sent' = sent,
         faults' \in 0 .. MaxFaults, svc' \in ServiceType, PacketInHand',
         svc'.packet \in {NoPacket, svc.packet},
         svc'.packet # NoPacket =>
           (svc'.pc \in {"sweep", "live", "charge", "stop", "terminal"} =>
              OpenAttempts' = {}),
         svc'.pc = "charge" => svc.pc = "charge" /\ svc'.packet = svc.packet,
         svc'.pc \in {"fence", "send"} =>
           svc.pc \in {"fence", "send"} /\ svc'.packet = svc.packet
  PROVE  BrokerInv'
<1>1. ReleaseInv' /\ ReceiptTrue' /\ ReleaseTypeOK'
  BY DEF StoreKept, ReleaseInv
<1>2. BrokerTypeOK'
  BY <1>1, WorldType DEF BrokerInv
<1>3. OpenWhileActive'
  BY OpenKept DEF BrokerInv
<1>4. OneAtWork'
  BY WorkKept DEF BrokerInv
<1>5. ConfirmedMerged'
  BY MergedKept DEF BrokerInv, worldVars
<1>6. CreditGone'
  BY CreditKept DEF BrokerInv
<1>7. SendOwed'
  <2>1. wire' = wire /\ wire \in [Packets -> 0 .. 2] /\ SendOwed /\ BrokerTypeOK
    BY DEF BrokerInv, BrokerTypeOK, worldVars
  <2>2. \A q \in Packets : wire'[q] <= wire[q] /\ Tried(q, 1)' = Tried(q, 1)
    BY <2>1 DEF Narrows
  <2>3. wire' \in [Packets -> 0 .. 2]
    BY <2>1
  <2> QED BY <2>1, <2>2, <2>3, OwedKept
<1> QED BY <1>1, <1>2, <1>3, <1>4, <1>5, <1>6, <1>7 DEF BrokerInv

(* What is open belongs to the packet in hand.                                *)
LEMMA OpenInHand ==
  ASSUME BrokerInv, svc.packet # NoPacket
  PROVE  OpenAttempts \subseteq {svc.packet}
BY OpenByState DEF BrokerInv, OpenWhileActive, OneAtWork

LEMMA InvFacts ==
  ASSUME BrokerInv
  PROVE  /\ ReleaseInv /\ ReceiptTrue /\ BrokerTypeOK /\ svc \in ServiceType
         /\ ReleaseTypeOK /\ faults \in 0 .. MaxFaults /\ MaxFaults \in Nat
         /\ now \in Times /\ head \in Commits /\ Commits \subseteq Nat
BY BrokerAssumption DEF BrokerInv, BrokerTypeOK

-----------------------------------------------------------------------------
(* The steps, one by one: first those that leave the store alone *)

(* Start, RecoverDone, SweepDone, RejectLive, RefuseCharge, FailCharge,       *)
(* FenceHolds, MergeAnswered and Crash.                                       *)
LEMMA IdlingStep ==
  ASSUME BrokerInv,
         \/ Start \/ RecoverDone \/ SweepDone \/ RejectLive \/ RefuseCharge
         \/ FailCharge \/ FenceHolds \/ MergeAnswered \/ Crash
  PROVE  StepKept
<1>1. /\ UNCHANGED releaseVars /\ UNCHANGED worldVars /\ sent' = sent
      /\ faults' = faults \/ (Crash /\ faults < MaxFaults /\ faults' = faults + 1)
  BY DEF Start, RecoverDone, SweepDone, RejectLive, RefuseCharge, FailCharge,
     FenceHolds, MergeAnswered, Crash, Elsewhere
<1>2. faults' \in 0 .. MaxFaults
  BY <1>1, InvFacts
<1>3. StoreKept /\ Narrows /\ OpenAttempts' = OpenAttempts
  BY <1>1, SameKept, InvFacts
<1>4. /\ svc \in ServiceType /\ PacketInHand
      /\ svc.packet \in Packets \cup {NoPacket} /\ NoPacket \notin Packets
  BY InvFacts, ServiceFields, OrderAssumption DEF BrokerInv
<1>5. svc.packet # NoPacket =>
        (svc.pc \in {"sweep", "live", "charge", "stop", "terminal"} =>
           OpenAttempts = {})
  BY DEF BrokerInv, OneAtWork
<1>6. ASSUME svc' \in ServiceType, svc'.packet \in {NoPacket, svc.packet},
             PacketInHand', svc'.pc # "charge",
             svc'.packet # NoPacket =>
               (svc'.pc \in {"sweep", "live", "charge", "stop", "terminal"} =>
                  OpenAttempts = {}),
             svc'.pc \in {"fence", "send"} =>
               svc.pc \in {"fence", "send"} /\ svc'.packet = svc.packet,
             svc'.pc = "idle" =>
               svc.packet = NoPacket
               \/ svc.pc \in {"sweep", "live", "charge", "stop", "terminal"}
      PROVE  StepKept
  <2>1. BrokerInv'
    BY <1>1, <1>2, <1>3, <1>6, QuietStep
  <2>2. Settles
    BY <1>3, <1>5, <1>6 DEF Settles
  <2> QED BY <2>1, <2>2 DEF StepKept
<1>7. CASE Start
  <2>1. svc' = [Idle EXCEPT !.pc = "recover"]
    BY <1>7 DEF Start
  <2>2. svc' \in ServiceType /\ svc'.pc = "recover" /\ svc'.packet = NoPacket
    BY <2>1, IdleFacts DEF Idle, ServiceType, Phases
  <2>3. PacketInHand'
    BY <2>2 DEF PacketInHand
  <2> QED BY <1>6, <2>2, <2>3
<1>8. CASE Crash
  <2>1. svc' = Down
    BY <1>8 DEF Crash
  <2>2. svc' \in ServiceType /\ svc'.pc = "down" /\ svc'.packet = NoPacket
    BY <2>1, IdleFacts
  <2>3. PacketInHand'
    BY <2>2 DEF PacketInHand
  <2> QED BY <1>6, <2>2, <2>3
<1>9. CASE RecoverDone
  <2>1. OpenAttempts = {} /\ Goto("sweep")
    BY <1>9 DEF RecoverDone
  <2>2. svc' \in ServiceType /\ svc'.pc = "sweep" /\ svc'.packet = svc.packet
    BY <1>4, <2>1, GotoFacts DEF Phases
  <2>3. PacketInHand'
    BY <2>2 DEF PacketInHand
  <2> QED BY <1>6, <2>1, <2>2, <2>3
<1>10. CASE SweepDone /\ svc' = Idle
  <2>1. svc.pc = "sweep"
    BY <1>10 DEF SweepDone
  <2>2. svc' \in ServiceType /\ svc'.pc = "idle" /\ svc'.packet = NoPacket
    BY <1>10, IdleFacts
  <2>3. PacketInHand'
    BY <2>2 DEF PacketInHand
  <2> QED BY <1>6, <2>1, <2>2, <2>3
<1>11. CASE SweepDone /\ svc' # Idle
  <2>1. svc.pc = "sweep" /\ svc.packet # NoPacket /\ Goto("live")
    BY <1>11 DEF SweepDone
  <2>2. svc' \in ServiceType /\ svc'.pc = "live" /\ svc'.packet = svc.packet
    BY <1>4, <2>1, GotoFacts DEF Phases
  <2>3. PacketInHand'
    BY <1>4, <2>1, <2>2 DEF PacketInHand
  <2> QED BY <1>5, <1>6, <2>1, <2>2, <2>3
<1>12. CASE RejectLive \/ RefuseCharge
  <2>1. svc.pc \in {"live", "charge"} /\ Goto("stop")
    BY <1>12 DEF RejectLive, RefuseCharge
  <2>2. svc' \in ServiceType /\ svc'.pc = "stop" /\ svc'.packet = svc.packet
    BY <1>4, <2>1, GotoFacts DEF Phases
  <2>3. PacketInHand'
    BY <1>4, <2>1, <2>2 DEF PacketInHand
  <2> QED BY <1>5, <1>6, <2>1, <2>2, <2>3
<1>13. CASE FailCharge
  <2>1. svc.pc = "charge" /\ svc' = Idle
    BY <1>13 DEF FailCharge
  <2>2. svc' \in ServiceType /\ svc'.pc = "idle" /\ svc'.packet = NoPacket
    BY <2>1, IdleFacts
  <2>3. PacketInHand'
    BY <2>2 DEF PacketInHand
  <2> QED BY <1>6, <2>1, <2>2, <2>3
<1>14. CASE FenceHolds
  <2>1. svc.pc = "fence" /\ Goto("send")
    BY <1>14 DEF FenceHolds
  <2>2. svc' \in ServiceType /\ svc'.pc = "send" /\ svc'.packet = svc.packet
    BY <1>4, <2>1, GotoFacts DEF Phases
  <2>3. PacketInHand'
    BY <1>4, <2>1, <2>2 DEF PacketInHand
  <2> QED BY <1>6, <2>1, <2>2, <2>3
<1>15. CASE MergeAnswered
  <2>1. svc.pc = "await" /\ Goto("readback")
    BY <1>15 DEF MergeAnswered
  <2>2. svc' \in ServiceType /\ svc'.pc = "readback" /\ svc'.packet = svc.packet
    BY <1>4, <2>1, GotoFacts DEF Phases
  <2>3. PacketInHand'
    BY <1>4, <2>1, <2>2 DEF PacketInHand
  <2> QED BY <1>6, <2>2, <2>3
<1> QED BY <1>7, <1>8, <1>9, <1>10, <1>11, <1>12, <1>13, <1>14, <1>15

-----------------------------------------------------------------------------
(* The steps that record what became of an attempt, short of a merge *)

(* _record_and_terminalize_indeterminate: RecoverUnavailable,                 *)
(* RecoverMismatch, MergeUnanswered and the failed ReadBack.                  *)
LEMMA UnknownStep ==
  ASSUME BrokerInv, NEW p \in Packets, NEW mode \in {"threshold", "immediate"},
         NEW then \in {"idle", "recover"}, Unknown(p, mode, then), Elsewhere
  PROVE  StepKept
<1>1. /\ RecordIndeterminate(p, 1, Open(p), mode)
      /\ Report(p, "indeterminate", mode, then)
  BY DEF Unknown
<1>2. mode \in Modes /\ "indeterminate" \in Outcomes
  BY DEF Modes, Outcomes
<1>3. StoreKept /\ Narrows /\ StateOf(p) = "mutation_pending"
      /\ OpenAttempts' = OpenAttempts \ {p}
  BY <1>1, <1>2, EndKept, InvFacts
<1>4. /\ svc' \in ServiceType /\ svc'.pc = "terminal" /\ svc'.packet = svc.packet
      /\ svc'.target = p /\ svc'.outcome = "indeterminate"
  BY <1>1, <1>2, ReportFacts, InvFacts
<1>5. svc'.packet # NoPacket => OpenAttempts' = {}
  <2>1. ASSUME svc.packet # NoPacket PROVE OpenAttempts \subseteq {p}
    <3>1. p \in OpenAttempts
      BY <1>3, OpenByState
    <3> QED BY <2>1, <3>1, OpenInHand
  <2> QED BY <1>3, <1>4, <2>1
<1>6. PacketInHand'
  BY <1>2, <1>4 DEF PacketInHand
<1>7. UNCHANGED worldVars /\ sent' = sent /\ faults' \in 0 .. MaxFaults
  BY InvFacts DEF Elsewhere
<1>8. BrokerInv'
  BY <1>3, <1>4, <1>5, <1>6, <1>7, QuietStep
<1> QED BY <1>4, <1>8 DEF StepKept, Settles

(* record_recovery with "absent": FenceFails, and RecoverAbsent for the       *)
(* packet in hand.                                                            *)
LEMMA AbsentStep ==
  ASSUME BrokerInv, NEW p \in Packets, p = svc.packet, svc.pc \in {"fence", "recover"},
         NEW pc \in {"stop", "recover"}, RecordAbsent(p, 1, Open(p)), Goto(pc),
         Elsewhere
  PROVE  StepKept
<1>1. "none" \in Modes /\ pc \in Phases
  BY DEF Modes, Phases
<1>2. StoreKept /\ Narrows /\ OpenAttempts' = OpenAttempts \ {p}
  BY <1>1, EndKept, InvFacts
<1>3. svc' \in ServiceType /\ svc'.pc = pc /\ svc'.packet = svc.packet
  BY <1>1, GotoFacts, InvFacts
<1>4. OpenAttempts' = {}
  BY <1>2, OpenInHand, OrderAssumption
<1>5. PacketInHand'
  BY <1>3 DEF PacketInHand
<1>6. UNCHANGED worldVars /\ sent' = sent /\ faults' \in 0 .. MaxFaults
  BY InvFacts DEF Elsewhere
<1>7. BrokerInv'
  BY <1>2, <1>3, <1>4, <1>5, <1>6, QuietStep
<1> QED BY <1>3, <1>7 DEF StepKept, Settles

(* Another request's recovery meets an absent attempt and leaves it: then the *)
(* recovery is the one at startup.                                            *)
LEMMA LeftAbsentStep ==
  ASSUME BrokerInv, NEW p \in Packets, p \in OpenAttempts, p # svc.packet,
         UNCHANGED releaseVars, Goto("sweep"), Elsewhere
  PROVE  StepKept
<1>1. svc.packet = NoPacket
  BY OpenInHand
<1>2. StoreKept /\ Narrows
  BY SameKept, InvFacts
<1>3. svc' \in ServiceType /\ svc'.pc = "sweep" /\ svc'.packet = svc.packet
  BY GotoFacts, InvFacts DEF Phases
<1>4. PacketInHand'
  BY <1>3 DEF PacketInHand
<1>5. UNCHANGED worldVars /\ sent' = sent /\ faults' \in 0 .. MaxFaults
  BY InvFacts DEF Elsewhere
<1>6. BrokerInv'
  BY <1>1, <1>2, <1>3, <1>4, <1>5, QuietStep
<1> QED BY <1>3, <1>6 DEF StepKept, Settles

LEMMA SweepReceiptStep ==
  ASSUME BrokerInv, NEW p \in Packets, SweepReceipt(p)
  PROVE  StepKept
<1> DEFINE outcome == [confirmed |-> "succeeded", rejected |-> "rejected",
                       indeterminate |-> "indeterminate"][steps[<<p, 1>>].state]
           mode == IF steps[<<p, 1>>].state = "indeterminate" THEN "threshold"
                   ELSE "none"
<1>1. /\ svc.pc = "sweep" /\ p \in AwaitingReceipt /\ Goto("sweep") /\ Elsewhere
      /\ TerminalizeBundle(p, outcome, mode)
  BY DEF SweepReceipt
<1>2. outcome \in Outcomes /\ mode \in Modes
  <2>1. steps[<<p, 1>>].state \in {"confirmed", "rejected", "indeterminate"}
    BY <1>1 DEF AwaitingReceipt
  <2> QED BY <2>1 DEF Outcomes, Modes
<1> HIDE DEF outcome, mode
<1>3. StoreKept /\ Narrows /\ OpenAttempts' = OpenAttempts
  BY <1>1, <1>2, ReportKept, InvFacts
<1>4. svc' \in ServiceType /\ svc'.pc = "sweep" /\ svc'.packet = svc.packet
  BY <1>1, GotoFacts, InvFacts DEF Phases
<1>5. PacketInHand'
  BY <1>4 DEF PacketInHand
<1>6. UNCHANGED worldVars /\ sent' = sent /\ faults' \in 0 .. MaxFaults
  BY <1>1, InvFacts DEF Elsewhere
<1>7. svc.packet # NoPacket => OpenAttempts = {}
  BY <1>1 DEF BrokerInv, OneAtWork
<1>8. BrokerInv'
  BY <1>3, <1>4, <1>5, <1>6, <1>7, QuietStep
<1> QED BY <1>4, <1>8 DEF StepKept, Settles

LEMMA StopRequestStep ==
  ASSUME BrokerInv, Stop
  PROVE  StepKept
<1>1. svc.pc = "stop" /\ StopStep(svc.packet, 1, "rejected")
      /\ Report(svc.packet, "rejected", "none", "idle") /\ Elsewhere
  BY DEF Stop
<1>2. svc.packet \in Packets /\ svc.packet # NoPacket /\ "rejected" \in Outcomes
  BY <1>1, OrderAssumption DEF BrokerInv, PacketInHand, Outcomes
<1>3. StoreKept /\ Narrows /\ OpenAttempts' = OpenAttempts
  BY <1>1, <1>2, StopKept, InvFacts
<1>4. /\ svc' \in ServiceType /\ svc'.pc = "terminal" /\ svc'.packet = svc.packet
      /\ svc'.target = svc.packet /\ svc'.outcome = "rejected"
  BY <1>1, <1>2, ReportFacts, InvFacts
<1>5. PacketInHand'
  BY <1>2, <1>4 DEF PacketInHand
<1>6. UNCHANGED worldVars /\ sent' = sent /\ faults' \in 0 .. MaxFaults
  BY <1>1, InvFacts DEF Elsewhere
<1>7. OpenAttempts = {}
  BY <1>1, <1>2 DEF BrokerInv, OneAtWork
<1>8. BrokerInv'
  BY <1>3, <1>4, <1>5, <1>6, <1>7, QuietStep
<1> QED BY <1>4, <1>8 DEF StepKept, Settles

(* _terminalize, and the receipt that cannot be signed.                       *)
LEMMA TerminalStep ==
  ASSUME BrokerInv, Terminalize \/ SigningFails
  PROVE  StepKept
<1>1. svc.pc = "terminal" /\ svc.target \in Packets /\ svc.outcome \in Outcomes
  BY DEF BrokerInv, PacketInHand, Terminalize, SigningFails
<1>2. svc \in ServiceType /\ svc.mode \in Modes /\ svc.then \in {"idle", "recover"}
      /\ svc.packet \in Packets \cup {NoPacket}
  BY InvFacts, ServiceFields DEF Modes
<1>3. svc.packet # NoPacket => OpenAttempts = {}
  BY <1>1 DEF BrokerInv, OneAtWork
<1>4. StoreKept /\ Narrows /\ OpenAttempts' = OpenAttempts
  <2>1. CASE Terminalize
    <3>1. TerminalizeBundle(svc.target, svc.outcome, svc.mode)
      BY <2>1 DEF Terminalize
    <3> QED BY <1>1, <1>2, <3>1, ReportKept, InvFacts
  <2>2. CASE SigningFails /\ svc.then = "idle"
    <3>1. OpenCircuit(Order[svc.target].repo) /\ Order[svc.target].repo \in Repos
      BY <1>1, <2>2, OrderFields DEF SigningFails
    <3> QED BY <3>1, BreakerKept, InvFacts
  <2>3. CASE SigningFails /\ svc.then # "idle"
    <3>1. UNCHANGED releaseVars
      BY <2>3 DEF SigningFails
    <3> QED BY <3>1, SameKept, InvFacts
  <2> QED BY <2>1, <2>2, <2>3
<1>5. UNCHANGED worldVars /\ sent' = sent /\ faults' \in 0 .. MaxFaults
  BY InvFacts DEF Terminalize, SigningFails, Elsewhere
<1>6. /\ svc' \in ServiceType /\ svc'.pc \in {"idle", "down", "recover"}
      /\ svc'.packet \in {NoPacket, svc.packet}
      /\ svc'.pc # "recover" => svc'.packet = NoPacket
  <2>1. CASE svc' = Idle \/ svc' = Down
    BY <2>1, IdleFacts
  <2>2. CASE svc' = [svc EXCEPT !.pc = "recover", !.target = NoPacket,
                                !.outcome = "none", !.mode = "none", !.then = "idle"]
    BY <1>2, <2>2 DEF ServiceType, Phases
  <2> QED BY <2>1, <2>2 DEF Terminalize, SigningFails
<1>7. PacketInHand'
  BY <1>6 DEF PacketInHand
<1>8. BrokerInv'
  BY <1>4, <1>5, <1>6, <1>7, QuietStep
<1>9. Settles
  BY <1>3, <1>4 DEF Settles
<1> QED BY <1>8, <1>9 DEF StepKept

LEMMA OperatorStep ==
  ASSUME BrokerInv, Operator
  PROVE  StepKept
<1>1. PICK r \in Repos : CloseCircuit(r)
  BY DEF Operator
<1>2. StoreKept /\ Narrows /\ OpenAttempts' = OpenAttempts
  BY <1>1, BreakerKept, InvFacts
<1>3. svc' = svc /\ UNCHANGED worldVars /\ sent' = sent /\ faults' \in 0 .. MaxFaults
  BY InvFacts DEF Operator, Elsewhere
<1>4. PacketInHand'
  BY <1>3 DEF BrokerInv, PacketInHand
<1>5. svc.packet # NoPacket =>
        (svc.pc \in {"sweep", "live", "charge", "stop", "terminal"} =>
           OpenAttempts = {})
  BY DEF BrokerInv, OneAtWork
<1>6. BrokerInv'
  BY <1>2, <1>3, <1>4, <1>5, InvFacts, QuietStep
<1> QED BY <1>3, <1>6 DEF StepKept, Settles

-----------------------------------------------------------------------------
(* The steps that charge, send and credit a merge *)

(* A pull request that is still open was credited to no packet.               *)
LEMMA PreflightStep ==
  ASSUME BrokerInv, Preflight
  PROVE  StepKept
<1>1. svc.pc = "live" /\ Untouched(svc.packet) /\ Goto("charge") /\ Elsewhere
      /\ UNCHANGED releaseVars
  BY DEF Preflight
<1>2. svc.packet \in Packets /\ svc.packet # NoPacket
  BY <1>1, OrderAssumption DEF BrokerInv, PacketInHand
<1>3. StoreKept /\ Narrows /\ OpenAttempts' = OpenAttempts /\ ReleaseTypeOK'
  BY <1>1, SameKept, InvFacts DEF StoreKept, ReleaseInv
<1>4. svc' \in ServiceType /\ svc'.pc = "charge" /\ svc'.packet = svc.packet
  BY <1>1, GotoFacts, InvFacts DEF Phases
<1>5. PacketInHand'
  BY <1>2, <1>4 DEF PacketInHand
<1>6. UNCHANGED worldVars /\ sent' = sent /\ faults' \in 0 .. MaxFaults
  BY <1>1, InvFacts DEF Elsewhere
<1>7. OneAtWork'
  <2>1. OpenAttempts = {} /\ OneAtWork
    BY <1>1, <1>2 DEF BrokerInv, OneAtWork
  <2> QED BY <1>3, <1>4, <2>1, WorkKept
<1>8. CreditGone'
  <2>1. \A p \in Packets :
          steps[<<p, 1>>].state = "confirmed" => prs[PrOf[p]].state = "merged"
    BY DEF BrokerInv, ConfirmedMerged
  <2>2. prs[PrOf[svc.packet]].state = "open"
    BY <1>1 DEF Untouched
  <2>3. CreditGone /\ steps' = steps
    BY <1>1 DEF BrokerInv, releaseVars
  <2> QED BY <1>4, <2>1, <2>2, <2>3 DEF CreditGone
<1>9. OpenWhileActive' /\ ConfirmedMerged'
  BY <1>3, <1>6, OpenKept, MergedKept DEF BrokerInv, worldVars
<1>10. SendOwed'
  <2>1. wire' = wire /\ wire \in [Packets -> 0 .. 2] /\ SendOwed /\ BrokerTypeOK
    BY <1>6 DEF BrokerInv, BrokerTypeOK, worldVars
  <2>2. \A q \in Packets : wire'[q] <= wire[q] /\ Tried(q, 1)' = Tried(q, 1)
    BY <1>3, <2>1 DEF Narrows
  <2>3. wire' \in [Packets -> 0 .. 2]
    BY <2>1
  <2> QED BY <1>4, <1>6, <2>1, <2>2, <2>3, OwedKept
<1>11. BrokerTypeOK'
  BY <1>3, <1>4, <1>6, WorldType, InvFacts
<1>12. BrokerInv'
  BY <1>3, <1>5, <1>7, <1>8, <1>9, <1>10, <1>11 DEF BrokerInv, StoreKept
<1> QED BY <1>4, <1>12 DEF StepKept, Settles

LEMMA ChargeStep ==
  ASSUME BrokerInv, ChargeAttempt
  PROVE  StepKept
<1>0. svc.pc = "charge" /\ svc.packet \in Packets
  BY DEF ChargeAttempt, BrokerInv, PacketInHand
<1> PICK p \in Packets : p = svc.packet
  BY <1>0
<1>1. svc.pc = "charge" /\ Goto("fence") /\ Elsewhere
      /\ BeginMutation(p, 1, Order[p].base, now)
  BY DEF ChargeAttempt
<1>2. p \in Packets /\ p # NoPacket
  BY OrderAssumption
<1>3. StoreKept /\ Charges(p) /\ ReleaseTypeOK'
  BY <1>1, <1>2, ChargeKept, InvFacts DEF StoreKept, ReleaseInv
<1>4. svc' \in ServiceType /\ svc'.pc = "fence" /\ svc'.packet = p
  BY <1>1, GotoFacts, InvFacts DEF Phases
<1>5. PacketInHand'
  BY <1>2, <1>4 DEF PacketInHand
<1>6. UNCHANGED worldVars /\ sent' = sent /\ faults' \in 0 .. MaxFaults
  BY <1>1, InvFacts DEF Elsewhere
<1>7. BrokerTypeOK'
  BY <1>3, <1>4, <1>6, WorldType, InvFacts
<1>8. OpenWhileActive'
  BY <1>3 DEF BrokerInv, OpenWhileActive, OpenAttempts, Charges, StateOf
<1>9. OneAtWork'
  BY <1>2, <1>3, <1>4 DEF BrokerInv, OneAtWork, Charges
<1>10. ConfirmedMerged'
  <2>1. ConfirmedMerged /\ head' = head /\ prs' = prs
    BY <1>6 DEF BrokerInv, worldVars
  <2>2. \A q \in Packets : StateOf(q)' = "confirmed" =>
          StateOf(q) = "confirmed" /\ MergeOf(q)' = MergeOf(q)
    BY <1>3 DEF Charges
  <2> QED BY <2>1, <2>2 DEF ConfirmedMerged, StateOf, MergeOf
<1>11. CreditGone'
  <2>1. \A q, r \in Packets : q # r /\ PrOf[q] = PrOf[r] /\ StateOf(q) = "confirmed" =>
          StateOf(r) \notin {"mutation_pending", "confirmed"} /\ p # r
    BY <1>1 DEF BrokerInv, CreditGone, StateOf
  <2>2. \A q \in Packets : StateOf(q)' = IF q = p THEN "mutation_pending" ELSE StateOf(q)
    BY <1>3 DEF Charges
  <2> QED BY <1>4, <2>1, <2>2 DEF CreditGone, StateOf
<1>12. SendOwed'
  <2> SUFFICES ASSUME NEW q \in Packets
               PROVE  /\ wire'[q] <= sent'[q]
                      /\ sent'[q] <= Cardinality(Tried(q, 1)')
                      /\ svc'.pc \in {"fence", "send"} /\ svc'.packet = q =>
                           sent'[q] < Cardinality(Tried(q, 1)')
    BY DEF SendOwed
  <2>1. /\ wire'[q] = wire[q] /\ sent'[q] = sent[q] /\ sent[q] \in 0 .. 2
        /\ wire[q] <= sent[q] /\ sent[q] <= Cardinality(Tried(q, 1))
    BY <1>6 DEF BrokerInv, BrokerTypeOK, SendOwed, worldVars
  <2>2. Cardinality(Tried(q, 1)) \in Nat
    BY TriedCount
  <2>3. CASE q = p
    <3>1. Cardinality(Tried(q, 1)') = Cardinality(Tried(q, 1)) + 1
      BY <1>3, <2>3 DEF Charges
    <3> QED BY <2>1, <2>2, <3>1
  <2>4. CASE q # p
    <3>1. Tried(q, 1)' = Tried(q, 1)
      BY <1>3, <2>4 DEF Charges
    <3> QED BY <1>4, <2>1, <2>4, <3>1
  <2> QED BY <2>3, <2>4
<1>13. BrokerInv'
  BY <1>3, <1>5, <1>7, <1>8, <1>9, <1>10, <1>11, <1>12 DEF BrokerInv, StoreKept
<1> QED BY <1>4, <1>13 DEF StepKept, Settles

(* merge_pull_request: the attempt it was charged for is still unsent.        *)
LEMMA SendStep ==
  ASSUME BrokerInv, Send
  PROVE  StepKept
<1> DEFINE p == svc.packet
<1>1. /\ svc.pc = "send" /\ Goto("await") /\ UNCHANGED releaseVars
      /\ wire' = [wire EXCEPT ![p] = @ + 1] /\ sent' = [sent EXCEPT ![p] = @ + 1]
      /\ UNCHANGED <<now, head, prs, edits, faults>>
  BY DEF Send
<1>2. p \in Packets /\ p # NoPacket
  BY <1>1, OrderAssumption DEF BrokerInv, PacketInHand
<1>3. StoreKept /\ Narrows /\ OpenAttempts' = OpenAttempts /\ ReleaseTypeOK'
  BY <1>1, SameKept, InvFacts DEF StoreKept, ReleaseInv
<1>4. svc' \in ServiceType /\ svc'.pc = "await" /\ svc'.packet = p
  BY <1>1, GotoFacts, InvFacts DEF Phases
<1>5. PacketInHand'
  BY <1>2, <1>4 DEF PacketInHand
<1>6. wire \in [Packets -> 0 .. 2] /\ sent \in [Packets -> 0 .. 2]
  BY DEF BrokerInv, BrokerTypeOK
<1> HIDE DEF p
<1>7. \A q \in Packets :
        /\ wire'[q] = IF q = p THEN wire[q] + 1 ELSE wire[q]
        /\ sent'[q] = IF q = p THEN sent[q] + 1 ELSE sent[q]
  BY <1>1, <1>6
<1>8. \A q \in Packets :
        /\ wire[q] \in 0 .. 2 /\ sent[q] \in 0 .. 2
        /\ Cardinality(Tried(q, 1)) \in Nat /\ Cardinality(Tried(q, 1)) <= 2
        /\ wire[q] <= sent[q] /\ sent[q] <= Cardinality(Tried(q, 1))
        /\ q = p => sent[q] < Cardinality(Tried(q, 1))
  BY <1>1, <1>6, TriedCount DEF BrokerInv, SendOwed, p
<1>9. wire' \in [Packets -> 0 .. 2] /\ sent' \in [Packets -> 0 .. 2]
  <2>1. wire[p] + 1 \in 0 .. 2 /\ sent[p] + 1 \in 0 .. 2
    BY <1>2, <1>8 DEF p
  <2> QED BY <1>1, <1>6, <2>1
<1>10. SendOwed'
  <2> SUFFICES ASSUME NEW q \in Packets
               PROVE  wire'[q] <= sent'[q] /\ sent'[q] <= Cardinality(Tried(q, 1)')
    BY <1>4 DEF SendOwed
  <2>1. Tried(q, 1)' = Tried(q, 1)
    BY <1>3 DEF Narrows
  <2>2. wire'[q] <= sent'[q] /\ sent'[q] <= Cardinality(Tried(q, 1))
    BY <1>7, <1>8
  <2> QED BY <2>1, <2>2
<1>11. BrokerTypeOK'
  BY <1>1, <1>3, <1>4, <1>9 DEF BrokerInv, BrokerTypeOK
<1>12. OneAtWork'
  BY <1>3, <1>4, WorkKept DEF BrokerInv, p
<1>13. OpenWhileActive' /\ ConfirmedMerged' /\ CreditGone'
  BY <1>1, <1>3, <1>4, OpenKept, MergedKept, CreditKept DEF BrokerInv
<1>14. BrokerInv'
  BY <1>3, <1>5, <1>10, <1>11, <1>12, <1>13 DEF BrokerInv, StoreKept
<1> QED BY <1>4, <1>14 DEF StepKept, Settles

(* A merge that was read back is credited: RecoverMerged and ReadBack. The    *)
(* bundle of another packet for the same pull request is not at work and was  *)
(* not credited before.                                                       *)
LEMMA CreditStep ==
  ASSUME BrokerInv, NEW p \in Packets, NEW then \in {"idle", "recover"}, NEW merge,
         ReadbackOk(p, merge), Confirm(p, then), Elsewhere
  PROVE  StepKept
<1> DEFINE r == prs[PrOf[p]]
<1>1. /\ r.state = "merged" /\ r.commit = merge /\ r.parent = Order[p].base
      /\ ConfirmStep(p, 1, Open(p), r.commit, r.parent)
      /\ Report(p, "succeeded", "none", then)
  BY DEF ReadbackOk, Confirm
<1>2. PrOf[p] \in PRs /\ r \in PullRequest
  BY BrokerAssumption DEF BrokerInv, BrokerTypeOK
<1>3. r.commit \in Commits /\ r.parent \in Commits
  <2>1. r.commit # NoCommit
    BY <1>1, <1>2 DEF BrokerInv, ConfirmedMerged
  <2> QED BY <1>1, <1>2, <2>1, OrderFields DEF PullRequest
<1>4. StoreKept /\ Credits(p, r.commit) /\ ReleaseTypeOK'
  BY <1>1, <1>3, ConfirmKept, InvFacts DEF StoreKept, ReleaseInv
<1>5. "succeeded" \in Outcomes
  BY DEF Outcomes
<1>6. /\ svc' \in ServiceType /\ svc'.pc = "terminal" /\ svc'.packet = svc.packet
      /\ svc'.target = p /\ svc'.outcome = "succeeded"
  BY <1>1, <1>5, ReportFacts, InvFacts
<1>7. PacketInHand'
  BY <1>5, <1>6 DEF PacketInHand
<1>8. UNCHANGED worldVars /\ sent' = sent /\ faults' \in 0 .. MaxFaults
  BY InvFacts DEF Elsewhere
<1>9. BrokerTypeOK'
  BY <1>4, <1>6, <1>8, WorldType, InvFacts
<1>10. /\ StateOf(p) = "mutation_pending" /\ p \in OpenAttempts
       /\ OpenAttempts' = OpenAttempts \ {p} /\ bundles' = bundles
       /\ bundles[p] \in ActiveStates
  BY <1>4, OpenByState DEF Credits, BrokerInv, OpenWhileActive
<1>11. OpenWhileActive'
  BY <1>10 DEF BrokerInv, OpenWhileActive
<1>12. OneAtWork'
  <2>1. ASSUME svc.packet # NoPacket PROVE OpenAttempts' = {}
    BY <1>10, <2>1, OpenInHand
  <2> QED BY <1>6, <1>10, <2>1 DEF BrokerInv, OneAtWork
<1>13. ConfirmedMerged'
  <2>1. ConfirmedMerged /\ head' = head /\ prs' = prs
    BY <1>8 DEF BrokerInv, worldVars
  <2>2. \A q \in Packets :
          /\ StateOf(q)' = IF q = p THEN "confirmed" ELSE StateOf(q)
          /\ MergeOf(q)' = IF q = p THEN r.commit ELSE MergeOf(q)
    BY <1>4 DEF Credits
  <2> QED BY <1>1, <2>1, <2>2 DEF ConfirmedMerged, StateOf, MergeOf
<1>14. CreditGone'
  <2>1. \A q \in Packets : StateOf(q)' = IF q = p THEN "confirmed" ELSE StateOf(q)
    BY <1>4 DEF Credits
  <2>2. \A q, s \in Packets : q # s /\ PrOf[q] = PrOf[s] /\ StateOf(q) = "confirmed" =>
          StateOf(s) \notin {"mutation_pending", "confirmed"}
    BY DEF BrokerInv, CreditGone, StateOf
  <2>3. ASSUME NEW q \in Packets, StateOf(q) = "mutation_pending" PROVE q = p
    <3>1. bundles[q] \in ActiveStates
      BY <2>3, OpenByState DEF BrokerInv, OpenWhileActive
    <3> QED BY <1>10, <3>1, OneActive, InvFacts
  <2> QED BY <1>6, <1>10, <2>1, <2>2, <2>3 DEF CreditGone, StateOf
<1>15. SendOwed'
  <2>1. wire' = wire /\ wire \in [Packets -> 0 .. 2] /\ SendOwed /\ BrokerTypeOK
    BY <1>8 DEF BrokerInv, BrokerTypeOK, worldVars
  <2>2. \A q \in Packets : wire'[q] <= wire[q] /\ Tried(q, 1)' = Tried(q, 1)
    BY <1>4, <2>1 DEF Credits
  <2>3. wire' \in [Packets -> 0 .. 2]
    BY <2>1
  <2> QED BY <1>6, <1>8, <2>1, <2>2, <2>3, OwedKept
<1>16. BrokerInv'
  BY <1>4, <1>7, <1>9, <1>11, <1>12, <1>13, <1>14, <1>15 DEF BrokerInv, StoreKept
<1> QED BY <1>6, <1>16 DEF StepKept, Settles

-----------------------------------------------------------------------------
(* Requests come in, and GitHub and its people work *)

LEMMA ReceiveStep ==
  ASSUME BrokerInv, NEW p \in Packets, Receive(p)
  PROVE  StepKept
<1>1. /\ svc.pc = "idle" /\ accepted[p] # Never /\ bundles[p] \notin Outcomes
      /\ svc' = [Idle EXCEPT !.pc = "recover", !.packet = p, !.started = now]
      /\ UNCHANGED releaseVars /\ Elsewhere
  BY DEF Receive
<1>2. StoreKept /\ Narrows /\ ReleaseTypeOK'
  BY <1>1, SameKept, InvFacts DEF StoreKept, ReleaseInv
<1>3. svc' \in ServiceType /\ svc'.pc = "recover" /\ svc'.packet = p
  BY <1>1, RequestFacts, InvFacts
<1>4. PacketInHand'
  BY <1>3 DEF PacketInHand
<1>5. UNCHANGED worldVars /\ sent' = sent /\ faults' \in 0 .. MaxFaults
  BY <1>1, InvFacts DEF Elsewhere
<1>6. BrokerTypeOK'
  BY <1>2, <1>3, <1>5, WorldType, InvFacts
<1>7. bundles[p] \in ActiveStates
  BY <1>1, InvFacts DEF ReleaseInv, RowsTogether, ReleaseTypeOK, BundleStates
<1>8. OneAtWork'
  <2>1. \A q \in Packets : bundles[q] \in ActiveStates => q = p
    BY <1>7, OneActive, InvFacts
  <2>2. bundles' = bundles
    BY <1>1 DEF releaseVars
  <2> QED BY <1>3, <2>1, <2>2 DEF OneAtWork
<1>9. OpenWhileActive' /\ ConfirmedMerged' /\ CreditGone'
  BY <1>2, <1>3, <1>5, OpenKept, MergedKept, CreditKept DEF BrokerInv, worldVars
<1>10. SendOwed'
  <2>1. wire' = wire /\ wire \in [Packets -> 0 .. 2] /\ SendOwed /\ BrokerTypeOK
    BY <1>5 DEF BrokerInv, BrokerTypeOK, worldVars
  <2>2. \A q \in Packets : wire'[q] <= wire[q] /\ Tried(q, 1)' = Tried(q, 1)
    BY <1>2, <2>1 DEF Narrows
  <2>3. wire' \in [Packets -> 0 .. 2]
    BY <2>1
  <2> QED BY <1>3, <1>5, <2>1, <2>2, <2>3, OwedKept
<1>11. BrokerInv'
  BY <1>2, <1>4, <1>6, <1>8, <1>9, <1>10 DEF BrokerInv, StoreKept
<1> QED BY <1>3, <1>11 DEF StepKept, Settles

(* reserve: no bundle was at work, so no attempt was open.                    *)
LEMMA AcceptStep ==
  ASSUME BrokerInv, NEW p \in Packets, Accept(p)
  PROVE  StepKept
<1>1. /\ svc.pc = "idle" /\ Reserve(p, now) /\ Elsewhere
      /\ svc' = [Idle EXCEPT !.pc = "live", !.packet = p, !.started = now]
  BY DEF Accept
<1>2. /\ StoreKept /\ UNCHANGED <<steps, attempts>> /\ ReleaseTypeOK'
      /\ \A q \in Packets : /\ bundles[q] \notin ActiveStates
                            /\ bundles'[q] \in ActiveStates => q = p
  BY <1>1, ReserveKept, InvFacts DEF StoreKept, ReleaseInv
<1>3. svc' \in ServiceType /\ svc'.pc = "live" /\ svc'.packet = p
  BY <1>1, RequestFacts, InvFacts
<1>4. PacketInHand'
  BY <1>3 DEF PacketInHand
<1>5. UNCHANGED worldVars /\ sent' = sent /\ faults' \in 0 .. MaxFaults
  BY <1>1, InvFacts DEF Elsewhere
<1>6. BrokerTypeOK'
  BY <1>2, <1>3, <1>5, WorldType, InvFacts
<1>7. OpenAttempts' = {}
  <2>1. OpenAttempts = {}
    BY <1>2, OpenByState DEF BrokerInv, OpenWhileActive
  <2> QED BY <1>2, <2>1 DEF OpenAttempts
<1>8. OneAtWork' /\ OpenWhileActive'
  BY <1>2, <1>3, <1>7 DEF OneAtWork, OpenWhileActive
<1>9. ConfirmedMerged' /\ CreditGone'
  BY <1>2, <1>3, <1>5 DEF BrokerInv, worldVars, ConfirmedMerged, CreditGone
<1>10. SendOwed'
  <2>1. wire' = wire /\ wire \in [Packets -> 0 .. 2] /\ SendOwed /\ BrokerTypeOK
    BY <1>5 DEF BrokerInv, BrokerTypeOK, worldVars
  <2>2. \A q \in Packets : wire'[q] <= wire[q] /\ Tried(q, 1)' = Tried(q, 1)
    BY <1>2, <2>1 DEF Tried
  <2>3. wire' \in [Packets -> 0 .. 2]
    BY <2>1
  <2> QED BY <1>3, <1>5, <2>1, <2>2, <2>3, OwedKept
<1>11. BrokerInv'
  BY <1>2, <1>4, <1>6, <1>8, <1>9, <1>10 DEF BrokerInv, StoreKept
<1> QED BY <1>3, <1>11 DEF StepKept, Settles

(* What happens on GitHub changes the pull requests but none that is merged,  *)
(* and every merge makes a commit that is newer than all others.              *)
Progresses ==
  /\ prs' \in [PRs -> PullRequest] /\ head' \in Commits /\ head' >= head
  /\ \A r \in PRs :
       \/ prs'[r] = prs[r]
       \/ /\ prs[r].state \in {"open", "moved"} /\ prs'[r].state \in {"open", "moved"}
          /\ prs'[r].commit = prs[r].commit
       \/ /\ prs[r].state = "open" /\ prs'[r].state \in {"merged", "taken"}
          /\ prs'[r].commit = head' /\ head' = head + 1
          /\ \A s \in PRs : s # r => prs'[s] = prs[s]

LEMMA SquashProgresses ==
  ASSUME BrokerInv, NEW r \in PRs, NEW state \in {"merged", "taken"},
         NEW p \in Packets \cup {NoPacket}, Squashed(r, state, p)
  PROVE  Progresses
<1> DEFINE row == [state |-> state, commit |-> head + 1, parent |-> head, by |-> p]
<1>1. prs[r].state = "open" /\ head + 1 \in Commits /\ head' = head + 1
      /\ prs' = [prs EXCEPT ![r] = row]
  BY DEF Squashed
<1>2. prs \in [PRs -> PullRequest] /\ head \in Commits /\ head \in Nat
  BY InvFacts DEF BrokerTypeOK
<1>3. row \in PullRequest /\ row.state = state /\ row.commit = head + 1
  BY <1>1, <1>2 DEF PullRequest
<1> HIDE DEF row
<1>4. prs' \in [PRs -> PullRequest]
      /\ \A s \in PRs : prs'[s] = IF s = r THEN row ELSE prs[s]
  BY <1>1, <1>2, <1>3
<1> QED BY <1>1, <1>2, <1>3, <1>4 DEF Progresses

LEMMA EditProgresses ==
  ASSUME BrokerInv, Edit
  PROVE  Progresses
<1>0. prs \in [PRs -> PullRequest] /\ head \in Commits /\ head \in Nat
      /\ \A r \in PRs : prs[r] \in PullRequest
  BY InvFacts DEF BrokerTypeOK
<1>1. CASE head + 1 \in Commits /\ head' = head + 1 /\ prs' = prs
  BY <1>0, <1>1 DEF Progresses
<1>2. ASSUME NEW r \in PRs, prs[r].state \in {"open", "moved"}, head' = head,
             prs' = [prs EXCEPT ![r].state = IF @ = "open" THEN "moved" ELSE "open"]
      PROVE  Progresses
  <2> DEFINE row == [prs[r] EXCEPT !.state = IF @ = "open" THEN "moved" ELSE "open"]
  <2>1. prs' = [prs EXCEPT ![r] = row]
    BY <1>0, <1>2
  <2>2. row \in PullRequest /\ row.state \in {"open", "moved"}
        /\ row.commit = prs[r].commit
    BY <1>0, <1>2 DEF PullRequest
  <2> HIDE DEF row
  <2>3. prs' \in [PRs -> PullRequest]
        /\ \A s \in PRs : prs'[s] = IF s = r THEN row ELSE prs[s]
    BY <1>0, <2>1, <2>2
  <2> QED BY <1>0, <1>2, <2>2, <2>3 DEF Progresses
<1>3. ASSUME NEW r \in PRs, Squashed(r, "taken", NoPacket) PROVE Progresses
  BY <1>3, SquashProgresses
<1> QED BY <1>1, <1>2, <1>3 DEF Edit

LEMMA ProgressMerged ==
  ASSUME BrokerInv, Progresses, UNCHANGED steps
  PROVE  ConfirmedMerged'
<1>0. ConfirmedMerged
  BY DEF BrokerInv
<1>1. /\ head \in Nat /\ head' \in Nat /\ NoCommit # head' /\ head' >= head
      /\ \A r \in PRs : prs[r].commit # NoCommit => prs[r].commit \in Nat
      /\ \A r \in PRs : prs[r].state \in {"open", "moved", "merged", "taken"}
  BY InvFacts, OrderAssumption DEF BrokerTypeOK, PullRequest, Progresses
<1>2. ASSUME NEW r \in PRs
      PROVE  /\ prs'[r].commit = NoCommit <=> prs'[r].state \in {"open", "moved"}
             /\ prs'[r].commit # NoCommit => prs'[r].commit <= head'
  <2>1. /\ prs[r].commit = NoCommit <=> prs[r].state \in {"open", "moved"}
        /\ prs[r].commit # NoCommit => prs[r].commit <= head
    BY <1>0 DEF ConfirmedMerged
  <2> QED BY <1>1, <2>1 DEF Progresses
<1>3. ASSUME NEW r \in PRs, NEW s \in PRs, r # s, prs'[r].commit # NoCommit
      PROVE  prs'[r].commit # prs'[s].commit
  <2>1. /\ prs[r].commit # NoCommit => prs[r].commit <= head
        /\ prs[s].commit # NoCommit => prs[s].commit <= head
        /\ prs[r].commit # NoCommit => prs[r].commit # prs[s].commit
    BY <1>0, <1>3 DEF ConfirmedMerged
  <2>2. CASE prs'[r].commit = prs[r].commit /\ prs'[s].commit = prs[s].commit
    BY <1>3, <2>1, <2>2
  <2>3. CASE prs'[r].commit # prs[r].commit
    <3>1. prs'[r].commit = head' /\ head' = head + 1 /\ prs'[s] = prs[s]
      BY <1>3, <2>3 DEF Progresses
    <3> QED BY <1>1, <2>1, <3>1
  <2>4. CASE prs'[s].commit # prs[s].commit
    <3>1. prs'[s].commit = head' /\ head' = head + 1 /\ prs'[r] = prs[r]
      BY <1>3, <2>4 DEF Progresses
    <3> QED BY <1>1, <1>3, <2>1, <3>1
  <2> QED BY <2>2, <2>3, <2>4
<1>4. ASSUME NEW p \in Packets, steps[<<p, 1>>].state = "confirmed"
      PROVE  prs'[PrOf[p]] = prs[PrOf[p]]
  <2>1. prs[PrOf[p]].state = "merged" /\ PrOf[p] \in PRs
    BY <1>0, <1>4, BrokerAssumption DEF ConfirmedMerged
  <2> QED BY <2>1 DEF Progresses
<1> QED BY <1>0, <1>2, <1>3, <1>4 DEF ConfirmedMerged

(* GitHubMerge, GitHubRefuse, Tick and Edit.                                  *)
LEMMA WorldStep ==
  ASSUME BrokerInv,
         \/ \E p \in Packets : GitHubMerge(p) \/ GitHubRefuse(p)
         \/ Tick \/ Edit
  PROVE  StepKept
<1>1. UNCHANGED releaseVars /\ sent' = sent /\ faults' = faults
  BY DEF GitHubMerge, GitHubRefuse, Tick, Edit
<1>2. StoreKept /\ Narrows /\ OpenAttempts' = OpenAttempts /\ ReleaseTypeOK'
  BY <1>1, SameKept, InvFacts DEF StoreKept, ReleaseInv
<1>3. /\ wire' \in [Packets -> 0 .. 2]
      /\ \A q \in Packets : wire'[q] <= wire[q]
  <2>0. wire \in [Packets -> 0 .. 2]
    BY InvFacts DEF BrokerTypeOK
  <2>1. CASE wire' = wire
    BY <2>0, <2>1
  <2>2. ASSUME NEW p \in Packets, wire[p] > 0, wire' = [wire EXCEPT ![p] = @ - 1]
        PROVE  /\ wire' \in [Packets -> 0 .. 2]
               /\ \A q \in Packets : wire'[q] <= wire[q]
    BY <2>0, <2>2
  <2> QED BY <2>1, <2>2 DEF GitHubMerge, GitHubRefuse, Tick, Edit
<1>4. /\ svc' \in ServiceType /\ svc'.pc = svc.pc /\ svc'.packet = svc.packet
      /\ svc'.target = svc.target /\ svc'.outcome = svc.outcome
  <2>1. CASE svc' = svc
    BY <2>1, InvFacts
  <2>2. CASE head + 1 \in Commits /\ svc' = [svc EXCEPT !.merge = head + 1]
    BY <2>2, InvFacts DEF ServiceType
  <2> QED BY <2>1, <2>2 DEF GitHubMerge, GitHubRefuse, Tick, Edit, Squashed
<1>5. PacketInHand'
  BY <1>4 DEF BrokerInv, PacketInHand
<1>6. Progresses \/ UNCHANGED <<head, prs>>
  <2>1. ASSUME NEW p \in Packets, Squashed(PrOf[p], "merged", p) PROVE Progresses
    BY <2>1, SquashProgresses, BrokerAssumption
  <2> QED BY <2>1, EditProgresses DEF GitHubMerge, GitHubRefuse, Tick
<1>7. ConfirmedMerged'
  BY <1>1, <1>2, <1>6, ProgressMerged, MergedKept DEF BrokerInv, releaseVars
<1>8. BrokerTypeOK'
  <2>1. prs' \in [PRs -> PullRequest] /\ head' \in Commits
    BY <1>6, InvFacts DEF Progresses, BrokerTypeOK
  <2>2. now' \in Times
    BY InvFacts DEF GitHubMerge, GitHubRefuse, Tick, Edit
  <2>3. edits' \in 0 .. MaxEdits
    BY InvFacts, BrokerAssumption DEF BrokerTypeOK, GitHubMerge, GitHubRefuse, Tick, Edit
  <2> QED BY <1>1, <1>2, <1>3, <1>4, <2>1, <2>2, <2>3, InvFacts DEF BrokerTypeOK
<1>9. OpenWhileActive' /\ CreditGone'
  BY <1>2, <1>4, OpenKept, CreditKept DEF BrokerInv
<1>10. OneAtWork'
  BY <1>2, <1>4, WorkKept DEF BrokerInv, OneAtWork
<1>11. SendOwed'
  BY <1>1, <1>2, <1>3, <1>4, OwedKept DEF BrokerInv, Narrows
<1>12. BrokerInv'
  BY <1>2, <1>5, <1>7, <1>8, <1>9, <1>10, <1>11 DEF BrokerInv, StoreKept
<1> QED BY <1>4, <1>12 DEF StepKept, Settles

-----------------------------------------------------------------------------
(* The theorems *)

LEMMA BrokerInvInit ==
  ASSUME BrokerInit
  PROVE  BrokerInv
<1>1. ReleaseInv /\ ReceiptTrue /\ ReleaseTypeOK
  BY InvInit DEF BrokerInit, ReleaseInv
<1>2. svc \in ServiceType /\ svc.pc = "down" /\ svc.packet = NoPacket
  BY IdleFacts DEF BrokerInit
<1>3. \A q \in Packets : steps[<<q, 1>>].state = "pending"
  BY PositionFacts DEF BrokerInit, ReleaseInit, NewStep
<1>4. OpenRequest \in PullRequest
  BY DEF OpenRequest, PullRequest
<1>5. \A q \in Packets : wire[q] = 0 /\ sent[q] = 0
  BY DEF BrokerInit
<1>6. \A r \in PRs : prs[r].state = "open" /\ prs[r].commit = NoCommit
  BY DEF BrokerInit, OpenRequest
<1>7. BrokerTypeOK
  BY <1>1, <1>2, <1>4, BrokerAssumption DEF BrokerInit, BrokerTypeOK
<1>8. PacketInHand /\ OneAtWork
  BY <1>2 DEF PacketInHand, OneAtWork
<1>9. OpenWhileActive /\ CreditGone
  BY <1>3 DEF OpenWhileActive, OpenAttempts, CreditGone
<1>10. ConfirmedMerged
  BY <1>3, <1>6 DEF ConfirmedMerged
<1>11. SendOwed
  <2>1. \A q \in Packets : Cardinality(Tried(q, 1)) \in Nat
    BY TriedCount
  <2>2. svc.pc \notin {"fence", "send"}
    BY <1>2
  <2> QED BY <1>5, <2>1, <2>2 DEF SendOwed
<1> QED BY <1>1, <1>7, <1>8, <1>9, <1>10, <1>11 DEF BrokerInv

LEMMA BrokerInvNext ==
  ASSUME BrokerInv, BrokerNext
  PROVE  StepKept
<1>1. CASE \/ Start \/ RecoverDone \/ SweepDone \/ RejectLive \/ RefuseCharge
           \/ FailCharge \/ FenceHolds \/ MergeAnswered \/ Crash
  BY <1>1, IdlingStep
<1>2. ASSUME NEW p \in Packets, RecoverUnavailable(p) PROVE StepKept
  BY <1>2, UnknownStep DEF RecoverUnavailable
<1>3. ASSUME NEW p \in Packets, RecoverMerged(p) PROVE StepKept
  BY <1>3, CreditStep DEF RecoverMerged
<1>4. ASSUME NEW p \in Packets, RecoverMismatch(p) PROVE StepKept
  BY <1>4, UnknownStep DEF RecoverMismatch
<1>5. ASSUME NEW p \in Packets, RecoverAbsent(p) PROVE StepKept
  <2>1. CASE svc.packet = p
    BY <1>5, <2>1, AbsentStep DEF RecoverAbsent
  <2>2. CASE svc.packet # p
    BY <1>5, <2>2, LeftAbsentStep DEF RecoverAbsent
  <2> QED BY <2>1, <2>2
<1>6. ASSUME NEW p \in Packets, SweepReceipt(p) PROVE StepKept
  BY <1>6, SweepReceiptStep
<1>7. CASE FenceFails
  <2>1. svc.pc = "fence" /\ svc.packet \in Packets
    BY <1>7 DEF FenceFails, BrokerInv, PacketInHand
  <2> QED BY <1>7, <2>1, AbsentStep DEF FenceFails
<1>8. CASE MergeUnanswered
  <2>1. svc.packet \in Packets
    BY <1>8 DEF MergeUnanswered, BrokerInv, PacketInHand
  <2> QED BY <1>8, <2>1, UnknownStep DEF MergeUnanswered
<1>9. CASE ReadBack
  <2>1. svc.packet \in Packets
    BY <1>9 DEF ReadBack, BrokerInv, PacketInHand
  <2> QED BY <1>9, <2>1, UnknownStep, CreditStep DEF ReadBack
<1>10. CASE Preflight \/ ChargeAttempt \/ Send \/ Stop \/ Terminalize
            \/ SigningFails \/ Operator
  BY <1>10, PreflightStep, ChargeStep, SendStep, StopRequestStep, TerminalStep,
     OperatorStep
<1>11. ASSUME NEW p \in Packets, Receive(p) \/ Accept(p) PROVE StepKept
  BY <1>11, ReceiveStep, AcceptStep
<1>12. CASE \/ \E p \in Packets : GitHubMerge(p) \/ GitHubRefuse(p)
            \/ Tick \/ Edit
  BY <1>12, WorldStep
<1> QED BY <1>1, <1>2, <1>3, <1>4, <1>5, <1>6, <1>7, <1>8, <1>9, <1>10, <1>11, <1>12
        DEF BrokerNext, ServiceStep

LEMMA BrokerInvStutter ==
  ASSUME BrokerInv, UNCHANGED brokerVars
  PROVE  BrokerInv'
<1>1. UNCHANGED releaseVars /\ UNCHANGED worldVars /\ sent' = sent
      /\ svc' = svc /\ faults' = faults
  BY DEF brokerVars
<1>2. StoreKept /\ Narrows /\ OpenAttempts' = OpenAttempts
  BY <1>1, SameKept, InvFacts
<1>3. PacketInHand'
  BY <1>1 DEF BrokerInv, PacketInHand
<1>4. svc.packet # NoPacket =>
        (svc.pc \in {"sweep", "live", "charge", "stop", "terminal"} =>
           OpenAttempts = {})
  BY DEF BrokerInv, OneAtWork
<1> QED BY <1>1, <1>2, <1>3, <1>4, InvFacts, QuietStep

(* What the invariant says of succeeded bundles and of the calls sent.        *)
LEMMA MergesFollow ==
  ASSUME BrokerInv
  PROVE  MergesTrue
<1>1. ASSUME NEW p \in Packets, bundles[p] = "succeeded"
      PROVE  steps[<<p, 1>>].state = "confirmed"
  <2>1. StepsIn(p, {"confirmed"}) = 1 .. Order[p].size
    BY <1>1 DEF BrokerInv, ReceiptTrue
  <2>2. 1 \in 1 .. Order[p].size
    BY OrderFields
  <2> QED BY <2>1, <2>2 DEF StepsIn
<1>2. SucceededMerged
  BY <1>1 DEF BrokerInv, ConfirmedMerged, SucceededMerged
<1>3. MergeCreditedOnce
  <2> SUFFICES ASSUME NEW p \in Packets, NEW q \in Packets, p # q,
                      bundles[p] = "succeeded", bundles[q] = "succeeded"
               PROVE  steps[<<p, 1>>].merge # steps[<<q, 1>>].merge
    BY DEF MergeCreditedOnce
  <2>1. steps[<<p, 1>>].state = "confirmed" /\ steps[<<q, 1>>].state = "confirmed"
    BY <1>1
  <2>2. PrOf[p] # PrOf[q]
    BY <2>1 DEF BrokerInv, CreditGone
  <2>3. PrOf[p] \in PRs /\ PrOf[q] \in PRs
    BY BrokerAssumption
  <2> QED BY <2>1, <2>2, <2>3 DEF BrokerInv, ConfirmedMerged
<1>4. SentOnlyCharged
  <2> SUFFICES ASSUME NEW p \in Packets
               PROVE  /\ sent[p] <= Cardinality(Tried(p, 1))
                      /\ sent[p] = 2 => attempts[<<p, 1, 1>>].state = "absent"
    BY DEF SentOnlyCharged
  <2>1. sent[p] <= Cardinality(Tried(p, 1)) /\ StepAgrees(p, 1)
    BY PositionFacts DEF BrokerInv, SendOwed, ReleaseInv, AttemptsAgree
  <2>2. ASSUME sent[p] = 2 PROVE attempts[<<p, 1, 2>>].state # "none"
    BY <2>1, <2>2, TriedCount
  <2> QED BY <2>1, <2>2 DEF StepAgrees
<1> QED BY <1>2, <1>3, <1>4 DEF BrokerInv, MergesTrue

(* MergesTrue for every instance: whoever works on GitHub, wherever the       *)
(* daemon dies and however late a merge call is carried out, a succeeded      *)
(* bundle was merged by the App on the authorized base, a merge is credited   *)
(* once, and every call sent was charged and follows an absent first attempt  *)
(* (handle, recover_pending, _recover_one, _handle_reserved, _terminalize).   *)
THEOREM ReleaseMergesTrue == BrokerSpec => []MergesTrue
<1>1. BrokerInit => BrokerInv
  BY BrokerInvInit
<1>2. BrokerInv /\ [BrokerNext]_brokerVars => BrokerInv'
  BY BrokerInvNext, BrokerInvStutter DEF StepKept
<1>3. BrokerInv => MergesTrue
  BY MergesFollow
<1> QED BY <1>1, <1>2, <1>3, PTL DEF BrokerSpec

(* The service uses the store within its promises: what ReleaseStore          *)
(* guarantees to any caller holds under the service, whose open_circuit is    *)
(* not bounded (handle, _terminalize).                                        *)
THEOREM StoreUnderService == BrokerSpec => [](ReleaseInv /\ ReceiptTrue)
<1>1. BrokerInit => BrokerInv
  BY BrokerInvInit
<1>2. BrokerInv /\ [BrokerNext]_brokerVars => BrokerInv'
  BY BrokerInvNext, BrokerInvStutter DEF StepKept
<1>3. BrokerInv => ReleaseInv /\ ReceiptTrue
  BY DEF BrokerInv
<1> QED BY <1>1, <1>2, <1>3, PTL DEF BrokerSpec

(* RequestSettles for every instance: whichever way a request ends, it leaves *)
(* no charged attempt open (handle, recover_pending, _stop_and_reject,        *)
(* _terminalize).                                                             *)
THEOREM RequestsSettle == BrokerSpec => RequestSettles
<1>1. BrokerInit => BrokerInv
  BY BrokerInvInit
<1>2. BrokerInv /\ [BrokerNext]_brokerVars => BrokerInv'
  BY BrokerInvNext, BrokerInvStutter DEF StepKept
<1>3. BrokerInv /\ [BrokerNext]_brokerVars => [Settles]_brokerVars
  BY BrokerInvNext DEF StepKept
<1> QED BY <1>1, <1>2, <1>3, PTL DEF BrokerSpec, RequestSettles, Settles
=============================================================================

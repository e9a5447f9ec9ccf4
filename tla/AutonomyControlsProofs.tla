------------------------- MODULE AutonomyControlsProofs -------------------------
(***************************************************************************)
(* Proofs about the autonomy controls, for any lanes, operations, limits,  *)
(* days and deaths.                                                        *)
(*                                                                         *)
(* The runtime of a day is the number of its seconds that runs have, which *)
(* is a sum over the runs: changing one run changes it by the seconds of   *)
(* that run. What is known of a child and of an effect survives every step *)
(* that takes nothing back from GitHub or from the effects (EffectsOnward).*)
(***************************************************************************)
EXTENDS AutonomyControls, FiniteSetTheorems, TLAPS

-----------------------------------------------------------------------------
(* The inductive invariant *)

WorkersInv ==
  \A l \in Lanes : worker[l].pc \in {"watching", "ended", "finishing"} =>
    worker[l].run \in Runs

RunsInv ==
  /\ \A r \in Runs : /\ runs[r].started <= now /\ runs[r].used <= runs[r].allowed
                     /\ runs[r].state = "none" => runs[r].used = 0
  /\ \A r, s \in Runs :
       r # s /\ runs[r].state \in {"active", "ok"} /\ runs[s].state \in {"active", "ok"} =>
         runs[r].lane # runs[s].lane \/ runs[r].key # runs[s].key

ChildOK(c) ==
  /\ c.pc \in {"checked", "read", "refused", "retry", "begun", "acted", "done"} =>
       c.op \in Operations
  /\ c.pc \in {"read", "refused", "retry", "acted"} => c.op \in Pushes
  /\ c.pc \in {"refused", "begun", "acted", "done"} =>
       c.effect \in Effects /\ effects[c.effect].op = c.op /\ effects[c.effect].state # "none"
  /\ c.saw => c.op \in Pushes /\ applied[c.op] > 0
  /\ c.pc \in {"acted", "done"} /\ c.ok => applied[c.op] > 0
ChildrenInv == \A r \in Runs : ChildOK(child[r])

EffectsInv ==
  /\ EffectTrue
  /\ \A e \in Effects : effects[e].op \in Comments =>
       effects[e].state \notin {"reconciled_completed", "reconciled_absent"}
  /\ \A o \in Operations : latest[o] # None =>
       effects[latest[o]].op = o /\ effects[latest[o]].state # "none"
  /\ \A o \in remote : applied[o] > 0

CommentsInv ==
  \A o \in Comments :
    /\ applied[o] <= 1
    /\ latest[o] = None => applied[o] = 0
    /\ \A r \in Runs : child[r].pc = "begun" /\ child[r].op = o =>
         latest[o] # None /\ applied[o] = 0
    /\ \A r, s \in Runs :
         /\ child[r].pc = "begun" /\ child[r].op = o
         /\ child[s].pc = "begun" /\ child[s].op = o
         => r = s

ControlsInv ==
  /\ ControlTypeOK /\ WorkersInv /\ RunsInv /\ ChildrenInv /\ EffectsInv /\ CommentsInv
  /\ RuntimeAccounted /\ RuntimeWithinDay
LEMMA Numbers ==
  ASSUME ControlsConstants
  PROVE  /\ MaxTime \in Nat /\ MaxDeaths \in Nat /\ Grace \in Nat /\ RuntimeLimit \in Nat
         /\ DayLength \in Nat \ {0} /\ MaxRun \in Nat \ {0} /\ MinReservation \in Nat \ {0}
         /\ Times \subseteq Nat /\ IsFiniteSet(Runs) /\ None \notin Runs /\ None \notin Effects
  BY DEF ControlsConstants, Times, None

LEMMA DayOrder ==
  ASSUME ControlsConstants, NEW t \in Nat, NEW u \in Nat, t <= u
  PROVE  Day(t) \in Nat /\ Day(t) <= Day(u)
  BY Numbers DEF Day

LEMMA TodayIsDay == ASSUME ControlsConstants, NEW t \in Times  PROVE Day(t) \in Days
<1>1. t \in Nat /\ MaxTime + MaxRun \in Nat /\ t <= MaxTime + MaxRun
  BY Numbers DEF Times
<1> QED
  BY <1>1, DayOrder DEF Days

-----------------------------------------------------------------------------
(* The seconds of a table of runs *)

BookedIn(q) == IF q.state = "active" THEN q.allowed ELSE q.used

SecondsIn(table, S, d) ==
  {x \in S \X Clock : /\ table[x[1]].started <= x[2]
                      /\ x[2] < table[x[1]].started + BookedIn(table[x[1]])
                      /\ Day(x[2]) = d}

LEMMA SecondsAre ==
  ASSUME NEW S \in SUBSET Runs, NEW d
  PROVE  /\ Seconds(S, d) = SecondsIn(runs, S, d)
         /\ Seconds(S, d)' = SecondsIn(runs', S, d)
  BY DEF Seconds, SecondsIn, Booked, BookedIn

LEMMA SecondsFinite ==
  ASSUME ControlsConstants, NEW table, NEW S \in SUBSET Runs, NEW d
  PROVE  IsFiniteSet(SecondsIn(table, S, d)) /\ Cardinality(SecondsIn(table, S, d)) \in Nat
<1>1. IsFiniteSet(S) /\ IsFiniteSet(Clock)
  <2>1. 0 \in Int /\ MaxTime + MaxRun \in Int
    BY Numbers
  <2>2. IsFiniteSet(0 .. MaxTime + MaxRun)
    BY <2>1, FS_Interval
  <2> QED
    BY <2>2, Numbers, FS_Subset DEF Clock
<1>2. IsFiniteSet(S \X Clock)
  BY <1>1, FS_Product
<1>3. SecondsIn(table, S, d) \in SUBSET (S \X Clock)
  BY DEF SecondsIn
<1> QED
  BY <1>2, <1>3, FS_Subset, FS_CardinalityType

LEMMA FewerSeconds ==
  ASSUME ControlsConstants, NEW table, NEW S \in SUBSET Runs, NEW T \in SUBSET S, NEW d
  PROVE  Cardinality(SecondsIn(table, T, d)) <= Cardinality(SecondsIn(table, S, d))
<1>1. SecondsIn(table, T, d) \in SUBSET SecondsIn(table, S, d)
  BY DEF SecondsIn
<1> QED
  BY <1>1, SecondsFinite, FS_Subset

\* Tables that book the same for the runs of S.
LEMMA SameSeconds ==
  ASSUME NEW table, NEW other, NEW S, NEW d,
         \A s \in S : /\ other[s].started = table[s].started
                      /\ BookedIn(other[s]) = BookedIn(table[s])
  PROVE  SecondsIn(other, S, d) = SecondsIn(table, S, d)
  BY DEF SecondsIn

LEMMA AllocationBounds ==
  ASSUME NEW t \in Nat, NEW n \in Nat, NEW m \in 0 .. n, NEW d
  PROVE  /\ Allocation(t, n, d) \in Nat /\ Allocation(t, m, d) \in Nat
         /\ Allocation(t, m, d) <= Allocation(t, n, d) /\ Allocation(t, n, d) <= n
<1> DEFINE I == t .. t + n - 1
           A == {u \in I : Day(u) = d}
           B == {u \in t .. t + m - 1 : Day(u) = d}
<1>1. IsFiniteSet(I) /\ Cardinality(I) = n
  BY FS_Interval
<1>2. A \in SUBSET I /\ B \in SUBSET A
  OBVIOUS
<1>3. IsFiniteSet(A) /\ Cardinality(A) <= n /\ Cardinality(A) \in Nat
  BY <1>1, <1>2, FS_Subset, FS_CardinalityType
<1>4. Cardinality(B) <= Cardinality(A) /\ Cardinality(B) \in Nat
  BY <1>2, <1>3, FS_Subset, FS_CardinalityType
<1> QED
  BY <1>3, <1>4 DEF Allocation

LEMMA NoAllocation == ASSUME NEW t \in Nat, NEW d  PROVE Allocation(t, 0, d) = 0
<1>1. {u \in t .. t + 0 - 1 : Day(u) = d} = {}
  OBVIOUS
<1> QED
  BY <1>1, FS_EmptySet DEF Allocation

LEMMA BookedBounds ==
  ASSUME ControlsConstants, NEW q \in RunType
  PROVE  /\ q.started \in Nat /\ q.started <= MaxTime
         /\ BookedIn(q) \in Nat /\ BookedIn(q) <= MaxRun
  BY Numbers DEF RunType, BookedIn, Times

\* A run adds its own seconds to those of the others.
LEMMA SecondsOfOne ==
  ASSUME ControlsConstants, NEW table, NEW S \in SUBSET Runs, NEW r \in S,
         table[r] \in RunType, NEW d
  PROVE  Cardinality(SecondsIn(table, S, d)) =
           Cardinality(SecondsIn(table, S \ {r}, d))
             + Allocation(table[r].started, BookedIn(table[r]), d)
<1>1. PICK t \in Nat : t = table[r].started /\ t <= MaxTime
  BY BookedBounds
<1>2. PICK n \in Nat : n = BookedIn(table[r]) /\ n <= MaxRun
  BY BookedBounds
<1> DEFINE A == {u \in t .. t + n - 1 : Day(u) = d}
           Rest == SecondsIn(table, S \ {r}, d)
<1>3. IsFiniteSet(A)
  <2>1. IsFiniteSet(t .. t + n - 1) /\ A \in SUBSET (t .. t + n - 1)
    BY FS_Interval
  <2> QED
    BY <2>1, FS_Subset
<1>4. IsFiniteSet({r} \X A) /\ Cardinality({r} \X A) = Cardinality(A)
  <2>1. IsFiniteSet({r}) /\ Cardinality({r}) = 1
    BY FS_Singleton
  <2>2. Cardinality(A) \in Nat
    BY <1>3, FS_CardinalityType
  <2> HIDE DEF A
  <2> QED
    BY <1>3, <2>1, <2>2, FS_Product
<1>5. IsFiniteSet(Rest)
  BY SecondsFinite
<1>6. A \subseteq Clock
  BY <1>1, <1>2, Numbers DEF Clock
<1>7. SecondsIn(table, S, d) = Rest \cup ({r} \X A)
  <2>1. \A u \in Clock : u \in A <=> t <= u /\ u < t + n /\ Day(u) = d
    BY Numbers DEF Clock
  <2> HIDE DEF A
  <2> QED
    BY <1>1, <1>2, <1>6, <2>1 DEF SecondsIn
<1>8. Rest \cap ({r} \X A) = {}
  BY DEF SecondsIn
<1>9. Cardinality(Rest \cap ({r} \X A)) = 0
  BY <1>8, FS_EmptySet
<1>10. Cardinality(Rest \cup ({r} \X A)) = Cardinality(Rest) + Cardinality(A) - 0
  <2> HIDE DEF A, Rest
  <2> QED
    BY <1>4, <1>5, <1>9, FS_Union
<1>11. Cardinality(A) = Allocation(table[r].started, BookedIn(table[r]), d)
  BY <1>1, <1>2 DEF Allocation
<1>12. Cardinality(Rest) \in Nat /\ Cardinality(A) \in Nat
  BY <1>3, <1>5, FS_CardinalityType
<1> QED
  BY <1>7, <1>10, <1>11, <1>12

-----------------------------------------------------------------------------
(* The runs *)

RuntimeInv == RuntimeAccounted /\ RuntimeWithinDay

LEMMA RecoveredTyped ==
  ASSUME ControlsConstants, ControlTypeOK
  PROVE  /\ Recovered \in [Runs -> RunType] /\ RecoveredCircuit \in [Lanes -> CircuitType]
         /\ \A r \in Runs : /\ Recovered[r].started = runs[r].started
                            /\ Recovered[r].lane = runs[r].lane
                            /\ Recovered[r].key = runs[r].key
                            /\ Recovered[r].allowed = runs[r].allowed
                            /\ BookedIn(Recovered[r]) = BookedIn(runs[r])
                            /\ Recovered[r].used \in {runs[r].used, runs[r].allowed}
                            /\ \/ Recovered[r].state = runs[r].state
                               \/ Recovered[r].state = "abandoned" /\ runs[r].state = "active"
<1>1. runs \in [Runs -> RunType] /\ circuit \in [Lanes -> CircuitType] /\ now \in Times
  BY DEF ControlTypeOK
<1>2. \A r \in Runs : /\ Recovered[r] \in RunType
                      /\ Recovered[r].started = runs[r].started
                      /\ Recovered[r].lane = runs[r].lane
                      /\ Recovered[r].key = runs[r].key
                      /\ Recovered[r].allowed = runs[r].allowed
                      /\ BookedIn(Recovered[r]) = BookedIn(runs[r])
                      /\ Recovered[r].used \in {runs[r].used, runs[r].allowed}
                      /\ \/ Recovered[r].state = runs[r].state
                         \/ Recovered[r].state = "abandoned" /\ runs[r].state = "active"
  <2> SUFFICES ASSUME NEW r \in Runs
               PROVE  /\ Recovered[r] \in RunType
                      /\ Recovered[r].started = runs[r].started
                      /\ Recovered[r].lane = runs[r].lane
                      /\ Recovered[r].key = runs[r].key
                      /\ Recovered[r].allowed = runs[r].allowed
                      /\ BookedIn(Recovered[r]) = BookedIn(runs[r])
                      /\ Recovered[r].used \in {runs[r].used, runs[r].allowed}
                      /\ \/ Recovered[r].state = runs[r].state
                         \/ Recovered[r].state = "abandoned" /\ runs[r].state = "active"
    OBVIOUS
  <2>1. PICK q \in RunType : q = runs[r]
    BY <1>1
  <2>2. CASE r \in Stale
    <3>1. Recovered[r] = [q EXCEPT !.state = "abandoned", !.used = q.allowed]
      BY <2>1, <2>2 DEF Recovered
    <3>2. q.state = "active"
      BY <2>1, <2>2 DEF Stale, ActiveRuns
    <3> QED
      BY <2>1, <3>1, <3>2 DEF RunType, BookedIn
  <2>3. CASE r \notin Stale
    BY <2>1, <2>3 DEF Recovered
  <2> QED
    BY <2>2, <2>3
<1>3. Recovered \in [Runs -> RunType]
  BY <1>2 DEF Recovered
<1>4. \A l \in Lanes : RecoveredCircuit[l] \in CircuitType
  <2> SUFFICES ASSUME NEW l \in Lanes  PROVE RecoveredCircuit[l] \in CircuitType
    OBVIOUS
  <2>1. PICK lost : lost = {r \in Stale : runs[r].lane = l}
    OBVIOUS
  <2>2. lost \in SUBSET Runs
    BY <2>1 DEF Stale, ActiveRuns
  <2>3. Cardinality(lost) \in Nat
    BY <2>2, Numbers, FS_Subset, FS_CardinalityType
  <2>4. circuit[l].failures \in Nat /\ circuit[l] \in CircuitType
    BY <1>1 DEF CircuitType
  <2>5. [failures |-> circuit[l].failures + Cardinality(lost), at |-> now] \in CircuitType
    BY <1>1, <2>3, <2>4 DEF CircuitType
  <2> QED
    BY <2>1, <2>4, <2>5 DEF RecoveredCircuit
<1> QED
  BY <1>2, <1>3, <1>4 DEF RecoveredCircuit

\* Steps that leave the bookings of the runs alone.
LEMMA SameRuntime ==
  ASSUME ControlsConstants, RuntimeInv, UNCHANGED charged,
         \A r \in Runs : /\ runs'[r].started = runs[r].started
                         /\ BookedIn(runs'[r]) = BookedIn(runs[r])
  PROVE  RuntimeInv'
<1>1. RuntimeAccounted'
  <2> SUFFICES ASSUME NEW d \in Days  PROVE charged'[d] = Cardinality(Seconds(Runs, d)')
    BY DEF RuntimeAccounted
  <2>1. Seconds(Runs, d) = SecondsIn(runs, Runs, d) /\ Seconds(Runs, d)' = SecondsIn(runs', Runs, d)
    BY SecondsAre
  <2>2. SecondsIn(runs', Runs, d) = SecondsIn(runs, Runs, d)
    BY SameSeconds
  <2> QED
    BY <2>1, <2>2 DEF RuntimeInv, RuntimeAccounted
<1>2. RuntimeWithinDay'
  <2> SUFFICES ASSUME NEW d \in Days
               PROVE  Cardinality(Seconds({r \in Runs : Day(runs[r].started) = d}, d)')
                        <= RuntimeLimit
    BY DEF RuntimeWithinDay
  <2>1. PICK T \in SUBSET Runs : T = {r \in Runs : Day(runs[r].started) = d}
    OBVIOUS
  <2>2. T = {r \in Runs : Day(runs'[r].started) = d}
    BY <2>1
  <2>3. SecondsIn(runs', T, d) = SecondsIn(runs, T, d)
    BY SameSeconds
  <2>4. Seconds({r \in Runs : Day(runs[r].started) = d}, d)' = SecondsIn(runs', T, d)
    BY <2>2, SecondsAre DEF Seconds, SecondsIn, Booked, BookedIn
  <2>5. Seconds(T, d) = SecondsIn(runs, T, d)
    BY SecondsAre
  <2>6. Cardinality(Seconds(T, d)) <= RuntimeLimit
    BY <2>1 DEF RuntimeInv, RuntimeWithinDay
  <2> QED
    BY <2>3, <2>4, <2>5, <2>6
<1> QED
  BY <1>1, <1>2 DEF RuntimeInv

\* One run changes, and the table of days with it.
LEMMA OneRunCharged ==
  ASSUME ControlsConstants, ControlTypeOK, RuntimeAccounted, NEW r \in Runs,
         runs'[r] \in RunType, NEW d \in Days,
         \A s \in Runs \ {r} : /\ runs'[s].started = runs[s].started
                               /\ BookedIn(runs'[s]) = BookedIn(runs[s]),
         charged'[d] = charged[d]
                         - Allocation(runs[r].started, BookedIn(runs[r]), d)
                         + Allocation(runs'[r].started, BookedIn(runs'[r]), d)
  PROVE  charged'[d] = Cardinality(Seconds(Runs, d)')
<1>1. runs[r] \in RunType
  BY DEF ControlTypeOK
<1>2. Seconds(Runs, d) = SecondsIn(runs, Runs, d) /\ Seconds(Runs, d)' = SecondsIn(runs', Runs, d)
  BY SecondsAre
<1>3. SecondsIn(runs', Runs \ {r}, d) = SecondsIn(runs, Runs \ {r}, d)
  BY SameSeconds
<1>4. Cardinality(SecondsIn(runs, Runs, d)) =
        Cardinality(SecondsIn(runs, Runs \ {r}, d))
          + Allocation(runs[r].started, BookedIn(runs[r]), d)
  BY <1>1, SecondsOfOne
<1>5. Cardinality(SecondsIn(runs', Runs, d)) =
        Cardinality(SecondsIn(runs', Runs \ {r}, d))
          + Allocation(runs'[r].started, BookedIn(runs'[r]), d)
  BY SecondsOfOne
<1>6. /\ Cardinality(SecondsIn(runs, Runs \ {r}, d)) \in Nat
      /\ Allocation(runs[r].started, BookedIn(runs[r]), d) \in Nat
      /\ Allocation(runs'[r].started, BookedIn(runs'[r]), d) \in Nat
  BY <1>1, SecondsFinite, BookedBounds, AllocationBounds
<1> QED
  BY <1>2, <1>3, <1>4, <1>5, <1>6 DEF RuntimeAccounted

\* A run keeps its start and books no more than it did.
LEMMA OneRunShorter ==
  ASSUME ControlsConstants, ControlTypeOK, RuntimeWithinDay, NEW r \in Runs, NEW d \in Days,
         runs'[r] \in RunType, runs'[r].started = runs[r].started,
         BookedIn(runs'[r]) <= BookedIn(runs[r]),
         \A s \in Runs \ {r} : /\ runs'[s].started = runs[s].started
                               /\ BookedIn(runs'[s]) = BookedIn(runs[s])
  PROVE  Cardinality(Seconds({s \in Runs : Day(runs[s].started) = d}, d)') <= RuntimeLimit
<1>1. PICK T \in SUBSET Runs : T = {s \in Runs : Day(runs[s].started) = d}
  OBVIOUS
<1>2. Seconds({s \in Runs : Day(runs[s].started) = d}, d)' = SecondsIn(runs', T, d)
  <2>1. T = {s \in Runs : Day(runs'[s].started) = d}
    BY <1>1
  <2> QED
    BY <2>1 DEF Seconds, SecondsIn, Booked, BookedIn
<1>3. Cardinality(SecondsIn(runs, T, d)) <= RuntimeLimit
  BY <1>1, SecondsAre DEF RuntimeWithinDay
<1>4. SecondsIn(runs', T \ {r}, d) = SecondsIn(runs, T \ {r}, d)
  BY SameSeconds
<1>5. CASE r \notin T
  <2>1. T \ {r} = T
    BY <1>5
  <2> QED
    BY <1>2, <1>3, <1>4, <2>1
<1>6. CASE r \in T
  <2>1. runs[r] \in RunType
    BY DEF ControlTypeOK
  <2>2. Cardinality(SecondsIn(runs, T, d)) =
          Cardinality(SecondsIn(runs, T \ {r}, d))
            + Allocation(runs[r].started, BookedIn(runs[r]), d)
    BY <1>6, <2>1, SecondsOfOne
  <2>3. Cardinality(SecondsIn(runs', T, d)) =
          Cardinality(SecondsIn(runs', T \ {r}, d))
            + Allocation(runs'[r].started, BookedIn(runs'[r]), d)
    BY <1>6, SecondsOfOne
  <2>4. PICK t \in Nat, n \in Nat, m \in Nat :
          t = runs[r].started /\ n = BookedIn(runs[r]) /\ m <= n /\ m = BookedIn(runs'[r])
    BY <2>1, BookedBounds
  <2>5. /\ Allocation(t, n, d) \in Nat /\ Allocation(t, m, d) \in Nat
        /\ Allocation(t, m, d) <= Allocation(t, n, d)
    <3>1. m \in 0 .. n
      BY <2>4
    <3> QED
      BY <3>1, AllocationBounds
  <2>6. Cardinality(SecondsIn(runs, T \ {r}, d)) \in Nat /\ RuntimeLimit \in Nat
    BY SecondsFinite, Numbers
  <2> QED
    BY <1>2, <1>3, <1>4, <2>2, <2>3, <2>4, <2>5, <2>6
<1> QED
  BY <1>5, <1>6

\* A run that booked nothing is begun within what is left of its day.
LEMMA OneRunBegun ==
  ASSUME ControlsConstants, ControlTypeOK, RuntimeInv, NEW r \in Runs, NEW d \in Days,
         runs'[r] \in RunType,
         Day(runs'[r].started) = d =>
           BookedIn(runs'[r]) + charged[d] <= RuntimeLimit,
         \A s \in Runs \ {r} : /\ runs'[s].started = runs[s].started
                               /\ BookedIn(runs'[s]) = BookedIn(runs[s])
  PROVE  Cardinality(Seconds({s \in Runs : Day(runs[s].started) = d}, d)') <= RuntimeLimit
<1>1. PICK T \in SUBSET Runs : T = {s \in Runs : Day(runs[s].started) = d}
  OBVIOUS
<1>2. PICK U \in SUBSET Runs : U = {s \in Runs : Day(runs'[s].started) = d}
  OBVIOUS
<1>3. Seconds({s \in Runs : Day(runs[s].started) = d}, d)' = SecondsIn(runs', U, d)
  BY <1>2 DEF Seconds, SecondsIn, Booked, BookedIn
<1>4. U \ {r} = T \ {r}
  BY <1>1, <1>2
<1>5. SecondsIn(runs', U \ {r}, d) = SecondsIn(runs, T \ {r}, d)
  <2>1. SecondsIn(runs', T \ {r}, d) = SecondsIn(runs, T \ {r}, d)
    BY SameSeconds
  <2> QED
    BY <1>4, <2>1
<1>6. Cardinality(SecondsIn(runs, T \ {r}, d)) \in Nat /\ RuntimeLimit \in Nat
  BY SecondsFinite, Numbers
<1>7. CASE r \notin U
  <2>1. U \ {r} = U
    BY <1>7
  <2>2. Cardinality(SecondsIn(runs, T, d)) <= RuntimeLimit
    BY <1>1, SecondsAre DEF RuntimeInv, RuntimeWithinDay
  <2>3. Cardinality(SecondsIn(runs, T \ {r}, d)) <= Cardinality(SecondsIn(runs, T, d))
    BY FewerSeconds
  <2>4. Cardinality(SecondsIn(runs, T, d)) \in Nat
    BY SecondsFinite
  <2>5. Cardinality(SecondsIn(runs', U, d)) <= RuntimeLimit
    BY <1>5, <1>6, <2>1, <2>2, <2>3, <2>4
  <2> QED
    BY <1>3, <2>5
<1>8. CASE r \in U
  <2>1. Cardinality(SecondsIn(runs', U, d)) =
          Cardinality(SecondsIn(runs', U \ {r}, d))
            + Allocation(runs'[r].started, BookedIn(runs'[r]), d)
    BY <1>8, SecondsOfOne
  <2>2. Cardinality(SecondsIn(runs, T \ {r}, d)) <= Cardinality(SecondsIn(runs, Runs, d))
    BY FewerSeconds
  <2>3. charged[d] = Cardinality(SecondsIn(runs, Runs, d)) /\ charged[d] \in Nat
    BY SecondsAre, SecondsFinite DEF RuntimeInv, RuntimeAccounted
  <2>4. PICK t \in Nat, n \in Nat : t = runs'[r].started /\ n = BookedIn(runs'[r])
    BY BookedBounds
  <2>5. n \in 0 .. n
    OBVIOUS
  <2>6. Allocation(t, n, d) \in Nat /\ Allocation(t, n, d) <= n
    BY <2>5, AllocationBounds
  <2>7. n + charged[d] <= RuntimeLimit
    BY <1>2, <1>8, <2>4
  <2> QED
    BY <1>3, <1>5, <1>6, <2>1, <2>2, <2>3, <2>4, <2>6, <2>7
<1> QED
  BY <1>7, <1>8

RunsOK == RunsInv /\ RuntimeInv /\ charged \in [Days -> Nat] /\ runs \in [Runs -> RunType]

\* What is given up keeps the bounds of its run.
LEMMA RecoveredBounds ==
  ASSUME ControlsConstants, ControlTypeOK, RunsInv, NEW r \in Runs
  PROVE  /\ Recovered[r].started <= now /\ Recovered[r].used <= Recovered[r].allowed
         /\ Recovered[r].state = "none" => Recovered[r].used = 0
<1>1. runs[r] \in RunType /\ Recovered[r] \in RunType
  BY RecoveredTyped DEF ControlTypeOK
<1>2. /\ runs[r].started <= now /\ runs[r].used <= runs[r].allowed
      /\ runs[r].state = "none" => runs[r].used = 0
  BY DEF RunsInv
<1>3. CASE r \in Stale
  <2>1. runs[r].state = "active" /\ Recovered[r] = [runs[r] EXCEPT !.state = "abandoned",
                                                                  !.used = runs[r].allowed]
    BY <1>3 DEF Stale, ActiveRuns, Recovered
  <2>2. PICK q \in RunType : q = runs[r]
    BY <1>1
  <2>3. q.allowed <= q.allowed
    BY <2>2, Numbers DEF RunType
  <2> QED
    BY <1>2, <2>1, <2>2, <2>3 DEF RunType
<1>4. CASE r \notin Stale
  BY <1>2, <1>4 DEF Recovered
<1> QED
  BY <1>3, <1>4

\* Steps that only give up stale runs.
LEMMA RecoveryKeeps ==
  ASSUME ControlsConstants, ControlTypeOK, RunsOK, now' = now, charged' = charged,
         runs' \in [Runs -> RunType], \A r \in Runs : runs'[r] = Recovered[r]
  PROVE  RunsOK'
<1>1. RuntimeInv'
  BY RecoveredTyped, SameRuntime DEF RunsOK
<1>2. \A r \in Runs : /\ runs'[r].started <= now /\ runs'[r].used <= runs'[r].allowed
                      /\ runs'[r].state = "none" => runs'[r].used = 0
  BY RecoveredBounds DEF RunsOK
<1>3. \A r, s \in Runs :
        r # s /\ runs'[r].state \in {"active", "ok"} /\ runs'[s].state \in {"active", "ok"} =>
          runs'[r].lane # runs'[s].lane \/ runs'[r].key # runs'[s].key
  BY RecoveredTyped DEF RunsOK, RunsInv
<1>4. RunsInv'
  BY <1>2, <1>3 DEF RunsInv
<1> QED
  BY <1>1, <1>4 DEF RunsOK

LEMMA BeginRunKeeps ==
  ASSUME ControlsConstants, ControlTypeOK, RunsOK, NEW l \in Lanes, NEW k \in RunKeys,
         BeginRun(l, k)
  PROVE  RunsOK'
<1>1. /\ runs \in [Runs -> RunType] /\ Recovered \in [Runs -> RunType]
      /\ now \in Times /\ now \in Nat /\ now' = now /\ Day(now) \in Days
      /\ charged \in [Days -> Nat] /\ MaxRun \in Nat \ {0} /\ RuntimeLimit \in Nat
      /\ MinReservation \in Nat \ {0}
  BY RecoveredTyped, Numbers, TodayIsDay DEF ControlTypeOK, BeginRun
<1>2. PICK allowed : allowed = IF MaxRun <= Remaining THEN MaxRun ELSE Remaining
  OBVIOUS
<1>3. allowed \in 0 .. MaxRun /\ allowed + charged[Day(now)] <= RuntimeLimit
  BY <1>1, <1>2 DEF Remaining, BeginRun, RunAllowed
<1>4. PICK r \in NextRun :
        /\ runs' = [Recovered EXCEPT ![r] = [state |-> "active", lane |-> l, key |-> k,
                                             started |-> now, allowed |-> allowed, used |-> 0]]
        /\ charged' = Adjust(charged, now, allowed, 1)
  BY <1>2 DEF BeginRun
<1>5. PICK q : q = [state |-> "active", lane |-> l, key |-> k,
                    started |-> now, allowed |-> allowed, used |-> 0]
  OBVIOUS
<1>6. r \in Runs /\ runs[r].state = "none"
  BY <1>4 DEF NextRun
<1>7. q \in RunType /\ BookedIn(q) = allowed
  BY <1>1, <1>3, <1>5 DEF RunType, BookedIn
<1>8. runs' = [Recovered EXCEPT ![r] = q] /\ runs' \in [Runs -> RunType] /\ runs'[r] = q
      /\ \A s \in Runs \ {r} : runs'[s] = Recovered[s]
  BY <1>1, <1>4, <1>5, <1>6, <1>7
<1>9. \A s \in Runs \ {r} : /\ runs'[s].started = runs[s].started
                            /\ BookedIn(runs'[s]) = BookedIn(runs[s])
  BY <1>8, RecoveredTyped
<1>10. BookedIn(runs[r]) = 0 /\ runs[r].started \in Nat
  <2>1. runs[r].used = 0
    BY <1>6 DEF RunsOK, RunsInv
  <2>2. runs[r].started \in Times
    BY <1>1, <1>6 DEF RunType
  <2> QED
    BY <1>6, <2>1, <2>2, Numbers DEF BookedIn
<1>11. \A d \in Days : charged'[d] = charged[d]
                         - Allocation(runs[r].started, BookedIn(runs[r]), d)
                         + Allocation(runs'[r].started, BookedIn(runs'[r]), d)
  <2> SUFFICES ASSUME NEW d \in Days
               PROVE  charged'[d] = charged[d]
                         - Allocation(runs[r].started, BookedIn(runs[r]), d)
                         + Allocation(runs'[r].started, BookedIn(runs'[r]), d)
    OBVIOUS
  <2>1. Allocation(runs[r].started, BookedIn(runs[r]), d) = 0
    BY <1>10, NoAllocation
  <2>2. Allocation(now, allowed, d) \in Nat
    <3>1. allowed \in Nat /\ allowed \in 0 .. allowed
      BY <1>1, <1>3
    <3> QED
      BY <1>1, <3>1, AllocationBounds
  <2>3. charged'[d] = charged[d] + 1 * Allocation(now, allowed, d)
    BY <1>4 DEF Adjust
  <2>4. runs'[r].started = now /\ BookedIn(runs'[r]) = allowed
    BY <1>5, <1>7, <1>8
  <2>5. charged[d] \in Nat
    BY <1>1
  <2> QED
    BY <2>1, <2>2, <2>3, <2>4, <2>5
<1>12. \A d \in Days : charged'[d] = Cardinality(Seconds(Runs, d)')
  BY <1>6, <1>7, <1>8, <1>9, <1>11, OneRunCharged DEF RunsOK, RuntimeInv
<1>13. RuntimeInv'
  <2>1. \A d \in Days : Day(runs'[r].started) = d => BookedIn(runs'[r]) + charged[d] <= RuntimeLimit
    BY <1>3, <1>5, <1>7, <1>8
  <2>2. \A d \in Days :
          Cardinality(Seconds({s \in Runs : Day(runs[s].started) = d}, d)') <= RuntimeLimit
    BY <1>6, <1>7, <1>8, <1>9, <2>1, OneRunBegun DEF RunsOK
  <2> QED
    BY <1>12, <2>2 DEF RuntimeInv, RuntimeAccounted, RuntimeWithinDay
<1>14. charged' \in [Days -> Nat]
  <2>1. \A d \in Days : charged'[d] \in Nat
    <3> SUFFICES ASSUME NEW d \in Days  PROVE charged'[d] \in Nat
      OBVIOUS
    <3>1. Seconds(Runs, d)' = SecondsIn(runs', Runs, d)
      BY SecondsAre
    <3> QED
      BY <1>12, <3>1, SecondsFinite
  <2> QED
    BY <1>4, <2>1 DEF Adjust
<1>15. RunsInv'
  <2>1. \A s \in Runs \ {r} : /\ Recovered[s].started <= now
                              /\ Recovered[s].used <= Recovered[s].allowed
                              /\ (Recovered[s].state = "none" => Recovered[s].used = 0)
    BY RecoveredBounds DEF RunsOK
  <2>2. q.started = now /\ q.used = 0 /\ q.used <= q.allowed /\ q.state = "active"
    BY <1>1, <1>3, <1>5
  <2>3. \A s \in Runs : runs'[s].started <= now /\ runs'[s].used <= runs'[s].allowed
                        /\ (runs'[s].state = "none" => runs'[s].used = 0)
    <3> SUFFICES ASSUME NEW s \in Runs
                 PROVE  runs'[s].started <= now /\ runs'[s].used <= runs'[s].allowed
                        /\ (runs'[s].state = "none" => runs'[s].used = 0)
      OBVIOUS
    <3>1. CASE s = r
      BY <1>1, <1>8, <2>2, <3>1
    <3>2. CASE s # r
      BY <1>8, <2>1, <3>2
    <3> QED
      BY <3>1, <3>2
  <2>4. \A s \in Runs \ {r} : Recovered[s].state \in {"active", "ok"} =>
          Recovered[s].lane # l \/ Recovered[s].key # k
    BY DEF BeginRun, RunAllowed
  <2>5. \A s, t \in Runs \ {r} :
          /\ s # t /\ Recovered[s].state \in {"active", "ok"}
          /\ Recovered[t].state \in {"active", "ok"}
          => Recovered[s].lane # Recovered[t].lane \/ Recovered[s].key # Recovered[t].key
    BY RecoveredTyped DEF RunsOK, RunsInv
  <2>6. \A s, t \in Runs :
          s # t /\ runs'[s].state \in {"active", "ok"} /\ runs'[t].state \in {"active", "ok"} =>
            runs'[s].lane # runs'[t].lane \/ runs'[s].key # runs'[t].key
    <3> SUFFICES ASSUME NEW s \in Runs, NEW t \in Runs, s # t,
                        runs'[s].state \in {"active", "ok"}, runs'[t].state \in {"active", "ok"}
                 PROVE  runs'[s].lane # runs'[t].lane \/ runs'[s].key # runs'[t].key
      OBVIOUS
    <3>1. q.lane = l /\ q.key = k
      BY <1>5
    <3>2. CASE s = r
      BY <1>8, <2>4, <3>1, <3>2
    <3>3. CASE t = r
      BY <1>8, <2>4, <3>1, <3>3
    <3>4. CASE s # r /\ t # r
      BY <1>8, <2>5, <3>4
    <3> QED
      BY <3>2, <3>3, <3>4
  <2> QED
    BY <1>1, <2>3, <2>6 DEF RunsInv
<1> QED
  BY <1>8, <1>13, <1>14, <1>15 DEF RunsOK

LEMMA FinishRunKeeps ==
  ASSUME ControlsConstants, ControlTypeOK, WorkersInv, RunsOK, NEW l \in Lanes, FinishRun(l)
  PROVE  RunsOK'
<1>1. /\ runs \in [Runs -> RunType] /\ charged \in [Days -> Nat]
      /\ now \in Times /\ now \in Nat /\ now' = now /\ MaxRun \in Nat \ {0}
      /\ worker \in [Lanes -> WorkerType]
  BY Numbers DEF ControlTypeOK, FinishRun
<1>2. PICK r \in Runs : r = worker[l].run
  BY DEF FinishRun, MayFinish, WorkersInv
<1>3. CASE UNCHANGED <<runs, charged>>
  <2>1. RuntimeInv'
    BY <1>3, SameRuntime DEF RunsOK
  <2> QED
    BY <1>1, <1>3, <2>1 DEF RunsOK, RunsInv
<1>4. CASE ~ UNCHANGED <<runs, charged>>
  <2>1. PICK q \in RunType : q = runs[r]
    BY <1>1
  <2>2. PICK t \in Nat : t = q.started /\ t <= now
    BY <1>1, <2>1, Numbers DEF RunsOK, RunsInv, RunType
  <2>3. PICK n \in Nat : n = q.allowed /\ n <= MaxRun
    BY <1>1, <2>1 DEF RunType
  <2>4. PICK passed \in 0 .. n : passed = IF now - t < n THEN now - t ELSE n
    BY <1>1, <2>2, <2>3
  <2>5. PICK used \in 0 .. n : used = IF passed = 0 THEN n ELSE passed
    BY <2>3, <2>4
  <2>6. PICK state \in {"ok", "failed"} : state = IF worker[l].ok THEN "ok" ELSE "failed"
    OBVIOUS
  <2>7. PICK p : p = [q EXCEPT !.state = state, !.used = used]
    OBVIOUS
  <2>8. /\ q.state = "active"
        /\ runs' = [runs EXCEPT ![r] = p]
        /\ charged' = Adjust(Adjust(charged, t, n, -1), t, used, 1)
    BY <1>1, <1>2, <1>4, <2>1, <2>2, <2>3, <2>4, <2>5, <2>6, <2>7 DEF FinishRun
  <2>9. p \in RunType /\ BookedIn(p) = used /\ BookedIn(q) = n /\ p.started = t
        /\ p.used = used /\ p.allowed = n /\ p.state = state /\ p.lane = q.lane /\ p.key = q.key
    <3>1. used \in 0 .. MaxRun
      BY <1>1, <2>3, <2>5
    <3> QED
      BY <2>1, <2>2, <2>3, <2>7, <2>8, <3>1 DEF RunType, BookedIn
  <2>10. runs' \in [Runs -> RunType] /\ runs'[r] = p /\ \A s \in Runs \ {r} : runs'[s] = runs[s]
    BY <1>1, <2>8, <2>9
  <2>11. \A s \in Runs \ {r} : /\ runs'[s].started = runs[s].started
                               /\ BookedIn(runs'[s]) = BookedIn(runs[s])
    BY <2>10
  <2>12. \A d \in Days : charged'[d] = charged[d]
                           - Allocation(runs[r].started, BookedIn(runs[r]), d)
                           + Allocation(runs'[r].started, BookedIn(runs'[r]), d)
    <3> SUFFICES ASSUME NEW d \in Days
                 PROVE  charged'[d] = charged[d] - Allocation(t, n, d) + Allocation(t, used, d)
      BY <2>1, <2>2, <2>9, <2>10
    <3>1. charged'[d] = charged[d] + (-1) * Allocation(t, n, d) + 1 * Allocation(t, used, d)
      BY <2>8 DEF Adjust
    <3>2. Allocation(t, n, d) \in Nat /\ Allocation(t, used, d) \in Nat
      BY AllocationBounds
    <3> QED
      BY <1>1, <3>1, <3>2
  <2>13. \A d \in Days : charged'[d] = Cardinality(Seconds(Runs, d)')
    BY <2>9, <2>10, <2>11, <2>12, OneRunCharged DEF RunsOK, RuntimeInv
  <2>14. \A d \in Days :
           Cardinality(Seconds({s \in Runs : Day(runs[s].started) = d}, d)') <= RuntimeLimit
    <3>1. runs'[r].started = runs[r].started /\ BookedIn(runs'[r]) <= BookedIn(runs[r])
      BY <2>1, <2>2, <2>3, <2>5, <2>9, <2>10
    <3> QED
      BY <2>9, <2>10, <2>11, <3>1, OneRunShorter DEF RunsOK, RuntimeInv
  <2>15. RuntimeInv'
    BY <2>13, <2>14 DEF RuntimeInv, RuntimeAccounted, RuntimeWithinDay
  <2>16. charged' \in [Days -> Nat]
    <3>1. \A d \in Days : charged'[d] \in Nat
      <4> SUFFICES ASSUME NEW d \in Days  PROVE charged'[d] \in Nat
        OBVIOUS
      <4>1. Seconds(Runs, d)' = SecondsIn(runs', Runs, d)
        BY SecondsAre
      <4> QED
        BY <2>13, <4>1, SecondsFinite
    <3> QED
      BY <2>8, <3>1 DEF Adjust
  <2>17. RunsInv'
    <3>1. \A s \in Runs : /\ runs'[s].started <= now /\ runs'[s].used <= runs'[s].allowed
                          /\ runs'[s].state = "none" => runs'[s].used = 0
      <4> SUFFICES ASSUME NEW s \in Runs
                   PROVE  /\ runs'[s].started <= now /\ runs'[s].used <= runs'[s].allowed
                          /\ runs'[s].state = "none" => runs'[s].used = 0
        OBVIOUS
      <4>1. CASE s = r
        BY <2>2, <2>3, <2>5, <2>9, <2>10, <4>1
      <4>2. CASE s # r
        BY <2>10, <4>2 DEF RunsOK, RunsInv
      <4> QED
        BY <4>1, <4>2
    <3>2. \A s \in Runs : /\ runs'[s].lane = runs[s].lane /\ runs'[s].key = runs[s].key
                          /\ (runs'[s].state \in {"active", "ok"} =>
                                runs[s].state \in {"active", "ok"})
      BY <2>1, <2>8, <2>9, <2>10
    <3> QED
      BY <1>1, <3>1, <3>2 DEF RunsOK, RunsInv
  <2> QED
    BY <2>10, <2>15, <2>16, <2>17 DEF RunsOK
<1> QED
  BY <1>3, <1>4

\* Time passes, or a step that does not touch the runs.
LEMMA RunsStay ==
  ASSUME ControlsConstants, ControlTypeOK, RunsOK, UNCHANGED <<runs, charged>>,
         now' \in Nat, now <= now'
  PROVE  RunsOK'
<1>1. RuntimeInv'
  BY SameRuntime DEF RunsOK
<1>2. \A r \in Runs : runs[r].started \in Nat /\ now \in Nat
  BY Numbers DEF ControlTypeOK, RunType
<1> QED
  BY <1>1, <1>2 DEF RunsOK, RunsInv

-----------------------------------------------------------------------------
(* The effects *)

\* What no step takes back from the effects and from GitHub.
EffectsOnward ==
  /\ \A e \in Effects : effects[e].state # "none" =>
       effects'[e].op = effects[e].op /\ effects'[e].state # "none"
  /\ \A o \in Operations : applied[o] > 0 => applied'[o] > 0

LEMMA ChildStays == ASSUME EffectsOnward, NEW c, ChildOK(c)  PROVE ChildOK(c)'
  BY DEF EffectsOnward, ChildOK, Operations

EffectsOK == ChildrenInv /\ EffectsInv /\ CommentsInv

LEMMA NoChildOK == ChildOK(NoChild) /\ ChildOK([NoChild EXCEPT !.pc = "idle"])
  BY DEF ChildOK, NoChild

\* Steps of children that tell nobody.
LEMMA QuietKeeps ==
  ASSUME EffectsOK, UNCHANGED <<effects, latest, applied>>, remote' \subseteq remote,
         \A r \in Runs : child'[r] # child[r] => ChildOK(child'[r]) /\ child'[r].pc # "begun"
  PROVE  EffectsOK'
<1>1. EffectsOnward
  BY DEF EffectsOnward
<1>2. ChildrenInv'
  <2> SUFFICES ASSUME NEW r \in Runs  PROVE ChildOK(child[r])'
    BY DEF ChildrenInv
  <2>1. PICK c : c = child'[r]
    OBVIOUS
  <2>2. ChildOK(c)
    BY <2>1 DEF EffectsOK, ChildrenInv
  <2>3. ChildOK(c)'
    BY <1>1, <2>2, ChildStays
  <2> QED
    BY <2>1, <2>3
<1>3. EffectsInv'
  BY DEF EffectsOK, EffectsInv, EffectTrue
<1>4. \A r \in Runs : child'[r].pc = "begun" => child'[r] = child[r]
  OBVIOUS
<1>5. CommentsInv'
  BY <1>4 DEF EffectsOK, CommentsInv
<1> QED
  BY <1>2, <1>3, <1>5 DEF EffectsOK

\* One child tells nobody.
LEMMA QuietStep ==
  ASSUME ControlTypeOK, EffectsOK, UNCHANGED <<effects, latest, applied, remote>>,
         NEW r \in Runs, NEW c, child' = [child EXCEPT ![r] = c], ChildOK(c), c.pc # "begun"
  PROVE  EffectsOK'
<1>1. child'[r] = c /\ \A s \in Runs \ {r} : child'[s] = child[s]
  BY DEF ControlTypeOK
<1>2. remote' \subseteq remote
  OBVIOUS
<1>3. \A s \in Runs : child'[s] # child[s] => ChildOK(child'[s]) /\ child'[s].pc # "begun"
  BY <1>1
<1> QED
  BY <1>2, <1>3, QuietKeeps

LEMMA Here ==
  ASSUME ControlTypeOK, EffectsOK, NEW r \in Runs
  PROVE  child[r] \in ChildType /\ ChildOK(child[r]) /\ child \in [Runs -> ChildType]
  BY DEF ControlTypeOK, EffectsOK, ChildrenInv

\* An effect that was begun gets another state, and its child is done with it.
LEMMA SettleKeeps ==
  ASSUME ControlsConstants, ControlTypeOK, EffectsOK, UNCHANGED <<latest, applied, remote>>,
         NEW e \in Effects, effects[e].state # "none",
         NEW state \in {"completed", "failed", "reconciled_completed", "reconciled_absent"},
         effects' = [effects EXCEPT ![e].state = state],
         state \in {"completed", "reconciled_completed"} => applied[effects[e].op] > 0,
         state \in {"reconciled_completed", "reconciled_absent"} => effects[e].op \notin Comments,
         NEW r \in Runs, NEW c, child' = [child EXCEPT ![r] = c], ChildOK(c), c.pc # "begun"
  PROVE  EffectsOK'
<1>1. child'[r] = c /\ \A s \in Runs \ {r} : child'[s] = child[s]
  BY DEF ControlTypeOK
<1>2. effects \in [Effects -> EffectType]
  BY DEF ControlTypeOK
<1>3. /\ effects'[e].op = effects[e].op /\ effects'[e].state = state
      /\ \A f \in Effects \ {e} : effects'[f] = effects[f]
  BY <1>2 DEF EffectType
<1>4. EffectsOnward
  BY <1>3 DEF EffectsOnward
<1>5. ChildrenInv'
  <2> SUFFICES ASSUME NEW s \in Runs  PROVE ChildOK(child[s])'
    BY DEF ChildrenInv
  <2>1. PICK x : x = child'[s]
    OBVIOUS
  <2>2. ChildOK(x)
    BY <1>1, <2>1 DEF EffectsOK, ChildrenInv
  <2>3. ChildOK(x)'
    BY <1>4, <2>2, ChildStays
  <2> QED
    BY <2>1, <2>3
<1>6. EffectsInv'
  <2>1. EffectTrue'
    <3> SUFFICES ASSUME NEW f \in Effects,
                        effects'[f].state \in {"completed", "reconciled_completed"}
                 PROVE  applied'[effects'[f].op] > 0
      BY DEF EffectTrue
    <3>1. CASE f = e
      BY <1>3, <3>1
    <3>2. CASE f # e
      BY <1>3, <3>2 DEF EffectsOK, EffectsInv, EffectTrue
    <3> QED
      BY <3>1, <3>2
  <2>2. \A f \in Effects : effects'[f].op \in Comments =>
          effects'[f].state \notin {"reconciled_completed", "reconciled_absent"}
    <3> SUFFICES ASSUME NEW f \in Effects, effects'[f].op \in Comments
                 PROVE  effects'[f].state \notin {"reconciled_completed", "reconciled_absent"}
      OBVIOUS
    <3>1. CASE f = e
      BY <1>3, <3>1
    <3>2. CASE f # e
      BY <1>3, <3>2 DEF EffectsOK, EffectsInv
    <3> QED
      BY <3>1, <3>2
  <2>3. \A o \in Operations : latest'[o] # None =>
          effects'[latest'[o]].op = o /\ effects'[latest'[o]].state # "none"
    <3> SUFFICES ASSUME NEW o \in Operations, latest[o] # None
                 PROVE  effects'[latest[o]].op = o /\ effects'[latest[o]].state # "none"
      OBVIOUS
    <3>1. PICK f \in Effects : f = latest[o]
      BY DEF ControlTypeOK
    <3>2. effects[f].op = o /\ effects[f].state # "none"
      BY <3>1 DEF EffectsOK, EffectsInv
    <3> QED
      BY <1>4, <3>1, <3>2 DEF EffectsOnward
  <2>4. \A o \in remote' : applied'[o] > 0
    BY DEF EffectsOK, EffectsInv
  <2> QED
    BY <2>1, <2>2, <2>3, <2>4 DEF EffectsInv
<1>7. CommentsInv'
  <2>1. \A s \in Runs : child'[s].pc = "begun" => child'[s] = child[s]
    BY <1>1
  <2> QED
    BY <2>1 DEF EffectsOK, CommentsInv
<1> QED
  BY <1>5, <1>6, <1>7 DEF EffectsOK

LEMMA ReadRemoteKeeps ==
  ASSUME ControlTypeOK, EffectsOK, NEW r \in Runs, ReadRemote(r)  PROVE EffectsOK'
<1>1. PICK c \in ChildType : c = child[r] /\ ChildOK(c)
  BY Here
<1>2. PICK y : y = [c EXCEPT !.pc = "read", !.saw = c.op \in remote]
  OBVIOUS
<1>3. child' = [child EXCEPT ![r] = y] /\ c.pc = "checked" /\ c.op \in Pushes
  BY <1>1, <1>2, Here DEF ReadRemote
<1>4. c.op \in Operations /\ (c.op \in remote => applied[c.op] > 0)
  BY <1>3 DEF Operations, EffectsOK, EffectsInv
<1>5. ChildOK(y) /\ y.pc # "begun"
  BY <1>1, <1>2, <1>3, <1>4 DEF ChildOK, ChildType
<1>6. UNCHANGED <<effects, latest, applied, remote>>
  BY DEF ReadRemote, controlVars, worldVars
<1> QED
  BY <1>3, <1>5, <1>6, QuietStep

LEMMA RefuseEffectKeeps ==
  ASSUME ControlsConstants, ControlTypeOK, EffectsOK, NEW r \in Runs, RefuseEffect(r)
  PROVE  EffectsOK'
<1>1. PICK c \in ChildType : c = child[r] /\ ChildOK(c)
  BY Here
<1>2. UNCHANGED <<effects, latest, applied, remote>>
  BY DEF RefuseEffect, controlVars, worldVars
<1>3. CASE child' = [child EXCEPT ![r] = [NoChild EXCEPT !.pc = "idle"]]
  <2>1. PICK y : y = [NoChild EXCEPT !.pc = "idle"]
    OBVIOUS
  <2>2. ChildOK(y) /\ y.pc # "begun"
    BY <2>1, NoChildOK DEF NoChild
  <2> QED
    BY <1>2, <1>3, <2>1, <2>2, QuietStep
<1>4. CASE ~ (child' = [child EXCEPT ![r] = [NoChild EXCEPT !.pc = "idle"]])
  <2>1. PICK y : y = [c EXCEPT !.pc = "refused", !.effect = latest[c.op]]
    OBVIOUS
  <2>2. /\ child' = [child EXCEPT ![r] = y] /\ c.pc = "read" /\ latest[c.op] # None
        /\ effects[latest[c.op]].state \in {"pending", "failed"}
    BY <1>1, <1>4, <2>1, Here DEF RefuseEffect
  <2>3. c.op \in Operations /\ c.op \in Pushes
    BY <1>1, <2>2 DEF ChildOK
  <2>4. latest[c.op] \in Effects /\ effects[latest[c.op]].op = c.op
    BY <2>2, <2>3 DEF ControlTypeOK, EffectsOK, EffectsInv
  <2>5. ChildOK(y) /\ y.pc # "begun"
    BY <1>1, <2>1, <2>2, <2>3, <2>4 DEF ChildOK, ChildType
  <2> QED
    BY <1>2, <2>2, <2>5, QuietStep
<1> QED
  BY <1>3, <1>4

LEMMA ReadBackKeeps ==
  ASSUME ControlTypeOK, EffectsOK, NEW r \in Runs, ReadBack(r)  PROVE EffectsOK'
<1>1. PICK c \in ChildType : c = child[r] /\ ChildOK(c) /\ c.pc = "acted"
  BY Here DEF ReadBack
<1>2. UNCHANGED <<effects, latest, applied, remote>>
  BY DEF ReadBack, controlVars, worldVars
<1>3. ASSUME NEW y, child' = [child EXCEPT ![r] = y], ChildOK(y), y.pc # "begun"
      PROVE  EffectsOK'
  BY <1>2, <1>3, QuietStep
<1>4. CASE c.op \in remote
  <2>1. PICK y : y = [c EXCEPT !.pc = "done", !.ok = TRUE]
    OBVIOUS
  <2>2. child' = [child EXCEPT ![r] = y] /\ applied[c.op] > 0
    BY <1>1, <1>4, <2>1, Here DEF ReadBack, EffectsOK, EffectsInv
  <2>3. ChildOK(y) /\ y.pc # "begun"
    BY <1>1, <2>1, <2>2 DEF ChildOK, ChildType
  <2> QED
    BY <1>3, <2>2, <2>3
<1>5. CASE c.op \notin remote /\ c.ok
  <2>1. PICK y : y = [NoChild EXCEPT !.pc = "idle"]
    OBVIOUS
  <2>2. child' = [child EXCEPT ![r] = y] /\ ChildOK(y) /\ y.pc # "begun"
    BY <1>1, <1>5, <2>1, NoChildOK DEF ReadBack, NoChild
  <2> QED
    BY <1>3, <2>2
<1>6. CASE c.op \notin remote /\ ~ c.ok
  <2>1. PICK y : y = [c EXCEPT !.pc = "done"]
    OBVIOUS
  <2>2. child' = [child EXCEPT ![r] = y]
    BY <1>1, <1>6, <2>1, Here DEF ReadBack
  <2>3. ChildOK(y) /\ y.pc # "begun"
    BY <1>1, <1>6, <2>1 DEF ChildOK, ChildType
  <2> QED
    BY <1>3, <2>2, <2>3
<1> QED
  BY <1>4, <1>5, <1>6

LEMMA ReconcileKeeps ==
  ASSUME ControlsConstants, ControlTypeOK, EffectsOK, NEW r \in Runs,
         Reconcile(r) \/ AlreadyThere(r)
  PROVE  EffectsOK'
<1>1. PICK c \in ChildType : c = child[r] /\ ChildOK(c) /\ c.pc \in {"refused", "begun"}
  BY Here DEF Reconcile, AlreadyThere
<1>2. PICK e : e = c.effect
  OBVIOUS
<1>3. e \in Effects /\ effects[e].op = c.op /\ effects[e].state # "none"
  BY <1>1, <1>2 DEF ChildOK
<1>4. c.op \in Pushes /\ c.op \notin Comments
  BY <1>1 DEF ChildOK, ControlsConstants, Reconcile, AlreadyThere
<1>5. UNCHANGED <<latest, applied, remote>>
  BY DEF Reconcile, AlreadyThere, worldVars
<1>6. PICK state \in {"reconciled_completed", "reconciled_absent"} :
        state = IF c.saw THEN "reconciled_completed" ELSE "reconciled_absent"
  OBVIOUS
<1>7. Reconciled(e, state)
  BY <1>1, <1>2, <1>6 DEF Reconcile, AlreadyThere
<1>8. state = "reconciled_completed" => applied[effects[e].op] > 0
  BY <1>1, <1>3, <1>6 DEF ChildOK
<1>9. \E y : child' = [child EXCEPT ![r] = y] /\ ChildOK(y) /\ y.pc # "begun"
  <2>1. CASE child' = [child EXCEPT ![r] = [NoChild EXCEPT !.pc = "idle"]]
    <3>1. PICK y : y = [NoChild EXCEPT !.pc = "idle"]
      OBVIOUS
    <3>2. ChildOK(y) /\ y.pc # "begun"
      BY <3>1, NoChildOK DEF NoChild
    <3> QED
      BY <2>1, <3>1, <3>2
  <2>2. CASE ~ (child' = [child EXCEPT ![r] = [NoChild EXCEPT !.pc = "idle"]])
    <3>1. PICK y : y = [c EXCEPT !.pc = "retry"]
      OBVIOUS
    <3>2. child' = [child EXCEPT ![r] = y] /\ c.pc = "refused"
      BY <1>1, <2>2, <3>1, Here DEF Reconcile, AlreadyThere, Step
    <3>3. ChildOK(y) /\ y.pc # "begun"
      BY <1>1, <3>1, <3>2 DEF ChildOK, ChildType
    <3> QED
      BY <3>2, <3>3
  <2> QED
    BY <2>1, <2>2
<1>10. PICK y : child' = [child EXCEPT ![r] = y] /\ ChildOK(y) /\ y.pc # "begun"
  BY <1>9
<1>11. CASE effects' = effects
  BY <1>5, <1>10, <1>11, QuietStep
<1>12. CASE effects' = [effects EXCEPT ![e].state = state]
  BY <1>3, <1>4, <1>5, <1>6, <1>8, <1>10, <1>12, SettleKeeps
<1> QED
  BY <1>7, <1>11, <1>12 DEF Reconciled

LEMMA FinishEffectKeeps ==
  ASSUME ControlsConstants, ControlTypeOK, EffectsOK, NEW r \in Runs, FinishEffect(r)
  PROVE  EffectsOK'
<1>1. PICK c \in ChildType : c = child[r] /\ ChildOK(c) /\ c.pc = "done"
  BY Here DEF FinishEffect
<1>2. PICK e : e = c.effect
  OBVIOUS
<1>3. e \in Effects /\ effects[e].op = c.op /\ effects[e].state # "none"
  BY <1>1, <1>2 DEF ChildOK
<1>4. UNCHANGED <<latest, applied, remote>>
  BY DEF FinishEffect, worldVars
<1>5. PICK state \in {"completed", "failed"} : state = IF c.ok THEN "completed" ELSE "failed"
  OBVIOUS
<1>6. effects' = effects \/ effects' = [effects EXCEPT ![e].state = state]
  BY <1>1, <1>2, <1>5 DEF FinishEffect
<1>7. state = "completed" => applied[effects[e].op] > 0
  BY <1>1, <1>3, <1>5 DEF ChildOK
<1>8. PICK y : y = [NoChild EXCEPT !.pc = "idle"]
  OBVIOUS
<1>9. child' = [child EXCEPT ![r] = y] /\ ChildOK(y) /\ y.pc # "begun"
  BY <1>8, NoChildOK DEF NoChild, FinishEffect
<1>10. CASE effects' = effects
  BY <1>4, <1>9, <1>10, QuietStep
<1>11. CASE effects' = [effects EXCEPT ![e].state = state]
  BY <1>3, <1>4, <1>5, <1>7, <1>9, <1>11, SettleKeeps
<1> QED
  BY <1>6, <1>10, <1>11

\* A comment is begun only where there was none.
LEMMA BeginEffectKeeps ==
  ASSUME ControlsConstants, ControlTypeOK, EffectsOK, NEW r \in Runs, BeginEffect(r)
  PROVE  EffectsOK'
<1>1. PICK c \in ChildType : c = child[r] /\ ChildOK(c) /\ c.pc \in {"checked", "read", "retry"}
  BY Here DEF BeginEffect, Asking
<1>2. c.op \in Operations
  BY <1>1 DEF ChildOK
<1>3. PICK o \in Operations : o = c.op
  BY <1>2
<1>4. PICK e \in NextEffect :
        /\ effects' = [effects EXCEPT ![e] = [state |-> "pending", op |-> o, day |-> Day(now)]]
        /\ latest' = [latest EXCEPT ![o] = e]
        /\ child' = [child EXCEPT ![r].pc = "begun", ![r].effect = e]
  BY <1>1, <1>3 DEF BeginEffect
<1>5. e \in Effects /\ effects[e].state = "none" /\ e # None
  BY <1>4, Numbers DEF NextEffect
<1>6. PICK q : q = [state |-> "pending", op |-> o, day |-> Day(now)]
  OBVIOUS
<1>7. /\ effects \in [Effects -> EffectType] /\ latest \in [Operations -> Effects \cup {None}]
      /\ child \in [Runs -> ChildType]
  BY DEF ControlTypeOK
<1>8. effects'[e] = q /\ \A f \in Effects \ {e} : effects'[f] = effects[f]
  BY <1>4, <1>5, <1>6, <1>7
<1>9. latest'[o] = e /\ \A p \in Operations \ {o} : latest'[p] = latest[p]
  BY <1>4, <1>7
<1>10. PICK y : y = [c EXCEPT !.pc = "begun", !.effect = e]
  OBVIOUS
<1>11. child'[r] = y /\ \A s \in Runs \ {r} : child'[s] = child[s]
  BY <1>1, <1>4, <1>7, <1>10
<1>12. UNCHANGED <<applied, remote>>
  BY DEF BeginEffect, worldVars
<1>13. EffectsOnward
  BY <1>5, <1>8, <1>12 DEF EffectsOnward
<1>14. y.pc = "begun" /\ y.op = o /\ y.effect = e /\ y.saw = c.saw
  BY <1>1, <1>3, <1>10 DEF ChildType
<1>15. ChildOK(y)'
  <2>1. effects'[e].op = o /\ effects'[e].state # "none"
    BY <1>6, <1>8
  <2>2. c.saw => c.op \in Pushes /\ applied'[c.op] > 0
    BY <1>1, <1>12 DEF ChildOK
  <2> QED
    BY <1>3, <1>5, <1>14, <2>1, <2>2 DEF ChildOK
<1>16. ChildrenInv'
  <2> SUFFICES ASSUME NEW s \in Runs  PROVE ChildOK(child[s])'
    BY DEF ChildrenInv
  <2>1. CASE s = r
    BY <1>11, <1>15, <2>1
  <2>2. CASE s # r
    <3>1. PICK x : x = child[s]
      OBVIOUS
    <3>2. ChildOK(x)
      BY <3>1 DEF EffectsOK, ChildrenInv
    <3>3. ChildOK(x)'
      BY <1>13, <3>2, ChildStays
    <3> QED
      BY <1>11, <2>2, <3>1, <3>3
  <2> QED
    BY <2>1, <2>2
<1>17. EffectsInv'
  <2>1. EffectTrue'
    <3> SUFFICES ASSUME NEW f \in Effects,
                        effects'[f].state \in {"completed", "reconciled_completed"}
                 PROVE  applied'[effects'[f].op] > 0
      BY DEF EffectTrue
    <3>1. f # e
      BY <1>6, <1>8
    <3> QED
      BY <1>8, <1>12, <3>1 DEF EffectsOK, EffectsInv, EffectTrue
  <2>2. \A f \in Effects : effects'[f].op \in Comments =>
          effects'[f].state \notin {"reconciled_completed", "reconciled_absent"}
    <3> SUFFICES ASSUME NEW f \in Effects, effects'[f].op \in Comments
                 PROVE  effects'[f].state \notin {"reconciled_completed", "reconciled_absent"}
      OBVIOUS
    <3>1. CASE f = e
      BY <1>6, <1>8, <3>1
    <3>2. CASE f # e
      BY <1>8, <3>2 DEF EffectsOK, EffectsInv
    <3> QED
      BY <3>1, <3>2
  <2>3. \A p \in Operations : latest'[p] # None =>
          effects'[latest'[p]].op = p /\ effects'[latest'[p]].state # "none"
    <3> SUFFICES ASSUME NEW p \in Operations, latest'[p] # None
                 PROVE  effects'[latest'[p]].op = p /\ effects'[latest'[p]].state # "none"
      OBVIOUS
    <3>1. CASE p = o
      BY <1>6, <1>8, <1>9, <3>1
    <3>2. CASE p # o
      <4>1. latest'[p] = latest[p] /\ latest[p] \in Effects
        BY <1>7, <1>9, <3>2
      <4>2. effects[latest[p]].op = p /\ effects[latest[p]].state # "none"
        BY <4>1 DEF EffectsOK, EffectsInv
      <4> QED
        BY <1>13, <4>1, <4>2 DEF EffectsOnward
    <3> QED
      BY <3>1, <3>2
  <2>4. \A p \in remote' : applied'[p] > 0
    BY <1>12 DEF EffectsOK, EffectsInv
  <2> QED
    BY <2>1, <2>2, <2>3, <2>4 DEF EffectsInv
<1>18. o \in Comments => latest[o] = None
  <2> SUFFICES ASSUME o \in Comments, latest[o] # None  PROVE FALSE
    OBVIOUS
  <2>1. latest[o] \in Effects /\ effects[latest[o]].state = "reconciled_absent"
    BY <1>1, <1>3, <1>7 DEF BeginEffect, EffectFree
  <2>2. effects[latest[o]].op = o
    BY DEF EffectsOK, EffectsInv
  <2> QED
    BY <2>1, <2>2 DEF EffectsOK, EffectsInv
<1>19. CommentsInv'
  <2> SUFFICES ASSUME NEW p \in Comments
               PROVE  /\ applied'[p] <= 1
                      /\ latest'[p] = None => applied'[p] = 0
                      /\ \A s \in Runs : child'[s].pc = "begun" /\ child'[s].op = p =>
                           latest'[p] # None /\ applied'[p] = 0
                      /\ \A s, t \in Runs :
                           /\ child'[s].pc = "begun" /\ child'[s].op = p
                           /\ child'[t].pc = "begun" /\ child'[t].op = p
                           => s = t
    BY DEF CommentsInv
  <2>1. p \in Operations /\ applied[p] <= 1 /\ (latest[p] = None => applied[p] = 0)
    BY DEF Operations, EffectsOK, CommentsInv
  <2>2. \A s \in Runs : child[s].pc = "begun" /\ child[s].op = p =>
          latest[p] # None /\ applied[p] = 0
    BY DEF EffectsOK, CommentsInv
  <2>3. CASE p = o
    <3>1. \A s \in Runs \ {r} : ~ (child'[s].pc = "begun" /\ child'[s].op = p)
      BY <1>11, <1>18, <2>2, <2>3
    <3> QED
      BY <1>5, <1>9, <1>12, <1>18, <2>1, <2>3, <3>1
  <2>4. CASE p # o
    <3>1. ~ (child'[r].pc = "begun" /\ child'[r].op = p)
      BY <1>11, <1>14, <2>4
    <3>2. latest'[p] = latest[p]
      BY <1>9, <2>1, <2>4
    <3>3. \A s, t \in Runs :
            /\ child[s].pc = "begun" /\ child[s].op = p
            /\ child[t].pc = "begun" /\ child[t].op = p
            => s = t
      BY DEF EffectsOK, CommentsInv
    <3> QED
      BY <1>11, <1>12, <2>1, <2>2, <3>1, <3>2, <3>3
  <2> QED
    BY <2>3, <2>4
<1> QED
  BY <1>16, <1>17, <1>19 DEF EffectsOK

\* GitHub carries out what was begun; the first comment is the last.
LEMMA CommentKeeps ==
  ASSUME ControlsConstants, ControlTypeOK, EffectsOK, NEW r \in Runs, Comment(r)
  PROVE  EffectsOK'
<1>1. PICK c \in ChildType : c = child[r] /\ ChildOK(c) /\ c.pc = "begun" /\ c.op \in Comments
  BY Here DEF Comment
<1>2. PICK o \in Comments : o = c.op
  BY <1>1
<1>3. PICK ok \in BOOLEAN, done \in BOOLEAN :
        /\ ok => done
        /\ applied' = [applied EXCEPT ![o] = @ + (IF done THEN 1 ELSE 0)]
        /\ child' = [child EXCEPT ![r].pc = "done", ![r].ok = ok]
  BY <1>1, <1>2 DEF Comment
<1>4. /\ applied \in [Operations -> Nat] /\ child \in [Runs -> ChildType] /\ o \in Operations
      /\ latest[o] # None /\ applied[o] = 0
  BY <1>1, <1>2 DEF ControlTypeOK, Operations, EffectsOK, CommentsInv
<1>5. /\ applied'[o] = (IF done THEN 1 ELSE 0)
      /\ \A p \in Operations \ {o} : applied'[p] = applied[p]
  BY <1>3, <1>4
<1>6. PICK y : y = [c EXCEPT !.pc = "done", !.ok = ok]
  OBVIOUS
<1>7. child'[r] = y /\ \A s \in Runs \ {r} : child'[s] = child[s]
  BY <1>1, <1>3, <1>4, <1>6
<1>8. UNCHANGED <<effects, latest, remote>>
  BY DEF Comment, controlVars
<1>9. EffectsOnward
  BY <1>4, <1>5, <1>8 DEF EffectsOnward
<1>10. ChildOK(y)'
  <2>1. ChildOK(c)'
    BY <1>1, <1>9, ChildStays
  <2>2. ok => applied'[c.op] > 0
    BY <1>2, <1>3, <1>5
  <2> QED
    BY <1>1, <1>6, <2>1, <2>2 DEF ChildOK, ChildType
<1>11. ChildrenInv'
  <2> SUFFICES ASSUME NEW s \in Runs  PROVE ChildOK(child[s])'
    BY DEF ChildrenInv
  <2>1. CASE s = r
    BY <1>7, <1>10, <2>1
  <2>2. CASE s # r
    <3>1. PICK x : x = child[s]
      OBVIOUS
    <3>2. ChildOK(x)
      BY <3>1 DEF EffectsOK, ChildrenInv
    <3>3. ChildOK(x)'
      BY <1>9, <3>2, ChildStays
    <3> QED
      BY <1>7, <2>2, <3>1, <3>3
  <2> QED
    BY <2>1, <2>2
<1>12. \A p : applied[p] > 0 /\ p \in Operations => applied'[p] > 0
  BY <1>9 DEF EffectsOnward
<1>13. EffectsInv'
  <2>1. EffectTrue'
    <3> SUFFICES ASSUME NEW e \in Effects,
                        effects[e].state \in {"completed", "reconciled_completed"}
                 PROVE  applied'[effects[e].op] > 0
      BY <1>8 DEF EffectTrue
    <3>1. applied[effects[e].op] > 0
      BY DEF EffectsOK, EffectsInv, EffectTrue
    <3>2. CASE effects[e].op \in Operations
      BY <1>12, <3>1, <3>2
    <3>3. CASE effects[e].op \notin Operations
      BY <1>3, <1>4, <3>1, <3>3
    <3> QED
      BY <3>2, <3>3
  <2>2. \A p \in remote' : applied'[p] > 0
    BY <1>8, <1>12 DEF EffectsOK, EffectsInv, ControlTypeOK, Operations
  <2> QED
    BY <1>8, <2>1, <2>2 DEF EffectsOK, EffectsInv
<1>14. CommentsInv'
  <2> SUFFICES ASSUME NEW p \in Comments
               PROVE  /\ applied'[p] <= 1
                      /\ latest[p] = None => applied'[p] = 0
                      /\ \A s \in Runs : child'[s].pc = "begun" /\ child'[s].op = p =>
                           latest[p] # None /\ applied'[p] = 0
                      /\ \A s, t \in Runs :
                           /\ child'[s].pc = "begun" /\ child'[s].op = p
                           /\ child'[t].pc = "begun" /\ child'[t].op = p
                           => s = t
    BY <1>8 DEF CommentsInv
  <2>1. y.pc = "done"
    BY <1>1, <1>6 DEF ChildType
  <2>2. p \in Operations /\ applied[p] <= 1 /\ (latest[p] = None => applied[p] = 0)
    BY DEF Operations, EffectsOK, CommentsInv
  <2>3. \A s \in Runs : child[s].pc = "begun" /\ child[s].op = p =>
          latest[p] # None /\ applied[p] = 0
    BY DEF EffectsOK, CommentsInv
  <2>4. \A s, t \in Runs :
          /\ child[s].pc = "begun" /\ child[s].op = p
          /\ child[t].pc = "begun" /\ child[t].op = p
          => s = t
    BY DEF EffectsOK, CommentsInv
  <2>5. CASE p = o
    <3>1. \A s \in Runs : ~ (child'[s].pc = "begun" /\ child'[s].op = p)
      BY <1>1, <1>2, <1>7, <2>1, <2>4, <2>5
    <3> QED
      BY <1>4, <1>5, <2>5, <3>1
  <2>6. CASE p # o
    BY <1>5, <1>7, <2>1, <2>2, <2>3, <2>4, <2>6
  <2> QED
    BY <2>5, <2>6
<1> QED
  BY <1>11, <1>13, <1>14 DEF EffectsOK

LEMMA PushKeeps ==
  ASSUME ControlsConstants, ControlTypeOK, EffectsOK, NEW r \in Runs, Push(r)
  PROVE  EffectsOK'
<1>1. PICK c \in ChildType : c = child[r] /\ ChildOK(c) /\ c.pc = "begun" /\ c.op \in Pushes
  BY Here DEF Push
<1>2. PICK o \in Pushes : o = c.op
  BY <1>1
<1>3. PICK ok \in BOOLEAN, done \in BOOLEAN :
        /\ ok => done
        /\ applied' = [applied EXCEPT ![o] = IF done THEN 1 ELSE @]
        /\ remote' = IF done THEN remote \cup {o} ELSE remote
        /\ child' = [child EXCEPT ![r].pc = "acted", ![r].ok = ok]
  BY <1>1, <1>2 DEF Push
<1>4. /\ applied \in [Operations -> Nat] /\ child \in [Runs -> ChildType] /\ o \in Operations
      /\ o \notin Comments
  BY <1>2 DEF ControlTypeOK, Operations, ControlsConstants
<1>5. /\ done => applied'[o] = 1
      /\ ~ done => applied'[o] = applied[o]
      /\ \A p \in Operations \ {o} : applied'[p] = applied[p]
  BY <1>3, <1>4
<1>6. PICK y : y = [c EXCEPT !.pc = "acted", !.ok = ok]
  OBVIOUS
<1>7. child'[r] = y /\ \A s \in Runs \ {r} : child'[s] = child[s]
  BY <1>1, <1>3, <1>4, <1>6
<1>8. UNCHANGED <<effects, latest>>
  BY DEF Push, controlVars
<1>9. EffectsOnward
  BY <1>4, <1>5, <1>8 DEF EffectsOnward
<1>10. ChildOK(y)'
  <2>1. ChildOK(c)'
    BY <1>1, <1>9, ChildStays
  <2>2. ok => applied'[c.op] > 0
    BY <1>2, <1>3, <1>5
  <2> QED
    BY <1>1, <1>6, <2>1, <2>2 DEF ChildOK, ChildType
<1>11. ChildrenInv'
  <2> SUFFICES ASSUME NEW s \in Runs  PROVE ChildOK(child[s])'
    BY DEF ChildrenInv
  <2>1. CASE s = r
    BY <1>7, <1>10, <2>1
  <2>2. CASE s # r
    <3>1. PICK x : x = child[s]
      OBVIOUS
    <3>2. ChildOK(x)
      BY <3>1 DEF EffectsOK, ChildrenInv
    <3>3. ChildOK(x)'
      BY <1>9, <3>2, ChildStays
    <3> QED
      BY <1>7, <2>2, <3>1, <3>3
  <2> QED
    BY <2>1, <2>2
<1>12. \A p : applied[p] > 0 /\ p \in Operations => applied'[p] > 0
  BY <1>9 DEF EffectsOnward
<1>13. EffectsInv'
  <2>1. EffectTrue'
    <3> SUFFICES ASSUME NEW e \in Effects,
                        effects[e].state \in {"completed", "reconciled_completed"}
                 PROVE  applied'[effects[e].op] > 0
      BY <1>8 DEF EffectTrue
    <3>1. applied[effects[e].op] > 0
      BY DEF EffectsOK, EffectsInv, EffectTrue
    <3>2. CASE effects[e].op \in Operations
      BY <1>12, <3>1, <3>2
    <3>3. CASE effects[e].op \notin Operations
      BY <1>3, <1>4, <3>1, <3>3
    <3> QED
      BY <3>2, <3>3
  <2>2. \A p \in remote' : applied'[p] > 0
    <3> SUFFICES ASSUME NEW p \in remote'  PROVE applied'[p] > 0
      OBVIOUS
    <3>1. CASE p \in remote
      BY <1>12, <3>1 DEF EffectsOK, EffectsInv, ControlTypeOK, Operations
    <3>2. CASE p \notin remote
      BY <1>3, <1>5, <3>2
    <3> QED
      BY <3>1, <3>2
  <2> QED
    BY <1>8, <2>1, <2>2 DEF EffectsOK, EffectsInv
<1>14. CommentsInv'
  <2>1. y.pc = "acted"
    BY <1>1, <1>6 DEF ChildType
  <2>2. \A s \in Runs : child'[s].pc = "begun" => child'[s] = child[s]
    BY <1>7, <2>1
  <2>3. \A p \in Comments : applied'[p] = applied[p]
    BY <1>4, <1>5 DEF Operations
  <2> QED
    BY <1>8, <2>2, <2>3 DEF EffectsOK, CommentsInv
<1> QED
  BY <1>11, <1>13, <1>14 DEF EffectsOK

-----------------------------------------------------------------------------
(* The workers, and what else lets the effects be *)

\* The children that a step of a worker, a death or a check leaves.
LEMMA ChildrenQuiet ==
  ASSUME ControlsConstants, ControlTypeOK, EffectsOK,
         \/ \E l \in Lanes :
              \/ Spawn(l) \/ TakeLease(l) \/ ChildEnds(l) \/ Deadline(l) \/ Release(l)
              \/ FinishRun(l) \/ WorkerDies(l)
              \/ \E k \in RunKeys : BeginRun(l, k) \/ RefuseRun(l, k)
         \/ \E r \in Runs : ChildDies(r) \/ \E o \in Operations : Check(r, o)
         \/ \E o \in Pushes : BranchMoves(o)
         \/ Tick
  PROVE  EffectsOK' /\ child' \in [Runs -> ChildType]
<1>1. child \in [Runs -> ChildType]
  BY DEF ControlTypeOK
<1>2. PICK idle : idle = [NoChild EXCEPT !.pc = "idle"]
  OBVIOUS
<1>3. NoChild \in ChildType /\ idle \in ChildType /\ ChildOK(idle) /\ idle.pc # "begun"
      /\ ChildOK(NoChild) /\ NoChild.pc # "begun"
  BY <1>2, NoChildOK DEF NoChild, ChildType, None
<1>4. ASSUME NEW S \in SUBSET Runs, NEW c, c \in ChildType, ChildOK(c), c.pc # "begun",
             child' = [r \in Runs |-> IF r \in S THEN c ELSE child[r]],
             UNCHANGED <<effects, latest, applied>>, remote' \subseteq remote
      PROVE  EffectsOK' /\ child' \in [Runs -> ChildType]
  <2>1. \A r \in Runs : child'[r] # child[r] => ChildOK(child'[r]) /\ child'[r].pc # "begun"
    BY <1>4
  <2>2. EffectsOK'
    BY <1>4, <2>1, QuietKeeps
  <2> QED
    BY <1>1, <1>4, <2>2
<1>5. ASSUME UNCHANGED <<child, effects, latest, applied>>, remote' \subseteq remote
      PROVE  EffectsOK' /\ child' \in [Runs -> ChildType]
  <2>1. \A r \in Runs : child'[r] # child[r] => ChildOK(child'[r]) /\ child'[r].pc # "begun"
    BY <1>5
  <2> QED
    BY <1>1, <1>5, <2>1, QuietKeeps
<1>6. ASSUME NEW l \in Lanes,
             \/ Spawn(l) \/ TakeLease(l) \/ Release(l) \/ FinishRun(l)
             \/ \E k \in RunKeys : RefuseRun(l, k)
      PROVE  EffectsOK' /\ child' \in [Runs -> ChildType]
  <2>1. UNCHANGED <<child, effects, latest, applied>> /\ remote' \subseteq remote
    BY <1>6 DEF Spawn, TakeLease, Release, FinishRun, RefuseRun, WorkerOnly, controlVars,
                worldVars
  <2> QED
    BY <1>5, <2>1
<1>7. ASSUME Tick \/ \E o \in Pushes : BranchMoves(o)
      PROVE  EffectsOK' /\ child' \in [Runs -> ChildType]
  <2>1. UNCHANGED <<child, effects, latest, applied>> /\ remote' \subseteq remote
    BY <1>7 DEF Tick, BranchMoves, controlVars, processVars, worldVars
  <2> QED
    BY <1>5, <2>1
<1>8. ASSUME NEW l \in Lanes, ChildEnds(l) \/ Deadline(l)
      PROVE  EffectsOK' /\ child' \in [Runs -> ChildType]
  <2>1. PICK S \in SUBSET Runs : S = {r \in Runs : r = worker[l].run}
    OBVIOUS
  <2>2. child' = [r \in Runs |-> IF r \in S THEN NoChild ELSE child[r]]
    BY <1>1, <1>8, <2>1 DEF ChildEnds, Deadline
  <2>3. UNCHANGED <<effects, latest, applied>> /\ remote' \subseteq remote
    BY <1>8 DEF ChildEnds, Deadline, WorkerOnly, controlVars, worldVars
  <2> QED
    BY <1>3, <1>4, <2>2, <2>3
<1>9. ASSUME NEW l \in Lanes, WorkerDies(l)
      PROVE  EffectsOK' /\ child' \in [Runs -> ChildType]
  <2>1. PICK S \in SUBSET Runs : S = {r \in Runs : l \notin Spawned /\ runs[r].lane = l}
    OBVIOUS
  <2>2. child' = [r \in Runs |-> IF r \in S THEN NoChild ELSE child[r]]
    BY <1>1, <1>9, <2>1 DEF WorkerDies
  <2>3. UNCHANGED <<effects, latest, applied>> /\ remote' \subseteq remote
    BY <1>9 DEF WorkerDies, controlVars, worldVars
  <2> QED
    BY <1>3, <1>4, <2>2, <2>3
<1>10. ASSUME NEW l \in Lanes, NEW k \in RunKeys, BeginRun(l, k)
       PROVE  EffectsOK' /\ child' \in [Runs -> ChildType]
  <2>1. PICK r \in Runs : child' = [child EXCEPT ![r] = idle]
    BY <1>2, <1>10 DEF BeginRun, NextRun
  <2>2. child' = [s \in Runs |-> IF s \in {r} THEN idle ELSE child[s]]
    BY <1>1, <2>1
  <2>3. UNCHANGED <<effects, latest, applied>> /\ remote' \subseteq remote
    BY <1>10 DEF BeginRun, worldVars
  <2> QED
    BY <1>3, <1>4, <2>2, <2>3
<1>11. ASSUME NEW r \in Runs, ChildDies(r)
       PROVE  EffectsOK' /\ child' \in [Runs -> ChildType]
  <2>1. child' = [s \in Runs |-> IF s \in {r} THEN NoChild ELSE child[s]]
    BY <1>1, <1>11 DEF ChildDies
  <2>2. UNCHANGED <<effects, latest, applied>> /\ remote' \subseteq remote
    BY <1>11 DEF ChildDies, controlVars, worldVars
  <2> QED
    BY <1>3, <1>4, <2>1, <2>2
<1>12. ASSUME NEW r \in Runs, NEW o \in Operations, Check(r, o)
       PROVE  EffectsOK' /\ child' \in [Runs -> ChildType]
  <2>1. UNCHANGED <<effects, latest, applied>> /\ remote' \subseteq remote
    BY <1>12 DEF Check, worldVars
  <2>2. CASE child' = child
    BY <1>5, <2>1, <2>2
  <2>3. CASE child' # child
    <3>1. PICK c : c = [NoChild EXCEPT !.pc = "checked", !.op = o]
      OBVIOUS
    <3>2. child' = [s \in Runs |-> IF s \in {r} THEN c ELSE child[s]]
      BY <1>1, <1>12, <2>3, <3>1 DEF Check
    <3>3. c \in ChildType /\ ChildOK(c) /\ c.pc # "begun"
      BY <3>1 DEF ChildType, ChildOK, NoChild, None
    <3> QED
      BY <1>4, <2>1, <3>2, <3>3
  <2> QED
    BY <2>2, <2>3
<1> QED
  BY <1>6, <1>7, <1>8, <1>9, <1>10, <1>11, <1>12

LEMMA WorkerTyped ==
  ASSUME ControlsConstants, ControlTypeOK, WorkersInv, NEW l \in Lanes,
         \/ Spawn(l) \/ TakeLease(l) \/ ChildEnds(l) \/ Deadline(l) \/ Release(l)
         \/ FinishRun(l) \/ WorkerDies(l)
         \/ \E k \in RunKeys : BeginRun(l, k) \/ RefuseRun(l, k)
  PROVE  /\ WorkersInv' /\ worker' \in [Lanes -> WorkerType] /\ lease' \in Lanes \cup {"free"}
         /\ now' = now /\ deaths' \in 0 .. MaxDeaths
<1>1. worker \in [Lanes -> WorkerType] /\ lease \in Lanes \cup {"free"}
      /\ deaths \in 0 .. MaxDeaths
  BY DEF ControlTypeOK
<1>2. lease' \in Lanes \cup {"free"} /\ now' = now
  BY <1>1
     DEF Spawn, TakeLease, ChildEnds, Deadline, Release, FinishRun, WorkerDies, BeginRun,
         RefuseRun, WorkerOnly, Left
<1>3. deaths' \in 0 .. MaxDeaths
  <2>1. deaths' = deaths \/ (deaths < MaxDeaths /\ deaths' = deaths + 1)
    BY DEF Spawn, TakeLease, ChildEnds, Deadline, Release, FinishRun, WorkerDies, BeginRun,
           RefuseRun, WorkerOnly
  <2> QED
    BY <1>1, <2>1, Numbers
<1>4. PICK w \in WorkerType : w = worker[l]
  BY <1>1
<1>5. ASSUME NEW v \in WorkerType, worker' = [worker EXCEPT ![l] = v],
             v.pc \in {"watching", "ended", "finishing"} => v.run \in Runs
      PROVE  WorkersInv' /\ worker' \in [Lanes -> WorkerType]
  <2>1. worker'[l] = v /\ \A m \in Lanes \ {l} : worker'[m] = worker[m]
    BY <1>1, <1>5
  <2>2. WorkersInv'
    BY <1>5, <2>1 DEF WorkersInv
  <2> QED
    BY <1>1, <1>5, <2>2
<1>6. Off \in WorkerType /\ Off.pc = "off"
  BY DEF Off, WorkerType, None
<1>7. CASE \/ FinishRun(l) \/ WorkerDies(l)
           \/ \E k \in RunKeys : RefuseRun(l, k)
  <2>1. worker' = [worker EXCEPT ![l] = Off]
    BY <1>7 DEF FinishRun, WorkerDies, RefuseRun
  <2> QED
    BY <1>2, <1>3, <1>5, <1>6, <2>1
<1>8. CASE Spawn(l)
  <2>1. PICK v : v = [Off EXCEPT !.pc = "started"]
    OBVIOUS
  <2>2. v \in WorkerType /\ v.pc = "started"
    BY <2>1 DEF Off, WorkerType, None
  <2>3. worker' = [worker EXCEPT ![l] = v]
    BY <1>8, <2>1 DEF Spawn
  <2> QED
    BY <1>2, <1>3, <1>5, <2>2, <2>3
<1>9. CASE TakeLease(l)
  <2>1. PICK v : v = [w EXCEPT !.pc = "leased"]
    OBVIOUS
  <2>2. v \in WorkerType /\ v.pc = "leased"
    BY <1>4, <2>1 DEF WorkerType
  <2>3. worker' = [worker EXCEPT ![l] = v] \/ worker' = [worker EXCEPT ![l] = Off]
    BY <1>1, <1>4, <1>9, <2>1 DEF TakeLease
  <2> QED
    BY <1>2, <1>3, <1>5, <1>6, <2>2, <2>3
<1>10. CASE ChildEnds(l) \/ Deadline(l)
  <2>1. w.run \in Runs
    BY <1>4, <1>10 DEF ChildEnds, Deadline, WorkersInv
  <2>2. \E ok \in BOOLEAN : worker' = [worker EXCEPT ![l] = [w EXCEPT !.pc = "ended", !.ok = ok]]
    <3>1. CASE ChildEnds(l)
      BY <1>1, <1>4, <3>1 DEF ChildEnds
    <3>2. CASE Deadline(l)
      <4>1. w.ok \in BOOLEAN /\ [w EXCEPT !.pc = "ended", !.ok = w.ok] = [w EXCEPT !.pc = "ended"]
        BY <1>4 DEF WorkerType
      <4>2. worker' = [worker EXCEPT ![l] = [w EXCEPT !.pc = "ended"]]
        BY <1>1, <1>4, <3>2 DEF Deadline
      <4> QED
        BY <4>1, <4>2
    <3> QED
      BY <1>10, <3>1, <3>2
  <2>3. PICK ok \in BOOLEAN :
          worker' = [worker EXCEPT ![l] = [w EXCEPT !.pc = "ended", !.ok = ok]]
    BY <2>2
  <2>4. PICK v : v = [w EXCEPT !.pc = "ended", !.ok = ok]
    OBVIOUS
  <2>5. v \in WorkerType /\ v.run \in Runs
    BY <1>4, <2>1, <2>4 DEF WorkerType
  <2> QED
    BY <1>2, <1>3, <1>5, <2>3, <2>4, <2>5
<1>11. CASE Release(l)
  <2>1. PICK v : v = [w EXCEPT !.pc = "finishing"]
    OBVIOUS
  <2>2. v \in WorkerType /\ v.run \in Runs
    BY <1>4, <1>11, <2>1 DEF WorkerType, Release, WorkersInv
  <2>3. worker' = [worker EXCEPT ![l] = v]
    BY <1>1, <1>4, <1>11, <2>1 DEF Release
  <2> QED
    BY <1>2, <1>3, <1>5, <2>2, <2>3
<1>12. CASE \E k \in RunKeys : BeginRun(l, k)
  <2>1. PICK r \in Runs : worker' = [worker EXCEPT ![l] = [pc |-> "watching", run |-> r,
                                                           ok |-> FALSE]]
    BY <1>12 DEF BeginRun, NextRun
  <2>2. PICK v : v = [pc |-> "watching", run |-> r, ok |-> FALSE]
    OBVIOUS
  <2>3. v \in WorkerType /\ v.run \in Runs
    BY <2>2 DEF WorkerType
  <2> QED
    BY <1>2, <1>3, <1>5, <2>1, <2>2, <2>3
<1> QED
  BY <1>7, <1>8, <1>9, <1>10, <1>11, <1>12


-----------------------------------------------------------------------------
(* The types *)

LEMMA CircuitTyped ==
  ASSUME ControlsConstants, ControlTypeOK, WorkersInv,
         \/ UNCHANGED circuit
         \/ circuit' = RecoveredCircuit
         \/ \E l \in Lanes : FinishRun(l)
  PROVE  circuit' \in [Lanes -> CircuitType]
<1>1. circuit \in [Lanes -> CircuitType] /\ now \in Times
  BY DEF ControlTypeOK
<1>2. CASE \E l \in Lanes : FinishRun(l)
  <2>1. PICK lane : \/ UNCHANGED circuit
                    \/ \E ok : circuit' = Streak(circuit, lane, ok)
    BY <1>2 DEF FinishRun
  <2>2. CASE UNCHANGED circuit
    BY <1>1, <2>2
  <2>3. CASE \E ok : circuit' = Streak(circuit, lane, ok)
    <3>1. PICK ok : circuit' = Streak(circuit, lane, ok)
      BY <2>3
    <3>2. CASE lane \in Lanes
      <4>1. circuit[lane].failures \in Nat
        BY <1>1, <3>2 DEF CircuitType
      <4>2. PICK v : v = IF ok THEN [failures |-> 0, at |-> 0]
                         ELSE [failures |-> circuit[lane].failures + 1, at |-> now]
        OBVIOUS
      <4>3. v \in CircuitType
        BY <1>1, <4>1, <4>2, Numbers DEF CircuitType, Times
      <4>4. circuit' = [circuit EXCEPT ![lane] = v]
        BY <1>1, <3>1, <3>2, <4>2 DEF Streak
      <4> QED
        BY <1>1, <4>3, <4>4
    <3>3. CASE lane \notin Lanes
      BY <1>1, <3>1, <3>3 DEF Streak
    <3> QED
      BY <3>2, <3>3
  <2> QED
    BY <2>1, <2>2, <2>3
<1> QED
  BY <1>1, <1>2, RecoveredTyped

\* A step of a child on an effect.
EffectStep(r) ==
  \/ ReadRemote(r) \/ BeginEffect(r) \/ RefuseEffect(r) \/ Reconcile(r)
  \/ AlreadyThere(r) \/ Comment(r) \/ Push(r) \/ ReadBack(r) \/ FinishEffect(r)

LEMMA EffectStepKeeps ==
  ASSUME ControlsConstants, ControlTypeOK, EffectsOK, NEW r \in Runs, EffectStep(r)
  PROVE  EffectsOK'
BY ReadRemoteKeeps, BeginEffectKeeps, RefuseEffectKeeps, ReconcileKeeps, CommentKeeps,
   PushKeeps, ReadBackKeeps, FinishEffectKeeps DEF EffectStep

LEMMA EffectStepFrame ==
  ASSUME NEW r \in Runs, EffectStep(r)
  PROVE  UNCHANGED <<now, lease, worker, deaths, runs, charged, circuit>>
BY DEF EffectStep, ReadRemote, BeginEffect, RefuseEffect, Reconcile, AlreadyThere, Comment,
       Push, ReadBack, FinishEffect, ByChild, controlVars, worldVars

\* What such a step makes of the child.
LEMMA EffectStepChild ==
  ASSUME ControlsConstants, ControlTypeOK, EffectsOK, NEW r \in Runs, EffectStep(r)
  PROVE  child' \in [Runs -> ChildType]
<1>1. child \in [Runs -> ChildType] /\ latest \in [Operations -> Effects \cup {None}]
      /\ ChildOK(child[r])
  BY Here DEF ControlTypeOK
<1>2. PICK c \in ChildType : c = child[r]
  BY <1>1
<1>3. PICK idle : idle = [NoChild EXCEPT !.pc = "idle"]
  OBVIOUS
<1>4. idle \in ChildType
  BY <1>3 DEF NoChild, ChildType, None
<1>5. ASSUME NEW pc \in {"read", "refused", "retry", "begun", "acted", "done"},
             NEW e \in Effects \cup {None}, NEW saw \in BOOLEAN, NEW ok \in BOOLEAN,
             child' = [child EXCEPT ![r] = [c EXCEPT !.pc = pc, !.effect = e, !.saw = saw,
                                                     !.ok = ok]]
      PROVE  child' \in [Runs -> ChildType]
  <2>1. PICK v : v = [c EXCEPT !.pc = pc, !.effect = e, !.saw = saw, !.ok = ok]
    OBVIOUS
  <2>2. v \in ChildType
    <3>1. v = [pc |-> pc, op |-> c.op, effect |-> e, saw |-> saw, ok |-> ok]
      BY <1>2, <2>1 DEF ChildType
    <3>2. c.op \in Operations \cup {"none"}
      BY <1>2 DEF ChildType
    <3> QED
      BY <3>1, <3>2 DEF ChildType
  <2> QED
    BY <1>1, <1>5, <2>1, <2>2
<1>6. ASSUME child' = [child EXCEPT ![r] = idle]
      PROVE  child' \in [Runs -> ChildType]
  BY <1>1, <1>4, <1>6
<1>7. c.effect \in Effects \cup {None} /\ c.saw \in BOOLEAN /\ c.ok \in BOOLEAN
  BY <1>2 DEF ChildType
<1>9. CASE ReadRemote(r)
  <2>1. PICK saw \in BOOLEAN : saw <=> c.op \in remote
    OBVIOUS
  <2>2. child' = [child EXCEPT ![r] = [c EXCEPT !.pc = "read", !.saw = saw]]
    BY <1>1, <1>2, <1>9, <2>1 DEF ReadRemote
  <2>3. [c EXCEPT !.pc = "read", !.saw = saw] =
          [c EXCEPT !.pc = "read", !.effect = c.effect, !.saw = saw, !.ok = c.ok]
    BY <1>2 DEF ChildType
  <2> QED
    BY <1>5, <1>7, <2>2, <2>3
<1>10. CASE BeginEffect(r)
  <2>1. PICK e \in Effects : child' = [child EXCEPT ![r].pc = "begun", ![r].effect = e]
    BY <1>10 DEF BeginEffect, NextEffect
  <2>2. child' = [child EXCEPT ![r] = [c EXCEPT !.pc = "begun", !.effect = e]]
    BY <1>1, <1>2, <2>1
  <2>3. [c EXCEPT !.pc = "begun", !.effect = e] =
          [c EXCEPT !.pc = "begun", !.effect = e, !.saw = c.saw, !.ok = c.ok]
    BY <1>2 DEF ChildType
  <2> QED
    BY <1>5, <1>7, <2>2, <2>3
<1>11. CASE RefuseEffect(r)
  <2>1. CASE child' = [child EXCEPT ![r] = idle]
    BY <1>6, <2>1
  <2>2. CASE child' # [child EXCEPT ![r] = idle]
    <3>1. Asking(r)
      BY <1>11 DEF RefuseEffect
    <3>2. c.op \in Operations
      BY <1>1, <1>2, <3>1 DEF Asking, ChildOK
    <3>3. PICK e : e = latest[c.op]
      OBVIOUS
    <3>4. e \in Effects \cup {None}
      BY <1>1, <3>2, <3>3
    <3>5. child' = [child EXCEPT ![r].pc = "refused", ![r].effect = e]
      BY <1>2, <1>3, <1>11, <2>2, <3>3 DEF RefuseEffect
    <3>6. child' = [child EXCEPT ![r] = [c EXCEPT !.pc = "refused", !.effect = e]]
      BY <1>1, <1>2, <3>5
    <3>7. [c EXCEPT !.pc = "refused", !.effect = e] =
            [c EXCEPT !.pc = "refused", !.effect = e, !.saw = c.saw, !.ok = c.ok]
      BY <1>2 DEF ChildType
    <3> QED
      BY <1>5, <1>7, <3>4, <3>6, <3>7
  <2> QED
    BY <2>1, <2>2
<1>12. CASE AlreadyThere(r) \/ FinishEffect(r)
  <2>1. child' = [child EXCEPT ![r] = idle]
    BY <1>3, <1>12 DEF AlreadyThere, FinishEffect
  <2> QED
    BY <1>6, <2>1
<1>13. CASE Reconcile(r)
  <2>1. CASE c.saw
    <3>1. child' = [child EXCEPT ![r] = idle]
      BY <1>2, <1>3, <1>13, <2>1 DEF Reconcile
    <3> QED
      BY <1>6, <3>1
  <2>2. CASE ~ c.saw
    <3>1. child' = [child EXCEPT ![r] = [c EXCEPT !.pc = "retry"]]
      BY <1>1, <1>2, <1>13, <2>2 DEF Reconcile, Step
    <3>2. [c EXCEPT !.pc = "retry"] =
            [c EXCEPT !.pc = "retry", !.effect = c.effect, !.saw = c.saw, !.ok = c.ok]
      BY <1>2 DEF ChildType
    <3> QED
      BY <1>5, <1>7, <3>1, <3>2
  <2> QED
    BY <2>1, <2>2
<1>14. CASE Comment(r) \/ Push(r)
  <2>1. PICK ok \in BOOLEAN, pc \in {"done", "acted"} :
          child' = [child EXCEPT ![r].pc = pc, ![r].ok = ok]
    <3>1. CASE Comment(r)
      BY <3>1 DEF Comment
    <3>2. CASE Push(r)
      BY <3>2 DEF Push
    <3> QED
      BY <1>14, <3>1, <3>2
  <2>2. child' = [child EXCEPT ![r] = [c EXCEPT !.pc = pc, !.ok = ok]]
    BY <1>1, <1>2, <2>1
  <2>3. [c EXCEPT !.pc = pc, !.ok = ok] =
          [c EXCEPT !.pc = pc, !.effect = c.effect, !.saw = c.saw, !.ok = ok]
    BY <1>2 DEF ChildType
  <2>4. PICK e \in Effects \cup {None}, saw \in BOOLEAN :
          child' = [child EXCEPT ![r] = [c EXCEPT !.pc = pc, !.effect = e, !.saw = saw,
                                                  !.ok = ok]]
    BY <1>7, <2>2, <2>3
  <2>5. pc \in {"read", "refused", "retry", "begun", "acted", "done"}
    OBVIOUS
  <2> QED
    BY <1>5, <2>4, <2>5
<1>15. CASE ReadBack(r)
  <2>1. \/ child' = [child EXCEPT ![r] = idle]
        \/ \E ok \in BOOLEAN : child' = [child EXCEPT ![r] = [c EXCEPT !.pc = "done", !.ok = ok]]
    <3>1. CASE child[r].op \in remote
      <4>1. child' = [child EXCEPT ![r] = [c EXCEPT !.pc = "done", !.ok = TRUE]]
        BY <1>1, <1>2, <1>15, <3>1 DEF ReadBack
      <4> QED
        BY <4>1
    <3>2. CASE child[r].op \notin remote /\ c.ok
      BY <1>2, <1>3, <1>15, <3>2 DEF ReadBack
    <3>3. CASE child[r].op \notin remote /\ ~ c.ok
      <4>1. child' = [child EXCEPT ![r] = [c EXCEPT !.pc = "done"]]
        BY <1>1, <1>2, <1>15, <3>3 DEF ReadBack
      <4>2. [c EXCEPT !.pc = "done"] = [c EXCEPT !.pc = "done", !.ok = c.ok]
        BY <1>2 DEF ChildType
      <4> QED
        BY <1>7, <4>1, <4>2
    <3> QED
      BY <3>1, <3>2, <3>3
  <2>2. CASE child' = [child EXCEPT ![r] = idle]
    BY <1>6, <2>2
  <2>3. ASSUME NEW ok \in BOOLEAN,
               child' = [child EXCEPT ![r] = [c EXCEPT !.pc = "done", !.ok = ok]]
        PROVE  child' \in [Runs -> ChildType]
    <3>1. [c EXCEPT !.pc = "done", !.ok = ok] =
            [c EXCEPT !.pc = "done", !.effect = c.effect, !.saw = c.saw, !.ok = ok]
      BY <1>2 DEF ChildType
    <3> QED
      BY <1>5, <1>7, <2>3, <3>1
  <2> QED
    BY <2>1, <2>2, <2>3
<1> QED
  BY <1>9, <1>10, <1>11, <1>12, <1>13, <1>14, <1>15 DEF EffectStep

\* What such a step makes of the effects and of GitHub.
LEMMA EffectStepTables ==
  ASSUME ControlsConstants, ControlTypeOK, EffectsOK, NEW r \in Runs, EffectStep(r)
  PROVE  /\ effects' \in [Effects -> EffectType]
         /\ latest' \in [Operations -> Effects \cup {None}]
         /\ applied' \in [Operations -> Nat] /\ remote' \subseteq Pushes
<1>1. /\ effects \in [Effects -> EffectType]
      /\ latest \in [Operations -> Effects \cup {None}]
      /\ applied \in [Operations -> Nat] /\ remote \subseteq Pushes /\ Day(now) \in Days
      /\ Pushes \subseteq Operations /\ Comments \subseteq Operations
      /\ ChildOK(child[r])
  BY Here, TodayIsDay DEF ControlTypeOK, Operations
<1>2. \A e \in Effects : \A state \in {"completed", "failed", "reconciled_completed",
                                       "reconciled_absent"} :
        effects' = [effects EXCEPT ![e].state = state] => effects' \in [Effects -> EffectType]
  <2> SUFFICES ASSUME NEW e \in Effects,
                      NEW state \in {"completed", "failed", "reconciled_completed",
                                     "reconciled_absent"},
                      effects' = [effects EXCEPT ![e].state = state]
               PROVE  effects' \in [Effects -> EffectType]
    OBVIOUS
  <2>1. PICK f \in EffectType : f = effects[e]
    BY <1>1
  <2>2. PICK g : g = [f EXCEPT !.state = state]
    OBVIOUS
  <2>3. g \in EffectType
    BY <2>1, <2>2 DEF EffectType
  <2>4. effects' = [effects EXCEPT ![e] = g]
    BY <1>1, <2>1, <2>2
  <2> QED
    BY <1>1, <2>3, <2>4
<1>3. CASE ReadRemote(r) \/ RefuseEffect(r) \/ ReadBack(r)
  <2>1. UNCHANGED <<effects, latest, applied, remote>>
    BY <1>3 DEF ReadRemote, RefuseEffect, ReadBack, controlVars, worldVars
  <2> QED
    BY <1>1, <2>1
<1>4. CASE Comment(r)
  <2>1. UNCHANGED <<effects, latest, remote>>
    BY <1>4 DEF Comment, controlVars
  <2>2. PICK o \in Operations, done \in BOOLEAN :
          applied' = [applied EXCEPT ![o] = @ + (IF done THEN 1 ELSE 0)]
    BY <1>1, <1>4 DEF Comment
  <2> QED
    BY <1>1, <2>1, <2>2
<1>5. CASE Push(r)
  <2>1. UNCHANGED <<effects, latest>>
    BY <1>5 DEF Push, controlVars
  <2>2. PICK o \in Pushes, done \in BOOLEAN :
          /\ applied' = [applied EXCEPT ![o] = IF done THEN 1 ELSE @]
          /\ remote' = IF done THEN remote \cup {o} ELSE remote
    BY <1>5 DEF Push
  <2> QED
    BY <1>1, <2>1, <2>2
<1>6. CASE Reconcile(r) \/ AlreadyThere(r)
  <2>1. UNCHANGED <<latest, applied, remote>>
    BY <1>6 DEF Reconcile, AlreadyThere, worldVars
  <2>2. child[r].effect \in Effects
    BY <1>1, <1>6 DEF Reconcile, AlreadyThere, ChildOK
  <2>3. effects' = effects \/ \E state \in {"reconciled_completed", "reconciled_absent"} :
                                effects' = [effects EXCEPT ![child[r].effect].state = state]
    BY <1>6 DEF Reconcile, AlreadyThere, Reconciled
  <2>4. effects' \in [Effects -> EffectType]
    BY <1>1, <1>2, <2>2, <2>3
  <2> QED
    BY <1>1, <2>1, <2>4
<1>7. CASE FinishEffect(r)
  <2>1. UNCHANGED <<latest, applied, remote>>
    BY <1>7 DEF FinishEffect, worldVars
  <2>2. child[r].effect \in Effects
    BY <1>1, <1>7 DEF FinishEffect, ChildOK
  <2>3. effects' = effects \/ \E state \in {"completed", "failed"} :
                                effects' = [effects EXCEPT ![child[r].effect].state = state]
    BY <1>7 DEF FinishEffect
  <2>4. effects' \in [Effects -> EffectType]
    BY <1>1, <1>2, <2>2, <2>3
  <2> QED
    BY <1>1, <2>1, <2>4
<1>8. CASE BeginEffect(r)
  <2>1. PICK o \in Operations : o = child[r].op
    BY <1>1, <1>8 DEF BeginEffect, Asking, ChildOK
  <2>2. PICK e \in Effects :
          /\ effects' = [effects EXCEPT ![e] = [state |-> "pending", op |-> o,
                                                day |-> Day(now)]]
          /\ latest' = [latest EXCEPT ![o] = e]
    BY <1>8, <2>1 DEF BeginEffect, NextEffect
  <2>3. UNCHANGED <<applied, remote>>
    BY <1>8 DEF BeginEffect, worldVars
  <2>4. [state |-> "pending", op |-> o, day |-> Day(now)] \in EffectType
    BY <1>1 DEF EffectType
  <2> QED
    BY <1>1, <2>2, <2>3, <2>4
<1> QED
  BY <1>3, <1>4, <1>5, <1>6, <1>7, <1>8 DEF EffectStep

-----------------------------------------------------------------------------
(* Every step *)

\* A step of a worker.
WorkerStep(l) ==
  \/ Spawn(l) \/ TakeLease(l) \/ ChildEnds(l) \/ Deadline(l) \/ Release(l)
  \/ FinishRun(l) \/ WorkerDies(l)
  \/ \E k \in RunKeys : BeginRun(l, k) \/ RefuseRun(l, k)

LEMMA WorkerRuns ==
  ASSUME ControlsConstants, ControlTypeOK, WorkersInv, RunsOK, NEW l \in Lanes, WorkerStep(l)
  PROVE  RunsOK'
<1>1. CASE FinishRun(l) \/ \E k \in RunKeys : BeginRun(l, k)
  BY <1>1, FinishRunKeeps, BeginRunKeeps
<1>2. CASE \E k \in RunKeys : RefuseRun(l, k)
  <2>1. runs' = Recovered /\ now' = now /\ charged' = charged
    BY <1>2 DEF RefuseRun
  <2> QED
    BY <2>1, RecoveredTyped, RecoveryKeeps
<1>3. CASE \/ Spawn(l) \/ TakeLease(l) \/ ChildEnds(l) \/ Deadline(l) \/ Release(l)
           \/ WorkerDies(l)
  <2>1. UNCHANGED <<runs, charged>> /\ now' = now
    BY <1>3 DEF Spawn, TakeLease, ChildEnds, Deadline, Release, WorkerDies, WorkerOnly,
                controlVars
  <2>2. now \in Nat
    BY Numbers DEF ControlTypeOK
  <2> QED
    BY <2>1, <2>2, RunsStay
<1> QED
  BY <1>1, <1>2, <1>3 DEF WorkerStep

LEMMA WorkerCircuit ==
  ASSUME ControlsConstants, ControlTypeOK, WorkersInv, NEW l \in Lanes, WorkerStep(l)
  PROVE  circuit' \in [Lanes -> CircuitType]
<1>1. \/ UNCHANGED circuit \/ circuit' = RecoveredCircuit \/ FinishRun(l)
  BY DEF WorkerStep, Spawn, TakeLease, ChildEnds, Deadline, Release, WorkerDies, WorkerOnly,
         controlVars, BeginRun, RefuseRun
<1> QED
  BY <1>1, CircuitTyped

LEMMA WorkerTables ==
  ASSUME ControlTypeOK, NEW l \in Lanes, WorkerStep(l)
  PROVE  UNCHANGED <<effects, latest, applied, remote>>
BY DEF WorkerStep, Spawn, TakeLease, ChildEnds, Deadline, Release, WorkerDies, WorkerOnly,
       controlVars, worldVars, BeginRun, RefuseRun, FinishRun

\* The invariant in the parts that the steps above keep.
Parts == ControlTypeOK /\ WorkersInv /\ RunsOK /\ EffectsOK

LEMMA PartsAre == Parts <=> ControlsInv
BY DEF Parts, ControlsInv, RunsOK, EffectsOK, RuntimeInv, ControlTypeOK

LEMMA WorkerKeeps ==
  ASSUME ControlsConstants, Parts, NEW l \in Lanes, WorkerStep(l)
  PROVE  Parts'
<1>1. ControlTypeOK /\ WorkersInv /\ RunsOK /\ EffectsOK
  BY DEF Parts
<1>2. /\ WorkersInv' /\ worker' \in [Lanes -> WorkerType] /\ lease' \in Lanes \cup {"free"}
      /\ now' = now /\ deaths' \in 0 .. MaxDeaths
  BY <1>1, WorkerTyped DEF WorkerStep
<1>3. RunsOK'
  BY <1>1, WorkerRuns
<1>4. EffectsOK' /\ child' \in [Runs -> ChildType]
  BY <1>1, ChildrenQuiet DEF WorkerStep
<1>5. circuit' \in [Lanes -> CircuitType]
  BY <1>1, WorkerCircuit
<1>6. UNCHANGED <<effects, latest, applied, remote>>
  BY <1>1, WorkerTables
<1>7. ControlTypeOK'
  BY <1>1, <1>2, <1>3, <1>4, <1>5, <1>6 DEF ControlTypeOK, RunsOK
<1> QED
  BY <1>2, <1>3, <1>4, <1>7 DEF Parts

LEMMA EffectKeeps ==
  ASSUME ControlsConstants, Parts, NEW r \in Runs, EffectStep(r)
  PROVE  Parts'
<1>1. ControlTypeOK /\ WorkersInv /\ RunsOK /\ EffectsOK
  BY DEF Parts
<1>2. UNCHANGED <<now, lease, worker, deaths, runs, charged, circuit>>
  BY EffectStepFrame
<1>3. EffectsOK'
  BY <1>1, EffectStepKeeps
<1>4. now \in Nat
  BY <1>1, Numbers DEF ControlTypeOK
<1>5. RunsOK'
  BY <1>1, <1>2, <1>4, RunsStay
<1>6. WorkersInv'
  BY <1>1, <1>2 DEF WorkersInv
<1>7. child' \in [Runs -> ChildType]
  BY <1>1, EffectStepChild
<1>8. /\ effects' \in [Effects -> EffectType]
      /\ latest' \in [Operations -> Effects \cup {None}]
      /\ applied' \in [Operations -> Nat] /\ remote' \subseteq Pushes
  BY <1>1, EffectStepTables
<1>9. ControlTypeOK'
  BY <1>1, <1>2, <1>7, <1>8 DEF ControlTypeOK
<1> QED
  BY <1>3, <1>5, <1>6, <1>9 DEF Parts

LEMMA OtherKeeps ==
  ASSUME ControlsConstants, Parts,
         \/ \E r \in Runs : ChildDies(r) \/ \E o \in Operations : Check(r, o)
         \/ \E o \in Pushes : BranchMoves(o)
         \/ Tick
  PROVE  Parts'
<1>1. ControlTypeOK /\ WorkersInv /\ RunsOK /\ EffectsOK
  BY DEF Parts
<1>2. EffectsOK' /\ child' \in [Runs -> ChildType]
  BY <1>1, ChildrenQuiet
<1>3. UNCHANGED <<lease, worker, effects, latest, applied>> /\ remote' \subseteq remote
  BY DEF ChildDies, Check, BranchMoves, Tick, ByChild, controlVars, processVars, worldVars
<1>4. WorkersInv'
  BY <1>1, <1>3 DEF WorkersInv
<1>5. now \in Nat /\ MaxTime \in Nat /\ MaxDeaths \in Nat /\ Times = 0 .. MaxTime
      /\ now \in Times /\ deaths \in 0 .. MaxDeaths
  BY <1>1, Numbers DEF ControlTypeOK, Times
<1>6. now' \in Times /\ now <= now' /\ deaths' \in 0 .. MaxDeaths
  <2>1. now' = now \/ Tick
    BY DEF ChildDies, Check, BranchMoves, ByChild
  <2>2. deaths' = deaths \/ \E r \in Runs : ChildDies(r)
    BY DEF Check, BranchMoves, ByChild, Tick
  <2> QED
    BY <1>5, <2>1, <2>2 DEF Tick, ChildDies
<1>7. circuit' \in [Lanes -> CircuitType]
  <2>1. UNCHANGED circuit \/ circuit' = RecoveredCircuit
    BY DEF ChildDies, Check, BranchMoves, Tick, controlVars
  <2> QED
    BY <1>1, <2>1, CircuitTyped
<1>8. RunsOK'
  <2>1. CASE \E r \in Runs : \E o \in Operations : Check(r, o)
    <3>1. runs' = Recovered /\ now' = now /\ charged' = charged
      BY <2>1 DEF Check, ByChild
    <3> QED
      BY <1>1, <3>1, RecoveredTyped, RecoveryKeeps
  <2>2. CASE ~ \E r \in Runs : \E o \in Operations : Check(r, o)
    <3>1. UNCHANGED <<runs, charged>>
      BY <2>2 DEF ChildDies, BranchMoves, Tick, controlVars
    <3>2. now' \in Nat
      BY <1>5, <1>6
    <3> QED
      BY <1>1, <1>6, <3>1, <3>2, RunsStay
  <2> QED
    BY <2>1, <2>2
<1>9. ControlTypeOK'
  BY <1>1, <1>2, <1>3, <1>6, <1>7, <1>8 DEF ControlTypeOK, RunsOK
<1> QED
  BY <1>2, <1>4, <1>8, <1>9 DEF Parts

LEMMA StutterKeeps == ASSUME Parts, UNCHANGED vars  PROVE Parts'
<1>1. UNCHANGED <<now, lease, worker, child, runs, charged, circuit, effects, latest, applied,
                  remote, deaths>>
  BY DEF vars, controlVars, processVars, worldVars
<1>2. ControlsInv
  BY PartsAre
<1>3. ControlTypeOK' /\ WorkersInv' /\ RunsInv'
  BY <1>1, <1>2 DEF ControlsInv, ControlTypeOK, WorkersInv, RunsInv
<1>4. \A c : ChildOK(c)' <=> ChildOK(c)
  BY <1>1 DEF ChildOK
<1>5. ChildrenInv' /\ EffectsInv' /\ CommentsInv'
  BY <1>1, <1>2, <1>4 DEF ControlsInv, ChildrenInv, EffectsInv, EffectTrue, CommentsInv
<1>6. RuntimeInv'
  BY <1>1, <1>2 DEF ControlsInv, RuntimeInv, RuntimeAccounted, RuntimeWithinDay, Seconds,
                    Booked
<1> QED
  BY <1>3, <1>5, <1>6 DEF Parts, RunsOK, EffectsOK, ControlTypeOK

-----------------------------------------------------------------------------
(* The invariant *)

LEMMA InitHolds == ASSUME ControlsConstants, Init  PROVE Parts
<1>1. 0 \in Days /\ 0 \in Times /\ 0 \in 0 .. MaxDeaths /\ 0 \in 0 .. MaxRun /\ now = 0
      /\ DayLength \in Nat \ {0}
  <2>1. MaxTime + MaxRun \in Nat /\ 0 \in Times
    BY Numbers DEF Times
  <2>2. Day(MaxTime + MaxRun) \in Nat
    BY <2>1, DayOrder
  <2> QED
    BY <2>1, <2>2, Numbers DEF Days, Init
<1>2. NoRun \in RunType /\ NoChild \in ChildType /\ NoEffect \in EffectType /\ Off \in WorkerType
      /\ [failures |-> 0, at |-> 0] \in CircuitType
  BY <1>1 DEF NoRun, RunType, NoChild, ChildType, NoEffect, EffectType, Off, WorkerType,
              CircuitType, None
<1>3. ControlTypeOK
  BY <1>1, <1>2 DEF Init, ControlTypeOK, None
<1>4. WorkersInv
  BY DEF Init, WorkersInv, Off
<1>5. RunsInv
  BY <1>1 DEF Init, RunsInv, NoRun
<1>6. RuntimeInv
  <2>1. \A S \in SUBSET Runs, d \in Days : Seconds(S, d) = {}
    <3> SUFFICES ASSUME NEW S \in SUBSET Runs, NEW d \in Days, NEW x \in S \X Clock,
                        runs[x[1]].started <= x[2],
                        x[2] < runs[x[1]].started + Booked(x[1])
                 PROVE  FALSE
      BY DEF Seconds
    <3>1. runs[x[1]] = NoRun
      BY DEF Init
    <3>2. runs[x[1]].started = 0 /\ Booked(x[1]) = 0
      BY <3>1 DEF NoRun, Booked
    <3>3. x[2] \in Int
      BY Numbers DEF Clock
    <3> QED
      BY <3>2, <3>3
  <2>2. \A d \in Days : charged[d] = 0
    BY DEF Init
  <2>3. Cardinality({}) = 0 /\ 0 <= RuntimeLimit
    BY FS_EmptySet, Numbers
  <2>4. RuntimeAccounted
    BY <2>1, <2>2, <2>3 DEF RuntimeAccounted
  <2>5. RuntimeWithinDay
    <3> SUFFICES ASSUME NEW d \in Days
                 PROVE  Cardinality(Seconds({r \in Runs : Day(runs[r].started) = d}, d))
                          <= RuntimeLimit
      BY DEF RuntimeWithinDay
    <3>1. PICK T \in SUBSET Runs : T = {r \in Runs : Day(runs[r].started) = d}
      OBVIOUS
    <3>2. Seconds(T, d) = {}
      BY <2>1
    <3> QED
      BY <2>3, <3>1, <3>2
  <2> QED
    BY <2>4, <2>5 DEF RuntimeInv
<1>7. ChildrenInv
  BY NoChildOK DEF Init, ChildrenInv
<1>8. EffectsInv /\ CommentsInv
  <2>1. Comments \subseteq Operations
    BY DEF Operations
  <2> QED
    BY <2>1 DEF Init, EffectsInv, EffectTrue, CommentsInv, NoEffect, NoChild, None
<1> QED
  BY <1>3, <1>4, <1>5, <1>6, <1>7, <1>8 DEF Parts, RunsOK, EffectsOK, ControlTypeOK

LEMMA NextKeeps == ASSUME ControlsConstants, Parts, Next  PROVE Parts'
<1>1. \/ \E l \in Lanes : WorkerStep(l)
      \/ \E r \in Runs : EffectStep(r)
      \/ \E r \in Runs : ChildDies(r) \/ \E o \in Operations : Check(r, o)
      \/ \E o \in Pushes : BranchMoves(o)
      \/ Tick
  BY DEF Next, WorkerStep, EffectStep
<1> QED
  BY <1>1, WorkerKeeps, EffectKeeps, OtherKeeps

THEOREM ControlsInvariant == ASSUME ControlsConstants  PROVE Spec => []ControlsInv
<1>1. Init => Parts
  BY InitHolds
<1>2. Parts /\ [Next]_vars => Parts'
  BY NextKeeps, StutterKeeps
<1>3. Parts => ControlsInv
  BY PartsAre
<1> QED
  BY <1>1, <1>2, <1>3, PTL DEF Spec

LEMMA ControlsFollows == ControlsInv => ControlsSafe
BY DEF ControlsInv, ControlsSafe, EffectsInv, CommentsInv, RunsInv, WriteAtMostOnce, OneSuccess

(* A comment, issue or pull request is written to GitHub at most once and a   *)
(* completed effect stands on a call that was carried out, whichever workers  *)
(* and children die where and whoever moves the branches; one trigger of a    *)
(* lane succeeds once; and the runtime kept by adding and taking away         *)
(* reservations (_adjust_daily_runtime) is that of the runs on every day, and *)
(* within the budget of the day for the runs it began.                        *)
THEOREM ControlsAreSafe == ASSUME ControlsConstants  PROVE Spec => []ControlsSafe
<1>1. Spec => []ControlsInv
  BY ControlsInvariant
<1> QED
  BY <1>1, ControlsFollows, PTL

=============================================================================

--------------------------- MODULE BrokerStoreProofs ---------------------------
(***************************************************************************)
(* Proofs about BrokerStore, for every set of packets, keys and clock      *)
(* readings and for all limits.                                            *)
(***************************************************************************)
EXTENDS BrokerStore, FiniteSetTheorems, FunctionTheorems, TLAPS

(* The effect key of a packet is an effect, its action is one of the two      *)
(* actions of _semantic_identity.                                             *)
LEMMA EffectKeyType ==
  /\ \A p \in Packets : EffectKey(p) \in Effects
  /\ \A p \in Packets : EffectKey(p).action \in Actions
  /\ \A e \in Effects : e.action \in Actions
<1>1. \A p \in Packets : EffectKey(p) \in Effects
  BY DEF Effects
<1>2. \A p \in Packets : EffectKey(p).action \in Actions
  BY PacketAssumption DEF EffectKey, RequestType
<1>3. \A e \in Effects : e.action \in Actions
  BY <1>2 DEF Effects
<1> QED BY <1>1, <1>2, <1>3

(* The row and circuit values that the transactions write have their types.   *)
LEMMA RowType ==
  /\ NoRow \in EffectRow /\ NewRow \in EffectRow
  /\ \A row \in EffectRow, s \in States, k \in Keys \cup {NoKey} :
       Cleared(row, s, k) \in EffectRow
BY DEF NoRow, NewRow, Cleared, EffectRow, States

LEMMA CircuitAfterType ==
  ASSUME StoreTypeOK, NEW a \in Actions, NEW s
  PROVE  CircuitAfter(a, s) \in [open : BOOLEAN, count : Nat]
<1>1. circuit[a].count \in Nat
  BY DEF StoreTypeOK
<1> QED BY <1>1, LimitAssumption DEF CircuitAfter

LEMMA TypeReserve ==
  ASSUME StoreTypeOK, NEW p \in Packets, NEW t \in Times, Reserve(p, t)
  PROVE  StoreTypeOK'
<1> DEFINE e == EffectKey(p)
<1>1. e \in Effects
  BY EffectKeyType
<1>2. accepted' \in [Packets -> Times \cup {Never}]
  BY DEF Reserve, StoreTypeOK
<1>3. effects' \in [Effects -> EffectRow]
  BY <1>1, RowType DEF Reserve, StoreTypeOK
<1> QED BY <1>2, <1>3 DEF Reserve, StoreTypeOK

LEMMA TypeBeginMutation ==
  ASSUME StoreTypeOK, NEW p \in Packets, NEW k \in Keys, NEW t \in Times,
         BeginMutation(p, k, t)
  PROVE  StoreTypeOK'
<1> DEFINE e == EffectKey(p)
<1>1. e \in Effects
  BY EffectKeyType
<1>2. charges' \in SUBSET Charge
  BY <1>1 DEF BeginMutation, StoreTypeOK, Charge
<1>3. effects' \in [Effects -> EffectRow]
  <2>1. effects[e] \in EffectRow /\ effects[e].attempts \in Nat
    BY <1>1 DEF StoreTypeOK, EffectRow
  <2> QED BY <1>1, <2>1 DEF BeginMutation, StoreTypeOK, EffectRow, States
<1> QED BY <1>2, <1>3 DEF BeginMutation, StoreTypeOK

LEMMA TypeReconcileAbsent ==
  ASSUME StoreTypeOK, NEW p \in Packets, NEW k \in Keys, ReconcileAbsent(p, k)
  PROVE  StoreTypeOK'
<1>1. EffectKey(p) \in Effects
  BY EffectKeyType
<1>2. effects' \in [Effects -> EffectRow]
  BY <1>1, RowType DEF ReconcileAbsent, StoreTypeOK, States
<1> QED BY <1>2 DEF ReconcileAbsent, StoreTypeOK

LEMMA TypeRecord ==
  ASSUME StoreTypeOK, NEW p \in Packets, NEW s \in PacketStatuses,
         NEW bound \in BOOLEAN, RecordPacketReceipt(p, s, bound)
  PROVE  StoreTypeOK'
<1> DEFINE e == EffectKey(p)
<1>1. e \in Effects /\ e.action \in Actions
  BY EffectKeyType
<1>2. receipts' \in [Packets -> Statuses \cup {"none"}]
  BY DEF RecordPacketReceipt, StoreTypeOK, Statuses
<1>3. effects' \in [Effects -> EffectRow]
  BY <1>1 DEF RecordPacketReceipt, StoreTypeOK, EffectRow, States
<1>4. circuit' \in [Actions -> [open : BOOLEAN, count : Nat]]
  BY <1>1, CircuitAfterType DEF RecordPacketReceipt, StoreTypeOK
<1> QED BY <1>2, <1>3, <1>4 DEF RecordPacketReceipt, StoreTypeOK

LEMMA TypeTerminalize ==
  ASSUME StoreTypeOK, NEW p \in Packets, NEW k \in Keys,
         NEW s \in AttemptStatuses, Terminalize(p, k, s)
  PROVE  StoreTypeOK'
<1> DEFINE e == EffectKey(p)
<1>1. e \in Effects /\ e.action \in Actions
  BY EffectKeyType
<1>2. receipts' \in [Packets -> Statuses \cup {"none"}]
  BY DEF Terminalize, StoreTypeOK, Statuses
<1>3. TerminalState(s) \in States
  BY DEF TerminalState, AttemptStatuses, States
<1>4. effects' \in [Effects -> EffectRow]
  <2>1. effects[e] \in EffectRow /\ effects[e].absent \in Keys \cup {NoKey}
    BY <1>1 DEF StoreTypeOK, EffectRow
  <2> QED BY <1>1, <1>3, <2>1, RowType DEF Terminalize, StoreTypeOK
<1>5. circuit' \in [Actions -> [open : BOOLEAN, count : Nat]]
  BY <1>1, CircuitAfterType DEF Terminalize, StoreTypeOK
<1> QED BY <1>2, <1>4, <1>5 DEF Terminalize, StoreTypeOK

LEMMA TypeCloseCircuit ==
  ASSUME StoreTypeOK, NEW a \in Actions, CloseCircuit(a)
  PROVE  StoreTypeOK'
BY DEF CloseCircuit, StoreTypeOK

(* Type correctness: whatever calls are made on the store, in any order,      *)
(* every table keeps the shape its schema declares.                           *)
THEOREM StoreTypeCorrect == StoreSpec => []StoreTypeOK
<1>1. StoreInit => StoreTypeOK
  BY RowType DEF StoreInit, StoreTypeOK
<1>2. StoreTypeOK /\ [StoreNext]_storeVars => StoreTypeOK'
  <2> SUFFICES ASSUME StoreTypeOK, StoreNext PROVE StoreTypeOK'
    BY DEF StoreTypeOK, storeVars
  <2> QED
    BY TypeReserve, TypeBeginMutation, TypeReconcileAbsent, TypeRecord,
       TypeTerminalize, TypeCloseCircuit
    DEF StoreNext, PacketStatuses
<1> QED BY <1>1, <1>2, PTL DEF StoreSpec

-----------------------------------------------------------------------------
(* The inductive invariant, one lemma per transaction. *)

(* What the type invariant says of one row.                                   *)
LEMMA RowFields ==
  ASSUME StoreTypeOK, NEW e \in Effects
  PROVE  /\ effects[e].state \in States
         /\ effects[e].key \in Keys \cup {NoKey}
         /\ effects[e].packet \in Packets \cup {NoPacket}
         /\ effects[e].attempts \in Nat
         /\ effects[e].absent \in Keys \cup {NoKey}
BY DEF StoreTypeOK, EffectRow

LEMMA KeyFacts == NoKey \notin Keys
BY KeyAssumption DEF NoKey

LEMMA InvReserve ==
  ASSUME StoreInv, NEW p \in Packets, NEW t \in Times, Reserve(p, t)
  PROVE  StoreInv'
<1> DEFINE e == EffectKey(p)
<1>0. StoreTypeOK /\ StoreTypeOK'
  BY TypeReserve DEF StoreInv
<1>1. e \in Effects
  BY EffectKeyType
<1>2. \A f \in Effects : effects'[f] = IF f = e /\ effects[f].state = "absent"
                                         THEN NewRow ELSE effects[f]
  BY <1>0, <1>1 DEF Reserve, StoreTypeOK
<1>3. charges' = charges /\ receipts' = receipts
  BY DEF Reserve
<1>4. \A f \in Effects : effects'[f] # effects[f] =>
        /\ effects[f].state = "absent" /\ effects[f].key = NoKey
        /\ effects[f].packet = NoPacket /\ effects[f].attempts = 0
        /\ effects[f].absent = NoKey /\ effects'[f] = NewRow
  BY <1>2 DEF StoreInv, AttemptInv, RowShape
<1>5. RowShape'
  BY <1>0, <1>4, RowFields DEF StoreInv, AttemptInv, RowShape, NewRow
<1>6. ChargeFate'
  <2> SUFFICES ASSUME NEW c \in charges
      PROVE /\ c.effect = EffectKey(c.packet)
            /\ \/ effects'[c.effect].key = c.key /\ effects'[c.effect].packet = c.packet
               \/ effects'[c.effect].absent = c.key
               \/ receipts[c.packet] \in AttemptStatuses
    BY <1>3 DEF ChargeFate
  <2>1. c.effect \in Effects /\ c.key \in Keys
    BY <1>0 DEF StoreTypeOK, Charge
  <2>2. c.key # NoKey
    BY <2>1, KeyFacts
  <2> QED BY <1>4, <2>1, <2>2 DEF StoreInv, AttemptInv, ChargeFate
<1>7. RetryEvidence'
  BY <1>0, <1>3, <1>4 DEF StoreInv, AttemptInv, RetryEvidence, NewRow, ChargesOf
<1>8. ActiveAttemptOwned'
  BY <1>3, <1>4 DEF StoreInv, ActiveAttemptOwned, NewRow, ChargesOf
<1>9. NoBlindRetry'
  BY <1>3, <1>4 DEF StoreInv, NoBlindRetry, NewRow, ChargesOf
<1>10. VerdictAgreement'
  <2>1. \A f \in Effects :
          \/ effects'[f].state = effects[f].state
          \/ effects[f].state = "absent" /\ effects'[f].state = "pending"
    BY <1>4 DEF NewRow
  <2>2. \A q \in Packets : EffectKey(q) \in Effects
    BY EffectKeyType
  <2>3. \A q \in Packets : receipts[q] \in AttemptStatuses =>
          TerminalState(receipts[q]) \in TerminalStates
    BY DEF AttemptStatuses, TerminalState, TerminalStates
  <2> QED BY <1>3, <2>1, <2>2, <2>3
        DEF StoreInv, VerdictAgreement, TerminalStates
<1> QED BY <1>0, <1>5, <1>6, <1>7, <1>8, <1>9, <1>10 DEF StoreInv, AttemptInv

LEMMA InvBeginMutation ==
  ASSUME StoreInv, NEW p \in Packets, NEW k \in Keys, NEW t \in Times,
         BeginMutation(p, k, t)
  PROVE  StoreInv'
<1> DEFINE e == EffectKey(p)
           d == [effect |-> e, key |-> k, packet |-> p, at |-> t]
           new == [state |-> "pending", key |-> k, packet |-> p,
                   attempts |-> effects[e].attempts + 1,
                   absent |-> effects[e].absent]
<1>0. StoreTypeOK /\ StoreTypeOK'
  BY TypeBeginMutation DEF StoreInv
<1>1. e \in Effects
  BY EffectKeyType
<1>2. /\ effects[e].state = "pending" /\ effects[e].key = NoKey
      /\ effects[e].attempts < 2 /\ receipts[p] = "none"
      /\ \A c \in ChargesOf(e) : c.key # k
  BY DEF BeginMutation, CanCharge, MayAttempt
<1>3. \A f \in Effects : effects'[f] = IF f = e THEN new ELSE effects[f]
  BY <1>0, <1>1 DEF BeginMutation, StoreTypeOK
<1>4. charges' = charges \cup {d} /\ receipts' = receipts
  BY DEF BeginMutation
<1>5. k # NoKey /\ p # NoPacket
  BY KeyFacts, PacketAssumption
<1>6. effects[e].attempts \in Nat /\ effects[e].attempts \in {0, 1}
  BY <1>0, <1>1, <1>2, RowFields
<1>7. RowShape'
  <2> SUFFICES ASSUME NEW f \in Effects PROVE RowShape!(f)'
    BY DEF RowShape
  <2>1. CASE f = e
    BY <1>1, <1>2, <1>3, <1>5, <1>6, <2>1 DEF StoreInv, AttemptInv, RowShape
  <2>2. CASE f # e
    BY <1>3, <2>2 DEF StoreInv, AttemptInv, RowShape
  <2> QED BY <2>1, <2>2
<1>8. ChargeFate'
  <2> SUFFICES ASSUME NEW c \in charges'
      PROVE /\ c.effect = EffectKey(c.packet)
            /\ \/ effects'[c.effect].key = c.key /\ effects'[c.effect].packet = c.packet
               \/ effects'[c.effect].absent = c.key
               \/ receipts'[c.packet] \in AttemptStatuses
    BY DEF ChargeFate
  <2>1. CASE c = d
    BY <1>1, <1>3, <2>1
  <2>2. CASE c \in charges
    <3>1. c.effect \in Effects /\ c.key \in Keys
      BY <1>0, <2>2 DEF StoreTypeOK, Charge
    <3>2. c.key # NoKey
      BY <3>1, KeyFacts
    <3> QED BY <1>2, <1>3, <1>4, <2>2, <3>1, <3>2
          DEF StoreInv, AttemptInv, ChargeFate
  <2> QED BY <1>4, <2>1, <2>2
<1>9. RetryEvidence'
  BY <1>3, <1>4, <1>5 DEF StoreInv, AttemptInv, RetryEvidence, ChargesOf
<1>10. ActiveAttemptOwned'
  <2> SUFFICES ASSUME NEW f \in Effects, effects'[f].key # NoKey
      PROVE /\ effects'[f].state = "pending"
            /\ effects'[f].packet \in Packets
            /\ EffectKey(effects'[f].packet) = f
            /\ receipts'[effects'[f].packet] = "none"
            /\ \E c \in charges' : /\ c.effect = f
                                   /\ c.key = effects'[f].key
                                   /\ c.packet = effects'[f].packet
    BY DEF ActiveAttemptOwned, ChargesOf
  <2>1. CASE f = e
    <3>1. effects'[f] = new
      BY <1>3, <2>1
    <3>2. d \in charges' /\ d.effect = f /\ d.key = k /\ d.packet = p
      BY <1>4, <2>1
    <3> HIDE DEF d
    <3> QED BY <1>2, <1>4, <2>1, <3>1, <3>2
  <2>2. CASE f # e
    BY <1>3, <1>4, <2>2 DEF StoreInv, ActiveAttemptOwned, ChargesOf
  <2> QED BY <2>1, <2>2
<1>11. NoBlindRetry'
  <2> SUFFICES ASSUME NEW f \in Effects, effects'[f].attempts = 2
      PROVE /\ \E c \in charges' : c.effect = f /\ c.key = effects'[f].absent
            /\ effects'[f].absent # effects'[f].key
    BY DEF NoBlindRetry, ChargesOf
  <2>1. CASE f = e
    <3>1. effects[e].attempts = 1
      BY <1>1, <1>3, <1>6, <2>1
    <3>2. \E c \in ChargesOf(e) : c.key = effects[e].absent
      BY <1>1, <1>2, <3>1 DEF StoreInv, AttemptInv, RetryEvidence
    <3> QED BY <1>1, <1>2, <1>3, <1>4, <2>1, <3>2 DEF ChargesOf
  <2>2. CASE f # e
    BY <1>3, <1>4, <2>2 DEF StoreInv, NoBlindRetry, ChargesOf
  <2> QED BY <2>1, <2>2
<1>12. VerdictAgreement'
  <2>1. \A f \in Effects : effects'[f].state = effects[f].state
    BY <1>2, <1>3
  <2>2. \A q \in Packets : EffectKey(q) \in Effects
    BY EffectKeyType
  <2> QED BY <1>4, <2>1, <2>2 DEF StoreInv, VerdictAgreement
<1> QED BY <1>0, <1>7, <1>8, <1>9, <1>10, <1>11, <1>12 DEF StoreInv, AttemptInv

LEMMA InvReconcileAbsent ==
  ASSUME StoreInv, NEW p \in Packets, NEW k \in Keys, ReconcileAbsent(p, k)
  PROVE  StoreInv'
<1> DEFINE e == EffectKey(p)
           new == Cleared(effects[e], "pending", k)
<1>0. StoreTypeOK /\ StoreTypeOK'
  BY TypeReconcileAbsent DEF StoreInv
<1>1. e \in Effects
  BY EffectKeyType
<1>2. /\ effects[e].state = "pending" /\ effects[e].key = k
      /\ effects[e].packet = p /\ effects[e].attempts < 2
  BY DEF ReconcileAbsent, ActiveAttempt
<1>3. \A f \in Effects : effects'[f] = IF f = e THEN new ELSE effects[f]
  BY <1>0, <1>1 DEF ReconcileAbsent, StoreTypeOK
<1>4. charges' = charges /\ receipts' = receipts
  BY DEF ReconcileAbsent
<1>5. k # NoKey /\ p # NoPacket
  BY KeyFacts, PacketAssumption
<1>6. effects[e].attempts = 1 /\ effects[e].absent = NoKey
  <2>1. effects[e].attempts \in Nat /\ effects[e].attempts >= 1
    BY <1>0, <1>1, <1>2, <1>5, RowFields DEF StoreInv, AttemptInv, RowShape
  <2>2. effects[e].attempts = 1
    BY <1>2, <2>1
  <2> QED BY <1>1, <1>2, <1>5, <2>2 DEF StoreInv, AttemptInv, RowShape
<1>7. RowShape'
  <2> SUFFICES ASSUME NEW f \in Effects PROVE RowShape!(f)'
    BY DEF RowShape
  <2>1. CASE f = e
    BY <1>1, <1>3, <1>6, <2>1 DEF Cleared
  <2>2. CASE f # e
    BY <1>3, <2>2 DEF StoreInv, AttemptInv, RowShape
  <2> QED BY <2>1, <2>2
<1>8. ChargeFate'
  <2> SUFFICES ASSUME NEW c \in charges
      PROVE /\ c.effect = EffectKey(c.packet)
            /\ \/ effects'[c.effect].key = c.key /\ effects'[c.effect].packet = c.packet
               \/ effects'[c.effect].absent = c.key
               \/ receipts[c.packet] \in AttemptStatuses
    BY <1>4 DEF ChargeFate
  <2>1. c.effect \in Effects /\ c.key \in Keys /\ c.key # NoKey
    BY <1>0, KeyFacts DEF StoreTypeOK, Charge
  <2>2. CASE c.effect = e
    <3>1. c.key = k \/ receipts[c.packet] \in AttemptStatuses
      BY <1>2, <1>6, <2>1, <2>2 DEF StoreInv, AttemptInv, ChargeFate
    <3> QED BY <1>1, <1>3, <2>2, <3>1
          DEF StoreInv, AttemptInv, ChargeFate, Cleared
  <2>3. CASE c.effect # e
    BY <1>3, <2>1, <2>3 DEF StoreInv, AttemptInv, ChargeFate
  <2> QED BY <2>2, <2>3
<1>9. RetryEvidence'
  <2>1. \E c \in ChargesOf(e) : c.key = k
    BY <1>1, <1>2, <1>5 DEF StoreInv, ActiveAttemptOwned
  <2> QED BY <1>3, <1>4, <2>1
        DEF StoreInv, AttemptInv, RetryEvidence, ChargesOf, Cleared
<1>10. ActiveAttemptOwned'
  BY <1>3, <1>4 DEF StoreInv, ActiveAttemptOwned, ChargesOf, Cleared
<1>11. NoBlindRetry'
  BY <1>1, <1>3, <1>4, <1>6 DEF StoreInv, NoBlindRetry, ChargesOf, Cleared
<1>12. VerdictAgreement'
  <2>1. \A f \in Effects : effects'[f].state = effects[f].state
    BY <1>2, <1>3 DEF Cleared
  <2>2. \A q \in Packets : EffectKey(q) \in Effects
    BY EffectKeyType
  <2> QED BY <1>4, <2>1, <2>2 DEF StoreInv, VerdictAgreement
<1> QED BY <1>0, <1>7, <1>8, <1>9, <1>10, <1>11, <1>12 DEF StoreInv, AttemptInv

(* The caller's rule MayRecordUnbound is what an unbound receipt needs.       *)
LEMMA InvRecord ==
  ASSUME StoreInv, NEW p \in Packets, NEW s \in PacketStatuses,
         NEW bound \in BOOLEAN, bound \/ MayRecordUnbound(p),
         RecordPacketReceipt(p, s, bound)
  PROVE  StoreInv'
<1> DEFINE e == EffectKey(p)
           settles == s = "already_satisfied" /\ effects[e].state = "pending"
<1>0. StoreTypeOK /\ StoreTypeOK'
  BY TypeRecord DEF StoreInv
<1>1. e \in Effects
  BY EffectKeyType
<1>2. /\ receipts[p] = "none"
      /\ s = "already_satisfied" =>
           effects[e].key = NoKey /\ effects[e].state # "indeterminate"
                                  /\ effects[e].state # "absent"
      /\ bound => effects[e].key = NoKey
  BY DEF RecordPacketReceipt, CanRecord
<1>3. \A f \in Effects :
        /\ effects'[f].key = effects[f].key
        /\ effects'[f].packet = effects[f].packet
        /\ effects'[f].attempts = effects[f].attempts
        /\ effects'[f].absent = effects[f].absent
        /\ effects'[f].state = IF f = e /\ settles THEN "reconciled"
                               ELSE effects[f].state
  BY <1>0, <1>1 DEF RecordPacketReceipt, StoreTypeOK, EffectRow
<1>4. /\ charges' = charges
      /\ \A q \in Packets : receipts'[q] = IF q = p THEN s ELSE receipts[q]
  BY <1>0 DEF RecordPacketReceipt, StoreTypeOK
<1>5. \A f \in Effects : effects[f].packet # p
  <2> SUFFICES ASSUME NEW f \in Effects, effects[f].packet = p PROVE FALSE
    OBVIOUS
  <2>1. effects[f].key # NoKey
    BY PacketAssumption DEF StoreInv, AttemptInv, RowShape
  <2>2. f = e
    BY <2>1 DEF StoreInv, ActiveAttemptOwned
  <2> QED BY <1>2, <2>1, <2>2 DEF MayRecordUnbound
<1>6. s \notin AttemptStatuses
  BY DEF PacketStatuses, AttemptStatuses
<1>7. RowShape'
  <2> SUFFICES ASSUME NEW f \in Effects PROVE RowShape!(f)'
    BY DEF RowShape
  <2>1. CASE f = e /\ settles
    BY <1>2, <1>3, <2>1 DEF StoreInv, AttemptInv, RowShape
  <2>2. CASE ~ (f = e /\ settles)
    BY <1>3, <2>2 DEF StoreInv, AttemptInv, RowShape
  <2> QED BY <2>1, <2>2
<1>8. ChargeFate'
  <2> SUFFICES ASSUME NEW c \in charges
      PROVE /\ c.effect = EffectKey(c.packet)
            /\ \/ effects'[c.effect].key = c.key /\ effects'[c.effect].packet = c.packet
               \/ effects'[c.effect].absent = c.key
               \/ receipts'[c.packet] \in AttemptStatuses
    BY <1>4 DEF ChargeFate
  <2>1. c.effect \in Effects /\ c.packet \in Packets
    BY <1>0 DEF StoreTypeOK, Charge
  <2>2. receipts[c.packet] \in AttemptStatuses => c.packet # p
    BY <1>2 DEF AttemptStatuses
  <2> QED BY <1>3, <1>4, <2>1, <2>2 DEF StoreInv, AttemptInv, ChargeFate
<1>9. RetryEvidence'
  BY <1>3, <1>4 DEF StoreInv, AttemptInv, RetryEvidence, ChargesOf
<1>10. ActiveAttemptOwned'
  BY <1>2, <1>3, <1>4, <1>5 DEF StoreInv, ActiveAttemptOwned, ChargesOf
<1>11. NoBlindRetry'
  BY <1>3, <1>4 DEF StoreInv, NoBlindRetry, ChargesOf
<1>12. VerdictAgreement'
  <2>0. \A q \in Packets : EffectKey(q) \in Effects
    BY EffectKeyType
  <2>1. \A q \in Packets : receipts[q] \in AttemptStatuses =>
          TerminalState(receipts[q]) \in TerminalStates
    BY DEF AttemptStatuses, TerminalState, TerminalStates
  <2>2. ASSUME NEW q \in Packets
        PROVE  /\ receipts'[q] \in AttemptStatuses =>
                    effects'[EffectKey(q)].state = TerminalState(receipts'[q])
               /\ receipts'[q] \in SuccessStatuses =>
                    effects'[EffectKey(q)].state \in {"completed", "reconciled"}
    <3>1. CASE q = p
      <4>1. s \in SuccessStatuses => s = "already_satisfied"
        BY DEF PacketStatuses, SuccessStatuses
      <4>2. s = "already_satisfied" =>
              effects'[e].state \in {"completed", "reconciled"}
        BY <1>0, <1>1, <1>2, <1>3, RowFields DEF States
      <4> QED BY <1>4, <1>6, <3>1, <4>1, <4>2
    <3>2. CASE q # p
      BY <1>3, <1>4, <2>0, <2>1, <3>2
      DEF StoreInv, VerdictAgreement, TerminalStates
    <3> QED BY <3>1, <3>2
  <2>3. ASSUME NEW q \in Packets, NEW r \in Packets,
               receipts'[q] \in AttemptStatuses, receipts'[r] \in AttemptStatuses,
               EffectKey(q) = EffectKey(r)
        PROVE  q = r
    BY <1>4, <1>6, <2>3 DEF StoreInv, VerdictAgreement
  <2>4. ASSUME NEW f \in Effects, effects'[f].state \in TerminalStates
        PROVE  \E q \in Packets : /\ EffectKey(q) = f
                                  /\ receipts'[q] \in Statuses \ {"not_attempted"}
                                  /\ TerminalState(receipts'[q]) = effects'[f].state
    <3>1. CASE f = e /\ settles
      BY <1>3, <1>4, <3>1 DEF Statuses, PacketStatuses, TerminalState
    <3>2. CASE ~ (f = e /\ settles)
      <4>1. effects'[f].state = effects[f].state
        BY <1>3, <3>2
      <4>2. PICK q \in Packets : /\ EffectKey(q) = f
                                 /\ receipts[q] \in Statuses \ {"not_attempted"}
                                 /\ TerminalState(receipts[q]) = effects[f].state
        BY <2>4, <4>1 DEF StoreInv, VerdictAgreement
      <4>3. q # p
        BY <1>2, <4>2 DEF Statuses, PacketStatuses, AttemptStatuses
      <4> QED BY <1>4, <4>1, <4>2, <4>3
    <3> QED BY <3>1, <3>2
  <2> QED BY <2>2, <2>3, <2>4 DEF VerdictAgreement
<1> QED BY <1>0, <1>7, <1>8, <1>9, <1>10, <1>11, <1>12 DEF StoreInv, AttemptInv

LEMMA InvTerminalize ==
  ASSUME StoreInv, NEW p \in Packets, NEW k \in Keys,
         NEW s \in AttemptStatuses, Terminalize(p, k, s)
  PROVE  StoreInv'
<1> DEFINE e == EffectKey(p)
           state == TerminalState(s)
           new == Cleared(effects[e], state, effects[e].absent)
<1>0. StoreTypeOK /\ StoreTypeOK'
  BY TypeTerminalize DEF StoreInv
<1>1. e \in Effects
  BY EffectKeyType
<1>2. /\ effects[e].state = "pending" /\ effects[e].key = k
      /\ effects[e].packet = p /\ receipts[p] = "none"
  BY DEF Terminalize, ActiveAttempt
<1>3. \A f \in Effects : effects'[f] = IF f = e THEN new ELSE effects[f]
  BY <1>0, <1>1 DEF Terminalize, StoreTypeOK
<1>4. /\ charges' = charges
      /\ \A q \in Packets : receipts'[q] = IF q = p THEN s ELSE receipts[q]
  BY <1>0 DEF Terminalize, StoreTypeOK
<1>5. k # NoKey /\ p # NoPacket
  BY KeyFacts, PacketAssumption
<1>6. /\ state \in TerminalStates
      /\ s \in SuccessStatuses => state \in {"completed", "reconciled"}
  BY DEF TerminalState, AttemptStatuses, TerminalStates, SuccessStatuses
<1>7. /\ new.state = state /\ new.key = NoKey /\ new.packet = NoPacket
      /\ new.attempts = effects[e].attempts /\ new.absent = effects[e].absent
  BY DEF Cleared
<1> HIDE DEF new, state
<1>8. RowShape'
  <2> SUFFICES ASSUME NEW f \in Effects PROVE RowShape!(f)'
    BY DEF RowShape
  <2>1. CASE f = e
    BY <1>1, <1>2, <1>3, <1>5, <1>6, <1>7, <2>1
    DEF StoreInv, AttemptInv, RowShape, TerminalStates
  <2>2. CASE f # e
    BY <1>3, <2>2 DEF StoreInv, AttemptInv, RowShape
  <2> QED BY <2>1, <2>2
<1>9. ChargeFate'
  <2> SUFFICES ASSUME NEW c \in charges
      PROVE /\ c.effect = EffectKey(c.packet)
            /\ \/ effects'[c.effect].key = c.key /\ effects'[c.effect].packet = c.packet
               \/ effects'[c.effect].absent = c.key
               \/ receipts'[c.packet] \in AttemptStatuses
    BY <1>4 DEF ChargeFate
  <2>1. c.effect \in Effects /\ c.packet \in Packets
    BY <1>0 DEF StoreTypeOK, Charge
  <2>2. CASE c.packet = p
    BY <1>4, <2>1, <2>2 DEF StoreInv, AttemptInv, ChargeFate
  <2>3. CASE c.packet # p
    BY <1>2, <1>3, <1>4, <1>7, <2>1, <2>3 DEF StoreInv, AttemptInv, ChargeFate
  <2> QED BY <2>2, <2>3
<1>10. RetryEvidence'
  BY <1>3, <1>4, <1>6, <1>7
  DEF StoreInv, AttemptInv, RetryEvidence, ChargesOf, TerminalStates
<1>11. ActiveAttemptOwned'
  <2> SUFFICES ASSUME NEW f \in Effects, effects'[f].key # NoKey
      PROVE /\ effects'[f].state = "pending"
            /\ effects'[f].packet \in Packets
            /\ EffectKey(effects'[f].packet) = f
            /\ receipts'[effects'[f].packet] = "none"
            /\ \E c \in ChargesOf(f)' : /\ c.key = effects'[f].key
                                        /\ c.packet = effects'[f].packet
    BY DEF ActiveAttemptOwned
  <2>1. f # e /\ effects'[f] = effects[f]
    BY <1>3, <1>7
  <2>2. effects[f].packet # p
    BY <2>1 DEF StoreInv, ActiveAttemptOwned
  <2> QED BY <1>4, <2>1, <2>2 DEF StoreInv, ActiveAttemptOwned, ChargesOf
<1>12. NoBlindRetry'
  <2> SUFFICES ASSUME NEW f \in Effects, effects'[f].attempts = 2
      PROVE /\ \E c \in ChargesOf(f)' : c.key = effects'[f].absent
            /\ effects'[f].absent # effects'[f].key
    BY DEF NoBlindRetry
  <2>1. PICK c \in ChargesOf(f) : c.key = effects[f].absent
    BY <1>3, <1>7 DEF StoreInv, NoBlindRetry
  <2>2. c.key # NoKey
    BY <1>0, <2>1, KeyFacts DEF StoreTypeOK, Charge, ChargesOf
  <2> QED BY <1>3, <1>4, <1>7, <2>1, <2>2
        DEF StoreInv, NoBlindRetry, ChargesOf
<1>13. VerdictAgreement'
  <2>0. \A q \in Packets : EffectKey(q) \in Effects
    BY EffectKeyType
  <2>1. \A q \in Packets : q # p /\ EffectKey(q) = e =>
          receipts[q] \notin AttemptStatuses /\ receipts[q] \notin SuccessStatuses
    <3>1. \A q \in Packets : receipts[q] \in AttemptStatuses =>
            TerminalState(receipts[q]) \in TerminalStates
      BY DEF AttemptStatuses, TerminalState, TerminalStates
    <3> QED BY <1>2, <3>1 DEF StoreInv, VerdictAgreement, TerminalStates
  <2>2. ASSUME NEW q \in Packets
        PROVE  /\ receipts'[q] \in AttemptStatuses =>
                    effects'[EffectKey(q)].state = TerminalState(receipts'[q])
               /\ receipts'[q] \in SuccessStatuses =>
                    effects'[EffectKey(q)].state \in {"completed", "reconciled"}
    <3>1. CASE q = p
      BY <1>1, <1>3, <1>4, <1>6, <1>7, <3>1 DEF state
    <3>2. CASE q # p
      BY <1>3, <1>4, <2>0, <2>1, <3>2 DEF StoreInv, VerdictAgreement
    <3> QED BY <3>1, <3>2
  <2>3. ASSUME NEW q \in Packets, NEW r \in Packets,
               receipts'[q] \in AttemptStatuses, receipts'[r] \in AttemptStatuses,
               EffectKey(q) = EffectKey(r)
        PROVE  q = r
    BY <1>4, <2>1, <2>3 DEF StoreInv, VerdictAgreement
  <2>4. ASSUME NEW f \in Effects, effects'[f].state \in TerminalStates
        PROVE  \E q \in Packets : /\ EffectKey(q) = f
                                  /\ receipts'[q] \in Statuses \ {"not_attempted"}
                                  /\ TerminalState(receipts'[q]) = effects'[f].state
    <3>1. CASE f = e
      <4>1. s \in Statuses \ {"not_attempted"}
        BY DEF Statuses, AttemptStatuses
      <4> QED BY <1>1, <1>3, <1>4, <1>7, <3>1, <4>1 DEF state
    <3>2. CASE f # e
      <4>1. PICK q \in Packets : /\ EffectKey(q) = f
                                 /\ receipts[q] \in Statuses \ {"not_attempted"}
                                 /\ TerminalState(receipts[q]) = effects[f].state
        BY <1>3, <2>4, <3>2 DEF StoreInv, VerdictAgreement
      <4>2. q # p
        BY <3>2, <4>1
      <4> QED BY <1>3, <1>4, <3>2, <4>1, <4>2
    <3> QED BY <3>1, <3>2
  <2> QED BY <2>2, <2>3, <2>4 DEF VerdictAgreement
<1> QED BY <1>0, <1>8, <1>9, <1>10, <1>11, <1>12, <1>13 DEF StoreInv, AttemptInv

LEMMA InvCloseCircuit ==
  ASSUME StoreInv, NEW a \in Actions, CloseCircuit(a)
  PROVE  StoreInv'
<1>1. StoreTypeOK'
  BY TypeCloseCircuit DEF StoreInv
<1>2. UNCHANGED <<accepted, effects, charges, receipts>>
  BY DEF CloseCircuit
<1> QED BY <1>1, <1>2
    DEF StoreInv, AttemptInv, RowShape, ChargeFate, RetryEvidence, ChargesOf,
        ActiveAttemptOwned, NoBlindRetry, VerdictAgreement

LEMMA InvNext ==
  ASSUME StoreInv, [StoreNext]_storeVars
  PROVE  StoreInv'
<1>1. CASE StoreNext
  <2>1. CASE \E p \in Packets, t \in Times : Reserve(p, t)
    BY <2>1, InvReserve
  <2>2. CASE \E p \in Packets, k \in Keys, t \in Times : BeginMutation(p, k, t)
    BY <2>2, InvBeginMutation
  <2>3. CASE \E p \in Packets, k \in Keys : ReconcileAbsent(p, k)
    BY <2>3, InvReconcileAbsent
  <2>4. CASE \E p \in Packets, s \in PacketStatuses :
               RecordPacketReceipt(p, s, TRUE)
    BY <2>4, InvRecord
  <2>5. CASE \E p \in Packets :
               MayRecordUnbound(p) /\ RecordPacketReceipt(p, "not_attempted", FALSE)
    BY <2>5, InvRecord DEF PacketStatuses
  <2>6. CASE \E p \in Packets, k \in Keys, s \in AttemptStatuses :
               Terminalize(p, k, s)
    BY <2>6, InvTerminalize
  <2>7. CASE \E a \in Actions : CloseCircuit(a)
    BY <2>7, InvCloseCircuit
  <2> QED BY <1>1, <2>1, <2>2, <2>3, <2>4, <2>5, <2>6, <2>7 DEF StoreNext
<1>2. CASE UNCHANGED storeVars
  BY <1>2 DEF storeVars, StoreInv, StoreTypeOK, AttemptInv, RowShape, ChargeFate,
     RetryEvidence, ChargesOf, ActiveAttemptOwned, NoBlindRetry, VerdictAgreement
<1> QED BY <1>1, <1>2

(* The store's inductive invariant holds in every reachable state: charged    *)
(* attempts always have an owner that can still be answered, a second attempt *)
(* always has the first one's absence on record, and all receipts about an    *)
(* effect agree with its row.                                                 *)
THEOREM StoreInvariant == StoreSpec => []StoreInv
<1>1. StoreInit => StoreInv
  <2> SUFFICES ASSUME StoreInit PROVE StoreInv
    OBVIOUS
  <2>1. StoreTypeOK
    BY RowType DEF StoreInit, StoreTypeOK
  <2>2. \A e \in Effects : effects[e] = NoRow
    BY DEF StoreInit
  <2>3. charges = {} /\ \A p \in Packets : receipts[p] = "none"
    BY DEF StoreInit
  <2>4. AttemptInv /\ ActiveAttemptOwned /\ NoBlindRetry
    BY <2>2, <2>3
    DEF AttemptInv, RowShape, ChargeFate, RetryEvidence, ActiveAttemptOwned,
        NoBlindRetry, NoRow
  <2>5. VerdictAgreement
    BY <2>2, <2>3 DEF VerdictAgreement, NoRow, AttemptStatuses,
       SuccessStatuses, TerminalStates
  <2> QED BY <2>1, <2>4, <2>5 DEF StoreInv
<1> QED BY <1>1, InvNext, PTL DEF StoreSpec

(* ActiveAttemptOwned for every instance: an open attempt can always be       *)
(* settled by recovery.                                                       *)
THEOREM AttemptOwnership == StoreSpec => []ActiveAttemptOwned
<1>1. StoreInv => ActiveAttemptOwned
  BY DEF StoreInv
<1> QED BY <1>1, StoreInvariant, PTL

(* NoBlindRetry for every instance: no second mutation without the recorded   *)
(* absence of the first.                                                      *)
THEOREM RetryNeedsAbsence == StoreSpec => []NoBlindRetry
<1>1. StoreInv => NoBlindRetry
  BY DEF StoreInv
<1> QED BY <1>1, StoreInvariant, PTL

(* VerdictAgreement for every instance: receipts of different packets never   *)
(* contradict each other about one effect.                                    *)
THEOREM VerdictsAgree == StoreSpec => []VerdictAgreement
<1>1. StoreInv => VerdictAgreement
  BY DEF StoreInv
<1> QED BY <1>1, StoreInvariant, PTL

(* NoHiddenAttempt for every instance: a receipt without a terminalized       *)
(* attempt never covers a charge whose fate is open.                          *)
THEOREM NothingHidden == StoreSpec => []NoHiddenAttempt
<1>1. StoreInv => NoHiddenAttempt
  <2> SUFFICES ASSUME StoreInv, NEW c \in charges,
                      receipts[c.packet] \in PacketStatuses
      PROVE c.key = effects[c.effect].absent
    BY DEF NoHiddenAttempt
  <2>1. c.effect \in Effects /\ c.key \in Keys /\ c.key # NoKey
    BY KeyFacts DEF StoreInv, StoreTypeOK, Charge
  <2>2. receipts[c.packet] \notin AttemptStatuses \cup {"none"}
    BY DEF PacketStatuses, AttemptStatuses
  <2>3. effects[c.effect].key = c.key => effects[c.effect].packet # c.packet
    BY <2>1, <2>2 DEF StoreInv, ActiveAttemptOwned
  <2> QED BY <2>2, <2>3 DEF StoreInv, AttemptInv, ChargeFate
<1> QED BY <1>1, StoreInvariant, PTL

-----------------------------------------------------------------------------
(* What no transaction undoes; the store implements ProtectedEffect *)

(* The step formula of DurableOutcome.                                        *)
Durable ==
  /\ \A p \in Packets :
       /\ receipts[p] # "none" => receipts'[p] = receipts[p]
       /\ accepted[p] # Never => accepted'[p] = accepted[p]
  /\ \A e \in Effects :
       effects[e].state \in TerminalStates =>
         effects'[e].state = effects[e].state
  /\ charges \subseteq charges'

LEMMA DurableStep ==
  ASSUME StoreTypeOK, StoreNext
  PROVE  Durable
<1>0. \A q \in Packets : EffectKey(q) \in Effects
  BY EffectKeyType
<1>1. ASSUME NEW p \in Packets, NEW t \in Times, Reserve(p, t) PROVE Durable
  BY <1>0, <1>1 DEF Reserve, StoreTypeOK, TerminalStates, Durable
<1>2. ASSUME NEW p \in Packets, NEW k \in Keys, NEW t \in Times,
             BeginMutation(p, k, t)
      PROVE  Durable
  <2>1. effects[EffectKey(p)].state = "pending"
    BY <1>2 DEF BeginMutation, CanCharge, MayAttempt
  <2> QED BY <1>0, <1>2, <2>1
        DEF BeginMutation, StoreTypeOK, TerminalStates, Durable
<1>3. ASSUME NEW p \in Packets, NEW k \in Keys, ReconcileAbsent(p, k)
      PROVE  Durable
  <2>1. effects[EffectKey(p)].state = "pending"
    BY <1>3 DEF ReconcileAbsent, ActiveAttempt
  <2> QED BY <1>0, <1>3, <2>1
        DEF ReconcileAbsent, StoreTypeOK, TerminalStates, Durable
<1>4. ASSUME NEW p \in Packets, NEW s \in PacketStatuses, NEW b \in BOOLEAN,
             RecordPacketReceipt(p, s, b)
      PROVE  Durable
  <2>1. receipts[p] = "none"
    BY <1>4 DEF RecordPacketReceipt, CanRecord
  <2>2. \A e \in Effects : effects[e].state \in TerminalStates =>
          effects'[e].state = effects[e].state
    BY <1>0, <1>4 DEF RecordPacketReceipt, StoreTypeOK, TerminalStates
  <2> QED BY <1>4, <2>1, <2>2 DEF RecordPacketReceipt, StoreTypeOK, Durable
<1>5. ASSUME NEW p \in Packets, NEW k \in Keys, NEW s \in AttemptStatuses,
             Terminalize(p, k, s)
      PROVE  Durable
  <2>1. effects[EffectKey(p)].state = "pending" /\ receipts[p] = "none"
    BY <1>5 DEF Terminalize, ActiveAttempt
  <2> QED BY <1>0, <1>5, <2>1
        DEF Terminalize, StoreTypeOK, TerminalStates, Durable
<1>6. ASSUME NEW a \in Actions, CloseCircuit(a) PROVE Durable
  BY <1>6 DEF CloseCircuit, Durable
<1> QED BY <1>1, <1>2, <1>3, <1>4, <1>5, <1>6 DEF StoreNext, PacketStatuses

(* DurableOutcome for every instance: no call, by any caller, rewrites a      *)
(* receipt, a terminal verdict, an acceptance or a charge.                    *)
THEOREM OutcomesAreDurable == StoreSpec => DurableOutcome
<1>1. StoreTypeOK /\ [StoreNext]_storeVars => [Durable]_storeVars
  BY DurableStep
<1> QED BY <1>1, StoreTypeCorrect, PTL DEF StoreSpec, DurableOutcome, Durable

-----------------------------------------------------------------------------
(* Refinement *)

(* The mapped variables, as the transactions see them.                        *)
LEMMA MappedAnswer ==
  /\ AnswerOf("none") = "none"
  /\ AnswerOf("not_attempted") = "refused"
  /\ AnswerOf("already_satisfied") = "done"
  /\ \A s \in AttemptStatuses : /\ AnswerOf(s) = VerdictOf(TerminalState(s))
                                /\ AnswerOf(s) \in {"done", "unknown"}
BY DEF AnswerOf, VerdictOf, TerminalState, AttemptStatuses

(* Every transaction is a step of the promise or changes nothing it speaks of.*)
LEMMA PromiseStep ==
  ASSUME StoreInv, StoreNext
  PROVE  Promise!PromiseNext \/ UNCHANGED Promise!promiseVars
<1> DEFINE Tries == [e \in Effects |-> effects[e].attempts]
           Owner == [e \in Effects |-> effects[e].packet]
           Verdict == [e \in Effects |-> VerdictOf(effects[e].state)]
           Told == [p \in Packets |-> AnswerOf(receipts[p])]
<1>0. StoreTypeOK /\ \A q \in Packets : EffectKey(q) \in Effects
  BY EffectKeyType DEF StoreInv
<1>1. ASSUME NEW p \in Packets, NEW t \in Times, Reserve(p, t)
      PROVE  UNCHANGED Promise!promiseVars
  <2>1. \A f \in Effects :
          \/ effects'[f] = effects[f]
          \/ effects[f].state = "absent" /\ effects'[f] = NewRow
    BY <1>0, <1>1 DEF Reserve, StoreTypeOK
  <2>2. \A f \in Effects : effects[f].state = "absent" =>
          effects[f].attempts = 0 /\ effects[f].packet = NoPacket
    BY DEF StoreInv, AttemptInv, RowShape
  <2>3. Tries' = Tries /\ Owner' = Owner /\ Verdict' = Verdict
    BY <2>1, <2>2 DEF NewRow, VerdictOf
  <2>4. Told' = Told
    BY <1>1 DEF Reserve
  <2> QED BY <2>3, <2>4 DEF Promise!promiseVars
<1>2. ASSUME NEW p \in Packets, NEW k \in Keys, NEW t \in Times,
             BeginMutation(p, k, t)
      PROVE  Promise!Attempt(p)
  <2> DEFINE e == EffectKey(p)
  <2>1. /\ effects[e].state = "pending" /\ effects[e].key = NoKey
        /\ effects[e].attempts < 2 /\ receipts[p] = "none"
    BY <1>2 DEF BeginMutation, CanCharge, MayAttempt
  <2>2. effects[e].packet = NoPacket
    BY <1>0, <2>1 DEF StoreInv, AttemptInv, RowShape
  <2>3. /\ Tries' = [Tries EXCEPT ![e] = Tries[e] + 1]
        /\ Owner' = [Owner EXCEPT ![e] = p]
    BY <1>0, <1>2 DEF BeginMutation, StoreTypeOK
  <2>4. Verdict' = Verdict /\ Told' = Told
    BY <1>0, <1>2, <2>1 DEF BeginMutation, StoreTypeOK
  <2>5. /\ Told[p] = "none" /\ Verdict[e] = "open"
        /\ Owner[e] = NoPacket /\ Tries[e] < 2
    BY <1>0, <2>1, <2>2, MappedAnswer DEF VerdictOf
  <2> QED BY <1>0, <2>3, <2>4, <2>5 DEF Promise!Attempt
<1>3. ASSUME NEW p \in Packets, NEW k \in Keys, ReconcileAbsent(p, k)
      PROVE  Promise!FoundAbsent(EffectKey(p))
  <2> DEFINE e == EffectKey(p)
  <2>1. /\ effects[e].state = "pending" /\ effects[e].key = k
        /\ effects[e].attempts < 2 /\ effects[e].packet = p
    BY <1>3 DEF ReconcileAbsent, ActiveAttempt
  <2>2. effects[e].attempts = 1
    <3>1. effects[e].attempts \in Nat /\ effects[e].attempts >= 1
      BY <1>0, <2>1, KeyFacts, RowFields DEF StoreInv, AttemptInv, RowShape
    <3> QED BY <2>1, <3>1
  <2>3. Owner' = [Owner EXCEPT ![e] = NoPacket]
    BY <1>0, <1>3 DEF ReconcileAbsent, StoreTypeOK, Cleared
  <2>4. Tries' = Tries /\ Verdict' = Verdict /\ Told' = Told
    BY <1>0, <1>3, <2>1 DEF ReconcileAbsent, StoreTypeOK, Cleared
  <2>5. Owner[e] # NoPacket /\ Tries[e] = 1
    BY <1>0, <2>1, <2>2, PacketAssumption
  <2> QED BY <2>3, <2>4, <2>5 DEF Promise!FoundAbsent
<1>4. ASSUME NEW p \in Packets, NEW b \in BOOLEAN, b \/ MayRecordUnbound(p),
             RecordPacketReceipt(p, "not_attempted", b)
      PROVE  Promise!Refuse(p)
  <2>1. receipts[p] = "none" /\ (b => effects[EffectKey(p)].key = NoKey)
    BY <1>4 DEF RecordPacketReceipt, CanRecord
  <2>2. effects[EffectKey(p)].packet # p
    BY <1>0, <1>4, <2>1, PacketAssumption
    DEF StoreInv, AttemptInv, RowShape, MayRecordUnbound
  <2>3. effects' = effects
    BY <1>4 DEF RecordPacketReceipt
  <2>4. Told' = [Told EXCEPT ![p] = "refused"]
    BY <1>0, <1>4, MappedAnswer DEF RecordPacketReceipt, StoreTypeOK
  <2>5. Told[p] = "none" /\ Owner[EffectKey(p)] # p
    BY <1>0, <2>1, <2>2, MappedAnswer
  <2> QED BY <1>0, <2>3, <2>4, <2>5 DEF Promise!Refuse
<1>5. ASSUME NEW p \in Packets, RecordPacketReceipt(p, "already_satisfied", TRUE)
      PROVE  Promise!Confirm(p)
  <2> DEFINE e == EffectKey(p)
  <2>1. /\ receipts[p] = "none" /\ effects[e].key = NoKey
        /\ effects[e].state \notin {"indeterminate", "absent"}
    BY <1>5 DEF RecordPacketReceipt, CanRecord
  <2>2. effects[e].packet = NoPacket
    BY <1>0, <2>1 DEF StoreInv, AttemptInv, RowShape
  <2>3. effects[e].state \in {"pending", "completed", "reconciled"}
    BY <1>0, <2>1, RowFields DEF States
  <2>4. \A f \in Effects :
          /\ effects'[f].packet = effects[f].packet
          /\ effects'[f].attempts = effects[f].attempts
          /\ effects'[f].state = IF f = e /\ effects[f].state = "pending"
                                   THEN "reconciled" ELSE effects[f].state
    BY <1>0, <1>5 DEF RecordPacketReceipt, StoreTypeOK, EffectRow
  <2>5. Verdict' = [Verdict EXCEPT ![e] = "done"]
    BY <1>0, <2>3, <2>4 DEF VerdictOf
  <2>6. Tries' = Tries /\ Owner' = Owner
    BY <2>4
  <2>7. Told' = [Told EXCEPT ![p] = "done"]
    BY <1>0, <1>5, MappedAnswer DEF RecordPacketReceipt, StoreTypeOK
  <2>8. Told[p] = "none" /\ Owner[e] = NoPacket /\ Verdict[e] # "unknown"
    BY <1>0, <2>1, <2>2, <2>3, MappedAnswer DEF VerdictOf
  <2> QED BY <1>0, <2>5, <2>6, <2>7, <2>8 DEF Promise!Confirm
<1>6. ASSUME NEW p \in Packets, NEW k \in Keys, NEW s \in AttemptStatuses,
             Terminalize(p, k, s)
      PROVE  Promise!Conclude(p, AnswerOf(s))
  <2> DEFINE e == EffectKey(p)
  <2>1. /\ effects[e].state = "pending" /\ effects[e].key = k
        /\ effects[e].packet = p /\ receipts[p] = "none"
    BY <1>6 DEF Terminalize, ActiveAttempt
  <2>2. \A f \in Effects :
          /\ effects'[f].packet = IF f = e THEN NoPacket ELSE effects[f].packet
          /\ effects'[f].attempts = effects[f].attempts
          /\ effects'[f].state = IF f = e THEN TerminalState(s)
                                 ELSE effects[f].state
    BY <1>0, <1>6 DEF Terminalize, StoreTypeOK, Cleared
  <2>3. Owner' = [Owner EXCEPT ![e] = NoPacket] /\ Tries' = Tries
    BY <1>0, <2>2
  <2>4. Verdict' = [Verdict EXCEPT ![e] = AnswerOf(s)]
    BY <1>0, <2>2, MappedAnswer
  <2>5. Told' = [Told EXCEPT ![p] = AnswerOf(s)]
    BY <1>0, <1>6 DEF Terminalize, StoreTypeOK
  <2>6. Owner[e] = p /\ Verdict[e] = "open" /\ Told[p] = "none"
    BY <1>0, <2>1, MappedAnswer DEF VerdictOf
  <2> QED BY <1>0, <2>3, <2>4, <2>5, <2>6 DEF Promise!Conclude
<1>7. ASSUME NEW a \in Actions, CloseCircuit(a)
      PROVE  UNCHANGED Promise!promiseVars
  BY <1>7 DEF CloseCircuit, Promise!promiseVars
<1>8. \A s \in AttemptStatuses : AnswerOf(s) \in {"done", "unknown"}
  BY MappedAnswer
<1> HIDE DEF Tries, Owner, Verdict, Told
<1>9. CASE \E p \in Packets, t \in Times : Reserve(p, t)
  BY <1>1, <1>9
<1>10. CASE \E p \in Packets, k \in Keys, t \in Times : BeginMutation(p, k, t)
  BY <1>2, <1>10 DEF Promise!PromiseNext
<1>11. CASE \E p \in Packets, k \in Keys : ReconcileAbsent(p, k)
  BY <1>0, <1>3, <1>11 DEF Promise!PromiseNext
<1>12. CASE \E p \in Packets, s \in PacketStatuses :
              RecordPacketReceipt(p, s, TRUE)
  BY <1>4, <1>5, <1>12 DEF Promise!PromiseNext, PacketStatuses
<1>13. CASE \E p \in Packets :
              MayRecordUnbound(p) /\ RecordPacketReceipt(p, "not_attempted", FALSE)
  BY <1>4, <1>13 DEF Promise!PromiseNext
<1>14. CASE \E p \in Packets, k \in Keys, s \in AttemptStatuses :
              Terminalize(p, k, s)
  BY <1>6, <1>8, <1>14 DEF Promise!PromiseNext
<1>15. CASE \E a \in Actions : CloseCircuit(a)
  BY <1>7, <1>15
<1> QED BY <1>9, <1>10, <1>11, <1>12, <1>13, <1>14, <1>15 DEF StoreNext

(* KeepsPromise for every instance: the store, under any caller that obeys    *)
(* MayRecordUnbound, implements the promise of ProtectedEffect.               *)
THEOREM StoreKeepsPromise == StoreSpec => KeepsPromise
<1>1. StoreInit => Promise!PromiseInit
  <2> SUFFICES ASSUME StoreInit PROVE Promise!PromiseInit
    OBVIOUS
  <2>1. \A e \in Effects : effects[e] = NoRow
    BY DEF StoreInit
  <2>2. \A p \in Packets : receipts[p] = "none"
    BY DEF StoreInit
  <2>3. [e \in Effects |-> VerdictOf(effects[e].state)] = [e \in Effects |-> "open"]
    BY <2>1 DEF NoRow, VerdictOf
  <2>4. [p \in Packets |-> AnswerOf(receipts[p])] = [p \in Packets |-> "none"]
    BY <2>2, MappedAnswer
  <2> QED BY <2>1, <2>3, <2>4 DEF Promise!PromiseInit, NoRow
<1>2. StoreInv /\ [StoreNext]_storeVars =>
        [Promise!PromiseNext]_(Promise!promiseVars)
  <2>1. CASE UNCHANGED storeVars
    BY <2>1 DEF storeVars, Promise!promiseVars
  <2> QED BY <2>1, PromiseStep
<1> QED BY <1>1, <1>2, StoreInvariant, PTL
    DEF StoreSpec, KeepsPromise, Promise!PromiseSpec

-----------------------------------------------------------------------------
(* The counting invariants: budgets, attempt counters and circuits            *)

(* Counting over finitely many charges: one charge more adds at most one to   *)
(* any count, and exactly one to the count of its effect.                     *)
LEMMA CountCharges ==
  ASSUME NEW S, IsFiniteSet(S), NEW d, NEW T, T \subseteq S
  PROVE  /\ IsFiniteSet(T) /\ Cardinality(T) \in Nat
         /\ IsFiniteSet(T \cup {d})
         /\ Cardinality(T \cup {d}) \in Nat
         /\ Cardinality(T \cup {d}) <= Cardinality(T) + 1
         /\ d \notin T => Cardinality(T \cup {d}) = Cardinality(T) + 1
<1>1. IsFiniteSet(T)
  BY FS_Subset
<1>2. Cardinality(T) \in Nat
  BY <1>1, FS_CardinalityType
<1>3. IsFiniteSet(T \cup {d}) /\ Cardinality(T \cup {d}) \in Nat
  BY <1>1, FS_AddElement, FS_CardinalityType
<1>4. Cardinality(T \cup {d}) = IF d \in T THEN Cardinality(T)
                                ELSE Cardinality(T) + 1
  BY <1>1, FS_AddElement
<1> QED BY <1>1, <1>2, <1>3, <1>4

(* Only begin_mutation writes a charge.                                       *)
LEMMA ChargeStep ==
  ASSUME StoreTypeOK, StoreNext
  PROVE  \/ charges' = charges
         \/ \E p \in Packets, k \in Keys, t \in Times : BeginMutation(p, k, t)
BY DEF StoreNext, Reserve, ReconcileAbsent, RecordPacketReceipt, Terminalize,
       CloseCircuit

BudgetInv == IsFiniteSet(charges) /\ MutationBudgetRespected

(* MutationBudgetRespected for all limits: whatever the order of calls,       *)
(* crashes and retries, no UTC day is charged beyond its limits.              *)
THEOREM BudgetsHold == StoreSpec => []MutationBudgetRespected
<1>1. StoreInit => BudgetInv
  <2> SUFFICES ASSUME StoreInit PROVE BudgetInv
    OBVIOUS
  <2>1. charges = {}
    BY DEF StoreInit
  <2>2. \A d : ChargesOn(d) = {} /\ \A a \in Actions : ActionChargesOn(a, d) = {}
    BY <2>1 DEF ChargesOn, ActionChargesOn
  <2> QED BY <2>1, <2>2, FS_EmptySet, LimitAssumption
        DEF BudgetInv, MutationBudgetRespected
<1>2. BudgetInv /\ StoreTypeOK /\ [StoreNext]_storeVars => BudgetInv'
  <2> SUFFICES ASSUME BudgetInv, StoreTypeOK, [StoreNext]_storeVars
      PROVE BudgetInv'
    OBVIOUS
  <2>1. CASE charges' = charges
    BY <2>1 DEF BudgetInv, MutationBudgetRespected, ChargesOn, ActionChargesOn
  <2>2. ASSUME NEW p \in Packets, NEW k \in Keys, NEW t \in Times,
               BeginMutation(p, k, t)
        PROVE  BudgetInv'
    <3> DEFINE e == EffectKey(p)
               d == [effect |-> e, key |-> k, packet |-> p, at |-> t]
    <3>0. e.action \in Actions
      BY EffectKeyType
    <3>1. charges' = charges \cup {d}
      BY <2>2 DEF BeginMutation
    <3>2. /\ Cardinality(ChargesOn(Day(t))) < DailyMutations
          /\ Cardinality(ActionChargesOn(e.action, Day(t)))
               < ActionDailyLimit[e.action]
      BY <2>2 DEF BeginMutation, CanCharge, MutationBudgetLeft
    <3>3. IsFiniteSet(charges')
      BY <3>1, FS_AddElement DEF BudgetInv
    <3>4. ASSUME NEW u \in Times
          PROVE  Cardinality(ChargesOn(Day(u))') <= DailyMutations
      <4>1. CASE Day(u) = Day(t)
        <5>1. ChargesOn(Day(u))' = ChargesOn(Day(t)) \cup {d}
          BY <3>1, <4>1 DEF ChargesOn, Day
        <5>2. ChargesOn(Day(t)) \subseteq charges
          BY DEF ChargesOn
        <5>3. /\ Cardinality(ChargesOn(Day(t))) \in Nat
              /\ Cardinality(ChargesOn(Day(t)) \cup {d}) \in Nat
              /\ Cardinality(ChargesOn(Day(t)) \cup {d})
                   <= Cardinality(ChargesOn(Day(t))) + 1
          BY <5>2, CountCharges DEF BudgetInv
        <5> QED BY <3>2, <5>1, <5>3, LimitAssumption
      <4>2. CASE Day(u) # Day(t)
        <5>1. ChargesOn(Day(u))' = ChargesOn(Day(u))
          BY <3>1, <4>2 DEF ChargesOn, Day
        <5> QED BY <5>1 DEF BudgetInv, MutationBudgetRespected
      <4> QED BY <4>1, <4>2
    <3>5. ASSUME NEW u \in Times, NEW a \in Actions
          PROVE  Cardinality(ActionChargesOn(a, Day(u))') <= ActionDailyLimit[a]
      <4>1. CASE Day(u) = Day(t) /\ a = e.action
        <5>1. ActionChargesOn(a, Day(u))' = ActionChargesOn(a, Day(t)) \cup {d}
          BY <3>1, <4>1 DEF ActionChargesOn, Day
        <5>2. ActionChargesOn(a, Day(t)) \subseteq charges
          BY DEF ActionChargesOn
        <5>3. /\ Cardinality(ActionChargesOn(a, Day(t))) \in Nat
              /\ Cardinality(ActionChargesOn(a, Day(t)) \cup {d}) \in Nat
              /\ Cardinality(ActionChargesOn(a, Day(t)) \cup {d})
                   <= Cardinality(ActionChargesOn(a, Day(t))) + 1
          BY <5>2, CountCharges DEF BudgetInv
        <5>4. ActionDailyLimit[a] \in Nat
          BY LimitAssumption
        <5> QED BY <3>2, <4>1, <5>1, <5>3, <5>4
      <4>2. CASE ~ (Day(u) = Day(t) /\ a = e.action)
        <5>1. ActionChargesOn(a, Day(u))' = ActionChargesOn(a, Day(u))
          BY <3>1, <4>2 DEF ActionChargesOn, Day
        <5> QED BY <5>1 DEF BudgetInv, MutationBudgetRespected
      <4> QED BY <4>1, <4>2
    <3> QED BY <3>3, <3>4, <3>5 DEF BudgetInv, MutationBudgetRespected, Day
  <2> QED BY <2>1, <2>2, ChargeStep DEF storeVars
<1>3. BudgetInv => MutationBudgetRespected
  BY DEF BudgetInv
<1> QED BY <1>1, <1>2, <1>3, StoreTypeCorrect, PTL DEF StoreSpec

-----------------------------------------------------------------------------
(* Attempt counters *)

AttemptCount == \A e \in Effects : effects[e].attempts = Cardinality(ChargesOf(e))

CountInv == IsFiniteSet(charges) /\ AttemptCount

(* ChargesAccounted for every instance: the attempt counter of an effect is   *)
(* the number of its charges, and it never passes two.                        *)
THEOREM ChargesCounted == StoreSpec => []ChargesAccounted
<1>1. StoreInit => CountInv
  <2> SUFFICES ASSUME StoreInit PROVE CountInv
    OBVIOUS
  <2>1. charges = {} /\ \A e \in Effects : effects[e].attempts = 0
    BY DEF StoreInit, NoRow
  <2>2. \A e \in Effects : ChargesOf(e) = {}
    BY <2>1 DEF ChargesOf
  <2> QED BY <2>1, <2>2, FS_EmptySet DEF CountInv, AttemptCount
<1>2. CountInv /\ StoreInv /\ [StoreNext]_storeVars => CountInv'
  <2> SUFFICES ASSUME CountInv, StoreInv, [StoreNext]_storeVars PROVE CountInv'
    OBVIOUS
  <2>0. StoreTypeOK /\ \A q \in Packets : EffectKey(q) \in Effects
    BY EffectKeyType DEF StoreInv
  <2>1. CASE charges' = charges /\ \A f \in Effects :
               effects'[f].attempts = effects[f].attempts
    BY <2>1 DEF CountInv, AttemptCount, ChargesOf
  <2>2. ASSUME NEW p \in Packets, NEW k \in Keys, NEW t \in Times,
               BeginMutation(p, k, t)
        PROVE  CountInv'
    <3> DEFINE e == EffectKey(p)
               d == [effect |-> e, key |-> k, packet |-> p, at |-> t]
    <3>1. charges' = charges \cup {d}
      BY <2>2 DEF BeginMutation
    <3>2. \A c \in ChargesOf(e) : c.key # k
      BY <2>2 DEF BeginMutation, CanCharge, MayAttempt
    <3>3. IsFiniteSet(charges')
      BY <3>1, FS_AddElement DEF CountInv
    <3>4. /\ effects'[e].attempts = effects[e].attempts + 1
          /\ \A f \in Effects : f # e => effects'[f] = effects[f]
      BY <2>0, <2>2 DEF BeginMutation, StoreTypeOK
    <3>5. Cardinality(ChargesOf(e)') = Cardinality(ChargesOf(e)) + 1
      <4>1. ChargesOf(e)' = ChargesOf(e) \cup {d}
        BY <3>1 DEF ChargesOf
      <4>2. ChargesOf(e) \subseteq charges
        BY DEF ChargesOf
      <4>3. d \notin ChargesOf(e)
        BY <3>2
      <4>4. IsFiniteSet(charges)
        BY DEF CountInv
      <4> HIDE DEF d
      <4>5. Cardinality(ChargesOf(e) \cup {d}) = Cardinality(ChargesOf(e)) + 1
        <5> DEFINE T == ChargesOf(e)
        <5> HIDE DEF T, e
        <5>1. T \subseteq charges /\ d \notin T
          BY <4>2, <4>3 DEF T
        <5>2. Cardinality(T \cup {d}) = Cardinality(T) + 1
          <6>1. IsFiniteSet(T)
            BY <4>4, <5>1, FS_Subset
          <6>2. Cardinality(T \cup {d}) = IF d \in T THEN Cardinality(T)
                                          ELSE Cardinality(T) + 1
            BY <6>1, FS_AddElement
          <6> QED BY <5>1, <6>2
        <5> QED BY <5>2 DEF T
      <4> QED BY <4>1, <4>5
    <3>6. \A f \in Effects : f # e => ChargesOf(f)' = ChargesOf(f)
      BY <3>1 DEF ChargesOf
    <3>7. AttemptCount'
      <4> SUFFICES ASSUME NEW f \in Effects
          PROVE effects'[f].attempts = Cardinality(ChargesOf(f)')
        BY DEF AttemptCount, ChargesOf
      <4>1. CASE f = e
        BY <3>4, <3>5, <4>1 DEF CountInv, AttemptCount
      <4>2. CASE f # e
        BY <3>4, <3>6, <4>2 DEF CountInv, AttemptCount
      <4> QED BY <4>1, <4>2
    <3> QED BY <3>3, <3>7 DEF CountInv
  <2>3. ASSUME NEW p \in Packets, NEW t \in Times, Reserve(p, t)
        PROVE  CountInv'
    <3>1. \A f \in Effects :
            \/ effects'[f] = effects[f]
            \/ effects[f].state = "absent" /\ effects'[f] = NewRow
      BY <2>0, <2>3 DEF Reserve, StoreTypeOK
    <3> QED BY <2>1, <2>3, <3>1
          DEF Reserve, NewRow, StoreInv, AttemptInv, RowShape
  <2>4. ASSUME NEW p \in Packets, NEW k \in Keys, ReconcileAbsent(p, k)
        PROVE  CountInv'
    BY <2>0, <2>1, <2>4 DEF ReconcileAbsent, StoreTypeOK, Cleared
  <2>5. ASSUME NEW p \in Packets, NEW s \in PacketStatuses, NEW b \in BOOLEAN,
               RecordPacketReceipt(p, s, b)
        PROVE  CountInv'
    BY <2>0, <2>1, <2>5 DEF RecordPacketReceipt, StoreTypeOK, EffectRow
  <2>6. ASSUME NEW p \in Packets, NEW k \in Keys, NEW s \in AttemptStatuses,
               Terminalize(p, k, s)
        PROVE  CountInv'
    BY <2>0, <2>1, <2>6 DEF Terminalize, StoreTypeOK, Cleared
  <2>7. ASSUME NEW a \in Actions, CloseCircuit(a) PROVE CountInv'
    BY <2>1, <2>7 DEF CloseCircuit
  <2>8. CASE UNCHANGED storeVars
    BY <2>1, <2>8 DEF storeVars
  <2> QED BY <2>2, <2>3, <2>4, <2>5, <2>6, <2>7, <2>8
        DEF StoreNext, PacketStatuses
<1>3. CountInv /\ StoreInv => ChargesAccounted
  BY DEF CountInv, AttemptCount, ChargesAccounted, StoreInv, AttemptInv, RowShape
<1> QED BY <1>1, <1>2, <1>3, StoreInvariant, PTL DEF StoreSpec

-----------------------------------------------------------------------------
(* Circuits *)

Unknown(a) == {e \in Effects : e.action = a /\ effects[e].state = "indeterminate"}

LEMMA EffectsFinite == IsFiniteSet(Effects)
<1> DEFINE f == [p \in Packets |-> EffectKey(p)]
<1>1. f \in Surjection(Packets, Effects)
  BY DEF Surjection, Effects
<1> QED BY <1>1, FS_Surjection, PacketAssumption

(* Only terminalize makes an effect indeterminate.                            *)
LEMMA UnknownStep ==
  ASSUME StoreTypeOK, StoreNext
  PROVE  \/ /\ \A a \in Actions : Unknown(a) \subseteq Unknown(a)'
            /\ \A a \in Actions : circuit'[a] = circuit[a]
                                  \/ circuit'[a] = [open |-> FALSE, count |-> 0]
         \/ \E p \in Packets, k \in Keys : Terminalize(p, k, "indeterminate")
<1>0. /\ \A q \in Packets : EffectKey(q) \in Effects
      /\ \A q \in Packets : EffectKey(q).action \in Actions
  BY EffectKeyType
<1> DEFINE Kept == /\ \A a \in Actions : Unknown(a) \subseteq Unknown(a)'
                   /\ \A a \in Actions : circuit'[a] = circuit[a]
                        \/ circuit'[a] = [open |-> FALSE, count |-> 0]
<1>1. ASSUME NEW p \in Packets, NEW t \in Times, Reserve(p, t) PROVE Kept
  BY <1>0, <1>1 DEF Reserve, StoreTypeOK, Unknown
<1>2. ASSUME NEW p \in Packets, NEW k \in Keys, NEW t \in Times,
             BeginMutation(p, k, t)
      PROVE  Kept
  BY <1>0, <1>2 DEF BeginMutation, CanCharge, MayAttempt, StoreTypeOK, Unknown
<1>3. ASSUME NEW p \in Packets, NEW k \in Keys, ReconcileAbsent(p, k) PROVE Kept
  BY <1>0, <1>3 DEF ReconcileAbsent, ActiveAttempt, StoreTypeOK, Unknown
<1>4. ASSUME NEW p \in Packets, NEW s \in PacketStatuses, NEW b \in BOOLEAN,
             RecordPacketReceipt(p, s, b)
      PROVE  Kept
  <2>1. \A a \in Actions : Unknown(a) \subseteq Unknown(a)'
    BY <1>0, <1>4 DEF RecordPacketReceipt, StoreTypeOK, Unknown
  <2>2. \A a \in Actions : circuit'[a] = circuit[a]
          \/ circuit'[a] = [open |-> FALSE, count |-> 0]
    BY <1>0, <1>4 DEF RecordPacketReceipt, StoreTypeOK, CircuitAfter
  <2> QED BY <2>1, <2>2
<1>5. ASSUME NEW p \in Packets, NEW k \in Keys, NEW s \in {"applied", "reconciled"},
             Terminalize(p, k, s)
      PROVE  Kept
  <2>1. TerminalState(s) # "indeterminate"
    BY DEF TerminalState
  <2>2. \A a \in Actions : Unknown(a) \subseteq Unknown(a)'
    BY <1>0, <1>5 DEF Terminalize, ActiveAttempt, StoreTypeOK, Unknown
  <2>3. \A a \in Actions : circuit'[a] = circuit[a]
          \/ circuit'[a] = [open |-> FALSE, count |-> 0]
    BY <1>0, <1>5, <2>1 DEF Terminalize, StoreTypeOK, CircuitAfter
  <2> QED BY <2>2, <2>3
<1>6. ASSUME NEW a \in Actions, CloseCircuit(a) PROVE Kept
  BY <1>6 DEF CloseCircuit, StoreTypeOK, Unknown
<1> HIDE DEF Kept
<1>7. CASE \E p \in Packets, k \in Keys, s \in AttemptStatuses :
             Terminalize(p, k, s)
  BY <1>5, <1>7 DEF AttemptStatuses, Kept
<1> QED BY <1>1, <1>2, <1>3, <1>4, <1>6, <1>7
    DEF StoreNext, PacketStatuses, Kept

(* CircuitBacked for every limit: an open circuit stands on that many         *)
(* distinct indeterminate effects of its action, and replays or recoveries    *)
(* never count one of them twice.                                             *)
THEOREM CircuitCounts == StoreSpec => []CircuitBacked
<1> DEFINE Backed == \A a \in Actions :
             /\ circuit[a].count <= Cardinality(Unknown(a))
             /\ circuit[a].open <=> circuit[a].count >= IndeterminateLimit
<1>0. CircuitBacked <=> Backed
  BY DEF CircuitBacked, Unknown
<1>1. StoreInit => Backed
  <2> SUFFICES ASSUME StoreInit PROVE Backed
    OBVIOUS
  <2>1. \A a \in Actions : IsFiniteSet(Unknown(a))
    BY EffectsFinite, FS_Subset DEF Unknown
  <2>2. \A a \in Actions : Cardinality(Unknown(a)) \in Nat
    BY <2>1, FS_CardinalityType
  <2> QED BY <2>2, LimitAssumption DEF StoreInit
<1>2. Backed /\ StoreTypeOK /\ StoreTypeOK' /\ [StoreNext]_storeVars => Backed'
  <2> SUFFICES ASSUME Backed, StoreTypeOK, StoreTypeOK', [StoreNext]_storeVars
      PROVE Backed'
    OBVIOUS
  <2>0. \A a \in Actions : /\ circuit[a].count \in Nat
                           /\ circuit[a].open \in BOOLEAN
    BY DEF StoreTypeOK
  <2>1. ASSUME NEW a \in Actions
        PROVE  /\ IsFiniteSet(Unknown(a)) /\ Cardinality(Unknown(a)) \in Nat
               /\ IsFiniteSet(Unknown(a)') /\ Cardinality(Unknown(a)') \in Nat
    <3>1. Unknown(a) \subseteq Effects /\ Unknown(a)' \subseteq Effects
      BY DEF Unknown
    <3> QED BY <3>1, EffectsFinite, FS_Subset, FS_CardinalityType
  <2>2. CASE UNCHANGED storeVars
    BY <2>2 DEF storeVars, Unknown
  <2>3. CASE /\ \A a \in Actions : Unknown(a) \subseteq Unknown(a)'
             /\ \A a \in Actions : circuit'[a] = circuit[a]
                                   \/ circuit'[a] = [open |-> FALSE, count |-> 0]
    <3> SUFFICES ASSUME NEW a \in Actions
        PROVE /\ circuit'[a].count <= Cardinality(Unknown(a)')
              /\ circuit'[a].open <=> circuit'[a].count >= IndeterminateLimit
      OBVIOUS
    <3>1. Cardinality(Unknown(a)) <= Cardinality(Unknown(a)')
      BY <2>1, <2>3, FS_Subset
    <3> QED BY <2>0, <2>1, <2>3, <3>1, LimitAssumption
  <2>4. ASSUME NEW p \in Packets, NEW k \in Keys,
               Terminalize(p, k, "indeterminate")
        PROVE  Backed'
    <3> DEFINE e == EffectKey(p)
    <3>0. e \in Effects /\ e.action \in Actions
      BY EffectKeyType
    <3>1. effects[e].state = "pending"
      BY <2>4 DEF Terminalize, ActiveAttempt
    <3>2. \A f \in Effects : effects'[f].state =
            IF f = e THEN "indeterminate" ELSE effects[f].state
      BY <2>4, <3>0 DEF Terminalize, StoreTypeOK, Cleared, TerminalState
    <3> DEFINE next == CircuitAfter(e.action, "indeterminate")
    <3>3. \A a \in Actions : circuit'[a] = IF a = e.action THEN next ELSE circuit[a]
      BY <2>4, <3>0 DEF Terminalize, StoreTypeOK, TerminalState
    <3>6. next = [open |-> circuit[e.action].count + 1 >= IndeterminateLimit,
                  count |-> circuit[e.action].count + 1]
      BY DEF CircuitAfter
    <3>7. next.count = circuit[e.action].count + 1
      BY <3>6
    <3>8. next.open = (circuit[e.action].count + 1 >= IndeterminateLimit)
      BY <3>6
    <3> HIDE DEF next
    <3> SUFFICES ASSUME NEW a \in Actions
        PROVE /\ circuit'[a].count <= Cardinality(Unknown(a)')
              /\ circuit'[a].open <=> circuit'[a].count >= IndeterminateLimit
      OBVIOUS
    <3>4. CASE a = e.action
      <4>1. Unknown(a)' = Unknown(a) \cup {e} /\ e \notin Unknown(a)
        BY <3>0, <3>1, <3>2, <3>4 DEF Unknown
      <4>2. Cardinality(Unknown(a)') = Cardinality(Unknown(a)) + 1
        BY <2>1, <4>1, FS_AddElement
      <4>3. circuit'[a].count = circuit[a].count + 1
        BY <3>3, <3>4, <3>7, <3>8
      <4>4. circuit'[a].open <=> circuit[a].count + 1 >= IndeterminateLimit
        BY <3>3, <3>4, <3>7, <3>8
      <4>5. circuit[a].count <= Cardinality(Unknown(a))
        OBVIOUS
      <4>6. circuit'[a].count <= Cardinality(Unknown(a)')
        BY <2>0, <2>1, <4>2, <4>3, <4>5
      <4> QED BY <4>3, <4>4, <4>6
    <3>5. CASE a # e.action
      <4>1. Unknown(a)' = Unknown(a)
        BY <3>2, <3>5 DEF Unknown
      <4> QED BY <3>3, <3>5, <4>1
    <3> QED BY <3>4, <3>5
  <2> QED BY <2>2, <2>3, <2>4, UnknownStep
<1> HIDE DEF Backed
<1> QED BY <1>0, <1>1, <1>2, StoreTypeCorrect, PTL DEF StoreSpec

=============================================================================

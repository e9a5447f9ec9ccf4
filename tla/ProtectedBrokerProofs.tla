------------------------- MODULE ProtectedBrokerProofs -------------------------
(***************************************************************************)
(* Proofs about ProtectedBroker: the service uses the store only as        *)
(* BrokerStore allows, so that every theorem about the store holds of the  *)
(* broker, and what the service adds to it is safe, for any number of      *)
(* packets, effects, crashes and changes on GitHub.                        *)
(***************************************************************************)
EXTENDS ProtectedBroker, BrokerStoreProofs

-----------------------------------------------------------------------------
(* Types *)

LEMMA RequestFields ==
  ASSUME NEW p \in Packets
  PROVE  /\ Request[p].pr \in PRs /\ Request[p].head \in Heads
         /\ Request[p].thread \in Threads /\ Request[p].action \in Actions
         /\ EffectKey(p) \in Effects
BY PacketAssumption, EffectKeyType DEF RequestType

(* The fields of the handler.                                                 *)
LEMMA HandlerFields ==
  ASSUME TypeOK
  PROVE  /\ svc.pc \in Phases /\ svc.packet \in Packets \cup {NoPacket}
         /\ svc.started \in Times /\ svc.queue \subseteq Effects
         /\ svc.target \subseteq Effects /\ svc.key \in Keys \cup {NoKey}
         /\ svc.use \in Uses /\ svc.identity \subseteq Identity
         /\ svc.view \in View
BY DEF TypeOK, Handler

LEMMA IdleType == Idle \in Handler /\ NoView \in View
BY BoundAssumption DEF Idle, Handler, Phases, Uses, NoView, View, NoKey

(* The pull request of a packet.                                              *)
LEMMA PullRequestFields ==
  ASSUME TypeOK, NEW p \in Packets
  PROVE  LET g == gh[Request[p].pr] IN
         /\ g \in PullRequest /\ g.head \in Heads /\ g.open \in BOOLEAN
         /\ g.ready \in BOOLEAN /\ g.resolved \subseteq Threads
         /\ Exact(p, g) \in BOOLEAN /\ Satisfied(p, g) \in BOOLEAN
         /\ IdentityOf(p) \in Identity
<1> DEFINE g == gh[Request[p].pr]
<1>1. g \in PullRequest
  BY RequestFields DEF TypeOK
<1>2. /\ g.head \in Heads /\ g.open \in BOOLEAN /\ g.ready \in BOOLEAN
      /\ g.resolved \subseteq Threads
  BY <1>1 DEF PullRequest
<1>3. IdentityOf(p) \in Identity
  BY <1>2 DEF IdentityOf, Identity
<1>4. Exact(p, g) \in BOOLEAN /\ Satisfied(p, g) \in BOOLEAN
  <2>1. Exact(p, g) \in BOOLEAN
    BY DEF Exact
  <2>2. CASE Request[p].action = "mark_pr_ready"
    BY <1>2, <2>1, <2>2 DEF Satisfied
  <2>3. CASE Request[p].action # "mark_pr_ready"
    BY <2>1, <2>3 DEF Satisfied
  <2> QED BY <2>2, <2>3
<1> QED BY <1>1, <1>2, <1>3, <1>4

(* The packet an observation is about.                                        *)
LEMMA ObservedPacket ==
  /\ svc.target = {} /\ svc.packet \in Packets => Observed = svc.packet
  /\ \A e : svc.target = {e} /\ effects[e].packet \in Packets =>
       Observed = effects[e].packet
BY DEF Observed

-----------------------------------------------------------------------------
(* What the service does, step by step. *)

(* The invariant that the steps of the service keep among themselves and the  *)
(* store.                                                                     *)
HandlerInv == TypeOK /\ StoreInv /\ HandlerOwnsAttempt /\ RecoveryCovers /\ AdmittedInHand

(* The owner of an open attempt.                                              *)
LEMMA OpenAttempt ==
  ASSUME StoreInv, NEW e \in Effects, effects[e].key # NoKey
  PROVE  /\ effects[e].packet \in Packets /\ effects[e].key \in Keys
         /\ EffectKey(effects[e].packet) = e
         /\ receipts[effects[e].packet] = "none" /\ effects[e].state = "pending"
         /\ ActiveAttempt(effects[e].packet, effects[e].key)
<1>1. effects[e] \in EffectRow
  BY DEF StoreInv, StoreTypeOK
<1> QED BY <1>1 DEF StoreInv, ActiveAttemptOwned, ActiveAttempt, EffectRow

OwnersAdmitted ==
  \A e \in Effects : effects[e].key # NoKey => accepted[effects[e].packet] # Never

LEMMA OwnersStep ==
  ASSUME StoreInv, OwnersAdmitted, [StoreNext]_storeVars
  PROVE  OwnersAdmitted'
<1>0. StoreTypeOK
  BY DEF StoreInv
<1>1. ASSUME NEW e \in Effects, effects'[e].key # NoKey,
             effects'[e].key = effects[e].key, effects'[e].packet = effects[e].packet,
             accepted' = accepted
      PROVE  accepted'[effects'[e].packet] # Never
  BY <1>1 DEF OwnersAdmitted
<1>2. ASSUME NEW p \in Packets, NEW t \in Times, Reserve(p, t)
      PROVE  OwnersAdmitted'
  <2>1. \A q \in Packets : accepted[q] # Never => accepted'[q] # Never
    BY <1>0, <1>2 DEF Reserve, StoreTypeOK
  <2>2. \A e \in Effects : effects'[e].key # NoKey =>
          effects[e].key # NoKey /\ effects'[e].packet = effects[e].packet
    BY <1>0, <1>2 DEF Reserve, StoreTypeOK, NewRow
  <2>3. \A e \in Effects : effects[e].key # NoKey => effects[e].packet \in Packets
    BY OpenAttempt
  <2> QED BY <2>1, <2>2, <2>3 DEF OwnersAdmitted
<1>3. ASSUME NEW p \in Packets, NEW k \in Keys, NEW t \in Times, BeginMutation(p, k, t)
      PROVE  OwnersAdmitted'
  <2>1. accepted' = accepted /\ accepted[p] # Never
    BY <1>3 DEF BeginMutation, CanCharge, MayAttempt
  <2>2. \A e \in Effects : e # EffectKey(p) => effects'[e] = effects[e]
    BY <1>0, <1>3 DEF BeginMutation, StoreTypeOK
  <2>3. effects'[EffectKey(p)].packet = p
    BY <1>0, <1>3, EffectKeyType DEF BeginMutation, StoreTypeOK
  <2> QED BY <2>1, <2>2, <2>3 DEF OwnersAdmitted
<1>4. ASSUME NEW p \in Packets, NEW k \in Keys, ReconcileAbsent(p, k)
      PROVE  OwnersAdmitted'
  BY <1>0, <1>4, EffectKeyType DEF ReconcileAbsent, Cleared, StoreTypeOK, OwnersAdmitted
<1>5. ASSUME NEW p \in Packets, NEW s, NEW b, RecordPacketReceipt(p, s, b)
      PROVE  OwnersAdmitted'
  <2>1. \A e \in Effects : effects'[e].key = effects[e].key /\ effects'[e].packet = effects[e].packet
    BY <1>0, <1>5, EffectKeyType DEF RecordPacketReceipt, StoreTypeOK, EffectRow
  <2> QED BY <1>5, <2>1 DEF RecordPacketReceipt, OwnersAdmitted
<1>6. ASSUME NEW p \in Packets, NEW k \in Keys, NEW s, Terminalize(p, k, s)
      PROVE  OwnersAdmitted'
  BY <1>0, <1>6, EffectKeyType DEF Terminalize, Cleared, StoreTypeOK, OwnersAdmitted
<1>7. CASE (\E a \in Actions : CloseCircuit(a)) \/ UNCHANGED storeVars
  BY <1>7 DEF CloseCircuit, storeVars, OwnersAdmitted
<1> QED BY <1>2, <1>3, <1>4, <1>5, <1>6, <1>7 DEF StoreNext

(* The three parts of HandlerInv about the handler, at each stage. *)
HandlerParts == HandlerOwnsAttempt /\ RecoveryCovers /\ AdmittedInHand

LEMMA PartsIdle ==
  ASSUME svc' = Idle, OwnersAdmitted'
  PROVE  HandlerParts'
<1>1. svc'.pc = "idle" /\ svc'.target = {}
  BY DEF Idle
<1> QED BY <1>1 DEF HandlerParts, HandlerOwnsAttempt, RecoveryCovers, AdmittedInHand,
                    OwnersAdmitted, Stage

(* The handler changes and the store does not. *)
Only(r) == svc' = r /\ UNCHANGED storeVars /\ Quiet

LEMMA OnlyKeeps ==
  ASSUME HandlerInv, NEW r \in Handler, Only(r)
  PROVE  /\ TypeOK' /\ StoreInv' /\ OwnersAdmitted'
         /\ accepted' = accepted /\ effects' = effects /\ receipts' = receipts
         /\ \A p, k : ActiveAttempt(p, k)' <=> ActiveAttempt(p, k)
<1>1. StoreInv'
  BY InvNext DEF HandlerInv, Only
<1>2. TypeOK'
  BY <1>1 DEF HandlerInv, Only, Quiet, TypeOK, StoreInv
<1>3. OwnersAdmitted'
  BY DEF HandlerInv, AdmittedInHand, OwnersAdmitted, Only, storeVars
<1> QED BY <1>1, <1>2, <1>3 DEF Only, storeVars, ActiveAttempt

LEMMA ReceiveStep ==
  ASSUME HandlerInv, NEW p \in Packets, Receive(p)
  PROVE  HandlerInv'
<1> DEFINE r == [Idle EXCEPT !.pc = "recover", !.packet = p, !.started = now,
                             !.queue = PendingRecovery]
<1>1. r \in Handler /\ Only(r)
  <2>1. PendingRecovery \subseteq Effects /\ now \in Times
    BY DEF PendingRecovery, HandlerInv, TypeOK
  <2> QED BY <2>1, IdleType DEF Receive, Only, Handler, Phases
<1>2. /\ TypeOK' /\ StoreInv' /\ OwnersAdmitted' /\ effects' = effects
  BY <1>1, OnlyKeeps
<1>3. /\ svc'.pc = "recover" /\ svc'.packet = p /\ svc'.queue = PendingRecovery
      /\ svc'.target = {}
  BY <1>1 DEF Only, Idle
<1>4. \A e \in Effects : effects[e].packet = p => e \in PendingRecovery
  <2>1. \A e \in Effects : effects[e].packet = p => effects[e].key # NoKey
    BY PacketAssumption DEF HandlerInv, StoreInv, AttemptInv, RowShape
  <2> QED BY <2>1, OpenAttempt DEF PendingRecovery, HandlerInv
<1> QED BY <1>2, <1>3, <1>4
    DEF HandlerInv, HandlerOwnsAttempt, RecoveryCovers, AdmittedInHand, OwnersAdmitted,
        Stage, PendingRecovery

(* Stages between which the handler holds the same thing. *)
Alike(a, b) ==
  \/ a = b
  \/ {a, b} \subseteq {"fetch", "decide"}
  \/ {a, b} \subseteq {"send", "await", "settle"}

LEMMA PartsKept ==
  ASSUME HandlerInv, UNCHANGED storeVars, Alike(Stage, Stage'), svc.pc # "idle",
         svc'.packet = svc.packet, svc'.queue = svc.queue, svc'.target = svc.target,
         svc'.key = svc.key
  PROVE  HandlerParts'
<1>1. accepted' = accepted /\ effects' = effects /\ receipts' = receipts
  BY DEF storeVars
<1>2. svc.packet \in Packets
  BY DEF HandlerInv, RecoveryCovers
<1>3. HandlerOwnsAttempt'
  BY <1>1 DEF HandlerInv, HandlerOwnsAttempt, Alike, ActiveAttempt
<1>4. RecoveryCovers'
  BY <1>1, <1>2 DEF HandlerInv, RecoveryCovers, Alike
<1>5. AdmittedInHand'
  BY <1>1 DEF HandlerInv, AdmittedInHand, Alike
<1> QED BY <1>3, <1>4, <1>5 DEF HandlerParts

(* Whom an observation is about. *)
LEMMA ObservedInHand ==
  ASSUME HandlerInv, svc.pc \in {"threads", "confirm"}
  PROVE  /\ Observed \in Packets
         /\ svc.use # "reconcile" => Observed = svc.packet /\ svc.target = {}
         /\ svc.use = "reconcile" =>
              \E e \in Effects : svc.target = {e} /\ Observed = effects[e].packet
                                 /\ effects[e].key # NoKey
<1>1. Stage = svc.use /\ svc.packet \in Packets
  BY DEF Stage, HandlerInv, RecoveryCovers
<1>2. CASE svc.use # "reconcile"
  <2>1. svc.target = {}
    BY <1>1, <1>2 DEF HandlerInv, RecoveryCovers
  <2> QED BY <1>1, <1>2, <2>1, ObservedPacket
<1>3. CASE svc.use = "reconcile"
  <2>1. PICK e \in Effects : svc.target = {e}
    BY <1>1, <1>3 DEF HandlerInv, RecoveryCovers
  <2>2. effects[e].key # NoKey
    BY <1>1, <1>3, <2>1 DEF HandlerInv, RecoveryCovers
  <2>3. effects[e].packet \in Packets
    BY <2>2, OpenAttempt DEF HandlerInv
  <2> QED BY <1>3, <2>1, <2>2, <2>3, ObservedPacket
<1> QED BY <1>2, <1>3

LEMMA ObserveSteps ==
  ASSUME HandlerInv, ObserveThreads \/ ObserveAgain \/ ObserveFail
  PROVE  HandlerInv'
<1>0. svc \in Handler /\ svc.pc \in {"threads", "confirm"} /\ Stage = svc.use /\ svc.use \in Uses
  BY HandlerFields DEF HandlerInv, TypeOK, ObserveThreads, ObserveAgain, ObserveFail, Stage
<1>1. Observed \in Packets
  BY <1>0, ObservedInHand
<1> DEFINE g == gh[Request[Observed].pr]
           sat == Satisfied(Observed, g)
           ex == Exact(Observed, g)
<1>2. sat \in BOOLEAN /\ ex \in BOOLEAN /\ g.ready \in BOOLEAN
  BY <1>1, PullRequestFields DEF HandlerInv
<1>3. svc.view \in View /\ svc.view.satisfied \in BOOLEAN
  BY HandlerFields DEF HandlerInv, View
<1> HIDE DEF g, sat, ex
<1>4. ASSUME NEW r \in Handler, Only(r), r.pc \in {"confirm", svc.use}, r.use = svc.use,
             r.packet = svc.packet, r.queue = svc.queue, r.target = svc.target,
             r.key = svc.key
      PROVE  HandlerInv'
  <2>1. TypeOK' /\ StoreInv' /\ UNCHANGED storeVars
    BY <1>4, OnlyKeeps DEF Only
  <2>2. Stage' = svc.use
    BY <1>0, <1>4 DEF Only, Stage, Uses
  <2>3. HandlerParts'
    <3>1. Alike(Stage, Stage') /\ svc.pc # "idle"
      BY <1>0, <2>2 DEF Alike
    <3>2. /\ svc'.packet = svc.packet /\ svc'.queue = svc.queue
          /\ svc'.target = svc.target /\ svc'.key = svc.key
      BY <1>4 DEF Only
    <3> QED BY <2>1, <3>1, <3>2, PartsKept
  <2> QED BY <2>1, <2>3 DEF HandlerInv, HandlerParts
<1>5. CASE ObserveThreads
  <2> DEFINE r == [svc EXCEPT !.pc = "confirm", !.view.satisfied = sat]
  <2>1. Only(r)
    BY <1>5 DEF ObserveThreads, Only, sat, g
  <2>2. r.view \in View
    BY <1>0, <1>2, <1>3 DEF View, Handler
  <2>3. r \in Handler
    BY <1>0, <2>2 DEF Handler, Phases
  <2>4. /\ r.pc = "confirm" /\ r.use = svc.use /\ r.packet = svc.packet
        /\ r.queue = svc.queue /\ r.target = svc.target /\ r.key = svc.key
    BY <1>0 DEF Handler
  <2> HIDE DEF r
  <2> QED BY <1>4, <2>1, <2>3, <2>4
<1>6. CASE ObserveAgain
  <2> DEFINE s == IF Request[Observed].action = "mark_pr_ready" THEN g.ready
                  ELSE svc.view.satisfied
             v(ok) == [live |-> TRUE, exact |-> ex, satisfied |-> s, checks |-> ok]
             r(ok) == [svc EXCEPT !.pc = svc.use, !.identity = {}, !.view = v(ok)]
  <2>1. PICK ok \in BOOLEAN : Only(r(ok))
    BY <1>6 DEF ObserveAgain, Only, ex, g
  <2>2. s \in BOOLEAN
    BY <1>2, <1>3
  <2> HIDE DEF s
  <2>3. v(ok) \in View
    BY <1>2, <2>2 DEF View
  <2> HIDE DEF v
  <2>4. r(ok) \in Handler
    BY <1>0, <2>3 DEF Handler, Phases, Uses
  <2>5. /\ r(ok).pc = svc.use /\ r(ok).use = svc.use /\ r(ok).packet = svc.packet
        /\ r(ok).queue = svc.queue /\ r(ok).target = svc.target /\ r(ok).key = svc.key
    BY <1>0 DEF Handler
  <2> HIDE DEF r
  <2> QED BY <1>4, <2>1, <2>4, <2>5
<1>7. CASE ObserveFail
  <2> DEFINE r == [svc EXCEPT !.pc = svc.use, !.identity = {}, !.view = NoView]
  <2>1. Only(r)
    BY <1>7 DEF ObserveFail, Only
  <2>2. r \in Handler
    BY <1>0, IdleType DEF Handler, Phases, Uses
  <2>3. /\ r.pc = svc.use /\ r.use = svc.use /\ r.packet = svc.packet
        /\ r.queue = svc.queue /\ r.target = svc.target /\ r.key = svc.key
    BY <1>0 DEF Handler
  <2> HIDE DEF r
  <2> QED BY <1>4, <2>1, <2>2, <2>3
<1> QED BY <1>5, <1>6, <1>7

(* The start of an observation of packet p, for a use and a target. *)
LEMMA ObservingFields ==
  ASSUME TypeOK, NEW p \in Packets, NEW use \in Uses, NEW target \in SUBSET Effects
  PROVE  LET r == Observing(p, use, target) IN
         /\ r \in Handler
         /\ r.pc = "threads" /\ r.use = use /\ r.target = target /\ r.packet = svc.packet
         /\ r.queue = svc.queue /\ r.key = svc.key /\ r.view = NoView
         /\ r.started = svc.started /\ r.identity = {IdentityOf(p)}
<1>1. svc \in Handler /\ IdentityOf(p) \in Identity
  BY PullRequestFields DEF TypeOK
<1> QED BY <1>1, IdleType DEF Observing, Handler, Phases

LEMMA FetchSteps ==
  ASSUME HandlerInv, FetchLive \/ MutationAnswered
  PROVE  HandlerInv'
<1> DEFINE use == IF svc.pc = "fetch" THEN "decide" ELSE "settle"
           r == Observing(svc.packet, use, {})
<1>1. /\ svc.pc \in {"fetch", "await"} /\ Only(r) /\ use \in Uses
      /\ use = IF svc.pc = "fetch" THEN "decide" ELSE "settle"
  BY DEF FetchLive, MutationAnswered, Only, Uses
<1>2. svc.packet \in Packets /\ svc.target = {} /\ Stage = svc.pc
  BY <1>1 DEF HandlerInv, RecoveryCovers, Stage
<1> HIDE DEF use
<1>3. /\ r \in Handler /\ r.pc = "threads" /\ r.use = use /\ r.target = {}
      /\ r.packet = svc.packet /\ r.queue = svc.queue /\ r.key = svc.key
  BY <1>1, <1>2, ObservingFields DEF HandlerInv
<1> HIDE DEF r
<1>4. TypeOK' /\ StoreInv' /\ UNCHANGED storeVars
  BY <1>1, <1>3, OnlyKeeps DEF Only
<1>5. HandlerParts'
  <2>1. Stage' = use
    BY <1>1, <1>3 DEF Only, Stage
  <2>2. Alike(Stage, Stage')
    BY <1>1, <1>2, <2>1 DEF Alike
  <2>3. /\ svc'.packet = svc.packet /\ svc'.queue = svc.queue /\ svc'.target = svc.target
        /\ svc'.key = svc.key
    BY <1>1, <1>2, <1>3 DEF Only
  <2> QED BY <1>1, <1>4, <2>2, <2>3, PartsKept
<1> QED BY <1>4, <1>5 DEF HandlerInv, HandlerParts

LEMMA RecoverFetchStep ==
  ASSUME HandlerInv, RecoverFetch
  PROVE  HandlerInv'
<1>0. svc.pc = "recover" /\ Stage = "recover"
  BY DEF RecoverFetch, Stage
<1>1. PICK e \in svc.queue :
        Only([Observing(effects[e].packet, "reconcile", {e}) EXCEPT !.queue = @ \ {e}])
  BY DEF RecoverFetch, Only
<1> DEFINE o == Observing(effects[e].packet, "reconcile", {e})
           r == [o EXCEPT !.queue = @ \ {e}]
<1>2. /\ svc.packet \in Packets /\ svc.target = {} /\ e \in Effects
      /\ effects[e].key # NoKey /\ svc.queue \subseteq Effects
  BY <1>0, HandlerFields DEF HandlerInv, RecoveryCovers
<1>3. /\ o \in Handler /\ o.pc = "threads" /\ o.use = "reconcile" /\ o.target = {e}
      /\ o.packet = svc.packet /\ o.queue = svc.queue
  BY <1>2, OpenAttempt, ObservingFields DEF HandlerInv, Uses
<1> HIDE DEF o
<1>4. /\ r \in Handler /\ r.pc = "threads" /\ r.use = "reconcile" /\ r.target = {e}
      /\ r.packet = svc.packet /\ r.queue = svc.queue \ {e}
  BY <1>2, <1>3 DEF Handler
<1>5. /\ TypeOK' /\ StoreInv' /\ OwnersAdmitted' /\ effects' = effects
  BY <1>1, <1>4, OnlyKeeps DEF o
<1>6. /\ svc'.pc = "threads" /\ svc'.use = "reconcile" /\ svc'.target = {e}
      /\ svc'.packet = svc.packet /\ svc'.queue = svc.queue \ {e}
  BY <1>1, <1>4 DEF Only, o
<1>7. Stage' = "reconcile"
  BY <1>6 DEF Stage
<1>8. RecoveryCovers'
  BY <1>0, <1>2, <1>5, <1>6, <1>7 DEF RecoveryCovers, HandlerInv
<1>9. HandlerOwnsAttempt' /\ AdmittedInHand'
  BY <1>2, <1>5, <1>6, <1>7
  DEF HandlerOwnsAttempt, AdmittedInHand, OwnersAdmitted
<1> QED BY <1>5, <1>8, <1>9 DEF HandlerInv

LEMMA GiveUpStep ==
  ASSUME HandlerInv, MutationIndeterminate
  PROVE  HandlerInv'
<1> DEFINE r == [svc EXCEPT !.pc = "settle", !.view = NoView]
<1>1. svc.pc = "await" /\ Only(r) /\ svc \in Handler
  BY DEF MutationIndeterminate, Only, HandlerInv, TypeOK
<1>2. /\ r \in Handler /\ r.pc = "settle" /\ r.packet = svc.packet /\ r.queue = svc.queue
      /\ r.target = svc.target /\ r.key = svc.key
  BY <1>1, IdleType DEF Handler, Phases
<1> HIDE DEF r
<1>3. TypeOK' /\ StoreInv' /\ UNCHANGED storeVars
  BY <1>1, <1>2, OnlyKeeps DEF Only
<1>4. Alike(Stage, Stage')
  BY <1>1, <1>2 DEF Stage, Only, Alike
<1>5. HandlerParts'
  BY <1>1, <1>2, <1>3, <1>4, PartsKept DEF Only
<1> QED BY <1>3, <1>5 DEF HandlerInv, HandlerParts

(* The request is answered, or fails, without a write. *)
LEMMA IdleStep ==
  ASSUME HandlerInv, Only(Idle)
  PROVE  HandlerInv'
<1>1. TypeOK' /\ StoreInv' /\ OwnersAdmitted' /\ svc' = Idle
  BY IdleType, OnlyKeeps DEF Only
<1> QED BY <1>1, PartsIdle DEF HandlerInv, HandlerParts

LEMMA CrashStep ==
  ASSUME HandlerInv, Crash
  PROVE  HandlerInv'
<1>1. StoreInv' /\ UNCHANGED storeVars /\ svc' = Idle
  BY InvNext DEF HandlerInv, Crash
<1>2. crashes' \in 0 .. MaxCrashes
  BY BoundAssumption DEF Crash, HandlerInv, TypeOK
<1>3. TypeOK'
  BY <1>1, <1>2, IdleType DEF HandlerInv, TypeOK, Crash, StoreInv
<1>4. OwnersAdmitted'
  BY <1>1 DEF HandlerInv, AdmittedInHand, OwnersAdmitted, storeVars
<1> QED BY <1>1, <1>3, <1>4, PartsIdle DEF HandlerInv, HandlerParts

LEMMA SendStep ==
  ASSUME HandlerInv, Send
  PROVE  HandlerInv'
<1>0. svc \in Handler /\ svc.pc = "send" /\ Stage = "send" /\ svc.packet \in Packets
  BY DEF HandlerInv, TypeOK, Send, Stage, RecoveryCovers
<1>1. ActiveAttempt(svc.packet, svc.key)
  BY <1>0 DEF HandlerInv, HandlerOwnsAttempt
<1>2. svc.key \in Keys
  <2> DEFINE e == EffectKey(svc.packet)
  <2>1. e \in Effects /\ effects[e].packet = svc.packet /\ effects[e].key = svc.key
    BY <1>0, <1>1, EffectKeyType DEF ActiveAttempt
  <2>2. effects[e].key # NoKey
    BY <1>0, <2>1, PacketAssumption DEF HandlerInv, StoreInv, AttemptInv, RowShape
  <2> QED BY <2>1, <2>2, OpenAttempt DEF HandlerInv
<1>3. StoreInv' /\ UNCHANGED storeVars
  BY InvNext DEF HandlerInv, Send
<1>4. /\ svc' \in Handler /\ svc'.pc = "await" /\ svc'.packet = svc.packet
      /\ svc'.queue = svc.queue /\ svc'.target = svc.target /\ svc'.key = svc.key
  BY <1>0 DEF Send, Goto, Handler, Phases
<1>5. TypeOK'
  <2>1. calls' \in SUBSET [packet : Packets, key : Keys]
    BY <1>0, <1>2 DEF Send, HandlerInv, TypeOK
  <2>2. sent' \in [Effects -> Nat]
    BY <1>0, EffectKeyType DEF Send, HandlerInv, TypeOK
  <2> QED BY <1>3, <1>4, <2>1, <2>2 DEF Send, HandlerInv, TypeOK, StoreInv
<1>6. Alike(Stage, Stage')
  BY <1>0, <1>4 DEF Stage, Alike
<1>7. HandlerParts'
  BY <1>0, <1>3, <1>4, <1>6, PartsKept
<1> QED BY <1>3, <1>5, <1>7 DEF HandlerInv, HandlerParts

LEMMA OperatorStep ==
  ASSUME HandlerInv, Operator
  PROVE  HandlerInv' /\ StoreNext
<1>1. PICK a \in Actions : CloseCircuit(a)
  BY DEF Operator
<1>2. StoreNext
  BY <1>1 DEF StoreNext
<1>3. StoreInv'
  BY <1>2, InvNext DEF HandlerInv
<1>4. accepted' = accepted /\ effects' = effects /\ receipts' = receipts /\ svc' = svc
  BY <1>1 DEF CloseCircuit, Operator
<1>5. TypeOK'
  BY <1>3 DEF HandlerInv, TypeOK, StoreInv, Operator, Quiet
<1>6. HandlerOwnsAttempt' /\ RecoveryCovers' /\ AdmittedInHand'
  BY <1>4 DEF HandlerInv, HandlerOwnsAttempt, RecoveryCovers, AdmittedInHand, Stage,
              ActiveAttempt
<1> QED BY <1>2, <1>3, <1>5, <1>6 DEF HandlerInv

(* What is seen of the world stays within what can be seen. *)
LEMMA WitnessType ==
  ASSUME TypeOK, NEW w, Witness(w)
  PROVE  seen' \in [Packets -> SUBSET Facts]
BY DEF Witness, TypeOK, FactsIn

LEMMA EditType ==
  ASSUME TypeOK, Edit
  PROVE  gh' \in [PRs -> PullRequest] /\ edits' \in 0 .. MaxEdits
<1>1. PICK r \in PRs :
        \/ \E h \in Heads \ {gh[r].head} : gh' = [gh EXCEPT ![r].head = h]
        \/ gh' = [gh EXCEPT ![r].open = ~ @]
        \/ gh' = [gh EXCEPT ![r].ready = ~ @]
        \/ \E t \in Threads :
             gh' = [gh EXCEPT ![r].resolved =
                      IF t \in @ THEN @ \ {t} ELSE @ \cup {t}]
  BY DEF Edit
<1>2. gh \in [PRs -> PullRequest] /\ gh[r] \in PullRequest
  BY DEF TypeOK
<1>3. gh' \in [PRs -> PullRequest]
  <2>1. ASSUME NEW h \in Heads, gh' = [gh EXCEPT ![r].head = h]
        PROVE  gh' \in [PRs -> PullRequest]
    BY <1>2, <2>1 DEF PullRequest
  <2>2. CASE gh' = [gh EXCEPT ![r].open = ~ @]
    BY <1>2, <2>2 DEF PullRequest
  <2>3. CASE gh' = [gh EXCEPT ![r].ready = ~ @]
    BY <1>2, <2>3 DEF PullRequest
  <2>4. ASSUME NEW x \in SUBSET Threads, gh' = [gh EXCEPT ![r].resolved = x]
        PROVE  gh' \in [PRs -> PullRequest]
    BY <1>2, <2>4 DEF PullRequest
  <2>5. ASSUME NEW t \in Threads,
               gh' = [gh EXCEPT ![r].resolved = IF t \in @ THEN @ \ {t} ELSE @ \cup {t}]
        PROVE  gh' \in [PRs -> PullRequest]
    <3> DEFINE x == IF t \in gh[r].resolved THEN gh[r].resolved \ {t}
                    ELSE gh[r].resolved \cup {t}
    <3>1. x \in SUBSET Threads
      BY <1>2 DEF PullRequest
    <3>2. gh' = [gh EXCEPT ![r].resolved = x]
      BY <2>5
    <3> QED BY <2>4, <3>1, <3>2
  <2> QED BY <1>1, <2>1, <2>2, <2>3, <2>5
<1>4. edits' \in 0 .. MaxEdits
  BY BoundAssumption DEF Edit, TypeOK
<1> QED BY <1>3, <1>4

LEMMA WorldStep ==
  ASSUME HandlerInv, World
  PROVE  HandlerInv'
<1>0. TypeOK /\ svc \in Handler
  BY DEF HandlerInv, TypeOK
<1>1. UNCHANGED storeVars
  BY DEF World, Edit, GitHubApply, GitHubDrop, Tick
<1>2. StoreInv' /\ StoreTypeOK'
  BY <1>1, InvNext DEF HandlerInv, StoreInv
<1>3. TypeOK'
  <2>1. CASE Edit
    <3>1. seen' \in [Packets -> SUBSET Facts]
      BY <1>0, <2>1, WitnessType DEF Edit
    <3> QED BY <1>0, <1>2, <2>1, <3>1, EditType DEF TypeOK, Edit
  <2>2. ASSUME NEW c \in calls, GitHubApply(c) PROVE TypeOK'
    <3> DEFINE p == c.packet
               r == Request[p].pr
               g == Mutated(p, gh[r])
    <3>1. p \in Packets /\ r \in PRs /\ gh[r] \in PullRequest
      BY <1>0, <2>2, RequestFields DEF TypeOK
    <3>2. g \in PullRequest
      BY <3>1, RequestFields DEF Mutated, PullRequest
    <3>3. gh' \in [PRs -> PullRequest]
      BY <1>0, <2>2, <3>1, <3>2 DEF GitHubApply, TypeOK
    <3>4. seen' \in [Packets -> SUBSET Facts]
      BY <1>0, <2>2, WitnessType DEF GitHubApply
    <3>5. ViewOf(p, g, TRUE) \in View
      <4>1. Exact(p, g) \in BOOLEAN
        BY DEF Exact
      <4>2. Satisfied(p, g) \in BOOLEAN
        <5>1. g.ready \in BOOLEAN
          BY <3>2 DEF PullRequest
        <5> HIDE DEF g
        <5>2. CASE Request[p].action = "mark_pr_ready"
          BY <5>1, <5>2 DEF Satisfied
        <5>3. CASE Request[p].action # "mark_pr_ready"
          BY <5>3 DEF Satisfied
        <5> QED BY <5>2, <5>3
      <4> QED BY <4>1, <4>2 DEF ViewOf, View
    <3>6. svc' \in Handler
      BY <1>0, <2>2, <3>5 DEF GitHubApply, Handler
    <3>7. calls' \in SUBSET [packet : Packets, key : Keys]
      BY <1>0, <2>2 DEF GitHubApply, TypeOK
    <3> QED BY <1>0, <1>2, <2>2, <3>3, <3>4, <3>6, <3>7 DEF TypeOK, GitHubApply
  <2>3. ASSUME NEW c \in calls, GitHubDrop(c) PROVE TypeOK'
    BY <1>0, <1>2, <2>3 DEF TypeOK, GitHubDrop
  <2>4. CASE Tick
    BY <1>0, <1>2, <2>4 DEF TypeOK, Tick
  <2> QED BY <2>1, <2>2, <2>3, <2>4 DEF World
<1>4. /\ svc'.pc = svc.pc /\ svc'.packet = svc.packet /\ svc'.queue = svc.queue
      /\ svc'.target = svc.target /\ svc'.key = svc.key /\ svc'.use = svc.use
  BY <1>0 DEF World, Edit, GitHubApply, GitHubDrop, Tick, Handler
<1>5. HandlerParts'
  <2>1. Stage' = Stage
    BY <1>4 DEF Stage
  <2>2. accepted' = accepted /\ effects' = effects /\ receipts' = receipts
    BY <1>1 DEF storeVars
  <2> QED BY <1>4, <2>1, <2>2
      DEF HandlerInv, HandlerParts, HandlerOwnsAttempt, RecoveryCovers, AdmittedInHand,
          ActiveAttempt
<1> QED BY <1>2, <1>3, <1>5 DEF HandlerInv, HandlerParts

(* Steps that write to the store. *)

(* The types, after a step that writes to the store and nothing but the       *)
(* handler besides.                                                           *)
LEMMA WriteKeeps ==
  ASSUME HandlerInv, StoreNext, Quiet, svc' \in Handler
  PROVE  TypeOK' /\ StoreInv' /\ OwnersAdmitted'
<1>1. StoreInv'
  BY InvNext DEF HandlerInv
<1>2. OwnersAdmitted'
  BY OwnersStep DEF HandlerInv, AdmittedInHand, OwnersAdmitted
<1>3. TypeOK'
  BY <1>1 DEF HandlerInv, TypeOK, StoreInv, Quiet
<1> QED BY <1>1, <1>2, <1>3

(* An open attempt e is settled by a terminal verdict or by its proven        *)
(* absence, and recovery goes on.                                             *)
LEMMA RecoverSettleStep ==
  ASSUME HandlerInv, RecoverSettle
  PROVE  HandlerInv' /\ [StoreNext]_storeVars
<1>0. /\ svc \in Handler /\ svc.pc = "reconcile" /\ Stage = "reconcile"
      /\ svc.packet \in Packets /\ Quiet
  BY DEF HandlerInv, TypeOK, RecoverSettle, Stage, RecoveryCovers
<1>1. PICK e \in Effects : svc.target = {e}
  BY <1>0 DEF HandlerInv, RecoveryCovers
<1>2. effects[e].key # NoKey /\ e \notin svc.queue
  BY <1>0, <1>1 DEF HandlerInv, RecoveryCovers
<1> DEFINE q == effects[e].packet
           k == effects[e].key
<1>3. q \in Packets /\ k \in Keys /\ EffectKey(q) = e
  BY <1>2, OpenAttempt DEF HandlerInv
<1>4. \/ \E s \in AttemptStatuses : Terminalize(q, k, s)
      \/ ReconcileAbsent(q, k)
      \/ q # svc.packet /\ UNCHANGED storeVars
  BY <1>1 DEF RecoverSettle, AttemptStatuses
<1>5. /\ svc' \in Handler /\ svc'.pc = "recover" /\ svc'.target = {}
      /\ svc'.packet = svc.packet /\ svc'.queue = svc.queue
  BY <1>0, IdleType DEF RecoverSettle, Handler, Phases
<1>6. [StoreNext]_storeVars
  BY <1>3, <1>4 DEF StoreNext
<1>7. TypeOK' /\ StoreInv' /\ OwnersAdmitted'
  <2>1. CASE StoreNext
    BY <1>0, <1>5, <2>1, WriteKeeps
  <2>2. CASE UNCHANGED storeVars
    BY <1>0, <1>5, <2>2, OnlyKeeps DEF Only
  <2> QED BY <1>6, <2>1, <2>2
<1>8. /\ \A f \in Effects : f # e => effects'[f] = effects[f]
      /\ effects'[e].packet # svc.packet
  <2>1. CASE UNCHANGED storeVars /\ q # svc.packet
    BY <2>1 DEF storeVars
  <2>2. CASE \E s \in AttemptStatuses : Terminalize(q, k, s)
    BY <1>0, <1>3, <2>2, PacketAssumption
    DEF Terminalize, Cleared, HandlerInv, StoreInv, StoreTypeOK
  <2>3. CASE ReconcileAbsent(q, k)
    BY <1>0, <1>3, <2>3, PacketAssumption
    DEF ReconcileAbsent, Cleared, HandlerInv, StoreInv, StoreTypeOK
  <2> QED BY <1>4, <2>1, <2>2, <2>3
<1>9. Stage' = "recover"
  BY <1>5 DEF Stage
<1>10. RecoveryCovers'
  <2>1. \A f \in Effects : effects'[f].packet = svc.packet => f \in svc.queue
    BY <1>0, <1>1, <1>8 DEF HandlerInv, RecoveryCovers
  <2>2. \A f \in svc.queue : effects'[f].key # NoKey
    <3>1. \A f \in svc.queue : f \in Effects /\ f # e /\ effects[f].key # NoKey
      BY <1>0, <1>2, HandlerFields DEF HandlerInv, RecoveryCovers
    <3> QED BY <1>8, <3>1
  <2> QED BY <1>0, <1>5, <1>9, <2>1, <2>2 DEF RecoveryCovers
<1>11. HandlerOwnsAttempt' /\ AdmittedInHand'
  BY <1>7, <1>9 DEF HandlerOwnsAttempt, AdmittedInHand, OwnersAdmitted
<1> QED BY <1>6, <1>7, <1>10, <1>11 DEF HandlerInv

LEMMA AdmitStep ==
  ASSUME HandlerInv, Admit
  PROVE  HandlerInv' /\ StoreNext
<1> DEFINE p == svc.packet
           t == svc.started
<1>0. /\ svc \in Handler /\ svc.pc = "recover" /\ Stage = "recover" /\ p \in Packets
      /\ t \in Times /\ svc.queue = {} /\ svc.target = {}
  BY HandlerFields DEF HandlerInv, TypeOK, Admit, RecoveryDone, Stage, RecoveryCovers
<1>1. Reserve(p, t) /\ receipts[p] = "none"
  BY DEF Admit
<1>2. StoreNext
  BY <1>0, <1>1 DEF StoreNext
<1>3. StoreInv' /\ OwnersAdmitted'
  BY <1>2, InvNext, OwnersStep DEF HandlerInv, AdmittedInHand, OwnersAdmitted
<1>4. /\ svc' \in Handler /\ svc'.pc = "fetch" /\ svc'.packet = p /\ svc'.target = {}
  BY <1>0 DEF Admit, Goto, Handler, Phases
<1>5. TypeOK'
  <2>1. seen' \in [Packets -> SUBSET Facts]
    BY <1>0 DEF Admit, HandlerInv, TypeOK, FactsIn
  <2> QED BY <1>3, <1>4, <2>1 DEF Admit, HandlerInv, TypeOK, StoreInv
<1>6. \A e \in Effects : effects'[e].packet # p
  <2>1. \A e \in Effects : effects[e].packet # p
    BY <1>0 DEF HandlerInv, RecoveryCovers
  <2> QED BY <1>0, <1>1, <2>1, PacketAssumption
      DEF Reserve, NewRow, HandlerInv, StoreInv, StoreTypeOK
<1>7. accepted'[p] # Never /\ receipts'[p] = "none"
  <2>1. t # Never
    BY <1>0, TimeAssumption DEF Never
  <2> QED BY <1>0, <1>1, <2>1 DEF Reserve, HandlerInv, StoreInv, StoreTypeOK
<1>8. Stage' = "fetch"
  BY <1>4 DEF Stage
<1> QED BY <1>0, <1>2, <1>3, <1>4, <1>5, <1>6, <1>7, <1>8
    DEF HandlerInv, HandlerOwnsAttempt, RecoveryCovers, AdmittedInHand, OwnersAdmitted

(* An answer is recorded, or the store refuses to record it. *)
LEMMA AnswerStep ==
  ASSUME HandlerInv, NEW status \in PacketStatuses, NEW bound \in BOOLEAN,
         Stage \in {"fetch", "decide"}, Answer(svc.packet, status, bound),
         ~ bound => status = "not_attempted"
  PROVE  HandlerInv' /\ [StoreNext]_storeVars
<1>0. svc.packet \in Packets /\ Quiet /\ svc' = Idle
  BY DEF HandlerInv, RecoveryCovers, Answer, Stage
<1>1. CASE RecordPacketReceipt(svc.packet, status, bound)
  <2>1. MayRecordUnbound(svc.packet)
    BY DEF HandlerInv, HandlerOwnsAttempt, MayRecordUnbound
  <2>2. StoreNext
    BY <1>0, <1>1, <2>1 DEF StoreNext
  <2>3. TypeOK' /\ StoreInv' /\ OwnersAdmitted'
    BY <1>0, <2>2, WriteKeeps, IdleType
  <2> QED BY <1>0, <2>2, <2>3, PartsIdle DEF HandlerInv, HandlerParts
<1>2. CASE UNCHANGED storeVars
  BY <1>0, <1>2, IdleStep DEF Only
<1> QED BY <1>1, <1>2 DEF Answer

LEMMA RejectSteps ==
  ASSUME HandlerInv,
         RejectIndeterminate \/ RejectPrecondition \/ AlreadySatisfied \/ RejectLimit
           \/ RejectPending
  PROVE  HandlerInv' /\ [StoreNext]_storeVars
<1>1. svc.pc \in {"fetch", "decide"}
  BY DEF RejectIndeterminate, RejectPrecondition, AlreadySatisfied, RejectLimit,
         RejectPending, ReadyToMutate
<1>2. Stage \in {"fetch", "decide"}
  BY <1>1 DEF Stage
<1>3. \/ Answer(svc.packet, "not_attempted", TRUE)
      \/ Answer(svc.packet, "already_satisfied", TRUE)
      \/ Answer(svc.packet, "not_attempted", FALSE)
  BY DEF RejectIndeterminate, RejectPrecondition, AlreadySatisfied, RejectLimit,
         RejectPending
<1>4. "not_attempted" \in PacketStatuses /\ "already_satisfied" \in PacketStatuses
  BY DEF PacketStatuses
<1> QED BY <1>2, <1>3, <1>4, AnswerStep

LEMMA ChargeAttemptStep ==
  ASSUME HandlerInv, ChargeAttempt
  PROVE  /\ HandlerInv' /\ StoreNext
         /\ svc'.pc = "send" /\ svc'.packet = svc.packet /\ svc.packet \in Packets
         /\ effects'[EffectKey(svc.packet)].attempts =
              effects[EffectKey(svc.packet)].attempts + 1
         /\ \A f \in Effects : f # EffectKey(svc.packet) => effects'[f] = effects[f]
<1> DEFINE p == svc.packet
           e == EffectKey(p)
<1>0. /\ svc \in Handler /\ svc.pc = "decide" /\ Stage = "decide" /\ p \in Packets
      /\ now \in Times /\ svc.target = {} /\ e \in Effects /\ Quiet
  BY EffectKeyType DEF HandlerInv, TypeOK, ChargeAttempt, ReadyToMutate, Stage, RecoveryCovers
<1>1. BeginMutation(p, NewKey, now)
  BY DEF ChargeAttempt
<1>2. NewKey \in Keys
  <2>1. effects[e].attempts \in Nat /\ effects[e].attempts < 2
    BY <1>0, <1>1 DEF BeginMutation, CanCharge, MayAttempt, HandlerInv, StoreInv,
                      StoreTypeOK, EffectRow
  <2>2. NewKey = effects[e].attempts + 1
    BY DEF NewKey, Row
  <2>3. NewKey \in {1, 2}
    BY <2>1, <2>2
  <2> QED BY <2>3, AttemptKeyAssumption
<1>3. StoreNext
  BY <1>0, <1>1, <1>2 DEF StoreNext
<1>4. /\ svc' \in Handler /\ svc'.pc = "send" /\ svc'.packet = p /\ svc'.target = {}
      /\ svc'.key = NewKey
  BY <1>0, <1>2, IdleType DEF ChargeAttempt, Handler, Phases
<1>5. TypeOK' /\ StoreInv' /\ OwnersAdmitted'
  BY <1>0, <1>3, <1>4, WriteKeeps
<1>6. /\ effects'[e].state = "pending" /\ effects'[e].key = NewKey
      /\ effects'[e].packet = p /\ effects'[e].attempts = effects[e].attempts + 1
      /\ \A f \in Effects : f # e => effects'[f] = effects[f]
      /\ accepted' = accepted /\ receipts' = receipts
  BY <1>0, <1>1 DEF BeginMutation, HandlerInv, StoreInv, StoreTypeOK
<1>7. Stage' = "send"
  BY <1>4 DEF Stage
<1>8. HandlerOwnsAttempt'
  BY <1>4, <1>6, <1>7 DEF HandlerOwnsAttempt, ActiveAttempt
<1>9. accepted[p] # Never /\ receipts[p] = "none"
  BY <1>0 DEF HandlerInv, AdmittedInHand
<1>10. RecoveryCovers' /\ AdmittedInHand'
  BY <1>0, <1>4, <1>5, <1>6, <1>7, <1>9 DEF RecoveryCovers, AdmittedInHand, OwnersAdmitted
<1> QED BY <1>0, <1>3, <1>4, <1>5, <1>6, <1>8, <1>10 DEF HandlerInv

LEMMA SettleStep ==
  ASSUME HandlerInv, Settle
  PROVE  HandlerInv' /\ StoreNext
<1>0. svc.pc = "settle" /\ Stage = "settle" /\ svc.packet \in Packets /\ Quiet /\ svc' = Idle
  BY DEF HandlerInv, Settle, Stage, RecoveryCovers
<1> DEFINE p == svc.packet
           e == EffectKey(p)
<1>1. e \in Effects /\ effects[e].packet = p /\ effects[e].key = svc.key
  BY <1>0, EffectKeyType DEF HandlerInv, HandlerOwnsAttempt, ActiveAttempt
<1>2. effects[e].key # NoKey
  BY <1>0, <1>1, PacketAssumption DEF HandlerInv, StoreInv, AttemptInv, RowShape
<1>3. svc.key \in Keys
  BY <1>1, <1>2, OpenAttempt DEF HandlerInv
<1>4. StoreNext
  <2>1. SettleStatus(svc.view) \in AttemptStatuses
    BY DEF SettleStatus, AttemptStatuses
  <2>2. Terminalize(p, svc.key, SettleStatus(svc.view))
    BY DEF Settle
  <2> QED BY <1>0, <1>3, <2>1, <2>2 DEF StoreNext
<1>5. TypeOK' /\ StoreInv' /\ OwnersAdmitted'
  BY <1>0, <1>4, WriteKeeps, IdleType
<1> QED BY <1>0, <1>4, <1>5, PartsIdle DEF HandlerInv, HandlerParts

-----------------------------------------------------------------------------
(* The service implements the store *)

LEMMA HandlerNext ==
  ASSUME HandlerInv, Next
  PROVE  HandlerInv' /\ [StoreNext]_storeVars
<1>1. CASE \E p \in Packets : Receive(p)
  BY <1>1, ReceiveStep DEF Receive
<1>2. CASE ObserveThreads \/ ObserveAgain \/ ObserveFail
  BY <1>2, ObserveSteps DEF ObserveThreads, ObserveAgain, ObserveFail
<1>3. CASE RecoverFetch \/ FetchLive \/ MutationAnswered \/ MutationIndeterminate
  BY <1>3, RecoverFetchStep, FetchSteps, GiveUpStep
  DEF RecoverFetch, FetchLive, MutationAnswered, MutationIndeterminate
<1>4. CASE ReturnRecovered \/ RefuseAdmission \/ FailMutation
  BY <1>4, IdleStep DEF ReturnRecovered, RefuseAdmission, FailMutation, Only
<1>5. CASE RecoverSettle
  BY <1>5, RecoverSettleStep
<1>6. CASE Admit \/ ChargeAttempt \/ Settle \/ Operator
  BY <1>6, AdmitStep, ChargeAttemptStep, SettleStep, OperatorStep
<1>7. CASE RejectIndeterminate \/ RejectPrecondition \/ AlreadySatisfied \/ RejectLimit
             \/ RejectPending
  BY <1>7, RejectSteps
<1>8. CASE Send \/ Crash
  BY <1>8, SendStep, CrashStep DEF Send, Crash
<1>9. CASE World
  BY <1>9, WorldStep DEF World, Edit, GitHubApply, GitHubDrop, Tick
<1> QED BY <1>1, <1>2, <1>3, <1>4, <1>5, <1>6, <1>7, <1>8, <1>9 DEF Next, Handle

LEMMA HandlerStutter ==
  ASSUME HandlerInv, UNCHANGED vars
  PROVE  HandlerInv' /\ UNCHANGED storeVars
<1>1. svc' = svc /\ UNCHANGED storeVars /\ Quiet
  BY DEF vars, Quiet
<1>2. TypeOK' /\ StoreInv' /\ accepted' = accepted /\ effects' = effects /\ receipts' = receipts
  BY <1>1, OnlyKeeps DEF Only, HandlerInv, TypeOK
<1> QED BY <1>1, <1>2
    DEF HandlerInv, HandlerOwnsAttempt, RecoveryCovers, AdmittedInHand, Stage, ActiveAttempt

LEMMA HandlerStart ==
  ASSUME Init
  PROVE  HandlerInv
<1>1. StoreInit
  BY DEF Init
<1>2. StoreInv
  <2>1. \A e \in Effects : effects[e] = NoRow
    BY <1>1 DEF StoreInit
  <2>2. charges = {} /\ \A p \in Packets : receipts[p] = "none"
    BY <1>1 DEF StoreInit
  <2>3. StoreTypeOK
    BY <1>1, RowType DEF StoreInit, StoreTypeOK
  <2>4. AttemptInv /\ ActiveAttemptOwned /\ NoBlindRetry
    BY <2>1, <2>2
    DEF AttemptInv, RowShape, ChargeFate, RetryEvidence, ActiveAttemptOwned,
        NoBlindRetry, NoRow
  <2>5. VerdictAgreement
    BY <2>1, <2>2 DEF VerdictAgreement, NoRow, AttemptStatuses, SuccessStatuses,
                      TerminalStates
  <2> QED BY <2>3, <2>4, <2>5 DEF StoreInv
<1>3. TypeOK
  <2>1. gh \in [PRs -> PullRequest]
    BY DEF Init, PullRequest
  <2> QED BY <1>2, <2>1, IdleType, BoundAssumption DEF Init, TypeOK, StoreInv
<1>4. svc.pc = "idle" /\ svc.target = {} /\ Stage = "idle"
  BY DEF Init, Idle, Stage
<1>5. \A e \in Effects : effects[e].key = NoKey
  BY <1>1 DEF StoreInit, NoRow
<1> QED BY <1>2, <1>3, <1>4, <1>5
    DEF HandlerInv, HandlerOwnsAttempt, RecoveryCovers, AdmittedInHand

(* The handler and the store agree in every reachable state of the broker, on *)
(* whose attempt is open, on what recovery still has to reach, and on which   *)
(* packets can still be answered (handle, recover_pending, _recover_one).     *)
THEOREM HandlerInvariant == Spec => []HandlerInv
<1>1. HandlerInv /\ [Next]_vars => HandlerInv'
  BY HandlerNext, HandlerStutter
<1> QED BY <1>1, HandlerStart, PTL DEF Spec

(* StoreSpec for every instance: whatever crashes, moves on GitHub or arrives *)
(* late, the service calls the store only as StoreSpec allows; above all, it  *)
(* never writes a receipt that names no effect for the packet that owns a     *)
(* charged attempt (handle, RejectPending).                                   *)
THEOREM BrokerImplementsStore == Spec => StoreSpec
<1>1. Init => StoreInit
  BY DEF Init
<1>2. HandlerInv /\ [Next]_vars => [StoreNext]_storeVars
  BY HandlerNext, HandlerStutter
<1> QED BY <1>1, <1>2, HandlerInvariant, PTL DEF Spec, StoreSpec

-----------------------------------------------------------------------------
(* What is sent was charged *)

(* An attempt is counted when it is charged and never given back. *)
LEMMA AttemptsGrow ==
  ASSUME StoreInv, [StoreNext]_storeVars
  PROVE  \A e \in Effects : /\ effects[e].attempts \in Nat /\ effects'[e].attempts \in Nat
                            /\ effects[e].attempts <= effects'[e].attempts
<1>0. StoreTypeOK /\ \A e \in Effects : effects[e] \in EffectRow /\ effects[e].attempts \in Nat
  BY DEF StoreInv, StoreTypeOK, EffectRow
<1> SUFFICES ASSUME NEW e \in Effects
    PROVE  effects'[e].attempts \in Nat /\ effects[e].attempts <= effects'[e].attempts
  BY <1>0
<1>1. ASSUME NEW p \in Packets, NEW t \in Times, Reserve(p, t)
      PROVE  effects'[e].attempts = effects[e].attempts
  BY <1>0, <1>1, EffectKeyType
  DEF Reserve, NewRow, StoreTypeOK, StoreInv, AttemptInv, RowShape
<1>2. ASSUME NEW p \in Packets, NEW k \in Keys, NEW t \in Times, BeginMutation(p, k, t)
      PROVE  effects'[e].attempts \in {effects[e].attempts, effects[e].attempts + 1}
  BY <1>0, <1>2, EffectKeyType DEF BeginMutation, StoreTypeOK
<1>3. ASSUME NEW p \in Packets, NEW k \in Keys, ReconcileAbsent(p, k)
      PROVE  effects'[e].attempts = effects[e].attempts
  BY <1>0, <1>3, EffectKeyType DEF ReconcileAbsent, Cleared, StoreTypeOK
<1>4. ASSUME NEW p \in Packets, NEW s, NEW b, RecordPacketReceipt(p, s, b)
      PROVE  effects'[e].attempts = effects[e].attempts
  BY <1>0, <1>4, EffectKeyType DEF RecordPacketReceipt, StoreTypeOK, EffectRow
<1>5. ASSUME NEW p \in Packets, NEW k \in Keys, NEW s, Terminalize(p, k, s)
      PROVE  effects'[e].attempts = effects[e].attempts
  BY <1>0, <1>5, EffectKeyType DEF Terminalize, Cleared, StoreTypeOK
<1>6. ASSUME (\E a \in Actions : CloseCircuit(a)) \/ UNCHANGED storeVars
      PROVE  effects'[e].attempts = effects[e].attempts
  BY <1>0, <1>6 DEF CloseCircuit, storeVars
<1>7. effects'[e].attempts \in {effects[e].attempts, effects[e].attempts + 1}
  <2>1. \/ (\E a \in Actions : CloseCircuit(a)) \/ UNCHANGED storeVars
        \/ \E p \in Packets : \/ \E t \in Times : Reserve(p, t)
                              \/ \E k \in Keys, t \in Times : BeginMutation(p, k, t)
                              \/ \E k \in Keys : ReconcileAbsent(p, k)
                              \/ \E s, b : RecordPacketReceipt(p, s, b)
                              \/ \E k \in Keys : \E s : Terminalize(p, k, s)
    BY DEF StoreNext
  <2> QED BY <1>1, <1>2, <1>3, <1>4, <1>5, <1>6, <2>1
<1> QED BY <1>0, <1>7

(* Only Send sends, and only ChargeAttempt leads to it. *)
LEMMA SendCases ==
  ASSUME HandlerInv, [Next]_vars
  PROVE  \/ Send
         \/ ChargeAttempt /\ sent' = sent /\ calls' \subseteq calls
         \/ svc'.pc # "send" /\ sent' = sent /\ calls' \subseteq calls
         \/ svc'.pc = svc.pc /\ svc'.packet = svc.packet /\ sent' = sent
              /\ calls' \subseteq calls
<1>0. svc \in Handler /\ svc.use \in Uses
  BY HandlerFields DEF HandlerInv, TypeOK
<1>1. CASE World \/ Operator \/ UNCHANGED vars
  BY <1>0, <1>1
  DEF World, Edit, GitHubApply, GitHubDrop, Tick, Operator, Quiet, vars, Handler
<1>2. ASSUME svc' = Idle, sent' = sent, calls' = calls
      PROVE  svc'.pc # "send" /\ sent' = sent /\ calls' \subseteq calls
  BY <1>2 DEF Idle
<1>3. CASE \/ ReturnRecovered \/ RefuseAdmission \/ RejectIndeterminate
           \/ RejectPrecondition \/ AlreadySatisfied \/ RejectLimit \/ RejectPending
           \/ FailMutation \/ Settle \/ Crash
  BY <1>2, <1>3
  DEF ReturnRecovered, RefuseAdmission, RejectIndeterminate, RejectPrecondition,
      AlreadySatisfied, RejectLimit, RejectPending, FailMutation, Settle, Crash, Answer, Quiet
<1>4. CASE \E p \in Packets : Receive(p)
  BY <1>4 DEF Receive, Idle, Quiet
<1>5. CASE ObserveThreads \/ ObserveAgain \/ ObserveFail \/ MutationIndeterminate
  BY <1>0, <1>5
  DEF ObserveThreads, ObserveAgain, ObserveFail, MutationIndeterminate, Quiet, Uses, Handler
<1>6. CASE RecoverFetch \/ FetchLive \/ MutationAnswered
  BY <1>0, <1>6 DEF RecoverFetch, FetchLive, MutationAnswered, Observing, Quiet, Handler
<1>7. CASE RecoverSettle \/ Admit
  BY <1>0, <1>7 DEF RecoverSettle, Admit, Goto, Quiet, Handler
<1>8. CASE ChargeAttempt
  BY <1>8 DEF ChargeAttempt, Quiet
<1> QED BY <1>1, <1>3, <1>4, <1>5, <1>6, <1>7, <1>8 DEF Next, Handle

LEMMA OwedStep ==
  ASSUME HandlerInv, SendOwed, [Next]_vars
  PROVE  SendOwed'
<1>0. /\ sent \in [Effects -> Nat]
      /\ \A e \in Effects : /\ effects[e].attempts \in Nat /\ effects'[e].attempts \in Nat
                            /\ effects[e].attempts <= effects'[e].attempts
  BY AttemptsGrow, HandlerNext, HandlerStutter DEF HandlerInv, TypeOK
<1>1. CASE Send
  <2> DEFINE f == EffectKey(svc.packet)
  <2>1. svc.pc = "send" /\ effects' = effects /\ f \in Effects /\ svc'.pc = "await"
    BY <1>1, EffectKeyType
    DEF Send, storeVars, HandlerInv, RecoveryCovers, Goto, TypeOK, Handler
  <2>2. sent' = [sent EXCEPT ![f] = @ + 1] /\ sent[f] < effects[f].attempts
    BY <1>1, <2>1 DEF Send, SendOwed
  <2>3. \A e \in Effects : sent'[e] <= effects'[e].attempts
    BY <1>0, <2>1, <2>2 DEF SendOwed
  <2> QED BY <2>1, <2>3 DEF SendOwed
<1>2. CASE ChargeAttempt /\ sent' = sent
  <2>1. /\ svc'.packet = svc.packet /\ svc.packet \in Packets
        /\ effects'[EffectKey(svc.packet)].attempts =
             effects[EffectKey(svc.packet)].attempts + 1
    BY <1>2, ChargeAttemptStep
  <2>2. \A e \in Effects : sent'[e] <= effects'[e].attempts
    BY <1>0, <1>2 DEF SendOwed
  <2>3. EffectKey(svc.packet) \in Effects
    BY <2>1, EffectKeyType
  <2>4. sent'[EffectKey(svc.packet)] < effects'[EffectKey(svc.packet)].attempts
    BY <1>0, <1>2, <2>1, <2>3 DEF SendOwed
  <2> QED BY <2>1, <2>2, <2>4 DEF SendOwed, EffectKey
<1>3. CASE svc'.pc # "send" /\ sent' = sent
  BY <1>0, <1>3 DEF SendOwed
<1>4. CASE svc'.pc = svc.pc /\ svc'.packet = svc.packet /\ sent' = sent
  BY <1>0, <1>4 DEF SendOwed, EffectKey
<1> QED BY <1>1, <1>2, <1>3, <1>4, SendCases

(* Every call under way was charged. *)
CallsCharged ==
  \A c \in calls : \E d \in charges : d.packet = c.packet /\ d.key = c.key

LEMMA CallsStep ==
  ASSUME HandlerInv, CallsCharged, [Next]_vars
  PROVE  CallsCharged'
<1>1. charges \subseteq charges'
  <2>1. CASE StoreNext
    BY <2>1, DurableStep DEF HandlerInv, StoreInv, Durable
  <2>2. CASE UNCHANGED storeVars
    BY <2>2 DEF storeVars
  <2> QED BY <2>1, <2>2, HandlerNext, HandlerStutter
<1>2. CASE calls' \subseteq calls
  BY <1>1, <1>2 DEF CallsCharged
<1>3. CASE Send
  <2> DEFINE e == EffectKey(svc.packet)
  <2>1. svc.pc = "send" /\ Stage = "send" /\ svc.packet \in Packets
    BY <1>3 DEF Send, Stage, HandlerInv, RecoveryCovers
  <2>2. e \in Effects /\ effects[e].packet = svc.packet /\ effects[e].key = svc.key
    BY <2>1, EffectKeyType DEF HandlerInv, HandlerOwnsAttempt, ActiveAttempt
  <2>3. effects[e].key # NoKey
    BY <2>1, <2>2, PacketAssumption DEF HandlerInv, StoreInv, AttemptInv, RowShape
  <2>4. \E d \in charges : d.packet = svc.packet /\ d.key = svc.key
    BY <2>2, <2>3 DEF HandlerInv, StoreInv, ActiveAttemptOwned, ChargesOf
  <2>5. calls' = calls \cup {[packet |-> svc.packet, key |-> svc.key]}
    BY <1>3 DEF Send
  <2> QED BY <1>1, <2>4, <2>5 DEF CallsCharged
<1> QED BY <1>2, <1>3, SendCases

(* SentOnlyCharged for every instance: through crashes, lost answers and      *)
(* recoveries no effect puts more mutations on the wire than it was charged   *)
(* for, never more than two, and every call under way belongs to a charge     *)
(* (begin_mutation before execute_evaluated_action).                          *)
THEOREM NothingSentUncharged == Spec => []SentOnlyCharged
<1> DEFINE Inv == SendOwed /\ CallsCharged
<1>1. Init => Inv
  <2> SUFFICES ASSUME Init PROVE Inv
    OBVIOUS
  <2>1. svc.pc = "idle" /\ calls = {} /\ \A e \in Effects : sent[e] = 0
    BY DEF Init, Idle
  <2>2. \A e \in Effects : effects[e].attempts = 0
    BY DEF Init, StoreInit, NoRow
  <2> QED BY <2>1, <2>2 DEF SendOwed, CallsCharged
<1>2. HandlerInv /\ Inv /\ [Next]_vars => Inv'
  BY OwedStep, CallsStep
<1>3. Spec => []Inv
  BY <1>1, <1>2, HandlerInvariant, PTL DEF Spec
<1>4. Spec => []ChargesAccounted
  BY BrokerImplementsStore, ChargesCounted, PTL
<1>5. HandlerInv /\ Inv /\ ChargesAccounted => SentOnlyCharged
  <2> SUFFICES ASSUME HandlerInv, Inv, ChargesAccounted PROVE SentOnlyCharged
    OBVIOUS
  <2>1. ASSUME NEW e \in Effects
        PROVE  sent[e] <= Cardinality(ChargesOf(e)) /\ sent[e] <= 2
    <3>1. sent[e] \in Nat /\ effects[e].attempts \in Nat
      BY DEF HandlerInv, TypeOK, StoreInv, StoreTypeOK, EffectRow
    <3>2. sent[e] <= effects[e].attempts /\ effects[e].attempts <= 2
      BY DEF SendOwed, ChargesAccounted
    <3>3. effects[e].attempts = Cardinality(ChargesOf(e))
      BY DEF ChargesAccounted
    <3> QED BY <3>1, <3>2, <3>3
  <2> QED BY <2>1 DEF SentOnlyCharged, CallsCharged
<1> QED BY <1>3, <1>4, <1>5, HandlerInvariant, PTL

-----------------------------------------------------------------------------
(* Requests start in order and within their budget *)

(* Only Admit accepts a packet, only Receive starts a request, and the clock  *)
(* does not go back.                                                          *)
LEMMA ClockCases ==
  ASSUME HandlerInv, [Next]_vars
  PROVE  /\ now \in Nat /\ now' \in Nat /\ now <= now'
         /\ \/ Admit
            \/ accepted' = accepted /\ svc'.pc = "idle"
            \/ accepted' = accepted /\ svc'.started = now
            \/ accepted' = accepted /\ svc.pc # "idle" /\ svc'.started = svc.started
            \/ accepted' = accepted /\ svc'.pc = svc.pc /\ svc'.started = svc.started
<1>0. svc \in Handler /\ svc.use \in Uses /\ now \in Nat
  BY HandlerFields, TimeAssumption DEF HandlerInv, TypeOK
<1>1. CASE World \/ Operator \/ UNCHANGED vars
  <2>1. svc'.pc = svc.pc /\ svc'.started = svc.started
    BY <1>0, <1>1
    DEF World, Edit, GitHubApply, GitHubDrop, Tick, Operator, Quiet, vars, Handler
  <2>2. now' = now \/ now' = now + 1
    BY <1>1 DEF World, Edit, GitHubApply, GitHubDrop, Tick, Operator, Quiet, vars
  <2>3. accepted' = accepted
    BY <1>1 DEF World, Edit, GitHubApply, GitHubDrop, Tick, Operator, CloseCircuit, vars,
                storeVars
  <2> QED BY <1>0, <2>1, <2>2, <2>3
<1>2. CASE ReturnRecovered \/ RefuseAdmission \/ FailMutation \/ Settle \/ Crash
  BY <1>0, <1>2
  DEF ReturnRecovered, RefuseAdmission, FailMutation, Settle, Crash, Idle, Quiet,
      storeVars, Terminalize
<1>3. CASE \/ RejectIndeterminate \/ RejectPrecondition \/ AlreadySatisfied
           \/ RejectLimit \/ RejectPending
  <2>1. PICK s, b : Answer(svc.packet, s, b)
    BY <1>3 DEF RejectIndeterminate, RejectPrecondition, AlreadySatisfied,
                RejectLimit, RejectPending
  <2> QED BY <1>0, <2>1 DEF Answer, RecordPacketReceipt, storeVars, Idle, Quiet
<1>4. CASE \E p \in Packets : Receive(p)
  BY <1>0, <1>4 DEF Receive, Idle, Quiet, storeVars
<1>5. CASE \/ ObserveThreads \/ ObserveAgain \/ ObserveFail \/ MutationIndeterminate
           \/ RecoverFetch \/ FetchLive \/ MutationAnswered
  <2>1. accepted' = accepted /\ now' = now /\ svc.pc # "idle"
    BY <1>5
    DEF ObserveThreads, ObserveAgain, ObserveFail, MutationIndeterminate, RecoverFetch,
        FetchLive, MutationAnswered, Quiet, storeVars
  <2>2. CASE ObserveThreads \/ ObserveAgain \/ ObserveFail \/ MutationIndeterminate
    <3>1. svc'.started = svc.started
      BY <1>0, <2>2
      DEF ObserveThreads, ObserveAgain, ObserveFail, MutationIndeterminate, Handler
    <3> QED BY <1>0, <2>1, <3>1
  <2>3. CASE RecoverFetch \/ FetchLive \/ MutationAnswered
    <3>1. svc'.started = svc.started
      BY <1>0, <2>3 DEF RecoverFetch, FetchLive, MutationAnswered, Observing, Handler
    <3> QED BY <1>0, <2>1, <3>1
  <2> QED BY <1>5, <2>2, <2>3
<1>6. CASE RecoverSettle
  BY <1>0, <1>6
  DEF RecoverSettle, Terminalize, ReconcileAbsent, storeVars, Quiet, Handler
<1>7. CASE ChargeAttempt \/ Send
  <2>1. accepted' = accepted /\ now' = now /\ svc.pc # "idle"
    BY <1>7 DEF ChargeAttempt, ReadyToMutate, BeginMutation, Send, storeVars, Quiet
  <2>2. svc'.started = svc.started
    BY <1>0, <1>7 DEF ChargeAttempt, Send, Goto, Handler
  <2> QED BY <1>0, <2>1, <2>2
<1>8. CASE Admit
  BY <1>0, <1>8 DEF Admit
<1> QED BY <1>1, <1>2, <1>3, <1>4, <1>5, <1>6, <1>7, <1>8 DEF Next, Handle

LEMMA TimesAreNumbers ==
  /\ \A t \in Times : t \in Nat /\ t \in Int
  /\ \A t \in Times \cup {Never} : t \in Int
<1>1. Never \in Int
  BY DEF Never
<1>2. \A t \in Times : t \in Nat
  BY TimeAssumption
<1>3. \A t \in Nat : t \in Int
  OBVIOUS
<1> HIDE DEF Never
<1> QED BY <1>1, <1>2, <1>3

LEMMA StartedStep ==
  ASSUME HandlerInv, StartedInOrder, [Next]_vars
  PROVE  StartedInOrder'
<1>0. /\ now \in Nat /\ now' \in Nat /\ now <= now' /\ svc.started \in Nat
      /\ \A q \in Packets : accepted[q] \in Int
  <2>1. svc.started \in Times /\ accepted \in [Packets -> Times \cup {Never}]
    BY HandlerFields DEF HandlerInv, TypeOK, StoreTypeOK
  <2>2. \A q \in Packets : accepted[q] \in Times \cup {Never}
    BY <2>1
  <2>3. now \in Nat /\ now' \in Nat /\ now <= now'
    BY ClockCases
  <2> QED BY <2>1, <2>2, <2>3, TimesAreNumbers
<1>1. CASE Admit
  <2>1. /\ svc.pc = "recover" /\ svc'.started = svc.started /\ svc'.pc # "idle"
        /\ now' = now /\ svc.packet \in Packets
    BY <1>1 DEF Admit, RecoveryDone, Goto, HandlerInv, RecoveryCovers, TypeOK, Handler
  <2>2. \A q \in Packets : accepted'[q] \in {accepted[q], svc.started}
    BY <1>1 DEF Admit, Reserve, HandlerInv, TypeOK, StoreTypeOK
  <2> QED BY <1>0, <2>1, <2>2 DEF StartedInOrder
<1>2. CASE accepted' = accepted /\ svc'.pc = "idle"
  BY <1>0, <1>2 DEF StartedInOrder
<1>3. CASE accepted' = accepted /\ svc'.started = now
  BY <1>0, <1>3 DEF StartedInOrder
<1>4. CASE /\ accepted' = accepted /\ svc'.started = svc.started
           /\ svc.pc # "idle" \/ svc'.pc = svc.pc
  BY <1>0, <1>4 DEF StartedInOrder
<1> QED BY <1>1, <1>2, <1>3, <1>4, ClockCases

(* The packets accepted in the window that ends at t. *)
AcceptedWithin(t) == {q \in Packets : /\ accepted[q] # Never
                                      /\ accepted[q] > t - Window
                                      /\ accepted[q] <= t}

LEMMA BudgetStep ==
  ASSUME HandlerInv, RequestBudgetRespected, [Next]_vars
  PROVE  RequestBudgetRespected'
<1>0. \A t \in Times : Cardinality(AcceptedWithin(t)) <= RequestsPerHour
  BY DEF RequestBudgetRespected, AcceptedWithin
<1> SUFFICES ASSUME NEW t \in Times
    PROVE  Cardinality(AcceptedWithin(t)') <= RequestsPerHour
  BY DEF RequestBudgetRespected, AcceptedWithin
<1>1. CASE accepted' = accepted
  BY <1>0, <1>1 DEF AcceptedWithin
<1>2. CASE Admit
  <2> DEFINE p == svc.packet
             s == svc.started
  <2>1. p \in Packets /\ Reserve(p, s) /\ s \in Times
    BY <1>2, HandlerFields DEF Admit, RecoveryDone, HandlerInv, RecoveryCovers
  <2>2. accepted \in [Packets -> Times \cup {Never}]
    BY DEF HandlerInv, TypeOK, StoreTypeOK
  <2> HIDE DEF p, s
  <2>3. accepted' = [accepted EXCEPT ![p] = IF @ = Never THEN s ELSE @]
    BY <2>1 DEF Reserve
  <2>4. CASE accepted[p] # Never
    <3>1. accepted' = accepted
      BY <2>1, <2>2, <2>3, <2>4
    <3> QED BY <1>1, <3>1
  <2>5. CASE accepted[p] = Never /\ ~ (s > t - Window /\ s <= t)
    <3>1. AcceptedWithin(t)' = AcceptedWithin(t)
      BY <2>1, <2>2, <2>3, <2>5 DEF AcceptedWithin
    <3> QED BY <1>0, <3>1
  <2>6. CASE accepted[p] = Never /\ s > t - Window /\ s <= t
    <3> DEFINE R == RequestsInWindow(s)
    <3>1. s \in Nat /\ t \in Nat /\ Window \in Nat /\ RequestsPerHour \in Nat
      BY <2>1, TimeAssumption, LimitAssumption
    <3>2. AcceptedWithin(t)' \subseteq R \cup {p}
      <4> SUFFICES ASSUME NEW q \in Packets, q # p, accepted'[q] # Never,
                          accepted'[q] > t - Window
          PROVE  q \in R
        BY DEF AcceptedWithin
      <4>1. accepted[q] = accepted'[q] /\ accepted[q] \in Int
        <5>1. accepted'[q] = accepted[q] /\ accepted[q] \in Times \cup {Never}
          BY <2>2, <2>3
        <5> QED BY <5>1, TimesAreNumbers
      <4>2. accepted[q] > s - Window
        BY <2>6, <3>1, <4>1
      <4> QED BY <4>1, <4>2 DEF RequestsInWindow
    <3>3. IsFiniteSet(R) /\ p \notin R
      <4>1. R \subseteq Packets /\ p \notin R
        BY <2>6 DEF RequestsInWindow
      <4> QED BY <4>1, PacketAssumption, FS_Subset
    <3>4. Cardinality(R) < RequestsPerHour
      BY <2>1, <2>6 DEF Reserve, CanReserve, RequestBudgetLeft
    <3> HIDE DEF R
    <3>5. IsFiniteSet(R \cup {p}) /\ Cardinality(R \cup {p}) = Cardinality(R) + 1
      BY <3>3, FS_AddElement
    <3>6. Cardinality(AcceptedWithin(t)') <= Cardinality(R \cup {p})
      BY <3>2, <3>5, FS_Subset
    <3>7. Cardinality(AcceptedWithin(t)') \in Nat /\ Cardinality(R) \in Nat
      BY <3>2, <3>3, <3>5, FS_Subset, FS_CardinalityType
    <3> QED BY <3>1, <3>4, <3>5, <3>6, <3>7
  <2> QED BY <2>4, <2>5, <2>6
<1> QED BY <1>1, <1>2, ClockCases

-----------------------------------------------------------------------------
(* A success was witnessed *)

(* What is true of an accepted packet that waits for its receipt is seen. *)
Watched ==
  \A p \in Packets :
    accepted[p] # Never /\ receipts[p] = "none" => FactsIn(p, gh) \subseteq seen[p]

(* What the handler holds of the packet it observes was so. *)
ViewsBacked ==
  /\ Stage \in {"decide", "settle"} => ViewBacked(svc.packet)
  /\ Stage = "reconcile" => \A e \in svc.target : ViewBacked(effects[e].packet)

Witnessed(p) ==
  /\ {"head", "state"} \subseteq seen[p]
  /\ Request[p].action = "mark_pr_ready" => "both" \in seen[p]

SeenInv == Watched /\ ViewsBacked /\ SuccessWitnessed

LEMMA WatchedFacts ==
  ASSUME HandlerInv, Watched, NEW p \in Packets, accepted[p] # Never, receipts[p] = "none"
  PROVE  LET g == gh[Request[p].pr] IN
         /\ Exact(p, g) => "head" \in seen[p]
         /\ Satisfied(p, g) => "state" \in seen[p]
         /\ Exact(p, g) /\ Satisfied(p, g) => "both" \in seen[p]
<1>1. FactsIn(p, gh) \subseteq seen[p]
  BY DEF Watched
<1> QED BY <1>1 DEF FactsIn, Facts

(* The packet an observation is about waits for its receipt. *)
LEMMA ObservedWaits ==
  ASSUME HandlerInv, svc.pc \in {"threads", "confirm"}
  PROVE  /\ Observed \in Packets /\ accepted[Observed] # Never
         /\ receipts[Observed] = "none"
         /\ svc.use # "reconcile" => Observed = svc.packet
         /\ svc.use = "reconcile" => \A e \in svc.target : Observed = effects[e].packet
<1>1. Stage = svc.use /\ svc.use \in Uses
  BY HandlerFields DEF Stage, HandlerInv
<1>2. CASE svc.use # "reconcile"
  <2>1. Observed = svc.packet /\ Observed \in Packets
    BY <1>2, ObservedInHand
  <2> QED BY <1>1, <1>2, <2>1 DEF HandlerInv, AdmittedInHand, Uses
<1>3. CASE svc.use = "reconcile"
  <2>1. PICK e \in Effects : svc.target = {e} /\ Observed = effects[e].packet
                             /\ effects[e].key # NoKey
    BY <1>3, ObservedInHand
  <2>2. Observed \in Packets /\ receipts[Observed] = "none"
    BY <2>1, OpenAttempt DEF HandlerInv
  <2> QED BY <1>3, <2>1, <2>2 DEF HandlerInv, AdmittedInHand
<1> QED BY <1>2, <1>3

LEMMA SettledWitnessed ==
  ASSUME NEW p, ViewBacked(p), svc.pc \in Uses, svc.view.live, svc.view.exact,
         svc.view.satisfied
  PROVE  Witnessed(p)
BY DEF ViewBacked, Witnessed

(* A handler that has observed nothing. *)
LEMMA NothingObserved ==
  ASSUME (~ svc'.view.live /\ svc'.pc # "confirm") \/ svc'.pc \notin Uses \cup {"confirm"}
  PROVE  ViewsBacked'
<1>1. \A p : ViewBacked(p)'
  BY DEF ViewBacked, Uses
<1> QED BY <1>1 DEF ViewsBacked

(* A step after which every packet that waits already waited. *)
LEMMA WatchedKept ==
  ASSUME Watched, gh' = gh, seen' = seen, accepted' = accepted,
         \A p \in Packets : receipts'[p] = "none" => receipts[p] = "none"
  PROVE  Watched'
BY DEF Watched, FactsIn

LEMMA SuccessKept ==
  ASSUME SuccessWitnessed, seen' = seen,
         \A p \in Packets : receipts'[p] \in SuccessStatuses =>
           receipts[p] \in SuccessStatuses \/ Witnessed(p)
  PROVE  SuccessWitnessed'
BY DEF SuccessWitnessed, Witnessed

(* What the handler sees of a packet that waits is seen at that moment. *)
LEMMA SeenObserve ==
  ASSUME HandlerInv, SeenInv, ObserveThreads \/ ObserveAgain
  PROVE  SeenInv'
<1>0. svc \in Handler /\ svc.pc \in {"threads", "confirm"} /\ Stage = svc.use /\ svc.use \in Uses
  BY HandlerFields DEF HandlerInv, TypeOK, ObserveThreads, ObserveAgain, Stage
<1>1. /\ gh' = gh /\ seen' = seen /\ accepted' = accepted /\ receipts' = receipts
      /\ effects' = effects
  BY DEF ObserveThreads, ObserveAgain, Quiet, storeVars
<1>2. Watched' /\ SuccessWitnessed'
  BY <1>1, WatchedKept, SuccessKept DEF SeenInv
<1>3. PICK p \in Packets :
        /\ p = Observed
        /\ svc.use # "reconcile" => p = svc.packet
        /\ svc.use = "reconcile" => \A e \in svc.target : p = effects[e].packet
  BY <1>0, ObservedWaits
<1> DEFINE g == gh[Request[p].pr]
<1>4. /\ Exact(p, g) => "head" \in seen[p]
      /\ Satisfied(p, g) => "state" \in seen[p]
      /\ Exact(p, g) /\ Satisfied(p, g) => "both" \in seen[p]
  BY <1>0, <1>3, ObservedWaits, WatchedFacts DEF SeenInv
<1>5. ASSUME ViewBacked(p)', svc'.pc \in {"confirm", svc.use}, svc'.use = svc.use,
             svc'.packet = svc.packet, svc'.target = svc.target
      PROVE  ViewsBacked'
  <2>1. Stage' = svc.use
    BY <1>0, <1>5 DEF Stage, Uses
  <2>2. CASE svc.use # "reconcile"
    BY <1>3, <1>5, <2>1, <2>2 DEF ViewsBacked, ViewBacked
  <2>3. CASE svc.use = "reconcile"
    BY <1>1, <1>3, <1>5, <2>1, <2>3 DEF ViewsBacked, ViewBacked
  <2> QED BY <2>2, <2>3
<1>6. CASE ObserveThreads
  <2>1. /\ svc'.pc = "confirm" /\ svc'.use = svc.use /\ svc'.packet = svc.packet
        /\ svc'.target = svc.target /\ svc'.view.satisfied = Satisfied(p, g)
    BY <1>0, <1>3, <1>6 DEF ObserveThreads, Handler, View
  <2>2. ViewBacked(p)'
    BY <1>1, <1>4, <2>1 DEF ViewBacked, Uses
  <2> QED BY <1>2, <1>5, <2>1, <2>2 DEF SeenInv
<1>7. CASE ObserveAgain
  <2>1. /\ svc.pc = "confirm" /\ svc'.pc = svc.use /\ svc'.use = svc.use
        /\ svc'.packet = svc.packet /\ svc'.target = svc.target
        /\ svc'.view.exact = Exact(p, g)
        /\ svc'.view.satisfied = IF Request[p].action = "mark_pr_ready" THEN g.ready
                                 ELSE svc.view.satisfied
    <3> DEFINE s == IF Request[p].action = "mark_pr_ready" THEN g.ready
                    ELSE svc.view.satisfied
    <3>1. PICK ok \in BOOLEAN :
            svc' = [svc EXCEPT !.pc = svc.use, !.identity = {},
                      !.view = [live |-> TRUE, exact |-> Exact(p, g),
                                satisfied |-> s, checks |-> ok]]
      BY <1>3, <1>7 DEF ObserveAgain
    <3>2. svc.pc = "confirm"
      BY <1>7 DEF ObserveAgain
    <3> HIDE DEF s
    <3>3. svc'.view = [live |-> TRUE, exact |-> Exact(p, g), satisfied |-> s, checks |-> ok]
      BY <1>0, <3>1 DEF Handler
    <3>4. svc'.view.exact = Exact(p, g) /\ svc'.view.satisfied = s
      BY <3>3
    <3>5. /\ svc'.pc = svc.use /\ svc'.use = svc.use
          /\ svc'.packet = svc.packet /\ svc'.target = svc.target
      BY <1>0, <3>1 DEF Handler
    <3> QED BY <3>2, <3>4, <3>5 DEF s
  <2>2. CASE Request[p].action = "mark_pr_ready"
    <3>1. svc'.view.satisfied = Satisfied(p, g)
      BY <2>1, <2>2 DEF Satisfied
    <3>2. ViewBacked(p)'
      BY <1>0, <1>1, <1>4, <2>1, <3>1 DEF ViewBacked, Uses
    <3> QED BY <1>2, <1>5, <2>1, <3>2 DEF SeenInv
  <2>3. CASE Request[p].action # "mark_pr_ready"
    <3>1. svc.view.satisfied => "state" \in seen[p]
      <4>1. CASE svc.use # "reconcile"
        BY <1>0, <1>3, <2>1, <4>1 DEF SeenInv, ViewsBacked, ViewBacked, Uses
      <4>2. CASE svc.use = "reconcile"
        <5>1. PICK e \in svc.target : p = effects[e].packet
          BY <1>0, <1>3, <4>2 DEF HandlerInv, HandlerOwnsAttempt
        <5> QED BY <1>0, <2>1, <4>2, <5>1 DEF SeenInv, ViewsBacked, ViewBacked
      <4> QED BY <4>1, <4>2
    <3>2. svc'.view.satisfied = svc.view.satisfied
      BY <2>1, <2>3
    <3>3. ViewBacked(p)'
      BY <1>0, <1>1, <1>4, <2>1, <2>3, <3>1, <3>2 DEF ViewBacked, Uses
    <3> QED BY <1>2, <1>5, <2>1, <3>3 DEF SeenInv
  <2> QED BY <2>2, <2>3
<1> QED BY <1>6, <1>7

(* The handler moves on without a receipt and without a view. *)
LEMMA SeenMoves ==
  ASSUME HandlerInv, SeenInv, gh' = gh, seen' = seen, accepted' = accepted,
         receipts' = receipts,
         (~ svc'.view.live /\ svc'.pc # "confirm") \/ svc'.pc \notin Uses \cup {"confirm"}
  PROVE  SeenInv'
BY WatchedKept, SuccessKept, NothingObserved DEF SeenInv

LEMMA SeenQuiet ==
  ASSUME HandlerInv, SeenInv,
         \/ ObserveFail \/ RecoverFetch \/ ReturnRecovered \/ RefuseAdmission
         \/ FetchLive \/ ChargeAttempt \/ FailMutation \/ Send \/ MutationAnswered
         \/ MutationIndeterminate \/ Crash \/ \E p \in Packets : Receive(p)
  PROVE  SeenInv'
<1>0. svc \in Handler /\ svc.use \in Uses
  BY HandlerFields DEF HandlerInv, TypeOK
<1>1. gh' = gh /\ seen' = seen
  BY DEF ObserveFail, RecoverFetch, ReturnRecovered, RefuseAdmission, FetchLive,
         ChargeAttempt, FailMutation, Send, MutationAnswered, MutationIndeterminate, Crash,
         Receive, Quiet
<1>2. accepted' = accepted /\ receipts' = receipts
  BY DEF ObserveFail, RecoverFetch, ReturnRecovered, RefuseAdmission, FetchLive,
         ChargeAttempt, FailMutation, Send, MutationAnswered, MutationIndeterminate, Crash,
         Receive, storeVars, BeginMutation
<1>3. CASE ObserveFail \/ MutationIndeterminate
  <2>1. ~ svc'.view.live /\ svc'.pc # "confirm"
    <3>1. svc'.view = NoView /\ svc'.pc \in Uses
      BY <1>0, <1>3 DEF ObserveFail, MutationIndeterminate, Handler, Uses
    <3>2. ~ NoView.live
      BY DEF NoView
    <3> QED BY <3>1, <3>2 DEF Uses
  <2> QED BY <1>1, <1>2, <2>1, SeenMoves
<1>4. CASE RecoverFetch \/ FetchLive \/ MutationAnswered
  <2>1. svc'.pc = "threads"
    BY <1>0, <1>4 DEF RecoverFetch, FetchLive, MutationAnswered, Observing, Handler
  <2> QED BY <1>1, <1>2, <2>1, SeenMoves DEF Uses
<1>5. CASE \/ ReturnRecovered \/ RefuseAdmission \/ FailMutation \/ Crash
           \/ ChargeAttempt \/ Send \/ \E p \in Packets : Receive(p)
  <2>1. svc'.pc \in {"idle", "send", "await", "recover"}
    <3>1. CASE ReturnRecovered \/ RefuseAdmission \/ FailMutation \/ Crash
      BY <3>1 DEF ReturnRecovered, RefuseAdmission, FailMutation, Crash, Idle
    <3>2. CASE ChargeAttempt \/ Send
      BY <1>0, <3>2 DEF ChargeAttempt, Send, Goto, Handler
    <3>3. CASE \E p \in Packets : Receive(p)
      BY <3>3 DEF Receive, Idle
    <3> QED BY <1>5, <3>1, <3>2, <3>3
  <2> QED BY <1>1, <1>2, <2>1, SeenMoves DEF Uses
<1> QED BY <1>3, <1>4, <1>5

(* A packet admitted again is watched anew. *)
LEMMA SeenAdmit ==
  ASSUME HandlerInv, SeenInv, Admit
  PROVE  SeenInv'
<1>0. svc \in Handler /\ svc.packet \in Packets
  BY DEF HandlerInv, TypeOK, Admit, RecoveryDone, RecoveryCovers
<1>1. /\ gh' = gh /\ receipts' = receipts /\ receipts[svc.packet] = "none"
      /\ seen' = [seen EXCEPT ![svc.packet] = FactsIn(svc.packet, gh)]
      /\ \A p \in Packets : p # svc.packet => accepted'[p] = accepted[p]
  BY DEF Admit, Reserve, HandlerInv, TypeOK, StoreTypeOK
<1>2. \A p \in Packets : seen'[p] = IF p = svc.packet THEN FactsIn(p, gh) ELSE seen[p]
  BY <1>1 DEF HandlerInv, TypeOK
<1>3. Watched'
  <2> SUFFICES ASSUME NEW p \in Packets, accepted'[p] # Never, receipts'[p] = "none"
      PROVE  FactsIn(p, gh') \subseteq seen'[p]
    BY DEF Watched
  <2>1. CASE p = svc.packet
    BY <1>1, <1>2, <2>1
  <2>2. CASE p # svc.packet
    BY <1>1, <1>2, <2>2 DEF SeenInv, Watched
  <2> QED BY <2>1, <2>2
<1>4. SuccessWitnessed'
  <2>1. "none" \notin SuccessStatuses
    BY DEF SuccessStatuses
  <2> QED BY <1>0, <1>1, <1>2, <2>1 DEF SeenInv, SuccessWitnessed
<1>5. svc'.pc = "fetch"
  BY <1>0 DEF Admit, Goto, Handler
<1> QED BY <1>3, <1>4, <1>5, NothingObserved DEF SeenInv, Uses

(* One packet gets its receipt. *)
LEMMA SeenAnswered ==
  ASSUME HandlerInv, SeenInv, Quiet, accepted' = accepted, svc'.pc \in {"idle", "recover"},
         NEW p \in Packets, NEW s, s \in SuccessStatuses => Witnessed(p), s # "none",
         receipts' = [receipts EXCEPT ![p] = s]
  PROVE  SeenInv'
<1>1. gh' = gh /\ seen' = seen
  BY DEF Quiet
<1>2. \A q \in Packets : receipts'[q] = IF q = p THEN s ELSE receipts[q]
  BY DEF HandlerInv, TypeOK, StoreTypeOK
<1>3. Watched' /\ SuccessWitnessed'
  BY <1>1, <1>2, WatchedKept, SuccessKept DEF SeenInv
<1> QED BY <1>3, NothingObserved DEF SeenInv, Uses

LEMMA SeenReject ==
  ASSUME HandlerInv, SeenInv,
         \/ RejectIndeterminate \/ RejectPrecondition \/ AlreadySatisfied
         \/ RejectLimit \/ RejectPending
  PROVE  SeenInv'
<1>0. svc.packet \in Packets
  BY DEF HandlerInv, RecoveryCovers, RejectIndeterminate, RejectPrecondition,
         AlreadySatisfied, RejectLimit, RejectPending, ReadyToMutate
<1>1. PICK s \in PacketStatuses, b \in BOOLEAN :
        Answer(svc.packet, s, b) /\ (s = "already_satisfied" => AlreadySatisfied)
  BY DEF RejectIndeterminate, RejectPrecondition, AlreadySatisfied, RejectLimit,
         RejectPending, PacketStatuses
<1>2. s \in SuccessStatuses => Witnessed(svc.packet)
  <2> SUFFICES ASSUME AlreadySatisfied PROVE Witnessed(svc.packet)
    BY <1>1 DEF SuccessStatuses, PacketStatuses
  <2>1. /\ svc.pc = "decide" /\ svc.view.live /\ svc.view.exact /\ svc.view.satisfied
    BY DEF AlreadySatisfied, EvaluateOk
  <2>2. ViewBacked(svc.packet)
    BY <2>1 DEF SeenInv, ViewsBacked, Stage
  <2> QED BY <2>1, <2>2, SettledWitnessed DEF Uses
<1>3. svc'.pc = "idle" /\ Quiet
  BY <1>1 DEF Answer, Idle
<1>4. CASE RecordPacketReceipt(svc.packet, s, b)
  <2>1. accepted' = accepted /\ receipts' = [receipts EXCEPT ![svc.packet] = s]
    BY <1>4 DEF RecordPacketReceipt
  <2>2. s # "none"
    BY <1>1 DEF PacketStatuses
  <2> QED BY <1>0, <1>2, <1>3, <2>1, <2>2, SeenAnswered
<1>5. CASE UNCHANGED storeVars
  BY <1>3, <1>5, SeenMoves DEF storeVars, Quiet, Uses
<1> QED BY <1>1, <1>4, <1>5 DEF Answer

LEMMA SeenSettle ==
  ASSUME HandlerInv, SeenInv, Settle
  PROVE  SeenInv'
<1>0. svc.pc = "settle" /\ svc.packet \in Packets /\ Quiet /\ svc'.pc = "idle"
  BY DEF HandlerInv, RecoveryCovers, Settle, Idle
<1> DEFINE s == SettleStatus(svc.view)
<1>1. accepted' = accepted /\ receipts' = [receipts EXCEPT ![svc.packet] = s]
  BY DEF Settle, Terminalize
<1>2. s \in SuccessStatuses => Witnessed(svc.packet)
  <2> SUFFICES ASSUME ReadbackOk(svc.view) PROVE Witnessed(svc.packet)
    BY DEF SettleStatus, SuccessStatuses
  <2>1. svc.view.live /\ svc.view.exact /\ svc.view.satisfied
    BY DEF ReadbackOk, DesiredObserved
  <2>2. ViewBacked(svc.packet)
    BY <1>0 DEF SeenInv, ViewsBacked, Stage
  <2> QED BY <1>0, <2>1, <2>2, SettledWitnessed DEF Uses
<1>3. s # "none"
  BY DEF SettleStatus
<1> HIDE DEF s
<1> QED BY <1>0, <1>1, <1>2, <1>3, SeenAnswered

LEMMA SeenRecover ==
  ASSUME HandlerInv, SeenInv, RecoverSettle
  PROVE  SeenInv'
<1>0. svc \in Handler /\ svc.pc = "reconcile" /\ Stage = "reconcile" /\ Quiet
  BY DEF HandlerInv, TypeOK, RecoverSettle, Stage
<1>1. svc'.pc = "recover"
  BY <1>0 DEF RecoverSettle, Handler
<1>2. PICK e \in svc.target :
        LET q == effects[e].packet
            k == effects[e].key
        IN \/ Confirmed(svc.view) /\ Terminalize(q, k, "reconciled")
           \/ Terminalize(q, k, "indeterminate")
           \/ ReconcileAbsent(q, k)
           \/ UNCHANGED storeVars
  BY DEF RecoverSettle
<1>3. e \in Effects /\ effects[e].packet \in Packets
  BY <1>0, HandlerFields, OpenAttempt DEF HandlerInv, HandlerOwnsAttempt
<1> DEFINE q == effects[e].packet
<1>4. CASE Confirmed(svc.view) /\ Terminalize(q, effects[e].key, "reconciled")
  <2>1. svc.view.live /\ svc.view.exact /\ svc.view.satisfied
    BY <1>4 DEF Confirmed, DesiredObserved
  <2>2. Witnessed(q)
    BY <1>0, <2>1, SettledWitnessed DEF SeenInv, ViewsBacked, Uses
  <2>3. accepted' = accepted /\ receipts' = [receipts EXCEPT ![q] = "reconciled"]
    BY <1>4 DEF Terminalize
  <2> QED BY <1>0, <1>1, <1>3, <2>2, <2>3, SeenAnswered
<1>5. CASE Terminalize(q, effects[e].key, "indeterminate")
  <2>1. accepted' = accepted /\ receipts' = [receipts EXCEPT ![q] = "indeterminate"]
    BY <1>5 DEF Terminalize
  <2>2. "indeterminate" \notin SuccessStatuses
    BY DEF SuccessStatuses
  <2> QED BY <1>0, <1>1, <1>3, <2>1, <2>2, SeenAnswered
<1>6. CASE ReconcileAbsent(q, effects[e].key) \/ UNCHANGED storeVars
  BY <1>0, <1>1, <1>6, SeenMoves DEF ReconcileAbsent, storeVars, Quiet, Uses
<1> QED BY <1>2, <1>4, <1>5, <1>6

(* GitHub moves, and every waiting packet has seen where it moved. *)
LEMMA SeenWorld ==
  ASSUME HandlerInv, SeenInv, World \/ Operator \/ UNCHANGED vars
  PROVE  SeenInv'
<1>0. svc \in Handler /\ seen \in [Packets -> SUBSET Facts]
  BY DEF HandlerInv, TypeOK
<1>1. accepted' = accepted /\ receipts' = receipts /\ effects' = effects
  BY DEF World, Edit, GitHubApply, GitHubDrop, Tick, Operator, CloseCircuit, vars, storeVars
<1>2. (gh' = gh /\ seen' = seen) \/ Witness(gh')
  BY DEF World, Edit, GitHubApply, GitHubDrop, Tick, Operator, Quiet, vars
<1>3. \A p \in Packets : seen[p] \subseteq seen'[p]
  BY <1>0, <1>2 DEF Witness
<1>4. Watched'
  <2>1. CASE gh' = gh /\ seen' = seen
    BY <1>1, <2>1, WatchedKept DEF SeenInv
  <2>2. CASE Witness(gh')
    BY <1>1, <2>2 DEF Witness, Watched, FactsIn
  <2> QED BY <1>2, <2>1, <2>2
<1>5. SuccessWitnessed'
  BY <1>1, <1>3 DEF SeenInv, SuccessWitnessed
<1>6. svc' = svc \/ (svc.pc = "await" /\ svc'.pc = "await")
  <2>1. ASSUME NEW c \in calls, GitHubApply(c)
        PROVE  svc' = svc \/ (svc.pc = "await" /\ svc'.pc = "await")
    <3>1. PICK v : svc' = IF Awaiting(c) THEN [svc EXCEPT !.view = v] ELSE svc
      BY <2>1 DEF GitHubApply
    <3> QED BY <1>0, <3>1 DEF Awaiting, Handler
  <2>2. ASSUME NEW c \in calls, GitHubDrop(c)
        PROVE  svc' = svc
    BY <2>2 DEF GitHubDrop
  <2>3. CASE Edit \/ Tick \/ Operator \/ UNCHANGED vars
    BY <2>3 DEF Edit, Tick, Operator, vars
  <2> QED BY <2>1, <2>2, <2>3 DEF World
<1>7. CASE svc.pc = "await" /\ svc'.pc = "await"
  BY <1>4, <1>5, <1>7, NothingObserved DEF SeenInv, Uses
<1>8. CASE svc' = svc
  <2>1. ASSUME NEW p \in Packets, ViewBacked(p)
        PROVE  ViewBacked(p)'
    BY <1>3, <1>8, <2>1 DEF ViewBacked
  <2>2. Stage \in {"decide", "settle"} => svc.packet \in Packets
    BY DEF HandlerInv, RecoveryCovers, Stage
  <2>3. Stage = "reconcile" => \A e \in svc.target : effects[e].packet \in Packets
    BY HandlerFields, OpenAttempt DEF HandlerInv, HandlerOwnsAttempt
  <2>4. Stage' = Stage
    BY <1>8 DEF Stage
  <2>5. ViewsBacked'
    <3>1. ASSUME Stage \in {"decide", "settle"} PROVE ViewBacked(svc.packet)'
      <4>1. PICK p \in Packets : p = svc.packet
        BY <2>2, <3>1
      <4>2. ViewBacked(p)'
        BY <2>1, <3>1, <4>1 DEF SeenInv, ViewsBacked
      <4> QED BY <1>8, <4>1, <4>2 DEF ViewBacked
    <3>2. ASSUME Stage = "reconcile", NEW e \in svc.target PROVE ViewBacked(effects[e].packet)'
      <4>1. PICK p \in Packets : p = effects[e].packet
        BY <2>3, <3>2
      <4>2. ViewBacked(p)'
        BY <2>1, <3>2, <4>1 DEF SeenInv, ViewsBacked
      <4> QED BY <1>1, <4>1, <4>2 DEF ViewBacked
    <3> QED BY <1>8, <2>4, <3>1, <3>2 DEF ViewsBacked
  <2> QED BY <1>4, <1>5, <2>5 DEF SeenInv
<1> QED BY <1>6, <1>7, <1>8

LEMMA SeenStep ==
  ASSUME HandlerInv, SeenInv, [Next]_vars
  PROVE  SeenInv'
<1>1. CASE World \/ Operator \/ UNCHANGED vars
  BY <1>1, SeenWorld
<1>2. CASE Next /\ ~ World /\ ~ Operator
  BY <1>2, SeenObserve, SeenQuiet, SeenAdmit, SeenReject, SeenSettle, SeenRecover
  DEF Next, Handle
<1> QED BY <1>1, <1>2

LEMMA SeenStart ==
  ASSUME Init
  PROVE  SeenInv
<1>1. \A p \in Packets : accepted[p] = Never /\ receipts[p] = "none"
  BY DEF Init, StoreInit
<1>2. svc.pc = "idle" /\ Stage = "idle"
  BY DEF Init, Idle, Stage
<1> QED BY <1>1, <1>2
    DEF SeenInv, Watched, ViewsBacked, SuccessWitnessed, SuccessStatuses

(* SuccessWitnessed for every instance: although a mutation names no head,    *)
(* GitHub may apply it late and a snapshot takes several calls, a success     *)
(* receipt means that since its packet was last admitted the pull request was *)
(* open on the packet's head and was in the requested state, for              *)
(* mark_pr_ready at one moment (fetch_snapshot, evaluate_snapshot, readback   *)
(* and recovery).                                                             *)
THEOREM SuccessIsWitnessed == Spec => []SuccessWitnessed
<1>1. Spec => []SeenInv
  BY SeenStart, SeenStep, HandlerInvariant, PTL DEF Spec
<1>2. SeenInv => SuccessWitnessed
  BY DEF SeenInv
<1> QED BY <1>1, <1>2, PTL

(* HandlersSafe for every instance: each open attempt has one handler that    *)
(* answers for it, recovery covers what a dead handler left, and no window    *)
(* holds more requests than the budget, although it is read when a request    *)
(* starts (handle, recover_pending, reserve).                                 *)
THEOREM HandlersAreSafe == Spec => []HandlersSafe
<1> DEFINE Inv == SeenInv /\ SendOwed /\ StartedInOrder /\ RequestBudgetRespected
<1>1. Init => Inv
  <2> SUFFICES ASSUME Init PROVE Inv
    OBVIOUS
  <2>1. svc.pc = "idle" /\ now = 0 /\ \A e \in Effects : sent[e] = 0 /\ effects[e].attempts = 0
    BY DEF Init, Idle, StoreInit, NoRow
  <2>2. \A p \in Packets : accepted[p] = Never
    BY DEF Init, StoreInit
  <2>3. RequestBudgetRespected
    <3>1. \A t \in Times : AcceptedWithin(t) = {}
      BY <2>2 DEF AcceptedWithin
    <3>2. Cardinality({}) = 0 /\ RequestsPerHour \in Nat
      BY FS_EmptySet, LimitAssumption
    <3> QED BY <3>1, <3>2 DEF RequestBudgetRespected, AcceptedWithin
  <2>4. SendOwed /\ StartedInOrder
    BY <2>1, <2>2 DEF SendOwed, StartedInOrder, Never
  <2> QED BY <2>3, <2>4, SeenStart
<1>2. HandlerInv /\ Inv /\ [Next]_vars => Inv'
  BY SeenStep, OwedStep, StartedStep, BudgetStep
<1>3. HandlerInv /\ Inv => HandlersSafe
  BY DEF HandlerInv, HandlersSafe, SeenInv, SeenBacked, Watched, ViewsBacked
<1> QED BY <1>1, <1>2, <1>3, HandlerInvariant, PTL DEF Spec
=============================================================================

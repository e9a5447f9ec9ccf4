---------------------------- MODULE ProtectedEffect ----------------------------
(***************************************************************************)
(* What the protected-action broker promises about an effect on GitHub,    *)
(* without budgets, circuits, clocks or keys: an effect is attempted at    *)
(* most twice, by one packet at a time, the second time only after the     *)
(* first was found to have done nothing; it gets one verdict, which every  *)
(* answer agrees with; a packet gets one answer, and never while it owns   *)
(* an attempt whose fate is open.                                          *)
(***************************************************************************)
EXTENDS Naturals

CONSTANTS Packets, NoPacket, Effects, EffectOf

VARIABLES
  tries,     \* attempts made on each effect
  owner,     \* the packet whose attempt on the effect is open
  verdict,   \* what is known of each effect
  answer     \* what each packet was told

promiseVars == <<tries, owner, verdict, answer>>

PromiseInit ==
  /\ tries = [e \in Effects |-> 0]
  /\ owner = [e \in Effects |-> NoPacket]
  /\ verdict = [e \in Effects |-> "open"]
  /\ answer = [p \in Packets |-> "none"]

Attempt(p) ==
  LET e == EffectOf[p] IN
  /\ answer[p] = "none"
  /\ verdict[e] = "open"
  /\ owner[e] = NoPacket
  /\ tries[e] < 2
  /\ owner' = [owner EXCEPT ![e] = p]
  /\ tries' = [tries EXCEPT ![e] = tries[e] + 1]
  /\ UNCHANGED <<verdict, answer>>

\* The only attempt so far did nothing: the effect is open again.
FoundAbsent(e) ==
  /\ owner[e] # NoPacket
  /\ tries[e] = 1
  /\ owner' = [owner EXCEPT ![e] = NoPacket]
  /\ UNCHANGED <<tries, verdict, answer>>

\* The attempt is decided, and its owner is told.
Conclude(p, v) ==
  LET e == EffectOf[p] IN
  /\ owner[e] = p
  /\ verdict[e] = "open"
  /\ answer[p] = "none"
  /\ owner' = [owner EXCEPT ![e] = NoPacket]
  /\ verdict' = [verdict EXCEPT ![e] = v]
  /\ answer' = [answer EXCEPT ![p] = v]
  /\ UNCHANGED tries

\* The effect is there without an attempt of this packet.
Confirm(p) ==
  LET e == EffectOf[p] IN
  /\ answer[p] = "none"
  /\ owner[e] = NoPacket
  /\ verdict[e] # "unknown"
  /\ verdict' = [verdict EXCEPT ![e] = "done"]
  /\ answer' = [answer EXCEPT ![p] = "done"]
  /\ UNCHANGED <<tries, owner>>

Refuse(p) ==
  /\ answer[p] = "none"
  /\ owner[EffectOf[p]] # p
  /\ answer' = [answer EXCEPT ![p] = "refused"]
  /\ UNCHANGED <<tries, owner, verdict>>

PromiseNext ==
  \/ \E p \in Packets :
       \/ Attempt(p) \/ Confirm(p) \/ Refuse(p)
       \/ \E v \in {"done", "unknown"} : Conclude(p, v)
  \/ \E e \in Effects : FoundAbsent(e)

PromiseSpec == PromiseInit /\ [][PromiseNext]_promiseVars
=============================================================================

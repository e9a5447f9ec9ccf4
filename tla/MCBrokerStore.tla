---------------------------- MODULE MCBrokerStore ----------------------------
(***************************************************************************)
(* The store on its own, called by anyone in any order. p1 and p2 ask for  *)
(* one review thread on two heads (a single effect, see EffectKey), p3     *)
(* marks the pull request ready.                                           *)
(***************************************************************************)
EXTENDS BrokerStore, TLC

CONSTANTS p1, p2, p3, pr1, h1, h2, t1

MCRequest ==
  LET Ask(a, h, x) == [action |-> a, pr |-> pr1, head |-> h, thread |-> t1,
                       expires |-> x]
  IN  (p1 :> Ask("resolve_review_thread", h1, 1)) @@
      (p2 :> Ask("resolve_review_thread", h2, 2)) @@
      (p3 :> Ask("mark_pr_ready", h1, 2))

MCActionDailyLimit ==
  [a \in Actions |-> IF a = "mark_pr_ready" THEN 1 ELSE 2]

\* Bounds: two clock readings on two days, two attempt keys.
MCTimes == 0 .. 1
MCKeys == 1 .. 2
=============================================================================

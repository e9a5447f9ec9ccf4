-------------------------- MODULE MCProtectedBroker --------------------------
(***************************************************************************)
(* The whole broker with one pull request, two heads and one review        *)
(* thread. p1 and p2 ask to resolve the thread on two heads, p3 marks the  *)
(* pull request ready.                                                     *)
(***************************************************************************)
EXTENDS ProtectedBroker, TLC

CONSTANTS p1, p2, p3, pr1, h1, h2, t1

MCRequest ==
  LET Ask(a, h, x) == [action |-> a, pr |-> pr1, head |-> h, thread |-> t1,
                       expires |-> x]
  IN  (p1 :> Ask("resolve_review_thread", h1, 1)) @@
      (p2 :> Ask("resolve_review_thread", h2, 2)) @@
      (p3 :> Ask("mark_pr_ready", h1, 1))

\* The same requests when the run has fewer packets.
MCRequestOf == [p \in Packets |-> MCRequest[p]]

MCActionDailyLimit ==
  [a \in Actions |-> IF a = "mark_pr_ready" THEN 1 ELSE 2]

\* Bounds: the clock, and one new key for each of the two attempts.
MCTimes == 0 .. 2
MCKeys == 1 .. 2
=============================================================================

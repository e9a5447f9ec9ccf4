---------------------------- MODULE MCReleaseStore ----------------------------
(***************************************************************************)
(* The release store called by anyone in any order, on one repository. p1  *)
(* asks for two merges, p2 for one more; p3 asks for another bundle under  *)
(* the owner assertion of p1.                                              *)
(***************************************************************************)
EXTENDS ReleaseStore, TLC

CONSTANTS p1, p2, p3, r1, b1, b2, b3, o1, o2, c1, c2

Ask(b, o, n, x) == [bundle |-> b, assertion |-> o, repo |-> r1, base |-> c1,
                    size |-> n, expires |-> x, window |-> 2, consent |-> 2]

MCOrder == (p1 :> Ask(b1, o1, 2, 1)) @@ (p2 :> Ask(b2, o2, 1, 2)) @@
           (p3 :> Ask(b3, o1, 1, 1))

\* Bounds: two clock readings on two days.
MCTimes == 0 .. 1
=============================================================================

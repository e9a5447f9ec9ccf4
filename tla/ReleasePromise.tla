----------------------------- MODULE ReleasePromise -----------------------------
(***************************************************************************)
(* What the protected release broker promises about a bundle of merges,    *)
(* without budgets, circuits, clocks or receipts: a repository works on    *)
(* one bundle at a time; the merges of a bundle are made in order, one     *)
(* under way at a time, each on top of all those before it; and what the   *)
(* bundle is reported to be agrees for ever with what was merged.          *)
(***************************************************************************)
EXTENDS Naturals

CONSTANTS Packets, Size, RepoOf

VARIABLES
  phase,      \* "new", "active", or what was reported
  merged,     \* the positions of the bundle that are merged
  flying      \* the position under way, if any, as a set

promiseVars == <<phase, merged, flying>>

Reports == {"succeeded", "rejected", "partial", "indeterminate"}

PromiseInit ==
  /\ phase = [p \in Packets |-> "new"]
  /\ merged = [p \in Packets |-> {}]
  /\ flying = [p \in Packets |-> {}]

Admit(p) ==
  /\ phase[p] = "new"
  /\ \A q \in Packets : RepoOf[q] = RepoOf[p] => phase[q] # "active"
  /\ phase' = [phase EXCEPT ![p] = "active"]
  /\ UNCHANGED <<merged, flying>>

Attempt(p, i) ==
  /\ phase[p] = "active"
  /\ flying[p] = {}
  /\ i \notin merged[p]
  /\ \A j \in 1 .. i - 1 : j \in merged[p]
  /\ flying' = [flying EXCEPT ![p] = {i}]
  /\ UNCHANGED <<phase, merged>>

Land(p) ==
  /\ flying[p] # {}
  /\ merged' = [merged EXCEPT ![p] = merged[p] \cup flying[p]]
  /\ flying' = [flying EXCEPT ![p] = {}]
  /\ UNCHANGED phase

\* The attempt did nothing, or nobody can tell what it did.
GiveUp(p) ==
  /\ flying[p] # {}
  /\ flying' = [flying EXCEPT ![p] = {}]
  /\ UNCHANGED <<phase, merged>>

Report(p, what) ==
  /\ phase[p] = "active"
  /\ flying[p] = {}
  /\ what = "succeeded" => merged[p] = 1 .. Size[p]
  /\ what = "rejected" => merged[p] = {}
  /\ what = "partial" => merged[p] # {}
  /\ phase' = [phase EXCEPT ![p] = what]
  /\ UNCHANGED <<merged, flying>>

PromiseNext ==
  \E p \in Packets :
    \/ Admit(p) \/ Land(p) \/ GiveUp(p)
    \/ \E i \in 1 .. Size[p] : Attempt(p, i)
    \/ \E what \in Reports : Report(p, what)

PromiseSpec == PromiseInit /\ [][PromiseNext]_promiseVars
=============================================================================

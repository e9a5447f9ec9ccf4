---------------------------- MODULE CaptureAdoption ----------------------------
(***************************************************************************)
(* Adopting what a capture child left in its staging directory             *)
(* (capture_adoption.py): the coordinator holds on to the object, reaps    *)
(* the child and its process group, takes the namespace and then the tree  *)
(* from the child's user, and renames it to where the verifier reads it.   *)
(* The lease it gets removes the object, or leaves it to recovery. Every   *)
(* call to the kernel is a step: it may fail, the coordinator may be       *)
(* killed before it, and power may be lost.                                *)
(***************************************************************************)
EXTENDS Integers, Sequences, FiniteSets, SequencesExt

CONSTANTS
  Files,                             \* how many files the capture has
  Contents,                          \* what a file may hold
  MaxWrites, MaxMischief, MaxTrouble \* bounds

VARIABLES
  child,      \* the capture child: running, zombie or reaped
  status,     \* what it exited with
  group,      \* another process of its group lives
  attr,       \* owner, mode and existence of the tree's directory (0) and files
  content,    \* of the files
  place,      \* where the capture is named: staging, final or gone
  rebound,    \* its staging name was given to something else
  stray,      \* staging has another entry
  odd,        \* the tree has a link, an attribute or a type no inventory takes
  taken,      \* something else has the final name
  parent,     \* owner and mode of the staging directory
  disk,       \* what of attr, content, place and parent survives a power loss
  co,         \* the coordinator
  lease,      \* the adopted capture's lease
  trouble     \* failures so far

childVars == <<child, status, group>>
treeVars == <<attr, content, place, rebound, stray, odd, taken, parent>>
adoptionVars == <<childVars, treeVars, disk, co, lease, trouble>>

AdoptionConstants ==
  /\ Files \in Nat \ {0}
  /\ {MaxWrites, MaxMischief, MaxTrouble} \subseteq Nat

-----------------------------------------------------------------------------
(* The tree *)

Tree == 0 .. Files

\* The modes of a capture: the child builds it, seals it, the root adopts it.
Modes == {"zero", "building", "provisional", "adopted"}
Entry == [owner : {"capture", "root"}, mode : Modes, there : BOOLEAN]

Sealed == [owner |-> "capture", mode |-> "provisional", there |-> TRUE]
Adopted == [owner |-> "root", mode |-> "adopted", there |-> TRUE]

\* _inventory, _inventory_tree: every entry is as expected, and nothing else.
InventoryOf(expected) == ~odd /\ \A i \in Tree : attr[i] = expected

\* _bound_name_matches: the name in its parent is the object the descriptor holds.
BoundIn(p) == place = p /\ (p = "staging" => ~rebound)

\* _allowed_recovery_identity: an interrupted adoption left the entry so.
AllowedIdentity(e) ==
  /\ e.owner \in {"capture", "root"}
  /\ e.mode \in {"zero", "provisional", "building", "adopted"}

Now == [attr |-> attr, content |-> content, place |-> place, parent |-> parent]

-----------------------------------------------------------------------------
(* What the coordinator runs *)

\* _adopt_impl from the revocation on. <<step, entry>>.
Program ==
  <<<<"revoke zero", 0>>, <<"revoke own", 0>>, <<"revoke mode", 0>>, <<"sync staging", 0>>,
    <<"bind", 0>>, <<"validate", 0>>>>
  \o FlattenSeq([n \in 1 .. Files + 1 |->
       LET i == IF n = Files + 1 THEN 0 ELSE n IN
       <<<<"zero", i>>, <<"own", i>>, <<"adopt", i>>, <<"sync", i>>>>])
  \o <<<<"compare", 0>>, <<"unseal", 0>>, <<"sync", 0>>, <<"rename", 0>>, <<"adopt", 0>>,
       <<"sync", 0>>, <<"sync staging", 0>>, <<"sync final", 0>>, <<"receipt", 0>>>>

\* _unlink_bound_tree and the fsync of the parent after it.
Removal ==
  <<<<"named", 0>>, <<"unseal", 0>>>>
  \o [i \in 1 .. Files |-> <<"unlink", i>>]
  \o <<<<"sync", 0>>, <<"rmdir", 0>>, <<"sync parent", 0>>>>

NoReceipt == <<>>
LeaseStates == {"none", "bound", "bound_retry", "parent_fsync_retry", "recovery_detached", "closed"}

AdoptionTypeOK ==
  /\ child \in {"running", "zombie", "reaped"} /\ status \in {0, 1} /\ group \in BOOLEAN
  /\ attr \in [Tree -> Entry] /\ content \in [1 .. Files -> Contents]
  /\ place \in {"staging", "final", "gone"}
  /\ {rebound, stray, odd, taken} \subseteq BOOLEAN
  /\ parent \in [owner : {"capture", "root"}, mode : {"open", "zero", "revoked"}]
  /\ co.pc \in {"launched", "retained", "observed", "killed", "adopting", "failing", "leased",
                "refused", "failed", "unclean", "dead"}
  /\ lease.state \in LeaseStates

AdoptionInit ==
  /\ child = "running" /\ status = 0 /\ group \in BOOLEAN
  /\ attr = [i \in Tree |-> [owner |-> "capture", mode |-> "building", there |-> TRUE]]
  /\ content \in [1 .. Files -> Contents]
  /\ place = "staging" /\ rebound = FALSE /\ stray = FALSE /\ odd = FALSE /\ taken \in BOOLEAN
  /\ parent = [owner |-> "capture", mode |-> "open"]
  /\ disk = Now
  /\ co = [pc |-> "launched", at |-> 1, bound |-> FALSE, killed |-> TRUE, writes |-> 0]
  /\ lease = [state |-> "none", receipt |-> NoReceipt, at |-> 1]
  /\ trouble = 0

Go(pc) == co' = [co EXCEPT !.pc = pc, !.at = 1]
Trouble == trouble < MaxTrouble /\ trouble' = trouble + 1

-----------------------------------------------------------------------------
(* The child *)

Writers == child = "running" \/ group

\* Whoever has a file open writes to it.
ChildWrite(i, v) ==
  /\ Writers /\ co.writes < MaxWrites /\ content[i] # v
  /\ content' = [content EXCEPT ![i] = v]
  /\ co' = [co EXCEPT !.writes = @ + 1]
  /\ UNCHANGED <<childVars, attr, place, rebound, stray, odd, taken, parent, disk, lease, trouble>>

\* A child seals its capture before it says it is ready.
ChildSeal ==
  /\ child = "running" /\ \A i \in Tree : attr[i].mode = "building"
  /\ attr' = [i \in Tree |-> Sealed]
  /\ UNCHANGED <<childVars, content, place, rebound, stray, odd, taken, parent, disk, co, lease, trouble>>

\* A child that is not done with its namespace: it opens a file again, moves the
\* capture away, adds an entry or something an inventory cannot take.
Meddled == Cardinality({x \in {"rebound", "stray", "odd", "unsealed"} :
  CASE x = "rebound" -> rebound [] x = "stray" -> stray [] x = "odd" -> odd
    [] OTHER -> \E i \in Tree : attr[i].owner = "capture" /\ attr[i].mode = "building"})

ChildMeddle ==
  /\ Writers /\ Meddled < MaxMischief
  /\ \/ /\ parent.owner = "capture" /\ ~rebound /\ rebound' = TRUE
        /\ UNCHANGED <<attr, stray, odd>>
     \/ /\ parent.owner = "capture" /\ ~stray /\ stray' = TRUE
        /\ UNCHANGED <<attr, rebound, odd>>
     \/ /\ attr[0].owner = "capture" /\ ~odd /\ odd' = TRUE
        /\ UNCHANGED <<attr, rebound, stray>>
     \/ \E i \in Tree :
          /\ attr[i] = Sealed
          /\ attr' = [attr EXCEPT ![i].mode = "building"]
          /\ UNCHANGED <<rebound, stray, odd>>
  /\ UNCHANGED <<childVars, content, place, taken, parent, disk, co, lease, trouble>>

ChildExit ==
  /\ child = "running" /\ child' = "zombie" /\ status' \in {0, 1}
  /\ UNCHANGED <<group, treeVars, disk, co, lease, trouble>>

-----------------------------------------------------------------------------
(* Holding on to the object and reaping the child *)

\* retain_provisional_capture: after READY, before the child can be reaped.
Retain ==
  /\ co.pc = "launched" /\ attr[0] = Sealed
  /\ Go(IF BoundIn("staging") /\ ~odd THEN "retained" ELSE "refused")
  /\ UNCHANGED <<childVars, treeVars, disk, lease, trouble>>

\* _observe_child_exit_without_reaping: the zombie pins its pid.
Observe ==
  /\ co.pc = "retained" /\ child = "zombie" /\ Go("observed")
  /\ UNCHANGED <<childVars, treeVars, disk, lease, trouble>>

ReapTimeout ==
  /\ co.pc = "retained" /\ child = "running" /\ Trouble /\ Go("refused")
  /\ UNCHANGED <<childVars, treeVars, disk, lease>>

\* _kill_process_group: a failure is remembered until the child is reaped.
KillGroup ==
  /\ co.pc = "observed"
  /\ \/ /\ group' = FALSE /\ co' = [co EXCEPT !.pc = "killed"]
        /\ UNCHANGED trouble
     \/ /\ co' = [co EXCEPT !.pc = "killed", !.killed = FALSE] /\ Trouble
        /\ UNCHANGED group
  /\ UNCHANGED <<child, status, treeVars, disk, lease>>

\* Mutant: the failure to kill the group is forgotten.
FinalReapForgetful ==
  /\ co.pc = "killed" /\ child' = "reaped"
  /\ Go(IF status = 0 THEN "adopting" ELSE "refused")
  /\ UNCHANGED <<status, group, treeVars, disk, lease, trouble>>

\* _final_reap and the rest of _reap_capture_child_with_syscalls: a proof of
\* death for a child that exited with 0 and whose group was killed.
FinalReap ==
  /\ co.pc = "killed" /\ child' = "reaped"
  /\ Go(IF co.killed /\ status = 0 THEN "adopting" ELSE "refused")
  /\ UNCHANGED <<status, group, treeVars, disk, lease, trouble>>

-----------------------------------------------------------------------------
(* The adoption *)

\* What a step needs, and the error it raises when it does not find it.
Holds(step) ==
  CASE step = "revoke zero" -> parent = [owner |-> "capture", mode |-> "open"]
    [] step = "bind" -> BoundIn("staging")
    [] step = "validate" -> ~stray /\ InventoryOf(Sealed)
    [] step = "compare" -> InventoryOf(Adopted)
    [] step = "rename" -> ~taken
    [] step = "receipt" -> BoundIn("final") /\ InventoryOf(Adopted)
    [] step = "named" -> BoundIn(place) /\ place # "gone"
    [] step = "unseal" -> AllowedIdentity(attr[0])
    [] step = "unlink" -> ~odd /\ \A i \in Tree : AllowedIdentity(attr[i])
    [] OTHER -> TRUE

\* fsync of an entry, or of the directories that name the capture.
Synced(step, i) ==
  CASE step = "sync" ->
         [disk EXCEPT
            !.attr = [j \in Tree |-> IF i = j \/ (i = 0 /\ ~attr[j].there) THEN attr[j] ELSE @[j]],
            !.content = [j \in 1 .. Files |-> IF i = j THEN content[j] ELSE @[j]]]
    [] step = "sync staging" -> [disk EXCEPT !.parent = parent,
                                             !.place = IF place # "final" THEN place ELSE @]
    [] step \in {"sync final", "sync parent"} -> [disk EXCEPT !.place = place]
    [] OTHER -> disk

ParentAfter(step) ==
  CASE step = "revoke zero" -> [parent EXCEPT !.mode = "zero"]
    [] step = "revoke own" -> [parent EXCEPT !.owner = "root"]
    [] step = "revoke mode" -> [parent EXCEPT !.mode = "revoked"]
    [] OTHER -> parent

AttrAfter(step, i) ==
  CASE step = "zero" -> [attr EXCEPT ![i].mode = "zero"]
    [] step = "own" -> [attr EXCEPT ![i].owner = "root"]
    [] step = "adopt" -> [attr EXCEPT ![i].mode = "adopted"]
    [] step = "unseal" -> [attr EXCEPT ![i].mode = "building"]
    [] step = "unlink" -> [attr EXCEPT ![i].there = FALSE]
    [] OTHER -> attr

PlaceAfter(step) ==
  CASE step = "rename" -> "final"
    [] step = "rmdir" -> "gone"
    [] OTHER -> place

Perform(step, i) ==
  /\ attr' = AttrAfter(step, i) /\ place' = PlaceAfter(step) /\ parent' = ParentAfter(step)
  /\ disk' = Synced(step, i)
  /\ UNCHANGED <<childVars, content, rebound, stray, odd, taken>>

\* One step of _adopt_impl; the last makes the receipt and the lease. The proof
\* and the held object are used up before the first.
AdoptStep ==
  LET step == Program[co.at][1]  i == Program[co.at][2] IN
  /\ co.pc = "adopting" /\ Holds(step) /\ Perform(step, i)
  /\ co' = [co EXCEPT !.bound = @ \/ step = "bind",
                      !.pc = IF step = "receipt" THEN "leased" ELSE @,
                      !.at = IF step = "receipt" THEN 1 ELSE @ + 1]
  /\ lease' = IF step = "receipt" THEN [state |-> "bound", receipt |-> content, at |-> 1] ELSE lease
  /\ UNCHANGED trouble

\* An error: what was bound is removed, what was not is left alone.
AdoptFails ==
  /\ co.pc = "adopting"
  /\ IF Holds(Program[co.at][1]) THEN Trouble ELSE UNCHANGED trouble
  /\ co' = [co EXCEPT !.pc = IF co.bound THEN "failing" ELSE "failed", !.at = 1]
  /\ UNCHANGED <<childVars, treeVars, disk, lease>>

\* _remove_bound_tree in the handler of the error: it is tried once.
FailureCleanup ==
  LET step == Removal[co.at][1]  i == Removal[co.at][2] IN
  /\ co.pc = "failing"
  /\ \/ /\ Holds(step) /\ Perform(step, i) /\ UNCHANGED trouble
        /\ co' = [co EXCEPT !.pc = IF co.at = Len(Removal) THEN "failed" ELSE @,
                            !.at = IF co.at = Len(Removal) THEN 1 ELSE @ + 1]
     \/ /\ IF Holds(step) THEN Trouble ELSE UNCHANGED trouble
        /\ Go("unclean") /\ UNCHANGED <<childVars, treeVars, disk>>
  /\ UNCHANGED lease

-----------------------------------------------------------------------------
(* The lease *)

Active == lease.state \in {"bound", "bound_retry", "parent_fsync_retry"}

\* cleanup: what was done is done again, an unlinked tree only needs its parent
\* synced.
Cleanup ==
  LET at == IF lease.state = "parent_fsync_retry" THEN Len(Removal) ELSE lease.at
      step == Removal[at][1]  i == Removal[at][2] IN
  /\ co.pc = "leased" /\ Active
  /\ \/ /\ Holds(step) /\ Perform(step, i) /\ UNCHANGED trouble
        /\ lease' = [lease EXCEPT
             !.state = CASE at = Len(Removal) -> "closed"
                         [] at = Len(Removal) - 1 -> "parent_fsync_retry"
                         [] OTHER -> @,
             !.at = at + 1]
     \/ /\ IF Holds(step) THEN Trouble ELSE UNCHANGED trouble
        /\ lease' = [lease EXCEPT
             !.state = IF at = Len(Removal) THEN "parent_fsync_retry" ELSE "bound_retry", !.at = 1]
        /\ UNCHANGED <<childVars, treeVars, disk>>
  /\ UNCHANGED co

\* _assert_post_verifier_revalidation_binding: the directory is the adopted one,
\* its modes and times included; a cleanup that touched it changed them.
StillAdopted == BoundIn("final") /\ attr[0] = Adopted /\ \A i \in Tree : attr[i].there

\* defer_to_recovery: the directory and its parent are synced, and from then on
\* no cleanup unlinks it. A second call has the same receipt.
Defer ==
  /\ co.pc = "leased" /\ Active /\ lease.at = 1
  /\ StillAdopted
  /\ disk' = [disk EXCEPT !.attr[0] = attr[0], !.place = place]
  /\ lease' = [lease EXCEPT !.state = "recovery_detached"]
  /\ UNCHANGED <<childVars, treeVars, co, trouble>>

-----------------------------------------------------------------------------
(* Faults *)

Running == co.pc \notin {"dead", "refused", "failed", "unclean"}

\* A kill takes the lease with it unless recovery has it.
Forgotten ==
  /\ co' = [co EXCEPT !.pc = "dead"]
  /\ lease' = [lease EXCEPT !.state = IF @ = "recovery_detached" THEN @ ELSE "none"]

Kill ==
  /\ Running /\ Trouble /\ Forgotten
  /\ UNCHANGED <<childVars, treeVars, disk>>

\* Of what was not synced some survives.
PowerLoss ==
  /\ Trouble /\ Forgotten
  /\ child' = "reaped" /\ group' = FALSE
  /\ attr' \in {[i \in Tree |-> IF i \in kept THEN attr[i] ELSE disk.attr[i]] : kept \in SUBSET Tree}
  /\ content' \in {[i \in 1 .. Files |-> IF i \in kept THEN content[i] ELSE disk.content[i]] :
                   kept \in SUBSET (1 .. Files)}
  /\ place' \in {place, disk.place} /\ parent' \in {parent, disk.parent}
  /\ disk' = [attr |-> attr', content |-> content', place |-> place', parent |-> parent']
  /\ UNCHANGED <<status, rebound, stray, odd, taken>>

AdoptionNext ==
  \/ \E i \in 1 .. Files, v \in Contents : ChildWrite(i, v)
  \/ ChildSeal \/ ChildMeddle \/ ChildExit
  \/ Retain \/ Observe \/ ReapTimeout \/ KillGroup \/ FinalReap
  \/ AdoptStep \/ AdoptFails \/ FailureCleanup
  \/ Cleanup \/ Defer
  \/ Kill \/ PowerLoss

AdoptionSpec == AdoptionInit /\ [][AdoptionNext]_adoptionVars

-----------------------------------------------------------------------------
(* Properties *)

\* What a lease that was not cleaned up or was left to recovery stands for: the
\* object is where its receipt says and holds what the receipt says, root owns
\* every entry, the child's user can no longer name it, and no process of the
\* child is left to change it (_adopt_impl, defer_to_recovery).
AdoptedTrue ==
  lease.state = "recovery_detached" \/ (lease.state = "bound" /\ lease.at = 1) =>
    /\ place = "final" /\ \A i \in Tree : attr[i] = Adopted
    /\ content = lease.receipt
    /\ parent.owner = "root" /\ parent.mode = "revoked"
    /\ ~Writers

\* A receipt is only given for what a power loss would leave: "after the object
\* identity, directory, and parent are durable" (defer_to_recovery).
HandoffDurable == lease.state = "recovery_detached" => disk = Now

\* An adoption that failed after it bound the object, and does not say that its
\* cleanup failed, left none of it, also through a power loss.
NothingLeft == co.pc = "failed" /\ co.bound => place = "gone" /\ disk.place = "gone"

\* A lease that is closed removed its object, through a power loss too.
ClosedRemoved == lease.state = "closed" => place = "gone" /\ disk.place = "gone"

AdoptionSafe == AdoptionTypeOK /\ AdoptedTrue /\ HandoffDurable /\ NothingLeft /\ ClosedRemoved

=============================================================================

-------------------------- MODULE OwnerApprovalProofs --------------------------
(***************************************************************************)
(* Proofs about the owner's approval of a release bundle, for any bundles, *)
(* messages, helpers, kills, mints and edits.                              *)
(*                                                                         *)
(* Little of what a helper goes by is ever taken back: a bundle keeps its  *)
(* time, a message its author, its first text and its time, a record its   *)
(* assertion, a packet its place in the outbox, and what the broker took   *)
(* stays taken. Onward says so of every step, and what is known of a       *)
(* helper, a packet or a record survives every such step.                  *)
(***************************************************************************)
EXTENDS OwnerApproval, TLAPS

-----------------------------------------------------------------------------
(* The inductive invariant *)

\* A message of the owner that asked for b from the start, after b was made.
Approves(m, b) ==
  /\ b \in Bundles /\ bundle[b] # None
  /\ message[m].at # None /\ message[m].owner /\ message[m].first = b
  /\ message[m].at >= bundle[b]

\* r carries the assertion of the record of m.
Carries(m, r) ==
  /\ record[m].bundle = r.bundle /\ record[m].issued = r.issued /\ record[m].salt = r.salt

PacketOK(p) ==
  /\ p \in PacketType /\ p.message \in Messages
  /\ p.issued \in Times /\ p.created \in Times
  /\ Carries(p.message, p) /\ Approves(p.message, p.bundle)
  /\ p.created + PacketTTL <= bundle[p.bundle] + BundleLife

\* What a helper knows where it stands.
Bound == {"bound", "linked", "staged", "fetched", "built", "free", "installed", "minted",
          "packed", "ready"}
HelperOK(x) ==
  /\ x.pc \in Bound \ {"packed", "ready"} =>
       /\ x.message \in Messages /\ message[x.message].at # None
       /\ x.bundle \in Bundles /\ bundle[x.bundle] # None
  /\ x.pc = "fetched" => message[x.message].owner /\ message[x.message].first = x.bundle
  /\ x.pc \in {"built", "free", "installed", "minted"} =>
       x.mine.issued \in Times /\ Approves(x.message, x.mine.bundle)
  /\ x.pc \in {"installed", "minted"} => Carries(x.message, x.mine)
  /\ x.pc \in {"packed", "ready", "sent", "answered", "kept"} => PacketOK(x.packet)
  /\ x.pc \in {"ready", "sent"} => Named(outbox, x.packet) # {}
  /\ x.pc \in {"answered", "kept"} => taken[x.packet.bundle] = x.packet

HelpersInv == \A h \in Helpers : HelperOK(helper[h])

\* An unedited message still says what it said first.
MessagesInv ==
  \A m \in Messages :
    /\ message[m].at # None => message[m].first \in Bundles /\ message[m].text \in Bundles
    /\ ~ message[m].edited => message[m].text = message[m].first

RecordsInv ==
  \A m \in Messages : record[m] # NoRecord =>
    record[m].issued \in Times /\ Approves(m, record[m].bundle)

OutboxInv == \A f \in outbox : PacketOK(f.packet)

TakenInv ==
  \A b \in Bundles :
    \/ taken[b] = NoPacket /\ merges[b] = 0
    \/ PacketOK(taken[b]) /\ taken[b].bundle = b /\ merges[b] <= 1

ReceiptsInv ==
  \A f \in receipts : PacketOK(f.packet) /\ taken[f.packet.bundle] = f.packet

ApprovalInv ==
  /\ ApprovalTypeOK /\ HelpersInv /\ MessagesInv /\ RecordsInv
  /\ OutboxInv /\ TakenInv /\ ReceiptsInv

-----------------------------------------------------------------------------
(* What no step takes back *)

Onward ==
  /\ \A m \in Messages : message[m].at # None =>
       /\ message'[m].at = message[m].at /\ message'[m].owner = message[m].owner
       /\ message'[m].first = message[m].first
  /\ \A b \in Bundles : bundle[b] # None => bundle'[b] = bundle[b]
  /\ \A m \in Messages : record[m].issued # None =>
       /\ record'[m].issued = record[m].issued /\ record'[m].bundle = record[m].bundle
       /\ record'[m].salt = record[m].salt
  /\ \A p \in PacketType : Named(outbox, p) # {} => Named(outbox', p) # {}
  /\ \A b \in Bundles : taken[b] # NoPacket => taken'[b] = taken[b]

LEMMA TimesAreNumbers == ASSUME ApprovalConstants  PROVE Times \subseteq Nat /\ None \notin Times
  BY DEF ApprovalConstants, Times, None

LEMMA ApprovesStays ==
  ASSUME Onward, NEW m \in Messages, NEW b, Approves(m, b)  PROVE Approves(m, b)'
  BY DEF Onward, Approves

LEMMA CarriesStays ==
  ASSUME ApprovalConstants, Onward, NEW m \in Messages, NEW r, r.issued \in Times, Carries(m, r)
  PROVE  Carries(m, r)'
  BY TimesAreNumbers DEF Onward, Carries

LEMMA PacketStays ==
  ASSUME ApprovalConstants, Onward, NEW p, PacketOK(p)  PROVE PacketOK(p)'
<1>1. Carries(p.message, p)' /\ Approves(p.message, p.bundle)'
  BY CarriesStays, ApprovesStays DEF PacketOK
<1>2. bundle'[p.bundle] = bundle[p.bundle]
  BY DEF PacketOK, Approves, Onward
<1> QED
  BY <1>1, <1>2 DEF PacketOK

LEMMA NoPacketYet == ASSUME ApprovalConstants, NEW p, PacketOK(p)  PROVE p # NoPacket
  BY TimesAreNumbers DEF PacketOK, NoPacket

LEMMA HelperStays ==
  ASSUME ApprovalConstants, Onward, NEW x, HelperOK(x)  PROVE HelperOK(x)'
<1>1. x.pc \in Bound \ {"packed", "ready"} =>
        /\ x.message \in Messages /\ message'[x.message].at # None
        /\ x.bundle \in Bundles /\ bundle'[x.bundle] # None
  BY DEF HelperOK, Onward
<1>2. x.pc = "fetched" => message'[x.message].owner /\ message'[x.message].first = x.bundle
  BY DEF HelperOK, Onward, Bound
<1>3. x.pc \in {"built", "free", "installed", "minted"} =>
        x.mine.issued \in Times /\ Approves(x.message, x.mine.bundle)'
  BY ApprovesStays DEF HelperOK, Bound
<1>4. x.pc \in {"installed", "minted"} => Carries(x.message, x.mine)'
  BY CarriesStays DEF HelperOK, Bound
<1>5. x.pc \in {"packed", "ready", "sent", "answered", "kept"} => PacketOK(x.packet)'
  BY PacketStays DEF HelperOK
<1>6. x.pc \in {"ready", "sent"} => Named(outbox, x.packet)' # {}
  BY DEF HelperOK, Onward, PacketOK, Named
<1>7. x.pc \in {"answered", "kept"} => taken'[x.packet.bundle] = x.packet
  BY NoPacketYet DEF HelperOK, Onward, PacketOK, Approves
<1> QED
  BY <1>1, <1>2, <1>3, <1>4, <1>5, <1>6, <1>7 DEF HelperOK

\* The helpers a step leaves alone.
LEMMA HelpersStay ==
  ASSUME ApprovalConstants, Onward, HelpersInv, NEW h \in Helpers,
         \A k \in Helpers \ {h} : helper'[k] = helper[k], HelperOK(helper[h])'
  PROVE  HelpersInv'
<1> SUFFICES ASSUME NEW k \in Helpers, k # h  PROVE HelperOK(helper[k])'
  BY DEF HelpersInv
<1>1. PICK x : x = helper[k]
  OBVIOUS
<1>2. HelperOK(x)'
  BY <1>1, HelperStays DEF HelpersInv
<1> QED
  BY <1>1, <1>2

LEMMA AllHelpersStay ==
  ASSUME ApprovalConstants, Onward, HelpersInv, UNCHANGED helper
  PROVE  HelpersInv'
<1> SUFFICES ASSUME NEW k \in Helpers  PROVE HelperOK(helper[k])'
  BY DEF HelpersInv
<1>1. PICK x : x = helper[k]
  OBVIOUS
<1>2. HelperOK(x)'
  BY <1>1, HelperStays DEF HelpersInv
<1> QED
  BY <1>1, <1>2

LEMMA OutboxStays ==
  ASSUME ApprovalConstants, Onward, NEW f \in outbox, OutboxInv  PROVE PacketOK(f.packet)'
<1>1. PICK p : p = f.packet
  OBVIOUS
<1> QED
  BY <1>1, PacketStays DEF OutboxInv

LEMMA TakenStays ==
  ASSUME ApprovalConstants, Onward, TakenInv, UNCHANGED <<taken, merges>>  PROVE TakenInv'
<1> SUFFICES ASSUME NEW b \in Bundles, taken[b] # NoPacket \/ merges[b] # 0
             PROVE  PacketOK(taken[b])' /\ taken[b].bundle = b /\ merges[b] <= 1
  BY DEF TakenInv
<1>1. PICK p : p = taken[b]
  OBVIOUS
<1>2. PacketOK(p)'
  BY <1>1, PacketStays DEF TakenInv
<1> QED
  BY <1>1, <1>2 DEF TakenInv

LEMMA ReceiptsStay ==
  ASSUME ApprovalConstants, Onward, ReceiptsInv, NEW f \in receipts
  PROVE  PacketOK(f.packet)' /\ taken'[f.packet.bundle] = f.packet
<1>1. PICK p : p = f.packet
  OBVIOUS
<1>2. PacketOK(p) /\ taken[p.bundle] = p /\ p # NoPacket
  BY <1>1, NoPacketYet DEF ReceiptsInv
<1>3. PacketOK(p)' /\ taken'[p.bundle] = p
  BY <1>2, PacketStays DEF Onward, PacketOK, Approves
<1> QED
  BY <1>1, <1>3

LEMMA RecordsStay ==
  ASSUME ApprovalConstants, Onward, RecordsInv, UNCHANGED record  PROVE RecordsInv'
<1> SUFFICES ASSUME NEW m \in Messages, record[m] # NoRecord
             PROVE  record[m].issued \in Times /\ Approves(m, record[m].bundle)'
  BY DEF RecordsInv
<1>1. PICK b : b = record[m].bundle
  OBVIOUS
<1>2. Approves(m, b)'
  BY <1>1, ApprovesStays DEF RecordsInv
<1> QED
  BY <1>1, <1>2 DEF RecordsInv

\* All of the invariant but the types.
Core ==
  HelpersInv /\ MessagesInv /\ RecordsInv /\ OutboxInv /\ TakenInv /\ ReceiptsInv

\* Steps after which the records and packets are what they were.
LEMMA RestStays ==
  ASSUME ApprovalConstants, Core, Onward, UNCHANGED <<record, outbox, taken, merges, receipts>>
  PROVE  RecordsInv' /\ OutboxInv' /\ TakenInv' /\ ReceiptsInv'
<1>1. RecordsInv' /\ TakenInv'
  BY RecordsStay, TakenStays DEF Core
<1>2. OutboxInv'
  BY OutboxStays DEF Core, OutboxInv
<1>3. ReceiptsInv'
  BY ReceiptsStay DEF Core, ReceiptsInv
<1> QED
  BY <1>1, <1>2, <1>3

-----------------------------------------------------------------------------
(* Discord and the bundler *)

LEMMA WorldKeeps ==
  ASSUME ApprovalConstants, ApprovalInv,
         \/ \E b \in Bundles : NewBundle(b)
         \/ \E m \in Messages, b \in Bundles : \/ \E owner \in BOOLEAN : Post(m, b, owner)
                                               \/ Edit(m, b)
         \/ Tick
  PROVE  Core'
<1>1. UNCHANGED <<record, outbox, taken, merges, receipts, helper>>
  BY DEF NewBundle, Post, Edit, Tick, files, broker, discord
<1>2. Onward /\ MessagesInv'
  <2>1. message \in [Messages -> MessageType] /\ bundle \in [Bundles -> Times \cup {None}]
        /\ now \in Times
    BY DEF ApprovalInv, ApprovalTypeOK
  <2>2. ASSUME NEW b \in Bundles, NewBundle(b)  PROVE Onward /\ MessagesInv'
    BY <1>1, <2>1, <2>2 DEF NewBundle, Onward, MessagesInv, ApprovalInv, discord
  <2>3. ASSUME NEW m \in Messages, NEW b \in Bundles, NEW owner \in BOOLEAN, Post(m, b, owner)
        PROVE  Onward /\ MessagesInv'
    BY <1>1, <2>1, <2>3 DEF Post, Onward, MessagesInv, ApprovalInv, MessageType
  <2>4. ASSUME NEW m \in Messages, NEW b \in Bundles, Edit(m, b)  PROVE Onward /\ MessagesInv'
    BY <1>1, <2>1, <2>4 DEF Edit, Onward, MessagesInv, ApprovalInv, MessageType
  <2>5. ASSUME Tick  PROVE Onward /\ MessagesInv'
    BY <1>1, <2>1, <2>5 DEF Tick, Onward, MessagesInv, ApprovalInv, discord
  <2> QED
    BY <2>2, <2>3, <2>4, <2>5
<1>3. HelpersInv'
  BY <1>1, <1>2, AllHelpersStay DEF ApprovalInv
<1> QED
  BY <1>1, <1>2, <1>3, RestStays DEF Core, ApprovalInv

-----------------------------------------------------------------------------
(* The helper *)

LEMMA IdleOK == HelperOK(Idle)'
  BY DEF HelperOK, Idle, Bound

\* Steps that write no file and ask no broker.
LEMMA HelperStepKeeps ==
  ASSUME ApprovalConstants, ApprovalInv, NEW h \in Helpers, NEW y,
         UNCHANGED <<message, bundle, record, outbox, taken, merges, receipts>>,
         helper' = [helper EXCEPT ![h] = y], HelperOK(y)'
  PROVE  Core'
<1>1. Onward
  BY DEF Onward
<1>2. helper'[h] = y /\ \A k \in Helpers \ {h} : helper'[k] = helper[k]
  BY DEF ApprovalInv, ApprovalTypeOK
<1>3. HelpersInv'
  BY <1>1, <1>2, HelpersStay DEF ApprovalInv
<1>4. MessagesInv'
  BY DEF ApprovalInv, MessagesInv
<1> QED
  BY <1>1, <1>3, <1>4, RestStays DEF Core, ApprovalInv

LEMMA FailKeeps ==
  ASSUME ApprovalConstants, ApprovalInv, NEW h \in Helpers, Fail(h),
         UNCHANGED <<message, bundle, record, outbox, taken, merges, receipts>>
  PROVE  Core'
  BY HelperStepKeeps, IdleOK DEF Fail

LEMMA Here ==
  ASSUME ApprovalInv, NEW h \in Helpers
  PROVE  /\ helper[h] \in HelperType /\ HelperOK(helper[h])
         /\ helper \in [Helpers -> HelperType]
  BY DEF ApprovalInv, ApprovalTypeOK, HelpersInv

\* The helper moves on, and what it holds stays what it was.
LEMMA StepKeeps ==
  ASSUME ApprovalConstants, ApprovalInv, NEW h \in Helpers, NEW x, x = helper[h], NEW pc,
         UNCHANGED <<message, bundle, record, outbox, taken, merges, receipts>>,
         Step(h, pc), HelperOK([x EXCEPT !.pc = pc])
  PROVE  Core'
<1>1. Onward
  BY DEF Onward
<1>2. PICK y : y = [x EXCEPT !.pc = pc]
  OBVIOUS
<1>3. helper' = [helper EXCEPT ![h] = y]
  BY <1>2, Here DEF Step
<1>4. HelperOK(y)'
  BY <1>1, <1>2, HelperStays
<1> QED
  BY <1>3, <1>4, HelperStepKeeps

LEMMA BindKeeps ==
  ASSUME ApprovalConstants, ApprovalInv, NEW h \in Helpers, NEW m \in Messages, Bind(h, m)
  PROVE  Core'
<1>1. PICK y : y = [Idle EXCEPT !.pc = "bound", !.message = m, !.bundle = message[m].text]
  OBVIOUS
<1>2. HelperOK(y)
  <2>1. message[m].at # None /\ message[m].text \in Bundles /\ bundle[message[m].text] # None
    BY DEF Bind, ApprovalInv, MessagesInv
  <2> QED
    BY <1>1, <2>1 DEF HelperOK, Bound, Idle
<1>3. UNCHANGED <<message, bundle, record, outbox, taken, merges, receipts>>
  BY DEF Bind, files, broker, Only, discord
<1>4. HelperOK(y)'
  BY <1>2, <1>3, HelperStays DEF Onward
<1> QED
  BY <1>1, <1>3, <1>4, HelperStepKeeps DEF Bind

LEMMA StageKeeps ==
  ASSUME ApprovalConstants, ApprovalInv, NEW h \in Helpers, Stage(h) \/ StageDone(h)
  PROVE  Core'
<1>1. UNCHANGED <<message, bundle, record, outbox, taken, merges, receipts>>
  BY DEF Stage, StageDone, broker, Only, discord
<1>2. PICK x : x = helper[h]
  OBVIOUS
<1>3. x.pc \in {"bound", "linked"} /\ x \in HelperType /\ HelperOK(x)
  BY <1>2, Here DEF Stage, StageDone
<1>4. HelperOK([x EXCEPT !.pc = "linked"]) /\ HelperOK([x EXCEPT !.pc = "staged"])
  BY <1>3 DEF HelperOK, HelperType, Bound
<1>5. Step(h, "linked") \/ Step(h, "staged") \/ Fail(h)
  BY DEF Stage, StageDone
<1> QED
  BY <1>1, <1>2, <1>4, <1>5, StepKeeps, FailKeeps

-----------------------------------------------------------------------------
(* The signer *)

LEMMA FetchKeeps ==
  ASSUME ApprovalConstants, ApprovalInv, NEW h \in Helpers, Fetch(h)  PROVE Core'
<1>1. UNCHANGED <<message, bundle, record, outbox, taken, merges, receipts>>
  BY DEF Fetch, files, broker, Only, discord
<1>2. PICK x : x = helper[h]
  OBVIOUS
<1>3. x.pc = "staged" /\ x \in HelperType /\ HelperOK(x)
  BY <1>2, Here DEF Fetch
<1>4. CASE ~ Fail(h)
  <2>1. PICK y : y = [x EXCEPT !.pc = "fetched", !.event = now]
    OBVIOUS
  <2>2. helper' = [helper EXCEPT ![h] = y]
    BY <1>2, <1>4, <2>1, Here DEF Fetch
  <2>3. x.message \in Messages /\ message[x.message].at # None /\ x.bundle \in Bundles
        /\ bundle[x.bundle] # None
    BY <1>3 DEF HelperOK, Bound
  <2>4. message[x.message].owner /\ message[x.message].first = x.bundle
    BY <1>2, <1>4, <2>3 DEF Fetch, Genuine, ApprovalInv, MessagesInv
  <2>5. HelperOK(y)
    BY <1>3, <2>1, <2>3, <2>4 DEF HelperOK, HelperType, Bound
  <2>6. HelperOK(y)'
    BY <1>1, <2>5, HelperStays DEF Onward
  <2> QED
    BY <1>1, <2>2, <2>6, HelperStepKeeps
<1> QED
  BY <1>1, <1>4, FailKeeps

LEMMA BuildKeeps ==
  ASSUME ApprovalConstants, ApprovalInv, NEW h \in Helpers, Build(h)  PROVE Core'
<1>1. UNCHANGED <<message, bundle, record, outbox, taken, merges, receipts>>
  BY DEF Build, files, broker, Only, discord
<1>2. PICK x : x = helper[h]
  OBVIOUS
<1>3. x.pc = "fetched" /\ x \in HelperType /\ HelperOK(x)
  BY <1>2, Here DEF Build
<1>4. CASE ~ Fail(h)
  <2>1. PICK y : y = [x EXCEPT !.pc = "built",
                               !.mine = [bundle |-> x.bundle, event |-> x.event, issued |-> now,
                                         salt |-> mints + 1, names |-> 1]]
    OBVIOUS
  <2>2. Buildable(x.message, x.bundle) /\ helper' = [helper EXCEPT ![h] = y]
    BY <1>2, <1>4, <2>1, Here DEF Build
  <2>3. x.message \in Messages /\ message[x.message].at # None /\ x.bundle \in Bundles
        /\ bundle[x.bundle] # None
    BY <1>3 DEF HelperOK, Bound
  <2>4. Approves(x.message, x.bundle)
    BY <1>3, <2>2, <2>3 DEF HelperOK, Approves, Buildable
  <2>5. now \in Times
    BY DEF ApprovalInv, ApprovalTypeOK
  <2>6. HelperOK(y)
    BY <1>3, <2>1, <2>3, <2>4, <2>5 DEF HelperOK, HelperType, Bound
  <2>7. HelperOK(y)'
    BY <1>1, <2>6, HelperStays DEF Onward
  <2> QED
    BY <1>1, <2>2, <2>7, HelperStepKeeps
<1> QED
  BY <1>1, <1>4, FailKeeps

\* A helper that finds a record of its message takes that record's assertion.
LEMMA AdoptKeeps ==
  ASSUME ApprovalConstants, ApprovalInv, NEW h \in Helpers, Adopt(h),
         helper[h].pc \in {"built", "free"}, record[helper[h].message] # NoRecord,
         UNCHANGED <<message, bundle, record, outbox, taken, merges, receipts>>
  PROVE  Core'
<1>1. PICK x : x = helper[h]
  OBVIOUS
<1>2. x \in HelperType /\ HelperOK(x) /\ x.message \in Messages
  BY <1>1, Here DEF HelperOK, Bound
<1>3. CASE ~ Fail(h)
  <2>1. PICK r : r = record[x.message]
    OBVIOUS
  <2>2. PICK y : y = [x EXCEPT !.pc = "minted", !.mine = r]
    OBVIOUS
  <2>3. helper' = [helper EXCEPT ![h] = y]
    BY <1>1, <1>3, <2>1, <2>2, Here DEF Adopt
  <2>4. r.issued \in Times /\ Approves(x.message, r.bundle) /\ Carries(x.message, r)
    BY <1>1, <1>2, <2>1 DEF ApprovalInv, RecordsInv, Carries
  <2>5. HelperOK(y)
    BY <1>1, <1>2, <2>2, <2>4 DEF HelperOK, HelperType, Bound
  <2>6. HelperOK(y)'
    BY <2>5, HelperStays DEF Onward
  <2> QED
    BY <2>3, <2>6, HelperStepKeeps
<1> QED
  BY <1>3, FailKeeps

LEMMA LookKeeps ==
  ASSUME ApprovalConstants, ApprovalInv, NEW h \in Helpers, Look(h)  PROVE Core'
<1>1. UNCHANGED <<message, bundle, record, outbox, taken, merges, receipts>>
  BY DEF Look, files, broker, Only, discord
<1>2. PICK x : x = helper[h]
  OBVIOUS
<1>3. x.pc = "built" /\ x \in HelperType /\ HelperOK(x)
  BY <1>2, Here DEF Look
<1>4. HelperOK([x EXCEPT !.pc = "free"])
  BY <1>3 DEF HelperOK, HelperType, Bound
<1>5. CASE Step(h, "free")
  BY <1>1, <1>2, <1>4, <1>5, StepKeeps
<1>6. CASE ~ Step(h, "free")
  BY <1>1, <1>2, <1>3, <1>6, AdoptKeeps DEF Look
<1> QED
  BY <1>5, <1>6

\* The record of a message, from the link that decides who was first.
LEMMA InstallKeeps ==
  ASSUME ApprovalConstants, ApprovalInv, NEW h \in Helpers, Install(h)  PROVE Core'
<1>1. UNCHANGED <<message, bundle, outbox, taken, merges, receipts>>
  BY DEF Install, broker, Only, discord
<1>2. PICK x : x = helper[h]
  OBVIOUS
<1>3. x.pc = "free" /\ x \in HelperType /\ HelperOK(x) /\ x.message \in Messages
      /\ x.mine.issued \in Times /\ Approves(x.message, x.mine.bundle)
  BY <1>2, Here DEF Install, HelperOK, Bound
<1>4. CASE record[x.message] # NoRecord
  BY <1>1, <1>2, <1>3, <1>4, AdoptKeeps DEF Install
<1>5. CASE record[x.message] = NoRecord
  <2>1. /\ record' = [record EXCEPT ![x.message] = [x.mine EXCEPT !.names = 2]]
        /\ Step(h, "installed")
    BY <1>2, <1>5 DEF Install
  <2>2. record \in [Messages -> RecordType] /\ NoRecord.issued = None
    BY DEF ApprovalInv, ApprovalTypeOK, NoRecord
  <2>3. Onward
    BY <1>1, <1>5, <2>1, <2>2 DEF Onward
  <2>4. PICK y : y = [x EXCEPT !.pc = "installed"]
    OBVIOUS
  <2>5. helper' = [helper EXCEPT ![h] = y]
    BY <1>2, <2>1, <2>4, Here DEF Step
  <2>6. HelperOK([x EXCEPT !.pc = "free"])'
    BY <1>3, <2>3, HelperStays DEF HelperType
  <2>7. Carries(x.message, x.mine)'
    BY <1>3, <2>1, <2>2 DEF Carries, HelperType, RecordType
  <2>8. HelperOK(y)'
    BY <1>3, <2>4, <2>6, <2>7 DEF HelperOK, HelperType, Bound
  <2>9. HelpersInv'
    BY <2>3, <2>5, <2>8, HelpersStay, Here DEF ApprovalInv
  <2>10. RecordsInv'
    <3> SUFFICES ASSUME NEW m \in Messages, record'[m] # NoRecord
                 PROVE  record'[m].issued \in Times /\ Approves(m, record[m].bundle)'
      BY DEF RecordsInv
    <3>1. CASE m = x.message
      <4>1. record'[m].issued = x.mine.issued /\ record'[m].bundle = x.mine.bundle
        BY <1>3, <2>1, <2>2, <3>1 DEF HelperType, RecordType
      <4> QED
        BY <1>3, <2>3, <3>1, <4>1, ApprovesStays
    <3>2. CASE m # x.message
      <4>1. PICK b : b = record[m].bundle
        OBVIOUS
      <4>2. record'[m] = record[m]
        BY <2>1, <2>2, <3>2
      <4>3. record[m].issued \in Times /\ Approves(m, b)
        BY <4>1, <4>2 DEF ApprovalInv, RecordsInv
      <4>4. Approves(m, b)'
        BY <2>3, <4>3, ApprovesStays
      <4> QED
        BY <4>1, <4>2, <4>3, <4>4
    <3> QED
      BY <3>1, <3>2
  <2>11. OutboxInv' /\ TakenInv' /\ ReceiptsInv'
    BY <1>1, <2>3, OutboxStays, TakenStays, ReceiptsStay
       DEF ApprovalInv, OutboxInv, ReceiptsInv
  <2>12. MessagesInv'
    BY <1>1 DEF ApprovalInv, MessagesInv
  <2> QED
    BY <2>9, <2>10, <2>11, <2>12 DEF Core
<1> QED
  BY <1>4, <1>5

LEMMA InstallDoneKeeps ==
  ASSUME ApprovalConstants, ApprovalInv, NEW h \in Helpers, InstallDone(h)  PROVE Core'
<1>1. UNCHANGED <<message, bundle, outbox, taken, merges, receipts>>
  BY DEF InstallDone, broker, Only, discord
<1>2. PICK x : x = helper[h]
  OBVIOUS
<1>3. x.pc = "installed" /\ x \in HelperType /\ HelperOK(x) /\ x.message \in Messages
  BY <1>2, Here DEF InstallDone, HelperOK, Bound
<1>4. record' = [record EXCEPT ![x.message].names = 1] /\ Step(h, "minted")
  BY <1>2 DEF InstallDone
<1>5. record \in [Messages -> RecordType]
  BY DEF ApprovalInv, ApprovalTypeOK
<1>6. \A m \in Messages :
        /\ record'[m].issued = record[m].issued /\ record'[m].bundle = record[m].bundle
        /\ record'[m].salt = record[m].salt
  BY <1>4, <1>5 DEF RecordType
<1>7. Onward
  BY <1>1, <1>6 DEF Onward
<1>8. HelpersInv'
  <2>1. PICK y : y = [x EXCEPT !.pc = "minted"]
    OBVIOUS
  <2>2. helper' = [helper EXCEPT ![h] = y]
    BY <1>2, <1>4, <2>1, Here DEF Step
  <2>3. HelperOK(y)
    BY <1>3, <2>1 DEF HelperOK, HelperType, Bound
  <2>4. HelperOK(y)'
    BY <1>7, <2>3, HelperStays
  <2> QED
    BY <1>7, <2>2, <2>4, HelpersStay, Here DEF ApprovalInv
<1>9. RecordsInv'
  <2> SUFFICES ASSUME NEW m \in Messages, record'[m] # NoRecord
               PROVE  record'[m].issued \in Times /\ Approves(m, record[m].bundle)'
    BY DEF RecordsInv
  <2>1. record[m] # NoRecord
    <3>1. CASE m = x.message
      BY <1>3, <3>1, TimesAreNumbers DEF HelperOK, Carries, NoRecord
    <3>2. CASE m # x.message
      BY <1>4, <1>5, <3>2
    <3> QED
      BY <3>1, <3>2
  <2>2. PICK b : b = record[m].bundle
    OBVIOUS
  <2>3. record[m].issued \in Times /\ Approves(m, b)
    BY <2>1, <2>2 DEF ApprovalInv, RecordsInv
  <2>4. Approves(m, b)'
    BY <1>7, <2>3, ApprovesStays
  <2> QED
    BY <1>6, <2>2, <2>3, <2>4
<1>10. OutboxInv' /\ TakenInv' /\ ReceiptsInv'
  BY <1>1, <1>7, OutboxStays, TakenStays, ReceiptsStay DEF ApprovalInv, OutboxInv, ReceiptsInv
<1>11. MessagesInv'
  BY <1>1 DEF ApprovalInv, MessagesInv
<1> QED
  BY <1>8, <1>9, <1>10, <1>11 DEF Core

-----------------------------------------------------------------------------
(* The packet *)

LEMMA PrepareKeeps ==
  ASSUME ApprovalConstants, ApprovalInv, NEW h \in Helpers, Prepare(h)  PROVE Core'
<1>1. UNCHANGED <<message, bundle, record, outbox, taken, merges, receipts>>
  BY DEF Prepare, files, broker, Only, discord
<1>2. PICK x : x = helper[h]
  OBVIOUS
<1>3. x.pc = "minted" /\ x \in HelperType /\ HelperOK(x) /\ x.message \in Messages
  BY <1>2, Here DEF Prepare, HelperOK, Bound
<1>4. CASE ~ Fail(h)
  <2>1. PICK p : p = [bundle |-> x.mine.bundle, message |-> x.message,
                      issued |-> x.mine.issued, salt |-> x.mine.salt, created |-> now]
    OBVIOUS
  <2>2. PICK y : y = [x EXCEPT !.pc = "packed", !.packet = p]
    OBVIOUS
  <2>3. PacketFits(x.mine) /\ helper' = [helper EXCEPT ![h] = y]
    BY <1>2, <1>4, <2>1, <2>2, Here DEF Prepare
  <2>4. now \in Times
    BY DEF ApprovalInv, ApprovalTypeOK
  <2>5. PacketOK(p)
    BY <1>3, <2>1, <2>3, <2>4
       DEF PacketOK, PacketFits, HelperOK, Carries, PacketType, HelperType, RecordType
  <2>6. HelperOK(y)
    BY <1>3, <2>2, <2>5 DEF HelperOK, HelperType, Bound
  <2>7. HelperOK(y)'
    BY <1>1, <2>6, HelperStays DEF Onward
  <2> QED
    BY <1>1, <2>3, <2>7, HelperStepKeeps
<1> QED
  BY <1>1, <1>4, FailKeeps

\* Steps that write a file of the outbox, whose packets stay where they are.
LEMMA OutboxKeeps ==
  ASSUME ApprovalConstants, ApprovalInv, NEW h \in Helpers, NEW x, x = helper[h],
         UNCHANGED <<message, bundle, record, taken, merges, receipts>>,
         \A f \in outbox : \E g \in outbox' : g.packet = f.packet,
         \A g \in outbox' : PacketOK(g.packet), NEW y, helper' = [helper EXCEPT ![h] = y],
         Onward => HelperOK(y)'
  PROVE  Core'
<1>1. Onward
  <2> SUFFICES ASSUME NEW p \in PacketType, Named(outbox, p) # {}  PROVE Named(outbox', p) # {}
    BY DEF Onward
  <2>1. PICK f \in outbox : f.packet = p
    BY DEF Named
  <2>2. PICK g \in outbox' : g.packet = f.packet
    OBVIOUS
  <2> QED
    BY <2>1, <2>2 DEF Named
<1>2. HelpersInv'
  <2>1. helper'[h] = y /\ \A k \in Helpers \ {h} : helper'[k] = helper[k]
    BY Here
  <2> QED
    BY <1>1, <2>1, HelpersStay DEF ApprovalInv
<1>3. OutboxInv'
  <2> SUFFICES ASSUME NEW g \in outbox'  PROVE PacketOK(g.packet)'
    BY DEF OutboxInv
  <2>1. PICK p : p = g.packet
    OBVIOUS
  <2>2. PacketOK(p)'
    BY <1>1, <2>1, PacketStays
  <2> QED
    BY <2>1, <2>2
<1>4. RecordsInv' /\ TakenInv' /\ ReceiptsInv'
  BY <1>1, RecordsStay, TakenStays, ReceiptsStay DEF ApprovalInv, ReceiptsInv
<1>5. MessagesInv'
  BY DEF ApprovalInv, MessagesInv
<1> QED
  BY <1>2, <1>3, <1>4, <1>5 DEF Core

LEMMA PersistKeeps ==
  ASSUME ApprovalConstants, ApprovalInv, NEW h \in Helpers, Persist(h)  PROVE Core'
<1>1. UNCHANGED <<message, bundle, record, taken, merges, receipts>>
  BY DEF Persist, broker, Only, discord
<1>2. PICK x : x = helper[h]
  OBVIOUS
<1>3. x.pc = "packed" /\ x \in HelperType /\ HelperOK(x) /\ PacketOK(x.packet)
  BY <1>2, Here DEF Persist, HelperOK
<1>4. PICK y : y = [x EXCEPT !.pc = "ready"]
  OBVIOUS
<1>5. helper' = [helper EXCEPT ![h] = y]
  BY <1>2, <1>4, Here DEF Persist, Step
<1>6. /\ \A f \in outbox : f \in outbox'
      /\ \A g \in outbox' : PacketOK(g.packet)
      /\ Named(outbox', x.packet) # {}
  <2>1. CASE Named(outbox, x.packet) # {}
    BY <1>2, <2>1 DEF Persist, ApprovalInv, OutboxInv
  <2>2. CASE Named(outbox, x.packet) = {}
    <3>1. PICK f : f = [packet |-> x.packet, names |-> 2, by |-> h]
      OBVIOUS
    <3>2. outbox' = outbox \cup {f} /\ f.packet = x.packet
      BY <1>2, <2>2, <3>1 DEF Persist
    <3> QED
      BY <1>3, <3>2 DEF Named, ApprovalInv, OutboxInv
  <2> QED
    BY <2>1, <2>2
<1>7. Onward => HelperOK(y)'
  <2> SUFFICES ASSUME Onward  PROVE HelperOK(y)'
    OBVIOUS
  <2>1. HelperOK(x)'
    BY <1>3, HelperStays
  <2> QED
    BY <1>3, <1>4, <1>6, <2>1 DEF HelperOK, HelperType, Bound
<1> QED
  BY <1>1, <1>2, <1>5, <1>6, <1>7, OutboxKeeps

LEMMA LoadKeeps ==
  ASSUME ApprovalConstants, ApprovalInv, NEW h \in Helpers, Load(h)  PROVE Core'
<1>1. UNCHANGED <<message, bundle, record, taken, merges, receipts>>
  BY DEF Load, broker, Only, discord
<1>2. PICK x : x = helper[h]
  OBVIOUS
<1>3. /\ x.pc = "ready" /\ x \in HelperType /\ HelperOK(x) /\ PacketOK(x.packet)
      /\ Named(outbox, x.packet) # {}
  BY <1>2, Here DEF Load, HelperOK
<1>4. PICK f \in Named(outbox, x.packet) :
        \E n \in {1, f.names} :
          /\ outbox' = (outbox \ {f}) \cup {[f EXCEPT !.names = n]}
          /\ IF n = 1 /\ now < x.packet.created + PacketTTL THEN Step(h, "sent") ELSE Fail(h)
  BY <1>2, <1>3 DEF Load
<1>5. f \in outbox /\ f \in FileType /\ f.packet = x.packet
  BY <1>4 DEF Named, ApprovalInv, ApprovalTypeOK
<1>6. /\ \A e \in outbox : \E g \in outbox' : g.packet = e.packet
      /\ \A g \in outbox' : PacketOK(g.packet)
      /\ Named(outbox', x.packet) # {}
  <2>1. PICK n : outbox' = (outbox \ {f}) \cup {[f EXCEPT !.names = n]}
    BY <1>4
  <2>2. PICK g : g = [f EXCEPT !.names = n]
    OBVIOUS
  <2>3. g \in outbox' /\ g.packet = f.packet /\ outbox' = (outbox \ {f}) \cup {g}
    BY <1>5, <2>1, <2>2 DEF FileType
  <2>4. PacketOK(g.packet) /\ \A e \in outbox : PacketOK(e.packet)
    BY <1>3, <1>5, <2>3 DEF ApprovalInv, OutboxInv
  <2> QED
    BY <1>5, <2>3, <2>4 DEF Named
<1>7. PICK y : helper' = [helper EXCEPT ![h] = y] /\ y \in {Idle, [x EXCEPT !.pc = "sent"]}
  BY <1>2, <1>4, Here DEF Step, Fail
<1>8. Onward => HelperOK(y)'
  <2> SUFFICES ASSUME Onward  PROVE HelperOK(y)'
    OBVIOUS
  <2>1. HelperOK(x)'
    BY <1>3, HelperStays
  <2>2. HelperOK([x EXCEPT !.pc = "sent"])'
    BY <1>3, <1>6, <2>1 DEF HelperOK, HelperType, Bound
  <2> QED
    BY <1>7, <2>2, IdleOK
<1> QED
  BY <1>1, <1>2, <1>6, <1>7, <1>8, OutboxKeeps

LEMMA ReplayKeeps ==
  ASSUME ApprovalConstants, ApprovalInv, NEW h \in Helpers, NEW f \in outbox,
         Replay(h, f.packet)
  PROVE  Core'
<1>1. UNCHANGED <<message, bundle, record, outbox, taken, merges, receipts>>
  BY DEF Replay, files, broker, Only, discord
<1>2. PICK p : p = f.packet
  OBVIOUS
<1>3. PICK y : y = [Idle EXCEPT !.pc = "sent", !.packet = p]
  OBVIOUS
<1>4. HelperOK(y)
  BY <1>2, <1>3 DEF HelperOK, Bound, Idle, ApprovalInv, OutboxInv, Named
<1>5. HelperOK(y)'
  BY <1>1, <1>4, HelperStays DEF Onward
<1> QED
  BY <1>1, <1>2, <1>3, <1>5, HelperStepKeeps DEF Replay

-----------------------------------------------------------------------------
(* The broker, and the receipt *)

LEMMA ExchangeKeeps ==
  ASSUME ApprovalConstants, ApprovalInv, NEW h \in Helpers,
         NEW ok \in BOOLEAN, NEW merged \in BOOLEAN, Exchange(h, ok, merged)
  PROVE  Core'
<1>1. UNCHANGED <<message, bundle, record, outbox, receipts>>
  BY DEF Exchange, files, Only, discord
<1>2. PICK x : x = helper[h]
  OBVIOUS
<1>3. x.pc = "sent" /\ x \in HelperType /\ HelperOK(x) /\ PacketOK(x.packet)
  BY <1>2, Here DEF Exchange, HelperOK
<1>4. PICK p : p = x.packet
  OBVIOUS
<1>5. PacketOK(p) /\ p.bundle \in Bundles
  BY <1>3, <1>4 DEF PacketOK, Approves
<1>6. \/ UNCHANGED <<taken, merges>>
      \/ /\ taken[p.bundle] = NoPacket /\ taken' = [taken EXCEPT ![p.bundle] = p]
         /\ \/ merges' = [merges EXCEPT ![p.bundle] = @ + 1]
            \/ merges' = [merges EXCEPT ![p.bundle] = @ + 0]
  BY <1>2, <1>4 DEF Exchange, Acceptable, broker
<1>7. /\ taken \in [Bundles -> PacketType] /\ merges \in [Bundles -> Nat]
  BY DEF ApprovalInv, ApprovalTypeOK
<1>8. Onward
  BY <1>1, <1>6, <1>7 DEF Onward
<1>9. TakenInv'
  <2> SUFFICES ASSUME NEW b \in Bundles
               PROVE  \/ taken'[b] = NoPacket /\ merges'[b] = 0
                      \/ PacketOK(taken[b])' /\ taken'[b].bundle = b /\ merges'[b] <= 1
    BY DEF TakenInv
  <2>1. CASE taken'[b] = taken[b] /\ merges'[b] = merges[b]
    <3>1. PICK q : q = taken[b]
      OBVIOUS
    <3>2. PacketOK(q) => PacketOK(q)'
      BY <1>8, PacketStays
    <3> QED
      BY <2>1, <3>1, <3>2 DEF ApprovalInv, TakenInv
  <2>2. CASE ~ (taken'[b] = taken[b] /\ merges'[b] = merges[b])
    <3>1. /\ b = p.bundle /\ taken[b] = NoPacket /\ taken'[b] = p
          /\ merges'[b] \in {merges[b], merges[b] + 1}
      BY <1>5, <1>6, <1>7, <2>2
    <3>2. merges[b] = 0
      BY <3>1, NoPacketYet DEF ApprovalInv, TakenInv
    <3>3. PacketOK(p)'
      BY <1>5, <1>8, PacketStays
    <3> QED
      BY <3>1, <3>2, <3>3
  <2> QED
    BY <2>1, <2>2
<1>10. HelpersInv'
  <2>0. \/ Fail(h)
        \/ Step(h, "answered") /\ taken'[p.bundle] = p
    BY <1>2, <1>4, <1>5, <1>7 DEF Exchange, broker
  <2>1. PICK y : /\ helper' = [helper EXCEPT ![h] = y]
                 /\ y = Idle \/ (y = [x EXCEPT !.pc = "answered"] /\ taken'[p.bundle] = p)
    BY <1>2, <2>0, Here DEF Step, Fail
  <2>2. HelperOK(x)'
    BY <1>3, <1>8, HelperStays
  <2>3. HelperOK(y)'
    BY <1>3, <1>4, <2>1, <2>2, IdleOK DEF HelperOK, HelperType, Bound
  <2>4. helper'[h] = y /\ \A k \in Helpers \ {h} : helper'[k] = helper[k]
    BY <2>1, Here
  <2> QED
    BY <1>8, <2>3, <2>4, HelpersStay DEF ApprovalInv
<1>11. RecordsInv' /\ OutboxInv' /\ ReceiptsInv'
  BY <1>1, <1>8, RecordsStay, OutboxStays, ReceiptsStay DEF ApprovalInv, OutboxInv, ReceiptsInv
<1>12. MessagesInv'
  BY <1>1 DEF ApprovalInv, MessagesInv
<1> QED
  BY <1>9, <1>10, <1>11, <1>12 DEF Core

LEMMA KeepKeeps ==
  ASSUME ApprovalConstants, ApprovalInv, NEW h \in Helpers, Keep(h) \/ KeepDone(h)
  PROVE  Core'
<1>1. UNCHANGED <<message, bundle, record, outbox, taken, merges>>
  BY DEF Keep, KeepDone, broker, Only, discord
<1>2. PICK x : x = helper[h]
  OBVIOUS
<1>3. /\ x.pc \in {"answered", "kept"} /\ x \in HelperType /\ HelperOK(x)
      /\ PacketOK(x.packet) /\ taken[x.packet.bundle] = x.packet
  BY <1>2, Here DEF Keep, KeepDone, HelperOK
<1>4. Onward
  BY <1>1 DEF Onward
<1>5. \A f \in receipts' : f.packet = x.packet \/ \E g \in receipts : f.packet = g.packet
  <2>1. receipts \subseteq FileType
    BY DEF ApprovalInv, ApprovalTypeOK
  <2>2. CASE Keep(h)
    BY <1>2, <2>2 DEF Keep
  <2>3. CASE KeepDone(h)
    BY <1>2, <2>1, <2>3 DEF KeepDone, Named, FileType
  <2> QED
    BY <2>2, <2>3
<1>6. ReceiptsInv'
  <2> SUFFICES ASSUME NEW f \in receipts'
               PROVE  PacketOK(f.packet)' /\ taken'[f.packet.bundle] = f.packet
    BY DEF ReceiptsInv
  <2>1. PICK p : p = f.packet
    OBVIOUS
  <2>2. PacketOK(p) /\ taken[p.bundle] = p
    BY <1>3, <1>5, <2>1 DEF ApprovalInv, ReceiptsInv
  <2>3. PacketOK(p)'
    BY <1>4, <2>2, PacketStays
  <2> QED
    BY <1>1, <2>1, <2>2, <2>3
<1>7. HelpersInv'
  <2>1. PICK y : helper' = [helper EXCEPT ![h] = y] /\ y \in {Idle, [x EXCEPT !.pc = "kept"]}
    BY <1>2, Here DEF Keep, KeepDone, Step, Fail
  <2>2. HelperOK(x)'
    BY <1>3, <1>4, HelperStays
  <2>3. HelperOK(y)'
    BY <1>1, <1>3, <2>1, <2>2, IdleOK DEF HelperOK, HelperType, Bound
  <2>4. helper'[h] = y /\ \A k \in Helpers \ {h} : helper'[k] = helper[k]
    BY <2>1, Here
  <2> QED
    BY <1>4, <2>3, <2>4, HelpersStay DEF ApprovalInv
<1>8. RecordsInv' /\ OutboxInv' /\ TakenInv'
  BY <1>1, <1>4, RecordsStay, OutboxStays, TakenStays DEF ApprovalInv, OutboxInv
<1>9. MessagesInv'
  BY <1>1 DEF ApprovalInv, MessagesInv
<1> QED
  BY <1>6, <1>7, <1>8, <1>9 DEF Core

LEMMA KillKeeps ==
  ASSUME ApprovalConstants, ApprovalInv, NEW h \in Helpers, Kill(h)  PROVE Core'
  BY FailKeeps DEF Kill, discord, files, broker

-----------------------------------------------------------------------------
(* Types *)

LEMMA FilesTyped ==
  ASSUME NEW p \in PacketType, NEW n \in 1 .. 2, NEW h \in Helpers
  PROVE  [packet |-> p, names |-> n, by |-> h] \in FileType
  BY DEF FileType

LEMMA IdleTyped == ASSUME ApprovalConstants  PROVE Idle \in HelperType
<1>1. 0 \in Salts
  BY DEF ApprovalConstants, Salts
<1>2. NoRecord \in RecordType /\ NoPacket \in PacketType
  BY <1>1 DEF NoRecord, RecordType, NoPacket, PacketType
<1> QED
  BY <1>2 DEF Idle, HelperType

\* What the steps of a helper leave alone keeps its type.
LEMMA HelperTyped ==
  ASSUME ApprovalTypeOK, UNCHANGED <<now, kills, bundle, discord>>,
         helper' \in [Helpers -> HelperType], mints' \in Salts,
         spool' \in [Bundles -> 0 .. 2], record' \in [Messages -> RecordType],
         outbox' \subseteq FileType, receipts' \subseteq FileType,
         taken' \in [Bundles -> PacketType], merges' \in [Bundles -> Nat]
  PROVE  ApprovalTypeOK'
  BY DEF ApprovalTypeOK, discord

LEMMA WorldTyped ==
  ASSUME ApprovalConstants, ApprovalInv,
         \/ \E b \in Bundles : NewBundle(b)
         \/ \E m \in Messages, b \in Bundles : \/ \E owner \in BOOLEAN : Post(m, b, owner)
                                               \/ Edit(m, b)
         \/ Tick
  PROVE  ApprovalTypeOK'
<1> USE DEF ApprovalInv
<1>1. now \in Nat /\ MaxTime \in Nat /\ edits \in Nat /\ MaxEdits \in Nat
  BY DEF ApprovalTypeOK, Times, ApprovalConstants
<1>2. ASSUME NEW b \in Bundles, NewBundle(b)  PROVE ApprovalTypeOK'
  BY <1>2 DEF NewBundle, ApprovalTypeOK, discord, files, broker
<1>3. ASSUME NEW m \in Messages, NEW b \in Bundles, NEW owner \in BOOLEAN, Post(m, b, owner)
      PROVE  ApprovalTypeOK'
  <2>1. [at |-> now, owner |-> owner, first |-> b, text |-> b, edited |-> FALSE] \in MessageType
    BY DEF ApprovalTypeOK, MessageType
  <2> QED
    BY <1>3, <2>1 DEF Post, ApprovalTypeOK, files, broker
<1>4. ASSUME NEW m \in Messages, NEW b \in Bundles, Edit(m, b)  PROVE ApprovalTypeOK'
  <2>1. message' \in [Messages -> MessageType] /\ edits' \in 0 .. MaxEdits
    <3>1. message' = [message EXCEPT ![m] = [@ EXCEPT !.text = b, !.edited = TRUE]]
      BY <1>4 DEF Edit, ApprovalTypeOK
    <3>2. \A q \in MessageType : [q EXCEPT !.text = b, !.edited = TRUE] \in MessageType
      BY DEF MessageType
    <3>3. message \in [Messages -> MessageType]
      BY DEF ApprovalTypeOK
    <3>4. edits' \in 0 .. MaxEdits
      BY <1>1, <1>4 DEF Edit, ApprovalTypeOK
    <3> QED
      BY <3>1, <3>2, <3>3, <3>4
  <2> QED
    BY <1>4, <2>1 DEF Edit, ApprovalTypeOK, files, broker
<1>5. ASSUME Tick  PROVE ApprovalTypeOK'
  BY <1>1, <1>5 DEF Tick, ApprovalTypeOK, discord, files, broker, Times
<1> QED
  BY <1>2, <1>3, <1>4, <1>5

LEMMA MovedTyped ==
  ASSUME ApprovalConstants, ApprovalInv, NEW h \in Helpers,
         \/ Fail(h)
         \/ \E pc \in {"linked", "staged", "free", "installed", "minted", "ready", "sent",
                       "answered", "kept"} : Step(h, pc)
  PROVE  helper' \in [Helpers -> HelperType]
  BY Here, IdleTyped DEF Fail, Step, HelperType

LEMMA StagingTyped ==
  ASSUME ApprovalConstants, ApprovalInv, NEW h \in Helpers,
         \/ \E m \in Messages : Bind(h, m)
         \/ Stage(h) \/ StageDone(h) \/ Kill(h)
  PROVE  ApprovalTypeOK'
<1>1. ApprovalTypeOK
  BY DEF ApprovalInv
<1>2. ASSUME NEW m \in Messages, Bind(h, m)  PROVE ApprovalTypeOK'
  <2>1. message[m].text \in Bundles \cup {Nobody}
    BY <1>1 DEF ApprovalTypeOK, MessageType
  <2>2. [Idle EXCEPT !.pc = "bound", !.message = m, !.bundle = message[m].text] \in HelperType
    BY <2>1, IdleTyped DEF HelperType
  <2> QED
    BY <1>1, <1>2, <2>2 DEF Bind, ApprovalTypeOK, discord, files, broker, Only
<1>3. ASSUME Stage(h) \/ StageDone(h)  PROVE ApprovalTypeOK'
  <2>1. helper' \in [Helpers -> HelperType]
    BY <1>3, MovedTyped DEF Stage, StageDone
  <2>2. spool' \in [Bundles -> 0 .. 2]
    BY <1>1, <1>3 DEF Stage, StageDone, ApprovalTypeOK
  <2> QED
    BY <1>1, <1>3, <2>1, <2>2 DEF Stage, StageDone, ApprovalTypeOK, discord, broker, Only
<1>4. ASSUME Kill(h)  PROVE ApprovalTypeOK'
  <2>1. helper' \in [Helpers -> HelperType]
    BY <1>4, MovedTyped DEF Kill
  <2>2. kills' \in 0 .. MaxKills
    BY <1>1, <1>4 DEF Kill, ApprovalTypeOK, ApprovalConstants
  <2> QED
    BY <1>1, <1>4, <2>1, <2>2 DEF Kill, ApprovalTypeOK, discord, files, broker
<1> QED
  BY <1>2, <1>3, <1>4

LEMMA SignerTyped ==
  ASSUME ApprovalConstants, ApprovalInv, NEW h \in Helpers,
         Fetch(h) \/ Build(h) \/ Look(h) \/ Install(h) \/ InstallDone(h)
  PROVE  ApprovalTypeOK'
<1>1. ApprovalTypeOK /\ helper[h] \in HelperType /\ record \in [Messages -> RecordType]
  BY Here DEF ApprovalInv, ApprovalTypeOK
<1>2. ASSUME Fetch(h)  PROVE ApprovalTypeOK'
  <2>1. helper' \in [Helpers -> HelperType]
    BY <1>1, <1>2, MovedTyped, Here DEF Fetch, HelperType, ApprovalTypeOK
  <2> QED
    BY <1>1, <1>2, <2>1 DEF Fetch, ApprovalTypeOK, discord, files, broker, Only
<1>3. ASSUME Build(h)  PROVE ApprovalTypeOK'
  <2>1. helper[h].bundle \in Bundles \cup {Nobody} /\ helper[h].event \in Times \cup {None}
        /\ now \in Times \cup {None} /\ (mints < MaxMints => mints + 1 \in Salts)
    BY <1>1 DEF HelperType, ApprovalTypeOK, Salts, ApprovalConstants
  <2>2. PICK r : r = [bundle |-> helper[h].bundle, event |-> helper[h].event, issued |-> now,
                      salt |-> mints + 1, names |-> 1]
    OBVIOUS
  <2>3. r \in RecordType /\ mints' \in Salts
    BY <1>1, <1>3, <2>1, <2>2 DEF RecordType, Build, ApprovalTypeOK
  <2>4. \/ Fail(h)
        \/ helper' = [helper EXCEPT ![h].pc = "built", ![h].mine = r]
    BY <1>3, <2>2 DEF Build
  <2>5. helper' \in [Helpers -> HelperType]
    BY <1>1, <2>3, <2>4, MovedTyped, Here DEF HelperType
  <2> QED
    BY <1>1, <1>3, <2>3, <2>5 DEF Build, ApprovalTypeOK, discord, files, broker, Only
<1>4. ASSUME Adopt(h), helper[h].message \in Messages
      PROVE  helper' \in [Helpers -> HelperType]
  BY <1>1, <1>4, MovedTyped, Here DEF Adopt, HelperType
<1>5. ASSUME Look(h)  PROVE ApprovalTypeOK'
  <2>1. helper[h].message \in Messages
    BY <1>5, Here DEF Look, HelperOK, Bound
  <2>2. helper' \in [Helpers -> HelperType]
    BY <1>4, <1>5, <2>1, MovedTyped DEF Look
  <2> QED
    BY <1>1, <1>5, <2>2 DEF Look, ApprovalTypeOK, discord, files, broker, Only
<1>6. ASSUME Install(h)  PROVE ApprovalTypeOK'
  <2>1. helper[h].message \in Messages
    BY <1>6, Here DEF Install, HelperOK, Bound
  <2>2. helper' \in [Helpers -> HelperType]
    BY <1>4, <1>6, <2>1, MovedTyped DEF Install
  <2>3. [helper[h].mine EXCEPT !.names = 2] \in RecordType
    BY <1>1 DEF HelperType, RecordType
  <2>4. record' \in [Messages -> RecordType]
    BY <1>1, <1>6, <2>3 DEF Install
  <2> QED
    BY <1>1, <1>6, <2>2, <2>4 DEF Install, ApprovalTypeOK, discord, broker, Only
<1>7. ASSUME InstallDone(h)  PROVE ApprovalTypeOK'
  <2>1. helper' \in [Helpers -> HelperType]
    BY <1>7, MovedTyped DEF InstallDone
  <2>2. PICK m \in Messages : record' = [record EXCEPT ![m].names = 1]
    BY <1>7, Here DEF InstallDone, HelperOK, Bound
  <2>3. [record[m] EXCEPT !.names = 1] \in RecordType
    BY <1>1 DEF RecordType
  <2>4. record' \in [Messages -> RecordType]
    BY <1>1, <2>2, <2>3
  <2> QED
    BY <1>1, <1>7, <2>1, <2>4 DEF InstallDone, ApprovalTypeOK, discord, broker, Only
<1> QED
  BY <1>2, <1>3, <1>5, <1>6, <1>7

LEMMA PacketTyped ==
  ASSUME ApprovalConstants, ApprovalInv, NEW h \in Helpers,
         \/ Prepare(h) \/ Persist(h) \/ Load(h) \/ \E f \in outbox : Replay(h, f.packet)
  PROVE  ApprovalTypeOK'
<1>1. ApprovalTypeOK /\ helper[h] \in HelperType /\ HelperOK(helper[h]) /\ outbox \subseteq FileType
  BY Here DEF ApprovalInv, ApprovalTypeOK
<1>2. ASSUME Prepare(h)  PROVE ApprovalTypeOK'
  <2>1. PICK p : p = [bundle |-> helper[h].mine.bundle, message |-> helper[h].message,
                      issued |-> helper[h].mine.issued, salt |-> helper[h].mine.salt,
                      created |-> now]
    OBVIOUS
  <2>2. p \in PacketType
    BY <1>1, <2>1 DEF PacketType, HelperType, RecordType, ApprovalTypeOK
  <2>3. \/ Fail(h)
        \/ helper' = [helper EXCEPT ![h].pc = "packed", ![h].packet = p]
    BY <1>2, <2>1 DEF Prepare
  <2>4. helper' \in [Helpers -> HelperType]
    BY <1>1, <2>2, <2>3, MovedTyped, Here DEF HelperType
  <2> QED
    BY <1>1, <1>2, <2>4 DEF Prepare, ApprovalTypeOK, discord, files, broker, Only
<1>3. ASSUME Persist(h)  PROVE ApprovalTypeOK'
  <2>1. helper' \in [Helpers -> HelperType]
    BY <1>3, MovedTyped DEF Persist
  <2>2. helper[h].packet \in PacketType
    BY <1>1 DEF HelperType
  <2>3. outbox' \subseteq FileType
    BY <1>1, <1>3, <2>2, FilesTyped DEF Persist
  <2> QED
    BY <1>1, <1>3, <2>1, <2>3 DEF Persist, ApprovalTypeOK, discord, broker, Only
<1>4. ASSUME Load(h)  PROVE ApprovalTypeOK'
  <2>1. helper' \in [Helpers -> HelperType]
    BY <1>4, MovedTyped DEF Load
  <2>2. PICK f \in Named(outbox, helper[h].packet) : \E n \in {1, f.names} :
          outbox' = (outbox \ {f}) \cup {[f EXCEPT !.names = n]}
    BY <1>1, <1>4 DEF Load, HelperOK
  <2>3. PICK n \in {1, f.names} : outbox' = (outbox \ {f}) \cup {[f EXCEPT !.names = n]}
    BY <2>2
  <2>4. f \in FileType
    BY <1>1 DEF Named
  <2>5. [f EXCEPT !.names = n] \in FileType
    BY <2>4 DEF FileType
  <2>6. outbox' \subseteq FileType
    BY <1>1, <2>3, <2>5
  <2> QED
    BY <1>1, <1>4, <2>1, <2>6 DEF Load, ApprovalTypeOK, discord, broker, Only
<1>5. ASSUME NEW f \in outbox, Replay(h, f.packet)  PROVE ApprovalTypeOK'
  <2>1. PICK p \in PacketType : p = f.packet
    BY <1>1 DEF FileType
  <2>2. [Idle EXCEPT !.pc = "sent", !.packet = p] \in HelperType
    BY IdleTyped DEF HelperType
  <2> QED
    BY <1>1, <1>5, <2>1, <2>2 DEF Replay, ApprovalTypeOK, discord, files, broker, Only
<1> QED
  BY <1>2, <1>3, <1>4, <1>5

LEMMA ReceiptTyped ==
  ASSUME ApprovalConstants, ApprovalInv, NEW h \in Helpers,
         \/ \E ok, merged \in BOOLEAN : Exchange(h, ok, merged)
         \/ Keep(h) \/ KeepDone(h)
  PROVE  ApprovalTypeOK'
<1>1. /\ ApprovalTypeOK /\ helper[h].packet \in PacketType /\ receipts \subseteq FileType
      /\ taken \in [Bundles -> PacketType] /\ merges \in [Bundles -> Nat]
  BY Here DEF ApprovalInv, ApprovalTypeOK, HelperType
<1>2. ASSUME NEW ok \in BOOLEAN, NEW merged \in BOOLEAN, Exchange(h, ok, merged)
      PROVE  ApprovalTypeOK'
  <2>1. helper' \in [Helpers -> HelperType]
    BY <1>2, MovedTyped DEF Exchange
  <2>2. taken' \in [Bundles -> PacketType] /\ merges' \in [Bundles -> Nat]
    BY <1>1, <1>2 DEF Exchange, broker
  <2> QED
    BY <1>1, <1>2, <2>1, <2>2 DEF Exchange, ApprovalTypeOK, discord, files, Only
<1>3. ASSUME Keep(h)  PROVE ApprovalTypeOK'
  <2>1. helper' \in [Helpers -> HelperType]
    BY <1>3, MovedTyped DEF Keep
  <2>2. receipts' \subseteq FileType
    BY <1>1, <1>3, FilesTyped DEF Keep
  <2> QED
    BY <1>1, <1>3, <2>1, <2>2 DEF Keep, ApprovalTypeOK, discord, broker, Only
<1>4. ASSUME KeepDone(h)  PROVE ApprovalTypeOK'
  <2>1. helper' \in [Helpers -> HelperType]
    BY <1>4, MovedTyped DEF KeepDone
  <2>2. \A f \in receipts : [f EXCEPT !.names = 1] \in FileType
    BY <1>1 DEF FileType
  <2>3. receipts' \subseteq FileType
    BY <1>1, <1>4, <2>2 DEF KeepDone, Named
  <2> QED
    BY <1>1, <1>4, <2>1, <2>3 DEF KeepDone, ApprovalTypeOK, discord, broker, Only
<1> QED
  BY <1>2, <1>3, <1>4

-----------------------------------------------------------------------------
(* The specification *)

LEMMA InitHolds == ASSUME ApprovalConstants, ApprovalInit  PROVE ApprovalInv
<1>1. ApprovalTypeOK
  <2>1. 0 \in Times /\ 0 \in Salts /\ 0 \in 0 .. MaxKills /\ 0 \in 0 .. MaxEdits
    BY DEF ApprovalConstants, Times, Salts
  <2>2. NoRecord \in RecordType /\ NoPacket \in PacketType
    BY <2>1 DEF NoRecord, RecordType, NoPacket, PacketType
  <2>3. message \in [Messages -> MessageType] /\ bundle \in [Bundles -> Times \cup {None}]
    BY DEF ApprovalInit, MessageType
  <2>4. /\ spool \in [Bundles -> 0 .. 2] /\ record \in [Messages -> RecordType]
        /\ helper \in [Helpers -> HelperType]
    BY <2>2, IdleTyped DEF ApprovalInit
  <2>5. taken \in [Bundles -> PacketType] /\ merges \in [Bundles -> Nat]
    BY <2>2 DEF ApprovalInit
  <2>6. now \in Times /\ kills \in 0 .. MaxKills /\ edits \in 0 .. MaxEdits /\ mints \in Salts
    BY <2>1 DEF ApprovalInit
  <2>7. outbox \subseteq FileType /\ receipts \subseteq FileType
    BY DEF ApprovalInit
  <2> QED
    BY <2>3, <2>4, <2>5, <2>6, <2>7 DEF ApprovalTypeOK
<1>2. HelpersInv
  BY DEF ApprovalInit, HelpersInv, HelperOK, Idle, Bound
<1>3. MessagesInv /\ RecordsInv /\ OutboxInv /\ TakenInv /\ ReceiptsInv
  BY DEF ApprovalInit, MessagesInv, RecordsInv, OutboxInv, TakenInv, ReceiptsInv
<1> QED
  BY <1>1, <1>2, <1>3 DEF ApprovalInv

LEMMA NextKeeps == ASSUME ApprovalConstants, ApprovalInv, ApprovalNext  PROVE ApprovalInv'
<1>1. CASE \/ \E b \in Bundles : NewBundle(b)
           \/ \E m \in Messages, b \in Bundles : \/ \E owner \in BOOLEAN : Post(m, b, owner)
                                                 \/ Edit(m, b)
           \/ Tick
  BY <1>1, WorldKeeps, WorldTyped DEF Core, ApprovalInv
<1>2. ASSUME NEW h \in Helpers,
             \/ \E m \in Messages : Bind(h, m)
             \/ Stage(h) \/ StageDone(h) \/ Kill(h)
      PROVE  ApprovalInv'
  BY <1>2, BindKeeps, StageKeeps, KillKeeps, StagingTyped DEF Core, ApprovalInv
<1>3. ASSUME NEW h \in Helpers,
             Fetch(h) \/ Build(h) \/ Look(h) \/ Install(h) \/ InstallDone(h)
      PROVE  ApprovalInv'
  BY <1>3, FetchKeeps, BuildKeeps, LookKeeps, InstallKeeps, InstallDoneKeeps, SignerTyped
     DEF Core, ApprovalInv
<1>4. ASSUME NEW h \in Helpers,
             \/ Prepare(h) \/ Persist(h) \/ Load(h) \/ \E f \in outbox : Replay(h, f.packet)
      PROVE  ApprovalInv'
  BY <1>4, PrepareKeeps, PersistKeeps, LoadKeeps, ReplayKeeps, PacketTyped
     DEF Core, ApprovalInv
<1>5. ASSUME NEW h \in Helpers,
             \/ \E ok, merged \in BOOLEAN : Exchange(h, ok, merged)
             \/ Keep(h) \/ KeepDone(h)
      PROVE  ApprovalInv'
  BY <1>5, ExchangeKeeps, KeepKeeps, ReceiptTyped DEF Core, ApprovalInv
<1> QED
  BY <1>1, <1>2, <1>3, <1>4, <1>5 DEF ApprovalNext

LEMMA StutterKeeps == ASSUME ApprovalInv, UNCHANGED approvalVars  PROVE ApprovalInv'
<1>1. /\ UNCHANGED <<now, kills, edits, bundle, message, spool, record, mints, helper>>
      /\ UNCHANGED <<outbox, taken, merges, receipts>>
  BY DEF approvalVars, discord, files, broker
<1>2. ApprovalTypeOK' /\ MessagesInv'
  BY <1>1 DEF ApprovalInv, ApprovalTypeOK, MessagesInv
<1>3. \A q : PacketOK(q)' <=> PacketOK(q)
  BY <1>1 DEF PacketOK, Carries, Approves
<1>4. OutboxInv' /\ TakenInv' /\ ReceiptsInv'
  BY <1>1, <1>3 DEF ApprovalInv, OutboxInv, TakenInv, ReceiptsInv
<1>5. /\ \A m, b : Approves(m, b)' <=> Approves(m, b)
      /\ \A m, r : Carries(m, r)' <=> Carries(m, r)
      /\ \A q : Named(outbox, q)' = Named(outbox, q)
  BY <1>1 DEF Approves, Carries, Named
<1>6. ASSUME NEW h \in Helpers, HelperOK(helper[h])  PROVE HelperOK(helper[h])'
  BY <1>1, <1>3, <1>5, <1>6 DEF HelperOK
<1>7. HelpersInv' /\ RecordsInv'
  BY <1>1, <1>5, <1>6 DEF ApprovalInv, HelpersInv, RecordsInv
<1> QED
  BY <1>2, <1>4, <1>7 DEF ApprovalInv

LEMMA ApprovalInvariant == ASSUME ApprovalConstants  PROVE ApprovalSpec => []ApprovalInv
<1>1. ApprovalInv /\ [ApprovalNext]_approvalVars => ApprovalInv'
  BY NextKeeps, StutterKeeps
<1> QED
  BY <1>1, InitHolds, PTL DEF ApprovalSpec

LEMMA ApprovalFollows == ASSUME ApprovalConstants, ApprovalInv  PROVE ApprovalSafe
<1>1. OneAssertion /\ PacketWithinBundle
  BY DEF ApprovalInv, OutboxInv, PacketOK, Carries, OneAssertion, PacketWithinBundle
<1>2. MergedOnce
  BY DEF ApprovalInv, TakenInv, MergedOnce
<1>3. MergedApproved
  <2> SUFFICES ASSUME NEW b \in Bundles, merges[b] > 0
               PROVE  LET m == taken[b].message IN
                      /\ message[m].owner /\ message[m].first = b
                      /\ message[m].at >= bundle[b] /\ record[m].bundle = b
    BY DEF MergedApproved
  <2>1. PacketOK(taken[b]) /\ taken[b].bundle = b
    BY DEF ApprovalInv, TakenInv
  <2> QED
    BY <2>1 DEF PacketOK, Carries, Approves
<1>4. ReceiptOfAccepted
  BY DEF ApprovalInv, ReceiptsInv, ReceiptOfAccepted
<1> QED
  BY <1>1, <1>2, <1>3, <1>4 DEF ApprovalSafe, ApprovalInv

\* From the owner's message to the receipt, with any number of helpers, kills,
\* edits and replays: every packet made from a message carries the one assertion
\* of its record, what is merged was asked for by an unedited message of the
\* owner that is no older than the bundle, no bundle is merged twice, no packet
\* outlives its bundle, and a receipt is of the packet the broker accepted
\* (persist_signing_record, _normalized_message_event, prepare_packet, exchange).
THEOREM ApprovalIsSafe == ASSUME ApprovalConstants  PROVE ApprovalSpec => []ApprovalSafe
  BY ApprovalInvariant, ApprovalFollows, PTL

LEMMA StepOnward == ASSUME ApprovalConstants, ApprovalInv, ApprovalNext  PROVE Onward
<1>1. /\ message \in [Messages -> MessageType] /\ bundle \in [Bundles -> Times \cup {None}]
      /\ record \in [Messages -> RecordType] /\ taken \in [Bundles -> PacketType]
  BY DEF ApprovalInv, ApprovalTypeOK
<1>2. CASE UNCHANGED <<message, bundle, record, outbox, taken>>
  BY <1>2 DEF Onward
<1>3. ASSUME NEW b \in Bundles, NewBundle(b)  PROVE Onward
  BY <1>1, <1>3 DEF NewBundle, Onward, discord, files, broker
<1>4. ASSUME NEW m \in Messages, NEW b \in Bundles,
             Edit(m, b) \/ \E owner \in BOOLEAN : Post(m, b, owner)
      PROVE  Onward
  <2>1. UNCHANGED <<bundle, record, outbox, taken>>
    BY <1>4 DEF Post, Edit, files, broker
  <2>2. \A n \in Messages : message[n].at # None =>
          /\ message'[n].at = message[n].at /\ message'[n].owner = message[n].owner
          /\ message'[n].first = message[n].first
    <3>1. CASE Edit(m, b)
      <4>1. message' = [message EXCEPT ![m].text = b, ![m].edited = TRUE]
        BY <3>1 DEF Edit
      <4> QED
        BY <1>1, <4>1 DEF MessageType
    <3>2. CASE \E owner \in BOOLEAN : Post(m, b, owner)
      <4>1. message[m].at = None /\ \E q : message' = [message EXCEPT ![m] = q]
        BY <3>2 DEF Post
      <4> QED
        BY <1>1, <4>1
    <3> QED
      BY <1>4, <3>1, <3>2
  <2> QED
    BY <2>1, <2>2 DEF Onward
<1>5. ASSUME NEW h \in Helpers, Install(h) \/ InstallDone(h)  PROVE Onward
  <2>1. PICK m \in Messages : m = helper[h].message
    BY <1>5, Here DEF Install, InstallDone, HelperOK, Bound
  <2>2. /\ UNCHANGED <<message, bundle, outbox, taken>>
        /\ \/ UNCHANGED record
           \/ record[m] = NoRecord /\ \E r : record' = [record EXCEPT ![m] = r]
           \/ record' = [record EXCEPT ![m].names = 1]
    BY <1>5, <2>1 DEF Install, InstallDone, broker, Only, discord
  <2> QED
    BY <1>1, <2>2 DEF Onward, RecordType, NoRecord
<1>6. ASSUME NEW h \in Helpers, Persist(h) \/ Load(h)  PROVE Onward
  <2>1. UNCHANGED <<message, bundle, record, taken>>
    BY <1>6 DEF Persist, Load, broker, Only, discord
  <2>2. \A f \in outbox : \E g \in outbox' : g.packet = f.packet
    <3>1. CASE Persist(h)
      BY <3>1 DEF Persist
    <3>2. CASE Load(h)
      <4>1. Named(outbox, helper[h].packet) # {} /\ outbox \subseteq FileType
        BY <3>2, Here DEF Load, HelperOK, ApprovalInv, ApprovalTypeOK
      <4>2. PICK f \in outbox : \E n : outbox' = (outbox \ {f}) \cup {[f EXCEPT !.names = n]}
        BY <3>2, <4>1 DEF Load, Named
      <4>3. PICK n : outbox' = (outbox \ {f}) \cup {[f EXCEPT !.names = n]}
        BY <4>2
      <4>4. [f EXCEPT !.names = n].packet = f.packet
        BY <4>1 DEF FileType
      <4> QED
        BY <4>3, <4>4
    <3> QED
      BY <1>6, <3>1, <3>2
  <2> QED
    BY <2>1, <2>2 DEF Onward, Named
<1>7. ASSUME NEW h \in Helpers, NEW ok \in BOOLEAN, NEW merged \in BOOLEAN,
             Exchange(h, ok, merged)
      PROVE  Onward
  <2>1. PICK p : p = helper[h].packet
    OBVIOUS
  <2>2. /\ UNCHANGED <<message, bundle, record, outbox>>
        /\ \/ UNCHANGED taken
           \/ taken[p.bundle] = NoPacket /\ taken' = [taken EXCEPT ![p.bundle] = p]
    BY <1>7, <2>1 DEF Exchange, Acceptable, broker, files, Only, discord
  <2> QED
    BY <1>1, <2>2 DEF Onward
<1> QED
  BY <1>2, <1>3, <1>4, <1>5, <1>6, <1>7
     DEF ApprovalNext, Tick, Bind, Stage, StageDone, Fetch, Build, Look, Prepare, Replay, Keep,
         KeepDone, Kill, discord, files, broker, Only

\* No step takes back what a helper, a packet or a receipt was made from: the
\* author, time and first text of a message, the time of a bundle, the assertion
\* of a record, a packet of the outbox, the packet a bundle was accepted for.
THEOREM NothingTakenBack == ASSUME ApprovalConstants  PROVE ApprovalSpec => [][Onward]_approvalVars
<1>1. ApprovalInv /\ [ApprovalNext]_approvalVars => [Onward]_approvalVars
  BY StepOnward
<1> QED
  BY <1>1, ApprovalInvariant, PTL DEF ApprovalSpec

=============================================================================

----------------------------- MODULE OwnerApproval -----------------------------
(***************************************************************************)
(* From an owner's Discord message to a receipt of the release broker:     *)
(* the runtime helper (scripts/john-lomein-release-approve.py), the signer *)
(* it starts (owner_gateway/), the packet (john_lomein_release_packets.    *)
(* py), the client (john-lomein-release-submit.py) and, as far as they see *)
(* it, the broker. Several helpers may work at once, on one message or on  *)
(* several, and each may be killed anywhere. The files they leave for each *)
(* other are installed by linking a temporary file and removing its first  *)
(* name; a reader refuses a file that still has two names.                 *)
(***************************************************************************)
EXTENDS Integers, FiniteSets

CONSTANTS
  Bundles, Messages, Helpers,
  MaxTime, MaxKills, MaxMints, MaxEdits,    \* bounds
  BundleLife, AssertionTTL, PacketTTL,
  MaxAge,                                   \* maximum_event_age_seconds
  MinRemaining                              \* MIN_BUNDLE_REMAINING_SECONDS

ApprovalConstants ==
  /\ \A n \in {MaxTime, MaxKills, MaxMints, MaxEdits, MaxAge} : n \in Nat
  /\ \A n \in {BundleLife, AssertionTTL, PacketTTL, MinRemaining} : n \in Nat \ {0}

VARIABLES
  now, kills, edits,
  bundle,    \* private/release-bundles: when each was made
  message,   \* Discord
  spool,     \* names of the staged file of a bundle
  record,    \* the signer's record of a message, and its names
  mints,     \* salts drawn
  helper,
  outbox,    \* packets, and their names
  taken,     \* the packet the broker accepted for a bundle, if any
  merges,    \* merges the broker made of a bundle
  receipts   \* receipts the client keeps, and their names

discord == <<message, edits>>
files == <<spool, record, outbox, receipts>>
broker == <<taken, merges>>
approvalVars == <<now, kills, bundle, discord, files, mints, helper, broker>>

Times == 0 .. MaxTime
None == -1
Nobody == "nobody"

NoRecord == [bundle |-> Nobody, event |-> None, issued |-> None, salt |-> 0, names |-> 0]
NoPacket == [bundle |-> Nobody, message |-> Nobody, issued |-> None, salt |-> 0,
             created |-> None]
Idle == [pc |-> "idle", message |-> Nobody, bundle |-> Nobody, event |-> None,
         mine |-> NoRecord, packet |-> NoPacket]

Salts == 0 .. MaxMints
RecordType == [bundle : Bundles \cup {Nobody}, event : Times \cup {None},
               issued : Times \cup {None}, salt : Salts, names : 0 .. 2]
PacketType == [bundle : Bundles \cup {Nobody}, message : Messages \cup {Nobody},
               issued : Times \cup {None}, salt : Salts, created : Times \cup {None}]

FileType == [packet : PacketType, names : 1 .. 2, by : Helpers]
MessageType == [at : Times \cup {None}, owner : BOOLEAN, first : Bundles \cup {Nobody},
                text : Bundles \cup {Nobody}, edited : BOOLEAN]
HelperType == [pc : {"idle", "bound", "linked", "staged", "fetched", "built", "free",
                     "installed", "minted", "packed", "ready", "sent", "answered", "kept"},
               message : Messages \cup {Nobody}, bundle : Bundles \cup {Nobody},
               event : Times \cup {None}, mine : RecordType, packet : PacketType]

ApprovalTypeOK ==
  /\ now \in Times /\ kills \in 0 .. MaxKills /\ edits \in 0 .. MaxEdits
  /\ mints \in Salts
  /\ bundle \in [Bundles -> Times \cup {None}]
  /\ message \in [Messages -> MessageType]
  /\ spool \in [Bundles -> 0 .. 2]
  /\ record \in [Messages -> RecordType]
  /\ helper \in [Helpers -> HelperType]
  /\ outbox \subseteq FileType /\ receipts \subseteq FileType
  /\ taken \in [Bundles -> PacketType] /\ merges \in [Bundles -> Nat]

ApprovalInit ==
  /\ now = 0 /\ kills = 0 /\ edits = 0 /\ mints = 0
  /\ bundle = [b \in Bundles |-> None]
  /\ message = [m \in Messages |-> [at |-> None, owner |-> FALSE, first |-> Nobody,
                                    text |-> Nobody, edited |-> FALSE]]
  /\ spool = [b \in Bundles |-> 0]
  /\ record = [m \in Messages |-> NoRecord]
  /\ helper = [h \in Helpers |-> Idle]
  /\ outbox = {} /\ receipts = {}
  /\ taken = [b \in Bundles |-> NoPacket]
  /\ merges = [b \in Bundles |-> 0]

-----------------------------------------------------------------------------
(* Discord and the bundler *)

NewBundle(b) ==
  /\ bundle[b] = None
  /\ bundle' = [bundle EXCEPT ![b] = now]
  /\ UNCHANGED <<now, kills, discord, files, mints, helper, broker>>

\* Somebody posts the approval of a bundle, the owner or a bystander. A bundle
\* has no known digest before it is made, yet its text may be guessed.
Post(m, b, owner) ==
  /\ message[m].at = None
  /\ message' = [message EXCEPT ![m] = [at |-> now, owner |-> owner, first |-> b,
                                        text |-> b, edited |-> FALSE]]
  /\ UNCHANGED <<now, kills, edits, bundle, files, mints, helper, broker>>

Edit(m, b) ==
  /\ message[m].at # None /\ message[m].text # b
  /\ edits < MaxEdits /\ edits' = edits + 1
  /\ message' = [message EXCEPT ![m].text = b, ![m].edited = TRUE]
  /\ UNCHANGED <<now, kills, bundle, files, mints, helper, broker>>

Tick ==
  /\ now < MaxTime
  /\ now' = now + 1
  /\ UNCHANGED <<kills, bundle, discord, files, mints, helper, broker>>

-----------------------------------------------------------------------------
(* The helper: approve_current_message *)

Step(h, pc) == helper' = [helper EXCEPT ![h].pc = pc]
Fail(h) == helper' = [helper EXCEPT ![h] = Idle]
Only == UNCHANGED <<now, kills, bundle, discord>>

\* _load_bound_bundle: the text the gateway delivered names a bundle on disk.
Bind(h, m) ==
  /\ helper[h].pc = "idle"
  /\ message[m].at # None /\ bundle[message[m].text] # None
  /\ helper' = [helper EXCEPT ![h] = [Idle EXCEPT !.pc = "bound", !.message = m,
                                                  !.bundle = message[m].text]]
  /\ UNCHANGED <<files, mints, broker>> /\ Only

\* Mutant: a file that is there is linked over.
StageOver(h) ==
  LET b == helper[h].bundle IN
  /\ helper[h].pc = "bound"
  /\ spool' = [spool EXCEPT ![b] = @ + 2]
  /\ Step(h, "linked")
  /\ UNCHANGED <<record, outbox, receipts, mints, broker>> /\ Only

\* _stage_bundle: link the temporary file, or compare with the file there.
Stage(h) ==
  LET b == helper[h].bundle IN
  /\ helper[h].pc = "bound"
  /\ \/ /\ spool[b] = 0
        /\ spool' = [spool EXCEPT ![b] = 2]
        /\ Step(h, "linked")
     \/ /\ spool[b] = 1 /\ UNCHANGED spool /\ Step(h, "staged")
     \/ /\ spool[b] = 2 /\ UNCHANGED spool /\ Fail(h)
  /\ UNCHANGED <<record, outbox, receipts, mints, broker>> /\ Only

StageDone(h) ==
  /\ helper[h].pc = "linked"
  /\ spool' = [spool EXCEPT ![helper[h].bundle] = 1]
  /\ Step(h, "staged")
  /\ UNCHANGED <<record, outbox, receipts, mints, broker>> /\ Only

-----------------------------------------------------------------------------
(* The signer: mint *)

\* Mutant: an edited message is accepted.
GenuineEdited(m) == message[m].owner

\* _normalized_message_event: what Discord says of the message.
Genuine(m) == message[m].owner /\ ~ message[m].edited

\* normalize_discord_event
Fresh(m) == message[m].owner /\ now - message[m].at <= MaxAge

\* fetch_normalized_event, after the bundle was read from the spool.
Fetch(h) ==
  LET m == helper[h].message IN
  /\ helper[h].pc = "staged"
  /\ IF spool[helper[h].bundle] = 1 /\ Genuine(m) /\ Fresh(m)
        /\ message[m].text = helper[h].bundle
     THEN helper' = [helper EXCEPT ![h].pc = "fetched", ![h].event = now]
     ELSE Fail(h)
  /\ UNCHANGED <<files, mints, broker>> /\ Only

\* The end of an assertion's life.
Expires(r) == IF r.issued + AssertionTTL < bundle[r.bundle] + BundleLife
              THEN r.issued + AssertionTTL ELSE bundle[r.bundle] + BundleLife

Buildable(m, b) ==
  /\ Fresh(m)
  /\ message[m].at >= bundle[b]
  /\ bundle[b] + BundleLife - now >= MinRemaining

\* build_signing_record; the salt makes every assertion another one.
Build(h) ==
  LET b == helper[h].bundle IN
  /\ helper[h].pc = "fetched" /\ mints < MaxMints
  /\ IF Buildable(helper[h].message, b)
     THEN /\ mints' = mints + 1
          /\ helper' = [helper EXCEPT
                          ![h].pc = "built",
                          ![h].mine = [bundle |-> b, event |-> helper[h].event,
                                       issued |-> now, salt |-> mints + 1, names |-> 1]]
     ELSE Fail(h) /\ UNCHANGED mints
  /\ UNCHANGED <<files, broker>> /\ Only

\* _logical_request_digest
SameRequest(r, s) == r.bundle = s.bundle /\ r.event = s.event

\* _read_record_at: a file with two names is unsafe.
Safe(r) == r.names = 1

\* verify_signing_record of an existing record: its assertion is returned, or the mint fails.
Adopt(h) ==
  LET r == record[helper[h].message] IN
  IF Safe(r) /\ SameRequest(r, helper[h].mine)
  THEN helper' = [helper EXCEPT ![h].pc = "minted", ![h].mine = r]
  ELSE Fail(h)

\* persist_signing_record: look for a record of the message.
Look(h) ==
  /\ helper[h].pc = "built"
  /\ IF record[helper[h].message] = NoRecord THEN Step(h, "free") ELSE Adopt(h)
  /\ UNCHANGED <<files, mints, broker>> /\ Only

\* Mutant: the loser of the race keeps what it built.
InstallAnyway(h) ==
  LET m == helper[h].message IN
  /\ helper[h].pc = "free"
  /\ IF record[m] = NoRecord
     THEN /\ record' = [record EXCEPT ![m] = [helper[h].mine EXCEPT !.names = 2]]
          /\ Step(h, "installed")
     ELSE Step(h, "minted") /\ UNCHANGED record
  /\ UNCHANGED <<spool, outbox, receipts, mints, broker>> /\ Only

\* The link decides who was first.
Install(h) ==
  LET m == helper[h].message IN
  /\ helper[h].pc = "free"
  /\ IF record[m] = NoRecord
     THEN /\ record' = [record EXCEPT ![m] = [helper[h].mine EXCEPT !.names = 2]]
          /\ Step(h, "installed")
     ELSE Adopt(h) /\ UNCHANGED record
  /\ UNCHANGED <<spool, outbox, receipts, mints, broker>> /\ Only

InstallDone(h) ==
  /\ helper[h].pc = "installed"
  /\ record' = [record EXCEPT ![helper[h].message].names = 1]
  /\ Step(h, "minted")
  /\ UNCHANGED <<spool, outbox, receipts, mints, broker>> /\ Only

-----------------------------------------------------------------------------
(* The packet *)

\* Mutant: the packet may outlive its bundle.
PacketFitsAnyBundle(r) == now < Expires(r)

PacketFits(r) ==
  /\ now < bundle[r.bundle] + BundleLife
  /\ now + PacketTTL <= bundle[r.bundle] + BundleLife
  /\ now < Expires(r)

\* prepare_packet
Prepare(h) ==
  LET r == helper[h].mine IN
  /\ helper[h].pc = "minted"
  /\ IF PacketFits(r)
     THEN helper' = [helper EXCEPT
            ![h].pc = "packed",
            ![h].packet = [bundle |-> r.bundle, message |-> helper[h].message,
                           issued |-> r.issued, salt |-> r.salt, created |-> now]]
     ELSE Fail(h)
  /\ UNCHANGED <<files, mints, broker>> /\ Only

Named(S, p) == {f \in S : f.packet = p}

\* persist_packet; two helpers may make the same packet.
Persist(h) ==
  /\ helper[h].pc = "packed"
  /\ outbox' = IF Named(outbox, helper[h].packet) # {} THEN outbox
               ELSE outbox \cup {[packet |-> helper[h].packet, names |-> 2, by |-> h]}
  /\ Step(h, "ready")
  /\ UNCHANGED <<spool, record, receipts, mints, broker>> /\ Only

\* The temporary name is gone; submit_packet loads the packet.
Load(h) ==
  LET p == helper[h].packet
      f == CHOOSE g \in Named(outbox, p) : TRUE
      names == IF f.by = h THEN 1 ELSE f.names IN
  /\ helper[h].pc = "ready"
  /\ outbox' = (outbox \ {f}) \cup {[f EXCEPT !.names = names]}
  /\ IF names = 1 /\ now < p.created + PacketTTL THEN Step(h, "sent") ELSE Fail(h)
  /\ UNCHANGED <<spool, record, receipts, mints, broker>> /\ Only

\* An operator submits a packet of the outbox again.
Replay(h, p) ==
  /\ helper[h].pc = "idle"
  /\ \E f \in Named(outbox, p) : f.names = 1
  /\ now < p.created + PacketTTL
  /\ helper' = [helper EXCEPT ![h] = [Idle EXCEPT !.pc = "sent", !.packet = p]]
  /\ UNCHANGED <<files, mints, broker>> /\ Only

-----------------------------------------------------------------------------
(* The broker, and the receipt *)

\* The assertion of a packet.
Assertion(p) == [bundle |-> p.bundle, event |-> None, issued |-> p.issued,
                 salt |-> p.salt, names |-> 1]

\* Mutant: another packet of a bundle that was accepted is accepted too.
AcceptableAgain(p) == now < Expires(Assertion(p)) /\ now < p.created + PacketTTL

Acceptable(p) ==
  /\ now < Expires(Assertion(p)) /\ now < p.created + PacketTTL
  /\ taken[p.bundle] = NoPacket

\* Mutant: an answer that is no receipt of this packet is taken for one.
ExchangeUnverified(h, ok, merged) ==
  /\ helper[h].pc = "sent" /\ ok /\ ~ merged
  /\ Step(h, "answered")
  /\ UNCHANGED <<files, mints, broker>> /\ Only

\* exchange: the broker accepts the packet and merges, or knows it already,
\* or refuses; the answer may be lost (ok is false).
Exchange(h, ok, merged) ==
  LET p == helper[h].packet IN
  /\ helper[h].pc = "sent"
  /\ \/ /\ taken[p.bundle] # p /\ Acceptable(p)
        /\ taken' = [taken EXCEPT ![p.bundle] = p]
        /\ merges' = [merges EXCEPT ![p.bundle] = @ + (IF merged THEN 1 ELSE 0)]
        /\ IF ok THEN Step(h, "answered") ELSE Fail(h)
     \/ /\ taken[p.bundle] = p
        /\ ~ merged /\ UNCHANGED broker
        /\ IF ok THEN Step(h, "answered") ELSE Fail(h)
     \/ /\ taken[p.bundle] # p /\ ~ Acceptable(p)
        /\ ~ ok /\ ~ merged /\ UNCHANGED broker
        /\ Fail(h)
  /\ UNCHANGED <<files, mints>> /\ Only

\* persist_receipt
Keep(h) ==
  LET p == helper[h].packet IN
  /\ helper[h].pc = "answered"
  /\ IF Named(receipts, p) = {}
     THEN /\ receipts' = receipts \cup {[packet |-> p, names |-> 2, by |-> h]}
          /\ Step(h, "kept")
     ELSE Fail(h) /\ UNCHANGED receipts
  /\ UNCHANGED <<spool, record, outbox, mints, broker>> /\ Only

KeepDone(h) ==
  /\ helper[h].pc = "kept"
  /\ receipts' = {[f EXCEPT !.names = 1] : f \in Named(receipts, helper[h].packet)}
                   \cup {f \in receipts : f.packet # helper[h].packet}
  /\ Fail(h)
  /\ UNCHANGED <<spool, record, outbox, mints, broker>> /\ Only

\* A helper is killed, with the signer it waits for.
Kill(h) ==
  /\ helper[h].pc # "idle"
  /\ kills < MaxKills /\ kills' = kills + 1
  /\ Fail(h)
  /\ UNCHANGED <<now, bundle, discord, files, mints, broker>>

ApprovalNext ==
  \/ \E b \in Bundles : NewBundle(b)
  \/ \E m \in Messages, b \in Bundles : \/ \E owner \in BOOLEAN : Post(m, b, owner)
                                        \/ Edit(m, b)
  \/ Tick
  \/ \E h \in Helpers :
       \/ \E m \in Messages : Bind(h, m)
       \/ Stage(h) \/ StageDone(h) \/ Fetch(h) \/ Build(h) \/ Look(h) \/ Install(h)
       \/ InstallDone(h) \/ Prepare(h) \/ Persist(h) \/ Load(h)
       \/ \E f \in outbox : Replay(h, f.packet)
       \/ \E ok, merged \in BOOLEAN : Exchange(h, ok, merged)
       \/ Keep(h) \/ KeepDone(h) \/ Kill(h)

ApprovalSpec == ApprovalInit /\ [][ApprovalNext]_approvalVars

-----------------------------------------------------------------------------
(* Properties *)

(* One owner message yields one assertion: every packet made from a message,  *)
(* by whichever helper and however the mints raced, carries the assertion of  *)
(* the signer's record of that message.                                       *)
OneAssertion ==
  \A f \in outbox : LET r == record[f.packet.message] IN
    /\ f.packet.salt = r.salt
    /\ f.packet.issued = r.issued
    /\ f.packet.bundle = r.bundle

(* "An owner phrase copied by another user [...], edited after posting [...], *)
(* or paired with a different bundle cannot mint a valid assertion": what is  *)
(* merged was asked for by a message of the owner that said so from the       *)
(* start, after the bundle was made.                                          *)
MergedApproved ==
  \A b \in Bundles : merges[b] > 0 =>
    LET m == taken[b].message IN
    /\ message[m].owner
    /\ message[m].first = b
    /\ message[m].at >= bundle[b]
    /\ record[m].bundle = b

(* Two messages, two helpers or a replayed packet never merge a bundle twice. *)
MergedOnce == \A b \in Bundles : merges[b] <= 1

(* No packet is alive when its bundle has expired, so that a bundle is never  *)
(* accepted later than the owner was told.                                    *)
PacketWithinBundle ==
  \A f \in outbox : f.packet.created + PacketTTL <= bundle[f.packet.bundle] + BundleLife

(* A receipt the client keeps is of a packet the broker accepted for the      *)
(* bundle, after any replays of other packets.                                *)
ReceiptOfAccepted == \A f \in receipts : taken[f.packet.bundle] = f.packet

(* One owner message yields one assertion however mints race; no packet       *)
(* outlives its bundle; a receipt is of a packet the broker accepted; what is *)
(* merged was asked for by the owner, and once (mint, prepare_packet,         *)
(* exchange, persist_receipt).                                                *)
ApprovalSafe ==
  /\ ApprovalTypeOK /\ OneAssertion /\ PacketWithinBundle /\ ReceiptOfAccepted
  /\ MergedApproved /\ MergedOnce

=============================================================================

------------------------------ MODULE InboxState -----------------------------
(***************************************************************************)
(* The state BlindInboxStorageEngine keeps in memory and rebuilds from its *)
(* WAL (packages/blind-daemon/inbox-storage-engine.js), and #applyFrame:   *)
(* for every frame type, when the apply handler accepts a frame and the    *)
(* state it leaves.  A handler that throws refuses the frame.              *)
(*                                                                         *)
(* A request is a record of what its fingerprint covers, the spend tag     *)
(* included (a close has none), so spends and commitments agree.  There is *)
(* one lease, one retention and one frame class, the unit of byte counts.  *)
(* A pin names the frames of its page by revision and object.  Hash,       *)
(* signature and encoding checks of the handlers hold for every frame this *)
(* engine encodes and are left out.                                        *)
(***************************************************************************)
EXTENDS Integers, FiniteSets, FiniteSetsExt

CONSTANTS Topics,       \* physical topics
          Spends,       \* admission spend tags
          None,
          Lease,        \* LEASE_EPOCHS of the lease class
          Retention,    \* LEASE_EPOCHS of the retention class
          Grace,        \* epochs between the end of a lease and its collection
          MaxStep,      \* the largest step of the epoch floor
          Requests,     \* what clients ask for
          Objects       \* object identifiers of bodies

ASSUME InboxConstants ==
  /\ Lease \in Nat \ {0} /\ Retention \in Nat \ {0}
  /\ Grace \in Nat /\ MaxStep \in Nat \ {0}
  /\ IsFiniteSet(Topics) /\ IsFiniteSet(Spends)

\* What the adapter decodes: a close and a policy spend nothing.
ASSUME RequestTypes ==
  \A r \in Requests :
    /\ r.op \in {"create", "renew", "close", "policy", "append", "charged", "watch"}
    /\ r.topic \in Topics
    /\ r.op \notin {"close", "policy"} => r.spend \in Spends
    /\ r.op = "policy" => r.policy \in {"visible", "suppressed"}
    /\ r.op \in {"charged", "watch"} => r.after \in Nat
    /\ r.op \in {"renew", "close"} => r.rev \in Nat /\ r.lease \in Nat
Charged(op) == op \in {"charged", "watch"}

\* The records of inboxes, of spends and of the frames that a pin names.
Inboxes ==
  [obj : {"present", "closed", "expired"}, lease : Nat, rev : Nat,
   policy : {"visible", "suppressed"}, policyRev : Nat, visible : Nat, alloc : Nat]
Spendings ==
  [status : {"committed", "provisional", "expired", "reserved", "terminal"},
   request : Requests, rev : Nat, epoch : Nat]
PageEntries == [rev : Nat, blob : Objects]
ASSUME NoneAssumption == None \notin Inboxes /\ None \notin Spendings /\ None \notin PageEntries

EmptyState ==
  [inbox |-> [t \in Topics |-> None], frames |-> {}, spends |-> [x \in Spends |-> None],
   pins |-> {}, closes |-> {}, floor |-> 0, gap |-> {},
   acct |-> [stored |-> 0, control |-> 0, tombs |-> 0]]

Present(s, topic) == s.inbox[topic] # None /\ s.inbox[topic].obj = "present"

\* #publiclyVisible
Visible(s, topic) ==
  /\ Present(s, topic) /\ s.inbox[topic].policy = "visible"
  /\ s.inbox[topic].lease >= s.floor

HasStatus(s, spend, statuses) == s.spends[spend] # None /\ s.spends[spend].status \in statuses
Fresh(s, request) == s.spends[request.spend] = None

\* Mutant: a retry pin does not keep its frames.
BugPinned(s, frame) == FALSE

\* #framePinned
Pinned(s, frame) ==
  \E p \in s.pins : p.topic = frame.topic /\ \E e \in p.entries : e.rev = frame.rev

PinOf(s, spend) == {p \in s.pins : p.spend = spend}

Expiry(lease, epoch) == IF lease < epoch + Retention THEN lease ELSE epoch + Retention

Entry(status, request, rev, epoch) ==
  [status |-> status, request |-> request, rev |-> rev, epoch |-> epoch]

Charge(a, stored, control, tombs) ==
  [stored |-> a.stored + stored, control |-> a.control + control, tombs |-> a.tombs + tombs]

-----------------------------------------------------------------------------
\* The inbox: #applyCreate, #applyRenew, #applyClose, #applyInboxGc, #applyPolicy

CreateOK(s, f) ==
  Fresh(s, f.request) /\ s.inbox[f.request.topic] = None /\ f.lease = f.epoch + Lease
Create(s, f) ==
  [s EXCEPT !.spends[f.request.spend] = Entry("committed", f.request, 0, f.epoch),
            !.inbox[f.request.topic] =
               [obj |-> "present", lease |-> f.lease, rev |-> 0, policy |-> "visible",
                policyRev |-> 0, visible |-> 0, alloc |-> 0],
            !.acct = Charge(@, 0, 1, 1)]

\* The management compare-and-swap of the frame still holds.
Unchanged(s, topic, f) ==
  Present(s, topic) /\ s.inbox[topic].rev = f.rev /\ s.inbox[topic].lease = f.old

RenewOK(s, f) ==
  Fresh(s, f.request) /\ Unchanged(s, f.request.topic, f) /\ f.lease > f.old
Renew(s, f) ==
  [s EXCEPT !.spends[f.request.spend] = Entry("committed", f.request, f.rev + 1, f.epoch),
            !.inbox[f.request.topic] = [@ EXCEPT !.rev = f.rev + 1, !.lease = f.lease],
            !.acct = Charge(@, 0, 1, 0)]

CloseOK(s, f) == Unchanged(s, f.request.topic, f) /\ f.request \notin s.closes
Close(s, f) ==
  [s EXCEPT !.inbox[f.request.topic] = [@ EXCEPT !.rev = f.rev + 1, !.obj = "closed"],
            !.closes = @ \cup {f.request}, !.acct = Charge(@, 0, 1, 0)]

GcOK(s, f) == Unchanged(s, f.topic, f) /\ f.epoch > f.old
Gc(s, f) == [s EXCEPT !.inbox[f.topic] = [@ EXCEPT !.rev = f.rev + 1, !.obj = "expired"]]

PolicyOK(s, f) == s.inbox[f.topic] # None /\ s.inbox[f.topic].policyRev = f.rev
Policy(s, f) ==
  [s EXCEPT !.inbox[f.topic] = [@ EXCEPT !.policyRev = f.rev + 1, !.policy = f.policy]]

-----------------------------------------------------------------------------
\* Frames: #applyAppend, #applyAppendAckFinalized, #applyAppendExpired

AppendOK(s, f) ==
  LET topic == f.request.topic
  IN /\ Fresh(s, f.request) /\ Present(s, topic)
     /\ f.rev = s.inbox[topic].alloc + 1 /\ f.lease = s.inbox[topic].lease
     /\ f.expires = Expiry(f.lease, f.epoch)
     /\ \A x \in s.frames : x.topic = topic => x.rev # f.rev
AppendFrame(s, f) ==
  [s EXCEPT !.spends[f.request.spend] = Entry("provisional", f.request, f.rev, f.epoch),
            !.inbox[f.request.topic].alloc = f.rev,
            !.frames = @ \cup {[topic |-> f.request.topic, rev |-> f.rev, spend |-> f.request.spend,
                                blob |-> f.blob, expires |-> f.expires]},
            !.acct = Charge(@, 1, 1, 0)]

\* The revision is stored, and its acknowledgement is final.
Settled(s, topic, rev) ==
  \E x \in s.frames :
    x.topic = topic /\ x.rev = rev /\ HasStatus(s, x.spend, {"committed", "expired"})

\* Mutant: the prefix grows by one revision at most.
BugPrefix(s, topic) ==
  LET v == s.inbox[topic].visible IN IF Settled(s, topic, v + 1) THEN v + 1 ELSE v

\* The loop of #applyAppendAckFinalized over the revisions that readers may see.
Prefix(s, topic) ==
  LET r == s.inbox[topic]
  IN Max({v \in r.visible..r.alloc : \A w \in (r.visible + 1)..v : Settled(s, topic, w)})

FinalOK(s, f) == HasStatus(s, f.spend, {"provisional"}) /\ f.epoch >= s.spends[f.spend].epoch
Final(s, f) ==
  LET topic == s.spends[f.spend].request.topic
      done == [s EXCEPT !.spends[f.spend].status = "committed"]
  IN [done EXCEPT !.inbox[topic].visible = Prefix(done, topic)]

ExpireOK(s, f) ==
  /\ f.frame \in s.frames /\ HasStatus(s, f.frame.spend, {"committed"})
  /\ f.frame.expires <= f.epoch /\ ~Pinned(s, f.frame)
Expire(s, f) ==
  [s EXCEPT !.spends[f.frame.spend].status = "expired", !.frames = @ \ {f.frame},
            !.acct = Charge(@, -1, 0, 0)]

-----------------------------------------------------------------------------
\* Charged reads: #applyReadPin, #applyReadFinal, #applyReadExpired

PinOK(s, f) ==
  /\ Fresh(s, f.request) /\ Present(s, f.request.topic)
  /\ \A e \in f.entries :
       /\ e.rev <= f.snapshot
       /\ \E x \in s.frames : x.topic = f.request.topic /\ x.rev = e.rev /\ x.blob = e.blob
Pin(s, f) ==
  [s EXCEPT !.spends[f.request.spend] = Entry("reserved", f.request, 0, f.epoch),
            !.pins = @ \cup {[spend |-> f.request.spend, topic |-> f.request.topic,
                              entries |-> f.entries]},
            !.acct = Charge(@, 0, 2 + Cardinality(f.entries), 0)]

ReadFinalOK(s, f) ==
  /\ HasStatus(s, f.spend, {"reserved"}) /\ PinOf(s, f.spend) # {}
  /\ f.epoch >= s.spends[f.spend].epoch
ReadFinal(s, f) == [s EXCEPT !.spends[f.spend].status = "committed"]

\* Mutant: the records of the pin's frames are not released.
BugUnpin(s, f) ==
  [s EXCEPT !.spends[f.spend].status = IF @ = "reserved" THEN "terminal" ELSE @,
            !.pins = @ \ PinOf(s, f.spend), !.acct = Charge(@, 0, -1, 0)]

UnpinOK(s, f) == HasStatus(s, f.spend, {"committed", "reserved"}) /\ PinOf(s, f.spend) # {}
Unpin(s, f) ==
  LET p == CHOOSE p \in s.pins : p.spend = f.spend
  IN [s EXCEPT !.spends[f.spend].status = IF @ = "reserved" THEN "terminal" ELSE @,
               !.pins = @ \ {p}, !.acct = Charge(@, 0, -1 - Cardinality(p.entries), 0)]

-----------------------------------------------------------------------------
\* #applyFloor, #applyIntegrity
FloorOK(s, f) ==
  f.old = s.floor /\ f.new >= f.old /\ (f.old # 0 => f.new - f.old <= MaxStep)
Floor(s, f) == [s EXCEPT !.floor = f.new]

IntegrityOK(s, f) == f.epoch <= s.floor
Integrity(s, f) == [s EXCEPT !.gap = @ \cup {f.blob}]

\* #applyFrame
Accepts(s, f) ==
  CASE f.t = "create" -> CreateOK(s, f)  [] f.t = "renew" -> RenewOK(s, f)
    [] f.t = "close" -> CloseOK(s, f)    [] f.t = "gc" -> GcOK(s, f)
    [] f.t = "policy" -> PolicyOK(s, f)  [] f.t = "append" -> AppendOK(s, f)
    [] f.t = "final" -> FinalOK(s, f)    [] f.t = "expire" -> ExpireOK(s, f)
    [] f.t = "pin" -> PinOK(s, f)        [] f.t = "readfinal" -> ReadFinalOK(s, f)
    [] f.t = "unpin" -> UnpinOK(s, f)    [] f.t = "floor" -> FloorOK(s, f)
    [] f.t = "integrity" -> IntegrityOK(s, f)  [] OTHER -> FALSE

Applied(s, f) ==
  CASE f.t = "create" -> Create(s, f)  [] f.t = "renew" -> Renew(s, f)
    [] f.t = "close" -> Close(s, f)    [] f.t = "gc" -> Gc(s, f)
    [] f.t = "policy" -> Policy(s, f)  [] f.t = "append" -> AppendFrame(s, f)
    [] f.t = "final" -> Final(s, f)    [] f.t = "expire" -> Expire(s, f)
    [] f.t = "pin" -> Pin(s, f)        [] f.t = "readfinal" -> ReadFinal(s, f)
    [] f.t = "unpin" -> Unpin(s, f)    [] f.t = "floor" -> Floor(s, f)
    [] f.t = "integrity" -> Integrity(s, f)

\* #assertAccounting
AccountsOK(s) == \A k \in DOMAIN s.acct : s.acct[k] >= 0
==============================================================================

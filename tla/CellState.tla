------------------------------ MODULE CellState ------------------------------
(***************************************************************************)
(* The state BlindCellStorageEngine keeps in memory and rebuilds from its  *)
(* WAL (packages/blind-daemon/storage-engine.js), and #applyFrame: for     *)
(* every frame type, when the apply handler accepts a frame and the state  *)
(* it leaves.  A handler that throws refuses the frame.                    *)
(*                                                                         *)
(* A request is a record of what its fingerprint covers, so that equal     *)
(* records have equal fingerprints; Commitment drops the spend tag.  All   *)
(* bodies have one length, the unit of byte counts, and all leases one     *)
(* class.  Hash, signature and canonical-encoding checks of the handlers   *)
(* hold for every frame this engine encodes and are left out.              *)
(***************************************************************************)
EXTENDS Integers, FiniteSets

CONSTANTS Slots,        \* storage slots
          Spends,       \* admission spend tags
          None,
          LeaseEpochs,  \* LEASE_EPOCHS of the one lease class
          Grace,        \* EXPIRY_GRACE_EPOCHS
          Horizon,      \* RETENTION_HORIZON_EPOCHS
          MaxJump       \* CLOCK_MAX_JUMP_EPOCHS

ASSUME EpochConstants ==
  /\ LeaseEpochs \in Nat \ {0} /\ Grace \in Nat /\ Horizon \in Nat /\ MaxJump \in Nat

Commitment(request) == [request EXCEPT !.spend = None]

\* control records held by a charged read pin until it expires
PinControl == 2

NoAccounts == [stored |-> 0, staging |-> 0, control |-> 0, tombs |-> 0, reserved |-> 0]

EmptyState ==
  [cells |-> [x \in Slots |-> None], spends |-> [x \in Spends |-> None], results |-> {},
   floor |-> 0, unsafe |-> FALSE, gap |-> {}, acct |-> NoAccounts]

Charge(a, stored, staging, control, tombs, reserved) ==
  [stored |-> a.stored + stored, staging |-> a.staging + staging,
   control |-> a.control + control, tombs |-> a.tombs + tombs,
   reserved |-> a.reserved + reserved]

Present(s, slot) == s.cells[slot] # None /\ s.cells[slot].obj = "present"

\* publiclyVisible
Visible(s, slot) ==
  /\ Present(s, slot) /\ s.cells[slot].policy = "visible"
  /\ s.floor <= s.cells[slot].lease + Grace

Expired(s, slot) == Present(s, slot) /\ s.floor > s.cells[slot].lease + Grace

\* this.commitments has the request's commitment
Committed(s, request) ==
  \E x \in Spends : s.spends[x] # None /\ Commitment(s.spends[x].request) = Commitment(request)

Fresh(s, request) == s.spends[request.spend] = None /\ ~Committed(s, request)

Reserved(s, spend) == s.spends[spend] # None /\ s.spends[spend].status = "reserved"

\* The allocation epoch of a create is inside its accepted window.
Allocatable(s, request) ==
  request.alloc <= s.floor + 1 /\ s.floor < request.alloc + Horizon

Entry(status, request, epoch) ==
  [status |-> status, request |-> request, epoch |-> epoch, terminal |-> None,
   attempts |-> 0, pins |-> None]

NewCell(spend, blob, lease) ==
  [obj |-> "present", spend |-> spend, blob |-> blob, lease |-> lease, rev |-> 0,
   policy |-> "visible", policyRev |-> 0, terminal |-> None]

-----------------------------------------------------------------------------
\* Creating a cell in three frames: reservation, attempt, commit.

ReservationOK(s, f) ==
  /\ Fresh(s, f.request) /\ s.cells[f.request.slot] = None
  /\ f.epoch = s.floor
Reservation(s, f) ==
  [s EXCEPT !.spends[f.request.spend] = [Entry("reserved", f.request, None) EXCEPT !.attempts = 2],
            !.acct = Charge(@, 0, 1, 1, 1, 1)]

\* Mutant: the last credit is not taken from the entry.
BugAttempt(s, f) == [s EXCEPT !.spends[f.spend].attempts = 1]

AttemptOK(s, f) == Reserved(s, f.spend) /\ f.attempts = s.spends[f.spend].attempts - 1
Attempt(s, f) == [s EXCEPT !.spends[f.spend].attempts = f.attempts]

PutOK(s, f) ==
  /\ Reserved(s, f.spend)
  /\ s.spends[f.spend].attempts <= 1
  /\ f.epoch = s.floor /\ f.lease = f.epoch + LeaseEpochs
  /\ s.cells[s.spends[f.spend].request.slot] = None
Put(s, f) ==
  [s EXCEPT !.spends[f.spend] = [@ EXCEPT !.status = "committed", !.epoch = f.epoch],
            !.cells[s.spends[f.spend].request.slot] = NewCell(f.spend, f.blob, f.lease),
            !.acct = Charge(@, 1, -1, 0, 0, -1)]

TerminalOK(s, f) == Reserved(s, f.spend) /\ f.epoch = s.floor
Terminal(s, f) ==
  [s EXCEPT !.spends[f.spend] = [@ EXCEPT !.status = "terminal", !.terminal = f.epoch],
            !.acct = Charge(@, 0, -1, 0, -1, -1)]

\* Creating a cell in one frame.
AtomicPutOK(s, f) ==
  /\ Fresh(s, f.request) /\ s.cells[f.request.slot] = None
  /\ f.epoch = s.floor /\ f.lease = f.epoch + LeaseEpochs
  /\ Allocatable(s, f.request)
AtomicPut(s, f) ==
  [s EXCEPT !.spends[f.request.spend] = Entry("committed", f.request, f.epoch),
            !.cells[f.request.slot] = NewCell(f.request.spend, f.blob, f.lease),
            !.acct = Charge(@, 1, 0, 1, 1, 0)]

-----------------------------------------------------------------------------
\* Managing a cell.  The revision and lease a request names are compared and
\* swapped: the frame carries them as the old values.

Matches(s, request) ==
  /\ Present(s, request.slot)
  /\ s.cells[request.slot].rev = request.rev /\ s.cells[request.slot].lease = request.lease

RenewedLease(epoch, lease) ==
  IF epoch + LeaseEpochs > lease THEN epoch + LeaseEpochs ELSE lease

RenewOK(s, f) ==
  /\ Fresh(s, f.request) /\ Matches(s, f.request)
  /\ f.epoch = s.floor
  /\ f.newLease = RenewedLease(f.epoch, f.request.lease) /\ f.newLease > f.request.lease

\* Mutant: the renewed lease is not written to the record.
BugRenew(s, f) ==
  [s EXCEPT !.cells[f.request.slot] = [@ EXCEPT !.rev = @ + 1],
            !.spends[f.request.spend] = Entry("committed", f.request, f.epoch),
            !.acct = Charge(@, 0, 0, 1, 0, 0)]

Renew(s, f) ==
  [s EXCEPT !.cells[f.request.slot] = [@ EXCEPT !.rev = @ + 1, !.lease = f.newLease],
            !.spends[f.request.spend] = Entry("committed", f.request, f.epoch),
            !.acct = Charge(@, 0, 0, 1, 0, 0)]

Tombstone(cell, epoch) == [cell EXCEPT !.obj = "tombstone", !.rev = @ + 1, !.terminal = epoch]

DropOK(s, f) ==
  /\ \A r \in s.results : r.request # f.request
  /\ Matches(s, f.request) /\ f.epoch = s.floor
Drop(s, f) ==
  [s EXCEPT !.cells[f.request.slot] = Tombstone(@, f.epoch),
            !.results = @ \cup {[request |-> f.request, epoch |-> f.epoch]},
            !.acct = Charge(@, -1, 0, 0, 0, 0)]

PolicyOK(s, f) ==
  /\ Present(s, f.slot)
  /\ s.cells[f.slot].policyRev = f.rev /\ s.cells[f.slot].policy # f.policy
  /\ f.epoch = s.floor
Policy(s, f) ==
  [s EXCEPT !.cells[f.slot] = [@ EXCEPT !.policy = f.policy, !.policyRev = @ + 1]]

GcOK(s, f) ==
  /\ Matches(s, f) /\ f.epoch > f.lease + Grace /\ f.epoch = s.floor

Gc(s, f) ==
  [s EXCEPT !.cells[f.slot] = Tombstone(@, f.epoch), !.acct = Charge(@, -1, 0, 0, 0, 0)]

-----------------------------------------------------------------------------
\* The clock.
FloorOK(s, f) ==
  /\ f.old = s.floor /\ f.new >= f.old
  /\ f.t = "confirm" \/ f.new <= f.old + MaxJump \/ f.old = 0
Floor(s, f) == [s EXCEPT !.floor = f.new, !.unsafe = @ /\ f.t # "confirm"]

Rollback(floor, observed) == observed < floor
Jump(floor, observed) == observed > floor + MaxJump

UnsafeOK(s, f) ==
  /\ f.floor = s.floor
  /\ Rollback(f.floor, f.observed) \/ Jump(f.floor, f.observed)
Unsafe(s, f) == [s EXCEPT !.unsafe = TRUE]

-----------------------------------------------------------------------------
\* Mutant: the horizon is one epoch short.
BugOutlived(s, epoch) == epoch # None /\ s.floor - epoch >= Horizon

\* Compaction drops what is older than the retention horizon.
Outlived(s, epoch) == epoch # None /\ s.floor - epoch > Horizon

Age(entry) == IF entry.terminal = None THEN entry.epoch ELSE entry.terminal

Compactable(s) ==
  {<<"cell", x>> : x \in {y \in Slots : /\ s.cells[y] # None /\ s.cells[y].obj = "tombstone"
                                        /\ Outlived(s, s.cells[y].terminal)}}
  \cup {<<"spend", x>> : x \in {y \in Spends : s.spends[y] # None /\ Outlived(s, Age(s.spends[y]))}}
  \cup {<<"result", r>> : r \in {q \in s.results : Outlived(s, q.epoch)}}

\* Control records of a spend entry.
Weight(entry) == IF entry.status \in {"pinned", "finalized"} THEN PinControl ELSE 1

CompactOK(s, f) == f.epoch = s.floor /\ <<f.kind, f.key>> \in Compactable(s)
Compact(s, f) ==
  CASE f.kind = "cell" -> [s EXCEPT !.cells[f.key] = None, !.acct = Charge(@, 0, 0, 0, -1, 0)]
    [] f.kind = "spend" -> [s EXCEPT !.spends[f.key] = None,
                                     !.acct = Charge(@, 0, 0, -Weight(s.spends[f.key]), 0, 0)]
    [] f.kind = "result" -> [s EXCEPT !.results = @ \ {f.key}]

\* A lost or damaged body was found: integrityEvidence grows.
Integrity(s, f) == [s EXCEPT !.gap = @ \cup {f.evidence}]

-----------------------------------------------------------------------------
\* Charged reads.  chargedReadPinEntry: what a pin records of a cell.
PinOf(s, slot) ==
  IF Visible(s, slot)
  THEN [lease |-> s.cells[slot].lease, rev |-> s.cells[slot].rev,
        policyRev |-> s.cells[slot].policyRev, blob |-> s.cells[slot].blob]
  ELSE None

ExactSource(s, slot, pin) == PinOf(s, slot) = pin

\* #chargedReadSourcesMatch without exact: a renewal is not a revocation
ServableSource(s, slot, pin) ==
  pin # None => /\ Visible(s, slot)
                /\ s.cells[slot].policyRev = pin.policyRev /\ s.cells[slot].blob = pin.blob

Pinned(s, spend) == s.spends[spend] # None /\ s.spends[spend].status \in {"pinned", "finalized"}

PinOK(s, f) ==
  /\ Fresh(s, f.request) /\ f.epoch = s.floor
  /\ ExactSource(s, f.request.slot, f.pins)
  /\ f.request.batch \/ f.pins # None
Pin(s, f) ==
  [s EXCEPT !.spends[f.request.spend] =
              [Entry("pinned", f.request, f.epoch) EXCEPT !.pins = f.pins],
            !.acct = Charge(@, 0, 0, PinControl, 0, 0)]

FinalOK(s, f) ==
  /\ s.spends[f.spend] # None /\ s.spends[f.spend].status = "pinned" /\ f.epoch = s.floor
  /\ ExactSource(s, s.spends[f.spend].request.slot, s.spends[f.spend].pins)
Final(s, f) == [s EXCEPT !.spends[f.spend].status = "finalized"]

ExpireOK(s, f) == Pinned(s, f.spend) /\ f.epoch = s.floor
\* Mutant: an expired pin keeps its control bytes.
BugExpire(s, f) ==
  [s EXCEPT !.spends[f.spend] = [@ EXCEPT !.status = "expired", !.terminal = f.epoch, !.pins = None]]

Expire(s, f) ==
  [s EXCEPT !.spends[f.spend] = [@ EXCEPT !.status = "expired", !.terminal = f.epoch, !.pins = None],
            !.acct = Charge(@, 0, 0, 1 - PinControl, 0, 0)]

-----------------------------------------------------------------------------
\* #applyFrame: the handler of the frame's type does not throw ...
Accepts(s, f) ==
  CASE f.t = "reserve" -> ReservationOK(s, f) [] f.t = "attempt" -> AttemptOK(s, f)
    [] f.t = "put" -> PutOK(s, f)             [] f.t = "terminal" -> TerminalOK(s, f)
    [] f.t = "atomic" -> AtomicPutOK(s, f)    [] f.t = "renew" -> RenewOK(s, f)
    [] f.t = "drop" -> DropOK(s, f)           [] f.t = "policy" -> PolicyOK(s, f)
    [] f.t = "gc" -> GcOK(s, f)               [] f.t = "compact" -> CompactOK(s, f)
    [] f.t \in {"floor", "confirm"} -> FloorOK(s, f)
    [] f.t = "unsafe" -> UnsafeOK(s, f)       [] f.t = "integrity" -> TRUE
    [] f.t = "pin" -> PinOK(s, f)             [] f.t = "final" -> FinalOK(s, f)
    [] f.t = "expire" -> ExpireOK(s, f)

\* ... and leaves this state.
Applied(s, f) ==
  CASE f.t = "reserve" -> Reservation(s, f)   [] f.t = "attempt" -> Attempt(s, f)
    [] f.t = "put" -> Put(s, f)               [] f.t = "terminal" -> Terminal(s, f)
    [] f.t = "atomic" -> AtomicPut(s, f)      [] f.t = "renew" -> Renew(s, f)
    [] f.t = "drop" -> Drop(s, f)             [] f.t = "policy" -> Policy(s, f)
    [] f.t = "gc" -> Gc(s, f)                 [] f.t = "compact" -> Compact(s, f)
    [] f.t \in {"floor", "confirm"} -> Floor(s, f)
    [] f.t = "unsafe" -> Unsafe(s, f)         [] f.t = "integrity" -> Integrity(s, f)
    [] f.t = "pin" -> Pin(s, f)               [] f.t = "final" -> Final(s, f)
    [] f.t = "expire" -> Expire(s, f)

\* #assertAccounting
AccountsOK(s) == \A k \in DOMAIN s.acct : s.acct[k] >= 0
==============================================================================

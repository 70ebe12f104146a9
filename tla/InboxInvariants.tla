-------------------------- MODULE InboxInvariants ----------------------------
(***************************************************************************)
(* What holds of the state of the Inbox between two frames, what a frame   *)
(* that a call submits has to say, and what a frame may do to the state.   *)
(* InboxProofs shows that every handler of #applyFrame keeps it,           *)
(* InboxCallsProofs that the calls rely on no more than this.              *)
(***************************************************************************)
EXTENDS InboxState

FrameRecords == [topic : Topics, rev : Nat, spend : Spends, blob : Objects, expires : Nat]
Pins == [spend : Spends, topic : Topics, entries : SUBSET PageEntries]
Accounts == [stored : Int, control : Int, tombs : Int]
States ==
  [inbox : [Topics -> Inboxes \cup {None}], frames : SUBSET FrameRecords,
   spends : [Spends -> Spendings \cup {None}], pins : SUBSET Pins,
   closes : SUBSET Requests, floor : Nat, gap : SUBSET Objects, acct : Accounts]

\* Every frame is of an append to its inbox, acknowledged or not yet, and expires
\* after the epoch of the append.
Placed(s) ==
  \A x \in s.frames :
    /\ s.inbox[x.topic] # None /\ x.rev >= 1 /\ x.rev <= s.inbox[x.topic].alloc
    /\ s.spends[x.spend] # None /\ s.spends[x.spend].status \in {"provisional", "committed"}
    /\ s.spends[x.spend].request.op = "append" /\ s.spends[x.spend].request.topic = x.topic
    /\ x.expires > s.spends[x.spend].epoch
Distinct(s) ==
  \A x, y \in s.frames : x.spend = y.spend \/ (x.topic = y.topic /\ x.rev = y.rev) => x = y

\* The status of a spend fits what it paid for; an append has its frame until it expires.
SpendOK(s, p) ==
  LET e == s.spends[p]
  IN /\ e.request.op \notin {"close", "policy"} /\ e.request.spend = p
     /\ e.request.op \in {"create", "renew"} => e.status = "committed"
     /\ Charged(e.request.op) => e.status \in {"reserved", "committed", "terminal"}
     /\ e.request.op = "append" =>
          \/ e.status \in {"provisional", "committed"} /\ \E x \in s.frames : x.spend = p
          \/ e.status = "expired" /\ s.floor > e.epoch
Told(s) == \A p \in Spends : s.spends[p] # None => SpendOK(s, p)

InboxOK(s, k) ==
  /\ s.inbox[k].visible <= s.inbox[k].alloc
  /\ s.inbox[k].obj = "expired" => s.floor > s.inbox[k].lease + Grace
Bounded(s) == \A k \in Topics : s.inbox[k] # None => InboxOK(s, k)

\* A charged read has one pin.
Paired(s) ==
  /\ \A p \in s.pins : s.spends[p.spend] # None /\ Charged(s.spends[p.spend].request.op)
  /\ \A p, q \in s.pins : p.spend = q.spend => p = q

\* VisiblePrefix, PinsHold and AccountingExact of any state
Prefixed(s) ==
  \A k \in Topics : s.inbox[k] # None =>
    /\ \A x \in s.frames :
         x.topic = k /\ x.rev <= s.inbox[k].visible => ~HasStatus(s, x.spend, {"provisional"})
    /\ ~Settled(s, k, s.inbox[k].visible + 1)
Held(s) ==
  \A p \in s.pins : \A e \in p.entries :
    \E x \in s.frames : x.topic = p.topic /\ x.rev = e.rev /\ x.blob = e.blob

Created(s) == {k \in Topics : s.inbox[k] # None}
Spent(s) == {p \in Spends : s.spends[p] # None}
RecordsOf(p) == {<<p.spend, e>> : e \in p.entries \cup {None}}
Records(s) == UNION {RecordsOf(p) : p \in s.pins}
Counted(s) ==
  /\ IsFiniteSet(s.frames) /\ IsFiniteSet(s.closes) /\ IsFiniteSet(Records(s))
  /\ \A p \in s.pins : IsFiniteSet(p.entries)
  /\ s.acct.stored = Cardinality(s.frames) /\ s.acct.tombs = Cardinality(Created(s))
  /\ s.acct.control = Cardinality(Spent(s)) + Cardinality(s.closes) + Cardinality(Records(s))

Good(s) ==
  /\ s \in States /\ Placed(s) /\ Distinct(s) /\ Told(s) /\ Bounded(s)
  /\ Paired(s) /\ Prefixed(s) /\ Held(s) /\ Counted(s)

-----------------------------------------------------------------------------
\* What a submitted frame says is true of the state it was made from, and of every
\* later one.
Pays(s, p, ops) == p \in Spends /\ s.spends[p] # None /\ s.spends[p].request.op \in ops
FrameOK(s, f) ==
  /\ f.t \in {"create", "renew", "close", "append"} => f.request \in Requests /\ f.request.op = f.t
  /\ f.t \in {"create", "renew"} => f.epoch \in Nat /\ f.lease \in Nat
  /\ f.t \in {"renew", "close", "gc", "policy", "append"} => f.rev \in Nat
  /\ f.t = "gc" => /\ f.topic \in Topics /\ f.old \in Nat /\ f.epoch \in Nat
                   /\ f.epoch > f.old + Grace /\ f.epoch <= s.floor
  /\ f.t = "policy" => f.topic \in Topics /\ f.policy \in {"visible", "suppressed"}
  /\ f.t = "append" => f.epoch \in Nat /\ f.blob \in Objects /\ f.expires \in Nat /\ f.expires > f.epoch
  /\ f.t = "final" => Pays(s, f.spend, {"append"})
  /\ f.t = "expire" => f.epoch \in Nat /\ f.epoch <= s.floor
  /\ f.t = "pin" => /\ f.request \in Requests /\ Charged(f.request.op) /\ f.epoch \in Nat
                    /\ f.entries \subseteq PageEntries /\ IsFiniteSet(f.entries)
  /\ f.t = "readfinal" => Pays(s, f.spend, {"charged", "watch"})
  /\ f.t = "unpin" => f.spend \in Spends
  /\ f.t = "floor" => f.new \in Nat
  /\ f.t = "integrity" => f.blob \in Objects

\* No handler takes back a spend, an acknowledgement, an inbox or an epoch of a lease.
Later(s, t) ==
  /\ t.floor >= s.floor
  /\ \A p \in Spends : s.spends[p] # None =>
       /\ t.spends[p] # None /\ t.spends[p].request = s.spends[p].request
       /\ s.spends[p].status # "provisional" => t.spends[p].status # "provisional"
  /\ \A k \in Topics : s.inbox[k] # None =>
       t.inbox[k] # None /\ t.inbox[k].lease >= s.inbox[k].lease

\* The frame closes an inbox to its waiters, or gives them something to read.
Tells(s, f, t, k) ==
  \/ f.t = "close" /\ f.request.topic = k
  \/ f.t = "gc" /\ f.topic = k
  \/ f.t = "policy" /\ f.topic = k /\ f.policy = "suppressed"
  \/ f.t = "final" /\ s.spends[f.spend].request.topic = k /\ t.inbox # s.inbox
Calm(s, f, t) ==
  \A k \in Topics : s.inbox[k] # None =>
    \/ /\ t.inbox[k].visible = s.inbox[k].visible /\ t.inbox[k].obj = s.inbox[k].obj
       /\ t.inbox[k].policy \in {s.inbox[k].policy, "visible"}
    \/ Tells(s, f, t, k)

\* What the caller of a frame relies on once it is applied.
Effect(s, f, t) ==
  /\ f.t \in {"create", "renew"} =>
       t.inbox[f.request.topic] # None /\ t.inbox[f.request.topic].lease = f.lease
  /\ f.t = "append" => /\ t.spends[f.request.spend] # None /\ t.spends[f.request.spend].request = f.request
                       /\ \E x : x.blob = f.blob /\ t.frames = s.frames \cup {x}
  /\ f.t = "final" => t.spends[f.spend] # None /\ t.spends[f.spend].status = "committed"
  /\ f.t = "expire" => t.frames = s.frames \ {f.frame}
  /\ f.t \notin {"append", "expire"} => t.frames = s.frames
  /\ f.t \in {"floor", "integrity"} => t.inbox = s.inbox /\ t.spends = s.spends

StepOK(s, f, t) == Good(t) /\ Later(s, t) /\ Calm(s, f, t) /\ Effect(s, f, t)
==============================================================================

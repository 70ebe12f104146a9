------------------------- MODULE ReplayJournalProofs -------------------------
(***************************************************************************)
(* The replay journal authorises a record at most once, for any number of  *)
(* records and callers, any deadlines, capacity and file limit, any number *)
(* of crashes, and any quarantine that is not shorter than the TTL.        *)
(* Whatever a crash leaves of its file can be opened again, and a receipt  *)
(* that may still authorise its record is backed by a durable frame.       *)
(***************************************************************************)
EXTENDS ReplayJournal, FiniteSetTheorems, TLAPS

Pcs == {"idle", "begin", "check", "compact", "swap", "append", "sync", "receipt"}

\* The call holds its turn; it has passed the check for a live entry; it holds a
\* receipt.
Busy(c) == call[c].pc \in {"check", "compact", "swap", "append", "sync"}
Writing(c) == call[c].pc \in {"compact", "swap", "append", "sync"}
Holds(c, r) == call[c].pc = "receipt" /\ call[c].record = r

\* A record that was authorised, or may be.
Spent(r) == granted[r] >= 1 \/ \E c \in Callers : Holds(c, r)

\* The journal refuses the record until its deadline.
Kept(r) == quarantine >= deadline[r] \/ (r \in DOMAIN entries /\ entries[r].expires >= deadline[r])

Types ==
  /\ deadline \in [Records -> Nat] /\ now \in Nat /\ quarantine \in Nat
  /\ granted \in [Records -> Nat]
  /\ serial \in Seq(Callers \cup {Closer})
  /\ \A r \in DOMAIN entries : entries[r].expires \in Nat
  /\ call = [c \in Callers |-> call[c]]

Calls ==
  \A c \in Callers :
    /\ call[c] = [pc |-> call[c].pc, record |-> call[c].record, now |-> call[c].now, receipt |-> call[c].receipt]
    /\ call[c].pc \in Pcs /\ call[c].now \in Nat
    /\ call[c].pc # "idle" => call[c].record \in Records
    /\ phase = "down" => call[c].pc = "idle"
    /\ Busy(c) => serial # <<>> /\ Head(serial) = c /\ quarantine <= call[c].now /\ call[c].now <= now
    /\ Busy(c) \/ call[c].pc = "receipt" => deadline[call[c].record] <= now + TTL
    /\ call[c].pc = "receipt" => call[c].receipt.expires = deadline[call[c].record]

\* What a record that has not expired may still lead to in an open journal.
Fresh(r) ==
  /\ Spent(r) => Kept(r)
  /\ \A c \in Callers : Writing(c) /\ call[c].record = r => ~Spent(r)
  /\ \A c \in Callers : Holds(c, r) => granted[r] = 0 /\ \A d \in Callers \ {c} : ~Holds(d, r)

Once ==
  \A r \in Records :
    /\ granted[r] <= 1
    /\ granted[r] >= 1 => deadline[r] <= now + TTL
    /\ phase = "open" /\ deadline[r] > now => Fresh(r)

\* The inductive invariant.  AtMostOnce alone is not inductive: that a second
\* authorisation is refused rests on the entry, or the quarantine, that outlives
\* the deadline.
IInv == Types /\ Calls /\ Once

-----------------------------------------------------------------------------
\* What a step that replaces one call does to the others.
LEMMA Update ==
  ASSUME NEW c \in Callers, NEW x, call = [d \in Callers |-> call[d]],
         call' = [call EXCEPT ![c] = x]
  PROVE  /\ call' = [d \in Callers |-> call'[d]]
         /\ call'[c] = x
         /\ \A d \in Callers \ {c} : call'[d] = call[d]
BY Zenon

\* Only the call whose turn it is can be busy.
LEMMA Alone ==
  ASSUME Calls, NEW c \in Callers, Head(serial) = c
  PROVE  \A d \in Callers \ {c} : ~Busy(d)
BY Zenon DEF Calls

\* A call that gives up its turn leaves everything as it was.
LEMMA LeaveStep ==
  ASSUME IInv, NEW c \in Callers, serial # <<>>, Head(serial) = c, Leave(c),
         call[c].pc # "receipt",
         phase' = phase \/ phase' \in {"poisoned", "closing"},
         UNCHANGED <<deadline, now, quarantine, entries, granted>>
  PROVE  IInv'
<1> USE DEF IInv
<1>1. /\ call' = [d \in Callers |-> call'[d]] /\ call'[c] = Idle
      /\ \A d \in Callers \ {c} : call'[d] = call[d]
  BY Update, Zenon DEF Leave, Return, Types
<1>2. \A d \in Callers \ {c} : ~Busy(d)
  BY Alone, Zenon
<1>3. Types'
  BY <1>1 DEF Types, Leave
<1>4. Calls'
  <2> SUFFICES ASSUME NEW d \in Callers PROVE Calls!(d)'
    BY Zenon DEF Calls
  <2>1. CASE d = c
    BY <2>1, <1>1 DEF Calls, Idle, Busy, Pcs
  <2>2. CASE d # c
    BY <2>2, <1>1, <1>2, Zenon DEF Calls, Busy
  <2> QED BY <2>1, <2>2, Zenon
<1>5. \A d \in Callers : /\ Writing(d)' => Writing(d) /\ call'[d] = call[d]
                         /\ \A r \in Records : Holds(d, r)' <=> Holds(d, r)
  BY <1>1 DEF Writing, Holds, Idle
<1>6. Once'
  <2>1. \A r \in Records : Spent(r)' <=> Spent(r)
    BY <1>5, Zenon DEF Spent
  <2>2. \A r \in Records : Kept(r)' <=> Kept(r)
    BY Zenon DEF Kept
  <2>3. \A r \in Records : Fresh(r) => Fresh(r)'
    BY <1>5, <2>1, <2>2, Zenon DEF Fresh
  <2> QED BY <2>3, Zenon DEF Once
<1> QED BY <1>3, <1>4, <1>6, Zenon

\* A call that goes on with its turn, once it is known not to be a replay.
LEMMA GoOn ==
  ASSUME IInv, NEW c \in Callers, Busy(c),
         NEW pc \in {"compact", "swap", "append", "sync"},
         call' = [call EXCEPT ![c].pc = pc],
         UNCHANGED <<deadline, now, quarantine, phase, serial, granted>>,
         \A r \in DOMAIN entries' : entries'[r].expires \in Nat,
         \A r \in Records : deadline[r] > now /\ Kept(r) => Kept(r)',
         Writing(c) \/ (phase = "open" /\ deadline[call[c].record] > now => ~Spent(call[c].record))
  PROVE  IInv'
<1> USE DEF IInv
<1>0. call' = [call EXCEPT ![c] = [call[c] EXCEPT !.pc = pc]]
  BY Zenon
<1>1. /\ call' = [d \in Callers |-> call'[d]]
      /\ call'[c] = [call[c] EXCEPT !.pc = pc]
      /\ \A d \in Callers \ {c} : call'[d] = call[d]
  BY <1>0, Update, Zenon DEF Types
<1>9. /\ call'[c] = [pc |-> pc, record |-> call[c].record, now |-> call[c].now, receipt |-> call[c].receipt]
      /\ call'[c].pc = pc /\ call'[c].record = call[c].record /\ call'[c].now = call[c].now
  <2>1. call[c] = [pc |-> call[c].pc, record |-> call[c].record, now |-> call[c].now, receipt |-> call[c].receipt]
    BY Zenon DEF Calls
  <2> QED BY <1>1, <2>1, Zenon
<1>2. Types'
  BY <1>1, Zenon DEF Types
<1>3. Calls'
  <2> SUFFICES ASSUME NEW d \in Callers PROVE Calls!(d)'
    BY Zenon DEF Calls
  <2>1. CASE d = c
    BY <2>1, <1>9, Zenon DEF Calls, Busy, Pcs
  <2>2. CASE d # c
    BY <2>2, <1>1, Zenon DEF Calls, Busy
  <2> QED BY <2>1, <2>2, Zenon
<1>4. \A d \in Callers \ {c} : Writing(d)' => Writing(d)
  BY <1>1, Zenon DEF Writing
<1>5. \A d \in Callers : \A r \in Records : Holds(d, r)' <=> Holds(d, r)
  BY <1>1, <1>9, Zenon DEF Holds, Busy
<1>6. \A r \in Records : Spent(r)' <=> Spent(r)
  BY <1>5, Zenon DEF Spent
<1>7. Once'
  <2> SUFFICES ASSUME NEW r \in Records, phase = "open", deadline[r] > now PROVE Fresh(r)'
    BY Zenon DEF Once
  <2>1. Fresh(r)
    BY Zenon DEF Once
  <2>2. Spent(r)' => Kept(r)'
    BY <2>1, <1>6, Zenon DEF Fresh
  <2>3. \A d \in Callers : Writing(d)' /\ call'[d].record = r => ~Spent(r)'
    BY <2>1, <1>1, <1>9, <1>4, <1>6, Zenon DEF Fresh
  <2>4. \A d \in Callers : Holds(d, r)' => granted'[r] = 0 /\ \A e \in Callers \ {d} : ~Holds(e, r)'
    BY <2>1, <1>5, Zenon DEF Fresh
  <2> QED BY <2>2, <2>3, <2>4, Zenon DEF Fresh
<1> QED BY <1>2, <1>3, <1>7, Zenon

\* A record with a live entry, or one that the quarantine outlives, is not
\* reserved: the check refuses what was authorised before.
LEMMA CheckStep ==
  ASSUME IInv, NEW c \in Callers, CheckReserve(c)
  PROVE  IInv'
<1> USE DEF IInv
<1> DEFINE r == call[c].record
<1>0. Turn(c, "check") /\ call[c].pc = "check" /\ Busy(c) /\ r \in Records
  BY Zenon DEF CheckReserve, Turn, At, Busy, Calls
<1>1. CASE Leave(c)
  BY <1>0, <1>1, LeaveStep, Zenon DEF CheckReserve, Turn, memory
<1>2. ASSUME ~Leave(c) PROVE IInv'
  <2>1. /\ r \notin Live(call[c].now)
        /\ \E pc \in {"compact", "append"} : call' = [call EXCEPT ![c].pc = pc]
        /\ UNCHANGED <<deadline, now, quarantine, phase, serial, granted, entries>>
    BY <1>2, Zenon DEF CheckReserve, memory
  <2>2. ASSUME phase = "open", deadline[r] > now, Spent(r) PROVE FALSE
    <3>1. Kept(r)
      BY <1>0, <2>2, Zenon DEF Once, Fresh
    <3>2. quarantine <= call[c].now /\ call[c].now <= now /\ call[c].now \in Nat
      BY <1>0, Zenon DEF Calls
    <3>3. r \in DOMAIN entries /\ entries[r].expires >= deadline[r]
      BY <3>1, <3>2, <2>2, <1>0 DEF Kept, Types
    <3>4. ~(entries[r].expires <= call[c].now)
      BY <3>2, <3>3, <2>2, <1>0 DEF Types
    <3>5. r \in Live(call[c].now)
      BY <3>3, <3>4, Zenon DEF Live, Stale
    <3> QED BY <3>5, <2>1, Zenon
  <2>3. \A x \in Records : Kept(x) => Kept(x)'
    BY <2>1, Zenon DEF Kept
  <2> QED BY <2>1, <2>2, <2>3, <1>0, GoOn, Zenon DEF Types
<1> QED BY <1>1, <1>2, Zenon

\* A reservation is queued.
LEMMA ReserveStep ==
  ASSUME IInv, NEW c \in Callers, NEW r \in Records, Reserve(c, r)
  PROVE  IInv'
<1> USE DEF IInv
<1> DEFINE x == [pc |-> "begin", record |-> r, now |-> 0, receipt |-> None]
<1>1. /\ call' = [d \in Callers |-> call'[d]] /\ call'[c] = x
      /\ \A d \in Callers \ {c} : call'[d] = call[d]
  BY Update, Zenon DEF Reserve, Idle, Types
<1>2. /\ UNCHANGED <<deadline, now, quarantine, phase, granted, entries>>
      /\ phase = "open" /\ serial' = Append(serial, c) /\ call[c].pc = "idle"
  BY Zenon DEF Reserve, memory, At
<1>3. Types'
  BY <1>1, <1>2 DEF Types
<1>4. serial # <<>> => serial' # <<>> /\ Head(serial') = Head(serial)
  BY <1>2 DEF Types
<1>5. Calls'
  <2> SUFFICES ASSUME NEW d \in Callers PROVE Calls!(d)'
    BY Zenon DEF Calls
  <2>1. CASE d = c
    BY <2>1, <1>1, <1>2 DEF Calls, Busy, Pcs
  <2>2. CASE d # c
    BY <2>2, <1>1, <1>2, <1>4, Zenon DEF Calls, Busy
  <2> QED BY <2>1, <2>2, Zenon
<1>6. \A d \in Callers : /\ Writing(d)' => Writing(d) /\ call'[d] = call[d]
                         /\ \A y \in Records : Holds(d, y)' <=> Holds(d, y)
  BY <1>1, <1>2 DEF Writing, Holds
<1>7. \A y \in Records : (Spent(y)' <=> Spent(y)) /\ (Kept(y)' <=> Kept(y))
  BY <1>2, <1>6, Zenon DEF Spent, Kept
<1>8. \A y \in Records : Fresh(y) => Fresh(y)'
  BY <1>2, <1>6, <1>7, Zenon DEF Fresh
<1>9. Once'
  BY <1>2, <1>8, Zenon DEF Once
<1> QED BY <1>3, <1>5, <1>9, Zenon

\* The clock is sampled after the quarantine, and the deadline is bounded by it.
LEMMA BeginStep ==
  ASSUME IInv, NEW c \in Callers, BeginReserve(c)
  PROVE  IInv'
<1> USE DEF IInv
<1>0. call[c].pc = "begin" /\ serial # <<>> /\ Head(serial) = c /\ call[c].record \in Records
  BY Zenon DEF BeginReserve, Turn, At, Calls
<1>1. CASE Leave(c)
  BY <1>0, <1>1, LeaveStep, Zenon DEF BeginReserve, memory
<1>2. ASSUME ~Leave(c) PROVE IInv'
  <2>1. /\ UNCHANGED <<deadline, now, quarantine, phase, serial, granted, entries>>
        /\ now >= quarantine /\ deadline[call[c].record] - now <= TTL
        /\ call' = [call EXCEPT ![c] = [@ EXCEPT !.pc = "check", !.now = now]]
    BY <1>2, Zenon DEF BeginReserve, memory, Bounded
  <2>2. call' = [call EXCEPT ![c] = [call[c] EXCEPT !.pc = "check", !.now = now]]
    BY <2>1, Zenon
  <2>3. /\ call' = [d \in Callers |-> call'[d]]
        /\ call'[c] = [call[c] EXCEPT !.pc = "check", !.now = now]
        /\ \A d \in Callers \ {c} : call'[d] = call[d]
    BY <2>2, Update, Zenon DEF Types
  <2>4. /\ call'[c] = [pc |-> "check", record |-> call[c].record, now |-> now, receipt |-> call[c].receipt]
        /\ call'[c].pc = "check" /\ call'[c].record = call[c].record /\ call'[c].now = now
    <3>1. call[c] = [pc |-> call[c].pc, record |-> call[c].record, now |-> call[c].now, receipt |-> call[c].receipt]
      BY Zenon DEF Calls
    <3> QED BY <2>3, <3>1, Zenon
  <2>5. Types'
    BY <2>1, <2>3, Zenon DEF Types
  <2>6. Calls'
    <3> SUFFICES ASSUME NEW d \in Callers PROVE Calls!(d)'
      BY Zenon DEF Calls
    <3>1. CASE d = c
      <4>1. deadline[call[c].record] <= now + TTL
        BY <2>1, <1>0, JournalConstants DEF Types
      <4> QED BY <3>1, <4>1, <1>0, <2>1, <2>4 DEF Calls, Busy, Pcs, Types
    <3>2. CASE d # c
      BY <3>2, <2>1, <2>3, Zenon DEF Calls, Busy
    <3> QED BY <3>1, <3>2, Zenon
  <2>7. \A d \in Callers : /\ Writing(d)' => Writing(d) /\ call'[d] = call[d]
                           /\ \A y \in Records : Holds(d, y)' <=> Holds(d, y)
    BY <1>0, <2>3, <2>4, ZenonT(60) DEF Writing, Holds
  <2>8. \A y \in Records : (Spent(y)' <=> Spent(y)) /\ (Kept(y)' <=> Kept(y))
    BY <2>1, <2>7, Zenon DEF Spent, Kept
  <2>9. \A y \in Records : Fresh(y) => Fresh(y)'
    BY <2>1, <2>7, <2>8, Zenon DEF Fresh
  <2>10. Once'
    BY <2>1, <2>9, Zenon DEF Once
  <2> QED BY <2>5, <2>6, <2>10, Zenon
<1> QED BY <1>1, <1>2, Zenon

\* A compaction keeps the entries whose deadlines have not passed.
LEMMA CompactStep ==
  ASSUME IInv, NEW c \in Callers, CompactRename(c) \/ CompactSwap(c)
  PROVE  IInv'
<1> USE DEF IInv
<1>1. Busy(c) /\ Writing(c) /\ quarantine <= call[c].now /\ call[c].now <= now /\ call[c].now \in Nat
  BY Zenon DEF CompactRename, CompactSwap, Turn, At, Busy, Writing, Calls
<1>2. CASE CompactRename(c)
  <2>1. \A r \in Records : Kept(r) => Kept(r)'
    BY <1>2, Zenon DEF CompactRename, Kept
  <2> QED BY <1>1, <1>2, <2>1, GoOn, Zenon DEF CompactRename, Types
<1>3. CASE CompactSwap(c)
  <2>1. /\ DOMAIN entries' = Live(call[c].now)
        /\ \A r \in Live(call[c].now) : entries'[r].expires = entries[r].expires
    BY <1>3, Zenon DEF CompactSwap, Swapped, Entry
  <2>2. \A r \in DOMAIN entries' : entries'[r].expires \in Nat
    BY <2>1, Zenon DEF Types, Live
  <2>3. \A r \in DOMAIN entries : entries[r].expires > call[c].now => r \in Live(call[c].now)
    BY <1>1 DEF Live, Stale, Types
  <2>4. ASSUME NEW r \in Records, deadline[r] > now, Kept(r) PROVE Kept(r)'
    <3>1. quarantine' = quarantine /\ deadline' = deadline
      BY <1>3, Zenon DEF CompactSwap
    <3>2. CASE quarantine >= deadline[r]
      BY <3>1, <3>2, Zenon DEF Kept
    <3>3. CASE r \in DOMAIN entries /\ entries[r].expires >= deadline[r]
      <4>1. entries[r].expires > call[c].now
        BY <3>3, <2>4, <1>1 DEF Types
      <4> QED BY <4>1, <3>3, <3>1, <2>1, <2>3, Zenon DEF Kept
    <3> QED BY <3>2, <3>3, <2>4, Zenon DEF Kept
  <2> QED BY <1>1, <1>3, <2>2, <2>4, GoOn, Zenon DEF CompactSwap
<1> QED BY <1>2, <1>3, Zenon

\* Writing the frames changes nothing in memory.
LEMMA AppendStep ==
  ASSUME IInv, NEW c \in Callers, AppendFrames(c)
  PROVE  IInv'
<1> USE DEF IInv
<1>1. /\ Busy(c) /\ Writing(c) /\ call[c].pc # "receipt" /\ serial # <<>> /\ Head(serial) = c
      /\ UNCHANGED <<deadline, now, quarantine, phase, entries, granted>>
  BY Zenon DEF AppendFrames, Turn, At, Busy, Writing, memory
<1>2. CASE Leave(c)
  BY <1>1, <1>2, LeaveStep, Zenon
<1>3. CASE call' = [call EXCEPT ![c].pc = "sync"] /\ UNCHANGED serial
  <2>1. \A r \in Records : Kept(r) => Kept(r)'
    BY <1>1, Zenon DEF Kept
  <2> QED BY <1>1, <1>3, <2>1, GoOn, Zenon DEF Types
<1> QED BY <1>2, <1>3, Zenon DEF AppendFrames

\* The receipt is minted: nobody else has been, or can be, authorised for it.
LEMMA SyncStep ==
  ASSUME IInv, NEW c \in Callers, SyncFrames(c)
  PROVE  IInv'
<1> USE DEF IInv
<1>p. call[c].record \in Records
  BY Zenon DEF SyncFrames, Turn, At, Calls
<1> PICK r \in Records : r = call[c].record
  BY <1>p, Zenon
<1> DEFINE live == Live(call[c].now)
<1>0. /\ Busy(c) /\ Writing(c) /\ call[c].pc = "sync" /\ r \in Records
      /\ serial # <<>> /\ Head(serial) = c /\ serial' = Tail(serial)
      /\ call[c].now <= now /\ call[c].now \in Nat /\ deadline[r] <= now + TTL
      /\ UNCHANGED <<deadline, now, quarantine, phase, granted>>
  BY Zenon DEF SyncFrames, Turn, At, Busy, Writing, Calls
<1>1. /\ DOMAIN entries' = live \cup {r}
      /\ entries'[r].expires = deadline[r]
      /\ \A x \in live \ {r} : entries'[x] = entries[x]
  BY Zenon DEF SyncFrames, Entry
<1>2. \A d \in Callers \ {c} : ~Busy(d)
  BY <1>0, Alone, Zenon
<1>3. \A x \in DOMAIN entries' : entries'[x].expires \in Nat
  BY <1>0, <1>1, Zenon DEF Types, Live
<1>4. ASSUME NEW x \in Records, deadline[x] > now, Kept(x) PROVE Kept(x)'
  <2>1. CASE quarantine >= deadline[x]
    BY <2>1, <1>0, Zenon DEF Kept
  <2>2. CASE x \in DOMAIN entries /\ entries[x].expires >= deadline[x]
    <3>1. x \in live
      BY <2>2, <1>4, <1>0 DEF Live, Stale, Types
    <3>2. CASE x = r
      BY <3>2, <1>0, <1>1 DEF Kept, Types
    <3>3. CASE x # r
      BY <3>1, <3>3, <2>2, <1>0, <1>1, Zenon DEF Kept
    <3> QED BY <3>2, <3>3, Zenon
  <2> QED BY <2>1, <2>2, <1>4, Zenon DEF Kept
<1>5. Kept(r)'
  BY <1>0, <1>1 DEF Kept, Types
<1>6. CASE Return(c)
  <2>1. /\ call' = [d \in Callers |-> call'[d]] /\ call'[c] = Idle
        /\ \A d \in Callers \ {c} : call'[d] = call[d]
    BY <1>6, Update, Zenon DEF Return, Types
  <2>2. Types'
    BY <1>0, <1>3, <2>1 DEF Types
  <2>3. Calls'
    <3> SUFFICES ASSUME NEW d \in Callers PROVE Calls!(d)'
      BY Zenon DEF Calls
    <3>1. CASE d = c
      BY <3>1, <2>1 DEF Calls, Idle, Busy, Pcs
    <3>2. CASE d # c
      BY <3>2, <2>1, <1>0, <1>2, Zenon DEF Calls, Busy
    <3> QED BY <3>1, <3>2, Zenon
  <2>4. \A d \in Callers : /\ ~Writing(d)'
                           /\ \A x \in Records : Holds(d, x)' <=> Holds(d, x)
    BY <1>0, <1>2, <2>1 DEF Writing, Holds, Idle, Busy
  <2>5. \A x \in Records : Spent(x)' <=> Spent(x)
    BY <1>0, <2>4, Zenon DEF Spent
  <2>6. \A x \in Records : deadline[x] > now /\ Fresh(x) => Fresh(x)'
    BY <1>0, <1>4, <2>4, <2>5, Zenon DEF Fresh
  <2>7. Once'
    BY <1>0, <2>6, Zenon DEF Once
  <2> QED BY <2>2, <2>3, <2>7, Zenon
<1>7. CASE /\ deadline[r] > now
           /\ call' = [call EXCEPT ![c] = [@ EXCEPT !.pc = "receipt", !.receipt = entries'[r]]]
  <2>1. call' = [call EXCEPT ![c] = [call[c] EXCEPT !.pc = "receipt", !.receipt = entries'[r]]]
    BY <1>7, Zenon
  <2>2. /\ call' = [d \in Callers |-> call'[d]]
        /\ call'[c] = [call[c] EXCEPT !.pc = "receipt", !.receipt = entries'[r]]
        /\ \A d \in Callers \ {c} : call'[d] = call[d]
    BY <2>1, Update, Zenon DEF Types
  <2>3. /\ call'[c] = [pc |-> "receipt", record |-> r, now |-> call[c].now, receipt |-> entries'[r]]
        /\ call'[c].pc = "receipt" /\ call'[c].record = r /\ call'[c].now = call[c].now
        /\ call'[c].receipt = entries'[r]
    <3>1. call[c] = [pc |-> call[c].pc, record |-> call[c].record, now |-> call[c].now, receipt |-> call[c].receipt]
      BY Zenon DEF Calls
    <3> QED BY <2>2, <3>1, Zenon
  <2>4. Types'
    BY <1>0, <1>3, <2>2 DEF Types
  <2>5. Calls'
    <3> SUFFICES ASSUME NEW d \in Callers PROVE Calls!(d)'
      BY Zenon DEF Calls
    <3>1. CASE d = c
      BY <3>1, <2>3, <1>0, <1>1, Zenon DEF Calls, Busy, Pcs
    <3>2. CASE d # c
      BY <3>2, <2>2, <1>0, <1>2, ZenonT(60) DEF Calls, Busy
    <3> QED BY <3>1, <3>2, Zenon
  <2>6. /\ \A d \in Callers : ~Writing(d)'
        /\ \A d \in Callers \ {c} : \A x \in Records : Holds(d, x)' <=> Holds(d, x)
        /\ \A x \in Records : (Holds(c, x)' <=> x = r) /\ ~Holds(c, x)
    <3>1. ~Writing(c)' /\ \A d \in Callers \ {c} : ~Writing(d)'
      BY <1>2, <2>2, <2>3, Zenon DEF Writing, Busy
    <3>2. \A d \in Callers \ {c} : \A x \in Records : Holds(d, x)' <=> Holds(d, x)
      BY <2>2, Zenon DEF Holds
    <3>3. \A x \in Records : (Holds(c, x)' <=> x = r) /\ ~Holds(c, x)
      BY <1>0, <2>3, Zenon DEF Holds
    <3> QED BY <3>1, <3>2, <3>3, Zenon
  <2>7. Once'
    <3> SUFFICES ASSUME NEW x \in Records, phase = "open", deadline[x] > now PROVE Fresh(x)'
      BY <1>0, Zenon DEF Once
    <3>1. Fresh(x)
      BY Zenon DEF Once
    <3>2. CASE x = r
      <4>1. ~Spent(r)
        BY <3>1, <3>2, <1>0, Zenon DEF Fresh
      <4>2. granted[r] = 0 /\ \A d \in Callers : ~Holds(d, r)
        BY <4>1, <1>0 DEF Spent, Types
      <4> QED BY <3>2, <4>2, <2>6, <1>0, <1>5, Zenon DEF Fresh
    <3>3. CASE x # r
      <4>1. \A d \in Callers : Holds(d, x)' <=> Holds(d, x)
        BY <3>3, <2>6, Zenon
      <4>2. Spent(x)' <=> Spent(x)
        BY <4>1, <1>0, Zenon DEF Spent
      <4> QED BY <3>1, <4>1, <4>2, <2>6, <1>0, <1>4, Zenon DEF Fresh
    <3> QED BY <3>2, <3>3, Zenon
  <2> QED BY <2>4, <2>5, <2>7, Zenon
<1> QED BY <1>6, <1>7, Zenon DEF SyncFrames

\* A receipt is burnt.  If it authorises its record it is the only one to do so.
LEMMA ConsumeStep ==
  ASSUME IInv, NEW c \in Callers, Consume(c)
  PROVE  IInv'
<1> USE DEF IInv
<1> DEFINE r == call[c].record
<1>0. /\ call[c].pc = "receipt" /\ r \in Records /\ Holds(c, r)
      /\ call[c].receipt.expires = deadline[r] /\ deadline[r] <= now + TTL
      /\ UNCHANGED <<deadline, now, quarantine, phase, entries, serial>>
  BY Zenon DEF Consume, At, Holds, Calls, memory
<1>1. /\ call' = [d \in Callers |-> call'[d]] /\ call'[c] = Idle
      /\ \A d \in Callers \ {c} : call'[d] = call[d]
  BY Update, Zenon DEF Consume, Return, Types
<1>2. /\ \A d \in Callers : Writing(d)' => Writing(d) /\ call'[d] = call[d]
      /\ \A d \in Callers \ {c} : \A x \in Records : Holds(d, x)' <=> Holds(d, x)
      /\ \A x \in Records : ~Holds(c, x)'
  BY <1>1 DEF Writing, Holds, Idle
<1>3. Calls'
  <2> SUFFICES ASSUME NEW d \in Callers PROVE Calls!(d)'
    BY Zenon DEF Calls
  <2>1. CASE d = c
    BY <2>1, <1>1 DEF Calls, Idle, Busy, Pcs
  <2>2. CASE d # c
    BY <2>2, <1>0, <1>1, Zenon DEF Calls, Busy
  <2> QED BY <2>1, <2>2, Zenon
<1>4. /\ granted' \in [Records -> Nat]
      /\ \A x \in Records \ {r} : granted'[x] = granted[x]
      /\ granted'[r] = granted[r] \/ (granted'[r] = granted[r] + 1 /\ phase = "open" /\ deadline[r] > now)
  BY <1>0 DEF Consume, Current, Types
<1>5. Types'
  BY <1>0, <1>1, <1>4, Zenon DEF Types
<1>6. phase = "open" /\ deadline[r] > now => granted[r] = 0 /\ \A d \in Callers \ {c} : ~Holds(d, r)
  BY <1>0, Zenon DEF Once, Fresh
<1>7. \A x \in Records : granted'[x] <= 1 /\ (granted'[x] >= 1 => deadline[x] <= now + TTL)
  <2>1. \A x \in Records : granted[x] <= 1 /\ (granted[x] >= 1 => deadline[x] <= now + TTL)
    BY Zenon DEF Once
  <2>2. granted'[r] <= 1
    BY <2>1, <1>0, <1>4, <1>6
  <2> QED BY <2>1, <2>2, <1>0, <1>4, Zenon
<1>8. ASSUME NEW x \in Records, phase = "open", deadline[x] > now PROVE Fresh(x)'
  <2>1. Fresh(x)
    BY <1>8, Zenon DEF Once
  <2>2. Spent(x)' => Spent(x)
    BY <1>0, <1>2, <1>4, Zenon DEF Spent
  <2>3. Kept(x) => Kept(x)'
    BY <1>0, Zenon DEF Kept
  <2>4. \A d \in Callers : Writing(d)' /\ call'[d].record = x => ~Spent(x)'
    BY <2>1, <2>2, <1>2, Zenon DEF Fresh
  <2>5. \A d \in Callers : Holds(d, x)' => granted'[x] = 0 /\ \A e \in Callers \ {d} : ~Holds(e, x)'
    BY <2>1, <1>2, <1>4, <1>6, <1>8 DEF Fresh
  <2> QED BY <2>1, <2>2, <2>3, <2>4, <2>5, Zenon DEF Fresh
<1>9. Once'
  BY <1>0, <1>7, <1>8, Zenon DEF Once
<1> QED BY <1>3, <1>5, <1>9, Zenon

\* An I/O error ends the turn; the journal is poisoned or already closing.
LEMMA FailsStep ==
  ASSUME IInv, NEW c \in Callers, Fails(c)
  PROVE  IInv'
<1>1. /\ serial # <<>> /\ Head(serial) = c /\ Leave(c) /\ call[c].pc # "receipt"
      /\ phase' = phase \/ phase' \in {"poisoned", "closing"}
      /\ UNCHANGED <<deadline, now, quarantine, entries, granted>>
  BY Zenon DEF Fails
<1> QED BY <1>1, LeaveStep, Zenon

\* No call is under way when the journal is opened, closed or lost.
LEMMA AllIdle ==
  ASSUME IInv, call' = [c \in Callers |-> call'[c]],
         \A c \in Callers :
           /\ call'[c] = [pc |-> call'[c].pc, record |-> call'[c].record, now |-> call'[c].now, receipt |-> call'[c].receipt]
           /\ call'[c].pc = "idle" /\ call'[c].now \in Nat,
         UNCHANGED <<deadline, now, granted>>, quarantine' \in Nat,
         serial' \in Seq(Callers \cup {Closer}),
         \A r \in DOMAIN entries' : entries'[r].expires \in Nat,
         phase' = "open" => \A r \in Records : granted[r] >= 1 => quarantine' >= deadline[r]
  PROVE  IInv'
<1> USE DEF IInv
<1>1. Types'
  BY Zenon DEF Types
<1>2. Calls'
  BY Zenon DEF Calls, Busy, Pcs
<1>3. \A c \in Callers : ~Writing(c)' /\ \A r \in Records : ~Holds(c, r)'
  BY Zenon DEF Writing, Holds
<1>4. ASSUME NEW r \in Records, phase' = "open" PROVE Fresh(r)'
  BY <1>3, <1>4, Zenon DEF Fresh, Spent, Kept
<1>5. Once'
  BY <1>4, Zenon DEF Once
<1> QED BY <1>1, <1>2, <1>5, Zenon

\* The quarantine of the journal that is opened covers what was authorised before.
LEMMA OpenStep ==
  ASSUME IInv, Open
  PROVE  IInv'
<1> USE DEF IInv
<1>1. /\ UNCHANGED <<deadline, now, granted, serial, call>>
      /\ phase = "down" /\ quarantine' = now + Quarantine
  BY Zenon DEF Open
<1>2. quarantine' \in Nat
  BY <1>1, JournalConstants DEF Types
<1>3. \A r \in DOMAIN entries' : entries'[r].expires \in Nat
  <2>1. \A r \in DOMAIN entries' : entries'[r].expires = now + Retention
    BY Zenon DEF Open, Entry
  <2> QED BY <2>1, JournalConstants DEF Types
<1>4. ASSUME NEW r \in Records, granted[r] >= 1 PROVE quarantine' >= deadline[r]
  <2>1. deadline[r] <= now + TTL
    BY <1>4, Zenon DEF Once
  <2> QED BY <2>1, <1>1, JournalConstants DEF Types
<1>5. \A c \in Callers :
        /\ call'[c] = [pc |-> call'[c].pc, record |-> call'[c].record, now |-> call'[c].now, receipt |-> call'[c].receipt]
        /\ call'[c].pc = "idle" /\ call'[c].now \in Nat
  BY <1>1, Zenon DEF Calls
<1>6. call' = [c \in Callers |-> call'[c]] /\ serial' \in Seq(Callers \cup {Closer})
  BY <1>1, Zenon DEF Types
<1> QED BY <1>1, <1>2, <1>3, <1>4, <1>5, <1>6, AllIdle, Zenon

\* The journal goes down, by a crash or by a close.
LEMMA DownStep ==
  ASSUME IInv, Crash \/ Closed
  PROVE  IInv'
<1> USE DEF IInv
<1>1. /\ UNCHANGED <<deadline, now, granted, quarantine>>
      /\ phase' = "down" /\ entries' = NoEntries /\ call' = [c \in Callers |-> Idle]
  BY Zenon DEF Crash, Closed
<1>2. serial' \in Seq(Callers \cup {Closer})
  <2>1. CASE Crash
    BY <2>1 DEF Crash
  <2>2. CASE Closed
    BY <2>2 DEF Closed, Types
  <2> QED BY <2>1, <2>2, Zenon
<1>3. call' = [c \in Callers |-> call'[c]] /\ \A c \in Callers : call'[c] = Idle
  BY <1>1, Zenon
<1>4. \A c \in Callers :
        /\ call'[c] = [pc |-> call'[c].pc, record |-> call'[c].record, now |-> call'[c].now, receipt |-> call'[c].receipt]
        /\ call'[c].pc = "idle" /\ call'[c].now \in Nat
  BY <1>3 DEF Idle
<1>5. \A r \in DOMAIN entries' : entries'[r].expires \in Nat
  BY <1>1, Zenon DEF NoEntries
<1>6. quarantine' \in Nat
  BY <1>1, Zenon DEF Types
<1> QED BY <1>1, <1>2, <1>3, <1>4, <1>5, <1>6, AllIdle, Zenon

\* Time passes: a deadline that has passed stays passed.
LEMMA TickStep ==
  ASSUME IInv, Tick
  PROVE  IInv'
<1> USE DEF IInv
<1>1. /\ now' = now + 1 /\ now \in Nat
      /\ UNCHANGED <<deadline, phase, quarantine, entries, serial, call, granted>>
  BY Zenon DEF Tick, Types
<1>2. Types'
  BY <1>1 DEF Types
<1>3. Calls'
  <2> SUFFICES ASSUME NEW c \in Callers PROVE Calls!(c)'
    BY Zenon DEF Calls
  <2>1. ASSUME Busy(c) \/ call[c].pc = "receipt" PROVE deadline[call[c].record] <= now + 1 + TTL
    <3>1. call[c].record \in Records /\ deadline[call[c].record] <= now + TTL
      BY <2>1, Zenon DEF Calls, Busy
    <3> QED BY <3>1, <1>1, JournalConstants DEF Types
  <2>2. Busy(c)' <=> Busy(c)
    BY <1>1, Zenon DEF Busy
  <2> QED BY <1>1, <2>1, <2>2 DEF Calls
<1>4. \A r \in Records : Fresh(r) => Fresh(r)'
  BY <1>1, Zenon DEF Fresh, Spent, Kept, Writing, Holds
<1>5. \A r \in Records : granted[r] >= 1 => deadline[r] <= now + 1 + TTL
  BY <1>1, JournalConstants DEF Once, Types
<1>6. Once'
  <2>1. \A r \in Records : deadline[r] > now' => deadline[r] > now
    BY <1>1 DEF Types
  <2> QED BY <1>1, <1>4, <1>5, <2>1, Zenon DEF Once
<1> QED BY <1>2, <1>3, <1>6, Zenon

\* A journal that is being closed takes no new reservation.
LEMMA CloseStep ==
  ASSUME IInv, Close
  PROVE  IInv'
<1> USE DEF IInv
<1>1. /\ UNCHANGED <<deadline, now, quarantine, entries, call, granted>>
      /\ phase' \in {"closing", "poisoned"} /\ serial' = Append(serial, Closer)
  BY Zenon DEF Close
<1>2. Types'
  BY <1>1 DEF Types
<1>3. serial # <<>> => serial' # <<>> /\ Head(serial') = Head(serial)
  BY <1>1 DEF Types
<1>4. Calls'
  BY <1>1, <1>3, Zenon DEF Calls, Busy
<1>5. Once'
  BY <1>1, Zenon DEF Once
<1> QED BY <1>2, <1>4, <1>5, Zenon

-----------------------------------------------------------------------------
\* The invariant holds initially.
LEMMA InitIInv == Init => IInv
<1> SUFFICES ASSUME Init PROVE IInv
  BY Zenon
<1>1. Types
  <2>1. deadline \in [Records -> Nat]
    BY JournalConstants, Zenon DEF Init
  <2>2. DOMAIN entries = {}
    BY Zenon DEF Init, NoEntries
  <2>3. serial \in Seq(Callers \cup {Closer})
    BY DEF Init
  <2>4. call = [c \in Callers |-> call[c]] /\ granted \in [Records -> Nat]
    BY Zenon DEF Init
  <2>5. now \in Nat /\ quarantine \in Nat
    BY Zenon DEF Init
  <2> QED BY <2>1, <2>2, <2>3, <2>4, <2>5, Zenon DEF Types
<1>2. Calls
  BY Zenon DEF Init, Calls, Idle, Busy, Pcs
<1>3. Once
  BY DEF Init, Once
<1> QED BY <1>1, <1>2, <1>3, Zenon DEF IInv

\* Every step keeps the invariant.
LEMMA NextIInv == IInv /\ [Next]_vars => IInv'
<1> SUFFICES ASSUME IInv, [Next]_vars PROVE IInv'
  BY Zenon
<1>1. CASE UNCHANGED vars
  <2>1. UNCHANGED <<deadline, now, phase, quarantine, entries, serial, call, granted>>
    BY <1>1, Zenon DEF vars
  <2> QED BY <2>1 DEF IInv, Types, Calls, Once, Fresh, Spent, Kept, Busy, Writing, Holds
<1>2. CASE Open \/ Tick \/ Crash \/ Close \/ Closed
  BY <1>2, OpenStep, TickStep, DownStep, CloseStep, Zenon
<1>3. ASSUME NEW c \in Callers, Step(c) PROVE IInv'
  BY <1>3, BeginStep, CheckStep, CompactStep, AppendStep, SyncStep, ConsumeStep, Zenon DEF Step
<1>4. ASSUME NEW c \in Callers, Fails(c) \/ \E r \in Records : Reserve(c, r) PROVE IInv'
  BY <1>4, FailsStep, ReserveStep, Zenon
<1> QED BY <1>1, <1>2, <1>3, <1>4, Zenon DEF Next

\* A record is authorised at most once (consumePrivateIpcReplayReservationV2),
\* across compactions, closes, crashes and restarts of the journal.
THEOREM AuthorisedOnce == Spec => []AtMostOnce
<1>1. IInv => AtMostOnce
  BY Zenon DEF IInv, Once, AtMostOnce
<1> QED BY <1>1, InitIInv, NextIInv, PTL DEF Spec

-----------------------------------------------------------------------------
(* What the file holds.  A call that has its turn knows the live tuples of *)
(* the file from the entries in memory, until it fails.                    *)

FrameRecords == [type : {"consume", "expire"}, record : Records]
FileOK(f) == f \in Seq(FrameRecords) /\ Readable(f)

Files ==
  /\ FileOK(file) /\ synced \in 0..Len(file)
  /\ \A image \in older : FileOK(image.file) /\ image.synced \in Nat
  /\ DOMAIN entries \subseteq Records /\ IsFiniteSet(DOMAIN entries)

TurnOK(c, t, r) ==
  /\ call[c].pc \in {"check", "compact", "append"} => DOMAIN entries = Recovered(file)
  /\ Writing(c) => r \notin Live(t) /\ Cardinality(Live(t)) < Capacity
  /\ call[c].pc = "append" => Len(file) + Cardinality(Stale(t)) + 1 <= MaximumRecords
  /\ call[c].pc = "swap" => Recovered(file) = Live(t) /\ Len(file) = Cardinality(Live(t))
  /\ call[c].pc = "sync" => Recovered(file) = Live(t) \cup {r}
Turns == \A c \in Callers : TurnOK(c, call[c].now, call[c].record)
Resting == phase = "open" /\ (\A c \in Callers : ~Busy(c)) => DOMAIN entries = Recovered(file)

\* The last frame of the tuple is a CONSUME, among the first m.
Lasting(f, m, r) ==
  \E i \in 1..m : /\ f[i] = [type |-> "consume", record |-> r]
                  /\ \A j \in (i + 1)..Len(f) : f[j].record # r
Durably(r) == Lasting(file, synced, r)
Safe(r) == r \in DOMAIN entries /\ entries[r].expires >= deadline[r] /\ Durably(r)
ReceiptOK(c, r) == call[c].pc = "receipt" /\ deadline[r] > now => Safe(r)
Receipts == \A c \in Callers : ReceiptOK(c, call[c].record)

\* The inductive invariant for the file.
JInv == IInv /\ Files /\ Turns /\ Resting /\ Receipts

-----------------------------------------------------------------------------
\* The order of a finite set of keys lists each of them once.
LEMMA OrderedIs ==
  ASSUME NEW S, IsFiniteSet(S)
  PROVE  /\ Cardinality(S) \in Nat /\ Ordered(S) \in [1..Cardinality(S) -> S]
         /\ \A x \in S : \E i \in 1..Cardinality(S) : Ordered(S)[i] = x
         /\ \A i, j \in 1..Cardinality(S) : Ordered(S)[i] = Ordered(S)[j] => i = j
<1>1. PICK n : n = Cardinality(S) BY Zenon
<1>2. n \in Nat /\ ExistsBijection(1..n, S) BY <1>1, FS_CardinalityType, Zenon
<1>3. PICK f : f \in Bijection(1..n, S) BY <1>2, Zenon DEF ExistsBijection
<1>4. f \in [1..n -> S] /\ {f[i] : i \in 1..n} = S BY <1>3, Zenon DEF Bijection, Injection, Surjection
<1>5. Ordered(S) \in [1..n -> S] /\ {Ordered(S)[i] : i \in 1..n} = S
  <2>1. \E s \in [1..Cardinality(S) -> S] : {s[i] : i \in 1..Cardinality(S)} = S BY <1>1, <1>4, Zenon
  <2>. QED BY <1>1, <2>1, Zenon DEF Ordered
<1>6. \A x \in S : \E i \in 1..n : Ordered(S)[i] = x BY <1>5, Zenon
<1>7. Ordered(S) \in Surjection(1..n, S) BY <1>5, <1>6, Zenon DEF Surjection
<1>8. IsFiniteSet(1..n) /\ Cardinality(1..n) = n BY <1>2, FS_Interval
<1>9. Ordered(S) \in Injection(1..n, S) BY <1>1, <1>7, <1>8, FS_SurjSameCardinalityImpliesInj, Zenon
<1>10. \A i, j \in 1..n : Ordered(S)[i] = Ordered(S)[j] => i = j
  BY <1>5, <1>9, Zenon DEF Injection, IsInjective
<1>. QED BY <1>1, <1>2, <1>5, <1>6, <1>10, Zenon

\* What recovery reads depends only on the frames before it.
LEMMA SameLive ==
  ASSUME NEW f, NEW g, NEW n \in Nat, \A i \in 1..n : f[i] = g[i]
  PROVE  LiveAfter(f, n) = LiveAfter(g, n)
<1>1. \A i \in 1..n : \A j \in (i + 1)..n : j \in 1..n OBVIOUS
<1>2. ASSUME NEW r \in Records, NEW i \in 1..n
      PROVE  /\ f[i] = [type |-> "consume", record |-> r] <=> g[i] = [type |-> "consume", record |-> r]
             /\ (\A j \in (i + 1)..n : f[j].record # r) <=> (\A j \in (i + 1)..n : g[j].record # r)
  BY <1>1, Zenon
<1>3. \A r \in Records : r \in LiveAfter(f, n) <=> r \in LiveAfter(g, n)
  <2>1. ASSUME NEW r \in Records, NEW i \in 1..n
        PROVE  (f[i] = [type |-> "consume", record |-> r] /\ \A j \in (i + 1)..n : f[j].record # r)
               <=> (g[i] = [type |-> "consume", record |-> r] /\ \A j \in (i + 1)..n : g[j].record # r)
    BY <1>2, Zenon
  <2>. QED BY <2>1, Zenon DEF LiveAfter
<1>4. LiveAfter(f, n) \subseteq Records /\ LiveAfter(g, n) \subseteq Records BY Zenon DEF LiveAfter
<1>. QED BY <1>3, <1>4, Zenon

\* A beginning of a readable file is readable.
LEMMA PrefixOK ==
  ASSUME NEW f, FileOK(f), NEW n \in Nat, n <= Len(f)
  PROVE  /\ FileOK(SubSeq(f, 1, n)) /\ Len(SubSeq(f, 1, n)) = n
         /\ \A i \in 1..n : SubSeq(f, 1, n)[i] = f[i]
<1>. DEFINE g == SubSeq(f, 1, n)
<1>1. f \in Seq(FrameRecords) /\ Len(f) \in Nat BY DEF FileOK
<1>2. g \in Seq(FrameRecords) /\ Len(g) = n /\ \A i \in 1..n : g[i] = f[i] BY <1>1
<1>3. Len(f) <= MaximumRecords /\ MaximumRecords \in Nat BY JournalConstants DEF FileOK, Readable, MaximumRecords
<1>. HIDE DEF g
<1>4. Len(g) <= MaximumRecords BY <1>1, <1>2, <1>3
<1>5. ASSUME NEW i \in 1..n PROVE Follows(g, i)
  <2>1. i - 1 \in Nat /\ i \in 1..Len(f) /\ \A j \in 1..(i - 1) : j \in 1..n BY <1>1
  <2>2. LiveAfter(g, i - 1) = LiveAfter(f, i - 1) BY <1>2, <2>1, SameLive, Zenon
  <2>3. Follows(f, i) BY <2>1, Zenon DEF FileOK, Readable
  <2>. QED BY <1>2, <2>2, <2>3, Zenon DEF Follows
<1>6. Readable(g) BY <1>2, <1>4, <1>5, Zenon DEF Readable
<1>. QED BY <1>2, <1>6, Zenon DEF FileOK, g

\* The live tuples of a file are finitely many.
LEMMA LiveFinite ==
  ASSUME NEW f, f \in Seq(FrameRecords), NEW n \in Nat
  PROVE  LiveAfter(f, n) \subseteq Records /\ IsFiniteSet(LiveAfter(f, n))
<1>1. LiveAfter(f, n) \subseteq Records BY Zenon DEF LiveAfter
<1>. DEFINE T == {x \in 1..n : f[x].record \in LiveAfter(f, n)}
            h == [x \in T |-> f[x].record]
<1>2. IsFiniteSet(1..n) BY FS_Interval
<1>3. IsFiniteSet(T) BY <1>2, FS_Subset, Zenon
<1>4. h \in [T -> LiveAfter(f, n)]
  <2>1. \A x \in T : f[x].record \in LiveAfter(f, n) BY Zenon
  <2>. QED BY <2>1, Zenon
<1>5. ASSUME NEW r \in LiveAfter(f, n) PROVE \E x \in T : h[x] = r
  <2>1. PICK i \in 1..n : f[i] = [type |-> "consume", record |-> r] BY Zenon DEF LiveAfter
  <2>2. f[i].record = r BY <2>1
  <2>. QED BY <2>2, Zenon
<1>6. h \in Surjection(T, LiveAfter(f, n)) BY <1>4, <1>5, Zenon DEF Surjection
<1>. QED BY <1>1, <1>3, <1>6, FS_Surjection, Zenon

\* The frames of a set of tuples.
LEMMA FramesIs ==
  ASSUME NEW S, S \subseteq Records, IsFiniteSet(S), NEW type \in {"consume", "expire"}
  PROVE  /\ Frames(type, S) \in Seq(FrameRecords) /\ Len(Frames(type, S)) = Cardinality(S)
         /\ \A i \in 1..Cardinality(S) : Frames(type, S)[i] = [type |-> type, record |-> Ordered(S)[i]]
<1>. DEFINE n == Cardinality(S)
            o == Ordered(S)
<1>1. n \in Nat /\ \A i \in 1..n : o[i] \in Records BY OrderedIs, Zenon
<1>2. Frames(type, S) = [i \in 1..n |-> [type |-> type, record |-> o[i]]] BY Zenon DEF Frames
<1>. HIDE DEF n, o
<1>3. \A i \in 1..n : [type |-> type, record |-> o[i]] \in FrameRecords BY <1>1, Zenon DEF FrameRecords
<1>4. Frames(type, S) \in Seq(FrameRecords) /\ Len(Frames(type, S)) = n
      /\ \A i \in 1..n : Frames(type, S)[i] = [type |-> type, record |-> o[i]]
  <2>. HIDE DEF FrameRecords
  <2>. QED BY <1>1, <1>2, <1>3
<1>. QED BY <1>4, Zenon DEF n, o

\* A compacted file is readable and holds what it was made of, each tuple once.
LEMMA Compacted ==
  ASSUME NEW S, S \subseteq Records, IsFiniteSet(S), Cardinality(S) < Capacity,
         NEW g, g = Frames("consume", S)
  PROVE  /\ FileOK(g) /\ Recovered(g) = S /\ Len(g) = Cardinality(S)
         /\ \A r \in S : Lasting(g, Len(g), r)
<1>1. PICK n, o : n = Cardinality(S) /\ o = Ordered(S) BY Zenon
<1>2. /\ n \in Nat /\ o \in [1..n -> S] /\ \A x \in S : \E i \in 1..n : o[i] = x
      /\ \A i, j \in 1..n : o[i] = o[j] => i = j
  BY <1>1, OrderedIs, Zenon
<1>3. /\ g \in Seq(FrameRecords) /\ Len(g) = n
      /\ \A i \in 1..n : g[i] = [type |-> "consume", record |-> o[i]]
  BY <1>1, FramesIs, Zenon
<1>4. \A i \in 1..n : g[i].type = "consume" /\ g[i].record = o[i] /\ o[i] \in S
  <2>. TAKE i \in 1..n
  <2>1. g[i] = [type |-> "consume", record |-> o[i]] /\ o[i] \in S BY <1>2, <1>3, Zenon
  <2>2. g[i].type = "consume" /\ g[i].record = o[i] BY <2>1
  <2>. QED BY <2>1, <2>2, Zenon
<1>5. ASSUME NEW r \in S
      PROVE  \E i \in 1..n : /\ g[i] = [type |-> "consume", record |-> r]
                             /\ \A j \in (i + 1)..n : g[j].record # r
  <2>1. PICK i \in 1..n : o[i] = r BY <1>2, Zenon
  <2>2. \A j \in (i + 1)..n : j \in 1..n /\ j # i BY <1>2
  <2>3. ASSUME NEW j \in (i + 1)..n PROVE g[j].record # r
    <3>1. j \in 1..n /\ j # i BY <2>2, Zenon
    <3>2. o[j] # o[i] BY <1>2, <3>1, Zenon
    <3>3. g[j].record = o[j] BY <1>4, <3>1, Zenon
    <3>. QED BY <2>1, <3>2, <3>3, Zenon
  <2>. QED BY <1>3, <2>1, <2>3, Zenon
<1>6. \A k \in 0..n : LiveAfter(g, k) \subseteq S /\ \A x \in LiveAfter(g, k) : \E i \in 1..k : o[i] = x
  <2>. SUFFICES ASSUME NEW k \in 0..n, NEW x \in LiveAfter(g, k)
                PROVE  x \in S /\ \E i \in 1..k : o[i] = x
    BY Zenon
  <2>1. PICK i \in 1..k : g[i] = [type |-> "consume", record |-> x] BY Zenon DEF LiveAfter
  <2>2. i \in 1..n BY <1>2
  <2>3. g[i].record = x BY <2>1
  <2>. QED BY <1>4, <2>2, <2>3, Zenon
<1>7. Recovered(g) = S
  <2>1. n \in 0..n BY <1>2
  <2>2. S \subseteq LiveAfter(g, n) BY <1>5, Zenon DEF LiveAfter
  <2>. QED BY <1>3, <1>6, <2>1, <2>2, Zenon DEF Recovered
<1>8. ASSUME NEW k \in 1..n PROVE Follows(g, k)
  <2>1. k - 1 \in 0..n /\ \A i \in 1..(k - 1) : i \in 1..n /\ i # k BY <1>2
  <2>2. o[k] \notin LiveAfter(g, k - 1)
    <3>1. \A i \in 1..(k - 1) : o[i] # o[k] BY <1>2, <2>1, Zenon
    <3>2. \A x \in LiveAfter(g, k - 1) : \E i \in 1..(k - 1) : o[i] = x BY <1>6, <2>1, Zenon
    <3>. QED BY <3>1, <3>2, Zenon
  <2>3. LiveAfter(g, k - 1) \in SUBSET S BY <1>6, <2>1, Zenon
  <2>4. IsFiniteSet(LiveAfter(g, k - 1)) /\ Cardinality(LiveAfter(g, k - 1)) <= n
    BY <1>1, <2>3, FS_Subset, Zenon
  <2>5. Cardinality(LiveAfter(g, k - 1)) \in Nat BY <2>4, FS_CardinalityType, Zenon
  <2>6. n < Capacity BY <1>1, Zenon
  <2>7. Cardinality(LiveAfter(g, k - 1)) < Capacity BY <1>2, <2>4, <2>5, <2>6, JournalConstants
  <2>8. g[k].type = "consume" /\ g[k].record = o[k] BY <1>4, Zenon
  <2>. QED BY <2>2, <2>7, <2>8, Zenon DEF Follows
<1>9. Len(g) <= MaximumRecords
  <2>1. n < Capacity BY <1>1, Zenon
  <2>. QED BY <1>2, <1>3, <2>1, JournalConstants DEF MaximumRecords
<1>10. \A r \in S : Lasting(g, Len(g), r) BY <1>3, <1>5, Zenon DEF Lasting
<1>. QED BY <1>1, <1>3, <1>7, <1>8, <1>9, <1>10, Zenon DEF FileOK, Readable

\* A CONSUME adds its tuple.
LEMMA OneConsume ==
  ASSUME NEW g, NEW n \in Nat, NEW r \in Records, g[n + 1] = [type |-> "consume", record |-> r]
  PROVE  LiveAfter(g, n + 1) = LiveAfter(g, n) \cup {r}
<1>1. g[n + 1].record = r OBVIOUS
<1>2. /\ n + 1 \in 1..(n + 1) /\ \A j \in (n + 1 + 1)..(n + 1) : FALSE
      /\ \A i \in 1..(n + 1) : i \in 1..n \/ i = n + 1
      /\ \A i \in 1..n : i \in 1..(n + 1)
      /\ \A i \in 1..n : \A j \in (i + 1)..(n + 1) : j \in (i + 1)..n \/ j = n + 1
      /\ \A i \in 1..n : \A j \in (i + 1)..n : j \in (i + 1)..(n + 1)
  OBVIOUS
<1>3. r \in LiveAfter(g, n + 1) BY <1>2, Zenon DEF LiveAfter
<1>4. ASSUME NEW x \in LiveAfter(g, n) PROVE x \in LiveAfter(g, n + 1)
  <2>1. CASE x = r BY <1>3, <2>1, Zenon
  <2>2. CASE x # r
    <3>1. PICK i \in 1..n : /\ g[i] = [type |-> "consume", record |-> x]
                            /\ \A j \in (i + 1)..n : g[j].record # x
      BY Zenon DEF LiveAfter
    <3>2. \A j \in (i + 1)..(n + 1) : g[j].record # x BY <1>1, <1>2, <2>2, <3>1, Zenon
    <3>. QED BY <1>2, <3>1, <3>2, Zenon DEF LiveAfter
  <2>. QED BY <2>1, <2>2, Zenon
<1>5. ASSUME NEW x \in LiveAfter(g, n + 1), x # r PROVE x \in LiveAfter(g, n)
  <2>1. PICK i \in 1..(n + 1) : /\ g[i] = [type |-> "consume", record |-> x]
                                /\ \A j \in (i + 1)..(n + 1) : g[j].record # x
    BY Zenon DEF LiveAfter
  <2>2. g[i].record = x BY <2>1
  <2>3. i \in 1..n BY <1>1, <1>2, <1>5, <2>2, Zenon
  <2>4. \A j \in (i + 1)..n : g[j].record # x BY <1>2, <2>1, <2>3, Zenon
  <2>. QED BY <2>1, <2>3, <2>4, Zenon DEF LiveAfter
<1>. QED BY <1>3, <1>4, <1>5, Zenon

\* Sequences put together.
LEMMA Pushed ==
  ASSUME NEW T, NEW s \in Seq(T), NEW x \in T
  PROVE  /\ s \o <<x>> \in Seq(T) /\ Len(s \o <<x>>) = Len(s) + 1
         /\ \A i \in 1..Len(s) : (s \o <<x>>)[i] = s[i]
         /\ (s \o <<x>>)[Len(s) + 1] = x
OBVIOUS

LEMMA Joined ==
  ASSUME NEW T, NEW s \in Seq(T), NEW t \in Seq(T)
  PROVE  /\ s \o t \in Seq(T) /\ Len(s \o t) = Len(s) + Len(t)
         /\ \A i \in 1..Len(s) : (s \o t)[i] = s[i]
         /\ \A i \in 1..Len(t) : (s \o t)[Len(s) + i] = t[i]
OBVIOUS

\* A readable file with the frames of a reservation behind it is readable.
Extends(f, S, r, g) ==
  /\ FileOK(f) /\ S \subseteq Recovered(f) /\ r \in Records /\ r \notin Recovered(f) \ S
  /\ Cardinality(Recovered(f) \ S) < Capacity /\ Len(f) + Cardinality(S) + 1 <= MaximumRecords
  /\ g = f \o (Frames("expire", S) \o <<[type |-> "consume", record |-> r]>>)

ExtendedOK(f, S, r, g) ==
  /\ FileOK(g) /\ Recovered(g) = (Recovered(f) \ S) \cup {r} /\ Len(g) = Len(f) + Cardinality(S) + 1
  /\ \A i \in 1..Len(f) : g[i] = f[i]
  /\ \A i \in (Len(f) + 1)..Len(g) : g[i].record \in S \cup {r}

LEMMA Extended ==
  ASSUME NEW f, NEW S, NEW r, NEW g, Extends(f, S, r, g)
  PROVE  ExtendedOK(f, S, r, g)
<1>1. PICK l, m, o, e, R : l = Len(f) /\ m = Cardinality(S) /\ o = Ordered(S) /\ e = Frames("expire", S)
                           /\ R = Recovered(f)
  BY Zenon
<1>h. /\ FileOK(f) /\ S \subseteq R /\ r \in Records /\ r \notin R \ S
      /\ Cardinality(R \ S) < Capacity /\ l + m + 1 <= MaximumRecords
      /\ g = f \o (e \o <<[type |-> "consume", record |-> r]>>)
  BY <1>1, Zenon DEF Extends
<1>2. f \in Seq(FrameRecords) /\ l \in Nat /\ R = LiveAfter(f, l) BY <1>1, <1>h DEF FileOK, Recovered
<1>3. S \in SUBSET R /\ S \subseteq Records /\ IsFiniteSet(S)
  <2>1. R \subseteq Records /\ IsFiniteSet(R) BY <1>2, LiveFinite, Zenon
  <2>2. S \in SUBSET R BY <1>h, Zenon
  <2>. QED BY <2>1, <2>2, FS_Subset, Zenon
<1>4. /\ m \in Nat /\ o \in [1..m -> S] /\ \A x \in S : \E i \in 1..m : o[i] = x
      /\ \A i, j \in 1..m : o[i] = o[j] => i = j
  BY <1>1, <1>3, OrderedIs, Zenon
<1>5. /\ e \in Seq(FrameRecords) /\ Len(e) = m
      /\ \A i \in 1..m : e[i] = [type |-> "expire", record |-> o[i]]
  BY <1>1, <1>3, FramesIs, Zenon
<1>6. [type |-> "consume", record |-> r] \in FrameRecords BY <1>h, Zenon DEF FrameRecords
<1>7. /\ g \in Seq(FrameRecords) /\ Len(g) = l + m + 1
      /\ \A i \in 1..l : g[i] = f[i]
      /\ \A i \in 1..m : g[l + i] = e[i]
      /\ g[l + m + 1] = [type |-> "consume", record |-> r]
  <2>1. PICK c : c = [type |-> "consume", record |-> r] BY Zenon
  <2>2. g = f \o (e \o <<c>>) /\ c \in FrameRecords BY <1>6, <1>h, <2>1, Zenon
  <2>3. /\ e \o <<c>> \in Seq(FrameRecords) /\ Len(e \o <<c>>) = m + 1
        /\ \A i \in 1..m : (e \o <<c>>)[i] = e[i]
        /\ (e \o <<c>>)[m + 1] = c
    BY <1>4, <1>5, <2>2, Pushed
  <2>4. PICK w : w = e \o <<c>> BY Zenon
  <2>5. /\ g \in Seq(FrameRecords) /\ Len(g) = l + (m + 1)
        /\ \A i \in 1..l : g[i] = f[i]
        /\ \A i \in 1..(m + 1) : g[l + i] = w[i]
    <3>1. g = f \o w /\ w \in Seq(FrameRecords) /\ Len(w) = m + 1 /\ Len(f) = l
      BY <1>1, <2>2, <2>3, <2>4, Zenon
    <3>2. /\ f \o w \in Seq(FrameRecords) /\ Len(f \o w) = Len(f) + Len(w)
          /\ \A i \in 1..Len(f) : (f \o w)[i] = f[i]
          /\ \A i \in 1..Len(w) : (f \o w)[Len(f) + i] = w[i]
      <4>1. f \in Seq(FrameRecords) /\ w \in Seq(FrameRecords) BY <1>2, <3>1, Zenon
      <4>. QED BY <4>1
    <3>. QED BY <3>1, <3>2, Zenon
  <2>6. l + (m + 1) = l + m + 1 /\ m + 1 \in 1..(m + 1) /\ \A i \in 1..m : i \in 1..(m + 1) BY <1>2, <1>4
  <2>. QED BY <2>1, <2>3, <2>4, <2>5, <2>6, Zenon
<1>8. \A i \in 1..m : g[l + i].type = "expire" /\ g[l + i].record = o[i] /\ o[i] \in S
  <2>. TAKE i \in 1..m
  <2>1. g[l + i] = [type |-> "expire", record |-> o[i]] /\ o[i] \in S BY <1>4, <1>5, <1>7, Zenon
  <2>2. g[l + i].type = "expire" /\ g[l + i].record = o[i] BY <2>1
  <2>. QED BY <2>1, <2>2, Zenon
<1>n. /\ \A i \in 1..(l + m) : i \in 1..l \/ \E k \in 1..m : i = l + k
      /\ \A i \in 1..l : i \in 1..(l + m)
      /\ \A i \in 1..l : \A k \in 1..m : l + k \in (i + 1)..(l + m)
      /\ \A i \in 1..l : \A j \in (i + 1)..l : j \in (i + 1)..(l + m) /\ j \in 1..l
  BY <1>2, <1>4
<1>9. ASSUME NEW x \in R
      PROVE  \E i \in 1..l : /\ g[i] = [type |-> "consume", record |-> x]
                             /\ \A j \in (i + 1)..l : g[j].record # x
  <2>1. PICK i \in 1..l : f[i] = [type |-> "consume", record |-> x] /\ \A j \in (i + 1)..l : f[j].record # x
    BY <1>2, Zenon DEF LiveAfter
  <2>2. g[i] = f[i] BY <1>7, Zenon
  <2>3. ASSUME NEW j \in (i + 1)..l PROVE g[j].record # x
    <3>1. g[j] = f[j] BY <1>7, <1>n, Zenon
    <3>. QED BY <2>1, <3>1, Zenon
  <2>. QED BY <2>1, <2>2, <2>3, Zenon
<1>10. ASSUME NEW k \in 1..m PROVE o[k] \in LiveAfter(g, l + k - 1)
  <2>1. o[k] \in R /\ o[k] \in Records BY <1>3, <1>4, Zenon
  <2>2. PICK i \in 1..l : /\ g[i] = [type |-> "consume", record |-> o[k]]
                          /\ \A j \in (i + 1)..l : g[j].record # o[k]
    BY <1>9, <2>1, Zenon
  <2>3. /\ i \in 1..(l + k - 1)
        /\ \A j \in (i + 1)..(l + k - 1) : j \in (i + 1)..l \/ \E h \in 1..m : j = l + h /\ h # k
    <3>1. i <= l /\ i >= 1 /\ i \in Nat /\ k \in Nat /\ k >= 1 /\ k <= m BY <1>2, <1>4
    <3>2. ASSUME NEW j \in (i + 1)..(l + k - 1), ~(j \in (i + 1)..l) PROVE j - l \in 1..m /\ j = l + (j - l) /\ j - l # k
      BY <1>2, <1>4, <3>1, <3>2
    <3>3. i \in 1..(l + k - 1) BY <1>2, <3>1
    <3>. QED BY <3>2, <3>3, Zenon
  <2>4. ASSUME NEW h \in 1..m, h # k PROVE g[l + h].record # o[k]
    <3>1. o[h] # o[k] BY <1>4, <2>4, Zenon
    <3>. QED BY <1>8, <3>1, Zenon
  <2>5. \A j \in (i + 1)..(l + k - 1) : g[j].record # o[k] BY <2>2, <2>3, <2>4, Zenon
  <2>. QED BY <2>1, <2>2, <2>3, <2>5, Zenon DEF LiveAfter
<1>11. ASSUME NEW x \in R \ S PROVE x \in LiveAfter(g, l + m)
  <2>1. PICK i \in 1..l : /\ g[i] = [type |-> "consume", record |-> x]
                          /\ \A j \in (i + 1)..l : g[j].record # x
    BY <1>9, Zenon
  <2>2. ASSUME NEW j \in (i + 1)..(l + m) PROVE g[j].record # x
    <3>1. j \in (i + 1)..l \/ \E k \in 1..m : j = l + k
      <4>1. ~(j \in (i + 1)..l) => j - l \in 1..m /\ j = l + (j - l) BY <1>2, <1>4
      <4>. QED BY <4>1, Zenon
    <3>2. \A k \in 1..m : g[l + k].record # x BY <1>8, Zenon
    <3>. QED BY <2>1, <3>1, <3>2, Zenon
  <2>3. x \in Records /\ i \in 1..(l + m) BY <1>2, <1>n, Zenon DEF LiveAfter
  <2>. QED BY <2>1, <2>2, <2>3, Zenon DEF LiveAfter
<1>12. ASSUME NEW x \in LiveAfter(g, l + m) PROVE x \in R \ S
  <2>1. PICK i \in 1..(l + m) : /\ g[i] = [type |-> "consume", record |-> x]
                                /\ \A j \in (i + 1)..(l + m) : g[j].record # x
    BY Zenon DEF LiveAfter
  <2>2. g[i].type = "consume" BY <2>1
  <2>3. i \in 1..l BY <1>8, <1>n, <2>2, Zenon
  <2>4. x \notin S
    <3>. SUFFICES ASSUME x \in S PROVE FALSE BY Zenon
    <3>1. PICK k \in 1..m : o[k] = x BY <1>4, Zenon
    <3>2. g[l + k].record = x /\ l + k \in (i + 1)..(l + m) BY <1>8, <1>n, <2>3, <3>1, Zenon
    <3>. QED BY <2>1, <3>2, Zenon
  <2>5. f[i] = [type |-> "consume", record |-> x] /\ \A j \in (i + 1)..l : f[j].record # x
    BY <1>7, <1>n, <2>1, <2>3, Zenon
  <2>6. x \in Records BY Zenon DEF LiveAfter
  <2>. QED BY <1>2, <2>3, <2>4, <2>5, <2>6, Zenon DEF LiveAfter
<1>13. LiveAfter(g, l + m) = R \ S BY <1>11, <1>12, Zenon
<1>14. Recovered(g) = (R \ S) \cup {r}
  <2>1. l + m \in Nat BY <1>2, <1>4
  <2>2. g[(l + m) + 1] = [type |-> "consume", record |-> r] BY <1>7, Zenon
  <2>3. r \in Records BY <1>h, Zenon
  <2>4. LiveAfter(g, (l + m) + 1) = LiveAfter(g, l + m) \cup {r} BY <2>1, <2>2, <2>3, OneConsume
  <2>. QED BY <1>7, <1>13, <2>4, Zenon DEF Recovered
<1>15. ASSUME NEW n \in 1..Len(g) PROVE Follows(g, n)
  <2>1. CASE n \in 1..l
    <3>1. n - 1 \in Nat /\ \A i \in 1..(n - 1) : i \in 1..l BY <1>2, <2>1
    <3>2. LiveAfter(g, n - 1) = LiveAfter(f, n - 1) BY <1>7, <3>1, SameLive, Zenon
    <3>3. Follows(f, n) BY <1>1, <1>h, <2>1, Zenon DEF FileOK, Readable
    <3>. QED BY <1>7, <2>1, <3>2, <3>3, Zenon DEF Follows
  <2>2. ASSUME NEW k \in 1..m, n = l + k PROVE Follows(g, n)
    <3>1. g[n].type = "expire" /\ g[n].record = o[k] BY <1>8, <2>2, Zenon
    <3>2. o[k] \in LiveAfter(g, l + k - 1) BY <1>10, Zenon
    <3>3. n - 1 = l + k - 1 BY <1>2, <1>4, <2>2
    <3>. QED BY <3>1, <3>2, <3>3, Zenon DEF Follows
  <2>3. CASE n = l + m + 1
    <3>1. n - 1 = l + m BY <1>2, <1>4, <2>3
    <3>2. g[n].type = "consume" /\ g[n].record = r BY <1>7, <2>3
    <3>4. r \notin LiveAfter(g, n - 1) /\ Cardinality(LiveAfter(g, n - 1)) < Capacity
      BY <1>13, <1>h, <3>1, Zenon
    <3>. QED BY <3>2, <3>4, Zenon DEF Follows
  <2>4. n \in 1..l \/ n = l + m + 1 \/ \E k \in 1..m : n = l + k
    <3>1. n \in 1..(l + m + 1) BY <1>7, Zenon
    <3>2. n \in 1..(l + m) \/ n = l + m + 1 BY <1>2, <1>4, <3>1
    <3>. QED BY <1>n, <3>2, Zenon
  <2>. QED BY <2>1, <2>2, <2>3, <2>4, Zenon
<1>16. Len(g) <= MaximumRecords BY <1>7, <1>h, Zenon
<1>17. ASSUME NEW i \in (l + 1)..Len(g) PROVE g[i].record \in S \cup {r}
  <2>1. i = l + m + 1 \/ \E k \in 1..m : i = l + k
    <3>1. i \in (l + 1)..(l + m + 1) BY <1>7, Zenon
    <3>2. i = l + m + 1 \/ (i - l \in 1..m /\ i = l + (i - l)) BY <1>2, <1>4, <3>1
    <3>. QED BY <3>2, Zenon
  <2>2. g[l + m + 1].record = r BY <1>7
  <2>. QED BY <1>8, <2>1, <2>2, Zenon
<1>. QED BY <1>1, <1>7, <1>14, <1>15, <1>16, <1>17, Zenon DEF FileOK, Readable, ExtendedOK
-----------------------------------------------------------------------------
\* A step of a call that has its turn keeps the invariant if it keeps the files,
\* what the call knows of them and the tuples that others hold receipts for.
LEMMA Goes ==
  ASSUME JInv, IInv', NEW c \in Callers, serial # <<>>, Head(serial) = c, Busy(c),
         \A d \in Callers \ {c} : call'[d] = call[d],
         UNCHANGED <<deadline, now>>,
         Files', (TurnOK(c, call[c].now, call[c].record))', Resting', (ReceiptOK(c, call[c].record))',
         \A x \in Live(call[c].now) : Safe(x) => Safe(x)'
  PROVE  JInv'
<1>1. IInv /\ Turns /\ Receipts BY Zenon DEF JInv
<1>2. ASSUME NEW d \in Callers, d # c PROVE (TurnOK(d, call[d].now, call[d].record))'
  <2>1. ~Busy(d) /\ call'[d] = call[d] BY <1>1, <1>2, Alone, Zenon DEF IInv
  <2>2. /\ call'[d].pc # "check" /\ call'[d].pc # "compact" /\ call'[d].pc # "append"
        /\ call'[d].pc # "swap" /\ call'[d].pc # "sync"
    BY <2>1, Zenon DEF Busy
  <2>. QED BY <2>2, Zenon DEF TurnOK, Writing
<1>3. ASSUME NEW d \in Callers, d # c PROVE (ReceiptOK(d, call[d].record))'
  <2>. SUFFICES ASSUME call'[d].pc = "receipt", deadline'[call'[d].record] > now' PROVE (Safe(call[d].record))'
    BY Zenon DEF ReceiptOK
  <2>1. PICK r : r = call[d].record BY Zenon
  <2>2. call'[d] = call[d] BY <1>3, Zenon
  <2>3. call[d].pc = "receipt" /\ deadline[r] > now BY <2>1, <2>2, Zenon
  <2>4. Safe(r) BY <1>1, <2>1, <2>3, Zenon DEF Receipts, ReceiptOK
  <2>5. r \in Records
    <3>1. call[d].pc # "idle" BY <2>3, Zenon
    <3>. QED BY <1>1, <2>1, <3>1, Zenon DEF IInv, Calls
  <2>6. call[c].now \in Nat /\ call[c].now <= now BY <1>1, Zenon DEF IInv, Calls
  <2>7. /\ r \in DOMAIN entries /\ entries[r].expires >= deadline[r] /\ entries[r].expires \in Nat
        /\ deadline[r] \in Nat /\ now \in Nat
    <3>1. deadline \in [Records -> Nat] BY <1>1, Zenon DEF IInv, Types
    <3>. QED BY <1>1, <2>4, <2>5, <3>1, Zenon DEF Safe, IInv, Types
  <2>8. ~(entries[r].expires <= call[c].now) BY <2>3, <2>6, <2>7
  <2>9. r \in Live(call[c].now) BY <2>7, <2>8, Zenon DEF Live, Stale
  <2>. QED BY <2>1, <2>2, <2>4, <2>9, Zenon
<1>4. Turns' BY <1>2, Zenon DEF Turns
<1>5. Receipts' BY <1>3, Zenon DEF Receipts
<1>. QED BY <1>4, <1>5, Zenon DEF JInv

\* A step that leaves the files and the entries, and starts no turn.
LEMMA Aside ==
  ASSUME JInv, IInv', UNCHANGED <<disk, entries, deadline>>, now' \in Nat, now' >= now,
         phase' = phase \/ phase' # "open",
         \A c \in Callers : \/ call'[c] = call[c]
                            \/ /\ call'[c].pc \in {"idle", "begin"}
                               /\ call[c].pc \in {"idle", "begin", "check", "append", "receipt"}
  PROVE  JInv'
<1>1. IInv /\ Files /\ Turns /\ Resting /\ Receipts BY Zenon DEF JInv
<1>2. UNCHANGED <<file, synced, older, entries, deadline>> BY Zenon DEF disk
<1>3. Files' BY <1>1, <1>2, Zenon DEF Files
<1>4. \A t : Live(t)' = Live(t) /\ Stale(t)' = Stale(t) BY <1>2, Zenon DEF Live, Stale
<1>5. \A r : Safe(r)' <=> Safe(r) BY <1>2, Zenon DEF Safe, Durably
<1>6. ASSUME NEW c \in Callers PROVE (TurnOK(c, call[c].now, call[c].record))'
  <2>1. CASE call'[c] = call[c]
    <3>1. TurnOK(c, call[c].now, call[c].record) BY <1>1, Zenon DEF Turns
    <3>. QED BY <1>2, <1>4, <2>1, <3>1, Zenon DEF TurnOK, Writing
  <2>2. CASE call'[c].pc \in {"idle", "begin"}
    <3>1. /\ call'[c].pc # "check" /\ call'[c].pc # "compact" /\ call'[c].pc # "append"
          /\ call'[c].pc # "swap" /\ call'[c].pc # "sync"
      BY <2>2, Zenon
    <3>. QED BY <3>1, Zenon DEF TurnOK, Writing
  <2>. QED BY <2>1, <2>2, Zenon
<1>7. ASSUME NEW c \in Callers PROVE (ReceiptOK(c, call[c].record))'
  <2>. SUFFICES ASSUME call'[c].pc = "receipt", deadline'[call'[c].record] > now' PROVE (Safe(call[c].record))'
    BY Zenon DEF ReceiptOK
  <2>1. call'[c] = call[c]
    <3>1. ~(call'[c].pc \in {"idle", "begin"}) BY Zenon
    <3>. QED BY <3>1, Zenon
  <2>2. call[c].record \in Records
    <3>1. call[c].pc # "idle" BY <2>1, Zenon
    <3>. QED BY <1>1, <3>1, Zenon DEF IInv, Calls
  <2>3. deadline[call[c].record] \in Nat /\ now \in Nat BY <1>1, <2>2, Zenon DEF IInv, Types
  <2>4. deadline[call[c].record] > now BY <1>2, <2>1, <2>3
  <2>5. Safe(call[c].record) BY <1>1, <2>1, <2>4, Zenon DEF Receipts, ReceiptOK
  <2>. QED BY <1>5, <2>1, <2>5, Zenon
<1>8. Resting'
  <2>. SUFFICES ASSUME phase' = "open", \A c \in Callers : ~Busy(c)' PROVE DOMAIN entries = Recovered(file)
    BY <1>2, Zenon DEF Resting
  <2>0. phase = "open" BY Zenon
  <2>1. CASE \A c \in Callers : ~Busy(c) BY <1>1, <2>0, <2>1, Zenon DEF Resting
  <2>2. ASSUME NEW c \in Callers, Busy(c) PROVE DOMAIN entries = Recovered(file)
    <3>1. call'[c] # call[c] BY <2>2, Zenon DEF Busy
    <3>2. call[c].pc \in {"idle", "begin", "check", "append", "receipt"} BY <3>1, Zenon
    <3>3. call[c].pc \in {"check", "compact", "append"} BY <2>2, <3>2, Zenon DEF Busy
    <3>. QED BY <1>1, <3>3, Zenon DEF Turns, TurnOK
  <2>. QED BY <2>1, <2>2, Zenon
<1>9. Turns' /\ Receipts' BY <1>6, <1>7, Zenon DEF Turns, Receipts
<1>. QED BY <1>3, <1>8, <1>9, Zenon DEF JInv

\* The steps that leave the files and the entries.
LEMMA AsideSteps ==
  ASSUME JInv, IInv',
         UNCHANGED vars \/ Tick \/ Close \/ \E c \in Callers : Consume(c) \/ \E r \in Records : Reserve(c, r)
  PROVE  JInv'
<1>1. call = [c \in Callers |-> call[c]] /\ now \in Nat BY Zenon DEF JInv, IInv, Types
<1>2. CASE UNCHANGED vars
  <2>1. UNCHANGED <<disk, entries, deadline, now, phase, call>> BY <1>2, Zenon DEF vars
  <2>2. now' \in Nat /\ now' >= now BY <1>1, <2>1
  <2>. QED BY <2>1, <2>2, Aside, Zenon
<1>3. CASE Tick
  <2>1. UNCHANGED <<disk, entries, deadline, phase, call>> BY <1>3, Zenon DEF Tick
  <2>2. now' \in Nat /\ now' >= now BY <1>1, <1>3 DEF Tick
  <2>. QED BY <2>1, <2>2, Aside, Zenon
<1>4. CASE Close
  <2>1. UNCHANGED <<disk, entries, deadline, now, call>> BY <1>4, Zenon DEF Close
  <2>2. now' \in Nat /\ now' >= now BY <1>1, <2>1
  <2>3. phase' = phase \/ phase' # "open" BY <1>4, Zenon DEF Close
  <2>. QED BY <2>1, <2>2, <2>3, Aside, Zenon
<1>5. ASSUME NEW c \in Callers, call'[c].pc \in {"idle", "begin"}, \A d \in Callers \ {c} : call'[d] = call[d],
             call[c].pc \in {"idle", "receipt"}, UNCHANGED <<disk, entries, deadline, now, phase>>
      PROVE  JInv'
  <2>3. now' \in Nat /\ now' >= now BY <1>1, <1>5
  <2>4. call[c].pc \in {"idle", "begin", "check", "append", "receipt"} BY <1>5, Zenon
  <2>5. UNCHANGED <<disk, entries, deadline, phase>> BY <1>5, Zenon
  <2>. QED BY <1>5, <2>3, <2>4, <2>5, Aside, Zenon
<1>6. ASSUME NEW c \in Callers, Consume(c) PROVE JInv'
  <2>1. Idle.pc \in {"idle", "begin"} BY Zenon DEF Idle
  <2>2. /\ UNCHANGED <<disk, entries, deadline, now, phase>> /\ call[c].pc \in {"idle", "receipt"}
        /\ call' = [call EXCEPT ![c] = Idle]
    BY <1>6, Zenon DEF Consume, At, memory, Return
  <2>3. call'[c] = Idle /\ \A d \in Callers \ {c} : call'[d] = call[d] BY <1>1, <2>2, Update, Zenon
  <2>. QED BY <2>1, <2>2, <2>3, <1>5, Zenon
<1>7. ASSUME NEW c \in Callers, NEW r \in Records, Reserve(c, r) PROVE JInv'
  <2>1. PICK x : x = [Idle EXCEPT !.pc = "begin", !.record = r] BY Zenon
  <2>2. x.pc \in {"idle", "begin"} BY <2>1, Zenon DEF Idle
  <2>3. /\ UNCHANGED <<disk, entries, deadline, now, phase>> /\ call[c].pc \in {"idle", "receipt"}
        /\ call' = [call EXCEPT ![c] = x]
    BY <1>7, <2>1, Zenon DEF Reserve, At, memory
  <2>4. call'[c] = x /\ \A d \in Callers \ {c} : call'[d] = call[d] BY <1>1, <2>3, Update, Zenon
  <2>. QED BY <2>2, <2>3, <2>4, <1>5, Zenon
<1>. QED BY <1>2, <1>3, <1>4, <1>6, <1>7, Zenon

\* A call that gives up its turn without a failure.
LEMMA Leaves ==
  ASSUME JInv, IInv', NEW c \in Callers, Leave(c), call[c].pc \in {"begin", "check", "append"},
         UNCHANGED <<disk, entries, deadline, now, phase>>
  PROVE  JInv'
<1>1. call = [d \in Callers |-> call[d]] /\ now \in Nat BY Zenon DEF JInv, IInv, Types
<1>2. call'[c] = Idle /\ \A d \in Callers \ {c} : call'[d] = call[d] BY <1>1, Update, Zenon DEF Leave, Return
<1>3. call'[c].pc \in {"idle", "begin"} BY <1>2 DEF Idle
<1>4. now' \in Nat /\ now' >= now BY <1>1
<1>5. call[c].pc \in {"idle", "begin", "check", "append", "receipt"} BY Zenon
<1>. QED BY <1>2, <1>3, <1>4, <1>5, Aside, Zenon

\* The state with every call idle.
LEMMA Idles ==
  ASSUME IInv', Files', \A c \in Callers : call'[c].pc = "idle",
         phase' # "open" \/ DOMAIN entries' = (Recovered(file))'
  PROVE  JInv'
<1>1. ASSUME NEW c \in Callers
      PROVE  /\ call'[c].pc # "check" /\ call'[c].pc # "compact" /\ call'[c].pc # "append"
             /\ call'[c].pc # "swap" /\ call'[c].pc # "sync" /\ call'[c].pc # "receipt"
  BY Zenon
<1>2. Turns' BY <1>1, Zenon DEF Turns, TurnOK, Writing
<1>3. Receipts' BY <1>1, Zenon DEF Receipts, ReceiptOK
<1>4. Resting' BY Zenon DEF Resting
<1>. QED BY <1>2, <1>3, <1>4, Zenon DEF JInv

\* A crash leaves a beginning of the file, or of one that it replaced.
LEMMA DownFiles ==
  ASSUME JInv, IInv', Crash \/ Closed
  PROVE  JInv'
<1>1. Files BY Zenon DEF JInv
<1>2. /\ FileOK(file) /\ synced \in 0..Len(file) /\ Len(file) \in Nat
      /\ \A image \in older : FileOK(image.file) /\ image.synced \in Nat /\ Len(image.file) \in Nat
  <2>1. FileOK(file) /\ synced \in 0..Len(file) /\ \A image \in older : FileOK(image.file) /\ image.synced \in Nat
    BY <1>1, Zenon DEF Files
  <2>2. \A f : FileOK(f) => Len(f) \in Nat BY DEF FileOK
  <2>. QED BY <2>1, <2>2, Zenon
<1>3. /\ phase' = "down" /\ call' = [c \in Callers |-> Idle] /\ entries' = NoEntries
  BY Zenon DEF Crash, Closed
<1>4. \A c \in Callers : call'[c].pc = "idle" BY <1>3, Zenon DEF Idle
<1>5. DOMAIN entries' \subseteq Records /\ IsFiniteSet(DOMAIN entries')
  <2>1. DOMAIN entries' = {} BY <1>3, Zenon DEF NoEntries
  <2>. QED BY <2>1, FS_EmptySet, Zenon
<1>6. CASE Closed
  <2>1. UNCHANGED <<file, synced, older>> BY <1>6, Zenon DEF Closed, disk
  <2>2. Files' BY <1>1, <1>5, <2>1, Zenon DEF Files
  <2>3. phase' # "open" BY <1>3, Zenon
  <2>. QED BY <1>4, <2>2, <2>3, Idles, Zenon
<1>7. CASE Crash
  <2>1. ASSUME NEW n \in synced..Len(file), file' = SubSeq(file, 1, n), UNCHANGED <<synced, older>> PROVE Files'
    <3>1. n \in Nat /\ n <= Len(file) /\ synced \in 0..n BY <1>2
    <3>2. FileOK(file)' /\ Len(file') = n BY <1>2, <2>1, <3>1, PrefixOK, Zenon
    <3>. QED BY <1>2, <1>5, <2>1, <3>1, <3>2, Zenon DEF Files
  <2>2. ASSUME NEW image \in older, NEW n \in image.synced..Len(image.file),
               file' = SubSeq(image.file, 1, n), synced' = n, older' = {}
        PROVE  Files'
    <3>1. n \in Nat /\ n <= Len(image.file) /\ n \in 0..n BY <1>2
    <3>2. FileOK(file)' /\ Len(file') = n BY <1>2, <2>2, <3>1, PrefixOK, Zenon
    <3>. QED BY <1>2, <1>5, <2>2, <3>1, <3>2, Zenon DEF Files
  <2>3. Files' BY <1>7, <2>1, <2>2, Zenon DEF Crash
  <2>4. phase' # "open" BY <1>3, Zenon
  <2>. QED BY <1>4, <2>3, <2>4, Idles, Zenon
<1>. QED BY <1>6, <1>7, Zenon

\* An open makes the entries from the file.
LEMMA OpenFiles ==
  ASSUME JInv, IInv', Open
  PROVE  JInv'
<1>1. Files BY Zenon DEF JInv
<1>2. FileOK(file) /\ synced \in 0..Len(file) /\ Len(file) \in Nat BY <1>1 DEF Files, FileOK
<1>3. /\ phase = "down" /\ UNCHANGED <<file, call>> /\ DOMAIN entries' = Recovered(file)
      /\ (synced' = Len(file) /\ older' = {}) \/ UNCHANGED <<synced, older>>
  BY Zenon DEF Open
<1>4. \A c \in Callers : call'[c].pc = "idle" BY <1>3, Zenon DEF JInv, IInv, Calls
<1>5. Recovered(file) \subseteq Records /\ IsFiniteSet(Recovered(file))
  BY <1>2, LiveFinite, Zenon DEF Recovered, FileOK
<1>6. synced' \in 0..Len(file) BY <1>2, <1>3
<1>7. \A image \in older' : FileOK(image.file) /\ image.synced \in Nat
  <2>1. older' = {} \/ older' = older BY <1>3, Zenon
  <2>. QED BY <1>1, <2>1, Zenon DEF Files
<1>8. Files' BY <1>2, <1>3, <1>5, <1>6, <1>7, Zenon DEF Files
<1>. QED BY <1>3, <1>4, <1>8, Idles, Zenon

-----------------------------------------------------------------------------
\* What a call that has its turn may use.
LEMMA Sets ==
  ASSUME JInv, NEW t
  PROVE  /\ Live(t) \subseteq Records /\ IsFiniteSet(Live(t)) /\ Cardinality(Live(t)) \in Nat
         /\ Stale(t) \subseteq DOMAIN entries /\ IsFiniteSet(Stale(t)) /\ Cardinality(Stale(t)) \in Nat
         /\ FileOK(file) /\ Len(file) \in Nat /\ synced \in 0..Len(file)
         /\ Live(t) = DOMAIN entries \ Stale(t)
<1>1. /\ FileOK(file) /\ synced \in 0..Len(file)
      /\ DOMAIN entries \subseteq Records /\ IsFiniteSet(DOMAIN entries)
  BY Zenon DEF JInv, Files
<1>2. Live(t) \in SUBSET DOMAIN entries /\ Stale(t) \in SUBSET DOMAIN entries BY Zenon DEF Live, Stale
<1>3. IsFiniteSet(Live(t)) /\ IsFiniteSet(Stale(t)) BY <1>1, <1>2, FS_Subset, Zenon
<1>4. Cardinality(Live(t)) \in Nat /\ Cardinality(Stale(t)) \in Nat BY <1>3, FS_CardinalityType, Zenon
<1>5. Len(file) \in Nat BY <1>1 DEF FileOK
<1>. QED BY <1>1, <1>2, <1>3, <1>4, <1>5, Zenon DEF Live

\* A call that goes on with its turn.
LEMMA Moved ==
  ASSUME JInv, NEW c \in Callers, NEW p, call' = [call EXCEPT ![c].pc = p]
  PROVE  /\ call'[c].pc = p /\ call'[c].record = call[c].record /\ call'[c].now = call[c].now
         /\ \A d \in Callers \ {c} : call'[d] = call[d]
<1>1. /\ call = [d \in Callers |-> call[d]]
      /\ call[c] = [pc |-> call[c].pc, record |-> call[c].record, now |-> call[c].now, receipt |-> call[c].receipt]
  BY Zenon DEF JInv, IInv, Types, Calls
<1>2. PICK x : x = [call[c] EXCEPT !.pc = p] BY Zenon
<1>3. x.pc = p /\ x.record = call[c].record /\ x.now = call[c].now BY <1>1, <1>2, Zenon
<1>4. call' = [call EXCEPT ![c] = x] BY <1>2, Zenon
<1>5. call'[c] = x /\ \A d \in Callers \ {c} : call'[d] = call[d] BY <1>1, <1>4, Update, Zenon
<1>. QED BY <1>3, <1>5, Zenon

\* A durable CONSUME stays so when other tuples' frames are written behind it.
LEMMA StillDurable ==
  ASSUME NEW x, Durably(x), synced \in Nat, synced' \in Nat, synced <= synced', synced <= Len(file),
         Len(file) \in Nat, Len(file') \in Nat,
         \A i \in 1..Len(file) : file'[i] = file[i],
         \A i \in (Len(file) + 1)..Len(file') : file'[i].record # x
  PROVE  Durably(x)'
<1>1. PICK i \in 1..synced : /\ file[i] = [type |-> "consume", record |-> x]
                             /\ \A j \in (i + 1)..Len(file) : file[j].record # x
  BY Zenon DEF Durably, Lasting
<1>2. /\ i \in 1..synced' /\ i \in 1..Len(file)
      /\ \A j \in (i + 1)..Len(file') : \/ j \in (i + 1)..Len(file) /\ j \in 1..Len(file)
                                        \/ j \in (Len(file) + 1)..Len(file')
  OBVIOUS
<1>3. ASSUME NEW j \in (i + 1)..Len(file') PROVE file'[j].record # x BY <1>1, <1>2, Zenon
<1>4. file'[i] = [type |-> "consume", record |-> x] BY <1>1, <1>2, Zenon
<1>. QED BY <1>2, <1>3, <1>4, Zenon DEF Durably, Lasting

\* The turn begins: nobody else works on the file.
LEMMA BeginFiles ==
  ASSUME JInv, IInv', NEW c \in Callers, BeginReserve(c)
  PROVE  JInv'
<1>0. /\ call[c].pc = "begin" /\ serial # <<>> /\ Head(serial) = c
      /\ UNCHANGED <<disk, entries, deadline, now, phase>>
  BY Zenon DEF BeginReserve, Turn, At, memory
<1>1. CASE Leave(c) BY <1>0, <1>1, Leaves, Zenon
<1>2. ASSUME phase = "open", call' = [call EXCEPT ![c] = [@ EXCEPT !.pc = "check", !.now = now]] PROVE JInv'
  <2>1. /\ call = [d \in Callers |-> call[d]] /\ Calls
        /\ call[c] = [pc |-> call[c].pc, record |-> call[c].record, now |-> call[c].now, receipt |-> call[c].receipt]
    BY Zenon DEF JInv, IInv, Types, Calls
  <2>2. PICK x : x = [call[c] EXCEPT !.pc = "check", !.now = now] BY Zenon
  <2>3. x.pc = "check" BY <2>1, <2>2, Zenon
  <2>4. call' = [call EXCEPT ![c] = x] BY <1>2, <2>2, Zenon
  <2>5. call'[c] = x /\ \A d \in Callers \ {c} : call'[d] = call[d] BY <2>1, <2>4, Update, Zenon
  <2>6. \A d \in Callers : ~Busy(d)
    <3>1. ~Busy(c) BY <1>0, Zenon DEF Busy
    <3>. QED BY <1>0, <2>1, <3>1, Alone, Zenon
  <2>7. DOMAIN entries = Recovered(file) BY <1>2, <2>6, Zenon DEF JInv, Resting
  <2>8. UNCHANGED <<file, synced, older, entries, deadline, now>> BY <1>0, Zenon DEF disk
  <2>9. Files' BY <2>8, Zenon DEF JInv, Files
  <2>10. (Recovered(file))' = Recovered(file) BY <2>8, Zenon
  <2>11. Resting' BY <2>7, <2>8, <2>10, Zenon DEF Resting
  <2>12. ASSUME NEW d \in Callers PROVE (TurnOK(d, call[d].now, call[d].record))'
    <3>1. CASE d = c
      <4>1. /\ call'[c].pc # "compact" /\ call'[c].pc # "append" /\ call'[c].pc # "swap" /\ call'[c].pc # "sync"
        BY <2>3, <2>5, Zenon
      <4>. QED BY <2>7, <2>8, <2>10, <3>1, <4>1, Zenon DEF TurnOK, Writing
    <3>2. CASE d # c
      <4>1. /\ call'[d].pc # "check" /\ call'[d].pc # "compact" /\ call'[d].pc # "append"
            /\ call'[d].pc # "swap" /\ call'[d].pc # "sync"
        BY <2>5, <2>6, <3>2, Zenon DEF Busy
      <4>. QED BY <4>1, Zenon DEF TurnOK, Writing
    <3>. QED BY <3>1, <3>2, Zenon
  <2>13. \A r : Safe(r)' <=> Safe(r) BY <2>8, Zenon DEF Safe, Durably
  <2>14. ASSUME NEW d \in Callers PROVE (ReceiptOK(d, call[d].record))'
    <3>1. CASE d = c
      <4>1. call'[c].pc # "receipt" BY <2>3, <2>5, Zenon
      <4>. QED BY <3>1, <4>1, Zenon DEF ReceiptOK
    <3>2. CASE d # c BY <2>5, <2>8, <2>13, <3>2, Zenon DEF JInv, Receipts, ReceiptOK
    <3>. QED BY <3>1, <3>2, Zenon
  <2>15. Turns' /\ Receipts' BY <2>12, <2>14, Zenon DEF Turns, Receipts
  <2>. QED BY <2>9, <2>11, <2>15, Zenon DEF JInv
<1>. QED BY <1>1, <1>2, Zenon DEF BeginReserve

\* The check finds the limits of the file and of the live tuples.
LEMMA CheckFiles ==
  ASSUME JInv, IInv', NEW c \in Callers, CheckReserve(c)
  PROVE  JInv'
<1>0. /\ call[c].pc = "check" /\ serial # <<>> /\ Head(serial) = c
      /\ UNCHANGED <<disk, entries, deadline, now, phase>>
  BY Zenon DEF CheckReserve, Turn, At, memory
<1>1. CASE Leave(c) BY <1>0, <1>1, Leaves, Zenon
<1>2. ASSUME ~Leave(c) PROVE JInv'
  <2>1. PICK t, r, full : /\ t = call[c].now /\ r = call[c].record
                          /\ full = (Len(file) + Cardinality(Stale(t)) + 1 > Limit)
    BY Zenon
  <2>2. /\ r \notin Live(t) /\ Cardinality(Live(t)) < Capacity
        /\ call' = [call EXCEPT ![c].pc = IF full THEN "compact" ELSE "append"]
    BY <1>2, <2>1, Zenon DEF CheckReserve
  <2>3. PICK p : p = IF full THEN "compact" ELSE "append" BY Zenon
  <2>4. call' = [call EXCEPT ![c].pc = p] BY <2>2, <2>3, Zenon
  <2>5. /\ call'[c].pc = p /\ call'[c].record = r /\ call'[c].now = t
        /\ \A d \in Callers \ {c} : call'[d] = call[d]
    BY <2>1, <2>4, Moved, Zenon
  <2>6. UNCHANGED <<file, synced, older, entries, deadline, now>> BY <1>0, Zenon DEF disk
  <2>7. Files' BY <2>6, Zenon DEF JInv, Files
  <2>8. Live(t)' = Live(t) /\ Stale(t)' = Stale(t) /\ (Recovered(file))' = Recovered(file)
    BY <2>6, Zenon DEF Live, Stale
  <2>9. DOMAIN entries = Recovered(file)
    <3>1. TurnOK(c, call[c].now, call[c].record) BY Zenon DEF JInv, Turns
    <3>2. call[c].pc \in {"check", "compact", "append"} BY <1>0, Zenon
    <3>. QED BY <3>1, <3>2, Zenon DEF TurnOK
  <2>10. Resting' BY <2>6, <2>8, <2>9, Zenon DEF Resting
  <2>11. p = "append" => Len(file) + Cardinality(Stale(t)) + 1 <= MaximumRecords
    <3>1. Len(file) \in Nat /\ Cardinality(Stale(t)) \in Nat BY Sets, Zenon
    <3>2. p = "append" => ~full BY <2>3, Zenon
    <3>3. p = "append" => ~(Len(file) + Cardinality(Stale(t)) + 1 > Limit) BY <2>1, <3>2, Zenon
    <3>. QED BY <3>1, <3>3, JournalConstants DEF MaximumRecords
  <2>12. p # "swap" /\ p # "sync" /\ p # "receipt" BY <2>3, Zenon
  <2>13. (TurnOK(c, call[c].now, call[c].record))'
    BY <2>2, <2>5, <2>6, <2>8, <2>9, <2>11, <2>12, Zenon DEF TurnOK
  <2>14. (ReceiptOK(c, call[c].record))' BY <2>5, <2>12, Zenon DEF ReceiptOK
  <2>15. \A x : Safe(x) => Safe(x)' BY <2>6, Zenon DEF Safe, Durably
  <2>16. Busy(c) BY <1>0, Zenon DEF Busy
  <2>17. UNCHANGED <<deadline, now>> BY <2>6, Zenon
  <2>. QED BY <1>0, <2>5, <2>7, <2>10, <2>13, <2>14, <2>15, <2>16, <2>17, Goes, Zenon
<1>. QED BY <1>1, <1>2, Zenon

\* The replacement holds the live tuples, durably.
LEMMA RenameFiles ==
  ASSUME JInv, IInv', NEW c \in Callers, CompactRename(c)
  PROVE  JInv'
<1>1. PICK t, r, L : t = call[c].now /\ r = call[c].record /\ L = Live(t) BY Zenon
<1>2. /\ call[c].pc = "compact" /\ serial # <<>> /\ Head(serial) = c
      /\ older' = older \cup {[file |-> file, synced |-> synced, generation |-> generation]}
      /\ file' = Frames("consume", L) /\ synced' = Len(file')
      /\ call' = [call EXCEPT ![c].pc = "swap"]
      /\ UNCHANGED <<deadline, now, entries>>
  BY <1>1, Zenon DEF CompactRename, Turn, At
<1>3. /\ call'[c].pc = "swap" /\ call'[c].record = r /\ call'[c].now = t
      /\ \A d \in Callers \ {c} : call'[d] = call[d]
  BY <1>1, <1>2, Moved, Zenon
<1>4. Busy(c) /\ Writing(c) BY <1>2, Zenon DEF Busy, Writing
<1>5. TurnOK(c, t, r) BY <1>1, Zenon DEF JInv, Turns
<1>6. r \notin L /\ Cardinality(L) < Capacity BY <1>1, <1>4, <1>5, Zenon DEF TurnOK
<1>7. /\ L \subseteq Records /\ IsFiniteSet(L) /\ FileOK(file) /\ Len(file) \in Nat /\ synced \in 0..Len(file)
  BY <1>1, Sets, Zenon
<1>8. /\ FileOK(file') /\ Recovered(file') = L /\ Len(file') = Cardinality(L)
      /\ \A x \in L : Lasting(file', Len(file'), x)
  BY <1>2, <1>6, <1>7, Compacted, Zenon
<1>9. Files'
  <2>1. \A image \in older' : FileOK(image.file) /\ image.synced \in Nat
    <3>1. PICK new : new = [file |-> file, synced |-> synced, generation |-> generation] BY Zenon
    <3>2. new.file = file /\ new.synced = synced BY <3>1, Zenon
    <3>3. synced \in Nat BY <1>7
    <3>4. \A image \in older' : image \in older \/ image = new BY <1>2, <3>1, Zenon
    <3>. QED BY <1>7, <3>2, <3>3, <3>4, Zenon DEF JInv, Files
  <2>2. synced' \in 0..Len(file')
    <3>1. Len(file') \in Nat BY <1>8 DEF FileOK
    <3>. QED BY <1>2, <3>1
  <2>3. entries' = entries BY <1>2, Zenon
  <2>. QED BY <1>8, <2>1, <2>2, <2>3, Zenon DEF JInv, Files
<1>10. Live(t)' = L /\ entries' = entries BY <1>1, <1>2, Zenon DEF Live, Stale
<1>11. (TurnOK(c, call[c].now, call[c].record))'
  <2>1. /\ call'[c].pc # "check" /\ call'[c].pc # "compact" /\ call'[c].pc # "append" /\ call'[c].pc # "sync"
    BY <1>3, Zenon
  <2>2. (Recovered(file))' = L BY <1>8, Zenon
  <2>. QED BY <1>3, <1>6, <1>8, <1>10, <2>1, <2>2, Zenon DEF TurnOK
<1>12. Resting'
  <2>1. Busy(c)' BY <1>3, Zenon DEF Busy
  <2>. QED BY <2>1, Zenon DEF Resting
<1>13. (ReceiptOK(c, call[c].record))'
  <2>1. call'[c].pc # "receipt" BY <1>3, Zenon
  <2>. QED BY <2>1, Zenon DEF ReceiptOK
<1>14. ASSUME NEW x \in L, Safe(x) PROVE Safe(x)'
  <2>1. Durably(x)' BY <1>2, <1>8, Zenon DEF Durably
  <2>. QED BY <1>2, <1>10, <1>14, <2>1, Zenon DEF Safe
<1>15. UNCHANGED <<deadline, now>> BY <1>2, Zenon
<1>. QED BY <1>1, <1>2, <1>3, <1>4, <1>9, <1>11, <1>12, <1>13, <1>14, <1>15, Goes, Zenon

\* After a compaction the entries are the live ones, and the file has room.
LEMMA SwapFiles ==
  ASSUME JInv, IInv', NEW c \in Callers, CompactSwap(c)
  PROVE  JInv'
<1>1. PICK t, r, L : t = call[c].now /\ r = call[c].record /\ L = Live(t) BY Zenon
<1>2. /\ call[c].pc = "swap" /\ serial # <<>> /\ Head(serial) = c
      /\ older' = {} /\ DOMAIN entries' = L /\ \A x \in L : entries'[x].expires = entries[x].expires
      /\ call' = [call EXCEPT ![c].pc = "append"]
      /\ UNCHANGED <<deadline, now, file, synced>>
  BY <1>1, Zenon DEF CompactSwap, Swapped, Entry, Turn, At
<1>3. /\ call'[c].pc = "append" /\ call'[c].record = r /\ call'[c].now = t
      /\ \A d \in Callers \ {c} : call'[d] = call[d]
  BY <1>1, <1>2, Moved, Zenon
<1>4. Busy(c) /\ Writing(c) BY <1>2, Zenon DEF Busy, Writing
<1>5. TurnOK(c, t, r) BY <1>1, Zenon DEF JInv, Turns
<1>6. r \notin L /\ Cardinality(L) < Capacity /\ Recovered(file) = L /\ Len(file) = Cardinality(L)
  BY <1>1, <1>2, <1>4, <1>5, Zenon DEF TurnOK
<1>7. L \subseteq Records /\ IsFiniteSet(L) /\ FileOK(file) /\ synced \in 0..Len(file) /\ Cardinality(L) \in Nat
  BY <1>1, Sets, Zenon
<1>8. Files' BY <1>2, <1>7, Zenon DEF Files
<1>9. Stale(t)' = {} /\ Live(t)' = L
  <2>1. \A x \in L : ~(entries'[x].expires <= t) BY <1>1, <1>2, Zenon DEF Live, Stale
  <2>. QED BY <1>2, <2>1, Zenon DEF Live, Stale
<1>10. Len(file) + Cardinality(Stale(t)') + 1 <= MaximumRecords
  <2>1. Cardinality(Stale(t)') = 0 BY <1>9, FS_EmptySet, Zenon
  <2>. QED BY <1>6, <1>7, <2>1, JournalConstants DEF MaximumRecords
<1>11. (TurnOK(c, call[c].now, call[c].record))'
  <2>1. call'[c].pc # "swap" /\ call'[c].pc # "sync" BY <1>3, Zenon
  <2>2. (Recovered(file))' = L BY <1>2, <1>6, Zenon
  <2>. QED BY <1>2, <1>3, <1>6, <1>9, <1>10, <2>1, <2>2, Zenon DEF TurnOK
<1>12. Resting'
  <2>1. Busy(c)' BY <1>3, Zenon DEF Busy
  <2>. QED BY <2>1, Zenon DEF Resting
<1>13. (ReceiptOK(c, call[c].record))'
  <2>1. call'[c].pc # "receipt" BY <1>3, Zenon
  <2>. QED BY <2>1, Zenon DEF ReceiptOK
<1>14. ASSUME NEW x \in L, Safe(x) PROVE Safe(x)'
  <2>1. Durably(x)' BY <1>2, <1>14, Zenon DEF Durably, Safe
  <2>. QED BY <1>2, <1>14, <2>1, Zenon DEF Safe
<1>15. UNCHANGED <<deadline, now>> BY <1>2, Zenon
<1>. QED BY <1>1, <1>2, <1>3, <1>4, <1>8, <1>11, <1>12, <1>13, <1>14, <1>15, Goes, Zenon

\* What the frames of a reservation do to the file.
LEMMA Written ==
  ASSUME JInv, NEW c \in Callers, call[c].pc = "append", NEW g, g = file \o NewFrames(c)
  PROVE  /\ FileOK(g) /\ Recovered(g) = Live(call[c].now) \cup {call[c].record} /\ Len(g) \in Nat
         /\ Len(file) <= Len(g) /\ \A i \in 1..Len(file) : g[i] = file[i]
         /\ \A i \in (Len(file) + 1)..Len(g) : g[i].record \notin Live(call[c].now)
         /\ call[c].record \notin Live(call[c].now) /\ Cardinality(Live(call[c].now)) < Capacity
<1>1. PICK t, r, S : t = call[c].now /\ r = call[c].record /\ S = Stale(t) BY Zenon
<1>2. Writing(c) /\ call[c].pc \in {"check", "compact", "append"} BY Zenon DEF Writing
<1>3. TurnOK(c, t, r) BY <1>1, Zenon DEF JInv, Turns
<1>4. /\ r \notin Live(t) /\ Cardinality(Live(t)) < Capacity /\ DOMAIN entries = Recovered(file)
      /\ Len(file) + Cardinality(S) + 1 <= MaximumRecords
  BY <1>1, <1>2, <1>3, Zenon DEF TurnOK
<1>5. /\ FileOK(file) /\ S \subseteq DOMAIN entries /\ Live(t) = DOMAIN entries \ S
      /\ Cardinality(S) \in Nat /\ Len(file) \in Nat
  BY <1>1, Sets, Zenon
<1>6. r \in Records
  <2>1. call[c].pc # "idle" BY Zenon
  <2>. QED BY <1>1, <2>1, Zenon DEF JInv, IInv, Calls
<1>7. g = file \o (Frames("expire", S) \o <<[type |-> "consume", record |-> r]>>)
  BY <1>1, Zenon DEF NewFrames
<1>8. Extends(file, S, r, g)
  <2>1. Recovered(file) \ S = Live(t) BY <1>4, <1>5, Zenon
  <2>. QED BY <1>4, <1>5, <1>6, <1>7, <2>1, Zenon DEF Extends
<1>9. /\ FileOK(g) /\ Recovered(g) = (Recovered(file) \ S) \cup {r} /\ Len(g) = Len(file) + Cardinality(S) + 1
      /\ \A i \in 1..Len(file) : g[i] = file[i]
      /\ \A i \in (Len(file) + 1)..Len(g) : g[i].record \in S \cup {r}
  <2>1. ExtendedOK(file, S, r, g) BY <1>8, Extended, Zenon
  <2>. QED BY <2>1, Zenon DEF ExtendedOK
<1>10. \A x \in S \cup {r} : x \notin Live(t) BY <1>4, <1>5, Zenon
<1>11. Len(g) \in Nat /\ Len(file) <= Len(g) BY <1>5, <1>9
<1>12. Recovered(g) = Live(t) \cup {r} BY <1>4, <1>5, <1>9, Zenon
<1>13. \A i \in (Len(file) + 1)..Len(g) : g[i].record \notin Live(t) BY <1>9, <1>10, Zenon
<1>. QED BY <1>1, <1>4, <1>9, <1>11, <1>12, <1>13, Zenon

\* The frames are written behind the file.
LEMMA AppendFiles ==
  ASSUME JInv, IInv', NEW c \in Callers, AppendFrames(c)
  PROVE  JInv'
<1>0. /\ call[c].pc = "append" /\ serial # <<>> /\ Head(serial) = c
      /\ UNCHANGED <<synced, older, entries, deadline, now, phase>>
  BY Zenon DEF AppendFrames, Turn, At, memory
<1>1. CASE Leave(c) /\ UNCHANGED file
  <2>1. UNCHANGED <<disk, entries, deadline, now, phase>> BY <1>0, <1>1, Zenon DEF disk
  <2>. QED BY <1>0, <1>1, <2>1, Leaves, Zenon
<1>2. ASSUME file' = file \o NewFrames(c), call' = [call EXCEPT ![c].pc = "sync"] PROVE JInv'
  <2>1. PICK t, r, L : t = call[c].now /\ r = call[c].record /\ L = Live(t) BY Zenon
  <2>2. /\ FileOK(file') /\ Recovered(file') = L \cup {r} /\ Len(file') \in Nat
        /\ Len(file) <= Len(file') /\ \A i \in 1..Len(file) : file'[i] = file[i]
        /\ \A i \in (Len(file) + 1)..Len(file') : file'[i].record \notin L
        /\ r \notin L /\ Cardinality(L) < Capacity
    BY <1>0, <1>2, <2>1, Written, Zenon
  <2>3. /\ call'[c].pc = "sync" /\ call'[c].record = r /\ call'[c].now = t
        /\ \A d \in Callers \ {c} : call'[d] = call[d]
    BY <1>2, <2>1, Moved, Zenon
  <2>4. synced \in 0..Len(file) /\ Len(file) \in Nat BY Sets, Zenon
  <2>5. UNCHANGED <<synced, older, entries, deadline, now>> BY <1>0, Zenon
  <2>6. Files'
    <3>1. synced' \in 0..Len(file') BY <2>2, <2>4, <2>5
    <3>. QED BY <2>2, <2>5, <3>1, Zenon DEF JInv, Files
  <2>7. Live(t)' = L BY <2>1, <2>5, Zenon DEF Live, Stale
  <2>8. (TurnOK(c, call[c].now, call[c].record))'
    <3>1. /\ call'[c].pc # "check" /\ call'[c].pc # "compact" /\ call'[c].pc # "append" /\ call'[c].pc # "swap"
      BY <2>3, Zenon
    <3>2. (Recovered(file))' = L \cup {r} BY <2>2, Zenon
    <3>. QED BY <2>2, <2>3, <2>7, <3>1, <3>2, Zenon DEF TurnOK
  <2>9. Resting'
    <3>1. Busy(c)' BY <2>3, Zenon DEF Busy
    <3>. QED BY <3>1, Zenon DEF Resting
  <2>10. (ReceiptOK(c, call[c].record))'
    <3>1. call'[c].pc # "receipt" BY <2>3, Zenon
    <3>. QED BY <3>1, Zenon DEF ReceiptOK
  <2>11. ASSUME NEW x \in L, Safe(x) PROVE Safe(x)'
    <3>1. synced \in Nat /\ synced' \in Nat /\ synced <= synced' /\ synced <= Len(file) BY <2>4, <2>5
    <3>2. \A i \in (Len(file) + 1)..Len(file') : file'[i].record # x BY <2>2, Zenon
    <3>3. Durably(x) BY <2>11, Zenon DEF Safe
    <3>4. Durably(x)' BY <2>2, <2>4, <3>1, <3>2, <3>3, StillDurable, Zenon
    <3>. QED BY <2>5, <2>11, <3>4, Zenon DEF Safe
  <2>12. Busy(c) BY <1>0, Zenon DEF Busy
  <2>13. UNCHANGED <<deadline, now>> BY <2>5, Zenon
  <2>. QED BY <1>0, <2>1, <2>3, <2>6, <2>8, <2>9, <2>10, <2>11, <2>12, <2>13, Goes, Zenon
<1>. QED BY <1>1, <1>2, Zenon DEF AppendFrames

\* The frames are durable and the entry made: the receipt is backed by both.
LEMMA SyncFiles ==
  ASSUME JInv, IInv', NEW c \in Callers, SyncFrames(c)
  PROVE  JInv'
<1>1. PICK t, r, L : t = call[c].now /\ r = call[c].record /\ L = Live(t) BY Zenon
<1>2. /\ call[c].pc = "sync" /\ serial # <<>> /\ Head(serial) = c /\ synced' = Len(file)
      /\ DOMAIN entries' = L \cup {r} /\ entries'[r].expires = deadline[r]
      /\ \A x \in L \ {r} : entries'[x] = entries[x]
      /\ UNCHANGED <<deadline, now, file, older>>
  BY <1>1, Zenon DEF SyncFrames, Entry, Turn, At, Durable
<1>3. call = [d \in Callers |-> call[d]]
      /\ call[c] = [pc |-> call[c].pc, record |-> call[c].record, now |-> call[c].now, receipt |-> call[c].receipt]
  BY Zenon DEF JInv, IInv, Types, Calls
<1>4. /\ \A d \in Callers \ {c} : call'[d] = call[d]
      /\ call'[c].pc = "idle" \/ (call'[c].pc = "receipt" /\ call'[c].record = r)
  <2>1. PICK x : /\ call' = [call EXCEPT ![c] = x]
                 /\ x = Idle \/ x = [call[c] EXCEPT !.pc = "receipt", !.receipt = entries'[r]]
    <3>1. CASE Return(c) BY <3>1, Zenon DEF Return
    <3>2. CASE call' = [call EXCEPT ![c] = [@ EXCEPT !.pc = "receipt", !.receipt = entries'[r]]]
      <4>1. PICK x : x = [call[c] EXCEPT !.pc = "receipt", !.receipt = entries'[r]] BY Zenon
      <4>2. call' = [call EXCEPT ![c] = x] BY <3>2, <4>1, Zenon
      <4>. QED BY <4>1, <4>2, Zenon
    <3>. QED BY <1>1, <3>1, <3>2, Zenon DEF SyncFrames
  <2>2. call'[c] = x /\ \A d \in Callers \ {c} : call'[d] = call[d] BY <1>3, <2>1, Update, Zenon
  <2>3. x.pc = "idle" \/ (x.pc = "receipt" /\ x.record = call[c].record)
    <3>1. CASE x = Idle BY <3>1, Zenon DEF Idle
    <3>2. CASE x = [call[c] EXCEPT !.pc = "receipt", !.receipt = entries'[r]] BY <1>3, <3>2, Zenon
    <3>. QED BY <2>1, <3>1, <3>2, Zenon
  <2>. QED BY <1>1, <2>2, <2>3, Zenon
<1>5. Busy(c) /\ Writing(c) BY <1>2, Zenon DEF Busy, Writing
<1>6. TurnOK(c, t, r) BY <1>1, Zenon DEF JInv, Turns
<1>7. r \notin L /\ Recovered(file) = L \cup {r} BY <1>1, <1>2, <1>5, <1>6, Zenon DEF TurnOK
<1>8. FileOK(file) /\ synced \in 0..Len(file) /\ Len(file) \in Nat BY Sets, Zenon
<1>9. Recovered(file) \subseteq Records /\ IsFiniteSet(Recovered(file))
  BY <1>8, LiveFinite, Zenon DEF Recovered, FileOK
<1>10. Files'
  <2>1. synced' \in 0..Len(file) BY <1>2, <1>8
  <2>. QED BY <1>2, <1>7, <1>8, <1>9, <2>1, Zenon DEF JInv, Files
<1>11. (TurnOK(c, call[c].now, call[c].record))'
  <2>1. /\ call'[c].pc # "check" /\ call'[c].pc # "compact" /\ call'[c].pc # "append"
        /\ call'[c].pc # "swap" /\ call'[c].pc # "sync"
    BY <1>4, Zenon
  <2>. QED BY <2>1, Zenon DEF TurnOK, Writing
<1>12. Resting'
  <2>1. (Recovered(file))' = L \cup {r} BY <1>2, <1>7, Zenon
  <2>. QED BY <1>2, <2>1, Zenon DEF Resting
<1>13. \A x \in Recovered(file) : Durably(x)'
  <2>1. \A x \in Recovered(file) : Lasting(file, Len(file), x) BY Zenon DEF Recovered, LiveAfter, Lasting
  <2>. QED BY <1>2, <2>1, Zenon DEF Durably
<1>14. (ReceiptOK(c, call[c].record))'
  <2>. SUFFICES ASSUME call'[c].pc = "receipt" PROVE (Safe(call[c].record))' BY Zenon DEF ReceiptOK
  <2>1. call'[c].pc # "idle" BY Zenon
  <2>2. call'[c].record = r BY <1>4, <2>1, Zenon
  <2>3. deadline[r] \in Nat
    <3>1. call[c].pc # "idle" BY <1>2, Zenon
    <3>2. r \in Records BY <1>1, <3>1, Zenon DEF JInv, IInv, Calls
    <3>. QED BY <3>2, Zenon DEF JInv, IInv, Types
  <2>4. entries'[r].expires >= deadline'[r] BY <1>2, <2>3
  <2>5. Safe(r)' BY <1>2, <1>7, <1>13, <2>4, Zenon DEF Safe
  <2>. QED BY <2>2, <2>5, Zenon
<1>15. ASSUME NEW x \in L, Safe(x) PROVE Safe(x)'
  <2>1. x # r /\ entries'[x] = entries[x] /\ x \in DOMAIN entries' BY <1>2, <1>7, Zenon
  <2>2. Durably(x)' BY <1>7, <1>13, Zenon
  <2>. QED BY <1>2, <1>15, <2>1, <2>2, Zenon DEF Safe
<1>16. UNCHANGED <<deadline, now>> BY <1>2, Zenon
<1>. QED BY <1>1, <1>2, <1>4, <1>5, <1>10, <1>11, <1>12, <1>14, <1>15, <1>16, Goes, Zenon

\* The frames of a reservation are frames.
LEMMA FramesOf ==
  ASSUME JInv, NEW c \in Callers, call[c].pc = "append"
  PROVE  NewFrames(c) \in Seq(FrameRecords)
<1>1. PICK t, r, S, e : t = call[c].now /\ r = call[c].record /\ S = Stale(t) /\ e = Frames("expire", S) BY Zenon
<1>2. S \subseteq Records /\ IsFiniteSet(S)
  <2>1. DOMAIN entries \subseteq Records BY Zenon DEF JInv, Files
  <2>. QED BY <1>1, <2>1, Sets, Zenon
<1>3. e \in Seq(FrameRecords)
  <2>1. "expire" \in {"consume", "expire"} BY Zenon
  <2>. QED BY <1>1, <1>2, <2>1, FramesIs, Zenon
<1>4. r \in Records
  <2>1. call[c].pc # "idle" BY Zenon
  <2>. QED BY <1>1, <2>1, Zenon DEF JInv, IInv, Calls
<1>5. PICK x : x = [type |-> "consume", record |-> r] BY Zenon
<1>6. x \in FrameRecords BY <1>4, <1>5, Zenon DEF FrameRecords
<1>7. e \o <<x>> \in Seq(FrameRecords) BY <1>3, <1>6, Pushed, Zenon
<1>. QED BY <1>1, <1>5, <1>7, Zenon DEF NewFrames

\* A write that reached the file in part leaves a beginning of what it wrote.
LEMMA PartOf ==
  ASSUME NEW T, NEW s \in Seq(T), NEW w \in Seq(T), NEW n \in 0..Len(w)
  PROVE  s \o SubSeq(w, 1, n) = SubSeq(s \o w, 1, Len(s) + n) /\ Len(s) + n <= Len(s \o w)
OBVIOUS

\* The failure of a step poisons the journal, and the file stays readable.
LEMMA FailFiles ==
  ASSUME JInv, IInv', NEW c \in Callers, Fails(c)
  PROVE  JInv'
<1>1. PICK t, L : t = call[c].now /\ L = Live(t) BY Zenon
<1>2. /\ serial # <<>> /\ Head(serial) = c /\ Busy(c) /\ phase' # "open" /\ call' = [call EXCEPT ![c] = Idle]
      /\ UNCHANGED <<deadline, now, entries, synced, older>>
  BY Zenon DEF Fails, Leave, Return, Busy
<1>3. call = [d \in Callers |-> call[d]] BY Zenon DEF JInv, IInv, Types
<1>4. call'[c] = Idle /\ \A d \in Callers \ {c} : call'[d] = call[d] BY <1>2, <1>3, Update, Zenon
<1>5. call'[c].pc = "idle" BY <1>4 DEF Idle
<1>6. FileOK(file) /\ synced \in 0..Len(file) /\ Len(file) \in Nat BY Sets, Zenon
<1>7. /\ FileOK(file') /\ Len(file') \in Nat /\ Len(file) <= Len(file')
      /\ \A i \in 1..Len(file) : file'[i] = file[i]
      /\ \A i \in (Len(file) + 1)..Len(file') : file'[i].record \notin L
  <2>1. CASE file' = file
    <3>1. \A i \in (Len(file) + 1)..Len(file) : FALSE BY <1>6
    <3>2. Len(file) <= Len(file) BY <1>6
    <3>. QED BY <1>6, <2>1, <3>1, <3>2, Zenon
  <2>2. ASSUME At(c, "append"), NEW n \in 0..Len(NewFrames(c)), file' = file \o SubSeq(NewFrames(c), 1, n)
        PROVE  /\ FileOK(file') /\ Len(file') \in Nat /\ Len(file) <= Len(file')
               /\ \A i \in 1..Len(file) : file'[i] = file[i]
               /\ \A i \in (Len(file) + 1)..Len(file') : file'[i].record \notin L
    <3>1. PICK w, g : w = NewFrames(c) /\ g = file \o w BY Zenon
    <3>2. /\ FileOK(g) /\ Len(g) \in Nat /\ Len(file) <= Len(g) /\ \A i \in 1..Len(file) : g[i] = file[i]
          /\ \A i \in (Len(file) + 1)..Len(g) : g[i].record \notin L
      BY <1>1, <2>2, <3>1, Written, Zenon DEF At
    <3>3. w \in Seq(FrameRecords) BY <2>2, <3>1, FramesOf, Zenon DEF At
    <3>4. file \in Seq(FrameRecords) BY <1>6, Zenon DEF FileOK
    <3>5. PICK m : m = Len(file) + n BY Zenon
    <3>6. file' = SubSeq(g, 1, m) /\ m <= Len(g) /\ m \in Nat
      <4>1. n \in 0..Len(w) /\ file' = file \o SubSeq(w, 1, n) BY <2>2, <3>1, Zenon
      <4>2. m \in Nat BY <1>6, <3>5
      <4>. QED BY <3>1, <3>3, <3>4, <3>5, <4>1, <4>2, PartOf, Zenon
    <3>7. FileOK(file') /\ Len(file') = m /\ \A i \in 1..m : file'[i] = g[i] BY <3>2, <3>6, PrefixOK, Zenon
    <3>8. /\ Len(file) <= m /\ \A i \in 1..Len(file) : i \in 1..m
          /\ \A i \in (Len(file) + 1)..m : i \in 1..m /\ i \in (Len(file) + 1)..Len(g)
      BY <1>6, <3>2, <3>5, <3>6
    <3>. QED BY <3>2, <3>6, <3>7, <3>8, Zenon
  <2>. QED BY <2>1, <2>2, Zenon DEF Fails
<1>8. Files'
  <2>1. synced' \in 0..Len(file') BY <1>2, <1>6, <1>7
  <2>2. older' = older /\ entries' = entries BY <1>2, Zenon
  <2>. QED BY <1>7, <2>1, <2>2, Zenon DEF JInv, Files
<1>9. (TurnOK(c, call[c].now, call[c].record))'
  <2>1. /\ call'[c].pc # "check" /\ call'[c].pc # "compact" /\ call'[c].pc # "append"
        /\ call'[c].pc # "swap" /\ call'[c].pc # "sync"
    BY <1>5, Zenon
  <2>. QED BY <2>1, Zenon DEF TurnOK, Writing
<1>10. Resting' BY <1>2, Zenon DEF Resting
<1>11. (ReceiptOK(c, call[c].record))'
  <2>1. call'[c].pc # "receipt" BY <1>5, Zenon
  <2>. QED BY <2>1, Zenon DEF ReceiptOK
<1>12. ASSUME NEW x \in L, Safe(x) PROVE Safe(x)'
  <2>1. synced \in Nat /\ synced' \in Nat /\ synced <= synced' /\ synced <= Len(file) BY <1>2, <1>6
  <2>2. \A i \in (Len(file) + 1)..Len(file') : file'[i].record # x BY <1>7, Zenon
  <2>3. Durably(x) BY <1>12, Zenon DEF Safe
  <2>4. Durably(x)' BY <1>6, <1>7, <2>1, <2>2, <2>3, StillDurable, Zenon
  <2>5. entries' = entries /\ deadline' = deadline BY <1>2, Zenon
  <2>. QED BY <1>12, <2>4, <2>5, Zenon DEF Safe
<1>13. UNCHANGED <<deadline, now>> BY <1>2, Zenon
<1>. QED BY <1>1, <1>2, <1>4, <1>8, <1>9, <1>10, <1>11, <1>12, <1>13, Goes, Zenon

-----------------------------------------------------------------------------
\* An empty journal satisfies the invariant.
LEMMA InitJInv == Init => JInv
<1>. SUFFICES ASSUME Init PROVE JInv BY Zenon
<1>1. /\ phase = "down" /\ entries = NoEntries /\ file = <<>> /\ synced = 0 /\ older = {}
      /\ call = [c \in Callers |-> Idle]
  BY Zenon DEF Init
<1>2. \A c \in Callers : call[c].pc = "idle" BY <1>1, Zenon DEF Idle
<1>3. Files
  <2>1. FileOK(file)
    <3>1. file \in Seq(FrameRecords) /\ Len(file) = 0 BY <1>1
    <3>2. Len(file) <= MaximumRecords /\ \A n \in 1..Len(file) : FALSE
      BY <3>1, JournalConstants DEF MaximumRecords
    <3>. QED BY <3>1, <3>2, Zenon DEF FileOK, Readable
  <2>2. synced \in 0..Len(file) BY <1>1
  <2>3. DOMAIN entries = {} BY <1>1, Zenon DEF NoEntries
  <2>. QED BY <1>1, <2>1, <2>2, <2>3, FS_EmptySet, Zenon DEF Files
<1>4. ASSUME NEW c \in Callers
      PROVE  /\ call[c].pc # "check" /\ call[c].pc # "compact" /\ call[c].pc # "append"
             /\ call[c].pc # "swap" /\ call[c].pc # "sync" /\ call[c].pc # "receipt"
  BY <1>2, Zenon
<1>5. Turns BY <1>4, Zenon DEF Turns, TurnOK, Writing
<1>6. Receipts BY <1>4, Zenon DEF Receipts, ReceiptOK
<1>7. Resting BY <1>1, Zenon DEF Resting
<1>. QED BY <1>3, <1>5, <1>6, <1>7, InitIInv, Zenon DEF JInv

\* Every step keeps the invariant for the file.
LEMMA NextJInv == JInv /\ [Next]_vars => JInv'
<1>. SUFFICES ASSUME JInv, [Next]_vars PROVE JInv' BY Zenon
<1>1. IInv' BY NextIInv, Zenon DEF JInv
<1>2. CASE UNCHANGED vars BY <1>1, <1>2, AsideSteps, Zenon
<1>3. CASE Next
  <2>1. CASE Open BY <1>1, <2>1, OpenFiles, Zenon
  <2>2. CASE Crash \/ Closed BY <1>1, <2>2, DownFiles, Zenon
  <2>3. CASE Tick \/ Close BY <1>1, <2>3, AsideSteps, Zenon
  <2>4. ASSUME NEW c \in Callers, Step(c) PROVE JInv'
    <3>1. CASE Consume(c) BY <1>1, <3>1, AsideSteps, Zenon
    <3>2. CASE BeginReserve(c) BY <1>1, <3>2, BeginFiles, Zenon
    <3>3. CASE CheckReserve(c) BY <1>1, <3>3, CheckFiles, Zenon
    <3>4. CASE CompactRename(c) BY <1>1, <3>4, RenameFiles, Zenon
    <3>5. CASE CompactSwap(c) BY <1>1, <3>5, SwapFiles, Zenon
    <3>6. CASE AppendFrames(c) BY <1>1, <3>6, AppendFiles, Zenon
    <3>7. CASE SyncFrames(c) BY <1>1, <3>7, SyncFiles, Zenon
    <3>. QED BY <2>4, <3>1, <3>2, <3>3, <3>4, <3>5, <3>6, <3>7, Zenon DEF Step
  <2>5. ASSUME NEW c \in Callers, Fails(c) PROVE JInv' BY <1>1, <2>5, FailFiles, Zenon
  <2>6. ASSUME NEW c \in Callers, NEW r \in Records, Reserve(c, r) PROVE JInv'
    BY <1>1, <2>6, AsideSteps, Zenon
  <2>. QED BY <1>3, <2>1, <2>2, <2>3, <2>4, <2>5, <2>6, Zenon DEF Next
<1>. QED BY <1>2, <1>3, Zenon

\* Whatever a crash leaves of the journal file, also of one that a compaction
\* replaced, recoverJournal accepts: an open never fails on what the journal wrote.
THEOREM JournalReadable == Spec => []AlwaysReadable
<1>1. ASSUME JInv PROVE AlwaysReadable
  <2>1. Files BY <1>1, Zenon DEF JInv
  <2>2. ASSUME NEW f, NEW k \in Nat, FileOK(f), NEW n \in k..Len(f) PROVE Readable(SubSeq(f, 1, n))
    <3>1. Len(f) \in Nat BY <2>2 DEF FileOK
    <3>2. n \in Nat /\ n <= Len(f) BY <3>1
    <3>. QED BY <2>2, <3>2, PrefixOK, Zenon DEF FileOK
  <2>3. synced \in Nat
    <3>1. FileOK(file) /\ synced \in 0..Len(file) BY <2>1, Zenon DEF Files
    <3>. QED BY <3>1 DEF FileOK
  <2>. QED BY <2>1, <2>2, <2>3, Zenon DEF Files, AlwaysReadable
<1>. QED BY <1>1, InitJInv, NextJInv, PTL DEF Spec

\* "durablyCommitted": as long as a receipt can authorise its record, every
\* beginning of the file that a crash may leave has the record's CONSUME and no
\* EXPIRE behind it.
THEOREM ReceiptsDurable == Spec => []ReceiptIsDurable
<1>1. ASSUME JInv PROVE ReceiptIsDurable
  <2>. SUFFICES ASSUME NEW c \in Callers, At(c, "receipt"), Current(c), NEW n \in synced..Len(file)
                PROVE  call[c].record \in Recovered(SubSeq(file, 1, n))
    BY Zenon DEF ReceiptIsDurable
  <2>1. PICK r : r = call[c].record BY Zenon
  <2>2. call[c].pc = "receipt" /\ call[c].receipt.expires > now BY Zenon DEF At, Current
  <2>3. r \in Records /\ call[c].receipt.expires = deadline[r]
    <3>1. call[c].pc # "idle" BY <2>2, Zenon
    <3>. QED BY <1>1, <2>1, <2>2, <3>1, Zenon DEF JInv, IInv, Calls
  <2>4. deadline[r] > now BY <2>2, <2>3, Zenon
  <2>5. Lasting(file, synced, r)
    BY <1>1, <2>1, <2>2, <2>4, Zenon DEF JInv, Receipts, ReceiptOK, Safe, Durably
  <2>6. FileOK(file) /\ synced \in 0..Len(file) BY <1>1, Zenon DEF JInv, Files
  <2>7. Len(file) \in Nat BY <2>6 DEF FileOK
  <2>8. n \in Nat /\ n <= Len(file) /\ synced <= n /\ synced \in Nat BY <2>6, <2>7
  <2>9. PICK g : g = SubSeq(file, 1, n) BY Zenon
  <2>10. Len(g) = n /\ \A i \in 1..n : g[i] = file[i] BY <2>6, <2>8, <2>9, PrefixOK, Zenon
  <2>11. PICK i \in 1..synced : /\ file[i] = [type |-> "consume", record |-> r]
                                /\ \A j \in (i + 1)..Len(file) : file[j].record # r
    BY <2>5, Zenon DEF Lasting
  <2>12. i \in 1..n /\ \A j \in (i + 1)..n : j \in 1..n /\ j \in (i + 1)..Len(file) BY <2>7, <2>8
  <2>13. \A j \in (i + 1)..n : g[j].record # r BY <2>10, <2>11, <2>12, Zenon
  <2>14. g[i] = [type |-> "consume", record |-> r] BY <2>10, <2>11, <2>12, Zenon
  <2>15. r \in LiveAfter(g, n) BY <2>3, <2>12, <2>13, <2>14, Zenon DEF LiveAfter
  <2>. QED BY <2>1, <2>9, <2>10, <2>15, Zenon DEF Recovered
<1>. QED BY <1>1, InitJInv, NextJInv, PTL DEF Spec
==============================================================================

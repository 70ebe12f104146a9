------------------------------ MODULE CellEngine -----------------------------
(***************************************************************************)
(* BlindCellStorageEngine (packages/blind-daemon/storage-engine.js): the   *)
(* concurrent calls of the Cell store, each cut at its awaits, over keyed  *)
(* locks, a commit queue and the files of opaque bodies; crashes and       *)
(* recovery.                                                               *)
(*                                                                         *)
(* A call is a record: where it is (pc), the keys it holds, and what       *)
(* became of the frame it submitted (io).  queue holds the submitted       *)
(* frames that are not applied yet; which of them are already durable      *)
(* matters only to a crash, which keeps any prefix.  Replay applies the    *)
(* same frames with the same handlers, so the rebuilt st is the one the    *)
(* durable frames produced.                                                *)
(***************************************************************************)
EXTENDS CellState, Sequences

CONSTANTS Clients,      \* concurrent callers
          Timer,        \* the caller of open and of the 60 s interval
          Ops,          \* the operations clients use in this instance
          Creates,      \* create requests
          Objects,      \* object identifiers of opaque bodies, a bound
          MaxEpoch,     \* bound on the wall clock
          Quota,        \* limits: cells, stored, staging, control, tombs
          MaxFaults,    \* bound on crashes and I/O faults
          Serial,       \* epoch changes, confirmations and compactions happen
                        \* on an engine with no other call in progress
          Aborts,       \* callers may abort a put
          Rollover      \* segment rollovers refuse frames submitted meanwhile

ASSUME EngineConstants ==
  /\ Timer \notin Clients /\ MaxEpoch \in Nat \ {0} /\ MaxFaults \in Nat
  /\ {Serial, Aborts, Rollover} \subseteq BOOLEAN

VARIABLES mode,      \* "down", "opening" or "open"
          st,        \* the state of CellState
          queue,     \* walCommitQueue and the group being committed
          call,      \* the calls in progress
          readOnly,  \* readOnlyReason
          poisoned,  \* the transaction store refuses appends until restart
          broken,    \* a durable frame that its apply handler refuses
          inFlight,  \* entry.inFlight
          late,      \* spends whose reservation or retry deadline passed
          heap,      \* chargedReadExpiryHeap
          wall,      \* the epoch of the wall clock
          temps, blobs,   \* staged and published body files
          faults,    \* crashes and I/O faults so far
          stored, retired, promised, bodies, damaged   \* history

files == <<temps, blobs>>
history == <<stored, retired, promised, bodies, damaged>>
volatile == <<readOnly, poisoned, inFlight, heap>>
vars == <<mode, st, queue, call, volatile, broken, late, wall, files, faults, history>>

-----------------------------------------------------------------------------
Callers == Clients \cup {Timer}
Idle == [op |-> "idle", request |-> None, pc |-> "idle", io |-> "none", held |-> {},
         blob |-> None, lease |-> 0, token |-> "none", todo |-> {}, bad |-> {}]

Clock == <<"clock", None>>
SpendKey(request) == <<"spend", request.spend>>
CellKey(request) == <<"cell", request.slot>>
BothKeys(request) == {SpendKey(request), CellKey(request)}

Free(c, keys) == \A d \in Callers \ {c} : call[d].held \cap keys = {}
At(c, pc) == call[c].pc = pc
AllIdle == \A c \in Callers : At(c, "idle")

\* Mutant: a claim ends when its commit begins.
BugClaimed == Cardinality({c \in Callers : call[c].token \in {"staging", "staged"}})

\* atomicStaging.items
Claimed == Cardinality({c \in Callers : call[c].token # "none"})

\* #assertWritable
Writable(leaseMutation) == readOnly = "none" /\ ~(leaseMutation /\ st.unsafe)

\* The calls that Serial keeps apart from all others.
Alone(op) == op \in {"confirm", "compact"}
MayStart(c, op) ==
  /\ mode = "open" /\ At(c, "idle")
  /\ op \in Ops
  /\ Serial => \/ AllIdle
               \/ /\ wall = st.floor \/ st.unsafe
                  /\ ~Alone(op) /\ \A d \in Callers : ~Alone(call[d].op)

Begin(c, op, request, pc) ==
  call' = [call EXCEPT ![c] = [Idle EXCEPT !.op = op, !.request = request, !.pc = pc]]
Goto(c, pc) == call' = [call EXCEPT ![c] = [@ EXCEPT !.pc = pc, !.io = "none", !.held = {}]]
Return(c) == call' = [call EXCEPT ![c] = Idle]
Resumed(c, pc, io) == At(c, pc) /\ call[c].io = io

\* #appendAndApply up to its await, from a call that becomes next.
Submit(c, f, next) ==
  \/ /\ ~poisoned
     /\ queue' = Append(queue, [by |-> c, f |-> f])
     /\ call' = [call EXCEPT ![c] = [next EXCEPT !.io = "wait"]]
  \/ /\ poisoned \/ (Rollover /\ queue # <<>>)
     /\ call' = [call EXCEPT ![c] = [next EXCEPT !.io = "failed"]]
     /\ UNCHANGED queue

\* The call keeps keys while its frame is committed.
Waiting(c, pc, keys) == [call[c] EXCEPT !.pc = pc, !.held = keys]

\* The members of a failed group are rejected.
Rejected(calls) ==
  [c \in Callers |-> IF c \in calls THEN [call[c] EXCEPT !.io = "failed"] ELSE call[c]]
Queued == {queue[i].by : i \in 1..Len(queue)}

Init ==
  /\ mode = "down" /\ st = EmptyState /\ queue = <<>>
  /\ call = [c \in Callers |-> Idle]
  /\ readOnly = "none" /\ poisoned = FALSE /\ broken = FALSE
  /\ inFlight = {} /\ late = {} /\ heap = {} /\ wall = 1
  /\ temps = {} /\ blobs = {} /\ faults = 0
  /\ stored = {} /\ retired = {} /\ damaged = {} /\ promised = [x \in Slots |-> 0]
  /\ bodies = [x \in Spends |-> 0]

-----------------------------------------------------------------------------
\* The commit queue.  The head frame is durable and its handler accepts it.
Commit ==
  LET f == queue[1].f
      c == queue[1].by
      s == Applied(st, f)
  IN /\ queue # <<>> /\ ~poisoned
     /\ Accepts(st, f) /\ AccountsOK(s)
     /\ st' = s
     /\ queue' = Tail(queue)
     /\ call' = [call EXCEPT ![c].io = "ok"]
     /\ inFlight' = IF f.t \in {"put", "terminal"} THEN inFlight \ {f.spend} ELSE inFlight
     /\ heap' = IF f.t = "pin" THEN heap \cup {f.request.spend} ELSE heap
     /\ late' = IF f.t \in {"reserve", "pin"} THEN late \ {f.request.spend} ELSE late
     /\ readOnly' = IF f.t = "integrity" THEN "gap" ELSE readOnly
     /\ retired' = CASE f.t = "drop" -> retired \cup {f.request.slot}
                     [] f.t = "gc" -> retired \cup {f.slot}
                     [] OTHER -> retired
     /\ promised' = IF f.t = "drop" THEN [promised EXCEPT ![f.request.slot] = 0] ELSE promised
     /\ UNCHANGED <<mode, poisoned, broken, wall, files, faults, stored, bodies, damaged>>

\* The handler throws: the frame is durable all the same, and the store is
\* poisoned.
CommitRefused ==
  /\ queue # <<>> /\ ~poisoned
  /\ ~(Accepts(st, queue[1].f) /\ AccountsOK(Applied(st, queue[1].f)))
  /\ poisoned' = TRUE /\ broken' = TRUE
  /\ call' = Rejected(Queued)
  /\ UNCHANGED <<mode, st, queue, readOnly, inFlight, heap, late, wall, files, faults, history>>

\* A write or datasync of the WAL fails.  The frames stay in queue: any prefix
\* of them may have reached the disk.
CommitFails ==
  /\ queue # <<>> /\ ~poisoned /\ faults < MaxFaults
  /\ poisoned' = TRUE /\ faults' = faults + 1
  /\ call' = Rejected(Queued)
  /\ UNCHANGED <<mode, st, queue, readOnly, broken, inFlight, heap, late, wall, files, history>>

\* The prewriteFence of an aborted put ejects its frame before it is written.
Ejected(c) ==
  /\ Aborts /\ ~poisoned /\ queue # <<>> /\ queue[1].by = c
  /\ queue[1].f.t \in {"reserve", "attempt"}
  /\ queue' = Tail(queue) /\ Return(c)
  /\ UNCHANGED <<mode, st, volatile, broken, late, wall, files, faults, history>>

\* The state after the first n frames of the queue, or None if one of them is
\* refused.
Replayed(n) ==
  LET after[i \in 0..n] ==
        IF i = 0 THEN st
        ELSE IF after[i-1] = None \/ ~Accepts(after[i-1], queue[i].f) THEN None
        ELSE Applied(after[i-1], queue[i].f)
  IN after[n]

\* The process dies, or is restarted because open failed or the store is
\* poisoned.  A prefix of the submitted frames is durable.
Crash ==
  /\ mode # "down"
  /\ faults < MaxFaults \/ poisoned
  /\ \E n \in 0..Len(queue) :
       LET dropped == {queue[i].f.request.slot : i \in {j \in 1..n : queue[j].f.t = "drop"}}
       IN /\ st' = IF Replayed(n) = None THEN st ELSE Replayed(n)
          /\ broken' = (broken \/ Replayed(n) = None)
          /\ late' = {x \in late : st'.spends[x] # None /\ st.spends[x] # None}
          /\ retired' = retired \cup {x \in Slots : Present(st, x) /\ ~Present(st', x)}
          /\ promised' = [x \in Slots |-> IF x \in dropped THEN 0 ELSE promised[x]]
  /\ mode' = "down" /\ queue' = <<>> /\ call' = [c \in Callers |-> Idle]
  /\ readOnly' = "none" /\ poisoned' = FALSE /\ inFlight' = {} /\ heap' = {}
  /\ faults' = IF faults < MaxFaults THEN faults + 1 ELSE faults
  /\ UNCHANGED <<wall, files, stored, bodies, damaged>>

\* Time.
WallMoves(e) ==
  /\ e # wall
  /\ Serial => AllIdle
  /\ wall' = e
  /\ UNCHANGED <<mode, st, queue, call, volatile, broken, late, files, faults, history>>

DeadlinePasses(spend) ==
  /\ spend \notin late
  /\ Reserved(st, spend) \/ Pinned(st, spend)
  /\ late' = late \cup {spend}
  /\ UNCHANGED <<mode, st, queue, call, volatile, broken, wall, files, faults, history>>

-----------------------------------------------------------------------------
rest == <<mode, st, volatile, broken, late, wall, files, faults, history>>

\* A call that returns without having changed anything.
Refuse(c) == Return(c) /\ UNCHANGED queue

\* #refreshClock.  The epoch is observed when the call joins the queue of the
\* clock lock; the lock is served in that order, so it is observed here.
AfterClock == [put |-> "check", atomic |-> "check", renew |-> "check", gc |-> "check",
               refresh |-> "last", tick |-> "sweep", open |-> "last"]

ClockFrame(floor, observed) ==
  IF Rollback(floor, observed) \/ Jump(floor, observed)
  THEN [t |-> "unsafe", floor |-> floor, observed |-> observed]
  ELSE [t |-> "floor", old |-> floor, new |-> observed]

RefreshClock(c) ==
  /\ At(c, "clock")
  /\ \/ /\ readOnly # "none" \/ (Free(c, {Clock}) /\ (st.unsafe \/ wall = st.floor))
        /\ Goto(c, AfterClock[call[c].op]) /\ UNCHANGED queue
     \/ /\ readOnly = "none" /\ Free(c, {Clock}) /\ ~st.unsafe /\ wall # st.floor
        /\ Submit(c, ClockFrame(st.floor, wall), Waiting(c, "clocked", {Clock}))
  /\ UNCHANGED rest

ClockRefreshed(c) ==
  /\ Resumed(c, "clocked", "ok")
  /\ Goto(c, AfterClock[call[c].op]) /\ UNCHANGED <<queue, rest>>

\* An atomic put is left to release the staging quota its token holds.
Abandon(c) ==
  call' = [call EXCEPT ![c] = [@ EXCEPT !.pc = "gone", !.io = "none", !.held = {},
             !.token = IF @ \in {"staging", "staged"} THEN "cancelled" ELSE @]]

\* The checks after the clock, before any lock is awaited.
Checked(c) ==
  /\ At(c, "check")
  /\ IF Writable(TRUE) /\ (call[c].op = "put" => Allocatable(st, call[c].request))
     THEN Goto(c, [put |-> "reserve", atomic |-> "commit", renew |-> "renew", gc |-> "gc"][call[c].op])
     ELSE IF call[c].op = "atomic" THEN Abandon(c) ELSE Return(c)
  /\ UNCHANGED <<queue, rest>>

\* The last await of a call is over.
Finish(c) ==
  /\ At(c, "last") /\ call[c].io \in {"none", "ok"} /\ call[c].op # "open"
  /\ Return(c) /\ UNCHANGED <<queue, rest>>

\* The frame of a call was rejected, and the call just throws.
Throw(c) ==
  /\ call[c].io = "failed" /\ call[c].op \notin {"tick", "open", "atomic"} /\ ~At(c, "committed")
  /\ Return(c) /\ UNCHANGED <<queue, rest>>

StartRefresh(c) ==
  /\ MayStart(c, "refresh") /\ Begin(c, "refresh", None, "clock") /\ UNCHANGED <<queue, rest>>

\* confirmClock compares with the floor before it waits for the lock.
StartConfirm(c, epoch) ==
  /\ MayStart(c, "confirm") /\ Writable(FALSE) /\ epoch >= st.floor
  /\ Begin(c, "confirm", epoch, "confirm") /\ UNCHANGED <<queue, rest>>
ConfirmClock(c) ==
  /\ At(c, "confirm") /\ Free(c, {Clock})
  /\ Submit(c, [t |-> "confirm", old |-> st.floor, new |-> call[c].request],
            Waiting(c, "last", {Clock}))
  /\ UNCHANGED rest

-----------------------------------------------------------------------------
\* putCell: reserve, consume an attempt, stage the body, publish and commit.

\* #checkCreateQuota, with the bytes the caller has claimed already
CreateFits(credit) ==
  LET a == st.acct
      records == Cardinality({x \in Slots : st.cells[x] # None})
  IN /\ records + a.reserved < Quota.cells
     /\ a.stored + a.staging + Claimed - credit + 1 <= Quota.stored
     /\ a.staging + Claimed - credit + 1 <= Quota.staging
     /\ a.control + 1 <= Quota.control
     /\ a.tombs + 1 <= Quota.tombs

EntryOf(c) == st.spends[call[c].request.spend]

\* #spendReplay returns the committed result
Repeats(c) ==
  /\ EntryOf(c) # None /\ EntryOf(c).request = call[c].request
  /\ EntryOf(c).status = "committed" /\ Visible(st, call[c].request.slot)

\* A stored result reaches the caller.
Acknowledge(c) ==
  /\ stored' = stored \cup {call[c].request}
  /\ promised' = [promised EXCEPT ![call[c].request.slot] = st.cells[call[c].request.slot].lease]
  /\ UNCHANGED <<retired, bodies, damaged>>

\* #spendReplay does not throw and has no result to repeat
Resumable(c) == EntryOf(c) # None /\ EntryOf(c).request = call[c].request /\ EntryOf(c).status = "reserved"

OutOfCredit(c) == call[c].request.spend \in late \/ EntryOf(c).attempts = 0

TerminalFrame(spend) == [t |-> "terminal", spend |-> spend, epoch |-> st.floor]

StartPut(c, request) ==
  /\ MayStart(c, "put") /\ Writable(TRUE)
  /\ Begin(c, "put", request, "clock") /\ UNCHANGED <<queue, rest>>

ReservePut(c) ==
  LET request == call[c].request
      keys == BothKeys(request)
      admitted == Fresh(st, request) /\ st.cells[request.slot] = None /\ CreateFits(0)
  IN /\ At(c, "reserve") /\ Free(c, keys)
     /\ \/ Resumable(c) /\ ~OutOfCredit(c) /\ Goto(c, "attempt") /\ UNCHANGED queue
        \/ /\ Resumable(c) /\ OutOfCredit(c)
           /\ Submit(c, TerminalFrame(request.spend), Waiting(c, "last", keys))
        \/ /\ admitted
           /\ Submit(c, [t |-> "reserve", request |-> request, epoch |-> st.floor],
                     Waiting(c, "reserved", keys))
        \/ ~Resumable(c) /\ ~admitted /\ Refuse(c)
     /\ IF Repeats(c) THEN Acknowledge(c) ELSE UNCHANGED history
     /\ UNCHANGED <<mode, st, volatile, broken, late, wall, files, faults>>

ReservationMade(c) ==
  /\ Resumed(c, "reserved", "ok") /\ Goto(c, "attempt") /\ UNCHANGED <<queue, rest>>

ConsumeAttempt(c) ==
  LET request == call[c].request
      keys == BothKeys(request)
  IN /\ At(c, "attempt") /\ Free(c, keys)
     /\ \/ (~Resumable(c) \/ request.spend \in inFlight) /\ Refuse(c)
        \/ /\ Resumable(c) /\ request.spend \notin inFlight /\ OutOfCredit(c)
           /\ Submit(c, TerminalFrame(request.spend), Waiting(c, "last", keys))
        \/ /\ Resumable(c) /\ request.spend \notin inFlight /\ ~OutOfCredit(c)
           /\ Submit(c, [t |-> "attempt", spend |-> request.spend,
                         attempts |-> EntryOf(c).attempts - 1],
                     Waiting(c, "attempted", keys))
     /\ UNCHANGED rest

\* The abort signal is looked at again before the body is staged: an aborted
\* call returns and leaves inFlight set.
Attempted(c) ==
  /\ Resumed(c, "attempted", "ok")
  /\ inFlight' = inFlight \cup {call[c].request.spend}
  /\ Goto(c, "stage") \/ (Aborts /\ Return(c))
  /\ UNCHANGED <<mode, st, queue, readOnly, poisoned, heap, broken, late, wall, files, faults, history>>

Aborted(c) ==
  /\ Aborts
  /\ At(c, "reserve") \/ At(c, "attempt")
  /\ Return(c) /\ UNCHANGED <<queue, rest>>

UsedObjects ==
  temps \cup blobs \cup damaged \cup {call[d].blob : d \in Callers}
  \cup {st.cells[x].blob : x \in {y \in Slots : Present(st, y)}}

NewObject == CHOOSE o \in Objects \ UsedObjects : \A p \in Objects \ UsedObjects : o <= p

\* stageOpaque: the whole body is written and synced; or the source ends early
\* (the attempt is lost), the body is wrong or too late (terminal), or the disk
\* fails.
StageBody(c) ==
  LET spend == call[c].request.spend
  IN /\ At(c, "stage")
     /\ bodies' = [bodies EXCEPT ![spend] = @ + 1]
     /\ \/ /\ spend \notin late /\ Objects \ UsedObjects # {}
           /\ temps' = temps \cup {NewObject}
           /\ call' = [call EXCEPT ![c].pc = "publish", ![c].blob = NewObject]
           /\ UNCHANGED faults
        \/ /\ \E outcome \in {"interrupted", "invalid"} :
                (spend \in late => outcome = "invalid") /\ Goto(c, outcome)
           /\ UNCHANGED <<temps, faults>>
        \/ /\ faults < MaxFaults /\ faults' = faults + 1
           /\ Goto(c, "unstaged") /\ UNCHANGED temps
     /\ UNCHANGED <<mode, st, queue, volatile, broken, late, wall, blobs, stored, retired, promised, damaged>>

\* Mutant: an interrupted attempt stays in flight.
BugBodyFailed(c) ==
  /\ At(c, "invalid") \/ At(c, "interrupted")
  /\ Refuse(c) /\ UNCHANGED rest

BodyFailed(c) ==
  LET request == call[c].request
      keys == BothKeys(request)
      ends == Reserved(st, request.spend) /\ (At(c, "invalid") \/ EntryOf(c).attempts = 0)
  IN /\ At(c, "invalid") \/ At(c, "interrupted")
     /\ Free(c, keys)
     /\ inFlight' = inFlight \ {request.spend}
     /\ IF ends
        THEN Submit(c, TerminalFrame(request.spend), Waiting(c, "last", keys))
        ELSE Refuse(c)
     /\ UNCHANGED <<mode, st, readOnly, poisoned, heap, broken, late, wall, files, faults, history>>

Unstaged(c) ==
  /\ At(c, "unstaged") /\ Free(c, BothKeys(call[c].request))
  /\ inFlight' = inFlight \ {call[c].request.spend} /\ readOnly' = "ambiguous"
  /\ Return(c)
  /\ UNCHANGED <<mode, st, queue, poisoned, heap, broken, late, wall, files, faults, history>>

\* Mutant: the slot is not looked at again.
BugStillFree(c) == Resumable(c)

StillFree(c) == Resumable(c) /\ st.cells[call[c].request.slot] = None

\* Back under the locks: an abort still discards the body; so does a slot that
\* another create took.  A reservation that became terminal meanwhile throws
\* and leaves the staged file.
StartPublish(c) ==
  LET request == call[c].request
      keys == BothKeys(request)
      clear == StillFree(c)
  IN /\ At(c, "publish") /\ Free(c, keys)
     /\ \/ /\ clear
           /\ call' = [call EXCEPT ![c] = [@ EXCEPT !.pc = "publishing", !.held = keys,
                                             !.lease = st.floor + LeaseEpochs]]
           /\ UNCHANGED <<inFlight, temps>>
        \/ /\ Aborts \/ ~clear
           /\ Return(c)
           /\ inFlight' = IF Resumable(c) \/ Aborts THEN inFlight \ {request.spend} ELSE inFlight
           /\ temps' = IF Resumable(c) \/ Aborts THEN temps \ {call[c].blob} ELSE temps
     /\ UNCHANGED <<mode, st, queue, readOnly, poisoned, heap, broken, late, wall, blobs,
                    faults, history>>

\* publishOpaque renames the staged file, then the frame is submitted.  The
\* frame has the floor of this moment, its lease the floor of StartPublish.

MovePublished(c) == temps' = temps \ {call[c].blob} /\ blobs' = blobs \cup {call[c].blob}

Publish(c) ==
  /\ At(c, "publishing")
  /\ MovePublished(c)
  /\ Submit(c, [t |-> "put", spend |-> call[c].request.spend, blob |-> call[c].blob,
                lease |-> call[c].lease, epoch |-> st.floor],
            Waiting(c, "committed", call[c].held))
  /\ UNCHANGED <<mode, st, volatile, broken, late, wall, faults, history>>

\* Mutant: the result is returned before the frame is durable.
BugStored(c) ==
  /\ At(c, "committed") /\ call[c].io \in {"wait", "ok"}
  /\ stored' = stored \cup {call[c].request}
  /\ Return(c) /\ UNCHANGED <<mode, st, queue, volatile, broken, late, wall, files, faults, retired, promised, bodies, damaged>>

Stored(c) ==
  /\ Resumed(c, "committed", "ok")
  /\ Acknowledge(c) /\ Return(c)
  /\ UNCHANGED <<mode, st, queue, volatile, broken, late, wall, files, faults>>

PublishFails(c) ==
  /\ \/ At(c, "publishing") /\ faults < MaxFaults /\ faults' = faults + 1
        /\ (MovePublished(c) \/ UNCHANGED files)
     \/ Resumed(c, "committed", "failed") /\ UNCHANGED <<faults, files>>
  /\ inFlight' = inFlight \ {call[c].request.spend} /\ readOnly' = "ambiguous"
  /\ Return(c)
  /\ UNCHANGED <<mode, st, queue, poisoned, heap, broken, late, wall, history>>

-----------------------------------------------------------------------------
\* stageAtomicCellPut and commitAtomicCellPut.  token is the phase of the
\* staged authority and holds one unit of the staging quota until it is "none".

StageFits ==
  /\ st.acct.stored + st.acct.staging + Claimed + 1 <= Quota.stored
  /\ st.acct.staging + Claimed + 1 <= Quota.staging

StartAtomic(c, request) ==
  /\ MayStart(c, "atomic") /\ Writable(TRUE) /\ StageFits
  /\ call' = [call EXCEPT ![c] = [Idle EXCEPT !.op = "atomic", !.request = request,
                                    !.pc = "astage", !.token = "staging"]]
  /\ UNCHANGED <<queue, rest>>

StageAtomic(c) ==
  /\ At(c, "astage")
  /\ \/ /\ Objects \ UsedObjects # {}
        /\ temps' = temps \cup {NewObject}
        /\ call' = [call EXCEPT ![c] = [@ EXCEPT !.pc = "hold", !.blob = NewObject, !.token = "staged"]]
     \/ Abandon(c) /\ UNCHANGED temps
  /\ UNCHANGED <<mode, st, queue, volatile, broken, late, wall, blobs, faults, history>>

ConfirmAtomic(c) ==
  /\ At(c, "hold") /\ call[c].token = "staged"
  /\ Goto(c, "clock") /\ UNCHANGED <<queue, rest>>

\* cancelAtomicCellPut, from the caller or from the sweep of expired leases;
\* it takes no lock.
CancelAtomic(c) ==
  /\ call[c].token = "staged"
  /\ IF At(c, "hold") THEN Abandon(c) ELSE call' = [call EXCEPT ![c].token = "cancelled"]
  /\ UNCHANGED <<queue, rest>>

\* #releaseAtomicStaging: discard the body and give the quota back.
ReleaseAtomic(c) ==
  /\ call[c].token \in {"cancelled", "committed"}
  /\ temps' = temps \ {call[c].blob}
  /\ call' = [call EXCEPT ![c].token = "none"]
  /\ UNCHANGED <<mode, st, queue, volatile, broken, late, wall, blobs, faults, history>>

AtomicReturns(c) ==
  /\ At(c, "gone") /\ call[c].token = "none"
  /\ Return(c) /\ UNCHANGED <<queue, rest>>

\* Up to the fence; from there on the commit cannot be cancelled.
CommitAtomic(c) ==
  LET request == call[c].request
      keys == BothKeys(request)
      live == call[c].token = "staged"
      clear == /\ live /\ Fresh(st, request) /\ st.cells[request.slot] = None
               /\ Allocatable(st, request) /\ CreateFits(1)
  IN /\ At(c, "commit") /\ Free(c, keys)
     /\ IF clear
        THEN call' = [call EXCEPT ![c] = [@ EXCEPT !.pc = "apublish", !.held = keys,
                        !.token = "committing", !.lease = st.floor + LeaseEpochs]]
        ELSE Abandon(c)
     /\ IF live /\ Repeats(c) THEN Acknowledge(c) ELSE UNCHANGED history
     /\ UNCHANGED <<mode, st, queue, volatile, broken, late, wall, files, faults>>

PublishAtomic(c) ==
  /\ At(c, "apublish")
  /\ MovePublished(c)
  /\ Submit(c, [t |-> "atomic", request |-> call[c].request, blob |-> call[c].blob,
                lease |-> call[c].lease, epoch |-> st.floor],
            Waiting(c, "acommitted", call[c].held))
  /\ UNCHANGED <<mode, st, volatile, broken, late, wall, faults, history>>

\* Mutant: the result is returned before the frame is durable.
BugAtomicStored(c) ==
  /\ At(c, "acommitted") /\ call[c].io \in {"wait", "ok"}
  /\ stored' = stored \cup {call[c].request}
  /\ call' = [call EXCEPT ![c] = [@ EXCEPT !.pc = "gone", !.token = "committed"]]
  /\ UNCHANGED <<mode, st, queue, volatile, broken, late, wall, files, faults, retired, promised, bodies, damaged>>

AtomicStored(c) ==
  /\ Resumed(c, "acommitted", "ok")
  /\ Acknowledge(c)
  /\ call' = [call EXCEPT ![c] = [@ EXCEPT !.pc = "gone", !.io = "none", !.token = "committed"]]
  /\ UNCHANGED <<mode, st, queue, volatile, broken, late, wall, files, faults>>

AtomicFails(c) ==
  /\ \/ /\ Resumed(c, "clocked", "failed") /\ call[c].op = "atomic"
        /\ Abandon(c) /\ UNCHANGED <<readOnly, files, faults>>
     \/ /\ \/ At(c, "apublish") /\ faults < MaxFaults /\ faults' = faults + 1
              /\ (MovePublished(c) \/ UNCHANGED files)
           \/ Resumed(c, "acommitted", "failed") /\ UNCHANGED <<faults, files>>
        /\ readOnly' = "ambiguous"
        /\ call' = [call EXCEPT ![c] = [@ EXCEPT !.pc = "gone", !.io = "none", !.token = "cancelled"]]
  /\ UNCHANGED <<mode, st, queue, poisoned, inFlight, heap, broken, late, wall, history>>

-----------------------------------------------------------------------------
\* Managing a cell.  A caller names the revision and lease it knows: those of
\* the cell when it calls, or those of a request it sent before.

StartRenew(c, spend, slot) ==
  /\ MayStart(c, "renew") /\ Writable(TRUE)
  /\ Present(st, slot)
  /\ \/ Begin(c, "renew", [op |-> "renew", spend |-> spend, slot |-> slot,
                           rev |-> st.cells[slot].rev, lease |-> st.cells[slot].lease], "clock")
     \/ /\ st.spends[spend] # None /\ st.spends[spend].request.op = "renew"
        /\ Begin(c, "renew", st.spends[spend].request, "clock")
  /\ UNCHANGED <<queue, rest>>

RenewCell(c) ==
  LET request == call[c].request
      keys == BothKeys(request)
      new == RenewedLease(st.floor, request.lease)
      due == /\ Fresh(st, request) /\ Matches(st, request) /\ ~Expired(st, request.slot)
             /\ new > request.lease /\ st.acct.control + 1 <= Quota.control
  IN /\ At(c, "renew") /\ Free(c, keys)
     /\ IF due
        THEN Submit(c, [t |-> "renew", request |-> request, newLease |-> new, epoch |-> st.floor],
                    [Waiting(c, "renewed", keys) EXCEPT !.lease = new])
        ELSE Refuse(c)
     /\ UNCHANGED rest

Renewed(c) ==
  /\ Resumed(c, "renewed", "ok")
  /\ promised' = [promised EXCEPT ![call[c].request.slot] = call[c].lease]
  /\ Return(c)
  /\ UNCHANGED <<mode, st, queue, volatile, broken, late, wall, files, faults, stored, retired, bodies, damaged>>

StartDrop(c, slot) ==
  /\ MayStart(c, "drop") /\ Writable(FALSE)
  /\ st.cells[slot] # None
  /\ Begin(c, "drop", [slot |-> slot, rev |-> st.cells[slot].rev, lease |-> st.cells[slot].lease],
           "drop")
  /\ UNCHANGED <<queue, rest>>

DropCell(c) ==
  LET request == call[c].request
  IN /\ At(c, "drop") /\ Free(c, {CellKey(request)})
     /\ IF Matches(st, request) /\ \A r \in st.results : r.request # request
        THEN Submit(c, [t |-> "drop", request |-> request, epoch |-> st.floor],
                    [Waiting(c, "remove", {CellKey(request)}) EXCEPT !.blob = st.cells[request.slot].blob])
        ELSE Refuse(c)
     /\ UNCHANGED rest

\* The body of a dropped or collected cell is removed; a failure is ignored.
RemoveBody(c) ==
  /\ Resumed(c, "remove", "ok")
  /\ \/ blobs' = blobs \ {call[c].blob} /\ UNCHANGED faults
     \/ faults < MaxFaults /\ faults' = faults + 1 /\ UNCHANGED blobs
  /\ IF call[c].op = "gc" THEN Goto(c, "gc") ELSE Return(c)
  /\ UNCHANGED <<mode, st, queue, volatile, broken, late, wall, temps, history>>

MaxPolicyRev == 2   \* bound on suppressions and restorations of one cell

StartPolicy(c, slot) ==
  /\ MayStart(c, "policy") /\ Writable(FALSE)
  /\ Present(st, slot) /\ st.cells[slot].policyRev < MaxPolicyRev
  /\ Begin(c, "policy",
           [slot |-> slot, rev |-> st.cells[slot].policyRev,
            policy |-> IF st.cells[slot].policy = "visible" THEN "suppressed" ELSE "visible"],
           "policy")
  /\ UNCHANGED <<queue, rest>>

SetPolicy(c) ==
  LET request == call[c].request
      record == st.cells[request.slot]
      due == Present(st, request.slot) /\ record.policyRev = request.rev /\ record.policy # request.policy
  IN /\ At(c, "policy") /\ Free(c, {CellKey(request)})
     /\ IF due
        THEN Submit(c, [t |-> "policy", slot |-> request.slot, rev |-> request.rev,
                        policy |-> request.policy, epoch |-> st.floor],
                    Waiting(c, "last", {CellKey(request)}))
        ELSE Refuse(c)
     /\ UNCHANGED rest

\* gc walks the cells and checks each again under its lock.
StartGc(c) ==
  /\ MayStart(c, "gc") /\ Writable(TRUE)
  /\ Begin(c, "gc", None, "clock") /\ UNCHANGED <<queue, rest>>

CollectCell(c) ==
  /\ At(c, "gc")
  /\ \/ \E slot \in Slots :
          /\ Expired(st, slot) /\ Free(c, {<<"cell", slot>>})
          /\ Submit(c, [t |-> "gc", slot |-> slot, rev |-> st.cells[slot].rev,
                        lease |-> st.cells[slot].lease, epoch |-> st.floor],
                    [Waiting(c, "remove", {<<"cell", slot>>}) EXCEPT !.blob = st.cells[slot].blob])
     \/ (\A slot \in Slots : ~Expired(st, slot)) /\ Refuse(c)
  /\ UNCHANGED rest

\* compact chooses its candidates first and takes no lock.
StartCompact(c) ==
  /\ MayStart(c, "compact") /\ Writable(FALSE) /\ Compactable(st) # {}
  /\ call' = [call EXCEPT ![c] = [Idle EXCEPT !.op = "compact", !.pc = "compact",
                                    !.todo = Compactable(st)]]
  /\ UNCHANGED <<queue, rest>>

CompactRank == [cell |-> 1, spend |-> 2, result |-> 3]

CompactNext(c) ==
  /\ At(c, "compact") /\ call[c].io \in {"none", "ok"}
  /\ \/ \E k \in call[c].todo :
          /\ \A j \in call[c].todo : CompactRank[k[1]] <= CompactRank[j[1]]
          /\ Submit(c, [t |-> "compact", kind |-> k[1], key |-> k[2], epoch |-> st.floor],
                    [call[c] EXCEPT !.todo = @ \ {k}])
     \/ call[c].todo = {} /\ Refuse(c)
  /\ UNCHANGED rest

-----------------------------------------------------------------------------
\* Reads.  A body that is missing is evidence of damage: the store becomes
\* read-only at once and for good.
Corrupt(o) ==
  /\ o \in blobs /\ faults < MaxFaults /\ "corrupt" \in Ops
  /\ blobs' = blobs \ {o} /\ damaged' = damaged \cup {o} /\ faults' = faults + 1
  /\ UNCHANGED <<mode, st, queue, call, volatile, broken, late, wall, temps, stored, retired, promised, bodies>>

\* #recordIntegrityFailures
RecordGap(c, evidence, pc) ==
  IF readOnly = "gap" /\ evidence \in st.gap
  THEN Goto(c, pc) /\ UNCHANGED <<queue, readOnly>>
  ELSE /\ readOnly' = "gap"
       /\ Submit(c, [t |-> "integrity", evidence |-> evidence], Waiting(c, pc, call[c].held))

StartRead(c, slot) ==
  /\ MayStart(c, "read") /\ st.cells[slot] # None
  /\ Begin(c, "read", [slot |-> slot], "look") /\ UNCHANGED <<queue, rest>>

\* Mutant: the lock is given up before the body is read.
BugLookUp(c) ==
  /\ At(c, "look") /\ Visible(st, call[c].request.slot)
  /\ call' = [call EXCEPT ![c] = [@ EXCEPT !.pc = "reading", !.blob = st.cells[call[c].request.slot].blob]]
  /\ UNCHANGED <<queue, rest>>

LookUp(c) ==
  LET key == CellKey(call[c].request)
  IN /\ At(c, "look") /\ Free(c, {key})
     /\ IF Visible(st, call[c].request.slot)
        THEN call' = [call EXCEPT ![c] = [@ EXCEPT !.pc = "reading", !.held = {key},
                        !.blob = st.cells[call[c].request.slot].blob]]
        ELSE Return(c)
     /\ UNCHANGED <<queue, rest>>

ReadBody(c) ==
  /\ At(c, "reading")
  /\ \/ /\ call[c].blob \in blobs
        /\ IF call[c].op = "charged" THEN Goto(c, "finalize") ELSE Return(c)
        /\ UNCHANGED <<queue, readOnly>>
     \/ call[c].blob \notin blobs /\ RecordGap(c, {call[c].request.slot}, "last")
  /\ UNCHANGED <<mode, st, poisoned, inFlight, heap, broken, late, wall, files, faults, history>>

\* chargedCellRead pins what it will answer with, then reads it.
StartCharged(c, request) ==
  /\ MayStart(c, "charged") /\ Writable(FALSE)
  /\ Begin(c, "charged", request, "pin") /\ UNCHANGED <<queue, rest>>

PinRead(c) ==
  LET request == call[c].request
      keys == BothKeys(request)
      pins == PinOf(st, request.slot)
      payable == /\ Fresh(st, request) /\ (request.batch \/ pins # None)
                 /\ st.acct.control + PinControl <= Quota.control
      again == EntryOf(c) # None /\ EntryOf(c).request = request
  IN /\ At(c, "pin") /\ Free(c, keys)
     /\ \/ again /\ call' = [call EXCEPT ![c] = Waiting(c, "materialize", keys)] /\ UNCHANGED queue
        \/ /\ payable
           /\ Submit(c, [t |-> "pin", request |-> request, pins |-> pins, epoch |-> st.floor],
                     Waiting(c, "materialize", keys))
        \/ ~again /\ ~payable /\ Refuse(c)
     /\ UNCHANGED rest

Materialize(c) ==
  LET request == call[c].request
      pins == EntryOf(c).pins
      live == Pinned(st, request.spend) /\ request.spend \notin late /\ ServableSource(st, request.slot, pins)
  IN /\ At(c, "materialize") /\ call[c].io \in {"none", "ok"}
     /\ \/ ~live /\ Return(c)
        \/ live /\ pins = None /\ Goto(c, "finalize")
        \/ /\ live /\ pins # None
           /\ call' = [call EXCEPT ![c] = [@ EXCEPT !.pc = "reading", !.io = "none",
                                             !.blob = st.cells[request.slot].blob]]
     /\ UNCHANGED <<queue, rest>>

Unchanged(c) == ExactSource(st, call[c].request.slot, EntryOf(c).pins)

\* finalizeChargedCellRead: the result is released to the caller.
Finalize(c) ==
  LET request == call[c].request
      due == /\ Writable(FALSE) /\ Pinned(st, request.spend)
             /\ EntryOf(c).status = "pinned" /\ request.spend \notin late
             /\ Unchanged(c)
  IN /\ At(c, "finalize") /\ Free(c, BothKeys(request))
     /\ IF due
        THEN Submit(c, [t |-> "final", spend |-> request.spend, epoch |-> st.floor],
                    Waiting(c, "last", BothKeys(request)))
        ELSE Refuse(c)
     /\ UNCHANGED rest

\* scrub takes no lock: a record is looked at, its body inspected later.
StartScrub(c) ==
  /\ MayStart(c, "scrub")
  /\ call' = [call EXCEPT ![c] = [Idle EXCEPT !.op = "scrub", !.pc = "scrub", !.todo = Slots]]
  /\ UNCHANGED <<queue, rest>>

ScrubNext(c) ==
  LET present == {x \in call[c].todo : Present(st, x)}
  IN /\ At(c, "scrub")
     /\ \/ /\ \E slot \in present :
                call' = [call EXCEPT ![c] = [@ EXCEPT !.pc = "inspect", !.todo = @ \ {slot},
                           !.request = slot, !.blob = st.cells[slot].blob]]
           /\ UNCHANGED <<queue, readOnly>>
        \/ present = {} /\ call[c].bad # {} /\ readOnly = "none" /\ RecordGap(c, call[c].bad, "last")
        \/ present = {} /\ ~(call[c].bad # {} /\ readOnly = "none") /\ Refuse(c) /\ UNCHANGED readOnly
     /\ UNCHANGED <<mode, st, poisoned, inFlight, heap, broken, late, wall, files, faults, history>>

Inspect(c) ==
  /\ At(c, "inspect")
  /\ call' = [call EXCEPT ![c] = [@ EXCEPT !.pc = "scrub",
                !.bad = IF call[c].blob \in blobs THEN @ ELSE @ \cup {call[c].request}]]
  /\ UNCHANGED <<queue, rest>>

-----------------------------------------------------------------------------
\* The interval timer and open share the two sweeps.

StartTick ==
  /\ MayStart(Timer, "tick") /\ Begin(Timer, "tick", None, "clock") /\ UNCHANGED <<queue, rest>>

\* #sweepReservationBatch
Sweepable(spend) ==
  /\ Reserved(st, spend) /\ spend \notin inFlight
  /\ spend \in late \/ st.spends[spend].attempts = 0

SweepReservations ==
  /\ Resumed(Timer, "sweep", "none") \/ Resumed(Timer, "sweep", "ok")
  /\ \/ \E spend \in Spends :
          LET keys == BothKeys(st.spends[spend].request)
          IN /\ Sweepable(spend) /\ Free(Timer, keys)
             /\ Submit(Timer, TerminalFrame(spend), Waiting(Timer, "sweep", keys))
     \/ (\A spend \in Spends : ~Sweepable(spend)) /\ Goto(Timer, "expire") /\ UNCHANGED queue
  /\ UNCHANGED rest

\* #sweepExpiredChargedReadPins: the due pin leaves the heap before its frame
\* is submitted.
AfterExpire == IF call[Timer].op = "open" THEN Goto(Timer, "quota") ELSE Return(Timer)

ExpirePins ==
  LET due == heap \cap late
  IN /\ Resumed(Timer, "expire", "none") \/ Resumed(Timer, "expire", "ok")
     /\ \/ /\ Writable(FALSE)
           /\ \E spend \in due :
                /\ Free(Timer, {<<"spend", spend>>})
                /\ heap' = heap \ {spend}
                /\ IF Pinned(st, spend)
                   THEN Submit(Timer, [t |-> "expire", spend |-> spend, epoch |-> st.floor],
                               Waiting(Timer, "expire", {<<"spend", spend>>}))
                   ELSE Goto(Timer, "expire") /\ UNCHANGED queue
        \/ /\ ~Writable(FALSE) \/ due = {}
           /\ AfterExpire /\ UNCHANGED <<heap, queue>>
     /\ UNCHANGED <<mode, st, readOnly, poisoned, inFlight, broken, late, wall, files, faults, history>>

TickFails ==
  /\ call[Timer].op = "tick" /\ call[Timer].io = "failed"
  /\ readOnly' = IF readOnly = "none" THEN "timer" ELSE readOnly
  /\ Return(Timer)
  /\ UNCHANGED <<mode, st, queue, poisoned, inFlight, heap, broken, late, wall, files, faults, history>>

InitialEpochFloor == 1

\* Mutant: integrity frames are not looked at during replay.
BugRecoveredReason == "none"

RecoveredReason == IF st.gap = {} THEN "none" ELSE "gap"

\* open replays the WAL; staging files of the dead process are removed.
Open ==
  /\ mode = "down" /\ ~broken
  /\ mode' = "opening" /\ temps' = {}
  /\ readOnly' = RecoveredReason
  /\ heap' = {x \in Spends : Pinned(st, x)}
  /\ IF st.floor = 0
     THEN Submit(Timer, [t |-> "floor", old |-> 0, new |-> InitialEpochFloor],
                 [Idle EXCEPT !.op = "open", !.pc = "sweep"])
     ELSE Begin(Timer, "open", None, "sweep") /\ UNCHANGED queue
  /\ UNCHANGED <<st, poisoned, inFlight, broken, late, wall, blobs, faults, history>>

WithinQuota ==
  /\ st.acct.stored + st.acct.staging <= Quota.stored
  /\ st.acct.staging <= Quota.staging
  /\ st.acct.control <= Quota.control /\ st.acct.tombs <= Quota.tombs
  /\ Cardinality({x \in Slots : st.cells[x] # None}) + st.acct.reserved <= Quota.cells

EnforceRecoveredQuota ==
  /\ At(Timer, "quota")
  /\ readOnly' = IF WithinQuota THEN readOnly ELSE "quota"
  /\ Goto(Timer, "verify")
  /\ UNCHANGED <<mode, st, queue, poisoned, inFlight, heap, broken, late, wall, files, faults, history>>

VerifyReferences ==
  LET missing == {x \in Slots : Present(st, x) /\ st.cells[x].blob \notin blobs}
  IN /\ At(Timer, "verify")
     /\ IF missing = {}
        THEN Goto(Timer, "orphans") /\ UNCHANGED <<queue, readOnly>>
        ELSE \E x \in missing : RecordGap(Timer, {x}, "orphans")
     /\ UNCHANGED <<mode, st, poisoned, inFlight, heap, broken, late, wall, files, faults, history>>

\* Mutant: cleanupOrphans spares only what clients can see.
BugCleanupOrphans ==
  /\ At(Timer, "orphans") /\ call[Timer].io \in {"none", "ok"}
  /\ blobs' = blobs \cap {st.cells[x].blob : x \in {y \in Slots : Visible(st, y)}}
  /\ Goto(Timer, "clock")
  /\ UNCHANGED <<mode, st, queue, volatile, broken, late, wall, temps, faults, history>>

CleanupOrphans ==
  /\ At(Timer, "orphans") /\ call[Timer].io \in {"none", "ok"}
  /\ blobs' = blobs \cap {st.cells[x].blob : x \in {y \in Slots : Present(st, y)}}
  /\ Goto(Timer, "clock")
  /\ UNCHANGED <<mode, st, queue, volatile, broken, late, wall, temps, faults, history>>

Opened ==
  /\ At(Timer, "last") /\ call[Timer].op = "open"
  /\ mode' = "open" /\ Return(Timer)
  /\ UNCHANGED <<st, queue, volatile, broken, late, wall, files, faults, history>>

-----------------------------------------------------------------------------
\* A step of a call in progress.
Step(c) ==
  \/ RefreshClock(c) \/ ClockRefreshed(c) \/ Checked(c) \/ Finish(c) \/ Throw(c)
  \/ ConfirmClock(c)
  \/ ReservePut(c) \/ ReservationMade(c) \/ ConsumeAttempt(c) \/ Attempted(c)
  \/ StageBody(c) \/ BodyFailed(c) \/ Unstaged(c)
  \/ StartPublish(c) \/ Publish(c) \/ Stored(c) \/ PublishFails(c)
  \/ StageAtomic(c) \/ ConfirmAtomic(c) \/ ReleaseAtomic(c) \/ AtomicReturns(c)
  \/ CommitAtomic(c) \/ PublishAtomic(c) \/ AtomicStored(c) \/ AtomicFails(c)
  \/ RenewCell(c) \/ Renewed(c) \/ DropCell(c) \/ RemoveBody(c) \/ SetPolicy(c)
  \/ CollectCell(c) \/ CompactNext(c)
  \/ LookUp(c) \/ ReadBody(c) \/ PinRead(c) \/ Materialize(c) \/ Finalize(c)
  \/ ScrubNext(c) \/ Inspect(c)

\* A client makes a call.
Start(c) ==
  \/ StartRefresh(c)
  \/ \E e \in 1..MaxEpoch : StartConfirm(c, e)
  \/ \E request \in Creates : StartPut(c, request) \/ StartAtomic(c, request)
  \/ \E spend \in Spends, slot \in Slots : StartRenew(c, spend, slot)
  \/ \E slot \in Slots : StartDrop(c, slot) \/ StartPolicy(c, slot) \/ StartRead(c, slot)
  \/ \E spend \in Spends, slot \in Slots, batch \in BOOLEAN :
       StartCharged(c, [op |-> "read", spend |-> spend, slot |-> slot, batch |-> batch])
  \/ StartGc(c) \/ StartCompact(c) \/ StartScrub(c)
  \/ Aborted(c) \/ CancelAtomic(c)

TimerStep ==
  \/ SweepReservations \/ ExpirePins \/ TickFails
  \/ Open \/ EnforceRecoveredQuota \/ VerifyReferences \/ CleanupOrphans \/ Opened

Next ==
  \/ \E c \in Clients : Start(c) \/ Step(c)
  \/ Step(Timer) \/ TimerStep \/ StartTick
  \/ Commit \/ CommitRefused \/ CommitFails \/ Crash
  \/ \E c \in Clients : Ejected(c)
  \/ \E e \in 1..MaxEpoch : WallMoves(e)
  \/ \E spend \in Spends : DeadlinePasses(spend)
  \/ \E o \in Objects : Corrupt(o)

Spec == Init /\ [][Next]_vars

-----------------------------------------------------------------------------
\* The types of the variables; in particular every body file has an object
\* identifier that is in use nowhere else when it is made.
TypeOK ==
  /\ mode \in {"down", "opening", "open"}
  /\ DOMAIN st.cells = Slots /\ DOMAIN st.spends = Spends /\ st.floor \in 0..MaxEpoch
  /\ \A k \in DOMAIN st.acct : st.acct[k] \in Nat
  /\ Queued \subseteq Callers /\ DOMAIN call = Callers
  /\ readOnly \in {"none", "ambiguous", "timer", "quota", "gap"}
  /\ inFlight \cup late \cup heap \subseteq Spends
  /\ temps \cup blobs \cup damaged \subseteq Objects
  /\ faults \in 0..MaxFaults /\ wall \in 1..MaxEpoch

\* Every durable frame is one its apply handler accepts, so that a restart can
\* replay the WAL (appendAndApply makes the frame durable before #applyFrame
\* checks it).
RecoveryPossible == ~broken

\* A create that was acknowledged is kept across crashes: the slot holds that
\* create, or the cell was dropped or collected since.
AckedPutDurable ==
  \A r \in stored :
    \/ st.cells[r.slot] # None /\ st.cells[r.slot].spend = r.spend
    \/ r.slot \in retired

\* A slot that was dropped or collected is never occupied again, although its
\* tombstone and spend are compacted away after the retention horizon.
NoResurrection == \A slot \in retired : ~Present(st, slot)

\* The body of a present cell is on disk, except where the disk lost it: no
\* crash, cleanup of orphans, drop or collection removes another cell's body.
PresentHasBlob ==
  \A slot \in Slots : Present(st, slot) => st.cells[slot].blob \in blobs \cup damaged

Entries(statuses) == Cardinality({x \in Spends : st.spends[x] # None /\ st.spends[x].status \in statuses})

\* The running byte and record counters (#assertAccounting, the ledger that the
\* quotas are checked against) are those the records themselves give.
AccountingExact ==
  LET records == Cardinality({x \in Slots : st.cells[x] # None})
      pins == Entries({"pinned", "finalized"})
      reserved == Entries({"reserved"})
  IN st.acct = [stored |-> Cardinality({x \in Slots : Present(st, x)}),
                staging |-> reserved, reserved |-> reserved, tombs |-> records + reserved,
                control |-> Cardinality({x \in Spends : st.spends[x] # None}) + (PinControl - 1) * pins]

\* The store is never beyond repair: what a restart replays is accepted, what
\* its records name is on disk, and what its quotas are checked against is what
\* it holds.
Sound == TypeOK /\ RecoveryPossible /\ PresentHasBlob /\ AccountingExact

\* A lease that was acknowledged, by a put or a renewal, is honoured: until it
\* and the grace run out, only a drop removes the cell.
LeaseHonoured ==
  \A slot \in Slots :
    promised[slot] > 0 /\ st.floor <= promised[slot] + Grace
      => Present(st, slot) /\ st.cells[slot].lease >= promised[slot]

\* One spend pays for at most two body attempts, across crashes and retries.
AttemptsBounded == \A spend \in Spends : bodies[spend] <= 2

\* Once damage is on record the open store is read-only, after a restart too,
\* even when the damaged cell is gone by then.
GapReadOnly == mode = "open" /\ st.gap # {} => readOnly # "none"

\* A read answers, with the body or by recording damage, only while its cell is
\* present and visible: a drop or a suppression does not overtake a read in
\* progress, and a body that a drop removed is not taken for a lost one.
ServesLive ==
  [][\A c \in Clients :
       At(c, "reading") /\ call'[c].pc # "reading" /\ mode' = "open"
         => LET cell == st.cells[call[c].request.slot]
            IN Present(st, call[c].request.slot) /\ cell.blob = call[c].blob /\ cell.policy = "visible"]_vars

\* Concurrent atomic creates never store more bytes than the quota has.
BytesWithinQuota ==
  st.acct.stored + st.acct.staging <= Quota.stored /\ st.acct.staging <= Quota.staging

\* Concurrent creates never keep more records than the quota has, so that the
\* next open does not find the quota exceeded.
RecordsWithinQuota == WithinQuota
==============================================================================

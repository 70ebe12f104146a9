----------------------------- MODULE InboxEngine -----------------------------
(***************************************************************************)
(* BlindInboxStorageEngine (packages/blind-daemon/inbox-storage-engine.js) *)
(* and the calls that the Inbox adapter makes of it                        *)
(* (inbox-runtime-adapter.js), each cut at its awaits, over keyed locks, a *)
(* commit queue and the files of frame bodies; crashes and recovery.       *)
(*                                                                         *)
(* Calls, locks, queue and crashes are those of CellEngine: a call has a   *)
(* place (pc), the keys it holds and the fate of the frame it submitted    *)
(* (io); a crash keeps a prefix of the submitted frames.  An append is     *)
(* stored and acknowledged in two operations of the engine, and so is a    *)
(* charged read; between the two the adapter signs.                        *)
(***************************************************************************)
EXTENDS InboxState, Sequences

CONSTANTS Clients,      \* concurrent callers
          Timer,        \* the caller of open and of the 60 s interval
          MaxEpoch,     \* bound on the epochs of the wall clock
          Quota,        \* limits: inboxes, frames, topic, stored, staging, control, tombs, waiters
          PageLimit,    \* the limit of a page
          MaxCalls,     \* bound on the calls of clients
          MaxFaults     \* bound on crashes, closes and I/O faults

ASSUME EngineConstants ==
  /\ Timer \notin Clients /\ MaxEpoch \in Nat \ {0} /\ MaxFaults \in Nat
  /\ PageLimit \in Nat \ {0} /\ MaxCalls \in Nat /\ IsFiniteSet(Clients)

VARIABLES mode,      \* "down", "opening" or "open"
          closing,
          st,        \* the state of InboxState
          queue,     \* walCommitQueue and the group being committed
          call,      \* the calls in progress
          readOnly,  \* readOnlyReason
          poisoned,  \* the transaction store refuses appends until restart
          broken,    \* a durable frame that its apply handler refuses
          staging,   \* stagingFrameBytes
          late,      \* charged reads whose retry minute passed
          blobs,     \* the body files
          started, faults, \* calls, and crashes, closes and faults, so far
          acked, promised, damaged   \* history

history == <<acked, promised, damaged>>
volatile == <<closing, readOnly, poisoned, staging>>
vars == <<mode, st, queue, call, volatile, broken, late, blobs, started, faults, history>>

-----------------------------------------------------------------------------
Callers == Clients \cup {Timer}
Idle == [op |-> "idle", request |-> None, pc |-> "idle", io |-> "none", held |-> {},
         blob |-> None, entries |-> {}, n |-> 0]

TopicKey(request) == <<"inbox", request.topic>>
SpendKey(request) == <<"spend", request.spend>>
\* Mutant: the topic is not locked.
BugKeys(request) == {SpendKey(request)}

Keys(request) == {TopicKey(request), SpendKey(request)}

At(c, pc) == call[c].pc = pc
Resumed(c, pc, io) == At(c, pc) /\ call[c].io = io
Free(c, keys) == \A d \in Callers \ {c} : call[d].held \cap keys = {}
Return(c) == call' = [call EXCEPT ![c] = Idle]
Goto(c, pc) ==
  call' = [call EXCEPT ![c] = [Idle EXCEPT !.op = call[c].op, !.request = call[c].request, !.pc = pc]]

Waiters == {c \in Clients : At(c, "wait")}

\* The adapter signs between two operations of the engine.
Signing(c) == At(c, "sign")
\* activeOperations
Active == {c \in Callers : ~At(c, "idle") /\ ~Signing(c)}

\* Mutant: only the quota and the timer close the store to writers.
BugWritable == readOnly \in {"none", "gap"}

\* #assertWritable, and the first line of the sweeps
Writable == readOnly = "none"

Submit(c, f, next) ==
  IF poisoned
  THEN call' = [call EXCEPT ![c] = [next EXCEPT !.io = "failed"]] /\ UNCHANGED queue
  ELSE /\ queue' = Append(queue, [by |-> c, f |-> f])
       /\ call' = [call EXCEPT ![c] = [next EXCEPT !.io = "wait"]]

\* The call keeps keys while its frame is committed.
Waiting(c, pc, keys) == [call[c] EXCEPT !.pc = pc, !.held = keys]
Rejected(calls) ==
  [c \in Callers |-> IF c \in calls THEN [call[c] EXCEPT !.io = "failed"] ELSE call[c]]
Queued == {queue[i].by : i \in 1..Len(queue)}

Init ==
  /\ mode = "down" /\ closing = FALSE /\ st = EmptyState /\ queue = <<>>
  /\ call = [c \in Callers |-> Idle]
  /\ readOnly = "none" /\ poisoned = FALSE /\ broken = FALSE /\ staging = 0
  /\ late = {} /\ blobs = {} /\ started = 0 /\ faults = 0
  /\ acked = {} /\ promised = [t \in Topics |-> 0] /\ damaged = {}

-----------------------------------------------------------------------------
\* #notifyTopic: a waiter goes on to read, or its call fails.
Woken(calls, topic) ==
  [c \in Callers |-> IF c \in Waiters /\ call[c].request.topic = topic
                     THEN [calls[c] EXCEPT !.pc = "enter"] ELSE calls[c]]
Failed(calls, topic) ==
  [c \in Callers |-> IF c \in Waiters /\ call[c].request.topic = topic THEN Idle ELSE calls[c]]

\* Mutant: finalizing an append wakes nobody.
BugNotified(calls, s, f) ==
  CASE f.t = "close" -> Failed(calls, f.request.topic)
    [] f.t = "gc" -> Failed(calls, f.topic)
    [] f.t = "policy" /\ f.policy = "suppressed" -> Failed(calls, f.topic)
    [] OTHER -> calls

\* The waiters that a handler notifies.
Notified(calls, s, f) ==
  CASE f.t = "close" -> Failed(calls, f.request.topic)
    [] f.t = "gc" -> Failed(calls, f.topic)
    [] f.t = "policy" /\ f.policy = "suppressed" -> Failed(calls, f.topic)
    [] f.t = "final" /\ s.inbox # st.inbox -> Woken(calls, st.spends[f.spend].request.topic)
    [] OTHER -> calls

Appliable(f) == Accepts(st, f) /\ AccountsOK(Applied(st, f))
Committing == mode # "down" /\ queue # <<>> /\ ~poisoned

\* The head frame is durable and its handler accepts it.
Commit ==
  LET f == queue[1].f
      s == Applied(st, f)
  IN /\ Committing /\ Appliable(f)
     /\ st' = s /\ queue' = Tail(queue)
     /\ call' = Notified([call EXCEPT ![queue[1].by].io = "ok"], s, f)
     /\ late' = IF f.t = "pin" THEN late \ {f.request.spend} ELSE late
     /\ readOnly' = IF f.t = "integrity" THEN "gap" ELSE readOnly
     /\ UNCHANGED <<mode, closing, poisoned, staging, broken, blobs, started, faults, history>>

\* The handler throws: the frame is durable all the same, and the store is
\* poisoned.
CommitRefused ==
  /\ Committing /\ ~Appliable(queue[1].f)
  /\ poisoned' = TRUE /\ broken' = TRUE
  /\ call' = Rejected(Queued)
  /\ UNCHANGED <<mode, closing, st, queue, readOnly, staging, late, blobs, started, faults, history>>

\* A write or datasync of the WAL fails; any prefix of the queue may be on disk.
CommitFails ==
  /\ Committing /\ faults < MaxFaults
  /\ poisoned' = TRUE /\ faults' = faults + 1
  /\ call' = Rejected(Queued)
  /\ UNCHANGED <<mode, closing, st, queue, readOnly, staging, broken, late, blobs, started, history>>

Down ==
  /\ mode' = "down" /\ closing' = FALSE /\ call' = [c \in Callers |-> Idle]
  /\ readOnly' = "none" /\ poisoned' = FALSE /\ staging' = 0

\* The process dies, or is restarted because open failed or the store is poisoned.
\* Of the submitted frames a prefix is on disk.
Crash ==
  /\ mode # "down"
  /\ faults < MaxFaults \/ poisoned
  /\ \E n \in 0..Len(queue) : queue' = SubSeq(queue, 1, n)
  /\ Down
  /\ faults' = IF faults < MaxFaults THEN faults + 1 ELSE faults
  /\ UNCHANGED <<st, broken, late, blobs, started, history>>

\* open applies a frame of the log that this process never applied (the others give
\* st again).
Replay ==
  /\ mode = "down" /\ queue # <<>> /\ ~broken
  /\ IF Appliable(queue[1].f)
     THEN st' = Applied(st, queue[1].f) /\ queue' = Tail(queue) /\ UNCHANGED broken
     ELSE broken' = TRUE /\ UNCHANGED <<st, queue>>
  /\ UNCHANGED <<mode, call, volatile, late, blobs, started, faults, history>>

\* Time, and one body that is lost while the process is down.
MinutePasses(p) ==
  /\ p.spend \notin late /\ late' = late \cup {p.spend}
  /\ UNCHANGED <<mode, st, queue, call, volatile, broken, blobs, started, faults, history>>
Damage(o) ==
  /\ mode = "down" /\ damaged = {}
  /\ blobs' = blobs \ {o} /\ damaged' = damaged \cup {o}
  /\ UNCHANGED <<mode, st, queue, call, volatile, broken, late, started, faults, acked, promised>>

-----------------------------------------------------------------------------
\* Calls of clients.
rest == <<mode, st, volatile, broken, late, blobs, started, faults, history>>

\* lookupTransaction: the spend of a charged read already has its page.
Paid(request) ==
  /\ Charged(request.op) /\ HasStatus(st, request.spend, {"committed", "reserved"})
  /\ st.spends[request.spend].request = request

\* #runOperation, #assertWritable, and the capacity check of the adapter.
Start(c, request) ==
  /\ mode = "open" /\ ~closing /\ At(c, "idle")
  /\ started < MaxCalls /\ started' = started + 1
  /\ Writable \/ Paid(request)
  /\ Charged(request.op) /\ Fresh(st, request) =>
       st.acct.control + PageLimit + 2 <= Quota.control
  /\ call' = [call EXCEPT ![c] =
       [Idle EXCEPT !.op = request.op, !.request = request,
                    !.pc = IF Paid(request) THEN "replay"
                           ELSE IF request.op = "watch" THEN "ready" ELSE "enter"]]
  /\ UNCHANGED <<mode, st, queue, volatile, broken, late, blobs, faults, history>>

Enters(c, op, keys) == At(c, "enter") /\ call[c].op = op /\ Free(c, keys)

CreateInbox(c) ==
  LET request == call[c].request
      lease == st.floor + Lease
  IN /\ Enters(c, "create", Keys(request))
     /\ IF /\ Fresh(st, request) /\ st.inbox[request.topic] = None
           /\ Cardinality({t \in Topics : st.inbox[t] # None}) < Quota.inboxes
           /\ st.acct.tombs < Quota.tombs /\ st.acct.control < Quota.control
        THEN Submit(c, [t |-> "create", request |-> request, epoch |-> st.floor, lease |-> lease],
                    [Waiting(c, "done", Keys(request)) EXCEPT !.n = lease])
        ELSE Return(c) /\ UNCHANGED queue
     /\ UNCHANGED rest

\* #assertManagementCas
Managed(request) ==
  /\ Visible(st, request.topic)
  /\ st.inbox[request.topic].rev = request.rev /\ st.inbox[request.topic].lease = request.lease

RenewInbox(c) ==
  LET request == call[c].request
      lease == st.floor + Lease
  IN /\ Enters(c, "renew", Keys(request))
     /\ IF Fresh(st, request) /\ Managed(request) /\ lease > request.lease
        THEN Submit(c, [t |-> "renew", request |-> request, epoch |-> st.floor, lease |-> lease,
                        rev |-> request.rev, old |-> request.lease],
                    [Waiting(c, "done", Keys(request)) EXCEPT !.n = lease])
        ELSE Return(c) /\ UNCHANGED queue
     /\ UNCHANGED rest

CloseInbox(c) ==
  LET request == call[c].request
  IN /\ Enters(c, "close", {TopicKey(request)})
     /\ IF request \notin st.closes /\ Managed(request)
        THEN Submit(c, [t |-> "close", request |-> request, rev |-> request.rev, old |-> request.lease],
                    Waiting(c, "done", {TopicKey(request)}))
        ELSE Return(c) /\ UNCHANGED queue
     /\ UNCHANGED rest

SetPolicy(c) ==
  LET topic == call[c].request.topic
  IN /\ Enters(c, "policy", {TopicKey(call[c].request)})
     /\ IF st.inbox[topic] # None
        THEN Submit(c, [t |-> "policy", topic |-> topic, rev |-> st.inbox[topic].policyRev,
                        policy |-> call[c].request.policy],
                    Waiting(c, "done", {TopicKey(call[c].request)}))
        ELSE Return(c) /\ UNCHANGED queue
     /\ UNCHANGED rest

\* The call ends; the receipt of a create or a renewal promises its lease.
Done(c) ==
  /\ At(c, "done") /\ call[c].io \in {"ok", "failed"}
  /\ promised' = IF call[c].io = "ok" /\ call[c].op \in {"create", "renew"}
                 THEN [promised EXCEPT ![call[c].request.topic] = call[c].n] ELSE promised
  /\ Return(c)
  /\ UNCHANGED <<mode, st, queue, volatile, broken, late, blobs, started, faults, acked, damaged>>

-----------------------------------------------------------------------------
\* Appending: appendFrame, then finalizeAppendAck.

FramesOf(topic) == {x \in st.frames : x.topic = topic}
Roomy(topic) ==
  /\ Cardinality(FramesOf(topic)) < Quota.topic /\ Cardinality(st.frames) < Quota.frames
  /\ st.acct.stored + staging < Quota.stored /\ staging < Quota.staging
  /\ st.acct.control < Quota.control

\* A retry finds its spend: the frame is read again, unless it expired.
Replays(request) ==
  /\ ~Fresh(st, request) /\ st.spends[request.spend].request = request
  /\ HasStatus(st, request.spend, {"committed", "provisional"}) =>
       \E x \in st.frames : x.spend = request.spend /\ x.blob \in blobs

BeginAppend(c) ==
  LET request == call[c].request
  IN /\ Enters(c, "append", Keys(request))
     /\ \/ /\ Fresh(st, request) /\ Visible(st, request.topic) /\ Roomy(request.topic)
           /\ call' = [call EXCEPT ![c] = Waiting(c, "body", Keys(request))]
           /\ staging' = staging + 1
        \/ Replays(request) /\ Goto(c, "sign") /\ UNCHANGED staging
        \/ /\ IF Fresh(st, request) THEN ~(Visible(st, request.topic) /\ Roomy(request.topic))
              ELSE ~Replays(request)
           /\ Return(c) /\ UNCHANGED staging
     /\ UNCHANGED <<mode, st, queue, closing, readOnly, poisoned, broken, late, blobs, started, faults, history>>

\* The objects no file and no frame has used.
Unused == {o \in Objects : o \notin blobs \cup damaged /\ \A c \in Clients : call[c].blob # o}

\* The body is staged and published; with the epoch of now the frame is submitted,
\* unless the lease ended meanwhile.
PublishFrame(c) ==
  LET request == call[c].request
      r == st.inbox[request.topic]
      expires == Expiry(r.lease, st.floor)
  IN /\ At(c, "body") /\ Unused # {}
     /\ LET o == CHOOSE o \in Unused : TRUE IN
          /\ blobs' = blobs \cup {o}
          /\ IF expires <= st.floor
             THEN Return(c) /\ staging' = staging - 1 /\ UNCHANGED queue
             ELSE /\ Submit(c, [t |-> "append", request |-> request, epoch |-> st.floor, blob |-> o,
                                rev |-> r.alloc + 1, lease |-> r.lease, expires |-> expires],
                            [Waiting(c, "stored", Keys(request)) EXCEPT !.blob = o])
                  /\ UNCHANGED staging
     /\ UNCHANGED <<mode, st, closing, readOnly, poisoned, broken, late, started, faults, history>>

\* Staging or publishing fails.
BodyFails(c) ==
  /\ At(c, "body") /\ faults < MaxFaults
  /\ faults' = faults + 1 /\ staging' = staging - 1 /\ Return(c)
  /\ UNCHANGED <<mode, st, queue, closing, readOnly, poisoned, broken, late, blobs, started, history>>

Stored(c) ==
  /\ At(c, "stored") /\ call[c].io \in {"ok", "failed"}
  /\ staging' = staging - 1
  /\ IF call[c].io = "ok" THEN Goto(c, "sign") ELSE Return(c)
  /\ UNCHANGED <<mode, st, queue, closing, readOnly, poisoned, broken, late, blobs, started, faults, history>>

\* The result is signed, and the second operation begins.
BeginFinal(c) ==
  /\ Signing(c)
  /\ IF Writable /\ ~closing THEN Goto(c, "final") ELSE Return(c)
  /\ UNCHANGED <<queue, rest>>

FinalizeAppendAck(c) ==
  LET spend == call[c].request.spend
      key == {SpendKey(call[c].request)}
  IN /\ At(c, "final") /\ call[c].op = "append" /\ Free(c, key)
     /\ IF HasStatus(st, spend, {"provisional"})
        THEN /\ Submit(c, [t |-> "final", spend |-> spend, epoch |-> st.floor], Waiting(c, "ack", key))
             /\ UNCHANGED acked
        ELSE Return(c) /\ acked' = acked \cup {spend} /\ UNCHANGED queue
     /\ UNCHANGED <<mode, st, volatile, broken, late, blobs, started, faults, promised, damaged>>

\* Mutant: the answer does not wait for the frame of the acknowledgement.
BugAcked(c) ==
  /\ At(c, "ack") /\ acked' = acked \cup {call[c].request.spend}
  /\ Return(c)
  /\ UNCHANGED <<mode, st, queue, volatile, broken, late, blobs, started, faults, promised, damaged>>

Acked(c) ==
  /\ At(c, "ack") /\ call[c].io \in {"ok", "failed"}
  /\ acked' = IF call[c].io = "ok" THEN acked \cup {call[c].request.spend} ELSE acked
  /\ Return(c)
  /\ UNCHANGED <<mode, st, queue, volatile, broken, late, blobs, started, faults, promised, damaged>>

-----------------------------------------------------------------------------
\* Reading: readPage, pinChargedPage and finalizeChargedPage.

\* #materializePage
Candidates(topic, after) ==
  {x \in FramesOf(topic) :
     /\ x.rev > after /\ x.rev <= st.inbox[topic].visible
     /\ x.expires > st.floor /\ HasStatus(st, x.spend, {"committed"})}
Page(topic, after) ==
  LET all == Candidates(topic, after)
  IN {x \in all : Cardinality({y \in all : y.rev < x.rev}) < PageLimit}

\* #waitUntilWatchReady
WatchReady(c) ==
  LET request == call[c].request
  IN /\ At(c, "ready") /\ Free(c, {TopicKey(request)})
     /\ IF ~Visible(st, request.topic) THEN Return(c)
        ELSE IF st.inbox[request.topic].visible > request.after THEN Goto(c, "enter")
        ELSE IF Cardinality(Waiters) < Quota.waiters THEN Goto(c, "wait") ELSE Return(c)
     /\ UNCHANGED <<queue, rest>>

\* maxWaitMillis passed, or the caller aborted.
WatchTimeout(c) == At(c, "wait") /\ Goto(c, "enter") /\ UNCHANGED <<queue, rest>>
WatchAborted(c) == At(c, "wait") /\ Return(c) /\ UNCHANGED <<queue, rest>>

\* #pinnedPage: the page of an earlier call is read again.
Repeats(request) ==
  /\ ~Fresh(st, request) /\ st.spends[request.spend].request = request
  /\ request.spend \notin late
  /\ \E p \in PinOf(st, request.spend) : {e.blob : e \in p.entries} \subseteq blobs

\* readPinnedPage, which takes no lock.
ReadPinnedPage(c) ==
  /\ At(c, "replay")
  /\ IF Visible(st, call[c].request.topic) /\ Repeats(call[c].request) THEN Goto(c, "sign") ELSE Return(c)
  /\ UNCHANGED <<queue, rest>>

ChargedPage(c) ==
  LET request == call[c].request
  IN /\ Charged(call[c].op) /\ Enters(c, call[c].op, Keys(request))
     /\ \/ /\ Visible(st, request.topic) /\ Fresh(st, request)
           /\ call' = [call EXCEPT ![c] = [Waiting(c, "bodies", Keys(request)) EXCEPT
                         !.n = st.inbox[request.topic].visible,
                         !.entries = Page(request.topic, request.after)]]
        \/ Visible(st, request.topic) /\ Repeats(request) /\ Goto(c, "sign")
        \/ /\ ~Visible(st, request.topic) \/ ~(Fresh(st, request) \/ Repeats(request))
           /\ Return(c)
     /\ UNCHANGED <<queue, rest>>

SubmitPin(c) ==
  /\ At(c, "bodies") /\ Charged(call[c].op)
  /\ IF {e.blob : e \in call[c].entries} \subseteq blobs
     THEN Submit(c, [t |-> "pin", request |-> call[c].request, epoch |-> st.floor, snapshot |-> call[c].n,
                     entries |-> {[rev |-> e.rev, blob |-> e.blob] : e \in call[c].entries}],
                 [Waiting(c, "pinned", Keys(call[c].request)) EXCEPT !.entries = {}, !.n = 0])
     ELSE Return(c) /\ UNCHANGED queue
  /\ UNCHANGED rest

PagePinned(c) ==
  /\ At(c, "pinned") /\ call[c].io \in {"ok", "failed"}
  /\ IF call[c].io = "ok" /\ Repeats(call[c].request) THEN Goto(c, "sign") ELSE Return(c)
  /\ UNCHANGED <<queue, rest>>

FinalizeChargedPage(c) ==
  LET spend == call[c].request.spend
      key == {SpendKey(call[c].request)}
  IN /\ At(c, "final") /\ Charged(call[c].op) /\ Free(c, key)
     /\ IF HasStatus(st, spend, {"reserved"}) /\ PinOf(st, spend) # {}
        THEN Submit(c, [t |-> "readfinal", spend |-> spend, epoch |-> st.floor], Waiting(c, "done", key))
        ELSE Return(c) /\ UNCHANGED queue
     /\ UNCHANGED rest

-----------------------------------------------------------------------------
\* The interval: advanceEpochFloor and the sweeps.

\* The order of the sweeps: pins, frames, inboxes; one frame of the log each.  A
\* read-only store has nothing to sweep.
DuePins == {p \in st.pins : HasStatus(st, p.spend, {"committed", "reserved"}) /\ p.spend \in late}

DueFrames ==
  {x \in st.frames : /\ x.expires <= st.floor /\ ~Pinned(st, x)
                     /\ HasStatus(st, x.spend, {"committed"})}

\* Mutant: the last epoch of the lease is not kept.
BugDueInboxes == {t \in Topics : Present(st, t) /\ st.floor >= st.inbox[t].lease + Grace}

DueInboxes == {t \in Topics : Present(st, t) /\ st.floor > st.inbox[t].lease + Grace}

Due == DuePins # {} \/ DueFrames # {} \/ DueInboxes # {}

Continues(pc) == Resumed(Timer, pc, "none") \/ Resumed(Timer, pc, "ok")
Sweeping == Continues("sweep") /\ call[Timer].entries = {}
Sweep(f, entries) == Submit(Timer, f, [call[Timer] EXCEPT !.entries = entries])

\* The wall clock reads epoch e, and the floor follows it in steps of MaxStep.
\* (Behind the floor it changes nothing, so its readings start there.)
FloorTo(e) ==
  Submit(Timer, [t |-> "floor", old |-> st.floor, new |-> Min({e, st.floor + MaxStep})],
         [Idle EXCEPT !.op = "tick", !.pc = "clock", !.n = e])
StartTick ==
  /\ mode = "open" /\ ~closing /\ At(Timer, "idle")
  /\ \/ \E e \in (st.floor + 1)..MaxEpoch : FloorTo(e)
     \/ /\ Writable /\ Due /\ UNCHANGED queue
        /\ call' = [call EXCEPT ![Timer] = [Idle EXCEPT !.op = "tick", !.pc = "sweep"]]
  /\ UNCHANGED rest

AdvanceEpochFloor ==
  /\ Resumed(Timer, "clock", "ok")
  /\ IF st.floor < call[Timer].n THEN FloorTo(call[Timer].n) ELSE Goto(Timer, "sweep") /\ UNCHANGED queue
  /\ UNCHANGED rest

\* #sweepExpiredRetryPins
SweepPins ==
  /\ Sweeping /\ Writable
  /\ \E p \in DuePins : Sweep([t |-> "unpin", spend |-> p.spend], {})
  /\ UNCHANGED rest

\* #sweepExpired
SweepFrames ==
  /\ Sweeping /\ Writable /\ DuePins = {}
  /\ \E x \in DueFrames : Sweep([t |-> "expire", frame |-> x, epoch |-> st.floor], {x})
  /\ UNCHANGED rest

\* The frame is gone from the log, and its body is removed.
RemoveBody ==
  /\ Resumed(Timer, "sweep", "ok") /\ call[Timer].entries # {}
  /\ blobs' = blobs \ {x.blob : x \in call[Timer].entries}
  /\ call' = [call EXCEPT ![Timer].entries = {}]
  /\ UNCHANGED <<mode, st, queue, volatile, broken, late, started, faults, history>>

SweepInboxes ==
  /\ Sweeping /\ Writable /\ DuePins = {} /\ DueFrames = {}
  /\ \E t \in DueInboxes :
       Sweep([t |-> "gc", topic |-> t, rev |-> st.inbox[t].rev, old |-> st.inbox[t].lease,
              epoch |-> st.floor], {})
  /\ UNCHANGED rest

\* Each sweep works on a list taken at its start, of 4096 at most: what is due since
\* may be left for the next tick.
Swept ==
  /\ Sweeping
  /\ IF call[Timer].op = "open" THEN Goto(Timer, "quota") ELSE Return(Timer)
  /\ UNCHANGED <<queue, rest>>

\* The catch of the interval.
TickFails ==
  /\ call[Timer].op = "tick" /\ call[Timer].io = "failed"
  /\ readOnly' = IF Writable THEN "timer" ELSE readOnly
  /\ Return(Timer)
  /\ UNCHANGED <<mode, st, queue, closing, poisoned, staging, broken, late, blobs, started, faults, history>>

-----------------------------------------------------------------------------
\* open: the log is replayed, and the first open sets the epoch floor, which is
\* the epoch that is counted 1.
Open ==
  /\ mode = "down" /\ queue = <<>> /\ ~broken
  /\ mode' = "opening"
  /\ readOnly' = IF st.gap = {} THEN "none" ELSE "gap"
  /\ LET opening == [Idle EXCEPT !.op = "open", !.pc = "verify"]
     IN IF st.floor = 0
        THEN Submit(Timer, [t |-> "floor", old |-> 0, new |-> 1], opening)
        ELSE call' = [call EXCEPT ![Timer] = opening] /\ UNCHANGED queue
  /\ UNCHANGED <<st, closing, poisoned, staging, broken, late, blobs, started, faults, history>>

\* #verifyFrameBodies stops at the first body that is missing.
VerifyFrameBodies ==
  LET missing == {x \in st.frames : x.blob \notin blobs}
  IN /\ Continues("verify")
     /\ IF missing = {}
        THEN Goto(Timer, "orphans") /\ UNCHANGED <<queue, readOnly>>
        ELSE /\ readOnly' = "gap"
             /\ \E x \in missing :
                  IF x.blob \in st.gap THEN Goto(Timer, "orphans") /\ UNCHANGED queue
                  ELSE Submit(Timer, [t |-> "integrity", blob |-> x.blob, epoch |-> st.floor],
                              Waiting(Timer, "orphans", {}))
     /\ UNCHANGED <<mode, st, closing, poisoned, staging, broken, late, blobs, started, faults, history>>

\* #liveReferenceKeys
Live == {x.blob : x \in st.frames}

CleanupOrphans ==
  /\ Continues("orphans")
  /\ blobs' = blobs \cap Live
  /\ Goto(Timer, "sweep")
  /\ UNCHANGED <<mode, st, queue, volatile, broken, late, started, faults, history>>

\* #assertRecoveredQuota
Opened ==
  /\ At(Timer, "quota")
  /\ readOnly' = IF /\ st.acct.stored <= Quota.stored /\ st.acct.control <= Quota.control
                    /\ st.acct.tombs <= Quota.tombs /\ Cardinality(st.frames) <= Quota.frames
                    /\ Cardinality({t \in Topics : st.inbox[t] # None}) <= Quota.inboxes
                 THEN readOnly ELSE "quota"
  /\ mode' = "open" /\ Return(Timer)
  /\ UNCHANGED <<st, queue, closing, poisoned, staging, broken, late, blobs, started, faults, history>>

\* close: the waiters are notified, and the operations in progress end.  (The end
\* of a poisoned store is Crash.)
BeginClose ==
  /\ mode = "open" /\ ~closing /\ closing' = TRUE
  /\ faults < MaxFaults /\ faults' = faults + 1
  /\ call' = [c \in Callers |-> IF At(c, "wait") THEN Idle ELSE call[c]]
  /\ UNCHANGED <<mode, st, queue, readOnly, poisoned, staging, broken, late, blobs, started, history>>

Closed ==
  /\ closing /\ Active = {} /\ ~poisoned
  /\ Down
  /\ UNCHANGED <<st, queue, broken, late, blobs, started, faults, history>>

-----------------------------------------------------------------------------
ClientStep(c) ==
  \/ \E request \in Requests : Start(c, request)
  \/ CreateInbox(c) \/ RenewInbox(c) \/ CloseInbox(c) \/ SetPolicy(c) \/ Done(c)
  \/ BeginAppend(c) \/ PublishFrame(c) \/ BodyFails(c) \/ Stored(c)
  \/ BeginFinal(c) \/ FinalizeAppendAck(c) \/ Acked(c)
  \/ WatchReady(c) \/ WatchTimeout(c) \/ WatchAborted(c)
  \/ ReadPinnedPage(c) \/ ChargedPage(c) \/ SubmitPin(c) \/ PagePinned(c) \/ FinalizeChargedPage(c)

TimerStep ==
  \/ StartTick \/ AdvanceEpochFloor \/ SweepPins \/ SweepFrames \/ RemoveBody \/ SweepInboxes \/ Swept
  \/ TickFails \/ Open \/ VerifyFrameBodies \/ CleanupOrphans \/ Opened

Next ==
  \/ \E c \in Clients : ClientStep(c)
  \/ TimerStep
  \/ Commit \/ CommitRefused \/ CommitFails \/ Crash \/ Replay \/ BeginClose \/ Closed
  \/ \E p \in st.pins : MinutePasses(p)
  \/ \E o \in blobs : Damage(o)

Spec == Init /\ [][Next]_vars

-----------------------------------------------------------------------------
\* The bytes that maxStoredFrameBytes bounds are those of the frames kept.
StoredExact == st.acct.stored = Cardinality(st.frames)

\* The counters the quotas are checked against are those of the records kept, over
\* all frames, pins, failures and restarts.
AccountingExact ==
  /\ StoredExact
  /\ st.acct.tombs = Cardinality({t \in Topics : st.inbox[t] # None})
  /\ st.acct.control = Cardinality({x \in Spends : st.spends[x] # None}) + Cardinality(st.closes)
                         + Cardinality(UNION {{<<p.spend, e>> : e \in p.entries \cup {None}} : p \in st.pins})
  /\ staging = Cardinality({c \in Clients : call[c].pc \in {"body", "stored"}})

\* Only a charged read and the sweep of the interval, which takes no lock, can
\* leave a frame in the log that its handler refuses (and that every later open
\* refuses again): an append, an acknowledgement, a renewal, a close, a policy and
\* a step of the floor never do, whatever they overlap with.
RefusedIsRace ==
  [][~broken /\ broken' =>
       queue[1].f.t \in {"pin", "readfinal", "expire"}]_vars

\* An append that was acknowledged stays committed, through crashes and sweeps,
\* unless it expired, in a later epoch.  Every stored frame has its body through
\* orphan removal, one that is due and stays for a retry pin included.
AckedAppendKept ==
  /\ \A spend \in acked :
       \/ HasStatus(st, spend, {"expired"}) /\ st.floor > st.spends[spend].epoch
       \/ HasStatus(st, spend, {"committed"}) /\ \E x \in st.frames : x.spend = spend
  /\ \A x \in st.frames : x.blob \in blobs \cup damaged

\* Readers see the revisions up to the first one that is not acknowledged: no
\* provisional frame, and no less than the longest prefix of stored ones.
VisiblePrefix ==
  \A t \in Topics : st.inbox[t] # None =>
    /\ \A x \in FramesOf(t) : x.rev <= st.inbox[t].visible => ~HasStatus(st, x.spend, {"provisional"})
    /\ ~Settled(st, t, st.inbox[t].visible + 1)

\* No wake-up is lost: a watch waits only for what is not there yet, in an inbox
\* that is open to readers.
NoLostWakeup ==
  \A c \in Waiters :
    LET r == st.inbox[call[c].request.topic]
    IN r.visible <= call[c].request.after /\ r.obj = "present" /\ r.policy = "visible"

\* The frames of a charged read's page stay as long as its retry pin, so that the
\* page can be given again.
PinsHold ==
  \A p \in st.pins : \A e \in p.entries :
    \E x \in st.frames : x.topic = p.topic /\ x.rev = e.rev /\ x.blob = e.blob

\* An inbox is not collected before the lease that its last receipt promised.
LeaseHonoured ==
  \A t \in Topics : st.inbox[t] # None /\ st.inbox[t].obj = "expired" => st.floor > promised[t] + Grace

\* A store that found a lost body (RECOVERY_GAP_READ_ONLY) keeps what it has: no
\* frame is appended, acknowledged or swept, whatever the interval does.
GapFreezes ==
  [][readOnly = "gap" /\ mode = "open" =>
       st'.frames = st.frames /\ st'.spends = st.spends /\ st'.inbox = st.inbox]_vars
==============================================================================

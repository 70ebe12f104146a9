-------------------------- MODULE InboxEngineProofs --------------------------
(***************************************************************************)
(* The Inbox engine keeps its promises, for every set of clients, topics,  *)
(* spends and requests, through overlapping calls, the interval, failures  *)
(* and restarts.  InboxProofs says what a frame does to the state and      *)
(* InboxCallsProofs what a call does with it; here the two are joined.     *)
(***************************************************************************)
EXTENDS InboxCallsProofs, InboxProofs

\* The frame at the head of the queue does what InboxInvariants says.
LEMMA HeadSteps ==
  ASSUME IInv, Heads
  PROVE  StepOK(st, queue[1].f, st') /\ 1 \in 1..Len(queue)
<1>1. IsQueue(queue) /\ Sent /\ Good(st) BY Zenon DEF IInv, Core, TypeOK
<1>2. 1 \in 1..Len(queue) BY <1>1, QueueTail DEF Heads
<1>3. FrameOK(st, queue[1].f) /\ Accepts(st, queue[1].f) /\ st' = Applied(st, queue[1].f)
  BY <1>1, <1>2, Zenon DEF Sent, Heads, Appliable
<1>. QED BY <1>1, <1>2, <1>3, AppliedStep, Zenon

LEMMA MovedKeeps ==
  ASSUME IInv, NEW c \in Clients, NEW v, Moved(c, v)
  PROVE  IInv'
<1>1. Core' /\ Bodies' /\ Removing' /\ Promises' /\ Frozen' /\ Woke' BY MovedRest, Zenon
<1>2. /\ call'[c] = v /\ \A d \in Callers \ {c} : call'[d] = call[d]
      /\ \A d \in Clients : d \in Callers
  BY MovedCore, Zenon DEF Callers
<1>3. staging' \in Nat /\ staging' = Cardinality(Staged')
  <2>1. IsFiniteSet(Staged) /\ IsFiniteSet(Staged') BY FS_Subset, EngineConstants, Zenon DEF Staged
  <2>2. staging = Cardinality(Staged) /\ staging' = staging + Body(v) - Body(call[c]) BY Zenon DEF IInv, Moved
  <2>3. \A d \in Clients \ {c} : d \in Staged' <=> d \in Staged BY <1>2, Zenon DEF Staged
  <2>4. (c \in Staged' <=> Body(v) = 1) /\ (c \in Staged <=> Body(call[c]) = 1)
    BY <1>2 DEF Staged, Body
  <2>5. Body(v) \in {0, 1} /\ Body(call[c]) \in {0, 1} BY Zenon DEF Body
  <2>6. Staged \subseteq Clients /\ Staged' \subseteq Clients BY Zenon DEF Staged
  <2>7. Cardinality(Staged) \in Nat /\ Cardinality(Staged') \in Nat BY <2>1, FS_CardinalityType, Zenon
  <2>8. CASE Body(v) = Body(call[c])
    <3>1. Staged' = Staged BY <2>3, <2>4, <2>5, <2>6, <2>8
    <3>2. staging' = staging BY <2>2, <2>5, <2>7, <2>8
    <3>. QED BY <2>2, <2>7, <3>1, <3>2, Zenon
  <2>9. CASE Body(v) = 1 /\ Body(call[c]) = 0
    <3>1. Staged' = Staged \cup {c} /\ c \notin Staged BY <2>3, <2>4, <2>6, <2>9
    <3>2. Cardinality(Staged') = Cardinality(Staged) + 1 BY <2>1, <3>1, PlusOne, Zenon
    <3>. QED BY <2>2, <2>7, <2>9, <3>2
  <2>10. CASE Body(v) = 0 /\ Body(call[c]) = 1
    <3>1. Staged = Staged' \cup {c} /\ c \notin Staged' BY <2>3, <2>4, <2>6, <2>10
    <3>2. Cardinality(Staged) = Cardinality(Staged') + 1 BY <2>1, <3>1, PlusOne, Zenon
    <3>. QED BY <2>2, <2>7, <2>10, <3>2
  <2>. QED BY <2>5, <2>8, <2>9, <2>10, Zenon
<1>. QED BY <1>1, <1>3, Zenon DEF IInv

LEMMA DownKeeps ==
  ASSUME IInv, Down, st' = st, blobs' = blobs, damaged' = damaged, Untold, IsQueue(queue'),
         \A i \in 1..Len(queue') : queue'[i] = queue[i] /\ i \in 1..Len(queue)
  PROVE  IInv'
<1>1. TypeOK /\ Good(st) /\ Sent /\ Bodies /\ Promises BY Zenon DEF IInv, Core
<1>2. mode' = "down" /\ closing' = FALSE /\ poisoned' = FALSE /\ staging' = 0 BY Zenon DEF Down
<1>3. Timer \in Callers /\ \A c \in Clients : c \in Callers BY Zenon DEF Callers
<1>4. call' \in [Callers -> CallRecords] /\ \A c \in Callers : call'[c] = Idle BY IdleIs, Zenon DEF Down
<1>5. TypeOK' BY <1>1, <1>2, <1>4, Zenon DEF TypeOK, Untold
<1>6. Linked' /\ Frozen' BY <1>2, Zenon DEF Linked, Frozen
<1>7. Sent' BY <1>1, Zenon DEF Sent
<1>8. Modes' BY <1>2, <1>3, <1>4, Zenon DEF Modes
<1>9. Calls' BY <1>3, <1>4, IdleIs, Zenon DEF Calls
<1>10. Core' BY <1>1, <1>5, <1>6, <1>7, <1>8, <1>9, Zenon DEF Core
<1>11. Bodies'
  <2>1. \A i \in AppendsAt' : i \in AppendsAt /\ queue'[i] = queue[i] BY Zenon DEF AppendsAt
  <2>. QED BY <1>1, <2>1, Zenon DEF Bodies, Live
<1>12. Removing' BY <1>3, <1>4, IdleIs, Zenon DEF Removing
<1>13. Promises' BY <1>1, Zenon DEF Promises, Untold
<1>14. Woke' BY <1>3, <1>4, IdleIs, Zenon DEF Woke, Waiters, At
<1>15. Staged' = {} BY <1>3, <1>4, IdleIs, Zenon DEF Staged
<1>16. Cardinality(Staged') = 0 BY <1>15, FS_EmptySet, Zenon
<1>. QED BY <1>2, <1>6, <1>10, <1>11, <1>12, <1>13, <1>14, <1>16, Zenon DEF IInv

LEMMA InitIs == ASSUME Init PROVE IInv
<1>1. /\ mode = "down" /\ closing = FALSE /\ st = EmptyState /\ queue = <<>> /\ poisoned = FALSE /\ staging = 0
      /\ blobs = {} /\ damaged = {} /\ acked = {} /\ promised = [t \in Topics |-> 0]
  BY Zenon DEF Init
<1>2. Timer \in Callers /\ \A c \in Clients : c \in Callers BY Zenon DEF Callers
<1>3. call \in [Callers -> CallRecords] /\ \A c \in Callers : call[c] = Idle BY IdleIs, Zenon DEF Init
<1>4. Len(queue) = 0 /\ IsQueue(queue) BY <1>1 DEF IsQueue
<1>5. TypeOK BY <1>1, <1>3, <1>4, Zenon DEF TypeOK
<1>6. Linked /\ Sent /\ Frozen BY <1>1, <1>4 DEF Linked, Sent, Frozen
<1>7. Modes BY <1>1, <1>2, <1>3, Zenon DEF Modes
<1>8. Calls BY <1>2, <1>3, IdleIs, Zenon DEF Calls
<1>9. Core BY <1>1, <1>5, <1>6, <1>7, <1>8, EmptyGood, Zenon DEF Core
<1>10. st.frames = {} BY <1>1, Zenon DEF EmptyState
<1>11. Bodies BY <1>4, <1>10 DEF Bodies, AppendsAt
<1>12. Removing BY <1>2, <1>3, IdleIs, Zenon DEF Removing
<1>13. Promises BY <1>1, Zenon DEF Promises, Leased
<1>14. Woke BY <1>2, <1>3, IdleIs, Zenon DEF Woke, Waiters, At
<1>15. Staged = {} BY <1>2, <1>3, IdleIs, Zenon DEF Staged
<1>16. Cardinality(Staged) = 0 BY <1>15, FS_EmptySet, Zenon
<1>. QED BY <1>1, <1>6, <1>9, <1>11, <1>12, <1>13, <1>14, <1>16, Zenon DEF IInv

LEMMA NextKeeps == ASSUME IInv, [Next]_vars PROVE IInv'
<1>1. CASE \E c \in Clients : ClientStep(c) BY <1>1, ClientMoves, MovedKeeps, Zenon
<1>2. CASE TimerStep BY <1>2, TimerMoves, TimerKeeps, Zenon
<1>3. CASE Commit
  <2>1. Heads BY <1>3, Zenon DEF Commit, Committing, Heads
  <2>. QED BY <1>3, <2>1, HeadSteps, CommitKeeps, Zenon
<1>4. CASE CommitRefused BY <1>4, RejectedKeeps, Zenon DEF CommitRefused, history, Untold
<1>5. CASE CommitFails BY <1>5, RejectedKeeps, Zenon DEF CommitFails, history, Untold
<1>6. IsQueue(queue) /\ blobs \subseteq Objects /\ damaged \subseteq Objects BY Zenon DEF IInv, Core, TypeOK
<1>7. CASE Crash
  <2>1. PICK n \in 0..Len(queue) : queue' = SubSeq(queue, 1, n) BY <1>7, Zenon DEF Crash
  <2>2. IsQueue(queue') /\ \A i \in 1..Len(queue') : queue'[i] = queue[i] /\ i \in 1..Len(queue)
    BY <1>6, <2>1, QueuePrefix, Zenon
  <2>. QED BY <1>7, <2>2, DownKeeps, Zenon DEF Crash, history, Untold
<1>8. CASE Replay BY <1>8, HeadSteps, ReplayKeeps, Zenon
<1>9. CASE BeginClose BY <1>9, BeginCloseKeeps, Zenon
<1>10. CASE Closed BY <1>6, <1>10, DownKeeps, Zenon DEF Closed, history, Untold
<1>11. CASE \E p \in st.pins : MinutePasses(p) BY <1>6, <1>11, SameKeeps, Zenon DEF MinutePasses, volatile, history, Untold
<1>12. CASE \E o \in blobs : Damage(o)
  <2>1. PICK o \in blobs : Damage(o) BY <1>12, Zenon
  <2>2. blobs' = blobs \ {o} /\ damaged' = damaged \cup {o} BY <2>1, Zenon DEF Damage
  <2>3. /\ blobs' \subseteq Objects /\ damaged' \subseteq Objects
        /\ blobs \cup damaged \subseteq blobs' \cup damaged'
    BY <1>6, <2>2, Zenon
  <2>. QED BY <2>1, <2>3, SameKeeps, Zenon DEF Damage, volatile, Untold
<1>13. CASE UNCHANGED vars BY <1>6, <1>13, SameKeeps, Zenon DEF vars, volatile, history, Untold
<1>. QED BY <1>1, <1>2, <1>3, <1>4, <1>5, <1>7, <1>8, <1>9, <1>10, <1>11, <1>12, <1>13, Zenon DEF Next

\* The invariant holds over all calls, ticks, failures and restarts of the engine.
THEOREM Inductive == Spec => []IInv
<1>1. Init => IInv BY InitIs, Zenon
<1>2. IInv /\ [Next]_vars => IInv' BY NextKeeps, Zenon
<1>. QED BY <1>1, <1>2, PTL DEF Spec

\* The counters that the quotas of the Inbox are checked against (accounting and
\* stagingFrameBytes) are those of the records that are kept.
THEOREM AccountsExact == Spec => []AccountingExact
<1>1. IInv => AccountingExact
  <2>1. ASSUME IInv PROVE Counted(st) /\ staging = Cardinality(Staged) BY <2>1, Zenon DEF IInv, Core, Good
  <2>. QED BY <2>1, Zenon DEF AccountingExact, StoredExact, Counted, Created, Spent, Records, RecordsOf, Staged
<1>. QED BY <1>1, Inductive, PTL

\* accounting.storedBytes counts the frames that are stored.
THEOREM StoredCountExact == Spec => []StoredExact
<1>1. AccountingExact => StoredExact BY Zenon DEF AccountingExact
<1>. QED BY <1>1, AccountsExact, PTL

\* The frames of a pinned page stay until its pin is released (#applyFrame of
\* frame-expire refuses a pinned frame).
THEOREM PinnedFramesStay == Spec => []PinsHold
<1>1. IInv => PinsHold BY Zenon DEF IInv, Core, Good, Held, PinsHold
<1>. QED BY <1>1, Inductive, PTL

\* Readers see every revision up to the first one that is not acknowledged, and
\* none that is provisional (#advanceVisibleRevision).
THEOREM ReadersSeePrefix == Spec => []VisiblePrefix
<1>1. IInv => VisiblePrefix BY Zenon DEF IInv, Core, Good, Prefixed, VisiblePrefix, FramesOf
<1>. QED BY <1>1, Inductive, PTL

\* An acknowledged append stays, with its body, until it expires (finalizeAppendAck,
\* the sweeps, #cleanupOrphans), through crashes at any point.
THEOREM AckedAppendsStay == Spec => []AckedAppendKept
<1>1. ASSUME IInv PROVE AckedAppendKept
  <2>1. Told(st) /\ Promises /\ Bodies BY <1>1, Zenon DEF IInv, Core, Good
  <2>2. ASSUME NEW p \in acked
        PROVE  \/ HasStatus(st, p, {"expired"}) /\ st.floor > st.spends[p].epoch
               \/ HasStatus(st, p, {"committed"}) /\ \E x \in st.frames : x.spend = p
    <3>1. /\ p \in Spends /\ st.spends[p] # None /\ st.spends[p].request.op = "append"
          /\ st.spends[p].status # "provisional"
      BY <2>1, <2>2, Zenon DEF Promises, Acknowledged, Pays
    <3>. QED BY <2>1, <3>1, Zenon DEF Told, SpendOK, HasStatus
  <2>. QED BY <2>1, <2>2, Zenon DEF AckedAppendKept, Bodies
<1>2. IInv => AckedAppendKept BY <1>1, Zenon
<1>. QED BY <1>2, Inductive, PTL

\* A watch sleeps only on an inbox that is open and has nothing new for it
\* (waitForReady registers its waiter in the step that looks; #notifyTopic).
THEOREM WatchersWake == Spec => []NoLostWakeup
<1>1. IInv => NoLostWakeup BY Zenon DEF IInv, Woke, Watching, NoLostWakeup
<1>. QED BY <1>1, Inductive, PTL

\* No inbox is collected before the end of the lease, and the grace, of the last
\* receipt that a client was given (renewInbox, #sweepExpiredInboxes).
THEOREM LeasesHold == Spec => []LeaseHonoured
<1>1. ASSUME IInv PROVE LeaseHonoured
  <2>. SUFFICES ASSUME NEW k \in Topics, st.inbox[k] # None, st.inbox[k].obj = "expired"
                PROVE  st.floor > promised[k] + Grace
    BY Zenon DEF LeaseHonoured
  <2>1. /\ Leased(st, k, promised[k]) /\ st.floor > st.inbox[k].lease + Grace
    BY <1>1, Zenon DEF IInv, Core, Good, Bounded, InboxOK, Promises
  <2>2. promised[k] \in Nat /\ st.floor \in Nat /\ st.inbox[k].lease \in Nat
    BY <1>1, Zenon DEF IInv, Core, Good, TypeOK, States, Inboxes
  <2>. QED BY <2>1, <2>2, InboxConstants DEF Leased
<1>2. IInv => LeaseHonoured BY <1>1, Zenon
<1>. QED BY <1>2, Inductive, PTL

\* Once a lost body closed the store (RECOVERY_GAP_READ_ONLY), no step changes a
\* frame, a spend or an inbox: what is still in the queue moves the floor at most.
THEOREM GapIsFrozen == Spec => GapFreezes
<1>1. ASSUME IInv, [Next]_vars, readOnly = "gap", mode = "open"
      PROVE  st'.frames = st.frames /\ st'.spends = st.spends /\ st'.inbox = st.inbox
  <2>1. CASE Commit
    <3>1. Heads BY <2>1, Zenon DEF Commit, Committing, Heads
    <3>2. StepOK(st, queue[1].f, st') /\ 1 \in 1..Len(queue) BY <1>1, <3>1, HeadSteps, Zenon
    <3>3. queue[1].f.t \in {"floor", "integrity"} BY <1>1, <3>2, Zenon DEF IInv, Frozen
    <3>. QED BY <3>2, <3>3, Zenon DEF StepOK, Effect
  <2>2. CASE \E c \in Clients : ClientStep(c) BY <1>1, <2>2, ClientMoves, Zenon DEF Moved, Still
  <2>3. CASE TimerStep BY <1>1, <2>3, TimerMoves, Zenon DEF TimerMoved, Quiet
  <2>4. CASE CommitRefused \/ CommitFails \/ Crash \/ Replay \/ BeginClose \/ Closed
    BY <1>1, <2>4, Zenon DEF CommitRefused, CommitFails, Crash, Replay, BeginClose, Closed
  <2>5. CASE (\E p \in st.pins : MinutePasses(p)) \/ (\E o \in blobs : Damage(o)) \/ UNCHANGED vars
    BY <2>5, Zenon DEF MinutePasses, Damage, vars
  <2>. QED BY <1>1, <2>1, <2>2, <2>3, <2>4, <2>5, Zenon DEF Next
<1>2. IInv /\ [Next]_vars =>
        [readOnly = "gap" /\ mode = "open" =>
           st'.frames = st.frames /\ st'.spends = st.spends /\ st'.inbox = st.inbox]_vars
  BY <1>1, Zenon
<1>. QED BY <1>2, Inductive, PTL DEF Spec, GapFreezes
==============================================================================

------------------------------- MODULE BlindWal -----------------------------
(***************************************************************************)
(* The write-ahead log of BlindTransactionStore                            *)
(* (packages/blind-daemon/transaction-store.js): group commit, segment     *)
(* rollover, checkpoint-anchored pruning and recovery.                     *)
(*                                                                         *)
(* An append request is identified by a member of Requests and is sent at  *)
(* most once, so that the request stands for its frame and for the hash of *)
(* its frame: a frame is its sequence number, the hash of its predecessor  *)
(* and its own.  All frames have the same length, the unit of offsets.     *)
(*                                                                         *)
(* log is the content of all segment files in name order: the frames of    *)
(* the sealed segments, then those of the live one.  A frame that was only *)
(* partly written is a Torn entry; its sequence number is 0 unless all of  *)
(* its header was written.                                                 *)
(***************************************************************************)
EXTENDS Histories, Integers, FiniteSets

CONSTANTS Requests,            \* append requests
          Genesis,             \* ZERO32, the predecessor hash of frame 1
          Torn,                \* stands for the bytes of a half-written frame
          SegmentFrames,       \* walSegmentMaxBytes, in frames
          PruneOverEmptyLive   \* callers may prune while the live segment is empty

ASSUME ConstantsAssumption ==
  /\ Genesis \notin Requests /\ Torn \notin Requests /\ Torn # Genesis
  /\ SegmentFrames \in Nat \ {0}
  /\ PruneOverEmptyLive \in BOOLEAN

VARIABLES sealed,       \* the ranges in the names of the sealed segment files
          log,          \* the frames in the segment files
          unsynced,     \* how many frames at the end of log no datasync covers
          renamed,      \* the newest sealed name is not directory-synced
          unlinked,     \* deleted segment whose deletion is not directory-synced
          mode,         \* "closed", "opening" or "open"
          handle,       \* this.handle is set
          closing, poisoned,
          walSequence, walHash, walOffset, liveSegmentFirstSequence,
          sealedWalSegments,
          queue,        \* walCommitQueue
          tickets,      \* holder and waiters of the wal lock, first come first served
          group,        \* the commit group spliced off the queue
          barrier,      \* the withWalBarrier callback that is running
          prune,        \* the pruneWalSegments call that is running
          checkpoint,   \* the newest published checkpoint anchor
          applied,      \* frames in the caller's state: snapshot, then applyFrame
          status,       \* what became of each request
          acked         \* history: the log up to the last acknowledged frame

disk == <<sealed, log, unsynced, renamed, unlinked>>
head == <<walSequence, walHash, walOffset, liveSegmentFirstSequence, sealedWalSegments>>
proc == <<mode, handle, closing, poisoned>>
work == <<queue, tickets, group, barrier, prune>>
outside == <<checkpoint, applied, status, acked>>
vars == <<disk, head, proc, work, outside>>

-----------------------------------------------------------------------------
Ids(frames) == [i \in 1..Len(frames) |-> frames[i].id]
NoAnchor == [seq |-> 0, hash |-> Genesis, covered |-> <<>>]
NoGroup == [step |-> "none", members |-> <<>>, frames |-> <<>>, done |-> 0]
NoBarrier == [active |-> FALSE, anchor |-> NoAnchor]
NoPrune == [step |-> "none", anchor |-> NoAnchor, retain |-> 1, todo |-> <<>>]

Size(segment) == segment.last - segment.first + 1

\* Frames held by sealed segments (their ranges are contiguous).
SealedFrames(segs) == IF segs = <<>> THEN 0 ELSE segs[Len(segs)].last - segs[1].first + 1

\* A half-written frame at the very end of the live segment is cut off.
EndsTorn(segs, frames) ==
  Len(frames) > SealedFrames(segs) /\ frames[Len(frames)].id = Torn
Whole(segs, frames) ==
  IF EndsTorn(segs, frames) THEN SubSeq(frames, 1, Len(frames) - 1) ELSE frames

\* #peekLiveFirstSequence and the name of the first sealed segment.
FirstRetained(segs, frames) ==
  IF segs # <<>> THEN segs[1].first
  ELSE IF frames # <<>> /\ frames[1].seq > 0 THEN frames[1].seq ELSE 1

\* #scanSegmentFrames over every segment: sequence numbers without a gap and
\* each frame naming its predecessor, the first one as #recover expects it.
Chained(frames, first, anchor) ==
  \A i \in 1..Len(frames) :
    /\ frames[i].id # Torn
    /\ frames[i].seq = first + i - 1
    /\ i > 1 => frames[i].prev = frames[i-1].id
    /\ i = 1 /\ anchor.seq > 0 /\ first = anchor.seq + 1 => frames[1].prev = anchor.hash
    /\ i = 1 /\ first = 1 => frames[1].prev = Genesis

Contiguous(segs) ==
  \A i \in 1..(Len(segs) - 1) : segs[i+1].first = segs[i].last + 1

\* The frame the anchor names is retained.
HoldsAnchor(frames, anchor) ==
  \E i \in 1..Len(frames) : frames[i].seq = anchor.seq /\ frames[i].id = anchor.hash

\* #recover accepts these files with this anchor.
Recoverable(segs, frames, anchor) ==
  LET first == FirstRetained(segs, frames)
  IN /\ Contiguous(segs)
     /\ IF anchor.seq = 0 THEN first = 1 ELSE first <= anchor.seq + 1
     /\ Chained(Whole(segs, frames), first, anchor)
     /\ anchor.seq = 0 \/ first = anchor.seq + 1 \/ HoldsAnchor(Whole(segs, frames), anchor)

\* Mutant: the anchor frame itself is replayed too.
BugReplayed(frames, anchor) ==
  IF frames = <<>> THEN <<>>
  ELSE LET from == anchor.seq - frames[1].seq + 1
       IN SubSeq(frames, IF from < 1 THEN 1 ELSE from, Len(frames))

\* The frames #recover hands to applyRecoveredFrame: those after the anchor.
Replayed(frames, anchor) ==
  IF frames = <<>> THEN <<>>
  ELSE LET from == anchor.seq - frames[1].seq + 2
       IN SubSeq(frames, IF from < 1 THEN 1 ELSE from, Len(frames))

\* The history these files and the checkpoint stand for.
History(segs, frames) ==
  checkpoint.covered \o Ids(Replayed(Whole(segs, frames), checkpoint))

-----------------------------------------------------------------------------
Init ==
  /\ sealed = <<>> /\ log = <<>> /\ unsynced = 0 /\ renamed = FALSE /\ unlinked = <<>>
  /\ mode = "closed" /\ handle = FALSE /\ closing = FALSE /\ poisoned = FALSE
  /\ walSequence = 0 /\ walHash = Genesis /\ walOffset = 0
  /\ liveSegmentFirstSequence = 1 /\ sealedWalSegments = <<>>
  /\ queue = <<>> /\ tickets = <<>> /\ group = NoGroup
  /\ barrier = NoBarrier /\ prune = NoPrune
  /\ checkpoint = NoAnchor /\ applied = <<>>
  /\ status = [r \in Requests |-> "new"] /\ acked = <<>>

\* _open up to #recover: the live file is created if missing and synced with
\* its directory.
OpenFiles ==
  /\ mode = "closed" /\ tickets = <<>> /\ queue = <<>>
  /\ mode' = "opening" /\ handle' = TRUE
  /\ unsynced' = 0 /\ renamed' = FALSE /\ unlinked' = <<>>
  /\ UNCHANGED <<sealed, log, closing, poisoned, head, work, outside>>

\* #recover and activation.  A torn tail is cut off once the chain before it
\* has been read, also when the anchor then turns out to be missing.
Recover ==
  LET first == FirstRetained(sealed, log)
      whole == Whole(sealed, log)
      last == Len(whole)
  IN /\ mode = "opening"
     /\ IF Recoverable(sealed, log, checkpoint) /\ ~closing
        THEN /\ mode' = "open"
             /\ walSequence' = IF last = 0 THEN 0 ELSE whole[last].seq
             /\ walHash' = IF last = 0 THEN Genesis ELSE whole[last].id
             /\ walOffset' = last - SealedFrames(sealed)
             /\ liveSegmentFirstSequence' = first + SealedFrames(sealed)
             /\ sealedWalSegments' = sealed
             /\ applied' = checkpoint.covered \o Ids(Replayed(whole, checkpoint))
             /\ UNCHANGED <<handle, closing>>
        ELSE /\ mode' = "closed" /\ handle' = FALSE /\ closing' = FALSE
             /\ UNCHANGED <<head, applied>>
     /\ log' = IF Chained(whole, first, checkpoint) THEN whole ELSE log
     /\ UNCHANGED <<sealed, unsynced, renamed, unlinked, poisoned, work, checkpoint, status, acked>>

-----------------------------------------------------------------------------
\* What append, withWalBarrier, pruneWalSegments and #commitWalGroup check.
Accepting == mode = "open" /\ handle /\ ~closing /\ ~poisoned
Turn(kind) == tickets # <<>> /\ Head(tickets) = kind
Waiting(kind) == \E i \in 1..Len(tickets) : tickets[i] = kind

\* append, appendAndApply: #enqueueWalCommit.
Enqueue(r) ==
  /\ Accepting /\ status[r] = "new"
  /\ queue' = Append(queue, r)
  /\ status' = [status EXCEPT ![r] = "queued"]
  /\ UNCHANGED <<disk, head, proc, tickets, group, barrier, prune, checkpoint, applied, acked>>

\* The same calls where they throw: on a closing or poisoned store, and also on
\* a healthy one while #sealLiveSegment has no file open.
RefuseAppend(r) ==
  /\ mode = "open" /\ ~Accepting /\ status[r] = "new"
  /\ status' = [status EXCEPT ![r] = "refused"]
  /\ UNCHANGED <<disk, head, proc, work, checkpoint, applied, acked>>

\* #drainWalCommits: one group at a time is spliced off and waits for the lock.
Splice ==
  /\ group = NoGroup /\ queue # <<>>
  /\ group' = [NoGroup EXCEPT !.step = "waiting", !.members = queue]
  /\ queue' = <<>>
  /\ tickets' = Append(tickets, "commit")
  /\ UNCHANGED <<disk, head, proc, barrier, prune, outside>>

\* The given requests are settled with s.
Settle(ids, s) == [r \in Requests |-> IF \E i \in 1..Len(ids) : ids[i] = r THEN s ELSE status[r]]

\* Mutant: the wal lock is not released.
BugEndGroup == group' = NoGroup /\ UNCHANGED tickets

\* The group is settled and the wal lock released.
EndGroup == group' = NoGroup /\ tickets' = Tail(tickets)

\* The frames of the members whose fence and bounds hold, chained from the head.
Encode(ids) ==
  [i \in 1..Len(ids) |-> [seq |-> walSequence + i, id |-> ids[i],
                          prev |-> IF i = 1 THEN walHash ELSE ids[i-1]]]

\* The group would cross walSegmentMaxBytes in a live segment that is not empty.
MustRoll(frames) == walOffset > 0 /\ walOffset + Len(frames) > SegmentFrames

\* Mutant: a member whose fence failed is rejected and encoded all the same.
BugAdmit(members, pick) == members

\* The members that are encoded, in the order they were queued.
Admit(members, pick) == [i \in DOMAIN pick |-> members[pick[i]]]

\* The ways to pick some of n members without changing their order.
Picks(n) ==
  UNION { { f \in [1..k -> 1..n] : \A i, j \in 1..k : i < j => f[i] < f[j] } : k \in 0..n }

\* #commitWalGroup, step 1: the whole group is refused, or the members that
\* are not picked are, each by its own fence or bounds.
BeginCommit(pick) ==
  /\ Turn("commit") /\ group.step = "waiting"
  /\ LET ids == Admit(group.members, pick)
     IN IF Accepting /\ ids # <<>>
        THEN /\ group' = [group EXCEPT !.frames = Encode(ids),
                                       !.step = IF MustRoll(Encode(ids)) THEN "seal" ELSE "write"]
             /\ status' = [r \in Requests |->
                  IF /\ \E i \in 1..Len(group.members) : group.members[i] = r
                     /\ \A i \in DOMAIN pick : group.members[pick[i]] # r
                  THEN "refused" ELSE status[r]]
             /\ UNCHANGED tickets
        ELSE /\ EndGroup
             /\ status' = Settle(group.members, "refused")
  /\ UNCHANGED <<disk, head, proc, queue, barrier, prune, checkpoint, applied, acked>>

\* #sealLiveSegment: rename, directory sync, then a fresh live segment.
SealRename ==
  /\ group.step = "seal"
  /\ IF walSequence < liveSegmentFirstSequence
     THEN /\ group' = [group EXCEPT !.step = "write"]
          /\ UNCHANGED <<sealed, renamed, handle>>
     ELSE /\ handle' = FALSE
          /\ sealed' = Append(sealed, [first |-> liveSegmentFirstSequence, last |-> walSequence])
          /\ renamed' = TRUE
          /\ group' = [group EXCEPT !.step = "sealsync"]
  /\ UNCHANGED <<log, unsynced, unlinked, head, mode, closing, poisoned,
                 queue, tickets, barrier, prune, outside>>

SealSync ==
  /\ group.step = "sealsync"
  /\ renamed' = FALSE /\ unlinked' = <<>>
  /\ group' = [group EXCEPT !.step = "create"]
  /\ UNCHANGED <<sealed, log, unsynced, head, proc, queue, tickets, barrier, prune, outside>>

SealCreate ==
  /\ group.step = "create"
  /\ handle' = TRUE
  /\ sealedWalSegments' = Append(sealedWalSegments,
                                 [first |-> liveSegmentFirstSequence, last |-> walSequence])
  /\ liveSegmentFirstSequence' = walSequence + 1
  /\ walOffset' = 0
  /\ group' = [group EXCEPT !.step = "write"]
  /\ UNCHANGED <<disk, walSequence, walHash, mode, closing, poisoned,
                 queue, tickets, barrier, prune, outside>>

\* Step 3: one frame is appended to the live segment.
WriteFrame ==
  /\ group.step = "write"
  /\ log' = Append(log, group.frames[group.done + 1])
  /\ unsynced' = unsynced + 1
  /\ group' = IF group.done + 1 < Len(group.frames)
              THEN [group EXCEPT !.done = @ + 1]
              ELSE [group EXCEPT !.done = 0, !.step = "sync"]
  /\ UNCHANGED <<sealed, renamed, unlinked, head, proc, queue, tickets, barrier, prune, outside>>

\* Step 4: one datasync for the whole group.
UnsyncedAfterSync == 0

SyncGroup ==
  /\ group.step = "sync"
  /\ unsynced' = UnsyncedAfterSync
  /\ group' = [group EXCEPT !.step = "apply"]
  /\ UNCHANGED <<sealed, log, renamed, unlinked, head, proc, queue, tickets, barrier, prune, outside>>

\* Step 5: the head advances over the frame.
Advance(frame) ==
  /\ walSequence' = frame.seq /\ walHash' = frame.id /\ walOffset' = walOffset + 1
  /\ UNCHANGED <<liveSegmentFirstSequence, sealedWalSegments>>

\* Step 5: the frame is applied and its append resolves.
ApplyFrame ==
  LET frame == group.frames[group.done + 1]
  IN /\ group.step = "apply"
     /\ Advance(frame)
     /\ applied' = Append(applied, frame.id)
     /\ status' = [status EXCEPT ![frame.id] = "acked"]
     /\ acked' = SubSeq(History(sealed, log), 1, frame.seq)
     /\ IF group.done + 1 < Len(group.frames)
        THEN group' = [group EXCEPT !.done = @ + 1] /\ UNCHANGED tickets
        ELSE EndGroup
     /\ UNCHANGED <<disk, proc, queue, barrier, prune, checkpoint>>

-----------------------------------------------------------------------------
\* Failures of a commit group.

\* Mutant: an interrupted append leaves the store usable.
BugPoisonedAfterFailure == FALSE

\* Any failure after the first byte may have reached the log poisons the store.
PoisonedAfterFailure == TRUE

\* rejectWalGroupAsPoisoned: every member that is not resolved is rejected.
Poison ==
  /\ poisoned' = PoisonedAfterFailure
  /\ EndGroup
  /\ status' = [r \in Requests |->
                  IF \E i \in 1..Len(group.frames) : group.frames[i].id = r /\ status[r] = "queued"
                  THEN "rejected" ELSE status[r]]

Tear(frame) == { [seq |-> n, prev |-> Genesis, id |-> Torn] : n \in {0, frame.seq} }

\* A write fails after none, some or all of the frame's bytes.
WriteFails ==
  LET frame == group.frames[group.done + 1]
  IN /\ group.step = "write"
     /\ Poison
     /\ \/ UNCHANGED <<log, unsynced>>
        \/ /\ \E f \in Tear(frame) \cup {frame} : log' = Append(log, f)
           /\ unsynced' = unsynced + 1
     /\ UNCHANGED <<sealed, renamed, unlinked, head, mode, handle, closing,
                    queue, barrier, prune, checkpoint, applied, acked>>

\* The seal or the datasync fails.
SealOrSyncFails ==
  /\ group.step \in {"seal", "sealsync", "create", "sync"}
  /\ Poison
  /\ UNCHANGED <<disk, head, mode, handle, closing, queue, barrier, prune, checkpoint, applied, acked>>

\* The self-check fails, or the callback throws once the head has advanced.
ApplyFails ==
  /\ group.step = "apply"
  /\ Poison
  /\ Advance(group.frames[group.done + 1]) \/ UNCHANGED head
  /\ UNCHANGED <<disk, mode, handle, closing, queue, barrier, prune, checkpoint, applied, acked>>

-----------------------------------------------------------------------------
\* withWalBarrier: the callback sees the head as an anchor.  Publishing a
\* checkpoint over it is what the checkpoint store does there.
CallBarrier ==
  /\ Accepting /\ ~Waiting("barrier")
  /\ tickets' = Append(tickets, "barrier")
  /\ UNCHANGED <<disk, head, proc, queue, group, barrier, prune, outside>>

\* Mutant: a poisoned store is not refused under the lock.
BugBarrierAdmitted == mode = "open" /\ handle /\ ~closing

\* The checks withWalBarrier repeats once it holds the lock.
BarrierAdmitted == Accepting

BarrierBegin ==
  /\ Turn("barrier") /\ ~barrier.active
  /\ IF BarrierAdmitted
     THEN /\ barrier' = [active |-> TRUE,
                         anchor |-> [seq |-> walSequence, hash |-> walHash, covered |-> applied]]
          /\ UNCHANGED tickets
     ELSE tickets' = Tail(tickets) /\ UNCHANGED barrier
  /\ UNCHANGED <<disk, head, proc, queue, group, prune, outside>>

PublishCheckpoint ==
  /\ barrier.active /\ barrier.anchor.seq > checkpoint.seq
  /\ checkpoint' = barrier.anchor
  /\ UNCHANGED <<disk, head, proc, work, applied, status, acked>>

BarrierEnd ==
  /\ barrier.active
  /\ barrier' = NoBarrier /\ tickets' = Tail(tickets)
  /\ UNCHANGED <<disk, head, proc, queue, group, prune, outside>>

-----------------------------------------------------------------------------
\* pruneWalSegments, called with the newest checkpoint's anchor.

CallPrune(retain) ==
  /\ Accepting /\ prune = NoPrune /\ checkpoint.seq > 0
  /\ PruneOverEmptyLive \/ walOffset > 0
  /\ prune' = [step |-> "waiting", anchor |-> checkpoint, retain |-> retain, todo |-> <<>>]
  /\ tickets' = Append(tickets, "prune")
  /\ UNCHANGED <<disk, head, proc, queue, group, barrier, outside>>

\* #verifyWalPruneAnchor, for an anchor that is below the head and below the
\* live segment: the one sealed segment that should hold it is opened and read.
AnchorSegmentReadable(anchor) ==
  \E i \in 1..Len(sealedWalSegments), j \in 1..Len(sealed) :
    /\ sealedWalSegments[i] = sealed[j]
    /\ sealed[j].first <= anchor.seq /\ anchor.seq <= sealed[j].last

\* #verifyWalPruneAnchor.
AnchorVerified(anchor) ==
  IF anchor.seq = walSequence THEN anchor.hash = walHash
  ELSE /\ anchor.seq < liveSegmentFirstSequence => AnchorSegmentReadable(anchor)
       /\ HoldsAnchor(log, anchor)

\* Mutant: the spent-marker horizon is taken for the only bound.
BugPrunable(segment) == segment.last < prune.retain

\* Covered by the checkpoint and older than the spent-marker horizon.
Prunable(segment) == segment.last <= prune.anchor.seq /\ segment.last < prune.retain

\* Mutant: the wal lock is not released.
BugEndPrune == prune' = NoPrune /\ UNCHANGED tickets

EndPrune == prune' = NoPrune /\ tickets' = Tail(tickets)

\* The segments to delete are the oldest ones: lastSequence grows along the list.
PruneBegin ==
  /\ Turn("prune") /\ prune.step = "waiting"
  /\ IF Accepting /\ prune.anchor.seq <= walSequence /\ AnchorVerified(prune.anchor)
     THEN /\ \E n \in 0..Len(sealedWalSegments) :
               /\ \A i \in 1..Len(sealedWalSegments) : i <= n <=> Prunable(sealedWalSegments[i])
               /\ prune' = [prune EXCEPT !.step = "unlink", !.todo = SubSeq(sealedWalSegments, 1, n)]
          /\ UNCHANGED tickets
     ELSE EndPrune
  /\ UNCHANGED <<disk, head, proc, queue, group, barrier, outside>>

\* unlink: a segment that is already gone (ENOENT) is passed over.
PruneUnlink ==
  /\ prune.step = "unlink" /\ prune.todo # <<>>
  /\ LET n == Size(Head(prune.todo))
     IN IF sealed # <<>> /\ sealed[1] = Head(prune.todo)
        THEN /\ unlinked' = << [segment |-> sealed[1], frames |-> SubSeq(log, 1, n)] >>
             /\ sealed' = Tail(sealed)
             /\ log' = SubSeq(log, n + 1, Len(log))
        ELSE UNCHANGED <<unlinked, sealed, log>>
  /\ prune' = [prune EXCEPT !.step = "sync"]
  /\ UNCHANGED <<unsynced, renamed, head, proc, queue, tickets, group, barrier, outside>>

PruneSync ==
  /\ prune.step = "sync"
  /\ unlinked' = <<>>
  /\ prune' = [prune EXCEPT !.step = "unlink", !.todo = Tail(@)]
  /\ UNCHANGED <<sealed, log, unsynced, renamed, head, proc, queue, tickets, group, barrier, outside>>

PruneEnd ==
  /\ prune.step = "unlink" /\ prune.todo = <<>>
  /\ \E n \in 0..Len(sealedWalSegments) :
       /\ \A i \in 1..Len(sealedWalSegments) : i <= n <=> Prunable(sealedWalSegments[i])
       /\ sealedWalSegments' = SubSeq(sealedWalSegments, n + 1, Len(sealedWalSegments))
  /\ EndPrune
  /\ UNCHANGED <<disk, walSequence, walHash, walOffset, liveSegmentFirstSequence,
                 proc, queue, group, barrier, outside>>

\* An I/O error leaves the list of segments as it was and poisons nothing.
PruneFails ==
  /\ prune.step \in {"unlink", "sync"}
  /\ EndPrune
  /\ UNCHANGED <<disk, head, proc, queue, group, barrier, outside>>

-----------------------------------------------------------------------------
\* close, and the ways to lose the process.

CallClose ==
  /\ mode # "closed" /\ ~closing
  /\ closing' = TRUE
  /\ tickets' = IF mode = "open" THEN Append(tickets, "close") ELSE tickets
  /\ UNCHANGED <<disk, head, mode, handle, poisoned, queue, group, barrier, prune, outside>>

RunClose ==
  /\ Turn("close")
  /\ mode' = "closed" /\ handle' = FALSE /\ closing' = FALSE /\ poisoned' = FALSE
  /\ tickets' = Tail(tickets)
  /\ UNCHANGED <<disk, head, queue, group, barrier, prune, outside>>

\* The ends a crash may leave of the live segment: unsynced frames are lost
\* from the back, the first lost or unwritten one may be there in part.
CrashLogs ==
  { SubSeq(log, 1, Len(log) - k) : k \in 0..unsynced } \cup
  (UNION { { Append(SubSeq(log, 1, Len(log) - k), f) : f \in Tear(log[Len(log) - k + 1]) } :
           k \in 1..unsynced }) \cup
  IF group.step = "write"
  THEN { Append(log, f) : f \in Tear(group.frames[group.done + 1]) } ELSE {}

\* The files a crash may leave: a name operation that no directory sync
\* followed may have been lost.
CrashFiles ==
  LET segs == {sealed} \cup IF renamed THEN {SubSeq(sealed, 1, Len(sealed) - 1)} ELSE {}
  IN [sealed : segs, log : CrashLogs] \cup
     IF unlinked = <<>> THEN {}
     ELSE { [sealed |-> <<unlinked[1].segment>> \o f.sealed, log |-> unlinked[1].frames \o f.log] :
            f \in [sealed : segs, log : CrashLogs] }

Crash ==
  /\ \E f \in CrashFiles : sealed' = f.sealed /\ log' = f.log
  /\ unsynced' = 0 /\ renamed' = FALSE /\ unlinked' = <<>>
  /\ mode' = "closed" /\ handle' = FALSE /\ closing' = FALSE /\ poisoned' = FALSE
  /\ queue' = <<>> /\ tickets' = <<>> /\ group' = NoGroup
  /\ barrier' = NoBarrier /\ prune' = NoPrune
  /\ status' = [r \in Requests |-> IF status[r] = "queued" THEN "rejected" ELSE status[r]]
  /\ UNCHANGED <<head, checkpoint, applied, acked>>

CommitStep ==
  \/ \E pick \in Picks(Len(group.members)) : BeginCommit(pick)
  \/ SealRename \/ SealSync \/ SealCreate \/ WriteFrame \/ SyncGroup \/ ApplyFrame
  \/ WriteFails \/ SealOrSyncFails \/ ApplyFails

BarrierStep == BarrierBegin \/ BarrierEnd
PruneStep == PruneBegin \/ PruneUnlink \/ PruneSync \/ PruneEnd \/ PruneFails

Calls ==
  \/ \E r \in Requests : Enqueue(r) \/ RefuseAppend(r)
  \/ CallBarrier \/ CallClose
  \/ \E n \in 1..(Cardinality(Requests) + 1) : CallPrune(n)

Next ==
  \/ OpenFiles \/ Recover \/ Calls
  \/ Splice \/ CommitStep \/ BarrierStep \/ PublishCheckpoint \/ PruneStep \/ RunClose
  \/ Crash

Spec == Init /\ [][Next]_vars

\* The event loop runs a scheduled drain, the holder of the wal lock goes on
\* when its I/O completes or fails, and an open runs to its end.
Fairness ==
  /\ WF_vars(Recover) /\ WF_vars(Splice)
  /\ WF_vars(CommitStep \/ BarrierStep \/ PruneStep \/ RunClose)

FairSpec == Spec /\ Fairness

-----------------------------------------------------------------------------
\* Every crash, at whatever step of a group commit, a rollover or a prune,
\* leaves files that the next open accepts with the newest checkpoint.
AlwaysOpenable ==
  \A f \in CrashFiles : Recoverable(f.sealed, f.log, checkpoint)

\* The state built by applyFrame is the one a recovery would build, and the
\* next frame continues it, whenever no commit group is between its steps.
StateIsLog ==
  mode = "open" /\ ~poisoned /\ group.step \in {"none", "waiting"} =>
    applied = History(sealed, log) /\ walSequence = Len(applied)

\* An append that was refused before its frame was written, by its fence or
\* by the checks under the lock, is in no recovered history.
RefusedStaysOut ==
  \A f \in CrashFiles : \A i \in 1..Len(History(f.sealed, f.log)) :
    status[History(f.sealed, f.log)[i]] # "refused"

\* withWalBarrier keeps the log still: while the callback runs, the anchor it
\* was given is the durable end of the log, whatever is queued meanwhile.
BarrierSeesDurableHead ==
  barrier.active => /\ \A f \in CrashFiles : History(f.sealed, f.log) = barrier.anchor.covered
                    /\ barrier.anchor.seq = walSequence /\ barrier.anchor.hash = walHash

\* Pruning keeps every frame at or above the spent-marker horizon, and every
\* frame that the checkpoint does not cover.
PruneRespectsHorizon ==
  [][prune.step = "unlink" =>
       \A i \in 1..Len(log) :
         log[i].seq > prune.anchor.seq \/ log[i].seq >= prune.retain =>
           \E j \in 1..Len(log') : log'[j] = log[i]]_vars

Log == INSTANCE AckedHistory WITH Values <- Requests, current <- History(sealed, log)

\* The log implements a history that grows frame by frame and of which a crash
\* takes back only frames whose append was not acknowledged.
HistorySpec == Log!Spec

\* Every append that was accepted is resolved or rejected.
Settles == \A r \in Requests : status[r] = "queued" ~> status[r] # "queued"

\* close always completes, whatever holds the wal lock when it is called.
CloseCompletes == closing ~> ~closing
=============================================================================

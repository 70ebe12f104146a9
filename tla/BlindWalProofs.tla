--------------------------- MODULE BlindWalProofs ---------------------------
(***************************************************************************)
(* The steps of the write-ahead log that append to its history or cut      *)
(* unsynced frames off it (the commit of a group, recovery and crashes),   *)
(* and the theorems about the log.                                         *)
(***************************************************************************)
EXTENDS BlindWalLogProofs

\* A group between its steps.
LEMMA CommittingIs ==
  ASSUME NEW H, NEW first, Holds(H, first), Committing
  PROVE  /\ Usable /\ Top(tickets, "commit") /\ tickets \in Tickets /\ ~barrier.active /\ ~Pruning
         /\ AtHead(H, first) /\ GroupFrames(H) /\ Lists /\ Prunes
         /\ group.frames \in Seq(Frames) /\ Len(group.frames) \in Nat /\ group.done \in Nat
         /\ group.done < Len(group.frames) /\ group.done + 1 \in 1..Len(group.frames)
         /\ group.frames[group.done + 1] \in Frames /\ group.frames[group.done + 1].id \in Requests
<1>. USE DEF Holds
<1>1. Usable /\ Top(tickets, "commit") /\ ~barrier.active /\ ~Pruning BY OneHolder, Zenon DEF Locks
<1>2. AtHead(H, first) /\ GroupFrames(H) /\ Lists /\ Prunes BY <1>1, Zenon DEF Process
<1>. tickets \in Tickets /\ group.frames \in Seq(Frames) /\ Len(group.frames) \in Nat /\ group.done \in Nat
  BY DEF Types, Groups, FrameLists
<1>. group.done < Len(group.frames) BY <1>2, Zenon DEF GroupFrames
<1>. group.done + 1 \in 1..Len(group.frames) OBVIOUS
<1>. group.frames[group.done + 1] \in Frames /\ group.frames[group.done + 1].id \in Requests
  BY DEF Places
<1>. QED BY <1>1, <1>2, Zenon

\* The frame that is written next continues the history.
LEMMA NextFrame ==
  ASSUME NEW H, NEW first, Holds(H, first), group.step = "write", NEW r, r = group.frames[group.done + 1].id
  PROVE  /\ r \in Requests /\ group.frames[group.done + 1] = FrameAt(Append(H, r), Len(H) + 1)
         /\ walSequence + group.done = Len(H) /\ unsynced = group.done
<1>. USE DEF Holds
<1>1. Committing BY Zenon DEF Committing
<1>. /\ AtHead(H, first) /\ GroupFrames(H) /\ group.done \in Nat /\ group.done + 1 \in 1..Len(group.frames)
     /\ group.frames[group.done + 1] \in Frames /\ r \in Requests
  BY <1>1, CommittingIs, Zenon
<1>3. Written = group.done /\ Passed = 0 BY Zenon DEF Written, Passed
<1>4. walSequence + group.done - 0 = Len(H) /\ walSequence \in Nat /\ Len(H) \in Nat
  BY <1>3, DiskNumbers, Zenon DEF AtHead, Types
<1>5. unsynced = group.done BY <1>3, Zenon DEF AtHead
<1>. DEFINE d == group.done
            x == group.frames[d + 1]
<1>6. /\ x.seq = walSequence - 0 + (d + 1)
      /\ x.prev = IF d + 1 = 1 THEN HashAt(H, walSequence - 0) ELSE group.frames[(d + 1) - 1].id
  BY <1>1, <1>3, Zenon DEF GroupFrames
<1>7. \A i \in 1..d : group.frames[i].id = H[walSequence - 0 + i]
  BY <1>1, <1>3, Zenon DEF GroupFrames
<1>8. x.seq = Len(H) + 1
  <2>. DEFINE q == x.seq
              h == Len(H)
  <2>. q = walSequence - 0 + (d + 1) /\ walSequence + d - 0 = h /\ d \in Nat /\ walSequence \in Nat
    BY <1>4, <1>6, Zenon
  <2>. HIDE DEF q, h, d
  <2>. q = h + 1 OBVIOUS
  <2>. QED BY Zenon DEF q, h
<1>9. x.prev = HashAt(H, Len(H))
  <2>1. CASE d = 0
    <3>. d + 1 = 1 /\ walSequence - 0 = Len(H) BY <1>4, <2>1
    <3>. QED BY <1>6, Zenon
  <2>2. CASE d # 0
    <3>. d + 1 # 1 /\ (d + 1) - 1 = d /\ d \in 1..d /\ walSequence - 0 + d = Len(H) /\ Len(H) # 0
      BY <1>4, <2>2
    <3>. x.prev = group.frames[d].id BY <1>6, Zenon
    <3>. group.frames[d].id = H[Len(H)] BY <1>7, Zenon
    <3>. QED BY Zenon DEF HashAt
  <2>. QED BY <2>1, <2>2, Zenon
<1>10. x = [seq |-> Len(H) + 1, id |-> r, prev |-> HashAt(H, Len(H))]
  BY <1>8, <1>9, Zenon DEF Frames
<1>. FrameAt(Append(H, r), Len(H) + 1) = [seq |-> Len(H) + 1, id |-> r, prev |-> HashAt(H, Len(H))]
  BY OneMore, Zenon
<1>. walSequence + group.done = Len(H) BY <1>4
<1>. QED BY <1>5, <1>10, Zenon

\* Facts about a beginning of the history hold of a history that agrees with it.
LEMMA RemovedToo ==
  ASSUME NEW G \in Chains, NEW H \in Chains, NEW m, Agree(G, H, m),
         NEW u \in Unlinked, NEW first, Removed(H, u, first), first <= m + 1, first \in Nat
  PROVE  Removed(G, u, first)
<1>1. m \in Nat /\ \A k \in 1..m : FrameAt(G, k) = FrameAt(H, k) BY SameBeginning, Zenon DEF Agree
<1>. DEFINE a == u.segment.first
            z == u.segment.last
            n == Len(u.frames)
<1>2. a \in Nat /\ z \in Nat /\ n \in Nat BY DEF Unlinked, Segments
<1>3. 1 <= a /\ a <= z /\ z + 1 = first /\ n = z - a + 1 BY Zenon DEF Removed, Size
<1>4. \A i \in 1..n : u.frames[i] = FrameAt(H, a + i - 1) BY Zenon DEF Removed
<1>. HIDE DEF a, z, n
<1>. \A i \in 1..n : a + i - 1 \in 1..m BY <1>1, <1>2, <1>3
<1>. \A i \in 1..n : u.frames[i] = FrameAt(G, a + i - 1) BY <1>1, <1>4, Zenon
<1>. QED BY Zenon DEF Removed, a, n

LEMMA PrefixToo ==
  ASSUME NEW G \in Chains, NEW H \in Chains, NEW m, Agree(G, H, m), NEW s \in Chains, Prefix(s, H), Len(s) <= m
  PROVE  Prefix(s, G)
<1>. Len(s) \in Nat /\ Len(G) \in Nat /\ m \in Nat /\ m <= Len(G) BY DEF Chains, Agree
<1>. Len(s) <= Len(G) /\ \A i \in 1..Len(s) : i \in 1..m OBVIOUS
<1>. QED BY Zenon DEF Agree, Prefix

\* The files when a frame of the group reaches the log.
LEMMA DiskGrows ==
  ASSUME NEW H, NEW first, Holds(H, first), group.step = "write", NEW r, r = group.frames[group.done + 1].id,
         log' = Append(log, group.frames[group.done + 1]), unsynced' = unsynced + 1,
         UNCHANGED <<sealed, renamed, unlinked, checkpoint, acked>>
  PROVE  Disk(Append(H, r), first)'
<1>. USE DEF Holds
<1>. DEFINE G == Append(H, r)
<1>1. r \in Requests /\ group.frames[group.done + 1] = FrameAt(G, Len(H) + 1) BY NextFrame, Zenon
<1>2. AtHead(H, first) BY CommittingIs, Zenon DEF Committing
<1>3. Len(log) = Len(H) + 1 - first /\ ~renamed BY <1>2, Zenon DEF AtHead
<1>4. G \in Chains /\ Len(G) = Len(H) + 1 /\ Agree(G, H, Len(H)) BY <1>1, OneMore, Zenon
<1>5. Image(G, sealed, log', first) BY <1>1, <1>3, AppendImage, Zenon DEF Disk
<1>6. log \in Seq(Frames) /\ Len(log') = Len(log) + 1 BY DEF Disk, Image, Lays
<1>. /\ Len(H) \in Nat /\ first \in Nat /\ first >= 1 /\ first <= Len(H) + 1 /\ Len(log) \in Nat
     /\ SealedFrames(sealed) \in Nat /\ unsynced \in Nat /\ unsynced <= Len(log) - SealedFrames(sealed)
     /\ checkpoint.seq \in Nat /\ checkpoint.seq <= Len(H) /\ first <= checkpoint.seq + 1
     /\ Len(acked) \in Nat /\ Len(acked) <= Len(H)
     /\ checkpoint.seq <= first - 1 + Len(log) - unsynced
     /\ Len(acked) <= first - 1 + Len(log) - unsynced
  BY DiskNumbers, Zenon
<1>. HIDE DEF G
<1>8. unsynced' <= Len(log') - SealedFrames(sealed') BY <1>6
<1>9. sealed' = <<>> /\ first > 1 => unsynced' < Len(log')
  <2>. unsynced < Len(log) => unsynced' < Len(log') BY <1>6
  <2>. QED BY Zenon DEF Disk
<1>10. unlinked' # <<>> => Removed(G, unlinked'[1], first)
  <2>. SUFFICES ASSUME unlinked # <<>> PROVE Removed(G, unlinked[1], first) BY Zenon
  <2>. unlinked[1] \in Unlinked BY DEF Types, Removals
  <2>. Removed(H, unlinked[1], first) BY Zenon DEF Disk
  <2>. QED BY <1>4, RemovedToo, Zenon
<1>11. Anchored(G, checkpoint') BY <1>4, AnchoredToo, Zenon DEF Disk
<1>. Kept(first)' = first - 1 + Len(log) - unsynced
  <2>. Kept(first)' = first - 1 + Len(log') - unsynced' BY Zenon DEF Kept
  <2>. QED BY <1>6
<1>. Prefix(acked', G) BY <1>4, PrefixToo, Zenon DEF Disk, Types
<1>. QED BY <1>3, <1>5, <1>8, <1>9, <1>10, <1>11, Zenon DEF Disk, G

\* r is the request of a frame of the group.
Framed(r) == \E i \in 1..Len(group.frames) : group.frames[i].id = r

LEMMA FramedApart ==
  ASSUME NEW H, Places(H), NEW r, Framed(r)
  PROVE  /\ r \in Requests /\ In(r, group.members) /\ status[r] \in {"queued", "rejected", "acked"}
         /\ ~In(r, queue)
BY DEF Framed, Places, In

\* After a failed group the store is poisoned, and what reached the log is not
\* told to have been refused.
LEMMA PoisonIs ==
  ASSUME NEW H, NEW first, Holds(H, first), Committing, Poison,
         UNCHANGED <<mode, handle, closing, queue, barrier, prune, checkpoint, applied, acked>>,
         unsynced' \in Nat, UNCHANGED <<renamed, unlinked, liveSegmentFirstSequence, sealedWalSegments>>,
         walSequence' \in Nat, walHash' \in Hashes, walOffset' \in Nat,
         NEW G \in Chains, \A i \in 1..Len(G) : In(G[i], H) \/ Framed(G[i])
  PROVE  Types' /\ Locks' /\ Places(G)' /\ \A a : Process(G, a)'
<1>. USE DEF Holds
<1>1. /\ poisoned' = TRUE /\ group' = NoGroup /\ tickets' = Tail(tickets)
      /\ status' = [r \in Requests |-> IF Framed(r) /\ status[r] = "queued" THEN "rejected" ELSE status[r]]
  <2>. /\ poisoned' = TRUE /\ group' = NoGroup /\ tickets' = Tail(tickets)
       /\ status' = [r \in Requests |->
                      IF \E i \in 1..Len(group.frames) : group.frames[i].id = r /\ status[r] = "queued"
                      THEN "rejected" ELSE status[r]]
    BY Zenon DEF Poison, EndGroup, PoisonedAfterFailure
  <2>. \A r : (\E i \in 1..Len(group.frames) : group.frames[i].id = r /\ status[r] = "queued")
               <=> (Framed(r) /\ status[r] = "queued")
    BY Zenon DEF Framed
  <2>. QED BY Zenon
<1>2. Usable /\ Top(tickets, "commit") /\ tickets \in Tickets /\ ~barrier.active /\ ~Pruning
  BY CommittingIs, Zenon
<1>3. tickets' \in Tickets /\ \A j : j # "commit" /\ In(j, tickets) => In(j, tickets')
  BY <1>1, <1>2, Released, Zenon
<1>4. status \in [Requests -> Statuses] BY Zenon DEF Types
<1>5. Types'
  <2>. status' \in [Requests -> Statuses] BY <1>1, <1>4, Zenon DEF Statuses
  <2>. poisoned' \in BOOLEAN BY <1>1, Zenon
  <2>. QED BY <1>1, <1>3, NoGroupType, Zenon DEF Types
<1>6. mode' = "open" /\ ~Usable' /\ ~Committing' /\ ~Pruning' /\ ~barrier'.active
  BY <1>1, <1>2, NoGroupType, Zenon DEF Usable, Committing, Pruning
<1>7. Locks' BY <1>1, <1>3, <1>6, NoGroupType, Zenon DEF Locks
<1>. Places(G)'
  <2>1. ASSUME NEW i \in 1..Len(G) PROVE status'[G[i]] \in {"queued", "rejected", "acked"}
    <3>1. G[i] \in Requests BY DEF Chains
    <3>. status[G[i]] \in {"queued", "rejected", "acked"}
      <4>. CASE In(G[i], H) BY Zenon DEF In, Places
      <4>. CASE Framed(G[i]) BY FramedApart, Zenon
      <4>. QED BY Zenon
    <3>. QED BY <1>1, <3>1, Zenon
  <2>2. group'.members = <<>> /\ group'.frames = <<>> BY <1>1, NoGroupType, Zenon
  <2>3. ASSUME NEW i \in 1..Len(queue)
        PROVE  status'[queue[i]] = "queued" /\ ~In(queue[i], G) /\ ~In(queue[i], group'.members)
    <3>1. queue[i] \in Requests BY DEF Types, Chains
    <3>. status[queue[i]] = "queued" /\ ~In(queue[i], H) BY Zenon DEF Places
    <3>. ~Framed(queue[i]) BY FramedApart, Zenon DEF In
    <3>. ~In(queue[i], G)
      <4>. ASSUME NEW j \in 1..Len(G), G[j] = queue[i] PROVE FALSE
        BY Zenon
      <4>. QED BY Zenon DEF In
    <3>. QED BY <1>1, <2>2, <3>1, Nobody, Zenon
  <2>. (\A i \in 1..Len(group'.members) : FALSE) /\ (\A i \in 1..Len(group'.frames) : FALSE) BY <2>2
  <2>. QED BY <2>1, <2>3, Zenon DEF Places
<1>. \A a : Process(G, a)' BY <1>6, Zenon DEF Process
<1>. QED BY <1>5, <1>7, Zenon

LEMMA SelfIn ==
  ASSUME NEW H
  PROVE  \A i \in 1..Len(H) : In(H[i], H) \/ Framed(H[i])
BY Zenon DEF In

LEMMA SealOrSyncFailsStep ==
  ASSUME NEW H, NEW first, Holds(H, first), SealOrSyncFails
  PROVE  Holds(H, first)' /\ acked' = acked
<1>. USE DEF Holds
<1>. /\ Committing /\ Poison
     /\ UNCHANGED <<disk, head, mode, handle, closing, queue, barrier, prune, checkpoint, applied, acked>>
  BY Zenon DEF SealOrSyncFails, Committing
<1>. Types' /\ Locks' /\ Places(H)' /\ Process(H, first)'
  BY SelfIn, PoisonIs, Zenon DEF disk, head, Types
<1>. Disk(H, first)' BY DiskStays, Zenon
<1>. QED BY Zenon

LEMMA ApplyFailsStep ==
  ASSUME NEW H, NEW first, Holds(H, first), ApplyFails
  PROVE  Holds(H, first)' /\ acked' = acked
<1>. USE DEF Holds
<1>1. /\ Committing /\ Poison /\ (Advance(group.frames[group.done + 1]) \/ UNCHANGED head)
      /\ UNCHANGED <<disk, mode, handle, closing, queue, barrier, prune, checkpoint, applied, acked>>
  BY Zenon DEF ApplyFails, Committing
<1>2. group.frames[group.done + 1] \in Frames /\ group.frames[group.done + 1].id \in Requests
  BY <1>1, CommittingIs, Zenon
<1>3. /\ UNCHANGED <<liveSegmentFirstSequence, sealedWalSegments>>
      /\ walSequence' \in Nat /\ walHash' \in Hashes /\ walOffset' \in Nat
  <2>1. walSequence \in Nat /\ walHash \in Hashes /\ walOffset \in Nat BY Zenon DEF Types
  <2>2. CASE UNCHANGED head BY <2>1, <2>2, Zenon DEF head
  <2>. CASE Advance(group.frames[group.done + 1])
    <3>1. walSequence' \in Nat BY <1>2, Zenon DEF Advance, Frames
    <3>. walHash' \in Hashes BY <1>2, Zenon DEF Advance, Hashes
    <3>. walOffset' \in Nat BY <2>1 DEF Advance
    <3>. QED BY <3>1, Zenon DEF Advance
  <2>. QED BY <1>1, <2>2, Zenon
<1>. Types' /\ Locks' /\ Places(H)' /\ Process(H, first)'
  BY <1>1, <1>3, SelfIn, PoisonIs, Zenon DEF disk, Types
<1>. Disk(H, first)' BY <1>1, DiskStays, Zenon
<1>. QED BY <1>1, Zenon

\* Part of a frame reaches the log.
LEMMA DiskTorn ==
  ASSUME NEW H, NEW first, Holds(H, first), group.step = "write",
         NEW t \in Tear(group.frames[group.done + 1]), log' = Append(log, t), unsynced' = unsynced + 1,
         UNCHANGED <<sealed, renamed, unlinked, checkpoint, acked>>
  PROVE  Disk(H, first)'
<1>. USE DEF Holds
<1>1. AtHead(H, first) BY CommittingIs, Zenon DEF Committing
<1>2. Len(log) = Len(H) + 1 - first /\ ~renamed BY <1>1, Zenon DEF AtHead
<1>3. /\ Len(H) \in Nat /\ first \in Nat /\ first >= 1 /\ Len(log) \in Nat
      /\ SealedFrames(sealed) \in Nat /\ unsynced \in Nat /\ unsynced <= Len(log) - SealedFrames(sealed)
  BY DiskNumbers, Zenon
<1>4. t \in Frames /\ t.id = Torn /\ t.seq \in {0, Len(H) + 1}
  <2>1. PICK r : r = group.frames[group.done + 1].id BY Zenon
  <2>. group.frames[group.done + 1] = FrameAt(Append(H, r), Len(H) + 1) BY <2>1, NextFrame, Zenon
  <2>. group.frames[group.done + 1].seq = Len(H) + 1 BY FrameFields
  <2>. QED BY <1>3, TearIs
<1>5. Image(H, sealed, log', first) BY <1>2, <1>4, TornImage, Zenon DEF Disk
<1>. Len(log') = Len(log) + 1 BY <1>4 DEF Disk, Image, Lays
<1>7. unsynced' <= Len(log') - SealedFrames(sealed') BY <1>3
<1>8. sealed' = <<>> /\ first > 1 => unsynced' < Len(log')
  <2>. unsynced < Len(log) => unsynced' < Len(log') BY <1>3
  <2>. QED BY Zenon DEF Disk
<1>. Kept(first)' = Kept(first)
  <2>. Kept(first)' = first - 1 + Len(log') - unsynced' /\ Kept(first) = first - 1 + Len(log) - unsynced
    BY Zenon DEF Kept
  <2>. QED BY <1>3
<1>. QED BY <1>2, <1>5, <1>7, <1>8, Zenon DEF Disk

LEMMA WriteFailsStep ==
  ASSUME NEW H, NEW first, Holds(H, first), WriteFails
  PROVE  \E G : Holds(G, first)' /\ acked' = acked /\ (G = H \/ \E r \in Requests : G = Append(H, r))
<1>. USE DEF Holds
<1>1. /\ group.step = "write" /\ Poison
      /\ UNCHANGED <<sealed, renamed, unlinked, head, mode, handle, closing,
                     queue, barrier, prune, checkpoint, applied, acked>>
  BY Zenon DEF WriteFails
<1>2. Committing /\ UNCHANGED <<liveSegmentFirstSequence, sealedWalSegments>>
      /\ walSequence' \in Nat /\ walHash' \in Hashes /\ walOffset' \in Nat /\ unsynced \in Nat
  BY <1>1, Zenon DEF Committing, head, Types
<1>3. ASSUME unsynced' \in Nat, Disk(H, first)' PROVE Holds(H, first)'
  BY <1>1, <1>2, <1>3, SelfIn, PoisonIs, Zenon
<1>4. CASE UNCHANGED <<log, unsynced>>
  <2>. Disk(H, first)' BY <1>1, <1>4, DiskStays, Zenon DEF disk
  <2>. QED BY <1>1, <1>2, <1>3, <1>4, Zenon
<1>5. ASSUME NEW t \in Tear(group.frames[group.done + 1]), log' = Append(log, t), unsynced' = unsynced + 1
      PROVE  Holds(H, first)'
  <2>. unsynced' \in Nat BY <1>2, <1>5
  <2>. Disk(H, first)' BY <1>1, <1>5, DiskTorn, Zenon
  <2>. QED BY <1>3, Zenon
<1>6. ASSUME log' = Append(log, group.frames[group.done + 1]), unsynced' = unsynced + 1
      PROVE  \E r \in Requests : Holds(Append(H, r), first)'
  <2>1. PICK r : r = group.frames[group.done + 1].id BY Zenon
  <2>2. unsynced' \in Nat BY <1>2, <1>6
  <2>3. Disk(Append(H, r), first)' BY <1>1, <1>6, <2>1, DiskGrows, Zenon
  <2>4. group.done + 1 \in 1..Len(group.frames) /\ r \in Requests BY <1>2, <2>1, CommittingIs, Zenon
  <2>5. Framed(r) BY <2>1, <2>4, Zenon DEF Framed
  <2>. /\ Append(H, r) \in Chains /\ Len(Append(H, r)) = Len(H) + 1 /\ Append(H, r)[Len(H) + 1] = r
       /\ Agree(Append(H, r), H, Len(H))
    BY <2>4, OneMore, Zenon
  <2>7. ASSUME NEW i \in 1..Len(Append(H, r)) PROVE In(Append(H, r)[i], H) \/ Framed(Append(H, r)[i])
    <3>1. Len(H) \in Nat BY DEF Chains
    <3>. i \in 1..Len(H) \/ i = Len(H) + 1 BY <3>1
    <3>. i \in 1..Len(H) => Append(H, r)[i] = H[i] BY Zenon DEF Agree
    <3>. QED BY <2>5, Zenon DEF In
  <2>. Types' /\ Locks' /\ Places(Append(H, r))' /\ Process(Append(H, r), first)'
    BY <1>1, <1>2, <2>2, <2>7, PoisonIs, Zenon
  <2>. QED BY <2>3, <2>4, Zenon
<1>. \/ UNCHANGED <<log, unsynced>>
     \/ /\ unsynced' = unsynced + 1
        /\ \/ \E t \in Tear(group.frames[group.done + 1]) : log' = Append(log, t)
           \/ log' = Append(log, group.frames[group.done + 1])
  BY Zenon DEF WriteFails
<1>. QED BY <1>1, <1>3, <1>4, <1>5, <1>6, Zenon

\* A group goes from one step to the next.
LEMMA GroupMoves ==
  ASSUME NEW H, NEW first, Holds(H, first), Committing, Committing',
         group'.members = group.members, group'.frames = group.frames,
         UNCHANGED <<tickets, queue, barrier, prune, status, mode, poisoned>>
  PROVE  Locks' /\ Places(H)'
<1>. USE DEF Holds
<1>1. Usable /\ Top(tickets, "commit") /\ ~barrier.active /\ ~Pruning BY CommittingIs, Zenon
<1>. group'.step # "waiting" /\ group'.step # "none" /\ group.step # "none" BY Zenon DEF Committing
<1>. Locks'
  <2>. Usable' /\ mode' = "open" /\ ~Pruning' /\ In("commit", tickets') BY <1>1, Zenon DEF Usable, Pruning, Locks
  <2>. QED BY <1>1, Zenon DEF Locks
<1>. Places(H)' BY Zenon DEF Places
<1>. QED BY Zenon

\* The group record with another step.
LEMMA StepIs ==
  ASSUME group \in Groups, NEW s \in Steps, NEW g, g = [group EXCEPT !.step = s]
  PROVE  /\ g \in Groups /\ g.step = s /\ g.members = group.members /\ g.frames = group.frames
         /\ g.done = group.done
BY Zenon DEF Groups

\* What the process knows of a running prune, while a group is committed.
LEMMA PrunesCommitting ==
  ASSUME Prunes, ~Pruning, Committing', UNCHANGED <<prune, checkpoint>>
  PROVE  Prunes'
BY Zenon DEF Prunes, Pruning

LEMMA SealRenameStep ==
  ASSUME NEW H, NEW first, Holds(H, first), SealRename
  PROVE  Holds(H, first)' /\ acked' = acked
<1>. USE DEF Holds
<1>1. /\ group.step = "seal"
      /\ UNCHANGED <<log, unsynced, unlinked, head, mode, closing, poisoned,
                     queue, tickets, barrier, prune, outside>>
  BY Zenon DEF SealRename
<1>2. Committing BY <1>1, Zenon DEF Committing
<1>3. Usable /\ ~barrier.active /\ ~Pruning /\ AtHead(H, first) /\ GroupFrames(H) /\ Lists /\ Prunes
  BY <1>2, CommittingIs, Zenon
<1>4. Written = 0 /\ Passed = 0 /\ group.done = 0 BY <1>1, <1>2, <1>3, Zenon DEF Written, Passed, GroupFrames
<1>5. /\ Len(log) = Len(H) + 1 - first /\ walSequence + 0 - 0 = Len(H) /\ unsynced = 0 /\ ~renamed /\ handle
      /\ walOffset + liveSegmentFirstSequence = walSequence + 1
      /\ liveSegmentFirstSequence = first + SealedFrames(sealed)
  BY <1>1, <1>3, <1>4, Zenon DEF AtHead
<1>6. /\ Len(H) \in Nat /\ first \in Nat /\ first >= 1 /\ walSequence \in Nat
      /\ liveSegmentFirstSequence \in Nat /\ SealedFrames(sealed) \in Nat /\ Len(log) \in Nat
  BY DiskNumbers, Zenon DEF Types
<1>7. walSequence = Len(H) BY <1>5, <1>6
<1>8. group \in Groups /\ "write" \in Steps /\ "sealsync" \in Steps BY Zenon DEF Types, Steps
<1>9. ASSUME group'.step \in {"write", "sealsync"}, group'.members = group.members,
             group'.frames = group.frames, group'.done = group.done
      PROVE  /\ Committing' /\ Locks' /\ Places(H)' /\ Prunes' /\ GroupFrames(H)'
             /\ Written' = 0 /\ Passed' = 0 /\ ~barrier'.active
  <2>1. Committing' BY <1>9, Zenon DEF Committing
  <2>2. Locks' /\ Places(H)' BY <1>1, <1>2, <1>9, <2>1, GroupMoves, Zenon DEF outside
  <2>3. Prunes' BY <1>1, <1>3, <2>1, PrunesCommitting, Zenon DEF outside
  <2>4. Written' = 0 /\ Passed' = 0 BY <1>4, <1>9, Zenon DEF Written, Passed
  <2>5. GroupFrames(H)' BY <1>1, <1>2, <1>3, <1>4, <1>9, <2>4 DEF GroupFrames, head
  <2>. QED BY <1>1, <1>3, <2>1, <2>2, <2>3, <2>4, <2>5, Zenon
<1>10. CASE walSequence < liveSegmentFirstSequence
  <2>1. group' = [group EXCEPT !.step = "write"] /\ UNCHANGED <<sealed, renamed, handle>>
    BY <1>10, Zenon DEF SealRename
  <2>2. /\ group' \in Groups /\ group'.step = "write" /\ group'.members = group.members
        /\ group'.frames = group.frames /\ group'.done = group.done
    BY <1>8, <2>1, StepIs, Zenon
  <2>3. /\ Committing' /\ Locks' /\ Places(H)' /\ Prunes' /\ GroupFrames(H)'
        /\ Written' = 0 /\ Passed' = 0 /\ ~barrier'.active
    BY <1>9, <2>2, Zenon
  <2>4. Types' BY <1>1, <2>1, <2>2, Zenon DEF Types, head, outside
  <2>5. Disk(H, first)' BY <1>1, <2>1, DiskStays, Zenon DEF disk, outside
  <2>6. AtHead(H, first)' BY <1>1, <1>3, <1>4, <1>5, <2>1, <2>2, <2>3, Zenon DEF AtHead, head, outside
  <2>7. Lists'
    <3>1. Listed' = Listed /\ Gone' = Gone BY <1>1, <2>1, <2>2, Zenon DEF Listed, Gone, head
    <3>. QED BY <1>1, <1>3, <2>1, <3>1, Zenon DEF Lists, head
  <2>8. Process(H, first)' BY <2>3, <2>6, <2>7, Zenon DEF Process
  <2>. QED BY <1>1, <2>3, <2>4, <2>5, <2>8, Zenon DEF outside
<1>11. CASE ~(walSequence < liveSegmentFirstSequence)
  <2>. DEFINE a == liveSegmentFirstSequence
              seg == [first |-> a, last |-> walSequence]
              s == Append(sealed, seg)
  <2>1. handle' = FALSE /\ sealed' = s /\ renamed' = TRUE /\ group' = [group EXCEPT !.step = "sealsync"]
    BY <1>11, Zenon DEF SealRename
  <2>2. /\ group' \in Groups /\ group'.step = "sealsync" /\ group'.members = group.members
        /\ group'.frames = group.frames /\ group'.done = group.done
    BY <1>8, <2>1, StepIs, Zenon
  <2>3. /\ Committing' /\ Locks' /\ Places(H)' /\ Prunes' /\ GroupFrames(H)'
        /\ Written' = 0 /\ Passed' = 0 /\ ~barrier'.active
    BY <1>9, <2>2, Zenon
  <2>4. Types'
    <3>1. handle' \in BOOLEAN /\ renamed' \in BOOLEAN BY <2>1, Zenon
    <3>. QED BY <1>1, <2>2, <3>1, Zenon DEF Types, head, outside
  <2>5. a <= Len(H) BY <1>6, <1>7, <1>11
  <2>6. Image(H, s, log, first) /\ SealedFrames(s) = Len(H) + 1 - first
    <3>1. Image(H, sealed, log, first) BY Zenon DEF Disk
    <3>. QED BY <1>5, <1>7, <2>5, <3>1, SealImage, Zenon
  <2>7. sealed \in Seq(Segments) /\ seg \in Segments
    BY <1>6, Zenon DEF Disk, Image, Ranges, Segments
  <2>8. Len(sealed) \in Nat /\ Len(s) = Len(sealed) + 1 /\ s[Len(sealed) + 1] = seg /\ s # <<>>
        /\ \A i \in 1..Len(sealed) : s[i] = sealed[i]
    BY <2>7
  <2>. HIDE DEF s
  <2>9. Disk(H, first)'
    <3>1. Kept(first)' = Kept(first) BY <1>1, Zenon DEF Kept
    <3>2. unsynced' <= Len(log') - SealedFrames(sealed') BY <1>1, <1>5, <1>6, <2>1, <2>6
    <3>3. sealed' # <<>> /\ log' = log /\ unsynced' = 0 BY <1>1, <1>5, <2>1, <2>8, Zenon
    <3>4. renamed' => unsynced' = 0 /\ sealed' # <<>> /\ Len(log') = Len(H) + 1 - first BY <1>5, <3>3, Zenon
    <3>5. Image(H, sealed', log', first) BY <2>1, <2>6, <3>3, Zenon
    <3>. QED BY <1>1, <3>1, <3>2, <3>3, <3>4, <3>5, Zenon DEF Disk, outside
  <2>10. AtHead(H, first)'
    <3>1. sealed'[Len(sealed')] = [first |-> liveSegmentFirstSequence', last |-> walSequence'] /\ sealed' # <<>>
      BY <1>1, <2>1, <2>8, Zenon DEF head
    <3>. QED BY <1>1, <1>3, <1>4, <1>5, <2>2, <2>3, <3>1, Zenon DEF AtHead, head, outside
  <2>11. Lists'
    <3>. DEFINE list == sealedWalSegments
                t == Append(list, seg)
    <3>1. Listed = list /\ Gone = Len(list) - Len(sealed) BY <1>1, Zenon DEF Listed, Gone
    <3>2. Listed' = t BY <1>1, <2>2, Zenon DEF Listed, head
    <3>3. list \in Seq(Segments) BY Zenon DEF Types, SegmentLists
    <3>4. Len(list) \in Nat /\ Len(t) = Len(list) + 1 /\ t[Len(list) + 1] = seg
          /\ \A i \in 1..Len(list) : t[i] = list[i]
      BY <2>7, <3>3
    <3>5. Gone \in Nat BY <1>3, Zenon DEF Lists
    <3>. HIDE DEF t
    <3>6. Gone' = Gone
      <4>1. Gone' = Len(t) - Len(s) BY <2>1, <3>2, Zenon DEF Gone
      <4>. QED BY <2>8, <3>1, <3>4, <4>1
    <3>7. ASSUME NEW i \in 1..Len(sealed') PROVE Listed'[Gone' + i] = sealed'[i]
      <4>1. CASE i \in 1..Len(sealed)
        <5>1. Gone + i \in 1..Len(list) BY <2>8, <3>1, <3>4, <3>5, <4>1
        <5>2. list[Gone + i] = sealed[i] BY <1>3, <3>1, <4>1, Zenon DEF Lists
        <5>. QED BY <2>1, <2>8, <3>2, <3>4, <3>6, <4>1, <5>1, <5>2, Zenon
      <4>2. CASE i = Len(sealed) + 1
        <5>1. Gone + i = Len(list) + 1 BY <2>8, <3>1, <3>4, <4>2
        <5>. QED BY <2>1, <2>8, <3>2, <3>4, <3>6, <4>2, <5>1, Zenon
      <4>3. i \in 1..Len(sealed) \/ i = Len(sealed) + 1 BY <2>1, <2>8
      <4>. QED BY <4>1, <4>2, <4>3, Zenon
    <3>8. unlinked # <<>> => Gone > 0 /\ t[Gone] = unlinked[1].segment
      <4>. SUFFICES ASSUME unlinked # <<>> PROVE Gone > 0 /\ t[Gone] = unlinked[1].segment BY Zenon
      <4>1. Gone > 0 /\ list[Gone] = unlinked[1].segment BY <1>3, <3>1, Zenon DEF Lists
      <4>2. Gone \in 1..Len(list) BY <2>8, <3>1, <3>4, <3>5, <4>1
      <4>. QED BY <3>4, <4>1, <4>2, Zenon
    <3>. QED BY <1>1, <1>3, <3>2, <3>5, <3>6, <3>7, <3>8, Zenon DEF Lists, head
  <2>12. Process(H, first)' BY <2>3, <2>10, <2>11, Zenon DEF Process
  <2>. QED BY <1>1, <2>3, <2>4, <2>9, <2>12, Zenon DEF outside
<1>. QED BY <1>10, <1>11, Zenon

LEMMA SealSyncStep ==
  ASSUME NEW H, NEW first, Holds(H, first), SealSync
  PROVE  Holds(H, first)' /\ acked' = acked
<1>. USE DEF Holds
<1>. /\ group.step = "sealsync" /\ renamed' = FALSE /\ unlinked' = <<>>
     /\ group' = [group EXCEPT !.step = "create"]
     /\ UNCHANGED <<sealed, log, unsynced, head, proc, queue, tickets, barrier, prune, outside>>
  BY Zenon DEF SealSync
<1>2. Committing BY Zenon DEF Committing
<1>3. Usable /\ ~barrier.active /\ ~Pruning /\ AtHead(H, first) /\ GroupFrames(H) /\ Lists /\ Prunes
  BY <1>2, CommittingIs, Zenon
<1>4. group \in Groups /\ "create" \in Steps BY Zenon DEF Types, Steps
<1>5. /\ group' \in Groups /\ group'.step = "create" /\ group'.members = group.members
      /\ group'.frames = group.frames /\ group'.done = group.done
  BY <1>4, StepIs, Zenon
<1>6. Committing' BY <1>5, Zenon DEF Committing
<1>7. Locks' /\ Places(H)' BY <1>2, <1>5, <1>6, GroupMoves, Zenon DEF outside, proc
<1>8. Types'
  <2>. renamed' \in BOOLEAN BY Zenon
  <2>. unlinked' \in Removals BY DEF Removals
  <2>. QED BY <1>5, Zenon DEF Types, head, proc, outside
<1>9. Disk(H, first)'
  <2>. Kept(first)' = Kept(first) BY Zenon DEF Kept
  <2>. ~renamed' BY Zenon
  <2>. QED BY Zenon DEF Disk, outside
<1>10. Written = 0 /\ Passed = 0 /\ Written' = 0 /\ Passed' = 0 BY <1>5, Zenon DEF Written, Passed
<1>11. AtHead(H, first)'
  <2>. ~renamed' BY Zenon
  <2>. QED BY <1>3, <1>5, <1>10, Zenon DEF AtHead, head, proc, outside
<1>12. GroupFrames(H)' BY <1>2, <1>3, <1>5, <1>10 DEF GroupFrames, head
<1>13. Lists'
  <2>. Listed' = Listed /\ Gone' = Gone BY <1>5, Zenon DEF Listed, Gone, head
  <2>. QED BY <1>3, Zenon DEF Lists, head
<1>14. Prunes' BY <1>3, <1>6, PrunesCommitting, Zenon DEF outside
<1>. ~barrier'.active BY <1>3, Zenon
<1>. Process(H, first)' BY <1>11, <1>12, <1>13, <1>14, Zenon DEF Process
<1>. QED BY <1>7, <1>8, <1>9, Zenon DEF outside

LEMMA SealCreateStep ==
  ASSUME NEW H, NEW first, Holds(H, first), SealCreate
  PROVE  Holds(H, first)' /\ acked' = acked
<1>. USE DEF Holds
<1>. DEFINE a == liveSegmentFirstSequence
            z == walSequence
            list == sealedWalSegments
            t == Append(list, [first |-> a, last |-> z])
<1>. /\ group.step = "create" /\ handle' = TRUE /\ sealedWalSegments' = t
     /\ liveSegmentFirstSequence' = z + 1 /\ walOffset' = 0
     /\ group' = [group EXCEPT !.step = "write"]
     /\ UNCHANGED <<disk, walSequence, walHash, mode, closing, poisoned,
                    queue, tickets, barrier, prune, outside>>
  BY Zenon DEF SealCreate
<1>2. Committing BY Zenon DEF Committing
<1>3. Usable /\ ~barrier.active /\ ~Pruning /\ AtHead(H, first) /\ GroupFrames(H) /\ Lists /\ Prunes
  BY <1>2, CommittingIs, Zenon
<1>4. group \in Groups /\ "write" \in Steps BY Zenon DEF Types, Steps
<1>5. /\ group' \in Groups /\ group'.step = "write" /\ group'.members = group.members
      /\ group'.frames = group.frames /\ group'.done = group.done
  BY <1>4, StepIs, Zenon
<1>6. Committing' BY <1>5, Zenon DEF Committing
<1>7. Locks' /\ Places(H)' BY <1>2, <1>5, <1>6, GroupMoves, Zenon DEF outside
<1>8. Image(H, sealed, log, first) /\ sealed # <<>> /\ sealed[Len(sealed)] = [first |-> a, last |-> z]
  BY <1>3, Zenon DEF AtHead, Disk
<1>9. Len(sealed) \in 1..Len(sealed) /\ Ranges(sealed) BY <1>8 DEF Image, Ranges
<1>10. 1 <= a /\ a <= z BY <1>8, <1>9 DEF Ranges
<1>11. a \in Nat /\ z \in Nat BY Zenon DEF Types
<1>12. Ranges(list) /\ (list # <<>> => list[Len(list)].last + 1 = a) BY <1>3, Zenon DEF Lists
<1>13. Follows(list, a, z) BY <1>10, <1>11, <1>12, Zenon DEF Follows
<1>14. Ranges(t) /\ Len(t) = Len(list) + 1 /\ t[Len(list) + 1] = [first |-> a, last |-> z]
  BY <1>12, <1>13, RangesAppend
<1>15. Listed = t BY Zenon DEF Listed
<1>16. Listed' = t BY <1>5, Zenon DEF Listed
<1>17. Gone' = Gone BY <1>15, <1>16, Zenon DEF Gone, disk
<1>. HIDE DEF t
<1>18. Types'
  <2>1. handle' \in BOOLEAN BY Zenon
  <2>. sealedWalSegments' \in SegmentLists BY <1>14, Zenon DEF Ranges, SegmentLists
  <2>. liveSegmentFirstSequence' \in Nat /\ walOffset' \in Nat BY <1>11
  <2>. QED BY <1>5, <2>1, Zenon DEF Types, disk, outside
<1>19. Disk(H, first)' BY DiskStays, Zenon DEF outside
<1>20. group.done = 0 BY <1>2, <1>3, Zenon DEF GroupFrames
<1>21. Written = 0 /\ Passed = 0 /\ Written' = 0 /\ Passed' = 0 BY <1>5, <1>20, Zenon DEF Written, Passed
<1>22. AtHead(H, first)'
  <2>1. SealedFrames(sealed) = z + 1 - first /\ first \in Nat
    <3>. SealedFrames(sealed) = sealed[Len(sealed)].last + 1 - first /\ first \in Nat BY <1>8, ImageShape
    <3>. sealed[Len(sealed)].last = z BY <1>8
    <3>. QED BY Zenon
  <2>2. z + 1 = first + SealedFrames(sealed) /\ 0 + (z + 1) = z + 1 BY <1>11, <2>1
  <2>3. ~renamed BY <1>3, Zenon DEF AtHead
  <2>4. handle' BY Zenon
  <2>. /\ liveSegmentFirstSequence' = first + SealedFrames(sealed')
       /\ walOffset' + liveSegmentFirstSequence' = walSequence' + 1 /\ ~renamed'
    BY <2>2, <2>3, Zenon DEF disk
  <2>. /\ Len(log) = Len(H) + 1 - first /\ walSequence + 0 - 0 = Len(H) /\ unsynced = 0
       /\ walHash = HashAt(H, walSequence) /\ applied = SubSeq(H, 1, walSequence) /\ Len(acked) <= walSequence
    BY <1>3, <1>21, Zenon DEF AtHead
  <2>. QED BY <1>5, <1>21, <2>4, Zenon DEF AtHead, disk, outside
<1>23. GroupFrames(H)' BY <1>2, <1>3, <1>5, <1>20, <1>21 DEF GroupFrames
<1>24. Lists'
  <2>. /\ Gone \in Nat /\ \A i \in 1..Len(sealed) : t[Gone + i] = sealed[i]
       /\ unlinked # <<>> => Gone > 0 /\ t[Gone] = unlinked[1].segment
    BY <1>3, <1>15, Zenon DEF Lists
  <2>. t[Len(t)].last + 1 = liveSegmentFirstSequence' BY <1>14
  <2>. QED BY <1>14, <1>16, <1>17, Zenon DEF Lists, disk
<1>25. Prunes' BY <1>3, <1>6, PrunesCommitting, Zenon DEF outside
<1>. ~barrier'.active BY <1>3, Zenon
<1>. Process(H, first)' BY <1>22, <1>23, <1>24, <1>25, Zenon DEF Process
<1>. QED BY <1>7, <1>18, <1>19, Zenon DEF outside

LEMMA SyncGroupStep ==
  ASSUME NEW H, NEW first, Holds(H, first), SyncGroup
  PROVE  Holds(H, first)' /\ acked' = acked
<1>. USE DEF Holds
<1>. /\ group.step = "sync" /\ unsynced' = 0 /\ group' = [group EXCEPT !.step = "apply"]
     /\ UNCHANGED <<sealed, log, renamed, unlinked, head, proc, queue, tickets, barrier, prune, outside>>
  BY Zenon DEF SyncGroup, UnsyncedAfterSync
<1>2. Committing BY Zenon DEF Committing
<1>3. Usable /\ ~barrier.active /\ ~Pruning /\ AtHead(H, first) /\ GroupFrames(H) /\ Lists /\ Prunes
  BY <1>2, CommittingIs, Zenon
<1>4. group \in Groups /\ "apply" \in Steps BY Zenon DEF Types, Steps
<1>5. /\ group' \in Groups /\ group'.step = "apply" /\ group'.members = group.members
      /\ group'.frames = group.frames /\ group'.done = group.done
  BY <1>4, StepIs, Zenon
<1>6. Committing' BY <1>5, Zenon DEF Committing
<1>7. Locks' /\ Places(H)' BY <1>2, <1>5, <1>6, GroupMoves, Zenon DEF outside, proc
<1>8. Types' BY <1>5, Zenon DEF Types, head, proc, outside
<1>9. /\ Len(H) \in Nat /\ first \in Nat /\ first >= 1 /\ Len(log) \in Nat
      /\ SealedFrames(sealed) \in Nat /\ unsynced \in Nat /\ unsynced <= Len(log) - SealedFrames(sealed)
      /\ checkpoint.seq \in Nat /\ Len(acked) \in Nat
      /\ checkpoint.seq <= first - 1 + Len(log) - unsynced
      /\ Len(acked) <= first - 1 + Len(log) - unsynced
  BY DiskNumbers, Zenon
<1>10. ~renamed BY <1>3, Zenon DEF AtHead
<1>11. Disk(H, first)'
  <2>. /\ 0 <= Len(log) - SealedFrames(sealed) /\ (unsynced < Len(log) => 0 < Len(log))
       /\ checkpoint.seq <= first - 1 + Len(log) - 0 /\ Len(acked) <= first - 1 + Len(log) - 0
    BY <1>9
  <2>. Kept(first)' = first - 1 + Len(log) - 0 BY Zenon DEF Kept
  <2>. QED BY <1>10, Zenon DEF Disk, outside
<1>12. group.done = 0 BY <1>2, <1>3, Zenon DEF GroupFrames
<1>13. Written' = Written /\ Passed = 0 /\ Passed' = 0 BY <1>5, <1>12 DEF Written, Passed
<1>14. AtHead(H, first)' BY <1>3, <1>5, <1>10, <1>13, Zenon DEF AtHead, head, proc, outside
<1>15. GroupFrames(H)' BY <1>2, <1>3, <1>5, <1>13 DEF GroupFrames, head
<1>16. Lists'
  <2>. Listed' = Listed /\ Gone' = Gone BY <1>5, Zenon DEF Listed, Gone, head
  <2>. QED BY <1>3, Zenon DEF Lists, head
<1>17. Prunes' BY <1>3, <1>6, PrunesCommitting, Zenon DEF outside
<1>. ~barrier'.active BY <1>3, Zenon
<1>. Process(H, first)' BY <1>14, <1>15, <1>16, <1>17, Zenon DEF Process
<1>. QED BY <1>7, <1>8, <1>11, Zenon DEF outside

LEMMA WriteFrameStep ==
  ASSUME NEW H, NEW first, Holds(H, first), WriteFrame
  PROVE  \E r \in Requests : Holds(Append(H, r), first)' /\ acked' = acked
<1>. USE DEF Holds
<1>1. /\ group.step = "write" /\ log' = Append(log, group.frames[group.done + 1]) /\ unsynced' = unsynced + 1
      /\ group' = IF group.done + 1 < Len(group.frames)
                  THEN [group EXCEPT !.done = group.done + 1]
                  ELSE [group EXCEPT !.done = 0, !.step = "sync"]
      /\ UNCHANGED <<sealed, renamed, unlinked, head, proc, queue, tickets, barrier, prune, outside>>
  BY Zenon DEF WriteFrame
<1>2. Committing BY <1>1, Zenon DEF Committing
<1>3. /\ Usable /\ ~barrier.active /\ ~Pruning /\ AtHead(H, first) /\ GroupFrames(H) /\ Lists /\ Prunes
      /\ Len(group.frames) \in Nat /\ group.done \in Nat /\ group.done < Len(group.frames)
      /\ group.done + 1 \in 1..Len(group.frames)
  BY <1>2, CommittingIs, Zenon
<1>4. PICK r : r = group.frames[group.done + 1].id BY Zenon
<1>. DEFINE G == Append(H, r)
            d == group.done
<1>5. r \in Requests /\ walSequence + d = Len(H) /\ unsynced = d BY <1>1, <1>4, NextFrame, Zenon
<1>6. G \in Chains /\ Len(G) = Len(H) + 1 /\ G[Len(H) + 1] = r /\ Agree(G, H, Len(H)) BY <1>5, OneMore, Zenon
<1>7. Disk(G, first)' BY <1>1, <1>4, DiskGrows, Zenon DEF outside
<1>8. /\ group' \in Groups /\ group'.members = group.members /\ group'.frames = group.frames
      /\ IF d + 1 < Len(group.frames) THEN group'.step = "write" /\ group'.done = d + 1
         ELSE group'.step = "sync" /\ group'.done = 0
  <2>1. group \in Groups /\ "sync" \in Steps BY Zenon DEF Types, Steps
  <2>2. d + 1 \in Nat /\ 0 \in Nat BY <1>3
  <2>. QED BY <1>1, <2>1, <2>2, Zenon DEF Groups
<1>9. group'.step \in {"write", "sync"} /\ Committing' BY <1>8, Zenon DEF Committing
<1>10. Written = d /\ Passed = 0 /\ Written' = d + 1 /\ Passed' = 0
  <2>1. Written = d /\ Passed = 0 BY <1>1, Zenon DEF Written, Passed
  <2>2. CASE d + 1 < Len(group.frames) BY <1>8, <2>1, <2>2, Zenon DEF Written, Passed
  <2>3. CASE ~(d + 1 < Len(group.frames))
    <3>1. Len(group.frames) = d + 1 BY <1>3, <2>3
    <3>. QED BY <1>8, <2>1, <2>3, <3>1, Zenon DEF Written, Passed
  <2>. QED BY <2>2, <2>3, Zenon
<1>11. Locks' /\ Places(H)' BY <1>1, <1>2, <1>8, <1>9, GroupMoves, Zenon DEF outside, proc
<1>12. Types'
  <2>1. unsynced' \in Nat BY <1>1, <1>3, <1>5
  <2>. QED BY <1>1, <1>8, <2>1, Zenon DEF Types, head, proc, outside
<1>. HIDE DEF G
<1>13. Places(G)'
  <2>1. Framed(r) BY <1>3, <1>4, Zenon DEF Framed
  <2>2. r \in Requests /\ status[r] \in {"queued", "rejected", "acked"} /\ ~In(r, queue)
    BY <2>1, FramedApart, Zenon
  <2>3. Len(H) \in Nat BY DEF Chains
  <2>4. \A i \in 1..Len(G) : In(G[i], H) \/ G[i] = r
    <3>1. \A i \in 1..Len(G) : i \in 1..Len(H) \/ i = Len(H) + 1 BY <1>6, <2>3
    <3>2. \A i \in 1..Len(H) : G[i] = H[i] BY <1>6, Zenon DEF Agree
    <3>. QED BY <1>6, <3>1, <3>2, Zenon DEF In
  <2>5. \A x : In(x, G) => In(x, H) \/ x = r BY <2>4, Zenon DEF In
  <2>6. status' = status /\ queue' = queue BY <1>1, Zenon DEF outside
  <2>7. \A i \in 1..Len(G) : status'[G[i]] \in {"queued", "rejected", "acked"}
    <3>1. \A x : In(x, H) => status[x] \in {"queued", "rejected", "acked"} BY Zenon DEF In, Places
    <3>. QED BY <2>2, <2>4, <2>6, <3>1, Zenon
  <2>8. \A i \in 1..Len(queue') : ~In(queue'[i], G)
    <3>1. \A i \in 1..Len(queue) : ~In(queue[i], H) /\ queue[i] # r BY <2>2, Zenon DEF Places, In
    <3>. QED BY <2>5, <2>6, <3>1, Zenon
  <2>9. group'.step # "waiting" BY <1>9, Zenon
  <2>. QED BY <1>11, <2>7, <2>8, <2>9, Zenon DEF Places
<1>14. walSequence \in Nat /\ Len(H) \in Nat /\ first \in Nat /\ log \in Seq(Frames) /\ Len(log) \in Nat
  BY DiskNumbers, Zenon DEF Types, Disk, Image, Lays
<1>15. walSequence \in 0..Len(H) BY <1>3, <1>5, <1>14
<1>16. HashAt(G, walSequence) = HashAt(H, walSequence) /\ SubSeq(G, 1, walSequence) = SubSeq(H, 1, walSequence)
  BY <1>6, <1>15, SameBeginning, Zenon
<1>17. AtHead(G, first)'
  <2>1. /\ Len(log) = Len(H) + 1 - first /\ ~renamed
        /\ walHash = HashAt(H, walSequence) /\ applied = SubSeq(H, 1, walSequence) /\ Len(acked) <= walSequence
        /\ walOffset + liveSegmentFirstSequence = walSequence + 1
        /\ handle /\ liveSegmentFirstSequence = first + SealedFrames(sealed)
    BY <1>1, <1>3, Zenon DEF AtHead
  <2>2. Len(log') = Len(log) + 1 BY <1>1, <1>14
  <2>3. Len(log') = Len(G) + 1 - first /\ walSequence + (d + 1) - 0 = Len(G) /\ unsynced' = d + 1
    <3>. DEFINE h == Len(H)
                n == Len(log)
    <3>1. /\ h \in Nat /\ n \in Nat /\ first \in Nat /\ walSequence \in Nat /\ d \in Nat /\ n = h + 1 - first
          /\ walSequence + d = h /\ Len(G) = h + 1 /\ Len(log') = n + 1
      BY <1>3, <1>5, <1>6, <1>14, <2>1, <2>2, Zenon
    <3>. HIDE DEF h, n, d
    <3>2. Len(log') = Len(G) + 1 - first /\ walSequence + (d + 1) - 0 = Len(G) BY <3>1
    <3>. QED BY <1>1, <1>5, <3>2, Zenon
  <2>. QED BY <1>1, <1>9, <1>10, <1>16, <2>1, <2>3, Zenon DEF AtHead, head, proc, outside
<1>18. GroupFrames(G)'
  <2>1. /\ group'.frames # <<>> /\ group'.done < Len(group'.frames)
    <3>1. group.frames # <<>> BY <1>2, <1>3, Zenon DEF GroupFrames
    <3>2. group'.done < Len(group.frames) BY <1>3, <1>8
    <3>. QED BY <1>8, <3>1, <3>2, Zenon
  <2>2. group'.step \notin {"write", "apply"} => group'.done = 0 BY <1>8, Zenon
  <2>3. /\ \A i \in 1..Len(group.frames) :
             /\ group.frames[i].seq = walSequence - 0 + i
             /\ group.frames[i].prev = IF i = 1 THEN HashAt(H, walSequence - 0) ELSE group.frames[i - 1].id
        /\ \A i \in 1..d : group.frames[i].id = H[walSequence - 0 + i]
    BY <1>2, <1>3, <1>10, Zenon DEF GroupFrames
  <2>4. walSequence - 0 = walSequence /\ walSequence' = walSequence BY <1>1, <1>14 DEF head
  <2>5. \A i \in 1..Len(group'.frames) :
           /\ group'.frames[i].seq = walSequence' - Passed' + i
           /\ group'.frames[i].prev = IF i = 1 THEN HashAt(G, walSequence' - Passed') ELSE group'.frames[i - 1].id
    BY <1>8, <1>10, <1>16, <2>3, <2>4, Zenon
  <2>6. ASSUME NEW i \in 1..(d + 1) PROVE group.frames[i].id = G[walSequence - 0 + i]
    <3>1. CASE i \in 1..d
      <4>1. walSequence - 0 + i \in 1..Len(H) BY <1>3, <1>5, <1>14, <3>1
      <4>2. G[walSequence - 0 + i] = H[walSequence - 0 + i] BY <1>6, <4>1, Zenon DEF Agree
      <4>. QED BY <2>3, <3>1, <4>2, Zenon
    <3>2. CASE i = d + 1
      <4>1. walSequence + i = Len(H) + 1
        <5>1. walSequence \in Nat /\ d \in Nat /\ walSequence + d = Len(H) BY <1>3, <1>5, <1>14, Zenon
        <5>. HIDE DEF d
        <5>. QED BY <3>2, <5>1
      <4>. QED BY <1>4, <1>6, <2>4, <3>2, <4>1, Zenon
    <3>3. i \in 1..d \/ i = d + 1 BY <1>3
    <3>. QED BY <3>1, <3>2, <3>3, Zenon
  <2>7. \A i \in 1..Written' : group'.frames[i].id = G[walSequence' - Passed' + i]
    BY <1>8, <1>10, <2>4, <2>6, Zenon
  <2>. QED BY <2>1, <2>2, <2>5, <2>7, Zenon DEF GroupFrames
<1>19. Lists'
  <2>1. Listed' = Listed /\ Gone' = Gone BY <1>1, <1>9, Zenon DEF Listed, Gone, head
  <2>. QED BY <1>1, <1>3, <2>1, Zenon DEF Lists, head
<1>20. Prunes' BY <1>1, <1>3, <1>9, PrunesCommitting, Zenon DEF outside
<1>21. ~barrier'.active BY <1>1, <1>3, Zenon
<1>22. Process(G, first)' BY <1>17, <1>18, <1>19, <1>20, <1>21, Zenon DEF Process
<1>23. Holds(G, first)' BY <1>6, <1>7, <1>11, <1>12, <1>13, <1>22, Zenon
<1>. QED BY <1>1, <1>5, <1>23, Zenon DEF G, outside

\* The history that the files stand for is H.
LEMMA HistoryIs ==
  ASSUME NEW H, NEW first, Holds(H, first)
  PROVE  History(sealed, log) = H
<1>. /\ H \in Chains /\ Image(H, sealed, log, first) /\ Anchored(H, checkpoint) /\ first <= checkpoint.seq + 1
  BY Zenon DEF Holds, Disk
<1>. QED BY ReplayIs, Zenon DEF History

\* A beginning of H with one more request.
LEMMA BeginningGrows ==
  ASSUME NEW H \in Chains, NEW n \in Nat, n < Len(H)
  PROVE  /\ Append(SubSeq(H, 1, n), H[n + 1]) = SubSeq(H, 1, n + 1)
         /\ SubSeq(H, 1, n + 1) \in Chains /\ Len(SubSeq(H, 1, n + 1)) = n + 1
         /\ Prefix(SubSeq(H, 1, n + 1), H)
         /\ \A s \in Chains : Prefix(s, H) /\ Len(s) <= n => Prefix(s, SubSeq(H, 1, n + 1))
<1>1. H \in Seq(Requests) /\ Len(H) \in Nat BY DEF Chains
<1>. DEFINE a == SubSeq(H, 1, n)
            b == SubSeq(H, 1, n + 1)
<1>2. a \in Seq(Requests) /\ Len(a) = n /\ \A i \in 1..n : a[i] = H[i]
  <2>1. 1 \in Nat /\ 1 <= 1 /\ 1 <= n + 1 /\ n <= Len(H) BY <1>1
  <2>. a \in Seq(Requests) /\ Len(a) = n + 1 - 1 /\ \A i \in 1..(n + 1 - 1) : a[i] = H[1 + i - 1]
    BY <1>1, <2>1, Piece
  <2>. n + 1 - 1 = n /\ \A i \in 1..n : 1 + i - 1 = i OBVIOUS
  <2>. QED BY Zenon
<1>. b \in Seq(Requests) /\ Len(b) = n + 1 /\ \A i \in 1..(n + 1) : b[i] = H[i]
  <2>1. 1 \in Nat /\ n + 1 \in Nat /\ 1 <= 1 /\ 1 <= (n + 1) + 1 /\ n + 1 <= Len(H) BY <1>1
  <2>. b \in Seq(Requests) /\ Len(b) = (n + 1) + 1 - 1 /\ \A i \in 1..((n + 1) + 1 - 1) : b[i] = H[1 + i - 1]
    BY <1>1, <2>1, Piece
  <2>. (n + 1) + 1 - 1 = n + 1 /\ \A i \in 1..(n + 1) : 1 + i - 1 = i OBVIOUS
  <2>. QED BY Zenon
<1>. HIDE DEF a, b
<1>4. n + 1 \in 1..Len(H) /\ H[n + 1] \in Requests BY <1>1
<1>5. Append(a, H[n + 1]) = b
  <2>. DEFINE c == Append(a, H[n + 1])
  <2>. c \in Seq(Requests) /\ Len(c) = n + 1 /\ c[n + 1] = H[n + 1] /\ \A i \in 1..n : c[i] = a[i]
    BY <1>2, <1>4
  <2>. HIDE DEF c
  <2>2. \A i \in 1..(n + 1) : i \in 1..n \/ i = n + 1 OBVIOUS
  <2>. \A i \in 1..(n + 1) : c[i] = b[i] BY <1>2, <2>2, Zenon
  <2>. c = b BY SameSeq, Zenon
  <2>. QED BY Zenon DEF c
<1>6. Prefix(b, H)
  <2>. Len(b) <= Len(H) BY <1>1
  <2>. QED BY Zenon DEF Prefix
<1>. ASSUME NEW s \in Chains, Prefix(s, H), Len(s) <= n PROVE Prefix(s, b)
  <2>1. Len(s) \in Nat BY DEF Chains
  <2>. Len(s) <= Len(b) /\ \A i \in 1..Len(s) : i \in 1..(n + 1) BY <2>1
  <2>. \A i \in 1..Len(s) : s[i] = H[i] BY Zenon DEF Prefix
  <2>. QED BY Zenon DEF Prefix
<1>. QED BY <1>5, <1>6, Zenon DEF a, b, Chains

\* The frame that is applied next is the one after the head.
LEMMA AppliedNext ==
  ASSUME NEW H, NEW first, Holds(H, first), group.step = "apply"
  PROVE  /\ group.frames[group.done + 1].seq = walSequence + 1
         /\ group.frames[group.done + 1].id = H[walSequence + 1]
         /\ walSequence \in Nat /\ walSequence < Len(H)
         /\ walSequence + Len(group.frames) - group.done = Len(H)
         /\ Len(log) = Len(H) + 1 - first /\ unsynced = 0
<1>. USE DEF Holds
<1>1. Committing BY Zenon DEF Committing
<1>2. /\ AtHead(H, first) /\ GroupFrames(H) /\ Len(group.frames) \in Nat /\ group.done \in Nat
      /\ group.done < Len(group.frames) /\ group.done + 1 \in 1..Len(group.frames)
  BY <1>1, CommittingIs, Zenon
<1>. DEFINE d == group.done
            f == Len(group.frames)
            x == group.frames[d + 1]
<1>3. Written = f /\ Passed = d BY Zenon DEF Written, Passed
<1>4. walSequence + f - d = Len(H) /\ Len(log) = Len(H) + 1 - first /\ unsynced = 0
  BY <1>2, <1>3, Zenon DEF AtHead
<1>5. walSequence \in Nat /\ Len(H) \in Nat BY DiskNumbers, Zenon DEF Types
<1>6. x.seq = walSequence - d + (d + 1) /\ x.id = H[walSequence - d + (d + 1)]
  BY <1>1, <1>2, <1>3, Zenon DEF GroupFrames
<1>. HIDE DEF d, f, x
<1>7. d \in Nat /\ f \in Nat /\ d < f BY <1>2, Zenon DEF d, f
<1>. walSequence < Len(H) /\ walSequence - d + (d + 1) = walSequence + 1 BY <1>4, <1>5, <1>7
<1>. x.seq = walSequence + 1 /\ x.id = H[walSequence + 1] BY <1>6, Zenon
<1>. QED BY <1>4, <1>5, Zenon DEF x, d, f

\* The head and the applied state move over one frame, whose append resolves.
LEMMA ApplyFrameStep ==
  ASSUME NEW H, NEW first, Holds(H, first), ApplyFrame
  PROVE  Holds(H, first)' /\ Prefix(acked, acked') /\ Prefix(acked', H)
<1>. USE DEF Holds
<1>. DEFINE frame == group.frames[group.done + 1]
            d == group.done
            ws == walSequence
<1>1. /\ group.step = "apply" /\ walSequence' = frame.seq /\ walHash' = frame.id
      /\ walOffset' = walOffset + 1 /\ UNCHANGED <<liveSegmentFirstSequence, sealedWalSegments>>
      /\ applied' = Append(applied, frame.id) /\ status' = [status EXCEPT ![frame.id] = "acked"]
      /\ acked' = SubSeq(History(sealed, log), 1, frame.seq)
      /\ IF d + 1 < Len(group.frames)
         THEN group' = [group EXCEPT !.done = d + 1] /\ UNCHANGED tickets ELSE EndGroup
      /\ UNCHANGED <<disk, proc, queue, barrier, prune, checkpoint>>
  BY Zenon DEF ApplyFrame, Advance
<1>2. Committing BY <1>1, Zenon DEF Committing
<1>3. /\ Usable /\ Top(tickets, "commit") /\ tickets \in Tickets /\ ~barrier.active /\ ~Pruning
      /\ AtHead(H, first) /\ GroupFrames(H) /\ Lists /\ Prunes
      /\ Len(group.frames) \in Nat /\ d \in Nat /\ d < Len(group.frames) /\ d + 1 \in 1..Len(group.frames)
      /\ frame.id \in Requests
  BY <1>2, CommittingIs, Zenon
<1>4. /\ frame.seq = ws + 1 /\ frame.id = H[ws + 1] /\ ws \in Nat /\ ws < Len(H)
      /\ ws + Len(group.frames) - d = Len(H) /\ Len(log) = Len(H) + 1 - first /\ unsynced = 0
  BY <1>1, AppliedNext, Zenon
<1>5. History(sealed, log) = H BY HistoryIs, Zenon
<1>6. /\ Append(SubSeq(H, 1, ws), H[ws + 1]) = SubSeq(H, 1, ws + 1)
      /\ SubSeq(H, 1, ws + 1) \in Chains /\ Len(SubSeq(H, 1, ws + 1)) = ws + 1
      /\ Prefix(SubSeq(H, 1, ws + 1), H)
      /\ \A s \in Chains : Prefix(s, H) /\ Len(s) <= ws => Prefix(s, SubSeq(H, 1, ws + 1))
  BY <1>4, BeginningGrows, Zenon
<1>7. /\ Written = Len(group.frames) /\ Passed = d BY <1>1, Zenon DEF Written, Passed
<1>8. /\ applied = SubSeq(H, 1, ws) /\ Len(acked) <= ws /\ walOffset + liveSegmentFirstSequence = ws + 1
      /\ ~renamed /\ handle /\ liveSegmentFirstSequence = first + SealedFrames(sealed)
  BY <1>1, <1>3, Zenon DEF AtHead
<1>9. /\ walSequence' = ws + 1 /\ walHash' = H[ws + 1] /\ applied' = SubSeq(H, 1, ws + 1)
      /\ acked' = SubSeq(H, 1, ws + 1)
  BY <1>1, <1>4, <1>5, <1>6, <1>8, Zenon
<1>10. Prefix(acked, acked') /\ Prefix(acked', H) /\ acked' \in Chains /\ Len(acked') = ws + 1
  <2>1. acked \in Chains /\ Prefix(acked, H) BY Zenon DEF Types, Disk
  <2>. QED BY <1>6, <1>8, <1>9, <2>1, Zenon
<1>11. HashAt(H, ws + 1) = H[ws + 1] BY <1>4 DEF HashAt
<1>12. \/ /\ d + 1 < Len(group.frames) /\ tickets' = tickets /\ group' \in Groups /\ group'.step = "apply"
          /\ group'.members = group.members /\ group'.frames = group.frames /\ group'.done = d + 1
       \/ d + 1 = Len(group.frames) /\ tickets' = Tail(tickets) /\ group' = NoGroup
  <2>1. CASE d + 1 < Len(group.frames)
    <3>1. group \in Groups /\ d + 1 \in Nat BY <1>3 DEF Types
    <3>2. group' = [group EXCEPT !.done = d + 1] /\ tickets' = tickets BY <1>1, <2>1, Zenon
    <3>. QED BY <1>1, <2>1, <3>1, <3>2, Zenon DEF Groups
  <2>2. CASE ~(d + 1 < Len(group.frames))
    <3>1. d + 1 = Len(group.frames) BY <1>3, <2>2
    <3>. QED BY <1>1, <2>2, <3>1, Zenon DEF EndGroup
  <2>. QED BY <2>1, <2>2, Zenon
<1>13. group' \in Groups BY <1>12, NoGroupType, Zenon
<1>14. tickets' \in Tickets /\ \A j : j # "commit" /\ In(j, tickets) => In(j, tickets')
  <2>1. Tail(tickets) \in Tickets /\ \A j : j # "commit" /\ In(j, tickets) => In(j, Tail(tickets))
    BY <1>3, Released, Zenon
  <2>. QED BY <1>3, <1>12, <2>1, Zenon
<1>15. Types'
  <2>1. status' \in [Requests -> Statuses] BY <1>1, <1>3, Zenon DEF Types, Statuses
  <2>2. walSequence' \in Nat /\ walOffset' \in Nat BY <1>1, <1>4, <1>9 DEF Types
  <2>3. walHash' \in Hashes BY <1>1, <1>3, Zenon DEF Hashes
  <2>. QED BY <1>1, <1>6, <1>9, <1>10, <1>13, <1>14, <2>1, <2>2, <2>3, Zenon DEF Types, disk, proc
<1>16. Locks'
  <2>1. Usable' /\ mode' = "open" /\ ~Pruning' /\ ~barrier'.active BY <1>1, <1>3, Zenon DEF Usable, Pruning, proc
  <2>2. prune'.step # "none" => In("prune", tickets') BY <1>1, <1>14, Zenon DEF Locks
  <2>3. CASE tickets' = tickets /\ group'.step = "apply"
    <3>1. Top(tickets', "commit") /\ In("commit", tickets') BY <1>2, <1>3, <2>3, Zenon DEF Locks, Committing
    <3>. QED BY <2>1, <2>2, <2>3, <3>1, Zenon DEF Locks
  <2>4. CASE group' = NoGroup
    <3>1. ~Committing' BY <2>4, NoGroupType, Zenon DEF Committing
    <3>. QED BY <2>1, <2>2, <2>4, <3>1, NoGroupType, Zenon DEF Locks
  <2>. QED BY <1>12, <2>3, <2>4, Zenon
<1>17. Places(H)'
  <2>1. Framed(frame.id) BY <1>3, Zenon DEF Framed
  <2>2. ~In(frame.id, queue) BY <2>1, FramedApart, Zenon
  <2>3. status \in [Requests -> Statuses] BY Zenon DEF Types
  <2>4. \A r \in Requests : status'[r] = "acked" \/ status'[r] = status[r] BY <1>1, <1>3, <2>3, Zenon
  <2>5. \A r \in Requests : r # frame.id => status'[r] = status[r] BY <1>1, <1>3, <2>3, Zenon
  <2>6. \A i \in 1..Len(H) : status'[H[i]] \in {"queued", "rejected", "acked"}
    <3>1. \A i \in 1..Len(H) : H[i] \in Requests BY DEF Chains
    <3>. QED BY <2>4, <3>1, Zenon DEF Places
  <2>7. \A i \in 1..Len(queue) : status'[queue[i]] = "queued"
    <3>1. \A i \in 1..Len(queue) : queue[i] \in Requests /\ queue[i] # frame.id BY <2>2 DEF Types, Chains, In
    <3>. QED BY <2>5, <3>1, Zenon DEF Places
  <2>8. queue' = queue BY <1>1, Zenon
  <2>9. CASE group'.step = "apply" /\ group'.members = group.members /\ group'.frames = group.frames
    <3>1. \A i \in 1..Len(group.members) : group.members[i] \in Requests BY DEF Types, Groups, Chains
    <3>2. \A i \in 1..Len(group.members) : status'[group.members[i]] # "new" BY <2>4, <3>1, Zenon DEF Places
    <3>3. \A i \in 1..Len(group.frames) : status'[group.frames[i].id] \in {"queued", "rejected", "acked"}
      BY <2>4, Zenon DEF Places
    <3>4. group'.step # "waiting" BY <2>9, Zenon
    <3>. QED BY <2>6, <2>7, <2>8, <2>9, <3>2, <3>3, <3>4, Zenon DEF Places
  <2>10. CASE group' = NoGroup
    <3>1. group'.members = <<>> /\ group'.frames = <<>> BY <2>10, NoGroupType, Zenon
    <3>2. (\A i \in 1..Len(group'.members) : FALSE) /\ (\A i \in 1..Len(group'.frames) : FALSE) BY <3>1
    <3>3. \A i \in 1..Len(queue') : ~In(queue'[i], H) /\ ~In(queue'[i], group'.members)
      BY <2>8, <3>1, Nobody, Zenon DEF Places
    <3>. QED BY <2>6, <2>7, <2>8, <3>2, <3>3, Zenon DEF Places
  <2>. QED BY <1>12, <2>9, <2>10, Zenon
<1>. HIDE DEF frame
<1>18. Len(H) \in Nat /\ first \in Nat /\ first >= 1 /\ walOffset \in Nat /\ liveSegmentFirstSequence \in Nat
  BY DiskNumbers, Zenon DEF Types
<1>19. Disk(H, first)'
  <2>1. Kept(first)' = first - 1 + Len(log) - unsynced /\ Kept(first) = first - 1 + Len(log) - unsynced
    BY <1>1, Zenon DEF Kept, disk
  <2>2. Len(acked') <= first - 1 + Len(log) - unsynced
    <3>. DEFINE h == Len(H)
                n == Len(log)
    <3>1. h \in Nat /\ first \in Nat /\ ws \in Nat /\ ws < h /\ n = h + 1 - first /\ unsynced = 0
      BY <1>4, <1>18, Zenon
    <3>. HIDE DEF h, n, ws
    <3>2. ws + 1 <= first - 1 + n - unsynced BY <3>1
    <3>. QED BY <1>10, <3>2, Zenon DEF n
  <2>. QED BY <1>1, <1>10, <2>1, <2>2, Zenon DEF Disk, disk
<1>20. \/ /\ group'.step = "apply" /\ Written' = Len(group.frames) /\ Passed' = d + 1
       \/ /\ group'.step = "none" /\ Written' = 0 /\ Passed' = 0 /\ d + 1 = Len(group.frames)
  BY <1>12, NoGroupType, Zenon DEF Written, Passed
<1>21. AtHead(H, first)'
  <2>1. walSequence' + Written' - Passed' = Len(H)
    <3>. DEFINE h == Len(H)
                f == Len(group.frames)
    <3>1. /\ h \in Nat /\ f \in Nat /\ d \in Nat /\ ws \in Nat /\ ws + f - d = h /\ walSequence' = ws + 1
      BY <1>3, <1>4, <1>9, <1>18, Zenon
    <3>2. (Written' = f /\ Passed' = d + 1) \/ (Written' = 0 /\ Passed' = 0 /\ d + 1 = f) BY <1>20, Zenon
    <3>. HIDE DEF h, f, d, ws
    <3>3. walSequence' + Written' - Passed' = h BY <3>1, <3>2
    <3>. QED BY <3>3, Zenon DEF h
  <2>2. walOffset' + liveSegmentFirstSequence' = walSequence' + 1 BY <1>1, <1>4, <1>8, <1>9, <1>18
  <2>3. group'.step \notin {"write", "sync"} /\ group'.step \notin {"sealsync", "create"} BY <1>20, Zenon
  <2>4. Len(acked') <= walSequence' BY <1>4, <1>9, <1>10
  <2>5. /\ Len(log') = Len(H) + 1 - first /\ unsynced' = 0 /\ ~renamed' /\ handle'
        /\ liveSegmentFirstSequence' = first + SealedFrames(sealed')
    BY <1>1, <1>4, <1>8, Zenon DEF disk, proc
  <2>6. walHash' = HashAt(H, walSequence') /\ applied' = SubSeq(H, 1, walSequence') BY <1>9, <1>11, Zenon
  <2>. QED BY <2>1, <2>2, <2>3, <2>4, <2>5, <2>6, Zenon DEF AtHead
<1>22. GroupFrames(H)'
  <2>1. CASE group'.step = "none" BY <2>1, Zenon DEF GroupFrames, Committing
  <2>2. CASE group'.step = "apply"
    <3>1. /\ d + 1 < Len(group.frames) /\ group'.frames = group.frames /\ group'.done = d + 1
          /\ Written' = Len(group.frames) /\ Passed' = d + 1
      BY <1>12, <1>20, <2>2, NoGroupType, Zenon
    <3>2. walSequence' - Passed' = ws - d BY <1>3, <1>4, <1>9, <3>1
    <3>3. /\ group.frames # <<>>
          /\ \A i \in 1..Len(group.frames) :
               /\ group.frames[i].seq = ws - d + i
               /\ group.frames[i].prev = IF i = 1 THEN HashAt(H, ws - d) ELSE group.frames[i - 1].id
          /\ \A i \in 1..Len(group.frames) : group.frames[i].id = H[ws - d + i]
      BY <1>2, <1>3, <1>7, Zenon DEF GroupFrames
    <3>. QED BY <2>2, <3>1, <3>2, <3>3, Zenon DEF GroupFrames
  <2>. QED BY <1>20, <2>1, <2>2, Zenon
<1>23. Lists'
  <2>1. group'.step \notin {"sealsync", "create"} /\ group.step \notin {"sealsync", "create"} BY <1>1, <1>20, Zenon
  <2>2. Listed' = Listed /\ Gone' = Gone BY <1>1, <2>1, Zenon DEF Listed, Gone, disk
  <2>. QED BY <1>1, <1>3, <2>2, Zenon DEF Lists, disk
<1>24. Prunes'
  <2>1. walOffset' > 0 BY <1>1, <1>18
  <2>2. ~Pruning' /\ prune' = prune /\ checkpoint' = checkpoint BY <1>1, <1>3, Zenon DEF Pruning
  <2>. QED BY <1>3, <2>1, <2>2, Zenon DEF Prunes
<1>25. ~barrier'.active BY <1>1, <1>3, Zenon
<1>26. Process(H, first)' BY <1>21, <1>22, <1>23, <1>24, <1>25, Zenon DEF Process
<1>. QED BY <1>10, <1>15, <1>16, <1>17, <1>19, <1>26, Zenon

\* Recovery reads back the whole history.
LEMMA RecoverStep ==
  ASSUME NEW H, NEW first, Holds(H, first), Recover
  PROVE  Holds(H, first)' /\ acked' = acked
<1>. USE DEF Holds
<1>. DEFINE whole == Whole(sealed, log)
            last == Len(whole)
<1>0. Image(H, sealed, log, first) /\ Anchored(H, checkpoint) /\ first <= checkpoint.seq + 1 BY Zenon DEF Disk
<1>1. FirstRetained(sealed, log) = first BY <1>0, FirstIs, Zenon
<1>2. Recoverable(sealed, log, checkpoint) /\ Chained(whole, first, checkpoint) BY <1>0, RecoverableIs, Zenon
<1>3. checkpoint.covered \o Ids(Replayed(whole, checkpoint)) = H BY <1>0, ReplayIs, Zenon
<1>4. /\ mode = "opening" /\ log' = whole
      /\ UNCHANGED <<sealed, unsynced, renamed, unlinked, poisoned, work, checkpoint, status, acked>>
      /\ IF ~closing
         THEN /\ mode' = "open" /\ walSequence' = (IF last = 0 THEN 0 ELSE whole[last].seq)
              /\ walHash' = (IF last = 0 THEN Genesis ELSE whole[last].id)
              /\ walOffset' = last - SealedFrames(sealed)
              /\ liveSegmentFirstSequence' = first + SealedFrames(sealed)
              /\ sealedWalSegments' = sealed /\ applied' = H
              /\ UNCHANGED <<handle, closing>>
         ELSE /\ mode' = "closed" /\ handle' = FALSE /\ closing' = FALSE
              /\ UNCHANGED <<head, applied>>
  BY <1>1, <1>2, <1>3, Zenon DEF Recover
<1>5. /\ handle /\ tickets = <<>> /\ queue = <<>> /\ unsynced = 0 /\ ~renamed /\ unlinked = <<>> /\ ~poisoned
  BY <1>4, Zenon DEF Locks
<1>6. ~Committing /\ ~Pruning /\ ~barrier.active /\ group.step = "none" /\ prune.step = "none"
  BY <1>5, Nobody, Zenon DEF Locks, Committing, Pruning
<1>7. /\ whole \in Seq(Frames) /\ last = Len(H) + 1 - first
      /\ \A i \in 1..(Len(H) + 1 - first) : whole[i] = FrameAt(H, first + i - 1)
      /\ Image(H, sealed, whole, first)
  <2>. /\ Whole(sealed, log) \in Seq(Frames) /\ Len(Whole(sealed, log)) = Len(H) + 1 - first
       /\ \A i \in 1..(Len(H) + 1 - first) : Whole(sealed, log)[i] = FrameAt(H, first + i - 1)
       /\ Len(log) = Len(H) + 1 - first => Whole(sealed, log) = log
       /\ Image(H, sealed, Whole(sealed, log), first)
    <3>. H \in Chains /\ Image(H, sealed, log, first) BY <1>0, Zenon
    <3>. HIDE DEF Holds
    <3>. QED BY WholeIs, Zenon
  <2>. QED BY Zenon
<1>8. /\ Len(H) \in Nat /\ first \in Nat /\ first >= 1 /\ first <= Len(H) + 1
      /\ SealedFrames(sealed) \in Nat /\ SealedFrames(sealed) <= Len(H) + 1 - first
  BY <1>0, ImageShape, Zenon
<1>. HIDE DEF whole, last
<1>9. last \in Nat /\ (sealed # <<>> => last >= 1) /\ (sealed = <<>> => first = 1 \/ last >= 1)
  <2>1. last \in Nat BY <1>7, <1>8
  <2>2. ASSUME sealed # <<>> PROVE last >= 1
    <3>. SealedFrames(sealed) >= 1
      <4>. SealedFrames(sealed) >= Size(sealed[1]) /\ Size(sealed[1]) >= 1 /\ Size(sealed[1]) \in Nat
        BY <1>0, <2>2, SealedSize, Zenon DEF Image
      <4>. QED BY <1>8
    <3>. QED BY <1>7, <1>8
  <2>. sealed = <<>> => first = 1 \/ first <= Len(H) BY <1>0, Zenon DEF Image
  <2>. first <= Len(H) => last >= 1 BY <1>7, <1>8
  <2>. QED BY <2>1, <2>2, Zenon
<1>10. Locks'
  <2>1. mode' # "opening" BY <1>4, Zenon
  <2>. group' = group /\ prune' = prune /\ barrier' = barrier /\ tickets' = tickets /\ poisoned' = poisoned
    BY <1>4, Zenon DEF work
  <2>. ~Committing' /\ ~Pruning' BY <1>6, Zenon DEF Committing, Pruning
  <2>. QED BY <1>5, <1>6, <2>1, Zenon DEF Locks
<1>11. Places(H)' BY <1>4, PlacesStay, Zenon DEF work
<1>12. Disk(H, first)'
  <2>1. Kept(first)' = Len(H)
    <3>. Kept(first)' = first - 1 + last - 0 BY <1>4, <1>5, Zenon DEF Kept, last
    <3>. QED BY <1>7, <1>8
  <2>2. /\ checkpoint.seq <= Len(H) /\ Len(acked) <= Len(H) BY DiskNumbers, Zenon
  <2>. 0 <= last - SealedFrames(sealed) /\ (last >= 1 => 0 < last) BY <1>7, <1>8, <1>9
  <2>. sealed = <<>> /\ first > 1 => 0 < last BY <1>8, <1>9
  <2>. Len(log') = last /\ unsynced' = 0 /\ ~renamed' /\ unlinked' = <<>> /\ sealed' = sealed
       /\ checkpoint' = checkpoint /\ acked' = acked
    BY <1>4, <1>5, Zenon DEF last
  <2>. QED BY <1>0, <1>4, <1>7, <2>1, <2>2, Zenon DEF Disk
<1>13. CASE closing
  <2>. mode' = "closed" /\ handle' = FALSE /\ closing' = FALSE /\ UNCHANGED <<head, applied>> BY <1>4, <1>13, Zenon
  <2>2. handle' \in BOOLEAN /\ closing' \in BOOLEAN BY Zenon
  <2>. Types' BY <1>4, <2>2, Zenon DEF Types, head, work
  <2>. Process(H, first)' BY Zenon DEF Process, Usable
  <2>. QED BY <1>4, <1>10, <1>11, <1>12, Zenon
<1>14. CASE ~closing
  <2>1. /\ mode' = "open" /\ walSequence' = (IF last = 0 THEN 0 ELSE whole[last].seq)
        /\ walHash' = (IF last = 0 THEN Genesis ELSE whole[last].id)
        /\ walOffset' = last - SealedFrames(sealed)
        /\ liveSegmentFirstSequence' = first + SealedFrames(sealed)
        /\ sealedWalSegments' = sealed /\ applied' = H /\ UNCHANGED <<handle, closing>>
    BY <1>4, <1>14, Zenon
  <2>2. walSequence' = Len(H) /\ walHash' = HashAt(H, Len(H))
    <3>. CASE last = 0
      <4>. first = 1 BY <1>9
      <4>. Len(H) = 0 BY <1>7, <1>8
      <4>. QED BY <2>1, Zenon DEF HashAt
    <3>. CASE last # 0
      <4>1. last \in 1..(Len(H) + 1 - first) /\ first + last - 1 = Len(H) BY <1>7, <1>8, <1>9
      <4>. whole[last] = FrameAt(H, Len(H)) BY <1>7, <4>1, Zenon
      <4>. Len(H) # 0 BY <1>7, <1>8, <1>9
      <4>. QED BY <2>1, FrameFields DEF HashAt
    <3>. QED BY Zenon
  <2>3. Types'
    <3>1. walHash' \in Hashes BY <1>8, <2>2, AtPlace DEF Hashes
    <3>. walSequence' \in Nat /\ walOffset' \in Nat /\ liveSegmentFirstSequence' \in Nat
      BY <1>7, <1>8, <1>9, <2>1, <2>2
    <3>. sealedWalSegments' \in SegmentLists BY <1>0, <2>1, Zenon DEF Image, Ranges, SegmentLists
    <3>. QED BY <1>4, <2>1, <3>1, Zenon DEF Types, work
  <2>4. group' = group /\ prune' = prune /\ barrier' = barrier BY <1>4, Zenon DEF work
  <2>5. Written' = 0 /\ Passed' = 0 BY <1>6, <2>4, Zenon DEF Written, Passed
  <2>6. AtHead(H, first)'
    <3>1. /\ Len(log') = Len(H) + 1 - first /\ walSequence' + Written' - Passed' = Len(H)
      BY <1>4, <1>7, <1>8, <2>2, <2>5 DEF last
    <3>2. H = SubSeq(H, 1, Len(H))
      <4>1. H \in Seq(Requests) BY Zenon DEF Chains
      <4>. DEFINE G == SubSeq(H, 1, Len(H))
      <4>2. 1 \in Nat /\ 1 <= 1 /\ 1 <= Len(H) + 1 /\ Len(H) <= Len(H) BY <1>8
      <4>3. G \in Seq(Requests) /\ Len(G) = Len(H) + 1 - 1 /\ \A i \in 1..(Len(H) + 1 - 1) : G[i] = H[1 + i - 1]
        BY <1>8, <4>1, <4>2, Piece
      <4>. Len(H) + 1 - 1 = Len(H) /\ \A i \in 1..Len(H) : 1 + i - 1 = i BY <1>8
      <4>. HIDE DEF G
      <4>. G = H BY <4>1, <4>3, SameSeq, Zenon
      <4>. QED BY Zenon DEF G
    <3>3. walOffset' + liveSegmentFirstSequence' = walSequence' + 1
      <4>. DEFINE size == SealedFrames(sealed)
      <4>1. size \in Nat BY <1>8, Zenon
      <4>. walOffset' = last - size /\ liveSegmentFirstSequence' = first + size BY <2>1, Zenon
      <4>. HIDE DEF size
      <4>. last - size + (first + size) = Len(H) + 1 BY <1>7, <1>8, <1>9, <4>1
      <4>. QED BY <2>2, Zenon
    <3>. Len(acked) <= Len(H) BY DiskNumbers, Zenon
    <3>. group'.step = "none" /\ unsynced' = 0 /\ ~renamed' /\ handle' /\ sealed' = sealed /\ acked' = acked
      BY <1>4, <1>5, <1>6, <2>1, <2>4, Zenon
    <3>. QED BY <2>1, <2>2, <3>1, <3>2, <3>3, Zenon DEF AtHead
  <2>7. GroupFrames(H)' BY <1>6, <2>4, Zenon DEF GroupFrames, Committing
  <2>8. Lists'
    <3>1. Ranges(sealed) /\ Len(sealed) \in Nat BY <1>0 DEF Image, Ranges
    <3>2. Listed' = sealed /\ sealed' = sealed BY <1>4, <1>6, <2>1, <2>4, Zenon DEF Listed
    <3>3. Gone' = 0 BY <3>1, <3>2 DEF Gone
    <3>4. \A i \in 1..Len(sealed) : 0 + i = i BY <3>1
    <3>. sealed # <<>> => sealed[Len(sealed)].last + 1 = liveSegmentFirstSequence'
      <4>. SUFFICES ASSUME sealed # <<>> PROVE sealed[Len(sealed)].last + 1 = liveSegmentFirstSequence'
        BY Zenon
      <4>. DEFINE x == sealed[Len(sealed)].last
      <4>1. SealedFrames(sealed) = x + 1 - first BY <1>0, ImageShape
      <4>. x \in Nat BY <3>1, SealedSize, Zenon DEF Segments
      <4>. HIDE DEF x
      <4>. first + SealedFrames(sealed) = x + 1 BY <1>8, <4>1
      <4>. QED BY <2>1, Zenon DEF x
    <3>. unlinked' = <<>> BY <1>4, <1>5, Zenon
    <3>. QED BY <2>1, <3>1, <3>2, <3>3, <3>4, Zenon DEF Lists
  <2>9. Prunes' BY <1>6, <2>4, Zenon DEF Prunes, Pruning
  <2>. ~barrier'.active BY <1>6, <2>4, Zenon
  <2>. Process(H, first)' BY <2>6, <2>7, <2>8, <2>9, Zenon DEF Process
  <2>. QED BY <1>4, <1>10, <1>11, <1>12, <2>3, Zenon
<1>. QED BY <1>13, <1>14, Zenon

\* A crash leaves the files of a beginning of the history, with all that was
\* acknowledged.
LEMMA CrashStep ==
  ASSUME NEW H, NEW first, Holds(H, first), Crash
  PROVE  \E G, a : Holds(G, a)' /\ acked' = acked /\ Prefix(G, H)
<1>. USE DEF Holds
<1>1. PICK f \in CrashFiles : sealed' = f.sealed /\ log' = f.log BY Zenon DEF Crash
<1>2. /\ unsynced' = 0 /\ renamed' = FALSE /\ unlinked' = <<>>
      /\ mode' = "closed" /\ handle' = FALSE /\ closing' = FALSE /\ poisoned' = FALSE
      /\ queue' = <<>> /\ tickets' = <<>> /\ group' = NoGroup /\ barrier' = NoBarrier /\ prune' = NoPrune
      /\ status' = [r \in Requests |-> IF status[r] = "queued" THEN "rejected" ELSE status[r]]
      /\ UNCHANGED <<head, checkpoint, applied, acked>>
  BY Zenon DEF Crash
<1>3. PICK G, a : /\ Remains(G, H) /\ Image(G, f.sealed, f.log, a) /\ a <= checkpoint.seq + 1
                  /\ Anchored(G, checkpoint)
  BY CrashIs, Zenon
<1>4. /\ G \in Chains /\ Agree(G, H, Len(G)) /\ checkpoint.seq <= Len(G) /\ Len(acked) <= Len(G)
  BY <1>3, Zenon DEF Remains
<1>5. Image(G, sealed', log', a) BY <1>1, <1>3, Zenon
<1>6. Prefix(G, H)
  <2>. Len(G) <= Len(H) /\ \A i \in 1..Len(G) : G[i] = H[i] BY <1>4, Zenon DEF Agree
  <2>. QED BY Zenon DEF Prefix
<1>7. /\ Len(G) \in Nat /\ a \in Nat /\ a >= 1 /\ a <= Len(G) + 1 /\ Len(log') \in Nat
      /\ Len(log') \in {Len(G) + 1 - a, Len(G) + 2 - a}
      /\ SealedFrames(sealed') \in Nat /\ SealedFrames(sealed') <= Len(G) + 1 - a
  BY <1>4, <1>5, ImageShape, Zenon
<1>8. Len(log') >= Len(G) + 1 - a
  <2>. Len(log') = Len(G) + 1 - a \/ Len(log') = Len(G) + 2 - a BY <1>7, Zenon
  <2>. Len(G) \in Nat /\ a \in Nat BY <1>7, Zenon
  <2>. QED OBVIOUS
<1>9. /\ Len(G) \in Nat /\ a \in Nat /\ a >= 1 /\ a <= Len(G) + 1 /\ Len(log') \in Nat
      /\ SealedFrames(sealed') \in Nat /\ SealedFrames(sealed') <= Len(G) + 1 - a
  BY <1>7, Zenon
<1>10. Disk(G, a)'
  <2>1. 0 <= Len(log') - SealedFrames(sealed') BY <1>8, <1>9
  <2>2. sealed' = <<>> /\ a > 1 => 0 < Len(log')
    <3>1. sealed' = <<>> => a = 1 \/ a <= Len(G) BY <1>5, Zenon DEF Image
    <3>. a > 1 /\ a <= Len(G) => 0 < Len(log') BY <1>8, <1>9
    <3>. a > 1 => a # 1 BY <1>9
    <3>. QED BY <3>1, Zenon
  <2>3. Kept(a)' = a - 1 + Len(log') - 0 BY <1>2, Zenon DEF Kept
  <2>4. checkpoint.seq \in Nat /\ Len(acked) \in Nat BY DiskNumbers, Zenon
  <2>5. checkpoint.seq <= a - 1 + Len(log') - 0 /\ Len(acked) <= a - 1 + Len(log') - 0
    BY <1>4, <1>8, <1>9, <2>4
  <2>. Prefix(acked, G)
    <3>. acked \in Chains /\ Prefix(acked, H) BY Zenon DEF Types, Disk
    <3>. QED BY <1>4, PrefixToo, Zenon
  <2>. ~renamed' BY <1>2, Zenon
  <2>. QED BY <1>2, <1>3, <1>5, <2>1, <2>2, <2>3, <2>5, Zenon DEF Disk
<1>11. NoBarrier \in Barriers /\ ~NoBarrier.active BY NoAnchorType, Zenon DEF NoBarrier, Barriers
<1>12. Types'
  <2>1. status' \in [Requests -> Statuses] BY <1>2, Zenon DEF Types, Statuses
  <2>. queue' \in Chains /\ tickets' \in Tickets /\ unlinked' \in Removals
    BY <1>2 DEF Chains, Tickets, Removals
  <2>. handle' \in BOOLEAN /\ closing' \in BOOLEAN /\ poisoned' \in BOOLEAN /\ renamed' \in BOOLEAN BY <1>2, Zenon
  <2>. QED BY <1>2, <1>11, <2>1, NoGroupType, NoPruneType, Zenon DEF Types, head
<1>13. Locks'
  <2>. ~Committing' /\ ~Pruning' /\ ~barrier'.active BY <1>2, <1>11, NoGroupType, NoPruneType, Zenon DEF Committing, Pruning
  <2>. QED BY <1>2, NoGroupType, NoPruneType, Zenon DEF Locks
<1>14. Places(G)'
  <2>1. \A i \in 1..Len(G) : G[i] \in Requests /\ G[i] = H[i] /\ i \in 1..Len(H)
    <3>. Len(G) <= Len(H) /\ Len(G) \in Nat /\ Len(H) \in Nat BY <1>4 DEF Agree, Chains
    <3>. \A i \in 1..Len(G) : i \in 1..Len(H) OBVIOUS
    <3>. QED BY <1>4 DEF Agree, Chains
  <2>2. \A i \in 1..Len(G) : status'[G[i]] \in {"queued", "rejected", "acked"} BY <1>2, <2>1, Zenon DEF Places
  <2>. group'.members = <<>> /\ group'.frames = <<>> BY <1>2, NoGroupType, Zenon
  <2>. /\ (\A i \in 1..Len(queue') : FALSE) /\ (\A i \in 1..Len(group'.members) : FALSE)
       /\ (\A i \in 1..Len(group'.frames) : FALSE)
    BY <1>2
  <2>. QED BY <2>2, Zenon DEF Places
<1>. Process(G, a)' BY <1>2, Zenon DEF Process, Usable
<1>. Holds(G, a)' BY <1>4, <1>10, <1>12, <1>13, <1>14, Zenon
<1>. QED BY <1>2, <1>6, Zenon

-----------------------------------------------------------------------------
\* The empty store holds the empty history.
LEMMA InitHolds ==
  ASSUME Init
  PROVE  Holds(<<>>, 1)
<1>. USE DEF Init
<1>1. <<>> \in Chains /\ Len(<<>>) = 0 BY DEF Chains
<1>2. NoBarrier \in Barriers /\ ~NoBarrier.active BY NoAnchorType, Zenon DEF NoBarrier, Barriers
<1>3. Types
  <2>1. status \in [Requests -> Statuses] BY Zenon DEF Statuses
  <2>2. tickets \in Tickets /\ unlinked \in Removals /\ sealedWalSegments \in SegmentLists
    BY DEF Tickets, Removals, SegmentLists
  <2>. walHash \in Hashes BY Zenon DEF Hashes
  <2>. handle \in BOOLEAN /\ closing \in BOOLEAN /\ poisoned \in BOOLEAN /\ renamed \in BOOLEAN BY Zenon
  <2>. QED BY <1>1, <1>2, <2>1, <2>2, NoAnchorType, NoGroupType, NoPruneType, Zenon DEF Types
<1>4. Locks
  <2>. ~Committing /\ ~Pruning /\ ~barrier.active BY <1>2, NoGroupType, NoPruneType, Zenon DEF Committing, Pruning
  <2>. QED BY NoGroupType, NoPruneType, Zenon DEF Locks
<1>5. Places(<<>>)
  <2>. group.members = <<>> /\ group.frames = <<>> BY NoGroupType, Zenon
  <2>. /\ (\A i \in 1..Len(<<>>) : FALSE) /\ (\A i \in 1..Len(group.members) : FALSE)
       /\ (\A i \in 1..Len(group.frames) : FALSE) /\ (\A i \in 1..Len(queue) : FALSE)
    BY <1>1
  <2>. QED BY Zenon DEF Places
<1>. Disk(<<>>, 1)
  <2>1. Ranges(<<>>)
    <3>. <<>> \in Seq(Segments) /\ (\A i \in 1..Len(<<>>) : FALSE) BY <1>1
    <3>. Contiguous(<<>>) BY <1>1 DEF Contiguous
    <3>. QED BY Zenon DEF Ranges
  <2>2. Lays(<<>>, <<>>, 1)
    <3>. <<>> \in Seq(Frames) OBVIOUS
    <3>. (\A i \in 1..(Len(<<>>) + 1 - 1) : FALSE) /\ Len(<<>>) = Len(<<>>) + 1 - 1 /\ 1 <= Len(<<>>) + 1 BY <1>1
    <3>. QED BY DEF Lays
  <2>3. Image(<<>>, <<>>, <<>>, 1) BY <2>1, <2>2, Zenon DEF Image
  <2>4. Anchored(<<>>, NoAnchor)
    <3>. NoAnchor \in Anchors BY NoAnchorType, Zenon
    <3>. SubSeq(<<>>, 1, 0) = <<>> OBVIOUS
    <3>. QED BY <1>1 DEF Anchored, NoAnchor, HashAt
  <2>5. SealedFrames(<<>>) = 0 BY Zenon DEF SealedFrames
  <2>6. Kept(1) = 0 BY <1>1 DEF Kept
  <2>. Prefix(<<>>, <<>>) BY <1>1 DEF Prefix
  <2>. NoAnchor.seq = 0 BY Zenon DEF NoAnchor
  <2>. QED BY <1>1, <2>3, <2>4, <2>5, <2>6 DEF Disk
<1>. Process(<<>>, 1) BY Zenon DEF Process, Usable
<1>. QED BY <1>1, <1>3, <1>4, <1>5, Zenon DEF Holds

\* What a step does to the history: H before it, G after it.
Moves(G, H) ==
  \/ G = H /\ acked' = acked
  \/ G = H /\ Prefix(acked, acked') /\ Prefix(acked', H)
  \/ acked' = acked /\ \E r \in Requests : G = Append(H, r)
  \/ acked' = acked /\ Prefix(G, H)

LEMMA NextStep ==
  ASSUME ~PruneOverEmptyLive, NEW H, NEW first, Holds(H, first), [Next]_vars
  PROVE  \E G, a : Holds(G, a)' /\ Moves(G, H)
<1>. SUFFICES ASSUME ~(Holds(H, first)' /\ acked' = acked) PROVE \E G, a : Holds(G, a)' /\ Moves(G, H)
  BY Zenon DEF Moves
<1>0. PruneOverEmptyLive = FALSE BY ConstantsAssumption, Zenon
<1>1. CASE OpenFiles \/ Recover BY <1>1, OpenStep, RecoverStep, Zenon
<1>2. CASE Calls
  <2>1. ASSUME NEW r \in Requests, Enqueue(r) \/ RefuseAppend(r) PROVE FALSE BY <2>1, EnqueueStep, RefuseStep, Zenon
  <2>. CASE CallBarrier \/ CallClose BY CallStep, Zenon
  <2>. ASSUME NEW n \in 1..(Cardinality(Requests) + 1), CallPrune(n) PROVE FALSE
    <3>. n \in Nat OBVIOUS
    <3>. QED BY <1>0, CallPruneStep, Zenon
  <2>. QED BY <1>2, <2>1, Zenon DEF Calls
<1>3. CASE Splice BY <1>3, SpliceStep, Zenon
<1>4. CASE CommitStep
  <2>1. ASSUME NEW pick \in Picks(Len(group.members)), BeginCommit(pick) PROVE FALSE
    BY <2>1, BeginCommitStep, Zenon
  <2>2. CASE SealRename \/ SealSync \/ SealCreate \/ SyncGroup \/ SealOrSyncFails \/ ApplyFails
    BY <2>2, SealRenameStep, SealSyncStep, SealCreateStep, SyncGroupStep, SealOrSyncFailsStep, ApplyFailsStep, Zenon
  <2>3. CASE WriteFrame
    <3>. PICK r \in Requests : Holds(Append(H, r), first)' /\ acked' = acked BY <2>3, WriteFrameStep, Zenon
    <3>. Moves(Append(H, r), H) BY Zenon DEF Moves
    <3>. QED BY Zenon
  <2>4. CASE ApplyFrame
    <3>. Holds(H, first)' /\ Prefix(acked, acked') /\ Prefix(acked', H) BY <2>4, ApplyFrameStep, Zenon
    <3>. QED BY Zenon DEF Moves
  <2>. CASE WriteFails
    <3>. PICK G : Holds(G, first)' /\ acked' = acked /\ (G = H \/ \E r \in Requests : G = Append(H, r))
      BY WriteFailsStep, Zenon
    <3>. Moves(G, H) BY Zenon DEF Moves
    <3>. QED BY Zenon
  <2>. QED BY <1>4, <2>1, <2>2, <2>3, <2>4, Zenon DEF CommitStep
<1>5. CASE BarrierStep \/ PublishCheckpoint BY <1>5, BarrierStepIs, PublishStep, Zenon DEF BarrierStep
<1>6. CASE PruneStep
  <2>. CASE PruneUnlink
    <3>. PICK a : Holds(H, a)' /\ acked' = acked BY PruneUnlinkStep, Zenon
    <3>. QED BY Zenon DEF Moves
  <2>. CASE PruneBegin \/ PruneSync \/ PruneEnd \/ PruneFails
    BY PruneBeginStep, PruneSyncStep, PruneEndStep, PruneFailsStep, Zenon
  <2>. QED BY <1>6, Zenon DEF PruneStep
<1>7. CASE RunClose BY <1>7, RunCloseStep, Zenon
<1>8. CASE Crash
  <2>. PICK G, a : Holds(G, a)' /\ acked' = acked /\ Prefix(G, H) BY <1>8, CrashStep, Zenon
  <2>. QED BY Zenon DEF Moves
<1>9. CASE UNCHANGED vars
  <2>. /\ UNCHANGED <<sealed, log, unsynced, renamed, unlinked>> /\ UNCHANGED <<mode, handle, closing, poisoned>>
       /\ UNCHANGED <<walSequence, walHash, walOffset, liveSegmentFirstSequence, sealedWalSegments>>
       /\ UNCHANGED <<queue, tickets, group, barrier, prune>> /\ UNCHANGED <<checkpoint, applied, status, acked>>
    BY <1>9, Zenon DEF vars, disk, head, proc, work, outside
  <2>2. Committing' = Committing /\ Pruning' = Pruning /\ Usable' = Usable BY Zenon DEF Committing, Pruning, Usable
  <2>3. Types' /\ Locks' BY <2>2 DEF Holds, Types, Locks
  <2>4. Places(H)' /\ Disk(H, first)' BY Zenon DEF Holds, Places, Disk, Kept
  <2>5. AtHead(H, first) => AtHead(H, first)' BY Zenon DEF AtHead, Written, Passed
  <2>6. GroupFrames(H) => GroupFrames(H)' BY Zenon DEF GroupFrames, Committing, Written, Passed
  <2>7. Lists => Lists' BY Zenon DEF Lists, Listed, Gone
  <2>. Prunes => Prunes' BY Zenon DEF Prunes, Pruning, Committing, PruneAt, Prunable, Listed, Gone
  <2>. Process(H, first)' BY <2>2, <2>5, <2>6, <2>7, Zenon DEF Holds, Process
  <2>. QED BY <2>3, <2>4, Zenon DEF Holds
<1>. QED BY <1>1, <1>2, <1>3, <1>4, <1>5, <1>6, <1>7, <1>8, <1>9, Zenon DEF Next

-----------------------------------------------------------------------------
\* What the invariant says of the files that a crash would leave now.
LEMMA CrashHistory ==
  ASSUME NEW H, NEW first, Holds(H, first), NEW f \in CrashFiles
  PROVE  /\ Recoverable(f.sealed, f.log, checkpoint)
         /\ Remains(History(f.sealed, f.log), H)
<1>. PICK G, a : /\ Remains(G, H) /\ Image(G, f.sealed, f.log, a) /\ a <= checkpoint.seq + 1
                 /\ Anchored(G, checkpoint)
  BY CrashIs, Zenon DEF Holds
<1>. G \in Chains BY Zenon DEF Remains
<1>. Recoverable(f.sealed, f.log, checkpoint) BY RecoverableIs, Zenon
<1>. History(f.sealed, f.log) = G BY ReplayIs, Zenon DEF History
<1>. QED BY Zenon

\* The whole of a history.
LEMMA WholeHistory ==
  ASSUME NEW H \in Chains
  PROVE  SubSeq(H, 1, Len(H)) = H
BY DEF Chains

LEMMA InvOpenable ==
  ASSUME IInv
  PROVE  AlwaysOpenable
<1>. PICK H, first : Holds(H, first) BY Zenon DEF IInv
<1>. QED BY CrashHistory, Zenon DEF AlwaysOpenable

LEMMA InvRefused ==
  ASSUME IInv
  PROVE  RefusedStaysOut
<1>1. PICK H, first : Holds(H, first) BY Zenon DEF IInv
<1>. SUFFICES ASSUME NEW f \in CrashFiles, NEW i \in 1..Len(History(f.sealed, f.log))
              PROVE  status[History(f.sealed, f.log)[i]] # "refused"
  BY Zenon DEF RefusedStaysOut
<1>. DEFINE G == History(f.sealed, f.log)
<1>2. Remains(G, H) BY <1>1, CrashHistory, Zenon
<1>. HIDE DEF G
<1>3. i \in 1..Len(G) BY Zenon DEF G
<1>4. Agree(G, H, Len(G)) /\ Len(H) \in Nat BY <1>1, <1>2 DEF Remains, Holds, Chains
<1>. i \in 1..Len(H) /\ G[i] = H[i] BY <1>3, <1>4 DEF Agree
<1>. status[H[i]] \in {"queued", "rejected", "acked"} BY <1>1, Zenon DEF Holds, Places
<1>. QED BY Zenon DEF G

LEMMA InvState ==
  ASSUME IInv
  PROVE  StateIsLog
<1>. PICK H, first : Holds(H, first) BY Zenon DEF IInv
<1>. SUFFICES ASSUME Usable, ~Committing PROVE applied = History(sealed, log) /\ walSequence = Len(applied)
  BY Zenon DEF StateIsLog, Usable, Committing
<1>. walSequence = Len(H) BY HeadNumbers, Zenon
<1>. applied = SubSeq(H, 1, Len(H)) /\ H \in Chains BY Zenon DEF Holds, Process, AtHead
<1>. applied = H BY WholeHistory, Zenon
<1>. QED BY HistoryIs, Zenon

LEMMA InvBarrier ==
  ASSUME IInv
  PROVE  BarrierSeesDurableHead
<1>1. PICK H, first : Holds(H, first) BY Zenon DEF IInv
<1>. SUFFICES ASSUME barrier.active
              PROVE  /\ \A f \in CrashFiles : History(f.sealed, f.log) = barrier.anchor.covered
                     /\ barrier.anchor.seq = walSequence /\ barrier.anchor.hash = walHash
  BY Zenon DEF BarrierSeesDurableHead
<1>2. Locks BY <1>1, Zenon DEF Holds
<1>3. Usable /\ ~Committing BY <1>2, OneHolder, Zenon DEF Locks
<1>4. walSequence = Len(H) /\ unsynced = 0 BY <1>1, <1>3, HeadNumbers, Zenon
<1>5. applied = SubSeq(H, 1, Len(H)) /\ H \in Chains BY <1>1, <1>3, <1>4, Zenon DEF Holds, Process, AtHead
<1>6. applied = H BY <1>5, WholeHistory, Zenon
<1>7. barrier.anchor = [seq |-> walSequence, hash |-> walHash, covered |-> applied]
  BY <1>1, <1>3, Zenon DEF Holds, Process
<1>8. barrier.anchor.seq = walSequence /\ barrier.anchor.hash = walHash /\ barrier.anchor.covered = applied BY <1>7
<1>9. ASSUME NEW f \in CrashFiles PROVE History(f.sealed, f.log) = H
  <2>1. Remains(History(f.sealed, f.log), H) BY <1>1, CrashHistory, Zenon
  <2>. QED BY <1>4, <2>1, Zenon DEF Remains
<1>. QED BY <1>6, <1>8, <1>9, Zenon

-----------------------------------------------------------------------------
\* A prune keeps the frames it must keep.
LEMMA PruneStays ==
  ASSUME NEW H, NEW first, Holds(H, first), [Next]_vars, prune.step = "unlink", NEW i \in 1..Len(log),
         log[i].seq > prune.anchor.seq \/ log[i].seq >= prune.retain
  PROVE  \E j \in 1..Len(log') : log'[j] = log[i]
<1>1. Locks /\ Types /\ H \in Chains /\ Image(H, sealed, log, first) BY Zenon DEF Holds, Disk
<1>2. Pruning /\ Usable /\ ~Committing /\ ~barrier.active BY <1>1, OneHolder, Zenon DEF Pruning, Locks
<1>3. Len(log) = Len(H) + 1 - first /\ unsynced = 0 /\ ~renamed BY <1>2, HeadNumbers, Zenon
<1>4. log \in Seq(Frames) /\ Len(log) \in Nat /\ first \in Nat /\ Len(H) \in Nat BY <1>1, ImageShape, Zenon
<1>5. CASE log' = log BY <1>5, Zenon
<1>6. CASE PruneUnlink /\ log' # log
  <2>. DEFINE k == Size(sealed[1])
              z == sealed[1].last
              l == SubSeq(log, k + 1, Len(log))
  <2>1. prune.todo # <<>> /\ sealed # <<>> /\ sealed[1] = Head(prune.todo) /\ log' = l
    BY <1>6, Zenon DEF PruneUnlink
  <2>2. Prunable(sealed[1]) /\ walOffset > 0 BY <2>1, NextToDelete, Zenon
  <2>3. Unlinkable(H, sealed, log, first)
    <3>1. walOffset = Len(log) - SealedFrames(sealed) BY <1>2, HeadNumbers, Zenon
    <3>. SealedFrames(sealed) \in Nat BY <1>1, ImageShape, Zenon
    <3>. Len(log) > SealedFrames(sealed) BY <1>4, <2>2, <3>1
    <3>. QED BY <1>3, <2>1, Zenon DEF Unlinkable
  <2>4. /\ k \in Nat /\ k >= 1 /\ k < Len(log) /\ sealed[1].last + 1 = first + k
        /\ Image(H, Tail(sealed), l, first + k) /\ Len(l) = Len(log) - k
        /\ SealedFrames(Tail(sealed)) = SealedFrames(sealed) - k
    BY <1>1, <2>3, UnlinkImage
  <2>5. z <= prune.anchor.seq /\ z < prune.retain BY <2>2, Zenon DEF Prunable
  <2>6. z \in Nat /\ prune.anchor.seq \in Nat /\ prune.retain \in Nat
    <3>. z \in Nat BY <1>1, <2>1, SealedSize, Zenon DEF Image, Segments
    <3>. QED BY <1>1, Zenon DEF Types, Prunings, Anchors
  <2>7. log[i].seq = first + i - 1
    <3>. i \in 1..(Len(H) + 1 - first) BY <1>3, Zenon
    <3>. log[i] = FrameAt(H, first + i - 1) BY <1>1, Zenon DEF Image, Lays
    <3>. QED BY FrameFields
  <2>. DEFINE p == prune.anchor.seq
              q == prune.retain
  <2>8. k \in Nat /\ k < Len(log) /\ z + 1 = first + k /\ Len(l) = Len(log) - k
        /\ (first + i - 1 > p \/ first + i - 1 >= q) /\ z <= p /\ z < q /\ z \in Nat /\ p \in Nat /\ q \in Nat
    BY <2>4, <2>5, <2>6, <2>7, Zenon
  <2>9. l \in Seq(Frames) /\ \A j \in 1..(Len(log) + 1 - (k + 1)) : l[j] = log[(k + 1) + j - 1]
    <3>. k + 1 \in Nat /\ 1 <= k + 1 /\ k + 1 <= Len(log) + 1 /\ Len(log) <= Len(log) BY <1>4, <2>4
    <3>. QED BY <1>4, Piece
  <2>. HIDE DEF k, z, l, p, q
  <2>10. i > k BY <1>4, <2>8
  <2>. i - k \in 1..Len(l) /\ i - k \in 1..(Len(log) + 1 - (k + 1)) /\ (k + 1) + (i - k) - 1 = i
    BY <1>4, <2>8, <2>10
  <2>. l[i - k] = log[i] BY <2>9, Zenon
  <2>. QED BY <2>1, Zenon
<1>7. CASE Crash
  <2>1. PICK f \in CrashFiles : log' = f.log BY <1>7, Zenon DEF Crash
  <2>2. CrashLogs = {log}
    <3>. DEFINE A == { SubSeq(log, 1, Len(log) - n) : n \in 0..unsynced }
                B == UNION { { Append(SubSeq(log, 1, Len(log) - n), t) : t \in Tear(log[Len(log) - n + 1]) } :
                             n \in 1..unsynced }
    <3>1. A = {log}
      <4>1. 0..unsynced = {0} BY <1>3
      <4>. A = {SubSeq(log, 1, Len(log) - 0)} BY <4>1, Zenon
      <4>. SubSeq(log, 1, Len(log) - 0) = log BY <1>4
      <4>. QED BY Zenon
    <3>2. B = {}
      <4>. 1..unsynced = {} BY <1>3
      <4>. QED BY Zenon
    <3>. group.step # "write" BY <1>2, Zenon DEF Committing
    <3>. CrashLogs = A \cup B \cup {} BY Zenon DEF CrashLogs
    <3>. HIDE DEF A, B
    <3>. QED BY <3>1, <3>2, Zenon
  <2>3. CASE f.log = log BY <1>5, <2>1, <2>3, Zenon
  <2>4. CASE f.log # log
    <3>. DEFINE u == unlinked[1]
                segs == {sealed} \cup IF renamed THEN {SubSeq(sealed, 1, Len(sealed) - 1)} ELSE {}
    <3>1. f \notin [sealed : segs, log : CrashLogs] BY <2>2, <2>4, Zenon
    <3>2. /\ unlinked # <<>>
          /\ \E e \in [sealed : segs, log : CrashLogs] :
               f = [sealed |-> <<u.segment>> \o e.sealed, log |-> u.frames \o e.log]
      BY <3>1, Zenon DEF CrashFiles
    <3>3. f.log = u.frames \o log BY <2>2, <3>2
    <3>4. u.frames \in Seq(Frames)
      <4>. unlinked \in Seq(Unlinked) BY <1>1, Zenon DEF Types, Removals
      <4>. u \in Unlinked BY <3>2
      <4>. QED BY Zenon DEF Unlinked
    <3>. DEFINE w == u.frames
    <3>. HIDE DEF u, w
    <3>. w \in Seq(Frames) /\ f.log = w \o log BY <3>3, <3>4, Zenon DEF w
    <3>. Len(w) \in Nat /\ Len(w \o log) = Len(w) + Len(log)
         /\ \A j \in 1..Len(log) : (w \o log)[Len(w) + j] = log[j]
      BY <1>4, Joined
    <3>. Len(w) + i \in 1..Len(w \o log) BY <1>4
    <3>. QED BY <2>1, Zenon
  <2>. QED BY <2>3, <2>4, Zenon
<1>8. ~WriteFrame /\ ~WriteFails BY <1>2, Zenon DEF WriteFrame, WriteFails, Committing
<1>9. ~Recover BY <1>2, Zenon DEF Recover, Usable
<1>10. CASE UNCHANGED vars BY <1>5, <1>10, Zenon DEF vars, disk
<1>11. OpenFiles \/ Splice \/ BarrierStep \/ PublishCheckpoint \/ RunClose => log' = log
  BY Zenon DEF OpenFiles, Splice, BarrierStep, BarrierBegin, BarrierEnd, PublishCheckpoint, RunClose, disk
<1>12. Calls => log' = log
  BY Zenon DEF Calls, Enqueue, RefuseAppend, CallBarrier, CallClose, CallPrune, disk
<1>. CommitStep => log' = log
  BY <1>8, Zenon DEF CommitStep, BeginCommit, SealRename, SealSync, SealCreate, SyncGroup, ApplyFrame,
              SealOrSyncFails, ApplyFails, disk
<1>. PruneStep => log' = log \/ PruneUnlink
  BY Zenon DEF PruneStep, PruneBegin, PruneSync, PruneEnd, PruneFails, disk
<1>. QED BY <1>5, <1>6, <1>7, <1>9, <1>10, <1>11, <1>12, Zenon DEF Next

\* The history that the files stand for after a step.
LEMMA HistoryNext ==
  ASSUME NEW G, NEW a, Holds(G, a)'
  PROVE  History(sealed, log)' = G /\ acked' \in Chains /\ G \in Chains /\ Prefix(acked', G)
<1>. /\ G \in Chains /\ Image(G, sealed', log', a) /\ Anchored(G, checkpoint') /\ a <= checkpoint'.seq + 1
     /\ acked' \in Chains /\ Prefix(acked', G)
  BY Zenon DEF Holds, Disk, Types
<1>. checkpoint'.covered \o Ids(Replayed(Whole(sealed', log'), checkpoint')) = G BY ReplayIs, Zenon
<1>. QED BY Zenon DEF History

\* The two names of the order on histories.
LEMMA SamePrefix == \A s, t : Log!Prefix(s, t) = Prefix(s, t)
BY Zenon DEF Log!Prefix, Prefix

\* The history and its acknowledged part make a step of the abstract history.
LEMMA HistoryStep ==
  ASSUME ~PruneOverEmptyLive, IInv, [Next]_vars
  PROVE  [Log!Next]_(Log!vars)
<1>1. PICK H, first : Holds(H, first) BY Zenon DEF IInv
<1>2. PICK G, a : Holds(G, a)' /\ Moves(G, H) BY <1>1, NextStep, Zenon
<1>. DEFINE h == History(sealed, log)
<1>. h = H BY <1>1, HistoryIs, Zenon
<1>. h' = G /\ acked' \in Seq(Requests) /\ G \in Seq(Requests) /\ Prefix(acked', G)
  <2>. History(sealed, log)' = G /\ acked' \in Chains /\ G \in Chains /\ Prefix(acked', G) BY <1>2, HistoryNext, Zenon
  <2>. QED BY Zenon DEF Chains
<1>5. CASE G = H /\ acked' = acked BY <1>5, Zenon DEF Log!vars
<1>. CASE G = H /\ Prefix(acked, acked') /\ Prefix(acked', H)
  BY SamePrefix, Zenon DEF Log!Next, Log!Acknowledge
<1>. CASE acked' = acked /\ \E r \in Requests : G = Append(H, r)
  BY Zenon DEF Log!Next, Log!Install
<1>. CASE acked' = acked /\ Prefix(G, H)
  BY SamePrefix, Zenon DEF Log!Next, Log!LoseUnacknowledged
<1>. QED BY <1>2, <1>5, Zenon DEF Moves

-----------------------------------------------------------------------------
\* There is one history behind the files, the checkpoint, the head of the
\* process and the acknowledged appends, through group commits, rollovers,
\* prunes, I/O errors and crashes at every step of them.  The hypothesis of
\* this and the following theorems is that pruneWalSegments is not called while
\* the live segment is empty; the run wal_prune_empty_live shows what happens
\* otherwise.
THEOREM HistoryBehindFiles ==
  ASSUME ~PruneOverEmptyLive
  PROVE  Spec => []IInv
<1>1. Init => IInv BY InitHolds, Zenon DEF IInv
<1>2. ASSUME IInv, [Next]_vars PROVE IInv'
  <2>1. PICK H, first : Holds(H, first) BY <1>2, Zenon DEF IInv
  <2>2. PICK G, a : Holds(G, a)' BY <1>2, <2>1, NextStep, Zenon
  <2>. QED BY <2>2, Zenon DEF IInv
<1>. QED BY <1>1, <1>2, PTL DEF Spec

\* Whatever a crash leaves of the segment files, _open accepts it with the
\* newest checkpoint.
THEOREM CrashesOpenable ==
  ASSUME ~PruneOverEmptyLive
  PROVE  Spec => []AlwaysOpenable
BY HistoryBehindFiles, InvOpenable, PTL

\* Between commit groups the state built by applyFrame is the one that #recover
\* would build from the files, and the head continues it.
THEOREM StateFollowsLog ==
  ASSUME ~PruneOverEmptyLive
  PROVE  Spec => []StateIsLog
BY HistoryBehindFiles, InvState, PTL

\* No recovery brings back an append that was refused.
THEOREM RefusedNeverRecovered ==
  ASSUME ~PruneOverEmptyLive
  PROVE  Spec => []RefusedStaysOut
BY HistoryBehindFiles, InvRefused, PTL

\* The anchor that withWalBarrier hands to its callback stays the durable end of
\* the log until the callback returns.
THEOREM BarrierIsDurable ==
  ASSUME ~PruneOverEmptyLive
  PROVE  Spec => []BarrierSeesDurableHead
BY HistoryBehindFiles, InvBarrier, PTL

\* pruneWalSegments deletes no frame above the checkpoint or at or above the
\* spent-marker horizon, and neither does any step taken beside it.
THEOREM PruneKeeps ==
  ASSUME ~PruneOverEmptyLive
  PROVE  Spec => PruneRespectsHorizon
<1>. DEFINE A == prune.step = "unlink" =>
                   \A i \in 1..Len(log) :
                     log[i].seq > prune.anchor.seq \/ log[i].seq >= prune.retain =>
                       \E j \in 1..Len(log') : log'[j] = log[i]
<1>1. IInv /\ [Next]_vars => A
  <2>. SUFFICES ASSUME IInv, [Next]_vars, prune.step = "unlink", NEW i \in 1..Len(log),
                       log[i].seq > prune.anchor.seq \/ log[i].seq >= prune.retain
                PROVE  \E j \in 1..Len(log') : log'[j] = log[i]
    BY Zenon
  <2>1. PICK H, first : Holds(H, first) BY Zenon DEF IInv
  <2>. QED BY <2>1, PruneStays, Zenon
<1>. HIDE DEF A
<1>2. IInv /\ [Next]_vars => [A]_vars BY <1>1, Zenon
<1>3. Spec => [][A]_vars BY <1>2, HistoryBehindFiles, PTL DEF Spec
<1>. QED BY <1>3, Zenon DEF A, PruneRespectsHorizon

\* The write-ahead log implements the abstract history: a write adds one
\* request, an acknowledgement moves forward within it, and a crash takes back
\* only requests whose append was not acknowledged.
THEOREM ImplementsAckedHistory ==
  ASSUME ~PruneOverEmptyLive
  PROVE  Spec => HistorySpec
<1>1. Init => Log!Init
  <2>. SUFFICES ASSUME Init PROVE Log!Init
    BY Zenon
  <2>1. History(sealed, log) = <<>> BY InitHolds, HistoryIs, Zenon
  <2>. QED BY <2>1, Zenon DEF Init, Log!Init
<1>2. IInv /\ [Next]_vars => [Log!Next]_(Log!vars) BY HistoryStep, Zenon
<1>. QED BY <1>1, <1>2, HistoryBehindFiles, PTL DEF Spec, HistorySpec, Log!Spec
==============================================================================

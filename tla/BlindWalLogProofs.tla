-------------------------- MODULE BlindWalLogProofs -------------------------
(***************************************************************************)
(* What holds of the write-ahead log between two steps, and the lemmas on  *)
(* its files.  The argument follows one history H, the sequence of all     *)
(* requests that ever reached the log: the segment files hold its frames   *)
(* from the first retained one to the end, maybe with a half-written one   *)
(* behind them, the checkpoint and the acknowledged part are beginnings of *)
(* it, and the head of the process says how far into it the process is.    *)
(* Calls, open, close, the barrier and prune keep this; BlindWalProofs     *)
(* goes on with the commit of a group, recovery and crashes.               *)
(***************************************************************************)
EXTENDS BlindWal, TLAPS

Chains == Seq(Requests)
Segments == [first : Nat, last : Nat]
Frames == [seq : Nat, id : Requests \cup {Torn}, prev : Requests \cup {Genesis}]
Hashes == Requests \cup {Genesis}
Anchors == [seq : Nat, hash : Hashes, covered : Chains]
Unlinked == [segment : Segments, frames : Seq(Frames)]

\* The hash of the k-th request of H, and its frame.
HashAt(H, k) == IF k = 0 THEN Genesis ELSE H[k]
FrameAt(H, k) == [seq |-> k, id |-> H[k], prev |-> HashAt(H, k - 1)]

\* The names of sealed segments: each a range, in the order of the log and
\* without a gap.
Ranges(segs) ==
  /\ segs \in Seq(Segments)
  /\ \A i \in 1..Len(segs) : 1 <= segs[i].first /\ segs[i].first <= segs[i].last
  /\ \A i, j \in 1..Len(segs) : i < j => segs[i].last < segs[j].first
  /\ Contiguous(segs)

\* frames are those of H from the first-th to the last, with perhaps part of
\* one more.
Lays(H, frames, first) ==
  /\ frames \in Seq(Frames) /\ first \in Nat /\ first >= 1 /\ first <= Len(H) + 1
  /\ \A i \in 1..(Len(H) + 1 - first) : frames[i] = FrameAt(H, first + i - 1)
  /\ \/ Len(frames) = Len(H) + 1 - first
     \/ /\ Len(frames) = Len(H) + 2 - first
        /\ frames[Len(frames)].id = Torn /\ frames[Len(frames)].seq \in {0, Len(H) + 1}

\* The files hold H from the first-th request on.
Image(H, segs, frames, first) ==
  /\ Ranges(segs) /\ Lays(H, frames, first)
  /\ segs # <<>> => segs[1].first = first /\ segs[Len(segs)].last <= Len(H)
  /\ segs = <<>> => first = 1 \/ first <= Len(H)

\* The anchor is that of the beginning of H.
Anchored(H, anchor) ==
  /\ anchor \in Anchors /\ anchor.seq <= Len(H)
  /\ anchor.hash = HashAt(H, anchor.seq) /\ anchor.covered = SubSeq(H, 1, anchor.seq)

-----------------------------------------------------------------------------
Steps == {"none", "waiting", "seal", "sealsync", "create", "write", "sync", "apply"}
Kinds == {"commit", "barrier", "prune", "close"}
Statuses == {"new", "queued", "refused", "rejected", "acked"}

FrameLists == Seq(Frames)
SegmentLists == Seq(Segments)
Tickets == Seq(Kinds)
Groups == [step : Steps, members : Chains, frames : FrameLists, done : Nat]
Barriers == [active : BOOLEAN, anchor : Anchors]
Prunings == [step : {"none", "waiting", "unlink", "sync"}, anchor : Anchors,
             retain : Nat, todo : SegmentLists]
Removals == {u \in Seq(Unlinked) : Len(u) <= 1}

Types ==
  /\ unsynced \in Nat /\ renamed \in BOOLEAN /\ unlinked \in Removals
  /\ mode \in {"closed", "opening", "open"} /\ handle \in BOOLEAN
  /\ closing \in BOOLEAN /\ poisoned \in BOOLEAN
  /\ queue \in Chains /\ tickets \in Tickets
  /\ group \in Groups /\ barrier \in Barriers /\ prune \in Prunings
  /\ checkpoint \in Anchors /\ applied \in Chains /\ acked \in Chains
  /\ status \in [Requests -> Statuses]
  /\ walSequence \in Nat /\ walHash \in Hashes
  /\ walOffset \in Nat /\ liveSegmentFirstSequence \in Nat
  /\ sealedWalSegments \in SegmentLists

\* A commit group, a barrier callback or a prune is between its steps.
Committing == group.step \notin {"none", "waiting"}
Pruning == prune.step \in {"unlink", "sync"}
Usable == mode = "open" /\ ~poisoned

In(r, list) == \E i \in 1..Len(list) : list[i] = r

\* k is at the head of the list of tickets t.
Top(t, k) == t # <<>> /\ Head(t) = k

\* Who works on the log holds the wal lock, on an open store that is not
\* poisoned; who waits for it has a ticket.
Locks ==
  /\ Committing => Usable /\ Top(tickets, "commit")
  /\ barrier.active => Usable /\ Top(tickets, "barrier")
  /\ Pruning => Usable /\ Top(tickets, "prune")
  /\ group.step # "none" => In("commit", tickets)
  /\ prune.step # "none" => In("prune", tickets)
  /\ mode = "opening" =>
       handle /\ tickets = <<>> /\ queue = <<>> /\ unsynced = 0 /\ ~renamed /\ unlinked = <<>>
  /\ mode # "open" => ~poisoned
  /\ group.step \in {"none", "waiting"} => group.frames = <<>> /\ group.done = 0
  /\ group.step = "none" => group.members = <<>>

\* Every request is in one place: in the queue, in the group or in the history,
\* and nothing that is in the history was refused.
Places(H) ==
  /\ \A i \in 1..Len(H) : status[H[i]] \in {"queued", "rejected", "acked"}
  /\ \A i \in 1..Len(queue) :
       status[queue[i]] = "queued" /\ ~In(queue[i], H) /\ ~In(queue[i], group.members)
  /\ \A i \in 1..Len(group.members) :
       /\ status[group.members[i]] # "new"
       /\ group.step = "waiting" => status[group.members[i]] = "queued" /\ ~In(group.members[i], H)
  /\ \A i \in 1..Len(group.frames) :
       /\ group.frames[i].id \in Requests /\ In(group.frames[i].id, group.members)
       /\ status[group.frames[i].id] \in {"queued", "rejected", "acked"}

\* What a crash cannot take: the frames that a datasync covers.
Kept(first) == first - 1 + Len(log) - unsynced

\* u is the segment that was deleted last, the one before the first-th request.
Removed(H, u, first) ==
  /\ 1 <= u.segment.first /\ u.segment.first <= u.segment.last /\ u.segment.last + 1 = first
  /\ Len(u.frames) = Size(u.segment)
  /\ \A i \in 1..Len(u.frames) : u.frames[i] = FrameAt(H, u.segment.first + i - 1)

\* The files, and what of them was promised.
Disk(H, first) ==
  /\ Image(H, sealed, log, first)
  /\ unsynced <= Len(log) - SealedFrames(sealed)
  /\ sealed = <<>> /\ first > 1 => unsynced < Len(log)
  /\ renamed => unsynced = 0 /\ sealed # <<>> /\ Len(log) = Len(H) + 1 - first
  /\ unlinked # <<>> => Removed(H, unlinked[1], first)
  /\ Anchored(H, checkpoint) /\ first <= checkpoint.seq + 1 /\ checkpoint.seq <= Kept(first)
  /\ Prefix(acked, H) /\ Len(acked) <= Kept(first)

\* How many frames of the group are in the log, and how many the head is over.
Written ==
  CASE group.step = "write" -> group.done
    [] group.step \in {"sync", "apply"} -> Len(group.frames)
    [] OTHER -> 0
Passed == IF group.step = "apply" THEN group.done ELSE 0

\* The head of a usable store.
AtHead(H, first) ==
  /\ Len(log) = Len(H) + 1 - first
  /\ walSequence + Written - Passed = Len(H)
  /\ unsynced = (IF group.step \in {"write", "sync"} THEN Written ELSE 0)
  /\ walHash = HashAt(H, walSequence) /\ applied = SubSeq(H, 1, walSequence)
  /\ Len(acked) <= walSequence
  /\ walOffset + liveSegmentFirstSequence = walSequence + 1
  /\ renamed => group.step = "sealsync"
  /\ IF group.step \in {"sealsync", "create"}
     THEN /\ sealed # <<>>
          /\ sealed[Len(sealed)] = [first |-> liveSegmentFirstSequence, last |-> walSequence]
     ELSE /\ handle /\ liveSegmentFirstSequence = first + SealedFrames(sealed)

\* The frames of the group that is being committed continue the history.
GroupFrames(H) ==
  Committing =>
    /\ group.frames # <<>> /\ group.done < Len(group.frames)
    /\ group.step \notin {"write", "apply"} => group.done = 0
    /\ \A i \in 1..Len(group.frames) :
         /\ group.frames[i].seq = walSequence - Passed + i
         /\ group.frames[i].prev = IF i = 1 THEN HashAt(H, walSequence - Passed)
                                   ELSE group.frames[i - 1].id
    /\ \A i \in 1..Written : group.frames[i].id = H[walSequence - Passed + i]

\* The list of sealed segments in memory: with the one that is being sealed it
\* is the list on disk, behind segments that are already deleted.
Listed ==
  IF group.step \in {"sealsync", "create"}
  THEN Append(sealedWalSegments, [first |-> liveSegmentFirstSequence, last |-> walSequence])
  ELSE sealedWalSegments
Gone == Len(Listed) - Len(sealed)
Lists ==
  /\ Ranges(sealedWalSegments) /\ Gone \in Nat
  /\ \A i \in 1..Len(sealed) : Listed[Gone + i] = sealed[i]
  /\ sealedWalSegments # <<>> =>
       sealedWalSegments[Len(sealedWalSegments)].last + 1 = liveSegmentFirstSequence
  /\ unlinked # <<>> => Gone > 0 /\ Listed[Gone] = unlinked[1].segment

\* A running prune is at the at-th of the n segments it deletes.
PruneAt(n) == n + 1 - Len(prune.todo)
Prunes ==
  /\ prune.step # "none" => prune.anchor.seq <= checkpoint.seq
  /\ prune.step # "none" /\ ~Committing => walOffset > 0
  /\ Pruning =>
       \E n \in 0..Len(sealedWalSegments) :
         /\ \A i \in 1..Len(sealedWalSegments) : i <= n <=> Prunable(sealedWalSegments[i])
         /\ Len(prune.todo) <= n
         /\ \A i \in 1..Len(prune.todo) : prune.todo[i] = sealedWalSegments[PruneAt(n) + i - 1]
         /\ prune.step = "unlink" => PruneAt(n) <= Gone + 1 /\ (unlinked # <<>> => PruneAt(n) = 1)
         /\ prune.step = "sync" => prune.todo # <<>> /\ PruneAt(n) <= Gone

\* What the process knows, while it is open and not poisoned.
Process(H, first) ==
  Usable =>
    /\ AtHead(H, first) /\ GroupFrames(H) /\ Lists /\ Prunes
    /\ barrier.active => barrier.anchor = [seq |-> walSequence, hash |-> walHash, covered |-> applied]

Holds(H, first) ==
  H \in Chains /\ Types /\ Locks /\ Places(H) /\ Disk(H, first) /\ Process(H, first)

IInv == \E H, first : Holds(H, first)

-----------------------------------------------------------------------------
\* Sequences, by their elements
LEMMA SameSeq ==
  ASSUME NEW S, NEW s \in Seq(S), NEW t \in Seq(S), Len(s) = Len(t), \A i \in 1..Len(s) : s[i] = t[i]
  PROVE  s = t
OBVIOUS

LEMMA Joined ==
  ASSUME NEW S, NEW s \in Seq(S), NEW t \in Seq(S)
  PROVE  /\ s \o t \in Seq(S) /\ Len(s \o t) = Len(s) + Len(t)
         /\ \A i \in 1..(Len(s) + Len(t)) : (s \o t)[i] = IF i <= Len(s) THEN s[i] ELSE t[i - Len(s)]
OBVIOUS

LEMMA Parted ==
  ASSUME NEW S, NEW s \in Seq(S), s # <<>>
  PROVE  /\ Head(s) \in S /\ Tail(s) \in Seq(S) /\ Len(Tail(s)) = Len(s) - 1
         /\ \A i \in 1..Len(Tail(s)) : Tail(s)[i] = s[i + 1]
OBVIOUS

LEMMA Piece ==
  ASSUME NEW S, NEW s \in Seq(S), NEW m \in Nat, NEW n \in Nat, 1 <= m, m <= n + 1, n <= Len(s)
  PROVE  /\ SubSeq(s, m, n) \in Seq(S) /\ Len(SubSeq(s, m, n)) = n + 1 - m
         /\ \A i \in 1..(n + 1 - m) : SubSeq(s, m, n)[i] = s[m + i - 1]
OBVIOUS

LEMMA Elements == ASSUME NEW S, NEW q \in Seq(S) PROVE \A i \in 1..Len(q) : q[i] \in S
OBVIOUS

LEMMA After ==
  ASSUME NEW S, NEW s \in Seq(S), NEW n \in Nat, n < Len(s)
  PROVE  /\ SubSeq(s, n + 1, Len(s)) \in Seq(S) /\ Len(SubSeq(s, n + 1, Len(s))) = Len(s) - n
         /\ \A i \in 1..(Len(s) - n) : SubSeq(s, n + 1, Len(s))[i] = s[n + i]
OBVIOUS

\* The places of a log whose last frame may be torn, and of one that lost its first k frames.
LEMMA LastPlace ==
  ASSUME NEW h \in Nat, NEW f \in Nat, NEW n \in Nat, NEW k \in Nat, NEW m \in Nat, NEW g,
         m = n - k, k >= 1, n <= h + 2 - f, m <= h + 1 - f, ~(m + 1 <= h + 1 - f), g = f - 1 + m
  PROVE  m + 1 = n /\ n # h + 1 - f /\ g = h
OBVIOUS

LEMMA Shifted ==
  ASSUME NEW h \in Nat, NEW f \in Nat, NEW k \in Nat, NEW s \in Nat, NEW n, n = h + 1 - f
  PROVE  n - k = h + 1 - (f + k) /\ f + s = (f + k) + (s - k)
OBVIOUS

\* The requests of a history, and their hashes.
LEMMA AtPlace ==
  ASSUME NEW H \in Chains
  PROVE  /\ Len(H) \in Nat /\ \A k \in 1..Len(H) : H[k] \in Requests /\ FrameAt(H, k) \in Frames
         /\ \A k \in 0..Len(H) : HashAt(H, k) \in Requests \cup {Genesis}
<1>. Len(H) \in Nat /\ \A k \in 1..Len(H) : H[k] \in Requests BY DEF Chains
<1>. \A k \in 0..Len(H) : HashAt(H, k) \in Requests \cup {Genesis} BY DEF HashAt
<1>3. ASSUME NEW k \in 1..Len(H) PROVE FrameAt(H, k) \in Frames
  <2>. HashAt(H, k - 1) \in Requests \cup {Genesis} /\ k \in Nat /\ H[k] \in Requests OBVIOUS
  <2>. QED BY Zenon DEF FrameAt, Frames
<1>. QED BY <1>3, Zenon

LEMMA FrameFields ==
  ASSUME NEW H, NEW k
  PROVE  /\ FrameAt(H, k).seq = k /\ FrameAt(H, k).id = H[k] /\ FrameAt(H, k).prev = HashAt(H, k - 1)
BY Zenon DEF FrameAt

\* The number of frames in sealed segments.
LEMMA SealedSize ==
  ASSUME NEW segs, Ranges(segs)
  PROVE  /\ SealedFrames(segs) \in Nat /\ Len(segs) \in Nat
         /\ segs = <<>> => SealedFrames(segs) = 0
         /\ segs # <<>> => /\ SealedFrames(segs) >= Size(segs[1]) /\ Size(segs[1]) >= 1 /\ Size(segs[1]) \in Nat
                           /\ SealedFrames(segs) = segs[Len(segs)].last - segs[1].first + 1
                           /\ segs[1] \in Segments /\ segs[Len(segs)] \in Segments /\ Len(segs) >= 1
<1>1. CASE segs = <<>> BY <1>1, Zenon DEF SealedFrames, Ranges
<1>2. CASE segs # <<>>
  <2>. Len(segs) \in Nat /\ Len(segs) >= 1 /\ segs \in Seq(Segments) BY <1>2 DEF Ranges
  <2>2. segs[1] \in Segments /\ segs[Len(segs)] \in Segments OBVIOUS
  <2>3. /\ segs[1].first \in Nat /\ segs[1].last \in Nat
        /\ segs[Len(segs)].first \in Nat /\ segs[Len(segs)].last \in Nat
    BY <2>2, Zenon DEF Segments
  <2>4. /\ 1 <= segs[1].first /\ segs[1].first <= segs[1].last
        /\ segs[Len(segs)].first <= segs[Len(segs)].last
    BY DEF Ranges
  <2>5. Len(segs) > 1 => segs[1].last < segs[Len(segs)].first BY DEF Ranges
  <2>. segs[1].last <= segs[Len(segs)].last
    <3>. CASE Len(segs) = 1 BY <2>3
    <3>. CASE Len(segs) > 1 BY <2>3, <2>4, <2>5
    <3>. \A k \in Nat : k >= 1 => k = 1 \/ k > 1 OBVIOUS
    <3>. QED BY Zenon
  <2>. SealedFrames(segs) = segs[Len(segs)].last - segs[1].first + 1 BY <1>2, Zenon DEF SealedFrames
  <2>. QED BY <1>2, <2>2, <2>3, <2>4 DEF Size
<1>. QED BY <1>1, <1>2, Zenon

\* The shape of files that hold H from the first-th request on.
LEMMA ImageShape ==
  ASSUME NEW H \in Chains, NEW segs, NEW frames, NEW first, Image(H, segs, frames, first)
  PROVE  /\ Len(H) \in Nat /\ first \in Nat /\ first >= 1 /\ first <= Len(H) + 1
         /\ frames \in Seq(Frames) /\ Len(frames) \in Nat
         /\ Len(frames) \in {Len(H) + 1 - first, Len(H) + 2 - first}
         /\ SealedFrames(segs) \in Nat /\ SealedFrames(segs) <= Len(H) + 1 - first
         /\ segs # <<>> => SealedFrames(segs) = segs[Len(segs)].last + 1 - first
<1>. /\ Len(H) \in Nat /\ first \in Nat /\ first >= 1 /\ first <= Len(H) + 1
     /\ frames \in Seq(Frames) /\ Len(frames) \in Nat
     /\ Len(frames) \in {Len(H) + 1 - first, Len(H) + 2 - first}
  BY DEF Image, Lays, Chains
<1>. SealedFrames(segs) \in Nat BY SealedSize, Zenon DEF Image
<1>3. CASE segs = <<>> BY <1>3, SealedSize DEF Image
<1>. CASE segs # <<>>
  <2>. /\ SealedFrames(segs) = segs[Len(segs)].last - segs[1].first + 1
       /\ segs[Len(segs)] \in Segments /\ segs[1].first = first /\ segs[Len(segs)].last <= Len(H)
    BY SealedSize, Zenon DEF Image
  <2>. segs[Len(segs)].last \in Nat BY Zenon DEF Segments
  <2>. QED OBVIOUS
<1>. QED BY <1>3, Zenon

\* #peekLiveFirstSequence and the first segment's name give the first
\* retained request.
LEMMA FirstIs ==
  ASSUME NEW H \in Chains, NEW segs, NEW frames, NEW first, Image(H, segs, frames, first)
  PROVE  FirstRetained(segs, frames) = first
<1>. /\ Len(H) \in Nat /\ first \in Nat /\ first >= 1 /\ first <= Len(H) + 1
     /\ frames \in Seq(Frames) /\ Len(frames) \in Nat
     /\ Len(frames) \in {Len(H) + 1 - first, Len(H) + 2 - first}
  BY ImageShape, Zenon
<1>1. CASE segs # <<>> BY <1>1, Zenon DEF Image, FirstRetained
<1>2. CASE segs = <<>> /\ frames = <<>>
  <2>. Len(frames) = 0 BY <1>2, Zenon
  <2>. first = 1 BY <1>2 DEF Image
  <2>. QED BY <1>2, Zenon DEF FirstRetained
<1>3. CASE segs = <<>> /\ frames # <<>>
  <2>1. Len(frames) >= 1 BY <1>3
  <2>2. CASE first <= Len(H)
    <3>1. 1 \in 1..(Len(H) + 1 - first) BY <2>2
    <3>. frames[1] = FrameAt(H, first + 1 - 1) BY <3>1, Zenon DEF Image, Lays
    <3>. frames[1].seq = first BY DEF FrameAt
    <3>. QED BY <1>3 DEF FirstRetained
  <2>3. CASE first > Len(H)
    <3>. first = 1 /\ Len(H) = 0 BY <1>3, <2>3 DEF Image
    <3>. Len(frames) = 1 BY <2>1
    <3>. frames[1].seq \in {0, 1} BY DEF Image, Lays
    <3>. QED BY <1>3 DEF FirstRetained
  <2>. QED BY <2>2, <2>3
<1>. QED BY <1>1, <1>2, <1>3, Zenon

\* Recovery reads the frames of H, without the half-written one.
LEMMA WholeIs ==
  ASSUME NEW H \in Chains, NEW segs, NEW frames, NEW first, Image(H, segs, frames, first)
  PROVE  /\ Whole(segs, frames) \in Seq(Frames) /\ Len(Whole(segs, frames)) = Len(H) + 1 - first
         /\ \A i \in 1..(Len(H) + 1 - first) : Whole(segs, frames)[i] = FrameAt(H, first + i - 1)
         /\ Len(frames) = Len(H) + 1 - first => Whole(segs, frames) = frames
         /\ Image(H, segs, Whole(segs, frames), first)
<1>. DEFINE n == Len(H) + 1 - first
<1>. /\ Len(H) \in Nat /\ first \in Nat /\ first >= 1 /\ n \in Nat
     /\ frames \in Seq(Frames) /\ Len(frames) \in Nat /\ Len(frames) \in {n, n + 1}
     /\ SealedFrames(segs) \in Nat /\ SealedFrames(segs) <= n
  BY ImageShape
<1>1. \A i \in 1..n : frames[i] = FrameAt(H, first + i - 1) BY Zenon DEF Image, Lays
<1>2. CASE Len(frames) = n
  <2>. ~EndsTorn(segs, frames)
    <3>1. CASE n = 0 BY <1>2, <3>1 DEF EndsTorn
    <3>2. CASE n > 0
      <4>. frames[n] = FrameAt(H, first + n - 1) /\ first + n - 1 = Len(H) /\ Len(H) >= 1
        BY <1>1, <3>2
      <4>. H[Len(H)] \in Requests BY DEF Chains
      <4>. frames[n].id # Torn BY ConstantsAssumption DEF FrameAt
      <4>. QED BY <1>2, Zenon DEF EndsTorn
    <3>. QED BY <3>1, <3>2
  <2>. Whole(segs, frames) = frames BY Zenon DEF Whole
  <2>. QED BY <1>1, <1>2, Zenon
<1>. CASE Len(frames) = n + 1
  <2>1. frames[Len(frames)].id = Torn
    <3>1. Len(frames) # Len(H) + 1 - first OBVIOUS
    <3>. QED BY <3>1, Zenon DEF Image, Lays
  <2>a. Len(frames) > SealedFrames(segs) /\ Len(frames) - 1 = n OBVIOUS
  <2>2. Whole(segs, frames) = SubSeq(frames, 1, n) BY <2>1, <2>a, Zenon DEF Whole, EndsTorn
  <2>. HIDE DEF n
  <2>. /\ SubSeq(frames, 1, n) \in Seq(Frames) /\ Len(SubSeq(frames, 1, n)) = n
       /\ \A i \in 1..n : SubSeq(frames, 1, n)[i] = frames[i]
    <3>. /\ SubSeq(frames, 1, n) \in Seq(Frames) /\ Len(SubSeq(frames, 1, n)) = n + 1 - 1
         /\ \A i \in 1..(n + 1 - 1) : SubSeq(frames, 1, n)[i] = frames[1 + i - 1]
      BY Piece
    <3>. QED OBVIOUS
  <2>4. Len(frames) # n OBVIOUS
  <2>. \A i \in 1..n : SubSeq(frames, 1, n)[i] = FrameAt(H, first + i - 1) BY <1>1, Zenon
  <2>. Image(H, segs, SubSeq(frames, 1, n), first)
    BY Zenon DEF Image, Lays, n
  <2>. QED BY <2>2, <2>4, Zenon DEF n
<1>. QED BY <1>2, Zenon

\* #recover accepts files that hold H from a request the checkpoint covers or
\* the one after it.
LEMMA RecoverableIs ==
  ASSUME NEW H \in Chains, NEW segs, NEW frames, NEW first, NEW anchor,
         Image(H, segs, frames, first), Anchored(H, anchor), first <= anchor.seq + 1
  PROVE  Recoverable(segs, frames, anchor) /\ Chained(Whole(segs, frames), first, anchor)
<1>. DEFINE w == Whole(segs, frames)
            n == Len(H) + 1 - first
<1>0. /\ Len(H) \in Nat /\ first \in Nat /\ first >= 1 /\ n \in Nat /\ first <= Len(H) + 1
  BY ImageShape
<1>w. /\ w \in Seq(Frames) /\ Len(w) = n
      /\ \A i \in 1..n : w[i] = FrameAt(H, first + i - 1)
      /\ Len(frames) = n => w = frames
      /\ Image(H, segs, w, first)
  BY WholeIs, Zenon
<1>1. Len(w) = n /\ \A i \in 1..n : w[i] = FrameAt(H, first + i - 1) BY <1>w, Zenon
<1>2. anchor.seq \in Nat /\ anchor.seq <= Len(H) /\ anchor.hash = HashAt(H, anchor.seq)
  BY Zenon DEF Anchored, Anchors
<1>3. FirstRetained(segs, frames) = first BY FirstIs, Zenon
<1>4. Contiguous(segs) BY Zenon DEF Image, Ranges
<1>. HIDE DEF w
<1>5. ASSUME NEW i \in 1..n
      PROVE  /\ w[i].id # Torn /\ w[i].seq = first + i - 1
             /\ i > 1 => w[i].prev = w[i-1].id
             /\ i = 1 => w[1].prev = HashAt(H, first - 1)
  <2>1. w[i] = FrameAt(H, first + i - 1) /\ first + i - 1 \in 1..Len(H) BY <1>0, <1>1
  <2>2. w[i].id = H[first + i - 1] /\ w[i].seq = first + i - 1 /\ w[i].prev = HashAt(H, (first + i - 1) - 1)
    <3>. DEFINE k == first + i - 1
    <3>. HIDE DEF k
    <3>. w[i] = FrameAt(H, k) BY <2>1, Zenon DEF k
    <3>. w[i].id = H[k] /\ w[i].seq = k /\ w[i].prev = HashAt(H, k - 1) BY FrameFields
    <3>. QED BY Zenon DEF k
  <2>3. w[i].id # Torn BY <2>1, <2>2, AtPlace, ConstantsAssumption, Zenon
  <2>. i > 1 => w[i].prev = w[i-1].id
    <3>. HAVE i > 1
    <3>1. i - 1 \in 1..n BY <1>0
    <3>. w[i - 1] = FrameAt(H, first + (i - 1) - 1) BY <1>1, <3>1, Zenon
    <3>. first + (i - 1) - 1 = (first + i - 1) - 1 /\ (first + i - 1) - 1 # 0 BY <1>0
    <3>. QED BY <2>2 DEF FrameAt, HashAt
  <2>. i = 1 => (first + i - 1) - 1 = first - 1 BY <1>0
  <2>. QED BY <2>2, <2>3, Zenon
<1>6. Chained(w, first, anchor)
  <2>. SUFFICES ASSUME NEW i \in 1..Len(w)
                PROVE  /\ w[i].id # Torn
                       /\ w[i].seq = first + i - 1
                       /\ i > 1 => w[i].prev = w[i-1].id
                       /\ i = 1 /\ anchor.seq > 0 /\ first = anchor.seq + 1 => w[1].prev = anchor.hash
                       /\ i = 1 /\ first = 1 => w[1].prev = Genesis
    BY Zenon DEF Chained
  <2>1. i \in 1..n BY <1>1, Zenon
  <2>. first = anchor.seq + 1 => first - 1 = anchor.seq BY <1>0, <1>2
  <2>. first = 1 => HashAt(H, first - 1) = Genesis BY DEF HashAt
  <2>. QED BY <1>2, <1>5, <2>1, Zenon
<1>. anchor.seq = 0 \/ first = anchor.seq + 1 \/ HoldsAnchor(w, anchor)
  <2>. SUFFICES ASSUME anchor.seq # 0, first # anchor.seq + 1 PROVE HoldsAnchor(w, anchor)
    BY Zenon
  <2>. DEFINE i == anchor.seq + 1 - first
  <2>. i \in 1..n /\ first + i - 1 = anchor.seq BY <1>0, <1>2
  <2>. HIDE DEF i
  <2>. w[i].seq = anchor.seq /\ w[i].id = H[anchor.seq] BY <1>1 DEF FrameAt
  <2>. w[i].id = anchor.hash BY <1>2, Zenon DEF HashAt
  <2>. QED BY <1>1, Zenon DEF HoldsAnchor
<1>. IF anchor.seq = 0 THEN first = 1 ELSE first <= anchor.seq + 1 BY <1>0, <1>2
<1>. QED BY <1>3, <1>4, <1>6, Zenon DEF Recoverable, w

\* What the checkpoint covers and what recovery replays are together H.
LEMMA ReplayIs ==
  ASSUME NEW H \in Chains, NEW segs, NEW frames, NEW first, NEW anchor,
         Image(H, segs, frames, first), Anchored(H, anchor), first <= anchor.seq + 1
  PROVE  anchor.covered \o Ids(Replayed(Whole(segs, frames), anchor)) = H
<1>. DEFINE w == Whole(segs, frames)
            n == Len(H) + 1 - first
            a == anchor.seq
            p == Replayed(w, anchor)
<1>0. /\ Len(H) \in Nat /\ first \in Nat /\ first >= 1 /\ n \in Nat /\ first <= Len(H) + 1
  BY ImageShape
<1>w. /\ w \in Seq(Frames) /\ Len(w) = n
      /\ \A i \in 1..n : w[i] = FrameAt(H, first + i - 1)
      /\ Len(frames) = n => w = frames
      /\ Image(H, segs, w, first)
  BY WholeIs, Zenon
<1>1. w \in Seq(Frames) /\ Len(w) = n /\ \A i \in 1..n : w[i] = FrameAt(H, first + i - 1) BY <1>w, Zenon
<1>2. a \in Nat /\ a <= Len(H) BY Zenon DEF Anchored, Anchors
<1>c. anchor.covered = SubSeq(H, 1, a) BY Zenon DEF Anchored
<1>. HIDE DEF w
<1>3. /\ anchor.covered \in Seq(Requests) /\ Len(anchor.covered) = a
      /\ \A i \in 1..a : anchor.covered[i] = H[i]
  <2>. /\ SubSeq(H, 1, a) \in Seq(Requests) /\ Len(SubSeq(H, 1, a)) = a + 1 - 1
       /\ \A i \in 1..(a + 1 - 1) : SubSeq(H, 1, a)[i] = H[1 + i - 1]
    BY <1>0, <1>2, Piece DEF Chains
  <2>. QED BY <1>2, <1>c
<1>4. p \in Seq(Frames) /\ Len(p) = Len(H) - a /\ \A i \in 1..(Len(H) - a) : p[i].id = H[a + i]
  <2>1. CASE w = <<>>
    <3>. n = 0 /\ p = <<>> BY <1>1, <2>1, Zenon DEF Replayed
    <3>. Len(H) = a BY <1>0, <1>2
    <3>. p \in Seq(Frames) /\ Len(p) = 0 OBVIOUS
    <3>. QED BY <1>2
  <2>2. CASE w # <<>>
    <3>1. n >= 1 BY <1>0, <1>1, <2>2
    <3>2. w[1] = FrameAt(H, first + 1 - 1) BY <1>0, <1>1, <3>1
    <3>3. w[1].seq = first BY <1>0, <3>2 DEF FrameAt
    <3>. DEFINE from == a + 2 - first
    <3>4. from \in Nat /\ from >= 1 /\ from <= n + 1 /\ a - first + 2 = from BY <1>0, <1>2
    <3>5. p = SubSeq(w, from, n)
      <4>. p = SubSeq(w, IF a - w[1].seq + 2 < 1 THEN 1 ELSE a - w[1].seq + 2, Len(w))
        BY <2>2, Zenon DEF Replayed
      <4>. (IF a - w[1].seq + 2 < 1 THEN 1 ELSE a - w[1].seq + 2) = from BY <1>0, <1>2, <3>3, <3>4
      <4>. QED BY <1>1, Zenon
    <3>. HIDE DEF from, p, n
    <3>6. /\ p \in Seq(Frames) /\ Len(p) = n + 1 - from
          /\ \A i \in 1..(n + 1 - from) : p[i] = w[from + i - 1]
      <4>1. w \in Seq(Frames) /\ from \in Nat /\ n \in Nat /\ 1 <= from /\ from <= n + 1 /\ n <= Len(w)
        BY <1>0, <1>1, <3>4
      <4>2. /\ SubSeq(w, from, n) \in Seq(Frames) /\ Len(SubSeq(w, from, n)) = n + 1 - from
            /\ \A i \in 1..(n + 1 - from) : SubSeq(w, from, n)[i] = w[from + i - 1]
        BY <4>1, Piece, Zenon
      <4>. QED BY <3>5, <4>2, Zenon
    <3>7. n + 1 - from = Len(H) - a BY <1>0, <1>2 DEF from, n
    <3>8. ASSUME NEW i \in 1..(Len(H) - a) PROVE p[i].id = H[a + i]
      <4>a. \A f, x, j \in Nat : f + ((x + 2 - f) + j - 1) - 1 = x + j OBVIOUS
      <4>b. i \in Nat BY <1>0, <1>2
      <4>0. first + (from + i - 1) - 1 = a + i BY <1>0, <1>2, <4>a, <4>b, Zenon DEF from
      <4>. from + i - 1 \in 1..n /\ first + (from + i - 1) - 1 = a + i BY <1>0, <1>2, <3>4, <3>7, <4>0
      <4>1. p[i] = FrameAt(H, first + (from + i - 1) - 1) BY <1>1, <3>6, <3>7, Zenon DEF n
      <4>2. \A x : FrameAt(H, x).id = H[x] BY Zenon DEF FrameAt
      <4>. QED BY <4>0, <4>1, <4>2, Zenon
    <3>. QED BY <3>6, <3>7, <3>8, Zenon
  <2>. QED BY <2>1, <2>2, Zenon
<1>. HIDE DEF p
<1>5. /\ Ids(p) \in Seq(Requests) /\ Len(Ids(p)) = Len(H) - a
      /\ \A i \in 1..(Len(H) - a) : Ids(p)[i] = H[a + i]
  <2>1. \A i \in 1..(Len(H) - a) : a + i \in 1..Len(H) BY <1>0, <1>2
  <2>2. \A i \in 1..(Len(H) - a) : H[a + i] \in Requests BY <2>1, AtPlace, Zenon
  <2>3. Len(H) - a \in Nat BY <1>0, <1>2
  <2>4. Ids(p) = [i \in 1..(Len(H) - a) |-> H[a + i]] BY <1>4 DEF Ids
  <2>. QED BY <2>2, <2>3, <2>4
<1>6. anchor.covered \o Ids(p) \in Seq(Requests) /\ Len(anchor.covered \o Ids(p)) = Len(H)
  <2>1. a + (Len(H) - a) = Len(H) BY <1>0, <1>2
  <2>2. anchor.covered \in Seq(Requests) /\ Ids(p) \in Seq(Requests) BY <1>3, <1>5, Zenon
  <2>3. /\ anchor.covered \o Ids(p) \in Seq(Requests)
        /\ Len(anchor.covered \o Ids(p)) = Len(anchor.covered) + Len(Ids(p))
    BY <2>2, Joined, Zenon
  <2>. QED BY <1>3, <1>5, <2>1, <2>3, Zenon
<1>. \A i \in 1..Len(H) : (anchor.covered \o Ids(p))[i] = H[i]
  <2>. TAKE i \in 1..Len(H)
  <2>0. \A j \in 1..(Len(anchor.covered) + Len(Ids(p))) : (anchor.covered \o Ids(p))[j] =
           IF j <= Len(anchor.covered) THEN anchor.covered[j] ELSE Ids(p)[j - Len(anchor.covered)]
    BY <1>3, <1>5, Joined, Zenon
  <2>a. Len(anchor.covered) = a /\ i \in 1..(Len(anchor.covered) + Len(Ids(p))) BY <1>0, <1>2, <1>3, <1>5
  <2>1. (anchor.covered \o Ids(p))[i] = IF i <= a THEN anchor.covered[i] ELSE Ids(p)[i - a]
    BY <2>0, <2>a, Zenon
  <2>2. CASE i <= a BY <1>2, <1>3, <2>1, <2>2
  <2>. CASE i > a
    <3>. i - a \in 1..(Len(H) - a) /\ a + (i - a) = i BY <1>0, <1>2
    <3>. QED BY <1>2, <1>5, <2>1
  <2>. i <= a \/ i > a BY <1>0, <1>2
  <2>. QED BY <2>2, Zenon
<1>. QED BY <1>6, SameSeq, Zenon DEF Chains, p, w

-----------------------------------------------------------------------------
\* Two histories are the same up to the m-th request.
Agree(G, H, m) ==
  m \in Nat /\ m <= Len(G) /\ m <= Len(H) /\ \A i \in 1..m : G[i] = H[i]

LEMMA SameBeginning ==
  ASSUME NEW G \in Chains, NEW H \in Chains, NEW m, Agree(G, H, m)
  PROVE  /\ \A k \in 0..m : HashAt(G, k) = HashAt(H, k) /\ SubSeq(G, 1, k) = SubSeq(H, 1, k)
         /\ \A k \in 1..m : FrameAt(G, k) = FrameAt(H, k)
<1>0. /\ m \in Nat /\ m <= Len(G) /\ m <= Len(H) /\ Len(G) \in Nat /\ Len(H) \in Nat
      /\ \A i \in 1..m : G[i] = H[i]
  BY DEF Agree, Chains
<1>1. \A k \in 0..m : HashAt(G, k) = HashAt(H, k) BY <1>0 DEF HashAt
<1>2. ASSUME NEW k \in 1..m PROVE FrameAt(G, k) = FrameAt(H, k)
  <2>. k - 1 \in 0..m /\ G[k] = H[k] BY <1>0
  <2>. QED BY <1>1, Zenon DEF FrameAt
<1>3. ASSUME NEW k \in 0..m PROVE SubSeq(G, 1, k) = SubSeq(H, 1, k)
  <2>. k \in Nat /\ k <= Len(G) /\ k <= Len(H) /\ k + 1 - 1 = k /\ 1 <= k + 1 BY <1>0
  <2>1. /\ SubSeq(G, 1, k) \in Seq(Requests) /\ Len(SubSeq(G, 1, k)) = k + 1 - 1
        /\ \A i \in 1..(k + 1 - 1) : SubSeq(G, 1, k)[i] = G[1 + i - 1]
    BY Piece DEF Chains
  <2>. /\ SubSeq(H, 1, k) \in Seq(Requests) /\ Len(SubSeq(H, 1, k)) = k + 1 - 1
       /\ \A i \in 1..(k + 1 - 1) : SubSeq(H, 1, k)[i] = H[1 + i - 1]
    BY Piece DEF Chains
  <2>. \A i \in 1..k : G[1 + i - 1] = H[1 + i - 1]
    <3>. TAKE i \in 1..k
    <3>. 1 + i - 1 = i /\ i \in 1..m BY <1>0
    <3>. QED BY <1>0, Zenon
  <2>. \A i \in 1..Len(SubSeq(G, 1, k)) : SubSeq(G, 1, k)[i] = SubSeq(H, 1, k)[i]
    BY <2>1
  <2>. QED BY <2>1, SameSeq, Zenon
<1>. QED BY <1>1, <1>2, <1>3, Zenon

\* An anchor in the common part is one of both.
LEMMA AnchoredToo ==
  ASSUME NEW G \in Chains, NEW H \in Chains, NEW m, Agree(G, H, m),
         NEW anchor, Anchored(H, anchor), anchor.seq <= m
  PROVE  Anchored(G, anchor)
<1>. anchor \in Anchors /\ anchor.seq \in Nat /\ m \in Nat /\ m <= Len(G) /\ Len(G) \in Nat
  BY DEF Anchored, Anchors, Agree, Chains
<1>. anchor.seq \in 0..m /\ anchor.seq <= Len(G) OBVIOUS
<1>. HashAt(G, anchor.seq) = HashAt(H, anchor.seq) /\ SubSeq(G, 1, anchor.seq) = SubSeq(H, 1, anchor.seq)
  BY SameBeginning, Zenon
<1>. QED BY Zenon DEF Anchored

\* One more request.
LEMMA OneMore ==
  ASSUME NEW H \in Chains, NEW r \in Requests
  PROVE  /\ Append(H, r) \in Chains /\ Len(Append(H, r)) = Len(H) + 1 /\ Append(H, r)[Len(H) + 1] = r
         /\ Agree(Append(H, r), H, Len(H))
         /\ FrameAt(Append(H, r), Len(H) + 1) = [seq |-> Len(H) + 1, id |-> r, prev |-> HashAt(H, Len(H))]
<1>. /\ Append(H, r) \in Seq(Requests) /\ Len(Append(H, r)) = Len(H) + 1 /\ Append(H, r)[Len(H) + 1] = r
     /\ \A i \in 1..Len(H) : Append(H, r)[i] = H[i] /\ Len(H) \in Nat
  BY DEF Chains
<1>2. Agree(Append(H, r), H, Len(H)) BY DEF Agree, Chains
<1>3. HashAt(Append(H, r), Len(H)) = HashAt(H, Len(H))
  <2>. Append(H, r) \in Chains /\ Len(H) \in 0..Len(H) BY DEF Chains
  <2>. \A k \in 0..Len(H) : HashAt(Append(H, r), k) = HashAt(H, k) BY <1>2, SameBeginning, Zenon
  <2>. QED BY Zenon
<1>. (Len(H) + 1) - 1 = Len(H) OBVIOUS
<1>. FrameAt(Append(H, r), Len(H) + 1) = [seq |-> Len(H) + 1, id |-> r, prev |-> HashAt(H, Len(H))]
  BY <1>3, Zenon DEF FrameAt
<1>. QED BY <1>2, Zenon DEF Chains

\* Its frame at the end of the live segment.
LEMMA AppendImage ==
  ASSUME NEW H \in Chains, NEW segs, NEW frames, NEW first, Image(H, segs, frames, first),
         Len(frames) = Len(H) + 1 - first, NEW r \in Requests
  PROVE  Image(Append(H, r), segs, Append(frames, FrameAt(Append(H, r), Len(H) + 1)), first)
<1>. DEFINE G == Append(H, r)
            f == FrameAt(G, Len(H) + 1)
            n == Len(H) + 1 - first
<1>0. /\ Len(H) \in Nat /\ first \in Nat /\ first >= 1 /\ first <= Len(H) + 1
      /\ frames \in Seq(Frames) /\ n \in Nat
  BY ImageShape
<1>1. G \in Chains /\ Len(G) = Len(H) + 1 /\ Agree(G, H, Len(H)) BY OneMore, Zenon
<1>. HIDE DEF G
<1>2. f \in Frames
  <2>. \A k \in 1..Len(G) : FrameAt(G, k) \in Frames BY <1>1, AtPlace, Zenon
  <2>. Len(H) + 1 \in 1..Len(G) BY <1>0, <1>1
  <2>. QED BY Zenon
<1>. HIDE DEF f
<1>3. /\ Append(frames, f) \in Seq(Frames) /\ Len(Append(frames, f)) = n + 1
      /\ Append(frames, f)[n + 1] = f /\ \A i \in 1..n : Append(frames, f)[i] = frames[i]
  BY <1>0, <1>2
<1>4. ASSUME NEW i \in 1..(Len(G) + 1 - first) PROVE Append(frames, f)[i] = FrameAt(G, first + i - 1)
  <2>1. CASE i <= n
    <3>. i \in 1..n /\ first + i - 1 \in 1..Len(H) BY <1>0, <2>1
    <3>2. frames[i] = FrameAt(H, first + i - 1) BY Zenon DEF Image, Lays
    <3>. FrameAt(G, first + i - 1) = FrameAt(H, first + i - 1)
      <4>. \A k \in 1..Len(H) : FrameAt(G, k) = FrameAt(H, k) BY <1>1, SameBeginning, Zenon
      <4>. QED BY Zenon
    <3>. QED BY <1>3, <3>2, Zenon
  <2>. CASE i > n
    <3>. i = n + 1 /\ first + i - 1 = Len(H) + 1 BY <1>0, <1>1
    <3>. QED BY <1>3, Zenon DEF f
  <2>. i <= n \/ i > n BY <1>0
  <2>. QED BY <2>1, Zenon
<1>5. Lays(G, Append(frames, f), first)
  <2>. first <= Len(G) + 1 /\ Len(Append(frames, f)) = Len(G) + 1 - first BY <1>0, <1>1, <1>3
  <2>. QED BY <1>0, <1>3, <1>4, Zenon DEF Lays
<1>. segs # <<>> => segs[Len(segs)].last <= Len(G)
  <2>. HAVE segs # <<>>
  <2>. segs[Len(segs)].last <= Len(H) /\ segs[Len(segs)] \in Segments BY SealedSize, Zenon DEF Image
  <2>. segs[Len(segs)].last \in Nat BY Zenon DEF Segments
  <2>. QED BY <1>0, <1>1
<1>. first <= Len(G) BY <1>0, <1>1, Zenon
<1>. QED BY <1>5, Zenon DEF Image, G, f

\* Part of a frame at the end of the live segment.
LEMMA TornImage ==
  ASSUME NEW H \in Chains, NEW segs, NEW frames, NEW first, Image(H, segs, frames, first),
         Len(frames) = Len(H) + 1 - first,
         NEW t \in Frames, t.id = Torn, t.seq \in {0, Len(H) + 1}
  PROVE  Image(H, segs, Append(frames, t), first)
<1>. DEFINE n == Len(H) + 1 - first
<1>. /\ Len(H) \in Nat /\ first \in Nat /\ first >= 1 /\ first <= Len(H) + 1
     /\ frames \in Seq(Frames) /\ n \in Nat
  BY ImageShape
<1>. /\ Append(frames, t) \in Seq(Frames) /\ Len(Append(frames, t)) = n + 1
     /\ Append(frames, t)[n + 1] = t /\ \A i \in 1..n : Append(frames, t)[i] = frames[i]
  OBVIOUS
<1>2. \A i \in 1..n : Append(frames, t)[i] = FrameAt(H, first + i - 1) BY Zenon DEF Image, Lays
<1>. n + 1 = Len(H) + 2 - first OBVIOUS
<1>. Lays(H, Append(frames, t), first) BY <1>2, Zenon DEF Lays
<1>. QED BY Zenon DEF Image

Upto(s, n) == SubSeq(s, 1, n)

\* Frames lost from the end of the live segment, so that m are left.
Cuttable(H, segs, first, m) ==
  m <= Len(H) + 1 - first /\ SealedFrames(segs) <= m /\ (segs = <<>> /\ first > 1 => m >= 1)

LEMMA CutImage ==
  ASSUME NEW H \in Chains, NEW segs, NEW frames, NEW first, Image(H, segs, frames, first),
         NEW m \in Nat, Cuttable(H, segs, first, m)
  PROVE  /\ Upto(H, first - 1 + m) \in Chains /\ Len(Upto(H, first - 1 + m)) = first - 1 + m
         /\ Agree(Upto(H, first - 1 + m), H, first - 1 + m)
         /\ Image(Upto(H, first - 1 + m), segs, Upto(frames, m), first)
         /\ Len(Upto(frames, m)) = m
<1>. DEFINE n == first - 1 + m
            G == Upto(H, n)
            l == Upto(frames, m)
<1>h. m <= Len(H) + 1 - first /\ SealedFrames(segs) <= m BY Zenon DEF Cuttable
<1>0. /\ Len(H) \in Nat /\ first \in Nat /\ first >= 1 /\ first <= Len(H) + 1
      /\ frames \in Seq(Frames) /\ Len(frames) \in Nat /\ m <= Len(frames)
      /\ n \in Nat /\ n <= Len(H) /\ 1 <= n + 1 /\ n + 1 - 1 = n /\ m + 1 - 1 = m /\ 1 <= m + 1
  <2>. /\ Len(H) \in Nat /\ first \in Nat /\ first >= 1 /\ first <= Len(H) + 1
       /\ frames \in Seq(Frames) /\ Len(frames) \in Nat
       /\ Len(frames) \in {Len(H) + 1 - first, Len(H) + 2 - first}
    BY ImageShape, Zenon
  <2>. QED BY <1>h
<1>1. segs # <<>> => SealedFrames(segs) = segs[Len(segs)].last + 1 - first BY ImageShape
<1>2. G \in Seq(Requests) /\ Len(G) = n + 1 - 1 /\ \A i \in 1..(n + 1 - 1) : G[i] = H[1 + i - 1]
  BY <1>0, Piece DEF Chains, Upto
<1>3. l \in Seq(Frames) /\ Len(l) = m + 1 - 1 /\ \A i \in 1..(m + 1 - 1) : l[i] = frames[1 + i - 1]
  BY <1>0, Piece DEF Upto
<1>. HIDE DEF G, l
<1>4. G \in Chains /\ Len(G) = n /\ Len(l) = m BY <1>0, <1>2, <1>3, Zenon DEF Chains
<1>5. \A i \in 1..n : G[i] = H[i]
  <2>. \A i \in Nat : 1 + i - 1 = i OBVIOUS
  <2>. QED BY <1>0, <1>2
<1>6. Agree(G, H, n) BY <1>0, <1>4, <1>5 DEF Agree
<1>7. \A k \in 1..n : FrameAt(G, k) = FrameAt(H, k) BY <1>4, <1>6, SameBeginning, Zenon
<1>8. \A i \in 1..m : l[i] = FrameAt(G, first + i - 1)
  <2>. TAKE i \in 1..m
  <2>. 1 + i - 1 = i /\ i \in 1..(Len(H) + 1 - first) /\ first + i - 1 \in 1..n BY <1>0
  <2>. frames[i] = FrameAt(H, first + i - 1) BY Zenon DEF Image, Lays
  <2>. l[i] = frames[i] BY <1>0, <1>3, Zenon
  <2>. QED BY <1>7, Zenon
<1>9. Lays(G, l, first)
  <2>. Len(G) + 1 - first = m /\ first <= Len(G) + 1 BY <1>0, <1>4
  <2>. QED BY <1>0, <1>3, <1>4, <1>8, Zenon DEF Lays
<1>10. segs # <<>> => segs[1].first = first /\ segs[Len(segs)].last <= Len(G)
  <2>. HAVE segs # <<>>
  <2>1. segs[Len(segs)] \in Segments BY SealedSize, Zenon DEF Image
  <2>2. segs[Len(segs)].last \in Nat BY <2>1, Zenon DEF Segments
  <2>. segs[Len(segs)].last <= Len(G)
    <3>. DEFINE p == segs[Len(segs)].last
    <3>. p \in Nat /\ SealedFrames(segs) = p + 1 - first BY <1>1, <2>2, Zenon
    <3>. HIDE DEF p
    <3>. p <= Len(G) BY <1>0, <1>4, <1>h
    <3>. QED BY Zenon DEF p
  <2>. QED BY Zenon DEF Image
<1>. segs = <<>> => first = 1 \/ first <= Len(G) BY <1>0, <1>4 DEF Cuttable
<1>. Image(G, segs, l, first) BY <1>9, <1>10, Zenon DEF Image
<1>. QED BY <1>4, <1>6, Zenon DEF G, l

\* The newest sealed name is lost: its frames are in the live segment again.
LEMMA UnsealImage ==
  ASSUME NEW H \in Chains, NEW segs, NEW frames, NEW first, Image(H, segs, frames, first),
         segs # <<>>
  PROVE  Image(H, SubSeq(segs, 1, Len(segs) - 1), frames, first)
<1>. DEFINE m == Len(segs) - 1
            s == SubSeq(segs, 1, m)
<1>a. Len(H) \in Nat /\ first \in Nat BY ImageShape, Zenon
<1>b. segs \in Seq(Segments) BY Zenon DEF Image, Ranges
<1>c. Len(segs) \in Nat /\ Len(segs) >= 1 BY SealedSize, Zenon DEF Image
<1>0. /\ Len(H) \in Nat /\ first \in Nat /\ m \in Nat /\ Len(segs) = m + 1
      /\ m <= Len(segs) /\ m + 1 - 1 = m /\ 1 <= m + 1
  BY <1>a, <1>c
<1>1. s \in Seq(Segments) /\ Len(s) = m + 1 - 1 /\ \A i \in 1..(m + 1 - 1) : s[i] = segs[1 + i - 1]
  BY <1>0, <1>b, Piece
<1>. HIDE DEF s
<1>2. \A i \in 1..m : s[i] = segs[i]
  <2>. \A i \in Nat : 1 + i - 1 = i OBVIOUS
  <2>. QED BY <1>0, <1>1
<1>3. \A i \in 1..m : i \in 1..Len(segs) BY <1>0
<1>4. Len(s) = m BY <1>0, <1>1, Zenon
<1>5. Contiguous(s)
  <2>. SUFFICES ASSUME NEW i \in 1..(Len(s) - 1) PROVE s[i + 1].first = s[i].last + 1
    BY Zenon DEF Contiguous
  <2>. i \in 1..m /\ i + 1 \in 1..m /\ i \in 1..(Len(segs) - 1) BY <1>0, <1>4
  <2>. segs[i + 1].first = segs[i].last + 1 BY Zenon DEF Image, Ranges, Contiguous
  <2>. QED BY <1>2, Zenon
<1>6. Ranges(s)
  <2>. \A i \in 1..m : 1 <= s[i].first /\ s[i].first <= s[i].last BY <1>2, <1>3, Zenon DEF Image, Ranges
  <2>. \A i, j \in 1..m : i < j => s[i].last < s[j].first BY <1>2, <1>3, Zenon DEF Image, Ranges
  <2>. QED BY <1>0, <1>1, <1>4, <1>5, Zenon DEF Ranges
<1>7. \A i \in 1..Len(segs) : segs[i].first \in Nat /\ segs[i].last \in Nat
  <2>. \A i \in 1..Len(segs) : segs[i] \in Segments BY <1>b
  <2>. QED BY Zenon DEF Segments
<1>e. s \in Seq(Segments) BY <1>1, Zenon
<1>8. CASE m = 0
  <2>0. Len(s) = 0 BY <1>4, <1>8, Zenon
  <2>1. s = <<>> BY <1>e, <2>0
  <2>. first <= Len(H)
    <3>. Len(segs) = 1 /\ 1 \in 1..Len(segs) BY <1>c, <1>8
    <3>. segs[1].first = first /\ segs[1].last <= Len(H) /\ segs[1].first <= segs[1].last
      BY Zenon DEF Image, Ranges
    <3>. QED BY <1>0, <1>7
  <2>. QED BY <1>6, <2>1, Zenon DEF Image, s
<1>9. CASE m # 0
  <2>. 1 \in 1..m /\ m \in 1..m /\ m < Len(segs) /\ Len(segs) \in 1..Len(segs) /\ m \in 1..Len(segs) BY <1>0, <1>9
  <2>2. s[1].first = first /\ s[Len(s)] = segs[m] BY <1>2, <1>4, Zenon DEF Image
  <2>3. segs[m].last < segs[Len(segs)].first /\ segs[Len(segs)].first <= segs[Len(segs)].last
        /\ segs[Len(segs)].last <= Len(H)
    BY Zenon DEF Image, Ranges
  <2>. segs[m].last <= Len(H) BY <1>0, <1>7, <2>3
  <2>. s # <<>> BY <1>e, <1>4, <1>9, Zenon
  <2>. QED BY <1>6, <2>2, Zenon DEF Image, s
<1>. QED BY <1>8, <1>9, Zenon

\* The oldest segment is deleted.
\* There is one, and the live segment is neither empty nor torn.
Unlinkable(H, segs, frames, first) ==
  segs # <<>> /\ Len(frames) > SealedFrames(segs) /\ Len(frames) = Len(H) + 1 - first

LEMMA UnlinkImage ==
  ASSUME NEW H \in Chains, NEW segs, NEW frames, NEW first, Image(H, segs, frames, first),
         Unlinkable(H, segs, frames, first)
  PROVE  LET n == Size(segs[1])
         IN /\ n \in Nat /\ n >= 1 /\ n < Len(frames) /\ segs[1].last + 1 = first + n
            /\ Image(H, Tail(segs), SubSeq(frames, n + 1, Len(frames)), first + n)
            /\ Len(SubSeq(frames, n + 1, Len(frames))) = Len(frames) - n
            /\ \A i \in 1..(Len(frames) - n) : SubSeq(frames, n + 1, Len(frames))[i] = frames[n + i]
            /\ SealedFrames(Tail(segs)) = SealedFrames(segs) - n
<1>. DEFINE n == Size(segs[1])
            N == Len(frames)
            l == SubSeq(frames, n + 1, N)
            s == Tail(segs)
            m == Len(segs) - 1
<1>s. segs # <<>> BY Zenon DEF Unlinkable
<1>0. /\ Len(H) \in Nat /\ first \in Nat /\ first >= 1 /\ first <= Len(H) + 1
      /\ frames \in Seq(Frames) /\ N \in Nat /\ N = Len(H) + 1 - first
      /\ SealedFrames(segs) \in Nat /\ SealedFrames(segs) = segs[Len(segs)].last + 1 - first
      /\ N > SealedFrames(segs)
  BY <1>s, ImageShape DEF Unlinkable
<1>1. /\ Len(segs) \in Nat /\ Len(segs) >= 1 /\ n \in Nat /\ n >= 1 /\ SealedFrames(segs) >= n
      /\ segs[1] \in Segments /\ segs[Len(segs)] \in Segments
  BY <1>s, SealedSize, Zenon DEF Image
<1>2. n = segs[1].last - segs[1].first + 1 /\ segs[1].first = first BY <1>s, Zenon DEF Size, Image
<1>3. \A i \in 1..Len(segs) : segs[i].first \in Nat /\ segs[i].last \in Nat
  <2>1. segs \in Seq(Segments) BY Zenon DEF Image, Ranges
  <2>2. \A i \in 1..Len(segs) : segs[i] \in Segments BY <2>1
  <2>. QED BY <2>2, Zenon DEF Segments
<1>. HIDE DEF n
<1>a. Len(segs) \in Nat /\ Len(segs) >= 1 /\ n \in Nat /\ n >= 1 /\ SealedFrames(segs) >= n BY <1>1, Zenon
<1>b. N > SealedFrames(segs) /\ N \in Nat /\ first \in Nat /\ SealedFrames(segs) \in Nat /\ Len(H) \in Nat BY <1>0, Zenon
<1>c. segs[1].first \in Nat /\ segs[1].last \in Nat /\ segs[Len(segs)].last \in Nat
  <2>1. 1 \in 1..Len(segs) /\ Len(segs) \in 1..Len(segs) BY <1>a
  <2>. QED BY <1>3, <2>1, Zenon
<1>4. n < N /\ segs[1].last + 1 = first + n /\ m \in Nat /\ N + 1 - (n + 1) = N - n /\ n + 1 <= N + 1 /\ N - n \in Nat
  <2>1. n < N BY <1>a, <1>b
  <2>2. segs[1].last + 1 = first + n BY <1>2, <1>c
  <2>. QED BY <1>a, <1>b, <2>1, <2>2
<1>5. l \in Seq(Frames) /\ Len(l) = N - n /\ \A i \in 1..(N - n) : l[i] = frames[n + i]
  BY <1>0, <1>a, <1>4, After, Zenon
<1>6. s \in Seq(Segments) /\ Len(s) = m /\ \A i \in 1..m : s[i] = segs[i + 1]
  <2>1. segs \in Seq(Segments) BY Zenon DEF Image, Ranges
  <2>. QED BY <1>s, <2>1, Parted, Zenon
<1>. HIDE DEF l, s
<1>7. Len(l) = N - n /\ \A i \in 1..(N - n) : l[i] = frames[n + i] BY <1>5
<1>8. Lays(H, l, first + n)
  <2>1. \A i \in 1..(N - n) : l[i] = FrameAt(H, (first + n) + i - 1)
    <3>. TAKE i \in 1..(N - n)
    <3>1. n + i \in 1..(Len(H) + 1 - first) /\ first + (n + i) - 1 = (first + n) + i - 1
      <4>1. N = Len(H) + 1 - first /\ n < N BY <1>0, <1>4, Zenon
      <4>. QED BY <1>a, <1>b, <4>1
    <3>2. frames[n + i] = FrameAt(H, first + (n + i) - 1) BY <3>1, Zenon DEF Image, Lays
    <3>. QED BY <1>7, <3>1, <3>2, Zenon
  <2>2. /\ N - n = Len(H) + 1 - (first + n) /\ first + n \in Nat /\ first + n >= 1 /\ first + n <= Len(H) + 1
    BY <1>0, <1>1, <1>4
  <2>. QED BY <1>5, <1>7, <2>1, <2>2, Zenon DEF Lays
<1>9. Contiguous(s)
  <2>. SUFFICES ASSUME NEW i \in 1..(Len(s) - 1) PROVE s[i + 1].first = s[i].last + 1
    BY Zenon DEF Contiguous
  <2>1. i \in 1..m /\ i + 1 \in 1..m /\ i + 1 \in 1..(Len(segs) - 1) BY <1>1, <1>4, <1>6
  <2>2. segs[(i + 1) + 1].first = segs[i + 1].last + 1 BY <2>1, Zenon DEF Image, Ranges, Contiguous
  <2>. QED BY <1>6, <2>1, <2>2, Zenon
<1>10. Ranges(s)
  <2>1. \A i \in 1..m : i + 1 \in 1..Len(segs) BY <1>1
  <2>2. \A i, j \in 1..m : i < j => i + 1 < j + 1 OBVIOUS
  <2>3. \A i \in 1..m : 1 <= s[i].first /\ s[i].first <= s[i].last BY <1>6, <2>1, Zenon DEF Image, Ranges
  <2>4. \A i, j \in 1..m : i < j => s[i].last < s[j].first
    <3>. TAKE i, j \in 1..m
    <3>. HAVE i < j
    <3>1. segs[i + 1].last < segs[j + 1].first BY <2>1, <2>2, Zenon DEF Image, Ranges
    <3>. QED BY <1>6, <3>1, Zenon
  <2>. QED BY <1>6, <1>9, <2>3, <2>4, Zenon DEF Ranges
<1>11. CASE m = 0
  <2>0. s \in Seq(Segments) /\ Len(s) = 0 BY <1>6, <1>11, Zenon
  <2>1. s = <<>> BY <2>0
  <2>2. first + n <= Len(H) BY <1>0, <1>1, <1>4
  <2>3. SealedFrames(s) = 0 BY <2>1, Zenon DEF SealedFrames
  <2>4. Len(segs) = 1 BY <1>1, <1>11
  <2>5. SealedFrames(segs) - n = 0
    <3>1. SealedFrames(segs) = segs[1].last + 1 - first /\ segs[1].last + 1 = first + n BY <1>0, <1>4, <2>4, Zenon
    <3>2. \A x, f, k \in Nat : x + 1 = f + k => (x + 1 - f) - k = 0 OBVIOUS
    <3>a. segs[1].last \in Nat /\ first \in Nat /\ n \in Nat BY <1>a, <1>b, <1>c, Zenon
    <3>3. (segs[1].last + 1 - first) - n = 0 BY <3>1, <3>2, <3>a, Zenon
    <3>. QED BY <3>1, <3>3, Zenon
  <2>6. Image(H, s, l, first + n) BY <1>8, <1>10, <2>1, <2>2, Zenon DEF Image
  <2>. QED BY <1>1, <1>4, <1>7, <2>3, <2>5, <2>6, Zenon DEF n, l, s
<1>12. CASE m # 0
  <2>1. 1 \in 1..m /\ m \in 1..m /\ m + 1 = Len(segs) /\ 1 \in 1..(Len(segs) - 1) 
    <3>1. \A k \in Nat : k >= 1 /\ k - 1 # 0 => 1 \in 1..(k - 1) /\ k - 1 \in 1..(k - 1) /\ (k - 1) + 1 = k OBVIOUS
    <3>. QED BY <1>a, <1>12, <3>1, Zenon
  <2>2. s # <<>> BY <1>6, <1>12, Zenon
  <2>3. s[1].first = segs[1].last + 1
    <3>1. segs[1 + 1].first = segs[1].last + 1 BY <2>1, Zenon DEF Image, Ranges, Contiguous
    <3>. QED BY <1>6, <2>1, <3>1, Zenon
  <2>4. s[Len(s)].last = segs[Len(segs)].last BY <1>6, <2>1, Zenon
  <2>5. s[Len(s)].last <= Len(H) BY <1>s, <2>4, Zenon DEF Image
  <2>6. Image(H, s, l, first + n) BY <1>4, <1>8, <1>10, <2>2, <2>3, <2>5, Zenon DEF Image
  <2>7. SealedFrames(s) = s[Len(s)].last - s[1].first + 1 BY <2>2, Zenon DEF SealedFrames
  <2>8. Len(segs) \in 1..Len(segs) BY <1>1
  <2>9. SealedFrames(s) = SealedFrames(segs) - n 
    <3>1. SealedFrames(segs) = segs[Len(segs)].last + 1 - first BY <1>0, Zenon
    <3>2. segs[1].last + 1 = first + n BY <1>4, Zenon
    <3>. DEFINE x == segs[Len(segs)].last
                y == segs[1].last
    <3>3. x \in Nat /\ y \in Nat /\ y + 1 = first + n BY <1>c, <3>2, Zenon
    <3>. HIDE DEF x, y
    <3>4. x - (y + 1) + 1 = (x + 1 - first) - n BY <1>a, <1>b, <3>3
    <3>. QED BY <2>3, <2>4, <2>7, <3>1, <3>4, Zenon DEF x, y
  <2>. QED BY <1>1, <1>4, <1>7, <2>6, <2>9, Zenon DEF n, l, s
<1>. QED BY <1>11, <1>12, Zenon

\* A deletion is lost: the segment is back before the others.
LEMMA RelinkImage ==
  ASSUME NEW H \in Chains, NEW segs, NEW frames, NEW first, Image(H, segs, frames, first),
         NEW u \in Unlinked, Removed(H, u, first)
  PROVE  Image(H, <<u.segment>> \o segs, u.frames \o frames, u.segment.first)
<1>. DEFINE a == u.segment.first
            z == u.segment.last
            k == Len(u.frames)
            N == Len(frames)
            s == <<u.segment>> \o segs
            l == u.frames \o frames
            c == Len(segs)
<1>0. /\ Len(H) \in Nat /\ first \in Nat /\ first >= 1 /\ first <= Len(H) + 1 /\ N \in Nat
      /\ N \in {Len(H) + 1 - first, Len(H) + 2 - first}
  BY ImageShape, Zenon
<1>1. u.segment \in Segments /\ u.frames \in Seq(Frames) /\ frames \in Seq(Frames) /\ segs \in Seq(Segments)
  BY ImageShape, Zenon DEF Unlinked, Image, Ranges
<1>2. a \in Nat /\ z \in Nat /\ k \in Nat /\ c \in Nat BY <1>1 DEF Segments
<1>3. 1 <= a /\ a <= z /\ z + 1 = first /\ \A i \in 1..k : u.frames[i] = FrameAt(H, a + i - 1)
  BY Zenon DEF Removed
<1>4. k = z - a + 1 BY Zenon DEF Removed, Size
<1>5. /\ s \in Seq(Segments) /\ Len(s) = c + 1 /\ s[1] = u.segment
      /\ \A i \in 1..c : s[i + 1] = segs[i]
  <2>. <<u.segment>> \in Seq(Segments) /\ Len(<<u.segment>>) = 1 /\ <<u.segment>>[1] = u.segment BY <1>1
  <2>2. /\ s \in Seq(Segments) /\ Len(s) = Len(<<u.segment>>) + c
        /\ \A i \in 1..(Len(<<u.segment>>) + c) :
             s[i] = IF i <= Len(<<u.segment>>) THEN <<u.segment>>[i] ELSE segs[i - Len(<<u.segment>>)]
    BY <1>1, Joined, Zenon
  <2>3. Len(s) = c + 1 /\ \A i \in 1..(c + 1) : s[i] = IF i <= 1 THEN <<u.segment>>[i] ELSE segs[i - 1]
    <3>. 1 + c = c + 1 BY <1>2
    <3>. QED BY <2>2, Zenon
  <2>. 1 \in 1..(c + 1) BY <1>2
  <2>. \A i \in 1..c : i + 1 \in 1..(c + 1) /\ ~(i + 1 <= 1) /\ (i + 1) - 1 = i BY <1>2
  <2>. QED BY <2>2, <2>3
<1>6. /\ l \in Seq(Frames) /\ Len(l) = k + N
      /\ \A i \in 1..(k + N) : l[i] = IF i <= k THEN u.frames[i] ELSE frames[i - k]
  BY <1>1, Joined, Zenon
<1>. HIDE DEF s, l, k, N, c, a, z
<1>7. ASSUME NEW i \in 1..(Len(H) + 1 - a) PROVE l[i] = FrameAt(H, a + i - 1)
  <2>1. CASE i <= k
    <3>. i \in 1..(k + N) /\ i \in 1..k BY <1>0, <1>2, <2>1
    <3>. QED BY <1>3, <1>6, <2>1, Zenon
  <2>2. CASE i > k
    <3>. /\ i \in 1..(k + N) /\ ~(i <= k) /\ i - k \in 1..(Len(H) + 1 - first)
         /\ first + (i - k) - 1 = a + i - 1
      BY <1>0, <1>2, <1>3, <1>4, <2>2
    <3>. frames[i - k] = FrameAt(H, first + (i - k) - 1) BY Zenon DEF Image, Lays
    <3>. QED BY <1>6, Zenon
  <2>. i <= k \/ i > k BY <1>0, <1>2
  <2>. QED BY <2>1, <2>2, Zenon
<1>8. Lays(H, l, a)
  <2>0. 1 <= a /\ a <= z /\ z + 1 = first /\ k = z - a + 1 /\ first <= Len(H) + 1 BY <1>0, <1>3, <1>4, Zenon
  <2>a. Len(H) \in Nat /\ first \in Nat /\ N \in Nat BY <1>0, Zenon
  <2>1. /\ a >= 1 /\ a <= Len(H) + 1
        /\ N = Len(H) + 1 - first => k + N = Len(H) + 1 - a
        /\ N = Len(H) + 2 - first => k + N = Len(H) + 2 - a
    BY <1>2, <2>0, <2>a
  <2>2. CASE N = Len(H) + 1 - first BY <1>2, <1>6, <1>7, <2>1, <2>2, Zenon DEF Lays
  <2>. CASE N # Len(H) + 1 - first
    <3>. N = Len(H) + 2 - first BY <1>0, Zenon
    <3>2. frames[N].id = Torn /\ frames[N].seq \in {0, Len(H) + 1} BY Zenon DEF Image, Lays, N
    <3>. k + N \in 1..(k + N) /\ ~(k + N <= k) /\ (k + N) - k = N BY <1>0, <1>2
    <3>. l[Len(l)] = frames[N] BY <1>6, Zenon
    <3>. QED BY <1>2, <1>6, <1>7, <2>1, <3>2, Zenon DEF Lays
  <2>. QED BY <2>2, Zenon
<1>9. Contiguous(s)
  <2>. SUFFICES ASSUME NEW i \in 1..(Len(s) - 1) PROVE s[i + 1].first = s[i].last + 1
    BY Zenon DEF Contiguous
  <2>1. CASE i = 1
    <3>. 1 \in 1..c /\ c # 0 BY <1>2, <1>5, <2>1
    <3>2. segs # <<>> BY DEF c
    <3>. segs[1].first = first BY <3>2, Zenon DEF Image
    <3>. s[1 + 1] = segs[1] /\ s[1].last = z BY <1>5, Zenon DEF z
    <3>. QED BY <1>3, <2>1, Zenon
  <2>2. CASE i # 1
    <3>. DEFINE j == i - 1
    <3>. j \in 1..c /\ j + 1 \in 1..c /\ j \in 1..(c - 1) /\ j + 1 = i BY <1>2, <1>5, <2>2
    <3>. HIDE DEF j
    <3>. segs[j + 1].first = segs[j].last + 1 BY Zenon DEF Image, Ranges, Contiguous, c
    <3>. s[j + 1] = segs[j] /\ s[(j + 1) + 1] = segs[j + 1] BY <1>5, Zenon
    <3>. QED BY Zenon
  <2>. QED BY <2>1, <2>2, Zenon
<1>10. \A i \in 1..c : segs[i].first \in Nat /\ segs[i].last \in Nat /\ 1 <= segs[i].first
                       /\ segs[i].first <= segs[i].last /\ z < segs[i].first
  <2>. TAKE i \in 1..c
  <2>0. segs[i] \in Segments BY <1>1 DEF c
  <2>1. segs[i].first \in Nat /\ segs[i].last \in Nat BY <2>0, Zenon DEF Segments
  <2>2. 1 <= segs[i].first /\ segs[i].first <= segs[i].last BY Zenon DEF Image, Ranges, c
  <2>3. 1 \in 1..c /\ c # 0 BY <1>2
  <2>4. segs # <<>> BY <2>3 DEF c
  <2>5. segs[1].first = first BY <2>4, Zenon DEF Image
  <2>6. CASE i = 1 BY <1>0, <1>2, <1>3, <2>1, <2>2, <2>5, <2>6
  <2>7. CASE i # 1
    <3>1. 1 < i BY <2>7
    <3>2. segs[1].last < segs[i].first /\ segs[1].first <= segs[1].last BY <2>3, <3>1, Zenon DEF Image, Ranges, c
    <3>3. segs[1] \in Segments BY <1>1, <2>3 DEF c
    <3>4. segs[1].last \in Nat BY <3>3, Zenon DEF Segments
    <3>. DEFINE p == segs[1].last
                q == segs[i].first
    <3>. p \in Nat /\ q \in Nat /\ first <= p /\ p < q BY <2>1, <2>5, <3>2, <3>4, Zenon
    <3>. HIDE DEF p, q
    <3>. z < q BY <1>0, <1>2, <1>3
    <3>. QED BY <2>1, <2>2, Zenon DEF q
  <2>. QED BY <2>6, <2>7, Zenon
<1>11. Ranges(s)
  <2>1. ASSUME NEW i \in 1..Len(s) PROVE i = 1 \/ \E x \in 1..c : i = x + 1 /\ s[i] = segs[x]
    <3>. SUFFICES ASSUME i # 1 PROVE \E x \in 1..c : i = x + 1 /\ s[i] = segs[x] BY Zenon
    <3>. i - 1 \in 1..c /\ i = (i - 1) + 1 BY <1>2, <1>5
    <3>. s[(i - 1) + 1] = segs[i - 1] BY <1>5, Zenon
    <3>. QED BY Zenon
  <2>2. s[1].first = a /\ s[1].last = z BY <1>5, Zenon DEF a, z
  <2>3. \A i \in 1..Len(s) : 1 <= s[i].first /\ s[i].first <= s[i].last
    BY <1>3, <1>10, <2>1, <2>2, Zenon
  <2>4. ASSUME NEW i \in 1..Len(s), NEW j \in 1..Len(s), i < j PROVE s[i].last < s[j].first
    <3>1. j # 1 BY <1>2, <1>5, <2>4
    <3>. PICK y \in 1..c : j = y + 1 /\ s[j] = segs[y] BY <2>1, <3>1, Zenon
    <3>3. CASE i = 1 BY <1>10, <2>2, <3>3, Zenon
    <3>4. CASE i # 1
      <4>. PICK x \in 1..c : i = x + 1 /\ s[i] = segs[x] BY <2>1, <3>4, Zenon
      <4>. x < y BY <1>2, <2>4
      <4>. segs[x].last < segs[y].first BY Zenon DEF Image, Ranges, c
      <4>. QED BY Zenon
    <3>. QED BY <3>3, <3>4, Zenon
  <2>. QED BY <1>5, <1>9, <2>3, <2>4, Zenon DEF Ranges
<1>12. s # <<>> /\ s[1].first = a BY <1>2, <1>5 DEF a
<1>. s[Len(s)].last <= Len(H)
  <2>1. CASE c = 0
    <3>1. Len(s) = 1 BY <1>5, <2>1
    <3>. s[Len(s)].last = z BY <1>5, <3>1, Zenon DEF z
    <3>. z <= Len(H) BY <1>0, <1>2, <1>3
    <3>. QED BY Zenon
  <2>. CASE c # 0
    <3>1. c \in 1..c BY <1>2
    <3>. segs # <<>> BY DEF c
    <3>. segs[c].last <= Len(H) BY Zenon DEF Image, c
    <3>. QED BY <1>5, <3>1, Zenon
  <2>. QED BY <2>1, Zenon
<1>. QED BY <1>8, <1>11, <1>12, Zenon DEF Image, s, l, a

\* One more range, behind the others.
Follows(segs, a, z) ==
  a \in Nat /\ z \in Nat /\ 1 <= a /\ a <= z /\ (segs # <<>> => segs[Len(segs)].last + 1 = a)

LEMMA RangesAppend ==
  ASSUME NEW segs, Ranges(segs), NEW a, NEW z, Follows(segs, a, z)
  PROVE  /\ Ranges(Append(segs, [first |-> a, last |-> z]))
         /\ Len(Append(segs, [first |-> a, last |-> z])) = Len(segs) + 1
         /\ Append(segs, [first |-> a, last |-> z])[Len(segs) + 1] = [first |-> a, last |-> z]
         /\ \A i \in 1..Len(segs) : Append(segs, [first |-> a, last |-> z])[i] = segs[i]
<1>. DEFINE g == [first |-> a, last |-> z]
            s == Append(segs, g)
            c == Len(segs)
<1>1. a \in Nat /\ z \in Nat /\ 1 <= a /\ a <= z /\ g.first = a /\ g.last = z /\ g \in Segments
  BY Zenon DEF Follows, Segments
<1>2. segs \in Seq(Segments) /\ c \in Nat BY DEF Ranges
<1>. HIDE DEF g
<1>3. s \in Seq(Segments) /\ Len(s) = c + 1 /\ s[c + 1] = g /\ \A i \in 1..c : s[i] = segs[i]
  BY <1>1, <1>2
<1>4. \A i \in 1..c : segs[i].first \in Nat /\ segs[i].last \in Nat
  <2>. \A i \in 1..c : segs[i] \in Segments BY <1>2
  <2>. QED BY Zenon DEF Segments
<1>. HIDE DEF s
<1>5. ASSUME NEW i \in 1..c PROVE segs[i].last < a
  <2>1. c \in 1..c /\ c # 0 BY <1>2
  <2>2. segs[c].last + 1 = a BY <1>2, <2>1 DEF Follows
  <2>3. CASE i = c BY <1>1, <1>4, <2>2, <2>3
  <2>4. CASE i # c
    <3>1. i < c BY <1>2, <2>4
    <3>2. segs[i].last < segs[c].first /\ segs[c].first <= segs[c].last BY <2>1, <3>1, Zenon DEF Ranges
    <3>. DEFINE p == segs[i].last
                q == segs[c].first
                r == segs[c].last
    <3>. p \in Nat /\ q \in Nat /\ r \in Nat /\ p < q /\ q <= r /\ r + 1 = a BY <1>4, <2>1, <2>2, <3>2, Zenon
    <3>. HIDE DEF p, q, r
    <3>. p < a BY <1>1
    <3>. QED BY Zenon DEF p
  <2>. QED BY <2>3, <2>4, Zenon
<1>6. \A i \in 1..(c + 1) : i = c + 1 \/ i \in 1..c BY <1>2
<1>7. Contiguous(s)
  <2>. SUFFICES ASSUME NEW i \in 1..(Len(s) - 1) PROVE s[i + 1].first = s[i].last + 1
    BY Zenon DEF Contiguous
  <2>. i \in 1..c BY <1>2, <1>3
  <2>2. CASE i = c
    <3>. segs[c].last + 1 = a
      <4>. c # 0 BY <1>2
      <4>. QED BY <1>2 DEF Follows
    <3>. QED BY <1>1, <1>3, <2>2, Zenon
  <2>. CASE i # c
    <3>. i \in 1..(c - 1) /\ i + 1 \in 1..c BY <1>2
    <3>. segs[i + 1].first = segs[i].last + 1 BY Zenon DEF Ranges, Contiguous
    <3>. QED BY <1>3, Zenon
  <2>. QED BY <2>2, Zenon
<1>8. ASSUME NEW i \in 1..(c + 1) PROVE 1 <= s[i].first /\ s[i].first <= s[i].last
  <2>. CASE i = c + 1 BY <1>1, <1>3, Zenon
  <2>. CASE i \in 1..c
    <3>. 1 <= segs[i].first /\ segs[i].first <= segs[i].last BY Zenon DEF Ranges
    <3>. QED BY <1>3, Zenon
  <2>. QED BY <1>6, Zenon
<1>9. ASSUME NEW i \in 1..(c + 1), NEW j \in 1..(c + 1), i < j PROVE s[i].last < s[j].first
  <2>. i \in 1..c BY <1>2, <1>9
  <2>. CASE j = c + 1 BY <1>1, <1>3, <1>5, Zenon
  <2>. CASE j \in 1..c
    <3>. segs[i].last < segs[j].first BY <1>9, Zenon DEF Ranges
    <3>. QED BY <1>3, Zenon
  <2>. QED BY <1>6, Zenon
<1>. Ranges(s) BY <1>3, <1>7, <1>8, <1>9, Zenon DEF Ranges
<1>. QED BY <1>3, Zenon DEF s, g

\* The live segment gets a sealed name.
LEMMA SealImage ==
  ASSUME NEW H \in Chains, NEW segs, NEW frames, NEW first, Image(H, segs, frames, first),
         NEW a, a = first + SealedFrames(segs), a <= Len(H)
  PROVE  /\ Image(H, Append(segs, [first |-> a, last |-> Len(H)]), frames, first)
         /\ SealedFrames(Append(segs, [first |-> a, last |-> Len(H)])) = Len(H) + 1 - first
<1>. DEFINE g == [first |-> a, last |-> Len(H)]
            s == Append(segs, g)
            c == Len(segs)
<1>0. /\ Len(H) \in Nat /\ first \in Nat /\ first >= 1 /\ SealedFrames(segs) \in Nat BY ImageShape, Zenon
<1>1. a \in Nat /\ 1 <= a BY <1>0
<1>2. c \in Nat BY SealedSize, Zenon DEF Image
<1>3. segs # <<>> => segs[c].last + 1 = a
  <2>. HAVE segs # <<>>
  <2>1. SealedFrames(segs) = segs[c].last + 1 - first BY ImageShape
  <2>2. segs[c] \in Segments BY SealedSize, Zenon DEF Image
  <2>. DEFINE p == segs[c].last
  <2>3. p \in Nat BY <2>2, Zenon DEF Segments
  <2>. SealedFrames(segs) = p + 1 - first BY <2>1, Zenon
  <2>. HIDE DEF p
  <2>. p + 1 = a BY <1>0, <2>3
  <2>. QED BY Zenon DEF p
<1>4. Follows(segs, a, Len(H)) BY <1>0, <1>1, <1>3, Zenon DEF Follows
<1>5. /\ Ranges(s) /\ Len(s) = c + 1 /\ s[c + 1] = g /\ \A i \in 1..c : s[i] = segs[i]
  BY <1>4, RangesAppend DEF Image
<1>6. g.first = a /\ g.last = Len(H) BY Zenon
<1>. HIDE DEF g, s
<1>7. s[1].first = first
  <2>1. CASE segs = <<>>
    <3>. c = 0 /\ SealedFrames(segs) = 0 BY <2>1, Zenon DEF SealedFrames
    <3>. c + 1 = 1 /\ a = first BY <1>0
    <3>. QED BY <1>5, <1>6, Zenon
  <2>. CASE segs # <<>>
    <3>1. Len(segs) >= 1 BY SealedSize, Zenon DEF Image
    <3>. 1 \in 1..c BY <1>2, <3>1
    <3>. segs[1].first = first BY Zenon DEF Image
    <3>. QED BY <1>5, Zenon
  <2>. QED BY <2>1, Zenon
<1>8. s[Len(s)].last = Len(H) BY <1>5, <1>6, Zenon
<1>9. s # <<>> BY <1>2, <1>5
<1>10. Image(H, s, frames, first) BY <1>0, <1>5, <1>7, <1>8, <1>9 DEF Image
<1>11. SealedFrames(s) = s[Len(s)].last - s[1].first + 1 BY <1>9, Zenon DEF SealedFrames
<1>. SealedFrames(s) = Len(H) - first + 1 BY <1>7, <1>8, <1>11, Zenon
<1>. Len(H) - first + 1 = Len(H) + 1 - first BY <1>0
<1>. QED BY <1>10, Zenon DEF s, g

-----------------------------------------------------------------------------
\* G is what a crash may leave of H.
Remains(G, H) ==
  /\ G \in Chains /\ Agree(G, H, Len(G))
  /\ checkpoint.seq <= Len(G) /\ Len(acked) <= Len(G)
  /\ unsynced = 0 => G = H

\* The numbers in a reachable state.
LEMMA DiskNumbers ==
  ASSUME NEW H \in Chains, NEW first, Types, Disk(H, first)
  PROVE  /\ Len(H) \in Nat /\ first \in Nat /\ first >= 1 /\ first <= Len(H) + 1
         /\ Len(log) \in Nat /\ Len(log) \in {Len(H) + 1 - first, Len(H) + 2 - first}
         /\ SealedFrames(sealed) \in Nat /\ unsynced \in Nat /\ unsynced <= Len(log) - SealedFrames(sealed)
         /\ checkpoint.seq \in Nat /\ checkpoint.seq <= Len(H) /\ first <= checkpoint.seq + 1
         /\ Len(acked) \in Nat /\ Len(acked) <= Len(H)
         /\ checkpoint.seq <= first - 1 + Len(log) - unsynced
         /\ Len(acked) <= first - 1 + Len(log) - unsynced
<1>1. Image(H, sealed, log, first) BY Zenon DEF Disk
<1>2. /\ Len(H) \in Nat /\ first \in Nat /\ first >= 1 /\ first <= Len(H) + 1
      /\ Len(log) \in Nat /\ Len(log) \in {Len(H) + 1 - first, Len(H) + 2 - first}
      /\ SealedFrames(sealed) \in Nat
  BY <1>1, ImageShape, Zenon
<1>3. checkpoint.seq \in Nat /\ checkpoint.seq <= Len(H) BY Zenon DEF Disk, Anchored, Anchors
<1>4. Len(acked) \in Nat /\ Len(acked) <= Len(H) BY DEF Disk, Prefix, Types, Chains
<1>. unsynced \in Nat BY Zenon DEF Types
<1>. /\ unsynced <= Len(log) - SealedFrames(sealed) /\ first <= checkpoint.seq + 1
     /\ checkpoint.seq <= first - 1 + Len(log) - unsynced
     /\ Len(acked) <= first - 1 + Len(log) - unsynced
  BY Zenon DEF Disk, Kept
<1>. QED BY <1>2, <1>3, <1>4, Zenon

LEMMA Itself ==
  ASSUME NEW H \in Chains, NEW first, Types, Disk(H, first)
  PROVE  Remains(H, H)
<1>. Len(H) \in Nat /\ checkpoint.seq <= Len(H) /\ Len(acked) <= Len(H) BY DiskNumbers, Zenon
<1>. QED BY DEF Remains, Agree

\* A frame of which only part was written.
LEMMA TearIs ==
  ASSUME NEW frame, frame.seq \in Nat, NEW t \in Tear(frame)
  PROVE  t \in Frames /\ t.id = Torn /\ t.seq \in {0, frame.seq}
<1>. PICK n \in {0, frame.seq} : t = [seq |-> n, prev |-> Genesis, id |-> Torn] BY Zenon DEF Tear
<1>2. n \in Nat OBVIOUS
<1>. t.id = Torn /\ t.seq = n BY Zenon
<1>. t \in Frames BY <1>2, Zenon DEF Frames
<1>. QED BY Zenon

\* k frames lost from the end of the log, of which no datasync was sure.
LEMMA CutIs ==
  ASSUME NEW H \in Chains, NEW first, Types, Disk(H, first), NEW k \in 1..unsynced
  PROVE  \E G : /\ Remains(G, H) /\ Image(G, sealed, SubSeq(log, 1, Len(log) - k), first)
                /\ Len(SubSeq(log, 1, Len(log) - k)) = Len(G) + 1 - first
                /\ log[Len(log) - k + 1].seq \in {0, Len(G) + 1}
<1>. DEFINE m == Len(log) - k
            G == Upto(H, first - 1 + m)
            l == Upto(log, m)
<1>0. /\ Len(H) \in Nat /\ first \in Nat /\ first >= 1 /\ first <= Len(H) + 1 /\ Len(log) \in Nat
      /\ Len(log) \in {Len(H) + 1 - first, Len(H) + 2 - first}
      /\ SealedFrames(sealed) \in Nat /\ unsynced \in Nat /\ unsynced <= Len(log) - SealedFrames(sealed)
  BY DiskNumbers, Zenon
<1>1. /\ Len(H) \in Nat /\ first \in Nat /\ first >= 1 /\ first <= Len(H) + 1 /\ Len(log) \in Nat
      /\ Len(log) <= Len(H) + 2 - first
      /\ SealedFrames(sealed) \in Nat /\ unsynced \in Nat /\ unsynced <= Len(log) - SealedFrames(sealed)
  BY <1>0
<1>2. /\ checkpoint.seq \in Nat /\ checkpoint.seq <= first - 1 + Len(log) - unsynced
      /\ Len(acked) \in Nat /\ Len(acked) <= first - 1 + Len(log) - unsynced
  BY DiskNumbers, Zenon
<1>3. Image(H, sealed, log, first) BY Zenon DEF Disk
<1>4. m \in Nat /\ m <= Len(H) + 1 - first /\ SealedFrames(sealed) <= m /\ k \in Nat /\ k >= 1 BY <1>1
<1>5. sealed = <<>> /\ first > 1 => m >= 1
  <2>. HAVE sealed = <<>> /\ first > 1
  <2>. unsynced < Len(log) BY Zenon DEF Disk
  <2>. QED BY <1>1
<1>. HIDE DEF m
<1>6. /\ G \in Chains /\ Len(G) = first - 1 + m /\ Agree(G, H, first - 1 + m)
      /\ Image(G, sealed, l, first) /\ Len(l) = m
  <2>. m \in Nat BY <1>4, Zenon
  <2>. Cuttable(H, sealed, first, m) BY <1>4, <1>5, Zenon DEF Cuttable
  <2>. QED BY <1>3, CutImage
<1>. HIDE DEF G, l
<1>7. /\ first - 1 + m >= first - 1 + Len(log) - unsynced /\ m = Len(G) + 1 - first /\ unsynced # 0
      /\ first + m = Len(G) + 1
  BY <1>1, <1>4, <1>6 DEF m
<1>8. checkpoint.seq <= Len(G) /\ Len(acked) <= Len(G)
  <2>. DEFINE x == checkpoint.seq
              y == Len(acked)
              g == Len(G)
              e == first - 1 + Len(log) - unsynced
  <2>. x \in Nat /\ y \in Nat /\ g \in Int /\ e \in Int /\ x <= e /\ y <= e /\ g >= e BY <1>1, <1>2, <1>4, <1>6, <1>7
  <2>. HIDE DEF x, y, g, e
  <2>. x <= g /\ y <= g OBVIOUS
  <2>. QED BY Zenon DEF x, y, g
<1>9. Remains(G, H) BY <1>6, <1>7, <1>8, Zenon DEF Remains
<1>. log[m + 1].seq \in {0, Len(G) + 1}
  <2>1. CASE m + 1 <= Len(H) + 1 - first
    <3>. m + 1 \in 1..(Len(H) + 1 - first) /\ first + (m + 1) - 1 = first + m BY <1>1, <1>4, <2>1
    <3>. log[m + 1] = FrameAt(H, first + (m + 1) - 1) BY <1>3, Zenon DEF Image, Lays
    <3>. log[m + 1].seq = first + m BY FrameFields
    <3>. QED BY <1>7, Zenon
  <2>. CASE ~(m + 1 <= Len(H) + 1 - first)
    <3>. m + 1 = Len(log) /\ Len(log) # Len(H) + 1 - first /\ Len(G) = Len(H)
      <4>1. m = Len(log) - k /\ ~(m + 1 <= Len(H) + 1 - first) /\ Len(G) = first - 1 + m BY <1>6 DEF m
      <4>. QED BY <1>1, <1>4, <4>1, LastPlace
    <3>. log[Len(log)].seq \in {0, Len(H) + 1} BY <1>3, Zenon DEF Image, Lays
    <3>. QED BY Zenon
  <2>. QED BY <2>1, Zenon
<1>. QED BY <1>6, <1>7, <1>9, Zenon DEF m, l, Upto

\* What a crash leaves of the segment files' content.
LEMMA CrashLogIs ==
  ASSUME NEW H \in Chains, NEW first, Types, Locks, Disk(H, first), Process(H, first),
         NEW l \in CrashLogs
  PROVE  \E G : Remains(G, H) /\ Image(G, sealed, l, first)
<1>0. Image(H, sealed, log, first) /\ Remains(H, H) BY Itself, Zenon DEF Disk
<1>1. log \in Seq(Frames) /\ Len(log) \in Nat /\ unsynced \in Nat BY <1>0, ImageShape, Zenon DEF Types
<1>2. ASSUME NEW k \in 0..unsynced, l = SubSeq(log, 1, Len(log) - k)
      PROVE  \E G : Remains(G, H) /\ Image(G, sealed, l, first)
  <2>1. CASE k = 0
    <3>1. Len(log) - k = Len(log) BY <1>1, <2>1
    <3>2. SubSeq(log, 1, Len(log)) = log BY <1>1
    <3>. QED BY <1>0, <1>2, <3>1, <3>2, Zenon
  <2>2. CASE k # 0
    <3>1. k \in 1..unsynced BY <1>1, <2>2
    <3>. QED BY <1>2, <3>1, CutIs, Zenon
  <2>. QED BY <2>1, <2>2, Zenon
<1>3. ASSUME NEW k \in 1..unsynced, NEW t \in Tear(log[Len(log) - k + 1]),
             l = Append(SubSeq(log, 1, Len(log) - k), t)
      PROVE  \E G : Remains(G, H) /\ Image(G, sealed, l, first)
  <2>1. PICK G : /\ Remains(G, H) /\ Image(G, sealed, SubSeq(log, 1, Len(log) - k), first)
                 /\ Len(SubSeq(log, 1, Len(log) - k)) = Len(G) + 1 - first
                 /\ log[Len(log) - k + 1].seq \in {0, Len(G) + 1}
    BY CutIs, Zenon
  <2>2. G \in Chains /\ Len(G) \in Nat BY <2>1 DEF Remains, Chains
  <2>3. log[Len(log) - k + 1].seq \in Nat BY <2>1, <2>2
  <2>4. t \in Frames /\ t.id = Torn /\ t.seq \in {0, log[Len(log) - k + 1].seq} BY <2>3, TearIs, Zenon
  <2>5. t.seq \in {0, Len(G) + 1} BY <2>1, <2>4, Zenon
  <2>6. Image(G, sealed, l, first) BY <1>3, <2>1, <2>2, <2>4, <2>5, TornImage, Zenon
  <2>. QED BY <2>1, <2>6, Zenon
<1>4. ASSUME group.step = "write", NEW t \in Tear(group.frames[group.done + 1]), l = Append(log, t)
      PROVE  \E G : Remains(G, H) /\ Image(G, sealed, l, first)
  <2>1. Committing BY <1>4, Zenon DEF Committing
  <2>2. AtHead(H, first) /\ GroupFrames(H) BY <2>1, Zenon DEF Locks, Process
  <2>3. Written = group.done /\ Passed = 0 BY <1>4, Zenon DEF Written, Passed
  <2>4. group.done \in Nat /\ walSequence \in Nat /\ group.frames \in Seq(Frames)
    BY Zenon DEF Types, Groups, FrameLists
  <2>5. Len(log) = Len(H) + 1 - first /\ walSequence + Written - Passed = Len(H) BY <2>2, Zenon DEF AtHead
  <2>6. group.done < Len(group.frames) BY <2>1, <2>2, Zenon DEF GroupFrames
  <2>7. group.done + 1 \in 1..Len(group.frames) BY <2>4, <2>6
  <2>8. group.frames[group.done + 1].seq = walSequence - Passed + (group.done + 1)
    BY <2>1, <2>2, <2>7, Zenon DEF GroupFrames
  <2>9. group.frames[group.done + 1].seq = Len(H) + 1
    <3>. DEFINE x == group.frames[group.done + 1].seq
                d == group.done
                h == Len(H)
    <3>1. x = walSequence - 0 + (d + 1) /\ walSequence + d - 0 = h /\ d \in Nat /\ walSequence \in Nat
      BY <2>3, <2>4, <2>5, <2>8, Zenon
    <3>. HIDE DEF x, d, h
    <3>2. x = h + 1 BY <3>1
    <3>. QED BY <3>2, Zenon DEF x, h
  <2>10. Len(H) \in Nat BY DiskNumbers, Zenon
  <2>11. t \in Frames /\ t.id = Torn /\ t.seq \in {0, Len(H) + 1} BY <2>9, <2>10, TearIs
  <2>12. Image(H, sealed, l, first) BY <1>0, <1>4, <2>5, <2>11, TornImage, Zenon
  <2>. QED BY <1>0, <2>12, Zenon
<1>5. \/ l \in { SubSeq(log, 1, Len(log) - k) : k \in 0..unsynced }
      \/ l \in UNION { { Append(SubSeq(log, 1, Len(log) - k), t) : t \in Tear(log[Len(log) - k + 1]) } :
                        k \in 1..unsynced }
      \/ group.step = "write" /\ l \in { Append(log, t) : t \in Tear(group.frames[group.done + 1]) }
  <2>. DEFINE A == { SubSeq(log, 1, Len(log) - k) : k \in 0..unsynced }
              B == UNION { { Append(SubSeq(log, 1, Len(log) - k), f) : f \in Tear(log[Len(log) - k + 1]) } :
                           k \in 1..unsynced }
              C == { Append(log, f) : f \in Tear(group.frames[group.done + 1]) }
  <2>1. l \in A \cup B \cup IF group.step = "write" THEN C ELSE {} BY Zenon DEF CrashLogs
  <2>. HIDE DEF A, B, C
  <2>2. l \in A \/ l \in B \/ (group.step = "write" /\ l \in C) BY <2>1, Zenon
  <2>. QED BY <2>2, Zenon DEF A, B, C
<1>. QED BY <1>2, <1>3, <1>4, <1>5, Zenon

\* What a crash leaves: the files of a history that keeps all that was
\* acknowledged and all that a checkpoint covers.
LEMMA CrashIs ==
  ASSUME NEW H \in Chains, NEW first, Types, Locks, Disk(H, first), Process(H, first),
         NEW f \in CrashFiles
  PROVE  \E G, a : /\ Remains(G, H) /\ Image(G, f.sealed, f.log, a) /\ a <= checkpoint.seq + 1
                   /\ Anchored(G, checkpoint)
<1>. DEFINE segs == {sealed} \cup IF renamed THEN {SubSeq(sealed, 1, Len(sealed) - 1)} ELSE {}
<1>0. Anchored(H, checkpoint) /\ first <= checkpoint.seq + 1 BY Zenon DEF Disk
<1>1. ASSUME NEW e \in [sealed : segs, log : CrashLogs]
      PROVE  \E G : Remains(G, H) /\ Image(G, e.sealed, e.log, first)
  <2>1. e.sealed \in segs /\ e.log \in CrashLogs BY Zenon
  <2>. PICK G : Remains(G, H) /\ Image(G, sealed, e.log, first) BY <2>1, CrashLogIs, Zenon
  <2>3. CASE e.sealed = sealed BY <2>3, Zenon
  <2>. CASE e.sealed # sealed
    <3>. renamed /\ e.sealed = SubSeq(sealed, 1, Len(sealed) - 1) BY <2>1, Zenon
    <3>. sealed # <<>> /\ G \in Chains BY Zenon DEF Disk, Remains
    <3>. QED BY UnsealImage, Zenon
  <2>. QED BY <2>3, Zenon
<1>2. ASSUME NEW G, Remains(G, H) PROVE Anchored(G, checkpoint)
  <2>. G \in Chains /\ Agree(G, H, Len(G)) /\ checkpoint.seq <= Len(G) BY <1>2, Zenon DEF Remains
  <2>. QED BY <1>0, AnchoredToo, Zenon
<1>3. CASE f \in [sealed : segs, log : CrashLogs] BY <1>0, <1>1, <1>2, <1>3, Zenon
<1>4. CASE f \notin [sealed : segs, log : CrashLogs]
  <2>. DEFINE u == unlinked[1]
  <2>1. /\ unlinked # <<>>
        /\ \E e \in [sealed : segs, log : CrashLogs] :
             f = [sealed |-> <<u.segment>> \o e.sealed, log |-> u.frames \o e.log]
    BY <1>4, Zenon DEF CrashFiles
  <2>2. PICK e \in [sealed : segs, log : CrashLogs] :
             f = [sealed |-> <<u.segment>> \o e.sealed, log |-> u.frames \o e.log]
    BY <2>1, Zenon
  <2>3. PICK G : Remains(G, H) /\ Image(G, e.sealed, e.log, first) BY <1>1, Zenon
  <2>4. u \in Unlinked
    <3>. unlinked \in Seq(Unlinked) BY Zenon DEF Types, Removals
    <3>. QED BY <2>1
  <2>5. Removed(H, u, first) BY <2>1, Zenon DEF Disk
  <2>6. G \in Chains /\ Agree(G, H, Len(G)) BY <2>3, Zenon DEF Remains
  <2>7. first \in Nat /\ first <= Len(G) + 1 /\ Len(G) \in Nat BY <2>3, <2>6, ImageShape, Zenon
  <2>. HIDE DEF u
  <2>8. u.segment.first \in Nat /\ u.segment.last \in Nat /\ Len(u.frames) \in Nat
    <3>. u.segment \in Segments /\ u.frames \in Seq(Frames) BY <2>4, Zenon DEF Unlinked
    <3>. QED BY DEF Segments
  <2>. DEFINE a == u.segment.first
              z == u.segment.last
              k == Len(u.frames)
  <2>9. 1 <= a /\ a <= z /\ z + 1 = first /\ k = z - a + 1 BY <2>5, Zenon DEF Removed, Size
  <2>10. Removed(G, u, first)
    <3>1. ASSUME NEW i \in 1..k PROVE u.frames[i] = FrameAt(G, a + i - 1)
      <4>1. u.frames[i] = FrameAt(H, a + i - 1) BY <2>5, Zenon DEF Removed
      <4>. HIDE DEF a, z, k
      <4>2. a \in Nat /\ z \in Nat /\ k \in Nat BY <2>8, Zenon DEF a, z, k
      <4>. a + i - 1 \in 1..Len(G) BY <2>7, <2>9, <4>2
      <4>. \A j \in 1..Len(G) : FrameAt(G, j) = FrameAt(H, j) BY <2>6, SameBeginning, Zenon
      <4>. QED BY <4>1, Zenon
    <3>. QED BY <2>5, <3>1, Zenon DEF Removed
  <2>11. Image(G, f.sealed, f.log, a)
    <3>. Image(G, <<u.segment>> \o e.sealed, u.frames \o e.log, a) BY <2>3, <2>4, <2>6, <2>10, RelinkImage, Zenon
    <3>. QED BY <2>2, Zenon
  <2>. a <= checkpoint.seq + 1
    <3>. checkpoint.seq \in Nat BY DiskNumbers, Zenon
    <3>. HIDE DEF a, z
    <3>. a \in Nat /\ z \in Nat BY <2>8, Zenon DEF a, z
    <3>. QED BY <1>0, <2>7, <2>9
  <2>. QED BY <1>2, <2>3, <2>11, Zenon
<1>. QED BY <1>3, <1>4, Zenon

-----------------------------------------------------------------------------
\* The wal lock.
LEMMA Queued ==
  ASSUME NEW t \in Tickets, NEW k \in Kinds
  PROVE  /\ Append(t, k) \in Tickets /\ In(k, Append(t, k)) /\ Append(t, k) # <<>>
         /\ \A j : (Top(t, j) => Top(Append(t, k), j)) /\ (In(j, t) => In(j, Append(t, k)))
<1>. /\ t \in Seq(Kinds) /\ Append(t, k) \in Seq(Kinds) /\ Len(t) \in Nat /\ Len(Append(t, k)) = Len(t) + 1
     /\ Append(t, k)[Len(t) + 1] = k /\ \A i \in 1..Len(t) : Append(t, k)[i] = t[i]
  BY DEF Tickets
<1>2. In(k, Append(t, k))
  <2>. Len(t) + 1 \in 1..Len(Append(t, k)) OBVIOUS
  <2>. QED BY Zenon DEF In
<1>3. ASSUME NEW j, In(j, t) PROVE In(j, Append(t, k))
  <2>. PICK i \in 1..Len(t) : t[i] = j BY <1>3, Zenon DEF In
  <2>. i \in 1..Len(Append(t, k)) /\ Append(t, k)[i] = j OBVIOUS
  <2>. QED BY Zenon DEF In
<1>4. ASSUME NEW j, Top(t, j) PROVE Top(Append(t, k), j)
  <2>. t # <<>> /\ Head(t) = j BY <1>4, Zenon DEF Top
  <2>. Append(t, k) # <<>> /\ Head(Append(t, k)) = Head(t) OBVIOUS
  <2>. QED BY Zenon DEF Top
<1>. Append(t, k) # <<>> OBVIOUS
<1>. QED BY <1>2, <1>3, <1>4, Zenon DEF Tickets

LEMMA Released ==
  ASSUME NEW t \in Tickets, NEW k, Top(t, k)
  PROVE  Tail(t) \in Tickets /\ \A j : j # k /\ In(j, t) => In(j, Tail(t))
<1>1. t \in Seq(Kinds) /\ t # <<>> /\ Head(t) = k BY Zenon DEF Tickets, Top
<1>. /\ Tail(t) \in Seq(Kinds) /\ Len(Tail(t)) = Len(t) - 1 /\ Len(t) \in Nat /\ t[1] = k
     /\ \A i \in 1..Len(Tail(t)) : Tail(t)[i] = t[i + 1]
  BY <1>1, Parted
<1>. ASSUME NEW j, j # k, In(j, t) PROVE In(j, Tail(t))
  <2>. PICK i \in 1..Len(t) : t[i] = j BY Zenon DEF In
  <2>2. i # 1 BY Zenon
  <2>. i - 1 \in 1..Len(Tail(t)) /\ (i - 1) + 1 = i BY <2>2
  <2>. Tail(t)[i - 1] = j BY Zenon
  <2>. QED BY Zenon DEF In
<1>. QED BY Zenon DEF Tickets

LEMMA TopOnly ==
  ASSUME NEW t, NEW j, NEW k, Top(t, j), Top(t, k)
  PROVE  j = k
BY Zenon DEF Top

\* At most one of them works on the log.
LEMMA OneHolder ==
  ASSUME Locks
  PROVE  /\ Committing => ~barrier.active /\ ~Pruning
         /\ barrier.active => ~Pruning
         /\ \A k : Turn(k) => /\ Committing => k = "commit"
                              /\ barrier.active => k = "barrier"
                              /\ Pruning => k = "prune"
<1>1. Committing => Top(tickets, "commit") BY Zenon DEF Locks
<1>2. barrier.active => Top(tickets, "barrier") BY Zenon DEF Locks
<1>3. Pruning => Top(tickets, "prune") BY Zenon DEF Locks
<1>4. \A j, k : Top(tickets, j) /\ Top(tickets, k) => j = k BY TopOnly, Zenon
<1>. \A k : Turn(k) => Top(tickets, k) BY Zenon DEF Turn, Top
<1>. "commit" # "barrier" /\ "commit" # "prune" /\ "barrier" # "prune" BY Zenon
<1>. QED BY <1>1, <1>2, <1>3, <1>4, Zenon

\* A list of nobody.
LEMMA Nobody ==
  ASSUME NEW j
  PROVE  ~In(j, <<>>) /\ ~Top(<<>>, j)
BY DEF In, Top

\* What is left alone stays as it was.
LEMMA DiskStays ==
  ASSUME NEW H, NEW first, Disk(H, first), UNCHANGED <<disk, checkpoint, acked>>
  PROVE  Disk(H, first)'
BY Zenon DEF Disk, disk, Kept

LEMMA PlacesStay ==
  ASSUME NEW H, Places(H), UNCHANGED <<queue, group, status>>
  PROVE  Places(H)'
BY Zenon DEF Places

LEMMA HeadStays ==
  ASSUME NEW H, NEW first, AtHead(H, first), UNCHANGED <<disk, head, handle, group, applied, acked>>
  PROVE  AtHead(H, first)'
BY Zenon DEF AtHead, disk, head, Written, Passed

LEMMA GroupStays ==
  ASSUME NEW H, GroupFrames(H), UNCHANGED <<group, walSequence>>
  PROVE  GroupFrames(H)'
BY Zenon DEF GroupFrames, Committing, Written, Passed

LEMMA ListsStay ==
  ASSUME Lists, UNCHANGED <<disk, head, group>>
  PROVE  Lists'
BY Zenon DEF Lists, disk, head, Listed, Gone

LEMMA PrunesStay ==
  ASSUME Prunes, UNCHANGED <<disk, head, group, prune, checkpoint>>
  PROVE  Prunes'
BY Zenon DEF Prunes, disk, head, Listed, Gone, Pruning, Committing, PruneAt, Prunable

LEMMA ProcessStays ==
  ASSUME NEW H, NEW first, Process(H, first), Usable' => Usable,
         UNCHANGED <<disk, head, handle, group, barrier, prune, applied, acked, checkpoint>>
  PROVE  Process(H, first)'
<1>. SUFFICES ASSUME Usable'
              PROVE  /\ AtHead(H, first)' /\ GroupFrames(H)' /\ Lists' /\ Prunes'
                     /\ (barrier.active =>
                          barrier.anchor = [seq |-> walSequence, hash |-> walHash, covered |-> applied])'
  BY Zenon DEF Process
<1>. /\ AtHead(H, first) /\ GroupFrames(H) /\ Lists /\ Prunes
     /\ barrier.active => barrier.anchor = [seq |-> walSequence, hash |-> walHash, covered |-> applied]
  BY Zenon DEF Process
<1>2. AtHead(H, first)' BY HeadStays, Zenon
<1>3. GroupFrames(H)' BY GroupStays, Zenon DEF head
<1>. Lists' BY ListsStay, Zenon
<1>. Prunes' BY PrunesStay, Zenon
<1>. QED BY <1>2, <1>3, Zenon DEF head

\* The calls.
LEMMA EnqueueStep ==
  ASSUME NEW H, NEW first, Holds(H, first), NEW r \in Requests, Enqueue(r)
  PROVE  Holds(H, first)' /\ acked' = acked
<1>. USE DEF Holds
<1>1. /\ Accepting /\ status[r] = "new" /\ queue' = Append(queue, r)
      /\ status' = [status EXCEPT ![r] = "queued"]
      /\ UNCHANGED <<disk, head, proc, tickets, group, barrier, prune, checkpoint, applied, acked>>
  BY Zenon DEF Enqueue
<1>2. Types'
  <2>1. queue' \in Chains BY <1>1 DEF Types, Chains
  <2>2. status' \in [Requests -> Statuses] BY <1>1, Zenon DEF Types, Statuses
  <2>. QED BY <1>1, <2>1, <2>2, Zenon DEF Types, disk, head, proc
<1>3. Locks' BY <1>1, Zenon DEF Locks, disk, proc, Accepting, Committing, Pruning, Usable
<1>4. Places(H)'
  <2>1. H \in Seq(Requests) /\ queue \in Seq(Requests) /\ group.members \in Seq(Requests)
    BY Zenon DEF Chains, Types, Groups
  <2>2. \A x \in Requests : status'[x] = IF x = r THEN "queued" ELSE status[x] BY <1>1, Zenon DEF Types
  <2>a. \A S, q : q \in Seq(S) => \A i \in 1..Len(q) : q[i] \in S BY Elements, Zenon
  <2>3. \A i \in 1..Len(H) : H[i] \in Requests /\ H[i] # r BY <1>1, <2>1, <2>a, Zenon DEF Places
  <2>4. \A i \in 1..Len(group.members) : group.members[i] \in Requests /\ group.members[i] # r
    BY <1>1, <2>1, <2>a, Zenon DEF Places
  <2>5. ~In(r, H) /\ ~In(r, group.members) BY <2>3, <2>4, Zenon DEF In
  <2>6. ASSUME NEW i \in 1..Len(queue')
        PROVE  status'[queue'[i]] = "queued" /\ ~In(queue'[i], H) /\ ~In(queue'[i], group.members)
    <3>1. CASE i = Len(queue) + 1
      <4>1. queue'[i] = r BY <1>1, <2>1, <3>1
      <4>. QED BY <2>2, <2>5, <4>1, Zenon
    <3>2. CASE i # Len(queue) + 1
      <4>1. i \in 1..Len(queue) /\ queue'[i] = queue[i] BY <1>1, <2>1, <3>2
      <4>2. queue[i] \in Requests BY <2>1, <4>1
      <4>3. status[queue[i]] = "queued" /\ ~In(queue[i], H) /\ ~In(queue[i], group.members)
        BY <4>1, Zenon DEF Places
      <4>. QED BY <2>2, <4>1, <4>2, <4>3, Zenon
    <3>. QED BY <3>1, <3>2, Zenon
  <2>7. \A i \in 1..Len(group.frames) : group.frames[i].id \in Requests BY Zenon DEF Places
  <2>8. \A i \in 1..Len(H) : status'[H[i]] \in {"queued", "rejected", "acked"} BY <2>2, <2>3, Zenon DEF Places
  <2>9. \A i \in 1..Len(group.members) :
          /\ status'[group.members[i]] # "new"
          /\ group.step = "waiting" => status'[group.members[i]] = "queued" /\ ~In(group.members[i], H)
    BY <2>2, <2>4, Zenon DEF Places
  <2>10. \A i \in 1..Len(group.frames) :
           /\ group.frames[i].id \in Requests /\ In(group.frames[i].id, group.members)
           /\ status'[group.frames[i].id] \in {"queued", "rejected", "acked"}
    BY <2>2, <2>7, Zenon DEF Places
  <2>11. group' = group BY <1>1, Zenon
  <2>. QED BY <2>6, <2>8, <2>9, <2>10, <2>11, Zenon DEF Places
<1>5. Disk(H, first)' BY <1>1, DiskStays, Zenon
<1>6. Process(H, first)' BY <1>1, ProcessStays, Zenon DEF proc, Usable
<1>. QED BY <1>1, <1>2, <1>3, <1>4, <1>5, <1>6, Zenon

LEMMA RefuseStep ==
  ASSUME NEW H, NEW first, Holds(H, first), NEW r \in Requests, RefuseAppend(r)
  PROVE  Holds(H, first)' /\ acked' = acked
<1>. USE DEF Holds
<1>1. /\ status[r] = "new" /\ status' = [status EXCEPT ![r] = "refused"]
      /\ UNCHANGED <<disk, head, proc, work, checkpoint, applied, acked>>
  BY Zenon DEF RefuseAppend
<1>2. Types'
  <2>1. status' \in [Requests -> Statuses] BY <1>1, Zenon DEF Types, Statuses
  <2>. QED BY <1>1, <2>1, Zenon DEF Types, disk, head, proc, work
<1>3. Locks' BY <1>1, Zenon DEF Locks, disk, proc, work, Committing, Pruning, Usable
<1>4. Places(H)'
  <2>1. H \in Seq(Requests) /\ queue \in Seq(Requests) /\ group.members \in Seq(Requests)
    BY Zenon DEF Chains, Types, Groups
  <2>2. \A x \in Requests : x # r => status'[x] = status[x] BY <1>1, Zenon DEF Types
  <2>3. \A x \in Requests : status[x] # "new" => status'[x] = status[x] BY <1>1, <2>2, Zenon
  <2>4. \A i \in 1..Len(H) : H[i] \in Requests BY <2>1
  <2>5. \A i \in 1..Len(queue) : queue[i] \in Requests BY <2>1
  <2>6. \A i \in 1..Len(group.members) : group.members[i] \in Requests BY <2>1
  <2>. QED BY <1>1, <2>3, <2>4, <2>5, <2>6 DEF Places, work
<1>5. Disk(H, first)' BY <1>1, DiskStays, Zenon
<1>6. Process(H, first)' BY <1>1, ProcessStays, Zenon DEF proc, work, Usable
<1>. QED BY <1>1, <1>2, <1>3, <1>4, <1>5, <1>6, Zenon

LEMMA CallStep ==
  ASSUME NEW H, NEW first, Holds(H, first), CallBarrier \/ CallClose
  PROVE  Holds(H, first)' /\ acked' = acked
<1>. USE DEF Holds
<1>. /\ UNCHANGED <<disk, head, mode, handle, poisoned, queue, group, barrier, prune, outside>>
     /\ closing' \in BOOLEAN
     /\ tickets' = tickets \/ (mode = "open" /\ \E k \in Kinds : tickets' = Append(tickets, k))
  <2>1. "barrier" \in Kinds /\ "close" \in Kinds /\ closing \in BOOLEAN BY Zenon DEF Kinds, Types
  <2>2. CASE CallBarrier
    <3>. /\ mode = "open" /\ tickets' = Append(tickets, "barrier") /\ closing' = closing
         /\ UNCHANGED <<disk, head, mode, handle, poisoned, queue, group, barrier, prune, outside>>
      BY <2>2, Zenon DEF CallBarrier, proc, Accepting
    <3>. QED BY <2>1, Zenon
  <2>3. CASE CallClose
    <3>. /\ tickets' = (IF mode = "open" THEN Append(tickets, "close") ELSE tickets) /\ closing' = TRUE
         /\ UNCHANGED <<disk, head, mode, handle, poisoned, queue, group, barrier, prune, outside>>
      BY <2>3, Zenon DEF CallClose
    <3>. closing' \in BOOLEAN BY Zenon
    <3>. tickets' = tickets \/ (mode = "open" /\ tickets' = Append(tickets, "close")) BY Zenon
    <3>. QED BY <2>1, Zenon
  <2>. QED BY <2>2, <2>3, Zenon
<1>2. /\ tickets' \in Tickets
      /\ \A j : (Top(tickets, j) => Top(tickets', j)) /\ (In(j, tickets) => In(j, tickets'))
  BY Queued, Zenon DEF Types
<1>3. Types' BY <1>2, Zenon DEF Types, disk, head, outside
<1>4. Locks' BY <1>2, Zenon DEF Locks, disk, Committing, Pruning, Usable
<1>5. Places(H)' BY PlacesStay, Zenon DEF outside
<1>. Disk(H, first)' BY DiskStays, Zenon DEF outside
<1>. Process(H, first)' BY ProcessStays, Zenon DEF outside, Usable
<1>. QED BY <1>3, <1>4, <1>5, Zenon DEF outside

LEMMA RunCloseStep ==
  ASSUME NEW H, NEW first, Holds(H, first), RunClose
  PROVE  Holds(H, first)' /\ acked' = acked
<1>. USE DEF Holds
<1>. /\ Turn("close") /\ mode' = "closed" /\ ~handle' /\ ~closing' /\ ~poisoned'
     /\ handle' \in BOOLEAN /\ closing' \in BOOLEAN /\ poisoned' \in BOOLEAN
     /\ tickets' = Tail(tickets) /\ UNCHANGED <<disk, head, queue, group, barrier, prune, outside>>
  BY Zenon DEF RunClose
<1>2. ~Committing /\ ~barrier.active /\ ~Pruning BY OneHolder
<1>3. Top(tickets, "close") /\ tickets \in Tickets BY Zenon DEF Turn, Top, Types
<1>4. tickets' \in Tickets /\ \A j : j # "close" /\ In(j, tickets) => In(j, tickets')
  BY <1>3, Released, Zenon
<1>5. Types' BY <1>4, Zenon DEF Types, disk, head, outside
<1>6. Locks' BY <1>2, <1>4, Zenon DEF Locks, Committing, Pruning
<1>7. Places(H)' BY PlacesStay, Zenon DEF outside
<1>. Disk(H, first)' BY DiskStays, Zenon DEF outside
<1>. Process(H, first)' BY Zenon DEF Process, Usable
<1>. QED BY <1>5, <1>6, <1>7, Zenon DEF outside

LEMMA OpenStep ==
  ASSUME NEW H, NEW first, Holds(H, first), OpenFiles
  PROVE  Holds(H, first)' /\ acked' = acked
<1>. USE DEF Holds
<1>1. /\ mode = "closed" /\ tickets = <<>> /\ queue = <<>> /\ mode' = "opening" /\ handle' /\ handle' \in BOOLEAN
      /\ unsynced' = 0 /\ ~renamed' /\ renamed' \in BOOLEAN /\ unlinked' = <<>>
      /\ UNCHANGED <<sealed, log, closing, poisoned, head, work, outside>>
  BY Zenon DEF OpenFiles
<1>2. unlinked' \in Removals BY <1>1 DEF Removals
<1>3. Types' BY <1>1, <1>2, Zenon DEF Types, head, work, outside
<1>4. Locks' BY <1>1, Zenon DEF Locks, Committing, Pruning, Usable, work
<1>5. Places(H)' BY <1>1, PlacesStay, Zenon DEF outside, work
<1>. Disk(H, first)'
  <2>1. Image(H, sealed, log, first) BY Zenon DEF Disk
  <2>. /\ Len(H) \in Nat /\ first \in Nat /\ first >= 1 /\ first <= Len(H) + 1
       /\ Len(log) \in Nat /\ Len(log) \in {Len(H) + 1 - first, Len(H) + 2 - first}
       /\ SealedFrames(sealed) \in Nat /\ SealedFrames(sealed) <= Len(H) + 1 - first
       /\ checkpoint.seq \in Nat /\ checkpoint.seq <= Len(H)
       /\ Len(acked) \in Nat /\ Len(acked) <= Len(H)
    BY <2>1, DiskNumbers, ImageShape, Zenon
  <2>3. /\ 0 <= Len(log) - SealedFrames(sealed)
        /\ checkpoint.seq <= first - 1 + Len(log) - 0 /\ Len(acked) <= first - 1 + Len(log) - 0
    <3>. DEFINE x == checkpoint.seq
    <3>. x \in Nat /\ x <= Len(H) BY Zenon
    <3>. HIDE DEF x
    <3>. 0 <= Len(log) - SealedFrames(sealed) /\ x <= first - 1 + Len(log) - 0 /\ Len(acked) <= first - 1 + Len(log) - 0
      OBVIOUS
    <3>. QED BY Zenon DEF x
  <2>. sealed = <<>> /\ first > 1 => 0 < Len(log)
    <3>. HAVE sealed = <<>> /\ first > 1
    <3>. first = 1 \/ first <= Len(H) BY <2>1, Zenon DEF Image
    <3>. first <= Len(H) OBVIOUS
    <3>. QED OBVIOUS
  <2>. QED BY <1>1, <2>1, <2>3, Zenon DEF Disk, Kept, outside
<1>. Process(H, first)' BY <1>1, Zenon DEF Process, Usable
<1>. QED BY <1>1, <1>3, <1>4, <1>5, Zenon DEF outside

\* While no group is between its steps, what the group is does not matter.
LEMMA ProcessIdle ==
  ASSUME NEW H, NEW first, Process(H, first), Usable' => Usable, ~Committing, ~Committing',
         UNCHANGED <<disk, head, handle, barrier, prune, applied, acked, checkpoint>>
  PROVE  Process(H, first)'
<1>. SUFFICES ASSUME Usable'
              PROVE  /\ AtHead(H, first)' /\ GroupFrames(H)' /\ Lists' /\ Prunes'
                     /\ (barrier.active =>
                          barrier.anchor = [seq |-> walSequence, hash |-> walHash, covered |-> applied])'
  BY Zenon DEF Process
<1>. /\ AtHead(H, first) /\ GroupFrames(H) /\ Lists /\ Prunes
     /\ barrier.active => barrier.anchor = [seq |-> walSequence, hash |-> walHash, covered |-> applied]
  BY Zenon DEF Process
<1>2. /\ Written = 0 /\ Passed = 0 /\ Written' = 0 /\ Passed' = 0
      /\ group.step \notin {"write", "sync"} /\ group'.step \notin {"write", "sync"}
      /\ group.step \notin {"sealsync", "create"} /\ group'.step \notin {"sealsync", "create"}
  BY Zenon DEF Committing, Written, Passed
<1>3. AtHead(H, first)' BY <1>2, Zenon DEF AtHead, disk, head
<1>4. GroupFrames(H)' BY Zenon DEF GroupFrames
<1>. Listed' = Listed /\ Gone' = Gone BY <1>2, Zenon DEF Listed, Gone, head, disk
<1>. Lists' BY Zenon DEF Lists, disk, head
<1>. Prunes' BY Zenon DEF Prunes, disk, head, Pruning, PruneAt, Prunable
<1>. QED BY <1>3, <1>4, Zenon DEF head

LEMMA NoAnchorType == NoAnchor \in Anchors /\ NoAnchor.seq = 0
BY DEF NoAnchor, Anchors, Hashes, Chains

LEMMA NoGroupType ==
  /\ NoGroup \in Groups /\ NoGroup.step = "none" /\ NoGroup.members = <<>>
  /\ NoGroup.frames = <<>> /\ NoGroup.done = 0
BY DEF NoGroup, Groups, Steps, Chains, FrameLists

LEMMA SpliceStep ==
  ASSUME NEW H, NEW first, Holds(H, first), Splice
  PROVE  Holds(H, first)' /\ acked' = acked
<1>. USE DEF Holds
<1>. /\ group = NoGroup /\ group' = [NoGroup EXCEPT !.step = "waiting", !.members = queue]
     /\ queue' = <<>> /\ tickets' = Append(tickets, "commit")
     /\ UNCHANGED <<disk, head, proc, barrier, prune, outside>>
  BY Zenon DEF Splice
<1>2. /\ group'.step = "waiting" /\ group'.members = queue /\ group'.frames = <<>> /\ group'.done = 0
      /\ group' \in Groups /\ group.step = "none"
  <2>1. queue \in Chains BY Zenon DEF Types
  <2>. group' = [step |-> "waiting", members |-> queue, frames |-> <<>>, done |-> 0] BY Zenon DEF NoGroup
  <2>. <<>> \in FrameLists /\ "waiting" \in Steps BY DEF FrameLists, Steps
  <2>. group' \in Groups BY <2>1 DEF Groups
  <2>. QED BY NoGroupType, Zenon
<1>3. ~Committing /\ ~Committing' BY <1>2, Zenon DEF Committing
<1>4. /\ tickets' \in Tickets /\ In("commit", tickets')
      /\ \A j : (Top(tickets, j) => Top(tickets', j)) /\ (In(j, tickets) => In(j, tickets'))
  <2>. tickets \in Tickets /\ "commit" \in Kinds BY Zenon DEF Types, Kinds
  <2>. QED BY Queued, Zenon
<1>5. Types'
  <2>. queue' \in Chains BY DEF Chains
  <2>. QED BY <1>2, <1>4, Zenon DEF Types, disk, head, proc, outside
<1>6. Locks'
  <2>. mode' = "opening" => tickets = <<>> /\ queue = <<>> BY Zenon DEF Locks, proc
  <2>. mode' # "opening" BY Zenon DEF Splice
  <2>. QED BY <1>2, <1>3, <1>4, Zenon DEF Locks, disk, proc, Pruning, Usable
<1>7. Places(H)'
  <2>1. /\ \A i \in 1..Len(queue) : status[queue[i]] = "queued" /\ ~In(queue[i], H)
        /\ \A i \in 1..Len(H) : status[H[i]] \in {"queued", "rejected", "acked"}
    BY Zenon DEF Places
  <2>2. status' = status BY Zenon DEF outside
  <2>. \A i \in 1..Len(queue') : FALSE OBVIOUS
  <2>. \A i \in 1..Len(group'.frames) : FALSE BY <1>2, Zenon
  <2>. QED BY <1>2, <2>1, <2>2 DEF Places
<1>. Disk(H, first)' BY DiskStays, Zenon DEF outside
<1>. Process(H, first)' BY <1>3, ProcessIdle, Zenon DEF proc, outside, Usable
<1>. QED BY <1>5, <1>6, <1>7, Zenon DEF outside

\* The barrier.
LEMMA BarrierStepIs ==
  ASSUME NEW H, NEW first, Holds(H, first), BarrierBegin \/ BarrierEnd
  PROVE  Holds(H, first)' /\ acked' = acked
<1>. USE DEF Holds
<1>1. UNCHANGED <<disk, head, proc, queue, group, prune, outside>>
  BY Zenon DEF BarrierBegin, BarrierEnd
<1>2. /\ Top(tickets, "barrier") /\ ~Committing /\ ~Pruning /\ tickets \in Tickets
  <2>. CASE BarrierBegin BY OneHolder, Zenon DEF BarrierBegin, Turn, Top, Types
  <2>. CASE BarrierEnd BY OneHolder, Zenon DEF BarrierEnd, Locks, Types
  <2>. QED BY Zenon
<1>3. \/ /\ Usable /\ tickets' = tickets
         /\ barrier' = [active |-> TRUE,
                        anchor |-> [seq |-> walSequence, hash |-> walHash, covered |-> applied]]
      \/ tickets' = Tail(tickets) /\ barrier' \in Barriers /\ ~barrier'.active
  <2>. CASE BarrierBegin
    <3>. ~barrier.active /\ barrier \in Barriers BY Zenon DEF BarrierBegin, Types
    <3>. QED BY Zenon DEF BarrierBegin, BarrierAdmitted, Accepting, Usable
  <2>. CASE BarrierEnd
    <3>. NoBarrier \in Barriers /\ ~NoBarrier.active BY NoAnchorType, Zenon DEF NoBarrier, Barriers
    <3>. QED BY Zenon DEF BarrierEnd
  <2>. QED BY Zenon
<1>4. barrier' \in Barriers
  <2>. [seq |-> walSequence, hash |-> walHash, covered |-> applied] \in Anchors BY Zenon DEF Types, Anchors
  <2>. \A a \in Anchors : [active |-> TRUE, anchor |-> a] \in Barriers BY Zenon DEF Barriers
  <2>. QED BY <1>3, Zenon
<1>5. /\ tickets' \in Tickets /\ \A j : j # "barrier" /\ In(j, tickets) => In(j, tickets')
      /\ barrier'.active => Usable /\ Top(tickets', "barrier")
  <2>. Tail(tickets) \in Tickets /\ \A j : j # "barrier" /\ In(j, tickets) => In(j, Tail(tickets))
    BY <1>2, Released, Zenon
  <2>. QED BY <1>2, <1>3, Zenon
<1>6. Types' BY <1>1, <1>4, <1>5, Zenon DEF Types, disk, head, proc, outside
<1>7. Locks'
  <2>. mode # "opening" BY <1>2, Zenon DEF Locks, Top
  <2>. QED BY <1>1, <1>2, <1>5, Zenon DEF Locks, disk, proc, Committing, Pruning, Usable
<1>8. Places(H)' BY <1>1, PlacesStay, Zenon DEF outside
<1>9. Disk(H, first)' BY <1>1, DiskStays, Zenon DEF outside
<1>. Process(H, first)'
  <2>. SUFFICES ASSUME Usable'
                PROVE  /\ AtHead(H, first)' /\ GroupFrames(H)' /\ Lists' /\ Prunes'
                       /\ (barrier.active =>
                            barrier.anchor = [seq |-> walSequence, hash |-> walHash, covered |-> applied])'
    BY Zenon DEF Process
  <2>1. Usable BY <1>1, Zenon DEF Usable, proc
  <2>. AtHead(H, first) /\ GroupFrames(H) /\ Lists /\ Prunes BY <2>1, Zenon DEF Process
  <2>3. AtHead(H, first)' BY <1>1, HeadStays, Zenon DEF proc, outside
  <2>4. GroupFrames(H)' BY <1>1, GroupStays, Zenon DEF head
  <2>5. Lists' BY <1>1, ListsStay, Zenon
  <2>. Prunes' BY <1>1, PrunesStay, Zenon DEF outside
  <2>. barrier'.active => barrier'.anchor = [seq |-> walSequence, hash |-> walHash, covered |-> applied]
    BY <1>3
  <2>. QED BY <1>1, <2>3, <2>4, <2>5, Zenon DEF head, outside
<1>. QED BY <1>1, <1>6, <1>7, <1>8, <1>9, Zenon DEF outside

\* The members that are picked, and their frames.
LEMMA Admitted ==
  ASSUME NEW m \in Chains, NEW pick \in Picks(Len(m))
  PROVE  /\ Admit(m, pick) \in Chains /\ DOMAIN pick = 1..Len(Admit(m, pick))
         /\ \A i \in DOMAIN pick : pick[i] \in 1..Len(m) /\ Admit(m, pick)[i] = m[pick[i]]
<1>1. PICK k \in 0..Len(m) : pick \in [1..k -> 1..Len(m)]
  BY Zenon DEF Picks
<1>2. k \in Nat /\ m \in Seq(Requests) BY DEF Chains
<1>. DOMAIN pick = 1..k /\ \A i \in 1..k : pick[i] \in 1..Len(m) BY <1>1, Zenon
<1>. Admit(m, pick) = [i \in 1..k |-> m[pick[i]]] BY Zenon DEF Admit
<1>. \A i \in 1..k : m[pick[i]] \in Requests BY <1>2
<1>. Admit(m, pick) \in Seq(Requests) /\ Len(Admit(m, pick)) = k BY <1>2
<1>. QED BY Zenon DEF Chains

LEMMA Encoded ==
  ASSUME NEW ids \in Chains, walSequence \in Nat, walHash \in Hashes
  PROVE  /\ Encode(ids) \in FrameLists /\ Len(Encode(ids)) = Len(ids)
         /\ \A i \in 1..Len(ids) :
              /\ Encode(ids)[i].seq = walSequence + i /\ Encode(ids)[i].id = ids[i]
              /\ Encode(ids)[i].prev = IF i = 1 THEN walHash ELSE ids[i - 1]
<1>. Len(ids) \in Nat /\ \A i \in 1..Len(ids) : ids[i] \in Requests BY DEF Chains
<1>2. ASSUME NEW i \in 1..Len(ids)
      PROVE  [seq |-> walSequence + i, id |-> ids[i],
              prev |-> IF i = 1 THEN walHash ELSE ids[i - 1]] \in Frames
  <2>1. walSequence + i \in Nat OBVIOUS
  <2>2. i # 1 => i - 1 \in 1..Len(ids) OBVIOUS
  <2>. (IF i = 1 THEN walHash ELSE ids[i - 1]) \in Requests \cup {Genesis} BY <2>2, Zenon DEF Hashes
  <2>. ids[i] \in Requests \cup {Torn} BY Zenon
  <2>. QED BY <2>1, Zenon DEF Frames
<1>. Encode(ids) \in FrameLists /\ Len(Encode(ids)) = Len(ids) BY <1>2 DEF Encode, FrameLists
<1>. QED BY Zenon DEF Encode

\* The members of a waiting group are in no other place.
LEMMA WaitingApart ==
  ASSUME NEW H, Places(H), group.step = "waiting"
  PROVE  /\ \A i \in 1..Len(H) : ~In(H[i], group.members)
         /\ \A i \in 1..Len(queue) : ~In(queue[i], group.members)
BY Zenon DEF Places, In

LEMMA BeginCommitStep ==
  ASSUME NEW H, NEW first, Holds(H, first), NEW pick \in Picks(Len(group.members)), BeginCommit(pick)
  PROVE  Holds(H, first)' /\ acked' = acked
<1>. USE DEF Holds
<1>. DEFINE ids == Admit(group.members, pick)
<1>1. /\ Turn("commit") /\ group.step = "waiting"
      /\ UNCHANGED <<disk, head, proc, queue, barrier, prune, checkpoint, applied, acked>>
  BY Zenon DEF BeginCommit
<1>2. /\ ~Committing /\ ~Pruning /\ ~barrier.active /\ Top(tickets, "commit") /\ tickets \in Tickets
  BY <1>1, OneHolder, Zenon DEF Committing, Turn, Top, Types
<1>3. /\ group.members \in Chains /\ group \in Groups /\ group.done = 0 /\ group.frames = <<>>
      /\ group = [step |-> "waiting", members |-> group.members, frames |-> <<>>, done |-> 0]
  <2>1. group \in Groups BY Zenon DEF Types
  <2>2. group.frames = <<>> /\ group.done = 0 BY <1>1, Zenon DEF Locks
  <2>. QED BY <1>1, <2>1, <2>2, Zenon DEF Groups
<1>4. /\ ids \in Chains /\ DOMAIN pick = 1..Len(ids)
      /\ \A i \in DOMAIN pick : pick[i] \in 1..Len(group.members) /\ ids[i] = group.members[pick[i]]
  BY <1>3, Admitted, Zenon
<1>5. mode # "opening" BY <1>2, Zenon DEF Locks, Top
<1>6. Disk(H, first)' BY <1>1, DiskStays, Zenon
<1>7. /\ \A i \in 1..Len(H) : ~In(H[i], group.members) /\ H[i] \in Requests
      /\ \A i \in 1..Len(queue) : ~In(queue[i], group.members) /\ queue[i] \in Requests
      /\ \A i \in 1..Len(group.members) : group.members[i] \in Requests
  BY <1>1, <1>3, WaitingApart DEF Types, Chains
<1>8. status \in [Requests -> Statuses] BY Zenon DEF Types
<1>. HIDE DEF ids
<1>9. CASE Accepting /\ ids # <<>>
  <2>1. /\ group' = [group EXCEPT !.frames = Encode(ids),
                                  !.step = IF MustRoll(Encode(ids)) THEN "seal" ELSE "write"]
        /\ status' = [r \in Requests |->
             IF /\ \E i \in 1..Len(group.members) : group.members[i] = r
                /\ \A i \in DOMAIN pick : group.members[pick[i]] # r
             THEN "refused" ELSE status[r]]
        /\ tickets' = tickets
    BY <1>9, Zenon DEF BeginCommit, ids
  <2>2. group'.members = group.members /\ group'.frames = Encode(ids) /\ group'.done = 0
        /\ group'.step \in {"seal", "write"}
        /\ group' = [step |-> group'.step, members |-> group.members, frames |-> Encode(ids), done |-> 0]
    BY <1>3, <2>1, Zenon
  <2>3. /\ Encode(ids) \in FrameLists /\ Len(Encode(ids)) = Len(ids)
        /\ \A i \in 1..Len(ids) :
              /\ Encode(ids)[i].seq = walSequence + i /\ Encode(ids)[i].id = ids[i]
              /\ Encode(ids)[i].prev = IF i = 1 THEN walHash ELSE ids[i - 1]
    <3>1. walSequence \in Nat /\ walHash \in Hashes BY Zenon DEF Types
    <3>. QED BY <1>4, <3>1, Encoded, Zenon
  <2>4. group' \in Groups
    <3>1. group'.step \in Steps BY <2>2, Zenon DEF Steps
    <3>. QED BY <1>3, <2>2, <2>3, <3>1, Zenon DEF Groups
  <2>5. Types'
    <3>1. status' \in [Requests -> Statuses] BY <1>8, <2>1, Zenon DEF Statuses
    <3>. QED BY <1>1, <2>1, <2>4, <3>1, Zenon DEF Types, disk, head, proc
  <2>6. Committing' /\ Usable' /\ Usable BY <1>1, <1>9, <2>2, Zenon DEF Committing, Accepting, Usable, proc
  <2>7. Locks'
    <3>1. group'.step \notin {"none", "waiting"} BY <2>2, Zenon
    <3>2. In("commit", tickets') BY <1>1, <2>1, Zenon DEF Locks
    <3>. QED BY <1>1, <1>2, <1>5, <2>1, <2>6, <3>1, <3>2, Zenon DEF Locks, Pruning, disk, proc
  <2>8. Places(H)'
    <3>1. \A r \in Requests : ~In(r, group.members) => status'[r] = status[r] BY <2>1, Zenon DEF In
    <3>2. \A r \in Requests : status'[r] = "refused" \/ status'[r] = status[r] BY <2>1, Zenon
    <3>3. \A i \in 1..Len(H) : status'[H[i]] \in {"queued", "rejected", "acked"}
      BY <1>7, <3>1, Zenon DEF Places
    <3>4. \A i \in 1..Len(queue') :
            status'[queue'[i]] = "queued" /\ ~In(queue'[i], H) /\ ~In(queue'[i], group'.members)
      BY <1>1, <1>7, <2>2, <3>1 DEF Places
    <3>5. \A i \in 1..Len(group'.members) : status'[group'.members[i]] # "new" /\ group'.step # "waiting"
      BY <1>7, <2>2, <3>2 DEF Places
    <3>6. ASSUME NEW i \in 1..Len(group'.frames)
          PROVE  /\ group'.frames[i].id \in Requests /\ In(group'.frames[i].id, group'.members)
                 /\ status'[group'.frames[i].id] \in {"queued", "rejected", "acked"}
      <4>1. i \in DOMAIN pick /\ group'.frames[i].id = ids[i] BY <1>4, <2>2, <2>3, Zenon
      <4>2. pick[i] \in 1..Len(group.members) /\ ids[i] = group.members[pick[i]] BY <1>4, <4>1, Zenon
      <4>3. ids[i] \in Requests /\ status[ids[i]] = "queued" BY <1>1, <1>7, <4>2, Zenon DEF Places
      <4>4. status'[ids[i]] = status[ids[i]] BY <2>1, <4>1, <4>2, <4>3, Zenon
      <4>. QED BY <2>2, <4>1, <4>2, <4>3, <4>4, Zenon DEF In
    <3>. QED BY <3>3, <3>4, <3>5, <3>6, Zenon DEF Places
  <2>9. Process(H, first)'
    <3>1. AtHead(H, first) /\ GroupFrames(H) /\ Lists /\ Prunes BY <2>6, Zenon DEF Process
    <3>2. Written = 0 /\ Passed = 0 /\ Written' = 0 /\ Passed' = 0
      BY <1>1, <2>2, Zenon DEF Written, Passed
    <3>3. /\ group.step \notin {"sealsync", "create"} /\ group'.step \notin {"sealsync", "create"}
          /\ group.step \notin {"write", "sync"} /\ group.step # "sealsync"
      BY <1>1, <2>2, Zenon
    <3>4. ~renamed BY <3>1, <3>3, Zenon DEF AtHead
    <3>5. AtHead(H, first)' BY <1>1, <3>1, <3>2, <3>3, <3>4, Zenon DEF AtHead, disk, head, proc
    <3>6. GroupFrames(H)'
      <4>1. walSequence \in Nat /\ Len(ids) \in Nat /\ Len(ids) > 0 BY <1>4, <1>9 DEF Types, Chains
      <4>2. walHash = HashAt(H, walSequence) BY <3>1, Zenon DEF AtHead
      <4>3. /\ group'.frames # <<>> /\ group'.done < Len(group'.frames) /\ group'.done = 0
        BY <2>2, <2>3, <4>1
      <4>4. walSequence' = walSequence /\ walSequence' - Passed' = walSequence
        BY <1>1, <3>2, <4>1 DEF head
      <4>5. ASSUME NEW i \in 1..Len(group'.frames)
            PROVE  /\ group'.frames[i].seq = walSequence' - Passed' + i
                   /\ group'.frames[i].prev = IF i = 1 THEN HashAt(H, walSequence' - Passed')
                                              ELSE group'.frames[i - 1].id
        <5>1. i \in 1..Len(ids) /\ (i # 1 => i - 1 \in 1..Len(ids)) BY <2>2, <2>3, <4>1
        <5>. QED BY <2>2, <2>3, <4>2, <4>4, <5>1
      <4>6. \A i \in 1..Written' : FALSE BY <3>2
      <4>. QED BY <4>3, <4>5, <4>6, Zenon DEF GroupFrames
    <3>7. Listed' = Listed /\ Gone' = Gone BY <1>1, <3>3, Zenon DEF Listed, Gone, head, disk
    <3>8. Lists' BY <1>1, <3>1, <3>7, Zenon DEF Lists, disk, head
    <3>9. Prunes' BY <1>1, <1>2, <2>6, <3>1, Zenon DEF Prunes, Pruning
    <3>10. ~barrier'.active BY <1>1, <1>2, Zenon
    <3>. QED BY <3>5, <3>6, <3>8, <3>9, <3>10, Zenon DEF Process
  <2>. QED BY <1>1, <1>6, <2>5, <2>7, <2>8, <2>9, Zenon
<1>10. CASE ~(Accepting /\ ids # <<>>)
  <2>1. /\ group' = NoGroup /\ tickets' = Tail(tickets)
        /\ status' = [r \in Requests |->
             IF \E i \in 1..Len(group.members) : group.members[i] = r THEN "refused" ELSE status[r]]
    BY <1>10, Zenon DEF BeginCommit, EndGroup, Settle, ids
  <2>2. tickets' \in Tickets /\ \A j : j # "commit" /\ In(j, tickets) => In(j, tickets')
    BY <1>2, <2>1, Released, Zenon
  <2>3. Types'
    <3>1. status' \in [Requests -> Statuses] BY <1>8, <2>1, Zenon DEF Statuses
    <3>. QED BY <1>1, <2>1, <2>2, <3>1, NoGroupType, Zenon DEF Types, disk, head, proc
  <2>4. ~Committing' BY <2>1, NoGroupType, Zenon DEF Committing
  <2>5. Locks'
    BY <1>1, <1>2, <1>5, <2>1, <2>2, <2>4, NoGroupType, Zenon DEF Locks, Pruning, disk, proc
  <2>6. Places(H)'
    <3>1. \A r \in Requests : ~In(r, group.members) => status'[r] = status[r] BY <2>1, Zenon DEF In
    <3>2. \A i \in 1..Len(H) : status'[H[i]] \in {"queued", "rejected", "acked"}
      BY <1>7, <3>1, Zenon DEF Places
    <3>3. group'.members = <<>> /\ group'.frames = <<>> BY <2>1, NoGroupType, Zenon
    <3>4. \A i \in 1..Len(queue') :
            status'[queue'[i]] = "queued" /\ ~In(queue'[i], H) /\ ~In(queue'[i], group'.members)
      BY <1>1, <1>7, <3>1, <3>3, Nobody, Zenon DEF Places
    <3>5. (\A i \in 1..Len(group'.members) : FALSE) /\ (\A i \in 1..Len(group'.frames) : FALSE) BY <3>3
    <3>. QED BY <3>2, <3>4, <3>5, Zenon DEF Places
  <2>7. Process(H, first)' BY <1>1, <1>2, <2>4, ProcessIdle, Zenon DEF proc, Usable
  <2>. QED BY <1>1, <1>6, <2>3, <2>5, <2>6, <2>7, Zenon
<1>. QED BY <1>9, <1>10, Zenon

\* A barrier callback publishes a checkpoint over the head it was given.
LEMMA PublishStep ==
  ASSUME NEW H, NEW first, Holds(H, first), PublishCheckpoint
  PROVE  Holds(H, first)' /\ acked' = acked
<1>. USE DEF Holds
<1>1. /\ barrier.active /\ barrier.anchor.seq > checkpoint.seq /\ checkpoint' = barrier.anchor
      /\ UNCHANGED <<disk, head, proc, work, applied, status, acked>>
  BY Zenon DEF PublishCheckpoint
<1>2. Usable /\ ~Committing /\ ~Pruning BY <1>1, OneHolder, Zenon DEF Locks
<1>3. /\ AtHead(H, first) /\ Lists /\ Prunes /\ GroupFrames(H)
      /\ barrier.anchor = [seq |-> walSequence, hash |-> walHash, covered |-> applied]
  BY <1>1, <1>2, Zenon DEF Process
<1>4. /\ checkpoint' \in Anchors /\ checkpoint'.seq = walSequence /\ checkpoint'.hash = walHash
      /\ checkpoint'.covered = applied
  BY <1>1, <1>3 DEF Types, Anchors
<1>5. Written = 0 /\ Passed = 0 /\ group.step \notin {"write", "sync"}
  BY <1>2, Zenon DEF Committing, Written, Passed
<1>6. /\ Len(log) = Len(H) + 1 - first /\ walSequence + 0 - 0 = Len(H) /\ unsynced = 0
      /\ walHash = HashAt(H, walSequence) /\ applied = SubSeq(H, 1, walSequence)
  BY <1>3, <1>5, Zenon DEF AtHead
<1>7. Len(H) \in Nat /\ first \in Nat /\ first >= 1 /\ first <= checkpoint.seq + 1
      /\ checkpoint.seq \in Nat /\ walSequence \in Nat
  BY DiskNumbers, Zenon DEF Types
<1>8. walSequence = Len(H) /\ first - 1 + Len(log) - unsynced = Len(H) BY <1>6, <1>7
<1>9. checkpoint.seq < walSequence BY <1>1, <1>4, <1>7, Zenon
<1>10. Types' BY <1>1, <1>4, Zenon DEF Types, disk, head, proc, work
<1>11. Locks' BY <1>1, Zenon DEF Locks, disk, proc, work, Committing, Pruning, Usable
<1>12. Places(H)' BY <1>1, PlacesStay, Zenon DEF work
<1>13. Disk(H, first)'
  <2>1. Anchored(H, checkpoint') BY <1>4, <1>6, <1>8 DEF Anchored
  <2>2. first <= checkpoint'.seq + 1 BY <1>4, <1>7, <1>9
  <2>3. Kept(first)' = Kept(first) BY <1>1, Zenon DEF Kept, disk
  <2>4. checkpoint'.seq <= Kept(first) BY <1>4, <1>7, <1>8 DEF Kept
  <2>. QED BY <1>1, <2>1, <2>2, <2>3, <2>4, Zenon DEF Disk, disk
<1>14. Process(H, first)'
  <2>1. AtHead(H, first)' BY <1>1, <1>3, HeadStays, Zenon DEF work, proc
  <2>2. GroupFrames(H)' BY <1>1, <1>3, GroupStays, Zenon DEF work, head
  <2>3. Lists' BY <1>1, <1>3, ListsStay, Zenon DEF work
  <2>4. Prunes'
    <3>1. prune.step # "none" => prune.anchor.seq <= checkpoint'.seq
      <4>1. prune.anchor.seq \in Nat BY Zenon DEF Types, Prunings, Anchors
      <4>2. prune.step # "none" => prune.anchor.seq <= checkpoint.seq BY <1>3, Zenon DEF Prunes
      <4>. QED BY <1>4, <1>7, <1>9, <4>1, <4>2
    <3>2. prune' = prune /\ Committing' = Committing /\ walOffset' = walOffset /\ ~Pruning'
      BY <1>1, <1>2, Zenon DEF work, head, Committing, Pruning
    <3>. QED BY <1>3, <3>1, <3>2, Zenon DEF Prunes
  <2>. QED BY <1>1, <1>3, <2>1, <2>2, <2>3, <2>4, Zenon DEF Process, work, head
<1>. QED BY <1>1, <1>10, <1>11, <1>12, <1>13, <1>14, Zenon

\* A prune is called, ends or fails, and leaves the lists as they are.
LEMMA ProcessUnderPrune ==
  ASSUME NEW H, NEW first, Process(H, first), Usable' => Usable, Usable' => Prunes',
         UNCHANGED <<disk, head, handle, group, barrier, applied, acked, checkpoint>>
  PROVE  Process(H, first)'
<1>. SUFFICES ASSUME Usable'
              PROVE  /\ AtHead(H, first)' /\ GroupFrames(H)' /\ Lists' /\ Prunes'
                     /\ (barrier.active =>
                          barrier.anchor = [seq |-> walSequence, hash |-> walHash, covered |-> applied])'
  BY Zenon DEF Process
<1>. /\ AtHead(H, first) /\ GroupFrames(H) /\ Lists
     /\ barrier.active => barrier.anchor = [seq |-> walSequence, hash |-> walHash, covered |-> applied]
  BY Zenon DEF Process
<1>2. AtHead(H, first)' BY HeadStays, Zenon
<1>. GroupFrames(H)' BY GroupStays, Zenon DEF head
<1>. Lists' BY ListsStay, Zenon
<1>. QED BY <1>2, Zenon DEF head

LEMMA CallPruneStep ==
  ASSUME NEW H, NEW first, Holds(H, first), NEW n \in Nat, CallPrune(n), PruneOverEmptyLive = FALSE
  PROVE  Holds(H, first)' /\ acked' = acked
<1>. USE DEF Holds
<1>. /\ Accepting /\ walOffset > 0 /\ prune.step = "none" /\ tickets' = Append(tickets, "prune")
     /\ prune' = [step |-> "waiting", anchor |-> checkpoint, retain |-> n, todo |-> <<>>]
     /\ UNCHANGED <<disk, head, proc, queue, group, barrier, outside>>
  BY Zenon DEF CallPrune, NoPrune
<1>2. prune' \in Prunings /\ prune'.step = "waiting" /\ prune'.anchor = checkpoint
  <2>. checkpoint \in Anchors /\ <<>> \in SegmentLists BY DEF Types, SegmentLists
  <2>. QED BY Zenon DEF Prunings
<1>3. /\ tickets' \in Tickets /\ In("prune", tickets')
      /\ \A j : (Top(tickets, j) => Top(tickets', j)) /\ (In(j, tickets) => In(j, tickets'))
  <2>. tickets \in Tickets /\ "prune" \in Kinds BY Zenon DEF Types, Kinds
  <2>. QED BY Queued, Zenon
<1>4. Types' BY <1>2, <1>3, Zenon DEF Types, disk, head, proc, outside
<1>5. ~Pruning' BY <1>2, Zenon DEF Pruning
<1>6. Locks'
  <2>. mode' # "opening" BY Zenon DEF Accepting, proc
  <2>. QED BY <1>3, <1>5, Zenon DEF Locks, disk, proc, Committing, Usable
<1>7. Places(H)' BY PlacesStay, Zenon DEF outside
<1>8. Disk(H, first)' BY DiskStays, Zenon DEF outside
<1>. Prunes'
  <2>. checkpoint.seq <= checkpoint.seq BY DEF Types, Anchors
  <2>. QED BY <1>2, <1>5, Zenon DEF Prunes, head, outside
<1>. Process(H, first)' BY ProcessUnderPrune, Zenon DEF proc, outside, Usable
<1>. QED BY <1>4, <1>6, <1>7, <1>8, Zenon DEF outside

LEMMA NoPruneType == NoPrune \in Prunings /\ NoPrune.step = "none"
<1>. NoAnchor \in Anchors /\ <<>> \in SegmentLists BY NoAnchorType DEF SegmentLists
<1>. QED BY Zenon DEF NoPrune, Prunings

\* A prune that gives its ticket back.
LEMMA EndPruneIs ==
  ASSUME NEW H, NEW first, Holds(H, first), Top(tickets, "prune"), ~Committing, ~barrier.active, EndPrune,
         UNCHANGED <<sealed, log, unsynced, renamed, unlinked, proc, queue, group, barrier, outside>>,
         UNCHANGED <<walSequence, walHash, walOffset, liveSegmentFirstSequence>>,
         sealedWalSegments' \in SegmentLists
  PROVE  /\ Types' /\ Locks' /\ Places(H)' /\ Disk(H, first)' /\ Prunes' /\ acked' = acked
<1>. USE DEF Holds
<1>1. prune' = NoPrune /\ tickets' = Tail(tickets) BY Zenon DEF EndPrune
<1>2. tickets' \in Tickets /\ \A j : j # "prune" /\ In(j, tickets) => In(j, tickets')
  BY <1>1, Released, Zenon DEF Types
<1>3. prune' \in Prunings /\ prune'.step = "none" /\ ~Pruning' BY <1>1, NoPruneType, Zenon DEF Pruning
<1>4. Types' BY <1>2, <1>3, Zenon DEF Types, proc, outside
<1>5. mode # "opening" BY Zenon DEF Locks, Top
<1>6. Locks' BY <1>1, <1>2, <1>3, <1>5, Zenon DEF Locks, proc, Committing, Usable
<1>7. Places(H)' BY PlacesStay, Zenon DEF outside
<1>. Disk(H, first)' BY DiskStays, Zenon DEF outside, disk
<1>. Prunes' BY <1>3, Zenon DEF Prunes
<1>. QED BY <1>4, <1>6, <1>7, Zenon DEF outside

LEMMA PruneFailsStep ==
  ASSUME NEW H, NEW first, Holds(H, first), PruneFails
  PROVE  Holds(H, first)' /\ acked' = acked
<1>. USE DEF Holds
<1>. /\ Pruning /\ EndPrune /\ UNCHANGED <<disk, head, proc, queue, group, barrier, outside>>
  BY Zenon DEF PruneFails, Pruning
<1>2. Top(tickets, "prune") /\ ~Committing /\ ~barrier.active BY OneHolder, Zenon DEF Locks
<1>. Types' /\ Locks' /\ Places(H)' /\ Disk(H, first)' /\ Prunes' /\ acked' = acked
  BY <1>2, EndPruneIs, Zenon DEF disk, head, Types
<1>. Process(H, first)' BY ProcessUnderPrune, Zenon DEF proc, outside, Usable
<1>. QED BY Zenon

LEMMA PruneBeginStep ==
  ASSUME NEW H, NEW first, Holds(H, first), PruneBegin
  PROVE  Holds(H, first)' /\ acked' = acked
<1>. USE DEF Holds
<1>1. /\ Turn("prune") /\ prune.step = "waiting"
      /\ UNCHANGED <<disk, head, proc, queue, group, barrier, outside>>
  BY Zenon DEF PruneBegin
<1>2. Top(tickets, "prune") /\ ~Committing /\ ~barrier.active BY <1>1, OneHolder, Zenon DEF Turn, Top
<1>3. CASE EndPrune
  <2>. Types' /\ Locks' /\ Places(H)' /\ Disk(H, first)' /\ Prunes' /\ acked' = acked
    BY <1>1, <1>2, <1>3, EndPruneIs, Zenon DEF disk, head, Types
  <2>. Process(H, first)' BY <1>1, ProcessUnderPrune, Zenon DEF proc, outside, Usable
  <2>. QED BY Zenon
<1>4. ASSUME Accepting, tickets' = tickets, NEW n \in 0..Len(sealedWalSegments),
             \A i \in 1..Len(sealedWalSegments) : i <= n <=> Prunable(sealedWalSegments[i]),
             prune' = [prune EXCEPT !.step = "unlink", !.todo = SubSeq(sealedWalSegments, 1, n)]
      PROVE  Holds(H, first)' /\ acked' = acked
  <2>1. /\ SubSeq(sealedWalSegments, 1, n) \in SegmentLists /\ Len(SubSeq(sealedWalSegments, 1, n)) = n
        /\ \A i \in 1..n : SubSeq(sealedWalSegments, 1, n)[i] = sealedWalSegments[i]
        /\ n \in Nat /\ Len(sealedWalSegments) \in Nat
    <3>. sealedWalSegments \in Seq(Segments) /\ n \in Nat /\ 1 \in Nat /\ 1 <= n + 1
         /\ n <= Len(sealedWalSegments) /\ Len(sealedWalSegments) \in Nat
      BY DEF Types, SegmentLists
    <3>. /\ SubSeq(sealedWalSegments, 1, n) \in Seq(Segments)
         /\ Len(SubSeq(sealedWalSegments, 1, n)) = n + 1 - 1
         /\ \A i \in 1..(n + 1 - 1) : SubSeq(sealedWalSegments, 1, n)[i] = sealedWalSegments[1 + i - 1]
      BY Piece
    <3>. n + 1 - 1 = n /\ \A i \in 1..n : 1 + i - 1 = i OBVIOUS
    <3>. QED BY Zenon DEF SegmentLists
  <2>2. /\ prune' \in Prunings /\ prune'.step = "unlink" /\ prune'.todo = SubSeq(sealedWalSegments, 1, n)
        /\ prune'.anchor = prune.anchor /\ prune'.retain = prune.retain
    <3>. prune \in Prunings BY Zenon DEF Types
    <3>. QED BY <1>4, <2>1, Zenon DEF Prunings
  <2>3. Types' BY <1>1, <1>4, <2>2, Zenon DEF Types, disk, head, proc, outside
  <2>4. Usable BY <1>4, Zenon DEF Accepting, Usable
  <2>5. Locks'
    <3>. mode # "opening" BY <2>4, Zenon DEF Usable
    <3>. QED BY <1>1, <1>2, <1>4, <2>4, Zenon DEF Locks, disk, proc, Committing, Usable, Pruning
  <2>6. Places(H)' BY <1>1, PlacesStay, Zenon DEF outside
  <2>7. Disk(H, first)' BY <1>1, DiskStays, Zenon DEF outside
  <2>. Prunes'
    <3>1. Lists /\ Prunes BY <2>4, Zenon DEF Process
    <3>2. prune'.anchor.seq <= checkpoint'.seq /\ (~Committing' => walOffset' > 0)
      <4>. (prune.step # "none" => prune.anchor.seq <= checkpoint.seq)
           /\ (prune.step # "none" /\ ~Committing => walOffset > 0)
        BY <3>1, Zenon DEF Prunes
      <4>. checkpoint' = checkpoint /\ walOffset' = walOffset BY <1>1, Zenon DEF outside, head
      <4>. QED BY <1>1, <1>2, <2>2, Zenon
    <3>. sealedWalSegments' = sealedWalSegments /\ Gone' = Gone /\ Gone \in Nat
      BY <1>1, <3>1, Zenon DEF Lists, Listed, Gone, head, disk
    <3>4. PruneAt(n)' = 1 /\ Len(prune'.todo) = n BY <2>1, <2>2 DEF PruneAt
    <3>5. \A i \in 1..Len(sealedWalSegments') : i <= n <=> Prunable(sealedWalSegments[i])'
      BY <1>4, <2>2, Zenon DEF Prunable
    <3>6. \A i \in 1..Len(prune'.todo) : prune'.todo[i] = sealedWalSegments'[PruneAt(n)' + i - 1]
      <4>. \A i \in 1..n : 1 + i - 1 = i BY <2>1
      <4>. \A i \in 1..n : prune'.todo[i] = sealedWalSegments'[i] BY <2>1, <2>2, Zenon
      <4>. QED BY <3>4, Zenon
    <3>. PruneAt(n)' <= Gone' + 1 /\ PruneAt(n)' = 1 BY <3>4
    <3>. n \in 0..Len(sealedWalSegments') /\ Len(prune'.todo) <= n BY <2>1, <3>4
    <3>. QED BY <2>2, <3>2, <3>5, <3>6, Zenon DEF Prunes
  <2>. Process(H, first)' BY <1>1, ProcessUnderPrune, Zenon DEF proc, outside, Usable
  <2>. QED BY <1>1, <2>3, <2>5, <2>6, <2>7, Zenon DEF outside
<1>. QED BY <1>3, <1>4, Zenon DEF PruneBegin

\* The numbers of a usable store on which no group is between its steps.
LEMMA HeadNumbers ==
  ASSUME NEW H, NEW first, Holds(H, first), Usable, ~Committing
  PROVE  /\ Len(log) = Len(H) + 1 - first /\ walSequence = Len(H) /\ unsynced = 0 /\ ~renamed /\ handle
         /\ walOffset \in Nat /\ liveSegmentFirstSequence \in Nat
         /\ walOffset = Len(log) - SealedFrames(sealed)
         /\ liveSegmentFirstSequence = first + SealedFrames(sealed)
         /\ Listed = sealedWalSegments /\ Gone = Len(sealedWalSegments) - Len(sealed)
<1>. USE DEF Holds
<1>1. AtHead(H, first) BY Zenon DEF Process
<1>2. Written = 0 /\ Passed = 0 /\ group.step \notin {"write", "sync"}
      /\ group.step \notin {"sealsync", "create"} /\ group.step # "sealsync"
  BY Zenon DEF Committing, Written, Passed
<1>. /\ Len(log) = Len(H) + 1 - first /\ walSequence + 0 - 0 = Len(H) /\ unsynced = 0 /\ ~renamed /\ handle
     /\ walOffset + liveSegmentFirstSequence = walSequence + 1
     /\ liveSegmentFirstSequence = first + SealedFrames(sealed)
  BY <1>1, <1>2, Zenon DEF AtHead
<1>. /\ Len(H) \in Nat /\ first \in Nat /\ walSequence \in Nat /\ walOffset \in Nat
     /\ liveSegmentFirstSequence \in Nat /\ SealedFrames(sealed) \in Nat
  BY DiskNumbers, Zenon DEF Types
<1>. walSequence = Len(H) /\ walOffset = Len(log) - SealedFrames(sealed) OBVIOUS
<1>. Listed = sealedWalSegments /\ Gone = Len(sealedWalSegments) - Len(sealed)
  BY <1>2, Zenon DEF Listed, Gone
<1>. QED BY Zenon

\* The directory sync after an unlink.
LEMMA PruneSyncStep ==
  ASSUME NEW H, NEW first, Holds(H, first), PruneSync
  PROVE  Holds(H, first)' /\ acked' = acked
<1>. USE DEF Holds
<1>1. /\ prune.step = "sync" /\ unlinked' = <<>>
      /\ prune' = [prune EXCEPT !.step = "unlink", !.todo = Tail(prune.todo)]
      /\ UNCHANGED <<sealed, log, unsynced, renamed, head, proc, queue, tickets, group, barrier, outside>>
  BY Zenon DEF PruneSync
<1>2. Pruning /\ Usable /\ Top(tickets, "prune") /\ ~Committing /\ ~barrier.active
  BY <1>1, OneHolder, Zenon DEF Pruning, Locks
<1>3. AtHead(H, first) /\ GroupFrames(H) /\ Lists /\ Prunes BY <1>2, Zenon DEF Process
<1>4. PICK n \in 0..Len(sealedWalSegments) :
         /\ \A i \in 1..Len(sealedWalSegments) : i <= n <=> Prunable(sealedWalSegments[i])
         /\ Len(prune.todo) <= n
         /\ \A i \in 1..Len(prune.todo) : prune.todo[i] = sealedWalSegments[PruneAt(n) + i - 1]
         /\ prune.todo # <<>> /\ PruneAt(n) <= Gone
  BY <1>1, <1>2, <1>3, Zenon DEF Prunes
<1>5. /\ prune.todo \in Seq(Segments) /\ Len(prune.todo) \in Nat /\ prune \in Prunings
      /\ Len(sealedWalSegments) \in Nat /\ n \in Nat
  BY DEF Types, Prunings, SegmentLists
<1>6. /\ Tail(prune.todo) \in Seq(Segments) /\ Len(Tail(prune.todo)) = Len(prune.todo) - 1
      /\ \A i \in 1..(Len(prune.todo) - 1) : Tail(prune.todo)[i] = prune.todo[i + 1]
      /\ Len(prune.todo) >= 1
  <2>1. Tail(prune.todo) \in Seq(Segments) /\ Len(Tail(prune.todo)) = Len(prune.todo) - 1
    BY <1>4, <1>5, Parted, Zenon
  <2>2. \A i \in 1..Len(Tail(prune.todo)) : Tail(prune.todo)[i] = prune.todo[i + 1]
    BY <1>4, <1>5, Parted, Zenon
  <2>3. Len(prune.todo) # 0 BY <1>4, <1>5
  <2>. QED BY <1>5, <2>1, <2>2, <2>3
<1>7. /\ prune' \in Prunings /\ prune'.step = "unlink" /\ prune'.todo = Tail(prune.todo)
      /\ prune'.anchor = prune.anchor /\ prune'.retain = prune.retain
  BY <1>1, <1>5, <1>6, Zenon DEF Prunings, SegmentLists
<1>8. Types'
  <2>1. unlinked' \in Removals BY <1>1 DEF Removals
  <2>. QED BY <1>1, <1>7, <2>1, Zenon DEF Types, head, proc, outside
<1>9. Locks'
  <2>1. mode # "opening" BY <1>2, Zenon DEF Usable
  <2>. QED BY <1>1, <1>2, <1>7, <2>1, Zenon DEF Locks, proc, Committing, Usable, Pruning
<1>10. Places(H)' BY <1>1, PlacesStay, Zenon DEF outside
<1>11. Disk(H, first)'
  <2>1. Kept(first)' = Kept(first) BY <1>1, Zenon DEF Kept
  <2>. QED BY <1>1, <2>1, Zenon DEF Disk, outside
<1>12. Process(H, first)'
  <2>1. AtHead(H, first)' BY <1>1, <1>3, Zenon DEF AtHead, head, proc, outside, Written, Passed
  <2>2. GroupFrames(H)' BY <1>1, <1>3, GroupStays, Zenon DEF head
  <2>3. Gone' = Gone /\ Listed' = Listed /\ Gone \in Nat BY <1>1, <1>3, Zenon DEF Gone, Listed, head, Lists
  <2>4. Lists' BY <1>1, <1>3, <2>3, Zenon DEF Lists, head
  <2>5. Prunes'
    <3>1. /\ prune'.anchor.seq <= checkpoint'.seq /\ (~Committing' => walOffset' > 0)
      <4>1. (prune.step # "none" => prune.anchor.seq <= checkpoint.seq)
            /\ (prune.step # "none" /\ ~Committing => walOffset > 0)
        BY <1>3, Zenon DEF Prunes
      <4>2. checkpoint' = checkpoint /\ walOffset' = walOffset BY <1>1, Zenon DEF outside, head
      <4>. QED BY <1>1, <1>2, <1>7, <4>1, <4>2, Zenon
    <3>2. sealedWalSegments' = sealedWalSegments BY <1>1, Zenon DEF head
    <3>3. PruneAt(n)' = PruneAt(n) + 1 /\ Len(prune'.todo) <= n /\ PruneAt(n) \in Nat
          /\ Len(prune'.todo) = Len(prune.todo) - 1
      <4>. DEFINE t == Len(prune.todo)
      <4>1. t \in Nat /\ n \in Nat /\ t <= n /\ Len(prune'.todo) = t - 1 /\ t >= 1 BY <1>4, <1>5, <1>6, <1>7, Zenon
      <4>2. PruneAt(n) = n + 1 - t /\ PruneAt(n)' = n + 1 - Len(prune'.todo) BY Zenon DEF PruneAt
      <4>. HIDE DEF t
      <4>3. PruneAt(n)' = PruneAt(n) + 1 /\ Len(prune'.todo) <= n /\ PruneAt(n) \in Nat BY <4>1, <4>2
      <4>. QED BY <4>1, <4>3, Zenon DEF t
    <3>4. \A i \in 1..Len(sealedWalSegments') : i <= n <=> Prunable(sealedWalSegments[i])'
      BY <1>4, <1>7, <3>2, Zenon DEF Prunable
    <3>5. ASSUME NEW i \in 1..Len(prune'.todo)
          PROVE  prune'.todo[i] = sealedWalSegments'[PruneAt(n)' + i - 1]
      <4>1. i \in 1..(Len(prune.todo) - 1) /\ i + 1 \in 1..Len(prune.todo) BY <1>5, <1>6, <3>3
      <4>2. prune'.todo[i] = sealedWalSegments[PruneAt(n) + (i + 1) - 1] BY <1>4, <1>6, <1>7, <4>1, Zenon
      <4>3. PruneAt(n)' + i - 1 = PruneAt(n) + (i + 1) - 1 BY <3>3
      <4>. QED BY <3>2, <4>2, <4>3, Zenon
    <3>6. PruneAt(n)' <= Gone' + 1 BY <1>4, <2>3, <3>3
    <3>7. n \in 0..Len(sealedWalSegments') BY <3>2, Zenon
    <3>. QED BY <1>1, <1>7, <3>1, <3>3, <3>4, <3>5, <3>6, <3>7, Zenon DEF Prunes
  <2>6. ~barrier'.active BY <1>1, <1>2, Zenon
  <2>. QED BY <2>1, <2>2, <2>4, <2>5, <2>6, Zenon DEF Process
<1>. QED BY <1>1, <1>8, <1>9, <1>10, <1>11, <1>12, Zenon DEF outside

\* A list of ranges without its first n.
LEMMA RangesSuffix ==
  ASSUME NEW segs, Ranges(segs), NEW n \in 0..Len(segs)
  PROVE  /\ Ranges(SubSeq(segs, n + 1, Len(segs)))
         /\ Len(SubSeq(segs, n + 1, Len(segs))) = Len(segs) - n
         /\ \A i \in 1..(Len(segs) - n) : SubSeq(segs, n + 1, Len(segs))[i] = segs[n + i]
<1>. DEFINE s == SubSeq(segs, n + 1, Len(segs))
            m == Len(segs) - n
<1>1. segs \in Seq(Segments) /\ Len(segs) \in Nat /\ n \in Nat /\ n <= Len(segs) BY DEF Ranges
<1>2. /\ n + 1 \in Nat /\ 1 <= n + 1 /\ n + 1 <= Len(segs) + 1 /\ Len(segs) + 1 - (n + 1) = m /\ m \in Nat
      /\ \A i \in 1..m : (n + 1) + i - 1 = n + i /\ n + i \in 1..Len(segs)
  BY <1>1
<1>3. s \in Seq(Segments) /\ Len(s) = Len(segs) + 1 - (n + 1)
      /\ \A i \in 1..(Len(segs) + 1 - (n + 1)) : s[i] = segs[(n + 1) + i - 1]
  BY <1>1, <1>2, Piece
<1>. HIDE DEF s, m
<1>4. Len(s) = m /\ \A i \in 1..m : s[i] = segs[n + i] BY <1>2, <1>3, Zenon
<1>5. \A i \in 1..Len(s) : 1 <= s[i].first /\ s[i].first <= s[i].last BY <1>2, <1>4, Zenon DEF Ranges
<1>6. \A i, j \in 1..Len(s) : i < j => s[i].last < s[j].first
  <2>. \A i, j \in 1..m : i < j => n + i < n + j BY <1>1, <1>2
  <2>. QED BY <1>2, <1>4, Zenon DEF Ranges
<1>. Contiguous(s)
  <2>. \A i \in 1..(m - 1) : /\ i \in 1..m /\ i + 1 \in 1..m /\ n + i \in 1..(Len(segs) - 1)
                            /\ n + (i + 1) = (n + i) + 1
    BY <1>1, <1>2 DEF m
  <2>2. \A k \in 1..(Len(segs) - 1) : segs[k + 1].first = segs[k].last + 1 BY Zenon DEF Ranges, Contiguous
  <2>3. ASSUME NEW i \in 1..(m - 1) PROVE s[i + 1].first = s[i].last + 1
    <3>. s[i] = segs[n + i] /\ s[i + 1] = segs[n + (i + 1)] BY <1>4, Zenon
    <3>. segs[(n + i) + 1].first = segs[n + i].last + 1 BY <2>2, Zenon
    <3>. QED BY Zenon
  <2>. QED BY <1>4, <2>3, Zenon DEF Contiguous
<1>. Ranges(s) BY <1>3, <1>5, <1>6, Zenon DEF Ranges
<1>. QED BY <1>4, Zenon DEF s, m

\* The list of segments is replaced once the deleted ones are gone.
LEMMA PruneEndStep ==
  ASSUME NEW H, NEW first, Holds(H, first), PruneEnd
  PROVE  Holds(H, first)' /\ acked' = acked
<1>. USE DEF Holds
<1>1. /\ prune.step = "unlink" /\ prune.todo = <<>> /\ EndPrune
      /\ UNCHANGED <<disk, walSequence, walHash, walOffset, liveSegmentFirstSequence,
                     proc, queue, group, barrier, outside>>
  BY Zenon DEF PruneEnd
<1>2. Pruning /\ Usable /\ Top(tickets, "prune") /\ ~Committing /\ ~barrier.active
  BY <1>1, OneHolder, Zenon DEF Pruning, Locks
<1>3. AtHead(H, first) /\ GroupFrames(H) /\ Lists /\ Prunes BY <1>2, Zenon DEF Process
<1>4. PICK n \in 0..Len(sealedWalSegments) :
         /\ \A i \in 1..Len(sealedWalSegments) : i <= n <=> Prunable(sealedWalSegments[i])
         /\ PruneAt(n) <= Gone + 1 /\ (unlinked # <<>> => PruneAt(n) = 1)
  BY <1>1, <1>2, <1>3, Zenon DEF Prunes
<1>5. PICK m \in 0..Len(sealedWalSegments) :
         /\ \A i \in 1..Len(sealedWalSegments) : i <= m <=> Prunable(sealedWalSegments[i])
         /\ sealedWalSegments' = SubSeq(sealedWalSegments, m + 1, Len(sealedWalSegments))
  BY Zenon DEF PruneEnd
<1>6. /\ Ranges(sealedWalSegments) /\ Len(sealedWalSegments) \in Nat /\ Gone \in Nat /\ m \in Nat /\ n \in Nat
      /\ Len(sealed) \in Nat
  <2>1. Len(sealed) \in Nat BY DEF Disk, Image, Ranges
  <2>. QED BY <1>3, <2>1 DEF Lists, Ranges
<1>7. m = n
  <2>1. \A i \in 1..Len(sealedWalSegments) : i <= m <=> i <= n BY <1>4, <1>5, Zenon
  <2>. QED BY <1>6, <2>1
<1>8. n <= Gone /\ (unlinked # <<>> => n = 0)
  <2>1. Len(prune.todo) = 0 BY <1>1
  <2>2. PruneAt(n) = n + 1 - 0 BY <2>1, Zenon DEF PruneAt
  <2>. QED BY <1>4, <1>6, <2>2
<1>. DEFINE list == sealedWalSegments
            s == SubSeq(sealedWalSegments, n + 1, Len(sealedWalSegments))
<1>9. Ranges(s) /\ Len(s) = Len(list) - n /\ \A i \in 1..(Len(list) - n) : s[i] = list[n + i]
  BY <1>6, RangesSuffix, Zenon
<1>10. Types' /\ Locks' /\ Places(H)' /\ Disk(H, first)' /\ Prunes' /\ acked' = acked
  <2>1. sealedWalSegments' \in SegmentLists BY <1>5, <1>7, <1>9, Zenon DEF Ranges, SegmentLists
  <2>. QED BY <1>1, <1>2, <2>1, EndPruneIs, Zenon DEF disk
<1>11. Listed = list /\ Gone = Len(list) - Len(sealed) BY <1>2, HeadNumbers, Zenon
<1>12. sealedWalSegments' = s BY <1>5, <1>7, Zenon
<1>. HIDE DEF s
<1>13. Listed' = s /\ Gone' = Len(s) - Len(sealed)
  <2>1. group'.step \notin {"sealsync", "create"} BY <1>1, <1>2, Zenon DEF Committing
  <2>. QED BY <1>1, <1>12, <2>1, Zenon DEF Listed, Gone, disk
<1>14. Gone' = Gone - n /\ Gone' \in Nat /\ n + Gone' = Gone BY <1>6, <1>8, <1>9, <1>11, <1>13
<1>15. Lists'
  <2>1. \A i \in 1..Len(sealed') : Listed'[Gone' + i] = sealed'[i]
    <3>1. sealed' = sealed BY <1>1, Zenon DEF disk
    <3>2. \A i \in 1..Len(sealed) : list[Gone + i] = sealed[i] BY <1>3, <1>11, Zenon DEF Lists
    <3>3. ASSUME NEW i \in 1..Len(sealed) PROVE s[Gone' + i] = sealed[i]
      <4>1. Gone' + i \in 1..(Len(list) - n) /\ n + (Gone' + i) = Gone + i BY <1>6, <1>11, <1>14
      <4>2. s[Gone' + i] = list[n + (Gone' + i)] BY <1>9, <4>1, Zenon
      <4>. QED BY <3>2, <4>1, <4>2, Zenon
    <3>. QED BY <1>13, <3>1, <3>3, Zenon
  <2>2. s # <<>> => s[Len(s)].last + 1 = liveSegmentFirstSequence'
    <3>1. ASSUME s # <<>> PROVE s[Len(s)] = list[Len(list)] /\ list # <<>>
      <4>1. Len(s) \in Nat /\ Len(s) # 0 BY <1>6, <1>8, <1>9, <3>1 DEF Ranges
      <4>2. Len(s) \in 1..(Len(list) - n) /\ n + Len(s) = Len(list) /\ Len(list) # 0
        BY <1>6, <1>9, <4>1
      <4>. QED BY <1>9, <4>2
    <3>2. list # <<>> => list[Len(list)].last + 1 = liveSegmentFirstSequence BY <1>3, Zenon DEF Lists
    <3>. QED BY <1>1, <3>1, <3>2, Zenon
  <2>3. unlinked' # <<>> => Gone' > 0 /\ Listed'[Gone'] = unlinked'[1].segment
    <3>. SUFFICES ASSUME unlinked # <<>> PROVE Gone' > 0 /\ s[Gone'] = unlinked[1].segment
      BY <1>1, <1>13, Zenon DEF disk
    <3>1. n = 0 /\ Gone > 0 /\ list[Gone] = unlinked[1].segment BY <1>3, <1>8, <1>11, Zenon DEF Lists
    <3>2. Gone' = Gone /\ Gone \in 1..(Len(list) - n) /\ n + Gone = Gone BY <1>6, <1>11, <1>14, <3>1
    <3>3. s[Gone] = list[n + Gone] BY <1>9, <3>2, Zenon
    <3>. QED BY <3>1, <3>2, <3>3, Zenon
  <2>. QED BY <1>9, <1>12, <1>14, <2>1, <2>2, <2>3, Zenon DEF Lists
<1>16. Process(H, first)'
  <2>1. AtHead(H, first)' BY <1>1, <1>3, Zenon DEF AtHead, disk, proc, outside, Written, Passed
  <2>2. GroupFrames(H)' BY <1>1, <1>3, GroupStays, Zenon
  <2>3. ~barrier'.active BY <1>1, <1>2, Zenon
  <2>. QED BY <1>10, <1>15, <2>1, <2>2, <2>3, Zenon DEF Process
<1>. QED BY <1>10, <1>16, Zenon

\* Which segment a running prune deletes next.
LEMMA NextToDelete ==
  ASSUME NEW H, NEW first, Holds(H, first), prune.step = "unlink", prune.todo # <<>>
  PROVE  /\ Pruning /\ Usable /\ Top(tickets, "prune") /\ ~Committing /\ ~barrier.active /\ walOffset > 0
         /\ Head(prune.todo).last <= checkpoint.seq /\ Prunable(Head(prune.todo))
         /\ \E n \in 0..Len(sealedWalSegments) :
              /\ \A i \in 1..Len(sealedWalSegments) : i <= n <=> Prunable(sealedWalSegments[i])
              /\ Len(prune.todo) <= n
              /\ \A i \in 1..Len(prune.todo) : prune.todo[i] = sealedWalSegments[PruneAt(n) + i - 1]
              /\ IF sealed # <<>> /\ sealed[1] = Head(prune.todo)
                 THEN PruneAt(n) = Gone + 1 ELSE PruneAt(n) <= Gone
<1>. USE DEF Holds
<1>2. Pruning /\ Usable /\ Top(tickets, "prune") /\ ~Committing /\ ~barrier.active
  BY OneHolder, Zenon DEF Pruning, Locks
<1>3. Lists /\ Prunes BY <1>2, Zenon DEF Process
<1>4. PICK n \in 0..Len(sealedWalSegments) :
         /\ \A i \in 1..Len(sealedWalSegments) : i <= n <=> Prunable(sealedWalSegments[i])
         /\ Len(prune.todo) <= n
         /\ \A i \in 1..Len(prune.todo) : prune.todo[i] = sealedWalSegments[PruneAt(n) + i - 1]
         /\ PruneAt(n) <= Gone + 1
  BY <1>2, <1>3, Zenon DEF Prunes
<1>. DEFINE list == sealedWalSegments
            t == Len(prune.todo)
            at == PruneAt(n)
<1>5. /\ prune.todo \in Seq(Segments) /\ t \in Nat /\ t # 0
      /\ list \in Seq(Segments) /\ Len(list) \in Nat /\ n \in Nat /\ Len(sealed) \in Nat /\ Ranges(list)
      /\ \A i \in 1..Len(list) : list[i].first \in Nat /\ list[i].last \in Nat
  <2>. /\ prune.todo \in Seq(Segments) /\ t \in Nat /\ list \in Seq(Segments) /\ Len(list) \in Nat /\ n \in Nat
    BY DEF Types, Prunings, SegmentLists
  <2>. Len(sealed) \in Nat /\ Ranges(list) BY <1>3 DEF Disk, Image, Ranges, Lists
  <2>. \A i \in 1..Len(list) : list[i] \in Segments OBVIOUS
  <2>. QED BY DEF Segments
<1>6. walOffset > 0 /\ prune.anchor.seq <= checkpoint.seq BY <1>2, <1>3, Zenon DEF Prunes
<1>7. Listed = list /\ Gone = Len(list) - Len(sealed) /\ Gone \in Nat
  BY <1>2, <1>3, HeadNumbers, Zenon DEF Lists
<1>8. at = n + 1 - t BY Zenon DEF PruneAt
<1>. HIDE DEF at, t
<1>9. at \in 1..n /\ at \in 1..Len(list) /\ at + 1 - 1 = at /\ 1 \in 1..t BY <1>4, <1>5, <1>8 DEF t
<1>10. Head(prune.todo) = list[at]
  <2>. prune.todo[1] = list[at + 1 - 1] BY <1>4, <1>9, Zenon DEF at, t
  <2>. QED BY <1>5, <1>9
<1>11. Prunable(list[at]) BY <1>4, <1>9
<1>12. Head(prune.todo).last <= checkpoint.seq
  <2>. list[at].last \in Nat /\ prune.anchor.seq \in Nat /\ checkpoint.seq \in Nat
    BY <1>5, <1>9, Zenon DEF Types, Prunings, Anchors
  <2>. list[at].last <= prune.anchor.seq BY <1>11, Zenon DEF Prunable
  <2>. QED BY <1>6, <1>10
<1>13. sealed # <<>> => Len(sealed) >= 1 /\ Gone + 1 \in 1..Len(list) /\ list[Gone + 1] = sealed[1]
  <2>. SUFFICES ASSUME sealed # <<>>
                PROVE  Len(sealed) >= 1 /\ Gone + 1 \in 1..Len(list) /\ list[Gone + 1] = sealed[1]
    BY Zenon
  <2>1. Len(sealed) # 0 BY DEF Disk, Image, Ranges
  <2>. Len(sealed) >= 1 /\ 1 \in 1..Len(sealed) /\ Gone + 1 \in 1..Len(list) BY <1>5, <1>7, <2>1
  <2>. Listed[Gone + 1] = sealed[1] BY <1>3, Zenon DEF Lists
  <2>. QED BY <1>7, Zenon
<1>. IF sealed # <<>> /\ sealed[1] = Head(prune.todo) THEN at = Gone + 1 ELSE at <= Gone
  <2>0. at \in Nat /\ at <= Gone + 1 /\ Gone \in Nat BY <1>4, <1>7, <1>9 DEF at
  <2>1. CASE sealed # <<>> /\ sealed[1] = Head(prune.todo)
    <3>1. ASSUME at < Gone + 1 PROVE FALSE
      <4>1. list[at].last < list[Gone + 1].first BY <1>5, <1>9, <1>13, <2>1, <3>1, Zenon DEF Ranges
      <4>. list[at].first <= list[at].last /\ list[at] = list[Gone + 1]
        BY <1>5, <1>9, <1>10, <1>13, <2>1, Zenon DEF Ranges
      <4>. list[at].first \in Nat /\ list[at].last \in Nat BY <1>5, <1>9, Zenon
      <4>. QED BY <4>1
    <3>. QED BY <2>0, <2>1, <3>1
  <2>2. CASE sealed # <<>> /\ sealed[1] # Head(prune.todo)
    <3>. at # Gone + 1 BY <1>10, <1>13, <2>2, Zenon
    <3>. at <= Gone BY <2>0
    <3>. QED BY <2>2, Zenon
  <2>. CASE sealed = <<>>
    <3>. Len(sealed) = 0 BY Zenon
    <3>. at <= Gone BY <1>5, <1>7, <1>9
    <3>. QED BY Zenon
  <2>. QED BY <2>1, <2>2, Zenon
<1>. Prunable(Head(prune.todo)) BY <1>10, <1>11, Zenon
<1>. QED BY <1>2, <1>4, <1>6, <1>12, Zenon DEF at

\* The deleted segment, as a crash may bring it back.
LEMMA RemovedIs ==
  ASSUME NEW H \in Chains, NEW first, Image(H, sealed, log, first), Unlinkable(H, sealed, log, first),
         NEW n, n = Size(sealed[1]), n \in Nat, n < Len(log), sealed[1].last + 1 = first + n,
         NEW u, u = [segment |-> sealed[1], frames |-> SubSeq(log, 1, n)]
  PROVE  Removed(H, u, first + n) /\ u \in Unlinked
<1>1. /\ Len(H) \in Nat /\ first \in Nat /\ log \in Seq(Frames) /\ Len(log) \in Nat /\ sealed # <<>>
      /\ Len(log) = Len(H) + 1 - first
  BY ImageShape, Zenon DEF Unlinkable
<1>2. Ranges(sealed) /\ sealed[1].first = first BY <1>1, Zenon DEF Image
<1>3. Len(sealed) >= 1 /\ sealed[1] \in Segments /\ Len(sealed) \in Nat BY <1>1, <1>2, SealedSize, Zenon
<1>4. 1 <= sealed[1].first /\ sealed[1].first <= sealed[1].last
  <2>. 1 \in 1..Len(sealed) BY <1>3
  <2>. QED BY <1>2, Zenon DEF Ranges
<1>5. SubSeq(log, 1, n) \in Seq(Frames) /\ Len(SubSeq(log, 1, n)) = n + 1 - 1
      /\ \A i \in 1..(n + 1 - 1) : SubSeq(log, 1, n)[i] = log[1 + i - 1]
  <2>. 1 \in Nat /\ 1 <= 1 /\ 1 <= n + 1 /\ n <= Len(log) BY <1>1
  <2>. QED BY <1>1, Piece
<1>6. u.segment = sealed[1] /\ u.frames = SubSeq(log, 1, n) BY Zenon
<1>. Len(u.frames) = Size(u.segment) /\ \A i \in 1..Len(u.frames) : u.frames[i] = FrameAt(H, first + i - 1)
  <2>1. n + 1 - 1 = n /\ \A i \in 1..n : 1 + i - 1 = i /\ i \in 1..(Len(H) + 1 - first) BY <1>1
  <2>. Len(u.frames) = n /\ \A i \in 1..n : u.frames[i] = log[i] BY <1>5, <1>6, <2>1, Zenon
  <2>3. \A i \in 1..(Len(H) + 1 - first) : log[i] = FrameAt(H, first + i - 1) BY Zenon DEF Image, Lays
  <2>. \A i \in 1..n : u.frames[i] = FrameAt(H, first + i - 1) BY <2>1, <2>3, Zenon
  <2>. Size(u.segment) = n BY <1>6, Zenon
  <2>. QED BY Zenon
<1>. u \in Unlinked BY <1>3, <1>5, Zenon DEF Unlinked
<1>. QED BY <1>2, <1>4, <1>6, Zenon DEF Removed

LEMMA PruneUnlinkStep ==
  ASSUME NEW H, NEW first, Holds(H, first), PruneUnlink
  PROVE  (\E a : Holds(H, a)') /\ acked' = acked
<1>. USE DEF Holds
<1>1. /\ prune.step = "unlink" /\ prune.todo # <<>> /\ prune' = [prune EXCEPT !.step = "sync"]
      /\ UNCHANGED <<unsynced, renamed, head, proc, queue, tickets, group, barrier, outside>>
  BY Zenon DEF PruneUnlink
<1>2. /\ Pruning /\ Usable /\ Top(tickets, "prune") /\ ~Committing /\ ~barrier.active /\ walOffset > 0
      /\ Head(prune.todo).last <= checkpoint.seq
  BY <1>1, NextToDelete, Zenon
<1>3. PICK n \in 0..Len(sealedWalSegments) :
         /\ \A i \in 1..Len(sealedWalSegments) : i <= n <=> Prunable(sealedWalSegments[i])
         /\ Len(prune.todo) <= n
         /\ \A i \in 1..Len(prune.todo) : prune.todo[i] = sealedWalSegments[PruneAt(n) + i - 1]
         /\ IF sealed # <<>> /\ sealed[1] = Head(prune.todo)
            THEN PruneAt(n) = Gone + 1 ELSE PruneAt(n) <= Gone
  BY <1>1, NextToDelete, Zenon
<1>4. AtHead(H, first) /\ GroupFrames(H) /\ Lists /\ Prunes BY <1>2, Zenon DEF Process
<1>5. /\ Len(log) = Len(H) + 1 - first /\ walSequence = Len(H) /\ unsynced = 0 /\ ~renamed /\ handle
      /\ walOffset \in Nat /\ liveSegmentFirstSequence \in Nat
      /\ walOffset = Len(log) - SealedFrames(sealed)
      /\ liveSegmentFirstSequence = first + SealedFrames(sealed)
      /\ Listed = sealedWalSegments /\ Gone = Len(sealedWalSegments) - Len(sealed)
  BY <1>2, HeadNumbers, Zenon
<1>6. /\ prune' \in Prunings /\ prune'.step = "sync" /\ prune'.todo = prune.todo
      /\ prune'.anchor = prune.anchor /\ prune'.retain = prune.retain
  <2>. prune \in Prunings BY Zenon DEF Types
  <2>. QED BY <1>1, Zenon DEF Prunings
<1>7. Locks'
  <2>. mode # "opening" BY <1>2, Zenon DEF Usable
  <2>. QED BY <1>1, <1>2, <1>6, Zenon DEF Locks, proc, Committing, Usable, Pruning
<1>8. Places(H)' BY <1>1, PlacesStay, Zenon DEF outside
<1>9. Gone \in Nat /\ Len(sealed) \in Nat /\ Len(sealedWalSegments) \in Nat /\ first \in Nat /\ Len(H) \in Nat
      /\ SealedFrames(sealed) \in Nat /\ checkpoint.seq \in Nat
  <2>. Gone \in Nat BY <1>4, Zenon DEF Lists
  <2>. Len(sealed) \in Nat /\ Len(sealedWalSegments) \in Nat BY DEF Disk, Image, Ranges, Types, SegmentLists
  <2>. QED BY DiskNumbers, Zenon
<1>10. GroupFrames(H)' BY <1>1, <1>4, GroupStays, Zenon DEF head
<1>11. ASSUME Listed' = sealedWalSegments, Gone' \in Nat, PruneAt(n) <= Gone' PROVE Prunes'
  <2>1. /\ prune'.anchor.seq <= checkpoint'.seq /\ (~Committing' => walOffset' > 0)
    <3>. (prune.step # "none" => prune.anchor.seq <= checkpoint.seq) BY <1>4, Zenon DEF Prunes
    <3>. checkpoint' = checkpoint /\ walOffset' = walOffset BY <1>1, Zenon DEF outside, head
    <3>. QED BY <1>1, <1>2, <1>6, Zenon
  <2>. sealedWalSegments' = sealedWalSegments BY <1>1, Zenon DEF head
  <2>3. PruneAt(n)' = PruneAt(n) BY <1>6, Zenon DEF PruneAt
  <2>4. \A i \in 1..Len(sealedWalSegments') : i <= n <=> Prunable(sealedWalSegments[i])'
    BY <1>3, <1>6, Zenon DEF Prunable
  <2>5. n \in 0..Len(sealedWalSegments') BY Zenon
  <2>. \A i \in 1..Len(prune'.todo) : prune'.todo[i] = sealedWalSegments'[PruneAt(n)' + i - 1]
    BY <1>3, <1>6, <2>3, Zenon
  <2>. Len(prune'.todo) <= n /\ prune'.todo # <<>> /\ PruneAt(n)' <= Gone' BY <1>1, <1>3, <1>6, <1>11, <2>3, Zenon
  <2>. QED BY <1>6, <2>1, <2>4, <2>5, Zenon DEF Prunes
<1>12. CASE ~(sealed # <<>> /\ sealed[1] = Head(prune.todo))
  <2>. UNCHANGED <<unlinked, sealed, log>> BY <1>12, Zenon DEF PruneUnlink
  <2>2. Types' BY <1>1, <1>6, Zenon DEF Types, head, proc, outside
  <2>3. Disk(H, first)' BY <1>1, DiskStays, Zenon DEF disk, outside
  <2>4. AtHead(H, first)' BY <1>1, <1>4, HeadStays, Zenon DEF disk, proc, outside
  <2>5. Lists' BY <1>1, <1>4, ListsStay, Zenon DEF disk
  <2>6. Listed' = sealedWalSegments /\ Gone' = Gone BY <1>1, <1>5, Zenon DEF Listed, Gone, head
  <2>7. PruneAt(n) <= Gone' BY <1>3, <1>12, <2>6, Zenon
  <2>8. Prunes' BY <1>9, <1>11, <2>6, <2>7, Zenon
  <2>. ~barrier'.active BY <1>1, <1>2, Zenon
  <2>. Process(H, first)' BY <1>10, <2>4, <2>5, <2>8, Zenon DEF Process
  <2>. QED BY <1>1, <1>7, <1>8, <2>2, <2>3, Zenon DEF outside
<1>13. CASE sealed # <<>> /\ sealed[1] = Head(prune.todo)
  <2>0. PICK k : k = Size(sealed[1]) BY Zenon
  <2>. DEFINE u == [segment |-> sealed[1], frames |-> SubSeq(log, 1, k)]
              l == SubSeq(log, k + 1, Len(log))
              s == Tail(sealed)
  <2>1. unlinked' = <<u>> /\ sealed' = s /\ log' = l BY <1>13, <2>0, Zenon DEF PruneUnlink
  <2>2. Image(H, sealed, log, first) BY Zenon DEF Disk
  <2>3. Unlinkable(H, sealed, log, first)
    <3>. Len(log) \in Nat BY DiskNumbers, Zenon
    <3>. Len(log) > SealedFrames(sealed) BY <1>2, <1>5, <1>9
    <3>. QED BY <1>5, <1>13, Zenon DEF Unlinkable
  <2>4. /\ k \in Nat /\ k >= 1 /\ k < Len(log) /\ sealed[1].last + 1 = first + k
        /\ Image(H, s, l, first + k) /\ Len(l) = Len(log) - k
        /\ SealedFrames(s) = SealedFrames(sealed) - k
    BY <2>0, <2>2, <2>3, UnlinkImage
  <2>5. Removed(H, u, first + k) /\ u \in Unlinked BY <2>0, <2>2, <2>3, <2>4, RemovedIs, Zenon
  <2>. HIDE DEF l, s, u
  <2>n. k \in Nat /\ k >= 1 /\ k < Len(log) BY <2>4, Zenon
  <2>6. Types'
    <3>. unlinked' \in Removals BY <2>1, <2>5 DEF Removals
    <3>. QED BY <1>1, <1>6, Zenon DEF Types, head, proc, outside
  <2>7. Len(log') = Len(log) - k /\ SealedFrames(sealed') = SealedFrames(sealed) - k
        /\ unsynced' = 0 /\ ~renamed' /\ checkpoint' = checkpoint /\ acked' = acked
    BY <1>1, <1>5, <2>1, <2>4, Zenon DEF outside
  <2>8. Len(log) \in Nat /\ Len(acked) \in Nat /\ Len(acked) <= first - 1 + Len(log) - 0
        /\ checkpoint.seq <= first - 1 + Len(log) - 0 /\ 0 <= Len(log) - SealedFrames(sealed)
    BY <1>5, DiskNumbers, Zenon
  <2>9. Disk(H, first + k)'
    <3>1. Image(H, sealed', log', first + k) BY <2>1, <2>4, Zenon
    <3>2. unsynced' <= Len(log') - SealedFrames(sealed') /\ unsynced' < Len(log')
      BY <1>9, <2>n, <2>7, <2>8
    <3>3. unlinked'[1] = u BY <2>1, Zenon
    <3>4. first + k <= checkpoint'.seq + 1
      <4>. DEFINE z == sealed[1].last
      <4>. z <= checkpoint.seq /\ z + 1 = first + k /\ checkpoint'.seq = checkpoint.seq BY <1>2, <1>13, <2>4, <2>7, Zenon
      <4>. z \in Nat BY <1>9, <1>13, <2>2, SealedSize, Zenon DEF Image, Segments
      <4>. HIDE DEF z
      <4>. QED BY <1>9, <2>n
    <3>. Kept(first + k)' = first - 1 + Len(log) - 0
      <4>. Kept(first + k)' = (first + k) - 1 + Len(log') - unsynced' BY Zenon DEF Kept
      <4>. QED BY <1>9, <2>n, <2>7, <2>8
    <3>. Anchored(H, checkpoint') /\ Prefix(acked', H) BY <2>7, Zenon DEF Disk
    <3>. QED BY <2>5, <2>7, <2>8, <3>1, <3>2, <3>3, <3>4, Zenon DEF Disk
  <2>10. AtHead(H, first + k)'
    <3>1. Len(log') = Len(H) + 1 - (first + k) /\ liveSegmentFirstSequence = (first + k) + SealedFrames(sealed')
      <4>1. Len(log) - k = Len(H) + 1 - (first + k) /\ first + SealedFrames(sealed) = (first + k) + (SealedFrames(sealed) - k)
        <5>1. /\ Len(H) \in Nat /\ first \in Nat /\ k \in Nat /\ SealedFrames(sealed) \in Nat
              /\ Len(log) = Len(H) + 1 - first
          BY <1>5, <1>9, <2>n, Zenon
        <5>. QED BY <5>1, Shifted
      <4>. QED BY <1>5, <2>7, <4>1, Zenon
    <3>. group' = group /\ group.step \notin {"sealsync", "create"} BY <1>1, <1>2, Zenon DEF Committing
    <3>. Written' = Written /\ Passed' = Passed BY Zenon DEF Written, Passed
    <3>. QED BY <1>1, <1>4, <3>1, Zenon DEF AtHead, head, proc, outside
  <2>11. Len(s) = Len(sealed) - 1 /\ (\A i \in 1..(Len(sealed) - 1) : s[i] = sealed[i + 1]) /\ Len(sealed) # 0
    <3>. sealed \in Seq(Segments) BY <2>2, Zenon DEF Image, Ranges
    <3>. Len(sealed) # 0 BY <1>13
    <3>. QED BY <1>9, <1>13, Parted, Zenon DEF s
  <2>12. Listed' = sealedWalSegments /\ Gone' = Gone + 1
    <3>1. group'.step \notin {"sealsync", "create"} BY <1>1, <1>2, Zenon DEF Committing
    <3>. Listed' = sealedWalSegments BY <1>1, <3>1, Zenon DEF Listed, head
    <3>. Gone' = Len(sealedWalSegments) - Len(s) BY <2>1, Zenon DEF Gone
    <3>. QED BY <1>5, <1>9, <2>11
  <2>13. Lists'
    <3>1. \A i \in 1..Len(sealed) : sealedWalSegments[Gone + i] = sealed[i] BY <1>4, <1>5, Zenon DEF Lists
    <3>2. ASSUME NEW i \in 1..Len(sealed') PROVE Listed'[Gone' + i] = sealed'[i]
      <4>. i \in 1..(Len(sealed) - 1) BY <2>1, <2>11, Zenon
      <4>. i + 1 \in 1..Len(sealed) /\ (Gone + 1) + i = Gone + (i + 1) BY <1>9
      <4>. QED BY <2>1, <2>11, <2>12, <3>1, Zenon
    <3>3. Gone' > 0 /\ Gone' \in Nat BY <1>9, <2>12
    <3>. Listed'[Gone'] = unlinked'[1].segment
      <4>. 1 \in 1..Len(sealed) BY <1>9, <2>11
      <4>. unlinked'[1] = u /\ u.segment = sealed[1] BY <2>1, Zenon DEF u
      <4>. QED BY <2>12, <3>1, Zenon
    <3>. sealedWalSegments' = sealedWalSegments /\ liveSegmentFirstSequence' = liveSegmentFirstSequence
      BY <1>1, Zenon DEF head
    <3>. QED BY <1>4, <3>2, <3>3, Zenon DEF Lists
  <2>14. PruneAt(n) <= Gone' /\ Gone' \in Nat BY <1>3, <1>9, <1>13, <2>12
  <2>15. Prunes' BY <1>11, <2>12, <2>14, Zenon
  <2>16. ~barrier'.active BY <1>1, <1>2, Zenon
  <2>. Process(H, first + k)' BY <1>10, <2>10, <2>13, <2>15, <2>16, Zenon DEF Process
  <2>. Holds(H, first + k)' BY <1>7, <1>8, <2>6, <2>9, Zenon
  <2>. QED BY <2>7, Zenon
<1>. QED BY <1>12, <1>13, Zenon
=============================================================================

---------------------------- MODULE ReplayJournal ----------------------------
(***************************************************************************)
(* The durable replay journal of private IPC                               *)
(* (packages/blind-daemon/private-ipc-replay-journal-v2.js): a record that *)
(* opens a staged put is authorised at most once.                          *)
(*                                                                         *)
(* A record has a tuple (the record itself here) and a deadline.  reserve  *)
(* runs serialized: it refuses a tuple with a live entry, compacts the     *)
(* file when it is full, appends EXPIRE frames and a CONSUME frame, and    *)
(* returns a receipt that is consumed in a later turn.  The clock is       *)
(* monotonic and goes on while the process is down.                        *)
(***************************************************************************)
EXTENDS Integers, Sequences, FiniteSets

CONSTANTS Records, Callers, Closer, None,
          Deadlines,    \* the deadlines that records may have
          TTL,          \* ACCEPTED_RECORD_MAXIMUM_TTL_MILLIS
          Quarantine,   \* STARTUP_WRITE_QUARANTINE_MILLIS
          Retention,    \* RECOVERED_ENTRY_MINIMUM_RETENTION_MILLIS
          Capacity,     \* live entries
          Limit,        \* compactionRecordLimit
          MaxNow, MaxGeneration, MaxFaults   \* bounds of the instance

ASSUME JournalConstants ==
  /\ None \notin Records /\ Closer \notin Callers /\ Deadlines \subseteq Nat
  /\ TTL \in Nat /\ Quarantine \in Nat /\ Retention \in Nat /\ TTL <= Quarantine
  /\ Retention <= TTL   \* liveSnapshot finds every horizon in range
  /\ Capacity \in Nat /\ Limit \in Nat /\ Limit <= 2 * Capacity   \* normalizeOptions
  /\ MaxNow \in Nat /\ MaxFaults \in Nat

VARIABLES deadline,    \* expiresMonotonicMillis of each record
          now,         \* the monotonic clock
          phase,       \* "down", "open", "poisoned" or "closing"
          quarantine,  \* quarantineUntilMonotonicMillis
          entries,     \* the map from tuples to entries, live or expired
          generation,
          serial,      \* the callers queued by serialize, head first
          call,        \* each caller: pc, record, the time it sampled, its receipt
          file,        \* the frames written to the journal file
          synced,      \* how many of them are durable
          older,       \* what renames replaced since the directory was synced
          faults,
          granted      \* history: how often each record was authorised

disk == <<file, synced, older>>
vars == <<deadline, now, phase, quarantine, entries, generation, serial, call, disk, faults, granted>>

Idle == [pc |-> "idle", record |-> None, now |-> 0, receipt |-> None]
NoEntries == [r \in {} |-> None]
At(c, pc) == call[c].pc = pc
Return(c) == call' = [call EXCEPT ![c] = Idle]

Init ==
  /\ deadline \in [Records -> Deadlines]
  /\ now = 0 /\ phase = "down" /\ quarantine = 0 /\ entries = NoEntries /\ generation = 1
  /\ serial = <<>> /\ call = [c \in Callers |-> Idle]
  /\ file = <<>> /\ synced = 0 /\ older = {}
  /\ faults = 0 /\ granted = [r \in Records |-> 0]

-----------------------------------------------------------------------------
\* recoverJournal: the tuples whose last frame among the first n is a CONSUME.
LiveAfter(frames, n) ==
  {r \in Records : \E i \in 1..n : /\ frames[i] = [type |-> "consume", record |-> r]
                                   /\ \A j \in (i + 1)..n : frames[j].record # r}
Recovered(frames) == LiveAfter(frames, Len(frames))

\* The n-th frame can follow the ones before it: a CONSUME is of a tuple that is
\* not live and within the capacity, an EXPIRE of a live one.
Follows(frames, n) ==
  LET live == LiveAfter(frames, n - 1)
  IN IF frames[n].type = "consume"
     THEN frames[n].record \notin live /\ Cardinality(live) < Capacity
     ELSE frames[n].record \in live

\* MAXIMUM_RECORDS
MaximumRecords == 2 * Capacity
Readable(frames) == Len(frames) <= MaximumRecords /\ \A n \in 1..Len(frames) : Follows(frames, n)

Entry(expires, seq) == [expires |-> expires, generation |-> generation, seq |-> seq]

\* Where the live CONSUME of a recovered tuple is in the file.
LastFrame(frames, r) == CHOOSE i \in 1..Len(frames) :
  frames[i].record = r /\ \A j \in 1..Len(frames) : frames[j].record = r => j <= i

\* openPrivateIpcReplayJournalV2.  A file that does not exist is installed empty.
\* Recovery syncs the file and its directory only when it cuts off a torn frame.
Open ==
  /\ phase = "down" /\ Readable(file)
  /\ phase' = "open"
  /\ quarantine' = now + Quarantine
  /\ entries' = [r \in Recovered(file) |-> Entry(now + Retention, LastFrame(file, r))]
  /\ \/ synced' = Len(file) /\ older' = {}
     \/ UNCHANGED <<synced, older>>
  /\ UNCHANGED <<deadline, now, generation, serial, call, file, faults, granted>>

Tick ==
  /\ now < MaxNow /\ now' = now + 1
  /\ UNCHANGED <<deadline, phase, quarantine, entries, generation, serial, call, disk, faults, granted>>

\* The process dies, and what it did not sync may be lost from its end; or the
\* machine does, and a rename that was not synced may be undone with it.
Crash ==
  /\ phase # "down" /\ (faults < MaxFaults \/ phase = "poisoned")
  /\ faults' = IF faults < MaxFaults THEN faults + 1 ELSE faults
  /\ \/ /\ \E n \in synced..Len(file) : file' = SubSeq(file, 1, n)
        /\ UNCHANGED <<synced, older, generation>>
     \/ /\ \E image \in older :
             /\ \E n \in image.synced..Len(image.file) : file' = SubSeq(image.file, 1, n) /\ synced' = n
             /\ generation' = image.generation
        /\ older' = {}
  /\ phase' = "down" /\ serial' = <<>> /\ call' = [c \in Callers |-> Idle] /\ entries' = NoEntries
  /\ UNCHANGED <<deadline, now, quarantine, granted>>

-----------------------------------------------------------------------------
memory == <<phase, quarantine, entries, generation>>

\* The serialized callback ends and the next one may start.
Leave(c) == serial' = Tail(serial) /\ Return(c)

\* reservePrivateIpcReplayTupleV2
Reserve(c, r) ==
  /\ phase = "open" /\ At(c, "idle")
  /\ serial' = Append(serial, c)
  /\ call' = [call EXCEPT ![c] = [Idle EXCEPT !.pc = "begin", !.record = r]]
  /\ UNCHANGED <<deadline, now, memory, disk, faults, granted>>

Turn(c, pc) == serial # <<>> /\ Head(serial) = c /\ At(c, pc)

\* The expiry is live and bounded.
Bounded(r, t) == deadline[r] > t /\ deadline[r] - t <= TTL

\* The clock is sampled; then the files are inspected.  The signal of the
\* caller may be aborted at any check of it.
BeginReserve(c) ==
  /\ Turn(c, "begin")
  /\ \/ /\ phase = "open" /\ now >= quarantine /\ Bounded(call[c].record, now)
        /\ call' = [call EXCEPT ![c] = [@ EXCEPT !.pc = "check", !.now = now]]
        /\ UNCHANGED serial
     \/ Leave(c)
  /\ UNCHANGED <<deadline, now, memory, disk, faults, granted>>

\* Mutant: an entry is dropped one unit before its deadline.
BugStale(t) == {r \in DOMAIN entries : entries[r].expires <= t + 1}

\* expiredKeys
Stale(t) == {r \in DOMAIN entries : entries[r].expires <= t}
Live(t) == DOMAIN entries \ Stale(t)

\* A replay and a full journal are refused; a full file is compacted first.
CheckReserve(c) ==
  LET live == Live(call[c].now)
      full == Len(file) + Cardinality(Stale(call[c].now)) + 1 > Limit
  IN /\ Turn(c, "check")
     /\ \/ /\ call[c].record \notin live /\ Cardinality(live) < Capacity
           /\ full => generation < MaxGeneration
           /\ call' = [call EXCEPT ![c].pc = IF full THEN "compact" ELSE "append"]
           /\ UNCHANGED serial
        \/ Leave(c)
     /\ UNCHANGED <<deadline, now, memory, disk, faults, granted>>

\* The frames of a set of tuples, in the order of their keys.
Ordered(set) == CHOOSE s \in [1..Cardinality(set) -> set] : {s[i] : i \in 1..Cardinality(set)} = set
Frames(type, set) == [i \in 1..Cardinality(set) |-> [type |-> type, record |-> Ordered(set)[i]]]

\* compactJournal: the replacement is written and synced, then renamed; then the
\* directory is synced and the state swapped.
CompactRename(c) ==
  /\ Turn(c, "compact")
  /\ older' = older \cup {[file |-> file, synced |-> synced, generation |-> generation]}
  /\ file' = Frames("consume", Live(call[c].now)) /\ synced' = Len(file')
  /\ generation' = generation + 1
  /\ call' = [call EXCEPT ![c].pc = "swap"]
  /\ UNCHANGED <<deadline, now, phase, quarantine, entries, serial, faults, granted>>

\* Mutant: the entries that are expired are kept although the file has them not.
BugSwapped(c) == entries

\* The entries as the compacted file has them.
Swapped(c) == [r \in Live(call[c].now) |-> Entry(entries[r].expires, LastFrame(file, r))]

CompactSwap(c) ==
  /\ Turn(c, "swap")
  /\ older' = {}
  /\ entries' = Swapped(c)
  /\ call' = [call EXCEPT ![c].pc = "append"]
  /\ UNCHANGED <<deadline, now, phase, quarantine, generation, serial, file, synced, faults, granted>>

\* The frames of the reservation are written: EXPIRE for what was expired when
\* the call sampled the clock and is still an entry, then CONSUME.
NewFrames(c) ==
  Frames("expire", Stale(call[c].now)) \o <<[type |-> "consume", record |-> call[c].record]>>

AppendFrames(c) ==
  /\ Turn(c, "append")
  /\ \/ /\ deadline[call[c].record] > now
        /\ file' = file \o NewFrames(c)
        /\ call' = [call EXCEPT ![c].pc = "sync"]
        /\ UNCHANGED serial
     \/ Leave(c) /\ UNCHANGED file
  /\ UNCHANGED <<deadline, now, memory, synced, older, faults, granted>>

\* Mutant: the receipt is minted without waiting for the sync.
BugDurable == synced

\* What handle.sync makes durable.
Durable == Len(file)

\* The frames are durable, the entry is made and, unless its deadline has passed
\* meanwhile, the receipt is minted.
SyncFrames(c) ==
  LET r == call[c].record
  IN /\ Turn(c, "sync")
     /\ synced' = Durable
     /\ entries' = [x \in Live(call[c].now) \cup {r} |->
                      IF x = r THEN Entry(deadline[r], Len(file)) ELSE entries[x]]
     /\ serial' = Tail(serial)
     /\ \/ /\ deadline[r] > now
           /\ call' = [call EXCEPT ![c] = [@ EXCEPT !.pc = "receipt", !.receipt = entries'[r]]]
        \/ deadline[r] <= now /\ Return(c)
     /\ UNCHANGED <<deadline, now, phase, quarantine, generation, file, older, faults, granted>>

\* An I/O error in any step that touches the files poisons the journal, unless it
\* is being closed.  A write may have reached the file in part.
Fails(c) ==
  /\ serial # <<>> /\ Head(serial) = c /\ faults < MaxFaults
  /\ call[c].pc \in {"check", "compact", "swap", "append", "sync"}
  /\ faults' = faults + 1
  /\ IF At(c, "append")
     THEN \E n \in 0..Len(NewFrames(c)) : file' = file \o SubSeq(NewFrames(c), 1, n)
     ELSE UNCHANGED file
  /\ phase' = IF phase = "closing" THEN phase ELSE "poisoned"
  /\ Leave(c)
  /\ UNCHANGED <<deadline, now, quarantine, entries, generation, synced, older, granted>>

\* The entry is the one the receipt was minted for, and not expired.
Current(c) ==
  /\ call[c].record \in DOMAIN entries
  /\ entries[call[c].record] = call[c].receipt /\ call[c].receipt.expires > now

\* consumePrivateIpcReplayReservationV2: the receipt is burnt, and the record
\* authorised if the entry is still the one of the receipt.
Consume(c) ==
  /\ At(c, "receipt") /\ Return(c)
  /\ granted' = IF phase = "open" /\ Current(c)
                THEN [granted EXCEPT ![call[c].record] = @ + 1] ELSE granted
  /\ UNCHANGED <<deadline, now, memory, serial, disk, faults>>

\* closePrivateIpcReplayJournalV2 waits for its turn.
Close ==
  /\ phase \in {"open", "poisoned"} /\ \A i \in 1..Len(serial) : serial[i] # Closer
  /\ phase' = IF phase = "open" THEN "closing" ELSE phase
  /\ serial' = Append(serial, Closer)
  /\ UNCHANGED <<deadline, now, quarantine, entries, generation, call, disk, faults, granted>>

\* A receipt of a closed journal is refused, by the next one too.
Closed ==
  /\ serial # <<>> /\ Head(serial) = Closer
  /\ serial' = Tail(serial)
  /\ phase' = "down" /\ entries' = NoEntries /\ call' = [c \in Callers |-> Idle]
  /\ UNCHANGED <<deadline, now, quarantine, generation, disk, faults, granted>>

Step(c) ==
  \/ BeginReserve(c) \/ CheckReserve(c) \/ CompactRename(c) \/ CompactSwap(c)
  \/ AppendFrames(c) \/ SyncFrames(c) \/ Consume(c)

Next ==
  \/ Open \/ Tick \/ Crash \/ Close \/ Closed
  \/ \E c \in Callers : Step(c) \/ Fails(c) \/ \E r \in Records : Reserve(c, r)

Spec == Init /\ [][Next]_vars

-----------------------------------------------------------------------------
\* The types of the variables.
TypeOK ==
  /\ deadline \in [Records -> Nat] /\ now \in Nat /\ quarantine \in Nat
  /\ phase \in {"down", "open", "poisoned", "closing"}
  /\ granted \in [Records -> Nat]
  /\ DOMAIN entries \subseteq Records /\ DOMAIN call = Callers

\* A record is authorised at most once, by whichever process, whether the
\* journal was compacted, restarted or cut off by a crash in between.
AtMostOnce == \A r \in Records : granted[r] <= 1

\* Whatever a crash leaves of the file, the next open accepts it
\* (recoverJournal): no duplicate CONSUME, no EXPIRE without a live CONSUME, not
\* more tuples than the capacity and not more frames than the maximum.
AlwaysReadable ==
  /\ \A n \in synced..Len(file) : Readable(SubSeq(file, 1, n))
  /\ \A image \in older : \A n \in image.synced..Len(image.file) : Readable(SubSeq(image.file, 1, n))

\* "durablyCommitted": when a receipt can still authorise its record, whatever a
\* crash leaves of the file has the CONSUME, so the next process refuses it too.
ReceiptIsDurable ==
  \A c \in Callers : At(c, "receipt") /\ Current(c) =>
    \A n \in synced..Len(file) : call[c].record \in Recovered(SubSeq(file, 1, n))
==============================================================================

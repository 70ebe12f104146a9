---------------------------- MODULE ManifestStore ---------------------------
(***************************************************************************)
(* TwoSlotManifestStore (packages/blind-daemon/manifest-store.js): the     *)
(* control manifest kept in two files, slot a and slot b, replaced one     *)
(* after the other by write-temporary, sync, rename, sync-directory.       *)
(*                                                                         *)
(* A manifest is modelled by its history: the sequence of the values of    *)
(* all its predecessors and of itself.  Its revision is the length minus   *)
(* one, its previousManifestHash the history without its last element, and *)
(* two manifests have the same hash exactly when their histories are equal.*)
(*                                                                         *)
(* The directory is a sequence of images: the last one is what the process *)
(* sees, the first one what is known to be on the medium.  A rename adds   *)
(* an image, a directory sync drops all but the last, a crash keeps any    *)
(* one of them: renames reach the medium in the order they were made.      *)
(***************************************************************************)
EXTENDS Histories

CONSTANTS Callers,        \* holders of manifest snapshots
          Values,         \* what a manifest may record
          Genesis,        \* the value of the genesis manifest
          MaxRevision,    \* bound: revision of the newest manifest
          MaxQueue,       \* bound: calls waiting on the serial promise
          MaxMediaFaults, \* bound: slots spoilt by the medium
          MaxUnsynced,    \* bound: renames not yet followed by a directory sync
          MaxTemps        \* MAX_TEMP_FILES

ASSUME ConstantsAssumption ==
  /\ Genesis \in Values
  /\ MaxRevision \in Nat /\ MaxQueue \in Nat
  /\ MaxMediaFaults \in Nat /\ MaxUnsynced \in Nat /\ MaxTemps \in Nat \ {0}

VARIABLES images,   \* the control directory, oldest possible crash image first
          mode,     \* "closed", "open" or "validation" (opened validationOnly)
          closing,  \* close was called on the open store
          serial,   \* calls accepted and waiting for their turn
          op,       \* the mutation whose turn it is
          snap,     \* the history of the snapshot each caller holds
          acked,    \* history: the last manifest an advance acknowledged
          temps,    \* temporary files in the directory
          faults    \* media faults so far

vars == <<images, mode, closing, serial, op, snap, acked, temps, faults>>

Slots == {"a", "b"}
Absent == [state |-> "absent", chain |-> <<>>]
Spoilt == [state |-> "spoilt", chain |-> <<>>]
Holding(chain) == [state |-> "valid", chain |-> chain]
Valid(content) == content.state = "valid"

Other(s) == IF s = "a" THEN "b" ELSE "a"
visible == images[Len(images)]
Idle == [kind |-> "idle", caller |-> "none", expected |-> <<>>, target |-> <<>>,
         todo |-> <<>>, step |-> "none"]
NoSnapshot == <<>>

-----------------------------------------------------------------------------
\* _select: which slot content is the store's manifest.

\* The two slots hold successive manifests of one chain, s the newer one.
Adjacent(dir, s) ==
  /\ Len(dir[s].chain) = Len(dir[Other(s)].chain) + 1
  /\ Prefix(dir[Other(s)].chain, dir[s].chain)

\* _select returns a manifest rather than throwing.
Selectable(dir) ==
  \/ \E s \in Slots : Valid(dir[s]) /\ ~Valid(dir[Other(s)])
  \/ /\ \A s \in Slots : Valid(dir[s])
     /\ dir["a"].chain = dir["b"].chain \/ \E s \in Slots : Adjacent(dir, s)

\* The slot _select picks.  Equal slots are reported as slot "both".
SelectedSlot(dir) ==
  IF Valid(dir["a"]) /\ Valid(dir["b"]) /\ dir["a"].chain = dir["b"].chain THEN "both"
  ELSE IF Valid(dir["a"]) /\ (~Valid(dir["b"]) \/ Len(dir["a"].chain) > Len(dir["b"].chain))
       THEN "a" ELSE "b"

\* The history of the selected manifest; empty while there is none.
Selected(dir) == IF SelectedSlot(dir) = "b" THEN dir["b"].chain ELSE dir["a"].chain

-----------------------------------------------------------------------------
Init ==
  /\ images = << [s \in Slots |-> Absent] >>
  /\ mode = "closed" /\ closing = FALSE
  /\ serial = <<>> /\ op = Idle
  /\ snap = [c \in Callers |-> NoSnapshot]
  /\ acked = <<>> /\ temps = 0 /\ faults = 0

\* Mutant: temporaries are inspected but never removed.
BugTempsAfterOpen(m) == temps

\* _cleanupTemps: a mutable open removes the temporaries it found.
TempsAfterOpen(m) == IF m = "open" THEN 0 ELSE temps

\* open: bounds the temporary files and, unless validationOnly, removes them.
Open(m) ==
  /\ mode = "closed" /\ temps <= MaxTemps
  /\ mode' = m /\ closing' = FALSE
  /\ temps' = TempsAfterOpen(m)
  /\ UNCHANGED <<images, serial, op, snap, acked, faults>>

\* load, initialize, advance, repair: refused at the call (_assertAccepting,
\* _assertMutable) or put behind the calls already accepted (_serialized).
Call(c, kind, v) ==
  /\ mode # "closed" /\ ~closing
  /\ kind # "load" => mode = "open"
  /\ kind \in {"advance", "repair"} => snap[c] # NoSnapshot
  /\ Len(serial) < MaxQueue
  /\ serial' = Append(serial, [kind |-> kind, caller |-> c, expected |-> snap[c], value |-> v])
  /\ UNCHANGED <<images, mode, closing, op, snap, acked, temps, faults>>

\* close: marks the store closing and takes its turn behind the accepted calls.
CallClose(c) ==
  /\ mode # "closed" /\ ~closing
  /\ closing' = TRUE
  /\ serial' = Append(serial, [kind |-> "close", caller |-> c, expected |-> <<>>, value |-> Genesis])
  /\ UNCHANGED <<images, mode, op, snap, acked, temps, faults>>

-----------------------------------------------------------------------------
\* The turns of the serial promise.

Turn(kind) == op = Idle /\ serial # <<>> /\ Head(serial).kind = kind

\* load: the snapshot of what _select returns; an error leaves the caller's.
RunLoad ==
  /\ Turn("load")
  /\ serial' = Tail(serial)
  /\ snap' = IF mode # "closed" /\ Selectable(visible)
             THEN [snap EXCEPT ![Head(serial).caller] = Selected(visible)] ELSE snap
  /\ UNCHANGED <<images, mode, closing, op, acked, temps, faults>>

Install(r, chain, order) ==
  op' = [kind |-> r.kind, caller |-> r.caller, expected |-> r.expected, target |-> chain,
         todo |-> order, step |-> "write"]

\* Mutant: the compare of compare-and-set is left out.
BugUnmoved(r) == mode # "closed" /\ Selectable(visible)

\* The store is still open (_assertOpen) and the manifest the caller's hash
\* names is still the selected one.
Unmoved(r) == mode # "closed" /\ Selectable(visible) /\ Selected(visible) = r.expected

\* Mutant: the successor always goes to slot a first.
BugFirstSlot(dir) == "a"

\* The slot advance replaces first: never the only one with the newest manifest.
FirstSlot(dir) == IF SelectedSlot(dir) = "a" THEN "b" ELSE "a"

\* initialize: only over absent slots or slots that are this very genesis.
RunInitialize ==
  /\ Turn("initialize")
  /\ serial' = Tail(serial)
  /\ IF /\ mode # "closed"
        /\ \A s \in Slots : visible[s].state # "absent" => visible[s] = Holding(<<Genesis>>)
     THEN Install(Head(serial), <<Genesis>>, <<"a", "b">>) ELSE UNCHANGED op
  /\ UNCHANGED <<images, mode, closing, snap, acked, temps, faults>>

\* advance: compare the caller's hash with the selected manifest, then write
\* its successor, first over the slot that is not the selected one.
RunAdvance ==
  /\ Turn("advance")
  /\ serial' = Tail(serial)
  /\ LET r == Head(serial)
         first == FirstSlot(visible)
     IN IF Unmoved(r) /\ Len(Selected(visible)) <= MaxRevision
        THEN Install(r, Append(Selected(visible), r.value), <<first, Other(first)>>)
        ELSE UNCHANGED op
  /\ UNCHANGED <<images, mode, closing, snap, acked, temps, faults>>

\* repair: write the selected manifest over both slots.
RunRepair ==
  /\ Turn("repair")
  /\ serial' = Tail(serial)
  /\ LET r == Head(serial)
     IN IF Unmoved(r) THEN Install(r, Selected(visible), <<"a", "b">>) ELSE UNCHANGED op
  /\ UNCHANGED <<images, mode, closing, snap, acked, temps, faults>>

RunClose ==
  /\ Turn("close")
  /\ serial' = Tail(serial)
  /\ mode' = "closed" /\ closing' = FALSE
  /\ snap' = [c \in Callers |-> NoSnapshot]
  /\ UNCHANGED <<images, op, acked, temps, faults>>

-----------------------------------------------------------------------------
\* _install, slot by slot.

WriteTemp ==
  /\ op.step = "write"
  /\ temps' = temps + 1
  /\ op' = [op EXCEPT !.step = "rename"]
  /\ UNCHANGED <<images, mode, closing, serial, snap, acked, faults>>

RenameTemp ==
  /\ op.step = "rename" /\ Len(images) <= MaxUnsynced
  /\ images' = Append(images, [visible EXCEPT ![Head(op.todo)] = Holding(op.target)])
  /\ temps' = temps - 1
  /\ op' = [op EXCEPT !.step = "sync"]
  /\ UNCHANGED <<mode, closing, serial, snap, acked, faults>>

\* Mutant: the rename is not followed by a directory sync.
BugSyncedImages == images

\* syncDirectory: every earlier image is gone.
SyncedImages == <<visible>>

\* The directory sync and the read-back of the slot; after the second slot
\* the call returns the snapshot of what is now selected.
SyncDirectory ==
  /\ op.step = "sync"
  /\ images' = SyncedImages
  /\ IF Len(op.todo) > 1
     THEN /\ op' = [op EXCEPT !.todo = Tail(@), !.step = "write"]
          /\ UNCHANGED <<snap, acked>>
     ELSE /\ op' = Idle
          /\ snap' = [snap EXCEPT ![op.caller] = Selected(visible)]
          /\ acked' = Selected(visible)
  /\ UNCHANGED <<mode, closing, serial, temps, faults>>

\* finally: the temporary is unlinked if it is still there.
TempsAfterFailure == IF op.step = "rename" THEN temps - 1 ELSE temps

\* An I/O error in _install rejects the call; finally removes its temporary.
InstallFails ==
  /\ op # Idle
  /\ op' = Idle
  /\ temps' = TempsAfterFailure
  /\ UNCHANGED <<images, mode, closing, serial, snap, acked, faults>>

-----------------------------------------------------------------------------
\* The process dies; the medium keeps one of the possible images.
Crash ==
  /\ mode # "closed"
  /\ \E k \in 1..Len(images) : images' = <<images[k]>>
  /\ mode' = "closed" /\ closing' = FALSE
  /\ serial' = <<>> /\ op' = Idle
  /\ snap' = [c \in Callers |-> NoSnapshot]
  /\ UNCHANGED <<acked, temps, faults>>

\* The medium spoils one of two slots that hold the same synced manifest.
SpoilSlot(s) ==
  /\ op = Idle /\ Len(images) = 1 /\ faults < MaxMediaFaults
  /\ Valid(visible["a"]) /\ visible["a"] = visible["b"]
  /\ images' = << [visible EXCEPT ![s] = Spoilt] >>
  /\ faults' = faults + 1
  /\ UNCHANGED <<mode, closing, serial, op, snap, acked, temps>>

Next ==
  \/ \E m \in {"open", "validation"} : Open(m)
  \/ \E c \in Callers :
       \/ \E k \in {"load", "initialize", "repair"} : Call(c, k, Genesis)
       \/ \E v \in Values : Call(c, "advance", v)
       \/ CallClose(c)
  \/ RunLoad \/ RunInitialize \/ RunAdvance \/ RunRepair \/ RunClose
  \/ WriteTemp \/ RenameTemp \/ SyncDirectory \/ InstallFails
  \/ Crash
  \/ \E s \in Slots : SpoilSlot(s)

Spec == Init /\ [][Next]_vars

-----------------------------------------------------------------------------
Chains == Seq(Values)
Contents == [state : {"absent", "spoilt", "valid"}, chain : Chains]
Requests == [kind : {"load", "initialize", "advance", "repair", "close"},
             caller : Callers, expected : Chains, value : Values]
Mutations == [kind : {"idle", "initialize", "advance", "repair"},
              caller : Callers \cup {"none"}, expected : Chains, target : Chains,
              todo : {<<>>} \cup {<<s>> : s \in Slots} \cup {<<s, Other(s)>> : s \in Slots},
              step : {"none", "write", "rename", "sync"}]

\* Type invariant.
TypeOK ==
  /\ images \in Seq([Slots -> Contents]) /\ Len(images) > 0
  /\ mode \in {"closed", "open", "validation"} /\ closing \in BOOLEAN
  /\ serial \in Seq(Requests) /\ op \in Mutations
  /\ snap \in [Callers -> Chains] /\ acked \in Chains
  /\ temps \in Nat /\ faults \in Nat

Register == INSTANCE AckedHistory WITH current <- Selected(visible)

\* Whatever a crash leaves of an interrupted initialize, advance or repair,
\* also of several that failed in a row, _select finds one manifest in the
\* slots: only a directory that never held a manifest has none.
AlwaysLoadable ==
  \A k \in 1..Len(images) :
    \/ Selectable(images[k])
    \/ acked = <<>> /\ \A s \in Slots : images[k][s] = Absent

\* The manifest an advance, initialize or repair returned is the selected one
\* or an ancestor of it in every image a crash may leave.
AckedSurvives ==
  \A k \in 1..Len(images) : Prefix(acked, Selected(images[k]))

\* Crash loops never fill the directory with temporaries to the point where
\* _inspectTemps makes every later open throw.
OpenNeverRefused == mode = "closed" => temps <= MaxTemps

\* Compare-and-set: an advance that is acknowledged extended exactly the
\* manifest its caller held when it called, so of two callers holding the same
\* snapshot at most one is told its update was installed.
NoLostUpdate ==
  [][op.kind = "advance" /\ op'.kind = "idle" /\ acked' # acked
     => SubSeq(acked', 1, Len(acked') - 1) = op.expected]_vars

\* The store is one history that only grows by whole manifests: one that became
\* selected is taken back only if no call that installed it was acknowledged.
RegisterSpec == Register!Spec
=============================================================================

---------------------------- MODULE AckedHistory ----------------------------
(***************************************************************************)
(* What a durable store of this system promises: one history that grows   *)
(* by one entry at a time, of which the acknowledged part is never lost.   *)
(* The two-slot manifest store and the write-ahead log both implement it:  *)
(* there an entry is a manifest, here a frame.                             *)
(***************************************************************************)
EXTENDS Histories

CONSTANT Values

VARIABLES current,   \* the history a load or a recovery would return now
          acked      \* the part of it that was acknowledged to a caller

vars == <<current, acked>>

Init == current = <<>> /\ acked = <<>>

\* One new entry becomes visible.
Install == /\ \E v \in Values : current' = Append(current, v)
           /\ UNCHANGED acked

\* Entries are acknowledged, in the order of the history.
Acknowledge ==
  /\ acked' \in Seq(Values)
  /\ Prefix(acked, acked') /\ Prefix(acked', current)
  /\ UNCHANGED current

\* A crash may take back entries that were never acknowledged.
LoseUnacknowledged ==
  /\ current' \in Seq(Values)
  /\ Prefix(acked, current') /\ Prefix(current', current)
  /\ UNCHANGED acked

Next == Install \/ Acknowledge \/ LoseUnacknowledged

Spec == Init /\ [][Next]_vars
=============================================================================

----------------------------- MODULE AtomicLocks -----------------------------
(***************************************************************************)
(* What withLocks promises its callers: a callback runs with all of its    *)
(* keys to itself.  Keys are taken and given back all at once, as          *)
(* CellEngine uses the lock table.                                         *)
(***************************************************************************)
CONSTANTS Clients, Keys

VARIABLE inside   \* the keys each client's callbacks run under

Init == inside = [c \in Clients |-> {}]

Enter(c, keys) ==
  /\ \A d \in Clients : inside[d] \cap keys = {}
  /\ inside' = [inside EXCEPT ![c] = @ \cup keys]

Leave(c, keys) ==
  /\ keys \subseteq inside[c]
  /\ inside' = [inside EXCEPT ![c] = @ \ keys]

Next == \E c \in Clients, keys \in (SUBSET Keys) \ {{}} : Enter(c, keys) \/ Leave(c, keys)

Spec == Init /\ [][Next]_inside
==============================================================================

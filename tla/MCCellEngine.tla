---------------------------- MODULE MCCellEngine ----------------------------
(* Model-checking instances of CellEngine: slots and spends are numbers.   *)
EXTENDS CellEngine, TLC

Create(spend, slot, nonce) ==
  [op |-> "put", spend |-> spend, slot |-> slot, alloc |-> 1, nonce |-> nonce]

\* Two spends contend for one slot.
Contended == {Create(1, 1, 1), Create(2, 1, 2)}
\* Each slot has its own spend.
Separate == {Create(1, 1, 1), Create(2, 2, 1)}
\* One create, which callers repeat.
Repeated == {Create(1, 1, 1)}

\* A create for the next epoch, which callers repeat.
Ahead == {[op |-> "put", spend |-> 1, slot |-> 1, alloc |-> 2, nonce |-> 1]}

Ample == [cells |-> 9, stored |-> 9, staging |-> 9, control |-> 9, tombs |-> 9]
OneBody == [Ample EXCEPT !.stored = 1]
OneRecord == [Ample EXCEPT !.cells = 1]

Symmetry == Permutations(Clients)
=============================================================================

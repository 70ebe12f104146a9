-------------------------- MODULE MCCellLifecycle ---------------------------
(* The model-checking instance of CellLifecycle.                           *)
EXTENDS CellLifecycle, TLC

\* One create, which callers repeat.
Repeated == {[op |-> "put", spend |-> 1, slot |-> 1, alloc |-> 1, nonce |-> 1]}

Ample == [cells |-> 9, stored |-> 9, staging |-> 9, control |-> 9, tombs |-> 9]
=============================================================================

----------------------------- MODULE MCBlindWal -----------------------------
(* Model-checking instance of BlindWal: requests are interchangeable.      *)
EXTENDS BlindWal, TLC

Symmetry == Permutations(Requests)
=============================================================================

----------------------------- MODULE Histories ------------------------------
(* The order on histories shared by the durable-state specifications.      *)
EXTENDS Naturals, Sequences

\* s is an initial segment of t.
Prefix(s, t) == Len(s) <= Len(t) /\ \A i \in 1..Len(s) : s[i] = t[i]
=============================================================================

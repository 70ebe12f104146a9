------------------------------- MODULE KeyLocks ------------------------------
(***************************************************************************)
(* KeyLockTable (packages/blind-daemon/transaction-store.js): the keyed    *)
(* locks of every storage engine.  A call asks for its keys one after the  *)
(* other, in sorted order.  For each key it remembers the promise that was *)
(* the tail of the key (previous), makes its own the tail, and awaits      *)
(* previous.  A promise is named by the client that made it; resolving it  *)
(* replaces it by None wherever it is awaited.                             *)
(*                                                                         *)
(* A callback may take one of the Leaves in a nested call, whatever its    *)
(* place in the order ('quota:atomic-staging' in #releaseAtomicStaging);   *)
(* the callbacks that run under a leaf take no further lock.               *)
(***************************************************************************)
EXTENDS Integers, FiniteSets

CONSTANTS Clients, Keys, Leaves, None

ASSUME LockConstants ==
  /\ Keys \subseteq Int /\ Leaves \subseteq Keys
  /\ None \notin Clients /\ None \notin Keys

VARIABLES want,      \* the keys of the call in progress, {} without one
          held,      \* the keys it has, that of a nested call included
          at,        \* the key it awaits, None when it awaits none
          previous,  \* the client whose promise it awaits, None once resolved
          tails,     \* the table: the last client that asked for each key
          before     \* history: who asked for a key before whom

vars == <<want, held, at, previous, tails, before>>

Init ==
  /\ want = [c \in Clients |-> {}] /\ held = [c \in Clients |-> {}]
  /\ at = [c \in Clients |-> None] /\ previous = [c \in Clients |-> None]
  /\ tails = [k \in Keys |-> None]
  /\ before = [k \in Keys |-> {}]

\* The key lists of the callers: a leaf is asked for alone.
Requests == {keys \in SUBSET Keys : keys # {} /\ (keys \cap Leaves = {} \/ \E k \in Leaves : keys = {k})}

\* The clients with an unreleased promise on a key.
Asking(k) == {c \in Clients : k \in held[c] \/ at[c] = k}

\* The callback of a client runs.
Running(c) == want[c] # {} /\ want[c] \subseteq held[c]

\* keys.sort(): the next key of the loop
First(k, keys) == k \in keys /\ \A j \in keys : k <= j

Previous(k) == tails[k]

\* One round of the loop up to its await.
Ask(c, k) ==
  /\ previous' = [previous EXCEPT ![c] = Previous(k)]
  /\ tails' = [tails EXCEPT ![k] = c]
  /\ at' = [at EXCEPT ![c] = k]
  /\ before' = [before EXCEPT ![k] = @ \cup (Asking(k) \X {c})]

Call(c, keys) ==
  /\ want[c] = {}
  /\ want' = [want EXCEPT ![c] = keys]
  /\ \E k \in keys : First(k, keys) /\ Ask(c, k)
  /\ UNCHANGED held

\* A callback makes a nested call.
Nest(c, leaf) ==
  /\ Running(c) /\ at[c] = None /\ held[c] \cap Leaves = {}
  /\ Ask(c, leaf)
  /\ UNCHANGED <<want, held>>

\* Mutant: the loop looks whether the key is free now, not whether its turn came.
BugDue(c) == \A d \in Clients : at[c] \notin held[d]

\* await previous
Due(c) == previous[c] = None

\* previous is resolved: the key is held, and the loop goes on to the next key
\* or the callback starts.
Acquire(c) ==
  LET rest == want[c] \ (held[c] \cup {at[c]})
  IN /\ at[c] # None /\ Due(c)
     /\ held' = [held EXCEPT ![c] = @ \cup {at[c]}]
     /\ IF rest = {}
        THEN at' = [at EXCEPT ![c] = None] /\ UNCHANGED <<previous, tails, before>>
        ELSE \E k \in rest : First(k, rest) /\ Ask(c, k)
     /\ UNCHANGED want

\* Mutant: the entry of the table is deleted even if a later call is its tail.
BugDeleted(c, keys) == [k \in Keys |-> IF k \in keys THEN None ELSE tails[k]]

\* The entries of the table that a release deletes.
Deleted(c, keys) == [k \in Keys |-> IF k \in keys /\ tails[k] = c THEN None ELSE tails[k]]

\* The finally block: keys are released without an await.
Free(c, keys) ==
  /\ previous' = [d \in Clients |-> IF previous[d] = c /\ at[d] \in keys THEN None ELSE previous[d]]
  /\ tails' = Deleted(c, keys)
  /\ before' = [k \in Keys |-> {p \in before[k] : k \in keys => p[1] # c /\ p[2] # c}]
  /\ held' = [held EXCEPT ![c] = @ \ keys]
  /\ UNCHANGED at

\* The nested callback ended.
Unnest(c) ==
  /\ Running(c) /\ held[c] # want[c]
  /\ Free(c, held[c] \ want[c])
  /\ UNCHANGED want

\* The callback returned or threw.
Release(c) ==
  /\ Running(c) /\ held[c] = want[c] /\ at[c] = None
  /\ Free(c, want[c])
  /\ want' = [want EXCEPT ![c] = {}]

Next ==
  \E c \in Clients :
    \/ \E keys \in Requests : Call(c, keys)
    \/ \E leaf \in Leaves : Nest(c, leaf)
    \/ Acquire(c) \/ Unnest(c) \/ Release(c)

Spec == Init /\ [][Next]_vars

\* A resolved promise runs its continuation, and callbacks end: SF, because a
\* callback may make any number of nested calls first.
Fairness == \A c \in Clients : WF_vars(Acquire(c)) /\ WF_vars(Unnest(c)) /\ SF_vars(Release(c))

FairSpec == Spec /\ Fairness

-----------------------------------------------------------------------------
\* The types of the variables.
TypeOK ==
  /\ want \in [Clients -> SUBSET Keys] /\ held \in [Clients -> SUBSET Keys]
  /\ at \in [Clients -> Keys \cup {None}]
  /\ previous \in [Clients -> Clients \cup {None}]
  /\ tails \in [Keys -> Clients \cup {None}]
  /\ before \in [Keys -> SUBSET (Clients \X Clients)]

\* No key is held by two calls, although every call waits only for the promise
\* that was last when it asked and the table forgets released keys.
MutualExclusion == \A c, d \in Clients : c # d => held[c] \cap held[d] = {}

\* A key is granted in the order in which it was asked for: whoever holds a
\* key asked before all others that want it now (previous chains the calls).
FirstCome ==
  \A k \in Keys : \A c, d \in Clients :
    k \in held[c] /\ d \in Asking(k) /\ d # c => <<c, d>> \in before[k]

\* Why calls cannot wait for each other in a circle: a call waits only for keys
\* above all those it holds, or for a leaf, and the holder of a leaf waits for
\* nothing (the comment above #releaseAtomicStaging).
WaitsUpwards ==
  \A c \in Clients : at[c] # None =>
    /\ held[c] \cap Leaves = {}
    /\ at[c] \in Leaves \/ \A k \in held[c] : k < at[c]

\* The table has an entry exactly for the keys somebody holds or awaits:
\* tails does not leak, and no later call can overtake a waiting one.
TableExact == \A k \in Keys : tails[k] = None <=> Asking(k) = {}

\* Every call gets all of its keys, whatever the others ask for.
Granted == \A c \in Clients : want[c] # {} ~> Running(c)

\* To a caller, keys are taken all at once and exclusively: the incremental
\* acquisition implements AtomicLocks, with the keys of running callbacks.
Locks == INSTANCE AtomicLocks WITH inside <- [c \in Clients |-> IF Running(c) THEN held[c] ELSE {}]
LocksSpec == Locks!Spec
==============================================================================

--------------------------- MODULE KeyLocksProofs ----------------------------
(***************************************************************************)
(* Proofs about KeyLocks for any number of clients and keys: mutual        *)
(* exclusion, the order of grants, the exactness of the table, the order   *)
(* of waiting, and the refinement of AtomicLocks.                          *)
(*                                                                         *)
(* MutualExclusion is not inductive: a client only knows the promise that  *)
(* preceded its own.  InOrder adds that the clients asking for a key are   *)
(* in one line: a blocked client awaits the one directly before it, a      *)
(* resolved one is the first, and the table has the last.                  *)
(***************************************************************************)
EXTENDS KeyLocks, TLAPS

\* A client's promise on a key awaits no other any more.
Resolved(c, k) == k \in held[c] \/ (at[c] = k /\ previous[c] = None)

\* The clients that ask for k are in one line, whose last is in the table.
InOrder(k) ==
  /\ before[k] \subseteq Asking(k) \X Asking(k)
  /\ \A c, d \in Asking(k) : c # d => <<c, d>> \in before[k] \/ <<d, c>> \in before[k]
  /\ \A c, d \in Asking(k) : <<c, d>> \in before[k] => <<d, c>> \notin before[k]
  /\ \A c \in Asking(k) : Resolved(c, k) => \A d \in Asking(k) \ {c} : <<c, d>> \in before[k]
  /\ \A c \in Asking(k) : ~Resolved(c, k) =>
       /\ <<previous[c], c>> \in before[k]
       /\ \A d \in Asking(k) : ~(<<previous[c], d>> \in before[k] /\ <<d, c>> \in before[k])
  /\ tails[k] = None <=> Asking(k) = {}
  /\ tails[k] # None => /\ tails[k] \in Asking(k)
                        /\ \A d \in Asking(k) \ {tails[k]} : <<d, tails[k]>> \in before[k]

\* Where a client is in the loop over its keys.
InLoop(c) ==
  /\ at[c] \notin held[c]
  /\ at[c] = None => previous[c] = None
  /\ want[c] = {} => held[c] = {} /\ at[c] = None
  /\ want[c] # {} /\ at[c] = None => Running(c)
  /\ held[c] \subseteq want[c] \cup Leaves
  /\ ~Running(c) => held[c] \subseteq want[c] /\ at[c] \in want[c] \cup {None}
  /\ at[c] # None /\ ~Running(c) =>
       /\ \A k \in held[c] : k < at[c]
       /\ \A k \in want[c] \ (held[c] \cup {at[c]}) : at[c] < k
  /\ at[c] # None /\ Running(c) => at[c] \in Leaves
  /\ want[c] \cap Leaves # {} => \E k \in Leaves : want[c] = {k}
  /\ at[c] # None => held[c] \cap Leaves = {}

IInv ==
  /\ TypeOK
  /\ \A c \in Clients : InLoop(c)
  /\ \A k \in Keys : InOrder(k)
-----------------------------------------------------------------------------
\* The line of a key is in order as long as its own state does not change.
LEMMA SameOrder ==
  ASSUME NEW k \in Keys, InOrder(k), Asking(k)' = Asking(k),
         before'[k] = before[k], tails'[k] = tails[k],
         \A d \in Asking(k) : Resolved(d, k)' <=> Resolved(d, k),
         \A d \in Asking(k) : ~Resolved(d, k) => previous'[d] = previous[d]
  PROVE  InOrder(k)'
<1>1. /\ before'[k] \subseteq Asking(k)' \X Asking(k)'
      /\ \A c, d \in Asking(k)' : c # d => <<c, d>> \in before'[k] \/ <<d, c>> \in before'[k]
      /\ \A c, d \in Asking(k)' : <<c, d>> \in before'[k] => <<d, c>> \notin before'[k]
  BY DEF InOrder
<1>2. \A c \in Asking(k)' : Resolved(c, k)' => \A d \in Asking(k)' \ {c} : <<c, d>> \in before'[k]
  BY DEF InOrder
<1>3. ASSUME NEW c \in Asking(k)', ~Resolved(c, k)'
      PROVE  /\ <<previous'[c], c>> \in before'[k]
             /\ \A d \in Asking(k)' : ~(<<previous'[c], d>> \in before'[k] /\ <<d, c>> \in before'[k])
  BY <1>3 DEF InOrder
<1>4. /\ tails'[k] = None <=> Asking(k)' = {}
      /\ tails'[k] # None => /\ tails'[k] \in Asking(k)'
                             /\ \A d \in Asking(k)' \ {tails'[k]} : <<d, tails'[k]>> \in before'[k]
  BY Zenon DEF InOrder
<1> QED
  BY <1>1, <1>2, <1>3, <1>4, Zenon DEF InOrder

\* Asking for a key keeps every line in order: the new client is behind the one
\* that the table names (a round of the loop in KeyLockTable.with, with the key
\* of the previous round acquired or not).
LEMMA AskKeepsOrder ==
  ASSUME TypeOK, \A k \in Keys : InOrder(k),
         NEW c \in Clients, NEW key \in Keys, key \notin held[c], at[c] # key,
         Ask(c, key),
         \/ at[c] = None /\ held' = held
         \/ at[c] # None /\ previous[c] = None /\ held' = [held EXCEPT ![c] = @ \cup {at[c]}]
  PROVE  \A k \in Keys : InOrder(k)'
<1> SUFFICES ASSUME NEW k \in Keys PROVE InOrder(k)'
  BY Zenon
<1> USE LockConstants
<1>1. c \notin Asking(key)
  BY Zenon DEF Asking
<1>2. \A d \in Clients \ {c} : at'[d] = at[d] /\ previous'[d] = previous[d] /\ held'[d] = held[d]
  BY Zenon DEF TypeOK, Ask
<1>3. at'[c] = key /\ previous'[c] = tails[key] /\ tails'[key] = c
  BY Zenon DEF TypeOK, Ask, Previous
<1>4. held'[c] = held[c] \cup ({at[c]} \ {None})
  BY DEF TypeOK
<1>5. CASE k # key
  <2>1. Asking(k)' = Asking(k)
    BY <1>2, <1>3, <1>4, <1>5, Zenon DEF Asking
  <2>2. before'[k] = before[k] /\ tails'[k] = tails[k]
    BY <1>5, Zenon DEF TypeOK, Ask
  <2>3. \A d \in Asking(k) : Resolved(d, k)' <=> Resolved(d, k)
    BY <1>2, <1>3, <1>4, <1>5, Zenon DEF Asking, Resolved
  <2>4. \A d \in Asking(k) : ~Resolved(d, k) => previous'[d] = previous[d]
    BY <1>2, <1>5, Zenon DEF Asking, Resolved
  <2> QED
    BY <2>1, <2>2, <2>3, <2>4, SameOrder, Zenon
<1>6. CASE k = key
  <2>1. Asking(k)' = Asking(k) \cup {c}
    BY <1>2, <1>3, <1>4, <1>6, Zenon DEF Asking
  <2>2. before'[k] = before[k] \cup (Asking(k) \X {c})
    BY <1>6, Zenon DEF TypeOK, Ask
  <2>3. tails'[k] = c /\ previous'[c] = tails[k]
    BY <1>3, <1>6, Zenon
  <2>4. Resolved(c, k)' <=> tails[k] = None
    BY <1>1, <1>3, <1>4, <1>6, Zenon DEF Asking, Resolved
  <2>5. \A d \in Asking(k) : (Resolved(d, k)' <=> Resolved(d, k)) /\ previous'[d] = previous[d]
    BY <1>1, <1>2, <1>6, Zenon DEF Asking, Resolved
  <2>6. c \notin Asking(k) /\ c # None
    BY <1>1, <1>6, Zenon
  <2>8. InOrder(k)
    BY Zenon
  <2>7. \A x, y : <<x, y>> \in before[k] => x \in Asking(k) /\ y \in Asking(k)
    BY <2>8, Zenon DEF InOrder
  <2>9. \A x, y : <<x, y>> \in before'[k] <=> <<x, y>> \in before[k] \/ (x \in Asking(k) /\ y = c)
    BY <2>2, Zenon
  <2> HIDE LockConstants
  <2>10. /\ before'[k] \subseteq Asking(k)' \X Asking(k)'
         /\ \A x, d \in Asking(k)' : x # d => <<x, d>> \in before'[k] \/ <<d, x>> \in before'[k]
         /\ \A x, d \in Asking(k)' : <<x, d>> \in before'[k] => <<d, x>> \notin before'[k]
    <3>1. before'[k] \subseteq Asking(k)' \X Asking(k)'
      BY <2>1, <2>2, <2>8, Zenon DEF InOrder
    <3>2. /\ \A x, d \in Asking(k) : x # d => <<x, d>> \in before[k] \/ <<d, x>> \in before[k]
          /\ \A x, d \in Asking(k) : <<x, d>> \in before[k] => <<d, x>> \notin before[k]
      BY <2>8, Zenon DEF InOrder
    <3> QED
      BY <3>1, <3>2, <2>1, <2>6, <2>7, <2>9, Zenon
  <2>11. \A x \in Asking(k)' : Resolved(x, k)' => \A d \in Asking(k)' \ {x} : <<x, d>> \in before'[k]
    BY <2>1, <2>4, <2>5, <2>6, <2>8, <2>9, Zenon DEF InOrder
  <2>12. ASSUME NEW x \in Asking(k)', ~Resolved(x, k)'
         PROVE  /\ <<previous'[x], x>> \in before'[k]
                /\ \A d \in Asking(k)' : ~(<<previous'[x], d>> \in before'[k] /\ <<d, x>> \in before'[k])
    <3>1. CASE x = c
      <4>1. tails[k] \in Asking(k) /\ \A d \in Asking(k) \ {tails[k]} : <<d, tails[k]>> \in before[k]
        BY <2>4, <2>8, <2>12, <3>1, Zenon DEF InOrder
      <4>2. \A d \in Asking(k) : <<tails[k], d>> \notin before[k]
        BY <2>8, <4>1, Zenon DEF InOrder
      <4> QED
        BY <2>1, <2>3, <2>6, <2>7, <2>9, <3>1, <4>1, <4>2, Zenon
    <3>2. CASE x # c
      <4>1. x \in Asking(k) /\ ~Resolved(x, k) /\ previous'[x] = previous[x]
        BY <2>1, <2>5, <2>12, <3>2, Zenon
      <4>2. /\ <<previous[x], x>> \in before[k]
            /\ \A d \in Asking(k) : ~(<<previous[x], d>> \in before[k] /\ <<d, x>> \in before[k])
        BY <2>8, <4>1, Zenon DEF InOrder
      <4> QED
        BY <2>1, <2>6, <2>7, <2>9, <3>2, <4>1, <4>2, Zenon
    <3> QED
      BY <3>1, <3>2, Zenon
  <2> QED
    BY <2>1, <2>2, <2>3, <2>6, <2>9, <2>10, <2>11, <2>12, Zenon DEF InOrder
<1> QED
  BY <1>5, <1>6, Zenon

\* Giving keys back keeps every line in order: the client behind the releasing
\* one becomes the first, and the table forgets a key nobody asks for (the
\* finally block of KeyLockTable.with).
LEMMA FreeKeepsOrder ==
  ASSUME TypeOK, \A k \in Keys : InOrder(k),
         NEW c \in Clients, NEW keys \in SUBSET Keys, keys \subseteq held[c], at[c] \notin keys,
         Free(c, keys)
  PROVE  \A k \in Keys : InOrder(k)'
<1> SUFFICES ASSUME NEW k \in Keys PROVE InOrder(k)'
  BY Zenon
<1> USE LockConstants
<1>1. held'[c] = held[c] \ keys /\ \A d \in Clients \ {c} : held'[d] = held[d]
  BY Zenon DEF TypeOK, Free
<1>2. at' = at
  BY Zenon DEF Free
<1>3. InOrder(k)
  BY Zenon
<1>4. CASE k \notin keys
  <2>1. Asking(k)' = Asking(k)
    BY <1>1, <1>2, <1>4, Zenon DEF Asking
  <2>2. before'[k] = before[k] /\ tails'[k] = tails[k]
    BY <1>4, Zenon DEF TypeOK, Free, Deleted
  <2>3. \A d \in Asking(k) : at[d] = k => previous'[d] = previous[d]
    BY <1>4, Zenon DEF TypeOK, Free, Asking
  <2>4. \A d \in Asking(k) : Resolved(d, k)' <=> Resolved(d, k)
    BY <1>1, <1>2, <1>4, <2>3, Zenon DEF Asking, Resolved
  <2>5. \A d \in Asking(k) : ~Resolved(d, k) => previous'[d] = previous[d]
    BY <2>3, Zenon DEF Asking, Resolved
  <2> QED
    BY <1>3, <2>1, <2>2, <2>4, <2>5, SameOrder, Zenon
<1>5. CASE k \in keys
  <2>1. Asking(k)' = Asking(k) \ {c} /\ c \in Asking(k)
    BY <1>1, <1>2, <1>5, Zenon DEF Asking
  <2>2. \A x, y : <<x, y>> \in before'[k] <=> <<x, y>> \in before[k] /\ x # c /\ y # c
    BY <1>5, Zenon DEF TypeOK, Free
  <2>3. tails'[k] = IF tails[k] = c THEN None ELSE tails[k]
    BY <1>5, Zenon DEF TypeOK, Free, Deleted
  <2>4. \A d \in Asking(k) \ {c} : <<c, d>> \in before[k]
    BY <1>3, <1>5, <2>1, Zenon DEF InOrder, Resolved
  <2>5. \A x, y : <<x, y>> \in before[k] => x \in Asking(k) /\ y \in Asking(k)
    BY <1>3, Zenon DEF InOrder
  <2>6. /\ \A x, d \in Asking(k) : x # d => <<x, d>> \in before[k] \/ <<d, x>> \in before[k]
        /\ \A x, d \in Asking(k) : <<x, d>> \in before[k] => <<d, x>> \notin before[k]
    BY <1>3, Zenon DEF InOrder
  <2>7. /\ tails[k] \in Asking(k)
        /\ \A d \in Asking(k) \ {tails[k]} : <<d, tails[k]>> \in before[k]
    BY <1>3, <2>1, Zenon DEF InOrder
  <2>8. tails'[k] = None <=> Asking(k)' = {}
    <3>1. ASSUME tails[k] = c, NEW d \in Asking(k) \ {c} PROVE FALSE
      BY <2>1, <2>4, <2>6, <2>7, <3>1, Zenon
    <3>2. tails[k] # None
      BY <2>7, Zenon DEF Asking
    <3> QED
      BY <2>1, <2>3, <2>7, <3>1, <3>2, Zenon
  <2>9. ASSUME NEW x \in Asking(k)'
        PROVE  /\ x \in Asking(k) /\ ~Resolved(x, k)
               /\ previous'[x] = IF previous[x] = c THEN None ELSE previous[x]
               /\ Resolved(x, k)' <=> previous[x] = c
    <3>1. x \in Asking(k) /\ x # c /\ x \in Clients
      BY <2>1, <2>9, Zenon DEF Asking
    <3>2. ~Resolved(x, k)
      BY <1>3, <2>1, <2>4, <2>6, <3>1, Zenon DEF InOrder
    <3>3. at[x] = k /\ k \notin held[x] /\ previous[x] # None
      BY <3>1, <3>2, Zenon DEF Asking, Resolved
    <3>4. previous'[x] = IF previous[x] = c THEN None ELSE previous[x]
      BY <1>5, <3>1, <3>3, Zenon DEF TypeOK, Free
    <3> QED
      BY <1>1, <1>2, <3>1, <3>2, <3>3, <3>4, Zenon DEF Resolved
  <2>10. ASSUME NEW x \in Asking(k)'
         PROVE  /\ <<previous[x], x>> \in before[k]
                /\ \A d \in Asking(k) : ~(<<previous[x], d>> \in before[k] /\ <<d, x>> \in before[k])
    BY <1>3, <2>9, <2>10, Zenon DEF InOrder
  <2> HIDE LockConstants
  <2>11. /\ before'[k] \subseteq Asking(k)' \X Asking(k)'
         /\ \A x, d \in Asking(k)' : x # d => <<x, d>> \in before'[k] \/ <<d, x>> \in before'[k]
         /\ \A x, d \in Asking(k)' : <<x, d>> \in before'[k] => <<d, x>> \notin before'[k]
    <3>1. before'[k] \subseteq before[k] /\ before[k] \subseteq Asking(k) \X Asking(k)
      BY <1>3, Zenon DEF TypeOK, Free, InOrder
    <3>2. before'[k] \subseteq Asking(k)' \X Asking(k)'
      BY <2>1, <2>2, <2>5, <3>1
    <3> QED
      BY <2>1, <2>2, <2>6, <3>2, Zenon
  <2>12. \A x \in Asking(k)' : Resolved(x, k)' => \A d \in Asking(k)' \ {x} : <<x, d>> \in before'[k]
    BY <2>1, <2>2, <2>4, <2>6, <2>9, <2>10, Zenon
  <2>13. \A x \in Asking(k)' : ~Resolved(x, k)' =>
           /\ <<previous'[x], x>> \in before'[k]
           /\ \A d \in Asking(k)' : ~(<<previous'[x], d>> \in before'[k] /\ <<d, x>> \in before'[k])
    BY <2>1, <2>2, <2>9, <2>10, Zenon
  <2>14. tails'[k] # None => /\ tails'[k] \in Asking(k)'
                             /\ \A d \in Asking(k)' \ {tails'[k]} : <<d, tails'[k]>> \in before'[k]
    BY <2>1, <2>2, <2>3, <2>7, Zenon
  <2> QED
    BY <2>8, <2>11, <2>12, <2>13, <2>14, Zenon DEF InOrder
<1> QED
  BY <1>4, <1>5, Zenon

\* Acquiring the last key keeps every line in order.
LEMMA GrantKeepsOrder ==
  ASSUME TypeOK, \A k \in Keys : InOrder(k),
         NEW c \in Clients, at[c] # None, previous[c] = None,
         held' = [held EXCEPT ![c] = @ \cup {at[c]}], at' = [at EXCEPT ![c] = None],
         UNCHANGED <<previous, tails, before>>
  PROVE  \A k \in Keys : InOrder(k)'
<1> SUFFICES ASSUME NEW k \in Keys PROVE InOrder(k)'
  BY Zenon
<1> USE LockConstants
<1>1. held'[c] = held[c] \cup {at[c]} /\ at'[c] = None
  BY Zenon DEF TypeOK
<1>2. \A d \in Clients \ {c} : held'[d] = held[d] /\ at'[d] = at[d]
  BY Zenon DEF TypeOK
<1>3. InOrder(k)
  BY Zenon
<1>4. Asking(k)' = Asking(k)
  BY <1>1, <1>2, Zenon DEF Asking
<1>5. \A d \in Asking(k) : Resolved(d, k)' <=> Resolved(d, k)
  BY <1>1, <1>2, Zenon DEF Asking, Resolved
<1>6. before'[k] = before[k] /\ tails'[k] = tails[k] /\ \A d \in Asking(k) : previous'[d] = previous[d]
  BY Zenon
<1> QED
  BY <1>3, <1>4, <1>5, <1>6, SameOrder, Zenon

\* A client whose own state does not change stays where it is in the loop.
LEMMA SameLoop ==
  ASSUME NEW d \in Clients, InLoop(d), want'[d] = want[d], held'[d] = held[d], at'[d] = at[d],
         previous'[d] \in {previous[d], None}
  PROVE  InLoop(d)'
BY Zenon DEF InLoop, Running

-----------------------------------------------------------------------------
\* A new call asks for the first of its keys.
LEMMA CallStep ==
  ASSUME IInv, NEW c \in Clients, NEW keys \in Requests, Call(c, keys)
  PROVE  IInv'
<1> USE LockConstants
<1>1. keys \in SUBSET Keys /\ keys # {} /\ (keys \cap Leaves = {} \/ \E k \in Leaves : keys = {k})
  BY Zenon DEF Requests
<1>2. PICK k \in keys : First(k, keys) /\ Ask(c, k)
  BY Zenon DEF Call
<1>3. held[c] = {} /\ at[c] = None /\ held' = held /\ want' = [want EXCEPT ![c] = keys]
  BY Zenon DEF IInv, InLoop, Call
<1>4. TypeOK'
  BY <1>1, <1>2, <1>3, Zenon DEF IInv, TypeOK, Ask, Previous, Asking
<1>5. \A j \in Keys : InOrder(j)'
  BY <1>1, <1>2, <1>3, AskKeepsOrder, Zenon DEF IInv
<1>6. InLoop(c)'
  <2>1. want'[c] = keys /\ held'[c] = {} /\ at'[c] = k /\ k # None
    BY <1>1, <1>2, <1>3, Zenon DEF IInv, TypeOK, Ask
  <2>2. \A j \in keys \ {k} : k < j
    <3>1. keys \subseteq Int
      BY <1>1, Zenon
    <3> QED
      BY <1>2, <3>1 DEF First
  <2>3. ~Running(c)'
    BY <1>1, <2>1, Zenon DEF Running
  <2> QED
    BY <1>1, <2>1, <2>2, <2>3, Zenon DEF InLoop
<1>7. \A d \in Clients \ {c} : InLoop(d)'
  <2>1. \A d \in Clients \ {c} : want'[d] = want[d] /\ at'[d] = at[d] /\ previous'[d] = previous[d]
    BY <1>2, <1>3, Zenon DEF IInv, TypeOK, Ask
  <2> QED
    BY <1>3, <2>1, SameLoop, Zenon DEF IInv
<1> QED
  BY <1>4, <1>5, <1>6, <1>7, Zenon DEF IInv

\* A callback asks for a leaf.
LEMMA NestStep ==
  ASSUME IInv, NEW c \in Clients, NEW leaf \in Leaves, Nest(c, leaf)
  PROVE  IInv'
<1> USE LockConstants
<1>1. Running(c) /\ at[c] = None /\ held[c] \cap Leaves = {} /\ Ask(c, leaf) /\ want' = want /\ held' = held
  BY Zenon DEF Nest
<1>2. leaf \in Keys /\ leaf \notin held[c]
  BY <1>1, Zenon
<1>3. TypeOK'
  BY <1>1, <1>2, Zenon DEF IInv, TypeOK, Ask, Previous, Asking
<1>4. \A j \in Keys : InOrder(j)'
  BY <1>1, <1>2, AskKeepsOrder, Zenon DEF IInv
<1>5. InLoop(c)'
  <2>1. at'[c] = leaf
    BY <1>1, Zenon DEF IInv, TypeOK, Ask
  <2> QED
    BY <1>1, <1>2, <2>1, Zenon DEF IInv, InLoop, Running
<1>6. \A d \in Clients \ {c} : InLoop(d)'
  <2>1. \A d \in Clients \ {c} : at'[d] = at[d] /\ previous'[d] = previous[d]
    BY <1>1, Zenon DEF IInv, TypeOK, Ask
  <2> QED
    BY <1>1, <2>1, SameLoop, Zenon DEF IInv
<1> QED
  BY <1>3, <1>4, <1>5, <1>6, Zenon DEF IInv

\* A client acquires the key it awaits and asks for its next key, if any.
LEMMA AcquireStep ==
  ASSUME IInv, NEW c \in Clients, Acquire(c)
  PROVE  IInv'
<1> USE LockConstants
<1> DEFINE rest == want[c] \ (held[c] \cup {at[c]})
<1>1. /\ at[c] \in Keys /\ previous[c] = None /\ want' = want
      /\ held' = [held EXCEPT ![c] = @ \cup {at[c]}]
  BY Zenon DEF IInv, TypeOK, Acquire, Due
<1>2. held'[c] = held[c] \cup {at[c]} /\ \A d \in Clients \ {c} : held'[d] = held[d]
  BY <1>1, Zenon DEF IInv, TypeOK
<1>3. CASE rest = {}
  <2>1. at' = [at EXCEPT ![c] = None] /\ previous' = previous /\ tails' = tails /\ before' = before
    BY <1>3, Zenon DEF Acquire, Due
  <2>2. TypeOK'
    BY <1>1, <2>1, Zenon DEF IInv, TypeOK
  <2>3. \A j \in Keys : InOrder(j)'
    BY <1>1, <2>1, GrantKeepsOrder, Zenon DEF IInv
  <2>4. at'[c] = None /\ \A d \in Clients \ {c} : at'[d] = at[d]
    BY <2>1, Zenon DEF IInv, TypeOK
  <2>5. InLoop(c)'
    BY <1>1, <1>2, <1>3, <2>1, <2>4 DEF IInv, InLoop, Running, TypeOK
  <2>6. \A d \in Clients \ {c} : InLoop(d)'
    BY <1>1, <1>2, <2>1, <2>4, SameLoop, Zenon DEF IInv
  <2> QED
    BY <2>2, <2>3, <2>5, <2>6, Zenon DEF IInv
<1>4. CASE rest # {}
  <2>1. PICK k \in rest : First(k, rest) /\ Ask(c, k)
    BY <1>4, Zenon DEF Acquire, Due
  <2>2. k \in Keys /\ k \notin held[c] /\ k # at[c] /\ k \in want[c]
    BY Zenon DEF IInv, TypeOK
  <2>3. TypeOK'
    BY <1>1, <2>1, <2>2, Zenon DEF IInv, TypeOK, Ask, Previous, Asking
  <2>4. \A j \in Keys : InOrder(j)'
    BY <1>1, <2>1, <2>2, AskKeepsOrder, Zenon DEF IInv
  <2>5. /\ at'[c] = k
        /\ \A d \in Clients \ {c} : at'[d] = at[d] /\ previous'[d] = previous[d]
    BY <2>1, Zenon DEF IInv, TypeOK, Ask
  <2>6. InLoop(c)'
    <3>1. ~Running(c) /\ at[c] \in want[c]
      BY <1>1, <2>2, Zenon DEF IInv, InLoop, Running
    <3>2. want[c] \cap Leaves = {} /\ want[c] \subseteq Int /\ held[c] \subseteq want[c]
      <4>1. ~\E j \in Leaves : want[c] = {j}
        BY <2>2, <3>1, Zenon
      <4> QED
        BY <3>1, <4>1, Zenon DEF IInv, InLoop, TypeOK
    <3>3. \A j \in held[c] \cup {at[c]} : j < k
      BY <1>1, <2>2, <3>1, <3>2 DEF IInv, InLoop
    <3>4. \A j \in want[c] \ (held'[c] \cup {k}) : k < j
      BY <1>2, <2>1, <2>2, <3>2 DEF First
    <3>5. /\ ~Running(c)' /\ k \notin held'[c] /\ held'[c] \subseteq want[c] /\ want'[c] = want[c]
          /\ held'[c] \cap Leaves = {}
      BY <1>1, <1>2, <2>2, <3>1, <3>2, Zenon DEF Running
    <3> QED
      BY <1>2, <2>2, <2>5, <3>2, <3>3, <3>4, <3>5, Zenon DEF InLoop, Running
  <2>7. \A d \in Clients \ {c} : InLoop(d)'
    BY <1>1, <1>2, <2>5, SameLoop, Zenon DEF IInv
  <2> QED
    BY <2>3, <2>4, <2>6, <2>7, Zenon DEF IInv
<1> QED
  BY <1>3, <1>4, Zenon

\* Giving keys back changes only the client and the promises that awaited it.
LEMMA FreeOthers ==
  ASSUME IInv, NEW c \in Clients, NEW keys \in SUBSET Keys, Free(c, keys)
  PROVE  /\ held'[c] = held[c] \ keys /\ at' = at
         /\ \A d \in Clients \ {c} : held'[d] = held[d] /\ previous'[d] \in {previous[d], None}
         /\ at[c] = None => previous'[c] = None
BY LockConstants DEF IInv, InLoop, TypeOK, Free

\* Giving keys back keeps the types.
LEMMA FreeTypes ==
  ASSUME IInv, NEW c \in Clients, NEW keys \in SUBSET Keys, Free(c, keys),
         want' \in [Clients -> SUBSET Keys]
  PROVE  TypeOK'
<1>1. tails' \in [Keys -> Clients \cup {None}]
  BY Zenon DEF IInv, TypeOK, Free, Deleted
<1>2. before' \in [Keys -> SUBSET (Clients \X Clients)]
  BY Zenon DEF IInv, TypeOK, Free
<1> QED
  BY <1>1, <1>2, Zenon DEF IInv, TypeOK, Free

\* A nested callback ends.
LEMMA UnnestStep ==
  ASSUME IInv, NEW c \in Clients, Unnest(c)
  PROVE  IInv'
<1> DEFINE keys == held[c] \ want[c]
<1>1. /\ keys \in SUBSET Keys /\ keys # {} /\ keys \subseteq Leaves /\ Running(c)
      /\ Free(c, keys) /\ want' = want
  BY Zenon DEF IInv, TypeOK, InLoop, Unnest, Running
<1>2. at[c] = None
  BY <1>1, Zenon DEF IInv, InLoop
<1> HIDE DEF keys
<1>3. TypeOK'
  BY <1>1, FreeTypes, Zenon DEF IInv, TypeOK
<1>4. \A j \in Keys : InOrder(j)'
  <2>1. keys \subseteq held[c] /\ at[c] \notin keys
    BY <1>1, <1>2, LockConstants, Zenon DEF keys
  <2> QED
    BY <1>1, <2>1, FreeKeepsOrder, Zenon DEF IInv
<1>5. InLoop(c)'
  <2>1. held'[c] = held[c] \ keys /\ at'[c] = None /\ previous'[c] = None /\ want'[c] = want[c]
    BY <1>1, <1>2, FreeOthers, Zenon
  <2>2. held'[c] \subseteq Keys /\ want[c] \subseteq held'[c]
    BY <1>1, <2>1, Zenon DEF keys, Running, IInv, TypeOK
  <2> QED
    BY <1>1, <1>2, <2>1, <2>2, LockConstants, Zenon DEF IInv, InLoop, Running
<1>6. \A d \in Clients \ {c} : InLoop(d)'
  BY <1>1, FreeOthers, SameLoop, Zenon DEF IInv
<1> QED
  BY <1>3, <1>4, <1>5, <1>6, Zenon DEF IInv

\* A callback ends.
LEMMA ReleaseStep ==
  ASSUME IInv, NEW c \in Clients, Release(c)
  PROVE  IInv'
<1>1. /\ want[c] \in SUBSET Keys /\ held[c] = want[c] /\ at[c] = None
      /\ Free(c, want[c]) /\ want' = [want EXCEPT ![c] = {}]
  BY Zenon DEF IInv, TypeOK, Release
<1>2. want' \in [Clients -> SUBSET Keys] /\ want'[c] = {} /\ \A d \in Clients \ {c} : want'[d] = want[d]
  BY <1>1, Zenon DEF IInv, TypeOK
<1>3. TypeOK'
  BY <1>1, <1>2, FreeTypes, Zenon
<1>4. \A j \in Keys : InOrder(j)'
  BY <1>1, FreeKeepsOrder, LockConstants, Zenon DEF IInv
<1>5. InLoop(c)'
  BY <1>1, <1>2, FreeOthers, LockConstants DEF InLoop, Running
<1>6. \A d \in Clients \ {c} : InLoop(d)'
  BY <1>1, <1>2, FreeOthers, SameLoop, Zenon DEF IInv
<1> QED
  BY <1>3, <1>4, <1>5, <1>6, Zenon DEF IInv

-----------------------------------------------------------------------------
\* The invariant holds initially.
LEMMA InitIInv == Init => IInv
<1> SUFFICES ASSUME Init PROVE IInv
  BY Zenon
<1>1. TypeOK
  BY Zenon DEF Init, TypeOK
<1>2. \A c \in Clients : InLoop(c)
  BY Zenon DEF Init, InLoop, Running
<1>3. \A k \in Keys : Asking(k) = {}
  BY LockConstants, Zenon DEF Init, Asking
<1>4. \A k \in Keys : InOrder(k)
  BY <1>3, Zenon DEF Init, InOrder
<1> QED
  BY <1>1, <1>2, <1>4, Zenon DEF IInv

\* Every step keeps the invariant.
LEMMA NextIInv == IInv /\ [Next]_vars => IInv'
<1> SUFFICES ASSUME IInv, [Next]_vars PROVE IInv'
  BY Zenon
<1>1. CASE UNCHANGED vars
  <2>1. TypeOK'
    BY <1>1, Zenon DEF IInv, TypeOK, vars
  <2>2. \A c \in Clients : InLoop(c)'
    BY <1>1, Zenon DEF IInv, InLoop, Running, vars
  <2>3. \A k \in Keys : InOrder(k)'
    BY <1>1 DEF IInv, InOrder, Asking, Resolved, vars
  <2> QED
    BY <2>1, <2>2, <2>3, Zenon DEF IInv
<1>2. CASE Next
  BY <1>2, CallStep, NestStep, AcquireStep, UnnestStep, ReleaseStep, Zenon DEF Next
<1> QED
  BY <1>1, <1>2, Zenon

\* The line of every key stays in order in every execution.
THEOREM LockInvariant == Spec => []IInv
BY InitIInv, NextIInv, PTL DEF Spec

\* The invariant excludes two holders of one key: each would be before the
\* other.
LEMMA HoldersDiffer == IInv => MutualExclusion
<1> SUFFICES ASSUME IInv, NEW c \in Clients, NEW d \in Clients, c # d,
                    NEW k \in Keys, k \in held[c], k \in held[d]
             PROVE  FALSE
  BY Zenon DEF MutualExclusion, IInv, TypeOK
<1>1. c \in Asking(k) /\ d \in Asking(k) /\ Resolved(c, k) /\ Resolved(d, k)
  BY Zenon DEF Asking, Resolved
<1> QED
  BY <1>1, Zenon DEF IInv, InOrder

\* KeyLockTable.with never runs two callbacks under one key, for any number of
\* callers and any lists of keys.
THEOREM Exclusive == Spec => []MutualExclusion
BY LockInvariant, HoldersDiffer, PTL

\* Every key is granted in the order in which it was asked for.
THEOREM GrantedInOrder == Spec => []FirstCome
<1>1. IInv => FirstCome
  <2> SUFFICES ASSUME IInv, NEW k \in Keys, NEW c \in Clients, NEW d \in Clients,
                      k \in held[c], d \in Asking(k), d # c
               PROVE  <<c, d>> \in before[k]
    BY Zenon DEF FirstCome
  <2>1. c \in Asking(k) /\ Resolved(c, k)
    BY Zenon DEF Asking, Resolved
  <2> QED
    BY <2>1, Zenon DEF IInv, InOrder
<1> QED
  BY <1>1, LockInvariant, PTL

\* Calls wait only for larger keys or for a leaf, which no holder keeps while
\* it waits: no circle of waiting calls can form.
THEOREM Ordered == Spec => []WaitsUpwards
<1>1. IInv => WaitsUpwards
  BY Zenon DEF IInv, InLoop, WaitsUpwards
<1> QED
  BY <1>1, LockInvariant, PTL

\* The table of tails has an entry for a key exactly while somebody asks for it.
THEOREM TableIsExact == Spec => []TableExact
<1>1. IInv => TableExact
  BY Zenon DEF IInv, InOrder, TableExact
<1> QED
  BY <1>1, LockInvariant, PTL

-----------------------------------------------------------------------------
\* What the callers see: the keys of running callbacks.
Inside == [c \in Clients |-> IF Running(c) THEN held[c] ELSE {}]

\* Every step of the lock table is a step of AtomicLocks or changes nothing a
\* caller sees.
LEMMA NextRefines == IInv /\ IInv' /\ [Next]_vars => [Locks!Next]_Inside
<1> SUFFICES ASSUME IInv, IInv', [Next]_vars PROVE [Locks!Next]_Inside
  BY Zenon
<1> USE LockConstants
<1>1. MutualExclusion'
  BY HoldersDiffer, PTL
<1>2. ASSUME NEW c \in Clients, NEW keys \in Requests, Call(c, keys) PROVE Inside' = Inside
  <2>1. held' = held /\ held[c] = {} /\ want' = [want EXCEPT ![c] = keys] /\ want[c] = {} /\ keys # {}
    BY <1>2, Zenon DEF IInv, InLoop, Call, Requests
  <2> QED
    BY <2>1, Zenon DEF IInv, TypeOK, Running, Inside
<1>3. ASSUME NEW c \in Clients, NEW leaf \in Leaves, Nest(c, leaf) PROVE Inside' = Inside
  BY <1>3, Zenon DEF Nest, Running, Inside
<1>4. ASSUME NEW c \in Clients, Acquire(c) PROVE [Locks!Next]_Inside
  <2> DEFINE taken == IF Running(c) THEN {at[c]} ELSE want[c]
  <2>1. /\ at[c] \in Keys /\ want' = want
        /\ held'[c] = held[c] \cup {at[c]} /\ \A d \in Clients \ {c} : held'[d] = held[d]
    BY <1>4, Zenon DEF IInv, TypeOK, Acquire, Due
  <2>2. CASE want[c] \subseteq held[c] \cup {at[c]}
    <3>1. Running(c)' /\ (~Running(c) => held'[c] = want[c])
      BY <2>1, <2>2 DEF IInv, InLoop, Running
    <3>2. Inside' = [Inside EXCEPT ![c] = @ \cup taken]
      BY <2>1, <3>1, Zenon DEF Inside, Running
    <3>3. taken \subseteq held'[c] /\ taken \in (SUBSET Keys) \ {{}}
      BY <2>1, <2>2, Zenon DEF IInv, InLoop, TypeOK, Running
    <3>4. Inside[c] \cap taken = {}
      <4>1. at[c] \notin held[c]
        BY Zenon DEF IInv, InLoop
      <4>2. Inside[c] = IF Running(c) THEN held[c] ELSE {}
        BY Zenon DEF Inside
      <4> QED
        BY <4>1, <4>2, Zenon
    <3>5. \A d \in Clients \ {c} : Inside[d] \cap taken = {}
      BY <1>1, <2>1, <3>3, Zenon DEF Inside, MutualExclusion
    <3> HIDE DEF taken
    <3> QED
      BY <3>2, <3>3, <3>4, <3>5, Zenon DEF Locks!Next, Locks!Enter, Inside
  <2>3. CASE ~(want[c] \subseteq held[c] \cup {at[c]})
    <3>1. ~Running(c) /\ ~Running(c)'
      BY <2>1, <2>3, Zenon DEF Running
    <3> QED
      BY <2>1, <3>1, Zenon DEF Inside, Running
  <2> QED
    BY <2>2, <2>3, Zenon
<1>5. ASSUME NEW c \in Clients, Unnest(c) PROVE Locks!Next
  <2> DEFINE keys == held[c] \ want[c]
  <2>1. Running(c) /\ keys \in (SUBSET Keys) \ {{}} /\ Free(c, keys) /\ want' = want
    BY <1>5, Zenon DEF IInv, TypeOK, Unnest, Running
  <2>2. held'[c] = held[c] \ keys /\ \A d \in Clients \ {c} : held'[d] = held[d]
    BY <2>1, FreeOthers, Zenon
  <2>3. Inside' = [Inside EXCEPT ![c] = @ \ keys]
    BY <2>1, <2>2, Zenon DEF Inside, Running
  <2>4. keys \subseteq Inside[c]
    BY <2>1, Zenon DEF Inside
  <2> QED
    BY <2>1, <2>3, <2>4, Zenon DEF Locks!Next, Locks!Leave, Inside
<1>6. ASSUME NEW c \in Clients, Release(c) PROVE Locks!Next
  <2>1. /\ Running(c) /\ want[c] \in (SUBSET Keys) \ {{}} /\ Free(c, want[c]) /\ held[c] = want[c]
        /\ want' = [want EXCEPT ![c] = {}]
    BY <1>6, Zenon DEF IInv, TypeOK, Release, Running
  <2>2. held'[c] = {} /\ \A d \in Clients \ {c} : held'[d] = held[d]
    BY <2>1, FreeOthers, Zenon
  <2>3. Inside' = [Inside EXCEPT ![c] = @ \ want[c]]
    BY <2>1, <2>2, Zenon DEF Inside, Running, IInv, TypeOK
  <2>4. want[c] \subseteq Inside[c]
    BY <2>1, Zenon DEF Inside
  <2> QED
    BY <2>1, <2>3, <2>4, Zenon DEF Locks!Next, Locks!Leave, Inside
<1>7. UNCHANGED vars => Inside' = Inside
  BY Zenon DEF vars, Inside, Running
<1> QED
  BY <1>2, <1>3, <1>4, <1>5, <1>6, <1>7, Zenon DEF Next

\* The incremental acquisition of KeyLockTable.with implements exclusive locks
\* that are taken all at once, which is what the engines rely on.
THEOREM ImplementsAtomicLocks == Spec => LocksSpec
<1>1. Init => Locks!Init
  BY Zenon DEF Init, Locks!Init, Running
<1>2. IInv /\ IInv' /\ [Next]_vars => [Locks!Next]_Inside
  BY NextRefines, Zenon
<1> QED
  BY <1>1, <1>2, LockInvariant, PTL DEF Spec, LocksSpec, Locks!Spec, Inside
==============================================================================

---------------------------- MODULE InboxProofs ------------------------------
(***************************************************************************)
(* What every frame the log accepts keeps of the state of the Inbox, for   *)
(* every set of topics, spends and requests: the handlers of #applyFrame,  *)
(* one lemma each.                                                         *)
(***************************************************************************)
EXTENDS InboxInvariants, FiniteSetTheorems, WellFoundedInduction, TLAPS


-----------------------------------------------------------------------------
\* A handler that touches no frame and no append: what it may write of spends,
\* inboxes and pins.
SpendMoves(s, t, p) ==
  /\ t.spends[p] # None /\ t.spends[p].request.op # "append" /\ SpendOK(t, p)
  /\ s.spends[p] # None => /\ t.spends[p].request = s.spends[p].request
InboxMoves(s, t, k) ==
  /\ t.inbox[k] # None /\ InboxOK(t, k)
  /\ s.inbox[k] = None => t.inbox[k].visible = 0 /\ t.inbox[k].alloc = 0
  /\ s.inbox[k] # None => /\ t.inbox[k].visible = s.inbox[k].visible
                          /\ t.inbox[k].alloc = s.inbox[k].alloc
                          /\ t.inbox[k].lease >= s.inbox[k].lease
Aside(s, t) ==
  /\ t.frames = s.frames /\ t.floor >= s.floor
  /\ \A p \in Spends : t.spends[p] = s.spends[p] \/ SpendMoves(s, t, p)
  /\ \A k \in Topics : t.inbox[k] = s.inbox[k] \/ InboxMoves(s, t, k)

LEMMA AsideGood ==
  ASSUME NEW s, NEW t \in States, Good(s), Aside(s, t)
  PROVE  Placed(t) /\ Distinct(t) /\ Told(t) /\ Bounded(t) /\ Prefixed(t) /\ Later(s, t)
<1>0. s \in States BY Zenon DEF Good
<1>1. \A x \in s.frames : /\ x.spend \in Spends /\ x.topic \in Topics
                          /\ x.rev \in Nat /\ x.expires \in Nat
  BY <1>0, Zenon DEF States, FrameRecords
<1>2. \A x \in s.frames : t.spends[x.spend] = s.spends[x.spend]
  BY <1>1, Zenon DEF Good, Placed, Aside, SpendMoves
<1>3. \A k \in Topics : s.inbox[k] # None =>
        /\ t.inbox[k] # None /\ t.inbox[k].visible = s.inbox[k].visible
        /\ t.inbox[k].alloc = s.inbox[k].alloc /\ t.inbox[k].lease >= s.inbox[k].lease
  <2>. SUFFICES ASSUME NEW k \in Topics, s.inbox[k] # None
                PROVE  /\ t.inbox[k] # None /\ t.inbox[k].visible = s.inbox[k].visible
                       /\ t.inbox[k].alloc = s.inbox[k].alloc /\ t.inbox[k].lease >= s.inbox[k].lease
    BY Zenon
  <2>1. s.inbox[k].lease \in Nat BY <1>0, Zenon DEF States, Inboxes
  <2>. QED BY <2>1 DEF Aside, InboxMoves
<1>4. t.frames = s.frames /\ t.floor >= s.floor /\ s.floor \in Nat /\ t.floor \in Nat
  BY <1>0, Zenon DEF Aside, States
<1>5. Placed(t) BY <1>1, <1>2, <1>3, <1>4 DEF Good, Placed
<1>6. Distinct(t) BY <1>4, Zenon DEF Good, Distinct
<1>7. Told(t)
  <2>. SUFFICES ASSUME NEW p \in Spends, t.spends[p] # None PROVE SpendOK(t, p)
    BY Zenon DEF Told
  <2>1. CASE t.spends[p] = s.spends[p]
    <3>1. SpendOK(s, p) BY <2>1, Zenon DEF Good, Told
    <3>2. t.spends[p].epoch \in Nat BY Zenon DEF States, Spendings
    <3>. QED BY <2>1, <3>1, <3>2, <1>4 DEF SpendOK
  <2>. QED BY <2>1, Zenon DEF Aside, SpendMoves
<1>8. Bounded(t)
  <2>. SUFFICES ASSUME NEW k \in Topics, t.inbox[k] # None PROVE InboxOK(t, k)
    BY Zenon DEF Bounded
  <2>1. CASE t.inbox[k] = s.inbox[k]
    <3>1. InboxOK(s, k) BY <2>1, Zenon DEF Good, Bounded
    <3>2. t.inbox[k].lease \in Nat /\ Grace \in Nat BY InboxConstants, Zenon DEF States, Inboxes
    <3>. QED BY <2>1, <3>1, <3>2, <1>4 DEF InboxOK
  <2>. QED BY <2>1, Zenon DEF Aside, InboxMoves
<1>9. Prefixed(t)
  <2>. SUFFICES ASSUME NEW k \in Topics, t.inbox[k] # None
                PROVE  /\ \A x \in t.frames : x.topic = k /\ x.rev <= t.inbox[k].visible =>
                                              ~HasStatus(t, x.spend, {"provisional"})
                       /\ ~Settled(t, k, t.inbox[k].visible + 1)
    BY Zenon DEF Prefixed
  <2>1. CASE s.inbox[k] = None BY <2>1, <1>4, Zenon DEF Good, Placed, Settled
  <2>2. CASE s.inbox[k] # None BY <2>2, <1>1, <1>2, <1>3, <1>4, Zenon DEF Good, Prefixed, Settled, HasStatus
  <2>. QED BY <2>1, <2>2, Zenon
<1>10. Later(s, t)
  <2>1. \A p \in Spends : s.spends[p] # None =>
          /\ t.spends[p] # None /\ t.spends[p].request = s.spends[p].request
          /\ s.spends[p].status # "provisional" => t.spends[p].status # "provisional"
    <3>. SUFFICES ASSUME NEW p \in Spends, s.spends[p] # None, SpendMoves(s, t, p)
                  PROVE  t.spends[p].status # "provisional"
      BY Zenon DEF Aside, SpendMoves
    <3>1. t.spends[p].request \in Requests BY Zenon DEF States, Spendings, SpendMoves
    <3>. QED BY <3>1, RequestTypes, Zenon DEF SpendMoves, SpendOK, Charged
  <2>. QED BY <2>1, <1>3, <1>4, Zenon DEF Later
<1>. QED BY <1>5, <1>6, <1>7, <1>8, <1>9, <1>10, Zenon

\* Every set that is counted is finite.
LEMMA Tally ==
  ASSUME NEW s, Good(s)
  PROVE  /\ IsFiniteSet(s.frames) /\ IsFiniteSet(s.closes) /\ IsFiniteSet(Records(s))
         /\ IsFiniteSet(Created(s)) /\ IsFiniteSet(Spent(s))
         /\ Cardinality(s.frames) \in Nat /\ Cardinality(s.closes) \in Nat
         /\ Cardinality(Records(s)) \in Nat /\ Cardinality(Created(s)) \in Nat
         /\ Cardinality(Spent(s)) \in Nat /\ \A p \in s.pins : IsFiniteSet(p.entries)
         /\ s.acct.stored = Cardinality(s.frames) /\ s.acct.tombs = Cardinality(Created(s))
         /\ s.acct.control = Cardinality(Spent(s)) + Cardinality(s.closes) + Cardinality(Records(s))
<1>1. IsFiniteSet(Created(s)) BY FS_Subset, InboxConstants, Zenon DEF Created
<1>2. IsFiniteSet(Spent(s)) BY FS_Subset, InboxConstants, Zenon DEF Spent
<1>. QED BY <1>1, <1>2, FS_CardinalityType, Zenon DEF Good, Counted

LEMMA PlusOne ==
  ASSUME NEW S, IsFiniteSet(S), NEW x, x \notin S, NEW T, T = S \cup {x}
  PROVE  IsFiniteSet(T) /\ Cardinality(T) = Cardinality(S) + 1
BY FS_AddElement, Zenon

LEMMA SameCount ==
  ASSUME NEW s, NEW t, Good(s), t.acct = s.acct, t.frames = s.frames, t.closes = s.closes,
         t.pins = s.pins, Created(t) = Created(s), Spent(t) = Spent(s)
  PROVE  Counted(t)
BY Zenon DEF Good, Counted, Records

\* The least of some natural numbers
LEMMA LeastNat ==
  ASSUME NEW T, T \subseteq Nat, T # {}
  PROVE  \E m \in T : \A y \in T : m <= y
<1>. DEFINE R == {ss \in Nat \X Nat : ss[1] < ss[2]}
<1>1. IsWellFoundedOn(R, Nat) BY NatLessThanWellFounded, Zenon DEF OpToRel
<1>2. PICK x \in T : \A y \in T : ~ (<<y, x>> \in R) BY <1>1, WFMin, Zenon
<1>3. ASSUME NEW y \in T PROVE x <= y
  <2>1. x \in Nat /\ y \in Nat BY Zenon
  <2>2. <<y, x>> \notin R BY <1>2, Zenon
  <2>. QED BY <2>1, <2>2
<1>. QED BY <1>3, Zenon

LEMMA MaxOf ==
  ASSUME NEW S, NEW m \in S, S \subseteq Int, \A y \in S : m >= y
  PROVE  Max(S) = m
<1>1. Max(S) \in S /\ \A y \in S : Max(S) >= y BY Zenon DEF Max
<1>2. m \in Int /\ Max(S) \in Int BY <1>1, Zenon
<1>3. m >= Max(S) /\ Max(S) >= m BY <1>1, Zenon
<1>. QED BY <1>2, <1>3

\* The loop of #applyAppendAckFinalized stops at the first revision that is not
\* acknowledged, or at the last one.
LEMMA PrefixIs ==
  ASSUME NEW s, NEW k, s.inbox[k] \in Inboxes, s.inbox[k].visible <= s.inbox[k].alloc
  PROVE  LET v == s.inbox[k].visible  n == s.inbox[k].alloc  m == Prefix(s, k)
         IN /\ m \in v..n /\ \A w \in (v + 1)..m : Settled(s, k, w)
            /\ m = n \/ ~Settled(s, k, m + 1)
<1>. DEFINE v == s.inbox[k].visible
            n == s.inbox[k].alloc
            F(w) == Settled(s, k, w)
            S == {x \in v..n : \A w \in (v + 1)..x : F(w)}
            T == {x \in (v + 1)..(n + 1) : x = n + 1 \/ ~F(x)}
<1>1. v \in Nat /\ n \in Nat /\ v <= n BY Zenon DEF Inboxes
<1>2. Prefix(s, k) = Max(S) BY Zenon DEF Prefix
<1>. HIDE DEF F, v, n
<1>3. n + 1 \in T BY <1>1
<1>4. PICK m \in T : \A y \in T : m <= y
  <2>1. T \subseteq Nat BY <1>1
  <2>. QED BY <2>1, <1>3, LeastNat, Zenon
<1>5. m - 1 \in v..n BY <1>1
<1>6. \A w \in (v + 1)..(m - 1) : F(w) BY <1>1, <1>4
<1>7. m - 1 \in S BY <1>5, <1>6, Zenon
<1>8. \A y \in S : m - 1 >= y
  <2>. SUFFICES ASSUME NEW y \in S, y > m - 1 PROVE FALSE
    BY <1>1, <1>5
  <2>1. m \in (v + 1)..y /\ m # n + 1 BY <1>1, <1>5
  <2>2. F(m) BY <2>1, Zenon
  <2>. QED BY <2>1, <2>2, Zenon
<1>9. S \subseteq Int BY <1>1
<1>10. Max(S) = m - 1 BY <1>7, <1>8, <1>9, MaxOf, Zenon
<1>11. m - 1 = n \/ ~F(m - 1 + 1) BY <1>1, <1>5
<1>. QED BY <1>2, <1>5, <1>6, <1>10, <1>11, Zenon DEF F, v, n

LEMMA AsidePins ==
  ASSUME NEW s, NEW t \in States, Good(s), Aside(s, t), t.pins \subseteq s.pins
  PROVE  Paired(t) /\ Held(t)
<1>1. \A p \in s.pins : p.spend \in Spends BY Zenon DEF Good, States, Pins
<1>. QED BY <1>1 DEF Good, Paired, Held, Aside, SpendMoves

LEMMA MakeAside ==
  ASSUME NEW s, NEW t, Good(s), t.frames = s.frames, t.floor = s.floor,
         \A p \in Spends : t.spends[p] = s.spends[p] \/ SpendMoves(s, t, p),
         \A k \in Topics : t.inbox[k] = s.inbox[k] \/ InboxMoves(s, t, k)
  PROVE  Aside(s, t)
<1>1. s.floor \in Nat BY Zenon DEF Good, States
<1>. QED BY <1>1 DEF Aside

LEMMA AsideStep ==
  ASSUME NEW s, NEW f, NEW t \in States, Good(s), Aside(s, t), t.pins \subseteq s.pins, Counted(t),
         Calm(s, f, t), Effect(s, f, t)
  PROVE  StepOK(s, f, t)
BY AsideGood, AsidePins, Zenon DEF StepOK, Good

-----------------------------------------------------------------------------
\* A handler that writes one inbox, and not its revisions
Rewrites(s, f, t, k, r) ==
  /\ t \in States /\ k \in Topics /\ r \in Inboxes
  /\ s.inbox[k] # None /\ t.inbox = [s.inbox EXCEPT ![k] = r] /\ t.floor = s.floor
  /\ r.visible = s.inbox[k].visible /\ r.alloc = s.inbox[k].alloc /\ r.lease >= s.inbox[k].lease
  /\ r.obj = "expired" => s.floor > r.lease + Grace
  /\ \/ r.obj = s.inbox[k].obj /\ r.policy \in {s.inbox[k].policy, "visible"}
     \/ Tells(s, f, t, k)

LEMMA InboxStep ==
  ASSUME NEW s, NEW f, NEW t, NEW k, NEW r, Good(s), Rewrites(s, f, t, k, r)
  PROVE  /\ \A j \in Topics : t.inbox[j] = s.inbox[j] \/ InboxMoves(s, t, j)
         /\ Calm(s, f, t) /\ Created(t) = Created(s)
<1>. USE DEF Rewrites
<1>1. s \in States /\ r # None BY NoneAssumption, Zenon DEF Good
<1>2. t.inbox[k] = r /\ \A j \in Topics \ {k} : t.inbox[j] = s.inbox[j] BY <1>1, Zenon DEF States
<1>3. InboxOK(s, k) BY Zenon DEF Good, Bounded
<1>4. s.inbox[k].lease \in Nat /\ s.floor \in Nat /\ r.lease \in Nat BY <1>1, Zenon DEF States, Inboxes
<1>5. InboxMoves(s, t, k) BY <1>1, <1>2, <1>3, <1>4, Zenon DEF InboxMoves, InboxOK
<1>6. Calm(s, f, t)
  <2>. SUFFICES ASSUME NEW j \in Topics, s.inbox[j] # None
                PROVE  \/ /\ t.inbox[j].visible = s.inbox[j].visible /\ t.inbox[j].obj = s.inbox[j].obj
                          /\ t.inbox[j].policy \in {s.inbox[j].policy, "visible"}
                       \/ Tells(s, f, t, j)
    BY Zenon DEF Calm
  <2>1. CASE j = k BY <2>1, <1>2, Zenon
  <2>2. CASE j # k BY <2>2, <1>2, Zenon
  <2>. QED BY <2>1, <2>2, Zenon
<1>7. Created(t) = Created(s) BY <1>1, <1>2, Zenon DEF Created
<1>. QED BY <1>2, <1>5, <1>6, <1>7, Zenon

LEMMA CreateStep ==
  ASSUME NEW s, NEW f, Good(s), f.t = "create", FrameOK(s, f), CreateOK(s, f)
  PROVE  StepOK(s, f, Create(s, f))
<1>. DEFINE k == f.request.topic  p == f.request.spend
            r == [obj |-> "present", lease |-> f.lease, rev |-> 0, policy |-> "visible",
                  policyRev |-> 0, visible |-> 0, alloc |-> 0]
            e == Entry("committed", f.request, 0, f.epoch)
            a == Charge(s.acct, 0, 1, 1)
            t == Create(s, f)
<1>1. f.request \in Requests /\ f.request.op = "create" /\ f.epoch \in Nat /\ f.lease \in Nat
  BY Zenon DEF FrameOK
<1>2. k \in Topics /\ p \in Spends BY <1>1, RequestTypes, Zenon
<1>3. r \in Inboxes /\ r.visible = 0 /\ r.alloc = 0 /\ r.obj = "present" /\ r.lease = f.lease
  BY <1>1, Zenon DEF Inboxes
<1>4. e \in Spendings /\ e.status = "committed" /\ e.request = f.request BY <1>1, Zenon DEF Entry, Spendings
<1>5. s \in States /\ s.inbox[k] = None /\ s.spends[p] = None /\ s.acct \in Accounts
  BY Zenon DEF Good, CreateOK, Fresh, States
<1>6. /\ a \in Accounts /\ a.stored = s.acct.stored /\ a.control = s.acct.control + 1
      /\ a.tombs = s.acct.tombs + 1
  BY <1>5 DEF Charge, Accounts
<1>7. t = [s EXCEPT !.spends = [s.spends EXCEPT ![p] = e], !.inbox = [s.inbox EXCEPT ![k] = r],
                    !.acct = a]
  BY <1>5, Zenon DEF Create, States
<1>8. r # None /\ e # None BY <1>3, <1>4, NoneAssumption, Zenon
<1>. HIDE DEF r, e, a, t
<1>9. t \in States BY <1>2, <1>3, <1>4, <1>5, <1>6, <1>7, Zenon DEF States
<1>10. t.acct = a /\ t.frames = s.frames /\ t.pins = s.pins /\ t.closes = s.closes /\ t.floor = s.floor
  BY <1>5, <1>7, Zenon DEF States
<1>11. t.spends[p] = e /\ \A q \in Spends \ {p} : t.spends[q] = s.spends[q]
  BY <1>2, <1>5, <1>7, Zenon DEF States
<1>12. t.inbox[k] = r /\ \A j \in Topics \ {k} : t.inbox[j] = s.inbox[j]
  BY <1>2, <1>5, <1>7, Zenon DEF States
<1>13. Aside(s, t)
  <2>1. SpendMoves(s, t, p) BY <1>1, <1>4, <1>5, <1>8, <1>11, Zenon DEF SpendMoves, SpendOK, Charged
  <2>2. InboxMoves(s, t, k) BY <1>3, <1>5, <1>8, <1>12 DEF InboxMoves, InboxOK
  <2>. QED BY <2>1, <2>2, <1>5, <1>10, <1>11, <1>12, MakeAside, Zenon
<1>14. Counted(t)
  <2>1. Created(t) = Created(s) \cup {k} /\ k \notin Created(s) BY <1>2, <1>5, <1>8, <1>12, Zenon DEF Created
  <2>2. Spent(t) = Spent(s) \cup {p} /\ p \notin Spent(s) BY <1>2, <1>5, <1>8, <1>11, Zenon DEF Spent
  <2>3. IsFiniteSet(Created(s)) /\ IsFiniteSet(Spent(s)) BY Tally, Zenon
  <2>4. Cardinality(Created(t)) = Cardinality(Created(s)) + 1 BY <2>1, <2>3, PlusOne, Zenon
  <2>5. Cardinality(Spent(t)) = Cardinality(Spent(s)) + 1 BY <2>2, <2>3, PlusOne, Zenon
  <2>6. Records(t) = Records(s) BY <1>10, Zenon DEF Records
  <2>. QED BY <2>4, <2>5, <2>6, <1>6, <1>10, Tally DEF Counted
<1>15. Calm(s, f, t) BY <1>5, <1>12, Zenon DEF Calm
<1>16. Effect(s, f, t) BY <1>3, <1>8, <1>10, <1>12, Zenon DEF Effect
<1>. QED BY <1>9, <1>10, <1>13, <1>14, <1>15, <1>16, AsideStep, Zenon DEF t

LEMMA RenewStep ==
  ASSUME NEW s, NEW f, Good(s), f.t = "renew", FrameOK(s, f), RenewOK(s, f)
  PROVE  StepOK(s, f, Renew(s, f))
<1>. DEFINE k == f.request.topic  p == f.request.spend  i == s.inbox[k]
            r == [i EXCEPT !.rev = f.rev + 1, !.lease = f.lease]
            e == Entry("committed", f.request, f.rev + 1, f.epoch)
            a == Charge(s.acct, 0, 1, 0)
            t == Renew(s, f)
<1>1. /\ f.request \in Requests /\ f.request.op = "renew" /\ f.epoch \in Nat /\ f.lease \in Nat
      /\ f.rev + 1 \in Nat
  BY DEF FrameOK
<1>2. k \in Topics /\ p \in Spends BY <1>1, RequestTypes, Zenon
<1>3. /\ s \in States /\ i \in Inboxes /\ i # None /\ s.spends[p] = None /\ s.acct \in Accounts
      /\ i.obj = "present" /\ f.lease > i.lease /\ i = s.inbox[k]
  BY <1>2, Zenon DEF Good, RenewOK, Unchanged, Present, Fresh, States
<1>4. t = [s EXCEPT !.spends = [s.spends EXCEPT ![p] = e], !.inbox = [s.inbox EXCEPT ![k] = r],
                    !.acct = a]
  BY <1>2, <1>3, Zenon DEF Renew, States
<1>. HIDE DEF i, t
<1>5. /\ r \in Inboxes /\ r.visible = i.visible /\ r.alloc = i.alloc
      /\ r.obj = "present" /\ r.lease = f.lease /\ r.policy = i.policy /\ i.lease \in Nat
  BY <1>1, <1>3, Zenon DEF Inboxes
<1>6. e \in Spendings /\ e.status = "committed" /\ e.request = f.request BY <1>1, Zenon DEF Entry, Spendings
<1>7. /\ a \in Accounts /\ a.stored = s.acct.stored /\ a.control = s.acct.control + 1
      /\ a.tombs = s.acct.tombs
  BY <1>3 DEF Charge, Accounts
<1>8. r # None /\ e # None BY <1>5, <1>6, NoneAssumption, Zenon
<1>. HIDE DEF r, e, a
<1>9. t \in States BY <1>2, <1>3, <1>4, <1>5, <1>6, <1>7, Zenon DEF States
<1>10. t.acct = a /\ t.frames = s.frames /\ t.pins = s.pins /\ t.closes = s.closes /\ t.floor = s.floor
  BY <1>3, <1>4, Zenon DEF States
<1>11. t.spends[p] = e /\ \A q \in Spends \ {p} : t.spends[q] = s.spends[q]
  BY <1>2, <1>3, <1>4, Zenon DEF States
<1>12. t.inbox = [s.inbox EXCEPT ![k] = r] /\ t.inbox[k] = r BY <1>2, <1>3, <1>4, Zenon DEF States
<1>13. /\ \A j \in Topics : t.inbox[j] = s.inbox[j] \/ InboxMoves(s, t, j)
       /\ Calm(s, f, t) /\ Created(t) = Created(s)
  <2>1. Rewrites(s, f, t, k, r) BY <1>1, <1>2, <1>3, <1>5, <1>9, <1>10, <1>12 DEF Rewrites
  <2>. QED BY <2>1, InboxStep, Zenon
<1>14. Aside(s, t)
  <2>1. SpendMoves(s, t, p) BY <1>1, <1>3, <1>6, <1>8, <1>11, Zenon DEF SpendMoves, SpendOK, Charged
  <2>. QED BY <2>1, <1>10, <1>11, <1>13, MakeAside, Zenon
<1>15. Counted(t)
  <2>1. Spent(t) = Spent(s) \cup {p} /\ p \notin Spent(s) BY <1>2, <1>3, <1>8, <1>11, Zenon DEF Spent
  <2>2. IsFiniteSet(Spent(s)) BY Tally, Zenon
  <2>3. Cardinality(Spent(t)) = Cardinality(Spent(s)) + 1 BY <2>1, <2>2, PlusOne, Zenon
  <2>4. Records(t) = Records(s) BY <1>10, Zenon DEF Records
  <2>. QED BY <2>3, <2>4, <1>7, <1>10, <1>13, Tally DEF Counted
<1>16. Effect(s, f, t) BY <1>5, <1>8, <1>10, <1>12, Zenon DEF Effect
<1>. QED BY <1>9, <1>10, <1>13, <1>14, <1>15, <1>16, AsideStep, Zenon DEF t

LEMMA CloseStep ==
  ASSUME NEW s, NEW f, Good(s), f.t = "close", FrameOK(s, f), CloseOK(s, f)
  PROVE  StepOK(s, f, Close(s, f))
<1>. DEFINE k == f.request.topic  i == s.inbox[k]
            r == [i EXCEPT !.rev = f.rev + 1, !.obj = "closed"]
            a == Charge(s.acct, 0, 1, 0)
            t == Close(s, f)
<1>1. f.request \in Requests /\ f.rev + 1 \in Nat BY DEF FrameOK
<1>2. k \in Topics BY <1>1, RequestTypes, Zenon
<1>3. /\ s \in States /\ i \in Inboxes /\ i # None /\ f.request \notin s.closes /\ i = s.inbox[k]
      /\ s.acct \in Accounts
  BY <1>2, Zenon DEF Good, CloseOK, Unchanged, Present, States
<1>4. t = [s EXCEPT !.inbox = [s.inbox EXCEPT ![k] = r], !.closes = s.closes \cup {f.request},
                    !.acct = a]
  BY <1>2, <1>3, Zenon DEF Close, States
<1>. HIDE DEF i, t
<1>5. /\ r \in Inboxes /\ r.visible = i.visible /\ r.alloc = i.alloc
      /\ r.lease = i.lease /\ r.obj = "closed" /\ i.lease \in Nat
  BY <1>1, <1>3, Zenon DEF Inboxes
<1>6. /\ a \in Accounts /\ a.stored = s.acct.stored /\ a.control = s.acct.control + 1
      /\ a.tombs = s.acct.tombs
  BY <1>3 DEF Charge, Accounts
<1>. HIDE DEF r, a
<1>7. t \in States BY <1>1, <1>2, <1>3, <1>4, <1>5, <1>6, Zenon DEF States
<1>8. /\ t.inbox = [s.inbox EXCEPT ![k] = r] /\ t.spends = s.spends /\ t.frames = s.frames
      /\ t.pins = s.pins /\ t.floor = s.floor /\ t.closes = s.closes \cup {f.request} /\ t.acct = a
  BY <1>3, <1>4, Zenon DEF States
<1>9. /\ \A j \in Topics : t.inbox[j] = s.inbox[j] \/ InboxMoves(s, t, j)
      /\ Calm(s, f, t) /\ Created(t) = Created(s)
  <2>1. Tells(s, f, t, k) BY Zenon DEF Tells
  <2>2. Rewrites(s, f, t, k, r) BY <2>1, <1>2, <1>3, <1>5, <1>7, <1>8 DEF Rewrites
  <2>. QED BY <2>2, InboxStep, Zenon
<1>10. Aside(s, t) BY <1>8, <1>9, MakeAside, Zenon
<1>11. Counted(t)
  <2>1. t.closes = s.closes \cup {f.request} /\ IsFiniteSet(s.closes) BY <1>8, Tally, Zenon
  <2>2. IsFiniteSet(t.closes) /\ Cardinality(t.closes) = Cardinality(s.closes) + 1
    BY <1>3, <2>1, PlusOne, Zenon
  <2>3. /\ Records(t) = Records(s) /\ Spent(t) = Spent(s) /\ t.frames = s.frames /\ t.pins = s.pins
        /\ t.acct = a
    BY <1>8, Zenon DEF Records, Spent
  <2>. QED BY <2>2, <2>3, <1>6, <1>9, Tally DEF Counted
<1>12. Effect(s, f, t) BY <1>8, Zenon DEF Effect
<1>. QED BY <1>7, <1>8, <1>9, <1>10, <1>11, <1>12, AsideStep, Zenon DEF t

LEMMA GcStep ==
  ASSUME NEW s, NEW f, Good(s), f.t = "gc", FrameOK(s, f), GcOK(s, f)
  PROVE  StepOK(s, f, Gc(s, f))
<1>. DEFINE k == f.topic  i == s.inbox[k]
            r == [i EXCEPT !.rev = f.rev + 1, !.obj = "expired"]
            t == Gc(s, f)
<1>1. k \in Topics /\ f.rev + 1 \in Nat /\ f.epoch \in Nat /\ f.old \in Nat
  BY DEF FrameOK
<1>2. /\ s \in States /\ i \in Inboxes /\ i # None /\ i = s.inbox[k] /\ i.lease = f.old
  BY <1>1, Zenon DEF Good, GcOK, Unchanged, Present, States
<1>3. s.floor > i.lease + Grace
  <2>1. s.floor \in Nat /\ Grace \in Nat BY <1>2, InboxConstants, Zenon DEF States
  <2>2. f.epoch > f.old + Grace /\ f.epoch <= s.floor BY Zenon DEF FrameOK
  <2>. QED BY <1>1, <1>2, <2>1, <2>2
<1>4. t = [s EXCEPT !.inbox = [s.inbox EXCEPT ![k] = r]] BY <1>1, <1>2, Zenon DEF Gc, States
<1>. HIDE DEF i, t
<1>5. /\ r \in Inboxes /\ r.visible = i.visible /\ r.alloc = i.alloc
      /\ r.lease = i.lease /\ r.obj = "expired" /\ i.lease \in Nat
  BY <1>1, <1>2, Zenon DEF Inboxes
<1>. HIDE DEF r
<1>6. t \in States BY <1>1, <1>2, <1>4, <1>5, Zenon DEF States
<1>7. /\ t.inbox = [s.inbox EXCEPT ![k] = r] /\ t.spends = s.spends /\ t.frames = s.frames
      /\ t.pins = s.pins /\ t.floor = s.floor /\ t.closes = s.closes /\ t.acct = s.acct
  BY <1>2, <1>4, Zenon DEF States
<1>8. /\ \A j \in Topics : t.inbox[j] = s.inbox[j] \/ InboxMoves(s, t, j)
      /\ Calm(s, f, t) /\ Created(t) = Created(s)
  <2>1. Tells(s, f, t, k) BY Zenon DEF Tells
  <2>2. Rewrites(s, f, t, k, r) BY <2>1, <1>1, <1>2, <1>3, <1>5, <1>6, <1>7 DEF Rewrites
  <2>. QED BY <2>2, InboxStep, Zenon
<1>9. Aside(s, t) BY <1>7, <1>8, MakeAside, Zenon
<1>10. Counted(t) BY <1>7, <1>8, SameCount, Zenon DEF Spent
<1>11. Effect(s, f, t) BY <1>7, Zenon DEF Effect
<1>. QED BY <1>6, <1>7, <1>8, <1>9, <1>10, <1>11, AsideStep, Zenon DEF t

LEMMA PolicyStep ==
  ASSUME NEW s, NEW f, Good(s), f.t = "policy", FrameOK(s, f), PolicyOK(s, f)
  PROVE  StepOK(s, f, Policy(s, f))
<1>. DEFINE k == f.topic  i == s.inbox[k]
            r == [i EXCEPT !.policyRev = f.rev + 1, !.policy = f.policy]
            t == Policy(s, f)
<1>1. k \in Topics /\ f.rev + 1 \in Nat /\ f.policy \in {"visible", "suppressed"}
  BY DEF FrameOK
<1>2. /\ s \in States /\ i \in Inboxes /\ i # None /\ i = s.inbox[k]
  BY <1>1, Zenon DEF Good, PolicyOK, States
<1>3. t = [s EXCEPT !.inbox = [s.inbox EXCEPT ![k] = r]] BY <1>1, <1>2, Zenon DEF Policy, States
<1>4. i.obj = "expired" => s.floor > i.lease + Grace BY <1>1, <1>2, Zenon DEF Good, Bounded, InboxOK
<1>. HIDE DEF i, t
<1>5. /\ r \in Inboxes /\ r.visible = i.visible /\ r.alloc = i.alloc
      /\ r.lease = i.lease /\ r.obj = i.obj /\ i.lease \in Nat /\ r.policy = f.policy
  BY <1>1, <1>2, Zenon DEF Inboxes
<1>. HIDE DEF r
<1>6. t \in States BY <1>1, <1>2, <1>3, <1>5, Zenon DEF States
<1>7. /\ t.inbox = [s.inbox EXCEPT ![k] = r] /\ t.spends = s.spends /\ t.frames = s.frames
      /\ t.pins = s.pins /\ t.floor = s.floor /\ t.closes = s.closes /\ t.acct = s.acct
  BY <1>2, <1>3, Zenon DEF States
<1>8. /\ \A j \in Topics : t.inbox[j] = s.inbox[j] \/ InboxMoves(s, t, j)
      /\ Calm(s, f, t) /\ Created(t) = Created(s)
  <2>1. r.policy = "visible" \/ Tells(s, f, t, k) BY <1>1, <1>5, Zenon DEF Tells
  <2>2. Rewrites(s, f, t, k, r) BY <2>1, <1>1, <1>2, <1>4, <1>5, <1>6, <1>7 DEF Rewrites
  <2>. QED BY <2>2, InboxStep, Zenon
<1>9. Aside(s, t) BY <1>7, <1>8, MakeAside, Zenon
<1>10. Counted(t) BY <1>7, <1>8, SameCount, Zenon DEF Spent
<1>11. Effect(s, f, t) BY <1>7, Zenon DEF Effect
<1>. QED BY <1>6, <1>7, <1>8, <1>9, <1>10, <1>11, AsideStep, Zenon DEF t

LEMMA FloorStep ==
  ASSUME NEW s, NEW f, Good(s), f.t = "floor", FrameOK(s, f), FloorOK(s, f)
  PROVE  StepOK(s, f, Floor(s, f))
<1>. DEFINE t == Floor(s, f)
<1>1. s \in States /\ f.new \in Nat /\ f.new >= s.floor BY Zenon DEF Good, FrameOK, FloorOK
<1>2. /\ t \in States /\ t.inbox = s.inbox /\ t.spends = s.spends /\ t.frames = s.frames
      /\ t.pins = s.pins /\ t.floor = f.new /\ t.closes = s.closes /\ t.acct = s.acct
  BY <1>1, Zenon DEF Floor, States
<1>. HIDE DEF t
<1>3. Aside(s, t) BY <1>1, <1>2, Zenon DEF Aside
<1>4. Counted(t) BY <1>2, SameCount, Zenon DEF Created, Spent
<1>5. Calm(s, f, t) BY <1>2, Zenon DEF Calm
<1>6. Effect(s, f, t) BY <1>2, Zenon DEF Effect
<1>. QED BY <1>2, <1>3, <1>4, <1>5, <1>6, AsideStep, Zenon DEF t

LEMMA IntegrityStep ==
  ASSUME NEW s, NEW f, Good(s), f.t = "integrity", FrameOK(s, f)
  PROVE  StepOK(s, f, Integrity(s, f))
<1>. DEFINE t == Integrity(s, f)
<1>1. s \in States /\ f.blob \in Objects BY Zenon DEF Good, FrameOK
<1>2. /\ t \in States /\ t.inbox = s.inbox /\ t.spends = s.spends /\ t.frames = s.frames
      /\ t.pins = s.pins /\ t.floor = s.floor /\ t.closes = s.closes /\ t.acct = s.acct
  BY <1>1, Zenon DEF Integrity, States
<1>. HIDE DEF t
<1>3. Aside(s, t) BY <1>1, <1>2, MakeAside, Zenon
<1>4. Counted(t) BY <1>2, SameCount, Zenon DEF Created, Spent
<1>5. Calm(s, f, t) BY <1>2, Zenon DEF Calm
<1>6. Effect(s, f, t) BY <1>2, Zenon DEF Effect
<1>. QED BY <1>2, <1>3, <1>4, <1>5, <1>6, AsideStep, Zenon DEF t

LEMMA ReadFinalStep ==
  ASSUME NEW s, NEW f, Good(s), f.t = "readfinal", FrameOK(s, f), ReadFinalOK(s, f)
  PROVE  StepOK(s, f, ReadFinal(s, f))
<1>. DEFINE p == f.spend  i == s.spends[p]
            e == [i EXCEPT !.status = "committed"]
            t == ReadFinal(s, f)
<1>1. p \in Spends /\ i # None /\ i.request.op \in {"charged", "watch"} BY Zenon DEF FrameOK, Pays
<1>2. s \in States /\ i = s.spends[p] /\ i \in Spendings /\ SpendOK(s, p)
  BY <1>1, Zenon DEF Good, States, Told
<1>3. t = [s EXCEPT !.spends = [s.spends EXCEPT ![p] = e]] BY <1>1, <1>2, Zenon DEF ReadFinal, States
<1>. HIDE DEF i, t
<1>4. e \in Spendings /\ e.status = "committed" /\ e.request = i.request BY <1>2, Zenon DEF Spendings
<1>5. e # None BY <1>4, NoneAssumption, Zenon
<1>. HIDE DEF e
<1>6. t \in States BY <1>1, <1>2, <1>3, <1>4, Zenon DEF States
<1>7. /\ t.inbox = s.inbox /\ t.frames = s.frames /\ t.pins = s.pins /\ t.floor = s.floor
      /\ t.closes = s.closes /\ t.acct = s.acct
  BY <1>2, <1>3, Zenon DEF States
<1>8. t.spends[p] = e /\ \A q \in Spends \ {p} : t.spends[q] = s.spends[q]
  BY <1>1, <1>2, <1>3, Zenon DEF States
<1>9. Aside(s, t)
  <2>1. SpendMoves(s, t, p) BY <1>1, <1>2, <1>4, <1>5, <1>8, Zenon DEF SpendMoves, SpendOK, Charged
  <2>. QED BY <2>1, <1>7, <1>8, MakeAside, Zenon
<1>10. Counted(t)
  <2>1. Spent(t) = Spent(s) /\ Created(t) = Created(s) BY <1>1, <1>2, <1>5, <1>7, <1>8, Zenon DEF Spent, Created
  <2>. QED BY <2>1, <1>7, SameCount, Zenon
<1>11. Calm(s, f, t) BY <1>7, Zenon DEF Calm
<1>12. Effect(s, f, t) BY <1>7, Zenon DEF Effect
<1>. QED BY <1>6, <1>7, <1>9, <1>10, <1>11, <1>12, AsideStep, Zenon DEF t

\* A pin is counted as one record, and one more for each of its frames.
LEMMA RecordsOfPin ==
  ASSUME NEW q \in Pins, IsFiniteSet(q.entries)
  PROVE  IsFiniteSet(RecordsOf(q)) /\ Cardinality(RecordsOf(q)) = Cardinality(q.entries) + 1
<1>. DEFINE S == q.entries \cup {None}
            g == [e \in S |-> <<q.spend, e>>]
<1>1. None \notin q.entries BY NoneAssumption, Zenon DEF Pins
<1>2. IsFiniteSet(S) /\ Cardinality(S) = Cardinality(q.entries) + 1 BY <1>1, PlusOne, Zenon
<1>3. g \in Bijection(S, RecordsOf(q))
  <2>1. g \in [S -> RecordsOf(q)] BY Zenon DEF RecordsOf
  <2>2. \A a, b \in S : g[a] = g[b] => a = b BY Zenon
  <2>3. \A u \in RecordsOf(q) : \E a \in S : g[a] = u BY Zenon DEF RecordsOf
  <2>. QED BY <2>1, <2>2, <2>3, Zenon DEF Bijection, Injection, Surjection, IsInjective
<1>4. ExistsBijection(S, RecordsOf(q)) BY <1>3, Zenon DEF ExistsBijection
<1>. QED BY <1>2, <1>4, FS_Bijection, Zenon

LEMMA DisjointSum ==
  ASSUME NEW S, NEW T, IsFiniteSet(S), IsFiniteSet(T), S \cap T = {}
  PROVE  IsFiniteSet(S \cup T) /\ Cardinality(S \cup T) = Cardinality(S) + Cardinality(T)
<1>1. Cardinality(S) \in Nat /\ Cardinality(T) \in Nat BY FS_CardinalityType, Zenon
<1>2. Cardinality(S \cap T) = 0 BY FS_EmptySet, Zenon
<1>3. /\ IsFiniteSet(S \cup T)
      /\ Cardinality(S \cup T) = Cardinality(S) + Cardinality(T) - Cardinality(S \cap T)
  BY FS_Union, Zenon
<1>. QED BY <1>1, <1>2, <1>3

\* The records of a pin are its own.
LEMMA OnePin ==
  ASSUME NEW s, NEW t, NEW q, t.pins = s.pins \cup {q}, \A p \in s.pins : p.spend # q.spend
  PROVE  Records(t) = Records(s) \cup RecordsOf(q) /\ Records(s) \cap RecordsOf(q) = {}
<1>1. Records(s) \cap RecordsOf(q) = {} BY DEF Records, RecordsOf
<1>2. Records(t) = Records(s) \cup RecordsOf(q) BY Zenon DEF Records
<1>. QED BY <1>1, <1>2, Zenon

LEMMA UnpinStep ==
  ASSUME NEW s, NEW f, Good(s), f.t = "unpin", FrameOK(s, f), UnpinOK(s, f)
  PROVE  StepOK(s, f, Unpin(s, f))
<1>. DEFINE p == f.spend  i == s.spends[p]
            q == CHOOSE x \in s.pins : x.spend = p
            e == [i EXCEPT !.status = IF i.status = "reserved" THEN "terminal" ELSE i.status]
            a == Charge(s.acct, 0, -1 - Cardinality(q.entries), 0)
            t == Unpin(s, f)
<1>1. p \in Spends /\ i # None /\ s \in States /\ s.acct \in Accounts /\ i = s.spends[p]
  BY Zenon DEF FrameOK, UnpinOK, HasStatus, Good, States
<1>2. q \in s.pins /\ q.spend = p BY Zenon DEF UnpinOK, PinOf
<1>3. i \in Spendings /\ SpendOK(s, p) /\ Charged(i.request.op)
  BY <1>1, <1>2, Zenon DEF Good, States, Told, Paired
<1>4. t = [s EXCEPT !.spends = [s.spends EXCEPT ![p] = e], !.pins = s.pins \ {q}, !.acct = a]
  BY <1>1, Zenon DEF Unpin, States
<1>5. /\ q \in Pins /\ IsFiniteSet(q.entries) BY <1>1, <1>2, Tally, Zenon DEF States
<1>6. Cardinality(q.entries) \in Nat BY <1>5, FS_CardinalityType, Zenon
<1>. HIDE DEF i, q, t
<1>7. e \in Spendings /\ e.status \in {i.status, "terminal"} /\ e.request = i.request
  BY <1>3, Zenon DEF Spendings
<1>8. /\ a \in Accounts /\ a.stored = s.acct.stored /\ a.tombs = s.acct.tombs
      /\ a.control = s.acct.control - (1 + Cardinality(q.entries))
  BY <1>1, <1>6 DEF Charge, Accounts
<1>9. e # None BY <1>7, NoneAssumption, Zenon
<1>. HIDE DEF e, a
<1>10. t \in States BY <1>1, <1>4, <1>7, <1>8, Zenon DEF States
<1>11. /\ t.inbox = s.inbox /\ t.frames = s.frames /\ t.pins = s.pins \ {q} /\ t.floor = s.floor
       /\ t.closes = s.closes /\ t.acct = a
  BY <1>1, <1>4, Zenon DEF States
<1>12. t.spends[p] = e /\ \A x \in Spends \ {p} : t.spends[x] = s.spends[x]
  BY <1>1, <1>4, Zenon DEF States
<1>13. Aside(s, t)
  <2>1. SpendMoves(s, t, p)
    BY <1>1, <1>3, <1>7, <1>9, <1>12, Zenon DEF SpendMoves, SpendOK, Charged
  <2>. QED BY <2>1, <1>11, <1>12, MakeAside, Zenon
<1>14. Counted(t)
  <2>1. Spent(t) = Spent(s) BY <1>1, <1>9, <1>12, Zenon DEF Spent
  <2>2. Created(t) = Created(s) BY <1>11, Zenon DEF Created
  <2>3. \A x \in t.pins : x.spend # q.spend BY <1>2, <1>11, Zenon DEF Good, Paired
  <2>4. s.pins = t.pins \cup {q} BY <1>2, <1>11, Zenon
  <2>5. Records(s) = Records(t) \cup RecordsOf(q) /\ Records(t) \cap RecordsOf(q) = {}
    BY <2>3, <2>4, OnePin, Zenon
  <2>6. IsFiniteSet(Records(s)) BY Tally, Zenon
  <2>7. IsFiniteSet(Records(t)) BY <2>5, <2>6, FS_Subset, Zenon
  <2>8. Cardinality(RecordsOf(q)) = Cardinality(q.entries) + 1 /\ IsFiniteSet(RecordsOf(q))
    BY <1>5, RecordsOfPin, Zenon
  <2>9. Cardinality(Records(s)) = Cardinality(Records(t)) + Cardinality(RecordsOf(q))
    BY <2>5, <2>7, <2>8, DisjointSum, Zenon
  <2>10. Cardinality(Records(t)) \in Nat BY <2>7, FS_CardinalityType, Zenon
  <2>11. \A x \in t.pins : IsFiniteSet(x.entries) BY <2>4, Tally, Zenon
  <2>. QED BY <2>1, <2>2, <2>7, <2>8, <2>9, <2>10, <2>11, <1>6, <1>8, <1>11, Tally DEF Counted
<1>15. Calm(s, f, t) BY <1>11, Zenon DEF Calm
<1>16. Effect(s, f, t) BY <1>11, Zenon DEF Effect
<1>17. t.pins \subseteq s.pins BY <1>11, Zenon
<1>. QED BY <1>10, <1>13, <1>14, <1>15, <1>16, <1>17, AsideStep, Zenon DEF t

\* A pin is accepted only with frames that are there.
LEMMA PinStep ==
  ASSUME NEW s, NEW f, Good(s), f.t = "pin", FrameOK(s, f), PinOK(s, f)
  PROVE  StepOK(s, f, Pin(s, f))
<1>. DEFINE p == f.request.spend
            q == [spend |-> p, topic |-> f.request.topic, entries |-> f.entries]
            e == Entry("reserved", f.request, 0, f.epoch)
            a == Charge(s.acct, 0, 2 + Cardinality(f.entries), 0)
            t == Pin(s, f)
<1>1. /\ f.request \in Requests /\ f.request.op \in {"charged", "watch"} /\ f.epoch \in Nat
      /\ f.entries \subseteq PageEntries /\ IsFiniteSet(f.entries)
  BY Zenon DEF FrameOK, Charged
<1>2. p \in Spends /\ f.request.topic \in Topics BY <1>1, RequestTypes, Zenon
<1>3. s \in States /\ s.acct \in Accounts /\ s.spends[p] = None BY Zenon DEF Good, States, PinOK, Fresh
<1>4. q \in Pins /\ q.spend = p /\ q.topic = f.request.topic /\ q.entries = f.entries
  BY <1>1, <1>2, Zenon DEF Pins
<1>5. e \in Spendings /\ e.status = "reserved" /\ e.request = f.request BY <1>1, Zenon DEF Entry, Spendings
<1>6. e # None BY <1>5, NoneAssumption, Zenon
<1>7. Cardinality(f.entries) \in Nat BY <1>1, FS_CardinalityType, Zenon
<1>8. /\ a \in Accounts /\ a.stored = s.acct.stored /\ a.tombs = s.acct.tombs
      /\ a.control = s.acct.control + (2 + Cardinality(f.entries))
  BY <1>3, <1>7 DEF Charge, Accounts
<1>9. t = [s EXCEPT !.spends = [s.spends EXCEPT ![p] = e], !.pins = s.pins \cup {q}, !.acct = a]
  BY <1>3, Zenon DEF Pin, States
<1>. HIDE DEF q, e, a, t
<1>10. t \in States BY <1>2, <1>3, <1>4, <1>5, <1>8, <1>9, Zenon DEF States
<1>11. /\ t.inbox = s.inbox /\ t.frames = s.frames /\ t.pins = s.pins \cup {q} /\ t.floor = s.floor
       /\ t.closes = s.closes /\ t.acct = a
  BY <1>3, <1>9, Zenon DEF States
<1>12. t.spends[p] = e /\ \A x \in Spends \ {p} : t.spends[x] = s.spends[x]
  BY <1>2, <1>3, <1>9, Zenon DEF States
<1>13. Aside(s, t)
  <2>1. SpendMoves(s, t, p)
    BY <1>1, <1>3, <1>5, <1>6, <1>12, Zenon DEF SpendMoves, SpendOK, Charged
  <2>. QED BY <2>1, <1>11, <1>12, MakeAside, Zenon
<1>14. \A x \in s.pins : x.spend # p /\ x.spend \in Spends BY <1>3, Zenon DEF Good, Paired, States, Pins
<1>15. Paired(t)
  <2>1. \A x \in t.pins : t.spends[x.spend] # None /\ Charged(t.spends[x.spend].request.op)
    <3>. SUFFICES ASSUME NEW x \in t.pins
                  PROVE  t.spends[x.spend] # None /\ Charged(t.spends[x.spend].request.op)
      BY Zenon
    <3>1. CASE x = q BY <3>1, <1>1, <1>4, <1>5, <1>6, <1>12, Zenon DEF Charged
    <3>2. CASE x \in s.pins BY <3>2, <1>12, <1>14, Zenon DEF Good, Paired
    <3>. QED BY <3>1, <3>2, <1>11, Zenon
  <2>2. \A x, y \in t.pins : x.spend = y.spend => x = y
    BY <1>4, <1>11, <1>14, Zenon DEF Good, Paired
  <2>. QED BY <2>1, <2>2, Zenon DEF Paired
<1>16. Held(t)
  <2>. SUFFICES ASSUME NEW x \in t.pins, NEW y \in x.entries
                PROVE  \E z \in s.frames : z.topic = x.topic /\ z.rev = y.rev /\ z.blob = y.blob
    BY <1>11, Zenon DEF Held
  <2>1. CASE x \in s.pins BY <2>1, Zenon DEF Good, Held
  <2>2. CASE x = q BY <1>4, <2>2, Zenon DEF PinOK
  <2>. QED BY <2>1, <2>2, <1>11, Zenon
<1>17. Counted(t)
  <2>1. Spent(t) = Spent(s) \cup {p} /\ p \notin Spent(s) BY <1>2, <1>3, <1>6, <1>12 DEF Spent
  <2>2. IsFiniteSet(Spent(s)) /\ IsFiniteSet(Records(s)) BY Tally, Zenon
  <2>3. Cardinality(Spent(t)) = Cardinality(Spent(s)) + 1 BY <2>1, <2>2, PlusOne, Zenon
  <2>4. Created(t) = Created(s) BY <1>11, Zenon DEF Created
  <2>5. \A x \in s.pins : x.spend # q.spend BY <1>4, <1>14, Zenon
  <2>6. Records(t) = Records(s) \cup RecordsOf(q) /\ Records(s) \cap RecordsOf(q) = {}
    BY <2>5, <1>11, OnePin, Zenon
  <2>7. Cardinality(RecordsOf(q)) = Cardinality(f.entries) + 1 /\ IsFiniteSet(RecordsOf(q))
    BY <1>1, <1>4, RecordsOfPin, Zenon
  <2>8. /\ IsFiniteSet(Records(t))
        /\ Cardinality(Records(t)) = Cardinality(Records(s)) + Cardinality(RecordsOf(q))
    BY <2>2, <2>6, <2>7, DisjointSum, Zenon
  <2>9. \A x \in t.pins : IsFiniteSet(x.entries) BY <1>1, <1>4, <1>11, Tally, Zenon
  <2>. QED BY <2>3, <2>4, <2>7, <2>8, <2>9, <1>7, <1>8, <1>11, Tally DEF Counted
<1>18. Calm(s, f, t) BY <1>11, Zenon DEF Calm
<1>19. Effect(s, f, t) BY <1>11, Zenon DEF Effect
<1>. QED BY <1>10, <1>13, <1>15, <1>16, <1>17, <1>18, <1>19, AsideGood, Zenon DEF StepOK, Good, t

\* An append stores the next revision, which no reader sees before it is acknowledged.
LEMMA AppendStep ==
  ASSUME NEW s, NEW f, Good(s), f.t = "append", FrameOK(s, f), AppendOK(s, f)
  PROVE  StepOK(s, f, AppendFrame(s, f))
<1>. DEFINE k == f.request.topic  p == f.request.spend  i == s.inbox[k]
            n == [topic |-> k, rev |-> f.rev, spend |-> p, blob |-> f.blob, expires |-> f.expires]
            r == [i EXCEPT !.alloc = f.rev]
            e == Entry("provisional", f.request, f.rev, f.epoch)
            a == Charge(s.acct, 1, 1, 0)
            t == AppendFrame(s, f)
<1>1. /\ f.request \in Requests /\ f.request.op = "append" /\ f.epoch \in Nat /\ f.rev \in Nat
      /\ f.blob \in Objects /\ f.expires \in Nat /\ f.expires > f.epoch
  BY Zenon DEF FrameOK
<1>2. k \in Topics /\ p \in Spends BY <1>1, RequestTypes, Zenon
<1>3. /\ s \in States /\ i \in Inboxes /\ i # None /\ s.spends[p] = None /\ s.acct \in Accounts
      /\ i = s.inbox[k] /\ f.rev = i.alloc + 1
      /\ \A x \in s.frames : x.topic = k => x.rev # f.rev
  BY <1>2, Zenon DEF Good, AppendOK, Present, Fresh, States
<1>4. t = [s EXCEPT !.spends = [s.spends EXCEPT ![p] = e], !.inbox = [s.inbox EXCEPT ![k] = r],
                    !.frames = s.frames \cup {n}, !.acct = a]
  BY <1>2, <1>3, Zenon DEF AppendFrame, States
<1>5. i.visible <= i.alloc /\ (i.obj = "expired" => s.floor > i.lease + Grace)
  BY <1>2, <1>3, Zenon DEF Good, Bounded, InboxOK
<1>. HIDE DEF i, t
<1>6. /\ r \in Inboxes /\ r.visible = i.visible /\ r.alloc = i.alloc + 1 /\ r.obj = i.obj
      /\ r.lease = i.lease /\ r.policy = i.policy
      /\ i.lease \in Nat /\ i.alloc \in Nat /\ i.visible \in Nat
  BY <1>1, <1>3, Zenon DEF Inboxes
<1>7. /\ e \in Spendings /\ e.status = "provisional" /\ e.request = f.request /\ e.epoch = f.epoch
  BY <1>1, Zenon DEF Entry, Spendings
<1>8. /\ n \in FrameRecords /\ n.topic = k /\ n.rev = f.rev /\ n.spend = p /\ n.blob = f.blob
      /\ n.expires = f.expires
  BY <1>1, <1>2, Zenon DEF FrameRecords
<1>9. /\ a \in Accounts /\ a.stored = s.acct.stored + 1 /\ a.control = s.acct.control + 1
      /\ a.tombs = s.acct.tombs
  BY <1>3 DEF Charge, Accounts
<1>10. r # None /\ e # None BY <1>6, <1>7, NoneAssumption, Zenon
<1>. HIDE DEF r, e, a, n
<1>11. t \in States BY <1>2, <1>3, <1>4, <1>6, <1>7, <1>8, <1>9, Zenon DEF States
<1>12. /\ t.acct = a /\ t.frames = s.frames \cup {n} /\ t.pins = s.pins /\ t.closes = s.closes
       /\ t.floor = s.floor
  BY <1>3, <1>4, Zenon DEF States
<1>13. t.spends[p] = e /\ \A q \in Spends \ {p} : t.spends[q] = s.spends[q]
  BY <1>2, <1>3, <1>4, Zenon DEF States
<1>14. t.inbox[k] = r /\ \A j \in Topics \ {k} : t.inbox[j] = s.inbox[j]
  BY <1>2, <1>3, <1>4, Zenon DEF States
<1>15. \A x \in s.frames : x.spend \in Spends \ {p} /\ x.topic \in Topics /\ x.rev \in Nat
  BY <1>3 DEF Good, Placed, States, FrameRecords
<1>16. Placed(t)
  <2>. SUFFICES ASSUME NEW x \in t.frames
                PROVE  /\ t.inbox[x.topic] # None /\ x.rev >= 1 /\ x.rev <= t.inbox[x.topic].alloc
                       /\ t.spends[x.spend] # None /\ t.spends[x.spend].status \in {"provisional", "committed"}
                       /\ t.spends[x.spend].request.op = "append"
                       /\ t.spends[x.spend].request.topic = x.topic
                       /\ x.expires > t.spends[x.spend].epoch
    BY Zenon DEF Placed
  <2>1. CASE x = n BY <2>1, <1>1, <1>3, <1>6, <1>7, <1>8, <1>10, <1>13, <1>14
  <2>2. CASE x \in s.frames
    <3>1. /\ s.inbox[x.topic] # None /\ x.rev >= 1 /\ x.rev <= s.inbox[x.topic].alloc
          /\ s.spends[x.spend] # None /\ s.spends[x.spend].status \in {"provisional", "committed"}
          /\ s.spends[x.spend].request.op = "append"
          /\ s.spends[x.spend].request.topic = x.topic
          /\ x.expires > s.spends[x.spend].epoch
      BY <2>2, Zenon DEF Good, Placed
    <3>2. t.spends[x.spend] = s.spends[x.spend] BY <2>2, <1>13, <1>15, Zenon
    <3>3. t.inbox[x.topic] # None /\ x.rev <= t.inbox[x.topic].alloc
      <4>1. CASE x.topic = k
        <5>1. t.inbox[x.topic] = r /\ r # None BY <4>1, <1>10, <1>14, Zenon
        <5>2. x.rev <= i.alloc BY <4>1, <3>1, <1>3, Zenon
        <5>3. x.rev \in Nat BY <2>2, <1>15, Zenon
        <5>4. x.rev <= r.alloc BY <5>2, <5>3, <1>6
        <5>. QED BY <5>1, <5>4, Zenon
      <4>2. CASE x.topic # k
        <5>1. t.inbox[x.topic] = s.inbox[x.topic] BY <4>2, <2>2, <1>14, <1>15, Zenon
        <5>. QED BY <5>1, <3>1, Zenon
      <4>. QED BY <4>1, <4>2, Zenon
    <3>. QED BY <3>1, <3>2, <3>3, Zenon
  <2>. QED BY <2>1, <2>2, <1>12, Zenon
<1>17. Distinct(t)
  <2>1. \A x, y \in s.frames : x.spend = y.spend \/ (x.topic = y.topic /\ x.rev = y.rev) => x = y
    BY Zenon DEF Good, Distinct
  <2>. QED BY <2>1, <1>3, <1>8, <1>12, <1>15 DEF Distinct
<1>18. Told(t)
  <2>. SUFFICES ASSUME NEW q \in Spends, t.spends[q] # None PROVE SpendOK(t, q)
    BY Zenon DEF Told
  <2>1. CASE q = p BY <2>1, <1>1, <1>7, <1>8, <1>12, <1>13, Zenon DEF SpendOK, Charged
  <2>2. CASE q # p
    <3>1. SpendOK(s, q) /\ t.spends[q] = s.spends[q] BY <2>2, <1>13, Zenon DEF Good, Told
    <3>. QED BY <3>1, <1>12, Zenon DEF SpendOK
  <2>. QED BY <2>1, <2>2, Zenon
<1>19. Bounded(t)
  <2>. SUFFICES ASSUME NEW j \in Topics, t.inbox[j] # None PROVE InboxOK(t, j)
    BY Zenon DEF Bounded
  <2>1. CASE j = k BY <2>1, <1>5, <1>6, <1>12, <1>14 DEF InboxOK
  <2>2. CASE j # k BY <2>2, <1>12, <1>14, Zenon DEF Good, Bounded, InboxOK
  <2>. QED BY <2>1, <2>2, Zenon
<1>20. Paired(t)
  <2>1. \A x \in s.pins : x.spend \in Spends \ {p} BY <1>3, Zenon DEF Good, Paired, States, Pins
  <2>. QED BY <2>1, <1>12, <1>13, Zenon DEF Good, Paired
<1>21. Held(t) BY <1>12 DEF Good, Held
<1>22. Prefixed(t)
  <2>1. \A j \in Topics : t.inbox[j] # None => s.inbox[j] # None /\ t.inbox[j].visible = s.inbox[j].visible
    BY <1>3, <1>6, <1>14, Zenon
  <2>2. \A x \in s.frames : t.spends[x.spend] = s.spends[x.spend] BY <1>13, <1>15, Zenon
  <2>. SUFFICES ASSUME NEW j \in Topics, t.inbox[j] # None
                PROVE  /\ \A x \in t.frames : x.topic = j /\ x.rev <= t.inbox[j].visible =>
                                              ~HasStatus(t, x.spend, {"provisional"})
                       /\ ~Settled(t, j, t.inbox[j].visible + 1)
    BY Zenon DEF Prefixed
  <2>3. /\ \A x \in s.frames : x.topic = j /\ x.rev <= s.inbox[j].visible =>
                               ~HasStatus(s, x.spend, {"provisional"})
        /\ ~Settled(s, j, s.inbox[j].visible + 1)
    BY <2>1, Zenon DEF Good, Prefixed
  <2>4. ~Settled(t, j, t.inbox[j].visible + 1)
    BY <2>1, <2>2, <2>3, <1>7, <1>8, <1>12, <1>13 DEF Settled, HasStatus
  <2>5. ~ (n.topic = j /\ n.rev <= t.inbox[j].visible) BY <1>3, <1>5, <1>6, <1>8, <1>14
  <2>6. \A x \in t.frames : x.topic = j /\ x.rev <= t.inbox[j].visible =>
                            ~HasStatus(t, x.spend, {"provisional"})
    BY <2>1, <2>2, <2>3, <2>5, <1>12, Zenon DEF HasStatus
  <2>. QED BY <2>4, <2>6, Zenon
<1>23. Counted(t)
  <2>1. Spent(t) = Spent(s) \cup {p} /\ p \notin Spent(s) BY <1>2, <1>3, <1>10, <1>13, Zenon DEF Spent
  <2>2. n \notin s.frames BY <1>8, <1>15, Zenon
  <2>3. IsFiniteSet(s.frames) /\ IsFiniteSet(Spent(s)) BY Tally, Zenon
  <2>4. Cardinality(Spent(t)) = Cardinality(Spent(s)) + 1 BY <2>1, <2>3, PlusOne, Zenon
  <2>8. t.frames = s.frames \cup {n} BY <1>12, Zenon
  <2>5. IsFiniteSet(t.frames) /\ Cardinality(t.frames) = Cardinality(s.frames) + 1
    BY <2>2, <2>3, <2>8, PlusOne, Zenon
  <2>6. Records(t) = Records(s) BY <1>12, Zenon DEF Records
  <2>7. Created(t) = Created(s) BY <1>2, <1>3, <1>10, <1>14, Zenon DEF Created
  <2>. QED BY <2>4, <2>5, <2>6, <2>7, <1>9, <1>12, Tally DEF Counted
<1>24. Later(s, t)
  <2>1. s.floor \in Nat /\ \A j \in Topics : s.inbox[j] # None => s.inbox[j].lease \in Nat
    BY <1>3, Zenon DEF States, Inboxes
  <2>2. \A q \in Spends : s.spends[q] # None => t.spends[q] = s.spends[q] BY <1>3, <1>13, Zenon
  <2>3. \A j \in Topics : s.inbox[j] # None => t.inbox[j] # None /\ t.inbox[j].lease = s.inbox[j].lease
    BY <1>3, <1>6, <1>10, <1>14, Zenon
  <2>. QED BY <2>1, <2>2, <2>3, <1>12 DEF Later
<1>25. Calm(s, f, t) BY <1>3, <1>6, <1>14, Zenon DEF Calm
<1>26. Effect(s, f, t) BY <1>7, <1>8, <1>10, <1>12, <1>13, Zenon DEF Effect
<1>. QED BY <1>11, <1>16, <1>17, <1>18, <1>19, <1>20, <1>21, <1>22, <1>23, <1>24, <1>25, <1>26, Zenon
         DEF StepOK, Good, t

\* A frame is removed after its retention, and never one that a pin names.
LEMMA ExpireStep ==
  ASSUME NEW s, NEW f, Good(s), f.t = "expire", FrameOK(s, f), ExpireOK(s, f)
  PROVE  StepOK(s, f, Expire(s, f))
<1>. DEFINE g == f.frame  p == g.spend  i == s.spends[p]
            e == [i EXCEPT !.status = "expired"]
            a == Charge(s.acct, -1, 0, 0)
            t == Expire(s, f)
<1>1. /\ g \in s.frames /\ i # None /\ i.status = "committed" /\ g.expires <= f.epoch
      /\ f.epoch \in Nat /\ f.epoch <= s.floor
  BY Zenon DEF ExpireOK, HasStatus, FrameOK
<1>2. /\ s \in States /\ s.acct \in Accounts /\ g \in FrameRecords /\ i = s.spends[p]
  BY <1>1, Zenon DEF Good, States
<1>3. p \in Spends /\ g.expires \in Nat /\ s.floor \in Nat BY <1>2, Zenon DEF FrameRecords, States
<1>4. i \in Spendings /\ i.request.op = "append" /\ g.expires > i.epoch /\ SpendOK(s, p)
  BY <1>1, <1>2, <1>3, Zenon DEF Good, Placed, Told, States
<1>5. t = [s EXCEPT !.spends = [s.spends EXCEPT ![p] = e], !.frames = s.frames \ {g}, !.acct = a]
  BY <1>2, <1>3, Zenon DEF Expire, States
<1>6. \A x \in s.frames : x.spend \in Spends /\ x.topic \in Topics BY <1>2, Zenon DEF States, FrameRecords
<1>. HIDE DEF i, t
<1>7. e \in Spendings /\ e.status = "expired" /\ e.request = i.request /\ e.epoch = i.epoch /\ i.epoch \in Nat
  BY <1>4, Zenon DEF Spendings
<1>8. a \in Accounts /\ a.stored = s.acct.stored - 1 /\ a.control = s.acct.control /\ a.tombs = s.acct.tombs
  BY <1>2 DEF Charge, Accounts
<1>9. e # None BY <1>7, NoneAssumption, Zenon
<1>. HIDE DEF e, a
<1>10. t \in States BY <1>2, <1>3, <1>5, <1>7, <1>8, Zenon DEF States
<1>11. /\ t.inbox = s.inbox /\ t.frames = s.frames \ {g} /\ t.pins = s.pins /\ t.floor = s.floor
       /\ t.closes = s.closes /\ t.acct = a
  BY <1>2, <1>5, Zenon DEF States
<1>12. t.spends[p] = e /\ \A x \in Spends \ {p} : t.spends[x] = s.spends[x]
  BY <1>2, <1>3, <1>5, Zenon DEF States
<1>13. \A x \in t.frames : x \in s.frames /\ x.spend # p /\ t.spends[x.spend] = s.spends[x.spend]
  BY <1>1, <1>6, <1>11, <1>12, Zenon DEF Good, Distinct
<1>14. Placed(t) BY <1>11, <1>13 DEF Good, Placed
<1>15. Distinct(t) BY <1>13, Zenon DEF Good, Distinct
<1>16. Told(t)
  <2>. SUFFICES ASSUME NEW q \in Spends, t.spends[q] # None PROVE SpendOK(t, q)
    BY Zenon DEF Told
  <2>1. CASE q = p
    <3>1. s.floor > i.epoch BY <1>1, <1>3, <1>4, <1>7
    <3>2. i.request.spend = p BY <1>2, <1>4, Zenon DEF SpendOK
    <3>. QED BY <2>1, <3>1, <3>2, <1>4, <1>7, <1>11, <1>12, Zenon DEF SpendOK, Charged
  <2>2. CASE q # p
    <3>1. SpendOK(s, q) /\ t.spends[q] = s.spends[q] BY <2>2, <1>12, Zenon DEF Good, Told
    <3>2. \A x \in s.frames : x.spend = q => x \in t.frames BY <2>2, <1>11, Zenon
    <3>. QED BY <3>1, <3>2, <1>11, Zenon DEF SpendOK
  <2>. QED BY <2>1, <2>2, Zenon
<1>17. Bounded(t) BY <1>11, Zenon DEF Good, Bounded, InboxOK
<1>18. Paired(t)
  <2>1. \A x \in s.pins : x.spend \in Spends BY <1>2, Zenon DEF States, Pins
  <2>2. \A x \in s.pins : x.spend # p BY <1>2, <1>4, Zenon DEF Good, Paired, Charged
  <2>. QED BY <2>1, <2>2, <1>11, <1>12 DEF Good, Paired
<1>19. Held(t) BY <1>11 DEF Good, Held, ExpireOK, Pinned
<1>20. Prefixed(t) BY <1>11, <1>13 DEF Good, Prefixed, Settled, HasStatus
<1>21. Counted(t)
  <2>1. Spent(t) = Spent(s) /\ Created(t) = Created(s) /\ Records(t) = Records(s)
    BY <1>1, <1>2, <1>3, <1>9, <1>11, <1>12, Zenon DEF Spent, Created, Records
  <2>2. s.frames = t.frames \cup {g} /\ g \notin t.frames BY <1>1, <1>11, Zenon
  <2>3. IsFiniteSet(t.frames) BY <2>2, Tally, FS_Subset, Zenon
  <2>4. Cardinality(s.frames) = Cardinality(t.frames) + 1 BY <2>2, <2>3, PlusOne, Zenon
  <2>5. Cardinality(t.frames) \in Nat BY <2>3, FS_CardinalityType, Zenon
  <2>. QED BY <2>1, <2>3, <2>4, <2>5, <1>8, <1>11, Tally DEF Counted
<1>22. Later(s, t)
  <2>1. \A j \in Topics : s.inbox[j] # None => s.inbox[j].lease \in Nat BY <1>2, Zenon DEF States, Inboxes
  <2>2. \A q \in Spends : s.spends[q] # None =>
          /\ t.spends[q] # None /\ t.spends[q].request = s.spends[q].request
          /\ s.spends[q].status # "provisional" => t.spends[q].status # "provisional"
    BY <1>2, <1>7, <1>9, <1>12, Zenon
  <2>. QED BY <2>1, <2>2, <1>3, <1>11 DEF Later
<1>23. Calm(s, f, t) BY <1>11, Zenon DEF Calm
<1>24. Effect(s, f, t) BY <1>11, Zenon DEF Effect
<1>. QED BY <1>10, <1>14, <1>15, <1>16, <1>17, <1>18, <1>19, <1>20, <1>21, <1>22, <1>23, <1>24, Zenon
         DEF StepOK, Good, t

\* Once an append is acknowledged, readers see the revisions up to the first that is not.
LEMMA FinalStep ==
  ASSUME NEW s, NEW f, Good(s), f.t = "final", FrameOK(s, f), FinalOK(s, f)
  PROVE  StepOK(s, f, Final(s, f))
<1>. DEFINE p == f.spend  i == s.spends[p]  k == i.request.topic  j == s.inbox[k]
            e == [i EXCEPT !.status = "committed"]
            d == [s EXCEPT !.spends = [s.spends EXCEPT ![p] = e]]
            m == Prefix(d, k)
            r == [j EXCEPT !.visible = m]
            t == Final(s, f)
<1>1. p \in Spends /\ i # None /\ i.request.op = "append" /\ i.status = "provisional"
  BY Zenon DEF FrameOK, Pays, FinalOK, HasStatus
<1>2. s \in States /\ i = s.spends[p] /\ i \in Spendings /\ SpendOK(s, p)
  BY <1>1, Zenon DEF Good, States, Told
<1>3. PICK g \in s.frames : g.spend = p BY <1>1, <1>2, Zenon DEF SpendOK
<1>4. j # None /\ j = s.inbox[k] BY <1>2, <1>3, Zenon DEF Good, Placed
<1>5. k \in Topics /\ i.request \in Requests BY <1>2, RequestTypes, Zenon DEF Spendings
<1>6. j \in Inboxes /\ j.visible <= j.alloc /\ (j.obj = "expired" => s.floor > j.lease + Grace)
  BY <1>2, <1>4, <1>5, Zenon DEF Good, States, Bounded, InboxOK
<1>7. t = [d EXCEPT !.inbox[k].visible = m] BY <1>1, <1>2, Zenon DEF Final, States
<1>8. /\ d.inbox = s.inbox /\ d.frames = s.frames /\ d.spends = [s.spends EXCEPT ![p] = e]
      /\ d = [s EXCEPT !.spends = [s.spends EXCEPT ![p] = e]]
  BY <1>2, Zenon DEF States
<1>. HIDE DEF d, m, t
<1>9. t = [s EXCEPT !.spends = [s.spends EXCEPT ![p] = e], !.inbox = [s.inbox EXCEPT ![k] = r]]
  BY <1>2, <1>4, <1>5, <1>7, <1>8, Zenon DEF States
<1>10. /\ m \in j.visible..j.alloc /\ \A w \in (j.visible + 1)..m : Settled(d, k, w)
       /\ m = j.alloc \/ ~Settled(d, k, m + 1)
  <2>1. d.inbox[k] = j BY <1>4, <1>8, Zenon
  <2>. QED BY <2>1, <1>6, PrefixIs, Zenon DEF m
<1>. HIDE DEF i, j
<1>11. e \in Spendings /\ e.status = "committed" /\ e.request = i.request /\ e.epoch = i.epoch
  BY <1>2, Zenon DEF Spendings
<1>12. /\ r \in Inboxes /\ r.visible = m /\ r.alloc = j.alloc /\ r.obj = j.obj /\ r.lease = j.lease
       /\ r.policy = j.policy /\ j.visible \in Nat /\ j.alloc \in Nat /\ m \in Nat /\ m <= j.alloc
  BY <1>6, <1>10 DEF Inboxes
<1>13. m = j.visible => r = j BY <1>6, Zenon DEF Inboxes
<1>14. r # None /\ e # None BY <1>11, <1>12, NoneAssumption, Zenon
<1>. HIDE DEF r, e
<1>15. t \in States BY <1>1, <1>2, <1>5, <1>9, <1>11, <1>12, Zenon DEF States
<1>16. /\ t.acct = s.acct /\ t.frames = s.frames /\ t.pins = s.pins /\ t.closes = s.closes
       /\ t.floor = s.floor /\ t.spends = d.spends
  BY <1>2, <1>8, <1>9, Zenon DEF States
<1>17. t.spends[p] = e /\ \A q \in Spends \ {p} : t.spends[q] = s.spends[q]
  BY <1>1, <1>2, <1>9, Zenon DEF States
<1>18. t.inbox[k] = r /\ \A q \in Topics \ {k} : t.inbox[q] = s.inbox[q]
  BY <1>2, <1>5, <1>9, Zenon DEF States
<1>19. \A x \in s.frames : x.spend \in Spends /\ x.topic \in Topics /\ x.rev \in Nat
  BY <1>2, Zenon DEF States, FrameRecords
<1>20. /\ \A q \in Spends : s.spends[q] # None =>
            /\ t.spends[q] # None /\ t.spends[q].request = s.spends[q].request
            /\ t.spends[q].epoch = s.spends[q].epoch
            /\ t.spends[q].status \in {s.spends[q].status, "committed"}
       /\ \A q \in Spends : t.spends[q] # None => s.spends[q] # None
  BY <1>1, <1>2, <1>11, <1>14, <1>17, Zenon
<1>21. Placed(t)
  <2>1. \A q \in Topics : s.inbox[q] # None => t.inbox[q] # None /\ t.inbox[q].alloc = s.inbox[q].alloc
    BY <1>4, <1>12, <1>14, <1>18, Zenon
  <2>2. ASSUME NEW x \in s.frames
        PROVE  /\ t.inbox[x.topic] # None /\ x.rev >= 1 /\ x.rev <= t.inbox[x.topic].alloc
               /\ t.spends[x.spend] # None /\ t.spends[x.spend].status \in {"provisional", "committed"}
               /\ t.spends[x.spend].request.op = "append" /\ t.spends[x.spend].request.topic = x.topic
               /\ x.expires > t.spends[x.spend].epoch
    <3>1. x.spend \in Spends /\ x.topic \in Topics BY <1>19, Zenon
    <3>2. /\ s.inbox[x.topic] # None /\ x.rev >= 1 /\ x.rev <= s.inbox[x.topic].alloc
          /\ s.spends[x.spend] # None /\ s.spends[x.spend].status \in {"provisional", "committed"}
          /\ s.spends[x.spend].request.op = "append" /\ s.spends[x.spend].request.topic = x.topic
          /\ x.expires > s.spends[x.spend].epoch
      BY Zenon DEF Good, Placed
    <3>. QED BY <2>1, <1>20, <3>1, <3>2, Zenon
  <2>. QED BY <2>2, <1>16, Zenon DEF Placed
<1>22. Distinct(t) BY <1>16, Zenon DEF Good, Distinct
<1>23. Told(t)
  <2>. SUFFICES ASSUME NEW q \in Spends, t.spends[q] # None PROVE SpendOK(t, q)
    BY Zenon DEF Told
  <2>1. CASE q = p BY <2>1, <1>1, <1>2, <1>3, <1>11, <1>16, <1>17, Zenon DEF SpendOK, Charged
  <2>2. CASE q # p
    <3>1. SpendOK(s, q) /\ t.spends[q] = s.spends[q] BY <2>2, <1>17, Zenon DEF Good, Told
    <3>. QED BY <3>1, <1>16, Zenon DEF SpendOK
  <2>. QED BY <2>1, <2>2, Zenon
<1>24. Bounded(t)
  <2>. SUFFICES ASSUME NEW q \in Topics, t.inbox[q] # None PROVE InboxOK(t, q)
    BY Zenon DEF Bounded
  <2>1. CASE q = k BY <2>1, <1>6, <1>12, <1>16, <1>18, Zenon DEF InboxOK
  <2>2. CASE q # k BY <2>2, <1>16, <1>18, Zenon DEF Good, Bounded, InboxOK
  <2>. QED BY <2>1, <2>2, Zenon
<1>25. Paired(t)
  <2>1. \A x \in s.pins : x.spend \in Spends BY <1>2, Zenon DEF States, Pins
  <2>. QED BY <2>1, <1>16, <1>20, Zenon DEF Good, Paired
<1>26. Held(t) BY <1>16 DEF Good, Held
<1>27. \A q \in Topics, w \in Nat : Settled(t, q, w) <=> Settled(d, q, w)
  BY <1>8, <1>16, Zenon DEF Settled, HasStatus
<1>28. Prefixed(t)
  <2>. SUFFICES ASSUME NEW q \in Topics, t.inbox[q] # None
                PROVE  /\ \A x \in t.frames : x.topic = q /\ x.rev <= t.inbox[q].visible =>
                                              ~HasStatus(t, x.spend, {"provisional"})
                       /\ ~Settled(t, q, t.inbox[q].visible + 1)
    BY Zenon DEF Prefixed
  <2>1. CASE q # k
    <3>1. s.inbox[q] # None /\ t.inbox[q] = s.inbox[q] BY <2>1, <1>18, Zenon
    <3>2. \A x \in s.frames : x.topic = q => t.spends[x.spend] = s.spends[x.spend]
      BY <2>1, <1>2, <1>17, <1>19 DEF Good, Placed
    <3>. QED BY <3>1, <3>2, <1>16, Zenon DEF Good, Prefixed, Settled, HasStatus
  <2>2. CASE q = k
    <3>1. t.inbox[q].visible = m BY <2>2, <1>12, <1>18, Zenon
    <3>2. ~Settled(t, k, m + 1)
      <4>1. CASE m = j.alloc
        <5>1. \A x \in s.frames : x.topic = k => x.rev <= j.alloc BY <1>4, Zenon DEF Good, Placed
        <5>. QED BY <4>1, <5>1, <1>12, <1>16, <1>19 DEF Settled
      <4>2. CASE ~Settled(d, k, m + 1) BY <4>2, <1>5, <1>12, <1>27
      <4>. QED BY <4>1, <4>2, <1>10, Zenon
    <3>3. ASSUME NEW x \in s.frames, x.topic = k, x.rev <= m
          PROVE  ~HasStatus(t, x.spend, {"provisional"})
      <4>1. CASE x.rev <= j.visible
        <5>1. ~HasStatus(s, x.spend, {"provisional"}) BY <3>3, <4>1, <1>4, <1>5, Zenon DEF Good, Prefixed
        <5>2. x.spend \in Spends /\ s.spends[x.spend] # None BY <1>19, Zenon DEF Good, Placed
        <5>. QED BY <5>1, <5>2, <1>20, Zenon DEF HasStatus
      <4>2. CASE ~(x.rev <= j.visible)
        <5>1. x.rev \in (j.visible + 1)..m BY <3>3, <4>2, <1>12, <1>19
        <5>2. Settled(t, k, x.rev) BY <5>1, <1>5, <1>10, <1>19, <1>27, Zenon
        <5>3. PICK y \in s.frames : y.topic = k /\ y.rev = x.rev /\ HasStatus(t, y.spend, {"committed", "expired"})
          BY <5>2, <1>16, Zenon DEF Settled
        <5>4. y = x BY <3>3, <5>3, Zenon DEF Good, Distinct
        <5>. QED BY <5>3, <5>4, Zenon DEF HasStatus
      <4>. QED BY <4>1, <4>2, Zenon
    <3>. QED BY <2>2, <3>1, <3>2, <3>3, <1>16, Zenon
  <2>. QED BY <2>1, <2>2, Zenon
<1>29. Counted(t)
  <2>1. Spent(t) = Spent(s) BY <1>20, Zenon DEF Spent
  <2>2. Created(t) = Created(s) BY <1>4, <1>14, <1>18, Zenon DEF Created
  <2>. QED BY <2>1, <2>2, <1>16, SameCount, Zenon
<1>30. Later(s, t)
  <2>1. s.floor \in Nat /\ \A q \in Topics : s.inbox[q] # None => s.inbox[q].lease \in Nat
    BY <1>2, Zenon DEF States, Inboxes
  <2>2. \A q \in Topics : s.inbox[q] # None => t.inbox[q] # None /\ t.inbox[q].lease = s.inbox[q].lease
    BY <1>4, <1>12, <1>14, <1>18, Zenon
  <2>. QED BY <2>1, <2>2, <1>16, <1>20 DEF Later
<1>31. Calm(s, f, t)
  <2>. SUFFICES ASSUME NEW q \in Topics, s.inbox[q] # None
                PROVE  \/ /\ t.inbox[q].visible = s.inbox[q].visible /\ t.inbox[q].obj = s.inbox[q].obj
                          /\ t.inbox[q].policy \in {s.inbox[q].policy, "visible"}
                       \/ Tells(s, f, t, q)
    BY Zenon DEF Calm
  <2>1. CASE q # k BY <2>1, <1>18, Zenon
  <2>2. CASE q = k /\ m = j.visible BY <2>2, <1>4, <1>13, <1>18, Zenon
  <2>3. CASE q = k /\ m # j.visible
    <3>1. t.inbox # s.inbox BY <2>3, <1>4, <1>12, <1>18, Zenon
    <3>. QED BY <2>3, <3>1, <1>2, Zenon DEF Tells
  <2>. QED BY <2>1, <2>2, <2>3, Zenon
<1>32. Effect(s, f, t) BY <1>11, <1>14, <1>16, <1>17, Zenon DEF Effect
<1>. QED BY <1>15, <1>21, <1>22, <1>23, <1>24, <1>25, <1>26, <1>28, <1>29, <1>30, <1>31, <1>32, Zenon
         DEF StepOK, Good, t

\* Every frame the log accepts keeps the state good.
LEMMA AppliedStep ==
  ASSUME NEW s, NEW f, Good(s), FrameOK(s, f), Accepts(s, f)
  PROVE  StepOK(s, f, Applied(s, f))
<1>1. CASE f.t = "create" BY <1>1, CreateStep, Zenon DEF Accepts, Applied
<1>2. CASE f.t = "renew" BY <1>2, RenewStep, Zenon DEF Accepts, Applied
<1>3. CASE f.t = "close" BY <1>3, CloseStep, Zenon DEF Accepts, Applied
<1>4. CASE f.t = "gc" BY <1>4, GcStep, Zenon DEF Accepts, Applied
<1>5. CASE f.t = "policy" BY <1>5, PolicyStep, Zenon DEF Accepts, Applied
<1>6. CASE f.t = "append" BY <1>6, AppendStep, Zenon DEF Accepts, Applied
<1>7. CASE f.t = "final" BY <1>7, FinalStep, Zenon DEF Accepts, Applied
<1>8. CASE f.t = "expire" BY <1>8, ExpireStep, Zenon DEF Accepts, Applied
<1>9. CASE f.t = "pin" BY <1>9, PinStep, Zenon DEF Accepts, Applied
<1>10. CASE f.t = "readfinal" BY <1>10, ReadFinalStep, Zenon DEF Accepts, Applied
<1>11. CASE f.t = "unpin" BY <1>11, UnpinStep, Zenon DEF Accepts, Applied
<1>12. CASE f.t = "floor" BY <1>12, FloorStep, Zenon DEF Accepts, Applied
<1>13. CASE f.t = "integrity" BY <1>13, IntegrityStep, Zenon DEF Accepts, Applied
<1>. QED BY <1>1, <1>2, <1>3, <1>4, <1>5, <1>6, <1>7, <1>8, <1>9, <1>10, <1>11, <1>12, <1>13, Zenon
         DEF Accepts

\* The state before the first frame
LEMMA EmptyGood == Good(EmptyState)
<1>. DEFINE s == EmptyState
<1>1. /\ s.inbox = [t \in Topics |-> None] /\ s.frames = {} /\ s.spends = [x \in Spends |-> None]
      /\ s.pins = {} /\ s.closes = {} /\ s.floor = 0 /\ s.gap = {}
      /\ s.acct = [stored |-> 0, control |-> 0, tombs |-> 0]
  BY Zenon DEF EmptyState
<1>2. s \in States BY DEF EmptyState, States, Accounts
<1>3. Created(s) = {} /\ Spent(s) = {} /\ Records(s) = {} BY <1>1, Zenon DEF Created, Spent, Records
<1>4. Counted(s) BY <1>1, <1>3, FS_EmptySet DEF Counted
<1>5. Told(s) /\ Bounded(s) BY <1>1, Zenon DEF Told, Bounded
<1>6. Placed(s) /\ Distinct(s) /\ Paired(s) /\ Prefixed(s) /\ Held(s)
  BY <1>1, Zenon DEF Placed, Distinct, Paired, Prefixed, Held
<1>. QED BY <1>2, <1>4, <1>5, <1>6, Zenon DEF Good
==============================================================================

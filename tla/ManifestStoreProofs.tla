------------------------ MODULE ManifestStoreProofs -------------------------
(***************************************************************************)
(* Proofs about the two-slot manifest store: type correctness, and that in *)
(* every image a crash may leave the slots select one manifest which       *)
(* descends from the last acknowledged one; that an open is never refused, *)
(* that no update is lost, and that the store implements AckedHistory.     *)
(***************************************************************************)
EXTENDS ManifestStore, TLAPS

\* Slot content c may stand beside a slot that holds the manifest t: it is
\* unreadable, the same manifest, or its predecessor.
Compatible(c, t) ==
  \/ ~Valid(c)
  \/ c.chain = t
  \/ Len(t) = Len(c.chain) + 1 /\ Prefix(c.chain, t)

\* Slot s holds the newest manifest of the directory.
Newest(dir, s) ==
  /\ Valid(dir[s]) /\ Len(dir[s].chain) > 0
  /\ Compatible(dir[Other(s)], dir[s].chain)

ImageInv(dir) ==
  \/ \E s \in Slots : Newest(dir, s) /\ Prefix(acked, dir[s].chain)
  \/ acked = <<>> /\ \A s \in Slots : dir[s] = Absent

\* What a running mutation has written and what it may still overwrite.
OpInv ==
  \/ op = Idle
  \/ /\ op.kind # "idle" /\ op.caller \in Callers
     /\ mode # "closed" /\ op.todo # <<>> /\ op.step # "none"
     /\ Len(op.target) > 0 /\ Prefix(acked, op.target)
     /\ Compatible(visible[Other(Head(op.todo))], op.target)
     /\ Len(op.todo) = 1 => visible[Other(Head(op.todo))] = Holding(op.target)
     /\ op.step = "sync" => visible[Head(op.todo)] = Holding(op.target)
     /\ op.step = "rename" => temps > 0

IInv == TypeOK /\ (\A k \in 1..Len(images) : ImageInv(images[k])) /\ OpInv

-----------------------------------------------------------------------------
\* Prefix is transitive, and appending keeps it.
LEMMA PrefixAppend ==
  ASSUME NEW s \in Chains, NEW t \in Chains, NEW v \in Values, Prefix(s, t)
  PROVE  /\ Append(t, v) \in Chains
         /\ Len(Append(t, v)) = Len(t) + 1
         /\ Prefix(t, Append(t, v)) /\ Prefix(s, Append(t, v))
<1> DEFINE u == Append(t, v)
<1>1. u \in Chains /\ Len(u) = Len(t) + 1
  BY DEF Chains
<1>2. \A i \in 1..Len(t) : u[i] = t[i]
  BY DEF Chains
<1>3. Len(s) \in Nat /\ Len(t) \in Nat
  BY DEF Chains
<1> HIDE DEF u
<1>4. Prefix(t, u) /\ Prefix(s, u)
  BY <1>1, <1>2, <1>3 DEF Prefix
<1> QED BY <1>1, <1>4, Zenon DEF u

\* _select on a directory whose newest manifest is in slot s returns it.
LEMMA NewestSelected ==
  ASSUME NEW dir \in [Slots -> Contents], NEW s \in Slots, Newest(dir, s)
  PROVE  /\ Selected(dir) = dir[s].chain
         /\ Selectable(dir)
         /\ Valid(dir[Other(FirstSlot(dir))])
         /\ dir[Other(FirstSlot(dir))].chain = Selected(dir)
         /\ FirstSlot(dir) \in Slots
<1>1. /\ dir["a"] \in Contents /\ dir["b"] \in Contents
      /\ dir["a"].chain \in Chains /\ dir["b"].chain \in Chains
  BY Zenon DEF Slots, Contents
<1>2. CASE s = "a"
  BY <1>1, <1>2 DEF Newest, Compatible, Selected, SelectedSlot, Selectable, Adjacent,
    FirstSlot, Other, Slots, Chains
<1>3. CASE s = "b"
  BY <1>1, <1>3 DEF Newest, Compatible, Selected, SelectedSlot, Selectable, Adjacent,
    FirstSlot, Other, Slots, Chains
<1> QED BY <1>2, <1>3, Zenon DEF Slots

\* A directory that satisfies ImageInv either never held a manifest or selects
\* one that descends from the acknowledged one.
LEMMA ImageSelected ==
  ASSUME NEW dir \in [Slots -> Contents], ImageInv(dir), acked \in Chains
  PROVE  /\ Selectable(dir) \/ (acked = <<>> /\ \A s \in Slots : dir[s] = Absent)
         /\ Prefix(acked, Selected(dir))
         /\ Selectable(dir) => \E s \in Slots : Newest(dir, s)
<1>1. CASE \E s \in Slots : Newest(dir, s) /\ Prefix(acked, dir[s].chain)
  BY <1>1, NewestSelected, Zenon
<1>2. CASE acked = <<>> /\ \A s \in Slots : dir[s] = Absent
  <2>1. Prefix(acked, Selected(dir))
    BY <1>2 DEF Prefix, Selected, SelectedSlot, Absent, Slots
  <2>2. ~Selectable(dir)
    BY <1>2 DEF Selectable, Absent, Slots, Valid, Other
  <2> QED BY <1>2, <2>1, <2>2, Zenon
<1> QED BY <1>1, <1>2, Zenon DEF ImageInv

\* Writing the target over slot h gives a directory whose newest manifest is
\* the target, provided the other slot may stand beside it.
LEMMA InstallImage ==
  ASSUME NEW dir \in [Slots -> Contents], NEW h \in Slots, NEW t \in Chains,
         Len(t) > 0, Compatible(dir[Other(h)], t), Prefix(acked, t)
  PROVE  /\ [dir EXCEPT ![h] = Holding(t)] \in [Slots -> Contents]
         /\ Newest([dir EXCEPT ![h] = Holding(t)], h)
         /\ ImageInv([dir EXCEPT ![h] = Holding(t)])
BY Zenon DEF Newest, ImageInv, Compatible, Holding, Contents, Slots, Other, Valid

-----------------------------------------------------------------------------
LEMMA InitIInv == Init => IInv
<1> SUFFICES ASSUME Init PROVE IInv
  BY Zenon
<1>1. Absent \in Contents /\ Idle \in Mutations
  BY DEF Absent, Contents, Idle, Mutations, Chains
<1>2. TypeOK
  <2>1. [s \in Slots |-> Absent] \in [Slots -> Contents]
    BY <1>1, Zenon
  <2>2. images \in Seq([Slots -> Contents]) /\ Len(images) > 0
    BY <2>1 DEF Init
  <2>3. snap \in [Callers -> Chains] /\ acked \in Chains
    BY DEF Init, NoSnapshot, Chains
  <2>4. serial \in Seq(Requests)
    BY DEF Init
  <2> QED BY <1>1, <2>2, <2>3, <2>4, Zenon DEF Init, TypeOK
<1>3. ImageInv(images[1])
  BY Zenon DEF Init, ImageInv
<1> QED BY <1>2, <1>3 DEF Init, IInv, OpInv

\* Actions that leave the directory, the running mutation, the temporaries and
\* what was acknowledged alone keep everything but the type invariant.
LEMMA Untouched ==
  ASSUME IInv, TypeOK', UNCHANGED <<images, op, acked>>,
         op # Idle => UNCHANGED <<mode, temps>>
  PROVE  IInv'
<1>1. visible' = visible
  BY Zenon DEF visible
<1>2. \A k \in 1..Len(images) : ImageInv(images[k])'
  BY Zenon DEF IInv, ImageInv, Newest, Compatible, Prefix, Absent
<1>3. OpInv'
  BY <1>1, Zenon DEF IInv, OpInv, Compatible, Prefix, Holding, Idle
<1> QED BY <1>2, <1>3, Zenon DEF IInv

\* The parts of a request at the head of the serial queue.
LEMMA HeadRequest ==
  ASSUME TypeOK, serial # <<>>
  PROVE  Head(serial) \in Requests /\ Tail(serial) \in Seq(Requests)
BY DEF TypeOK

\* The visible directory is a directory.
LEMMA VisibleImage ==
  ASSUME IInv
  PROVE  visible \in [Slots -> Contents] /\ ImageInv(visible) /\ acked \in Chains
BY DEF IInv, TypeOK, visible

\* Starting a mutation whose target may stand beside the slot written second.
LEMMA StartMutation ==
  ASSUME IInv, UNCHANGED <<images, mode, closing, snap, acked, temps, faults>>,
         serial' \in Seq(Requests), mode # "closed",
         NEW r \in Requests, r.kind \in {"initialize", "advance", "repair"},
         NEW t \in Chains, Len(t) > 0, Prefix(acked, t),
         NEW s \in Slots, Compatible(visible[Other(s)], t),
         Install(r, t, <<s, Other(s)>>)
  PROVE  IInv'
<1>1. /\ op'.kind = r.kind /\ op'.caller = r.caller /\ op'.target = t
      /\ op'.todo = <<s, Other(s)>> /\ op'.step = "write"
  BY Zenon DEF Install
<1>2. op' \in Mutations
  BY Zenon DEF Install, Mutations, Requests
<1>3. TypeOK'
  BY <1>2, Zenon DEF IInv, TypeOK
<1>4. Head(op'.todo) = s /\ Len(op'.todo) = 2 /\ op'.todo # <<>>
  BY <1>1
<1>5. r.caller \in Callers
  BY Zenon DEF Requests
<1>6. \A k \in 1..Len(images) : ImageInv(images[k])'
  BY Zenon DEF IInv, ImageInv, Newest, Compatible, Prefix, Absent
<1>7. visible' = visible
  BY Zenon DEF visible
<1>8. OpInv'
  BY <1>1, <1>4, <1>5, <1>7 DEF OpInv, Compatible, Prefix
<1> QED BY <1>3, <1>6, <1>8, Zenon DEF IInv

\* Every step of the store keeps the invariant.
LEMMA StepIInv == IInv /\ [Next]_vars => IInv'
<1> SUFFICES ASSUME IInv, [Next]_vars PROVE IInv'
  BY Zenon
<1> USE DEF vars
<1>0. TypeOK /\ OpInv /\ (\A k \in 1..Len(images) : ImageInv(images[k]))
  BY Zenon DEF IInv
<1>1. ASSUME NEW m \in {"open", "validation"}, Open(m) PROVE IInv'
  <2>1. TypeOK'
    BY <1>0, <1>1, Zenon DEF Open, TypeOK, TempsAfterOpen
  <2> QED BY <1>0, <1>1, <2>1, Untouched, Zenon DEF Open, OpInv
<1>2. ASSUME NEW c \in Callers, NEW v \in Values,
             NEW k \in {"load", "initialize", "advance", "repair"}, Call(c, k, v)
      PROVE  IInv'
  <2>1. [kind |-> k, caller |-> c, expected |-> snap[c], value |-> v] \in Requests
    BY <1>0, Zenon DEF TypeOK, Requests
  <2>2. TypeOK'
    BY <1>0, <1>2, <2>1 DEF Call, TypeOK
  <2> QED BY <1>2, <2>2, Untouched, Zenon DEF Call
<1>3. ASSUME NEW c \in Callers, CallClose(c) PROVE IInv'
  <2>1. [kind |-> "close", caller |-> c, expected |-> <<>>, value |-> Genesis] \in Requests
    BY ConstantsAssumption DEF Requests, Chains
  <2>2. TypeOK'
    BY <1>0, <1>3, <2>1 DEF CallClose, TypeOK
  <2> QED BY <1>3, <2>2, Untouched, Zenon DEF CallClose
<1>4. CASE RunLoad
  <2>1. Head(serial) \in Requests /\ Tail(serial) \in Seq(Requests)
    BY <1>0, <1>4, HeadRequest, Zenon DEF RunLoad, Turn
  <2>2. Selected(visible) \in Chains
    BY VisibleImage, Zenon DEF Selected, Contents, Slots
  <2>3. TypeOK'
    BY <1>0, <1>4, <2>1, <2>2, Zenon DEF RunLoad, TypeOK, Requests
  <2> QED BY <1>4, <2>3, Untouched, Zenon DEF RunLoad
<1>5. CASE RunInitialize
  <2>1. Head(serial) \in Requests /\ Tail(serial) \in Seq(Requests) /\ Head(serial).kind = "initialize"
    BY <1>0, <1>5, HeadRequest, Zenon DEF RunInitialize, Turn
  <2>2. CASE UNCHANGED op
    <3>1. TypeOK'
      BY <1>0, <1>5, <2>1, <2>2, Zenon DEF RunInitialize, TypeOK
    <3> QED BY <1>5, <2>2, <3>1, Untouched, Zenon DEF RunInitialize
  <2>3. CASE /\ mode # "closed"
             /\ \A s \in Slots : visible[s].state # "absent" => visible[s] = Holding(<<Genesis>>)
             /\ Install(Head(serial), <<Genesis>>, <<"a", "b">>)
    <3>1. <<Genesis>> \in Chains /\ Len(<<Genesis>>) > 0
      BY ConstantsAssumption DEF Chains
    <3>2. visible["a"] \in Contents /\ visible["b"] \in Contents
      BY VisibleImage, Zenon DEF Slots
    <3>3. Compatible(visible[Other("a")], <<Genesis>>)
      BY <2>3, <3>2 DEF Compatible, Other, Slots, Holding, Contents, Valid
    <3>4. Prefix(acked, <<Genesis>>)
      <4>1. CASE \E s \in Slots : Newest(visible, s) /\ Prefix(acked, visible[s].chain)
        BY <2>3, <4>1 DEF Newest, Valid, Holding
      <4>2. CASE acked = <<>>
        BY <3>1, <4>2 DEF Prefix
      <4> QED BY <4>1, <4>2, VisibleImage, Zenon DEF ImageInv
    <3>5. Other("a") = "b" /\ "a" \in Slots
      BY Zenon DEF Other, Slots
    <3> QED BY <1>5, <2>1, <2>3, <3>1, <3>3, <3>4, <3>5, StartMutation, Zenon DEF RunInitialize
  <2> QED BY <1>5, <2>2, <2>3, Zenon DEF RunInitialize
<1>6. CASE RunAdvance
  <2> DEFINE r == Head(serial)
             f == FirstSlot(visible)
             t == Append(Selected(visible), r.value)
  <2>1. r \in Requests /\ Tail(serial) \in Seq(Requests) /\ r.kind = "advance" /\ r.value \in Values
    BY <1>0, <1>6, HeadRequest, Zenon DEF RunAdvance, Turn, Requests
  <2>2. CASE UNCHANGED op
    <3>1. TypeOK'
      BY <1>0, <1>6, <2>1, <2>2, Zenon DEF RunAdvance, TypeOK
    <3> QED BY <1>6, <2>2, <3>1, Untouched, Zenon DEF RunAdvance
  <2>3. CASE Unmoved(r) /\ Install(r, t, <<f, Other(f)>>)
    <3>1. PICK s \in Slots : Newest(visible, s)
      BY <2>3, VisibleImage, ImageSelected, Zenon DEF Unmoved
    <3>2. /\ Valid(visible[Other(f)]) /\ visible[Other(f)].chain = Selected(visible)
          /\ f \in Slots /\ Selected(visible) = visible[s].chain
      BY <3>1, VisibleImage, NewestSelected, Zenon
    <3>3. Selected(visible) \in Chains /\ Prefix(acked, Selected(visible)) /\ acked \in Chains
      BY <3>2, VisibleImage, ImageSelected, Zenon DEF Contents
    <3>4. /\ t \in Chains /\ Len(t) = Len(Selected(visible)) + 1
          /\ Prefix(Selected(visible), t) /\ Prefix(acked, t)
      BY <2>1, <3>3, PrefixAppend, Zenon
    <3>5. Compatible(visible[Other(f)], t) /\ Len(t) > 0
      BY <3>2, <3>3, <3>4 DEF Compatible, Chains
    <3> HIDE DEF r, f, t
    <3> QED BY <1>6, <2>1, <2>3, <3>2, <3>4, <3>5, StartMutation, Zenon DEF RunAdvance, Unmoved
  <2> QED BY <1>6, <2>2, <2>3, Zenon DEF RunAdvance
<1>7. CASE RunRepair
  <2> DEFINE r == Head(serial)
             t == Selected(visible)
  <2>1. r \in Requests /\ Tail(serial) \in Seq(Requests) /\ r.kind = "repair"
    BY <1>0, <1>7, HeadRequest, Zenon DEF RunRepair, Turn
  <2>2. CASE UNCHANGED op
    <3>1. TypeOK'
      BY <1>0, <1>7, <2>1, <2>2, Zenon DEF RunRepair, TypeOK
    <3> QED BY <1>7, <2>2, <3>1, Untouched, Zenon DEF RunRepair
  <2>3. CASE Unmoved(r) /\ Install(r, t, <<"a", "b">>)
    <3>1. PICK s \in Slots : Newest(visible, s)
      BY <2>3, VisibleImage, ImageSelected, Zenon DEF Unmoved
    <3>2. t = visible[s].chain
      BY <3>1, VisibleImage, NewestSelected, Zenon
    <3>3. t \in Chains /\ Prefix(acked, t) /\ Len(t) > 0
      BY <3>1, <3>2, VisibleImage, ImageSelected DEF Contents, Newest
    <3>4. Compatible(visible[Other("a")], t)
      BY <3>1, <3>2, Zenon DEF Newest, Compatible, Slots, Other
    <3>5. Other("a") = "b" /\ "a" \in Slots
      BY Zenon DEF Other, Slots
    <3> HIDE DEF r, t
    <3> QED BY <1>7, <2>1, <2>3, <3>3, <3>4, <3>5, StartMutation, Zenon DEF RunRepair, Unmoved
  <2> QED BY <1>7, <2>2, <2>3, Zenon DEF RunRepair
<1>8. CASE RunClose
  <2>1. Head(serial) \in Requests /\ Tail(serial) \in Seq(Requests)
    BY <1>0, <1>8, HeadRequest, Zenon DEF RunClose, Turn
  <2>2. snap' \in [Callers -> Chains]
    BY <1>8 DEF RunClose, NoSnapshot, Chains
  <2>3. TypeOK'
    BY <1>0, <1>8, <2>1, <2>2, Zenon DEF RunClose, TypeOK
  <2> QED BY <1>8, <2>3, Untouched, Zenon DEF RunClose, Turn
<1>9. CASE WriteTemp
  <2>1. TypeOK'
    BY <1>0, <1>9, SMTT(30) DEF WriteTemp, TypeOK, Mutations
  <2>2. visible' = visible /\ op # Idle
    BY <1>9 DEF WriteTemp, visible, Idle
  <2>3. \A k \in 1..Len(images) : ImageInv(images[k])'
    BY <1>0, <1>9, Zenon DEF WriteTemp, ImageInv, Newest, Compatible, Prefix, Absent
  <2>4. /\ op'.kind = op.kind /\ op'.caller = op.caller /\ op'.target = op.target
        /\ op'.todo = op.todo /\ op'.step = "rename"
    BY <1>0, <1>9, Zenon DEF WriteTemp, TypeOK, Mutations
  <2>5. OpInv'
    BY <1>0, <1>9, <2>2, <2>4, SMTT(30) DEF WriteTemp, OpInv, Compatible, Prefix, Holding, TypeOK
  <2> QED BY <1>9, <2>1, <2>3, <2>5, Zenon DEF WriteTemp, IInv
<1>10. CASE RenameTemp
  <2> DEFINE h == Head(op.todo)
             new == [visible EXCEPT ![h] = Holding(op.target)]
  <2>1. /\ op.kind # "idle" /\ op.caller \in Callers /\ mode # "closed"
        /\ op.todo # <<>> /\ Len(op.target) > 0 /\ Prefix(acked, op.target)
        /\ Compatible(visible[Other(h)], op.target)
        /\ Len(op.todo) = 1 => visible[Other(h)] = Holding(op.target)
        /\ temps > 0
    BY <1>0, <1>10 DEF RenameTemp, OpInv, Idle
  <2>2. h \in Slots /\ Other(h) \in Slots /\ Other(h) # h
    BY <1>0, <2>1 DEF TypeOK, Mutations, Slots, Other
  <2>3. op.target \in Chains /\ visible \in [Slots -> Contents]
    BY <1>0, VisibleImage, Zenon DEF TypeOK, Mutations
  <2>4. new \in [Slots -> Contents] /\ Newest(new, h) /\ ImageInv(new)
    BY <2>1, <2>2, <2>3, InstallImage, Zenon
  <2>5. images' = Append(images, new) /\ temps' = temps - 1 /\ UNCHANGED <<mode, acked>>
    BY <1>10, Zenon DEF RenameTemp
  <2>6. /\ op'.kind = op.kind /\ op'.caller = op.caller /\ op'.target = op.target
        /\ op'.todo = op.todo /\ op'.step = "sync" /\ op' \in Mutations
    BY <1>0, <1>10, Zenon DEF RenameTemp, TypeOK, Mutations
  <2>7. new[h] = Holding(op.target) /\ new[Other(h)] = visible[Other(h)]
    BY <2>2, <2>3, Zenon
  <2> HIDE DEF new, h
  <2>8. images' \in Seq([Slots -> Contents]) /\ Len(images') = Len(images) + 1 /\ visible' = new
    BY <1>0, <2>4, <2>5 DEF TypeOK, visible
  <2>9. TypeOK'
    BY <1>0, <1>10, <2>1, <2>6, <2>8 DEF RenameTemp, TypeOK
  <2>10. \A k \in 1..Len(images') : ImageInv(images'[k])
    BY <1>0, <2>4, <2>5 DEF TypeOK
  <2>11. (\A k \in 1..Len(images) : ImageInv(images[k]))'
    BY <2>5, <2>10, ZenonT(60) DEF ImageInv, Newest, Compatible, Prefix, Absent
  <2>12. OpInv'
    BY <2>1, <2>5, <2>6, <2>7, <2>8, Zenon DEF OpInv, Compatible, Prefix, Holding, h
  <2> QED BY <2>9, <2>11, <2>12, Zenon DEF IInv
<1>11. CASE SyncDirectory
  <2> DEFINE h == Head(op.todo)
  <2>1. /\ op.kind # "idle" /\ op.caller \in Callers /\ mode # "closed"
        /\ op.todo # <<>> /\ Len(op.target) > 0 /\ Prefix(acked, op.target)
        /\ Len(op.todo) = 1 => visible[Other(h)] = Holding(op.target)
        /\ visible[h] = Holding(op.target) /\ Compatible(visible[Other(h)], op.target)
    BY <1>0, <1>11 DEF SyncDirectory, OpInv, Idle
  <2>2. h \in Slots /\ Other(h) \in Slots /\ Other(h) # h /\ Other(Other(h)) = h
    BY <1>0, <2>1 DEF TypeOK, Mutations, Slots, Other
  <2>3. op.target \in Chains /\ visible \in [Slots -> Contents] /\ ImageInv(visible)
    BY <1>0, VisibleImage, Zenon DEF TypeOK, Mutations
  <2>4. images' = <<visible>> /\ visible' = visible
    BY <1>11, Zenon DEF SyncDirectory, SyncedImages, visible
  <2>5. images' \in Seq([Slots -> Contents]) /\ Len(images') = 1 /\ images'[1] = visible
    BY <2>3, <2>4
  <2>6. Newest(visible, h) /\ Selected(visible) = op.target
    <3>1. Newest(visible, h)
      BY <2>1, <2>3 DEF Newest, Holding, Valid
    <3> QED BY <2>1, <2>2, <2>3, <3>1, NewestSelected DEF Holding
  <2>7. CASE Len(op.todo) > 1
    <3>1. /\ op' = [op EXCEPT !.todo = Tail(@), !.step = "write"]
          /\ UNCHANGED <<mode, closing, serial, snap, acked, temps, faults>>
      BY <1>11, <2>7, Zenon DEF SyncDirectory
    <3>2. op.todo = <<h, Other(h)>> /\ Tail(op.todo) = <<Other(h)>>
      <4>1. PICK s \in Slots : op.todo = <<s>> \/ op.todo = <<s, Other(s)>>
        BY <1>0, <2>1, Zenon DEF TypeOK, Mutations
      <4>2. CASE op.todo = <<s>>
        <5>1. Len(op.todo) = 1
          BY <4>2
        <5> QED BY <2>7, <5>1
      <4>3. CASE op.todo = <<s, Other(s)>>
        <5>1. Head(op.todo) = s /\ Tail(op.todo) = <<Other(s)>>
          BY <4>3
        <5> QED BY <4>3, <5>1, Zenon
      <4> QED BY <4>1, <4>2, <4>3, Zenon
    <3>3. /\ op'.kind = op.kind /\ op'.caller = op.caller /\ op'.target = op.target
          /\ op'.todo = <<Other(h)>> /\ op'.step = "write" /\ op' \in Mutations
      BY <1>0, <2>2, <3>1, <3>2, Zenon DEF TypeOK, Mutations
    <3>4. TypeOK'
      BY <1>0, <2>5, <3>1, <3>3 DEF TypeOK
    <3>5. (\A k \in 1..Len(images) : ImageInv(images[k]))'
      BY <2>3, <2>5, <3>1 DEF ImageInv, Newest, Compatible, Prefix, Absent
    <3>6. Head(op'.todo) = Other(h) /\ op'.todo # <<>> /\ Compatible(visible[h], op.target)
      BY <2>1, <3>3 DEF Compatible, Holding
    <3> HIDE DEF h
    <3>7. OpInv'
      BY <2>1, <2>2, <2>4, <3>1, <3>3, <3>6, Zenon DEF OpInv, Compatible, Prefix, Holding
    <3> QED BY <3>4, <3>5, <3>7, Zenon DEF IInv
  <2>8. CASE ~(Len(op.todo) > 1)
    <3>1. /\ op' = Idle /\ acked' = op.target /\ snap' = [snap EXCEPT ![op.caller] = op.target]
          /\ UNCHANGED <<mode, closing, serial, temps, faults>>
      BY <1>11, <2>6, <2>8, Zenon DEF SyncDirectory
    <3>2. Idle \in Mutations
      BY DEF Idle, Mutations, Chains
    <3>3. TypeOK'
      BY <1>0, <2>1, <2>3, <2>5, <3>1, <3>2 DEF TypeOK
    <3>4. Prefix(op.target, op.target)
      BY <2>3 DEF Prefix, Chains
    <3>5. ImageInv(visible)'
      <4>1. Newest(visible, h) /\ visible[h].chain = op.target
        BY <2>1, <2>6 DEF Holding
      <4>2. Newest(visible', h) /\ Prefix(acked', visible'[h].chain)
        BY <2>4, <3>1, <3>4, <4>1, Zenon
      <4> HIDE DEF h
      <4> QED BY <2>2, <4>2, Zenon DEF ImageInv
    <3>6. (\A k \in 1..Len(images) : ImageInv(images[k]))'
      BY <2>4, <2>5, <3>5
    <3> QED BY <3>1, <3>3, <3>6, Zenon DEF IInv, OpInv
  <2> QED BY <2>7, <2>8, Zenon
<1>12. CASE InstallFails
  <2>1. Idle \in Mutations
    BY DEF Idle, Mutations, Chains
  <2>2. TypeOK'
    BY <1>0, <1>12, <2>1 DEF InstallFails, TempsAfterFailure, TypeOK, OpInv
  <2>3. (\A k \in 1..Len(images) : ImageInv(images[k]))'
    BY <1>0, <1>12 DEF InstallFails, ImageInv, Newest, Compatible, Prefix, Absent
  <2> QED BY <1>12, <2>2, <2>3, Zenon DEF InstallFails, IInv, OpInv
<1>13. CASE Crash
  <2>1. PICK k \in 1..Len(images) : images' = <<images[k]>>
    BY <1>13, Zenon DEF Crash
  <2> DEFINE new == images[k]
  <2>2. new \in [Slots -> Contents] /\ ImageInv(new) /\ images' = <<new>>
    BY <1>0, <2>1 DEF TypeOK
  <2> HIDE DEF new
  <2>3. images' \in Seq([Slots -> Contents]) /\ Len(images') = 1 /\ images'[1] = new
    BY <2>2
  <2>4. Idle \in Mutations
    BY DEF Idle, Mutations, Chains
  <2>5. snap' \in [Callers -> Chains]
    BY <1>13 DEF Crash, NoSnapshot, Chains
  <2>6. TypeOK'
    <3>1. serial' \in Seq(Requests)
      BY <1>13 DEF Crash
    <3>2. /\ mode' \in {"closed", "open", "validation"} /\ closing' \in BOOLEAN
          /\ op' \in Mutations /\ UNCHANGED <<acked, temps, faults>>
      BY <1>13, <2>4, Zenon DEF Crash
    <3> QED BY <1>0, <2>3, <2>4, <2>5, <3>1, <3>2 DEF TypeOK
  <2>7. (\A j \in 1..Len(images) : ImageInv(images[j]))'
    <3>1. acked' = acked
      BY <1>13, Zenon DEF Crash
    <3> QED BY <2>2, <2>3, <3>1, SMTT(30) DEF ImageInv, Newest, Compatible, Prefix, Absent
  <2> QED BY <1>13, <2>6, <2>7, Zenon DEF Crash, IInv, OpInv
<1>14. ASSUME NEW s \in Slots, SpoilSlot(s) PROVE IInv'
  <2> DEFINE o == Other(s)
             new == [visible EXCEPT ![s] = Spoilt]
  <2>1. /\ o \in Slots /\ o # s /\ Other(o) = s
        /\ visible \in [Slots -> Contents] /\ ImageInv(visible)
    BY VisibleImage, Zenon DEF Slots, Other
  <2>2. Spoilt \in Contents
    BY DEF Spoilt, Contents, Chains
  <2>3. new \in [Slots -> Contents] /\ new[s] = Spoilt /\ new[o] = visible[o]
    BY <2>1, <2>2, Zenon
  <2>4. images' = <<new>> /\ UNCHANGED <<mode, op, acked, temps>> /\ op = Idle
    BY <1>14, Zenon DEF SpoilSlot
  <2>5. visible[s] = visible[o] /\ Valid(visible[o])
    BY <1>14, Zenon DEF SpoilSlot, Slots, Other
  <2>6. Len(visible[o].chain) > 0 /\ Prefix(acked, visible[o].chain)
    BY <2>1, <2>5 DEF ImageInv, Newest, Absent, Valid, Slots, Other
  <2> HIDE DEF new, o
  <2>7. images' \in Seq([Slots -> Contents]) /\ Len(images') = 1 /\ images'[1] = new
    BY <2>3, <2>4
  <2>8. TypeOK'
    BY <1>0, <1>14, <2>7 DEF SpoilSlot, TypeOK
  <2>9. ImageInv(new)
    BY <2>1, <2>3, <2>5, <2>6 DEF ImageInv, Newest, Compatible, Spoilt, Valid
  <2>10. (\A j \in 1..Len(images) : ImageInv(images[j]))'
    BY <2>4, <2>7, <2>9 DEF ImageInv, Newest, Compatible, Prefix, Absent
  <2> QED BY <2>4, <2>8, <2>10, Zenon DEF IInv, OpInv, Idle
<1>15. CASE UNCHANGED vars
  <2>1. TypeOK'
    BY <1>0, <1>15, Zenon DEF TypeOK
  <2> QED BY <1>15, <2>1, Untouched, Zenon
<1>16. CASE Next
  <2>1. Genesis \in Values
    BY ConstantsAssumption, Zenon
  <2> QED BY <1>1, <1>2, <1>3, <1>4, <1>5, <1>6, <1>7, <1>8, <1>9, <1>10, <1>11, <1>12, <1>13,
             <1>14, <1>16, <2>1, Zenon DEF Next
<1> QED BY <1>15, <1>16, Zenon

-----------------------------------------------------------------------------
\* The invariant holds in every reachable state.
THEOREM StoreInvariant == Spec => []IInv
BY InitIInv, StepIInv, PTL DEF Spec

\* Every variable of the manifest store keeps its type.
THEOREM TypeCorrect == Spec => []TypeOK
<1>1. IInv => TypeOK
  BY Zenon DEF IInv
<1> QED BY <1>1, StoreInvariant, PTL

\* However an initialize, advance or repair is interrupted, by an I/O error or
\* a crash, _select finds a manifest in the two slots.
THEOREM Loadable == Spec => []AlwaysLoadable
<1>1. IInv => AlwaysLoadable
  <2> SUFFICES ASSUME IInv, NEW k \in 1..Len(images)
               PROVE  \/ Selectable(images[k])
                      \/ acked = <<>> /\ \A s \in Slots : images[k][s] = Absent
    BY Zenon DEF AlwaysLoadable
  <2>1. images[k] \in [Slots -> Contents] /\ ImageInv(images[k]) /\ acked \in Chains
    BY DEF IInv, TypeOK
  <2> QED BY <2>1, ImageSelected, Zenon
<1> QED BY <1>1, StoreInvariant, PTL

\* The manifest an advance, initialize or repair returned is never lost: every
\* image a crash may leave selects it or a descendant of it.
THEOREM AckedIsDurable == Spec => []AckedSurvives
<1>1. IInv => AckedSurvives
  <2> SUFFICES ASSUME IInv, NEW k \in 1..Len(images)
               PROVE  Prefix(acked, Selected(images[k]))
    BY Zenon DEF AckedSurvives
  <2>1. images[k] \in [Slots -> Contents] /\ ImageInv(images[k]) /\ acked \in Chains
    BY DEF IInv, TypeOK
  <2> QED BY <2>1, ImageSelected, Zenon
<1> QED BY <1>1, StoreInvariant, PTL

-----------------------------------------------------------------------------
\* What waits on the serial promise: nothing while the store is closed, the
\* call to close only in the last place, and in a validationOnly store no
\* mutation.
QueueInv ==
  /\ mode = "closed" => serial = <<>>
  /\ \A i \in 1..Len(serial) : serial[i].kind = "close" => closing /\ i = Len(serial)
  /\ mode = "validation" => \A i \in 1..Len(serial) : serial[i].kind \in {"load", "close"}

\* An open store has at most the temporary of the rename it is about to make.
TempsInv ==
  /\ mode = "open" => temps = IF op.step = "rename" THEN 1 ELSE 0
  /\ mode # "open" => op = Idle /\ temps <= MaxTemps

\* History t is s or s with one more manifest.
Grows(s, t) == t = s \/ \E v \in Values : t = Append(s, v)

\* The possible images are images of one history, and what is being installed
\* is its present end or one manifest more.
HistoryInv ==
  /\ \A k \in 1..Len(images) : Prefix(Selected(images[k]), Selected(visible))
  /\ op # Idle => Grows(Selected(visible), op.target)
  /\ op.kind = "advance" => \E v \in Values : op.target = Append(op.expected, v)

\* What _select returns is a history, of every possible image.
LEMMA SelectedChains ==
  ASSUME IInv
  PROVE  /\ Selected(visible) \in Chains
         /\ \A k \in 1..Len(images) : Selected(images[k]) \in Chains
<1>1. \A dir \in [Slots -> Contents] : Selected(dir) \in Chains
  BY Zenon DEF Selected, Contents, Slots
<1> QED BY <1>1, VisibleImage DEF IInv, TypeOK

\* Prefix is a preorder.
LEMMA PrefixOrder ==
  ASSUME NEW s \in Chains, NEW t \in Chains, NEW u \in Chains
  PROVE  Prefix(s, s) /\ (Prefix(s, t) /\ Prefix(t, u) => Prefix(s, u))
BY DEF Prefix, Chains

\* A history that grew is a history, and extends the one it grew from.
LEMMA GrowsPrefix ==
  ASSUME NEW s \in Chains, NEW t, Grows(s, t)
  PROVE  t \in Chains /\ Prefix(s, t)
<1>1. Prefix(s, s)
  BY PrefixOrder, Zenon
<1> QED BY <1>1, PrefixAppend, Zenon DEF Grows

\* Taking a call off the queue leaves a queue.
LEMMA QueueAdvances ==
  ASSUME TypeOK, QueueInv, serial # <<>>, serial' = Tail(serial),
         UNCHANGED <<mode, closing>>
  PROVE  QueueInv'
<1>1. /\ Len(serial') = Len(serial) - 1
      /\ \A i \in 1..Len(serial') : serial'[i] = serial[i + 1] /\ i + 1 \in 1..Len(serial)
  BY DEF TypeOK
<1>2. Len(serial) \in Nat
  BY DEF TypeOK
<1>3. mode # "closed"
  BY Zenon DEF QueueInv
<1>4. \A i \in 1..Len(serial') : serial'[i].kind = "close" => closing /\ i = Len(serial')
  <2> TAKE i \in 1..Len(serial')
  <2> HAVE serial'[i].kind = "close"
  <2>1. serial[i + 1].kind = "close" /\ i + 1 \in 1..Len(serial)
    BY <1>1, Zenon
  <2>2. closing /\ i + 1 = Len(serial)
    BY <2>1, Zenon DEF QueueInv
  <2>3. Len(serial') = Len(serial) - 1 /\ i + 1 = Len(serial)
    BY <1>1, <2>2, Zenon
  <2>4. i = Len(serial')
    <3>1. \A m, n \in Nat : n = m - 1 /\ i + 1 = m /\ i \in 1..n => i = n
      OBVIOUS
    <3>2. Len(serial') \in Nat
      BY <1>2, <2>3
    <3> QED BY <1>2, <2>3, <3>1, <3>2, Zenon
  <2> QED BY <2>2, <2>4, Zenon
<1>5. mode = "validation" => \A i \in 1..Len(serial') : serial'[i].kind \in {"load", "close"}
  BY <1>1, Zenon DEF QueueInv
<1> QED BY <1>3, <1>4, <1>5, Zenon DEF QueueInv

\* Every step keeps the queue in order.
LEMMA QueueKeeps == IInv /\ QueueInv /\ [Next]_vars => QueueInv'
<1> SUFFICES ASSUME IInv, QueueInv, [Next]_vars PROVE QueueInv'
  BY Zenon
<1>0. TypeOK /\ serial \in Seq(Requests) /\ Len(serial) \in Nat
  BY DEF IInv, TypeOK
<1>1. ASSUME NEW r \in Requests, serial' = Append(serial, r), UNCHANGED mode, mode # "closed",
             ~closing, r.kind = "close" => closing',
             mode = "validation" => r.kind \in {"load", "close"}
      PROVE  QueueInv'
  <2>1. /\ Len(serial') = Len(serial) + 1 /\ serial'[Len(serial) + 1] = r
        /\ \A i \in 1..Len(serial) : serial'[i] = serial[i]
    BY <1>0, <1>1
  <2>2. \A i \in 1..Len(serial) : serial[i].kind # "close"
    BY <1>1, Zenon DEF QueueInv
  <2>3. \A i \in 1..Len(serial') : i \in 1..Len(serial) \/ i = Len(serial')
    BY <1>0, <2>1
  <2> QED BY <1>0, <1>1, <2>1, <2>2, <2>3, Zenon DEF QueueInv
<1>2. ASSUME NEW c \in Callers, NEW v \in Values,
             NEW k \in {"load", "initialize", "advance", "repair"}, Call(c, k, v)
      PROVE  QueueInv'
  <2> DEFINE r == [kind |-> k, caller |-> c, expected |-> snap[c], value |-> v]
  <2>1. r \in Requests /\ r.kind = k
    BY <1>0, Zenon DEF TypeOK, Requests
  <2>2. serial' = Append(serial, r) /\ UNCHANGED mode /\ mode # "closed" /\ ~closing
    BY <1>2, Zenon DEF Call
  <2>3. mode = "validation" => k \in {"load", "close"}
    BY <1>2, Zenon DEF Call
  <2> HIDE DEF r
  <2> QED BY <1>1, <2>1, <2>2, <2>3, Zenon
<1>3. ASSUME NEW c \in Callers, CallClose(c) PROVE QueueInv'
  <2> DEFINE r == [kind |-> "close", caller |-> c, expected |-> <<>>, value |-> Genesis]
  <2>1. r \in Requests /\ r.kind = "close"
    BY ConstantsAssumption DEF Requests, Chains
  <2>2. serial' = Append(serial, r) /\ UNCHANGED mode /\ mode # "closed" /\ ~closing /\ closing'
    BY <1>3, Zenon DEF CallClose
  <2> HIDE DEF r
  <2> QED BY <1>1, <2>1, <2>2, Zenon
<1>4. CASE RunLoad \/ RunInitialize \/ RunAdvance \/ RunRepair
  <2>1. serial # <<>> /\ serial' = Tail(serial) /\ UNCHANGED <<mode, closing>>
    BY <1>4, Zenon DEF RunLoad, RunInitialize, RunAdvance, RunRepair, Turn
  <2> QED BY <1>0, <2>1, QueueAdvances, Zenon
<1>5. CASE RunClose
  <2>1. /\ serial # <<>> /\ serial[1].kind = "close" /\ serial' = Tail(serial)
        /\ mode' = "closed"
    BY <1>0, <1>5 DEF RunClose, Turn
  <2>2. Len(serial) = 1
    <3>1. 1 \in 1..Len(serial)
      BY <1>0, <2>1
    <3> QED BY <2>1, <3>1, Zenon DEF QueueInv
  <2>3. serial' = <<>>
    BY <1>0, <2>1, <2>2
  <2> QED BY <2>1, <2>3 DEF QueueInv
<1>6. ASSUME NEW m \in {"open", "validation"}, Open(m) PROVE QueueInv'
  BY <1>6 DEF Open, QueueInv
<1>7. CASE Crash
  BY <1>7 DEF Crash, QueueInv
<1>8. CASE UNCHANGED <<serial, mode, closing>>
  BY <1>8, Zenon DEF QueueInv
<1>9. CASE Next
  <2>1. Genesis \in Values
    BY ConstantsAssumption, Zenon
  <2>2. WriteTemp \/ RenameTemp \/ SyncDirectory \/ InstallFails => UNCHANGED <<serial, mode, closing>>
    BY Zenon DEF WriteTemp, RenameTemp, SyncDirectory, InstallFails
  <2>3. \A s \in Slots : SpoilSlot(s) => UNCHANGED <<serial, mode, closing>>
    BY Zenon DEF SpoilSlot
  <2> QED BY <1>2, <1>3, <1>4, <1>5, <1>6, <1>7, <1>8, <1>9, <2>1, <2>2, <2>3, Zenon DEF Next
<1> QED BY <1>8, <1>9, Zenon DEF vars

\* Every step keeps the count of temporaries: only a store opened for mutation
\* runs mutations, one at a time, and each removes its own.
LEMMA TempsKeeps == IInv /\ QueueInv /\ TempsInv /\ [Next]_vars => TempsInv'
<1> SUFFICES ASSUME IInv, QueueInv, TempsInv, [Next]_vars PROVE TempsInv'
  BY Zenon
<1>0. TypeOK /\ OpInv /\ serial \in Seq(Requests) /\ temps \in Nat
  BY Zenon DEF IInv, TypeOK
<1>1. MaxTemps \in Nat /\ MaxTemps > 0
  BY ConstantsAssumption
<1>2. op # Idle => mode = "open"
  BY Zenon DEF TempsInv
<1>3. Idle.step = "none"
  BY Zenon DEF Idle
<1>4. ASSUME NEW m \in {"open", "validation"}, Open(m) PROVE TempsInv'
  BY <1>3, <1>4, Zenon DEF Open, TempsInv, TempsAfterOpen
<1>5. ASSUME NEW k, Turn(k), k \in {"initialize", "advance", "repair"}, mode # "closed"
      PROVE  mode = "open" /\ temps = 0
  <2>1. serial[1].kind = k /\ 1 \in 1..Len(serial)
    BY <1>0, <1>5 DEF Turn
  <2>2. mode # "validation"
    BY <1>5, <2>1, Zenon DEF QueueInv
  <2>3. op = Idle
    BY <1>5, Zenon DEF Turn
  <2> QED BY <1>0, <1>3, <1>5, <2>2, <2>3, Zenon DEF TempsInv, TypeOK
<1>6. CASE RunInitialize \/ RunAdvance \/ RunRepair
  <2>1. CASE UNCHANGED op
    <3>1. UNCHANGED <<mode, temps, op>>
      BY <1>6, <2>1, Zenon DEF RunInitialize, RunAdvance, RunRepair
    <3> QED BY <3>1, Zenon DEF TempsInv, Idle
  <2>2. CASE mode # "closed" /\ op'.step = "write"
    <3>1. UNCHANGED <<mode, temps>> /\ \E k \in {"initialize", "advance", "repair"} : Turn(k)
      BY <1>6, Zenon DEF RunInitialize, RunAdvance, RunRepair
    <3>2. mode = "open" /\ temps = 0
      BY <1>5, <2>2, <3>1, Zenon
    <3> QED BY <2>2, <3>1, <3>2, Zenon DEF TempsInv
  <2>3. UNCHANGED op \/ (mode # "closed" /\ op'.step = "write")
    BY <1>6 DEF RunInitialize, RunAdvance, RunRepair, Install, Unmoved
  <2> QED BY <2>1, <2>2, <2>3, Zenon
<1>7. CASE RunClose
  <2>1. op = Idle /\ op' = op /\ temps' = temps /\ mode' = "closed"
    BY <1>7, Zenon DEF RunClose, Turn
  <2>2. temps <= MaxTemps
    BY <1>0, <1>1, <1>3, <2>1 DEF TempsInv, TypeOK
  <2> QED BY <2>1, <2>2, Zenon DEF TempsInv, Idle
<1>8. CASE WriteTemp
  <2>1. op # Idle /\ op.step = "write"
    BY <1>3, <1>8, Zenon DEF WriteTemp
  <2>2. mode = "open" /\ temps = 0
    BY <1>2, <2>1, Zenon DEF TempsInv
  <2>3. op'.step = "rename" /\ temps' = 1 /\ mode' = mode
    BY <1>0, <1>8, <2>2 DEF WriteTemp, TypeOK, Mutations
  <2> QED BY <2>2, <2>3, Zenon DEF TempsInv
<1>9. CASE RenameTemp
  <2>1. op # Idle /\ op.step = "rename"
    BY <1>3, <1>9, Zenon DEF RenameTemp
  <2>2. mode = "open" /\ temps = 1
    BY <1>2, <2>1, Zenon DEF TempsInv
  <2>3. op'.step = "sync" /\ temps' = 0 /\ mode' = mode
    BY <1>0, <1>9, <2>2 DEF RenameTemp, TypeOK, Mutations
  <2> QED BY <2>2, <2>3, Zenon DEF TempsInv
<1>10. CASE SyncDirectory
  <2>1. op # Idle /\ op.step = "sync"
    BY <1>3, <1>10, Zenon DEF SyncDirectory
  <2>2. mode = "open" /\ temps = 0
    BY <1>2, <2>1, Zenon DEF TempsInv
  <2>3. op'.step \in {"write", "none"} /\ temps' = temps /\ mode' = mode
    BY <1>0, <1>3, <1>10, Zenon DEF SyncDirectory, TypeOK, Mutations
  <2> QED BY <2>2, <2>3, Zenon DEF TempsInv
<1>11. CASE InstallFails
  <2>1. mode = "open" /\ mode' = mode /\ op' = Idle /\ temps' = TempsAfterFailure
    BY <1>2, <1>11, Zenon DEF InstallFails
  <2>2. TempsAfterFailure = 0
    BY <2>1 DEF TempsInv, TempsAfterFailure
  <2> QED BY <1>3, <2>1, <2>2, Zenon DEF TempsInv
<1>12. CASE Crash
  <2>1. temps <= 1 \/ temps <= MaxTemps
    BY DEF TempsInv
  <2>2. mode' = "closed" /\ op' = Idle /\ temps' = temps
    BY <1>12, Zenon DEF Crash
  <2>3. temps <= MaxTemps
    BY <1>0, <1>1, <2>1
  <2> QED BY <2>2, <2>3, Zenon DEF TempsInv, Idle
<1>13. CASE UNCHANGED <<mode, temps, op>>
  BY <1>13, Zenon DEF TempsInv, Idle
<1>14. CASE Next
  <2>1. RunLoad => UNCHANGED <<mode, temps, op>>
    BY Zenon DEF RunLoad
  <2>2. \A s \in Slots : SpoilSlot(s) => UNCHANGED <<mode, temps, op>>
    BY Zenon DEF SpoilSlot
  <2>3. \A c \in Callers : CallClose(c) => UNCHANGED <<mode, temps, op>>
    BY Zenon DEF CallClose
  <2>4. \A c \in Callers : \A k, v : Call(c, k, v) => UNCHANGED <<mode, temps, op>>
    BY Zenon DEF Call
  <2> QED BY <1>4, <1>6, <1>7, <1>8, <1>9, <1>10, <1>11, <1>12, <1>13, <1>14, <2>1, <2>2, <2>3, <2>4, Zenon DEF Next
<1> QED BY <1>13, <1>14, Zenon DEF vars

\* What the rename of _install makes visible: the target is the newest
\* manifest of the new image and the one _select returns.
LEMMA Renamed ==
  ASSUME IInv, RenameTemp
  PROVE  /\ op # Idle /\ Selected(visible)' = op.target
         /\ op'.target = op.target /\ op'.kind = op.kind /\ op'.expected = op.expected
         /\ \E new : images' = Append(images, new)
<1> DEFINE h == Head(op.todo)
           new == [visible EXCEPT ![h] = Holding(op.target)]
<1>1. /\ op # Idle /\ op.todo # <<>> /\ Len(op.target) > 0 /\ Prefix(acked, op.target)
      /\ Compatible(visible[Other(h)], op.target)
  BY DEF IInv, RenameTemp, OpInv, Idle
<1>2. h \in Slots /\ op.target \in Chains /\ op \in Mutations
  BY <1>1 DEF IInv, TypeOK, Mutations, Slots, Other
<1>3. visible \in [Slots -> Contents]
  BY VisibleImage, Zenon
<1>4. new \in [Slots -> Contents] /\ Newest(new, h) /\ new[h] = Holding(op.target)
  BY <1>1, <1>2, <1>3, InstallImage, Zenon
<1>5. images' = Append(images, new) /\ op' = [op EXCEPT !.step = "sync"]
  BY Zenon DEF RenameTemp
<1>6. op'.target = op.target /\ op'.kind = op.kind /\ op'.expected = op.expected
  BY <1>2, <1>5, Zenon DEF Mutations
<1>7. Selected(new) = op.target
  BY <1>2, <1>4, NewestSelected, Zenon DEF Holding
<1> HIDE DEF new
<1>8. visible' = new
  BY <1>4, <1>5 DEF IInv, TypeOK, visible
<1>9. Selected(visible)' = Selected(visible')
  BY Zenon DEF Selected, SelectedSlot, Valid
<1> QED BY <1>1, <1>5, <1>6, <1>7, <1>8, <1>9, Zenon

\* A slot spoilt by the medium does not change what _select returns.
LEMMA SpoiltSelected ==
  ASSUME IInv, NEW s \in Slots, SpoilSlot(s)
  PROVE  Selected(visible)' = Selected(visible) /\ Len(images') = 1 /\ images'[1] = visible'
<1> DEFINE new == [visible EXCEPT ![s] = Spoilt]
<1>1. visible \in [Slots -> Contents] /\ visible["a"] = visible["b"] /\ Valid(visible["a"])
  BY VisibleImage, Zenon DEF SpoilSlot
<1>2. images' = <<new>> /\ visible' = new
  BY Zenon DEF SpoilSlot, visible
<1>3. Selected(new) = Selected(visible)
  BY <1>1, Zenon DEF Selected, SelectedSlot, Valid, Spoilt, Slots
<1> QED BY <1>2, <1>3, Zenon DEF Selected, SelectedSlot, Valid

\* A step that leaves the directory as it is, keeps the mutation or ends it,
\* keeps the history.
LEMMA HistoryStays ==
  ASSUME HistoryInv, UNCHANGED images, op' = Idle \/ UNCHANGED op
  PROVE  HistoryInv'
<1>1. visible' = visible
  BY Zenon DEF visible
<1>2. Idle.kind = "idle" /\ Idle' = Idle
  BY Zenon DEF Idle
<1>3. (\A k \in 1..Len(images) : Prefix(Selected(images[k]), Selected(visible)))'
  BY <1>1 DEF HistoryInv, Selected, SelectedSlot, Valid, Prefix
<1>4. CASE op' = Idle
  BY <1>2, <1>3, <1>4, Zenon DEF HistoryInv
<1>5. CASE op' = op
  <2>1. (op # Idle => Grows(Selected(visible), op.target))'
    BY <1>1, <1>2, <1>5, Zenon DEF HistoryInv, Grows, Selected, SelectedSlot, Valid
  <2>2. (op.kind = "advance" => \E v \in Values : op.target = Append(op.expected, v))'
    BY <1>5, Zenon DEF HistoryInv
  <2> QED BY <1>3, <2>1, <2>2, Zenon DEF HistoryInv
<1> QED BY <1>4, <1>5, Zenon

\* Starting a mutation whose target is the present history or one more.
LEMMA HistoryStarts ==
  ASSUME HistoryInv, UNCHANGED images, NEW r, NEW t, NEW order,
         Install(r, t, order), Grows(Selected(visible), t),
         r.kind = "advance" => \E v \in Values : t = Append(r.expected, v)
  PROVE  HistoryInv'
<1>1. visible' = visible
  BY Zenon DEF visible
<1>2. op'.kind = r.kind /\ op'.expected = r.expected /\ op'.target = t
  BY Zenon DEF Install
<1>3. (\A k \in 1..Len(images) : Prefix(Selected(images[k]), Selected(visible)))'
  BY <1>1 DEF HistoryInv, Selected, SelectedSlot, Valid, Prefix
<1>4. Grows(Selected(visible), op.target)'
  BY <1>1, <1>2, Zenon DEF Grows, Selected, SelectedSlot, Valid
<1> QED BY <1>2, <1>3, <1>4, Zenon DEF HistoryInv

\* A directory of one image is an image of its own history.
LEMMA OneImage ==
  ASSUME IInv', Len(images') = 1, images'[1] = visible',
         op' = Idle \/ (/\ op # Idle /\ op'.kind = op.kind /\ op'.target = op.target
                        /\ op'.expected = op.expected /\ HistoryInv
                        /\ Selected(visible)' = Selected(visible))
  PROVE  HistoryInv'
<1>1. Selected(visible)' \in Chains
  <2>1. visible' \in [Slots -> Contents]
    <3>1. images' \in Seq([Slots -> Contents])
      BY Zenon DEF IInv, TypeOK
    <3> QED BY <3>1
  <2>2. Selected(visible') \in Chains
    BY <2>1, Zenon DEF Selected, Contents, Slots
  <2> QED BY <2>2, Zenon DEF Selected, SelectedSlot, Valid
<1>2. Prefix(Selected(visible)', Selected(visible)')
  BY <1>1, PrefixOrder, Zenon
<1>3. (\A k \in 1..Len(images) : Prefix(Selected(images[k]), Selected(visible)))'
  BY <1>2 DEF Selected, SelectedSlot, Valid, Prefix
<1>4. Idle.kind = "idle"
  BY Zenon DEF Idle
<1>5. CASE op' = Idle
  BY <1>3, <1>4, <1>5, Zenon DEF HistoryInv, Idle
<1>6. CASE op' # Idle
  BY <1>3, <1>6, Zenon DEF HistoryInv, Grows
<1> QED BY <1>5, <1>6, Zenon

\* Every step keeps the possible images on one history.
LEMMA HistoryKeeps == IInv /\ HistoryInv /\ [Next]_vars => HistoryInv'
<1> SUFFICES ASSUME IInv, HistoryInv, [Next]_vars PROVE HistoryInv'
  BY Zenon
<1>0. TypeOK /\ OpInv /\ IInv' /\ op \in Mutations
  BY StepIInv, Zenon DEF IInv, TypeOK
<1>1. Idle.kind = "idle" /\ Idle.step = "none"
  BY Zenon DEF Idle
<1>2. CASE RunInitialize
  <2>1. CASE Install(Head(serial), <<Genesis>>, <<"a", "b">>)
             /\ \A s \in Slots : visible[s].state # "absent" => visible[s] = Holding(<<Genesis>>)
    <3>1. Grows(Selected(visible), <<Genesis>>)
      <4>1. CASE \E s \in Slots : Newest(visible, s)
        <5>1. PICK s \in Slots : Newest(visible, s)
          BY <4>1, Zenon
        <5>2. visible[s] = Holding(<<Genesis>>)
          BY <2>1, <5>1, Zenon DEF Newest, Valid
        <5>3. Selected(visible) = <<Genesis>>
          BY <5>1, <5>2, NewestSelected, VisibleImage DEF Holding
        <5> QED BY <5>3, Zenon DEF Grows
      <4>2. CASE \A s \in Slots : visible[s] = Absent
        <5>1. Selected(visible) = <<>>
          BY <4>2 DEF Selected, SelectedSlot, Absent, Slots
        <5>2. <<Genesis>> = Append(<<>>, Genesis) /\ Genesis \in Values
          BY ConstantsAssumption
        <5> QED BY <5>1, <5>2, Zenon DEF Grows
      <4> QED BY <4>1, <4>2, VisibleImage, Zenon DEF ImageInv
    <3>2. Head(serial).kind = "initialize" /\ UNCHANGED images
      BY <1>2, Zenon DEF RunInitialize, Turn
    <3> QED BY <2>1, <3>1, <3>2, HistoryStarts, Zenon
  <2>2. CASE UNCHANGED op
    BY <1>2, <2>2, HistoryStays, Zenon DEF RunInitialize
  <2> QED BY <1>2, <2>1, <2>2, Zenon DEF RunInitialize
<1>3. CASE RunAdvance
  <2> DEFINE r == Head(serial)
             f == FirstSlot(visible)
             t == Append(Selected(visible), r.value)
  <2>1. r \in Requests /\ r.value \in Values /\ UNCHANGED images
    BY <1>0, <1>3, HeadRequest, Zenon DEF RunAdvance, Turn, Requests
  <2>2. CASE Unmoved(r) /\ Install(r, t, <<f, Other(f)>>)
    <3>1. r.expected = Selected(visible)
      BY <2>2, Zenon DEF Unmoved
    <3>2. Grows(Selected(visible), t) /\ \E v \in Values : t = Append(r.expected, v)
      BY <2>1, <3>1, Zenon DEF Grows
    <3> HIDE DEF r, f, t
    <3> QED BY <2>1, <2>2, <3>2, HistoryStarts, Zenon
  <2>3. CASE UNCHANGED op
    BY <1>3, <2>3, HistoryStays, Zenon DEF RunAdvance
  <2> QED BY <1>3, <2>2, <2>3, Zenon DEF RunAdvance
<1>4. CASE RunRepair
  <2>1. CASE Install(Head(serial), Selected(visible), <<"a", "b">>)
    <3>1. Head(serial).kind = "repair" /\ UNCHANGED images
      BY <1>4, Zenon DEF RunRepair, Turn
    <3>2. Grows(Selected(visible), Selected(visible))
      BY Zenon DEF Grows
    <3> QED BY <2>1, <3>1, <3>2, HistoryStarts, Zenon
  <2>2. CASE UNCHANGED op
    BY <1>4, <2>2, HistoryStays, Zenon DEF RunRepair
  <2> QED BY <1>4, <2>1, <2>2, Zenon DEF RunRepair
<1>5. CASE WriteTemp
  <2>1. /\ op # Idle /\ op'.kind = op.kind /\ op'.target = op.target
        /\ op'.expected = op.expected /\ UNCHANGED images
    BY <1>0, <1>1, <1>5, Zenon DEF WriteTemp, Mutations
  <2>2. visible' = visible
    BY <2>1, Zenon DEF visible
  <2>3. (\A k \in 1..Len(images) : Prefix(Selected(images[k]), Selected(visible)))'
    BY <2>1, <2>2 DEF HistoryInv, Selected, SelectedSlot, Valid, Prefix
  <2>4. Grows(Selected(visible), op.target)'
    BY <2>1, <2>2, Zenon DEF HistoryInv, Grows, Selected, SelectedSlot, Valid
  <2> QED BY <2>1, <2>3, <2>4, Zenon DEF HistoryInv
<1>6. CASE RenameTemp
  <2>1. /\ op # Idle /\ Selected(visible)' = op.target
        /\ op'.target = op.target /\ op'.kind = op.kind /\ op'.expected = op.expected
    BY <1>6, Renamed, Zenon
  <2>2. PICK new : images' = Append(images, new)
    BY <1>6, Renamed, Zenon
  <2>3. Selected(visible) \in Chains /\ Grows(Selected(visible), op.target)
    BY <2>1, SelectedChains, Zenon DEF HistoryInv
  <2>4. op.target \in Chains /\ Prefix(Selected(visible), op.target)
    BY <2>3, GrowsPrefix, Zenon
  <2>5. \A k \in 1..Len(images) : Prefix(Selected(images[k]), op.target)
    BY <2>3, <2>4, SelectedChains, PrefixOrder, Zenon DEF HistoryInv
  <2>6. images \in Seq([Slots -> Contents]) /\ images' \in Seq([Slots -> Contents])
    BY <1>0, Zenon DEF IInv, TypeOK
  <2>7. /\ Len(images') = Len(images) + 1 /\ visible' = images'[Len(images) + 1]
        /\ \A k \in 1..Len(images) : images'[k] = images[k]
    BY <2>2, <2>6 DEF visible
  <2>8. Prefix(op.target, op.target)
    BY <2>4, PrefixOrder, Zenon
  <2>9. Selected(visible') = op.target
    BY <2>1, Zenon DEF Selected, SelectedSlot, Valid
  <2>10. \A k \in 1..Len(images') : Prefix(Selected(images'[k]), op.target)
    <3> TAKE k \in 1..Len(images')
    <3>1. CASE k \in 1..Len(images)
      BY <2>5, <2>7, <3>1, Zenon
    <3>2. CASE k = Len(images) + 1
      BY <2>7, <2>8, <2>9, <3>2, Zenon
    <3>3. Len(images) \in Nat
      BY <2>6
    <3> QED BY <2>7, <3>1, <3>2, <3>3
  <2>11. (\A k \in 1..Len(images) : Prefix(Selected(images[k]), Selected(visible)))'
    BY <2>1, <2>10, Zenon DEF Selected, SelectedSlot, Valid, Prefix
  <2> QED BY <2>1, <2>11, Zenon DEF HistoryInv, Grows
<1>7. CASE SyncDirectory
  <2>1. op # Idle /\ images' = <<visible>> /\ visible' = visible
    BY <1>1, <1>7, Zenon DEF SyncDirectory, SyncedImages, visible
  <2>2. Selected(visible)' = Selected(visible) /\ Len(images') = 1 /\ images'[1] = visible'
    BY <2>1, Zenon DEF Selected, SelectedSlot, Valid
  <2>3. op' = Idle \/ (op'.kind = op.kind /\ op'.target = op.target /\ op'.expected = op.expected)
    BY <1>0, <1>7, Zenon DEF SyncDirectory, Mutations
  <2> QED BY <1>0, <2>1, <2>2, <2>3, OneImage, Zenon
<1>8. CASE Crash
  <2>1. PICK k \in 1..Len(images) : images' = <<images[k]>>
    BY <1>8, Zenon DEF Crash
  <2>2. op' = Idle /\ Len(images') = 1 /\ images'[1] = visible'
    BY <1>8, <2>1, Zenon DEF Crash, visible
  <2> QED BY <1>0, <2>2, OneImage, Zenon
<1>9. ASSUME NEW s \in Slots, SpoilSlot(s) PROVE HistoryInv'
  <2>1. Len(images') = 1 /\ images'[1] = visible'
    BY <1>9, SpoiltSelected, Zenon
  <2>2. op' = Idle
    BY <1>9, Zenon DEF SpoilSlot
  <2> QED BY <1>0, <2>1, <2>2, OneImage, Zenon
<1>10. CASE UNCHANGED images /\ (op' = Idle \/ UNCHANGED op)
  BY <1>10, HistoryStays, Zenon
<1>11. CASE Next
  <2>1. RunLoad \/ RunClose \/ InstallFails => UNCHANGED images /\ (op' = Idle \/ UNCHANGED op)
    BY Zenon DEF RunLoad, RunClose, InstallFails
  <2>2. \A m : Open(m) => UNCHANGED <<images, op>>
    BY Zenon DEF Open
  <2>3. \A c \in Callers : CallClose(c) => UNCHANGED <<images, op>>
    BY Zenon DEF CallClose
  <2>4. \A c \in Callers : \A k, v : Call(c, k, v) => UNCHANGED <<images, op>>
    BY Zenon DEF Call
  <2> QED BY <1>2, <1>3, <1>4, <1>5, <1>6, <1>7, <1>8, <1>9, <1>10, <1>11, <2>1, <2>2, <2>3, <2>4, Zenon DEF Next
<1> QED BY <1>10, <1>11, Zenon DEF vars

\* When the second slot is synced, _select returns the target.
LEMMA SyncedTarget ==
  ASSUME IInv, SyncDirectory
  PROVE  Selected(visible) = op.target
<1> DEFINE h == Head(op.todo)
<1>1. /\ op.todo # <<>> /\ Len(op.target) > 0 /\ visible[h] = Holding(op.target)
      /\ Compatible(visible[Other(h)], op.target)
  BY DEF IInv, SyncDirectory, OpInv, Idle
<1>2. h \in Slots
  BY <1>1 DEF IInv, TypeOK, Mutations, Slots, Other
<1>3. visible \in [Slots -> Contents]
  BY VisibleImage, Zenon
<1>4. Newest(visible, h)
  BY <1>1, <1>3 DEF Newest, Holding, Valid
<1> QED BY <1>1, <1>2, <1>3, <1>4, NewestSelected DEF Holding

-----------------------------------------------------------------------------
JInv == IInv /\ QueueInv /\ TempsInv /\ HistoryInv

\* The queue, the temporaries and the history are as described in every
\* reachable state.
THEOREM StoreHistory == Spec => []JInv
<1>1. Init => JInv
  <2> SUFFICES ASSUME Init PROVE JInv
    BY Zenon
  <2>1. IInv
    BY InitIInv, Zenon
  <2>2. QueueInv
    BY DEF Init, QueueInv
  <2>3. TempsInv
    BY ConstantsAssumption DEF Init, TempsInv
  <2>4. HistoryInv
    <3>1. Len(images) = 1 /\ images[1] = visible /\ Selected(visible) \in Chains /\ op = Idle
      BY <2>1, SelectedChains, Zenon DEF Init, visible
    <3>2. Prefix(Selected(visible), Selected(visible))
      BY <3>1, PrefixOrder, Zenon
    <3> QED BY <3>1, <3>2 DEF HistoryInv, Idle
  <2> QED BY <2>1, <2>2, <2>3, <2>4, Zenon DEF JInv
<1>2. JInv /\ [Next]_vars => JInv'
  BY StepIInv, QueueKeeps, TempsKeeps, HistoryKeeps, Zenon DEF JInv
<1> QED BY <1>1, <1>2, PTL DEF Spec

\* No sequence of crashes, failed mutations, closes and validationOnly opens
\* leaves so many temporaries that _inspectTemps refuses the next open.
THEOREM Reopens == Spec => []OpenNeverRefused
<1>1. JInv => OpenNeverRefused
  BY Zenon DEF JInv, TempsInv, OpenNeverRefused
<1> QED BY <1>1, StoreHistory, PTL

\* An acknowledged advance extends exactly the manifest its caller held: what
\* the serial promise runs in between never lets two callers replace the same
\* manifest.
THEOREM UpdatesKept == Spec => NoLostUpdate
<1>1. JInv /\ [Next]_vars =>
        [op.kind = "advance" /\ op'.kind = "idle" /\ acked' # acked
         => SubSeq(acked', 1, Len(acked') - 1) = op.expected]_vars
  <2> SUFFICES ASSUME JInv, [Next]_vars, op.kind = "advance", op'.kind = "idle", acked' # acked
               PROVE  SubSeq(acked', 1, Len(acked') - 1) = op.expected
    BY Zenon
  <2>1. SyncDirectory /\ acked' = Selected(visible)
    BY Zenon DEF Next, vars, Open, Call, CallClose, RunLoad, RunInitialize, RunAdvance, RunRepair,
      RunClose, WriteTemp, RenameTemp, SyncDirectory, InstallFails, Crash, SpoilSlot
  <2>2. acked' = op.target
    BY <2>1, SyncedTarget, Zenon DEF JInv
  <2>3. PICK v \in Values : op.target = Append(op.expected, v)
    BY Zenon DEF JInv, HistoryInv
  <2>4. op.expected \in Chains
    BY Zenon DEF JInv, IInv, TypeOK, Mutations
  <2>5. Len(acked') = Len(op.expected) + 1 /\ Len(op.expected) \in Nat
    BY <2>2, <2>3, <2>4 DEF Chains
  <2>6. SubSeq(Append(op.expected, v), 1, Len(op.expected)) = op.expected
    BY <2>4 DEF Chains
  <2> QED BY <2>2, <2>3, <2>5, <2>6
<1> QED BY <1>1, StoreHistory, PTL DEF Spec, NoLostUpdate

\* The two-slot store implements the acknowledged history: a rename that
\* replaces the selected manifest appends one entry to it, the return of a
\* mutation acknowledges it, a crash may take back only what no call returned,
\* and every other step leaves both alone.
THEOREM ImplementsHistory == Spec => RegisterSpec
<1>0. \A s, t : Prefix(s, t) <=> Register!Prefix(s, t)
  BY Zenon DEF Prefix, Register!Prefix
<1>1. Init => Register!Init
  BY DEF Init, Register!Init, visible, Selected, SelectedSlot, Slots, Absent
<1>2. JInv /\ [Next]_vars => [Register!Next]_(Register!vars)
  <2> SUFFICES ASSUME JInv, [Next]_vars PROVE [Register!Next]_(Register!vars)
    BY Zenon
  <2>0. IInv /\ HistoryInv /\ Selected(visible) \in Chains /\ acked \in Chains
    BY SelectedChains, Zenon DEF JInv, IInv, TypeOK
  <2>1. CASE UNCHANGED <<images, acked>>
    BY <2>1, Zenon DEF Register!vars, visible, Selected, SelectedSlot, Valid
  <2>2. CASE RenameTemp
    <3>1. op # Idle /\ Selected(visible)' = op.target /\ acked' = acked
      BY <2>0, <2>2, Renamed, Zenon DEF RenameTemp
    <3>2. Grows(Selected(visible), op.target)
      BY <2>0, <3>1, Zenon DEF HistoryInv
    <3> QED BY <3>1, <3>2, Zenon DEF Grows, Register!Next, Register!Install, Register!vars
  <2>3. CASE SyncDirectory
    <3>1. visible' = visible
      BY <2>3, Zenon DEF SyncDirectory, SyncedImages, visible
    <3>2. Selected(visible)' = Selected(visible)
      BY <3>1, Zenon DEF Selected, SelectedSlot, Valid
    <3>3. acked' = acked \/ acked' = Selected(visible)
      BY <2>3, Zenon DEF SyncDirectory
    <3>4. Prefix(acked, Selected(visible)) /\ Prefix(Selected(visible), Selected(visible))
      BY <2>0, VisibleImage, ImageSelected, PrefixOrder, Zenon
    <3>5. CASE acked' = acked
      BY <3>2, <3>5, Zenon DEF Register!vars
    <3>6. CASE acked' = Selected(visible)
      BY <1>0, <2>0, <3>2, <3>4, <3>6, Zenon DEF Register!Next, Register!Acknowledge, Chains
    <3> QED BY <3>3, <3>5, <3>6, Zenon
  <2>4. CASE Crash
    <3>1. PICK k \in 1..Len(images) : images' = <<images[k]>>
      BY <2>4, Zenon DEF Crash
    <3>2. acked' = acked /\ visible' = images[k]
      BY <2>4, <3>1, Zenon DEF Crash, visible
    <3>3. Selected(visible)' = Selected(images[k])
      BY <3>2, Zenon DEF Selected, SelectedSlot, Valid
    <3>4. Prefix(Selected(images[k]), Selected(visible)) /\ Selected(images[k]) \in Chains
      BY <2>0, SelectedChains, Zenon DEF HistoryInv
    <3>5. Prefix(acked, Selected(images[k]))
      BY <2>0, ImageSelected DEF IInv, TypeOK
    <3> QED BY <1>0, <3>2, <3>3, <3>4, <3>5, Zenon DEF Register!Next, Register!LoseUnacknowledged, Chains
  <2>5. ASSUME NEW s \in Slots, SpoilSlot(s) PROVE [Register!Next]_(Register!vars)
    <3>1. Selected(visible)' = Selected(visible) /\ acked' = acked
      BY <2>0, <2>5, SpoiltSelected, Zenon DEF SpoilSlot
    <3> QED BY <3>1, Zenon DEF Register!vars
  <2>6. CASE Next
    <3>1. RunLoad \/ RunInitialize \/ RunAdvance \/ RunRepair \/ RunClose \/ WriteTemp \/ InstallFails
          => UNCHANGED <<images, acked>>
      BY Zenon DEF RunLoad, RunInitialize, RunAdvance, RunRepair, RunClose, WriteTemp, InstallFails
    <3>2. \A m : Open(m) => UNCHANGED <<images, acked>>
      BY Zenon DEF Open
    <3>3. \A c \in Callers : CallClose(c) => UNCHANGED <<images, acked>>
      BY Zenon DEF CallClose
    <3>4. \A c \in Callers : \A k, v : Call(c, k, v) => UNCHANGED <<images, acked>>
      BY Zenon DEF Call
    <3> QED BY <2>1, <2>2, <2>3, <2>4, <2>5, <2>6, <3>1, <3>2, <3>3, <3>4, Zenon DEF Next
  <2> QED BY <2>1, <2>6, Zenon DEF vars
<1> QED BY <1>1, <1>2, StoreHistory, PTL DEF Spec, RegisterSpec, Register!Spec
==============================================================================

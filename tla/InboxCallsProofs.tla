-------------------------- MODULE InboxCallsProofs ---------------------------
(***************************************************************************)
(* What the calls of the Inbox engine rely on, for every set of clients,   *)
(* topics, spends and requests: a call submits only frames that say what   *)
(* is true, it waits for the frame it submitted, and it answers for what   *)
(* the frame did, through overlapping calls, the interval and failures.    *)
(* That a frame does to the state what InboxInvariants says is a           *)
(* hypothesis here; InboxProofs shows it.                                  *)
(***************************************************************************)
EXTENDS InboxEngine, InboxInvariants, TLAPS

LockKeys == ({"inbox"} \X Topics) \cup ({"spend"} \X Spends)
Ops == {"idle", "tick", "open", "create", "renew", "close", "policy", "append", "charged", "watch"}
Places ==
  {"idle", "enter", "done", "body", "stored", "sign", "final", "ack", "ready", "wait", "replay",
   "bodies", "pinned", "clock", "sweep", "verify", "orphans", "quota"}
CallRecords ==
  [op : Ops, request : Requests \cup {None}, pc : Places, io : {"none", "wait", "ok", "failed"},
   held : SUBSET LockKeys, blob : Objects \cup {None}, entries : SUBSET FrameRecords, n : Nat]

IsQueue(q) == q \in Seq({q[i] : i \in 1..Len(q)})
TypeOK ==
  /\ mode \in {"down", "opening", "open"} /\ closing \in BOOLEAN /\ poisoned \in BOOLEAN
  /\ call \in [Callers -> CallRecords] /\ IsQueue(queue)
  /\ blobs \subseteq Objects /\ damaged \subseteq Objects
  /\ acked \subseteq Spends /\ promised \in [Topics -> Nat]

\* The frame of the request is in the log.
Mine(s, request) == s.spends[request.spend] # None /\ s.spends[request.spend].request = request

\* A call of a client, by the place it is at; and what it may answer.
Placing(s, v) ==
  /\ v.pc = "idle" => v = Idle
  /\ v.pc # "idle" => v.request \in Requests /\ v.op = v.request.op
  /\ v.pc \in {"body", "stored", "ack"} => v.op = "append"
  /\ v.pc \in {"ready", "wait"} => v.op = "watch"
  /\ v.pc \in {"bodies", "pinned", "replay"} => Charged(v.op)
  /\ v.pc \in {"sign", "final"} => v.op = "append" \/ Charged(v.op)
  /\ v.pc = "body" => s.inbox[v.request.topic] # None
  /\ v.pc = "bodies" => IsFiniteSet(v.entries)
  /\ v.op = "append" /\ v.pc \in {"sign", "final", "ack"} => Mine(s, v.request)
Answer(s, v) ==
  /\ v.pc = "done" /\ v.op \in {"create", "renew"} =>
       s.inbox[v.request.topic] # None /\ v.n <= s.inbox[v.request.topic].lease
  /\ v.pc = "stored" => Mine(s, v.request)
  /\ v.pc = "ack" => s.spends[v.request.spend].status # "provisional"
ClientOK(s, v) == Placing(s, v) /\ (v.io = "ok" => Answer(s, v))

TimerOK(v) ==
  /\ v.op \in {"idle", "tick", "open"} /\ (v.op = "idle" => v = Idle)
  /\ v.op = "tick" => v.pc \in {"clock", "sweep"}
  /\ v.op = "open" => v.pc \in {"verify", "orphans", "sweep", "quota"}
  /\ v.pc = "quota" => v.io = "none"
  /\ v.pc # "sweep" => v.entries = {}

\* The call asked for the frame, and waits for it.
Asks(v, f) ==
  \/ f.t \in {"create", "renew"} /\ v.pc = "done" /\ v.op = f.t /\ v.request = f.request /\ v.n = f.lease
  \/ f.t \in {"close", "policy"} /\ v.pc = "done" /\ v.op = f.t
  \/ f.t = "append" /\ v.pc = "stored" /\ v.request = f.request
  \/ f.t = "final" /\ v.pc = "ack" /\ v.request.spend = f.spend
  \/ f.t = "pin" /\ v.pc = "pinned"
  \/ f.t = "readfinal" /\ v.pc = "done" /\ Charged(v.op)
  \/ f.t = "floor" /\ v.pc \in {"clock", "verify"}
  \/ f.t = "integrity" /\ v.pc = "orphans"
  \/ f.t \in {"unpin", "gc"} /\ v.pc = "sweep" /\ v.entries = {}
  \/ f.t = "expire" /\ v.pc = "sweep" /\ v.entries = {f.frame}
Waits(v, f) == v.io = "wait" /\ Asks(v, f)
ByTimer(f) == f.t \in {"floor", "integrity", "unpin", "gc", "expire"}

Linked ==
  mode # "down" /\ ~poisoned =>
    /\ \A i \in 1..Len(queue) : Waits(call[queue[i].by], queue[i].f)
    /\ \A i, j \in 1..Len(queue) : queue[i].by = queue[j].by => i = j
Sent ==
  \A i \in 1..Len(queue) :
    /\ FrameOK(st, queue[i].f) /\ queue[i].by \in Callers
    /\ queue[i].by = Timer <=> ByTimer(queue[i].f)
Modes ==
  /\ mode # "open" => ~closing /\ \A c \in Clients : call[c] = Idle
  /\ mode = "down" => call[Timer] = Idle /\ ~poisoned
  /\ mode = "opening" => call[Timer].op = "open"
  /\ mode = "open" => call[Timer].op # "open"
  /\ mode = "opening" /\ poisoned => call[Timer].io = "failed"
Calls == (\A c \in Clients : ClientOK(st, call[c])) /\ TimerOK(call[Timer])
Core == Good(st) /\ TypeOK /\ Linked /\ Sent /\ Modes /\ Calls

\* Every frame has its body, and so has every append on its way; no two share one.
AppendsAt == {i \in 1..Len(queue) : queue[i].f.t = "append"}
Bodies ==
  /\ \A x \in st.frames : x.blob \in blobs \cup damaged
  /\ \A i \in AppendsAt : queue[i].f.blob \in blobs \cup damaged /\ queue[i].f.blob \notin Live
  /\ \A i, j \in AppendsAt : queue[i].f.blob = queue[j].f.blob => i = j
  /\ \A x, y \in st.frames : x.blob = y.blob => x = y
\* The body that the sweep removes is of no frame any more.
Removing ==
  \A x \in call[Timer].entries : call[Timer].io = "ok" =>
    x.blob \in blobs \cup damaged /\ x.blob \notin Live /\ \A i \in AppendsAt : queue[i].f.blob # x.blob

Staged == {c \in Clients : call[c].pc \in {"body", "stored"}}
Acknowledged(s, p) == Pays(s, p, {"append"}) /\ s.spends[p].status # "provisional"
Leased(s, k, n) == n = 0 \/ (s.inbox[k] # None /\ n <= s.inbox[k].lease)
Promises ==
  /\ \A p \in acked : Acknowledged(st, p)
  /\ \A k \in Topics : Leased(st, k, promised[k])

Resting == {"idle", "replay", "sign"}
Frozen ==
  mode # "down" =>
    /\ readOnly = "gap" => /\ \A i \in 1..Len(queue) : queue[i].f.t \in {"floor", "integrity"}
                           /\ \A c \in Clients : call[c].pc \in Resting
    /\ \A i \in 1..Len(queue) : queue[i].f.t = "integrity" => readOnly = "gap"

Watching(s, v) ==
  LET r == s.inbox[v.request.topic]
  IN r # None /\ r.visible <= v.request.after /\ r.obj = "present" /\ r.policy = "visible"
Woke == \A c \in Waiters : Watching(st, call[c])

IInv ==
  /\ Core /\ Bodies /\ Removing /\ Promises /\ Frozen /\ Woke
  /\ staging \in Nat /\ staging = Cardinality(Staged)

-----------------------------------------------------------------------------
\* A part of a finite set is finite, and so is its image.
LEMMA PartFinite ==
  ASSUME NEW S, IsFiniteSet(S), NEW T, T \subseteq S
  PROVE  IsFiniteSet(T)
<1>1. PICK q \in Seq(S) : \A s \in S : \E n \in 1..Len(q) : q[n] = s BY Zenon DEF IsFiniteSet
<1>2. CASE T = {}
  <2>. <<>> \in Seq(T) OBVIOUS
  <2>. QED BY <1>2, Zenon DEF IsFiniteSet
<1>3. CASE T # {}
  <2>1. PICK t : t \in T BY <1>3, Zenon
  <2>. DEFINE p == [i \in 1..Len(q) |-> IF q[i] \in T THEN q[i] ELSE t]
  <2>. p \in Seq(T) /\ Len(p) = Len(q) BY <2>1
  <2>. \A s \in T : \E n \in 1..Len(p) : p[n] = s BY <1>1, Zenon
  <2>. QED BY Zenon DEF IsFiniteSet
<1>. QED BY <1>2, <1>3, Zenon

LEMMA ImageFinite ==
  ASSUME NEW S, IsFiniteSet(S), NEW g
  PROVE  IsFiniteSet({g[x] : x \in S})
<1>. DEFINE T == {g[x] : x \in S}
<1>1. PICK q \in Seq(S) : \A s \in S : \E n \in 1..Len(q) : q[n] = s BY Zenon DEF IsFiniteSet
<1>. DEFINE p == [i \in 1..Len(q) |-> g[q[i]]]
<1>. p \in Seq(T) /\ Len(p) = Len(q) OBVIOUS
<1>. \A s \in T : \E n \in 1..Len(p) : p[n] = s BY <1>1
<1>. QED BY Zenon DEF IsFiniteSet

\* Sequences, by their elements
LEMMA QueueIs == ASSUME NEW S, NEW q \in Seq(S) PROVE IsQueue(q)
<1>. q \in [1..Len(q) -> {q[i] : i \in 1..Len(q)}] /\ Len(q) \in Nat OBVIOUS
<1>. QED BY DEF IsQueue

LEMMA QueueAppend ==
  ASSUME NEW q, IsQueue(q), NEW x
  PROVE  LET a == Append(q, x)
         IN /\ IsQueue(a) /\ Len(q) \in Nat /\ Len(a) = Len(q) + 1
            /\ \A i \in 1..Len(q) : a[i] = q[i]
            /\ a[Len(q) + 1] = x
<1>. DEFINE S == {q[i] : i \in 1..Len(q)}
<1>. q \in Seq(S \cup {x}) /\ x \in S \cup {x} BY DEF IsQueue
<1>. HIDE DEF S
<1>. Append(q, x) \in Seq(S \cup {x}) OBVIOUS
<1>. IsQueue(Append(q, x)) BY QueueIs, Zenon
<1>. QED OBVIOUS

LEMMA QueueTail ==
  ASSUME NEW q, IsQueue(q), q # <<>>
  PROVE  /\ IsQueue(Tail(q)) /\ Len(q) \in Nat \ {0} /\ Len(Tail(q)) = Len(q) - 1
         /\ \A i \in 1..Len(Tail(q)) : Tail(q)[i] = q[i + 1] /\ i + 1 \in 1..Len(q) /\ i + 1 # 1
<1>. DEFINE S == {q[i] : i \in 1..Len(q)}
<1>. q \in Seq(S) BY Zenon DEF IsQueue
<1>. HIDE DEF S
<1>. Tail(q) \in Seq(S) OBVIOUS
<1>. IsQueue(Tail(q)) BY QueueIs, Zenon
<1>. QED OBVIOUS

LEMMA QueuePrefix ==
  ASSUME NEW q, IsQueue(q), NEW n \in 0..Len(q)
  PROVE  LET a == SubSeq(q, 1, n)
         IN /\ IsQueue(a) /\ Len(a) = n /\ \A i \in 1..Len(a) : a[i] = q[i] /\ i \in 1..Len(q)
<1>. DEFINE S == {q[i] : i \in 1..Len(q)}
<1>. q \in Seq(S) BY Zenon DEF IsQueue
<1>. HIDE DEF S
<1>. SubSeq(q, 1, n) \in Seq(S) /\ Len(q) \in Nat OBVIOUS
<1>. IsQueue(SubSeq(q, 1, n)) BY QueueIs, Zenon
<1>. QED OBVIOUS

\* A frame stays true, and so does a call.
LEMMA FrameStays ==
  ASSUME NEW s \in States, NEW t \in States, Later(s, t), NEW f, FrameOK(s, f)
  PROVE  FrameOK(t, f)
<1>. s.floor \in Nat /\ t.floor \in Nat /\ t.floor >= s.floor BY Zenon DEF States, Later
<1>. \A p, ops : Pays(s, p, ops) => Pays(t, p, ops) BY Zenon DEF Pays, Later
<1>. QED BY DEF FrameOK

LEMMA ClientStays ==
  ASSUME NEW s \in States, NEW t \in States, Later(s, t), NEW v \in CallRecords, ClientOK(s, v)
  PROVE  ClientOK(t, v)
<1>1. CASE v.pc = "idle" BY <1>1, Zenon DEF ClientOK, Placing, Answer
<1>2. CASE v.pc # "idle"
  <2>. v.request \in Requests /\ v.op = v.request.op /\ v.request.topic \in Topics /\ v.n \in Nat
    BY <1>2, RequestTypes, Zenon DEF ClientOK, Placing, CallRecords
  <2>2. s.inbox[v.request.topic] # None =>
          /\ t.inbox[v.request.topic] # None
          /\ \A n \in Nat : n <= s.inbox[v.request.topic].lease => n <= t.inbox[v.request.topic].lease
    <3>. /\ s.inbox[v.request.topic] # None => s.inbox[v.request.topic].lease \in Nat
         /\ t.inbox[v.request.topic] # None => t.inbox[v.request.topic].lease \in Nat
      BY Zenon DEF States, Inboxes
    <3>. QED BY DEF Later
  <2>3. v.op = "append" => v.request.spend \in Spends BY RequestTypes, Zenon
  <2>. v.op = "append" /\ Mine(s, v.request) =>
         /\ Mine(t, v.request)
         /\ s.spends[v.request.spend].status # "provisional" => t.spends[v.request.spend].status # "provisional"
    BY <2>3, Zenon DEF Mine, Later
  <2>. Placing(t, v) BY <2>2, Zenon DEF ClientOK, Placing
  <2>. v.io = "ok" => Answer(t, v) BY <2>2, Zenon DEF ClientOK, Placing, Answer
  <2>. QED BY Zenon DEF ClientOK
<1>. QED BY <1>1, <1>2, Zenon

-----------------------------------------------------------------------------
\* What a step of client c may do, v being its call afterwards: the frame it submits
\* says what is true, and it answers no more than the log holds.
Body(v) == IF v.pc \in {"body", "stored"} THEN 1 ELSE 0
Still ==
  /\ mode' = mode /\ st' = st /\ closing' = closing /\ readOnly' = readOnly /\ poisoned' = poisoned
  /\ damaged' = damaged
Sends(c, v, f) ==
  /\ ~poisoned /\ queue' = Append(queue, [by |-> c, f |-> f]) /\ FrameOK(st, f) /\ Waits(v, f)
  /\ f.t = "append" => f.blob \notin blobs \cup damaged /\ f.blob \in blobs'
Moved(c, v) ==
  /\ call' = [call EXCEPT ![c] = v] /\ v \in CallRecords /\ ClientOK(st, v)
  /\ mode = "open" /\ Still /\ \A f : ~Waits(call[c], f)
  /\ blobs \subseteq blobs' /\ blobs' \subseteq Objects
  /\ queue' = queue \/ \E f : Sends(c, v, f) /\ ~ByTimer(f)
  /\ staging' = staging + Body(v) - Body(call[c])
  /\ \A p \in acked' : p \in acked \/ Acknowledged(st, p)
  /\ promised' = promised \/ \E k \in Topics, n \in Nat :
                               promised' = [promised EXCEPT ![k] = n] /\ Leased(st, k, n)
  /\ readOnly = "gap" => v.pc \in Resting /\ queue' = queue
  /\ v.pc = "wait" => Watching(st, v)

\* What most steps leave alone
Untold == acked' = acked /\ promised' = promised
Bare == Still /\ Untold /\ blobs' = blobs /\ staging' = staging

LEMMA AtClient ==
  ASSUME IInv, NEW c \in Clients
  PROVE  /\ call[c] \in CallRecords /\ Placing(st, call[c]) /\ (call[c].io = "ok" => Answer(st, call[c]))
         /\ call[c].pc # "idle" => /\ mode = "open" /\ call[c].request \in Requests
                                   /\ call[c].op = call[c].request.op
         /\ readOnly = "gap" => call[c].pc \in Resting
         /\ blobs \subseteq Objects /\ st \in States /\ Good(st) /\ c \in Callers
         /\ staging \in Nat
<1>. /\ call[c] \in CallRecords /\ ClientOK(st, call[c]) /\ mode \in {"down", "opening", "open"}
     /\ mode # "open" => call[c] = Idle
     /\ blobs \subseteq Objects /\ st \in States /\ Good(st)
  BY Zenon DEF IInv, Core, TypeOK, Calls, Modes, Callers, Good
<1>2. call[c].pc # "idle" => mode = "open" BY DEF Idle
<1>3. readOnly = "gap" /\ mode = "open" => call[c].pc \in Resting BY Zenon DEF IInv, Frozen
<1>. mode # "open" => call[c].pc \in Resting BY DEF Idle, Resting
<1>. staging \in Nat BY Zenon DEF IInv
<1>. QED BY <1>2, <1>3, Zenon DEF ClientOK, Placing, Callers

LEMMA IdleIs ==
  /\ Idle \in CallRecords /\ \A s : ClientOK(s, Idle)
  /\ Idle.pc = "idle" /\ Idle.io = "none" /\ Idle.op = "idle" /\ Idle.entries = {} /\ Idle.blob = None
  /\ TimerOK(Idle)
<1>1. Idle \in CallRecords BY Zenon DEF Idle, CallRecords, Ops, Places
<1>. Idle.pc = "idle" /\ Idle.io = "none" /\ Idle.op = "idle" /\ Idle.entries = {} /\ Idle.blob = None
  BY Zenon DEF Idle
<1>. ASSUME NEW s PROVE ClientOK(s, Idle) BY Zenon DEF ClientOK, Placing
<1>. QED BY <1>1, Zenon DEF TimerOK

\* The call ends.
LEMMA ReturnMoves ==
  ASSUME IInv, NEW c \in Clients, Return(c), queue' = queue, Still, blobs' = blobs, mode = "open",
         \A f : ~Waits(call[c], f), staging' = staging - Body(call[c]),
         \A p \in acked' : p \in acked \/ Acknowledged(st, p),
         promised' = promised \/ \E k \in Topics, n \in Nat :
                                   promised' = [promised EXCEPT ![k] = n] /\ Leased(st, k, n)
  PROVE  Moved(c, Idle)
<1>1. blobs \subseteq Objects /\ staging \in Nat BY AtClient, Zenon
<1>. Body(Idle) = 0 /\ Idle.pc # "wait" /\ Idle.pc \in Resting BY IdleIs, Zenon DEF Body, Resting
<1>. Body(call[c]) \in Int BY DEF Body
<1>. QED BY <1>1, IdleIs DEF Moved, Return

\* The call goes on at another place.
LEMMA GotoMoves ==
  ASSUME IInv, NEW c \in Clients, NEW pc \in Places, Goto(c, pc), queue' = queue, Still, Untold, blobs' = blobs,
         \A f : ~Waits(call[c], f), call[c].pc # "idle", pc \notin {"idle", "body", "stored"},
         staging' = staging - Body(call[c]),
         pc \in {"ready", "wait"} => call[c].op = "watch",
         pc \in {"bodies", "pinned", "replay", "ack", "final"} => pc = "final",
         pc \in {"sign", "final"} => /\ call[c].op = "append" \/ Charged(call[c].op)
                                     /\ call[c].op = "append" => Mine(st, call[c].request),
         readOnly = "gap" => pc \in Resting,
         pc = "wait" => Watching(st, call[c])
  PROVE  \E v : Moved(c, v)
<1>. DEFINE v == [Idle EXCEPT !.op = call[c].op, !.request = call[c].request, !.pc = pc]
<1>1. /\ call[c] \in CallRecords /\ mode = "open" /\ call[c].request \in Requests
      /\ call[c].op = call[c].request.op /\ blobs \subseteq Objects /\ staging \in Nat
  BY AtClient, Zenon
<1>2. call[c].op \in Ops BY <1>1, Zenon DEF CallRecords
<1>. /\ v \in CallRecords /\ v.pc = pc /\ v.op = call[c].op /\ v.request = call[c].request /\ v.io = "none"
  BY <1>1, <1>2, IdleIs, Zenon DEF CallRecords
<1>4. call' = [call EXCEPT ![c] = v] BY Zenon DEF Goto
<1>. HIDE DEF v
<1>5. ClientOK(st, v) BY <1>1, Zenon DEF ClientOK, Placing
<1>6. Body(v) = 0 BY Zenon DEF Body
<1>7. v.pc = "wait" => Watching(st, v) BY Zenon DEF Watching
<1>. Body(call[c]) \in Int BY DEF Body
<1>. Moved(c, v) BY <1>1, <1>4, <1>5, <1>6, <1>7 DEF Moved, Untold
<1>. QED BY Zenon

\* Asking for a frame says nothing of the answer.
LEMMA AsksToo ==
  ASSUME NEW v, NEW w, NEW f, Asks(v, f), w.pc = v.pc, w.op = v.op, w.request = v.request, w.n = v.n,
         w.entries = v.entries
  PROVE  Asks(w, f)
BY DEF Asks

LEMMA AsksAt == ASSUME NEW v, NEW f, Asks(v, f) PROVE v.pc \notin {"idle", "wait", "quota"}
BY Zenon DEF Asks

\* The call goes on to v, and submits nothing.
LEMMA StaysMoves ==
  ASSUME IInv, NEW c \in Clients, NEW v \in CallRecords, call' = [call EXCEPT ![c] = v], ClientOK(st, v),
         Still, Untold, blobs \subseteq blobs', blobs' \subseteq Objects, queue' = queue,
         \A f : ~Waits(call[c], f), mode = "open", staging' = staging + Body(v) - Body(call[c]),
         readOnly = "gap" => v.pc \in Resting, v.pc # "wait"
  PROVE  \E w : Moved(c, w)
<1>. Moved(c, v) BY Zenon DEF Moved, Untold
<1>. QED BY Zenon

\* The call waits for the frame it submits, or fails with a poisoned store.
LEMMA SubmitMoves ==
  ASSUME IInv, NEW c \in Clients, NEW f, NEW next \in CallRecords, Submit(c, f, next),
         FrameOK(st, f), ~ByTimer(f), Asks(next, f), Placing(st, next), next.pc # "idle",
         Still, Untold, blobs \subseteq blobs', blobs' \subseteq Objects,
         f.t = "append" => f.blob \notin blobs \cup damaged /\ f.blob \in blobs',
         \A g : ~Waits(call[c], g), mode = "open", readOnly # "gap",
         staging' = staging, Body(next) = Body(call[c]), next.pc # "wait"
  PROVE  \E v : Moved(c, v)
<1>1. PICK io \in {"wait", "failed"} :
        /\ call' = [call EXCEPT ![c] = [next EXCEPT !.io = io]]
        /\ queue' = queue \/ (~poisoned /\ io = "wait" /\ queue' = Append(queue, [by |-> c, f |-> f]))
  BY Zenon DEF Submit
<1>. DEFINE v == [next EXCEPT !.io = io]
<1>. /\ v \in CallRecords /\ v.pc = next.pc /\ v.op = next.op /\ v.request = next.request /\ v.io = io
     /\ v.n = next.n /\ v.entries = next.entries
  BY Zenon DEF CallRecords
<1>3. call' = [call EXCEPT ![c] = v] BY <1>1, Zenon
<1>. HIDE DEF v
<1>4. ClientOK(st, v) BY Zenon DEF ClientOK, Placing
<1>5. Body(v) = Body(call[c]) /\ Body(v) \in Int /\ staging \in Nat BY AtClient DEF Body
<1>6. io = "wait" => Waits(v, f) BY AsksToo, Zenon DEF Waits
<1>. queue' = queue \/ \E g : Sends(c, v, g) /\ ~ByTimer(g) BY <1>1, <1>6, Zenon DEF Sends
<1>. Moved(c, v) BY <1>3, <1>4, <1>5 DEF Moved, Untold
<1>. QED BY Zenon

-----------------------------------------------------------------------------
\* The handlers of clients
LEMMA StartMoves ==
  ASSUME IInv, NEW c \in Clients, NEW request \in Requests, Start(c, request)
  PROVE  \E v : Moved(c, v)
<1>. DEFINE pc == IF Paid(request) THEN "replay" ELSE IF request.op = "watch" THEN "ready" ELSE "enter"
            v == [Idle EXCEPT !.op = request.op, !.request = request, !.pc = pc]
<1>1. /\ At(c, "idle") /\ mode = "open" /\ call' = [call EXCEPT ![c] = v] /\ queue' = queue
      /\ Writable \/ Paid(request)
  BY Zenon DEF Start
<1>2. Bare BY Zenon DEF Start, Bare, Still, Untold, volatile, history
<1>3. request.op \in Ops BY RequestTypes, Zenon DEF Ops
<1>. /\ pc \in Places /\ pc \in {"replay", "ready", "enter"} /\ (pc = "replay" <=> Paid(request))
     /\ pc = "ready" => request.op = "watch"
  BY Zenon DEF Places
<1>. HIDE DEF pc
<1>. v \in CallRecords /\ v.op = request.op /\ v.request = request /\ v.io = "none" /\ v.pc = pc
  BY <1>3, IdleIs, Zenon DEF CallRecords
<1>. HIDE DEF v
<1>5. Paid(request) => Charged(request.op) BY Zenon DEF Paid
<1>6. ClientOK(st, v) BY <1>5, Zenon DEF ClientOK, Placing
<1>7. \A f : ~Waits(call[c], f) BY <1>1, Zenon DEF Waits, Asks, At
<1>8. Body(v) = 0 /\ Body(call[c]) = 0 /\ staging \in Nat /\ blobs \subseteq Objects
  BY <1>1, AtClient, Zenon DEF Body, At
<1>9. readOnly = "gap" => v.pc \in Resting BY <1>1, Zenon DEF Writable, Resting
<1>10. staging' = staging + Body(v) - Body(call[c]) BY <1>2, <1>8 DEF Bare
<1>11. Still /\ Untold /\ blobs' = blobs BY <1>2, Zenon DEF Bare
<1>. QED BY <1>1, <1>6, <1>7, <1>8, <1>9, <1>10, <1>11, StaysMoves, Zenon

\* A call that keeps keys waits at pc.
LEMMA WaitingIs ==
  ASSUME IInv, NEW c \in Clients, NEW pc \in {"done", "body", "stored", "ack", "bodies", "pinned"},
         NEW keys \in SUBSET LockKeys
  PROVE  LET w == Waiting(c, pc, keys)
         IN /\ w \in CallRecords /\ w.pc = pc /\ w.op = call[c].op /\ w.request = call[c].request
            /\ w.io = call[c].io /\ w.n = call[c].n /\ w.entries = call[c].entries
<1>. call[c] \in CallRecords BY AtClient, Zenon
<1>. pc \in Places BY Zenon DEF Places
<1>. QED BY Zenon DEF Waiting, CallRecords

LEMMA KeysAre ==
  ASSUME NEW request \in Requests
  PROVE  /\ {TopicKey(request)} \in SUBSET LockKeys
         /\ request.op \notin {"close", "policy"} =>
              {SpendKey(request)} \in SUBSET LockKeys /\ Keys(request) \in SUBSET LockKeys
<1>. /\ request.topic \in Topics
     /\ request.op \notin {"close", "policy"} => request.spend \in Spends
  BY RequestTypes, Zenon
<1>. QED BY DEF LockKeys, TopicKey, SpendKey, Keys

\* A call that goes back is done with its frame, and with its body.
LEMMA ReturnBare ==
  ASSUME IInv, NEW c \in Clients, Return(c), queue' = queue, Bare, \A f : ~Waits(call[c], f),
         call[c].pc # "idle", call[c].pc \notin {"body", "stored"}
  PROVE  \E v : Moved(c, v)
<1>. mode = "open" /\ staging \in Nat BY AtClient, Zenon
<1>. Body(call[c]) = 0 BY Zenon DEF Body
<1>. QED BY ReturnMoves DEF Bare, Untold

LEMMA GotoBare ==
  ASSUME IInv, NEW c \in Clients, NEW pc \in {"enter", "sign", "final", "wait"}, Goto(c, pc), queue' = queue,
         Bare, \A f : ~Waits(call[c], f), call[c].pc # "idle", call[c].pc \notin {"body", "stored"},
         pc = "wait" => call[c].op = "watch" /\ Watching(st, call[c]),
         pc \in {"sign", "final"} => /\ call[c].op = "append" \/ Charged(call[c].op)
                                     /\ call[c].op = "append" => Mine(st, call[c].request),
         readOnly = "gap" => pc = "sign"
  PROVE  \E v : Moved(c, v)
<1>1. Body(call[c]) = 0 /\ staging \in Nat BY AtClient, Zenon DEF Body
<1>2. Still /\ Untold /\ blobs' = blobs /\ staging' = staging - Body(call[c]) BY <1>1 DEF Bare
<1>. pc \in Places /\ pc \notin {"idle", "body", "stored"} BY Zenon DEF Places
<1>. /\ pc \in {"ready", "wait"} => pc = "wait"
     /\ pc \in {"bodies", "pinned", "replay", "ack", "final"} => pc = "final"
     /\ pc = "sign" => pc \in Resting
  BY Zenon DEF Resting
<1>. QED BY <1>2, GotoMoves, Zenon

\* A handler that submits a frame from the start of a call.
LEMMA EnterSubmits ==
  ASSUME IInv, NEW c \in Clients, NEW f, NEW next \in CallRecords, Submit(c, f, next), Bare,
         FrameOK(st, f), ~ByTimer(f), f.t # "append", Asks(next, f),
         next.op = call[c].op, next.request = call[c].request,
         next.pc = "done" \/ (next.pc = "ack" /\ next.op = "append" /\ Mine(st, next.request)),
         call[c].pc \in {"enter", "final"}
  PROVE  \E v : Moved(c, v)
<1>. /\ call[c].request \in Requests /\ call[c].op = call[c].request.op /\ mode = "open"
     /\ blobs \subseteq Objects /\ readOnly # "gap"
  BY AtClient, Zenon DEF Resting
<1>2. Placing(st, next) BY Zenon DEF Placing
<1>. \A g : ~Waits(call[c], g) BY Zenon DEF Waits, Asks
<1>. Body(next) = Body(call[c]) BY Zenon DEF Body
<1>. QED BY <1>2, SubmitMoves, Zenon DEF Bare

LEMMA CreateMoves ==
  ASSUME IInv, NEW c \in Clients, CreateInbox(c) PROVE \E v : Moved(c, v)
<1>. DEFINE request == call[c].request
            lease == st.floor + Lease
            f == [t |-> "create", request |-> request, epoch |-> st.floor, lease |-> lease]
            w == Waiting(c, "done", Keys(request))
            next == [w EXCEPT !.n = lease]
<1>1. call[c].pc = "enter" /\ call[c].op = "create" BY Zenon DEF CreateInbox, Enters, At
<1>2. Bare BY Zenon DEF CreateInbox, Bare, Still, Untold, rest, volatile, history
<1>3. request \in Requests /\ request.op = "create" /\ st.floor \in Nat
  BY <1>1, AtClient, Zenon DEF States
<1>4. lease \in Nat BY <1>3, InboxConstants
<1>5. Submit(c, f, next) \/ (Return(c) /\ queue' = queue) BY Zenon DEF CreateInbox
<1>6. w \in CallRecords /\ w.pc = "done" /\ w.op = "create" /\ w.request = request
  <2>. Keys(request) \in SUBSET LockKeys BY <1>1, <1>3, KeysAre, Zenon
  <2>. QED BY <1>1, <1>3, WaitingIs
<1>. HIDE DEF w
<1>. next \in CallRecords /\ next.pc = "done" /\ next.op = "create" /\ next.request = request /\ next.n = lease
  BY <1>4, <1>6, Zenon DEF CallRecords
<1>8. FrameOK(st, f) /\ ~ByTimer(f) /\ f.t # "append" BY <1>3, <1>4, Zenon DEF FrameOK, ByTimer
<1>. Asks(next, f) BY Zenon DEF Asks
<1>. \A g : ~Waits(call[c], g) BY <1>1, Zenon DEF Waits, Asks
<1>. HIDE DEF f, next
<1>. QED BY <1>1, <1>2, <1>5, <1>8, EnterSubmits, ReturnBare, Zenon

LEMMA RenewMoves ==
  ASSUME IInv, NEW c \in Clients, RenewInbox(c) PROVE \E v : Moved(c, v)
<1>. DEFINE request == call[c].request
            lease == st.floor + Lease
            f == [t |-> "renew", request |-> request, epoch |-> st.floor, lease |-> lease,
                  rev |-> request.rev, old |-> request.lease]
            w == Waiting(c, "done", Keys(request))
            next == [w EXCEPT !.n = lease]
<1>1. call[c].pc = "enter" /\ call[c].op = "renew" BY Zenon DEF RenewInbox, Enters, At
<1>2. Bare BY Zenon DEF RenewInbox, Bare, Still, Untold, rest, volatile, history
<1>3. request \in Requests /\ request.op = "renew" /\ st.floor \in Nat
  BY <1>1, AtClient, Zenon DEF States
<1>4. lease \in Nat /\ request.rev \in Nat BY <1>3, InboxConstants, RequestTypes
<1>5. Submit(c, f, next) \/ (Return(c) /\ queue' = queue) BY Zenon DEF RenewInbox
<1>6. w \in CallRecords /\ w.pc = "done" /\ w.op = "renew" /\ w.request = request
  <2>. Keys(request) \in SUBSET LockKeys BY <1>1, <1>3, KeysAre, Zenon
  <2>. QED BY <1>1, <1>3, WaitingIs
<1>. HIDE DEF w
<1>. next \in CallRecords /\ next.pc = "done" /\ next.op = "renew" /\ next.request = request /\ next.n = lease
  BY <1>4, <1>6, Zenon DEF CallRecords
<1>8. FrameOK(st, f) /\ ~ByTimer(f) /\ f.t # "append" BY <1>3, <1>4, Zenon DEF FrameOK, ByTimer
<1>. Asks(next, f) BY Zenon DEF Asks
<1>. \A g : ~Waits(call[c], g) BY <1>1, Zenon DEF Waits, Asks
<1>. HIDE DEF f, next
<1>. QED BY <1>1, <1>2, <1>5, <1>8, EnterSubmits, ReturnBare, Zenon

LEMMA CloseMoves ==
  ASSUME IInv, NEW c \in Clients, CloseInbox(c) PROVE \E v : Moved(c, v)
<1>. DEFINE request == call[c].request
            f == [t |-> "close", request |-> request, rev |-> request.rev, old |-> request.lease]
            next == Waiting(c, "done", {TopicKey(request)})
<1>1. call[c].pc = "enter" /\ call[c].op = "close" BY Zenon DEF CloseInbox, Enters, At
<1>2. Bare BY Zenon DEF CloseInbox, Bare, Still, Untold, rest, volatile, history
<1>3. request \in Requests /\ request.op = "close" BY <1>1, AtClient, Zenon
<1>4. request.rev \in Nat BY <1>3, RequestTypes, Zenon
<1>5. Submit(c, f, next) \/ (Return(c) /\ queue' = queue) BY Zenon DEF CloseInbox
<1>. next \in CallRecords /\ next.pc = "done" /\ next.op = "close" /\ next.request = request
  <2>. {TopicKey(request)} \in SUBSET LockKeys BY <1>1, <1>3, KeysAre, Zenon
  <2>. QED BY <1>1, <1>3, WaitingIs
<1>7. FrameOK(st, f) /\ ~ByTimer(f) /\ f.t # "append" BY <1>3, <1>4, Zenon DEF FrameOK, ByTimer
<1>. Asks(next, f) BY Zenon DEF Asks
<1>. \A g : ~Waits(call[c], g) BY <1>1, Zenon DEF Waits, Asks
<1>. HIDE DEF f, next
<1>. QED BY <1>1, <1>2, <1>5, <1>7, EnterSubmits, ReturnBare, Zenon

LEMMA PolicyMoves ==
  ASSUME IInv, NEW c \in Clients, SetPolicy(c) PROVE \E v : Moved(c, v)
<1>. DEFINE request == call[c].request
            k == request.topic
            f == [t |-> "policy", topic |-> k, rev |-> st.inbox[k].policyRev, policy |-> request.policy]
            next == Waiting(c, "done", {TopicKey(request)})
<1>1. call[c].pc = "enter" /\ call[c].op = "policy" BY Zenon DEF SetPolicy, Enters, At
<1>2. Bare BY Zenon DEF SetPolicy, Bare, Still, Untold, rest, volatile, history
<1>3. request \in Requests /\ request.op = "policy" /\ st \in States BY <1>1, AtClient, Zenon
<1>4. k \in Topics /\ request.policy \in {"visible", "suppressed"} BY <1>3, RequestTypes, Zenon
<1>5. (st.inbox[k] # None /\ Submit(c, f, next)) \/ (Return(c) /\ queue' = queue) BY Zenon DEF SetPolicy
<1>6. next \in CallRecords /\ next.pc = "done" /\ next.op = "policy" /\ next.request = request
  <2>. {TopicKey(request)} \in SUBSET LockKeys BY <1>1, <1>3, KeysAre, Zenon
  <2>. QED BY <1>1, <1>3, WaitingIs
<1>7. st.inbox[k] # None => st.inbox[k].policyRev \in Nat BY <1>3, <1>4, Zenon DEF States, Inboxes
<1>8. st.inbox[k] # None => FrameOK(st, f) BY <1>4, <1>7, Zenon DEF FrameOK
<1>. ~ByTimer(f) /\ f.t # "append" /\ Asks(next, f) BY <1>6, Zenon DEF Asks, ByTimer
<1>. \A g : ~Waits(call[c], g) BY <1>1, Zenon DEF Waits, Asks
<1>. HIDE DEF f, next
<1>. QED BY <1>1, <1>2, <1>5, <1>6, <1>8, EnterSubmits, ReturnBare, Zenon

\* The receipt promises the lease that is stored, or one that was extended since.
LEMMA DoneMoves ==
  ASSUME IInv, NEW c \in Clients, Done(c) PROVE \E v : Moved(c, v)
<1>. call[c].pc = "done" /\ call[c].io \in {"ok", "failed"} /\ Return(c) /\ queue' = queue BY Zenon DEF Done, At
<1>2. Still /\ blobs' = blobs /\ staging' = staging /\ acked' = acked BY Zenon DEF Done, Still, volatile
<1>. /\ call[c].request \in Requests /\ call[c].op = call[c].request.op /\ call[c] \in CallRecords
     /\ mode = "open" /\ staging \in Nat /\ (call[c].io = "ok" => Answer(st, call[c]))
  BY AtClient, Zenon
<1>4. call[c].request.topic \in Topics /\ call[c].n \in Nat BY RequestTypes, Zenon DEF CallRecords
<1>5. promised' = promised \/ \E k \in Topics, n \in Nat :
                                promised' = [promised EXCEPT ![k] = n] /\ Leased(st, k, n)
  BY <1>4, Zenon DEF Done, Answer, Leased
<1>. \A g : ~Waits(call[c], g) BY Zenon DEF Waits
<1>6. Body(call[c]) = 0 BY Zenon DEF Body
<1>7. staging' = staging - Body(call[c]) BY <1>2, <1>6
<1>. QED BY <1>2, <1>5, <1>7, ReturnMoves, Zenon

LEMMA BeginAppendMoves ==
  ASSUME IInv, NEW c \in Clients, BeginAppend(c) PROVE \E v : Moved(c, v)
<1>. DEFINE request == call[c].request
            v == Waiting(c, "body", Keys(request))
<1>1. call[c].pc = "enter" /\ call[c].op = "append" BY Zenon DEF BeginAppend, Enters, At
<1>2. Still /\ Untold /\ blobs' = blobs /\ queue' = queue BY Zenon DEF BeginAppend, Still, Untold, history
<1>3. /\ request \in Requests /\ request.op = "append" /\ st \in States /\ mode = "open"
      /\ blobs \subseteq Objects /\ staging \in Nat /\ readOnly # "gap" /\ call[c] \in CallRecords
  BY <1>1, AtClient, Zenon DEF Resting
<1>4. \A g : ~Waits(call[c], g) BY <1>1, Zenon DEF Waits, Asks
<1>5. Body(call[c]) = 0 BY <1>1, Zenon DEF Body
<1>6. \/ Visible(st, request.topic) /\ call' = [call EXCEPT ![c] = v] /\ staging' = staging + 1
      \/ Replays(request) /\ Goto(c, "sign") /\ staging' = staging
      \/ Return(c) /\ staging' = staging
  BY Zenon DEF BeginAppend
<1>7. CASE Visible(st, request.topic) /\ call' = [call EXCEPT ![c] = v] /\ staging' = staging + 1
  <2>. /\ v \in CallRecords /\ v.pc = "body" /\ v.op = "append" /\ v.request = request /\ v.io = call[c].io
    <3>. Keys(request) \in SUBSET LockKeys BY <1>1, <1>3, KeysAre, Zenon
    <3>. QED BY <1>1, <1>3, WaitingIs
  <2>. HIDE DEF v
  <2>2. st.inbox[request.topic] # None BY <1>7, Zenon DEF Visible, Present
  <2>3. ClientOK(st, v) BY <2>2, <1>3, Zenon DEF ClientOK, Placing, Answer
  <2>4. Body(v) = 1 BY Zenon DEF Body
  <2>5. staging' = staging + Body(v) - Body(call[c]) BY <1>3, <1>5, <1>7, <2>4
  <2>. QED BY <1>2, <1>3, <1>4, <1>7, <2>3, <2>5, StaysMoves, Zenon
<1>. CASE Replays(request) /\ Goto(c, "sign") /\ staging' = staging
  <2>. Mine(st, request) BY Zenon DEF Replays, Fresh, Mine
  <2>. Bare BY <1>2, Zenon DEF Bare
  <2>. QED BY <1>1, <1>2, <1>3, <1>4, GotoBare, Zenon
<1>. CASE Return(c) /\ staging' = staging BY <1>1, <1>2, <1>4, ReturnBare, Zenon DEF Bare
<1>. QED BY <1>6, <1>7, Zenon

\* The body is new: no file, no frame and no other append has its object.
LEMMA PublishMoves ==
  ASSUME IInv, NEW c \in Clients, PublishFrame(c) PROVE \E v : Moved(c, v)
<1>. DEFINE request == call[c].request
            r == st.inbox[request.topic]
            expires == Expiry(r.lease, st.floor)
            o == CHOOSE o \in Unused : TRUE
            f == [t |-> "append", request |-> request, epoch |-> st.floor, blob |-> o,
                  rev |-> r.alloc + 1, lease |-> r.lease, expires |-> expires]
            w == Waiting(c, "stored", Keys(request))
            next == [w EXCEPT !.blob = o]
<1>1. call[c].pc = "body" /\ Unused # {} BY Zenon DEF PublishFrame, At
<1>2. Still /\ Untold BY Zenon DEF PublishFrame, Still, Untold, history
<1>3. /\ request \in Requests /\ request.op = "append" /\ call[c].op = "append" /\ st \in States
      /\ mode = "open" /\ blobs \subseteq Objects /\ staging \in Nat /\ readOnly # "gap" /\ r # None
  BY <1>1, AtClient, Zenon DEF Resting, Placing
<1>4. request.topic \in Topics BY <1>3, RequestTypes, Zenon
<1>5. r.lease \in Nat /\ r.alloc \in Nat /\ st.floor \in Nat BY <1>3, <1>4, Zenon DEF States, Inboxes
<1>6. expires \in Nat BY <1>5, InboxConstants DEF Expiry
<1>7. o \in Unused BY <1>1, Zenon
<1>8. o \in Objects /\ o \notin blobs \cup damaged BY <1>7, Zenon DEF Unused
<1>9. blobs' = blobs \cup {o} BY Zenon DEF PublishFrame
<1>10. \/ Return(c) /\ staging' = staging - 1 /\ queue' = queue
       \/ ~(expires <= st.floor) /\ Submit(c, f, next) /\ staging' = staging
  BY Zenon DEF PublishFrame
<1>11. \A g : ~Waits(call[c], g) BY <1>1, Zenon DEF Waits, Asks
<1>12. Body(call[c]) = 1 BY <1>1, Zenon DEF Body
<1>13. CASE Return(c) /\ staging' = staging - 1 /\ queue' = queue
  <2>1. Body(Idle) = 0 /\ Idle.pc # "wait" /\ Idle.pc \in Resting BY IdleIs, Zenon DEF Body, Resting
  <2>2. call' = [call EXCEPT ![c] = Idle] BY <1>13, Zenon DEF Return
  <2>3. blobs \subseteq blobs' /\ blobs' \subseteq Objects BY <1>3, <1>8, <1>9, Zenon
  <2>4. staging' = staging + Body(Idle) - Body(call[c]) BY <1>3, <1>12, <1>13, <2>1
  <2>5. ClientOK(st, Idle) /\ Idle \in CallRecords BY IdleIs, Zenon
  <2>. QED BY <1>2, <1>3, <1>11, <1>13, <2>1, <2>2, <2>3, <2>4, <2>5, StaysMoves, Zenon
<1>14. CASE ~(expires <= st.floor) /\ Submit(c, f, next) /\ staging' = staging
  <2>1. w \in CallRecords /\ w.pc = "stored" /\ w.op = "append" /\ w.request = request
    <3>. Keys(request) \in SUBSET LockKeys BY <1>3, KeysAre, Zenon
    <3>. QED BY <1>3, WaitingIs
  <2>. HIDE DEF w
  <2>. /\ next \in CallRecords /\ next.pc = "stored" /\ next.op = "append" /\ next.request = request
    BY <1>8, <2>1, Zenon DEF CallRecords
  <2>. HIDE DEF expires, r, o, f, next
  <2>9. ~(expires <= st.floor) BY <1>14, Zenon
  <2>3. r.alloc + 1 \in Nat /\ expires > st.floor BY <2>9, <1>5, <1>6
  <2>. USE DEF f, next
  <2>4. FrameOK(st, f) BY <1>3, <1>5, <1>6, <1>8, <2>3, Zenon DEF FrameOK
  <2>5. ~ByTimer(f) /\ Asks(next, f) /\ f.blob = o BY Zenon DEF Asks, ByTimer
  <2>. HIDE DEF f, next
  <2>6. Placing(st, next) BY <1>3, Zenon DEF Placing
  <2>. Body(next) = Body(call[c]) BY <1>12, Zenon DEF Body
  <2>. blobs \subseteq blobs' /\ blobs' \subseteq Objects /\ o \in blobs' BY <1>3, <1>8, <1>9, Zenon
  <2>. QED BY <1>2, <1>3, <1>8, <1>11, <1>14, <2>4, <2>5, <2>6, SubmitMoves, Zenon
<1>. QED BY <1>10, <1>13, <1>14, Zenon

LEMMA BodyFailsMoves ==
  ASSUME IInv, NEW c \in Clients, BodyFails(c) PROVE \E v : Moved(c, v)
<1>. /\ call[c].pc = "body" /\ Return(c) /\ queue' = queue /\ staging' = staging - 1 BY Zenon DEF BodyFails, At
<1>2. Still /\ Untold /\ blobs' = blobs BY Zenon DEF BodyFails, Still, Untold, history
<1>3. mode = "open" BY AtClient, Zenon
<1>. \A g : ~Waits(call[c], g) BY Zenon DEF Waits, Asks
<1>. Body(call[c]) = 1 BY Zenon DEF Body
<1>. QED BY <1>2, <1>3, ReturnMoves, Zenon DEF Untold

LEMMA StoredMoves ==
  ASSUME IInv, NEW c \in Clients, Stored(c) PROVE \E v : Moved(c, v)
<1>. /\ call[c].pc = "stored" /\ call[c].io \in {"ok", "failed"} /\ queue' = queue /\ staging' = staging - 1
     /\ (call[c].io = "ok" /\ Goto(c, "sign")) \/ Return(c)
  BY Zenon DEF Stored, At
<1>2. Still /\ Untold /\ blobs' = blobs BY Zenon DEF Stored, Still, Untold, history
<1>3. /\ mode = "open" /\ call[c].op = "append" /\ readOnly # "gap"
      /\ call[c].io = "ok" => Mine(st, call[c].request)
  BY AtClient, Zenon DEF Placing, Answer, Resting
<1>. \A g : ~Waits(call[c], g) BY Zenon DEF Waits
<1>. Body(call[c]) = 1 BY Zenon DEF Body
<1>. CASE Return(c) BY <1>2, <1>3, ReturnMoves, Zenon DEF Untold
<1>. CASE call[c].io = "ok" /\ Goto(c, "sign")
  BY <1>2, <1>3, GotoMoves, Zenon DEF Places, Resting
<1>. QED BY Zenon

LEMMA BeginFinalMoves ==
  ASSUME IInv, NEW c \in Clients, BeginFinal(c) PROVE \E v : Moved(c, v)
<1>. /\ call[c].pc = "sign" /\ queue' = queue
     /\ (Writable /\ Goto(c, "final")) \/ Return(c)
  BY Zenon DEF BeginFinal, Signing, At
<1>2. Bare BY Zenon DEF BeginFinal, Bare, Still, Untold, rest, volatile, history
<1>3. /\ mode = "open" /\ staging \in Nat
      /\ call[c].op = "append" \/ Charged(call[c].op)
      /\ call[c].op = "append" => Mine(st, call[c].request)
  BY AtClient, Zenon DEF Placing
<1>. \A g : ~Waits(call[c], g) BY Zenon DEF Waits, Asks
<1>. CASE Return(c) BY <1>2, ReturnBare, Zenon
<1>. CASE Writable /\ Goto(c, "final")
  <2>. readOnly # "gap" BY Zenon DEF Writable
  <2>. QED BY <1>2, <1>3, GotoBare, Zenon
<1>. QED BY Zenon

LEMMA FinalizeAppendMoves ==
  ASSUME IInv, NEW c \in Clients, FinalizeAppendAck(c) PROVE \E v : Moved(c, v)
<1>. DEFINE request == call[c].request
            f == [t |-> "final", spend |-> request.spend, epoch |-> st.floor]
            next == Waiting(c, "ack", {SpendKey(request)})
<1>1. call[c].pc = "final" /\ call[c].op = "append" BY Zenon DEF FinalizeAppendAck, At
<1>2. Still /\ promised' = promised /\ blobs' = blobs /\ staging' = staging
  BY Zenon DEF FinalizeAppendAck, Still, volatile
<1>3. /\ request \in Requests /\ request.op = "append" /\ Mine(st, request) /\ staging \in Nat /\ mode = "open"
  BY <1>1, AtClient, Zenon DEF Placing
<1>4. request.spend \in Spends BY <1>3, RequestTypes, Zenon
<1>5. \/ Submit(c, f, next) /\ acked' = acked
      \/ /\ ~HasStatus(st, request.spend, {"provisional"})
         /\ Return(c) /\ acked' = acked \cup {request.spend} /\ queue' = queue
  BY Zenon DEF FinalizeAppendAck
<1>6. \A g : ~Waits(call[c], g) BY <1>1, Zenon DEF Waits, Asks
<1>7. Pays(st, request.spend, {"append"}) BY <1>3, <1>4, Zenon DEF Pays, Mine
<1>8. CASE Submit(c, f, next) /\ acked' = acked
  <2>. next \in CallRecords /\ next.pc = "ack" /\ next.op = "append" /\ next.request = request
    <3>. {SpendKey(request)} \in SUBSET LockKeys BY <1>1, <1>3, KeysAre, Zenon
    <3>. QED BY <1>1, <1>3, WaitingIs
  <2>. HIDE DEF next
  <2>2. FrameOK(st, f) BY <1>7, Zenon DEF FrameOK
  <2>. ~ByTimer(f) /\ f.t # "append" /\ Asks(next, f) BY Zenon DEF ByTimer, Asks
  <2>. HIDE DEF f
  <2>. Bare BY <1>2, <1>8, Zenon DEF Bare, Untold
  <2>. QED BY <1>1, <1>3, <1>8, <2>2, EnterSubmits, Zenon
<1>. CASE /\ ~HasStatus(st, request.spend, {"provisional"})
          /\ Return(c) /\ acked' = acked \cup {request.spend} /\ queue' = queue
  <2>. Acknowledged(st, request.spend) BY <1>7, Zenon DEF Acknowledged, HasStatus, Pays
  <2>1. Body(call[c]) = 0 BY <1>1, Zenon DEF Body
  <2>2. staging' = staging - Body(call[c]) BY <1>2, <1>3, <2>1
  <2>. QED BY <1>2, <1>3, <1>6, <2>2, ReturnMoves, Zenon
<1>. QED BY <1>5, <1>8, Zenon

LEMMA AckedMoves ==
  ASSUME IInv, NEW c \in Clients, Acked(c) PROVE \E v : Moved(c, v)
<1>. /\ call[c].pc = "ack" /\ call[c].io \in {"ok", "failed"} /\ queue' = queue /\ Return(c)
     /\ acked' = acked \/ (call[c].io = "ok" /\ acked' = acked \cup {call[c].request.spend})
  BY Zenon DEF Acked, At
<1>2. Still /\ promised' = promised /\ blobs' = blobs /\ staging' = staging
  BY Zenon DEF Acked, Still, volatile
<1>. /\ mode = "open" /\ staging \in Nat /\ call[c].request \in Requests /\ call[c].request.op = "append"
     /\ Mine(st, call[c].request)
     /\ call[c].io = "ok" => st.spends[call[c].request.spend].status # "provisional"
  BY AtClient, Zenon DEF Placing, Answer
<1>4. call[c].request.spend \in Spends BY RequestTypes, Zenon
<1>5. call[c].io = "ok" => Acknowledged(st, call[c].request.spend)
  BY <1>4, Zenon DEF Acknowledged, Pays, Mine
<1>. \A g : ~Waits(call[c], g) BY Zenon DEF Waits
<1>6. Body(call[c]) = 0 BY Zenon DEF Body
<1>7. staging' = staging - Body(call[c]) BY <1>2, <1>6
<1>. QED BY <1>2, <1>5, <1>7, ReturnMoves, Zenon

\* A watch waits only for what is not there yet.
LEMMA WatchMoves ==
  ASSUME IInv, NEW c \in Clients, WatchReady(c) \/ WatchTimeout(c) \/ WatchAborted(c)
  PROVE  \E v : Moved(c, v)
<1>1. call[c].pc \in {"ready", "wait"} /\ queue' = queue BY Zenon DEF WatchReady, WatchTimeout, WatchAborted, At
<1>2. Bare BY Zenon DEF WatchReady, WatchTimeout, WatchAborted, Bare, Still, Untold, rest, volatile, history
<1>3. /\ Return(c) \/ Goto(c, "enter") \/ Goto(c, "wait")
      /\ Goto(c, "wait") => Return(c) \/ Goto(c, "enter") \/ Watching(st, call[c])
  <2>1. CASE WatchTimeout(c) \/ WatchAborted(c) BY <2>1, Zenon DEF WatchTimeout, WatchAborted
  <2>2. CASE WatchReady(c)
    <3>. DEFINE r == st.inbox[call[c].request.topic]
    <3>1. \/ Return(c) \/ Goto(c, "enter")
          \/ Goto(c, "wait") /\ Visible(st, call[c].request.topic) /\ ~(r.visible > call[c].request.after)
      BY <2>2, Zenon DEF WatchReady
    <3>. CASE Goto(c, "wait") /\ Visible(st, call[c].request.topic) /\ ~(r.visible > call[c].request.after)
      <4>1. call[c].request \in Requests /\ call[c].request.op = "watch" /\ st \in States
        BY <1>1, AtClient, Zenon DEF Placing
      <4>. call[c].request.topic \in Topics /\ call[c].request.after \in Nat BY <4>1, RequestTypes, Zenon
      <4>. r # None /\ r.obj = "present" /\ r.policy = "visible" BY Zenon DEF Visible, Present
      <4>. r.visible \in Nat BY <4>1, Zenon DEF States, Inboxes
      <4>2. r.visible <= call[c].request.after
        <5>. HIDE DEF r
        <5>. QED OBVIOUS
      <4>. QED BY <4>2, Zenon DEF Watching
    <3>. QED BY <3>1, Zenon
  <2>. QED BY <2>1, <2>2, Zenon
<1>4. /\ mode = "open" /\ staging \in Nat /\ call[c].op = "watch" /\ readOnly # "gap"
  BY <1>1, AtClient, Zenon DEF Placing, Resting
<1>. \A g : ~Waits(call[c], g) BY <1>1, Zenon DEF Waits, Asks
<1>7. CASE Return(c) BY <1>1, <1>2, <1>7, ReturnBare, Zenon
<1>. call[c].pc # "idle" /\ call[c].pc \notin {"body", "stored"} BY <1>1, Zenon
<1>. CASE Goto(c, "enter") BY <1>1, <1>2, <1>4, GotoBare, Zenon
<1>. CASE Goto(c, "wait") /\ Watching(st, call[c])
  BY <1>1, <1>2, <1>4, GotoBare, Zenon
<1>. QED BY <1>3, <1>7, Zenon

\* The page of an earlier call is signed again, or there is none.
LEMMA RepeatMoves ==
  ASSUME IInv, NEW c \in Clients, Return(c) \/ Goto(c, "sign"), queue' = queue, Bare,
         Charged(call[c].op), \A g : ~Waits(call[c], g), call[c].pc \in {"replay", "enter", "pinned"}
  PROVE  \E v : Moved(c, v)
<1>2. call[c].op # "append" /\ call[c].pc # "idle" /\ call[c].pc \notin {"body", "stored"} BY Zenon DEF Charged
<1>. CASE Return(c) BY ReturnBare, Zenon
<1>. CASE Goto(c, "sign") BY <1>2, GotoBare, Zenon
<1>. QED BY Zenon

LEMMA ReplayMoves ==
  ASSUME IInv, NEW c \in Clients, ReadPinnedPage(c) \/ PagePinned(c) PROVE \E v : Moved(c, v)
<1>. /\ call[c].pc \in {"replay", "pinned"} /\ queue' = queue
     /\ call[c].pc = "pinned" => call[c].io \in {"ok", "failed"}
     /\ Return(c) \/ Goto(c, "sign")
  BY Zenon DEF ReadPinnedPage, PagePinned, At
<1>2. Bare BY Zenon DEF ReadPinnedPage, PagePinned, Bare, Still, Untold, rest, volatile, history
<1>. Charged(call[c].op) BY AtClient, Zenon DEF Placing
<1>. \A g : ~Waits(call[c], g) BY Zenon DEF Waits, Asks
<1>. QED BY <1>2, RepeatMoves, Zenon

LEMMA ChargedPageMoves ==
  ASSUME IInv, NEW c \in Clients, ChargedPage(c) PROVE \E v : Moved(c, v)
<1>. DEFINE request == call[c].request
            n == st.inbox[request.topic].visible
            page == Page(request.topic, request.after)
            w == Waiting(c, "bodies", Keys(request))
            v == [w EXCEPT !.n = n, !.entries = page]
<1>1. call[c].pc = "enter" /\ Charged(call[c].op) /\ queue' = queue BY Zenon DEF ChargedPage, Enters, At
<1>2. Bare BY Zenon DEF ChargedPage, Bare, Still, Untold, rest, volatile, history
<1>3. /\ request \in Requests /\ call[c].op = request.op /\ st \in States /\ mode = "open"
      /\ blobs \subseteq Objects /\ staging \in Nat /\ readOnly # "gap" /\ Good(st)
  BY <1>1, AtClient, Zenon DEF Resting
<1>4. request.topic \in Topics /\ request.op \notin {"close", "policy"}
  BY <1>1, <1>3, RequestTypes, Zenon DEF Charged
<1>5. \A g : ~Waits(call[c], g) BY <1>1, Zenon DEF Waits, Asks
<1>6. \/ Visible(st, request.topic) /\ call' = [call EXCEPT ![c] = v]
      \/ Goto(c, "sign") \/ Return(c)
  BY Zenon DEF ChargedPage
<1>7. CASE Visible(st, request.topic) /\ call' = [call EXCEPT ![c] = v]
  <2>1. w \in CallRecords /\ w.pc = "bodies" /\ w.op = call[c].op /\ w.request = request /\ w.io = call[c].io
    <3>. Keys(request) \in SUBSET LockKeys BY <1>3, <1>4, KeysAre, Zenon
    <3>. QED BY WaitingIs
  <2>2. page \subseteq st.frames BY Zenon DEF Page, Candidates, FramesOf
  <2>3. page \subseteq FrameRecords BY <2>2, <1>3, Zenon DEF States
  <2>4. IsFiniteSet(page)
    <3>. IsFiniteSet(st.frames) BY <1>3, Zenon DEF Good, Counted
    <3>. QED BY <2>2, PartFinite, Zenon
  <2>5. n \in Nat BY <1>3, <1>4, <1>7, Zenon DEF Visible, Present, States, Inboxes
  <2>. HIDE DEF w, page, n
  <2>. /\ v \in CallRecords /\ v.pc = "bodies" /\ v.op = call[c].op /\ v.request = request /\ v.io = call[c].io
       /\ v.entries = page
    BY <2>1, <2>3, <2>5, Zenon DEF CallRecords
  <2>. HIDE DEF v
  <2>7. ClientOK(st, v)
    <3>. Placing(st, v) BY <1>1, <1>3, <2>4, Zenon DEF Placing
    <3>. Answer(st, v) BY Zenon DEF Answer
    <3>. QED BY Zenon DEF ClientOK
  <2>8. Body(v) = 0 /\ Body(call[c]) = 0 BY <1>1, Zenon DEF Body
  <2>9. staging' = staging + Body(v) - Body(call[c]) BY <1>2, <1>3, <2>8 DEF Bare
  <2>10. Still /\ Untold /\ blobs' = blobs BY <1>2, Zenon DEF Bare
  <2>. QED BY <1>1, <1>3, <1>5, <1>7, <2>7, <2>9, <2>10, StaysMoves, Zenon
<1>. CASE Goto(c, "sign") \/ Return(c) BY <1>1, <1>2, <1>5, RepeatMoves, Zenon
<1>. QED BY <1>6, <1>7, Zenon

LEMMA SubmitPinMoves ==
  ASSUME IInv, NEW c \in Clients, SubmitPin(c) PROVE \E v : Moved(c, v)
<1>. DEFINE request == call[c].request
            es == {[rev |-> e.rev, blob |-> e.blob] : e \in call[c].entries}
            f == [t |-> "pin", request |-> request, epoch |-> st.floor, snapshot |-> call[c].n,
                  entries |-> es]
            w == Waiting(c, "pinned", Keys(request))
            next == [w EXCEPT !.entries = {}, !.n = 0]
<1>1. call[c].pc = "bodies" /\ Charged(call[c].op) BY Zenon DEF SubmitPin, At
<1>2. Bare BY Zenon DEF SubmitPin, Bare, Still, Untold, rest, volatile, history
<1>3. /\ request \in Requests /\ call[c].op = request.op /\ st \in States /\ mode = "open"
      /\ blobs \subseteq Objects /\ readOnly # "gap" /\ call[c] \in CallRecords
      /\ IsFiniteSet(call[c].entries)
  BY <1>1, AtClient, Zenon DEF Resting, Placing
<1>4. request.op \notin {"close", "policy"} BY <1>1, <1>3, Zenon DEF Charged
<1>5. \A g : ~Waits(call[c], g) BY <1>1, Zenon DEF Waits, Asks
<1>6. Submit(c, f, next) \/ (Return(c) /\ queue' = queue) BY Zenon DEF SubmitPin
<1>7. CASE Return(c) /\ queue' = queue BY <1>1, <1>2, <1>5, <1>7, ReturnBare, Zenon
<1>8. CASE Submit(c, f, next)
  <2>1. w \in CallRecords /\ w.pc = "pinned" /\ w.op = call[c].op /\ w.request = request
    <3>. Keys(request) \in SUBSET LockKeys BY <1>3, <1>4, KeysAre, Zenon
    <3>. QED BY WaitingIs
  <2>2. call[c].entries \subseteq FrameRecords BY <1>3, Zenon DEF CallRecords
  <2>3. es \subseteq PageEntries BY <2>2, SMTT(30) DEF FrameRecords, PageEntries
  <2>4. IsFiniteSet(es)
    <3>. DEFINE g == [e \in call[c].entries |-> [rev |-> e.rev, blob |-> e.blob]]
    <3>. es = {g[e] : e \in call[c].entries} BY Zenon
    <3>. HIDE DEF g
    <3>. QED BY <1>3, ImageFinite
  <2>5. st.floor \in Nat BY <1>3, Zenon DEF States
  <2>. HIDE DEF w, es
  <2>. /\ next \in CallRecords /\ next.pc = "pinned" /\ next.op = call[c].op /\ next.request = request
    BY <2>1, Zenon DEF CallRecords
  <2>7. FrameOK(st, f) BY <1>1, <1>3, <2>3, <2>4, <2>5, Zenon DEF FrameOK
  <2>8. ~ByTimer(f) /\ f.t # "append" /\ Asks(next, f) BY Zenon DEF ByTimer, Asks
  <2>. HIDE DEF f, next
  <2>. Placing(st, next) BY <1>1, <1>3, Zenon DEF Placing, Charged
  <2>. Body(next) = Body(call[c]) BY <1>1, Zenon DEF Body
  <2>. QED BY <1>2, <1>3, <1>5, <1>8, <2>7, <2>8, SubmitMoves, Zenon DEF Bare
<1>. QED BY <1>6, <1>7, <1>8, Zenon

LEMMA FinalizePageMoves ==
  ASSUME IInv, NEW c \in Clients, FinalizeChargedPage(c) PROVE \E v : Moved(c, v)
<1>. DEFINE request == call[c].request
            f == [t |-> "readfinal", spend |-> request.spend, epoch |-> st.floor]
            next == Waiting(c, "done", {SpendKey(request)})
<1>1. call[c].pc = "final" /\ Charged(call[c].op) BY Zenon DEF FinalizeChargedPage, At
<1>2. Bare BY Zenon DEF FinalizeChargedPage, Bare, Still, Untold, rest, volatile, history
<1>3. request \in Requests /\ call[c].op = request.op /\ Good(st) BY <1>1, AtClient, Zenon
<1>4. request.op \notin {"close", "policy"} /\ request.spend \in Spends
  BY <1>1, <1>3, RequestTypes, Zenon DEF Charged
<1>5. \A g : ~Waits(call[c], g) BY <1>1, Zenon DEF Waits, Asks
<1>6. \/ PinOf(st, request.spend) # {} /\ Submit(c, f, next)
      \/ Return(c) /\ queue' = queue
  BY Zenon DEF FinalizeChargedPage
<1>7. CASE Return(c) /\ queue' = queue BY <1>1, <1>2, <1>5, <1>7, ReturnBare, Zenon
<1>8. CASE PinOf(st, request.spend) # {} /\ Submit(c, f, next)
  <2>. next \in CallRecords /\ next.pc = "done" /\ next.op = call[c].op /\ next.request = request
    <3>. {SpendKey(request)} \in SUBSET LockKeys BY <1>3, <1>4, KeysAre, Zenon
    <3>. QED BY WaitingIs
  <2>. HIDE DEF next
  <2>2. Pays(st, request.spend, {"charged", "watch"})
    BY <1>3, <1>4, <1>8, Zenon DEF PinOf, Good, Paired, Pays, Charged
  <2>. FrameOK(st, f) BY <2>2, Zenon DEF FrameOK
  <2>. ~ByTimer(f) /\ f.t # "append" /\ Asks(next, f) BY <1>1, Zenon DEF ByTimer, Asks
  <2>. HIDE DEF f
  <2>. QED BY <1>1, <1>2, <1>8, EnterSubmits, Zenon
<1>. QED BY <1>6, <1>7, <1>8, Zenon

LEMMA ClientMoves ==
  ASSUME IInv, NEW c \in Clients, ClientStep(c) PROVE \E v : Moved(c, v)
BY StartMoves, CreateMoves, RenewMoves, CloseMoves, PolicyMoves, DoneMoves, BeginAppendMoves,
   PublishMoves, BodyFailsMoves, StoredMoves, BeginFinalMoves, FinalizeAppendMoves, AckedMoves,
   WatchMoves, ReplayMoves, ChargedPageMoves, SubmitPinMoves, FinalizePageMoves, Zenon
   DEF ClientStep

-----------------------------------------------------------------------------
\* A step of a client keeps the invariant.
LEMMA MovedCore ==
  ASSUME IInv, NEW c \in Clients, NEW v, Moved(c, v)
  PROVE  /\ Core' /\ call'[c] = v /\ \A d \in Callers \ {c} : call'[d] = call[d]
         /\ \A i \in 1..Len(queue') :
              \/ i \in 1..Len(queue) /\ queue'[i] = queue[i]
              \/ /\ i \notin 1..Len(queue) /\ queue'[i].by = c /\ ~ByTimer(queue'[i].f)
                 /\ Sends(c, v, queue'[i].f)
         /\ \A i, j \in 1..Len(queue') : i \notin 1..Len(queue) /\ j \notin 1..Len(queue) => i = j
         /\ \A i \in 1..Len(queue) : i \in 1..Len(queue')
         /\ call'[Timer] = call[Timer] /\ Timer # c /\ Timer \in Callers
<1>1. TypeOK /\ Good(st) /\ Linked /\ Sent /\ Modes /\ Calls BY Zenon DEF IInv, Core
<1>2. c \in Callers /\ c # Timer /\ Timer \in Callers BY EngineConstants, Zenon DEF Callers
<1>3. call'[c] = v /\ \A d \in Callers \ {c} : call'[d] = call[d] BY <1>1, <1>2, Zenon DEF Moved, TypeOK
<1>4. /\ mode = "open" /\ mode' = mode /\ st' = st /\ closing' = closing /\ readOnly' = readOnly
      /\ poisoned' = poisoned /\ damaged' = damaged
  BY Zenon DEF Moved, Still
<1>5. /\ IsQueue(queue')
      /\ \A i \in 1..Len(queue') :
           \/ i \in 1..Len(queue) /\ queue'[i] = queue[i]
           \/ /\ i \notin 1..Len(queue) /\ queue'[i].by = c /\ ~ByTimer(queue'[i].f)
              /\ Sends(c, v, queue'[i].f)
      /\ \A i, j \in 1..Len(queue') : i \notin 1..Len(queue) /\ j \notin 1..Len(queue) => i = j
      /\ \A i \in 1..Len(queue) : i \in 1..Len(queue')
  <2>1. CASE queue' = queue BY <1>1, <2>1, Zenon DEF TypeOK
  <2>2. CASE \E f : Sends(c, v, f) /\ ~ByTimer(f)
    <3>1. PICK f : Sends(c, v, f) /\ ~ByTimer(f) BY <2>2, Zenon
    <3>. DEFINE e == [by |-> c, f |-> f]
    <3>2. e.by = c /\ e.f = f BY Zenon
    <3>3. queue' = Append(queue, e) BY <3>1, Zenon DEF Sends
    <3>. HIDE DEF e
    <3>. /\ IsQueue(queue') /\ Len(queue) \in Nat /\ Len(queue') = Len(queue) + 1
         /\ \A i \in 1..Len(queue) : queue'[i] = queue[i]
         /\ queue'[Len(queue) + 1] = e
      BY <1>1, <3>3, QueueAppend DEF TypeOK
    <3>. ASSUME NEW i \in 1..Len(queue'), i \notin 1..Len(queue) PROVE i = Len(queue) + 1 OBVIOUS
    <3>. QED BY <3>1, <3>2
  <2>. QED BY <2>1, <2>2, Zenon DEF Moved
<1>6. TypeOK'
  <2>1. call' \in [Callers -> CallRecords] BY <1>1, <1>2, Zenon DEF Moved, TypeOK
  <2>2. acked' \subseteq Spends BY <1>1, Zenon DEF Moved, TypeOK, Acknowledged, Pays
  <2>. promised' \in [Topics -> Nat] BY <1>1, Zenon DEF Moved, TypeOK
  <2>. blobs' \subseteq Objects BY Zenon DEF Moved
  <2>. QED BY <1>1, <1>4, <1>5, <2>1, <2>2, Zenon DEF TypeOK
<1>7. Linked'
  <2>. SUFFICES ASSUME ~poisoned
                PROVE  /\ \A i \in 1..Len(queue') : Waits(call'[queue'[i].by], queue'[i].f)
                       /\ \A i, j \in 1..Len(queue') : queue'[i].by = queue'[j].by => i = j
    BY <1>4, Zenon DEF Linked
  <2>1. /\ \A i \in 1..Len(queue) : Waits(call[queue[i].by], queue[i].f) /\ queue[i].by \in Callers
        /\ \A i, j \in 1..Len(queue) : queue[i].by = queue[j].by => i = j
    BY <1>1, <1>4, Zenon DEF Linked, Sent
  <2>2. \A i \in 1..Len(queue) : queue[i].by # c BY <2>1, Zenon DEF Moved
  <2>3. ASSUME NEW i \in 1..Len(queue') PROVE Waits(call'[queue'[i].by], queue'[i].f)
    <3>. CASE i \in 1..Len(queue) /\ queue'[i] = queue[i]
      <4>. Waits(call[queue[i].by], queue[i].f) /\ queue[i].by \in Callers \ {c} BY <2>1, <2>2, Zenon
      <4>. call'[queue'[i].by] = call[queue[i].by] BY <1>3, Zenon
      <4>. QED BY Zenon
    <3>. CASE queue'[i].by = c /\ Sends(c, v, queue'[i].f) BY <1>3, Zenon DEF Sends
    <3>. QED BY <1>5, Zenon
  <2>. \A i, j \in 1..Len(queue') : queue'[i].by = queue'[j].by => i = j
    BY <1>5, <2>1, <2>2, Zenon
  <2>. QED BY <2>3, Zenon
<1>8. Sent'
  <2>. SUFFICES ASSUME NEW i \in 1..Len(queue')
                PROVE  /\ FrameOK(st, queue'[i].f) /\ queue'[i].by \in Callers
                       /\ queue'[i].by = Timer <=> ByTimer(queue'[i].f)
    BY <1>4, Zenon DEF Sent
  <2>. QED BY <1>1, <1>2, <1>5, Zenon DEF Sent, Sends
<1>9. Modes' BY <1>1, <1>2, <1>3, <1>4, Zenon DEF Modes
<1>. Calls'
  <2>. \A d \in Clients : d \in Callers BY Zenon DEF Callers
  <2>. QED BY <1>1, <1>2, <1>3, <1>4, Zenon DEF Calls, Moved
<1>. Core' BY <1>1, <1>4, <1>6, <1>7, <1>8, <1>9, Zenon DEF Core
<1>. QED BY <1>2, <1>3, <1>5, Zenon

LEMMA MovedRest ==
  ASSUME IInv, NEW c \in Clients, NEW v, Moved(c, v)
  PROVE  Core' /\ Bodies' /\ Removing' /\ Promises' /\ Frozen' /\ Woke'
<1>1. /\ Core' /\ call'[c] = v /\ \A d \in Callers \ {c} : call'[d] = call[d]
      /\ \A i \in 1..Len(queue') :
           \/ i \in 1..Len(queue) /\ queue'[i] = queue[i]
           \/ /\ i \notin 1..Len(queue) /\ queue'[i].by = c /\ ~ByTimer(queue'[i].f)
              /\ Sends(c, v, queue'[i].f)
      /\ \A i, j \in 1..Len(queue') : i \notin 1..Len(queue) /\ j \notin 1..Len(queue) => i = j
      /\ \A i \in 1..Len(queue) : i \in 1..Len(queue')
      /\ call'[Timer] = call[Timer] /\ Timer # c /\ Timer \in Callers
  BY MovedCore, Zenon
<1>2. /\ mode = "open" /\ mode' = mode /\ st' = st /\ readOnly' = readOnly /\ damaged' = damaged
      /\ blobs \subseteq blobs'
  BY Zenon DEF Moved, Still
<1>3. \A d \in Clients : d \in Callers BY Zenon DEF Callers
<1>4. Bodies'
  <2>1. Live' = Live BY <1>2, Zenon DEF Live
  <2>. /\ \A x \in st.frames : x.blob \in blobs \cup damaged
       /\ \A i \in AppendsAt : queue[i].f.blob \in blobs \cup damaged /\ queue[i].f.blob \notin Live
       /\ \A i, j \in AppendsAt : queue[i].f.blob = queue[j].f.blob => i = j
       /\ \A x, y \in st.frames : x.blob = y.blob => x = y
    BY Zenon DEF IInv, Bodies
  <2>3. \A i \in AppendsAt' :
          \/ i \in AppendsAt /\ queue'[i] = queue[i]
          \/ /\ i \notin AppendsAt /\ i \notin 1..Len(queue) /\ queue'[i].f.blob \notin blobs \cup damaged
             /\ queue'[i].f.blob \in blobs'
    BY <1>1, Zenon DEF AppendsAt, Sends
  <2>4. \A x \in st.frames : x.blob \in Live BY Zenon DEF Live
  <2>5. \A i \in AppendsAt' : queue'[i].f.blob \in blobs' \cup damaged /\ queue'[i].f.blob \notin Live
    <3>. \A o \in Live : o \in blobs \cup damaged BY DEF Live
    <3>. QED BY <1>2, <2>3, Zenon
  <2>. \A i, j \in AppendsAt' : queue'[i].f.blob = queue'[j].f.blob => i = j
    <3>. \A i \in AppendsAt' : i \in 1..Len(queue') BY Zenon DEF AppendsAt
    <3>. QED BY <1>1, <2>3, SMTT(30)
  <2>. QED BY <1>2, <2>1, <2>5, Zenon DEF Bodies
<1>5. Removing'
  <2>. SUFFICES ASSUME NEW x \in call[Timer].entries, call[Timer].io = "ok"
                PROVE  /\ x.blob \in blobs' \cup damaged' /\ x.blob \notin Live'
                       /\ \A i \in AppendsAt' : queue'[i].f.blob # x.blob
    BY <1>1, Zenon DEF Removing
  <2>1. /\ x.blob \in blobs \cup damaged /\ x.blob \notin Live
        /\ \A i \in AppendsAt : queue[i].f.blob # x.blob
    BY Zenon DEF IInv, Removing
  <2>. Live' = Live BY <1>2, Zenon DEF Live
  <2>. \A i \in AppendsAt' : \/ i \in AppendsAt /\ queue'[i] = queue[i]
                             \/ queue'[i].f.blob \notin blobs \cup damaged
    BY <1>1, Zenon DEF AppendsAt, Sends
  <2>. QED BY <1>2, <2>1, Zenon
<1>6. Promises'
  <2>1. \A p \in acked' : Acknowledged(st, p) BY Zenon DEF IInv, Promises, Moved
  <2>. \A k \in Topics : Leased(st, k, promised'[k])
    <3>. \A k \in Topics : Leased(st, k, promised[k]) BY Zenon DEF IInv, Promises
    <3>. promised \in [Topics -> Nat] BY Zenon DEF IInv, Core, TypeOK
    <3>. QED BY Zenon DEF Moved
  <2>. QED BY <1>2, <2>1, Zenon DEF Promises
<1>7. Frozen'
  <2>. CASE readOnly = "gap"
    <3>. queue' = queue /\ v.pc \in Resting BY Zenon DEF Moved
    <3>. \A d \in Clients : call'[d].pc \in Resting BY <1>1, <1>2, <1>3, Zenon DEF IInv, Frozen
    <3>. QED BY <1>2, Zenon DEF IInv, Frozen
  <2>. CASE readOnly # "gap"
    <3>. \A i \in 1..Len(queue') : queue'[i].f.t # "integrity"
      BY <1>1, <1>2, Zenon DEF IInv, Frozen, ByTimer
    <3>. QED BY <1>2, Zenon DEF Frozen
  <2>. QED BY Zenon
<1>. Woke'
  <2>. SUFFICES ASSUME NEW d \in Clients, call'[d].pc = "wait" PROVE Watching(st, call'[d])
    BY <1>2, Zenon DEF Woke, Waiters, At
  <2>. CASE d = c BY <1>1, Zenon DEF Moved
  <2>. CASE d # c
    <3>. call'[d] = call[d] BY <1>1, <1>3, Zenon
    <3>. QED BY Zenon DEF IInv, Woke, Waiters, At
  <2>. QED BY Zenon
<1>. QED BY <1>1, <1>4, <1>5, <1>6, <1>7, Zenon

-----------------------------------------------------------------------------
\* What a step of the interval or of open may do, v being its call afterwards.
Turns(op) ==
  /\ mode' \in {"opening", "open"} /\ (mode' = "opening" <=> op = "open")
  /\ mode' = "opening" => mode # "open"
  /\ mode = "down" => queue = <<>>
  /\ readOnly' = "gap" => (readOnly = "gap" /\ mode # "down") \/ (queue = <<>> /\ mode # "open")
  /\ readOnly' # "gap" => \A i \in 1..Len(queue) : queue[i].f.t # "integrity"
Freezes(f) ==
  /\ f.t = "integrity" => readOnly' = "gap"
  /\ readOnly' = "gap" => f.t \in {"floor", "integrity"}
Quiet == st' = st /\ closing' = closing /\ poisoned' = poisoned /\ damaged' = damaged /\ staging' = staging /\ Untold
TimerMoved(v) ==
  /\ call' = [call EXCEPT ![Timer] = v] /\ v \in CallRecords /\ TimerOK(v)
  /\ Quiet /\ Turns(v.op) /\ (v.op = "open" /\ poisoned => v.io = "failed")
  /\ \A f : ~Waits(call[Timer], f)
  /\ queue' = queue \/ \E f : Sends(Timer, v, f) /\ ByTimer(f) /\ Freezes(f)
  /\ blobs' \subseteq blobs
  /\ \A o \in blobs \ blobs' : o \notin Live /\ \A i \in AppendsAt : queue[i].f.blob # o
  /\ v.io = "ok" => v.entries = {}

LEMMA AtTimer ==
  ASSUME IInv
  PROVE  /\ call[Timer] \in CallRecords /\ TimerOK(call[Timer]) /\ Timer \in Callers
         /\ call[Timer].op = "tick" => mode = "open"
         /\ call[Timer].op = "open" <=> mode = "opening"
         /\ call[Timer].op = "open" /\ call[Timer].io # "failed" => ~poisoned
         /\ call[Timer].op = "open" /\ call[Timer].io \notin {"wait", "failed"} => queue = <<>>
         /\ call[Timer].pc = "idle" => call[Timer] = Idle
         /\ Good(st) /\ st \in States /\ blobs \subseteq Objects
<1>. TypeOK /\ Good(st) /\ Linked /\ Sent /\ Modes /\ Calls BY Zenon DEF IInv, Core
<1>2. Timer \in Callers BY Zenon DEF Callers
<1>3. call[Timer] \in CallRecords /\ TimerOK(call[Timer]) BY <1>2, Zenon DEF TypeOK, Calls
<1>4. mode \in {"down", "opening", "open"} BY Zenon DEF TypeOK
<1>5. call[Timer].op = "tick" => mode = "open" BY <1>4, IdleIs, Zenon DEF Modes
<1>6. call[Timer].op = "open" <=> mode = "opening" BY <1>4, IdleIs, Zenon DEF Modes
<1>7. call[Timer].op = "open" /\ call[Timer].io # "failed" => ~poisoned BY <1>6, Zenon DEF Modes
<1>8. ASSUME call[Timer].op = "open", call[Timer].io \notin {"wait", "failed"} PROVE queue = <<>>
  <2>1. mode = "opening" /\ ~poisoned BY <1>6, <1>7, <1>8, Zenon
  <2>2. \A i \in 1..Len(queue) : Waits(call[queue[i].by], queue[i].f) /\ queue[i].by \in Callers
    BY <2>1, Zenon DEF Linked, Sent
  <2>3. \A c \in Clients : call[c] = Idle BY <2>1, Zenon DEF Modes
  <2>. \A c \in Callers : call[c].io # "wait" BY <1>8, <2>3, IdleIs, Zenon DEF Callers
  <2>. 1..Len(queue) = {} BY <2>2, Zenon DEF Waits
  <2>. QED BY DEF TypeOK, IsQueue
<1>. call[Timer].pc = "idle" => call[Timer] = Idle BY <1>3, Zenon DEF TimerOK
<1>. QED BY <1>2, <1>3, <1>5, <1>6, <1>7, <1>8, Zenon DEF Good, TypeOK

\* A step that opens or closes nothing
LEMMA Steady ==
  ASSUME IInv, mode' = mode, readOnly' = readOnly, NEW op, op = "open" <=> call[Timer].op = "open",
         call[Timer].op # "idle" \/ mode = "open"
  PROVE  Turns(op)
<1>. mode \in {"down", "opening", "open"} BY Zenon DEF IInv, Core, TypeOK
<1>. mode # "down" BY IdleIs, Zenon DEF IInv, Core, Modes
<1>. readOnly # "gap" => \A i \in 1..Len(queue) : queue[i].f.t # "integrity" BY Zenon DEF IInv, Frozen
<1>. call[Timer].op = "open" <=> mode = "opening" BY AtTimer, Zenon
<1>. QED BY Zenon DEF Turns

LEMMA TimerGoes ==
  ASSUME IInv, NEW v \in CallRecords, call' = [call EXCEPT ![Timer] = v], TimerOK(v), Quiet, Turns(v.op),
         queue' = queue, blobs' = blobs, v.io \in {"none", "failed"}, \A f : ~Waits(call[Timer], f),
         v.op = "open" => ~poisoned
  PROVE  TimerMoved(v)
BY Zenon DEF TimerMoved

LEMMA TimerSubmits ==
  ASSUME IInv, NEW f, NEW next \in CallRecords, Submit(Timer, f, next), FrameOK(st, f), ByTimer(f),
         Asks(next, f), TimerOK(next), next.op # "idle", next.pc # "quota", Quiet, Turns(next.op), Freezes(f),
         blobs' = blobs, \A g : ~Waits(call[Timer], g), next.op = "open" => ~poisoned
  PROVE  \E v : TimerMoved(v)
<1>1. PICK io \in {"wait", "failed"} :
        /\ call' = [call EXCEPT ![Timer] = [next EXCEPT !.io = io]]
        /\ queue' = queue \/ (~poisoned /\ io = "wait" /\ queue' = Append(queue, [by |-> Timer, f |-> f]))
  BY Zenon DEF Submit
<1>. DEFINE v == [next EXCEPT !.io = io]
<1>. /\ v \in CallRecords /\ v.pc = next.pc /\ v.op = next.op /\ v.request = next.request /\ v.io = io
     /\ v.n = next.n /\ v.entries = next.entries
  BY Zenon DEF CallRecords
<1>3. call' = [call EXCEPT ![Timer] = v] BY <1>1, Zenon
<1>. HIDE DEF v
<1>4. TimerOK(v) BY Zenon DEF TimerOK
<1>5. io = "wait" => Waits(v, f) BY AsksToo, Zenon DEF Waits
<1>6. f.t # "append" BY Zenon DEF ByTimer
<1>7. queue' = queue \/ \E g : Sends(Timer, v, g) /\ ByTimer(g) /\ Freezes(g)
  BY <1>1, <1>5, <1>6, Zenon DEF Sends
<1>8. Turns(v.op) BY Zenon
<1>9. v.op = "open" /\ poisoned => v.io = "failed" BY Zenon
<1>. v.io # "ok" BY Zenon
<1>. TimerMoved(v) BY <1>3, <1>4, <1>7, <1>8, <1>9, Zenon DEF TimerMoved
<1>. QED BY Zenon

LEMMA GotoTimer ==
  ASSUME IInv, NEW pc \in Places, Goto(Timer, pc)
  PROVE  \E v \in CallRecords : /\ call' = [call EXCEPT ![Timer] = v] /\ v.pc = pc /\ v.op = call[Timer].op
                                /\ v.io = "none" /\ v.entries = {}
<1>. DEFINE v == [Idle EXCEPT !.op = call[Timer].op, !.request = call[Timer].request, !.pc = pc]
<1>1. call[Timer] \in CallRecords BY AtTimer, Zenon
<1>2. call[Timer].op \in Ops /\ call[Timer].request \in Requests \cup {None} BY <1>1, Zenon DEF CallRecords
<1>. v \in CallRecords /\ v.pc = pc /\ v.op = call[Timer].op /\ v.io = "none" /\ v.entries = {}
  BY <1>2, IdleIs, Zenon DEF CallRecords
<1>. call' = [call EXCEPT ![Timer] = v] BY Zenon DEF Goto
<1>. HIDE DEF v
<1>. QED BY Zenon

\* The floor follows the clock.
LEMMA FloorMoves ==
  ASSUME IInv, NEW e \in Nat, FloorTo(e), Quiet, mode' = mode, readOnly' = readOnly, blobs' = blobs,
         mode = "open", \A g : ~Waits(call[Timer], g)
  PROVE  \E v : TimerMoved(v)
<1>. DEFINE m == Min({e, st.floor + MaxStep})
            f == [t |-> "floor", old |-> st.floor, new |-> m]
            next == [Idle EXCEPT !.op = "tick", !.pc = "clock", !.n = e]
<1>1. st.floor \in Nat BY AtTimer, Zenon DEF States
<1>2. m \in Nat
  <2>. st.floor + MaxStep \in Nat BY <1>1, InboxConstants
  <2>. \E x \in {e, st.floor + MaxStep} : \A y \in {e, st.floor + MaxStep} : x <= y OBVIOUS
  <2>. m \in {e, st.floor + MaxStep} BY Zenon DEF Min
  <2>. QED BY Zenon
<1>3. Submit(Timer, f, next) BY Zenon DEF FloorTo
<1>. HIDE DEF m
<1>. /\ next \in CallRecords /\ next.pc = "clock" /\ next.op = "tick" /\ next.io = "none"
     /\ next.entries = {}
  BY IdleIs, Zenon DEF CallRecords, Ops, Places
<1>. FrameOK(st, f) /\ ByTimer(f) /\ Asks(next, f) /\ f.t = "floor"
  BY <1>2, Zenon DEF FrameOK, ByTimer, Asks
<1>. HIDE DEF next, f
<1>6. TimerOK(next) BY Zenon DEF TimerOK
<1>. Turns("tick") BY Steady, AtTimer, Zenon
<1>. Freezes(f) BY Zenon DEF Freezes
<1>. QED BY <1>3, <1>6, TimerSubmits, Zenon

LEMMA StartTickMoves == ASSUME IInv, StartTick PROVE \E v : TimerMoved(v)
<1>1. mode = "open" /\ At(Timer, "idle") /\ Quiet /\ mode' = mode /\ readOnly' = readOnly /\ blobs' = blobs
  BY Zenon DEF StartTick, rest, Quiet, Untold, volatile, history
<1>2. call[Timer] = Idle BY <1>1, AtTimer, Zenon DEF At
<1>3. \A g : ~Waits(call[Timer], g) BY <1>2, IdleIs, Zenon DEF Waits
<1>4. CASE \E e \in (st.floor + 1)..MaxEpoch : FloorTo(e)
  <2>1. PICK e \in (st.floor + 1)..MaxEpoch : FloorTo(e) BY <1>4, Zenon
  <2>. st.floor \in Nat BY AtTimer, Zenon DEF States
  <2>. e \in Nat BY InboxConstants
  <2>. QED BY <1>1, <1>3, <2>1, FloorMoves, Zenon
<1>5. CASE queue' = queue /\ call' = [call EXCEPT ![Timer] = [Idle EXCEPT !.op = "tick", !.pc = "sweep"]]
  <2>. DEFINE v == [Idle EXCEPT !.op = "tick", !.pc = "sweep"]
  <2>. v \in CallRecords /\ v.op = "tick" /\ v.pc = "sweep" /\ v.io = "none" /\ v.entries = {}
    BY IdleIs, Zenon DEF CallRecords, Ops, Places
  <2>2. call' = [call EXCEPT ![Timer] = v] BY <1>5, Zenon
  <2>. HIDE DEF v
  <2>3. TimerOK(v) BY Zenon DEF TimerOK
  <2>. Turns(v.op) BY <1>1, <1>2, IdleIs, Steady, Zenon
  <2>. TimerMoved(v) BY <1>1, <1>3, <1>5, <2>2, <2>3, TimerGoes, Zenon
  <2>. QED BY Zenon
<1>. QED BY <1>4, <1>5, Zenon DEF StartTick

LEMMA AdvanceMoves == ASSUME IInv, AdvanceEpochFloor PROVE \E v : TimerMoved(v)
<1>1. /\ call[Timer].pc = "clock" /\ call[Timer].io = "ok" /\ Quiet
      /\ mode' = mode /\ readOnly' = readOnly /\ blobs' = blobs
  BY Zenon DEF AdvanceEpochFloor, Resumed, At, rest, Quiet, Untold, volatile, history
<1>2. call[Timer].op = "tick" /\ mode = "open" BY <1>1, AtTimer, IdleIs, Zenon DEF TimerOK
<1>3. \A g : ~Waits(call[Timer], g) BY <1>1, Zenon DEF Waits
<1>4. CASE FloorTo(call[Timer].n)
  <2>. call[Timer].n \in Nat BY AtTimer, Zenon DEF CallRecords
  <2>. QED BY <1>1, <1>2, <1>3, <1>4, FloorMoves, Zenon
<1>5. CASE Goto(Timer, "sweep") /\ queue' = queue
  <2>1. "sweep" \in Places BY Zenon DEF Places
  <2>. PICK v \in CallRecords : /\ call' = [call EXCEPT ![Timer] = v] /\ v.pc = "sweep" /\ v.op = call[Timer].op
                                /\ v.io = "none" /\ v.entries = {}
    BY <1>5, <2>1, GotoTimer, Zenon
  <2>3. TimerOK(v) BY <1>2, Zenon DEF TimerOK
  <2>. Turns(v.op) BY <1>1, <1>2, Steady, Zenon
  <2>. TimerMoved(v) BY <1>1, <1>2, <1>3, <1>5, <2>3, TimerGoes, Zenon
  <2>. QED BY Zenon
<1>. QED BY <1>4, <1>5, Zenon DEF AdvanceEpochFloor

\* The sweeps submit a frame each.
LEMMA SweepMoves ==
  ASSUME IInv, NEW f, NEW entries \in SUBSET FrameRecords, Sweeping, Writable, Sweep(f, entries),
         FrameOK(st, f), f.t \in {"unpin", "gc", "expire"},
         f.t \in {"unpin", "gc"} => entries = {}, f.t = "expire" => entries = {f.frame},
         Quiet, mode' = mode, readOnly' = readOnly, blobs' = blobs
  PROVE  \E v : TimerMoved(v)
<1>. DEFINE next == [call[Timer] EXCEPT !.entries = entries]
<1>1. call[Timer].pc = "sweep" /\ call[Timer].io \in {"none", "ok"} BY Zenon DEF Sweeping, Continues, Resumed, At
<1>. call[Timer] \in CallRecords /\ call[Timer].op \in {"tick", "open"} /\ (call[Timer].op = "open" => ~poisoned)
  BY <1>1, AtTimer, IdleIs, Zenon DEF TimerOK
<1>. /\ next \in CallRecords /\ next.pc = "sweep" /\ next.op = call[Timer].op /\ next.entries = entries
  BY <1>1, Zenon DEF CallRecords
<1>4. Submit(Timer, f, next) BY Zenon DEF Sweep
<1>. HIDE DEF next
<1>5. ByTimer(f) /\ Asks(next, f) BY Zenon DEF ByTimer, Asks
<1>6. TimerOK(next) BY Zenon DEF TimerOK
<1>7. Turns(next.op) BY Steady, Zenon
<1>. Freezes(f) BY Zenon DEF Freezes, Writable
<1>. \A g : ~Waits(call[Timer], g) BY <1>1, Zenon DEF Waits
<1>. QED BY <1>4, <1>5, <1>6, <1>7, TimerSubmits, Zenon

LEMMA SweepPinsMoves == ASSUME IInv, SweepPins PROVE \E v : TimerMoved(v)
<1>1. PICK p \in DuePins : Sweep([t |-> "unpin", spend |-> p.spend], {}) BY Zenon DEF SweepPins
<1>2. p.spend \in Spends BY AtTimer, Zenon DEF DuePins, States, Pins
<1>. DEFINE f == [t |-> "unpin", spend |-> p.spend]
<1>3. FrameOK(st, f) /\ f.t = "unpin" BY <1>2, Zenon DEF FrameOK
<1>. HIDE DEF f
<1>. Sweep(f, {}) BY <1>1, Zenon DEF f
<1>. Quiet /\ mode' = mode /\ readOnly' = readOnly /\ blobs' = blobs /\ Sweeping /\ Writable
  BY Zenon DEF SweepPins, rest, Quiet, Untold, volatile, history
<1>. QED BY <1>3, SweepMoves, Zenon

LEMMA SweepFramesMoves == ASSUME IInv, SweepFrames PROVE \E v : TimerMoved(v)
<1>1. PICK x \in DueFrames : Sweep([t |-> "expire", frame |-> x, epoch |-> st.floor], {x}) BY Zenon DEF SweepFrames
<1>. x \in FrameRecords /\ st.floor \in Nat BY AtTimer, Zenon DEF DueFrames, States
<1>. DEFINE f == [t |-> "expire", frame |-> x, epoch |-> st.floor]
<1>2. st.floor <= st.floor OBVIOUS
<1>3. FrameOK(st, f) /\ f.t = "expire" /\ f.frame = x BY <1>2, Zenon DEF FrameOK
<1>. HIDE DEF f
<1>. Sweep(f, {x}) BY <1>1, Zenon DEF f
<1>. Quiet /\ mode' = mode /\ readOnly' = readOnly /\ blobs' = blobs /\ Sweeping /\ Writable
  BY Zenon DEF SweepFrames, rest, Quiet, Untold, volatile, history
<1>. QED BY <1>3, SweepMoves, Zenon

LEMMA SweepInboxesMoves == ASSUME IInv, SweepInboxes PROVE \E v : TimerMoved(v)
<1>1. PICK k \in DueInboxes :
        Sweep([t |-> "gc", topic |-> k, rev |-> st.inbox[k].rev, old |-> st.inbox[k].lease,
               epoch |-> st.floor], {})
  BY Zenon DEF SweepInboxes
<1>2. /\ k \in Topics /\ st.inbox[k] # None /\ st.floor > st.inbox[k].lease + Grace
  BY Zenon DEF DueInboxes, Present
<1>3. st.floor \in Nat /\ st.inbox[k] \in Inboxes BY <1>2, AtTimer, Zenon DEF States
<1>4. st.inbox[k].lease \in Nat /\ st.inbox[k].rev \in Nat BY <1>3, Zenon DEF Inboxes
<1>. DEFINE f == [t |-> "gc", topic |-> k, rev |-> st.inbox[k].rev, old |-> st.inbox[k].lease, epoch |-> st.floor]
<1>. /\ f.t = "gc" /\ f.topic = k /\ f.rev = st.inbox[k].rev /\ f.old = st.inbox[k].lease /\ f.epoch = st.floor
  BY Zenon
<1>. HIDE DEF f
<1>5. st.floor <= st.floor BY <1>3
<1>6. FrameOK(st, f) BY <1>2, <1>3, <1>4, <1>5, Zenon DEF FrameOK
<1>. Sweep(f, {}) BY <1>1, Zenon DEF f
<1>. Quiet /\ mode' = mode /\ readOnly' = readOnly /\ blobs' = blobs /\ Sweeping /\ Writable
  BY Zenon DEF SweepInboxes, rest, Quiet, Untold, volatile, history
<1>. QED BY <1>6, SweepMoves, Zenon

LEMMA RemoveBodyMoves == ASSUME IInv, RemoveBody PROVE \E v : TimerMoved(v)
<1>. DEFINE v == [call[Timer] EXCEPT !.entries = {}]
<1>. /\ call[Timer].pc = "sweep" /\ call[Timer].io = "ok" /\ Quiet
     /\ mode' = mode /\ readOnly' = readOnly /\ queue' = queue
     /\ blobs' = blobs \ {x.blob : x \in call[Timer].entries}
  BY Zenon DEF RemoveBody, Resumed, At, Quiet, Untold, volatile, history
<1>2. call[Timer] \in CallRecords /\ call[Timer].op \in {"tick", "open"} /\ (call[Timer].op = "open" => ~poisoned)
  BY AtTimer, IdleIs, Zenon DEF TimerOK
<1>3. v \in CallRecords /\ v.pc = "sweep" /\ v.op = call[Timer].op /\ v.entries = {} /\ v.io = "ok"
  BY <1>2, Zenon DEF CallRecords
<1>4. call' = [call EXCEPT ![Timer] = v] BY Zenon DEF RemoveBody
<1>. HIDE DEF v
<1>5. TimerOK(v) BY <1>2, <1>3, Zenon DEF TimerOK
<1>6. Turns(v.op) BY <1>2, <1>3, Steady, Zenon
<1>7. \A o \in blobs \ blobs' : o \notin Live /\ \A i \in AppendsAt : queue[i].f.blob # o
  BY Zenon DEF IInv, Removing
<1>8. \A g : ~Waits(call[Timer], g) BY Zenon DEF Waits
<1>. blobs' \subseteq blobs BY Zenon
<1>. TimerMoved(v) BY <1>2, <1>3, <1>4, <1>5, <1>6, <1>7, <1>8, Zenon DEF TimerMoved
<1>. QED BY Zenon

LEMMA SweptMoves == ASSUME IInv, Swept PROVE \E v : TimerMoved(v)
<1>1. /\ call[Timer].pc = "sweep" /\ call[Timer].io \in {"none", "ok"} /\ Quiet
      /\ mode' = mode /\ readOnly' = readOnly /\ blobs' = blobs /\ queue' = queue
  BY Zenon DEF Swept, Sweeping, Continues, Resumed, At, rest, Quiet, Untold, volatile, history
<1>2. call[Timer].op \in {"tick", "open"} /\ (call[Timer].op = "open" => ~poisoned)
  BY <1>1, AtTimer, IdleIs, Zenon DEF TimerOK
<1>3. \A g : ~Waits(call[Timer], g) BY <1>1, Zenon DEF Waits
<1>4. CASE call[Timer].op = "open"
  <2>1. Goto(Timer, "quota") BY <1>4, Zenon DEF Swept
  <2>2. "quota" \in Places BY Zenon DEF Places
  <2>. PICK v \in CallRecords : /\ call' = [call EXCEPT ![Timer] = v] /\ v.pc = "quota" /\ v.op = call[Timer].op
                                /\ v.io = "none" /\ v.entries = {}
    BY <2>1, <2>2, GotoTimer, Zenon
  <2>4. TimerOK(v) BY <1>4, Zenon DEF TimerOK
  <2>. Turns(v.op) BY <1>1, <1>4, Steady, Zenon
  <2>. TimerMoved(v) BY <1>1, <1>2, <1>3, <1>4, <2>4, TimerGoes, Zenon
  <2>. QED BY Zenon
<1>. CASE call[Timer].op = "tick"
  <2>1. Return(Timer) BY Zenon DEF Swept
  <2>. Turns(Idle.op) BY <1>1, IdleIs, Steady, Zenon
  <2>. TimerMoved(Idle) BY <1>1, <1>3, <2>1, IdleIs, TimerGoes, Zenon DEF Return
  <2>. QED BY Zenon
<1>. QED BY <1>2, <1>4, Zenon

LEMMA TickFailsMoves == ASSUME IInv, TickFails PROVE \E v : TimerMoved(v)
<1>. /\ call[Timer].op = "tick" /\ call[Timer].io = "failed" /\ Quiet /\ Return(Timer)
     /\ mode' = mode /\ blobs' = blobs /\ queue' = queue /\ (readOnly' = "gap" <=> readOnly = "gap")
  BY Zenon DEF TickFails, Quiet, Untold, history, Writable
<1>2. mode = "open" BY AtTimer, Zenon
<1>3. \A g : ~Waits(call[Timer], g) BY Zenon DEF Waits
<1>4. readOnly # "gap" => \A i \in 1..Len(queue) : queue[i].f.t # "integrity" BY <1>2, Zenon DEF IInv, Frozen
<1>. Turns(Idle.op) BY <1>2, <1>4, IdleIs, Zenon DEF Turns
<1>. TimerMoved(Idle) BY <1>3, IdleIs, TimerGoes, Zenon DEF Return
<1>. QED BY Zenon

LEMMA OpenMoves == ASSUME IInv, Open PROVE \E v : TimerMoved(v)
<1>. DEFINE v == [Idle EXCEPT !.op = "open", !.pc = "verify"]
            f == [t |-> "floor", old |-> 0, new |-> 1]
<1>1. mode = "down" /\ mode' = "opening" /\ queue = <<>> /\ Quiet /\ blobs' = blobs
  BY Zenon DEF Open, Quiet, Untold, history
<1>2. call[Timer] = Idle /\ ~poisoned BY <1>1, Zenon DEF IInv, Core, Modes
<1>3. \A g : ~Waits(call[Timer], g) BY <1>2, IdleIs, Zenon DEF Waits
<1>. v \in CallRecords /\ v.op = "open" /\ v.pc = "verify" /\ v.io = "none" /\ v.entries = {}
  BY IdleIs, Zenon DEF CallRecords, Ops, Places
<1>5. FrameOK(st, f) /\ ByTimer(f) /\ f.t = "floor" BY Zenon DEF FrameOK, ByTimer
<1>6. Submit(Timer, f, v) \/ (call' = [call EXCEPT ![Timer] = v] /\ queue' = queue) BY Zenon DEF Open
<1>. HIDE DEF v, f
<1>7. TimerOK(v) BY Zenon DEF TimerOK
<1>8. Turns(v.op) BY <1>1 DEF Turns
<1>9. CASE Submit(Timer, f, v)
  <2>. Asks(v, f) BY <1>5, Zenon DEF Asks
  <2>. Freezes(f) BY <1>5, Zenon DEF Freezes
  <2>. QED BY <1>1, <1>2, <1>3, <1>5, <1>7, <1>8, <1>9, TimerSubmits, Zenon
<1>. CASE call' = [call EXCEPT ![Timer] = v] /\ queue' = queue
  <2>. TimerMoved(v) BY <1>1, <1>2, <1>3, <1>7, <1>8, TimerGoes, Zenon
  <2>. QED BY Zenon
<1>. QED BY <1>6, <1>9, Zenon

\* The steps of open before its sweeps
LEMMA Opening ==
  ASSUME IInv, NEW pc \in {"verify", "orphans"}, Continues(pc)
  PROVE  /\ call[Timer].pc = pc /\ call[Timer].io \in {"none", "ok"} /\ call[Timer].op = "open"
         /\ mode = "opening" /\ ~poisoned /\ queue = <<>> /\ \A g : ~Waits(call[Timer], g)
<1>. call[Timer].pc = pc /\ call[Timer].io \in {"none", "ok"} BY Zenon DEF Continues, Resumed, At
<1>. call[Timer].op = "open" BY AtTimer, IdleIs, Zenon DEF TimerOK
<1>. mode = "opening" /\ ~poisoned /\ queue = <<>> BY AtTimer, Zenon
<1>. QED BY Zenon DEF Waits

LEMMA VerifyMoves == ASSUME IInv, VerifyFrameBodies PROVE \E v : TimerMoved(v)
<1>1. Continues("verify") /\ mode' = mode /\ Quiet /\ blobs' = blobs
  BY Zenon DEF VerifyFrameBodies, Quiet, Untold, history
<1>2. /\ call[Timer].pc = "verify" /\ call[Timer].io \in {"none", "ok"} /\ call[Timer].op = "open"
      /\ mode = "opening" /\ ~poisoned /\ queue = <<>> /\ \A g : ~Waits(call[Timer], g)
  BY <1>1, Opening, Zenon
<1>. \A i \in 1..Len(queue) : FALSE BY <1>2
<1>3. \A op : op = "open" => Turns(op) BY <1>1, <1>2, Zenon DEF Turns
<1>4. CASE Goto(Timer, "orphans") /\ queue' = queue
  <2>1. "orphans" \in Places BY Zenon DEF Places
  <2>. PICK v \in CallRecords : /\ call' = [call EXCEPT ![Timer] = v] /\ v.pc = "orphans" /\ v.op = call[Timer].op
                                /\ v.io = "none" /\ v.entries = {}
    BY <1>4, <2>1, GotoTimer, Zenon
  <2>3. TimerOK(v) BY <1>2, Zenon DEF TimerOK
  <2>. Turns(v.op) BY <1>2, <1>3, Zenon
  <2>. TimerMoved(v) BY <1>1, <1>2, <1>4, <2>3, TimerGoes, Zenon
  <2>. QED BY Zenon
<1>5. CASE /\ readOnly' = "gap"
           /\ \E x \in st.frames : Submit(Timer, [t |-> "integrity", blob |-> x.blob, epoch |-> st.floor],
                                          Waiting(Timer, "orphans", {}))
  <2>1. PICK x \in st.frames : Submit(Timer, [t |-> "integrity", blob |-> x.blob, epoch |-> st.floor],
                                      Waiting(Timer, "orphans", {}))
    BY <1>5, Zenon
  <2>2. x.blob \in Objects BY AtTimer, Zenon DEF States, FrameRecords
  <2>. DEFINE f == [t |-> "integrity", blob |-> x.blob, epoch |-> st.floor]
              next == Waiting(Timer, "orphans", {})
  <2>3. FrameOK(st, f) /\ ByTimer(f) /\ f.t = "integrity" BY <2>2, Zenon DEF FrameOK, ByTimer
  <2>4. call[Timer] \in CallRecords /\ call[Timer].entries = {} BY <1>2, AtTimer, Zenon DEF TimerOK
  <2>. next \in CallRecords /\ next.pc = "orphans" /\ next.op = "open" /\ next.entries = {}
    BY <1>2, <2>4, Zenon DEF Waiting, CallRecords, Places
  <2>6. Submit(Timer, f, next) BY <2>1, Zenon
  <2>. HIDE DEF f, next
  <2>7. Asks(next, f) BY <2>3, Zenon DEF Asks
  <2>8. TimerOK(next) BY Zenon DEF TimerOK
  <2>. Freezes(f) BY <1>5, <2>3, Zenon DEF Freezes
  <2>. Turns(next.op) BY <1>3, Zenon
  <2>. QED BY <1>1, <1>2, <2>3, <2>6, <2>7, <2>8, TimerSubmits, Zenon
<1>. QED BY <1>4, <1>5, Zenon DEF VerifyFrameBodies

LEMMA CleanupMoves == ASSUME IInv, CleanupOrphans PROVE \E v : TimerMoved(v)
<1>. /\ Continues("orphans") /\ mode' = mode /\ readOnly' = readOnly /\ Quiet /\ queue' = queue
     /\ blobs' = blobs \cap Live /\ Goto(Timer, "sweep")
  BY Zenon DEF CleanupOrphans, Quiet, Untold, history, volatile
<1>. /\ call[Timer].pc = "orphans" /\ call[Timer].io \in {"none", "ok"} /\ call[Timer].op = "open"
     /\ mode = "opening" /\ ~poisoned /\ queue = <<>> /\ \A g : ~Waits(call[Timer], g)
  BY Opening, Zenon
<1>3. "sweep" \in Places BY Zenon DEF Places
<1>. PICK v \in CallRecords : /\ call' = [call EXCEPT ![Timer] = v] /\ v.pc = "sweep" /\ v.op = call[Timer].op
                              /\ v.io = "none" /\ v.entries = {}
  BY <1>3, GotoTimer, Zenon
<1>5. TimerOK(v) BY Zenon DEF TimerOK
<1>6. Turns(v.op) BY Steady, Zenon
<1>7. AppendsAt = {} BY DEF AppendsAt
<1>. blobs' \subseteq blobs /\ \A o \in blobs \ blobs' : o \notin Live BY Zenon
<1>. TimerMoved(v) BY <1>5, <1>6, <1>7, Zenon DEF TimerMoved
<1>. QED BY Zenon

LEMMA OpenedMoves == ASSUME IInv, Opened PROVE \E v : TimerMoved(v)
<1>. /\ call[Timer].pc = "quota" /\ mode' = "open" /\ Return(Timer) /\ Quiet /\ queue' = queue /\ blobs' = blobs
     /\ readOnly' \in {readOnly, "quota"}
  BY Zenon DEF Opened, At, Quiet, Untold, history
<1>2. call[Timer].op = "open" /\ call[Timer].io = "none" BY AtTimer, IdleIs, Zenon DEF TimerOK
<1>. mode = "opening" /\ queue = <<>> /\ ~poisoned BY <1>2, AtTimer, Zenon
<1>4. Turns(Idle.op) BY IdleIs, SMTT(30) DEF Turns
<1>. \A g : ~Waits(call[Timer], g) BY <1>2, Zenon DEF Waits
<1>. TimerMoved(Idle) BY <1>4, IdleIs, TimerGoes, Zenon DEF Return
<1>. QED BY Zenon

LEMMA TimerMoves == ASSUME IInv, TimerStep PROVE \E v : TimerMoved(v)
BY StartTickMoves, AdvanceMoves, SweepPinsMoves, SweepFramesMoves, RemoveBodyMoves, SweepInboxesMoves,
   SweptMoves, TickFailsMoves, OpenMoves, VerifyMoves, CleanupMoves, OpenedMoves, Zenon DEF TimerStep

LEMMA TimerQueue ==
  ASSUME IInv, NEW v, TimerMoved(v)
  PROVE  /\ IsQueue(queue')
         /\ \A i \in 1..Len(queue') :
              \/ i \in 1..Len(queue) /\ queue'[i] = queue[i]
              \/ /\ i \notin 1..Len(queue) /\ queue'[i].by = Timer /\ ByTimer(queue'[i].f)
                 /\ Sends(Timer, v, queue'[i].f) /\ Freezes(queue'[i].f)
         /\ \A i, j \in 1..Len(queue') : i \notin 1..Len(queue) /\ j \notin 1..Len(queue) => i = j
         /\ \A i \in AppendsAt' : i \in AppendsAt /\ queue'[i] = queue[i]
<1>0. IsQueue(queue) BY Zenon DEF IInv, Core, TypeOK
<1>1. CASE queue' = queue BY <1>0, <1>1, Zenon DEF AppendsAt
<1>2. CASE \E f : Sends(Timer, v, f) /\ ByTimer(f) /\ Freezes(f)
  <2>1. PICK f : Sends(Timer, v, f) /\ ByTimer(f) /\ Freezes(f) BY <1>2, Zenon
  <2>. DEFINE e == [by |-> Timer, f |-> f]
  <2>2. e.by = Timer /\ e.f = f BY Zenon
  <2>3. queue' = Append(queue, e) BY <2>1, Zenon DEF Sends
  <2>. HIDE DEF e
  <2>. /\ IsQueue(queue') /\ Len(queue) \in Nat /\ Len(queue') = Len(queue) + 1
       /\ \A i \in 1..Len(queue) : queue'[i] = queue[i]
       /\ queue'[Len(queue) + 1] = e
    BY <1>0, <2>3, QueueAppend, Zenon
  <2>. ASSUME NEW i \in 1..Len(queue'), i \notin 1..Len(queue) PROVE i = Len(queue) + 1 OBVIOUS
  <2>. f.t # "append" BY <2>1, Zenon DEF ByTimer
  <2>. \A i \in AppendsAt' : i \in AppendsAt /\ queue'[i] = queue[i]
    BY <2>2, Zenon DEF AppendsAt
  <2>. QED BY <2>1, <2>2, Zenon
<1>. QED BY <1>1, <1>2, Zenon DEF TimerMoved

LEMMA TimerKeeps ==
  ASSUME IInv, NEW v, TimerMoved(v)
  PROVE  IInv'
<1>1. /\ TypeOK /\ Good(st) /\ Linked /\ Sent /\ Modes /\ Calls /\ Bodies /\ Removing /\ Promises /\ Frozen /\ Woke
      /\ staging \in Nat /\ staging = Cardinality(Staged)
  BY Zenon DEF IInv, Core
<1>2. /\ IsQueue(queue')
      /\ \A i \in 1..Len(queue') :
           \/ i \in 1..Len(queue) /\ queue'[i] = queue[i]
           \/ /\ i \notin 1..Len(queue) /\ queue'[i].by = Timer /\ ByTimer(queue'[i].f)
              /\ Sends(Timer, v, queue'[i].f) /\ Freezes(queue'[i].f)
      /\ \A i, j \in 1..Len(queue') : i \notin 1..Len(queue) /\ j \notin 1..Len(queue) => i = j
      /\ \A i \in AppendsAt' : i \in AppendsAt /\ queue'[i] = queue[i]
  BY TimerQueue, Zenon
<1>3. Timer \in Callers /\ Timer \notin Clients /\ \A c \in Clients : c \in Callers
  BY EngineConstants, Zenon DEF Callers
<1>4. /\ call'[Timer] = v /\ \A d \in Callers \ {Timer} : call'[d] = call[d]
      /\ \A c \in Clients : call'[c] = call[c]
  BY <1>1, <1>3, Zenon DEF TypeOK, TimerMoved
<1>5. /\ st' = st /\ closing' = closing /\ poisoned' = poisoned /\ damaged' = damaged /\ staging' = staging
      /\ acked' = acked /\ promised' = promised /\ v \in CallRecords /\ TimerOK(v)
      /\ blobs' \subseteq blobs
      /\ \A o \in blobs \ blobs' : o \notin Live /\ \A i \in AppendsAt : queue[i].f.blob # o
      /\ (v.io = "ok" => v.entries = {}) /\ \A f : ~Waits(call[Timer], f)
  BY Zenon DEF TimerMoved, Quiet, Untold
<1>6. /\ mode' \in {"opening", "open"} /\ (mode' = "opening" <=> v.op = "open")
      /\ mode' = "opening" => mode # "open"
      /\ mode = "down" => queue = <<>>
      /\ readOnly' = "gap" => (readOnly = "gap" /\ mode # "down") \/ (queue = <<>> /\ mode # "open")
      /\ readOnly' # "gap" => \A i \in 1..Len(queue) : queue[i].f.t # "integrity"
      /\ v.op = "open" /\ poisoned => v.io = "failed"
  BY Zenon DEF TimerMoved, Turns
<1>7. TypeOK'
  <2>. call' \in [Callers -> CallRecords] BY <1>1, <1>5, Zenon DEF TypeOK, TimerMoved
  <2>. QED BY <1>1, <1>2, <1>5, <1>6, Zenon DEF TypeOK
<1>8. Linked'
  <2>. SUFFICES ASSUME ~poisoned
                PROVE  /\ \A i \in 1..Len(queue') : Waits(call'[queue'[i].by], queue'[i].f)
                       /\ \A i, j \in 1..Len(queue') : queue'[i].by = queue'[j].by => i = j
    BY <1>5, Zenon DEF Linked
  <2>1. /\ \A i \in 1..Len(queue) : Waits(call[queue[i].by], queue[i].f) /\ queue[i].by \in Callers
        /\ \A i, j \in 1..Len(queue) : queue[i].by = queue[j].by => i = j
    <3>. CASE mode = "down"
      <4>. Len(queue) = 0 BY <1>6
      <4>. QED OBVIOUS
    <3>. CASE mode # "down" BY <1>1, Zenon DEF Linked, Sent
    <3>. QED BY Zenon
  <2>2. \A i \in 1..Len(queue) : queue[i].by # Timer BY <1>5, <2>1, Zenon
  <2>3. ASSUME NEW i \in 1..Len(queue') PROVE Waits(call'[queue'[i].by], queue'[i].f)
    <3>. CASE i \in 1..Len(queue) /\ queue'[i] = queue[i]
      <4>. Waits(call[queue[i].by], queue[i].f) /\ queue[i].by \in Callers \ {Timer} BY <2>1, <2>2, Zenon
      <4>. call'[queue'[i].by] = call[queue[i].by] BY <1>4, Zenon
      <4>. QED BY Zenon
    <3>. CASE queue'[i].by = Timer /\ Sends(Timer, v, queue'[i].f) BY <1>4, Zenon DEF Sends
    <3>. QED BY <1>2, Zenon
  <2>. \A i, j \in 1..Len(queue') : queue'[i].by = queue'[j].by => i = j
    BY <1>2, <2>1, <2>2
  <2>. QED BY <2>3, Zenon
<1>9. Sent'
  <2>. SUFFICES ASSUME NEW i \in 1..Len(queue')
                PROVE  /\ FrameOK(st, queue'[i].f) /\ queue'[i].by \in Callers
                       /\ queue'[i].by = Timer <=> ByTimer(queue'[i].f)
    BY <1>5, Zenon DEF Sent
  <2>. QED BY <1>1, <1>2, <1>3, Zenon DEF Sent, Sends
<1>10. Modes'
  <2>. mode' # "open" => mode # "open" BY <1>6, Zenon
  <2>. mode' # "open" => ~closing' /\ \A c \in Clients : call'[c] = Idle BY <1>1, <1>4, <1>5, Zenon DEF Modes
  <2>. QED BY <1>4, <1>5, <1>6, Zenon DEF Modes
<1>11. Calls' BY <1>1, <1>4, <1>5, Zenon DEF Calls
<1>12. Core' BY <1>1, <1>5, <1>7, <1>8, <1>9, <1>10, <1>11, Zenon DEF Core
<1>13. Live' = Live /\ \A x \in st.frames : x.blob \in Live BY <1>5, Zenon DEF Live
<1>14. Bodies' BY <1>1, <1>2, <1>5, <1>13, Zenon DEF Bodies
<1>15. Removing' BY <1>4, <1>5, Zenon DEF Removing
<1>16. Promises' BY <1>1, <1>5, Zenon DEF Promises
<1>17. Frozen'
  <2>1. \A i \in 1..Len(queue') : queue'[i].f.t = "integrity" => readOnly' = "gap"
    BY <1>2, <1>6, Zenon DEF Freezes
  <2>. ASSUME readOnly' = "gap"
       PROVE  /\ \A i \in 1..Len(queue') : queue'[i].f.t \in {"floor", "integrity"}
              /\ \A c \in Clients : call'[c].pc \in Resting
    <3>1. CASE readOnly = "gap" /\ mode # "down" BY <1>1, <1>2, <1>4, <3>1, Zenon DEF Frozen, Freezes
    <3>. CASE queue = <<>> /\ mode # "open"
      <4>1. Len(queue) = 0 BY Zenon
      <4>. \A i \in 1..Len(queue') : queue'[i].f.t \in {"floor", "integrity"} BY <1>2, <4>1, SMTT(30) DEF Freezes
      <4>. \A c \in Clients : call'[c].pc \in Resting BY <1>1, <1>4, IdleIs, Zenon DEF Modes, Resting
      <4>. QED BY Zenon
    <3>. QED BY <1>6, <3>1, Zenon
  <2>. QED BY <2>1, Zenon DEF Frozen
<1>. Woke' BY <1>1, <1>4, <1>5, Zenon DEF Woke, Waiters, At
<1>. Staged' = Staged BY <1>4, Zenon DEF Staged
<1>. QED BY <1>1, <1>5, <1>12, <1>14, <1>15, <1>16, <1>17, Zenon DEF IInv

-----------------------------------------------------------------------------
\* The head of the queue is applied, by the process that runs or by the next one.
Heads == queue # <<>> /\ Appliable(queue[1].f) /\ st' = Applied(st, queue[1].f) /\ queue' = Tail(queue)

LEMMA HeadApplied ==
  ASSUME IInv, Heads, StepOK(st, queue[1].f, st'), blobs' = blobs, damaged' = damaged, Untold
  PROVE  /\ st \in States /\ st' \in States
         /\ Sent' /\ Bodies' /\ Promises' /\ IsQueue(queue') /\ 1 \in 1..Len(queue)
         /\ \A i \in 1..Len(queue') : queue'[i] = queue[i + 1] /\ i + 1 \in 1..Len(queue) /\ i + 1 # 1
<1>. DEFINE f == queue[1].f
<1>1. IsQueue(queue) /\ Sent /\ Good(st) /\ Bodies /\ Promises BY Zenon DEF IInv, Core, TypeOK
<1>2. /\ IsQueue(queue') /\ 1 \in 1..Len(queue)
      /\ \A i \in 1..Len(queue') : queue'[i] = queue[i + 1] /\ i + 1 \in 1..Len(queue) /\ i + 1 # 1
  BY <1>1, QueueTail DEF Heads
<1>4. StepOK(st, f, st') BY Zenon
<1>. HIDE DEF f
<1>5. st \in States /\ st' \in States /\ Later(st, st') /\ Effect(st, f, st') BY <1>1, <1>4, Zenon DEF StepOK, Good
<1>6. Sent'
  <2>. SUFFICES ASSUME NEW i \in 1..Len(queue')
                PROVE  /\ FrameOK(st', queue'[i].f) /\ queue'[i].by \in Callers
                       /\ queue'[i].by = Timer <=> ByTimer(queue'[i].f)
    BY Zenon DEF Sent
  <2>. queue'[i] = queue[i + 1] /\ i + 1 \in 1..Len(queue) BY <1>2, Zenon
  <2>. FrameOK(st, queue'[i].f) BY <1>1, Zenon DEF Sent
  <2>. FrameOK(st', queue'[i].f) BY <1>5, FrameStays, Zenon
  <2>. QED BY <1>1, Zenon DEF Sent
<1>7. Bodies'
  <2>1. \A i \in AppendsAt' : queue'[i] = queue[i + 1] /\ i + 1 \in AppendsAt /\ i + 1 # 1
    BY <1>2, Zenon DEF AppendsAt
  <2>2. \A i, j \in AppendsAt' : i + 1 = j + 1 => i = j BY DEF AppendsAt
  <2>3. \A i, j \in AppendsAt' : queue'[i].f.blob = queue'[j].f.blob => i = j
    BY <1>1, <2>1, <2>2 DEF Bodies
  <2>4. \A x \in st.frames : x.blob \in Live BY Zenon DEF Live
  <2>5. CASE f.t = "append"
    <3>1. PICK x : x.blob = f.blob /\ st'.frames = st.frames \cup {x} BY <1>5, <2>5, Zenon DEF Effect
    <3>2. 1 \in AppendsAt BY <1>2, <2>5, Zenon DEF AppendsAt, f
    <3>3. f.blob \in blobs \cup damaged /\ f.blob \notin Live BY <1>1, <3>2, Zenon DEF Bodies, f
    <3>. ASSUME NEW i \in AppendsAt', queue'[i].f.blob = f.blob PROVE FALSE
      <4>1. queue'[i] = queue[i + 1] /\ i + 1 \in AppendsAt /\ i + 1 # 1 BY <2>1, Zenon
      <4>2. queue[i + 1].f.blob = queue[1].f.blob BY <4>1, Zenon DEF f
      <4>3. \A j, m \in AppendsAt : queue[j].f.blob = queue[m].f.blob => j = m BY <1>1, Zenon DEF Bodies
      <4>. QED BY <3>2, <4>1, <4>2, <4>3, Zenon
    <3>. Live' = Live \cup {f.blob} BY <3>1, Zenon DEF Live
    <3>4. \A y \in st'.frames : y.blob \in blobs' \cup damaged' BY <1>1, <3>1, <3>3, Zenon DEF Bodies
    <3>5. \A i \in AppendsAt' : queue'[i].f.blob \in blobs' \cup damaged' /\ queue'[i].f.blob \notin Live'
      BY <1>1, <2>1, Zenon DEF Bodies
    <3>6. \A y, z \in st'.frames : y.blob = z.blob => y = z BY <1>1, <2>4, <3>1, <3>3, Zenon DEF Bodies
    <3>. QED BY <2>3, <3>4, <3>5, <3>6, Zenon DEF Bodies
  <2>. CASE f.t # "append"
    <3>. st'.frames \subseteq st.frames BY <1>5, Zenon DEF Effect
    <3>. Live' \subseteq Live BY Zenon DEF Live
    <3>. QED BY <1>1, <2>1, <2>3, Zenon DEF Bodies
  <2>. QED BY <2>5, Zenon
<1>. Promises'
  <2>1. ASSUME NEW p, Acknowledged(st, p) PROVE Acknowledged(st', p)
    BY <1>5, <2>1, Zenon DEF Acknowledged, Pays, Later
  <2>2. ASSUME NEW k \in Topics, Leased(st, k, promised[k]) PROVE Leased(st', k, promised[k])
    <3>1. promised[k] \in Nat BY Zenon DEF IInv, Core, TypeOK
    <3>. /\ st.inbox[k] # None => st.inbox[k].lease \in Nat
         /\ st'.inbox[k] # None => st'.inbox[k].lease \in Nat
      BY <1>5, Zenon DEF States, Inboxes
    <3>. st.inbox[k] # None => st'.inbox[k] # None /\ st'.inbox[k].lease >= st.inbox[k].lease BY <1>5, Zenon DEF Later
    <3>2. CASE promised[k] = 0 BY <3>2, Zenon DEF Leased
    <3>3. CASE st.inbox[k] # None /\ promised[k] <= st.inbox[k].lease
      <4>. promised[k] <= st'.inbox[k].lease BY <3>1, <3>3
      <4>. QED BY <3>3, Zenon DEF Leased
    <3>. QED BY <2>2, <3>2, <3>3, Zenon DEF Leased
  <2>. QED BY <1>1, <2>1, <2>2, Zenon DEF Promises, Untold
<1>. QED BY <1>2, <1>4, <1>5, <1>6, <1>7, Zenon DEF f

\* The call that waited goes on; those that watched may be told.
Informed(c, d) ==
  \/ d = call[c]
  \/ c \in Waiters /\ (d = Idle \/ d = [call[c] EXCEPT !.pc = "enter"])
LEMMA CommitCalls ==
  ASSUME IInv, Commit
  PROVE  LET b == queue[1].by
             f == queue[1].f
         IN /\ b \in Callers /\ Waits(call[b], f) /\ call'[b] = [call[b] EXCEPT !.io = "ok"]
            /\ \A c \in Callers \ {b} : Informed(c, call'[c])
            /\ \A c \in Waiters : Tells(st, f, st', call[c].request.topic) => call'[c].pc # "wait"
            /\ call' \in [Callers -> CallRecords]
            /\ \A i \in 1..Len(queue) : call[queue[i].by].pc # "wait"
<1>. DEFINE b == queue[1].by
            f == queue[1].f
            a == [call EXCEPT ![b].io = "ok"]
<1>1. /\ mode # "down" /\ queue # <<>> /\ ~poisoned /\ st' = Applied(st, f)
      /\ call' = Notified(a, Applied(st, f), f)
  BY Zenon DEF Commit, Committing
<1>2. call \in [Callers -> CallRecords] /\ IsQueue(queue) /\ Linked /\ Sent BY Zenon DEF IInv, Core, TypeOK
<1>3. 1 \in 1..Len(queue) BY <1>1, <1>2, QueueTail
<1>4. \A i \in 1..Len(queue) : Waits(call[queue[i].by], queue[i].f) /\ queue[i].by \in Callers
  BY <1>1, <1>2, Zenon DEF Linked, Sent
<1>5. \A i \in 1..Len(queue) : call[queue[i].by].pc # "wait" BY <1>4, AsksAt, Zenon DEF Waits
<1>6. b \in Callers /\ Waits(call[b], f) /\ call[b].pc # "wait" BY <1>3, <1>4, <1>5, Zenon
<1>7. b \notin Waiters BY <1>6, Zenon DEF Waiters, At
<1>8. \A c \in Callers : call[c] \in CallRecords BY <1>2, Zenon
<1>9. /\ a \in [Callers -> CallRecords] /\ a[b] = [call[b] EXCEPT !.io = "ok"]
      /\ \A c \in Callers \ {b} : a[c] = call[c]
  <2>. [call[b] EXCEPT !.io = "ok"] \in CallRecords BY <1>6, <1>8, Zenon DEF CallRecords
  <2>. a = [call EXCEPT ![b] = [call[b] EXCEPT !.io = "ok"]] BY Zenon
  <2>. HIDE DEF a
  <2>. QED BY <1>2, <1>6, Zenon
<1>. HIDE DEF a, b, f
<1>10. \A c \in Waiters : /\ c \in Callers \ {b} /\ a[c] = call[c]
                          /\ [a[c] EXCEPT !.pc = "enter"] \in CallRecords
                          /\ [a[c] EXCEPT !.pc = "enter"].pc = "enter"
  <2>. \A c \in Waiters : c \in Callers \ {b} BY <1>7, Zenon DEF Waiters, Callers
  <2>. \A r \in CallRecords : /\ [r EXCEPT !.pc = "enter"] \in CallRecords
                              /\ [r EXCEPT !.pc = "enter"].pc = "enter"
    BY Zenon DEF CallRecords, Places
  <2>. QED BY <1>8, <1>9, Zenon
<1>11. ASSUME NEW k
       PROVE  /\ Failed(a, k) \in [Callers -> CallRecords] /\ Failed(a, k)[b] = a[b]
              /\ \A c \in Callers \ {b} : Informed(c, Failed(a, k)[c])
              /\ \A c \in Waiters : call[c].request.topic = k => Failed(a, k)[c] = Idle
  BY <1>6, <1>7, <1>9, <1>10, IdleIs, Zenon DEF Failed, Informed
<1>12. ASSUME NEW k
       PROVE  /\ Woken(a, k) \in [Callers -> CallRecords] /\ Woken(a, k)[b] = a[b]
              /\ \A c \in Callers \ {b} : Informed(c, Woken(a, k)[c])
              /\ \A c \in Waiters : call[c].request.topic = k => Woken(a, k)[c].pc = "enter"
  BY <1>6, <1>7, <1>9, <1>10, Zenon DEF Woken, Informed
<1>13. \A c \in Callers \ {b} : Informed(c, a[c]) BY <1>9, Zenon DEF Informed
<1>14. Idle.pc # "wait" BY IdleIs, Zenon
<1>. DEFINE Tell(k) == \A c \in Waiters : call[c].request.topic = k => call'[c].pc # "wait"
            Right == /\ call' \in [Callers -> CallRecords] /\ call'[b] = a[b]
                     /\ \A c \in Callers \ {b} : Informed(c, call'[c])
<1>15. CASE f.t = "close"
  <2>1. call' = Failed(a, f.request.topic) BY <1>1, <1>15, Zenon DEF Notified
  <2>. Right /\ Tell(f.request.topic) BY <2>1, <1>11, <1>14, Zenon
  <2>. \A k : Tells(st, f, st', k) => k = f.request.topic BY <1>15, Zenon DEF Tells
  <2>. QED BY <1>5, <1>6, <1>9, Zenon DEF b, f
<1>16. CASE f.t = "gc"
  <2>1. call' = Failed(a, f.topic) BY <1>1, <1>16, Zenon DEF Notified
  <2>. Right /\ Tell(f.topic) BY <2>1, <1>11, <1>14, Zenon
  <2>. \A k : Tells(st, f, st', k) => k = f.topic BY <1>16, Zenon DEF Tells
  <2>. QED BY <1>5, <1>6, <1>9, Zenon DEF b, f
<1>17. CASE f.t = "policy" /\ f.policy = "suppressed"
  <2>1. call' = Failed(a, f.topic) BY <1>1, <1>17, Zenon DEF Notified
  <2>. Right /\ Tell(f.topic) BY <2>1, <1>11, <1>14, Zenon
  <2>. \A k : Tells(st, f, st', k) => k = f.topic BY <1>17, Zenon DEF Tells
  <2>. QED BY <1>5, <1>6, <1>9, Zenon DEF b, f
<1>18. CASE f.t = "final" /\ st'.inbox # st.inbox
  <2>. DEFINE k0 == st.spends[f.spend].request.topic
  <2>1. call' = Woken(a, k0) BY <1>1, <1>18, Zenon DEF Notified
  <2>. Right /\ Tell(k0) BY <2>1, <1>12, Zenon
  <2>. \A k : Tells(st, f, st', k) => k = k0 BY <1>18, Zenon DEF Tells
  <2>. QED BY <1>5, <1>6, <1>9, Zenon DEF b, f
<1>. CASE ~(f.t = "close" \/ f.t = "gc" \/ (f.t = "policy" /\ f.policy = "suppressed")
            \/ (f.t = "final" /\ st'.inbox # st.inbox))
  <2>1. call' = a BY <1>1, Zenon DEF Notified
  <2>. Right BY <2>1, <1>9, <1>13, Zenon
  <2>. \A k : ~Tells(st, f, st', k) BY Zenon DEF Tells
  <2>. QED BY <1>5, <1>6, <1>9, Zenon DEF b, f
<1>. QED BY <1>15, <1>16, <1>17, <1>18, Zenon

\* The answer of a frame that was applied
LEMMA Answered ==
  ASSUME NEW s, NEW t \in States, NEW f, Effect(s, f, t), NEW v \in CallRecords, Asks(v, f), Placing(t, v),
         f.t \in {"create", "renew"} => f.lease \in Nat
  PROVE  Answer(t, v)
<1>1. v.pc # "idle" BY Zenon DEF Asks
<1>2. v.request \in Requests /\ v.op = v.request.op /\ v.request.topic \in Topics
  BY <1>1, RequestTypes, Zenon DEF Placing
<1>3. ASSUME v.pc = "done", v.op \in {"create", "renew"}
      PROVE  t.inbox[v.request.topic] # None /\ v.n <= t.inbox[v.request.topic].lease
  <2>. f.t \in {"create", "renew"} /\ v.request = f.request /\ v.n = f.lease
    BY <1>3, Zenon DEF Asks, Charged
  <2>1. t.inbox[v.request.topic] # None /\ t.inbox[v.request.topic].lease = v.n BY Zenon DEF Effect
  <2>2. v.n <= v.n OBVIOUS
  <2>. QED BY <2>1, <2>2, Zenon
<1>. v.pc = "stored" => Mine(t, v.request) BY Zenon DEF Asks, Effect, Mine
<1>. v.pc = "ack" => t.spends[v.request.spend].status # "provisional" BY Zenon DEF Asks, Effect
<1>. QED BY <1>3, Zenon DEF Answer

LEMMA CommitKeeps ==
  ASSUME IInv, Commit, StepOK(st, queue[1].f, st')
  PROVE  IInv'
<1>. DEFINE b == queue[1].by
            f == queue[1].f
            v == [call[b] EXCEPT !.io = "ok"]
<1>1. /\ TypeOK /\ Good(st) /\ Linked /\ Sent /\ Modes /\ Calls /\ Bodies /\ Removing /\ Frozen /\ Woke
      /\ staging \in Nat /\ staging = Cardinality(Staged)
  BY Zenon DEF IInv, Core
<1>2. /\ mode # "down" /\ ~poisoned /\ Heads /\ mode' = mode /\ closing' = closing /\ poisoned' = poisoned
      /\ staging' = staging /\ blobs' = blobs /\ damaged' = damaged /\ Untold
      /\ readOnly' = IF f.t = "integrity" THEN "gap" ELSE readOnly
  BY Zenon DEF Commit, Committing, Heads, history, Untold
<1>3. /\ StepOK(st, f, st') /\ st \in States /\ st' \in States
      /\ Sent' /\ Bodies' /\ Promises' /\ IsQueue(queue') /\ 1 \in 1..Len(queue)
      /\ \A i \in 1..Len(queue') : queue'[i] = queue[i + 1] /\ i + 1 \in 1..Len(queue) /\ i + 1 # 1
  BY <1>2, HeadApplied, Zenon
<1>4. /\ b \in Callers /\ Waits(call[b], f) /\ call'[b] = v
      /\ \A c \in Callers \ {b} : Informed(c, call'[c])
      /\ \A c \in Waiters : Tells(st, f, st', call[c].request.topic) => call'[c].pc # "wait"
      /\ call' \in [Callers -> CallRecords]
      /\ \A i \in 1..Len(queue) : call[queue[i].by].pc # "wait"
  BY CommitCalls, Zenon
<1>5. /\ \A i \in 1..Len(queue) : Waits(call[queue[i].by], queue[i].f) /\ queue[i].by \in Callers
      /\ \A i, j \in 1..Len(queue) : queue[i].by = queue[j].by => i = j
  BY <1>1, <1>2, Zenon DEF Linked, Sent
<1>6. Good(st') /\ Later(st, st') /\ Calm(st, f, st') /\ Effect(st, f, st') BY <1>3, Zenon DEF StepOK
<1>7. call[b] \in CallRecords BY <1>1, <1>4, Zenon DEF TypeOK
<1>8. /\ v \in CallRecords /\ v.pc = call[b].pc /\ v.op = call[b].op /\ v.request = call[b].request
      /\ v.n = call[b].n /\ v.entries = call[b].entries /\ v.io = "ok"
  BY <1>7, Zenon DEF CallRecords
<1>9. FrameOK(st, f) /\ Accepts(st, f) /\ (b = Timer <=> ByTimer(f))
  BY <1>1, <1>2, <1>3, Zenon DEF Sent, Heads, Appliable
<1>10. Timer \in Callers /\ Timer \notin Clients /\ \A c \in Clients : c \in Callers
  BY EngineConstants, Zenon DEF Callers
<1>11. f.t = "append" => 1 \in AppendsAt BY <1>3, Zenon DEF AppendsAt
<1>. HIDE DEF b, f, v
<1>12. b \notin Waiters /\ Timer \notin Waiters BY <1>4, <1>10, AsksAt, Zenon DEF Waiters, At, Waits
<1>13. call[b].pc # "idle" /\ call[b].pc # "wait" /\ call[b].io = "wait" BY <1>4, AsksAt, Zenon DEF Waits
<1>14. \A c \in Callers \ {b} : c \notin Waiters => call'[c] = call[c] BY <1>4, Zenon DEF Informed
<1>15. ASSUME NEW c \in Waiters
       PROVE  /\ call[c].pc = "wait" /\ c \in Clients /\ call[c] \in CallRecords /\ ClientOK(st, call[c])
              /\ \/ call'[c] = call[c]
                 \/ call'[c] = Idle
                 \/ /\ call'[c].pc = "enter" /\ call'[c].op = call[c].op /\ call'[c].request = call[c].request
  <2>. call[c].pc = "wait" /\ c \in Clients BY Zenon DEF Waiters, At
  <2>2. call[c] \in CallRecords /\ ClientOK(st, call[c]) BY <1>1, <1>10, Zenon DEF TypeOK, Calls
  <2>. Informed(c, call'[c]) BY <1>4, <1>10, <1>12, Zenon
  <2>. \A r \in CallRecords : LET e == [r EXCEPT !.pc = "enter"]
                              IN e.pc = "enter" /\ e.op = r.op /\ e.request = r.request
    BY Zenon DEF CallRecords
  <2>. QED BY <2>2, Zenon DEF Informed
<1>16. TypeOK' BY <1>1, <1>2, <1>3, <1>4, Zenon DEF TypeOK, Untold
<1>17. Linked'
  <2>2. ASSUME NEW i \in 1..Len(queue') PROVE Waits(call'[queue'[i].by], queue'[i].f)
    <3>. queue'[i] = queue[i + 1] /\ i + 1 \in 1..Len(queue) /\ i + 1 # 1 BY <1>3, Zenon
    <3>. /\ Waits(call[queue[i + 1].by], queue[i + 1].f) /\ queue[i + 1].by \in Callers \ {b}
         /\ call[queue[i + 1].by].pc # "wait"
      BY <1>3, <1>4, <1>5, Zenon DEF b
    <3>. call'[queue[i + 1].by] = call[queue[i + 1].by] BY <1>14, Zenon DEF Waiters, At
    <3>. QED BY Zenon
  <2>. ASSUME NEW i \in 1..Len(queue'), NEW j \in 1..Len(queue'), queue'[i].by = queue'[j].by PROVE i = j
    <3>. /\ queue'[i] = queue[i + 1] /\ i + 1 \in 1..Len(queue)
         /\ queue'[j] = queue[j + 1] /\ j + 1 \in 1..Len(queue)
      BY <1>3, Zenon
    <3>. i + 1 = j + 1 BY <1>5, Zenon
    <3>. QED OBVIOUS
  <2>. QED BY <2>2, Zenon DEF Linked
<1>18. Modes'
  <2>. mode # "open" => ~closing /\ \A c \in Clients : call[c] = Idle BY <1>1, Zenon DEF Modes
  <2>. ASSUME mode # "open", NEW c \in Clients PROVE call'[c] = Idle
    <3>. call[c].pc = "idle" BY IdleIs, Zenon
    <3>. c \in Callers \ {b} /\ c \notin Waiters BY <1>10, <1>13, Zenon DEF Waiters, At
    <3>. QED BY <1>14, Zenon
  <2>. call'[Timer].op = call[Timer].op BY <1>4, <1>8, <1>10, <1>12, <1>14, Zenon
  <2>. QED BY <1>1, <1>2, Zenon DEF Modes
<1>19. Calls'
  <2>1. ASSUME NEW c \in Clients PROVE ClientOK(st', call'[c])
    <3>1. call[c] \in CallRecords /\ ClientOK(st, call[c]) BY <1>1, <1>10, Zenon DEF TypeOK, Calls
    <3>2. ClientOK(st', call[c]) BY <1>3, <1>6, <3>1, ClientStays, Zenon
    <3>3. CASE c = b
      <4>. Placing(st', v) BY <1>8, <1>13, <3>2, <3>3, Zenon DEF ClientOK, Placing
      <4>2. Asks(v, f) BY <1>4, <1>8, AsksToo, Zenon DEF Waits
      <4>. f.t \in {"create", "renew"} => f.lease \in Nat BY <1>9, Zenon DEF FrameOK
      <4>. Answer(st', v) BY <1>3, <1>6, <1>8, <4>2, Answered, Zenon
      <4>. QED BY <1>4, <3>3, Zenon DEF ClientOK
    <3>4. CASE c # b /\ c \notin Waiters BY <1>10, <1>14, <3>2, <3>4, Zenon
    <3>5. CASE c \in Waiters
      <4>1. CASE call'[c] = call[c] BY <3>2, <4>1, Zenon
      <4>2. CASE call'[c] = Idle BY <4>2, IdleIs, Zenon
      <4>. CASE call'[c].pc = "enter" /\ call'[c].op = call[c].op /\ call'[c].request = call[c].request
        <5>. call[c].pc = "wait" BY <1>15, <3>5, Zenon
        <5>. call[c].request \in Requests /\ call[c].op = call[c].request.op BY <3>1, Zenon DEF ClientOK, Placing
        <5>. QED BY Zenon DEF ClientOK, Placing, Answer
      <4>. QED BY <1>15, <3>5, <4>1, <4>2, Zenon
    <3>. QED BY <3>3, <3>4, <3>5, Zenon
  <2>. TimerOK(call'[Timer])
    <3>. TimerOK(call[Timer]) BY <1>1, Zenon DEF Calls
    <3>. CASE b = Timer
      <4>. call[Timer].pc # "quota" BY <1>4, AsksAt, Zenon DEF Waits
      <4>. call[Timer].op # "idle" BY <1>13, IdleIs, Zenon DEF TimerOK
      <4>. QED BY <1>4, <1>8, Zenon DEF TimerOK
    <3>. CASE b # Timer BY <1>10, <1>12, <1>14, Zenon
    <3>. QED BY Zenon
  <2>. QED BY <2>1, Zenon DEF Calls
<1>20. Core' BY <1>3, <1>6, <1>16, <1>17, <1>18, <1>19, Zenon DEF Core
<1>21. Removing'
  <2>. SUFFICES ASSUME NEW x \in call'[Timer].entries, call'[Timer].io = "ok"
                PROVE  /\ x.blob \in blobs \cup damaged /\ x.blob \notin Live'
                       /\ \A i \in AppendsAt' : queue'[i].f.blob # x.blob
    BY <1>2, Zenon DEF Removing
  <2>1. \A i \in AppendsAt' : queue'[i] = queue[i + 1] /\ i + 1 \in AppendsAt BY <1>3, Zenon DEF AppendsAt
  <2>2. CASE b = Timer
    <3>1. x \in call[Timer].entries BY <1>4, <1>8, <2>2, Zenon
    <3>2. call[Timer].pc = "sweep" BY <1>1, <3>1, Zenon DEF Calls, TimerOK
    <3>3. f.t = "expire" /\ x = f.frame BY <1>4, <2>2, <3>1, <3>2, Zenon DEF Waits, Asks
    <3>. x \in st.frames BY <1>9, <3>3, Zenon DEF Accepts, ExpireOK
    <3>5. st'.frames = st.frames \ {x} BY <1>6, <3>3, Zenon DEF Effect
    <3>. x.blob \in Live BY Zenon DEF Live
    <3>. x.blob \notin Live' BY <1>1, <3>5, Zenon DEF Live, Bodies
    <3>. QED BY <1>1, <2>1 DEF Bodies
  <2>3. CASE b # Timer
    <3>1. call'[Timer] = call[Timer] BY <1>10, <1>12, <1>14, <2>3, Zenon
    <3>. /\ x.blob \in blobs \cup damaged /\ x.blob \notin Live
         /\ \A i \in AppendsAt : queue[i].f.blob # x.blob
      BY <1>1, <3>1, Zenon DEF Removing
    <3>. x.blob \notin Live'
      <4>. CASE f.t = "append"
        <5>. PICK y : y.blob = f.blob /\ st'.frames = st.frames \cup {y} BY <1>6, Zenon DEF Effect
        <5>. f.blob # x.blob BY <1>11, Zenon DEF f
        <5>. QED BY Zenon DEF Live
      <4>. CASE f.t # "append"
        <5>. st'.frames \subseteq st.frames BY <1>6, Zenon DEF Effect
        <5>. QED BY Zenon DEF Live
      <4>. QED BY Zenon
    <3>. QED BY <2>1, Zenon
  <2>. QED BY <2>2, <2>3, Zenon
<1>22. Frozen'
  <2>1. f.t = "integrity" => readOnly = "gap" BY <1>1, <1>2, <1>3, Zenon DEF Frozen, f
  <2>2. readOnly' = readOnly BY <1>2, <2>1, Zenon
  <2>. ASSUME readOnly = "gap", NEW c \in Clients PROVE call'[c].pc \in Resting
    <3>. call[c].pc \in Resting BY <1>1, <1>2, Zenon DEF Frozen
    <3>. c \notin Waiters BY Zenon DEF Resting, Waiters, At
    <3>. QED BY <1>4, <1>8, <1>10, <1>14, Zenon
  <2>. QED BY <1>1, <1>2, <1>3, <2>2, Zenon DEF Frozen
<1>23. Woke'
  <2>. SUFFICES ASSUME NEW c \in Clients, call'[c].pc = "wait" PROVE Watching(st', call'[c])
    BY Zenon DEF Woke, Waiters, At
  <2>. c \in Waiters
    <3>. CASE c = b BY <1>4, <1>8, <1>13, Zenon
    <3>. CASE c # b BY <1>10, <1>14, Zenon DEF Waiters, At
    <3>. QED BY Zenon
  <2>2. call'[c] = call[c] BY <1>15, IdleIs, Zenon
  <2>3. Watching(st, call[c]) BY <1>1, Zenon DEF Woke
  <2>. ~Tells(st, f, st', call[c].request.topic) BY <1>4, Zenon
  <2>. call[c].request \in Requests /\ call[c].request.topic \in Topics
    BY <1>15, RequestTypes, Zenon DEF ClientOK, Placing
  <2>. QED BY <1>6, <2>2, <2>3, Zenon DEF Watching, Calm, Later
<1>. Staged' = Staged
  <2>. \A c \in Clients : call'[c].pc \in {"body", "stored"} <=> call[c].pc \in {"body", "stored"}
    BY <1>4, <1>8, <1>10, <1>14, <1>15, IdleIs, Zenon
  <2>. QED BY Zenon DEF Staged
<1>. QED BY <1>1, <1>2, <1>3, <1>20, <1>21, <1>22, <1>23, Zenon DEF IInv

LEMMA ReplayKeeps ==
  ASSUME IInv, Replay, Heads => StepOK(st, queue[1].f, st')
  PROVE  IInv'
<1>1. /\ TypeOK /\ Good(st) /\ Linked /\ Sent /\ Modes /\ Calls /\ Bodies /\ Removing /\ Promises /\ Frozen /\ Woke
      /\ staging \in Nat /\ staging = Cardinality(Staged)
  BY Zenon DEF IInv, Core
<1>. /\ mode = "down" /\ mode' = "down" /\ call' = call /\ closing' = closing /\ readOnly' = readOnly
     /\ poisoned' = poisoned /\ staging' = staging /\ blobs' = blobs /\ damaged' = damaged /\ Untold
  BY Zenon DEF Replay, volatile, history, Untold
<1>3. Heads \/ (st' = st /\ queue' = queue) BY Zenon DEF Replay, Heads
<1>4. \A c \in Callers : call[c] = Idle BY <1>1, Zenon DEF Modes, Callers
<1>5. Timer \in Callers /\ \A c \in Clients : c \in Callers BY Zenon DEF Callers
<1>6. Good(st') /\ Sent' /\ Bodies' /\ Promises' /\ IsQueue(queue')
  <2>. CASE Heads BY HeadApplied, Zenon DEF StepOK
  <2>. CASE st' = st /\ queue' = queue
    BY <1>1, Zenon DEF Sent, Bodies, AppendsAt, Live, Promises, TypeOK, Untold
  <2>. QED BY <1>3, Zenon
<1>7. TypeOK' BY <1>1, <1>6, Zenon DEF TypeOK, Untold
<1>8. Modes' /\ Linked' BY <1>1, Zenon DEF Modes, Linked
<1>9. Calls' BY <1>1, <1>4, <1>5, IdleIs, Zenon DEF Calls
<1>10. Core' BY <1>6, <1>7, <1>8, <1>9, Zenon DEF Core
<1>11. Removing' BY <1>4, <1>5, IdleIs, Zenon DEF Removing
<1>12. Frozen' BY Zenon DEF Frozen
<1>. Woke' BY <1>4, <1>5, IdleIs, Zenon DEF Woke, Waiters, At
<1>. Staged' = Staged BY Zenon DEF Staged
<1>. QED BY <1>1, <1>6, <1>10, <1>11, <1>12, Zenon DEF IInv

\* A commit that fails: every call that waits is rejected.
LEMMA RejectedKeeps ==
  ASSUME IInv, Committing, poisoned' = TRUE, call' = Rejected(Queued), mode' = mode, closing' = closing,
         st' = st, queue' = queue, readOnly' = readOnly, staging' = staging, blobs' = blobs, damaged' = damaged,
         Untold
  PROVE  IInv'
<1>1. /\ TypeOK /\ Good(st) /\ Linked /\ Sent /\ Modes /\ Calls /\ Bodies /\ Removing /\ Promises /\ Frozen /\ Woke
      /\ staging \in Nat /\ staging = Cardinality(Staged)
  BY Zenon DEF IInv, Core
<1>2. mode # "down" /\ queue # <<>> /\ ~poisoned BY Zenon DEF Committing
<1>3. Timer \in Callers /\ Timer \notin Clients /\ \A c \in Clients : c \in Callers
  BY EngineConstants, Zenon DEF Callers
<1>4. \A i \in 1..Len(queue) : Waits(call[queue[i].by], queue[i].f) /\ queue[i].by \in Callers
  BY <1>1, <1>2, Zenon DEF Linked, Sent
<1>5. \A c \in Queued : c \in Callers /\ call[c].pc # "wait" /\ call[c].pc # "idle" /\ call[c].io = "wait"
                        /\ call[c].pc # "quota"
  BY <1>4, AsksAt, Zenon DEF Queued, Waits
<1>6. \A r \in CallRecords : LET e == [r EXCEPT !.io = "failed"]
                             IN /\ e \in CallRecords /\ e.io = "failed" /\ e.pc = r.pc /\ e.op = r.op
                                /\ e.request = r.request /\ e.entries = r.entries
  BY Zenon DEF CallRecords
<1>7. \A c \in Callers : call[c] \in CallRecords BY <1>1, Zenon DEF TypeOK
<1>8. \A c \in Callers :
        /\ call'[c] \in CallRecords /\ call'[c].pc = call[c].pc /\ call'[c].op = call[c].op
        /\ call'[c].request = call[c].request /\ call'[c].entries = call[c].entries
        /\ (c \in Queued /\ call'[c].io = "failed") \/ (c \notin Queued /\ call'[c] = call[c])
  BY <1>6, <1>7, Zenon DEF Rejected
<1>9. call' \in [Callers -> CallRecords] BY <1>8, Zenon DEF Rejected
<1>10. TypeOK' BY <1>1, <1>9, Zenon DEF TypeOK, Untold
<1>11. Sent' /\ Linked' BY <1>1, Zenon DEF Sent, Linked
<1>12. Modes'
  <2>1. ASSUME mode # "open", NEW c \in Clients PROVE call'[c] = Idle
    <3>. call[c] = Idle BY <1>1, <2>1, Zenon DEF Modes
    <3>. QED BY <1>3, <1>5, <1>8, IdleIs, Zenon
  <2>2. ASSUME mode = "opening" PROVE call'[Timer].io = "failed"
    <3>1. 1 \in 1..Len(queue) BY <1>1, <1>2, QueueTail DEF TypeOK
    <3>. queue[1].by \in Queued BY <3>1, Zenon DEF Queued
    <3>. queue[1].by \notin Clients BY <1>1, <1>5, <2>2, IdleIs, Zenon DEF Modes
    <3>. Timer \in Queued BY <1>5, Zenon DEF Callers
    <3>. QED BY <1>3, <1>8, Zenon
  <2>. QED BY <1>1, <1>2, <1>3, <1>8, <2>1, <2>2, Zenon DEF Modes
<1>13. Calls'
  <2>1. ASSUME NEW c \in Clients PROVE ClientOK(st, call'[c])
    <3>1. ClientOK(st, call[c]) BY <1>1, Zenon DEF Calls
    <3>. CASE c \in Queued
      <4>. call[c].pc # "idle" BY <1>5, Zenon
      <4>. /\ call'[c].pc = call[c].pc /\ call'[c].op = call[c].op /\ call'[c].request = call[c].request
           /\ call'[c].entries = call[c].entries /\ call'[c].io = "failed"
        BY <1>3, <1>8, Zenon
      <4>. QED BY <3>1, Zenon DEF ClientOK, Placing
    <3>. CASE c \notin Queued BY <1>3, <1>8, <3>1, Zenon
    <3>. QED BY Zenon
  <2>. TimerOK(call'[Timer])
    <3>. TimerOK(call[Timer]) BY <1>1, Zenon DEF Calls
    <3>. CASE Timer \in Queued
      <4>. call[Timer].op # "idle" /\ call[Timer].pc # "quota" BY <1>5, IdleIs, Zenon DEF TimerOK
      <4>. QED BY <1>3, <1>8, Zenon DEF TimerOK
    <3>. CASE Timer \notin Queued BY <1>3, <1>8, Zenon
    <3>. QED BY Zenon
  <2>. QED BY <2>1, Zenon DEF Calls
<1>14. Core' BY <1>1, <1>10, <1>11, <1>12, <1>13, Zenon DEF Core
<1>15. Bodies' BY <1>1, Zenon DEF Bodies, AppendsAt, Live
<1>16. Removing'
  <2>. call'[Timer].entries = call[Timer].entries /\ (call'[Timer].io = "ok" => call[Timer].io = "ok")
    BY <1>3, <1>8, Zenon
  <2>. QED BY <1>1, Zenon DEF Removing, AppendsAt, Live
<1>17. Promises' BY <1>1, Zenon DEF Promises, Untold
<1>18. Frozen' BY <1>1, <1>3, <1>8, Zenon DEF Frozen
<1>. Woke'
  <2>. \A c \in Clients : call'[c].pc = call[c].pc /\ call'[c].request = call[c].request BY <1>3, <1>8, Zenon
  <2>. QED BY <1>1, Zenon DEF Woke, Waiters, At, Watching
<1>. Staged' = Staged BY <1>3, <1>8, Zenon DEF Staged
<1>. QED BY <1>1, <1>14, <1>15, <1>16, <1>17, <1>18, Zenon DEF IInv

\* The process ends; a prefix of the queue is on disk.
LEMMA BeginCloseKeeps ==
  ASSUME IInv, BeginClose
  PROVE  IInv'
<1>. /\ TypeOK /\ Good(st) /\ Linked /\ Sent /\ Modes /\ Calls /\ Bodies /\ Removing /\ Promises /\ Frozen /\ Woke
     /\ staging \in Nat /\ staging = Cardinality(Staged)
  BY Zenon DEF IInv, Core
<1>. /\ mode = "open" /\ mode' = mode /\ st' = st /\ queue' = queue /\ closing' = TRUE /\ readOnly' = readOnly
     /\ poisoned' = poisoned /\ staging' = staging /\ blobs' = blobs /\ damaged' = damaged /\ Untold
  BY Zenon DEF BeginClose, history, Untold
<1>3. Timer \in Callers /\ \A c \in Clients : c \in Callers BY Zenon DEF Callers
<1>4. \A c \in Callers : call'[c] = call[c] \/ (call[c].pc = "wait" /\ call'[c] = Idle)
  BY Zenon DEF BeginClose, At
<1>5. call' \in [Callers -> CallRecords] BY IdleIs, Zenon DEF TypeOK, BeginClose
<1>6. TypeOK' BY <1>5, Zenon DEF TypeOK, Untold
<1>7. Sent' BY Zenon DEF Sent
<1>8. Linked'
  <2>. \A c \in Callers : \A f : Waits(call[c], f) => call'[c] = call[c] BY <1>4, AsksAt, Zenon DEF Waits
  <2>. QED BY Zenon DEF Linked, Sent
<1>9. call'[Timer] = call[Timer]
  <2>. call[Timer].pc # "wait" BY IdleIs, Zenon DEF Calls, TimerOK
  <2>. QED BY <1>3, <1>4, Zenon
<1>10. Modes' BY <1>9, Zenon DEF Modes
<1>11. Calls' BY <1>3, <1>4, <1>9, IdleIs, Zenon DEF Calls
<1>12. Core' BY <1>6, <1>7, <1>8, <1>10, <1>11, Zenon DEF Core
<1>13. Bodies' /\ Removing' BY <1>9, Zenon DEF Bodies, Removing, AppendsAt, Live
<1>14. Promises' BY Zenon DEF Promises, Untold
<1>15. Frozen' BY <1>3, <1>4, IdleIs, Zenon DEF Frozen, Resting
<1>. Woke' BY <1>3, <1>4, IdleIs, Zenon DEF Woke, Waiters, At
<1>. Staged' = Staged BY <1>3, <1>4, IdleIs, Zenon DEF Staged
<1>. QED BY <1>12, <1>13, <1>14, <1>15, Zenon DEF IInv

\* A body that is lost, and steps that change none of this.
LEMMA SameKeeps ==
  ASSUME IInv, mode' = mode, st' = st, queue' = queue, call' = call, closing' = closing, readOnly' = readOnly,
         poisoned' = poisoned, staging' = staging, Untold, blobs' \subseteq Objects, damaged' \subseteq Objects,
         blobs \cup damaged \subseteq blobs' \cup damaged'
  PROVE  IInv'
<1>. /\ TypeOK /\ Good(st) /\ Linked /\ Sent /\ Modes /\ Calls /\ Bodies /\ Removing /\ Promises /\ Frozen /\ Woke
     /\ staging \in Nat /\ staging = Cardinality(Staged)
  BY Zenon DEF IInv, Core
<1>2. TypeOK' /\ Linked' /\ Sent' BY Zenon DEF TypeOK, Linked, Sent, Untold
<1>3. Modes' /\ Calls' BY Zenon DEF Modes, Calls
<1>4. Core' BY <1>2, <1>3, Zenon DEF Core
<1>5. Bodies' /\ Removing' BY Zenon DEF Bodies, Removing, AppendsAt, Live
<1>. Promises' /\ Frozen' BY Zenon DEF Promises, Frozen, Untold
<1>. Woke' /\ Staged' = Staged BY Zenon DEF Woke, Waiters, At, Staged
<1>. QED BY <1>4, <1>5, Zenon DEF IInv
==============================================================================

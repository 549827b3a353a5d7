------------------------ MODULE EBSocketQueues_proofs ------------------------
(* Proofs about the cycles that wait: where they are, in which order, and   *)
(* that the socket implements its contract.                                 *)
EXTENDS EBSocket_proofs

-----------------------------------------------------------------------------
(* The local lists of suspended calls *)

\* The suspended call f has a list of cycles of device d.
Holds(f, d) == f.op \in {"flush", "close"} /\ f.d = d

Todo(calls) == IF calls = {} THEN <<>> ELSE (CHOOSE f \in calls : TRUE).todo

\* Local, for a list of frames.
Held(s, d) == Todo({f \in Range(s) : f.op \in {"flush", "close"} /\ f.d = d})

\* The local list of a device is what the stack holds for it.
LEMMA LocalHeld ==
    ASSUME NEW d
    PROVE  Local(d) = Held(stack, d) /\ Local(d)' = Held(stack', d)
  BY DEF Local, Held, Todo

\* What a stack holds are cycles.
LEMMA HeldTyped ==
    ASSUME NEW s \in Seq(FrameType), NEW d PROVE Held(s, d) \in Seq(Cycles)
<1> DEFINE calls == {f \in Range(s) : f.op \in {"flush", "close"} /\ f.d = d}
           g == CHOOSE f \in calls : TRUE
<1>1. CASE calls = {}
  BY <1>1 DEF Held, Todo
<1>2. CASE calls # {}
  <2>1. g \in calls
    BY <1>2
  <2>2. g \in FrameType
    BY <2>1, FramesOf
  <2>3. Held(s, d) = g.todo
    BY <1>2 DEF Held, Todo
  <2> HIDE DEF g
  <2>4. g.todo \in Seq(Cycles)
    BY <2>2 DEF FrameType, FrameRecord
  <2> QED
    BY <2>3, <2>4
<1> QED
  BY <1>1, <1>2

\* Lists with the same holders.
LEMMA HeldSame ==
    ASSUME NEW s, NEW t, NEW d,
           \A f : Holds(f, d) => (f \in Range(s) <=> f \in Range(t))
    PROVE  Held(s, d) = Held(t, d)
<1>1. {f \in Range(s) : f.op \in {"flush", "close"} /\ f.d = d}
         = {f \in Range(t) : f.op \in {"flush", "close"} /\ f.d = d}
  BY DEF Holds
<1> QED
  BY <1>1 DEF Held

\* A call that holds nothing of the device changes nothing.
LEMMA HeldCons ==
    ASSUME NEW s \in Seq(FrameType), NEW f \in FrameType, NEW d, ~Holds(f, d)
    PROVE  Held(<<f>> \o s, d) = Held(s, d)
<1>1. Range(<<f>> \o s) = {f} \cup Range(s)
  BY ConsFacts
<1> QED
  BY <1>1, HeldSame

\* The one call that holds cycles of the device.
LEMMA HeldTop ==
    ASSUME NEW s \in Seq(FrameType), NEW f \in FrameType, NEW d, Holds(f, d),
           \A g \in Range(s) : ~Holds(g, d)
    PROVE  Held(<<f>> \o s, d) = f.todo
<1>1. Range(<<f>> \o s) = {f} \cup Range(s)
  BY ConsFacts
<1>2. {g \in Range(<<f>> \o s) : g.op \in {"flush", "close"} /\ g.d = d} = {f}
  BY <1>1 DEF Holds
<1>3. (CHOOSE g \in {f} : TRUE) = f
  OBVIOUS
<1> QED
  BY <1>2, <1>3 DEF Held, Todo

\* No call holds cycles of the device.
LEMMA HeldNone ==
    ASSUME NEW s, NEW d, \A g \in Range(s) : ~Holds(g, d)
    PROVE  Held(s, d) = <<>>
<1>1. {g \in Range(s) : g.op \in {"flush", "close"} /\ g.d = d} = {}
  BY DEF Holds
<1> QED
  BY <1>1 DEF Held, Todo

\* A callback returns to the same local lists.
LEMMA HeldReturned ==
    ASSUME TypeOK, stack # <<>>, NEW d
    PROVE  Held(Returned, d) = Held(Below, d)
<1>1. PICK b \in Seq(FrameType) : b = Below
  BY TopFacts
<1>2. PICK r \in Seq(FrameType) : r = Returned
  BY ReturnTyped
<1>3. /\ DOMAIN r = DOMAIN b
      /\ \A i \in DOMAIN b : /\ r[i].op = b[i].op
                             /\ b[i].op # "block" => r[i] = b[i]
  BY <1>1, <1>2, ReturnTyped
<1>4. ASSUME NEW f, Holds(f, d) PROVE f \in Range(r) <=> f \in Range(b)
  BY <1>3, <1>4 DEF Holds, Range
<1> QED
  BY <1>1, <1>2, <1>4, HeldSame

\* The frame that runs, when it is the flush or the close of a device, is the
\* only one that holds a list of that device.
LEMMA TopHolds ==
    ASSUME TypeOK, StackOK, stack # <<>>, NEW d
    PROVE  /\ Holds(Top, d) => Local(d) = Top.todo /\ \A g \in Range(Below) : ~Holds(g, d)
           /\ ~Holds(Top, d) => Local(d) = Held(Below, d)
<1>1. PICK f \in FrameType : f = Top
  BY TopFacts
<1>2. PICK b \in Seq(FrameType) : b = Below
  BY TopFacts
<1>3. stack = <<f>> \o b
  BY <1>1, <1>2, TopFacts
<1>4. \A g \in Range(b) : Over(f, g)
  BY <1>1, <1>2, TopSound
<1>5. ASSUME Holds(f, d) PROVE \A g \in Range(b) : ~Holds(g, d)
  BY <1>4, <1>5 DEF Holds, Over
<1>6. Holds(f, d) => Local(d) = f.todo
  BY <1>3, <1>5, HeldTop, LocalHeld
<1>7. ~Holds(f, d) => Local(d) = Held(b, d)
  BY <1>3, HeldCons, LocalHeld
<1> QED
  BY <1>1, <1>2, <1>5, <1>6, <1>7

-----------------------------------------------------------------------------
(* The queue of a device and how its parts change *)

SentBy(cy, d) == {c \in Cycles : cy[c].dev = d}

\* Pending, of given lists.
Queue(inf, cy, loc, rdy, d) == (Filter(inf, SentBy(cy, d)) \o loc) \o Reverse(rdy)

\* Pending is a Queue, now and next.
LEMMA PendingQueue ==
    ASSUME NEW d
    PROVE  /\ Pending(d) = Queue(Inflight, cyc, Local(d), ready[d], d)
           /\ Pending(d)' = Queue(Inflight', cyc', Local(d)', ready'[d], d)
  BY DEF Pending, OfDevice, Queue, SentBy

\* The type and the elements of a queue.
LEMMA QueueFacts ==
    ASSUME NEW inf \in Seq(Cycles), NEW cy, NEW loc \in Seq(Cycles), NEW rdy \in Seq(Cycles),
           NEW d
    PROVE  /\ Queue(inf, cy, loc, rdy, d) \in Seq(Cycles)
           /\ Range(Queue(inf, cy, loc, rdy, d))
                = (Range(inf) \cap SentBy(cy, d)) \cup Range(loc) \cup Range(rdy)
<1>1. PICK a \in Seq(Cycles) : a = Filter(inf, SentBy(cy, d))
  BY FilterType
<1>2. PICK r \in Seq(Cycles) : r = Reverse(rdy)
  BY ReverseFacts
<1>3. PICK b \in Seq(Cycles) : b = a \o loc
  BY ConcatTyped
<1>4. b \o r \in Seq(Cycles)
  OBVIOUS
<1>5. Range(b \o r) = Range(b) \cup Range(r)
  BY RangeConcat
<1>6. Range(a \o loc) = Range(a) \cup Range(loc)
  BY RangeConcat
<1>7. Range(a) = Range(inf) \cap SentBy(cy, d)
  BY <1>1, FilterRange
<1>8. Range(r) = Range(rdy)
  BY <1>2, ReverseFacts
<1>9. Queue(inf, cy, loc, rdy, d) = b \o r
  BY <1>1, <1>2, <1>3 DEF Queue
<1> QED
  BY <1>3, <1>4, <1>5, <1>6, <1>7, <1>8, <1>9

\* A queue depends on the cycles only through the devices of those in flight.
LEMMA QueueSame ==
    ASSUME NEW inf \in Seq(Cycles), NEW cy, NEW cy2, NEW loc, NEW rdy, NEW d,
           \A c \in Range(inf) : cy2[c].dev = cy[c].dev
    PROVE  Queue(inf, cy2, loc, rdy, d) = Queue(inf, cy, loc, rdy, d)
<1>1. Range(inf) \cap SentBy(cy2, d) = Range(inf) \cap SentBy(cy, d)
  BY DEF SentBy
<1>2. Filter(inf, SentBy(cy2, d)) = Filter(inf, SentBy(cy, d))
  BY <1>1, FilterSame
<1> QED
  BY <1>2 DEF Queue

\* A cycle is closed onto the device.
QueueGrows(inf, cy, loc, rdy, d, c) ==
    Queue(inf, cy, loc, <<c>> \o rdy, d) = Append(Queue(inf, cy, loc, rdy, d), c)

\* A cycle that becomes ready is the last of its queue.
LEMMA QueueClosed ==
    ASSUME NEW inf \in Seq(Cycles), NEW cy, NEW loc \in Seq(Cycles), NEW rdy \in Seq(Cycles),
           NEW d, NEW c \in Cycles
    PROVE  QueueGrows(inf, cy, loc, rdy, d, c)
<1>1. PICK a \in Seq(Cycles) : a = Filter(inf, SentBy(cy, d))
  BY FilterType
<1>2. PICK r \in Seq(Cycles) : r = Reverse(rdy)
  BY ReverseFacts
<1>3. PICK b \in Seq(Cycles) : b = a \o loc
  BY ConcatTyped
<1>4. Reverse(<<c>> \o rdy) = Append(r, c)
  BY <1>2, ReverseCons
<1>5. b \o Append(r, c) = Append(b \o r, c)
  BY AppendConcat, SMTT(40) DEF AppendsBehind
<1> QED
  BY <1>1, <1>2, <1>3, <1>4, <1>5 DEF Queue, QueueGrows

\* The flush takes the ready cycles.
LEMMA QueueTaken ==
    ASSUME NEW inf \in Seq(Cycles), NEW cy, NEW rdy \in Seq(Cycles), NEW d
    PROVE  Queue(inf, cy, Reverse(rdy), <<>>, d) = Queue(inf, cy, <<>>, rdy, d)
<1>1. PICK a \in Seq(Cycles) : a = Filter(inf, SentBy(cy, d))
  BY FilterType
<1>2. PICK r \in Seq(Cycles) : r = Reverse(rdy)
  BY ReverseFacts
<1>3. Reverse(<<>>) = <<>>
  BY DEF Reverse
<1>4. (a \o r) \o <<>> = (a \o <<>>) \o r
  OBVIOUS
<1> QED
  BY <1>1, <1>2, <1>3, <1>4 DEF Queue

\* The flush sends a cycle.
QueueMoves(inf, cy, loc, rdy, d) ==
    Queue(Append(inf, Head(loc)), cy, Tail(loc), rdy, d) = Queue(inf, cy, loc, rdy, d)

\* A cycle the flush sends keeps its place.
LEMMA QueueSent ==
    ASSUME NEW inf \in Seq(Cycles), NEW cy, NEW loc \in Seq(Cycles), NEW rdy \in Seq(Cycles),
           NEW d, loc # <<>>, cy[Head(loc)].dev = d
    PROVE  QueueMoves(inf, cy, loc, rdy, d)
<1>1. PICK a \in Seq(Cycles) : a = Filter(inf, SentBy(cy, d))
  BY FilterType
<1>2. Head(loc) \in Cycles /\ Head(loc) \in SentBy(cy, d)
  BY DEF SentBy
<1>3. Filter(Append(inf, Head(loc)), SentBy(cy, d)) = Append(a, Head(loc))
  <2>1. PICK h \in Cycles : h = Head(loc)
    BY <1>2
  <2>2. FilterKeeps(inf, h, SentBy(cy, d))
    BY <1>2, <2>1, FilterKept
  <2> QED
    BY <1>1, <2>1, <2>2 DEF FilterKeeps
<1>4. Append(a, Head(loc)) \o Tail(loc) = a \o loc
  BY MoveHead
<1> QED
  BY <1>1, <1>3, <1>4 DEF Queue, QueueMoves

\* What another device sends does not matter.
LEMMA QueueSentElsewhere ==
    ASSUME NEW inf \in Seq(Cycles), NEW cy, NEW loc, NEW rdy, NEW d, NEW c \in Cycles,
           cy[c].dev # d
    PROVE  Queue(Append(inf, c), cy, loc, rdy, d) = Queue(inf, cy, loc, rdy, d)
<1>1. c \notin SentBy(cy, d)
  BY DEF SentBy
<1>2. Filter(Append(inf, c), SentBy(cy, d)) = Filter(inf, SentBy(cy, d))
  BY <1>1, FilterAppend
<1> QED
  BY <1>2 DEF Queue

\* A cycle leaves the responses in flight.
LEMMA QueueAnswered ==
    ASSUME NEW inf \in Seq(Cycles), NEW cy, NEW loc \in Seq(Cycles), NEW rdy \in Seq(Cycles),
           NEW d, NEW c \in Cycles, c \notin Range(loc), c \notin Range(rdy)
    PROVE  Queue(Filter(inf, Cycles \ {c}), cy, loc, rdy, d)
              = Filter(Queue(inf, cy, loc, rdy, d), Cycles \ {c})
<1> DEFINE X == Cycles \ {c}
           S == SentBy(cy, d)
<1>1. PICK a \in Seq(Cycles) : a = Filter(inf, S)
  BY FilterType
<1>2. PICK r \in Seq(Cycles) : r = Reverse(rdy) /\ Range(r) = Range(rdy)
  BY ReverseFacts
<1>3. PICK b \in Seq(Cycles) : b = a \o loc
  BY ConcatTyped
<1>4. Filter(loc, X) = loc /\ Filter(r, X) = r
  <2>0. Range(loc) \subseteq Cycles /\ Range(r) \subseteq Cycles
    BY DEF Range
  <2>1. Range(loc) \subseteq X /\ Range(r) \subseteq X
    BY <1>2, <2>0
  <2> QED
    BY <2>1, FilterNothing
<1>5. Filter(Filter(inf, X), S) = Filter(a, X)
  <2>1. Filter(Filter(inf, X), S) = Filter(inf, X \cap S)
    BY FilterFilter
  <2>2. Filter(a, X) = Filter(inf, S \cap X)
    BY <1>1, FilterFilter
  <2>3. S \cap X = X \cap S
    OBVIOUS
  <2> QED
    BY <2>1, <2>2, <2>3
<1>6. Filter(b, X) = Filter(a, X) \o loc
  <2>0. FilterDistributes(a, loc, X)
    BY FilterParts
  <2>1. Filter(a \o loc, X) = Filter(a, X) \o Filter(loc, X)
    BY <2>0 DEF FilterDistributes
  <2> QED
    BY <1>3, <1>4, <2>1
<1>7. Filter(b \o r, X) = Filter(b, X) \o r
  <2>0. FilterDistributes(b, r, X)
    BY FilterParts
  <2>1. Filter(b \o r, X) = Filter(b, X) \o Filter(r, X)
    BY <2>0 DEF FilterDistributes
  <2> QED
    BY <1>4, <2>1
<1>8. Queue(inf, cy, loc, rdy, d) = b \o r
  BY <1>1, <1>2, <1>3 DEF Queue
<1>9. Queue(Filter(inf, X), cy, loc, rdy, d) = (Filter(a, X) \o loc) \o r
  BY <1>2, <1>5 DEF Queue
<1> QED
  BY <1>6, <1>7, <1>8, <1>9

\* A cycle leaves the local list.
LEMMA QueueServed ==
    ASSUME NEW inf \in Seq(Cycles), NEW cy, NEW loc \in Seq(Cycles), NEW rdy \in Seq(Cycles),
           NEW d, loc # <<>>, IsInjective(Queue(inf, cy, loc, rdy, d))
    PROVE  Queue(inf, cy, Tail(loc), rdy, d)
              = Filter(Queue(inf, cy, loc, rdy, d), Cycles \ {Head(loc)})
<1> DEFINE X == Cycles \ {Head(loc)}
<1>1. PICK a \in Seq(Cycles) : a = Filter(inf, SentBy(cy, d))
  BY FilterType
<1>2. PICK r \in Seq(Cycles) : r = Reverse(rdy)
  BY ReverseFacts
<1>3. PICK b \in Seq(Cycles) : b = a \o loc
  BY ConcatTyped
<1>4. Queue(inf, cy, loc, rdy, d) = b \o r
  BY <1>1, <1>2, <1>3 DEF Queue
<1>5. IsInjective(b) /\ Range(b) \cap Range(r) = {}
  BY <1>4, ConcatInjective, ConcatDisjoint
<1>6. IsInjective(loc) /\ Range(a) \cap Range(loc) = {} /\ Range(b) = Range(a) \cup Range(loc)
  BY <1>3, <1>5, ConcatInjective, ConcatDisjoint, RangeConcat
<1>7. Head(loc) \in Range(loc)
  BY HeadTail
<1>8. Filter(a, X) = a /\ Filter(r, X) = r
  <2>1. Range(a) \subseteq Cycles /\ Range(r) \subseteq Cycles
    BY DEF Range
  <2>2. Range(a) \subseteq X /\ Range(r) \subseteq X
    BY <1>5, <1>6, <1>7, <2>1
  <2> QED
    BY <2>2, FilterNothing
<1>9. Filter(loc, X) = Tail(loc)
  BY <1>6, FilterHead
<1>10. Filter(b, X) = a \o Tail(loc)
  <2>0. FilterDistributes(a, loc, X)
    BY FilterParts
  <2>1. Filter(a \o loc, X) = Filter(a, X) \o Filter(loc, X)
    BY <2>0 DEF FilterDistributes
  <2> QED
    BY <1>3, <1>8, <1>9, <2>1
<1>11. Filter(b \o r, X) = Filter(b, X) \o r
  <2>0. FilterDistributes(b, r, X)
    BY FilterParts
  <2>1. Filter(b \o r, X) = Filter(b, X) \o Filter(r, X)
    BY <2>0 DEF FilterDistributes
  <2> QED
    BY <1>8, <2>1
<1>12. Queue(inf, cy, Tail(loc), rdy, d) = (a \o Tail(loc)) \o r
  BY <1>1, <1>2 DEF Queue
<1> QED
  BY <1>4, <1>10, <1>11, <1>12

\* Closing a device takes its responses and its ready cycles.
LEMMA QueueDrained ==
    ASSUME NEW inf \in Seq(Cycles), NEW cy, NEW rdy \in Seq(Cycles), NEW d
    PROVE  Queue(Filter(inf, Cycles \ SentBy(cy, d)), cy,
                 Filter(inf, SentBy(cy, d)) \o Reverse(rdy), <<>>, d)
              = Queue(inf, cy, <<>>, rdy, d)
<1> DEFINE S == SentBy(cy, d)
<1>1. PICK a \in Seq(Cycles) : a = Filter(inf, S)
  BY FilterType
<1>2. PICK r \in Seq(Cycles) : r = Reverse(rdy)
  BY ReverseFacts
<1>3. Filter(Filter(inf, Cycles \ S), S) = <<>>
  <2>1. Filter(Filter(inf, Cycles \ S), S) = Filter(inf, (Cycles \ S) \cap S)
    BY FilterFilter
  <2>2. (Cycles \ S) \cap S = {}
    OBVIOUS
  <2>3. Filter(inf, {}) = <<>>
    BY FilterAll
  <2> QED
    BY <2>1, <2>2, <2>3
<1>4. Reverse(<<>>) = <<>>
  BY DEF Reverse
<1>5. (<<>> \o (a \o r)) \o <<>> = (a \o <<>>) \o r
  OBVIOUS
<1> QED
  BY <1>1, <1>2, <1>3, <1>4, <1>5 DEF Queue

\* Nor does a close of another device.
LEMMA QueueDrainedElsewhere ==
    ASSUME NEW inf \in Seq(Cycles), NEW cy, NEW loc, NEW rdy, NEW d, NEW x, x # d
    PROVE  Queue(Filter(inf, Cycles \ SentBy(cy, d)), cy, loc, rdy, x)
              = Queue(inf, cy, loc, rdy, x)
<1>1. (Cycles \ SentBy(cy, d)) \cap SentBy(cy, x) = SentBy(cy, x)
  BY DEF SentBy
<1>2. Filter(Filter(inf, Cycles \ SentBy(cy, d)), SentBy(cy, x))
         = Filter(inf, (Cycles \ SentBy(cy, d)) \cap SentBy(cy, x))
  BY FilterFilter
<1> QED
  BY <1>1, <1>2 DEF Queue

-----------------------------------------------------------------------------
(* Callbacks and the shape of the stack *)

\* A frame that neither holds a list nor is a callback.
Silent(f) == f.op \notin {"flush", "close", "cb"}

CallRel == {p \in FrameType \X FrameType :
              p[1].op = "cb" /\ p[2].op = "cb" => p[1].c # p[2].c}

\* Every cycle is called back at most once at a time, and is closed.
Distinct(s) == Ordered(s, CallRel)

\* Cycle c is being called back in the calls s.
Calls(s, c) == \E f \in Range(s) : f.op = "cb" /\ f.c = c

\* Called speaks of the callbacks on the stack.
LEMMA CalledCalls ==
    ASSUME NEW c PROVE (Called(c) <=> Calls(stack, c)) /\ (Called(c)' <=> Calls(stack', c))
  BY DEF Called, Calls

\* A callback on top is of a cycle that is not being called back.
LEMMA DistinctCons ==
    ASSUME NEW f \in FrameType, NEW s \in Seq(FrameType)
    PROVE  Distinct(<<f>> \o s) <=> Distinct(s) /\ (f.op = "cb" => ~Calls(s, f.c))
<1>1. Ordered(<<f>> \o s, CallRel)
         <=> Ordered(s, CallRel) /\ \A g \in Range(s) : <<f, g>> \in CallRel
  BY OrderedCons
<1>2. \A g \in FrameType :
         <<f, g>> \in CallRel <=> (f.op = "cb" /\ g.op = "cb" => f.c # g.c)
  BY DEF CallRel
<1>3. (\A g \in Range(s) : <<f, g>> \in CallRel) <=> (f.op = "cb" => ~Calls(s, f.c))
  BY <1>2, FramesOf DEF Calls
<1> QED
  BY <1>1, <1>3 DEF Distinct

\* The callbacks of a stack with one more frame.
LEMMA CallsCons ==
    ASSUME NEW f \in FrameType, NEW s \in Seq(FrameType), NEW c
    PROVE  Calls(<<f>> \o s, c) <=> Calls(s, c) \/ (f.op = "cb" /\ f.c = c)
<1>1. Range(<<f>> \o s) = {f} \cup Range(s)
  BY ConsFacts
<1> QED
  BY <1>1 DEF Calls

\* t differs from s in silent frames only.
SameCalls(s, t) ==
    /\ \A d : Held(t, d) = Held(s, d)
    /\ \A c : Calls(t, c) <=> Calls(s, c)
    /\ Distinct(t) <=> Distinct(s)

\* A silent frame changes no callback and no list.
LEMMA SilentCons ==
    ASSUME NEW s \in Seq(FrameType), NEW f \in FrameType, Silent(f)
    PROVE  SameCalls(s, <<f>> \o s)
<1>1. \A d : ~Holds(f, d)
  BY DEF Silent, Holds
<1>2. \A d : Held(<<f>> \o s, d) = Held(s, d)
  BY <1>1, HeldCons
<1>3. \A c : Calls(<<f>> \o s, c) <=> Calls(s, c)
  BY CallsCons DEF Silent
<1>4. Distinct(<<f>> \o s) <=> Distinct(s)
  BY DistinctCons DEF Silent
<1> QED
  BY <1>2, <1>3, <1>4 DEF SameCalls

\* s with silent frames pushed onto it.
Grown(s, t) ==
    \/ t = s
    \/ \E f \in FrameType : Silent(f) /\ t = <<f>> \o s
    \/ \E f, g \in FrameType : Silent(f) /\ Silent(g) /\ t = <<f, g>> \o s

\* Nor do several of them.
LEMMA GrownSame ==
    ASSUME NEW s \in Seq(FrameType), NEW t, Grown(s, t) PROVE SameCalls(s, t)
<1>1. CASE t = s
  BY <1>1 DEF SameCalls
<1>2. CASE \E f \in FrameType : Silent(f) /\ t = <<f>> \o s
  BY <1>2, SilentCons
<1>3. ASSUME NEW f \in FrameType, NEW g \in FrameType, Silent(f), Silent(g), t = <<f, g>> \o s
      PROVE  SameCalls(s, t)
  <2>1. PICK u \in Seq(FrameType) : u = <<g>> \o s
    BY ConsFacts
  <2>2. SameCalls(s, u)
    BY <1>3, <2>1, SilentCons
  <2>3. t = <<f>> \o u
    BY <1>3, <2>1, Cons2Facts
  <2>4. SameCalls(u, t)
    BY <1>3, <2>3, SilentCons
  <2> QED
    BY <2>2, <2>4 DEF SameCalls
<1> QED
  BY <1>1, <1>2, <1>3 DEF Grown

\* The steps that push, replace or pop silent frames.
LoopStep ==
    \/ SocketRun \/ SocketCheck \/ BlockRun \/ BlockReturn \/ RunWait \/ RunReturn
    \/ ExpireDone \/ TopDone \/ DeviceDone \/ FlushSkipped \/ OpenRun \/ OpenOk
    \/ \E d \in Devices : DeviceOpen(d)
    \/ \E c \in Cycles, check \in BOOLEAN : CycleClose(c, check)

\* The event loop makes no callback of its own.
LEMMA LoopCalls ==
    ASSUME TypeOK, LoopStep PROVE SameCalls(stack, stack')
<1>1. PICK s \in Seq(FrameType) : s = stack
  BY DEF TypeOK
<1>2. PICK k \in FrameType : k = Check /\ Silent(k)
  BY CheckRunTyped DEF Silent
<1>3. PICK r \in FrameType : r = Run /\ Silent(r)
  BY CheckRunTyped DEF Silent
<1>4. ASSUME SocketRun \/ SocketCheck \/ BlockRun \/ OpenRun PROVE SameCalls(stack, stack')
  <2>1. stack' = <<k, r>> \o s \/ stack' = <<k>> \o s
    BY <1>1, <1>2, <1>3, <1>4 DEF SocketRun, SocketCheck, BlockRun, OpenRun
  <2>2. Grown(s, stack')
    BY <1>2, <1>3, <2>1 DEF Grown
  <2> QED
    BY <1>1, <2>2, GrownSame
<1>5. ASSUME NEW d \in Devices, DeviceOpen(d) PROVE SameCalls(stack, stack')
  <2>1. PICK f \in FrameType : f = [Frame("open", "") EXCEPT !.d = d] /\ f.op = "open"
    BY OpenFrameTyped
  <2>2. Silent(f) /\ stack' = <<f>> \o s
    BY <1>1, <1>5, <2>1 DEF DeviceOpen, Silent
  <2>3. Grown(s, stack')
    BY <2>2 DEF Grown
  <2> QED
    BY <1>1, <2>3, GrownSame
<1>6. ASSUME NEW c \in Cycles, NEW check \in BOOLEAN, CycleClose(c, check)
      PROVE  SameCalls(stack, stack')
  <2>1. PICK f \in FrameType : f = [Frame("block", "") EXCEPT !.c = c] /\ f.op = "block"
    BY BlockFrameTyped
  <2>2. Silent(f) /\ (stack' = <<f>> \o s \/ stack' = s)
    BY <1>1, <1>6, <2>1 DEF CycleClose, Silent
  <2>3. Grown(s, stack')
    BY <2>2 DEF Grown
  <2> QED
    BY <1>1, <2>3, GrownSame
<1>7. ASSUME \/ BlockReturn \/ RunWait \/ RunReturn \/ ExpireDone \/ TopDone \/ DeviceDone
             \/ FlushSkipped \/ OpenOk
      PROVE  SameCalls(stack, stack')
  <2>1. stack # <<>> /\ Silent(Top)
    BY <1>7 DEF BlockReturn, RunWait, RunReturn, ExpireDone, TopDone, DeviceDone, FlushSkipped,
                OpenOk, Running, Top, Silent
  <2>2. PICK f \in FrameType : f = Top /\ Silent(f)
    BY <2>1, TopFacts
  <2>3. PICK b \in Seq(FrameType) : b = Below
    BY <2>1, TopFacts
  <2>4. SameCalls(b, stack)
    <3>1. stack = <<f>> \o b
      BY <2>1, <2>2, <2>3, TopFacts
    <3> QED
      BY <2>2, <3>1, SilentCons
  <2>5. CASE BlockReturn \/ RunReturn \/ OpenOk
    <3>1. Grown(b, stack')
      BY <2>3, <2>5 DEF BlockReturn, RunReturn, OpenOk, Grown
    <3> QED
      BY <2>4, <3>1, GrownSame DEF SameCalls
  <2>6. CASE RunWait
    <3>1. PICK g \in FrameType : g = Frame("run", "done") /\ Silent(g)
      BY LoopFramesTyped DEF Silent
    <3>2. Grown(b, stack')
      BY <1>2, <2>3, <2>6, <3>1 DEF RunWait, Grown
    <3> QED
      BY <2>4, <3>2, GrownSame DEF SameCalls
  <2>7. CASE ExpireDone
    <3>1. PICK g \in FrameType : g = Frame("check", "top") /\ Silent(g)
      BY LoopFramesTyped DEF Silent
    <3>2. Grown(b, stack')
      BY <2>3, <2>7, <3>1 DEF ExpireDone, Grown
    <3> QED
      BY <2>4, <3>2, GrownSame DEF SameCalls
  <2>8. ASSUME TopDone \/ DeviceDone PROVE SameCalls(stack, stack')
    <3>0. devlist # <<>> => Head(devlist) \in Devices
      BY DEF TypeOK
    <3>1. f.nxt \in Devices \cup {NoDev}
      BY DEF FrameType, FrameRecord
    <3>2. stack' = b \/ \E d \in Devices : stack' = <<AtDevice(d)>> \o b
      BY <2>2, <2>3, <2>8, <3>0, <3>1 DEF TopDone, DeviceDone
    <3>3. \A d \in Devices : AtDevice(d) \in FrameType /\ Silent(AtDevice(d))
      BY AtDeviceTyped DEF Silent
    <3>4. Grown(b, stack')
      BY <3>2, <3>3 DEF Grown
    <3> QED
      BY <2>4, <3>4, GrownSame DEF SameCalls
  <2>9. CASE FlushSkipped
    <3>1. f.op = "check" /\ f.pc = "device" /\ f.d \in Devices
      BY <2>2, <2>9 DEF FlushSkipped, Running, Top, FrameType
    <3>2. LET g == [f EXCEPT !.pc = "next"] IN g \in FrameType /\ g.op = "check"
      BY <3>1, ZenonT(60) DEF FrameType, FrameRecord
    <3>3. PICK g \in FrameType : g = [f EXCEPT !.pc = "next"] /\ Silent(g)
      BY <3>2 DEF Silent
    <3>4. Grown(b, stack')
      BY <2>2, <2>3, <2>9, <3>3 DEF FlushSkipped, Grown
    <3> QED
      BY <2>4, <3>4, GrownSame DEF SameCalls
  <2> QED
    BY <1>7, <2>5, <2>6, <2>7, <2>8, <2>9
<1> QED
  BY <1>4, <1>5, <1>6, <1>7 DEF LoopStep

-----------------------------------------------------------------------------
(* The client's view of a step *)

DevicesKept == \A d \in Devices : DeviceView(d)' = DeviceView(d)

QueuesKept == \A d \in Devices : Pending(d)' = Pending(d)

\* The cycles outside S look the same.
CyclesKept(S) ==
    \A c \in Cycles \ S : CycleView(c)' = CycleView(c) /\ cyc'[c].dev = cyc[c].dev

\* The contract sees no change.
ViewKept == DevicesKept /\ QueuesKept /\ CyclesKept({})

\* A cycle is opened on a device.
ViewOpened(c, d) ==
    /\ DevicesKept /\ QueuesKept /\ CyclesKept({c})
    /\ CycleView(c) = "free" /\ DeviceView(d) = "live"
    /\ CycleView(c)' = "open" /\ cyc'[c].dev = d

\* A cycle is aborted, or its callback returns.
ViewFreed(c) ==
    /\ DevicesKept /\ QueuesKept /\ CyclesKept({c})
    /\ CycleView(c) \in {"open", "calling"}
    /\ CycleView(c)' = "free" /\ cyc'[c].dev = NoDev

\* A cycle is closed, behind all that wait on its device.
ViewClosed(c) ==
    /\ DevicesKept /\ CyclesKept({c})
    /\ CycleView(c) = "open" /\ cyc[c].dev \in Devices
    /\ CycleView(c)' = "pending" /\ cyc'[c].dev = cyc[c].dev
    /\ \A d \in Devices :
          Pending(d)' = IF d = cyc[c].dev THEN Append(Pending(d), c) ELSE Pending(d)

\* A cycle is called back.
ViewCalled(c) ==
    /\ DevicesKept /\ CyclesKept({c})
    /\ CycleView(c) = "pending" /\ cyc[c].dev \in Devices
    /\ DeviceView(cyc[c].dev) = "closing" => Pending(cyc[c].dev)[1] = c
    /\ CycleView(c)' = "calling" /\ cyc'[c].dev = cyc[c].dev
    /\ \A d \in Devices : Pending(d)' = Filter(Pending(d), Cycles \ {c})

\* A device comes up, is closed or goes.
ViewDevice(d, from, to) ==
    /\ QueuesKept /\ CyclesKept({})
    /\ \A x \in Devices \ {d} : DeviceView(x)' = DeviceView(x)
    /\ DeviceView(d) = from /\ DeviceView(d)' = to
    /\ to = "closing" => \A c \in Cycles : CycleView(c) = "open" => cyc[c].dev # d
    /\ from = "closing" => Pending(d) = <<>>

\* A step as the contract sees it: nothing, or one of its actions.
ViewStep ==
    \/ ViewKept
    \/ \E c \in Cycles, d \in Devices : ViewOpened(c, d)
    \/ \E c \in Cycles : ViewFreed(c) \/ ViewClosed(c) \/ ViewCalled(c)
    \/ \E d \in Devices : \/ ViewDevice(d, "free", "live")
                          \/ ViewDevice(d, "live", "closing")
                          \/ ViewDevice(d, "closing", "free")

\* The part of QueuesOK about the queues, in terms of the view.
QueueView ==
    \A d \in Devices :
        /\ IsInjective(Pending(d))
        /\ Range(Pending(d)) = {c \in Cycles : CycleView(c) = "pending" /\ cyc[c].dev = d}

\* What the contract sees of a cycle.
LEMMA ViewPending ==
    ASSUME TypeOK
    PROVE  \A c \in Cycles :
              /\ CycleView(c) \in {"free", "open", "pending", "calling"}
              /\ CycleView(c) = "pending" <=> cyc[c].st = "closed" /\ ~Called(c)
              /\ CycleView(c) = "calling" <=> cyc[c].st = "closed" /\ Called(c)
              /\ CycleView(c) = "open" <=> cyc[c].st = "open"
              /\ CycleView(c) = "free" <=> cyc[c].st = "free"
<1>1. \A c \in Cycles : cyc[c].st \in {"free", "open", "closed"}
  BY DEF TypeOK, CycleType
<1> QED
  BY <1>1 DEF CycleView

\* The same in the next state.
LEMMA ViewPendingPrime ==
    ASSUME TypeOK'
    PROVE  \A c \in Cycles :
              /\ CycleView(c)' = "pending" <=> cyc'[c].st = "closed" /\ ~Called(c)'
              /\ CycleView(c)' = "calling" <=> cyc'[c].st = "closed" /\ Called(c)'
              /\ CycleView(c)' = "open" <=> cyc'[c].st = "open"
              /\ CycleView(c)' = "free" <=> cyc'[c].st = "free"
<1>1. \A c \in Cycles : cyc'[c].st \in {"free", "open", "closed"}
  BY DEF TypeOK, CycleType
<1> QED
  BY <1>1 DEF CycleView

\* The type and the elements of what waits on a device.
LEMMA PendingTyped ==
    ASSUME TypeOK, NEW d \in Devices
    PROVE  /\ Pending(d) \in Seq(Cycles)
           /\ Local(d) \in Seq(Cycles) /\ ready[d] \in Seq(Cycles) /\ Inflight \in Seq(Cycles)
           /\ Range(Pending(d)) = (Range(Inflight) \cap SentBy(cyc, d))
                                     \cup Range(Local(d)) \cup Range(ready[d])
<1>1. PICK inf \in Seq(Cycles) : inf = Inflight
  BY InflightTyped
<1>2. PICK loc \in Seq(Cycles) : loc = Local(d)
  BY HeldTyped, LocalHeld DEF TypeOK
<1>3. PICK rdy \in Seq(Cycles) : rdy = ready[d]
  BY DEF TypeOK
<1>4. Pending(d) = Queue(inf, cyc, loc, rdy, d)
  BY <1>1, <1>2, <1>3, PendingQueue
<1> QED
  BY <1>1, <1>2, <1>3, <1>4, QueueFacts

\* Steps that look right to the contract keep each queue exact.
LEMMA ViewQueues ==
    ASSUME TypeOK, QueueView, ViewStep PROVE QueueView'
<1>1. ASSUME CyclesKept({}), QueuesKept PROVE QueueView'
  BY <1>1 DEF QueueView, CyclesKept, QueuesKept
<1>2. ASSUME NEW c \in Cycles, CyclesKept({c}), QueuesKept, CycleView(c) # "pending",
             CycleView(c)' # "pending"
      PROVE  QueueView'
  <2>1. \A x \in Cycles, d \in Devices :
           (CycleView(x)' = "pending" /\ cyc'[x].dev = d)
              <=> (CycleView(x) = "pending" /\ cyc[x].dev = d)
    BY <1>2 DEF CyclesKept
  <2> QED
    BY <1>2, <2>1 DEF QueueView, QueuesKept
<1>3. ASSUME NEW c \in Cycles, ViewClosed(c) PROVE QueueView'
  <2>1. ASSUME NEW d \in Devices
        PROVE  /\ IsInjective(Pending(d)')
               /\ Range(Pending(d)')
                    = {x \in Cycles : CycleView(x)' = "pending" /\ cyc'[x].dev = d}
    <3>1. PICK p \in Seq(Cycles) : p = Pending(d)
      BY PendingTyped
    <3>2. IsInjective(p) /\ Range(p) = {x \in Cycles : CycleView(x) = "pending" /\ cyc[x].dev = d}
      BY <3>1 DEF QueueView
    <3>3. c \notin Range(p)
      BY <1>3, <3>2 DEF ViewClosed
    <3>4. CASE d = cyc[c].dev
      <4>1. Pending(d)' = Append(p, c)
        BY <1>3, <3>1, <3>4 DEF ViewClosed
      <4>2. IsInjective(Append(p, c)) /\ Range(Append(p, c)) = Range(p) \cup {c}
        BY <3>2, <3>3, InjectiveAppend, RangeAppend
      <4>3. Range(p) \cup {c} = {x \in Cycles : CycleView(x)' = "pending" /\ cyc'[x].dev = d}
        BY <1>3, <3>2, <3>4 DEF ViewClosed, CyclesKept
      <4> QED
        BY <4>1, <4>2, <4>3
    <3>5. CASE d # cyc[c].dev
      <4>1. Pending(d)' = p
        BY <1>3, <3>1, <3>5 DEF ViewClosed
      <4>2. Range(p) = {x \in Cycles : CycleView(x)' = "pending" /\ cyc'[x].dev = d}
        BY <1>3, <3>2, <3>5 DEF ViewClosed, CyclesKept
      <4> QED
        BY <3>2, <4>1, <4>2
    <3> QED
      BY <3>4, <3>5
  <2> QED
    BY <2>1 DEF QueueView
<1>4. ASSUME NEW c \in Cycles, ViewCalled(c) PROVE QueueView'
  <2>1. ASSUME NEW d \in Devices
        PROVE  /\ IsInjective(Pending(d)')
               /\ Range(Pending(d)')
                    = {x \in Cycles : CycleView(x)' = "pending" /\ cyc'[x].dev = d}
    <3>1. PICK p \in Seq(Cycles) : p = Pending(d)
      BY PendingTyped
    <3>2. IsInjective(p) /\ Range(p) = {x \in Cycles : CycleView(x) = "pending" /\ cyc[x].dev = d}
      BY <3>1 DEF QueueView
    <3>3. Pending(d)' = Filter(p, Cycles \ {c})
      BY <1>4, <3>1 DEF ViewCalled
    <3>4. /\ IsInjective(Filter(p, Cycles \ {c}))
          /\ Range(Filter(p, Cycles \ {c})) = Range(p) \cap (Cycles \ {c})
      BY <3>2, FilterInjective, FilterRange
    <3>5. Range(p) \cap (Cycles \ {c})
             = {x \in Cycles : CycleView(x)' = "pending" /\ cyc'[x].dev = d}
      BY <1>4, <3>2 DEF ViewCalled, CyclesKept
    <3> QED
      BY <3>3, <3>4, <3>5
  <2> QED
    BY <2>1 DEF QueueView
<1>5. ASSUME NEW c \in Cycles, NEW d \in Devices, ViewOpened(c, d) PROVE QueueView'
  BY <1>2, <1>5 DEF ViewOpened
<1>6. ASSUME NEW c \in Cycles, ViewFreed(c) PROVE QueueView'
  BY <1>2, <1>6 DEF ViewFreed
<1> QED
  BY <1>1, <1>3, <1>4, <1>5, <1>6 DEF ViewStep, ViewKept, ViewDevice

-----------------------------------------------------------------------------
(* Steps the client does not see *)

\* Exact queues are what the contract sees.
LEMMA QueuesView ==
    ASSUME TypeOK PROVE QueuesOK => QueueView
  BY ViewPending DEF QueuesOK, QueueView

\* What is in flight waits for its callback.
LEMMA InflightWaits ==
    ASSUME TypeOK, InflightOK, QueuesOK, NEW c \in Range(Inflight)
    PROVE  /\ c \in Cycles /\ CycleView(c) = "pending"
           /\ cyc[c].dev \in Devices /\ devst[cyc[c].dev] = "active"
           /\ c \in Range(Pending(cyc[c].dev))
<1>1. c \in Cycles
  BY InflightTyped DEF Range
<1>2. cyc[c].dev \in Devices /\ devst[cyc[c].dev] = "active"
  BY DEF InflightOK
<1>3. c \in SentBy(cyc, cyc[c].dev)
  BY <1>1 DEF SentBy
<1>4. c \in Range(Pending(cyc[c].dev))
  BY <1>2, <1>3, PendingTyped
<1>5. CycleView(c) = "pending"
  BY <1>2, <1>4, QueuesView DEF QueueView
<1> QED
  BY <1>1, <1>2, <1>4, <1>5

\* The cycles keep their state and their device.
CyclesStay == \A c \in Cycles : cyc'[c].st = cyc[c].st /\ cyc'[c].dev = cyc[c].dev

\* These steps change neither the device nor the state of a cycle.
LEMMA CycleFields ==
    ASSUME TypeOK,
           \/ \E c \in Cycles, k \in OpKinds : DoOp(c, k)
           \/ FlushCycle
           \/ \E c \in Cycles, part \in {"value", "status"}, more, err \in BOOLEAN :
                 Answer(c, part, more, err)
    PROVE  CyclesStay
<1>1. cyc \in [Cycles -> CycleType]
  BY DEF TypeOK
<1>2. ASSUME NEW c \in Cycles, NEW k \in OpKinds, DoOp(c, k) PROVE CyclesStay
  <2>1. CASE cyc' = [cyc EXCEPT ![c].ops = @ \cup {k}]
    BY <1>1, <2>1 DEF CyclesStay, CycleType
  <2>2. CASE cyc' = [cyc EXCEPT ![c].ops = {}, ![c].dead = TRUE]
    BY <1>1, <2>2 DEF CyclesStay, CycleType
  <2> QED
    BY <1>2, <2>1, <2>2 DEF DoOp
<1>3. CASE FlushCycle
  <2> DEFINE c == Head(Top.todo)
  <2>1. \/ cyc' = cyc
        \/ cyc' = [cyc EXCEPT ![c].sent = TRUE]
        \/ \E want : cyc' = [cyc EXCEPT ![c].sent = TRUE, ![c].want = want]
    BY <1>3 DEF FlushCycle
  <2> HIDE DEF c
  <2>2. CASE cyc' = [cyc EXCEPT ![c].sent = TRUE]
    BY <1>1, <2>2 DEF CyclesStay, CycleType
  <2>3. ASSUME NEW want, cyc' = [cyc EXCEPT ![c].sent = TRUE, ![c].want = want]
        PROVE  CyclesStay
    BY <1>1, <2>3 DEF CyclesStay, CycleType
  <2> QED
    BY <2>1, <2>2, <2>3 DEF CyclesStay
<1>4. ASSUME NEW c \in Cycles, NEW part \in {"value", "status"}, NEW more \in BOOLEAN,
             NEW err \in BOOLEAN, Answer(c, part, more, err)
      PROVE  CyclesStay
  <2>1. cyc' = cyc \/ \E want : cyc' = [cyc EXCEPT ![c].want = want]
    BY <1>4 DEF Answer
  <2>2. ASSUME NEW want, cyc' = [cyc EXCEPT ![c].want = want] PROVE CyclesStay
    BY <1>1, <2>2 DEF CyclesStay, CycleType
  <2> QED
    BY <2>1, <2>2 DEF CyclesStay
<1> QED
  BY <1>2, <1>3, <1>4

\* When the queues do not change.
LEMMA KeepQueues ==
    ASSUME TypeOK, Inflight' = Inflight, \A d : Held(stack', d) = Held(stack, d), ready' = ready,
           \A c \in Range(Inflight) : cyc'[c].dev = cyc[c].dev
    PROVE  QueuesKept
<1> SUFFICES ASSUME NEW d \in Devices PROVE Pending(d)' = Pending(d)
  BY DEF QueuesKept
<1>1. Pending(d)' = Queue(Inflight, cyc', Local(d), ready[d], d)
  BY PendingQueue, LocalHeld
<1>2. Queue(Inflight, cyc', Local(d), ready[d], d) = Queue(Inflight, cyc, Local(d), ready[d], d)
  BY QueueSame, InflightTyped
<1> QED
  BY <1>1, <1>2, PendingQueue

\* When the contract sees no cycle change.
LEMMA KeepCycles ==
    ASSUME CyclesStay, \A c : Calls(stack', c) <=> Calls(stack, c) PROVE CyclesKept({})
<1> SUFFICES ASSUME NEW c \in Cycles
             PROVE  CycleView(c)' = CycleView(c) /\ cyc'[c].dev = cyc[c].dev
  BY DEF CyclesKept
<1>1. Called(c)' <=> Called(c)
  BY CalledCalls
<1> QED
  BY <1>1 DEF CycleView, CyclesStay

\* When the contract sees nothing at all.
LEMMA KeepView ==
    ASSUME TypeOK, Inflight' = Inflight, SameCalls(stack, stack'), ready' = ready, DevicesKept,
           CyclesStay
    PROVE  ViewKept
<1>1. \A c \in Range(Inflight) : c \in Cycles
  BY InflightTyped DEF Range
<1>2. QueuesKept
  BY <1>1, KeepQueues DEF SameCalls, CyclesStay
<1>3. CyclesKept({})
  BY KeepCycles DEF SameCalls
<1> QED
  BY <1>2, <1>3 DEF ViewKept

\* eb_socket_timeout and the walk over the responses keep their order.
LEMMA FlippedSame ==
    ASSUME TypeOK, Flipped PROVE Inflight' = Inflight
<1>1. PICK r \in Seq(Cycles) : r = Reverse(last)
  BY InflightTyped
<1>2. Reverse(<<>>) = <<>> /\ r \o <<>> = r /\ <<>> \o r = r
  BY DEF Reverse
<1>3. CASE first = <<>>
  BY <1>1, <1>2, <1>3 DEF Flipped, Inflight
<1>4. CASE first # <<>>
  BY <1>4 DEF Flipped, Inflight
<1> QED
  BY <1>3, <1>4

\* The walk of eb_socket_write_config moves responses from one list to the
\* other and leaves the order of both together as it was.
LEMMA WalkedSame ==
    ASSUME TypeOK, NEW found, first' = Walked(found)[1], last' = Walked(found)[2]
    PROVE  Inflight' = Inflight
<1>1. PICK i \in Seq(Cycles) : i = first \o Reverse(last)
  BY InflightTyped DEF Inflight
<1>2. Reverse(<<>>) = <<>> /\ i \o <<>> = i
  BY DEF Reverse
<1>3. CASE found
  BY <1>3 DEF Walked, Inflight
<1>4. CASE ~found
  BY <1>1, <1>2, <1>4 DEF Walked, Inflight
<1> QED
  BY <1>3, <1>4

\* The event loop is invisible to the contract.
LEMMA ViewLoop ==
    ASSUME TypeOK,
           \/ SocketRun \/ SocketCheck \/ BlockRun \/ BlockReturn \/ RunWait \/ RunReturn
           \/ ExpireDone \/ TopDone \/ DeviceDone \/ FlushSkipped \/ OpenRun
    PROVE  ViewKept /\ Inflight' = Inflight
<1>1. SameCalls(stack, stack')
  BY LoopCalls DEF LoopStep
<1>2. Inflight' = Inflight
  BY FlippedSame DEF SocketRun, SocketCheck, BlockRun, BlockReturn, RunWait, RunReturn,
                     ExpireDone, TopDone, DeviceDone, FlushSkipped, OpenRun, Inflight
<1>3. UNCHANGED <<devst, ready, cyc>>
  BY DEF SocketRun, SocketCheck, BlockRun, BlockReturn, RunWait, RunReturn, ExpireDone,
         TopDone, DeviceDone, FlushSkipped, OpenRun, devVars
<1>4. DevicesKept /\ CyclesStay
  BY <1>3 DEF DevicesKept, DeviceView, CyclesStay
<1> QED
  BY <1>1, <1>2, <1>3, <1>4, KeepView

\* A closed socket has nothing in flight.
LEMMA NothingInflight ==
    ASSUME TypeOK, DevicesOK, InflightOK, ~sockOpen PROVE Inflight = <<>>
<1>1. Range(devlist) = {}
  BY DEF DevicesOK, Range
<1>2. \A d \in Devices : devst[d] = "free"
  BY <1>1 DEF DevicesOK
<1>3. Range(Inflight) = {}
  BY <1>2 DEF InflightOK
<1>4. PICK i \in Seq(Cycles) : i = Inflight
  BY InflightTyped
<1>5. i # <<>> => Head(i) \in Range(i)
  BY HeadTail
<1> QED
  BY <1>3, <1>4, <1>5

\* So are operations, the flip of the lists, unmatched answers and the socket.
LEMMA ViewQuiet ==
    ASSUME TypeOK, DevicesOK, InflightOK,
           \/ \E c \in Cycles, k \in OpKinds : DoOp(c, k)
           \/ SocketTimeout \/ SocketClose \/ SocketOpen \/ UnmatchedAnswer \/ LinkBreak
           \/ UNCHANGED vars
    PROVE  ViewKept /\ Inflight' = Inflight
<1>1. UNCHANGED <<devst, ready, stack>>
  BY DEF DoOp, SocketTimeout, SocketClose, SocketOpen, UnmatchedAnswer, LinkBreak, vars, devVars
<1>2. CyclesStay
  <2>1. CASE \E c \in Cycles, k \in OpKinds : DoOp(c, k)
    BY <2>1, CycleFields
  <2>2. CASE cyc' = cyc
    BY <2>2 DEF CyclesStay
  <2> QED
    BY <2>1, <2>2 DEF SocketTimeout, SocketClose, SocketOpen, UnmatchedAnswer, LinkBreak, vars
<1>3. Inflight' = Inflight
  <2>1. CASE SocketTimeout
    BY <2>1, FlippedSame DEF SocketTimeout
  <2>2. CASE SocketOpen
    <3>1. Inflight = <<>>
      BY <2>2, NothingInflight DEF SocketOpen
    <3>2. Reverse(<<>>) = <<>> /\ <<>> \o <<>> = <<>>
      BY DEF Reverse
    <3> QED
      BY <2>2, <3>1, <3>2 DEF SocketOpen, Inflight
  <2>3. CASE UnmatchedAnswer
    <3>1. first' = Walked(FALSE)[1] /\ last' = Walked(FALSE)[2]
      BY <2>3 DEF UnmatchedAnswer
    <3> QED
      BY <3>1, WalkedSame
  <2>4. CASE UNCHANGED <<first, last>>
    BY <2>4 DEF Inflight
  <2> QED
    BY <2>1, <2>2, <2>3, <2>4 DEF DoOp, SocketClose, LinkBreak, vars
<1>4. DevicesKept
  BY <1>1 DEF DevicesKept, DeviceView
<1>5. SameCalls(stack, stack')
  BY <1>1 DEF SameCalls
<1> QED
  BY <1>1, <1>2, <1>3, <1>4, <1>5, KeepView

-----------------------------------------------------------------------------
(* Opening, aborting and closing a cycle, and returning from its callback *)

\* A cycle that is not in flight may change its device.
LEMMA QueuesWithout ==
    ASSUME TypeOK, NEW c \in Cycles, c \notin Range(Inflight), UNCHANGED <<first, last, ready>>,
           \A d : Held(stack', d) = Held(stack, d),
           \A x \in Cycles : x # c => cyc'[x] = cyc[x]
    PROVE  QueuesKept /\ Inflight' = Inflight
<1>1. Inflight' = Inflight
  BY DEF Inflight
<1>2. Range(Inflight) \subseteq Cycles
  BY InflightTyped DEF Range
<1> QED
  BY <1>1, <1>2, KeepQueues

\* Only one cycle changes.
LEMMA ViewOthers ==
    ASSUME NEW c, \A x \in Cycles : x # c => cyc'[x] = cyc[x],
           \A x \in Cycles : x # c => (Called(x)' <=> Called(x))
    PROVE  CyclesKept({c})
  BY DEF CyclesKept, CycleView

\* Opening a cycle is the opening of the contract.
LEMMA ViewOpen ==
    ASSUME TypeOK, TypeOK', InflightOK, QueuesOK, NEW c \in Cycles, NEW d \in Devices,
           NEW blk \in BOOLEAN, CycleOpen(c, d, blk)
    PROVE  ViewOpened(c, d) /\ Inflight' = Inflight
<1>1. /\ cyc'[c].st = "open" /\ cyc'[c].dev = d /\ cyc[c].st = "free"
      /\ \A x \in Cycles : x # c => cyc'[x] = cyc[x]
  BY DEF CycleOpen, TypeOK, FreeCycle
<1>2. CycleView(c) = "free" /\ CycleView(c)' = "open"
  BY <1>1, ViewPending, ViewPendingPrime
<1>3. c \notin Range(Inflight)
  BY <1>2, InflightWaits
<1>4. UNCHANGED <<first, last, ready, stack, devst>>
  BY DEF CycleOpen, devVars
<1>5. QueuesKept /\ Inflight' = Inflight
  BY <1>1, <1>3, <1>4, QueuesWithout
<1>6. CyclesKept({c})
  BY <1>1, <1>4, ViewOthers DEF Called
<1>7. DevicesKept /\ DeviceView(d) = "live"
  BY <1>4 DEF DevicesKept, DeviceView, CycleOpen
<1> QED
  BY <1>1, <1>2, <1>5, <1>6, <1>7 DEF ViewOpened

\* Aborting a cycle frees it.
LEMMA ViewAbort ==
    ASSUME TypeOK, TypeOK', InflightOK, QueuesOK, NEW c \in Cycles, CycleAbort(c)
    PROVE  ViewFreed(c) /\ Inflight' = Inflight
<1>1. /\ cyc'[c].st = "free" /\ cyc'[c].dev = NoDev /\ cyc[c].st = "open"
      /\ \A x \in Cycles : x # c => cyc'[x] = cyc[x]
  BY DEF CycleAbort, TypeOK, FreeCycle
<1>2. CycleView(c) = "open" /\ CycleView(c)' = "free"
  BY <1>1, ViewPending, ViewPendingPrime
<1>3. c \notin Range(Inflight)
  BY <1>2, InflightWaits
<1>4. UNCHANGED <<first, last, ready, stack, devst>>
  BY DEF CycleAbort, devVars
<1>5. QueuesKept /\ Inflight' = Inflight
  BY <1>1, <1>3, <1>4, QueuesWithout
<1>6. CyclesKept({c})
  BY <1>1, <1>4, ViewOthers DEF Called
<1>7. DevicesKept
  BY <1>4 DEF DevicesKept, DeviceView
<1> QED
  BY <1>1, <1>2, <1>5, <1>6, <1>7 DEF ViewFreed

\* The frame of a callback, and what is left when it returns.
LEMMA CallbackTop ==
    ASSUME TypeOK, QueuesOK, CallbackReturn
    PROVE  /\ Top.c \in Cycles /\ cyc[Top.c].st = "closed" /\ Called(Top.c)
           /\ ~Calls(Below, Top.c) /\ Distinct(Below)
           /\ \A c : Calls(stack, c) <=> Calls(Below, c) \/ c = Top.c
           /\ \A d : Held(stack, d) = Held(Below, d)
<1>1. stack # <<>> /\ Top.op = "cb"
  BY DEF CallbackReturn, Running, Top
<1>2. PICK f \in FrameType : f = Top
  BY <1>1, TopFacts
<1>3. PICK b \in Seq(FrameType) : b = Below
  BY <1>1, TopFacts
<1>4. stack = <<f>> \o b
  BY <1>1, <1>2, <1>3, TopFacts
<1>5. Distinct(<<f>> \o b)
  BY <1>4 DEF QueuesOK, Distinct, CallRel
<1>6. Distinct(b) /\ ~Calls(b, f.c)
  BY <1>1, <1>2, <1>5, DistinctCons
<1>7. \A c : Calls(stack, c) <=> Calls(b, c) \/ c = f.c
  BY <1>1, <1>2, <1>4, CallsCons
<1>8. \A d : Held(stack, d) = Held(b, d)
  BY <1>1, <1>2, <1>4, HeldCons DEF Holds
<1>9. Called(Top.c)
  BY <1>2, <1>7, CalledCalls
<1> QED
  BY <1>2, <1>3, <1>6, <1>7, <1>8, <1>9, CallbackClosed

\* The return of a callback does not change those below.
LEMMA ReturnedCalls ==
    ASSUME TypeOK, stack # <<>>
    PROVE  /\ \A c : Calls(Returned, c) <=> Calls(Below, c)
           /\ Distinct(Below) => Distinct(Returned)
<1>1. PICK b \in Seq(FrameType) : b = Below
  BY TopFacts
<1>2. PICK r \in Seq(FrameType) : r = Returned
  BY ReturnTyped
<1>3. /\ DOMAIN r = DOMAIN b
      /\ \A i \in DOMAIN b : /\ r[i].op = b[i].op
                             /\ b[i].op # "block" => r[i] = b[i]
  BY <1>1, <1>2, ReturnTyped
<1>4. ASSUME NEW c PROVE Calls(r, c) <=> Calls(b, c)
  BY <1>3 DEF Calls, Range
<1>5. ASSUME Distinct(b), NEW i \in DOMAIN b, NEW j \in DOMAIN b, i < j
      PROVE  <<r[i], r[j]>> \in CallRel
  <2>1. <<b[i], b[j]>> \in CallRel
    BY <1>5 DEF Distinct, Ordered
  <2>2. b[i].op = "cb" /\ b[j].op = "cb" => b[i].c # b[j].c
    BY <2>1 DEF CallRel
  <2>3. r[i] \in FrameType /\ r[j] \in FrameType
    BY <1>3
  <2>4. r[i].op = "cb" /\ r[j].op = "cb" => r[i].c # r[j].c
    BY <1>3, <2>2
  <2> QED
    BY <2>3, <2>4 DEF CallRel
<1> QED
  BY <1>1, <1>2, <1>3, <1>4, <1>5 DEF Distinct, Ordered

\* The return of a callback frees its cycle.
LEMMA ViewReturn ==
    ASSUME TypeOK, TypeOK', InflightOK, QueuesOK, CallbackReturn
    PROVE  \E c \in Cycles : ViewFreed(c) /\ Inflight' = Inflight
<1>1. PICK c \in Cycles : c = Top.c
  BY CallbackTop
<1>2. stack # <<>> /\ stack' = Returned
  BY DEF CallbackReturn, Running, Returned
<1>3. /\ cyc'[c].st = "free" /\ cyc'[c].dev = NoDev
      /\ \A x \in Cycles : x # c => cyc'[x] = cyc[x]
  BY <1>1 DEF CallbackReturn, TypeOK, FreeCycle
<1>4. CycleView(c) = "calling" /\ CycleView(c)' = "free"
  BY <1>1, <1>3, CallbackTop, ViewPending, ViewPendingPrime
<1>5. c \notin Range(Inflight)
  BY <1>4, InflightWaits
<1>6. UNCHANGED <<first, last, ready, devst>>
  BY DEF CallbackReturn, devVars
<1>7. \A d : Held(stack', d) = Held(stack, d)
  BY <1>2, CallbackTop, HeldReturned
<1>8. QueuesKept /\ Inflight' = Inflight
  BY <1>3, <1>5, <1>6, <1>7, QueuesWithout
<1>9. \A x \in Cycles : x # c => (Called(x)' <=> Called(x))
  BY <1>1, <1>2, CallbackTop, CalledCalls, ReturnedCalls
<1>10. CyclesKept({c})
  BY <1>3, <1>9, ViewOthers
<1>11. DevicesKept
  BY <1>6 DEF DevicesKept, DeviceView
<1> QED
  BY <1>3, <1>4, <1>8, <1>10, <1>11 DEF ViewFreed

\* Closing a cycle puts it at the end of its queue.
LEMMA ViewClose ==
    ASSUME TypeOK, TypeOK', CyclesOK, InflightOK, QueuesOK, NEW c \in Cycles,
           NEW check \in BOOLEAN, CycleClose(c, check)
    PROVE  ViewClosed(c) /\ Inflight' = Inflight
<1>1. /\ cyc'[c].st = "closed" /\ cyc'[c].dev = cyc[c].dev /\ cyc[c].st = "open"
      /\ \A x \in Cycles : x # c => cyc'[x] = cyc[x]
  <2>1. PICK r \in CycleType : r = cyc[c]
    BY DEF TypeOK
  <2> DEFINE n == [r EXCEPT !.st = "closed", !.chk = check /\ r.ops # {}]
  <2>2. n.st = "closed" /\ n.dev = r.dev
    BY DEF CycleType
  <2>3. cyc' = [cyc EXCEPT ![c] = n]
    BY <2>1 DEF CycleClose, TypeOK
  <2> HIDE DEF n
  <2> QED
    BY <2>1, <2>2, <2>3 DEF CycleClose, TypeOK
<1>2. PICK d \in Devices : d = cyc[c].dev
  BY <1>1 DEF CyclesOK
<1>3. SameCalls(stack, stack')
  BY LoopCalls DEF LoopStep
<1>4. \A x \in Cycles : Called(x)' <=> Called(x)
  BY <1>3, CalledCalls DEF SameCalls
<1>5. CycleView(c) = "open" /\ ~Called(c)
  <2>1. CycleView(c) = "open"
    BY <1>1, ViewPending
  <2>2. ASSUME Called(c) PROVE FALSE
    <3>1. cyc[c].st = "closed"
      BY <2>2 DEF Called, QueuesOK
    <3> QED
      BY <1>1, <3>1
  <2> QED
    BY <2>1, <2>2
<1>6. CycleView(c)' = "pending"
  BY <1>1, <1>4, <1>5, ViewPendingPrime
<1>7. Inflight' = Inflight /\ devst' = devst
  BY DEF CycleClose, Inflight, devVars
<1>8. ASSUME NEW x \in Devices
      PROVE  Pending(x)' = IF x = d THEN Append(Pending(x), c) ELSE Pending(x)
  <2>1. PICK inf \in Seq(Cycles) : inf = Inflight
    BY InflightTyped
  <2>2. PICK loc \in Seq(Cycles) : loc = Local(x)
    BY PendingTyped
  <2>3. PICK rdy \in Seq(Cycles) : rdy = ready[x]
    BY PendingTyped
  <2>4. Local(x)' = loc
    BY <1>3, <2>2, LocalHeld DEF SameCalls
  <2>5. \A y \in Range(inf) : cyc'[y].dev = cyc[y].dev
    <3>1. Range(inf) \subseteq Cycles
      BY DEF Range
    <3> QED
      BY <1>1, <3>1
  <2>6. Pending(x)' = Queue(inf, cyc', loc, ready'[x], x)
    BY <1>7, <2>1, <2>4, PendingQueue
  <2>7. Pending(x)' = Queue(inf, cyc, loc, ready'[x], x)
    BY <2>5, <2>6, QueueSame
  <2>8. Pending(x) = Queue(inf, cyc, loc, rdy, x)
    BY <2>1, <2>2, <2>3, PendingQueue
  <2>9. CASE x = d
    <3>1. ready'[x] = <<c>> \o rdy
      BY <1>2, <2>3, <2>9 DEF CycleClose, TypeOK
    <3>2. QueueGrows(inf, cyc, loc, rdy, x, c)
      BY QueueClosed
    <3> QED
      BY <2>7, <2>8, <2>9, <3>1, <3>2 DEF QueueGrows
  <2>10. CASE x # d
    <3>1. ready'[x] = rdy
      BY <1>2, <2>3, <2>10 DEF CycleClose, TypeOK
    <3> QED
      BY <2>7, <2>8, <2>10, <3>1
  <2> QED
    BY <2>9, <2>10
<1>9. CyclesKept({c})
  BY <1>1, <1>4, ViewOthers
<1>10. DevicesKept
  BY <1>7 DEF DevicesKept, DeviceView
<1> QED
  BY <1>1, <1>2, <1>5, <1>6, <1>7, <1>8, <1>9, <1>10 DEF ViewClosed

-----------------------------------------------------------------------------
(* Callbacks *)

\* Pushing a callback onto a list of frames.
CallPushed(s, t, c) ==
    /\ \A x : Calls(t, x) <=> Calls(s, x) \/ x = c
    /\ \A d : Held(t, d) = Held(s, d)
    /\ Distinct(s) /\ ~Calls(s, c) => Distinct(t)

\* A callback is pushed.
LEMMA CallbackPush ==
    ASSUME NEW s \in Seq(FrameType), NEW c \in Cycles, NEW st \in Statuses
    PROVE  CallPushed(s, <<Calling(c, st)>> \o s, c)
<1> DEFINE k == Calling(c, st)
<1>1. k \in FrameType
  BY CallingTyped
<1>2. k.op = "cb" /\ k.c = c
  BY DEF Calling, Frame
<1> DEFINE t == <<k>> \o s
<1> HIDE DEF k
<1>3. t = <<k>> \o s
  OBVIOUS
<1> HIDE DEF t
<1>4. \A x : Calls(t, x) <=> Calls(s, x) \/ x = c
  BY <1>1, <1>2, <1>3, CallsCons
<1>5. \A d : Held(t, d) = Held(s, d)
  BY <1>1, <1>2, <1>3, HeldCons DEF Holds
<1>6. Distinct(s) /\ ~Calls(s, c) => Distinct(t)
  BY <1>1, <1>2, <1>3, DistinctCons
<1>7. CallPushed(s, t, c)
  BY <1>4, <1>5, <1>6 DEF CallPushed
<1> QED
  BY <1>3, <1>7 DEF k

\* A callback for a waiting cycle, seen by the client.
LEMMA CalledView ==
    ASSUME TypeOK, TypeOK', NEW c \in Cycles, CycleView(c) = "pending", CyclesStay,
           \A x : Calls(stack', x) <=> Calls(stack, x) \/ x = c
    PROVE  CyclesKept({c}) /\ CycleView(c)' = "calling" /\ cyc'[c].dev = cyc[c].dev
<1>1. \A x \in Cycles : x # c => (Called(x)' <=> Called(x))
  BY CalledCalls
<1>2. Called(c)'
  BY CalledCalls
<1>3. CycleView(c)' = "calling"
  BY <1>2, ViewPending, ViewPendingPrime DEF CyclesStay
<1>4. CyclesKept({c})
  BY <1>1 DEF CyclesKept, CycleView, CyclesStay
<1> QED
  BY <1>3, <1>4 DEF CyclesStay

\* Queues in which a cycle does not wait.
LEMMA QueueElsewhere ==
    ASSUME TypeOK, QueueView, NEW c \in Cycles, NEW d \in Devices, cyc[c].dev # d
    PROVE  Filter(Pending(d), Cycles \ {c}) = Pending(d) /\ c \notin Range(Pending(d))
<1>1. Range(Pending(d)) \subseteq Cycles \ {c}
  BY DEF QueueView
<1> QED
  BY <1>1, PendingTyped, FilterNothing

\* Expire and Answer: the cycle was in flight.
LEMMA ViewAnswered ==
    ASSUME TypeOK, TypeOK', DevicesOK, InflightOK, QueuesOK, NEW c \in Range(Inflight),
           NEW st \in Statuses,
           Inflight' = Filter(Inflight, Cycles \ {c}), stack' = <<Calling(c, st)>> \o stack,
           UNCHANGED <<devst, ready>>, CyclesStay
    PROVE  ViewCalled(c) /\ Distinct(stack')
<1>1. /\ c \in Cycles /\ CycleView(c) = "pending"
      /\ cyc[c].dev \in Devices /\ devst[cyc[c].dev] = "active"
  BY InflightWaits
<1>2. PICK s \in Seq(FrameType) : s = stack
  BY DEF TypeOK
<1>3. ~Calls(s, c) /\ Distinct(s)
  BY <1>1, <1>2, ViewPending, CalledCalls DEF QueuesOK, Distinct, CallRel
<1>4. /\ \A x : Calls(stack', x) <=> Calls(stack, x) \/ x = c
      /\ \A d : Held(stack', d) = Held(stack, d)
      /\ Distinct(stack')
  <2>1. CallPushed(s, <<Calling(c, st)>> \o s, c)
    BY <1>1, CallbackPush
  <2>2. CallPushed(s, stack', c)
    BY <1>2, <2>1
  <2> QED
    BY <1>2, <1>3, <2>2 DEF CallPushed
<1>5. QueueView
  BY QueuesView
<1>6. ASSUME NEW d \in Devices PROVE Pending(d)' = Filter(Pending(d), Cycles \ {c})
  <2>1. PICK inf \in Seq(Cycles) : inf = Inflight
    BY InflightTyped
  <2>2. PICK loc \in Seq(Cycles) : loc = Local(d)
    BY PendingTyped
  <2>3. PICK rdy \in Seq(Cycles) : rdy = ready[d]
    BY PendingTyped
  <2>4. Pending(d)' = Queue(Filter(inf, Cycles \ {c}), cyc', loc, rdy, d)
    BY <1>4, <2>1, <2>2, <2>3, PendingQueue, LocalHeld
  <2>5. Filter(inf, Cycles \ {c}) \in Seq(Cycles)
    BY FilterType
  <2>6. \A x \in Range(Filter(inf, Cycles \ {c})) : cyc'[x].dev = cyc[x].dev
    <3>1. Range(Filter(inf, Cycles \ {c})) \subseteq Cycles
      BY <2>5 DEF Range
    <3> QED
      BY <3>1 DEF CyclesStay
  <2>7. Pending(d)' = Queue(Filter(inf, Cycles \ {c}), cyc, loc, rdy, d)
    <3>1. PICK fi \in Seq(Cycles) : fi = Filter(inf, Cycles \ {c})
      BY <2>5
    <3>2. Pending(d)' = Queue(fi, cyc', loc, rdy, d)
      BY <2>4, <3>1
    <3>3. \A x \in Range(fi) : cyc'[x].dev = cyc[x].dev
      BY <2>6, <3>1
    <3>4. Queue(fi, cyc', loc, rdy, d) = Queue(fi, cyc, loc, rdy, d)
      BY <3>3, QueueSame
    <3> QED
      BY <3>1, <3>2, <3>4
  <2>8. Pending(d) = Queue(inf, cyc, loc, rdy, d)
    BY <2>1, <2>2, <2>3, PendingQueue
  <2>9. c \notin Range(loc) /\ c \notin Range(rdy)
    <3>1. CASE cyc[c].dev = d
      <4>1. PICK a \in Seq(Cycles) : a = Filter(inf, SentBy(cyc, d))
        BY FilterType
      <4>2. PICK r \in Seq(Cycles) : r = Reverse(rdy) /\ Range(r) = Range(rdy)
        BY ReverseFacts
      <4>3. PICK b \in Seq(Cycles) : b = a \o loc
        BY ConcatTyped
      <4>4. IsInjective(b \o r)
        BY <1>5, <2>8, <4>1, <4>2, <4>3 DEF QueueView, Queue
      <4>5. /\ IsInjective(b) /\ Range(b) \cap Range(r) = {}
            /\ Range(b) = Range(a) \cup Range(loc)
        <5>1. Range(b) \cap Range(r) = {}
          BY <4>4, ConcatDisjoint
        <5>2. IsInjective(b)
          BY <4>4, ConcatInjective
        <5>3. Range(a \o loc) = Range(a) \cup Range(loc)
          BY RangeConcat
        <5> QED
          BY <4>3, <5>1, <5>2, <5>3
      <4>6. Range(a) \cap Range(loc) = {}
        <5>1. IsInjective(a \o loc)
          BY <4>3, <4>5
        <5> QED
          BY <5>1, ConcatDisjoint
      <4>7. c \in Range(a)
        <5>1. Range(a) = Range(inf) \cap SentBy(cyc, d)
          BY <4>1, FilterRange
        <5> QED
          BY <1>1, <2>1, <3>1, <5>1 DEF SentBy
      <4> QED
        BY <4>2, <4>5, <4>6, <4>7
    <3>2. CASE cyc[c].dev # d
      <4>1. c \notin Range(Pending(d))
        BY <1>1, <1>5, <3>2, QueueElsewhere
      <4> QED
        BY <2>2, <2>3, <4>1, PendingTyped
    <3> QED
      BY <3>1, <3>2
  <2>10. Queue(Filter(inf, Cycles \ {c}), cyc, loc, rdy, d)
            = Filter(Queue(inf, cyc, loc, rdy, d), Cycles \ {c})
    BY <1>1, <2>9, QueueAnswered
  <2> QED
    BY <2>7, <2>8, <2>10
<1>7. DevicesKept /\ DeviceView(cyc[c].dev) = "live"
  BY <1>1 DEF DevicesKept, DeviceView
<1> QED
  BY <1>1, <1>4, <1>6, <1>7, CalledView DEF ViewCalled
=============================================================================

----------------------- MODULE EBSocketContract_proofs -----------------------
(* Every step of the socket is a step of its contract, and the theorems.    *)
EXTENDS EBSocketQueues_proofs

-----------------------------------------------------------------------------
(* What every step is shown to do *)

\* The calls below QueuesOK's first two conjuncts, after a step.
CallsStep ==
    /\ Distinct(stack')
    /\ \A x : Calls(stack', x) => x \in Cycles /\ cyc'[x].st = "closed"

\* Callbacks are of different, closed cycles.
LEMMA CallsNow ==
    ASSUME QueuesOK
    PROVE  Distinct(stack) /\ \A x : Calls(stack, x) => x \in Cycles /\ cyc[x].st = "closed"
<1>1. Distinct(stack)
  BY DEF QueuesOK, Distinct, CallRel
<1>2. \A x : Calls(stack, x) => x \in Cycles /\ cyc[x].st = "closed"
  BY DEF QueuesOK, Calls
<1> QED
  BY <1>1, <1>2

\* No callback begins or ends.
LEMMA CallsKept ==
    ASSUME QueuesOK, SameCalls(stack, stack'),
           \A x \in Cycles : cyc[x].st = "closed" => cyc'[x].st = "closed"
    PROVE  CallsStep
  BY CallsNow DEF SameCalls, CallsStep

\* A callback begins, of a cycle that was not being called back.
LEMMA CallsPushed ==
    ASSUME QueuesOK, CyclesStay, NEW c \in Cycles, cyc[c].st = "closed", Distinct(stack'),
           \A x : Calls(stack', x) <=> Calls(stack, x) \/ x = c
    PROVE  CallsStep
  BY CallsNow DEF CallsStep, CyclesStay

\* Nothing is sent or answered, and what is in flight stays right.
LEMMA InflightKept ==
    ASSUME TypeOK, InflightOK, Inflight' = Inflight,
           \A c \in Range(Inflight) : cyc'[c].sent /\ cyc'[c].dev = cyc[c].dev,
           \A d \in Devices : devst[d] = "active" => devst'[d] = "active"
    PROVE  InflightOK'
<1>1. ASSUME NEW c \in Range(Inflight)
      PROVE  cyc'[c].sent /\ cyc'[c].dev \in Devices /\ devst'[cyc'[c].dev] = "active"
  BY DEF InflightOK
<1> QED
  BY <1>1 DEF InflightOK

\* Some of what is in flight is taken out.
LEMMA InflightLess ==
    ASSUME TypeOK, InflightOK, NEW X, Inflight' = Filter(Inflight, X),
           \A c \in Range(Inflight) \cap X : cyc'[c].sent /\ cyc'[c].dev = cyc[c].dev,
           \A c \in Range(Inflight) \cap X : devst'[cyc[c].dev] = "active"
    PROVE  InflightOK'
<1>1. PICK inf \in Seq(Cycles) : inf = Inflight
  BY InflightTyped
<1>2. Range(Filter(inf, X)) = Range(inf) \cap X
  BY FilterRange
<1>3. IsInjective(Filter(inf, X))
  BY <1>1, FilterInjective DEF InflightOK
<1>4. ASSUME NEW c \in Range(inf) \cap X
      PROVE  cyc'[c].sent /\ cyc'[c].dev \in Devices /\ devst'[cyc'[c].dev] = "active"
  BY <1>1 DEF InflightOK
<1> QED
  BY <1>1, <1>2, <1>3, <1>4 DEF InflightOK

\* A cycle that was sent stays marked as sent.
LEMMA SentKept ==
    ASSUME TypeOK,
           \/ \E c \in Cycles, k \in OpKinds : DoOp(c, k)
           \/ FlushCycle
           \/ \E c \in Cycles, part \in {"value", "status"}, more, err \in BOOLEAN :
                 Answer(c, part, more, err)
    PROVE  \A c \in Cycles : cyc[c].sent => cyc'[c].sent
<1> DEFINE Q == \A x \in Cycles : cyc[x].sent => cyc'[x].sent
<1>1. cyc \in [Cycles -> CycleType]
  BY DEF TypeOK
<1>2. ASSUME NEW c \in Cycles, NEW k \in OpKinds, DoOp(c, k) PROVE Q
  <2>1. CASE cyc' = [cyc EXCEPT ![c].ops = @ \cup {k}]
    BY <1>1, <2>1 DEF CycleType
  <2>2. CASE cyc' = [cyc EXCEPT ![c].ops = {}, ![c].dead = TRUE]
    BY <1>1, <2>2 DEF CycleType
  <2> QED
    BY <1>2, <2>1, <2>2 DEF DoOp
<1>3. CASE FlushCycle
  <2> DEFINE c == Head(Top.todo)
  <2>1. \/ cyc' = cyc
        \/ cyc' = [cyc EXCEPT ![c].sent = TRUE]
        \/ \E want : cyc' = [cyc EXCEPT ![c].sent = TRUE, ![c].want = want]
    BY <1>3 DEF FlushCycle
  <2> HIDE DEF c
  <2>2. CASE cyc' = [cyc EXCEPT ![c].sent = TRUE]
    BY <1>1, <2>2 DEF CycleType
  <2>3. ASSUME NEW want, cyc' = [cyc EXCEPT ![c].sent = TRUE, ![c].want = want] PROVE Q
    BY <1>1, <2>3 DEF CycleType
  <2> QED
    BY <2>1, <2>2, <2>3
<1>4. ASSUME NEW c \in Cycles, NEW part \in {"value", "status"}, NEW more \in BOOLEAN,
             NEW err \in BOOLEAN, Answer(c, part, more, err)
      PROVE  Q
  <2>1. cyc' = cyc \/ \E want : cyc' = [cyc EXCEPT ![c].want = want]
    BY <1>4 DEF Answer
  <2>2. ASSUME NEW want, cyc' = [cyc EXCEPT ![c].want = want] PROVE Q
    BY <1>1, <2>2 DEF CycleType
  <2> QED
    BY <2>1, <2>2
<1> QED
  BY <1>2, <1>3, <1>4

\* What a step does to the client's view, the responses and the callbacks.
StepOK == ViewStep /\ InflightOK' /\ CallsStep

\* No callback is made.
Uncalled == \A x : Calls(stack', x) => Calls(stack, x)

\* The steps of the event loop.
LEMMA StepLoop ==
    ASSUME TypeOK, SocketInv,
           \/ SocketRun \/ SocketCheck \/ BlockRun \/ BlockReturn \/ RunWait \/ RunReturn
           \/ ExpireDone \/ TopDone \/ DeviceDone \/ FlushSkipped \/ OpenRun
    PROVE  StepOK /\ Uncalled /\ Inflight' = Inflight
<1>1. SameCalls(stack, stack')
  BY LoopCalls DEF LoopStep
<1>2. UNCHANGED <<devst, cyc>>
  BY DEF SocketRun, SocketCheck, BlockRun, BlockReturn, RunWait, RunReturn, ExpireDone,
         TopDone, DeviceDone, FlushSkipped, OpenRun, devVars
<1>3. ViewKept /\ Inflight' = Inflight
  BY ViewLoop
<1>4. InflightOK'
  BY <1>2, <1>3, InflightKept DEF SocketInv, InflightOK
<1>5. CallsStep
  BY <1>1, <1>2, CallsKept DEF SocketInv
<1> QED
  BY <1>1, <1>3, <1>4, <1>5 DEF StepOK, ViewStep, Uncalled, SameCalls

\* Operations, the flip, unmatched answers, broken links and the socket.
LEMMA StepQuiet ==
    ASSUME TypeOK, SocketInv,
           \/ \E c \in Cycles, k \in OpKinds : DoOp(c, k)
           \/ SocketTimeout \/ SocketClose \/ SocketOpen \/ UnmatchedAnswer \/ LinkBreak
           \/ UNCHANGED vars
    PROVE  StepOK /\ Uncalled /\ Inflight' = Inflight
<1>1. SameCalls(stack, stack')
  BY DEF SameCalls, DoOp, SocketTimeout, SocketClose, SocketOpen, UnmatchedAnswer, LinkBreak, vars
<1>2. devst' = devst
  BY DEF DoOp, SocketTimeout, SocketClose, SocketOpen, UnmatchedAnswer, LinkBreak, vars, devVars
<1>3. ViewKept /\ Inflight' = Inflight
  BY ViewQuiet DEF SocketInv
<1>4. CyclesStay /\ \A c \in Cycles : cyc[c].sent => cyc'[c].sent
  <2>1. CASE \E c \in Cycles, k \in OpKinds : DoOp(c, k)
    BY <2>1, CycleFields, SentKept
  <2>2. CASE cyc' = cyc
    BY <2>2 DEF CyclesStay
  <2> QED
    BY <2>1, <2>2 DEF SocketTimeout, SocketClose, SocketOpen, UnmatchedAnswer, LinkBreak, vars
<1>5. InflightOK'
  <2>1. Range(Inflight) \subseteq Cycles
    BY InflightTyped DEF Range
  <2>2. \A c \in Range(Inflight) : cyc'[c].sent /\ cyc'[c].dev = cyc[c].dev
    BY <1>4, <2>1 DEF CyclesStay, SocketInv, InflightOK
  <2> QED
    BY <1>2, <1>3, <2>2, InflightKept DEF SocketInv
<1>6. CallsStep
  BY <1>1, <1>4, CallsKept DEF SocketInv, CyclesStay
<1> QED
  BY <1>1, <1>3, <1>5, <1>6 DEF StepOK, ViewStep, Uncalled, SameCalls

\* A cycle that does not wait in flight changes.
LEMMA InflightOthers ==
    ASSUME TypeOK, InflightOK, NEW c, c \notin Range(Inflight), Inflight' = Inflight,
           devst' = devst, \A x \in Cycles : x # c => cyc'[x] = cyc[x]
    PROVE  InflightOK'
<1>1. Range(Inflight) \subseteq Cycles
  BY InflightTyped DEF Range
<1>2. \A x \in Range(Inflight) : cyc'[x].sent /\ cyc'[x].dev = cyc[x].dev
  BY <1>1 DEF InflightOK
<1> QED
  BY <1>2, InflightKept

\* Cycles that are not waiting are not in flight.
LEMMA NotInflight ==
    ASSUME TypeOK, SocketInv, NEW c \in Cycles, CycleView(c) # "pending"
    PROVE  c \notin Range(Inflight)
  BY InflightWaits DEF SocketInv

\* Opening, aborting and closing a cycle.
LEMMA StepCycles ==
    ASSUME TypeOK, TypeOK', SocketInv,
           \/ \E c \in Cycles, d \in Devices, blk \in BOOLEAN : CycleOpen(c, d, blk)
           \/ \E c \in Cycles : CycleAbort(c)
           \/ \E c \in Cycles, check \in BOOLEAN : CycleClose(c, check)
    PROVE  StepOK /\ Uncalled /\ Inflight' = Inflight
<1>1. \/ \E c \in Cycles, d \in Devices, blk \in BOOLEAN : CycleOpen(c, d, blk)
      \/ \E c \in Cycles : CycleAbort(c)
      \/ \E c \in Cycles, check \in BOOLEAN : CycleClose(c, check)
  OBVIOUS
<1>2. TypeOK /\ TypeOK' /\ CyclesOK /\ InflightOK /\ QueuesOK
  BY DEF SocketInv
<1>3. ASSUME NEW c \in Cycles, NEW d \in Devices, NEW blk \in BOOLEAN, CycleOpen(c, d, blk)
      PROVE  StepOK /\ Uncalled /\ Inflight' = Inflight
  <2>1. ViewOpened(c, d) /\ Inflight' = Inflight
    BY <1>2, <1>3, ViewOpen
  <2>2. c \notin Range(Inflight)
    BY <2>1, NotInflight DEF ViewOpened
  <2>3. /\ devst' = devst /\ stack' = stack /\ cyc[c].st = "free"
        /\ \A x \in Cycles : x # c => cyc'[x] = cyc[x]
    BY <1>3 DEF CycleOpen, TypeOK, devVars
  <2>4. InflightOK'
    BY <1>2, <2>1, <2>2, <2>3, InflightOthers
  <2>5. CallsStep
    BY <1>2, <2>3, CallsKept DEF SameCalls
  <2> QED
    BY <2>1, <2>3, <2>4, <2>5 DEF StepOK, ViewStep, Uncalled
<1>4. ASSUME NEW c \in Cycles, CycleAbort(c) PROVE StepOK /\ Uncalled /\ Inflight' = Inflight
  <2>1. ViewFreed(c) /\ Inflight' = Inflight
    BY <1>2, <1>4, ViewAbort
  <2>2. c \notin Range(Inflight)
    BY <2>1, NotInflight DEF ViewFreed
  <2>3. /\ devst' = devst /\ stack' = stack /\ cyc[c].st = "open"
        /\ \A x \in Cycles : x # c => cyc'[x] = cyc[x]
    BY <1>4 DEF CycleAbort, TypeOK, devVars
  <2>4. InflightOK'
    BY <1>2, <2>1, <2>2, <2>3, InflightOthers
  <2>5. CallsStep
    BY <1>2, <2>3, CallsKept DEF SameCalls
  <2> QED
    BY <2>1, <2>3, <2>4, <2>5 DEF StepOK, ViewStep, Uncalled
<1>5. ASSUME NEW c \in Cycles, NEW check \in BOOLEAN, CycleClose(c, check)
      PROVE  StepOK /\ Uncalled /\ Inflight' = Inflight
  <2>1. ViewClosed(c) /\ Inflight' = Inflight
    BY <1>2, <1>5, ViewClose
  <2>2. c \notin Range(Inflight)
    BY <2>1, NotInflight DEF ViewClosed
  <2>3. /\ devst' = devst /\ cyc[c].st = "open"
        /\ \A x \in Cycles : x # c => cyc'[x] = cyc[x]
    BY <1>5, ZenonT(60) DEF CycleClose, TypeOK, devVars
  <2>4. InflightOK'
    BY <1>2, <2>1, <2>2, <2>3, InflightOthers
  <2>5. SameCalls(stack, stack')
    BY <1>5, LoopCalls DEF LoopStep
  <2>6. CallsStep
    BY <1>2, <2>3, <2>5, CallsKept
  <2> QED
    BY <2>1, <2>4, <2>5, <2>6 DEF StepOK, ViewStep, Uncalled, SameCalls
<1> QED
  BY <1>1, <1>3, <1>4, <1>5

\* The return of a callback.
LEMMA StepReturn ==
    ASSUME TypeOK, TypeOK', SocketInv, CallbackReturn
    PROVE  StepOK /\ Uncalled /\ Inflight' = Inflight
<1>1. InflightOK /\ QueuesOK
  BY DEF SocketInv
<1>2. PICK c \in Cycles : c = Top.c
  BY <1>1, CallbackTop
<1>3. PICK y \in Cycles : ViewFreed(y) /\ Inflight' = Inflight
  BY <1>1, ViewReturn
<1>4. CycleView(c) = "calling"
  BY <1>1, <1>2, CallbackTop, ViewPending
<1>5. c \notin Range(Inflight)
  BY <1>4, NotInflight
<1>6. devst' = devst /\ \A x \in Cycles : x # c => cyc'[x] = cyc[x]
  BY <1>2 DEF CallbackReturn, TypeOK, devVars
<1>7. InflightOK'
  BY <1>1, <1>3, <1>5, <1>6, InflightOthers
<1>8. CallsStep /\ Uncalled
  <2>1. stack # <<>> /\ stack' = Returned
    BY DEF CallbackReturn, Running, Returned
  <2>2. Distinct(stack') /\ \A x : Calls(stack', x) <=> Calls(Below, x)
    BY <1>1, <2>1, CallbackTop, ReturnedCalls
  <2>3. ASSUME NEW x, Calls(stack', x) PROVE x \in Cycles /\ cyc'[x].st = "closed"
    <3>1. Calls(Below, x) /\ x # c /\ Calls(stack, x)
      BY <1>1, <1>2, <2>2, <2>3, CallbackTop
    <3> QED
      BY <1>1, <1>6, <3>1, CallsNow
  <2>4. Uncalled
    BY <1>1, <2>2, CallbackTop DEF Uncalled
  <2> QED
    BY <2>2, <2>3, <2>4 DEF CallsStep
<1> QED
  BY <1>3, <1>7, <1>8 DEF StepOK, ViewStep

-----------------------------------------------------------------------------
(* Answers and timeouts *)

\* The head of two lists is that of the first.
LEMMA HeadConcat ==
    ASSUME NEW T, NEW s \in Seq(T), NEW t \in Seq(T), s # <<>>
    PROVE  s \o t # <<>> /\ Head(s \o t) = Head(s) /\ Tail(s \o t) = Tail(s) \o t
  OBVIOUS

\* What expires is the oldest response.
LEMMA ExpireInflight ==
    ASSUME TypeOK, InflightOK, Expire
    PROVE  /\ Head(first) \in Range(Inflight)
           /\ Inflight' = Filter(Inflight, Cycles \ {Head(first)})
<1>1. PICK f \in Seq(Cycles) : f = first
  BY InflightTyped
<1>2. PICK r \in Seq(Cycles) : r = Reverse(last)
  BY InflightTyped
<1>3. PICK inf \in Seq(Cycles) : inf = f \o r
  BY ConcatTyped
<1>4. f # <<>> /\ Inflight = inf /\ Inflight' = Tail(f) \o r
  BY <1>1, <1>2, <1>3 DEF Expire, Inflight
<1>5. inf # <<>> /\ Head(inf) = Head(f) /\ Tail(inf) = Tail(f) \o r
  BY <1>3, <1>4, HeadConcat
<1>6. IsInjective(inf)
  BY <1>4 DEF InflightOK
<1>7. Filter(inf, Cycles \ {Head(inf)}) = Tail(inf) /\ Head(inf) \in Range(inf)
  BY <1>5, <1>6, FilterHead, HeadTail
<1> QED
  BY <1>1, <1>4, <1>5, <1>7

\* An answer is for a response in flight, and takes it out or leaves all as it is.
LEMMA AnswerInflight ==
    ASSUME TypeOK, InflightOK, NEW c \in Cycles, NEW part \in {"value", "status"},
           NEW more \in BOOLEAN, NEW err \in BOOLEAN, Answer(c, part, more, err)
    PROVE  /\ c \in Range(Inflight)
           /\ \/ Inflight' = Inflight /\ stack' = stack
              \/ /\ Inflight' = Filter(Inflight, Cycles \ {c})
                 /\ \E st \in Statuses : stack' = <<Calling(c, st)>> \o stack
<1> DEFINE X == Cycles \ {c}
           found == c \in Range(first)
<1>1. PICK f \in Seq(Cycles) : f = first
  BY InflightTyped
<1>2. PICK l \in Seq(Cycles) : l = last
  BY InflightTyped
<1>3. PICK r \in Seq(Cycles) : r = Reverse(l) /\ Range(r) = Range(l)
  BY ReverseFacts
<1>4. PICK inf \in Seq(Cycles) : inf = f \o r
  BY ConcatTyped
<1>5. Inflight = inf /\ IsInjective(inf) /\ Range(inf) = Range(f) \cup Range(r)
  <2>1. Range(f \o r) = Range(f) \cup Range(r)
    BY RangeConcat
  <2> QED
    BY <1>1, <1>2, <1>3, <1>4, <2>1 DEF Inflight, InflightOK
<1>6. c \in Range(inf)
  BY <1>1, <1>2, <1>3, <1>5 DEF Answer
<1>7. CASE first' = Walked(found)[1] /\ last' = Walked(found)[2] /\ stack' = stack
  <2>1. Inflight' = Inflight
    BY <1>7, WalkedSame
  <2> QED
    BY <1>5, <1>6, <1>7, <2>1
<1>8. ASSUME NEW st \in Statuses, first' = Without(Walked(found)[1], c),
             last' = Walked(found)[2], stack' = <<Calling(c, st)>> \o stack
      PROVE  Inflight' = Filter(Inflight, X)
  <2>1. CASE found
    <3>1. Inflight' = Filter(f, X) \o r
      BY <1>1, <1>2, <1>3, <1>8, <2>1 DEF Inflight, Walked, Without
    <3>2. Range(f) \cap Range(r) = {}
      BY <1>4, <1>5, ConcatDisjoint
    <3>3. Range(r) \subseteq X
      <4>1. c \notin Range(r)
        BY <1>1, <2>1, <3>2
      <4>2. Range(r) \subseteq Cycles
        BY DEF Range
      <4> QED
        BY <4>1, <4>2
    <3>4. Filter(r, X) = r
      BY <3>3, FilterNothing
    <3>5. FilterDistributes(f, r, X)
      BY FilterParts
    <3> QED
      BY <1>4, <1>5, <3>1, <3>4, <3>5 DEF FilterDistributes
  <2>2. CASE ~found
    <3>1. first' = Filter(inf, X) /\ last' = <<>>
      BY <1>1, <1>2, <1>3, <1>4, <1>8, <2>2 DEF Walked, Without
    <3>2. PICK g \in Seq(Cycles) : g = Filter(inf, X)
      BY FilterType
    <3>3. Reverse(<<>>) = <<>> /\ g \o <<>> = g
      BY DEF Reverse
    <3> QED
      BY <1>5, <3>1, <3>2, <3>3 DEF Inflight
  <2> QED
    BY <2>1, <2>2
<1>9. \/ first' = Walked(found)[1] /\ last' = Walked(found)[2] /\ stack' = stack
      \/ /\ first' = Without(Walked(found)[1], c) /\ last' = Walked(found)[2]
         /\ \E st \in Statuses : stack' = <<Calling(c, st)>> \o stack
  BY FrameNames DEF Answer
<1> QED
  BY <1>5, <1>6, <1>7, <1>8, <1>9

\* A cycle in flight is called back.
LEMMA StepAnswered ==
    ASSUME TypeOK, TypeOK', SocketInv, NEW c \in Range(Inflight), NEW st \in Statuses,
           Inflight' = Filter(Inflight, Cycles \ {c}), stack' = <<Calling(c, st)>> \o stack,
           UNCHANGED <<devst, ready>>, CyclesStay,
           \A x \in Cycles : cyc[x].sent => cyc'[x].sent
    PROVE  StepOK
<1>1. DevicesOK /\ InflightOK /\ QueuesOK
  BY DEF SocketInv
<1>2. ViewCalled(c) /\ Distinct(stack')
  BY <1>1, ViewAnswered
<1>3. c \in Cycles /\ CycleView(c) = "pending"
  BY <1>1, InflightWaits
<1>4. InflightOK'
  <2>1. Range(Inflight) \subseteq Cycles
    BY InflightTyped DEF Range
  <2>2. \A x \in Range(Inflight) \cap (Cycles \ {c}) :
           cyc'[x].sent /\ cyc'[x].dev = cyc[x].dev /\ devst'[cyc[x].dev] = "active"
    BY <1>1, <2>1 DEF CyclesStay, InflightOK
  <2> QED
    BY <1>1, <2>2, InflightLess
<1>5. CallsStep
  <2>1. PICK s \in Seq(FrameType) : s = stack
    BY DEF TypeOK
  <2>2. CallPushed(s, <<Calling(c, st)>> \o s, c)
    BY <1>3, CallbackPush
  <2>3. CallPushed(stack, stack', c)
    BY <2>1, <2>2
  <2>4. cyc[c].st = "closed"
    BY <1>3, ViewPending
  <2> QED
    BY <1>1, <1>2, <1>3, <2>3, <2>4, CallsPushed DEF CallPushed
<1> QED
  BY <1>2, <1>3, <1>4, <1>5 DEF StepOK, ViewStep

\* A time-out.
LEMMA StepExpire ==
    ASSUME TypeOK, TypeOK', SocketInv, Expire
    PROVE  StepOK /\ Inflight' = Filter(Inflight, Cycles \ {Head(first)})
<1>1. PICK c \in Range(Inflight) : c = Head(first)
  BY ExpireInflight DEF SocketInv
<1>2. Inflight' = Filter(Inflight, Cycles \ {c})
  BY <1>1, ExpireInflight DEF SocketInv
<1>3. stack' = <<Calling(c, "TIMEOUT")>> \o stack /\ UNCHANGED <<devst, ready, cyc>>
  BY <1>1 DEF Expire, devVars
<1>4. CyclesStay /\ \A x \in Cycles : cyc[x].sent => cyc'[x].sent
  BY <1>3 DEF CyclesStay
<1>5. PICK st \in Statuses : st = "TIMEOUT"
  BY FrameNames
<1>6. StepOK
  BY <1>2, <1>3, <1>4, <1>5, StepAnswered
<1> QED
  BY <1>1, <1>2, <1>6

\* An answer.
LEMMA StepAnswer ==
    ASSUME TypeOK, TypeOK', SocketInv, NEW c \in Cycles, NEW part \in {"value", "status"},
           NEW more \in BOOLEAN, NEW err \in BOOLEAN, Answer(c, part, more, err)
    PROVE  StepOK
<1>1. c \in Range(Inflight)
  BY AnswerInflight DEF SocketInv
<1>2. UNCHANGED <<devst, ready>>
  BY DEF Answer, devVars
<1>3. CyclesStay /\ \A x \in Cycles : cyc[x].sent => cyc'[x].sent
  BY CycleFields, SentKept
<1>4. CASE Inflight' = Inflight /\ stack' = stack
  <2>1. SameCalls(stack, stack')
    BY <1>4 DEF SameCalls
  <2>2. DevicesKept
    BY <1>2 DEF DevicesKept, DeviceView
  <2>3. ViewKept
    BY <1>2, <1>3, <1>4, <2>1, <2>2, KeepView
  <2>4. CallsStep
    BY <1>3, <2>1, CallsKept DEF CyclesStay, SocketInv
  <2>5. Range(Inflight) \subseteq Cycles
    BY InflightTyped DEF Range
  <2>6. \A x \in Range(Inflight) : cyc'[x].sent /\ cyc'[x].dev = cyc[x].dev
    BY <1>3, <2>5 DEF CyclesStay, SocketInv, InflightOK
  <2>7. InflightOK'
    BY <1>2, <1>4, <2>6, InflightKept DEF SocketInv
  <2> QED
    BY <2>3, <2>4, <2>7 DEF StepOK, ViewStep
<1>5. ASSUME NEW st \in Statuses, stack' = <<Calling(c, st)>> \o stack,
             Inflight' = Filter(Inflight, Cycles \ {c})
      PROVE  StepOK
  BY <1>1, <1>2, <1>3, <1>5, StepAnswered
<1> QED
  BY <1>4, <1>5, AnswerInflight DEF SocketInv

-----------------------------------------------------------------------------
(* The loops of a flush and of a close *)

\* The stack when the running flush or close of device d has taken the first
\* cycle off its list.
Served(u, d) ==
    /\ Local(d) = Top.todo
    /\ Held(u, d) = Tail(Top.todo)
    /\ \A x : x # d => Held(u, x) = Held(stack, x)
    /\ \A x : Calls(u, x) <=> Calls(stack, x)
    /\ Distinct(u) <=> Distinct(stack)

\* The flush, or the close, on top takes the first cycle of its list.
LEMMA ServeFrame ==
    ASSUME TypeOK, StackOK, stack # <<>>, NEW d, Holds(Top, d), Top.todo # <<>>
    PROVE  \E u \in Seq(FrameType) :
              u = <<[Top EXCEPT !.todo = Tail(@)]>> \o Below /\ Served(u, d)
<1>1. PICK f \in FrameType : f = Top
  BY TopFacts
<1>2. PICK b \in Seq(FrameType) : b = Below
  BY TopFacts
<1>3. stack = <<f>> \o b
  BY <1>1, <1>2, TopFacts
<1> DEFINE g == [f EXCEPT !.todo = Tail(f.todo)]
<1>4. g \in FrameType /\ g.op = f.op /\ g.d = f.d /\ g.todo = Tail(f.todo)
  <2>1. f.todo \in Seq(Cycles) /\ f.todo # <<>>
    BY <1>1 DEF FrameType, FrameRecord
  <2>2. Tail(f.todo) \in Seq(Cycles)
    BY <2>1
  <2> QED
    BY <2>2 DEF FrameType, FrameRecord
<1>5. g = [Top EXCEPT !.todo = Tail(@)]
  BY <1>1 DEF FrameType, FrameRecord
<1> HIDE DEF g
<1>6. PICK u \in Seq(FrameType) : u = <<g>> \o b
  BY <1>4, ConsFacts
<1>7. f.op \in {"flush", "close"} /\ f.d = d
  BY <1>1 DEF Holds
<1>8. Local(d) = f.todo /\ \A h \in Range(b) : ~Holds(h, d)
  BY <1>1, <1>2, TopHolds
<1>9. Held(u, d) = Tail(f.todo)
  BY <1>4, <1>6, <1>7, <1>8, HeldTop DEF Holds
<1>10. ASSUME NEW x, x # d PROVE Held(u, x) = Held(stack, x)
  <2>1. ~Holds(f, x) /\ ~Holds(g, x)
    BY <1>4, <1>7, <1>10 DEF Holds
  <2> QED
    BY <1>3, <1>4, <1>6, <2>1, HeldCons
<1>11. ASSUME NEW x PROVE Calls(u, x) <=> Calls(stack, x)
  BY <1>3, <1>4, <1>6, <1>7, CallsCons
<1>12. Distinct(u) <=> Distinct(stack)
  BY <1>3, <1>4, <1>6, <1>7, DistinctCons
<1>13. Served(u, d)
  BY <1>1, <1>8, <1>9, <1>10, <1>11, <1>12 DEF Served
<1> QED
  BY <1>2, <1>5, <1>6, <1>13

\* The cycle it takes waits on that device, first if the device is closing.
LEMMA ServedCycle ==
    ASSUME TypeOK, SocketInv, stack # <<>>, NEW d \in Devices, Local(d) # <<>>
    PROVE  /\ Head(Local(d)) \in Cycles /\ CycleView(Head(Local(d))) = "pending"
           /\ cyc[Head(Local(d))].dev = d
           /\ devst[d] = "closing" => Pending(d)[1] = Head(Local(d))
<1>1. PICK loc \in Seq(Cycles) : loc = Local(d) /\ loc # <<>>
  BY PendingTyped
<1>2. PICK c \in Cycles : c = Head(loc) /\ c \in Range(loc)
  <2>1. Head(loc) \in Cycles
    BY <1>1, HeadTail
  <2>2. Range(loc) = {Head(loc)} \cup Range(Tail(loc))
    BY <1>1, HeadTail
  <2> QED
    BY <2>1, <2>2
<1>3. c \in Range(Pending(d))
  BY <1>1, <1>2, PendingTyped
<1>4. QueueView
  BY QueuesView DEF SocketInv
<1>5. CycleView(c) = "pending" /\ cyc[c].dev = d
  BY <1>3, <1>4 DEF QueueView
<1>6. ASSUME devst[d] = "closing" PROVE Pending(d)[1] = c
  <2>1. PICK inf \in Seq(Cycles) : inf = Inflight
    BY InflightTyped
  <2>2. Range(inf) \cap SentBy(cyc, d) = {}
    BY <1>6, <2>1 DEF SocketInv, InflightOK, SentBy
  <2>3. Filter(inf, SentBy(cyc, d)) = <<>>
    BY <2>2, FilterAll
  <2>4. PICK r \in Seq(Cycles) : r = Reverse(ready[d])
    BY ReverseFacts, PendingTyped
  <2>5. Pending(d) = (<<>> \o loc) \o r
    BY <1>1, <2>1, <2>3, <2>4, PendingQueue DEF Queue
  <2>6. <<>> \o loc = loc
    BY ConcatEmpty
  <2>7. (loc \o r)[1] = Head(loc)
    BY <1>1
  <2> QED
    BY <1>2, <2>5, <2>6, <2>7
<1> QED
  BY <1>1, <1>2, <1>5, <1>6

\* The running flush or close calls a cycle back.
LEMMA StepServed ==
    ASSUME TypeOK, TypeOK', SocketInv, stack # <<>>, NEW d \in Devices, Holds(Top, d),
           Top.todo # <<>>, NEW c, c = Head(Top.todo), NEW st \in Statuses,
           stack' = <<Calling(c, st)>> \o (<<[Top EXCEPT !.todo = Tail(@)]>> \o Below),
           UNCHANGED <<devst, ready, first, last>>, CyclesStay,
           \A x \in Cycles : cyc[x].sent => cyc'[x].sent
    PROVE  StepOK /\ Inflight' = Inflight
<1>1. StackOK /\ InflightOK /\ QueuesOK /\ QueueView
  BY QueuesView DEF SocketInv
<1>2. PICK u \in Seq(FrameType) :
         u = <<[Top EXCEPT !.todo = Tail(@)]>> \o Below /\ Served(u, d)
  BY <1>1, ServeFrame
<1>3. PICK loc \in Seq(Cycles) : loc = Local(d) /\ loc = Top.todo /\ loc # <<>>
  BY <1>2, PendingTyped DEF Served
<1>4. /\ c \in Cycles /\ CycleView(c) = "pending" /\ cyc[c].dev = d
      /\ devst[d] = "closing" => Pending(d)[1] = c
  <2>1. Local(d) # <<>> /\ c = Head(Local(d))
    BY <1>3
  <2>2. /\ Head(Local(d)) \in Cycles /\ CycleView(Head(Local(d))) = "pending"
        /\ cyc[Head(Local(d))].dev = d
        /\ devst[d] = "closing" => Pending(d)[1] = Head(Local(d))
    BY <2>1, ServedCycle
  <2> QED
    BY <2>1, <2>2
<1>5. CallPushed(u, stack', c)
  <2>1. CallPushed(u, <<Calling(c, st)>> \o u, c)
    BY <1>4, CallbackPush
  <2> QED
    BY <1>2, <2>1
<1>6. Inflight' = Inflight
  BY DEF Inflight
<1>7. ~Calls(stack, c) /\ cyc[c].st = "closed" /\ Distinct(stack)
  BY <1>1, <1>4, ViewPending, CalledCalls, CallsNow
<1>8. Distinct(stack') /\ \A x : Calls(stack', x) <=> Calls(stack, x) \/ x = c
  BY <1>2, <1>5, <1>7 DEF CallPushed, Served
<1>9. CallsStep
  BY <1>1, <1>4, <1>7, <1>8, CallsPushed
<1>10. InflightOK'
  <2>1. Range(Inflight) \subseteq Cycles
    BY InflightTyped DEF Range
  <2>2. \A x \in Range(Inflight) : cyc'[x].sent /\ cyc'[x].dev = cyc[x].dev
    BY <1>1, <2>1 DEF CyclesStay, InflightOK
  <2> QED
    BY <1>1, <1>6, <2>2, InflightKept
<1>11. ASSUME NEW x \in Devices PROVE Pending(x)' = Filter(Pending(x), Cycles \ {c})
  <2>1. PICK inf \in Seq(Cycles) : inf = Inflight
    BY InflightTyped
  <2>2. PICK rdy \in Seq(Cycles) : rdy = ready[x]
    BY PendingTyped
  <2>3. \A y \in Range(inf) : cyc'[y].dev = cyc[y].dev
    <3>1. Range(inf) \subseteq Cycles
      BY DEF Range
    <3> QED
      BY <3>1 DEF CyclesStay
  <2>4. PICK l2 : l2 = Local(x)'
    OBVIOUS
  <2>5. Pending(x)' = Queue(inf, cyc', l2, rdy, x)
    BY <1>6, <2>1, <2>2, <2>4, PendingQueue
  <2>6. Pending(x)' = Queue(inf, cyc, l2, rdy, x)
    BY <2>3, <2>5, QueueSame
  <2>7. CASE x = d
    <3>1. l2 = Tail(loc)
      BY <1>2, <1>3, <1>5, <2>4, <2>7, LocalHeld DEF Served, CallPushed
    <3>2. Pending(x) = Queue(inf, cyc, loc, rdy, x)
      BY <1>3, <2>1, <2>2, <2>7, PendingQueue
    <3>3. IsInjective(Queue(inf, cyc, loc, rdy, x))
      BY <1>1, <3>2 DEF QueueView
    <3>4. Queue(inf, cyc, Tail(loc), rdy, x)
             = Filter(Queue(inf, cyc, loc, rdy, x), Cycles \ {Head(loc)})
      BY <1>3, <3>3, QueueServed
    <3> QED
      BY <1>3, <2>6, <3>1, <3>2, <3>4
  <2>8. CASE x # d
    <3>1. l2 = Local(x)
      BY <1>2, <1>5, <2>4, <2>8, LocalHeld, ZenonT(60) DEF Served, CallPushed
    <3>2. Pending(x)' = Pending(x)
      BY <2>1, <2>2, <2>6, <3>1, PendingQueue
    <3>3. Filter(Pending(x), Cycles \ {c}) = Pending(x)
      BY <1>1, <1>4, <2>8, QueueElsewhere
    <3> QED
      BY <3>2, <3>3
  <2> QED
    BY <2>7, <2>8
<1>12. CyclesKept({c}) /\ CycleView(c)' = "calling" /\ cyc'[c].dev = cyc[c].dev
  BY <1>4, <1>8, CalledView
<1>13. DevicesKept /\ (DeviceView(d) = "closing" => Pending(d)[1] = c)
  <2>1. DevicesKept
    BY DEF DevicesKept, DeviceView
  <2>2. DeviceView(d) = "closing" => devst[d] = "closing"
    BY DEF DeviceView
  <2> QED
    BY <1>4, <2>1, <2>2
<1>14. ViewCalled(c)
  BY <1>4, <1>11, <1>12, <1>13 DEF ViewCalled
<1> QED
  BY <1>4, <1>6, <1>9, <1>10, <1>14 DEF StepOK, ViewStep

\* eb_device_close calls back the oldest cycle that waits.
LEMMA StepCloseCycle ==
    ASSUME TypeOK, TypeOK', SocketInv, CloseCycle PROVE StepOK /\ Inflight' = Inflight
<1>1. PICK f \in FrameType : f = Top
  BY TopFacts DEF CloseCycle, Running
<1>2. /\ stack # <<>> /\ f.op = "close" /\ f.todo # <<>>
      /\ UNCHANGED <<devst, ready, first, last, cyc>>
  BY <1>1 DEF CloseCycle, Running, Top, devVars
<1>3. PICK d \in Devices : d = f.d
  BY <1>2 DEF FrameType
<1>4. PICK c : c = Head(Top.todo)
  OBVIOUS
<1>5. stack' = <<Calling(c, "TIMEOUT")>> \o (<<[Top EXCEPT !.todo = Tail(@)]>> \o Below)
  <2>1. PICK u \in Seq(FrameType) :
           u = <<[Top EXCEPT !.todo = Tail(@)]>> \o Below /\ Served(u, d)
    BY <1>1, <1>2, <1>3, ServeFrame DEF SocketInv, Holds
  <2> DEFINE g == [Top EXCEPT !.todo = Tail(@)]
             k == Calling(c, "TIMEOUT")
  <2>2. stack' = <<k, g>> \o Below
    BY <1>4 DEF CloseCycle
  <2>3. PICK b \in Seq(FrameType) : b = Below
    BY <1>2, TopFacts
  <2>4. u = <<g>> \o b
    BY <2>1, <2>3
  <2> HIDE DEF g, k
  <2>5. <<k, g>> \o b = <<k>> \o (<<g>> \o b)
    OBVIOUS
  <2>6. stack' = <<k>> \o u
    BY <2>2, <2>3, <2>4, <2>5
  <2> QED
    BY <2>1, <2>6 DEF k
<1>6. CyclesStay /\ \A x \in Cycles : cyc[x].sent => cyc'[x].sent
  BY <1>2 DEF CyclesStay
<1>7. PICK st \in Statuses : st = "TIMEOUT"
  BY FrameNames
<1>8. Holds(Top, d) /\ Top.todo # <<>>
  BY <1>1, <1>2, <1>3 DEF Holds
<1> QED
  BY <1>2, <1>4, <1>5, <1>6, <1>7, <1>8, StepServed

\* A cycle in the local list of a call is not in flight.
LEMMA HeldNotInflight ==
    ASSUME TypeOK, SocketInv, NEW d \in Devices, NEW c \in Range(Local(d)), cyc[c].dev = d
    PROVE  c \notin Range(Inflight)
<1>1. PICK inf \in Seq(Cycles) : inf = Inflight
  BY InflightTyped
<1>2. PICK loc \in Seq(Cycles) : loc = Local(d)
  BY PendingTyped
<1>3. PICK a \in Seq(Cycles) : a = Filter(inf, SentBy(cyc, d))
  BY FilterType
<1>4. PICK r \in Seq(Cycles) : r = Reverse(ready[d])
  BY ReverseFacts, PendingTyped
<1>5. PICK b \in Seq(Cycles) : b = a \o loc
  BY ConcatTyped
<1>6. IsInjective(b \o r)
  <2>1. QueueView
    BY QueuesView DEF SocketInv
  <2>2. Pending(d) = b \o r
    BY <1>1, <1>2, <1>3, <1>4, <1>5, PendingQueue DEF Queue
  <2> QED
    BY <2>1, <2>2 DEF QueueView
<1>7. IsInjective(b)
  BY <1>6, ConcatInjective
<1>8. Range(a) \cap Range(loc) = {}
  BY <1>5, <1>7, ConcatDisjoint
<1>9. Range(a) = Range(inf) \cap SentBy(cyc, d)
  BY <1>3, FilterRange
<1>10. c \in Cycles
  BY <1>2 DEF Range
<1> QED
  BY <1>1, <1>2, <1>8, <1>9, <1>10 DEF SentBy

\* The running flush sends a cycle that must be answered.
LEMMA StepSent ==
    ASSUME TypeOK, TypeOK', SocketInv, stack # <<>>, NEW d \in Devices, Holds(Top, d),
           Top.op = "flush", Top.todo # <<>>, NEW c, c = Head(Top.todo),
           stack' = <<[Top EXCEPT !.todo = Tail(@)]>> \o Below,
           UNCHANGED <<devst, ready, first>>, last' = <<c>> \o last, CyclesStay,
           \A x \in Cycles : cyc[x].sent => cyc'[x].sent, cyc'[c].sent
    PROVE  StepOK /\ c \in Cycles /\ Inflight' = Append(Inflight, c)
<1>1. StackOK /\ InflightOK /\ QueuesOK /\ QueueView
  BY QueuesView DEF SocketInv
<1>2. PICK u \in Seq(FrameType) :
         u = <<[Top EXCEPT !.todo = Tail(@)]>> \o Below /\ Served(u, d)
  BY <1>1, ServeFrame
<1>3. PICK loc \in Seq(Cycles) : loc = Local(d) /\ loc = Top.todo /\ loc # <<>>
  BY <1>2, PendingTyped DEF Served
<1>4. c \in Cycles /\ CycleView(c) = "pending" /\ cyc[c].dev = d
  <2>1. Local(d) # <<>> /\ c = Head(Local(d))
    BY <1>3
  <2>2. /\ Head(Local(d)) \in Cycles /\ CycleView(Head(Local(d))) = "pending"
        /\ cyc[Head(Local(d))].dev = d
    BY <2>1, ServedCycle
  <2> QED
    BY <2>1, <2>2
<1>5. stack' = u
  BY <1>2
<1>6. PICK inf \in Seq(Cycles) : inf = Inflight
  BY InflightTyped
<1>7. Inflight' = Append(inf, c)
  <2>1. PICK f \in Seq(Cycles) : f = first
    BY InflightTyped
  <2>2. PICK l \in Seq(Cycles) : l = last
    BY InflightTyped
  <2>3. PICK r \in Seq(Cycles) : r = Reverse(l)
    BY ReverseFacts
  <2>4. Reverse(<<c>> \o l) = Append(r, c)
    BY <1>4, <2>3, ReverseCons
  <2>5. AppendsBehind(f, r, c)
    BY <1>4, AppendConcat
  <2>6. Inflight' = f \o Append(r, c) /\ inf = f \o r
    BY <1>6, <2>1, <2>2, <2>3, <2>4 DEF Inflight
  <2> QED
    BY <2>5, <2>6 DEF AppendsBehind
<1>8. Range(inf) \subseteq Cycles /\ Range(Append(inf, c)) = Range(inf) \cup {c}
  <2>1. Range(inf) \subseteq Cycles
    BY DEF Range
  <2> QED
    BY <1>4, <2>1, RangeAppend
<1>9. InflightOK'
  <2>1. c \in Range(Local(d))
    <3>1. Range(loc) = {Head(loc)} \cup Range(Tail(loc))
      BY <1>3, HeadTail
    <3> QED
      BY <1>3, <3>1
  <2>2. c \notin Range(inf)
    BY <1>4, <1>6, <2>1, HeldNotInflight
  <2>3. IsInjective(Append(inf, c))
    BY <1>1, <1>4, <1>6, <2>2, InjectiveAppend DEF InflightOK
  <2>4. devst[d] = "active"
    <3>1. FrameOK(Top)
      BY <1>1, TopSound
    <3> QED
      BY <3>1 DEF FrameOK, Holds
  <2>5. ASSUME NEW x \in Range(inf) \cup {c}
        PROVE  cyc'[x].sent /\ cyc'[x].dev \in Devices /\ devst'[cyc'[x].dev] = "active"
    <3>1. CASE x = c
      BY <1>4, <2>4, <3>1 DEF CyclesStay
    <3>2. CASE x \in Range(inf)
      BY <1>1, <1>6, <1>8, <3>2 DEF CyclesStay, InflightOK
    <3> QED
      BY <3>1, <3>2
  <2> QED
    BY <1>7, <1>8, <2>3, <2>5 DEF InflightOK
<1>10. ASSUME NEW x \in Devices PROVE Pending(x)' = Pending(x)
  <2>1. PICK rdy \in Seq(Cycles) : rdy = ready[x]
    BY PendingTyped
  <2>2. PICK inf2 \in Seq(Cycles) : inf2 = Append(inf, c)
    <3>1. Append(inf, c) \in Seq(Cycles)
      BY <1>4
    <3> QED
      BY <3>1
  <2>3. \A y \in Range(inf2) : cyc'[y].dev = cyc[y].dev
    BY <1>4, <1>8, <2>2 DEF CyclesStay
  <2>4. PICK l2 : l2 = Local(x)'
    OBVIOUS
  <2>5. Pending(x)' = Queue(inf2, cyc', l2, rdy, x)
    BY <1>7, <2>1, <2>2, <2>4, PendingQueue
  <2>6. Pending(x)' = Queue(inf2, cyc, l2, rdy, x)
    BY <2>3, <2>5, QueueSame
  <2>7. CASE x = d
    <3>1. l2 = Tail(loc)
      BY <1>2, <1>3, <1>5, <2>4, <2>7, LocalHeld DEF Served
    <3>2. Pending(x) = Queue(inf, cyc, loc, rdy, x)
      BY <1>3, <1>6, <2>1, <2>7, PendingQueue
    <3>3. cyc[Head(loc)].dev = x
      BY <1>3, <1>4, <2>7
    <3>4. QueueMoves(inf, cyc, loc, rdy, x)
      BY <1>3, <3>3, QueueSent
    <3> QED
      BY <1>3, <2>2, <2>6, <3>1, <3>2, <3>4 DEF QueueMoves
  <2>8. CASE x # d
    <3>1. l2 = Local(x)
      BY <1>2, <1>5, <2>4, <2>8, LocalHeld DEF Served
    <3>2. Queue(Append(inf, c), cyc, l2, rdy, x) = Queue(inf, cyc, l2, rdy, x)
      BY <1>4, <2>8, QueueSentElsewhere
    <3> QED
      BY <1>6, <2>1, <2>2, <2>6, <3>1, <3>2, PendingQueue
  <2> QED
    BY <2>7, <2>8
<1>11. \A x : Calls(stack', x) <=> Calls(stack, x)
  BY <1>2, <1>5 DEF Served
<1>12. CyclesKept({})
  BY <1>11, KeepCycles
<1>13. DevicesKept
  BY DEF DevicesKept, DeviceView
<1>14. CallsStep
  BY <1>1, <1>2, <1>5, <1>11, CallsNow DEF CallsStep, CyclesStay, Served
<1> QED
  BY <1>4, <1>6, <1>7, <1>9, <1>10, <1>12, <1>13, <1>14
     DEF StepOK, ViewStep, ViewKept, QueuesKept

\* The flush or close that runs has a device and a list of cycles.
LEMMA FlushTop ==
    ASSUME TypeOK, Running("flush", "") \/ Running("close", "")
    PROVE  /\ stack # <<>> /\ Top.d \in Devices /\ Holds(Top, Top.d)
           /\ Top.todo \in Seq(Cycles)
<1>1. stack # <<>> /\ Top.op \in {"flush", "close"}
  BY DEF Running, Top
<1>2. PICK f \in FrameType : f = Top
  BY <1>1, TopFacts
<1>3. f.d \in Devices /\ f.todo \in Seq(Cycles)
  BY <1>1, <1>2 DEF FrameType, FrameRecord
<1> QED
  BY <1>1, <1>2, <1>3 DEF Holds

\* The flush sends a cycle or calls it back.
LEMMA StepFlushCycle ==
    ASSUME TypeOK, TypeOK', SocketInv, FlushCycle
    PROVE  StepOK /\ (Inflight' = Inflight \/ \E c \in Cycles : Inflight' = Append(Inflight, c))
<1>1. PICK d \in Devices : d = Top.d /\ Holds(Top, d) /\ stack # <<>>
  BY FlushTop DEF FlushCycle
<1>2. Top.todo # <<>> /\ Top.op = "flush" /\ UNCHANGED <<devst, ready, first>>
  BY DEF FlushCycle, Running, Top, devVars
<1>3. PICK c : c = Head(Top.todo)
  OBVIOUS
<1> DEFINE rest == <<[Top EXCEPT !.todo = Tail(@)]>> \o Below
<1>4. CyclesStay /\ \A x \in Cycles : cyc[x].sent => cyc'[x].sent
  BY CycleFields, SentKept
<1>5. \/ \E st \in Statuses : stack' = <<Calling(c, st)>> \o rest /\ last' = last
      \/ /\ stack' = rest /\ last' = <<c>> \o last
         /\ \E want : cyc' = [cyc EXCEPT ![c].sent = TRUE, ![c].want = want]
  <2>1. PICK st \in Outcomes(c) :
           \/ /\ st # "sent"
              /\ stack' = <<Calling(c, st)>> \o rest /\ last' = last
           \/ /\ st = "sent" /\ ~NeedsAnswer(c)
              /\ stack' = <<Calling(c, "OK")>> \o rest /\ last' = last
           \/ /\ st = "sent" /\ NeedsAnswer(c)
              /\ stack' = rest /\ last' = <<c>> \o last
              /\ \E want : cyc' = [cyc EXCEPT ![c].sent = TRUE, ![c].want = want]
    BY <1>3 DEF FlushCycle
  <2>2. st # "sent" => st \in Statuses
    BY OutcomesTyped
  <2>3. "OK" \in Statuses
    BY FrameNames
  <2> QED
    BY <2>1, <2>2, <2>3
<1>6. ASSUME NEW st \in Statuses, stack' = <<Calling(c, st)>> \o rest, last' = last
      PROVE  StepOK /\ Inflight' = Inflight
  BY <1>1, <1>2, <1>3, <1>4, <1>6, StepServed
<1>7. ASSUME stack' = rest, last' = <<c>> \o last,
             \E want : cyc' = [cyc EXCEPT ![c].sent = TRUE, ![c].want = want]
      PROVE  StepOK /\ \E y \in Cycles : Inflight' = Append(Inflight, y)
  <2>1. c \in Cycles
    <3>1. Top.todo \in Seq(Cycles)
      BY FlushTop DEF FlushCycle
    <3> QED
      BY <1>2, <1>3, <3>1
  <2>2. cyc'[c].sent
    BY <1>7, <2>1 DEF TypeOK, CycleType
  <2>3. StepOK /\ c \in Cycles /\ Inflight' = Append(Inflight, c)
    BY <1>1, <1>2, <1>3, <1>4, <1>7, <2>2, StepSent
  <2> QED
    BY <2>3
<1> QED
  BY <1>5, <1>6, <1>7

\* A flush or a close with an empty list returns.
LEMMA EndCalls ==
    ASSUME TypeOK, StackOK, stack # <<>>, NEW d, Holds(Top, d), Top.todo = <<>>
    PROVE  SameCalls(stack, Below) /\ Local(d) = <<>>
<1>1. PICK f \in FrameType : f = Top
  BY TopFacts
<1>2. PICK b \in Seq(FrameType) : b = Below
  BY TopFacts
<1>3. stack = <<f>> \o b
  BY <1>1, <1>2, TopFacts
<1>4. f.op \in {"flush", "close"} /\ f.d = d
  BY <1>1 DEF Holds
<1>5. Local(d) = <<>> /\ \A g \in Range(b) : ~Holds(g, d)
  BY <1>1, <1>2, TopHolds
<1>6. ASSUME NEW x PROVE Held(b, x) = Held(stack, x)
  <2>1. CASE x = d
    BY <1>5, <2>1, HeldNone, LocalHeld
  <2>2. CASE x # d
    <3>1. ~Holds(f, x)
      BY <1>4, <2>2 DEF Holds
    <3> QED
      BY <1>3, <3>1, HeldCons
  <2> QED
    BY <2>1, <2>2
<1>7. ASSUME NEW x PROVE Calls(b, x) <=> Calls(stack, x)
  BY <1>3, <1>4, CallsCons
<1>8. Distinct(b) <=> Distinct(stack)
  BY <1>3, <1>4, DistinctCons
<1> QED
  BY <1>2, <1>5, <1>6, <1>7, <1>8 DEF SameCalls

\* Steps that keep the responses, the cycles and the calls.
LEMMA StepKept ==
    ASSUME TypeOK, SocketInv, QueuesKept, DevicesKept, CyclesKept({}),
           UNCHANGED <<cyc, first, last>>, CallsStep,
           \A d \in Devices : devst[d] = "active" => devst'[d] = "active"
    PROVE  StepOK /\ Inflight' = Inflight
<1>1. Inflight' = Inflight
  BY DEF Inflight
<1>2. InflightOK'
  BY <1>1, InflightKept DEF SocketInv, InflightOK
<1> QED
  BY <1>1, <1>2 DEF StepOK, ViewStep, ViewKept

\* The flush clears a queue that is empty.
LEMMA StepFlushEnd ==
    ASSUME TypeOK, SocketInv, FlushEnd PROVE StepOK /\ Uncalled /\ Inflight' = Inflight
<1>1. PICK d \in Devices : d = Top.d /\ Holds(Top, d) /\ stack # <<>>
  BY FlushTop DEF FlushEnd
<1>2. /\ Top.todo = <<>> /\ Top.op = "flush" /\ stack' = Below
      /\ UNCHANGED <<devst, cyc, first, last>> /\ ready' = [ready EXCEPT ![Top.d] = <<>>]
  BY DEF FlushEnd, Running, Top, devVars
<1>3. ready' = ready
  <2>1. FrameOK(Top)
    BY <1>1, TopSound DEF SocketInv
  <2>2. ready[d] = <<>>
    BY <1>1, <1>2, <2>1 DEF FrameOK
  <2> QED
    BY <1>1, <1>2, <2>2 DEF TypeOK
<1>4. SameCalls(stack, stack')
  BY <1>1, <1>2, EndCalls DEF SocketInv
<1>5. CyclesStay /\ DevicesKept /\ Inflight' = Inflight
  BY <1>2 DEF CyclesStay, DevicesKept, DeviceView, Inflight
<1>6. ViewKept
  BY <1>3, <1>4, <1>5, KeepView
<1>7. CallsStep
  BY <1>2, <1>4, CallsKept DEF SocketInv
<1> QED
  BY <1>2, <1>4, <1>6, <1>7, StepKept DEF ViewKept, Uncalled, SameCalls

\* The flush takes the queue over.
LEMMA StepFlushBegin ==
    ASSUME TypeOK, SocketInv, FlushBegin PROVE StepOK /\ Uncalled /\ Inflight' = Inflight
<1>1. stack # <<>> /\ Top.op = "check" /\ Top.pc = "device"
  BY DEF FlushBegin, Running, Top
<1>2. PICK t \in FrameType : t = Top
  BY <1>1, TopFacts
<1>3. PICK d \in Devices : d = t.d
  BY <1>1, <1>2 DEF FrameType
<1>4. PICK b \in Seq(FrameType) : b = Below
  BY <1>1, TopFacts
<1>5. PICK rd \in Seq(Cycles) : rd = ready[d]
  BY DEF TypeOK
<1>6. PICK todo \in Seq(Cycles) : todo = Reverse(rd)
  BY ReverseFacts
<1>7. PICK f \in FrameType :
         /\ f = [Frame("flush", "") EXCEPT !.d = d, !.todo = todo]
         /\ f.op = "flush" /\ f.d = d /\ f.nxt = NoDev /\ f.todo = todo
  BY FlushFrameTyped
<1>8. PICK n \in FrameType : n = [t EXCEPT !.pc = "next"] /\ n.op = "check"
  <2>1. LET n == [t EXCEPT !.pc = "next"] IN n \in FrameType /\ n.op = "check"
    BY <1>1, <1>2, <1>3 DEF FrameType, FrameRecord
  <2> QED
    BY <2>1
<1>9. stack' = <<f, n>> \o b
  BY <1>2, <1>3, <1>4, <1>5, <1>6, <1>7, <1>8 DEF FlushBegin
<1>10. PICK u \in Seq(FrameType) : u = <<n>> \o b
  BY ConsFacts
<1>11. stack' = <<f>> \o u
  BY <1>9, <1>10, Cons2Facts
<1>12. /\ UNCHANGED <<devst, cyc, first, last>>
       /\ ready' = [ready EXCEPT ![d] = <<>>]
  BY <1>2, <1>3 DEF FlushBegin, devVars
<1>13. stack = <<t>> \o b
  BY <1>1, <1>2, <1>4, TopFacts
<1>14. Quiet(b)
  BY <1>1, <1>4, TopSound DEF SocketInv
<1>15. Silent(t) /\ Silent(n)
  BY <1>1, <1>2, <1>8 DEF Silent
<1>16. SameCalls(b, stack) /\ SameCalls(b, u)
  BY <1>10, <1>13, <1>15, SilentCons
<1>17. \A x : Held(b, x) = <<>>
  BY <1>14, HeldNone DEF Quiet, Holds
<1>18. \A x : Held(stack, x) = <<>> /\ Held(u, x) = <<>>
  BY <1>16, <1>17 DEF SameCalls
<1>19. \A g \in Range(u) : ~Holds(g, d)
  <2>1. Range(u) = {n} \cup Range(b)
    BY <1>10, ConsFacts
  <2> QED
    BY <1>8, <1>14, <2>1 DEF Quiet, Holds
<1>20. Held(stack', d) = todo
  BY <1>7, <1>11, <1>19, HeldTop DEF Holds
<1>21. ASSUME NEW x, x # d PROVE Held(stack', x) = <<>>
  <2>1. ~Holds(f, x)
    BY <1>7, <1>21 DEF Holds
  <2> QED
    BY <1>11, <1>18, <2>1, HeldCons
<1>22. PICK inf \in Seq(Cycles) : inf = Inflight /\ inf = Inflight'
  BY <1>12, InflightTyped DEF Inflight
<1>23. ASSUME NEW x \in Devices PROVE Pending(x)' = Pending(x)
  <2>1. CASE x = d
    <3>1. Pending(x)' = Queue(inf, cyc, todo, <<>>, x)
      BY <1>12, <1>20, <1>22, <2>1, PendingQueue, LocalHeld DEF TypeOK
    <3>2. Pending(x) = Queue(inf, cyc, <<>>, rd, x)
      BY <1>5, <1>18, <1>22, <2>1, PendingQueue, LocalHeld
    <3> QED
      BY <1>6, <3>1, <3>2, QueueTaken
  <2>2. CASE x # d
    <3>1. Local(x)' = Local(x) /\ ready'[x] = ready[x]
      BY <1>12, <1>18, <1>21, <2>2, LocalHeld DEF TypeOK
    <3> QED
      BY <1>12, <1>22, <3>1, PendingQueue
  <2> QED
    BY <2>1, <2>2
<1>24. \A x : Calls(stack', x) <=> Calls(stack, x)
  BY <1>7, <1>11, <1>16, CallsCons DEF SameCalls
<1>25. Distinct(stack') <=> Distinct(stack)
  BY <1>7, <1>11, <1>16, DistinctCons DEF SameCalls
<1>26. CallsStep
  BY <1>12, <1>24, <1>25, CallsNow DEF SocketInv, CallsStep
<1>27. CyclesKept({})
  BY <1>12, <1>24, KeepCycles DEF CyclesStay
<1>28. QueuesKept /\ DevicesKept
  BY <1>12, <1>23 DEF QueuesKept, DevicesKept, DeviceView
<1> QED
  BY <1>12, <1>24, <1>26, <1>27, <1>28, StepKept DEF Uncalled

-----------------------------------------------------------------------------
(* Devices *)

\* eb_device_open.
LEMMA StepDeviceOpen ==
    ASSUME TypeOK, SocketInv, NEW d \in Devices, DeviceOpen(d)
    PROVE  StepOK /\ Uncalled /\ Inflight' = Inflight
<1>1. SameCalls(stack, stack')
  BY LoopCalls DEF LoopStep
<1>2. /\ UNCHANGED <<ready, cyc, first, last>> /\ devst[d] = "free"
      /\ devst' = [devst EXCEPT ![d] = "opening"]
  BY DEF DeviceOpen
<1>3. Inflight' = Inflight /\ CyclesStay
  BY <1>2 DEF Inflight, CyclesStay
<1>4. QueuesKept
  BY <1>1, <1>2, <1>3, KeepQueues DEF SameCalls
<1>5. CyclesKept({})
  BY <1>1, <1>3, KeepCycles DEF SameCalls
<1>6. /\ \A x \in Devices \ {d} : DeviceView(x)' = DeviceView(x)
      /\ DeviceView(d) = "free" /\ DeviceView(d)' = "live"
  BY <1>2 DEF DeviceView, TypeOK
<1>7. ViewDevice(d, "free", "live")
  BY <1>4, <1>5, <1>6 DEF ViewDevice
<1>8. \A x \in Devices : devst[x] = "active" => devst'[x] = "active"
  BY <1>2 DEF TypeOK
<1>9. InflightOK'
  BY <1>2, <1>3, <1>8, InflightKept DEF SocketInv, InflightOK
<1>10. CallsStep
  BY <1>1, <1>2, CallsKept DEF SocketInv
<1> QED
  BY <1>1, <1>3, <1>7, <1>9, <1>10 DEF StepOK, ViewStep, Uncalled, SameCalls

\* eb_device_open returns a device.
LEMMA StepOpenOk ==
    ASSUME TypeOK, SocketInv, OpenOk PROVE StepOK /\ Uncalled /\ Inflight' = Inflight
<1>1. SameCalls(stack, stack')
  BY LoopCalls DEF LoopStep
<1>2. stack # <<>> /\ Top.op = "open"
  BY DEF OpenOk, Running, Top
<1>3. PICK d \in Devices : d = Top.d
  BY <1>2, TopFacts DEF FrameType
<1>4. devst[d] = "opening"
  BY <1>2, <1>3, TopSound DEF SocketInv, FrameOK
<1>5. UNCHANGED <<ready, cyc, first, last>> /\ devst' = [devst EXCEPT ![d] = "active"]
  BY <1>3 DEF OpenOk
<1>6. DevicesKept
  BY <1>4, <1>5 DEF DevicesKept, DeviceView, TypeOK
<1>7. ViewKept
  BY <1>1, <1>5, <1>6, KeepView DEF CyclesStay, Inflight
<1>8. CallsStep
  BY <1>1, <1>5, CallsKept DEF SocketInv
<1>9. \A x \in Devices : devst[x] = "active" => devst'[x] = "active"
  BY <1>5 DEF TypeOK
<1> QED
  BY <1>1, <1>5, <1>7, <1>8, <1>9, StepKept DEF ViewKept, Uncalled, SameCalls

\* eb_device_close takes over what waits on the device.
LEMMA StepClosing ==
    ASSUME TypeOK, SocketInv, Countable, NEW d \in Devices, NEW s \in Seq(FrameType),
           Close(d, s), cyc' = cyc, devst[d] \in {"opening", "active"},
           \A g \in Range(s) : ~Holds(g, d), SameCalls(stack, s)
    PROVE  StepOK /\ Uncalled /\ \E X : Inflight' = Filter(Inflight, X)
<1> DEFINE X == Cycles \ SentBy(cyc, d)
<1>0. \A todo \in Seq(Cycles) : \E f \in FrameType :
         /\ f = [Frame("close", "") EXCEPT !.d = d, !.todo = todo]
         /\ f.op = "close" /\ f.d = d /\ f.nxt = NoDev /\ f.todo = todo
  BY CloseFrameTyped
<1>1. PICK inf \in Seq(Cycles) : inf = Inflight
  BY InflightTyped
<1>2. PICK rd \in Seq(Cycles) : rd = ready[d]
  BY DEF TypeOK
<1>3. PICK a \in Seq(Cycles) : a = Filter(inf, SentBy(cyc, d))
  BY FilterType
<1>4. PICK r \in Seq(Cycles) : r = Reverse(rd)
  BY ReverseFacts
<1>5. PICK todo \in Seq(Cycles) : todo = a \o r
  BY ConcatTyped
<1>6. PICK f \in FrameType :
         /\ f = [Frame("close", "") EXCEPT !.d = d, !.todo = todo]
         /\ f.op = "close" /\ f.d = d /\ f.nxt = NoDev /\ f.todo = todo
  BY <1>0
<1>7. todo = OfDevice(Inflight, d) \o Reverse(ready[d])
  BY <1>1, <1>2, <1>3, <1>4, <1>5 DEF OfDevice, SentBy
<1>8. stack' = <<f>> \o s
  BY <1>6, <1>7 DEF Close
<1>9. /\ devst' = [devst EXCEPT ![d] = "closing"] /\ ready' = [ready EXCEPT ![d] = <<>>]
      /\ last' = <<>> /\ unready[d] = 0
  BY DEF Close
<1>10. Inflight' = Filter(inf, X)
  <2>1. {c \in Cycles : cyc[c].dev # d} = X
    BY DEF SentBy
  <2>2. first' = Filter(inf, X)
    BY <1>1, <2>1 DEF Close
  <2>3. PICK g \in Seq(Cycles) : g = Filter(inf, X)
    BY FilterType
  <2>4. Reverse(<<>>) = <<>> /\ g \o <<>> = g
    BY DEF Reverse
  <2> QED
    BY <1>9, <2>2, <2>3, <2>4 DEF Inflight
<1>11. Held(stack', d) = todo
  BY <1>6, <1>8, HeldTop DEF Holds
<1>12. Held(stack, d) = <<>>
  <2>1. Held(s, d) = <<>>
    BY HeldNone
  <2> QED
    BY <2>1 DEF SameCalls
<1>13. ASSUME NEW x, x # d PROVE Held(stack', x) = Held(stack, x)
  <2>1. ~Holds(f, x)
    BY <1>6, <1>13 DEF Holds
  <2> QED
    BY <1>8, <2>1, HeldCons DEF SameCalls
<1>14. ASSUME NEW x \in Devices PROVE Pending(x)' = Pending(x)
  <2>1. CASE x = d
    <3>1. Pending(x)' = Queue(Filter(inf, X), cyc, todo, <<>>, x)
      BY <1>9, <1>10, <1>11, <2>1, PendingQueue, LocalHeld DEF TypeOK
    <3>2. Pending(x) = Queue(inf, cyc, <<>>, rd, x)
      BY <1>1, <1>2, <1>12, <2>1, PendingQueue, LocalHeld
    <3>3. Queue(Filter(inf, X), cyc, Filter(inf, SentBy(cyc, d)) \o Reverse(rd), <<>>, d)
             = Queue(inf, cyc, <<>>, rd, d)
      BY QueueDrained, SMTT(40)
    <3> QED
      BY <1>3, <1>4, <1>5, <2>1, <3>1, <3>2, <3>3
  <2>2. CASE x # d
    <3>1. Local(x)' = Local(x) /\ ready'[x] = ready[x]
      BY <1>9, <1>13, <2>2, LocalHeld DEF TypeOK
    <3>2. PICK l : l = Local(x)
      OBVIOUS
    <3>3. PICK y : y = ready[x]
      OBVIOUS
    <3>4. Pending(x)' = Queue(Filter(inf, X), cyc, l, y, x)
      BY <1>10, <3>1, <3>2, <3>3, PendingQueue
    <3>5. Queue(Filter(inf, X), cyc, l, y, x) = Queue(inf, cyc, l, y, x)
      BY <2>2, QueueDrainedElsewhere
    <3> QED
      BY <1>1, <3>2, <3>3, <3>4, <3>5, PendingQueue
  <2> QED
    BY <2>1, <2>2
<1>15. ASSUME NEW x PROVE Calls(stack', x) <=> Calls(stack, x)
  BY <1>6, <1>8, CallsCons DEF SameCalls
<1>16. Distinct(stack') <=> Distinct(stack)
  BY <1>6, <1>8, DistinctCons DEF SameCalls
<1>17. CallsStep
  BY <1>15, <1>16, CallsNow DEF SocketInv, CallsStep
<1>18. CyclesKept({})
  BY <1>15, KeepCycles DEF CyclesStay
<1>19. /\ \A x \in Devices \ {d} : DeviceView(x)' = DeviceView(x)
       /\ DeviceView(d) = "live" /\ DeviceView(d)' = "closing"
  BY <1>9 DEF DeviceView, TypeOK
<1>20. \A c \in Cycles : CycleView(c) = "open" => cyc[c].dev # d
  <2>1. OpenOn(d) = {}
    BY <1>9, NoneOpen DEF SocketInv
  <2> QED
    BY <2>1, ViewPending DEF OpenOn
<1>21. ViewDevice(d, "live", "closing")
  BY <1>14, <1>18, <1>19, <1>20 DEF ViewDevice, QueuesKept
<1>22. InflightOK'
  <2>1. ASSUME NEW c \in Range(Inflight) \cap X
        PROVE  cyc'[c].sent /\ cyc'[c].dev = cyc[c].dev /\ devst'[cyc[c].dev] = "active"
    <3>1. cyc[c].sent /\ cyc[c].dev \in Devices /\ devst[cyc[c].dev] = "active" /\ cyc[c].dev # d
      BY <2>1 DEF SocketInv, InflightOK, SentBy
    <3> QED
      BY <1>9, <3>1 DEF TypeOK
  <2> QED
    BY <1>1, <1>10, <2>1, InflightLess DEF SocketInv
<1> QED
  BY <1>1, <1>10, <1>15, <1>17, <1>21, <1>22 DEF StepOK, ViewStep, Uncalled

\* A device begins to close: what it has in flight is put before what is ready.
LEMMA StepDeviceClose ==
    ASSUME TypeOK, SocketInv, ~CloseHeld, Countable,
           (\E d \in Devices : DeviceClose(d)) \/ OpenFail
    PROVE  StepOK /\ Uncalled /\ \E X : Inflight' = Filter(Inflight, X)
<1>1. ASSUME NEW d \in Devices, DeviceClose(d)
      PROVE  StepOK /\ Uncalled /\ \E X : Inflight' = Filter(Inflight, X)
  <2>1. PICK s \in Seq(FrameType) : s = stack
    BY DEF TypeOK
  <2>2. Close(d, s) /\ cyc' = cyc /\ devst[d] = "active"
    BY <1>1, <2>1 DEF DeviceClose, MayClose
  <2>3. ASSUME NEW g \in Range(s) PROVE ~Holds(g, d)
    <3>1. PICK i \in DOMAIN stack : g = stack[i]
      BY <2>1 DEF Range
    <3> QED
      BY <1>1, <3>1 DEF DeviceClose, MayClose, Suspended, Holds
  <2>4. SameCalls(stack, s)
    BY <2>1 DEF SameCalls
  <2> QED
    BY <2>2, <2>3, <2>4, StepClosing
<1>2. ASSUME OpenFail PROVE StepOK /\ Uncalled /\ \E X : Inflight' = Filter(Inflight, X)
  <2>1. stack # <<>> /\ Top.op = "open"
    BY <1>2 DEF OpenFail, Running, Top
  <2>2. PICK t \in FrameType : t = Top
    BY <2>1, TopFacts
  <2>3. PICK b \in Seq(FrameType) : b = Below
    BY <2>1, TopFacts
  <2>4. PICK d \in Devices : d = t.d
    BY <2>1, <2>2 DEF FrameType
  <2>5. Close(d, b) /\ cyc' = cyc
    BY <1>2, <2>2, <2>3, <2>4 DEF OpenFail
  <2>6. devst[d] = "opening" /\ \A g \in Range(b) : Over(t, g)
    BY <2>1, <2>2, <2>3, <2>4, TopSound DEF SocketInv, FrameOK
  <2>7. \A g \in Range(b) : ~Holds(g, d)
    BY <2>1, <2>2, <2>4, <2>6 DEF Over, Holds
  <2>8. SameCalls(stack, b)
    <3>1. stack = <<t>> \o b
      BY <2>1, <2>2, <2>3, TopFacts
    <3>2. Silent(t)
      BY <2>1, <2>2 DEF Silent
    <3>3. SameCalls(b, stack)
      BY <3>1, <3>2, SilentCons
    <3> QED
      BY <3>3 DEF SameCalls
  <2> QED
    BY <2>5, <2>6, <2>7, <2>8, StepClosing
<1> QED
  BY <1>1, <1>2

\* A device that nothing waits on goes away.
LEMMA StepCloseEnd ==
    ASSUME TypeOK, SocketInv, CloseEnd PROVE StepOK /\ Uncalled /\ Inflight' = Inflight
<1>1. PICK d \in Devices : d = Top.d /\ Holds(Top, d) /\ stack # <<>>
  BY FlushTop DEF CloseEnd
<1>2. /\ Top.todo = <<>> /\ Top.op = "close" /\ stack' = Below
      /\ UNCHANGED <<ready, cyc, first, last>> /\ devst' = [devst EXCEPT ![d] = "free"]
  BY <1>1 DEF CloseEnd, Running, Top
<1>3. devst[d] = "closing"
  BY <1>1, <1>2, TopSound DEF SocketInv, FrameOK
<1>4. SameCalls(stack, stack') /\ Local(d) = <<>>
  BY <1>1, <1>2, EndCalls DEF SocketInv
<1>5. Inflight' = Inflight /\ CyclesStay
  BY <1>2 DEF Inflight, CyclesStay
<1>6. QueuesKept
  BY <1>2, <1>4, <1>5, KeepQueues DEF SameCalls
<1>7. CyclesKept({})
  BY <1>4, <1>5, KeepCycles DEF SameCalls
<1>8. Pending(d) = <<>>
  <2>1. PICK p \in Seq(Cycles) : p = Pending(d)
    BY PendingTyped
  <2>2. Range(Inflight) \cap SentBy(cyc, d) = {}
    BY <1>3 DEF SocketInv, InflightOK, SentBy
  <2>3. ready[d] = <<>>
    BY <1>3, NotActive DEF SocketInv
  <2>4. Range(<<>>) = {}
    BY DEF Range
  <2>5. Range(p) = {}
    BY <1>4, <2>1, <2>2, <2>3, <2>4, PendingTyped
  <2>6. p # <<>> => Head(p) \in Range(p)
    <3>1. p # <<>> => Range(p) = {Head(p)} \cup Range(Tail(p))
      BY HeadTail
    <3> QED
      BY <3>1
  <2> QED
    BY <2>1, <2>5, <2>6
<1>9. /\ \A x \in Devices \ {d} : DeviceView(x)' = DeviceView(x)
      /\ DeviceView(d) = "closing" /\ DeviceView(d)' = "free"
  BY <1>2, <1>3 DEF DeviceView, TypeOK
<1>10. ViewDevice(d, "closing", "free")
  BY <1>6, <1>7, <1>8, <1>9 DEF ViewDevice
<1>11. \A x \in Devices : devst[x] = "active" => devst'[x] = "active"
  BY <1>2, <1>3 DEF TypeOK
<1>12. InflightOK'
  BY <1>2, <1>5, <1>11, InflightKept DEF SocketInv, InflightOK
<1>13. CallsStep
  BY <1>2, <1>4, CallsKept DEF SocketInv
<1> QED
  BY <1>4, <1>5, <1>10, <1>12, <1>13 DEF StepOK, ViewStep, Uncalled, SameCalls

-----------------------------------------------------------------------------
(* The invariant *)

\* What a step may do to the responses in flight.
ResponsesStep ==
    \/ \E c \in Cycles : Inflight' = Append(Inflight, c)
    \/ Inflight' = Inflight
    \/ \E X : Inflight' = Filter(Inflight, X)

\* All steps.
LEMMA StepAll ==
    ASSUME TypeOK, TypeOK', SocketInv, ~CloseHeld, Countable, [Next]_vars
    PROVE  StepOK /\ ResponsesStep
<1>1. CASE UNCHANGED vars
  BY <1>1, StepQuiet DEF ResponsesStep
<1>2. CASE Client
  <2>1. CASE \E c \in Cycles, d \in Devices, blk \in BOOLEAN : CycleOpen(c, d, blk)
    BY <2>1, StepCycles DEF ResponsesStep
  <2>2. CASE \E c \in Cycles, k \in OpKinds : DoOp(c, k)
    BY <2>2, StepQuiet DEF ResponsesStep
  <2>3. CASE \E c \in Cycles : CycleAbort(c)
    BY <2>3, StepCycles DEF ResponsesStep
  <2>4. CASE \E c \in Cycles, check \in BOOLEAN : CycleClose(c, check)
    BY <2>4, StepCycles DEF ResponsesStep
  <2>5. CASE SocketRun \/ SocketCheck
    BY <2>5, StepLoop DEF ResponsesStep
  <2>6. CASE SocketTimeout \/ SocketClose \/ SocketOpen
    BY <2>6, StepQuiet DEF ResponsesStep
  <2>7. CASE \E d \in Devices : DeviceOpen(d)
    BY <2>7, StepDeviceOpen DEF ResponsesStep
  <2>8. CASE \E d \in Devices : DeviceClose(d)
    BY <2>8, StepDeviceClose DEF ResponsesStep
  <2> QED
    BY <1>2, <2>1, <2>2, <2>3, <2>4, <2>5, <2>6, <2>7, <2>8 DEF Client
<1>3. CASE Library
  <2>1. CASE BlockRun \/ BlockReturn \/ RunWait \/ RunReturn \/ ExpireDone \/ TopDone
             \/ DeviceDone \/ FlushSkipped \/ OpenRun
    BY <2>1, StepLoop DEF ResponsesStep
  <2>2. CASE CallbackReturn
    BY <2>2, StepReturn DEF ResponsesStep
  <2>3. CASE Expire
    BY <2>3, StepExpire DEF ResponsesStep
  <2>4. CASE FlushBegin \/ FlushCycle \/ FlushEnd
    BY <2>4, StepFlushBegin, StepFlushCycle, StepFlushEnd DEF ResponsesStep
  <2>5. CASE OpenOk \/ OpenFail
    BY <2>5, StepOpenOk, StepDeviceClose DEF ResponsesStep
  <2>6. CASE CloseCycle \/ CloseEnd
    BY <2>6, StepCloseCycle, StepCloseEnd DEF ResponsesStep
  <2> QED
    BY <1>3, <2>1, <2>2, <2>3, <2>4, <2>5, <2>6 DEF Library
<1>4. CASE Network
  <2>1. CASE UnmatchedAnswer \/ LinkBreak
    BY <2>1, StepQuiet DEF ResponsesStep
  <2>2. ASSUME NEW c \in Cycles, NEW part \in {"value", "status"}, NEW more \in BOOLEAN,
               NEW err \in BOOLEAN, Answer(c, part, more, err)
        PROVE  StepOK /\ ResponsesStep
    <3>1. StepOK
      BY <2>2, StepAnswer
    <3>2. Inflight' = Inflight \/ Inflight' = Filter(Inflight, Cycles \ {c})
      BY <2>2, AnswerInflight DEF SocketInv
    <3> QED
      BY <3>1, <3>2 DEF ResponsesStep
  <2> QED
    BY <1>4, <2>1, <2>2 DEF Network
<1> QED
  BY <1>1, <1>2, <1>3, <1>4 DEF Next

\* Every step keeps the invariant.
LEMMA SocketStep ==
    ASSUME TypeOK, SocketInv, ~FlushReentry, ~CloseHeld, Countable, [Next]_vars
    PROVE  TypeOK' /\ SocketInv' /\ StepOK /\ ResponsesStep
<1>1. CyclesOK /\ StackOK /\ DevicesOK /\ InflightOK /\ QueuesOK
  BY DEF SocketInv
<1>2. TypeOK' /\ CyclesOK'
  BY <1>1, TypeStep
<1>3. StackOK'
  BY <1>1, StackStep
<1>4. DevicesOK'
  BY <1>1, DevicesStep
<1>5. StepOK /\ ResponsesStep
  BY <1>2, StepAll
<1>6. QueuesOK'
  <2>1. QueueView'
    BY <1>1, <1>5, QueuesView, ViewQueues DEF StepOK
  <2>2. \A f \in Range(stack') : f.op = "cb" => f.c \in Cycles /\ cyc'[f.c].st = "closed"
    BY <1>5 DEF StepOK, CallsStep, Calls
  <2>3. Ordered(stack', CallRel)
    BY <1>5 DEF StepOK, CallsStep, Distinct
  <2>4. ASSUME NEW d \in Devices
        PROVE  /\ IsInjective(Pending(d)')
               /\ Range(Pending(d)') =
                     {c \in Cycles : cyc'[c].st = "closed" /\ cyc'[c].dev = d /\ ~Called(c)'}
    BY <1>2, <2>1, ViewPendingPrime DEF QueueView
  <2> QED
    BY <2>2, <2>3, <2>4 DEF QueuesOK, CallRel
<1> QED
  BY <1>2, <1>3, <1>4, <1>5, <1>6 DEF SocketInv, StepOK

\* The invariant holds initially.
LEMMA SocketInit == Init => TypeOK /\ SocketInv
<1> SUFFICES ASSUME Init PROVE TypeOK /\ SocketInv
  OBVIOUS
<1>1. TypeOK /\ CyclesOK
  BY TypeInit
<1>2. stack = <<>> /\ first = <<>> /\ last = <<>> /\ devlist = <<>> /\ sockOpen = TRUE
  BY DEF Init
<1>3. Range(<<>>) = {} /\ DOMAIN <<>> = {} /\ Reverse(<<>>) = <<>> /\ <<>> \o <<>> = <<>>
  BY DEF Range, Reverse
<1>4. \A c \in Cycles : cyc[c].st = "free"
  BY FreeCycleOK DEF Init
<1>5. \A d \in Devices : devst[d] = "free" /\ unready[d] = 0 /\ ready[d] = <<>>
  BY DEF Init
<1>6. StackOK
  BY <1>2, <1>3 DEF StackOK, Ordered
<1>7. DevicesOK
  <2>1. IsInjective(<<>>)
    BY <1>3 DEF IsInjective
  <2>2. \A d \in Devices : {c \in Cycles : cyc[c].st = "open" /\ cyc[c].dev = d} = {}
    BY <1>4
  <2>3. Cardinality({}) = 0
    BY FS_EmptySet
  <2>4. Range(devlist) = {d \in Devices : devst[d] # "free"}
    BY <1>2, <1>3, <1>5
  <2> QED
    BY <1>2, <1>4, <1>5, <2>1, <2>2, <2>3, <2>4 DEF DevicesOK
<1>8. Inflight = <<>>
  BY <1>2, <1>3 DEF Inflight
<1>9. InflightOK
  BY <1>3, <1>8 DEF InflightOK, IsInjective
<1>10. ASSUME NEW d \in Devices PROVE Pending(d) = <<>>
  <2>1. Local(d) = <<>>
    BY <1>2, <1>3 DEF Local
  <2>2. OfDevice(Inflight, d) = <<>>
    BY <1>8, FilterEmpty DEF OfDevice
  <2> QED
    BY <1>3, <1>5, <2>1, <2>2 DEF Pending
<1>11. QueuesOK
  <2>1. IsInjective(<<>>)
    BY <1>3 DEF IsInjective
  <2>2. \A d \in Devices :
           {c \in Cycles : cyc[c].st = "closed" /\ cyc[c].dev = d /\ ~Called(c)} = {}
    BY <1>4
  <2>3. \A d \in Devices :
           /\ IsInjective(Pending(d))
           /\ Range(Pending(d)) =
                 {c \in Cycles : cyc[c].st = "closed" /\ cyc[c].dev = d /\ ~Called(c)}
    BY <1>3, <1>10, <2>1, <2>2
  <2> QED
    BY <1>2, <1>3, <2>3 DEF QueuesOK, Ordered
<1> QED
  BY <1>1, <1>6, <1>7, <1>9, <1>11 DEF SocketInv

\* The invariant, for every number of devices and any depth of suspended
\* calls: which device every suspended call works on, what unready counts,
\* what is in flight, and where each closed cycle waits.  It is assumed that
\* clients do not close cycles onto a device from within its own flush and
\* do not close, from a callback, a device that a suspended loop goes on with,
\* and that fewer cycles exist than the byte-wide unready can count.
THEOREM SocketInvariant ==
    ASSUME ~FlushReentry, ~CloseHeld, Countable PROVE Spec => [](TypeOK /\ SocketInv)
<1>1. (TypeOK /\ SocketInv) /\ [Next]_vars => (TypeOK /\ SocketInv)'
  BY SocketStep
<1> QED
  BY <1>1, SocketInit, PTL DEF Spec

-----------------------------------------------------------------------------
(* The contract *)

\* The variables of the contract, as the socket shows them.
Dst == [d \in Devices |-> DeviceView(d)]
Cst == [c \in Cycles |-> CycleView(c)]
Owner == [c \in Cycles |-> cyc[c].dev]
Waits == [d \in Devices |-> Pending(d)]

\* What the contract sees does not change.
LEMMA ContractKept ==
    /\ DevicesKept => Dst' = Dst
    /\ QueuesKept => Waits' = Waits
    /\ CyclesKept({}) => Cst' = Cst /\ Owner' = Owner
  BY DEF DevicesKept, QueuesKept, CyclesKept, Dst, Cst, Owner, Waits

\* The contract sees one cycle change.
LEMMA ContractCycle ==
    ASSUME NEW c \in Cycles, CyclesKept({c})
    PROVE  /\ Cst' = [Cst EXCEPT ![c] = CycleView(c)']
           /\ Owner' = [Owner EXCEPT ![c] = cyc'[c].dev]
           /\ cyc'[c].dev = cyc[c].dev => Owner' = Owner
  BY DEF CyclesKept, Cst, Owner

\* The contract sees one device change.
LEMMA ContractDevice ==
    ASSUME NEW d \in Devices, \A x \in Devices \ {d} : DeviceView(x)' = DeviceView(x)
    PROVE  Dst' = [Dst EXCEPT ![d] = DeviceView(d)']
  BY DEF Dst

\* A cycle that is called back leaves its queue, the oldest first if the
\* device is closing.
LEMMA ContractCall ==
    ASSUME TypeOK, QueueView, NEW c \in Cycles, ViewCalled(c)
    PROVE  \E i \in 1..Len(Waits[Owner[c]]) :
              /\ Waits[Owner[c]][i] = c
              /\ Dst[Owner[c]] = "closing" => i = 1
              /\ Waits' = [Waits EXCEPT ![Owner[c]] = RemoveAt(@, i)]
<1>1. PICK d \in Devices : d = cyc[c].dev
  BY DEF ViewCalled
<1>2. Owner[c] = d
  BY <1>1 DEF Owner
<1>3. PICK p \in Seq(Cycles) : p = Pending(d)
  BY PendingTyped
<1>4. Waits[d] = p /\ Dst[d] = DeviceView(d)
  BY <1>3 DEF Waits, Dst
<1>5. IsInjective(p) /\ c \in Range(p)
  BY <1>1, <1>3 DEF QueueView, ViewCalled
<1>6. PICK j \in DOMAIN p : p[j] = c
  BY <1>5 DEF Range
<1>7. 1 \in 1..Len(p) /\ j \in 1..Len(p)
  <2>1. DOMAIN p = 1..Len(p) /\ Len(p) \in Nat
    OBVIOUS
  <2> QED
    BY <1>6, <2>1
<1>8. DeviceView(d) = "closing" => p[1] = c
  BY <1>1, <1>3 DEF ViewCalled
<1>9. PICK i \in 1..Len(p) : p[i] = c /\ (DeviceView(d) = "closing" => i = 1)
  BY <1>6, <1>7, <1>8
<1>10. RemoveAt(p, i) = Filter(p, Cycles \ {c})
  <2>1. RemoveAt(p, i) = Filter(p, Cycles \ {p[i]})
    BY <1>5, FilterRemoveAt
  <2> QED
    BY <1>9, <2>1
<1>11. ASSUME NEW x \in Devices, x # d PROVE Pending(x)' = Pending(x)
  <2>1. Filter(Pending(x), Cycles \ {c}) = Pending(x)
    BY <1>1, <1>11, QueueElsewhere
  <2> QED
    BY <2>1 DEF ViewCalled
<1>12. Pending(d)' = RemoveAt(p, i)
  BY <1>3, <1>10 DEF ViewCalled
<1>13. Waits' = [Waits EXCEPT ![d] = RemoveAt(p, i)]
  BY <1>11, <1>12 DEF Waits
<1> QED
  BY <1>2, <1>4, <1>9, <1>13

\* Every step is one of the contract, or none.
LEMMA ContractStep ==
    ASSUME TypeOK, QueueView, ViewStep PROVE [Contract!Next]_(Contract!vars)
<1>1. CASE ViewKept
  <2>1. UNCHANGED <<Dst, Cst, Owner, Waits>>
    BY <1>1, ContractKept DEF ViewKept
  <2> QED
    BY <2>1 DEF Contract!vars, Dst, Cst, Owner, Waits
<1>2. ASSUME NEW c \in Cycles, NEW d \in Devices, ViewOpened(c, d) PROVE Contract!Open(c, d)
  <2>1. Cst[c] = "free" /\ Dst[d] = "live"
    BY <1>2 DEF ViewOpened, Cst, Dst
  <2>2. Cst' = [Cst EXCEPT ![c] = "open"] /\ Owner' = [Owner EXCEPT ![c] = d]
    BY <1>2, ContractCycle DEF ViewOpened
  <2>3. UNCHANGED <<Dst, Waits>>
    BY <1>2, ContractKept DEF ViewOpened
  <2> QED
    BY <2>1, <2>2, <2>3 DEF Contract!Open, Dst, Cst, Owner, Waits
<1>3. ASSUME NEW c \in Cycles, ViewFreed(c) PROVE Contract!Abort(c) \/ Contract!Return(c)
  <2>1. Cst[c] \in {"open", "calling"}
    BY <1>3 DEF ViewFreed, Cst
  <2>2. Cst' = [Cst EXCEPT ![c] = "free"] /\ Owner' = [Owner EXCEPT ![c] = NoDev]
    BY <1>3, ContractCycle DEF ViewFreed
  <2>3. UNCHANGED <<Dst, Waits>>
    BY <1>3, ContractKept DEF ViewFreed
  <2> QED
    BY <2>1, <2>2, <2>3 DEF Contract!Abort, Contract!Return, Dst, Cst, Owner, Waits
<1>4. ASSUME NEW c \in Cycles, ViewClosed(c) PROVE Contract!Close(c)
  <2>1. Cst[c] = "open" /\ Owner[c] = cyc[c].dev /\ cyc[c].dev \in Devices
    BY <1>4 DEF ViewClosed, Cst, Owner
  <2>2. Cst' = [Cst EXCEPT ![c] = "pending"] /\ Owner' = Owner
    BY <1>4, ContractCycle DEF ViewClosed
  <2>3. Dst' = Dst
    BY <1>4, ContractKept DEF ViewClosed
  <2>4. Waits' = [Waits EXCEPT ![Owner[c]] = Append(@, c)]
    BY <1>4, <2>1 DEF ViewClosed, Waits
  <2> QED
    BY <2>1, <2>2, <2>3, <2>4 DEF Contract!Close, Dst, Cst, Owner, Waits
<1>5. ASSUME NEW c \in Cycles, ViewCalled(c) PROVE Contract!Call(c)
  <2>1. Cst[c] = "pending"
    BY <1>5 DEF ViewCalled, Cst
  <2>2. Cst' = [Cst EXCEPT ![c] = "calling"] /\ Owner' = Owner
    BY <1>5, ContractCycle DEF ViewCalled
  <2>3. Dst' = Dst
    BY <1>5, ContractKept DEF ViewCalled
  <2>4. \E i \in 1..Len(Waits[Owner[c]]) :
              /\ Waits[Owner[c]][i] = c
              /\ Dst[Owner[c]] = "closing" => i = 1
              /\ Waits' = [Waits EXCEPT ![Owner[c]] = RemoveAt(@, i)]
    BY <1>5, ContractCall
  <2> QED
    BY <2>1, <2>2, <2>3, <2>4
       DEF Contract!Call, Contract!RemoveAt, RemoveAt, Dst, Cst, Owner, Waits
<1>6. ASSUME NEW d \in Devices, NEW from, NEW to, ViewDevice(d, from, to)
      PROVE  /\ Dst[d] = from /\ Dst' = [Dst EXCEPT ![d] = to]
             /\ UNCHANGED <<Cst, Owner, Waits>>
             /\ to = "closing" => \A c \in Cycles : Cst[c] = "open" => Owner[c] # d
             /\ from = "closing" => Waits[d] = <<>>
  <2>1. Dst[d] = from
    BY <1>6 DEF ViewDevice, Dst
  <2>2. Dst' = [Dst EXCEPT ![d] = to]
    BY <1>6, ContractDevice DEF ViewDevice
  <2>3. UNCHANGED <<Cst, Owner, Waits>>
    BY <1>6, ContractKept DEF ViewDevice
  <2>4. to = "closing" => \A c \in Cycles : Cst[c] = "open" => Owner[c] # d
    BY <1>6 DEF ViewDevice, Cst, Owner
  <2>5. from = "closing" => Waits[d] = <<>>
    BY <1>6 DEF ViewDevice, Waits
  <2> QED
    BY <2>1, <2>2, <2>3, <2>4, <2>5
<1>7. ASSUME NEW d \in Devices, ViewDevice(d, "free", "live") PROVE Contract!DeviceUp(d)
  BY <1>6, <1>7 DEF Contract!DeviceUp, Dst, Cst, Owner, Waits
<1>8. ASSUME NEW d \in Devices, ViewDevice(d, "live", "closing")
      PROVE  Contract!DeviceClosing(d)
  BY <1>6, <1>8 DEF Contract!DeviceClosing, Dst, Cst, Owner, Waits
<1>9. ASSUME NEW d \in Devices, ViewDevice(d, "closing", "free")
      PROVE  Contract!DeviceDown(d)
  BY <1>6, <1>9 DEF Contract!DeviceDown, Dst, Cst, Owner, Waits
<1> QED
  BY <1>1, <1>2, <1>3, <1>4, <1>5, <1>7, <1>8, <1>9 DEF ViewStep, Contract!Next

\* The socket begins as the contract does.
LEMMA ContractInit ==
    ASSUME Init PROVE Contract!Init
<1>1. TypeOK /\ SocketInv /\ QueueView
  BY SocketInit, QueuesView DEF SocketInv
<1>2. \A d \in Devices : DeviceView(d) = "free"
  BY DEF Init, DeviceView
<1>3. \A c \in Cycles : CycleView(c) = "free" /\ cyc[c].dev = NoDev
  BY DEF Init, FreeCycle, CycleView
<1>4. ASSUME NEW d \in Devices PROVE Pending(d) = <<>>
  <2>1. PICK p \in Seq(Cycles) : p = Pending(d)
    BY <1>1, PendingTyped
  <2>2. Range(p) = {}
    BY <1>1, <1>3, <2>1 DEF QueueView
  <2>3. p # <<>> => Range(p) = {Head(p)} \cup Range(Tail(p))
    BY HeadTail
  <2> QED
    BY <2>1, <2>2, <2>3
<1> QED
  BY <1>2, <1>3, <1>4 DEF Contract!Init

\* The socket implements the contract of etherbone.h (ImplementsContract):
\* whatever the interleaving of callbacks, answers, timeouts and closing
\* devices, a closed cycle waits in its device's queue and leaves it by
\* exactly one callback, a closing device calls back oldest first, and a
\* device goes away only when nothing waits on it.
THEOREM ContractHolds ==
    ASSUME ~FlushReentry, ~CloseHeld, Countable PROVE Spec => ImplementsContract
<1>1. Init => Contract!Init
  BY ContractInit
<1>2. TypeOK /\ SocketInv /\ [Next]_vars => [Contract!Next]_(Contract!vars)
  <2> SUFFICES ASSUME TypeOK, SocketInv, [Next]_vars PROVE [Contract!Next]_(Contract!vars)
    OBVIOUS
  <2>1. ViewStep
    BY SocketStep DEF StepOK
  <2>2. QueueView
    BY QueuesView DEF SocketInv
  <2> QED
    BY <2>1, <2>2, ContractStep
<1>3. Spec => [](TypeOK /\ SocketInv)
  BY SocketInvariant
<1> QED
  BY <1>1, <1>2, <1>3, PTL DEF Spec, ImplementsContract, Contract!Spec

-----------------------------------------------------------------------------
(* What the invariant implies *)

\* The cardinalities CycleOwnership counts with.
LEMMA CardOne ==
    /\ Cardinality({}) = 0
    /\ \A x : Cardinality({x}) = 1
  BY FS_EmptySet, FS_Singleton

\* Where an injective sequence holds a value.
LEMMA IndexCount ==
    ASSUME NEW T, NEW s \in Seq(T), IsInjective(s), NEW x
    PROVE  Cardinality({i \in DOMAIN s : s[i] = x}) = IF x \in Range(s) THEN 1 ELSE 0
<1>1. CASE x \in Range(s)
  <2>1. PICK j \in DOMAIN s : s[j] = x
    BY <1>1 DEF Range
  <2>2. {i \in DOMAIN s : s[i] = x} = {j}
    BY <2>1 DEF IsInjective
  <2> QED
    BY <1>1, <2>2, CardOne
<1>2. CASE x \notin Range(s)
  <2>1. {i \in DOMAIN s : s[i] = x} = {}
    BY <1>2 DEF Range
  <2> QED
    BY <1>2, <2>1, CardOne
<1> QED
  BY <1>1, <1>2

\* The places of a cycle in the queues.
LEMMA PlaceOf ==
    ASSUME NEW c, NEW x
    PROVE  x \in Places(c) <=> \E d \in Devices : \E j \in DOMAIN Pending(d) :
                                  Pending(d)[j] = c /\ x = <<d, j>>
  BY DEF Places

\* The invariant implies CycleOwnership.
LEMMA Owned ==
    ASSUME TypeOK, SocketInv PROVE CycleOwnership
<1>1. CyclesOK /\ QueuesOK
  BY DEF SocketInv
<1>2. ASSUME NEW d \in Devices, NEW i \in DOMAIN Pending(d)
      PROVE  /\ Pending(d)[i] \in Cycles /\ cyc[Pending(d)[i]].dev = d
             /\ cyc[Pending(d)[i]].st = "closed" /\ ~Called(Pending(d)[i])
  BY <1>1 DEF QueuesOK, Range
<1>3. ASSUME NEW c \in Cycles, cyc[c].st # "closed" \/ Called(c) PROVE Places(c) = {}
  <2>1. \A d \in Devices : \A j \in DOMAIN Pending(d) : Pending(d)[j] # c
    BY <1>2, <1>3
  <2> QED
    BY <2>1, PlaceOf
<1>4. ASSUME NEW c \in Cycles, cyc[c].st = "closed", ~Called(c) PROVE Cardinality(Places(c)) = 1
  <2>1. PICK d \in Devices : d = cyc[c].dev
    BY <1>1, <1>4 DEF CyclesOK
  <2>2. c \in Range(Pending(d)) /\ IsInjective(Pending(d))
    BY <1>1, <1>4, <2>1 DEF QueuesOK
  <2>3. PICK j \in DOMAIN Pending(d) : Pending(d)[j] = c
    BY <2>2 DEF Range
  <2>4. ASSUME NEW x \in Places(c) PROVE x = <<d, j>>
    <3>1. PICK e \in Devices : \E k \in DOMAIN Pending(e) : Pending(e)[k] = c /\ x = <<e, k>>
      BY <2>4, PlaceOf
    <3>2. PICK k \in DOMAIN Pending(e) : Pending(e)[k] = c /\ x = <<e, k>>
      BY <3>1
    <3>3. e = d
      BY <1>2, <2>1, <3>2
    <3>4. k = j
      BY <2>2, <2>3, <3>2, <3>3 DEF IsInjective
    <3> QED
      BY <3>2, <3>3, <3>4
  <2>5. <<d, j>> \in Places(c)
    BY <2>3, PlaceOf
  <2>6. Places(c) = {<<d, j>>}
    BY <2>4, <2>5
  <2> QED
    BY <2>6, CardOne
<1>5. ASSUME NEW c \in Cycles, ~Called(c)
      PROVE  {i \in Suspended("cb") : stack[i].c = c} = {}
  BY <1>5 DEF Suspended, Called, Range
<1>6. ASSUME NEW c \in Cycles, Called(c)
      PROVE  Cardinality({i \in Suspended("cb") : stack[i].c = c}) = 1 /\ cyc[c].st = "closed"
  <2>1. PICK i \in DOMAIN stack : stack[i].op = "cb" /\ stack[i].c = c
    BY <1>6 DEF Called, Range
  <2>2. cyc[c].st = "closed"
    BY <1>1, <2>1 DEF QueuesOK, Range
  <2>3. ASSUME NEW j \in Suspended("cb"), stack[j].c = c PROVE j = i
    <3>1. j \in DOMAIN stack /\ stack[j].op = "cb"
      BY <2>3 DEF Suspended
    <3>2. \A k, l \in DOMAIN stack : k < l => <<stack[k], stack[l]>> \in CallRel
      BY <1>1 DEF QueuesOK, Ordered, CallRel
    <3>3. \A k, l \in DOMAIN stack :
             k < l /\ stack[k].op = "cb" /\ stack[l].op = "cb" => stack[k].c # stack[l].c
      BY <3>2 DEF CallRel
    <3>4. ~(j < i) /\ ~(i < j)
      BY <2>1, <2>3, <3>1, <3>3
    <3>5. i \in Int /\ j \in Int
      BY <2>1, <3>1 DEF TypeOK
    <3> QED
      BY <3>4, <3>5
  <2>4. {k \in Suspended("cb") : stack[k].c = c} = {i}
    BY <2>1, <2>3 DEF Suspended
  <2> QED
    BY <2>2, <2>4, CardOne
<1>7. ASSUME NEW c \in Cycles
      PROVE  Cardinality(Places(c)) + Cardinality({i \in Suspended("cb") : stack[i].c = c})
                = IF cyc[c].st = "closed" THEN 1 ELSE 0
  <2>1. CASE Called(c)
    BY <1>3, <1>6, <2>1, CardOne
  <2>2. CASE ~Called(c) /\ cyc[c].st = "closed"
    <3>1. Cardinality(Places(c)) = 1
      BY <1>4, <2>2
    <3>2. {i \in Suspended("cb") : stack[i].c = c} = {}
      BY <1>5, <2>2
    <3>3. Cardinality({i \in Suspended("cb") : stack[i].c = c}) = 0
      BY <3>2, CardOne
    <3> QED
      BY <2>2, <3>1, <3>3
  <2>3. CASE ~Called(c) /\ cyc[c].st # "closed"
    BY <1>3, <1>5, <2>3, CardOne
  <2> QED
    BY <2>1, <2>2, <2>3
<1> QED
  BY <1>2, <1>7 DEF CycleOwnership

\* The invariant implies NoDangling.
LEMMA Undangling ==
    ASSUME TypeOK, SocketInv PROVE NoDangling
<1>1. CyclesOK /\ StackOK /\ DevicesOK /\ InflightOK /\ QueuesOK
  BY DEF SocketInv
<1>2. \A c \in Cycles : cyc[c].st = "open" => devst[cyc[c].dev] = "active"
  BY <1>1 DEF DevicesOK
<1>3. ASSUME NEW d \in Devices, Pending(d) # <<>> PROVE devst[d] \in {"active", "closing"}
  <2>1. CASE ready[d] # <<>>
    BY <1>1, <2>1 DEF DevicesOK
  <2>2. CASE Local(d) # <<>>
    <3> DEFINE calls == {f \in Range(stack) : f.op \in {"flush", "close"} /\ f.d = d}
    <3>1. calls # {} /\ Local(d) = (CHOOSE f \in calls : TRUE).todo
      BY <2>2 DEF Local
    <3>2. PICK f \in calls : f.todo # <<>>
      BY <2>2, <3>1
    <3>3. FrameOK(f) /\ f.op \in {"flush", "close"} /\ f.d = d
      BY <1>1, <3>2 DEF StackOK
    <3> QED
      BY <3>2, <3>3 DEF FrameOK
  <2>3. CASE \E c \in Range(Inflight) : cyc[c].dev = d
    BY <1>1, <2>3 DEF InflightOK
  <2>4. CASE ready[d] = <<>> /\ Local(d) = <<>> /\ \A c \in Range(Inflight) : cyc[c].dev # d
    <3>1. PICK p \in Seq(Cycles) : p = Pending(d)
      BY PendingTyped
    <3>2. Range(<<>>) = {} /\ Range(Inflight) \cap SentBy(cyc, d) = {}
      BY <2>4 DEF Range, SentBy
    <3>3. Range(p) = {}
      BY <2>4, <3>1, <3>2, PendingTyped
    <3>4. Range(p) = {Head(p)} \cup Range(Tail(p))
      BY <1>3, <3>1, HeadTail
    <3> QED
      BY <3>3, <3>4
  <2> QED
    BY <2>1, <2>2, <2>3, <2>4
<1>4. ASSUME NEW i \in DOMAIN stack, NEW d \in {stack[i].d, stack[i].nxt} \ {NoDev}
      PROVE  devst[d] # "free"
  <2>1. FrameOK(stack[i])
    BY <1>1 DEF StackOK, Range
  <2> QED
    BY <2>1 DEF FrameOK
<1>5. ASSUME NEW d \in Devices
      PROVE  Cardinality({i \in DOMAIN devlist : devlist[i] = d})
                = IF devst[d] = "free" THEN 0 ELSE 1
  <2>1. PICK l \in Seq(Devices) : l = devlist
    BY DEF TypeOK
  <2>2. IsInjective(l) /\ (d \in Range(l) <=> devst[d] # "free")
    BY <1>1, <2>1 DEF DevicesOK
  <2>3. Cardinality({i \in DOMAIN l : l[i] = d}) = IF d \in Range(l) THEN 1 ELSE 0
    BY <2>2, IndexCount
  <2> QED
    BY <2>1, <2>2, <2>3
<1> QED
  BY <1>2, <1>3, <1>4, <1>5 DEF NoDangling

\* A closed cycle is in exactly one place (CycleOwnership): in flight, in the
\* local list of the flush or close that is suspended, ready, or in the one
\* callback that runs for it, so that it is called back once and freed once.
THEOREM CycleOwnershipHolds ==
    ASSUME ~FlushReentry, ~CloseHeld, Countable PROVE Spec => []CycleOwnership
<1>1. TypeOK /\ SocketInv => CycleOwnership
  BY Owned
<1> QED
  BY <1>1, SocketInvariant, PTL

\* Nothing refers to a device that eb_device_close has freed (NoDangling): no
\* open or waiting cycle, no suspended loop of eb_socket_check, and the
\* socket's list holds each allocated device once.  The clients' part
\* (~CloseHeld) is not to close, from a callback, a device that a suspended
\* loop goes on with: eb_socket_check reads next_devicep before it serves a
\* device, and the code has no guard against closing that one.
THEOREM NoDanglingHolds ==
    ASSUME ~FlushReentry, ~CloseHeld, Countable PROVE Spec => []NoDangling
<1>1. TypeOK /\ SocketInv => NoDangling
  BY Undangling
<1> QED
  BY <1>1, SocketInvariant, PTL

\* Responses stay in the order of their requests (ResponsesInOrder), although
\* eb_socket_timeout, the walk over the answers and eb_device_close each
\* reverse one of the two lists they are kept in.
THEOREM ResponsesInOrderHolds ==
    ASSUME ~FlushReentry, ~CloseHeld, Countable PROVE Spec => ResponsesInOrder
<1>1. TypeOK /\ SocketInv /\ [Next]_vars
         => [\/ \E c \in Cycles : Inflight' = Append(Inflight, c)
             \/ Inflight' = Filter(Inflight, Range(Inflight'))]_vars
  <2> SUFFICES ASSUME TypeOK, SocketInv, [Next]_vars
               PROVE  \/ \E c \in Cycles : Inflight' = Append(Inflight, c)
                      \/ Inflight' = Filter(Inflight, Range(Inflight'))
    OBVIOUS
  <2>1. ResponsesStep
    BY SocketStep
  <2>2. PICK inf \in Seq(Cycles) : inf = Inflight
    BY InflightTyped
  <2>3. ASSUME Inflight' = inf PROVE Inflight' = Filter(inf, Range(Inflight'))
    <3>1. Filter(inf, Range(inf)) = inf
      BY FilterNothing
    <3> QED
      BY <2>3, <3>1
  <2>4. ASSUME NEW X, Inflight' = Filter(inf, X)
        PROVE  Inflight' = Filter(inf, Range(Inflight'))
    <3>1. Range(Filter(inf, X)) = Range(inf) \cap X
      BY FilterRange
    <3>2. Range(inf) \cap X = Range(inf) \cap (Range(inf) \cap X)
      OBVIOUS
    <3>3. Filter(inf, X) = Filter(inf, Range(inf) \cap X)
      BY <3>2, FilterSame
    <3> QED
      BY <2>4, <3>1, <3>3
  <2> QED
    BY <2>1, <2>2, <2>3, <2>4 DEF ResponsesStep
<1> QED
  BY <1>1, SocketInvariant, PTL DEF Spec, ResponsesInOrder

-----------------------------------------------------------------------------
(* The status of a callback *)

\* A cycle stops waiting only when it is called back.
LEMMA NewCall ==
    ASSUME TypeOK, TypeOK', ViewStep, NEW c \in Cycles, Waiting(c), ~Waiting(c)'
    PROVE  Calls(stack', c) /\ ~Calls(stack, c)
<1>1. CycleView(c) = "pending" /\ CycleView(c)' # "pending"
  BY ViewPending, ViewPendingPrime DEF Waiting
<1>2. CycleView(c)' = "calling"
  BY <1>1 DEF ViewStep, ViewKept, ViewOpened, ViewFreed, ViewClosed, ViewCalled, ViewDevice,
              CyclesKept
<1> QED
  BY <1>1, <1>2, ViewPending, ViewPendingPrime, CalledCalls

\* OkMeansAnswered for a step.
OkStep ==
    \A c \in Cycles :
        Waiting(c) /\ ~Waiting(c)' /\ Head(stack').st = "OK"
        /\ (Reads(c) \/ Checked(c))
           => cyc[c].sent /\ c \in Range(Inflight)

\* Without a new callback nobody is told EB_OK.
LEMMA OkUncalled ==
    ASSUME TypeOK, TypeOK', ViewStep, Uncalled PROVE OkStep
  BY NewCall DEF OkStep, Uncalled

\* The frame a callback pushes.
LEMMA CallTop ==
    ASSUME NEW c \in Cycles, NEW st \in Statuses, NEW s \in Seq(FrameType),
           stack' = <<Calling(c, st)>> \o s
    PROVE  Head(stack').st = st
<1> DEFINE k == Calling(c, st)
<1>1. k \in FrameType
  BY CallingTyped
<1>2. k.st = st
  BY DEF Calling, Frame
<1>3. stack' = <<k>> \o s
  OBVIOUS
<1> HIDE DEF k
<1>4. Head(<<k>> \o s) = k
  BY <1>1, ConsFacts
<1> QED
  BY <1>2, <1>3, <1>4

\* EB_OK after an answer.
LEMMA OkAnswer ==
    ASSUME TypeOK, TypeOK', SocketInv, ViewStep, NEW x \in Cycles,
           NEW part \in {"value", "status"}, NEW more \in BOOLEAN, NEW err \in BOOLEAN,
           Answer(x, part, more, err)
    PROVE  OkStep
<1>1. x \in Range(Inflight) /\ cyc[x].sent
  BY AnswerInflight DEF SocketInv, InflightOK
<1>2. CASE stack' = stack
  BY <1>2, OkUncalled DEF Uncalled
<1>3. ASSUME NEW st \in Statuses, stack' = <<Calling(x, st)>> \o stack PROVE OkStep
  <2>1. PICK s \in Seq(FrameType) : s = stack
    BY DEF TypeOK
  <2>2. CallPushed(s, <<Calling(x, st)>> \o s, x)
    BY CallbackPush
  <2>3. CallPushed(stack, stack', x)
    BY <1>3, <2>1, <2>2
  <2>4. \A c \in Cycles : Waiting(c) /\ ~Waiting(c)' => c = x
    BY <2>3, NewCall DEF CallPushed
  <2> QED
    BY <1>1, <2>4 DEF OkStep
<1> QED
  BY <1>2, <1>3, AnswerInflight DEF SocketInv

\* EB_OK from the flush, for a cycle that needs no answer.
LEMMA OkFlush ==
    ASSUME TypeOK, TypeOK', SocketInv, ViewStep, FlushCycle PROVE OkStep
<1>1. PICK d \in Devices : d = Top.d /\ Holds(Top, d) /\ stack # <<>>
  BY FlushTop DEF FlushCycle
<1>2. Top.todo # <<>> /\ StackOK /\ CyclesOK
  BY DEF FlushCycle, SocketInv
<1>3. PICK x \in Cycles : x = Head(Top.todo)
  <2>1. Top.todo \in Seq(Cycles)
    BY FlushTop DEF FlushCycle
  <2> QED
    BY <1>2, <2>1
<1>4. PICK u \in Seq(FrameType) :
         u = <<[Top EXCEPT !.todo = Tail(@)]>> \o Below /\ Served(u, d)
  BY <1>1, <1>2, ServeFrame
<1>5. ASSUME NEW st \in Statuses, stack' = <<Calling(x, st)>> \o u,
             st = "OK" => ~Reads(x) /\ ~Checked(x)
      PROVE  OkStep
  <2>1. CallPushed(u, <<Calling(x, st)>> \o u, x)
    BY CallbackPush
  <2>2. CallPushed(u, stack', x)
    BY <1>5, <2>1
  <2>3. \A c \in Cycles : Waiting(c) /\ ~Waiting(c)' => c = x
    BY <1>4, <2>2, NewCall DEF CallPushed, Served
  <2>4. Head(stack').st = st
    BY <1>5, CallTop
  <2> QED
    BY <1>5, <2>3, <2>4 DEF OkStep
<1>6. CASE stack' = u
  BY <1>4, <1>6, OkUncalled DEF Uncalled, Served
<1>7. PICK st \in Outcomes(x) :
         \/ st # "sent" /\ stack' = <<Calling(x, st)>> \o u
         \/ st = "sent" /\ ~NeedsAnswer(x) /\ stack' = <<Calling(x, "OK")>> \o u
         \/ stack' = u
  BY <1>3, <1>4 DEF FlushCycle
<1>8. CASE st # "sent" /\ stack' = <<Calling(x, st)>> \o u
  <2>1. st \in Statuses
    BY <1>8, OutcomesTyped
  <2>2. ASSUME st = "OK" PROVE cyc[x].ops = {}
    BY <2>2 DEF Outcomes
  <2>3. st = "OK" => ~Reads(x) /\ ~Checked(x)
    BY <2>2 DEF Reads, Checked
  <2> QED
    BY <1>5, <1>8, <2>1, <2>3
<1>9. CASE st = "sent" /\ ~NeedsAnswer(x) /\ stack' = <<Calling(x, "OK")>> \o u
  <2>1. PICK ok \in Statuses : ok = "OK"
    BY FrameNames
  <2>2. ~Reads(x) /\ ~Checked(x)
    BY <1>9 DEF NeedsAnswer
  <2> QED
    BY <1>5, <1>9, <2>1, <2>2
<1> QED
  BY <1>6, <1>7, <1>8, <1>9

\* A callback that reports a timeout.
LEMMA OkTimeout ==
    ASSUME TypeOK, SocketInv, Expire \/ CloseCycle PROVE OkStep
<1>1. PICK st \in Statuses : st = "TIMEOUT"
  BY FrameNames
<1>2. CASE Expire
  <2>1. PICK c \in Cycles : c = Head(first)
    <3>1. first \in Seq(Cycles) /\ first # <<>>
      BY <1>2 DEF Expire, TypeOK
    <3> QED
      BY <3>1
  <2>2. PICK s \in Seq(FrameType) : s = stack
    BY DEF TypeOK
  <2>3. stack' = <<Calling(c, st)>> \o s
    BY <1>1, <1>2, <2>1, <2>2 DEF Expire
  <2>4. Head(stack').st = st
    BY <2>3, CallTop
  <2> QED
    BY <1>1, <2>4 DEF OkStep
<1>3. CASE CloseCycle
  <2>1. PICK d \in Devices : d = Top.d /\ Holds(Top, d) /\ stack # <<>>
    BY <1>3, FlushTop DEF CloseCycle
  <2>2. PICK c \in Cycles : c = Head(Top.todo)
    <3>1. Top.todo \in Seq(Cycles) /\ Top.todo # <<>>
      BY <1>3, FlushTop DEF CloseCycle
    <3> QED
      BY <3>1
  <2>3. PICK b \in Seq(FrameType) : b = Below
    BY <2>1, TopFacts
  <2> DEFINE k == Calling(c, st)
             g == [Top EXCEPT !.todo = Tail(@)]
  <2>4. stack' = <<k, g>> \o b
    BY <1>1, <1>3, <2>2, <2>3 DEF CloseCycle
  <2>5. k.st = st
    BY DEF Calling, Frame
  <2> HIDE DEF k, g
  <2>6. Head(<<k, g>> \o b) = k
    OBVIOUS
  <2> QED
    BY <1>1, <2>4, <2>5, <2>6 DEF OkStep
<1> QED
  BY <1>2, <1>3

\* No step tells EB_OK too early.
LEMMA OkAll ==
    ASSUME TypeOK, TypeOK', SocketInv, ~CloseHeld, Countable, ViewStep, [Next]_vars
    PROVE  OkStep
<1>1. CASE UNCHANGED vars
  BY <1>1, StepQuiet, OkUncalled
<1>2. CASE Client
  <2>1. CASE \/ \E c \in Cycles, d \in Devices, blk \in BOOLEAN : CycleOpen(c, d, blk)
             \/ \E c \in Cycles : CycleAbort(c)
             \/ \E c \in Cycles, check \in BOOLEAN : CycleClose(c, check)
    BY <2>1, StepCycles, OkUncalled
  <2>2. CASE (\E c \in Cycles, k \in OpKinds : DoOp(c, k)) \/ SocketTimeout \/ SocketClose
             \/ SocketOpen
    BY <2>2, StepQuiet, OkUncalled
  <2>3. CASE SocketRun \/ SocketCheck
    BY <2>3, StepLoop, OkUncalled
  <2>4. CASE \E d \in Devices : DeviceOpen(d) \/ DeviceClose(d)
    BY <2>4, StepDeviceOpen, StepDeviceClose, OkUncalled
  <2> QED
    BY <1>2, <2>1, <2>2, <2>3, <2>4 DEF Client
<1>3. CASE Library
  <2>1. CASE BlockRun \/ BlockReturn \/ RunWait \/ RunReturn \/ ExpireDone \/ TopDone
             \/ DeviceDone \/ FlushSkipped \/ OpenRun
    BY <2>1, StepLoop, OkUncalled
  <2>2. CASE CallbackReturn
    BY <2>2, StepReturn, OkUncalled
  <2>3. CASE Expire \/ CloseCycle
    BY <2>3, OkTimeout
  <2>4. CASE FlushCycle
    BY <2>4, OkFlush
  <2>5. CASE FlushBegin \/ FlushEnd
    BY <2>5, StepFlushBegin, StepFlushEnd, OkUncalled
  <2>6. CASE OpenOk \/ OpenFail \/ CloseEnd
    BY <2>6, StepOpenOk, StepDeviceClose, StepCloseEnd, OkUncalled
  <2> QED
    BY <1>3, <2>1, <2>2, <2>3, <2>4, <2>5, <2>6 DEF Library
<1>4. CASE Network
  BY <1>4, StepQuiet, OkAnswer, OkUncalled DEF Network
<1> QED
  BY <1>1, <1>2, <1>3, <1>4 DEF Next

\* EB_OK for a cycle that reads, or whose bus operations are checked, means that
\* the remote answered it (OkMeansAnswered): neither a full or broken flush, nor a timeout, nor a
\* closing device reports success for it.
THEOREM OkMeansAnsweredHolds ==
    ASSUME ~FlushReentry, ~CloseHeld, Countable PROVE Spec => OkMeansAnswered
<1>1. TypeOK /\ SocketInv /\ [Next]_vars => [OkStep]_vars
  BY SocketStep, OkAll DEF StepOK
<1> QED
  BY <1>1, SocketInvariant, PTL DEF Spec, OkMeansAnswered, OkStep
=============================================================================

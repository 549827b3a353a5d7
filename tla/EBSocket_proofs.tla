--------------------------- MODULE EBSocket_proofs ---------------------------
(* Proofs about cycles, devices and the event loop: types, what suspended   *)
(* calls may rely on, and that unready and the device list are exact.       *)
EXTENDS EBSocket, Lists_proofs, FiniteSetTheorems

-----------------------------------------------------------------------------
(* Frames and the stack *)

FrameOps == {"run", "check", "block", "cb"}
FramePcs == {"", "wait", "done", "expire", "top", "device", "next"}
Statuses == {"OK", "FAIL", "TIMEOUT", "SEGFAULT", "OOM", "WIDTH", "OVERFLOW"}

\* A new frame has its type, and no device, cycle or list.
LEMMA FrameTyped ==
    ASSUME NEW op \in FrameOps, NEW pc \in FramePcs \ {"device", "next"}
    PROVE  /\ Frame(op, pc) \in FrameType
           /\ Frame(op, pc).op = op /\ Frame(op, pc).pc = pc
           /\ Frame(op, pc).d = NoDev /\ Frame(op, pc).nxt = NoDev
           /\ Frame(op, pc).c = NoCycle /\ Frame(op, pc).todo = <<>>
<1>1. <<>> \in Seq(Cycles)
  OBVIOUS
<1> QED
  BY <1>1 DEF Frame, FrameType, FrameRecord, FrameOps, FramePcs

\* The frame of a callback has its type, its cycle and its status.
LEMMA CallingTyped ==
    ASSUME NEW c \in Cycles, NEW st \in Statuses
    PROVE  /\ Calling(c, st) \in FrameType
           /\ Calling(c, st).op = "cb" /\ Calling(c, st).pc = ""
           /\ Calling(c, st).d = NoDev /\ Calling(c, st).nxt = NoDev
           /\ Calling(c, st).c = c /\ Calling(c, st).st = st
<1>1. <<>> \in Seq(Cycles)
  OBVIOUS
<1> QED
  BY <1>1 DEF Calling, Frame, FrameType, FrameRecord, Statuses

\* The names of calls, places and statuses that the actions use.
LEMMA FrameNames ==
    /\ "run" \in FrameOps /\ "check" \in FrameOps /\ "block" \in FrameOps
    /\ \A pc \in {"", "wait", "done", "expire", "top"} : pc \in FramePcs \ {"device", "next"}
    /\ "OK" \in Statuses /\ "FAIL" \in Statuses /\ "TIMEOUT" \in Statuses /\ "SEGFAULT" \in Statuses
  BY DEF FrameOps, FramePcs, Statuses

\* The frames of a flush, a close and an open of a device.
LEMMA FlushFrameTyped ==
    ASSUME NEW d \in Devices, NEW todo \in Seq(Cycles)
    PROVE  \E f \in FrameType :
              /\ f = [Frame("flush", "") EXCEPT !.d = d, !.todo = todo]
              /\ f.op = "flush" /\ f.d = d /\ f.nxt = NoDev /\ f.todo = todo
<1>1. PICK g \in FrameRecord : g = Frame("flush", "") /\ g.op = "flush" /\ g.nxt = NoDev
  <2> DEFINE g == Frame("flush", "")
  <2>1. <<>> \in Seq(Cycles)
    OBVIOUS
  <2>2. g \in FrameRecord /\ g.op = "flush" /\ g.nxt = NoDev
    BY <2>1 DEF Frame, FrameRecord
  <2> HIDE DEF g
  <2> QED
    BY <2>2 DEF g
<1> DEFINE f == [g EXCEPT !.d = d, !.todo = todo]
<1>2. f \in FrameType /\ f.op = "flush" /\ f.d = d /\ f.nxt = NoDev /\ f.todo = todo
  BY <1>1 DEF FrameType, FrameRecord
<1>3. f = [Frame("flush", "") EXCEPT !.d = d, !.todo = todo]
  BY <1>1
<1> HIDE DEF f
<1> QED
  BY <1>2, <1>3

\* The frame of eb_device_close has its type.
LEMMA CloseFrameTyped ==
    ASSUME NEW d \in Devices, NEW todo \in Seq(Cycles)
    PROVE  \E f \in FrameType :
              /\ f = [Frame("close", "") EXCEPT !.d = d, !.todo = todo]
              /\ f.op = "close" /\ f.d = d /\ f.nxt = NoDev /\ f.todo = todo
<1>1. PICK g \in FrameRecord : g = Frame("close", "") /\ g.op = "close" /\ g.nxt = NoDev
  <2> DEFINE g == Frame("close", "")
  <2>1. <<>> \in Seq(Cycles)
    OBVIOUS
  <2>2. g \in FrameRecord /\ g.op = "close" /\ g.nxt = NoDev
    BY <2>1 DEF Frame, FrameRecord
  <2> HIDE DEF g
  <2> QED
    BY <2>2 DEF g
<1> DEFINE f == [g EXCEPT !.d = d, !.todo = todo]
<1>2. f \in FrameType /\ f.op = "close" /\ f.d = d /\ f.nxt = NoDev /\ f.todo = todo
  BY <1>1 DEF FrameType, FrameRecord
<1>3. f = [Frame("close", "") EXCEPT !.d = d, !.todo = todo]
  BY <1>1
<1> HIDE DEF f
<1> QED
  BY <1>2, <1>3

\* The frame of eb_device_open has its type.
LEMMA OpenFrameTyped ==
    ASSUME NEW d \in Devices
    PROVE  LET f == [Frame("open", "") EXCEPT !.d = d]
           IN  /\ f \in FrameType
               /\ f.op = "open" /\ f.pc = "" /\ f.d = d /\ f.nxt = NoDev
               /\ f.c = NoCycle /\ f.todo = <<>>
<1>1. <<>> \in Seq(Cycles)
  OBVIOUS
<1>2. PICK g \in FrameRecord : /\ g = Frame("open", "") /\ g.op = "open" /\ g.pc = "" /\ g.nxt = NoDev
                               /\ g.c = NoCycle /\ g.todo = <<>>
  <2> DEFINE g == Frame("open", "")
  <2>1. /\ g \in FrameRecord /\ g.op = "open" /\ g.pc = "" /\ g.nxt = NoDev
        /\ g.c = NoCycle /\ g.todo = <<>>
    BY <1>1 DEF Frame, FrameRecord
  <2> HIDE DEF g
  <2> QED
    BY <2>1 DEF g
<1>3. LET f == [g EXCEPT !.d = d]
      IN  /\ f \in FrameType
          /\ f.op = "open" /\ f.pc = "" /\ f.d = d /\ f.nxt = NoDev
          /\ f.c = NoCycle /\ f.todo = <<>>
  BY <1>2 DEF FrameType, FrameRecord
<1> QED
  BY <1>2, <1>3

\* The frame of a blocking eb_cycle_close.
LEMMA BlockFrameTyped ==
    ASSUME NEW c \in Cycles
    PROVE  LET f == [Frame("block", "") EXCEPT !.c = c]
           IN  /\ f \in FrameType
               /\ f.op = "block" /\ f.pc = "" /\ f.d = NoDev /\ f.nxt = NoDev
               /\ f.c = c /\ f.todo = <<>>
<1>1. <<>> \in Seq(Cycles)
  OBVIOUS
<1>2. PICK g \in FrameRecord : /\ g = Frame("block", "") /\ g.op = "block" /\ g.pc = "" /\ g.nxt = NoDev
                               /\ g.d = NoDev /\ g.todo = <<>>
  <2> DEFINE g == Frame("block", "")
  <2>1. /\ g \in FrameRecord /\ g.op = "block" /\ g.pc = "" /\ g.nxt = NoDev
        /\ g.d = NoDev /\ g.todo = <<>>
    BY <1>1 DEF Frame, FrameRecord
  <2> HIDE DEF g
  <2> QED
    BY <2>1 DEF g
<1>3. LET f == [g EXCEPT !.c = c]
      IN  /\ f \in FrameType
          /\ f.op = "block" /\ f.pc = "" /\ f.d = NoDev /\ f.nxt = NoDev
          /\ f.c = c /\ f.todo = <<>>
  BY <1>2 DEF FrameType, FrameRecord
<1> QED
  BY <1>2, <1>3

\* The frames with which eb_socket_check and eb_socket_run begin.
LEMMA CheckRunTyped ==
    /\ Check \in FrameType /\ Check.op = "check" /\ Check.pc = "expire"
    /\ Check.d = NoDev /\ Check.nxt = NoDev
    /\ Run \in FrameType /\ Run.op = "run" /\ Run.d = NoDev /\ Run.nxt = NoDev
  BY DEF Check, Run, Frame, FrameType, FrameRecord

\* The frames the event loop goes on with.
LEMMA LoopFramesTyped ==
    /\ Frame("run", "done") \in FrameType /\ Frame("run", "done").op = "run"
    /\ Frame("run", "done").d = NoDev /\ Frame("run", "done").nxt = NoDev
    /\ Frame("check", "top") \in FrameType /\ Frame("check", "top").op = "check"
    /\ Frame("check", "top").d = NoDev /\ Frame("check", "top").nxt = NoDev
<1>1. <<>> \in Seq(Cycles)
  OBVIOUS
<1> QED
  BY <1>1 DEF Frame, FrameType, FrameRecord

\* A stack that is not empty is its top and what is below it.
LEMMA TopFacts ==
    ASSUME TypeOK, stack # <<>>
    PROVE  /\ Top \in FrameType /\ Below \in Seq(FrameType)
           /\ stack = <<Top>> \o Below
           /\ Range(stack) = {Top} \cup Range(Below)
<1>1. stack \in Seq(FrameType)
  BY DEF TypeOK
<1> QED
  BY <1>1, HeadTail DEF Top, Below

\* The device that the loop over the connections comes to is listed.
LEMMA NextDeviceFacts ==
    ASSUME TypeOK, NEW d \in Devices
    PROVE  NextDevice(d) = NoDev \/ NextDevice(d) \in Range(devlist)
<1> DEFINE before == {i \in 1..(Len(devlist) - 1) : devlist[i] = d}
           i == CHOOSE i \in before : TRUE
<1>1. devlist \in Seq(Devices)
  BY DEF TypeOK
<1>2. CASE before = {}
  BY <1>2 DEF NextDevice
<1>3. CASE before # {}
  <2>1. i \in 1..(Len(devlist) - 1)
    BY <1>3
  <2>2. NextDevice(d) = devlist[i + 1]
    BY <1>3 DEF NextDevice
  <2> HIDE DEF i, before
  <2>3. i + 1 \in DOMAIN devlist
    BY <1>1, <2>1
  <2> QED
    BY <2>2, <2>3 DEF Range
<1> QED
  BY <1>2, <1>3

\* The frame of the loop over the devices has its type.
LEMMA AtDeviceTyped ==
    ASSUME TypeOK, NEW d \in Devices
    PROVE  /\ AtDevice(d) \in FrameType
           /\ AtDevice(d).op = "check" /\ AtDevice(d).pc = "device"
           /\ AtDevice(d).d = d /\ AtDevice(d).nxt = NextDevice(d)
<1>1. NextDevice(d) \in Devices \cup {NoDev}
  <2>1. Range(devlist) \subseteq Devices
    BY DEF TypeOK, Range
  <2> QED
    BY <2>1, NextDeviceFacts
<1>2. PICK n \in Devices \cup {NoDev} : n = NextDevice(d)
  BY <1>1
<1>3. Frame("check", "device") \in FrameRecord
      /\ Frame("check", "device").op = "check" /\ Frame("check", "device").pc = "device"
  BY DEF Frame, FrameRecord
<1>4. PICK f \in FrameRecord : f = Frame("check", "device") /\ f.op = "check" /\ f.pc = "device"
  BY <1>3
<1>5. /\ [f EXCEPT !.d = d, !.nxt = n] \in FrameType
      /\ [f EXCEPT !.d = d, !.nxt = n].op = "check" /\ [f EXCEPT !.d = d, !.nxt = n].pc = "device"
      /\ [f EXCEPT !.d = d, !.nxt = n].d = d /\ [f EXCEPT !.d = d, !.nxt = n].nxt = n
  BY <1>4 DEF FrameType, FrameRecord
<1> QED
  BY <1>2, <1>4, <1>5 DEF AtDevice

-----------------------------------------------------------------------------
(* Type correctness *)

\* The part of TypeOK about the cycles.
CycleTyped ==
    /\ cyc \in [Cycles -> CycleType]
    /\ \A c \in Cycles : cyc[c].dead => cyc[c].ops = {} /\ ~cyc[c].chk

\* A value for a cycle, with what CyclesOK says of it.
CycleOK(r) ==
    /\ r \in CycleType
    /\ r.dead => r.ops = {} /\ ~r.chk
    /\ r.st # "free" => r.dev \in Devices
    /\ r.chk => r.st = "closed" /\ r.ops # {}

\* A cycle is given a value that is right for a cycle.
LEMMA CycleUpdate ==
    ASSUME TypeOK, CyclesOK, NEW c \in Cycles, NEW new, CycleOK(new),
           cyc' = [cyc EXCEPT ![c] = new]
    PROVE  CycleTyped' /\ CyclesOK'
<1>1. cyc \in [Cycles -> CycleType]
  BY DEF TypeOK
<1>2. \A x \in Cycles : cyc'[x] = IF x = c THEN new ELSE cyc[x]
  BY <1>1
<1>3. \A x \in Cycles : CycleOK(cyc[x])
  BY <1>1 DEF TypeOK, CyclesOK, CycleOK
<1>4. \A x \in Cycles : CycleOK(cyc'[x])
  BY <1>2, <1>3
<1>5. cyc' \in [Cycles -> CycleType]
  BY <1>1 DEF CycleOK
<1> QED
  BY <1>4, <1>5 DEF CycleTyped, CyclesOK, CycleOK

\* No cycle changes.
LEMMA CycleSame ==
    ASSUME TypeOK, CyclesOK, cyc' = cyc
    PROVE  CycleTyped' /\ CyclesOK'
  BY DEF TypeOK, CycleTyped, CyclesOK

\* A free cycle is right.
LEMMA FreeCycleOK == CycleOK(FreeCycle) /\ FreeCycle.st = "free"
  BY DEF FreeCycle, CycleType, CycleOK

\* unready stays within its width.
LEMMA Counted ==
    ASSUME NEW x \in Int PROVE x % UnreadyMod \in 0..(UnreadyMod - 1)
<1>1. UnreadyMod \in Nat /\ UnreadyMod > 0
  BY SocketAssumption
<1> QED
  BY <1>1

\* The initial state has its types.
LEMMA TypeInit == Init => TypeOK /\ CyclesOK
<1> SUFFICES ASSUME Init PROVE TypeOK /\ CyclesOK
  OBVIOUS
<1>1. /\ cyc \in [Cycles -> CycleType]
      /\ \A c \in Cycles : CycleOK(cyc[c])
  BY FreeCycleOK DEF Init, CycleOK
<1>2. 0 \in 0..(UnreadyMod - 1)
  BY SocketAssumption
<1>3. CyclesOK
  BY <1>1 DEF CyclesOK, CycleOK
<1>4. \A c \in Cycles : cyc[c].dead => cyc[c].ops = {} /\ ~cyc[c].chk
  BY <1>1 DEF CycleOK
<1> QED
  BY <1>1, <1>2, <1>3, <1>4 DEF Init, TypeOK

\* The calls of cycle.c keep the types.
LEMMA TypeCycles ==
    ASSUME TypeOK, CyclesOK, NEW c \in Cycles,
           \/ \E d \in Devices, blk \in BOOLEAN : CycleOpen(c, d, blk)
           \/ \E k \in OpKinds : DoOp(c, k)
           \/ CycleAbort(c)
           \/ \E check \in BOOLEAN : CycleClose(c, check)
    PROVE  TypeOK' /\ CyclesOK'
<1> USE SocketAssumption
<1>0. PICK r \in CycleType : r = cyc[c] /\ CycleOK(r)
  BY DEF TypeOK, CyclesOK, CycleOK
<1>1. ASSUME NEW d \in Devices, NEW blk \in BOOLEAN, CycleOpen(c, d, blk)
      PROVE  TypeOK' /\ CyclesOK'
  <2> DEFINE new == [FreeCycle EXCEPT !.st = "open", !.dev = d, !.blk = blk]
  <2>1. CycleOK(new)
    BY DEF FreeCycle, CycleType, CycleOK
  <2> HIDE DEF new
  <2>2. cyc' = [cyc EXCEPT ![c] = new]
    BY <1>1 DEF CycleOpen, new
  <2>3. CycleTyped' /\ CyclesOK'
    BY <2>1, <2>2, CycleUpdate
  <2>4. unready' \in [Devices -> 0..(UnreadyMod - 1)]
    <3>1. unready[d] + 1 \in Int
      BY DEF TypeOK
    <3>2. unready' = [unready EXCEPT ![d] = (unready[d] + 1) % UnreadyMod]
      BY <1>1 DEF CycleOpen
    <3>3. PICK n \in 0..(UnreadyMod - 1) : n = (unready[d] + 1) % UnreadyMod
      BY <3>1, Counted
    <3> QED
      BY <3>2, <3>3 DEF TypeOK
  <2> QED
    BY <1>1, <2>3, <2>4 DEF CycleOpen, TypeOK, devVars, CycleTyped
<1>2. ASSUME NEW k \in OpKinds, DoOp(c, k) PROVE TypeOK' /\ CyclesOK'
  <2>1. CycleTyped' /\ CyclesOK'
    <3>1. CASE ~cyc[c].dead /\ cyc' = [cyc EXCEPT ![c].ops = @ \cup {k}]
      <4> DEFINE new == [r EXCEPT !.ops = r.ops \cup {k}]
      <4>1. CycleOK(new)
        BY <1>0, <3>1 DEF CycleOK, CycleType
      <4> HIDE DEF new
      <4>2. cyc' = [cyc EXCEPT ![c] = new]
        BY <1>0, <3>1 DEF new
      <4> QED
        BY <4>1, <4>2, CycleUpdate
    <3>2. CASE cyc' = [cyc EXCEPT ![c].ops = {}, ![c].dead = TRUE]
      <4> DEFINE new == [r EXCEPT !.ops = {}, !.dead = TRUE]
      <4>1. CycleOK(new)
        BY <1>0, <1>2 DEF CycleOK, CycleType, DoOp
      <4> HIDE DEF new
      <4>2. cyc' = [cyc EXCEPT ![c] = new]
        BY <1>0, <3>2 DEF new, TypeOK
      <4> QED
        BY <4>1, <4>2, CycleUpdate
    <3> QED
      BY <1>2, <3>1, <3>2 DEF DoOp
  <2> QED
    BY <1>2, <2>1 DEF DoOp, TypeOK, devVars, CycleTyped
<1>3. ASSUME CycleAbort(c) PROVE TypeOK' /\ CyclesOK'
  <2>1. CycleTyped' /\ CyclesOK'
    BY <1>3, FreeCycleOK, CycleUpdate DEF CycleAbort
  <2>2. unready' \in [Devices -> 0..(UnreadyMod - 1)]
    <3>1. unready[cyc[c].dev] - 1 \in Int
      BY <1>3 DEF TypeOK, CyclesOK, CycleAbort
    <3>2. unready' = [unready EXCEPT ![cyc[c].dev] = (unready[cyc[c].dev] - 1) % UnreadyMod]
      BY <1>3 DEF CycleAbort
    <3>3. PICK n \in 0..(UnreadyMod - 1) : n = (unready[cyc[c].dev] - 1) % UnreadyMod
      BY <3>1, Counted
    <3> QED
      BY <3>2, <3>3 DEF TypeOK
  <2> QED
    BY <1>3, <2>1, <2>2 DEF CycleAbort, TypeOK, devVars, CycleTyped
<1>4. ASSUME NEW check \in BOOLEAN, CycleClose(c, check) PROVE TypeOK' /\ CyclesOK'
  <2>0. cyc[c].st = "open" /\ cyc[c].dev \in Devices
    BY <1>4 DEF CycleClose, CyclesOK
  <2> DEFINE new == [r EXCEPT !.st = "closed", !.chk = check /\ cyc[c].ops # {}]
  <2>1. CycleOK(new)
    BY <1>0, <2>0 DEF CycleOK, CycleType
  <2> HIDE DEF new
  <2>2. cyc' = [cyc EXCEPT ![c] = new]
    BY <1>0, <1>4 DEF new, CycleClose, TypeOK
  <2>3. CycleTyped' /\ CyclesOK'
    BY <2>1, <2>2, CycleUpdate
  <2>4. unready' \in [Devices -> 0..(UnreadyMod - 1)]
    <3>1. unready[cyc[c].dev] - 1 \in Int
      BY <2>0 DEF TypeOK
    <3>2. unready' = [unready EXCEPT ![cyc[c].dev] = (unready[cyc[c].dev] - 1) % UnreadyMod]
      BY <1>4 DEF CycleClose
    <3>3. PICK n \in 0..(UnreadyMod - 1) : n = (unready[cyc[c].dev] - 1) % UnreadyMod
      BY <3>1, Counted
    <3> QED
      BY <3>2, <3>3 DEF TypeOK
  <2>5. ready' \in [Devices -> Seq(Cycles)]
    <3>1. PICK s \in Seq(Cycles) : s = ready[cyc[c].dev]
      BY <2>0 DEF TypeOK
    <3>2. <<c>> \o s \in Seq(Cycles)
      BY ConsFacts
    <3>3. ready' = [ready EXCEPT ![cyc[c].dev] = <<c>> \o s]
      BY <1>4, <3>1 DEF CycleClose
    <3> QED
      BY <3>2, <3>3 DEF TypeOK
  <2>6. stack' \in Seq(FrameType)
    <3>1. PICK f \in FrameType : f = Frame("block", "")
      BY FrameNames, FrameTyped
    <3>2. [f EXCEPT !.c = c] \in FrameType
      BY DEF FrameType, FrameRecord
    <3>3. <<[f EXCEPT !.c = c]>> \o stack \in Seq(FrameType)
      BY <3>2, ConsFacts DEF TypeOK
    <3> QED
      BY <1>4, <3>1, <3>3 DEF CycleClose, TypeOK
  <2> QED
    BY <1>4, <2>3, <2>4, <2>5, <2>6 DEF CycleClose, TypeOK, devVars, CycleTyped
<1> QED
  BY <1>1, <1>2, <1>3, <1>4

\* Steps of which only the stack remains to be typed.
LEMMA TypeStack ==
    ASSUME TypeOK, CyclesOK, UNCHANGED <<devVars, unready, ready, cyc, first, last>>,
           stack' \in Seq(FrameType)
    PROVE  TypeOK' /\ CyclesOK'
<1>1. CycleTyped' /\ CyclesOK'
  BY CycleSame
<1> QED
  BY <1>1 DEF TypeOK, devVars, CycleTyped

\* The event loop keeps the types.
LEMMA TypeLoop ==
    ASSUME TypeOK, CyclesOK,
           \/ SocketRun \/ SocketCheck \/ BlockRun \/ BlockReturn \/ RunReturn \/ OpenRun
           \/ ExpireDone \/ TopDone \/ DeviceDone \/ FlushSkipped \/ CloseCycle
    PROVE  TypeOK' /\ CyclesOK'
<1>0. UNCHANGED <<devVars, unready, ready, cyc, first, last>>
  BY DEF SocketRun, SocketCheck, BlockRun, BlockReturn, RunReturn, OpenRun,
         ExpireDone, TopDone, DeviceDone, FlushSkipped, CloseCycle
<1>1. stack \in Seq(FrameType) /\ Check \in FrameType /\ Run \in FrameType
  BY CheckRunTyped DEF TypeOK
<1>2. <<Check>> \o stack \in Seq(FrameType) /\ <<Check, Run>> \o stack \in Seq(FrameType)
  BY <1>1, ConsFacts, Cons2Facts
<1>3. CASE SocketRun \/ SocketCheck \/ BlockRun \/ OpenRun
  <2>1. stack' \in Seq(FrameType)
    BY <1>2, <1>3 DEF SocketRun, SocketCheck, BlockRun, OpenRun
  <2> QED
    BY <1>0, <2>1, TypeStack
<1>4. ASSUME stack # <<>>,
             BlockReturn \/ RunReturn \/ ExpireDone \/ TopDone \/ DeviceDone
             \/ FlushSkipped \/ CloseCycle
      PROVE  TypeOK' /\ CyclesOK'
  <2>1. PICK f \in FrameType : f = Top
    BY <1>4, TopFacts
  <2>2. Below \in Seq(FrameType)
    BY <1>4, TopFacts
  <2>3. \A g \in FrameType : <<g>> \o Below \in Seq(FrameType)
    BY <2>2, ConsFacts
  <2>4. CASE BlockReturn \/ RunReturn
    <3>1. stack' \in Seq(FrameType)
      BY <2>2, <2>4 DEF BlockReturn, RunReturn
    <3> QED
      BY <1>0, <3>1, TypeStack
  <2>5. CASE ExpireDone
    <3>1. stack' \in Seq(FrameType)
      BY <2>3, <2>5, FrameNames, FrameTyped DEF ExpireDone
    <3> QED
      BY <1>0, <3>1, TypeStack
  <2>6. CASE TopDone
    <3>1. devlist # <<>> => Head(devlist) \in Devices
      BY DEF TypeOK
    <3>2. stack' \in Seq(FrameType)
      BY <2>2, <2>3, <2>6, <3>1, AtDeviceTyped DEF TopDone
    <3> QED
      BY <1>0, <3>2, TypeStack
  <2>7. CASE DeviceDone
    <3>1. f.nxt # NoDev => f.nxt \in Devices
      BY DEF FrameType, FrameRecord
    <3>2. stack' \in Seq(FrameType)
      BY <2>1, <2>2, <2>3, <2>7, <3>1, AtDeviceTyped DEF DeviceDone
    <3> QED
      BY <1>0, <3>2, TypeStack
  <2>8. CASE FlushSkipped
    <3>0. f.op = "check" /\ f.pc = "device" /\ f.d \in Devices
      BY <2>1, <2>8 DEF FlushSkipped, Running, Top, FrameType
    <3>1. [f EXCEPT !.pc = "next"] \in FrameType
      BY <3>0 DEF FrameType, FrameRecord
    <3>2. stack' \in Seq(FrameType)
      BY <2>1, <2>3, <2>8, <3>1 DEF FlushSkipped
    <3> QED
      BY <1>0, <3>2, TypeStack
  <2>9. CASE CloseCycle
    <3>1. PICK s \in Seq(Cycles) : s = f.todo
      BY DEF FrameType, FrameRecord
    <3>2. s # <<>>
      BY <2>1, <2>9, <3>1 DEF CloseCycle
    <3>3. Head(s) \in Cycles /\ Tail(s) \in Seq(Cycles)
      BY <3>2
    <3>4. [f EXCEPT !.todo = Tail(s)] \in FrameType
      BY <3>3, ZenonT(60) DEF FrameType, FrameRecord
    <3>5. Calling(Head(s), "TIMEOUT") \in FrameType
      BY <3>3, FrameNames, CallingTyped
    <3>6. <<Calling(Head(s), "TIMEOUT"), [f EXCEPT !.todo = Tail(s)]>> \o Below \in Seq(FrameType)
      BY <2>2, <3>4, <3>5, Cons2Facts
    <3>7. stack' \in Seq(FrameType)
      BY <2>1, <2>9, <3>1, <3>6 DEF CloseCycle
    <3> QED
      BY <1>0, <3>7, TypeStack
  <2> QED
    BY <1>4, <2>4, <2>5, <2>6, <2>7, <2>8, <2>9
<1> QED
  BY <1>3, <1>4 DEF BlockReturn, RunReturn, ExpireDone, TopDone, DeviceDone, FlushSkipped,
                    CloseCycle, Running

\* Both response lists, and the two together, hold cycles.
LEMMA InflightTyped ==
    ASSUME TypeOK
    PROVE  /\ first \in Seq(Cycles) /\ last \in Seq(Cycles)
           /\ Reverse(last) \in Seq(Cycles) /\ Inflight \in Seq(Cycles)
<1>1. first \in Seq(Cycles) /\ last \in Seq(Cycles)
  BY DEF TypeOK
<1>2. PICK r \in Seq(Cycles) : r = Reverse(last)
  BY <1>1, ReverseFacts
<1>3. first \o r \in Seq(Cycles)
  BY <1>1
<1> QED
  BY <1>1, <1>2, <1>3 DEF Inflight

\* Waiting, time-outs and answers keep the types.
LEMMA TypeResponses ==
    ASSUME TypeOK, CyclesOK,
           \/ RunWait \/ SocketTimeout \/ Expire \/ UnmatchedAnswer
           \/ \E c \in Cycles, part \in {"value", "status"}, more, err \in BOOLEAN :
                 Answer(c, part, more, err)
    PROVE  TypeOK' /\ CyclesOK'
<1>0. /\ first \in Seq(Cycles) /\ last \in Seq(Cycles) /\ stack \in Seq(FrameType)
      /\ Reverse(last) \in Seq(Cycles) /\ <<>> \in Seq(Cycles) /\ Inflight \in Seq(Cycles)
  BY InflightTyped DEF TypeOK
<1>1. Flipped => first' \in Seq(Cycles) /\ last' \in Seq(Cycles)
  BY <1>0 DEF Flipped
<1>2. CASE RunWait
  <2>1. Below \in Seq(FrameType)
    BY <1>2, TopFacts DEF RunWait, Running
  <2>2. Frame("run", "done") \in FrameType /\ Check \in FrameType
    BY FrameNames, FrameTyped, CheckRunTyped
  <2>3. stack' \in Seq(FrameType)
    BY <1>2, <2>1, <2>2, Cons2Facts DEF RunWait
  <2>4. CycleTyped' /\ CyclesOK'
    BY <1>2, CycleSame DEF RunWait
  <2> QED
    BY <1>1, <1>2, <2>3, <2>4 DEF RunWait, TypeOK, devVars, CycleTyped
<1>3. CASE SocketTimeout
  <2>1. CycleTyped' /\ CyclesOK'
    BY <1>3, CycleSame DEF SocketTimeout
  <2> QED
    BY <1>1, <1>3, <2>1 DEF SocketTimeout, TypeOK, devVars, CycleTyped
<1>4. CASE Expire
  <2>1. Head(first) \in Cycles /\ Tail(first) \in Seq(Cycles)
    BY <1>0, <1>4 DEF Expire
  <2>2. Calling(Head(first), "TIMEOUT") \in FrameType
    BY <2>1, FrameNames, CallingTyped
  <2>3. stack' \in Seq(FrameType)
    BY <1>0, <1>4, <2>2, ConsFacts DEF Expire
  <2>4. CycleTyped' /\ CyclesOK'
    BY <1>4, CycleSame DEF Expire
  <2> QED
    BY <1>4, <2>1, <2>3, <2>4 DEF Expire, TypeOK, devVars, CycleTyped
<1>5. Walked(FALSE)[1] = Inflight /\ Walked(FALSE)[2] = <<>>
  BY DEF Walked, Inflight
<1>6. CASE UnmatchedAnswer
  <2>1. first' \in Seq(Cycles) /\ last' \in Seq(Cycles)
    <3>1. first' = Inflight /\ last' = <<>>
      BY <1>5, <1>6 DEF UnmatchedAnswer
    <3> QED
      BY <1>0, <3>1
  <2>2. CycleTyped' /\ CyclesOK'
    BY <1>6, CycleSame DEF UnmatchedAnswer
  <2> QED
    BY <1>6, <2>1, <2>2 DEF UnmatchedAnswer, TypeOK, devVars, CycleTyped
<1>7. ASSUME NEW c \in Cycles, NEW part \in {"value", "status"}, NEW more \in BOOLEAN,
             NEW err \in BOOLEAN, Answer(c, part, more, err)
      PROVE  TypeOK' /\ CyclesOK'
  <2> DEFINE w == Walked(c \in Range(first))
             fail == part \notin cyc[c].want
             left == IF more THEN cyc[c].want ELSE cyc[c].want \ {part}
             st == IF fail THEN "FAIL" ELSE IF err THEN "SEGFAULT" ELSE "OK"
  <2>1. w[1] \in Seq(Cycles) /\ w[2] \in Seq(Cycles)
    <3>1. CASE c \in Range(first)
      <4>1. w[1] = first /\ w[2] = last
        BY <3>1 DEF Walked
      <4> QED
        BY <1>0, <4>1
    <3>2. CASE c \notin Range(first)
      <4>1. w[1] = Inflight /\ w[2] = <<>>
        BY <3>2 DEF Walked, Inflight
      <4> QED
        BY <1>0, <4>1
    <3> QED
      BY <3>1, <3>2
  <2>2. /\ last' = w[2]
        /\ \/ /\ first' = Without(w[1], c)
              /\ stack' = <<Calling(c, st)>> \o stack
              /\ UNCHANGED cyc
           \/ /\ first' = w[1]
              /\ cyc' = [cyc EXCEPT ![c].want = left]
              /\ UNCHANGED stack
        /\ UNCHANGED <<devVars, unready, ready>>
    BY <1>7 DEF Answer
  <2>3. st \in Statuses
    BY FrameNames
  <2> HIDE DEF w, st
  <2>4. Without(w[1], c) \in Seq(Cycles)
    BY <2>1, FilterType DEF Without
  <2>5. <<Calling(c, st)>> \o stack \in Seq(FrameType)
    BY <1>0, <2>3, CallingTyped, ConsFacts
  <2>6. ASSUME cyc' = [cyc EXCEPT ![c].want = left] PROVE CycleTyped' /\ CyclesOK'
    <3>1. PICK r \in CycleType : r = cyc[c] /\ CycleOK(r)
      BY DEF TypeOK, CyclesOK, CycleOK
    <3> DEFINE new == [r EXCEPT !.want = left]
    <3>2. CycleOK(new)
      BY <3>1 DEF CycleOK, CycleType
    <3> HIDE DEF new
    <3>3. cyc' = [cyc EXCEPT ![c] = new]
      BY <2>6, <3>1 DEF new
    <3> QED
      BY <3>2, <3>3, CycleUpdate
  <2>7. CycleTyped' /\ CyclesOK'
    BY <2>2, <2>6, CycleSame
  <2> QED
    BY <1>0, <2>1, <2>2, <2>4, <2>5, <2>7 DEF TypeOK, devVars, CycleTyped
<1> QED
  BY <1>2, <1>3, <1>4, <1>6, <1>7

\* A cycle the flush does not send is given a status.
LEMMA OutcomesTyped ==
    ASSUME NEW c, NEW st \in Outcomes(c), st # "sent" PROVE st \in Statuses
<1>1. Outcomes(c) \subseteq {"OOM", "OK", "WIDTH", "OVERFLOW", "sent"}
  BY DEF Outcomes
<1> QED
  BY <1>1 DEF Statuses

\* The frames after a callback: the blocked caller knows the status.
Returned ==
    [i \in DOMAIN Below |->
        IF Below[i].op = "block" /\ Below[i].c = Top.c
        THEN [Below[i] EXCEPT !.c = NoCycle]
        ELSE Below[i]]

\* A callback that returns leaves the calls below as they are, except that a
\* blocked one has its status.
LEMMA ReturnTyped ==
    ASSUME TypeOK, stack # <<>>
    PROVE  /\ Returned \in Seq(FrameType)
           /\ DOMAIN Returned = DOMAIN Below
           /\ \A i \in DOMAIN Below :
                 /\ Returned[i].op = Below[i].op /\ Returned[i].pc = Below[i].pc
                 /\ Returned[i].d = Below[i].d /\ Returned[i].nxt = Below[i].nxt
                 /\ Returned[i].todo = Below[i].todo
                 /\ Below[i].op # "block" => Returned[i] = Below[i]
<1>1. Below \in Seq(FrameType)
  BY TopFacts
<1>2. PICK s \in Seq(FrameType) : s = Below
  BY <1>1
<1>3. ASSUME NEW i \in 1..Len(s)
      PROVE  /\ Returned[i] \in FrameType
             /\ Returned[i].op = s[i].op /\ Returned[i].pc = s[i].pc
             /\ Returned[i].d = s[i].d /\ Returned[i].nxt = s[i].nxt
             /\ Returned[i].todo = s[i].todo
             /\ s[i].op # "block" => Returned[i] = s[i]
  <2>1. PICK f \in FrameType : f = s[i]
    OBVIOUS
  <2>2. Returned[i] = IF f.op = "block" /\ f.c = Top.c THEN [f EXCEPT !.c = NoCycle] ELSE f
    BY <1>2, <2>1 DEF Returned
  <2>3. LET g == [f EXCEPT !.c = NoCycle]
        IN  /\ g \in FrameType /\ g.op = f.op /\ g.pc = f.pc /\ g.d = f.d
            /\ g.nxt = f.nxt /\ g.todo = f.todo
    BY DEF FrameType, FrameRecord
  <2> QED
    BY <2>1, <2>2, <2>3
<1>4. Len(s) \in Nat /\ DOMAIN s = 1..Len(s) /\ DOMAIN Returned = 1..Len(s)
  BY <1>2 DEF Returned
<1>5. Returned \in Seq(FrameType)
  <2>1. Returned = [i \in 1..Len(s) |-> Returned[i]]
    BY <1>2, <1>4 DEF Returned
  <2>2. \A i \in 1..Len(s) : Returned[i] \in FrameType
    BY <1>3
  <2>3. [i \in 1..Len(s) |-> Returned[i]] \in [1..Len(s) -> FrameType]
    BY <2>2
  <2> HIDE DEF Returned
  <2>4. Returned \in [1..Len(s) -> FrameType]
    BY <2>1, <2>3
  <2> QED
    BY <1>4, <2>4
<1> QED
  BY <1>2, <1>3, <1>4, <1>5

\* The flush and the return of a callback keep the types.
LEMMA TypeFlush ==
    ASSUME TypeOK, CyclesOK, FlushBegin \/ FlushCycle \/ FlushEnd \/ CallbackReturn
    PROVE  TypeOK' /\ CyclesOK'
<1>0. stack # <<>>
  BY DEF FlushBegin, FlushCycle, FlushEnd, CallbackReturn, Running
<1>1. PICK f \in FrameType : f = Top
  BY <1>0, TopFacts
<1>2. Below \in Seq(FrameType)
  BY <1>0, TopFacts
<1>3. CASE FlushBegin
  <2>1. f.op = "check" /\ f.pc = "device" /\ f.d \in Devices
    BY <1>1, <1>3 DEF FlushBegin, Running, Top, FrameType
  <2>2. PICK todo \in Seq(Cycles) : todo = Reverse(ready[f.d])
    BY <2>1, ReverseFacts DEF TypeOK
  <2>3. PICK g \in FrameType :
           /\ g = [Frame("flush", "") EXCEPT !.d = f.d, !.todo = todo]
           /\ g.op = "flush" /\ g.d = f.d /\ g.nxt = NoDev /\ g.todo = todo
    BY <2>1, FlushFrameTyped, ZenonT(60)
  <2>5. [f EXCEPT !.pc = "next"] \in FrameType
    BY <2>1 DEF FrameType, FrameRecord
  <2>6. <<g, [f EXCEPT !.pc = "next"]>> \o Below \in Seq(FrameType)
    BY <1>2, <2>5, Cons2Facts
  <2>7. stack' \in Seq(FrameType)
    BY <1>1, <1>3, <2>2, <2>3, <2>6 DEF FlushBegin
  <2>8. ready' \in [Devices -> Seq(Cycles)]
    <3>1. <<>> \in Seq(Cycles)
      OBVIOUS
    <3> QED
      BY <1>3, <3>1 DEF FlushBegin, TypeOK
  <2>9. CycleTyped' /\ CyclesOK'
    BY <1>3, CycleSame DEF FlushBegin
  <2> QED
    BY <1>3, <2>7, <2>8, <2>9 DEF FlushBegin, TypeOK, devVars, CycleTyped
<1>4. CASE FlushCycle
  <2>1. PICK s \in Seq(Cycles) : s = f.todo
    BY DEF FrameType, FrameRecord
  <2>2. s # <<>> /\ f.op = "flush"
    BY <1>1, <1>4, <2>1 DEF FlushCycle, Running, Top
  <2>3. PICK c \in Cycles : c = Head(s)
    BY <2>2
  <2>4. Tail(s) \in Seq(Cycles)
    BY <2>2
  <2>5. PICK g \in FrameType : g = [f EXCEPT !.todo = Tail(s)]
    BY <2>2, <2>4 DEF FrameType, FrameRecord
  <2>6. PICK rest \in Seq(FrameType) : rest = <<g>> \o Below
    BY <1>2, ConsFacts
  <2>7. PICK st \in Outcomes(c) :
           \/ /\ st # "sent"
              /\ stack' = <<Calling(c, st)>> \o rest
              /\ UNCHANGED <<cyc, last>>
           \/ /\ st = "sent" /\ ~NeedsAnswer(c)
              /\ stack' = <<Calling(c, "OK")>> \o rest
              /\ cyc' = [cyc EXCEPT ![c].sent = TRUE]
              /\ UNCHANGED last
           \/ /\ st = "sent" /\ NeedsAnswer(c)
              /\ stack' = rest
              /\ cyc' = [cyc EXCEPT ![c].sent = TRUE,
                            ![c].want = {p \in {"value", "status"} :
                                           \/ p = "value" /\ Reads(c)
                                           \/ p = "status" /\ Checked(c)}]
              /\ last' = <<c>> \o last
    BY <1>1, <1>4, <2>1, <2>3, <2>5, <2>6 DEF FlushCycle
  <2>8. \A x \in Statuses : <<Calling(c, x)>> \o rest \in Seq(FrameType)
    BY CallingTyped, ConsFacts
  <2>9. stack' \in Seq(FrameType)
    BY <2>7, <2>8, FrameNames, OutcomesTyped
  <2>10. last' \in Seq(Cycles)
    <3>1. last \in Seq(Cycles)
      BY DEF TypeOK
    <3>2. <<c>> \o last \in Seq(Cycles)
      BY <3>1, ConsFacts
    <3> QED
      BY <2>7, <3>1, <3>2
  <2>11. CycleTyped' /\ CyclesOK'
    <3>1. PICK r \in CycleType : r = cyc[c] /\ CycleOK(r)
      BY DEF TypeOK, CyclesOK, CycleOK
    <3> DEFINE want == {p \in {"value", "status"} :
                          \/ p = "value" /\ Reads(c)
                          \/ p = "status" /\ Checked(c)}
               sent == [r EXCEPT !.sent = TRUE]
               asked == [r EXCEPT !.sent = TRUE, !.want = want]
    <3>2. CycleOK(sent)
      BY <3>1 DEF CycleOK, CycleType
    <3>3. want \in SUBSET {"value", "status"}
      OBVIOUS
    <3> HIDE DEF want
    <3>4. CycleOK(asked)
      BY <3>1, <3>3 DEF CycleOK, CycleType
    <3>5. \/ cyc' = cyc
          \/ cyc' = [cyc EXCEPT ![c] = sent]
          \/ cyc' = [cyc EXCEPT ![c] = asked]
      BY <2>7, <3>1 DEF want, TypeOK
    <3> HIDE DEF sent, asked
    <3> QED
      BY <3>2, <3>4, <3>5, CycleUpdate, CycleSame
  <2>12. UNCHANGED <<devVars, unready, ready, first>>
    BY <1>4 DEF FlushCycle
  <2> QED
    BY <2>9, <2>10, <2>11, <2>12 DEF TypeOK, devVars, CycleTyped
<1>5. CASE FlushEnd
  <2>1. ready' \in [Devices -> Seq(Cycles)]
    <3>1. <<>> \in Seq(Cycles)
      OBVIOUS
    <3> QED
      BY <1>5, <3>1 DEF FlushEnd, TypeOK
  <2>2. CycleTyped' /\ CyclesOK'
    BY <1>5, CycleSame DEF FlushEnd
  <2> QED
    BY <1>2, <1>5, <2>1, <2>2 DEF FlushEnd, TypeOK, devVars, CycleTyped
<1>6. CASE CallbackReturn
  <2>1. CycleTyped' /\ CyclesOK'
    <3>1. CASE f.c \in Cycles
      BY <1>1, <1>6, <3>1, FreeCycleOK, CycleUpdate DEF CallbackReturn
    <3>2. CASE f.c \notin Cycles
      <4>1. cyc' = cyc
        BY <1>1, <1>6, <3>2 DEF CallbackReturn, TypeOK
      <4> QED
        BY <4>1, CycleSame
    <3> QED
      BY <3>1, <3>2
  <2>2. stack' \in Seq(FrameType)
    BY <1>0, <1>6, ReturnTyped DEF CallbackReturn, Returned
  <2> QED
    BY <1>6, <2>1, <2>2 DEF CallbackReturn, TypeOK, devVars, CycleTyped
<1> QED
  BY <1>3, <1>4, <1>5, <1>6

\* The calls of device.c and the opening and closing of the socket keep the types.
LEMMA TypeDevices ==
    ASSUME TypeOK, CyclesOK,
           \/ \E d \in Devices : DeviceOpen(d) \/ DeviceClose(d)
           \/ OpenOk \/ OpenFail \/ CloseEnd \/ LinkBreak \/ SocketClose \/ SocketOpen
    PROVE  TypeOK' /\ CyclesOK'
<1>0. CycleTyped' /\ CyclesOK'
  BY CycleSame DEF DeviceOpen, DeviceClose, OpenOk, OpenFail, CloseEnd, LinkBreak, SocketClose,
                   SocketOpen
<1>1. stack \in Seq(FrameType) /\ devlist \in Seq(Devices) /\ <<>> \in Seq(Cycles)
  BY DEF TypeOK
<1>2. ASSUME NEW d \in Devices, DeviceOpen(d) PROVE TypeOK'
  <2>1. PICK g \in FrameType : g = [Frame("open", "") EXCEPT !.d = d]
    BY OpenFrameTyped
  <2>2. <<g>> \o stack \in Seq(FrameType)
    BY <1>1, ConsFacts
  <2>3. <<d>> \o devlist \in Seq(Devices)
    BY <1>1, ConsFacts
  <2> QED
    BY <1>0, <1>2, <2>1, <2>2, <2>3 DEF DeviceOpen, TypeOK, CycleTyped
<1>3. ASSUME NEW d \in Devices, NEW frames \in Seq(FrameType), Close(d, frames),
             UNCHANGED <<sockOpen, devlist, link, unready, cyc>>
      PROVE  TypeOK'
  <2>1. PICK a \in Seq(Cycles) : a = OfDevice(Inflight, d)
    BY InflightTyped, FilterType DEF OfDevice
  <2>2. PICK b \in Seq(Cycles) : b = Reverse(ready[d])
    BY ReverseFacts DEF TypeOK
  <2>3. a \o b \in Seq(Cycles)
    OBVIOUS
  <2>4. PICK todo \in Seq(Cycles) : todo = OfDevice(Inflight, d) \o Reverse(ready[d])
    BY <2>1, <2>2, <2>3
  <2>5. PICK g \in FrameType :
           /\ g = [Frame("close", "") EXCEPT !.d = d, !.todo = todo]
           /\ g.op = "close" /\ g.d = d /\ g.nxt = NoDev /\ g.todo = todo
    BY CloseFrameTyped
  <2>6. <<g>> \o frames \in Seq(FrameType)
    BY ConsFacts
  <2>7. stack' \in Seq(FrameType)
    BY <1>3, <2>4, <2>5, <2>6 DEF Close
  <2>8. first' \in Seq(Cycles)
    BY <1>3, InflightTyped, FilterType DEF Close
  <2> QED
    BY <1>0, <1>1, <1>3, <2>7, <2>8 DEF Close, TypeOK, CycleTyped
<1>4. ASSUME NEW d \in Devices, DeviceClose(d) PROVE TypeOK'
  BY <1>1, <1>3, <1>4 DEF DeviceClose
<1>5. ASSUME OpenFail PROVE TypeOK'
  <2>1. Below \in Seq(FrameType) /\ Top.d \in Devices
    BY <1>5, TopFacts DEF OpenFail, Running, Top, FrameType
  <2> QED
    BY <1>3, <1>5, <2>1 DEF OpenFail
<1>6. ASSUME OpenOk \/ CloseEnd PROVE TypeOK'
  <2>1. Below \in Seq(FrameType)
    BY <1>6, TopFacts DEF OpenOk, CloseEnd, Running
  <2>2. Filter(devlist, Devices \ {Top.d}) \in Seq(Devices)
    BY <1>1, FilterType
  <2> QED
    BY <1>0, <1>6, <2>1, <2>2 DEF OpenOk, CloseEnd, TypeOK, CycleTyped
<1>7. ASSUME LinkBreak \/ SocketClose \/ SocketOpen PROVE TypeOK'
  BY <1>0, <1>1, <1>7 DEF LinkBreak, SocketClose, SocketOpen, TypeOK, CycleTyped
<1> QED
  BY <1>0, <1>2, <1>4, <1>5, <1>6, <1>7

\* Every step keeps the types.
LEMMA TypeStep ==
    ASSUME TypeOK, CyclesOK, [Next]_vars PROVE TypeOK' /\ CyclesOK'
<1>1. CASE UNCHANGED vars
  <2>1. stack' \in Seq(FrameType)
    BY <1>1 DEF vars, TypeOK
  <2> QED
    BY <1>1, <2>1, TypeStack DEF vars, devVars
<1>2. CASE Next
  BY <1>2, TypeCycles, TypeLoop, TypeResponses, TypeFlush, TypeDevices
     DEF Next, Client, Library, Network
<1> QED
  BY <1>1, <1>2

\* TypeOK, for every number of devices and cycles: every list holds cycles,
\* every suspended call that uses a device has one, and a cycle that ran out
\* of memory keeps no operations (cycle.c).
THEOREM TypeCorrect == Spec => []TypeOK
<1>1. Init => TypeOK /\ CyclesOK
  BY TypeInit
<1>2. TypeOK /\ CyclesOK /\ [Next]_vars => TypeOK' /\ CyclesOK'
  BY TypeStep
<1> QED
  BY <1>1, <1>2, PTL DEF Spec


-----------------------------------------------------------------------------
(* The stack *)

OverRel == {p \in FrameType \X FrameType : Over(p[1], p[2])}

\* StackOK for a list of frames.
Sound(s) == (\A f \in Range(s) : FrameOK(f)) /\ Ordered(s, OverRel)

\* No flush and no close is suspended in s.
Quiet(s) == \A f \in Range(s) : f.op \notin {"flush", "close"}

\* StackOK is soundness of the stack.
LEMMA StackIsSound == StackOK <=> Sound(stack)
  BY DEF StackOK, Sound, OverRel

\* The elements of a list of frames are frames.
LEMMA FramesOf ==
    ASSUME NEW s \in Seq(FrameType) PROVE Range(s) \subseteq FrameType
  BY DEF Range

\* A frame on top of an ordered stack must be allowed over each below.
LEMMA OverCons ==
    ASSUME NEW f \in FrameType, NEW s \in Seq(FrameType)
    PROVE  Ordered(<<f>> \o s, OverRel)
              <=> Ordered(s, OverRel) /\ \A g \in Range(s) : Over(f, g)
<1>1. Ordered(<<f>> \o s, OverRel)
         <=> Ordered(s, OverRel) /\ \A g \in Range(s) : <<f, g>> \in OverRel
  BY OrderedCons
<1>2. \A g \in FrameType : <<f, g>> \in OverRel <=> Over(f, g)
  BY DEF OverRel
<1> QED
  BY <1>1, <1>2, FramesOf

\* The frame that runs and the ones below it.
LEMMA TopSound ==
    ASSUME TypeOK, StackOK, stack # <<>>
    PROVE  /\ FrameOK(Top) /\ Sound(Below)
           /\ \A g \in Range(Below) : Over(Top, g)
           /\ Top.op \notin {"cb", "close"} => Quiet(Below)
<1>1. PICK f \in FrameType : f = Top
  BY TopFacts
<1>2. PICK b \in Seq(FrameType) : b = Below
  BY TopFacts
<1>3. stack = <<f>> \o b /\ Range(stack) = {f} \cup Range(b)
  BY <1>1, <1>2, TopFacts
<1>4. Ordered(b, OverRel) /\ \A g \in Range(b) : Over(f, g)
  BY <1>3, OverCons DEF StackOK, OverRel
<1>5. FrameOK(f) /\ \A g \in Range(b) : FrameOK(g)
  BY <1>3 DEF StackOK
<1>6. f.op \notin {"cb", "close"} => Quiet(b)
  BY <1>4 DEF Quiet, Over
<1> QED
  BY <1>1, <1>2, <1>4, <1>5, <1>6 DEF Sound

\* A right frame on a sound stack that allows it gives a sound stack.
LEMMA Pushed ==
    ASSUME NEW s \in Seq(FrameType), NEW f \in FrameType, Sound(s)', FrameOK(f)',
           \A g \in Range(s) : Over(f, g)
    PROVE  Sound(<<f>> \o s)'
<1>1. Range(<<f>> \o s) = {f} \cup Range(s)
  BY ConsFacts
<1>2. Ordered(<<f>> \o s, OverRel)
  BY OverCons DEF Sound
<1> QED
  BY <1>1, <1>2 DEF Sound

\* A sound next stack is right.
LEMMA StackSound ==
    ASSUME NEW s \in Seq(FrameType), stack' = s, Sound(s)' PROVE StackOK'
  BY DEF StackOK, Sound, OverRel

\* A frame stays right while its devices keep their state.
LEMMA FrameKept ==
    ASSUME NEW f \in FrameType, FrameOK(f),
           \A d \in Devices : d \in {f.d, f.nxt} => devst'[d] = devst[d],
           f.op = "flush" => ready'[f.d] = <<>> \/ ready'[f.d] = ready[f.d]
    PROVE  FrameOK(f)'
<1>1. f.d \in Devices \cup {NoDev} /\ f.nxt \in Devices \cup {NoDev}
  BY DEF FrameType, FrameRecord
<1>2. f.op \in {"flush", "close", "open"} => f.d \in Devices
  BY DEF FrameType
<1> QED
  BY <1>1, <1>2 DEF FrameOK

\* A stack stays sound while no device changes its state and nothing is
\* queued behind a flush.
LEMMA SoundKept ==
    ASSUME NEW s \in Seq(FrameType), Sound(s), devst' = devst,
           \A f \in Range(s) :
               f.op = "flush" => ready'[f.d] = <<>> \/ ready'[f.d] = ready[f.d]
    PROVE  Sound(s)'
<1>1. ASSUME NEW f \in Range(s) PROVE FrameOK(f)'
  BY FramesOf, FrameKept DEF Sound
<1> QED
  BY <1>1 DEF Sound

\* A step about a device that none of the frames refers to.
LEMMA SoundElsewhere ==
    ASSUME NEW s \in Seq(FrameType), Sound(s), NEW d \in Devices,
           \A x \in Devices : x # d => devst'[x] = devst[x],
           \A x \in Devices : ready'[x] = ready[x] \/ ready'[x] = <<>>,
           \A f \in Range(s) : d \notin {f.d, f.nxt}
    PROVE  Sound(s)'
<1>1. ASSUME NEW f \in Range(s) PROVE FrameOK(f)'
  <2>1. f \in FrameType /\ FrameOK(f)
    BY FramesOf DEF Sound
  <2>2. \A x \in Devices : x \in {f.d, f.nxt} => devst'[x] = devst[x]
    OBVIOUS
  <2>3. f.op = "flush" => ready'[f.d] = <<>> \/ ready'[f.d] = ready[f.d]
    BY <2>1 DEF FrameType
  <2> QED
    BY <2>1, <2>2, <2>3, FrameKept
<1> QED
  BY <1>1 DEF Sound

\* Calls that may run above a quiet stack.
LEMMA OverQuiet ==
    ASSUME NEW f, NEW s, Quiet(s), f.op \notin {"open", "close"}
    PROVE  \A g \in Range(s) : Over(f, g)
  BY DEF Quiet, Over

\* A callback may run above anything.
LEMMA OverCallback ==
    ASSUME NEW f, NEW s, f.op = "cb" PROVE \A g \in Range(s) : Over(f, g)
  BY DEF Over

\* A frame that has no device.
LEMMA PlainFrame ==
    ASSUME NEW f \in FrameType, f.op \in {"run", "check", "block", "cb"},
           f.d = NoDev, f.nxt = NoDev
    PROVE  FrameOK(f)'
  BY DEF FrameOK

\* What is not suspended is not on the stack.
LEMMA SuspendedNone ==
    ASSUME NEW op, Suspended(op) = {}, NEW f \in Range(stack) PROVE f.op # op
  BY DEF Suspended, Range

\* eb_socket_run is called only when no flush and no close is suspended.
LEMMA MayRunQuiet == MayRun => Quiet(stack)
  BY SuspendedNone DEF MayRun, Quiet

\* Neither stack, devices nor queues change.
LEMMA StackSame ==
    ASSUME StackOK, UNCHANGED <<devst, ready, stack>> PROVE StackOK'
  BY DEF StackOK, FrameOK

\* Steps that only push or replace frames.
LEMMA SoundSame ==
    ASSUME NEW s \in Seq(FrameType), Sound(s), UNCHANGED <<devst, ready>> PROVE Sound(s)'
  BY SoundKept

\* A call is made.
LEMMA StackPush ==
    ASSUME NEW s \in Seq(FrameType), Sound(s), UNCHANGED <<devst, ready>>, NEW f \in FrameType,
           FrameOK(f)', \A g \in Range(s) : Over(f, g), stack' = <<f>> \o s
    PROVE  StackOK'
<1>1. Sound(<<f>> \o s)'
  BY SoundSame, Pushed
<1>2. <<f>> \o s \in Seq(FrameType)
  BY ConsFacts
<1> QED
  BY <1>1, <1>2, StackSound

\* A call is made that makes another.
LEMMA StackPush2 ==
    ASSUME NEW s \in Seq(FrameType), Sound(s)', NEW f \in FrameType, NEW e \in FrameType,
           FrameOK(f)', FrameOK(e)', \A g \in Range(s) : Over(f, g) /\ Over(e, g), Over(e, f),
           stack' = <<e, f>> \o s
    PROVE  StackOK'
<1>1. PICK t \in Seq(FrameType) : t = <<f>> \o s /\ Range(t) = {f} \cup Range(s)
  BY ConsFacts
<1>2. Sound(t)'
  <2>1. Sound(<<f>> \o s)'
    BY Pushed
  <2> QED
    BY <1>1, <2>1 DEF Sound
<1>3. Sound(<<e>> \o t)'
  BY <1>1, <1>2, Pushed
<1>4. stack' = <<e>> \o t
  BY <1>1, Cons2Facts, SMTT(40)
<1>5. <<e>> \o t \in Seq(FrameType)
  BY ConsFacts
<1> QED
  BY <1>3, <1>4, <1>5, StackSound

\* eb_socket_run starts with a check.
LEMMA StackRun ==
    ASSUME NEW s \in Seq(FrameType), Sound(s), Quiet(s), UNCHANGED <<devst, ready>>,
           NEW r \in FrameType, r.op = "run", r.d = NoDev, r.nxt = NoDev,
           stack' = <<Check, r>> \o s
    PROVE  StackOK'
<1>1. PICK k \in FrameType : k = Check /\ k.op = "check" /\ k.d = NoDev /\ k.nxt = NoDev
  BY CheckRunTyped
<1>2. FrameOK(r)' /\ FrameOK(k)'
  BY <1>1, PlainFrame
<1>3. \A g \in Range(s) : Over(r, g) /\ Over(k, g)
  BY <1>1, OverQuiet
<1>4. Over(k, r)
  BY <1>1 DEF Over
<1> QED
  BY <1>1, <1>2, <1>3, <1>4, SoundSame, StackPush2

\* A callback is made.
LEMMA StackCall ==
    ASSUME NEW s \in Seq(FrameType), Sound(s), UNCHANGED <<devst, ready>>,
           NEW c \in Cycles, NEW st \in Statuses, stack' = <<Calling(c, st)>> \o s
    PROVE  StackOK'
<1> DEFINE k == Calling(c, st)
<1>1. k \in FrameType /\ k.op = "cb" /\ k.d = NoDev /\ k.nxt = NoDev
  <2>1. k \in FrameType
    BY CallingTyped
  <2>2. k.op = "cb"
    BY CallingTyped, ZenonT(60)
  <2>3. k.d = NoDev
    BY DEF Calling, Frame
  <2>4. k.nxt = NoDev
    BY DEF Calling, Frame
  <2> QED
    BY <2>1, <2>2, <2>3, <2>4
<1>2. stack' = <<k>> \o s
  OBVIOUS
<1> HIDE DEF k
<1> QED
  BY <1>1, <1>2, PlainFrame, OverCallback, StackPush

\* A call returns.
LEMMA StackPop ==
    ASSUME TypeOK, StackOK, stack # <<>>, UNCHANGED <<devst, ready>>, stack' = Below
    PROVE  StackOK'
<1>1. PICK b \in Seq(FrameType) : b = Below
  BY TopFacts
<1>2. Sound(b)
  BY <1>1, TopSound
<1> QED
  BY <1>1, <1>2, SoundSame, StackSound

\* The event loop keeps the stack right.
LEMMA StackLoop ==
    ASSUME TypeOK, StackOK, DevicesOK,
           \/ SocketRun \/ SocketCheck \/ BlockRun \/ BlockReturn \/ RunWait \/ RunReturn
           \/ OpenRun \/ ExpireDone \/ TopDone \/ DeviceDone \/ FlushSkipped
    PROVE  StackOK'
<1>0. UNCHANGED <<devst, ready>> /\ stack \in Seq(FrameType) /\ Sound(stack)
  BY StackIsSound
     DEF SocketRun, SocketCheck, BlockRun, BlockReturn, RunWait, RunReturn, OpenRun,
         ExpireDone, TopDone, DeviceDone, FlushSkipped, devVars, TypeOK
<1>1. CASE SocketRun \/ BlockRun \/ OpenRun
  <2>1. Quiet(stack)
    <3>1. CASE SocketRun
      BY <3>1, MayRunQuiet DEF SocketRun
    <3>2. CASE BlockRun \/ OpenRun
      <4>1. stack # <<>> /\ Top.op \in {"block", "open"}
        BY <3>2 DEF BlockRun, OpenRun, Running, Top
      <4>2. Quiet(Below) /\ Range(stack) = {Top} \cup Range(Below)
        BY <4>1, TopFacts, TopSound
      <4> QED
        BY <4>1, <4>2 DEF Quiet
    <3> QED
      BY <1>1, <3>1, <3>2
  <2>2. stack' = <<Check, Run>> \o stack
    BY <1>1 DEF SocketRun, BlockRun, OpenRun
  <2> QED
    BY <1>0, <2>1, <2>2, StackRun, CheckRunTyped
<1>2. CASE SocketCheck
  <2>1. PICK k \in FrameType : k = Check /\ k.op = "check" /\ k.d = NoDev /\ k.nxt = NoDev
    BY CheckRunTyped
  <2>2. FrameOK(k)'
    BY <2>1, PlainFrame
  <2>3. \A g \in Range(stack) : Over(k, g)
    BY <1>2, <2>1, OverQuiet, MayRunQuiet DEF SocketCheck
  <2>4. PICK s \in Seq(FrameType) : s = stack
    BY <1>0
  <2>5. stack' = <<k>> \o s /\ Sound(s) /\ \A g \in Range(s) : Over(k, g)
    BY <1>0, <1>2, <2>1, <2>3, <2>4 DEF SocketCheck
  <2> QED
    BY <1>0, <2>2, <2>5, StackPush
<1>3. CASE BlockReturn \/ RunReturn
  BY <1>0, <1>3, StackPop DEF BlockReturn, RunReturn, Running
<1>4. ASSUME RunWait \/ ExpireDone \/ TopDone \/ DeviceDone \/ FlushSkipped PROVE StackOK'
  <2>1. stack # <<>> /\ Top.op \in {"run", "check"}
    BY <1>4 DEF RunWait, ExpireDone, TopDone, DeviceDone, FlushSkipped, Running, Top
  <2>2. PICK b \in Seq(FrameType) : b = Below
    BY <2>1, TopFacts
  <2>3. Sound(b) /\ Quiet(b)
    BY <2>1, <2>2, TopSound
  <2>4. PICK f \in FrameType : f = Top /\ FrameOK(f)
    BY <2>1, TopFacts, TopSound
  <2>5. ASSUME NEW k \in FrameType, k.op = "check", FrameOK(k)', stack' = <<k>> \o b
        PROVE  StackOK'
    BY <1>0, <2>3, <2>5, OverQuiet, StackPush
  <2>6. ASSUME NEW d \in Range(devlist), stack' = <<AtDevice(d)>> \o b
        PROVE  StackOK'
    <3>1. d \in Devices /\ devst[d] # "free"
      BY DEF DevicesOK
    <3>2. PICK k \in FrameType : /\ k = AtDevice(d) /\ k.op = "check"
                                 /\ k.d = d /\ k.nxt = NextDevice(d)
      BY <3>1, AtDeviceTyped
    <3>3. k.nxt # NoDev => devst[k.nxt] # "free"
      BY <3>1, <3>2, NextDeviceFacts DEF DevicesOK
    <3>4. FrameOK(k)'
      BY <1>0, <3>1, <3>2, <3>3 DEF FrameOK
    <3> QED
      BY <2>5, <2>6, <3>2, <3>4
  <2>7. CASE RunWait
    <3>1. Frame("run", "done") \in FrameType /\ Frame("run", "done").op = "run"
          /\ Frame("run", "done").d = NoDev /\ Frame("run", "done").nxt = NoDev
      BY LoopFramesTyped
    <3>2. stack' = <<Check, Frame("run", "done")>> \o b
      BY <2>2, <2>7 DEF RunWait
    <3> QED
      BY <1>0, <2>3, <3>1, <3>2, StackRun
  <2>8. CASE ExpireDone
    <3>1. PICK k \in FrameType : /\ k = Frame("check", "top") /\ k.op = "check"
                                 /\ k.d = NoDev /\ k.nxt = NoDev
      BY LoopFramesTyped
    <3>2. FrameOK(k)' /\ stack' = <<k>> \o b
      BY <2>2, <2>8, <3>1, PlainFrame DEF ExpireDone
    <3> QED
      BY <2>5, <3>1, <3>2
  <2>9. CASE TopDone
    <3>1. CASE devlist = <<>>
      BY <1>0, <2>1, <2>9, <3>1, StackPop DEF TopDone
    <3>2. CASE devlist # <<>>
      <4>1. Head(devlist) \in Range(devlist)
        BY <3>2, HeadTail DEF TypeOK
      <4> QED
        BY <2>2, <2>6, <2>9, <3>2, <4>1 DEF TopDone
    <3> QED
      BY <3>1, <3>2
  <2>10. CASE DeviceDone
    <3>1. CASE Top.nxt = NoDev
      BY <1>0, <2>1, <2>10, <3>1, StackPop DEF DeviceDone
    <3>2. CASE Top.nxt # NoDev
      <4>1. f.nxt \in Devices
        BY <2>4, <3>2 DEF FrameType, FrameRecord
      <4>2. Top.nxt \in Range(devlist)
        BY <2>4, <3>2, <4>1 DEF FrameOK, DevicesOK
      <4> QED
        BY <2>2, <2>6, <2>10, <3>2, <4>2 DEF DeviceDone
    <3> QED
      BY <3>1, <3>2
  <2>11. CASE FlushSkipped
    <3>1. f.op = "check" /\ f.pc = "device" /\ f.d \in Devices
      BY <2>4, <2>11 DEF FlushSkipped, Running, Top, FrameType
    <3>2. PICK k \in FrameType : /\ k = [f EXCEPT !.pc = "next"] /\ k.op = "check"
                                 /\ k.d = f.d /\ k.nxt = f.nxt
      <4>1. LET k == [f EXCEPT !.pc = "next"]
            IN  k \in FrameType /\ k.op = "check" /\ k.d = f.d /\ k.nxt = f.nxt
        BY <3>1 DEF FrameType, FrameRecord
      <4> QED
        BY <4>1
    <3>3. FrameOK(k)'
      BY <1>0, <2>4, <3>1, <3>2 DEF FrameOK
    <3> QED
      BY <2>2, <2>4, <2>5, <2>11, <3>2, <3>3 DEF FlushSkipped
  <2> QED
    BY <1>4, <2>7, <2>8, <2>9, <2>10, <2>11
<1> QED
  BY <1>1, <1>2, <1>3, <1>4

\* Closing a cycle keeps the stack right: it is not queued behind a flush.
LEMMA StackClosed ==
    ASSUME TypeOK, CyclesOK, StackOK, ~FlushReentry, NEW c \in Cycles, NEW check \in BOOLEAN,
           CycleClose(c, check)
    PROVE  StackOK'
<1> DEFINE d == cyc[c].dev
<1>1. d \in Devices
  BY DEF CycleClose, CyclesOK
<1>2. \A f \in Range(stack) : f.op = "flush" => f.d # d
  BY DEF CycleClose, MayQueue, Suspended, Range
<1>3. PICK s \in Seq(FrameType) : s = stack
  BY DEF TypeOK
<1>4. devst' = devst /\ \A x \in Devices : x # d => ready'[x] = ready[x]
  BY <1>1 DEF CycleClose, devVars, TypeOK
<1>5. \A f \in Range(s) : f.op = "flush" => ready'[f.d] = <<>> \/ ready'[f.d] = ready[f.d]
  <2> TAKE f \in Range(s)
  <2>1. f \in FrameType
    BY FramesOf
  <2>2. f.op = "flush" => f.d \in Devices
    BY <2>1 DEF FrameType
  <2> QED
    BY <1>2, <1>3, <1>4, <2>2
<1>6. Sound(s) /\ Sound(s)'
  <2>1. Sound(s)
    BY <1>3, StackIsSound
  <2> QED
    BY <1>4, <1>5, <2>1, SoundKept
<1>7. CASE ~cyc[c].blk
  <2>1. stack' = s
    BY <1>3, <1>7 DEF CycleClose
  <2> QED
    BY <1>6, <2>1, StackSound
<1>8. CASE cyc[c].blk
  <2>1. PICK f \in FrameType : /\ f = [Frame("block", "") EXCEPT !.c = c] /\ f.op = "block"
                               /\ f.d = NoDev /\ f.nxt = NoDev
    BY BlockFrameTyped
  <2>2. stack' = <<f>> \o s
    BY <1>3, <1>8, <2>1 DEF CycleClose
  <2>3. Quiet(s)
    BY <1>3, <1>8, MayRunQuiet DEF CycleClose
  <2>4. Sound(<<f>> \o s)'
    BY <1>6, <2>1, <2>3, PlainFrame, OverQuiet, Pushed
  <2>5. <<f>> \o s \in Seq(FrameType)
    BY ConsFacts
  <2> QED
    BY <2>2, <2>4, <2>5, StackSound
<1> QED
  BY <1>7, <1>8 DEF TypeOK, CycleType

\* Returning from a callback leaves of the frames below what matters here.
LEMMA SoundReturned ==
    ASSUME TypeOK, StackOK, stack # <<>>, UNCHANGED <<devst, ready>>, NEW r \in Seq(FrameType),
           r = Returned
    PROVE  Sound(r)'
<1>1. PICK b \in Seq(FrameType) : b = Below
  BY TopFacts
<1>2. Sound(b)
  BY <1>1, TopSound
<1>3. /\ DOMAIN r = DOMAIN b
      /\ \A i \in DOMAIN b : /\ r[i].op = b[i].op /\ r[i].d = b[i].d
                             /\ r[i].nxt = b[i].nxt /\ r[i].todo = b[i].todo
  BY <1>1, ReturnTyped
<1>4. ASSUME NEW i \in DOMAIN b PROVE FrameOK(r[i])'
  <2>1. FrameOK(b[i])
    BY <1>2 DEF Sound, Range
  <2> QED
    BY <1>3, <2>1 DEF FrameOK
<1>5. ASSUME NEW i \in DOMAIN b, NEW j \in DOMAIN b, i < j PROVE <<r[i], r[j]>> \in OverRel
  <2>1. Over(b[i], b[j])
    BY <1>2, <1>5 DEF Sound, Ordered, OverRel
  <2>2. Over(r[i], r[j])
    BY <1>3, <2>1 DEF Over
  <2>3. r[i] \in FrameType /\ r[j] \in FrameType
    BY <1>3
  <2> QED
    BY <2>2, <2>3 DEF OverRel
<1> QED
  BY <1>3, <1>4, <1>5 DEF Sound, Ordered, Range

\* Steps that make a callback, or return from one, keep the stack right.
LEMMA StackCallbacks ==
    ASSUME TypeOK, StackOK,
           \/ Expire \/ CloseCycle \/ FlushCycle \/ CallbackReturn
           \/ \E c \in Cycles, part \in {"value", "status"}, more, err \in BOOLEAN :
                 Answer(c, part, more, err)
    PROVE  StackOK'
<1>0. UNCHANGED <<devst, ready>>
  BY ZenonT(60) DEF Expire, CloseCycle, FlushCycle, CallbackReturn, Answer, devVars
<1>1. PICK s \in Seq(FrameType) : s = stack /\ Sound(s)
  BY StackIsSound DEF TypeOK
<1>2. CASE Expire
  <2>1. Head(first) \in Cycles
    BY <1>2 DEF Expire, TypeOK
  <2> QED
    BY <1>0, <1>1, <1>2, <2>1, StackCall, FrameNames DEF Expire
<1>3. ASSUME NEW c \in Cycles, NEW part \in {"value", "status"}, NEW more \in BOOLEAN,
             NEW err \in BOOLEAN, Answer(c, part, more, err)
      PROVE  StackOK'
  <2>1. CASE UNCHANGED stack
    BY <1>0, <2>1, StackSame
  <2>2. CASE stack' # stack
    <3>1. PICK st \in Statuses : stack' = <<Calling(c, st)>> \o s
      BY <1>1, <1>3, <2>2, FrameNames DEF Answer
    <3> QED
      BY <1>0, <1>1, <3>1, StackCall
  <2> QED
    BY <2>1, <2>2
<1>4. CASE CallbackReturn
  <2>1. stack # <<>> /\ stack' = Returned
    BY <1>4 DEF CallbackReturn, Running, Returned
  <2>2. PICK r \in Seq(FrameType) : r = Returned
    BY <2>1, ReturnTyped
  <2>3. Sound(r)'
    BY <1>0, <2>1, <2>2, SoundReturned
  <2> QED
    BY <2>1, <2>2, <2>3, StackSound
<1>5. ASSUME CloseCycle \/ FlushCycle PROVE StackOK'
  <2>1. stack # <<>> /\ Top.op \in {"close", "flush"} /\ Top.todo # <<>>
    BY <1>5 DEF CloseCycle, FlushCycle, Running, Top
  <2>2. PICK f \in FrameType : f = Top /\ FrameOK(f)
    BY <2>1, TopFacts, TopSound
  <2>3. PICK b \in Seq(FrameType) : b = Below
    BY <2>1, TopFacts
  <2>4. Sound(b) /\ \A g \in Range(b) : Over(f, g)
    BY <2>1, <2>2, <2>3, TopSound
  <2>5. PICK t \in Seq(Cycles) : t = f.todo
    BY DEF FrameType, FrameRecord
  <2>6. Head(t) \in Cycles /\ Tail(t) \in Seq(Cycles)
    BY <2>1, <2>2, <2>5
  <2>7. PICK g \in FrameType : /\ g = [f EXCEPT !.todo = Tail(t)]
                               /\ g.op = f.op /\ g.d = f.d /\ g.nxt = f.nxt /\ g.todo = Tail(t)
    <3>1. LET g == [f EXCEPT !.todo = Tail(t)]
          IN  /\ g \in FrameType
              /\ g.op = f.op /\ g.d = f.d /\ g.nxt = f.nxt /\ g.todo = Tail(t)
      BY <2>6 DEF FrameType, FrameRecord
    <3> QED
      BY <3>1
  <2>8. FrameOK(g)'
    <3>1. f.todo # <<>>
      BY <2>1, <2>2
    <3> QED
      BY <1>0, <2>2, <2>7, <3>1 DEF FrameOK
  <2>9. \A x \in Range(b) : Over(g, x)
    BY <2>4, <2>7 DEF Over
  <2>10. PICK u \in Seq(FrameType) : u = <<g>> \o b
    BY ConsFacts
  <2>11. Sound(u)'
    <3>1. Sound(b)'
      BY <1>0, <2>4, SoundSame
    <3>2. Sound(<<g>> \o b)'
      BY <2>8, <2>9, <3>1, Pushed
    <3> QED
      BY <2>10, <3>2 DEF Sound
  <2>12. stack' = u \/ \E st \in Statuses : stack' = <<Calling(Head(t), st)>> \o u
    <3>1. CASE CloseCycle
      <4> DEFINE k == Calling(Head(t), "TIMEOUT")
      <4>1. k \in FrameType
        BY <2>6, FrameNames, CallingTyped
      <4>2. stack' = <<k, g>> \o b
        BY <2>2, <2>3, <2>5, <2>7, <3>1 DEF CloseCycle
      <4> HIDE DEF k
      <4>3. stack' = <<k>> \o u
        BY <2>10, <4>1, <4>2, Cons2Facts, SMTT(40)
      <4> QED
        BY <4>3, FrameNames DEF k
    <3>2. CASE FlushCycle
      <4>1. \/ stack' = u
            \/ stack' = <<Calling(Head(t), "OK")>> \o u
            \/ \E st \in Outcomes(Head(t)) : /\ st # "sent"
                                             /\ stack' = <<Calling(Head(t), st)>> \o u
        BY <2>2, <2>3, <2>5, <2>7, <2>10, <3>2 DEF FlushCycle
      <4> QED
        BY <4>1, OutcomesTyped, FrameNames
    <3> QED
      BY <1>5, <3>1, <3>2
  <2>13. CASE stack' = u
    BY <2>11, <2>13, StackSound
  <2>14. ASSUME NEW st \in Statuses, stack' = <<Calling(Head(t), st)>> \o u PROVE StackOK'
    <3> DEFINE k == Calling(Head(t), st)
    <3>1. k \in FrameType
      BY <2>6, CallingTyped
    <3>2. k.op = "cb" /\ k.d = NoDev /\ k.nxt = NoDev
      BY DEF Calling, Frame
    <3>3. stack' = <<k>> \o u
      BY <2>14
    <3> HIDE DEF k
    <3>4. FrameOK(k)'
      BY <3>1, <3>2, PlainFrame
    <3>5. Sound(<<k>> \o u)'
      BY <2>11, <3>1, <3>2, <3>4, OverCallback, Pushed
    <3>6. <<k>> \o u \in Seq(FrameType)
      BY <3>1, ConsFacts
    <3> QED
      BY <3>3, <3>5, <3>6, StackSound
  <2> QED
    BY <2>12, <2>13, <2>14
<1> QED
  BY <1>2, <1>3, <1>4, <1>5

\* The flush begins when its device can be flushed, and ends.
LEMMA StackFlush ==
    ASSUME TypeOK, StackOK, DevicesOK, FlushBegin \/ FlushEnd PROVE StackOK'
<1>0. stack # <<>>
  BY DEF FlushBegin, FlushEnd, Running
<1>1. PICK f \in FrameType : f = Top /\ FrameOK(f)
  BY <1>0, TopFacts, TopSound
<1>2. PICK b \in Seq(FrameType) : b = Below
  BY <1>0, TopFacts
<1>3. f.op \in {"check", "flush"} /\ f.d \in Devices
  BY <1>1 DEF FlushBegin, FlushEnd, Running, Top, FrameType
<1>4. Sound(b) /\ Quiet(b)
  BY <1>0, <1>1, <1>2, <1>3, TopSound
<1>5. devst' = devst /\ ready' = [ready EXCEPT ![f.d] = <<>>]
  BY <1>1 DEF FlushBegin, FlushEnd, devVars
<1>6. ready'[f.d] = <<>> /\ \A x \in Devices : ready'[x] = ready[x] \/ ready'[x] = <<>>
  BY <1>3, <1>5 DEF TypeOK
<1>7. Sound(b)'
  <2>1. \A g \in Range(b) : g.op # "flush"
    BY <1>4 DEF Quiet
  <2> QED
    BY <1>4, <1>5, <2>1, SoundKept
<1>8. CASE FlushEnd
  BY <1>2, <1>7, <1>8, StackSound DEF FlushEnd
<1>9. CASE FlushBegin
  <2>1. f.op = "check" /\ f.pc = "device"
    BY <1>1, <1>9 DEF FlushBegin, Running, Top
  <2>2. PICK todo \in Seq(Cycles) : todo = Reverse(ready[f.d])
    BY <1>3, ReverseFacts DEF TypeOK
  <2>3. PICK g \in FrameType : /\ g = [Frame("flush", "") EXCEPT !.d = f.d, !.todo = todo]
                               /\ g.op = "flush" /\ g.d = f.d /\ g.nxt = NoDev /\ g.todo = todo
    BY <1>3, FlushFrameTyped
  <2>4. PICK k \in FrameType : /\ k = [f EXCEPT !.pc = "next"] /\ k.op = "check"
                               /\ k.d = f.d /\ k.nxt = f.nxt
    <3>1. LET k == [f EXCEPT !.pc = "next"]
          IN  k \in FrameType /\ k.op = "check" /\ k.d = f.d /\ k.nxt = f.nxt
      BY <1>3, <2>1 DEF FrameType, FrameRecord
    <3> QED
      BY <3>1
  <2>5. FrameOK(k)'
    BY <1>1, <1>5, <2>1, <2>4 DEF FrameOK
  <2>6. devst[f.d] \in {"opening", "active"}
    <3>1. f.d # NoDev
      BY <1>3, SocketAssumption
    <3>2. devst[f.d] # "free" /\ devst[f.d] # "closing"
      BY <1>1, <1>9, <3>1 DEF FlushBegin, FrameOK
    <3> QED
      BY <1>3, <3>2 DEF TypeOK
  <2>7. todo # <<>> => devst[f.d] = "active"
    <3>1. ready[f.d] = <<>> => Reverse(ready[f.d]) = <<>>
      BY DEF Reverse
    <3> QED
      BY <1>3, <2>2, <3>1 DEF DevicesOK
  <2>8. FrameOK(g)'
    BY <1>3, <1>5, <1>6, <2>3, <2>6, <2>7 DEF FrameOK
  <2>9. Over(g, k) /\ \A x \in Range(b) : Over(k, x) /\ Over(g, x)
    BY <1>4, <2>3, <2>4, OverQuiet DEF Over
  <2>10. stack' = <<g, k>> \o b
    BY <1>1, <1>2, <1>9, <2>2, <2>3, <2>4 DEF FlushBegin
  <2> QED
    BY <1>7, <2>5, <2>8, <2>9, <2>10, StackPush2
<1> QED
  BY <1>8, <1>9

\* A close suspends nothing that uses the device.
LEMMA StackClosing ==
    ASSUME TypeOK, StackOK, NEW d \in Devices, NEW s \in Seq(FrameType), Sound(s), Close(d, s),
           \A f \in Range(s) : d \notin {f.d, f.nxt}
    PROVE  StackOK'
<1>1. /\ devst'[d] = "closing" /\ ready'[d] = <<>>
      /\ \A x \in Devices : x # d => devst'[x] = devst[x] /\ ready'[x] = ready[x]
  BY DEF Close, TypeOK
<1>2. Sound(s)'
  <2>1. \A x \in Devices : ready'[x] = ready[x] \/ ready'[x] = <<>>
    BY <1>1
  <2> QED
    BY <1>1, <2>1, SoundElsewhere
<1>3. PICK todo \in Seq(Cycles) : todo = OfDevice(Inflight, d) \o Reverse(ready[d])
  <2>1. PICK a \in Seq(Cycles) : a = OfDevice(Inflight, d)
    BY InflightTyped, FilterType DEF OfDevice
  <2>2. PICK b \in Seq(Cycles) : b = Reverse(ready[d])
    BY ReverseFacts DEF TypeOK
  <2>3. a \o b \in Seq(Cycles)
    OBVIOUS
  <2> QED
    BY <2>1, <2>2, <2>3
<1>4. PICK g \in FrameType : /\ g = [Frame("close", "") EXCEPT !.d = d, !.todo = todo]
                             /\ g.op = "close" /\ g.d = d /\ g.nxt = NoDev /\ g.todo = todo
  BY CloseFrameTyped
<1>5. FrameOK(g)'
  BY <1>1, <1>4 DEF FrameOK
<1>6. \A f \in Range(s) : Over(g, f)
  BY <1>4 DEF Over
<1>7. Sound(<<g>> \o s)'
  BY <1>2, <1>5, <1>6, Pushed
<1>8. stack' = <<g>> \o s /\ <<g>> \o s \in Seq(FrameType)
  BY <1>3, <1>4, ConsFacts DEF Close
<1> QED
  BY <1>7, <1>8, StackSound

\* Opening and closing a device does not pull it from under a suspended call.
LEMMA StackDevices ==
    ASSUME TypeOK, StackOK, DevicesOK, ~CloseHeld,
           \/ \E d \in Devices : DeviceOpen(d) \/ DeviceClose(d)
           \/ OpenOk \/ OpenFail \/ CloseEnd
    PROVE  StackOK'
<1>1. PICK s \in Seq(FrameType) : s = stack /\ Sound(s)
  BY StackIsSound DEF TypeOK
<1>2. ASSUME NEW d \in Devices, DeviceOpen(d) PROVE StackOK'
  <2>1. \A f \in Range(s) : d \notin {f.d, f.nxt}
    BY <1>1, <1>2, SocketAssumption DEF DeviceOpen, Sound, FrameOK
  <2>2. /\ devst'[d] = "opening" /\ ready' = ready
        /\ \A x \in Devices : x # d => devst'[x] = devst[x]
    BY <1>2 DEF DeviceOpen, TypeOK
  <2>3. Sound(s)'
    BY <1>1, <2>1, <2>2, SoundElsewhere
  <2>4. PICK g \in FrameType : /\ g = [Frame("open", "") EXCEPT !.d = d]
                               /\ g.op = "open" /\ g.d = d /\ g.nxt = NoDev
    BY OpenFrameTyped
  <2>5. FrameOK(g)'
    BY <2>2, <2>4 DEF FrameOK
  <2>6. \A f \in Range(s) : Over(g, f)
    <3>1. Quiet(s)
      BY <1>1, <1>2, MayRunQuiet DEF DeviceOpen
    <3> QED
      BY <2>1, <2>4, <3>1 DEF Over, Quiet
  <2>7. Sound(<<g>> \o s)'
    BY <2>3, <2>5, <2>6, Pushed
  <2>8. stack' = <<g>> \o s /\ <<g>> \o s \in Seq(FrameType)
    BY <1>1, <1>2, <2>4, ConsFacts DEF DeviceOpen
  <2> QED
    BY <2>7, <2>8, StackSound
<1>3. ASSUME NEW d \in Devices, DeviceClose(d) PROVE StackOK'
  <2>1. ASSUME NEW f \in Range(s) PROVE d \notin {f.d, f.nxt}
    <3>1. f \in FrameType /\ FrameOK(f)
      BY <1>1, FramesOf DEF Sound
    <3>2. f.op \in {"flush", "close", "check"} => d \notin {f.d, f.nxt}
      BY <1>1, <1>3 DEF DeviceClose, MayClose, Suspended, Range
    <3>3. devst[d] = "active" /\ d # NoDev
      BY <1>3, SocketAssumption DEF DeviceClose, MayClose
    <3>4. f.op \in {"run", "block", "cb", "open"} => d \notin {f.d, f.nxt}
      BY <3>1, <3>3 DEF FrameOK
    <3> QED
      BY <3>1, <3>2, <3>4 DEF FrameType, FrameRecord
  <2>2. Close(d, s)
    BY <1>1, <1>3 DEF DeviceClose
  <2> QED
    BY <1>1, <2>1, <2>2, StackClosing
<1>4. ASSUME OpenOk \/ OpenFail \/ CloseEnd PROVE StackOK'
  <2>1. stack # <<>> /\ Top.op \in {"open", "close"}
    BY <1>4 DEF OpenOk, OpenFail, CloseEnd, Running, Top
  <2>2. PICK d \in Devices : d = Top.d
    BY <2>1, TopFacts DEF FrameType
  <2>3. PICK b \in Seq(FrameType) : b = Below
    BY <2>1, TopFacts
  <2>4. Sound(b) /\ \A f \in Range(b) : d \notin {f.d, f.nxt}
    BY <2>1, <2>2, <2>3, TopSound DEF Over
  <2>5. CASE OpenFail
    <3>1. Close(d, b)
      BY <2>2, <2>3, <2>5 DEF OpenFail
    <3> QED
      BY <2>4, <3>1, StackClosing
  <2>6. CASE OpenOk \/ CloseEnd
    <3>1. /\ ready' = ready /\ stack' = b
          /\ \A x \in Devices : x # d => devst'[x] = devst[x]
      BY <2>2, <2>3, <2>6 DEF OpenOk, CloseEnd, TypeOK
    <3>2. Sound(b)'
      BY <2>4, <3>1, SoundElsewhere
    <3> QED
      BY <3>1, <3>2, StackSound
  <2> QED
    BY <1>4, <2>5, <2>6
<1> QED
  BY <1>2, <1>3, <1>4

\* Every step keeps the stack right.
LEMMA StackStep ==
    ASSUME TypeOK, CyclesOK, StackOK, DevicesOK, ~FlushReentry, ~CloseHeld, [Next]_vars
    PROVE  StackOK'
<1>1. CASE UNCHANGED vars
  BY <1>1, StackSame DEF vars
<1>2. ASSUME \/ \E c \in Cycles, d \in Devices, blk \in BOOLEAN : CycleOpen(c, d, blk)
             \/ \E c \in Cycles, k \in OpKinds : DoOp(c, k)
             \/ \E c \in Cycles : CycleAbort(c)
             \/ SocketTimeout \/ SocketClose \/ SocketOpen \/ UnmatchedAnswer \/ LinkBreak
      PROVE  StackOK'
  BY <1>2, StackSame DEF CycleOpen, DoOp, CycleAbort, SocketTimeout, SocketClose, SocketOpen,
                         UnmatchedAnswer, LinkBreak, devVars
<1> QED
  BY <1>1, <1>2, StackClosed, StackLoop, StackCallbacks, StackFlush, StackDevices
     DEF Next, Client, Library, Network

-----------------------------------------------------------------------------
(* Devices *)

\* The cycles that unready counts.
OpenOn(d) == {c \in Cycles : cyc[c].st = "open" /\ cyc[c].dev = d}

\* unready, a uint8_t, is wide enough for all cycles.
Countable == IsFiniteSet(Cycles) /\ Cardinality(Cycles) < UnreadyMod

\* Neither a step of the library nor the network opens or frees open cycles.
OpenSame ==
    \A c \in Cycles : /\ cyc'[c].st = "open" <=> cyc[c].st = "open"
                      /\ cyc'[c].st = "open" => cyc'[c].dev = cyc[c].dev

\* Closing the socket, or finding it closed, takes an empty stack.
LEMMA SocketIdle ==
    ASSUME TypeOK, CyclesOK, DevicesOK, Next, ~sockOpen'
    PROVE  stack' = <<>> /\ devlist' = <<>>
<1>1. CASE SocketClose
  BY <1>1 DEF SocketClose
<1>2. CASE ~sockOpen
  <2>1. stack = <<>> /\ devlist = <<>>
    BY <1>2 DEF DevicesOK
  <2>2. \A d \in Devices : devst[d] = "free"
    <3>1. Range(devlist) = {}
      BY <2>1 DEF Range
    <3> QED
      BY <3>1 DEF DevicesOK
  <2>3. \A c \in Cycles : cyc[c].st # "open"
    BY <2>2 DEF DevicesOK, CyclesOK
  <2>4. ~MayRun /\ ~Receiving /\ \A op, pc : ~Running(op, pc)
    BY <1>2, <2>1 DEF MayRun, Receiving, Running
  <2>5. ~Library /\ ~Network
    BY <2>4 DEF Library, Network, BlockRun, BlockReturn, CallbackReturn, RunWait, RunReturn,
                Expire, ExpireDone, TopDone, DeviceDone, FlushSkipped, FlushBegin, FlushCycle,
                FlushEnd, OpenRun, OpenOk, OpenFail, CloseCycle, CloseEnd, UnmatchedAnswer,
                Answer, LinkBreak
  <2>6. Client
    BY <2>5 DEF Next
  <2>7. \/ \E c \in Cycles, d \in Devices, blk \in BOOLEAN : CycleOpen(c, d, blk)
        \/ \E c \in Cycles, k \in OpKinds : DoOp(c, k)
        \/ \E c \in Cycles : CycleAbort(c)
        \/ SocketTimeout \/ SocketClose \/ SocketOpen
    BY <2>2, <2>3, <2>4, <2>6 DEF Client, CycleClose, SocketRun, SocketCheck, DeviceOpen,
                                  DeviceClose, MayClose
  <2> QED
    BY <2>1, <2>7 DEF CycleOpen, DoOp, CycleAbort, SocketTimeout, SocketClose, SocketOpen, devVars
<1>3. SocketClose \/ sockOpen' = sockOpen \/ sockOpen' = TRUE
  BY DEF Next, Client, Library, Network, CycleOpen, DoOp, CycleAbort, CycleClose,
         BlockRun, BlockReturn, CallbackReturn, SocketRun, SocketCheck, RunWait, SocketTimeout,
         RunReturn, Expire, ExpireDone, TopDone, DeviceDone, UnmatchedAnswer, Answer,
         LinkBreak, FlushSkipped, FlushBegin, FlushCycle, FlushEnd, DeviceOpen, OpenRun,
         OpenOk, DeviceClose, OpenFail, CloseCycle, CloseEnd, SocketClose, SocketOpen, devVars
<1> QED
  BY <1>1, <1>2, <1>3

\* Steps that leave the devices and the open cycles alone.
LEMMA DevicesSame ==
    ASSUME DevicesOK, UNCHANGED <<devst, devlist, unready>>, OpenSame,
           \A d \in Devices : ready'[d] = ready[d] \/ ready'[d] = <<>>,
           ~sockOpen' => stack' = <<>> /\ devlist' = <<>>
    PROVE  DevicesOK'
<1>1. \A d \in Devices :
         {c \in Cycles : cyc'[c].st = "open" /\ cyc'[c].dev = d}
            = {c \in Cycles : cyc[c].st = "open" /\ cyc[c].dev = d}
  BY DEF OpenSame
<1>2. \A c \in Cycles : cyc'[c].st = "open" => devst'[cyc'[c].dev] = "active"
  BY DEF OpenSame, DevicesOK
<1> QED
  BY <1>1, <1>2 DEF DevicesOK

\* A callback is run for a closed cycle.
LEMMA CallbackClosed ==
    ASSUME TypeOK, QueuesOK, CallbackReturn
    PROVE  Top.c \in Cycles /\ cyc[Top.c].st = "closed"
<1>1. stack # <<>> /\ Top.op = "cb"
  BY DEF CallbackReturn, Running, Top
<1>2. Top \in Range(stack)
  BY <1>1, TopFacts
<1> QED
  BY <1>1, <1>2 DEF QueuesOK

\* What a step writes into a cycle, apart from opening, closing and aborting.
LEMMA OpenKept ==
    ASSUME TypeOK, QueuesOK,
           \/ \E c \in Cycles, k \in OpKinds : DoOp(c, k)
           \/ CallbackReturn \/ FlushCycle
           \/ \E c \in Cycles, part \in {"value", "status"}, more, err \in BOOLEAN :
                 Answer(c, part, more, err)
    PROVE  OpenSame
<1>1. cyc \in [Cycles -> CycleType]
  BY DEF TypeOK
<1>2. ASSUME NEW c \in Cycles, NEW k \in OpKinds, DoOp(c, k) PROVE OpenSame
  <2>1. CASE cyc' = [cyc EXCEPT ![c].ops = @ \cup {k}]
    BY <1>1, <2>1 DEF OpenSame, CycleType
  <2>2. CASE cyc' = [cyc EXCEPT ![c].ops = {}, ![c].dead = TRUE]
    BY <1>1, <2>2 DEF OpenSame, CycleType
  <2> QED
    BY <1>2, <2>1, <2>2 DEF DoOp
<1>3. CASE CallbackReturn
  <2>1. Top.c \in Cycles /\ cyc[Top.c].st = "closed"
    BY <1>3, CallbackClosed
  <2>2. \A c \in Cycles : cyc'[c] = IF c = Top.c THEN FreeCycle ELSE cyc[c]
    BY <1>1, <1>3 DEF CallbackReturn
  <2> QED
    BY <2>1, <2>2, FreeCycleOK DEF OpenSame
<1>4. CASE FlushCycle
  <2> DEFINE c == Head(Top.todo)
  <2>1. \/ cyc' = cyc
        \/ cyc' = [cyc EXCEPT ![c].sent = TRUE]
        \/ \E want : cyc' = [cyc EXCEPT ![c].sent = TRUE, ![c].want = want]
    BY <1>4 DEF FlushCycle
  <2> HIDE DEF c
  <2>2. CASE cyc' = [cyc EXCEPT ![c].sent = TRUE]
    BY <1>1, <2>2 DEF OpenSame, CycleType
  <2>3. ASSUME NEW want, cyc' = [cyc EXCEPT ![c].sent = TRUE, ![c].want = want] PROVE OpenSame
    BY <1>1, <2>3 DEF OpenSame, CycleType
  <2> QED
    BY <2>1, <2>2, <2>3 DEF OpenSame
<1>5. ASSUME NEW c \in Cycles, NEW part \in {"value", "status"}, NEW more \in BOOLEAN,
             NEW err \in BOOLEAN, Answer(c, part, more, err)
      PROVE  OpenSame
  <2>1. cyc' = cyc \/ \E want : cyc' = [cyc EXCEPT ![c].want = want]
    BY <1>5 DEF Answer
  <2>2. ASSUME NEW want, cyc' = [cyc EXCEPT ![c].want = want] PROVE OpenSame
    BY <1>1, <2>2 DEF OpenSame, CycleType
  <2> QED
    BY <2>1, <2>2 DEF OpenSame
<1> QED
  BY <1>2, <1>3, <1>4, <1>5

\* Cardinalities of the open cycles of a device.
LEMMA OpenFinite ==
    ASSUME Countable, NEW d
    PROVE  /\ IsFiniteSet(OpenOn(d)) /\ Cardinality(OpenOn(d)) \in Nat
           /\ \A c \in Cycles \ OpenOn(d) :
                 /\ Cardinality(OpenOn(d) \cup {c}) = Cardinality(OpenOn(d)) + 1
                 /\ Cardinality(OpenOn(d)) + 1 < UnreadyMod
           /\ \A c \in OpenOn(d) :
                 /\ Cardinality(OpenOn(d) \ {c}) = Cardinality(OpenOn(d)) - 1
                 /\ Cardinality(OpenOn(d)) - 1 \in Nat
                 /\ Cardinality(OpenOn(d)) < UnreadyMod
<1>1. ASSUME NEW S \in SUBSET Cycles
      PROVE  IsFiniteSet(S) /\ Cardinality(S) \in Nat /\ Cardinality(S) < UnreadyMod
  <2>1. IsFiniteSet(S) /\ Cardinality(S) <= Cardinality(Cycles)
    BY FS_Subset DEF Countable
  <2>2. Cardinality(S) \in Nat /\ Cardinality(Cycles) \in Nat
    BY <2>1, FS_CardinalityType DEF Countable
  <2> QED
    BY <2>1, <2>2, SocketAssumption DEF Countable
<1> DEFINE S == OpenOn(d)
<1>2. S \in SUBSET Cycles
  BY DEF OpenOn
<1> HIDE DEF S
<1>3. ASSUME NEW c \in Cycles \ S
      PROVE  Cardinality(S \cup {c}) = Cardinality(S) + 1 /\ Cardinality(S) + 1 < UnreadyMod
  <2>1. Cardinality(S \cup {c}) = Cardinality(S) + 1
    BY <1>1, <1>2, <1>3, FS_AddElement
  <2>2. S \cup {c} \in SUBSET Cycles
    BY <1>2, <1>3
  <2> QED
    BY <1>1, <2>1, <2>2
<1>4. ASSUME NEW c \in S
      PROVE  /\ Cardinality(S \ {c}) = Cardinality(S) - 1 /\ Cardinality(S) - 1 \in Nat
             /\ Cardinality(S) < UnreadyMod
  <2>1. Cardinality(S \ {c}) = Cardinality(S) - 1
    BY <1>1, <1>2, <1>4, FS_RemoveElement
  <2>2. S \ {c} \in SUBSET Cycles
    BY <1>2
  <2> QED
    BY <1>1, <1>2, <2>1, <2>2
<1> QED
  BY <1>1, <1>2, <1>3, <1>4 DEF S

\* A count below the width of unready does not wrap.
LEMMA Unwrapped ==
    ASSUME NEW n \in Nat, n < UnreadyMod PROVE n % UnreadyMod = n
<1>1. UnreadyMod \in Nat /\ UnreadyMod > 0
  BY SocketAssumption
<1> QED
  BY <1>1

\* What is left of DevicesOK when neither the list nor the states change.
LEMMA DevicesCycles ==
    ASSUME TypeOK, DevicesOK, UNCHANGED <<sockOpen, devst, devlist>>,
           ~sockOpen' => stack' = <<>> /\ devlist' = <<>>,
           \A d \in Devices : ready'[d] # <<>> => devst[d] = "active",
           \A c \in Cycles : cyc'[c].st = "open" => devst[cyc'[c].dev] = "active",
           \A d \in Devices : unready'[d] = Cardinality(OpenOn(d)')
    PROVE  DevicesOK'
  BY DEF DevicesOK, OpenOn

\* Opening a cycle adds one to the unready of its device.
LEMMA DevicesOpened ==
    ASSUME TypeOK, DevicesOK, CyclesOK, Countable, NEW c \in Cycles, NEW d \in Devices,
           NEW blk \in BOOLEAN, CycleOpen(c, d, blk),
           ~sockOpen' => stack' = <<>> /\ devlist' = <<>>
    PROVE  DevicesOK'
<1>1. /\ cyc'[c].st = "open" /\ cyc'[c].dev = d /\ cyc[c].st = "free"
      /\ \A x \in Cycles : x # c => cyc'[x] = cyc[x]
  BY DEF CycleOpen, TypeOK, FreeCycle
<1>2. /\ unready'[d] = (unready[d] + 1) % UnreadyMod
      /\ \A x \in Devices : x # d => unready'[x] = unready[x]
  BY DEF CycleOpen, TypeOK
<1>3. OpenOn(d)' = OpenOn(d) \cup {c} /\ c \in Cycles \ OpenOn(d)
  BY <1>1 DEF OpenOn
<1>4. \A x \in Devices : x # d => OpenOn(x)' = OpenOn(x)
  BY <1>1 DEF OpenOn
<1>5. unready'[d] = Cardinality(OpenOn(d)')
  <2>1. unready[d] = Cardinality(OpenOn(d))
    BY DEF DevicesOK, OpenOn
  <2>2. /\ Cardinality(OpenOn(d)) \in Nat
        /\ Cardinality(OpenOn(d) \cup {c}) = Cardinality(OpenOn(d)) + 1
        /\ Cardinality(OpenOn(d)) + 1 < UnreadyMod
    BY <1>3, OpenFinite
  <2>3. (unready[d] + 1) % UnreadyMod = unready[d] + 1
    BY <2>1, <2>2, Unwrapped
  <2> QED
    BY <1>2, <1>3, <2>1, <2>2, <2>3
<1>6. \A x \in Devices : unready'[x] = Cardinality(OpenOn(x)')
  BY <1>2, <1>4, <1>5 DEF DevicesOK, OpenOn
<1>7. \A x \in Cycles : cyc'[x].st = "open" => devst[cyc'[x].dev] = "active"
  BY <1>1 DEF DevicesOK, CycleOpen
<1>8. \A x \in Devices : ready'[x] # <<>> => devst[x] = "active"
  BY DEF DevicesOK, CycleOpen
<1> QED
  BY <1>6, <1>7, <1>8, DevicesCycles DEF CycleOpen, devVars

\* Aborting or closing a cycle takes one from the unready of its device.
LEMMA DevicesClosed ==
    ASSUME TypeOK, DevicesOK, CyclesOK, Countable, NEW c \in Cycles,
           CycleAbort(c) \/ \E check \in BOOLEAN : CycleClose(c, check),
           ~sockOpen' => stack' = <<>> /\ devlist' = <<>>
    PROVE  DevicesOK'
<1>0. PICK d \in Devices : d = cyc[c].dev /\ cyc[c].st = "open" /\ devst[d] = "active"
  BY DEF CycleAbort, CycleClose, CyclesOK, DevicesOK
<1>1. cyc'[c].st # "open" /\ \A x \in Cycles : x # c => cyc'[x] = cyc[x]
  <2>1. CASE CycleAbort(c)
    BY <2>1, FreeCycleOK DEF CycleAbort, TypeOK
  <2>2. ASSUME NEW check \in BOOLEAN, CycleClose(c, check)
        PROVE  cyc'[c].st # "open" /\ \A x \in Cycles : x # c => cyc'[x] = cyc[x]
    <3>1. PICK r \in CycleType : r = cyc[c]
      BY DEF TypeOK
    <3>2. \A x : [r EXCEPT !.st = "closed", !.chk = x].st = "closed"
      BY DEF CycleType
    <3> QED
      BY <2>2, <3>1, <3>2 DEF CycleClose, TypeOK
  <2> QED
    BY <2>1, <2>2
<1>2. unready' = [unready EXCEPT ![d] = (unready[d] - 1) % UnreadyMod]
  BY <1>0 DEF CycleAbort, CycleClose
<1>3. OpenOn(d)' = OpenOn(d) \ {c} /\ c \in OpenOn(d)
  BY <1>0, <1>1 DEF OpenOn
<1>4. \A x \in Devices : x # d => OpenOn(x)' = OpenOn(x)
  BY <1>0, <1>1 DEF OpenOn
<1>5. \A x \in Devices : x # d => ready'[x] = ready[x]
  BY <1>0 DEF CycleAbort, CycleClose, TypeOK
<1>6. UNCHANGED <<sockOpen, devst, devlist>>
  BY DEF CycleAbort, CycleClose, devVars
<1>7. unready'[d] = Cardinality(OpenOn(d)')
  <2>1. unready[d] = Cardinality(OpenOn(d))
    BY <1>0 DEF DevicesOK, OpenOn
  <2>2. /\ Cardinality(OpenOn(d)) \in Nat
        /\ Cardinality(OpenOn(d) \ {c}) = Cardinality(OpenOn(d)) - 1
        /\ Cardinality(OpenOn(d)) - 1 \in Nat /\ Cardinality(OpenOn(d)) < UnreadyMod
    BY <1>3, OpenFinite
  <2>3. UnreadyMod \in Nat
    BY SocketAssumption
  <2>4. unready[d] - 1 \in Nat /\ unready[d] - 1 < UnreadyMod
    BY <2>1, <2>2, <2>3
  <2>5. (unready[d] - 1) % UnreadyMod = unready[d] - 1
    BY <2>4, Unwrapped
  <2> QED
    BY <1>0, <1>2, <1>3, <2>1, <2>2, <2>5 DEF TypeOK
<1>8. \A x \in Devices : x # d => unready'[x] = unready[x]
  BY <1>2 DEF TypeOK
<1>9. \A x \in Devices : unready'[x] = Cardinality(OpenOn(x)')
  BY <1>4, <1>7, <1>8, ZenonT(60) DEF DevicesOK, OpenOn
<1>10. \A x \in Cycles : cyc'[x].st = "open" => devst[cyc'[x].dev] = "active"
  BY <1>1 DEF DevicesOK
<1>11. \A x \in Devices : ready'[x] # <<>> => devst[x] = "active"
  BY <1>0, <1>5 DEF DevicesOK
<1> QED
  BY <1>6, <1>9, <1>10, <1>11, DevicesCycles

\* What is left of DevicesOK when one device changes its state.
LEMMA DevicesMoved ==
    ASSUME TypeOK, CyclesOK, DevicesOK, NEW d \in Devices, UNCHANGED <<unready, cyc>>,
           \A x \in Devices : x # d => devst'[x] = devst[x],
           \A x \in Devices : ready'[x] = ready[x] \/ ready'[x] = <<>>,
           devst'[d] = "active" \/ (ready'[d] = <<>> /\ OpenOn(d) = {}),
           IsInjective(devlist'), Range(devlist') = {x \in Devices : devst'[x] # "free"},
           ~sockOpen' => stack' = <<>> /\ devlist' = <<>>
    PROVE  DevicesOK'
<1>1. \A x \in Devices : ready'[x] # <<>> => devst'[x] = "active"
  BY DEF DevicesOK
<1>2. \A c \in Cycles : cyc'[c].st = "open" => devst'[cyc'[c].dev] = "active"
  <2> SUFFICES ASSUME NEW c \in Cycles, cyc[c].st = "open" PROVE devst'[cyc[c].dev] = "active"
    OBVIOUS
  <2>1. devst[cyc[c].dev] = "active"
    BY DEF DevicesOK
  <2>2. CASE cyc[c].dev = d
    BY <2>2 DEF OpenOn
  <2>3. CASE cyc[c].dev # d
    BY <2>1, <2>3 DEF CyclesOK
  <2> QED
    BY <2>2, <2>3
<1> QED
  BY <1>1, <1>2 DEF DevicesOK

\* With unready 0 no cycle is open on the device.
LEMMA NoneOpen ==
    ASSUME DevicesOK, Countable, NEW d \in Devices, unready[d] = 0 PROVE OpenOn(d) = {}
<1>1. IsFiniteSet(OpenOn(d)) /\ Cardinality(OpenOn(d)) = 0
  BY OpenFinite DEF DevicesOK, OpenOn
<1> QED
  BY <1>1, FS_EmptySet

\* Nothing is queued, or open, on a device that is not active.
LEMMA NotActive ==
    ASSUME DevicesOK, NEW d \in Devices, devst[d] # "active"
    PROVE  ready[d] = <<>> /\ OpenOn(d) = {}
  BY DEF DevicesOK, OpenOn

\* Opening and closing devices keeps the list and the counts right.
LEMMA DevicesDevices ==
    ASSUME TypeOK, CyclesOK, StackOK, DevicesOK, Countable,
           \/ \E d \in Devices : DeviceOpen(d) \/ DeviceClose(d)
           \/ OpenOk \/ OpenFail \/ CloseEnd,
           ~sockOpen' => stack' = <<>> /\ devlist' = <<>>
    PROVE  DevicesOK'
<1>0. devlist \in Seq(Devices)
  BY DEF TypeOK
<1>1. ASSUME NEW d \in Devices, DeviceOpen(d) PROVE DevicesOK'
  <2>1. d \notin Range(devlist) /\ devst[d] = "free"
    BY <1>1 DEF DeviceOpen, DevicesOK
  <2>2. IsInjective(<<d>> \o devlist) /\ Range(<<d>> \o devlist) = {d} \cup Range(devlist)
    BY <1>0, <2>1, InjectiveCons, ConsFacts DEF DevicesOK
  <2>3. devst'[d] = "opening" /\ \A x \in Devices : x # d => devst'[x] = devst[x]
    BY <1>1 DEF DeviceOpen, TypeOK
  <2>4. devlist' = <<d>> \o devlist
    BY <1>1 DEF DeviceOpen
  <2>5. IsInjective(devlist') /\ Range(devlist') = {x \in Devices : devst'[x] # "free"}
    <3>1. Range(devlist) = {x \in Devices : devst[x] # "free"}
      BY DEF DevicesOK
    <3>2. Range(devlist') = {d} \cup Range(devlist)
      BY <2>2, <2>4
    <3>3. IsInjective(devlist')
      BY <2>2, <2>4
    <3> QED
      BY <2>3, <3>1, <3>2, <3>3
  <2>6. ready' = ready /\ ready[d] = <<>> /\ OpenOn(d) = {} /\ UNCHANGED <<unready, cyc>>
    BY <1>1, <2>1, NotActive DEF DeviceOpen
  <2> QED
    BY <2>3, <2>5, <2>6, DevicesMoved
<1>2. ASSUME NEW d \in Devices, NEW s, Close(d, s), devst[d] # "free",
             UNCHANGED <<devlist, unready, cyc>>
      PROVE  DevicesOK'
  <2>1. OpenOn(d) = {}
    BY <1>2, NoneOpen DEF Close
  <2>2. /\ devst'[d] = "closing" /\ ready'[d] = <<>>
        /\ \A x \in Devices : x # d => devst'[x] = devst[x] /\ ready'[x] = ready[x]
    BY <1>2 DEF Close, TypeOK
  <2>3. IsInjective(devlist') /\ Range(devlist') = {x \in Devices : devst'[x] # "free"}
    BY <1>2, <2>2 DEF DevicesOK
  <2>4. \A x \in Devices : ready'[x] = ready[x] \/ ready'[x] = <<>>
    BY <2>2
  <2> QED
    BY <1>2, <2>1, <2>2, <2>3, <2>4, DevicesMoved
<1>3. ASSUME NEW d \in Devices, DeviceClose(d) PROVE DevicesOK'
  BY <1>2, <1>3 DEF DeviceClose, MayClose
<1>4. ASSUME OpenOk \/ OpenFail \/ CloseEnd PROVE DevicesOK'
  <2>1. stack # <<>> /\ Top.op \in {"open", "close"}
    BY <1>4 DEF OpenOk, OpenFail, CloseEnd, Running, Top
  <2>2. PICK d \in Devices : d = Top.d
    BY <2>1, TopFacts DEF FrameType
  <2>3. devst[d] \in {"opening", "closing"}
    BY <2>1, <2>2, TopSound DEF FrameOK
  <2>4. ready[d] = <<>> /\ OpenOn(d) = {}
    BY <2>3, NotActive
  <2>5. CASE OpenFail
    BY <1>2, <2>2, <2>3, <2>5 DEF OpenFail
  <2>6. CASE OpenOk
    <3>1. /\ devst'[d] = "active" /\ UNCHANGED <<devlist, unready, ready, cyc>>
          /\ \A x \in Devices : x # d => devst'[x] = devst[x]
      BY <2>2, <2>6 DEF OpenOk, TypeOK
    <3>2. IsInjective(devlist') /\ Range(devlist') = {x \in Devices : devst'[x] # "free"}
      BY <2>3, <3>1 DEF DevicesOK
    <3> QED
      BY <3>1, <3>2, DevicesMoved
  <2>7. CASE CloseEnd
    <3>1. /\ devst'[d] = "free" /\ UNCHANGED <<unready, ready, cyc>>
          /\ devlist' = Filter(devlist, Devices \ {d})
          /\ \A x \in Devices : x # d => devst'[x] = devst[x]
      BY <2>2, <2>7 DEF CloseEnd, TypeOK
    <3>2. IsInjective(devlist')
      BY <1>0, <3>1, FilterInjective DEF DevicesOK
    <3>3. Range(devlist') = Range(devlist) \cap (Devices \ {d})
      BY <1>0, <3>1, FilterRange
    <3>4. Range(devlist') = {x \in Devices : devst'[x] # "free"}
      <4>1. Range(devlist) = {x \in Devices : devst[x] # "free"}
        BY DEF DevicesOK
      <4> QED
        BY <3>1, <3>3, <4>1
    <3> QED
      BY <2>4, <3>1, <3>2, <3>4, DevicesMoved
  <2> QED
    BY <1>4, <2>5, <2>6, <2>7
<1> QED
  BY <1>1, <1>3, <1>4

\* Every step keeps the devices right.
LEMMA DevicesStep ==
    ASSUME TypeOK, CyclesOK, StackOK, DevicesOK, QueuesOK, Countable, [Next]_vars
    PROVE  DevicesOK'
<1>1. CASE UNCHANGED vars
  <2>1. OpenSame
    BY <1>1 DEF vars, OpenSame
  <2> QED
    BY <1>1, <2>1, DevicesSame DEF vars, DevicesOK
<1>2. ASSUME Next PROVE DevicesOK'
  <2>1. ~sockOpen' => stack' = <<>> /\ devlist' = <<>>
    BY <1>2, SocketIdle
  <2>2. ASSUME \/ SocketRun \/ SocketCheck \/ SocketTimeout \/ SocketClose \/ SocketOpen
               \/ BlockRun \/ BlockReturn \/ RunWait \/ RunReturn
               \/ Expire \/ ExpireDone \/ TopDone \/ DeviceDone
               \/ FlushSkipped \/ FlushBegin \/ FlushEnd \/ OpenRun \/ CloseCycle
               \/ UnmatchedAnswer \/ LinkBreak
        PROVE  DevicesOK'
    <3>1. UNCHANGED <<devst, devlist, unready, cyc>>
      BY <2>2 DEF SocketRun, SocketCheck, SocketTimeout, SocketClose, SocketOpen, BlockRun,
                  BlockReturn, RunWait, RunReturn, Expire, ExpireDone, TopDone, DeviceDone,
                  FlushSkipped, FlushBegin, FlushEnd, OpenRun, CloseCycle, UnmatchedAnswer,
                  LinkBreak, devVars
    <3>2. ready' = ready \/ ready' = [ready EXCEPT ![Top.d] = <<>>]
      BY <2>2 DEF SocketRun, SocketCheck, SocketTimeout, SocketClose, SocketOpen, BlockRun,
                  BlockReturn, RunWait, RunReturn, Expire, ExpireDone, TopDone, DeviceDone,
                  FlushSkipped, FlushBegin, FlushEnd, OpenRun, CloseCycle, UnmatchedAnswer,
                  LinkBreak, devVars
    <3>3. \A d \in Devices : ready'[d] = ready[d] \/ ready'[d] = <<>>
      BY <3>2 DEF TypeOK
    <3>4. OpenSame
      BY <3>1 DEF OpenSame
    <3> QED
      BY <2>1, <3>1, <3>3, <3>4, DevicesSame
  <2>3. ASSUME \/ \E c \in Cycles, k \in OpKinds : DoOp(c, k)
               \/ CallbackReturn \/ FlushCycle
               \/ \E c \in Cycles, part \in {"value", "status"}, more, err \in BOOLEAN :
                     Answer(c, part, more, err)
        PROVE  DevicesOK'
    <3>1. UNCHANGED <<devst, devlist, unready, ready>>
      BY <2>3, ZenonT(60) DEF DoOp, CallbackReturn, FlushCycle, Answer, devVars
    <3> QED
      BY <2>1, <2>3, <3>1, OpenKept, DevicesSame
  <2> QED
    BY <1>2, <2>1, <2>2, <2>3, DevicesOpened, DevicesClosed, DevicesDevices
       DEF Next, Client, Library, Network
<1> QED
  BY <1>1, <1>2

-----------------------------------------------------------------------------
(* Callers blocked in eb_cycle_close *)

\* No two calls wait for the same cycle.
Alone(s) ==
    \A i, j \in DOMAIN s :
        s[i].op = "block" /\ s[j].op = "block" /\ s[i].c = s[j].c /\ s[i].c # NoCycle => i = j

\* A blocking close in the calls s waits for c.
Blocks(s, c) == \E i \in DOMAIN s : s[i].op = "block" /\ s[i].c = c

\* t has no blocked calls but those of s.
FewerBlocks(s, t) == (Alone(s) => Alone(t)) /\ \A c : Blocks(t, c) => Blocks(s, c)

\* The positions of a list with an element put before it.
LEMMA ConsAt ==
    ASSUME NEW T, NEW s \in Seq(T), NEW f
    PROVE  /\ DOMAIN (<<f>> \o s) = 1..(Len(s) + 1)
           /\ (<<f>> \o s)[1] = f
           /\ \A i \in 1..Len(s) : (<<f>> \o s)[i + 1] = s[i]
           /\ \A i \in 2..(Len(s) + 1) : (<<f>> \o s)[i] = s[i - 1]
  OBVIOUS

\* What blocks below the top blocks in the whole stack.
LEMMA BlocksTail ==
    ASSUME NEW T, NEW s \in Seq(T), NEW f PROVE FewerBlocks(<<f>> \o s, s)
<1> DEFINE t == <<f>> \o s
<1>1. DOMAIN s = 1..Len(s) /\ Len(s) \in Nat
  OBVIOUS
<1>2. \A i \in DOMAIN s : i + 1 \in DOMAIN t /\ t[i + 1] = s[i]
  BY <1>1, ConsAt
<1> HIDE DEF t
<1>3. \A c : Blocks(s, c) => Blocks(t, c)
  BY <1>2 DEF Blocks
<1>4. Alone(t) => Alone(s)
  BY <1>1, <1>2 DEF Alone
<1>5. FewerBlocks(t, s)
  BY <1>3, <1>4 DEF FewerBlocks
<1> QED
  BY <1>5 DEF t

\* A call that does not block adds nothing that blocks.
LEMMA BlocksCons ==
    ASSUME NEW T, NEW s \in Seq(T), NEW f, f.op # "block" PROVE FewerBlocks(s, <<f>> \o s)
<1> DEFINE t == <<f>> \o s
<1>1. DOMAIN s = 1..Len(s) /\ Len(s) \in Nat
  OBVIOUS
<1>2. \A i \in DOMAIN t : t[i].op = "block" => i - 1 \in DOMAIN s /\ t[i] = s[i - 1]
  BY <1>1, ConsAt
<1>3. DOMAIN t \subseteq Nat
  BY <1>1, ConsAt
<1> HIDE DEF t
<1>4. \A c : Blocks(t, c) => Blocks(s, c)
  BY <1>2 DEF Blocks
<1>5. Alone(s) => Alone(t)
  BY <1>2, <1>3 DEF Alone
<1>6. FewerBlocks(s, t)
  BY <1>4, <1>5 DEF FewerBlocks
<1> QED
  BY <1>6 DEF t

\* s with frames pushed onto it that are not blocked calls.
Atop(s, t) ==
    \/ t = s
    \/ \E f : f.op # "block" /\ t = <<f>> \o s
    \/ \E f, g : f.op # "block" /\ g.op # "block" /\ t = <<f, g>> \o s

\* Nor do the calls of a step that only pushes or pops such calls.
LEMMA BlocksAtop ==
    ASSUME NEW s \in Seq(FrameType), NEW t, Atop(s, t) PROVE FewerBlocks(s, t)
<1>1. CASE t = s
  BY <1>1 DEF FewerBlocks
<1>2. ASSUME NEW f, f.op # "block", t = <<f>> \o s PROVE FewerBlocks(s, t)
  BY <1>2, BlocksCons
<1>3. ASSUME NEW f, NEW g, f.op # "block", g.op # "block", t = <<f, g>> \o s
      PROVE  FewerBlocks(s, t)
  <2> DEFINE T == FrameType \cup {f, g}
  <2>1. s \in Seq(T) /\ f \in T /\ g \in T
    OBVIOUS
  <2> HIDE DEF T
  <2>2. <<g>> \o s \in Seq(T)
    BY <2>1
  <2>3. PICK u \in Seq(T) : u = <<g>> \o s
    BY <2>2
  <2>4. t = <<f>> \o u
    BY <1>3, <2>1, <2>3, Cons2Facts
  <2>5. FewerBlocks(s, u)
    BY <1>3, <2>1, <2>3, BlocksCons
  <2>6. FewerBlocks(u, t)
    BY <1>3, <2>4, BlocksCons
  <2> QED
    BY <2>5, <2>6 DEF FewerBlocks
<1> QED
  BY <1>1, <1>2, <1>3 DEF Atop

\* The same when the top has returned first.
LEMMA BlocksBelow ==
    ASSUME TypeOK, stack # <<>>, Atop(Below, stack') PROVE FewerBlocks(stack, stack')
<1>1. PICK b \in Seq(FrameType) : b = Below
  BY TopFacts
<1>2. PICK f : f = Top
  OBVIOUS
<1>3. stack = <<f>> \o b
  BY <1>1, <1>2, TopFacts
<1>4. FewerBlocks(<<f>> \o b, b)
  BY BlocksTail
<1>5. FewerBlocks(b, stack')
  BY <1>1, BlocksAtop
<1> QED
  BY <1>3, <1>4, <1>5 DEF FewerBlocks

\* The steps other than closing a blocking cycle and returning from a callback.
LEMMA BlocksStep ==
    ASSUME TypeOK, Next, ~CallbackReturn,
           \A c \in Cycles, check \in BOOLEAN : ~CycleClose(c, check) \/ ~cyc[c].blk
    PROVE  FewerBlocks(stack, stack')
<1>1. PICK s \in Seq(FrameType) : s = stack
  BY DEF TypeOK
<1>2. /\ Check.op # "block" /\ Run.op # "block"
      /\ \A pc : Frame("run", pc).op # "block" /\ Frame("check", pc).op # "block"
  BY DEF Check, Run, Frame
<1>3. \A c, st : Calling(c, st).op # "block"
  BY DEF Calling, Frame
<1>4. \A d : AtDevice(d).op # "block" /\ [Frame("open", "") EXCEPT !.d = d].op # "block"
  BY DEF AtDevice, Frame
<1>5. \A d, todo : /\ [Frame("close", "") EXCEPT !.d = d, !.todo = todo].op # "block"
                   /\ [Frame("flush", "") EXCEPT !.d = d, !.todo = todo].op # "block"
  BY DEF Frame
<1>6. CASE Atop(s, stack')
  BY <1>1, <1>6, BlocksAtop
<1>7. CASE stack # <<>> /\ Atop(Below, stack')
  BY <1>7, BlocksBelow
<1>8. CASE Client
  <2>1. ASSUME NEW c \in Cycles, NEW check \in BOOLEAN, CycleClose(c, check) PROVE stack' = s
    BY <1>1, <2>1 DEF CycleClose
  <2>2. CASE stack' = s
    BY <1>6, <2>2 DEF Atop
  <2>3. CASE SocketRun \/ SocketCheck
    <3>1. Atop(s, stack')
      BY <1>1, <1>2, <2>3 DEF SocketRun, SocketCheck, Atop
    <3> QED
      BY <1>6, <3>1
  <2>4. ASSUME NEW d \in Devices, DeviceOpen(d) \/ DeviceClose(d) PROVE FewerBlocks(stack, stack')
    <3>1. Atop(s, stack')
      BY <1>1, <1>4, <1>5, <2>4 DEF DeviceOpen, DeviceClose, Close, Atop
    <3> QED
      BY <1>6, <3>1
  <2> QED
    BY <1>1, <1>8, <2>1, <2>2, <2>3, <2>4
       DEF Client, CycleOpen, DoOp, CycleAbort, SocketTimeout, SocketClose, SocketOpen
<1>9. CASE Network
  <2>1. stack' = s \/ \E c, st : stack' = <<Calling(c, st)>> \o s
    BY <1>1, <1>9, ZenonT(60) DEF Network, UnmatchedAnswer, LinkBreak, Answer
  <2>2. Atop(s, stack')
    BY <1>3, <2>1 DEF Atop
  <2> QED
    BY <1>6, <2>2
<1>10. CASE Library
  <2>1. CASE BlockRun \/ OpenRun \/ Expire
    <3>1. Atop(s, stack')
      BY <1>1, <1>2, <1>3, <2>1 DEF BlockRun, OpenRun, Expire, Atop
    <3> QED
      BY <1>6, <3>1
  <2>2. CASE BlockReturn \/ RunReturn \/ FlushEnd \/ OpenOk \/ CloseEnd
    <3>1. stack # <<>> /\ Atop(Below, stack')
      BY <2>2 DEF BlockReturn, RunReturn, FlushEnd, OpenOk, CloseEnd, Running, Atop
    <3> QED
      BY <1>7, <3>1
  <2>3. CASE RunWait \/ ExpireDone \/ TopDone \/ DeviceDone
    <3>1. stack # <<>> /\ Atop(Below, stack')
      BY <1>2, <1>4, <2>3 DEF RunWait, ExpireDone, TopDone, DeviceDone, Running, Atop
    <3> QED
      BY <1>7, <3>1
  <2>4. CASE OpenFail
    <3>1. stack # <<>> /\ Atop(Below, stack')
      BY <1>5, <2>4 DEF OpenFail, Close, Running, Atop
    <3> QED
      BY <1>7, <3>1
  <2>5. ASSUME FlushSkipped \/ FlushBegin \/ FlushCycle \/ CloseCycle
        PROVE  FewerBlocks(stack, stack')
    <3>1. stack # <<>> /\ Top.op # "block"
      BY <2>5 DEF FlushSkipped, FlushBegin, FlushCycle, CloseCycle, Running, Top
    <3>2. PICK t \in FrameType : t = Top
      BY <3>1, TopFacts
    <3>3. /\ [t EXCEPT !.pc = "next"].op = t.op
          /\ [t EXCEPT !.todo = Tail(@)].op = t.op
      BY DEF FrameType, FrameRecord
    <3>4. PICK g : g = [Top EXCEPT !.pc = "next"] /\ g.op # "block"
      BY <3>1, <3>2, <3>3
    <3>5. PICK h : h = [Top EXCEPT !.todo = Tail(@)] /\ h.op # "block"
      BY <3>1, <3>2, <3>3
    <3>6. CASE FlushSkipped
      BY <1>7, <3>1, <3>4, <3>6 DEF FlushSkipped, Atop
    <3>7. CASE FlushBegin
      BY <1>5, <1>7, <3>1, <3>4, <3>7 DEF FlushBegin, Atop
    <3>8. CASE CloseCycle
      BY <1>3, <1>7, <3>1, <3>5, <3>8 DEF CloseCycle, Atop
    <3>9. CASE FlushCycle
      <4>1. PICK b \in Seq(FrameType) : b = Below
        BY <3>1, TopFacts
      <4>2. stack' = <<h>> \o b \/ \E c, st : stack' = <<Calling(c, st)>> \o (<<h>> \o b)
        BY <3>5, <3>9, <4>1 DEF FlushCycle
      <4>3. \A k : <<k>> \o (<<h>> \o b) = <<k, h>> \o b
        OBVIOUS
      <4>4. Atop(b, stack')
        BY <1>3, <3>5, <4>2, <4>3 DEF Atop
      <4> QED
        BY <1>7, <3>1, <4>1, <4>4
    <3> QED
      BY <2>5, <3>6, <3>7, <3>8, <3>9
  <2> QED
    BY <1>10, <2>1, <2>2, <2>3, <2>4, <2>5 DEF Library
<1> QED
  BY <1>8, <1>9, <1>10 DEF Next

\* BlockedWaits, for a list of frames.
Blocked(s) ==
    /\ Alone(s)
    /\ \A c : c # NoCycle /\ Blocks(s, c) => cyc[c].st = "closed" /\ cyc[c].blk

\* BlockedWaits speaks of the stack and the cycles that block.
LEMMA BlockedIs == BlockedWaits <=> Blocked(stack)
<1>1. ASSUME BlockedWaits PROVE Blocked(stack)
  BY <1>1 DEF BlockedWaits, Blocked, Alone, Blocks, Suspended
<1>2. ASSUME Blocked(stack) PROVE BlockedWaits
  BY <1>2 DEF BlockedWaits, Blocked, Alone, Blocks, Suspended
<1> QED
  BY <1>1, <1>2

\* BlockedWaits in the next state.
LEMMA BlockedNext ==
    ASSUME Alone(stack'),
           \A x : x # NoCycle /\ Blocks(stack', x) => cyc'[x].st = "closed" /\ cyc'[x].blk
    PROVE  BlockedWaits'
BY DEF BlockedWaits, Alone, Blocks, Suspended

\* Only the return of its callback ends a blocking cycle.
LEMMA BlockCycles ==
    ASSUME TypeOK, Next, ~CallbackReturn
    PROVE  \A c \in Cycles : cyc[c].st = "closed" /\ cyc[c].blk
                                => cyc'[c].st = "closed" /\ cyc'[c].blk
<1> DEFINE Q == \A c \in Cycles : cyc[c].st = "closed" /\ cyc[c].blk
                                     => cyc'[c].st = "closed" /\ cyc'[c].blk
<1>1. cyc \in [Cycles -> CycleType]
  BY DEF TypeOK
<1>2. CASE cyc' = cyc
  BY <1>2
<1>3. ASSUME NEW c \in Cycles, cyc[c].st # "closed", NEW r, cyc' = [cyc EXCEPT ![c] = r] PROVE Q
  BY <1>1, <1>3
<1>4. ASSUME NEW c \in Cycles, NEW k \in OpKinds, DoOp(c, k) PROVE Q
  <2>1. cyc[c].st = "open"
    BY <1>4 DEF DoOp
  <2>2. \/ cyc' = [cyc EXCEPT ![c].ops = @ \cup {k}]
        \/ cyc' = [cyc EXCEPT ![c].ops = {}, ![c].dead = TRUE]
    BY <1>4 DEF DoOp
  <2> QED
    BY <1>1, <2>1, <2>2
<1>5. CASE FlushCycle
  <2> DEFINE c == Head(Top.todo)
  <2>1. \/ cyc' = cyc
        \/ cyc' = [cyc EXCEPT ![c].sent = TRUE]
        \/ \E want : cyc' = [cyc EXCEPT ![c].sent = TRUE, ![c].want = want]
    BY <1>5 DEF FlushCycle
  <2> HIDE DEF c
  <2>2. CASE cyc' = [cyc EXCEPT ![c].sent = TRUE]
    BY <1>1, <2>2 DEF CycleType
  <2>3. ASSUME NEW want, cyc' = [cyc EXCEPT ![c].sent = TRUE, ![c].want = want] PROVE Q
    BY <1>1, <2>3 DEF CycleType
  <2> QED
    BY <1>2, <2>1, <2>2, <2>3
<1>6. ASSUME NEW c \in Cycles, NEW part \in {"value", "status"}, NEW more \in BOOLEAN,
             NEW err \in BOOLEAN, Answer(c, part, more, err)
      PROVE  Q
  <2>1. cyc' = cyc \/ \E want : cyc' = [cyc EXCEPT ![c].want = want]
    BY <1>6 DEF Answer
  <2>2. ASSUME NEW want, cyc' = [cyc EXCEPT ![c].want = want] PROVE Q
    BY <1>1, <2>2 DEF CycleType
  <2> QED
    BY <1>2, <2>1, <2>2
<1>7. ASSUME NEW c \in Cycles, NEW check \in BOOLEAN, CycleClose(c, check) PROVE Q
  <2>1. cyc[c].st = "open" /\ \A x \in Cycles : x # c => cyc'[x] = cyc[x]
    BY <1>1, <1>7 DEF CycleClose
  <2> QED
    BY <2>1
<1>8. ASSUME NEW c \in Cycles, CycleAbort(c) \/ \E d \in Devices, blk \in BOOLEAN :
                                                  CycleOpen(c, d, blk)
      PROVE  Q
  BY <1>3, <1>8 DEF CycleAbort, CycleOpen
<1>9. CASE Client
  BY <1>2, <1>4, <1>7, <1>8, <1>9 DEF Client, SocketRun, SocketCheck, SocketTimeout, DeviceOpen,
     DeviceClose, SocketClose, SocketOpen
<1>10. CASE Library
  BY <1>2, <1>5, <1>10 DEF Library, BlockRun, BlockReturn, RunWait, RunReturn, Expire,
     ExpireDone, TopDone, DeviceDone, FlushSkipped, FlushBegin, FlushEnd, OpenRun, OpenOk,
     OpenFail, CloseCycle, CloseEnd
<1>11. CASE Network
  BY <1>2, <1>6, <1>11 DEF Network, UnmatchedAnswer, LinkBreak
<1> QED
  BY <1>9, <1>10, <1>11 DEF Next

\* A cycle is closed by a call that blocks.
LEMMA BlockClosed ==
    ASSUME TypeOK, BlockedWaits, NEW c \in Cycles, NEW check \in BOOLEAN,
           CycleClose(c, check), cyc[c].blk,
           \A x \in Cycles : cyc[x].st = "closed" /\ cyc[x].blk
                                => cyc'[x].st = "closed" /\ cyc'[x].blk
    PROVE  BlockedWaits'
<1>1. PICK s \in Seq(FrameType) : s = stack
  BY DEF TypeOK
<1> DEFINE f == [Frame("block", "") EXCEPT !.c = c]
<1>2. f.op = "block" /\ f.c = c
  BY DEF Frame
<1>3. stack' = <<f>> \o s
  BY <1>1 DEF CycleClose
<1> HIDE DEF f
<1>4. cyc[c].st = "open" /\ cyc'[c].st = "closed" /\ cyc'[c].blk
  <2>1. PICK r \in CycleType : r = cyc[c]
    BY DEF TypeOK
  <2> DEFINE n == [r EXCEPT !.st = "closed", !.chk = check /\ r.ops # {}]
  <2>2. n.st = "closed" /\ n.blk = r.blk
    BY DEF CycleType
  <2>3. cyc' = [cyc EXCEPT ![c] = n]
    BY <2>1 DEF CycleClose, TypeOK
  <2> HIDE DEF n
  <2> QED
    BY <2>1, <2>2, <2>3 DEF CycleClose, TypeOK
<1>5. Blocked(s)
  BY <1>1, BlockedIs
<1>6. ~Blocks(s, c)
  <2>1. c # NoCycle
    BY SocketAssumption
  <2> QED
    BY <1>4, <1>5, <2>1 DEF Blocked
<1>7. /\ DOMAIN s = 1..Len(s) /\ Len(s) \in Nat /\ DOMAIN (<<f>> \o s) = 1..(Len(s) + 1)
      /\ (<<f>> \o s)[1] = f
      /\ \A i \in 2..(Len(s) + 1) : (<<f>> \o s)[i] = s[i - 1]
  BY ConsAt
<1>8. PICK t : t = stack'
  OBVIOUS
<1>9. /\ \A i \in DOMAIN t : i \in Nat /\ (i = 1 \/ (i - 1 \in DOMAIN s /\ t[i] = s[i - 1]))
      /\ t[1] = f
  BY <1>3, <1>7, <1>8
<1>10. \A x : Blocks(t, x) => Blocks(s, x) \/ x = c
  BY <1>2, <1>9 DEF Blocks
<1>11. Alone(t)
  BY <1>2, <1>5, <1>6, <1>9 DEF Alone, Blocked, Blocks
<1>12. ASSUME NEW x, x # NoCycle, Blocks(t, x) PROVE cyc'[x].st = "closed" /\ cyc'[x].blk
  <2>1. CASE x = c
    BY <1>4, <2>1
  <2>2. CASE Blocks(s, x)
    <3>1. cyc[x].st = "closed" /\ cyc[x].blk
      BY <1>5, <1>12, <2>2 DEF Blocked
    <3>2. x \in Cycles
      <4>1. PICK i \in DOMAIN s : s[i].c = x
        BY <2>2 DEF Blocks
      <4>2. s[i] \in FrameType
        OBVIOUS
      <4> QED
        BY <1>12, <4>1, <4>2 DEF FrameType, FrameRecord
    <3> QED
      BY <3>1, <3>2
  <2> QED
    BY <1>10, <1>12, <2>1, <2>2
<1>13. /\ Alone(stack')
       /\ \A x : x # NoCycle /\ Blocks(stack', x) => cyc'[x].st = "closed" /\ cyc'[x].blk
  BY <1>8, <1>11, <1>12
<1> QED
  BY <1>13, BlockedNext

\* The callback of a cycle returns: the call that waits for it is told.
LEMMA BlockReturned ==
    ASSUME TypeOK, BlockedWaits, CallbackReturn
    PROVE  BlockedWaits'
<1>1. PICK s \in Seq(FrameType) : s = stack
  BY DEF TypeOK
<1>2. stack # <<>>
  BY DEF CallbackReturn, Running
<1>3. PICK b \in Seq(FrameType) : b = Below
  BY <1>2, TopFacts
<1>4. PICK f : f = Top
  OBVIOUS
<1>5. stack = <<f>> \o b
  BY <1>2, <1>3, <1>4, TopFacts
<1>6. FewerBlocks(<<f>> \o b, b)
  BY BlocksTail
<1>7. Alone(b) /\ \A c : c # NoCycle /\ Blocks(b, c) => cyc[c].st = "closed" /\ cyc[c].blk
  BY <1>5, <1>6, BlockedIs DEF Blocked, FewerBlocks
<1>8. PICK t : t = stack'
  OBVIOUS
<1>9. /\ DOMAIN t = DOMAIN b
      /\ \A i \in DOMAIN b : t[i] = IF b[i].op = "block" /\ b[i].c = f.c
                                    THEN [b[i] EXCEPT !.c = NoCycle] ELSE b[i]
  BY <1>3, <1>4, <1>8 DEF CallbackReturn
<1>10. \A i \in DOMAIN b : b[i] \in FrameType
  OBVIOUS
<1>11. \A i \in DOMAIN b : t[i].op = b[i].op /\ (t[i].c = b[i].c \/ t[i].c = NoCycle)
  BY <1>9, <1>10 DEF FrameType, FrameRecord
<1>12. \A i \in DOMAIN b : t[i].op = "block" /\ t[i].c # NoCycle => b[i].c # f.c /\ t[i].c = b[i].c
  BY <1>9, <1>10, <1>11 DEF FrameType, FrameRecord
<1>13. Alone(t)
  BY <1>7, <1>9, <1>11, <1>12 DEF Alone
<1>14. ASSUME NEW x, x # NoCycle, Blocks(t, x) PROVE cyc'[x].st = "closed" /\ cyc'[x].blk
  <2>1. PICK i \in DOMAIN b : b[i].op = "block" /\ b[i].c = x /\ x # f.c
    BY <1>9, <1>11, <1>12, <1>14 DEF Blocks
  <2>2. x \in Cycles
    BY <1>10, <1>14, <2>1 DEF FrameType, FrameRecord
  <2>3. cyc' = [cyc EXCEPT ![f.c] = FreeCycle]
    BY <1>4 DEF CallbackReturn
  <2>4. cyc'[x] = cyc[x]
    BY <2>1, <2>2, <2>3 DEF TypeOK
  <2> QED
    BY <1>7, <1>14, <2>1, <2>4 DEF Blocks
<1> QED
  BY <1>8, <1>13, <1>14, BlockedNext

\* Every step keeps BlockedWaits.
LEMMA BlockStep ==
    ASSUME TypeOK, BlockedWaits, Next
    PROVE  BlockedWaits'
<1>1. CASE CallbackReturn
  BY <1>1, BlockReturned
<1>2. ASSUME ~CallbackReturn PROVE BlockedWaits'
  <2>1. \A c \in Cycles : cyc[c].st = "closed" /\ cyc[c].blk
                             => cyc'[c].st = "closed" /\ cyc'[c].blk
    BY <1>2, BlockCycles
  <2>2. ASSUME NEW c \in Cycles, NEW check \in BOOLEAN, CycleClose(c, check), cyc[c].blk
        PROVE  BlockedWaits'
    BY <2>1, <2>2, BlockClosed
  <2>3. ASSUME \A c \in Cycles, check \in BOOLEAN : ~CycleClose(c, check) \/ ~cyc[c].blk
        PROVE  BlockedWaits'
    <3>1. FewerBlocks(stack, stack')
      BY <1>2, <2>3, BlocksStep
    <3>2. Blocked(stack)
      BY BlockedIs
    <3>3. ASSUME NEW x, x # NoCycle, Blocks(stack, x) PROVE x \in Cycles
      <4>1. PICK i \in DOMAIN stack : stack[i].c = x
        BY <3>3 DEF Blocks
      <4>2. stack[i] \in FrameType
        BY <4>1 DEF TypeOK
      <4> QED
        BY <3>3, <4>1, <4>2 DEF FrameType, FrameRecord
    <3>4. \A x : x # NoCycle /\ Blocks(stack', x) => cyc'[x].st = "closed" /\ cyc'[x].blk
      BY <2>1, <3>1, <3>2, <3>3 DEF FewerBlocks, Blocked
    <3>5. Alone(stack')
      BY <3>1, <3>2 DEF FewerBlocks, Blocked
    <3> QED
      BY <3>4, <3>5, BlockedNext
  <2> QED
    BY <2>2, <2>3
<1> QED
  BY <1>1, <1>2

\* BlockedWaits: whatever a client does in its callbacks, no blocked caller
\* of eb_cycle_close loses its status or gets that of another call.
THEOREM BlockedWaitsHolds == Spec => []BlockedWaits
<1>1. Init => BlockedWaits
  BY DEF Init, BlockedWaits, Suspended
<1>2. TypeOK /\ BlockedWaits /\ [Next]_vars => BlockedWaits'
  <2>1. ASSUME BlockedWaits, UNCHANGED vars PROVE BlockedWaits'
    BY <2>1 DEF vars, BlockedWaits, Suspended
  <2> QED
    BY <2>1, BlockStep
<1> QED
  BY <1>1, <1>2, TypeCorrect, PTL DEF Spec
=============================================================================

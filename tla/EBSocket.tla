------------------------------ MODULE EBSocket ------------------------------
(***************************************************************************)
(* The master side of an Etherbone socket: cycles (api/glue/cycle.c), the  *)
(* devices they are closed onto (device.c), the flush that sends them      *)
(* (format/master.c), the responses that complete them (readwrite.c,       *)
(* format/slave.c) and the event loop (socket.c, transport/run.c).         *)
(*                                                                         *)
(* The library has one thread, and its difficulty is re-entrancy: every    *)
(* callback may call back into it while loops over its lists are suspended *)
(* below.  The suspended calls are the frames of "stack" (its head runs).  *)
(* A response is identified with its cycle: it is allocated, chained and   *)
(* freed with it.                                                          *)
(***************************************************************************)
EXTENDS Integers, FiniteSets, Sequences, SequencesExt, Lists

CONSTANTS
    Devices,        \* indices eb_new_device can return
    Cycles,         \* indices eb_new_cycle can return
    NoDev, NoCycle, \* EB_NULL
    Packet,         \* devices on a packet transport (mtu # 0): their messages
                    \* arrive at the transport and their link never breaks
    OpKinds,        \* operations clients queue: "read" and "write" on the bus,
                    \* "cread" and "cwrite" in the remote's config space, "bad"
                    \* (fails the flush's checks), "huge" (bus writes that exceed
                    \* the mtu)
    UnreadyMod,     \* device.unready is a uint8_t: 256
    Oom,            \* eb_new_operation and eb_new_response may return EB_NULL
    FlushReentry,   \* clients close cycles onto a device from a callback that
                    \* this device's flush makes
    CloseHeld,      \* clients close, from a callback, a device that a suspended
                    \* loop goes on with.  With TRUE the steps say nothing any more
                    \* once NoDangling fails: the code then reads freed memory
    MaxDepth        \* bound on the calls suspended when a client starts one

ASSUME SocketAssumption ==
    /\ NoDev \notin Devices
    /\ NoCycle \notin Cycles
    /\ Packet \subseteq Devices
    /\ OpKinds \subseteq {"read", "write", "cread", "cwrite", "bad", "huge"}
    /\ UnreadyMod \in Nat \ {0}
    /\ MaxDepth \in Nat
    /\ Oom \in BOOLEAN
    /\ FlushReentry \in BOOLEAN
    /\ CloseHeld \in BOOLEAN

VARIABLES
    sockOpen,   \* the socket is allocated
    devst,      \* "free", "opening" (inside eb_device_open), "active", "closing"
    devlist,    \* socket.first_device: newest first
    link,       \* device.link # EB_NULL
    unready,    \* device.unready
    ready,      \* device.un_link.ready: newest first
    cyc,        \* the cycles
    first,      \* socket.first_response: oldest first
    last,       \* socket.last_response: newest first
    stack       \* the library calls in progress and the client callback on top

devVars == <<sockOpen, devst, devlist, link>>
vars == <<sockOpen, devst, devlist, link, unready, ready, cyc, first, last, stack>>

-----------------------------------------------------------------------------
FreeCycle == [st |-> "free", dev |-> NoDev, blk |-> FALSE, ops |-> {},
              dead |-> FALSE, chk |-> FALSE, want |-> {}, sent |-> FALSE]

\* A suspended call.  d, nxt: devicep and next_devicep; c: the cycle called
\* back or waited for; todo: the local list still to be processed; st: the
\* status given to the callback.
Frame(op, pc) == [op |-> op, pc |-> pc, d |-> NoDev, nxt |-> NoDev,
                  c |-> NoCycle, todo |-> <<>>, st |-> "OK"]

Running(op, pc) == stack # <<>> /\ Head(stack).op = op /\ Head(stack).pc = pc
Top == Head(stack)
Below == Tail(stack)

Run == Frame("run", "wait")
Check == Frame("check", "expire")
Calling(c, st) == [Frame("cb", "") EXCEPT !.c = c, !.st = st]

\* The device after d in the socket's list.
NextDevice(d) ==
    LET before == {i \in 1..(Len(devlist) - 1) : devlist[i] = d}
    IN  IF before = {} THEN NoDev ELSE devlist[(CHOOSE i \in before : TRUE) + 1]

\* The for loop over the connections reaches device d.
AtDevice(d) == [Frame("check", "device") EXCEPT !.d = d, !.nxt = NextDevice(d)]

Init ==
    /\ sockOpen = TRUE
    /\ devst = [d \in Devices |-> "free"]
    /\ devlist = <<>>
    /\ link = [d \in Devices |-> FALSE]
    /\ unready = [d \in Devices |-> 0]
    /\ ready = [d \in Devices |-> <<>>]
    /\ cyc = [c \in Cycles |-> FreeCycle]
    /\ first = <<>>
    /\ last = <<>>
    /\ stack = <<>>

-----------------------------------------------------------------------------
(* When a client may call.  eb_block_f, the callback of blocking cycles,   *)
(* only stores the status.  The other conditions are obligations of the    *)
(* client that the code neither checks nor states and cannot do without,   *)
(* because of what a suspended call still holds; FlushReentry and          *)
(* CloseHeld lift two of them.                                             *)

ClientTurn == stack = <<>> \/ (Running("cb", "") /\ ~cyc[Top.c].blk)

Suspended(op) == {i \in DOMAIN stack : stack[i].op = op}

\* eb_socket_run and what loops over it: not below a flush (the ready list
\* is reversed in place) or a close (the device looks like a passive one).
MayRun ==
    /\ ClientTurn
    /\ sockOpen
    /\ Len(stack) < MaxDepth
    /\ Suspended("flush") = {} /\ Suspended("close") = {}

\* eb_device_close: the well-behaved client does not close a device that a
\* suspended call is going to use again.
MayClose(d) ==
    /\ ClientTurn
    /\ devst[d] = "active"
    /\ CloseHeld \/ \A i \in Suspended("flush") \cup Suspended("close") \cup Suspended("check") :
          d \notin {stack[i].d, stack[i].nxt}

\* eb_cycle_close onto d: not from a callback of d's own flush.
MayQueue(d) ==
    /\ ClientTurn
    /\ FlushReentry \/ \A i \in Suspended("flush") : stack[i].d # d

-----------------------------------------------------------------------------
(* Cycles: api/glue/cycle.c                                                *)

\* blk: opened with no callback, so that closing it blocks.
CycleOpen(c, d, blk) ==
    /\ ClientTurn
    /\ devst[d] = "active"
    /\ cyc[c].st = "free"
    /\ cyc' = [cyc EXCEPT ![c] = [FreeCycle EXCEPT !.st = "open", !.dev = d, !.blk = blk]]
    /\ unready' = [unready EXCEPT ![d] = (@ + 1) % UnreadyMod]
    /\ UNCHANGED <<devVars, ready, first, last, stack>>

\* (mutant of DoOp) a cycle that ran out of memory keeps its operations.
DoOpKeepsOps(c, k) ==
    /\ ClientTurn
    /\ cyc[c].st = "open"
    /\ \/ ~cyc[c].dead /\ cyc' = [cyc EXCEPT ![c].ops = @ \cup {k}]
       \/ Oom /\ cyc' = [cyc EXCEPT ![c].dead = TRUE]
    /\ UNCHANGED <<devVars, unready, ready, first, last, stack>>

\* eb_cycle_doop: out of memory frees the operations and marks the cycle dead;
\* a dead cycle takes no more operations.
DoOp(c, k) ==
    /\ ClientTurn
    /\ cyc[c].st = "open"
    /\ \/ ~cyc[c].dead /\ cyc' = [cyc EXCEPT ![c].ops = @ \cup {k}]
       \/ Oom /\ cyc' = [cyc EXCEPT ![c].ops = {}, ![c].dead = TRUE]
    /\ UNCHANGED <<devVars, unready, ready, first, last, stack>>

\* (mutant of CycleAbort) the device goes on counting the cycle.
CycleAbortCounted(c) ==
    /\ ClientTurn
    /\ cyc[c].st = "open"
    /\ cyc' = [cyc EXCEPT ![c] = FreeCycle]
    /\ UNCHANGED <<devVars, unready, ready, first, last, stack>>

CycleAbort(c) ==
    /\ ClientTurn
    /\ cyc[c].st = "open"
    /\ unready' = [unready EXCEPT ![cyc[c].dev] = (@ - 1) % UnreadyMod]
    /\ cyc' = [cyc EXCEPT ![c] = FreeCycle]
    /\ UNCHANGED <<devVars, ready, first, last, stack>>

\* eb_cycle_close (check) and eb_cycle_close_silently (~check).
CycleClose(c, check) ==
    LET d == cyc[c].dev IN
    /\ cyc[c].st = "open"
    /\ MayQueue(d)
    /\ cyc[c].blk => MayRun
    /\ cyc' = [cyc EXCEPT ![c].st = "closed", ![c].chk = check /\ cyc[c].ops # {}]
    /\ ready' = [ready EXCEPT ![d] = <<c>> \o @]
    /\ unready' = [unready EXCEPT ![d] = (@ - 1) % UnreadyMod]
    /\ stack' = IF cyc[c].blk
                THEN <<[Frame("block", "") EXCEPT !.c = c]>> \o stack
                ELSE stack
    /\ UNCHANGED <<devVars, first, last>>

\* eb_cycle_block: while (status > 0) eb_socket_run(...).  The frame forgets
\* its cycle when eb_block_f stores the status.
BlockRun ==
    /\ Running("block", "")
    /\ Top.c # NoCycle
    /\ stack' = <<Check, Run>> \o stack
    /\ UNCHANGED <<devVars, unready, ready, cyc, first, last>>

BlockReturn ==
    /\ Running("block", "")
    /\ Top.c = NoCycle
    /\ stack' = Below
    /\ UNCHANGED <<devVars, unready, ready, cyc, first, last>>

\* (mutant of CallbackReturn) the status does not reach the blocked caller.
CallbackReturnSilent ==
    /\ Running("cb", "")
    /\ cyc' = [cyc EXCEPT ![Top.c] = FreeCycle]
    /\ stack' = Below
    /\ UNCHANGED <<devVars, unready, ready, first, last>>

\* Every callback is followed by eb_cycle_destroy, eb_free_cycle and, if
\* the cycle was sent, eb_free_response.
CallbackReturn ==
    /\ Running("cb", "")
    /\ cyc' = [cyc EXCEPT ![Top.c] = FreeCycle]
    /\ stack' = [i \in DOMAIN Below |->
                    IF Below[i].op = "block" /\ Below[i].c = Top.c
                    THEN [Below[i] EXCEPT !.c = NoCycle]
                    ELSE Below[i]]
    /\ UNCHANGED <<devVars, unready, ready, first, last>>

-----------------------------------------------------------------------------
(* The event loop: eb_socket_run is check, timeout, select, check.         *)

SocketRun ==
    /\ MayRun
    /\ stack' = <<Check, Run>> \o stack
    /\ UNCHANGED <<devVars, unready, ready, cyc, first, last>>

\* eb_socket_check called by a client that has its own event loop.
SocketCheck ==
    /\ MayRun
    /\ stack' = <<Check>> \o stack
    /\ UNCHANGED <<devVars, unready, ready, cyc, first, last>>

\* (mutant of Flipped) eb_socket_timeout looks at the first list only.
FlippedNever == UNCHANGED <<first, last>>

\* eb_socket_timeout: flip the newer responses when no older ones are left.
Flipped ==
    /\ first' = IF first = <<>> THEN Reverse(last) ELSE first
    /\ last' = IF first = <<>> THEN <<>> ELSE last

RunWait ==
    /\ Running("run", "wait")
    /\ Flipped
    /\ stack' = <<Check, Frame("run", "done")>> \o Below
    /\ UNCHANGED <<devVars, unready, ready, cyc>>

\* ... called by a client that has its own event loop.
SocketTimeout ==
    /\ ClientTurn
    /\ sockOpen
    /\ Flipped
    /\ UNCHANGED <<devVars, unready, ready, cyc, stack>>

RunReturn ==
    /\ Running("run", "done")
    /\ stack' = Below
    /\ UNCHANGED <<devVars, unready, ready, cyc, first, last>>

-----------------------------------------------------------------------------
(* eb_socket_check: expired responses, transports, devices.                *)

\* (mutant of Expire) the response stays in the list during its callback.
ExpireKeepsFirst ==
    /\ Running("check", "expire")
    /\ first # <<>>
    /\ UNCHANGED first
    /\ stack' = <<Calling(Head(first), "TIMEOUT")>> \o stack
    /\ UNCHANGED <<devVars, unready, ready, cyc, last>>

\* Whether the oldest response's deadline has passed is up to the clock.
Expire ==
    /\ Running("check", "expire")
    /\ first # <<>>
    /\ first' = Tail(first)
    /\ stack' = <<Calling(Head(first), "TIMEOUT")>> \o stack
    /\ UNCHANGED <<devVars, unready, ready, cyc, last>>

ExpireDone ==
    /\ Running("check", "expire")
    /\ stack' = <<Frame("check", "top")>> \o Below
    /\ UNCHANGED <<devVars, unready, ready, cyc, first, last>>

TopDone ==
    /\ Running("check", "top")
    /\ stack' = IF devlist = <<>> THEN Below ELSE <<AtDevice(Head(devlist))>> \o Below
    /\ UNCHANGED <<devVars, unready, ready, cyc, first, last>>

\* The loop's increment, with next_devicep read before the device was served.
DeviceDone ==
    /\ Running("check", "next")
    /\ stack' = IF Top.nxt = NoDev THEN Below ELSE <<AtDevice(Top.nxt)>> \o Below
    /\ UNCHANGED <<devVars, unready, ready, cyc, first, last>>

-----------------------------------------------------------------------------
(* Answers: eb_device_slave hands the config-space writes of a message to  *)
(* eb_socket_write_config.  A message holds whatever the network or the    *)
(* remote put there: an answer that is late, repeated, out of order,       *)
(* unexpected, for a cycle of another device, or for none.                 *)

\* The slave is polling the transport, or the link of a stream device.
Receiving ==
    \/ Running("check", "top")
    \/ Running("check", "device") /\ Top.d \notin Packet /\ link[Top.d]

\* (mutant of Walked) last_response is chained without being reversed.
WalkedUnflipped(found) ==
    IF found THEN <<first, last>> ELSE <<first \o last, <<>>>>

\* The lists after the walk: when it runs off the first list, the flipped
\* second list is chained behind it.
Walked(found) ==
    IF found THEN <<first, last>> ELSE <<first \o Reverse(last), <<>>>>

UnmatchedAnswer ==
    /\ Receiving
    /\ LET w == Walked(FALSE) IN first' = w[1] /\ last' = w[2]
    /\ UNCHANGED <<devVars, unready, ready, cyc, stack>>

Without(s, c) == Filter(s, Cycles \ {c})

\* The cycle reads, from the bus or from config space.
Reads(c) == cyc[c].ops \cap {"read", "cread"} # {}

\* An error-flag read is inserted behind the bus operations of a cycle that is
\* checked (ops > 0); config-space operations have no error flags.
Checked(c) == cyc[c].chk /\ cyc[c].ops \cap {"read", "write", "huge"} # {}

\* part: a value read ("value", even address) or error bits ("status", odd).
\* more: the cursor of that part does not reach the end of the cycle yet.
\* err: an error bit is set.
Answer(c, part, more, err) ==
    LET w == Walked(c \in Range(first))
        fail == part \notin cyc[c].want
        left == IF more THEN cyc[c].want ELSE cyc[c].want \ {part}
        st == IF fail THEN "FAIL" ELSE IF err THEN "SEGFAULT" ELSE "OK"
    IN
    /\ Receiving
    /\ c \in Range(first) \cup Range(last)
    /\ err => Checked(c)
    /\ last' = w[2]
    /\ \/ /\ fail \/ left = {}
          /\ first' = Without(w[1], c)
          /\ stack' = <<Calling(c, st)>> \o stack
          /\ UNCHANGED cyc
       \/ /\ ~fail /\ left # {}
          /\ first' = w[1]
          /\ cyc' = [cyc EXCEPT ![c].want = left]
          /\ UNCHANGED stack
    /\ UNCHANGED <<devVars, unready, ready>>

\* The kill label of eb_device_slave for an active device: end of stream or
\* a malformed message.  eb_device_slave returns 0.
LinkBreak ==
    /\ Running("check", "device")
    /\ Top.d \notin Packet
    /\ link[Top.d]
    /\ link' = [link EXCEPT ![Top.d] = FALSE]
    /\ UNCHANGED <<sockOpen, devst, devlist, unready, ready, cyc, first, last, stack>>

-----------------------------------------------------------------------------
(* eb_device_flush: api/format/master.c                                    *)

\* A closing device is not flushed; without a link the flush gives up.
FlushSkipped ==
    /\ Running("check", "device")
    /\ devst[Top.d] = "closing" \/ ~link[Top.d]
    /\ stack' = <<[Top EXCEPT !.pc = "next"]>> \o Below
    /\ UNCHANGED <<devVars, unready, ready, cyc, first, last>>

\* The list is inverted in place into the local list the loop works on.
FlushBegin ==
    /\ Running("check", "device")
    /\ devst[Top.d] # "closing"
    /\ link[Top.d]
    /\ stack' = <<[Frame("flush", "") EXCEPT !.d = Top.d, !.todo = Reverse(ready[Top.d])],
                  [Top EXCEPT !.pc = "next"]>> \o Below
    /\ ready' = [ready EXCEPT ![Top.d] = <<>>]
    /\ UNCHANGED <<devVars, unready, cyc, first, last>>

\* (mutant of NeedsAnswer) a checked cycle of writes is not waited for.
NeedsAnswerReadsOnly(c) == Reads(c)

\* readback: there are reads, or an error-flag read was inserted.
NeedsAnswer(c) == Reads(c) \/ Checked(c)

\* The status the flush calls back with at once, or "sent"; one of a set since
\* allocating the response may fail.
Outcomes(c) ==
    CASE cyc[c].dead -> {"OOM"}
      [] ~cyc[c].dead /\ cyc[c].ops = {} -> {"OK"}
      [] "bad" \in cyc[c].ops -> {"WIDTH"}
      [] OTHER -> (IF Oom THEN {"OOM"} ELSE {})
                  \cup (IF "huge" \in cyc[c].ops /\ cyc[c].dev \in Packet
                        THEN {"OVERFLOW"} ELSE {"sent"})

\* One iteration of the loop over the cycles.
FlushCycle ==
    /\ Running("flush", "")
    /\ Top.todo # <<>>
    /\ LET c == Head(Top.todo)
           rest == <<[Top EXCEPT !.todo = Tail(@)]>> \o Below
       IN  \E st \in Outcomes(c) :
              \/ /\ st # "sent"
                 /\ stack' = <<Calling(c, st)>> \o rest
                 /\ UNCHANGED <<cyc, last>>
              \/ /\ st = "sent" /\ ~NeedsAnswer(c)
                 /\ stack' = <<Calling(c, "OK")>> \o rest
                 /\ cyc' = [cyc EXCEPT ![c].sent = TRUE]
                 /\ UNCHANGED last
              \/ /\ st = "sent" /\ NeedsAnswer(c)
                 /\ stack' = rest
                 /\ cyc' = [cyc EXCEPT ![c].sent = TRUE,
                               ![c].want = {p \in {"value", "status"} :
                                              \/ p = "value" /\ Reads(c)
                                              \/ p = "status" /\ Checked(c)}]
                 /\ last' = <<c>> \o last
    /\ UNCHANGED <<devVars, unready, ready, first>>

\* The queue is cleared, whatever was put there meanwhile.
FlushEnd ==
    /\ Running("flush", "")
    /\ Top.todo = <<>>
    /\ ready' = [ready EXCEPT ![Top.d] = <<>>]
    /\ stack' = Below
    /\ UNCHANGED <<devVars, unready, cyc, first, last>>

-----------------------------------------------------------------------------
(* Devices: api/glue/device.c                                              *)

\* The link is connected and the device listed; probing it runs the socket.
DeviceOpen(d) ==
    /\ MayRun
    /\ devst[d] = "free"
    /\ devst' = [devst EXCEPT ![d] = "opening"]
    /\ link' = [link EXCEPT ![d] = TRUE]
    /\ devlist' = <<d>> \o devlist
    /\ stack' = <<[Frame("open", "") EXCEPT !.d = d]>> \o stack
    /\ UNCHANGED <<sockOpen, unready, ready, cyc, first, last>>

\* The probe has not been answered and there is time left.
OpenRun ==
    /\ Running("open", "")
    /\ link[Top.d]
    /\ stack' = <<Check, Run>> \o stack
    /\ UNCHANGED <<devVars, unready, ready, cyc, first, last>>

\* Widths were negotiated (or, with no attempts, taken as given).
OpenOk ==
    /\ Running("open", "")
    /\ link[Top.d]
    /\ devst' = [devst EXCEPT ![Top.d] = "active"]
    /\ stack' = Below
    /\ UNCHANGED <<sockOpen, devlist, link, unready, ready, cyc, first, last>>

Inflight == first \o Reverse(last)

OfDevice(s, d) == Filter(s, {c \in Cycles : cyc[c].dev = d})

\* (mutants of Close) responses in flight stay in the socket's lists;
\* the ready cycles are not reversed.
CloseKeepsInflight(d, frames) ==
    /\ unready[d] = 0
    /\ devst' = [devst EXCEPT ![d] = "closing"]
    /\ UNCHANGED <<first, last>>
    /\ stack' = <<[Frame("close", "") EXCEPT !.d = d, !.todo = Reverse(ready[d])]>> \o frames
    /\ ready' = [ready EXCEPT ![d] = <<>>]

CloseNewestFirst(d, frames) ==
    /\ unready[d] = 0
    /\ devst' = [devst EXCEPT ![d] = "closing"]
    /\ first' = Filter(Inflight, {c \in Cycles : cyc[c].dev # d})
    /\ last' = <<>>
    /\ stack' = <<[Frame("close", "") EXCEPT
                      !.d = d, !.todo = OfDevice(Inflight, d) \o ready[d]]>> \o frames
    /\ ready' = [ready EXCEPT ![d] = <<>>]

\* eb_device_close up to its first callback: the device is marked, its
\* responses are filtered out of both lists, and the cycles that will be
\* called back are those in flight and then those ready, oldest first.
Close(d, frames) ==
    /\ unready[d] = 0
    /\ devst' = [devst EXCEPT ![d] = "closing"]
    /\ first' = Filter(Inflight, {c \in Cycles : cyc[c].dev # d})
    /\ last' = <<>>
    /\ stack' = <<[Frame("close", "") EXCEPT
                      !.d = d, !.todo = OfDevice(Inflight, d) \o Reverse(ready[d])]>> \o frames
    /\ ready' = [ready EXCEPT ![d] = <<>>]

DeviceClose(d) ==
    /\ MayClose(d)
    /\ Close(d, stack)
    /\ UNCHANGED <<sockOpen, devlist, link, unready, cyc>>

\* The link broke, all attempts timed out or no width is possible.
OpenFail ==
    /\ Running("open", "")
    /\ Close(Top.d, Below)
    /\ UNCHANGED <<sockOpen, devlist, link, unready, cyc>>

CloseCycle ==
    /\ Running("close", "")
    /\ Top.todo # <<>>
    /\ stack' = <<Calling(Head(Top.todo), "TIMEOUT"), [Top EXCEPT !.todo = Tail(@)]>> \o Below
    /\ UNCHANGED <<devVars, unready, ready, cyc, first, last>>

\* The device leaves the list, its link is disconnected and both are freed.
CloseEnd ==
    /\ Running("close", "")
    /\ Top.todo = <<>>
    /\ devlist' = Filter(devlist, Devices \ {Top.d})
    /\ devst' = [devst EXCEPT ![Top.d] = "free"]
    /\ link' = [link EXCEPT ![Top.d] = FALSE]
    /\ stack' = Below
    /\ UNCHANGED <<sockOpen, unready, ready, cyc, first, last>>

\* eb_socket_close; EB_BUSY while there are devices.
SocketClose ==
    /\ stack = <<>>
    /\ sockOpen
    /\ devlist = <<>>
    /\ sockOpen' = FALSE
    /\ UNCHANGED <<devst, devlist, link, unready, ready, cyc, first, last, stack>>

\* eb_socket_open starts with empty lists.
SocketOpen ==
    /\ ~sockOpen
    /\ sockOpen' = TRUE
    /\ first' = <<>>
    /\ last' = <<>>
    /\ UNCHANGED <<devst, devlist, link, unready, ready, cyc, stack>>

-----------------------------------------------------------------------------
Client ==
    \/ \E c \in Cycles, d \in Devices, blk \in BOOLEAN : CycleOpen(c, d, blk)
    \/ \E c \in Cycles, k \in OpKinds : DoOp(c, k)
    \/ \E c \in Cycles : CycleAbort(c)
    \/ \E c \in Cycles, check \in BOOLEAN : CycleClose(c, check)
    \/ SocketRun \/ SocketCheck \/ SocketTimeout
    \/ \E d \in Devices : DeviceOpen(d) \/ DeviceClose(d)
    \/ SocketClose \/ SocketOpen

Library ==
    \/ BlockRun \/ BlockReturn \/ CallbackReturn
    \/ RunWait \/ RunReturn
    \/ Expire \/ ExpireDone \/ TopDone \/ DeviceDone
    \/ FlushSkipped \/ FlushBegin \/ FlushCycle \/ FlushEnd
    \/ OpenRun \/ OpenOk \/ OpenFail
    \/ CloseCycle \/ CloseEnd

Network ==
    \/ UnmatchedAnswer
    \/ \E c \in Cycles, part \in {"value", "status"}, more, err \in BOOLEAN :
          Answer(c, part, more, err)
    \/ LinkBreak

Next == Client \/ Library \/ Network

Spec == Init /\ [][Next]_vars

(* What makes a closed cycle's callback happen:                            *)
(*  - the library does not stop inside a call, whose loops are finite;     *)
(*  - the remote does not send without end, so that polling ends, and an   *)
(*    unanswered probe times out;                                          *)
(*  - time passes: a response that stays the oldest meets its deadline;    *)
(*  - the client returns from its callbacks and, when it is outside the    *)
(*    library, comes back to its event loop.                               *)
Fairness ==
    /\ WF_vars(BlockRun \/ BlockReturn \/ RunWait \/ RunReturn \/ DeviceDone)
    /\ WF_vars(FlushCycle \/ FlushEnd \/ CloseCycle \/ CloseEnd)
    /\ WF_vars(Expire \/ ExpireDone)
    /\ SF_vars(TopDone \/ FlushBegin \/ FlushSkipped)
    /\ SF_vars(OpenOk \/ OpenFail)
    /\ SF_vars(Expire)
    /\ SF_vars(CallbackReturn)
    /\ SF_vars(SocketRun /\ stack = <<>>)

FairSpec == Spec /\ Fairness

-----------------------------------------------------------------------------
(* Properties                                                              *)

CycleType ==
    [st : {"free", "open", "closed"}, dev : Devices \cup {NoDev}, blk : BOOLEAN,
     ops : SUBSET OpKinds, dead : BOOLEAN, chk : BOOLEAN,
     want : SUBSET {"value", "status"}, sent : BOOLEAN]

FrameRecord ==
    [op : {"run", "check", "flush", "close", "open", "block", "cb"},
     pc : {"", "wait", "done", "expire", "top", "device", "next"},
     d : Devices \cup {NoDev}, nxt : Devices \cup {NoDev},
     c : Cycles \cup {NoCycle}, todo : Seq(Cycles),
     st : {"OK", "FAIL", "TIMEOUT", "SEGFAULT", "OOM", "WIDTH", "OVERFLOW"}]

FrameType ==
    {f \in FrameRecord :
       \/ f.op \in {"flush", "close", "open"}
       \/ f.op = "check" /\ f.pc \in {"device", "next"}
       => f.d \in Devices}

\* Type correctness; un_ops.dead overlays un_ops.first, so a dead cycle
\* holds no operations (they would leak) and is never checked.
TypeOK ==
    /\ sockOpen \in BOOLEAN
    /\ devst \in [Devices -> {"free", "opening", "active", "closing"}]
    /\ devlist \in Seq(Devices)
    /\ link \in [Devices -> BOOLEAN]
    /\ unready \in [Devices -> 0..(UnreadyMod - 1)]
    /\ ready \in [Devices -> Seq(Cycles)]
    /\ cyc \in [Cycles -> CycleType]
    /\ \A c \in Cycles : cyc[c].dead => cyc[c].ops = {} /\ ~cyc[c].chk
    /\ first \in Seq(Cycles)
    /\ last \in Seq(Cycles)
    /\ stack \in Seq(FrameType)

\* The local list of the suspended flush or close of device d.
Local(d) ==
    LET calls == {f \in Range(stack) : f.op \in {"flush", "close"} /\ f.d = d}
    IN  IF calls = {} THEN <<>> ELSE (CHOOSE f \in calls : TRUE).todo

\* The cycles of device d that wait for their callback, oldest first: in
\* flight, in the local list of a suspended flush or close, and ready.
Pending(d) == OfDevice(Inflight, d) \o Local(d) \o Reverse(ready[d])

Places(c) ==
    UNION {{<<d, i>> : i \in {j \in DOMAIN Pending(d) : Pending(d)[j] = c}} : d \in Devices}

\* A closed cycle is in exactly one place: waiting once, on its own device,
\* or in the callback that is running for it.  Otherwise it would be called
\* back twice (and freed twice) or never.  An open or free one is in none.
CycleOwnership ==
    /\ \A d \in Devices : \A i \in DOMAIN Pending(d) : cyc[Pending(d)[i]].dev = d
    /\ \A c \in Cycles :
          Cardinality(Places(c)) + Cardinality({i \in Suspended("cb") : stack[i].c = c})
             = IF cyc[c].st = "closed" THEN 1 ELSE 0

\* No pointer to a freed device is kept: not by an open or waiting cycle,
\* not by a suspended loop; the socket lists exactly the allocated devices.
\* In particular eb_socket_close, which needs an empty list, finds no
\* response ("All responses must be closed if devices are closed").
NoDangling ==
    /\ \A c \in Cycles : cyc[c].st = "open" => devst[cyc[c].dev] = "active"
    /\ \A d \in Devices : Pending(d) # <<>> => devst[d] \in {"active", "closing"}
    /\ \A i \in DOMAIN stack : \A d \in {stack[i].d, stack[i].nxt} \ {NoDev} :
          devst[d] # "free"
    /\ \A d \in Devices :
          Cardinality({i \in DOMAIN devlist : devlist[i] = d})
             = IF devst[d] = "free" THEN 0 ELSE 1

\* A caller blocked in eb_cycle_close waits for a cycle that is still to be
\* called back (or being called back) with its status variable: no status is
\* lost and none is delivered to the wrong call.
BlockedWaits ==
    \A i \in Suspended("block") : stack[i].c # NoCycle =>
        /\ cyc[stack[i].c].st = "closed" /\ cyc[stack[i].c].blk
        /\ \A j \in Suspended("block") : stack[j].c = stack[i].c => i = j

\* Responses stay in the order their requests were sent, although they are
\* kept in two lists that three operations flip: a step appends at the end
\* or removes some.  The expiry loop, which looks at the oldest only, and
\* the callbacks of a closing device depend on it.
ResponsesInOrder ==
    [][\/ \E c \in Cycles : Inflight' = Append(Inflight, c)
       \/ Inflight' = Filter(Inflight, Range(Inflight'))]_vars

\* The callback of cycle c is running.
Called(c) == \E f \in Range(stack) : f.op = "cb" /\ f.c = c

\* The client's view: etherbone.h's promises about cycles and devices.
DeviceView(d) == IF devst[d] \in {"opening", "active"} THEN "live" ELSE devst[d]

CycleView(c) ==
    IF cyc[c].st # "closed" THEN cyc[c].st
    ELSE IF Called(c) THEN "calling" ELSE "pending"

Contract == INSTANCE EBContract WITH
    dst <- [d \in Devices |-> DeviceView(d)],
    cst <- [c \in Cycles |-> CycleView(c)],
    owner <- [c \in Cycles |-> cyc[c].dev],
    q <- [d \in Devices |-> Pending(d)]

ImplementsContract == Contract!Spec

Waiting(c) == cyc[c].st = "closed" /\ ~Called(c)

\* "Your callback will be called exactly once from either eb_socket_{run,check}
\* or eb_device_close or a blocking eb_cycle_close": a client that keeps
\* running its event loop sees the callback of every cycle it closed.
EveryCycleCalled == \A c \in Cycles : Waiting(c) ~> ~Waiting(c)

\* EB_OK for a cycle that reads, or whose bus operations are checked
\* ("'operations' report the wishbone ERR flag"), is given only when the remote
\* has answered it: the request was sent and waited for, and its response was
\* still listed.  (Writes to config space are not checked: a cycle that holds
\* nothing else is called back EB_OK as soon as it is sent, checked or not.)
OkMeansAnswered ==
    [][\A c \in Cycles :
          Waiting(c) /\ ~Waiting(c)' /\ Head(stack').st = "OK"
          /\ (Reads(c) \/ Checked(c))
             => cyc[c].sent /\ c \in Range(Inflight)]_vars

-----------------------------------------------------------------------------
(* What makes the properties inductive.                                    *)

\* A cycle belongs to a device, and is checked only once it is closed and
\* if it has operations.
CyclesOK ==
    \A c \in Cycles :
        /\ cyc[c].st # "free" => cyc[c].dev \in Devices
        /\ cyc[c].chk => cyc[c].st = "closed" /\ cyc[c].ops # {}

\* What the frame of a suspended call knows: its device exists, a flush is
\* never of a device that is closing and nothing is queued behind its back.
FrameOK(f) ==
    /\ f.op = "flush" =>
          /\ devst[f.d] \in {"opening", "active"}
          /\ ready[f.d] = <<>>
          /\ f.todo # <<>> => devst[f.d] = "active"
    /\ f.op = "close" => devst[f.d] = "closing"
    /\ f.op = "open" => devst[f.d] = "opening"
    /\ f.op \in {"run", "block", "cb"} => f.d = NoDev
    /\ f.op # "check" => f.nxt = NoDev
    /\ f.d # NoDev => devst[f.d] # "free"
    /\ f.nxt # NoDev => devst[f.nxt] # "free"

\* Frame f above frame g: only callbacks, and closes that they make, run
\* above a flush or a close; a device that is being opened or closed is of
\* no concern to the calls below.
Over(f, g) ==
    /\ g.op \in {"flush", "close"} => f.op \in {"cb", "close"}
    /\ f.op \in {"open", "close"} => f.d \notin {g.d, g.nxt}

StackOK ==
    /\ \A f \in Range(stack) : FrameOK(f)
    /\ Ordered(stack, {p \in FrameType \X FrameType : Over(p[1], p[2])})

\* unready counts the open cycles of an active device.
DevicesOK ==
    /\ IsInjective(devlist)
    /\ Range(devlist) = {d \in Devices : devst[d] # "free"}
    /\ ~sockOpen => stack = <<>> /\ devlist = <<>>
    /\ \A d \in Devices : ready[d] # <<>> => devst[d] = "active"
    /\ \A c \in Cycles : cyc[c].st = "open" => devst[cyc[c].dev] = "active"
    /\ \A d \in Devices :
          unready[d] = Cardinality({c \in Cycles : cyc[c].st = "open" /\ cyc[c].dev = d})

\* What is in flight was sent, once, by a device that is not closing.
InflightOK ==
    /\ IsInjective(Inflight)
    /\ \A c \in Range(Inflight) :
          /\ cyc[c].sent
          /\ cyc[c].dev \in Devices /\ devst[cyc[c].dev] = "active"

\* A closed cycle waits, once, on its device or is called back, once.
QueuesOK ==
    /\ \A f \in Range(stack) : f.op = "cb" => f.c \in Cycles /\ cyc[f.c].st = "closed"
    /\ Ordered(stack, {p \in FrameType \X FrameType :
                         p[1].op = "cb" /\ p[2].op = "cb" => p[1].c # p[2].c})
    /\ \A d \in Devices :
          /\ IsInjective(Pending(d))
          /\ Range(Pending(d)) =
                {c \in Cycles : cyc[c].st = "closed" /\ cyc[c].dev = d /\ ~Called(c)}

\* All of it: the suspended calls of the event loop, flush, open and close agree
\* with the devices, counters, response lists and queues they will go on with.
SocketInv == CyclesOK /\ StackOK /\ DevicesOK /\ InflightOK /\ QueuesOK
=============================================================================

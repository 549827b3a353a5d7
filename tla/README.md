# Etherbone library: TLA+ models, model checking and proofs

This directory holds a formal model of the core of the Etherbone C library
(`api/`), which gives programs access to a remote Wishbone bus over UDP, TCP,
USB or PCIe. The library is single-threaded and event-driven. Its difficult
parts are the ones a test hardly reaches: callbacks that re-enter the library
while its loops over linked lists are suspended, answers that are late,
repeated or out of order, indices that are reused, and an allocator whose last
index is its null pointer. One piece of hardware is modelled too: the pipelined
priority queue of the timing master (`modules/heap`).

## 1. Inventory

| Component (source) | State | Operations | Hard behaviour | What makes it correct |
|---|---|---|---|---|
| Item allocator (`memory/array.c`, `dynamic.c`, `static.c`) | array size, free-list head, links threaded through the items, 16-bit use counter | new item, expansion, failure, free | growth up to the index that is `EB_NULL`; failure in mid-use | free list = items not handed out; counter exact |
| Cycles (`glue/cycle.c`) | owner device, operation list or "dead" mark, callback | open, queue operation, abort, close (checked, silent, blocking) | out of memory half way; blocking close runs a nested event loop | every closed cycle is called back once, with the right status |
| Devices (`glue/device.c`) | link, widths, `unready` counter, ready queue, place in the socket's list | open (probing, which runs the event loop), close (which calls back), flush | close while loops are suspended; `uint8_t` counter; late probe answers | no pointer to a freed device; both ends agree on widths |
| Socket and event loop (`glue/socket.c`, `transport/run.c`) | two response lists (oldest first, newest first), device list, deadlines | run, check, timeout, open, close | list flipping in three places; expiry during callbacks | responses stay in order; nothing is lost between the lists |
| Flush (`format/master.c`) | locals over the ready queue | reject, send, wait or call back each cycle | callbacks from inside the loop; failures half way through a cycle | queue is drained exactly, in order |
| Slave (`format/slave.c`, `glue/readwrite.c`) | cursor over a message | probes, probe responses, records, config-space writes | whatever the network delivers; link failure | an answer completes the right cycle or none |
| Widths (`glue/widths.c`) | none | possible, refined, refine | bit tricks on bytes | largest width of each half |
| Handlers (`glue/handler.c`) | list of address ranges | attach, detach, lookup | refusals after items are taken | items are neither lost nor freed twice |
| SDB scan (`glue/sdb.c`) | scan items, the caller's record on the stack | scan root, scan bus, find by identity or address | several chains of callbacks at once; failure of one; tables that change | complete result or an error; no callback after the call |
| Hardware heap (`modules/heap`) | RAMs, registers of two cores | insert, remove, replace, clear, check | writer two cycles behind the search; RAM read while written | a priority queue: least key out, nothing lost |
| Transports (`transport/*.c`) | file descriptors | connect, poll, recv, send | system calls | - |
| Tools (`api/tools`, `tools`), LabVIEW and C++ bindings | - | clients of the library | - | - |
| FTM firmware (`modules/ftm/swtest`), LM32 run-time | message plans, heap, interrupt flags | command evaluation, message dispatch | interrupts between steps | planned |
| HDL, USB firmware, GUI, vendored code | - | - | - | - |

How they interact: a client opens a device on a socket, opens cycles on the
device, queues operations and closes the cycle, which puts it at the head of
the device's ready queue. The event loop (`eb_socket_run` = check, timeout,
select, check) expires old responses, polls the transports and the links, hands
what arrives to the slave and flushes each device. The flush calls back at once
the cycles it rejects or need not wait for, and puts the others, as responses, at
the head of the socket's newer list. Configuration-space writes of the
remote complete responses. Every callback runs on top of the loop that made it
and may call the library again.

`PROJECT.json` lists every component, the hazards at their lines with the
properties aimed at them, and the lines each definition stands for.

## 2. Modules

| Module | Models | Used by |
|---|---|---|
| `EBMemory` | the item allocator, both builds | `MCMemory`, `EBMemory_proofs` |
| `Lists` | the library's linked lists as sequences: `Filter`, `Ordered` | `EBSocket`, `EBRecord`, `Lists_proofs` |
| `EBSocket` | cycles, devices, flush, response matching and the event loop, as one state machine | `MCSocket`, `EBSocket_proofs` |
| `EBContract` | what `etherbone.h` promises the client about them | `EBSocket` (refinement) |
| `EBWidths` | `widths.c` | `EBHandshake` |
| `EBHandshake` | width negotiation between `eb_device_open` and a remote `eb_device_slave` | `MCHandshake`, `EBHandshake_proofs` |
| `EBRecord` | operations to records to datagrams or a stream, their execution, the reply, and its distribution over the operations | `MCRecord`, `EBRecord_proofs` |
| `EBScan` | SDB scans, and the virtual devices of a remote that is this library | `MCScan`, `EBScan_proofs` |
| `Heap` | the hardware priority queue, one step per clock cycle | `MCHeap` |
| `Lists_proofs` | lemmas on sequences and on recursive functions | all proofs but `EBHandshake_proofs` |
| `EBMemory_proofs`, `EBHandshake_proofs`, `EBRecord_proofs`, `EBScan_proofs` | theorems on one module each | |
| `EBSocket_proofs` | `EBSocket` is type correct; suspended calls, devices, blocked callers | `EBSocketQueues_proofs` |
| `EBSocketQueues_proofs` | how each action changes `Pending(d)` and the calls under way | `EBSocketContract_proofs` |
| `EBSocketContract_proofs` | the inductive invariant, the refinement, and what follows | |

Definitions whose comment begins with "(mutant of ...)" are deliberate errors.
No specification uses them; each shows that some property would notice that
error.

### EBMemory

`next[i]` is `eb_memory_array[i].free_item.next`. It overlays the user's data,
so it is `Junk` while the item is handed out. `NewItem`, `NewItemExpanding` and
`NewItemFails` are the three ways through `eb_new_memory_item`; the loop of
`eb_expand_array` is the function `Linked`. `inUse` and `depth` are history
variables (what the callers hold; an item's distance from the end of the list).
`FreeItem` is enabled only for items that are in use: that callers free what they
were given, once, is what `EBSocket!CycleOwnership` shows for cycles.

### EBSocket

Because there is one thread, the interleaving in this code is the stack. A
suspended library call is a frame of `stack`: `op` is the function, `pc` where
it is, `d` and `nxt` its `devicep` and `next_devicep`, `todo` the local list it
still has to process, `c` the cycle being called back or waited for. When a callback
(`op = "cb"`) is on top, the client may do anything it may do outside the
library: open and close cycles, run the event loop, open or close devices.

| Action | Code |
|---|---|
| `CycleOpen`, `DoOp`, `CycleAbort`, `CycleClose` | `cycle.c` |
| `BlockRun`, `BlockReturn` | the loop of `eb_cycle_block` |
| `CallbackReturn` | what follows every callback: the cycle (and response) is freed |
| `SocketRun`, `RunWait`, `RunReturn`, `SocketTimeout` | `run.c`, `eb_socket_timeout` |
| `SocketCheck`, `Expire`, `ExpireDone`, `TopDone`, `DeviceDone` | `eb_socket_check` |
| `Answer`, `UnmatchedAnswer`, `LinkBreak` | `eb_device_slave` and `eb_socket_write_config` |
| `FlushSkipped`, `FlushBegin`, `FlushCycle`, `FlushEnd` | `eb_device_flush` |
| `DeviceOpen`, `OpenRun`, `OpenOk`, `OpenFail`, `DeviceClose`, `CloseCycle`, `CloseEnd` | `device.c`, `eb_socket_kill_inflight` |
| `SocketOpen`, `SocketClose` | `socket.c` |

Abstractions. An operation is its kind: read or write of the bus, read or write
of config space (`"cread"`, `"cwrite"`), "bad" (fails one of the flush's checks) or
"huge" (does not fit the mtu of a packet transport). The flush inserts a read of
the error flags behind the bus operations of a checked cycle (`Checked`), and waits
for an answer if the cycle reads or has that read (`NeedsAnswer`): a checked cycle
of config-space writes only is called back with `EB_OK` at once. A
response is identified with its cycle, since it is allocated, chained and freed
with it. An `Answer` is for a value or for error bits, and may or may not be the
last of its kind. Whether a deadline has passed is the clock's choice. The
flush's in-place reversal of the ready list is the sequence `todo`.

Obligations of the client. The code can not work without three conditions
that it does not check. They are guards of the client's actions, named in the
module, and each says which suspended call would be harmed:

 - `MayRun`: no `eb_socket_run` (nor anything that loops over it) from a callback
   made by a flush or by `eb_device_close`: the ready list is half reversed, or the
   device looks like a passive one.
 - `MayClose`: no `eb_device_close` of a device that a suspended check, flush or
   close will use again (`devicep` or `next_devicep`). Neither the code nor
   `etherbone.h` says so. The constant `CloseHeld` lifts this condition; it is
   `FALSE` in all runs, as `NoDangling` is violated after eleven steps when it is
   `TRUE` (a callback closes the device whose flush or loop is suspended), and what the
   code does with a freed device is undefined.
 - `MayQueue`: no closing of a cycle onto the device whose own flush is
   making the callback. The constant `FlushReentry` lifts this condition; see the
   run `flush_reentry`.

### EBContract

A client's view: a device is free, live or closing; a closed cycle waits in its
device's queue in the order of closing and leaves it exactly once, by its
callback; a closing device calls back the oldest first and disappears only
when its queue is empty. The refinement maps the queue to the device's responses
in flight (both lists), then what a suspended flush or close has still to
process, then the ready queue: `Pending(d)`. The abstract queue therefore never
moves when the concrete lists are flipped, filtered or drained.

### EBHandshake

Both ends of the negotiation. A device is given its transport and its remote (`kind`,
`peer`) when it is opened, so that an index is used for a packet device and for a
stream in turn, and for devices of several remotes with different masks. A datagram
remains in `wire` and may be delivered any number of times. The slave finds the device
of a probe response by its tag, the index, among all devices of the socket
(`slave.c:163-173`): whoever sent it, and whatever the device is by then. A device that
takes an answer of another remote, or takes a datagram's although it is a stream,
is marked by the history variable `stray`; the widths it gets are part of the model,
and so is what follows when the response that a stream was waiting for is then read
as a record (`StreamMisread`). Over a stream a message is delivered once and the
remote's passive device fixes its own widths. `Retry`, `OpenTimeout`, `OpenFail`,
`OpenWidth` and `OpenOk` are the ways the loop of `eb_device_open` goes on or ends;
`ProbePacket`, `Accept`, `ProbeStream`, `ProbeResponse` and `StreamResponse` are the
slave. `EBSocket` models the same `eb_device_open` with the negotiation abstracted and
the re-entrancy kept. Passive devices of the local socket, which could have the tag
too, are not modelled.

### EBRecord

What `EBSocket` abstracts to "a cycle is answered". `Examine`, `AddRecord`,
`Overflow` and `FlushEnd` are `eb_device_flush`, one record per step: `Shape`
decides how many writes and reads the next record takes and whether it fetches
a status word, `Record` builds it, `Spill` and `Kept` are what a full buffer
does. `Receive`/`Poll`, `ExecRecord`, `More`, `EndMessage` and `Kill` are
`eb_device_slave`; `Answer` is `eb_socket_write_config` for every word of a reply.
The constants `Data`, `ByteBits`, `Mtu` and `MaxChain` scale the code's numbers
down, so that a status word has 2 bits and a datagram room for one or two
records. A packet network repeats and reorders requests and reorders replies;
losing one is never delivering it. A stream is cut anywhere: between records,
inside a header, inside a body. Over a packet transport the flush tests the space
again after it has sent what was complete (`Overflow`); over a stream it does not
(`master.c:389-392`), and relies on a buffer that has room for the largest record
there is. `RecordAssumption` says so (`StreamBuf >= WorstRecord`), and `AddRecord` has
a guard on space for packets only. The transactions of the remote bus are a
history variable; a read returns the number of its transaction, so that an answer
in the wrong place shows. Time-outs, callbacks and lists of cycles are not in this
module. An `Answer` is read when the flush is over, as the library has one
thread. The number of values of `n` bytes, `Values(n)`, is a table of powers of two
up to the 64 bits of a word, a recursive function, so that shifts and masks can be
reasoned about for every `ByteBits`.

### EBScan

`eb_sdb_find_by_identity` and `eb_sdb_find_by_address` as clients that chain
cycles: `GotHeaderPtr`, `GotHeader` and `GotAll` are the callbacks, `CycleFails` is
any of them called with an error, `Return` the end of the loop around
`eb_socket_run`. The error is passed on as it is. Of the errors `EB_ADDRESS` is kept
apart, because the find calls also return it for an address at which nothing is: the
flush calls a cycle back with it when the device can not address the table
(`master.c:190-195`). The others behave alike and are one value (`CycleErrors`).
`failed` has the errors of the cycles that failed. Of cycles only what `EBSocket` shows
is used: each is called back once, and in the end, as long as the device has its link.
`LinkBreak` takes the link of a stream away, after which no answer comes; cycles may
time out or may never be called back (finding 2).

A remote may be hardware (fixed tables) or this library, whose devices
are attached and detached at any time, also between the reading of a header
and of its table; records that the second header announces but that were
not read are taken from the stack (`Junk`). Memory is out when all `MaxScans`
items for scans are in use (`Spare`). `Detach` unlinks the first entry of a
device, as the loop of `eb_socket_detach` does.

A bus is the address of its table and its base; `Buses` are those that can be
reached from the root in at most `Nesting` bridges, and `NestingAssumption` says
that this is all of them (the code would follow a bridge back to its own bus for ever).
`ProperBuses` is what the calls rely on without looking: no two bridges lead to the
same bus and none to the root, no device is listed twice, ranges on a bus are apart,
and those behind a bridge are inside the bridge's. Of the devices of this library
`eb_socket_attach` sees to it (`HandlersApart`), provided that their ranges are
not empty.

### Heap

`heap_pathfinder` searches the way of an element through the tree, one level per
cycle; `heap_writer` follows two cycles behind and moves the elements. A step
(`Tick`) is a clock cycle: `PfTick` and `WrTick` give every register its next
value from the present ones, as the VHDL processes do. The RAMs are external: a
read returns the word a cycle later, and a read of the word being written returns
any element. `Allowed` is what the queue around the heap keeps to: it stalls its
input while the heap is full and does not pop an empty one
(`ftm_priority_queue.vhd:394` and 476). Nothing keeps it from asking for the
consistency check in the cycle of a command (349), and the model has that case. The
writer then walks through a heap that is being changed, with the read port that the
copying needs, so that an element can be lost and a fault reported. The history
variable `clash` says that this has happened since the last clearing; what is stored
is not accounted for while it is set. A register whose content nothing reads before
it is written again is given a fixed value (`Scratch`, and the indices in `Delays`).

## 3. Runs

| Run | Instance | Shows |
|---|---|---|
| `memory` | sizes 2, 4, 8 (dynamic) and 0, 8 (static), null 7 | the free list is exact, also in an array that contains the index `EB_NULL`; the counter does not wrap |
| `reentrancy` | one stream and one packet device, two cycles, nesting up to 3 suspended calls | no cycle is lost or called twice, no pointer to a freed device, blocked callers wait for something that will come, the library implements `EBContract`; the inductive invariant `SocketInv` of the proofs |
| `outcomes` | one packet device, two cycles of config-space reads, bus writes and config-space writes, failing allocations, nesting up to 2 | responses stay in sending order through all flips; `EB_OK` means answered; every closed cycle is called back |
| `handshake` | one index, two remotes, packets and streams in turn, up to 3 attempts, ambiguous, disjoint and equal masks | largest common widths, agreement of the ends of a stream that no stray answer reached, exact number of attempts, `eb_device_open` returns |
| `flush_reentry` | as `reentrancy`, with `FlushReentry` | violation, finding 1 |
| `link_break` | stream device | violation, finding 2 |
| `late_answer` | one index, one remote | violation, finding 5 |
| `records` | a cycle of up to 3 operations out of 6 kinds, checked or not, then a second cycle; 2-byte words of 1-bit bytes; packets (one repeated) and streams | whole cycles per datagram, order over streams, values and errors where they belong, no cycle left waiting |
| `no_reads` | packets, cycles of up to 2 operations | violation, finding 3 |
| `scan` | nested bridges (two levels), a bus without table, an empty and a too large one; two kinds of failing cycles, a stream that breaks; a remote of this library with up to 3 changes | complete results (`FindsExactly`), every failure reported (`FailureReported`) and nothing else made one (`NothingElseFails`), items exact, no late callback, the call returns unless the link is lost; the inductive invariants `ScanInv` and `SearchInv` |
| `heap` | indices of 2 bits (3 elements), three keys, one of them with two values | a priority queue after every sequence of commands, checks and clearings; still ordered and ready after checks that came with a command |
| `heap_lost` | indices of 3 bits | violation, finding 4 |

Bounds. Two devices are needed for `next_devicep` and for one device's callbacks
acting on the other; two cycles for one cycle's callback acting on another, and
for one response in each of the two lists (that longer lists stay in order is a
theorem, `ResponsesInOrderHolds`). In `outcomes` a cycle that runs out of memory
stands for all that the flush calls back with an error: the branch is the same.
`MaxDepth` bounds only how many calls are suspended when the client starts another
one: 2 allows a callback inside an event loop inside a blocking close, 3 a further
loop in that. `MaxAttempts` 3 gives a first, a middle and a last attempt. `UnreadyMod` is
the code's 256; with two cycles the counter does not reach it, and the wrap
at 256 open cycles is a hazard without a property (see `PROJECT.json`). The
allocator's sizes keep the relation between the real ones: doubling from a base,
and a full array whose last index is `Null`. Cycles are interchangeable, so
`reentrancy` uses their symmetry; runs with a liveness property do not. In
`handshake` two remotes with different masks and one index, opened again and again,
are enough for an answer to reach a device that did not ask for it.

In `records` a cycle of three operations with two bits of status needs a
second status word, and one of two or three records crosses a datagram of 9
words; two cycles give one that is kept while the one before it is sent. In
`scan` the nested bus has four tables and three bridges, so that two scans are
pending at once and one starts from another's callback; `Classes` {2, 4} give a
table that fits the smaller buffer, the larger and none. In `heap` three
elements give a root with two children; a larger heap loses elements (finding
4), so that the properties are checked up to the largest size for which the
design is a heap. Three different keys are needed for a replacement that changes
the order of root and child.

Deadlock is checked except in `records` and `scan`, which model one flush and one
call, after which nothing is left to do.

Fairness (`EBSocket!Fairness`). A library call does not stop: its loops are
finite. Polling ends because the remote does not send without end, so the ends
of the polling loops are strongly fair. Time passes: a response that is again and
again the oldest when `eb_socket_check` looks at it meets its deadline, so `Expire`
is strongly fair. The probe timer of `eb_device_open` ends its loop. The client
returns from its callbacks and comes back to `eb_socket_run`, as `etherbone.h`
asks. Nothing is assumed about answers. In `EBHandshake` only the
timer-driven loop of `eb_device_open` is fair; the network owes nothing. In
`EBScan` cycles are called back, with or without an answer, as long as the device has
its link: this is what `EveryCycleCalled` shows of packet devices, and what
`link_break` refutes of a stream that has lost it. `FindReturns` therefore ends with
the call's return or the loss of the link, after which the loops at `sdb.c:515` and 580
may go on for ever. In `Heap` the clock goes on with cycles in which it is not cleared: the
clear command is a pulse.

### Findings

 1. `flush_reentry`: a callback made by the flush of a device closes another
    cycle onto it; when the flush ends it clears the queue
    (`format/master.c:555`). That cycle is never sent, called back or freed, and a
    later close of the device does not find it.
 2. `link_break`: once a stream's link is gone the flush returns without
    touching the queue (`format/master.c:79`) and nothing calls back what is
    closed onto the device, so a blocking close never returns.
 3. `no_reads`: a flush that needs a second datagram uses the buffer of the
    first, with the flag NR that was set in it, and forgets the reads of records it
    has kept (`format/master.c:400-411`). The second is marked as having no
    reads although it has. This library's slave ignores the flag; the hardware
    slave does not answer.
 4. `heap_lost`: the search for the place of a new element begins at the
    parent of the old last index (`heap_pathfinder.vhd:187`). For the fourth
    element this is the root instead of index 2. If its key is greater than the root's
    and not greater than its real parent's, the flag "final" comes a step too early:
    the element is written at its new index and overwritten a cycle later by its
    parent's element, which is then there twice.
 5. `late_answer`: a second or late answer to a probe replaces the widths of an
    open device by the remote's mask (`format/slave.c:173`), although the assertion
    in the comment at `format/master.c:83` says that they are refined. `handshake` shows
    how far this goes: an answer to an earlier device of the same index can come from
    another remote, or reach a stream, whose ends then disagree
    (`NegotiatesLargest` and `StreamAgreement` except these cases by `stray`).

Disagreements that were met and that no run states:

 - `etherbone.h:467` says that a cycle called back with a status other than OK
   "was never sent"; a cycle that times out, or whose answer reports an error, was
   (`glue/socket.c:386`).
 - A stream whose segment ends inside a record header after a complete cycle is
   closed (`format/slave.c:444`), although `spec.tex:1058` expects streams to be
   split. This is `EBRecord!Kill`.
 - A bus with an empty table makes a scan fail with `EB_FAIL`
   (`glue/sdb.c:273`), so that `eb_sdb_find_by_address` does not return the
   `EB_ADDRESS` of `etherbone.h:614`. `NothingElseFails` treats it as unreadable.
 - `eb_socket_attach` loses two items when it refuses a reserved address
   (`glue/handler.c:60-64`); `ItemsExact` counts them apart.

## 4. Proofs

Every theorem is for all values of the constants that satisfy the named
assumptions of its module, so for any number of devices, cycles, suspended calls,
attempts, tables and items. `PROJECT.json` lists them.

### EBSocket

| Theorem | Hypotheses |
|---|---|
| `TypeCorrect`: `Spec => []TypeOK` | none but the guards of the client's actions |
| `BlockedWaitsHolds`: `Spec => []BlockedWaits` | none but the guards of the client's actions |
| `SocketInvariant`: `Spec => [](TypeOK /\ SocketInv)` | `~FlushReentry`, `~CloseHeld`, `Countable` |
| `ContractHolds`: `Spec => ImplementsContract` | the same |
| `CycleOwnershipHolds`, `NoDanglingHolds`, `ResponsesInOrderHolds`, `OkMeansAnsweredHolds` | the same |

No hypothesis can be dropped. Without `~FlushReentry` (the client's
obligation `MayQueue`) a cycle is lost, which is finding 1. Without `~CloseHeld` (the
obligation `MayClose`) a callback frees the device that a suspended loop goes on with,
and `NoDangling` fails: the theorem is about everything else that refers to a device.
`Countable` says that
there are fewer cycles than `UnreadyMod`, the 256 of the `uint8_t` counter
`unready`: with more, the counter is 0 while cycles are open and
`eb_device_close` frees a device that they refer to (`glue/device.h:45`). They
hold in the runs of these properties. What is proved is partial correctness: that callbacks come at
all is model-checked.

None of the properties is inductive. A suspended call goes on, later, with
what it knew when it called back, so the invariant has to say what each frame of
the stack may rely on:

 - `StackOK`. `FrameOK(f)` is what a frame knows: the device of a flush is alive
   and has an empty ready queue, that of a close is closing, `next_devicep`
   is not free. `Over(f, g)` is which call may be suspended above which: only
   callbacks, and the closes they make, above a flush or close; a device being
   opened or closed is in no frame below. The obligations `MayRun` and
   `MayClose` are exactly what keeps `Over`.
 - `DevicesOK`. The device list has each device once; only an active device has
   ready cycles or open ones; `unready` counts the open ones. This is why the
   guard of `eb_device_close` protects open cycles.
 - `InflightOK`, `CyclesOK`. A response is of a cycle that was sent, once, by an
   active device.
 - `QueuesOK`. `Pending(d)` has each cycle once, and its elements are the cycles closed
   on `d` whose callback has not started; callbacks under way are of
   different closed cycles.

The step is proved through the client's view. For each action
`EBSocketContract_proofs` shows that a client sees nothing (`ViewKept`: all the
flips of the two lists, the start of a flush, the putting of a cycle in flight)
or one of `ViewOpened`, `ViewClosed`, `ViewCalled`, `ViewFreed` and `ViewDevice` (a
device opened, closing or gone). `QueuesOK` and the refinement `ContractStep` both follow from that one case
distinction. The work is in lemmas on `Queue(inf, cy, loc, rdy, d)`, the
sequence `Pending(d)` as a function of its parts: `QueueServed` (a callback of
the first cycle of the local list), `QueueClosed` (a new cycle is the
last), `QueueDrained` (a close moves everything to its local list without
changing the queue), and their like.

`BlockedWaits` needs less and none of the hypotheses: its induction only follows the
`eb_cycle_block` frames and the marks of the cycles they wait for.

### EBMemory

`AllocatorCorrect`: `Spec => [](TypeOK /\ FreeListInv /\ UsedCount)` for every
base, maximal size, null index and both builds, from `BuildAssumption`,
`SizeAssumption`, `NullAssumption` and `JunkAssumption`. `FreeListExact` walks the
list and speaks of reachability, so it is not inductive. `FreeListInv` replaces
reachability by the history variable `depth`: each link goes down one step of
depth, depths of free items are distinct and positive, the head is the deepest,
and depth 1 points to `Null`. The case that needs care is an expansion to the
full size, where the last new item is `Null` itself and its predecessor
becomes the end of the list. `FreeListHolds` then proves `FreeListExact`: the
depths are all of `1..n` (`DepthsTaken`), so that the walk meets the item of depth
`n - i` after `i` steps and has met each free item when it ends.

### EBHandshake

`HandshakeCorrect`: `Spec => [](TypeOK /\ AttemptsExact /\ StreamAgreement)` for any
devices, remotes, masks and numbers of attempts, from `HandshakeAssumption`.
`StreamAgreement` is not inductive: the two ends compute their widths from
different data at different times. `StreamEnds(d)` says what is true in between:
while the probe is unanswered nothing has been fixed; once the remote has fixed
its widths they are the refinement of `proposed AND remote`, and what this
side has is nothing, the remote's mask, or that same refinement; all this of a stream
that no stray datagram has reached. `NegotiatesHolds` proves the action property
`NegotiatesLargest`: whatever answers were delivered, the mask a device has is that of
its peer, or of another remote that was probed with its index, and the bit trick of
`eb_width_refine` is the maximum of the mask, as a `CHOOSE` would define it, in both
halves.

### EBRecord

`RecordTypeOK`, `RecordWholeCycles` and `RecordStreamOrder`, from
`RecordAssumption`: for every word size, number of bits in a byte, mtu, size of the
stream buffer, length of a record, queue of cycles and set of failing addresses. The
inductive invariant is `RecordInv`, in `EBRecord_proofs`; each part is there
because another one fails without it:

 - `CyclesInv`: a cycle that the flush has not passed, the one being formatted
   included, has not been called back.
 - `CursorInv`: where the loops of the flush are; a cycle being formatted has
   passed the checks and has the formats they settle on (`Ready`). Without it nothing
   is known of the select bits of its records.
 - `BufferInv`: `cptr` is inside the buffer, and the buffer never holds more words
   than the limit, the mtu or the size of the stream buffer. For streams this rests on
   a bound for the record that `Shape` chooses (at most `MaxChain` writes and reads) and
   on `StreamBuf >= WorstRecord`.
 - `PacketInv`, on packet transports: the records before `cptr` stand for complete cycles,
   those behind it for the operations of the present cycle up to the cursor
   (`Buffered`). It is what `Spill` and `Overflow` rely on when they cut the buffer
   at `cptr`. Every datagram under way stands for whole cycles and ends one (`Whole`).
 - `StreamInv`, on streams: what the bus has seen, followed by what the slave, the wire and
   the buffer hold, is what has been formatted, without a gap (`Streamed`).
 - `SlaveInv`: a slave that is working has not given up the stream, and one that
   is not working holds no records.
 - `ResponseInv`: a response waits for a cycle that the flush has passed and did not
   drop for its length; its cursors are inside the cycle, the one for values at a read.

"Stands for" is the relation between records and operations. Executing a
record is defined by the slave's code, its building by the master's, and
neither mentions operations. `StandsAll` relates a list of records to a list of
operations, as the least relation that contains the empty lists and is closed
under adding a record with the operations it was built from. That this implies
`PerformsAll(Meaning(records), operations)` is where the byte lanes meet: the address
and the select bits that `eb_device_flush` makes of an operation's address, size and
endianness, and the value it shifts to its lane, are decoded by the shifts and masks
of `eb_device_slave` to the same address, size and value, for either endianness
and every size. Because answers write values and error flags into operations
while requests may still be repeated, the relation is about bare operations
(`Bare`): without the format and the error flag, and for reads without the value.
`RecordInv` quantifies over all sequences of operations, so that TLC can not
evaluate it; the run checks what follows from it.

### EBScan

`TypesHold`, `ScanInvariant`, `ItemsExactHolds`, `NoStaleRecordHolds` and
`FailureReportedHolds`, from `ScanAssumption`: numbers are natural numbers, a search
by address has room for one record, tables are sequences of records. `ScanInv` is the
accounting on which the calls rely: for a search by identity `pending` is the
number of scans, so that the call does not return while one could write to its
record; for a search by address there is one scan until there is a status.
It is preserved although a callback starts further scans while it goes over
its table and any of them may run out of memory: `Along(a, b)` relates the state
before and after some records of a table, and an induction over the table gives
it for all. The values of records are arbitrary sets in that proof, since `Junk`
may be anything; what is needed of a scan is `Served`, that a header which was
accepted has a table behind it and that a table read counts at least its header.

`SearchInvariant`, `NothingElseFailsHolds` and `FindsExactlyHolds` say what the
calls find. They add `NestingAssumption`, and the last has the hypothesis
`ProperBuses`: a device that is listed twice is counted twice, and a bus that two
bridges lead to is scanned twice. The run evaluates `ProperBuses` for its
instance. `SearchInv` is about the time while nothing has changed at the
remote and, but for its first part, no cycle has failed: a cycle that failed with
`EB_ADDRESS` gives a call the status of one that found nothing.

 - `Reading`: a scan under way has read what is there (`GoodScan`), and without a
   failure or an unreadable table the status is not an error.
 - `Counted(V, st)`, for a search by identity without error: there is a set `V` of
   buses that are done. Each of `V` had a table, the buses under way are different
   from each other and not in `V`, what is behind a bus of `V` is in `V` or under way,
   and every one of them was reached through `V`. The count is the number of
   matching devices on `V`, and the output has as many of them as fit, each
   once.
 - `Led(V, st)`, for a search by address without status: `V` are the buses that were
   passed, and a record on them that covers the address is a bridge to a bus of
   `V` or to the one under way.

When a scan ends, its bus goes over to `V` and the buses behind it come under
way. That they are new is `BehindNew`: a bus that was met before would have two
bridges leading to it. When the call returns no scan is left, so `V` is closed under
bridges and is all of `Buses`, the least such set (`ReachedFacts`). What the callback
makes of a whole table is again an induction (`Sought`): the scans it adds are
those of the bridges, and the devices it counts those of the identity. For the
address, `CoveringBuses` shows that a device which covers it is on a bus that the
search has come to, as ranges are nested, and `CoveredOnce` that it is the
first record found.

### Induction over data

The prover can not instantiate an induction theorem with an operator as a
parameter. `Lists_proofs` therefore states induction over sets: every non-empty set
of naturals has a least element (`LeastNat`), so a subset of an interval or of
the prefixes of a sequence that is closed under the step is all of it
(`IntervalInd`, `SeqInd`). `RecursiveFcn` gives the equations of a recursive function
on `0..n`. What `Filter`, `Reverse` and concatenation do to order, range and
distinctness follows, and so does everything about lists above. This is why
`Lists!Filter` is written out: `SelectSeq` has no definition that a proof can
use.

### Only model-checked

Liveness (`EveryCycleCalled`, `OpenReturns`, `FindReturns`, `BecomesReady`), which
is outside what the prover handles. `AnswersFaithful` and `AllAnswered` of
`EBRecord`: they compare the words of replies, which may be repeated and come
in any order, with the operations that wait for them, and need an invariant that relates
every reply to the execution that wrote it. `Heap`, whose properties hold for a small
index width only (finding 4).

## 5. Not modelled

Passive devices in the socket's device list; deadline arithmetic; malformed
messages; the layout of SDB records; transports (only what the library sees of them:
loss, repetition and delay on packet transports, order and breakage on
streams); format parsing; tools and bindings; firmware; the queue around the
heap and the other hardware; the vendored toolchain, whose headers are most of
the lines of the repository. The reasons are in `PROJECT.json`.

## 6. Plan

Done: allocator, event loop, handshake, records, handlers and scan, heap. Left,
in this order:

 1. Passive devices in `EBSocket` (`eb_socket_passive`, `eb_device_new_slave`,
    the passive branch of `eb_device_close` inside `eb_socket_check`).
 2. Deadlines: 16-bit arithmetic of `eb_socket_check` and `eb_socket_timeout`.
 3. The queue around the heap (`ftm_priority_queue.vhd`): pushes that race with
    its timer, and its output stage.
 4. FTM firmware: plans, commands and interrupts.

Theorems worth proving next: for `EBRecord`, `AnswersFaithful`, with a relation
between records and replies like `StandsAll` between operations and records; for
`EBContract` on its own, that a cycle waits at most once and on its own device only,
which today is proved of `EBSocket` (`QueuesOK`).

------------------------------- MODULE EBScan -------------------------------
(***************************************************************************)
(* Finding devices on a remote bus (api/glue/sdb.c) and the virtual devices *)
(* of the remote when it is this library itself (api/glue/handler.c).      *)
(*                                                                         *)
(* A scan of a bus is a chain of cycles, each opened by the callback of    *)
(* the one before: where the table is, its header, then the whole table.   *)
(* eb_sdb_find_by_identity and eb_sdb_find_by_address run the event loop   *)
(* until their scans are over; the record the callbacks write to is a      *)
(* local variable of theirs.                                               *)
(*                                                                         *)
(* Of the cycles only what EBSocket shows of them is used: each is called  *)
(* back at most once, with EB_OK and what the remote answered or with an   *)
(* error, and on a stream that has lost its link perhaps never.            *)
(* Endianness and the layout of the records are left out.                  *)
(***************************************************************************)
EXTENDS Integers, Sequences, FiniteSets, SequencesExt

CONSTANTS
  Trees,      \* remote buses: [soft, root, tables], tables from addresses to records
  Devices,    \* records that may be attached at a remote of this library
  Reserved,   \* addresses below belong to the table itself (0x4000)
  Classes,    \* numbers of records eb_sdb_decode4 ... eb_sdb_decode256 have room for
  Finds,      \* calls to consider: [kind, id, addr, size]
  MaxChange,  \* how often the remote may change its devices, or try to
  MaxScans,   \* items for scans: with all of them in use memory is out
  Nesting     \* no bus of a tree is behind more bridges than this

\* The records of tables, as far as the calls look at them.
SdbRecord ==
  [type : {"device", "bridge", "other"}, id : Nat, first : Nat, last : Nat, child : Nat]

ASSUME ScanAssumption ==
  /\ Reserved \in Nat /\ MaxChange \in Nat /\ MaxScans \in Nat \ {0}
  /\ Classes # {} /\ Classes \subseteq Nat
  /\ \A f \in Finds : f.kind \in {"identity", "address"} /\ f.size \in Nat
  /\ \A f \in Finds : f.kind = "address" => f.size = 1 /\ f.addr \in Nat
  /\ \A d \in Devices : d \in SdbRecord /\ d.type = "device"
  /\ \A t \in Trees : /\ t.root \in Nat /\ t.soft \in BOOLEAN /\ (t.soft => t.root = 0)
                      /\ \A a \in DOMAIN t.tables : t.tables[a] \in Seq(SdbRecord)
  /\ Nesting \in Nat

VARIABLES
  tree,      \* the remote bus
  handlers,  \* the remote's devices from first_handler on, if it is this library
  find,      \* arguments and locals of the call, "record" of its callbacks
  scans,     \* scan items in use: the step of the chain and what it needs
  items,     \* items allocated for scans and handlers
  refused,   \* history: devices refused for a reserved address
  failed,    \* history: errors of cycles, and of memory, since the call began
  gone,      \* the device is a stream and has lost its link
  changes    \* changes at the remote; those before the call do not count

vars == <<tree, handlers, find, scans, items, refused, failed, gone, changes>>

-----------------------------------------------------------------------------
(* Tables *)

Least(S) == CHOOSE x \in S : \A y \in S : x <= y
LeastOf(a, b) == IF a < b THEN a ELSE b

Blank == [type |-> "other", id |-> 0, first |-> 0, last |-> 0, child |-> 0]

\* eb_sdb serves the list of handlers as the table at address 0.
HasTable(a) == a \in DOMAIN tree.tables \/ (tree.soft /\ a = 0)
Table(a) == IF tree.soft /\ a = 0 THEN handlers ELSE tree.tables[a]

\* The records of a table, addresses made absolute.
Decoded(r, base) ==
  CASE r.type = "device" -> [r EXCEPT !.first = @ + base, !.last = @ + base]
    [] r.type = "bridge" -> [r EXCEPT !.first = @ + base, !.last = @ + base, !.child = @ + base]
    [] OTHER -> r

Covers(r, a) == r.type \in {"device", "bridge"} /\ r.first <= a /\ a <= r.last

\* What memory that was never written may look like as a record.
Junk == {Blank, [Blank EXCEPT !.type = "device", !.id = find.id, !.last = find.addr],
         [Blank EXCEPT !.type = "bridge", !.last = find.addr, !.child = -1]}

-----------------------------------------------------------------------------
(* The callbacks of the two calls. st holds find, scans and items. *)

Scan(step, at, base) == [step |-> step, at |-> at, base |-> base, count |-> 0, reply |-> <<>>]

Spare(st) == (1 .. MaxScans) \ DOMAIN st.scans

NewScan(st, scan) ==
  LET s == Least(Spare(st)) IN
  [st EXCEPT !.scans = [i \in DOMAIN @ \cup {s} |-> IF i = s THEN scan ELSE @[i]],
             !.items = @ + 1]

FreeScan(st, s) ==
  [st EXCEPT !.scans = [i \in DOMAIN @ \ {s} |-> @[i]], !.items = @ - 1]

\* (mutant of ScanBus) addresses behind a bridge stay relative to it.
ScanBusRelative(st, bridge) == NewScan(st, Scan("header", bridge.child, 0))

\* eb_sdb_scan_bus, when there is memory for the scan.
ScanBus(st, bridge) == NewScan(st, Scan("header", bridge.child, bridge.first))

\* (mutant of CbFail) a scan that failed is still counted.
CbFailUncounted(st, status) == [st EXCEPT !.find.status = status]

CbFail(st, status) ==
  [st EXCEPT !.find.status = status,
             !.find.pending = IF st.find.kind = "identity" THEN @ - 1 ELSE @]

\* (mutants of Identify) a scan of a bridge is not counted; the size of the
\* output is not looked at.
IdentifyUncounted(st, table, i, mem) ==
  LET r == table[i]  fits == st.find.fill < st.find.size  got == mem[i] /\ Spare(st) # {} IN
  CASE r.type = "bridge" /\ got  -> ScanBus(st, r)
    [] r.type = "bridge" /\ ~got -> [st EXCEPT !.find.status = "OOM"]
    [] r.type = "device" /\ r.id = st.find.id ->
         [st EXCEPT !.find.output = IF fits THEN Append(@, r) ELSE @, !.find.fill = @ + 1]
    [] OTHER -> st

IdentifyUnbounded(st, table, i, mem) ==
  LET r == table[i]  got == mem[i] /\ Spare(st) # {} IN
  CASE r.type = "bridge" /\ got  -> [ScanBus(st, r) EXCEPT !.find.pending = @ + 1]
    [] r.type = "bridge" /\ ~got -> [st EXCEPT !.find.status = "OOM"]
    [] r.type = "device" /\ r.id = st.find.id ->
         [st EXCEPT !.find.output = Append(@, r), !.find.fill = @ + 1]
    [] OTHER -> st

\* One record, in the callback of eb_sdb_find_by_identity.
Identify(st, table, i, mem) ==
  LET r == table[i]  fits == st.find.fill < st.find.size  got == mem[i] /\ Spare(st) # {} IN
  CASE r.type = "bridge" /\ got  -> [ScanBus(st, r) EXCEPT !.find.pending = @ + 1]
    [] r.type = "bridge" /\ ~got -> [st EXCEPT !.find.status = "OOM"]
    [] r.type = "device" /\ r.id = st.find.id ->
         [st EXCEPT !.find.output = IF fits THEN Append(@, r) ELSE @, !.find.fill = @ + 1]
    [] OTHER -> st

\* (mutant of CbIdentity) the status of the last callback wins.
CbIdentityLastWins(st, table, mem) ==
  LET after[i \in 0 .. Len(table)] ==
        IF i = 0 THEN [st EXCEPT !.find.pending = @ - 1, !.find.status = "OK"]
        ELSE Identify(after[i - 1], table, i, mem)
  IN  after[Len(table)]

CbIdentity(st, table, mem) ==
  LET after[i \in 0 .. Len(table)] ==
        IF i = 0 THEN [st EXCEPT !.find.pending = @ - 1]
        ELSE Identify(after[i - 1], table, i, mem)
  IN  after[Len(table)]

\* The callback of eb_sdb_find_by_address takes the first record that covers
\* the address; a bridge keeps the call waiting.
CbAddress(st, table, mem) ==
  LET hits == {i \in DOMAIN table : Covers(table[i], st.find.addr)}
      r    == table[Least(hits)]
  IN  IF hits = {} THEN [st EXCEPT !.find.status = "ADDRESS"]
      ELSE IF r.type = "device" THEN [st EXCEPT !.find.output = <<r>>, !.find.status = "OK"]
      ELSE IF mem[Least(hits)] /\ Spare(st) # {} THEN ScanBus(st, r)
      ELSE [st EXCEPT !.find.status = "OOM"]

\* For each bridge of a table: is there memory for another scan?
Memory(table) ==
  LET bridges == {i \in DOMAIN table : table[i].type = "bridge"} IN [bridges -> BOOLEAN]

Cb(st, table, mem) ==
  IF st.find.kind = "identity" THEN CbIdentity(st, table, mem) ELSE CbAddress(st, table, mem)

St == [find |-> find, scans |-> scans, items |-> items]

Becomes(st) == find' = st.find /\ scans' = st.scans /\ items' = st.items

\* (mutant of Abandon) the item of the scan is not freed.
AbandonKeepsItem(s, status) ==
  Becomes([CbFail(FreeScan(St, s), status) EXCEPT !.items = @ + 1])

\* The chain ends with an error.
Abandon(s, status) ==
  Becomes(CbFail(FreeScan(St, s), status))

-----------------------------------------------------------------------------
(* The chain of callbacks *)

\* The call begins, with eb_sdb_scan_root.
Start ==
  /\ find.pc = "idle"
  /\ \E f \in Finds, mem \in BOOLEAN :
       LET call == [find EXCEPT !.pc = "run", !.kind = f.kind, !.id = f.id, !.addr = f.addr,
                                !.size = f.size, !.pending = 1,
                                !.status = IF f.kind = "address" THEN "wait" ELSE "OK"] IN
       Becomes(IF mem THEN NewScan([St EXCEPT !.find = call], Scan("ptr", 0, 0))
               ELSE [St EXCEPT !.find = [call EXCEPT !.status = "OOM", !.pending = 0]])
       /\ failed' = IF mem THEN {} ELSE {"OOM"}
  /\ changes' = 0
  /\ UNCHANGED <<tree, handlers, refused, gone>>

\* The remote executes the cycle of a scan.
Serve(s) ==
  LET c == scans[s]  t == Table(c.at) IN
  /\ ~gone /\ c.reply = <<>>
  /\ scans' = [scans EXCEPT ![s].reply =
       CASE c.step = "ptr" -> <<tree.root>>
         [] c.step = "header" -> <<HasTable(c.at), IF HasTable(c.at) THEN Len(t) + 1 ELSE 0>>
         [] c.step = "all" -> <<Len(t) + 1, SubSeq(t, 1, LeastOf(Len(t), c.count - 1))>>]
  /\ UNCHANGED <<tree, handlers, find, items, refused, failed, gone, changes>>

\* The errors a cycle is called back with: EB_ADDRESS from the flush, if the
\* device can not address the table, and, not told apart, all the others.
CycleErrors == {"ADDRESS", "TIMEOUT"}

\* The cycle is called back with an error; its answer may be lost or late.
CycleFails(s) ==
  /\ \E status \in CycleErrors : Abandon(s, status) /\ failed' = failed \cup {status}
  /\ UNCHANGED <<tree, handlers, refused, gone, changes>>

\* The link of the stream is found closed. No answer comes any more: cycles that
\* were sent may time out, those still to be sent are not called back.
LinkBreak ==
  /\ ~gone
  /\ gone' = TRUE
  /\ UNCHANGED <<tree, handlers, find, scans, items, refused, failed, changes>>

\* The next cycle of the chain is opened, if there is memory for it.
NextCycle(s, scan) ==
  /\ \/ /\ scans' = [scans EXCEPT ![s] = scan]
        /\ UNCHANGED <<find, items, failed>>
     \/ Abandon(s, "OOM") /\ failed' = failed \cup {"OOM"}
  /\ UNCHANGED <<tree, handlers, refused, gone, changes>>

GotHeaderPtr(s) ==
  /\ ~gone /\ scans[s].step = "ptr" /\ scans[s].reply # <<>>
  /\ NextCycle(s, Scan("header", scans[s].reply[1], scans[s].base))

\* (mutant of GotHeader) the table is read without its last record.
GotHeaderShort(s) ==
  LET c == scans[s] IN
  /\ ~gone /\ c.step = "header" /\ c.reply # <<>>
  /\ IF c.reply[1]
     THEN NextCycle(s, [Scan("all", c.at, c.base) EXCEPT !.count = c.reply[2] - 1])
     ELSE Abandon(s, "FAIL") /\ UNCHANGED <<tree, handlers, refused, failed, gone, changes>>

GotHeader(s) ==
  LET c == scans[s] IN
  /\ ~gone /\ c.step = "header" /\ c.reply # <<>>
  /\ IF c.reply[1]
     THEN NextCycle(s, [Scan("all", c.at, c.base) EXCEPT !.count = c.reply[2]])
     ELSE Abandon(s, "FAIL") /\ UNCHANGED <<tree, handlers, refused, failed, gone, changes>>

\* Room for the records of a table whose header announces n of them, header
\* included: the smallest buffer that is large enough, 0 if none is.
Room(n) ==
  LET fit == {k \in Classes : n - 1 < k} IN IF fit = {} THEN 0 ELSE Least(fit) + 1

\* The table that is decoded: as many records as the header read with it says,
\* of which those that were not read are whatever is on the stack.
Tables(c) ==
  LET announced == c.reply[1]  recs == c.reply[2] IN
  {[i \in 1 .. announced - 1 |->
      IF i <= Len(recs) THEN Decoded(recs[i], c.base)
      ELSE IF i < c.count THEN Blank ELSE junk] : junk \in Junk}

GotAll(s) ==
  LET c == scans[s]  room == Room(c.reply[1]) IN
  /\ ~gone /\ c.step = "all" /\ c.reply # <<>>
  /\ IF c.count <= 1 \/ (room # 0 /\ c.count > room)
     THEN Abandon(s, "FAIL") /\ UNCHANGED failed
     ELSE IF room = 0 THEN Abandon(s, "OOM") /\ UNCHANGED failed
     ELSE \E table \in Tables(c) : \E mem \in Memory(table) :
            LET after == Cb(St, table, mem) IN
            /\ Becomes(FreeScan(after, s))
            /\ failed' = failed \cup ({after.find.status} \cap {"OOM"})
  /\ UNCHANGED <<tree, handlers, refused, gone, changes>>

\* The loop of the call around eb_socket_run ends.
Over == IF find.kind = "identity" THEN find.pending <= 0 ELSE find.status # "wait"

Return ==
  /\ find.pc = "run" /\ Over
  /\ find' = [find EXCEPT !.pc = "done"]
  /\ UNCHANGED <<tree, handlers, scans, items, refused, failed, gone, changes>>

-----------------------------------------------------------------------------
(* The devices of the remote: eb_socket_attach and eb_socket_detach *)

\* (mutant of Attach) a range that encloses another is not noticed.
AttachEnclosing(d) ==
  /\ tree.soft /\ changes < MaxChange /\ d.first >= Reserved
  /\ \A i \in DOMAIN handlers : d.first > handlers[i].last \/ handlers[i].first > d.first
  /\ handlers' = <<d>> \o handlers
  /\ items' = items + 2 /\ changes' = changes + 1
  /\ UNCHANGED <<tree, find, scans, refused, failed, gone>>

\* Two items are taken before the range is looked at. They are given back when
\* it overlaps another (or there is only one), but not when it is reserved. What
\* changes nothing is not a step.
Attach(d) ==
  /\ tree.soft /\ changes < MaxChange
  /\ IF d.first < Reserved
     THEN /\ items' = items + 2 /\ refused' = refused + 1 /\ UNCHANGED handlers
     ELSE /\ \A i \in DOMAIN handlers : d.first > handlers[i].last \/ handlers[i].first > d.last
          /\ handlers' = <<d>> \o handlers
          /\ items' = items + 2 /\ UNCHANGED refused
  /\ changes' = changes + 1
  /\ UNCHANGED <<tree, find, scans, failed, gone>>

\* The first entry of the device is unlinked.
Detach(d) ==
  /\ tree.soft /\ changes < MaxChange /\ Contains(handlers, d)
  /\ handlers' = RemoveAt(handlers, Least({i \in DOMAIN handlers : handlers[i] = d}))
  /\ items' = items - 2
  /\ changes' = changes + 1
  /\ UNCHANGED <<tree, find, scans, refused, failed, gone>>

-----------------------------------------------------------------------------
Init ==
  /\ tree \in Trees
  /\ handlers = <<>> /\ items = 0 /\ refused = 0
  /\ scans = [s \in {} |-> Scan("ptr", 0, 0)]
  /\ find = [pc |-> "idle", kind |-> "identity", id |-> 0, addr |-> 0, size |-> 0,
             status |-> "OK", pending |-> 0, fill |-> 0, output |-> <<>>]
  /\ failed = {} /\ gone = FALSE /\ changes = 0

CalledBack(s) == CycleFails(s) \/ GotHeaderPtr(s) \/ GotHeader(s) \/ GotAll(s)

Next ==
  \/ Start \/ Return \/ LinkBreak
  \/ \E s \in DOMAIN scans : Serve(s) \/ CalledBack(s)
  \/ \E d \in Devices : Attach(d) \/ Detach(d)

\* As long as the device has its link every cycle is called back in the end
\* (EBSocket), whether or not the remote answers; the call's own loop goes on.
Fairness ==
  /\ WF_vars(~gone /\ \E s \in DOMAIN scans : CalledBack(s))
  /\ WF_vars(Return)

Spec == Init /\ [][Next]_vars /\ Fairness

-----------------------------------------------------------------------------
(* Properties *)

TypeOK ==
  /\ tree \in Trees
  /\ find.pc \in {"idle", "run", "done"}
  /\ find.status \in {"wait", "OK", "OOM", "FAIL", "ADDRESS", "TIMEOUT"}
  /\ failed \subseteq CycleErrors \cup {"OOM"} /\ gone \in BOOLEAN
  /\ DOMAIN scans \subseteq 1 .. MaxScans
  /\ \A s \in DOMAIN scans : scans[s].step \in {"ptr", "header", "all"}
  /\ \A i \in DOMAIN handlers : handlers[i] \in Devices
  /\ Len(find.output) <= find.size

\* Whichever way scans end, items are neither lost nor given back twice: those
\* in use are the scans and, twice, the devices. The exception is the refusal of
\* a reserved address, which loses two.
ItemsExact == items = Cardinality(DOMAIN scans) + 2 * Len(handlers) + 2 * refused

\* When a call returns, no scan is left that would call back with its record,
\* which is gone with the call.
NoStaleRecord == find.pc = "done" => DOMAIN scans = {}

\* A bus is the address of its table and its base. The devices of this library
\* are no bridges.
BridgesAt(t, a) ==
  IF a \in DOMAIN t.tables /\ ~(t.soft /\ a = 0)
  THEN {x \in Range(t.tables[a]) : x.type = "bridge"} ELSE {}

Root(t) == <<t.root, 0>>
Behind(t, b) == {<<r.child + b[2], r.first + b[2]>> : r \in BridgesAt(t, b[1])}

\* The buses that can be reached from the root.
Reached(t) ==
  LET within[n \in 0 .. Nesting] ==
        IF n = 0 THEN {Root(t)}
        ELSE within[n - 1] \cup UNION {Behind(t, b) : b \in within[n - 1]}
  IN  within[Nesting]

ASSUME NestingAssumption ==
  \A t \in Trees : \A b \in Reached(t) : Behind(t, b) \subseteq Reached(t)

Buses == Reached(tree)

Present ==
  UNION {{Decoded(r, b[2]) : r \in {x \in Range(Table(b[1])) : x.type = "device"}} :
         b \in {x \in Buses : HasTable(x[1])}}

\* Buses whose table cannot be read: no table, one without records, or one
\* with more than there is room for.
Unreadable == {b \in Buses : ~HasTable(b[1]) \/ Len(Table(b[1])) = 0 \/ Room(Len(Table(b[1])) + 1) = 0}

Quiet == find.pc = "done" /\ changes = 0

\* A call that returns EB_OK has found what there is, in whatever order the
\* buses answered: all devices of the identity, each once and at its absolute
\* address ("more records than fit ... are counted but unwritten"), or the
\* device at the address; EB_ADDRESS means that there is none, unless a cycle
\* failed.
FindsExactly ==
  Quiet =>
    LET want == {d \in Present : IF find.kind = "identity" THEN d.id = find.id
                                 ELSE Covers(d, find.addr)} IN
    /\ find.status = "OK" /\ find.kind = "identity" =>
         /\ find.fill = Cardinality(want)
         /\ Len(find.output) = LeastOf(find.size, find.fill)
         /\ Range(find.output) \subseteq want /\ IsInjective(find.output)
    /\ find.status = "OK" /\ find.kind = "address" => want = Range(find.output)
    /\ find.status = "ADDRESS" /\ failed = {} => want = {}

\* A failure of one scan among many is not covered up by the others: the call
\* returns the error of one that failed, or of a table that can not be read, and
\* EB_OK or that nothing is at the address only if none did.
FailureReported ==
  find.pc = "done" /\ failed # {} => find.status \in failed \cup {"FAIL", "OOM"}

\* Nothing but a failure, or a table that can not be read, makes a call fail.
NothingElseFails ==
  Quiet /\ failed = {} /\ Unreadable = {} => find.status \in {"OK", "ADDRESS"}

\* The calls return, unless the device loses its link.
FindReturns == find.pc = "run" ~> (find.pc = "done" \/ gone)

-----------------------------------------------------------------------------
(* What the calls rely on: a hierarchy of buses that can be decoded. *)

Ranged(x) == x.type \in {"device", "bridge"}

\* x is the record in place i of bus b, y the one in place j of bus c. No two
\* bridges lead to the same bus, none to the root, and no device is listed twice;
\* ranges on one bus are apart, and those behind a bridge are in the bridge's.
Fitting(root, b, i, x, c, j, y) ==
  LET other == <<b, i>> # <<c, j>> IN
  /\ x.type = "bridge" => <<x.child, x.first>> # root
  /\ other /\ x.type = "bridge" /\ y.type = "bridge" => <<x.child, x.first>> # <<y.child, y.first>>
  /\ other /\ x.type = "device" /\ y.type = "device" => x # y
  /\ other /\ b = c /\ Ranged(x) /\ Ranged(y) => x.last < y.first \/ y.last < x.first
  /\ x.type = "bridge" /\ c = <<x.child, x.first>> /\ Ranged(y)
       => x.first <= y.first /\ y.last <= x.last

Proper(t) ==
  \A b, c \in {x \in Reached(t) : x[1] \in DOMAIN t.tables} :
    \A i \in DOMAIN t.tables[b[1]], j \in DOMAIN t.tables[c[1]] :
      Fitting(Root(t), b, i, Decoded(t.tables[b[1]][i], b[2]),
              c, j, Decoded(t.tables[c[1]][j], c[2]))

\* The remote buses are proper; of its own devices eb_socket_attach sees to it,
\* provided that their ranges are not empty.
ProperBuses ==
  /\ \A t \in Trees : ~t.soft => Proper(t)
  /\ \A d \in Devices : d.first <= d.last

-----------------------------------------------------------------------------
(* What makes the properties inductive. *)

\* While a call runs, "pending" counts its scans, or its one scan is under way
\* as long as there is no status; it has written no more than it found.
ScanInv ==
  /\ find.pc # "run" => DOMAIN scans = {}
  /\ find.pc = "run" =>
       Cardinality(DOMAIN scans) = IF find.kind = "identity" THEN find.pending
                                   ELSE IF find.status = "wait" THEN 1 ELSE 0
  /\ IF find.kind = "identity" THEN find.status # "wait" /\ Len(find.output) <= find.fill
     ELSE find.size = 1
  /\ find.pc = "idle" => find.output = <<>>
  /\ failed # {} => find.status \in failed \cup {"FAIL", "OOM"}

-----------------------------------------------------------------------------
(* What a call has found, as long as the remote does not change.           *)

\* The record in place i of bus b, and the bus behind a bridge.
Dec(b, i) == Decoded(Table(b[1])[i], b[2])
Target(x) == <<x.child, x.first>>

\* The bus a scan is about: before its table is known, the root.
Lies(c) == IF c.step = "ptr" THEN Root(tree) ELSE <<c.at, c.base>>

\* The buses that are being scanned.
Under(st) == {Lies(st.scans[s]) : s \in DOMAIN st.scans}

Header(a) == <<HasTable(a), IF HasTable(a) THEN Len(Table(a)) + 1 ELSE 0>>

\* A scan has read what is there.
GoodScan(c) ==
  /\ Lies(c) \in Buses
  /\ c.step = "ptr" => c.base = 0 /\ c.reply \in {<<>>, <<tree.root>>}
  /\ c.step = "header" => c.reply \in {<<>>, Header(c.at)}
  /\ c.step = "all" => /\ HasTable(c.at) /\ c.count = Len(Table(c.at)) + 1
                       /\ c.reply \in {<<>>, <<Len(Table(c.at)) + 1, Table(c.at)>>}

\* The devices of an identity on the buses of V.
Found(V, id) ==
  {d \in UNION {{Dec(b, i) : i \in DOMAIN Table(b[1])} : b \in V} : d.type = "device" /\ d.id = id}

\* The devices of F are counted, and as many of them put out as there is room for.
Tally(F, f) ==
  /\ IsFiniteSet(F) /\ f.fill = Cardinality(F)
  /\ Len(f.output) = LeastOf(f.size, f.fill)
  /\ Range(f.output) \subseteq F /\ IsInjective(f.output)

\* V are the buses whose tables the callback has gone through. What is behind
\* them is done or under way, and each bus is scanned once.
Visited(V, st) ==
  /\ V \subseteq Buses /\ \A b \in V : HasTable(b[1])
  /\ \A s, u \in DOMAIN st.scans : s # u => Lies(st.scans[s]) # Lies(st.scans[u])
  /\ \A b \in V : b \notin Under(st)
  /\ Root(tree) \in V \cup Under(st)
  /\ \A b \in V : Behind(tree, b) \subseteq V \cup Under(st)
  /\ \A c \in V \cup Under(st) : c = Root(tree) \/ \E b \in V : c \in Behind(tree, b)

Counted(V, st) == Visited(V, st) /\ Tally(Found(V, st.find.id), st.find)

\* V are the buses that were passed on the way to the address.
Led(V, st) ==
  /\ Root(tree) \in V \cup Under(st)
  /\ \A b \in V : HasTable(b[1])
  /\ \A b \in V : \A i \in DOMAIN Table(b[1]) :
       Covers(Dec(b, i), st.find.addr) =>
         Dec(b, i).type = "bridge" /\ Target(Dec(b, i)) \in V \cup Under(st)

Covering(a) == {d \in Present : Covers(d, a)}

Reading(st, fl) ==
  /\ \A s \in DOMAIN st.scans : GoodScan(st.scans[s])
  /\ fl = {} /\ Unreadable = {} => st.find.status \in {"OK", "ADDRESS", "wait"}

Finding(st) ==
  /\ st.find.kind = "identity" =>
       /\ st.find.status # "ADDRESS"
       /\ st.find.status = "OK" => \E V \in SUBSET Buses : Counted(V, st)
  /\ st.find.kind # "identity" =>
       /\ st.find.status = "wait" => \E V \in SUBSET Buses : Led(V, st)
       /\ st.find.status = "OK" => Covering(st.find.addr) = Range(st.find.output)
       /\ st.find.status = "ADDRESS" => Covering(st.find.addr) = {}

\* The devices of a remote of this library do not overlap.
HandlersApart ==
  \A i, j \in DOMAIN handlers :
    i # j => handlers[i].last < handlers[j].first \/ handlers[j].last < handlers[i].first

\* What makes FindsExactly and NothingElseFails inductive: as long as the remote
\* has not changed since the call began, its scans have read what is there; if
\* no cycle failed either, the buses are done, under way or behind one that is
\* under way, and the devices of those that are done are counted and put out, or
\* do not cover the address.
SearchInv ==
  /\ changes \in Nat
  /\ find.kind # "identity" => find.addr \in Nat
  /\ HandlersApart
  /\ find.pc = "idle" => find.fill = 0
  /\ find.pc = "done" => find.status # "wait"
  /\ changes = 0 /\ find.pc # "idle" => Reading(St, failed)
  /\ changes = 0 /\ failed = {} /\ find.pc # "idle" /\ ProperBuses => Finding(St)
=============================================================================

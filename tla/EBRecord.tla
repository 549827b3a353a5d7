------------------------------ MODULE EBRecord ------------------------------
(***************************************************************************)
(* What becomes of the operations of a cycle: eb_device_flush packs them   *)
(* into records and records into datagrams (api/format/master.c), the      *)
(* slave executes the records on its bus and writes a reply                *)
(* (api/format/slave.c), and eb_socket_write_config spreads the words of   *)
(* the reply over the operations that wait for them (api/glue/readwrite.c).*)
(* EBSocket abstracts all of this to "a cycle is answered"; here the lists *)
(* of cycles, time-outs and callbacks are abstracted instead.              *)
(*                                                                         *)
(* A packet transport may repeat and reorder datagrams (one that is lost   *)
(* is one that is never received); a stream delivers in order, in pieces   *)
(* cut anywhere.                                                           *)
(***************************************************************************)
EXTENDS Integers, Sequences, FiniteSets, SequencesExt, Lists

CONSTANTS
  Data,        \* bytes of a bus word; also the stride between its addresses
  ByteBits,    \* bits in a byte: 8 in the code
  AddrEnd,     \* the first address too large for the address width
  MaxChain,    \* most writes, and most reads, of a record: 255 in the code
  Mtu,         \* words a datagram has for records
  StreamBuf,   \* words the buffer of a stream has
  MaxDup,      \* how often the network may repeat a request
  Kinds,       \* transports to consider, of "packet" and "stream"
  Queues,      \* the queues of cycles, oldest first, eb_device_flush may find
  Faults       \* sets of addresses at which the remote bus may fail

\* An operation: what the client asked for, the format eb_device_flush settles on,
\* the value to be written or that was read, and the error flag.
Sizes == {1, 2, 4, 8}
Endians == SUBSET {"B", "L"}
Operation ==
  [dir : {"r", "w"}, cfg : BOOLEAN, addr : Nat, sizes : SUBSET Sizes, endian : Endians,
   format : [size : {0} \cup Sizes, endian : Endians], val : Nat, err : BOOLEAN]

\* Words of a record header: 4 bytes in words of 2 bytes, else one word (for
\* addresses not wider than data).
HeaderWords == IF Data <= 2 THEN 2 ELSE 1

\* Words of the largest record: as many writes and reads as one can chain,
\* each behind an address.
WorstRecord == HeaderWords + (1 + MaxChain) + (1 + MaxChain)

\* The array "buffer" is "big enough for worst-case record".
ASSUME RecordAssumption ==
  /\ Data \in Sizes /\ ByteBits \in Nat \ {0} /\ AddrEnd \in Nat \ {0}
  /\ MaxChain \in Nat \ {0, 1} /\ Mtu \in Nat /\ MaxDup \in Nat
  /\ StreamBuf \in Nat /\ StreamBuf >= WorstRecord
  /\ Kinds \subseteq {"packet", "stream"}
  /\ \A q \in Queues : q \in Seq([ops : Seq(Operation), checked : BOOLEAN])

VARIABLES
  kind,      \* of the transport below: "packet" (it has an mtu) or "stream"
  cycles,    \* cycles[c]: the operations of cycle c, with what is stored in them
  checked,   \* checked[c]: EB_OP_CHECKED, closed by eb_cycle_close
  status,    \* status[c]: what the callback of c was given, "none" before
  cur,       \* locals of the loops of eb_device_flush
  buf,       \* records between the start of the buffer and wptr
  cptr,      \* how many of them precede cptr: they are of complete cycles
  header,    \* [nr: the bit EB_HEADER_NR in buffer[2], reads: has_reads]
  rba,       \* aux->rba
  resp,      \* responses, oldest first
  wire,      \* requests on their way: datagrams, or the records of the stream
  dups,      \* requests the network may still repeat
  slave,     \* locals of the remote's eb_device_slave
  back,      \* replies on their way
  fault,     \* addresses at which the remote bus fails
  bus        \* history: the transactions of the remote bus

vars == <<kind, cycles, checked, status, cur, buf, cptr, header, rba, resp,
          wire, dups, slave, back, fault, bus>>

-----------------------------------------------------------------------------
(* Operations *)

\* Powers of two up to that of a 64-bit word, and the number of values n bytes
\* can have.
Pow2[n \in 0 .. 8 * ByteBits] == IF n = 0 THEN 1 ELSE 2 * Pow2[n - 1]
Values(n) == Pow2[n * ByteBits]

CfgEnd == 65536
RbaBase == 32768

\* (mutant of Full) one operation more than the status word has bits.
FullLate(count, c) == checked[c] /\ count > Data * ByteBits

\* A status word has a bit for each of so many operations: a checked cycle must
\* fetch it before another one is sent. Unchecked cycles have no limit.
Full(count, c) == checked[c] /\ count >= Data * ByteBits

IsBus(op) == ~op.cfg

\* Size and endianness eb_device_flush settles on for an operation, and keeps
\* in it: the largest size it allows that the port has.
OpSize(op) == CHOOSE s \in {0} \cup op.sizes :
                 s <= Data /\ \A t \in op.sizes : t <= Data => t <= s
OpEndian(op) == IF OpSize(op) = Data THEN {} ELSE op.endian
WholeWord == [size |-> Data, endian |-> {}]
LowAddr(op) == op.addr % Data

\* Why eb_device_flush rejects an operation, "none" when it does not.
Objection(op) ==
  LET size == OpSize(op)  endian == OpEndian(op) IN
  IF size = 0 THEN "WIDTH"
  ELSE IF endian = {"B", "L"} \/ (size # Data /\ endian = {}) THEN "ENDIAN"
  ELSE IF op.addr % size # 0 \/ op.addr >= (IF op.cfg THEN CfgEnd ELSE AddrEnd) THEN "ADDRESS"
  ELSE IF op.dir = "w" /\ op.val >= Values(size) THEN "WIDTH"
  ELSE "none"

Objections(ops) == {i \in DOMAIN ops : Objection(ops[i]) # "none"}
Settled(ops) ==
  [i \in DOMAIN ops |-> [ops[i] EXCEPT !.format = [size |-> OpSize(ops[i]),
                                                 endian |-> OpEndian(ops[i])]]]

Least(S) == CHOOSE x \in S : \A y \in S : x <= y
LeastOrNull(S) == IF S = {} THEN 0 ELSE Least(S)

\* (mutant of FindRead) the end of the operations is not recognised.
FindReadOpen(ops, i) == Least({j \in i .. Len(ops) : ops[j].dir = "r"} \cup {Len(ops) + 1})

\* eb_find_read and eb_find_bus from the i-th operation on; 0 is EB_NULL.
FindRead(ops, i) == LeastOrNull({j \in i .. Len(ops) : ops[j].dir = "r"})
FindBus(ops, i)  == LeastOrNull({j \in i .. Len(ops) : IsBus(ops[j])})

-----------------------------------------------------------------------------
(* Packing operations into a record *)

\* The address of the j-th write (from 0) of a record.
ChainAddr(base, fifo, j) == IF fifo THEN base ELSE base + j * Data

\* n writes from p on fit one record, as a FIFO or in sequence.
Writes(c, p, count, fifo, n) ==
  LET ops == cycles[c] IN
  /\ n <= MaxChain /\ p + n - 1 <= Len(ops)
  /\ \A j \in 0 .. n - 1 :
       LET op == ops[p + j] IN
       /\ op.dir = "w" /\ op.cfg = ops[p].cfg /\ op.format = ops[p].format
       /\ op.addr = ChainAddr(ops[p].addr, fifo, j)
       /\ ~Full(IF op.cfg THEN count ELSE count + j, c)

\* n reads from p on fit one record.
Reads(c, p, count, n) ==
  LET ops == cycles[c] IN
  /\ n <= MaxChain /\ p + n - 1 <= Len(ops)
  /\ \A j \in 0 .. n - 1 :
       LET op == ops[p + j] IN
       /\ op.dir = "r" /\ op.cfg = ops[p].cfg /\ op.format = ops[p].format
       /\ LowAddr(op) = LowAddr(ops[p])
       /\ ~Full(IF op.cfg THEN count ELSE count + j, c)

Most(S) == CHOOSE n \in S : \A m \in S : m <= n
WriteCount(c, p, count, fifo) == Most({n \in 0 .. MaxChain : Writes(c, p, count, fifo, n)})
ReadCount(c, p, count) == Most({n \in 0 .. MaxChain : Reads(c, p, count, n)})

\* How many bus operations n operations of one kind from p on are.
Counted(c, p, n) == IF n = 0 \/ cycles[c][p].cfg THEN 0 ELSE n

\* The next record of the cycle being formatted, as far as it is decided
\* before the buffer is looked at. A read may share a record only with writes
\* of its format and its low address bits.
Shape(c, p, count) ==
  LET ops   == cycles[c]
      fifo  == Writes(c, p, count, TRUE, 2)
      w     == WriteCount(c, p, count, fifo)
      wops  == count + Counted(c, p, w)
      q     == p + w
      fits  == w = 0 \/ (q <= Len(ops) /\ ops[q].format = ops[p].format
                                       /\ LowAddr(ops[q]) = LowAddr(ops[p]))
      r     == IF fits THEN ReadCount(c, q, wops) ELSE 0
      total == wops + Counted(c, q, r)
      atEnd == q + r > Len(ops)
      flags == /\ r = 0
               /\ w = 0 \/ ops[p].format = WholeWord
               /\ Full(total, c) \/ (atEnd /\ checked[c] /\ total > 0)
  IN  [w |-> w, r |-> r, fifo |-> fifo, flags |-> flags,
       ops |-> IF flags THEN 0 ELSE total,
       end |-> atEnd /\ (~checked[c] \/ total = 0 \/ flags),
       words |-> HeaderWords + (IF w > 0 THEN 1 + w ELSE 0)
                   + (IF flags THEN 2 ELSE IF r > 0 THEN 1 + r ELSE 0)]

OpShift(format, low) ==
  IF format.endian = {"B"} THEN Data - (low + format.size) ELSE low

\* The record of that shape as it is written to the buffer. Status is read
\* from the configuration register at 8 - stride into the odd address.
Record(c, p, s) ==
  LET ops    == cycles[c]
      format == IF s.w = 0 /\ s.r = 0 THEN WholeWord ELSE ops[p].format
      shift  == IF s.w = 0 /\ s.r = 0 THEN 0 ELSE OpShift(format, LowAddr(ops[p]))
      q      == p + s.w
  IN  [cyc    |-> s.end,
       lanes  |-> shift .. shift + format.size - 1,
       wcfg   |-> s.w > 0 /\ ops[p].cfg,
       fifo   |-> s.fifo,
       waddr  |-> IF s.w > 0 THEN ops[p].addr ELSE 0,
       writes |-> [j \in 1 .. s.w |-> ops[p + j - 1].val * Values(shift)],
       rcfg   |-> s.flags \/ (s.r > 0 /\ ops[q].cfg),
       bra    |-> IF s.flags THEN rba + 1 ELSE rba,
       reads  |-> IF s.flags THEN <<8 - Data>>
                  ELSE [j \in 1 .. s.r |-> ops[q + j - 1].addr]]

RecordWords(rec) == HeaderWords + (IF rec.writes = <<>> THEN 0 ELSE 1 + Len(rec.writes))
                                + (IF rec.reads = <<>> THEN 0 ELSE 1 + Len(rec.reads))
Words(recs) ==
  LET sum[i \in 0 .. Len(recs)] == IF i = 0 THEN 0 ELSE sum[i - 1] + RecordWords(recs[i])
  IN  sum[Len(recs)]

-----------------------------------------------------------------------------
(* eb_device_flush, one record per step *)

Limit == IF kind = "packet" THEN Mtu ELSE StreamBuf

Send(recs, h) ==
  wire' = IF kind = "stream" THEN wire \o recs ELSE Append(wire, [nr |-> h.nr, recs |-> recs])

\* The header bits of a datagram as it is sent, and after it.
SentHeader == [nr |-> header.nr \/ ~header.reads, reads |-> FALSE]

\* What stays in the buffer when a record of n words is to be added to it: a
\* stream sends what it has, a packet device only the complete cycles.
Spills(n) == /\ n > Limit - Words(buf)
             /\ kind = "stream" \/ cptr > 0
Kept(n) == IF ~Spills(n) THEN buf
           ELSE IF kind = "stream" THEN <<>> ELSE SubSeq(buf, cptr + 1, Len(buf))
HeaderAfter(n) == IF Spills(n) /\ kind = "packet" THEN SentHeader ELSE header

\* (mutant of Spill) a stream, too, sends only its complete cycles.
SpillComplete(n) ==
  IF ~Spills(n) THEN UNCHANGED wire ELSE Send(SubSeq(buf, 1, cptr), SentHeader)

Spill(n) ==
  IF ~Spills(n) THEN UNCHANGED wire
  ELSE Send(IF kind = "stream" THEN buf ELSE SubSeq(buf, 1, cptr), SentHeader)

NextCycle(c) == [c |-> c, p |-> 0, ops |-> 0, readback |-> FALSE]
Formatting == cur.c <= Len(cycles) /\ cur.p > 0
Flushed == cur.c > Len(cycles) + 1

\* The operations of the next cycle are looked at first. A cycle with one the
\* device cannot do is called back at once.
Examine ==
  LET bad == Objections(cycles[cur.c]) IN
  /\ cur.c <= Len(cycles) /\ cur.p = 0
  /\ IF bad = {}
     THEN /\ cycles' = [cycles EXCEPT ![cur.c] = Settled(@)]
          /\ cur' = [cur EXCEPT !.p = 1]
          /\ UNCHANGED status
     ELSE /\ status' = [status EXCEPT ![cur.c] = Objection(cycles[cur.c][Least(bad)])]
          /\ cur' = NextCycle(cur.c + 1)
          /\ UNCHANGED cycles
  /\ UNCHANGED <<buf, cptr, header, rba, resp, wire>>

\* The record is added; the last one of a cycle makes the response that waits
\* for the answers, or calls back when there will be none. Only a packet device
\* looks a second time whether there is room: a stream has emptied its buffer.
AddRecord ==
  LET c == cur.c
      s == Shape(c, cur.p, cur.ops)
      readback == cur.readback \/ s.flags \/ s.r > 0
      rec == Record(c, cur.p, s)
  IN
  /\ Formatting
  /\ kind = "packet" => s.words <= Limit - Words(Kept(s.words))
  /\ Spill(s.words)
  /\ buf' = Append(Kept(s.words), rec)
  /\ header' = [HeaderAfter(s.words) EXCEPT !.reads = @ \/ rec.reads # <<>>]
  /\ cptr' = IF s.end THEN Len(buf') ELSE IF Spills(s.words) THEN 0 ELSE cptr
  /\ cur' = IF s.end THEN NextCycle(c + 1)
            ELSE [cur EXCEPT !.p = @ + s.w + s.r, !.ops = s.ops, !.readback = readback]
  /\ IF s.end /\ readback
     THEN /\ resp' = Append(resp, [addr |-> rba, cycle |-> c,
                                   write |-> FindRead(cycles[c], 1),
                                   status |-> IF checked[c] THEN FindBus(cycles[c], 1) ELSE 0])
          /\ rba' = RbaBase + ((rba + 2) % RbaBase)
     ELSE UNCHANGED <<resp, rba>>
  /\ status' = IF s.end /\ ~readback THEN [status EXCEPT ![c] = "OK"] ELSE status
  /\ UNCHANGED cycles

\* (mutant of Overflow) what is formatted of the cycle stays in the buffer.
OverflowKeeps ==
  LET c == cur.c  n == Shape(c, cur.p, cur.ops).words IN
  /\ Formatting /\ kind = "packet"
  /\ n > Limit - Words(Kept(n))
  /\ Spill(n)
  /\ status' = [status EXCEPT ![c] = "OVERFLOW"]
  /\ buf' = Kept(n) /\ cptr' = Len(buf')
  /\ header' = HeaderAfter(n)
  /\ cur' = NextCycle(c + 1)
  /\ UNCHANGED <<cycles, rba, resp>>

\* A cycle that no datagram can hold is dropped with what is formatted of it.
Overflow ==
  LET c == cur.c  n == Shape(c, cur.p, cur.ops).words IN
  /\ Formatting /\ kind = "packet"
  /\ n > Limit - Words(Kept(n))
  /\ Spill(n)
  /\ status' = [status EXCEPT ![c] = "OVERFLOW"]
  /\ buf' = <<>> /\ cptr' = 0
  /\ header' = HeaderAfter(n)
  /\ cur' = NextCycle(c + 1)
  /\ UNCHANGED <<cycles, rba, resp>>

FlushEnd ==
  /\ cur.c = Len(cycles) + 1
  /\ cur' = NextCycle(cur.c + 1)
  /\ IF buf = <<>> THEN UNCHANGED wire ELSE Send(buf, SentHeader)
  /\ buf' = <<>> /\ cptr' = 0 /\ UNCHANGED <<header, status, cycles, rba, resp>>

Flush == (Examine \/ AddRecord \/ Overflow \/ FlushEnd)
         /\ UNCHANGED <<kind, checked, dups, slave, back, fault, bus>>

-----------------------------------------------------------------------------
(* eb_device_slave at the remote end, one record per step *)

\* The select bits of a record: which bytes of the word its operations use.
Shift(lanes) == Least(lanes)
Width(lanes) == Cardinality(lanes)
SelOk(lanes) ==
  /\ lanes # {}
  /\ lanes = Shift(lanes) .. Shift(lanes) + Width(lanes) - 1
  /\ Width(lanes) \in {1, 2, 4, 8}
  /\ Shift(lanes) % Width(lanes) = 0
  /\ Width(lanes) <= Data /\ Shift(lanes) < Data

Unpack(word, lanes) == (word \div Values(Shift(lanes))) % Values(Width(lanes))
Pack(value, lanes) == (value % Values(Width(lanes))) * Values(Shift(lanes))

\* Low address bits are replaced by what the select bits say, for a device of
\* either endianness.
WordAddr(a) == (a % AddrEnd) - ((a % AddrEnd) % Data)
BigAddr(a, lanes) == WordAddr(a) + Data - (Shift(lanes) + Width(lanes))
LittleAddr(a, lanes) == WordAddr(a) + Shift(lanes)

\* The register of error bits, most significant byte first.
ShiftError(error, fail) == (2 * error + (IF fail THEN 1 ELSE 0)) % Values(8)
ReadConfig(error, a, width) ==
  IF a >= 8 THEN 0 ELSE (error \div Values(8 - (a + width))) % Values(width)

\* The accesses a record asks for: its writes, then its reads.
Accesses(rec) ==
  [j \in 1 .. Len(rec.writes) |->
     [dir |-> "w", cfg |-> rec.wcfg, word |-> rec.writes[j],
      addr |-> ChainAddr(IF rec.wcfg THEN rec.waddr ELSE WordAddr(rec.waddr), rec.fifo, j - 1)]]
  \o [j \in 1 .. Len(rec.reads) |->
     [dir |-> "r", cfg |-> rec.rcfg, word |-> 0, addr |-> rec.reads[j]]]

\* A transaction on the bus. A read returns the number of the transaction, so
\* that answers can be told apart; the bus fails at the addresses of fault.
Transaction(a, lanes, n) ==
  LET b == BigAddr(a.addr, lanes) IN
  [dir |-> a.dir, big |-> b, little |-> LittleAddr(a.addr, lanes), width |-> Width(lanes),
   val |-> IF a.dir = "w" THEN Unpack(a.word, lanes) ELSE n % Values(Width(lanes)),
   fail |-> b \in fault]

\* One access: st has the error register, the transactions so far and the
\* words of the reply. Writes to the configuration space are for responses of
\* the remote's own and leave no trace here.
Access(st, a, lanes) ==
  LET t == Transaction(a, lanes, Len(st.bus) + 1) IN
  IF a.cfg
  THEN IF a.dir = "w" THEN st
       ELSE [st EXCEPT !.words = Append(@,
               IF SelOk(lanes)
               THEN Pack(ReadConfig(st.error, BigAddr(a.addr, lanes), Width(lanes)), lanes)
               ELSE 0)]
  ELSE [error |-> ShiftError(st.error, ~SelOk(lanes) \/ t.fail),
        bus |-> IF SelOk(lanes) THEN Append(st.bus, t) ELSE st.bus,
        words |-> IF a.dir = "w" THEN st.words
                  ELSE Append(st.words, IF SelOk(lanes) THEN Pack(t.val, lanes) ELSE 0)]

Execute(rec, error, transactions) ==
  LET todo == Accesses(rec)
      st[i \in 0 .. Len(todo)] ==
        IF i = 0 THEN [error |-> error, bus |-> transactions, words |-> <<>>]
        ELSE Access(st[i - 1], todo[i], rec.lanes)
  IN  st[Len(todo)]

Idle == [on |-> FALSE, dead |-> FALSE, recs |-> <<>>, cut |-> "none", error |-> 0,
         cyc |-> TRUE, open |-> FALSE, reply |-> FALSE, out |-> <<>>]

Terminator == [cyc |-> TRUE, lanes |-> {}, addr |-> 0, words |-> <<>>]

\* The network hands over a datagram and may keep a copy of it.
Receive ==
  /\ kind = "packet" /\ ~slave.on
  /\ \E i \in DOMAIN wire :
       /\ slave' = [Idle EXCEPT !.on = TRUE, !.recs = wire[i].recs]
       /\ \/ wire' = RemoveAt(wire, i) /\ UNCHANGED dups
          \/ dups > 0 /\ dups' = dups - 1 /\ UNCHANGED wire
  /\ UNCHANGED <<back, bus>>

\* A piece of the stream: k whole records, and perhaps the beginning of one
\* more, cut in its header or after it.
Piece(k, cut) ==
  /\ cut # "none" => k < Len(wire)
  /\ wire' = SubSeq(wire, k + 1, Len(wire))
  /\ UNCHANGED <<dups, bus>>

Poll ==
  /\ kind = "stream" /\ ~slave.on /\ ~slave.dead
  /\ \E k \in 0 .. Len(wire), cut \in {"none", "header", "body"} :
       /\ <<k, cut>> # <<0, "none">>
       /\ Piece(k, cut)
       /\ slave' = [Idle EXCEPT !.on = TRUE, !.recs = SubSeq(wire, 1, k), !.cut = cut]
  /\ UNCHANGED back

ExecRecord ==
  LET rec  == Head(slave.recs)
      done == Execute(rec, slave.error, bus)
      reads == rec.reads # <<>>
      open == IF reads THEN ~rec.cyc ELSE slave.open
      answer == IF reads THEN <<[cyc |-> rec.cyc, lanes |-> rec.lanes, addr |-> rec.bra,
                                 words |-> done.words]>>
                ELSE <<>>
  IN
  /\ slave.on /\ slave.recs # <<>>
  /\ bus' = done.bus
  /\ slave' = [slave EXCEPT !.recs = Tail(@), !.error = done.error, !.cyc = rec.cyc,
                            !.open = open, !.reply = @ \/ reads,
                            !.out = @ \o answer \o (IF open /\ rec.cyc THEN <<Terminator>> ELSE <<>>)]
  /\ UNCHANGED <<wire, dups, back>>

Reply ==
  back' = IF ~slave.reply \/ slave.out = <<>> THEN back
          ELSE IF kind = "stream" THEN back \o slave.out ELSE Append(back, slave.out)

\* The piece is used up in the middle of a cycle, or of the body of a record:
\* a stream waits for more, keeping a header it has only half of.
More ==
  /\ kind = "stream" /\ slave.on /\ slave.recs = <<>>
  /\ slave.cut = "body" \/ ~slave.cyc
  /\ \E k \in 0 .. Len(wire), cut \in {"none", "header", "body"} :
       /\ k = 0 => <<slave.cut, cut>> \in
                     {<<"none", "header">>, <<"none", "body">>, <<"header", "body">>}
       /\ Piece(k, cut)
       /\ slave' = [slave EXCEPT !.recs = SubSeq(wire, 1, k), !.cut = cut, !.out = <<>>]
  /\ Reply

\* The message ends with the cycle closed and nothing left over.
EndMessage ==
  /\ slave.on /\ slave.recs = <<>> /\ slave.cyc /\ slave.cut = "none"
  /\ Reply
  /\ slave' = Idle
  /\ UNCHANGED <<wire, dups, bus>>

\* A datagram with the cycle line left high is refused, after the replies; a
\* stream is closed when a piece of a header follows a complete cycle.
Kill ==
  /\ slave.on /\ slave.recs = <<>>
  /\ IF kind = "packet" THEN ~slave.cyc ELSE slave.cyc /\ slave.cut = "header"
  /\ Reply
  /\ slave' = [Idle EXCEPT !.dead = TRUE]
  /\ UNCHANGED <<wire, dups, bus>>

Slave == (Receive \/ Poll \/ ExecRecord \/ More \/ EndMessage \/ Kill)
         /\ UNCHANGED <<kind, cycles, checked, status, cur, buf, cptr, header, rba, resp, fault>>

-----------------------------------------------------------------------------
(* eb_socket_write_config, for every word of a reply *)

\* (mutant of StatusOps) configuration accesses are taken for bus operations.
StatusOpsAll(ops, from, bits) ==
  LET later == {i \in DOMAIN ops : from # 0 /\ i >= from} IN
  {i \in later : Cardinality({j \in later : j < i}) < bits}

\* The operations a status word is about: bus operations from the cursor on, as
\* many as the word has bits.
StatusOps(ops, from, bits) ==
  LET later == {i \in DOMAIN ops : from # 0 /\ i >= from /\ IsBus(ops[i])} IN
  {i \in later : Cardinality({j \in later : j < i}) < bits}

Bit(value, i) == (value \div Pow2[i]) % 2 = 1

\* m holds the cycles, the responses and the statuses.
WriteConfig(m, width, a, value) ==
  LET hit == {i \in DOMAIN m.resp : m.resp[i].addr = a - (a % 2)} IN
  IF hit = {} THEN m ELSE
  LET i    == Least(hit)
      r    == m.resp[i]
      ops  == m.cycles[r.cycle]
      said == StatusOps(ops, r.status, width * ByteBits)
      n    == Cardinality(said)
      fail == IF a % 2 = 0 THEN r.write = 0 ELSE n = 0
      stored ==
        IF fail THEN ops
        ELSE IF a % 2 = 0 THEN [ops EXCEPT ![r.write].val = value]
        ELSE [k \in DOMAIN ops |->
               [ops[k] EXCEPT !.err = @ \/ (k \in said /\ Bit(value, Cardinality({j \in said : j > k})))]]
      left ==
        [r EXCEPT !.write = IF a % 2 = 0 /\ ~fail THEN FindRead(ops, @ + 1) ELSE @,
                  !.status = IF a % 2 = 0 THEN @ ELSE IF fail THEN 0 ELSE FindBus(ops, Most(said) + 1)]
      done == fail \/ (left.write = 0 /\ left.status = 0)
      verdict == IF fail THEN "FAIL"
                 ELSE IF \E k \in DOMAIN stored : stored[k].err THEN "SEGFAULT" ELSE "OK"
  IN  [cycles |-> [m.cycles EXCEPT ![r.cycle] = stored],
       resp   |-> IF done THEN RemoveAt(m.resp, i) ELSE [m.resp EXCEPT ![i] = left],
       status |-> IF done THEN [m.status EXCEPT ![r.cycle] = verdict] ELSE m.status]

DeliverRecord(m, rec) ==
  LET after[i \in 0 .. Len(rec.words)] ==
        IF i = 0 THEN m
        ELSE WriteConfig(after[i - 1], Width(rec.lanes), rec.addr, Unpack(rec.words[i], rec.lanes))
  IN  IF SelOk(rec.lanes) THEN after[Len(rec.words)] ELSE m

Deliver(m, recs) ==
  LET after[i \in 0 .. Len(recs)] == IF i = 0 THEN m ELSE DeliverRecord(after[i - 1], recs[i])
  IN  after[Len(recs)]

\* The master reads a reply once its flush is over; on a stream it reads the
\* records one at a time.
Answer ==
  LET m == [cycles |-> cycles, resp |-> resp, status |-> status] IN
  /\ Flushed /\ back # <<>>
  /\ \E i \in DOMAIN back :
       LET after == Deliver(m, IF kind = "packet" THEN back[i] ELSE <<back[i]>>) IN
       /\ kind = "stream" => i = 1
       /\ cycles' = after.cycles /\ resp' = after.resp /\ status' = after.status
       /\ back' = RemoveAt(back, i)
  /\ UNCHANGED <<kind, checked, cur, buf, cptr, header, rba, wire, dups, slave, fault, bus>>

-----------------------------------------------------------------------------
Init ==
  /\ kind \in Kinds
  /\ \E q \in Queues :
       /\ cycles = [c \in DOMAIN q |-> q[c].ops]
       /\ checked = [c \in DOMAIN q |-> q[c].checked]
       /\ status = [c \in DOMAIN q |-> "none"]
  /\ fault \in Faults
  /\ cur = NextCycle(1)
  /\ buf = <<>> /\ cptr = 0 /\ header = [nr |-> FALSE, reads |-> FALSE]
  /\ rba = RbaBase /\ resp = <<>>
  /\ wire = <<>> /\ dups = MaxDup /\ back = <<>>
  /\ slave = Idle /\ bus = <<>>

Next == Flush \/ Slave \/ Answer

Spec == Init /\ [][Next]_vars

-----------------------------------------------------------------------------
(* Properties *)

TypeOK ==
  /\ kind \in Kinds
  /\ \A c \in DOMAIN cycles :
       status[c] \in {"none", "OK", "SEGFAULT", "FAIL", "WIDTH", "ENDIAN", "ADDRESS", "OVERFLOW"}
  /\ cur.c \in 1 .. Len(cycles) + 2
  /\ cptr \in 0 .. Len(buf) /\ Words(buf) <= Limit
  /\ \A i \in DOMAIN resp :
       /\ resp[i].write \in 0 .. Len(cycles[resp[i].cycle])
       /\ resp[i].status \in 0 .. Len(cycles[resp[i].cycle])
  /\ slave.on => ~slave.dead

\* The operations of a list that go to the bus.
OnBus(ops) == Filter(ops, {op \in Range(ops) : IsBus(op)})
BusOps(c) == OnBus(cycles[c])

\* The transaction is the operation: its direction, its address as a device of
\* the operation's endianness sees it, its width, and its data if it is a write.
Performs(t, op) ==
  /\ t.dir = op.dir /\ t.width = OpSize(op)
  /\ op.addr = IF OpEndian(op) = {"L"} THEN t.little ELSE t.big
  /\ op.dir = "w" => t.val = op.val

\* The transactions a sequence of records stands for.
Meaning(recs) ==
  LET ts[i \in 0 .. Len(recs)] == IF i = 0 THEN <<>> ELSE Execute(recs[i], 0, ts[i - 1]).bus
  IN  ts[Len(recs)]

PerformsAll(ts, ops) ==
  Len(ts) = Len(ops) /\ \A i \in DOMAIN ts : Performs(ts[i], ops[i])

\* The operations a cycle sends to the bus, none if it is rejected; those of the
\* cycles from a to b.
Sent(c) == IF Objections(cycles[c]) # {} \/ status[c] = "OVERFLOW" THEN <<>> ELSE BusOps(c)
Accepted(a, b) == FlattenSeq([i \in 1 .. b - a + 1 |-> Sent(a + i - 1)])

\* A datagram carries whole cycles, in the order they were closed, and stands
\* for exactly their operations, wherever the cycles were cut into records and
\* the buffer into datagrams: a cycle that did not fit leaves nothing behind in
\* a later datagram, and the cycle line is low at the end of each.
WholeCycles ==
  kind = "packet" => \A i \in DOMAIN wire :
    /\ Last(wire[i].recs).cyc
    /\ \E a \in 1 .. Len(cycles) : \E b \in a .. Len(cycles) :
         PerformsAll(Meaning(wire[i].recs), Accepted(a, b))

\* Over a stream the bus sees every operation of every accepted cycle, in order
\* and once, however the stream is cut into pieces.
StreamOrder ==
  kind = "stream" =>
    /\ Len(bus) <= Len(Accepted(1, Len(cycles)))
    /\ PerformsAll(bus, SubSeq(Accepted(1, Len(cycles)), 1, Len(bus)))

HasAnswer(c) == (checked[c] /\ BusOps(c) # <<>>) \/ FindRead(cycles[c], 1) # 0

\* The bus operations whose results a cycle waits for: all of a checked cycle,
\* else up to the last read.
Awaited(c) ==
  LET ops == cycles[c] IN
  IF checked[c] THEN BusOps(c)
  ELSE OnBus(SubSeq(ops, 1, SelectLastInSeq(ops, LAMBDA op : op.dir = "r")))

\* What the callback is given is what happened: some run of transactions is the
\* cycle (up to its last read if it is unchecked), the values read are in the
\* operations that read them, the error flag is on exactly the operations that
\* failed (of a checked cycle), and the status is EB_SEGFAULT exactly if there
\* is one. In particular no answer is taken for surplus (EB_FAIL), though
\* requests are repeated and reordered.
AnswersFaithful ==
  \A c \in DOMAIN cycles : status[c] \in {"OK", "SEGFAULT", "FAIL"} /\ HasAnswer(c) =>
    /\ status[c] # "FAIL"
    /\ status[c] = "SEGFAULT" <=> \E k \in DOMAIN cycles[c] : cycles[c][k].err
    /\ \E i \in 0 .. Len(bus) - Len(Awaited(c)) :
         LET ops == Awaited(c)  run == SubSeq(bus, i + 1, i + Len(ops)) IN
         /\ PerformsAll(run, ops)
         /\ \A k \in DOMAIN ops :
              /\ ops[k].dir = "r" => ops[k].val = run[k].val
              /\ ops[k].err <=> checked[c] /\ run[k].fail

\* When all that was sent has been executed and all replies have been read, no
\* cycle is left waiting: the answers are exactly as many as the cursors expect.
AllAnswered ==
  Flushed /\ wire = <<>> /\ ~slave.on /\ ~slave.dead /\ back = <<>> =>
    resp = <<>> /\ \A c \in DOMAIN cycles : status[c] # "none"

\* A datagram marked as one without reads has none: the header flag NR is set
\* from what was counted since the last datagram was sent, while records of a
\* cycle may be kept for the next ("An Etherbone device must leave this field 0 if
\* the message includes reads").
NoReadsPromise ==
  kind = "packet" => \A i \in DOMAIN wire :
    wire[i].nr => \A k \in DOMAIN wire[i].recs : wire[i].recs[k].reads = <<>>
=============================================================================

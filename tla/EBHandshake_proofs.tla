------------------------- MODULE EBHandshake_proofs -------------------------
(***************************************************************************)
(* Proofs about EBHandshake, for any sets of devices and widths and any    *)
(* number of attempts: the attempts are counted exactly, and the two ends  *)
(* of a stream derive the same widths.                                     *)
(***************************************************************************)
EXTENDS EBHandshake, TLAPS

\* Masks of four bits have values of four bits, and the table is symmetric.
LEMMA AndNibble ==
    ASSUME NEW m \in 0..15, NEW n \in 0..15
    PROVE  /\ And(m, n) \in 0..15
           /\ And(m, n) = And(n, m)
<1> DEFINE B == Bits(m) \cap Bits(n)
<1>1. Bits(n) \cap Bits(m) = B
  OBVIOUS
<1>2. And(m, n) = Nibble(B) /\ And(n, m) = Nibble(Bits(n) \cap Bits(m))
  BY DEF And, AndTable
<1>3. Nibble(B) \in 0..15
  BY DEF Nibble
<1> QED
  BY <1>1, <1>2, <1>3

\* The union of two nibbles is a nibble.
LEMMA OrNibble ==
    ASSUME NEW m \in 0..15, NEW n \in 0..15
    PROVE  Or(m, n) \in 0..15
<1> DEFINE B == Bits(m) \cup Bits(n)
<1>1. Or(m, n) = Nibble(B)
  BY DEF Or, OrTable
<1>2. Nibble(B) \in 0..15
  BY DEF Nibble
<1> QED
  BY <1>1, <1>2

\* The halves of a byte of widths are nibbles.
LEMMA Nibbles ==
    ASSUME NEW w \in Widths
    PROVE  Data(w) \in 0..15 /\ Addr(w) \in 0..15
BY DEF Widths, Data, Addr

\* Intersecting widths is symmetric: each end may start from its own mask.
LEMMA WidthAndFacts ==
    ASSUME NEW v \in Widths, NEW w \in Widths
    PROVE  /\ WidthAnd(v, w) \in Widths
           /\ WidthAnd(v, w) = WidthAnd(w, v)
<1>1. And(Addr(v), Addr(w)) \in 0..15 /\ And(Addr(v), Addr(w)) = And(Addr(w), Addr(v))
  BY Nibbles, AndNibble
<1>2. And(Data(v), Data(w)) \in 0..15 /\ And(Data(v), Data(w)) = And(Data(w), Data(v))
  BY Nibbles, AndNibble
<1> QED
  BY <1>1, <1>2 DEF WidthAnd, Widths

\* The largest width of a nibble is a nibble.
LEMMA KeepLargestType ==
    ASSUME NEW n \in 0..15
    PROVE  KeepLargest[n] \in 0..15
<1> DEFINE m == Or(n, n \div 2)
           k == Or(m, m \div 4)
<1>1. n \div 2 \in 0..15
  OBVIOUS
<1>2. m \in 0..15
  BY <1>1, OrNibble
<1>3. m \div 4 \in 0..15
  <2> HIDE DEF m
  <2> QED
    BY <1>2
<1>4. k \in 0..15
  <2> HIDE DEF m
  <2> QED
    BY <1>2, <1>3, OrNibble
<1>5. (k + 1) \div 2 \in 0..15
  <2> HIDE DEF k
  <2> QED
    BY <1>4
<1>6. KeepLargest[n] = (k + 1) \div 2
  BY DEF KeepLargest
<1> QED
  BY <1>5, <1>6

\* A refined width is a byte.
LEMMA WidthRefineType ==
    ASSUME NEW w \in Widths
    PROVE  WidthRefine(w) \in Widths
<1>1. KeepLargest[Addr(w)] \in 0..15 /\ KeepLargest[Data(w)] \in 0..15
  BY Nibbles, KeepLargestType
<1> QED
  BY <1>1 DEF WidthRefine, Widths

-----------------------------------------------------------------------------
\* What the two ends of a stream have in common while it is set up, if no stray
\* datagram reaches this end.  Until the probe is answered the passive device
\* has no widths; once it is, they are the refinement of the proposal and the
\* remote's mask.
Undisturbed(d) ==
    /\ "probe" \in stream[d] \/ "response" \in stream[d] => widths[d] = 0 /\ st[d] = "opening"
    /\ "response" \in stream[d] \/ widths[d] # 0 =>
          pasv[d] \in {NoPassive, WidthRefine(WidthAnd(proposed[d], remote[peer[d]]))}
    /\ st[d] = "opening" => widths[d] \in {0, remote[peer[d]]}
    /\ st[d] = "open" => pasv[d] \in {NoPassive, widths[d]}

\* There is one attempt over a stream, so no second probe or response overtakes
\* the first.  A packet device has no connection.
StreamEnds(d) ==
    /\ st[d] = "free" => kind[d] = "packet"
    /\ kind[d] = "packet" => stream[d] = {} /\ pasv[d] = NoPassive
    /\ kind[d] = "stream" =>
          /\ tries[d] <= 1
          /\ "probe" \in stream[d] => "response" \notin stream[d]
          /\ ~stray[d] => Undisturbed(d)

StreamInv == \A d \in Devices : StreamEnds(d)

IInv == TypeOK /\ AttemptsExact /\ StreamInv

\* The invariant holds initially.
LEMMA InitIInv == Init => IInv
<1> SUFFICES ASSUME Init PROVE IInv
  OBVIOUS
<1> USE HandshakeAssumption
<1>1. TypeOK
  BY DEF Init, TypeOK, Widths
<1>2. AttemptsExact
  BY DEF Init, AttemptsExact
<1>3. StreamInv
  BY DEF Init, StreamInv, StreamEnds
<1> QED
  BY <1>1, <1>2, <1>3 DEF IInv

\* eb_device_open without a probe keeps the invariant.
LEMMA OpenUnprobedIInv ==
    ASSUME IInv, NEW e \in Devices, NEW r \in Remotes, NEW p \in Proposals, OpenUnprobed(e, r, p)
    PROVE  IInv'
<1> USE HandshakeAssumption DEF IInv, sockets
<1>0. WidthAnd(p, local) \in Widths
  BY WidthAndFacts DEF TypeOK
<1>1. TypeOK'
  BY <1>0 DEF TypeOK, AttemptsExact, OpenUnprobed, Listed
<1>2. AttemptsExact'
  BY <1>0 DEF TypeOK, AttemptsExact, OpenUnprobed, Listed
<1>3. StreamInv'
  <2> SUFFICES ASSUME NEW d \in Devices PROVE StreamEnds(d)'
    BY DEF StreamInv
  <2>1. CASE d # e
    BY <2>1 DEF TypeOK, StreamInv, StreamEnds, Undisturbed, OpenUnprobed, Listed
  <2>2. CASE d = e
    BY <1>0, <2>2 DEF TypeOK, StreamInv, StreamEnds, Undisturbed, OpenUnprobed, Listed
  <2> QED
    BY <2>1, <2>2
<1> QED
  BY <1>1, <1>2, <1>3

\* So does the first probe,
LEMMA OpenProbedIInv ==
    ASSUME IInv, NEW e \in Devices, NEW k \in {"packet", "stream"}, NEW r \in Remotes,
           NEW p \in Proposals, NEW n \in 1..MaxAttempts, OpenProbed(e, k, r, p, n)
    PROVE  IInv'
<1> USE HandshakeAssumption DEF IInv, sockets
<1>0. WidthAnd(p, local) \in Widths
  BY WidthAndFacts DEF TypeOK
<1>1. TypeOK'
  BY <1>0 DEF TypeOK, AttemptsExact, OpenProbed, Listed, SendProbe, Probe, Datagram, Widths
<1>2. AttemptsExact'
  BY <1>0 DEF TypeOK, AttemptsExact, OpenProbed, Listed, SendProbe, Probe, Datagram, Widths
<1>3. StreamInv'
  <2> SUFFICES ASSUME NEW d \in Devices PROVE StreamEnds(d)'
    BY DEF StreamInv
  <2>1. CASE d # e
    BY <2>1 DEF TypeOK, StreamInv, StreamEnds, Undisturbed, OpenProbed, Listed, SendProbe, Probe, Datagram, Widths
  <2>2. CASE d = e
    BY <1>0, <2>2 DEF TypeOK, StreamInv, StreamEnds, Undisturbed, OpenProbed, Listed, SendProbe, Probe, Datagram, Widths
  <2> QED
    BY <2>1, <2>2
<1> QED
  BY <1>1, <1>2, <1>3

\* the next attempt,
LEMMA RetryIInv ==
    ASSUME IInv, NEW e \in Devices, Retry(e)
    PROVE  IInv'
<1> USE HandshakeAssumption DEF IInv, sockets
<1>1. TypeOK'
  BY DEF TypeOK, AttemptsExact, Retry, SendProbe, Probe, Datagram
<1>2. AttemptsExact'
  BY DEF TypeOK, AttemptsExact, Retry, SendProbe, Probe, Datagram
<1>3. StreamInv'
  <2> SUFFICES ASSUME NEW d \in Devices PROVE StreamEnds(d)'
    BY DEF StreamInv
  <2>1. CASE d # e
    BY <2>1 DEF TypeOK, StreamInv, StreamEnds, Undisturbed, Retry, SendProbe, Probe, Datagram
  <2>2. CASE d = e
    BY <2>2 DEF TypeOK, StreamInv, StreamEnds, Undisturbed, Retry, SendProbe, Probe, Datagram
  <2> QED
    BY <2>1, <2>2
<1> QED
  BY <1>1, <1>2, <1>3

\* the end of a device,
LEMMA ClosedIInv ==
    ASSUME IInv, NEW e \in Devices, Closed(e)
    PROVE  IInv'
<1> USE HandshakeAssumption DEF IInv, sockets
<1>1. TypeOK'
  BY DEF TypeOK, AttemptsExact, Closed, Disconnected, Widths
<1>2. AttemptsExact'
  BY DEF TypeOK, AttemptsExact, Closed, Disconnected, Widths
<1>3. StreamInv'
  <2> SUFFICES ASSUME NEW d \in Devices PROVE StreamEnds(d)'
    BY DEF StreamInv
  <2>1. CASE d # e
    BY <2>1 DEF TypeOK, StreamInv, StreamEnds, Undisturbed, Closed, Disconnected, Widths
  <2>2. CASE d = e
    BY <2>2 DEF TypeOK, StreamInv, StreamEnds, Undisturbed, Closed, Disconnected, Widths
  <2> QED
    BY <2>1, <2>2
<1> QED
  BY <1>1, <1>2, <1>3

\* the return of eb_device_open with EB_OK: the refined widths are the remote's,
LEMMA OpenOkIInv ==
    ASSUME IInv, NEW e \in Devices, OpenOk(e)
    PROVE  IInv'
<1> USE HandshakeAssumption DEF IInv, sockets
<1>0. /\ peer[e] \in Remotes /\ remote[peer[e]] \in Widths
      /\ WidthAnd(widths[e], proposed[e]) \in Widths
      /\ WidthRefine(WidthAnd(widths[e], proposed[e])) \in Widths
      /\ WidthAnd(remote[peer[e]], proposed[e]) = WidthAnd(proposed[e], remote[peer[e]])
  <2>1. peer[e] \in Remotes
    BY DEF TypeOK, OpenOk
  <2>2. remote[peer[e]] \in Widths /\ widths[e] \in Widths /\ proposed[e] \in Widths
    BY <2>1 DEF TypeOK
  <2> QED
    BY <2>1, <2>2, WidthAndFacts, WidthRefineType
<1>1. TypeOK'
  BY <1>0 DEF TypeOK, AttemptsExact, OpenOk
<1>2. AttemptsExact'
  BY <1>0 DEF TypeOK, AttemptsExact, OpenOk
<1>3. StreamInv'
  <2> SUFFICES ASSUME NEW d \in Devices PROVE StreamEnds(d)'
    BY DEF StreamInv
  <2>1. CASE d # e
    BY <2>1 DEF TypeOK, StreamInv, StreamEnds, Undisturbed, OpenOk
  <2>2. CASE d = e
    BY <1>0, <2>2 DEF TypeOK, StreamInv, StreamEnds, Undisturbed, OpenOk
  <2> QED
    BY <2>1, <2>2
<1> QED
  BY <1>1, <1>2, <1>3

\* a probe that arrives in a datagram,
LEMMA ProbePacketIInv ==
    ASSUME IInv, NEW e \in Devices, NEW r \in Remotes, ProbePacket(e, r)
    PROVE  IInv'
<1> USE HandshakeAssumption DEF IInv, sockets
<1>1. TypeOK'
  BY DEF TypeOK, AttemptsExact, ProbePacket, Response, Datagram
<1>2. AttemptsExact'
  BY DEF TypeOK, AttemptsExact, ProbePacket, Response, Datagram
<1>3. StreamInv'
  <2> SUFFICES ASSUME NEW d \in Devices PROVE StreamEnds(d)'
    BY DEF StreamInv
  <2>1. CASE d # e
    BY <2>1 DEF TypeOK, StreamInv, StreamEnds, Undisturbed, ProbePacket, Response, Datagram
  <2>2. CASE d = e
    BY <2>2 DEF TypeOK, StreamInv, StreamEnds, Undisturbed, ProbePacket, Response, Datagram
  <2> QED
    BY <2>1, <2>2
<1> QED
  BY <1>1, <1>2, <1>3

\* the connection of a stream,
LEMMA AcceptIInv ==
    ASSUME IInv, NEW e \in Devices, Accept(e)
    PROVE  IInv'
<1> USE HandshakeAssumption DEF IInv, sockets
<1>1. TypeOK'
  BY DEF TypeOK, AttemptsExact, Accept, Widths
<1>2. AttemptsExact'
  BY DEF TypeOK, AttemptsExact, Accept, Widths
<1>3. StreamInv'
  <2> SUFFICES ASSUME NEW d \in Devices PROVE StreamEnds(d)'
    BY DEF StreamInv
  <2>1. CASE d # e
    BY <2>1 DEF TypeOK, StreamInv, StreamEnds, Undisturbed, Accept, Widths
  <2>2. CASE d = e
    BY <2>2 DEF TypeOK, StreamInv, StreamEnds, Undisturbed, Accept, Widths
  <2> QED
    BY <2>1, <2>2
<1> QED
  BY <1>1, <1>2, <1>3

\* a probe over a stream, which fixes the widths of the remote,
LEMMA ProbeStreamIInv ==
    ASSUME IInv, NEW e \in Devices, ProbeStream(e)
    PROVE  IInv'
<1> USE HandshakeAssumption DEF IInv, sockets
<1>0. WidthRefine(WidthAnd(proposed[e], remote[peer[e]])) \in Widths
  <2>1. peer[e] \in Remotes
    BY DEF TypeOK, ProbeStream, StreamInv, StreamEnds
  <2>2. remote[peer[e]] \in Widths /\ proposed[e] \in Widths
    BY <2>1 DEF TypeOK
  <2> QED
    BY <2>2, WidthAndFacts, WidthRefineType
<1>1. TypeOK'
  BY <1>0 DEF TypeOK, AttemptsExact, ProbeStream
<1>2. AttemptsExact'
  BY <1>0 DEF TypeOK, AttemptsExact, ProbeStream
<1>3. StreamInv'
  <2> SUFFICES ASSUME NEW d \in Devices PROVE StreamEnds(d)'
    BY DEF StreamInv
  <2>1. CASE d # e
    BY <2>1 DEF TypeOK, StreamInv, StreamEnds, Undisturbed, ProbeStream
  <2>2. CASE d = e
    BY <1>0, <2>2 DEF TypeOK, StreamInv, StreamEnds, Undisturbed, ProbeStream
  <2> QED
    BY <2>1, <2>2
<1> QED
  BY <1>1, <1>2, <1>3

\* the answer in a datagram, stray or not,
LEMMA ProbeResponseIInv ==
    ASSUME IInv, NEW e \in Devices, NEW r \in Remotes, ProbeResponse(e, r)
    PROVE  IInv'
<1> USE HandshakeAssumption DEF IInv, sockets
<1>0. remote[r] \in Widths
  BY DEF TypeOK
<1>1. TypeOK'
  BY <1>0 DEF TypeOK, AttemptsExact, ProbeResponse
<1>2. AttemptsExact'
  BY <1>0 DEF TypeOK, AttemptsExact, ProbeResponse
<1>3. StreamInv'
  <2> SUFFICES ASSUME NEW d \in Devices PROVE StreamEnds(d)'
    BY DEF StreamInv
  <2>1. CASE d # e
    BY <2>1 DEF TypeOK, StreamInv, StreamEnds, Undisturbed, ProbeResponse
  <2>2. CASE d = e
    BY <1>0, <2>2 DEF TypeOK, StreamInv, StreamEnds, Undisturbed, ProbeResponse
  <2> QED
    BY <2>1, <2>2
<1> QED
  BY <1>1, <1>2, <1>3

\* the answer over a stream,
LEMMA StreamResponseIInv ==
    ASSUME IInv, NEW e \in Devices, StreamResponse(e)
    PROVE  IInv'
<1> USE HandshakeAssumption DEF IInv, sockets
<1>0. peer[e] \in Remotes /\ remote[peer[e]] \in Widths
  <2>1. peer[e] \in Remotes
    BY DEF TypeOK, StreamResponse, StreamInv, StreamEnds
  <2> QED
    BY <2>1 DEF TypeOK
<1>1. TypeOK'
  BY <1>0 DEF TypeOK, AttemptsExact, StreamResponse
<1>2. AttemptsExact'
  BY <1>0 DEF TypeOK, AttemptsExact, StreamResponse
<1>3. StreamInv'
  <2> SUFFICES ASSUME NEW d \in Devices PROVE StreamEnds(d)'
    BY DEF StreamInv
  <2>1. CASE d # e
    BY <2>1 DEF TypeOK, StreamInv, StreamEnds, Undisturbed, StreamResponse
  <2>2. CASE d = e
    BY <1>0, <2>2 DEF TypeOK, StreamInv, StreamEnds, Undisturbed, StreamResponse
  <2> QED
    BY <2>1, <2>2
<1> QED
  BY <1>1, <1>2, <1>3

\* the answer that is misread,
LEMMA StreamMisreadIInv ==
    ASSUME IInv, NEW e \in Devices, StreamMisread(e)
    PROVE  IInv'
<1> USE HandshakeAssumption DEF IInv, sockets
<1>1. TypeOK'
  <2>1. CASE stream' = [stream EXCEPT ![e] = @ \ {"response"}] /\ UNCHANGED <<link, pasv>>
    BY <2>1 DEF TypeOK, StreamMisread
  <2>2. CASE Disconnected(e)
    BY <2>2 DEF TypeOK, StreamMisread, Disconnected
  <2> QED
    BY <2>1, <2>2 DEF StreamMisread
<1>2. AttemptsExact'
  BY DEF TypeOK, AttemptsExact, StreamMisread, Disconnected
<1>3. StreamInv'
  <2> SUFFICES ASSUME NEW d \in Devices PROVE StreamEnds(d)'
    BY DEF StreamInv
  <2>1. CASE d # e
    BY <2>1 DEF TypeOK, StreamInv, StreamEnds, Undisturbed, StreamMisread, Disconnected
  <2>2. CASE d = e
    BY <2>2 DEF TypeOK, StreamInv, StreamEnds, Undisturbed, StreamMisread, Disconnected
  <2> QED
    BY <2>1, <2>2
<1> QED
  BY <1>1, <1>2, <1>3

\* and a broken stream.
LEMMA LinkBreakIInv ==
    ASSUME IInv, NEW e \in Devices, LinkBreak(e)
    PROVE  IInv'
<1> USE HandshakeAssumption DEF IInv, sockets
<1>1. TypeOK'
  BY DEF TypeOK, AttemptsExact, LinkBreak, Disconnected
<1>2. AttemptsExact'
  BY DEF TypeOK, AttemptsExact, LinkBreak, Disconnected
<1>3. StreamInv'
  <2> SUFFICES ASSUME NEW d \in Devices PROVE StreamEnds(d)'
    BY DEF StreamInv
  <2>1. CASE d # e
    BY <2>1 DEF TypeOK, StreamInv, StreamEnds, Undisturbed, LinkBreak, Disconnected
  <2>2. CASE d = e
    BY <2>2 DEF TypeOK, StreamInv, StreamEnds, Undisturbed, LinkBreak, Disconnected
  <2> QED
    BY <2>1, <2>2
<1> QED
  BY <1>1, <1>2, <1>3

\* Every step keeps the invariant.
LEMMA NextIInv == IInv /\ [Next]_vars => IInv'
<1> SUFFICES ASSUME IInv, [Next]_vars PROVE IInv'
  OBVIOUS
<1>1. ASSUME NEW d \in Devices, NEW r \in Remotes, NEW p \in Proposals, OpenUnprobed(d, r, p)
      PROVE  IInv'
  BY <1>1, OpenUnprobedIInv
<1>2. ASSUME NEW d \in Devices, NEW k \in {"packet", "stream"}, NEW r \in Remotes,
             NEW p \in Proposals, NEW n \in 1..MaxAttempts, OpenProbed(d, k, r, p, n)
      PROVE  IInv'
  BY <1>2, OpenProbedIInv
<1>3. ASSUME NEW d \in Devices, Opening(d) PROVE IInv'
  <2>1. CASE Retry(d)
    BY <2>1, RetryIInv
  <2>2. CASE OpenFail(d) \/ OpenTimeout(d) \/ OpenWidth(d)
    BY <2>2, ClosedIInv DEF OpenFail, OpenTimeout, OpenWidth
  <2>3. CASE OpenOk(d)
    BY <2>3, OpenOkIInv
  <2> QED
    BY <1>3, <2>1, <2>2, <2>3 DEF Opening
<1>4. ASSUME NEW d \in Devices, DeviceClose(d) PROVE IInv'
  BY <1>4, ClosedIInv DEF DeviceClose
<1>5. ASSUME NEW d \in Devices, NEW r \in Remotes, ProbePacket(d, r) \/ ProbeResponse(d, r)
      PROVE  IInv'
  BY <1>5, ProbePacketIInv, ProbeResponseIInv
<1>6. ASSUME NEW d \in Devices, \/ Accept(d) \/ ProbeStream(d) \/ StreamResponse(d)
                                \/ StreamMisread(d) \/ LinkBreak(d)
      PROVE  IInv'
  BY <1>6, AcceptIInv, ProbeStreamIInv, StreamResponseIInv, StreamMisreadIInv, LinkBreakIInv
<1>7. CASE UNCHANGED vars
  BY <1>7 DEF vars, IInv, TypeOK, AttemptsExact, StreamInv, StreamEnds, Undisturbed
<1> QED
  BY <1>1, <1>2, <1>3, <1>4, <1>5, <1>6, <1>7 DEF Next

\* For any devices, remotes, masks and numbers of attempts: eb_device_open makes
\* exactly the attempts it was asked for, and when it returns EB_OK on a
\* stream, device.widths here and at the remote's passive device agree, unless
\* the answer to a probe of an earlier device of the same index came as a
\* datagram in between (stray).
THEOREM HandshakeCorrect == Spec => [](TypeOK /\ AttemptsExact /\ StreamAgreement)
<1>1. IInv => TypeOK /\ AttemptsExact /\ StreamAgreement
  BY DEF IInv, StreamInv, StreamEnds, Undisturbed, StreamAgreement
<1> QED
  BY <1>1, InitIInv, NextIInv, PTL DEF Spec

\* Every value has its type; in particular a refined width is a byte again.
THEOREM TypesHold == Spec => []TypeOK
BY HandshakeCorrect, PTL

\* "attempted every 3 seconds, 'attempts' times" (etherbone.h).
THEOREM AttemptsHold == Spec => []AttemptsExact
BY HandshakeCorrect, PTL

\* Both ends of a stream read its records with the same widths, unless a stray
\* datagram has reached this end.
THEOREM StreamAgreementHolds == Spec => []StreamAgreement
BY HandshakeCorrect, PTL

-----------------------------------------------------------------------------
(* eb_width_refine keeps the largest width: bits of nibbles. *)

\* The bits of a nibble.
LEMMA BitsOf ==
    ASSUME NEW n \in 0..15
    PROVE  /\ Bits(n) \subseteq 0..3
           /\ 0 \in Bits(n) <=> n % 2 = 1
           /\ 1 \in Bits(n) <=> (n \div 2) % 2 = 1
           /\ 2 \in Bits(n) <=> (n \div 4) % 2 = 1
           /\ 3 \in Bits(n) <=> (n \div 8) % 2 = 1
<1>1. 2^0 = 1 /\ 2^1 = 2 /\ 2^2 = 4 /\ 2^3 = 8
  OBVIOUS
<1>2. n \div 1 = n
  OBVIOUS
<1> QED
  BY <1>1, <1>2 DEF Bits

\* Nibble and Bits are inverse to each other.
LEMMA BitsNibble ==
    ASSUME NEW S \in SUBSET (0..3)
    PROVE  Nibble(S) \in 0..15 /\ Bits(Nibble(S)) = S
<1>1. Nibble(S) \in 0..15
  BY DEF Nibble
<1>2. /\ Nibble(S) % 2 = 1 <=> 0 \in S
      /\ (Nibble(S) \div 2) % 2 = 1 <=> 1 \in S
      /\ (Nibble(S) \div 4) % 2 = 1 <=> 2 \in S
      /\ (Nibble(S) \div 8) % 2 = 1 <=> 3 \in S
  BY DEF Nibble
<1>3. PICK n \in 0..15 : n = Nibble(S)
  BY <1>1
<1>4. \A b \in 0..3 : b \in Bits(n) <=> b \in S
  BY <1>2, <1>3, BitsOf
<1>5. Bits(n) \subseteq 0..3
  BY BitsOf
<1> QED
  BY <1>1, <1>3, <1>4, <1>5

\* The highest of a set of bits.
LEMMA LargestIs ==
    ASSUME NEW S \in SUBSET (0..3)
    PROVE  Largest(S) = IF 3 \in S THEN 8 ELSE IF 2 \in S THEN 4
                        ELSE IF 1 \in S THEN 2 ELSE IF 0 \in S THEN 1 ELSE 0
<1>1. 2^0 = 1 /\ 2^1 = 2 /\ 2^2 = 4 /\ 2^3 = 8
  OBVIOUS
<1>2. CASE S = {}
  BY <1>2 DEF Largest
<1>3. CASE S # {}
  <2>0. 0 \in S \/ 1 \in S \/ 2 \in S \/ 3 \in S
    <3>1. PICK x \in 0..3 : x \in S
      BY <1>3
    <3>2. x = 0 \/ x = 1 \/ x = 2 \/ x = 3
      OBVIOUS
    <3> QED
      BY <3>1, <3>2
  <2> DEFINE top == CHOOSE b \in S : \A x \in S : x <= b
  <2>1. \E b \in S : \A x \in S : x <= b
    <3>1. CASE 3 \in S
      BY <3>1
    <3>2. CASE 3 \notin S /\ 2 \in S
      BY <3>2
    <3>3. CASE 3 \notin S /\ 2 \notin S /\ 1 \in S
      BY <3>3
    <3>4. CASE 3 \notin S /\ 2 \notin S /\ 1 \notin S
      BY <2>0, <3>4
    <3> QED
      BY <3>1, <3>2, <3>3, <3>4
  <2>2. top \in S /\ \A x \in S : x <= top
    BY <2>1
  <2>3. Largest(S) = 2^top
    BY <1>3 DEF Largest
  <2> HIDE DEF top
  <2>4. top = IF 3 \in S THEN 3 ELSE IF 2 \in S THEN 2 ELSE IF 1 \in S THEN 1 ELSE 0
    BY <2>2
  <2> QED
    BY <1>1, <2>0, <2>3, <2>4
<1> QED
  BY <1>2, <1>3

\* Smearing the highest bit downwards, adding one and shifting back.
LEMMA KeepsLargest ==
    ASSUME NEW n \in 0..15
    PROVE  KeepLargest[n] = Largest(Bits(n))
<1>1. n \div 2 \in 0..15
  OBVIOUS
<1>2. PICK S \in SUBSET (0..3) : S = Bits(n) \cup Bits(n \div 2)
  BY <1>1, BitsOf
<1>3. PICK m \in 0..15 : m = Nibble(S) /\ Bits(m) = S /\ m = Or(n, n \div 2)
  BY <1>1, <1>2, BitsNibble DEF Or, OrTable
<1>4. m \div 4 \in 0..15
  OBVIOUS
<1>5. PICK T \in SUBSET (0..3) : T = Bits(m) \cup Bits(m \div 4)
  BY <1>4, BitsOf
<1>6. PICK k \in 0..15 : k = Nibble(T) /\ k = Or(m, m \div 4)
  BY <1>4, <1>5, BitsNibble DEF Or, OrTable
<1>7. KeepLargest[n] = (k + 1) \div 2
  BY <1>3, <1>6 DEF KeepLargest
<1>8. /\ 0 \in Bits(n \div 2) <=> 1 \in Bits(n)
      /\ 1 \in Bits(n \div 2) <=> 2 \in Bits(n)
      /\ 2 \in Bits(n \div 2) <=> 3 \in Bits(n)
      /\ 3 \notin Bits(n \div 2)
  <2>1. /\ (n \div 2) \div 2 = n \div 4 /\ (n \div 2) \div 4 = n \div 8
        /\ (n \div 2) \div 8 = 0
    OBVIOUS
  <2> QED
    BY <1>1, <2>1, BitsOf
<1>9. /\ 0 \in Bits(m \div 4) <=> 2 \in Bits(m)
      /\ 1 \in Bits(m \div 4) <=> 3 \in Bits(m)
      /\ 2 \notin Bits(m \div 4) /\ 3 \notin Bits(m \div 4)
  <2>1. /\ (m \div 4) \div 2 = m \div 8
        /\ (m \div 4) \div 4 = 0 /\ (m \div 4) \div 8 = 0
    OBVIOUS
  <2> QED
    BY <1>4, <2>1, BitsOf
<1>10. /\ 3 \in T <=> 3 \in Bits(n)
       /\ 2 \in T <=> 3 \in Bits(n) \/ 2 \in Bits(n)
       /\ 1 \in T <=> 3 \in Bits(n) \/ 2 \in Bits(n) \/ 1 \in Bits(n)
       /\ 0 \in T <=> 3 \in Bits(n) \/ 2 \in Bits(n) \/ 1 \in Bits(n) \/ 0 \in Bits(n)
  BY <1>2, <1>3, <1>5, <1>8, <1>9
<1>11. k = IF 3 \in Bits(n) THEN 15 ELSE IF 2 \in Bits(n) THEN 7
           ELSE IF 1 \in Bits(n) THEN 3 ELSE IF 0 \in Bits(n) THEN 1 ELSE 0
  BY <1>6, <1>10 DEF Nibble
<1>12. Bits(n) \in SUBSET (0..3)
  BY BitsOf
<1> QED
  BY <1>7, <1>11, <1>12, LargestIs

\* eb_width_refine of two masks is the reference.
LEMMA RefineLargest ==
    ASSUME NEW v \in Widths, NEW w \in Widths
    PROVE  WidthRefine(WidthAnd(v, w)) = LargestCommon(v, w)
<1>1. \A m, n \in 0..15 : /\ And(m, n) \in 0..15
                          /\ KeepLargest[And(m, n)] = Largest(Bits(m) \cap Bits(n))
  <2> TAKE m, n \in 0..15
  <2>1. PICK S \in SUBSET (0..3) : S = Bits(m) \cap Bits(n)
    BY BitsOf
  <2>2. And(m, n) = Nibble(S)
    BY <2>1 DEF And, AndTable
  <2>3. And(m, n) \in 0..15 /\ Bits(And(m, n)) = S
    BY <2>2, BitsNibble
  <2> QED
    BY <2>1, <2>3, KeepsLargest
<1>2. PICK a \in 0..15 : a = And(Addr(v), Addr(w))
  BY <1>1, Nibbles
<1>3. PICK d \in 0..15 : d = And(Data(v), Data(w))
  BY <1>1, Nibbles
<1>4. Addr(16 * a + d) = a /\ Data(16 * a + d) = d
  BY DEF Addr, Data
<1>5. WidthRefine(WidthAnd(v, w)) = 16 * KeepLargest[a] + KeepLargest[d]
  BY <1>2, <1>3, <1>4 DEF WidthRefine, WidthAnd
<1>6. /\ KeepLargest[a] = Largest(Bits(Addr(v)) \cap Bits(Addr(w)))
      /\ KeepLargest[d] = Largest(Bits(Data(v)) \cap Bits(Data(w)))
  BY <1>1, <1>2, <1>3, Nibbles
<1> QED
  BY <1>5, <1>6 DEF LargestCommon

-----------------------------------------------------------------------------
\* The remote whose widths device d has taken: the one it was opened to, or one
\* that was probed with the same index, for an earlier device.
Source(d, r) == r = peer[d] \/ (stray[d] /\ Probe(d, r) \in wire)

\* While a device is being opened its widths are those of such a remote, or none
\* yet; a remote answers only what was asked.
Answered ==
    /\ \A d \in Devices : st[d] = "opening" =>
          widths[d] = 0 \/ \E r \in Remotes : widths[d] = remote[r] /\ Source(d, r)
    /\ \A d \in Devices, r \in Remotes : Response(d, r) \in wire => Probe(d, r) \in wire

\* Steps that leave the widths and the sources of a device alone.
LEMMA AnsweredSame ==
    ASSUME TypeOK, Answered, UNCHANGED sockets,
           \A d \in Devices : \/ st'[d] # "opening"
                              \/ widths'[d] = 0
                              \/ /\ st'[d] = st[d] /\ widths'[d] = widths[d]
                                 /\ peer'[d] = peer[d] /\ stray'[d] = stray[d],
           wire \subseteq wire',
           \A d \in Devices, r \in Remotes :
              Response(d, r) \in wire' => Response(d, r) \in wire \/ Probe(d, r) \in wire'
    PROVE  Answered'
<1>1. ASSUME NEW d \in Devices, st'[d] = "opening", widths'[d] # 0
      PROVE  \E r \in Remotes : widths'[d] = remote'[r] /\ Source(d, r)'
  <2>1. /\ st[d] = "opening" /\ widths[d] # 0 /\ widths'[d] = widths[d]
        /\ peer'[d] = peer[d] /\ stray'[d] = stray[d]
    BY <1>1
  <2>2. PICK r \in Remotes : widths[d] = remote[r] /\ Source(d, r)
    BY <2>1 DEF Answered
  <2>3. Source(d, r)'
    BY <2>1, <2>2 DEF Source, Probe
  <2> QED
    BY <2>1, <2>2, <2>3 DEF sockets
<1>2. ASSUME NEW d \in Devices, NEW r \in Remotes, Response(d, r) \in wire'
      PROVE  Probe(d, r) \in wire'
  BY <1>2 DEF Answered
<1> QED
  BY <1>1, <1>2 DEF Answered, Response, Probe

\* The two kinds of datagrams are told apart.
LEMMA TypesDiffer ==
    ASSUME NEW d, NEW r, NEW e, NEW q
    PROVE  Probe(d, r) # Response(e, q)
<1>1. Probe(d, r).type = "probe" /\ Response(e, q).type = "response"
  BY DEF Probe, Response
<1> QED
  BY <1>1

\* An answer of remote q reaches device e.
LEMMA AnsweredBy ==
    ASSUME TypeOK, Answered, UNCHANGED <<sockets, wire, st, peer>>, NEW e \in Devices, NEW q \in Remotes,
           widths' = [widths EXCEPT ![e] = remote[q]],
           \A d \in Devices : d # e => stray'[d] = stray[d],
           q # peer[e] => stray'[e] /\ Probe(e, q) \in wire
    PROVE  Answered'
<1>1. ASSUME NEW d \in Devices, st'[d] = "opening", widths'[d] # 0
      PROVE  \E r \in Remotes : widths'[d] = remote'[r] /\ Source(d, r)'
  <2>1. CASE d = e
    <3>1. widths'[e] = remote'[q]
      BY DEF TypeOK, sockets
    <3>2. Source(e, q)'
      BY DEF Source, Probe
    <3> QED
      BY <2>1, <3>1, <3>2
  <2>2. CASE d # e
    <3>1. /\ st[d] = "opening" /\ widths[d] # 0 /\ widths'[d] = widths[d]
          /\ peer'[d] = peer[d] /\ stray'[d] = stray[d]
      BY <1>1, <2>2 DEF TypeOK
    <3>2. PICK r \in Remotes : widths[d] = remote[r] /\ Source(d, r)
      BY <3>1 DEF Answered
    <3>3. Source(d, r)'
      BY <3>1, <3>2 DEF Source, Probe
    <3> QED
      BY <3>1, <3>2, <3>3 DEF sockets
  <2> QED
    BY <2>1, <2>2
<1> QED
  BY <1>1 DEF Answered, Response, Probe

\* Every step keeps Answered.
LEMMA AnsweredStep ==
    ASSUME IInv, Answered, [Next]_vars
    PROVE  Answered'
<1>0. TypeOK
  BY DEF IInv
<1>1. ASSUME NEW e \in Devices, NEW r \in Remotes, NEW p \in Proposals, OpenUnprobed(e, r, p)
      PROVE  Answered'
  BY <1>0, <1>1, AnsweredSame DEF TypeOK, OpenUnprobed, Listed
<1>2. ASSUME NEW e \in Devices, NEW k \in {"packet", "stream"}, NEW q \in Remotes,
             NEW p \in Proposals, NEW n \in 1..MaxAttempts, OpenProbed(e, k, q, p, n)
      PROVE  Answered'
  <2>1. wire' = wire \/ wire' = wire \cup {Probe(e, q)}
    BY <1>2 DEF OpenProbed, SendProbe
  <2>2. \A d \in Devices, r \in Remotes : Response(d, r) \in wire' => Response(d, r) \in wire
    BY <2>1, TypesDiffer
  <2>3. UNCHANGED sockets /\ wire \subseteq wire'
    BY <1>2, <2>1 DEF OpenProbed, Listed
  <2>4. \A d \in Devices : \/ widths'[d] = 0
                           \/ /\ st'[d] = st[d] /\ widths'[d] = widths[d]
                              /\ peer'[d] = peer[d] /\ stray'[d] = stray[d]
    BY <1>0, <1>2 DEF TypeOK, OpenProbed, Listed
  <2> QED
    BY <1>0, <2>2, <2>3, <2>4, AnsweredSame
<1>3. ASSUME NEW e \in Devices, Closed(e) PROVE Answered'
  BY <1>0, <1>3, AnsweredSame DEF TypeOK, Closed
<1>4. ASSUME NEW e \in Devices, OpenOk(e) PROVE Answered'
  BY <1>0, <1>4, AnsweredSame DEF TypeOK, OpenOk
<1>5. ASSUME NEW e \in Devices, NEW q \in Remotes, ProbeResponse(e, q) PROVE Answered'
  <2>1. Probe(e, q) \in wire
    BY <1>5 DEF Answered, ProbeResponse
  <2>2. \A d \in Devices : d # e => stray'[d] = stray[d]
    BY <1>0, <1>5 DEF TypeOK, ProbeResponse
  <2>3. q # peer[e] => stray'[e]
    BY <1>0, <1>5 DEF TypeOK, ProbeResponse
  <2> QED
    BY <1>0, <1>5, <2>1, <2>2, <2>3, AnsweredBy DEF ProbeResponse
<1>6. ASSUME NEW e \in Devices, StreamResponse(e) PROVE Answered'
  <2>1. PICK q \in Remotes : q = peer[e]
    BY <1>0, <1>6 DEF TypeOK, StreamResponse, IInv, StreamInv, StreamEnds
  <2> QED
    BY <1>0, <1>6, <2>1, AnsweredBy DEF StreamResponse
<1>7. ASSUME NEW e \in Devices, Retry(e) PROVE Answered'
  <2>1. wire' = wire \/ wire' = wire \cup {Probe(e, peer[e])}
    BY <1>7 DEF Retry, SendProbe
  <2>2. \A d \in Devices, r \in Remotes : Response(d, r) \in wire' => Response(d, r) \in wire
    BY <2>1, TypesDiffer
  <2>3. wire \subseteq wire'
    BY <2>1
  <2> QED
    BY <1>0, <1>7, <2>2, <2>3, AnsweredSame DEF Retry
<1>8. ASSUME NEW e \in Devices, NEW q \in Remotes, ProbePacket(e, q) PROVE Answered'
  <2>1. ASSUME NEW d \in Devices, NEW r \in Remotes, Response(d, r) \in wire'
        PROVE  Response(d, r) \in wire \/ Probe(d, r) \in wire'
    <3>1. CASE Response(d, r) = Response(e, q)
      <4>1. d = e /\ r = q
        BY <3>1 DEF Response
      <4> QED
        BY <1>8, <4>1 DEF ProbePacket
    <3>2. CASE Response(d, r) # Response(e, q)
      BY <1>8, <2>1, <3>2 DEF ProbePacket
    <3> QED
      BY <3>1, <3>2
  <2>2. UNCHANGED <<sockets, st, widths, peer, stray>> /\ wire \subseteq wire'
    BY <1>8 DEF ProbePacket
  <2> QED
    BY <1>0, <2>1, <2>2, AnsweredSame
<1>9. ASSUME NEW e \in Devices, \/ Accept(e) \/ ProbeStream(e) \/ StreamMisread(e) \/ LinkBreak(e)
      PROVE  Answered'
  <2>1. UNCHANGED <<sockets, st, widths, peer, stray, wire>>
    BY <1>9 DEF Accept, ProbeStream, StreamMisread, LinkBreak
  <2> QED
    BY <1>0, <2>1, AnsweredSame
<1>10. CASE UNCHANGED vars
  BY <1>0, <1>10, AnsweredSame DEF vars, sockets
<1> QED
  BY <1>1, <1>2, <1>3, <1>4, <1>5, <1>6, <1>7, <1>8, <1>9, <1>10
     DEF Next, Opening, OpenFail, OpenTimeout, OpenWidth, DeviceClose

\* Only eb_device_open's success leads from "opening" to "open".
LEMMA OpensOk ==
    ASSUME TypeOK, Next, NEW d \in Devices, st[d] = "opening", st'[d] = "open"
    PROVE  OpenOk(d)
<1>1. ASSUME NEW e \in Devices, NEW r \in Remotes, NEW p \in Proposals, OpenUnprobed(e, r, p)
      PROVE  FALSE
  BY <1>1 DEF TypeOK, OpenUnprobed, Listed
<1>2. ASSUME NEW e \in Devices, NEW k \in {"packet", "stream"}, NEW r \in Remotes,
             NEW p \in Proposals, NEW n \in 1..MaxAttempts, OpenProbed(e, k, r, p, n)
      PROVE  FALSE
  BY <1>2 DEF TypeOK, OpenProbed, Listed
<1>3. ASSUME NEW e \in Devices, Closed(e) PROVE FALSE
  BY <1>3 DEF TypeOK, Closed
<1>4. ASSUME NEW e \in Devices, OpenOk(e) PROVE e = d
  BY <1>4 DEF TypeOK, OpenOk
<1>5. ASSUME NEW e \in Devices, NEW r \in Remotes, ProbePacket(e, r) \/ ProbeResponse(e, r)
      PROVE  FALSE
  BY <1>5 DEF ProbePacket, ProbeResponse
<1>6. ASSUME NEW e \in Devices, \/ Retry(e) \/ Accept(e) \/ ProbeStream(e)
                                \/ StreamResponse(e) \/ StreamMisread(e) \/ LinkBreak(e)
      PROVE  FALSE
  BY <1>6 DEF Retry, Accept, ProbeStream, StreamResponse, StreamMisread, LinkBreak
<1> QED
  BY <1>1, <1>2, <1>3, <1>4, <1>5, <1>6
     DEF Next, Opening, OpenFail, OpenTimeout, OpenWidth, DeviceClose

\* eb_device_open negotiates the largest common widths (widths.c:47,
\* device.c:160), for any masks of the sockets, any proposals, any number of
\* remotes and any losses, delays and repetitions: with the remote the device
\* was opened to or, when the answer to a probe of an earlier device of the
\* same index strays to it, with the remote that was asked then.
THEOREM NegotiatesHolds == Spec => NegotiatesLargest
<1> DEFINE A == \A d \in Devices : st[d] = "opening" /\ st'[d] = "open" =>
                   \E r \in Remotes :
                      /\ widths'[d] = LargestCommon(proposed[d], remote[r])
                      /\ r = peer[d] \/ (stray[d] /\ Probe(d, r) \in wire)
<1>1. Init => Answered
  BY DEF Init, Answered
<1>2. IInv /\ Answered /\ [Next]_vars => Answered'
  BY AnsweredStep
<1>3. IInv /\ Answered /\ [Next]_vars => [A]_vars
  <2> SUFFICES ASSUME IInv, Answered, Next, NEW d \in Devices,
                      st[d] = "opening", st'[d] = "open"
               PROVE  \E r \in Remotes :
                         /\ widths'[d] = LargestCommon(proposed[d], remote[r])
                         /\ r = peer[d] \/ (stray[d] /\ Probe(d, r) \in wire)
    OBVIOUS
  <2>1. TypeOK /\ OpenOk(d)
    BY OpensOk DEF IInv
  <2>2. PICK r \in Remotes : widths[d] = remote[r] /\ Source(d, r)
    BY <2>1 DEF OpenOk, Answered
  <2>3. widths'[d] = WidthRefine(WidthAnd(remote[r], proposed[d]))
    BY <2>1, <2>2 DEF OpenOk, TypeOK
  <2>4. remote[r] \in Widths /\ proposed[d] \in Widths
    BY <2>1, HandshakeAssumption DEF TypeOK
  <2>5. widths'[d] = LargestCommon(proposed[d], remote[r])
    BY <2>3, <2>4, WidthAndFacts, RefineLargest
  <2> QED
    BY <2>2, <2>5 DEF Source
<1> QED
  BY <1>1, <1>2, <1>3, InitIInv, NextIInv, PTL DEF Spec, NegotiatesLargest
=============================================================================

---------------------------- MODULE EBHandshake -----------------------------
(***************************************************************************)
(* Width negotiation between eb_device_open (api/glue/device.c) and the    *)
(* remote's eb_device_slave (api/format/slave.c): probe, probe response,   *)
(* retries every three seconds, time-outs and failing links.               *)
(*                                                                         *)
(* On a packet transport (UDP) messages are lost, repeated and delayed     *)
(* without limit: a datagram stays in "wire" and may be delivered again.   *)
(* The tag of a probe is the index of the device and nothing else about an *)
(* answer is looked at, so a late one reaches whatever device has the      *)
(* index by then: one that asked another remote, or a stream.  On a stream *)
(* each message is delivered at most once and the remote keeps a passive   *)
(* device per connection.                                                  *)
(***************************************************************************)
EXTENDS EBWidths, FiniteSets

CONSTANTS
    Devices,        \* indices eb_new_device can return
    Remotes,        \* sockets elsewhere that devices are opened to
    NoRemote,       \* the device is not allocated
    LocalWidths,    \* widths eb_socket_open may have been given, here
    RemoteWidths,   \* and at the remotes
    Proposals,      \* widths clients propose
    MaxAttempts,    \* most attempts clients ask for
    NoPassive       \* the remote has no device for this connection

ASSUME HandshakeAssumption ==
    /\ NoRemote \notin Remotes
    /\ LocalWidths \subseteq {w \in Widths : WidthPossible(w)}
    /\ RemoteWidths \subseteq {w \in Widths : WidthPossible(w)}
    /\ Proposals \subseteq Widths
    /\ MaxAttempts \in Nat \ {0}
    /\ NoPassive \notin Widths

VARIABLES
    local, remote,  \* socket.widths, here and of each remote
    st,             \* "free", "opening" (inside eb_device_open) or "open"
    kind,           \* of the device's transport: "packet" (mtu # 0) or "stream"
    peer,           \* the remote it was opened to
    link,           \* device.link # EB_NULL
    proposed,       \* proposed_widths, intersected with local
    widths,         \* device.widths
    tries,          \* attempts, counted down
    wire,           \* datagrams that can be delivered, with their tag
    stream,         \* a stream's messages on their way: "probe", "response"
    pasv,           \* widths of the passive device at the other end of a stream
    asked, probes,  \* (history) attempts asked for and probes sent
    stray           \* (history) since it was opened, the device has taken a
                    \* datagram's answer although it is a stream, or one that
                    \* another remote gave

sockets == <<local, remote>>
vars == <<local, remote, st, kind, peer, link, proposed, widths, tries, wire, stream, pasv,
          asked, probes, stray>>

Datagram == [type : {"probe", "response"}, tag : Devices, from : Remotes]
Probe(d, r) == [type |-> "probe", tag |-> d, from |-> r]
Response(d, r) == [type |-> "response", tag |-> d, from |-> r]

Init ==
    /\ local \in LocalWidths
    /\ remote \in [Remotes -> RemoteWidths]
    /\ st = [d \in Devices |-> "free"]
    /\ kind = [d \in Devices |-> "packet"]
    /\ peer = [d \in Devices |-> NoRemote]
    /\ link = [d \in Devices |-> FALSE]
    /\ proposed = [d \in Devices |-> 0]
    /\ widths = [d \in Devices |-> 0]
    /\ tries = [d \in Devices |-> 0]
    /\ wire = {}
    /\ stream = [d \in Devices |-> {}]
    /\ pasv = [d \in Devices |-> NoPassive]
    /\ asked = [d \in Devices |-> 0]
    /\ probes = [d \in Devices |-> 0]
    /\ stray = [d \in Devices |-> FALSE]

-----------------------------------------------------------------------------
(* eb_device_open                                                          *)

\* The device is allocated, connected and listed.
Listed(d, k, r, common, n) ==
    /\ st[d] = "free"
    /\ kind' = [kind EXCEPT ![d] = k]
    /\ peer' = [peer EXCEPT ![d] = r]
    /\ link' = [link EXCEPT ![d] = TRUE]
    /\ proposed' = [proposed EXCEPT ![d] = common]
    /\ asked' = [asked EXCEPT ![d] = n]
    /\ stray' = [stray EXCEPT ![d] = FALSE]
    /\ UNCHANGED <<sockets, pasv>>

\* A packet device whose client trusts its proposal: no probe is sent.  An
\* ambiguous proposal is refused (EB_WIDTH) and leaves nothing behind.
OpenUnprobed(d, r, p) ==
    LET common == WidthAnd(p, local) IN
    /\ Listed(d, "packet", r, common, 0)
    /\ WidthRefined(common)
    /\ st' = [st EXCEPT ![d] = "open"]
    /\ widths' = [widths EXCEPT ![d] = common]
    /\ probes' = [probes EXCEPT ![d] = 0]
    /\ UNCHANGED <<tries, wire, stream>>

\* A probe is sent, in a datagram or over the stream.
SendProbe(d, k, r) ==
    IF k = "packet"
    THEN wire' = wire \cup {Probe(d, r)} /\ UNCHANGED stream
    ELSE stream' = [stream EXCEPT ![d] = @ \cup {"probe"}] /\ UNCHANGED wire

\* "If the connection is streaming, we must do exactly one handshake".
OpenProbed(d, k, r, p, attempts) ==
    LET common == WidthAnd(p, local)
        n == IF k = "packet" THEN attempts ELSE 1
    IN
    /\ Listed(d, k, r, common, n)
    /\ WidthPossible(common)
    /\ st' = [st EXCEPT ![d] = "opening"]
    /\ widths' = [widths EXCEPT ![d] = 0]
    /\ tries' = [tries EXCEPT ![d] = n]
    /\ SendProbe(d, k, r)
    /\ probes' = [probes EXCEPT ![d] = 1]

\* (mutants of Retry) the attempts are not counted down;
\* one attempt too many.
RetryUncounted(d) ==
    /\ st[d] = "opening"
    /\ widths[d] = 0
    /\ link[d]
    /\ tries[d] > 1
    /\ SendProbe(d, kind[d], peer[d])
    /\ probes' = [probes EXCEPT ![d] = IF @ > MaxAttempts THEN @ ELSE @ + 1]
    /\ UNCHANGED <<sockets, st, kind, peer, link, proposed, widths, tries, pasv, asked, stray>>

RetryOnceMore(d) ==
    /\ st[d] = "opening"
    /\ widths[d] = 0
    /\ link[d]
    /\ tries[d] > 0
    /\ tries' = [tries EXCEPT ![d] = @ - 1]
    /\ SendProbe(d, kind[d], peer[d])
    /\ probes' = [probes EXCEPT ![d] = IF @ > MaxAttempts THEN @ ELSE @ + 1]
    /\ UNCHANGED <<sockets, st, kind, peer, link, proposed, widths, pasv, asked, stray>>

\* Three seconds passed without an answer and --attempts # 0.
Retry(d) ==
    /\ st[d] = "opening"
    /\ widths[d] = 0
    /\ link[d]
    /\ tries[d] > 1
    /\ tries' = [tries EXCEPT ![d] = @ - 1]
    /\ SendProbe(d, kind[d], peer[d])
    /\ probes' = [probes EXCEPT ![d] = IF @ > MaxAttempts THEN @ ELSE @ + 1]
    /\ UNCHANGED <<sockets, st, kind, peer, link, proposed, widths, pasv, asked, stray>>

\* The connection of a stream ends, at both ends, with what it carried.
Disconnected(d) ==
    /\ link' = [link EXCEPT ![d] = FALSE]
    /\ stream' = [stream EXCEPT ![d] = {}]
    /\ pasv' = [pasv EXCEPT ![d] = NoPassive]

\* eb_device_close: the device is freed and its link disconnected.  Datagrams
\* that are on their way stay on their way.  (Fields of a freed device are
\* given their initial values.)
Closed(d) ==
    /\ st' = [st EXCEPT ![d] = "free"]
    /\ kind' = [kind EXCEPT ![d] = "packet"]
    /\ peer' = [peer EXCEPT ![d] = NoRemote]
    /\ widths' = [widths EXCEPT ![d] = 0]
    /\ stray' = [stray EXCEPT ![d] = FALSE]
    /\ Disconnected(d)
    /\ UNCHANGED <<sockets, proposed, tries, wire, asked, probes>>

\* EB_FAIL: the link went down while waiting.
OpenFail(d) ==
    /\ st[d] = "opening"
    /\ ~link[d]
    /\ Closed(d)

\* EB_TIMEOUT: three seconds passed and --attempts = 0.
OpenTimeout(d) ==
    /\ st[d] = "opening"
    /\ link[d]
    /\ widths[d] = 0
    /\ tries[d] <= 1
    /\ Closed(d)

\* EB_WIDTH: the remote supports none of the proposed widths.
OpenWidth(d) ==
    /\ st[d] = "opening"
    /\ link[d]
    /\ widths[d] # 0
    /\ ~WidthPossible(WidthAnd(widths[d], proposed[d]))
    /\ Closed(d)

\* (mutant of OpenOk) the answer is not intersected with the proposal.
OpenOkUnmasked(d) ==
    /\ st[d] = "opening"
    /\ link[d]
    /\ widths[d] # 0
    /\ WidthPossible(WidthAnd(widths[d], proposed[d]))
    /\ widths' = [widths EXCEPT ![d] = WidthRefine(@)]
    /\ st' = [st EXCEPT ![d] = "open"]
    /\ UNCHANGED <<sockets, kind, peer, link, proposed, tries, wire, stream, pasv, asked, probes, stray>>

OpenOk(d) ==
    /\ st[d] = "opening"
    /\ link[d]
    /\ widths[d] # 0
    /\ WidthPossible(WidthAnd(widths[d], proposed[d]))
    /\ widths' = [widths EXCEPT ![d] = WidthRefine(WidthAnd(@, proposed[d]))]
    /\ st' = [st EXCEPT ![d] = "open"]
    /\ UNCHANGED <<sockets, kind, peer, link, proposed, tries, wire, stream, pasv, asked, probes, stray>>

DeviceClose(d) ==
    /\ st[d] = "open"
    /\ Closed(d)

-----------------------------------------------------------------------------
(* eb_device_slave at the remote and here                                  *)

\* A probe that arrives at the remote's transport: nothing is remembered.
ProbePacket(d, r) ==
    /\ Probe(d, r) \in wire
    /\ wire' = wire \cup {Response(d, r)}
    /\ UNCHANGED <<sockets, st, kind, peer, link, proposed, widths, tries, stream, pasv, asked,
                   probes, stray>>

\* eb_device_new_slave: the remote accepts a connection, whose first message
\* waits in it.
Accept(d) ==
    /\ link[d]
    /\ "probe" \in stream[d]
    /\ pasv[d] = NoPassive
    /\ pasv' = [pasv EXCEPT ![d] = 0]
    /\ UNCHANGED <<sockets, st, kind, peer, link, proposed, widths, tries, wire, stream, asked,
                   probes, stray>>

\* A probe that arrives at a passive device fixes the device's widths; when
\* none is possible the remote answers all the same and then hangs up.
ProbeStream(d) ==
    LET w == WidthRefine(WidthAnd(proposed[d], remote[peer[d]])) IN
    /\ pasv[d] = 0
    /\ "probe" \in stream[d]
    /\ stream' = [stream EXCEPT ![d] = (@ \ {"probe"}) \cup {"response"}]
    /\ pasv' = [pasv EXCEPT ![d] = IF WidthPossible(w) THEN w ELSE NoPassive]
    /\ UNCHANGED <<sockets, st, kind, peer, link, proposed, widths, tries, wire, asked, probes,
                   stray>>

\* A datagram with a probe response: whatever listed device has the tag takes
\* the widths in it.  Who sent it, what the device was opened to, whether it
\* is a stream and whether it has a link does not matter.
ProbeResponse(d, r) ==
    /\ Response(d, r) \in wire
    /\ st[d] # "free"
    /\ widths' = [widths EXCEPT ![d] = remote[r]]
    /\ stray' = [stray EXCEPT ![d] = @ \/ kind[d] = "stream" \/ r # peer[d]]
    /\ UNCHANGED <<sockets, st, kind, peer, link, proposed, tries, wire, stream, pasv, asked,
                   probes>>

\* The probe response over a stream, which comes while the device has no widths
\* (header = widths == 0).
StreamResponse(d) ==
    /\ "response" \in stream[d]
    /\ link[d]
    /\ widths[d] = 0
    /\ widths' = [widths EXCEPT ![d] = remote[peer[d]]]
    /\ stream' = [stream EXCEPT ![d] = @ \ {"response"}]
    /\ UNCHANGED <<sockets, st, kind, peer, link, proposed, tries, wire, pasv, asked, probes,
                   stray>>

\* ... and when a stray datagram has given it some: the response is taken for
\* a record, which may or may not make eb_device_slave give up the link.
StreamMisread(d) ==
    /\ "response" \in stream[d]
    /\ link[d]
    /\ widths[d] # 0
    /\ \/ stream' = [stream EXCEPT ![d] = @ \ {"response"}] /\ UNCHANGED <<link, pasv>>
       \/ Disconnected(d)
    /\ UNCHANGED <<sockets, st, kind, peer, proposed, widths, tries, wire, asked, probes, stray>>

\* A stream's connection is lost, or the remote could not accept it.
LinkBreak(d) ==
    /\ kind[d] = "stream"
    /\ link[d]
    /\ Disconnected(d)
    /\ UNCHANGED <<sockets, st, kind, peer, proposed, widths, tries, wire, asked, probes, stray>>

-----------------------------------------------------------------------------
\* How eb_device_open ends; the timer of the loop guarantees that it goes on.
Opening(d) == Retry(d) \/ OpenFail(d) \/ OpenTimeout(d) \/ OpenWidth(d) \/ OpenOk(d)

Next == \E d \in Devices :
    \/ \E r \in Remotes, p \in Proposals : OpenUnprobed(d, r, p)
    \/ \E k \in {"packet", "stream"}, r \in Remotes, p \in Proposals, n \in 1..MaxAttempts :
          OpenProbed(d, k, r, p, n)
    \/ Opening(d) \/ DeviceClose(d)
    \/ \E r \in Remotes : ProbePacket(d, r) \/ ProbeResponse(d, r)
    \/ Accept(d) \/ ProbeStream(d) \/ StreamResponse(d) \/ StreamMisread(d)
    \/ LinkBreak(d)

Fairness == \A d \in Devices : WF_vars(Opening(d))

Spec == Init /\ [][Next]_vars /\ Fairness

-----------------------------------------------------------------------------
\* Type correctness; in particular a refined width is a byte again.
TypeOK ==
    /\ local \in LocalWidths /\ remote \in [Remotes -> RemoteWidths]
    /\ st \in [Devices -> {"free", "opening", "open"}]
    /\ kind \in [Devices -> {"packet", "stream"}]
    /\ peer \in [Devices -> Remotes \cup {NoRemote}]
    /\ \A d \in Devices : st[d] # "free" => peer[d] \in Remotes
    /\ link \in [Devices -> BOOLEAN]
    /\ proposed \in [Devices -> Widths]
    /\ widths \in [Devices -> Widths]
    /\ tries \in [Devices -> 0..MaxAttempts]
    /\ wire \subseteq Datagram
    /\ stream \in [Devices -> SUBSET {"probe", "response"}]
    /\ pasv \in [Devices -> Widths \cup {NoPassive}]
    /\ asked \in [Devices -> 0..MaxAttempts]
    /\ probes \in [Devices -> 0..(MaxAttempts + 1)]
    /\ stray \in [Devices -> BOOLEAN]

\* The reference: of a set of widths, the largest ("From the remaining
\* widths, the largest address and data width is chosen", etherbone.h).
Largest(B) == IF B = {} THEN 0 ELSE 2^(CHOOSE b \in B : \A x \in B : x <= b)
LargestCommon(v, w) ==
    16 * Largest(Bits(Addr(v)) \cap Bits(Addr(w))) + Largest(Bits(Data(v)) \cap Bits(Data(w)))

\* A probed eb_device_open that returns EB_OK has negotiated the largest
\* widths that the proposal and the sockets allow, whichever of its probes
\* was answered, and whatever answers were lost, late or repeated.  The masks
\* are those of one remote that was probed with the device's index: of the one
\* the device was opened to, unless a stray answer came.
NegotiatesLargest ==
    [][\A d \in Devices : st[d] = "opening" /\ st'[d] = "open" =>
          \E r \in Remotes :
             /\ widths'[d] = LargestCommon(proposed[d], remote[r])
             /\ r = peer[d] \/ (stray[d] /\ Probe(d, r) \in wire)]_vars

\* Stream records carry no header: both ends must have derived the same
\* widths, from different data, or every later record is misread.  They have,
\* unless a datagram for an earlier device of this index strayed to the stream.
StreamAgreement ==
    \A d \in Devices :
        kind[d] = "stream" /\ st[d] = "open" /\ pasv[d] # NoPassive /\ ~stray[d]
           => pasv[d] = widths[d]

\* "assert (eb_width_refined(width) != 0)", commented out in eb_device_flush: the
\* widths with which an open device formats its records are one address and one
\* data width.
WidthsInUseRefined ==
    \A d \in Devices : st[d] = "open" /\ link[d] => WidthRefined(widths[d])

\* Exactly the attempts the client asked for are made before EB_TIMEOUT
\* ("attempted every 3 seconds, 'attempts' times"), and never more.
AttemptsExact ==
    /\ \A d \in Devices : st[d] = "opening" => probes[d] + tries[d] = asked[d] + 1
    /\ \A d \in Devices : probes[d] <= asked[d]

\* eb_device_open returns, however many probes and answers are lost.
OpenReturns == \A d \in Devices : st[d] = "opening" ~> st[d] # "opening"
=============================================================================

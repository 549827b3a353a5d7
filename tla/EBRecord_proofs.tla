--------------------------- MODULE EBRecord_proofs ---------------------------
(* Proofs about records: what eb_device_flush packs into them is what the  *)
(* slave executes, whole cycles per datagram and in order over a stream.   *)
EXTENDS EBRecord, Lists_proofs, FiniteSetTheorems

-----------------------------------------------------------------------------
(* Numbers *)

\* The least element of a set of naturals.
LEMMA LeastFacts ==
    ASSUME NEW S \in SUBSET Nat, S # {}
    PROVE  Least(S) \in S /\ \A x \in S : Least(S) <= x
<1>1. \E x \in S : \A y \in S : x <= y
  BY LeastNat
<1> QED
  BY <1>1 DEF Least

\* The greatest element of a bounded set of naturals.
LEMMA MostFacts ==
    ASSUME NEW n \in Nat, NEW S \in SUBSET (0 .. n), S # {}
    PROVE  Most(S) \in S /\ \A x \in S : x <= Most(S)
<1> DEFINE R == {x \in Nat : n - x \in S}
<1>1. R \in SUBSET Nat /\ R # {}
  <2>1. PICK x \in S : TRUE
    OBVIOUS
  <2>2. n - x \in Nat /\ n - (n - x) = x
    OBVIOUS
  <2> QED
    BY <2>1, <2>2
<1>2. PICK m \in R : \A k \in R : m <= k
  BY <1>1, LeastNat
<1>3. ASSUME NEW y \in S PROVE y <= n - m
  <2>1. n - y \in Nat /\ n - (n - y) = y
    OBVIOUS
  <2>2. n - y \in R
    BY <2>1
  <2> QED
    BY <1>2, <2>1, <2>2
<1>4. n - m \in S
  BY <1>2
<1> QED
  BY <1>3, <1>4 DEF Most

\* The recursion of Pow2 defines powers, and they are positive.
LEMMA PowerFacts ==
    /\ Pow2[0] = 1
    /\ \A i \in 1 .. 8 * ByteBits : Pow2[i] = 2 * Pow2[i - 1]
    /\ \A i \in 0 .. 8 * ByteBits : Pow2[i] \in Nat \ {0}
<1> DEFINE n == 8 * ByteBits
           V == Nat \ {0}
           h == [i \in 1 .. n |-> [v \in V |-> 2 * v]]
           B(f, i) == IF i = 0 THEN 1 ELSE 2 * f[i - 1]
           E(f) == f = [i \in 0 .. n |-> B(f, i)]
<1>1. n \in Nat /\ 1 \in V
  BY RecordAssumption
<1>2. h \in [1 .. n -> [V -> V]]
  OBVIOUS
<1> HIDE DEF n
<1>3. PICK f \in [0 .. n -> V] : f[0] = 1 /\ \A i \in 1 .. n : f[i] = h[i][f[i - 1]]
  <2> HIDE DEF h, V
  <2> QED
    BY <1>1, <1>2, RecursiveFcn
<1>4. \A i \in 1 .. n : f[i] = 2 * f[i - 1]
  <2>1. \A i \in 1 .. n : i - 1 \in 0 .. n
    BY <1>1
  <2>2. \A i \in 1 .. n : f[i - 1] \in V
    BY <2>1
  <2> QED
    BY <1>3, <2>2
<1>5. E(f)
  BY <1>1, <1>3, <1>4
<1>6. E(Pow2)
  <2> DEFINE k == CHOOSE g : E(g)
  <2>1. E(k)
    BY <1>5
  <2>2. Pow2 = k
    BY Zenon DEF Pow2, n
  <2> HIDE DEF k, E
  <2> QED
    BY <2>1, <2>2
<1>7. Pow2[0] = 1 /\ \A i \in 1 .. n : Pow2[i] = 2 * Pow2[i - 1]
  <2>1. 0 \in 0 .. n /\ \A i \in 1 .. n : i \in 0 .. n /\ i # 0
    BY <1>1
  <2>2. \A i \in 0 .. n : Pow2[i] = B(Pow2, i)
    <3> HIDE DEF B
    <3> QED
      BY <1>6, Zenon
  <2> QED
    BY <2>1, <2>2, Zenon
<1>8. \A i \in 0 .. n : Pow2[i] \in V
  <2> DEFINE Q == {i \in 0 .. n : Pow2[i] \in V}
  <2>1. 0 \in Q
    BY <1>1, <1>7
  <2>2. ASSUME NEW i \in 1 .. n, i - 1 \in Q PROVE i \in Q
    <3>1. PICK v \in V : v = Pow2[i - 1]
      BY <2>2
    <3>2. 2 * v \in V /\ i \in 0 .. n
      BY <1>1
    <3>3. Pow2[i] = 2 * v
      BY <1>7, <3>1
    <3> QED
      BY <3>2, <3>3
  <2> HIDE DEF Q
  <2>3. 0 .. n \subseteq Q
    BY <1>1, <2>1, <2>2, IntervalInd
  <2> QED
    BY <2>3 DEF Q
<1> QED
  BY <1>7, <1>8 DEF n

\* So are the numbers of values of bytes.
LEMMA ValuesFacts ==
    ASSUME NEW k \in 0 .. 8
    PROVE  Values(k) \in Nat \ {0} /\ k * ByteBits \in 0 .. 8 * ByteBits
<1>1. k * ByteBits \in 0 .. 8 * ByteBits
  BY RecordAssumption, k \in {0, 1, 2, 3, 4, 5, 6, 7, 8}
<1> QED
  BY <1>1, PowerFacts DEF Values

-----------------------------------------------------------------------------
(* Operations and the lanes they use *)

\* The width of the port.
LEMMA DataFacts == Data \in 1 .. 8 /\ Data \in {1, 2, 4, 8} /\ Data \in Nat
  BY RecordAssumption DEF Sizes

\* The size eb_device_flush settles on.
LEMMA SizeFacts ==
    ASSUME NEW op \in Operation
    PROVE  /\ OpSize(op) \in {0} \cup op.sizes /\ OpSize(op) <= Data
           /\ OpSize(op) \in {0} \cup Sizes /\ OpSize(op) \in 0 .. 8
<1> DEFINE S == {s \in {0} \cup op.sizes : s <= Data}
<1>1. op.sizes \subseteq Sizes /\ Data \in Sizes
  BY RecordAssumption DEF Operation
<1>2. S \in SUBSET (0 .. 8) /\ S # {}
  BY <1>1 DEF Sizes
<1> HIDE DEF S
<1>3. Most(S) \in S /\ \A x \in S : x <= Most(S)
  BY <1>2, MostFacts
<1>4. \E s \in {0} \cup op.sizes : s <= Data /\ \A t \in op.sizes : t <= Data => t <= s
  BY <1>3 DEF S
<1>5. OpSize(op) \in {0} \cup op.sizes /\ OpSize(op) <= Data
  BY <1>4 DEF OpSize
<1>6. {0} \cup op.sizes \subseteq {0} \cup Sizes /\ {0} \cup Sizes \subseteq 0 .. 8
  BY <1>1 DEF Sizes
<1> QED
  BY <1>5, <1>6

\* What the checks of eb_device_flush leave.
LEMMA SoundFacts ==
    ASSUME NEW op \in Operation, Objection(op) = "none"
    PROVE  /\ OpSize(op) \in Sizes /\ OpSize(op) <= Data
           /\ OpEndian(op) \in Endians
           /\ OpSize(op) = Data => OpEndian(op) = {}
           /\ OpSize(op) # Data => OpEndian(op) \in {{"B"}, {"L"}}
           /\ op.addr % OpSize(op) = 0
           /\ ~op.cfg => op.addr < AddrEnd
           /\ op.dir = "w" => op.val < Values(OpSize(op))
<1>1. PICK size \in 0 .. 8 : size = OpSize(op)
  BY SizeFacts
<1>2. PICK endian : endian = OpEndian(op)
  OBVIOUS
<1>3. size \in {0} \cup Sizes /\ size <= Data
  BY <1>1, SizeFacts
<1>4. endian \in Endians /\ (size = Data => endian = {})
  BY <1>1, <1>2 DEF OpEndian, Operation, Endians
<1>5. /\ size # 0
      /\ endian # {"B", "L"} /\ ~(size # Data /\ endian = {})
      /\ op.addr % size = 0 /\ ~(op.addr >= (IF op.cfg THEN CfgEnd ELSE AddrEnd))
      /\ ~(op.dir = "w" /\ op.val >= Values(size))
  BY <1>1, <1>2, Zenon DEF Objection
<1>6. endian \in {{}, {"B"}, {"L"}}
  BY <1>4, <1>5 DEF Endians
<1>7. op.addr \in Nat /\ op.val \in Nat /\ AddrEnd \in Nat
  BY RecordAssumption DEF Operation
<1>9. PICK v \in Nat : v = Values(size)
  BY ValuesFacts
<1>10. (~op.cfg => op.addr < AddrEnd) /\ (op.dir = "w" => op.val < v)
  <2>1. PICK a \in Nat, x \in Nat, e \in Nat : a = op.addr /\ x = op.val /\ e = AddrEnd
    BY <1>7
  <2>2. (~op.cfg => ~(a >= e)) /\ (op.dir = "w" => ~(x >= v))
    BY <1>5, <1>9, <2>1
  <2>3. \A m, n \in Nat : ~(m >= n) => m < n
    OBVIOUS
  <2> QED
    BY <2>1, <2>2, <2>3, Zenon
<1>11. size \in Sizes /\ (size # Data => endian \in {{"B"}, {"L"}})
  BY <1>3, <1>5, <1>6
<1> QED
  BY <1>1, <1>2, <1>3, <1>4, <1>5, <1>9, <1>10, <1>11

\* Lanes of a word that an aligned operand uses.
Placed(sh, sz) == sz \in Sizes /\ sh \in 0 .. 7 /\ sh + sz <= Data /\ sh % sz = 0
LaneSets == {l \in SUBSET (0 .. 7) : \E sh \in 0 .. 7, sz \in Sizes : Placed(sh, sz) /\ l = sh .. sh + sz - 1}

\* Such lanes pass the checks of the slave, which finds shift and width again.
LEMMA LaneFacts ==
    ASSUME NEW sh, NEW sz, Placed(sh, sz), NEW l, l = sh .. sh + sz - 1
    PROVE  l \in LaneSets /\ Shift(l) = sh /\ Width(l) = sz /\ SelOk(l)
<1>1. sh \in Nat /\ sz \in 1 .. 8 /\ Data \in 1 .. 8 /\ sz \in {1, 2, 4, 8} /\ sh \in 0 .. 7
  BY DataFacts DEF Placed, Sizes
<1>2. l \in SUBSET Nat /\ sh \in l /\ \A x \in l : sh <= x
  BY <1>1
<1>3. Shift(l) = sh
  <2>1. Least(l) \in l /\ \A x \in l : Least(l) <= x
    BY <1>2, LeastFacts
  <2> QED
    BY <1>2, <2>1 DEF Shift
<1>4. Width(l) = sz
  BY <1>1, FS_Interval DEF Width
<1>5. l \in SUBSET (0 .. 7)
  BY <1>1 DEF Placed
<1>6. SelOk(l)
  <2>1. l # {} /\ sz \in {1, 2, 4, 8} /\ sh % sz = 0 /\ sz <= Data /\ sh < Data
    <3>1. sh + sz <= Data /\ sh % sz = 0
      BY DEF Placed
    <3>2. PICK d \in 1 .. 8 : d = Data
      BY <1>1
    <3>3. sh + sz <= d
      BY <3>1, <3>2, Zenon
    <3>4. sz <= d /\ sh < d
      BY <1>1, <3>3
    <3> QED
      BY <1>1, <1>2, <3>1, <3>2, <3>4, Zenon
  <2> QED
    BY <1>3, <1>4, <2>1, Zenon DEF SelOk
<1> QED
  BY <1>1, <1>3, <1>4, <1>5, <1>6 DEF LaneSets, Sizes

\* All lane sets are of that kind.
LEMMA LaneSetFacts ==
    ASSUME NEW l \in LaneSets
    PROVE  /\ SelOk(l) /\ Placed(Shift(l), Width(l))
           /\ Shift(l) \in 0 .. 7 /\ Width(l) \in 1 .. 8 /\ Shift(l) + Width(l) <= Data
           /\ Values(Shift(l)) \in Nat \ {0} /\ Values(Width(l)) \in Nat \ {0}
<1>1. PICK sh \in 0 .. 7, sz \in Sizes : Placed(sh, sz) /\ l = sh .. sh + sz - 1
  BY DEF LaneSets
<1>2. Shift(l) = sh /\ Width(l) = sz /\ SelOk(l)
  BY <1>1, LaneFacts
<1>3. sz \in 1 .. 8 /\ sh \in 0 .. 8 /\ sz \in 0 .. 8
  BY DEF Sizes
<1> QED
  BY <1>1, <1>2, <1>3, ValuesFacts DEF Placed

\* An aligned address in its word.
Aligned(a, d, s) ==
    /\ a % d \in 0 .. d - 1 /\ (a % d) % s = 0 /\ (a % d) + s <= d /\ (d - ((a % d) + s)) % s = 0
    /\ s = d => a % d = 0

\* An operation of size s at an address the flush accepts (a multiple of s) lies in one
\* word of the bus.
LEMMA AlignedFacts ==
    ASSUME NEW a \in Nat, NEW d \in {1, 2, 4, 8}, NEW s \in {1, 2, 4, 8}, s <= d, a % s = 0
    PROVE  Aligned(a, d, s)
<1>1. CASE d = 1 /\ s = 1
  BY <1>1 DEF Aligned
<1>2. CASE d = 2 /\ s = 1
  BY <1>2 DEF Aligned
<1>3. CASE d = 2 /\ s = 2
  BY <1>3 DEF Aligned
<1>4. CASE d = 4 /\ s = 1
  BY <1>4 DEF Aligned
<1>5. CASE d = 4 /\ s = 2
  BY <1>5 DEF Aligned
<1>6. CASE d = 4 /\ s = 4
  BY <1>6 DEF Aligned
<1>7. CASE d = 8 /\ s = 1
  BY <1>7 DEF Aligned
<1>8. CASE d = 8 /\ s = 2
  BY <1>8 DEF Aligned
<1>9. CASE d = 8 /\ s = 4
  BY <1>9 DEF Aligned
<1>10. CASE d = 8 /\ s = 8
  BY <1>10 DEF Aligned
<1> QED
  BY <1>1, <1>2, <1>3, <1>4, <1>5, <1>6, <1>7, <1>8, <1>9, <1>10

\* An operation that was accepted is aligned in its word.
LEMMA OpPlaced ==
    ASSUME NEW op \in Operation, Objection(op) = "none", NEW f,
           f = [size |-> OpSize(op), endian |-> OpEndian(op)]
    PROVE  Placed(OpShift(f, LowAddr(op)), f.size)
<1>1. PICK sz \in {1, 2, 4, 8} : sz = f.size /\ sz <= Data /\ op.addr % sz = 0
  BY SoundFacts DEF Sizes
<1>2. f.endian \in {{}, {"B"}, {"L"}} /\ (f.endian = {} => sz = Data)
  BY <1>1, SoundFacts
<1>3. PICK a \in Nat : a = op.addr
  BY DEF Operation
<1>4. PICK d \in {1, 2, 4, 8} : d = Data /\ d \in 1 .. 8
  BY DataFacts
<1>5. Aligned(a, d, sz)
  <2>1. sz <= d /\ a % sz = 0
    BY <1>1, <1>3, <1>4, Zenon
  <2> QED
    BY <2>1, AlignedFacts
<1>6. PICK low \in 0 .. d - 1 : low = LowAddr(op) /\ low = a % d
  BY <1>3, <1>4, <1>5 DEF LowAddr, Aligned
<1>7. /\ low % sz = 0 /\ low + sz <= d /\ low \in 0 .. 7
      /\ (d - (low + sz)) % sz = 0 /\ d - (low + sz) + sz <= d /\ d - (low + sz) \in 0 .. 7
  <2>1. low % sz = 0 /\ low + sz <= d /\ (d - (low + sz)) % sz = 0
    BY <1>5, <1>6, Zenon DEF Aligned
  <2> QED
    BY <1>4, <2>1
<1>8. Placed(Data - (low + sz), sz) /\ Placed(low, sz)
  BY <1>4, <1>7 DEF Placed, Sizes
<1>9. OpShift(f, low) \in {low, Data - (low + sz)}
  BY <1>1 DEF OpShift
<1> QED
  BY <1>1, <1>6, <1>8, <1>9

-----------------------------------------------------------------------------
(* Recursion over sequences *)

\* What every step keeps holds at the end.
LEMMA TypedSteps ==
    ASSUME NEW n \in Nat, NEW V, NEW k, k[0] \in V,
           \A i \in 1 .. n : k[i - 1] \in V => k[i] \in V
    PROVE  \A i \in 0 .. n : k[i] \in V
<1> DEFINE Q == {i \in 0 .. n : k[i] \in V}
<1>1. 0 \in Q
  OBVIOUS
<1>2. \A i \in 1 .. n : i - 1 \in Q => i \in Q
  OBVIOUS
<1> HIDE DEF Q
<1>3. 0 .. n \subseteq Q
  BY <1>1, <1>2, IntervalInd
<1> QED
  BY <1>3 DEF Q

\* A list and one element more.
LEMMA Longer ==
    ASSUME NEW T, NEW s \in Seq(T), NEW e \in T
    PROVE  /\ Append(s, e) \in Seq(T) /\ Len(Append(s, e)) = Len(s) + 1 /\ Len(s) \in Nat
           /\ Append(s, e)[Len(s) + 1] = e
           /\ \A i \in 1 .. Len(s) : Append(s, e)[i] = s[i]
  OBVIOUS

\* u is s and e behind it; u is s and t behind it.
IsGrown(u, s, e, n) == u = Append(s, e) /\ Len(u) = n + 1 /\ u[n + 1] = e /\ \A i \in 1 .. n : u[i] = s[i]
IsChain(u, s, t, m, n) ==
    /\ u = s \o t /\ Len(u) = m + n
    /\ (\A i \in 1 .. m : u[i] = s[i]) /\ \A i \in 1 .. n : u[m + i] = t[i]

\* Append gives the one.
LEMMA Grown ==
    ASSUME NEW T, NEW s \in Seq(T), NEW e \in T
    PROVE  Append(s, e) \in Seq(T) /\ IsGrown(Append(s, e), s, e, Len(s))
  BY Longer DEF IsGrown

\* The operator \o gives the other.
LEMMA Chain ==
    ASSUME NEW T, NEW s \in Seq(T), NEW t \in Seq(T)
    PROVE  s \o t \in Seq(T) /\ IsChain(s \o t, s, t, Len(s), Len(t))
<1>1. s \o t \in Seq(T)
  OBVIOUS
<1>2. /\ Len(s \o t) = Len(s) + Len(t) /\ (\A i \in 1 .. Len(s) : (s \o t)[i] = s[i])
      /\ \A i \in 1 .. Len(t) : (s \o t)[Len(s) + i] = t[i]
  OBVIOUS
<1> QED
  BY <1>1, <1>2, Zenon DEF IsChain

\* The indices of a list.
LEMMA Indices ==
    ASSUME NEW T, NEW s \in Seq(T)
    PROVE  DOMAIN s = 1 .. Len(s) /\ Len(s) \in Nat
  OBVIOUS

\* The empty list has any type.
LEMMA Nothing ==
    ASSUME NEW T
    PROVE  <<>> \in Seq(T) /\ Len(<<>>) = 0
  OBVIOUS

\* FlattenSeq, list by list.
FlatSteps(g, s) ==
    /\ g[0] = <<>>
    /\ \A i \in 1 .. Len(s) : g[i] = g[i - 1] \o s[i]
    /\ FlattenSeq(s) = g[Len(s)]

\* The recursion of FlattenSeq defines a function.
LEMMA FlattenRec ==
    ASSUME NEW T, NEW s \in Seq(Seq(T))
    PROVE  \E g \in [0 .. Len(s) -> Seq(T)] : FlatSteps(g, s)
<1> DEFINE n == Len(s)
           V == Seq(T)
           z == <<>>
           h == [i \in 1 .. n |-> [v \in V |-> v \o s[i]]]
           B(k, i) == IF i = 1 THEN s[i] ELSE k[i - 1] \o s[i]
           E(k) == k = [i \in 1 .. n |-> B(k, i)]
<1>1. n \in Nat /\ z \in V /\ \A i \in 1 .. n : s[i] \in V
  OBVIOUS
<1>2. h \in [1 .. n -> [V -> V]]
  <2>1. \A i \in 1 .. n, v \in V : v \o s[i] \in V
    BY <1>1
  <2> HIDE DEF V
  <2> QED
    BY <2>1
<1>3. PICK f \in [0 .. n -> V] : f[0] = z /\ \A i \in 1 .. n : f[i] = h[i][f[i - 1]]
  <2>1. h \in [1 .. n -> [V -> V]] /\ n \in Nat /\ z \in V
    BY <1>1, <1>2, Zenon
  <2> HIDE DEF h, V, n, z
  <2>2. HasRun(V, z, n, h)
    BY <2>1, RunExists, Zenon
  <2> QED
    BY <2>2, Zenon DEF HasRun
<1>4. \A i \in 1 .. n : i - 1 \in 0 .. n /\ f[i - 1] \in V /\ f[i] = f[i - 1] \o s[i]
  <2>1. \A i \in 1 .. n : i - 1 \in 0 .. n
    BY <1>1
  <2>2. \A i \in 1 .. n : f[i - 1] \in V
    BY <2>1
  <2> HIDE DEF V
  <2> QED
    BY <1>3, <2>1, <2>2
<1>5. CASE n = 0
  <2>1. s = <<>> /\ FlattenSeq(s) = s
    BY <1>5 DEF FlattenSeq
  <2> QED
    BY <1>3, <1>4, <1>5, <2>1 DEF FlatSteps
<1>6. CASE n # 0
  <2> DEFINE g == [i \in 1 .. n |-> f[i]]
  <2>1. E(g)
    <3>1. \A i \in 1 .. n : f[i] = B(g, i)
      <4> SUFFICES ASSUME NEW i \in 1 .. n PROVE f[i] = B(g, i)
        OBVIOUS
      <4>1. CASE i = 1
        <5>1. f[1] = z \o s[1] /\ 1 \in 1 .. n
          BY <4>1, <1>3, <1>4, 1 - 1 = 0
        <5> QED
          BY <4>1, <5>1, <1>1
      <4>2. CASE i # 1
        <5>1. i - 1 \in 1 .. n
          BY <4>2, <1>1
        <5>2. g[i - 1] = f[i - 1]
          BY <5>1
        <5> QED
          BY <4>2, <5>2, <1>4
      <4> QED
        BY <4>1, <4>2
    <3> HIDE DEF B
    <3> QED
      BY <3>1
  <2> DEFINE k == CHOOSE x : E(x)
  <2>2. E(k)
    BY <2>1
  <2>3. FlattenSeq(s) = k[n]
    BY <1>6, Zenon DEF FlattenSeq
  <2> HIDE DEF k
  <2>4. \A i \in 1 .. n : k[i] = B(k, i)
    <3> HIDE DEF B
    <3> QED
      BY <2>2, Zenon
  <2>5. \A i \in 0 .. n : i \in 1 .. n => k[i] = f[i]
    <3> DEFINE Q == {i \in 0 .. n : i \in 1 .. n => k[i] = f[i]}
    <3>1. 0 \in Q
      BY <1>1
    <3>2. ASSUME NEW i \in 1 .. n, i - 1 \in Q PROVE i \in Q
      <4>1. CASE i = 1
        <5>1. f[1] = z \o s[1] /\ 1 \in 1 .. n /\ k[1] = s[1]
          BY <4>1, <1>3, <1>4, <2>4, 1 - 1 = 0, ZenonT(60)
        <5> QED
          BY <4>1, <5>1, <1>1
      <4>2. CASE i # 1
        <5>1. i - 1 \in 1 .. n /\ i \in 0 .. n
          BY <4>2, <1>1
        <5>2. k[i - 1] = f[i - 1]
          BY <5>1, <3>2
        <5>3. k[i] = f[i]
          BY <4>2, <5>2, <1>4, <2>4, Zenon
        <5> QED
          BY <5>1, <5>3
      <4> QED
        BY <4>1, <4>2
    <3> HIDE DEF Q
    <3>3. 0 .. n \subseteq Q
      BY <1>1, <3>1, <3>2, IntervalInd
    <3> QED
      BY <3>3 DEF Q
  <2>6. FlattenSeq(s) = f[n]
    BY <1>1, <1>6, <2>3, <2>5
  <2> QED
    BY <1>3, <1>4, <2>6, Zenon DEF FlatSteps
<1> QED
  BY <1>5, <1>6

\* No lists have no elements.
LEMMA FlattenEmpty == FlattenSeq(<<>>) = <<>>
  BY DEF FlattenSeq

\* The last list comes last.
LEMMA FlattenAppend ==
    ASSUME NEW T, NEW s \in Seq(Seq(T)), NEW e \in Seq(T)
    PROVE  /\ FlattenSeq(s) \in Seq(T) /\ FlattenSeq(Append(s, e)) \in Seq(T)
           /\ FlattenSeq(Append(s, e)) = FlattenSeq(s) \o e
<1> DEFINE n == Len(s)
<1>0. PICK t \in Seq(Seq(T)) : t = Append(s, e)
  <2> DEFINE W == Seq(T)
  <2>1. s \in Seq(W) /\ e \in W
    OBVIOUS
  <2> HIDE DEF W
  <2>2. Append(s, e) \in Seq(W)
    BY <2>1
  <2> QED
    BY <2>2 DEF W
<1>1. n \in Nat /\ Len(t) = n + 1 /\ t[n + 1] = e /\ \A i \in 1 .. n : t[i] = s[i]
  BY <1>0
<1>2. PICK g \in [0 .. n -> Seq(T)] : FlatSteps(g, s)
  BY FlattenRec
<1>3. PICK k \in [0 .. Len(t) -> Seq(T)] : FlatSteps(k, t)
  BY FlattenRec
<1>4. \A i \in 0 .. n : k[i] \in {g[i]}
  <2> DEFINE Q == {i \in 0 .. n : k[i] = g[i]}
  <2>1. 0 \in Q
    BY <1>1, <1>2, <1>3 DEF FlatSteps
  <2>2. ASSUME NEW i \in 1 .. n, i - 1 \in Q PROVE i \in Q
    <3>1. i \in 0 .. n /\ i \in 1 .. Len(t) /\ k[i - 1] = g[i - 1]
      BY <1>1, <2>2
    <3>2. k[i] = g[i]
      BY <1>1, <1>2, <1>3, <3>1, Zenon DEF FlatSteps
    <3> QED
      BY <3>1, <3>2
  <2> HIDE DEF Q
  <2>3. 0 .. n \subseteq Q
    BY <1>1, <2>1, <2>2, IntervalInd
  <2> QED
    BY <2>3 DEF Q
<1>5. n + 1 \in 1 .. Len(t) /\ (n + 1) - 1 = n /\ n \in 0 .. n /\ n + 1 \in 0 .. Len(t) /\ Len(t) = n + 1
  BY <1>1
<1>6. k[n + 1] = k[n] \o e /\ k[n] = g[n]
  BY <1>1, <1>3, <1>4, <1>5 DEF FlatSteps
<1>7. FlattenSeq(t) = k[n + 1] /\ FlattenSeq(s) = g[n]
  BY <1>1, <1>2, <1>3 DEF FlatSteps
<1>8. k[n + 1] \in Seq(T) /\ g[n] \in Seq(T)
  BY <1>2, <1>3, <1>5
<1> QED
  BY <1>0, <1>6, <1>7, <1>8

-----------------------------------------------------------------------------
(* Types of what travels *)

Requests ==
    [cyc : BOOLEAN, lanes : LaneSets, wcfg : BOOLEAN, fifo : BOOLEAN, waddr : Nat, writes : Seq(Nat),
     rcfg : BOOLEAN, bra : Nat, reads : Seq(Nat)]
Answers == [cyc : BOOLEAN, lanes : LaneSets \cup {{}}, addr : Nat, words : Seq(Nat)]
Transactions ==
    [dir : {"r", "w"}, big : Nat, little : Nat, width : Nat, val : Nat, fail : BOOLEAN]

\* A record has at least one word.
LEMMA RecordWordsFacts ==
    ASSUME NEW rec \in Requests
    PROVE  RecordWords(rec) \in Nat
<1>1. Len(rec.writes) \in Nat /\ Len(rec.reads) \in Nat
  BY DEF Requests
<1>2. HeaderWords \in Nat
  BY DEF HeaderWords
<1>3. PICK h \in Nat, a \in Nat, b \in Nat :
         /\ h = HeaderWords /\ a = (IF rec.writes = <<>> THEN 0 ELSE 1 + Len(rec.writes))
         /\ b = (IF rec.reads = <<>> THEN 0 ELSE 1 + Len(rec.reads))
  BY <1>1, <1>2
<1>4. h + a + b \in Nat
  OBVIOUS
<1> QED
  BY <1>3, <1>4, Zenon DEF RecordWords

\* The words of the first 0, 1, ... records.
WordsSteps(k, recs) ==
    /\ k[0] = 0
    /\ \A i \in 1 .. Len(recs) : k[i] = k[i - 1] + RecordWords(recs[i])
    /\ Words(recs) = k[Len(recs)]

\* The recursion of Words defines a function.
LEMMA WordsRec ==
    ASSUME NEW recs \in Seq(Requests)
    PROVE  \E k \in [0 .. Len(recs) -> Nat] : WordsSteps(k, recs)
<1> DEFINE n == Len(recs)
           V == Nat
           z == 0
           S(v, i) == v + RecordWords(recs[i])
           h == [i \in 1 .. n |-> [v \in V |-> S(v, i)]]
           B(k, i) == IF i = 0 THEN z ELSE S(k[i - 1], i)
           E(k) == k = [i \in 0 .. n |-> B(k, i)]
<1>1. n \in Nat /\ z \in V
  OBVIOUS
<1>2. \A i \in 1 .. n, v \in V : S(v, i) \in V
  <2> SUFFICES ASSUME NEW i \in 1 .. n, NEW v \in V PROVE v + RecordWords(recs[i]) \in Nat
    OBVIOUS
  <2>1. recs[i] \in Requests
    OBVIOUS
  <2>2. RecordWords(recs[i]) \in Nat
    BY <2>1, RecordWordsFacts
  <2> QED
    BY <2>2
<1> DEFINE k == CHOOSE g : E(g)
<1>3. Words(recs) = k[n]
  BY Zenon DEF Words
<1> HIDE DEF S, V, z, n
<1>4. h \in [1 .. n -> [V -> V]]
  BY <1>2
<1>5. PICK f \in [0 .. n -> V] : f[0] = z /\ \A i \in 1 .. n : f[i] = h[i][f[i - 1]]
  <2> HIDE DEF h
  <2>1. HasRun(V, z, n, h)
    BY <1>1, <1>4, RunExists, Zenon
  <2> QED
    BY <2>1, Zenon DEF HasRun
<1>6. \A i \in 1 .. n : i - 1 \in 0 .. n /\ i \in 0 .. n /\ i # 0
  BY <1>1
<1>7. E(f)
  <2>1. \A i \in 1 .. n : f[i] = S(f[i - 1], i)
    BY <1>5, <1>6
  <2>2. \A i \in 0 .. n : i = 0 \/ i \in 1 .. n
    BY <1>1
  <2>3. \A i \in 0 .. n : f[i] = B(f, i)
    BY <1>5, <1>6, <2>1, <2>2, Zenon
  <2> HIDE DEF B
  <2> QED
    BY <2>3
<1>8. E(k)
  BY <1>7
<1> HIDE DEF k
<1>9. k[0] = z /\ \A i \in 1 .. n : k[i] = S(k[i - 1], i)
  <2>1. \A i \in 0 .. n : k[i] = B(k, i)
    <3> HIDE DEF B
    <3> QED
      BY <1>8, Zenon
  <2>2. 0 \in 0 .. n
    BY <1>1
  <2> QED
    BY <1>6, <2>1, <2>2, Zenon
<1>10. \A i \in 0 .. n : k[i] \in V
  <2>1. \A i \in 1 .. n : k[i - 1] \in V => k[i] \in V
    BY <1>2, <1>9, Zenon
  <2>2. k[0] \in V
    BY <1>1, <1>9, Zenon
  <2> QED
    BY <1>1, <2>1, <2>2, TypedSteps
<1>11. k \in [0 .. n -> V]
  <2> HIDE DEF B
  <2>1. k = [i \in 0 .. n |-> k[i]]
    BY <1>8, Zenon
  <2> QED
    BY <1>10, <2>1, Zenon
<1> QED
  BY <1>3, <1>9, <1>11, Zenon DEF WordsSteps, n, V, z, S

\* Words adds up, record by record.
LEMMA WordsAppend ==
    ASSUME NEW recs \in Seq(Requests), NEW rec \in Requests
    PROVE  Words(Append(recs, rec)) = Words(recs) + RecordWords(rec) /\ Words(recs) \in Nat
<1> DEFINE n == Len(recs)
<1>0. PICK t \in Seq(Requests) : t = Append(recs, rec)
  BY Longer
<1>1. n \in Nat /\ Len(t) = n + 1 /\ t[n + 1] = rec /\ \A i \in 1 .. n : t[i] = recs[i]
  BY <1>0, Longer
<1>2. PICK g \in [0 .. n -> Nat] : WordsSteps(g, recs)
  BY WordsRec
<1>3. PICK k \in [0 .. Len(t) -> Nat] : WordsSteps(k, t)
  BY WordsRec
<1>4. \A i \in 0 .. n : k[i] = g[i]
  <2> DEFINE Q == {i \in 0 .. n : k[i] = g[i]}
  <2>1. 0 \in Q
    BY <1>1, <1>2, <1>3 DEF WordsSteps
  <2>2. ASSUME NEW i \in 1 .. n, i - 1 \in Q PROVE i \in Q
    <3>1. i \in 0 .. n /\ i \in 1 .. Len(t) /\ k[i - 1] = g[i - 1]
      BY <1>1, <2>2
    <3>2. k[i] = g[i]
      BY <1>1, <1>2, <1>3, <3>1, Zenon DEF WordsSteps
    <3> QED
      BY <3>1, <3>2
  <2> HIDE DEF Q
  <2>3. 0 .. n \subseteq Q
    BY <1>1, <2>1, <2>2, IntervalInd
  <2> QED
    BY <2>3 DEF Q
<1>5. n + 1 \in 1 .. Len(t) /\ (n + 1) - 1 = n /\ n \in 0 .. n
  BY <1>1
<1>6. k[n + 1] = k[n] + RecordWords(rec) /\ k[n] = g[n]
  BY <1>1, <1>3, <1>4, <1>5 DEF WordsSteps
<1>7. Words(t) = k[n + 1] /\ Words(recs) = g[n]
  BY <1>1, <1>2, <1>3 DEF WordsSteps
<1>8. g[n] \in Nat
  BY <1>2, <1>5
<1> QED
  BY <1>0, <1>6, <1>7, <1>8

\* An empty buffer has no words.
LEMMA WordsEmpty == Words(<<>>) = 0
<1>1. PICK s \in Seq(Requests) : s = <<>> /\ Len(s) = 0
  BY Nothing
<1>2. PICK g \in [0 .. Len(s) -> Nat] : WordsSteps(g, s)
  BY WordsRec
<1> QED
  BY <1>1, <1>2 DEF WordsSteps

-----------------------------------------------------------------------------
(* The shape of a record *)

\* Operations p to p + w - 1 are writes of one record, and the r from q on are
\* reads of one.
WriteRun(ops, p, fifo, w) ==
    /\ p + w - 1 <= Len(ops)
    /\ \A j \in 0 .. w - 1 :
         /\ ops[p + j].dir = "w" /\ ops[p + j].cfg = ops[p].cfg /\ ops[p + j].format = ops[p].format
         /\ ops[p + j].addr = ChainAddr(ops[p].addr, fifo, j)
ReadRun(ops, q, r) ==
    /\ q + r - 1 <= Len(ops)
    /\ \A j \in 0 .. r - 1 :
         /\ ops[q + j].dir = "r" /\ ops[q + j].cfg = ops[q].cfg /\ ops[q + j].format = ops[q].format
         /\ LowAddr(ops[q + j]) = LowAddr(ops[q])

\* As many writes as fit are writes that fit.
LEMMA WriteCountFacts ==
    ASSUME NEW c, NEW p \in Nat, NEW count, NEW fifo, cycles[c] \in Seq(Operation),
           p \in 1 .. Len(cycles[c]) + 1
    PROVE  /\ WriteCount(c, p, count, fifo) \in 0 .. MaxChain
           /\ WriteRun(cycles[c], p, fifo, WriteCount(c, p, count, fifo))
<1> DEFINE S == {n \in 0 .. MaxChain : Writes(c, p, count, fifo, n)}
<1>1. MaxChain \in Nat
  BY RecordAssumption
<1>2. Writes(c, p, count, fifo, 0)
  <2>1. Len(cycles[c]) \in Nat /\ 0 <= MaxChain /\ p + 0 - 1 <= Len(cycles[c]) /\ 0 .. 0 - 1 = {}
    BY <1>1
  <2> QED
    BY <2>1 DEF Writes
<1>3. 0 \in S /\ S \in SUBSET (0 .. MaxChain)
  BY <1>1, <1>2
<1>4. WriteCount(c, p, count, fifo) = Most(S)
  BY Zenon DEF WriteCount
<1> HIDE DEF S
<1>5. Most(S) \in S
  BY <1>1, <1>3, MostFacts
<1>6. PICK w \in 0 .. MaxChain : w = WriteCount(c, p, count, fifo) /\ Writes(c, p, count, fifo, w)
  BY <1>4, <1>5 DEF S
<1>7. WriteRun(cycles[c], p, fifo, w)
  BY <1>6, Zenon DEF Writes, WriteRun
<1> QED
  BY <1>6, <1>7

\* As many reads as fit are reads that fit.
LEMMA ReadCountFacts ==
    ASSUME NEW c, NEW p \in Nat, NEW count, cycles[c] \in Seq(Operation),
           p \in 1 .. Len(cycles[c]) + 1
    PROVE  /\ ReadCount(c, p, count) \in 0 .. MaxChain
           /\ ReadRun(cycles[c], p, ReadCount(c, p, count))
<1> DEFINE S == {n \in 0 .. MaxChain : Reads(c, p, count, n)}
<1>1. MaxChain \in Nat
  BY RecordAssumption
<1>2. Reads(c, p, count, 0)
  <2>1. Len(cycles[c]) \in Nat /\ 0 <= MaxChain /\ p + 0 - 1 <= Len(cycles[c]) /\ 0 .. 0 - 1 = {}
    BY <1>1
  <2> QED
    BY <2>1 DEF Reads
<1>3. 0 \in S /\ S \in SUBSET (0 .. MaxChain)
  BY <1>1, <1>2
<1>4. ReadCount(c, p, count) = Most(S)
  BY Zenon DEF ReadCount
<1> HIDE DEF S
<1>5. Most(S) \in S
  BY <1>1, <1>3, MostFacts
<1>6. PICK r \in 0 .. MaxChain : r = ReadCount(c, p, count) /\ Reads(c, p, count, r)
  BY <1>4, <1>5 DEF S
<1>7. ReadRun(cycles[c], p, r)
  BY <1>6, Zenon DEF Reads, ReadRun
<1> QED
  BY <1>6, <1>7

\* What Shape promises of the operations it takes from ops.
GoodShape(ops, p, s) ==
    /\ s.w \in Nat /\ s.r \in Nat /\ p + s.w + s.r <= Len(ops) + 1
    /\ s.fifo \in BOOLEAN /\ s.flags \in BOOLEAN /\ s.end \in BOOLEAN /\ s.ops \in Nat
    /\ WriteRun(ops, p, s.fifo, s.w) /\ ReadRun(ops, p + s.w, s.r)
    /\ s.w > 0 /\ s.r > 0 => /\ ops[p + s.w].format = ops[p].format
                             /\ LowAddr(ops[p + s.w]) = LowAddr(ops[p])
    /\ s.flags => s.r = 0 /\ (s.w = 0 \/ ops[p].format = WholeWord)
    /\ s.end => p + s.w + s.r = Len(ops) + 1
    /\ s.words = HeaderWords + (IF s.w > 0 THEN 1 + s.w ELSE 0)
                   + (IF s.flags THEN 2 ELSE IF s.r > 0 THEN 1 + s.r ELSE 0)

\* The loops of eb_device_flush that count writes and reads stay within the cycle, and
\* what they take has one shape. The array "buffer" has room for it.
LEMMA ShapeFacts ==
    ASSUME NEW c, NEW p \in Nat, NEW count \in Nat, cycles[c] \in Seq(Operation),
           p \in 1 .. Len(cycles[c]) + 1, checked[c] \in BOOLEAN
    PROVE  /\ GoodShape(cycles[c], p, Shape(c, p, count))
           /\ Shape(c, p, count).words <= WorstRecord
<1> DEFINE ops   == cycles[c]
           fifo  == Writes(c, p, count, TRUE, 2)
           w     == WriteCount(c, p, count, fifo)
           wops  == count + Counted(c, p, w)
           q     == p + w
           fits  == w = 0 \/ (q <= Len(ops) /\ ops[q].format = ops[p].format
                                            /\ LowAddr(ops[q]) = LowAddr(ops[p]))
           r     == IF fits THEN ReadCount(c, q, wops) ELSE 0
           total == wops + Counted(c, q, r)
           atEnd == q + r > Len(ops)
           flags == /\ r = 0
                    /\ w = 0 \/ ops[p].format = WholeWord
                    /\ Full(total, c) \/ (atEnd /\ checked[c] /\ total > 0)
           s == Shape(c, p, count)
<1>1. s = [w |-> w, r |-> r, fifo |-> fifo, flags |-> flags,
           ops |-> IF flags THEN 0 ELSE total,
           end |-> atEnd /\ (~checked[c] \/ total = 0 \/ flags),
           words |-> HeaderWords + (IF w > 0 THEN 1 + w ELSE 0)
                       + (IF flags THEN 2 ELSE IF r > 0 THEN 1 + r ELSE 0)]
  BY Zenon DEF Shape
<1>2. MaxChain \in Nat /\ MaxChain >= 1 /\ Len(ops) \in Nat
  BY RecordAssumption
<1>3. w \in Nat /\ w <= MaxChain /\ WriteRun(ops, p, fifo, w)
  <2> HIDE DEF fifo
  <2>1. w \in 0 .. MaxChain /\ WriteRun(ops, p, fifo, w)
    BY WriteCountFacts, Zenon
  <2> QED
    BY <1>2, <2>1
<1>4. fifo \in BOOLEAN
  BY DEF Writes
<1> HIDE DEF w, fifo
<1>5. q \in Nat /\ q \in 1 .. Len(ops) + 1
  BY <1>2, <1>3 DEF WriteRun
<1> HIDE DEF q
<1>6. r \in Nat /\ r <= MaxChain /\ ReadRun(ops, q, r)
  <2>1. CASE fits
    <3> HIDE DEF wops
    <3>1. ReadCount(c, q, wops) \in 0 .. MaxChain /\ ReadRun(ops, q, ReadCount(c, q, wops))
      BY <1>5, ReadCountFacts, Zenon
    <3>2. r = ReadCount(c, q, wops)
      BY <2>1, Zenon
    <3> QED
      BY <1>2, <3>1, <3>2
  <2>2. CASE ~fits
    <3>1. r = 0
      BY <2>2
    <3>2. q + 0 - 1 <= Len(ops) /\ 0 .. 0 - 1 = {}
      BY <1>2, <1>5
    <3> QED
      BY <1>2, <3>1, <3>2 DEF ReadRun
  <2> QED
    BY <2>1, <2>2
<1>7. w > 0 /\ r > 0 => ops[q].format = ops[p].format /\ LowAddr(ops[q]) = LowAddr(ops[p])
  BY <1>3
<1> HIDE DEF r
<1>8. wops \in Nat
  BY <1>3 DEF Counted
<1> HIDE DEF wops
<1>9. total \in Nat
  BY <1>6, <1>8 DEF Counted
<1> HIDE DEF total
<1>10. q + r <= Len(ops) + 1 /\ (atEnd => q + r = Len(ops) + 1)
  BY <1>2, <1>5, <1>6 DEF ReadRun
<1>11. flags => r = 0 /\ (w = 0 \/ ops[p].format = WholeWord)
  OBVIOUS
<1>12. flags \in BOOLEAN /\ atEnd \in BOOLEAN
  BY DEF Full
<1> HIDE DEF flags, atEnd
<1>13. /\ s.w = w /\ s.r = r /\ s.fifo = fifo /\ s.flags = flags
       /\ s.ops = (IF flags THEN 0 ELSE total)
       /\ s.end = (atEnd /\ (~checked[c] \/ total = 0 \/ flags))
       /\ s.words = HeaderWords + (IF w > 0 THEN 1 + w ELSE 0)
                       + (IF flags THEN 2 ELSE IF r > 0 THEN 1 + r ELSE 0)
  <2> HIDE DEF s
  <2> QED
    BY <1>1
<1> HIDE DEF s
<1>14. s.ops \in Nat /\ s.end \in BOOLEAN /\ (s.end => atEnd)
  BY <1>9, <1>12, <1>13
<1>15. p + s.w = q
  BY <1>13 DEF q
<1>16. s.words <= WorstRecord
  <2>1. HeaderWords \in Nat
    BY DEF HeaderWords
  <2>2. PICK x \in Nat : x = (IF w > 0 THEN 1 + w ELSE 0) /\ x <= 1 + MaxChain
    BY <1>2, <1>3
  <2>3. PICK y \in Nat : y = (IF flags THEN 2 ELSE IF r > 0 THEN 1 + r ELSE 0) /\ y <= 1 + MaxChain
    BY <1>2, <1>6
  <2> QED
    BY <1>2, <1>13, <2>1, <2>2, <2>3 DEF WorstRecord
<1>17. GoodShape(ops, p, s)
  BY <1>3, <1>4, <1>6, <1>7, <1>10, <1>11, <1>12, <1>13, <1>14, <1>15, Zenon DEF GoodShape, s
<1> QED
  BY <1>16, <1>17 DEF s

-----------------------------------------------------------------------------
(* An access denotes an operation *)

\* The access a with the select bits l is the operation op.
Denotes(a, l, op) ==
    /\ a.dir = op.dir /\ Width(l) = OpSize(op)
    /\ op.addr = IF OpEndian(op) = {"L"} THEN LittleAddr(a.addr, l) ELSE BigAddr(a.addr, l)
    /\ op.dir = "w" => Unpack(a.word, l) = op.val

\* The word an address is in.
LEMMA WordAddrFacts ==
    ASSUME NEW a \in Nat
    PROVE  /\ WordAddr(a) \in Nat
           /\ a < AddrEnd => WordAddr(a) = a - (a % Data)
<1>1. PICK e \in Nat \ {0}, d \in 1 .. 8 : e = AddrEnd /\ d = Data
  BY RecordAssumption, DataFacts
<1>2. PICK m \in Nat : m = a % e
  OBVIOUS
<1>3. d \in {1, 2, 3, 4, 5, 6, 7, 8}
  OBVIOUS
<1>4. m - (m % d) \in Nat
  BY <1>3
<1>5. a < e => m = a
  BY <1>2
<1> QED
  BY <1>1, <1>2, <1>4, <1>5 DEF WordAddr

\* The addresses of a chain of writes: those of the operations, in their words.
Chained(a, b, o) == b \in Nat /\ (o < AddrEnd => WordAddr(b) = o - (o % Data)) /\ o % Data = a % Data

\* The slave counts addresses from the word of the first write; the operations are
\* counted from its address. Both are in step.
LEMMA ChainFacts ==
    ASSUME NEW a \in Nat, NEW j \in Nat, NEW fifo \in BOOLEAN, a < AddrEnd
    PROVE  Chained(a, ChainAddr(WordAddr(a), fifo, j), ChainAddr(a, fifo, j))
<1>1. PICK d \in {1, 2, 4, 8} : d = Data
  BY DataFacts
<1>2. PICK b \in Nat : b = a - (a % d)
  BY <1>1
<1>3. WordAddr(a) = b
  BY <1>1, <1>2, WordAddrFacts
<1>4. PICK k \in Nat : /\ k = IF fifo THEN 0 ELSE j * d
                       /\ k % d = 0
  BY <1>1
<1>5. /\ ChainAddr(b, fifo, j) = b + k /\ ChainAddr(a, fifo, j) = a + k
  BY <1>1, <1>4 DEF ChainAddr
<1>6. /\ b + k \in Nat /\ a + k \in Nat /\ b + k <= a + k
      /\ (a + k) % d = a % d /\ (b + k) % d = 0 /\ b + k = (a + k) - ((a + k) % d)
  BY <1>2, <1>4
<1>7. ASSUME a + k < AddrEnd PROVE WordAddr(b + k) = (a + k) - ((a + k) % Data)
  <2>1. PICK e \in Nat : e = AddrEnd
    BY RecordAssumption
  <2>2. PICK x \in Nat, y \in Nat : x = b + k /\ y = a + k
    BY <1>6
  <2>3. x < e
    BY <2>1, <2>2, <1>6, <1>7
  <2>4. WordAddr(x) = x - (x % d)
    BY <1>1, <2>1, <2>3, WordAddrFacts
  <2> QED
    BY <1>1, <1>6, <2>2, <2>4
<1>8. (a + k) % Data = a % Data
  BY <1>1, <1>6, Zenon
<1>9. Chained(a, b + k, a + k)
  <2>1. PICK x \in Nat, y \in Nat : x = b + k /\ y = a + k
    BY <1>6
  <2>2. y < AddrEnd => WordAddr(x) = y - (y % Data)
    BY <1>7, <2>1, Zenon
  <2>3. Chained(a, x, y)
    BY <1>8, <2>1, <2>2, Zenon DEF Chained
  <2> QED
    BY <2>1, <2>3, Zenon
<1> QED
  BY <1>3, <1>5, <1>9, Zenon

\* The select bits give an accepted operation its address back.
LEMMA LaneAddr ==
    ASSUME NEW op \in Operation, Objection(op) = "none",
           NEW l, NEW sh, sh = OpShift([size |-> OpSize(op), endian |-> OpEndian(op)], LowAddr(op)),
           l = sh .. sh + OpSize(op) - 1,
           NEW b, WordAddr(b) = op.addr - (op.addr % Data)
    PROVE  /\ l \in LaneSets /\ Shift(l) = sh /\ Width(l) = OpSize(op)
           /\ op.addr = IF OpEndian(op) = {"L"} THEN LittleAddr(b, l) ELSE BigAddr(b, l)
<1>1. PICK sz \in {1, 2, 4, 8} : sz = OpSize(op) /\ sz <= Data /\ op.addr % sz = 0
  BY SoundFacts DEF Sizes
<1>2. PICK f : f = [size |-> OpSize(op), endian |-> OpEndian(op)] /\ f.size = sz /\ f.endian = OpEndian(op)
  BY <1>1
<1>3. Placed(sh, sz)
  BY <1>2, OpPlaced
<1>4. l \in LaneSets /\ Shift(l) = sh /\ Width(l) = sz
  BY <1>1, <1>3, LaneFacts
<1>5. PICK a \in Nat, d \in {1, 2, 4, 8} : a = op.addr /\ d = Data /\ sz <= d /\ a % sz = 0
  BY <1>1, DataFacts DEF Operation
<1>6. Aligned(a, d, sz)
  BY <1>5, AlignedFacts
<1>7. PICK low \in 0 .. d - 1 : low = LowAddr(op) /\ low = a % d
  BY <1>5, <1>6 DEF LowAddr, Aligned
<1>8. WordAddr(b) = a - low
  BY <1>5, <1>7
<1>9. CASE OpEndian(op) = {"L"}
  <2>1. {"L"} # {"B"}
    OBVIOUS
  <2>2. sh = low
    BY <1>2, <1>7, <1>9, <2>1, Zenon DEF OpShift
  <2>3. LittleAddr(b, l) = a - low + low
    BY <1>4, <1>8, <2>2 DEF LittleAddr
  <2> QED
    BY <1>1, <1>4, <1>5, <1>9, <2>3
<1>10. CASE OpEndian(op) = {"B"}
  <2>0. {"L"} # {"B"}
    OBVIOUS
  <2>1. sh = d - (low + sz)
    BY <1>2, <1>5, <1>7, <1>10 DEF OpShift
  <2>2. BigAddr(b, l) = a - low + d - (sh + sz)
    BY <1>4, <1>5, <1>8 DEF BigAddr
  <2>3. BigAddr(b, l) = a
    BY <2>1, <2>2
  <2> QED
    BY <1>1, <1>4, <1>5, <1>10, <2>0, <2>3
<1>11. CASE OpEndian(op) = {}
  <2>0. {} # {"B"} /\ {} # {"L"} /\ sz = d
    BY <1>1, <1>5, <1>11, SoundFacts
  <2>1. sh = low
    BY <1>2, <1>7, <1>11, <2>0, Zenon DEF OpShift
  <2>2. BigAddr(b, l) = a - low + d - (sh + sz)
    BY <1>4, <1>5, <1>8 DEF BigAddr
  <2>3. BigAddr(b, l) = a /\ low = 0
    BY <1>6, <1>7, <2>0, <2>1, <2>2 DEF Aligned
  <2> QED
    BY <1>1, <1>4, <1>5, <1>11, <2>0, <2>3
<1>12. OpEndian(op) \in {{}, {"B"}, {"L"}}
  BY SoundFacts
<1> QED
  BY <1>9, <1>10, <1>11, <1>12

LanesOf(op, l, sh, b) ==
    /\ sh = OpShift([size |-> OpSize(op), endian |-> OpEndian(op)], LowAddr(op))
    /\ l = sh .. sh + OpSize(op) - 1 /\ WordAddr(b) = op.addr - (op.addr % Data)
Located(op, l, sh, b) ==
    /\ l \in LaneSets /\ Shift(l) = sh /\ Width(l) = OpSize(op)
    /\ op.addr = IF OpEndian(op) = {"L"} THEN LittleAddr(b, l) ELSE BigAddr(b, l)

\* LaneAddr, in short.
LEMMA LanesLocate ==
    ASSUME NEW op \in Operation, Objection(op) = "none", NEW l, NEW sh, NEW b, LanesOf(op, l, sh, b)
    PROVE  Located(op, l, sh, b)
  BY LaneAddr DEF LanesOf, Located

\* A value that fits comes out of the word as it went in.
LEMMA LaneData ==
    ASSUME NEW l \in LaneSets, NEW v \in Nat, v < Values(Width(l))
    PROVE  Unpack(v * Values(Shift(l)), l) = v
<1>1. PICK s \in Nat \ {0}, w \in Nat \ {0} : s = Values(Shift(l)) /\ w = Values(Width(l))
  BY LaneSetFacts
<1>2. (v * s) \div s = v
  OBVIOUS
<1>3. v % w = v
  BY <1>1
<1> QED
  BY <1>1, <1>2, <1>3 DEF Unpack

-----------------------------------------------------------------------------
(* Operations without what is stored in them later *)

\* The operation without format, error flag and value read: what stays the same
\* while the cycle is formatted and answered.
Bare(op) ==
    [op EXCEPT !.format = [size |-> 0, endian |-> {}], !.val = IF op.dir = "w" THEN @ ELSE 0,
               !.err = FALSE]
Bares(ops) == [i \in DOMAIN ops |-> Bare(ops[i])]

\* Size, endianness and the checks do not depend on the rest.
SameFor(op, o) ==
    /\ o \in Operation /\ o.dir = op.dir /\ o.cfg = op.cfg /\ o.addr = op.addr
    /\ OpSize(o) = OpSize(op) /\ OpEndian(o) = OpEndian(op)
    /\ op.dir = "w" => o.val = op.val

\* The size and endianness that the flush chooses depend on what the caller asked only.
LEMMA SameSize ==
    ASSUME NEW op, NEW o, o.sizes = op.sizes, o.endian = op.endian
    PROVE  OpSize(o) = OpSize(op) /\ OpEndian(o) = OpEndian(op)
<1> DEFINE C(z) == CHOOSE s \in {0} \cup z : s <= Data /\ \A t \in z : t <= Data => t <= s
<1>1. OpSize(o) = C(o.sizes) /\ OpSize(op) = C(op.sizes)
  BY Zenon DEF OpSize
<1> HIDE DEF C
<1>2. OpSize(o) = OpSize(op)
  BY <1>1, Zenon
<1> QED
  BY <1>2, Zenon DEF OpEndian

\* The operation without what is stored in it later is checked and sized as before.
LEMMA BareFacts ==
    ASSUME NEW op \in Operation
    PROVE  SameFor(op, Bare(op))
<1>1. /\ Bare(op) \in Operation /\ Bare(op).dir = op.dir /\ Bare(op).cfg = op.cfg
      /\ Bare(op).addr = op.addr /\ Bare(op).sizes = op.sizes /\ Bare(op).endian = op.endian
      /\ op.dir = "w" => Bare(op).val = op.val
  BY DEF Bare, Operation, Endians
<1> QED
  BY <1>1, SameSize, Zenon DEF SameFor

\* Nor does what is asked of the bus.
LEMMA SameMeaning ==
    ASSUME NEW op, NEW o, SameFor(op, o)
    PROVE  /\ \A a, l : Denotes(a, l, op) <=> Denotes(a, l, o)
           /\ \A t : Performs(t, op) <=> Performs(t, o)
           /\ Objection(o) = Objection(op)
<1>1. /\ o.dir = op.dir /\ o.cfg = op.cfg /\ o.addr = op.addr
      /\ OpSize(o) = OpSize(op) /\ OpEndian(o) = OpEndian(op)
      /\ op.dir = "w" => o.val = op.val
  BY DEF SameFor
<1>2. \A a, l : Denotes(a, l, op) <=> Denotes(a, l, o)
  BY <1>1, Zenon DEF Denotes
<1>3. \A t : Performs(t, op) <=> Performs(t, o)
  BY <1>1, Zenon DEF Performs
<1>4. Objection(o) = Objection(op)
  <2> DEFINE x(z) == z.dir = "w" /\ z.val >= Values(OpSize(z))
  <2>1. x(o) <=> x(op)
    BY <1>1, Zenon
  <2>2. \A z : Objection(z) = (LET size == OpSize(z)  endian == OpEndian(z) IN
                IF size = 0 THEN "WIDTH"
                ELSE IF endian = {"B", "L"} \/ (size # Data /\ endian = {}) THEN "ENDIAN"
                ELSE IF z.addr % size # 0 \/ z.addr >= (IF z.cfg THEN CfgEnd ELSE AddrEnd) THEN "ADDRESS"
                ELSE IF x(z) THEN "WIDTH" ELSE "none")
    BY Zenon DEF Objection
  <2> HIDE DEF x
  <2> QED
    BY <1>1, <2>1, <2>2, Zenon
<1> QED
  BY <1>2, <1>3, <1>4

\* Lists of operations.
LEMMA BaresFacts ==
    ASSUME NEW s \in Seq(Operation)
    PROVE  /\ Bares(s) \in Seq(Operation) /\ Len(Bares(s)) = Len(s)
           /\ \A i \in 1 .. Len(s) : Bares(s)[i] = Bare(s[i]) /\ SameFor(s[i], Bares(s)[i])
<1>1. \A i \in 1 .. Len(s) : s[i] \in Operation
  OBVIOUS
<1>2. \A i \in 1 .. Len(s) : Bare(s[i]) \in Operation /\ SameFor(s[i], Bare(s[i]))
  BY <1>1, BareFacts DEF SameFor
<1>3. DOMAIN s = 1 .. Len(s) /\ Len(s) \in Nat
  OBVIOUS
<1>4. Bares(s) = [i \in 1 .. Len(s) |-> Bare(s[i])]
  BY <1>3, Zenon DEF Bares
<1> QED
  BY <1>2, <1>3, <1>4

BusSet == {op \in Operation : IsBus(op)}

\* OnBus in terms of one set for all lists.
LEMMA OnBusIs ==
    ASSUME NEW s \in Seq(Operation)
    PROVE  OnBus(s) = Filter(s, BusSet) /\ OnBus(s) \in Seq(Operation)
<1> DEFINE S == {op \in Range(s) : IsBus(op)}
<1>1. Range(s) \subseteq Operation
  BY DEF Range
<1>2. Range(s) \cap S = Range(s) \cap BusSet
  BY <1>1 DEF BusSet
<1>3. OnBus(s) = Filter(s, S)
  BY Zenon DEF OnBus
<1> HIDE DEF S
<1>4. Filter(s, S) = Filter(s, BusSet) /\ Filter(s, S) \in Seq(Operation)
  BY <1>2, FilterSame, FilterType
<1> QED
  BY <1>3, <1>4

\* No operation, none on the bus.
LEMMA OnBusEmpty == OnBus(<<>>) = <<>>
<1>1. <<>> \in Seq(Operation)
  BY Nothing
<1> QED
  BY <1>1, OnBusIs, FilterEmpty

\* One more operation is one more on the bus, unless it is for the configuration space.
LEMMA OnBusAppend ==
    ASSUME NEW s \in Seq(Operation), NEW e \in Operation
    PROVE  OnBus(Append(s, e)) = IF e.cfg THEN OnBus(s) ELSE Append(OnBus(s), e)
<1>1. OnBus(Append(s, e)) = Filter(Append(s, e), BusSet) /\ OnBus(s) = Filter(s, BusSet)
  BY Longer, OnBusIs
<1>2. e \in BusSet <=> ~e.cfg
  BY DEF BusSet, IsBus
<1>3. Filter(Append(s, e), BusSet) = IF e \in BusSet THEN Append(Filter(s, BusSet), e) ELSE Filter(s, BusSet)
  BY FilterAppend
<1> QED
  BY <1>1, <1>2, <1>3, Zenon

\* The operations on the bus of two lists, one after the other.
LEMMA OnBusConcat ==
    ASSUME NEW s \in Seq(Operation), NEW t \in Seq(Operation)
    PROVE  OnBus(s \o t) = OnBus(s) \o OnBus(t)
<1>1. s \o t \in Seq(Operation)
  OBVIOUS
<1>2. Filter(s \o t, BusSet) = Filter(s, BusSet) \o Filter(t, BusSet)
  BY FilterConcat
<1> QED
  BY <1>1, <1>2, OnBusIs

\* A longer list, without what is stored later.
LEMMA BaresAppend ==
    ASSUME NEW s \in Seq(Operation), NEW e \in Operation
    PROVE  Bares(Append(s, e)) = Append(Bares(s), Bare(e))
<1> DEFINE t == Append(s, e)
           u == Append(Bares(s), Bare(e))
<1>1. Bare(e) \in Operation /\ Bares(s) \in Seq(Operation) /\ Len(Bares(s)) = Len(s)
  BY BareFacts, BaresFacts DEF SameFor
<1>2. /\ t \in Seq(Operation) /\ Len(t) = Len(s) + 1 /\ Len(s) \in Nat /\ t[Len(s) + 1] = e
      /\ \A i \in 1 .. Len(s) : t[i] = s[i]
  BY Longer
<1>3. /\ u \in Seq(Operation) /\ Len(u) = Len(s) + 1 /\ u[Len(s) + 1] = Bare(e)
      /\ \A i \in 1 .. Len(s) : u[i] = Bares(s)[i]
  BY <1>1, Longer
<1> HIDE DEF t, u
<1>4. /\ Bares(t) \in Seq(Operation) /\ Len(Bares(t)) = Len(t)
      /\ \A i \in 1 .. Len(t) : Bares(t)[i] = Bare(t[i])
  BY <1>2, BaresFacts
<1>5. \A i \in 1 .. Len(s) : Bares(s)[i] = Bare(s[i])
  BY BaresFacts
<1>6. \A i \in 1 .. Len(t) : Bares(t)[i] = u[i]
  <2> SUFFICES ASSUME NEW i \in 1 .. Len(t) PROVE Bares(t)[i] = u[i]
    OBVIOUS
  <2>1. i \in 1 .. Len(s) \/ i = Len(s) + 1
    BY <1>2
  <2> QED
    BY <1>2, <1>3, <1>4, <1>5, <2>1, Zenon
<1>7. Bares(t) = u
  BY <1>2, <1>3, <1>4, <1>6, SeqEqual
<1> QED
  BY <1>7 DEF t, u

\* The bus operations of a list, without what is stored later.
LEMMA OnBusBares ==
    ASSUME NEW s \in Seq(Operation)
    PROVE  OnBus(Bares(s)) = Bares(OnBus(s))
<1> DEFINE Q == {x \in Seq(Operation) : OnBus(Bares(x)) = Bares(OnBus(x))}
<1>1. <<>> \in Q
  <2>1. Bares(<<>>) = <<>>
    BY DEF Bares
  <2>2. <<>> \in Seq(Operation)
    BY Nothing
  <2> QED
    BY <2>1, <2>2, OnBusEmpty
<1>2. ASSUME NEW x \in Seq(Operation), NEW e \in Operation, x \in Q PROVE Append(x, e) \in Q
  <2>1. /\ Bare(e) \in Operation /\ Bare(e).cfg = e.cfg /\ Bares(x) \in Seq(Operation)
        /\ OnBus(x) \in Seq(Operation) /\ Append(x, e) \in Seq(Operation)
    BY BareFacts, BaresFacts, OnBusIs, Longer DEF SameFor
  <2>2. OnBus(Bares(x)) = Bares(OnBus(x))
    BY <1>2
  <2>3. OnBus(Bares(Append(x, e))) = IF e.cfg THEN OnBus(Bares(x)) ELSE Append(OnBus(Bares(x)), Bare(e))
    <3>1. Bares(Append(x, e)) = Append(Bares(x), Bare(e))
      BY BaresAppend
    <3>2. OnBus(Append(Bares(x), Bare(e))) = IF Bare(e).cfg THEN OnBus(Bares(x)) ELSE Append(OnBus(Bares(x)), Bare(e))
      BY <2>1, OnBusAppend
    <3> QED
      BY <2>1, <3>1, <3>2, Zenon
  <2>4. OnBus(Append(x, e)) = IF e.cfg THEN OnBus(x) ELSE Append(OnBus(x), e)
    BY OnBusAppend
  <2>5. Bares(Append(OnBus(x), e)) = Append(Bares(OnBus(x)), Bare(e))
    BY <2>1, BaresAppend
  <2>6. OnBus(Bares(Append(x, e))) = Bares(OnBus(Append(x, e)))
    BY <2>2, <2>3, <2>4, <2>5, Zenon
  <2> QED
    BY <2>1, <2>6
<1> HIDE DEF Q
<1>3. Seq(Operation) \subseteq Q
  BY <1>1, <1>2, SeqInd
<1> QED
  BY <1>3 DEF Q

-----------------------------------------------------------------------------
(* A record stands for operations *)

\* Every operation was looked at by Examine, and is accepted.
Ready(ops) ==
    \A i \in 1 .. Len(ops) :
        /\ Objection(ops[i]) = "none"
        /\ ops[i].format = [size |-> OpSize(ops[i]), endian |-> OpEndian(ops[i])]

\* Shift and size of the record of shape s from p on.
SizeOf(ops, p, s) == IF s.w = 0 /\ s.r = 0 THEN Data ELSE ops[p].format.size
ShiftOf(ops, p, s) == IF s.w = 0 /\ s.r = 0 THEN 0 ELSE OpShift(ops[p].format, LowAddr(ops[p]))

\* They are those of lanes.
LEMMA ShiftFacts ==
    ASSUME NEW ops \in Seq(Operation), Ready(ops), NEW p \in 1 .. Len(ops) + 1,
           NEW s, GoodShape(ops, p, s)
    PROVE  /\ Placed(ShiftOf(ops, p, s), SizeOf(ops, p, s))
           /\ (s.w > 0 \/ s.r > 0) => p \in 1 .. Len(ops)
<1>1. CASE s.w = 0 /\ s.r = 0
  <2>1. Placed(0, Data)
    BY DataFacts DEF Placed, Sizes
  <2> QED
    BY <1>1, <2>1 DEF ShiftOf, SizeOf
<1>2. CASE ~(s.w = 0 /\ s.r = 0)
  <2>1. p \in 1 .. Len(ops)
    BY <1>2 DEF GoodShape
  <2>2. PICK op \in Operation : op = ops[p]
    BY <2>1
  <2>3. Objection(op) = "none" /\ op.format = [size |-> OpSize(op), endian |-> OpEndian(op)]
    BY <2>1, <2>2 DEF Ready
  <2>4. Placed(OpShift(op.format, LowAddr(op)), op.format.size)
    BY <2>3, OpPlaced
  <2> QED
    BY <1>2, <2>1, <2>2, <2>4, Zenon DEF ShiftOf, SizeOf
<1> QED
  BY <1>1, <1>2

\* What is in the record.
IsRecord(rec, ops, p, s) ==
    /\ rec \in Requests /\ RecordWords(rec) = s.words
    /\ rec.cyc = s.end /\ rec.fifo = s.fifo
    /\ rec.lanes = ShiftOf(ops, p, s) .. ShiftOf(ops, p, s) + SizeOf(ops, p, s) - 1
    /\ Len(rec.writes) = s.w
    /\ \A j \in 1 .. s.w : rec.writes[j] = ops[p + j - 1].val * Values(ShiftOf(ops, p, s))
    /\ s.w > 0 => rec.wcfg = ops[p].cfg /\ rec.waddr = ops[p].addr
    /\ s.flags => rec.rcfg /\ Len(rec.reads) = 1
    /\ ~s.flags => /\ Len(rec.reads) = s.r
                   /\ s.r > 0 => rec.rcfg = ops[p + s.w].cfg
                   /\ \A j \in 1 .. s.r : rec.reads[j] = ops[p + s.w + j - 1].addr

\* The fields of an operation in a list.
LEMMA OpAt ==
    ASSUME NEW ops \in Seq(Operation), NEW i \in 1 .. Len(ops)
    PROVE  /\ ops[i] \in Operation /\ ops[i].val \in Nat /\ ops[i].addr \in Nat
           /\ ops[i].cfg \in BOOLEAN /\ ops[i].dir \in {"r", "w"}
<1>1. ops[i] \in Operation
  OBVIOUS
<1> QED
  BY <1>1 DEF Operation

\* The record that eb_device_flush writes is that of the operations from p on, as Shape
\* counted them.
LEMMA RecordFacts ==
    ASSUME NEW c, NEW ops \in Seq(Operation), ops = cycles[c], Ready(ops), NEW p \in 1 .. Len(ops) + 1,
           NEW s, GoodShape(ops, p, s), rba \in Nat
    PROVE  IsRecord(Record(c, p, s), ops, p, s)
<1>1. PICK n \in Nat : n = Len(ops) /\ p \in 1 .. n + 1
  OBVIOUS
<1>2. PICK sh \in 0 .. 7, sz \in Sizes : sh = ShiftOf(ops, p, s) /\ sz = SizeOf(ops, p, s) /\ Placed(sh, sz)
  BY <1>1, ShiftFacts DEF Placed
<1>3. PICK v \in Nat : v = Values(sh)
  <2>1. sh \in 0 .. 8
    OBVIOUS
  <2> QED
    BY <2>1, ValuesFacts
<1>4. PICK w \in Nat, r \in Nat : w = s.w /\ r = s.r /\ p + w + r <= n + 1
  BY <1>1 DEF GoodShape
<1>5. PICK wr \in Seq(Nat) :
         wr = [j \in 1 .. w |-> ops[p + j - 1].val * Values(sh)] /\ Len(wr) = w
         /\ \A j \in 1 .. w : wr[j] = ops[p + j - 1].val * Values(sh)
  <2>1. \A j \in 1 .. w : ops[p + j - 1].val * v \in Nat
    <3> TAKE j \in 1 .. w
    <3>1. p + j - 1 \in 1 .. n
      BY <1>1, <1>4, SMTT(60)
    <3>2. PICK x \in Nat : x = ops[p + j - 1].val
      BY <1>1, <3>1, OpAt
    <3>3. x * v \in Nat
      OBVIOUS
    <3> QED
      BY <3>2, <3>3
  <2> DEFINE f == [j \in 1 .. w |-> ops[p + j - 1].val * v]
  <2>2. f \in Seq(Nat) /\ Len(f) = w /\ \A j \in 1 .. w : f[j] = ops[p + j - 1].val * v
    BY <2>1
  <2> QED
    BY <1>3, <2>2, Zenon
<1>6. PICK rd \in Seq(Nat) :
         /\ rd = IF s.flags THEN <<8 - Data>> ELSE [j \in 1 .. r |-> ops[p + w + j - 1].addr]
         /\ Len(rd) = IF s.flags THEN 1 ELSE r
         /\ ~s.flags => \A j \in 1 .. r : rd[j] = ops[p + w + j - 1].addr
  <2>1. CASE s.flags
    <3>1. 8 - Data \in Nat
      BY DataFacts
    <3>2. <<8 - Data>> \in Seq(Nat) /\ Len(<<8 - Data>>) = 1
      BY <3>1
    <3> QED
      BY <2>1, <3>2
  <2>2. CASE ~s.flags
    <3>1. \A j \in 1 .. r : ops[p + w + j - 1].addr \in Nat
      <4> TAKE j \in 1 .. r
      <4>1. p \in Nat /\ j \in Nat /\ p >= 1 /\ j <= r /\ j >= 1
        OBVIOUS
      <4>2. \A a, b, x, y, z \in Nat :
               a + b + y <= z + 1 /\ a >= 1 /\ x >= 1 /\ x <= y => a + b + x - 1 \in 1 .. z
        OBVIOUS
      <4>3. p + w + j - 1 \in 1 .. n
        BY <1>4, <4>1, <4>2, Zenon
      <4> QED
        BY <1>1, <4>3, OpAt
    <3> DEFINE E(j) == ops[p + w + j - 1].addr
               f == [j \in 1 .. r |-> E(j)]
    <3>2. \A j \in 1 .. r : E(j) \in Nat
      BY <3>1, Zenon
    <3> HIDE DEF E
    <3>3. f \in Seq(Nat) /\ Len(f) = r /\ \A j \in 1 .. r : f[j] = E(j)
      BY <3>2
    <3> QED
      BY <2>2, <3>3, Zenon DEF E
  <2> QED
    BY <2>1, <2>2
<1>7. PICK rec : rec = Record(c, p, s)
  OBVIOUS
<1>8. rec = [cyc    |-> s.end,
       lanes  |-> sh .. sh + sz - 1,
       wcfg   |-> s.w > 0 /\ ops[p].cfg,
       fifo   |-> s.fifo,
       waddr  |-> IF s.w > 0 THEN ops[p].addr ELSE 0,
       writes |-> wr,
       rcfg   |-> s.flags \/ (s.r > 0 /\ ops[p + s.w].cfg),
       bra    |-> IF s.flags THEN rba + 1 ELSE rba,
       reads  |-> rd]
  <2>1. WholeWord.size = Data
    BY DEF WholeWord
  <2>2. (IF s.w = 0 /\ s.r = 0 THEN WholeWord ELSE ops[p].format).size = sz
    BY <1>2, <2>1, Zenon DEF SizeOf
  <2>3. (IF s.w = 0 /\ s.r = 0 THEN 0
         ELSE OpShift((IF s.w = 0 /\ s.r = 0 THEN WholeWord ELSE ops[p].format), LowAddr(ops[p]))) = sh
    BY <1>2, Zenon DEF ShiftOf
  <2> QED
    BY <1>1, <1>4, <1>5, <1>6, <1>7, <2>2, <2>3, Zenon DEF Record
<1>9. /\ rec.cyc = s.end /\ rec.lanes = sh .. sh + sz - 1
      /\ rec.wcfg = (s.w > 0 /\ ops[p].cfg) /\ rec.fifo = s.fifo
      /\ rec.waddr = (IF s.w > 0 THEN ops[p].addr ELSE 0) /\ rec.writes = wr
      /\ rec.rcfg = (s.flags \/ (s.r > 0 /\ ops[p + s.w].cfg)) /\ rec.reads = rd
  BY <1>8
<1>10. s.w > 0 => ops[p].addr \in Nat /\ ops[p].cfg \in BOOLEAN
  <2>1. s.w > 0 => p \in 1 .. n
    BY <1>1, <1>4, SMTT(60)
  <2> QED
    BY <1>1, <2>1, OpAt
<1>11. rec \in Requests
  <2>1. sh .. sh + sz - 1 \in LaneSets
    BY <1>2, LaneFacts
  <2>2. s.end \in BOOLEAN /\ s.fifo \in BOOLEAN /\ s.flags \in BOOLEAN
    BY DEF GoodShape
  <2>3. (IF s.w > 0 THEN ops[p].addr ELSE 0) \in Nat /\ (IF s.flags THEN rba + 1 ELSE rba) \in Nat
    BY <1>10
  <2>4. (s.w > 0 /\ ops[p].cfg) \in BOOLEAN /\ (s.flags \/ (s.r > 0 /\ ops[p + s.w].cfg)) \in BOOLEAN
    OBVIOUS
  <2> QED
    BY <1>8, <2>1, <2>2, <2>3, <2>4 DEF Requests
<1>12. RecordWords(rec) = s.words
  <2>0. \A x \in Seq(Nat) : x = <<>> <=> Len(x) = 0
    OBVIOUS
  <2>1. (wr = <<>> <=> w = 0) /\ (rd = <<>> <=> (~s.flags /\ r = 0))
    <3>1. (wr = <<>> <=> Len(wr) = 0) /\ (rd = <<>> <=> Len(rd) = 0)
      BY <2>0, Zenon
    <3> QED
      BY <1>5, <1>6, <3>1
  <2>2. PICK x, y : /\ x = (IF wr = <<>> THEN 0 ELSE 1 + Len(wr))
                    /\ y = (IF rd = <<>> THEN 0 ELSE 1 + Len(rd))
    OBVIOUS
  <2>3. RecordWords(rec) = HeaderWords + x + y
    BY <1>9, <2>2, Zenon DEF RecordWords
  <2>4. x = (IF w > 0 THEN 1 + w ELSE 0)
    <3>1. x = IF w = 0 THEN 0 ELSE 1 + w
      BY <1>5, <2>1, <2>2, Zenon
    <3>2. w = 0 <=> ~(w > 0)
      OBVIOUS
    <3> QED
      BY <3>1, <3>2, Zenon
  <2>5. y = (IF s.flags THEN 2 ELSE IF r > 0 THEN 1 + r ELSE 0)
    <3>1. CASE s.flags
      BY <1>6, <2>1, <2>2, <3>1
    <3>2. CASE ~s.flags
      <4>1. y = IF r = 0 THEN 0 ELSE 1 + r
        BY <1>6, <2>1, <2>2, <3>2, Zenon
      <4>2. r = 0 <=> ~(r > 0)
        OBVIOUS
      <4> QED
        BY <3>2, <4>1, <4>2, Zenon
    <3> QED
      BY <3>1, <3>2
  <2>6. s.words = HeaderWords + x + y
    BY <1>4, <2>4, <2>5, Zenon DEF GoodShape
  <2> QED
    BY <2>3, <2>6
<1>13. s.w > 0 => rec.wcfg = ops[p].cfg /\ rec.waddr = ops[p].addr
  BY <1>9, <1>10
<1>14. s.flags => rec.rcfg /\ Len(rec.reads) = 1
  BY <1>6, <1>9
<1>15. ~s.flags => /\ Len(rec.reads) = s.r
                   /\ s.r > 0 => rec.rcfg = ops[p + s.w].cfg
                   /\ \A j \in 1 .. s.r : rec.reads[j] = ops[p + s.w + j - 1].addr
  <2>1. s.r > 0 => p + s.w \in 1 .. n
    BY <1>1, <1>4, SMTT(60)
  <2>2. s.r > 0 => ops[p + s.w].cfg \in BOOLEAN
    BY <1>1, <2>1, OpAt
  <2> QED
    BY <1>4, <1>6, <1>9, <2>2
<1>16. \A j \in 1 .. s.w : rec.writes[j] = ops[p + j - 1].val * Values(ShiftOf(ops, p, s))
  BY <1>2, <1>4, <1>5, <1>9, Zenon
<1>17. rec.lanes = ShiftOf(ops, p, s) .. ShiftOf(ops, p, s) + SizeOf(ops, p, s) - 1
  BY <1>2, <1>9, Zenon
<1>18. Len(rec.writes) = s.w /\ rec.cyc = s.end /\ rec.fifo = s.fifo
  BY <1>4, <1>5, <1>9, Zenon
<1>19. IsRecord(rec, ops, p, s)
  BY <1>11, <1>12, <1>13, <1>14, <1>15, <1>16, <1>17, <1>18, Zenon DEF IsRecord
<1> QED
  BY <1>7, <1>19, Zenon

AccessType == [dir : {"r", "w"}, cfg : BOOLEAN, word : Nat, addr : Nat]

\* The writes of a record, then its reads.
AccessList(acc, rec) ==
    /\ acc \in Seq(AccessType) /\ Len(acc) = Len(rec.writes) + Len(rec.reads)
    /\ \A i \in 1 .. Len(rec.writes) :
         acc[i] = [dir |-> "w", cfg |-> rec.wcfg, word |-> rec.writes[i],
                   addr |-> ChainAddr(IF rec.wcfg THEN rec.waddr ELSE WordAddr(rec.waddr), rec.fifo, i - 1)]
    /\ \A i \in 1 .. Len(rec.reads) :
         acc[Len(rec.writes) + i] = [dir |-> "r", cfg |-> rec.rcfg, word |-> 0, addr |-> rec.reads[i]]

\* The accesses of the slave are the writes and reads of the record, in their order.
LEMMA AccessFacts ==
    ASSUME NEW rec \in Requests
    PROVE  AccessList(Accesses(rec), rec)
<1> DEFINE A == IF rec.wcfg THEN rec.waddr ELSE WordAddr(rec.waddr)
           f == [j \in 1 .. Len(rec.writes) |->
                   [dir |-> "w", cfg |-> rec.wcfg, word |-> rec.writes[j],
                    addr |-> ChainAddr(A, rec.fifo, j - 1)]]
           g == [j \in 1 .. Len(rec.reads) |->
                   [dir |-> "r", cfg |-> rec.rcfg, word |-> 0, addr |-> rec.reads[j]]]
<1>1. /\ rec.writes \in Seq(Nat) /\ rec.reads \in Seq(Nat) /\ rec.waddr \in Nat
      /\ rec.wcfg \in BOOLEAN /\ rec.rcfg \in BOOLEAN /\ rec.fifo \in BOOLEAN
  BY DEF Requests
<1>2. A \in Nat
  BY <1>1, WordAddrFacts
<1>3. Accesses(rec) = f \o g
  BY Zenon DEF Accesses
<1> HIDE DEF A
<1>4. PICK m \in Nat, n \in Nat : m = Len(rec.writes) /\ n = Len(rec.reads)
  BY <1>1
<1>5. \A j \in 1 .. m : ChainAddr(A, rec.fifo, j - 1) \in Nat /\ rec.writes[j] \in Nat
  <2> TAKE j \in 1 .. m
  <2>1. PICK d \in {1, 2, 4, 8} : d = Data
    BY DataFacts
  <2>2. j - 1 \in Nat /\ A + (j - 1) * d \in Nat
    BY <1>2
  <2> QED
    BY <1>1, <1>2, <1>4, <2>1, <2>2 DEF ChainAddr
<1>6. f \in Seq(AccessType) /\ Len(f) = m
  BY <1>1, <1>4, <1>5 DEF AccessType
<1>7. g \in Seq(AccessType) /\ Len(g) = n
  BY <1>1, <1>4 DEF AccessType
<1>8. /\ \A i \in 1 .. m : f[i] = [dir |-> "w", cfg |-> rec.wcfg, word |-> rec.writes[i],
                                  addr |-> ChainAddr(A, rec.fifo, i - 1)]
      /\ \A i \in 1 .. n : g[i] = [dir |-> "r", cfg |-> rec.rcfg, word |-> 0, addr |-> rec.reads[i]]
  BY <1>4
<1> HIDE DEF f, g
<1>9. /\ f \o g \in Seq(AccessType) /\ Len(f \o g) = m + n
      /\ \A i \in 1 .. m : (f \o g)[i] = f[i]
      /\ \A i \in 1 .. n : (f \o g)[m + i] = g[i]
  BY <1>6, <1>7
<1> QED
  BY <1>3, <1>4, <1>8, <1>9, Zenon DEF AccessList, A

\* The list x of operations, each with the access that denotes it; accesses to
\* the configuration space denote nothing on the bus.
Matches(rec, x) ==
    /\ x \in Seq(Operation) /\ Len(x) = Len(Accesses(rec))
    /\ \A i \in 1 .. Len(x) :
         /\ x[i].cfg = Accesses(rec)[i].cfg
         /\ ~x[i].cfg => Denotes(Accesses(rec)[i], rec.lanes, x[i])

\* The bus operations a record stands for.
Stands(rec, ops) == \E x \in Seq(Operation) : Matches(rec, x) /\ ops = OnBus(x)

\* A write in a record denotes its operation.
LEMMA WriteDenotes ==
    ASSUME NEW ops \in Seq(Operation), Ready(ops), NEW p \in 1 .. Len(ops) + 1,
           NEW s, GoodShape(ops, p, s), NEW rec, IsRecord(rec, ops, p, s), NEW i \in 1 .. s.w
    PROVE  /\ p + i - 1 \in 1 .. Len(ops)
           /\ Accesses(rec)[i].cfg = ops[p + i - 1].cfg
           /\ ~ops[p + i - 1].cfg => Denotes(Accesses(rec)[i], rec.lanes, ops[p + i - 1])
<1>1. PICK n \in Nat : n = Len(ops) /\ p \in 1 .. n + 1
  OBVIOUS
<1>2. PICK w \in Nat, r \in Nat : w = s.w /\ r = s.r /\ p + w + r <= n + 1
  BY <1>1 DEF GoodShape
<1>3. p + i - 1 \in 1 .. n /\ p \in 1 .. n /\ i - 1 \in 0 .. w - 1 /\ p + (i - 1) = p + i - 1 /\ s.w > 0 /\ i - 1 \in Nat
  BY <1>2
<1>4. PICK op \in Operation, first \in Operation : op = ops[p + i - 1] /\ first = ops[p]
  BY <1>1, <1>3, OpAt
<1>5. /\ op.dir = "w" /\ op.cfg = first.cfg /\ op.format = first.format
      /\ op.addr = ChainAddr(first.addr, s.fifo, i - 1)
  BY <1>2, <1>3, <1>4, Zenon DEF GoodShape, WriteRun
<1>6. /\ Objection(op) = "none" /\ op.format = [size |-> OpSize(op), endian |-> OpEndian(op)]
      /\ Objection(first) = "none" /\ first.format = [size |-> OpSize(first), endian |-> OpEndian(first)]
  BY <1>1, <1>3, <1>4, Zenon DEF Ready
<1>7. PICK a : a = Accesses(rec)[i]
  OBVIOUS
<1>8. i \in 1 .. Len(rec.writes) /\ rec \in Requests
  BY DEF IsRecord
<1>9. a = [dir |-> "w", cfg |-> rec.wcfg, word |-> rec.writes[i],
           addr |-> ChainAddr(IF rec.wcfg THEN rec.waddr ELSE WordAddr(rec.waddr), rec.fifo, i - 1)]
  BY <1>7, <1>8, AccessFacts, Zenon DEF AccessList
<1>10. /\ rec.wcfg = first.cfg /\ rec.waddr = first.addr /\ rec.fifo = s.fifo
       /\ rec.writes[i] = op.val * Values(ShiftOf(ops, p, s))
       /\ rec.lanes = ShiftOf(ops, p, s) .. ShiftOf(ops, p, s) + SizeOf(ops, p, s) - 1
  BY <1>3, <1>4, Zenon DEF IsRecord
<1>11. a.dir = "w" /\ a.cfg = rec.wcfg /\ a.word = rec.writes[i]
  BY <1>9
<1>12. ASSUME ~op.cfg PROVE Denotes(a, rec.lanes, op)
  <2>1. first.addr \in Nat /\ op.addr \in Nat /\ op.val \in Nat
    BY DEF Operation
  <2>2. first.addr < AddrEnd /\ op.addr < AddrEnd /\ op.val < Values(OpSize(op))
    BY <1>5, <1>6, <1>12, SoundFacts
  <2>3. a.addr = ChainAddr(WordAddr(first.addr), s.fifo, i - 1)
    BY <1>5, <1>9, <1>10, <1>12
  <2>4. s.fifo \in BOOLEAN
    BY DEF GoodShape
  <2>5. Chained(first.addr, a.addr, op.addr)
    BY <1>3, <1>5, <2>1, <2>2, <2>3, <2>4, ChainFacts
  <2>6. WordAddr(a.addr) = op.addr - (op.addr % Data) /\ LowAddr(op) = LowAddr(first)
    BY <2>2, <2>5 DEF Chained, LowAddr
  <2>7. PICK sh : sh = OpShift(op.format, LowAddr(op))
    OBVIOUS
  <2>8. sh = ShiftOf(ops, p, s) /\ OpSize(op) = SizeOf(ops, p, s)
    <3>1. s.w # 0
      BY <1>2, <1>3
    <3>2. first.format.size = OpSize(op)
      BY <1>5, <1>6
    <3> QED
      BY <1>4, <1>5, <2>6, <2>7, <3>1, <3>2, Zenon DEF ShiftOf, SizeOf
  <2>9. rec.lanes = sh .. sh + OpSize(op) - 1
    BY <1>10, <2>8, Zenon
  <2>10. sh = OpShift([size |-> OpSize(op), endian |-> OpEndian(op)], LowAddr(op))
    BY <1>6, <2>7, Zenon
  <2>11. /\ rec.lanes \in LaneSets /\ Shift(rec.lanes) = sh /\ Width(rec.lanes) = OpSize(op)
         /\ op.addr = IF OpEndian(op) = {"L"} THEN LittleAddr(a.addr, rec.lanes) ELSE BigAddr(a.addr, rec.lanes)
    <3>1. LanesOf(op, rec.lanes, sh, a.addr)
      BY <2>6, <2>9, <2>10, Zenon DEF LanesOf
    <3>2. Located(op, rec.lanes, sh, a.addr)
      BY <1>6, <3>1, LanesLocate, Zenon
    <3> QED
      BY <3>2, Zenon DEF Located
  <2>12. a.word = op.val * Values(Shift(rec.lanes)) /\ op.val < Values(Width(rec.lanes))
    BY <1>10, <1>11, <2>2, <2>8, <2>11, Zenon
  <2>13. Unpack(a.word, rec.lanes) = op.val
    BY <2>1, <2>11, <2>12, LaneData, Zenon
  <2> QED
    BY <1>5, <1>11, <2>11, <2>13, Zenon DEF Denotes
<1> QED
  BY <1>1, <1>3, <1>4, <1>5, <1>7, <1>10, <1>11, <1>12, Zenon

\* A read in a record denotes its operation.
LEMMA ReadDenotes ==
    ASSUME NEW ops \in Seq(Operation), Ready(ops), NEW p \in 1 .. Len(ops) + 1,
           NEW s, GoodShape(ops, p, s), NEW rec, IsRecord(rec, ops, p, s), NEW i \in 1 .. s.r
    PROVE  /\ ~s.flags /\ p + s.w + (i - 1) \in 1 .. Len(ops)
           /\ Accesses(rec)[s.w + i].cfg = ops[p + s.w + (i - 1)].cfg
           /\ ~ops[p + s.w + (i - 1)].cfg => Denotes(Accesses(rec)[s.w + i], rec.lanes, ops[p + s.w + (i - 1)])
<1>1. PICK n \in Nat : n = Len(ops) /\ p \in 1 .. n + 1
  OBVIOUS
<1>2. PICK w \in Nat, r \in Nat : w = s.w /\ r = s.r /\ p + w + r <= n + 1
  BY <1>1 DEF GoodShape
<1>3. PICK q \in Nat : q = p + w /\ q = p + s.w
  BY <1>2
<1>4. q + (i - 1) \in 1 .. n /\ q \in 1 .. n /\ p \in 1 .. n /\ i - 1 \in 0 .. r - 1 /\ r # 0 /\ r > 0 /\ i \in 1 .. r
  <2>1. i \in 1 .. r /\ i \in Nat /\ i >= 1 /\ i <= r /\ p >= 1 /\ p \in Nat /\ q + r <= n + 1 /\ q >= p
    BY <1>2, <1>3
  <2>2. q + (i - 1) \in 1 .. n /\ q \in 1 .. n /\ p \in 1 .. n /\ i - 1 \in 0 .. r - 1 /\ r # 0 /\ r > 0
    BY <2>1
  <2> QED
    BY <2>1, <2>2
<1>5. ~s.flags
  BY <1>2, <1>4 DEF GoodShape
<1>6. PICK op \in Operation, first \in Operation, start \in Operation :
         op = ops[q + (i - 1)] /\ first = ops[q] /\ start = ops[p]
  BY <1>1, <1>4, OpAt
<1>7. /\ op.dir = "r" /\ op.cfg = first.cfg /\ op.format = first.format /\ LowAddr(op) = LowAddr(first)
  BY <1>2, <1>3, <1>4, <1>6, Zenon DEF GoodShape, ReadRun
<1>8. first.format = start.format /\ LowAddr(first) = LowAddr(start)
  <2>1. CASE w = 0
    BY <1>1, <1>3, <1>6, <2>1
  <2>2. CASE w # 0
    <3>1. w > 0
      BY <2>2
    <3> QED
      BY <1>2, <1>3, <1>4, <1>6, <3>1, Zenon DEF GoodShape
  <2> QED
    BY <2>1, <2>2
<1>9. /\ Objection(op) = "none" /\ op.format = [size |-> OpSize(op), endian |-> OpEndian(op)]
  BY <1>1, <1>4, <1>6, Zenon DEF Ready
<1>10. PICK a : a = Accesses(rec)[w + i]
  OBVIOUS
<1>11. rec \in Requests /\ Len(rec.writes) = w /\ Len(rec.reads) = r
  BY <1>2, <1>5 DEF IsRecord
<1>12. a = [dir |-> "r", cfg |-> rec.rcfg, word |-> 0, addr |-> rec.reads[i]]
  BY <1>4, <1>10, <1>11, AccessFacts, Zenon DEF AccessList
<1>13. rec.reads[i] = op.addr /\ rec.rcfg = first.cfg
  <2>1. /\ s.r > 0 => rec.rcfg = ops[p + s.w].cfg
        /\ \A j \in 1 .. s.r : rec.reads[j] = ops[p + s.w + j - 1].addr
    BY <1>5, Zenon DEF IsRecord
  <2> QED
    BY <1>2, <1>3, <1>4, <1>6, <2>1, Zenon
<1>14. a.dir = "r" /\ a.cfg = rec.rcfg /\ a.addr = op.addr
  BY <1>12, <1>13
<1>15. ASSUME ~op.cfg PROVE Denotes(a, rec.lanes, op)
  <2>1. op.addr \in Nat
    BY DEF Operation
  <2>2. op.addr < AddrEnd
    BY <1>9, <1>15, SoundFacts
  <2>3. WordAddr(a.addr) = op.addr - (op.addr % Data)
    BY <1>14, <2>1, <2>2, WordAddrFacts
  <2>7. PICK sh : sh = OpShift(op.format, LowAddr(op))
    OBVIOUS
  <2>8. sh = ShiftOf(ops, p, s) /\ OpSize(op) = SizeOf(ops, p, s)
    <3>1. s.r # 0
      BY <1>2, <1>4
    <3>2. start.format.size = OpSize(op)
      BY <1>7, <1>8, <1>9
    <3> QED
      BY <1>6, <1>7, <1>8, <2>7, <3>1, <3>2, Zenon DEF ShiftOf, SizeOf
  <2>9. rec.lanes = sh .. sh + OpSize(op) - 1
    BY <2>8, Zenon DEF IsRecord
  <2>10. sh = OpShift([size |-> OpSize(op), endian |-> OpEndian(op)], LowAddr(op))
    BY <1>9, <2>7, Zenon
  <2>11. /\ Width(rec.lanes) = OpSize(op)
         /\ op.addr = IF OpEndian(op) = {"L"} THEN LittleAddr(a.addr, rec.lanes) ELSE BigAddr(a.addr, rec.lanes)
    <3>1. LanesOf(op, rec.lanes, sh, a.addr)
      BY <2>3, <2>9, <2>10, Zenon DEF LanesOf
    <3>2. Located(op, rec.lanes, sh, a.addr)
      BY <1>9, <3>1, LanesLocate, Zenon
    <3> QED
      BY <3>2, Zenon DEF Located
  <2>12. op.dir # "w"
    BY <1>7
  <2> QED
    BY <1>7, <1>14, <2>11, <2>12, Zenon DEF Denotes
<1> QED
  BY <1>1, <1>2, <1>3, <1>4, <1>5, <1>6, <1>7, <1>10, <1>13, <1>14, <1>15, Zenon

\* The read of the status register, which is no operation of the cycle.
Nop == [dir |-> "r", cfg |-> TRUE, addr |-> 0, sizes |-> {}, endian |-> {},
        format |-> [size |-> 0, endian |-> {}], val |-> 0, err |-> FALSE]

\* Part of a list.
LEMMA PartFacts ==
    ASSUME NEW T, NEW s \in Seq(T), NEW a \in Nat, NEW b \in Nat, 1 <= a, a <= b, b <= Len(s) + 1
    PROVE  /\ SubSeq(s, a, b - 1) \in Seq(T) /\ Len(SubSeq(s, a, b - 1)) = b - a
           /\ \A i \in 1 .. b - a : SubSeq(s, a, b - 1)[i] = s[a + i - 1]
           /\ SubSeq(s, 1, b - 1) = SubSeq(s, 1, a - 1) \o SubSeq(s, a, b - 1)
           /\ SubSeq(s, 1, a - 1) \in Seq(T)
  OBVIOUS

\* The record of shape s stands for the operations it was made of.
LEMMA RecordStands ==
    ASSUME NEW ops \in Seq(Operation), Ready(ops), NEW p \in 1 .. Len(ops) + 1,
           NEW s, GoodShape(ops, p, s), NEW rec, IsRecord(rec, ops, p, s)
    PROVE  Stands(rec, OnBus(SubSeq(Bares(ops), p, (p + s.w + s.r) - 1)))
<1>1. PICK n \in Nat : n = Len(ops) /\ p \in 1 .. n + 1 /\ p \in Nat /\ 1 <= p
  OBVIOUS
<1>2. PICK w \in Nat, r \in Nat : w = s.w /\ r = s.r /\ p + w + r <= n + 1
  BY <1>1 DEF GoodShape
<1>3. PICK k \in Nat : k = p + w + r /\ k <= n + 1 /\ p <= k /\ k - p = w + r
  BY <1>2
<1>4. PICK bops \in Seq(Operation) :
         bops = Bares(ops) /\ Len(bops) = n /\ \A i \in 1 .. n : SameFor(ops[i], bops[i])
  BY <1>1, BaresFacts
<1>5. PICK y \in Seq(Operation) :
         y = SubSeq(bops, p, k - 1) /\ Len(y) = w + r /\ \A i \in 1 .. w + r : y[i] = bops[p + i - 1]
  <2>1. 1 <= p /\ p <= k /\ k <= Len(bops) + 1
    BY <1>1, <1>3, <1>4
  <2>2. /\ SubSeq(bops, p, k - 1) \in Seq(Operation) /\ Len(SubSeq(bops, p, k - 1)) = k - p
        /\ \A i \in 1 .. k - p : SubSeq(bops, p, k - 1)[i] = bops[p + i - 1]
    BY <1>1, <2>1, PartFacts
  <2> QED
    BY <1>3, <2>2, Zenon
<1>6. rec \in Requests /\ Len(rec.writes) = w /\ AccessList(Accesses(rec), rec)
  BY <1>2, AccessFacts DEF IsRecord
<1>7. PICK acc : acc = Accesses(rec)
  OBVIOUS
<1>8. \A i \in 1 .. w + r : /\ y[i].cfg = acc[i].cfg
                            /\ ~y[i].cfg => Denotes(acc[i], rec.lanes, y[i])
  <2> SUFFICES ASSUME NEW i \in 1 .. w + r
               PROVE  y[i].cfg = acc[i].cfg /\ (~y[i].cfg => Denotes(acc[i], rec.lanes, y[i]))
    OBVIOUS
  <2>1. p + i - 1 \in 1 .. n
    BY <1>2, SMTT(60)
  <2>2. PICK op : op = ops[p + i - 1] /\ SameFor(op, y[i])
    BY <1>4, <1>5, <2>1
  <2>3. acc[i].cfg = op.cfg /\ (~op.cfg => Denotes(acc[i], rec.lanes, op))
    <3>1. CASE i <= w
      <4>1. i \in 1 .. s.w
        BY <1>2, <3>1
      <4> QED
        BY <1>7, <2>2, <4>1, WriteDenotes
    <3>2. CASE ~(i <= w)
      <4>1. PICK j \in 1 .. r : i = w + j
        <5>1. i - w \in 1 .. r /\ i = w + (i - w)
          BY <3>2
        <5> QED
          BY <5>1
      <4>2. p + w + (j - 1) = p + i - 1 /\ j \in 1 .. s.r /\ s.w + j = i
        BY <1>2, <4>1, SMTT(60)
      <4>3. /\ Accesses(rec)[s.w + j].cfg = ops[p + s.w + (j - 1)].cfg
            /\ ~ops[p + s.w + (j - 1)].cfg => Denotes(Accesses(rec)[s.w + j], rec.lanes, ops[p + s.w + (j - 1)])
        BY <4>2, ReadDenotes
      <4> QED
        BY <1>2, <1>7, <2>2, <4>2, <4>3, Zenon
    <3> QED
      BY <3>1, <3>2
  <2>4. y[i].cfg = op.cfg /\ (Denotes(acc[i], rec.lanes, op) <=> Denotes(acc[i], rec.lanes, y[i]))
    BY <2>2, SameMeaning, SMTT(60) DEF SameFor
  <2> QED
    BY <2>3, <2>4, Zenon
<1>9. CASE ~s.flags
  <2>1. Len(acc) = w + r
    BY <1>2, <1>6, <1>7, <1>9 DEF AccessList, IsRecord
  <2>2. Matches(rec, y)
    BY <1>5, <1>7, <1>8, <2>1, Zenon DEF Matches
  <2> QED
    BY <1>2, <1>3, <1>4, <1>5, <2>2, Zenon DEF Stands
<1>10. CASE s.flags
  <2>1. r = 0 /\ Len(rec.reads) = 1 /\ rec.rcfg
    BY <1>2, <1>10 DEF GoodShape, IsRecord
  <2>2. Len(acc) = w + 1 /\ 1 \in 1 .. Len(rec.reads)
    BY <1>6, <1>7, <2>1 DEF AccessList
  <2>3. acc[w + 1].cfg = TRUE
    <3>1. acc[w + 1] = [dir |-> "r", cfg |-> rec.rcfg, word |-> 0, addr |-> rec.reads[1]]
      BY <1>6, <1>7, <2>2, Zenon DEF AccessList
    <3>2. rec.rcfg = TRUE
      BY <1>6, <2>1 DEF Requests
    <3> QED
      BY <3>1, <3>2
  <2>4. Nop \in Operation /\ Nop.cfg = TRUE
    BY DEF Nop, Operation, Endians
  <2>5. PICK x \in Seq(Operation) :
           x = Append(y, Nop) /\ Len(x) = w + 1 /\ x[w + 1] = Nop /\ \A i \in 1 .. w : x[i] = y[i]
    <3>1. Len(y) = w
      BY <1>2, <1>5, <2>1
    <3>2. /\ Append(y, Nop) \in Seq(Operation) /\ Len(Append(y, Nop)) = Len(y) + 1
          /\ Append(y, Nop)[Len(y) + 1] = Nop
          /\ \A i \in 1 .. Len(y) : Append(y, Nop)[i] = y[i]
      BY <2>4, Longer
    <3> QED
      BY <3>1, <3>2, Zenon
  <2>6. \A i \in 1 .. w + 1 : x[i].cfg = acc[i].cfg /\ (~x[i].cfg => Denotes(acc[i], rec.lanes, x[i]))
    <3> SUFFICES ASSUME NEW i \in 1 .. w + 1
                 PROVE  x[i].cfg = acc[i].cfg /\ (~x[i].cfg => Denotes(acc[i], rec.lanes, x[i]))
      OBVIOUS
    <3>1. CASE i = w + 1
      BY <2>3, <2>4, <2>5, <3>1
    <3>2. CASE i # w + 1
      <4>1. i \in 1 .. w /\ i \in 1 .. w + r
        BY <2>1, <3>2
      <4> QED
        BY <1>8, <2>5, <4>1, Zenon
    <3> QED
      BY <3>1, <3>2
  <2>7. Matches(rec, x)
    BY <1>7, <2>2, <2>5, <2>6, Zenon DEF Matches
  <2>8. OnBus(x) = OnBus(y)
    BY <2>4, <2>5, OnBusAppend
  <2> QED
    BY <1>2, <1>3, <1>4, <1>5, <2>7, <2>8, Zenon DEF Stands
<1> QED
  BY <1>9, <1>10

-----------------------------------------------------------------------------
(* Executing a record *)

StateType == [error : Nat, bus : Seq(Transactions), words : Seq(Nat)]

\* Addresses with the low bits that the select bits say, and packed words.
LEMMA AddrFacts ==
    ASSUME NEW a \in Nat, NEW l \in LaneSets
    PROVE  BigAddr(a, l) \in Nat /\ LittleAddr(a, l) \in Nat
<1>1. PICK sh \in 0 .. 7, sz \in 1 .. 8, d \in 1 .. 8 :
         sh = Shift(l) /\ sz = Width(l) /\ d = Data /\ sh + sz <= d
  BY LaneSetFacts, DataFacts
<1>2. PICK w \in Nat : w = WordAddr(a)
  BY WordAddrFacts
<1>3. w + d - (sh + sz) \in Nat /\ w + sh \in Nat
  BY <1>1
<1> QED
  BY <1>1, <1>2, <1>3 DEF BigAddr, LittleAddr

\* What is taken out of a word, and put into one.
LEMMA PackFacts ==
    ASSUME NEW x \in Nat, NEW l \in LaneSets
    PROVE  Unpack(x, l) \in Nat /\ Pack(x, l) \in Nat
<1>1. PICK s \in Nat \ {0}, w \in Nat \ {0} : s = Values(Shift(l)) /\ w = Values(Width(l))
  BY LaneSetFacts
<1>2. PICK y \in Nat : y = x \div s
  OBVIOUS
<1>3. PICK z \in Nat : z = x % w
  OBVIOUS
<1>4. y % w \in Nat /\ z * s \in Nat
  OBVIOUS
<1> QED
  BY <1>1, <1>2, <1>3, <1>4 DEF Unpack, Pack

\* A transaction.
LEMMA TransactionFacts ==
    ASSUME NEW a \in AccessType, NEW l \in LaneSets, NEW n \in Nat
    PROVE  Transaction(a, l, n) \in Transactions
<1>1. a.addr \in Nat /\ a.word \in Nat /\ a.dir \in {"r", "w"}
  BY DEF AccessType
<1>2. BigAddr(a.addr, l) \in Nat /\ LittleAddr(a.addr, l) \in Nat /\ Unpack(a.word, l) \in Nat
  BY <1>1, AddrFacts, PackFacts
<1>3. Width(l) \in Nat /\ n % Values(Width(l)) \in Nat
  BY LaneSetFacts
<1> QED
  BY <1>1, <1>2, <1>3 DEF Transaction, Transactions

\* The status register lies in the first eight bytes.
LEMMA ReadConfigFacts ==
    ASSUME NEW e \in Nat, NEW a \in Nat, NEW l \in LaneSets
    PROVE  ReadConfig(e, BigAddr(a, l), Width(l)) \in Nat
<1>1. PICK sh \in 0 .. 7, sz \in 1 .. 8, d \in {1, 2, 4, 8} :
         sh = Shift(l) /\ sz = Width(l) /\ d = Data /\ sh + sz <= d
  BY LaneSetFacts, DataFacts
<1>2. PICK w \in Nat : w = WordAddr(a) /\ w % d = 0
  <2>1. PICK m \in Nat : m = a % AddrEnd
    BY RecordAssumption
  <2>2. (m - (m % d)) % d = 0 /\ m - (m % d) \in Nat
    OBVIOUS
  <2> QED
    BY <1>1, <2>1, <2>2 DEF WordAddr
<1>3. PICK b \in Nat : b = w + d - (sh + sz) /\ b = BigAddr(a, l)
  BY <1>1, <1>2, AddrFacts DEF BigAddr
<1>4. ASSUME ~(b >= 8) PROVE 8 - (b + sz) \in 0 .. 8
  <2>1. w + d <= 8
    <3>1. w < 8
      BY <1>1, <1>3, <1>4
    <3> QED
      BY <1>2, <3>1
  <2> QED
    BY <1>1, <1>3, <2>1
<1>5. PICK v \in Nat \ {0} : v = Values(sz)
  BY <1>1, LaneSetFacts
<1>6. CASE b >= 8
  BY <1>1, <1>3, <1>6 DEF ReadConfig
<1>7. CASE ~(b >= 8)
  <2>1. PICK u \in Nat \ {0} : u = Values(8 - (b + sz))
    BY <1>4, <1>7, ValuesFacts
  <2>2. PICK x \in Nat : x = e \div u
    OBVIOUS
  <2>3. x % v \in Nat
    OBVIOUS
  <2> QED
    BY <1>1, <1>3, <1>5, <1>7, <2>1, <2>2, <2>3 DEF ReadConfig
<1> QED
  BY <1>6, <1>7

\* The error register keeps its width.
LEMMA ShiftErrorFacts ==
    ASSUME NEW e \in Nat, NEW b \in BOOLEAN
    PROVE  ShiftError(e, b) \in Nat
<1>1. PICK v \in Nat \ {0} : v = Values(8)
  BY ValuesFacts
<1>2. PICK x \in Nat : x = 2 * e + (IF b THEN 1 ELSE 0)
  OBVIOUS
<1>3. x % v \in Nat
  OBVIOUS
<1> QED
  BY <1>1, <1>2, <1>3 DEF ShiftError

\* What one access does to the bus.
AccessBus(st, a, l) == IF a.cfg THEN st.bus ELSE Append(st.bus, Transaction(a, l, Len(st.bus) + 1))

\* One pass of the loops of eb_device_slave: one transaction, or none in the
\* configuration space.
LEMMA AccessStep ==
    ASSUME NEW st \in StateType, NEW a \in AccessType, NEW l \in LaneSets
    PROVE  Access(st, a, l) \in StateType /\ Access(st, a, l).bus = AccessBus(st, a, l)
<1>1. st.error \in Nat /\ st.bus \in Seq(Transactions) /\ st.words \in Seq(Nat)
  BY DEF StateType
<1>2. a.addr \in Nat /\ a.cfg \in BOOLEAN
  BY DEF AccessType
<1>3. SelOk(l)
  BY LaneSetFacts
<1>4. PICK t \in Transactions : t = Transaction(a, l, Len(st.bus) + 1)
  BY <1>1, TransactionFacts
<1>5. CASE a.cfg /\ a.dir = "w"
  <2>1. Access(st, a, l) = st
    BY <1>5, Zenon DEF Access
  <2> QED
    BY <1>5, <2>1 DEF AccessBus
<1>6. CASE a.cfg /\ ~(a.dir = "w")
  <2>1. PICK v \in Nat : v = Pack(ReadConfig(st.error, BigAddr(a.addr, l), Width(l)), l)
    BY <1>1, <1>2, ReadConfigFacts, PackFacts
  <2>2. Access(st, a, l) = [st EXCEPT !.words = Append(@, v)]
    BY <1>3, <1>6, <2>1, Zenon DEF Access
  <2>3. Append(st.words, v) \in Seq(Nat)
    BY <1>1
  <2> QED
    BY <1>6, <2>2, <2>3 DEF AccessBus, StateType
<1>7. CASE ~a.cfg
  <2>1. PICK e \in Nat : e = ShiftError(st.error, ~SelOk(l) \/ t.fail)
    <3>1. (~SelOk(l) \/ t.fail) \in BOOLEAN
      OBVIOUS
    <3> QED
      BY <1>1, <3>1, ShiftErrorFacts
  <2>2. PICK ws \in Seq(Nat) : ws = IF a.dir = "w" THEN st.words
                                    ELSE Append(st.words, IF SelOk(l) THEN Pack(t.val, l) ELSE 0)
    <3>1. Pack(t.val, l) \in Nat
      BY PackFacts DEF Transactions
    <3>2. Append(st.words, Pack(t.val, l)) \in Seq(Nat)
      BY <1>1, <3>1
    <3> QED
      BY <1>1, <1>3, <3>2
  <2>3. Access(st, a, l) = [error |-> e, bus |-> Append(st.bus, t), words |-> ws]
    BY <1>3, <1>4, <1>7, <2>1, <2>2, Zenon DEF Access
  <2>4. Append(st.bus, t) \in Seq(Transactions)
    BY <1>1, Longer
  <2> QED
    BY <1>4, <1>7, <2>3, <2>4 DEF AccessBus, StateType
<1> QED
  BY <1>5, <1>6, <1>7

\* The state after 0, 1, ... accesses of a record.
ExecuteSteps(k, rec, error, ts) ==
    /\ k[0] = [error |-> error, bus |-> ts, words |-> <<>>]
    /\ \A i \in 1 .. Len(Accesses(rec)) : k[i] = Access(k[i - 1], Accesses(rec)[i], rec.lanes)
    /\ Execute(rec, error, ts) = k[Len(Accesses(rec))]

\* The recursion of Execute defines a function.
LEMMA ExecuteRec ==
    ASSUME NEW rec \in Requests, NEW error \in Nat, NEW ts \in Seq(Transactions)
    PROVE  \E k \in [0 .. Len(Accesses(rec)) -> StateType] : ExecuteSteps(k, rec, error, ts)
<1> DEFINE n == Len(Accesses(rec))
           V == StateType
           z == [error |-> error, bus |-> ts, words |-> <<>>]
           S(v, i) == Access(v, Accesses(rec)[i], rec.lanes)
           h == [i \in 1 .. n |-> [v \in V |-> S(v, i)]]
           B(k, i) == IF i = 0 THEN z ELSE S(k[i - 1], i)
           E(k) == k = [i \in 0 .. n |-> B(k, i)]
<1>1. n \in Nat /\ z \in V
  <2>1. Accesses(rec) \in Seq(AccessType) /\ <<>> \in Seq(Nat)
    BY AccessFacts, Nothing DEF AccessList
  <2>2. Len(Accesses(rec)) \in Nat
    BY <2>1
  <2> QED
    BY <2>1, <2>2 DEF StateType
<1>2. \A i \in 1 .. n, v \in V : S(v, i) \in V
  <2> SUFFICES ASSUME NEW i \in 1 .. Len(Accesses(rec)), NEW v \in StateType
               PROVE  Access(v, Accesses(rec)[i], rec.lanes) \in StateType
    BY Zenon
  <2>1. Accesses(rec) \in Seq(AccessType) /\ rec.lanes \in LaneSets
    BY AccessFacts DEF AccessList, Requests
  <2>2. Accesses(rec)[i] \in AccessType
    BY <2>1
  <2> QED
    BY <2>1, <2>2, AccessStep
<1> DEFINE k == CHOOSE g : E(g)
<1>3. Execute(rec, error, ts) = k[n]
  BY Zenon DEF Execute
<1> HIDE DEF S, V, z, n
<1>4. h \in [1 .. n -> [V -> V]]
  BY <1>2
<1>5. PICK f \in [0 .. n -> V] : f[0] = z /\ \A i \in 1 .. n : f[i] = h[i][f[i - 1]]
  <2> HIDE DEF h
  <2>1. HasRun(V, z, n, h)
    BY <1>1, <1>4, RunExists, Zenon
  <2> QED
    BY <2>1, Zenon DEF HasRun
<1>6. \A i \in 1 .. n : i - 1 \in 0 .. n /\ i \in 0 .. n /\ i # 0
  BY <1>1
<1>7. E(f)
  <2>1. \A i \in 1 .. n : f[i] = S(f[i - 1], i)
    BY <1>5, <1>6
  <2>2. \A i \in 0 .. n : i = 0 \/ i \in 1 .. n
    BY <1>1
  <2>3. \A i \in 0 .. n : f[i] = B(f, i)
    BY <1>5, <1>6, <2>1, <2>2, Zenon
  <2> HIDE DEF B
  <2> QED
    BY <2>3
<1>8. E(k)
  BY <1>7
<1> HIDE DEF k
<1>9. k[0] = z /\ \A i \in 1 .. n : k[i] = S(k[i - 1], i)
  <2>1. \A i \in 0 .. n : k[i] = B(k, i)
    <3> HIDE DEF B
    <3> QED
      BY <1>8, Zenon
  <2>2. 0 \in 0 .. n
    BY <1>1
  <2> QED
    BY <1>6, <2>1, <2>2, Zenon
<1>10. \A i \in 0 .. n : k[i] \in V
  <2>1. \A i \in 1 .. n : k[i - 1] \in V => k[i] \in V
    BY <1>2, <1>9, Zenon
  <2>2. k[0] \in V
    BY <1>1, <1>9, Zenon
  <2> QED
    BY <1>1, <2>1, <2>2, TypedSteps
<1>11. k \in [0 .. n -> V]
  <2> HIDE DEF B
  <2>1. k = [i \in 0 .. n |-> k[i]]
    BY <1>8, Zenon
  <2> QED
    BY <1>10, <2>1, Zenon
<1> QED
  BY <1>3, <1>9, <1>11, Zenon DEF ExecuteSteps, n, V, z, S

-----------------------------------------------------------------------------
(* What is done on the bus is what the records stand for *)

\* One more transaction for one more operation.
LEMMA PerformsAppend ==
    ASSUME NEW ts \in Seq(Transactions), NEW ops \in Seq(Operation), PerformsAll(ts, ops),
           NEW t \in Transactions, NEW op \in Operation, Performs(t, op)
    PROVE  PerformsAll(Append(ts, t), Append(ops, op))
<1>1. PICK n \in Nat : n = Len(ts) /\ n = Len(ops)
  BY DEF PerformsAll
<1>2. PICK us \in Seq(Transactions) :
         /\ us = Append(ts, t) /\ Len(us) = n + 1 /\ us[n + 1] = t /\ \A i \in 1 .. n : us[i] = ts[i]
  <2>1. Append(ts, t) \in Seq(Transactions) /\ IsGrown(Append(ts, t), ts, t, n)
    BY <1>1, Grown
  <2> QED
    BY <2>1, Zenon DEF IsGrown
<1>3. PICK os \in Seq(Operation) :
         /\ os = Append(ops, op) /\ Len(os) = n + 1 /\ os[n + 1] = op /\ \A i \in 1 .. n : os[i] = ops[i]
  <2>1. Append(ops, op) \in Seq(Operation) /\ IsGrown(Append(ops, op), ops, op, n)
    BY <1>1, Grown
  <2> QED
    BY <2>1, Zenon DEF IsGrown
<1>4. \A i \in 1 .. n : Performs(ts[i], ops[i])
  <2>1. DOMAIN ts = 1 .. n
    BY <1>1, Indices, Zenon
  <2> QED
    BY <2>1, Zenon DEF PerformsAll
<1>5. \A i \in 1 .. n + 1 : Performs(us[i], os[i])
  <2> TAKE i \in 1 .. n + 1
  <2>1. i \in 1 .. n \/ i = n + 1
    OBVIOUS
  <2> QED
    BY <1>2, <1>3, <1>4, <2>1, Zenon
<1>6. DOMAIN us = 1 .. n + 1
  BY <1>2, Indices, Zenon
<1> QED
  BY <1>2, <1>3, <1>5, <1>6, Zenon DEF PerformsAll

\* Two parts, one after the other.
LEMMA PerformsConcat ==
    ASSUME NEW ts \in Seq(Transactions), NEW us \in Seq(Transactions),
           NEW a \in Seq(Operation), NEW b \in Seq(Operation), PerformsAll(ts, a), PerformsAll(us, b)
    PROVE  PerformsAll(ts \o us, a \o b)
<1>1. PICK m \in Nat, n \in Nat : m = Len(ts) /\ m = Len(a) /\ n = Len(us) /\ n = Len(b)
  BY DEF PerformsAll
<1>2. PICK x \in Seq(Transactions) : /\ x = ts \o us /\ Len(x) = m + n
                                     /\ \A i \in 1 .. m : x[i] = ts[i]
                                     /\ \A i \in 1 .. n : x[m + i] = us[i]
  <2>1. ts \o us \in Seq(Transactions) /\ IsChain(ts \o us, ts, us, m, n)
    BY <1>1, Chain
  <2> QED
    BY <2>1, Zenon DEF IsChain
<1>3. PICK y \in Seq(Operation) : /\ y = a \o b /\ Len(y) = m + n
                                  /\ \A i \in 1 .. m : y[i] = a[i]
                                  /\ \A i \in 1 .. n : y[m + i] = b[i]
  <2>1. a \o b \in Seq(Operation) /\ IsChain(a \o b, a, b, m, n)
    BY <1>1, Chain
  <2> QED
    BY <2>1, Zenon DEF IsChain
<1>4. DOMAIN ts = 1 .. m /\ DOMAIN us = 1 .. n /\ DOMAIN x = 1 .. m + n
  BY <1>1, <1>2, Indices, Zenon
<1>5. (\A i \in 1 .. m : Performs(ts[i], a[i])) /\ \A i \in 1 .. n : Performs(us[i], b[i])
  BY <1>4, Zenon DEF PerformsAll
<1>6. \A i \in 1 .. m + n : Performs(x[i], y[i])
  <2> TAKE i \in 1 .. m + n
  <2>1. i \in 1 .. m \/ (i - m \in 1 .. n /\ m + (i - m) = i)
    OBVIOUS
  <2>2. CASE i \in 1 .. m
    BY <1>2, <1>3, <1>5, <2>2, Zenon
  <2>3. CASE i - m \in 1 .. n /\ m + (i - m) = i
    BY <1>2, <1>3, <1>5, <2>3, ZenonT(60)
  <2> QED
    BY <2>1, <2>2, <2>3
<1> QED
  BY <1>2, <1>3, <1>4, <1>6, Zenon DEF PerformsAll

\* A transaction performs what its access denotes.
LEMMA DenotesPerforms ==
    ASSUME NEW a, NEW l, NEW n, NEW op, Denotes(a, l, op)
    PROVE  Performs(Transaction(a, l, n), op)
<1>1. PICK t : t = Transaction(a, l, n)
  OBVIOUS
<1>2. /\ t.dir = a.dir /\ t.big = BigAddr(a.addr, l) /\ t.little = LittleAddr(a.addr, l)
      /\ t.width = Width(l)
      /\ t.val = (IF a.dir = "w" THEN Unpack(a.word, l) ELSE n % Values(Width(l)))
  BY <1>1 DEF Transaction
<1>3. Performs(t, op)
  BY <1>2, Zenon DEF Denotes, Performs
<1> QED
  BY <1>1, <1>3

\* The bus gets what performs the operations of the record, and nothing else.
Does(before, after, ops) ==
    \E us \in Seq(Transactions) : after = before \o us /\ PerformsAll(us, ops)

\* Executing a record that stands for ops performs ops on the bus, whatever the state.
LEMMA ExecuteDoes ==
    ASSUME NEW rec \in Requests, NEW ops, Stands(rec, ops), NEW error \in Nat, NEW ts \in Seq(Transactions)
    PROVE  Execute(rec, error, ts) \in StateType /\ Does(ts, Execute(rec, error, ts).bus, ops)
<1>0. Accesses(rec) \in Seq(AccessType)
  BY AccessFacts DEF AccessList
<1>1. PICK n \in Nat : n = Len(Accesses(rec)) /\ Accesses(rec) \in Seq(AccessType)
  BY <1>0, Indices
<1>2. PICK x \in Seq(Operation) : Matches(rec, x) /\ ops = OnBus(x) /\ Len(x) = n
  BY <1>1 DEF Stands, Matches
<1>3. PICK k \in [0 .. n -> StateType] : ExecuteSteps(k, rec, error, ts)
  BY <1>1, ExecuteRec
<1>4. /\ k[0] = [error |-> error, bus |-> ts, words |-> <<>>]
      /\ \A i \in 1 .. n : k[i] = Access(k[i - 1], Accesses(rec)[i], rec.lanes)
      /\ Execute(rec, error, ts) = k[n]
  BY <1>1, <1>3, Zenon DEF ExecuteSteps
<1> DEFINE Q == {i \in 0 .. n : Does(ts, k[i].bus, OnBus(SubSeq(x, 1, i)))}
<1>5. 0 \in Q
  <2>1. k[0].bus = ts
    BY <1>4
  <2>2. SubSeq(x, 1, 0) = <<>> /\ ts = ts \o <<>> /\ <<>> \in Seq(Transactions)
    OBVIOUS
  <2>3. PerformsAll(<<>>, <<>>)
    BY DEF PerformsAll
  <2>4. Does(ts, k[0].bus, OnBus(SubSeq(x, 1, 0)))
    BY <2>1, <2>2, <2>3, OnBusEmpty, Zenon DEF Does
  <2> QED
    BY <2>4
<1>6. ASSUME NEW i \in 1 .. n, i - 1 \in Q PROVE i \in Q
  <2>1. i - 1 \in 0 .. n /\ i \in 0 .. n /\ k[i - 1] \in StateType
    BY <1>3
  <2>2. PICK us \in Seq(Transactions) : k[i - 1].bus = ts \o us /\ PerformsAll(us, OnBus(SubSeq(x, 1, i - 1)))
    BY <1>6 DEF Does
  <2>3. PICK a \in AccessType : a = Accesses(rec)[i]
    BY <1>1
  <2>4. rec.lanes \in LaneSets
    BY DEF Requests
  <2>5. k[i].bus = AccessBus(k[i - 1], a, rec.lanes)
    BY <1>4, <2>1, <2>3, <2>4, AccessStep
  <2>6. /\ SubSeq(x, 1, i - 1) \in Seq(Operation) /\ x[i] \in Operation
        /\ SubSeq(x, 1, i) = Append(SubSeq(x, 1, i - 1), x[i])
    BY <1>2
  <2>7. x[i].cfg = a.cfg /\ (~x[i].cfg => Denotes(a, rec.lanes, x[i]))
    BY <1>2, <2>3, Zenon DEF Matches
  <2>8. OnBus(SubSeq(x, 1, i)) = IF x[i].cfg THEN OnBus(SubSeq(x, 1, i - 1))
                                 ELSE Append(OnBus(SubSeq(x, 1, i - 1)), x[i])
    BY <2>6, OnBusAppend
  <2>9. Does(ts, k[i].bus, OnBus(SubSeq(x, 1, i)))
    <3>1. CASE a.cfg
      BY <2>2, <2>5, <2>7, <2>8, <3>1, Zenon DEF AccessBus, Does
    <3>2. CASE ~a.cfg
      <4>1. PICK m \in Nat : m = Len(k[i - 1].bus) + 1
        BY <2>1 DEF StateType
      <4>2. PICK t \in Transactions : t = Transaction(a, rec.lanes, m)
        BY <2>4, TransactionFacts
      <4>3. Performs(t, x[i])
        BY <2>7, <3>2, <4>2, DenotesPerforms
      <4>4. OnBus(SubSeq(x, 1, i - 1)) \in Seq(Operation)
        BY <2>6, OnBusIs
      <4>5. PerformsAll(Append(us, t), Append(OnBus(SubSeq(x, 1, i - 1)), x[i]))
        BY <2>2, <2>6, <4>3, <4>4, PerformsAppend
      <4>6. Append(us, t) \in Seq(Transactions) /\ Append(ts \o us, t) = ts \o Append(us, t)
        <5>1. AppendsBehind(ts, us, t)
          BY AppendConcat
        <5> QED
          BY <5>1, Longer, Zenon DEF AppendsBehind
      <4>7. k[i].bus = ts \o Append(us, t)
        BY <2>2, <2>5, <3>2, <4>1, <4>2, <4>6, Zenon DEF AccessBus
      <4> QED
        BY <2>7, <2>8, <3>2, <4>5, <4>6, <4>7, Zenon DEF Does
    <3> QED
      BY <3>1, <3>2
  <2> QED
    BY <2>1, <2>9
<1> HIDE DEF Q
<1>7. 0 .. n \subseteq Q
  BY <1>5, <1>6, IntervalInd
<1>8. n \in 0 .. n /\ SubSeq(x, 1, n) = x
  BY <1>2
<1>9. Does(ts, k[n].bus, OnBus(SubSeq(x, 1, n)))
  BY <1>7, <1>8 DEF Q
<1>10. k[n] \in StateType
  BY <1>3, <1>8
<1> QED
  BY <1>2, <1>4, <1>8, <1>9, <1>10, Zenon

-----------------------------------------------------------------------------
(* What a list of records stands for *)

\* A relation between lists of records and of operations that grows with both.
Closed(Q) ==
    /\ <<<<>>, <<>>>> \in Q
    /\ \A r \in Seq(Requests), o \in Seq(Operation), rec \in Requests, x \in Seq(Operation) :
         <<r, o>> \in Q /\ Stands(rec, x) => <<Append(r, rec), o \o x>> \in Q

\* The least such relation: the records recs stand for ops.
StandsAll(recs, ops) ==
    \A Q \in SUBSET (Seq(Requests) \X Seq(Operation)) : Closed(Q) => <<recs, ops>> \in Q

\* No records stand for no operations.
LEMMA StandsEmpty == StandsAll(<<>>, <<>>)
  BY Zenon DEF StandsAll, Closed

\* One record more stands for its operations more.
LEMMA StandsAppend ==
    ASSUME NEW r \in Seq(Requests), NEW o \in Seq(Operation), StandsAll(r, o),
           NEW rec \in Requests, NEW x \in Seq(Operation), Stands(rec, x)
    PROVE  StandsAll(Append(r, rec), o \o x)
<1> SUFFICES ASSUME NEW Q \in SUBSET (Seq(Requests) \X Seq(Operation)), Closed(Q)
             PROVE  <<Append(r, rec), o \o x>> \in Q
  BY Zenon DEF StandsAll
<1>1. <<r, o>> \in Q
  BY Zenon DEF StandsAll
<1> QED
  BY <1>1, Zenon DEF Closed

\* It relates lists of records and of operations.
LEMMA StandsTyped ==
    ASSUME NEW r, NEW o, StandsAll(r, o)
    PROVE  r \in Seq(Requests) /\ o \in Seq(Operation)
<1> DEFINE Q == Seq(Requests) \X Seq(Operation)
<1>1. Closed(Q)
  <2>1. <<>> \in Seq(Requests) /\ <<>> \in Seq(Operation)
    BY Nothing
  <2>2. \A x \in Seq(Requests), rec \in Requests : Append(x, rec) \in Seq(Requests)
    BY Longer
  <2>3. \A x \in Seq(Operation), y \in Seq(Operation) : x \o y \in Seq(Operation)
    BY Chain
  <2> QED
    BY <2>1, <2>2, <2>3 DEF Closed
<1>2. Q \in SUBSET Q
  OBVIOUS
<1>3. <<r, o>> \in Q
  BY <1>1, <1>2, Zenon DEF StandsAll
<1> QED
  BY <1>3

\* The brackets do not matter.
Regroups(s, t, u) == s \o (t \o u) = (s \o t) \o u

\* Concatenation is associative.
LEMMA Regrouping ==
    ASSUME NEW T, NEW s \in Seq(T), NEW t \in Seq(T), NEW u \in Seq(T)
    PROVE  Regroups(s, t, u)
  BY DEF Regroups

\* Two lists of records, one after the other.
LEMMA StandsConcat ==
    ASSUME NEW a, NEW x, StandsAll(a, x), NEW b, NEW y, StandsAll(b, y)
    PROVE  StandsAll(a \o b, x \o y)
<1>1. a \in Seq(Requests) /\ x \in Seq(Operation) /\ b \in Seq(Requests) /\ y \in Seq(Operation)
  BY StandsTyped
<1> DEFINE Q == {p \in Seq(Requests) \X Seq(Operation) : StandsAll(a \o p[1], x \o p[2])}
<1>2. <<<<>>, <<>>>> \in Q
  <2>1. <<>> \in Seq(Requests) /\ <<>> \in Seq(Operation)
    BY Nothing
  <2>2. a \o <<>> = a /\ x \o <<>> = x
    BY <1>1, ConcatEmpty
  <2>3. StandsAll(a \o <<>>, x \o <<>>)
    BY <2>2, Zenon
  <2> QED
    BY <2>1, <2>3
<1>3. ASSUME NEW r \in Seq(Requests), NEW o \in Seq(Operation), NEW rec \in Requests,
             NEW z \in Seq(Operation), <<r, o>> \in Q, Stands(rec, z)
      PROVE  <<Append(r, rec), o \o z>> \in Q
  <2>1. StandsAll(a \o r, x \o o)
    BY <1>3
  <2>2. a \o r \in Seq(Requests) /\ x \o o \in Seq(Operation) /\ o \o z \in Seq(Operation)
    BY <1>1, Chain
  <2>3. StandsAll(Append(a \o r, rec), (x \o o) \o z)
    BY <1>3, <2>1, <2>2, StandsAppend
  <2>4. Append(a \o r, rec) = a \o Append(r, rec)
    <3>1. AppendsBehind(a, r, rec)
      BY <1>1, AppendConcat
    <3> QED
      BY <3>1, Zenon DEF AppendsBehind
  <2>5. x \o (o \o z) = (x \o o) \o z
    <3>1. Regroups(x, o, z)
      BY <1>1, Regrouping
    <3> QED
      BY <3>1, Zenon DEF Regroups
  <2>6. StandsAll(a \o Append(r, rec), x \o (o \o z))
    BY <2>3, <2>4, <2>5, Zenon
  <2>7. Append(r, rec) \in Seq(Requests)
    BY Longer
  <2> QED
    BY <2>2, <2>6, <2>7
<1>4. Closed(Q)
  <2> HIDE DEF Q
  <2> QED
    BY <1>2, <1>3, Zenon DEF Closed
<1>5. Q \in SUBSET (Seq(Requests) \X Seq(Operation))
  OBVIOUS
<1>6. <<b, y>> \in Q
  BY <1>4, <1>5, Zenon DEF StandsAll
<1> QED
  BY <1>6

\* The first record stands for the first operations, the others for the rest.
HeadStands(r, o) ==
    \E x \in Seq(Operation), y \in Seq(Operation) :
        o = x \o y /\ Stands(Head(r), x) /\ StandsAll(Tail(r), y)

\* A stream of records can be taken up one record at a time.
LEMMA StandsHead ==
    ASSUME NEW r, NEW o, StandsAll(r, o), r # <<>>
    PROVE  HeadStands(r, o)
<1> DEFINE Q == {p \in Seq(Requests) \X Seq(Operation) :
                    StandsAll(p[1], p[2]) /\ (p[1] # <<>> => HeadStands(p[1], p[2]))}
<1>1. <<<<>>, <<>>>> \in Q
  <2>1. <<>> \in Seq(Requests) /\ <<>> \in Seq(Operation)
    BY Nothing
  <2> QED
    BY <2>1, StandsEmpty
<1>2. ASSUME NEW a \in Seq(Requests), NEW b \in Seq(Operation), NEW rec \in Requests,
             NEW z \in Seq(Operation), <<a, b>> \in Q, Stands(rec, z)
      PROVE  <<Append(a, rec), b \o z>> \in Q
  <2>1. StandsAll(a, b) /\ (a # <<>> => HeadStands(a, b))
    BY <1>2
  <2>2. StandsAll(Append(a, rec), b \o z)
    BY <1>2, <2>1, StandsAppend
  <2>3. Append(a, rec) \in Seq(Requests) /\ b \o z \in Seq(Operation)
    BY Longer, Chain
  <2>4. HeadStands(Append(a, rec), b \o z)
    <3>1. CASE a = <<>>
      <4>1. b = <<>>
        <5> DEFINE P == {p \in Seq(Requests) \X Seq(Operation) : p[1] = <<>> => p[2] = <<>>}
        <5>1. <<<<>>, <<>>>> \in P
          BY Nothing
        <5>2. ASSUME NEW c \in Seq(Requests), NEW d \in Seq(Operation), NEW q \in Requests, NEW e \in Seq(Operation)
              PROVE  <<Append(c, q), d \o e>> \in P
          <6>1. Append(c, q) \in Seq(Requests) /\ Len(Append(c, q)) = Len(c) + 1 /\ Len(c) \in Nat
            BY Longer
          <6>2. d \o e \in Seq(Operation)
            BY Chain
          <6>3. Append(c, q) # <<>>
            <7>1. PICK m \in Nat : m = Len(c)
              BY <6>1
            <7>2. m + 1 # 0
              OBVIOUS
            <7>3. Len(<<>>) = 0
              OBVIOUS
            <7> QED
              BY <6>1, <7>1, <7>2, <7>3, Zenon
          <6> QED
            BY <6>1, <6>2, <6>3
        <5>3. P \in SUBSET (Seq(Requests) \X Seq(Operation))
          OBVIOUS
        <5>4. Closed(P)
          <6> HIDE DEF P
          <6> QED
            BY <5>1, <5>2, Zenon DEF Closed
        <5>5. <<a, b>> \in P
          BY <2>1, <5>3, <5>4, Zenon DEF StandsAll
        <5> QED
          BY <3>1, <5>5
      <4>2. Append(a, rec) = <<rec>> /\ Head(<<rec>>) = rec /\ Tail(<<rec>>) = <<>>
        BY <3>1
      <4>3. b \o z = z /\ z \o <<>> = z
        BY <4>1
      <4>4. <<>> \in Seq(Operation)
        BY Nothing
      <4> QED
        BY <1>2, <4>2, <4>3, <4>4, StandsEmpty, Zenon DEF HeadStands
    <3>2. CASE a # <<>>
      <4>1. PICK x \in Seq(Operation), y \in Seq(Operation) :
               b = x \o y /\ Stands(Head(a), x) /\ StandsAll(Tail(a), y)
        BY <2>1, <3>2, Zenon DEF HeadStands
      <4>2. Head(Append(a, rec)) = Head(a) /\ Tail(Append(a, rec)) = Append(Tail(a), rec) /\ Tail(a) \in Seq(Requests)
        BY <3>2
      <4>3. StandsAll(Append(Tail(a), rec), y \o z)
        BY <1>2, <4>1, <4>2, StandsAppend
      <4>4. x \o (y \o z) = (x \o y) \o z
        <5>1. Regroups(x, y, z)
          BY Regrouping
        <5> QED
          BY <5>1, Zenon DEF Regroups
      <4>5. y \o z \in Seq(Operation)
        BY Chain
      <4>6. b \o z = x \o (y \o z)
        BY <4>1, <4>4, Zenon
      <4> QED
        BY <4>1, <4>2, <4>3, <4>5, <4>6, Zenon DEF HeadStands
    <3> QED
      BY <3>1, <3>2
  <2> QED
    BY <2>2, <2>3, <2>4
<1>3. Closed(Q)
  <2> HIDE DEF Q
  <2> QED
    BY <1>1, <1>2, Zenon DEF Closed
<1>4. Q \in SUBSET (Seq(Requests) \X Seq(Operation))
  OBVIOUS
<1>5. <<r, o>> \in Q
  BY <1>3, <1>4, Zenon DEF StandsAll
<1> QED
  BY <1>5

\* Execute gives a state.
LEMMA ExecuteTyped ==
    ASSUME NEW rec \in Requests, NEW error \in Nat, NEW ts \in Seq(Transactions)
    PROVE  Execute(rec, error, ts) \in StateType /\ Execute(rec, error, ts).bus \in Seq(Transactions)
<1>1. PICK n \in Nat : n = Len(Accesses(rec))
  BY AccessFacts, Indices DEF AccessList
<1>2. PICK k \in [0 .. n -> StateType] : ExecuteSteps(k, rec, error, ts)
  BY <1>1, ExecuteRec
<1>3. Execute(rec, error, ts) = k[n]
  BY <1>1, <1>2, Zenon DEF ExecuteSteps
<1>4. k[n] \in StateType
  BY <1>2
<1> QED
  BY <1>3, <1>4 DEF StateType

\* The transactions of the first 0, 1, ... records.
MeaningSteps(k, recs) ==
    /\ k[0] = <<>>
    /\ \A i \in 1 .. Len(recs) : k[i] = Execute(recs[i], 0, k[i - 1]).bus
    /\ Meaning(recs) = k[Len(recs)]

\* The recursion of Meaning defines a function.
LEMMA MeaningRec ==
    ASSUME NEW recs \in Seq(Requests)
    PROVE  \E k \in [0 .. Len(recs) -> Seq(Transactions)] : MeaningSteps(k, recs)
<1> DEFINE n == Len(recs)
           V == Seq(Transactions)
           z == <<>>
           S(v, i) == Execute(recs[i], 0, v).bus
           h == [i \in 1 .. n |-> [v \in V |-> S(v, i)]]
           B(k, i) == IF i = 0 THEN z ELSE S(k[i - 1], i)
           E(k) == k = [i \in 0 .. n |-> B(k, i)]
<1>1. n \in Nat /\ z \in V
  BY Nothing, Indices
<1>2. \A i \in 1 .. n, v \in V : S(v, i) \in V
  <2> SUFFICES ASSUME NEW i \in 1 .. Len(recs), NEW v \in Seq(Transactions)
               PROVE  Execute(recs[i], 0, v).bus \in Seq(Transactions)
    BY Zenon
  <2>1. recs[i] \in Requests
    OBVIOUS
  <2> QED
    BY <2>1, ExecuteTyped
<1> DEFINE k == CHOOSE g : E(g)
<1>3. Meaning(recs) = k[n]
  BY Zenon DEF Meaning
<1> HIDE DEF S, V, z, n
<1>4. h \in [1 .. n -> [V -> V]]
  BY <1>2
<1>5. PICK f \in [0 .. n -> V] : f[0] = z /\ \A i \in 1 .. n : f[i] = h[i][f[i - 1]]
  <2> HIDE DEF h
  <2>1. HasRun(V, z, n, h)
    BY <1>1, <1>4, RunExists, Zenon
  <2> QED
    BY <2>1, Zenon DEF HasRun
<1>6. \A i \in 1 .. n : i - 1 \in 0 .. n /\ i \in 0 .. n /\ i # 0
  BY <1>1
<1>7. E(f)
  <2>1. \A i \in 1 .. n : f[i] = S(f[i - 1], i)
    BY <1>5, <1>6
  <2>2. \A i \in 0 .. n : i = 0 \/ i \in 1 .. n
    BY <1>1
  <2>3. \A i \in 0 .. n : f[i] = B(f, i)
    BY <1>5, <1>6, <2>1, <2>2, Zenon
  <2> HIDE DEF B
  <2> QED
    BY <2>3
<1>8. E(k)
  BY <1>7
<1> HIDE DEF k
<1>9. k[0] = z /\ \A i \in 1 .. n : k[i] = S(k[i - 1], i)
  <2>1. \A i \in 0 .. n : k[i] = B(k, i)
    <3> HIDE DEF B
    <3> QED
      BY <1>8, Zenon
  <2>2. 0 \in 0 .. n
    BY <1>1
  <2> QED
    BY <1>6, <2>1, <2>2, Zenon
<1>10. \A i \in 0 .. n : k[i] \in V
  <2>1. \A i \in 1 .. n : k[i - 1] \in V => k[i] \in V
    BY <1>2, <1>9, Zenon
  <2>2. k[0] \in V
    BY <1>1, <1>9, Zenon
  <2> QED
    BY <1>1, <2>1, <2>2, TypedSteps
<1>11. k \in [0 .. n -> V]
  <2> HIDE DEF B
  <2>1. k = [i \in 0 .. n |-> k[i]]
    BY <1>8, Zenon
  <2> QED
    BY <1>10, <2>1, Zenon
<1> QED
  BY <1>3, <1>9, <1>11, Zenon DEF MeaningSteps, n, V, z, S

\* Meaning, record by record.
LEMMA MeaningAppend ==
    ASSUME NEW recs \in Seq(Requests), NEW rec \in Requests
    PROVE  Meaning(recs) \in Seq(Transactions) /\ Meaning(Append(recs, rec)) = Execute(rec, 0, Meaning(recs)).bus
<1> DEFINE n == Len(recs)
<1>0. PICK t \in Seq(Requests) : t = Append(recs, rec)
  BY Longer
<1>1. n \in Nat /\ Len(t) = n + 1 /\ t[n + 1] = rec /\ \A i \in 1 .. n : t[i] = recs[i]
  BY <1>0, Longer
<1>2. PICK g \in [0 .. n -> Seq(Transactions)] : MeaningSteps(g, recs)
  BY MeaningRec
<1>3. PICK k \in [0 .. Len(t) -> Seq(Transactions)] : MeaningSteps(k, t)
  BY MeaningRec
<1>4. \A i \in 0 .. n : k[i] = g[i]
  <2> DEFINE Q == {i \in 0 .. n : k[i] = g[i]}
  <2>1. 0 \in Q
    BY <1>1, <1>2, <1>3 DEF MeaningSteps
  <2>2. ASSUME NEW i \in 1 .. n, i - 1 \in Q PROVE i \in Q
    <3>1. i \in 0 .. n /\ i \in 1 .. Len(t) /\ k[i - 1] = g[i - 1]
      BY <1>1, <2>2
    <3>2. k[i] = g[i]
      BY <1>1, <1>2, <1>3, <3>1, Zenon DEF MeaningSteps
    <3> QED
      BY <3>1, <3>2
  <2> HIDE DEF Q
  <2>3. 0 .. n \subseteq Q
    BY <1>1, <2>1, <2>2, IntervalInd
  <2> QED
    BY <2>3 DEF Q
<1>5. n + 1 \in 1 .. Len(t) /\ (n + 1) - 1 = n /\ n \in 0 .. n
  BY <1>1
<1>6. k[n + 1] = Execute(rec, 0, k[n]).bus /\ k[n] = g[n]
  BY <1>1, <1>3, <1>4, <1>5, Zenon DEF MeaningSteps
<1>7. Meaning(t) = k[n + 1] /\ Meaning(recs) = g[n]
  BY <1>1, <1>2, <1>3, Zenon DEF MeaningSteps
<1>8. g[n] \in Seq(Transactions)
  BY <1>2, <1>5
<1> QED
  BY <1>0, <1>6, <1>7, <1>8, Zenon

\* No records mean nothing.
LEMMA MeaningEmpty == Meaning(<<>>) = <<>>
<1>1. PICK s \in Seq(Requests) : s = <<>> /\ Len(s) = 0
  BY Nothing
<1>2. PICK g \in [0 .. Len(s) -> Seq(Transactions)] : MeaningSteps(g, s)
  BY MeaningRec
<1> QED
  BY <1>1, <1>2, Zenon DEF MeaningSteps

\* What records stand for is what they mean.
LEMMA StandsMeaning ==
    ASSUME NEW r, NEW o, StandsAll(r, o)
    PROVE  PerformsAll(Meaning(r), o)
<1> DEFINE Q == {p \in Seq(Requests) \X Seq(Operation) : PerformsAll(Meaning(p[1]), p[2])}
<1>1. <<<<>>, <<>>>> \in Q
  <2>1. PerformsAll(<<>>, <<>>)
    BY DEF PerformsAll
  <2>2. PerformsAll(Meaning(<<>>), <<>>)
    BY <2>1, MeaningEmpty, Zenon
  <2>3. <<>> \in Seq(Requests) /\ <<>> \in Seq(Operation)
    BY Nothing
  <2> QED
    BY <2>2, <2>3
<1>2. ASSUME NEW a \in Seq(Requests), NEW b \in Seq(Operation), NEW rec \in Requests,
             NEW z \in Seq(Operation), <<a, b>> \in Q, Stands(rec, z)
      PROVE  <<Append(a, rec), b \o z>> \in Q
  <2>1. PerformsAll(Meaning(a), b)
    BY <1>2
  <2>2. Meaning(a) \in Seq(Transactions) /\ Meaning(Append(a, rec)) = Execute(rec, 0, Meaning(a)).bus
    BY MeaningAppend
  <2>3. Does(Meaning(a), Execute(rec, 0, Meaning(a)).bus, z)
    BY <1>2, <2>2, ExecuteDoes, 0 \in Nat
  <2>4. PICK us \in Seq(Transactions) : Meaning(Append(a, rec)) = Meaning(a) \o us /\ PerformsAll(us, z)
    BY <2>2, <2>3, Zenon DEF Does
  <2>5. PerformsAll(Meaning(a) \o us, b \o z)
    BY <2>1, <2>2, <2>4, PerformsConcat
  <2>6. PerformsAll(Meaning(Append(a, rec)), b \o z)
    BY <2>4, <2>5, Zenon
  <2>7. Append(a, rec) \in Seq(Requests) /\ b \o z \in Seq(Operation)
    BY Longer, Chain
  <2> QED
    BY <2>6, <2>7
<1>3. Closed(Q)
  <2> HIDE DEF Q
  <2> QED
    BY <1>1, <1>2, Zenon DEF Closed
<1>4. Q \in SUBSET (Seq(Requests) \X Seq(Operation))
  OBVIOUS
<1>5. <<r, o>> \in Q
  BY <1>3, <1>4, Zenon DEF StandsAll
<1> QED
  BY <1>5

-----------------------------------------------------------------------------
(* The operations of the accepted cycles *)

\* Sent and Accepted for cycles cs with statuses st.
SentOf(cs, st, c) ==
    IF Objections(cs[c]) # {} \/ st[c] = "OVERFLOW" THEN <<>> ELSE OnBus(cs[c])
AcceptedOf(cs, st, a, b) == FlattenSeq([i \in 1 .. b - a + 1 |-> SentOf(cs, st, a + i - 1)])

\* A cycle sends operations.
LEMMA SentTyped ==
    ASSUME NEW cs \in Seq(Seq(Operation)), NEW st, NEW c \in 1 .. Len(cs)
    PROVE  SentOf(cs, st, c) \in Seq(Operation)
<1>1. cs[c] \in Seq(Operation)
  <2> DEFINE S == Seq(Operation)
  <2>1. cs \in Seq(S)
    OBVIOUS
  <2> HIDE DEF S
  <2>2. cs[c] \in S
    BY <2>1
  <2> QED
    BY <2>2 DEF S
<1> QED
  BY <1>1, OnBusIs, Nothing DEF SentOf

\* No cycles send nothing.
LEMMA AcceptedNone ==
    ASSUME NEW cs, NEW st, NEW a \in Nat
    PROVE  AcceptedOf(cs, st, a, a - 1) = <<>>
<1>1. 1 .. (a - 1) - a + 1 = {}
  OBVIOUS
<1> DEFINE f == [i \in 1 .. (a - 1) - a + 1 |-> SentOf(cs, st, a + i - 1)]
<1>2. f = <<>>
  BY <1>1
<1>3. AcceptedOf(cs, st, a, a - 1) = FlattenSeq(f)
  BY Zenon DEF AcceptedOf
<1> HIDE DEF f
<1> QED
  BY <1>2, <1>3, FlattenEmpty, Zenon

\* One cycle more.
LEMMA AcceptedStep ==
    ASSUME NEW cs \in Seq(Seq(Operation)), NEW st, NEW a \in 1 .. Len(cs), NEW b \in a .. Len(cs)
    PROVE  /\ AcceptedOf(cs, st, a, b - 1) \in Seq(Operation)
           /\ AcceptedOf(cs, st, a, b) \in Seq(Operation)
           /\ AcceptedOf(cs, st, a, b) = AcceptedOf(cs, st, a, b - 1) \o SentOf(cs, st, b)
<1>1. PICK n \in Nat : n = Len(cs) /\ a \in 1 .. n /\ b \in a .. n
  BY Indices
<1> DEFINE S == Seq(Operation)
           k == b - a
           s == [i \in 1 .. (b - 1) - a + 1 |-> SentOf(cs, st, a + i - 1)]
           t == [i \in 1 .. b - a + 1 |-> SentOf(cs, st, a + i - 1)]
<1>2. k \in Nat /\ (b - 1) - a + 1 = k /\ b - a + 1 = k + 1 /\ a + (k + 1) - 1 = b
  BY <1>1
<1>3. \A i \in 1 .. k + 1 : SentOf(cs, st, a + i - 1) \in S
  <2> TAKE i \in 1 .. k + 1
  <2>1. a + i - 1 \in 1 .. n
    BY <1>1
  <2> QED
    BY <1>1, <2>1, SentTyped
<1>4. SentOf(cs, st, b) \in S
  BY <1>1, SentTyped
<1>5. AcceptedOf(cs, st, a, b - 1) = FlattenSeq(s) /\ AcceptedOf(cs, st, a, b) = FlattenSeq(t)
  BY Zenon DEF AcceptedOf
<1> HIDE DEF S, k
<1>6. /\ s = [i \in 1 .. k |-> SentOf(cs, st, a + i - 1)]
      /\ t = [i \in 1 .. k + 1 |-> SentOf(cs, st, a + i - 1)]
  BY <1>2, Zenon
<1> HIDE DEF s, t
<1>7. s \in Seq(S) /\ t = Append(s, SentOf(cs, st, b))
  <2>0. \A i \in 1 .. k : SentOf(cs, st, a + i - 1) \in S
    <3>1. \A i \in 1 .. k : i \in 1 .. k + 1
      BY <1>2
    <3> QED
      BY <1>3, <3>1, Zenon
  <2>1. s \in Seq(S) /\ Len(s) = k
    BY <1>2, <2>0, <1>6
  <2>2. t \in Seq(S) /\ Len(t) = k + 1
    BY <1>2, <1>3, <1>6
  <2>3. t[k + 1] = SentOf(cs, st, b)
    <3>1. k + 1 \in 1 .. k + 1
      BY <1>2
    <3>2. t[k + 1] = SentOf(cs, st, a + (k + 1) - 1)
      BY <1>6, <3>1
    <3> QED
      BY <1>2, <3>2, Zenon
  <2>4. \A i \in 1 .. k : t[i] = s[i]
    <3>1. \A i \in 1 .. k : i \in 1 .. k + 1
      BY <1>2
    <3> QED
      BY <1>6, <3>1
  <2>5. PICK e \in S : e = SentOf(cs, st, b)
    BY <1>4
  <2>6. t = Append(s, e)
    BY <1>2, <2>1, <2>2, <2>3, <2>4, <2>5
  <2> QED
    BY <2>1, <2>5, <2>6, Zenon
<1>8. FlattenSeq(s) \in S /\ FlattenSeq(Append(s, SentOf(cs, st, b))) \in S
      /\ FlattenSeq(Append(s, SentOf(cs, st, b))) = FlattenSeq(s) \o SentOf(cs, st, b)
  BY <1>4, <1>7, FlattenAppend DEF S
<1> QED
  BY <1>5, <1>7, <1>8, Zenon DEF S

\* The operations of some cycles are operations.
LEMMA AcceptedTyped ==
    ASSUME NEW cs \in Seq(Seq(Operation)), NEW st, NEW a \in 1 .. Len(cs) + 1, NEW b \in a - 1 .. Len(cs)
    PROVE  AcceptedOf(cs, st, a, b) \in Seq(Operation)
<1>1. PICK n \in Nat : n = Len(cs) /\ a \in 1 .. n + 1 /\ b \in a - 1 .. n /\ a \in Nat
  BY Indices
<1>2. CASE b = a - 1
  BY <1>1, <1>2, AcceptedNone, Nothing
<1>3. CASE b # a - 1
  <2>1. a \in 1 .. n /\ b \in a .. n
    BY <1>1, <1>3
  <2> QED
    BY <1>1, <2>1, AcceptedStep
<1> QED
  BY <1>2, <1>3

\* Only what is rejected or overflows matters of a status.
LEMMA AcceptedSame ==
    ASSUME NEW cs, NEW st, NEW su, NEW a \in Nat, NEW b \in Int, 1 <= a,
           \A c \in 1 .. b : (st[c] = "OVERFLOW") <=> (su[c] = "OVERFLOW")
    PROVE  AcceptedOf(cs, st, a, b) = AcceptedOf(cs, su, a, b)
<1>1. \A c \in 1 .. b : SentOf(cs, st, c) = SentOf(cs, su, c)
  BY Zenon DEF SentOf
<1>2. \A i \in 1 .. b - a + 1 : a + i - 1 \in 1 .. b
  OBVIOUS
<1>3. [i \in 1 .. b - a + 1 |-> SentOf(cs, st, a + i - 1)] = [i \in 1 .. b - a + 1 |-> SentOf(cs, su, a + i - 1)]
  BY <1>1, <1>2
<1> QED
  BY <1>3, Zenon DEF AcceptedOf

BareAll(cs) == [c \in 1 .. Len(cs) |-> Bares(cs[c])]

\* The cycles without what is stored in them later.
LEMMA BareAllFacts ==
    ASSUME NEW cs \in Seq(Seq(Operation))
    PROVE  /\ BareAll(cs) \in Seq(Seq(Operation)) /\ Len(BareAll(cs)) = Len(cs)
           /\ \A c \in 1 .. Len(cs) : cs[c] \in Seq(Operation) /\ BareAll(cs)[c] = Bares(cs[c])
<1> DEFINE S == Seq(Operation)
<1>1. \A c \in 1 .. Len(cs) : cs[c] \in S
  <2>1. cs \in Seq(S)
    OBVIOUS
  <2> HIDE DEF S
  <2> QED
    BY <2>1
<1>2. \A c \in 1 .. Len(cs) : Bares(cs[c]) \in S
  BY <1>1, BaresFacts
<1>3. Len(cs) \in Nat
  OBVIOUS
<1> HIDE DEF S
<1>4. /\ BareAll(cs) \in Seq(S) /\ Len(BareAll(cs)) = Len(cs)
      /\ \A c \in 1 .. Len(cs) : BareAll(cs)[c] = Bares(cs[c])
  BY <1>2, <1>3 DEF BareAll
<1> QED
  BY <1>1, <1>4 DEF S

\* The checks find the same.
LEMMA ObjectionsBares ==
    ASSUME NEW s \in Seq(Operation)
    PROVE  Objections(Bares(s)) = Objections(s)
<1>1. /\ Bares(s) \in Seq(Operation) /\ Len(Bares(s)) = Len(s)
      /\ \A i \in 1 .. Len(s) : SameFor(s[i], Bares(s)[i])
  BY BaresFacts
<1>2. \A i \in 1 .. Len(s) : Objection(Bares(s)[i]) = Objection(s[i])
  BY <1>1, SameMeaning
<1>3. DOMAIN s = 1 .. Len(s) /\ DOMAIN Bares(s) = 1 .. Len(s)
  BY <1>1, Indices
<1>4. /\ Objections(s) = {i \in 1 .. Len(s) : Objection(s[i]) # "none"}
      /\ Objections(Bares(s)) = {i \in 1 .. Len(s) : Objection(Bares(s)[i]) # "none"}
  BY <1>3, Zenon DEF Objections
<1> QED
  BY <1>2, <1>4

\* Two lists of operations, one after the other, without what is stored later.
LEMMA BaresConcat ==
    ASSUME NEW s \in Seq(Operation), NEW t \in Seq(Operation)
    PROVE  Bares(s \o t) = Bares(s) \o Bares(t)
<1>1. PICK m \in Nat : m = Len(s) /\ DOMAIN s = 1 .. m
  BY Indices
<1>2. PICK n \in Nat : n = Len(t) /\ DOMAIN t = 1 .. n
  BY Indices
<1>3. PICK u \in Seq(Operation) : u = s \o t
  BY Chain
<1>4. /\ Len(u) = m + n /\ (\A i \in 1 .. m : u[i] = s[i]) /\ \A i \in 1 .. n : u[m + i] = t[i]
  BY <1>1, <1>2, <1>3, Chain DEF IsChain
<1>5. PICK a \in Seq(Operation) : a = Bares(s) /\ Len(a) = m /\ \A i \in 1 .. m : a[i] = Bare(s[i])
  BY <1>1, BaresFacts
<1>6. PICK b \in Seq(Operation) : b = Bares(t) /\ Len(b) = n /\ \A i \in 1 .. n : b[i] = Bare(t[i])
  BY <1>2, BaresFacts
<1>7. PICK d \in Seq(Operation) : d = Bares(u) /\ Len(d) = m + n /\ \A i \in 1 .. m + n : d[i] = Bare(u[i])
  BY <1>4, BaresFacts, ZenonT(60)
<1>8. PICK e \in Seq(Operation) : e = a \o b
  BY Chain
<1>9. /\ Len(e) = m + n /\ (\A i \in 1 .. m : e[i] = a[i]) /\ \A i \in 1 .. n : e[m + i] = b[i]
  <2>1. IsChain(e, a, b, m, n)
    <3>1. IsChain(a \o b, a, b, Len(a), Len(b))
      BY Chain
    <3> QED
      BY <3>1, <1>5, <1>6, <1>8, Zenon
  <2> QED
    BY <2>1 DEF IsChain
<1>10. ASSUME NEW i \in 1 .. m + n PROVE d[i] = e[i]
  <2>1. CASE i \in 1 .. m
    BY <2>1, <1>4, <1>5, <1>7, <1>9
  <2>2. CASE i \notin 1 .. m
    <3>1. PICK j \in 1 .. n : i = m + j
      <4>1. i - m \in 1 .. n /\ i = m + (i - m)
        BY <2>2
      <4> QED
        BY <4>1
    <3>2. e[i] = Bare(t[j]) /\ u[i] = t[j]
      BY <3>1, <1>4, <1>6, <1>9
    <3> QED
      BY <3>2, <1>7
  <2> QED
    BY <2>1, <2>2
<1>11. d = e
  BY <1>7, <1>9, <1>10
<1> QED
  BY <1>3, <1>5, <1>6, <1>7, <1>8, <1>11, Zenon

\* What a cycle sends, without what is stored later.
LEMMA SentBares ==
    ASSUME NEW cs \in Seq(Seq(Operation)), NEW st, NEW c \in 1 .. Len(cs)
    PROVE  SentOf(BareAll(cs), st, c) = Bares(SentOf(cs, st, c))
<1>1. cs[c] \in Seq(Operation) /\ BareAll(cs)[c] = Bares(cs[c])
  BY BareAllFacts
<1>2. Objections(BareAll(cs)[c]) = Objections(cs[c]) /\ OnBus(BareAll(cs)[c]) = Bares(OnBus(cs[c]))
  BY <1>1, ObjectionsBares, OnBusBares
<1>3. Bares(<<>>) = <<>>
  BY DEF Bares
<1> QED
  BY <1>2, <1>3, Zenon DEF SentOf

\* What some cycles send, without what is stored later.
LEMMA AcceptedBares ==
    ASSUME NEW cs \in Seq(Seq(Operation)), NEW st, NEW a \in 1 .. Len(cs) + 1, NEW b \in a - 1 .. Len(cs)
    PROVE  AcceptedOf(BareAll(cs), st, a, b) = Bares(AcceptedOf(cs, st, a, b))
<1>1. PICK n \in Nat : n = Len(cs) /\ a \in 1 .. n + 1 /\ b \in a - 1 .. n /\ a \in Nat
  BY Indices
<1> DEFINE bare == BareAll(cs)
           m == (n + 1) - a
           S == {k \in 0 .. m : AcceptedOf(bare, st, a, (a - 1) + k) = Bares(AcceptedOf(cs, st, a, (a - 1) + k))}
<1>2. m \in Nat /\ (a - 1) + 0 = a - 1 /\ b - (a - 1) \in 0 .. m /\ b = (a - 1) + (b - (a - 1))
  BY <1>1
<1>3. bare \in Seq(Seq(Operation)) /\ Len(bare) = n
  BY <1>1, BareAllFacts
<1> HIDE DEF bare, m
<1>4. 0 \in S
  <2>1. Bares(<<>>) = <<>>
    BY DEF Bares
  <2>2. AcceptedOf(bare, st, a, a - 1) = <<>> /\ AcceptedOf(cs, st, a, a - 1) = <<>>
    BY <1>1, AcceptedNone
  <2>3. AcceptedOf(bare, st, a, (a - 1) + 0) = Bares(AcceptedOf(cs, st, a, (a - 1) + 0))
    BY <1>2, <2>1, <2>2, Zenon
  <2>4. 0 \in 0 .. m
    BY <1>2
  <2> QED
    BY <2>3, <2>4
<1>5. ASSUME NEW i \in 1 .. m, i - 1 \in S PROVE i \in S
  <2>1. PICK d \in Nat : d = (a - 1) + i /\ d - 1 = (a - 1) + (i - 1)
    BY <1>1, <1>2
  <2>2. a \in 1 .. n /\ d \in a .. n /\ d \in 1 .. n /\ i \in 0 .. m
    BY <1>1, <2>1 DEF m
  <2>3. AcceptedOf(bare, st, a, d - 1) = Bares(AcceptedOf(cs, st, a, d - 1))
    BY <1>5, <2>1
  <2>4. /\ AcceptedOf(cs, st, a, d - 1) \in Seq(Operation)
        /\ AcceptedOf(cs, st, a, d) = AcceptedOf(cs, st, a, d - 1) \o SentOf(cs, st, d)
    BY <1>1, <2>2, AcceptedStep
  <2>5. AcceptedOf(bare, st, a, d) = AcceptedOf(bare, st, a, d - 1) \o SentOf(bare, st, d)
    BY <1>3, <2>2, AcceptedStep
  <2>6. SentOf(bare, st, d) = Bares(SentOf(cs, st, d)) /\ SentOf(cs, st, d) \in Seq(Operation)
    BY <1>1, <2>2, SentBares, SentTyped DEF bare
  <2>7. Bares(AcceptedOf(cs, st, a, d - 1) \o SentOf(cs, st, d))
           = Bares(AcceptedOf(cs, st, a, d - 1)) \o Bares(SentOf(cs, st, d))
    BY <2>4, <2>6, BaresConcat
  <2>8. AcceptedOf(bare, st, a, d) = Bares(AcceptedOf(cs, st, a, d))
    BY <2>3, <2>4, <2>5, <2>6, <2>7, Zenon
  <2> QED
    BY <2>1, <2>2, <2>8
<1> HIDE DEF S
<1>6. 0 .. m \subseteq S
  BY <1>2, <1>4, <1>5, IntervalInd
<1>7. b - (a - 1) \in S
  BY <1>2, <1>6
<1> QED
  BY <1>2, <1>7 DEF S, bare

\* Transactions perform operations whatever is stored in those later.
LEMMA PerformsBares ==
    ASSUME NEW ts \in Seq(Transactions), NEW s \in Seq(Operation), PerformsAll(ts, Bares(s))
    PROVE  PerformsAll(ts, s)
<1>1. /\ Len(Bares(s)) = Len(s)
      /\ \A i \in 1 .. Len(s) : SameFor(s[i], Bares(s)[i])
  BY BaresFacts
<1>2. \A i \in 1 .. Len(s) : \A t : Performs(t, s[i]) <=> Performs(t, Bares(s)[i])
  BY <1>1, SameMeaning
<1>3. Len(ts) = Len(s) /\ DOMAIN ts = 1 .. Len(s)
  BY <1>1, Indices DEF PerformsAll
<1> QED
  BY <1>2, <1>3, Zenon DEF PerformsAll

\* s is the beginning of t.
Begins(s, t) == \E z \in Seq(Operation) : t = s \o z

\* The operations of more cycles begin with those of fewer.
LEMMA AcceptedBegins ==
    ASSUME NEW cs \in Seq(Seq(Operation)), NEW st, NEW m \in 0 .. Len(cs)
    PROVE  Begins(AcceptedOf(cs, st, 1, m), AcceptedOf(cs, st, 1, Len(cs)))
<1>1. PICK n \in Nat : n = Len(cs) /\ m \in 0 .. n
  BY Indices
<1> DEFINE d == n - m
           S == {k \in 0 .. d : Begins(AcceptedOf(cs, st, 1, m), AcceptedOf(cs, st, 1, m + k))}
<1>2. d \in Nat /\ m + 0 = m /\ m + d = n /\ d \in 0 .. d /\ 0 \in 0 .. d
  BY <1>1
<1>3. AcceptedOf(cs, st, 1, m) \in Seq(Operation)
  <2>1. 1 \in 1 .. n + 1 /\ m \in 1 - 1 .. n
    BY <1>1
  <2> QED
    BY <1>1, <2>1, AcceptedTyped
<1> HIDE DEF d
<1>4. 0 \in S
  <2>1. AcceptedOf(cs, st, 1, m) = AcceptedOf(cs, st, 1, m) \o <<>> /\ <<>> \in Seq(Operation)
    BY <1>3, ConcatEmpty, Nothing
  <2>2. Begins(AcceptedOf(cs, st, 1, m), AcceptedOf(cs, st, 1, m))
    BY <2>1, Zenon DEF Begins
  <2> QED
    BY <1>2, <2>2
<1>5. ASSUME NEW i \in 1 .. d, i - 1 \in S PROVE i \in S
  <2>1. PICK k \in Nat : k = m + i /\ k - 1 = m + (i - 1)
    BY <1>1, <1>2
  <2>2. 1 \in 1 .. n /\ k \in 1 .. n /\ i \in 0 .. d
    BY <1>1, <2>1 DEF d
  <2>3. PICK z \in Seq(Operation) : AcceptedOf(cs, st, 1, k - 1) = AcceptedOf(cs, st, 1, m) \o z
    BY <1>5, <2>1 DEF Begins
  <2>4. AcceptedOf(cs, st, 1, k) = AcceptedOf(cs, st, 1, k - 1) \o SentOf(cs, st, k)
    BY <1>1, <2>2, AcceptedStep
  <2>5. PICK x \in Seq(Operation) : x = SentOf(cs, st, k)
    BY <1>1, <2>2, SentTyped
  <2>6. Regroups(AcceptedOf(cs, st, 1, m), z, x) /\ z \o x \in Seq(Operation)
    BY <1>3, Regrouping, Chain
  <2>7. AcceptedOf(cs, st, 1, k) = AcceptedOf(cs, st, 1, m) \o (z \o x)
    BY <2>3, <2>4, <2>5, <2>6, Zenon DEF Regroups
  <2>8. Begins(AcceptedOf(cs, st, 1, m), AcceptedOf(cs, st, 1, k))
    BY <2>6, <2>7, Zenon DEF Begins
  <2> QED
    BY <2>1, <2>2, <2>8
<1> HIDE DEF S
<1>6. 0 .. d \subseteq S
  BY <1>2, <1>4, <1>5, IntervalInd
<1>7. d \in S
  BY <1>2, <1>6
<1> QED
  BY <1>1, <1>2, <1>7 DEF S

-----------------------------------------------------------------------------
(* What the buffer, the datagrams and the stream hold *)

\* u is the part of s from p to q - 1.
IsPart(u, s, p, q) == Len(u) = q - p /\ \A i \in 1 .. q - p : u[i] = s[(p + i) - 1]

\* A part of a list.
LEMMA Part ==
    ASSUME NEW T, NEW s \in Seq(T), NEW p \in 1 .. Len(s) + 1, NEW q \in p .. Len(s) + 1
    PROVE  SubSeq(s, p, q - 1) \in Seq(T) /\ IsPart(SubSeq(s, p, q - 1), s, p, q)
<1>1. PICK n \in Nat : n = Len(s) /\ p \in 1 .. n + 1 /\ q \in p .. n + 1
  BY Indices
<1>2. SubSeq(s, p, q - 1) = [i \in 1 .. (q - 1) - p + 1 |-> s[(p + i) - 1]]
  BY <1>1
<1>3. (q - 1) - p + 1 = q - p /\ q - p \in Nat
  BY <1>1
<1>4. \A i \in 1 .. q - p : s[(p + i) - 1] \in T
  <2>1. \A i \in 1 .. q - p : (p + i) - 1 \in 1 .. n
    BY <1>1
  <2> QED
    BY <1>1, <2>1
<1>5. SubSeq(s, p, q - 1) = [i \in 1 .. q - p |-> s[(p + i) - 1]]
  BY <1>2, <1>3, Zenon
<1> QED
  BY <1>3, <1>4, <1>5 DEF IsPart

\* Two parts, one after the other, are a part; all of a list is the list.
Joined(s, p, q) == SubSeq(s, 1, p - 1) \o SubSeq(s, p, q - 1) = SubSeq(s, 1, q - 1)

\* Parts are joined.
LEMMA Joining ==
    ASSUME NEW T, NEW s \in Seq(T), NEW p \in 1 .. Len(s) + 1, NEW q \in p .. Len(s) + 1
    PROVE  Joined(s, p, q)
<1>1. PICK n \in Nat : n = Len(s) /\ p \in 1 .. n + 1 /\ q \in p .. n + 1 /\ 1 \in 1 .. n + 1
                       /\ p \in 1 .. n + 1 /\ q \in 1 .. n + 1 /\ p - 1 \in Nat /\ q - p \in Nat
                       /\ q - 1 \in Nat /\ (p - 1) + (q - p) = q - 1
  BY Indices
<1>2. PICK a \in Seq(T) : a = SubSeq(s, 1, p - 1) /\ Len(a) = p - 1 /\ \A i \in 1 .. p - 1 : a[i] = s[(1 + i) - 1]
  <2>1. SubSeq(s, 1, p - 1) \in Seq(T) /\ IsPart(SubSeq(s, 1, p - 1), s, 1, p)
    BY <1>1, Part
  <2> QED
    BY <2>1 DEF IsPart
<1>3. PICK b \in Seq(T) : b = SubSeq(s, p, q - 1) /\ Len(b) = q - p /\ \A i \in 1 .. q - p : b[i] = s[(p + i) - 1]
  <2>1. SubSeq(s, p, q - 1) \in Seq(T) /\ IsPart(SubSeq(s, p, q - 1), s, p, q)
    BY <1>1, Part
  <2> QED
    BY <2>1 DEF IsPart
<1>4. PICK d \in Seq(T) : d = SubSeq(s, 1, q - 1) /\ Len(d) = q - 1 /\ \A i \in 1 .. q - 1 : d[i] = s[(1 + i) - 1]
  <2>1. SubSeq(s, 1, q - 1) \in Seq(T) /\ IsPart(SubSeq(s, 1, q - 1), s, 1, q)
    BY <1>1, Part
  <2> QED
    BY <2>1 DEF IsPart
<1>5. PICK e \in Seq(T) : e = a \o b /\ IsChain(e, a, b, Len(a), Len(b))
  BY Chain
<1>6. /\ Len(e) = q - 1 /\ (\A i \in 1 .. p - 1 : e[i] = a[i])
      /\ \A i \in 1 .. q - p : e[(p - 1) + i] = b[i]
  BY <1>1, <1>2, <1>3, <1>5 DEF IsChain
<1>7. ASSUME NEW i \in 1 .. q - 1 PROVE d[i] = e[i]
  <2>0. (1 + i) - 1 = i
    BY <1>1
  <2>1. CASE i \in 1 .. p - 1
    BY <2>0, <2>1, <1>2, <1>4, <1>6, Zenon
  <2>2. CASE i \notin 1 .. p - 1
    <3>1. PICK j \in 1 .. q - p : i = (p - 1) + j /\ i = (p + j) - 1
      <4>1. i - (p - 1) \in 1 .. q - p /\ i = (p - 1) + (i - (p - 1)) /\ i = (p + (i - (p - 1))) - 1
        BY <1>1, <2>2
      <4> QED
        BY <4>1
    <3>2. d[i] = s[i] /\ b[j] = s[i]
      BY <2>0, <3>1, <1>3, <1>4, Zenon
    <3>3. e[(p - 1) + j] = b[j]
      BY <1>6
    <3> QED
      BY <3>1, <3>2, <3>3, Zenon
  <2> QED
    BY <2>1, <2>2
<1>8. d = e
  <2>1. PICK l \in Nat : l = q - 1
    BY <1>1
  <2>2. Len(d) = l /\ Len(e) = l /\ \A i \in 1 .. l : d[i] = e[i]
    BY <2>1, <1>4, <1>6, <1>7, Zenon
  <2> QED
    BY <2>2
<1> QED
  BY <1>2, <1>3, <1>4, <1>5, <1>8, Zenon DEF Joined

\* All of a list.
LEMMA WholePart ==
    ASSUME NEW T, NEW s \in Seq(T)
    PROVE  SubSeq(s, 1, Len(s)) = s /\ SubSeq(s, 1, 0) = <<>> /\ SubSeq(s, Len(s) + 1, Len(s)) = <<>>
  OBVIOUS

\* The bus operations of cycle c before its operation p, none when the cycle is
\* not being formatted.
Partial(bare, c, p) == IF p = 0 THEN <<>> ELSE OnBus(SubSeq(bare[c], 1, p - 1))

\* The formatting of a cycle begins.
LEMMA PartialNone ==
    ASSUME NEW bare, NEW c, bare[c] \in Seq(Operation)
    PROVE  Partial(bare, c, 0) = <<>> /\ Partial(bare, c, 1) = <<>>
<1>1. SubSeq(bare[c], 1, 1 - 1) = <<>>
  BY WholePart
<1> QED
  BY <1>1, OnBusEmpty DEF Partial

\* It goes on with the operations from p to q - 1, and ends behind the last one.
LEMMA PartialGrows ==
    ASSUME NEW bare, NEW c, bare[c] \in Seq(Operation), NEW p \in 1 .. Len(bare[c]) + 1,
           NEW q \in p .. Len(bare[c]) + 1
    PROVE  /\ Partial(bare, c, p) \in Seq(Operation)
           /\ OnBus(SubSeq(bare[c], p, q - 1)) \in Seq(Operation)
           /\ Partial(bare, c, q) = Partial(bare, c, p) \o OnBus(SubSeq(bare[c], p, q - 1))
           /\ Partial(bare, c, Len(bare[c]) + 1) = OnBus(bare[c])
<1>1. PICK s \in Seq(Operation) : s = bare[c]
  OBVIOUS
<1>2. PICK n \in Nat : n = Len(s) /\ p \in 1 .. n + 1 /\ q \in p .. n + 1 /\ 1 \in 1 .. n + 1 /\ p # 0 /\ q # 0
                       /\ n + 1 # 0 /\ (n + 1) - 1 = n /\ p \in 1 .. n + 1
  BY <1>1, Indices
<1>3. /\ SubSeq(s, 1, p - 1) \in Seq(Operation) /\ SubSeq(s, p, q - 1) \in Seq(Operation)
      /\ SubSeq(s, 1, p - 1) \o SubSeq(s, p, q - 1) = SubSeq(s, 1, q - 1)
  BY <1>2, Part, Joining DEF Joined
<1>4. OnBus(SubSeq(s, 1, q - 1)) = OnBus(SubSeq(s, 1, p - 1)) \o OnBus(SubSeq(s, p, q - 1))
  BY <1>3, OnBusConcat
<1>5. OnBus(SubSeq(s, 1, p - 1)) \in Seq(Operation) /\ OnBus(SubSeq(s, p, q - 1)) \in Seq(Operation)
  BY <1>3, OnBusIs
<1>6. SubSeq(s, 1, (n + 1) - 1) = s
  BY <1>2, WholePart
<1>7. /\ Partial(bare, c, p) = OnBus(SubSeq(s, 1, p - 1)) /\ Partial(bare, c, q) = OnBus(SubSeq(s, 1, q - 1))
      /\ Partial(bare, c, n + 1) = OnBus(SubSeq(s, 1, (n + 1) - 1))
  BY <1>1, <1>2, Zenon DEF Partial
<1> QED
  BY <1>1, <1>2, <1>4, <1>5, <1>6, <1>7, Zenon

\* The statuses st and su tell the same of the cycles up to m.
Agree(st, su, m) == \A i \in 1 .. m : (st[i] = "OVERFLOW") <=> (su[i] = "OVERFLOW")

\* A datagram of whole cycles before c.
Whole(bare, st, c, recs) ==
    /\ recs # <<>> /\ recs[Len(recs)].cyc
    /\ \E a \in 1 .. Len(bare) : \E b \in a .. Len(bare) :
         b < c /\ StandsAll(recs, AcceptedOf(bare, st, a, b))

\* The buffer b of a packet device while cycle c is formatted: whole cycles up to
\* cptr, then the records of c so far.
Buffered(bare, st, c, p, b, k) ==
    \E a \in 1 .. c :
        /\ k > 0 => a < c /\ b[k].cyc
        /\ StandsAll(SubSeq(b, 1, k), AcceptedOf(bare, st, a, c - 1))
        /\ StandsAll(SubSeq(b, k + 1, Len(b)), Partial(bare, c, p))
        /\ p = 0 => k = Len(b)

\* Later cycles do not matter to a datagram.
LEMMA WholeKept ==
    ASSUME NEW bare \in Seq(Seq(Operation)), NEW st, NEW su, NEW c \in Nat, NEW d \in Nat, c <= d,
           NEW m \in Int, Agree(st, su, m), c <= m + 1, NEW recs, Whole(bare, st, c, recs)
    PROVE  Whole(bare, su, d, recs)
<1>1. PICK n \in Nat : n = Len(bare)
  BY Indices
<1>2. PICK a \in 1 .. n : \E b \in a .. n : b < c /\ StandsAll(recs, AcceptedOf(bare, st, a, b))
  BY <1>1, Zenon DEF Whole
<1>3. PICK b \in a .. n : b < c /\ StandsAll(recs, AcceptedOf(bare, st, a, b))
  BY <1>2, Zenon
<1>4. /\ a \in Nat /\ b \in Int /\ 1 <= a /\ b < d /\ \A i \in 1 .. b : i \in 1 .. m
  BY <1>1, <1>3
<1>5. AcceptedOf(bare, st, a, b) = AcceptedOf(bare, su, a, b)
  <2>1. \A i \in 1 .. b : (st[i] = "OVERFLOW") <=> (su[i] = "OVERFLOW")
    BY <1>4, Zenon DEF Agree
  <2> QED
    BY <1>4, <2>1, AcceptedSame
<1> QED
  BY <1>1, <1>3, <1>4, <1>5, Zenon DEF Whole

\* The cycles have operations.
LEMMA SeqOfSeq ==
    ASSUME NEW bare \in Seq(Seq(Operation)), NEW c \in 1 .. Len(bare)
    PROVE  bare[c] \in Seq(Operation)
<1> DEFINE S == Seq(Operation)
<1>1. bare \in Seq(S)
  OBVIOUS
<1> HIDE DEF S
<1>2. bare[c] \in S
  BY <1>1
<1> QED
  BY <1>2 DEF S

\* The beginning of d and of b is the same, and the rest grows by rec.
GrownParts(d, b, rec, m, k) ==
    SubSeq(d, 1, k) = SubSeq(b, 1, k) /\ SubSeq(d, k + 1, m + 1) = Append(SubSeq(b, k + 1, m), rec)

\* The parts of a list that grows by one element.
LEMMA PartsGrow ==
    ASSUME NEW b \in Seq(Requests), NEW rec \in Requests, NEW d \in Seq(Requests), d = Append(b, rec),
           NEW m \in Nat, m = Len(b), NEW k \in 0 .. m
    PROVE  GrownParts(d, b, rec, m, k)
<1>1. Len(d) = m + 1 /\ d[m + 1] = rec /\ \A i \in 1 .. m : d[i] = b[i]
  BY Longer
<1>2. SubSeq(d, 1, k) = SubSeq(b, 1, k)
  <2>1. SubSeq(d, 1, k) = [i \in 1 .. k |-> d[i]] /\ SubSeq(b, 1, k) = [i \in 1 .. k |-> b[i]]
    OBVIOUS
  <2>2. \A i \in 1 .. k : i \in 1 .. m
    OBVIOUS
  <2>3. [i \in 1 .. k |-> d[i]] = [i \in 1 .. k |-> b[i]]
    BY <1>1, <2>2
  <2> QED
    BY <2>1, <2>3, Zenon
<1>3. PICK l \in Nat : l = m - k
  <2>1. m - k \in Nat
    OBVIOUS
  <2> QED
    BY <2>1
<1>4. PICK u \in Seq(Requests) : u = SubSeq(b, k + 1, m) /\ Len(u) = l /\ \A i \in 1 .. l : u[i] = b[k + i]
  <2>1. k + 1 \in 1 .. Len(b) + 1 /\ m + 1 \in k + 1 .. Len(b) + 1 /\ (m + 1) - 1 = m /\ (m + 1) - (k + 1) = l
    BY <1>3
  <2>2. SubSeq(b, k + 1, (m + 1) - 1) \in Seq(Requests) /\ IsPart(SubSeq(b, k + 1, (m + 1) - 1), b, k + 1, m + 1)
    BY <2>1, Part
  <2>3. \A i \in 1 .. l : ((k + 1) + i) - 1 = k + i
    BY <1>3
  <2>4. /\ SubSeq(b, k + 1, m) \in Seq(Requests) /\ Len(SubSeq(b, k + 1, m)) = l
        /\ \A i \in 1 .. l : SubSeq(b, k + 1, m)[i] = b[((k + 1) + i) - 1]
    BY <2>1, <2>2, Zenon DEF IsPart
  <2>5. \A i \in 1 .. l : SubSeq(b, k + 1, m)[i] = b[k + i]
    BY <2>3, <2>4, Zenon
  <2> QED
    BY <2>4, <2>5, Zenon
<1>5. PICK v \in Seq(Requests) : v = SubSeq(d, k + 1, m + 1) /\ Len(v) = l + 1 /\ \A i \in 1 .. l + 1 : v[i] = d[k + i]
  <2>1. k + 1 \in 1 .. Len(d) + 1 /\ m + 2 \in k + 1 .. Len(d) + 1 /\ (m + 2) - 1 = m + 1 /\ (m + 2) - (k + 1) = l + 1
    BY <1>1, <1>3
  <2>2. SubSeq(d, k + 1, (m + 2) - 1) \in Seq(Requests) /\ IsPart(SubSeq(d, k + 1, (m + 2) - 1), d, k + 1, m + 2)
    BY <2>1, Part
  <2>3. \A i \in 1 .. l + 1 : ((k + 1) + i) - 1 = k + i
    BY <1>3
  <2>4. /\ SubSeq(d, k + 1, m + 1) \in Seq(Requests) /\ Len(SubSeq(d, k + 1, m + 1)) = l + 1
        /\ \A i \in 1 .. l + 1 : SubSeq(d, k + 1, m + 1)[i] = d[((k + 1) + i) - 1]
    BY <2>1, <2>2, Zenon DEF IsPart
  <2>5. \A i \in 1 .. l + 1 : SubSeq(d, k + 1, m + 1)[i] = d[k + i]
    BY <2>3, <2>4, Zenon
  <2> QED
    BY <2>4, <2>5, Zenon
<1>6. PICK w \in Seq(Requests) : w = Append(u, rec) /\ Len(w) = l + 1 /\ w[l + 1] = rec /\ \A i \in 1 .. l : w[i] = u[i]
  <2>1. Append(u, rec) \in Seq(Requests) /\ IsGrown(Append(u, rec), u, rec, Len(u))
    BY Grown
  <2> QED
    BY <1>4, <2>1, Zenon DEF IsGrown
<1>7. ASSUME NEW i \in 1 .. l + 1 PROVE v[i] = w[i]
  <2>1. CASE i = l + 1
    <3>1. k + i = m + 1
      BY <1>3, <2>1
    <3> QED
      BY <1>1, <1>5, <1>6, <2>1, <3>1, Zenon
  <2>2. CASE i # l + 1
    <3>1. i \in 1 .. l /\ k + i \in 1 .. m
      BY <1>3, <2>2
    <3>2. v[i] = d[k + i] /\ w[i] = u[i] /\ u[i] = b[k + i]
      BY <1>4, <1>5, <1>6, <3>1, Zenon
    <3>3. d[k + i] = b[k + i]
      BY <1>1, <3>1, Zenon
    <3> QED
      BY <3>2, <3>3, Zenon
  <2> QED
    BY <2>1, <2>2
<1>8. v = w
  <2>1. PICK j \in Nat : j = l + 1
    <3>1. l + 1 \in Nat
      BY <1>3
    <3> QED
      BY <3>1
  <2>2. Len(v) = j /\ Len(w) = j /\ \A i \in 1 .. j : v[i] = w[i]
    BY <1>5, <1>6, <1>7, <2>1, Zenon
  <2> QED
    BY <2>2
<1> QED
  BY <1>2, <1>4, <1>5, <1>6, <1>8, Zenon DEF GrownParts

\* The buffer when the formatting of a cycle begins.
LEMMA BufferedStart ==
    ASSUME NEW bare \in Seq(Seq(Operation)), NEW st, NEW c \in 1 .. Len(bare), NEW b, NEW k,
           Buffered(bare, st, c, 0, b, k)
    PROVE  Buffered(bare, st, c, 1, b, k)
<1>1. bare[c] \in Seq(Operation)
  BY SeqOfSeq
<1>2. Partial(bare, c, 0) = Partial(bare, c, 1)
  BY <1>1, PartialNone
<1>3. 1 # 0
  OBVIOUS
<1> QED
  BY <1>2, <1>3, Zenon DEF Buffered

\* A cycle that is rejected adds nothing.
LEMMA BufferedReject ==
    ASSUME NEW bare \in Seq(Seq(Operation)), NEW st, NEW su, NEW c \in 1 .. Len(bare), NEW b, NEW k,
           Buffered(bare, st, c, 0, b, k), Agree(st, su, c - 1), SentOf(bare, su, c) = <<>>
    PROVE  Buffered(bare, su, c + 1, 0, b, k)
<1>1. PICK n \in Nat : n = Len(bare) /\ c \in 1 .. n /\ c \in Nat
  BY Indices
<1>2. PICK a \in 1 .. c :
        /\ k > 0 => a < c /\ b[k].cyc
        /\ StandsAll(SubSeq(b, 1, k), AcceptedOf(bare, st, a, c - 1))
        /\ StandsAll(SubSeq(b, k + 1, Len(b)), Partial(bare, c, 0))
        /\ k = Len(b)
  BY Zenon DEF Buffered
<1>3. a \in Nat /\ c - 1 \in Int /\ 1 <= a /\ a \in 1 .. n /\ c \in a .. n /\ (c + 1) - 1 = c /\ a \in 1 .. c + 1 /\ a < c + 1
  BY <1>1
<1>4. AcceptedOf(bare, st, a, c - 1) = AcceptedOf(bare, su, a, c - 1)
  BY <1>3, AcceptedSame DEF Agree
<1>5. /\ AcceptedOf(bare, su, a, c - 1) \in Seq(Operation)
      /\ AcceptedOf(bare, su, a, c) = AcceptedOf(bare, su, a, c - 1) \o <<>>
  BY <1>1, <1>3, AcceptedStep
<1>6. AcceptedOf(bare, su, a, (c + 1) - 1) = AcceptedOf(bare, st, a, c - 1)
  BY <1>3, <1>4, <1>5, ConcatEmpty
<1>7. Partial(bare, c, 0) = Partial(bare, c + 1, 0)
  BY Zenon DEF Partial
<1> QED
  BY <1>2, <1>3, <1>6, <1>7, Zenon DEF Buffered

\* The complete cycles of the buffer can be sent, and the rest is kept.
LEMMA BufferedSpill ==
    ASSUME NEW bare \in Seq(Seq(Operation)), NEW st, NEW c \in 1 .. Len(bare) + 1, NEW p \in Nat,
           NEW b \in Seq(Requests), NEW k \in 0 .. Len(b), Buffered(bare, st, c, p, b, k)
    PROVE  /\ k > 0 => Whole(bare, st, c, SubSeq(b, 1, k))
           /\ Buffered(bare, st, c, p, SubSeq(b, k + 1, Len(b)), 0)
           /\ SubSeq(b, k + 1, Len(b)) \in Seq(Requests)
<1>1. PICK n \in Nat : n = Len(bare) /\ c \in 1 .. n + 1 /\ c \in Nat
  BY Indices
<1>2. PICK m \in Nat : m = Len(b) /\ k \in 0 .. m /\ k \in Nat
  BY Indices
<1>3. PICK a \in 1 .. c :
        /\ k > 0 => a < c /\ b[k].cyc
        /\ StandsAll(SubSeq(b, 1, k), AcceptedOf(bare, st, a, c - 1))
        /\ StandsAll(SubSeq(b, k + 1, Len(b)), Partial(bare, c, p))
        /\ p = 0 => k = Len(b)
  BY Zenon DEF Buffered
<1>4. /\ k + 1 \in 1 .. m + 1 /\ 1 \in 1 .. m + 1 /\ m + 1 \in (k + 1) .. m + 1 /\ k + 1 \in 1 .. m + 1
      /\ (m + 1) - 1 = m /\ (k + 1) - 1 = k /\ (m + 1) - (k + 1) = m - k /\ m - k \in Nat
  BY <1>2
<1>5. PICK u \in Seq(Requests) : u = SubSeq(b, k + 1, m) /\ Len(u) = m - k
  <2>1. SubSeq(b, k + 1, (m + 1) - 1) \in Seq(Requests) /\ IsPart(SubSeq(b, k + 1, (m + 1) - 1), b, k + 1, m + 1)
    BY <1>2, <1>4, Part
  <2> QED
    BY <1>4, <2>1 DEF IsPart
<1>6. ASSUME k > 0 PROVE Whole(bare, st, c, SubSeq(b, 1, k))
  <2>1. SubSeq(b, 1, (k + 1) - 1) \in Seq(Requests) /\ IsPart(SubSeq(b, 1, (k + 1) - 1), b, 1, k + 1)
    BY <1>2, <1>4, Part
  <2>2. PICK v \in Seq(Requests) : v = SubSeq(b, 1, k) /\ Len(v) = k /\ v[k] = b[k]
    <3>1. (k + 1) - 1 = k /\ k \in 1 .. (k + 1) - 1 /\ (1 + k) - 1 = k
      BY <1>2, <1>6
    <3> QED
      BY <2>1, <3>1 DEF IsPart
  <2>3. v # <<>>
    <3>1. k # 0 /\ Len(<<>>) = 0
      BY <1>2, <1>6
    <3> QED
      BY <2>2, <3>1, Zenon
  <2>4. a \in 1 .. n /\ c - 1 \in a .. n /\ c - 1 < c
    BY <1>1, <1>3, <1>6
  <2> QED
    BY <1>1, <1>3, <1>6, <2>2, <2>3, <2>4, Zenon DEF Whole
<1>7. Buffered(bare, st, c, p, u, 0)
  <2>1. AcceptedOf(bare, st, c, c - 1) = <<>>
    BY <1>1, AcceptedNone
  <2>2. StandsAll(SubSeq(u, 1, 0), AcceptedOf(bare, st, c, c - 1))
    BY <2>1, WholePart, StandsEmpty
  <2>3. SubSeq(u, 0 + 1, Len(u)) = u
    BY WholePart
  <2>4. p = 0 => 0 = Len(u)
    BY <1>2, <1>3, <1>5
  <2>5. c \in 1 .. c /\ ~(0 > 0)
    BY <1>1
  <2>6. StandsAll(SubSeq(u, 0 + 1, Len(u)), Partial(bare, c, p))
    BY <1>2, <1>3, <1>5, <2>3, Zenon
  <2> QED
    BY <2>2, <2>4, <2>5, <2>6, Zenon DEF Buffered
<1> QED
  BY <1>2, <1>5, <1>6, <1>7, Zenon

\* A record is added to those of a cycle.
LEMMA BufferedAdd ==
    ASSUME NEW bare \in Seq(Seq(Operation)), NEW st, NEW c \in 1 .. Len(bare),
           NEW p \in 1 .. Len(bare[c]) + 1, NEW q \in p .. Len(bare[c]) + 1,
           NEW b \in Seq(Requests), NEW k \in 0 .. Len(b), Buffered(bare, st, c, p, b, k),
           NEW rec \in Requests, Stands(rec, OnBus(SubSeq(bare[c], p, q - 1)))
    PROVE  Buffered(bare, st, c, q, Append(b, rec), k)
<1>1. bare[c] \in Seq(Operation)
  BY SeqOfSeq
<1>2. PICK m \in Nat : m = Len(b) /\ k \in 0 .. m /\ k \in Nat
  BY Indices
<1>3. PICK l \in Nat : l = Len(bare[c]) /\ p \in 1 .. l + 1 /\ q \in p .. l + 1
  BY <1>1, Indices
<1>4. PICK a \in 1 .. c :
        /\ k > 0 => a < c /\ b[k].cyc
        /\ StandsAll(SubSeq(b, 1, k), AcceptedOf(bare, st, a, c - 1))
        /\ StandsAll(SubSeq(b, k + 1, m), Partial(bare, c, p))
  BY <1>2, Zenon DEF Buffered
<1>5. PICK d \in Seq(Requests) : /\ d = Append(b, rec) /\ Len(d) = m + 1 /\ d[m + 1] = rec
                                 /\ \A i \in 1 .. m : d[i] = b[i]
  <2>1. Append(b, rec) \in Seq(Requests) /\ IsGrown(Append(b, rec), b, rec, Len(b))
    BY Grown
  <2> QED
    BY <1>2, <2>1, Zenon DEF IsGrown
<1>6. SubSeq(d, 1, k) = SubSeq(b, 1, k) /\ SubSeq(d, k + 1, m + 1) = Append(SubSeq(b, k + 1, m), rec)
  <2>1. GrownParts(d, b, rec, m, k)
    BY <1>2, <1>5, PartsGrow
  <2> QED
    BY <2>1, Zenon DEF GrownParts
<1>7. PICK z \in Seq(Operation) : /\ z = OnBus(SubSeq(bare[c], p, q - 1))
                                  /\ Partial(bare, c, q) = Partial(bare, c, p) \o z
  BY <1>1, PartialGrows
<1>8. StandsAll(SubSeq(d, k + 1, m + 1), Partial(bare, c, q))
  <2>1. SubSeq(b, k + 1, m) \in Seq(Requests) /\ Partial(bare, c, p) \in Seq(Operation)
    BY <1>4, StandsTyped
  <2>2. StandsAll(Append(SubSeq(b, k + 1, m), rec), Partial(bare, c, p) \o z)
    BY <1>4, <1>7, <2>1, StandsAppend
  <2> QED
    BY <1>6, <1>7, <2>2, Zenon
<1>9. k > 0 => a < c /\ d[k].cyc
  BY <1>2, <1>4, <1>5
<1>10. q # 0
  BY <1>3
<1> QED
  BY <1>4, <1>5, <1>6, <1>8, <1>9, <1>10, Zenon DEF Buffered

\* The last record of a cycle completes it.
LEMMA BufferedFinish ==
    ASSUME NEW bare \in Seq(Seq(Operation)), NEW st, NEW su, NEW c \in 1 .. Len(bare),
           NEW p \in Nat, p = Len(bare[c]) + 1, Agree(st, su, c - 1), SentOf(bare, su, c) = OnBus(bare[c]),
           NEW b \in Seq(Requests), b # <<>>, b[Len(b)].cyc,
           NEW k \in 0 .. Len(b), Buffered(bare, st, c, p, b, k)
    PROVE  Buffered(bare, su, c + 1, 0, b, Len(b))
<1>1. bare[c] \in Seq(Operation)
  BY SeqOfSeq
<1>2. PICK m \in Nat : m = Len(b) /\ k \in 0 .. m /\ k \in Nat
  BY Indices
<1>3. PICK n \in Nat : n = Len(bare) /\ c \in 1 .. n /\ c \in Nat
  BY Indices
<1>4. PICK a \in 1 .. c :
        /\ StandsAll(SubSeq(b, 1, k), AcceptedOf(bare, st, a, c - 1))
        /\ StandsAll(SubSeq(b, k + 1, m), Partial(bare, c, p))
  BY <1>2, Zenon DEF Buffered
<1>5. Partial(bare, c, p) = OnBus(bare[c])
  <2>1. p \in 1 .. Len(bare[c]) + 1 /\ p \in p .. Len(bare[c]) + 1
    BY <1>1
  <2> QED
    BY <1>1, <2>1, PartialGrows
<1>6. a \in Nat /\ c - 1 \in Int /\ 1 <= a /\ a \in 1 .. n /\ c \in a .. n /\ (c + 1) - 1 = c /\ a \in 1 .. c + 1 /\ a < c + 1
  BY <1>3
<1>7. AcceptedOf(bare, st, a, c - 1) = AcceptedOf(bare, su, a, c - 1)
  BY <1>6, AcceptedSame DEF Agree
<1>8. AcceptedOf(bare, su, a, c) = AcceptedOf(bare, su, a, c - 1) \o OnBus(bare[c])
  BY <1>3, <1>6, AcceptedStep
<1>9. SubSeq(b, 1, m) = SubSeq(b, 1, k) \o SubSeq(b, k + 1, m)
  <2>1. k + 1 \in 1 .. m + 1 /\ m + 1 \in (k + 1) .. m + 1 /\ (k + 1) - 1 = k /\ (m + 1) - 1 = m
    BY <1>2
  <2>2. Joined(b, k + 1, m + 1)
    BY <1>2, <2>1, Joining
  <2> QED
    BY <2>1, <2>2, Zenon DEF Joined
<1>10. StandsAll(SubSeq(b, 1, k) \o SubSeq(b, k + 1, m), AcceptedOf(bare, st, a, c - 1) \o Partial(bare, c, p))
  BY <1>4, StandsConcat
<1>11. StandsAll(SubSeq(b, 1, m), AcceptedOf(bare, su, a, (c + 1) - 1))
  BY <1>5, <1>6, <1>7, <1>8, <1>9, <1>10, Zenon
<1>12. StandsAll(SubSeq(b, m + 1, Len(b)), Partial(bare, c + 1, 0))
  <2>1. SubSeq(b, m + 1, Len(b)) = <<>>
    BY <1>2, WholePart
  <2>2. Partial(bare, c + 1, 0) = <<>>
    BY Zenon DEF Partial
  <2> QED
    BY <2>1, <2>2, StandsEmpty
<1> QED
  BY <1>2, <1>6, <1>11, <1>12, Zenon DEF Buffered

\* A cycle that is dropped leaves nothing.
LEMMA BufferedNone ==
    ASSUME NEW bare, NEW st, NEW c \in Nat, 1 <= c
    PROVE  Buffered(bare, st, c, 0, <<>>, 0)
<1>1. AcceptedOf(bare, st, c, c - 1) = <<>>
  BY AcceptedNone
<1>2. SubSeq(<<>>, 1, 0) = <<>> /\ SubSeq(<<>>, 0 + 1, Len(<<>>)) = <<>> /\ 0 = Len(<<>>)
  BY Nothing, WholePart
<1>3. Partial(bare, c, 0) = <<>>
  BY Zenon DEF Partial
<1>4. c \in 1 .. c /\ ~(0 > 0)
  OBVIOUS
<1> QED
  BY <1>1, <1>2, <1>3, <1>4, StandsEmpty, Zenon DEF Buffered

\* The bus operations formatted so far, when cycle c has come to its operation p.
Total(bare, st, c, p) ==
    IF c > Len(bare) + 1 THEN AcceptedOf(bare, st, 1, Len(bare))
    ELSE AcceptedOf(bare, st, 1, c - 1) \o Partial(bare, c, p)

\* The transactions ts, and then the records recs, are the operations of total.
Streamed(total, ts, recs) ==
    \E done \in Seq(Operation), rest \in Seq(Operation) :
        PerformsAll(ts, done) /\ StandsAll(recs, rest) /\ total = done \o rest

\* While a cycle is formatted.
LEMMA TotalIs ==
    ASSUME NEW bare \in Seq(Seq(Operation)), NEW st, NEW c \in 1 .. Len(bare) + 1, NEW p
    PROVE  /\ Total(bare, st, c, p) = AcceptedOf(bare, st, 1, c - 1) \o Partial(bare, c, p)
           /\ AcceptedOf(bare, st, 1, c - 1) \in Seq(Operation)
<1>1. PICK n \in Nat : n = Len(bare) /\ c \in 1 .. n + 1
  BY Indices
<1>2. ~(c > n + 1) /\ 1 \in 1 .. n + 1 /\ c - 1 \in 1 - 1 .. n
  BY <1>1
<1>3. AcceptedOf(bare, st, 1, c - 1) \in Seq(Operation)
  BY <1>1, <1>2, AcceptedTyped
<1> QED
  BY <1>1, <1>2, <1>3, Zenon DEF Total

\* The total when the formatting of a cycle begins.
LEMMA TotalStart ==
    ASSUME NEW bare \in Seq(Seq(Operation)), NEW st, NEW c \in 1 .. Len(bare)
    PROVE  Total(bare, st, c, 1) = Total(bare, st, c, 0)
<1>1. bare[c] \in Seq(Operation)
  BY SeqOfSeq
<1>2. Partial(bare, c, 0) = Partial(bare, c, 1)
  BY <1>1, PartialNone
<1> QED
  BY <1>2, Zenon DEF Total

\* When it goes on.
LEMMA TotalAdd ==
    ASSUME NEW bare \in Seq(Seq(Operation)), NEW st, NEW c \in 1 .. Len(bare),
           NEW p \in 1 .. Len(bare[c]) + 1, NEW q \in p .. Len(bare[c]) + 1
    PROVE  /\ Total(bare, st, c, q) = Total(bare, st, c, p) \o OnBus(SubSeq(bare[c], p, q - 1))
           /\ OnBus(SubSeq(bare[c], p, q - 1)) \in Seq(Operation)
<1>1. bare[c] \in Seq(Operation)
  BY SeqOfSeq
<1>2. /\ Partial(bare, c, p) \in Seq(Operation)
      /\ OnBus(SubSeq(bare[c], p, q - 1)) \in Seq(Operation)
      /\ Partial(bare, c, q) = Partial(bare, c, p) \o OnBus(SubSeq(bare[c], p, q - 1))
  BY <1>1, PartialGrows
<1>3. c \in 1 .. Len(bare) + 1
  BY Indices
<1>4. /\ Total(bare, st, c, p) = AcceptedOf(bare, st, 1, c - 1) \o Partial(bare, c, p)
      /\ Total(bare, st, c, q) = AcceptedOf(bare, st, 1, c - 1) \o Partial(bare, c, q)
      /\ AcceptedOf(bare, st, 1, c - 1) \in Seq(Operation)
  BY <1>3, TotalIs
<1>5. Regroups(AcceptedOf(bare, st, 1, c - 1), Partial(bare, c, p), OnBus(SubSeq(bare[c], p, q - 1)))
  BY <1>2, <1>4, Regrouping
<1> QED
  BY <1>2, <1>4, <1>5, Zenon DEF Regroups

\* When it has come to the next cycle.
LEMMA TotalNext ==
    ASSUME NEW bare \in Seq(Seq(Operation)), NEW st, NEW su, NEW c \in 1 .. Len(bare), NEW p,
           Agree(st, su, c - 1), SentOf(bare, su, c) = Partial(bare, c, p)
    PROVE  Total(bare, su, c + 1, 0) = Total(bare, st, c, p)
<1>1. PICK n \in Nat : n = Len(bare) /\ c \in 1 .. n /\ c \in Nat
  BY Indices
<1>2. /\ c \in 1 .. n + 1 /\ c + 1 \in 1 .. n + 1 /\ (c + 1) - 1 = c /\ 1 \in 1 .. n /\ c \in 1 .. n
      /\ 1 \in Nat /\ c - 1 \in Int /\ 1 <= 1
  BY <1>1
<1>3. Total(bare, st, c, p) = AcceptedOf(bare, st, 1, c - 1) \o Partial(bare, c, p)
  BY <1>1, <1>2, TotalIs
<1>4. Total(bare, su, c + 1, 0) = AcceptedOf(bare, su, 1, c) \o Partial(bare, c + 1, 0)
  BY <1>1, <1>2, TotalIs
<1>5. /\ AcceptedOf(bare, su, 1, c) \in Seq(Operation)
      /\ AcceptedOf(bare, su, 1, c) = AcceptedOf(bare, su, 1, c - 1) \o SentOf(bare, su, c)
  BY <1>1, <1>2, AcceptedStep
<1>6. AcceptedOf(bare, st, 1, c - 1) = AcceptedOf(bare, su, 1, c - 1)
  BY <1>2, AcceptedSame DEF Agree
<1>7. Partial(bare, c + 1, 0) = <<>> /\ AcceptedOf(bare, su, 1, c) \o <<>> = AcceptedOf(bare, su, 1, c)
  BY <1>5, ConcatEmpty DEF Partial
<1> QED
  BY <1>3, <1>4, <1>5, <1>6, <1>7, Zenon

\* When everything is formatted.
LEMMA TotalEnd ==
    ASSUME NEW bare \in Seq(Seq(Operation)), NEW st
    PROVE  Total(bare, st, (Len(bare) + 1) + 1, 0) = Total(bare, st, Len(bare) + 1, 0)
<1>1. PICK n \in Nat : n = Len(bare)
  BY Indices
<1>2. n + 1 \in 1 .. n + 1 /\ (n + 1) - 1 = n /\ (n + 1) + 1 > n + 1
  BY <1>1
<1>3. /\ Total(bare, st, n + 1, 0) = AcceptedOf(bare, st, 1, n) \o Partial(bare, n + 1, 0)
      /\ AcceptedOf(bare, st, 1, n) \in Seq(Operation)
  BY <1>1, <1>2, TotalIs
<1>4. Partial(bare, n + 1, 0) = <<>> /\ AcceptedOf(bare, st, 1, n) \o <<>> = AcceptedOf(bare, st, 1, n)
  BY <1>3, ConcatEmpty DEF Partial
<1>5. Total(bare, st, (n + 1) + 1, 0) = AcceptedOf(bare, st, 1, n)
  BY <1>1, <1>2, Zenon DEF Total
<1> QED
  BY <1>1, <1>3, <1>4, <1>5, Zenon

\* Statuses that tell the same make no difference.
LEMMA TotalSame ==
    ASSUME NEW bare \in Seq(Seq(Operation)), NEW st, NEW su, NEW c \in 1 .. Len(bare) + 2, NEW p,
           Agree(st, su, Len(bare))
    PROVE  Total(bare, su, c, p) = Total(bare, st, c, p)
<1>1. PICK n \in Nat : n = Len(bare) /\ c \in 1 .. n + 2
  BY Indices
<1>2. 1 \in Nat /\ c - 1 \in Int /\ n \in Int /\ 1 <= 1 /\ (~(c > n + 1) => \A i \in 1 .. c - 1 : i \in 1 .. n)
  BY <1>1
<1>3. AcceptedOf(bare, st, 1, n) = AcceptedOf(bare, su, 1, n)
  BY <1>1, <1>2, AcceptedSame DEF Agree
<1>4. ~(c > n + 1) => AcceptedOf(bare, st, 1, c - 1) = AcceptedOf(bare, su, 1, c - 1)
  BY <1>1, <1>2, AcceptedSame DEF Agree
<1> QED
  BY <1>1, <1>3, <1>4, Zenon DEF Total

\* What is formatted so far is the beginning of what all cycles send.
LEMMA TotalBegins ==
    ASSUME NEW bare \in Seq(Seq(Operation)), NEW st, NEW c \in 1 .. Len(bare) + 2, NEW p \in Nat,
           p > 0 => c <= Len(bare) /\ p <= Len(bare[c]) + 1 /\ SentOf(bare, st, c) = OnBus(bare[c])
    PROVE  Begins(Total(bare, st, c, p), AcceptedOf(bare, st, 1, Len(bare)))
<1>1. PICK n \in Nat : n = Len(bare) /\ c \in 1 .. n + 2
  BY Indices
<1> DEFINE all == AcceptedOf(bare, st, 1, n)
<1>2. CASE c > n + 1
  <2>1. all \in Seq(Operation)
    <3>1. 1 \in 1 .. n + 1 /\ n \in 1 - 1 .. n
      BY <1>1
    <3> QED
      BY <1>1, <3>1, AcceptedTyped
  <2>2. all = all \o <<>> /\ <<>> \in Seq(Operation)
    BY <2>1, ConcatEmpty, Nothing
  <2>3. Total(bare, st, c, p) = all
    BY <1>1, <1>2, Zenon DEF Total
  <2> HIDE DEF all
  <2>4. Begins(Total(bare, st, c, p), all)
    BY <2>2, <2>3, Zenon DEF Begins
  <2> QED
    BY <1>1, <2>4 DEF all
<1>3. CASE ~(c > n + 1) /\ p = 0
  <2>1. c \in 1 .. n + 1 /\ c - 1 \in 0 .. n
    BY <1>1, <1>3
  <2>2. /\ Total(bare, st, c, p) = AcceptedOf(bare, st, 1, c - 1) \o Partial(bare, c, p)
        /\ AcceptedOf(bare, st, 1, c - 1) \in Seq(Operation)
    BY <1>1, <2>1, TotalIs
  <2>3. Partial(bare, c, p) = <<>>
    BY <1>3, Zenon DEF Partial
  <2>4. Total(bare, st, c, p) = AcceptedOf(bare, st, 1, c - 1)
    BY <2>2, <2>3, ConcatEmpty
  <2>5. Begins(AcceptedOf(bare, st, 1, c - 1), AcceptedOf(bare, st, 1, n))
    BY <1>1, <2>1, AcceptedBegins
  <2> QED
    BY <1>1, <2>4, <2>5, Zenon
<1>4. CASE ~(c > n + 1) /\ p # 0
  <2>1. c \in 1 .. n /\ c \in 0 .. n /\ c \in 1 .. n + 1 /\ 1 \in 1 .. n /\ p > 0
    BY <1>1, <1>4
  <2>2. bare[c] \in Seq(Operation)
    BY <1>1, <2>1, SeqOfSeq
  <2>3. p \in 1 .. Len(bare[c]) + 1 /\ Len(bare[c]) + 1 \in p .. Len(bare[c]) + 1
    <3>1. PICK l \in Nat : l = Len(bare[c])
      BY <2>2, Indices
    <3>2. p <= l + 1
      BY <2>1, <3>1
    <3>3. p \in 1 .. l + 1 /\ l + 1 \in p .. l + 1
      BY <3>1, <3>2, <1>4
    <3> QED
      BY <3>1, <3>3, Zenon
  <2>4. PICK z \in Seq(Operation) : OnBus(bare[c]) = Partial(bare, c, p) \o z
    <3> DEFINE l == Len(bare[c]) + 1
    <3>1. /\ OnBus(SubSeq(bare[c], p, l - 1)) \in Seq(Operation)
          /\ Partial(bare, c, l) = Partial(bare, c, p) \o OnBus(SubSeq(bare[c], p, l - 1))
          /\ Partial(bare, c, l) = OnBus(bare[c])
      BY <2>2, <2>3, PartialGrows
    <3> QED
      BY <3>1, Zenon
  <2>5. Partial(bare, c, p) \in Seq(Operation)
    BY <2>2, <2>3, PartialGrows
  <2>6. /\ Total(bare, st, c, p) = AcceptedOf(bare, st, 1, c - 1) \o Partial(bare, c, p)
        /\ AcceptedOf(bare, st, 1, c - 1) \in Seq(Operation)
    BY <1>1, <2>1, TotalIs
  <2>7. AcceptedOf(bare, st, 1, c) = AcceptedOf(bare, st, 1, c - 1) \o OnBus(bare[c])
    <3>1. AcceptedOf(bare, st, 1, c) = AcceptedOf(bare, st, 1, c - 1) \o SentOf(bare, st, c)
      BY <1>1, <2>1, AcceptedStep
    <3> QED
      BY <2>1, <3>1, Zenon
  <2>8. Regroups(AcceptedOf(bare, st, 1, c - 1), Partial(bare, c, p), z)
    BY <2>5, <2>6, Regrouping
  <2>9. AcceptedOf(bare, st, 1, c) = Total(bare, st, c, p) \o z
    BY <2>4, <2>6, <2>7, <2>8, Zenon DEF Regroups
  <2>10. PICK y \in Seq(Operation) : AcceptedOf(bare, st, 1, n) = AcceptedOf(bare, st, 1, c) \o y
    BY <1>1, <2>1, AcceptedBegins DEF Begins
  <2>11. Total(bare, st, c, p) \in Seq(Operation)
    BY <2>5, <2>6, Chain
  <2>12. Regroups(Total(bare, st, c, p), z, y) /\ z \o y \in Seq(Operation)
    BY <2>11, Regrouping, Chain
  <2>13. AcceptedOf(bare, st, 1, n) = Total(bare, st, c, p) \o (z \o y)
    BY <2>9, <2>10, <2>12, Zenon DEF Regroups
  <2> QED
    BY <1>1, <2>12, <2>13, Zenon DEF Begins
<1> QED
  BY <1>2, <1>3, <1>4

\* A record more in the stream.
LEMMA StreamAdd ==
    ASSUME NEW total, NEW ts, NEW recs, Streamed(total, ts, recs),
           NEW rec \in Requests, NEW z \in Seq(Operation), Stands(rec, z)
    PROVE  Streamed(total \o z, ts, Append(recs, rec))
<1>1. PICK done \in Seq(Operation), rest \in Seq(Operation) :
        PerformsAll(ts, done) /\ StandsAll(recs, rest) /\ total = done \o rest
  BY DEF Streamed
<1>2. recs \in Seq(Requests)
  BY <1>1, StandsTyped
<1>3. StandsAll(Append(recs, rec), rest \o z)
  BY <1>1, <1>2, StandsAppend
<1>4. Regroups(done, rest, z) /\ rest \o z \in Seq(Operation)
  BY Regrouping, Chain
<1>5. total \o z = done \o (rest \o z)
  BY <1>1, <1>4, Zenon DEF Regroups
<1> QED
  BY <1>1, <1>3, <1>4, <1>5, Zenon DEF Streamed

\* The first record of the stream is executed.
LEMMA StreamExecute ==
    ASSUME NEW total, NEW ts \in Seq(Transactions), NEW recs, Streamed(total, ts, recs), recs # <<>>,
           NEW error \in Nat
    PROVE  /\ Streamed(total, Execute(Head(recs), error, ts).bus, Tail(recs))
           /\ Head(recs) \in Requests
<1>1. PICK done \in Seq(Operation), rest \in Seq(Operation) :
        PerformsAll(ts, done) /\ StandsAll(recs, rest) /\ total = done \o rest
  BY DEF Streamed
<1>2. HeadStands(recs, rest)
  BY <1>1, StandsHead
<1>3. PICK x \in Seq(Operation), y \in Seq(Operation) :
        rest = x \o y /\ Stands(Head(recs), x) /\ StandsAll(Tail(recs), y)
  BY <1>2 DEF HeadStands
<1>4. Head(recs) \in Requests
  BY <1>1, StandsTyped, HeadTail
<1>5. Does(ts, Execute(Head(recs), error, ts).bus, x)
  BY <1>3, <1>4, ExecuteDoes
<1>6. PICK us \in Seq(Transactions) : Execute(Head(recs), error, ts).bus = ts \o us /\ PerformsAll(us, x)
  BY <1>5 DEF Does
<1>7. PerformsAll(ts \o us, done \o x)
  BY <1>1, <1>3, <1>6, PerformsConcat
<1>8. Regroups(done, x, y) /\ done \o x \in Seq(Operation)
  BY Regrouping, Chain
<1>9. total = (done \o x) \o y
  BY <1>1, <1>3, <1>8, Zenon DEF Regroups
<1> QED
  BY <1>3, <1>4, <1>6, <1>7, <1>8, <1>9, Zenon DEF Streamed

\* A function on 1 .. n is a list.
LEMMA Listed ==
    ASSUME NEW T, NEW n \in Nat, NEW f \in [1 .. n -> T]
    PROVE  f \in Seq(T) /\ Len(f) = n
  OBVIOUS

\* A list has the type of its elements.
LEMMA Retyped ==
    ASSUME NEW T, NEW s \in Seq(T), NEW G, \A i \in 1 .. Len(s) : s[i] \in G
    PROVE  s \in Seq(G)
<1>1. s = [i \in 1 .. Len(s) |-> s[i]] /\ Len(s) \in Nat
  OBVIOUS
<1>2. [i \in 1 .. Len(s) |-> s[i]] \in Seq(G)
  BY <1>1
<1> QED
  BY <1>1, <1>2, Zenon

\* A list with one element replaced.
LEMMA Replaced ==
    ASSUME NEW T, NEW s \in Seq(T), NEW i \in 1 .. Len(s), NEW e \in T
    PROVE  /\ [s EXCEPT ![i] = e] \in Seq(T) /\ Len([s EXCEPT ![i] = e]) = Len(s)
           /\ \A k \in 1 .. Len(s) : [s EXCEPT ![i] = e][k] = IF k = i THEN e ELSE s[k]
<1>1. s \in [1 .. Len(s) -> T] /\ Len(s) \in Nat
  OBVIOUS
<1>2. [s EXCEPT ![i] = e] \in [1 .. Len(s) -> T]
  BY <1>1, Zenon
<1>3. \A k \in 1 .. Len(s) : [s EXCEPT ![i] = e][k] = IF k = i THEN e ELSE s[k]
  BY <1>1, Zenon
<1> QED
  BY <1>1, <1>2, <1>3, Listed

-----------------------------------------------------------------------------
(* What the answers may change *)

\* An error flag is set, or the value that was read is stored.
LEMMA StoredOp ==
    ASSUME NEW op \in Operation
    PROVE  /\ \A e \in BOOLEAN : [op EXCEPT !.err = e] \in Operation /\ Bare([op EXCEPT !.err = e]) = Bare(op)
           /\ \A v \in Nat : op.dir = "r" => [op EXCEPT !.val = v] \in Operation /\ Bare([op EXCEPT !.val = v]) = Bare(op)
<1>1. ASSUME NEW e \in BOOLEAN
      PROVE  [op EXCEPT !.err = e] \in Operation /\ Bare([op EXCEPT !.err = e]) = Bare(op)
  BY DEF Operation, Bare
<1>2. ASSUME NEW v \in Nat, op.dir = "r"
      PROVE  [op EXCEPT !.val = v] \in Operation /\ Bare([op EXCEPT !.val = v]) = Bare(op)
  BY <1>2 DEF Operation, Bare
<1> QED
  BY <1>1, <1>2

\* Lists of operations that differ only in what is stored later.
LEMMA SameBares ==
    ASSUME NEW s \in Seq(Operation), NEW t \in Seq(Operation), Len(s) = Len(t),
           \A i \in 1 .. Len(s) : Bare(s[i]) = Bare(t[i])
    PROVE  Bares(s) = Bares(t)
<1>1. DOMAIN s = 1 .. Len(s) /\ DOMAIN t = 1 .. Len(s)
  BY Indices
<1>2. Bares(s) = [i \in 1 .. Len(s) |-> Bare(s[i])] /\ Bares(t) = [i \in 1 .. Len(s) |-> Bare(t[i])]
  BY <1>1, Zenon DEF Bares
<1> QED
  BY <1>2

\* Such a change of one cycle.
LEMMA StoreCycle ==
    ASSUME NEW cs \in Seq(Seq(Operation)), NEW c \in 1 .. Len(cs), NEW s \in Seq(Operation),
           Bares(s) = Bares(cs[c])
    PROVE  /\ [cs EXCEPT ![c] = s] \in Seq(Seq(Operation)) /\ Len([cs EXCEPT ![c] = s]) = Len(cs)
           /\ [cs EXCEPT ![c] = s][c] = s
           /\ BareAll([cs EXCEPT ![c] = s]) = BareAll(cs)
<1> DEFINE S == Seq(Operation)
<1>1. PICK n \in Nat : n = Len(cs) /\ c \in 1 .. n
  BY Indices
<1>2. cs \in Seq(S) /\ s \in S
  OBVIOUS
<1> HIDE DEF S
<1>3. PICK ds \in Seq(S) : ds = [cs EXCEPT ![c] = s]
  BY <1>1, <1>2, Replaced
<1>4. Len(ds) = n /\ ds[c] = s /\ \A i \in 1 .. n : i # c => ds[i] = cs[i]
  BY <1>1, <1>2, <1>3
<1>5. \A i \in 1 .. n : Bares(ds[i]) = Bares(cs[i])
  BY <1>4, Zenon
<1>6. BareAll(ds) = [i \in 1 .. n |-> Bares(ds[i])] /\ BareAll(cs) = [i \in 1 .. n |-> Bares(cs[i])]
  BY <1>1, <1>4, Zenon DEF BareAll
<1>7. BareAll(ds) = BareAll(cs)
  BY <1>5, <1>6
<1> QED
  BY <1>1, <1>3, <1>4, <1>7 DEF S

\* What the cursors of a response find.
LEMMA FindReadFacts ==
    ASSUME NEW ops \in Seq(Operation), NEW i \in Nat \ {0}
    PROVE  /\ FindRead(ops, i) \in 0 .. Len(ops)
           /\ FindRead(ops, i) # 0 => ops[FindRead(ops, i)].dir = "r"
<1> DEFINE S == {j \in i .. Len(ops) : ops[j].dir = "r"}
<1>1. PICK n \in Nat : n = Len(ops)
  BY Indices
<1>2. FindRead(ops, i) = IF S = {} THEN 0 ELSE Least(S)
  BY Zenon DEF FindRead, LeastOrNull
<1>3. S \in SUBSET Nat /\ \A j \in S : j \in 0 .. n /\ ops[j].dir = "r"
  BY <1>1
<1> HIDE DEF S
<1>4. S # {} => Least(S) \in S
  BY <1>3, LeastFacts
<1>5. 0 \in 0 .. n
  BY <1>1
<1> QED
  BY <1>1, <1>2, <1>3, <1>4, <1>5, Zenon

\* The same for the bus operations.
LEMMA FindBusFacts ==
    ASSUME NEW ops \in Seq(Operation), NEW i \in Nat \ {0}
    PROVE  FindBus(ops, i) \in 0 .. Len(ops)
<1> DEFINE S == {j \in i .. Len(ops) : IsBus(ops[j])}
<1>1. PICK n \in Nat : n = Len(ops)
  BY Indices
<1>2. FindBus(ops, i) = IF S = {} THEN 0 ELSE Least(S)
  BY Zenon DEF FindBus, LeastOrNull
<1>3. S \in SUBSET Nat /\ \A j \in S : j \in 0 .. n
  BY <1>1
<1> HIDE DEF S
<1>4. S # {} => Least(S) \in S
  BY <1>3, LeastFacts
<1>5. 0 \in 0 .. n
  BY <1>1
<1> QED
  BY <1>1, <1>2, <1>3, <1>4, <1>5, Zenon

\* The operations a status word is about.
LEMMA StatusOpsFacts ==
    ASSUME NEW ops \in Seq(Operation), NEW from, NEW bits
    PROVE  /\ StatusOps(ops, from, bits) \in SUBSET (1 .. Len(ops))
           /\ Cardinality(StatusOps(ops, from, bits)) # 0 =>
                Most(StatusOps(ops, from, bits)) \in 1 .. Len(ops)
<1> DEFINE S == StatusOps(ops, from, bits)
<1>1. PICK n \in Nat : n = Len(ops) /\ DOMAIN ops = 1 .. n
  BY Indices
<1>2. S \in SUBSET (1 .. n)
  BY <1>1 DEF StatusOps
<1> HIDE DEF S
<1>3. S \in SUBSET (0 .. n) /\ S \in SUBSET (1 .. n)
  BY <1>1, <1>2
<1>4. S # {} => Most(S) \in 1 .. n
  BY <1>1, <1>3, MostFacts
<1>5. S = {} => Cardinality(S) = 0
  BY FS_EmptySet
<1> QED
  BY <1>1, <1>2, <1>4, <1>5 DEF S

\* The answers a callback can be given.
Statuses == {"none", "OK", "SEGFAULT", "FAIL", "WIDTH", "ENDIAN", "ADDRESS", "OVERFLOW"}

\* The responses of the model, and one that waits for a cycle that was sent, with
\* its cursors in the cycle.
Responses == [addr : Nat, cycle : Nat, write : Nat, status : Nat]
GoodResponse(bare, over, r) ==
    /\ r \in Responses /\ r.cycle \in (1 .. Len(bare)) \ over
    /\ r.write \in 0 .. Len(bare[r.cycle]) /\ r.status \in 0 .. Len(bare[r.cycle])
    /\ r.write # 0 => bare[r.cycle][r.write].dir = "r"

\* What a master may have stored for the cycles bare, of which those of over have
\* been called back with an overflow.
Stores(bare, over) ==
    {m \in [cycles : Seq(Seq(Operation)), resp : Seq(Responses), status : [1 .. Len(bare) -> Statuses]] :
        /\ BareAll(m.cycles) = bare
        /\ \A c \in 1 .. Len(bare) : m.status[c] = "OVERFLOW" <=> c \in over
        /\ \A i \in 1 .. Len(m.resp) : GoodResponse(bare, over, m.resp[i])}

\* The cycles of a store.
LEMMA StoresFacts ==
    ASSUME NEW bare, NEW over, NEW m \in Stores(bare, over)
    PROVE  /\ m.cycles \in Seq(Seq(Operation)) /\ Len(m.cycles) = Len(bare)
           /\ m.resp \in Seq(Responses) /\ m.status \in [1 .. Len(bare) -> Statuses]
           /\ \A c \in 1 .. Len(bare) : /\ m.cycles[c] \in Seq(Operation) /\ Len(bare[c]) = Len(m.cycles[c])
                                        /\ Bares(m.cycles[c]) = bare[c]
                                        /\ \A i \in 1 .. Len(bare[c]) : bare[c][i].dir = m.cycles[c][i].dir
<1>1. /\ m.cycles \in Seq(Seq(Operation)) /\ BareAll(m.cycles) = bare
      /\ m.resp \in Seq(Responses) /\ m.status \in [1 .. Len(bare) -> Statuses]
  BY DEF Stores
<1>2. Len(m.cycles) = Len(bare)
  BY <1>1, BareAllFacts
<1>3. ASSUME NEW c \in 1 .. Len(bare)
      PROVE  /\ m.cycles[c] \in Seq(Operation) /\ Len(bare[c]) = Len(m.cycles[c])
             /\ Bares(m.cycles[c]) = bare[c]
             /\ \A i \in 1 .. Len(bare[c]) : bare[c][i].dir = m.cycles[c][i].dir
  <2>1. m.cycles[c] \in Seq(Operation) /\ bare[c] = Bares(m.cycles[c])
    BY <1>1, <1>2, BareAllFacts
  <2>2. /\ Len(Bares(m.cycles[c])) = Len(m.cycles[c])
        /\ \A i \in 1 .. Len(m.cycles[c]) : SameFor(m.cycles[c][i], Bares(m.cycles[c])[i])
    BY <2>1, BaresFacts
  <2> QED
    BY <2>1, <2>2, Zenon DEF SameFor
<1> QED
  BY <1>1, <1>2, <1>3

\* A list without one of its elements.
LEMMA Removal ==
    ASSUME NEW T, NEW s \in Seq(T), NEW i \in 1 .. Len(s)
    PROVE  RemoveAt(s, i) \in Seq(T)
<1>1. PICK n \in Nat : n = Len(s) /\ i \in 1 .. n
  BY Indices
<1>2. 1 \in 1 .. n + 1 /\ i \in 1 .. n + 1 /\ i + 1 \in 1 .. n + 1 /\ n + 1 \in i + 1 .. n + 1 /\ (n + 1) - 1 = n
  BY <1>1
<1>3. SubSeq(s, 1, i - 1) \in Seq(T) /\ SubSeq(s, i + 1, n) \in Seq(T)
  BY <1>1, <1>2, Part
<1>4. SubSeq(s, 1, i - 1) \o SubSeq(s, i + 1, n) \in Seq(T)
  BY <1>3, Chain
<1> QED
  BY <1>1, <1>4, Zenon DEF RemoveAt

\* eb_socket_write_config keeps what was asked of the operations, the cycles that
\* overflowed, and the cursors in their cycles.
LEMMA WriteConfigFacts ==
    ASSUME NEW bare \in Seq(Seq(Operation)), NEW over, NEW m \in Stores(bare, over),
           NEW width \in Nat, NEW a \in Nat, NEW value \in Nat
    PROVE  WriteConfig(m, width, a, value) \in Stores(bare, over)
<1> DEFINE hit == {i \in DOMAIN m.resp : m.resp[i].addr = a - (a % 2)}
           i    == Least(hit)
           r    == m.resp[i]
           ops  == m.cycles[r.cycle]
           said == StatusOps(ops, r.status, width * ByteBits)
           n    == Cardinality(said)
           fail == IF a % 2 = 0 THEN r.write = 0 ELSE n = 0
           bad(k) == k \in said /\ Bit(value, Cardinality({j \in said : j > k}))
           stored ==
             IF fail THEN ops
             ELSE IF a % 2 = 0 THEN [ops EXCEPT ![r.write].val = value]
             ELSE [k \in DOMAIN ops |->
                    [ops[k] EXCEPT !.err = @ \/ (k \in said /\ Bit(value, Cardinality({j \in said : j > k})))]]
           left ==
             [r EXCEPT !.write = IF a % 2 = 0 /\ ~fail THEN FindRead(ops, @ + 1) ELSE @,
                       !.status = IF a % 2 = 0 THEN @ ELSE IF fail THEN 0 ELSE FindBus(ops, Most(said) + 1)]
           done == fail \/ (left.write = 0 /\ left.status = 0)
           verdict == IF fail THEN "FAIL"
                      ELSE IF \E k \in DOMAIN stored : stored[k].err THEN "SEGFAULT" ELSE "OK"
           new == [cycles |-> [m.cycles EXCEPT ![r.cycle] = stored],
                   resp   |-> IF done THEN RemoveAt(m.resp, i) ELSE [m.resp EXCEPT ![i] = left],
                   status |-> IF done THEN [m.status EXCEPT ![r.cycle] = verdict] ELSE m.status]
<1>1. WriteConfig(m, width, a, value) = IF hit = {} THEN m ELSE new
  BY DEF WriteConfig
<1>2. CASE hit = {}
  BY <1>1, <1>2
<1>3. CASE hit # {}
  <2>1. PICK l \in Nat : l = Len(m.resp) /\ DOMAIN m.resp = 1 .. l
    BY StoresFacts, Indices
  <2>2. i \in 1 .. l
    <3>1. hit \in SUBSET Nat
      BY <2>1
    <3>2. i \in hit
      BY <1>3, <3>1, LeastFacts
    <3> QED
      BY <2>1, <3>2
  <2>3. GoodResponse(bare, over, r)
    BY <2>1, <2>2 DEF Stores
  <2> HIDE DEF i, hit
  <2>4. PICK c \in 1 .. Len(bare) : c = r.cycle /\ c \notin over
    BY <2>3 DEF GoodResponse
  <2>5. /\ ops \in Seq(Operation) /\ Len(bare[c]) = Len(ops) /\ Bares(ops) = bare[c]
        /\ \A k \in 1 .. Len(ops) : bare[c][k].dir = ops[k].dir
    <3>1. \A d \in 1 .. Len(bare) : /\ m.cycles[d] \in Seq(Operation) /\ Len(bare[d]) = Len(m.cycles[d])
                                     /\ Bares(m.cycles[d]) = bare[d]
                                     /\ \A k \in 1 .. Len(bare[d]) : bare[d][k].dir = m.cycles[d][k].dir
      BY StoresFacts
    <3> QED
      BY <2>4, <3>1, Zenon
  <2>6. PICK x \in Nat : x = Len(ops) /\ DOMAIN ops = 1 .. x
    BY <2>5, Indices
  <2>7. r \in Responses /\ r.write \in 0 .. x /\ r.status \in 0 .. x /\ (r.write # 0 => ops[r.write].dir = "r")
    <3>1. /\ r \in Responses /\ r.write \in 0 .. Len(bare[c]) /\ r.status \in 0 .. Len(bare[c])
          /\ r.write # 0 => bare[c][r.write].dir = "r"
      BY <2>3, <2>4, Zenon DEF GoodResponse
    <3>2. r.write # 0 => r.write \in 1 .. x
      BY <2>5, <2>6, <3>1
    <3> QED
      BY <2>5, <2>6, <3>1, <3>2, Zenon
  <2>8. n # 0 => Most(said) \in 1 .. x
    BY <2>5, <2>6, StatusOpsFacts
  <2> HIDE DEF r, said, n
  <2>9. stored \in Seq(Operation) /\ Bares(stored) = bare[c]
    <3>1. CASE fail
      BY <2>5, <3>1, Zenon
    <3>2. CASE ~fail /\ a % 2 = 0
      <4>1. r.write \in 1 .. x /\ ops[r.write].dir = "r" /\ stored = [ops EXCEPT ![r.write].val = value]
        BY <2>7, <3>2
      <4>2. PICK w \in 1 .. x : w = r.write /\ ops[w].dir = "r"
        BY <4>1
      <4> DEFINE o == [ops[w] EXCEPT !.val = value]
      <4>3. ops[w] \in Operation
        BY <2>5, <2>6
      <4>4. o \in Operation /\ Bare(o) = Bare(ops[w])
        BY <4>2, <4>3, StoredOp
      <4>5. stored = [ops EXCEPT ![w] = o]
        BY <4>1, <4>2
      <4> HIDE DEF o, ops
      <4>6. PICK s \in Seq(Operation) : s = [ops EXCEPT ![w] = o]
        <5>1. w \in 1 .. Len(ops)
          BY <2>6
        <5> QED
          BY <2>5, <5>1, <4>4, Replaced
      <4>7. Len(s) = x /\ s[w] = o /\ \A k \in 1 .. x : k # w => s[k] = ops[k]
        <5>1. w \in 1 .. Len(ops)
          BY <2>6
        <5>2. Len(s) = Len(ops) /\ \A k \in 1 .. Len(ops) : s[k] = IF k = w THEN o ELSE ops[k]
          BY <2>5, <5>1, <4>4, <4>6, Replaced
        <5> QED
          BY <2>6, <5>1, <5>2, Zenon
      <4>8. \A k \in 1 .. x : Bare(s[k]) = Bare(ops[k])
        BY <4>4, <4>7, Zenon
      <4>9. Bares(s) = Bares(ops)
        BY <2>5, <2>6, <4>7, <4>8, SameBares
      <4> HIDE DEF stored
      <4> QED
        BY <2>5, <4>5, <4>6, <4>9, Zenon
    <3>3. CASE ~fail /\ a % 2 # 0
      <4> DEFINE e(k) == ops[k].err \/ bad(k)
                 s == [k \in 1 .. x |-> [ops[k] EXCEPT !.err = e(k)]]
      <4>1. stored = s
        BY <2>6, <3>3
      <4>2. \A k \in 1 .. x : ops[k] \in Operation
        BY <2>5, <2>6
      <4>3. \A k \in 1 .. x : ops[k].err \in BOOLEAN
        BY <4>2 DEF Operation
      <4> HIDE DEF stored, ops, bad
      <4>4. \A k \in 1 .. x : e(k) \in BOOLEAN
        BY Zenon
      <4> HIDE DEF e
      <4>5. \A k \in 1 .. x : [ops[k] EXCEPT !.err = e(k)] \in Operation /\ Bare([ops[k] EXCEPT !.err = e(k)]) = Bare(ops[k])
        BY <4>2, <4>4, StoredOp
      <4>6. s \in Seq(Operation) /\ Len(s) = x
        <5>1. s \in [1 .. x -> Operation]
          BY <4>5
        <5> HIDE DEF s
        <5> QED
          BY <2>6, <5>1, Listed
      <4>7. \A k \in 1 .. x : Bare(s[k]) = Bare(ops[k])
        BY <4>5
      <4> HIDE DEF s
      <4>8. Bares(s) = Bares(ops)
        BY <2>5, <2>6, <4>6, <4>7, SameBares
      <4> QED
        BY <2>5, <4>1, <4>6, <4>8, Zenon
    <3> QED
      BY <3>1, <3>2, <3>3
  <2>10. GoodResponse(bare, over, left)
    <3>1. r.write + 1 \in Nat \ {0} /\ (n # 0 => Most(said) + 1 \in Nat \ {0}) /\ 0 \in 0 .. x
      BY <2>6, <2>7, <2>8
    <3>2. /\ FindRead(ops, r.write + 1) \in 0 .. x
          /\ FindRead(ops, r.write + 1) # 0 => ops[FindRead(ops, r.write + 1)].dir = "r"
      BY <2>5, <2>6, <3>1, FindReadFacts
    <3>3. n # 0 => FindBus(ops, Most(said) + 1) \in 0 .. x
      BY <2>5, <2>6, <3>1, FindBusFacts
    <3> HIDE DEF ops
    <3> DEFINE wr == IF a % 2 = 0 /\ ~fail THEN FindRead(ops, r.write + 1) ELSE r.write
               su == IF a % 2 = 0 THEN r.status ELSE IF fail THEN 0 ELSE FindBus(ops, Most(said) + 1)
    <3>4. wr \in 0 .. x /\ (wr # 0 => ops[wr].dir = "r")
      BY <2>7, <3>2, Zenon
    <3>5. su \in 0 .. x
      BY <2>7, <3>1, <3>3, Zenon
    <3>6. left = [r EXCEPT !.write = wr, !.status = su]
      OBVIOUS
    <3> HIDE DEF left, wr, su
    <3>7. left \in Responses /\ left.cycle = c /\ left.write = wr /\ left.status = su
      <4>1. r.cycle = c /\ r \in Responses /\ wr \in Nat /\ su \in Nat
        BY <2>4, <2>6, <2>7, <3>4, <3>5
      <4> QED
        BY <3>6, <4>1 DEF Responses
    <3>8. wr # 0 => bare[c][wr].dir = "r"
      <4>1. wr # 0 => wr \in 1 .. x
        BY <2>6, <3>4
      <4> QED
        BY <2>5, <2>6, <3>4, <4>1, Zenon
    <3>9. c \in (1 .. Len(bare)) \ over
      BY <2>4, Zenon
    <3> QED
      BY <2>5, <2>6, <3>4, <3>5, <3>7, <3>8, <3>9, Zenon DEF GoodResponse
  <2>11. verdict \in {"FAIL", "SEGFAULT", "OK"}
    BY Zenon
  <2> HIDE DEF left, stored, verdict, fail, done
  <2>12. [m.cycles EXCEPT ![c] = stored] \in Seq(Seq(Operation)) /\ BareAll([m.cycles EXCEPT ![c] = stored]) = bare
    <3>1. m.cycles \in Seq(Seq(Operation)) /\ Len(m.cycles) = Len(bare) /\ BareAll(m.cycles) = bare
      BY StoresFacts DEF Stores
    <3>2. Bares(stored) = Bares(m.cycles[c]) /\ c \in 1 .. Len(m.cycles)
      BY <2>4, <2>5, <2>9, <3>1, Zenon
    <3> QED
      BY <2>9, <3>1, <3>2, StoreCycle, ZenonT(60)
  <2>13. /\ new.resp \in Seq(Responses)
         /\ \A k \in 1 .. Len(new.resp) : GoodResponse(bare, over, new.resp[k])
    <3> DEFINE G == {q \in Responses : GoodResponse(bare, over, q)}
    <3>1. m.resp \in Seq(G)
      <4>1. \A k \in 1 .. l : m.resp[k] \in G
        BY <2>1 DEF Stores, GoodResponse
      <4>2. m.resp \in Seq(Responses)
        BY StoresFacts
      <4> HIDE DEF G
      <4> QED
        BY <2>1, <4>1, <4>2, Retyped
    <3>2. left \in G
      BY <2>10 DEF GoodResponse
    <3>3. \A s \in Seq(G) : s \in Seq(Responses) /\ \A k \in 1 .. Len(s) : GoodResponse(bare, over, s[k])
      OBVIOUS
    <3> HIDE DEF G
    <3>4. RemoveAt(m.resp, i) \in Seq(G)
      BY <2>1, <2>2, <3>1, Removal
    <3>5. [m.resp EXCEPT ![i] = left] \in Seq(G)
      BY <2>1, <2>2, <3>1, <3>2
    <3>6. new.resp \in Seq(G)
      BY <3>4, <3>5
    <3> QED
      BY <3>3, <3>6, Zenon
  <2>14. /\ new.status \in [1 .. Len(bare) -> Statuses]
         /\ \A k \in 1 .. Len(bare) : new.status[k] = "OVERFLOW" <=> k \in over
    <3>1. /\ m.status \in [1 .. Len(bare) -> Statuses]
          /\ \A k \in 1 .. Len(bare) : m.status[k] = "OVERFLOW" <=> k \in over
      BY DEF Stores
    <3>2. verdict \in Statuses /\ verdict # "OVERFLOW"
      BY <2>11 DEF Statuses
    <3>3. /\ [m.status EXCEPT ![c] = verdict] \in [1 .. Len(bare) -> Statuses]
          /\ \A k \in 1 .. Len(bare) : [m.status EXCEPT ![c] = verdict][k] = IF k = c THEN verdict ELSE m.status[k]
      BY <3>1, <3>2
    <3>4. new.status = IF done THEN [m.status EXCEPT ![c] = verdict] ELSE m.status
      BY <2>4
    <3> HIDE DEF new
    <3> QED
      BY <2>4, <3>1, <3>2, <3>3, <3>4, Zenon
  <2>15. new.cycles = [m.cycles EXCEPT ![c] = stored] /\ new = [cycles |-> new.cycles, resp |-> new.resp, status |-> new.status]
    BY <2>4
  <2> HIDE DEF new
  <2>16. new \in [cycles : Seq(Seq(Operation)), resp : Seq(Responses), status : [1 .. Len(bare) -> Statuses]]
    BY <2>12, <2>13, <2>14, <2>15, Zenon
  <2>17. new \in Stores(bare, over)
    BY <2>12, <2>13, <2>14, <2>15, <2>16, Zenon DEF Stores
  <2> QED
    BY <1>1, <1>3, <2>17, Zenon
<1> QED
  BY <1>2, <1>3

\* The stores after the first 0, 1, ... words of a record.
DeliverRecordSteps(k, m, rec) ==
    /\ k[0] = m
    /\ \A i \in 1 .. Len(rec.words) : k[i] = WriteConfig(k[i - 1], Width(rec.lanes), rec.addr, Unpack(rec.words[i], rec.lanes))
    /\ DeliverRecord(m, rec) = k[Len(rec.words)]

\* The recursion of DeliverRecord defines a function.
LEMMA DeliverRecordRec ==
    ASSUME NEW bare \in Seq(Seq(Operation)), NEW over, NEW m \in Stores(bare, over),
           NEW rec \in Answers, SelOk(rec.lanes)
    PROVE  \E k \in [0 .. Len(rec.words) -> Stores(bare, over)] : DeliverRecordSteps(k, m, rec)
<1> DEFINE n == Len(rec.words)
           V == Stores(bare, over)
           z == m
           S(v, i) == WriteConfig(v, Width(rec.lanes), rec.addr, Unpack(rec.words[i], rec.lanes))
           h == [i \in 1 .. n |-> [v \in V |-> S(v, i)]]
           B(k, i) == IF i = 0 THEN z ELSE S(k[i - 1], i)
           E(k) == k = [i \in 0 .. n |-> B(k, i)]
<1>1. n \in Nat /\ z \in V
  <2>1. rec.words \in Seq(Nat)
    BY DEF Answers
  <2> QED
    BY <2>1, Indices
<1>2. \A i \in 1 .. n, v \in V : S(v, i) \in V
  <2> SUFFICES ASSUME NEW i \in 1 .. Len(rec.words), NEW v \in Stores(bare, over)
               PROVE  WriteConfig(v, Width(rec.lanes), rec.addr, Unpack(rec.words[i], rec.lanes)) \in Stores(bare, over)
    BY Zenon
  <2>1. rec.words \in Seq(Nat) /\ rec.addr \in Nat /\ rec.lanes \in LaneSets
    BY DEF Answers, SelOk
  <2>2. rec.words[i] \in Nat
    BY <2>1
  <2>3. Width(rec.lanes) \in Nat /\ Unpack(rec.words[i], rec.lanes) \in Nat
    <3>1. Width(rec.lanes) \in 1 .. 8
      BY <2>1, LaneSetFacts, Zenon
    <3>2. Unpack(rec.words[i], rec.lanes) \in Nat
      BY <2>1, <2>2, PackFacts
    <3> QED
      BY <3>1, <3>2
  <2> QED
    BY <2>1, <2>3, WriteConfigFacts
<1> DEFINE k == CHOOSE g : E(g)
<1>3. DeliverRecord(m, rec) = k[n]
  BY Zenon DEF DeliverRecord
<1> HIDE DEF S, V, z, n
<1>4. h \in [1 .. n -> [V -> V]]
  BY <1>2
<1>5. PICK f \in [0 .. n -> V] : f[0] = z /\ \A i \in 1 .. n : f[i] = h[i][f[i - 1]]
  <2> HIDE DEF h
  <2>1. HasRun(V, z, n, h)
    BY <1>1, <1>4, RunExists, Zenon
  <2> QED
    BY <2>1, Zenon DEF HasRun
<1>6. \A i \in 1 .. n : i - 1 \in 0 .. n /\ i \in 0 .. n /\ i # 0
  BY <1>1
<1>7. E(f)
  <2>1. \A i \in 1 .. n : f[i] = S(f[i - 1], i)
    BY <1>5, <1>6
  <2>2. \A i \in 0 .. n : i = 0 \/ i \in 1 .. n
    BY <1>1
  <2>3. \A i \in 0 .. n : f[i] = B(f, i)
    BY <1>5, <1>6, <2>1, <2>2, Zenon
  <2> HIDE DEF B
  <2> QED
    BY <2>3
<1>8. E(k)
  BY <1>7
<1> HIDE DEF k
<1>9. k[0] = z /\ \A i \in 1 .. n : k[i] = S(k[i - 1], i)
  <2>1. \A i \in 0 .. n : k[i] = B(k, i)
    <3> HIDE DEF B
    <3> QED
      BY <1>8, Zenon
  <2>2. 0 \in 0 .. n
    BY <1>1
  <2> QED
    BY <1>6, <2>1, <2>2, Zenon
<1>10. \A i \in 0 .. n : k[i] \in V
  <2>1. \A i \in 1 .. n : k[i - 1] \in V => k[i] \in V
    BY <1>2, <1>9, Zenon
  <2>2. k[0] \in V
    BY <1>1, <1>9, Zenon
  <2> QED
    BY <1>1, <2>1, <2>2, TypedSteps
<1>11. k \in [0 .. n -> V]
  <2> HIDE DEF B
  <2>1. k = [i \in 0 .. n |-> k[i]]
    BY <1>8, Zenon
  <2> QED
    BY <1>10, <2>1, Zenon
<1> QED
  BY <1>3, <1>9, <1>11, Zenon DEF DeliverRecordSteps, n, V, z, S

\* DeliverRecord gives such a store.
LEMMA DeliverRecordFacts ==
    ASSUME NEW bare \in Seq(Seq(Operation)), NEW over, NEW m \in Stores(bare, over), NEW rec \in Answers
    PROVE  DeliverRecord(m, rec) \in Stores(bare, over)
<1>1. CASE SelOk(rec.lanes)
  <2>1. PICK n \in Nat : n = Len(rec.words)
    <3>1. rec.words \in Seq(Nat)
      BY DEF Answers
    <3> QED
      BY <3>1, Indices
  <2>2. PICK k \in [0 .. n -> Stores(bare, over)] : DeliverRecordSteps(k, m, rec)
    BY <1>1, <2>1, DeliverRecordRec
  <2>3. DeliverRecord(m, rec) = k[n] /\ n \in 0 .. n
    BY <2>1, <2>2 DEF DeliverRecordSteps
  <2> QED
    BY <2>2, <2>3, Zenon
<1>2. CASE ~SelOk(rec.lanes)
  BY <1>2, Zenon DEF DeliverRecord
<1> QED
  BY <1>1, <1>2

\* The stores after the first 0, 1, ... records of a reply.
DeliverSteps(k, m, recs) ==
    /\ k[0] = m
    /\ \A i \in 1 .. Len(recs) : k[i] = DeliverRecord(k[i - 1], recs[i])
    /\ Deliver(m, recs) = k[Len(recs)]

\* The recursion of Deliver defines a function.
LEMMA DeliverRec ==
    ASSUME NEW bare \in Seq(Seq(Operation)), NEW over, NEW m \in Stores(bare, over),
           NEW recs \in Seq(Answers)
    PROVE  \E k \in [0 .. Len(recs) -> Stores(bare, over)] : DeliverSteps(k, m, recs)
<1> DEFINE n == Len(recs)
           V == Stores(bare, over)
           z == m
           S(v, i) == DeliverRecord(v, recs[i])
           h == [i \in 1 .. n |-> [v \in V |-> S(v, i)]]
           B(k, i) == IF i = 0 THEN z ELSE S(k[i - 1], i)
           E(k) == k = [i \in 0 .. n |-> B(k, i)]
<1>1. n \in Nat /\ z \in V
  BY Indices
<1>2. \A i \in 1 .. n, v \in V : S(v, i) \in V
  <2> SUFFICES ASSUME NEW i \in 1 .. Len(recs), NEW v \in Stores(bare, over)
               PROVE  DeliverRecord(v, recs[i]) \in Stores(bare, over)
    BY Zenon
  <2>1. recs[i] \in Answers
    OBVIOUS
  <2> QED
    BY <2>1, DeliverRecordFacts
<1> DEFINE k == CHOOSE g : E(g)
<1>3. Deliver(m, recs) = k[n]
  BY Zenon DEF Deliver
<1> HIDE DEF S, V, z, n
<1>4. h \in [1 .. n -> [V -> V]]
  BY <1>2
<1>5. PICK f \in [0 .. n -> V] : f[0] = z /\ \A i \in 1 .. n : f[i] = h[i][f[i - 1]]
  <2> HIDE DEF h
  <2>1. HasRun(V, z, n, h)
    BY <1>1, <1>4, RunExists, Zenon
  <2> QED
    BY <2>1, Zenon DEF HasRun
<1>6. \A i \in 1 .. n : i - 1 \in 0 .. n /\ i \in 0 .. n /\ i # 0
  BY <1>1
<1>7. E(f)
  <2>1. \A i \in 1 .. n : f[i] = S(f[i - 1], i)
    BY <1>5, <1>6
  <2>2. \A i \in 0 .. n : i = 0 \/ i \in 1 .. n
    BY <1>1
  <2>3. \A i \in 0 .. n : f[i] = B(f, i)
    BY <1>5, <1>6, <2>1, <2>2, Zenon
  <2> HIDE DEF B
  <2> QED
    BY <2>3
<1>8. E(k)
  BY <1>7
<1> HIDE DEF k
<1>9. k[0] = z /\ \A i \in 1 .. n : k[i] = S(k[i - 1], i)
  <2>1. \A i \in 0 .. n : k[i] = B(k, i)
    <3> HIDE DEF B
    <3> QED
      BY <1>8, Zenon
  <2>2. 0 \in 0 .. n
    BY <1>1
  <2> QED
    BY <1>6, <2>1, <2>2, Zenon
<1>10. \A i \in 0 .. n : k[i] \in V
  <2>1. \A i \in 1 .. n : k[i - 1] \in V => k[i] \in V
    BY <1>2, <1>9, Zenon
  <2>2. k[0] \in V
    BY <1>1, <1>9, Zenon
  <2> QED
    BY <1>1, <2>1, <2>2, TypedSteps
<1>11. k \in [0 .. n -> V]
  <2> HIDE DEF B
  <2>1. k = [i \in 0 .. n |-> k[i]]
    BY <1>8, Zenon
  <2> QED
    BY <1>10, <2>1, Zenon
<1> QED
  BY <1>3, <1>9, <1>11, Zenon DEF DeliverSteps, n, V, z, S

\* Deliver gives such a store.
LEMMA DeliverFacts ==
    ASSUME NEW bare \in Seq(Seq(Operation)), NEW over, NEW m \in Stores(bare, over), NEW recs \in Seq(Answers)
    PROVE  Deliver(m, recs) \in Stores(bare, over)
<1>1. PICK n \in Nat : n = Len(recs)
  BY Indices
<1>2. PICK k \in [0 .. n -> Stores(bare, over)] : DeliverSteps(k, m, recs)
  BY <1>1, DeliverRec
<1>3. Deliver(m, recs) = k[n] /\ n \in 0 .. n
  BY <1>1, <1>2 DEF DeliverSteps
<1> QED
  BY <1>2, <1>3, Zenon

-----------------------------------------------------------------------------
(* The invariant *)

\* The formats eb_device_flush settles on do not change what is asked.
LEMMA SettledFacts ==
    ASSUME NEW ops \in Seq(Operation), Objections(ops) = {}
    PROVE  Settled(ops) \in Seq(Operation) /\ Bares(Settled(ops)) = Bares(ops) /\ Ready(Settled(ops))
<1>1. PICK n \in Nat : n = Len(ops) /\ DOMAIN ops = 1 .. n
  BY Indices
<1> DEFINE f(i) == [size |-> OpSize(ops[i]), endian |-> OpEndian(ops[i])]
           o(i) == [ops[i] EXCEPT !.format = f(i)]
<1>2. ASSUME NEW i \in 1 .. n
      PROVE  /\ o(i) \in Operation /\ Bare(o(i)) = Bare(ops[i]) /\ o(i).format = f(i)
             /\ OpSize(o(i)) = OpSize(ops[i]) /\ OpEndian(o(i)) = OpEndian(ops[i])
             /\ Objection(o(i)) = "none"
  <2>1. ops[i] \in Operation
    BY <1>1
  <2>2. OpSize(ops[i]) \in {0} \cup Sizes /\ OpEndian(ops[i]) \in Endians
    BY <2>1, SizeFacts DEF OpEndian, Operation, Endians
  <2>3. f(i) \in [size : {0} \cup Sizes, endian : Endians]
    BY <2>2
  <2> HIDE DEF f
  <2>4. o(i) \in Operation /\ Bare(o(i)) = Bare(ops[i]) /\ o(i).format = f(i)
    BY <2>1, <2>3 DEF Operation, Bare
  <2>5. /\ o(i).sizes = ops[i].sizes /\ o(i).endian = ops[i].endian /\ o(i).dir = ops[i].dir
        /\ o(i).addr = ops[i].addr /\ o(i).cfg = ops[i].cfg /\ o(i).val = ops[i].val
    BY <2>1 DEF Operation
  <2> HIDE DEF o
  <2>6. OpSize(o(i)) = OpSize(ops[i])
    BY <2>5, Zenon DEF OpSize
  <2>7. OpEndian(o(i)) = OpEndian(ops[i])
    BY <2>5, <2>6, Zenon DEF OpEndian
  <2>8. SameFor(ops[i], o(i))
    BY <2>4, <2>5, <2>6, <2>7, Zenon DEF SameFor
  <2>9. Objection(o(i)) = Objection(ops[i])
    BY <2>8, SameMeaning
  <2>10. Objection(ops[i]) = "none"
    BY <1>1 DEF Objections
  <2> QED
    BY <2>4, <2>6, <2>7, <2>9, <2>10, Zenon
<1>3. Settled(ops) = [i \in 1 .. n |-> o(i)]
  BY <1>1, Zenon DEF Settled
<1> HIDE DEF o
<1>4. [i \in 1 .. n |-> o(i)] \in [1 .. n -> Operation]
  BY <1>2
<1>5. PICK s \in Seq(Operation) : s = Settled(ops) /\ Len(s) = n /\ \A i \in 1 .. n : s[i] = o(i)
  BY <1>1, <1>3, <1>4, Listed
<1>6. Bares(s) = Bares(ops)
  <2>1. \A i \in 1 .. n : Bare(s[i]) = Bare(ops[i])
    BY <1>2, <1>5, Zenon
  <2> QED
    BY <1>1, <1>5, <2>1, SameBares
<1>7. Ready(s)
  BY <1>2, <1>5, Zenon DEF Ready
<1> QED
  BY <1>5, <1>6, <1>7, Zenon

\* Nothing is wrong with the operations of a cycle that is being formatted.
LEMMA ReadyFacts ==
    ASSUME NEW ops \in Seq(Operation), Ready(ops)
    PROVE  Objections(ops) = {} /\ Objections(Bares(ops)) = {}
<1>1. DOMAIN ops = 1 .. Len(ops)
  BY Indices
<1>2. Objections(ops) = {}
  BY <1>1 DEF Ready, Objections
<1> QED
  BY <1>2, ObjectionsBares

\* Objections are statuses of their own.
LEMMA ObjectionFacts ==
    ASSUME NEW op
    PROVE  Objection(op) \in {"none", "WIDTH", "ENDIAN", "ADDRESS"}
  BY Zenon DEF Objection

\* The cycles that have been called back with an overflow.
OverOf(st, n) == {c \in 1 .. n : st[c] = "OVERFLOW"}

\* The queue: the cycles behind the one being formatted have not been called back.
CyclesInv ==
    /\ kind \in Kinds
    /\ cycles \in Seq(Seq(Operation))
    /\ checked \in [1 .. Len(cycles) -> BOOLEAN]
    /\ status \in [1 .. Len(cycles) -> Statuses]
    /\ \A c \in 1 .. Len(cycles) : c >= cur.c => status[c] = "none"

\* The loops: a cycle that is being formatted has passed the checks and has the
\* formats they settle on.
CursorInv ==
    /\ cur \in [c : Nat, p : Nat, ops : Nat, readback : BOOLEAN]
    /\ cur.c \in 1 .. Len(cycles) + 2
    /\ cur.p > 0 => /\ cur.c \in 1 .. Len(cycles) /\ cur.p \in 1 .. Len(cycles[cur.c]) + 1
                    /\ Ready(cycles[cur.c])

\* The buffer is never overrun.
BufferInv ==
    /\ buf \in Seq(Requests) /\ cptr \in 0 .. Len(buf) /\ Words(buf) <= Limit
    /\ header \in [nr : BOOLEAN, reads : BOOLEAN] /\ rba \in Nat

\* Responses wait for cycles that were sent.
ResponseInv ==
    /\ resp \in Seq(Responses)
    /\ \A i \in 1 .. Len(resp) :
         /\ GoodResponse(BareAll(cycles), OverOf(status, Len(cycles)), resp[i])
         /\ resp[i].cycle < cur.c

\* The datagrams carry whole cycles; the records of a stream are records.
Datagrams == [nr : BOOLEAN, recs : Seq(Requests)]
WholeDatagrams(bare, st, c) == {d \in Datagrams : Whole(bare, st, c, d.recs)}
PacketInv ==
    kind = "packet" =>
        /\ cur.c <= Len(cycles) + 1 => Buffered(BareAll(cycles), status, cur.c, cur.p, buf, cptr)
        /\ wire \in Seq(WholeDatagrams(BareAll(cycles), status, cur.c))

\* What the bus has seen and what is on its way to it are what has been formatted.
StreamInv ==
    kind = "stream" =>
        /\ wire \in Seq(Requests)
        /\ Streamed(Total(BareAll(cycles), status, cur.c, cur.p), bus, slave.recs \o (wire \o buf))

\* The slave and its replies.
Slaves ==
    [on : BOOLEAN, dead : BOOLEAN, recs : Seq(Requests), cut : {"none", "header", "body"}, error : Nat,
     cyc : BOOLEAN, open : BOOLEAN, reply : BOOLEAN, out : Seq(Answers)]
SlaveInv ==
    /\ slave \in Slaves /\ (slave.on => ~slave.dead) /\ (~slave.on => slave.recs = <<>>)
    /\ bus \in Seq(Transactions)
    /\ back \in IF kind = "packet" THEN Seq(Seq(Answers)) ELSE Seq(Answers)

RecordInv ==
    /\ CyclesInv /\ CursorInv /\ BufferInv /\ ResponseInv
    /\ PacketInv /\ StreamInv /\ SlaveInv

\* The facts of the invariant about the cycles.
LEMMA InvFacts ==
    ASSUME RecordInv
    PROVE  /\ kind \in {"packet", "stream"} /\ cycles \in Seq(Seq(Operation)) /\ Len(cycles) \in Nat
           /\ BareAll(cycles) \in Seq(Seq(Operation)) /\ Len(BareAll(cycles)) = Len(cycles)
           /\ \A c \in 1 .. Len(cycles) : cycles[c] \in Seq(Operation) /\ BareAll(cycles)[c] = Bares(cycles[c])
                                          /\ Len(BareAll(cycles)[c]) = Len(cycles[c])
           /\ cur.c \in Nat /\ cur.p \in Nat /\ cur.ops \in Nat /\ cur.readback \in BOOLEAN
           /\ cur.c \in 1 .. Len(cycles) + 2
<1>1. cycles \in Seq(Seq(Operation)) /\ kind \in Kinds
  BY Zenon DEF RecordInv, CyclesInv
<1>2. kind \in {"packet", "stream"}
  BY <1>1, RecordAssumption
<1>3. cur \in [c : Nat, p : Nat, ops : Nat, readback : BOOLEAN] /\ cur.c \in 1 .. Len(cycles) + 2
  BY Zenon DEF RecordInv, CursorInv
<1>4. /\ BareAll(cycles) \in Seq(Seq(Operation)) /\ Len(BareAll(cycles)) = Len(cycles)
      /\ \A c \in 1 .. Len(cycles) : cycles[c] \in Seq(Operation) /\ BareAll(cycles)[c] = Bares(cycles[c])
  BY <1>1, BareAllFacts
<1>5. \A c \in 1 .. Len(cycles) : Len(BareAll(cycles)[c]) = Len(cycles[c])
  BY <1>4, BaresFacts
<1>6. Len(cycles) \in Nat
  BY <1>1, Indices
<1> QED
  BY <1>1, <1>2, <1>3, <1>4, <1>5, <1>6

\* Datagrams that are whole stay whole.
LEMMA DatagramsKept ==
    ASSUME NEW bare \in Seq(Seq(Operation)), NEW st, NEW su, NEW c \in Nat, NEW d \in Nat, c <= d,
           NEW m \in Int, Agree(st, su, m), c <= m + 1,
           NEW w \in Seq(WholeDatagrams(bare, st, c))
    PROVE  w \in Seq(WholeDatagrams(bare, su, d))
<1>1. \A x \in WholeDatagrams(bare, st, c) : x \in WholeDatagrams(bare, su, d)
  BY WholeKept DEF WholeDatagrams
<1>2. \A i \in 1 .. Len(w) : w[i] \in WholeDatagrams(bare, st, c)
  OBVIOUS
<1> QED
  BY <1>1, <1>2, Retyped

\* Statuses that differ only in cycle c, which is not below m.
LEMMA AgreeBelow ==
    ASSUME NEW n \in Nat, NEW st \in [1 .. n -> Statuses], NEW c \in 1 .. n, NEW v \in Statuses
    PROVE  /\ Agree(st, [st EXCEPT ![c] = v], c - 1) /\ [st EXCEPT ![c] = v] \in [1 .. n -> Statuses]
           /\ [st EXCEPT ![c] = v][c] = v
           /\ \A i \in 1 .. n : i # c => [st EXCEPT ![c] = v][i] = st[i]
<1>1. /\ [st EXCEPT ![c] = v] \in [1 .. n -> Statuses] /\ [st EXCEPT ![c] = v][c] = v
      /\ \A i \in 1 .. n : i # c => [st EXCEPT ![c] = v][i] = st[i]
  OBVIOUS
<1>2. \A i \in 1 .. c - 1 : i \in 1 .. n /\ i # c
  OBVIOUS
<1> QED
  BY <1>1, <1>2, Zenon DEF Agree

\* The same statuses.
LEMMA AgreeSame ==
    ASSUME NEW st, NEW m
    PROVE  Agree(st, st, m)
  BY DEF Agree

\* A cycle that has been found sound is settled, and formatted next.
LEMMA ExamineSound ==
    ASSUME RecordInv, Examine, Objections(cycles[cur.c]) = {},
           UNCHANGED <<kind, checked, dups, slave, back, fault, bus>>
    PROVE  RecordInv'
<1> DEFINE bare == BareAll(cycles)
           n == Len(cycles)
           c == cur.c
           ops == Settled(cycles[c])
<1>1. /\ kind \in {"packet", "stream"} /\ cycles \in Seq(Seq(Operation)) /\ n \in Nat
      /\ bare \in Seq(Seq(Operation)) /\ Len(bare) = n
      /\ \A d \in 1 .. n : cycles[d] \in Seq(Operation) /\ bare[d] = Bares(cycles[d])
      /\ cur \in [c : Nat, p : Nat, ops : Nat, readback : BOOLEAN] /\ c \in 1 .. n + 2
  BY InvFacts, Zenon DEF RecordInv, CursorInv
<1>2. /\ c <= n /\ cur.p = 0 /\ cycles' = [cycles EXCEPT ![c] = ops]
      /\ cur' = [cur EXCEPT !.p = 1] /\ UNCHANGED <<status, buf, cptr, header, rba, resp, wire>>
  BY DEF Examine
<1>3. c \in 1 .. n /\ c <= n + 1
  BY <1>1, <1>2
<1>4. ops \in Seq(Operation) /\ Bares(ops) = Bares(cycles[c]) /\ Ready(ops)
  BY <1>1, <1>3, SettledFacts
<1>5. cycles' \in Seq(Seq(Operation)) /\ Len(cycles') = n /\ cycles'[c] = ops /\ BareAll(cycles') = bare
  <2> HIDE DEF ops, c
  <2>1. /\ [cycles EXCEPT ![c] = ops] \in Seq(Seq(Operation)) /\ Len([cycles EXCEPT ![c] = ops]) = Len(cycles)
        /\ [cycles EXCEPT ![c] = ops][c] = ops
        /\ BareAll([cycles EXCEPT ![c] = ops]) = BareAll(cycles)
    BY <1>1, <1>3, <1>4, StoreCycle, ZenonT(60)
  <2> QED
    BY <1>2, <2>1, Zenon
<1>6. cur' \in [c : Nat, p : Nat, ops : Nat, readback : BOOLEAN] /\ cur'.c = c /\ cur'.p = 1
  BY <1>1, <1>2
<1> HIDE DEF n, bare, c, ops
<1>7. CyclesInv'
  <2>1. CyclesInv
    BY DEF RecordInv
  <2>2. kind' = kind /\ checked' = checked /\ status' = status
    BY <1>2
  <2> QED
    BY <2>1, <2>2, <1>5, <1>6, Zenon DEF CyclesInv, n, c
<1>8. CursorInv'
  <2>1. 1 \in 1 .. Len(ops) + 1
    BY <1>4, Indices
  <2> QED
    BY <1>1, <1>3, <1>4, <1>5, <1>6, <2>1, Zenon DEF CursorInv
<1>9. BufferInv'
  <2>1. BufferInv
    BY DEF RecordInv
  <2> QED
    BY <2>1, <1>2 DEF BufferInv, Limit
<1>10. ResponseInv'
  <2>1. ResponseInv
    BY DEF RecordInv
  <2> QED
    BY <2>1, <1>2, <1>5, <1>6 DEF ResponseInv, n, bare, c
<1>11. PacketInv'
  <2>1. SUFFICES ASSUME kind' = "packet"
                 PROVE  /\ Buffered(bare, status, c, 1, buf, cptr)
                        /\ wire \in Seq(WholeDatagrams(bare, status, c))
    BY <2>1, <1>2, <1>5, <1>6, Zenon DEF PacketInv
  <2>2. Buffered(bare, status, c, 0, buf, cptr) /\ wire \in Seq(WholeDatagrams(bare, status, c))
    BY <2>1, <1>2, <1>3, Zenon DEF RecordInv, PacketInv, n, bare, c
  <2> QED
    BY <1>1, <1>3, <2>2, BufferedStart
<1>12. StreamInv'
  <2>1. SUFFICES ASSUME kind' = "stream"
                 PROVE  wire \in Seq(Requests) /\ Streamed(Total(bare, status, c, 1), bus, slave.recs \o (wire \o buf))
    BY <2>1, <1>2, <1>5, <1>6, Zenon DEF StreamInv
  <2>2. wire \in Seq(Requests) /\ Streamed(Total(bare, status, c, 0), bus, slave.recs \o (wire \o buf))
    BY <2>1, <1>2, <1>3, Zenon DEF RecordInv, StreamInv, n, bare, c
  <2>3. Total(bare, status, c, 1) = Total(bare, status, c, 0)
    BY <1>1, <1>3, TotalStart
  <2> QED
    BY <2>2, <2>3, Zenon
<1>13. SlaveInv'
  BY Zenon DEF RecordInv, SlaveInv
<1> QED
  BY <1>7, <1>8, <1>9, <1>10, <1>11, <1>12, <1>13 DEF RecordInv

\* A cycle with an operation the device cannot do is called back.
LEMMA ExamineBad ==
    ASSUME RecordInv, Examine, Objections(cycles[cur.c]) # {},
           UNCHANGED <<kind, checked, dups, slave, back, fault, bus>>
    PROVE  RecordInv'
<1> DEFINE bare == BareAll(cycles)
           n == Len(cycles)
           c == cur.c
           v == Objection(cycles[c][Least(Objections(cycles[c]))])
           su == [status EXCEPT ![c] = v]
<1>1. /\ kind \in {"packet", "stream"} /\ cycles \in Seq(Seq(Operation)) /\ n \in Nat
      /\ bare \in Seq(Seq(Operation)) /\ Len(bare) = n
      /\ \A d \in 1 .. n : cycles[d] \in Seq(Operation) /\ bare[d] = Bares(cycles[d])
      /\ cur \in [c : Nat, p : Nat, ops : Nat, readback : BOOLEAN] /\ c \in 1 .. n + 2
  BY InvFacts, Zenon DEF RecordInv, CursorInv
<1>2. /\ c <= n /\ cur.p = 0 /\ status' = su
      /\ cur' = NextCycle(c + 1) /\ UNCHANGED <<cycles, buf, cptr, header, rba, resp, wire>>
  BY DEF Examine
<1>3. c \in 1 .. n /\ c <= n + 1 /\ c \in Nat /\ c + 1 \in Nat /\ c + 1 \in 1 .. n + 2 /\ c <= c + 1 /\ c - 1 \in Int /\ c <= (c - 1) + 1
      /\ c + 1 <= n + 1
  BY <1>1, <1>2
<1>4. status \in [1 .. n -> Statuses] /\ \A d \in 1 .. n : d >= c => status[d] = "none"
  BY DEF RecordInv, CyclesInv
<1>5. v \in {"none", "WIDTH", "ENDIAN", "ADDRESS"} /\ v \in Statuses /\ v # "OVERFLOW"
  BY ObjectionFacts DEF Statuses
<1>6. cur' \in [c : Nat, p : Nat, ops : Nat, readback : BOOLEAN] /\ cur'.c = c + 1 /\ cur'.p = 0
  BY <1>2, <1>3 DEF NextCycle
<1>7. Objections(cycles[c]) # {}
  OBVIOUS
<1> HIDE DEF n, bare, c, v
<1>8. /\ Agree(status, su, c - 1) /\ su \in [1 .. n -> Statuses] /\ su[c] = v
      /\ \A i \in 1 .. n : i # c => su[i] = status[i]
  BY <1>1, <1>3, <1>4, <1>5, AgreeBelow
<1>9. SentOf(bare, su, c) = <<>>
  <2>1. Objections(bare[c]) # {}
    BY <1>1, <1>3, <1>7, ObjectionsBares
  <2> QED
    BY <2>1, Zenon DEF SentOf
<1> HIDE DEF su
<1>10. CyclesInv'
  <2>1. kind \in Kinds /\ checked \in [1 .. n -> BOOLEAN]
    BY Zenon DEF RecordInv, CyclesInv, n
  <2>2. \A d \in 1 .. n : d >= c + 1 => d >= c /\ d # c
    BY <1>3
  <2>3. \A d \in 1 .. n : d >= c + 1 => su[d] = "none"
    BY <2>2, <1>4, <1>8, Zenon
  <2>4. kind' = kind /\ checked' = checked /\ cycles' = cycles
    BY <1>2
  <2> QED
    BY <2>1, <2>3, <2>4, <1>1, <1>2, <1>6, <1>8, Zenon DEF CyclesInv, n
<1>11. CursorInv'
  <2>1. ~(0 > 0)
    OBVIOUS
  <2> QED
    BY <1>2, <1>3, <1>6, <2>1, Zenon DEF CursorInv, n
<1>12. BufferInv'
  <2>1. BufferInv
    BY DEF RecordInv
  <2> QED
    BY <2>1, <1>2 DEF BufferInv, Limit
<1>13. ResponseInv'
  <2>1. ResponseInv
    BY DEF RecordInv
  <2>2. OverOf(su, n) = OverOf(status, n)
    BY <1>3, <1>4, <1>5, <1>8 DEF OverOf
  <2>3. \A i \in 1 .. Len(resp) : GoodResponse(bare, OverOf(su, n), resp[i]) /\ resp[i].cycle < c + 1
    <3>1. \A i \in 1 .. Len(resp) : GoodResponse(bare, OverOf(status, n), resp[i]) /\ resp[i].cycle < c
      BY <2>1, Zenon DEF ResponseInv, n, bare, c
    <3>2. \A i \in 1 .. Len(resp) : resp[i].cycle \in Nat
      BY <3>1 DEF GoodResponse, Responses
    <3>3. \A i \in 1 .. Len(resp) : resp[i].cycle < c + 1
      BY <3>1, <3>2, <1>3
    <3> QED
      BY <3>1, <3>3, <2>2, Zenon
  <2>4. resp \in Seq(Responses)
    BY <2>1 DEF ResponseInv
  <2> QED
    BY <2>3, <2>4, <1>2, <1>6, Zenon DEF ResponseInv, n, bare
<1>14. PacketInv'
  <2>1. SUFFICES ASSUME kind' = "packet"
                 PROVE  /\ Buffered(bare, su, c + 1, 0, buf, cptr)
                        /\ wire \in Seq(WholeDatagrams(bare, su, c + 1))
    BY <2>1, <1>2, <1>6, Zenon DEF PacketInv, bare
  <2>2. Buffered(bare, status, c, 0, buf, cptr) /\ wire \in Seq(WholeDatagrams(bare, status, c))
    BY <2>1, <1>2, <1>3, Zenon DEF RecordInv, PacketInv, n, bare, c
  <2>3. Buffered(bare, su, c + 1, 0, buf, cptr)
    BY <1>1, <1>3, <1>8, <1>9, <2>2, BufferedReject
  <2>4. wire \in Seq(WholeDatagrams(bare, su, c + 1))
    BY <1>1, <1>3, <1>8, <2>2, DatagramsKept
  <2> QED
    BY <2>3, <2>4
<1>15. StreamInv'
  <2>1. SUFFICES ASSUME kind' = "stream"
                 PROVE  wire \in Seq(Requests) /\ Streamed(Total(bare, su, c + 1, 0), bus, slave.recs \o (wire \o buf))
    BY <2>1, <1>2, <1>6, Zenon DEF StreamInv, bare
  <2>2. wire \in Seq(Requests) /\ Streamed(Total(bare, status, c, 0), bus, slave.recs \o (wire \o buf))
    BY <2>1, <1>2, <1>3, Zenon DEF RecordInv, StreamInv, n, bare, c
  <2>3. Total(bare, su, c + 1, 0) = Total(bare, status, c, 0)
    <3>1. Partial(bare, c, 0) = <<>>
      BY Zenon DEF Partial
    <3> QED
      BY <1>1, <1>3, <1>8, <1>9, <3>1, TotalNext
  <2> QED
    BY <2>2, <2>3, Zenon
<1>16. SlaveInv'
  BY Zenon DEF RecordInv, SlaveInv
<1> QED
  BY <1>10, <1>11, <1>12, <1>13, <1>14, <1>15, <1>16 DEF RecordInv

\* What stays in the buffer and what is sent to make room for m words.
Room(m, kb, k0) ==
    /\ kb \in Seq(Requests) /\ k0 \in 0 .. Len(kb)
    /\ HeaderAfter(m) \in [nr : BOOLEAN, reads : BOOLEAN]
    /\ kind = "packet" => /\ Buffered(BareAll(cycles), status, cur.c, cur.p, kb, k0)
                          /\ wire' \in Seq(WholeDatagrams(BareAll(cycles), status, cur.c))
    /\ kind = "stream" => wire' \in Seq(Requests) /\ wire' \o kb = wire \o buf

\* Room is made.
LEMMA SpillFacts ==
    ASSUME RecordInv, cur.c <= Len(cycles) + 1, NEW m, Spill(m)
    PROVE  Room(m, Kept(m), IF Spills(m) THEN 0 ELSE cptr)
<1> DEFINE bare == BareAll(cycles)
           n == Len(cycles)
           c == cur.c
           p == cur.p
           rest == SubSeq(buf, cptr + 1, Len(buf))
           h == SentHeader
<1>1. /\ kind \in {"packet", "stream"} /\ n \in Nat /\ bare \in Seq(Seq(Operation)) /\ Len(bare) = n
      /\ c \in Nat /\ p \in Nat /\ c \in 1 .. n + 2
  BY InvFacts
<1>2. /\ buf \in Seq(Requests) /\ cptr \in 0 .. Len(buf)
      /\ header \in [nr : BOOLEAN, reads : BOOLEAN]
  BY DEF RecordInv, BufferInv
<1>3. c \in 1 .. n + 1
  BY <1>1
<1>4. h \in [nr : BOOLEAN, reads : BOOLEAN] /\ h.nr \in BOOLEAN
  BY <1>2 DEF SentHeader
<1>5. HeaderAfter(m) \in [nr : BOOLEAN, reads : BOOLEAN]
  BY <1>2, <1>4, Zenon DEF HeaderAfter
<1>6. CASE ~Spills(m)
  <2>1. Kept(m) = buf /\ wire' = wire
    BY <1>6, Zenon DEF Kept, Spill
  <2>2. kind = "packet" => /\ Buffered(bare, status, c, p, buf, cptr)
                           /\ wire \in Seq(WholeDatagrams(bare, status, c))
    BY <1>3, Zenon DEF RecordInv, PacketInv
  <2>3. kind = "stream" => wire \in Seq(Requests)
    BY Zenon DEF RecordInv, StreamInv
  <2> QED
    BY <1>2, <1>5, <1>6, <2>1, <2>2, <2>3, Zenon DEF Room
<1>7. CASE Spills(m) /\ kind = "stream"
  <2>1. Kept(m) = <<>> /\ wire' = wire \o buf
    BY <1>7, Zenon DEF Kept, Spill, Send
  <2>2. wire \in Seq(Requests)
    BY <1>7, Zenon DEF RecordInv, StreamInv
  <2>3. wire \o buf \in Seq(Requests)
    BY <1>2, <2>2, Chain
  <2>4. (wire \o buf) \o <<>> = wire \o buf /\ <<>> \in Seq(Requests) /\ 0 \in 0 .. Len(<<>>)
    BY <2>3, ConcatEmpty, Nothing
  <2>5. kind # "packet"
    BY <1>7
  <2> QED
    BY <1>5, <1>7, <2>1, <2>3, <2>4, <2>5, Zenon DEF Room
<1>8. CASE Spills(m) /\ kind = "packet"
  <2>1. kind # "stream"
    BY <1>8
  <2>2. cptr > 0
    BY <1>8, <2>1 DEF Spills
  <2>3. Kept(m) = rest /\ wire' = Append(wire, [nr |-> h.nr, recs |-> SubSeq(buf, 1, cptr)])
    BY <1>8, <2>1, Zenon DEF Kept, Spill, Send
  <2>4. Buffered(bare, status, c, p, buf, cptr) /\ wire \in Seq(WholeDatagrams(bare, status, c))
    BY <1>3, <1>8, Zenon DEF RecordInv, PacketInv
  <2>5. /\ Whole(bare, status, c, SubSeq(buf, 1, cptr))
        /\ Buffered(bare, status, c, p, rest, 0) /\ rest \in Seq(Requests)
    BY <1>1, <1>2, <1>3, <2>2, <2>4, BufferedSpill
  <2>6. PICK sent \in Seq(Requests) : sent = SubSeq(buf, 1, cptr)
    <3>1. Len(buf) \in Nat
      BY <1>2, Indices
    <3>2. 1 \in 1 .. Len(buf) + 1 /\ cptr + 1 \in 1 .. Len(buf) + 1 /\ (cptr + 1) - 1 = cptr
      BY <1>2, <3>1
    <3>3. SubSeq(buf, 1, (cptr + 1) - 1) \in Seq(Requests)
      BY <1>2, <3>2, Part
    <3> QED
      BY <3>2, <3>3, Zenon
  <2> HIDE DEF h, bare, c, p, rest
  <2>7. [nr |-> h.nr, recs |-> sent] \in WholeDatagrams(bare, status, c)
    BY <1>4, <2>5, <2>6 DEF WholeDatagrams, Datagrams
  <2>8. wire' \in Seq(WholeDatagrams(bare, status, c))
    BY <2>3, <2>4, <2>6, <2>7, Longer
  <2>9. 0 \in 0 .. Len(rest)
    BY <2>5, Indices
  <2> QED
    BY <1>5, <1>8, <2>1, <2>3, <2>5, <2>8, <2>9, Zenon DEF Room, bare, c, p
<1> QED
  BY <1>1, <1>6, <1>7, <1>8

\* A record is added to the buffer, behind what has room.
LEMMA AddRecordInv ==
    ASSUME RecordInv, AddRecord,
           UNCHANGED <<kind, checked, dups, slave, back, fault, bus>>
    PROVE  RecordInv'
<1> DEFINE bare == BareAll(cycles)
           n == Len(cycles)
           c == cur.c
           p == cur.p
           ops == cycles[c]
           s == Shape(c, p, cur.ops)
           q == p + s.w + s.r
           rec == Record(c, p, s)
           kb == Kept(s.words)
           k0 == IF Spills(s.words) THEN 0 ELSE cptr
           readback == cur.readback \/ s.flags \/ s.r > 0
           z == OnBus(SubSeq(bare[c], p, q - 1))
           r == [addr |-> rba, cycle |-> c, write |-> FindRead(ops, 1),
                 status |-> IF checked[c] THEN FindBus(ops, 1) ELSE 0]
<1>1. /\ kind \in {"packet", "stream"} /\ cycles \in Seq(Seq(Operation)) /\ n \in Nat
      /\ bare \in Seq(Seq(Operation)) /\ Len(bare) = n
      /\ \A d \in 1 .. n : /\ cycles[d] \in Seq(Operation) /\ bare[d] = Bares(cycles[d])
                           /\ Len(bare[d]) = Len(cycles[d])
      /\ c \in Nat /\ p \in Nat /\ cur.ops \in Nat /\ cur.readback \in BOOLEAN /\ c \in 1 .. n + 2
  BY InvFacts
<1>2. /\ c <= n /\ p > 0 /\ (kind = "packet" => s.words <= Limit - Words(kb)) /\ Spill(s.words) /\ buf' = Append(kb, rec)
      /\ header' = [HeaderAfter(s.words) EXCEPT !.reads = @ \/ rec.reads # <<>>]
      /\ cptr' = IF s.end THEN Len(buf') ELSE k0
      /\ cur' = IF s.end THEN NextCycle(c + 1)
                ELSE [cur EXCEPT !.p = @ + s.w + s.r, !.ops = s.ops, !.readback = readback]
      /\ IF s.end /\ readback
         THEN resp' = Append(resp, r) /\ rba' = RbaBase + ((rba + 2) % RbaBase)
         ELSE UNCHANGED <<resp, rba>>
      /\ status' = IF s.end /\ ~readback THEN [status EXCEPT ![c] = "OK"] ELSE status
      /\ cycles' = cycles
  <2> HIDE DEF s, rec
  <2> QED
    BY Zenon DEF AddRecord, Formatting, s, rec
<1>3. /\ c \in 1 .. n /\ c <= n + 1 /\ c + 1 <= n + 1 /\ c + 1 \in 1 .. n + 2 /\ c <= c + 1 /\ c - 1 \in Int
      /\ c <= (c - 1) + 1 /\ c + 1 \in Nat
  <2>1. c \in Nat /\ n \in Nat /\ c <= n /\ c \in 1 .. n + 2
    BY <1>1, <1>2, Zenon
  <2> HIDE DEF c, n
  <2> QED
    BY <2>1
<1>4. /\ ops \in Seq(Operation) /\ bare[c] = Bares(ops) /\ Len(bare[c]) = Len(ops) /\ Len(ops) \in Nat
  BY <1>1, <1>3, Indices
<1>5. p \in 1 .. Len(ops) + 1 /\ Ready(ops)
  BY <1>2, Zenon DEF RecordInv, CursorInv
<1>6. /\ checked \in [1 .. n -> BOOLEAN] /\ status \in [1 .. n -> Statuses] /\ kind \in Kinds
      /\ \A d \in 1 .. n : d >= c => status[d] = "none"
  BY Zenon DEF RecordInv, CyclesInv
<1>7. checked[c] \in BOOLEAN /\ status[c] = "none"
  BY <1>1, <1>3, <1>6
<1>8. rba \in Nat
  BY DEF RecordInv, BufferInv
<1> HIDE DEF n, c, p
<1>9. GoodShape(ops, p, s) /\ s.words <= WorstRecord
  BY <1>1, <1>4, <1>5, <1>7, ShapeFacts
<1> HIDE DEF s
<1>10. IsRecord(rec, ops, p, s)
  BY <1>4, <1>5, <1>8, <1>9, RecordFacts
<1> HIDE DEF ops, rec
<1>11. Stands(rec, OnBus(SubSeq(Bares(ops), p, (p + s.w + s.r) - 1)))
  BY <1>4, <1>5, <1>9, <1>10, RecordStands
<1>12. /\ rec \in Requests /\ RecordWords(rec) = s.words /\ rec.cyc = s.end
       /\ s.w \in Nat /\ s.r \in Nat /\ q <= Len(ops) + 1 /\ s.end \in BOOLEAN /\ s.flags \in BOOLEAN
       /\ s.ops \in Nat /\ (s.end => q = Len(ops) + 1)
  BY <1>9, <1>10 DEF GoodShape, IsRecord
<1>13. q \in p .. Len(ops) + 1 /\ q \in Nat /\ q \in 1 .. Len(ops) + 1 /\ q > 0
  BY <1>4, <1>5, <1>12
<1>14. Stands(rec, z)
  BY <1>4, <1>11, Zenon
<1>15. Room(s.words, kb, k0)
  BY <1>2, <1>3, SpillFacts DEF c, n
<1>16. kb \in Seq(Requests) /\ k0 \in 0 .. Len(kb) /\ HeaderAfter(s.words) \in [nr : BOOLEAN, reads : BOOLEAN]
  BY <1>15, Zenon DEF Room
<1>17. readback \in BOOLEAN
  BY <1>1, <1>12
<1>17a. s.words <= Limit - Words(kb)
  <2>1. PICK m \in Nat : m = s.words
    BY <1>12, RecordWordsFacts
  <2>2. PICK l \in Nat : l = Limit /\ (kind = "stream" => m <= l)
    <3>1. WorstRecord \in Nat
      BY RecordAssumption DEF WorstRecord, HeaderWords
    <3>2. Limit \in Nat /\ (kind = "stream" => Limit = StreamBuf)
      BY RecordAssumption DEF Limit
    <3> QED
      BY <1>9, <2>1, <3>1, <3>2, RecordAssumption
  <2>3. PICK b \in Nat : b = Words(buf)
    <3>1. buf \in Seq(Requests)
      BY DEF RecordInv, BufferInv
    <3> QED
      BY <1>12, <3>1, WordsAppend
  <2>4. CASE kind = "packet"
    BY <1>2, <2>4, Zenon
  <2>5. CASE kind = "stream" /\ Spills(m)
    <3>1. kb = <<>>
      BY <2>1, <2>5, Zenon DEF Kept
    <3> QED
      BY <2>1, <2>2, <2>5, <3>1, WordsEmpty
  <2>6. CASE kind = "stream" /\ ~Spills(m)
    <3>1. kb = buf
      BY <2>1, <2>6, Zenon DEF Kept
    <3>2. ~(m > l - b)
      BY <2>2, <2>3, <2>6, Zenon DEF Spills
    <3> QED
      BY <2>1, <2>2, <2>3, <3>1, <3>2
  <2> QED
    BY <1>1, <2>4, <2>5, <2>6
<1> HIDE DEF bare, kb, k0, readback, z, q
<1>18. PICK m \in Nat : m = Len(kb) /\ buf' \in Seq(Requests) /\ Len(buf') = m + 1 /\ buf'[m + 1] = rec
  BY <1>2, <1>12, <1>16, Longer
<1>19. cur' \in [c : Nat, p : Nat, ops : Nat, readback : BOOLEAN]
       /\ (s.end => cur'.c = c + 1 /\ cur'.p = 0) /\ (~s.end => cur'.c = c /\ cur'.p = q)
  <2>1. cur \in [c : Nat, p : Nat, ops : Nat, readback : BOOLEAN] /\ cur.c = c /\ cur.p = p
    BY DEF RecordInv, CursorInv, c, p
  <2>2. CASE s.end
    <3>1. cur' = NextCycle(c + 1)
      BY <1>2, <2>2, Zenon
    <3> QED
      BY <3>1, <2>2, <1>3 DEF NextCycle
  <2>3. CASE ~s.end
    <3>1. cur' = [cur EXCEPT !.p = @ + s.w + s.r, !.ops = s.ops, !.readback = readback]
      BY <1>2, <2>3, Zenon
    <3>2. cur' = [cur EXCEPT !.p = q, !.ops = s.ops, !.readback = readback]
      BY <3>1, <2>1 DEF q
    <3> QED
      BY <3>2, <2>1, <2>3, <1>12, <1>13, <1>17
  <2> QED
    BY <2>2, <2>3
<1>20. /\ Agree(status, status', c - 1) /\ status' \in [1 .. n -> Statuses] /\ status'[c] \in {"none", "OK"}
       /\ \A i \in 1 .. n : i # c => status'[i] = status[i]
  <2>1. CASE s.end /\ ~readback
    <3>1. "OK" \in Statuses
      BY DEF Statuses
    <3> QED
      BY <1>1, <1>2, <1>3, <1>6, <2>1, <3>1, AgreeBelow, ZenonT(60)
  <2>2. CASE ~(s.end /\ ~readback)
    BY <1>2, <1>6, <1>7, <2>2, AgreeSame, Zenon
  <2> QED
    BY <2>1, <2>2
<1>21. SentOf(bare, status', c) = OnBus(bare[c]) /\ SentOf(bare, status, c) = OnBus(bare[c])
  <2>1. Objections(bare[c]) = {}
    BY <1>4, <1>5, ReadyFacts
  <2>2. status'[c] # "OVERFLOW" /\ status[c] # "OVERFLOW"
    BY <1>7, <1>20
  <2> QED
    BY <2>1, <2>2, Zenon DEF SentOf
<1>22. CyclesInv'
  <2>1. \A d \in 1 .. n : d >= c + 1 => d >= c /\ d # c
    BY <1>3
  <2>2. \A d \in 1 .. n : d >= cur'.c => status'[d] = "none"
    <3>1. CASE s.end
      BY <2>1, <3>1, <1>6, <1>19, <1>20, Zenon
    <3>2. CASE ~s.end
      BY <3>2, <1>2, <1>6, <1>19, Zenon
    <3> QED
      BY <3>1, <3>2
  <2>3. kind' = kind /\ checked' = checked /\ cycles' = cycles
    BY <1>2
  <2> QED
    BY <2>2, <2>3, <1>1, <1>6, <1>20, Zenon DEF CyclesInv, n
<1>23. CursorInv'
  <2>1. CASE s.end
    <3>1. ~(0 > 0)
      OBVIOUS
    <3> QED
      BY <1>2, <1>3, <1>19, <2>1, <3>1, Zenon DEF CursorInv, n
  <2>2. CASE ~s.end
    <3>1. c \in 1 .. n + 2
      BY <1>1, <1>3
    <3> QED
      BY <1>2, <1>3, <1>5, <1>13, <1>19, <2>2, <3>1, Zenon DEF CursorInv, n, ops
  <2> QED
    BY <2>1, <2>2
<1>24. BufferInv'
  <2>1. Words(buf') <= Limit
    <3>1. Words(Append(kb, rec)) = Words(kb) + s.words /\ Words(kb) \in Nat
      BY <1>12, <1>16, WordsAppend
    <3>2. s.words \in Nat
      BY <1>12, RecordWordsFacts
    <3>3. Limit \in Nat
      BY RecordAssumption DEF Limit
    <3> QED
      BY <1>2, <1>17a, <3>1, <3>2, <3>3
  <2>2. Limit' = Limit
    BY DEF Limit
  <2>3. cptr' \in 0 .. Len(buf')
    BY <1>2, <1>16, <1>18
  <2>4. header' \in [nr : BOOLEAN, reads : BOOLEAN]
    BY <1>2, <1>16
  <2>5. rba' \in Nat
    <3>1. RbaBase + ((rba + 2) % RbaBase) \in Nat
      BY <1>8 DEF RbaBase
    <3> QED
      BY <1>2, <1>8, <3>1
  <2>6. buf' \in Seq(Requests)
    BY <1>18
  <2> QED
    BY <2>1, <2>2, <2>3, <2>4, <2>5, <2>6 DEF BufferInv
<1>25. ResponseInv'
  <2>1. OverOf(status', n) = OverOf(status, n)
    BY <1>3, <1>7, <1>20 DEF OverOf
  <2> DEFINE over == OverOf(status, n)
             G == {x \in Responses : GoodResponse(bare, over, x) /\ x.cycle < cur'.c}
  <2>2. \A x \in Responses : x.cycle < c => x.cycle < cur'.c
    <3>1. cur'.c = c \/ cur'.c = c + 1
      BY <1>12, <1>19
    <3> QED
      BY <1>1, <3>1 DEF Responses
  <2>3. resp \in Seq(G)
    <3>1. resp \in Seq(Responses) /\ \A i \in 1 .. Len(resp) : GoodResponse(bare, over, resp[i]) /\ resp[i].cycle < c
      BY Zenon DEF RecordInv, ResponseInv, bare, n, c
    <3>2. \A i \in 1 .. Len(resp) : resp[i] \in G
      BY <2>2, <3>1
    <3> HIDE DEF G
    <3> QED
      BY <3>1, <3>2, Retyped
  <2>4. s.end => r \in G
    <3>1. FindRead(ops, 1) \in 0 .. Len(ops) /\ (FindRead(ops, 1) # 0 => ops[FindRead(ops, 1)].dir = "r")
      BY <1>4, FindReadFacts
    <3>2. FindBus(ops, 1) \in 0 .. Len(ops) /\ 0 \in 0 .. Len(ops)
      BY <1>4, FindBusFacts
    <3>3. r.status \in 0 .. Len(ops)
      BY <3>2
    <3>4. /\ r.addr = rba /\ r.cycle = c /\ r.write = FindRead(ops, 1)
          /\ r = [addr |-> r.addr, cycle |-> r.cycle, write |-> r.write, status |-> r.status]
      OBVIOUS
    <3> HIDE DEF r
    <3>5. r \in Responses
      BY <1>1, <1>4, <1>8, <3>1, <3>3, <3>4 DEF Responses
    <3>6. FindRead(ops, 1) # 0 => bare[c][FindRead(ops, 1)].dir = "r"
      <4>1. ASSUME NEW i \in 1 .. Len(ops) PROVE bare[c][i].dir = ops[i].dir
        <5>1. SameFor(ops[i], Bares(ops)[i])
          BY <1>4, BaresFacts
        <5> QED
          BY <1>4, <5>1 DEF SameFor
      <4>2. FindRead(ops, 1) # 0 => FindRead(ops, 1) \in 1 .. Len(ops)
        BY <1>4, <3>1
      <4> QED
        BY <3>1, <4>1, <4>2, Zenon
    <3>7. c \in (1 .. Len(bare)) \ over
      BY <1>1, <1>3, <1>7 DEF OverOf
    <3>8. GoodResponse(bare, over, r)
      BY <1>4, <3>1, <3>3, <3>4, <3>5, <3>6, <3>7, Zenon DEF GoodResponse
    <3>9. s.end => c < cur'.c
      BY <1>3, <1>19
    <3> QED
      BY <3>4, <3>5, <3>8, <3>9, Zenon
  <2>5. \A x \in Seq(G) : x \in Seq(Responses) /\ \A i \in 1 .. Len(x) : GoodResponse(bare, over, x[i]) /\ x[i].cycle < cur'.c
    <3> TAKE x \in Seq(G)
    <3>1. \A i \in 1 .. Len(x) : x[i] \in G
      OBVIOUS
    <3>2. \A g \in G : g \in Responses /\ GoodResponse(bare, over, g) /\ g.cycle < cur'.c
      OBVIOUS
    <3> HIDE DEF G
    <3>3. x \in Seq(Responses)
      BY <3>1, <3>2, Retyped
    <3> QED
      BY <3>1, <3>2, <3>3, Zenon
  <2> HIDE DEF G, r
  <2>6. resp' \in Seq(G)
    <3>1. s.end => Append(resp, r) \in Seq(G)
      BY <2>3, <2>4, Longer
    <3> QED
      BY <1>2, <2>3, <3>1, Zenon
  <2> QED
    BY <1>2, <2>1, <2>5, <2>6, Zenon DEF ResponseInv, n, bare
<1>26. PacketInv'
  <2>1. SUFFICES ASSUME kind = "packet"
                 PROVE  /\ Buffered(bare, status', cur'.c, cur'.p, buf', cptr')
                        /\ wire' \in Seq(WholeDatagrams(bare, status', cur'.c))
    BY <1>2, Zenon DEF PacketInv, bare
  <2>2. /\ Buffered(bare, status, c, p, kb, k0)
        /\ wire' \in Seq(WholeDatagrams(bare, status, c))
    BY <1>15, <2>1, Zenon DEF Room, bare, c, p
  <2>3. wire' \in Seq(WholeDatagrams(bare, status', cur'.c))
    <3>1. cur'.c \in Nat /\ c <= cur'.c
      BY <1>1, <1>3, <1>12, <1>19
    <3> QED
      BY <1>1, <1>3, <1>20, <2>2, <3>1, DatagramsKept
  <2>4. Buffered(bare, status, c, q, Append(kb, rec), k0)
    <3>1. p \in 1 .. Len(bare[c]) + 1 /\ q \in p .. Len(bare[c]) + 1
      BY <1>4, <1>5, <1>13, Zenon
    <3> QED
      BY <1>1, <1>3, <1>12, <1>14, <1>16, <2>2, <3>1, BufferedAdd DEF z
  <2>5. CASE ~s.end
    BY <1>2, <1>19, <2>3, <2>4, <2>5, Zenon
  <2>6. CASE s.end
    <3>1. /\ buf' # <<>> /\ buf'[Len(buf')].cyc /\ k0 \in 0 .. Len(buf') /\ q = Len(bare[c]) + 1
      <4>1. buf'[Len(buf')].cyc /\ q = Len(bare[c]) + 1
        BY <1>4, <1>12, <1>18, <2>6, Zenon
      <4>2. k0 \in 0 .. m
        BY <1>16, <1>18, Zenon
      <4>3. k0 \in 0 .. m + 1 /\ m + 1 # 0
        BY <1>18, <4>2
      <4>4. buf' # <<>>
        BY <1>18, <4>3, Nothing, Zenon
      <4> QED
        BY <1>18, <4>1, <4>3, <4>4, Zenon
    <3>2. Buffered(bare, status', c + 1, 0, buf', Len(buf'))
      BY <1>1, <1>2, <1>3, <1>13, <1>18, <1>20, <1>21, <2>4, <3>1, BufferedFinish
    <3> QED
      BY <1>2, <1>19, <2>3, <2>6, <3>2, Zenon
  <2> QED
    BY <2>5, <2>6
<1>27. StreamInv'
  <2>1. SUFFICES ASSUME kind = "stream"
                 PROVE  wire' \in Seq(Requests) /\ Streamed(Total(bare, status', cur'.c, cur'.p), bus, slave.recs \o (wire' \o buf'))
    BY <1>2, Zenon DEF StreamInv, bare
  <2>2. wire' \in Seq(Requests) /\ wire' \o kb = wire \o buf
    BY <1>15, <2>1, Zenon DEF Room
  <2>3. Streamed(Total(bare, status, c, p), bus, slave.recs \o (wire \o buf))
    BY <2>1, Zenon DEF RecordInv, StreamInv, bare, c, p
  <2>4. slave.recs \in Seq(Requests) /\ wire \o buf \in Seq(Requests)
    <3>1. slave.recs \in Seq(Requests)
      BY DEF RecordInv, SlaveInv, Slaves
    <3>2. wire' \o kb \in Seq(Requests)
      BY <1>16, <2>2, Chain
    <3> QED
      BY <2>2, <3>1, <3>2, Zenon
  <2>5. slave.recs \o (wire' \o buf') = Append(slave.recs \o (wire \o buf), rec)
    <3>1. AppendsBehind(wire', kb, rec)
      BY <1>12, <1>16, <2>2, AppendConcat
    <3>2. AppendsBehind(slave.recs, wire \o buf, rec)
      BY <1>12, <2>4, AppendConcat
    <3> QED
      BY <1>2, <2>2, <3>1, <3>2, Zenon DEF AppendsBehind
  <2>6. Total(bare, status, c, q) = Total(bare, status, c, p) \o z /\ z \in Seq(Operation)
    <3>1. p \in 1 .. Len(bare[c]) + 1 /\ q \in p .. Len(bare[c]) + 1
      BY <1>4, <1>5, <1>13, Zenon
    <3> QED
      BY <1>1, <1>3, <3>1, TotalAdd DEF z
  <2>7. Streamed(Total(bare, status, c, q), bus, slave.recs \o (wire' \o buf'))
    <3>1. Streamed(Total(bare, status, c, p) \o z, bus, Append(slave.recs \o (wire \o buf), rec))
      BY <1>12, <1>14, <2>3, <2>6, StreamAdd
    <3> QED
      BY <2>5, <2>6, <3>1, Zenon
  <2>8. Total(bare, status', cur'.c, cur'.p) = Total(bare, status, c, q)
    <3>1. CASE ~s.end
      BY <1>2, <1>19, <3>1, Zenon
    <3>2. CASE s.end
      <4>1. Partial(bare, c, Len(bare[c]) + 1) = OnBus(bare[c])
        <5>1. bare[c] \in Seq(Operation)
          BY <1>1, <1>3, SeqOfSeq
        <5>2. p \in 1 .. Len(bare[c]) + 1 /\ q \in p .. Len(bare[c]) + 1
          BY <1>4, <1>5, <1>13, Zenon
        <5> QED
          BY <5>1, <5>2, PartialGrows
      <4>2. SentOf(bare, status', c) = Partial(bare, c, q)
        BY <1>4, <1>12, <1>21, <3>2, <4>1, Zenon
      <4>3. Total(bare, status', c + 1, 0) = Total(bare, status, c, q)
        <5>1. PICK su : su = status'
          OBVIOUS
        <5>2. /\ Agree(status, su, c - 1) /\ SentOf(bare, su, c) = Partial(bare, c, q)
              /\ bare \in Seq(Seq(Operation)) /\ c \in 1 .. Len(bare)
          BY <1>1, <1>3, <1>20, <4>2, <5>1, Zenon
        <5>3. PICK bb \in Seq(Seq(Operation)) : bb = bare
          BY <5>2
        <5>4. PICK cc \in 1 .. Len(bb) : cc = c
          BY <5>2, <5>3
        <5>5. PICK st, qq : st = status /\ qq = q
          OBVIOUS
        <5>6. Agree(st, su, cc - 1) /\ SentOf(bb, su, cc) = Partial(bb, cc, qq)
          BY <5>2, <5>3, <5>4, <5>5, Zenon
        <5>7. Total(bb, su, cc + 1, 0) = Total(bb, st, cc, qq)
          BY <5>6, TotalNext
        <5>8. Total(bare, su, c + 1, 0) = Total(bare, status, c, q)
          BY <5>3, <5>4, <5>5, <5>7, Zenon
        <5> QED
          BY <5>1, <5>8, Zenon
      <4> QED
        BY <1>19, <3>2, <4>3, Zenon
    <3> QED
      BY <3>1, <3>2
  <2> QED
    BY <2>2, <2>7, <2>8, Zenon
<1>28. SlaveInv'
  BY Zenon DEF RecordInv, SlaveInv
<1> QED
  BY <1>22, <1>23, <1>24, <1>25, <1>26, <1>27, <1>28 DEF RecordInv

\* A cycle that no datagram can hold is dropped.
LEMMA OverflowInv ==
    ASSUME RecordInv, Overflow,
           UNCHANGED <<kind, checked, dups, slave, back, fault, bus>>
    PROVE  RecordInv'
<1> DEFINE bare == BareAll(cycles)
           n == Len(cycles)
           c == cur.c
           w == Shape(c, cur.p, cur.ops).words
           su == [status EXCEPT ![c] = "OVERFLOW"]
<1>1. /\ n \in Nat /\ bare \in Seq(Seq(Operation)) /\ Len(bare) = n /\ c \in Nat /\ c \in 1 .. n + 2
      /\ cycles \in Seq(Seq(Operation))
  BY InvFacts
<1>2. /\ c <= n /\ kind = "packet" /\ Spill(w) /\ status' = su /\ buf' = <<>> /\ cptr' = 0
      /\ header' = HeaderAfter(w) /\ cur' = NextCycle(c + 1) /\ UNCHANGED <<cycles, rba, resp>>
  <2> HIDE DEF w
  <2> QED
    BY Zenon DEF Overflow, Formatting, w
<1>3. /\ kind \in Kinds /\ checked \in [1 .. n -> BOOLEAN] /\ status \in [1 .. n -> Statuses]
      /\ \A d \in 1 .. n : d >= c => status[d] = "none"
  BY Zenon DEF RecordInv, CyclesInv
<1>4. Room(w, Kept(w), IF Spills(w) THEN 0 ELSE cptr)
  <2>1. c <= n + 1
    BY <1>1, <1>2
  <2> HIDE DEF w
  <2> QED
    BY <1>2, <2>1, SpillFacts
<1> HIDE DEF n, bare, c, w
<1>5. /\ c \in 1 .. n /\ c + 1 \in Nat /\ c + 1 \in 1 .. n + 2 /\ c <= c + 1 /\ c - 1 \in Int /\ c <= (c - 1) + 1
      /\ 1 <= c + 1
  BY <1>1, <1>2
<1>6. cur' \in [c : Nat, p : Nat, ops : Nat, readback : BOOLEAN] /\ cur'.c = c + 1 /\ cur'.p = 0
  BY <1>2, <1>5 DEF NextCycle
<1>7. /\ Agree(status, su, c - 1) /\ su \in [1 .. n -> Statuses]
      /\ \A i \in 1 .. n : i # c => su[i] = status[i]
  <2>1. "OVERFLOW" \in Statuses
    BY DEF Statuses
  <2> QED
    BY <1>1, <1>3, <1>5, <2>1, AgreeBelow
<1>8. \A i \in 1 .. n : i < c => su[i] = status[i]
  BY <1>1, <1>7
<1> HIDE DEF su
<1>9. CyclesInv'
  <2>1. \A d \in 1 .. n : d >= c + 1 => d >= c /\ d # c
    BY <1>1
  <2>2. \A d \in 1 .. n : d >= c + 1 => su[d] = "none"
    BY <2>1, <1>3, <1>7, Zenon
  <2>3. kind' = kind /\ checked' = checked /\ cycles' = cycles
    BY <1>2
  <2> QED
    BY <2>2, <2>3, <1>1, <1>2, <1>3, <1>6, <1>7, Zenon DEF CyclesInv, n
<1>10. CursorInv'
  <2>1. ~(0 > 0)
    OBVIOUS
  <2> QED
    BY <1>2, <1>5, <1>6, <2>1, Zenon DEF CursorInv, n
<1>11. BufferInv'
  <2>1. rba \in Nat /\ HeaderAfter(w) \in [nr : BOOLEAN, reads : BOOLEAN]
    BY <1>4 DEF RecordInv, BufferInv, Room
  <2>2. Limit' = Limit /\ Limit \in Nat
    BY RecordAssumption DEF Limit
  <2>3. Words(buf') = 0 /\ buf' \in Seq(Requests) /\ Len(buf') = 0 /\ 0 \in 0 .. 0
    BY <1>2, WordsEmpty, Nothing
  <2>4. Words(buf') <= Limit
    BY <2>2, <2>3
  <2> QED
    BY <1>2, <2>1, <2>2, <2>3, <2>4 DEF BufferInv
<1>12. ResponseInv'
  <2>1. resp \in Seq(Responses) /\ \A i \in 1 .. Len(resp) : GoodResponse(bare, OverOf(status, n), resp[i]) /\ resp[i].cycle < c
    BY Zenon DEF RecordInv, ResponseInv, bare, n, c
  <2>2. ASSUME NEW i \in 1 .. Len(resp)
        PROVE  GoodResponse(bare, OverOf(su, n), resp[i]) /\ resp[i].cycle < c + 1
    <3>1. GoodResponse(bare, OverOf(status, n), resp[i]) /\ resp[i].cycle < c
      BY <2>1
    <3>2. resp[i].cycle \in (1 .. n) \ OverOf(status, n)
      BY <1>1, <3>1, Zenon DEF GoodResponse
    <3>3. resp[i].cycle \in (1 .. n) \ OverOf(su, n) /\ resp[i].cycle < c + 1
      BY <1>1, <1>8, <3>1, <3>2 DEF OverOf
    <3> QED
      BY <1>1, <3>1, <3>3, Zenon DEF GoodResponse
  <2> QED
    BY <1>2, <1>6, <2>1, <2>2, Zenon DEF ResponseInv, bare, n
<1>13. PacketInv'
  <2>1. wire' \in Seq(WholeDatagrams(bare, status, c))
    BY <1>2, <1>4, Zenon DEF Room, bare, c
  <2>2. wire' \in Seq(WholeDatagrams(bare, su, c + 1))
    BY <1>1, <1>5, <1>7, <2>1, DatagramsKept
  <2>3. Buffered(bare, su, c + 1, 0, <<>>, 0)
    BY <1>5, BufferedNone
  <2> QED
    BY <1>2, <1>6, <2>2, <2>3, Zenon DEF PacketInv, bare
<1>14. StreamInv'
  <2>1. kind' # "stream"
    BY <1>2
  <2> QED
    BY <2>1, Zenon DEF StreamInv
<1>15. SlaveInv'
  BY Zenon DEF RecordInv, SlaveInv
<1> QED
  BY <1>9, <1>10, <1>11, <1>12, <1>13, <1>14, <1>15 DEF RecordInv

\* The rest of the buffer is sent.
LEMMA FlushEndInv ==
    ASSUME RecordInv, FlushEnd,
           UNCHANGED <<kind, checked, dups, slave, back, fault, bus>>
    PROVE  RecordInv'
<1> DEFINE bare == BareAll(cycles)
           n == Len(cycles)
           c == cur.c
<1>1. /\ n \in Nat /\ bare \in Seq(Seq(Operation)) /\ Len(bare) = n /\ c \in Nat
      /\ cur.p \in Nat /\ cycles \in Seq(Seq(Operation)) /\ kind \in {"packet", "stream"}
  BY InvFacts
<1>2. /\ c = n + 1 /\ cur' = NextCycle(c + 1) /\ buf' = <<>> /\ cptr' = 0
      /\ IF buf = <<>> THEN wire' = wire ELSE Send(buf, SentHeader)
      /\ UNCHANGED <<header, status, cycles, rba, resp>>
  BY Zenon DEF FlushEnd
<1>3. /\ kind \in Kinds /\ checked \in [1 .. n -> BOOLEAN] /\ status \in [1 .. n -> Statuses]
  BY Zenon DEF RecordInv, CyclesInv
<1>4. cur.p = 0
  <2>1. cur.p > 0 => c \in 1 .. n
    BY Zenon DEF RecordInv, CursorInv
  <2> HIDE DEF c, n
  <2> QED
    BY <1>1, <1>2, <2>1
<1>5. /\ buf \in Seq(Requests) /\ cptr \in 0 .. Len(buf) /\ header \in [nr : BOOLEAN, reads : BOOLEAN]
      /\ rba \in Nat
  BY DEF RecordInv, BufferInv
<1> HIDE DEF n, bare, c
<1>6. /\ c + 1 \in Nat /\ c + 1 \in 1 .. n + 2 /\ c <= c + 1 /\ c \in 1 .. n + 1 /\ c <= n + 1
      /\ ~(c + 1 <= n + 1) /\ n \in Int
  BY <1>1, <1>2
<1>7. cur' \in [c : Nat, p : Nat, ops : Nat, readback : BOOLEAN] /\ cur'.c = c + 1 /\ cur'.p = 0
  BY <1>2, <1>6 DEF NextCycle
<1>8. CyclesInv'
  <2>1. \A d \in 1 .. n : ~(d >= c + 1)
    BY <1>1, <1>2
  <2>2. kind' = kind /\ checked' = checked /\ cycles' = cycles /\ status' = status
    BY <1>2
  <2> QED
    BY <2>1, <2>2, <1>1, <1>3, <1>7, Zenon DEF CyclesInv, n
<1>9. CursorInv'
  <2>1. ~(0 > 0)
    OBVIOUS
  <2> QED
    BY <1>2, <1>6, <1>7, <2>1, Zenon DEF CursorInv, n
<1>10. BufferInv'
  <2>2. Limit' = Limit /\ Limit \in Nat
    BY RecordAssumption DEF Limit
  <2>3. Words(buf') = 0 /\ buf' \in Seq(Requests) /\ Len(buf') = 0 /\ 0 \in 0 .. 0
    BY <1>2, WordsEmpty, Nothing
  <2>4. Words(buf') <= Limit
    BY <2>2, <2>3
  <2> QED
    BY <1>2, <1>5, <2>2, <2>3, <2>4 DEF BufferInv
<1>11. ResponseInv'
  <2>1. resp \in Seq(Responses) /\ \A i \in 1 .. Len(resp) : GoodResponse(bare, OverOf(status, n), resp[i]) /\ resp[i].cycle < c
    BY Zenon DEF RecordInv, ResponseInv, bare, n, c
  <2>2. \A i \in 1 .. Len(resp) : resp[i].cycle \in Nat
    BY <2>1 DEF GoodResponse, Responses
  <2>3. \A i \in 1 .. Len(resp) : resp[i].cycle < c + 1
    BY <1>1, <2>1, <2>2
  <2> QED
    BY <1>2, <1>7, <2>1, <2>3, Zenon DEF ResponseInv, bare, n
<1>12. PacketInv'
  <2>1. SUFFICES ASSUME kind = "packet"
                 PROVE  wire' \in Seq(WholeDatagrams(bare, status, c + 1))
    BY <1>2, <1>6, <1>7, Zenon DEF PacketInv, bare, n
  <2>2. Buffered(bare, status, c, cur.p, buf, cptr) /\ wire \in Seq(WholeDatagrams(bare, status, c))
    BY <1>6, <2>1, Zenon DEF RecordInv, PacketInv, bare, n, c
  <2>3. wire' \in Seq(WholeDatagrams(bare, status, c))
    <3>1. CASE buf = <<>>
      BY <1>2, <2>2, <3>1, Zenon
    <3>2. CASE buf # <<>>
      <4>1. wire' = Append(wire, [nr |-> SentHeader.nr, recs |-> buf])
        <5>1. kind # "stream"
          BY <2>1
        <5> QED
          BY <1>2, <3>2, <5>1, Zenon DEF Send
      <4>2. cptr = Len(buf)
        BY <1>4, <2>2, Zenon DEF Buffered
      <4>3. cptr > 0
        BY <1>5, <3>2, <4>2
      <4>4. Whole(bare, status, c, SubSeq(buf, 1, cptr))
        BY <1>1, <1>5, <1>6, <2>2, <4>3, BufferedSpill
      <4>5. SubSeq(buf, 1, cptr) = buf
        BY <1>5, <4>2, WholePart
      <4>6. SentHeader.nr \in BOOLEAN
        BY <1>5 DEF SentHeader
      <4>7. [nr |-> SentHeader.nr, recs |-> buf] \in WholeDatagrams(bare, status, c)
        BY <1>5, <4>4, <4>5, <4>6 DEF WholeDatagrams, Datagrams
      <4> QED
        BY <2>2, <4>1, <4>7, Longer
    <3> QED
      BY <3>1, <3>2
  <2> QED
    BY <1>1, <1>6, <2>3, AgreeSame, DatagramsKept
<1>13. StreamInv'
  <2>1. SUFFICES ASSUME kind = "stream"
                 PROVE  wire' \in Seq(Requests) /\ Streamed(Total(bare, status, c + 1, 0), bus, slave.recs \o (wire' \o <<>>))
    BY <1>2, <1>7, Zenon DEF StreamInv, bare
  <2>2. wire \in Seq(Requests) /\ Streamed(Total(bare, status, c, 0), bus, slave.recs \o (wire \o buf))
    BY <1>4, <2>1, Zenon DEF RecordInv, StreamInv, bare, c
  <2>3. Total(bare, status, c + 1, 0) = Total(bare, status, c, 0)
    BY <1>1, <1>2, TotalEnd
  <2>4. wire' = wire \o buf
    <3>1. CASE buf = <<>>
      BY <1>2, <2>2, <3>1, ConcatEmpty
    <3>2. CASE buf # <<>>
      BY <1>2, <2>1, <3>2, Zenon DEF Send
    <3> QED
      BY <3>1, <3>2
  <2>5. wire' \in Seq(Requests)
    BY <1>5, <2>2, <2>4, Chain
  <2>6. wire' \o <<>> = wire \o buf
    BY <2>4, <2>5, ConcatEmpty
  <2> QED
    BY <2>2, <2>3, <2>5, <2>6, Zenon
<1>14. SlaveInv'
  BY Zenon DEF RecordInv, SlaveInv
<1> QED
  BY <1>8, <1>9, <1>10, <1>11, <1>12, <1>13, <1>14 DEF RecordInv

\* The remote end leaves the master alone.
LEMMA MasterKept ==
    ASSUME RecordInv, UNCHANGED <<kind, cycles, checked, status, cur, buf, cptr, header, rba, resp, fault>>
    PROVE  CyclesInv' /\ CursorInv' /\ BufferInv' /\ ResponseInv'
<1>1. CyclesInv'
  BY DEF RecordInv, CyclesInv
<1>2. CursorInv'
  BY DEF RecordInv, CursorInv
<1>3. BufferInv'
  BY DEF RecordInv, BufferInv, Limit
<1>4. ResponseInv'
  BY DEF RecordInv, ResponseInv
<1> QED
  BY <1>1, <1>2, <1>3, <1>4

\* A slave that starts to work on records.
LEMMA SlaveStarts ==
    ASSUME NEW recs \in Seq(Requests), NEW cut \in {"none", "header", "body"}
    PROVE  /\ Idle \in Slaves /\ Idle.on = FALSE /\ Idle.recs = <<>> /\ [Idle EXCEPT !.dead = TRUE] \in Slaves
           /\ [Idle EXCEPT !.dead = TRUE].on = FALSE /\ [Idle EXCEPT !.dead = TRUE].recs = <<>>
           /\ [Idle EXCEPT !.on = TRUE, !.recs = recs, !.cut = cut] \in Slaves
           /\ [Idle EXCEPT !.on = TRUE, !.recs = recs, !.cut = cut].on = TRUE
           /\ [Idle EXCEPT !.on = TRUE, !.recs = recs, !.cut = cut].dead = FALSE
           /\ [Idle EXCEPT !.on = TRUE, !.recs = recs, !.cut = cut].recs = recs
           /\ [Idle EXCEPT !.on = TRUE, !.recs = recs] \in Slaves
           /\ [Idle EXCEPT !.on = TRUE, !.recs = recs].on = TRUE
           /\ [Idle EXCEPT !.on = TRUE, !.recs = recs].dead = FALSE
<1>1. <<>> \in Seq(Requests) /\ <<>> \in Seq(Answers)
  BY Nothing
<1> QED
  BY <1>1 DEF Idle, Slaves

\* A datagram is taken from the network.
LEMMA ReceiveInv ==
    ASSUME RecordInv, Receive,
           UNCHANGED <<kind, cycles, checked, status, cur, buf, cptr, header, rba, resp, fault>>
    PROVE  RecordInv'
<1> DEFINE W == WholeDatagrams(BareAll(cycles), status, cur.c)
<1>1. kind = "packet" /\ UNCHANGED <<back, bus>>
  BY DEF Receive
<1>2. PICK i \in DOMAIN wire :
        /\ slave' = [Idle EXCEPT !.on = TRUE, !.recs = wire[i].recs]
        /\ wire' = RemoveAt(wire, i) \/ wire' = wire
  BY DEF Receive
<1>3. wire \in Seq(W)
  BY <1>1, Zenon DEF RecordInv, PacketInv
<1>4. wire[i].recs \in Seq(Requests)
  <2>1. wire[i] \in W
    BY <1>3
  <2> QED
    BY <2>1 DEF WholeDatagrams, Datagrams
<1> HIDE DEF W
<1>5. wire' \in Seq(W)
  <2>1. i \in 1 .. Len(wire)
    BY <1>3, Indices
  <2>2. RemoveAt(wire, i) \in Seq(W)
    BY <1>3, <2>1, Removal
  <2> QED
    BY <1>2, <1>3, <2>2, Zenon
<1>6. PacketInv'
  <2>1. kind' = "packet"
    BY <1>1
  <2>2. (BareAll(cycles))' = BareAll(cycles) /\ cur' = cur /\ status' = status /\ buf' = buf /\ cptr' = cptr /\ cycles' = cycles
    OBVIOUS
  <2> QED
    BY <1>1, <1>5, <2>1, <2>2, Zenon DEF RecordInv, PacketInv, W
<1>7. StreamInv'
  <2>1. kind' # "stream"
    BY <1>1
  <2> QED
    BY <2>1, Zenon DEF StreamInv
<1>8. SlaveInv'
  <2>1. "none" \in {"none", "header", "body"}
    OBVIOUS
  <2>2. slave' \in Slaves /\ slave'.on = TRUE /\ slave'.dead = FALSE
    BY <1>2, <1>4, <2>1, SlaveStarts
  <2>3. bus \in Seq(Transactions) /\ back \in IF kind = "packet" THEN Seq(Seq(Answers)) ELSE Seq(Answers)
    BY Zenon DEF RecordInv, SlaveInv
  <2> QED
    BY <1>1, <2>2, <2>3, Zenon DEF SlaveInv
<1> QED
  BY <1>6, <1>7, <1>8, MasterKept DEF RecordInv

\* The reply is a reply.
LEMMA ReplyFacts ==
    ASSUME RecordInv, Reply
    PROVE  back' \in IF kind = "packet" THEN Seq(Seq(Answers)) ELSE Seq(Answers)
<1>1. slave.out \in Seq(Answers)
  BY DEF RecordInv, SlaveInv, Slaves
<1>2. back \in IF kind = "packet" THEN Seq(Seq(Answers)) ELSE Seq(Answers)
  BY Zenon DEF RecordInv, SlaveInv
<1>3. kind \in {"packet", "stream"} /\ "packet" # "stream"
  BY InvFacts
<1>4. back' = back \/ back' = IF kind = "stream" THEN back \o slave.out ELSE Append(back, slave.out)
  BY Zenon DEF Reply
<1>5. CASE kind = "packet"
  <2> DEFINE S == Seq(Answers)
  <2>1. back \in Seq(S) /\ slave.out \in S
    BY <1>1, <1>2, <1>5, Zenon
  <2> HIDE DEF S
  <2>2. Append(back, slave.out) \in Seq(S)
    BY <2>1, Longer
  <2> QED
    BY <1>3, <1>4, <1>5, <2>1, <2>2, Zenon DEF S
<1>6. CASE kind = "stream"
  <2>1. back \in Seq(Answers)
    BY <1>2, <1>3, <1>6, Zenon
  <2>2. back \o slave.out \in Seq(Answers)
    BY <1>1, <2>1, Chain
  <2> QED
    BY <1>3, <1>4, <1>6, <2>1, <2>2, Zenon
<1> QED
  BY <1>3, <1>5, <1>6

\* A piece of the stream is taken by a slave that has no records left.
LEMMA PieceFacts ==
    ASSUME NEW w \in Seq(Requests), NEW b \in Seq(Requests), NEW k \in 0 .. Len(w)
    PROVE  /\ SubSeq(w, 1, k) \in Seq(Requests) /\ SubSeq(w, k + 1, Len(w)) \in Seq(Requests)
           /\ SubSeq(w, 1, k) \o (SubSeq(w, k + 1, Len(w)) \o b) = <<>> \o (w \o b)
<1>1. PICK n \in Nat : n = Len(w) /\ k \in 0 .. n
  BY Indices
<1>2. /\ 1 \in 1 .. n + 1 /\ k + 1 \in 1 .. n + 1 /\ n + 1 \in k + 1 .. n + 1 /\ (k + 1) - 1 = k /\ (n + 1) - 1 = n
  BY <1>1
<1>3. SubSeq(w, 1, (k + 1) - 1) \in Seq(Requests) /\ SubSeq(w, k + 1, (n + 1) - 1) \in Seq(Requests)
  BY <1>1, <1>2, Part
<1>4. Joined(w, k + 1, n + 1)
  BY <1>1, <1>2, Joining
<1>5. PICK x \in Seq(Requests), y \in Seq(Requests) : x = SubSeq(w, 1, k) /\ y = SubSeq(w, k + 1, n)
  BY <1>2, <1>3, Zenon
<1>6. x \o y = SubSeq(w, 1, n)
  BY <1>2, <1>4, <1>5, Zenon DEF Joined
<1>7. SubSeq(w, 1, n) = w
  BY <1>1, WholePart
<1>8. Regroups(x, y, b)
  BY Regrouping
<1>9. w \o b \in Seq(Requests)
  BY Chain
<1>10. <<>> \o (w \o b) = w \o b
  BY <1>9, ConcatEmpty
<1> QED
  BY <1>1, <1>5, <1>6, <1>7, <1>8, <1>10, Zenon DEF Regroups

\* The stream after such a step.
LEMMA PieceInv ==
    ASSUME RecordInv, kind = "stream", slave.recs = <<>>, NEW k \in 0 .. Len(wire), slave'.recs = SubSeq(wire, 1, k),
           wire' = SubSeq(wire, k + 1, Len(wire)), bus' = bus,
           UNCHANGED <<kind, cycles, checked, status, cur, buf, cptr, header, rba, resp, fault>>
    PROVE  StreamInv' /\ PacketInv' /\ SubSeq(wire, 1, k) \in Seq(Requests)
<1>1. /\ wire \in Seq(Requests)
      /\ Streamed(Total(BareAll(cycles), status, cur.c, cur.p), bus, slave.recs \o (wire \o buf))
  BY Zenon DEF RecordInv, StreamInv
<1>2. buf \in Seq(Requests)
  BY DEF RecordInv, BufferInv
<1>3. /\ SubSeq(wire, 1, k) \in Seq(Requests) /\ wire' \in Seq(Requests)
      /\ slave'.recs \o (wire' \o buf) = slave.recs \o (wire \o buf)
  BY <1>1, <1>2, PieceFacts, ZenonT(60)
<1>4. StreamInv'
  <2>1. cycles' = cycles /\ status' = status /\ cur' = cur /\ buf' = buf
    OBVIOUS
  <2> QED
    BY <1>1, <1>3, <2>1, Zenon DEF StreamInv
<1>5. PacketInv'
  <2>1. kind' # "packet"
    OBVIOUS
  <2> QED
    BY <2>1, Zenon DEF PacketInv
<1> QED
  BY <1>3, <1>4, <1>5

\* A new piece of the stream.
LEMMA PollInv ==
    ASSUME RecordInv, Poll,
           UNCHANGED <<kind, cycles, checked, status, cur, buf, cptr, header, rba, resp, fault>>
    PROVE  RecordInv'
<1>1. kind = "stream" /\ ~slave.on /\ back' = back
  BY DEF Poll
<1>2. PICK k \in 0 .. Len(wire), cut \in {"none", "header", "body"} :
        /\ wire' = SubSeq(wire, k + 1, Len(wire)) /\ bus' = bus
        /\ slave' = [Idle EXCEPT !.on = TRUE, !.recs = SubSeq(wire, 1, k), !.cut = cut]
  BY DEF Poll, Piece
<1>3. slave.recs = <<>> /\ bus \in Seq(Transactions) /\ back \in IF kind = "packet" THEN Seq(Seq(Answers)) ELSE Seq(Answers)
  BY <1>1, Zenon DEF RecordInv, SlaveInv
<1>4. slave'.recs = SubSeq(wire, 1, k)
  BY <1>2 DEF Idle
<1>5. StreamInv' /\ PacketInv' /\ SubSeq(wire, 1, k) \in Seq(Requests)
  BY <1>1, <1>2, <1>3, <1>4, PieceInv
<1>6. SlaveInv'
  <2>1. slave' \in Slaves /\ slave'.on = TRUE /\ slave'.dead = FALSE
    BY <1>2, <1>5, SlaveStarts, ZenonT(60)
  <2>2. kind' = kind
    OBVIOUS
  <2> QED
    BY <1>1, <1>2, <1>3, <2>1, <2>2, Zenon DEF SlaveInv
<1> QED
  BY <1>5, <1>6, MasterKept DEF RecordInv

\* More of it.
LEMMA MoreInv ==
    ASSUME RecordInv, More,
           UNCHANGED <<kind, cycles, checked, status, cur, buf, cptr, header, rba, resp, fault>>
    PROVE  RecordInv'
<1>1. kind = "stream" /\ slave.on /\ slave.recs = <<>> /\ Reply
  BY DEF More
<1>2. PICK k \in 0 .. Len(wire), cut \in {"none", "header", "body"} :
        /\ wire' = SubSeq(wire, k + 1, Len(wire)) /\ bus' = bus
        /\ slave' = [slave EXCEPT !.recs = SubSeq(wire, 1, k), !.cut = cut, !.out = <<>>]
  BY DEF More, Piece
<1>3. slave \in Slaves /\ bus \in Seq(Transactions) /\ ~slave.dead
  BY <1>1, Zenon DEF RecordInv, SlaveInv
<1>4. slave'.recs = SubSeq(wire, 1, k) /\ slave'.on = slave.on /\ slave'.dead = slave.dead
  BY <1>2, <1>3 DEF Slaves
<1>5. StreamInv' /\ PacketInv' /\ SubSeq(wire, 1, k) \in Seq(Requests)
  BY <1>1, <1>2, <1>4, PieceInv
<1>6. SlaveInv'
  <2>1. <<>> \in Seq(Answers)
    BY Nothing
  <2>2. slave' \in Slaves
    BY <1>2, <1>3, <1>5, <2>1 DEF Slaves
  <2>3. back' \in IF kind = "packet" THEN Seq(Seq(Answers)) ELSE Seq(Answers)
    BY <1>1, ReplyFacts
  <2>4. kind' = kind
    OBVIOUS
  <2> QED
    BY <1>1, <1>2, <1>3, <1>4, <2>2, <2>3, <2>4, Zenon DEF SlaveInv
<1> QED
  BY <1>5, <1>6, MasterKept DEF RecordInv

\* The message ends, or the link is closed.
LEMMA EndInv ==
    ASSUME RecordInv, EndMessage \/ Kill,
           UNCHANGED <<kind, cycles, checked, status, cur, buf, cptr, header, rba, resp, fault>>
    PROVE  RecordInv'
<1>1. /\ slave.recs = <<>> /\ Reply /\ (slave' = Idle \/ slave' = [Idle EXCEPT !.dead = TRUE])
      /\ UNCHANGED <<wire, dups, bus>>
  BY DEF EndMessage, Kill
<1>2. slave' \in Slaves /\ slave'.on = FALSE /\ slave'.recs = <<>>
  <2>1. <<>> \in Seq(Requests) /\ "none" \in {"none", "header", "body"}
    BY Nothing
  <2> QED
    BY <1>1, <2>1, SlaveStarts
<1>3. SlaveInv'
  <2>1. back' \in IF kind = "packet" THEN Seq(Seq(Answers)) ELSE Seq(Answers)
    BY <1>1, ReplyFacts
  <2>2. bus \in Seq(Transactions)
    BY Zenon DEF RecordInv, SlaveInv
  <2>3. kind' = kind /\ bus' = bus
    BY <1>1
  <2> QED
    BY <1>2, <2>1, <2>2, <2>3, Zenon DEF SlaveInv
<1>4. PacketInv'
  BY <1>1 DEF RecordInv, PacketInv
<1>5. StreamInv'
  <2>1. slave'.recs = slave.recs /\ wire' = wire /\ bus' = bus /\ cycles' = cycles /\ status' = status
        /\ cur' = cur /\ buf' = buf /\ kind' = kind
    BY <1>1, <1>2
  <2> QED
    BY <2>1, Zenon DEF RecordInv, StreamInv
<1> QED
  BY <1>3, <1>4, <1>5, MasterKept DEF RecordInv

\* The first element of two lists, one after the other.
LEMMA ConcatHead ==
    ASSUME NEW T, NEW s \in Seq(T), NEW t \in Seq(T), s # <<>>
    PROVE  s \o t # <<>> /\ Head(s \o t) = Head(s) /\ Tail(s \o t) = Tail(s) \o t
<1>1. PICK h \in T, r \in Seq(T) : h = Head(s) /\ r = Tail(s) /\ s = <<h>> \o r
  BY HeadTail
<1>2. <<h>> \in Seq(T)
  OBVIOUS
<1>3. Regroups(<<h>>, r, t)
  BY <1>2, Regrouping
<1>4. r \o t \in Seq(T)
  BY Chain
<1>5. <<h>> \o (r \o t) # <<>> /\ Head(<<h>> \o (r \o t)) = h /\ Tail(<<h>> \o (r \o t)) = r \o t
  BY <1>4, ConsFacts
<1> QED
  BY <1>1, <1>3, <1>5, Zenon DEF Regroups

\* A record is executed.
LEMMA ExecRecordInv ==
    ASSUME RecordInv, ExecRecord,
           UNCHANGED <<kind, cycles, checked, status, cur, buf, cptr, header, rba, resp, fault>>
    PROVE  RecordInv'
<1> DEFINE rec  == Head(slave.recs)
           done == Execute(rec, slave.error, bus)
           reads == rec.reads # <<>>
           open == IF reads THEN ~rec.cyc ELSE slave.open
           a == [cyc |-> rec.cyc, lanes |-> rec.lanes, addr |-> rec.bra, words |-> done.words]
           answer == IF reads THEN <<a>> ELSE <<>>
           tail == IF open /\ rec.cyc THEN <<Terminator>> ELSE <<>>
           out == (slave.out \o answer) \o tail
           u == [slave EXCEPT !.recs = Tail(@), !.error = done.error, !.cyc = rec.cyc,
                              !.open = open, !.reply = @ \/ reads, !.out = @ \o answer \o tail]
<1>1. slave.on /\ slave.recs # <<>> /\ bus' = done.bus /\ slave' = u /\ UNCHANGED <<wire, dups, back>>
  BY DEF ExecRecord
<1>2. /\ slave \in Slaves /\ bus \in Seq(Transactions) /\ ~slave.dead
      /\ back \in IF kind = "packet" THEN Seq(Seq(Answers)) ELSE Seq(Answers)
  BY <1>1, Zenon DEF RecordInv, SlaveInv
<1>3. slave.recs \in Seq(Requests) /\ slave.error \in Nat /\ slave.out \in Seq(Answers)
  BY <1>2 DEF Slaves
<1>4. rec \in Requests /\ Tail(slave.recs) \in Seq(Requests)
  BY <1>1, <1>3, HeadTail
<1> HIDE DEF rec
<1>5. done \in StateType
  BY <1>2, <1>3, <1>4, ExecuteTyped
<1> HIDE DEF done
<1>6. done.error \in Nat /\ done.bus \in Seq(Transactions) /\ done.words \in Seq(Nat)
  BY <1>5 DEF StateType
<1>7. rec.cyc \in BOOLEAN /\ rec.lanes \in LaneSets /\ rec.bra \in Nat
  BY <1>4 DEF Requests
<1>8. a \in Answers /\ Terminator \in Answers
  <2>1. <<>> \in Seq(Nat)
    BY Nothing
  <2> QED
    BY <1>6, <1>7, <2>1 DEF Answers, Terminator
<1> HIDE DEF a
<1>9. answer \in Seq(Answers) /\ tail \in Seq(Answers)
  <2>1. \A x \in Answers : <<x>> \in Seq(Answers)
    OBVIOUS
  <2>2. <<>> \in Seq(Answers)
    BY Nothing
  <2> QED
    BY <1>8, <2>1, <2>2, Zenon
<1>10. reads \in BOOLEAN /\ open \in BOOLEAN
  <2>1. slave.open \in BOOLEAN
    BY <1>2 DEF Slaves
  <2> QED
    BY <1>7, <2>1, Zenon
<1> HIDE DEF answer, tail, reads, open
<1>11. out \in Seq(Answers)
  BY <1>3, <1>9, Chain
<1>12. slave' = [slave EXCEPT !.recs = Tail(slave.recs), !.error = done.error, !.cyc = rec.cyc,
                              !.open = open, !.reply = slave.reply \/ reads, !.out = out]
  BY <1>1, <1>2 DEF Slaves
<1> HIDE DEF u, out
<1>14. slave' \in Slaves /\ slave'.on = slave.on /\ slave'.dead = slave.dead /\ slave'.recs = Tail(slave.recs)
  <2>1. PICK rp \in BOOLEAN : rp = (slave.reply \/ reads)
    OBVIOUS
  <2> QED
    BY <1>2, <1>4, <1>6, <1>7, <1>10, <1>11, <1>12, <2>1 DEF Slaves
<1>15. SlaveInv'
  <2>1. kind' = kind /\ back' = back
    BY <1>1
  <2> QED
    BY <1>1, <1>2, <1>6, <1>14, <2>1, Zenon DEF SlaveInv
<1>16. PacketInv'
  BY <1>1 DEF RecordInv, PacketInv
<1>17. StreamInv'
  <2>1. SUFFICES ASSUME kind = "stream"
                 PROVE  /\ wire \in Seq(Requests)
                        /\ Streamed(Total(BareAll(cycles), status, cur.c, cur.p), done.bus, Tail(slave.recs) \o (wire \o buf))
    BY <1>1, <1>14, Zenon DEF StreamInv
  <2>2. /\ wire \in Seq(Requests)
        /\ Streamed(Total(BareAll(cycles), status, cur.c, cur.p), bus, slave.recs \o (wire \o buf))
    BY <2>1, Zenon DEF RecordInv, StreamInv
  <2>3. PICK v \in Seq(Requests) : v = wire \o buf
    <3>1. buf \in Seq(Requests)
      BY DEF RecordInv, BufferInv
    <3> QED
      BY <2>2, <3>1, Chain
  <2>4. slave.recs \o v # <<>> /\ Head(slave.recs \o v) = rec /\ Tail(slave.recs \o v) = Tail(slave.recs) \o v
    BY <1>1, <1>3, ConcatHead DEF rec
  <2>5. Streamed(Total(BareAll(cycles), status, cur.c, cur.p), Execute(Head(slave.recs \o v), slave.error, bus).bus, Tail(slave.recs \o v))
    BY <1>2, <1>3, <2>2, <2>3, <2>4, StreamExecute
  <2> QED
    BY <2>2, <2>3, <2>4, <2>5, Zenon DEF done
<1> QED
  BY <1>15, <1>16, <1>17, MasterKept DEF RecordInv

\* Statuses that agree on every cycle keep the datagrams whole.
LEMMA DatagramsSame ==
    ASSUME NEW bare \in Seq(Seq(Operation)), NEW st, NEW su, NEW c \in Nat, Agree(st, su, Len(bare)),
           NEW w \in Seq(WholeDatagrams(bare, st, c))
    PROVE  w \in Seq(WholeDatagrams(bare, su, c))
<1>1. ASSUME NEW recs, Whole(bare, st, c, recs)
      PROVE  Whole(bare, su, c, recs)
  <2>1. PICK n \in Nat : n = Len(bare)
    BY Indices
  <2>2. PICK a \in 1 .. n : \E b \in a .. n : b < c /\ StandsAll(recs, AcceptedOf(bare, st, a, b))
    BY <1>1, <2>1, Zenon DEF Whole
  <2>3. PICK b \in a .. n : b < c /\ StandsAll(recs, AcceptedOf(bare, st, a, b))
    BY <2>2, Zenon
  <2>4. a \in Nat /\ b \in Int /\ 1 <= a /\ \A i \in 1 .. b : i \in 1 .. n
    BY <2>1, <2>3
  <2>5. AcceptedOf(bare, st, a, b) = AcceptedOf(bare, su, a, b)
    <3>1. \A i \in 1 .. b : (st[i] = "OVERFLOW") <=> (su[i] = "OVERFLOW")
      BY <2>1, <2>4, Zenon DEF Agree
    <3> QED
      BY <2>4, <3>1, AcceptedSame
  <2> QED
    BY <1>1, <2>1, <2>3, <2>5, Zenon DEF Whole
<1>2. \A x \in WholeDatagrams(bare, st, c) : x \in WholeDatagrams(bare, su, c)
  BY <1>1 DEF WholeDatagrams
<1>3. \A i \in 1 .. Len(w) : w[i] \in WholeDatagrams(bare, st, c)
  OBVIOUS
<1> QED
  BY <1>2, <1>3, Retyped

\* A reply is read: the formatting is over, and nothing that was asked changes.
LEMMA AnswerInv ==
    ASSUME RecordInv, Answer
    PROVE  RecordInv'
<1> DEFINE bare == BareAll(cycles)
           n == Len(cycles)
           over == OverOf(status, n)
           m == [cycles |-> cycles, resp |-> resp, status |-> status]
<1>1. /\ kind \in {"packet", "stream"} /\ cycles \in Seq(Seq(Operation)) /\ n \in Nat
      /\ bare \in Seq(Seq(Operation)) /\ Len(bare) = n
      /\ cur.c \in Nat /\ cur.p \in Nat /\ cur.c \in 1 .. n + 2
  BY InvFacts, Zenon
<1>2. /\ Flushed /\ back # <<>>
      /\ UNCHANGED <<kind, checked, cur, buf, cptr, header, rba, wire, dups, slave, fault, bus>>
  BY DEF Answer
<1>3. PICK i \in DOMAIN back :
        /\ kind = "stream" => i = 1
        /\ cycles' = Deliver(m, IF kind = "packet" THEN back[i] ELSE <<back[i]>>).cycles
        /\ resp' = Deliver(m, IF kind = "packet" THEN back[i] ELSE <<back[i]>>).resp
        /\ status' = Deliver(m, IF kind = "packet" THEN back[i] ELSE <<back[i]>>).status
        /\ back' = RemoveAt(back, i)
  BY Zenon DEF Answer
<1>4. cur.c > n + 1
  BY <1>2 DEF Flushed
<1>5. cur.c = n + 2 /\ \A d \in 1 .. n : d < cur.c /\ ~(d >= cur.c)
  BY <1>1, <1>4
<1>6. ~(cur.p > 0)
  <2>1. cur.p > 0 => cur.c \in 1 .. n
    BY Zenon DEF RecordInv, CursorInv
  <2> QED
    BY <1>1, <1>4, <2>1
<1>7. m \in Stores(bare, over)
  <2>1. resp \in Seq(Responses) /\ \A k \in 1 .. Len(resp) : GoodResponse(bare, over, resp[k])
    BY Zenon DEF RecordInv, ResponseInv
  <2>2. status \in [1 .. n -> Statuses]
    BY Zenon DEF RecordInv, CyclesInv
  <2>3. \A c \in 1 .. n : status[c] = "OVERFLOW" <=> c \in over
    BY DEF OverOf
  <2>4. m.cycles = cycles /\ m.resp = resp /\ m.status = status
    OBVIOUS
  <2>5. m \in [cycles : Seq(Seq(Operation)), resp : Seq(Responses), status : [1 .. Len(bare) -> Statuses]]
    <3> HIDE DEF bare, n
    <3> QED
      BY <1>1, <2>1, <2>2
  <2> HIDE DEF bare, n, over, m
  <2>6. BareAll(m.cycles) = bare
    BY <2>4, Zenon DEF bare
  <2> QED
    BY <1>1, <2>1, <2>3, <2>4, <2>5, <2>6 DEF Stores
<1>8. back \in IF kind = "packet" THEN Seq(Seq(Answers)) ELSE Seq(Answers)
  BY Zenon DEF RecordInv, SlaveInv
<1> DEFINE recs == IF kind = "packet" THEN back[i] ELSE <<back[i]>>
<1>9. recs \in Seq(Answers) /\ back' \in IF kind = "packet" THEN Seq(Seq(Answers)) ELSE Seq(Answers)
  <2>1. CASE kind = "packet"
    <3> DEFINE S == Seq(Answers)
    <3>1. back \in Seq(S)
      BY <1>8, <2>1, Zenon
    <3> HIDE DEF S
    <3>2. i \in 1 .. Len(back)
      BY <3>1, Indices
    <3>3. back[i] \in S /\ RemoveAt(back, i) \in Seq(S)
      BY <3>1, <3>2, Removal
    <3> QED
      BY <1>3, <2>1, <3>3, Zenon DEF S
  <2>2. CASE kind = "stream"
    <3>0. kind # "packet"
      BY <2>2
    <3>1. back \in Seq(Answers)
      BY <1>8, <3>0, Zenon
    <3>2. i \in 1 .. Len(back)
      BY <3>1, Indices
    <3>3. back[i] \in Answers /\ RemoveAt(back, i) \in Seq(Answers)
      BY <3>1, <3>2, Removal
    <3>4. <<back[i]>> \in Seq(Answers)
      BY <3>3
    <3> QED
      BY <1>3, <3>0, <3>3, <3>4, Zenon
  <2> QED
    BY <1>1, <2>1, <2>2
<1>10. PICK a \in Stores(bare, over) : a = Deliver(m, recs)
  <2> HIDE DEF bare, n, over, m, recs
  <2> QED
    BY <1>1, <1>7, <1>9, DeliverFacts
<1>11. cycles' = a.cycles /\ resp' = a.resp /\ status' = a.status
  <2> HIDE DEF m
  <2> QED
    BY <1>3, <1>10, Zenon
<1> HIDE DEF bare, n, over, m, recs
<1>12. /\ cycles' \in Seq(Seq(Operation)) /\ Len(cycles') = n /\ BareAll(cycles') = bare
       /\ resp' \in Seq(Responses) /\ status' \in [1 .. n -> Statuses]
       /\ \A c \in 1 .. n : status'[c] = "OVERFLOW" <=> c \in over
       /\ \A k \in 1 .. Len(resp') : GoodResponse(bare, over, resp'[k])
  <2>1. a.cycles \in Seq(Seq(Operation)) /\ Len(a.cycles) = n /\ a.resp \in Seq(Responses) /\ a.status \in [1 .. n -> Statuses]
    BY <1>1, <1>10, StoresFacts
  <2>2. /\ BareAll(a.cycles) = bare
        /\ \A c \in 1 .. n : a.status[c] = "OVERFLOW" <=> c \in over
        /\ \A k \in 1 .. Len(a.resp) : GoodResponse(bare, over, a.resp[k])
    BY <1>1, <1>10 DEF Stores
  <2> QED
    BY <1>11, <2>1, <2>2, Zenon
<1>13. OverOf(status', n) = over
  BY <1>12 DEF OverOf, over
<1>14. Agree(status, status', n)
  BY <1>12 DEF Agree, over, OverOf
<1>15. CyclesInv'
  <2>1. kind \in Kinds /\ checked \in [1 .. n -> BOOLEAN]
    BY Zenon DEF RecordInv, CyclesInv, n
  <2>2. kind' = kind /\ checked' = checked /\ cur' = cur
    BY <1>2
  <2> QED
    BY <1>5, <1>12, <2>1, <2>2, Zenon DEF CyclesInv
<1>16. CursorInv'
  <2>1. cur' = cur
    BY <1>2
  <2>2. cur \in [c : Nat, p : Nat, ops : Nat, readback : BOOLEAN] /\ cur.c \in 1 .. n + 2
    BY Zenon DEF RecordInv, CursorInv, n
  <2> QED
    BY <1>6, <1>12, <2>1, <2>2, Zenon DEF CursorInv
<1>17. BufferInv'
  BY <1>2 DEF RecordInv, BufferInv, Limit
<1>18. ResponseInv'
  <2>1. \A k \in 1 .. Len(resp') : resp'[k].cycle < cur.c
    <3>1. \A k \in 1 .. Len(resp') : resp'[k].cycle \in 1 .. n
      BY <1>1, <1>12 DEF GoodResponse
    <3> QED
      BY <1>5, <3>1, Zenon
  <2>2. cur' = cur
    BY <1>2
  <2> QED
    BY <1>12, <1>13, <2>1, <2>2, Zenon DEF ResponseInv
<1>19. PacketInv'
  <2>1. SUFFICES ASSUME kind' = "packet"
                 PROVE  wire \in Seq(WholeDatagrams(bare, status', cur.c))
    <3>1. ~(cur'.c <= Len(cycles') + 1)
      BY <1>1, <1>2, <1>4, <1>12
    <3>2. cur' = cur /\ wire' = wire
      BY <1>2
    <3> QED
      BY <2>1, <1>12, <3>1, <3>2, Zenon DEF PacketInv
  <2>2. wire \in Seq(WholeDatagrams(bare, status, cur.c))
    BY <1>2, <2>1, Zenon DEF RecordInv, PacketInv, bare
  <2>3. PICK su : su = status'
    OBVIOUS
  <2>4. Agree(status, su, Len(bare))
    BY <1>1, <1>14, <2>3, Zenon
  <2>5. wire \in Seq(WholeDatagrams(bare, su, cur.c))
    BY <1>1, <2>2, <2>4, DatagramsSame
  <2> QED
    BY <2>3, <2>5, Zenon
<1>20. StreamInv'
  <2>1. SUFFICES ASSUME kind' = "stream"
                 PROVE  wire \in Seq(Requests) /\ Streamed(Total(bare, status', cur.c, cur.p), bus, slave.recs \o (wire \o buf))
    <3>1. cur' = cur /\ wire' = wire /\ bus' = bus /\ slave' = slave /\ buf' = buf
      BY <1>2
    <3> QED
      BY <2>1, <1>12, <3>1, Zenon DEF StreamInv
  <2>2. wire \in Seq(Requests) /\ Streamed(Total(bare, status, cur.c, cur.p), bus, slave.recs \o (wire \o buf))
    BY <1>2, <2>1, Zenon DEF RecordInv, StreamInv, bare
  <2>3. PICK su : su = status'
    OBVIOUS
  <2>4. Agree(status, su, Len(bare)) /\ cur.c \in 1 .. Len(bare) + 2
    BY <1>1, <1>14, <2>3, Zenon
  <2>5. PICK p : p = cur.p
    OBVIOUS
  <2>6. Total(bare, su, cur.c, p) = Total(bare, status, cur.c, p)
    BY <1>1, <2>4, TotalSame
  <2> QED
    BY <2>2, <2>3, <2>5, <2>6, Zenon
<1>21. SlaveInv'
  <2>1. kind' = kind /\ slave' = slave /\ bus' = bus
    BY <1>2
  <2> QED
    BY <1>9, <2>1, Zenon DEF RecordInv, SlaveInv
<1> QED
  BY <1>15, <1>16, <1>17, <1>18, <1>19, <1>20, <1>21 DEF RecordInv

\* The queue the flush finds: nothing is formatted, sent or called back.
LEMMA InitInv ==
    ASSUME Init
    PROVE  RecordInv
<1>1. PICK q \in Queues :
        /\ cycles = [c \in DOMAIN q |-> q[c].ops]
        /\ checked = [c \in DOMAIN q |-> q[c].checked]
        /\ status = [c \in DOMAIN q |-> "none"]
  BY DEF Init
<1>2. /\ kind \in Kinds /\ cur = NextCycle(1) /\ buf = <<>> /\ cptr = 0
      /\ header = [nr |-> FALSE, reads |-> FALSE] /\ rba = RbaBase /\ resp = <<>>
      /\ wire = <<>> /\ back = <<>> /\ slave = Idle /\ bus = <<>>
  BY DEF Init
<1>3. q \in Seq([ops : Seq(Operation), checked : BOOLEAN])
  BY RecordAssumption
<1> DEFINE S == Seq(Operation)
<1>4. PICK n \in Nat : n = Len(q) /\ DOMAIN q = 1 .. n
  BY <1>3, Indices
<1>5. \A c \in 1 .. n : q[c].ops \in S /\ q[c].checked \in BOOLEAN
  <2>1. q \in Seq([ops : S, checked : BOOLEAN])
    BY <1>3
  <2> DEFINE E == [ops : S, checked : BOOLEAN]
  <2> HIDE DEF S
  <2>2. \A e \in E : e.ops \in S /\ e.checked \in BOOLEAN
    OBVIOUS
  <2>3. q \in Seq(E)
    BY <2>1
  <2> HIDE DEF E
  <2>4. \A c \in 1 .. n : q[c] \in E
    BY <1>4, <2>3
  <2> QED
    BY <2>2, <2>4, Zenon
<1> HIDE DEF S
<1>6. cycles \in Seq(S) /\ Len(cycles) = n
  <2>1. [c \in 1 .. n |-> q[c].ops] \in [1 .. n -> S]
    BY <1>5
  <2> QED
    BY <1>1, <1>4, <2>1, Listed
<1>7. cycles \in Seq(Seq(Operation))
  BY <1>6 DEF S
<1>8. checked \in [1 .. n -> BOOLEAN] /\ status \in [1 .. n -> Statuses] /\ \A c \in 1 .. n : status[c] = "none"
  BY <1>1, <1>4, <1>5 DEF Statuses
<1>9. /\ cur \in [c : Nat, p : Nat, ops : Nat, readback : BOOLEAN] /\ cur.c = 1 /\ cur.p = 0 /\ ~(cur.p > 0)
      /\ cur.c \in 1 .. n + 2
  BY <1>2, <1>4 DEF NextCycle
<1>10. CyclesInv
  BY <1>2, <1>6, <1>7, <1>8, Zenon DEF CyclesInv
<1>11. CursorInv
  BY <1>6, <1>9, Zenon DEF CursorInv
<1>12. BufferInv
  <2>1. <<>> \in Seq(Requests) /\ Len(<<>>) = 0 /\ 0 \in 0 .. 0
    BY Nothing
  <2>2. 0 <= Limit
    BY RecordAssumption DEF Limit
  <2>3. header \in [nr : BOOLEAN, reads : BOOLEAN] /\ rba \in Nat
    BY <1>2 DEF RbaBase
  <2> QED
    BY <1>2, <2>1, <2>2, <2>3, WordsEmpty, Zenon DEF BufferInv
<1>13. ResponseInv
  <2>1. resp \in Seq(Responses) /\ Len(resp) = 0
    BY <1>2, Nothing
  <2>2. \A i \in 1 .. Len(resp) : FALSE
    BY <2>1
  <2> QED
    BY <2>1, <2>2, Zenon DEF ResponseInv
<1>14. PICK bare \in Seq(Seq(Operation)) : bare = BareAll(cycles) /\ Len(bare) = n
  BY <1>6, <1>7, BareAllFacts
<1>15. PacketInv
  <2>1. 1 \in Nat /\ 1 <= 1
    OBVIOUS
  <2>2. Buffered(bare, status, 1, 0, <<>>, 0)
    BY <2>1, BufferedNone
  <2>3. wire \in Seq(WholeDatagrams(BareAll(cycles), status, cur.c))
    BY <1>2, Nothing
  <2> QED
    BY <1>2, <1>9, <1>14, <2>2, <2>3, Zenon DEF PacketInv
<1>16. StreamInv
  <2>1. Total(bare, status, 1, 0) = <<>>
    <3>1. AcceptedOf(bare, status, 1, 1 - 1) = <<>>
      BY AcceptedNone
    <3>2. 1 \in 1 .. Len(bare) + 1
      BY <1>14
    <3>3. Total(bare, status, 1, 0) = AcceptedOf(bare, status, 1, 1 - 1) \o Partial(bare, 1, 0)
      BY <3>2, TotalIs
    <3>4. Partial(bare, 1, 0) = <<>>
      BY Zenon DEF Partial
    <3>5. <<>> \o <<>> = <<>>
      BY Nothing, ConcatEmpty
    <3> QED
      BY <3>1, <3>3, <3>4, <3>5, Zenon
  <2>2. <<>> \in Seq(Operation) /\ <<>> \o <<>> = <<>> /\ <<>> \in Seq(Requests)
    BY Nothing, ConcatEmpty
  <2>3. PerformsAll(<<>>, <<>>)
    BY DEF PerformsAll
  <2>4. Streamed(<<>>, <<>>, <<>>)
    BY <2>2, <2>3, StandsEmpty, Zenon DEF Streamed
  <2>5. slave.recs = <<>>
    BY <1>2 DEF Idle
  <2> QED
    BY <1>2, <1>9, <1>14, <2>1, <2>2, <2>4, <2>5, Zenon DEF StreamInv
<1>17. SlaveInv
  <2>1. <<>> \in Seq(Requests) /\ "none" \in {"none", "header", "body"}
    BY Nothing
  <2>2. slave \in Slaves /\ slave.on = FALSE /\ slave.recs = <<>>
    BY <1>2, <2>1, SlaveStarts
  <2>3. bus \in Seq(Transactions) /\ back \in Seq(Seq(Answers)) /\ back \in Seq(Answers)
    BY <1>2, Nothing
  <2> QED
    BY <2>2, <2>3, Zenon DEF SlaveInv
<1> QED
  BY <1>10, <1>11, <1>12, <1>13, <1>15, <1>16, <1>17 DEF RecordInv

\* Every step of the flush, of the remote and of the reader keeps the invariant.
LEMMA NextInv ==
    ASSUME RecordInv, [Next]_vars
    PROVE  RecordInv'
<1>1. CASE Flush
  <2>1. UNCHANGED <<kind, checked, dups, slave, back, fault, bus>>
    BY <1>1 DEF Flush
  <2>2. CASE Examine
    BY <2>1, <2>2, ExamineSound, ExamineBad
  <2>3. CASE AddRecord
    BY <2>1, <2>3, AddRecordInv
  <2>4. CASE Overflow
    BY <2>1, <2>4, OverflowInv
  <2>5. CASE FlushEnd
    BY <2>1, <2>5, FlushEndInv
  <2> QED
    BY <1>1, <2>2, <2>3, <2>4, <2>5, Zenon DEF Flush
<1>2. CASE Slave
  <2>1. UNCHANGED <<kind, cycles, checked, status, cur, buf, cptr, header, rba, resp, fault>>
    BY <1>2 DEF Slave
  <2>2. CASE Receive
    BY <2>1, <2>2, ReceiveInv
  <2>3. CASE Poll
    BY <2>1, <2>3, PollInv
  <2>4. CASE ExecRecord
    BY <2>1, <2>4, ExecRecordInv
  <2>5. CASE More
    BY <2>1, <2>5, MoreInv
  <2>6. CASE EndMessage \/ Kill
    BY <2>1, <2>6, EndInv
  <2> QED
    BY <1>2, <2>2, <2>3, <2>4, <2>5, <2>6, Zenon DEF Slave
<1>3. CASE Answer
  BY <1>3, AnswerInv
<1>4. CASE UNCHANGED vars
  <2>1. UNCHANGED <<kind, cycles, checked, status, cur, buf, cptr, header, rba, resp, fault>>
        /\ UNCHANGED <<wire, dups, slave, back, bus>>
    BY <1>4 DEF vars
  <2>2. CyclesInv' /\ CursorInv' /\ BufferInv' /\ ResponseInv'
    BY <2>1, MasterKept
  <2>3. PacketInv'
    BY <2>1 DEF RecordInv, PacketInv
  <2>4. StreamInv'
    BY <2>1, Zenon DEF RecordInv, StreamInv
  <2>5. SlaveInv'
    BY <2>1, Zenon DEF RecordInv, SlaveInv
  <2> QED
    BY <2>2, <2>3, <2>4, <2>5 DEF RecordInv
<1> QED
  BY <1>1, <1>2, <1>3, <1>4 DEF Next

\* The invariant holds.
LEMMA RecordInvariant == Spec => []RecordInv
<1>1. Init => RecordInv
  BY InitInv
<1>2. RecordInv /\ [Next]_vars => RecordInv'
  BY NextInv
<1> QED
  BY <1>1, <1>2, PTL DEF Spec

\* Cycles are called back with a status of the API, the buffer of eb_device_flush
\* is never overrun, whatever the mtu and the order of records in it, and the
\* cursors of a response stay inside its cycle while the words of replies move them.
THEOREM RecordTypeOK == Spec => []TypeOK
<1>1. ASSUME RecordInv PROVE TypeOK
  <2>1. /\ kind \in Kinds /\ cycles \in Seq(Seq(Operation)) /\ Len(cycles) \in Nat /\ DOMAIN cycles = 1 .. Len(cycles)
        /\ status \in [1 .. Len(cycles) -> Statuses]
    BY <1>1, Indices, Zenon DEF RecordInv, CyclesInv
  <2>2. \A c \in DOMAIN cycles : status[c] \in Statuses
    BY <2>1, Zenon
  <2>3. cur.c \in 1 .. Len(cycles) + 2 /\ cptr \in 0 .. Len(buf) /\ Words(buf) <= Limit
    BY <1>1, Zenon DEF RecordInv, CursorInv, BufferInv
  <2>4. \A i \in DOMAIN resp : /\ resp[i].write \in 0 .. Len(cycles[resp[i].cycle])
                               /\ resp[i].status \in 0 .. Len(cycles[resp[i].cycle])
    <3>1. resp \in Seq(Responses) /\ \A i \in 1 .. Len(resp) : GoodResponse(BareAll(cycles), OverOf(status, Len(cycles)), resp[i])
      BY <1>1, Zenon DEF RecordInv, ResponseInv
    <3>2. DOMAIN resp = 1 .. Len(resp)
      BY <3>1, Indices
    <3>3. /\ Len(BareAll(cycles)) = Len(cycles)
          /\ \A c \in 1 .. Len(cycles) : Len(BareAll(cycles)[c]) = Len(cycles[c])
      BY <1>1, InvFacts
    <3>4. ASSUME NEW i \in DOMAIN resp
          PROVE  /\ resp[i].cycle \in 1 .. Len(cycles)
                 /\ resp[i].write \in 0 .. Len(BareAll(cycles)[resp[i].cycle])
                 /\ resp[i].status \in 0 .. Len(BareAll(cycles)[resp[i].cycle])
      BY <3>1, <3>2, <3>3 DEF GoodResponse
    <3> QED
      BY <3>3, <3>4, Zenon
  <2>5. slave.on => ~slave.dead
    BY <1>1, Zenon DEF RecordInv, SlaveInv
  <2> QED
    BY <2>1, <2>2, <2>3, <2>4, <2>5, Zenon DEF TypeOK, Statuses
<1> QED
  BY <1>1, RecordInvariant, PTL

\* The operations the properties speak of.
LEMMA AcceptedFacts ==
    ASSUME NEW cs \in Seq(Seq(Operation)), NEW st, NEW a \in 1 .. Len(cs), NEW b \in a .. Len(cs)
    PROVE  AcceptedOf(cs, st, a, b) \in Seq(Operation) /\ AcceptedOf(BareAll(cs), st, a, b) = Bares(AcceptedOf(cs, st, a, b))
<1>1. PICK n \in Nat : n = Len(cs) /\ a \in 1 .. n + 1 /\ b \in a - 1 .. n /\ a \in Nat /\ b \in Int
  BY Indices
<1> QED
  BY <1>1, AcceptedTyped, AcceptedBares

\* Whatever the mtu, the record length and the queue, a datagram carries whole
\* cycles in the order they were closed, stands for exactly their operations and
\* ends with the cycle line low, through spills, overflows, repetition and answers.
THEOREM RecordWholeCycles == Spec => []WholeCycles
<1>1. ASSUME RecordInv PROVE WholeCycles
  <2>1. SUFFICES ASSUME kind = "packet", NEW i \in DOMAIN wire
                 PROVE  /\ Last(wire[i].recs).cyc
                        /\ \E a \in 1 .. Len(cycles) : \E b \in a .. Len(cycles) :
                             PerformsAll(Meaning(wire[i].recs), Accepted(a, b))
    BY DEF WholeCycles
  <2>2. /\ cycles \in Seq(Seq(Operation)) /\ Len(BareAll(cycles)) = Len(cycles) /\ BareAll(cycles) \in Seq(Seq(Operation))
        /\ Len(cycles) \in Nat
    BY <1>1, InvFacts
  <2>3. wire \in Seq(WholeDatagrams(BareAll(cycles), status, cur.c))
    BY <1>1, <2>1, Zenon DEF RecordInv, PacketInv
  <2>4. wire[i] \in WholeDatagrams(BareAll(cycles), status, cur.c)
    BY <2>1, <2>3
  <2>5. PICK r \in Seq(Requests) : r = wire[i].recs /\ Whole(BareAll(cycles), status, cur.c, r)
    BY <2>4 DEF WholeDatagrams, Datagrams
  <2>6. PICK a \in 1 .. Len(cycles) : \E b \in a .. Len(cycles) : StandsAll(r, AcceptedOf(BareAll(cycles), status, a, b))
    BY <2>2, <2>5, Zenon DEF Whole
  <2>7. PICK b \in a .. Len(cycles) : StandsAll(r, AcceptedOf(BareAll(cycles), status, a, b))
    BY <2>6, Zenon
  <2>8. PICK s \in Seq(Operation) : s = AcceptedOf(cycles, status, a, b) /\ AcceptedOf(BareAll(cycles), status, a, b) = Bares(s)
    BY <2>2, AcceptedFacts
  <2>9. PerformsAll(Meaning(r), Bares(s))
    BY <2>7, <2>8, StandsMeaning
  <2>10. Meaning(r) \in Seq(Transactions)
    <3>1. r # <<>>
      BY <2>5, Zenon DEF Whole
    <3>2. Head(r) \in Requests
      BY <3>1, HeadTail
    <3> QED
      BY <3>2, MeaningAppend
  <2>11. PerformsAll(Meaning(r), s)
    BY <2>9, <2>10, PerformsBares
  <2>12. Accepted(a, b) = s
    BY <2>8 DEF Accepted, AcceptedOf, Sent, SentOf, BusOps
  <2>13. Last(r).cyc
    BY <2>5, Zenon DEF Whole, Last
  <2> QED
    BY <2>5, <2>11, <2>12, <2>13, Zenon
<1> QED
  BY <1>1, RecordInvariant, PTL

\* Transactions that are the first operations of a list.
LEMMA PerformsFirst ==
    ASSUME NEW ts \in Seq(Transactions), NEW done \in Seq(Operation), PerformsAll(ts, done),
           NEW z \in Seq(Operation), NEW s \in Seq(Operation), Bares(s) = done \o z
    PROVE  Len(ts) <= Len(s) /\ PerformsAll(ts, SubSeq(s, 1, Len(ts)))
<1>1. PICK n \in Nat, l \in Nat, k \in Nat : n = Len(s) /\ l = Len(done) /\ k = Len(z)
  BY Indices
<1>2. Len(ts) = l /\ DOMAIN ts = 1 .. l /\ \A i \in 1 .. l : Performs(ts[i], done[i])
  BY <1>1, Indices DEF PerformsAll
<1>3. PICK e \in Seq(Operation) : e = done \o z /\ IsChain(e, done, z, Len(done), Len(z))
  BY Chain
<1>4. Len(e) = l + k /\ \A i \in 1 .. l : e[i] = done[i]
  BY <1>1, <1>3 DEF IsChain
<1>5. Len(Bares(s)) = n /\ \A i \in 1 .. n : Bares(s)[i] = Bare(s[i]) /\ SameFor(s[i], Bares(s)[i])
  BY <1>1, BaresFacts
<1>6. n = l + k /\ l <= n /\ \A i \in 1 .. l : i \in 1 .. n
  BY <1>1, <1>3, <1>4, <1>5
<1>7. PICK u \in Seq(Operation) : u = SubSeq(s, 1, l) /\ Len(u) = l /\ \A i \in 1 .. l : u[i] = s[i]
  <2>1. 1 \in 1 .. n + 1 /\ l + 1 \in 1 .. n + 1 /\ (l + 1) - 1 = l /\ \A i \in 1 .. l : (1 + i) - 1 = i
    BY <1>1, <1>6
  <2>2. SubSeq(s, 1, (l + 1) - 1) \in Seq(Operation) /\ IsPart(SubSeq(s, 1, (l + 1) - 1), s, 1, l + 1)
    BY <1>1, <2>1, Part
  <2>3. (l + 1) - 1 = l /\ Len(SubSeq(s, 1, (l + 1) - 1)) = l
        /\ \A i \in 1 .. l : SubSeq(s, 1, (l + 1) - 1)[i] = s[(1 + i) - 1]
    BY <2>1, <2>2, Zenon DEF IsPart
  <2> QED
    BY <2>1, <2>2, <2>3, Zenon
<1>8. ASSUME NEW i \in 1 .. l PROVE Performs(ts[i], u[i])
  <2>1. Performs(ts[i], done[i]) /\ SameFor(s[i], done[i]) /\ u[i] = s[i]
    BY <1>2, <1>3, <1>4, <1>5, <1>6, <1>7, Zenon
  <2>2. s[i] \in Operation /\ done[i] \in Operation
    <3>1. \A r \in Seq(Operation) : \A j \in 1 .. Len(r) : r[j] \in Operation
      OBVIOUS
    <3>2. i \in 1 .. Len(s) /\ i \in 1 .. Len(done)
      BY <1>1, <1>6
    <3> QED
      BY <3>1, <3>2
  <2> QED
    BY <2>1, <2>2, SameMeaning
<1>9. PerformsAll(ts, u)
  BY <1>2, <1>7, <1>8, Zenon DEF PerformsAll
<1> QED
  BY <1>1, <1>2, <1>6, <1>7, <1>9, Zenon

\* Over a stream, wherever the transport cuts it, the bus sees the operations of the
\* accepted cycles in order and each once, for every queue, buffer size and width.
THEOREM RecordStreamOrder == Spec => []StreamOrder
<1>1. ASSUME RecordInv PROVE StreamOrder
  <2>1. SUFFICES ASSUME kind = "stream"
                 PROVE  /\ Len(bus) <= Len(Accepted(1, Len(cycles)))
                        /\ PerformsAll(bus, SubSeq(Accepted(1, Len(cycles)), 1, Len(bus)))
    BY DEF StreamOrder
  <2> DEFINE bare == BareAll(cycles)
             n == Len(cycles)
  <2>2. /\ cycles \in Seq(Seq(Operation)) /\ Len(bare) = n /\ bare \in Seq(Seq(Operation)) /\ n \in Nat
        /\ \A c \in 1 .. n : cycles[c] \in Seq(Operation) /\ bare[c] = Bares(cycles[c]) /\ Len(bare[c]) = Len(cycles[c])
        /\ cur.c \in Nat /\ cur.p \in Nat /\ cur.c \in 1 .. n + 2
    BY <1>1, InvFacts
  <2>3. bus \in Seq(Transactions)
    BY <1>1, Zenon DEF RecordInv, SlaveInv
  <2>4. Streamed(Total(bare, status, cur.c, cur.p), bus, slave.recs \o (wire \o buf))
    BY <1>1, <2>1, Zenon DEF RecordInv, StreamInv
  <2>5. PICK c \in 1 .. n + 2, p \in Nat : c = cur.c /\ p = cur.p
    BY <2>2
  <2>6. p > 0 => c <= n /\ p <= Len(bare[c]) + 1 /\ SentOf(bare, status, c) = OnBus(bare[c])
    <3>1. ASSUME p > 0 PROVE c \in 1 .. n /\ p \in 1 .. Len(cycles[c]) + 1 /\ Ready(cycles[c])
      BY <1>1, <2>5, <3>1, Zenon DEF RecordInv, CursorInv
    <3>2. ASSUME p > 0 PROVE status[c] # "OVERFLOW"
      <4>1. c \in 1 .. n /\ c >= c
        BY <3>1, <3>2
      <4>2. status[c] = "none"
        BY <1>1, <2>5, <4>1, Zenon DEF RecordInv, CyclesInv
      <4> QED
        BY <4>2
    <3>3. ASSUME p > 0 PROVE Objections(bare[c]) = {}
      BY <2>2, <3>1, <3>3, ReadyFacts
    <3>4. ASSUME p > 0 PROVE c <= n /\ p <= Len(bare[c]) + 1
      <4>1. PICK l \in Nat : l = Len(bare[c]) /\ l = Len(cycles[c])
        BY <2>2, <3>1, <3>4, Indices
      <4> QED
        BY <2>2, <3>1, <3>4, <4>1
    <3> QED
      BY <3>2, <3>3, <3>4, Zenon DEF SentOf
  <2> HIDE DEF bare, n
  <2>7. PICK total \in {AcceptedOf(bare, status, 1, n)} : Begins(Total(bare, status, c, p), total)
    BY <2>2, <2>5, <2>6, TotalBegins
  <2>8. PICK z \in Seq(Operation) : total = Total(bare, status, c, p) \o z
    BY <2>7, Zenon DEF Begins
  <2>9. PICK done \in Seq(Operation), rest \in Seq(Operation) :
          PerformsAll(bus, done) /\ Total(bare, status, c, p) = done \o rest
    BY <2>4, <2>5, Zenon DEF Streamed
  <2>10. rest \o z \in Seq(Operation) /\ Regroups(done, rest, z)
    BY Regrouping, Chain
  <2>11. AcceptedOf(bare, status, 1, n) = done \o (rest \o z)
    BY <2>7, <2>8, <2>9, <2>10 DEF Regroups
  <2>12. PICK s \in Seq(Operation) : s = AcceptedOf(cycles, status, 1, n) /\ AcceptedOf(bare, status, 1, n) = Bares(s)
    <3>1. 1 \in 1 .. n + 1 /\ n \in 1 - 1 .. n /\ 1 \in Nat /\ n \in Int
      BY <2>2
    <3> QED
      BY <2>2, <3>1, AcceptedTyped, AcceptedBares DEF n, bare
  <2>13. Len(bus) <= Len(s) /\ PerformsAll(bus, SubSeq(s, 1, Len(bus)))
    BY <2>3, <2>9, <2>10, <2>11, <2>12, PerformsFirst
  <2>14. Accepted(1, Len(cycles)) = s
    BY <2>12 DEF Accepted, AcceptedOf, Sent, SentOf, BusOps, n
  <2> QED
    BY <2>13, <2>14, Zenon
<1> QED
  BY <1>1, RecordInvariant, PTL
=============================================================================

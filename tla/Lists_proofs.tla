---------------------------- MODULE Lists_proofs ----------------------------
EXTENDS Lists, SequenceTheorems, WellFoundedInduction, TLAPS

\* A set of naturals that is not empty has a least element.
LEMMA LeastNat ==
    ASSUME NEW T \in SUBSET Nat, T # {}
    PROVE  \E m \in T : \A k \in T : m <= k
<1> DEFINE R == {p \in Nat \X Nat : p[1] < p[2]}
<1>1. IsWellFoundedOn(R, Nat)
  BY NatLessThanWellFounded, Zenon DEF OpToRel
<1> HIDE DEF R
<1>2. PICK m \in T : \A k \in T : <<k, m>> \notin R
  BY <1>1, WFMin
<1>3. \A k \in T : k \in Nat /\ m \in Nat /\ ~(k < m)
  BY <1>2 DEF R
<1> QED
  BY <1>2, <1>3

\* Induction over the naturals, for a set instead of a predicate.
LEMMA NatInd ==
    ASSUME NEW S, 0 \in S, \A n \in Nat : n \in S => n + 1 \in S
    PROVE  Nat \subseteq S
<1> DEFINE T == Nat \ S
<1> SUFFICES ASSUME T # {} PROVE FALSE
  OBVIOUS
<1>1. PICK m \in T : \A k \in T : m <= k
  BY LeastNat
<1>2. m # 0 /\ m - 1 \in Nat /\ m - 1 \in S
  BY <1>1
<1> QED
  BY <1>1, <1>2

\* Induction over an interval, with a set in place of a predicate.
LEMMA IntervalInd ==
    ASSUME NEW n \in Nat, NEW S, 0 \in S, \A i \in 1..n : i - 1 \in S => i \in S
    PROVE  0..n \subseteq S
<1> DEFINE T == S \cup {k \in Nat : k > n}
<1>1. \A k \in Nat : k \in T => k + 1 \in T
  <2> TAKE k \in Nat
  <2> HAVE k \in T
  <2>1. CASE k + 1 > n
    BY <2>1
  <2>2. CASE k + 1 <= n
    <3>1. k \in S /\ k + 1 \in 1..n
      BY <2>2
    <3> QED
      BY <3>1
  <2> QED
    BY <2>1, <2>2
<1>2. Nat \subseteq T
  <2> HIDE DEF T
  <2>1. 0 \in T
    BY DEF T
  <2> QED
    BY <1>1, <2>1, NatInd
<1> QED
  BY <1>2

\* A step function defines a function on an interval by recursion.
LEMMA RecursiveFcn ==
    ASSUME NEW V, NEW v0 \in V, NEW n \in Nat, NEW h \in [1..n -> [V -> V]]
    PROVE  \E f \in [0..n -> V] : f[0] = v0 /\ \A i \in 1..n : f[i] = h[i][f[i - 1]]
<1> DEFINE Upto(k, f) == f[0] = v0 /\ \A i \in 1..k : f[i] = h[i][f[i - 1]]
           T == {k \in 0..n : \E f \in [0..n -> V] : Upto(k, f)}
<1>1. 0 \in T
  <2> DEFINE z == [i \in 0..n |-> v0]
  <2>1. z \in [0..n -> V] /\ Upto(0, z)
    OBVIOUS
  <2> HIDE DEF z
  <2> QED
    BY <2>1
<1>2. ASSUME NEW k \in 1..n, k - 1 \in T PROVE k \in T
  <2>1. PICK f \in [0..n -> V] : Upto(k - 1, f)
    BY <1>2
  <2> DEFINE g == [f EXCEPT ![k] = h[k][f[k - 1]]]
  <2>2. k - 1 \in 0..n /\ k \in 0..n /\ f[k - 1] \in V /\ h[k][f[k - 1]] \in V
    OBVIOUS
  <2>3. g \in [0..n -> V]
    BY <2>2
  <2>4. g[0] = v0
    BY <2>1
  <2>5. ASSUME NEW i \in 1..k PROVE g[i] = h[i][g[i - 1]]
    <3>1. i \in 0..n /\ i - 1 \in 0..n /\ g[i - 1] = f[i - 1]
      OBVIOUS
    <3>2. CASE i = k
      BY <3>1, <3>2, <2>2
    <3>3. CASE i # k
      <4>1. i \in 1..(k - 1) /\ g[i] = f[i]
        BY <3>1, <3>3
      <4> QED
        BY <3>1, <4>1, <2>1
    <3> QED
      BY <3>2, <3>3
  <2>6. Upto(k, g)
    BY <2>4, <2>5
  <2> HIDE DEF g
  <2> QED
    BY <2>2, <2>3, <2>6
<1> HIDE DEF T
<1>3. 0..n \subseteq T
  BY <1>1, <1>2, IntervalInd
<1>4. n \in T
  BY <1>3
<1> QED
  BY <1>4 DEF T

\* A function defined by the steps h from v0 on.
HasRun(V, v0, n, h) ==
    \E f \in [0 .. n -> V] : f[0] = v0 /\ \A i \in 1 .. n : f[i] = h[i][f[i - 1]]

\* RecursiveFcn, in terms of HasRun.
LEMMA RunExists ==
    ASSUME NEW V, NEW v0 \in V, NEW n \in Nat, NEW h \in [1 .. n -> [V -> V]]
    PROVE  HasRun(V, v0, n, h)
  BY RecursiveFcn DEF HasRun

-----------------------------------------------------------------------------
\* k holds what is kept of the first 0, 1, ... elements of s.
KeptSteps(k, s, S) ==
    /\ k[0] = <<>>
    /\ \A i \in 1..Len(s) : k[i] = IF s[i] \in S THEN Append(k[i - 1], s[i]) ELSE k[i - 1]
    /\ Filter(s, S) = k[Len(s)]

\* The recursion of Filter defines a function.
LEMMA FilterRec ==
    ASSUME NEW T, NEW s \in Seq(T), NEW S
    PROVE  \E k \in [0..Len(s) -> Seq(T)] : KeptSteps(k, s, S)
<1> DEFINE n == Len(s)
           h == [i \in 1..n |-> [v \in Seq(T) |-> IF s[i] \in S THEN Append(v, s[i]) ELSE v]]
           B(k, i) == IF i = 0 THEN <<>>
                      ELSE IF s[i] \in S THEN Append(k[i - 1], s[i]) ELSE k[i - 1]
           E(k) == k = [i \in 0..n |-> B(k, i)]
<1>1. h \in [1..n -> [Seq(T) -> Seq(T)]]
  OBVIOUS
<1>2. <<>> \in Seq(T) /\ n \in Nat
  OBVIOUS
<1>3. PICK f \in [0..n -> Seq(T)] : f[0] = <<>> /\ \A i \in 1..n : f[i] = h[i][f[i - 1]]
  <2> DEFINE V == Seq(T)
             z == <<>>
  <2>1. h \in [1..n -> [V -> V]] /\ n \in Nat /\ z \in V
    BY <1>1, <1>2
  <2> HIDE DEF h, n, V, z
  <2>2. \E f \in [0..n -> V] : f[0] = z /\ \A i \in 1..n : f[i] = h[i][f[i - 1]]
    BY <2>1, RecursiveFcn
  <2> QED
    BY <2>2 DEF V, z
<1>4. \A i \in 1..n : f[i] = IF s[i] \in S THEN Append(f[i - 1], s[i]) ELSE f[i - 1]
  <2>1. \A i \in 1..n : i - 1 \in 0..n
    BY <1>2
  <2>2. \A i \in 1..n : f[i - 1] \in Seq(T)
    BY <2>1
  <2> QED
    BY <2>2, <1>3, Zenon
<1>5. E(f)
  <2>1. \A i \in 0..n : i = 0 \/ (i \in 1..n /\ i # 0)
    BY <1>2
  <2>2. \A i \in 0..n : f[i] = B(f, i)
    BY <1>3, <1>4, <2>1, Zenon
  <2> HIDE DEF B
  <2>3. f = [i \in 0..n |-> f[i]]
    OBVIOUS
  <2> QED
    BY <2>2, <2>3
<1> DEFINE k == CHOOSE g : E(g)
<1>6. E(k)
  BY <1>5
<1>7. Filter(s, S) = k[n]
  BY Zenon DEF Filter
<1> HIDE DEF k
<1>8. /\ k[0] = <<>>
      /\ \A i \in 1..n : k[i] = IF s[i] \in S THEN Append(k[i - 1], s[i]) ELSE k[i - 1]
  <2>1. 0 \in 0..n /\ \A i \in 1..n : i \in 0..n /\ i # 0
    BY <1>2
  <2>2. \A i \in 0..n : k[i] = B(k, i)
    <3> HIDE DEF B
    <3> QED
      BY <1>6, Zenon
  <2> QED
    BY <2>1, <2>2, Zenon
<1>9. \A i \in 0..n : k[i] = f[i]
  <2> DEFINE Q == {i \in 0..n : k[i] = f[i]}
  <2>1. 0 \in Q
    BY <1>2, <1>3, <1>8
  <2>2. ASSUME NEW i \in 1..n, i - 1 \in Q PROVE i \in Q
    <3>1. i \in 0..n /\ k[i - 1] = f[i - 1]
      BY <2>2, <1>2
    <3>2. k[i] = f[i]
      BY <3>1, <1>4, <1>8, Zenon
    <3> QED
      BY <3>1, <3>2
  <2> HIDE DEF Q
  <2>3. 0..n \subseteq Q
    BY <1>2, <2>1, <2>2, IntervalInd
  <2> QED
    BY <2>3 DEF Q
<1>10. k \in [0..n -> Seq(T)]
  <2>1. \A i \in 0..n : k[i] \in Seq(T)
    BY <1>9
  <2> HIDE DEF B
  <2>2. k = [i \in 0..n |-> k[i]]
    BY <1>6, Zenon
  <2> QED
    BY <2>1, <2>2, Zenon
<1> QED
  BY <1>7, <1>8, <1>10, Zenon DEF KeptSteps

\* Induction over sequences, for a set instead of a predicate.
LEMMA SeqInd ==
    ASSUME NEW T, NEW Q, <<>> \in Q,
           \A s \in Seq(T), e \in T : s \in Q => Append(s, e) \in Q
    PROVE  Seq(T) \subseteq Q
<1> SUFFICES ASSUME NEW s \in Seq(T) PROVE s \in Q
  OBVIOUS
<1> DEFINE P == {n \in 0..Len(s) : SubSeq(s, 1, n) \in Q}
<1>1. Len(s) \in Nat
  OBVIOUS
<1>2. 0 \in P
  <2>1. SubSeq(s, 1, 0) = <<>> /\ 0 \in 0..Len(s)
    OBVIOUS
  <2> QED
    BY <2>1, Zenon
<1>3. ASSUME NEW n \in 1..Len(s), n - 1 \in P PROVE n \in P
  <2>1. SubSeq(s, 1, n - 1) \in Seq(T) /\ s[n] \in T
    OBVIOUS
  <2>2. SubSeq(s, 1, n) = Append(SubSeq(s, 1, n - 1), s[n])
    OBVIOUS
  <2>3. SubSeq(s, 1, n - 1) \in Q
    BY <1>3
  <2>4. SubSeq(s, 1, n) \in Q
    BY <2>1, <2>2, <2>3, Zenon
  <2> QED
    BY <2>4
<1> HIDE DEF P
<1>4. 0..Len(s) \subseteq P
  BY <1>1, <1>2, <1>3, IntervalInd
<1>5. SubSeq(s, 1, Len(s)) = s /\ Len(s) \in 0..Len(s)
  OBVIOUS
<1> QED
  BY <1>4, <1>5 DEF P

\* Nothing is kept of the empty list.
LEMMA FilterEmpty ==
    ASSUME NEW S
    PROVE  Filter(<<>>, S) = <<>>
<1>1. <<>> \in Seq({}) /\ Len(<<>>) = 0
  OBVIOUS
<1> DEFINE s == <<>>
<1> HIDE DEF s
<1>2. s \in Seq({}) /\ Len(s) = 0 /\ s = <<>>
  BY <1>1 DEF s
<1>3. PICK k \in [0..Len(s) -> Seq({})] : KeptSteps(k, s, S)
  BY <1>2, FilterRec
<1> QED
  BY <1>2, <1>3, Zenon DEF KeptSteps

\* A filtered list has elements of the same type.
LEMMA FilterType ==
    ASSUME NEW T, NEW s \in Seq(T), NEW S
    PROVE  Filter(s, S) \in Seq(T)
<1>1. PICK k \in [0..Len(s) -> Seq(T)] : KeptSteps(k, s, S)
  BY FilterRec
<1>2. Len(s) \in 0..Len(s)
  OBVIOUS
<1>3. k[Len(s)] \in Seq(T)
  BY <1>2
<1> QED
  BY <1>1, <1>3 DEF KeptSteps

\* Filter looks at the elements one by one.
LEMMA FilterAppend ==
    ASSUME NEW T, NEW s \in Seq(T), NEW e \in T, NEW S
    PROVE  Filter(Append(s, e), S) = IF e \in S THEN Append(Filter(s, S), e) ELSE Filter(s, S)
<1> DEFINE t == Append(s, e)
           n == Len(s)
<1>1. t \in Seq(T) /\ n \in Nat /\ Len(t) = n + 1 /\ t[n + 1] = e
      /\ \A i \in 1..n : t[i] = s[i]
  OBVIOUS
<1> HIDE DEF t, n
<1>2. PICK k \in [0..n -> Seq(T)] : KeptSteps(k, s, S)
  BY FilterRec DEF n
<1>3. PICK l \in [0..(n + 1) -> Seq(T)] : KeptSteps(l, t, S)
  BY <1>1, FilterRec
<1> DEFINE P == {i \in 0..n : l[i] = k[i]}
<1>4. 0 \in P
  <2>1. 0 \in 0..n
    BY <1>1
  <2> QED
    BY <2>1, <1>2, <1>3, Zenon DEF KeptSteps
<1>5. ASSUME NEW i \in 1..n, i - 1 \in P PROVE i \in P
  <2>1. i \in 0..n /\ i \in 1..(n + 1) /\ t[i] = s[i] /\ l[i - 1] = k[i - 1]
    BY <1>1, <1>5, SMTT(40)
  <2>2. l[i] = k[i]
    BY <1>1, <1>2, <1>3, <2>1, Zenon DEF KeptSteps, n
  <2> QED
    BY <2>1, <2>2
<1> HIDE DEF P
<1>6. 0..n \subseteq P
  BY <1>1, <1>4, <1>5, IntervalInd
<1>7. l[n] = k[n]
  <2>1. n \in 0..n
    BY <1>1
  <2> QED
    BY <1>6, <2>1 DEF P
<1>8. n + 1 \in 1..(n + 1) /\ (n + 1) - 1 = n
  BY <1>1
<1>9. l[n + 1] = IF t[n + 1] \in S THEN Append(l[n], t[n + 1]) ELSE l[n]
  BY <1>1, <1>3, <1>8, Zenon DEF KeptSteps
<1> QED
  BY <1>1, <1>2, <1>3, <1>7, <1>9, Zenon DEF t, n, KeptSteps

\* (a name for the equation, so that the provers instantiate it as it is)
AppendsBehind(s, t, e) == Append(s \o t, e) = s \o Append(t, e)

\* Appending to the second part is appending to the whole.
LEMMA AppendConcat ==
    ASSUME NEW T, NEW s \in Seq(T), NEW t \in Seq(T), NEW e \in T
    PROVE  AppendsBehind(s, t, e)
  BY DEF AppendsBehind

\* Filter treats the parts of a list separately.
LEMMA FilterConcat ==
    ASSUME NEW T, NEW s \in Seq(T), NEW t \in Seq(T), NEW S
    PROVE  Filter(s \o t, S) = Filter(s, S) \o Filter(t, S)
<1> DEFINE Q == {u \in Seq(T) : Filter(s \o u, S) = Filter(s, S) \o Filter(u, S)}
<1>0. Filter(s, S) \in Seq(T)
  BY FilterType
<1>1. <<>> \in Q
  <2>1. s \o <<>> = s /\ <<>> \in Seq(T)
    OBVIOUS
  <2>2. Filter(s, S) \o <<>> = Filter(s, S)
    BY <1>0
  <2> QED
    BY <2>1, <2>2, FilterEmpty, Zenon
<1>2. ASSUME NEW u \in Seq(T), NEW e \in T, u \in Q PROVE Append(u, e) \in Q
  <2>1. s \o Append(u, e) = Append(s \o u, e) /\ s \o u \in Seq(T) /\ Append(u, e) \in Seq(T)
    OBVIOUS
  <2>2. Filter(u, S) \in Seq(T)
    BY FilterType
  <2>3. Filter(Append(s \o u, e), S)
          = IF e \in S THEN Append(Filter(s \o u, S), e) ELSE Filter(s \o u, S)
    BY <2>1, FilterAppend
  <2>4. Filter(Append(u, e), S) = IF e \in S THEN Append(Filter(u, S), e) ELSE Filter(u, S)
    BY FilterAppend
  <2>5. Append(Filter(s, S) \o Filter(u, S), e) = Filter(s, S) \o Append(Filter(u, S), e)
    <3>1. AppendsBehind(Filter(s, S), Filter(u, S), e)
      BY <1>0, <2>2, AppendConcat
    <3> QED
      BY <3>1 DEF AppendsBehind
  <2>6. Filter(s \o u, S) = Filter(s, S) \o Filter(u, S)
    BY <1>2
  <2> QED
    BY <2>1, <2>3, <2>4, <2>5, <2>6, Zenon
<1> HIDE DEF Q
<1>3. Seq(T) \subseteq Q
  BY <1>1, <1>2, SeqInd
<1> QED
  BY <1>3 DEF Q

\* Append adds one element.
LEMMA RangeAppend ==
    ASSUME NEW T, NEW s \in Seq(T), NEW e \in T
    PROVE  Range(Append(s, e)) = Range(s) \cup {e}
<1>1. DOMAIN s = 1..Len(s) /\ DOMAIN Append(s, e) = 1..(Len(s) + 1) /\ Len(s) \in Nat
      /\ Append(s, e)[Len(s) + 1] = e /\ \A i \in 1..Len(s) : Append(s, e)[i] = s[i]
  OBVIOUS
<1> HIDE DEF Append
<1> QED
  BY <1>1 DEF Range

\* Filter keeps the elements of the set and no others.
LEMMA FilterRange ==
    ASSUME NEW T, NEW s \in Seq(T), NEW S
    PROVE  Range(Filter(s, S)) = Range(s) \cap S
<1> DEFINE Q == {u \in Seq(T) : Range(Filter(u, S)) = Range(u) \cap S}
<1>1. <<>> \in Q
  <2>1. Range(<<>>) = {} /\ <<>> \in Seq(T)
    BY DEF Range
  <2> QED
    BY <2>1, FilterEmpty, Zenon
<1>2. ASSUME NEW u \in Seq(T), NEW e \in T, u \in Q PROVE Append(u, e) \in Q
  <2>1. Append(u, e) \in Seq(T) /\ Filter(u, S) \in Seq(T)
    BY FilterType
  <2>2. Filter(Append(u, e), S) = IF e \in S THEN Append(Filter(u, S), e) ELSE Filter(u, S)
    BY FilterAppend
  <2>3. Range(Append(u, e)) = Range(u) \cup {e}
    BY RangeAppend
  <2>4. Range(Append(Filter(u, S), e)) = Range(Filter(u, S)) \cup {e}
    BY <2>1, RangeAppend
  <2>5. Range(Filter(u, S)) = Range(u) \cap S
    BY <1>2
  <2> QED
    BY <2>1, <2>2, <2>3, <2>4, <2>5, Zenon
<1> HIDE DEF Q
<1>3. Seq(T) \subseteq Q
  BY <1>1, <1>2, SeqInd
<1> QED
  BY <1>3 DEF Q

\* What is kept depends on the elements of the list only.
LEMMA FilterSame ==
    ASSUME NEW T, NEW s \in Seq(T), NEW S, NEW R, Range(s) \cap S = Range(s) \cap R
    PROVE  Filter(s, S) = Filter(s, R)
<1> DEFINE Q == {u \in Seq(T) : Range(u) \cap S = Range(u) \cap R => Filter(u, S) = Filter(u, R)}
<1>1. <<>> \in Q
  BY FilterEmpty
<1>2. ASSUME NEW u \in Seq(T), NEW e \in T, u \in Q PROVE Append(u, e) \in Q
  <2>1. Append(u, e) \in Seq(T)
    OBVIOUS
  <2>2. /\ Filter(Append(u, e), S) = IF e \in S THEN Append(Filter(u, S), e) ELSE Filter(u, S)
        /\ Filter(Append(u, e), R) = IF e \in R THEN Append(Filter(u, R), e) ELSE Filter(u, R)
    BY FilterAppend
  <2>3. Range(Append(u, e)) = Range(u) \cup {e}
    BY RangeAppend
  <2>4. ASSUME Range(Append(u, e)) \cap S = Range(Append(u, e)) \cap R
        PROVE  /\ Range(u) \cap S = Range(u) \cap R
               /\ e \in S <=> e \in R
    <3> HIDE DEF Q
    <3>1. (Range(u) \cup {e}) \cap S = (Range(u) \cup {e}) \cap R
      BY <2>3, <2>4, Zenon
    <3>2. \A x : x \in Range(u) \/ x = e => (x \in S <=> x \in R)
      BY <3>1, Zenon
    <3> QED
      BY <3>2
  <2>5. Range(u) \cap S = Range(u) \cap R => Filter(u, S) = Filter(u, R)
    BY <1>2
  <2> QED
    BY <2>1, <2>2, <2>4, <2>5, Zenon
<1> HIDE DEF Q
<1>3. Seq(T) \subseteq Q
  BY <1>1, <1>2, SeqInd
<1> QED
  BY <1>3 DEF Q

\* A list whose elements are all wanted stays as it is.
LEMMA FilterNothing ==
    ASSUME NEW T, NEW s \in Seq(T), NEW S, Range(s) \subseteq S
    PROVE  Filter(s, S) = s
<1> DEFINE Q == {u \in Seq(T) : Range(u) \subseteq S => Filter(u, S) = u}
<1>1. <<>> \in Q
  BY FilterEmpty
<1>2. ASSUME NEW u \in Seq(T), NEW e \in T, u \in Q PROVE Append(u, e) \in Q
  <2>1. Append(u, e) \in Seq(T)
    OBVIOUS
  <2>2. Filter(Append(u, e), S) = IF e \in S THEN Append(Filter(u, S), e) ELSE Filter(u, S)
    BY FilterAppend
  <2>3. Range(Append(u, e)) = Range(u) \cup {e}
    BY RangeAppend
  <2>4. Range(u) \subseteq S => Filter(u, S) = u
    BY <1>2
  <2> QED
    BY <2>1, <2>2, <2>3, <2>4, Zenon
<1> HIDE DEF Q
<1>3. Seq(T) \subseteq Q
  BY <1>1, <1>2, SeqInd
<1> QED
  BY <1>3 DEF Q

\* A list none of whose elements is wanted becomes empty.
LEMMA FilterAll ==
    ASSUME NEW T, NEW s \in Seq(T), NEW S, Range(s) \cap S = {}
    PROVE  Filter(s, S) = <<>>
<1>1. Range(Filter(s, S)) = {} /\ Filter(s, S) \in Seq(T)
  BY FilterRange, FilterType
<1> DEFINE u == Filter(s, S)
<1> HIDE DEF u
<1>2. u \in Seq(T) /\ Range(u) = {}
  BY <1>1 DEF u
<1>3. Len(u) = 0
  <2>1. Len(u) # 0 => 1 \in DOMAIN u
    BY <1>2
  <2> QED
    BY <1>2, <2>1 DEF Range
<1> QED
  BY <1>2, <1>3 DEF u

\* Filtering twice is filtering for both sets.
LEMMA FilterFilter ==
    ASSUME NEW T, NEW s \in Seq(T), NEW S, NEW R
    PROVE  Filter(Filter(s, S), R) = Filter(s, S \cap R)
<1> DEFINE Q == {u \in Seq(T) : Filter(Filter(u, S), R) = Filter(u, S \cap R)}
<1>1. <<>> \in Q
  <2>1. <<>> \in Seq(T)
    OBVIOUS
  <2>2. Filter(<<>>, S) = <<>> /\ Filter(<<>>, R) = <<>> /\ Filter(<<>>, S \cap R) = <<>>
    BY FilterEmpty
  <2> QED
    BY <2>1, <2>2, Zenon
<1>2. ASSUME NEW u \in Seq(T), NEW e \in T, u \in Q PROVE Append(u, e) \in Q
  <2>1. Append(u, e) \in Seq(T) /\ Filter(u, S) \in Seq(T)
    BY FilterType
  <2>2. Filter(Append(u, e), S) = IF e \in S THEN Append(Filter(u, S), e) ELSE Filter(u, S)
    BY FilterAppend
  <2>3. Filter(Append(u, e), S \cap R)
          = IF e \in S \cap R THEN Append(Filter(u, S \cap R), e) ELSE Filter(u, S \cap R)
    BY FilterAppend
  <2>4. Filter(Append(Filter(u, S), e), R)
          = IF e \in R THEN Append(Filter(Filter(u, S), R), e) ELSE Filter(Filter(u, S), R)
    BY <2>1, FilterAppend
  <2>5. Filter(Filter(u, S), R) = Filter(u, S \cap R)
    BY <1>2
  <2>6. e \in S \cap R <=> e \in S /\ e \in R
    OBVIOUS
  <2> QED
    BY <2>1, <2>2, <2>3, <2>4, <2>5, <2>6, Zenon
<1> HIDE DEF Q
<1>3. Seq(T) \subseteq Q
  BY <1>1, <1>2, SeqInd
<1> QED
  BY <1>3 DEF Q

\* The order of the elements that are kept does not change, and no element
\* is repeated that was not repeated before.
LEMMA InjectiveAppend ==
    ASSUME NEW T, NEW s \in Seq(T), NEW e \in T
    PROVE  IsInjective(Append(s, e)) <=> IsInjective(s) /\ e \notin Range(s)
<1> DEFINE t == Append(s, e)
           n == Len(s)
<1>1. /\ DOMAIN s = 1..n /\ DOMAIN t = 1..(n + 1) /\ n \in Nat
      /\ t[n + 1] = e /\ \A i \in 1..n : t[i] = s[i]
  OBVIOUS
<1> HIDE DEF t, n
<1>2. IsInjective(t) => IsInjective(s) /\ e \notin Range(s)
  BY <1>1 DEF IsInjective, Range
<1>3. IsInjective(s) /\ e \notin Range(s) => IsInjective(t)
  BY <1>1 DEF IsInjective, Range
<1> QED
  BY <1>2, <1>3 DEF t

\* Filter does not repeat an element.
LEMMA FilterInjective ==
    ASSUME NEW T, NEW s \in Seq(T), NEW S, IsInjective(s)
    PROVE  IsInjective(Filter(s, S))
<1> DEFINE Q == {u \in Seq(T) : IsInjective(u) => IsInjective(Filter(u, S))}
<1>1. <<>> \in Q
  <2>1. <<>> \in Seq(T) /\ IsInjective(<<>>)
    BY DEF IsInjective
  <2> QED
    BY <2>1, FilterEmpty, Zenon
<1>2. ASSUME NEW u \in Seq(T), NEW e \in T, u \in Q PROVE Append(u, e) \in Q
  <2>1. Append(u, e) \in Seq(T) /\ Filter(u, S) \in Seq(T)
    BY FilterType
  <2>2. Filter(Append(u, e), S) = IF e \in S THEN Append(Filter(u, S), e) ELSE Filter(u, S)
    BY FilterAppend
  <2>3. IsInjective(Append(u, e)) <=> IsInjective(u) /\ e \notin Range(u)
    BY InjectiveAppend
  <2>4. IsInjective(Append(Filter(u, S), e)) <=> IsInjective(Filter(u, S)) /\ e \notin Range(Filter(u, S))
    BY <2>1, InjectiveAppend
  <2>5. Range(Filter(u, S)) \subseteq Range(u)
    BY FilterRange
  <2>6. IsInjective(u) => IsInjective(Filter(u, S))
    BY <1>2
  <2> QED
    BY <2>1, <2>2, <2>3, <2>4, <2>5, <2>6, Zenon
<1> HIDE DEF Q
<1>3. Seq(T) \subseteq Q
  BY <1>1, <1>2, SeqInd
<1> QED
  BY <1>3 DEF Q

\* The elements of two lists, one behind the other.
LEMMA RangeConcat ==
    ASSUME NEW T, NEW s \in Seq(T), NEW t \in Seq(T)
    PROVE  Range(s \o t) = Range(s) \cup Range(t)
<1> DEFINE u == s \o t
           m == Len(s)
           n == Len(t)
<1>1. /\ DOMAIN s = 1..m /\ DOMAIN t = 1..n /\ DOMAIN u = 1..(m + n)
      /\ m \in Nat /\ n \in Nat
      /\ \A i \in 1..m : u[i] = s[i]
  OBVIOUS
<1>2. \A i \in 1..n : u[m + i] = t[i]
  OBVIOUS
<1>3. \A i \in 1..(m + n) : i \notin 1..m => u[i] = t[i - m] /\ i - m \in 1..n
  OBVIOUS
<1> HIDE DEF u, m, n
<1>4. Range(s) \subseteq Range(u)
  <2>1. 1..m \subseteq 1..(m + n)
    BY <1>1
  <2> QED
    BY <1>1, <2>1, Zenon DEF Range
<1>5. Range(t) \subseteq Range(u)
  <2>1. \A i \in 1..n : m + i \in 1..(m + n)
    BY <1>1
  <2> QED
    BY <1>1, <1>2, <2>1, Zenon DEF Range
<1>6. Range(u) \subseteq Range(s) \cup Range(t)
  BY <1>1, <1>3 DEF Range
<1>7. Range(u) = Range(s) \cup Range(t)
  BY <1>4, <1>5, <1>6, Zenon
<1> QED
  BY <1>7 DEF u

\* In front: the head of a list that repeats nothing is filtered out by Tail.
LEMMA ConsFacts ==
    ASSUME NEW T, NEW s \in Seq(T), NEW e \in T
    PROVE  /\ <<e>> \o s \in Seq(T)
           /\ <<e>> \o s # <<>>
           /\ Head(<<e>> \o s) = e
           /\ Tail(<<e>> \o s) = s
           /\ Range(<<e>> \o s) = {e} \cup Range(s)
<1> DEFINE f == <<e>>
<1>1. f \in Seq(T) /\ Range(f) = {e}
  BY DEF Range
<1>2. Range(f \o s) = {e} \cup Range(s)
  <2> HIDE DEF f
  <2> QED
    BY <1>1, RangeConcat
<1> QED
  BY <1>2

\* Two elements are put before a list one after the other.
LEMMA Cons2Facts ==
    ASSUME NEW T, NEW s \in Seq(T), NEW e \in T, NEW f \in T
    PROVE  /\ <<e, f>> \o s \in Seq(T)
           /\ <<e, f>> \o s = <<e>> \o (<<f>> \o s)
<1>1. <<f>> \o s \in Seq(T) /\ <<e, f>> \o s \in Seq(T)
  OBVIOUS
<1>2. PICK u \in Seq(T) : u = <<f>> \o s
  BY <1>1
<1>3. u # <<>> /\ Len(u) = Len(s) + 1 /\ u[1] = f /\ \A i \in 1..Len(s) : u[i + 1] = s[i]
  BY <1>2
<1>4. <<e>> \o u \in Seq(T)
  OBVIOUS
<1>5. PICK v \in Seq(T) : v = <<e>> \o u
  BY <1>4
<1>6. Len(v) = Len(s) + 2 /\ v[1] = e /\ v[2] = f /\ \A i \in 1..Len(s) : v[i + 2] = s[i]
  <2>1. Len(v) = Len(u) + 1 /\ v[1] = e /\ \A i \in 1..Len(u) : v[i + 1] = u[i]
    BY <1>5
  <2>2. 1 \in 1..Len(u) /\ \A i \in 1..Len(s) : i + 1 \in 1..Len(u) /\ (i + 1) + 1 = i + 2
    BY <1>3
  <2>3. v[1 + 1] = u[1]
    BY <2>1, <2>2
  <2>4. ASSUME NEW i \in 1..Len(s) PROVE v[i + 2] = s[i]
    <3>1. v[(i + 1) + 1] = u[i + 1]
      BY <2>1, <2>2
    <3> QED
      BY <3>1, <2>2, <1>3
  <2> QED
    BY <1>3, <2>1, <2>3, <2>4
<1>7. PICK w \in Seq(T) : w = <<e, f>> \o s
  BY <1>1
<1>8. Len(w) = Len(s) + 2 /\ w[1] = e /\ w[2] = f /\ \A i \in 1..Len(s) : w[i + 2] = s[i]
  BY <1>7
<1>9. ASSUME NEW i \in 1..(Len(s) + 2) PROVE v[i] = w[i]
  <2>1. CASE i = 1 \/ i = 2
    BY <2>1, <1>6, <1>8
  <2>2. CASE i > 2
    <3>1. i - 2 \in 1..Len(s) /\ (i - 2) + 2 = i
      BY <2>2
    <3> QED
      BY <3>1, <1>6, <1>8
  <2> QED
    BY <2>1, <2>2
<1>10. v = w
  BY <1>6, <1>8, <1>9
<1> QED
  BY <1>1, <1>2, <1>5, <1>7, <1>10

\* A list that is not empty is its head and its tail.
LEMMA HeadTail ==
    ASSUME NEW T, NEW s \in Seq(T), s # <<>>
    PROVE  /\ s = <<Head(s)>> \o Tail(s)
           /\ Head(s) \in T
           /\ Tail(s) \in Seq(T)
           /\ Range(s) = {Head(s)} \cup Range(Tail(s))
<1>1. Head(s) \in T /\ Tail(s) \in Seq(T)
  OBVIOUS
<1>2. s = <<Head(s)>> \o Tail(s)
  OBVIOUS
<1> DEFINE h == Head(s)
           t == Tail(s)
<1> HIDE DEF h, t
<1>3. Range(<<h>> \o t) = {h} \cup Range(t)
  BY <1>1, ConsFacts DEF h, t
<1> QED
  BY <1>1, <1>2, <1>3 DEF h, t

\* An element put before a list is not repeated if it was not in it.
LEMMA InjectiveCons ==
    ASSUME NEW T, NEW s \in Seq(T), NEW e \in T
    PROVE  IsInjective(<<e>> \o s) <=> IsInjective(s) /\ e \notin Range(s)
<1> DEFINE t == <<e>> \o s
           n == Len(s)
<1>1. /\ DOMAIN s = 1..n /\ DOMAIN t = 1..(n + 1) /\ n \in Nat
      /\ t[1] = e /\ \A i \in 1..n : t[i + 1] = s[i]
  OBVIOUS
<1> HIDE DEF t, n
<1>2. ASSUME IsInjective(t) PROVE IsInjective(s) /\ e \notin Range(s)
  <2>1. ASSUME NEW i \in 1..n, NEW j \in 1..n, s[i] = s[j] PROVE i = j
    <3>1. i + 1 \in 1..(n + 1) /\ j + 1 \in 1..(n + 1) /\ t[i + 1] = t[j + 1]
      BY <1>1, <2>1
    <3>2. i + 1 = j + 1
      BY <1>1, <1>2, <3>1 DEF IsInjective
    <3> QED
      BY <3>2
  <2>2. ASSUME NEW i \in 1..n, s[i] = e PROVE FALSE
    <3>1. i + 1 \in 1..(n + 1) /\ 1 \in 1..(n + 1) /\ t[i + 1] = t[1]
      BY <1>1, <2>2
    <3>2. i + 1 = 1
      BY <1>1, <1>2, <3>1 DEF IsInjective
    <3> QED
      BY <3>2, <1>1
  <2> QED
    BY <1>1, <2>1, <2>2 DEF IsInjective, Range
<1>3. ASSUME IsInjective(s), e \notin Range(s),
             NEW i \in 1..(n + 1), NEW j \in 1..(n + 1), t[i] = t[j]
      PROVE  i = j
  <2>1. \A k \in 1..(n + 1) : k = 1 \/ (k - 1 \in 1..n /\ t[k] = s[k - 1])
    <3> TAKE k \in 1..(n + 1)
    <3>1. k = 1 \/ (k - 1 \in 1..n /\ (k - 1) + 1 = k)
      BY <1>1
    <3> QED
      BY <3>1, <1>1
  <2>2. \A k \in 1..n : s[k] # e
    BY <1>1, <1>3 DEF Range
  <2>3. CASE i = 1 \/ j = 1
    BY <1>1, <1>3, <2>1, <2>2, <2>3
  <2>4. CASE i # 1 /\ j # 1
    <3>1. i - 1 \in 1..n /\ j - 1 \in 1..n /\ s[i - 1] = s[j - 1]
      BY <1>3, <2>1, <2>4
    <3>2. i - 1 = j - 1
      BY <1>1, <1>3, <3>1 DEF IsInjective
    <3> QED
      BY <3>2
  <2> QED
    BY <2>3, <2>4
<1>4. IsInjective(s) /\ e \notin Range(s) => IsInjective(t)
  BY <1>1, <1>3 DEF IsInjective
<1> QED
  BY <1>2, <1>4 DEF t

\* Filter looks at the first element, then at the rest.
LEMMA FilterCons ==
    ASSUME NEW T, NEW s \in Seq(T), NEW e \in T, NEW S
    PROVE  Filter(<<e>> \o s, S) = IF e \in S THEN <<e>> \o Filter(s, S) ELSE Filter(s, S)
<1>1. <<e>> \in Seq(T) /\ <<>> \in Seq(T) /\ Append(<<>>, e) = <<e>>
  OBVIOUS
<1>2. Filter(<<e>> \o s, S) = Filter(<<e>>, S) \o Filter(s, S)
  <2> DEFINE f == <<e>>
  <2> HIDE DEF f
  <2>1. f \in Seq(T)
    BY <1>1 DEF f
  <2>2. Filter(f \o s, S) = Filter(f, S) \o Filter(s, S)
    BY <2>1, FilterConcat
  <2> QED
    BY <2>2 DEF f
<1>3. Filter(Append(<<>>, e), S) = IF e \in S THEN Append(Filter(<<>>, S), e) ELSE Filter(<<>>, S)
  BY <1>1, FilterAppend
<1>4. Filter(<<e>>, S) = IF e \in S THEN <<e>> ELSE <<>>
  BY <1>1, <1>3, FilterEmpty, Zenon
<1>5. <<>> \o Filter(s, S) = Filter(s, S)
  BY FilterType
<1> QED
  BY <1>2, <1>4, <1>5, Zenon

\* To filter the head out of a list without repetitions is to take its tail.
LEMMA FilterHead ==
    ASSUME NEW T, NEW s \in Seq(T), s # <<>>, IsInjective(s)
    PROVE  Filter(s, T \ {Head(s)}) = Tail(s)
<1> DEFINE e == Head(s)
           t == Tail(s)
<1> HIDE DEF e, t
<1>1. s = <<e>> \o t /\ e \in T /\ t \in Seq(T)
  BY HeadTail DEF e, t
<1>2. e \notin Range(t)
  <2>1. IsInjective(<<e>> \o t)
    BY <1>1
  <2> QED
    BY <1>1, <2>1, InjectiveCons
<1>3. Range(t) \subseteq T
  BY <1>1 DEF Range
<1>4. Filter(t, T \ {e}) = t
  <2>1. Range(t) \subseteq T \ {e}
    BY <1>2, <1>3
  <2> QED
    BY <1>1, <2>1, FilterNothing
<1>5. Filter(<<e>> \o t, T \ {e}) = Filter(t, T \ {e})
  <2>1. Filter(<<e>> \o t, T \ {e})
          = IF e \in T \ {e} THEN <<e>> \o Filter(t, T \ {e}) ELSE Filter(t, T \ {e})
    BY <1>1, FilterCons
  <2>2. e \notin T \ {e}
    OBVIOUS
  <2> QED
    BY <2>1, <2>2, Zenon
<1> QED
  BY <1>1, <1>4, <1>5, Zenon DEF e, t

\* Reverse keeps the type, the elements and their being distinct.
LEMMA ReverseFacts ==
    ASSUME NEW T, NEW s \in Seq(T)
    PROVE  /\ Reverse(s) \in Seq(T)
           /\ Range(Reverse(s)) = Range(s)
           /\ IsInjective(s) => IsInjective(Reverse(s))
<1> DEFINE r == Reverse(s)
           n == Len(s)
<1>1. n \in Nat /\ DOMAIN s = 1..n /\ \A i \in 1..n : s[i] \in T
  OBVIOUS
<1>2. DOMAIN r = 1..n /\ \A i \in 1..n : r[i] = s[(n - i) + 1]
  BY DEF Reverse
<1>3. r \in Seq(T)
  <2>1. \A i \in 1..n : (n - i) + 1 \in 1..n
    BY <1>1
  <2>2. \A i \in 1..n : s[(n - i) + 1] \in T
    BY <1>1, <2>1
  <2> QED
    BY <1>1, <2>2 DEF Reverse
<1> HIDE DEF r, n
<1>4. Range(r) = Range(s)
  <2>1. \A i \in 1..n : (n - i) + 1 \in 1..n /\ n - ((n - i) + 1) + 1 = i
    BY <1>1
  <2>2. \A i \in 1..n : r[(n - i) + 1] = s[i]
    BY <1>2, <2>1
  <2>3. \A x \in Range(s) : x \in Range(r)
    <3> SUFFICES ASSUME NEW i \in 1..n PROVE s[i] \in Range(r)
      BY <1>1 DEF Range
    <3> QED
      BY <1>2, <2>1, <2>2 DEF Range
  <2>4. \A x \in Range(r) : x \in Range(s)
    <3> SUFFICES ASSUME NEW i \in 1..n PROVE r[i] \in Range(s)
      BY <1>2 DEF Range
    <3> QED
      BY <1>1, <1>2, <2>1 DEF Range
  <2> QED
    BY <2>3, <2>4, Zenon
<1>5. IsInjective(s) => IsInjective(r)
  <2> SUFFICES ASSUME IsInjective(s), NEW i \in 1..n, NEW j \in 1..n, r[i] = r[j] PROVE i = j
    BY <1>2 DEF IsInjective
  <2>1. (n - i) + 1 \in 1..n /\ (n - j) + 1 \in 1..n
    BY <1>1
  <2>2. s[(n - i) + 1] = s[(n - j) + 1]
    BY <1>2
  <2>3. (n - i) + 1 = (n - j) + 1
    BY <1>1, <2>1, <2>2 DEF IsInjective
  <2> QED
    BY <1>1, <2>3
<1> QED
  BY <1>3, <1>4, <1>5 DEF r

\* The first element is the last one of the reversed list.
LEMMA ReverseCons ==
    ASSUME NEW T, NEW s \in Seq(T), NEW e \in T
    PROVE  Reverse(<<e>> \o s) = Append(Reverse(s), e)
<1> DEFINE t == <<e>> \o s
           n == Len(s)
           r == Reverse(s)
           a == Append(r, e)
           b == Reverse(t)
<1>1. n \in Nat /\ t \in Seq(T) /\ Len(t) = n + 1 /\ t[1] = e /\ \A i \in 1..n : t[i + 1] = s[i]
  OBVIOUS
<1>2. r \in Seq(T) /\ Len(r) = n /\ \A i \in 1..n : r[i] = s[(n - i) + 1]
  <2>1. r \in Seq(T)
    BY ReverseFacts
  <2>2. DOMAIN r = 1..n /\ \A i \in 1..n : r[i] = s[(n - i) + 1]
    BY DEF Reverse
  <2> HIDE DEF r
  <2> QED
    BY <2>1, <2>2, <1>1
<1> HIDE DEF r
<1>3. a \in Seq(T) /\ Len(a) = n + 1 /\ a[n + 1] = e /\ \A i \in 1..n : a[i] = r[i]
  BY <1>2
<1> HIDE DEF t, a
<1>4. b \in Seq(T) /\ DOMAIN b = 1..(n + 1) /\ \A i \in 1..(n + 1) : b[i] = t[((n + 1) - i) + 1]
  <2>1. b \in Seq(T)
    BY <1>1, ReverseFacts
  <2>2. DOMAIN b = 1..Len(t) /\ \A i \in 1..Len(t) : b[i] = t[(Len(t) - i) + 1]
    BY DEF Reverse
  <2> QED
    BY <1>1, <2>1, <2>2
<1> HIDE DEF b
<1>5. ASSUME NEW i \in 1..(n + 1) PROVE b[i] = a[i]
  <2>1. CASE i = n + 1
    <3>1. ((n + 1) - i) + 1 = 1
      BY <2>1, <1>1
    <3> QED
      BY <2>1, <3>1, <1>1, <1>3, <1>4
  <2>2. CASE i # n + 1
    <3>1. i \in 1..n /\ (n - i) + 1 \in 1..n /\ ((n + 1) - i) + 1 = ((n - i) + 1) + 1
      BY <2>2, <1>1
    <3>2. b[i] = t[((n - i) + 1) + 1]
      BY <3>1, <1>4
    <3>3. b[i] = s[(n - i) + 1]
      BY <3>1, <3>2, <1>1
    <3> QED
      BY <3>1, <3>3, <1>2, <1>3
  <2> QED
    BY <2>1, <2>2
<1>6. Len(b) = n + 1
  BY <1>1, <1>4
<1>7. b = a
  BY <1>1, <1>3, <1>4, <1>5, <1>6
<1> QED
  BY <1>7 DEF a, b, t, r

\* Removing an element of a list that repeats nothing.
LEMMA FilterRemoveAt ==
    ASSUME NEW T, NEW s \in Seq(T), IsInjective(s), NEW k \in 1..Len(s)
    PROVE  RemoveAt(s, k) = Filter(s, T \ {s[k]})
<1> DEFINE a == SubSeq(s, 1, k - 1)
           b == SubSeq(s, k + 1, Len(s))
           n == Len(s)
           e == s[k]
           X == T \ {e}
<1>0. n \in Nat /\ e \in T /\ \A i \in 1..n : s[i] \in T
  OBVIOUS
<1>1. a \in Seq(T) /\ Len(a) = k - 1 /\ \A i \in 1..(k - 1) : a[i] = s[i]
  OBVIOUS
<1>2. b \in Seq(T) /\ Len(b) = n - k /\ \A i \in 1..(n - k) : b[i] = s[k + i]
  OBVIOUS
<1>3. s = Append(a, e) \o b
  <2>1. SubSeq(s, 1, k) = Append(a, e)
    OBVIOUS
  <2>2. SubSeq(s, 1, k) \o SubSeq(s, k + 1, Len(s)) = SubSeq(s, 1, Len(s))
    BY ConcatAdjacentSubSeq
  <2>3. SubSeq(s, 1, Len(s)) = s
    OBVIOUS
  <2> QED
    BY <2>1, <2>2, <2>3, Zenon
<1>4. RemoveAt(s, k) = a \o b
  BY DEF RemoveAt
<1>5. Range(a) \subseteq X
  <2> SUFFICES ASSUME NEW i \in 1..(k - 1) PROVE a[i] \in X
    BY <1>1 DEF Range
  <2>1. i \in 1..n /\ i # k
    OBVIOUS
  <2>2. s[i] # e
    BY <2>1 DEF IsInjective
  <2> QED
    BY <1>0, <1>1, <2>1, <2>2
<1>6. Range(b) \subseteq X
  <2> SUFFICES ASSUME NEW i \in 1..(n - k) PROVE b[i] \in X
    BY <1>2 DEF Range
  <2>1. k + i \in 1..n /\ k + i # k
    OBVIOUS
  <2>2. s[k + i] # e
    BY <2>1 DEF IsInjective
  <2> QED
    BY <1>0, <1>2, <2>1, <2>2
<1> HIDE DEF a, b, e, n, X
<1>7. Filter(a, X) = a /\ Filter(b, X) = b
  BY <1>1, <1>2, <1>5, <1>6, FilterNothing
<1>8. Append(a, e) \in Seq(T)
  BY <1>0, <1>1
<1>9. Filter(Append(a, e), X) = a
  <2>1. Filter(Append(a, e), X) = IF e \in X THEN Append(Filter(a, X), e) ELSE Filter(a, X)
    BY <1>0, <1>1, FilterAppend
  <2>2. e \notin X
    BY DEF X
  <2> QED
    BY <1>7, <2>1, <2>2, Zenon
<1>10. Filter(Append(a, e) \o b, X) = Filter(Append(a, e), X) \o Filter(b, X)
  <2> DEFINE c == Append(a, e)
  <2> HIDE DEF c
  <2>1. c \in Seq(T)
    BY <1>8 DEF c
  <2>2. Filter(c \o b, X) = Filter(c, X) \o Filter(b, X)
    BY <1>2, <2>1, FilterConcat
  <2> QED
    BY <2>2 DEF c
<1>11. Filter(s, X) = a \o b
  BY <1>3, <1>7, <1>8, <1>9, <1>10, Zenon
<1> QED
  BY <1>4, <1>11 DEF X, e

\* Pushing and popping an ordered list.
LEMMA OrderedCons ==
    ASSUME NEW T, NEW s \in Seq(T), NEW e \in T, NEW R
    PROVE  Ordered(<<e>> \o s, R) <=> Ordered(s, R) /\ \A x \in Range(s) : <<e, x>> \in R
<1> DEFINE t == <<e>> \o s
           n == Len(s)
<1>1. /\ DOMAIN s = 1..n /\ DOMAIN t = 1..(n + 1) /\ n \in Nat
      /\ t[1] = e /\ \A i \in 1..n : t[i + 1] = s[i]
  OBVIOUS
<1> HIDE DEF t, n
<1>2. ASSUME Ordered(t, R) PROVE Ordered(s, R) /\ \A x \in Range(s) : <<e, x>> \in R
  <2>1. ASSUME NEW i \in 1..n, NEW j \in 1..n, i < j PROVE <<s[i], s[j]>> \in R
    <3>1. i + 1 \in 1..(n + 1) /\ j + 1 \in 1..(n + 1) /\ i + 1 < j + 1
      BY <1>1, <2>1
    <3>2. <<t[i + 1], t[j + 1]>> \in R
      BY <1>1, <1>2, <3>1 DEF Ordered
    <3> QED
      BY <1>1, <3>2
  <2>2. ASSUME NEW i \in 1..n PROVE <<e, s[i]>> \in R
    <3>1. i + 1 \in 1..(n + 1) /\ 1 \in 1..(n + 1) /\ 1 < i + 1
      BY <1>1
    <3>2. <<t[1], t[i + 1]>> \in R
      BY <1>1, <1>2, <3>1 DEF Ordered
    <3> QED
      BY <1>1, <3>2
  <2> QED
    BY <1>1, <2>1, <2>2 DEF Ordered, Range
<1>3. ASSUME Ordered(s, R), \A x \in Range(s) : <<e, x>> \in R,
             NEW i \in 1..(n + 1), NEW j \in 1..(n + 1), i < j
      PROVE  <<t[i], t[j]>> \in R
  <2>1. \A k \in 1..(n + 1) : k = 1 \/ (k - 1 \in 1..n /\ t[k] = s[k - 1])
    <3> TAKE k \in 1..(n + 1)
    <3>1. k = 1 \/ (k - 1 \in 1..n /\ (k - 1) + 1 = k)
      BY <1>1
    <3> QED
      BY <3>1, <1>1
  <2>2. j # 1
    BY <1>1, <1>3
  <2>3. j - 1 \in 1..n /\ t[j] = s[j - 1]
    BY <2>1, <2>2
  <2>4. CASE i = 1
    <3>1. s[j - 1] \in Range(s)
      BY <1>1, <2>3 DEF Range
    <3> QED
      BY <1>1, <1>3, <2>3, <2>4, <3>1
  <2>5. CASE i # 1
    <3>1. i - 1 \in 1..n /\ t[i] = s[i - 1] /\ i - 1 < j - 1
      BY <1>1, <1>3, <2>1, <2>5
    <3> QED
      BY <1>1, <1>3, <2>3, <3>1 DEF Ordered
  <2> QED
    BY <2>4, <2>5
<1>4. Ordered(s, R) /\ (\A x \in Range(s) : <<e, x>> \in R) => Ordered(t, R)
  BY <1>1, <1>3 DEF Ordered
<1> QED
  BY <1>2, <1>4 DEF t

\* The parts of a list without repetitions have nothing in common.
LEMMA ConcatDisjoint ==
    ASSUME NEW T, NEW s \in Seq(T), NEW t \in Seq(T), IsInjective(s \o t)
    PROVE  Range(s) \cap Range(t) = {}
<1> DEFINE u == s \o t
           m == Len(s)
           n == Len(t)
<1>1. /\ DOMAIN s = 1..m /\ DOMAIN t = 1..n /\ DOMAIN u = 1..(m + n)
      /\ m \in Nat /\ n \in Nat
      /\ \A i \in 1..m : u[i] = s[i]
      /\ \A i \in 1..n : u[m + i] = t[i]
  OBVIOUS
<1>2. IsInjective(u)
  OBVIOUS
<1> HIDE DEF u, m, n
<1>3. ASSUME NEW i \in 1..m, NEW j \in 1..n, s[i] = t[j] PROVE FALSE
  <2>1. i \in 1..(m + n) /\ m + j \in 1..(m + n) /\ u[i] = u[m + j]
    BY <1>1, <1>3
  <2>2. i = m + j
    BY <1>1, <1>2, <2>1 DEF IsInjective
  <2> QED
    BY <1>1, <2>2
<1> QED
  BY <1>1, <1>3 DEF Range

\* The parts of a list without repetitions have none.
LEMMA ConcatInjective ==
    ASSUME NEW T, NEW s \in Seq(T), NEW t \in Seq(T), IsInjective(s \o t)
    PROVE  IsInjective(s) /\ IsInjective(t)
<1> DEFINE u == s \o t
           m == Len(s)
           n == Len(t)
<1>1. /\ DOMAIN s = 1..m /\ DOMAIN t = 1..n /\ DOMAIN u = 1..(m + n)
      /\ m \in Nat /\ n \in Nat
      /\ \A i \in 1..m : u[i] = s[i]
      /\ \A i \in 1..n : u[m + i] = t[i]
  OBVIOUS
<1>2. IsInjective(u)
  OBVIOUS
<1> HIDE DEF u, m, n
<1>3. ASSUME NEW i \in 1..m, NEW j \in 1..m, s[i] = s[j] PROVE i = j
  <2>1. i \in 1..(m + n) /\ j \in 1..(m + n) /\ u[i] = u[j]
    BY <1>1, <1>3
  <2> QED
    BY <1>1, <1>2, <2>1 DEF IsInjective
<1>4. ASSUME NEW i \in 1..n, NEW j \in 1..n, t[i] = t[j] PROVE i = j
  <2>1. m + i \in 1..(m + n) /\ m + j \in 1..(m + n) /\ u[m + i] = u[m + j]
    BY <1>1, <1>4
  <2>2. m + i = m + j
    BY <1>1, <1>2, <2>1 DEF IsInjective
  <2> QED
    BY <1>1, <2>2
<1> QED
  BY <1>1, <1>3, <1>4 DEF IsInjective

\* Taking the head of one list to the end of another.
LEMMA MoveHead ==
    ASSUME NEW T, NEW s \in Seq(T), NEW t \in Seq(T), t # <<>>
    PROVE  Append(s, Head(t)) \o Tail(t) = s \o t
<1> DEFINE m == Len(s)
           n == Len(t)
           a == Append(s, Head(t)) \o Tail(t)
           b == s \o t
<1>1. a \in Seq(T) /\ b \in Seq(T) /\ Len(a) = m + n /\ Len(b) = m + n /\ m \in Nat /\ n \in Nat
  OBVIOUS
<1>2. ASSUME NEW i \in 1..(m + n) PROVE a[i] = b[i]
  OBVIOUS
<1> HIDE DEF a, b, m, n
<1>3. a = b
  BY <1>1, <1>2
<1> QED
  BY <1>3 DEF a, b

\* Two lists give a list of the same type.
LEMMA ConcatTyped ==
    ASSUME NEW T, NEW s \in Seq(T), NEW t \in Seq(T)
    PROVE  \E u \in Seq(T) : u = s \o t
<1>1. s \o t \in Seq(T)
  OBVIOUS
<1> QED
  BY <1>1

FilterKeeps(s, e, S) == Filter(Append(s, e), S) = Append(Filter(s, S), e)

\* FilterKeeps, for any list and a wanted element.
LEMMA FilterKept ==
    ASSUME NEW T, NEW s \in Seq(T), NEW e \in T, NEW S, e \in S
    PROVE  FilterKeeps(s, e, S)
<1>1. Filter(Append(s, e), S) = IF e \in S THEN Append(Filter(s, S), e) ELSE Filter(s, S)
  BY FilterAppend
<1> QED
  BY <1>1 DEF FilterKeeps

FilterDistributes(s, t, S) == Filter(s \o t, S) = Filter(s, S) \o Filter(t, S)

\* FilterDistributes, for any two lists.
LEMMA FilterParts ==
    ASSUME NEW T, NEW s \in Seq(T), NEW t \in Seq(T), NEW S
    PROVE  FilterDistributes(s, t, S)
<1>1. Filter(s \o t, S) = Filter(s, S) \o Filter(t, S)
  BY FilterConcat
<1> QED
  BY <1>1 DEF FilterDistributes

\* The empty list adds nothing.
LEMMA ConcatEmpty ==
    ASSUME NEW T, NEW s \in Seq(T)
    PROVE  s \o <<>> = s /\ <<>> \o s = s
  OBVIOUS
=============================================================================

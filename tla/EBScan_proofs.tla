---------------------------- MODULE EBScan_proofs ----------------------------
(***************************************************************************)
(* Proofs about EBScan, for any buses, any number of devices and scans and *)
(* any order in which the cycles of the scans are answered or fail: items  *)
(* are neither lost nor freed twice, no scan outlives the call whose local *)
(* record it writes to, and no failure is covered up.                      *)
(***************************************************************************)
EXTENDS EBScan, FiniteSetTheorems, Lists_proofs, TLAPS

Statuses == {"wait", "OK", "OOM", "FAIL", "ADDRESS", "TIMEOUT"}

\* R holds the values of the call's arguments and the records it puts out,
\* X those of the scans; nothing depends on what they are.
FindRecord(R) ==
  [pc : {"idle", "run", "done"}, kind : {"identity", "address"}, id : R, addr : R,
   size : Nat, status : Statuses, pending : Int, fill : Nat, output : Seq(R)]

ScanValues(X) ==
  [step : {"ptr", "header", "all"}, at : X, base : X, count : X, reply : X]

\* A table is read only where one was found, and says how many records it has.
Served(c) ==
  /\ c.step = "header" /\ c.reply # <<>> /\ c.reply[1] => HasTable(c.at)
  /\ c.step = "all" => HasTable(c.at)
  /\ c.step = "all" /\ c.reply # <<>> => c.reply[1] \in Nat \ {0}

ScanRecord(X) == {c \in ScanValues(X) : Served(c)}

ScanFcns(Q) == UNION {[D -> Q] : D \in SUBSET (1 .. MaxScans)}

\* The types of find, scans and items.
Shape(st, R, Q) == st \in [find : FindRecord(R), scans : ScanFcns(Q), items : Int]

\* How many scans are under way.
Count(st) == Cardinality(DOMAIN st.scans)

\* A scan map is a function on some of the items.
LEMMA ScanFcnsAre ==
    ASSUME NEW Q, NEW f
    PROVE  f \in ScanFcns(Q) <=> /\ DOMAIN f \subseteq 1 .. MaxScans
                                 /\ f \in [DOMAIN f -> Q]
BY DEF ScanFcns

\* There are finitely many scans.
LEMMA ScansFinite ==
    ASSUME NEW Q, NEW f \in ScanFcns(Q)
    PROVE  IsFiniteSet(DOMAIN f) /\ Cardinality(DOMAIN f) \in Nat
<1>1. IsFiniteSet(1 .. MaxScans)
  BY ScanAssumption, FS_Interval
<1>2. DOMAIN f \subseteq 1 .. MaxScans
  BY ScanFcnsAre
<1> QED
  BY <1>1, <1>2, FS_Subset, FS_CardinalityType

\* Least is the smallest of a set of naturals.
LEMMA LeastIs ==
    ASSUME NEW S \in SUBSET Nat, S # {}
    PROVE  Least(S) \in S
<1>1. \E x \in S : \A y \in S : x <= y
  BY LeastNat
<1> QED
  BY <1>1 DEF Least

\* s2 has one scan more than s1.
Grown(s1, s2) ==
  /\ s2.find = s1.find
  /\ DOMAIN s1.scans \subseteq DOMAIN s2.scans
  /\ Count(s2) = Count(s1) + 1
  /\ s2.items = s1.items + 1

\* eb_sdb_scan_root and eb_sdb_scan_bus take an item that is not in use.
LEMMA NewScanFacts ==
    ASSUME NEW R, NEW Q, NEW st, Shape(st, R, Q), Spare(st) # {}, NEW scan \in Q
    PROVE  Shape(NewScan(st, scan), R, Q) /\ Grown(st, NewScan(st, scan))
<1>1. PICK f \in ScanFcns(Q) : f = st.scans
  BY DEF Shape
<1>2. DOMAIN f \subseteq 1 .. MaxScans /\ f \in [DOMAIN f -> Q]
  BY ScanFcnsAre
<1>3. PICK s : s = Least(Spare(st))
  OBVIOUS
<1>4. s \in 1 .. MaxScans /\ s \notin DOMAIN f
  <2>1. Spare(st) \in SUBSET Nat
    BY ScanAssumption DEF Spare
  <2> QED
    BY <1>1, <1>3, <2>1, LeastIs DEF Spare
<1>5. PICK g : g = [i \in DOMAIN f \cup {s} |-> IF i = s THEN scan ELSE f[i]]
  OBVIOUS
<1>6. DOMAIN g = DOMAIN f \cup {s} /\ g \in [DOMAIN g -> Q]
  BY <1>2, <1>5
<1>7. g \in ScanFcns(Q)
  BY <1>2, <1>4, <1>6, ScanFcnsAre
<1>8. Cardinality(DOMAIN g) = Cardinality(DOMAIN f) + 1
  BY <1>4, <1>6, ScansFinite, FS_AddElement
<1>9. NewScan(st, scan) = [st EXCEPT !.scans = g, !.items = @ + 1]
  BY <1>1, <1>3, <1>5 DEF NewScan
<1>10. PICK n : n = [st EXCEPT !.scans = g, !.items = @ + 1]
  OBVIOUS
<1>11. n.find = st.find /\ n.scans = g /\ n.items = st.items + 1
  BY <1>10 DEF Shape
<1>12. Shape(n, R, Q)
  <2>1. st.find \in FindRecord(R) /\ st.items + 1 \in Int
    BY DEF Shape
  <2>2. n = [find |-> st.find, scans |-> g, items |-> st.items + 1]
    BY <1>10 DEF Shape
  <2> QED
    BY <1>7, <2>1, <2>2 DEF Shape
<1>13. Grown(st, n)
  BY <1>1, <1>6, <1>8, <1>11 DEF Grown, Count
<1> QED
  BY <1>9, <1>10, <1>12, <1>13

\* A scan is freed.
LEMMA FreeScanFacts ==
    ASSUME NEW R, NEW Q, NEW st, Shape(st, R, Q), NEW s \in DOMAIN st.scans
    PROVE  /\ Shape(FreeScan(st, s), R, Q)
           /\ FreeScan(st, s).find = st.find
           /\ DOMAIN FreeScan(st, s).scans = DOMAIN st.scans \ {s}
           /\ Count(FreeScan(st, s)) = Count(st) - 1
           /\ FreeScan(st, s).items = st.items - 1
<1>1. PICK f \in ScanFcns(Q) : f = st.scans
  BY DEF Shape
<1>2. DOMAIN f \subseteq 1 .. MaxScans /\ f \in [DOMAIN f -> Q]
  BY ScanFcnsAre
<1>3. PICK g : g = [i \in DOMAIN f \ {s} |-> f[i]]
  OBVIOUS
<1>4. DOMAIN g = DOMAIN f \ {s} /\ g \in [DOMAIN g -> Q]
  BY <1>2, <1>3
<1>5. g \in ScanFcns(Q)
  BY <1>2, <1>4, ScanFcnsAre
<1>6. Cardinality(DOMAIN g) = Cardinality(DOMAIN f) - 1
  BY <1>1, <1>4, ScansFinite, FS_RemoveElement
<1>7. FreeScan(st, s) = [st EXCEPT !.scans = g, !.items = @ - 1]
  BY <1>1, <1>3 DEF FreeScan
<1>8. PICK n : n = [st EXCEPT !.scans = g, !.items = @ - 1]
  OBVIOUS
<1>9. n.find = st.find /\ n.scans = g /\ n.items = st.items - 1
  BY <1>8 DEF Shape
<1>10. Shape(n, R, Q)
  <2>1. st.find \in FindRecord(R) /\ st.items - 1 \in Int
    BY DEF Shape
  <2>2. n = [find |-> st.find, scans |-> g, items |-> st.items - 1]
    BY <1>8 DEF Shape
  <2> QED
    BY <1>5, <2>1, <2>2 DEF Shape
<1> QED
  BY <1>1, <1>4, <1>6, <1>7, <1>8, <1>9, <1>10 DEF Count

-----------------------------------------------------------------------------
(* The callback that goes through a table. *)

\* st with another record of the call.
With(st, f) == [find |-> f, scans |-> st.scans, items |-> st.items]

\* The record of a call is replaced by another.
LEMMA WithShape ==
    ASSUME NEW R, NEW Q, NEW st, Shape(st, R, Q), NEW f \in FindRecord(R)
    PROVE  Shape(With(st, f), R, Q)
<1>1. st.scans \in ScanFcns(Q) /\ st.items \in Int
  BY DEF Shape
<1> QED
  BY <1>1 DEF With, Shape

\* The updates the callbacks make.
LEMMA Updates ==
    ASSUME NEW R, NEW Q, NEW st, Shape(st, R, Q)
    PROVE  /\ \A n \in Int : /\ [st EXCEPT !.find.pending = n] = With(st, [st.find EXCEPT !.pending = n])
                             /\ [st.find EXCEPT !.pending = n] \in FindRecord(R)
           /\ \A v \in Statuses :
                /\ [st EXCEPT !.find.status = v] = With(st, [st.find EXCEPT !.status = v])
                /\ [st.find EXCEPT !.status = v] \in FindRecord(R)
<1>1. PICK f \in FindRecord(R) : f = st.find
  BY DEF Shape
<1>2. \A n \in Int : [f EXCEPT !.pending = n] \in FindRecord(R)
  BY DEF FindRecord
<1>3. \A v \in Statuses : [f EXCEPT !.status = v] \in FindRecord(R)
  BY DEF FindRecord
<1>4. \A g : [st EXCEPT !.find = g] = With(st, g)
  BY DEF Shape, With
<1> QED
  BY <1>1, <1>2, <1>3, <1>4

\* What a record of a table may change: it may add scans, each of them counted,
\* write one device more that it found, and report that memory ran out.
Along(a, b) ==
  /\ DOMAIN a.scans \subseteq DOMAIN b.scans
  /\ b.items - Count(b) = a.items - Count(a)
  /\ b.find.pending - Count(b) = a.find.pending - Count(a)
  /\ b.find.pc = a.find.pc /\ b.find.kind = a.find.kind /\ b.find.size = a.find.size
  /\ b.find.status \in {a.find.status, "OOM"}
  /\ Len(a.find.output) <= a.find.fill /\ Len(a.find.output) <= a.find.size
        => Len(b.find.output) <= b.find.fill /\ Len(b.find.output) <= b.find.size

\* Nothing changes.
LEMMA AlongItself == ASSUME NEW a PROVE Along(a, a)
BY DEF Along

\* One record after another.
LEMMA AlongOn == ASSUME NEW a, NEW b, NEW c, Along(a, b), Along(b, c) PROVE Along(a, c)
BY DEF Along

\* The numbers of a shape.
LEMMA ShapeFacts ==
    ASSUME NEW R, NEW Q, NEW st, Shape(st, R, Q)
    PROVE  /\ st.find \in FindRecord(R) /\ st.items \in Int /\ Count(st) \in Nat
           /\ st.scans \in ScanFcns(Q)
           /\ st.find.pending \in Int /\ st.find.fill \in Nat /\ st.find.size \in Nat
           /\ st.find.output \in Seq(R) /\ Len(st.find.output) \in Nat
           /\ st.find.status \in Statuses
<1>1. st.find \in FindRecord(R) /\ st.items \in Int /\ st.scans \in ScanFcns(Q)
  BY DEF Shape
<1>2. Count(st) \in Nat
  BY <1>1, ScansFinite DEF Count
<1>3. /\ st.find.pending \in Int /\ st.find.fill \in Nat /\ st.find.size \in Nat
      /\ st.find.output \in Seq(R) /\ st.find.status \in Statuses
  BY <1>1 DEF FindRecord
<1> QED
  BY <1>1, <1>2, <1>3

\* One record of a table, in eb_cb_find_by_identity.
LEMMA IdentifyFacts ==
    ASSUME NEW R, NEW Q, NEW st, Shape(st, R, Q), NEW table, NEW i, NEW mem,
           table[i] \in R, Scan("header", table[i].child, table[i].first) \in Q
    PROVE  Shape(Identify(st, table, i, mem), R, Q) /\ Along(st, Identify(st, table, i, mem))
<1>1. PICK r \in R : r = table[i]
  OBVIOUS
<1>2. PICK f \in FindRecord(R) : f = st.find
  BY ShapeFacts
<1>3. /\ st.items \in Int /\ Count(st) \in Nat /\ f.pending \in Int /\ f.fill \in Nat
      /\ f.size \in Nat /\ f.output \in Seq(R) /\ f.status \in Statuses
  BY <1>2, ShapeFacts
<1>4. CASE r.type = "bridge" /\ mem[i] /\ Spare(st) # {}
  <2>1. PICK n : n = ScanBus(st, r)
    OBVIOUS
  <2>2. Shape(n, R, Q) /\ Grown(st, n)
    BY <1>1, <1>4, <2>1, NewScanFacts DEF ScanBus
  <2>3. n.find = f /\ n.find.pending + 1 \in Int
    BY <1>2, <1>3, <2>2 DEF Grown
  <2>4. PICK g \in FindRecord(R) : g = [f EXCEPT !.pending = @ + 1]
    <3>1. PICK k \in Int : k = f.pending + 1
      BY <1>3
    <3>2. [f EXCEPT !.pending = k] \in FindRecord(R)
      BY DEF FindRecord
    <3> QED
      BY <3>1, <3>2
  <2>5. Identify(st, table, i, mem) = With(n, g)
    <3>1. Identify(st, table, i, mem) = [n EXCEPT !.find.pending = @ + 1]
      BY <1>1, <1>4, <2>1 DEF Identify
    <3>2. [n EXCEPT !.find.pending = n.find.pending + 1] = With(n, [n.find EXCEPT !.pending = n.find.pending + 1])
      BY <2>2, <2>3, Updates
    <3> QED
      BY <2>3, <2>4, <3>1, <3>2
  <2>6. Shape(With(n, g), R, Q)
    BY <2>2, WithShape
  <2>7. /\ g.pending = f.pending + 1 /\ g.pc = f.pc /\ g.kind = f.kind /\ g.size = f.size
        /\ g.status = f.status /\ g.output = f.output /\ g.fill = f.fill
    BY <2>4 DEF FindRecord
  <2>8. Along(st, With(n, g))
    <3>1. PICK w : w = With(n, g)
      OBVIOUS
    <3>2. w.find = g /\ w.scans = n.scans /\ w.items = n.items
      BY <3>1 DEF With
    <3>3. DOMAIN st.scans \subseteq DOMAIN w.scans /\ Count(w) = Count(st) + 1 /\ w.items = st.items + 1
      BY <2>2, <3>2 DEF Grown, Count
    <3> HIDE DEF Count
    <3>4. w.items - Count(w) = st.items - Count(st)
      BY <1>3, <3>3
    <3>5. w.find.pending - Count(w) = st.find.pending - Count(st)
      BY <1>2, <1>3, <2>7, <3>2, <3>3, SMTT(40)
    <3> QED
      BY <1>2, <2>7, <3>1, <3>2, <3>3, <3>4, <3>5 DEF Along
  <2> QED
    BY <2>5, <2>6, <2>8
<1>5. CASE r.type = "bridge" /\ ~(mem[i] /\ Spare(st) # {})
  <2>1. PICK g \in FindRecord(R) : g = [f EXCEPT !.status = "OOM"]
    BY DEF FindRecord, Statuses
  <2>2. Identify(st, table, i, mem) = With(st, g)
    <3>1. Identify(st, table, i, mem) = [st EXCEPT !.find.status = "OOM"]
      BY <1>1, <1>5 DEF Identify
    <3>2. "OOM" \in Statuses
      BY DEF Statuses
    <3> QED
      BY <1>2, <2>1, <3>1, <3>2, Updates
  <2>3. Shape(With(st, g), R, Q)
    BY WithShape
  <2>4. /\ g.pending = f.pending /\ g.pc = f.pc /\ g.kind = f.kind /\ g.size = f.size
        /\ g.status = "OOM" /\ g.output = f.output /\ g.fill = f.fill
    BY <2>1 DEF FindRecord
  <2>5. Along(st, With(st, g))
    BY <1>2, <2>4 DEF Along, With, Count
  <2> QED
    BY <2>2, <2>3, <2>5
<1>6. CASE r.type = "device" /\ r.id = st.find.id
  <2>0. PICK old \in Seq(R) : old = f.output
    BY <1>3
  <2>1. PICK out \in Seq(R) : out = IF f.fill < f.size THEN Append(f.output, r) ELSE f.output
    <3>1. Append(old, r) \in Seq(R)
      OBVIOUS
    <3> QED
      BY <2>0, <3>1
  <2>2. PICK g \in FindRecord(R) : g = [f EXCEPT !.output = out, !.fill = @ + 1]
    <3>1. PICK k \in Nat : k = f.fill + 1
      BY <1>3
    <3>2. [f EXCEPT !.output = out, !.fill = k] \in FindRecord(R)
      BY DEF FindRecord
    <3> QED
      BY <3>1, <3>2
  <2>3. Identify(st, table, i, mem) = With(st, g)
    <3>1. Identify(st, table, i, mem) = [st EXCEPT !.find.output = out, !.find.fill = f.fill + 1]
      BY <1>1, <1>2, <1>6, <2>1 DEF Identify, Shape, FindRecord
    <3> QED
      BY <1>2, <2>2, <3>1 DEF With, Shape
  <2>4. Shape(With(st, g), R, Q)
    BY WithShape
  <2>5. /\ g.pending = f.pending /\ g.pc = f.pc /\ g.kind = f.kind /\ g.size = f.size
        /\ g.status = f.status /\ g.output = out /\ g.fill = f.fill + 1
    BY <2>2 DEF FindRecord
  <2>6. Len(out) = (IF f.fill < f.size THEN Len(f.output) + 1 ELSE Len(f.output)) /\ Len(f.output) \in Nat
    <3>1. Len(Append(old, r)) = Len(old) + 1 /\ Len(old) \in Nat
      OBVIOUS
    <3> QED
      BY <2>0, <2>1, <3>1
  <2>7. Along(st, With(st, g))
    <3>1. PICK w : w = With(st, g)
      OBVIOUS
    <3>2. w.find = g /\ w.scans = st.scans /\ w.items = st.items /\ Count(w) = Count(st)
      BY <3>1 DEF With, Count
    <3>3. Len(f.output) <= f.fill /\ Len(f.output) <= f.size
             => Len(g.output) <= g.fill /\ Len(g.output) <= g.size
      <4>1. PICK lo \in Nat : lo = Len(f.output)
        BY <2>6
      <4>2. PICK ln : ln = Len(g.output)
        OBVIOUS
      <4>3. ln = IF f.fill < f.size THEN lo + 1 ELSE lo
        BY <2>5, <2>6, <4>1, <4>2
      <4> QED
        BY <1>3, <2>5, <4>1, <4>2, <4>3
    <3> QED
      BY <1>2, <2>5, <3>1, <3>2, <3>3 DEF Along
  <2> QED
    BY <2>3, <2>4, <2>7
<1>7. CASE r.type # "bridge" /\ ~(r.type = "device" /\ r.id = st.find.id)
  <2>1. Identify(st, table, i, mem) = st
    BY <1>1, <1>7 DEF Identify
  <2> QED
    BY <2>1, AlongItself
<1>8. r.type = "bridge" => r.type # "device"
  OBVIOUS
<1> QED
  BY <1>4, <1>5, <1>6, <1>7

\* g holds what the first 0, 1, ..., k records of the table make of st.
Through(g, k, st, table, mem) ==
  g = [i \in 0 .. k |-> IF i = 0 THEN [st EXCEPT !.find.pending = @ - 1]
                        ELSE Identify(g[i - 1], table, i, mem)]

\* The recursion over the records of a table defines a function.
LEMMA ThroughExists ==
    ASSUME NEW st, NEW table, NEW mem, NEW n \in Nat
    PROVE  \E g : Through(g, n, st, table, mem)
<1> DEFINE T == {k \in 0 .. n : \E g : Through(g, k, st, table, mem)}
           v == [st EXCEPT !.find.pending = @ - 1]
<1>1. 0 \in T
  <2> DEFINE g == [i \in 0 .. 0 |-> v]
             B(i) == IF i = 0 THEN v ELSE Identify(g[i - 1], table, i, mem)
  <2>1. \A i \in 0 .. 0 : B(i) = v
    OBVIOUS
  <2>2. g = [i \in 0 .. 0 |-> B(i)]
    <3> HIDE DEF B, v
    <3> QED
      BY <2>1
  <2>3. Through(g, 0, st, table, mem)
    BY <2>2, Zenon DEF Through
  <2> HIDE DEF g
  <2> QED
    BY <2>3
<1>2. ASSUME NEW k \in 1 .. n, k - 1 \in T PROVE k \in T
  <2>1. PICK f : Through(f, k - 1, st, table, mem)
    BY <1>2
  <2> DEFINE H(x, i) == Identify(x, table, i, mem)
             g == [i \in 0 .. k |-> IF i = k THEN H(f[k - 1], k) ELSE f[i]]
             B(i) == IF i = 0 THEN v ELSE H(g[i - 1], i)
  <2>2. \A i \in 0 .. (k - 1) : f[i] = IF i = 0 THEN v ELSE H(f[i - 1], i)
    <3>1. f = [i \in 0 .. (k - 1) |-> IF i = 0 THEN v ELSE H(f[i - 1], i)]
      BY <2>1, Zenon DEF Through
    <3> HIDE DEF H, v
    <3> QED
      BY <3>1, Zenon
  <2> HIDE DEF H, v
  <2>3. \A i \in 0 .. k : g[i] = B(i)
    <3> TAKE i \in 0 .. k
    <3>1. CASE i = k
      <4>1. k - 1 \in 0 .. k /\ k - 1 # k /\ g[k - 1] = f[k - 1] /\ k # 0
        OBVIOUS
      <4> QED
        BY <3>1, <4>1
    <3>2. CASE i # k /\ i = 0
      <4>1. g[i] = f[i] /\ i \in 0 .. (k - 1)
        BY <3>2
      <4> QED
        BY <2>2, <3>2, <4>1
    <3>3. CASE i # k /\ i # 0
      <4>1. g[i] = f[i] /\ i \in 0 .. (k - 1) /\ i - 1 \in 0 .. k /\ i - 1 # k
        BY <3>3
      <4>2. g[i - 1] = f[i - 1]
        BY <4>1
      <4> QED
        BY <2>2, <3>3, <4>1, <4>2
    <3> QED
      BY <3>1, <3>2, <3>3
  <2>4. g = [i \in 0 .. k |-> B(i)]
    <3>1. g = [i \in 0 .. k |-> g[i]]
      OBVIOUS
    <3> HIDE DEF B, g
    <3> QED
      BY <2>3, <3>1
  <2>5. Through(g, k, st, table, mem)
    BY <2>4, Zenon DEF Through, H, v
  <2> HIDE DEF g
  <2> QED
    BY <2>5
<1> HIDE DEF T
<1>3. 0 .. n \subseteq T
  BY <1>1, <1>2, IntervalInd
<1>4. n \in T
  BY <1>3
<1> QED
  BY <1>4 DEF T

\* The callback of eb_sdb_find_by_identity, whatever the table.
LEMMA CbIdentityFacts ==
    ASSUME NEW R, NEW Q, NEW st, Shape(st, R, Q), NEW table, NEW mem, Len(table) \in Nat,
           \A i \in 1 .. Len(table) :
              table[i] \in R /\ Scan("header", table[i].child, table[i].first) \in Q
    PROVE  /\ Shape(CbIdentity(st, table, mem), R, Q)
           /\ Along([st EXCEPT !.find.pending = @ - 1], CbIdentity(st, table, mem))
<1> DEFINE n == Len(table)
           v == [st EXCEPT !.find.pending = @ - 1]
           g == CHOOSE h : Through(h, n, st, table, mem)
<1>1. Through(g, n, st, table, mem)
  <2>1. \E h : Through(h, n, st, table, mem)
    BY ThroughExists
  <2> QED
    BY <2>1
<1>2. CbIdentity(st, table, mem) = g[n]
  BY Zenon DEF CbIdentity, Through
<1> HIDE DEF g
<1>3. \A i \in 0 .. n : g[i] = IF i = 0 THEN v ELSE Identify(g[i - 1], table, i, mem)
  BY <1>1, Zenon DEF Through
<1>4. Shape(v, R, Q)
  <2>1. PICK k \in Int : k = st.find.pending - 1
    BY ShapeFacts
  <2>2. /\ [st EXCEPT !.find.pending = k] = With(st, [st.find EXCEPT !.pending = k])
        /\ [st.find EXCEPT !.pending = k] \in FindRecord(R)
    BY Updates
  <2>3. v = With(st, [st.find EXCEPT !.pending = k])
    BY <2>1, <2>2
  <2> QED
    BY <2>2, <2>3, WithShape
<1> HIDE DEF v
<1> DEFINE S == {i \in 0 .. n : Shape(g[i], R, Q) /\ Along(v, g[i])}
<1>5. 0 \in S
  <2>1. g[0] = v
    BY <1>3
  <2> QED
    BY <1>4, <2>1, AlongItself
<1>6. ASSUME NEW i \in 1 .. n, i - 1 \in S PROVE i \in S
  <2>1. i \in 0 .. n /\ i # 0 /\ g[i] = Identify(g[i - 1], table, i, mem)
    BY <1>3
  <2>2. PICK x : x = g[i - 1]
    OBVIOUS
  <2>3. Shape(x, R, Q) /\ Along(v, x)
    BY <1>6, <2>2
  <2>4. Shape(Identify(x, table, i, mem), R, Q) /\ Along(x, Identify(x, table, i, mem))
    BY <2>3, IdentifyFacts
  <2>5. Along(v, Identify(x, table, i, mem))
    BY <2>3, <2>4, AlongOn
  <2> QED
    BY <2>1, <2>2, <2>4, <2>5
<1> HIDE DEF S
<1>7. 0 .. n \subseteq S
  BY <1>5, <1>6, IntervalInd
<1>8. n \in S
  BY <1>7
<1> QED
  BY <1>2, <1>8 DEF S, v

-----------------------------------------------------------------------------
(* The inductive invariant. *)

\* The errors a history holds, and what a call may return with one.
Errors == {"OOM", "ADDRESS", "TIMEOUT"}
Told(v, fl) == fl # {} => v \in fl \cup {"FAIL", "OOM"}

\* ScanInv, for the values a step gives to the variables.
Good(st, fl) ==
  /\ st.find.pc # "run" => DOMAIN st.scans = {}
  /\ st.find.pc = "run" =>
       Count(st) = IF st.find.kind = "identity" THEN st.find.pending
                   ELSE IF st.find.status = "wait" THEN 1 ELSE 0
  /\ IF st.find.kind = "identity"
     THEN st.find.status # "wait" /\ Len(st.find.output) <= st.find.fill
     ELSE st.find.size = 1
  /\ st.find.pc = "idle" => st.find.output = <<>>
  /\ fl \in SUBSET Errors /\ Told(st.find.status, fl)
  /\ Len(st.find.output) <= st.find.size

\* There are values for which the state has its shape.
Typed == \E R, X : Shape(St, R, ScanRecord(X))

\* ItemsExact with the types and the counts that make it, and the properties, inductive.
IInv ==
  /\ tree \in Trees /\ handlers \in Seq(Devices) /\ refused \in Nat
  /\ Typed
  /\ Good(St, failed)
  /\ ItemsExact

\* The invariant implies the properties.
LEMMA IInvImplies ==
    ASSUME IInv
    PROVE  (gone \in BOOLEAN => TypeOK) /\ ScanInv /\ NoStaleRecord /\ FailureReported
<1>1. PICK R, X : Shape(St, R, ScanRecord(X))
  BY DEF IInv, Typed
<1>2. find \in FindRecord(R) /\ scans \in ScanFcns(ScanRecord(X))
  BY <1>1 DEF Shape, St
<1>3. DOMAIN scans \subseteq 1 .. MaxScans /\ scans \in [DOMAIN scans -> ScanRecord(X)]
  BY <1>2, ScanFcnsAre
<1>4. \A s \in DOMAIN scans : scans[s].step \in {"ptr", "header", "all"}
  BY <1>3 DEF ScanRecord, ScanValues
<1>5. find.pc \in {"idle", "run", "done"} /\ find.status \in Statuses
  BY <1>2 DEF FindRecord
<1>6. ScanInv /\ Len(find.output) <= find.size
  BY DEF IInv, Good, St, Count, ScanInv, Told
<1>7. \A i \in DOMAIN handlers : handlers[i] \in Devices
  BY DEF IInv
<1>8. gone \in BOOLEAN => TypeOK
  <2>1. failed \subseteq CycleErrors \cup {"OOM"}
    BY DEF IInv, Good, Errors, CycleErrors
  <2> QED
    BY <1>3, <1>4, <1>5, <1>6, <1>7, <2>1 DEF TypeOK, Statuses, IInv
<1> QED
  BY <1>6, <1>8 DEF ScanInv, NoStaleRecord, FailureReported

\* More values are values.
LEMMA Widen ==
    ASSUME NEW R, NEW X, NEW R2, NEW X2, NEW st, Shape(st, R, ScanRecord(X)),
           R \subseteq R2, X \subseteq X2
    PROVE  Shape(st, R2, ScanRecord(X2))
<1>1. PICK f \in FindRecord(R) : f = st.find
  BY DEF Shape
<1>2. f \in FindRecord(R2)
  <2>1. f.output \in Seq(R2)
    <3>1. PICK s \in Seq(R) : s = f.output
      BY DEF FindRecord
    <3>2. s \in Seq(R2)
      OBVIOUS
    <3> QED
      BY <3>1, <3>2
  <2> QED
    BY <2>1 DEF FindRecord
<1>3. PICK g \in ScanFcns(ScanRecord(X)) : g = st.scans
  BY DEF Shape
<1>4. g \in ScanFcns(ScanRecord(X2))
  <2>1. ScanRecord(X) \subseteq ScanRecord(X2)
    BY DEF ScanRecord, ScanValues
  <2>2. DOMAIN g \subseteq 1 .. MaxScans /\ g \in [DOMAIN g -> ScanRecord(X)]
    BY ScanFcnsAre
  <2>3. g \in [DOMAIN g -> ScanRecord(X2)]
    BY <2>1, <2>2
  <2> QED
    BY <2>2, <2>3, ScanFcnsAre
<1>5. st = [find |-> f, scans |-> g, items |-> st.items] /\ st.items \in Int
  BY <1>1, <1>3 DEF Shape
<1> QED
  BY <1>2, <1>4, <1>5 DEF Shape

\* A step that gives find, scans and items the values of st keeps the invariant
\* if they are good and the items are balanced.
LEMMA StepKeeps ==
    ASSUME IInv, NEW R, NEW X, NEW st, Shape(st, R, ScanRecord(X)), Becomes(st),
           Good(st, failed'), st.items - Count(st) = items - Cardinality(DOMAIN scans),
           UNCHANGED <<tree, handlers, refused>>
    PROVE  IInv'
<1>1. st = [find |-> find', scans |-> scans', items |-> items']
  BY DEF Becomes, Shape
<1>2. St' = st
  BY <1>1 DEF St
<1>3. Typed'
  <2>1. Shape(St', R, ScanRecord(X))
    BY <1>2
  <2>2. PICK Q : Q = ScanRecord(X)
    OBVIOUS
  <2>3. \A c : Served(c)' <=> Served(c)
    BY DEF Served, HasTable
  <2>4. ScanRecord(X)' = Q
    BY <2>2, <2>3 DEF ScanRecord, ScanValues
  <2>5. Shape(St, R, ScanRecord(X))'
    BY <2>1, <2>2, <2>4 DEF Shape, ScanFcns, FindRecord
  <2> QED
    BY <2>5 DEF Typed
<1>4. Good(St', failed')
  BY <1>2
<1>5. Good(St, failed)'
  BY <1>4 DEF Good, Count
<1>6. ItemsExact'
  <2>1. PICK R1, X1 : Shape(St, R1, ScanRecord(X1))
    BY DEF IInv, Typed
  <2>2. items \in Int /\ Cardinality(DOMAIN scans) \in Nat
    BY <2>1, ShapeFacts DEF St, Count
  <2>3. st.items \in Int /\ Count(st) \in Nat
    BY ShapeFacts
  <2>4. items' = st.items /\ Cardinality(DOMAIN scans') = Count(st)
    BY DEF Becomes, Count
  <2>5. Len(handlers) \in Nat /\ refused \in Nat
    BY DEF IInv
  <2>6. items = Cardinality(DOMAIN scans) + 2 * Len(handlers) + 2 * refused
    BY DEF IInv, ItemsExact
  <2>7. items' = Cardinality(DOMAIN scans') + 2 * Len(handlers) + 2 * refused
    BY <2>2, <2>3, <2>4, <2>5, <2>6, SMTT(40)
  <2> QED
    BY <2>7 DEF ItemsExact
<1> QED
  BY <1>3, <1>5, <1>6 DEF IInv

-----------------------------------------------------------------------------
(* The actions. *)

\* The invariant holds initially.
LEMMA InitIInv == Init => IInv
<1> SUFFICES ASSUME Init PROVE IInv
  OBVIOUS
<1>1. DOMAIN scans = {} /\ scans \in [DOMAIN scans -> ScanRecord({})]
  BY DEF Init
<1>2. scans \in ScanFcns(ScanRecord({}))
  BY <1>1, ScanFcnsAre
<1>3. find \in FindRecord({0})
  BY DEF Init, FindRecord, Statuses
<1>4. Shape(St, {0}, ScanRecord({0}))
  <2>1. scans \in ScanFcns(ScanRecord({0}))
    BY <1>1, ScanFcnsAre
  <2> QED
    BY <1>3, <2>1 DEF Shape, St, Init
<1>5. Cardinality(DOMAIN scans) = 0
  BY <1>1, FS_EmptySet
<1>6. Good(St, failed)
  BY <1>1 DEF Good, St, Init, Told
<1>7. Len(handlers) = 0 /\ handlers \in Seq(Devices)
  BY DEF Init
<1>8. ItemsExact
  BY <1>5, <1>7 DEF ItemsExact, Init
<1> QED
  BY <1>4, <1>6, <1>7, <1>8 DEF IInv, Typed, Init

\* The facts about the present values that the steps start from.
LEMMA Present0 ==
    ASSUME IInv
    PROVE  \E R, X : /\ Shape(St, R, ScanRecord(X)) /\ find \in FindRecord(R)
                     /\ scans \in [DOMAIN scans -> ScanRecord(X)]
                     /\ DOMAIN scans \subseteq 1 .. MaxScans
<1>1. PICK R, X : Shape(St, R, ScanRecord(X))
  BY DEF IInv, Typed
<1>2. find \in FindRecord(R) /\ scans \in ScanFcns(ScanRecord(X))
  BY <1>1 DEF Shape, St
<1>3. DOMAIN scans \subseteq 1 .. MaxScans /\ scans \in [DOMAIN scans -> ScanRecord(X)]
  BY <1>2, ScanFcnsAre
<1> QED
  BY <1>1, <1>2, <1>3

\* The cycle of a scan is answered, or the next cycle of its chain is opened.
LEMMA ScanGoesOn ==
    ASSUME IInv, NEW s \in DOMAIN scans, NEW X2, NEW r \in ScanRecord(X2),
           scans' = [scans EXCEPT ![s] = r],
           UNCHANGED <<tree, handlers, find, items, refused, failed>>
    PROVE  IInv'
<1>1. PICK R, X : /\ Shape(St, R, ScanRecord(X)) /\ find \in FindRecord(R)
                  /\ scans \in [DOMAIN scans -> ScanRecord(X)]
                  /\ DOMAIN scans \subseteq 1 .. MaxScans
  BY Present0
<1>2. Shape(St, R, ScanRecord(X \cup X2))
  BY <1>1, Widen
<1>3. PICK g \in ScanFcns(ScanRecord(X \cup X2)) : g = scans
  BY <1>2 DEF Shape, St
<1>4. g \in [DOMAIN g -> ScanRecord(X \cup X2)] /\ DOMAIN g \subseteq 1 .. MaxScans
  BY ScanFcnsAre
<1>5. r \in ScanRecord(X \cup X2)
  BY DEF ScanRecord, ScanValues
<1>6. PICK h : h = [g EXCEPT ![s] = r]
  OBVIOUS
<1>7. DOMAIN h = DOMAIN g /\ h \in [DOMAIN h -> ScanRecord(X \cup X2)]
  BY <1>3, <1>4, <1>5, <1>6
<1>8. h \in ScanFcns(ScanRecord(X \cup X2))
  BY <1>4, <1>7, ScanFcnsAre
<1>9. PICK st : st = [find |-> find, scans |-> h, items |-> items]
  OBVIOUS
<1>10. Shape(st, R, ScanRecord(X \cup X2))
  BY <1>1, <1>8, <1>9 DEF Shape, St
<1>11. Becomes(st)
  BY <1>3, <1>6, <1>9 DEF Becomes
<1>12. DOMAIN st.scans = DOMAIN scans /\ st.find = find /\ st.items = items
  BY <1>3, <1>7, <1>9
<1>13. Good(st, failed')
  BY <1>12 DEF IInv, Good, St, Count
<1>14. st.items - Count(st) = items - Cardinality(DOMAIN scans)
  BY <1>12 DEF Count
<1> QED
  BY <1>10, <1>11, <1>13, <1>14, StepKeeps

\* The remote executes the cycle of a scan.
LEMMA ServeKeeps ==
    ASSUME IInv, NEW s \in DOMAIN scans, Serve(s)
    PROVE  IInv'
<1>1. PICK R, X : scans \in [DOMAIN scans -> ScanRecord(X)]
  BY Present0
<1>3. PICK c \in ScanRecord(X) : c = scans[s]
  BY <1>1
<1>2. PICK v : /\ scans' = [scans EXCEPT ![s].reply = v]
               /\ c.step = "header" => v[1] = HasTable(c.at)
               /\ c.step = "all" => v[1] = Len(Table(c.at)) + 1
  <2>1. PICK t : t = Table(c.at)
    OBVIOUS
  <2>2. c.step \in {"ptr", "header", "all"}
    BY DEF ScanRecord, ScanValues
  <2>3. CASE c.step = "ptr"
    BY <1>3, <2>3 DEF Serve
  <2>4. CASE c.step = "header"
    <3>1. scans' = [scans EXCEPT ![s].reply =
                      <<HasTable(c.at), IF HasTable(c.at) THEN Len(t) + 1 ELSE 0>>]
      BY <1>3, <2>1, <2>4 DEF Serve
    <3>2. PICK v : v = <<HasTable(c.at), IF HasTable(c.at) THEN Len(t) + 1 ELSE 0>>
      OBVIOUS
    <3>3. v[1] = HasTable(c.at)
      BY <3>2
    <3>4. scans' = [scans EXCEPT ![s].reply = v]
      BY <3>1, <3>2
    <3> QED
      BY <2>4, <3>3, <3>4
  <2>5. CASE c.step = "all"
    <3>1. scans' = [scans EXCEPT ![s].reply =
                      <<Len(t) + 1, SubSeq(t, 1, LeastOf(Len(t), c.count - 1))>>]
      BY <1>3, <2>1, <2>5 DEF Serve
    <3>2. PICK v : v = <<Len(t) + 1, SubSeq(t, 1, LeastOf(Len(t), c.count - 1))>>
      OBVIOUS
    <3>3. v[1] = Len(Table(c.at)) + 1
      BY <2>1, <3>2
    <3>4. scans' = [scans EXCEPT ![s].reply = v]
      BY <3>1, <3>2
    <3> QED
      BY <2>5, <3>3, <3>4
  <2> QED
    BY <2>2, <2>3, <2>4, <2>5
<1>4. PICK r : r = [c EXCEPT !.reply = v]
  OBVIOUS
<1>5. r \in ScanRecord(X \cup {v})
  <2>1. r \in ScanValues(X \cup {v}) /\ r.step = c.step /\ r.at = c.at /\ r.reply = v
    BY <1>4 DEF ScanRecord, ScanValues
  <2>2. Served(c)
    BY DEF ScanRecord
  <2>3. HasTable(c.at) => Len(Table(c.at)) \in Nat
    <3>1. Len(handlers) \in Nat /\ tree \in Trees
      BY DEF IInv
    <3> QED
      BY <3>1, ScanAssumption DEF HasTable, Table
  <2>4. c.step = "all" => v[1] \in Nat \ {0}
    BY <1>2, <2>2, <2>3 DEF Served
  <2>5. Served(r)
    BY <1>2, <2>1, <2>2, <2>4 DEF Served
  <2> QED
    BY <2>1, <2>5 DEF ScanRecord
<1>6. scans' = [scans EXCEPT ![s] = r]
  BY <1>2, <1>3, <1>4
<1> QED
  BY <1>5, <1>6, ScanGoesOn DEF Serve

\* The history only grows, by errors.
LEMMA FailedMore ==
    ASSUME IInv
    PROVE  /\ failed \in SUBSET Errors
           /\ \A e \in Errors : failed \cup {e} \in SUBSET Errors
           /\ \A v : failed \cup ({v} \cap {"OOM"}) \in SUBSET Errors
BY DEF IInv, Good, Errors

\* A scan ends with an error: it is freed, and the call is told.
LEMMA AbandonKeeps ==
    ASSUME IInv, NEW s \in DOMAIN scans, NEW status \in Statuses \ {"wait", "OK"},
           Abandon(s, status), status \in failed' \cup {"FAIL", "OOM"},
           failed' \in SUBSET Errors, UNCHANGED <<tree, handlers, refused>>
    PROVE  IInv'
<1>1. PICK R, X : Shape(St, R, ScanRecord(X)) /\ find \in FindRecord(R)
  BY Present0
<1>2. PICK a : a = FreeScan(St, s)
  OBVIOUS
<1>3. St.scans = scans /\ St.find = find /\ St.items = items /\ Count(St) = Cardinality(DOMAIN scans)
  BY DEF St, Count
<1>4. /\ Shape(a, R, ScanRecord(X)) /\ a.find = find
      /\ DOMAIN a.scans = DOMAIN scans \ {s}
      /\ Count(a) = Count(St) - 1 /\ a.items = items - 1
  <2>1. s \in DOMAIN St.scans
    BY <1>3
  <2> QED
    BY <1>1, <1>2, <1>3, <2>1, FreeScanFacts
<1>5. PICK k \in Int : k = IF find.kind = "identity" THEN find.pending - 1 ELSE find.pending
  BY <1>1 DEF FindRecord
<1>6. PICK g : g = [find EXCEPT !.status = status, !.pending = k]
  OBVIOUS
<1>7. g \in FindRecord(R)
  BY <1>1, <1>6 DEF FindRecord, Statuses
<1>8. CbFail(a, status) = With(a, g)
  <2>1. PICK f \in FindRecord(R) : f = [find EXCEPT !.status = status]
    BY <1>1 DEF FindRecord, Statuses
  <2>2. f.pending = find.pending /\ f.kind = find.kind /\ g = [f EXCEPT !.pending = k]
    BY <1>1, <1>6, <2>1 DEF FindRecord
  <2>3. PICK b : b = [a EXCEPT !.find.status = status]
    OBVIOUS
  <2>4. b = With(a, f) /\ b.find = f
    <3>1. status \in Statuses
      BY DEF Statuses
    <3>2. [a EXCEPT !.find.status = status] = With(a, [a.find EXCEPT !.status = status])
      BY <1>4, <3>1, Updates
    <3>3. b = With(a, f)
      BY <1>4, <2>1, <2>3, <3>2
    <3> QED
      BY <3>3 DEF With
  <2>5. Shape(b, R, ScanRecord(X))
    BY <1>4, <2>4, WithShape
  <2>6. CbFail(a, status) = [b EXCEPT !.find.pending = IF a.find.kind = "identity"
                                                       THEN b.find.pending - 1 ELSE b.find.pending]
    BY <2>3 DEF CbFail
  <2>7. CbFail(a, status) = [b EXCEPT !.find.pending = k]
    BY <1>4, <1>5, <2>2, <2>4, <2>6
  <2>8. CbFail(a, status) = With(b, [f EXCEPT !.pending = k])
    BY <2>4, <2>5, <2>7, Updates
  <2> QED
    BY <2>2, <2>4, <2>8 DEF With
<1>9. PICK st : st = With(a, g)
  OBVIOUS
<1>10. Shape(st, R, ScanRecord(X))
  BY <1>4, <1>7, <1>9, WithShape
<1>11. Becomes(st)
  BY <1>2, <1>8, <1>9 DEF Abandon
<1>12. st.find = g /\ st.scans = a.scans /\ st.items = a.items /\ Count(st) = Count(a)
  BY <1>9 DEF With, Count
<1>13. items \in Int /\ Count(St) \in Nat /\ find.pending \in Int
  BY <1>1, <1>3, ShapeFacts
<1>14. st.items - Count(st) = items - Cardinality(DOMAIN scans)
  BY <1>3, <1>4, <1>12, <1>13
<1>15. /\ g.pc = find.pc /\ g.kind = find.kind /\ g.size = find.size /\ g.status = status
       /\ g.output = find.output /\ g.fill = find.fill /\ g.pending = k
  BY <1>1, <1>6 DEF FindRecord
<1>16. find.pc = "run"
  BY DEF IInv, Good, St
<1>17. Count(St) = IF find.kind = "identity" THEN find.pending
                   ELSE IF find.status = "wait" THEN 1 ELSE 0
  BY <1>3, <1>16 DEF IInv, Good
<1>18. Count(st) = IF g.kind = "identity" THEN g.pending ELSE 0
  <2>1. Count(a) \in Nat
    BY <1>4, ShapeFacts
  <2> QED
    BY <1>4, <1>5, <1>12, <1>13, <1>15, <1>17, <2>1
<1>19. Good(st, failed')
  BY <1>3, <1>12, <1>15, <1>16, <1>18 DEF IInv, Good, Told
<1> QED
  BY <1>10, <1>11, <1>14, <1>19, StepKeeps

\* The next cycle of a chain is opened, or there is no memory for it.
LEMMA NextCycleKeeps ==
    ASSUME IInv, NEW s \in DOMAIN scans, NEW X2, NEW r \in ScanRecord(X2), NextCycle(s, r)
    PROVE  IInv'
<1>1. CASE Abandon(s, "OOM") /\ failed' = failed \cup {"OOM"}
  <2>1. "OOM" \in Errors /\ "OOM" \in Statuses \ {"wait", "OK"}
    BY DEF Errors, Statuses
  <2> QED
    BY <1>1, <2>1, FailedMore, AbandonKeeps DEF NextCycle
<1> QED
  BY <1>1, ScanGoesOn DEF NextCycle

\* The step's name is that of the chain and the rest is any value.
LEMMA ScanIs ==
    ASSUME NEW at, NEW base, NEW n
    PROVE  /\ Scan("ptr", at, base) \in ScanRecord({at, base, 0, <<>>})
           /\ Scan("header", at, base) \in ScanRecord({at, base, 0, <<>>})
           /\ HasTable(at) => [Scan("all", at, base) EXCEPT !.count = n]
                                 \in ScanRecord({at, base, n, <<>>})
BY DEF Scan, ScanRecord, ScanValues, Served

\* The callbacks before the table is read, and a cycle that fails.
LEMMA HeadersKeep ==
    ASSUME IInv, NEW s \in DOMAIN scans, GotHeaderPtr(s) \/ GotHeader(s) \/ CycleFails(s)
    PROVE  IInv'
<1>1. CASE GotHeaderPtr(s)
  <2>1. PICK at, base : NextCycle(s, Scan("header", at, base))
    BY <1>1 DEF GotHeaderPtr
  <2>2. Scan("header", at, base) \in ScanRecord({at, base, 0, <<>>})
    BY ScanIs
  <2> QED
    BY <2>1, <2>2, NextCycleKeeps
<1>2. CASE GotHeader(s) /\ scans[s].reply[1]
  <2>1. PICK at, base, n : /\ NextCycle(s, [Scan("all", at, base) EXCEPT !.count = n])
                           /\ at = scans[s].at
    BY <1>2 DEF GotHeader
  <2>0. HasTable(at)
    <3>1. PICK R, X : scans \in [DOMAIN scans -> ScanRecord(X)]
      BY Present0
    <3>2. Served(scans[s])
      BY <3>1 DEF ScanRecord
    <3> QED
      BY <1>2, <2>1, <3>2 DEF Served, GotHeader
  <2>2. [Scan("all", at, base) EXCEPT !.count = n] \in ScanRecord({at, base, n, <<>>})
    BY <2>0, ScanIs
  <2> QED
    BY <2>1, <2>2, NextCycleKeeps
<1>3. CASE GotHeader(s) /\ ~scans[s].reply[1]
  <2>1. "FAIL" \in Statuses \ {"wait", "OK"}
    BY DEF Statuses
  <2> QED
    BY <1>3, <2>1, FailedMore, AbandonKeeps DEF GotHeader
<1>4. CASE CycleFails(s)
  <2>1. PICK status \in CycleErrors : Abandon(s, status) /\ failed' = failed \cup {status}
    BY <1>4 DEF CycleFails
  <2>2. status \in Errors /\ status \in Statuses \ {"wait", "OK"}
    BY DEF CycleErrors, Errors, Statuses
  <2> QED
    BY <1>4, <2>1, <2>2, FailedMore, AbandonKeeps DEF CycleFails
<1> QED
  BY <1>1, <1>2, <1>3, <1>4

\* eb_sdb_scan_root begins a call.
LEMMA StartKeeps ==
    ASSUME IInv, Start
    PROVE  IInv'
<1>1. PICK R, X : Shape(St, R, ScanRecord(X)) /\ find \in FindRecord(R)
  BY Present0
<1>2. PICK f \in Finds, mem \in BOOLEAN :
        LET call == [find EXCEPT !.pc = "run", !.kind = f.kind, !.id = f.id, !.addr = f.addr,
                                 !.size = f.size, !.pending = 1,
                                 !.status = IF f.kind = "address" THEN "wait" ELSE "OK"] IN
        /\ Becomes(IF mem THEN NewScan([St EXCEPT !.find = call], Scan("ptr", 0, 0))
                   ELSE [St EXCEPT !.find = [call EXCEPT !.status = "OOM", !.pending = 0]])
        /\ failed' = IF mem THEN {} ELSE {"OOM"}
  BY DEF Start
<1>3. PICK R2 : R2 = R \cup {f.id, f.addr}
  OBVIOUS
<1>4. PICK X2 : X2 = X \cup {0, <<>>}
  OBVIOUS
<1>5. Shape(St, R2, ScanRecord(X2)) /\ find \in FindRecord(R2)
  <2>1. Shape(St, R2, ScanRecord(X2))
    BY <1>1, <1>3, <1>4, Widen
  <2> QED
    BY <2>1 DEF Shape, St
<1>6. f.kind \in {"identity", "address"} /\ f.size \in Nat /\ (f.kind = "address" => f.size = 1)
  BY ScanAssumption
<1>7. PICK v \in Statuses : v = IF f.kind = "address" THEN "wait" ELSE "OK"
  BY DEF Statuses
<1>8. PICK call : call = [find EXCEPT !.pc = "run", !.kind = f.kind, !.id = f.id, !.addr = f.addr,
                                      !.size = f.size, !.pending = 1, !.status = v]
  OBVIOUS
<1>9. f.id \in R2 /\ f.addr \in R2
  BY <1>3
<1>10. call \in FindRecord(R2)
  <2>1. PICK id \in R2, addr \in R2, size \in Nat, kind \in {"identity", "address"} :
          id = f.id /\ addr = f.addr /\ size = f.size /\ kind = f.kind
    BY <1>6, <1>9
  <2>2. find.fill \in Nat /\ find.output \in Seq(R2)
    BY <1>5 DEF FindRecord
  <2>3. [pc |-> "run", kind |-> kind, id |-> id, addr |-> addr, size |-> size, status |-> v,
         pending |-> 1, fill |-> find.fill, output |-> find.output] \in FindRecord(R2)
    BY <2>2 DEF FindRecord
  <2>4. call = [pc |-> "run", kind |-> kind, id |-> id, addr |-> addr, size |-> size,
                status |-> v, pending |-> 1, fill |-> find.fill, output |-> find.output]
    BY <1>5, <1>8, <2>1 DEF FindRecord
  <2> QED
    BY <2>3, <2>4
<1>11. /\ call.pc = "run" /\ call.kind = f.kind /\ call.size = f.size /\ call.pending = 1
       /\ call.status = v /\ call.output = find.output /\ call.fill = find.fill
  BY <1>5, <1>8 DEF FindRecord
<1>12. DOMAIN scans = {} /\ find.output = <<>> /\ find.fill \in Nat
  BY <1>5 DEF Start, IInv, Good, St, FindRecord
<1>13. Len(find.output) = 0 /\ Cardinality(DOMAIN scans) = 0 /\ items \in Int
  <2>1. Len(<<>>) = 0
    OBVIOUS
  <2> QED
    BY <1>1, <1>12, <2>1, FS_EmptySet, ShapeFacts DEF St
<1>14. CASE mem
  <2>1. PICK a : a = [find |-> call, scans |-> scans, items |-> items]
    OBVIOUS
  <2>2. [St EXCEPT !.find = call] = a
    BY <2>1 DEF St
  <2>3. Shape(a, R2, ScanRecord(X2))
    <3>1. a = With(St, call)
      BY <2>1 DEF With, St
    <3> QED
      BY <1>5, <1>10, <3>1, WithShape
  <2>4. Spare(a) # {}
    <3>1. 1 \in 1 .. MaxScans
      BY ScanAssumption
    <3> QED
      BY <1>12, <2>1, <3>1 DEF Spare
  <2>5. PICK c : c = Scan("ptr", 0, 0)
    OBVIOUS
  <2>6. c \in ScanRecord(X2)
    BY <1>4, <2>5 DEF Scan, ScanRecord, ScanValues, Served
  <2>7. PICK st : st = NewScan(a, c)
    OBVIOUS
  <2>8. Shape(st, R2, ScanRecord(X2)) /\ Grown(a, st)
    BY <2>3, <2>4, <2>6, <2>7, NewScanFacts
  <2>9. Becomes(st) /\ failed' = {}
    BY <1>2, <1>7, <1>8, <1>14, <2>2, <2>5, <2>7
  <2>10. st.find = call /\ Count(st) = 1 /\ st.items = items + 1
    BY <1>13, <2>1, <2>8 DEF Grown, Count
  <2>11. Good(st, failed')
    BY <1>6, <1>7, <1>11, <1>12, <1>13, <2>9, <2>10 DEF Good, Told
  <2>12. st.items - Count(st) = items - Cardinality(DOMAIN scans)
    BY <1>13, <2>10
  <2> QED
    BY <2>8, <2>9, <2>11, <2>12, StepKeeps DEF Start
<1>15. CASE ~mem
  <2>1. PICK g : g = [call EXCEPT !.status = "OOM", !.pending = 0]
    OBVIOUS
  <2>2. g \in FindRecord(R2)
    <3>1. PICK u \in Statuses : u = "OOM"
      BY DEF Statuses
    <3>2. PICK zero \in Int : zero = 0
      OBVIOUS
    <3>3. [call EXCEPT !.status = u, !.pending = zero] \in FindRecord(R2)
      BY <1>10 DEF FindRecord
    <3> QED
      BY <2>1, <3>1, <3>2, <3>3
  <2>3. PICK st : st = With(St, g)
    OBVIOUS
  <2>4. [St EXCEPT !.find = g] = st
    BY <2>3 DEF With, St
  <2>5. Becomes(st)
    BY <1>2, <1>7, <1>8, <1>15, <2>1, <2>4
  <2>6. Shape(st, R2, ScanRecord(X2))
    BY <1>5, <2>2, <2>3, WithShape
  <2>7. st.find = g /\ st.scans = scans /\ st.items = items /\ Count(st) = 0
    BY <1>13, <2>3 DEF With, St, Count
  <2>8. /\ g.pc = "run" /\ g.kind = f.kind /\ g.size = f.size /\ g.pending = 0
        /\ g.status = "OOM" /\ g.output = find.output /\ g.fill = find.fill
    BY <1>10, <1>11, <2>1 DEF FindRecord
  <2>9. Good(st, failed')
    <3>1. failed' = {"OOM"}
      BY <1>2, <1>15
    <3> QED
      BY <1>6, <1>12, <1>13, <2>7, <2>8, <3>1 DEF Good, Told, Errors
  <2>10. st.items - Count(st) = items - Cardinality(DOMAIN scans)
    BY <1>13, <2>7
  <2> QED
    BY <2>5, <2>6, <2>9, <2>10, StepKeeps DEF Start
<1> QED
  BY <1>14, <1>15

\* The call returns: its scans are over.
LEMMA ReturnKeeps ==
    ASSUME IInv, Return
    PROVE  IInv'
<1>1. PICK R, X : Shape(St, R, ScanRecord(X)) /\ find \in FindRecord(R)
  BY Present0
<1>2. PICK g : g = [find EXCEPT !.pc = "done"]
  OBVIOUS
<1>3. g \in FindRecord(R)
  BY <1>1, <1>2 DEF FindRecord
<1>4. /\ g.pc = "done" /\ g.kind = find.kind /\ g.size = find.size /\ g.pending = find.pending
      /\ g.status = find.status /\ g.output = find.output /\ g.fill = find.fill
  BY <1>1, <1>2 DEF FindRecord
<1>5. PICK st : st = With(St, g)
  OBVIOUS
<1>6. Shape(st, R, ScanRecord(X))
  BY <1>1, <1>3, <1>5, WithShape
<1>7. st.find = g /\ st.scans = scans /\ st.items = items
  BY <1>5 DEF With, St
<1>8. Becomes(st)
  BY <1>2, <1>7 DEF Becomes, Return
<1>9. Count(St) \in Nat /\ find.pending \in Int /\ Count(St) = Cardinality(DOMAIN scans)
      /\ IsFiniteSet(DOMAIN scans)
  <2>1. IsFiniteSet(DOMAIN scans)
    BY <1>1, ScansFinite DEF Shape, St
  <2> QED
    BY <1>1, <2>1, ShapeFacts DEF St, Count
<1>10. Count(St) <= 0
  <2>1. Count(St) = IF find.kind = "identity" THEN find.pending
                    ELSE IF find.status = "wait" THEN 1 ELSE 0
    BY <1>9 DEF IInv, Good, St, Return
  <2> QED
    BY <1>9, <2>1 DEF Return, Over
<1>11. DOMAIN scans = {}
  <2>1. Cardinality(DOMAIN scans) = 0
    BY <1>9, <1>10
  <2> QED
    BY <1>9, <2>1, FS_EmptySet
<1>12. failed' = failed
  BY DEF Return
<1>13. Good(st, failed')
  BY <1>4, <1>7, <1>11, <1>12 DEF IInv, Good, St
<1>14. st.items - Count(st) = items - Cardinality(DOMAIN scans)
  BY <1>7 DEF Count
<1> QED
  BY <1>6, <1>8, <1>13, <1>14, StepKeeps DEF Return

\* A table that is decoded has a natural number of records.
LEMMA TableFacts ==
    ASSUME NEW c, c.reply[1] \in Nat \ {0}, NEW table \in Tables(c)
    PROVE  Len(table) \in Nat /\ DOMAIN table = 1 .. Len(table)
<1>1. PICK m \in Nat : m = c.reply[1] - 1
  OBVIOUS
<1>2. DOMAIN table = 1 .. m
  <2>1. \A junk \in Junk :
          DOMAIN [i \in 1 .. c.reply[1] - 1 |->
                    IF i <= Len(c.reply[2]) THEN Decoded(c.reply[2][i], c.base)
                    ELSE IF i < c.count THEN Blank ELSE junk] = 1 .. m
    BY <1>1, Zenon
  <2> QED
    BY <2>1, Zenon DEF Tables
<1>3. PICK e : table = [i \in 1 .. m |-> e[i]]
  <2>1. table = [i \in 1 .. m |-> table[i]]
    <3>1. \A junk \in Junk :
            LET f == [i \in 1 .. c.reply[1] - 1 |->
                        IF i <= Len(c.reply[2]) THEN Decoded(c.reply[2][i], c.base)
                        ELSE IF i < c.count THEN Blank ELSE junk] IN
            f = [i \in DOMAIN f |-> f[i]]
      BY Zenon
    <3>2. table = [i \in DOMAIN table |-> table[i]]
      BY <3>1, Zenon DEF Tables
    <3> QED
      BY <1>2, <3>2
  <2> QED
    BY <2>1
<1>4. Len(table) = m
  BY <1>3
<1> QED
  BY <1>2, <1>4

\* Sets of values that are large enough for the records of a table.
LEMMA Roomy ==
    ASSUME IInv, NEW table, Len(table) \in Nat
    PROVE  \E R, X : /\ Shape(St, R, ScanRecord(X))
                     /\ \A i \in 1 .. Len(table) :
                          /\ table[i] \in R
                          /\ Scan("header", table[i].child, table[i].first) \in ScanRecord(X)
<1>1. PICK R, X : Shape(St, R, ScanRecord(X))
  BY DEF IInv, Typed
<1> DEFINE n == Len(table)
           R2 == R \cup {table[i] : i \in 1 .. n}
           X2 == X \cup {table[i].child : i \in 1 .. n} \cup {table[i].first : i \in 1 .. n}
                   \cup {0, <<>>}
<1>2. Shape(St, R2, ScanRecord(X2))
  <2>1. R \subseteq R2 /\ X \subseteq X2
    OBVIOUS
  <2> HIDE DEF R2, X2
  <2> QED
    BY <1>1, <2>1, Widen
<1>3. \A i \in 1 .. n : table[i] \in R2
  OBVIOUS
<1>4. ASSUME NEW i \in 1 .. n
      PROVE  Scan("header", table[i].child, table[i].first) \in ScanRecord(X2)
  <2>1. PICK at, base : at = table[i].child /\ base = table[i].first
    OBVIOUS
  <2>2. at \in X2 /\ base \in X2 /\ 0 \in X2 /\ <<>> \in X2
    BY <2>1
  <2> HIDE DEF X2
  <2>3. Scan("header", at, base) \in ScanRecord(X2)
    BY <2>2 DEF Scan, ScanRecord, ScanValues, Served
  <2> QED
    BY <2>1, <2>3
<1> HIDE DEF R2, X2
<1> QED
  BY <1>2, <1>3, <1>4

\* While a scan is under way its call runs, and counts it.
LEMMA Running ==
    ASSUME IInv, NEW s \in DOMAIN scans
    PROVE  /\ find.pc = "run" /\ St.find = find /\ St.scans = scans /\ St.items = items
           /\ Count(St) = Cardinality(DOMAIN scans) /\ Count(St) \in Nat /\ Count(St) # 0
           /\ find.kind = "identity" => find.pending = Count(St)
           /\ find.kind # "identity" => find.status = "wait" /\ Count(St) = 1
<1>1. PICK R, X : Shape(St, R, ScanRecord(X))
  BY DEF IInv, Typed
<1>2. St.find = find /\ St.scans = scans /\ St.items = items /\ Count(St) = Cardinality(DOMAIN scans)
  BY DEF St, Count
<1>3. Count(St) \in Nat
  BY <1>1, ShapeFacts
<1>4. find.pc = "run"
  BY <1>2 DEF IInv, Good
<1>5. Count(St) # 0
  <2>1. IsFiniteSet(DOMAIN scans)
    BY <1>1, ScansFinite DEF Shape, St
  <2> QED
    BY <1>2, <2>1, FS_EmptySet
<1>6. Count(St) = IF find.kind = "identity" THEN find.pending
                  ELSE IF find.status = "wait" THEN 1 ELSE 0
  BY <1>2, <1>4 DEF IInv, Good
<1> QED
  BY <1>2, <1>3, <1>4, <1>5, <1>6

\* The callback of eb_sdb_find_by_identity has gone through a table, and the
\* scan that read it is freed.
LEMMA IdentityKeeps ==
    ASSUME IInv, NEW s \in DOMAIN scans, find.kind = "identity",
           NEW table, NEW mem, Len(table) \in Nat,
           NEW after, after = CbIdentity(St, table, mem), Becomes(FreeScan(after, s)),
           failed' = failed \cup ({after.find.status} \cap {"OOM"}),
           UNCHANGED <<tree, handlers, refused>>
    PROVE  IInv'
<1>1. PICK R, X : /\ Shape(St, R, ScanRecord(X))
                  /\ \A i \in 1 .. Len(table) :
                       /\ table[i] \in R
                       /\ Scan("header", table[i].child, table[i].first) \in ScanRecord(X)
  BY Roomy
<1>2. PICK v : v = [St EXCEPT !.find.pending = @ - 1]
  OBVIOUS
<1>3. Shape(after, R, ScanRecord(X)) /\ Along(v, after)
  BY <1>1, <1>2, CbIdentityFacts
<1>4. /\ v.scans = scans /\ v.items = items /\ v.find.pending = find.pending - 1
      /\ v.find.pc = find.pc /\ v.find.kind = find.kind /\ v.find.size = find.size
      /\ v.find.status = find.status /\ v.find.output = find.output /\ v.find.fill = find.fill
  <2>1. find \in FindRecord(R)
    BY <1>1 DEF Shape, St
  <2>2. v = [find |-> [find EXCEPT !.pending = @ - 1], scans |-> scans, items |-> items]
    BY <1>2 DEF St
  <2> QED
    BY <2>1, <2>2 DEF FindRecord
<1>5. PICK st : st = FreeScan(after, s)
  OBVIOUS
<1>6. s \in DOMAIN after.scans
  BY <1>3, <1>4 DEF Along
<1>7. /\ Shape(st, R, ScanRecord(X)) /\ st.find = after.find
      /\ Count(st) = Count(after) - 1 /\ st.items = after.items - 1
  BY <1>3, <1>5, <1>6, FreeScanFacts
<1>8. /\ find.pc = "run" /\ Count(St) = Cardinality(DOMAIN scans) /\ Count(St) \in Nat
      /\ find.pending = Count(St) /\ Count(v) = Count(St)
  BY <1>4, Running DEF Count
<1>9. items \in Int /\ find.pending \in Int
  BY <1>1, ShapeFacts DEF St
<1>10. after.items \in Int /\ Count(after) \in Nat /\ after.find.pending \in Int
  BY <1>3, ShapeFacts
<1>11. st.items - Count(st) = items - Cardinality(DOMAIN scans)
  <2>1. after.items - Count(after) = items - Count(St)
    BY <1>3, <1>4, <1>8 DEF Along
  <2> QED
    BY <1>7, <1>8, <1>9, <1>10, <2>1
<1>12. Count(st) = st.find.pending
  <2>1. after.find.pending - Count(after) = find.pending - 1 - Count(St)
    BY <1>3, <1>4, <1>8 DEF Along
  <2> QED
    BY <1>7, <1>8, <1>9, <1>10, <2>1
<1>13. st.find.pc = "run" /\ st.find.kind = "identity"
  BY <1>3, <1>4, <1>7, <1>8 DEF Along
<1>14. Len(st.find.output) <= st.find.fill /\ Len(st.find.output) <= st.find.size
  BY <1>3, <1>4, <1>7 DEF Along, IInv, Good, St
<1>15. st.find.status \in {find.status, "OOM"} /\ find.status # "wait"
  BY <1>3, <1>4, <1>7 DEF Along, IInv, Good, St
<1>16. Told(st.find.status, failed') /\ failed' \in SUBSET Errors
  <2>1. Told(find.status, failed)
    BY DEF IInv, Good, St
  <2>2. failed' \in SUBSET Errors
    BY FailedMore
  <2> QED
    BY <1>7, <1>15, <2>1, <2>2 DEF Told
<1>17. Good(st, failed')
  BY <1>12, <1>13, <1>14, <1>15, <1>16 DEF Good
<1> QED
  BY <1>5, <1>7, <1>11, <1>17, StepKeeps

\* The one scan of eb_sdb_find_by_address ends, and the call has its status.
LEMMA AddressEnds ==
    ASSUME IInv, NEW s \in DOMAIN scans, find.kind # "identity",
           NEW R, NEW X, Shape(St, R, ScanRecord(X)), NEW g \in FindRecord(R),
           g.pc = find.pc, g.kind = find.kind, g.size = find.size,
           g.status \in {"OK", "ADDRESS", "OOM"}, Len(g.output) <= 1,
           Becomes(FreeScan(With(St, g), s)), failed' = failed \cup ({g.status} \cap {"OOM"}),
           UNCHANGED <<tree, handlers, refused>>
    PROVE  IInv'
<1>1. PICK a : a = With(St, g)
  OBVIOUS
<1>2. Shape(a, R, ScanRecord(X))
  BY <1>1, WithShape
<1>3. a.find = g /\ a.scans = scans /\ a.items = items /\ Count(a) = Count(St)
  BY <1>1 DEF With, St, Count
<1>4. PICK st : st = FreeScan(a, s)
  OBVIOUS
<1>5. /\ Shape(st, R, ScanRecord(X)) /\ st.find = g
      /\ Count(st) = Count(a) - 1 /\ st.items = a.items - 1
  BY <1>2, <1>3, <1>4, FreeScanFacts
<1>6. find.pc = "run" /\ find.status = "wait" /\ Count(St) = 1 /\ Count(St) = Cardinality(DOMAIN scans)
  BY Running
<1>7. Count(st) = 0 /\ items \in Int /\ st.items = items - 1
  <2>1. items \in Int
    BY ShapeFacts DEF St
  <2> QED
    BY <1>3, <1>5, <1>6, <2>1
<1>8. failed = {} /\ find.size = 1
  BY <1>6 DEF IInv, Good, St, Told, Errors
<1>9. Good(st, failed')
  BY <1>5, <1>6, <1>7, <1>8 DEF Good, Told, Errors
<1>10. st.items - Count(st) = items - Cardinality(DOMAIN scans)
  BY <1>6, <1>7
<1> QED
  BY <1>1, <1>4, <1>5, <1>9, <1>10, StepKeeps

\* The callback of eb_sdb_find_by_address has looked at a table, and the scan
\* that read it is freed.
LEMMA AddressKeeps ==
    ASSUME IInv, NEW s \in DOMAIN scans, find.kind # "identity",
           NEW table, NEW mem, Len(table) \in Nat, DOMAIN table = 1 .. Len(table),
           NEW after, after = CbAddress(St, table, mem), Becomes(FreeScan(after, s)),
           failed' = failed \cup ({after.find.status} \cap {"OOM"}),
           UNCHANGED <<tree, handlers, refused>>
    PROVE  IInv'
<1>1. PICK R, X : /\ Shape(St, R, ScanRecord(X))
                  /\ \A i \in 1 .. Len(table) :
                       /\ table[i] \in R
                       /\ Scan("header", table[i].child, table[i].first) \in ScanRecord(X)
  BY Roomy
<1>2. find \in FindRecord(R) /\ St.find = find
  BY <1>1 DEF Shape, St
<1>3. Len(find.output) <= 1 /\ find.status = "wait" /\ failed = {}
  BY Running DEF IInv, Good, St, Told, Errors
<1>4. ASSUME NEW v \in {"ADDRESS", "OOM"}, after = [St EXCEPT !.find.status = v]
      PROVE  IInv'
  <2>1. PICK g : g = [find EXCEPT !.status = v]
    OBVIOUS
  <2>2. v \in Statuses
    BY DEF Statuses
  <2>3. after = With(St, g) /\ g \in FindRecord(R)
    BY <1>1, <1>2, <1>4, <2>1, <2>2, Updates, SMTT(40)
  <2>4. /\ g.pc = find.pc /\ g.kind = find.kind /\ g.size = find.size /\ g.status = v
        /\ g.output = find.output
    BY <1>2, <2>1 DEF FindRecord
  <2>5. after.find = g
    BY <2>3 DEF With
  <2> QED
    BY <1>1, <1>3, <2>3, <2>4, <2>5, AddressEnds
<1> DEFINE hits == {i \in DOMAIN table : Covers(table[i], St.find.addr)}
<1>5. CASE hits = {}
  <2>1. after = [St EXCEPT !.find.status = "ADDRESS"]
    BY <1>5 DEF CbAddress
  <2> QED
    BY <1>4, <2>1
<1>6. CASE hits # {}
  <2>1. PICK h : h = Least(hits)
    OBVIOUS
  <2>2. h \in 1 .. Len(table)
    <3>1. hits \in SUBSET Nat
      OBVIOUS
    <3>2. Least(hits) \in hits
      BY <1>6, <3>1, LeastIs
    <3> QED
      BY <2>1, <3>2
  <2>3. PICK r \in R : r = table[h]
    BY <1>1, <2>2
  <2>4. after = IF r.type = "device" THEN [St EXCEPT !.find.output = <<r>>, !.find.status = "OK"]
                ELSE IF mem[h] /\ Spare(St) # {} THEN ScanBus(St, r)
                ELSE [St EXCEPT !.find.status = "OOM"]
    BY <1>6, <2>1, <2>3 DEF CbAddress
  <2>5. CASE r.type = "device"
    <3>1. PICK out \in Seq(R) : out = <<r>> /\ Len(out) = 1
      <4>1. <<r>> \in Seq(R) /\ Len(<<r>>) = 1
        OBVIOUS
      <4> QED
        BY <4>1
    <3>2. PICK g : g = [find EXCEPT !.output = out, !.status = "OK"]
      OBVIOUS
    <3>3. g \in FindRecord(R)
      BY <1>2, <3>2 DEF FindRecord, Statuses
    <3>4. /\ g.pc = find.pc /\ g.kind = find.kind /\ g.size = find.size /\ g.status = "OK"
          /\ g.output = out
      BY <1>2, <3>2 DEF FindRecord
    <3>5. after = With(St, g)
      BY <2>4, <2>5, <3>1, <3>2 DEF With, St
    <3>6. after.find = g
      BY <3>5 DEF With
    <3>7. Len(g.output) <= 1 /\ g.status \in {"OK", "ADDRESS", "OOM"}
      BY <3>1, <3>4
    <3>8. failed' = failed \cup ({g.status} \cap {"OOM"}) /\ Becomes(FreeScan(With(St, g), s))
      BY <3>5, <3>6
    <3> QED
      BY <1>1, <3>3, <3>4, <3>7, <3>8, AddressEnds
  <2>6. CASE r.type # "device" /\ mem[h] /\ Spare(St) # {}
    <3>1. after = ScanBus(St, r)
      BY <2>4, <2>6
    <3>2. Shape(after, R, ScanRecord(X)) /\ Grown(St, after)
      BY <1>1, <2>2, <2>3, <2>6, <3>1, NewScanFacts DEF ScanBus
    <3>3. PICK st : st = FreeScan(after, s)
      OBVIOUS
    <3>4. s \in DOMAIN after.scans
      BY <3>2 DEF Grown, St
    <3>5. /\ Shape(st, R, ScanRecord(X)) /\ st.find = find
          /\ Count(st) = Count(after) - 1 /\ st.items = after.items - 1
      BY <1>2, <3>2, <3>3, <3>4, FreeScanFacts DEF Grown
    <3>6. Count(St) = 1 /\ Count(St) = Cardinality(DOMAIN scans) /\ find.pc = "run" /\ items \in Int
      BY <1>1, Running, ShapeFacts
    <3>7. Count(st) = 1 /\ st.items = items
      <4>1. Count(after) = 2 /\ after.items = items + 1
        BY <3>2, <3>6 DEF Grown, St
      <4> QED
        BY <3>5, <3>6, <4>1
    <3>8. failed' = {}
      <4>1. after.find.status = "wait"
        BY <1>2, <1>3, <3>2 DEF Grown
      <4> QED
        BY <1>3, <4>1
    <3>9. Good(st, failed')
      BY <1>2, <1>3, <3>5, <3>6, <3>7, <3>8 DEF Good, IInv, Told
    <3>10. st.items - Count(st) = items - Cardinality(DOMAIN scans)
      BY <3>6, <3>7
    <3> QED
      BY <3>3, <3>5, <3>9, <3>10, StepKeeps
  <2>7. CASE r.type # "device" /\ ~(mem[h] /\ Spare(St) # {})
    <3>1. after = [St EXCEPT !.find.status = "OOM"]
      BY <2>4, <2>7
    <3> QED
      BY <1>4, <3>1
  <2> QED
    BY <2>5, <2>6, <2>7
<1> QED
  BY <1>5, <1>6

\* sdb_got_all: the table has arrived, or there is no room for it.
LEMMA GotAllKeeps ==
    ASSUME IInv, NEW s \in DOMAIN scans, GotAll(s)
    PROVE  IInv'
<1>0. "FAIL" \in Statuses \ {"wait", "OK"} /\ "OOM" \in Statuses \ {"wait", "OK"}
  BY DEF Statuses
<1>1. CASE Abandon(s, "FAIL") /\ UNCHANGED failed
  BY <1>0, <1>1, FailedMore, AbandonKeeps DEF GotAll
<1>2. CASE Abandon(s, "OOM") /\ UNCHANGED failed
  BY <1>0, <1>2, FailedMore, AbandonKeeps DEF GotAll
<1>3. CASE \E table \in Tables(scans[s]) : \E mem \in Memory(table) :
             LET after == Cb(St, table, mem) IN
             /\ Becomes(FreeScan(after, s))
             /\ failed' = failed \cup ({after.find.status} \cap {"OOM"})
  <2>0. PICK table \in Tables(scans[s]) : \E mem \in Memory(table) :
          /\ Becomes(FreeScan(Cb(St, table, mem), s))
          /\ failed' = failed \cup ({Cb(St, table, mem).find.status} \cap {"OOM"})
    BY <1>3
  <2>1. PICK mem, after :
          /\ after = Cb(St, table, mem)
          /\ Becomes(FreeScan(after, s))
          /\ failed' = failed \cup ({after.find.status} \cap {"OOM"})
    BY <2>0
  <2>2. scans[s].reply[1] \in Nat \ {0}
    <3>1. PICK R, X : scans \in [DOMAIN scans -> ScanRecord(X)]
      BY Present0
    <3>2. Served(scans[s])
      BY <3>1 DEF ScanRecord
    <3> QED
      BY <3>2 DEF Served, GotAll
  <2>3. Len(table) \in Nat /\ DOMAIN table = 1 .. Len(table)
    BY <2>2, TableFacts
  <2>4. St.find = find
    BY DEF St
  <2>5. UNCHANGED <<tree, handlers, refused>>
    BY DEF GotAll
  <2>6. CASE find.kind = "identity"
    BY <2>1, <2>3, <2>4, <2>5, <2>6, IdentityKeeps DEF Cb
  <2>7. CASE find.kind # "identity"
    BY <2>1, <2>3, <2>4, <2>5, <2>7, AddressKeeps DEF Cb
  <2> QED
    BY <2>6, <2>7
<1> QED
  BY <1>1, <1>2, <1>3 DEF GotAll

-----------------------------------------------------------------------------
(* The devices of the remote. *)

\* A change of the list of devices that keeps the items balanced.
LEMMA DevicesKeep ==
    ASSUME IInv, handlers' \in Seq(Devices), refused' \in Nat,
           items' - 2 * Len(handlers') - 2 * refused' = items - 2 * Len(handlers) - 2 * refused,
           items' \in Int, UNCHANGED <<tree, find, scans, failed>>
    PROVE  IInv'
<1>1. PICK R, X : Shape(St, R, ScanRecord(X)) /\ scans \in ScanFcns(ScanRecord(X))
  BY DEF IInv, Typed, Shape, St
<1>2. Typed'
  <2>1. PICK Q : Q = ScanRecord(X)
    OBVIOUS
  <2>2. \A c : Served(c)' <=> Served(c)
    BY DEF Served, HasTable
  <2>3. ScanRecord(X)' = Q
    BY <2>1, <2>2 DEF ScanRecord, ScanValues
  <2>4. Shape([find |-> find, scans |-> scans, items |-> items'], R, Q)
    <3>1. find \in FindRecord(R) /\ scans \in ScanFcns(Q)
      BY <1>1, <2>1 DEF Shape, St
    <3> QED
      BY <3>1 DEF Shape
  <2>5. Shape(St', R, Q)
    BY <2>4 DEF St
  <2>6. Shape(St, R, ScanRecord(X))'
    BY <2>3, <2>5, SMTT(40) DEF Shape, ScanFcns, FindRecord
  <2> QED
    BY <2>6 DEF Typed
<1>3. Good(St, failed)'
  BY DEF IInv, Good, St, Count
<1>4. ItemsExact'
  <2>1. PICK n \in Nat : n = Cardinality(DOMAIN scans)
    BY <1>1, ScansFinite
  <2>2. PICK k \in Nat : k = Len(handlers)
    BY DEF IInv
  <2>3. PICK m \in Nat : m = Len(handlers')
    OBVIOUS
  <2>4. items = n + 2 * k + 2 * refused /\ refused \in Nat
    BY <2>1, <2>2 DEF IInv, ItemsExact
  <2>5. items' = n + 2 * m + 2 * refused'
    <3>1. PICK i1 \in Int, r1 \in Nat, r0 \in Nat, i0 \in {items} :
            i1 = items' /\ r1 = refused' /\ r0 = refused /\ i0 = items
      BY <2>4
    <3>2. i0 = n + 2 * k + 2 * r0
      BY <2>4, <3>1
    <3>3. i1 - 2 * m - 2 * r1 = i0 - 2 * k - 2 * r0
      BY <2>2, <2>3, <3>1
    <3>4. i1 = n + 2 * m + 2 * r1
      BY <3>2, <3>3
    <3> QED
      BY <3>1, <3>4
  <2> QED
    BY <2>1, <2>3, <2>5 DEF ItemsExact
<1> QED
  BY <1>2, <1>3, <1>4 DEF IInv

\* The scans can be counted.
LEMMA ScansNat == ASSUME IInv PROVE Cardinality(DOMAIN scans) \in Nat
<1>1. PICK R, X : Shape(St, R, ScanRecord(X)) /\ scans \in ScanFcns(ScanRecord(X))
  BY DEF IInv, Typed, Shape, St
<1> QED
  BY <1>1, ScansFinite

\* eb_socket_attach takes two items, whether it links the device or refuses it.
LEMMA AttachKeeps ==
    ASSUME IInv, NEW d \in Devices, Attach(d)
    PROVE  IInv'
<1>1. PICK hs \in Seq(Devices), k \in Nat, r \in Nat, n \in Nat :
        hs = handlers /\ k = Len(hs) /\ r = refused /\ n = items
  <2>1. PICK hs \in Seq(Devices) : hs = handlers
    BY DEF IInv
  <2>2. Len(hs) \in Nat /\ refused \in Nat
    BY DEF IInv
  <2>3. items \in Nat
    BY <2>1, <2>2, ScansNat DEF IInv, ItemsExact
  <2> QED
    BY <2>1, <2>2, <2>3
<1>2. CASE d.first < Reserved
  <2>1. items' = n + 2 /\ refused' = r + 1 /\ handlers' = hs
    BY <1>1, <1>2 DEF Attach
  <2>2. (n + 2) - 2 * k - 2 * (r + 1) = n - 2 * k - 2 * r
    OBVIOUS
  <2> QED
    BY <1>1, <2>1, <2>2, DevicesKeep DEF Attach
<1>3. CASE ~(d.first < Reserved)
  <2>1. items' = n + 2 /\ refused' = r /\ handlers' = <<d>> \o hs
    BY <1>1, <1>3 DEF Attach
  <2>2. <<d>> \o hs \in Seq(Devices) /\ Len(<<d>> \o hs) = k + 1
    BY <1>1
  <2>3. (n + 2) - 2 * (k + 1) - 2 * r = n - 2 * k - 2 * r
    OBVIOUS
  <2> QED
    BY <1>1, <2>1, <2>2, <2>3, DevicesKeep DEF Attach
<1> QED
  BY <1>2, <1>3

\* eb_socket_detach unlinks one device and gives its two items back.
LEMMA DetachKeeps ==
    ASSUME IInv, NEW d \in Devices, Detach(d)
    PROVE  IInv'
<1>1. PICK hs \in Seq(Devices), k \in Nat, r \in Nat, n \in Nat :
        hs = handlers /\ k = Len(hs) /\ r = refused /\ n = items
  <2>1. PICK hs \in Seq(Devices) : hs = handlers
    BY DEF IInv
  <2>2. Len(hs) \in Nat /\ refused \in Nat
    BY DEF IInv
  <2>3. items \in Nat
    BY <2>1, <2>2, ScansNat DEF IInv, ItemsExact
  <2> QED
    BY <2>1, <2>2, <2>3
<1>2. PICK i \in 1 .. k : i = Least({j \in DOMAIN handlers : handlers[j] = d})
  <2> DEFINE S == {j \in DOMAIN handlers : handlers[j] = d}
  <2>1. S # {} /\ S \in SUBSET Nat /\ S \subseteq 1 .. k
    BY <1>1 DEF Detach, Contains
  <2>2. Least(S) \in S
    BY <2>1, LeastIs
  <2> QED
    BY <2>1, <2>2
<1>3. handlers' = RemoveAt(hs, i) /\ items' = n - 2 /\ refused' = r
  BY <1>1, <1>2 DEF Detach
<1>4. RemoveAt(hs, i) \in Seq(Devices) /\ Len(RemoveAt(hs, i)) = k - 1
  <2>1. PICK a \in Seq(Devices) : a = SubSeq(hs, 1, i - 1) /\ Len(a) = i - 1
    <3>1. SubSeq(hs, 1, i - 1) \in Seq(Devices)
      BY <1>1
    <3>2. Len(SubSeq(hs, 1, i - 1)) = i - 1
      BY <1>1
    <3> QED
      BY <3>1, <3>2
  <2>2. PICK b \in Seq(Devices) : b = SubSeq(hs, i + 1, k) /\ Len(b) = k - i
    <3>1. SubSeq(hs, i + 1, k) \in Seq(Devices)
      BY <1>1
    <3>2. Len(SubSeq(hs, i + 1, k)) = k - i
      BY <1>1
    <3> QED
      BY <3>1, <3>2
  <2>3. a \o b \in Seq(Devices) /\ Len(a \o b) = k - 1
    BY <2>1, <2>2
  <2>4. RemoveAt(hs, i) = a \o b
    BY <1>1, <2>1, <2>2 DEF RemoveAt
  <2> QED
    BY <2>3, <2>4
<1>5. (n - 2) - 2 * (k - 1) - 2 * r = n - 2 * k - 2 * r
  OBVIOUS
<1> QED
  BY <1>1, <1>3, <1>4, <1>5, DevicesKeep DEF Detach

-----------------------------------------------------------------------------
(* The theorems. *)

\* Nothing changes.
LEMMA StutterIInv == IInv /\ UNCHANGED <<tree, handlers, find, scans, items, refused, failed>> => IInv'
<1> SUFFICES ASSUME IInv, UNCHANGED <<tree, handlers, find, scans, items, refused, failed>> PROVE IInv'
  OBVIOUS
<1>1. items \in Nat /\ handlers \in Seq(Devices) /\ refused \in Nat
  <2>1. handlers \in Seq(Devices) /\ refused \in Nat /\ Len(handlers) \in Nat
    BY DEF IInv
  <2> QED
    BY <2>1, ScansNat DEF IInv, ItemsExact
<1> QED
  BY <1>1, DevicesKeep

\* Every step keeps the invariant.
LEMMA NextIInv == IInv /\ [Next]_vars => IInv'
<1> SUFFICES ASSUME IInv, [Next]_vars PROVE IInv'
  OBVIOUS
<1>1. CASE Start
  BY <1>1, StartKeeps
<1>2. CASE Return
  BY <1>2, ReturnKeeps
<1>3. ASSUME NEW s \in DOMAIN scans, Serve(s) PROVE IInv'
  BY <1>3, ServeKeeps
<1>4. ASSUME NEW s \in DOMAIN scans, CalledBack(s) PROVE IInv'
  BY <1>4, HeadersKeep, GotAllKeeps DEF CalledBack
<1>5. ASSUME NEW d \in Devices, Attach(d) PROVE IInv'
  BY <1>5, AttachKeeps
<1>6. ASSUME NEW d \in Devices, Detach(d) PROVE IInv'
  BY <1>6, DetachKeeps
<1>7. CASE LinkBreak \/ UNCHANGED vars
  BY <1>7, StutterIInv DEF LinkBreak, vars
<1> QED
  BY <1>1, <1>2, <1>3, <1>4, <1>5, <1>6, <1>7 DEF Next

\* The inductive invariant holds in every reachable state.
LEMMA Inductive == Spec => []IInv
BY InitIInv, NextIInv, PTL DEF Spec

\* A link is there or gone.
LEMMA GoneBoolean == Spec => [](gone \in BOOLEAN)
<1>1. Init => gone \in BOOLEAN
  BY DEF Init
<1>2. gone \in BOOLEAN /\ [Next]_vars => (gone \in BOOLEAN)'
  <2> SUFFICES ASSUME gone \in BOOLEAN, [Next]_vars PROVE gone' \in BOOLEAN
    OBVIOUS
  <2>1. CASE Start \/ Return \/ LinkBreak \/ UNCHANGED vars
    BY <2>1 DEF Start, Return, LinkBreak, vars
  <2>2. ASSUME NEW s \in DOMAIN scans, Serve(s) \/ CalledBack(s) PROVE gone' \in BOOLEAN
    BY <2>2, Zenon DEF Serve, CalledBack, CycleFails, GotHeaderPtr, GotHeader, GotAll, NextCycle
  <2>3. ASSUME NEW d \in Devices, Attach(d) \/ Detach(d) PROVE gone' \in BOOLEAN
    BY <2>3 DEF Attach, Detach
  <2> QED
    BY <2>1, <2>2, <2>3 DEF Next
<1> QED
  BY <1>1, <1>2, PTL DEF Spec

\* The variables of a scan and of its call keep their types, and the output of
\* eb_sdb_find_by_identity is never written beyond its size.
THEOREM TypesHold == Spec => []TypeOK
<1>1. IInv /\ gone \in BOOLEAN => TypeOK
  BY IInvImplies
<1> QED
  BY <1>1, Inductive, GoneBoolean, PTL

\* While a call runs, "pending" is the number of its scans (or its one scan is
\* under way as long as it has no status), and no scan is left otherwise.
THEOREM ScanInvariant == Spec => []ScanInv
<1>1. IInv => ScanInv
  BY IInvImplies
<1> QED
  BY <1>1, Inductive, PTL

\* The items in use are the scans and, twice, the devices and the refusals of
\* eb_socket_attach: none is lost or freed twice, in whatever order cycles are
\* answered, fail or run out of memory.
THEOREM ItemsExactHolds == Spec => []ItemsExact
<1>1. IInv => ItemsExact
  BY DEF IInv
<1> QED
  BY <1>1, Inductive, PTL

\* When eb_sdb_find_by_identity or eb_sdb_find_by_address returns, no scan is
\* left whose callback would write to the record on its stack.
THEOREM NoStaleRecordHolds == Spec => []NoStaleRecord
<1>1. IInv => NoStaleRecord
  BY IInvImplies
<1> QED
  BY <1>1, Inductive, PTL

\* A call one of whose cycles failed, or that ran out of memory, returns the
\* error of one that failed or of a table that can not be read: not EB_OK, and
\* EB_ADDRESS only if a cycle failed with it.
THEOREM FailureReportedHolds == Spec => []FailureReported
<1>1. IInv => FailureReported
  BY IInvImplies
<1> QED
  BY <1>1, Inductive, PTL

-----------------------------------------------------------------------------
(* The buses that can be reached. *)

\* Records that are made absolute are records, and keep their type and identity.
LEMMA DecodedFacts ==
    ASSUME NEW r \in SdbRecord, NEW base \in Nat
    PROVE  /\ Decoded(r, base) \in SdbRecord /\ Decoded(r, base).type = r.type
           /\ Decoded(r, base).id = r.id
           /\ r.type = "bridge" => Decoded(r, base).child = r.child + base
           /\ Ranged(r) => /\ Decoded(r, base).first = r.first + base
                           /\ Decoded(r, base).last = r.last + base
<1>1. r.first + base \in Nat /\ r.last + base \in Nat /\ r.child + base \in Nat
  BY DEF SdbRecord
<1>2. CASE r.type = "device"
  <2>1. Decoded(r, base) = [r EXCEPT !.first = @ + base, !.last = @ + base]
    BY <1>2 DEF Decoded
  <2> QED
    BY <1>1, <1>2, <2>1 DEF SdbRecord, Ranged
<1>3. CASE r.type = "bridge"
  <2>1. Decoded(r, base) = [r EXCEPT !.first = @ + base, !.last = @ + base, !.child = @ + base]
    BY <1>3 DEF Decoded
  <2> QED
    BY <1>1, <1>3, <2>1 DEF SdbRecord, Ranged
<1>4. CASE r.type # "device" /\ r.type # "bridge"
  <2>1. Decoded(r, base) = r
    BY <1>4 DEF Decoded
  <2> QED
    BY <1>4, <2>1 DEF Ranged
<1> QED
  BY <1>2, <1>3, <1>4

\* What is behind a bus is a bus.
LEMMA BehindTyped ==
    ASSUME NEW t \in Trees, NEW b \in Nat \X Nat
    PROVE  Behind(t, b) \subseteq Nat \X Nat
<1>1. ASSUME NEW r \in BridgesAt(t, b[1])
      PROVE  r \in SdbRecord
  <2>1. b[1] \in DOMAIN t.tables /\ r \in Range(t.tables[b[1]])
    BY <1>1 DEF BridgesAt
  <2>2. PICK s \in Seq(SdbRecord) : s = t.tables[b[1]]
    BY <2>1, ScanAssumption
  <2> QED
    BY <2>1, <2>2 DEF Range
<1>2. \A r \in SdbRecord : <<r.child + b[2], r.first + b[2]>> \in Nat \X Nat
  BY DEF SdbRecord
<1> QED
  BY <1>1, <1>2 DEF Behind

\* The levels of the hierarchy, from the root on.
Levels(f, t) ==
  /\ f[0] = {Root(t)}
  /\ \A i \in 1 .. Nesting : f[i] = f[i - 1] \cup UNION {Behind(t, b) : b \in f[i - 1]}

\* The recursion over the levels defines a function.
LEMMA LevelsAre ==
    ASSUME NEW t \in Trees
    PROVE  \E f \in [0 .. Nesting -> SUBSET (Nat \X Nat)] : Levels(f, t) /\ Reached(t) = f[Nesting]
<1> DEFINE V == SUBSET (Nat \X Nat)
           G(x) == x \cup UNION {Behind(t, b) : b \in x}
           h == [i \in 1 .. Nesting |-> [x \in V |-> G(x)]]
           v0 == {Root(t)}
           B(f, i) == IF i = 0 THEN v0 ELSE G(f[i - 1])
           Is(f) == f = [i \in 0 .. Nesting |-> B(f, i)]
<1>1. Nesting \in Nat /\ v0 \in V
  BY ScanAssumption DEF Root
<1>2. \A x \in V : G(x) \in V
  BY BehindTyped
<1>3. h \in [1 .. Nesting -> [V -> V]]
  BY <1>2
<1>4. \A i \in 1 .. Nesting, x \in V : h[i][x] = G(x)
  OBVIOUS
<1>5. Reached(t) = (CHOOSE f : Is(f))[Nesting]
  BY Zenon DEF Reached
<1> HIDE DEF h, V, v0
<1>6. PICK f \in [0 .. Nesting -> V] : f[0] = v0 /\ \A i \in 1 .. Nesting : f[i] = h[i][f[i - 1]]
  <2>1. HasRun(V, v0, Nesting, h)
    BY <1>1, <1>3, RunExists
  <2> QED
    BY <2>1, Zenon DEF HasRun
<1>7. \A i \in 1 .. Nesting : f[i] = G(f[i - 1])
  <2> TAKE i \in 1 .. Nesting
  <2>1. i - 1 \in 0 .. Nesting
    BY <1>1
  <2> QED
    BY <1>4, <1>6, <2>1
<1> HIDE DEF G
<1>8. Is(f)
  <2>1. \A i \in 0 .. Nesting : f[i] = B(f, i)
    <3> TAKE i \in 0 .. Nesting
    <3>1. i = 0 \/ i \in 1 .. Nesting
      BY <1>1
    <3> QED
      BY <1>6, <1>7, <3>1
  <2>2. f = [i \in 0 .. Nesting |-> f[i]]
    OBVIOUS
  <2> HIDE DEF B
  <2> QED
    BY <2>1, <2>2
<1>9. ASSUME NEW g, Is(g) PROVE g[Nesting] = f[Nesting]
  <2>1. \A i \in 0 .. Nesting : g[i] = B(g, i)
    <3> HIDE DEF B
    <3> QED
      BY <1>9, Zenon
  <2> DEFINE S == {i \in 0 .. Nesting : g[i] = f[i]}
  <2>2. 0 \in S
    <3>1. 0 \in 0 .. Nesting
      BY <1>1
    <3> QED
      BY <1>6, <2>1, <3>1
  <2>3. ASSUME NEW i \in 1 .. Nesting, i - 1 \in S PROVE i \in S
    <3>1. i \in 0 .. Nesting /\ i # 0
      BY <1>1
    <3> QED
      BY <1>7, <2>1, <2>3, <3>1
  <2> HIDE DEF S
  <2>4. 0 .. Nesting \subseteq S
    BY <1>1, <2>2, <2>3, IntervalInd
  <2>5. Nesting \in S
    BY <1>1, <2>4
  <2> QED
    BY <2>5 DEF S
<1> HIDE DEF Is
<1>10. Is(CHOOSE g : Is(g))
  BY <1>8, Zenon
<1>11. Reached(t) = f[Nesting]
  BY <1>5, <1>9, <1>10
<1>12. Levels(f, t)
  BY <1>6, <1>7, Zenon DEF Levels, G, v0
<1> QED
  BY <1>11, <1>12 DEF V

\* The buses are the least set with the root that has, with a bus, what is
\* behind it.
LEMMA ReachedFacts ==
    ASSUME NEW t \in Trees
    PROVE  /\ Root(t) \in Reached(t) /\ Reached(t) \subseteq Nat \X Nat
           /\ \A b \in Reached(t) : Behind(t, b) \subseteq Reached(t)
           /\ \A S : Root(t) \in S /\ (\A b \in Reached(t) : b \in S => Behind(t, b) \subseteq S)
                       => Reached(t) \subseteq S
<1>1. PICK f \in [0 .. Nesting -> SUBSET (Nat \X Nat)] : Levels(f, t) /\ Reached(t) = f[Nesting]
  BY LevelsAre
<1>2. Nesting \in Nat
  BY ScanAssumption
<1>3. \A i \in 1 .. Nesting : f[i] = f[i - 1] \cup UNION {Behind(t, b) : b \in f[i - 1]}
  BY <1>1 DEF Levels
<1> DEFINE T == {i \in 0 .. Nesting : Root(t) \in f[i]}
<1>4. 0 .. Nesting \subseteq T
  <2>1. 0 \in T
    BY <1>1, <1>2 DEF Levels
  <2>2. ASSUME NEW i \in 1 .. Nesting, i - 1 \in T PROVE i \in T
    BY <1>2, <1>3, <2>2
  <2> HIDE DEF T
  <2> QED
    BY <1>2, <2>1, <2>2, IntervalInd
<1>5. Root(t) \in Reached(t)
  <2>1. Nesting \in T
    BY <1>2, <1>4
  <2> QED
    BY <1>1, <2>1
<1>6. Reached(t) \subseteq Nat \X Nat
  BY <1>1, <1>2
<1> DEFINE U == {i \in 0 .. Nesting : f[i] \subseteq Reached(t)}
<1>7. 0 .. Nesting \subseteq U
  <2>1. 0 \in U
    BY <1>1, <1>2, <1>5 DEF Levels
  <2>2. ASSUME NEW i \in 1 .. Nesting, i - 1 \in U PROVE i \in U
    <3>1. i \in 0 .. Nesting /\ f[i - 1] \subseteq Reached(t)
      BY <1>2, <2>2
    <3>2. \A b \in f[i - 1] : Behind(t, b) \subseteq Reached(t)
      BY <3>1, NestingAssumption
    <3> QED
      BY <1>3, <3>1, <3>2
  <2> HIDE DEF U
  <2> QED
    BY <1>2, <2>1, <2>2, IntervalInd
<1>8. ASSUME NEW S, Root(t) \in S, \A b \in Reached(t) : b \in S => Behind(t, b) \subseteq S
      PROVE  Reached(t) \subseteq S
  <2> DEFINE W == {i \in 0 .. Nesting : f[i] \subseteq S}
  <2>1. 0 \in W
    BY <1>1, <1>2, <1>8 DEF Levels
  <2>2. ASSUME NEW i \in 1 .. Nesting, i - 1 \in W PROVE i \in W
    <3>1. i \in 0 .. Nesting /\ i - 1 \in 0 .. Nesting /\ f[i - 1] \subseteq S
      BY <1>2, <2>2
    <3>2. f[i - 1] \subseteq Reached(t)
      BY <1>7, <3>1
    <3>3. \A b \in f[i - 1] : Behind(t, b) \subseteq S
      BY <1>8, <3>1, <3>2
    <3> QED
      BY <1>3, <3>1, <3>3
  <2> HIDE DEF W
  <2>3. 0 .. Nesting \subseteq W
    BY <1>2, <2>1, <2>2, IntervalInd
  <2>4. Nesting \in W
    BY <1>2, <2>3
  <2> QED
    BY <1>1, <2>4 DEF W
<1> QED
  BY <1>5, <1>6, <1>8, NestingAssumption

-----------------------------------------------------------------------------
(* The tables of the buses. *)

\* The table of a bus is a list of records.
LEMMA TablesTyped ==
    ASSUME IInv, NEW a, HasTable(a)
    PROVE  Table(a) \in Seq(SdbRecord) /\ Len(Table(a)) \in Nat /\ DOMAIN Table(a) = 1 .. Len(Table(a))
<1>1. Table(a) \in Seq(SdbRecord)
  <2>1. tree \in Trees /\ handlers \in Seq(Devices)
    BY DEF IInv
  <2>2. \A i \in DOMAIN handlers : handlers[i] \in SdbRecord
    BY <2>1, ScanAssumption
  <2>3. handlers \in Seq(SdbRecord)
    BY <2>1, <2>2
  <2> QED
    BY <2>1, <2>3, ScanAssumption DEF HasTable, Table
<1>2. PICK s \in Seq(SdbRecord) : s = Table(a)
  BY <1>1
<1> QED
  BY <1>2

\* A record of a bus, with absolute addresses.
LEMMA DecFacts ==
    ASSUME IInv, NEW b \in Buses, HasTable(b[1]), NEW i \in DOMAIN Table(b[1])
    PROVE  /\ Dec(b, i) \in SdbRecord /\ Table(b[1])[i] \in SdbRecord
           /\ Dec(b, i).type = Table(b[1])[i].type /\ Dec(b, i).id = Table(b[1])[i].id
           /\ Dec(b, i).type = "bridge" => Target(Dec(b, i)) = <<Table(b[1])[i].child + b[2], Table(b[1])[i].first + b[2]>>
<1>1. PICK s \in Seq(SdbRecord) : s = Table(b[1])
  BY TablesTyped
<1>2. PICK r \in SdbRecord : r = Table(b[1])[i]
  BY <1>1
<1>3. tree \in Trees
  BY DEF IInv
<1>4. b[2] \in Nat
  BY <1>3, ReachedFacts DEF Buses
<1>5. PICK base \in Nat : base = b[2]
  BY <1>4
<1>6. PICK d : d = Decoded(r, base) /\ d = Dec(b, i)
  BY <1>2, <1>5 DEF Dec
<1>7. /\ d \in SdbRecord /\ d.type = r.type /\ d.id = r.id
      /\ r.type = "bridge" => d.child = r.child + base /\ d.first = r.first + base
  <2>1. r.type = "bridge" => Ranged(r)
    BY DEF Ranged
  <2>2. /\ Decoded(r, base) \in SdbRecord /\ Decoded(r, base).type = r.type
        /\ Decoded(r, base).id = r.id
        /\ r.type = "bridge" => Decoded(r, base).child = r.child + base
        /\ Ranged(r) => Decoded(r, base).first = r.first + base
    BY DecodedFacts, Zenon
  <2> QED
    BY <1>6, <2>1, <2>2, Zenon
<1>8. d.type = "bridge" => Target(d) = <<r.child + base, r.first + base>>
  BY <1>7 DEF Target
<1> QED
  BY <1>2, <1>5, <1>6, <1>7, <1>8

\* The only bus of this library is that of its devices.
LEMMA SoftBus ==
    ASSUME IInv, tree.soft
    PROVE  Buses = {<<0, 0>>}
<1>1. tree \in Trees /\ tree.root = 0
  BY ScanAssumption DEF IInv
<1>2. Root(tree) = <<0, 0>>
  BY <1>1 DEF Root
<1>3. Behind(tree, <<0, 0>>) = {}
  BY DEF Behind, BridgesAt
<1>4. Root(tree) \in Buses /\ Buses \subseteq {<<0, 0>>}
  BY <1>1, <1>2, <1>3, ReachedFacts DEF Buses
<1> QED
  BY <1>2, <1>4

\* What is behind a bus are the targets of its bridges.
LEMMA BehindIs ==
    ASSUME IInv, NEW b \in Buses, HasTable(b[1])
    PROVE  \A c : c \in Behind(tree, b) <=>
                    \E i \in DOMAIN Table(b[1]) : Dec(b, i).type = "bridge" /\ c = Target(Dec(b, i))
<1>1. PICK s \in Seq(SdbRecord) : s = Table(b[1])
  BY TablesTyped
<1>2. ASSUME tree.soft, b[1] = 0
      PROVE  BridgesAt(tree, b[1]) = {} /\ \A i \in DOMAIN s : s[i].type # "bridge"
  <2>1. handlers \in Seq(Devices) /\ s = handlers
    BY <1>1, <1>2 DEF IInv, Table
  <2>2. \A i \in DOMAIN s : s[i] \in Devices
    BY <2>1
  <2> QED
    BY <1>2, <2>2, ScanAssumption DEF BridgesAt
<1>3. ASSUME ~(tree.soft /\ b[1] = 0)
      PROVE  BridgesAt(tree, b[1]) = {x \in Range(s) : x.type = "bridge"}
  <2>1. b[1] \in DOMAIN tree.tables /\ s = tree.tables[b[1]]
    BY <1>1, <1>3 DEF HasTable, Table
  <2> QED
    BY <1>3, <2>1 DEF BridgesAt
<1>4. \A r : r \in BridgesAt(tree, b[1]) <=> \E i \in DOMAIN s : r = s[i] /\ s[i].type = "bridge"
  BY <1>2, <1>3 DEF Range
<1>5. \A i \in DOMAIN s : /\ Dec(b, i).type = s[i].type
                          /\ s[i].type = "bridge" => Target(Dec(b, i)) = <<s[i].child + b[2], s[i].first + b[2]>>
  BY <1>1, DecFacts
<1>6. \A c : c \in Behind(tree, b) <=>
               \E r \in BridgesAt(tree, b[1]) : c = <<r.child + b[2], r.first + b[2]>>
  BY Zenon DEF Behind
<1>7. ASSUME NEW c, c \in Behind(tree, b)
      PROVE  \E i \in DOMAIN s : Dec(b, i).type = "bridge" /\ c = Target(Dec(b, i))
  <2>1. PICK r \in BridgesAt(tree, b[1]) : c = <<r.child + b[2], r.first + b[2]>>
    BY <1>6, <1>7
  <2>2. PICK i \in DOMAIN s : r = s[i] /\ s[i].type = "bridge"
    BY <1>4
  <2>3. Dec(b, i).type = "bridge" /\ c = Target(Dec(b, i))
    BY <1>5, <2>1, <2>2
  <2> QED
    BY <2>3
<1>8. ASSUME NEW i \in DOMAIN s, Dec(b, i).type = "bridge"
      PROVE  Target(Dec(b, i)) \in Behind(tree, b)
  <2>1. s[i] \in BridgesAt(tree, b[1]) /\ Target(Dec(b, i)) = <<s[i].child + b[2], s[i].first + b[2]>>
    BY <1>4, <1>5, <1>8
  <2> QED
    BY <1>6, <2>1
<1> QED
  BY <1>1, <1>7, <1>8

\* The tables of the present buses fit together: those of a remote bus as they are
\* proper, the devices of this library because eb_socket_attach keeps them apart.
LEMMA Sound ==
    ASSUME IInv, HandlersApart, ProperBuses, NEW b \in Buses, HasTable(b[1]), NEW c \in Buses, HasTable(c[1]),
           NEW i \in DOMAIN Table(b[1]), NEW j \in DOMAIN Table(c[1])
    PROVE  Fitting(Root(tree), b, i, Dec(b, i), c, j, Dec(c, j))
<1>1. tree \in Trees /\ handlers \in Seq(Devices) /\ tree.soft \in BOOLEAN
  BY ScanAssumption DEF IInv
<1>2. CASE ~tree.soft
  <2>1. Proper(tree)
    BY <1>1, <1>2 DEF ProperBuses
  <2>2. /\ b[1] \in DOMAIN tree.tables /\ Table(b[1]) = tree.tables[b[1]]
        /\ c[1] \in DOMAIN tree.tables /\ Table(c[1]) = tree.tables[c[1]]
    BY <1>2 DEF HasTable, Table
  <2> HIDE DEF Fitting
  <2> QED
    BY <2>1, <2>2, Zenon DEF Proper, Dec, Buses
<1>3. CASE tree.soft
  <2>1. b = <<0, 0>> /\ c = <<0, 0>>
    BY <1>3, SoftBus
  <2>2. b[1] = 0 /\ c[1] = 0 /\ b[2] = 0 /\ c[2] = 0 /\ b = c
    BY <2>1
  <2>3. Table(b[1]) = handlers /\ Table(c[1]) = handlers
    BY <1>3, <2>2 DEF Table
  <2>4. PICK x \in SdbRecord, y \in SdbRecord : x = handlers[i] /\ y = handlers[j] /\ x \in Devices /\ y \in Devices
    <3>1. handlers[i] \in Devices /\ handlers[j] \in Devices
      BY <1>1, <2>3
    <3> QED
      BY <3>1, ScanAssumption
  <2>5. x.type = "device" /\ y.type = "device" /\ x.first <= x.last /\ y.first <= y.last
    BY <2>4, ScanAssumption DEF ProperBuses
  <2>6. PICK u \in SdbRecord, v \in SdbRecord : u = Dec(b, i) /\ v = Dec(c, j)
    BY DecFacts
  <2>7. /\ u.type = "device" /\ v.type = "device" /\ u.first = x.first /\ u.last = x.last
        /\ v.first = y.first /\ v.last = y.last
    <3>1. u = Decoded(x, 0) /\ v = Decoded(y, 0)
      BY <2>2, <2>3, <2>4, <2>6 DEF Dec
    <3>2. x.first + 0 = x.first /\ x.last + 0 = x.last /\ y.first + 0 = y.first /\ y.last + 0 = y.last
      BY DEF SdbRecord
    <3> QED
      BY <2>5, <3>1, <3>2, DecodedFacts DEF Ranged
  <2>8. <<b, i>> # <<c, j>> => u.last < v.first \/ v.last < u.first
    BY <2>2, <2>3, <2>4, <2>7 DEF HandlersApart
  <2>9. u = v => ~(u.last < v.first \/ v.last < u.first)
    BY <2>5, <2>7 DEF SdbRecord
  <2>10. Fitting(Root(tree), b, i, u, c, j, v)
    BY <2>7, <2>8, <2>9 DEF Fitting
  <2> QED
    BY <2>6, <2>10
<1> QED
  BY <1>1, <1>2, <1>3

-----------------------------------------------------------------------------
(* SearchInv, for the values a step gives to the variables. *)

Searched(st, fl, ch) ==
  /\ ch \in Nat
  /\ st.find.kind # "identity" => st.find.addr \in Nat
  /\ st.find.pc = "idle" => st.find.fill = 0
  /\ st.find.pc = "done" => st.find.status # "wait"
  /\ ch = 0 /\ st.find.pc # "idle" => Reading(st, fl)
  /\ ch = 0 /\ fl = {} /\ st.find.pc # "idle" /\ ProperBuses => Finding(st)

\* The invariant is HandlersApart and Searched.
LEMMA SearchInvIs == SearchInv <=> HandlersApart /\ Searched(St, failed, changes)
BY DEF SearchInv, Searched, St

\* What is on the buses depends on the remote only.
LEMMA SameRemote ==
    ASSUME UNCHANGED <<tree, handlers>>
    PROVE  /\ \A a : (HasTable(a)' <=> HasTable(a)) /\ Table(a)' = Table(a)
           /\ Buses' = Buses /\ Unreadable' = Unreadable /\ Present' = Present
           /\ \A c : (GoodScan(c)' <=> GoodScan(c)) /\ Lies(c)' = Lies(c)
           /\ \A b, i : Dec(b, i)' = Dec(b, i)
           /\ Root(tree)' = Root(tree) /\ \A b : Behind(tree, b)' = Behind(tree, b)
<1>1. \A a : (HasTable(a)' <=> HasTable(a)) /\ Table(a)' = Table(a)
  BY DEF HasTable, Table
<1>2. Buses' = Buses
  BY DEF Buses
<1>3. \A c : Lies(c)' = Lies(c)
  BY DEF Lies
<1>4. \A a : Header(a)' = Header(a)
  BY <1>1 DEF Header
<1>5. \A c : GoodScan(c)' <=> GoodScan(c)
  BY <1>1, <1>2, <1>3, <1>4 DEF GoodScan
<1>6. Unreadable' = Unreadable
  BY <1>1, <1>2 DEF Unreadable
<1>7. Present' = Present
  BY <1>1, <1>2 DEF Present
<1>8. \A b, i : Dec(b, i)' = Dec(b, i)
  BY <1>1 DEF Dec
<1> QED
  BY <1>1, <1>2, <1>3, <1>5, <1>6, <1>7, <1>8

\* What is said of a call, too.
LEMMA SameFinding ==
    ASSUME UNCHANGED <<tree, handlers>>, NEW st, NEW fl
    PROVE  /\ Reading(st, fl)' <=> Reading(st, fl)
           /\ Finding(st)' <=> Finding(st)
<1>1. Under(st)' = Under(st)
  BY SameRemote DEF Under
<1>2. \A V, id : Found(V, id)' = Found(V, id)
  BY SameRemote DEF Found
<1>3. \A V : Visited(V, st)' <=> Visited(V, st)
  BY SameRemote, <1>1 DEF Visited
<1>4. \A V : Counted(V, st)' <=> Counted(V, st)
  BY <1>2, <1>3 DEF Counted
<1>5. \A V : Led(V, st)' <=> Led(V, st)
  BY SameRemote, <1>1 DEF Led
<1>6. \A a : Covering(a)' = Covering(a)
  BY SameRemote DEF Covering
<1>7. Reading(st, fl)' <=> Reading(st, fl)
  BY SameRemote DEF Reading
<1>8. Finding(st)' <=> Finding(st)
  BY SameRemote, <1>4, <1>5, <1>6 DEF Finding
<1> QED
  BY <1>7, <1>8

\* A step that gives find, scans and items the values of st keeps the invariant
\* if they are as searched.
LEMMA SearchKeeps ==
    ASSUME SearchInv, NEW st, st = [find |-> find', scans |-> scans', items |-> items'],
           UNCHANGED <<tree, handlers>>, Searched(st, failed', changes')
    PROVE  SearchInv'
<1>1. St' = st
  BY DEF St
<1>2. HandlersApart'
  BY DEF SearchInv, HandlersApart
<1>3. PICK fl, ch : fl = failed' /\ ch = changes'
  OBVIOUS
<1>4. /\ Reading(st, fl)' <=> Reading(st, fl)
      /\ Finding(st)' <=> Finding(st)
  BY SameFinding
<1>5. Searched(st, fl, ch)'
  BY <1>3, <1>4 DEF Searched
<1>6. Searched(St, failed, changes)'
  BY <1>1, <1>3, <1>5
<1> QED
  BY <1>2, <1>6 DEF SearchInv, Searched, St

-----------------------------------------------------------------------------
(* The steps of a chain of callbacks. *)

\* What a call was asked and has found.
SameCall(f, g) ==
  /\ g.kind = f.kind /\ g.status = f.status /\ g.id = f.id /\ g.addr = f.addr
  /\ g.size = f.size /\ g.fill = f.fill /\ g.output = f.output

\* Scans of the same buses, and the same call.
LEMMA SameBuses ==
    ASSUME NEW a, NEW b, Finding(a), SameCall(a.find, b.find), DOMAIN b.scans = DOMAIN a.scans,
           \A s \in DOMAIN a.scans : Lies(b.scans[s]) = Lies(a.scans[s])
    PROVE  Finding(b)
<1>1. Under(b) = Under(a)
  BY DEF Under
<1>2. \A V : Visited(V, a) => Visited(V, b)
  BY <1>1, Zenon DEF Visited
<1>3. \A V : Counted(V, a) => Counted(V, b)
  BY <1>2 DEF Counted, Tally, SameCall
<1>4. \A V : Led(V, a) => Led(V, b)
  BY <1>1 DEF Led, SameCall
<1> QED
  BY <1>3, <1>4 DEF Finding, SameCall

\* The fields of a call and of its scans, while a scan is under way.
LEMMA Under0 ==
    ASSUME IInv, SearchInv, NEW s \in DOMAIN scans
    PROVE  /\ find.pc = "run" /\ changes \in Nat
           /\ \E R, X : find \in FindRecord(R) /\ scans \in [DOMAIN scans -> ScanRecord(X)]
           /\ find.kind # "identity" => find.addr \in Nat
           /\ changes = 0 => Reading(St, failed) /\ GoodScan(scans[s])
           /\ changes = 0 /\ failed = {} /\ ProperBuses => Finding(St)
<1>1. find.pc = "run" /\ St.scans = scans
  BY Running
<1>2. \E R, X : find \in FindRecord(R) /\ scans \in [DOMAIN scans -> ScanRecord(X)]
  BY Present0
<1>3. changes = 0 => Reading(St, failed)
  BY <1>1 DEF SearchInv
<1>4. changes = 0 => GoodScan(scans[s])
  BY <1>1, <1>3 DEF Reading
<1> QED
  BY <1>1, <1>2, <1>3, <1>4 DEF SearchInv

\* The cycle of a scan is answered, or the next cycle of its chain is opened.
LEMMA GoesOnSearch ==
    ASSUME IInv, SearchInv, NEW s \in DOMAIN scans, NEW r, scans' = [scans EXCEPT ![s] = r],
           changes = 0 => GoodScan(r) /\ Lies(r) = Lies(scans[s]),
           UNCHANGED <<tree, handlers, find, items, failed, changes>>
    PROVE  SearchInv'
<1>1. PICK R, X : find \in FindRecord(R) /\ scans \in [DOMAIN scans -> ScanRecord(X)]
  BY Under0
<1>2. PICK h : h = [scans EXCEPT ![s] = r]
  OBVIOUS
<1>3. DOMAIN h = DOMAIN scans /\ \A u \in DOMAIN scans : h[u] = IF u = s THEN r ELSE scans[u]
  BY <1>1, <1>2
<1>4. PICK st : st = [find |-> find, scans |-> h, items |-> items]
  OBVIOUS
<1>5. st.find = find /\ st.scans = h
  BY <1>4
<1>6. St.find = find /\ St.scans = scans
  BY DEF St
<1>7. find.pc = "run" /\ changes \in Nat /\ (find.kind # "identity" => find.addr \in Nat)
  BY Under0
<1>8. changes = 0 => Reading(st, failed)
  <2> SUFFICES ASSUME changes = 0 PROVE Reading(st, failed)
    OBVIOUS
  <2>1. Reading(St, failed) /\ GoodScan(r)
    BY Under0
  <2> QED
    BY <1>3, <1>5, <1>6, <2>1 DEF Reading
<1>9. changes = 0 /\ failed = {} /\ ProperBuses => Finding(st)
  <2> SUFFICES ASSUME changes = 0, failed = {}, ProperBuses PROVE Finding(st)
    OBVIOUS
  <2>1. Finding(St) /\ Lies(r) = Lies(scans[s])
    BY Under0
  <2>2. \A u \in DOMAIN St.scans : Lies(st.scans[u]) = Lies(St.scans[u])
    BY <1>3, <1>5, <1>6, <2>1
  <2>3. SameCall(St.find, st.find)
    BY <1>5, <1>6 DEF SameCall
  <2> QED
    BY <1>3, <1>5, <1>6, <2>1, <2>2, <2>3, SameBuses
<1>10. Searched(st, failed, changes)
  BY <1>5, <1>7, <1>8, <1>9 DEF Searched
<1>11. st = [find |-> find', scans |-> scans', items |-> items']
  BY <1>2, <1>4
<1> QED
  BY <1>10, <1>11, SearchKeeps

\* The remote answers with what is there.
LEMMA ServeSearch ==
    ASSUME IInv, SearchInv, NEW s \in DOMAIN scans, Serve(s)
    PROVE  SearchInv'
<1>1. PICK R, X : find \in FindRecord(R) /\ scans \in [DOMAIN scans -> ScanRecord(X)]
  BY Under0
<1>2. PICK c \in ScanRecord(X) : c = scans[s]
  BY <1>1
<1>3. c \in ScanValues(X) /\ c.step \in {"ptr", "header", "all"}
  BY DEF ScanRecord, ScanValues
<1>4. PICK v : v = CASE c.step = "ptr" -> <<tree.root>>
                     [] c.step = "header" -> <<HasTable(c.at), IF HasTable(c.at) THEN Len(Table(c.at)) + 1 ELSE 0>>
                     [] c.step = "all" -> <<Len(Table(c.at)) + 1,
                                            SubSeq(Table(c.at), 1, LeastOf(Len(Table(c.at)), c.count - 1))>>
  OBVIOUS
<1>5. scans' = [scans EXCEPT ![s].reply = v]
  BY <1>2, <1>4, Zenon DEF Serve
<1>6. PICK r : r = [c EXCEPT !.reply = v]
  OBVIOUS
<1>7. scans' = [scans EXCEPT ![s] = r]
  BY <1>2, <1>5, <1>6
<1>8. /\ r.step = c.step /\ r.at = c.at /\ r.base = c.base /\ r.count = c.count /\ r.reply = v
  BY <1>3, <1>6 DEF ScanValues
<1>9. Lies(r) = Lies(c)
  BY <1>8 DEF Lies
<1>10. ASSUME changes = 0 PROVE GoodScan(r)
  <2>1. GoodScan(c)
    BY <1>2, <1>10, Under0
  <2>2. CASE c.step = "ptr"
    <3>1. v = <<tree.root>>
      BY <1>4, <2>2
    <3> QED
      BY <1>8, <1>9, <2>1, <2>2, <3>1 DEF GoodScan
  <2>3. CASE c.step = "header"
    <3>1. v = Header(c.at)
      BY <1>4, <2>3 DEF Header
    <3> QED
      BY <1>8, <1>9, <2>1, <2>3, <3>1 DEF GoodScan
  <2>4. CASE c.step = "all"
    <3>1. HasTable(c.at) /\ c.count = Len(Table(c.at)) + 1
      BY <2>1, <2>4 DEF GoodScan
    <3>2. PICK t \in Seq(SdbRecord) : t = Table(c.at)
      BY <3>1, TablesTyped
    <3>3. PICK n \in Nat : n = Len(t)
      OBVIOUS
    <3>4. LeastOf(n, c.count - 1) = n
      BY <3>1, <3>2, <3>3 DEF LeastOf
    <3>5. SubSeq(t, 1, n) = t
      BY <3>3
    <3>6. v = <<n + 1, SubSeq(t, 1, LeastOf(n, c.count - 1))>>
      BY <1>4, <2>4, <3>2, <3>3
    <3>7. v = <<Len(Table(c.at)) + 1, Table(c.at)>>
      BY <3>2, <3>3, <3>4, <3>5, <3>6
    <3> QED
      BY <1>8, <1>9, <2>1, <2>4, <3>1, <3>7 DEF GoodScan
  <2> QED
    BY <1>3, <2>2, <2>3, <2>4
<1> QED
  BY <1>2, <1>7, <1>9, <1>10, GoesOnSearch DEF Serve

\* A chain that ends with an error: the scan is gone and the call has the status.
LEMMA AbandonIs ==
    ASSUME IInv, NEW s \in DOMAIN scans, NEW status \in Statuses \ {"wait", "OK"}, Abandon(s, status)
    PROVE  /\ DOMAIN scans' = DOMAIN scans \ {s} /\ \A u \in DOMAIN scans' : scans'[u] = scans[u]
           /\ find'.status = status /\ find'.kind = find.kind /\ find'.pc = find.pc
           /\ find'.addr = find.addr
<1>1. PICK R, X : find \in FindRecord(R) /\ scans \in [DOMAIN scans -> ScanRecord(X)]
  BY Present0
<1>2. PICK f \in FindRecord(R) : f = find
  BY <1>1
<1>3. PICK g : g = [i \in DOMAIN scans \ {s} |-> scans[i]]
  OBVIOUS
<1>4. PICK a : a = [find |-> f, scans |-> g, items |-> items - 1]
  OBVIOUS
<1>5. FreeScan(St, s) = a
  <2>1. St.find = f /\ St.scans = scans /\ St.items = items
    BY <1>2 DEF St
  <2>2. FreeScan(St, s) = [St EXCEPT !.scans = g, !.items = items - 1]
    BY <1>3, <2>1 DEF FreeScan
  <2> QED
    BY <1>2, <1>4, <2>2 DEF St
<1>6. CbFail(a, status).scans = g
  BY <1>4 DEF CbFail
<1>7. PICK h : h = CbFail(a, status).find
  OBVIOUS
<1>8. h.status = status /\ h.kind = f.kind /\ h.pc = f.pc /\ h.addr = f.addr
  BY <1>4, <1>7 DEF CbFail, FindRecord
<1>9. find' = h /\ scans' = g
  BY <1>5, <1>6, <1>7 DEF Abandon, Becomes
<1> QED
  BY <1>2, <1>3, <1>8, <1>9

\* It is an error that nobody expects of a bus whose tables can be read.
LEMMA AbandonSearch ==
    ASSUME IInv, SearchInv, NEW s \in DOMAIN scans, NEW status \in Statuses \ {"wait", "OK"},
           Abandon(s, status), UNCHANGED <<tree, handlers, changes>>,
           changes = 0 => failed' # {} \/ Unreadable # {},
           status = "ADDRESS" => failed' # {}
    PROVE  SearchInv'
<1>1. PICK st : st = [find |-> find', scans |-> scans', items |-> items']
  OBVIOUS
<1>2. st.find = find' /\ st.scans = scans'
  BY <1>1
<1>3. /\ DOMAIN st.scans = DOMAIN scans \ {s} /\ \A u \in DOMAIN st.scans : st.scans[u] = scans[u]
      /\ st.find.status = status /\ st.find.kind = find.kind /\ st.find.pc = find.pc
      /\ st.find.addr = find.addr
  BY <1>2, AbandonIs
<1>4. find.pc = "run" /\ changes \in Nat /\ (find.kind # "identity" => find.addr \in Nat)
  BY Under0
<1>5. changes = 0 => Reading(st, failed')
  <2> SUFFICES ASSUME changes = 0 PROVE Reading(st, failed')
    OBVIOUS
  <2>1. Reading(St, failed)
    BY Under0
  <2>2. \A u \in DOMAIN scans : GoodScan(scans[u])
    BY <2>1 DEF Reading, St
  <2> QED
    BY <1>3, <2>2 DEF Reading
<1>6. failed' = {} => Finding(st)
  BY <1>3 DEF Finding
<1>7. Searched(st, failed', changes')
  BY <1>3, <1>4, <1>5, <1>6 DEF Searched
<1> QED
  BY <1>1, <1>7, SearchKeeps

\* The next cycle of a chain is for the same bus.
LEMMA NextCycleSearch ==
    ASSUME IInv, SearchInv, NEW s \in DOMAIN scans, NEW r, NextCycle(s, r),
           changes = 0 => GoodScan(r) /\ Lies(r) = Lies(scans[s])
    PROVE  SearchInv'
<1>1. UNCHANGED <<tree, handlers, changes>>
  BY DEF NextCycle
<1>2. CASE scans' = [scans EXCEPT ![s] = r] /\ UNCHANGED <<find, items, failed>>
  BY <1>1, <1>2, GoesOnSearch
<1>3. CASE Abandon(s, "OOM") /\ failed' = failed \cup {"OOM"}
  <2>1. "OOM" \in Statuses \ {"wait", "OK"} /\ failed' # {}
    BY <1>3 DEF Statuses
  <2> QED
    BY <1>1, <1>3, <2>1, AbandonSearch
<1> QED
  BY <1>2, <1>3 DEF NextCycle

\* The callbacks before the table is read, and a cycle that fails.
LEMMA HeadersSearch ==
    ASSUME IInv, SearchInv, NEW s \in DOMAIN scans, GotHeaderPtr(s) \/ GotHeader(s) \/ CycleFails(s)
    PROVE  SearchInv'
<1>1. CASE GotHeaderPtr(s)
  <2>1. PICK c : c = scans[s]
    OBVIOUS
  <2>2. PICK r : r = Scan("header", c.reply[1], c.base)
    OBVIOUS
  <2>3. NextCycle(s, r) /\ c.step = "ptr" /\ c.reply # <<>>
    BY <1>1, <2>1, <2>2 DEF GotHeaderPtr
  <2>4. ASSUME changes = 0 PROVE GoodScan(r) /\ Lies(r) = Lies(c)
    <3>1. GoodScan(c)
      BY <2>1, <2>4, Under0
    <3>2. c.base = 0 /\ c.reply = <<tree.root>>
      BY <2>3, <3>1 DEF GoodScan
    <3>3. r.step = "header" /\ r.at = tree.root /\ r.base = 0 /\ r.reply = <<>>
      BY <2>2, <3>2 DEF Scan
    <3>4. Lies(r) = Lies(c)
      BY <2>3, <3>3 DEF Lies, Root
    <3> QED
      BY <3>1, <3>3, <3>4 DEF GoodScan
  <2> QED
    BY <2>1, <2>3, <2>4, NextCycleSearch
<1>2. CASE GotHeader(s)
  <2>1. PICK c : c = scans[s]
    OBVIOUS
  <2>2. c.step = "header" /\ c.reply # <<>>
    BY <1>2, <2>1 DEF GotHeader
  <2>3. changes = 0 => GoodScan(c) /\ c.reply = Header(c.at)
    <3> SUFFICES ASSUME changes = 0 PROVE GoodScan(c) /\ c.reply = Header(c.at)
      OBVIOUS
    <3>1. GoodScan(c)
      BY <2>1, Under0
    <3> QED
      BY <2>2, <3>1 DEF GoodScan
  <2>4. \A a : Header(a)[1] = HasTable(a) /\ (HasTable(a) => Header(a)[2] = Len(Table(a)) + 1)
    BY DEF Header
  <2>5. CASE c.reply[1]
    <3>1. PICK r : r = [Scan("all", c.at, c.base) EXCEPT !.count = c.reply[2]]
      OBVIOUS
    <3>2. NextCycle(s, r)
      BY <1>2, <2>1, <2>5, <3>1 DEF GotHeader
    <3>3. r.step = "all" /\ r.at = c.at /\ r.base = c.base /\ r.count = c.reply[2] /\ r.reply = <<>>
      BY <3>1 DEF Scan
    <3>4. Lies(r) = Lies(c)
      BY <2>2, <3>3 DEF Lies
    <3>5. changes = 0 => GoodScan(r)
      BY <2>3, <2>4, <2>5, <3>3, <3>4 DEF GoodScan
    <3> QED
      BY <2>1, <3>2, <3>4, <3>5, NextCycleSearch
  <2>6. CASE ~c.reply[1]
    <3>1. Abandon(s, "FAIL") /\ UNCHANGED <<tree, handlers, changes>>
      BY <1>2, <2>1, <2>6 DEF GotHeader
    <3>2. ASSUME changes = 0 PROVE Unreadable # {}
      <4>1. ~HasTable(c.at) /\ <<c.at, c.base>> \in Buses
        BY <2>2, <2>3, <2>4, <2>6, <3>2 DEF GoodScan, Lies
      <4>2. <<c.at, c.base>>[1] = c.at
        OBVIOUS
      <4>3. <<c.at, c.base>> \in Unreadable
        BY <4>1, <4>2 DEF Unreadable
      <4> QED
        BY <4>3
    <3>3. "FAIL" \in Statuses \ {"wait", "OK"}
      BY DEF Statuses
    <3> QED
      BY <3>1, <3>2, <3>3, AbandonSearch
  <2> QED
    BY <2>5, <2>6
<1>3. CASE CycleFails(s)
  <2>1. PICK status \in CycleErrors : Abandon(s, status) /\ failed' = failed \cup {status}
    BY <1>3 DEF CycleFails
  <2>2. status \in Statuses \ {"wait", "OK"} /\ failed' # {}
    BY <2>1 DEF CycleErrors, Statuses
  <2> QED
    BY <1>3, <2>1, <2>2, AbandonSearch DEF CycleFails
<1> QED
  BY <1>1, <1>2, <1>3

\* The call returns when its status is known.
LEMMA ReturnSearch ==
    ASSUME IInv, SearchInv, Return
    PROVE  SearchInv'
<1>1. PICK R, X : find \in FindRecord(R)
  BY Present0
<1>2. PICK g : g = [find EXCEPT !.pc = "done"]
  OBVIOUS
<1>3. g.pc = "done" /\ SameCall(find, g)
  BY <1>1, <1>2 DEF FindRecord, SameCall
<1>4. PICK st : st = [find |-> g, scans |-> scans, items |-> items]
  OBVIOUS
<1>5. st.find = g /\ st.scans = scans /\ St.find = find /\ St.scans = scans
  BY <1>4 DEF St
<1>6. st = [find |-> find', scans |-> scans', items |-> items'] /\ failed' = failed /\ changes' = changes
  BY <1>2, <1>4 DEF Return
<1>7. find.pc = "run" /\ find.status # "wait"
  BY DEF Return, Over, IInv, Good, St
<1>8. changes = 0 => Reading(st, failed)
  BY <1>3, <1>5, <1>7 DEF SearchInv, Reading, SameCall
<1>9. changes = 0 /\ failed = {} /\ ProperBuses => Finding(st)
  BY <1>3, <1>5, <1>7, SameBuses DEF SearchInv
<1>10. Searched(st, failed, changes)
  BY <1>3, <1>5, <1>7, <1>8, <1>9 DEF Searched, SearchInv, SameCall
<1> QED
  BY <1>6, <1>10, SearchKeeps DEF Return

\* A new scan is added to those there are.
LEMMA NewScanAdds ==
    ASSUME NEW R, NEW Q, NEW st, Shape(st, R, Q), Spare(st) # {}, NEW scan
    PROVE  \E u : /\ u \notin DOMAIN st.scans
                  /\ DOMAIN NewScan(st, scan).scans = DOMAIN st.scans \cup {u}
                  /\ NewScan(st, scan).scans[u] = scan
                  /\ \A i \in DOMAIN st.scans : NewScan(st, scan).scans[i] = st.scans[i]
                  /\ NewScan(st, scan).find = st.find
<1>1. PICK f : f = st.scans
  OBVIOUS
<1>2. PICK u : u = Least(Spare(st))
  OBVIOUS
<1>3. u \notin DOMAIN f
  <2>1. Spare(st) \in SUBSET Nat
    BY ScanAssumption DEF Spare
  <2> QED
    BY <1>1, <1>2, <2>1, LeastIs DEF Spare
<1>4. PICK g : g = [i \in DOMAIN f \cup {u} |-> IF i = u THEN scan ELSE f[i]]
  OBVIOUS
<1>5. NewScan(st, scan) = [st EXCEPT !.scans = g, !.items = @ + 1]
  BY <1>1, <1>2, <1>4 DEF NewScan
<1>6. NewScan(st, scan).scans = g /\ NewScan(st, scan).find = st.find
  BY <1>5 DEF Shape
<1>7. DOMAIN g = DOMAIN f \cup {u} /\ g[u] = scan /\ \A i \in DOMAIN f : g[i] = f[i]
  BY <1>3, <1>4
<1> QED
  BY <1>1, <1>3, <1>6, <1>7

\* The call begins with a scan of the root, or without memory for it.
LEMMA StartIs ==
    ASSUME IInv, Start
    PROVE  /\ DOMAIN scans = {} /\ find.output = <<>>
           /\ find'.pc = "run" /\ find'.output = find.output /\ find'.fill = find.fill
           /\ find'.size \in Nat /\ find'.kind \in {"identity", "address"}
           /\ find'.kind = "address" => find'.addr \in Nat
           /\ \/ /\ failed' = {} /\ find'.status = IF find'.kind = "address" THEN "wait" ELSE "OK"
                 /\ \E u : DOMAIN scans' = {u} /\ scans'[u] = Scan("ptr", 0, 0)
              \/ failed' = {"OOM"} /\ find'.status = "OOM" /\ scans' = scans
<1>1. PICK R, X : Shape(St, R, ScanRecord(X)) /\ find \in FindRecord(R)
  BY Present0
<1>2. PICK f \in Finds, mem \in BOOLEAN :
        LET call == [find EXCEPT !.pc = "run", !.kind = f.kind, !.id = f.id, !.addr = f.addr,
                                 !.size = f.size, !.pending = 1,
                                 !.status = IF f.kind = "address" THEN "wait" ELSE "OK"] IN
        /\ Becomes(IF mem THEN NewScan([St EXCEPT !.find = call], Scan("ptr", 0, 0))
                   ELSE [St EXCEPT !.find = [call EXCEPT !.status = "OOM", !.pending = 0]])
        /\ failed' = IF mem THEN {} ELSE {"OOM"}
  BY DEF Start
<1>3. PICK v \in Statuses : v = IF f.kind = "address" THEN "wait" ELSE "OK"
  BY DEF Statuses
<1>4. PICK call : call = [find EXCEPT !.pc = "run", !.kind = f.kind, !.id = f.id, !.addr = f.addr,
                                      !.size = f.size, !.pending = 1, !.status = v]
  OBVIOUS
<1>5. f.kind \in {"identity", "address"} /\ f.size \in Nat /\ (f.kind = "address" => f.addr \in Nat)
  BY ScanAssumption
<1>6. /\ call.pc = "run" /\ call.kind = f.kind /\ call.size = f.size /\ call.addr = f.addr
      /\ call.status = v /\ call.output = find.output /\ call.fill = find.fill
  BY <1>1, <1>4 DEF FindRecord
<1>7. DOMAIN scans = {} /\ find.output = <<>>
  BY DEF Start, IInv, Good, St
<1>8. CASE mem
  <2>1. PICK a : a = [find |-> call, scans |-> scans, items |-> items]
    OBVIOUS
  <2>2. [St EXCEPT !.find = call] = a
    BY <2>1 DEF St
  <2>3. Becomes(NewScan(a, Scan("ptr", 0, 0))) /\ failed' = {}
    BY <1>2, <1>3, <1>4, <1>8, <2>2
  <2>4. PICK u \in 1 .. MaxScans : u = Least(Spare(a))
    <3>1. 1 \in 1 .. MaxScans
      BY ScanAssumption
    <3>2. Spare(a) = 1 .. MaxScans
      BY <1>7, <2>1 DEF Spare
    <3>3. 1 .. MaxScans \in SUBSET Nat
      BY ScanAssumption
    <3>4. Least(1 .. MaxScans) \in 1 .. MaxScans
      BY <3>1, <3>3, LeastIs
    <3> QED
      BY <3>2, <3>4
  <2>5. PICK g : g = [i \in DOMAIN scans \cup {u} |-> IF i = u THEN Scan("ptr", 0, 0) ELSE scans[i]]
    OBVIOUS
  <2>6. NewScan(a, Scan("ptr", 0, 0)) = [a EXCEPT !.scans = g, !.items = @ + 1]
    BY <2>1, <2>4, <2>5 DEF NewScan
  <2>7. find' = call /\ scans' = g
    BY <2>1, <2>3, <2>6 DEF Becomes
  <2>8. DOMAIN g = {u} /\ g[u] = Scan("ptr", 0, 0)
    BY <1>7, <2>5
  <2> QED
    BY <1>3, <1>5, <1>6, <1>7, <2>3, <2>7, <2>8
<1>9. CASE ~mem
  <2>1. PICK g : g = [call EXCEPT !.status = "OOM", !.pending = 0]
    OBVIOUS
  <2>2. /\ g.pc = "run" /\ g.kind = f.kind /\ g.size = f.size /\ g.addr = f.addr
        /\ g.status = "OOM" /\ g.output = find.output /\ g.fill = find.fill
    BY <1>1, <1>4, <2>1 DEF FindRecord
  <2>3. Becomes([St EXCEPT !.find = g]) /\ failed' = {"OOM"}
    BY <1>2, <1>3, <1>4, <1>9, <2>1
  <2>4. find' = g /\ scans' = scans
    BY <2>3 DEF Becomes, St
  <2> QED
    BY <1>5, <1>7, <2>2, <2>3, <2>4
<1> QED
  BY <1>8, <1>9

\* At the beginning nothing is found, and the root is under way.
LEMMA StartSearch ==
    ASSUME IInv, SearchInv, Start
    PROVE  SearchInv'
<1>1. PICK st : st = [find |-> find', scans |-> scans', items |-> items']
  OBVIOUS
<1>2. st.find = find' /\ st.scans = scans'
  BY <1>1
<1>3. find.fill = 0 /\ tree \in Trees
  BY DEF Start, SearchInv, IInv
<1>4. changes' = 0 /\ UNCHANGED <<tree, handlers>>
  BY DEF Start
<1>5. /\ st.find.pc = "run" /\ st.find.output = <<>> /\ st.find.fill = 0 /\ st.find.size \in Nat
      /\ st.find.kind \in {"identity", "address"} /\ (st.find.kind = "address" => st.find.addr \in Nat)
  BY <1>2, <1>3, StartIs
<1>6. Root(tree) \in Buses
  BY <1>3, ReachedFacts DEF Buses
<1>7. CASE failed' = {} /\ st.find.status = (IF st.find.kind = "address" THEN "wait" ELSE "OK")
             /\ \E u : DOMAIN st.scans = {u} /\ st.scans[u] = Scan("ptr", 0, 0)
  <2>1. PICK u : DOMAIN st.scans = {u} /\ st.scans[u] = Scan("ptr", 0, 0)
    BY <1>7
  <2>2. PICK c : c = Scan("ptr", 0, 0)
    OBVIOUS
  <2>3. c.step = "ptr" /\ c.base = 0 /\ c.reply = <<>> /\ Lies(c) = Root(tree)
    BY <2>2 DEF Scan, Lies
  <2>4. GoodScan(c)
    BY <1>6, <2>3 DEF GoodScan
  <2>5. Reading(st, failed')
    BY <1>7, <2>1, <2>2, <2>4 DEF Reading
  <2>6. Under(st) = {Root(tree)}
    BY <2>1, <2>2, <2>3 DEF Under
  <2>7. Visited({}, st)
    BY <2>1, <2>6 DEF Visited
  <2>8. Tally(Found({}, st.find.id), st.find)
    <3>1. Found({}, st.find.id) = {}
      BY DEF Found
    <3>2. IsFiniteSet({}) /\ Cardinality({}) = 0
      BY FS_EmptySet
    <3>3. Len(<<>>) = 0 /\ Range(<<>>) = {} /\ IsInjective(<<>>)
      BY DEF Range, IsInjective
    <3>4. LeastOf(st.find.size, 0) = 0
      BY <1>5 DEF LeastOf
    <3> QED
      BY <1>5, <3>1, <3>2, <3>3, <3>4 DEF Tally
  <2>9. Counted({}, st) /\ Led({}, st)
    BY <2>6, <2>7, <2>8 DEF Counted, Led
  <2>10. Finding(st)
    BY <1>5, <1>7, <2>9 DEF Finding
  <2>11. Searched(st, failed', changes')
    BY <1>4, <1>5, <2>5, <2>10 DEF Searched
  <2> QED
    BY <1>1, <1>4, <2>11, SearchKeeps
<1>8. CASE failed' = {"OOM"} /\ st.find.status = "OOM" /\ st.scans = scans
  <2>1. DOMAIN st.scans = {}
    BY <1>8, StartIs
  <2>2. Reading(st, failed') /\ Finding(st)
    BY <1>8, <2>1 DEF Reading, Finding
  <2>3. Searched(st, failed', changes')
    BY <1>4, <1>5, <2>2 DEF Searched
  <2> QED
    BY <1>1, <1>4, <2>3, SearchKeeps
<1> QED
  BY <1>2, <1>7, <1>8, StartIs

-----------------------------------------------------------------------------
(* The callback of a table. *)

\* A scan is freed, the others stay as they are.
LEMMA FreeScanIs ==
    ASSUME NEW R, NEW Q, NEW st, Shape(st, R, Q), NEW s
    PROVE  /\ FreeScan(st, s).find = st.find
           /\ DOMAIN FreeScan(st, s).scans = DOMAIN st.scans \ {s}
           /\ \A u \in DOMAIN st.scans \ {s} : FreeScan(st, s).scans[u] = st.scans[u]
<1>1. PICK g : g = [i \in DOMAIN st.scans \ {s} |-> st.scans[i]]
  OBVIOUS
<1>2. FreeScan(st, s) = [st EXCEPT !.scans = g, !.items = @ - 1]
  BY <1>1 DEF FreeScan
<1>3. FreeScan(st, s).scans = g /\ FreeScan(st, s).find = st.find
  BY <1>2 DEF Shape
<1> QED
  BY <1>1, <1>3

\* A search by address has one scan.
LEMMA OneScan ==
    ASSUME IInv, NEW s \in DOMAIN scans, find.kind # "identity"
    PROVE  DOMAIN scans = {s}
<1>1. Cardinality(DOMAIN scans) = 1
  BY Running
<1>2. PICK R, X : Shape(St, R, ScanRecord(X))
  BY Present0
<1>3. IsFiniteSet(DOMAIN scans)
  BY <1>2, ScansFinite DEF Shape, St
<1>4. IsFiniteSet(DOMAIN scans \ {s}) /\ Cardinality(DOMAIN scans \ {s}) = 0
  BY <1>1, <1>3, FS_RemoveElement
<1>5. DOMAIN scans \ {s} = {}
  BY <1>4, FS_EmptySet
<1> QED
  BY <1>5

\* The table that a good scan has read is the one of its bus.
LEMMA TableRead ==
    ASSUME IInv, NEW c, GoodScan(c), c.step = "all", c.reply # <<>>, NEW b, b = <<c.at, c.base>>
    PROVE  /\ b \in Buses /\ HasTable(b[1]) /\ Lies(c) = b
           /\ \A table \in Tables(c) : /\ Len(table) = Len(Table(b[1])) /\ DOMAIN table = DOMAIN Table(b[1])
                                       /\ \A i \in DOMAIN Table(b[1]) : table[i] = Dec(b, i)
           /\ c.count <= 1 \/ Room(c.reply[1]) = 0 \/ c.count > Room(c.reply[1]) => Unreadable # {}
<1>1. b[1] = c.at /\ b[2] = c.base
  OBVIOUS
<1>2. Lies(c) = b /\ b \in Buses
  BY DEF Lies, GoodScan
<1>3. HasTable(c.at) /\ c.count = Len(Table(c.at)) + 1 /\ c.reply = <<Len(Table(c.at)) + 1, Table(c.at)>>
  BY DEF GoodScan
<1>4. PICK t \in Seq(SdbRecord), n \in Nat : t = Table(c.at) /\ n = Len(t) /\ DOMAIN t = 1 .. n
  <2>1. PICK t \in Seq(SdbRecord) : t = Table(c.at)
    BY <1>3, TablesTyped
  <2> QED
    BY <2>1
<1>5. c.count = n + 1 /\ c.reply[1] = n + 1 /\ c.reply[2] = t /\ (n + 1) - 1 = n
  BY <1>3, <1>4
<1>6. ASSUME NEW table \in Tables(c)
      PROVE  Len(table) = n /\ DOMAIN table = 1 .. n /\ \A i \in 1 .. n : table[i] = Dec(b, i)
  <2>1. PICK junk \in Junk :
          table = [i \in 1 .. c.reply[1] - 1 |->
                     IF i <= Len(c.reply[2]) THEN Decoded(c.reply[2][i], c.base)
                     ELSE IF i < c.count THEN Blank ELSE junk]
    BY <1>6 DEF Tables
  <2>2. table = [i \in 1 .. n |-> IF i <= n THEN Decoded(t[i], c.base)
                                  ELSE IF i < n + 1 THEN Blank ELSE junk]
    BY <1>4, <1>5, <2>1
  <2>3. \A i \in 1 .. n : table[i] = Decoded(t[i], c.base)
    BY <2>2
  <2>4. Len(table) = n /\ DOMAIN table = 1 .. n
    BY <2>2
  <2> QED
    BY <1>1, <1>4, <2>3, <2>4 DEF Dec
<1>7. ASSUME c.count <= 1 \/ Room(c.reply[1]) = 0 \/ c.count > Room(c.reply[1])
      PROVE  b \in Unreadable
  <2>1. n = 0 \/ Room(n + 1) = 0 \/ n + 1 > Room(n + 1)
    BY <1>5, <1>7
  <2>2. ASSUME Room(n + 1) # 0 PROVE n + 1 <= Room(n + 1)
    <3> DEFINE fit == {k \in Classes : (n + 1) - 1 < k}
    <3>1. fit # {} /\ Room(n + 1) = Least(fit) + 1
      BY <2>2 DEF Room
    <3>2. fit \in SUBSET Nat
      BY ScanAssumption
    <3>3. Least(fit) \in fit
      BY <3>1, <3>2, LeastIs
    <3>4. PICK k \in Nat : k = Least(fit) /\ k \in fit
      BY <3>2, <3>3
    <3>5. n < k
      BY <3>4
    <3> HIDE DEF fit
    <3> QED
      BY <3>1, <3>4, <3>5
  <2>3. n = 0 \/ Room(n + 1) = 0
    <3>1. CASE Room(n + 1) = 0
      BY <3>1
    <3>2. CASE Room(n + 1) # 0
      <4>1. PICK m : m = Room(n + 1)
        OBVIOUS
      <4>2. m \in Nat
        <5> DEFINE fit == {k \in Classes : (n + 1) - 1 < k}
        <5>1. fit # {} /\ m = Least(fit) + 1
          BY <3>2, <4>1 DEF Room
        <5>2. fit \in SUBSET Nat
          BY ScanAssumption
        <5>3. Least(fit) \in Nat
          BY <5>1, <5>2, LeastIs
        <5> QED
          BY <5>1, <5>3
      <4> QED
        BY <2>1, <2>2, <3>2, <4>1, <4>2
    <3> QED
      BY <3>1, <3>2
  <2> QED
    BY <1>1, <1>2, <1>4, <2>3 DEF Unreadable
<1> QED
  BY <1>1, <1>2, <1>3, <1>4, <1>6, <1>7

\* What eb_cb_find_by_address makes of a table.
LEMMA AddressIs ==
    ASSUME IInv, NEW s \in DOMAIN scans, find.kind # "identity",
           NEW table, NEW mem, Len(table) \in Nat, DOMAIN table = 1 .. Len(table),
           NEW after, after = CbAddress(St, table, mem), Becomes(FreeScan(after, s))
    PROVE  /\ find'.pc = find.pc /\ find'.kind = find.kind /\ find'.addr = find.addr
           /\ find'.status = after.find.status
           /\ \/ /\ \A i \in DOMAIN table : ~Covers(table[i], find.addr)
                 /\ find'.status = "ADDRESS" /\ DOMAIN scans' = {}
              \/ \E h \in DOMAIN table :
                   /\ Covers(table[h], find.addr)
                   /\ \/ /\ table[h].type = "device" /\ find'.status = "OK"
                         /\ find'.output = <<table[h]>> /\ DOMAIN scans' = {}
                      \/ /\ table[h].type # "device" /\ find'.status = "wait"
                         /\ \E u : DOMAIN scans' = {u}
                                   /\ scans'[u] = Scan("header", table[h].child, table[h].first)
                      \/ find'.status = "OOM" /\ DOMAIN scans' = {}
<1>1. PICK R, X : /\ Shape(St, R, ScanRecord(X))
                  /\ \A i \in 1 .. Len(table) :
                       /\ table[i] \in R
                       /\ Scan("header", table[i].child, table[i].first) \in ScanRecord(X)
  BY Roomy
<1>2. find \in FindRecord(R) /\ St.find = find /\ St.scans = scans
  BY <1>1 DEF Shape, St
<1>3. DOMAIN scans = {s} /\ find.status = "wait"
  BY OneScan, Running
<1>4. ASSUME NEW g \in FindRecord(R), after = With(St, g)
      PROVE  find' = g /\ DOMAIN scans' = {} /\ after.find = g
  <2>1. Shape(after, R, ScanRecord(X)) /\ after.find = g /\ after.scans = scans
    BY <1>1, <1>2, <1>4, WithShape DEF With
  <2>2. FreeScan(after, s).find = g /\ DOMAIN FreeScan(after, s).scans = {}
    BY <1>3, <2>1, FreeScanIs
  <2> QED
    BY <2>1, <2>2 DEF Becomes
<1>5. ASSUME NEW v \in {"ADDRESS", "OOM"}, after = [St EXCEPT !.find.status = v]
      PROVE  /\ find'.pc = find.pc /\ find'.kind = find.kind /\ find'.addr = find.addr
             /\ find'.status = v /\ DOMAIN scans' = {} /\ find'.status = after.find.status
  <2>1. v \in Statuses
    BY DEF Statuses
  <2>2. PICK g \in FindRecord(R) : g = [find EXCEPT !.status = v] /\ after = With(St, g)
    <3>1. /\ [St EXCEPT !.find.status = v] = With(St, [St.find EXCEPT !.status = v])
          /\ [St.find EXCEPT !.status = v] \in FindRecord(R)
      BY <1>1, <2>1, Updates
    <3> QED
      BY <1>2, <1>5, <3>1
  <2>3. find' = g /\ DOMAIN scans' = {} /\ after.find = g
    BY <1>4, <2>2
  <2>4. g.pc = find.pc /\ g.kind = find.kind /\ g.addr = find.addr /\ g.status = v
    BY <1>2, <2>2 DEF FindRecord
  <2> QED
    BY <2>3, <2>4
<1> DEFINE hits == {i \in DOMAIN table : Covers(table[i], find.addr)}
<1>6. CASE hits = {}
  <2>1. after = [St EXCEPT !.find.status = "ADDRESS"]
    BY <1>2, <1>6 DEF CbAddress
  <2> QED
    BY <1>5, <1>6, <2>1
<1>7. CASE hits # {}
  <2>1. PICK h : h = Least(hits)
    OBVIOUS
  <2>2. h \in 1 .. Len(table) /\ h \in DOMAIN table /\ Covers(table[h], find.addr)
    <3>1. hits \in SUBSET Nat
      OBVIOUS
    <3>2. Least(hits) \in hits
      BY <1>7, <3>1, LeastIs
    <3> QED
      BY <2>1, <3>2
  <2>3. PICK r \in R : r = table[h]
    BY <1>1, <2>2
  <2>4. after = IF r.type = "device" THEN [St EXCEPT !.find.output = <<r>>, !.find.status = "OK"]
                ELSE IF mem[h] /\ Spare(St) # {} THEN ScanBus(St, r)
                ELSE [St EXCEPT !.find.status = "OOM"]
    BY <1>2, <1>7, <2>1, <2>3 DEF CbAddress
  <2>5. CASE r.type = "device"
    <3>1. PICK out \in Seq(R) : out = <<r>>
      <4>1. <<r>> \in Seq(R)
        OBVIOUS
      <4> QED
        BY <4>1
    <3>2. PICK g : g = [find EXCEPT !.output = out, !.status = "OK"]
      OBVIOUS
    <3>3. g \in FindRecord(R)
      BY <1>2, <3>2 DEF FindRecord, Statuses
    <3>4. g.pc = find.pc /\ g.kind = find.kind /\ g.addr = find.addr /\ g.status = "OK" /\ g.output = out
      BY <1>2, <3>2 DEF FindRecord
    <3>5. after = With(St, g)
      BY <2>4, <2>5, <3>1, <3>2 DEF With, St
    <3>6. find' = g /\ DOMAIN scans' = {} /\ after.find = g
      BY <1>4, <3>3, <3>5
    <3> QED
      BY <2>2, <2>3, <2>5, <3>1, <3>4, <3>6
  <2>6. CASE r.type # "device" /\ mem[h] /\ Spare(St) # {}
    <3>1. PICK c \in ScanRecord(X) : c = Scan("header", r.child, r.first)
      BY <1>1, <2>2, <2>3
    <3>2. after = NewScan(St, c)
      BY <2>4, <2>6, <3>1 DEF ScanBus
    <3>3. Shape(after, R, ScanRecord(X))
      BY <1>1, <2>6, <3>2, NewScanFacts
    <3>4. PICK u : /\ u \notin DOMAIN scans /\ DOMAIN after.scans = DOMAIN scans \cup {u}
                   /\ after.scans[u] = c /\ after.find = find
      BY <1>1, <1>2, <2>6, <3>2, NewScanAdds
    <3>5. /\ FreeScan(after, s).find = find /\ DOMAIN FreeScan(after, s).scans = {u}
          /\ FreeScan(after, s).scans[u] = c
      BY <1>3, <3>3, <3>4, FreeScanIs
    <3>6. find' = find /\ DOMAIN scans' = {u} /\ scans'[u] = c
      BY <3>5 DEF Becomes
    <3> QED
      BY <1>3, <2>2, <2>3, <2>6, <3>1, <3>4, <3>6
  <2>7. CASE r.type # "device" /\ ~(mem[h] /\ Spare(St) # {})
    <3>1. after = [St EXCEPT !.find.status = "OOM"]
      BY <2>4, <2>7
    <3> QED
      BY <1>5, <2>2, <3>1
  <2> QED
    BY <2>5, <2>6, <2>7
<1> QED
  BY <1>6, <1>7

\* The devices that are present are those in the tables of the buses.
LEMMA PresentIs ==
    ASSUME IInv
    PROVE  \A d : d \in Present <=>
                    \E b \in Buses : /\ HasTable(b[1])
                                     /\ \E i \in DOMAIN Table(b[1]) : d = Dec(b, i) /\ d.type = "device"
<1>1. ASSUME NEW d, d \in Present
      PROVE  \E b \in Buses : /\ HasTable(b[1])
                              /\ \E i \in DOMAIN Table(b[1]) : d = Dec(b, i) /\ d.type = "device"
  <2>1. PICK b \in Buses : HasTable(b[1]) /\ \E r \in Range(Table(b[1])) : r.type = "device" /\ d = Decoded(r, b[2])
    BY <1>1 DEF Present
  <2>2. PICK i \in DOMAIN Table(b[1]) : Table(b[1])[i].type = "device" /\ d = Decoded(Table(b[1])[i], b[2])
    BY <2>1 DEF Range
  <2>3. d = Dec(b, i)
    BY <2>2 DEF Dec
  <2>4. d.type = "device"
    BY <2>1, <2>2, <2>3, DecFacts
  <2> QED
    BY <2>1, <2>3, <2>4
<1>2. ASSUME NEW b \in Buses, HasTable(b[1]), NEW i \in DOMAIN Table(b[1]), Dec(b, i).type = "device"
      PROVE  Dec(b, i) \in Present
  <2>1. PICK r : r = Table(b[1])[i]
    OBVIOUS
  <2>2. r.type = "device" /\ r \in Range(Table(b[1]))
    BY <1>2, <2>1, DecFacts DEF Range
  <2>3. Dec(b, i) = Decoded(r, b[2])
    BY <2>1 DEF Dec
  <2> QED
    BY <1>2, <2>2, <2>3 DEF Present
<1> QED
  BY <1>1, <1>2

\* An address leads from the root through the bridges that cover it.
LEMMA CoveringBuses ==
    ASSUME IInv, HandlersApart, ProperBuses, NEW a \in Nat, NEW W, Root(tree) \in W,
           \A p \in Buses : p \in W /\ HasTable(p[1]) =>
              \A k \in DOMAIN Table(p[1]) :
                 Covers(Dec(p, k), a) /\ Dec(p, k).type = "bridge" => Target(Dec(p, k)) \in W
    PROVE  \A x \in Buses : HasTable(x[1]) =>
              \A i \in DOMAIN Table(x[1]) : Covers(Dec(x, i), a) => x \in W
<1> DEFINE S == {x \in Buses : x \in W \/ ~HasTable(x[1]) \/ \A i \in DOMAIN Table(x[1]) : ~Covers(Dec(x, i), a)}
<1>1. tree \in Trees
  BY DEF IInv
<1>2. Root(tree) \in S
  BY <1>1, ReachedFacts DEF Buses
<1>3. ASSUME NEW p \in Buses, p \in S, NEW x \in Behind(tree, p)
      PROVE  x \in S
  <2>1. x \in Buses
    BY <1>1, <1>3, ReachedFacts DEF Buses
  <2>2. SUFFICES ASSUME HasTable(x[1]), NEW i \in DOMAIN Table(x[1]), Covers(Dec(x, i), a)
                 PROVE  x \in W
    BY <2>1
  <2>3. HasTable(p[1])
    BY <1>3 DEF Behind, BridgesAt, HasTable
  <2>4. PICK k \in DOMAIN Table(p[1]) : Dec(p, k).type = "bridge" /\ x = Target(Dec(p, k))
    BY <1>3, <2>3, BehindIs
  <2>5. PICK u \in SdbRecord, v \in SdbRecord : u = Dec(p, k) /\ v = Dec(x, i)
    BY <2>1, <2>2, <2>3, DecFacts
  <2>6. Fitting(Root(tree), p, k, u, x, i, v)
    BY <2>1, <2>2, <2>3, <2>5, Sound
  <2>7. Covers(v, a) /\ u.type = "bridge" /\ x = <<u.child, u.first>>
    BY <2>2, <2>4, <2>5 DEF Target
  <2>8. u.first <= v.first /\ v.last <= u.last
    BY <2>6, <2>7 DEF Fitting, Covers, Ranged
  <2>9. Covers(u, a)
    BY <2>7, <2>8 DEF Covers, SdbRecord
  <2>10. p \in W
    BY <1>3, <2>3, <2>5, <2>9
  <2> QED
    BY <2>3, <2>4, <2>5, <2>9, <2>10
<1> HIDE DEF S
<1>4. Buses \subseteq S
  BY <1>1, <1>2, <1>3, ReachedFacts DEF Buses
<1> QED
  BY <1>4 DEF S

\* On one bus at most one record covers an address.
LEMMA CoveredOnce ==
    ASSUME IInv, HandlersApart, ProperBuses, NEW a \in Nat, NEW b \in Buses, HasTable(b[1]),
           NEW i \in DOMAIN Table(b[1]), NEW j \in DOMAIN Table(b[1]),
           Covers(Dec(b, i), a), Covers(Dec(b, j), a)
    PROVE  i = j
<1>1. PICK u \in SdbRecord, v \in SdbRecord : u = Dec(b, i) /\ v = Dec(b, j)
  BY DecFacts
<1>2. Fitting(Root(tree), b, i, u, b, j, v)
  BY <1>1, Sound
<1>3. Covers(u, a) /\ Covers(v, a)
  BY <1>1
<1>4. ~(u.last < v.first \/ v.last < u.first) /\ Ranged(u) /\ Ranged(v)
  BY <1>3 DEF Covers, Ranged, SdbRecord
<1> QED
  BY <1>2, <1>4 DEF Fitting

\* The bus behind a bridge of a bus that was read, as a scan.
LEMMA BridgeScan ==
    ASSUME IInv, NEW b \in Buses, HasTable(b[1]), NEW h \in DOMAIN Table(b[1]), Dec(b, h).type = "bridge",
           NEW c, c = Scan("header", Dec(b, h).child, Dec(b, h).first)
    PROVE  GoodScan(c) /\ Lies(c) = Target(Dec(b, h)) /\ Lies(c) \in Behind(tree, b)
<1>1. c.step = "header" /\ c.at = Dec(b, h).child /\ c.base = Dec(b, h).first /\ c.reply = <<>>
  BY DEF Scan
<1>2. Lies(c) = Target(Dec(b, h))
  BY <1>1 DEF Lies, Target
<1>3. Target(Dec(b, h)) \in Behind(tree, b)
  BY BehindIs
<1>4. Behind(tree, b) \subseteq Buses
  BY ReachedFacts DEF Buses, IInv
<1> QED
  BY <1>1, <1>2, <1>3, <1>4 DEF GoodScan

\* What a search for a, having passed the buses of V, makes of bus b.
LooksAt(a, b, V) ==
  /\ (\A i \in DOMAIN Table(b[1]) : ~Covers(Dec(b, i), a)) => Covering(a) = {}
  /\ \A h \in DOMAIN Table(b[1]) :
       Covers(Dec(b, h), a) =>
         /\ Dec(b, h).type = "device" => Covering(a) = {Dec(b, h)}
         /\ Dec(b, h).type = "bridge" =>
              \A st : st.find.addr = a /\ Under(st) = {Target(Dec(b, h))} => Led(V \cup {b}, st)

\* What eb_sdb_find_by_address has found once it has looked at the table of bus b:
\* it goes on to the bus behind the bridge that covers the address, or it has the
\* one device that covers it, or there is none.
LEMMA AddressFinds ==
    ASSUME IInv, HandlersApart, ProperBuses, NEW a \in Nat, NEW old, old.find.addr = a,
           NEW b \in Buses, HasTable(b[1]), Under(old) = {b}, NEW V \in SUBSET Buses, Led(V, old)
    PROVE  LooksAt(a, b, V)
<1>1. Root(tree) \in V \cup {b}
  BY DEF Led
<1>2. \A p \in V : /\ HasTable(p[1])
                   /\ \A i \in DOMAIN Table(p[1]) : Covers(Dec(p, i), a) =>
                        Dec(p, i).type = "bridge" /\ Target(Dec(p, i)) \in V \cup {b}
  BY DEF Led
<1>3. ASSUME \A k \in DOMAIN Table(b[1]) : Covers(Dec(b, k), a) => Dec(b, k).type # "bridge",
             NEW d \in Covering(a)
      PROVE  \E i \in DOMAIN Table(b[1]) : d = Dec(b, i)
  <2>1. d \in Present /\ Covers(d, a)
    BY <1>3 DEF Covering
  <2>2. PICK x \in Buses : /\ HasTable(x[1])
                          /\ \E i \in DOMAIN Table(x[1]) : d = Dec(x, i) /\ d.type = "device"
    BY <2>1, PresentIs
  <2>3. PICK i \in DOMAIN Table(x[1]) : d = Dec(x, i) /\ d.type = "device"
    BY <2>2
  <2>4. \A p \in Buses : p \in V \cup {b} /\ HasTable(p[1]) =>
              \A k \in DOMAIN Table(p[1]) :
                 Covers(Dec(p, k), a) /\ Dec(p, k).type = "bridge" => Target(Dec(p, k)) \in V \cup {b}
    BY <1>2, <1>3
  <2>5. x \in V \cup {b}
    BY <1>1, <2>1, <2>2, <2>3, <2>4, CoveringBuses
  <2>6. x \notin V
    BY <1>2, <2>1, <2>3
  <2> QED
    BY <2>3, <2>5, <2>6
<1>4. ASSUME \A i \in DOMAIN Table(b[1]) : ~Covers(Dec(b, i), a)
      PROVE  Covering(a) = {}
  <2>1. ASSUME NEW d \in Covering(a) PROVE FALSE
    <3>1. PICK i \in DOMAIN Table(b[1]) : d = Dec(b, i)
      BY <1>3, <1>4, <2>1
    <3>2. Covers(d, a)
      BY <2>1 DEF Covering
    <3> QED
      BY <1>4, <3>1, <3>2
  <2> QED
    BY <2>1
<1>5. ASSUME NEW h \in DOMAIN Table(b[1]), Covers(Dec(b, h), a), Dec(b, h).type = "device"
      PROVE  Covering(a) = {Dec(b, h)}
  <2>1. \A k \in DOMAIN Table(b[1]) : Covers(Dec(b, k), a) => k = h
    BY <1>5, CoveredOnce
  <2>2. ASSUME NEW d \in Covering(a) PROVE d = Dec(b, h)
    <3>1. PICK i \in DOMAIN Table(b[1]) : d = Dec(b, i)
      BY <1>3, <1>5, <2>1, <2>2
    <3>2. Covers(d, a)
      BY <2>2 DEF Covering
    <3> QED
      BY <2>1, <3>1, <3>2
  <2>3. Dec(b, h) \in Covering(a)
    BY <1>5, PresentIs DEF Covering
  <2> QED
    BY <2>2, <2>3
<1>6. ASSUME NEW h \in DOMAIN Table(b[1]), Covers(Dec(b, h), a), Dec(b, h).type = "bridge",
             NEW st, st.find.addr = a, Under(st) = {Target(Dec(b, h))}
      PROVE  Led(V \cup {b}, st)
  <2>1. \A k \in DOMAIN Table(b[1]) : Covers(Dec(b, k), a) => k = h
    BY <1>6, CoveredOnce
  <2>2. ASSUME NEW p \in V \cup {b}, NEW i \in DOMAIN Table(p[1]), Covers(Dec(p, i), a)
        PROVE  Dec(p, i).type = "bridge" /\ Target(Dec(p, i)) \in (V \cup {b}) \cup Under(st)
    <3>1. CASE p \in V
      BY <1>2, <2>2, <3>1
    <3>2. CASE p = b
      BY <1>6, <2>1, <2>2, <3>2
    <3> QED
      BY <3>1, <3>2
  <2>3. \A p \in V \cup {b} : HasTable(p[1])
    BY <1>2
  <2> QED
    BY <1>1, <1>6, <2>2, <2>3 DEF Led
<1> QED
  BY <1>4, <1>5, <1>6, Zenon DEF LooksAt

\* The callback of eb_sdb_find_by_address has looked at a table.
LEMMA AddressSearch ==
    ASSUME IInv, SearchInv, NEW s \in DOMAIN scans, find.kind # "identity",
           scans[s].step = "all", scans[s].reply # <<>>,
           NEW table \in Tables(scans[s]), NEW mem, Len(table) \in Nat, DOMAIN table = 1 .. Len(table),
           NEW after, after = CbAddress(St, table, mem), Becomes(FreeScan(after, s)),
           failed' = failed \cup ({after.find.status} \cap {"OOM"}), UNCHANGED <<tree, handlers, changes>>
    PROVE  SearchInv'
<1>1. PICK st : st = [find |-> find', scans |-> scans', items |-> items']
  OBVIOUS
<1>2. st.find = find' /\ st.scans = scans'
  BY <1>1
<1>3. st.find.pc = "run" /\ st.find.kind = find.kind /\ st.find.addr = find.addr /\ find.addr \in Nat
      /\ changes \in Nat /\ find'.status = after.find.status
  BY <1>2, AddressIs, Under0
<1>4. PICK c : c = scans[s]
  OBVIOUS
<1>5. PICK b : b = <<c.at, c.base>>
  OBVIOUS
<1>6. ASSUME changes = 0
      PROVE  Reading(st, failed') /\ (ProperBuses => Finding(st))
  <2>0. failed = {}
    BY Running DEF IInv, Good, St, Told, Errors
  <2>1. GoodScan(c) /\ Reading(St, failed) /\ (ProperBuses => Finding(St))
    BY <1>4, <1>6, <2>0, Under0
  <2>2. /\ b \in Buses /\ HasTable(b[1]) /\ Lies(c) = b /\ DOMAIN table = DOMAIN Table(b[1])
        /\ \A i \in DOMAIN Table(b[1]) : table[i] = Dec(b, i)
    BY <1>4, <1>5, <2>1, TableRead
  <2>3. ASSUME ProperBuses
        PROVE  \E V \in SUBSET Buses : Led(V, St)
    <3>1. find.status = "wait"
      BY Running
    <3> QED
      BY <2>1, <2>3, <3>1 DEF Finding, St
  <2>4. Under(St) = {b} /\ St.find.addr = find.addr
    <3>1. DOMAIN scans = {s}
      BY OneScan
    <3> QED
      BY <1>4, <2>2, <3>1 DEF Under, St
  <2>5. ASSUME ProperBuses, NEW V \in SUBSET Buses, Led(V, St)
        PROVE  LooksAt(find.addr, b, V)
    <3>1. HandlersApart
      BY DEF SearchInv
    <3>2. PICK a \in Nat : a = find.addr
      BY <1>3
    <3>3. PICK old : old = St
      OBVIOUS
    <3>4. old.find.addr = a /\ Under(old) = {b} /\ Led(V, old)
      BY <2>4, <2>5, <3>2, <3>3
    <3>5. LooksAt(a, b, V)
      BY <2>2, <2>5, <3>1, <3>4, AddressFinds
    <3> QED
      BY <3>2, <3>5
  <2>6. CASE /\ \A i \in DOMAIN table : ~Covers(table[i], find.addr)
             /\ find'.status = "ADDRESS" /\ DOMAIN scans' = {}
    <3>1. Reading(st, failed')
      BY <1>2, <2>6 DEF Reading
    <3>2. ASSUME ProperBuses PROVE Covering(find.addr) = {}
      <4>1. PICK V \in SUBSET Buses : Led(V, St)
        BY <2>3, <3>2
      <4>2. \A i \in DOMAIN Table(b[1]) : ~Covers(Dec(b, i), find.addr)
        BY <2>2, <2>6
      <4> QED
        BY <2>5, <3>2, <4>1, <4>2, Zenon DEF LooksAt
    <3>3. ProperBuses => Finding(st)
      BY <1>2, <1>3, <2>6, <3>2 DEF Finding
    <3> QED
      BY <3>1, <3>3
  <2>7. ASSUME NEW h \in DOMAIN table, Covers(table[h], find.addr), table[h].type = "device",
               find'.status = "OK", find'.output = <<table[h]>>, DOMAIN scans' = {}
        PROVE  Reading(st, failed') /\ (ProperBuses => Finding(st))
    <3>1. Reading(st, failed')
      BY <1>2, <2>7 DEF Reading
    <3>2. ASSUME ProperBuses PROVE Covering(find.addr) = {table[h]}
      <4>1. PICK V \in SUBSET Buses : Led(V, St)
        BY <2>3, <3>2
      <4>2. h \in DOMAIN Table(b[1]) /\ Covers(Dec(b, h), find.addr) /\ Dec(b, h).type = "device" /\ table[h] = Dec(b, h)
        BY <2>2, <2>7
      <4>3. Covering(find.addr) = {Dec(b, h)}
        BY <2>5, <3>2, <4>1, <4>2, Zenon DEF LooksAt
      <4> QED
        BY <4>2, <4>3
    <3>3. Range(<<table[h]>>) = {table[h]}
      BY DEF Range
    <3>4. ProperBuses => Finding(st)
      BY <1>2, <1>3, <2>7, <3>2, <3>3 DEF Finding
    <3> QED
      BY <3>1, <3>4
  <2>8. ASSUME NEW h \in DOMAIN table, Covers(table[h], find.addr), table[h].type # "device",
               find'.status = "wait", NEW u, DOMAIN scans' = {u},
               scans'[u] = Scan("header", table[h].child, table[h].first)
        PROVE  Reading(st, failed') /\ (ProperBuses => Finding(st))
    <3>1. h \in DOMAIN Table(b[1]) /\ table[h] = Dec(b, h) /\ Dec(b, h).type = "bridge"
          /\ Covers(Dec(b, h), find.addr)
      BY <2>2, <2>8 DEF Covers
    <3>2. PICK r : r = Scan("header", Dec(b, h).child, Dec(b, h).first)
      OBVIOUS
    <3>3. GoodScan(r) /\ Lies(r) = Target(Dec(b, h)) /\ DOMAIN st.scans = {u} /\ st.scans[u] = r
      BY <1>2, <2>2, <2>8, <3>1, <3>2, BridgeScan
    <3>4. Reading(st, failed')
      BY <1>2, <2>8, <3>3 DEF Reading
    <3>5. Under(st) = {Target(Dec(b, h))}
      BY <3>3 DEF Under
    <3>6. ASSUME ProperBuses PROVE Finding(st)
      <4>1. PICK V \in SUBSET Buses : Led(V, St)
        BY <2>3, <3>6
      <4>2. Led(V \cup {b}, st)
        BY <1>3, <2>5, <3>1, <3>5, <3>6, <4>1, Zenon DEF LooksAt
      <4>3. V \cup {b} \in SUBSET Buses
        BY <2>2
      <4> QED
        BY <1>2, <1>3, <2>8, <4>2, <4>3 DEF Finding
    <3> QED
      BY <3>4, <3>6
  <2>9. ASSUME find'.status = "OOM", DOMAIN scans' = {}
        PROVE  Reading(st, failed') /\ (ProperBuses => Finding(st))
    <3>1. failed' # {}
      BY <1>3, <2>9
    <3> QED
      BY <1>2, <1>3, <2>9, <3>1 DEF Reading, Finding
  <2>10. \/ /\ \A i \in DOMAIN table : ~Covers(table[i], find.addr)
            /\ find'.status = "ADDRESS" /\ DOMAIN scans' = {}
         \/ \E h \in DOMAIN table :
              /\ Covers(table[h], find.addr)
              /\ \/ /\ table[h].type = "device" /\ find'.status = "OK"
                    /\ find'.output = <<table[h]>> /\ DOMAIN scans' = {}
                 \/ /\ table[h].type # "device" /\ find'.status = "wait"
                    /\ \E u : DOMAIN scans' = {u}
                              /\ scans'[u] = Scan("header", table[h].child, table[h].first)
                 \/ find'.status = "OOM" /\ DOMAIN scans' = {}
    BY AddressIs, Zenon
  <2> QED
    BY <2>6, <2>7, <2>8, <2>9, <2>10, Zenon
<1>7. Searched(st, failed', changes')
  BY <1>3, <1>6 DEF Searched
<1> QED
  BY <1>1, <1>7, SearchKeeps

-----------------------------------------------------------------------------
(* The callback of eb_sdb_find_by_identity. *)

\* The scan of the bus behind a bridge.
ScanOf(r) == Scan("header", r.child, r.first)

\* w is st with one more scan, c.
Adds(st, w, c) ==
  \E u : /\ u \notin DOMAIN st.scans /\ DOMAIN w.scans = DOMAIN st.scans \cup {u}
         /\ w.scans[u] = c /\ \A i \in DOMAIN st.scans : w.scans[i] = st.scans[i]

\* What the callback may make of one record: a scan of the bus behind a bridge, or
\* no memory for it, a device of the identity, or a record to pass over.
Took(st, w, r) ==
  /\ w.find.pc = st.find.pc /\ w.find.kind = st.find.kind /\ w.find.id = st.find.id
  /\ w.find.size = st.find.size
  /\ \/ /\ r.type = "bridge" /\ Adds(st, w, ScanOf(r))
        /\ w.find.status = st.find.status
        /\ w.find.fill = st.find.fill /\ w.find.output = st.find.output
     \/ /\ r.type = "bridge" /\ w.find.status = "OOM" /\ w.scans = st.scans
        /\ w.find.fill = st.find.fill /\ w.find.output = st.find.output
     \/ /\ r.type = "device" /\ r.id = st.find.id /\ w.scans = st.scans
        /\ w.find.status = st.find.status /\ w.find.fill = st.find.fill + 1
        /\ w.find.output = IF st.find.fill < st.find.size THEN Append(st.find.output, r)
                           ELSE st.find.output
     \/ /\ r.type # "bridge" /\ ~(r.type = "device" /\ r.id = st.find.id) /\ w = st

\* One record.
LEMMA IdentifyTakes ==
    ASSUME NEW R, NEW Q, NEW st, Shape(st, R, Q), NEW table, NEW i, NEW mem,
           table[i] \in R, Scan("header", table[i].child, table[i].first) \in Q
    PROVE  Took(st, Identify(st, table, i, mem), table[i])
<1>1. PICK r \in R : r = table[i]
  OBVIOUS
<1>2. PICK f \in FindRecord(R) : f = st.find
  BY ShapeFacts
<1>3. f.pending \in Int /\ f.fill \in Nat
  BY <1>2, ShapeFacts
<1>4. PICK w : w = Identify(st, table, i, mem)
  OBVIOUS
<1>5. CASE r.type = "bridge" /\ mem[i] /\ Spare(st) # {}
  <2>1. PICK n : n = NewScan(st, ScanOf(r))
    OBVIOUS
  <2>2. ScanOf(r) \in Q /\ Shape(n, R, Q) /\ Grown(st, n)
    BY <1>1, <1>5, <2>1, NewScanFacts DEF ScanOf
  <2>3. n.find = f /\ n.find.pending + 1 \in Int
    BY <1>2, <1>3, <2>2 DEF Grown
  <2>4. PICK g : g = [f EXCEPT !.pending = @ + 1]
    OBVIOUS
  <2>5. w = With(n, g)
    <3>1. w = [n EXCEPT !.find.pending = @ + 1]
      BY <1>1, <1>4, <1>5, <2>1 DEF Identify, ScanBus, ScanOf
    <3>2. PICK k \in Int : k = n.find.pending + 1
      BY <2>3
    <3>3. [n EXCEPT !.find.pending = k] = With(n, [n.find EXCEPT !.pending = k])
      BY <2>2, Updates
    <3> QED
      BY <2>3, <2>4, <3>1, <3>2, <3>3
  <2>6. w.find = g /\ w.scans = n.scans
    BY <2>5 DEF With
  <2>7. /\ g.pc = f.pc /\ g.kind = f.kind /\ g.size = f.size /\ g.id = f.id
        /\ g.status = f.status /\ g.output = f.output /\ g.fill = f.fill
    BY <2>4 DEF FindRecord
  <2>8. Adds(st, n, ScanOf(r))
    BY <1>5, <2>1, NewScanAdds DEF Adds
  <2>9. Adds(st, w, ScanOf(r))
    BY <2>6, <2>8 DEF Adds
  <2> QED
    BY <1>1, <1>2, <1>4, <1>5, <2>6, <2>7, <2>9 DEF Took
<1>6. CASE r.type = "bridge" /\ ~(mem[i] /\ Spare(st) # {})
  <2>1. PICK g : g = [f EXCEPT !.status = "OOM"]
    OBVIOUS
  <2>2. w = With(st, g)
    <3>1. w = [st EXCEPT !.find.status = "OOM"]
      BY <1>1, <1>4, <1>6 DEF Identify
    <3>2. "OOM" \in Statuses
      BY DEF Statuses
    <3> QED
      BY <1>2, <2>1, <3>1, <3>2, Updates
  <2>3. /\ g.pc = f.pc /\ g.kind = f.kind /\ g.size = f.size /\ g.id = f.id
        /\ g.status = "OOM" /\ g.output = f.output /\ g.fill = f.fill
    BY <2>1 DEF FindRecord
  <2>4. w.find = g /\ w.scans = st.scans
    BY <2>2 DEF With
  <2> QED
    BY <1>1, <1>2, <1>4, <1>6, <2>3, <2>4 DEF Took
<1>7. CASE r.type = "device" /\ r.id = st.find.id
  <2>1. PICK out : out = IF f.fill < f.size THEN Append(f.output, r) ELSE f.output
    OBVIOUS
  <2>2. PICK g : g = [f EXCEPT !.output = out, !.fill = f.fill + 1]
    OBVIOUS
  <2>3. w.find = g /\ w.scans = st.scans
    <3>1. w = [st EXCEPT !.find.output = out, !.find.fill = f.fill + 1]
      BY <1>1, <1>2, <1>4, <1>7, <2>1 DEF Identify, Shape, FindRecord
    <3> QED
      BY <1>2, <2>2, <3>1 DEF Shape
  <2>4. /\ g.pc = f.pc /\ g.kind = f.kind /\ g.size = f.size /\ g.id = f.id
        /\ g.status = f.status /\ g.output = out /\ g.fill = f.fill + 1
    BY <2>2 DEF FindRecord
  <2> QED
    BY <1>1, <1>2, <1>4, <1>7, <2>1, <2>3, <2>4 DEF Took
<1>8. CASE r.type # "bridge" /\ ~(r.type = "device" /\ r.id = st.find.id)
  <2>1. w = st
    BY <1>1, <1>4, <1>8 DEF Identify
  <2> QED
    BY <1>1, <1>4, <1>8, <2>1 DEF Took
<1> QED
  BY <1>5, <1>6, <1>7, <1>8

\* A device is counted, and put out if there is room.
LEMMA TallyStep ==
    ASSUME NEW R, NEW f, NEW g, NEW F, NEW r \in R, r \notin F, Tally(F, f),
           f.output \in Seq(R), f.fill \in Nat, f.size \in Nat,
           g.size = f.size, g.fill = f.fill + 1,
           g.output = IF f.fill < f.size THEN Append(f.output, r) ELSE f.output
    PROVE  Tally(F \cup {r}, g)
<1>1. PICK s \in Seq(R), n \in Nat, m \in Nat : s = f.output /\ n = f.fill /\ m = f.size
  OBVIOUS
<1>2. /\ IsFiniteSet(F) /\ n = Cardinality(F) /\ Len(s) = LeastOf(m, n)
      /\ Range(s) \subseteq F /\ IsInjective(s)
  BY <1>1 DEF Tally
<1>3. IsFiniteSet(F \cup {r}) /\ Cardinality(F \cup {r}) = n + 1
  BY <1>2, FS_AddElement
<1>4. PICK o : o = g.output
  OBVIOUS
<1>5. CASE n < m
  <2>0. o = Append(s, r)
    BY <1>1, <1>4, <1>5
  <2>1. o = Append(s, r) /\ Len(s) = n
    BY <1>2, <1>5, <2>0 DEF LeastOf
  <2>2. Len(o) = n + 1 /\ DOMAIN o = 1 .. (n + 1) /\ o[n + 1] = r /\ \A i \in 1 .. n : o[i] = s[i]
    BY <2>1
  <2>3. \A i \in 1 .. n : s[i] \in F /\ s[i] # r
    BY <1>2, <2>1 DEF Range
  <2>4. \A i \in 1 .. n, j \in 1 .. n : s[i] = s[j] => i = j
    BY <1>2, <2>1 DEF IsInjective
  <2>5. \A i \in 1 .. (n + 1) : i = n + 1 \/ i \in 1 .. n
    OBVIOUS
  <2>6. Range(o) \subseteq F \cup {r}
    BY <2>2, <2>3, <2>5 DEF Range
  <2>7. IsInjective(o)
    BY <2>2, <2>3, <2>4, <2>5 DEF IsInjective
  <2>8. LeastOf(m, n + 1) = n + 1
    BY <1>5 DEF LeastOf
  <2> QED
    BY <1>1, <1>3, <1>4, <2>2, <2>6, <2>7, <2>8 DEF Tally
<1>6. CASE ~(n < m)
  <2>0. o = s
    BY <1>1, <1>4, <1>6
  <2>1. o = s /\ Len(s) = m
    BY <1>2, <1>6, <2>0 DEF LeastOf
  <2>2. LeastOf(m, n + 1) = m
    BY <1>6 DEF LeastOf
  <2> QED
    BY <1>1, <1>2, <1>3, <1>4, <2>1, <2>2 DEF Tally
<1> QED
  BY <1>5, <1>6

\* What the callback keeps: the scans under way, and the call but for its status
\* and what it has found.
Kept(v, x) ==
  /\ x.find.pc = v.find.pc /\ x.find.kind = v.find.kind /\ x.find.id = v.find.id
  /\ x.find.size = v.find.size /\ x.find.status \in {v.find.status, "OOM"}
  /\ DOMAIN v.scans \subseteq DOMAIN x.scans
  /\ \A u \in DOMAIN v.scans : x.scans[u] = v.scans[u]

\* The scans it adds are those of the bridges among the first k records.
Opens(v, x, k, table) ==
  /\ \A u \in DOMAIN x.scans \ DOMAIN v.scans :
       \E i \in 1 .. k : table[i].type = "bridge" /\ x.scans[u] = ScanOf(table[i])
  /\ x.find.status = "OK" =>
       \A i \in 1 .. k : table[i].type = "bridge" =>
         \E u \in DOMAIN x.scans \ DOMAIN v.scans : x.scans[u] = ScanOf(table[i])

\* No two of them are the same.
Apart(v, x) ==
  \A u, w \in DOMAIN x.scans \ DOMAIN v.scans : u # w => x.scans[u] # x.scans[w]

\* The devices of an identity among the first k records.
Matching(table, k, id) ==
  {table[i] : i \in {j \in 1 .. k : table[j].type = "device" /\ table[j].id = id}}

\* No two bridges of a table lead to the same bus, no device is listed twice.
Unlike(table, n) ==
  \A i, j \in 1 .. n : i # j =>
    /\ table[i].type = "bridge" /\ table[j].type = "bridge" => ScanOf(table[i]) # ScanOf(table[j])
    /\ table[i].type = "device" /\ table[j].type = "device" => table[i] # table[j]

\* The devices of an identity are not among those of F.
Fresh(table, n, id, F) ==
  \A i \in 1 .. n : table[i].type = "device" /\ table[i].id = id => table[i] \notin F

\* One record more: what is kept.
LEMMA KeptOn ==
    ASSUME NEW v, NEW x, NEW w, NEW r, Kept(v, x), Took(x, w, r)
    PROVE  Kept(v, w)
<1>1. /\ w.find.pc = x.find.pc /\ w.find.kind = x.find.kind /\ w.find.id = x.find.id
      /\ w.find.size = x.find.size /\ w.find.status \in {x.find.status, "OOM"}
  BY DEF Took
<1>2. DOMAIN x.scans \subseteq DOMAIN w.scans /\ \A u \in DOMAIN x.scans : w.scans[u] = x.scans[u]
  BY DEF Took, Adds
<1> QED
  BY <1>1, <1>2 DEF Kept

\* One record more: the scans that are added.
LEMMA OpensOn ==
    ASSUME NEW v, NEW x, NEW w, NEW table, NEW k \in Nat \ {0}, Kept(v, x),
           Opens(v, x, k - 1, table), Took(x, w, table[k])
    PROVE  Opens(v, w, k, table)
<1>1. \A i \in 1 .. k : i = k \/ i \in 1 .. (k - 1)
  OBVIOUS
<1>2. k \in 1 .. k /\ \A i \in 1 .. (k - 1) : i \in 1 .. k
  OBVIOUS
<1>3. DOMAIN v.scans \subseteq DOMAIN x.scans
  BY DEF Kept
<1>4. CASE table[k].type = "bridge" /\ Adds(x, w, ScanOf(table[k])) /\ w.find.status = x.find.status
  <2>1. PICK u : /\ u \notin DOMAIN x.scans /\ DOMAIN w.scans = DOMAIN x.scans \cup {u}
                 /\ w.scans[u] = ScanOf(table[k]) /\ \A i \in DOMAIN x.scans : w.scans[i] = x.scans[i]
    BY <1>4 DEF Adds
  <2>2. u \in DOMAIN w.scans \ DOMAIN v.scans
    BY <1>3, <2>1
  <2>3. \A p \in DOMAIN w.scans \ DOMAIN v.scans :
           \E i \in 1 .. k : table[i].type = "bridge" /\ w.scans[p] = ScanOf(table[i])
    <3> TAKE p \in DOMAIN w.scans \ DOMAIN v.scans
    <3>1. CASE p = u
      BY <1>2, <1>4, <2>1, <3>1
    <3>2. CASE p # u
      <4>1. p \in DOMAIN x.scans \ DOMAIN v.scans /\ w.scans[p] = x.scans[p]
        BY <2>1, <3>2
      <4>2. PICK i \in 1 .. (k - 1) : table[i].type = "bridge" /\ x.scans[p] = ScanOf(table[i])
        BY <4>1, Zenon DEF Opens
      <4> QED
        BY <1>2, <4>1, <4>2
    <3> QED
      BY <3>1, <3>2
  <2>4. ASSUME w.find.status = "OK", NEW i \in 1 .. k, table[i].type = "bridge"
        PROVE  \E p \in DOMAIN w.scans \ DOMAIN v.scans : w.scans[p] = ScanOf(table[i])
    <3>1. CASE i = k
      BY <2>1, <2>2, <3>1
    <3>2. CASE i \in 1 .. (k - 1)
      <4>1. PICK p \in DOMAIN x.scans \ DOMAIN v.scans : x.scans[p] = ScanOf(table[i])
        BY <1>4, <2>4, <3>2, Zenon DEF Opens
      <4> QED
        BY <2>1, <4>1
    <3> QED
      BY <1>1, <3>1, <3>2
  <2> QED
    BY <2>3, <2>4, Zenon DEF Opens
<1>5. CASE /\ w.scans = x.scans /\ w.find.status \in {x.find.status, "OOM"}
           /\ w.find.status # "OK" \/ table[k].type # "bridge"
  <2>1. \A p \in DOMAIN w.scans \ DOMAIN v.scans :
           \E i \in 1 .. k : table[i].type = "bridge" /\ w.scans[p] = ScanOf(table[i])
    BY <1>2, <1>5 DEF Opens
  <2>2. ASSUME w.find.status = "OK", NEW i \in 1 .. k, table[i].type = "bridge"
        PROVE  \E p \in DOMAIN w.scans \ DOMAIN v.scans : w.scans[p] = ScanOf(table[i])
    <3>1. i \in 1 .. (k - 1) /\ x.find.status = "OK"
      BY <1>1, <1>5, <2>2
    <3> QED
      BY <1>5, <2>2, <3>1 DEF Opens
  <2> QED
    BY <2>1, <2>2, Zenon DEF Opens
<1> QED
  BY <1>4, <1>5 DEF Took

\* One record more: the scans stay apart.
LEMMA ApartOn ==
    ASSUME NEW v, NEW x, NEW w, NEW table, NEW n \in Nat, NEW k \in 1 .. n, Kept(v, x),
           Opens(v, x, k - 1, table), Took(x, w, table[k]), Unlike(table, n), Apart(v, x)
    PROVE  Apart(v, w)
<1>1. \A i \in 1 .. (k - 1) : i \in 1 .. n /\ i # k
  OBVIOUS
<1>2. DOMAIN v.scans \subseteq DOMAIN x.scans
  BY DEF Kept
<1>3. CASE table[k].type = "bridge" /\ Adds(x, w, ScanOf(table[k]))
  <2>1. PICK u : /\ u \notin DOMAIN x.scans /\ DOMAIN w.scans = DOMAIN x.scans \cup {u}
                 /\ w.scans[u] = ScanOf(table[k]) /\ \A i \in DOMAIN x.scans : w.scans[i] = x.scans[i]
    BY <1>3 DEF Adds
  <2>2. ASSUME NEW p \in DOMAIN x.scans \ DOMAIN v.scans PROVE w.scans[p] # w.scans[u]
    <3>1. PICK i \in 1 .. (k - 1) : table[i].type = "bridge" /\ x.scans[p] = ScanOf(table[i])
      BY <2>2, Zenon DEF Opens
    <3>2. ScanOf(table[i]) # ScanOf(table[k])
      BY <1>1, <1>3, <3>1, Zenon DEF Unlike
    <3> QED
      BY <2>1, <3>1, <3>2
  <2> QED
    BY <2>1, <2>2 DEF Apart
<1>4. CASE w.scans = x.scans
  BY <1>4 DEF Apart
<1> QED
  BY <1>3, <1>4 DEF Took

\* One record more: the devices that are counted.
LEMMA TallyOn ==
    ASSUME NEW R, NEW Q, NEW x, Shape(x, R, Q), NEW w, NEW table, NEW n \in Nat, NEW k \in 1 .. n,
           table[k] \in R, Took(x, w, table[k]), NEW id, x.find.id = id, Unlike(table, n), NEW F, Fresh(table, n, id, F),
           Tally(F \cup Matching(table, k - 1, id), x.find)
    PROVE  Tally(F \cup Matching(table, k, id), w.find)
<1>1. \A i \in 1 .. k : i = k \/ i \in 1 .. (k - 1)
  OBVIOUS
<1>2. k \in 1 .. k /\ \A i \in 1 .. (k - 1) : i \in 1 .. k /\ i \in 1 .. n /\ i # k
  OBVIOUS
<1>3. PICK G : G = F \cup Matching(table, k - 1, id)
  OBVIOUS
<1>4. CASE table[k].type = "device" /\ table[k].id = id
  <2>1. F \cup Matching(table, k, id) = G \cup {table[k]}
    BY <1>1, <1>2, <1>3, <1>4 DEF Matching
  <2>2. table[k] \notin F
    BY <1>4, Zenon DEF Fresh
  <2>3. table[k] \notin Matching(table, k - 1, id)
    BY <1>2, <1>4 DEF Matching, Unlike
  <2>4. /\ w.find.size = x.find.size /\ w.find.fill = x.find.fill + 1
        /\ w.find.output = IF x.find.fill < x.find.size THEN Append(x.find.output, table[k])
                           ELSE x.find.output
    BY <1>4 DEF Took
  <2>5. x.find.output \in Seq(R) /\ x.find.fill \in Nat /\ x.find.size \in Nat
    BY ShapeFacts
  <2>6. PICK r \in R : r = table[k]
    OBVIOUS
  <2>7. PICK f, g : f = x.find /\ g = w.find
    OBVIOUS
  <2>8. Tally(G, f) /\ r \notin G
    BY <1>3, <2>2, <2>3, <2>6, <2>7
  <2>9. Tally(G \cup {r}, g)
    BY <2>4, <2>5, <2>6, <2>7, <2>8, TallyStep
  <2> QED
    BY <2>1, <2>6, <2>7, <2>9
<1>5. CASE ~(table[k].type = "device" /\ table[k].id = id)
  <2>1. Matching(table, k, id) = Matching(table, k - 1, id)
    BY <1>1, <1>2, <1>5 DEF Matching
  <2>2. w.find.size = x.find.size /\ w.find.fill = x.find.fill /\ w.find.output = x.find.output
    BY <1>5 DEF Took
  <2> QED
    BY <2>1, <2>2 DEF Tally
<1> QED
  BY <1>4, <1>5

\* x is what the first k records of a table make of v.
Sought(v, x, k, table, n) ==
  /\ Kept(v, x) /\ Opens(v, x, k, table)
  /\ Unlike(table, n) =>
       /\ Apart(v, x)
       /\ \A F : Fresh(table, n, v.find.id, F) /\ Tally(F, v.find)
                   => Tally(F \cup Matching(table, k, v.find.id), x.find)

\* Nothing is made of no record.
LEMMA SoughtNone ==
    ASSUME NEW v, NEW table, NEW n
    PROVE  Sought(v, v, 0, table, n)
<1>1. Kept(v, v) /\ Opens(v, v, 0, table) /\ Apart(v, v)
  BY DEF Kept, Opens, Apart
<1>2. \A F : F \cup Matching(table, 0, v.find.id) = F
  BY DEF Matching
<1> QED
  BY <1>1, <1>2 DEF Sought

\* One record more.
LEMMA SoughtOn ==
    ASSUME NEW R, NEW Q, NEW v, NEW x, Shape(x, R, Q), NEW w, NEW table, NEW n \in Nat, NEW k \in 1 .. n,
           table[k] \in R, Took(x, w, table[k]), Sought(v, x, k - 1, table, n)
    PROVE  Sought(v, w, k, table, n)
<1>1. Kept(v, x) /\ Opens(v, x, k - 1, table)
  BY DEF Sought
<1>2. Kept(v, w)
  BY <1>1, KeptOn
<1>3. Opens(v, w, k, table)
  BY <1>1, OpensOn
<1>4. ASSUME Unlike(table, n)
      PROVE  /\ Apart(v, w)
             /\ \A F : Fresh(table, n, v.find.id, F) /\ Tally(F, v.find)
                         => Tally(F \cup Matching(table, k, v.find.id), w.find)
  <2>1. Apart(v, x)
    BY <1>4 DEF Sought
  <2>2. Apart(v, w)
    BY <1>1, <1>4, <2>1, ApartOn
  <2>3. PICK id : id = v.find.id /\ x.find.id = id
    BY <1>1 DEF Kept
  <2>4. ASSUME NEW F, Fresh(table, n, id, F), Tally(F, v.find)
        PROVE  Tally(F \cup Matching(table, k, id), w.find)
    <3>1. Tally(F \cup Matching(table, k - 1, id), x.find)
      BY <1>4, <2>3, <2>4, Zenon DEF Sought
    <3> QED
      BY <1>4, <2>3, <2>4, <3>1, TallyOn
  <2> QED
    BY <2>2, <2>3, <2>4, Zenon
<1> QED
  BY <1>2, <1>3, <1>4, Zenon DEF Sought

\* The whole table.
LEMMA CbIdentitySeeks ==
    ASSUME NEW R, NEW Q, NEW st, Shape(st, R, Q), NEW table, NEW mem, Len(table) \in Nat,
           \A i \in 1 .. Len(table) :
              table[i] \in R /\ Scan("header", table[i].child, table[i].first) \in Q
    PROVE  Sought([st EXCEPT !.find.pending = @ - 1], CbIdentity(st, table, mem), Len(table), table, Len(table))
<1> DEFINE v == [st EXCEPT !.find.pending = @ - 1]
           g == CHOOSE h : Through(h, Len(table), st, table, mem)
<1>0. PICK n \in Nat : n = Len(table)
  OBVIOUS
<1>1. Through(g, n, st, table, mem)
  <2>1. \E h : Through(h, n, st, table, mem)
    BY ThroughExists
  <2> QED
    BY <1>0, <2>1
<1>2. CbIdentity(st, table, mem) = g[n]
  BY <1>0, Zenon DEF CbIdentity, Through
<1> HIDE DEF g
<1>3. \A i \in 0 .. n : g[i] = IF i = 0 THEN v ELSE Identify(g[i - 1], table, i, mem)
  BY <1>1, Zenon DEF Through
<1>4. Shape(v, R, Q)
  <2>1. PICK k \in Int : k = st.find.pending - 1
    BY ShapeFacts
  <2>2. /\ [st EXCEPT !.find.pending = k] = With(st, [st.find EXCEPT !.pending = k])
        /\ [st.find EXCEPT !.pending = k] \in FindRecord(R)
    BY Updates
  <2>3. v = With(st, [st.find EXCEPT !.pending = k])
    BY <2>1, <2>2
  <2> QED
    BY <2>2, <2>3, WithShape
<1> HIDE DEF v
<1> DEFINE S == {i \in 0 .. n : Shape(g[i], R, Q) /\ Sought(v, g[i], i, table, n)}
<1>5. 0 \in S
  <2>1. g[0] = v
    BY <1>3
  <2> QED
    BY <1>4, <2>1, SoughtNone
<1>6. ASSUME NEW i \in 1 .. n, i - 1 \in S PROVE i \in S
  <2>1. i \in 0 .. n /\ i # 0 /\ g[i] = Identify(g[i - 1], table, i, mem)
    BY <1>3
  <2>2. PICK x : x = g[i - 1]
    OBVIOUS
  <2>3. Shape(x, R, Q) /\ Sought(v, x, i - 1, table, n)
    BY <1>6, <2>2
  <2>4. table[i] \in R /\ Scan("header", table[i].child, table[i].first) \in Q
    BY <1>0
  <2>5. PICK w : w = Identify(x, table, i, mem)
    OBVIOUS
  <2>6. Shape(w, R, Q) /\ Took(x, w, table[i])
    BY <2>3, <2>4, <2>5, IdentifyFacts, IdentifyTakes
  <2>7. Sought(v, w, i, table, n)
    BY <2>3, <2>4, <2>6, SoughtOn
  <2> QED
    BY <2>1, <2>2, <2>5, <2>6, <2>7
<1> HIDE DEF S
<1>7. 0 .. n \subseteq S
  BY <1>5, <1>6, IntervalInd
<1>8. n \in S
  BY <1>7
<1> QED
  BY <1>0, <1>2, <1>8 DEF S, v

\* What eb_cb_find_by_identity makes of a table.
LEMMA IdentityIs ==
    ASSUME IInv, NEW table, NEW mem, Len(table) \in Nat, NEW after, after = CbIdentity(St, table, mem)
    PROVE  \E v : v.scans = scans /\ SameCall(find, v.find) /\ v.find.pc = find.pc
                  /\ Sought(v, after, Len(table), table, Len(table))
<1>1. PICK R, X : /\ Shape(St, R, ScanRecord(X))
                  /\ \A i \in 1 .. Len(table) :
                       /\ table[i] \in R
                       /\ Scan("header", table[i].child, table[i].first) \in ScanRecord(X)
  BY Roomy
<1>2. PICK v : v = [St EXCEPT !.find.pending = @ - 1]
  OBVIOUS
<1>3. Sought(v, after, Len(table), table, Len(table))
  BY <1>1, <1>2, CbIdentitySeeks
<1>4. v.scans = scans /\ SameCall(find, v.find) /\ v.find.pc = find.pc
  <2>1. find \in FindRecord(R)
    BY <1>1 DEF Shape, St
  <2>2. v = [find |-> [find EXCEPT !.pending = @ - 1], scans |-> scans, items |-> items]
    BY <1>2 DEF St
  <2> QED
    BY <2>1, <2>2 DEF FindRecord, SameCall
<1> QED
  BY <1>3, <1>4

\* The records of bus b, as a table.
TableOf(b, table, n) ==
  /\ b \in Buses /\ HasTable(b[1]) /\ n \in Nat /\ DOMAIN Table(b[1]) = 1 .. n
  /\ \A i \in 1 .. n : table[i] = Dec(b, i)

\* On a proper bus no two bridges lead to the same bus, and no device is listed twice.
LEMMA BusUnlike ==
    ASSUME IInv, HandlersApart, ProperBuses, NEW b, NEW table, NEW n, TableOf(b, table, n)
    PROVE  Unlike(table, n)
<1>1. b \in Buses /\ HasTable(b[1]) /\ DOMAIN Table(b[1]) = 1 .. n /\ \A i \in 1 .. n : table[i] = Dec(b, i)
  BY DEF TableOf
<1>2. ASSUME NEW i \in 1 .. n, NEW j \in 1 .. n, i # j
      PROVE  /\ table[i].type = "bridge" /\ table[j].type = "bridge" => ScanOf(table[i]) # ScanOf(table[j])
             /\ table[i].type = "device" /\ table[j].type = "device" => table[i] # table[j]
  <2>1. Fitting(Root(tree), b, i, Dec(b, i), b, j, Dec(b, j))
    BY <1>1, <1>2, Sound
  <2>2. PICK x, y : x = table[i] /\ y = table[j] /\ Fitting(Root(tree), b, i, x, b, j, y)
    BY <1>1, <2>1
  <2>3. <<b, i>> # <<b, j>>
    BY <1>2
  <2>4. /\ x.type = "bridge" /\ y.type = "bridge" => <<x.child, x.first>> # <<y.child, y.first>>
        /\ x.type = "device" /\ y.type = "device" => x # y
    BY <2>2, <2>3 DEF Fitting
  <2>5. ScanOf(x) = ScanOf(y) => <<x.child, x.first>> = <<y.child, y.first>>
    BY DEF ScanOf, Scan
  <2> QED
    BY <2>2, <2>4, <2>5
<1> QED
  BY <1>2, Zenon DEF Unlike

\* What is behind a bus under way is neither done nor under way.
LEMMA BehindNew ==
    ASSUME IInv, HandlersApart, ProperBuses, NEW b \in Buses, HasTable(b[1]), NEW st, b \in Under(st),
           NEW V, Visited(V, st), NEW c \in Behind(tree, b)
    PROVE  c \notin V \cup Under(st)
<1>1. V \subseteq Buses /\ (\A p \in V : HasTable(p[1])) /\ b \notin V
  BY DEF Visited
<1>2. PICK i \in DOMAIN Table(b[1]) : Dec(b, i).type = "bridge" /\ c = Target(Dec(b, i))
  BY BehindIs
<1>3. PICK x : x = Dec(b, i)
  OBVIOUS
<1>4. c # Root(tree)
  <2>1. Fitting(Root(tree), b, i, x, b, i, x)
    BY <1>3, Sound
  <2> QED
    BY <1>2, <1>3, <2>1 DEF Fitting, Target
<1>5. ASSUME NEW p \in V, c \in Behind(tree, p) PROVE FALSE
  <2>1. p \in Buses /\ HasTable(p[1]) /\ p # b
    BY <1>1
  <2>2. PICK j \in DOMAIN Table(p[1]) : Dec(p, j).type = "bridge" /\ c = Target(Dec(p, j))
    BY <1>5, <2>1, BehindIs
  <2>3. PICK y : y = Dec(p, j)
    OBVIOUS
  <2>4. Fitting(Root(tree), b, i, x, p, j, y)
    BY <1>3, <2>1, <2>3, Sound
  <2>5. <<b, i>> # <<p, j>>
    BY <2>1
  <2>6. <<x.child, x.first>> # <<y.child, y.first>>
    BY <1>2, <1>3, <2>2, <2>3, <2>4, <2>5 DEF Fitting
  <2> QED
    BY <1>2, <1>3, <2>2, <2>3, <2>6 DEF Target
<1> QED
  BY <1>4, <1>5 DEF Visited

\* Devices of a bus under way are not among those found on the buses that are done.
LEMMA BusFresh ==
    ASSUME IInv, HandlersApart, ProperBuses, NEW b, NEW table, NEW n, TableOf(b, table, n), NEW V \in SUBSET Buses,
           \A p \in V : HasTable(p[1]), b \notin V, NEW id
    PROVE  /\ Fresh(table, n, id, Found(V, id))
           /\ Found(V \cup {b}, id) = Found(V, id) \cup Matching(table, n, id)
<1>1. b \in Buses /\ HasTable(b[1]) /\ DOMAIN Table(b[1]) = 1 .. n /\ \A i \in 1 .. n : table[i] = Dec(b, i)
  BY DEF TableOf
<1>2. ASSUME NEW i \in 1 .. n, table[i].type = "device", table[i].id = id, table[i] \in Found(V, id)
      PROVE  FALSE
  <2>1. PICK p \in V : \E j \in DOMAIN Table(p[1]) : table[i] = Dec(p, j)
    BY <1>2 DEF Found
  <2>2. PICK j \in DOMAIN Table(p[1]) : table[i] = Dec(p, j)
    BY <2>1
  <2>3. p \in Buses /\ HasTable(p[1]) /\ p # b
    OBVIOUS
  <2>4. PICK x, y : x = Dec(b, i) /\ y = Dec(p, j)
    OBVIOUS
  <2>5. Fitting(Root(tree), b, i, x, p, j, y)
    BY <1>1, <2>3, <2>4, Sound
  <2>6. <<b, i>> # <<p, j>>
    BY <2>3
  <2>7. x = table[i] /\ y = table[i]
    BY <1>1, <2>2, <2>4
  <2> QED
    BY <1>2, <2>5, <2>6, <2>7 DEF Fitting
<1>3. Fresh(table, n, id, Found(V, id))
  BY <1>2, Zenon DEF Fresh
<1>4. \A d : d \in Matching(table, n, id) <=>
               d.type = "device" /\ d.id = id /\ \E i \in DOMAIN Table(b[1]) : d = Dec(b, i)
  BY <1>1 DEF Matching
<1>5. \A W : \A d : d \in Found(W, id) <=>
               d.type = "device" /\ d.id = id /\ \E p \in W : \E i \in DOMAIN Table(p[1]) : d = Dec(p, i)
  BY DEF Found
<1>6. \A d : d \in Found(V \cup {b}, id) <=> d \in Found(V, id) \cup Matching(table, n, id)
  BY <1>4, <1>5
<1> QED
  BY <1>3, <1>6

\* st is x without scan s.
Without(st, x, s) ==
  /\ DOMAIN st.scans = DOMAIN x.scans \ {s} /\ \A u \in DOMAIN st.scans : st.scans[u] = x.scans[u]

\* The scans after a table: those there were, without its own, and those of the
\* buses behind it.
LEMMA UnderAfter ==
    ASSUME IInv, NEW b, NEW table, NEW n, TableOf(b, table, n), NEW v, NEW x, Kept(v, x), Opens(v, x, n, table),
           NEW s \in DOMAIN v.scans, Lies(v.scans[s]) = b,
           \A p, q \in DOMAIN v.scans : p # q => Lies(v.scans[p]) # Lies(v.scans[q]),
           NEW st, Without(st, x, s), x.find.status = "OK"
    PROVE  /\ Under(st) = (Under(v) \ {b}) \cup Behind(tree, b)
           /\ \A u \in DOMAIN st.scans : \/ u \in DOMAIN v.scans /\ u # s /\ st.scans[u] = v.scans[u]
                                         \/ u \notin DOMAIN v.scans /\ Lies(st.scans[u]) \in Behind(tree, b)
<1>1. b \in Buses /\ HasTable(b[1]) /\ DOMAIN Table(b[1]) = 1 .. n /\ \A i \in 1 .. n : table[i] = Dec(b, i)
  BY DEF TableOf
<1>2. DOMAIN v.scans \subseteq DOMAIN x.scans /\ \A u \in DOMAIN v.scans : x.scans[u] = v.scans[u]
  BY DEF Kept
<1>3. DOMAIN st.scans = DOMAIN x.scans \ {s} /\ \A u \in DOMAIN st.scans : st.scans[u] = x.scans[u]
  BY DEF Without
<1>4. ASSUME NEW i \in 1 .. n, table[i].type = "bridge"
      PROVE  Lies(ScanOf(table[i])) = Target(Dec(b, i)) /\ Target(Dec(b, i)) \in Behind(tree, b)
  <2>1. PICK c : c = Scan("header", Dec(b, i).child, Dec(b, i).first)
    OBVIOUS
  <2>2. c = ScanOf(table[i])
    BY <1>1, <2>1 DEF ScanOf
  <2>3. Lies(c) = Target(Dec(b, i)) /\ Lies(c) \in Behind(tree, b)
    BY <1>1, <1>4, <2>1, BridgeScan
  <2> QED
    BY <2>2, <2>3
<1>5. ASSUME NEW u \in DOMAIN st.scans
      PROVE  \/ u \in DOMAIN v.scans /\ u # s /\ st.scans[u] = v.scans[u]
             \/ u \notin DOMAIN v.scans /\ Lies(st.scans[u]) \in Behind(tree, b)
  <2>1. CASE u \in DOMAIN v.scans
    BY <1>2, <1>3, <2>1
  <2>2. CASE u \notin DOMAIN v.scans
    <3>1. u \in DOMAIN x.scans \ DOMAIN v.scans /\ st.scans[u] = x.scans[u]
      BY <1>3, <2>2
    <3>2. PICK i \in 1 .. n : table[i].type = "bridge" /\ x.scans[u] = ScanOf(table[i])
      BY <3>1, Zenon DEF Opens
    <3> QED
      BY <1>4, <2>2, <3>1, <3>2
  <2> QED
    BY <2>1, <2>2
<1>6. ASSUME NEW c \in Under(st)
      PROVE  c \in (Under(v) \ {b}) \cup Behind(tree, b)
  <2>1. PICK u \in DOMAIN st.scans : c = Lies(st.scans[u])
    BY <1>6 DEF Under
  <2>2. CASE u \in DOMAIN v.scans /\ u # s /\ st.scans[u] = v.scans[u]
    BY <2>1, <2>2 DEF Under
  <2>3. CASE Lies(st.scans[u]) \in Behind(tree, b)
    BY <2>1, <2>3
  <2> QED
    BY <1>5, <2>2, <2>3
<1>7. ASSUME NEW c \in Under(v), c # b
      PROVE  c \in Under(st)
  <2>1. PICK u \in DOMAIN v.scans : c = Lies(v.scans[u])
    BY <1>7 DEF Under
  <2>2. u # s
    BY <1>7, <2>1
  <2>3. u \in DOMAIN st.scans /\ st.scans[u] = v.scans[u]
    BY <1>2, <1>3, <2>2
  <2> QED
    BY <2>1, <2>3 DEF Under
<1>8. ASSUME NEW c \in Behind(tree, b)
      PROVE  c \in Under(st)
  <2>0. \E i \in DOMAIN Table(b[1]) : Dec(b, i).type = "bridge" /\ c = Target(Dec(b, i))
    BY <1>1, <1>8, BehindIs
  <2>1. PICK i \in 1 .. n : Dec(b, i).type = "bridge" /\ c = Target(Dec(b, i))
    BY <1>1, <2>0, Zenon
  <2>2. table[i].type = "bridge"
    BY <1>1, <2>1
  <2>3. PICK u \in DOMAIN x.scans \ DOMAIN v.scans : x.scans[u] = ScanOf(table[i])
    BY <2>2, Zenon DEF Opens
  <2>4. u \in DOMAIN st.scans /\ st.scans[u] = ScanOf(table[i])
    BY <1>3, <2>3
  <2> QED
    BY <1>4, <2>1, <2>2, <2>4 DEF Under
<1> QED
  BY <1>5, <1>6, <1>7, <1>8

\* The bus is done, and what is behind it under way.
LEMMA VisitedOn ==
    ASSUME IInv, HandlersApart, ProperBuses, NEW b, NEW table, NEW n, TableOf(b, table, n),
           NEW v, NEW x, Kept(v, x), Opens(v, x, n, table), Apart(v, x),
           NEW s \in DOMAIN v.scans, Lies(v.scans[s]) = b,
           NEW st, Without(st, x, s), x.find.status = "OK", NEW V, Visited(V, v)
    PROVE  Visited(V \cup {b}, st)
<1>1. b \in Buses /\ HasTable(b[1]) /\ DOMAIN Table(b[1]) = 1 .. n /\ \A i \in 1 .. n : table[i] = Dec(b, i)
  BY DEF TableOf
<1>2. \A p, q \in DOMAIN v.scans : p # q => Lies(v.scans[p]) # Lies(v.scans[q])
  BY DEF Visited
<1>3. /\ Under(st) = (Under(v) \ {b}) \cup Behind(tree, b)
      /\ \A u \in DOMAIN st.scans : \/ u \in DOMAIN v.scans /\ u # s /\ st.scans[u] = v.scans[u]
                                    \/ u \notin DOMAIN v.scans /\ Lies(st.scans[u]) \in Behind(tree, b)
  BY <1>2, UnderAfter
<1>4. b \in Under(v)
  BY DEF Under
<1>5. \A c \in Behind(tree, b) : c \notin V /\ c \notin Under(v)
  BY <1>1, <1>4, BehindNew
<1>6. /\ V \subseteq Buses /\ (\A p \in V : HasTable(p[1])) /\ (\A p \in V : p \notin Under(v))
      /\ Root(tree) \in V \cup Under(v)
      /\ \A p \in V : Behind(tree, p) \subseteq V \cup Under(v)
      /\ \A c \in V \cup Under(v) : c = Root(tree) \/ \E p \in V : c \in Behind(tree, p)
  BY DEF Visited
<1>7. ASSUME NEW p \in DOMAIN st.scans, NEW q \in DOMAIN st.scans, p # q
      PROVE  Lies(st.scans[p]) # Lies(st.scans[q])
  <2>1. CASE p \in DOMAIN v.scans /\ q \in DOMAIN v.scans
    BY <1>2, <1>3, <1>7, <2>1
  <2>2. CASE p \in DOMAIN v.scans /\ q \notin DOMAIN v.scans
    <3>1. Lies(st.scans[p]) \in Under(v) /\ Lies(st.scans[q]) \in Behind(tree, b)
      BY <1>3, <2>2 DEF Under
    <3> QED
      BY <1>5, <3>1
  <2>3. CASE p \notin DOMAIN v.scans /\ q \in DOMAIN v.scans
    <3>1. Lies(st.scans[q]) \in Under(v) /\ Lies(st.scans[p]) \in Behind(tree, b)
      BY <1>3, <2>3 DEF Under
    <3> QED
      BY <1>5, <3>1
  <2>4. CASE p \notin DOMAIN v.scans /\ q \notin DOMAIN v.scans
    <3>1. /\ p \in DOMAIN x.scans \ DOMAIN v.scans /\ q \in DOMAIN x.scans \ DOMAIN v.scans
          /\ st.scans[p] = x.scans[p] /\ st.scans[q] = x.scans[q]
      BY <1>7, <2>4 DEF Without
    <3>2. x.scans[p] # x.scans[q]
      BY <1>7, <3>1, Zenon DEF Apart
    <3>3. PICK i \in 1 .. n : x.scans[p] = ScanOf(table[i])
      BY <3>1, Zenon DEF Opens
    <3>4. PICK j \in 1 .. n : x.scans[q] = ScanOf(table[j])
      BY <3>1, Zenon DEF Opens
    <3>5. PICK y, z : y = table[i] /\ z = table[j]
      OBVIOUS
    <3>6. Lies(ScanOf(y)) = <<y.child, y.first>> /\ Lies(ScanOf(z)) = <<z.child, z.first>>
      BY DEF Lies, ScanOf, Scan
    <3>7. <<y.child, y.first>> = <<z.child, z.first>> => ScanOf(y) = ScanOf(z)
      BY DEF ScanOf
    <3> QED
      BY <3>1, <3>2, <3>3, <3>4, <3>5, <3>6, <3>7
  <2> QED
    BY <2>1, <2>2, <2>3, <2>4
<1>8. V \cup {b} \subseteq Buses /\ \A p \in V \cup {b} : HasTable(p[1])
  BY <1>1, <1>6
<1>9. \A p \in V \cup {b} : p \notin Under(st)
  BY <1>3, <1>4, <1>5, <1>6
<1>10. Root(tree) \in (V \cup {b}) \cup Under(st)
  BY <1>3, <1>6
<1>11. \A p \in V \cup {b} : Behind(tree, p) \subseteq (V \cup {b}) \cup Under(st)
  BY <1>3, <1>6
<1>12. \A c \in (V \cup {b}) \cup Under(st) : c = Root(tree) \/ \E p \in V \cup {b} : c \in Behind(tree, p)
  BY <1>3, <1>4, <1>6
<1> QED
  BY <1>7, <1>8, <1>9, <1>10, <1>11, <1>12, Zenon DEF Visited

\* Its devices are counted.
LEMMA CountedOn ==
    ASSUME IInv, HandlersApart, ProperBuses, NEW b, NEW table, NEW n, TableOf(b, table, n),
           NEW v, NEW x, Sought(v, x, n, table, n), NEW s \in DOMAIN v.scans, Lies(v.scans[s]) = b,
           NEW st, Without(st, x, s), st.find = x.find, x.find.status = "OK", NEW V, Counted(V, v)
    PROVE  Counted(V \cup {b}, st)
<1>1. Unlike(table, n)
  BY BusUnlike
<1>2. /\ Kept(v, x) /\ Opens(v, x, n, table) /\ Apart(v, x)
      /\ \A F : Fresh(table, n, v.find.id, F) /\ Tally(F, v.find)
                  => Tally(F \cup Matching(table, n, v.find.id), x.find)
  BY <1>1, Zenon DEF Sought
<1>3. Visited(V, v) /\ Tally(Found(V, v.find.id), v.find)
  BY DEF Counted
<1>4. Visited(V \cup {b}, st)
  BY <1>2, <1>3, VisitedOn
<1>5. PICK id : id = v.find.id /\ id = st.find.id
  BY <1>2 DEF Kept
<1>6. V \in SUBSET Buses /\ (\A p \in V : HasTable(p[1])) /\ b \notin V
  BY <1>3 DEF Visited, Under
<1>7. /\ Fresh(table, n, id, Found(V, id))
      /\ Found(V \cup {b}, id) = Found(V, id) \cup Matching(table, n, id)
  BY <1>6, BusFresh
<1>8. Tally(Found(V, id) \cup Matching(table, n, id), x.find)
  BY <1>2, <1>3, <1>5, <1>7, Zenon
<1> QED
  BY <1>4, <1>5, <1>7, <1>8 DEF Counted

\* The callback of eb_sdb_find_by_identity has gone through a table.
LEMMA IdentitySearch ==
    ASSUME IInv, SearchInv, NEW s \in DOMAIN scans, find.kind = "identity",
           scans[s].step = "all", scans[s].reply # <<>>,
           NEW table \in Tables(scans[s]), NEW mem, Len(table) \in Nat, DOMAIN table = 1 .. Len(table),
           NEW after, after = CbIdentity(St, table, mem), Becomes(FreeScan(after, s)),
           failed' = failed \cup ({after.find.status} \cap {"OOM"}), UNCHANGED <<tree, handlers, changes>>
    PROVE  SearchInv'
<1>1. PICK st : st = [find |-> find', scans |-> scans', items |-> items']
  OBVIOUS
<1>2. st.find = find' /\ st.scans = scans'
  BY <1>1
<1>3. PICK n \in Nat : n = Len(table)
  OBVIOUS
<1>4. PICK v : /\ v.scans = scans /\ SameCall(find, v.find) /\ v.find.pc = find.pc
               /\ Sought(v, after, n, table, n)
  BY <1>3, IdentityIs
<1>5. st.find = after.find /\ Without(st, after, s)
  <2>1. PICK R, X : /\ Shape(St, R, ScanRecord(X))
                    /\ \A i \in 1 .. Len(table) :
                         /\ table[i] \in R
                         /\ Scan("header", table[i].child, table[i].first) \in ScanRecord(X)
    BY Roomy
  <2>2. Shape(after, R, ScanRecord(X))
    BY <2>1, CbIdentityFacts
  <2>3. /\ find' = after.find /\ DOMAIN scans' = DOMAIN after.scans \ {s}
        /\ \A u \in DOMAIN scans' : scans'[u] = after.scans[u]
    BY <2>2, FreeScanIs DEF Becomes
  <2> QED
    BY <1>2, <2>3 DEF Without
<1>6. Kept(v, after) /\ Opens(v, after, n, table)
  BY <1>4 DEF Sought
<1>7. /\ st.find.pc = "run" /\ st.find.kind = "identity" /\ st.find.status \in {find.status, "OOM"}
      /\ changes \in Nat
  BY <1>4, <1>5, <1>6, Under0 DEF Kept, SameCall
<1>8. PICK c : c = scans[s]
  OBVIOUS
<1>9. PICK b : b = <<c.at, c.base>>
  OBVIOUS
<1>10. ASSUME changes = 0
       PROVE  Reading(st, failed') /\ (failed' = {} /\ ProperBuses => Finding(st))
  <2>1. GoodScan(c) /\ Reading(St, failed) /\ (failed = {} /\ ProperBuses => Finding(St))
    BY <1>8, <1>10, Under0
  <2>2. /\ b \in Buses /\ HasTable(b[1]) /\ Lies(c) = b /\ DOMAIN table = DOMAIN Table(b[1])
        /\ \A i \in DOMAIN Table(b[1]) : table[i] = Dec(b, i)
    BY <1>8, <1>9, <2>1, TableRead
  <2>3. TableOf(b, table, n)
    BY <1>3, <2>2 DEF TableOf
  <2>4. ASSUME NEW u \in DOMAIN st.scans PROVE GoodScan(st.scans[u])
    <3>1. st.scans[u] = after.scans[u] /\ u \in DOMAIN after.scans
      BY <1>5 DEF Without
    <3>2. CASE u \in DOMAIN scans
      <4>1. after.scans[u] = scans[u]
        BY <1>4, <1>6, <3>2 DEF Kept
      <4>2. GoodScan(scans[u])
        BY <2>1, <3>2 DEF Reading, St
      <4> QED
        BY <3>1, <4>1, <4>2
    <3>3. CASE u \notin DOMAIN scans
      <4>1. u \in DOMAIN after.scans \ DOMAIN v.scans
        BY <1>4, <3>1, <3>3
      <4>2. PICK i \in 1 .. n : table[i].type = "bridge" /\ after.scans[u] = ScanOf(table[i])
        BY <1>6, <4>1, Zenon DEF Opens
      <4>3. i \in DOMAIN Table(b[1]) /\ table[i] = Dec(b, i)
        BY <2>3 DEF TableOf
      <4>4. PICK x : x = Scan("header", Dec(b, i).child, Dec(b, i).first)
        OBVIOUS
      <4>5. GoodScan(x)
        BY <2>2, <4>2, <4>3, <4>4, BridgeScan
      <4> QED
        BY <3>1, <4>2, <4>3, <4>4, <4>5 DEF ScanOf
    <3> QED
      BY <3>2, <3>3
  <2>5. failed' = {} /\ Unreadable = {} => st.find.status \in {"OK", "ADDRESS", "wait"}
    BY <1>5, <1>7, <2>1 DEF Reading, St
  <2>6. Reading(st, failed')
    BY <2>4, <2>5 DEF Reading
  <2>7. ASSUME failed' = {}, ProperBuses PROVE Finding(st)
    <3>0. failed = {}
      BY <2>7
    <3>1. find.status # "ADDRESS" /\ (find.status = "OK" => \E V \in SUBSET Buses : Counted(V, St))
      BY <2>1, <2>7, <3>0 DEF Finding, St
    <3>2. ASSUME st.find.status = "OK" PROVE \E V \in SUBSET Buses : Counted(V, st)
      <4>1. find.status = "OK" /\ after.find.status = "OK"
        BY <1>5, <1>7, <3>2
      <4>2. PICK V \in SUBSET Buses : Counted(V, St)
        BY <3>1, <4>1
      <4>3. Visited(V, v)
        <5>1. Under(v) = Under(St)
          BY <1>4 DEF Under, St
        <5>2. v.scans = St.scans
          BY <1>4 DEF St
        <5> QED
          BY <4>2, <5>1, <5>2 DEF Counted, Visited
      <4>4. Tally(Found(V, v.find.id), v.find)
        BY <1>4, <4>2 DEF Counted, Tally, SameCall, St
      <4>5. Counted(V, v)
        BY <4>3, <4>4 DEF Counted
      <4>6. HandlersApart
        BY DEF SearchInv
      <4>7. Counted(V \cup {b}, st)
        BY <1>4, <1>5, <1>8, <2>2, <2>3, <2>7, <4>1, <4>5, <4>6, CountedOn
      <4>8. V \cup {b} \in SUBSET Buses
        BY <2>2
      <4> QED
        BY <4>7, <4>8
    <3> QED
      BY <1>7, <3>1, <3>2 DEF Finding
  <2> QED
    BY <2>6, <2>7
<1>11. Searched(st, failed', changes')
  BY <1>7, <1>10 DEF Searched
<1> QED
  BY <1>1, <1>11, SearchKeeps

\* sdb_got_all: the table has arrived, or there is no room for it.
LEMMA GotAllSearch ==
    ASSUME IInv, SearchInv, NEW s \in DOMAIN scans, GotAll(s)
    PROVE  SearchInv'
<1>1. PICK c, room : c = scans[s] /\ room = Room(c.reply[1])
  OBVIOUS
<1>2. c.step = "all" /\ c.reply # <<>> /\ UNCHANGED <<tree, handlers, changes>>
  BY <1>1 DEF GotAll
<1>3. ASSUME c.count <= 1 \/ room = 0 \/ c.count > room, changes = 0
      PROVE  Unreadable # {}
  <2>1. GoodScan(c)
    BY <1>1, <1>3, Under0
  <2>2. PICK b : b = <<c.at, c.base>>
    OBVIOUS
  <2> QED
    BY <1>1, <1>2, <1>3, <2>1, <2>2, TableRead
<1>4. CASE c.count <= 1 \/ (room # 0 /\ c.count > room)
  <2>1. Abandon(s, "FAIL") /\ "FAIL" \in Statuses \ {"wait", "OK"}
    BY <1>1, <1>4 DEF GotAll, Statuses
  <2> QED
    BY <1>2, <1>3, <1>4, <2>1, AbandonSearch
<1>5. CASE ~(c.count <= 1 \/ (room # 0 /\ c.count > room)) /\ room = 0
  <2>1. Abandon(s, "OOM") /\ "OOM" \in Statuses \ {"wait", "OK"}
    BY <1>1, <1>5 DEF GotAll, Statuses
  <2> QED
    BY <1>2, <1>3, <1>5, <2>1, AbandonSearch
<1>6. CASE ~(c.count <= 1 \/ (room # 0 /\ c.count > room)) /\ room # 0
  <2>0. PICK table \in Tables(c) : \E mem \in Memory(table) :
          /\ Becomes(FreeScan(Cb(St, table, mem), s))
          /\ failed' = failed \cup ({Cb(St, table, mem).find.status} \cap {"OOM"})
    BY <1>1, <1>6 DEF GotAll
  <2>1. PICK mem, after :
          /\ after = Cb(St, table, mem)
          /\ Becomes(FreeScan(after, s))
          /\ failed' = failed \cup ({after.find.status} \cap {"OOM"})
    BY <2>0
  <2>2. c.reply[1] \in Nat \ {0}
    <3>1. PICK R, X : scans \in [DOMAIN scans -> ScanRecord(X)]
      BY Present0
    <3>2. Served(c)
      BY <1>1, <3>1 DEF ScanRecord
    <3> QED
      BY <1>2, <3>2 DEF Served
  <2>3. Len(table) \in Nat /\ DOMAIN table = 1 .. Len(table)
    BY <2>2, TableFacts
  <2>4. St.find = find
    BY DEF St
  <2>5. CASE find.kind = "identity"
    BY <1>1, <1>2, <2>1, <2>3, <2>4, <2>5, IdentitySearch DEF Cb
  <2>6. CASE find.kind # "identity"
    BY <1>1, <1>2, <2>1, <2>3, <2>4, <2>6, AddressSearch DEF Cb
  <2> QED
    BY <2>5, <2>6
<1> QED
  BY <1>4, <1>5, <1>6

-----------------------------------------------------------------------------
(* The devices of the remote change. *)

\* Once they have changed, nothing is said of what a call finds.
LEMMA ChangedSearch ==
    ASSUME IInv, SearchInv, changes' = changes + 1, find' = find, HandlersApart'
    PROVE  SearchInv'
<1>1. changes \in Nat
  BY DEF SearchInv
<1>2. changes' \in Nat /\ changes' # 0
  BY <1>1
<1> QED
  BY <1>2 DEF SearchInv

\* eb_socket_attach refuses a range that overlaps another.
LEMMA AttachSearch ==
    ASSUME IInv, SearchInv, NEW d \in Devices, Attach(d)
    PROVE  SearchInv'
<1>1. PICK hs \in Seq(Devices), k \in Nat : hs = handlers /\ k = Len(hs) /\ DOMAIN hs = 1 .. k
  <2>1. PICK hs \in Seq(Devices) : hs = handlers
    BY DEF IInv
  <2> QED
    BY <2>1
<1>2. HandlersApart
  BY DEF SearchInv
<1>3. CASE d.first < Reserved
  BY <1>2, <1>3, ChangedSearch DEF Attach, HandlersApart
<1>4. CASE ~(d.first < Reserved)
  <2>1. /\ \A i \in 1 .. k : d.first > hs[i].last \/ hs[i].first > d.last
        /\ handlers' = <<d>> \o hs
    BY <1>1, <1>4 DEF Attach
  <2>2. PICK h : h = <<d>> \o hs
    OBVIOUS
  <2>3. DOMAIN h = 1 .. (k + 1) /\ h[1] = d /\ \A i \in 2 .. (k + 1) : h[i] = hs[i - 1]
    BY <1>1, <2>2
  <2>4. \A i \in 1 .. (k + 1) : i = 1 \/ (i \in 2 .. (k + 1) /\ i - 1 \in 1 .. k)
    OBVIOUS
  <2>5. d \in SdbRecord /\ \A i \in 1 .. k : hs[i] \in SdbRecord
    BY <1>1, ScanAssumption
  <2>6. \A i \in 1 .. k : hs[i].last < d.first \/ d.last < hs[i].first
    BY <2>1, <2>5 DEF SdbRecord
  <2>7. \A i, j \in 1 .. k : i # j => hs[i].last < hs[j].first \/ hs[j].last < hs[i].first
    BY <1>1, <1>2 DEF HandlersApart
  <2>8. \A i, j \in 1 .. (k + 1) : i # j => h[i].last < h[j].first \/ h[j].last < h[i].first
    <3> TAKE i, j \in 1 .. (k + 1)
    <3>1. CASE i = 1 \/ j = 1
      BY <2>3, <2>4, <2>6, <3>1
    <3>2. CASE i # 1 /\ j # 1
      <4>1. PICK p \in 1 .. k, q \in 1 .. k : p = i - 1 /\ q = j - 1
        BY <2>4, <3>2
      <4>2. h[i] = hs[p] /\ h[j] = hs[q] /\ (i # j => p # q)
        BY <2>3, <2>4, <3>2, <4>1
      <4> QED
        BY <2>7, <4>2
    <3> QED
      BY <3>1, <3>2
  <2>9. HandlersApart'
    BY <2>1, <2>2, <2>3, <2>8 DEF HandlersApart
  <2> QED
    BY <2>9, ChangedSearch DEF Attach
<1> QED
  BY <1>3, <1>4

\* eb_socket_detach leaves the others as they are.
LEMMA DetachSearch ==
    ASSUME IInv, SearchInv, NEW d \in Devices, Detach(d)
    PROVE  SearchInv'
<1>1. PICK hs \in Seq(Devices), k \in Nat : hs = handlers /\ k = Len(hs) /\ DOMAIN hs = 1 .. k
  <2>1. PICK hs \in Seq(Devices) : hs = handlers
    BY DEF IInv
  <2> QED
    BY <2>1
<1>2. PICK m \in 1 .. k : m = Least({j \in DOMAIN handlers : handlers[j] = d})
  <2> DEFINE S == {j \in DOMAIN handlers : handlers[j] = d}
  <2>1. S # {} /\ S \in SUBSET Nat /\ S \subseteq 1 .. k
    BY <1>1 DEF Detach, Contains
  <2>2. Least(S) \in S
    BY <2>1, LeastIs
  <2> QED
    BY <2>1, <2>2
<1>3. PICK h : h = RemoveAt(hs, m)
  OBVIOUS
<1>4. h = SubSeq(hs, 1, m - 1) \o SubSeq(hs, m + 1, k)
  BY <1>1, <1>3 DEF RemoveAt
<1>5. DOMAIN h = 1 .. (k - 1) /\ \A i \in 1 .. (k - 1) : h[i] = hs[IF i < m THEN i ELSE i + 1]
  <2>1. PICK a \in Seq(Devices), b \in Seq(Devices) : a = SubSeq(hs, 1, m - 1) /\ b = SubSeq(hs, m + 1, k)
    <3>1. SubSeq(hs, 1, m - 1) \in Seq(Devices) /\ SubSeq(hs, m + 1, k) \in Seq(Devices)
      BY <1>1
    <3> QED
      BY <3>1
  <2>2. Len(a) = m - 1 /\ \A i \in 1 .. (m - 1) : a[i] = hs[i]
    BY <1>1, <2>1
  <2>3. Len(b) = k - m /\ \A i \in 1 .. (k - m) : b[i] = hs[m + i]
    BY <1>1, <2>1
  <2>4. h = a \o b
    BY <1>4, <2>1
  <2>5. DOMAIN h = 1 .. (k - 1)
    BY <2>2, <2>3, <2>4
  <2>6. ASSUME NEW i \in 1 .. (k - 1) PROVE h[i] = hs[IF i < m THEN i ELSE i + 1]
    <3>1. CASE i < m
      <4>1. i \in 1 .. (m - 1) /\ h[i] = a[i]
        BY <2>2, <2>3, <2>4, <3>1
      <4> QED
        BY <2>2, <3>1, <4>1
    <3>2. CASE ~(i < m)
      <4>1. PICK j \in 1 .. (k - m) : j = i - (m - 1)
        BY <3>2
      <4>2. h[i] = b[j] /\ m + j = i + 1
        BY <2>2, <2>3, <2>4, <3>2, <4>1
      <4> QED
        BY <2>3, <3>2, <4>2
    <3> QED
      BY <3>1, <3>2
  <2> QED
    BY <2>5, <2>6
<1>6. \A i, j \in 1 .. k : i # j => hs[i].last < hs[j].first \/ hs[j].last < hs[i].first
  BY <1>1 DEF SearchInv, HandlersApart
<1>7. ASSUME NEW i \in 1 .. (k - 1), NEW j \in 1 .. (k - 1), i # j
      PROVE  h[i].last < h[j].first \/ h[j].last < h[i].first
  <2>1. PICK p \in 1 .. k : p = IF i < m THEN i ELSE i + 1
    OBVIOUS
  <2>2. PICK q \in 1 .. k : q = IF j < m THEN j ELSE j + 1
    OBVIOUS
  <2>3. p # q
    BY <1>7, <2>1, <2>2
  <2>4. h[i] = hs[p] /\ h[j] = hs[q]
    BY <1>5, <2>1, <2>2
  <2> QED
    BY <1>6, <2>3, <2>4
<1>8. HandlersApart'
  <2>1. handlers' = h
    BY <1>1, <1>2, <1>3 DEF Detach
  <2> QED
    BY <1>5, <1>7, <2>1 DEF HandlersApart
<1> QED
  BY <1>8, ChangedSearch DEF Detach

-----------------------------------------------------------------------------
(* What the calls find. *)

\* Nothing has been found before the first call.
LEMMA InitSearch == Init => SearchInv
BY DEF Init, SearchInv, HandlersApart

\* Nothing changes.
LEMMA StutterSearch == SearchInv /\ UNCHANGED <<tree, handlers, find, scans, items, failed, changes>> => SearchInv'
<1> SUFFICES ASSUME SearchInv, UNCHANGED <<tree, handlers, find, scans, items, failed, changes>> PROVE SearchInv'
  OBVIOUS
<1>1. PICK st : st = [find |-> find', scans |-> scans', items |-> items']
  OBVIOUS
<1>2. st = St
  BY <1>1 DEF St
<1>3. Searched(st, failed', changes')
  BY <1>2, SearchInvIs
<1> QED
  BY <1>1, <1>3, SearchKeeps

\* Every step keeps the invariant.
LEMMA NextSearch == IInv /\ SearchInv /\ [Next]_vars => SearchInv'
<1> SUFFICES ASSUME IInv, SearchInv, [Next]_vars PROVE SearchInv'
  OBVIOUS
<1>1. CASE Start
  BY <1>1, StartSearch
<1>2. CASE Return
  BY <1>2, ReturnSearch
<1>3. ASSUME NEW s \in DOMAIN scans, Serve(s) PROVE SearchInv'
  BY <1>3, ServeSearch
<1>4. ASSUME NEW s \in DOMAIN scans, CalledBack(s) PROVE SearchInv'
  BY <1>4, HeadersSearch, GotAllSearch DEF CalledBack
<1>5. ASSUME NEW d \in Devices, Attach(d) PROVE SearchInv'
  BY <1>5, AttachSearch
<1>6. ASSUME NEW d \in Devices, Detach(d) PROVE SearchInv'
  BY <1>6, DetachSearch
<1>7. CASE LinkBreak \/ UNCHANGED vars
  BY <1>7, StutterSearch DEF LinkBreak, vars
<1> QED
  BY <1>1, <1>2, <1>3, <1>4, <1>5, <1>6, <1>7 DEF Next

\* As long as the remote does not change, the scans have read what is there, every
\* bus is done, under way or behind one that is, and the devices of those that are
\* done are counted and put out, or do not cover the address.
THEOREM SearchInvariant == Spec => []SearchInv
BY InitSearch, NextSearch, Inductive, PTL DEF Spec

\* When a call returns, no scan is left.
LEMMA DoneScans ==
    ASSUME IInv, find.pc = "done"
    PROVE  DOMAIN scans = {} /\ Under(St) = {}
<1>1. DOMAIN scans = {}
  BY DEF IInv, Good, St
<1> QED
  BY <1>1 DEF Under, St

\* When every bus that was under way is done, all buses are.
LEMMA AllVisited ==
    ASSUME IInv, NEW st, Under(st) = {}, NEW V, Visited(V, st)
    PROVE  V = Buses
<1>1. V \subseteq Buses /\ Root(tree) \in V /\ \A b \in V : Behind(tree, b) \subseteq V
  BY DEF Visited
<1>2. tree \in Trees
  BY DEF IInv
<1>3. Buses \subseteq V
  BY <1>1, <1>2, ReachedFacts DEF Buses
<1> QED
  BY <1>1, <1>3

\* What is found on all buses is what is present.
LEMMA AllFound ==
    ASSUME IInv, \A b \in Buses : HasTable(b[1]), NEW id
    PROVE  Found(Buses, id) = {d \in Present : d.id = id}
<1>1. \A d : d \in Found(Buses, id) <=>
               d.type = "device" /\ d.id = id /\ \E b \in Buses : \E i \in DOMAIN Table(b[1]) : d = Dec(b, i)
  BY DEF Found
<1>2. \A d : d \in Present <=>
               \E b \in Buses : /\ HasTable(b[1])
                                /\ \E i \in DOMAIN Table(b[1]) : d = Dec(b, i) /\ d.type = "device"
  BY PresentIs
<1>3. \A d : d \in Found(Buses, id) <=> d \in Present /\ d.id = id
  BY <1>1, <1>2
<1> QED
  BY <1>3

\* Without a change, a failed cycle, a lack of memory or a table that can not be
\* read, every call ends with EB_OK or EB_ADDRESS, in whatever order the cycles of
\* its scans are answered.
THEOREM NothingElseFailsHolds == Spec => []NothingElseFails
<1>1. SearchInv => NothingElseFails
  <2> SUFFICES ASSUME SearchInv, Quiet, failed = {}, Unreadable = {}
               PROVE  find.status \in {"OK", "ADDRESS"}
    BY DEF NothingElseFails
  <2>1. find.pc = "done" /\ changes = 0
    BY DEF Quiet
  <2>2. find.status # "wait" /\ Reading(St, failed)
    BY <2>1 DEF SearchInv
  <2>3. St.find = find
    BY DEF St
  <2> QED
    BY <2>2, <2>3 DEF Reading
<1> QED
  BY <1>1, SearchInvariant, PTL

\* The invariants give what a call has found when it returns.
LEMMA FoundExactly ==
    ASSUME ProperBuses, IInv, SearchInv
    PROVE  FindsExactly
<1> SUFFICES ASSUME Quiet PROVE FindsExactly
  BY DEF FindsExactly
<1>1. find.pc = "done" /\ changes = 0
  BY DEF Quiet
<1>2. (failed = {} => Finding(St)) /\ St.find = find
  BY <1>1 DEF SearchInv, St
<1>0. find.status = "OK" => failed = {}
  BY DEF IInv, Good, St, Told, Errors
<1>3. DOMAIN scans = {} /\ Under(St) = {}
  BY <1>1, DoneScans
<1>4. PICK want : want = {d \in Present : IF find.kind = "identity" THEN d.id = find.id
                                          ELSE Covers(d, find.addr)}
  OBVIOUS
<1>5. ASSUME find.status = "OK", find.kind = "identity"
      PROVE  /\ find.fill = Cardinality(want)
             /\ Len(find.output) = LeastOf(find.size, find.fill)
             /\ Range(find.output) \subseteq want /\ IsInjective(find.output)
  <2>1. PICK V \in SUBSET Buses : Counted(V, St)
    BY <1>0, <1>2, <1>5 DEF Finding
  <2>2. Visited(V, St) /\ Tally(Found(V, find.id), find)
    BY <1>2, <2>1 DEF Counted
  <2>3. V = Buses
    BY <1>3, <2>2, AllVisited
  <2>4. \A b \in Buses : HasTable(b[1])
    BY <2>2, <2>3 DEF Visited
  <2>5. want = Found(V, find.id)
    BY <1>4, <1>5, <2>3, <2>4, AllFound
  <2> QED
    BY <2>2, <2>5 DEF Tally
<1>6. find.kind # "identity" => want = Covering(find.addr)
  BY <1>4 DEF Covering
<1>7. find.status = "OK" /\ find.kind = "address" => want = Range(find.output)
  BY <1>0, <1>2, <1>6 DEF Finding
<1>8. find.status = "ADDRESS" /\ failed = {} => want = {}
  BY <1>2, <1>6 DEF Finding
<1> QED
  BY <1>4, <1>5, <1>7, <1>8, Zenon DEF FindsExactly

\* On proper buses, however many and in whatever order they answer, a call that
\* returns EB_OK has found what there is: all devices of the identity, each counted
\* and put out once as far as there is room, or the device at the address; EB_ADDRESS
\* means that there is none, unless a cycle failed.
THEOREM FindsExactlyHolds ==
    ASSUME ProperBuses
    PROVE  Spec => []FindsExactly
<1>1. IInv /\ SearchInv => FindsExactly
  BY FoundExactly
<1> QED
  BY <1>1, Inductive, SearchInvariant, PTL
=============================================================================

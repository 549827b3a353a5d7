--------------------------- MODULE EBMemory_proofs ---------------------------
(* Proofs about the item allocator, for every size of the array. *)
EXTENDS EBMemory, FiniteSetTheorems, Lists_proofs, TLAPS

\* Taking the head of a list leaves a list of the remaining items.
LEMMA TakeList ==
    ASSUME NEW h \in Index \ {Null},
           NEW nxt \in [Index -> Index \cup {Junk}],
           NEW dep \in [Index -> Nat],
           NEW items, NEW busy,
           Null \notin items,
           ListOK(h, nxt, dep, items, busy)
    PROVE  /\ nxt[h] \in Index
           /\ ListOK(nxt[h], [nxt EXCEPT ![h] = Junk], [dep EXCEPT ![h] = 0],
                     items, busy \cup {h})
  <1> USE NullAssumption DEF Index
  <1> DEFINE n == [nxt EXCEPT ![h] = Junk]
             d == [dep EXCEPT ![h] = 0]
  <1>1. dep[h] > 0 /\ \A i \in Index : dep[i] <= dep[h]
    BY DEF ListOK
  <1>2. /\ dep[h] = 1 => nxt[h] = Null
        /\ dep[h] > 1 => nxt[h] \in Index \ {Null} /\ dep[nxt[h]] = dep[h] - 1
    BY DEF ListOK
  <1>3. nxt[h] \in Index
    BY <1>1, <1>2
  <1>4. \A i, j \in Index : dep[i] = dep[j] /\ dep[i] > 0 => i = j
    BY DEF ListOK
  <1>5. \A i \in Index : d[i] = (IF i = h THEN 0 ELSE dep[i])
    OBVIOUS
  <1>6. \A i \in Index : i # h => n[i] = nxt[i]
    OBVIOUS
  <1>7. \A i \in Index : d[i] > 0 <=> i \in items \ (busy \cup {h})
    BY <1>5 DEF ListOK
  <1>8. \A i \in Index : i # h => dep[i] < dep[h]
    BY <1>1, <1>4
  <1>9. nxt[h] = Null <=> \A i \in Index : d[i] = 0
    <2>1. CASE dep[h] = 1
      BY <2>1, <1>2, <1>5, <1>8
    <2>2. CASE dep[h] > 1
      BY <2>2, <1>2, <1>5
    <2> QED
      BY <2>1, <2>2, <1>1
  <1>10. ASSUME nxt[h] # Null
         PROVE  d[nxt[h]] > 0 /\ \A i \in Index : d[i] <= d[nxt[h]]
    <2>1. dep[h] > 1
      BY <1>10, <1>1, <1>2
    <2>2. nxt[h] \in Index /\ nxt[h] # h /\ d[nxt[h]] = dep[h] - 1
      BY <2>1, <1>2, <1>5
    <2> QED
      BY <2>1, <2>2, <1>5, <1>8
  <1>11. \A i \in Index : d[i] = 1 => n[i] = Null
    BY <1>5, <1>6 DEF ListOK
  <1>12. ASSUME NEW i \in Index, d[i] > 1
         PROVE  n[i] \in Index \ {Null} /\ d[n[i]] = d[i] - 1
    <2>1. i # h /\ dep[i] > 1 /\ d[i] = dep[i] /\ n[i] = nxt[i]
      BY <1>12, <1>5, <1>6
    <2>2. nxt[i] \in Index \ {Null} /\ dep[nxt[i]] = dep[i] - 1
      BY <2>1 DEF ListOK
    <2>3. nxt[i] # h
      BY <2>1, <2>2, <1>1
    <2> QED
      BY <2>1, <2>2, <2>3, <1>5
  <1>13. \A i, j \in Index : d[i] = d[j] /\ d[i] > 0 => i = j
    BY <1>4, <1>5
  <1> QED
    BY <1>3, <1>7, <1>9, <1>10, <1>11, <1>12, <1>13 DEF ListOK

\* eb_expand_array with an empty free list makes a list of the new items.
LEMMA ExpandList ==
    ASSUME TypeOK, FreeListInv, head = Null, size # MaxSize
    PROVE  LET new == NextSize(build, size)
           IN  /\ new \in Sizes /\ size < new /\ new <= MaxSize
               /\ size \in Index \ {Null}
               /\ Linked(size, new) \in [Index -> Index \cup {Junk}]
               /\ NewDepth(size, new) \in [Index -> Nat]
               /\ ListOK(size, Linked(size, new), NewDepth(size, new),
                         (First(build)..(new - 1)) \ {Null}, inUse)
  <1> DEFINE new == NextSize(build, size)
             nxt == Linked(size, new)
             dep == NewDepth(size, new)
             top == LastFree(new)
             low == First(build)
  <1>1. /\ size \in Nat /\ new \in Nat /\ MaxSize \in Nat /\ Null \in Nat
        /\ new \in Sizes /\ size < new /\ new <= MaxSize /\ MaxSize <= Null + 1
        /\ size < Null /\ low \in Nat /\ low <= size
    BY SizeAssumption, NullAssumption DEF TypeOK
  <1> HIDE DEF new, low
  <1>2. top \in Nat /\ size <= top /\ top < Null
        /\ (top = new - 1 \/ (top = new - 2 /\ new - 1 = Null))
    BY <1>1 DEF LastFree
  <1>3. \A i \in Index : nxt[i] = IF i \in size..(new - 1)
                                  THEN IF i = new - 1 THEN Null ELSE i + 1
                                  ELSE next[i]
    BY DEF Linked
  <1>4. \A i \in Index : dep[i] = IF i \in size..top THEN top - i + 1 ELSE depth[i]
    BY DEF NewDepth
  <1>5. \A i \in Index : depth[i] = 0
    BY DEF FreeListInv, ListOK
  <1>6. nxt \in [Index -> Index \cup {Junk}]
    <2>1. \A i \in Index : i \in size..(new - 1) /\ i # new - 1 => i + 1 \in Index
      BY <1>1 DEF Index
    <2>2. Null \in Index
      BY <1>1 DEF Index
    <2>3. \A i \in Index : nxt[i] \in Index \cup {Junk}
      BY <1>3, <2>1, <2>2 DEF TypeOK
    <2> QED
      BY <2>3 DEF Linked
  <1>7. dep \in [Index -> Nat]
    <2>1. \A i \in Index : i \in size..top => top - i + 1 \in Nat
      BY <1>1, <1>2 DEF Index
    <2>2. \A i \in Index : dep[i] \in Nat
      BY <1>4, <1>5, <2>1
    <2> QED
      BY <2>2 DEF NewDepth
  <1>8. \A i \in Index : i \in (low..(size - 1)) \ {Null} => i \in inUse
    BY <1>5 DEF FreeListInv, ListOK, Items, low
  <1>9. inUse \subseteq low..(size - 1)
    BY DEF FreeListInv, Items, low
  <1>10. \A i \in Index : dep[i] > 0 <=> i \in size..top
    BY <1>1, <1>2, <1>4, <1>5 DEF Index
  <1>11. \A i \in Index : i \in size..top <=> i \in ((low..(new - 1)) \ {Null}) \ inUse
    BY <1>1, <1>2, <1>8, <1>9 DEF Index
  <1>12. size \in Index \ {Null} /\ size \in size..top /\ dep[size] = top - size + 1
    BY <1>1, <1>2, <1>4 DEF Index
  <1>13. \A i \in Index : dep[i] <= dep[size]
    BY <1>1, <1>2, <1>4, <1>5, <1>12 DEF Index
  <1>14. \A i \in Index : dep[i] = 1 => nxt[i] = Null
    BY <1>1, <1>2, <1>3, <1>4, <1>5 DEF Index
  <1>15. ASSUME NEW i \in Index, dep[i] > 1
         PROVE  nxt[i] \in Index \ {Null} /\ dep[nxt[i]] = dep[i] - 1
    <2>1. i \in size..top /\ dep[i] = top - i + 1 /\ i < top
      BY <1>15, <1>1, <1>2, <1>4, <1>5 DEF Index
    <2>2. nxt[i] = i + 1 /\ i + 1 \in size..top /\ i + 1 \in Index /\ i + 1 # Null
      BY <2>1, <1>1, <1>2, <1>3 DEF Index
    <2> QED
      BY <2>1, <2>2, <1>1, <1>2, <1>4 DEF Index
  <1>16. \A i, j \in Index : dep[i] = dep[j] /\ dep[i] > 0 => i = j
    BY <1>1, <1>2, <1>4, <1>5 DEF Index
  <1>17. ~(\A i \in Index : dep[i] = 0)
    BY <1>1, <1>2, <1>12
  <1>18. ListOK(size, nxt, dep, (low..(new - 1)) \ {Null}, inUse)
    <2> HIDE DEF nxt, dep
    <2> QED
      BY <1>10, <1>11, <1>12, <1>13, <1>14, <1>15, <1>16, <1>17 DEF ListOK
  <1> QED
    BY <1>1, <1>6, <1>7, <1>12, <1>18 DEF new, low

-----------------------------------------------------------------------------
\* The items of the array never include EB_NULL.
LEMMA ItemsFacts ==
    TypeOK => Null \notin Items /\ Items \subseteq Index /\ IsFiniteSet(Items)
  <1> SUFFICES ASSUME TypeOK
               PROVE  Null \notin Items /\ Items \subseteq Index /\ IsFiniteSet(Items)
    OBVIOUS
  <1>1. First(build) \in Nat /\ size \in Nat /\ size <= Null + 1
    <2>1. build \in Builds /\ size \in Sizes /\ size <= MaxSize
      BY DEF TypeOK
    <2>2. First(build) \in Sizes /\ MaxSize \in Sizes /\ Sizes \subseteq Nat
      BY <2>1, SizeAssumption
    <2>3. First(build) \in Nat /\ size \in Nat /\ MaxSize \in Nat
      BY <2>1, <2>2
    <2>4. Null \in Nat /\ MaxSize <= Null + 1
      BY NullAssumption
    <2> QED
      BY <2>1, <2>3, <2>4
  <1>2. IsFiniteSet(First(build)..(size - 1))
    BY <1>1, FS_Interval
  <1>3. IsFiniteSet(Items)
    BY <1>2, FS_Subset DEF Items
  <1>4. Items \subseteq Index
    BY <1>1, NullAssumption DEF Items, Index
  <1> QED
    BY <1>3, <1>4 DEF Items

\* There are as many indices below EB_NULL as its value says.
LEMMA BelowNull == IsFiniteSet(0..(Null - 1)) /\ Cardinality(0..(Null - 1)) = Null
  <1>1. 0 \in Int /\ Null - 1 \in Int /\ Null \in Nat
    BY NullAssumption
  <1>2. /\ IsFiniteSet(0..(Null - 1))
        /\ Cardinality(0..(Null - 1)) = IF 0 > Null - 1 THEN 0 ELSE (Null - 1) - 0 + 1
    BY <1>1, FS_Interval
  <1> QED
    BY <1>1, <1>2

\* The number of items handed out fits the 16-bit counter.
LEMMA CountFits ==
    ASSUME TypeOK, NEW S, S \subseteq Items
    PROVE  IsFiniteSet(S) /\ Cardinality(S) \in Nat /\ Cardinality(S) <= Null
  <1>1. Items \subseteq Index \ {Null} /\ IsFiniteSet(Items)
    BY ItemsFacts
  <1>2. Index \ {Null} = 0..(Null - 1)
    BY NullAssumption DEF Index
  <1>3. IsFiniteSet(0..(Null - 1)) /\ Cardinality(0..(Null - 1)) = Null
    BY BelowNull
  <1>4. S \subseteq 0..(Null - 1)
    BY <1>1, <1>2
  <1> QED
    BY <1>3, <1>4, FS_Subset, FS_CardinalityType

\* The inductive invariant: types, the free list and the counter.
IInv == TypeOK /\ FreeListInv /\ UsedCount

\* The invariant holds initially.
LEMMA InitIInv == Init => IInv
  <1> SUFFICES ASSUME Init PROVE IInv
    OBVIOUS
  <1>1. Null \in Nat /\ 0 \in Index /\ Null \in Index
    BY NullAssumption DEF Index
  <1>2. First(build) \in Sizes /\ First(build) \in Nat /\ First(build) <= MaxSize
    <2>1. First(build) \in Sizes /\ First(build) \in Nat
      BY SizeAssumption DEF Init
    <2>2. First(build) # MaxSize => First(build) < NextSize(build, First(build))
                                    /\ NextSize(build, First(build)) \in Sizes
                                    /\ NextSize(build, First(build)) <= MaxSize
      BY <2>1, SizeAssumption DEF Init
    <2> QED
      <3>1. MaxSize \in Nat /\ Sizes \subseteq Nat
        BY SizeAssumption
      <3>2. First(build) # MaxSize => NextSize(build, First(build)) \in Nat
        BY <2>2, <3>1
      <3> QED
        BY <2>1, <2>2, <3>1, <3>2
  <1>3. TypeOK
    BY <1>1, <1>2 DEF Init, TypeOK
  <1>4. Items = {}
    BY <1>2 DEF Init, Items
  <1>5. FreeListInv
    BY <1>1, <1>4 DEF Init, FreeListInv, ListOK
  <1>6. UsedCount
    BY FS_EmptySet DEF Init, UsedCount
  <1> QED
    BY <1>3, <1>5, <1>6 DEF IInv

\* What Take does to the counter and to the set of items in use.
LEMMA TakeCount ==
    ASSUME TypeOK, UsedCount, inUse \subseteq Items, Items' \subseteq Index \ {Null},
           NEW h \in Items', h \notin inUse, Items \subseteq Items',
           inUse' = inUse \cup {h}, used' = (used + 1) % (Null + 1)
    PROVE  UsedCount' /\ inUse' \subseteq Items'
  <1>1. inUse' \subseteq Items'
    OBVIOUS
  <1>2. IsFiniteSet(inUse) /\ Cardinality(inUse) \in Nat
    BY CountFits
  <1>3. Cardinality(inUse') = Cardinality(inUse) + 1
    BY <1>2, FS_AddElement
  <1>4. Null \in Nat /\ Cardinality(inUse) + 1 <= Null
    <2>2. IsFiniteSet(0..(Null - 1)) /\ Cardinality(0..(Null - 1)) = Null /\ Null \in Nat
      BY NullAssumption, BelowNull
    <2>3. inUse' \subseteq 0..(Null - 1)
      BY <1>1, <2>2 DEF Index
    <2>4. Cardinality(inUse') <= Null
      BY <2>2, <2>3, FS_Subset, ZenonT(60)
    <2> QED
      BY <2>2, <2>4, <1>2, <1>3
  <1>5. (Cardinality(inUse) + 1) % (Null + 1) = Cardinality(inUse) + 1
    BY <1>2, <1>4
  <1> QED
    BY <1>1, <1>3, <1>5 DEF UsedCount

\* Taking the head of the free list keeps the invariant.
LEMMA NewItemIInv == IInv /\ NewItem => IInv'
  <1> SUFFICES ASSUME IInv, NewItem PROVE IInv'
    OBVIOUS
  <1> USE DEF IInv
  <1>1. head \in Index \ {Null} /\ Null \notin Items /\ head \in Items \ inUse
    BY ItemsFacts DEF NewItem, TypeOK, FreeListInv, ListOK
  <1>2. next \in [Index -> Index \cup {Junk}] /\ depth \in [Index -> Nat]
    BY DEF TypeOK
  <1>3. ListOK(head, next, depth, Items, inUse)
    BY DEF FreeListInv
  <1>4. head' \in Index /\ ListOK(head', next', depth', Items, inUse')
    <2>1. /\ next[head] \in Index
          /\ ListOK(next[head], [next EXCEPT ![head] = Junk], [depth EXCEPT ![head] = 0],
                    Items, inUse \cup {head})
      BY <1>1, <1>2, <1>3, TakeList
    <2> QED
      BY <2>1 DEF NewItem, Take
  <1>5. Items' = Items
    BY DEF NewItem, Items
  <1>6. used' \in Index
    BY NullAssumption DEF NewItem, Take, TypeOK, Index
  <1>7. TypeOK'
    BY <1>1, <1>2, <1>4, <1>6 DEF NewItem, Take, TypeOK
  <1>8. UsedCount' /\ inUse' \subseteq Items'
    BY <1>1, <1>5, ItemsFacts, TakeCount DEF NewItem, Take, FreeListInv
  <1> QED
    BY <1>4, <1>5, <1>7, <1>8 DEF FreeListInv

\* So does an expansion of the array, also to its largest size.
LEMMA NewItemExpandingIInv == IInv /\ NewItemExpanding => IInv'
  <1> SUFFICES ASSUME IInv, NewItemExpanding PROVE IInv'
    OBVIOUS
  <1> USE DEF IInv
  <1> DEFINE new == NextSize(build, size)
             nxt == Linked(size, new)
             dep == NewDepth(size, new)
  <1>1. /\ new \in Sizes /\ size < new /\ new <= MaxSize
        /\ size \in Index \ {Null}
        /\ nxt \in [Index -> Index \cup {Junk}]
        /\ dep \in [Index -> Nat]
        /\ ListOK(size, nxt, dep, (First(build)..(new - 1)) \ {Null}, inUse)
    BY ExpandList DEF NewItemExpanding
  <1>2. size' = new /\ build' = build /\ Take(size, nxt, dep)
    BY DEF NewItemExpanding
  <1> HIDE DEF new, nxt, dep
  <1>3. Items' = (First(build)..(new - 1)) \ {Null}
    BY <1>2 DEF Items, First
  <1>4. /\ nxt[size] \in Index
        /\ ListOK(nxt[size], [nxt EXCEPT ![size] = Junk], [dep EXCEPT ![size] = 0],
                  Items', inUse \cup {size})
    <2>1. Null \notin Items'
      BY <1>3
    <2> QED
      BY <2>1, <1>1, <1>3, TakeList
  <1>5. ListOK(head', next', depth', Items', inUse') /\ head' \in Index
    BY <1>2, <1>4 DEF Take
  <1>6. used' \in Index
    BY <1>2, NullAssumption DEF Take, TypeOK, Index
  <1>7. First(build) \in Nat /\ size \in Nat /\ new \in Nat
    BY <1>1, SizeAssumption DEF TypeOK
  <1>8. First(build') <= size'
    BY <1>1, <1>2, <1>7 DEF TypeOK
  <1>9. TypeOK'
    BY <1>1, <1>2, <1>5, <1>6, <1>8 DEF Take, TypeOK
  <1>10. size \in Items' /\ size \notin inUse /\ Items \subseteq Items'
    BY <1>1, <1>3, <1>7 DEF Items, FreeListInv, TypeOK
  <1>11. UsedCount' /\ inUse' \subseteq Items'
    <2>1. Items' \subseteq Index \ {Null}
      BY <1>1, <1>3, <1>7, SizeAssumption, NullAssumption DEF Index
    <2> QED
      BY <1>2, <1>10, <2>1, TakeCount DEF Take, FreeListInv
  <1> QED
    BY <1>5, <1>9, <1>11 DEF FreeListInv

\* So does giving an item back.
LEMMA FreeItemIInv == ASSUME NEW item \in Index, IInv, FreeItem(item) PROVE IInv'
  <1> USE DEF IInv
  <1>1. Items' = Items /\ Items \subseteq Index /\ Null \notin Items /\ item \in Items
    BY ItemsFacts DEF FreeItem, Items, FreeListInv
  <1>2. depth[item] = 0 /\ item # Null /\ item # head
    BY <1>1 DEF FreeItem, FreeListInv, ListOK, TypeOK
  <1> DEFINE k == IF head = Null THEN 1 ELSE depth[head] + 1
  <1>3. k \in Nat /\ k > 0 /\ \A i \in Index : depth[i] < k
    BY DEF FreeListInv, ListOK, TypeOK
  <1>4. depth' = [depth EXCEPT ![item] = k] /\ next' = [next EXCEPT ![item] = head]
        /\ head' = item /\ inUse' = inUse \ {item}
    BY DEF FreeItem
  <1> HIDE DEF k
  <1>5. \A i \in Index : /\ depth'[i] = (IF i = item THEN k ELSE depth[i])
                         /\ next'[i] = (IF i = item THEN head ELSE next[i])
    BY <1>4 DEF TypeOK
  <1>6. used' \in Index
    BY NullAssumption DEF FreeItem, TypeOK, Index
  <1>7. TypeOK'
    BY <1>3, <1>4, <1>6 DEF FreeItem, TypeOK
  <1>8. \A i \in Index : depth'[i] > 0 <=> i \in Items \ inUse'
    BY <1>1, <1>2, <1>3, <1>4, <1>5 DEF FreeListInv, ListOK
  <1>9. /\ ~(\A i \in Index : depth'[i] = 0)
        /\ depth'[item] > 0 /\ \A i \in Index : depth'[i] <= depth'[item]
    BY <1>3, <1>5 DEF TypeOK
  <1>10. \A i \in Index : depth'[i] = 1 => next'[i] = Null
    <2>1. k = 1 => head = Null
      BY DEF k, FreeListInv, ListOK, TypeOK
    <2> QED
      BY <2>1, <1>5 DEF FreeListInv, ListOK
  <1>11. ASSUME NEW i \in Index, depth'[i] > 1
         PROVE  next'[i] \in Index \ {Null} /\ depth'[next'[i]] = depth'[i] - 1
    <2>1. CASE i = item
      <3>1. head # Null /\ k = depth[head] + 1
        BY <2>1, <1>5, <1>11 DEF k
      <3> QED
        BY <3>1, <2>1, <1>2, <1>5 DEF TypeOK
    <2>2. CASE i # item
      <3>1. depth[i] > 1 /\ next[i] \in Index \ {Null} /\ depth[next[i]] = depth[i] - 1
        BY <2>2, <1>5, <1>11 DEF FreeListInv, ListOK
      <3>2. next[i] # item
        BY <3>1, <1>2 DEF TypeOK
      <3> QED
        BY <3>1, <3>2, <2>2, <1>5
    <2> QED
      BY <2>1, <2>2
  <1>12. \A i, j \in Index : depth'[i] = depth'[j] /\ depth'[i] > 0 => i = j
    BY <1>3, <1>5 DEF FreeListInv, ListOK, TypeOK
  <1>13. ListOK(head', next', depth', Items', inUse')
    BY <1>1, <1>2, <1>4, <1>8, <1>9, <1>10, <1>11, <1>12 DEF ListOK
  <1>14. UsedCount'
    <2>1. IsFiniteSet(inUse) /\ Cardinality(inUse) \in Nat /\ Cardinality(inUse) <= Null
      BY CountFits DEF FreeListInv
    <2>2. Cardinality(inUse') = Cardinality(inUse) - 1 /\ Cardinality(inUse') \in Nat
      BY <1>4, <2>1, FS_RemoveElement, FS_CardinalityType DEF FreeItem
    <2>3. used' = (Cardinality(inUse) - 1) % (Null + 1)
      BY DEF FreeItem, UsedCount
    <2> QED
      BY <2>1, <2>2, <2>3, NullAssumption DEF UsedCount
  <1> QED
    BY <1>1, <1>4, <1>7, <1>13, <1>14 DEF FreeListInv

\* The allocator never hands out an item twice, never loses one and counts
\* them right (array.c:38-57), whatever the size of the array, in both builds.
THEOREM AllocatorCorrect == Spec => [](TypeOK /\ FreeListInv /\ UsedCount)
  <1>1. IInv /\ [Next]_vars => IInv'
    <2> SUFFICES ASSUME IInv, [Next]_vars PROVE IInv'
      OBVIOUS
    <2>1. CASE NewItem
      BY <2>1, NewItemIInv
    <2>2. CASE NewItemExpanding
      BY <2>2, NewItemExpandingIInv
    <2>3. CASE UNCHANGED vars
      BY <2>3 DEF vars, IInv, TypeOK, FreeListInv, UsedCount, ListOK, Items
    <2>4. CASE NewItemFails
      BY <2>3, <2>4 DEF NewItemFails
    <2>5. ASSUME NEW item \in Index, FreeItem(item) PROVE IInv'
      BY <2>5, FreeItemIInv
    <2> QED
      BY <2>1, <2>2, <2>3, <2>4, <2>5 DEF Next
  <1> QED
    BY InitIInv, <1>1, PTL DEF Spec, IInv

-----------------------------------------------------------------------------
(* The walk along the links, from the depths. *)

Walk(w) == w = [n \in 0..(Null + 1) |->
                  IF n = 0 THEN head
                  ELSE IF w[n - 1] \in Index \ {Null} THEN next[w[n - 1]] ELSE w[n - 1]]

\* The recursion that follows the links defines a function.
LEMMA WalkExists ==
    ASSUME TypeOK
    PROVE  \E w : Walk(w) /\ FreeList = {w[n] : n \in 0..(Null + 1)}
  <1> DEFINE V == Index \cup {Junk}
             m == Null + 1
             follow == [v \in V |-> IF v \in Index \ {Null} THEN next[v] ELSE v]
             h == [n \in 1..m |-> follow]
  <1>1. m \in Nat /\ 0 \in 0..m /\ \A n \in 1..m : n - 1 \in 0..m
    BY NullAssumption
  <1>2. head \in V /\ follow \in [V -> V]
    BY DEF TypeOK
  <1>3. h \in [1..m -> [V -> V]]
    BY <1>2
  <1>4. PICK f \in [0..m -> V] : f[0] = head /\ \A n \in 1..m : f[n] = h[n][f[n - 1]]
    <2> HIDE DEF V, h, m
    <2> QED
      BY <1>1, <1>2, <1>3, RecursiveFcn
  <1>5. ASSUME NEW n \in 0..m
        PROVE  f[n] = IF n = 0 THEN head
                      ELSE IF f[n - 1] \in Index \ {Null} THEN next[f[n - 1]] ELSE f[n - 1]
    <2>1. CASE n = 0
      BY <1>4, <2>1
    <2>2. CASE n # 0
      <3>1. n \in 1..m /\ f[n - 1] \in V
        BY <1>1, <2>2
      <3>2. f[n] = follow[f[n - 1]]
        BY <1>4, <3>1
      <3> QED
        BY <2>2, <3>1, <3>2
    <2> QED
      BY <2>1, <2>2
  <1>6. Walk(f)
    <2>1. f = [n \in 0..m |-> f[n]]
      OBVIOUS
    <2> QED
      BY <1>5, <2>1 DEF Walk
  <1> DEFINE w == CHOOSE g : Walk(g)
  <1>7. Walk(w)
    BY <1>6
  <1>8. FreeList = {w[n] : n \in 0..(Null + 1)}
    BY Zenon DEF FreeList, Walk
  <1> QED
    BY <1>7, <1>8

\* Every depth up to that of the head is the depth of some item.
LEMMA DepthsTaken ==
    ASSUME TypeOK, FreeListInv, head # Null
    PROVE  \A k \in 1..depth[head] : \E i \in Index : depth[i] = k
  <1> DEFINE D == depth[head]
             S == {n \in 0..(D - 1) : \E i \in Index : depth[i] = D - n}
  <1>1. D \in Nat /\ D > 0 /\ head \in Index /\ \A i \in Index : depth[i] \in Nat
    BY DEF TypeOK, FreeListInv, ListOK
  <1>2. \A i \in Index : depth[i] > 1 => next[i] \in Index /\ depth[next[i]] = depth[i] - 1
    BY DEF FreeListInv, ListOK
  <1>3. head \in Index /\ depth[head] = D
    BY <1>1
  <1> HIDE DEF D
  <1>4. 0 \in S
    BY <1>1, <1>3
  <1>5. ASSUME NEW n \in 1..(D - 1), n - 1 \in S PROVE n \in S
    <2>1. PICK i \in Index : depth[i] = D - (n - 1)
      BY <1>5
    <2>2. next[i] \in Index /\ depth[next[i]] = D - n
      BY <1>1, <1>2, <2>1
    <2> QED
      BY <1>1, <2>2
  <1> HIDE DEF S
  <1>6. D - 1 \in Nat
    BY <1>1
  <1>7. 0..(D - 1) \subseteq S
    BY <1>4, <1>5, <1>6, IntervalInd
  <1>8. ASSUME NEW k \in 1..D PROVE \E i \in Index : depth[i] = k
    <2>1. D - k \in S /\ D - (D - k) = k
      BY <1>1, <1>7
    <2> QED
      BY <2>1 DEF S
  <1> QED
    BY <1>8 DEF D

\* There are no more depths than indices.
LEMMA DepthBound ==
    ASSUME TypeOK, FreeListInv, head # Null
    PROVE  depth[head] \in Nat /\ depth[head] <= Null + 1
  <1>1. PICK D : D = depth[head]
    OBVIOUS
  <1>2. D \in Nat /\ D > 0
    BY <1>1 DEF TypeOK, FreeListInv, ListOK
  <1> DEFINE f == [k \in 1..D |-> CHOOSE i \in Index : depth[i] = k]
  <1>3. \A k \in 1..D : f[k] \in Index /\ depth[f[k]] = k
    BY <1>1, DepthsTaken
  <1>4. f \in [1..D -> Index]
    BY <1>3
  <1>5. f \in Injection(1..D, Index)
    BY <1>3, <1>4 DEF Injection, IsInjective
  <1> HIDE DEF f
  <1>6. IsFiniteSet(Index) /\ Cardinality(Index) = Null + 1
    BY NullAssumption, FS_Interval DEF Index
  <1>7. Cardinality(1..D) <= Cardinality(Index)
    BY <1>5, <1>6, FS_Injection
  <1>8. Cardinality(1..D) = D
    BY <1>2, FS_Interval
  <1> QED
    BY <1>1, <1>2, <1>6, <1>7, <1>8

\* FreeListExact follows from the invariant: the n-th item of the walk is
\* the one whose depth is that of the head less n.
LEMMA ExactList ==
    ASSUME TypeOK, FreeListInv
    PROVE  FreeListExact
  <1>1. PICK w : Walk(w) /\ FreeList = {w[n] : n \in 0..(Null + 1)}
    BY WalkExists
  <1> DEFINE m == Null + 1
             B(n) == IF n = 0 THEN head
                     ELSE IF w[n - 1] \in Index \ {Null} THEN next[w[n - 1]] ELSE w[n - 1]
  <1>2. \A n \in 0..m : w[n] = B(n)
    <2>1. w = [n \in 0..m |-> B(n)]
      BY <1>1 DEF Walk
    <2> HIDE DEF B
    <2> QED
      BY <2>1
  <1>3. m \in Nat /\ Null \in Nat
    BY NullAssumption
  <1>4. /\ w[0] = head
        /\ \A n \in 1..m : w[n - 1] \in Index \ {Null} => w[n] = next[w[n - 1]]
        /\ \A n \in 1..m : w[n - 1] = Null => w[n] = Null
    BY <1>2, <1>3
  <1> HIDE DEF B
  <1>5. \A i \in Index : i \in Items \ inUse <=> depth[i] > 0
    BY DEF FreeListInv, ListOK
  <1>6. Items \subseteq Index /\ Null \notin Items
    BY ItemsFacts
  <1>7. CASE head = Null
    <2> DEFINE S == {n \in 0..m : w[n] = Null}
    <2>1. 0 \in S
      BY <1>3, <1>4, <1>7
    <2>2. \A n \in 1..m : n - 1 \in S => n \in S
      BY <1>3, <1>4
    <2>3. 0..m \subseteq S
      <3> HIDE DEF S, m
      <3> QED
        BY <1>3, <2>1, <2>2, IntervalInd
    <2>4. FreeList \ {Null} = {}
      BY <1>1, <2>3
    <2>5. \A i \in Index : depth[i] = 0
      BY <1>7 DEF FreeListInv, ListOK
    <2>6. Items \ inUse = {}
      BY <1>5, <1>6, <2>5
    <2> QED
      BY <2>4, <2>6 DEF FreeListExact
  <1>8. CASE head # Null
    <2>1. PICK D : D = depth[head]
      OBVIOUS
    <2>2. D \in Nat /\ D > 0 /\ D <= m
      BY <1>8, <2>1, DepthBound DEF FreeListInv, ListOK
    <2>3. head \in Index \ {Null} /\ \A i \in Index : depth[i] \in Nat /\ depth[i] <= D
      BY <1>8, <2>1 DEF TypeOK, FreeListInv, ListOK
    <2> DEFINE S == {n \in 0..m : IF n < D THEN w[n] \in Index \ {Null} /\ depth[w[n]] = D - n
                                           ELSE w[n] = Null}
    <2>4. 0 \in S
      BY <1>3, <1>4, <2>1, <2>2, <2>3
    <2>5. ASSUME NEW n \in 1..m, n - 1 \in S PROVE n \in S
      <3>1. CASE n - 1 < D
        <4>1. w[n - 1] \in Index \ {Null} /\ depth[w[n - 1]] = D - (n - 1)
          BY <2>5, <3>1
        <4>2. w[n] = next[w[n - 1]]
          BY <1>4, <4>1
        <4>3. /\ depth[w[n - 1]] = 1 => next[w[n - 1]] = Null
              /\ depth[w[n - 1]] > 1 => /\ next[w[n - 1]] \in Index \ {Null}
                                        /\ depth[next[w[n - 1]]] = depth[w[n - 1]] - 1
          BY <4>1 DEF FreeListInv, ListOK
        <4>4. CASE n < D
          <5>1. D - (n - 1) > 1 /\ D - (n - 1) - 1 = D - n
            BY <1>3, <2>2, <4>4
          <5> QED
            BY <1>3, <4>1, <4>2, <4>3, <4>4, <5>1
        <4>5. CASE ~(n < D)
          <5>1. D - (n - 1) = 1
            BY <1>3, <2>2, <3>1, <4>5
          <5> QED
            BY <1>3, <4>1, <4>2, <4>3, <4>5, <5>1
        <4> QED
          BY <4>4, <4>5
      <3>2. CASE ~(n - 1 < D)
        <4>1. w[n - 1] = Null /\ ~(n < D)
          BY <1>3, <2>2, <2>5, <3>2
        <4> QED
          BY <1>3, <1>4, <4>1
      <3> QED
        BY <3>1, <3>2
    <2>6. 0..m \subseteq S
      <3> HIDE DEF S, m
      <3> QED
        BY <1>3, <2>4, <2>5, IntervalInd
    <2>7. ASSUME NEW i \in FreeList \ {Null} PROVE i \in Items \ inUse
      <3>1. PICK n \in 0..m : i = w[n]
        BY <1>1, <2>7
      <3>2. n \in S /\ n < D
        BY <2>6, <2>7, <3>1
      <3>3. i \in Index /\ depth[i] = D - n
        BY <3>1, <3>2
      <3>4. depth[i] > 0
        BY <1>3, <2>2, <3>2, <3>3
      <3> QED
        BY <1>5, <3>3, <3>4
    <2>8. ASSUME NEW i \in Items \ inUse PROVE i \in FreeList \ {Null}
      <3>1. i \in Index /\ i # Null /\ depth[i] > 0 /\ depth[i] <= D /\ depth[i] \in Nat
        BY <1>5, <1>6, <2>3
      <3> DEFINE n == D - depth[i]
      <3>2. n \in 0..m /\ n < D /\ D - n = depth[i]
        BY <1>3, <2>2, <3>1
      <3> HIDE DEF n
      <3>3. w[n] \in Index /\ depth[w[n]] = depth[i]
        BY <2>6, <3>2
      <3>4. w[n] = i
        BY <3>1, <3>3 DEF FreeListInv, ListOK
      <3> QED
        BY <1>1, <3>1, <3>2, <3>4
    <2> QED
      BY <2>7, <2>8 DEF FreeListExact
  <1> QED
    BY <1>7, <1>8

\* Walking the free list (array.c:45-46) meets exactly the items that are
\* not handed out, in an array of any size.
THEOREM FreeListHolds == Spec => []FreeListExact
  <1>1. TypeOK /\ FreeListInv => FreeListExact
    BY ExactList
  <1> QED
    BY <1>1, AllocatorCorrect, PTL

\* The 16-bit counter eb_memory_used never wraps (array.c:36, 48, 55): it is
\* the number of items handed out.
THEOREM UsedCountHolds == Spec => []UsedCount
  BY AllocatorCorrect, PTL

\* The size is one of those the expansion goes through, and the links are
\* indices of the array, in both builds.
THEOREM TypesHold == Spec => []TypeOK
  BY AllocatorCorrect, PTL
=============================================================================

------------------------------ MODULE EBMemory ------------------------------
(***************************************************************************)
(* The item allocator of the Etherbone library: api/memory/array.c over    *)
(* api/memory/dynamic.c (the array doubles on demand) or static.c (one     *)
(* array, linked on first use).                                            *)
(*                                                                         *)
(* Sockets, devices, cycles, operations, responses, links and handlers are *)
(* all items of one array.  A pointer is a 16-bit index and EB_NULL, which *)
(* is also EB_END_OF_FREE, is the largest index.  Free items form a list   *)
(* threaded through the items: an item's "next" overlays the user's data,  *)
(* so what it holds while the item is handed out is Junk.                  *)
(***************************************************************************)
EXTENDS Integers, FiniteSets

CONSTANTS
    Base,       \* eb_memory_array_size before the first expansion (128)
    MaxSize,    \* the size at which eb_expand_array gives up (65536)
    Null,       \* EB_NULL = EB_END_OF_FREE ((uint16_t)-1)
    Sizes,      \* the sizes the array can have, closed under NextSize
    Builds,     \* which of the two eb_expand_array are linked in
    Junk        \* content of an item that is in use

Dynamic == "dynamic.c"
Static == "static.c"

First(build) == IF build = Static THEN 0 ELSE Base

\* static.c: the one expansion makes all items available;
\* dynamic.c: "Doubling ensures constant cost".
NextSize(build, s) == IF build = Static THEN MaxSize ELSE s + s

ASSUME BuildAssumption == Builds \subseteq {Dynamic, Static}

ASSUME SizeAssumption ==
    /\ Sizes \subseteq Nat
    /\ MaxSize \in Sizes
    /\ \A b \in Builds :
          /\ First(b) \in Sizes
          /\ \A s \in Sizes : First(b) <= s /\ s # MaxSize =>
                /\ NextSize(b, s) \in Sizes
                /\ s < NextSize(b, s)
                /\ NextSize(b, s) <= MaxSize

\* The last index of a full-size array is EB_NULL itself.
ASSUME NullAssumption ==
    /\ Null \in Nat
    /\ MaxSize <= Null + 1
    /\ \A s \in Sizes : s # MaxSize => s < Null

ASSUME JunkAssumption == Junk \notin 0..Null

VARIABLES
    build,      \* the eb_expand_array of this program
    size,       \* eb_memory_array_size
    head,       \* eb_memory_free
    next,       \* eb_memory_array[i].free_item.next
    used,       \* eb_memory_used, a 16-bit counter
    inUse,      \* (history) the items handed out and not yet given back
    depth       \* (history) distance of a free item to the end of the list

vars == <<build, size, head, next, used, inUse, depth>>

Index == 0..Null

\* The items that exist and can be handed out: all but the one named EB_NULL.
Items == (First(build)..(size - 1)) \ {Null}

Init ==
    /\ build \in Builds
    /\ size = First(build)
    /\ head = Null
    /\ next = [i \in Index |-> Junk]
    /\ used = 0
    /\ inUse = {}
    /\ depth = [i \in Index |-> 0]

-----------------------------------------------------------------------------
(* eb_expand_array links the new items in index order and makes the first  *)
(* of them the head.  Each result below is the array after the loop.       *)

\* (mutant of Linked) the last new item is not terminated.
LinkedOpenEnded(old, new) ==
    [i \in Index |-> IF i \in old..(new - 1) THEN i + 1 ELSE next[i]]

Linked(old, new) ==
    [i \in Index |->
        IF i \in old..(new - 1)
        THEN IF i = new - 1 THEN Null ELSE i + 1
        ELSE next[i]]

\* (history) new items count down to the end of the list, which an array
\* that reaches EB_NULL reaches one item early.
LastFree(new) == IF new - 1 = Null THEN Null - 1 ELSE new - 1

NewDepth(old, new) ==
    [i \in Index |-> IF i \in old..LastFree(new) THEN LastFree(new) - i + 1 ELSE depth[i]]

-----------------------------------------------------------------------------
\* (mutant of Take) eb_memory_free is not advanced.
TakeKeepsHead(h, nxt, dep) ==
    /\ head' = h
    /\ next' = nxt
    /\ depth' = [dep EXCEPT ![h] = 0]
    /\ inUse' = inUse \cup {h}
    /\ used' = (used + 1) % (Null + 1)

\* eb_new_memory_item takes the head h of the list threaded through nxt.
Take(h, nxt, dep) ==
    /\ head' = nxt[h]
    /\ next' = [nxt EXCEPT ![h] = Junk]
    /\ depth' = [dep EXCEPT ![h] = 0]
    /\ inUse' = inUse \cup {h}
    /\ used' = (used + 1) % (Null + 1)

\* eb_new_memory_item when the free list is not empty.
NewItem ==
    /\ head # Null
    /\ Take(head, next, depth)
    /\ UNCHANGED <<build, size>>

\* eb_new_memory_item when eb_expand_array has to run first.
NewItemExpanding ==
    /\ head = Null
    /\ size # MaxSize
    /\ size' = NextSize(build, size)
    /\ Take(size, Linked(size, size'), NewDepth(size, size'))
    /\ UNCHANGED build

\* eb_new_memory_item when eb_expand_array fails: the array has its largest
\* size, or (dynamic.c) realloc returned 0.  The caller gets EB_NULL.
NewItemFails ==
    /\ head = Null
    /\ size = MaxSize \/ build = Dynamic
    /\ UNCHANGED vars

\* (mutants of FreeItem) eb_memory_used is not counted down;
\* the item replaces the list instead of being put before it.
FreeItemUncounted(item) ==
    /\ item \in inUse
    /\ next' = [next EXCEPT ![item] = head]
    /\ depth' = [depth EXCEPT ![item] = IF head = Null THEN 1 ELSE depth[head] + 1]
    /\ head' = item
    /\ inUse' = inUse \ {item}
    /\ UNCHANGED <<build, size, used>>

FreeItemDropsList(item) ==
    /\ item \in inUse
    /\ next' = [next EXCEPT ![item] = Null]
    /\ depth' = [depth EXCEPT ![item] = 1]
    /\ head' = item
    /\ inUse' = inUse \ {item}
    /\ used' = (used - 1) % (Null + 1)
    /\ UNCHANGED <<build, size>>

\* eb_free_memory_item; callers give back what they got, once.
FreeItem(item) ==
    /\ item \in inUse
    /\ next' = [next EXCEPT ![item] = head]
    /\ depth' = [depth EXCEPT ![item] = IF head = Null THEN 1 ELSE depth[head] + 1]
    /\ head' = item
    /\ inUse' = inUse \ {item}
    /\ used' = (used - 1) % (Null + 1)
    /\ UNCHANGED <<build, size>>

Next ==
    \/ NewItem
    \/ NewItemExpanding
    \/ NewItemFails
    \/ \E item \in Index : FreeItem(item)

Spec == Init /\ [][Next]_vars

-----------------------------------------------------------------------------
(* Properties *)

TypeOK ==
    /\ build \in Builds
    /\ size \in Sizes
    /\ First(build) <= size
    /\ size <= MaxSize
    /\ head \in Index
    /\ next \in [Index -> Index \cup {Junk}]
    /\ used \in Index
    /\ inUse \in SUBSET Index
    /\ depth \in [Index -> Nat]

\* The items reached from eb_memory_free by following the links, as the code
\* would: walk[n] is the n-th item (Junk once the walk leaves the list).
FreeList ==
    LET walk[n \in 0..(Null + 1)] ==
            IF n = 0 THEN head
            ELSE IF walk[n - 1] \in Index \ {Null} THEN next[walk[n - 1]] ELSE walk[n - 1]
    IN  {walk[n] : n \in 0..(Null + 1)}

\* Walking the free list from eb_memory_free (array.c:45-46) ends at
\* EB_END_OF_FREE, meets no item that is in use, and meets every other item
\* of the array: no item is handed out twice and none is lost, EB_NULL is
\* never handed out, also when the array has grown over that index.
FreeListExact == FreeList \ {Null} = Items \ inUse

\* eb_memory_used counts the items handed out; the 16-bit counter
\* (array.c:36, 48, 55) never wraps.
UsedCount == used = Cardinality(inUse)

\* h, nxt and dep are a free list that holds exactly the items not in busy.
ListOK(h, nxt, dep, items, busy) ==
    /\ \A i \in Index : dep[i] > 0 <=> i \in items \ busy
    /\ h = Null <=> \A i \in Index : dep[i] = 0
    /\ h # Null => /\ dep[h] > 0
                   /\ \A i \in Index : dep[i] <= dep[h]
    /\ \A i \in Index : dep[i] = 1 => nxt[i] = Null
    /\ \A i \in Index : dep[i] > 1 =>
          /\ nxt[i] \in Index \ {Null}
          /\ dep[nxt[i]] = dep[i] - 1
    /\ \A i, j \in Index : dep[i] = dep[j] /\ dep[i] > 0 => i = j

\* What makes FreeListExact inductive: from eb_memory_free the links go down
\* one step of depth at a time (array.c:47, 54), the free items and no others
\* have a depth, no two of them the same, and the head is the deepest.
FreeListInv ==
    /\ inUse \subseteq Items
    /\ ListOK(head, next, depth, Items, inUse)
=============================================================================

------------------------------- MODULE MCScan -------------------------------
(* Remote buses for EBScan. *)
EXTENDS EBScan

Rec(type, id, first, last, child) ==
  [type |-> type, id |-> id, first |-> first, last |-> last, child |-> child]
Dev(id, first, last) == Rec("device", id, first, last, 0)
Bridge(first, last, child) == Rec("bridge", 0, first, last, child)

\* A crossbar with two further ones behind bridges, one of them nested again.
Nested ==
  [soft |-> FALSE, root |-> 8,
   tables |-> [a \in {8, 16, 24, 32} |->
     CASE a = 8  -> <<Bridge(16, 31, 16), Dev(1, 4, 7), Bridge(32, 47, 32)>>
       [] a = 16 -> <<Dev(1, 4, 5), Bridge(8, 15, 8)>>
       [] a = 24 -> <<Blank, Dev(1, 2, 3), Dev(2, 4, 5)>>
       [] a = 32 -> <<Dev(2, 4, 7), Dev(1, 8, 9)>>]]

\* A bridge to a bus without a table, one to an empty bus, one to a large bus.
Holes ==
  [soft |-> FALSE, root |-> 8,
   tables |-> [a \in {8, 32, 48} |->
     CASE a = 8  -> <<Bridge(16, 31, 16), Bridge(32, 47, 32), Bridge(48, 63, 48)>>
       [] a = 32 -> <<>>
       [] a = 48 -> <<Dev(1, 1, 1), Dev(2, 2, 2), Blank, Blank, Blank>>]]

\* This library: its devices are attached and detached.
Soft == [soft |-> TRUE, root |-> 0, tables |-> [a \in {} |-> <<>>]]

MCTrees == {Nested, Holes, Soft}
MCDevices == {Dev(1, 2, 3), Dev(1, 16, 23), Dev(2, 20, 21), Dev(1, 24, 25), Dev(1, 32, 33)}
MCFinds == {[kind |-> "identity", id |-> 1, addr |-> 0, size |-> 2],
            [kind |-> "identity", id |-> 1, addr |-> 0, size |-> 4]}
           \cup {[kind |-> "address", id |-> 1, addr |-> a, size |-> 1] : a \in {5, 21, 26, 33, 40}}

ASSUME MCProper == ProperBuses
=============================================================================

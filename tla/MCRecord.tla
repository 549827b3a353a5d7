------------------------------ MODULE MCRecord ------------------------------
(* Queues for EBRecord: a cycle of any few operations of a menu, then a short one. *)
EXTENDS EBRecord

CONSTANT MaxLen   \* operations of the first cycle

Op(dir, cfg, addr, sizes, endian) ==
  [dir |-> dir, cfg |-> cfg, addr |-> addr, sizes |-> sizes, endian |-> endian,
   format |-> [size |-> 0, endian |-> {}], val |-> 0, err |-> FALSE]

Menu == {Op("w", FALSE, 0, {1, 2}, {}), Op("w", FALSE, 2, {2, 4}, {}),
         Op("w", FALSE, 1, {1}, {"B"}),
         Op("r", FALSE, 2, {2}, {}), Op("r", FALSE, 1, {1}, {"B"}),
         Op("r", TRUE, 8, {2}, {})}

\* Writes carry their position, so that they can be told apart.
Numbered(ops) ==
  [i \in DOMAIN ops |-> IF ops[i].dir = "w" THEN [ops[i] EXCEPT !.val = i % Values(1)] ELSE ops[i]]

Second == {[ops |-> Numbered(<<Op("w", FALSE, 4, {2}, {})>>), checked |-> FALSE],
           [ops |-> <<Op("r", FALSE, 5, {1}, {"L"})>>, checked |-> TRUE],
           [ops |-> <<Op("r", FALSE, 4, {2}, {}), Op("r", FALSE, 3, {2}, {})>>, checked |-> TRUE]}

MCQueues ==
  {<<[ops |-> Numbered(ops), checked |-> b], second>> :
     ops \in BoundedSeq(Menu, MaxLen) \ {<<>>}, b \in BOOLEAN, second \in Second}

MCFaults == {{0, 4}, {1, 2}}
=============================================================================

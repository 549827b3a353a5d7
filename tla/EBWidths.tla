------------------------------ MODULE EBWidths ------------------------------
(***************************************************************************)
(* Bus widths: api/glue/widths.c.  A width is a byte: its low nibble is a  *)
(* mask of data widths in bytes (1, 2, 4, 8), its high nibble a mask of    *)
(* address widths.                                                         *)
(***************************************************************************)
EXTENDS Integers

Widths == 0..255

Data(w) == w % 16
Addr(w) == w \div 16

\* Bitwise operations on nibbles, through the set of the bits that are 1.
Bits(n) == {b \in 0..3 : (n \div 2^b) % 2 = 1}
Nibble(S) == (IF 0 \in S THEN 1 ELSE 0) + (IF 1 \in S THEN 2 ELSE 0)
             + (IF 2 \in S THEN 4 ELSE 0) + (IF 3 \in S THEN 8 ELSE 0)
OrTable == [m \in 0..15 |-> [n \in 0..15 |-> Nibble(Bits(m) \cup Bits(n))]]
AndTable == [m \in 0..15 |-> [n \in 0..15 |-> Nibble(Bits(m) \cap Bits(n))]]
Or(m, n) == OrTable[m][n]
And(m, n) == AndTable[m][n]

WidthAnd(v, w) == 16 * And(Addr(v), Addr(w)) + And(Data(v), Data(w))

WidthPossible(w) == Data(w) # 0 /\ Addr(w) # 0

WidthRefined(w) ==
    /\ WidthPossible(w)
    /\ And(Data(w), Data(w) - 1) = 0
    /\ And(Addr(w), Addr(w) - 1) = 0

\* (mutants of KeepLargest) the second, wider shift is forgotten;
\* so is the shift back.
KeepLargestOneShift == [n \in 0..15 |-> (Or(n, n \div 2) + 1) \div 2]

KeepLargestUnshifted ==
    [n \in 0..15 |-> Or(Or(n, n \div 2), Or(n, n \div 2) \div 4) + 1]

\* Smear the highest bit downwards, add one, shift back.
KeepLargest ==
    [n \in 0..15 |->
        LET m == Or(n, n \div 2)
            k == Or(m, m \div 4)
        IN  (k + 1) \div 2]

WidthRefine(w) == 16 * KeepLargest[Addr(w)] + KeepLargest[Data(w)]
=============================================================================

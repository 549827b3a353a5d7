------------------------------- MODULE Lists --------------------------------
(***************************************************************************)
(* Lists the library keeps, as sequences.  Filter is SelectSeq for a set   *)
(* of elements; it is spelled out because SelectSeq has no definition a    *)
(* proof can use.                                                          *)
(***************************************************************************)
EXTENDS Integers, Sequences, SequencesExt

\* The elements of s that are in S, in their order.
Filter(s, S) ==
    LET kept[i \in 0..Len(s)] ==
            IF i = 0 THEN <<>>
            ELSE IF s[i] \in S THEN Append(kept[i - 1], s[i]) ELSE kept[i - 1]
    IN  kept[Len(s)]

\* Every element of s is related to all that follow it.
Ordered(s, R) == \A i, j \in DOMAIN s : i < j => <<s[i], s[j]>> \in R
=============================================================================

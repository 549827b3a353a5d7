---------------------------- MODULE MCHandshake -----------------------------
(* EBHandshake on one index that devices of both kinds are given in turn.   *)
EXTENDS EBHandshake

\* Masks with one, two (adjacent or not) and four widths per nibble.
MCLocal == {255, 16 * 6 + 5}
MCRemote == {255, 16 * 10 + 12, 16 * 4 + 1}
MCProposals == {255, 16 * 8 + 8, 16 * 2 + 13, 16 * 4 + 4, 0}
=============================================================================

------------------------------- MODULE MCHeap -------------------------------
EXTENDS Heap
MCElements == {<<0, 0>>, <<1, 0>>, <<1, 1>>, <<2, 0>>}
=============================================================================

---------------------------- MODULE MCHeapAnalysis ----------------------------
(* HeapAnalysis for TLC: blocks of 0 to 2 bytes at two or three places,   *)
(* and writes in, across and between them.                                 *)
EXTENDS HeapAnalysis, TLC

MCRequests == { <<1, 0>>, <<1, 2>>, <<2, 1>> }
MCAccesses == { <<2, 2>>, <<3, 2>>, <<4, 1>> }
Symmetry   == Permutations(Threads)
===============================================================================

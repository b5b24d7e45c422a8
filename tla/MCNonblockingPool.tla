-------------------------- MODULE MCNonblockingPool --------------------------
(* Instance of NonblockingDownwardPool for TLC: pages of 8 bytes, an         *)
(* alignof(max_align_t) of 4, words of 7 or 8 bits.                          *)
EXTENDS NonblockingDownwardPool, TLC

NaturalRequests ==
  [bytes : {1, 4}, alignment : {1, 4}] \cup {[bytes |-> 0, alignment |-> 1]}

\* No alignment, one above that of max_align_t, one above the page.
MixedRequests ==
  {[bytes |-> 0, alignment |-> 1], [bytes |-> 3, alignment |-> 1],
   [bytes |-> 1, alignment |-> 8], [bytes |-> 5, alignment |-> 16]}

ThreadSymmetry == Permutations(Threads)
=============================================================================

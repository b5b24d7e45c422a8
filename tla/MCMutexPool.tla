----------------------------- MODULE MCMutexPool -----------------------------
(* Instance of MutexDownwardPool for TLC: pages of 8 bytes, an               *)
(* alignof(max_align_t) of 4.                                                *)
EXTENDS MutexDownwardPool, TLC

SmallRequests ==
  {[bytes |-> 0, alignment |-> 1], [bytes |-> 3, alignment |-> 1],
   [bytes |-> 1, alignment |-> 4], [bytes |-> 4, alignment |-> 2]}

ThreadSymmetry == Permutations(Threads)
=============================================================================

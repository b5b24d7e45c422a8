----------------------------- MODULE MCOwnedList -----------------------------
(* Instance of OwnedList for TLC.                                           *)
EXTENDS OwnedList, TLC

\* Allocators that stay with their list, such that move with the nodes (as
\* std::allocator), and pools.
ListKinds ==
  {[propagates |-> FALSE, arena |-> FALSE, memory |-> 6, length |-> 3],
   [propagates |-> TRUE,  arena |-> FALSE, memory |-> 4, length |-> 2],
   [propagates |-> TRUE,  arena |-> TRUE,  memory |-> 3, length |-> 2]}

NodeSymmetry == Permutations(Nodes)
=============================================================================

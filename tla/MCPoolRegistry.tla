--------------------------- MODULE MCPoolRegistry ---------------------------
(* Instance of PoolRegistry for TLC.                                        *)
EXTENDS PoolRegistry, TLC

PoolSymmetry == Permutations(Pools) \cup Permutations(Builders) \cup Permutations(Users)
=============================================================================

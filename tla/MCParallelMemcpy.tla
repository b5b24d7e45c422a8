--------------------------- MODULE MCParallelMemcpy ---------------------------
(* Instance of ParallelMemcpy for TLC.                                       *)
EXTENDS ParallelMemcpy

\* README.md says that copies of at most parallel_memcpy_min_parallel_bytes
\* bytes are made by std::memcpy in the caller.  There is no such constant in
\* the code; any positive value serves.
MinParallelBytes == 1

SmallCopiesStayInline ==
  mpc \in InCall /\ request <= MinParallelBytes => mpc = "inline"
=============================================================================

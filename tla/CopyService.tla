----------------------------- MODULE CopyService -----------------------------
(***************************************************************************)
(* What ParallelMemcpyPool::copy promises its caller, with no workers and  *)
(* no generations: one call at a time; while it is active destination      *)
(* bytes may be written in any order, never outside the requested range;   *)
(* when it returns, all of them are written; outside a call none is.       *)
(***************************************************************************)
EXTENDS Naturals

CONSTANT MaxSize   \* bound on the size of a copy

VARIABLES
  phase,     \* "idle", "copying", or "gone" once the pool is destroyed
  request,   \* size of the last copy
  copied     \* offsets of the destination that hold the source's bytes

vars == <<phase, request, copied>>

Bytes(n) == {b \in 0..MaxSize : b < n}

Init == phase = "idle" /\ request = 0 /\ copied = {}

Begin ==
  /\ phase = "idle"
  /\ phase' = "copying"
  /\ request' \in 1..MaxSize
  /\ copied' = {}

Write ==
  /\ phase = "copying"
  /\ copied' \in SUBSET Bytes(request)
  /\ copied \subseteq copied'
  /\ UNCHANGED <<phase, request>>

\* The last write may come with the return.
Return ==
  /\ phase = "copying"
  /\ copied' = Bytes(request)
  /\ phase' = "idle"
  /\ UNCHANGED request

Close ==
  /\ phase = "idle"
  /\ phase' = "gone"
  /\ UNCHANGED <<request, copied>>

Next == Begin \/ Write \/ Return \/ Close

Spec == Init /\ [][Next]_vars
=============================================================================

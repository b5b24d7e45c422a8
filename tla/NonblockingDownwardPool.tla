----------------------- MODULE NonblockingDownwardPool -----------------------
(***************************************************************************)
(* doost::NonblockingDownwardPool: threads share one atomic cursor and no  *)
(* lock.  allocate takes its reservation off the cursor with one fetch_sub *)
(* and aligns inside what it took, on its own; fetch_sub being its only    *)
(* access to shared memory, allocate is one step.                          *)
(***************************************************************************)
EXTENDS PoolClients

\* A request fits in a word, and an empty one asks for no strict alignment.
ASSUME ReservationAssumption ==
  \A r \in Requests :
    /\ r.bytes = 0 => r.alignment <= MaxAlign
    /\ r.bytes + Padding(r.alignment) + MaxAlign - 1 < Word
    /\ Reservation(r.bytes, r.alignment) <= MaxTake

vars == poolVars

Allocate(t, r) ==
  /\ IsOpen /\ pending[t] = NoBlock
  /\ cursor' = (cursor - Reservation(r.bytes, r.alignment)) % Word
  /\ pending' = [pending EXCEPT ![t] =
       [begin |-> AlignDownwardPoolCursor(cursor, r.bytes, r.alignment),
        bytes |-> r.bytes]]
  /\ UNCHANGED <<storage, maxAlloc, blocks, fate>>

\* The process is gone.
Ended == fate # "running" /\ UNCHANGED vars

Next ==
  \/ \E usable \in UsableSizes, m \in MaxAllocSizes, begin \in Mappings :
       Construct(usable, m, begin)
  \/ \E t \in Threads : Use(t) \/ UseOverflow(t) \/ \E r \in Requests : Allocate(t, r)
  \/ Reset \/ Release \/ Ended

Spec == InitPool /\ [][Next]_vars

TypeOK == PoolTypeOK
=============================================================================

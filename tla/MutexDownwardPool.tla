-------------------------- MODULE MutexDownwardPool --------------------------
(***************************************************************************)
(* doost::MutexDownwardPool: a DownwardPool behind a std::mutex.  The      *)
(* cursor is an ordinary variable; DownwardPool::allocate reads it, writes *)
(* it, and reads it once more to return it, and each access is a step.     *)
(* With one thread this is DownwardPool itself.                            *)
(***************************************************************************)
EXTENDS PoolClients

CONSTANT NoThread

ASSUME TakeAssumption ==
  /\ NoThread \notin Threads
  /\ \A r \in Requests : r.bytes + r.alignment - 1 <= MaxTake

VARIABLES
  mutex,    \* the thread that holds mutex_
  pc,       \* where each thread is
  current,  \* each thread's local copy of the cursor
  asked     \* and the bytes it asks for

lockVars == <<mutex, pc, current, asked>>
vars == <<poolVars, lockVars>>

Init ==
  /\ InitPool
  /\ mutex = NoThread
  /\ pc = [t \in Threads |-> "idle"]
  /\ current = [t \in Threads |-> 0]
  /\ asked = [t \in Threads |-> 0]

Go(t, from, to) ==
  /\ pc[t] = from
  /\ pc' = [pc EXCEPT ![t] = to]

\* Mistake: the mutex is not taken.
LockNothing(t, operation) ==
  /\ IsOpen /\ pending[t] = NoBlock
  /\ mutex' = t
  /\ Go(t, "idle", operation)

Lock(t, operation) ==
  /\ IsOpen /\ pending[t] = NoBlock
  /\ mutex = NoThread /\ mutex' = t
  /\ Go(t, "idle", operation)

Unlock(t) == mutex' = NoThread

BeginAllocate(t) ==
  /\ Lock(t, "allocate")
  /\ UNCHANGED <<poolVars, current, asked>>

ReadCursor(t) ==
  /\ Go(t, "allocate", "align")
  /\ current' = [current EXCEPT ![t] = cursor]
  /\ UNCHANGED <<poolVars, mutex, asked>>

\* The arguments r of the call matter from here on.
WriteCursor(t, r) ==
  /\ Go(t, "align", "return")
  /\ cursor' = AlignDownwardPoolCursor(current[t], r.bytes, r.alignment)
  /\ asked' = [asked EXCEPT ![t] = r.bytes]
  /\ UNCHANGED <<storage, maxAlloc, pending, blocks, fate, mutex, current>>

\* "return cursor_", and the lock_guard's destructor.
ReturnCursor(t) ==
  /\ Go(t, "return", "idle")
  /\ Unlock(t)
  /\ pending' = [pending EXCEPT ![t] = [begin |-> cursor, bytes |-> asked[t]]]
  /\ current' = [current EXCEPT ![t] = 0]
  /\ asked' = [asked EXCEPT ![t] = 0]
  /\ UNCHANGED <<storage, cursor, maxAlloc, blocks, fate>>

\* Other threads may wait for the mutex meanwhile; after a release the program
\* asks for nothing until there is a pool again.
BeginReset(t) ==
  /\ Lock(t, "reset")
  /\ Quiescent
  /\ UNCHANGED <<poolVars, current, asked>>

LockedReset(t) ==
  /\ Go(t, "reset", "idle")
  /\ Unlock(t)
  /\ Reset
  /\ UNCHANGED <<current, asked>>

BeginRelease(t) ==
  /\ Lock(t, "release")
  /\ Quiescent
  /\ UNCHANGED <<poolVars, current, asked>>

LockedRelease(t) ==
  /\ Go(t, "release", "idle")
  /\ Unlock(t)
  /\ Release
  /\ UNCHANGED <<current, asked>>

\* The process is gone.
Ended == fate # "running" /\ UNCHANGED vars

PoolStep(t) ==
  \/ BeginAllocate(t) \/ ReadCursor(t) \/ ReturnCursor(t)
  \/ \E r \in Requests : WriteCursor(t, r)
  \/ BeginReset(t) \/ LockedReset(t) \/ BeginRelease(t) \/ LockedRelease(t)

ClientStep ==
  \/ \E usable \in UsableSizes, m \in MaxAllocSizes, begin \in Mappings :
       Construct(usable, m, begin)
  \/ \E t \in Threads : Use(t) \/ UseOverflow(t)

Next ==
  \/ fate = "running" /\ \E t \in Threads : PoolStep(t)
  \/ ClientStep /\ UNCHANGED lockVars
  \/ Ended

Spec == Init /\ [][Next]_vars

TypeOK ==
  /\ PoolTypeOK
  /\ mutex \in Threads \cup {NoThread}
  /\ pc \in [Threads -> {"idle", "allocate", "align", "return", "reset", "release"}]
  /\ current \in [Threads -> Address]
  /\ asked \in [Threads -> Nat]

-----------------------------------------------------------------------------
(* Properties.                                                             *)

\* A thread that is in the pool's code, or holds a block it has not used,
\* finds the mapping still there: no release slips in between its steps.
MappedWhileInUse ==
  \A t \in Threads :
    pc[t] # "idle" \/ pending[t] # NoBlock => storage # NoStorage

\* No byte is lost: whatever resets, releases and allocations of other threads
\* came before, a byte taken off the cursor belongs to a block of the program
\* or is padding above one, less than its alignment.  So a pool bought for as
\* many nodes as a List needs (required_storage) has room for them.
NothingWasted ==
  mutex = NoThread /\ fate = "running" =>
    \A a \in cursor .. (MappingEnd(storage) - 1) :
      \E b \in blocks \cup {pending[t] : t \in Pending}, r \in Requests :
        /\ r.bytes = b.bytes
        /\ b.begin <= a /\ a - BlockEnd(b) < r.alignment - 1
=============================================================================

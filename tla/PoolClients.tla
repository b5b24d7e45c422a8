----------------------------- MODULE PoolClients -----------------------------
(***************************************************************************)
(* What the pools have in common: a DownwardPoolStorage, the threads that  *)
(* get blocks from it and use them, and the operations around allocate.    *)
(* NonblockingDownwardPool and MutexDownwardPool add their allocate.       *)
(*                                                                         *)
(* allocate never checks the space that is left: a thread finds out that   *)
(* there was none by touching the guard, which ends the process.  So the   *)
(* use of a block is a step of its own, and any number of allocations by   *)
(* other threads may come before it.                                       *)
(***************************************************************************)
EXTENDS PoolLayout, FiniteSets

CONSTANTS
  Threads,
  Requests,       \* the [bytes, alignment] the program asks for
  MaxTake,        \* the most that one of them takes off the cursor
  UsableSizes,    \* constructor arguments usable_bytes
  MaxAllocSizes,  \* and max_alloc_size
  Mappings,       \* addresses mmap may return
  NoBlock

Address == 0..(Word - 1)
Block == [begin : Address, bytes : Nat]

\* An alignment is a power of two, as are MaxAlign and PageSize; mappings are
\* pages, and far from address 0; round_up does not wrap on max_alloc_size.
ASSUME ClientAssumption ==
  /\ IsFiniteSet(Threads)
  /\ NoBlock \notin Block
  /\ MaxTake \in Nat
  /\ UsableSizes \subseteq Address
  /\ \A m \in MaxAllocSizes : m \in Nat /\ m + PageSize - 1 < Word
  /\ \A r \in Requests :
       /\ r.bytes \in Nat /\ r.alignment \in Nat \ {0}
       /\ MaxAlign % r.alignment = 0 \/ r.alignment % MaxAlign = 0
  /\ \A m \in Mappings : /\ m \in Nat /\ m % PageSize = 0
                         /\ (Cardinality(Threads) + 1) * MaxTake < m

VARIABLES
  storage,   \* storage_
  cursor,    \* cursor_
  maxAlloc,  \* the max_alloc_size the pool was constructed with
  pending,   \* the block each thread got from allocate and has not used yet
  blocks,    \* the blocks in use
  fate       \* "running"; "crashed" when the guard was touched; "lost" when
             \* memory below the mapping was, after which anything may happen

poolVars == <<storage, cursor, maxAlloc, pending, blocks, fate>>

UsableBegin == storage.begin + GuardBytes(maxAlloc)

InitPool ==
  /\ storage = NoStorage
  /\ cursor = 0
  /\ maxAlloc = 0
  /\ pending = [t \in Threads |-> NoBlock]
  /\ blocks = {}
  /\ fate = "running"

IsOpen == storage # NoStorage /\ fate = "running"

\* What the program owes to the pool: it is reset and released while no
\* thread is about to use a block, and constructed before it is used.
Quiescent == \A t \in Threads : pending[t] = NoBlock

Construct(usable, maxAllocSize, begin) ==
  LET bytes == MappingBytes(usable, maxAllocSize)
  IN  /\ storage = NoStorage /\ fate = "running"
      /\ MappingFits(usable, maxAllocSize)
      /\ bytes > 0 /\ begin + bytes < Word
      /\ storage' = [begin |-> begin, bytes |-> bytes]
      /\ cursor' = MappingEnd(storage')
      /\ maxAlloc' = maxAllocSize
      /\ UNCHANGED <<pending, blocks, fate>>

\* Thread t uses every byte of its block.
Use(t) ==
  /\ IsOpen /\ pending[t] # NoBlock
  /\ ~Touches(pending[t], 0, UsableBegin)
  /\ blocks' = IF pending[t].bytes = 0 THEN blocks ELSE blocks \cup {pending[t]}
  /\ pending' = [pending EXCEPT ![t] = NoBlock]
  /\ UNCHANGED <<storage, cursor, maxAlloc, fate>>

UseOverflow(t) ==
  /\ IsOpen /\ pending[t] # NoBlock
  /\ Touches(pending[t], 0, UsableBegin)
  /\ fate' = IF pending[t].begin < storage.begin THEN "lost" ELSE "crashed"
  /\ UNCHANGED <<storage, cursor, maxAlloc, pending, blocks>>

Reset ==
  /\ IsOpen /\ Quiescent
  /\ cursor' = MappingEnd(storage)
  /\ blocks' = {}
  /\ UNCHANGED <<storage, maxAlloc, pending, fate>>

\* Mistake: the cursor keeps pointing into the old mapping.
ReleaseKeepingCursor ==
  /\ IsOpen /\ Quiescent
  /\ storage' = NoStorage
  /\ maxAlloc' = 0
  /\ blocks' = {}
  /\ UNCHANGED <<cursor, pending, fate>>

Release ==
  /\ IsOpen /\ Quiescent
  /\ storage' = NoStorage
  /\ cursor' = 0
  /\ maxAlloc' = 0
  /\ blocks' = {}
  /\ UNCHANGED <<pending, fate>>

-----------------------------------------------------------------------------
(* Properties.                                                             *)

\* A pool without storage has a null cursor.
PoolTypeOK ==
  /\ storage \in [begin : Address, bytes : Address]
  /\ storage = NoStorage => cursor = 0
  /\ cursor \in Address
  /\ maxAlloc \in Address
  /\ pending \in [Threads -> Block \cup {NoBlock}]
  /\ blocks \subseteq Block
  /\ fate \in {"running", "crashed", "lost"}

Pending == {t \in Threads : pending[t] # NoBlock}

\* No byte is handed out twice: the blocks in use and the blocks threads have
\* just been given are pairwise disjoint, whatever the alignments asked for
\* and however allocations of several threads interleave.
BlocksDisjoint ==
  /\ \A a, b \in blocks : a # b => Disjoint(a, b)
  /\ \A t \in Pending : \A b \in blocks : Disjoint(pending[t], b)
  /\ \A t, u \in Pending : t # u => Disjoint(pending[t], pending[u])

\* The guard is sized for every thread overflowing at once, each with the
\* largest request; alignments stricter than MaxAlign cost one more, because
\* padding lowers the cursor below what the block touches.
Slack == IF \A r \in Requests : r.alignment <= MaxAlign THEN 0 ELSE 1

GuardSuffices ==
  /\ (Cardinality(Threads) + Slack) * MaxTake <= maxAlloc
  /\ \A r \in Requests : r.bytes = 0 => r.alignment = 1

\* An overflow is always caught: with such a guard every block handed out
\* lies in the mapping, so one that is not wholly usable touches the guard.
OverflowHitsGuard ==
  GuardSuffices => \A t \in Pending :
    pending[t].bytes > 0 => storage.begin <= pending[t].begin

\* used_bytes() never reports less than the program holds: everything handed
\* out lies between the cursor and the end of the mapping.
UsedBytesCoverBlocks ==
  \A b \in blocks \cup {pending[t] : t \in Pending} :
    b.bytes > 0 => MappingEnd(storage) - b.begin <= UsedBytes(cursor, storage)

\* README.md: usable_bytes() is the size of the usable area, rounded up to a
\* page.
UsableBytesExact ==
  storage # NoStorage => UsableBytes(storage) = MappingEnd(storage) - UsableBegin

\* The pool is an arena: see Arena.
Promise ==
  INSTANCE Arena
    WITH status  <- IF fate # "running" THEN fate
                    ELSE IF storage = NoStorage THEN "closed" ELSE "open",
         area    <- [from |-> UsableBegin, to |-> MappingEnd(storage)],
         guarded <- GuardSuffices,
         held    <- blocks

ImplementsArena == Promise!Spec
=============================================================================

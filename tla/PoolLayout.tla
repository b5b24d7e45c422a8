----------------------------- MODULE PoolLayout -----------------------------
(***************************************************************************)
(* The arithmetic the pools share (detail/downward_pool_storage.hpp and    *)
(* .cpp, NonblockingDownwardPool::allocate).  A pool is one mapping; its   *)
(* lowest bytes are the guard, and the cursor starts at its end and moves  *)
(* down.  std::size_t and std::uintptr_t are numbers below Word.           *)
(***************************************************************************)
EXTENDS Integers

CONSTANTS
  Word,      \* 2^w, the number of values of std::size_t
  PageSize,  \* sysconf(_SC_PAGESIZE)
  MaxAlign   \* alignof(std::max_align_t)

ASSUME LayoutAssumption ==
  /\ Word \in Nat \ {0} /\ PageSize \in Nat \ {0} /\ MaxAlign \in Nat \ {0}
  /\ Word % PageSize = 0 /\ PageSize % MaxAlign = 0

\* "x & ~(a - 1)" where a is a power of two.
AlignDown(x, a) == x - (x % a)

RoundUp(value, multiple) == AlignDown((value + multiple - 1) % Word, multiple)

\* Mistake (as every other operator whose comment starts so, a plausible slip
\* in the definition after it): the guard is one page.
GuardBytesOnePage(maxAllocSize) == PageSize

GuardBytes(maxAllocSize) == RoundUp(maxAllocSize, PageSize)

MappingBytes(usableBytes, maxAllocSize) ==
  RoundUp(usableBytes, PageSize) + GuardBytes(maxAllocSize)

\* Otherwise the constructor throws std::length_error.
MappingFits(usableBytes, maxAllocSize) ==
  RoundUp(usableBytes, PageSize) <= (Word - 1) - GuardBytes(maxAllocSize)

\* A DownwardPoolStorage; a null one after release and in a moved-from pool.
NoStorage == [begin |-> 0, bytes |-> 0]

MappingEnd(storage) ==
  IF storage.begin = 0 THEN 0 ELSE storage.begin + storage.bytes

\* The storage does not keep the size of its guard: one page is assumed.
UsableBytes(storage) ==
  IF storage.bytes <= PageSize THEN 0 ELSE storage.bytes - PageSize

UsedBytes(cursor, storage) ==
  IF cursor = 0 \/ storage.begin = 0 \/ cursor >= MappingEnd(storage)
  THEN 0
  ELSE MappingEnd(storage) - cursor

\* Mistake: the alignment is forgotten.
AlignDownwardPoolCursorNot(current, bytes, alignment) == (current - bytes) % Word

\* Mistake: every block is aligned as strictly as any type needs.
AlignDownwardPoolCursorMax(current, bytes, alignment) ==
  AlignDown((current - bytes) % Word, MaxAlign)

AlignDownwardPoolCursor(current, bytes, alignment) ==
  AlignDown((current - bytes) % Word, alignment)

\* Mistake: a strict alignment is not paid for.
PaddingNone(alignment) == 0

Padding(alignment) == IF alignment > MaxAlign THEN alignment - 1 ELSE 0

\* Mistake: rounded down.
ReservationDown(bytes, alignment) ==
  AlignDown((bytes + Padding(alignment)) % Word, MaxAlign)

\* What the nonblocking pool takes off its cursor for a request: the cursor
\* stays a multiple of MaxAlign, and a stricter alignment is paid in advance.
Reservation(bytes, alignment) ==
  AlignDown((bytes + Padding(alignment) + MaxAlign - 1) % Word, MaxAlign)

-----------------------------------------------------------------------------
(* Blocks: what allocate returns, with the size that was asked for.        *)

BlockEnd(b) == b.begin + b.bytes

Disjoint(a, b) == BlockEnd(a) <= b.begin \/ BlockEnd(b) <= a.begin

\* Does using b touch an address of from..to-1?
Touches(b, from, to) == b.bytes > 0 /\ b.begin < to /\ from < BlockEnd(b)
=============================================================================

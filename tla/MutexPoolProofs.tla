--------------------------- MODULE MutexPoolProofs ---------------------------
(***************************************************************************)
(* MutexDownwardPool for any number of threads, any requests and any       *)
(* sizes: the mapping is there for whoever is in the pool's code or has a  *)
(* block to use, every byte taken off the cursor is accounted for, no byte *)
(* is handed out twice, and the pool implements Arena.                     *)
(***************************************************************************)
EXTENDS MutexDownwardPool, FiniteSetTheorems, TLAPS

-----------------------------------------------------------------------------
(* Facts about div and mod.                                                *)

\* A remainder is in the range of remainders.
LEMMA ModRange ==
  ASSUME NEW x \in Int, NEW a \in Nat \ {0}
  PROVE  x % a \in 0..(a - 1)
  BY SMT

\* Division with remainder.
LEMMA DivMod ==
  ASSUME NEW x \in Int, NEW a \in Nat \ {0}
  PROVE  x \div a \in Int /\ x = (a * (x \div a)) + (x % a)
  BY SMT

\* The remainder is determined by the division equation.
LEMMA ModUnique ==
  ASSUME NEW q \in Int, NEW a \in Nat \ {0}, NEW r \in Int, 0 <= r, r < a
  PROVE  (a * q + r) % a = r
  BY SMT

\* A number below the modulus is its own remainder: no wraparound.
LEMMA ModSmall ==
  ASSUME NEW x \in Nat, NEW a \in Nat \ {0}, x < a
  PROVE  x % a = x
  BY SMT

\* A multiple leaves no remainder.
LEMMA MultipleIsZero ==
  ASSUME NEW q \in Int, NEW a \in Nat \ {0}
  PROVE  (a * q) % a = 0
  BY ModUnique, a * q + 0 = a * q

-----------------------------------------------------------------------------
(* Rounding.                                                               *)

\* Clearing the low bits gives a multiple, at most a - 1 below.
LEMMA AlignDownFacts ==
  ASSUME NEW x \in Nat, NEW a \in Nat \ {0}
  PROVE  /\ AlignDown(x, a) \in Nat
         /\ AlignDown(x, a) <= x
         /\ x < AlignDown(x, a) + a
         /\ AlignDown(x, a) % a = 0
<1>1. /\ x % a \in 0..(a - 1) /\ x \div a \in Int /\ x = (a * (x \div a)) + (x % a)
  BY ModRange, DivMod
<1>2. x % a <= x
  BY SMT
<1>3. AlignDown(x, a) = a * (x \div a)
  BY <1>1 DEF AlignDown
<1> QED
  BY <1>1, <1>2, <1>3, MultipleIsZero DEF AlignDown

\* round_up without wraparound.
LEMMA RoundUpFacts ==
  ASSUME Word \in Nat \ {0}, NEW v \in Nat, NEW m \in Nat \ {0}, v + m - 1 < Word
  PROVE  /\ RoundUp(v, m) \in Nat
         /\ v <= RoundUp(v, m)
         /\ RoundUp(v, m) % m = 0
         /\ RoundUp(v, m) = AlignDown(v + m - 1, m)
<1>1. v + m - 1 \in Nat /\ (v + m - 1) % Word = v + m - 1
  BY ModSmall
<1> QED
  BY <1>1, AlignDownFacts DEF RoundUp

\* round_up of any value is a multiple and a size_t.
LEMMA RoundUpRange ==
  ASSUME Word \in Nat \ {0}, NEW v \in Int, NEW m \in Nat \ {0}
  PROVE  RoundUp(v, m) \in 0..(Word - 1) /\ RoundUp(v, m) % m = 0
<1>1. (v + m - 1) % Word \in 0..(Word - 1)
  BY ModRange
<1> QED
  BY <1>1, AlignDownFacts DEF RoundUp

-----------------------------------------------------------------------------
(* The invariant.                                                         *)

\* Who is in the pool's code holds the mutex, and no block.
Exclusive ==
  \A t \in Threads : pc[t] # "idle" => mutex = t /\ pending[t] = NoBlock

\* A pool that exists ends in the address space, above what one request takes.
RequestsFit ==
  storage # NoStorage => MaxTake < Word /\ MappingEnd(storage) \in Address

Inv == TypeOK /\ Exclusive /\ MappedWhileInUse /\ RequestsFit

-----------------------------------------------------------------------------
(* One allocation.                                                         *)

\* Whatever the size, the new cursor is an address.
LEMMA CursorInAddress ==
  ASSUME NEW r \in Requests, NEW c \in Address
  PROVE  AlignDownwardPoolCursor(c, r.bytes, r.alignment) \in Address
<1>1. /\ Word \in Nat \ {0} /\ r.bytes \in Nat /\ r.alignment \in Nat \ {0}
  BY LayoutAssumption, ClientAssumption
<1> DEFINE raw == (c - r.bytes) % Word
<1>2. raw \in 0..(Word - 1)
  <2>1. c - r.bytes \in Int
    BY <1>1 DEF Address
  <2> QED
    BY <1>1, <2>1, ModRange
<1>3. AlignDownwardPoolCursor(c, r.bytes, r.alignment) = AlignDown(raw, r.alignment)
  BY DEF AlignDownwardPoolCursor
<1> HIDE DEF raw
<1> DEFINE a == r.alignment
           down == AlignDown(raw, a)
<1>4. down \in Nat /\ down <= raw
  <2>1. raw \in Nat /\ a \in Nat \ {0}
    BY <1>1, <1>2
  <2> HIDE DEF a
  <2> QED
    BY <2>1, AlignDownFacts
<1> HIDE DEF down
<1> QED
  BY <1>1, <1>2, <1>3, <1>4 DEF Address, down

\* Unless it wraps, the cursor goes down by the bytes and less than the
\* alignment; if it wraps, it goes up.
LEMMA CursorDistance ==
  ASSUME NEW r \in Requests, NEW c \in Address, MaxTake < Word,
         NEW new, new = AlignDownwardPoolCursor(c, r.bytes, r.alignment)
  PROVE  \/ c <= new
         \/ \A a \in new .. (c - 1) : a - (new + r.bytes) < r.alignment - 1
<1>1. /\ Word \in Nat \ {0} /\ r.bytes \in Nat /\ r.alignment \in Nat \ {0}
      /\ MaxTake \in Nat /\ r.bytes + r.alignment - 1 <= MaxTake
      /\ c \in Nat /\ c < Word
  BY LayoutAssumption, ClientAssumption, TakeAssumption DEF Address
<1> DEFINE raw == (c - r.bytes) % Word
<1>2. raw \in Nat /\ raw = IF r.bytes <= c THEN c - r.bytes ELSE c - r.bytes + Word
  <2>1. CASE r.bytes <= c
    <3>1. c - r.bytes \in Nat /\ c - r.bytes < Word
      BY <1>1, <2>1
    <3>2. raw = c - r.bytes
      BY <1>1, <3>1, ModSmall
    <3> QED
      BY <2>1, <3>1, <3>2
  <2>2. CASE ~(r.bytes <= c)
    <3> DEFINE up == c - r.bytes + Word
    <3>1. up \in Nat /\ up < Word /\ Word * (-1) + up = c - r.bytes
      BY <1>1, <2>2
    <3> HIDE DEF up
    <3>2. (Word * (-1) + up) % Word = up
      BY <1>1, <3>1, ModUnique
    <3>3. raw = up
      BY <3>1, <3>2
    <3> QED
      BY <2>2, <3>1, <3>3 DEF up
  <2> QED
    BY <2>1, <2>2
<1>3. new = AlignDown(raw, r.alignment)
  BY DEF AlignDownwardPoolCursor
<1> HIDE DEF raw
<1> DEFINE al == r.alignment
<1>4. new \in Nat /\ new <= raw /\ raw < new + al
  <2>1. al \in Nat \ {0} /\ new = AlignDown(raw, al)
    BY <1>1, <1>3
  <2> HIDE DEF al
  <2> QED
    BY <1>2, <2>1, AlignDownFacts
<1>5. al = r.alignment
  OBVIOUS
<1> HIDE DEF al
<1>6. CASE r.bytes <= c
  BY <1>1, <1>2, <1>4, <1>5, <1>6
<1>7. CASE ~(r.bytes <= c)
  BY <1>1, <1>2, <1>4, <1>5, <1>7
<1> QED
  BY <1>6, <1>7

-----------------------------------------------------------------------------
(* The invariant.                                                          *)

LEMMA InitInv == Init => Inv
<1> SUFFICES ASSUME Init PROVE Inv
  OBVIOUS
<1>1. Word \in Nat \ {0}
  BY LayoutAssumption
<1>2. TypeOK
  BY <1>1 DEF Init, InitPool, TypeOK, PoolTypeOK, NoStorage, Address
<1> QED
  BY <1>2 DEF Init, InitPool, Inv, Exclusive, MappedWhileInUse, RequestsFit

\* A mapping that fits below the top of the address space.
LEMMA ConstructInv ==
  ASSUME Inv,
         NEW usable \in UsableSizes, NEW m \in MaxAllocSizes, NEW begin \in Mappings,
         Construct(usable, m, begin), UNCHANGED lockVars
  PROVE  Inv'
<1> DEFINE bytes == MappingBytes(usable, m)
<1>1. /\ storage = NoStorage /\ bytes > 0 /\ begin + bytes < Word
      /\ storage' = [begin |-> begin, bytes |-> bytes]
      /\ cursor' = MappingEnd(storage') /\ maxAlloc' = m
      /\ UNCHANGED <<pending, blocks, fate, mutex, pc, current, asked>>
  BY DEF Construct, lockVars
<1>2. /\ Word \in Nat \ {0} /\ PageSize \in Nat \ {0} /\ begin \in Nat
      /\ usable \in Int /\ m \in Nat /\ m \in Address
  <2>1. Word \in Nat \ {0} /\ PageSize \in Nat \ {0} /\ begin \in Nat
        /\ usable \in Address /\ m \in Nat /\ m + PageSize - 1 < Word
    BY LayoutAssumption, ClientAssumption
  <2> QED
    BY <2>1 DEF Address
<1>3. bytes \in Nat
  <2> DEFINE room == RoundUp(usable, PageSize)
             guard == RoundUp(m, PageSize)
  <2>1. room \in 0..(Word - 1) /\ guard \in 0..(Word - 1)
    BY <1>2, RoundUpRange
  <2>2. bytes = room + guard
    BY DEF MappingBytes, GuardBytes
  <2> HIDE DEF room, guard, bytes
  <2> QED
    BY <1>2, <2>1, <2>2
<1> HIDE DEF bytes
<1>4. MappingEnd(storage') \in Address
  BY <1>1, <1>2, <1>3 DEF MappingEnd, Address
<1>5. storage' \in [begin : Address, bytes : Address] /\ storage' # NoStorage
  BY <1>1, <1>2, <1>3 DEF Address, NoStorage
<1>6. TypeOK'
  BY <1>1, <1>2, <1>4, <1>5 DEF Inv, TypeOK, PoolTypeOK
<1>7. MaxTake < Word
  <2>1. /\ MaxTake \in Nat /\ IsFiniteSet(Threads)
        /\ (Cardinality(Threads) + 1) * MaxTake < begin
    BY ClientAssumption
  <2> DEFINE n == Cardinality(Threads)
  <2>2. n \in Nat
    BY <2>1, FS_CardinalityType
  <2> HIDE DEF n
  <2>3. (n + 1) * MaxTake = n * MaxTake + MaxTake /\ n * MaxTake \in Nat
    BY <2>1, <2>2
  <2>4. n * MaxTake + MaxTake < begin
    BY <2>1, <2>3 DEF n
  <2> QED
    BY <1>1, <1>2, <1>3, <2>1, <2>3, <2>4
<1> QED
  BY <1>1, <1>4, <1>5, <1>6, <1>7 DEF Inv, Exclusive, MappedWhileInUse, RequestsFit

\* A thread that uses its block gives up nothing but that block.
LEMMA UseInv ==
  ASSUME Inv, NEW t \in Threads, Use(t) \/ UseOverflow(t), UNCHANGED lockVars
  PROVE  Inv'
<1>1. /\ pending' \in {pending, [pending EXCEPT ![t] = NoBlock]}
      /\ blocks' \in {blocks, blocks \cup {pending[t]}}
      /\ fate' \in {fate, "lost", "crashed"}
      /\ pending[t] # NoBlock
      /\ UNCHANGED <<storage, cursor, maxAlloc, mutex, pc, current, asked>>
  BY DEF Use, UseOverflow, lockVars
<1>2. TypeOK'
  BY <1>1 DEF Inv, TypeOK, PoolTypeOK
<1> QED
  BY <1>1, <1>2 DEF Inv, TypeOK, PoolTypeOK, Exclusive, MappedWhileInUse, RequestsFit

\* To lock the mutex of a pool that exists.
LEMMA LockInv ==
  ASSUME Inv, NEW t \in Threads, NEW operation \in {"allocate", "reset", "release"},
         Lock(t, operation), UNCHANGED <<poolVars, current, asked>>
  PROVE  Inv'
<1>1. /\ storage # NoStorage /\ mutex = NoThread /\ mutex' = t /\ pending[t] = NoBlock
      /\ pc' = [pc EXCEPT ![t] = operation]
      /\ UNCHANGED <<storage, cursor, maxAlloc, pending, blocks, fate, current, asked>>
  BY DEF Lock, Go, IsOpen, poolVars
<1>2. TypeOK'
  BY <1>1 DEF Inv, TypeOK, PoolTypeOK
<1>3. \A u \in Threads : pc[u] = "idle"
  BY <1>1, TakeAssumption DEF Inv, Exclusive
<1> QED
  BY <1>1, <1>2, <1>3 DEF Inv, TypeOK, Exclusive, MappedWhileInUse, RequestsFit

\* The steps of allocate under the mutex.
LEMMA ReadCursorInv ==
  ASSUME Inv, NEW t \in Threads, ReadCursor(t)
  PROVE  Inv'
<1>1. /\ pc[t] = "allocate" /\ pc' = [pc EXCEPT ![t] = "align"]
      /\ current' = [current EXCEPT ![t] = cursor]
      /\ UNCHANGED <<storage, cursor, maxAlloc, pending, blocks, fate, mutex, asked>>
  BY DEF ReadCursor, Go, poolVars
<1>2. TypeOK'
  BY <1>1 DEF Inv, TypeOK, PoolTypeOK
<1> QED
  BY <1>1, <1>2 DEF Inv, TypeOK, Exclusive, MappedWhileInUse, RequestsFit

LEMMA WriteCursorInv ==
  ASSUME Inv, NEW t \in Threads, NEW r \in Requests, WriteCursor(t, r)
  PROVE  Inv'
<1>1. /\ pc[t] = "align" /\ pc' = [pc EXCEPT ![t] = "return"]
      /\ cursor' = AlignDownwardPoolCursor(current[t], r.bytes, r.alignment)
      /\ asked' = [asked EXCEPT ![t] = r.bytes]
      /\ UNCHANGED <<storage, maxAlloc, pending, blocks, fate, mutex, current>>
  BY DEF WriteCursor, Go
<1>2. cursor' \in Address /\ r.bytes \in Nat
  BY <1>1, CursorInAddress, ClientAssumption DEF Inv, TypeOK
<1>3. storage # NoStorage
  BY <1>1 DEF Inv, MappedWhileInUse
<1>4. TypeOK'
  BY <1>1, <1>2, <1>3 DEF Inv, TypeOK, PoolTypeOK
<1> QED
  BY <1>1, <1>4 DEF Inv, TypeOK, Exclusive, MappedWhileInUse, RequestsFit

LEMMA ReturnCursorInv ==
  ASSUME Inv, NEW t \in Threads, ReturnCursor(t)
  PROVE  Inv'
<1>1. /\ pc[t] = "return" /\ pc' = [pc EXCEPT ![t] = "idle"] /\ mutex' = NoThread
      /\ pending' = [pending EXCEPT ![t] = [begin |-> cursor, bytes |-> asked[t]]]
      /\ current' = [current EXCEPT ![t] = 0]
      /\ asked' = [asked EXCEPT ![t] = 0]
      /\ UNCHANGED <<storage, cursor, maxAlloc, blocks, fate>>
  BY DEF ReturnCursor, Go, Unlock
<1>2. /\ mutex = t /\ storage # NoStorage
      /\ \A u \in Threads \ {t} : pc[u] = "idle"
  BY <1>1 DEF Inv, Exclusive, MappedWhileInUse
<1>3. TypeOK'
  <2>1. [begin |-> cursor, bytes |-> asked[t]] \in Block /\ 0 \in Address
    BY LayoutAssumption DEF Inv, TypeOK, PoolTypeOK, Block, Address
  <2> QED
    BY <1>1, <2>1 DEF Inv, TypeOK, PoolTypeOK
<1> QED
  BY <1>1, <1>2, <1>3 DEF Inv, TypeOK, Exclusive, MappedWhileInUse, RequestsFit

\* reset and release run alone, and with nothing pending.
LEMMA LockedResetInv ==
  ASSUME Inv, NEW t \in Threads, LockedReset(t)
  PROVE  Inv'
<1>1. /\ pc[t] = "reset" /\ pc' = [pc EXCEPT ![t] = "idle"] /\ mutex' = NoThread
      /\ cursor' = MappingEnd(storage) /\ blocks' = {}
      /\ storage # NoStorage
      /\ UNCHANGED <<storage, maxAlloc, pending, fate, current, asked>>
  BY DEF LockedReset, Go, Unlock, Reset, IsOpen
<1>2. \A u \in Threads \ {t} : pc[u] = "idle"
  BY <1>1 DEF Inv, Exclusive
<1>3. MappingEnd(storage) \in Address
  BY <1>1 DEF Inv, RequestsFit
<1>4. TypeOK'
  BY <1>1, <1>3 DEF Inv, TypeOK, PoolTypeOK
<1> QED
  BY <1>1, <1>2, <1>4 DEF Inv, TypeOK, Exclusive, MappedWhileInUse, RequestsFit

LEMMA LockedReleaseInv ==
  ASSUME Inv, NEW t \in Threads, LockedRelease(t)
  PROVE  Inv'
<1>1. /\ pc[t] = "release" /\ pc' = [pc EXCEPT ![t] = "idle"] /\ mutex' = NoThread
      /\ storage' = NoStorage /\ cursor' = 0 /\ maxAlloc' = 0 /\ blocks' = {}
      /\ Quiescent
      /\ UNCHANGED <<pending, fate, current, asked>>
  BY DEF LockedRelease, Go, Unlock, Release
<1>2. /\ \A u \in Threads \ {t} : pc[u] = "idle"
      /\ \A u \in Threads : pending[u] = NoBlock
  BY <1>1 DEF Inv, Exclusive, Quiescent
<1>3. TypeOK'
  BY <1>1, LayoutAssumption DEF Inv, TypeOK, PoolTypeOK, NoStorage, Address
<1> QED
  BY <1>1, <1>2, <1>3 DEF Inv, TypeOK, Exclusive, MappedWhileInUse, RequestsFit

LEMMA NextInv == Inv /\ [Next]_vars => Inv'
<1> SUFFICES ASSUME Inv, [Next]_vars PROVE Inv'
  OBVIOUS
<1>1. ASSUME NEW t \in Threads, PoolStep(t)
      PROVE  Inv'
  <2>1. CASE BeginAllocate(t)
    BY <2>1, LockInv DEF BeginAllocate
  <2>2. CASE BeginReset(t)
    BY <2>2, LockInv DEF BeginReset
  <2>3. CASE BeginRelease(t)
    BY <2>3, LockInv DEF BeginRelease
  <2> QED
    BY <1>1, <2>1, <2>2, <2>3, ReadCursorInv, WriteCursorInv, ReturnCursorInv,
       LockedResetInv, LockedReleaseInv DEF PoolStep
<1>2. ASSUME ClientStep, UNCHANGED lockVars
      PROVE  Inv'
  BY <1>2, ConstructInv, UseInv DEF ClientStep
<1>3. ASSUME UNCHANGED vars
      PROVE  Inv'
  <2>1. UNCHANGED <<storage, cursor, maxAlloc, pending, blocks, fate,
                    mutex, pc, current, asked>>
    BY <1>3 DEF vars, poolVars, lockVars
  <2> QED
    BY <2>1 DEF Inv, TypeOK, PoolTypeOK, Exclusive, MappedWhileInUse, RequestsFit
<1> QED
  BY <1>1, <1>2, <1>3 DEF Next, Ended

THEOREM Invariance == Spec => []Inv
  BY InitInv, NextInv, PTL DEF Spec

\* No step leaves the address space, also when the cursor wraps.
THEOREM TypeCorrect == Spec => []TypeOK
<1>1. Inv => TypeOK
  BY DEF Inv
<1> QED
  BY <1>1, Invariance, PTL

\* Nobody in allocate, and nobody with a block to use, loses the mapping.
THEOREM NoReleaseInBetween == Spec => []MappedWhileInUse
<1>1. Inv => MappedWhileInUse
  BY DEF Inv
<1> QED
  BY <1>1, Invariance, PTL

-----------------------------------------------------------------------------
(* Nothing is wasted.                                                      *)

\* An empty block takes nothing if it asks for no alignment.
EmptyUnaligned == \A r \in Requests : r.bytes = 0 => r.alignment = 1

\* The block that is about to be returned.
Returning == {[begin |-> cursor, bytes |-> asked[t]] : t \in {u \in Threads : pc[u] = "return"}}

Given == blocks \cup {pending[t] : t \in Pending} \cup Returning

\* Byte a is of block b, or padding above it.
CoveredBy(a, b) ==
  \E r \in Requests :
    r.bytes = b.bytes /\ b.begin <= a /\ a - BlockEnd(b) < r.alignment - 1

Accounted ==
  /\ \A t \in Threads : pc[t] = "align" => current[t] = cursor
  /\ \A a \in cursor .. (MappingEnd(storage) - 1) : \E b \in Given : CoveredBy(a, b)

\* An empty block that asks for no alignment covers nothing.
LEMMA EmptyCoversNothing ==
  ASSUME EmptyUnaligned, NEW a \in Int, NEW b \in Block, b.bytes = 0
  PROVE  ~CoveredBy(a, b)
<1>1. SUFFICES ASSUME NEW r \in Requests,
                      r.bytes = b.bytes, b.begin <= a, a - BlockEnd(b) < r.alignment - 1
               PROVE  FALSE
  BY DEF CoveredBy
<1>2. r.alignment = 1 /\ b.begin \in Int /\ BlockEnd(b) = b.begin
  BY <1>1 DEF EmptyUnaligned, Block, Address, BlockEnd
<1> QED
  BY <1>1, <1>2

\* Where cursor, mapping and steps under the mutex stay, so does the account,
\* if no block is given up.
LEMMA AccountKept ==
  ASSUME Accounted, UNCHANGED <<storage, cursor, current>>,
         \A t \in Threads : pc'[t] = "align" => pc[t] = "align",
         \A a \in Int, b \in Given : CoveredBy(a, b) => b \in Given'
  PROVE  Accounted'
<1>1. MappingEnd(storage)' = MappingEnd(storage)
  BY DEF MappingEnd
<1>2. \A a \in cursor .. (MappingEnd(storage) - 1) : \E b \in Given' : CoveredBy(a, b)
  BY DEF Accounted
<1> QED
  BY <1>1, <1>2 DEF Accounted, CoveredBy

LEMMA UseAccounted ==
  ASSUME EmptyUnaligned, Inv, Accounted, NEW t \in Threads,
         Use(t) \/ UseOverflow(t), UNCHANGED lockVars
  PROVE  Accounted'
<1>1. UNCHANGED <<storage, cursor, current, pc, asked>>
  BY DEF Use, UseOverflow, lockVars
<1>2. Returning' = Returning
  BY <1>1 DEF Returning
<1>3. CASE UseOverflow(t)
  <2>1. Given' = Given
    BY <1>2, <1>3 DEF UseOverflow, Given, Pending
  <2> QED
    BY <1>1, <2>1, AccountKept
<1>4. CASE Use(t)
  <2>1. /\ pending[t] # NoBlock /\ pending' = [pending EXCEPT ![t] = NoBlock]
        /\ blocks' = IF pending[t].bytes = 0 THEN blocks ELSE blocks \cup {pending[t]}
        /\ pending \in [Threads -> Block \cup {NoBlock}]
    BY <1>4 DEF Use, Inv, TypeOK, PoolTypeOK
  <2>2. pending[t] \in Block
    BY <2>1
  <2>3. \A b \in Given : b \in Given' \/ (b = pending[t] /\ b.bytes = 0)
    BY <1>2, <2>1 DEF Given, Pending
  <2>4. \A a \in Int, b \in Given : CoveredBy(a, b) => b \in Given'
    BY <2>2, <2>3, EmptyCoversNothing
  <2> QED
    BY <1>1, <2>4, AccountKept
<1> QED
  BY <1>3, <1>4

\* The new cursor: what was covered is, and the new bytes are covered by the
\* block to be returned.
LEMMA WriteAccounted ==
  ASSUME Inv, Accounted, NEW t \in Threads, NEW r \in Requests, WriteCursor(t, r)
  PROVE  Accounted'
<1>1. /\ pc[t] = "align" /\ pc' = [pc EXCEPT ![t] = "return"]
      /\ cursor' = AlignDownwardPoolCursor(current[t], r.bytes, r.alignment)
      /\ asked' = [asked EXCEPT ![t] = r.bytes]
      /\ UNCHANGED <<storage, maxAlloc, pending, blocks, fate, mutex, current>>
  BY DEF WriteCursor, Go
<1>2. /\ mutex = t /\ current[t] = cursor /\ cursor \in Address
      /\ MaxTake < Word
      /\ \A u \in Threads \ {t} : pc[u] = "idle"
      /\ pc \in [Threads -> {"idle", "allocate", "align", "return", "reset", "release"}]
      /\ asked \in [Threads -> Nat]
  BY <1>1 DEF Inv, TypeOK, PoolTypeOK, Exclusive, Accounted, MappedWhileInUse, RequestsFit
<1> DEFINE new == [begin |-> cursor', bytes |-> r.bytes]
<1>3. Given \subseteq Given' /\ new \in Given'
  <2>1. Returning = {}
    BY <1>1, <1>2 DEF Returning
  <2>2. asked'[t] = r.bytes /\ pc'[t] = "return"
    BY <1>1, <1>2
  <2>3. new \in Returning'
    BY <2>2 DEF Returning
  <2> QED
    BY <1>1, <2>1, <2>3 DEF Given, Pending
<1>4. /\ cursor' \in Address
      /\ \/ cursor <= cursor'
         \/ \A a \in cursor' .. (cursor - 1) : a - (cursor' + r.bytes) < r.alignment - 1
  BY <1>1, <1>2, CursorInAddress, CursorDistance
<1>5. ASSUME NEW a \in cursor' .. (MappingEnd(storage) - 1)
      PROVE  \E b \in Given' : CoveredBy(a, b)
  <2>0. a \in Int /\ cursor' <= a /\ a <= MappingEnd(storage) - 1 /\ cursor \in Int
    BY <1>2, <1>4, <1>5 DEF Inv, RequestsFit, MappedWhileInUse, Address
  <2>1. CASE cursor <= a
    <3>1. a \in cursor .. (MappingEnd(storage) - 1)
      BY <2>0, <2>1
    <3> QED
      BY <1>3, <3>1 DEF Accounted
  <2>2. CASE ~(cursor <= a)
    <3>1. a \in cursor' .. (cursor - 1) /\ ~(cursor <= cursor')
      BY <1>2, <1>4, <2>0, <2>2 DEF Address
    <3>2. a - (cursor' + r.bytes) < r.alignment - 1
      BY <1>4, <3>1
    <3>3. CoveredBy(a, new)
      BY <2>0, <3>2 DEF CoveredBy, BlockEnd
    <3> QED
      BY <1>3, <3>3
  <2> QED
    BY <2>1, <2>2
<1>6. MappingEnd(storage)' = MappingEnd(storage)
  BY <1>1 DEF MappingEnd
<1>7. \A u \in Threads : pc'[u] # "align"
  BY <1>1, <1>2
<1> QED
  BY <1>5, <1>6, <1>7 DEF Accounted, CoveredBy

\* The block that was about to be returned is pending.
LEMMA ReturnAccounted ==
  ASSUME Inv, Accounted, NEW t \in Threads, ReturnCursor(t)
  PROVE  Accounted'
<1>1. /\ pc[t] = "return" /\ pc' = [pc EXCEPT ![t] = "idle"]
      /\ pending' = [pending EXCEPT ![t] = [begin |-> cursor, bytes |-> asked[t]]]
      /\ UNCHANGED <<storage, cursor, maxAlloc, blocks, fate>>
  BY DEF ReturnCursor, Go
<1>2. /\ \A u \in Threads \ {t} : pc[u] = "idle"
      /\ pc \in [Threads -> {"idle", "allocate", "align", "return", "reset", "release"}]
      /\ pending \in [Threads -> Block \cup {NoBlock}]
  BY <1>1 DEF Inv, TypeOK, PoolTypeOK, Exclusive
<1>3. [begin |-> cursor, bytes |-> asked[t]] \in Block
  BY DEF Inv, TypeOK, PoolTypeOK, Block
<1>4. Given \subseteq Given'
  <2>1. pending[t] = NoBlock
    BY <1>1 DEF Inv, Exclusive
  <2>2. pending'[t] = [begin |-> cursor, bytes |-> asked[t]] /\ t \in Pending'
    BY <1>1, <1>2, <1>3, ClientAssumption DEF Pending
  <2>3. Returning \subseteq {pending'[u] : u \in Pending'}
    BY <1>1, <1>2, <2>2 DEF Returning
  <2>4. \A u \in Pending : u \in Pending' /\ pending'[u] = pending[u]
    BY <1>1, <1>2, <2>1 DEF Pending
  <2> QED
    BY <1>1, <2>3, <2>4 DEF Given
<1>5. \A u \in Threads : pc'[u] # "align"
  BY <1>1, <1>2
<1>6. MappingEnd(storage)' = MappingEnd(storage)
  BY <1>1 DEF MappingEnd
<1> QED
  BY <1>1, <1>4, <1>5, <1>6 DEF Accounted, CoveredBy

\* A pool with its cursor at the end has nothing to account for.
LEMMA NothingTaken ==
  ASSUME Inv', cursor' = MappingEnd(storage)', \A t \in Threads : pc'[t] # "align"
  PROVE  Accounted'
<1>1. cursor' \in Int
  BY LayoutAssumption DEF Inv, TypeOK, PoolTypeOK, Address
<1>2. cursor' .. (MappingEnd(storage)' - 1) = {}
  BY <1>1
<1> QED
  BY <1>2 DEF Accounted

LEMMA NextAccounted ==
  ASSUME EmptyUnaligned, Inv, Inv', Accounted, [Next]_vars
  PROVE  Accounted'
<1>1. ASSUME NEW t \in Threads, PoolStep(t)
      PROVE  Accounted'
  <2>1. ASSUME NEW operation \in {"allocate", "reset", "release"},
               Lock(t, operation), UNCHANGED <<poolVars, current, asked>>
        PROVE  Accounted'
    <3>1. /\ pc' = [pc EXCEPT ![t] = operation] /\ pc[t] = "idle"
          /\ UNCHANGED <<storage, cursor, pending, blocks, current, asked>>
      BY <2>1 DEF Lock, Go, poolVars
    <3>2. Given \subseteq Given'
      BY <3>1 DEF Given, Pending, Returning, Inv, TypeOK
    <3> QED
      BY <3>1, <3>2, AccountKept DEF Inv, TypeOK
  <2>2. CASE ReadCursor(t)
    <3>1. /\ pc[t] = "allocate" /\ pc' = [pc EXCEPT ![t] = "align"]
          /\ current' = [current EXCEPT ![t] = cursor]
          /\ UNCHANGED <<storage, cursor, pending, blocks, asked>>
      BY <2>2 DEF ReadCursor, Go, poolVars
    <3>2. Given \subseteq Given'
      BY <3>1 DEF Given, Pending, Returning, Inv, TypeOK
    <3>3. MappingEnd(storage)' = MappingEnd(storage)
      BY <3>1 DEF MappingEnd
    <3> QED
      BY <3>1, <3>2, <3>3 DEF Accounted, CoveredBy, Inv, TypeOK
  <2>3. CASE LockedReset(t) \/ LockedRelease(t)
    <3>1. /\ pc[t] \in {"reset", "release"} /\ pc' = [pc EXCEPT ![t] = "idle"]
          /\ cursor' = MappingEnd(storage)'
      BY <2>3 DEF LockedReset, LockedRelease, Go, Reset, Release, MappingEnd, NoStorage
    <3>2. \A u \in Threads : pc'[u] # "align"
      BY <3>1 DEF Inv, TypeOK, Exclusive
    <3> QED
      BY <3>1, <3>2, NothingTaken
  <2>4. CASE BeginAllocate(t) \/ BeginReset(t) \/ BeginRelease(t)
    BY <2>1, <2>4 DEF BeginAllocate, BeginReset, BeginRelease
  <2> QED
    BY <1>1, <2>2, <2>3, <2>4, WriteAccounted, ReturnAccounted DEF PoolStep
<1>2. ASSUME NEW usable \in UsableSizes, NEW m \in MaxAllocSizes, NEW begin \in Mappings,
             Construct(usable, m, begin), UNCHANGED lockVars
      PROVE  Accounted'
  <2>1. storage = NoStorage /\ cursor' = MappingEnd(storage)' /\ pc' = pc
    BY <1>2 DEF Construct, lockVars
  <2>2. \A t \in Threads : pc'[t] # "align"
    BY <2>1 DEF Inv, MappedWhileInUse
  <2> QED
    BY <2>1, <2>2, NothingTaken
<1>3. CASE UNCHANGED vars
  <2>1. UNCHANGED <<storage, cursor, pending, blocks, pc, current, asked>>
    BY <1>3 DEF vars, poolVars, lockVars
  <2>2. Given' = Given
    BY <2>1 DEF Given, Pending, Returning
  <2> QED
    BY <2>1, <2>2, AccountKept
<1> QED
  BY <1>1, <1>2, <1>3, UseAccounted DEF Next, Ended, ClientStep

LEMMA InitAccounted == Init => Accounted
  BY DEF Init, InitPool, Accounted, MappingEnd, NoStorage

\* Every byte below the end of the mapping is a block's, or padding above one,
\* whenever nobody is inside the pool.
THEOREM EveryByteAccounted == Spec => [](EmptyUnaligned => NothingWasted)
<1>1. Init => (EmptyUnaligned => Accounted)
  BY InitAccounted
<1>2. Inv /\ Inv' /\ (EmptyUnaligned => Accounted) /\ [Next]_vars
        => (EmptyUnaligned => Accounted)'
  BY NextAccounted DEF EmptyUnaligned
<1>3. Inv /\ (EmptyUnaligned => Accounted) => (EmptyUnaligned => NothingWasted)
  <2> SUFFICES ASSUME Inv, Accounted, mutex = NoThread
               PROVE  \A a \in cursor .. (MappingEnd(storage) - 1) :
                        \E b \in blocks \cup {pending[t] : t \in Pending}, r \in Requests :
                          /\ r.bytes = b.bytes
                          /\ b.begin <= a /\ a - BlockEnd(b) < r.alignment - 1
    BY DEF NothingWasted
  <2>1. Returning = {}
    BY TakeAssumption DEF Inv, Exclusive, Returning
  <2> QED
    BY <2>1 DEF Accounted, Given, CoveredBy
<1> QED
  BY <1>1, <1>2, <1>3, Invariance, PTL DEF Spec

-----------------------------------------------------------------------------
(* No byte twice, and no overflow unseen.                                  *)

\* The block each thread has, from the moment the cursor is written.
Hand ==
  [t \in Threads |-> IF pc[t] = "return" THEN [begin |-> cursor, bytes |-> asked[t]]
                     ELSE pending[t]]

Holders == {t \in Threads : Hand[t] # NoBlock}

HandedOut == blocks \cup {Hand[t] : t \in Holders}

\* The threads that will end the process when they use their block.
Doomed == {t \in Holders : Hand[t].bytes > 0 /\ Hand[t].begin < UsableBegin}

\* A pool has the sizes it was constructed with.
Bought ==
  IF storage = NoStorage THEN maxAlloc = 0 /\ blocks = {}
  ELSE /\ storage.begin \in Mappings /\ maxAlloc \in MaxAllocSizes
       /\ UsableBegin \in Nat /\ UsableBegin <= MappingEnd(storage)

\* Every thread takes the cursor below the usable area once at most.
Depth ==
  storage # NoStorage =>
    /\ cursor <= MappingEnd(storage)
    /\ UsableBegin - Cardinality(Doomed) * MaxTake <= cursor

Within ==
  \A b \in HandedOut : cursor <= b.begin /\ BlockEnd(b) <= MappingEnd(storage)

Apart ==
  /\ \A a, b \in blocks : a # b => Disjoint(a, b)
  /\ \A t \in Holders, b \in blocks : Disjoint(Hand[t], b)
  /\ \A t, u \in Holders : t # u => Disjoint(Hand[t], Hand[u])

Aligned ==
  \A t \in Holders : \E r \in Requests :
    Hand[t].bytes = r.bytes /\ Hand[t].begin % r.alignment = 0

Safe == Bought /\ Depth /\ Within /\ Apart /\ Aligned

LEMMA ConstantFacts ==
  /\ Word \in Nat \ {0} /\ PageSize \in Nat \ {0} /\ MaxTake \in Nat
  /\ IsFiniteSet(Threads) /\ Cardinality(Threads) \in Nat
  /\ NoBlock \notin Block
  /\ \A m \in Mappings : m \in Nat \ {0} /\ (Cardinality(Threads) + 1) * MaxTake < m
<1>1. /\ Word \in Nat \ {0} /\ PageSize \in Nat \ {0} /\ MaxTake \in Nat
      /\ IsFiniteSet(Threads) /\ NoBlock \notin Block
      /\ \A m \in Mappings : m \in Nat /\ (Cardinality(Threads) + 1) * MaxTake < m
  BY LayoutAssumption, ClientAssumption
<1>2. Cardinality(Threads) \in Nat
  BY <1>1, FS_CardinalityType
<1>3. (Cardinality(Threads) + 1) * MaxTake \in Nat
  BY <1>1, <1>2
<1> QED
  BY <1>1, <1>2, <1>3

LEMMA HandFacts ==
  ASSUME Inv
  PROVE  /\ Hand \in [Threads -> Block \cup {NoBlock}]
         /\ \A t \in Threads : pc[t] # "return" => Hand[t] = pending[t]
         /\ \A t \in Threads : pending[t] # NoBlock => Hand[t] = pending[t]
         /\ storage = NoStorage => Holders = {}
<1>1. \A t \in Threads : [begin |-> cursor, bytes |-> asked[t]] \in Block
  BY DEF Inv, TypeOK, PoolTypeOK, Block
<1> QED
  BY <1>1 DEF Hand, Holders, Inv, TypeOK, PoolTypeOK, Exclusive, MappedWhileInUse

LEMMA DoomedFacts ==
  /\ IsFiniteSet(Doomed) /\ Cardinality(Doomed) \in Nat
  /\ Cardinality(Doomed) <= Cardinality(Threads)
  /\ \A t \in Threads \ Holders : Cardinality(Doomed) + 1 <= Cardinality(Threads)
<1>1. Doomed \subseteq Threads /\ IsFiniteSet(Threads)
  BY ConstantFacts DEF Doomed, Holders
<1>2. IsFiniteSet(Doomed) /\ Cardinality(Doomed) <= Cardinality(Threads)
  BY <1>1, FS_Subset
<1>3. Cardinality(Doomed) \in Nat
  BY <1>2, FS_CardinalityType
<1>4. ASSUME NEW t \in Threads \ Holders
      PROVE  Cardinality(Doomed) + 1 <= Cardinality(Threads)
  <2>1. t \notin Doomed /\ Doomed \cup {t} \subseteq Threads
    BY <1>1 DEF Doomed
  <2>2. Cardinality(Doomed \cup {t}) = Cardinality(Doomed) + 1
    BY <1>2, <2>1, FS_AddElement
  <2> QED
    BY <1>1, <2>1, <2>2, FS_Subset
<1> QED
  BY <1>2, <1>3, <1>4

\* Steps that write neither the cursor nor a block.
LEMMA StillSafe ==
  ASSUME Safe, UNCHANGED <<storage, cursor, maxAlloc, blocks, Hand>>
  PROVE  Safe'
<1>1. /\ UsableBegin' = UsableBegin /\ MappingEnd(storage)' = MappingEnd(storage)
      /\ Holders' = Holders
  BY DEF UsableBegin, MappingEnd, GuardBytes, RoundUp, AlignDown, Holders
<1>2. HandedOut' = HandedOut /\ Doomed' = Doomed
  BY <1>1 DEF HandedOut, Doomed
<1> QED
  BY <1>1, <1>2 DEF Safe, Bought, Depth, Within, Apart, Disjoint, Aligned

\* A pool without blocks, its cursor at the end.
LEMMA EmptySafe ==
  ASSUME Inv', Bought', cursor' = MappingEnd(storage)', blocks' = {}, Holders' = {}
  PROVE  Safe'
<1>1. HandedOut' = {} /\ Doomed' = {}
  BY DEF HandedOut, Doomed
<1>2. Cardinality(Doomed') = 0
  BY <1>1, FS_EmptySet
<1>3. Depth'
  <2> SUFFICES ASSUME storage' # NoStorage
               PROVE  /\ cursor' <= MappingEnd(storage)'
                      /\ UsableBegin' - Cardinality(Doomed') * MaxTake <= cursor'
    BY DEF Depth
  <2>1. UsableBegin' \in Nat /\ UsableBegin' <= MappingEnd(storage)'
    BY DEF Bought
  <2>2. cursor' \in Int /\ 0 * MaxTake = 0
    BY ConstantFacts DEF Inv, TypeOK, PoolTypeOK, Address
  <2> QED
    BY <1>2, <2>1, <2>2
<1> QED
  BY <1>1, <1>3 DEF Safe, Within, Apart, Aligned

\* One allocation from a cursor that is far from address 0.
LEMMA CursorFacts ==
  ASSUME EmptyUnaligned, NEW r \in Requests, NEW c \in Address, MaxTake <= c,
         NEW new, new = AlignDownwardPoolCursor(c, r.bytes, r.alignment)
  PROVE  /\ new \in Nat /\ new + r.bytes <= c /\ c - MaxTake <= new
         /\ new % r.alignment = 0
         /\ r.bytes = 0 => new = c
<1>1. /\ Word \in Nat \ {0} /\ r.bytes \in Nat /\ r.alignment \in Nat \ {0}
      /\ MaxTake \in Nat /\ r.bytes + r.alignment - 1 <= MaxTake
      /\ c \in Nat /\ c < Word
      /\ r.bytes = 0 => r.alignment = 1
  BY LayoutAssumption, ClientAssumption, TakeAssumption DEF Address, EmptyUnaligned
<1>2. c - r.bytes \in Nat /\ c - r.bytes < Word
  BY <1>1
<1>3. new = AlignDown(c - r.bytes, r.alignment)
  BY <1>1, <1>2, ModSmall DEF AlignDownwardPoolCursor
<1> DEFINE raw == c - r.bytes
           al == r.alignment
<1>4. raw \in Nat /\ al \in Nat \ {0} /\ new = AlignDown(raw, al)
  BY <1>1, <1>2, <1>3
<1> HIDE DEF raw, al
<1>5. new \in Nat /\ new <= raw /\ raw < new + al /\ new % al = 0
  BY <1>4, AlignDownFacts
<1>6. raw = c - r.bytes /\ al = r.alignment
  BY DEF raw, al
<1>7. /\ r.bytes \in Nat /\ MaxTake \in Nat /\ c \in Nat /\ al \in Nat
      /\ r.bytes + al - 1 <= MaxTake
      /\ r.bytes = 0 => al = 1
  BY <1>1, <1>6
<1>8. new + r.bytes <= c /\ c - MaxTake <= new
  BY <1>5, <1>6, <1>7
<1>9. r.bytes = 0 => new = c
  BY <1>5, <1>6, <1>7
<1> QED
  BY <1>5, <1>6, <1>8, <1>9

\* The new block lies below all others, and if it begins below the usable area
\* its thread is one more doomed thread.
LEMMA WriteSafe ==
  ASSUME EmptyUnaligned, Inv, Inv', Accounted, Safe,
         NEW t \in Threads, NEW r \in Requests, WriteCursor(t, r)
  PROVE  Safe'
<1> DEFINE new == [begin |-> cursor', bytes |-> r.bytes]
           end == MappingEnd(storage)
           n == Cardinality(Doomed)
<1>1. /\ pc[t] = "align" /\ pc' = [pc EXCEPT ![t] = "return"]
      /\ cursor' = AlignDownwardPoolCursor(cursor, r.bytes, r.alignment)
      /\ asked' = [asked EXCEPT ![t] = r.bytes]
      /\ UNCHANGED <<storage, maxAlloc, pending, blocks>>
  BY DEF WriteCursor, Go, Accounted
<1>2. /\ pending[t] = NoBlock /\ storage # NoStorage
      /\ \A u \in Threads \ {t} : pc[u] = "idle"
      /\ pc \in [Threads -> {"idle", "allocate", "align", "return", "reset", "release"}]
      /\ asked \in [Threads -> Nat]
  BY <1>1 DEF Inv, TypeOK, Exclusive, MappedWhileInUse
<1>3. Hand[t] = NoBlock /\ Hand' = [Hand EXCEPT ![t] = new]
  BY <1>1, <1>2 DEF Hand
<1>4. /\ storage.begin \in Mappings /\ maxAlloc \in MaxAllocSizes
      /\ UsableBegin \in Nat /\ UsableBegin <= end /\ end \in Nat
      /\ cursor \in Address /\ cursor \in Nat /\ cursor <= end
      /\ UsableBegin - n * MaxTake <= cursor
  BY <1>2 DEF Safe, Bought, Depth, Inv, RequestsFit, TypeOK, PoolTypeOK, Address
<1>5. t \notin Holders /\ n \in Nat /\ n + 1 <= Cardinality(Threads)
  BY <1>3, DoomedFacts DEF Holders
<1>6. MaxTake \in Nat /\ Cardinality(Threads) \in Nat /\ n * MaxTake \in Nat
  BY <1>5, ConstantFacts
<1>7. UsableBegin' = UsableBegin /\ MappingEnd(storage)' = end
  BY <1>1 DEF UsableBegin, MappingEnd, GuardBytes, RoundUp, AlignDown
<1> HIDE DEF n, end
\* The cursor stays far from 0.
<1>8. MaxTake <= cursor
  <2>1. storage.begin <= UsableBegin /\ storage.begin \in Nat
    <3>1. GuardBytes(maxAlloc) \in Nat
      <4>1. maxAlloc \in Int /\ PageSize \in Nat \ {0} /\ Word \in Nat \ {0}
        BY <1>4, ClientAssumption, LayoutAssumption
      <4> QED
        BY <4>1, RoundUpRange DEF GuardBytes
    <3> QED
      BY <1>4, <3>1, ConstantFacts DEF UsableBegin
  <2>2. (Cardinality(Threads) + 1) * MaxTake < storage.begin
    BY <1>4, ConstantFacts
  <2>3. n * MaxTake <= Cardinality(Threads) * MaxTake /\ Cardinality(Threads) * MaxTake \in Nat
    BY <1>5, <1>6
  <2>4. (Cardinality(Threads) + 1) * MaxTake = (Cardinality(Threads) * MaxTake) + MaxTake
    BY <1>6
  <2> QED
    BY <1>4, <1>6, <2>1, <2>2, <2>3, <2>4
<1>9. /\ cursor' \in Nat /\ cursor' + r.bytes <= cursor /\ cursor - MaxTake <= cursor'
      /\ cursor' % r.alignment = 0
      /\ r.bytes = 0 => cursor' = cursor
  BY <1>1, <1>4, <1>8, CursorFacts
<1>10. r.bytes \in Nat
  BY ClientAssumption
<1>11. new \in Block /\ new # NoBlock
  <2>1. cursor' \in Address
    BY DEF Inv, TypeOK, PoolTypeOK
  <2> QED
    BY <1>10, <2>1, ConstantFacts DEF Block
<1>12. /\ Holders' = Holders \cup {t} /\ Hand'[t] = new
       /\ \A u \in Holders : u # t /\ Hand'[u] = Hand[u]
  BY <1>3, <1>5, <1>11, HandFacts DEF Holders
<1>13. HandedOut' = HandedOut \cup {new}
  BY <1>1, <1>12 DEF HandedOut
<1>14. Doomed' = IF r.bytes > 0 /\ cursor' < UsableBegin THEN Doomed \cup {t} ELSE Doomed
  BY <1>5, <1>7, <1>12 DEF Doomed
<1>15. UsableBegin - Cardinality(Doomed') * MaxTake <= cursor'
  <2>1. CASE r.bytes > 0 /\ cursor' < UsableBegin
    <3>1. Cardinality(Doomed') = n + 1
      <4>1. IsFiniteSet(Doomed) /\ t \notin Doomed
        BY <1>5, DoomedFacts DEF Doomed
      <4> QED
        BY <1>14, <2>1, <4>1, FS_AddElement DEF n
    <3>2. (n + 1) * MaxTake = (n * MaxTake) + MaxTake
      BY <1>5, <1>6
    <3> QED
      BY <1>4, <1>6, <1>9, <3>1, <3>2
  <2>2. CASE r.bytes = 0
    BY <1>4, <1>9, <1>14, <2>2 DEF n
  <2>3. CASE UsableBegin <= cursor'
    <3>1. Cardinality(Doomed') = n
      BY <1>4, <1>9, <1>14, <2>3 DEF n
    <3> QED
      BY <1>4, <1>6, <1>9, <2>3, <3>1
  <2> QED
    BY <1>4, <1>9, <1>10, <2>1, <2>2, <2>3
<1>16. Bought' /\ Depth'
  BY <1>1, <1>2, <1>4, <1>7, <1>9, <1>10, <1>15 DEF Bought, Depth
<1>17. \A b \in HandedOut : /\ cursor <= b.begin /\ b.begin \in Nat /\ b.bytes \in Nat
                            /\ BlockEnd(b) <= end
  BY HandFacts DEF Safe, Within, HandedOut, Holders, Inv, TypeOK, PoolTypeOK, Block,
                   Address, end
<1>18. Within'
  <2>1. BlockEnd(new) <= end
    BY <1>4, <1>9, <1>10 DEF BlockEnd
  <2>2. \A b \in HandedOut : cursor' <= b.begin
    BY <1>4, <1>9, <1>10, <1>17
  <2> QED
    BY <1>7, <1>9, <1>13, <1>17, <2>1, <2>2 DEF Within
<1>19. Apart'
  <2>1. ASSUME NEW b \in HandedOut
        PROVE  Disjoint(new, b) /\ Disjoint(b, new)
    BY <1>4, <1>9, <1>10, <1>17 DEF Disjoint, BlockEnd
  <2>2. /\ \A b \in blocks : b \in HandedOut
        /\ \A u \in Holders : Hand[u] \in HandedOut
    BY DEF HandedOut
  <2> QED
    BY <1>1, <1>12, <2>1, <2>2 DEF Safe, Apart
<1>20. Aligned'
  BY <1>9, <1>12 DEF Safe, Aligned
<1> QED
  BY <1>16, <1>18, <1>19, <1>20 DEF Safe

\* A block that was in hand is in use.
LEMMA UseSafe ==
  ASSUME Inv, Safe, NEW t \in Threads, Use(t), UNCHANGED lockVars
  PROVE  Safe'
<1>1. /\ storage # NoStorage /\ pending[t] # NoBlock
      /\ ~Touches(pending[t], 0, UsableBegin)
      /\ blocks' = IF pending[t].bytes = 0 THEN blocks ELSE blocks \cup {pending[t]}
      /\ pending' = [pending EXCEPT ![t] = NoBlock]
      /\ UNCHANGED <<storage, cursor, maxAlloc, pc, asked>>
  BY DEF Use, IsOpen, lockVars
<1>2. pc[t] # "return" /\ pending \in [Threads -> Block \cup {NoBlock}]
  BY <1>1 DEF Inv, Exclusive, TypeOK, PoolTypeOK
<1>3. Hand[t] = pending[t] /\ Hand' = [Hand EXCEPT ![t] = NoBlock]
  BY <1>1, <1>2 DEF Hand
<1>4. /\ t \in Holders /\ Holders' = Holders \ {t} /\ Hand[t] \in Block
      /\ \A u \in Holders' : Hand'[u] = Hand[u]
  BY <1>1, <1>2, <1>3, HandFacts DEF Holders
<1>5. HandedOut' \subseteq HandedOut
  BY <1>1, <1>3, <1>4 DEF HandedOut
<1>6. UsableBegin' = UsableBegin /\ MappingEnd(storage)' = MappingEnd(storage)
  BY <1>1 DEF UsableBegin, MappingEnd, GuardBytes, RoundUp, AlignDown
<1>7. Doomed' = Doomed
  <2>1. t \notin Doomed
    BY <1>1, <1>3, <1>4 DEF Doomed, Touches, BlockEnd, Block, Address
  <2> QED
    BY <1>4, <1>6, <2>1 DEF Doomed
<1>8. Bought' /\ Depth'
  BY <1>1, <1>6, <1>7 DEF Safe, Bought, Depth
<1>9. Within'
  BY <1>1, <1>5, <1>6 DEF Safe, Within
<1>10. Apart'
  BY <1>1, <1>3, <1>4 DEF Safe, Apart, Disjoint
<1>11. Aligned'
  BY <1>4 DEF Safe, Aligned
<1> QED
  BY <1>8, <1>9, <1>10, <1>11 DEF Safe

LEMMA ConstructSafe ==
  ASSUME Inv, Inv', Safe,
         NEW usable \in UsableSizes, NEW m \in MaxAllocSizes, NEW begin \in Mappings,
         Construct(usable, m, begin), UNCHANGED lockVars
  PROVE  Safe'
<1> DEFINE guard == RoundUp(m, PageSize)
           room == RoundUp(usable, PageSize)
<1>1. /\ storage = NoStorage /\ storage' = [begin |-> begin, bytes |-> room + guard]
      /\ cursor' = MappingEnd(storage)' /\ maxAlloc' = m
      /\ UNCHANGED <<pending, blocks, pc, asked>>
  BY DEF Construct, MappingBytes, GuardBytes, lockVars, MappingEnd
<1>2. /\ Word \in Nat \ {0} /\ PageSize \in Nat \ {0}
      /\ usable \in Int /\ m \in Int /\ begin \in Nat \ {0}
  BY LayoutAssumption, ClientAssumption, ConstantFacts DEF Address
<1>3. guard \in Nat /\ room \in Nat
  BY <1>2, RoundUpRange
<1>4. UsableBegin' = begin + guard
  BY <1>1 DEF UsableBegin, GuardBytes
<1> HIDE DEF guard, room
<1>5. /\ UsableBegin' \in Nat /\ UsableBegin' <= MappingEnd(storage)'
      /\ storage' # NoStorage
  BY <1>1, <1>2, <1>3, <1>4 DEF MappingEnd, NoStorage
<1>6. \A u \in Threads : pc[u] = "idle" /\ pending[u] = NoBlock
  BY <1>1 DEF Inv, MappedWhileInUse
<1>7. Holders' = {}
  BY <1>1, <1>6 DEF Holders, Hand
<1>8. Bought' /\ blocks' = {}
  BY <1>1, <1>5 DEF Safe, Bought
<1> QED
  BY <1>1, <1>7, <1>8, EmptySafe

\* reset and release run with nothing in hand.
LEMMA EmptiedSafe ==
  ASSUME Inv, Inv', Safe, NEW t \in Threads, LockedReset(t) \/ LockedRelease(t)
  PROVE  Safe'
<1>1. /\ pc[t] \in {"reset", "release"} /\ pc' = [pc EXCEPT ![t] = "idle"]
      /\ Quiescent /\ pending' = pending
      /\ cursor' = MappingEnd(storage)' /\ blocks' = {}
      /\ \/ UNCHANGED <<storage, maxAlloc>>
         \/ storage' = NoStorage /\ maxAlloc' = 0
  BY DEF LockedReset, LockedRelease, Go, Reset, Release, MappingEnd, NoStorage
<1>2. Holders' = {}
  <2>1. \A u \in Threads : pc'[u] = "idle"
    BY <1>1 DEF Inv, TypeOK, Exclusive
  <2> QED
    BY <1>1, <2>1 DEF Holders, Hand, Quiescent
<1>3. Bought'
  BY <1>1 DEF Safe, Bought, UsableBegin, MappingEnd, GuardBytes, RoundUp, AlignDown
<1> QED
  BY <1>1, <1>2, <1>3, EmptySafe

LEMMA NextSafe ==
  ASSUME EmptyUnaligned, Inv, Inv', Accounted, Safe, [Next]_vars
  PROVE  Safe'
<1>1. ASSUME NEW t \in Threads, PoolStep(t)
      PROVE  Safe'
  <2>1. ASSUME UNCHANGED <<storage, cursor, maxAlloc, pending, blocks, asked>>,
               NEW place \in {"allocate", "align", "reset", "release"},
               pc[t] # "return", pc' = [pc EXCEPT ![t] = place]
        PROVE  Safe'
    <3>1. Hand' = Hand
      BY <2>1 DEF Hand, Inv, TypeOK
    <3> QED
      BY <2>1, <3>1, StillSafe
  <2>2. CASE BeginAllocate(t) \/ BeginReset(t) \/ BeginRelease(t) \/ ReadCursor(t)
    BY <2>1, <2>2 DEF BeginAllocate, BeginReset, BeginRelease, ReadCursor, Lock, Go, poolVars
  <2>3. CASE ReturnCursor(t)
    <3>1. /\ pc[t] = "return" /\ pc' = [pc EXCEPT ![t] = "idle"]
          /\ pending' = [pending EXCEPT ![t] = [begin |-> cursor, bytes |-> asked[t]]]
          /\ UNCHANGED <<storage, cursor, maxAlloc, blocks>>
      BY <2>3 DEF ReturnCursor, Go
    <3>2. \A u \in Threads \ {t} : pc[u] = "idle"
      BY <3>1 DEF Inv, Exclusive
    <3>3. Hand' = Hand
      BY <3>1, <3>2 DEF Hand, Inv, TypeOK, PoolTypeOK
    <3> QED
      BY <3>1, <3>3, StillSafe
  <2> QED
    BY <1>1, <2>2, <2>3, WriteSafe, EmptiedSafe DEF PoolStep
<1>2. ASSUME NEW t \in Threads, UseOverflow(t), UNCHANGED lockVars
      PROVE  Safe'
  <2>1. UNCHANGED <<storage, cursor, maxAlloc, pending, blocks, pc, asked>>
    BY <1>2 DEF UseOverflow, lockVars
  <2>2. Hand' = Hand
    BY <2>1 DEF Hand
  <2> QED
    BY <2>1, <2>2, StillSafe
<1>3. CASE UNCHANGED vars
  <2>1. UNCHANGED <<storage, cursor, maxAlloc, pending, blocks, pc, asked>>
    BY <1>3 DEF vars, poolVars, lockVars
  <2>2. Hand' = Hand
    BY <2>1 DEF Hand
  <2> QED
    BY <2>1, <2>2, StillSafe
<1> QED
  BY <1>1, <1>2, <1>3, UseSafe, ConstructSafe DEF Next, Ended, ClientStep

LEMMA InitSafe == Init => Safe
<1> SUFFICES ASSUME Init PROVE Safe
  OBVIOUS
<1>1. Holders = {} /\ blocks = {} /\ storage = NoStorage /\ maxAlloc = 0
  BY DEF Init, InitPool, Holders, Hand
<1> QED
  BY <1>1 DEF Safe, Bought, Depth, Within, HandedOut, Apart, Aligned

-----------------------------------------------------------------------------
(* What follows from it.                                                   *)

\* A thread's block, from the moment it is returned.
LEMMA PendingFacts ==
  ASSUME Inv, Safe, NEW t \in Pending
  PROVE  /\ t \in Holders /\ Hand[t] = pending[t] /\ storage # NoStorage
         /\ storage.begin \in Nat \ {0} /\ MappingEnd(storage) \in Nat
         /\ maxAlloc \in Nat /\ storage.begin + maxAlloc <= UsableBegin
         /\ UsableBegin \in Nat /\ cursor \in Nat
         /\ UsableBegin - Cardinality(Threads) * MaxTake <= cursor
         /\ pending[t] \in Block
         /\ pending[t].begin \in Nat /\ pending[t].bytes \in Nat
         /\ cursor <= pending[t].begin
         /\ pending[t].begin + pending[t].bytes <= MappingEnd(storage)
<1> DEFINE n == Cardinality(Doomed)
           all == Cardinality(Threads)
<1>1. t \in Threads /\ pending[t] # NoBlock
  BY DEF Pending
<1>2. /\ t \in Holders /\ Hand[t] = pending[t] /\ storage # NoStorage
      /\ pending[t] \in Block
  BY <1>1, HandFacts DEF Holders, Inv, TypeOK, PoolTypeOK, MappedWhileInUse
<1>3. pending[t].begin \in Nat /\ pending[t].bytes \in Nat
  BY <1>2 DEF Block, Address
<1>4. /\ storage.begin \in Nat \ {0} /\ maxAlloc \in MaxAllocSizes
      /\ UsableBegin \in Nat /\ MappingEnd(storage) \in Nat /\ cursor \in Nat
      /\ UsableBegin - n * MaxTake <= cursor
  BY <1>2, ConstantFacts
     DEF Safe, Bought, Depth, Inv, RequestsFit, TypeOK, PoolTypeOK, Address
<1>5. n \in Nat /\ all \in Nat /\ n <= all /\ MaxTake \in Nat
  BY DoomedFacts, ConstantFacts
<1> HIDE DEF n, all
<1>6. n * MaxTake <= all * MaxTake /\ n * MaxTake \in Nat /\ all * MaxTake \in Nat
  BY <1>5
<1>7. UsableBegin - all * MaxTake <= cursor
  BY <1>4, <1>6
<1>8. maxAlloc \in Nat /\ storage.begin + maxAlloc <= UsableBegin
  <2>1. maxAlloc \in Nat /\ maxAlloc + PageSize - 1 < Word
    BY <1>4, ClientAssumption
  <2>2. GuardBytes(maxAlloc) \in Nat /\ maxAlloc <= GuardBytes(maxAlloc)
    BY <2>1, ConstantFacts, RoundUpFacts DEF GuardBytes
  <2> QED
    BY <1>4, <2>1, <2>2 DEF UsableBegin
<1>9. cursor <= pending[t].begin /\ pending[t].begin + pending[t].bytes <= MappingEnd(storage)
  <2>1. Hand[t] \in HandedOut
    BY <1>2 DEF HandedOut
  <2> QED
    BY <1>2, <2>1 DEF Safe, Within, BlockEnd
<1> QED
  BY <1>2, <1>3, <1>4, <1>7, <1>8, <1>9 DEF all

\* With as much guard as the threads can overflow by, no block handed out
\* begins below the mapping.
LEMMA GuardLemma == Inv /\ Safe => OverflowHitsGuard
<1> SUFFICES ASSUME Inv, Safe, GuardSuffices, NEW t \in Pending
             PROVE  storage.begin <= pending[t].begin
  BY DEF OverflowHitsGuard
<1> DEFINE all == Cardinality(Threads)
<1>1. all \in Nat /\ MaxTake \in Nat /\ Slack \in {0, 1}
  BY ConstantFacts DEF Slack
<1>2. (all + Slack) * MaxTake <= maxAlloc
  BY DEF GuardSuffices
<1>3. /\ storage.begin \in Nat /\ maxAlloc \in Nat /\ UsableBegin \in Nat
      /\ storage.begin + maxAlloc <= UsableBegin
      /\ cursor \in Nat /\ UsableBegin - all * MaxTake <= cursor
      /\ pending[t].begin \in Nat /\ cursor <= pending[t].begin
  BY PendingFacts
<1> HIDE DEF all
<1>4. all * MaxTake <= (all + Slack) * MaxTake /\ all * MaxTake \in Nat
      /\ (all + Slack) * MaxTake \in Nat
  BY <1>1
<1> QED
  BY <1>2, <1>3, <1>4

\* The cursor is never further below the usable area than the threads that
\* have not yet touched their blocks account for, and no two blocks meet.
THEOREM Safety == Spec => [](EmptyUnaligned => Safe)
<1>1. Init => Inv /\ (EmptyUnaligned => Accounted /\ Safe)
  BY InitInv, InitAccounted, InitSafe
<1>2. Inv /\ (EmptyUnaligned => Accounted /\ Safe) /\ [Next]_vars
      => (Inv /\ (EmptyUnaligned => Accounted /\ Safe))'
  <2> SUFFICES ASSUME Inv, EmptyUnaligned => Accounted /\ Safe, [Next]_vars
               PROVE  Inv' /\ (EmptyUnaligned' => Accounted' /\ Safe')
    OBVIOUS
  <2>1. Inv' /\ (EmptyUnaligned' => EmptyUnaligned)
    BY NextInv DEF EmptyUnaligned
  <2>2. ASSUME EmptyUnaligned PROVE Accounted' /\ Safe'
    BY <2>1, <2>2, NextAccounted, NextSafe
  <2> QED
    BY <2>1, <2>2
<1> QED
  BY <1>1, <1>2, PTL DEF Spec

\* No byte is handed out twice, unless a program asks for aligned blocks of no
\* bytes, any number of which nobody need ever touch.
THEOREM NoByteTwice == Spec => [](EmptyUnaligned => BlocksDisjoint)
<1>1. ASSUME Inv, Safe
      PROVE  BlocksDisjoint
  <2>1. \A t \in Pending : t \in Holders /\ Hand[t] = pending[t]
    BY <1>1, PendingFacts
  <2> QED
    BY <1>1, <2>1 DEF Safe, Apart, BlocksDisjoint
<1>2. Inv /\ (EmptyUnaligned => Safe) => (EmptyUnaligned => BlocksDisjoint)
  BY <1>1
<1> QED
  BY <1>2, Invariance, Safety, PTL

\* With a guard for one request of every thread, a program that takes more
\* than there is touches the guard before it touches foreign memory.
THEOREM EveryOverflowCaught == Spec => []OverflowHitsGuard
<1>1. Inv /\ (EmptyUnaligned => Safe) => OverflowHitsGuard
  BY GuardLemma DEF EmptyUnaligned, OverflowHitsGuard, GuardSuffices
<1> QED
  BY <1>1, Invariance, Safety, PTL

-----------------------------------------------------------------------------
(* The pool implements Arena.                                              *)

\* Released, the pool maps to a closed arena with nothing in it.
LEMMA NoStorageMaps ==
  MappingEnd(NoStorage) = 0 /\ NoStorage.begin + GuardBytes(0) = 0
<1>1. Word \in Nat \ {0} /\ PageSize \in Nat \ {0} /\ Word % PageSize = 0
  BY LayoutAssumption
<1>2. PageSize <= Word
  BY <1>1, ModSmall
<1>3. PageSize - 1 \in Nat /\ PageSize - 1 < PageSize /\ PageSize - 1 < Word
  BY <1>1, <1>2
<1>4. (PageSize - 1) % Word = PageSize - 1 /\ (PageSize - 1) % PageSize = PageSize - 1
  BY <1>1, <1>3, ModSmall
<1>5. 0 + PageSize - 1 = PageSize - 1
  BY <1>1
<1>6. GuardBytes(0) = 0
  BY <1>1, <1>4, <1>5 DEF GuardBytes, RoundUp, AlignDown
<1> QED
  BY <1>6 DEF MappingEnd, NoStorage

LEMMA InitArena == Init => Promise!Init
  BY NoStorageMaps DEF Init, InitPool, Promise!Init, UsableBegin, GuardSuffices

\* What the arena sees.
LEMMA Unseen ==
  ASSUME UNCHANGED <<storage, maxAlloc, blocks, fate>>
  PROVE  UNCHANGED Promise!vars
  BY DEF Promise!vars, UsableBegin, MappingEnd, GuardBytes, RoundUp, AlignDown,
         GuardSuffices, Slack

\* The first use of a block is the arena issuing it; an empty block is nothing.
LEMMA UseArena ==
  ASSUME Inv, Safe, NEW t \in Threads, Use(t)
  PROVE  (\E r \in Requests : Promise!Issue(r)) \/ UNCHANGED Promise!vars
<1>1. /\ IsOpen /\ t \in Pending
      /\ ~Touches(pending[t], 0, UsableBegin)
      /\ blocks' = IF pending[t].bytes = 0 THEN blocks ELSE blocks \cup {pending[t]}
      /\ storage' = storage /\ maxAlloc' = maxAlloc /\ fate' = fate
  BY DEF Use, Pending
<1>2. /\ UsableBegin' = UsableBegin /\ MappingEnd(storage)' = MappingEnd(storage)
      /\ GuardSuffices' = GuardSuffices
  BY <1>1 DEF UsableBegin, MappingEnd, GuardBytes, RoundUp, AlignDown,
              GuardSuffices, Slack
<1>3. CASE pending[t].bytes = 0
  BY <1>1, <1>3, Unseen
<1>4. CASE pending[t].bytes # 0
  <2>1. /\ t \in Holders /\ Hand[t] = pending[t] /\ pending[t] \in Block
        /\ pending[t].begin \in Nat /\ pending[t].bytes \in Nat
        /\ UsableBegin \in Nat /\ MappingEnd(storage) \in Nat
        /\ pending[t].begin + pending[t].bytes <= MappingEnd(storage)
    BY <1>1, PendingFacts
  <2>2. UsableBegin <= pending[t].begin
    BY <1>1, <1>4, <2>1 DEF Touches, BlockEnd
  <2>3. pending[t] = [begin |-> pending[t].begin, bytes |-> pending[t].bytes]
    BY <2>1 DEF Block
  <2>4. PICK r \in Requests : /\ pending[t].bytes = r.bytes
                              /\ pending[t].begin % r.alignment = 0
    BY <2>1 DEF Safe, Aligned
  <2>5. pending[t].begin \in UsableBegin .. (MappingEnd(storage) - r.bytes)
    BY <2>1, <2>2, <2>4
  <2>6. \A other \in blocks : Promise!Apart(pending[t], other)
    BY <2>1 DEF Safe, Apart, Disjoint, BlockEnd, Promise!Apart
  <2>7. r.bytes > 0
    BY <1>4, <2>1, <2>4
  <2>8. Promise!Issue(r)
    BY <1>1, <1>2, <1>4, <2>3, <2>4, <2>5, <2>6, <2>7 DEF Promise!Issue, IsOpen
  <2> QED
    BY <2>8
<1> QED
  BY <1>3, <1>4

\* Touching the guard is a crash of the arena; missing it is a loss, which
\* needs a guard that does not suffice.
LEMMA UseOverflowArena ==
  ASSUME Inv, Safe, NEW t \in Threads, UseOverflow(t)
  PROVE  Promise!Crash \/ Promise!Lose
<1>1. /\ IsOpen /\ t \in Pending
      /\ Touches(pending[t], 0, UsableBegin)
      /\ fate' = IF pending[t].begin < storage.begin THEN "lost" ELSE "crashed"
      /\ storage' = storage /\ maxAlloc' = maxAlloc /\ blocks' = blocks
  BY DEF UseOverflow, Pending
<1>2. /\ UsableBegin' = UsableBegin /\ MappingEnd(storage)' = MappingEnd(storage)
      /\ GuardSuffices' = GuardSuffices
  BY <1>1 DEF UsableBegin, MappingEnd, GuardBytes, RoundUp, AlignDown,
              GuardSuffices, Slack
<1>3. CASE pending[t].begin < storage.begin
  <2>1. pending[t].begin \in Nat /\ storage.begin \in Nat
    BY <1>1, PendingFacts
  <2>2. ~(storage.begin <= pending[t].begin) /\ pending[t].bytes > 0
    BY <1>1, <1>3, <2>1 DEF Touches
  <2>3. ~GuardSuffices
    BY <1>1, <2>2, GuardLemma DEF OverflowHitsGuard
  <2> QED
    BY <1>1, <1>2, <1>3, <2>3 DEF Promise!Lose, IsOpen
<1>4. CASE ~(pending[t].begin < storage.begin)
  BY <1>1, <1>2, <1>4 DEF Promise!Crash, IsOpen
<1> QED
  BY <1>3, <1>4

\* reset and release reach the arena when the lock is theirs; everything else
\* under the mutex is none of its business.
LEMMA PoolStepArena ==
  ASSUME fate = "running", NEW t \in Threads, PoolStep(t)
  PROVE  Promise!Reset \/ Promise!Close \/ UNCHANGED Promise!vars
<1>1. CASE LockedReset(t)
  <2>1. Promise!Reset
    BY <1>1 DEF LockedReset, Reset, IsOpen, Promise!Reset, UsableBegin, MappingEnd,
                GuardBytes, RoundUp, AlignDown, GuardSuffices, Slack
  <2> QED
    BY <2>1
<1>2. CASE LockedRelease(t)
  <2>1. /\ storage # NoStorage /\ storage' = NoStorage
        /\ maxAlloc' = 0 /\ blocks' = {} /\ fate' = fate
    BY <1>2 DEF LockedRelease, Release, IsOpen
  <2>2. UsableBegin' = 0 /\ MappingEnd(storage') = 0
    BY <2>1, NoStorageMaps DEF UsableBegin
  <2>3. Promise!Close
    BY <2>1, <2>2 DEF Promise!Close, GuardSuffices
  <2> QED
    BY <2>3
<1>3. ASSUME UNCHANGED <<storage, maxAlloc, blocks, fate>>
      PROVE  UNCHANGED Promise!vars
  BY <1>3, Unseen
<1>4. CASE BeginAllocate(t) \/ BeginReset(t) \/ BeginRelease(t) \/ ReadCursor(t)
  BY <1>3, <1>4 DEF BeginAllocate, BeginReset, BeginRelease, ReadCursor, poolVars
<1>5. CASE ReturnCursor(t) \/ \E r \in Requests : WriteCursor(t, r)
  BY <1>3, <1>5 DEF ReturnCursor, WriteCursor
<1> QED
  BY <1>1, <1>2, <1>4, <1>5 DEF PoolStep

LEMMA NextArena ==
  ASSUME Inv, Safe, Safe', [Next]_vars
  PROVE  [Promise!Next]_(Promise!vars)
<1>1. ASSUME NEW usable \in UsableSizes, NEW m \in MaxAllocSizes, NEW begin \in Mappings,
             Construct(usable, m, begin)
      PROVE  Promise!Open
  <2>1. /\ storage = NoStorage /\ storage'.begin = begin
        /\ blocks' = blocks /\ fate' = fate /\ fate = "running"
    BY <1>1 DEF Construct
  <2>2. storage' # NoStorage /\ blocks = {}
    BY <2>1, ConstantFacts DEF NoStorage, Safe, Bought
  <2>3. UsableBegin' <= MappingEnd(storage)'
    BY <2>2 DEF Safe, Bought
  <2>4. MappingEnd(storage)' = MappingEnd(storage')
    BY DEF MappingEnd
  <2> QED
    BY <2>1, <2>2, <2>3, <2>4 DEF Promise!Open, GuardSuffices
<1>2. ASSUME UNCHANGED vars
      PROVE  UNCHANGED Promise!vars
  BY <1>2, Unseen DEF vars, poolVars
<1> QED
  BY <1>1, <1>2, UseArena, UseOverflowArena, PoolStepArena
     DEF Next, Ended, ClientStep, Promise!Next

\* The pool, with its mutex, its cursor and its threads, implements the arena,
\* unless a program asks for aligned blocks of no bytes.
THEOREM Refinement == Spec => (EmptyUnaligned => ImplementsArena)
<1>1. EmptyUnaligned => (EmptyUnaligned)'
  BY DEF EmptyUnaligned
<1>2. Inv /\ (EmptyUnaligned => Safe) /\ (EmptyUnaligned => Safe)' /\ EmptyUnaligned
      /\ (EmptyUnaligned)' /\ [Next]_vars => [Promise!Next]_(Promise!vars)
  BY NextArena
<1> QED
  BY <1>1, <1>2, InitArena, Invariance, Safety, PTL DEF Spec, ImplementsArena, Promise!Spec
=============================================================================

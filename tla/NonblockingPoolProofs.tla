------------------------ MODULE NonblockingPoolProofs ------------------------
(***************************************************************************)
(* NonblockingDownwardPool is safe for any number of threads, any requests *)
(* and any sizes.  Everything handed out lies between the cursor and the   *)
(* end of the mapping, in intervals that do not meet; and the cursor is    *)
(* never further below the usable area than the threads that have not yet  *)
(* touched their blocks account for.                                       *)
(***************************************************************************)
EXTENDS NonblockingDownwardPool, FiniteSetTheorems, TLAPS

-----------------------------------------------------------------------------
(* Facts about div and mod.                                                *)

\* A remainder is in the range of remainders.
LEMMA ModRange ==
  ASSUME NEW x \in Int, NEW a \in Nat \ {0}
  PROVE  x % a \in 0..(a - 1)
  BY SMT

\* Division with remainder.
LEMMA DivMod ==
  ASSUME NEW x \in Int, NEW a \in Nat \ {0}
  PROVE  x \div a \in Int /\ x = (a * (x \div a)) + (x % a)
  BY SMT

\* The remainder is determined by the division equation.
LEMMA ModUnique ==
  ASSUME NEW q \in Int, NEW a \in Nat \ {0}, NEW r \in Int, 0 <= r, r < a
  PROVE  (a * q + r) % a = r
  BY SMT

\* A number below the modulus is its own remainder: no wraparound.
LEMMA ModSmall ==
  ASSUME NEW x \in Nat, NEW a \in Nat \ {0}, x < a
  PROVE  x % a = x
  BY SMT

\* A multiple leaves no remainder.
LEMMA MultipleIsZero ==
  ASSUME NEW q \in Int, NEW a \in Nat \ {0}
  PROVE  (a * q) % a = 0
  BY ModUnique, a * q + 0 = a * q

\* Divisibility is transitive: pages are multiples of MaxAlign.
LEMMA MultipleTrans ==
  ASSUME NEW x \in Int, NEW a \in Nat \ {0}, NEW b \in Nat \ {0},
         x % b = 0, b % a = 0
  PROVE  x % a = 0
<1> DEFINE p == x \div b
           q == b \div a
<1>1. p \in Int /\ x = b * p /\ q \in Int /\ b = a * q
  BY DivMod
<1>2. q * p \in Int /\ x = a * (q * p)
  BY <1>1
<1> HIDE DEF p, q
<1> QED
  BY <1>2, MultipleIsZero

\* Sums and differences of multiples are multiples.
LEMMA MultipleSum ==
  ASSUME NEW x \in Int, NEW y \in Int, NEW a \in Nat \ {0}, x % a = 0, y % a = 0
  PROVE  (x + y) % a = 0 /\ (x - y) % a = 0
<1> DEFINE p == x \div a
           q == y \div a
<1>1. p \in Int /\ x = a * p /\ q \in Int /\ y = a * q
  BY DivMod
<1>2. /\ p + q \in Int /\ x + y = a * (p + q)
      /\ p - q \in Int /\ x - y = a * (p - q)
  BY <1>1
<1> HIDE DEF p, q
<1> QED
  BY <1>2, MultipleIsZero

-----------------------------------------------------------------------------
(* Rounding.                                                               *)

\* Clearing the low bits gives a multiple, at most a - 1 below.
LEMMA AlignDownFacts ==
  ASSUME NEW x \in Nat, NEW a \in Nat \ {0}
  PROVE  /\ AlignDown(x, a) \in Nat
         /\ AlignDown(x, a) <= x
         /\ x < AlignDown(x, a) + a
         /\ AlignDown(x, a) % a = 0
<1>1. /\ x % a \in 0..(a - 1) /\ x \div a \in Int /\ x = (a * (x \div a)) + (x % a)
  BY ModRange, DivMod
<1>2. x % a <= x
  BY SMT
<1>3. AlignDown(x, a) = a * (x \div a)
  BY <1>1 DEF AlignDown
<1> QED
  BY <1>1, <1>2, <1>3, MultipleIsZero DEF AlignDown

\* It gives the greatest multiple that is not above x.
LEMMA AlignDownGreatest ==
  ASSUME NEW x \in Nat, NEW a \in Nat \ {0}, NEW y \in Nat, y <= x, y % a = 0
  PROVE  y <= AlignDown(x, a)
<1> DEFINE p == y \div a
           q == x \div a
<1>1. /\ p \in Int /\ y = a * p
      /\ q \in Int /\ x = (a * q) + (x % a) /\ x % a \in 0..(a - 1)
  BY DivMod, ModRange
<1>2. p <= q
  <2>1. SUFFICES ASSUME q + 1 <= p PROVE FALSE
    BY <1>1
  <2>2. a * (q + 1) <= a * p
    BY <1>1, <2>1
  <2>3. a * (q + 1) = (a * q) + a
    BY <1>1
  <2> QED
    BY <1>1, <2>2, <2>3
<1>3. a * p <= a * q
  BY <1>1, <1>2
<1> QED
  BY <1>1, <1>3 DEF AlignDown

\* round_up without wraparound.
LEMMA RoundUpFacts ==
  ASSUME Word \in Nat \ {0}, NEW v \in Nat, NEW m \in Nat \ {0}, v + m - 1 < Word
  PROVE  /\ RoundUp(v, m) \in Nat
         /\ v <= RoundUp(v, m)
         /\ RoundUp(v, m) % m = 0
         /\ RoundUp(v, m) = AlignDown(v + m - 1, m)
<1>1. v + m - 1 \in Nat /\ (v + m - 1) % Word = v + m - 1
  BY ModSmall
<1> QED
  BY <1>1, AlignDownFacts DEF RoundUp

\* round_up of any value is a multiple and a size_t.
LEMMA RoundUpRange ==
  ASSUME Word \in Nat \ {0}, NEW v \in Int, NEW m \in Nat \ {0}
  PROVE  RoundUp(v, m) \in 0..(Word - 1) /\ RoundUp(v, m) % m = 0
<1>1. (v + m - 1) % Word \in 0..(Word - 1)
  BY ModRange
<1> QED
  BY <1>1, AlignDownFacts DEF RoundUp

-----------------------------------------------------------------------------
(* The invariant.                                                         *)

HandedOut == blocks \cup {pending[t] : t \in Pending}

\* The threads that will end the process when they use their block.
Doomed == {t \in Pending : pending[t].bytes > 0 /\ pending[t].begin < UsableBegin}

\* Either there is no pool and nothing of it, or the cursor is in the mapping,
\* or below it by no more than the doomed threads (and one padding) took.
Mapped ==
  \/ storage = NoStorage /\ cursor = 0 /\ maxAlloc = 0 /\ blocks = {} /\ Quiescent
  \/ /\ storage.begin \in Mappings
     /\ MappingEnd(storage) \in Address
     /\ MappingEnd(storage) % MaxAlign = 0
     /\ maxAlloc \in MaxAllocSizes
     /\ UsableBegin \in Nat /\ UsableBegin <= MappingEnd(storage)
     /\ UsableBegin % MaxAlign = 0
     /\ cursor <= MappingEnd(storage)
     /\ cursor % MaxAlign = 0
     /\ UsableBegin - (Cardinality(Doomed) + Slack) * MaxTake <= cursor

\* What is handed out lies between the cursor and the end of the mapping.
Within ==
  \A b \in HandedOut : cursor <= b.begin /\ BlockEnd(b) <= MappingEnd(storage)

\* Every thread has what it asked for.
Aligned ==
  \A t \in Pending : \E r \in Requests :
    pending[t].bytes = r.bytes /\ pending[t].begin % r.alignment = 0

Inv == PoolTypeOK /\ Mapped /\ Within /\ BlocksDisjoint /\ Aligned

-----------------------------------------------------------------------------
(* One allocation.                                                         *)

\* A positive multiple of a is at least a.
LEMMA PositiveMultiple ==
  ASSUME NEW x \in Nat, NEW a \in Nat \ {0}, x > 0, x % a = 0
  PROVE  a <= x
  BY ModSmall

\* What allocate takes off the cursor covers the block it returns, keeps the
\* cursor aligned, and pays for no more than the block needs unless the
\* alignment is strict.
LEMMA ReservationFacts ==
  ASSUME NEW r \in Requests, NEW c \in Address, c % MaxAlign = 0, MaxTake <= c,
         NEW res, res = Reservation(r.bytes, r.alignment),
         NEW begin, begin = AlignDownwardPoolCursor(c, r.bytes, r.alignment)
  PROVE  /\ res \in Nat /\ res <= MaxTake
         /\ (c - res) % MaxAlign = 0
         /\ begin \in Nat /\ c - res <= begin /\ begin + r.bytes <= c
         /\ \A u \in Nat : u % MaxAlign = 0 /\ u <= begin /\ r.alignment <= MaxAlign
                             => u <= c - res
         /\ begin % r.alignment = 0
         /\ r.bytes = 0 => res = 0
<1> USE DEF Address
<1>1. /\ Word \in Nat \ {0} /\ MaxAlign \in Nat \ {0}
      /\ r.bytes \in Nat /\ r.alignment \in Nat \ {0}
      /\ MaxAlign % r.alignment = 0 \/ r.alignment % MaxAlign = 0
      /\ MaxTake \in Nat /\ res <= MaxTake
      /\ r.bytes = 0 => r.alignment <= MaxAlign
      /\ r.bytes + Padding(r.alignment) + MaxAlign - 1 < Word
  BY LayoutAssumption, ClientAssumption, ReservationAssumption
<1> DEFINE pad == Padding(r.alignment)
<1>2. pad \in Nat
  BY <1>1 DEF Padding
<1> HIDE DEF pad
<1>3. res = AlignDown(r.bytes + pad + MaxAlign - 1, MaxAlign)
  <2>1. /\ r.bytes + pad + MaxAlign - 1 \in Nat
        /\ r.bytes + pad + MaxAlign - 1 < Word
    BY <1>1, <1>2 DEF pad
  <2>2. (r.bytes + pad + MaxAlign - 1) % Word = r.bytes + pad + MaxAlign - 1
    BY <1>1, <2>1, ModSmall
  <2> QED
    BY <2>2 DEF Reservation, pad
<1>4. /\ res \in Nat /\ res % MaxAlign = 0
      /\ r.bytes + pad <= res /\ res < r.bytes + pad + MaxAlign
  <2> DEFINE n == r.bytes + pad + MaxAlign - 1
  <2>1. n \in Nat /\ res = AlignDown(n, MaxAlign)
    BY <1>1, <1>2, <1>3
  <2>2. n = r.bytes + pad + MaxAlign - 1
    OBVIOUS
  <2> HIDE DEF n
  <2>3. res \in Nat /\ res % MaxAlign = 0 /\ res <= n /\ n < res + MaxAlign
    BY <1>1, <2>1, AlignDownFacts
  <2> QED
    BY <1>1, <1>2, <2>2, <2>3
<1>5. r.bytes <= c /\ c - r.bytes \in Nat /\ c - res \in Nat /\ c - res <= c - r.bytes
  BY <1>1, <1>2, <1>4
<1>6. begin = AlignDown(c - r.bytes, r.alignment)
  <2>1. (c - r.bytes) % Word = c - r.bytes
    BY <1>1, <1>5, ModSmall
  <2> QED
    BY <2>1 DEF AlignDownwardPoolCursor
<1>7. /\ begin \in Nat /\ begin <= c - r.bytes
      /\ c - r.bytes < begin + r.alignment /\ begin % r.alignment = 0
  <2> DEFINE raw == c - r.bytes
             a == r.alignment
  <2>1. raw \in Nat /\ a \in Nat \ {0} /\ begin = AlignDown(raw, a)
    BY <1>1, <1>5, <1>6
  <2> HIDE DEF raw, a
  <2>2. begin \in Nat /\ begin <= raw /\ raw < begin + a /\ begin % a = 0
    BY <2>1, AlignDownFacts
  <2> QED
    BY <2>2 DEF raw, a
<1>8. (c - res) % MaxAlign = 0
  <2>1. c \in Int /\ res \in Int /\ MaxAlign \in Nat \ {0} /\ res % MaxAlign = 0
    BY <1>1, <1>4
  <2> QED
    BY <2>1, MultipleSum
<1>9. c - res <= begin
  <2>1. CASE r.alignment <= MaxAlign
    <3>1. MaxAlign % r.alignment = 0
      <4>1. CASE r.alignment % MaxAlign = 0
        <5>1. r.alignment = MaxAlign
          BY <1>1, <2>1, <4>1, PositiveMultiple
        <5> QED
          BY <1>1, <4>1, <5>1
      <4> QED
        BY <1>1, <4>1
    <3>2. (c - res) % r.alignment = 0
      BY <1>1, <1>5, <1>8, <3>1, MultipleTrans
    <3> QED
      BY <1>1, <1>5, <1>6, <3>2, AlignDownGreatest
  <2>2. CASE r.alignment > MaxAlign
    <3>1. pad = r.alignment - 1
      BY <1>1, <2>2 DEF Padding, pad
    <3> QED
      BY <1>1, <1>4, <1>5, <1>7, <3>1
  <2> QED
    BY <1>1, <2>1, <2>2
<1>10. ASSUME NEW u \in Nat, u % MaxAlign = 0, u <= begin, r.alignment <= MaxAlign
       PROVE  u <= c - res
  <2> DEFINE low == c - res
  <2>1. pad = 0
    BY <1>1, <1>10 DEF Padding, pad
  <2>2. low \in Nat /\ low % MaxAlign = 0
    BY <1>5, <1>8
  <2>3. r.bytes <= c - u /\ res < r.bytes + MaxAlign /\ low = c - res
    BY <1>1, <1>4, <1>5, <1>7, <1>10, <2>1
  <2> HIDE DEF low
  <2>4. SUFFICES ASSUME low < u PROVE FALSE
    BY <1>10, <2>2, <2>3
  <2>5. (u - low) % MaxAlign = 0
    <3>1. u \in Int /\ low \in Int /\ MaxAlign \in Nat \ {0}
      BY <1>1, <2>2
    <3> QED
      BY <1>10, <2>2, <3>1, MultipleSum
  <2>6. MaxAlign <= u - low
    <3>1. u - low \in Nat /\ u - low > 0
      BY <2>2, <2>4
    <3> QED
      BY <1>1, <2>5, <3>1, PositiveMultiple
  <2> QED
    BY <1>1, <1>4, <1>10, <2>2, <2>3, <2>6
<1>11. r.bytes = 0 => res = 0
  <2> SUFFICES ASSUME r.bytes = 0 PROVE res = 0
    OBVIOUS
  <2>1. pad = 0
    BY <1>1 DEF Padding, pad
  <2>2. res < MaxAlign
    BY <1>1, <1>4, <2>1
  <2> QED
    BY <1>1, <1>4, <2>2, ModSmall
<1> QED
  BY <1>1, <1>4, <1>5, <1>7, <1>8, <1>9, <1>10, <1>11

-----------------------------------------------------------------------------
(* The invariant.                                                          *)

\* What the assumptions say of the constants.
LEMMA ConstantFacts ==
  /\ Word \in Nat \ {0} /\ PageSize \in Nat \ {0} /\ MaxAlign \in Nat \ {0}
  /\ MaxTake \in Nat
  /\ Slack \in {0, 1}
  /\ IsFiniteSet(Threads) /\ Cardinality(Threads) \in Nat
  /\ NoBlock \notin Block
  /\ \A m \in Mappings :
       /\ m \in Nat \ {0} /\ m % MaxAlign = 0
       /\ (Cardinality(Threads) + 1) * MaxTake < m
<1>1. /\ Word \in Nat \ {0} /\ PageSize \in Nat \ {0} /\ MaxAlign \in Nat \ {0}
      /\ PageSize % MaxAlign = 0
  BY LayoutAssumption
<1>2. MaxTake \in Nat /\ IsFiniteSet(Threads) /\ NoBlock \notin Block
  BY ClientAssumption
<1>3. Cardinality(Threads) \in Nat
  BY <1>2, FS_CardinalityType
<1>4. ASSUME NEW m \in Mappings
      PROVE  /\ m \in Nat \ {0} /\ m % MaxAlign = 0
             /\ (Cardinality(Threads) + 1) * MaxTake < m
  <2>1. m \in Nat /\ m % PageSize = 0 /\ (Cardinality(Threads) + 1) * MaxTake < m
    BY ClientAssumption
  <2>2. m % MaxAlign = 0
    <3>1. m \in Int /\ m % PageSize = 0 /\ PageSize % MaxAlign = 0
      BY <1>1, <2>1
    <3> QED
      BY <1>1, <3>1, MultipleTrans
  <2>3. (Cardinality(Threads) + 1) * MaxTake \in Nat
    BY <1>2, <1>3
  <2> QED
    BY <2>1, <2>2, <2>3
<1> QED
  BY <1>1, <1>2, <1>3, <1>4 DEF Slack

\* The doomed threads are some of the threads with a block in hand.
LEMMA DoomedFacts ==
  /\ IsFiniteSet(Pending) /\ IsFiniteSet(Doomed)
  /\ Cardinality(Doomed) \in Nat
  /\ Cardinality(Doomed) <= Cardinality(Threads)
  /\ \A t \in Threads \ Pending : Cardinality(Doomed) + 1 <= Cardinality(Threads)
<1>1. Doomed \subseteq Threads /\ Pending \subseteq Threads /\ IsFiniteSet(Threads)
  BY ConstantFacts DEF Doomed, Pending
<1>2. /\ IsFiniteSet(Pending) /\ IsFiniteSet(Doomed)
      /\ Cardinality(Doomed) <= Cardinality(Threads)
  BY <1>1, FS_Subset
<1>3. Cardinality(Doomed) \in Nat
  BY <1>2, FS_CardinalityType
<1>4. ASSUME NEW t \in Threads \ Pending
      PROVE  Cardinality(Doomed) + 1 <= Cardinality(Threads)
  <2>1. t \notin Doomed /\ Doomed \cup {t} \subseteq Threads
    BY <1>1 DEF Doomed
  <2>2. Cardinality(Doomed \cup {t}) = Cardinality(Doomed) + 1
    BY <1>2, <2>1, FS_AddElement
  <2>3. Cardinality(Doomed \cup {t}) <= Cardinality(Threads)
    BY <1>1, <2>1, FS_Subset
  <2> QED
    BY <2>2, <2>3
<1> QED
  BY <1>2, <1>3, <1>4

\* A pool not yet constructed has nothing handed out.
LEMMA InitInv == InitPool => Inv
<1> SUFFICES ASSUME InitPool PROVE Inv
  OBVIOUS
<1> USE DEF InitPool
<1>1. PoolTypeOK
  BY ConstantFacts DEF PoolTypeOK, NoStorage, Address
<1>2. Mapped
  BY DEF Mapped, Quiescent
<1>3. Pending = {} /\ HandedOut = {}
  BY DEF Pending, HandedOut
<1> QED
  BY <1>1, <1>2, <1>3 DEF Inv, Within, BlocksDisjoint, Aligned

\* A new pool has its cursor at the end of the mapping, above the guard.
LEMMA ConstructInv ==
  ASSUME Inv,
         NEW usable \in UsableSizes, NEW m \in MaxAllocSizes, NEW begin \in Mappings,
         Construct(usable, m, begin)
  PROVE  Inv'
<1> DEFINE guard == RoundUp(m, PageSize)
           room  == RoundUp(usable, PageSize)
<1>1. /\ storage = NoStorage /\ storage' = [begin |-> begin, bytes |-> room + guard]
      /\ begin + (room + guard) < Word
      /\ cursor' = MappingEnd(storage') /\ maxAlloc' = m
      /\ pending' = pending /\ blocks' = blocks /\ fate' = fate
  BY DEF Construct, MappingBytes, GuardBytes
<1>2. /\ Word \in Nat \ {0} /\ PageSize \in Nat \ {0} /\ MaxAlign \in Nat \ {0}
      /\ PageSize % MaxAlign = 0
  BY LayoutAssumption
<1>3. usable \in Nat /\ m \in Nat /\ m \in Address
  <2>1. usable \in Address /\ m \in Nat /\ m + PageSize - 1 < Word
    BY ClientAssumption
  <2> QED
    BY <1>2, <2>1 DEF Address
<1>4. begin \in Nat \ {0} /\ begin % MaxAlign = 0
  BY ConstantFacts
<1>5. /\ guard \in Nat /\ guard % MaxAlign = 0
      /\ room \in Nat /\ room % MaxAlign = 0
  <2>1. /\ guard \in Nat /\ guard % PageSize = 0
        /\ room \in Nat /\ room % PageSize = 0
    BY <1>2, <1>3, RoundUpRange
  <2> HIDE DEF guard, room
  <2>2. guard \in Int /\ room \in Int
    BY <2>1
  <2> QED
    BY <1>2, <2>1, <2>2, MultipleTrans
<1> HIDE DEF room
<1>6. UsableBegin' = begin + guard
  BY <1>1 DEF UsableBegin, GuardBytes
<1> HIDE DEF guard
<1>7. MappingEnd(storage') = begin + (room + guard)
  BY <1>1, <1>4 DEF MappingEnd
<1>8. (begin + guard) % MaxAlign = 0 /\ (begin + (room + guard)) % MaxAlign = 0
  <2>1. begin \in Int /\ guard \in Int /\ room \in Int /\ room + guard \in Int
    BY <1>4, <1>5
  <2>2. (begin + guard) % MaxAlign = 0 /\ (room + guard) % MaxAlign = 0
    BY <1>2, <1>4, <1>5, <2>1, MultipleSum
  <2> QED
    BY <1>2, <1>4, <2>1, <2>2, MultipleSum
<1>10. blocks = {} /\ Quiescent
  BY <1>1, ConstantFacts DEF Inv, Mapped, NoStorage
<1>11. Pending' = {} /\ HandedOut' = {} /\ Doomed' = {}
  BY <1>1, <1>10 DEF Quiescent, Pending, HandedOut, Doomed
<1>12. PoolTypeOK'
  <2>1. storage' # NoStorage
    BY <1>1, <1>4 DEF NoStorage
  <2>2. storage' \in [begin : Address, bytes : Address] /\ cursor' \in Address
    BY <1>1, <1>2, <1>4, <1>5, <1>7 DEF Address
  <2> QED
    BY <1>1, <1>3, <2>1, <2>2 DEF Inv, PoolTypeOK
<1>13. Mapped'
  <2>1. /\ begin + guard \in Nat /\ begin + guard <= begin + (room + guard)
        /\ begin + (room + guard) \in Address
    BY <1>1, <1>2, <1>4, <1>5 DEF Address
  <2> DEFINE depth == (Cardinality(Doomed') + Slack) * MaxTake
  <2>2. depth \in Nat
    <3>1. Cardinality(Doomed') = 0 /\ Slack \in Nat /\ MaxTake \in Nat
      BY <1>11, FS_EmptySet, ConstantFacts
    <3> QED
      BY <3>1
  <2> HIDE DEF depth
  <2>3. storage'.begin \in Mappings /\ cursor' = begin + (room + guard)
    BY <1>1, <1>7
  <2>4. UsableBegin' - depth <= cursor'
    BY <1>6, <2>1, <2>2, <2>3
  <2>5. Slack' = Slack
    BY DEF Slack
  <2> QED
    BY <1>1, <1>6, <1>7, <1>8, <2>1, <2>3, <2>4, <2>5 DEF Mapped, depth
<1> QED
  BY <1>1, <1>10, <1>11, <1>12, <1>13 DEF Inv, Within, BlocksDisjoint, Aligned

\* A block that was in hand is in use: the same blocks are handed out, and
\* the thread was not a doomed one.
LEMMA UseInv ==
  ASSUME Inv, NEW t \in Threads, Use(t)
  PROVE  Inv'
<1>1. /\ IsOpen /\ t \in Pending
      /\ ~Touches(pending[t], 0, UsableBegin)
      /\ blocks' = IF pending[t].bytes = 0 THEN blocks ELSE blocks \cup {pending[t]}
      /\ pending' = [pending EXCEPT ![t] = NoBlock]
      /\ storage' = storage /\ cursor' = cursor /\ maxAlloc' = maxAlloc /\ fate' = fate
  BY DEF Use, Pending
<1>2. PoolTypeOK /\ pending[t] \in Block
  BY <1>1 DEF Inv, PoolTypeOK, Pending
<1>3. /\ Pending' = Pending \ {t}
      /\ \A u \in Pending' : pending'[u] = pending[u]
  BY <1>1, <1>2 DEF Pending, PoolTypeOK
<1>4. HandedOut' \subseteq HandedOut
  BY <1>1, <1>3 DEF HandedOut
<1>5. UsableBegin' = UsableBegin /\ MappingEnd(storage)' = MappingEnd(storage)
  BY <1>1 DEF UsableBegin, MappingEnd, GuardBytes, RoundUp, AlignDown
<1>6. Doomed' = Doomed
  <2>1. t \notin Doomed
    BY <1>1, <1>2 DEF Doomed, Touches, BlockEnd, Block, Address
  <2> QED
    BY <1>3, <1>5, <2>1 DEF Doomed
<1>7. PoolTypeOK'
  BY <1>1, <1>2 DEF PoolTypeOK
<1>8. Mapped'
  <2>1. storage # NoStorage
    BY <1>1 DEF IsOpen
  <2> QED
    BY <1>1, <1>5, <1>6, <2>1 DEF Inv, Mapped, Slack
<1>9. Within'
  BY <1>1, <1>4, <1>5 DEF Inv, Within
<1>10. BlocksDisjoint'
  BY <1>1, <1>3 DEF Inv, BlocksDisjoint, Disjoint
<1>11. Aligned'
  BY <1>3 DEF Inv, Aligned
<1> QED
  BY <1>7, <1>8, <1>9, <1>10, <1>11 DEF Inv

\* reset takes the cursor back to the end and every block with it.
LEMMA ResetInv ==
  ASSUME Inv, Reset
  PROVE  Inv'
<1>1. /\ storage # NoStorage /\ Quiescent
      /\ cursor' = MappingEnd(storage) /\ blocks' = {}
      /\ storage' = storage /\ maxAlloc' = maxAlloc /\ pending' = pending /\ fate' = fate
  BY DEF Reset, IsOpen
<1>2. UsableBegin' = UsableBegin /\ MappingEnd(storage)' = MappingEnd(storage)
  BY <1>1 DEF UsableBegin, MappingEnd, GuardBytes, RoundUp, AlignDown
<1>3. Pending' = {} /\ HandedOut' = {} /\ Doomed' = {}
  BY <1>1 DEF Quiescent, Pending, HandedOut, Doomed
<1>4. PoolTypeOK'
  BY <1>1 DEF Inv, PoolTypeOK, Mapped
<1>5. Mapped'
  <2> DEFINE depth == (Cardinality(Doomed') + Slack) * MaxTake
  <2>1. depth \in Nat
    <3>1. Cardinality(Doomed') = 0 /\ Slack \in Nat /\ MaxTake \in Nat
      BY <1>3, FS_EmptySet, ConstantFacts
    <3> QED
      BY <3>1
  <2> HIDE DEF depth
  <2>2. /\ storage.begin \in Mappings
        /\ MappingEnd(storage) \in Address /\ MappingEnd(storage) \in Nat
        /\ MappingEnd(storage) % MaxAlign = 0
        /\ maxAlloc \in MaxAllocSizes
        /\ UsableBegin \in Nat /\ UsableBegin <= MappingEnd(storage)
        /\ UsableBegin % MaxAlign = 0
    BY <1>1, ConstantFacts DEF Inv, Mapped, Address
  <2>3. UsableBegin' - depth <= cursor' /\ cursor' <= MappingEnd(storage')
    BY <1>1, <1>2, <2>1, <2>2
  <2>4. Slack' = Slack
    BY DEF Slack
  <2> QED
    BY <1>1, <1>2, <2>2, <2>3, <2>4 DEF Mapped, depth
<1> QED
  BY <1>1, <1>3, <1>4, <1>5 DEF Inv, Within, BlocksDisjoint, Aligned

\* release leaves the state of a pool without storage.
LEMMA ReleaseInv ==
  ASSUME Inv, Release
  PROVE  Inv'
<1>1. /\ Quiescent
      /\ storage' = NoStorage /\ cursor' = 0 /\ maxAlloc' = 0 /\ blocks' = {}
      /\ pending' = pending /\ fate' = fate
  BY DEF Release
<1>2. Pending' = {} /\ HandedOut' = {} /\ Quiescent'
  BY <1>1 DEF Quiescent, Pending, HandedOut
<1>3. PoolTypeOK'
  BY <1>1, ConstantFacts DEF Inv, PoolTypeOK, NoStorage, Address
<1> QED
  BY <1>1, <1>2, <1>3 DEF Inv, Mapped, Within, BlocksDisjoint, Aligned

\* Nothing changes but the fate of the process.
LEMMA IdleInv ==
  ASSUME Inv, fate' \in {"running", "crashed", "lost"},
         UNCHANGED <<storage, cursor, maxAlloc, pending, blocks>>
  PROVE  Inv'
<1>1. /\ storage' = storage /\ cursor' = cursor /\ maxAlloc' = maxAlloc
      /\ pending' = pending /\ blocks' = blocks
  OBVIOUS
<1>2. /\ UsableBegin' = UsableBegin /\ MappingEnd(storage)' = MappingEnd(storage)
      /\ Pending' = Pending
  BY <1>1 DEF UsableBegin, MappingEnd, GuardBytes, RoundUp, AlignDown, Pending
<1>3. HandedOut' = HandedOut /\ Doomed' = Doomed /\ Quiescent' = Quiescent
  BY <1>1, <1>2 DEF HandedOut, Doomed, Quiescent
<1>4. PoolTypeOK'
  BY <1>1 DEF Inv, PoolTypeOK
<1>5. Mapped'
  BY <1>1, <1>2, <1>3 DEF Inv, Mapped, Slack
<1>6. Within' /\ BlocksDisjoint' /\ Aligned'
  BY <1>1, <1>2, <1>3 DEF Inv, Within, BlocksDisjoint, Disjoint, Aligned
<1> QED
  BY <1>4, <1>5, <1>6 DEF Inv

\* The new block lies between the new cursor and the old one, below all
\* others; and when it lowers the cursor past the usable area, its thread is
\* one more doomed thread, unless only the padding of a strict alignment did.
LEMMA AllocateInv ==
  ASSUME Inv, NEW t \in Threads, NEW r \in Requests, Allocate(t, r)
  PROVE  Inv'
<1> DEFINE res == Reservation(r.bytes, r.alignment)
           begin == AlignDownwardPoolCursor(cursor, r.bytes, r.alignment)
           new == [begin |-> begin, bytes |-> r.bytes]
           end == MappingEnd(storage)
           n == Cardinality(Doomed)
<1>1. /\ storage # NoStorage /\ pending[t] = NoBlock
      /\ cursor' = (cursor - res) % Word
      /\ pending' = [pending EXCEPT ![t] = new]
      /\ storage' = storage /\ maxAlloc' = maxAlloc /\ blocks' = blocks /\ fate' = fate
  BY DEF Allocate, IsOpen
<1>2. /\ PoolTypeOK /\ Within /\ BlocksDisjoint
      /\ storage.begin \in Mappings
      /\ end \in Nat /\ end < Word /\ end % MaxAlign = 0
      /\ maxAlloc \in MaxAllocSizes
      /\ UsableBegin \in Nat /\ UsableBegin <= end /\ UsableBegin % MaxAlign = 0
      /\ cursor \in Nat /\ cursor <= end /\ cursor % MaxAlign = 0
      /\ UsableBegin - (n + Slack) * MaxTake <= cursor
  BY <1>1, ConstantFacts DEF Inv, Mapped, PoolTypeOK, Address
<1>3. r.bytes \in Nat /\ r.alignment \in Nat \ {0} /\ Word \in Nat \ {0}
  BY ClientAssumption, LayoutAssumption
<1>4. t \notin Pending /\ n \in Nat /\ n + 1 <= Cardinality(Threads)
  BY <1>1, DoomedFacts DEF Pending
<1>5. MaxTake \in Nat /\ Slack \in {0, 1} /\ Cardinality(Threads) \in Nat
  BY ConstantFacts
<1> HIDE DEF n, end
\* The cursor stays far from 0.
<1>6. MaxTake <= cursor /\ MaxTake < cursor
  <2>1. storage.begin <= UsableBegin /\ storage.begin \in Nat
    <3>1. GuardBytes(maxAlloc) \in Nat
      <4>1. maxAlloc \in Int /\ PageSize \in Nat \ {0}
        BY <1>2, ClientAssumption, LayoutAssumption
      <4> QED
        BY <1>3, <4>1, RoundUpRange DEF GuardBytes
    <3> QED
      BY <1>2, <3>1, ConstantFacts DEF UsableBegin
  <2>2. (Cardinality(Threads) + 1) * MaxTake < storage.begin
    BY <1>2, ConstantFacts
  <2>3. (n + Slack) * MaxTake <= Cardinality(Threads) * MaxTake
    BY <1>4, <1>5
  <2>4. (Cardinality(Threads) + 1) * MaxTake = (Cardinality(Threads) * MaxTake) + MaxTake
    BY <1>5
  <2>5. (n + Slack) * MaxTake \in Nat /\ Cardinality(Threads) * MaxTake \in Nat
    BY <1>4, <1>5
  <2> QED
    BY <1>2, <1>5, <2>1, <2>2, <2>3, <2>4, <2>5
<1>7. /\ res \in Nat /\ res <= MaxTake
      /\ (cursor - res) % MaxAlign = 0
      /\ begin \in Nat /\ cursor - res <= begin /\ begin + r.bytes <= cursor
      /\ UsableBegin <= begin /\ r.alignment <= MaxAlign => UsableBegin <= cursor - res
      /\ begin % r.alignment = 0
      /\ r.bytes = 0 => res = 0
  <2>1. cursor \in Address
    BY <1>2 DEF PoolTypeOK
  <2> QED
    BY <1>2, <1>6, <2>1, ReservationFacts
<1> HIDE DEF res, begin
<1>8. cursor' = cursor - res /\ cursor' \in Nat /\ cursor' > 0
  <2>1. res < cursor /\ cursor < Word
    BY <1>2, <1>3, <1>5, <1>6, <1>7
  <2>2. cursor - res \in Nat /\ cursor - res < Word /\ cursor - res > 0
    BY <1>2, <1>3, <1>7, <2>1
  <2> QED
    BY <1>1, <1>3, <2>2, ModSmall
<1>9. new \in Block /\ new # NoBlock
  <2>1. begin \in Address
    BY <1>2, <1>3, <1>7 DEF Address
  <2> QED
    BY <1>3, <2>1, ConstantFacts DEF Block
<1>10. /\ Pending' = Pending \cup {t}
       /\ pending'[t] = new
       /\ \A u \in Pending : pending'[u] = pending[u]
  BY <1>1, <1>2, <1>4, <1>9 DEF Pending, PoolTypeOK
<1>11. HandedOut' = HandedOut \cup {new}
  BY <1>1, <1>4, <1>10 DEF HandedOut
<1>12. UsableBegin' = UsableBegin /\ MappingEnd(storage)' = end
  BY <1>1 DEF UsableBegin, MappingEnd, GuardBytes, RoundUp, AlignDown, end
<1>13. PoolTypeOK'
  <2>1. cursor' \in Address
    BY <1>2, <1>3, <1>7, <1>8 DEF Address
  <2> QED
    BY <1>1, <1>2, <1>9, <2>1 DEF PoolTypeOK
<1>14. Doomed' = IF r.bytes > 0 /\ begin < UsableBegin THEN Doomed \cup {t} ELSE Doomed
  BY <1>4, <1>10, <1>12 DEF Doomed
<1>15. UsableBegin - (Cardinality(Doomed') + Slack) * MaxTake <= cursor'
  <2>1. CASE r.bytes > 0 /\ begin < UsableBegin
    <3>1. Cardinality(Doomed') = n + 1
      <4>1. IsFiniteSet(Doomed) /\ t \notin Doomed
        BY <1>4, DoomedFacts DEF Doomed
      <4> QED
        BY <1>14, <2>1, <4>1, FS_AddElement DEF n
    <3>2. ((n + 1) + Slack) * MaxTake = ((n + Slack) * MaxTake) + MaxTake
      BY <1>4, <1>5
    <3>3. (n + Slack) * MaxTake \in Nat
      BY <1>4, <1>5
    <3> QED
      BY <1>2, <1>5, <1>7, <1>8, <3>1, <3>2, <3>3
  <2>2. CASE r.bytes = 0
    BY <1>2, <1>7, <1>8, <1>14, <2>2 DEF n
  <2>3. CASE r.bytes > 0 /\ UsableBegin <= begin
    <3>1. Cardinality(Doomed') = n
      BY <1>2, <1>7, <1>14, <2>3 DEF n
    <3>2. UsableBegin < cursor
      BY <1>2, <1>3, <1>7, <2>3
    <3>3. (n + Slack) * MaxTake \in Nat
      BY <1>4, <1>5
    <3>4. CASE Slack = 0
      <4>1. r.alignment <= MaxAlign
        BY <3>4 DEF Slack
      <4> QED
        BY <1>2, <1>7, <1>8, <2>3, <3>1, <3>3, <4>1
    <3>5. CASE Slack = 1
      <4>1. MaxTake <= (n + Slack) * MaxTake
        BY <1>4, <1>5, <3>5
      <4> QED
        BY <1>2, <1>5, <1>7, <1>8, <3>1, <3>2, <3>3, <4>1
    <3> QED
      BY <1>5, <3>4, <3>5
  <2> QED
    BY <1>2, <1>3, <1>7, <2>1, <2>2, <2>3
<1>16. Mapped'
  <2>1. Slack' = Slack
    BY DEF Slack
  <2>2. cursor' <= end /\ cursor' % MaxAlign = 0
    BY <1>2, <1>7, <1>8
  <2>3. end \in Address
    BY <1>2, <1>3 DEF Address
  <2> QED
    BY <1>1, <1>2, <1>12, <1>15, <2>1, <2>2, <2>3 DEF Mapped
<1>17. \A b \in HandedOut : cursor <= b.begin /\ b.begin \in Nat /\ b.bytes \in Nat
  BY <1>2 DEF Within, HandedOut, Pending, PoolTypeOK, Block, Address
<1>18. Within'
  <2>1. cursor' <= new.begin /\ BlockEnd(new) <= end
    BY <1>2, <1>3, <1>7, <1>8 DEF BlockEnd
  <2>2. ASSUME NEW b \in HandedOut
        PROVE  cursor' <= b.begin /\ BlockEnd(b) <= end
    <3>1. cursor' <= cursor
      BY <1>2, <1>7, <1>8
    <3> QED
      BY <1>2, <1>8, <1>17, <3>1 DEF Within, end
  <2> QED
    BY <1>11, <1>12, <2>1, <2>2 DEF Within
<1>19. BlocksDisjoint'
  <2>1. ASSUME NEW b \in HandedOut
        PROVE  Disjoint(new, b) /\ Disjoint(b, new)
    BY <1>2, <1>3, <1>7, <1>17 DEF Disjoint, BlockEnd
  <2>2. \A b \in blocks : b \in HandedOut
    BY DEF HandedOut
  <2>3. \A u \in Pending : pending[u] \in HandedOut
    BY DEF HandedOut
  <2> QED
    BY <1>1, <1>2, <1>4, <1>10, <2>1, <2>2, <2>3 DEF BlocksDisjoint
<1>20. Aligned'
  BY <1>7, <1>10 DEF Inv, Aligned
<1> QED
  BY <1>13, <1>16, <1>18, <1>19, <1>20 DEF Inv

\* Every step keeps the invariant.
LEMMA NextInv == Inv /\ [Next]_vars => Inv'
<1> SUFFICES ASSUME Inv, [Next]_vars PROVE Inv'
  OBVIOUS
<1>1. CASE \E usable \in UsableSizes, m \in MaxAllocSizes, begin \in Mappings :
             Construct(usable, m, begin)
  BY <1>1, ConstructInv
<1>2. ASSUME NEW t \in Threads, Use(t) PROVE Inv'
  BY <1>2, UseInv
<1>3. ASSUME NEW t \in Threads, UseOverflow(t) PROVE Inv'
  BY <1>3, IdleInv DEF UseOverflow
<1>4. ASSUME NEW t \in Threads, NEW r \in Requests, Allocate(t, r) PROVE Inv'
  BY <1>4, AllocateInv
<1>5. CASE Reset
  BY <1>5, ResetInv
<1>6. CASE Release
  BY <1>6, ReleaseInv
<1>7. CASE UNCHANGED vars
  BY <1>7, IdleInv DEF vars, poolVars, Inv, PoolTypeOK
<1> QED
  BY <1>1, <1>2, <1>3, <1>4, <1>5, <1>6, <1>7 DEF Next, Ended

\* The strengthened invariant holds in every reachable state.
THEOREM Invariance == Spec => []Inv
<1>1. Spec => Inv /\ [][Next]_vars
  BY InitInv DEF Spec
<1> QED
  BY <1>1, NextInv, PTL DEF Spec

-----------------------------------------------------------------------------
(* What follows from it.                                                   *)

\* The fields of the pool and the blocks handed out are what the code's types
\* say, in particular no address leaves the address space.
THEOREM TypeCorrect == Spec => []TypeOK
<1>1. Inv => TypeOK
  BY DEF Inv, TypeOK
<1> QED
  BY <1>1, Invariance, PTL

\* No byte is handed out twice, for any number of threads and any requests.
THEOREM NoByteTwice == Spec => []BlocksDisjoint
<1>1. Inv => BlocksDisjoint
  BY DEF Inv
<1> QED
  BY <1>1, Invariance, PTL

\* While something is handed out the cursor is where the doomed threads say,
\* and the guard is at least max_alloc_size bytes.
LEMMA HandedOutFacts ==
  ASSUME Inv, HandedOut # {}
  PROVE  /\ storage.begin \in Nat \ {0} /\ MappingEnd(storage) \in Nat
         /\ cursor \in Nat /\ cursor > 0
         /\ maxAlloc \in Nat
         /\ storage.begin + maxAlloc <= UsableBegin /\ UsableBegin \in Nat
         /\ UsableBegin - (Cardinality(Threads) + Slack) * MaxTake <= cursor
         /\ \A b \in HandedOut : b.begin \in Nat /\ b.bytes \in Nat
<1> DEFINE n == Cardinality(Doomed)
           all == Cardinality(Threads)
<1>1. \A b \in HandedOut : b.begin \in Nat /\ b.bytes \in Nat
  BY DEF Inv, HandedOut, Pending, PoolTypeOK, Block, Address
<1>2. /\ storage.begin \in Mappings /\ maxAlloc \in MaxAllocSizes
      /\ UsableBegin \in Nat /\ MappingEnd(storage) \in Nat
      /\ UsableBegin - (n + Slack) * MaxTake <= cursor /\ cursor \in Nat
  <2>1. ~(blocks = {} /\ Quiescent)
    BY DEF HandedOut, Pending, Quiescent
  <2> QED
    BY <2>1 DEF Inv, Mapped, PoolTypeOK, Address
<1>3. storage.begin \in Nat \ {0} /\ (all + 1) * MaxTake < storage.begin
  BY <1>2, ConstantFacts
<1>4. maxAlloc \in Nat /\ storage.begin + maxAlloc <= UsableBegin
  <2>1. maxAlloc \in Nat /\ maxAlloc + PageSize - 1 < Word
    BY <1>2, ClientAssumption
  <2>2. GuardBytes(maxAlloc) \in Nat /\ maxAlloc <= GuardBytes(maxAlloc)
    BY <2>1, ConstantFacts, RoundUpFacts DEF GuardBytes
  <2> QED
    BY <1>3, <2>1, <2>2 DEF UsableBegin
<1>5. /\ n \in Nat /\ all \in Nat /\ n <= all
      /\ MaxTake \in Nat /\ Slack \in {0, 1}
  BY DoomedFacts, ConstantFacts
<1> HIDE DEF n, all
<1>6. /\ (n + Slack) * MaxTake <= (all + Slack) * MaxTake
      /\ (all + Slack) * MaxTake <= (all + 1) * MaxTake
      /\ (n + Slack) * MaxTake \in Nat /\ (all + Slack) * MaxTake \in Nat
      /\ (all + 1) * MaxTake \in Nat
  BY <1>5
<1>7. UsableBegin - (all + Slack) * MaxTake <= cursor /\ cursor > 0
  BY <1>2, <1>3, <1>4, <1>6
<1> QED
  BY <1>1, <1>2, <1>3, <1>4, <1>7 DEF all

\* With as much guard as the threads can overflow by, no block handed out
\* begins below the mapping.
LEMMA GuardLemma == Inv => OverflowHitsGuard
<1> SUFFICES ASSUME Inv, GuardSuffices, NEW t \in Pending, pending[t].bytes > 0
             PROVE  storage.begin <= pending[t].begin
  BY DEF OverflowHitsGuard
<1> DEFINE need == (Cardinality(Threads) + Slack) * MaxTake
<1>1. pending[t] \in HandedOut
  BY DEF HandedOut
<1>2. need \in Nat /\ need <= maxAlloc
  <2>1. Cardinality(Threads) \in Nat /\ Slack \in Nat /\ MaxTake \in Nat
    BY ConstantFacts
  <2> QED
    BY <2>1 DEF GuardSuffices
<1>3. /\ storage.begin \in Nat /\ UsableBegin \in Nat /\ maxAlloc \in Nat
      /\ cursor \in Nat /\ pending[t].begin \in Nat
      /\ storage.begin + maxAlloc <= UsableBegin
      /\ UsableBegin - need <= cursor
  BY <1>1, HandedOutFacts
<1>4. cursor <= pending[t].begin
  BY <1>1 DEF Inv, Within
<1> HIDE DEF need
<1> QED
  BY <1>2, <1>3, <1>4

\* With a guard for one request of every thread, a program that takes more
\* than there is touches the guard before it touches foreign memory.
THEOREM EveryOverflowCaught == Spec => []OverflowHitsGuard
  BY GuardLemma, Invariance, PTL

\* used_bytes() covers everything handed out.
THEOREM UsedBytesSuffice == Spec => []UsedBytesCoverBlocks
<1>1. ASSUME Inv, NEW b \in HandedOut, b.bytes > 0
      PROVE  MappingEnd(storage) - b.begin <= UsedBytes(cursor, storage)
  <2>1. /\ storage.begin # 0 /\ cursor # 0 /\ cursor \in Nat
        /\ MappingEnd(storage) \in Nat /\ b.begin \in Nat /\ b.bytes \in Nat
    BY <1>1, HandedOutFacts
  <2>2. cursor <= b.begin /\ b.begin + b.bytes <= MappingEnd(storage)
    BY <1>1 DEF Inv, Within, BlockEnd
  <2>3. cursor < MappingEnd(storage)
    BY <1>1, <2>1, <2>2
  <2> QED
    BY <2>1, <2>2, <2>3 DEF UsedBytes
<1>2. Inv => UsedBytesCoverBlocks
  BY <1>1 DEF UsedBytesCoverBlocks, HandedOut
<1> QED
  BY <1>2, Invariance, PTL

-----------------------------------------------------------------------------
(* The pool implements Arena.                                              *)

\* Released, the pool maps to a closed arena with nothing in it.
LEMMA NoStorageMaps ==
  MappingEnd(NoStorage) = 0 /\ NoStorage.begin + GuardBytes(0) = 0
<1>1. Word \in Nat \ {0} /\ PageSize \in Nat \ {0} /\ Word % PageSize = 0
  BY LayoutAssumption
<1>2. PageSize <= Word
  <2>1. Word \in Nat /\ Word > 0
    BY <1>1
  <2> QED
    BY <1>1, <2>1, PositiveMultiple
<1>3. PageSize - 1 \in Nat /\ PageSize - 1 < PageSize /\ PageSize - 1 < Word
  BY <1>1, <1>2
<1>4. (PageSize - 1) % Word = PageSize - 1 /\ (PageSize - 1) % PageSize = PageSize - 1
  BY <1>1, <1>3, ModSmall
<1>5. 0 + PageSize - 1 = PageSize - 1
  BY <1>1
<1>6. GuardBytes(0) = 0
  BY <1>1, <1>4, <1>5 DEF GuardBytes, RoundUp, AlignDown
<1> QED
  BY <1>6 DEF MappingEnd, NoStorage

\* The pool starts as a closed arena.
LEMMA InitArena == InitPool => Promise!Init
  BY NoStorageMaps DEF InitPool, Promise!Init, UsableBegin, GuardSuffices

\* The first use of a block is the arena issuing it; an empty block is nothing.
LEMMA UseArena ==
  ASSUME Inv, NEW t \in Threads, Use(t)
  PROVE  (\E r \in Requests : Promise!Issue(r)) \/ UNCHANGED Promise!vars
<1>1. /\ IsOpen /\ t \in Pending
      /\ ~Touches(pending[t], 0, UsableBegin)
      /\ blocks' = IF pending[t].bytes = 0 THEN blocks ELSE blocks \cup {pending[t]}
      /\ storage' = storage /\ maxAlloc' = maxAlloc /\ fate' = fate
  BY DEF Use, Pending
<1>2. /\ UsableBegin' = UsableBegin /\ MappingEnd(storage)' = MappingEnd(storage)
      /\ GuardSuffices' = GuardSuffices
  BY <1>1 DEF UsableBegin, MappingEnd, GuardBytes, RoundUp, AlignDown,
              GuardSuffices, Slack
<1>3. CASE pending[t].bytes = 0
  BY <1>1, <1>2, <1>3 DEF Promise!vars
<1>4. CASE pending[t].bytes # 0
  <2>1. pending[t] \in HandedOut
    BY <1>1 DEF HandedOut
  <2>2. /\ pending[t].begin \in Nat /\ pending[t].bytes \in Nat
        /\ UsableBegin \in Nat /\ MappingEnd(storage) \in Nat
        /\ pending[t].begin + pending[t].bytes <= MappingEnd(storage)
    BY <2>1, HandedOutFacts DEF Inv, Within, BlockEnd
  <2>3. UsableBegin <= pending[t].begin
    BY <1>1, <1>4, <2>2 DEF Touches, BlockEnd
  <2>4. pending[t] = [begin |-> pending[t].begin, bytes |-> pending[t].bytes]
    BY <1>1 DEF Inv, PoolTypeOK, Pending, Block
  <2>5. PICK r \in Requests : /\ pending[t].bytes = r.bytes
                              /\ pending[t].begin % r.alignment = 0
    BY <1>1 DEF Inv, Aligned
  <2>6. pending[t].begin \in UsableBegin .. (MappingEnd(storage) - r.bytes)
    BY <2>2, <2>3, <2>5
  <2>7. \A other \in blocks : Promise!Apart(pending[t], other)
    BY <1>1 DEF Inv, BlocksDisjoint, Disjoint, BlockEnd, Promise!Apart
  <2>8. r.bytes > 0
    BY <1>4, <2>2, <2>5
  <2>9. Promise!Issue(r)
    BY <1>1, <1>2, <1>4, <2>4, <2>5, <2>6, <2>7, <2>8 DEF Promise!Issue, IsOpen
  <2> QED
    BY <2>9
<1> QED
  BY <1>3, <1>4

\* Touching the guard is a crash of the arena; missing it is a loss, which
\* needs a guard that does not suffice.
LEMMA UseOverflowArena ==
  ASSUME Inv, NEW t \in Threads, UseOverflow(t)
  PROVE  Promise!Crash \/ Promise!Lose
<1>1. /\ IsOpen /\ t \in Pending
      /\ Touches(pending[t], 0, UsableBegin)
      /\ fate' = IF pending[t].begin < storage.begin THEN "lost" ELSE "crashed"
      /\ storage' = storage /\ maxAlloc' = maxAlloc /\ blocks' = blocks
  BY DEF UseOverflow, Pending
<1>2. /\ UsableBegin' = UsableBegin /\ MappingEnd(storage)' = MappingEnd(storage)
      /\ GuardSuffices' = GuardSuffices
  BY <1>1 DEF UsableBegin, MappingEnd, GuardBytes, RoundUp, AlignDown,
              GuardSuffices, Slack
<1>3. CASE pending[t].begin < storage.begin
  <2>1. pending[t].begin \in Nat /\ storage.begin \in Nat
    <3>1. pending[t] \in HandedOut
      BY <1>1 DEF HandedOut
    <3> QED
      BY <3>1, HandedOutFacts
  <2>2. ~GuardSuffices
    <3>1. ~(storage.begin <= pending[t].begin)
      BY <1>3, <2>1
    <3>2. pending[t].bytes > 0
      BY <1>1 DEF Touches
    <3> QED
      BY <1>1, <3>1, <3>2, GuardLemma DEF OverflowHitsGuard
  <2> QED
    BY <1>1, <1>2, <1>3, <2>2 DEF Promise!Lose, IsOpen
<1>4. CASE ~(pending[t].begin < storage.begin)
  BY <1>1, <1>2, <1>4 DEF Promise!Crash, IsOpen
<1> QED
  BY <1>3, <1>4

\* Every other step is a step of the arena too, or a stutter: allocate is one.
LEMMA NextArena == Inv /\ Inv' /\ [Next]_vars => [Promise!Next]_(Promise!vars)
<1> SUFFICES ASSUME Inv, Inv', [Next]_vars PROVE [Promise!Next]_(Promise!vars)
  OBVIOUS
<1>1. ASSUME NEW usable \in UsableSizes, NEW m \in MaxAllocSizes, NEW begin \in Mappings,
             Construct(usable, m, begin)
      PROVE  Promise!Open \/ UNCHANGED Promise!vars
  <2>1. /\ storage = NoStorage /\ storage'.begin = begin
        /\ blocks' = blocks /\ fate' = fate /\ fate = "running"
    BY <1>1 DEF Construct
  <2>2. storage'.begin \in Nat \ {0}
    BY <2>1, ConstantFacts
  <2>3. storage' # NoStorage /\ blocks = {}
    BY <2>1, <2>2, ConstantFacts DEF NoStorage, Inv, Mapped
  <2>4. UsableBegin' <= MappingEnd(storage')
    BY <2>3 DEF Inv, Mapped
  <2> QED
    BY <2>1, <2>3, <2>4 DEF Promise!Open, GuardSuffices
<1>2. ASSUME NEW t \in Threads, Use(t)
      PROVE  (\E r \in Requests : Promise!Issue(r)) \/ UNCHANGED Promise!vars
  BY <1>2, UseArena
<1>3. ASSUME NEW t \in Threads, UseOverflow(t)
      PROVE  Promise!Crash \/ Promise!Lose
  BY <1>3, UseOverflowArena
<1>4. ASSUME storage' = storage, maxAlloc' = maxAlloc, blocks' = blocks, fate' = fate
      PROVE  UNCHANGED Promise!vars
  BY <1>4 DEF Promise!vars, UsableBegin, MappingEnd, GuardBytes, RoundUp, AlignDown,
              GuardSuffices, Slack
<1>5. ASSUME NEW t \in Threads, NEW r \in Requests, Allocate(t, r)
      PROVE  UNCHANGED Promise!vars
  BY <1>4, <1>5 DEF Allocate
<1>6. ASSUME Reset
      PROVE  Promise!Reset
  BY <1>6 DEF Reset, IsOpen, Promise!Reset, UsableBegin, MappingEnd, GuardBytes,
              RoundUp, AlignDown, GuardSuffices, Slack
<1>7. ASSUME Release
      PROVE  Promise!Close
  <2>1. /\ storage # NoStorage /\ fate = "running" /\ storage' = NoStorage
        /\ maxAlloc' = 0 /\ blocks' = {} /\ fate' = fate
    BY <1>7 DEF Release, IsOpen
  <2>2. UsableBegin' = 0 /\ MappingEnd(storage') = 0
    BY <2>1, NoStorageMaps DEF UsableBegin
  <2> QED
    BY <2>1, <2>2 DEF Promise!Close, GuardSuffices
<1>8. ASSUME UNCHANGED vars
      PROVE  UNCHANGED Promise!vars
  BY <1>4, <1>8 DEF vars, poolVars
<1> QED
  BY <1>1, <1>2, <1>3, <1>5, <1>6, <1>7, <1>8 DEF Next, Ended, Promise!Next

\* The pool, with its cursor and its threads, implements the arena.
THEOREM Refinement == Spec => ImplementsArena
<1>1. Spec => Promise!Init
  BY InitArena DEF Spec
<1> QED
  BY <1>1, NextArena, Invariance, PTL DEF Spec, ImplementsArena, Promise!Spec
=============================================================================

------------------------- MODULE PoolLifetimeProofs -------------------------
(***************************************************************************)
(* PoolLifetime, for any set of pools and of mappings and a registry of    *)
(* any size: pools own their mappings uniquely, and nothing else that is   *)
(* kept about a mapping (its cursor, guard and place in the registry) is   *)
(* ever left behind.                                                       *)
(***************************************************************************)
EXTENDS PoolLifetime, TLAPS

\* The pools s, of whose mappings the program holds h[m] blocks each.
Sound(s, h) ==
  /\ s \in State
  /\ h \in [Mappings -> 0..MaxBlocks]
  /\ \A p \in Pools :
       s.cursor[p] = IF s.storage[p] = Null THEN NoCursor
                     ELSE [in |-> s.storage[p], above |-> h[s.storage[p]]]
  /\ \A p, q \in Pools : s.storage[p] = s.storage[q] /\ s.storage[p] # Null => p = q
  /\ \A m \in Mappings : m \in s.mapped <=> \E p \in Pools : s.storage[p] = m
  /\ s.guarded = s.mapped
  /\ s.listed \subseteq s.mapped
  /\ \A m \in Mappings \ s.mapped : h[m] = 0

\* What the program still holds when the pools are s.
Left(s, h) == [m \in Mappings |-> IF m \in s.mapped THEN h[m] ELSE 0]

Inv ==
  /\ alive \subseteq Pools
  /\ Sound(state, held)
  /\ \A p \in Pools \ alive : state.storage[p] = Null

-----------------------------------------------------------------------------
(* The private operations.                                                 *)

\* Of sound pools nothing is lost.
LEMMA LeftSame ==
  ASSUME NEW s, NEW h, Sound(s, h)
  PROVE  Left(s, h) = h
  BY DEF Sound, Left

\* Released, a pool owns nothing and its mapping is nowhere.
LEMMA ReleaseSound ==
  ASSUME NEW s, NEW h, Sound(s, h), NEW p \in Pools
  PROVE  LET r == ReleasePool(s, p)
         IN  /\ Sound(r, Left(r, h))
             /\ r.storage = [s.storage EXCEPT ![p] = Null]
             /\ r.mapped = s.mapped \ {s.storage[p]}
             /\ r.listed = s.listed \ {s.storage[p]}
<1> DEFINE r == ReleasePool(s, p)
           m == s.storage[p]
<1>1. s \in State /\ m \in Mappings \cup {Null} /\ Null \notin Mappings
  BY LifetimeAssumption DEF Sound, State
<1>2. /\ r \in State
      /\ r.storage = [s.storage EXCEPT ![p] = Null]
      /\ r.cursor = [s.cursor EXCEPT ![p] = NoCursor]
      /\ r.mapped = s.mapped \ {m}
      /\ r.guarded = s.guarded \ {m}
      /\ r.listed = s.listed \ {m}
  <2>1. NoCursor \in Cursor
    BY LifetimeAssumption DEF NoCursor, Cursor
  <2>2. CASE m = Null
    <3>1. r = [s EXCEPT !.cursor[p] = NoCursor]
      BY <2>2 DEF ReleasePool, ReleaseStorage
    <3> QED
      BY <1>1, <2>1, <2>2, <3>1 DEF State
  <2>3. CASE m # Null
    <3> DEFINE u == Munmap(UnregisterGuard(s, m), m)
               v == [u EXCEPT !.storage[p] = Null]
    <3>1. /\ u \in State
          /\ u.storage = s.storage /\ u.cursor = s.cursor
          /\ u.mapped = s.mapped \ {m} /\ u.guarded = s.guarded \ {m}
          /\ u.listed = s.listed \ {m}
      BY <1>1 DEF State, Munmap, UnregisterGuard
    <3>2. r = [v EXCEPT !.cursor[p] = NoCursor]
      BY <2>3 DEF ReleasePool, ReleaseStorage
    <3> HIDE DEF u, r
    <3>3. /\ v \in State
          /\ v.storage = [s.storage EXCEPT ![p] = Null] /\ v.cursor = s.cursor
          /\ v.mapped = s.mapped \ {m} /\ v.guarded = s.guarded \ {m}
          /\ v.listed = s.listed \ {m}
      BY <3>1 DEF State
    <3> HIDE DEF v
    <3> QED
      BY <2>1, <3>2, <3>3 DEF State
  <2> QED
    BY <2>2, <2>3
<1> HIDE DEF r
<1> DEFINE left == Left(r, h)
<1>3. left = [x \in Mappings |-> IF x \in s.mapped /\ x # m THEN h[x] ELSE 0]
  BY <1>2 DEF Left
<1> HIDE DEF left
<1>4. left \in [Mappings -> 0..MaxBlocks]
  BY <1>3, LifetimeAssumption DEF Sound
<1>5. \A q \in Pools : s.storage[q] # Null /\ q # p => s.storage[q] # m
  BY DEF Sound
<1>6. \A x \in Mappings : x \in r.mapped <=> \E q \in Pools : r.storage[q] = x
  BY <1>1, <1>2, <1>5 DEF Sound, State
<1>7. ASSUME NEW q \in Pools
      PROVE  r.cursor[q] = IF r.storage[q] = Null THEN NoCursor
                           ELSE [in |-> r.storage[q], above |-> left[r.storage[q]]]
  <2>1. CASE q = p
    BY <1>1, <1>2, <2>1 DEF State
  <2>2. CASE q # p /\ s.storage[q] = Null
    <3>1. r.storage[q] = s.storage[q] /\ r.cursor[q] = s.cursor[q]
      BY <1>1, <1>2, <2>2 DEF State
    <3>2. s.cursor[q] = NoCursor
      BY <2>2 DEF Sound
    <3> QED
      BY <2>2, <3>1, <3>2
  <2>3. CASE q # p /\ s.storage[q] # Null
    <3>1. s.storage[q] \in s.mapped /\ s.storage[q] # m /\ s.storage[q] \in Mappings
      BY <1>1, <1>5, <2>3 DEF State, Sound
    <3>2. left[s.storage[q]] = h[s.storage[q]]
      BY <1>3, <3>1
    <3>3. r.storage[q] = s.storage[q] /\ r.cursor[q] = s.cursor[q]
      BY <1>1, <1>2, <2>3 DEF State
    <3>4. s.cursor[q] = [in |-> s.storage[q], above |-> h[s.storage[q]]]
      BY <2>3 DEF Sound
    <3> QED
      BY <2>3, <3>2, <3>3, <3>4
  <2> QED
    BY <2>1, <2>2, <2>3
<1>8. \A x \in Mappings \ r.mapped : left[x] = 0
  BY <1>2, <1>3
<1>9. /\ \A q, u \in Pools : r.storage[q] = r.storage[u] /\ r.storage[q] # Null => q = u
      /\ r.guarded = r.mapped /\ r.listed \subseteq r.mapped
  BY <1>1, <1>2 DEF Sound, State
<1>10. Sound(r, left)
  BY <1>2, <1>4, <1>6, <1>7, <1>8, <1>9 DEF Sound
<1> QED
  BY <1>2, <1>10 DEF r, left

\* A pool without a mapping takes over what another has.
LEMMA MoveSound ==
  ASSUME NEW s, NEW h, Sound(s, h), NEW p \in Pools, NEW o \in Pools, p # o,
         s.storage[p] = Null
  PROVE  LET r == MoveFrom(s, p, o)
         IN  /\ Sound(r, h)
             /\ r.storage = [s.storage EXCEPT ![p] = s.storage[o], ![o] = Null]
             /\ r.mapped = s.mapped /\ r.listed = s.listed
<1> DEFINE r == MoveFrom(s, p, o)
<1>1. s \in State /\ Null \notin Mappings /\ NoCursor \in Cursor
  BY LifetimeAssumption DEF Sound, State, NoCursor, Cursor
<1>2. /\ r \in State
      /\ r.storage = [s.storage EXCEPT ![p] = s.storage[o], ![o] = Null]
      /\ r.cursor = [s.cursor EXCEPT ![p] = s.cursor[o], ![o] = NoCursor]
      /\ r.mapped = s.mapped /\ r.guarded = s.guarded /\ r.listed = s.listed
  BY <1>1 DEF MoveFrom, State
<1> HIDE DEF r
<1>3. Sound(r, h)
  BY <1>1, <1>2 DEF Sound, State
<1> QED
  BY <1>2, <1>3 DEF r

-----------------------------------------------------------------------------
(* The invariant.                                                          *)

\* The shape every step has: sound pools, and those that do not live own
\* nothing.
LEMMA BecomeSound ==
  ASSUME NEW s, Sound(s, HeldAfter(s)), Become(s), alive' \subseteq Pools,
         \A p \in Pools \ alive' : s.storage[p] = Null
  PROVE  Inv'
  BY DEF Inv, Become

LEMMA HeldIsLeft == \A s : HeldAfter(s) = Left(s, held)
  BY DEF HeldAfter, Left

LEMMA ConstructInv ==
  ASSUME Inv, NEW p \in Pools, Construct(p)
  PROVE  /\ Inv' /\ alive' = alive \cup {p}
         /\ \E m \in Unmapped : state'.storage = [state.storage EXCEPT ![p] = m]
         /\ state.mapped \subseteq state'.mapped /\ state.listed \subseteq state'.listed
<1>1. PICK m \in Unmapped :
        Become([RegisterGuard(Mprotect(Mmap(state, m), m), m)
                  EXCEPT !.storage[p] = m, !.cursor[p] = ToEnd(m)])
  BY DEF Construct
<1> DEFINE made == RegisterGuard(Mprotect(Mmap(state, m), m), m)
           s == [made EXCEPT !.storage[p] = m, !.cursor[p] = ToEnd(m)]
<1>2. /\ state \in State /\ m \in Mappings /\ m \notin state.mapped /\ m # Null
      /\ ToEnd(m) = [in |-> m, above |-> 0] /\ ToEnd(m) \in Cursor
  BY LifetimeAssumption DEF Inv, Sound, Unmapped, ToEnd, Cursor
<1>3. /\ made \in State
      /\ made.storage = state.storage /\ made.cursor = state.cursor
      /\ made.mapped = state.mapped \cup {m} /\ made.guarded = state.guarded \cup {m}
      /\ made.listed \in {state.listed, state.listed \cup {m}}
  BY <1>2 DEF State, RegisterGuard, Mprotect, Mmap
<1> HIDE DEF made
<1>4. /\ s \in State
      /\ s.storage = [state.storage EXCEPT ![p] = m]
      /\ s.cursor = [state.cursor EXCEPT ![p] = ToEnd(m)]
      /\ s.mapped = state.mapped \cup {m} /\ s.guarded = state.guarded \cup {m}
      /\ s.listed \in {state.listed, state.listed \cup {m}}
  BY <1>2, <1>3 DEF State
<1> HIDE DEF s
<1>5. state.storage[p] = Null /\ alive' = alive \cup {p}
  BY DEF Construct, Born, Inv
<1>6. Left(s, held) = held /\ held[m] = 0
  BY <1>2, <1>4 DEF Left, Inv, Sound
<1>7. Sound(s, held)
  <2>1. \A q \in Pools : state.storage[q] # m
    BY <1>2 DEF Inv, Sound
  <2>2. \A x \in Mappings : x \in s.mapped <=> \E q \in Pools : s.storage[q] = x
    <3>1. /\ s.storage[p] = m
          /\ \A q \in Pools \ {p} : s.storage[q] = state.storage[q]
      BY <1>2, <1>4 DEF State
    <3>2. ASSUME NEW x \in Mappings, x \in s.mapped
          PROVE  \E q \in Pools : s.storage[q] = x
      <4>1. CASE x = m
        BY <3>1, <4>1
      <4>2. CASE x # m
        <5>1. PICK q \in Pools : state.storage[q] = x
          BY <1>4, <3>2, <4>2 DEF Inv, Sound
        <5> QED
          BY <1>5, <3>1, <5>1, LifetimeAssumption
      <4> QED
        BY <4>1, <4>2
    <3>3. ASSUME NEW x \in Mappings, NEW q \in Pools, s.storage[q] = x
          PROVE  x \in s.mapped
      BY <1>4, <3>1, <3>3 DEF Inv, Sound
    <3> QED
      BY <3>2, <3>3
  <2>3. ASSUME NEW q \in Pools
        PROVE  s.cursor[q] = IF s.storage[q] = Null THEN NoCursor
                             ELSE [in |-> s.storage[q], above |-> held[s.storage[q]]]
    BY <1>2, <1>4, <1>6 DEF Inv, Sound, State
  <2>4. \A q, u \in Pools : s.storage[q] = s.storage[u] /\ s.storage[q] # Null => q = u
    BY <1>2, <1>4, <2>1 DEF Inv, Sound, State
  <2> QED
    BY <1>4, <2>2, <2>3, <2>4 DEF Inv, Sound
<1>8. \A q \in Pools \ alive' : s.storage[q] = Null
  BY <1>4, <1>5 DEF Inv, Sound, State
<1>9. state' = s
  BY <1>1 DEF Become, s, made
<1>10. Inv'
  BY <1>1, <1>5, <1>6, <1>7, <1>8, HeldIsLeft, BecomeSound DEF Inv, s, made
<1> QED
  BY <1>4, <1>5, <1>9, <1>10

\* A failed construction changes nothing.
LEMMA ProtectionFailsInv ==
  ASSUME Inv, NEW p \in Pools, ProtectionFails(p)
  PROVE  UNCHANGED vars
<1>1. PICK m \in Unmapped : Become(Munmap(Mmap(state, m), m))
  BY DEF ProtectionFails
<1> DEFINE s == Munmap(Mmap(state, m), m)
<1>2. state \in State /\ m \notin state.mapped /\ m \notin state.guarded
  BY DEF Inv, Sound, Unmapped
<1>3. s = state
  BY <1>2 DEF Munmap, Mmap, State
<1>4. HeldAfter(state) = held
  BY HeldIsLeft, LeftSame DEF Inv
<1> QED
  BY <1>1, <1>3, <1>4 DEF ProtectionFails, Become, vars

\* Every operation, with what it does to ownership: o is the new one.
Moved(p, o) == [state.storage EXCEPT ![p] = state.storage[o], ![o] = Null]
Dropped(p) == [state.storage EXCEPT ![p] = Null]

LEMMA ConstructMoveInv ==
  ASSUME Inv, NEW p \in Pools, NEW o \in alive, ConstructMove(p, o)
  PROVE  /\ Inv' /\ state'.storage = Moved(p, o)
         /\ state'.mapped = state.mapped /\ state'.listed = state.listed
<1> DEFINE s == MoveFrom(state, p, o)
<1>1. /\ p \notin alive /\ alive' = alive \cup {p} /\ o \in Pools /\ p # o
      /\ state.storage[p] = Null /\ Sound(state, held)
      /\ Become(s)
  BY DEF ConstructMove, Born, Inv
<1>2. /\ Sound(s, held) /\ s.storage = Moved(p, o)
      /\ s.mapped = state.mapped /\ s.listed = state.listed
  BY <1>1, MoveSound DEF Moved
<1> HIDE DEF s
<1>3. Sound(s, HeldAfter(s))
  BY <1>2, HeldIsLeft, LeftSame
<1>4. \A q \in Pools \ alive' : s.storage[q] = Null
  BY <1>1, <1>2 DEF Inv, Sound, State, Moved
<1>5. alive' \subseteq Pools
  BY <1>1 DEF Inv
<1> QED
  BY <1>1, <1>2, <1>3, <1>4, <1>5, BecomeSound DEF Become

LEMMA ReleaseInv ==
  ASSUME Inv, NEW p \in alive, Destroy(p) \/ Release(p)
  PROVE  /\ Inv' /\ state'.storage = Dropped(p)
         /\ state'.mapped = state.mapped \ {state.storage[p]}
         /\ state'.listed = state.listed \ {state.storage[p]}
<1> DEFINE s == ReleasePool(state, p)
<1>1. /\ alive' \in {alive, alive \ {p}} /\ p \in Pools /\ Sound(state, held)
      /\ Become(s)
  BY DEF Destroy, Release, Inv
<1>2. /\ Sound(s, Left(s, held)) /\ s.storage = Dropped(p)
      /\ s.mapped = state.mapped \ {state.storage[p]}
      /\ s.listed = state.listed \ {state.storage[p]}
  BY <1>1, ReleaseSound DEF Dropped
<1> HIDE DEF s
<1>3. Sound(s, HeldAfter(s))
  BY <1>2, HeldIsLeft
<1>4. \A q \in Pools \ alive' : s.storage[q] = Null
  BY <1>1, <1>2 DEF Inv, Sound, State, Dropped
<1>5. alive' \subseteq Pools
  BY <1>1 DEF Inv
<1> QED
  BY <1>1, <1>2, <1>3, <1>4, <1>5, BecomeSound DEF Become

\* The target is released first, so that it has nothing to lose when it takes
\* over what the source has.
LEMMA AssignMoveInv ==
  ASSUME Inv, NEW p \in alive, NEW o \in alive, p # o, AssignMove(p, o)
  PROVE  /\ Inv' /\ state'.storage = Moved(p, o)
         /\ state'.mapped = state.mapped \ {state.storage[p]}
         /\ state'.listed = state.listed \ {state.storage[p]}
<1> DEFINE r == ReleasePool(state, p)
           s == MoveFrom(r, p, o)
<1>1. /\ alive' = alive /\ p \in Pools /\ o \in Pools /\ Sound(state, held)
      /\ Become(s)
  BY DEF AssignMove, Inv
<1>2. /\ Sound(r, Left(r, held)) /\ r.storage = Dropped(p)
      /\ r.mapped = state.mapped \ {state.storage[p]}
      /\ r.listed = state.listed \ {state.storage[p]}
  BY <1>1, ReleaseSound DEF Dropped
<1>3. state.storage \in [Pools -> Mappings \cup {Null}]
  BY <1>1 DEF Sound, State
<1> HIDE DEF r
<1>4. r.storage[p] = Null /\ r.storage[o] = state.storage[o]
  BY <1>1, <1>2, <1>3 DEF Dropped
<1>5. /\ Sound(s, Left(r, held))
      /\ s.storage = [r.storage EXCEPT ![p] = r.storage[o], ![o] = Null]
      /\ s.mapped = r.mapped /\ s.listed = r.listed
  BY <1>1, <1>2, <1>4, MoveSound
<1> HIDE DEF s
<1>6. s.storage = Moved(p, o)
  BY <1>2, <1>3, <1>4, <1>5 DEF Moved, Dropped
<1>7. HeldAfter(s) = Left(r, held)
  BY <1>5, HeldIsLeft DEF Left
<1>8. \A q \in Pools \ alive' : s.storage[q] = Null
  BY <1>1, <1>3, <1>6 DEF Inv, Moved
<1>9. alive' \subseteq Pools
  BY <1>1 DEF Inv
<1>10. Sound(s, HeldAfter(s))
  BY <1>5, <1>7
<1> QED
  BY <1>1, <1>2, <1>5, <1>6, <1>8, <1>9, <1>10, BecomeSound DEF Become

LEMMA AllocateInv ==
  ASSUME Inv, NEW p \in alive, Allocate(p)
  PROVE  /\ Inv' /\ state'.storage = state.storage
         /\ state'.mapped = state.mapped /\ state'.listed = state.listed
<1> DEFINE m == state.storage[p]
           n == state.cursor[p].above
<1>1. /\ m # Null /\ n < MaxBlocks /\ alive' = alive /\ p \in Pools
      /\ state' = [state EXCEPT !.cursor[p].above = @ + 1]
      /\ held' = [held EXCEPT ![m] = @ + 1]
      /\ state \in State /\ held \in [Mappings -> 0..MaxBlocks] /\ MaxBlocks \in Nat
  BY LifetimeAssumption DEF Allocate, Inv, Sound
<1>2. m \in Mappings /\ m \in state.mapped /\ state.cursor[p] = [in |-> m, above |-> held[m]]
  BY <1>1 DEF Inv, Sound, State
<1>3. n = held[m] /\ n \in Nat /\ n + 1 \in 0..MaxBlocks
  BY <1>1, <1>2
<1> DEFINE next == [in |-> m, above |-> n + 1]
<1>3a. state' = [state EXCEPT !.cursor[p] = next] /\ next \in Cursor
  <2>1. [state.cursor[p] EXCEPT !.above = @ + 1] = next
    BY <1>2
  <2>2. state' = [state EXCEPT !.cursor[p] = [state.cursor[p] EXCEPT !.above = @ + 1]]
    BY <1>1
  <2> QED
    BY <1>2, <1>3, <2>1, <2>2 DEF Cursor
<1> HIDE DEF n, next
<1>4. /\ state' \in State
      /\ state'.storage = state.storage /\ state'.mapped = state.mapped
      /\ state'.guarded = state.guarded /\ state'.listed = state.listed
      /\ state'.cursor = [state.cursor EXCEPT ![p] = next]
  BY <1>1, <1>3a DEF State
<1>5. held' = [held EXCEPT ![m] = n + 1]
  BY <1>1, <1>3
<1> HIDE DEF m
<1>6. held' \in [Mappings -> 0..MaxBlocks]
  BY <1>1, <1>3, <1>5
<1>7. ASSUME NEW q \in Pools
      PROVE  state'.cursor[q] = IF state'.storage[q] = Null THEN NoCursor
                                ELSE [in |-> state'.storage[q], above |-> held'[state'.storage[q]]]
  <2>1. CASE q = p
    BY <1>1, <1>2, <1>4, <1>5, <2>1 DEF State, m, next
  <2>2. CASE q # p
    <3>1. state'.cursor[q] = state.cursor[q]
      BY <1>1, <1>4, <2>2 DEF State
    <3>2. state.storage[q] # Null => state.storage[q] # m /\ state.storage[q] \in Mappings
      BY <1>1, <2>2 DEF Inv, Sound, State, m
    <3>3. state.storage[q] # Null => held'[state.storage[q]] = held[state.storage[q]]
      BY <1>1, <1>5, <3>2
    <3> QED
      BY <1>4, <3>1, <3>3 DEF Inv, Sound
  <2> QED
    BY <2>1, <2>2
<1>8. \A x \in Mappings \ state'.mapped : held'[x] = 0
  BY <1>1, <1>2, <1>4, <1>5 DEF Inv, Sound
<1>9. Sound(state', held')
  BY <1>4, <1>6, <1>7, <1>8 DEF Inv, Sound
<1> QED
  BY <1>1, <1>4, <1>9 DEF Inv

LEMMA ResetInv ==
  ASSUME Inv, NEW p \in alive, Reset(p)
  PROVE  /\ Inv' /\ state'.storage = state.storage
         /\ state'.mapped = state.mapped /\ state'.listed = state.listed
<1> DEFINE m == state.storage[p]
<1>1. /\ alive' = alive /\ p \in Pools
      /\ state' = [state EXCEPT !.cursor[p] = ToEnd(m)]
      /\ held' = [x \in Mappings |-> IF x = m THEN 0 ELSE held[x]]
      /\ state \in State /\ held \in [Mappings -> 0..MaxBlocks] /\ MaxBlocks \in Nat
      /\ m \in Mappings \cup {Null} /\ Null \notin Mappings
  BY LifetimeAssumption DEF Reset, Inv, Sound, State
<1>2. ToEnd(m) \in Cursor
  BY <1>1 DEF ToEnd, NoCursor, Cursor
<1>3. /\ state' \in State
      /\ state'.storage = state.storage /\ state'.mapped = state.mapped
      /\ state'.guarded = state.guarded /\ state'.listed = state.listed
      /\ state'.cursor = [state.cursor EXCEPT ![p] = ToEnd(m)]
  BY <1>1, <1>2 DEF State
<1> HIDE DEF m
<1>4. held' \in [Mappings -> 0..MaxBlocks]
  BY <1>1
<1>5. ASSUME NEW q \in Pools
      PROVE  state'.cursor[q] = IF state'.storage[q] = Null THEN NoCursor
                                ELSE [in |-> state'.storage[q], above |-> held'[state'.storage[q]]]
  <2>1. CASE q = p
    BY <1>1, <1>3, <2>1 DEF State, ToEnd, m
  <2>2. CASE q # p
    <3>1. state'.cursor[q] = state.cursor[q]
      BY <1>1, <1>3, <2>2 DEF State
    <3>2. state.storage[q] # Null => state.storage[q] # m /\ state.storage[q] \in Mappings
      BY <1>1, <2>2 DEF Inv, Sound, State, m
    <3>3. state.storage[q] # Null => held'[state.storage[q]] = held[state.storage[q]]
      BY <1>1, <3>2
    <3> QED
      BY <1>3, <3>1, <3>3 DEF Inv, Sound
  <2> QED
    BY <2>1, <2>2
<1>6. \A x \in Mappings \ state'.mapped : held'[x] = 0
  BY <1>1, <1>3 DEF Inv, Sound
<1>7. Sound(state', held')
  BY <1>3, <1>4, <1>5, <1>6 DEF Inv, Sound
<1> QED
  BY <1>1, <1>3, <1>7 DEF Inv

LEMMA InitInv == Init => Inv
<1> SUFFICES ASSUME Init PROVE Inv
  OBVIOUS
<1>1. state \in State /\ held \in [Mappings -> 0..MaxBlocks]
  BY LifetimeAssumption DEF Init, State, NoCursor, Cursor
<1> QED
  BY <1>1, LifetimeAssumption DEF Init, Inv, Sound

LEMMA UnchangedInv == Inv /\ UNCHANGED vars => Inv'
  BY DEF Inv, Sound, vars

LEMMA AssignSelf ==
  ASSUME Inv, NEW p \in alive, AssignMove(p, p)
  PROVE  UNCHANGED vars
  BY HeldIsLeft, LeftSame DEF AssignMove, Become, Inv, vars

LEMMA NextInv == Inv /\ [Next]_vars => Inv'
<1> SUFFICES ASSUME Inv, [Next]_vars PROVE Inv'
  OBVIOUS
<1>1. ASSUME NEW p \in Pools, Construct(p) \/ ProtectionFails(p)
      PROVE  Inv'
  BY <1>1, ConstructInv, ProtectionFailsInv, UnchangedInv
<1>2. ASSUME NEW p \in alive, NEW o \in alive, AssignMove(p, o)
      PROVE  Inv'
  BY <1>2, AssignMoveInv, AssignSelf, UnchangedInv
<1> QED
  BY <1>1, <1>2, ConstructMoveInv, ReleaseInv, AllocateInv, ResetInv, UnchangedInv DEF Next

THEOREM Invariance == Spec => []Inv
  BY InitInv, NextInv, PTL DEF Spec

\* No field leaves its range, and a pool that does not live owns nothing.
THEOREM TypeCorrect == Spec => []TypeOK
<1>1. Inv => TypeOK
  BY DEF Inv, Sound, TypeOK
<1> QED
  BY <1>1, Invariance, PTL

\* No block is handed out twice, wherever the pool was moved.
THEOREM CursorMoves == Spec => []CursorFollowsMapping
<1>1. Inv => CursorFollowsMapping
  BY DEF Inv, Sound, CursorFollowsMapping
<1> QED
  BY <1>1, Invariance, PTL

\* The registry names no mapping that is gone or nobody's.
THEOREM NothingListedInVain == Spec => []ListedWhileOwned
<1>1. Inv => ListedWhileOwned
  <2> SUFFICES ASSUME Inv, NEW m \in state.listed
               PROVE  \E p \in alive : state.storage[p] = m
    BY DEF Inv, Sound, ListedWhileOwned
  <2>1. m \in Mappings /\ m # Null /\ m \in state.mapped
    BY LifetimeAssumption DEF Inv, Sound, State
  <2>2. PICK p \in Pools : state.storage[p] = m
    BY <2>1 DEF Inv, Sound
  <2> QED
    BY <2>1, <2>2 DEF Inv
<1> QED
  BY <1>1, Invariance, PTL

-----------------------------------------------------------------------------
(* What a step may not do.                                                 *)

\* Only the release of a mapping takes it out of the registry.
THEOREM Listed == Spec => StaysListed
<1>1. ASSUME Inv, [Next]_vars
      PROVE  \A m \in state.listed : m \in state'.mapped => m \in state'.listed
  <2>1. ASSUME NEW p \in Pools, Construct(p) \/ ProtectionFails(p)
        PROVE  state.listed \subseteq state'.listed
    BY <1>1, <2>1, ConstructInv, ProtectionFailsInv DEF vars
  <2>2. ASSUME NEW p \in alive, NEW o \in alive, AssignMove(p, o)
        PROVE  \A m \in state.listed : m \in state'.mapped => m \in state'.listed
    BY <1>1, <2>2, AssignMoveInv, AssignSelf DEF vars
  <2> QED
    BY <1>1, <2>1, <2>2, ConstructMoveInv, ReleaseInv, AllocateInv, ResetInv DEF Next, vars
<1>2. Inv /\ [Next]_vars
        => [\A m \in state.listed : m \in state'.mapped => m \in state'.listed]_vars
  BY <1>1
<1> QED
  BY <1>2, Invariance, PTL DEF Spec, StaysListed

\* The source of an assignment keeps what it has, itself included.
THEOREM SourceKept == Spec => AssignmentKeepsSource
<1>1. ASSUME Inv, NEW p \in alive, NEW o \in alive, AssignMove(p, o),
             NEW m \in {state.storage[o]} \ {Null}
      PROVE  m \in state'.mapped /\ held'[m] = held[m]
  <2>1. m \in Mappings /\ m \in state.mapped
    BY <1>1 DEF Inv, Sound, State
  <2>2. CASE p = o
    BY <1>1, <2>1, <2>2, AssignSelf DEF vars
  <2>3. CASE p # o
    <3>1. state.storage[p] # m
      BY <1>1, <2>3 DEF Inv, Sound
    <3>2. m \in state'.mapped
      BY <1>1, <2>1, <2>3, <3>1, AssignMoveInv
    <3>3. held' = HeldAfter(state')
      BY <1>1, <2>3 DEF AssignMove, Become
    <3> QED
      BY <2>1, <3>2, <3>3 DEF HeldAfter
  <2> QED
    BY <2>2, <2>3
<1>2. Inv /\ [Next]_vars =>
        [\A p, o \in alive :
           AssignMove(p, o) =>
             \A m \in {state.storage[o]} \ {Null} : m \in state'.mapped /\ held'[m] = held[m]]_vars
  BY <1>1
<1> QED
  BY <1>2, Invariance, PTL DEF Spec, AssignmentKeepsSource

-----------------------------------------------------------------------------
(* A pool is a unique owner.                                               *)

\* heap and unique are what ownership says they are.
LEMMA OutputsFollow ==
  ASSUME NEW s, NEW h, Sound(s, h)
  PROVE  /\ s.mapped = {s.storage[p] : p \in Pools} \ {Null}
         /\ [p \in Pools |-> s.storage[p] # Null]
              = [p \in Pools |-> /\ s.storage[p] # Null
                                 /\ Ownership!OwnersOf(s.storage, s.storage[p]) = {p}]
<1>1. s.mapped = {s.storage[p] : p \in Pools} \ {Null}
  BY LifetimeAssumption DEF Sound, State
<1>2. \A p \in Pools :
        s.storage[p] # Null => Ownership!OwnersOf(s.storage, s.storage[p]) = {p}
  BY DEF Sound, Ownership!OwnersOf
<1> QED
  BY <1>1, <1>2

LEMMA InitOwnership == Init => Ownership!Init
<1> SUFFICES ASSUME Init PROVE Ownership!Init
  OBVIOUS
<1>1. state.storage = [p \in Pools |-> Null] /\ state.mapped = {} /\ alive = {}
  BY DEF Init
<1>2. [p \in Pools |-> state.storage[p] # Null] = [p \in Pools |-> FALSE]
  BY <1>1
<1> QED
  BY <1>1, <1>2 DEF Ownership!Init

LEMMA NextOwnership == Inv /\ Inv' /\ [Next]_vars => [Ownership!Next]_(Ownership!vars)
<1> SUFFICES ASSUME Inv, Inv', [Next]_vars PROVE [Ownership!Next]_(Ownership!vars)
  OBVIOUS
<1>1. ASSUME NEW new, state'.storage = new
      PROVE  /\ state'.storage = new
             /\ state'.mapped = {new[p] : p \in Pools} \ {Null}
             /\ [p \in Pools |-> state'.storage[p] # Null]
                  = [p \in Pools |-> new[p] # Null /\ Ownership!OwnersOf(new, new[p]) = {p}]
  <2>1. Sound(state', held')
    BY DEF Inv
  <2>2. /\ state'.mapped = {state'.storage[p] : p \in Pools} \ {Null}
        /\ [p \in Pools |-> state'.storage[p] # Null]
             = [p \in Pools |-> /\ state'.storage[p] # Null
                                /\ Ownership!OwnersOf(state'.storage, state'.storage[p]) = {p}]
    BY <2>1, OutputsFollow
  <2> QED
    BY <1>1, <2>2 DEF Ownership!OwnersOf
<1>2. ASSUME alive' = alive, state'.storage = state.storage, state'.mapped = state.mapped
      PROVE  UNCHANGED Ownership!vars
  BY <1>2 DEF Ownership!vars
<1>3. ASSUME NEW p \in Pools, Construct(p)
      PROVE  Ownership!Construct(p)
  <2>1. Ownership!ConstructFresh(p)
    BY <1>1, <1>3, ConstructInv DEF Ownership!ConstructFresh, Ownership!Become, Unmapped
  <2> QED
    BY <1>3, <2>1 DEF Construct, Born, Ownership!Construct
<1>4. ASSUME NEW p \in Pools, NEW o \in alive, ConstructMove(p, o)
      PROVE  Ownership!Construct(p)
  <2>1. Ownership!ConstructMove(p, o)
    BY <1>1, <1>4, ConstructMoveInv DEF Moved, Ownership!ConstructMove, Ownership!Become
  <2> QED
    BY <1>4, <2>1 DEF ConstructMove, Born, Ownership!Construct
<1>5. ASSUME NEW p \in alive, Destroy(p) \/ Release(p)
      PROVE  Ownership!Destroy(p) \/ Ownership!Assign(p)
  <2>1. Ownership!Drop(p)
    BY <1>1, <1>5, ReleaseInv DEF Dropped, Ownership!Drop, Ownership!Become
  <2> QED
    BY <1>5, <2>1 DEF Destroy, Release, Ownership!Destroy, Ownership!Assign
<1>6. ASSUME NEW p \in alive, NEW o \in alive, AssignMove(p, o), p # o
      PROVE  Ownership!Assign(p)
  <2>1. state'.storage = Moved(p, o)
    BY <1>6, AssignMoveInv
  <2>2. Ownership!AssignMove(p, o)
    BY <1>1, <1>6, <2>1 DEF Moved, Ownership!AssignMove, Ownership!Become
  <2> QED
    BY <1>6, <2>2 DEF AssignMove, Ownership!Assign
<1>7. ASSUME NEW p \in alive, Allocate(p) \/ Reset(p)
      PROVE  UNCHANGED Ownership!vars
  BY <1>2, <1>7, AllocateInv, ResetInv DEF Allocate, Reset
<1>8. ASSUME UNCHANGED vars
      PROVE  UNCHANGED Ownership!vars
  BY <1>2, <1>8 DEF vars
<1>9. alive \subseteq Pools
  BY DEF Inv
<1> QED
  BY <1>3, <1>4, <1>5, <1>6, <1>7, <1>8, <1>9, ProtectionFailsInv, AssignSelf
     DEF Next, Ownership!Next

\* Whatever sequence of constructions, moves, releases and destructions: every
\* mapping has one owner and is unmapped once.
THEOREM Refinement == Spec => ImplementsSharedBlocks
<1>1. Spec => Ownership!Init
  BY InitOwnership DEF Spec
<1> QED
  BY <1>1, NextOwnership, Invariance, PTL DEF Spec, ImplementsSharedBlocks, Ownership!Spec
=============================================================================

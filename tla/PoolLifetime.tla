---------------------------- MODULE PoolLifetime ----------------------------
(***************************************************************************)
(* Who owns a mapping: construction, moves, release and destruction of     *)
(* DownwardPool, and of NonblockingDownwardPool, which has the same ones.  *)
(* A pool object belongs to one thread here, so an operation is one        *)
(* action; its body is built from system calls and private operations,     *)
(* which are functions from a state of the pools to the next.  PoolClients *)
(* has the addresses, PoolRegistry the table and its races.                *)
(***************************************************************************)
EXTENDS Naturals, FiniteSets

CONSTANTS
  Pools,      \* addresses where a program may keep a pool object
  Mappings,   \* addresses mmap may return
  Null,       \* nullptr
  MaxSlots,   \* kMaxRegisteredPools
  MaxBlocks   \* bound: blocks the program gets from one mapping

ASSUME LifetimeAssumption ==
  /\ Null \notin Pools \cup Mappings
  /\ MaxSlots \in Nat /\ MaxBlocks \in Nat
  /\ IsFiniteSet(Mappings)

VARIABLES
  alive,   \* the pools that are constructed and not yet destroyed
  state,   \* fields of every pool object, and the system's mappings (below)
  held     \* blocks the program holds in each mapping

vars == <<alive, state, held>>

\* A cursor is the mapping it points into and the blocks above it.
NoCursor == [in |-> Null, above |-> 0]
Cursor == [in : Mappings \cup {Null}, above : 0..MaxBlocks]

State ==
  [storage : [Pools -> Mappings \cup {Null}],
   cursor  : [Pools -> Cursor],
   mapped  : SUBSET Mappings,
   guarded : SUBSET Mappings,
   listed  : SUBSET Mappings]

Init ==
  /\ alive = {}
  /\ state = [storage |-> [p \in Pools |-> Null],
              cursor  |-> [p \in Pools |-> NoCursor],
              mapped  |-> {}, guarded |-> {}, listed |-> {}]
  /\ held = [m \in Mappings |-> 0]

-----------------------------------------------------------------------------
(* System calls, the registry, and the operations of the class that        *)
(* others are built from.                                                  *)

Mmap(s, m) == [s EXCEPT !.mapped = @ \cup {m}]

Mprotect(s, m) == [s EXCEPT !.guarded = @ \cup {m}]

Munmap(s, m) == [s EXCEPT !.mapped = @ \ {m}, !.guarded = @ \ {m}]

RegisterGuard(s, m) ==
  IF Cardinality(s.listed) < MaxSlots THEN [s EXCEPT !.listed = @ \cup {m}] ELSE s

UnregisterGuard(s, m) == [s EXCEPT !.listed = @ \ {m}]

\* Mistake: the guard stays registered.
ReleaseStorageStayingListed(s, p) ==
  LET m == s.storage[p]
  IN  IF m = Null THEN s ELSE [Munmap(s, m) EXCEPT !.storage[p] = Null]

\* release_downward_pool_storage.
ReleaseStorage(s, p) ==
  LET m == s.storage[p]
  IN  IF m = Null THEN s
      ELSE [Munmap(UnregisterGuard(s, m), m) EXCEPT !.storage[p] = Null]

ReleasePool(s, p) == [ReleaseStorage(s, p) EXCEPT !.cursor[p] = NoCursor]

ToEnd(m) == IF m = Null THEN NoCursor ELSE [in |-> m, above |-> 0]

\* Mistake: the cursor starts again at the end of the mapping.
MoveFromResetting(s, p, o) ==
  [s EXCEPT !.storage = [@ EXCEPT ![p] = s.storage[o], ![o] = Null],
            !.cursor  = [@ EXCEPT ![p] = ToEnd(s.storage[o]), ![o] = NoCursor]]

\* Mistake: the guard is struck off, as if the source were released.
MoveFromUnlisting(s, p, o) ==
  [s EXCEPT !.storage = [@ EXCEPT ![p] = s.storage[o], ![o] = Null],
            !.cursor  = [@ EXCEPT ![p] = s.cursor[o], ![o] = NoCursor],
            !.listed  = @ \ {s.storage[o]}]

\* Mistake: both pools own the mapping.
MoveFromSharing(s, p, o) ==
  [s EXCEPT !.storage[p] = s.storage[o], !.cursor[p] = s.cursor[o]]

MoveFrom(s, p, o) ==
  [s EXCEPT !.storage = [@ EXCEPT ![p] = s.storage[o], ![o] = Null],
            !.cursor  = [@ EXCEPT ![p] = s.cursor[o], ![o] = NoCursor]]

-----------------------------------------------------------------------------
(* The public operations.                                                  *)

Unmapped == Mappings \ state.mapped

\* Blocks of a mapping that is gone are nobody's.
HeldAfter(s) == [m \in Mappings |-> IF m \in s.mapped THEN held[m] ELSE 0]

Become(s) == state' = s /\ held' = HeldAfter(s)

Born(p) == p \notin alive /\ alive' = alive \cup {p}

Construct(p) ==
  /\ Born(p)
  /\ \E m \in Unmapped :
       LET made == RegisterGuard(Mprotect(Mmap(state, m), m), m)
       IN  Become([made EXCEPT !.storage[p] = m, !.cursor[p] = ToEnd(m)])

\* Mistake: the mapping is forgotten when mprotect fails.
ProtectionFailsLeaking(p) ==
  /\ p \notin alive
  /\ \E m \in Unmapped : Become(Mmap(state, m))
  /\ UNCHANGED alive

\* sysconf or mmap failing, or sizes that do not add up, leave nothing to undo;
\* mprotect failing leaves a mapping.
ProtectionFails(p) ==
  /\ p \notin alive
  /\ \E m \in Unmapped : Become(Munmap(Mmap(state, m), m))
  /\ UNCHANGED alive

ConstructMove(p, o) ==
  /\ Born(p)
  /\ Become(MoveFrom(state, p, o))

\* Mistake: the destructor does not release.
DestroyKeeping(p) ==
  /\ alive' = alive \ {p}
  /\ UNCHANGED <<state, held>>

Destroy(p) ==
  /\ alive' = alive \ {p}
  /\ Become(ReleasePool(state, p))

Release(p) ==
  /\ Become(ReleasePool(state, p))
  /\ UNCHANGED alive

\* Mistake: a pool is not compared with itself.
AssignMoveUnchecked(p, o) ==
  /\ Become(MoveFrom(ReleasePool(state, p), p, o))
  /\ UNCHANGED alive

AssignMove(p, o) ==
  /\ Become(IF p = o THEN state ELSE MoveFrom(ReleasePool(state, p), p, o))
  /\ UNCHANGED alive

\* allocate, of a pool that has storage: the block below the cursor.
Allocate(p) ==
  LET m == state.storage[p]
  IN  /\ m # Null /\ state.cursor[p].above < MaxBlocks
      /\ state' = [state EXCEPT !.cursor[p].above = @ + 1]
      /\ held' = [held EXCEPT ![m] = @ + 1]
      /\ UNCHANGED alive

Reset(p) ==
  LET m == state.storage[p]
  IN  /\ state' = [state EXCEPT !.cursor[p] = ToEnd(m)]
      /\ held' = [x \in Mappings |-> IF x = m THEN 0 ELSE held[x]]
      /\ UNCHANGED alive

Next ==
  \/ \E p \in Pools : Construct(p) \/ ProtectionFails(p)
  \/ \E p \in Pools, o \in alive : ConstructMove(p, o)
  \/ \E p \in alive : Destroy(p) \/ Release(p) \/ Allocate(p) \/ Reset(p)
  \/ \E p, o \in alive : AssignMove(p, o)

Spec == Init /\ [][Next]_vars

-----------------------------------------------------------------------------
(* Properties.                                                             *)

\* A pool that does not live owns nothing.
TypeOK ==
  /\ alive \subseteq Pools
  /\ state \in State
  /\ held \in [Mappings -> 0..MaxBlocks]
  /\ \A p \in Pools \ alive : state.storage[p] = Null

\* The cursor goes with the mapping: wherever a pool is moved, it points as
\* far below the end as the program holds blocks, so none is handed out again,
\* and a pool without a mapping has a null cursor.
CursorFollowsMapping ==
  \A p \in Pools :
    state.cursor[p] = IF state.storage[p] = Null THEN NoCursor
                      ELSE [in |-> state.storage[p], above |-> held[state.storage[p]]]

\* A mapping is in the registry only while it exists, has its guard, and one
\* of the pools owns it.
ListedWhileOwned ==
  /\ state.listed \subseteq state.guarded
  /\ state.guarded = state.mapped
  /\ \A m \in state.listed : \E p \in alive : state.storage[p] = m

\* A pool that was registered stays so until it is unmapped, whoever moves it.
StaysListed ==
  [][\A m \in state.listed : m \in state'.mapped => m \in state'.listed]_vars

\* An assignment never costs the source's blocks, not even when a pool is
\* assigned to itself: operator= releases the target first.
AssignmentKeepsSource ==
  [][\A p, o \in alive :
       AssignMove(p, o) =>
         \A m \in {state.storage[o]} \ {Null} : m \in state'.mapped /\ held'[m] = held[m]]_vars

\* A pool is a unique owner: the blocks of SharedBlocks are mappings here, and
\* no two pools ever own one.  So no sequence of moves, releases and
\* destructions calls munmap twice for a mapping, or never.
Ownership == INSTANCE SharedBlocks
               WITH Handles <- Pools,
                    Blocks  <- Mappings,
                    owns    <- state.storage,
                    heap    <- state.mapped,
                    unique  <- [p \in Pools |-> state.storage[p] # Null]

ImplementsSharedBlocks == Ownership!Spec
=============================================================================

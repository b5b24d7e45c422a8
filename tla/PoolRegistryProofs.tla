------------------------- MODULE PoolRegistryProofs -------------------------
(***************************************************************************)
(* PoolRegistry, for any number of threads, pools and slots: what the      *)
(* table names exists, and nothing but the two races the history variables *)
(* record keeps the handler from finding the pool that overflowed.         *)
(***************************************************************************)
EXTENDS PoolRegistry, TLAPS

Building == {"register", "storeEnd", "storeBegin"}
Releasing == {"unregister", "clearBegin", "clearEnd", "unmap"}
Finding == {"findBegin", "findEnd", "reported", "delegated"}

\* A guard that exists is not empty and does not begin at address 0.
GuardsFit ==
  \A p \in Pools : guard[p] # NoGuard => 0 < guard[p].begin /\ guard[p].begin < guard[p].end

\* Who works on what: a pool that is constructed or released has one builder
\* and no user.
Positions ==
  /\ \A t \in Builders :
       /\ pc[t] \in {"idle"} \cup Building \cup Releasing
       /\ pc[t] = "idle" => pool[t] = NoPool /\ index[t] = 0
       /\ pc[t] # "idle" => pool[t] # NoPool
  /\ \A t \in Users :
       /\ pc[t] \in {"idle"} \cup Finding
       /\ pc[t] = "idle" => pool[t] = NoPool /\ index[t] = 0
  /\ \A t \in Threads : pool[t] # NoPool => guard[pool[t]] # NoGuard
  /\ \A t \in Builders, u \in Threads : pool[t] # NoPool /\ pool[u] = pool[t] => u = t

\* Slot i has the guard of pool p.
ListedAt(p, i) == guard[p] # NoGuard /\ guardBegin[i] = guard[p].begin

\* Every slot in use is a pool's, and a pool has one at most; none while it is
\* constructed, none below the slot its release looks at, and none any more
\* once its release has found it.
Listing ==
  /\ \A i \in Slots : guardBegin[i] # 0 => \E p \in Pools : ListedAt(p, i)
  /\ \A i, j \in Slots : guardBegin[i] = guardBegin[j] /\ guardBegin[i] # 0 => i = j
  /\ \A t \in Builders, i \in Slots :
       pool[t] # NoPool /\ ListedAt(pool[t], i) =>
         \/ pc[t] = "unregister" /\ index[t] <= i
         \/ pc[t] = "clearBegin" /\ index[t] = i

Table == TypeOK /\ GuardsFit /\ Positions /\ Listing

-----------------------------------------------------------------------------
(* The table.                                                              *)

LEMMA Constants ==
  /\ NoPool \notin Pools /\ Builders \cap Users = {}
  /\ MaxSlots \in Nat \ {0} /\ MaxAddress \in Nat \ {0}
  /\ 0 \in Slots /\ Slots \subseteq Nat
  /\ Threads = Builders \cup Users
  BY RegistryAssumption DEF Slots, Threads

\* The guards of two pools do not begin at the same address.
LEMMA DistinctBegins ==
  ASSUME TypeOK, GuardsFit, NEW p \in Pools, NEW q \in Pools,
         guard[p] # NoGuard, guard[q] # NoGuard, guard[p].begin = guard[q].begin
  PROVE  p = q
<1>1. /\ guard[p].begin \in Int /\ guard[p].end \in Int /\ guard[p].begin < guard[p].end
      /\ guard[q].begin \in Int /\ guard[q].end \in Int /\ guard[q].begin < guard[q].end
  BY RegistryAssumption DEF TypeOK, GuardsFit
<1>2. guard[p].begin \in Mapping(p) /\ guard[p].begin \in Mapping(q)
  BY <1>1 DEF Mapping
<1> QED
  BY <1>2 DEF TypeOK

LEMMA TableInit == Init => Table
<1> SUFFICES ASSUME Init PROVE Table
  OBVIOUS
<1>2. TypeOK
  BY Constants DEF Init, TypeOK, NoGuard, Mapping
<1> QED
  BY <1>2, Constants DEF Init, Table, GuardsFit, Positions, Listing

\* A step that leaves the guards alone keeps mappings and their order.
LEMMA SameGuards ==
  ASSUME TypeOK, GuardsFit, guard' = guard,
         guardBegin' \in [Slots -> 0..(MaxAddress - 1)],
         guardEnd' \in [Slots -> 0..(MaxAddress - 1)],
         pc' \in [Threads -> {"idle"} \cup Building \cup Releasing \cup Finding],
         pool' \in [Threads -> Pools \cup {NoPool}], index' \in [Threads -> Slots],
         begin' \in [Threads -> 0..(MaxAddress - 1)],
         fault' \in [Threads -> 0..(MaxAddress - 1)],
         unlisted' \subseteq Pools, raced' \subseteq Pools
  PROVE  TypeOK' /\ GuardsFit'
<1>1. \A p \in Pools : Mapping(p)' = Mapping(p)
  BY DEF Mapping
<1> QED
  BY <1>1 DEF TypeOK, GuardsFit, Building, Releasing, Finding

\* What a thread's next slot is.
LEMMA NextSlotFacts ==
  ASSUME TypeOK, NEW t \in Threads, NEW from, NEW to, NEW end, NextSlot(t, from, to, end)
  PROVE  /\ pc[t] = from
         /\ \/ /\ index[t] + 1 \in Slots
               /\ pc' = [pc EXCEPT ![t] = to] /\ index' = [index EXCEPT ![t] = index[t] + 1]
            \/ /\ index[t] = MaxSlots - 1
               /\ pc' = [pc EXCEPT ![t] = end] /\ index' = [index EXCEPT ![t] = 0]
<1>1. index[t] \in 0..(MaxSlots - 1) /\ MaxSlots \in Nat \ {0}
  BY Constants DEF TypeOK, Slots
<1> QED
  BY <1>1 DEF NextSlot, Go, Slots

LEMMA MapPoolTable ==
  ASSUME Table, NEW t \in Builders, NEW p \in Pools, MapPool(t, p)
  PROVE  Table'
<1>1. PICK b \in Bases, size \in GuardSizes :
        /\ b + size < MaxAddress
        /\ \A q \in Pools : (b .. (b + size)) \cap Mapping(q) = {}
        /\ guard' = [guard EXCEPT ![p] = [begin |-> b, end |-> b + size]]
  BY DEF MapPool
<1>2. /\ guard[p] = NoGuard /\ \A u \in Threads : pool[u] # p
      /\ pc[t] = "idle" /\ pc' = [pc EXCEPT ![t] = "register"]
      /\ pool' = [pool EXCEPT ![t] = p]
      /\ UNCHANGED <<guardBegin, guardEnd, index, begin, fault, unlisted, raced>>
  BY DEF MapPool, Go, Busy, table, history
<1>3. /\ b \in Nat /\ 0 < b /\ size \in Nat /\ 0 < size
      /\ b \in 0..(MaxAddress - 1) /\ b + size \in 0..(MaxAddress - 1)
  BY <1>1, RegistryAssumption
<1>4. /\ guard'[p] = [begin |-> b, end |-> b + size] /\ guard'[p] # NoGuard
      /\ \A q \in Pools \ {p} : guard'[q] = guard[q]
  BY <1>1, <1>3 DEF Table, TypeOK, NoGuard
<1>5. /\ Mapping(p)' = b .. (b + size)
      /\ \A q \in Pools \ {p} : Mapping(q)' = Mapping(q)
  BY <1>4 DEF Mapping
<1>6. TypeOK'
  <2>1. \A q, r \in Pools : q # r => Mapping(q)' \cap Mapping(r)' = {}
    <3>1. \A q \in Pools \ {p} : Mapping(p)' \cap Mapping(q)' = {}
      BY <1>1, <1>5
    <3>2. \A q, r \in Pools \ {p} : q # r => Mapping(q)' \cap Mapping(r)' = {}
      BY <1>5 DEF Table, TypeOK
    <3> QED
      BY <3>1, <3>2
  <2>2. guard' \in [Pools -> [begin : 0..(MaxAddress - 1), end : 0..(MaxAddress - 1)]]
    BY <1>1, <1>3 DEF Table, TypeOK
  <2> QED
    BY <1>2, <2>1, <2>2 DEF Table, TypeOK
<1>7. GuardsFit'
  BY <1>3, <1>4 DEF Table, GuardsFit
<1>8. t \in Threads /\ t \notin Users
  BY Constants
<1>9. Positions'
  BY <1>2, <1>4, <1>8, Constants DEF Table, TypeOK, Positions, Building, Releasing
<1>10. \A i \in Slots : ~ListedAt(p, i)' /\ \A q \in Pools \ {p} : ListedAt(q, i)' = ListedAt(q, i)
  <2>1. ASSUME NEW i \in Slots, guardBegin[i] = b
        PROVE  FALSE
    <3>1. PICK q \in Pools : ListedAt(q, i)
      BY <1>3, <2>1 DEF Table, Listing
    <3>2. b \in Mapping(q)
      <4>1. guard[q] # NoGuard /\ guard[q].begin = b /\ b <= guard[q].end
        BY <2>1, <3>1, <1>3, RegistryAssumption DEF ListedAt, Table, TypeOK, GuardsFit
      <4> QED
        BY <4>1, <1>3, RegistryAssumption DEF Mapping, Table, TypeOK
    <3>3. b \in b .. (b + size)
      BY <1>3
    <3> QED
      BY <1>1, <3>2, <3>3
  <2> QED
    BY <1>2, <1>4, <2>1 DEF ListedAt
<1>11. Listing'
  <2>1. ASSUME NEW i \in Slots, guardBegin'[i] # 0
        PROVE  \E q \in Pools : ListedAt(q, i)'
    <3>1. PICK q \in Pools : ListedAt(q, i)
      BY <1>2, <2>1 DEF Table, Listing
    <3>2. q # p
      BY <1>2, <3>1 DEF ListedAt
    <3> QED
      BY <1>10, <3>1, <3>2
  <2>2. \A i, j \in Slots : guardBegin'[i] = guardBegin'[j] /\ guardBegin'[i] # 0 => i = j
    BY <1>2 DEF Table, Listing
  <2>3. ASSUME NEW u \in Builders, NEW i \in Slots, pool'[u] # NoPool, ListedAt(pool[u], i)'
        PROVE  \/ pc'[u] = "unregister" /\ index'[u] <= i
               \/ pc'[u] = "clearBegin" /\ index'[u] = i
    <3>1. u # t
      BY <1>2, <1>8, <1>10, <2>3 DEF Table, TypeOK
    <3>2. pool'[u] = pool[u] /\ pc'[u] = pc[u] /\ index'[u] = index[u] /\ pool[u] \in Pools \ {p}
      BY <1>2, <1>8, <2>3, <3>1, Constants DEF Table, TypeOK
    <3>3. ListedAt(pool[u], i)
      BY <1>10, <2>3, <3>2
    <3> QED
      BY <2>3, <3>2, <3>3 DEF Table, Listing
  <2> QED
    BY <2>1, <2>2, <2>3 DEF Listing
<1> QED
  BY <1>6, <1>7, <1>9, <1>11 DEF Table

\* Steps that neither map nor unmap, and write no guard_begin.
LEMMA WalkTable ==
  ASSUME Table, NEW t \in Builders,
         UNCHANGED <<guard, guardBegin>>, guardEnd' \in [Slots -> 0..(MaxAddress - 1)],
         pool' = [pool EXCEPT ![t] = pool'[t]], pc' = [pc EXCEPT ![t] = pc'[t]],
         index' = [index EXCEPT ![t] = index'[t]], UNCHANGED <<begin, fault>>,
         unlisted' \subseteq Pools, raced' \subseteq Pools,
         pc'[t] \in {"idle"} \cup Building \cup Releasing,
         index'[t] \in Slots,
         IF pc'[t] = "idle" THEN pool'[t] = NoPool /\ index'[t] = 0
         ELSE /\ pool'[t] \in Pools /\ guard[pool'[t]] # NoGuard
              /\ \A u \in Threads \ {t} : pool[u] # pool'[t]
              /\ \A i \in Slots :
                   ListedAt(pool'[t], i) =>
                     \/ pc'[t] = "unregister" /\ index'[t] <= i
                     \/ pc'[t] = "clearBegin" /\ index'[t] = i
  PROVE  Table'
<1>1. guard' = guard /\ guardBegin' = guardBegin /\ t \in Threads /\ t \notin Users
  BY Constants
<1>2. \A p, i : ListedAt(p, i)' = ListedAt(p, i)
  BY <1>1 DEF ListedAt
<1>3. TypeOK' /\ GuardsFit'
  <2>1. pc' \in [Threads -> {"idle"} \cup Building \cup Releasing \cup Finding]
    <3>1. pc \in [Threads -> {"idle"} \cup Building \cup Releasing \cup Finding]
      BY DEF Table, TypeOK, Building, Releasing, Finding
    <3> QED
      BY <1>1, <3>1
  <2>2. pool' \in [Threads -> Pools \cup {NoPool}]
    <3>1. pool'[t] \in Pools \cup {NoPool}
      OBVIOUS
    <3>2. pool \in [Threads -> Pools \cup {NoPool}]
      BY DEF Table, TypeOK
    <3> QED
      BY <1>1, <3>1, <3>2
  <2>3. index' \in [Threads -> Slots]
    BY <1>1 DEF Table, TypeOK
  <2> QED
    BY <1>1, <2>1, <2>2, <2>3, SameGuards DEF Table, TypeOK
<1>4. \A u \in Threads \ {t} : pc'[u] = pc[u] /\ pool'[u] = pool[u] /\ index'[u] = index[u]
  BY DEF Table, TypeOK
<1>5. Positions'
  <2>1. \A u \in Users : u # t /\ u \in Threads
    BY <1>1, Constants
  <2>2. \A u \in Builders : u \in Threads
    BY Constants
  <2>3. \A u \in Threads : pool'[u] # NoPool => guard'[pool'[u]] # NoGuard
    BY <1>1, <1>4 DEF Table, Positions
  <2>4. \A u \in Builders, v \in Threads : pool'[u] # NoPool /\ pool'[v] = pool'[u] => v = u
    BY <1>1, <1>4, <2>2 DEF Table, Positions
  <2> QED
    BY <1>4, <2>1, <2>2, <2>3, <2>4, Constants DEF Table, Positions
<1>6. Listing'
  <2>1. \A u \in Builders : u \in Threads
    BY Constants
  <2>2. \A u \in Builders, i \in Slots :
          pool'[u] # NoPool /\ ListedAt(pool'[u], i) =>
            \/ pc'[u] = "unregister" /\ index'[u] <= i
            \/ pc'[u] = "clearBegin" /\ index'[u] = i
    BY <1>4, <2>1 DEF Table, Listing
  <2> QED
    BY <1>1, <1>2, <2>2 DEF Table, Listing
<1> QED
  BY <1>3, <1>5, <1>6 DEF Table

\* What holds of a builder in the middle of its work.
LEMMA BuilderFacts ==
  ASSUME Table, NEW t \in Builders, pc[t] # "idle"
  PROVE  /\ t \in Threads /\ index[t] \in Slots
         /\ pool[t] \in Pools /\ guard[pool[t]] # NoGuard
         /\ guard[pool[t]].begin # 0
         /\ \A u \in Threads \ {t} : pool[u] # pool[t]
         /\ \A i \in Slots :
              ListedAt(pool[t], i) =>
                \/ pc[t] = "unregister" /\ index[t] <= i
                \/ pc[t] = "clearBegin" /\ index[t] = i
<1>1. t \in Threads /\ index[t] \in Slots /\ pool[t] \in Pools
  BY Constants DEF Table, TypeOK, Positions
<1>2. guard[pool[t]] # NoGuard
  BY <1>1, Constants DEF Table, Positions
<1>3. guard[pool[t]].begin # 0
  BY <1>1, <1>2 DEF Table, GuardsFit
<1>4. \A u \in Threads \ {t} : pool[u] # pool[t]
  BY <1>1, Constants DEF Table, Positions
<1>5. \A i \in Slots :
        ListedAt(pool[t], i) =>
          \/ pc[t] = "unregister" /\ index[t] <= i
          \/ pc[t] = "clearBegin" /\ index[t] = i
  <2> SUFFICES ASSUME NEW i \in Slots, ListedAt(pool[t], i)
               PROVE  \/ pc[t] = "unregister" /\ index[t] <= i
                      \/ pc[t] = "clearBegin" /\ index[t] = i
    OBVIOUS
  <2>1. pool[t] # NoPool
    BY <1>1, Constants
  <2>2. Listing
    BY DEF Table
  <2> QED
    BY <2>1, <2>2 DEF Listing
<1> QED
  BY <1>1, <1>2, <1>3, <1>4, <1>5

\* Where every slot but the one t is at cannot be the last one.
LEMMA LastSlot ==
  \A i, j \in Slots : i = MaxSlots - 1 => j <= i
  BY Constants DEF Slots

LEMMA WalkSteps ==
  ASSUME Table, NEW t \in Builders,
         \/ \E p \in Pools : Release(t, p)
         \/ LoadFree(t) \/ LoadTaken(t) \/ TableFull(t) \/ LoadOther(t) \/ LoadOwn(t)
  PROVE  Table'
<1>1. /\ t \in Threads
      /\ pool \in [Threads -> Pools \cup {NoPool}] /\ index \in [Threads -> Slots]
      /\ pc[t] \in {"idle"} \cup Building \cup Releasing
      /\ unlisted \subseteq Pools /\ raced \subseteq Pools
      /\ guardEnd \in [Slots -> 0..(MaxAddress - 1)]
  BY Constants DEF Table, TypeOK, Positions
<1>2. ASSUME NEW p \in Pools, Release(t, p)
      PROVE  Table'
  <2>1. /\ guard[p] # NoGuard /\ \A u \in Threads : pool[u] # p
        /\ pc[t] = "idle" /\ pc' = [pc EXCEPT ![t] = "unregister"]
        /\ pool' = [pool EXCEPT ![t] = p] /\ index' = index
        /\ UNCHANGED <<guard, guardBegin, guardEnd, begin, fault, unlisted, raced>>
    BY <1>2 DEF Release, Busy, Go, table, history
  <2>2. index[t] = 0 /\ pool'[t] = p /\ pc'[t] = "unregister"
    BY <1>1, <2>1 DEF Table, TypeOK, Positions
  <2>3. index' = [index EXCEPT ![t] = index'[t]] /\ index'[t] \in Slots
    BY <1>1, <2>1
  <2>4. \A i \in Slots : index'[t] <= i
    BY <2>1, <2>2, Constants DEF Slots
  <2> QED
    BY <1>1, <2>1, <2>2, <2>3, <2>4, WalkTable DEF Releasing
<1>3. CASE LoadFree(t)
  <2>1. /\ pc[t] = "register" /\ pc' = [pc EXCEPT ![t] = "storeEnd"]
        /\ pool' = pool /\ index' = index
        /\ UNCHANGED <<guard, guardBegin, guardEnd, begin, fault, unlisted>>
        /\ raced' = IF Rivals(t) = {} THEN raced ELSE raced \cup {pool[u] : u \in Rivals(t) \cup {t}}
    BY <1>3 DEF LoadFree, Go, table
  <2>2. raced' \subseteq Pools
    <3>1. \A u \in Rivals(t) \cup {t} : pool[u] \in Pools
      BY <1>1, <2>1, Constants DEF Rivals, Table, TypeOK, Positions
    <3> QED
      BY <1>1, <2>1, <3>1
  <2>3. pc'[t] = "storeEnd" /\ pool' = [pool EXCEPT ![t] = pool'[t]]
        /\ index' = [index EXCEPT ![t] = index'[t]]
    BY <1>1, <2>1 DEF Table, TypeOK
  <2>4. pc[t] # "idle" /\ pc[t] # "unregister" /\ pc[t] # "clearBegin"
    BY <2>1
  <2> QED
    BY <1>1, <2>1, <2>2, <2>3, <2>4, BuilderFacts, WalkTable DEF Building
<1>4. CASE LoadTaken(t)
  <2>1. /\ NextSlot(t, "register", "register", "idle") /\ index[t] + 1 < MaxSlots
        /\ pool' = pool
        /\ UNCHANGED <<guard, guardBegin, guardEnd, begin, fault, unlisted, raced>>
    BY <1>4 DEF LoadTaken, table, history
  <2>2. /\ pc[t] = "register" /\ pc' = [pc EXCEPT ![t] = "register"]
        /\ index' = [index EXCEPT ![t] = index[t] + 1] /\ index[t] + 1 \in Slots
    BY <1>1, <2>1, NextSlotFacts, Constants DEF Table, Slots
  <2>3. /\ pc'[t] = "register" /\ pool' = [pool EXCEPT ![t] = pool'[t]]
        /\ index'[t] = index[t] + 1
    BY <1>1, <2>1, <2>2 DEF Table, TypeOK
  <2>4. pc[t] # "idle" /\ pc[t] # "unregister" /\ pc[t] # "clearBegin"
    BY <2>2
  <2> QED
    BY <1>1, <2>1, <2>2, <2>3, <2>4, BuilderFacts, WalkTable DEF Building
<1>5. CASE TableFull(t)
  <2>1. /\ pc[t] = "register" /\ pc' = [pc EXCEPT ![t] = "idle"]
        /\ pool' = [pool EXCEPT ![t] = NoPool] /\ index' = [index EXCEPT ![t] = 0]
        /\ UNCHANGED <<guard, guardBegin, guardEnd, begin, fault, raced>>
        /\ unlisted' = unlisted \cup {pool[t]}
    BY <1>5 DEF TableFull, Done, Go, table
  <2>2. pc'[t] = "idle" /\ pool'[t] = NoPool /\ index'[t] = 0 /\ 0 \in Slots
    BY <1>1, <2>1, Constants DEF Table, TypeOK
  <2>3. unlisted' \subseteq Pools
    BY <1>1, <2>1, BuilderFacts
  <2> QED
    BY <1>1, <2>1, <2>2, <2>3, WalkTable
<1>6. CASE LoadOther(t)
  <2>1. /\ NextSlot(t, "unregister", "unregister", "unmap")
        /\ pool' = pool /\ guardBegin[index[t]] # guard[pool[t]].begin
        /\ UNCHANGED <<guard, guardBegin, guardEnd, begin, fault, unlisted, raced>>
    BY <1>6 DEF LoadOther, table, history
  <2>2. pc[t] = "unregister" /\ pc[t] # "idle"
    BY <1>1, <2>1, NextSlotFacts DEF Table
  <2>3. \A i \in Slots : ListedAt(pool[t], i) => index[t] <= i /\ i # index[t]
    BY <2>1, <2>2, BuilderFacts DEF ListedAt
  <2>4. pool' = [pool EXCEPT ![t] = pool'[t]]
    BY <1>1, <2>1
  <2>5. CASE /\ index[t] + 1 \in Slots
             /\ pc' = [pc EXCEPT ![t] = "unregister"]
             /\ index' = [index EXCEPT ![t] = index[t] + 1]
    <3>1. pc'[t] = "unregister" /\ index'[t] = index[t] + 1
      BY <1>1, <2>5 DEF Table, TypeOK
    <3>2. \A i \in Slots : ListedAt(pool[t], i) => index'[t] <= i
      BY <1>1, <2>3, <3>1, Constants DEF Slots
    <3> QED
      BY <1>1, <2>1, <2>2, <2>4, <2>5, <3>1, <3>2, BuilderFacts, WalkTable DEF Releasing
  <2>6. CASE /\ index[t] = MaxSlots - 1
             /\ pc' = [pc EXCEPT ![t] = "unmap"] /\ index' = [index EXCEPT ![t] = 0]
    <3>1. pc'[t] = "unmap" /\ index'[t] = 0 /\ 0 \in Slots
      BY <1>1, <2>6, Constants DEF Table, TypeOK
    <3>2. \A i \in Slots : ~ListedAt(pool[t], i)
      BY <1>1, <2>3, <2>6, LastSlot, Constants DEF Slots
    <3> QED
      BY <1>1, <2>1, <2>2, <2>4, <2>6, <3>1, <3>2, BuilderFacts, WalkTable DEF Releasing
  <2> QED
    BY <1>1, <2>1, <2>5, <2>6, NextSlotFacts DEF Table
<1>7. CASE LoadOwn(t)
  <2>1. /\ pc[t] = "unregister" /\ pc' = [pc EXCEPT ![t] = "clearBegin"]
        /\ pool' = pool /\ index' = index
        /\ guardBegin[index[t]] = guard[pool[t]].begin
        /\ UNCHANGED <<guard, guardBegin, guardEnd, begin, fault, unlisted, raced>>
    BY <1>7 DEF LoadOwn, Go, table, history
  <2>2. /\ pc'[t] = "clearBegin" /\ pool' = [pool EXCEPT ![t] = pool'[t]]
        /\ index' = [index EXCEPT ![t] = index'[t]] /\ pc[t] # "idle"
    BY <1>1, <2>1 DEF Table, TypeOK
  <2>3. \A i \in Slots : ListedAt(pool[t], i) => index[t] = i
    BY <1>1, <2>1, <2>2, BuilderFacts DEF ListedAt, Table, Listing
  <2> QED
    BY <1>1, <2>1, <2>2, <2>3, BuilderFacts, WalkTable DEF Releasing
<1> QED
  BY <1>2, <1>3, <1>4, <1>5, <1>6, <1>7

LEMMA StoreEndSteps ==
  ASSUME Table, NEW t \in Builders, StoreEnd(t) \/ ClearEnd(t)
  PROVE  Table'
<1>1. /\ t \in Threads
      /\ pool \in [Threads -> Pools \cup {NoPool}] /\ index \in [Threads -> Slots]
      /\ unlisted \subseteq Pools /\ raced \subseteq Pools
      /\ guardEnd \in [Slots -> 0..(MaxAddress - 1)]
  BY Constants DEF Table, TypeOK
<1>2. /\ pc[t] \in {"storeEnd", "clearEnd"}
      /\ pc' = [pc EXCEPT ![t] = IF StoreEnd(t) THEN "storeBegin" ELSE "unmap"]
      /\ \/ guardEnd' = [guardEnd EXCEPT ![index[t]] = guard[pool[t]].end]
         \/ guardEnd' = [guardEnd EXCEPT ![index[t]] = 0]
      /\ UNCHANGED <<guard, guardBegin, pool, index, begin, fault, unlisted, raced>>
  BY DEF StoreEnd, ClearEnd, Go, history
<1>3. pc[t] # "idle" /\ pc[t] # "unregister" /\ pc[t] # "clearBegin"
  BY <1>2
<1>4. guardEnd' \in [Slots -> 0..(MaxAddress - 1)]
  <2>1. guard[pool[t]].end \in 0..(MaxAddress - 1) /\ 0 \in 0..(MaxAddress - 1)
    BY <1>3, BuilderFacts, Constants DEF Table, TypeOK
  <2> QED
    BY <1>1, <1>2, <2>1
<1>5. /\ pool' = [pool EXCEPT ![t] = pool'[t]] /\ index' = [index EXCEPT ![t] = index'[t]]
      /\ pc' = [pc EXCEPT ![t] = pc'[t]] /\ pc'[t] \in {"storeBegin", "unmap"}
  BY <1>1, <1>2 DEF Table, TypeOK
<1> QED
  BY <1>1, <1>2, <1>3, <1>4, <1>5, BuilderFacts, WalkTable DEF Building, Releasing

\* The registration: no other slot has the pool's guard, and the slot is no
\* builder's that releases a pool it has found there, or it was written over.
LEMMA StoreBeginTable ==
  ASSUME Table, NEW t \in Builders, StoreBegin(t)
  PROVE  Table'
<1> DEFINE p == pool[t]
           k == index[t]
<1>1. /\ pc[t] = "storeBegin" /\ pc' = [pc EXCEPT ![t] = "idle"]
      /\ pool' = [pool EXCEPT ![t] = NoPool] /\ index' = [index EXCEPT ![t] = 0]
      /\ guardBegin' = [guardBegin EXCEPT ![k] = guard[p].begin]
      /\ UNCHANGED <<guard, guardEnd, begin, fault, unlisted, raced>>
  BY DEF StoreBegin, Done, Go, history
<1>2. /\ t \in Threads /\ k \in Slots /\ p \in Pools /\ guard[p] # NoGuard
      /\ guard[p].begin # 0
      /\ \A u \in Threads \ {t} : pool[u] # p
      /\ \A i \in Slots : ~ListedAt(p, i)
  BY <1>1, BuilderFacts
<1>3. /\ pool \in [Threads -> Pools \cup {NoPool}] /\ index \in [Threads -> Slots]
      /\ guardBegin \in [Slots -> 0..(MaxAddress - 1)]
      /\ pc \in [Threads -> {"idle"} \cup Building \cup Releasing \cup Finding]
  BY DEF Table, TypeOK, Building, Releasing, Finding
<1> HIDE DEF p, k
<1>4. /\ guardBegin'[k] = guard[p].begin
      /\ \A i \in Slots \ {k} : guardBegin'[i] = guardBegin[i]
      /\ guardBegin' \in [Slots -> 0..(MaxAddress - 1)]
  BY <1>1, <1>2, <1>3 DEF Table, TypeOK
<1>5. TypeOK' /\ GuardsFit'
  <2>1. /\ pc' \in [Threads -> {"idle"} \cup Building \cup Releasing \cup Finding]
        /\ pool' \in [Threads -> Pools \cup {NoPool}] /\ index' \in [Threads -> Slots]
    BY <1>1, <1>3, Constants
  <2> QED
    BY <1>1, <1>4, <2>1, SameGuards DEF Table, TypeOK
<1>6. /\ pc'[t] = "idle" /\ pool'[t] = NoPool /\ index'[t] = 0
      /\ \A u \in Threads \ {t} : pc'[u] = pc[u] /\ pool'[u] = pool[u] /\ index'[u] = index[u]
  BY <1>1, <1>2, <1>3
<1>7. Positions'
  BY <1>1, <1>2, <1>6, Constants DEF Table, Positions
<1>8. Listing'
  <2>1. ASSUME NEW i \in Slots, guardBegin'[i] # 0
        PROVE  \E q \in Pools : ListedAt(q, i)'
    BY <1>1, <1>2, <1>4, <2>1 DEF Table, Listing, ListedAt
  <2>2. ASSUME NEW i \in Slots, NEW j \in Slots,
               guardBegin'[i] = guardBegin'[j], guardBegin'[i] # 0
        PROVE  i = j
    BY <1>2, <1>4, <2>2 DEF Table, Listing, ListedAt
  <2>3. ASSUME NEW u \in Builders, NEW i \in Slots, pool'[u] # NoPool, ListedAt(pool[u], i)'
        PROVE  \/ pc'[u] = "unregister" /\ index'[u] <= i
               \/ pc'[u] = "clearBegin" /\ index'[u] = i
    <3>1. u # t /\ u \in Threads
      BY <1>6, <2>3, Constants
    <3>2. pool[u] \in Pools /\ pool[u] # p /\ guard[pool[u]] # NoGuard /\ pool'[u] = pool[u]
      BY <1>1, <1>2, <1>3, <1>6, <2>3, <3>1 DEF ListedAt
    <3>3. guard'[pool[u]].begin = guardBegin'[i] /\ guard' = guard
      BY <1>1, <1>6, <2>3, <3>1 DEF ListedAt
    <3>4. i # k
      BY <1>2, <1>4, <3>2, <3>3, DistinctBegins DEF Table
    <3>5. ListedAt(pool[u], i)
      BY <1>4, <3>2, <3>3, <3>4 DEF ListedAt
    <3> QED
      BY <1>6, <2>3, <3>1, <3>5 DEF Table, Listing
  <2>4. \A u \in Builders : u # t => pool'[u] = pool[u]
    BY <1>6, Constants
  <2> QED
    BY <1>6, <2>1, <2>2, <2>3, <2>4 DEF Listing, ListedAt
<1> QED
  BY <1>5, <1>7, <1>8 DEF Table

\* The slot is struck off, whoever has it by now.
LEMMA ClearBeginTable ==
  ASSUME Table, NEW t \in Builders, ClearBegin(t)
  PROVE  Table'
<1> DEFINE p == pool[t]
           k == index[t]
<1>1. /\ pc[t] = "clearBegin" /\ pc' = [pc EXCEPT ![t] = "clearEnd"]
      /\ guardBegin' = [guardBegin EXCEPT ![k] = 0]
      /\ UNCHANGED <<guard, guardEnd, pool, index, begin, fault, unlisted, raced>>
  BY DEF ClearBegin, Go, history
<1>2. /\ t \in Threads /\ k \in Slots /\ p \in Pools /\ guard[p] # NoGuard
      /\ \A u \in Threads \ {t} : pool[u] # p
      /\ \A i \in Slots : ListedAt(p, i) => i = k
  BY <1>1, BuilderFacts
<1>3. /\ guardBegin \in [Slots -> 0..(MaxAddress - 1)] /\ 0 \in 0..(MaxAddress - 1)
      /\ pc \in [Threads -> {"idle"} \cup Building \cup Releasing \cup Finding]
  BY Constants DEF Table, TypeOK, Building, Releasing, Finding
<1> HIDE DEF p, k
<1>4. /\ guardBegin'[k] = 0
      /\ \A i \in Slots \ {k} : guardBegin'[i] = guardBegin[i]
      /\ guardBegin' \in [Slots -> 0..(MaxAddress - 1)]
  BY <1>1, <1>2, <1>3
<1>5. TypeOK' /\ GuardsFit'
  <2>1. pc' \in [Threads -> {"idle"} \cup Building \cup Releasing \cup Finding]
    BY <1>1, <1>3 DEF Releasing
  <2> QED
    BY <1>1, <1>4, <2>1, SameGuards DEF Table, TypeOK
<1>6. pc'[t] = "clearEnd" /\ \A u \in Threads \ {t} : pc'[u] = pc[u]
  BY <1>1, <1>2, <1>3
<1>7. Positions'
  BY <1>1, <1>2, <1>6, Constants DEF Table, Positions, Releasing
<1>8. \A q \in Pools, i \in Slots : ListedAt(q, i)' <=> ListedAt(q, i) /\ i # k
  BY <1>1, <1>4 DEF Table, GuardsFit, ListedAt
<1>9. Listing'
  <2>1. ASSUME NEW i \in Slots, guardBegin'[i] # 0
        PROVE  \E q \in Pools : ListedAt(q, i)'
    BY <1>4, <1>8, <2>1 DEF Table, Listing
  <2>2. ASSUME NEW i \in Slots, NEW j \in Slots,
               guardBegin'[i] = guardBegin'[j], guardBegin'[i] # 0
        PROVE  i = j
    BY <1>4, <2>2 DEF Table, Listing
  <2>3. ASSUME NEW u \in Builders, NEW i \in Slots, pool[u] # NoPool, ListedAt(pool[u], i)'
        PROVE  \/ pc'[u] = "unregister" /\ index[u] <= i
               \/ pc'[u] = "clearBegin" /\ index[u] = i
    <3>1. u \in Threads /\ pool[u] \in Pools
      BY <2>3, Constants DEF Table, TypeOK
    <3>2. ListedAt(pool[u], i) /\ i # k
      BY <1>1, <1>8, <2>3, <3>1 DEF ListedAt
    <3>3. u # t
      BY <1>2, <3>2 DEF p
    <3> QED
      BY <1>6, <2>3, <3>1, <3>2, <3>3 DEF Table, Listing, ListedAt
  <2> QED
    BY <1>1, <2>1, <2>2, <2>3 DEF Listing, ListedAt
<1> QED
  BY <1>5, <1>7, <1>9 DEF Table

\* No slot has the guard any more when the mapping goes.
LEMMA UnmapTable ==
  ASSUME Table, NEW t \in Builders, Unmap(t)
  PROVE  Table'
<1>0. PICK p : p = pool[t]
  OBVIOUS
<1>1. /\ pc[t] = "unmap" /\ pc' = [pc EXCEPT ![t] = "idle"]
      /\ pool' = [pool EXCEPT ![t] = NoPool] /\ index' = [index EXCEPT ![t] = 0]
      /\ guard' = [guard EXCEPT ![p] = NoGuard]
      /\ unlisted' = unlisted \ {p} /\ raced' = raced \ {p}
      /\ UNCHANGED <<guardBegin, guardEnd, begin, fault>>
  BY <1>0 DEF Unmap, Done, Go, table
<1>2. /\ t \in Threads /\ p \in Pools /\ p = pool[t]
      /\ \A u \in Threads \ {t} : pool[u] # p
      /\ \A i \in Slots : ~ListedAt(p, i)
  BY <1>0, <1>1, BuilderFacts
<1>3. /\ pool \in [Threads -> Pools \cup {NoPool}] /\ index \in [Threads -> Slots]
      /\ guard \in [Pools -> [begin : 0..(MaxAddress - 1), end : 0..(MaxAddress - 1)]]
      /\ pc \in [Threads -> {"idle"} \cup Building \cup Releasing \cup Finding]
      /\ NoGuard \in [begin : 0..(MaxAddress - 1), end : 0..(MaxAddress - 1)]
  BY Constants DEF Table, TypeOK, Building, Releasing, Finding, NoGuard
<1>4. guard'[p] = NoGuard /\ \A q \in Pools \ {p} : guard'[q] = guard[q]
  BY <1>1, <1>2, <1>3
<1>5. Mapping(p)' = {} /\ \A q \in Pools \ {p} : Mapping(q)' = Mapping(q)
  BY <1>4 DEF Mapping
<1>6. TypeOK'
  <2>1. \A q, r \in Pools : q # r => Mapping(q)' \cap Mapping(r)' = {}
    BY <1>5 DEF Table, TypeOK
  <2>2. guard' \in [Pools -> [begin : 0..(MaxAddress - 1), end : 0..(MaxAddress - 1)]]
    BY <1>1, <1>3
  <2>3. /\ pool' \in [Threads -> Pools \cup {NoPool}] /\ index' \in [Threads -> Slots]
        /\ unlisted' \subseteq Pools /\ raced' \subseteq Pools
    BY <1>1, <1>3, Constants DEF Table, TypeOK
  <2>4. /\ guardBegin' \in [Slots -> 0..(MaxAddress - 1)]
        /\ guardEnd' \in [Slots -> 0..(MaxAddress - 1)]
        /\ begin' \in [Threads -> 0..(MaxAddress - 1)]
        /\ fault' \in [Threads -> 0..(MaxAddress - 1)]
    BY <1>1 DEF Table, TypeOK
  <2>5. pc' \in [Threads -> {"idle"} \cup Building \cup Releasing \cup Finding]
    BY <1>1, <1>3
  <2> QED
    BY <2>1, <2>2, <2>3, <2>4, <2>5 DEF TypeOK, Building, Releasing, Finding
<1>7. GuardsFit'
  BY <1>4 DEF Table, GuardsFit
<1>8. /\ pc'[t] = "idle" /\ pool'[t] = NoPool /\ index'[t] = 0
      /\ \A u \in Threads \ {t} : pc'[u] = pc[u] /\ pool'[u] = pool[u] /\ index'[u] = index[u]
  BY <1>1, <1>2, <1>3
<1>9. Positions'
  <2>1. \A u \in Threads : pool'[u] # NoPool => guard'[pool'[u]] # NoGuard
    BY <1>2, <1>3, <1>4, <1>8 DEF Table, Positions
  <2> QED
    BY <1>2, <1>8, <2>1, Constants DEF Table, Positions
<1>10. \A q \in Pools, i \in Slots : ListedAt(q, i)' <=> ListedAt(q, i)
  BY <1>1, <1>2, <1>4 DEF ListedAt
<1>11. Listing'
  <2>1. ASSUME NEW i \in Slots, guardBegin'[i] # 0
        PROVE  \E q \in Pools : ListedAt(q, i)'
    BY <1>1, <1>10, <2>1 DEF Table, Listing
  <2>2. ASSUME NEW u \in Builders, NEW i \in Slots, pool'[u] # NoPool, ListedAt(pool[u], i)'
        PROVE  \/ pc'[u] = "unregister" /\ index'[u] <= i
               \/ pc'[u] = "clearBegin" /\ index'[u] = i
    <3>1. u # t /\ u \in Threads
      BY <1>8, <2>2, Constants
    <3>2. ListedAt(pool[u], i) /\ pool[u] # NoPool
      BY <1>3, <1>8, <1>10, <2>2, <3>1 DEF Table, TypeOK
    <3> QED
      BY <1>8, <3>1, <3>2 DEF Table, Listing, ListedAt
  <2>3. \A u \in Builders : pool'[u] # NoPool => pool'[u] = pool[u]
    BY <1>8, Constants
  <2> QED
    BY <1>1, <2>1, <2>2, <2>3 DEF Table, Listing, ListedAt
<1> QED
  BY <1>6, <1>7, <1>9, <1>11 DEF Table

\* A user reads, and only pools that no builder has in hand.
LEMMA UserTable ==
  ASSUME Table, NEW t \in Users, UNCHANGED <<guard, table, history>>,
         pool' = [pool EXCEPT ![t] = pool'[t]], pc' = [pc EXCEPT ![t] = pc'[t]],
         index' = [index EXCEPT ![t] = index'[t]],
         begin' = [begin EXCEPT ![t] = begin'[t]], fault' = [fault EXCEPT ![t] = fault'[t]],
         pc'[t] \in Finding, pool'[t] \in Pools \cup {NoPool}, index'[t] \in Slots,
         begin'[t] \in 0..(MaxAddress - 1), fault'[t] \in 0..(MaxAddress - 1),
         pool'[t] # NoPool => /\ guard[pool'[t]] # NoGuard
                              /\ \A b \in Builders : pool[b] # pool'[t]
  PROVE  Table'
<1>1. /\ guard' = guard /\ guardBegin' = guardBegin /\ guardEnd' = guardEnd
      /\ unlisted' = unlisted /\ raced' = raced
      /\ t \in Threads /\ t \notin Builders
  BY Constants DEF table, history
<1>2. TypeOK' /\ GuardsFit'
  <2>1. /\ pool' \in [Threads -> Pools \cup {NoPool}] /\ index' \in [Threads -> Slots]
        /\ begin' \in [Threads -> 0..(MaxAddress - 1)]
        /\ fault' \in [Threads -> 0..(MaxAddress - 1)]
    BY DEF Table, TypeOK
  <2>2. pc' \in [Threads -> {"idle"} \cup Building \cup Releasing \cup Finding]
    <3>1. pc \in [Threads -> {"idle"} \cup Building \cup Releasing \cup Finding]
      BY DEF Table, TypeOK, Building, Releasing, Finding
    <3> QED
      BY <3>1
  <2> QED
    BY <1>1, <2>1, <2>2, SameGuards DEF Table, TypeOK
<1>3. \A u \in Threads \ {t} : pc'[u] = pc[u] /\ pool'[u] = pool[u] /\ index'[u] = index[u]
  BY DEF Table, TypeOK
<1>4. \A u \in Builders : u \in Threads \ {t}
  BY <1>1, Constants
<1>5. Positions'
  <2>1. \A u \in Users : u \in Threads
    BY Constants
  <2>2. \A u \in Threads : pool'[u] # NoPool => guard'[pool'[u]] # NoGuard
    BY <1>1, <1>3 DEF Table, Positions
  <2>3. \A u \in Builders, v \in Threads : pool'[u] # NoPool /\ pool'[v] = pool'[u] => v = u
    BY <1>3, <1>4 DEF Table, Positions
  <2>4. pc'[t] # "idle"
    BY DEF Finding
  <2> QED
    BY <1>3, <1>4, <2>1, <2>2, <2>3, <2>4 DEF Table, Positions
<1>6. Listing'
  BY <1>1, <1>3, <1>4 DEF Table, Listing, ListedAt
<1> QED
  BY <1>2, <1>5, <1>6 DEF Table

\* The places a user goes through.
LEMMA UserFacts ==
  ASSUME Table, NEW t \in Users
  PROVE  /\ t \in Threads /\ index[t] \in Slots /\ pool[t] \in Pools \cup {NoPool}
         /\ begin[t] \in 0..(MaxAddress - 1) /\ fault[t] \in 0..(MaxAddress - 1)
         /\ guardBegin[index[t]] \in 0..(MaxAddress - 1)
         /\ pool[t] # NoPool => /\ guard[pool[t]] # NoGuard
                                /\ \A b \in Builders : pool[b] # pool[t]
         /\ pool = [pool EXCEPT ![t] = pool[t]] /\ index = [index EXCEPT ![t] = index[t]]
         /\ begin = [begin EXCEPT ![t] = begin[t]] /\ fault = [fault EXCEPT ![t] = fault[t]]
<1>1. t \in Threads /\ t \notin Builders
  BY Constants
<1>2. /\ index[t] \in Slots /\ pool[t] \in Pools \cup {NoPool}
      /\ begin[t] \in 0..(MaxAddress - 1) /\ fault[t] \in 0..(MaxAddress - 1)
      /\ guardBegin[index[t]] \in 0..(MaxAddress - 1)
  BY <1>1 DEF Table, TypeOK
<1>3. pool[t] # NoPool => guard[pool[t]] # NoGuard /\ \A b \in Builders : pool[b] # pool[t]
  BY <1>1 DEF Table, Positions
<1>4. /\ pool = [pool EXCEPT ![t] = pool[t]] /\ index = [index EXCEPT ![t] = index[t]]
      /\ begin = [begin EXCEPT ![t] = begin[t]] /\ fault = [fault EXCEPT ![t] = fault[t]]
  BY <1>1 DEF Table, TypeOK
<1> QED
  BY <1>1, <1>2, <1>3, <1>4

\* The steps of a user, as what they change.
LEMMA UserStepFacts ==
  ASSUME Table, NEW t \in Users, UserStep(t)
  PROVE  /\ UNCHANGED <<guard, table, history>>
         /\ pool' = [pool EXCEPT ![t] = pool'[t]] /\ pc' = [pc EXCEPT ![t] = pc'[t]]
         /\ index' = [index EXCEPT ![t] = index'[t]]
         /\ begin' = [begin EXCEPT ![t] = begin'[t]]
         /\ fault' = [fault EXCEPT ![t] = fault'[t]]
         /\ pc'[t] \in Finding /\ pool'[t] \in Pools \cup {NoPool} /\ index'[t] \in Slots
         /\ begin'[t] \in 0..(MaxAddress - 1) /\ fault'[t] \in 0..(MaxAddress - 1)
         /\ pool'[t] # NoPool => /\ guard[pool'[t]] # NoGuard
                                 /\ \A b \in Builders : pool[b] # pool'[t]
<1>1. t \in Threads /\ pc \in [Threads -> {"idle"} \cup Building \cup Releasing \cup Finding]
  BY UserFacts DEF Table, TypeOK, Building, Releasing, Finding
<1>2. /\ pool \in [Threads -> Pools \cup {NoPool}] /\ index \in [Threads -> Slots]
      /\ begin \in [Threads -> 0..(MaxAddress - 1)] /\ fault \in [Threads -> 0..(MaxAddress - 1)]
  BY DEF Table, TypeOK
<1>3. ASSUME NEW p \in Pools, Overflow(t, p)
      PROVE  /\ guard[p] # NoGuard /\ \A b \in Builders : pool[b] # p
             /\ pc' = [pc EXCEPT ![t] = "findBegin"] /\ pool' = [pool EXCEPT ![t] = p]
             /\ UNCHANGED <<guard, table, history, index, begin>>
             /\ \E a \in 0..(MaxAddress - 1) : fault' = [fault EXCEPT ![t] = a]
  <2>1. Guards(p) \subseteq 0..(MaxAddress - 1)
    BY RegistryAssumption DEF Guards, Mapping, Table, TypeOK
  <2> QED
    BY <1>3, <2>1 DEF Overflow, Go, history
<1>4. ASSUME TouchWild(t)
      PROVE  /\ pc' = [pc EXCEPT ![t] = "findBegin"]
             /\ UNCHANGED <<guard, table, history, pool, index, begin>>
             /\ \E a \in 0..(MaxAddress - 1) : fault' = [fault EXCEPT ![t] = a]
  <2>1. Addresses \subseteq 0..(MaxAddress - 1)
    BY Constants DEF Addresses
  <2>2. PICK a \in Addresses : fault' = [fault EXCEPT ![t] = a]
    BY <1>4 DEF TouchWild
  <2> QED
    BY <1>4, <2>1, <2>2 DEF TouchWild, Go
<1>5. ASSUME FindBegin(t) \/ FindEnd(t)
      PROVE  /\ UNCHANGED <<guard, table, history, pool, fault>>
             /\ \E place \in Finding : pc' = [pc EXCEPT ![t] = place]
             /\ \E i \in Slots : index' = [index EXCEPT ![t] = i]
             /\ \E a \in 0..(MaxAddress - 1) : begin' = [begin EXCEPT ![t] = a]
  <2>1. 0 \in 0..(MaxAddress - 1)
    BY Constants
  <2>2. CASE FindBegin(t)
    <3>1. CASE guardBegin[index[t]] = 0
      BY <1>1, <2>2, <3>1, NextSlotFacts, UserFacts, Constants DEF FindBegin, Table, Finding
    <3>2. CASE guardBegin[index[t]] # 0
      BY <1>1, <2>2, <3>2, UserFacts DEF FindBegin, Go, Finding
    <3> QED
      BY <3>1, <3>2
  <2>3. CASE FindEnd(t)
    <3>1. CASE begin[t] <= fault[t] /\ fault[t] < guardEnd[index[t]]
      BY <1>1, <2>3, <3>1, UserFacts DEF FindEnd, Go, Finding
    <3>2. CASE ~(begin[t] <= fault[t] /\ fault[t] < guardEnd[index[t]])
      BY <1>1, <2>1, <2>3, <3>2, NextSlotFacts, UserFacts, Constants DEF FindEnd, Table, Finding
    <3> QED
      BY <3>1, <3>2
  <2> QED
    BY <1>5, <2>2, <2>3
<1>6. CASE \E p \in Pools : Overflow(t, p)
  BY <1>1, <1>2, <1>3, <1>6, UserFacts DEF Finding
<1>7. CASE TouchWild(t)
  BY <1>1, <1>2, <1>4, <1>7, UserFacts DEF Finding
<1>8. CASE FindBegin(t) \/ FindEnd(t)
  BY <1>1, <1>2, <1>5, <1>8, UserFacts
<1> QED
  BY <1>6, <1>7, <1>8 DEF UserStep

LEMMA TableNext == Table /\ [Next]_vars => Table'
<1> SUFFICES ASSUME Table, [Next]_vars PROVE Table'
  OBVIOUS
<1>1. ASSUME NEW t \in Builders, BuilderStep(t)
      PROVE  Table'
  BY <1>1, MapPoolTable, WalkSteps, StoreEndSteps, StoreBeginTable, ClearBeginTable,
     UnmapTable DEF BuilderStep
<1>2. ASSUME NEW t \in Users, UserStep(t)
      PROVE  Table'
  BY <1>2, UserStepFacts, UserTable
<1>3. CASE UNCHANGED vars
  BY <1>3 DEF vars, table, local, history, Table, TypeOK, GuardsFit, Positions, Listing,
              ListedAt, Mapping
<1> QED
  BY <1>1, <1>2, <1>3 DEF Next, Ended

THEOREM TableInvariance == Spec => []Table
  BY TableInit, TableNext, PTL DEF Spec

THEOREM TypeCorrect == Spec => []TypeOK
<1>1. Table => TypeOK
  BY DEF Table
<1> QED
  BY <1>1, TableInvariance, PTL

\* However many threads construct and release pools: what the table names is
\* mapped, and named once.
THEOREM NothingUnmappedListed == Spec => []ListedGuardsMapped
<1>1. Table => ListedGuardsMapped
  BY DEF Table, Listing, ListedAt, ListedGuardsMapped
<1> QED
  BY <1>1, TableInvariance, PTL

-----------------------------------------------------------------------------
(* The races.                                                              *)

\* Thread u has a store to slot i ahead of it.
Writer(u, i) ==
  index[u] = i /\ pc[u] \in {"storeEnd", "storeBegin", "clearBegin", "clearEnd"}

\* Unless a pool has raced, nobody else writes the slot it has or is taking;
\* and it has a slot from the end of its construction, if there was one.
Settled ==
  /\ \A p \in Pools \ raced, i \in Slots :
       ListedAt(p, i) => /\ guardEnd[i] = guard[p].end
                         /\ \A u \in Builders : Writer(u, i) => pool[u] = p
  /\ \A t \in Builders :
       pc[t] \in {"storeEnd", "storeBegin"} /\ pool[t] \notin raced =>
         /\ guardBegin[index[t]] = 0
         /\ pc[t] = "storeBegin" => guardEnd[index[t]] = guard[pool[t]].end
         /\ \A u \in Builders : Writer(u, index[t]) => u = t
  /\ \A p \in Pools \ (raced \cup unlisted) :
       guard[p] # NoGuard /\ (\A t \in Builders : pool[t] # p) =>
         \E i \in Slots : ListedAt(p, i)

LEMMA SettledInit == Init => Settled
<1> SUFFICES ASSUME Init PROVE Settled
  OBVIOUS
<1>1. \A p \in Pools : guard[p] = NoGuard
  BY DEF Init
<1>2. \A t \in Builders : pc[t] = "idle"
  BY Constants DEF Init
<1> QED
  BY <1>1, <1>2 DEF Settled, ListedAt

\* Builders other than t stay where they are.
Still(t) ==
  \A u \in Builders \ {t} : pc'[u] = pc[u] /\ pool'[u] = pool[u] /\ index'[u] = index[u]

\* Steps that bring nobody to a store or from one.
LEMMA QuietSettled ==
  ASSUME Table, Table', Settled, NEW t \in Builders, Still(t),
         UNCHANGED <<guardBegin, guardEnd, raced>>,
         \A i : ~Writer(t, i), \A i : ~Writer(t, i)',
         \A q \in Pools : guard'[q] = guard[q] \/ (pool'[t] = q /\ pc'[t] = "register"),
         unlisted \subseteq unlisted',
         pool[t] = NoPool \/ pool'[t] = pool[t] \/ pool[t] \in unlisted'
  PROVE  Settled'
<1>1. \A u \in Builders : \A i : Writer(u, i)' => Writer(u, i) /\ u # t /\ pool'[u] = pool[u]
  BY DEF Writer, Still
<1>2. ASSUME NEW p \in Pools, NEW i \in Slots, ListedAt(p, i)'
      PROVE  ListedAt(p, i) /\ guard'[p] = guard[p]
  <2>1. CASE guard'[p] = guard[p]
    BY <1>2, <2>1 DEF ListedAt
  <2>2. CASE pool'[t] = p /\ pc'[t] = "register"
    BY <1>2, <2>2, Constants DEF Table, Listing, ListedAt
  <2> QED
    BY <2>1, <2>2
<1>3. ASSUME NEW p \in Pools \ raced', NEW i \in Slots, ListedAt(p, i)'
      PROVE  /\ guardEnd'[i] = guard'[p].end
             /\ \A u \in Builders : Writer(u, i)' => pool'[u] = p
  BY <1>1, <1>2, <1>3 DEF Settled
<1>4. ASSUME NEW u \in Builders, pc'[u] \in {"storeEnd", "storeBegin"}, pool'[u] \notin raced'
      PROVE  /\ guardBegin'[index'[u]] = 0
             /\ pc'[u] = "storeBegin" => guardEnd'[index'[u]] = guard'[pool'[u]].end
             /\ \A v \in Builders : Writer(v, index[u])' => v = u
  <2>1. u # t
    BY <1>4 DEF Writer
  <2>2. /\ pc'[u] = pc[u] /\ pool'[u] = pool[u] /\ index'[u] = index[u]
        /\ pc[u] # "idle"
    BY <1>4, <2>1 DEF Still
  <2>3. pool[u] \in Pools /\ pool'[t] # pool[u]
    BY <2>1, <2>2, BuilderFacts, Constants DEF Table, Positions
  <2>4. guard'[pool[u]] = guard[pool[u]]
    BY <2>3
  <2>5. \A v \in Builders : Writer(v, index[u])' => Writer(v, index[u])
    BY <2>2 DEF Writer, Still
  <2> QED
    BY <1>4, <2>2, <2>4, <2>5 DEF Settled
<1>5. ASSUME NEW p \in Pools \ (raced' \cup unlisted'), guard'[p] # NoGuard,
             \A u \in Builders : pool'[u] # p
      PROVE  \E i \in Slots : ListedAt(p, i)'
  <2>1. guard'[p] = guard[p]
    BY <1>5
  <2>2. \A u \in Builders : pool[u] # p
    BY <1>5, Constants DEF Still
  <2>3. PICK i \in Slots : ListedAt(p, i)
    BY <1>5, <2>1, <2>2 DEF Settled
  <2> QED
    BY <2>1, <2>3 DEF ListedAt
<1> QED
  BY <1>3, <1>4, <1>5 DEF Settled, Writer

LEMMA QuietSteps ==
  ASSUME Table, Table', Settled, NEW t \in Builders,
         \/ \E p \in Pools : MapPool(t, p) \/ Release(t, p)
         \/ LoadTaken(t) \/ TableFull(t) \/ LoadOther(t)
  PROVE  Settled'
<1>1. /\ t \in Threads /\ \A u \in Builders : u \in Threads
      /\ pc \in [Threads -> {"idle"} \cup Building \cup Releasing \cup Finding]
      /\ pool \in [Threads -> Pools \cup {NoPool}] /\ index \in [Threads -> Slots]
      /\ guard \in [Pools -> [begin : 0..(MaxAddress - 1), end : 0..(MaxAddress - 1)]]
  BY Constants DEF Table, TypeOK, Building, Releasing, Finding
<1>2. ASSUME NEW p \in Pools, MapPool(t, p)
      PROVE  Settled'
  <2>1. /\ pc[t] = "idle" /\ pc' = [pc EXCEPT ![t] = "register"]
        /\ pool' = [pool EXCEPT ![t] = p] /\ index' = index
        /\ UNCHANGED <<guardBegin, guardEnd, raced, unlisted>>
        /\ \A q \in Pools \ {p} : guard'[q] = guard[q]
    BY <1>1, <1>2 DEF MapPool, Go, table, history
  <2>2. pool[t] = NoPool /\ pc'[t] = "register" /\ pool'[t] = p
    BY <1>1, <2>1 DEF Table, Positions
  <2>3. Still(t) /\ \A i : ~Writer(t, i) /\ ~Writer(t, i)'
    BY <1>1, <2>1, <2>2 DEF Still, Writer
  <2> QED
    BY <2>1, <2>2, <2>3, QuietSettled
<1>3. ASSUME NEW p \in Pools, Release(t, p)
      PROVE  Settled'
  <2>1. /\ pc[t] = "idle" /\ pc' = [pc EXCEPT ![t] = "unregister"]
        /\ pool' = [pool EXCEPT ![t] = p] /\ index' = index
        /\ UNCHANGED <<guard, guardBegin, guardEnd, raced, unlisted>>
    BY <1>3 DEF Release, Go, table, history
  <2>2. pool[t] = NoPool /\ pc'[t] = "unregister"
    BY <1>1, <2>1 DEF Table, Positions
  <2>3. Still(t) /\ \A i : ~Writer(t, i) /\ ~Writer(t, i)'
    BY <1>1, <2>1, <2>2 DEF Still, Writer
  <2> QED
    BY <2>1, <2>2, <2>3, QuietSettled
<1>4. CASE LoadTaken(t) \/ LoadOther(t)
  <2>1. /\ \E from \in {"register", "unregister"}, end \in {"idle", "unmap"} :
             NextSlot(t, from, from, end)
        /\ UNCHANGED <<guard, guardBegin, guardEnd, pool, raced, unlisted>>
    BY <1>4 DEF LoadTaken, LoadOther, table, history
  <2>2. /\ pc[t] \in {"register", "unregister"}
        /\ pc' = [pc EXCEPT ![t] = pc'[t]] /\ index' = [index EXCEPT ![t] = index'[t]]
        /\ pc'[t] \in {"register", "unregister", "idle", "unmap"}
    BY <1>1, <2>1, NextSlotFacts DEF Table
  <2>3. Still(t) /\ \A i : ~Writer(t, i) /\ ~Writer(t, i)'
    BY <1>1, <2>1, <2>2 DEF Still, Writer
  <2> QED
    BY <2>1, <2>2, <2>3, QuietSettled
<1>5. CASE TableFull(t)
  <2>1. /\ pc[t] = "register" /\ pc' = [pc EXCEPT ![t] = "idle"]
        /\ pool' = [pool EXCEPT ![t] = NoPool] /\ index' = [index EXCEPT ![t] = 0]
        /\ unlisted' = unlisted \cup {pool[t]}
        /\ UNCHANGED <<guard, guardBegin, guardEnd, raced>>
    BY <1>5 DEF TableFull, Done, Go, table
  <2>2. Still(t) /\ \A i : ~Writer(t, i) /\ ~Writer(t, i)'
    BY <1>1, <2>1 DEF Still, Writer
  <2> QED
    BY <2>1, <2>2, QuietSettled
<1> QED
  BY <1>2, <1>3, <1>4, <1>5

\* A pool that takes a slot somebody has still to write has raced, and so have
\* they.
LEMMA LoadFreeSettled ==
  ASSUME Table, Table', Settled, NEW t \in Builders, LoadFree(t)
  PROVE  Settled'
<1>1. /\ pc[t] = "register" /\ pc' = [pc EXCEPT ![t] = "storeEnd"]
      /\ guardBegin[index[t]] = 0
      /\ raced' = IF Rivals(t) = {} THEN raced ELSE raced \cup {pool[u] : u \in Rivals(t) \cup {t}}
      /\ UNCHANGED <<guard, guardBegin, guardEnd, pool, index, unlisted>>
  BY DEF LoadFree, Go, table
<1>2. /\ t \in Threads /\ pc'[t] = "storeEnd"
      /\ \A u \in Builders \ {t} : pc'[u] = pc[u]
  BY <1>1, Constants DEF Table, TypeOK
<1>3. raced \subseteq raced'
  BY <1>1
<1>4. \A u \in Rivals(t) : pool[u] \in raced' /\ pool[t] \in raced'
  BY <1>1
<1>5. \A u \in Builders \ {t} : Writer(u, index[t]) => u \in Rivals(t)
  BY DEF Writer, Rivals
<1>6. \A u \in Builders : \A i : Writer(u, i)' <=> IF u = t THEN i = index[t] ELSE Writer(u, i)
  BY <1>1, <1>2 DEF Writer
<1>7. \A p \in Pools : \A i : ListedAt(p, i)' <=> ListedAt(p, i)
  BY <1>1 DEF ListedAt
<1>8. ASSUME NEW p \in Pools \ raced', NEW i \in Slots, ListedAt(p, i)
      PROVE  /\ guardEnd[i] = guard[p].end
             /\ \A u \in Builders : Writer(u, i)' => pool[u] = p
  <2>1. i # index[t]
    BY <1>1, <1>8 DEF ListedAt, Table, GuardsFit
  <2> QED
    BY <1>3, <1>6, <1>8, <2>1 DEF Settled
<1>9. ASSUME NEW u \in Builders, pc'[u] \in {"storeEnd", "storeBegin"}, pool[u] \notin raced'
      PROVE  /\ guardBegin[index[u]] = 0
             /\ pc'[u] = "storeBegin" => guardEnd[index[u]] = guard[pool[u]].end
             /\ \A v \in Builders : Writer(v, index[u])' => v = u
  <2>1. CASE u = t
    <3>1. \A v \in Builders \ {t} : ~Writer(v, index[t])
      BY <1>4, <1>5, <1>9, <2>1
    <3> QED
      BY <1>1, <1>2, <1>6, <2>1, <3>1
  <2>2. CASE u # t
    <3>1. pc[u] = pc'[u] /\ Writer(u, index[u])
      BY <1>2, <1>9, <2>2 DEF Writer
    <3>2. index[u] # index[t]
      BY <1>4, <1>5, <1>9, <2>2, <3>1
    <3>3. /\ guardBegin[index[u]] = 0
          /\ pc[u] = "storeBegin" => guardEnd[index[u]] = guard[pool[u]].end
          /\ \A v \in Builders : Writer(v, index[u]) => v = u
      BY <1>3, <1>9, <3>1 DEF Settled
    <3>4. \A v \in Builders : Writer(v, index[u])' => Writer(v, index[u])
      BY <1>1, <1>2, <3>2 DEF Writer
    <3> QED
      BY <3>1, <3>3, <3>4
  <2> QED
    BY <2>1, <2>2
<1>10. ASSUME NEW p \in Pools \ (raced' \cup unlisted), guard[p] # NoGuard,
              \A u \in Builders : pool[u] # p
       PROVE  \E i \in Slots : ListedAt(p, i)
  BY <1>3, <1>10 DEF Settled
<1> QED
  BY <1>1, <1>7, <1>8, <1>9, <1>10 DEF Settled, Writer

\* The slot in which a release finds its pool is nobody else's, or has raced.
LEMMA LoadOwnSettled ==
  ASSUME Table, Table', Settled, NEW t \in Builders, LoadOwn(t)
  PROVE  Settled'
<1>1. /\ pc[t] = "unregister" /\ pc' = [pc EXCEPT ![t] = "clearBegin"]
      /\ guardBegin[index[t]] = guard[pool[t]].begin
      /\ UNCHANGED <<guard, guardBegin, guardEnd, pool, index, raced, unlisted>>
  BY DEF LoadOwn, Go, table, history
<1>2. /\ t \in Threads /\ pc'[t] = "clearBegin"
      /\ \A u \in Builders \ {t} : pc'[u] = pc[u]
  BY <1>1, Constants DEF Table, TypeOK
<1>3. /\ pool[t] \in Pools /\ guard[pool[t]] # NoGuard /\ guard[pool[t]].begin # 0
      /\ index[t] \in Slots
  BY <1>1, BuilderFacts
<1>4. \A u \in Builders : \A i : Writer(u, i)' <=> IF u = t THEN i = index[t] ELSE Writer(u, i)
  BY <1>1, <1>2 DEF Writer
<1>5. \A p \in Pools : \A i : ListedAt(p, i)' <=> ListedAt(p, i)
  BY <1>1 DEF ListedAt
<1>6. ASSUME NEW p \in Pools \ raced, NEW i \in Slots, ListedAt(p, i)
      PROVE  /\ guardEnd[i] = guard[p].end
             /\ \A u \in Builders : Writer(u, i)' => pool[u] = p
  <2>1. i = index[t] => p = pool[t]
    BY <1>1, <1>3, <1>6, DistinctBegins DEF ListedAt, Table
  <2> QED
    BY <1>4, <1>6, <2>1 DEF Settled
<1>7. ASSUME NEW u \in Builders, pc'[u] \in {"storeEnd", "storeBegin"}, pool[u] \notin raced
      PROVE  /\ guardBegin[index[u]] = 0
             /\ pc'[u] = "storeBegin" => guardEnd[index[u]] = guard[pool[u]].end
             /\ \A v \in Builders : Writer(v, index[u])' => v = u
  <2>1. u # t /\ pc[u] = pc'[u]
    BY <1>2, <1>7
  <2>2. guardBegin[index[u]] = 0
    BY <1>7, <2>1 DEF Settled
  <2>3. index[u] # index[t]
    BY <1>1, <1>3, <2>2
  <2>4. /\ pc[u] = "storeBegin" => guardEnd[index[u]] = guard[pool[u]].end
        /\ \A v \in Builders : Writer(v, index[u]) => v = u
    BY <1>7, <2>1 DEF Settled
  <2>5. \A v \in Builders : Writer(v, index[u])' => Writer(v, index[u])
    BY <1>1, <1>2, <2>3 DEF Writer
  <2> QED
    BY <2>1, <2>2, <2>4, <2>5
<1>8. ASSUME NEW p \in Pools \ (raced \cup unlisted), guard[p] # NoGuard,
             \A u \in Builders : pool[u] # p
      PROVE  \E i \in Slots : ListedAt(p, i)
  BY <1>8 DEF Settled
<1> QED
  BY <1>1, <1>5, <1>6, <1>7, <1>8 DEF Settled, Writer

LEMMA StoreEndSettled ==
  ASSUME Table, Table', Settled, NEW t \in Builders, StoreEnd(t)
  PROVE  Settled'
<1>1. /\ pc[t] = "storeEnd" /\ pc' = [pc EXCEPT ![t] = "storeBegin"]
      /\ guardEnd' = [guardEnd EXCEPT ![index[t]] = guard[pool[t]].end]
      /\ UNCHANGED <<guard, guardBegin, pool, index, raced, unlisted>>
  BY DEF StoreEnd, Go, history
<1>2. /\ t \in Threads /\ pc'[t] = "storeBegin"
      /\ \A u \in Builders \ {t} : pc'[u] = pc[u]
  BY <1>1, Constants DEF Table, TypeOK
<1>3. /\ index[t] \in Slots /\ pool[t] \in Pools
      /\ \A i \in Slots : ~ListedAt(pool[t], i)
      /\ guardEnd \in [Slots -> 0..(MaxAddress - 1)]
  BY <1>1, BuilderFacts DEF Table, TypeOK
<1>4. /\ guardEnd'[index[t]] = guard[pool[t]].end
      /\ \A i \in Slots : i # index[t] => guardEnd'[i] = guardEnd[i]
  BY <1>1, <1>3
<1>5. Writer(t, index[t])
  BY <1>1 DEF Writer
<1>6. \A u \in Builders : \A i : Writer(u, i)' <=> Writer(u, i)
  BY <1>1, <1>2 DEF Writer
<1>7. \A p \in Pools : \A i : ListedAt(p, i)' <=> ListedAt(p, i)
  BY <1>1 DEF ListedAt
<1>8. ASSUME NEW p \in Pools \ raced, NEW i \in Slots, ListedAt(p, i)
      PROVE  /\ guardEnd'[i] = guard[p].end
             /\ \A u \in Builders : Writer(u, i)' => pool[u] = p
  <2>1. /\ guardEnd[i] = guard[p].end
        /\ \A u \in Builders : Writer(u, i) => pool[u] = p
    BY <1>8 DEF Settled
  <2>2. i # index[t]
    BY <1>3, <1>5, <1>8, <2>1
  <2> QED
    BY <1>4, <1>6, <2>1, <2>2
<1>9. ASSUME NEW u \in Builders, pc'[u] \in {"storeEnd", "storeBegin"}, pool[u] \notin raced
      PROVE  /\ guardBegin[index[u]] = 0
             /\ pc'[u] = "storeBegin" => guardEnd'[index[u]] = guard[pool[u]].end
             /\ \A v \in Builders : Writer(v, index[u])' => v = u
  <2>1. pc[u] \in {"storeEnd", "storeBegin"} /\ (u # t => pc'[u] = pc[u])
    BY <1>1, <1>2, <1>9
  <2>2. /\ guardBegin[index[u]] = 0
        /\ pc[u] = "storeBegin" => guardEnd[index[u]] = guard[pool[u]].end
        /\ \A v \in Builders : Writer(v, index[u]) => v = u
    BY <1>9, <2>1 DEF Settled
  <2>3. \A v \in Builders : Writer(v, index[u])' => Writer(v, index[u])
    BY <1>1, <1>2 DEF Writer
  <2>4. CASE u = t
    BY <1>4, <2>2, <2>3, <2>4
  <2>5. CASE u # t
    <3>1. index[u] # index[t]
      BY <1>5, <2>2, <2>5
    <3>2. index[u] \in Slots
      BY Constants DEF Table, TypeOK
    <3> QED
      BY <1>4, <2>1, <2>2, <2>3, <2>5, <3>1, <3>2
  <2> QED
    BY <2>4, <2>5
<1>10. ASSUME NEW p \in Pools \ (raced \cup unlisted), guard[p] # NoGuard,
              \A u \in Builders : pool[u] # p
       PROVE  \E i \in Slots : ListedAt(p, i)
  BY <1>10 DEF Settled
<1> QED
  BY <1>1, <1>7, <1>8, <1>9, <1>10 DEF Settled, Writer

\* A pool that has not raced finds its slot as it has left it.
LEMMA StoreBeginSettled ==
  ASSUME Table, Table', Settled, NEW t \in Builders, StoreBegin(t)
  PROVE  Settled'
<1>0. PICK p, k : p = pool[t] /\ k = index[t]
  OBVIOUS
<1>1. /\ pc[t] = "storeBegin" /\ pc' = [pc EXCEPT ![t] = "idle"]
      /\ pool' = [pool EXCEPT ![t] = NoPool] /\ index' = [index EXCEPT ![t] = 0]
      /\ guardBegin' = [guardBegin EXCEPT ![k] = guard[p].begin]
      /\ UNCHANGED <<guard, guardEnd, raced, unlisted>>
  BY <1>0 DEF StoreBegin, Done, Go, history
<1>2. /\ t \in Threads /\ k \in Slots /\ p \in Pools /\ guard[p] # NoGuard
      /\ guard[p].begin # 0
      /\ \A i \in Slots : ~ListedAt(p, i)
  BY <1>0, <1>1, BuilderFacts
<1>3. /\ pool'[t] = NoPool /\ pc'[t] = "idle"
      /\ \A u \in Builders \ {t} : pc'[u] = pc[u] /\ pool'[u] = pool[u] /\ index'[u] = index[u]
      /\ guardBegin'[k] = guard[p].begin
      /\ \A i \in Slots \ {k} : guardBegin'[i] = guardBegin[i]
  BY <1>1, <1>2, Constants DEF Table, TypeOK
<1>4. Writer(t, k)
  BY <1>0, <1>1 DEF Writer
<1>5. \A u \in Builders : \A i : Writer(u, i)' <=> Writer(u, i) /\ u # t
  BY <1>3 DEF Writer
<1>6. \A q \in Pools, i \in Slots : ListedAt(q, i)' <=> IF i = k THEN q = p ELSE ListedAt(q, i)
  BY <1>1, <1>2, <1>3, DistinctBegins DEF ListedAt, Table
<1>7. p \notin raced => /\ guardEnd[k] = guard[p].end
                        /\ \A u \in Builders : Writer(u, k) => u = t
  BY <1>0, <1>1 DEF Settled
<1>8. ASSUME NEW q \in Pools \ raced, NEW i \in Slots, ListedAt(q, i)'
      PROVE  /\ guardEnd[i] = guard[q].end
             /\ \A u \in Builders : Writer(u, i)' => pool'[u] = q
  <2>1. CASE i = k
    BY <1>5, <1>6, <1>7, <1>8, <2>1
  <2>2. CASE i # k
    <3>1. /\ guardEnd[i] = guard[q].end
          /\ \A u \in Builders : Writer(u, i) => pool[u] = q
      BY <1>6, <1>8, <2>2 DEF Settled
    <3> QED
      BY <1>3, <1>5, <3>1
  <2> QED
    BY <2>1, <2>2
<1>9. ASSUME NEW u \in Builders, pc'[u] \in {"storeEnd", "storeBegin"}, pool'[u] \notin raced
      PROVE  /\ guardBegin'[index'[u]] = 0
             /\ pc'[u] = "storeBegin" => guardEnd[index'[u]] = guard[pool'[u]].end
             /\ \A v \in Builders : Writer(v, index[u])' => v = u
  <2>1. u # t
    BY <1>3, <1>9
  <2>2. pc'[u] = pc[u] /\ pool'[u] = pool[u] /\ index'[u] = index[u] /\ index[u] \in Slots
    BY <1>3, <2>1, Constants DEF Table, TypeOK
  <2>3. /\ guardBegin[index[u]] = 0
        /\ pc[u] = "storeBegin" => guardEnd[index[u]] = guard[pool[u]].end
        /\ \A v \in Builders : Writer(v, index[u]) => v = u
    BY <1>9, <2>2 DEF Settled
  <2>4. index[u] # k
    BY <1>4, <2>1, <2>3
  <2>5. \A v \in Builders : Writer(v, index[u])' => Writer(v, index[u])
    BY <1>3, <2>2 DEF Writer
  <2> QED
    BY <1>3, <2>2, <2>3, <2>4, <2>5
<1>10. ASSUME NEW q \in Pools \ (raced \cup unlisted), guard[q] # NoGuard,
              \A u \in Builders : pool'[u] # q
       PROVE  \E i \in Slots : ListedAt(q, i)'
  <2>1. CASE q = p
    BY <1>2, <1>6, <2>1
  <2>2. CASE q # p
    <3>1. \A u \in Builders : pool[u] # q
      BY <1>0, <1>3, <1>10, <2>2
    <3>2. PICK i \in Slots : ListedAt(q, i)
      BY <1>10, <3>1 DEF Settled
    <3>3. i # k
      BY <1>0, <1>4, <1>10, <2>2, <3>2 DEF Settled
    <3> QED
      BY <1>6, <3>2, <3>3
  <2> QED
    BY <2>1, <2>2
<1> QED
  BY <1>1, <1>8, <1>9, <1>10 DEF Settled, Writer

\* A release clears the slot of no pool but its own, unless that has raced.
LEMMA ClearBeginSettled ==
  ASSUME Table, Table', Settled, NEW t \in Builders, ClearBegin(t)
  PROVE  Settled'
<1>0. PICK p, k : p = pool[t] /\ k = index[t]
  OBVIOUS
<1>1. /\ pc[t] = "clearBegin" /\ pc' = [pc EXCEPT ![t] = "clearEnd"]
      /\ guardBegin' = [guardBegin EXCEPT ![k] = 0]
      /\ UNCHANGED <<guard, guardEnd, pool, index, raced, unlisted>>
  BY <1>0 DEF ClearBegin, Go, history
<1>2. /\ t \in Threads /\ k \in Slots /\ p \in Pools
  BY <1>0, <1>1, BuilderFacts
<1>3. /\ pc'[t] = "clearEnd" /\ \A u \in Builders \ {t} : pc'[u] = pc[u]
      /\ guardBegin'[k] = 0
      /\ \A i \in Slots \ {k} : guardBegin'[i] = guardBegin[i]
  BY <1>1, <1>2, Constants DEF Table, TypeOK
<1>4. Writer(t, k)
  BY <1>0, <1>1 DEF Writer
<1>5. \A u \in Builders : \A i : Writer(u, i)' <=> Writer(u, i)
  BY <1>1, <1>3 DEF Writer
<1>6. \A q \in Pools, i \in Slots : ListedAt(q, i)' <=> i # k /\ ListedAt(q, i)
  BY <1>1, <1>2, <1>3 DEF ListedAt, Table, GuardsFit
<1>7. ASSUME NEW q \in Pools \ raced, NEW i \in Slots, ListedAt(q, i)'
      PROVE  /\ guardEnd[i] = guard[q].end
             /\ \A u \in Builders : Writer(u, i)' => pool[u] = q
  BY <1>5, <1>6, <1>7 DEF Settled
<1>8. ASSUME NEW u \in Builders, pc'[u] \in {"storeEnd", "storeBegin"}, pool[u] \notin raced
      PROVE  /\ guardBegin'[index[u]] = 0
             /\ pc'[u] = "storeBegin" => guardEnd[index[u]] = guard[pool[u]].end
             /\ \A v \in Builders : Writer(v, index[u])' => v = u
  <2>1. u # t /\ pc'[u] = pc[u] /\ index[u] \in Slots
    BY <1>3, <1>8, Constants DEF Table, TypeOK
  <2>2. /\ guardBegin[index[u]] = 0
        /\ pc[u] = "storeBegin" => guardEnd[index[u]] = guard[pool[u]].end
        /\ \A v \in Builders : Writer(v, index[u]) => v = u
    BY <1>8, <2>1 DEF Settled
  <2>3. \A v \in Builders : Writer(v, index[u])' => Writer(v, index[u])
    BY <1>1, <1>3 DEF Writer
  <2> QED
    BY <1>3, <2>1, <2>2, <2>3
<1>9. ASSUME NEW q \in Pools \ (raced \cup unlisted), guard[q] # NoGuard,
             \A u \in Builders : pool[u] # q
      PROVE  \E i \in Slots : ListedAt(q, i)'
  <2>1. PICK i \in Slots : ListedAt(q, i)
    BY <1>9 DEF Settled
  <2>2. i # k
    BY <1>4, <1>9, <2>1 DEF Settled
  <2> QED
    BY <1>6, <2>1, <2>2
<1> QED
  BY <1>1, <1>7, <1>8, <1>9 DEF Settled, Writer

LEMMA ClearEndSettled ==
  ASSUME Table, Table', Settled, NEW t \in Builders, ClearEnd(t)
  PROVE  Settled'
<1>0. PICK p, k : p = pool[t] /\ k = index[t]
  OBVIOUS
<1>1. /\ pc[t] = "clearEnd" /\ pc' = [pc EXCEPT ![t] = "unmap"]
      /\ guardEnd' = [guardEnd EXCEPT ![k] = 0]
      /\ UNCHANGED <<guard, guardBegin, pool, index, raced, unlisted>>
  BY <1>0 DEF ClearEnd, Go, history
<1>2. /\ t \in Threads /\ k \in Slots /\ \A i \in Slots : ~ListedAt(p, i)
  BY <1>0, <1>1, BuilderFacts
<1>3. /\ pc'[t] = "unmap" /\ \A u \in Builders \ {t} : pc'[u] = pc[u]
      /\ \A i \in Slots \ {k} : guardEnd'[i] = guardEnd[i]
  BY <1>1, <1>2, Constants DEF Table, TypeOK
<1>4. Writer(t, k)
  BY <1>0, <1>1 DEF Writer
<1>5. \A u \in Builders : \A i : Writer(u, i)' => Writer(u, i)
  BY <1>1, <1>3 DEF Writer
<1>6. \A q \in Pools, i \in Slots : ListedAt(q, i)' <=> ListedAt(q, i)
  BY <1>1 DEF ListedAt
<1>7. ASSUME NEW q \in Pools \ raced, NEW i \in Slots, ListedAt(q, i)
      PROVE  /\ guardEnd'[i] = guard[q].end
             /\ \A u \in Builders : Writer(u, i)' => pool[u] = q
  <2>1. /\ guardEnd[i] = guard[q].end
        /\ \A u \in Builders : Writer(u, i) => pool[u] = q
    BY <1>7 DEF Settled
  <2>2. i # k
    BY <1>0, <1>2, <1>4, <1>7, <2>1
  <2> QED
    BY <1>3, <1>5, <2>1, <2>2
<1>8. ASSUME NEW u \in Builders, pc'[u] \in {"storeEnd", "storeBegin"}, pool[u] \notin raced
      PROVE  /\ guardBegin[index[u]] = 0
             /\ pc'[u] = "storeBegin" => guardEnd'[index[u]] = guard[pool[u]].end
             /\ \A v \in Builders : Writer(v, index[u])' => v = u
  <2>1. u # t /\ pc'[u] = pc[u] /\ index[u] \in Slots
    BY <1>3, <1>8, Constants DEF Table, TypeOK
  <2>2. /\ guardBegin[index[u]] = 0
        /\ pc[u] = "storeBegin" => guardEnd[index[u]] = guard[pool[u]].end
        /\ \A v \in Builders : Writer(v, index[u]) => v = u
    BY <1>8, <2>1 DEF Settled
  <2>3. \A v \in Builders : Writer(v, index[u])' => Writer(v, index[u])
    BY <1>1, <1>3 DEF Writer
  <2>4. index[u] # k
    BY <1>4, <2>1, <2>2
  <2> QED
    BY <1>3, <2>1, <2>2, <2>3, <2>4
<1>9. ASSUME NEW q \in Pools \ (raced \cup unlisted), guard[q] # NoGuard,
             \A u \in Builders : pool[u] # q
      PROVE  \E i \in Slots : ListedAt(q, i)
  BY <1>9 DEF Settled
<1> QED
  BY <1>1, <1>6, <1>7, <1>8, <1>9 DEF Settled, Writer

LEMMA UnmapSettled ==
  ASSUME Table, Table', Settled, NEW t \in Builders, Unmap(t)
  PROVE  Settled'
<1>0. PICK p : p = pool[t]
  OBVIOUS
<1>1. /\ pc[t] = "unmap" /\ pc' = [pc EXCEPT ![t] = "idle"]
      /\ pool' = [pool EXCEPT ![t] = NoPool] /\ index' = [index EXCEPT ![t] = 0]
      /\ guard' = [guard EXCEPT ![p] = NoGuard]
      /\ unlisted' = unlisted \ {p} /\ raced' = raced \ {p}
      /\ UNCHANGED <<guardBegin, guardEnd>>
  BY <1>0 DEF Unmap, Done, Go, table
<1>2. /\ t \in Threads /\ p \in Pools
      /\ \A u \in Threads \ {t} : pool[u] # p
  BY <1>0, <1>1, BuilderFacts
<1>3. /\ pc'[t] = "idle" /\ pool'[t] = NoPool
      /\ \A u \in Builders \ {t} : pc'[u] = pc[u] /\ pool'[u] = pool[u] /\ index'[u] = index[u]
      /\ guard'[p] = NoGuard /\ \A q \in Pools \ {p} : guard'[q] = guard[q]
  BY <1>1, <1>2, Constants DEF Table, TypeOK
<1>4. \A u \in Builders : \A i : Writer(u, i)' <=> Writer(u, i)
  BY <1>1, <1>3 DEF Writer
<1>5. \A q \in Pools, i \in Slots : ListedAt(q, i)' <=> q # p /\ ListedAt(q, i)
  BY <1>1, <1>3 DEF ListedAt
<1>6. ASSUME NEW q \in Pools \ raced', NEW i \in Slots, ListedAt(q, i)'
      PROVE  /\ guardEnd[i] = guard'[q].end
             /\ \A u \in Builders : Writer(u, i)' => pool'[u] = q
  <2>1. q # p /\ ListedAt(q, i) /\ q \notin raced
    BY <1>1, <1>5, <1>6
  <2>2. /\ guardEnd[i] = guard[q].end
        /\ \A u \in Builders : Writer(u, i) => pool[u] = q
    BY <1>6, <2>1 DEF Settled
  <2>3. ~Writer(t, i)
    BY <1>1 DEF Writer
  <2> QED
    BY <1>3, <1>4, <2>1, <2>2, <2>3
<1>7. ASSUME NEW u \in Builders, pc'[u] \in {"storeEnd", "storeBegin"}, pool'[u] \notin raced'
      PROVE  /\ guardBegin[index'[u]] = 0
             /\ pc'[u] = "storeBegin" => guardEnd[index'[u]] = guard'[pool'[u]].end
             /\ \A v \in Builders : Writer(v, index[u])' => v = u
  <2>1. u # t
    BY <1>3, <1>7
  <2>2. /\ pc'[u] = pc[u] /\ pool'[u] = pool[u] /\ index'[u] = index[u] /\ u \in Threads
        /\ pc[u] # "idle"
    BY <1>3, <1>7, <2>1, Constants
  <2>3. pool[u] \in Pools \ {p} /\ pool[u] \notin raced
    BY <1>1, <1>2, <1>7, <2>1, <2>2, BuilderFacts
  <2>4. /\ guardBegin[index[u]] = 0
        /\ pc[u] = "storeBegin" => guardEnd[index[u]] = guard[pool[u]].end
        /\ \A v \in Builders : Writer(v, index[u]) => v = u
    BY <1>7, <2>2, <2>3 DEF Settled
  <2>5. \A v \in Builders : Writer(v, index[u])' => Writer(v, index[u])
    BY <1>3, <2>2 DEF Writer
  <2> QED
    BY <1>3, <2>2, <2>3, <2>4, <2>5
<1>8. ASSUME NEW q \in Pools \ (raced' \cup unlisted'), guard'[q] # NoGuard,
             \A u \in Builders : pool'[u] # q
      PROVE  \E i \in Slots : ListedAt(q, i)'
  <2>1. q # p /\ q \in Pools \ (raced \cup unlisted) /\ guard[q] # NoGuard
    BY <1>1, <1>3, <1>8
  <2>2. \A u \in Builders : pool[u] # q
    BY <1>0, <1>3, <1>8, <2>1
  <2>3. PICK i \in Slots : ListedAt(q, i)
    BY <2>1, <2>2 DEF Settled
  <2> QED
    BY <1>5, <2>1, <2>3
<1> QED
  BY <1>1, <1>6, <1>7, <1>8 DEF Settled, Writer

\* A user changes nothing a builder has to do with.
LEMMA UserSettled ==
  ASSUME Table, Settled, NEW t \in Users, UserStep(t)
  PROVE  Settled'
<1>1. /\ UNCHANGED <<guard, table, history>>
      /\ pool' = [pool EXCEPT ![t] = pool'[t]] /\ pc' = [pc EXCEPT ![t] = pc'[t]]
      /\ index' = [index EXCEPT ![t] = index'[t]]
  BY UserStepFacts
<1>2. /\ guard' = guard /\ guardBegin' = guardBegin /\ guardEnd' = guardEnd
      /\ unlisted' = unlisted /\ raced' = raced
  BY <1>1 DEF table, history
<1>3. \A u \in Builders : pc'[u] = pc[u] /\ pool'[u] = pool[u] /\ index'[u] = index[u]
  BY <1>1, Constants DEF Table, TypeOK
<1>4. \A u \in Builders : \A i : Writer(u, i)' <=> Writer(u, i)
  BY <1>3 DEF Writer
<1>5. \A p, i : ListedAt(p, i)' <=> ListedAt(p, i)
  BY <1>2 DEF ListedAt
<1>6. ASSUME NEW p \in Pools \ raced, NEW i \in Slots, ListedAt(p, i)
      PROVE  /\ guardEnd[i] = guard[p].end
             /\ \A u \in Builders : Writer(u, i)' => pool'[u] = p
  BY <1>3, <1>4, <1>6 DEF Settled
<1>7. ASSUME NEW u \in Builders, pc'[u] \in {"storeEnd", "storeBegin"}, pool'[u] \notin raced
      PROVE  /\ guardBegin[index'[u]] = 0
             /\ pc'[u] = "storeBegin" => guardEnd[index'[u]] = guard[pool'[u]].end
             /\ \A v \in Builders : Writer(v, index[u])' => v = u
  <2>1. pc'[u] = pc[u] /\ pool'[u] = pool[u] /\ index'[u] = index[u]
    BY <1>3
  <2>2. \A v \in Builders : Writer(v, index[u])' => Writer(v, index[u])
    BY <1>3, <2>1 DEF Writer
  <2> QED
    BY <1>7, <2>1, <2>2 DEF Settled
<1>8. ASSUME NEW p \in Pools \ (raced \cup unlisted), guard[p] # NoGuard,
             \A u \in Builders : pool'[u] # p
      PROVE  \E i \in Slots : ListedAt(p, i)
  BY <1>3, <1>8 DEF Settled
<1> QED
  BY <1>2, <1>5, <1>6, <1>7, <1>8 DEF Settled, Writer

-----------------------------------------------------------------------------
(* The handler.                                                            *)

\* A search has not yet passed the slot of the pool that overflowed.
Ahead(p, i, t) ==
  /\ ListedAt(p, i) /\ index[t] <= i
  /\ pc[t] = "findEnd" /\ index[t] = i => begin[t] = guard[p].begin

Search ==
  \A t \in Users : pc[t] \in {"findBegin", "findEnd"} =>
    /\ pc[t] = "findEnd" => begin[t] # 0
    /\ \A p \in Pools : pool[t] = p =>
         /\ fault[t] \in Guards(p)
         /\ p \notin raced \cup unlisted => \E i \in Slots : Ahead(p, i, t)

\* Nobody but its own builder changes a pool's guard, takes its slot without a
\* race, or makes the history forget it.
LEMMA Bystander ==
  ASSUME Table, Settled, NEW t \in Builders, BuilderStep(t),
         NEW p \in Pools, guard[p] # NoGuard, \A u \in Builders : pool[u] # p
  PROVE  /\ guard'[p] = guard[p]
         /\ p \notin raced' \cup unlisted' =>
              /\ p \notin raced \cup unlisted
              /\ \A i \in Slots : ListedAt(p, i) => ListedAt(p, i)'
<1>1. /\ guard \in [Pools -> [begin : 0..(MaxAddress - 1), end : 0..(MaxAddress - 1)]]
      /\ guardBegin \in [Slots -> 0..(MaxAddress - 1)] /\ index[t] \in Slots
      /\ pool[t] # p
  BY Constants DEF Table, TypeOK
<1>2. ASSUME guard'[p] = guard[p], p \notin raced' => p \notin raced,
             p \notin unlisted' => p \notin unlisted, guardBegin' = guardBegin
      PROVE  /\ guard'[p] = guard[p]
             /\ p \notin raced' \cup unlisted' =>
                  /\ p \notin raced \cup unlisted
                  /\ \A i \in Slots : ListedAt(p, i) => ListedAt(p, i)'
  BY <1>2 DEF ListedAt
<1>3. ASSUME NEW q \in Pools, MapPool(t, q) \/ Release(t, q)
      PROVE  /\ guard'[p] = guard[p] /\ raced' = raced /\ unlisted' = unlisted
             /\ guardBegin' = guardBegin
  BY <1>1, <1>3 DEF MapPool, Release, table, history
<1>4. CASE LoadFree(t) \/ LoadTaken(t) \/ LoadOther(t) \/ LoadOwn(t) \/ StoreEnd(t) \/ ClearEnd(t)
  <2>1. guard' = guard /\ guardBegin' = guardBegin /\ unlisted' = unlisted /\ raced \subseteq raced'
    BY <1>4 DEF LoadFree, LoadTaken, LoadOther, LoadOwn, StoreEnd, ClearEnd, table, history
  <2> QED
    BY <1>2, <2>1
<1>5. CASE TableFull(t)
  <2>1. guard' = guard /\ guardBegin' = guardBegin /\ unlisted \subseteq unlisted' /\ raced = raced'
    BY <1>5 DEF TableFull, table
  <2> QED
    BY <1>2, <2>1
<1>6. CASE Unmap(t)
  <2>1. /\ guard'[p] = guard[p] /\ guardBegin' = guardBegin
        /\ unlisted' = unlisted \ {pool[t]} /\ raced' = raced \ {pool[t]}
    BY <1>1, <1>6 DEF Unmap, table
  <2> QED
    BY <1>1, <1>2, <2>1
<1>7. CASE StoreBegin(t) \/ ClearBegin(t)
  <2>1. /\ guard' = guard /\ unlisted' = unlisted /\ raced' = raced
        /\ \A i \in Slots : i # index[t] => guardBegin'[i] = guardBegin[i]
        /\ Writer(t, index[t])
    BY <1>1, <1>7 DEF StoreBegin, ClearBegin, Done, Go, history, Writer
  <2>2. ASSUME p \notin raced, NEW i \in Slots, ListedAt(p, i)
        PROVE  i # index[t]
    BY <1>1, <2>1, <2>2 DEF Settled
  <2> QED
    BY <2>1, <2>2 DEF ListedAt
<1> QED
  BY <1>2, <1>3, <1>4, <1>5, <1>6, <1>7 DEF BuilderStep

\* A builder leaves the users where they are.
LEMMA UsersStill ==
  ASSUME Table, NEW t \in Builders, BuilderStep(t)
  PROVE  /\ UNCHANGED <<begin, fault>>
         /\ \A u \in Users : pc'[u] = pc[u] /\ pool'[u] = pool[u] /\ index'[u] = index[u]
<1>1. /\ pc \in [Threads -> {"idle"} \cup Building \cup Releasing \cup Finding]
      /\ pool \in [Threads -> Pools \cup {NoPool}] /\ index \in [Threads -> Slots]
      /\ \A u \in Users : u \in Threads /\ u # t
  BY Constants DEF Table, TypeOK, Building, Releasing, Finding
<1>2. /\ UNCHANGED <<begin, fault>>
      /\ \E place : pc' = [pc EXCEPT ![t] = place]
      /\ pool' = pool \/ \E p : pool' = [pool EXCEPT ![t] = p]
      /\ index' = index \/ \E i : index' = [index EXCEPT ![t] = i]
  BY DEF BuilderStep, MapPool, Release, LoadFree, LoadTaken, TableFull, StoreEnd, StoreBegin,
         LoadOther, LoadOwn, ClearBegin, ClearEnd, Unmap, Done, NextSlot, Go
<1> QED
  BY <1>1, <1>2

LEMMA BuilderSearch ==
  ASSUME Table, Settled, Search, NEW b \in Builders, BuilderStep(b)
  PROVE  Search'
<1>1. /\ begin' = begin /\ fault' = fault
      /\ \A u \in Users : pc'[u] = pc[u] /\ pool'[u] = pool[u] /\ index'[u] = index[u]
  BY UsersStill
<1> SUFFICES ASSUME NEW t \in Users, pc'[t] \in {"findBegin", "findEnd"}
             PROVE  /\ pc'[t] = "findEnd" => begin'[t] # 0
                    /\ \A p \in Pools : pool'[t] = p =>
                         /\ fault'[t] \in Guards(p)'
                         /\ p \notin raced' \cup unlisted' => \E i \in Slots : Ahead(p, i, t)'
  BY DEF Search
<1>2. pc'[t] = "findEnd" => begin'[t] # 0
  BY <1>1 DEF Search
<1>3. ASSUME NEW p \in Pools, pool'[t] = p
      PROVE  /\ fault'[t] \in Guards(p)'
             /\ p \notin raced' \cup unlisted' => \E i \in Slots : Ahead(p, i, t)'
  <2>1. pool[t] = p /\ guard[p] # NoGuard /\ \A u \in Builders : pool[u] # p
    BY <1>1, <1>3, UserFacts, Constants
  <2>2. guard'[p] = guard[p]
    BY <2>1, Bystander
  <2>3. fault[t] \in Guards(p)
    BY <1>1, <2>1 DEF Search
  <2>4. Guards(p)' = Guards(p)
    BY <2>2 DEF Guards, Mapping
  <2>5. ASSUME p \notin raced' \cup unlisted'
        PROVE  \E i \in Slots : Ahead(p, i, t)'
    <3>1. PICK i \in Slots : Ahead(p, i, t)
      BY <1>1, <2>1, <2>5, Bystander DEF Search
    <3>2. ListedAt(p, i)'
      BY <2>1, <2>5, <3>1, Bystander DEF Ahead
    <3> QED
      BY <1>1, <2>2, <3>1, <3>2 DEF Ahead
  <2> QED
    BY <1>1, <2>3, <2>4, <2>5
<1> QED
  BY <1>2, <1>3

\* The guard of a pool that has not raced, from the slot it is in.
LEMMA Hit ==
  ASSUME Table, Settled, NEW p \in Pools \ raced, NEW i \in Slots, ListedAt(p, i), NEW a \in Nat
  PROVE  a \in Guards(p) <=> guard[p].begin <= a /\ a < guardEnd[i]
<1>1. guardEnd[i] = guard[p].end /\ guard[p] # NoGuard
  BY DEF Settled, ListedAt
<1>2. guard[p].begin \in Nat /\ guard[p].end \in Nat
  BY Constants DEF Table, TypeOK
<1> QED
  BY <1>1, <1>2 DEF Guards, Mapping

\* A search that goes on from the slot it looks at has not missed the pool.
LEMMA Passed ==
  ASSUME Table, Settled, Search, NEW t \in Users, NEW p \in Pools, pool[t] = p,
         p \notin raced \cup unlisted,
         \/ pc[t] = "findBegin" /\ guardBegin[index[t]] = 0
         \/ pc[t] = "findEnd" /\ ~(begin[t] <= fault[t] /\ fault[t] < guardEnd[index[t]])
  PROVE  \E i \in Slots : ListedAt(p, i) /\ index[t] < i
<1>1. PICK i \in Slots : Ahead(p, i, t)
  BY DEF Search
<1>2. fault[t] \in Guards(p) /\ fault[t] \in Nat
  BY UserFacts, Constants DEF Search
<1>3. guard[p].begin # 0
  BY <1>1, Constants DEF Ahead, ListedAt, Table, TypeOK, GuardsFit
<1>4. index[t] # i
  BY <1>1, <1>2, <1>3, Hit DEF Ahead, ListedAt
<1> QED
  BY <1>1, <1>4, UserFacts, Constants DEF Ahead, Slots

\* What a step of a user comes to.
LEMMA UserSearch ==
  ASSUME Table, Settled, Search, NEW t \in Users, UserStep(t)
  PROVE  Search'
<1>1. /\ guard' = guard /\ guardBegin' = guardBegin /\ guardEnd' = guardEnd
      /\ unlisted' = unlisted /\ raced' = raced
  BY UserStepFacts DEF table, history
<1>2. /\ t \in Threads /\ index[t] \in Slots
      /\ \A u \in Users \ {t} : /\ pc'[u] = pc[u] /\ pool'[u] = pool[u] /\ index'[u] = index[u]
                               /\ begin'[u] = begin[u] /\ fault'[u] = fault[u]
  BY UserStepFacts, UserFacts, Constants DEF Table, TypeOK
<1>3. \A p, i : (ListedAt(p, i)' <=> ListedAt(p, i)) /\ Guards(p)' = Guards(p)
  BY <1>1 DEF ListedAt, Guards, Mapping
<1>4. ASSUME NEW u \in Users \ {t}, pc'[u] \in {"findBegin", "findEnd"}
      PROVE  /\ pc'[u] = "findEnd" => begin'[u] # 0
             /\ \A p \in Pools : pool'[u] = p =>
                  /\ fault'[u] \in Guards(p)
                  /\ p \notin raced \cup unlisted => \E i \in Slots : Ahead(p, i, u)'
  <2>1. /\ pc'[u] = pc[u] /\ pool'[u] = pool[u] /\ index'[u] = index[u]
        /\ begin'[u] = begin[u] /\ fault'[u] = fault[u]
    BY <1>2
  <2>2. \A p, i : Ahead(p, i, u) => Ahead(p, i, u)'
    BY <1>1, <1>3, <2>1 DEF Ahead
  <2> QED
    BY <1>4, <2>1, <2>2 DEF Search
<1>5. ASSUME pc'[t] \in {"findBegin", "findEnd"}
      PROVE  /\ pc'[t] = "findEnd" => begin'[t] # 0
             /\ \A p \in Pools : pool'[t] = p =>
                  /\ fault'[t] \in Guards(p)
                  /\ p \notin raced \cup unlisted => \E i \in Slots : Ahead(p, i, t)'
  <2>1. /\ pc \in [Threads -> {"idle"} \cup Building \cup Releasing \cup Finding]
        /\ pool \in [Threads -> Pools \cup {NoPool}] /\ index \in [Threads -> Slots]
        /\ begin \in [Threads -> 0..(MaxAddress - 1)] /\ fault \in [Threads -> 0..(MaxAddress - 1)]
    BY DEF Table, TypeOK, Building, Releasing, Finding
  <2>2. ASSUME NEW q \in Pools, Overflow(t, q)
        PROVE  /\ pc'[t] = "findBegin"
               /\ \A p \in Pools : pool'[t] = p =>
                    /\ fault'[t] \in Guards(p)
                    /\ p \notin raced \cup unlisted => \E i \in Slots : Ahead(p, i, t)'
    <3>1. /\ guard[q] # NoGuard /\ \A b \in Builders : pool[b] # q
          /\ pc[t] = "idle" /\ pc' = [pc EXCEPT ![t] = "findBegin"]
          /\ pool' = [pool EXCEPT ![t] = q] /\ index' = index
          /\ \E a \in Guards(q) : fault' = [fault EXCEPT ![t] = a]
      BY <2>2 DEF Overflow, Go
    <3>2. /\ pc'[t] = "findBegin" /\ pool'[t] = q /\ fault'[t] \in Guards(q)
          /\ index'[t] = 0
      BY <1>2, <2>1, <3>1 DEF Table, Positions
    <3>3. q \notin raced \cup unlisted => \E i \in Slots : ListedAt(q, i)
      BY <3>1 DEF Settled
    <3>4. \A i \in Slots : ListedAt(q, i) => Ahead(q, i, t)'
      BY <1>3, <3>2, Constants DEF Ahead, Slots
    <3> QED
      BY <3>2, <3>3, <3>4
  <2>3. CASE TouchWild(t)
    <3>1. pc'[t] = "findBegin" /\ pool'[t] = NoPool
      BY <1>2, <2>1, <2>3 DEF TouchWild, Go, Table, Positions
    <3> QED
      BY <3>1, Constants
  <2>4. ASSUME pc' = [pc EXCEPT ![t] = "findBegin"], index' = [index EXCEPT ![t] = index[t] + 1],
               UNCHANGED <<pool, fault>>,
               \/ pc[t] = "findBegin" /\ guardBegin[index[t]] = 0
               \/ pc[t] = "findEnd" /\ ~(begin[t] <= fault[t] /\ fault[t] < guardEnd[index[t]])
        PROVE  /\ pc'[t] = "findBegin"
               /\ \A p \in Pools : pool'[t] = p =>
                    /\ fault'[t] \in Guards(p)
                    /\ p \notin raced \cup unlisted => \E i \in Slots : Ahead(p, i, t)'
    <3>1. pc'[t] = "findBegin" /\ index'[t] = index[t] + 1
      BY <1>2, <2>1, <2>4
    <3>2. ASSUME NEW p \in Pools, pool'[t] = p
          PROVE  /\ fault'[t] \in Guards(p)
                 /\ p \notin raced \cup unlisted => \E i \in Slots : Ahead(p, i, t)'
      <4>1. pool[t] = p /\ fault'[t] \in Guards(p)
        BY <2>4, <3>2 DEF Search
      <4>2. ASSUME p \notin raced \cup unlisted
            PROVE  \E i \in Slots : Ahead(p, i, t)'
        <5>1. PICK i \in Slots : ListedAt(p, i) /\ index[t] < i
          BY <2>4, <4>1, <4>2, Passed
        <5>2. index[t] + 1 <= i
          BY <1>2, <5>1 DEF Slots
        <5> QED
          BY <1>3, <3>1, <5>1, <5>2 DEF Ahead
      <4> QED
        BY <4>1, <4>2
    <3> QED
      BY <3>1, <3>2
  <2>5. CASE FindBegin(t)
    <3>1. CASE guardBegin[index[t]] = 0
      <4>1. /\ NextSlot(t, "findBegin", "findBegin", "delegated")
            /\ UNCHANGED <<pool, fault>>
        BY <2>5, <3>1 DEF FindBegin
      <4>2. /\ pc[t] = "findBegin" /\ pc' = [pc EXCEPT ![t] = "findBegin"]
            /\ index' = [index EXCEPT ![t] = index[t] + 1]
        BY <1>2, <1>5, <2>1, <4>1, NextSlotFacts DEF Table
      <4>3. pc'[t] = "findBegin"
        BY <1>2, <2>1, <4>2
      <4> QED
        BY <2>4, <3>1, <4>1, <4>2, <4>3
    <3>2. CASE guardBegin[index[t]] # 0
      <4>1. /\ pc[t] = "findBegin" /\ pc'[t] = "findEnd" /\ begin'[t] = guardBegin[index[t]]
            /\ UNCHANGED <<pool, fault, index>>
        BY <1>2, <2>1, <2>5, <3>2 DEF FindBegin, Go
      <4>2. \A p \in Pools, i \in Slots : Ahead(p, i, t) => Ahead(p, i, t)'
        BY <1>1, <1>3, <4>1 DEF Ahead, ListedAt
      <4> QED
        BY <3>2, <4>1, <4>2 DEF Search
    <3> QED
      BY <3>1, <3>2
  <2>6. CASE FindEnd(t)
    <3>1. ~(begin[t] <= fault[t] /\ fault[t] < guardEnd[index[t]])
      BY <1>2, <1>5, <2>1, <2>6 DEF FindEnd, Go
    <3>2. /\ NextSlot(t, "findEnd", "findBegin", "delegated")
          /\ UNCHANGED <<pool, fault>>
      BY <2>6, <3>1 DEF FindEnd
    <3>3. /\ pc[t] = "findEnd" /\ pc' = [pc EXCEPT ![t] = "findBegin"]
          /\ index' = [index EXCEPT ![t] = index[t] + 1]
      BY <1>2, <1>5, <2>1, <3>2, NextSlotFacts DEF Table
    <3>4. pc'[t] = "findBegin"
      BY <1>2, <2>1, <3>3
    <3> QED
      BY <2>4, <3>1, <3>2, <3>3, <3>4
  <2> QED
    BY <2>2, <2>3, <2>5, <2>6 DEF UserStep
<1> QED
  BY <1>1, <1>3, <1>4, <1>5 DEF Search

\* How a search ends.
LEMMA UserVerdict ==
  ASSUME Table, Settled, Search, NEW t \in Users, UserStep(t)
  PROVE  /\ pc'[t] = "delegated" /\ pool'[t] # NoPool => pool'[t] \in unlisted' \cup raced'
         /\ pc'[t] = "reported" =>
              \/ \E p \in Pools : guard'[p].begin = begin'[t] /\ (p \in raced' \/ fault'[t] \in Guards(p)')
              \/ guardBegin'[index'[t]] # begin'[t]
<1>1. /\ guard' = guard /\ guardBegin' = guardBegin /\ guardEnd' = guardEnd
      /\ unlisted' = unlisted /\ raced' = raced
  BY UserStepFacts DEF table, history
<1>2. /\ t \in Threads /\ index[t] \in Slots /\ pool[t] \in Pools \cup {NoPool}
      /\ fault[t] \in Nat
      /\ pc \in [Threads -> {"idle"} \cup Building \cup Releasing \cup Finding]
  BY UserFacts, Constants DEF Table, TypeOK, Building, Releasing, Finding
<1>3. \A p : Guards(p)' = Guards(p)
  BY <1>1 DEF Guards, Mapping
<1>4. CASE (\E p \in Pools : Overflow(t, p)) \/ TouchWild(t)
  BY <1>2, <1>4 DEF Overflow, TouchWild, Go
<1>5. ASSUME pc'[t] = "delegated"
      PROVE  /\ index[t] = MaxSlots - 1 /\ pool'[t] = pool[t]
             /\ \/ pc[t] = "findBegin" /\ guardBegin[index[t]] = 0
                \/ pc[t] = "findEnd" /\ ~(begin[t] <= fault[t] /\ fault[t] < guardEnd[index[t]])
  <2>1. CASE FindBegin(t)
    <3>1. guardBegin[index[t]] = 0
      BY <1>2, <1>5, <2>1 DEF FindBegin, Go
    <3>2. NextSlot(t, "findBegin", "findBegin", "delegated") /\ pool' = pool
      BY <2>1, <3>1 DEF FindBegin
    <3> QED
      BY <1>2, <1>5, <3>1, <3>2, NextSlotFacts DEF Table
  <2>2. CASE FindEnd(t)
    <3>1. ~(begin[t] <= fault[t] /\ fault[t] < guardEnd[index[t]])
      BY <1>2, <1>5, <2>2 DEF FindEnd, Go
    <3>2. NextSlot(t, "findEnd", "findBegin", "delegated") /\ pool' = pool
      BY <2>2, <3>1 DEF FindEnd
    <3> QED
      BY <1>2, <1>5, <3>1, <3>2, NextSlotFacts DEF Table
  <2> QED
    BY <1>2, <1>4, <1>5, <2>1, <2>2 DEF UserStep, Overflow, TouchWild, Go
<1>6. ASSUME pc'[t] = "delegated", pool'[t] # NoPool
      PROVE  pool'[t] \in unlisted' \cup raced'
  <2> SUFFICES ASSUME pool'[t] \notin unlisted' \cup raced' PROVE FALSE
    OBVIOUS
  <2>1. PICK p \in Pools : p = pool[t]
    BY <1>2, <1>5, <1>6
  <2>2. p \notin raced \cup unlisted
    BY <1>1, <1>5, <1>6, <2>1
  <2>3. PICK i \in Slots : ListedAt(p, i) /\ index[t] < i
    BY <1>5, <1>6, <2>1, <2>2, Passed
  <2> QED
    BY <1>2, <1>5, <1>6, <2>3, LastSlot, Constants DEF Slots
<1>7. ASSUME pc'[t] = "reported", guardBegin'[index'[t]] = begin'[t]
      PROVE  \E p \in Pools : guard'[p].begin = begin'[t] /\ (p \in raced' \/ fault'[t] \in Guards(p)')
  <2>1. FindEnd(t)
    <3>1. ~FindBegin(t)
      BY <1>2, <1>7 DEF FindBegin, NextSlot, Go
    <3> QED
      BY <1>2, <1>7, <3>1 DEF UserStep, Overflow, TouchWild, Go
  <2>2. /\ pc[t] = "findEnd" /\ begin[t] <= fault[t] /\ fault[t] < guardEnd[index[t]]
        /\ UNCHANGED <<index, begin, fault>>
    BY <1>2, <1>7, <2>1 DEF FindEnd, NextSlot, Go
  <2>3. begin[t] # 0 /\ guardBegin[index[t]] = begin[t]
    BY <1>1, <1>7, <2>2 DEF Search
  <2>4. PICK p \in Pools : ListedAt(p, index[t])
    BY <1>2, <2>3 DEF Table, Listing
  <2>5. guard[p].begin = begin[t]
    BY <2>3, <2>4 DEF ListedAt
  <2>6. p \notin raced => fault[t] \in Guards(p)
    BY <1>2, <2>2, <2>4, <2>5, Hit
  <2> QED
    BY <1>1, <1>3, <2>2, <2>5, <2>6
<1> QED
  BY <1>6, <1>7

Handled == Table /\ Settled /\ Search /\ OnlyRacesMislead

LEMMA HandledInit == Init => Handled
<1> SUFFICES ASSUME Init PROVE Handled
  OBVIOUS
<1>1. \A t \in Users : pc[t] = "idle"
  BY Constants DEF Init
<1> QED
  BY <1>1, TableInit, SettledInit DEF Handled, Search, OnlyRacesMislead

LEMMA HandledNext == Handled /\ [Next]_vars => Handled'
<1> SUFFICES ASSUME Handled, [Next]_vars PROVE Handled'
  OBVIOUS
<1>1. Table /\ Table' /\ Settled /\ Search /\ OnlyRacesMislead
  BY TableNext DEF Handled
<1>2. ASSUME NEW t \in Builders, BuilderStep(t), ~HasEnded
      PROVE  Handled'
  <2>1. Settled'
    BY <1>1, <1>2, QuietSteps, LoadFreeSettled, LoadOwnSettled, StoreEndSettled,
       StoreBeginSettled, ClearBeginSettled, ClearEndSettled, UnmapSettled DEF BuilderStep
  <2>2. Search'
    BY <1>1, <1>2, BuilderSearch
  <2>3. OnlyRacesMislead'
    BY <1>1, <1>2, UsersStill DEF HasEnded, OnlyRacesMislead
  <2> QED
    BY <1>1, <2>1, <2>2, <2>3 DEF Handled
<1>3. ASSUME NEW t \in Users, UserStep(t), ~HasEnded
      PROVE  Handled'
  <2>1. Settled'
    BY <1>1, <1>3, UserSettled
  <2>2. Search'
    BY <1>1, <1>3, UserSearch
  <2>3. \A u \in Users \ {t} : pc'[u] \notin {"reported", "delegated"}
    <3>1. pc' = [pc EXCEPT ![t] = pc'[t]]
      BY <1>1, <1>3, UserStepFacts
    <3> QED
      BY <1>1, <1>3, <3>1, Constants DEF HasEnded, Table, TypeOK
  <2>4. OnlyRacesMislead'
    BY <1>1, <1>3, <2>3, UserVerdict DEF OnlyRacesMislead
  <2> QED
    BY <1>1, <2>1, <2>2, <2>4 DEF Handled
<1>4. CASE UNCHANGED vars
  <2>1. /\ guard' = guard /\ guardBegin' = guardBegin /\ guardEnd' = guardEnd /\ pc' = pc
        /\ pool' = pool /\ index' = index /\ begin' = begin /\ fault' = fault
        /\ unlisted' = unlisted /\ raced' = raced
    BY <1>4 DEF vars, table, local, history
  <2>2. Settled'
    BY <1>1, <2>1 DEF Settled, ListedAt, Writer
  <2>3. Search'
    BY <1>1, <2>1 DEF Search, Ahead, ListedAt, Guards, Mapping
  <2>4. OnlyRacesMislead'
    BY <1>1, <2>1 DEF OnlyRacesMislead, Guards, Mapping
  <2> QED
    BY <1>1, <2>2, <2>3, <2>4 DEF Handled
<1> QED
  BY <1>2, <1>3, <1>4 DEF Next, Ended

\* However many threads, pools and slots: an overflow goes unreported only when
\* its pool found no slot or raced for it, and a wrong report takes a slot that
\* changed under the handler.
THEOREM OnlyRaces == Spec => []OnlyRacesMislead
<1>1. Handled => OnlyRacesMislead
  BY DEF Handled
<1>2. Spec => []Handled
  BY HandledInit, HandledNext, PTL DEF Spec
<1> QED
  BY <1>1, <1>2, PTL
=============================================================================

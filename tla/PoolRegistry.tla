---------------------------- MODULE PoolRegistry ----------------------------
(***************************************************************************)
(* The registry of guards (detail/downward_pool_storage.cpp): a table of   *)
(* atomics that constructors and releases of pools write without a lock,   *)
(* and that the handler of SIGSEGV and SIGBUS reads whenever a thread      *)
(* touches memory it may not.  A step is one access to the table or one    *)
(* system call.                                                            *)
(***************************************************************************)
EXTENDS Integers

CONSTANTS
  Pools,       \* pools a program may construct
  Builders,    \* threads that construct and release pools
  Users,       \* threads that use pools, or wild addresses
  NoPool,
  MaxSlots,    \* kMaxRegisteredPools
  MaxAddress,  \* bound: addresses are 1..MaxAddress - 1, in pages
  Bases,       \* addresses mmap may return
  GuardSizes   \* sizes of a guard, in pages; one usable page is above it

ASSUME RegistryAssumption ==
  /\ NoPool \notin Pools /\ Builders \cap Users = {}
  /\ MaxSlots \in Nat \ {0} /\ MaxAddress \in Nat \ {0}
  /\ GuardSizes \subseteq Nat \ {0} /\ Bases \subseteq 1..(MaxAddress - 1)

Threads == Builders \cup Users
Slots == 0..(MaxSlots - 1)
Addresses == 1..(MaxAddress - 1)
NoGuard == [begin |-> 0, end |-> 0]

VARIABLES
  guard,       \* the guard of each pool whose mapping exists, or NoGuard
  guardBegin,  \* guard_begin of each slot
  guardEnd,    \* guard_end of each slot
  pc,          \* where each thread is
  pool,        \* the pool it constructs, releases or has overflowed
  index,       \* its place in the table
  begin,       \* the guard_begin the handler has loaded
  fault,       \* the address the thread has touched: info->si_addr
  unlisted,    \* history: pools that found no free slot
  raced        \* history: pools that took a slot another thread was writing

local == <<pc, pool, index, begin, fault>>
table == <<guardBegin, guardEnd>>
history == <<unlisted, raced>>
vars == <<guard, table, local, history>>

Init ==
  /\ guard = [p \in Pools |-> NoGuard]
  /\ guardBegin = [i \in Slots |-> 0]
  /\ guardEnd = [i \in Slots |-> 0]
  /\ pc = [t \in Threads |-> "idle"]
  /\ pool = [t \in Threads |-> NoPool]
  /\ index = [t \in Threads |-> 0]
  /\ begin = [t \in Threads |-> 0]
  /\ fault = [t \in Threads |-> 0]
  /\ unlisted = {}
  /\ raced = {}

\* Guard and usable page of a pool.
Mapping(p) == IF guard[p] = NoGuard THEN {} ELSE guard[p].begin .. guard[p].end

Guards(p) == {a \in Mapping(p) : a < guard[p].end}

Go(t, from, to) == pc[t] = from /\ pc' = [pc EXCEPT ![t] = to]

\* Back from a call: the locals are gone.
Done(t, from) ==
  /\ Go(t, from, "idle")
  /\ pool' = [pool EXCEPT ![t] = NoPool]
  /\ index' = [index EXCEPT ![t] = 0]
  /\ UNCHANGED <<begin, fault>>

\* The loop goes on with the next slot, or ends.
NextSlot(t, from, to, end) ==
  IF index[t] + 1 < MaxSlots
  THEN /\ Go(t, from, to)
       /\ index' = [index EXCEPT ![t] = @ + 1]
  ELSE /\ Go(t, from, end)
       /\ index' = [index EXCEPT ![t] = 0]

-----------------------------------------------------------------------------
(* make_downward_pool_storage and register_pool_guard.                     *)

Busy(p) == \E t \in Threads : pool[t] = p

\* mmap; when mprotect fails it is undone before the exception leaves, which
\* nobody sees.
MapPool(t, p) ==
  /\ guard[p] = NoGuard /\ ~Busy(p)
  /\ \E b \in Bases, size \in GuardSizes :
       /\ b + size < MaxAddress
       /\ \A q \in Pools : b .. (b + size) \cap Mapping(q) = {}
       /\ guard' = [guard EXCEPT ![p] = [begin |-> b, end |-> b + size]]
  /\ Go(t, "idle", "register")
  /\ pool' = [pool EXCEPT ![t] = p]
  /\ UNCHANGED <<table, index, begin, fault, history>>

\* Threads with a store to t's slot ahead of them.
Rivals(t) ==
  {u \in Builders \ {t} : index[u] = index[t] /\ pc[u] \in {"storeEnd", "storeBegin", "clearBegin", "clearEnd"}}

LoadFree(t) ==
  /\ guardBegin[index[t]] = 0
  /\ Go(t, "register", "storeEnd")
  /\ raced' = IF Rivals(t) = {} THEN raced ELSE raced \cup {pool[u] : u \in Rivals(t) \cup {t}}
  /\ UNCHANGED <<guard, table, pool, index, begin, fault, unlisted>>

\* Mistake: the loop runs past the last slot.
LoadTakenUnbounded(t) ==
  /\ guardBegin[index[t]] # 0
  /\ Go(t, "register", "register")
  /\ index' = [index EXCEPT ![t] = @ + 1]
  /\ UNCHANGED <<guard, table, pool, begin, fault, history>>

LoadTaken(t) ==
  /\ guardBegin[index[t]] # 0 /\ index[t] + 1 < MaxSlots
  /\ NextSlot(t, "register", "register", "idle")
  /\ UNCHANGED <<guard, table, pool, begin, fault, history>>

\* register_pool_guard returns without a word.
TableFull(t) ==
  /\ guardBegin[index[t]] # 0 /\ index[t] + 1 = MaxSlots
  /\ Done(t, "register")
  /\ unlisted' = unlisted \cup {pool[t]}
  /\ UNCHANGED <<guard, table, raced>>

StoreEnd(t) ==
  /\ Go(t, "storeEnd", "storeBegin")
  /\ guardEnd' = [guardEnd EXCEPT ![index[t]] = guard[pool[t]].end]
  /\ UNCHANGED <<guard, guardBegin, pool, index, begin, fault, history>>

\* Mistake: the loop goes on after the registration.
StoreBeginGoingOn(t) ==
  /\ IF index[t] + 1 = MaxSlots THEN Done(t, "storeBegin")
     ELSE NextSlot(t, "storeBegin", "register", "idle") /\ UNCHANGED <<pool, begin, fault>>
  /\ guardBegin' = [guardBegin EXCEPT ![index[t]] = guard[pool[t]].begin]
  /\ UNCHANGED <<guard, guardEnd, history>>

StoreBegin(t) ==
  /\ Done(t, "storeBegin")
  /\ guardBegin' = [guardBegin EXCEPT ![index[t]] = guard[pool[t]].begin]
  /\ UNCHANGED <<guard, guardEnd, history>>

-----------------------------------------------------------------------------
(* release_downward_pool_storage and unregister_pool_guard.                *)

\* A program releases a pool nobody is using.
Release(t, p) ==
  /\ guard[p] # NoGuard /\ ~Busy(p)
  /\ Go(t, "idle", "unregister")
  /\ pool' = [pool EXCEPT ![t] = p]
  /\ UNCHANGED <<guard, table, index, begin, fault, history>>

\* Mistake: only the first slot is looked at.
LoadOtherGivingUp(t) ==
  /\ pc[t] = "unregister" /\ guardBegin[index[t]] # guard[pool[t]].begin
  /\ Go(t, "unregister", "unmap")
  /\ UNCHANGED <<guard, table, pool, index, begin, fault, history>>

LoadOther(t) ==
  /\ pc[t] = "unregister" /\ guardBegin[index[t]] # guard[pool[t]].begin
  /\ NextSlot(t, "unregister", "unregister", "unmap")
  /\ UNCHANGED <<guard, table, pool, begin, fault, history>>

LoadOwn(t) ==
  /\ Go(t, "unregister", "clearBegin")
  /\ guardBegin[index[t]] = guard[pool[t]].begin
  /\ UNCHANGED <<guard, table, pool, index, begin, fault, history>>

ClearBegin(t) ==
  /\ Go(t, "clearBegin", "clearEnd")
  /\ guardBegin' = [guardBegin EXCEPT ![index[t]] = 0]
  /\ UNCHANGED <<guard, guardEnd, pool, index, begin, fault, history>>

ClearEnd(t) ==
  /\ Go(t, "clearEnd", "unmap")
  /\ guardEnd' = [guardEnd EXCEPT ![index[t]] = 0]
  /\ UNCHANGED <<guard, guardBegin, pool, index, begin, fault, history>>

\* munmap, "storage = {}".
Unmap(t) ==
  /\ Done(t, "unmap")
  /\ guard' = [guard EXCEPT ![pool[t]] = NoGuard]
  /\ unlisted' = unlisted \ {pool[t]}
  /\ raced' = raced \ {pool[t]}
  /\ UNCHANGED table

-----------------------------------------------------------------------------
(* A fault, and pool_signal_handler with find_pool_index.                  *)

\* A user overflows pool p, which is constructed and will not be released
\* under it.
Overflow(t, p) ==
  /\ guard[p] # NoGuard /\ \A b \in Builders : pool[b] # p
  /\ Go(t, "idle", "findBegin")
  /\ pool' = [pool EXCEPT ![t] = p]
  /\ \E a \in Guards(p) : fault' = [fault EXCEPT ![t] = a]
  /\ UNCHANGED <<guard, table, index, begin, history>>

\* A user touches an address no pool has anything to do with.
TouchWild(t) ==
  /\ Go(t, "idle", "findBegin")
  /\ \E a \in Addresses :
       /\ \A p \in Pools : a \notin Mapping(p)
       /\ fault' = [fault EXCEPT ![t] = a]
  /\ UNCHANGED <<guard, table, pool, index, begin, history>>

FindBegin(t) ==
  /\ IF guardBegin[index[t]] = 0
     THEN NextSlot(t, "findBegin", "findBegin", "delegated") /\ UNCHANGED begin
     ELSE /\ Go(t, "findBegin", "findEnd")
          /\ begin' = [begin EXCEPT ![t] = guardBegin[index[t]]]
          /\ UNCHANGED index
  /\ UNCHANGED <<guard, table, pool, fault, history>>

\* Mistake: the first address of a guard does not count.
FindEndPastBegin(t) ==
  /\ IF begin[t] < fault[t] /\ fault[t] < guardEnd[index[t]]
     THEN Go(t, "findEnd", "reported") /\ UNCHANGED <<index, begin>>
     ELSE /\ NextSlot(t, "findEnd", "findBegin", "delegated")
          /\ begin' = [begin EXCEPT ![t] = 0]
  /\ UNCHANGED <<guard, table, pool, fault, history>>

FindEnd(t) ==
  /\ IF begin[t] <= fault[t] /\ fault[t] < guardEnd[index[t]]
     THEN Go(t, "findEnd", "reported") /\ UNCHANGED <<index, begin>>
     ELSE /\ NextSlot(t, "findEnd", "findBegin", "delegated")
          /\ begin' = [begin EXCEPT ![t] = 0]
  /\ UNCHANGED <<guard, table, pool, fault, history>>

\* The handler prints "protected pool #index", or calls the handler that was
\* there before; either ends the process.
HasEnded == \E t \in Users : pc[t] \in {"reported", "delegated"}

Ended == HasEnded /\ UNCHANGED vars

BuilderStep(t) ==
  \/ \E p \in Pools : MapPool(t, p) \/ Release(t, p)
  \/ LoadFree(t) \/ LoadTaken(t) \/ TableFull(t) \/ StoreEnd(t) \/ StoreBegin(t)
  \/ LoadOther(t) \/ LoadOwn(t) \/ ClearBegin(t) \/ ClearEnd(t) \/ Unmap(t)

UserStep(t) ==
  \/ \E p \in Pools : Overflow(t, p)
  \/ TouchWild(t) \/ FindBegin(t) \/ FindEnd(t)

Next ==
  \/ /\ ~HasEnded
     /\ (\E t \in Builders : BuilderStep(t)) \/ (\E t \in Users : UserStep(t))
  \/ Ended

Spec == Init /\ [][Next]_vars

-----------------------------------------------------------------------------
(* Properties.                                                             *)

\* Mappings of different pools are apart.
TypeOK ==
  /\ guard \in [Pools -> [begin : 0..(MaxAddress - 1), end : 0..(MaxAddress - 1)]]
  /\ \A p, q \in Pools : p # q => Mapping(p) \cap Mapping(q) = {}
  /\ guardBegin \in [Slots -> 0..(MaxAddress - 1)]
  /\ guardEnd \in [Slots -> 0..(MaxAddress - 1)]
  /\ pc \in [Threads -> {"idle", "register", "storeEnd", "storeBegin", "unregister",
                         "clearBegin", "clearEnd", "unmap", "findBegin", "findEnd",
                         "reported", "delegated"}]
  /\ pool \in [Threads -> Pools \cup {NoPool}]
  /\ index \in [Threads -> Slots]
  /\ begin \in [Threads -> 0..(MaxAddress - 1)]
  /\ fault \in [Threads -> 0..(MaxAddress - 1)]
  /\ unlisted \subseteq Pools /\ raced \subseteq Pools

\* The table never names memory that is unmapped, or mapped again as another
\* pool's: the guard is struck off before munmap, by whoever found it, even
\* when several threads construct and release pools at once.  And no pool has
\* two slots, so striking it off once is enough.
ListedGuardsMapped ==
  /\ \A i \in Slots : guardBegin[i] # 0 => \E p \in Pools : guard[p].begin = guardBegin[i]
  /\ \A i, j \in Slots : guardBegin[i] = guardBegin[j] /\ guardBegin[i] # 0 => i = j

\* Two races are all that can mislead the handler.  It takes the overflow of a
\* pool for a stray fault only if the table was full, or another thread was
\* writing the slot when the pool took it; and the guard it names has the
\* address that was touched, unless the slot has changed between the loads
\* of begin and end, or two pools had taken it.
OnlyRacesMislead ==
  \A t \in Users :
    /\ pc[t] = "delegated" /\ pool[t] # NoPool => pool[t] \in unlisted \cup raced
    /\ pc[t] = "reported" =>
         \/ \E p \in Pools : guard[p].begin = begin[t] /\ (p \in raced \/ fault[t] \in Guards(p))
         \/ guardBegin[index[t]] # begin[t]

\* README.md: on a hit of a guard the handler prints the name of the pool that
\* has overflowed, if that pool found a slot.
OverflowIsReported ==
  \A t \in Users :
    pc[t] \in {"reported", "delegated"} /\ pool[t] \in Pools \ unlisted =>
      pc[t] = "reported" /\ guardBegin[index[t]] = guard[pool[t]].begin
=============================================================================

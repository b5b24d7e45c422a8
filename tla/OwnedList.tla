------------------------------ MODULE OwnedList ------------------------------
(***************************************************************************)
(* doost::List, a singly linked list whose nodes come from an allocator    *)
(* that belongs to the list, and the pool allocators as such allocators.   *)
(*                                                                         *)
(* A List belongs to one thread.  A call makes the steps in todo, one      *)
(* after the other; the loops of the code (copy_from, move_values_from,    *)
(* clear) take one node per step, so that an element whose constructor     *)
(* throws may throw in the middle.                                         *)
(***************************************************************************)
EXTENDS Naturals, Sequences, FiniteSets

CONSTANTS
  Lists,       \* addresses where a program may keep a List object
  Temp,        \* the local variable copy or moved of an assignment
  Nodes,       \* addresses of nodes
  Values,
  Moved,       \* what a moved-from element holds
  Allocators,
  Null,
  Kinds        \* the types of allocators a program may give its lists:
               \*   propagates  propagate_on_container_move_assignment
               \*   arena       deallocate does nothing: DownwardPoolAllocator and
               \*               SequentialPoolAllocator, where an allocator is its pool
               \*   memory      bound: nodes there is memory for
               \*   length      bound: elements the program puts into one list

Objects == Lists \cup {Temp}

ASSUME ListAssumption ==
  /\ Temp \notin Lists /\ Null \notin Objects \cup Nodes \cup Allocators \cup Values
  /\ Moved # Null
  /\ Kinds \subseteq [propagates : BOOLEAN, arena : BOOLEAN, memory : Nat, length : Nat]
  /\ IsFiniteSet(Nodes)

VARIABLES
  kind,      \* the type of the allocators of the program's lists
  alive,     \* the lists that are constructed and not yet destroyed
  list,      \* head_, size_ and allocator_ of each object
  node,      \* next, value (Null: no element) and the allocator that made it
             \* (Null: not allocated) of each node
  todo,      \* what is left of the current call
  threw,     \* an exception is on its way to the caller
  call,      \* the call being made
  contents   \* history: what each list held when the last call returned

heap == <<list, node>>
vars == <<kind, alive, list, node, todo, threw, call, contents>>

NoList == [head |-> Null, size |-> 0, allocator |-> Null]
NoNode == [next |-> Null, value |-> Null, madeBy |-> Null]

\* What a traversal meets in memory m from node p on: steps[k][p] are the first
\* k nodes, and there are no more than Nodes.
Traversal(m) ==
  LET steps[k \in 0..Cardinality(Nodes)] ==
        [p \in Nodes \cup {Null} |->
           IF k = 0 \/ p = Null THEN <<>> ELSE <<p>> \o steps[k - 1][m[p].next]]
  IN  steps[Cardinality(Nodes)]

\* From begin() to end().
Chain(x) == Traversal(node)[list[x].head]

ChainNodes(x) == LET chain == Chain(x) IN {chain[i] : i \in DOMAIN chain}

ValuesOf(x) == LET chain == Chain(x) IN [i \in DOMAIN chain |-> node[chain[i]].value]

Service == INSTANCE ListService

NoCall == Service!NoCall

Init ==
  /\ kind \in Kinds
  /\ alive = {}
  /\ list = [x \in Objects |-> NoList]
  /\ node = [n \in Nodes |-> NoNode]
  /\ todo = <<>>
  /\ threw = FALSE
  /\ call = NoCall
  /\ contents = [l \in Lists |-> <<>>]

-----------------------------------------------------------------------------
(* The private operations, as steps of a call.                             *)

Fill(to, how, from) ==
  [step |-> "fill", list |-> to, how |-> how, source |-> list[from].head, tail |-> Null]
Do(step, x)       == [step |-> step, list |-> x]
Do2(step, x, o)   == [step |-> step, list |-> x, other |-> o]

UsedNodes == {n \in Nodes : node[n].madeBy # Null}

FreeNodes == IF Cardinality(UsedNodes) < kind.memory THEN Nodes \ UsedNodes ELSE {}

\* A pool that has too little room ends the process: PoolClients is about that.
Room(k) == kind.arena => Cardinality(UsedNodes) + k <= kind.memory

Deallocated(n) == IF kind.arena THEN [NoNode EXCEPT !.madeBy = node[n].madeBy] ELSE NoNode

\* Mistake: the catch block forgets to deallocate.
CreateNodeFailsLeaking(x) ==
  \E n \in FreeNodes : node' = [node EXCEPT ![n].madeBy = list[x].allocator]

\* create_node throws: allocate did, or the element's constructor did and
\* the node was given back, which to an arena means nothing.
CreateNodeFails(x) ==
  IF kind.arena THEN \E n \in FreeNodes : node' = [node EXCEPT ![n].madeBy = list[x].allocator]
           ELSE UNCHANGED node

\* An exception leaves the call: what is left to do is skipped.  copy_from and
\* move_values_from clear what they have built first.
Throw(cleanup) ==
  /\ threw' = TRUE
  /\ todo' = cleanup

Doing(step) == todo # <<>> /\ Head(todo).step = step

Advance == todo' = Tail(todo)

PushNode ==
  /\ Doing("push")
  /\ LET x == Head(todo).list
     IN  \/ \E n \in FreeNodes :
              /\ node' = [node EXCEPT ![n] = [next |-> list[x].head, value |-> call.value,
                                              madeBy |-> list[x].allocator]]
              /\ list' = [list EXCEPT ![x].head = n, ![x].size = @ + 1]
              /\ Advance
              /\ UNCHANGED threw
         \/ CreateNodeFails(x) /\ Throw(<<>>) /\ UNCHANGED list
  /\ UNCHANGED <<alive, call, contents, kind>>

\* Mistake: the copy goes to the front.
FillNodeReversing ==
  /\ Doing("fill") /\ Head(todo).source # Null
  /\ LET f == Head(todo)
     IN  \E n \in FreeNodes :
           /\ node' = [node EXCEPT ![n] = [next |-> list[f.list].head,
                                           value |-> node[f.source].value,
                                           madeBy |-> list[f.list].allocator]]
           /\ list' = [list EXCEPT ![f.list].head = n, ![f.list].size = @ + 1]
           /\ todo' = [todo EXCEPT ![1].source = node[f.source].next]
  /\ UNCHANGED <<alive, threw, call, contents, kind>>

\* One turn of the loop of copy_from or move_values_from.
FillNode ==
  /\ Doing("fill") /\ Head(todo).source # Null
  /\ LET f == Head(todo)
         x == f.list
         source == node[f.source]
         stored(n) == [node EXCEPT
                         ![f.source].value = IF f.how = "move" THEN Moved ELSE @,
                         ![n] = [next |-> Null, value |-> source.value,
                                 madeBy |-> list[x].allocator]]
     IN  \/ \E n \in FreeNodes :
              /\ node' = IF f.tail = Null THEN stored(n)
                         ELSE [stored(n) EXCEPT ![f.tail].next = n]
              /\ list' = [list EXCEPT ![x].head = IF f.tail = Null THEN n ELSE @,
                                      ![x].size = @ + 1]
              /\ todo' = [todo EXCEPT ![1].source = source.next, ![1].tail = n]
              /\ UNCHANGED threw
         \/ CreateNodeFails(x) /\ Throw(<<Do("clear", x)>>) /\ UNCHANGED list
  /\ UNCHANGED <<alive, call, contents, kind>>

FillDone ==
  /\ Doing("fill") /\ Head(todo).source = Null
  /\ Advance
  /\ UNCHANGED <<alive, heap, threw, call, contents, kind>>

\* destroy_node, by the list that takes its first node off.
DestroyHead(x) ==
  LET n == list[x].head
  IN  node' = [node EXCEPT ![n] = Deallocated(n)]

\* Mistake: size_ is decremented before the list is found to be empty.
PopNodeCountingFirst ==
  /\ Doing("pop")
  /\ LET x == Head(todo).list
         counted == [list EXCEPT ![x].size = @ - 1]
     IN  IF list[x].head = Null
         THEN Throw(<<>>) /\ list' = counted /\ UNCHANGED node
         ELSE /\ list' = [counted EXCEPT ![x].head = node[@].next]
              /\ DestroyHead(x)
              /\ Advance
              /\ UNCHANGED threw
  /\ UNCHANGED <<alive, call, contents, kind>>

PopNode ==
  /\ Doing("pop")
  /\ LET x == Head(todo).list
     IN  IF list[x].head = Null
         THEN Throw(<<>>) /\ UNCHANGED heap
         ELSE /\ list' = [list EXCEPT ![x].head = node[@].next, ![x].size = @ - 1]
              /\ DestroyHead(x)
              /\ Advance
              /\ UNCHANGED threw
  /\ UNCHANGED <<alive, call, contents, kind>>

\* One turn of the loop of clear.
ClearNode ==
  /\ Doing("clear")
  /\ LET x == Head(todo).list
     IN  /\ list[x].head # Null
         /\ list' = [list EXCEPT ![x].head = node[@].next]
         /\ DestroyHead(x)
  /\ UNCHANGED <<alive, todo, threw, call, contents, kind>>

ClearDone ==
  /\ Doing("clear")
  /\ LET x == Head(todo).list
     IN  /\ list[x].head = Null
         /\ list' = [list EXCEPT ![x].size = 0]
  /\ Advance
  /\ UNCHANGED <<alive, node, threw, call, contents, kind>>

\* Mistake: the other list keeps its nodes.
StealCopying ==
  /\ Doing("steal")
  /\ LET x == Head(todo).list
         o == Head(todo).other
     IN  list' = [list EXCEPT ![x].head = list[o].head, ![x].size = list[o].size]
  /\ Advance
  /\ UNCHANGED <<alive, node, threw, call, contents, kind>>

\* steal_nodes_from.
Steal ==
  /\ Doing("steal")
  /\ LET x == Head(todo).list
         o == Head(todo).other
     IN  list' = [list EXCEPT ![x].head = list[o].head, ![x].size = list[o].size,
                              ![o].head = Null, ![o].size = 0]
  /\ Advance
  /\ UNCHANGED <<alive, node, threw, call, contents, kind>>

TakeAllocator ==
  /\ Doing("takeAllocator")
  /\ LET x == Head(todo).list
         o == Head(todo).other
     IN  list' = [list EXCEPT ![x].allocator = list[o].allocator]
  /\ Advance
  /\ UNCHANGED <<alive, node, threw, call, contents, kind>>

\* swap_nodes: the allocators stay where they are.
SwapNodes ==
  /\ Doing("swap")
  /\ LET x == Head(todo).list
         o == Head(todo).other
     IN  list' = [list EXCEPT ![x].head = list[o].head, ![x].size = list[o].size,
                              ![o].head = list[x].head, ![o].size = list[x].size]
  /\ Advance
  /\ UNCHANGED <<alive, node, threw, call, contents, kind>>

-----------------------------------------------------------------------------
(* The public operations: what each does at once, and what is left to do.  *)

Begin(op, l, o, v, steps) ==
  /\ call = NoCall
  /\ call' = [op |-> op, list |-> l, other |-> o, value |-> v]
  /\ todo' = steps
  /\ UNCHANGED <<alive, node, threw, contents, kind>>

Construct(l, a) ==
  /\ l \notin alive
  /\ list' = [list EXCEPT ![l] = [NoList EXCEPT !.allocator = a]]
  /\ Begin("construct", l, Null, Null, <<>>)

\* With the allocator of o, or with one the program names.
ConstructCopy(l, o, a) ==
  /\ l \notin alive
  /\ Room(list[o].size)
  /\ list' = [list EXCEPT ![l] = [NoList EXCEPT !.allocator = a]]
  /\ Begin("constructCopy", l, o, Null, <<Fill(l, "copy", o)>>)

ConstructMove(l, o) ==
  /\ l \notin alive
  /\ list' = [list EXCEPT ![l] = list[o], ![o] = [NoList EXCEPT !.allocator = list[o].allocator]]
  /\ Begin("constructMove", l, o, Null, <<>>)

Destroy(l) ==
  /\ Begin("destroy", l, Null, Null, <<Do("clear", l)>>)
  /\ UNCHANGED list

NewTemp(a) == list' = [list EXCEPT ![Temp] = [NoList EXCEPT !.allocator = a]]

AssignCopy(l, o) ==
  IF l = o THEN Begin("assignCopy", l, o, Null, <<>>) /\ UNCHANGED list
  ELSE /\ Room(list[o].size)
       /\ NewTemp(list[l].allocator)
       /\ Begin("assignCopy", l, o, Null,
                <<Fill(Temp, "copy", o), Do2("swap", l, Temp), Do("clear", Temp)>>)

\* Mistake: nodes change hands whatever allocators the two lists have.
AssignMoveStealing(l, o) ==
  /\ l # o
  /\ Begin("assignMove", l, o, Null, <<Do("clear", l), Do2("steal", l, o)>>)
  /\ UNCHANGED list

AssignMove(l, o) ==
  IF l = o THEN Begin("assignMove", l, o, Null, <<>>) /\ UNCHANGED list
  ELSE IF kind.propagates
  THEN /\ Begin("assignMove", l, o, Null,
                <<Do("clear", l), Do2("takeAllocator", l, o), Do2("steal", l, o)>>)
       /\ UNCHANGED list
  ELSE IF list[l].allocator = list[o].allocator
  THEN /\ Begin("assignMove", l, o, Null, <<Do("clear", l), Do2("steal", l, o)>>)
       /\ UNCHANGED list
  ELSE /\ Room(list[o].size)
       /\ NewTemp(list[l].allocator)
       /\ Begin("assignMove", l, o, Null,
                <<Fill(Temp, "move", o), Do("clear", l), Do2("swap", l, Temp),
                  Do("clear", o), Do("clear", Temp)>>)

\* emplace_front and both push_front.
PushFront(l, v) ==
  /\ Room(1) /\ list[l].size < kind.length
  /\ Begin("push", l, Null, v, <<Do("push", l)>>)
  /\ UNCHANGED list

PopFront(l) ==
  /\ Begin("pop", l, Null, Null, <<Do("pop", l)>>)
  /\ UNCHANGED list

Clear(l) ==
  /\ Begin("clear", l, Null, Null, <<Do("clear", l)>>)
  /\ UNCHANGED list

\* For arenas only: the elements and their nodes stay behind.
ReleaseNodes(l) ==
  /\ kind.arena
  /\ list' = [list EXCEPT ![l].head = Null, ![l].size = 0]
  /\ Begin("release", l, Null, Null, <<>>)

\* The call returns, or throws: the local list is gone, and so is a list that
\* was destroyed or whose constructor threw.
Return ==
  /\ call # NoCall /\ todo = <<>>
  /\ LET born == call.op \in Service!Constructors /\ ~threw
         dead == IF ~born /\ call.op \in Service!Constructors \cup {"destroy"}
                 THEN {call.list} ELSE {}
     IN  /\ alive' = (alive \ dead) \cup (IF born THEN {call.list} ELSE {})
         /\ list' = [x \in Objects |-> IF x \in dead \cup {Temp} THEN NoList ELSE list[x]]
  /\ contents' = [l \in Lists |-> ValuesOf(l)]
  /\ call' = NoCall
  /\ threw' = FALSE
  /\ UNCHANGED <<node, todo, kind>>

\* reset or release of a pool, which the program may do when none of its
\* lists that use the pool holds a node.
ResetArena(a) ==
  /\ kind.arena /\ call = NoCall
  /\ \A l \in alive : list[l].allocator = a => list[l].head = Null
  /\ node' = [n \in Nodes |-> IF node[n].madeBy = a THEN NoNode ELSE node[n]]
  /\ UNCHANGED <<alive, list, todo, threw, call, contents, kind>>

Step ==
  PushNode \/ FillNode \/ FillDone \/ PopNode \/ ClearNode \/ ClearDone
    \/ Steal \/ TakeAllocator \/ SwapNodes

Next ==
  \/ \E l \in Lists, a \in Allocators : Construct(l, a)
  \/ \E l \in Lists, o \in alive :
       ConstructMove(l, o) \/ \E a \in Allocators : ConstructCopy(l, o, a)
  \/ \E l, o \in alive : AssignCopy(l, o) \/ AssignMove(l, o)
  \/ \E l \in alive :
       \/ Destroy(l) \/ PopFront(l) \/ Clear(l) \/ ReleaseNodes(l)
       \/ \E v \in Values : PushFront(l, v)
  \/ Step \/ Return
  \/ \E a \in Allocators : ResetArena(a)

Spec == Init /\ [][Next]_vars

-----------------------------------------------------------------------------
(* Properties.                                                             *)

\* No list has a negative size, nothing lives outside its lifetime.
TypeOK ==
  /\ alive \subseteq Lists
  /\ list \in [Objects -> [head : Nodes \cup {Null}, size : Nat,
                           allocator : Allocators \cup {Null}]]
  /\ node \in [Nodes -> [next : Nodes \cup {Null}, value : Values \cup {Moved, Null},
                         madeBy : Allocators \cup {Null}]]
  /\ threw \in BOOLEAN
  /\ call = NoCall => todo = <<>> /\ \A x \in Objects \ alive : list[x] = NoList

\* Every node a list can reach is allocated, holds an element, and came from
\* the allocator the list will give it back to: move assignment between lists
\* of different allocators, or a pool reset, never leaves a list with a node
\* that is not its allocator's, between the steps of a call included.
NodesOfOwnAllocator ==
  \A x \in Objects : \A n \in ChainNodes(x) :
    /\ node[n].value # Null
    /\ node[n].madeBy = list[x].allocator

\* No node is on two lists, or twice on one, so none is freed twice; and
\* between calls size() is what a traversal counts.
ChainsDisjoint ==
  /\ \A x, y \in Objects : x # y => ChainNodes(x) \cap ChainNodes(y) = {}
  /\ \A x \in Objects : Cardinality(ChainNodes(x)) = Len(Chain(x))
  /\ call = NoCall => \A l \in alive : list[l].size = Len(Chain(l))

\* Nothing leaks, also when an element's constructor throws in the middle of
\* a copy: whatever is allocated is on some list.
NoNodeLost ==
  ~kind.arena => UsedNodes = UNION {ChainNodes(x) : x \in Objects}

\* Each call has the effect on the sequences of values its name says, or
\* throws and has none.
ImplementsListService == Service!Spec
=============================================================================

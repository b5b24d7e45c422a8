----------------------------- MODULE OwnedString -----------------------------
(***************************************************************************)
(* doost::String: a smart pointer that shares a heap block between owners. *)
(* There is no count.  The owners of a block form a doubly linked list     *)
(* through the String objects themselves (previous_, next_), the block     *)
(* points at the first of them, and the low bit of each owner's tagged     *)
(* block pointer says whether the list has one element.                    *)
(*                                                                         *)
(* The library is single threaded (README.md:129), so each public          *)
(* operation is one action; its body is built from the private operations  *)
(* of the class, which here are functions from the pointer graph to the    *)
(* next pointer graph.  A text is abstracted to the identity of its block. *)
(***************************************************************************)

CONSTANTS
  Handles,      \* addresses where a program may keep a String object
  Replacement,  \* the local variable of operator=(string_view)
  Blocks,       \* addresses operator new[] may return; none left: it throws
  Null          \* nullptr

Objects == Handles \cup {Replacement}

ASSUME StringAssumption ==
  /\ Replacement \notin Handles
  /\ Null \notin Objects \cup Blocks

VARIABLES
  alive,   \* the handles that are constructed and not yet destroyed
  graph    \* fields of every String object and of every block (Graph below)

vars == <<alive, graph>>

\* unique is the tag bit; first and heap are the blocks: Block::first, and
\* which addresses are allocated.
Graph ==
  [block    : [Objects -> Blocks \cup {Null}],
   unique   : [Objects -> BOOLEAN],
   previous : [Objects -> Objects \cup {Null}],
   next     : [Objects -> Objects \cup {Null}],
   first    : [Blocks -> Objects \cup {Null}],
   heap     : SUBSET Blocks]

\* "if (p != nullptr) p->field = v": a store through Null is no store, since
\* Null is in no DOMAIN.
Store(field, p, v) == [x \in DOMAIN field |-> IF x = p THEN v ELSE field[x]]

-----------------------------------------------------------------------------
(* The private operations of the class.  An operator whose comment starts  *)
(* with "Mistake:" is a plausible slip in the operation that follows it.   *)

MakeBlock(g, b) == [g EXCEPT !.heap = @ \cup {b}, !.first[b] = Null]

\* Mistake: the block still points at the owner that was replaced.
ReplaceOwnerNotFirst(g, block, previous, next, replacement) ==
  [g EXCEPT !.next     = Store(@, previous, replacement),
            !.previous = Store(@, next, replacement)]

\* With block = Null the code returns at once; then previous and next are
\* Null too, and none of the three stores does anything.
ReplaceOwner(g, block, previous, next, replacement) ==
  [g EXCEPT !.next     = Store(@, previous, replacement),
            !.first    = IF previous = Null THEN Store(@, block, replacement) ELSE @,
            !.previous = Store(@, next, replacement)]

\* Mistake: the old first owner keeps its unique bit.
AttachKeepingBit(g, h, b) ==
  LET oldFirst == IF b = Null THEN Null ELSE g.first[b]
  IN  [g EXCEPT !.block[h]  = b,
                !.next[h]   = oldFirst,
                !.previous  = [Store(@, oldFirst, h) EXCEPT ![h] = Null],
                !.unique[h] = b # Null /\ oldFirst = Null,
                !.first     = Store(@, b, h)]

Attach(g, h, b) ==
  LET oldFirst == IF b = Null THEN Null ELSE g.first[b]
  IN  [g EXCEPT !.block[h]  = b,
                !.next[h]   = oldFirst,
                !.previous  = [Store(@, oldFirst, h) EXCEPT ![h] = Null],
                !.unique    = [Store(@, oldFirst, FALSE)
                                 EXCEPT ![h] = b # Null /\ oldFirst = Null],
                !.first     = Store(@, b, h)]

\* Mistake: the first owner frees the block although others follow it.
DetachFreeingEarly(g, h) ==
  LET b        == g.block[h]
      next     == [Store(g.next, g.previous[h], g.next[h]) EXCEPT ![h] = Null]
      previous == [Store(g.previous, g.next[h], g.previous[h]) EXCEPT ![h] = Null]
      first    == IF g.previous[h] = Null THEN g.next[h] ELSE g.first[b]
      lastOne  == IF first # Null /\ next[first] = Null THEN first ELSE Null
  IN  IF b = Null THEN g
      ELSE [block    |-> [g.block EXCEPT ![h] = Null],
            unique   |-> Store([g.unique EXCEPT ![h] = FALSE], lastOne, TRUE),
            previous |-> previous,
            next     |-> next,
            first    |-> [g.first EXCEPT ![b] = first],
            heap     |-> IF g.previous[h] = Null THEN g.heap \ {b} ELSE g.heap]

\* The list once h has left it; the block's new first owner decides whether
\* the block is freed and whether the remaining owner becomes unique.
Detach(g, h) ==
  LET b        == g.block[h]
      next     == [Store(g.next, g.previous[h], g.next[h]) EXCEPT ![h] = Null]
      previous == [Store(g.previous, g.next[h], g.previous[h]) EXCEPT ![h] = Null]
      first    == IF g.previous[h] = Null THEN g.next[h] ELSE g.first[b]
      lastOne  == IF first # Null /\ next[first] = Null THEN first ELSE Null
  IN  IF b = Null THEN g
      ELSE [block    |-> [g.block EXCEPT ![h] = Null],
            unique   |-> Store([g.unique EXCEPT ![h] = FALSE], lastOne, TRUE),
            previous |-> previous,
            next     |-> next,
            first    |-> [g.first EXCEPT ![b] = first],
            heap     |-> IF first = Null THEN g.heap \ {b} ELSE g.heap]

\* field of h := field of o, field of o := empty.
Take(field, h, o, empty) == [field EXCEPT ![h] = field[o], ![o] = empty]

MoveFrom(g, h, o) ==
  ReplaceOwner([g EXCEPT !.block    = Take(@, h, o, Null),
                         !.unique   = Take(@, h, o, FALSE),
                         !.previous = Take(@, h, o, Null),
                         !.next     = Take(@, h, o, Null)],
               g.block[o], g.previous[o], g.next[o], h)

\* field of h and field of o as they were before the swap, exchanged.
Cross(field, h, o, old) == [field EXCEPT ![h] = old[o], ![o] = old[h]]

Swap(g, h, o) ==
  LET relinked == ReplaceOwner(
                    ReplaceOwner(g, g.block[h], g.previous[h], g.next[h], o),
                    g.block[o], g.previous[o], g.next[o], h)
  IN  IF h = o \/ g.block[h] = g.block[o] THEN g
      ELSE [relinked EXCEPT !.block    = Cross(@, h, o, g.block),
                            !.unique   = Cross(@, h, o, g.unique),
                            !.previous = Cross(@, h, o, g.previous),
                            !.next     = Cross(@, h, o, g.next)]

-----------------------------------------------------------------------------
(* The public operations.  A storage where no String lives holds the       *)
(* values of a default-constructed one.                                    *)

Init ==
  /\ alive = {}
  /\ graph = [block    |-> [x \in Objects |-> Null],
              unique   |-> [x \in Objects |-> FALSE],
              previous |-> [x \in Objects |-> Null],
              next     |-> [x \in Objects |-> Null],
              first    |-> [b \in Blocks |-> Null],
              heap     |-> {}]

FreeBlocks == Blocks \ graph.heap

Construct(h) == h \notin alive /\ alive' = alive \cup {h}

\* String() and String(nullptr).
ConstructNull(h) ==
  /\ Construct(h)
  /\ UNCHANGED graph

\* String(const char*), String(string_view), String(const std::string&).
ConstructValue(h) ==
  /\ Construct(h)
  /\ \E b \in FreeBlocks : graph' = Attach(MakeBlock(graph, b), h, b)

ConstructCopy(h, o) ==
  /\ Construct(h)
  /\ graph' = Attach(graph, h, graph.block[o])

ConstructMove(h, o) ==
  /\ Construct(h)
  /\ graph' = MoveFrom(graph, h, o)

Destroy(h) ==
  /\ alive' = alive \ {h}
  /\ graph' = Detach(graph, h)

\* reset() and operator=(nullptr).
Reset(h) ==
  /\ graph' = Detach(graph, h)
  /\ UNCHANGED alive

\* Mistake: the replacement is not destroyed at the end of the scope.
AssignValueKeepingOld(h) ==
  /\ \E b \in FreeBlocks :
       graph' = Swap(Attach(MakeBlock(graph, b), Replacement, b), h, Replacement)
  /\ UNCHANGED alive

\* operator=(const char*), (string_view), (const std::string&): construct a
\* replacement, swap with it, and destroy it at the end of the scope.
AssignValue(h) ==
  /\ \E b \in FreeBlocks :
       LET built == Attach(MakeBlock(graph, b), Replacement, b)
       IN  graph' = Detach(Swap(built, h, Replacement), Replacement)
  /\ UNCHANGED alive

\* Mistake: h does not leave the list of its old block.
AssignCopyStaying(h, o) ==
  /\ graph' = IF h = o \/ graph.block[h] = graph.block[o]
              THEN graph
              ELSE Attach(graph, h, graph.block[o])
  /\ UNCHANGED alive

AssignCopy(h, o) ==
  /\ graph' = IF h = o \/ graph.block[h] = graph.block[o]
              THEN graph
              ELSE Attach(Detach(graph, h), h, graph.block[o])
  /\ UNCHANGED alive

AssignMove(h, o) ==
  /\ graph' = IF h = o THEN graph ELSE MoveFrom(Detach(graph, h), h, o)
  /\ UNCHANGED alive

SwapWith(h, o) ==
  /\ graph' = Swap(graph, h, o)
  /\ UNCHANGED alive

Next ==
  \/ \E h \in Handles : ConstructNull(h) \/ ConstructValue(h)
  \/ \E h \in Handles, o \in alive : ConstructCopy(h, o) \/ ConstructMove(h, o)
  \/ \E h \in alive : Destroy(h) \/ Reset(h) \/ AssignValue(h)
  \/ \E h, o \in alive : AssignCopy(h, o) \/ AssignMove(h, o) \/ SwapWith(h, o)

Spec == Init /\ [][Next]_vars

-----------------------------------------------------------------------------
(* Properties.                                                             *)

\* A String that does not live owns nothing, the replacement included.
TypeOK ==
  /\ alive \in SUBSET Handles
  /\ graph \in Graph
  /\ \A x \in Objects \ alive : graph.block[x] = Null

Owners(b) == {x \in Objects : graph.block[x] = b}

\* The tag bit tells the truth: unique() is true of exactly the handles that
\* share their block with no other, after any sequence of copies, moves,
\* swaps and releases (attach, detach and move_from each maintain it by
\* looking at one or two neighbours only).
UniqueBitExact ==
  \A h \in Objects :
    graph.unique[h] <=> (graph.block[h] # Null /\ Owners(graph.block[h]) = {h})

\* A block is freed when, and only when, its last owner leaves: nothing
\* leaks, and no handle is left with a freed block.
ReleasedWithLastOwner ==
  graph.heap = {graph.block[h] : h \in alive} \ {Null}

\* The links of each block's owners are mutually inverse, start at
\* Block::first, stay within the block and are Null outside it.
LinksAgree(g) ==
  /\ \A x \in Objects :
       /\ g.block[x] = Null => g.previous[x] = Null /\ g.next[x] = Null
       /\ g.next[x] # Null => /\ g.previous[g.next[x]] = x
                              /\ g.block[g.next[x]] = g.block[x]
       /\ g.previous[x] # Null => /\ g.next[g.previous[x]] = x
                                  /\ g.block[g.previous[x]] = g.block[x]
       /\ g.block[x] # Null /\ g.previous[x] = Null => g.first[g.block[x]] = x
  /\ \A b \in Blocks :
       g.first[b] # Null => /\ g.block[g.first[b]] = b
                            /\ g.previous[g.first[b]] = Null

\* Shared states what a program may observe of this graph: every operation
\* acts on ownership alone, and what unique() and the heap show after it is
\* what the new ownership says.
Shared == INSTANCE SharedBlocks
            WITH owns   <- [h \in Handles |-> graph.block[h]],
                 heap   <- graph.heap,
                 unique <- [h \in Handles |-> graph.unique[h]]

\* The owner lists implement shared ownership.
ImplementsSharedBlocks == Shared!Spec

\* Every owner is on its block's list: no owner list has a cycle or a part
\* cut off from Block::first, so releasing through first reaches everyone.
OwnersOnOneList ==
  /\ LinksAgree(graph)
  /\ \A b \in Blocks : Owners(b) # {} => graph.first[b] # Null
  /\ \A S \in (SUBSET Objects) \ {{}} : \E x \in S : graph.previous[x] \notin S
=============================================================================

-------------------------- MODULE OwnedStringProofs --------------------------
(***************************************************************************)
(* Proofs about OwnedString, for every finite or infinite set of handles   *)
(* and blocks.                                                             *)
(*                                                                         *)
(* The argument: a graph is good if its owner lists are linked both ways,  *)
(* have no cycle and reach Block::first, if the tag bits say who is a sole *)
(* owner, and if the heap is the set of the owned blocks.  attach and      *)
(* detach keep a graph good; move_from and swap rename two objects, which  *)
(* cannot make a good graph bad.  The public operations are compositions   *)
(* of these four, so each step keeps the graph good and does to ownership  *)
(* just what SharedBlocks says.                                            *)
(***************************************************************************)
EXTENDS OwnedString, TLAPS

\* The owners of block b in graph g.
OwnersIn(g, b) == {x \in Objects : g.block[x] = b}

\* Following previous leaves every set of owners: no cycles.
WellOrdered(g) ==
  \A S \in (SUBSET Objects) \ {{}} : \E x \in S : g.previous[x] \notin S

\* Every owner is on its block's list.
Linked(g) == g \in Graph /\ LinksAgree(g) /\ WellOrdered(g)

\* The tag bits say who is a sole owner.
BitsExact(g) ==
  \A x \in Objects :
    g.unique[x] <=> (g.block[x] # Null /\ OwnersIn(g, g.block[x]) = {x})

\* The heap is the set of the owned blocks.
HeapExact(g) == g.heap = {g.block[x] : x \in Objects} \ {Null}

Good(g) == Linked(g) /\ BitsExact(g) /\ HeapExact(g)

\* The inductive invariant.
Inv ==
  /\ alive \in SUBSET Handles
  /\ \A x \in Objects \ alive : graph.block[x] = Null
  /\ Good(graph)

-----------------------------------------------------------------------------
(* Lists.                                                                  *)

\* nullptr is no object and no block; no handle is the local replacement.
LEMMA Facts == Null \notin Objects /\ Null \notin Blocks /\ Replacement \notin Handles
  BY StringAssumption DEF Objects

\* A block that has owners has a first one.
LEMMA HasFirst ==
  ASSUME NEW g, Linked(g), NEW x \in Objects, g.block[x] # Null
  PROVE  g.first[g.block[x]] \in Objects
<1> DEFINE S == OwnersIn(g, g.block[x])
<1>1. x \in S /\ S \in SUBSET Objects
  BY DEF OwnersIn
<1>2. PICK y \in S : g.previous[y] \notin S
  BY <1>1 DEF Linked, WellOrdered
<1>3. y \in Objects /\ g.block[y] = g.block[x] /\ g.block[x] \in Blocks
  BY <1>2 DEF OwnersIn, Linked, Graph
<1>4. g.previous[y] = Null
  BY <1>2, <1>3 DEF OwnersIn, Linked, LinksAgree, Graph
<1> QED
  BY <1>3, <1>4 DEF Linked, LinksAgree

\* The first owner is alone exactly if nobody is next to it.
LEMMA AloneIffNoNext ==
  ASSUME NEW g, Linked(g), NEW b \in Blocks, g.first[b] # Null
  PROVE  /\ g.first[b] \in OwnersIn(g, b)
         /\ g.next[g.first[b]] = Null <=> OwnersIn(g, b) = {g.first[b]}
<1> DEFINE f == g.first[b]
           S == OwnersIn(g, b) \ {f}
<1>1. f \in Objects /\ g.block[f] = b /\ b # Null
  BY Facts DEF Linked, LinksAgree, Graph
<1>2. ASSUME g.next[f] # Null
      PROVE  OwnersIn(g, b) # {f}
  <2>1. g.next[f] \in Objects /\ g.block[g.next[f]] = b /\ g.previous[g.next[f]] = f
    BY <1>1, <1>2 DEF Linked, LinksAgree, Graph
  <2>2. g.previous[f] = Null
    BY <1>1 DEF Linked, LinksAgree
  <2>3. g.next[f] # f
    BY <1>1, <2>1, <2>2, Facts
  <2> QED
    BY <2>1, <2>3 DEF OwnersIn
<1>3. ASSUME g.next[f] = Null
      PROVE  OwnersIn(g, b) = {f}
  <2>1. SUFFICES ASSUME S # {} PROVE FALSE
    BY <1>1 DEF OwnersIn
  <2>2. PICK y \in S : g.previous[y] \notin S
    BY <2>1 DEF Linked, WellOrdered, OwnersIn
  <2>3. y \in Objects /\ g.block[y] = b /\ y # f
    BY <2>2 DEF OwnersIn
  <2>4. CASE g.previous[y] = Null
    BY <1>1, <2>3, <2>4 DEF Linked, LinksAgree
  <2>5. CASE g.previous[y] # Null
    <3>1. /\ g.previous[y] \in Objects /\ g.block[g.previous[y]] = b
          /\ g.next[g.previous[y]] = y
      BY <2>3, <2>5 DEF Linked, LinksAgree, Graph
    <3>2. g.previous[y] = f
      BY <2>2, <3>1 DEF OwnersIn
    <3> QED
      BY <1>3, <2>3, <3>1, <3>2, Facts
  <2> QED
    BY <2>4, <2>5
<1> QED
  BY <1>1, <1>2, <1>3 DEF OwnersIn

-----------------------------------------------------------------------------
(* attach.                                                                 *)

\* attach, field by field: the new owner goes first and points at the old
\* first owner, which stops being unique.
LEMMA AttachFields ==
  ASSUME NEW g \in Graph, NEW h \in Objects, NEW b \in Blocks \cup {Null},
         NEW old, old = IF b = Null THEN Null ELSE g.first[b],
         NEW a, a = Attach(g, h, b)
  PROVE  /\ a \in Graph /\ a.heap = g.heap
         /\ \A x \in Objects :
              /\ a.block[x] = IF x = h THEN b ELSE g.block[x]
              /\ a.next[x] = IF x = h THEN old ELSE g.next[x]
              /\ a.previous[x] = IF x = h THEN Null
                                 ELSE IF x = old THEN h ELSE g.previous[x]
              /\ a.unique[x] <=> IF x = h THEN b # Null /\ old = Null
                                 ELSE x # old /\ g.unique[x]
         /\ \A c \in Blocks : a.first[c] = IF c = b THEN h ELSE g.first[c]
  BY Facts DEF Attach, Store, Graph

\* d is g after h, an owner, has left its list, field by field.
LeftBy(g, h, d) ==
  /\ \A x \in Objects :
       /\ d.block[x] = IF x = h THEN Null ELSE g.block[x]
       /\ d.next[x] = IF x = h THEN Null
                      ELSE IF x = g.previous[h] THEN g.next[h] ELSE g.next[x]
       /\ d.previous[x] = IF x = h THEN Null
                          ELSE IF x = g.next[h] THEN g.previous[h] ELSE g.previous[x]
       /\ d.unique[x] <=>
            \/ d.first[g.block[h]] = x /\ d.next[x] = Null
            \/ x # h /\ g.unique[x]
  /\ \A c \in Blocks :
       d.first[c] = IF c = g.block[h] /\ g.previous[h] = Null THEN g.next[h]
                    ELSE g.first[c]
  /\ d.heap = IF d.first[g.block[h]] = Null THEN g.heap \ {g.block[h]} ELSE g.heap

\* detach of an owner, field by field.
LEMMA DetachFields ==
  ASSUME NEW g \in Graph, NEW h \in Objects, g.block[h] # Null
  PROVE  Detach(g, h) \in Graph /\ LeftBy(g, h, Detach(g, h))
<1> DEFINE d == Detach(g, h)
<1>1. g.block[h] \in Blocks
  BY DEF Graph
<1>2. d = Detach(g, h)
  OBVIOUS
<1> HIDE DEF d
<1> QED
  BY <1>1, <1>2, Facts DEF Detach, Store, Graph, LeftBy

\* Putting an object that owns nothing in front of a list keeps every list
\* linked and free of cycles.
LEMMA AttachLinked ==
  ASSUME NEW g, Linked(g), NEW h \in Objects, g.block[h] = Null,
         NEW b \in Blocks \cup {Null}
  PROVE  Linked(Attach(g, h, b))
<1> DEFINE old == IF b = Null THEN Null ELSE g.first[b]
           a == Attach(g, h, b)
<1>1. /\ a \in Graph
      /\ \A x \in Objects :
           /\ a.block[x] = IF x = h THEN b ELSE g.block[x]
           /\ a.next[x] = IF x = h THEN old ELSE g.next[x]
           /\ a.previous[x] = IF x = h THEN Null
                              ELSE IF x = old THEN h ELSE g.previous[x]
      /\ \A c \in Blocks : a.first[c] = IF c = b THEN h ELSE g.first[c]
  BY AttachFields DEF Linked
<1>2. /\ g \in Graph /\ h # Null /\ g.next[h] = Null /\ g.previous[h] = Null
      /\ old # Null => /\ old \in Objects /\ old # h /\ g.block[old] = b
                       /\ g.previous[old] = Null
  BY Facts DEF Linked, LinksAgree, Graph
<1>3. \A x \in Objects : /\ g.block[x] = b /\ b # Null => old # Null
                         /\ g.block[x] = b /\ g.previous[x] = Null /\ b # Null => x = old
  BY Facts, HasFirst DEF Linked, LinksAgree
<1> HIDE DEF a, old
<1>4. LinksAgree(a)
  <2>1. ASSUME NEW x \in Objects
        PROVE  /\ a.block[x] = Null => a.previous[x] = Null /\ a.next[x] = Null
               /\ a.next[x] # Null => /\ a.previous[a.next[x]] = x
                                      /\ a.block[a.next[x]] = a.block[x]
               /\ a.previous[x] # Null => /\ a.next[a.previous[x]] = x
                                          /\ a.block[a.previous[x]] = a.block[x]
               /\ a.block[x] # Null /\ a.previous[x] = Null => a.first[a.block[x]] = x
    <3>1. a.block[x] = Null => a.previous[x] = Null /\ a.next[x] = Null
      <4>1. CASE x = h
        <5>1. b = Null => old = Null
          BY DEF old
        <5> QED
          BY <1>1, <4>1, <5>1
      <4>2. CASE x = old /\ x # h
        <5>1. old # Null => b # Null
          BY DEF old
        <5> QED
          BY <1>1, <1>2, <4>2, <5>1, Facts
      <4>3. CASE x # h /\ x # old
        BY <1>1, <4>3 DEF Linked, LinksAgree
      <4> QED
        BY <4>1, <4>2, <4>3
    <3>2. a.next[x] # Null => /\ a.previous[a.next[x]] = x
                              /\ a.block[a.next[x]] = a.block[x]
      BY <1>1, <1>2, <1>3, Facts DEF Linked, LinksAgree, Graph
    <3>3. a.previous[x] # Null => /\ a.next[a.previous[x]] = x
                                  /\ a.block[a.previous[x]] = a.block[x]
      BY <1>1, <1>2, <1>3, Facts DEF Linked, LinksAgree, Graph
    <3>4. a.block[x] # Null /\ a.previous[x] = Null => a.first[a.block[x]] = x
      BY <1>1, <1>2, <1>3, Facts DEF Linked, LinksAgree, Graph
    <3> QED
      BY <3>1, <3>2, <3>3, <3>4
  <2>2. ASSUME NEW c \in Blocks, a.first[c] # Null
        PROVE  a.block[a.first[c]] = c /\ a.previous[a.first[c]] = Null
    BY <1>1, <1>2, <1>3, <2>2, Facts DEF Linked, LinksAgree, Graph
  <2> QED
    BY <2>1, <2>2 DEF LinksAgree
<1>5. WellOrdered(a)
  <2> SUFFICES ASSUME NEW S \in (SUBSET Objects) \ {{}}
               PROVE  \E x \in S : a.previous[x] \notin S
    BY DEF WellOrdered
  <2>1. PICK x \in S : g.previous[x] \notin S
    BY DEF Linked, WellOrdered
  <2> QED
    BY <1>1, <2>1, Facts
<1> QED
  BY <1>1, <1>4, <1>5 DEF Linked, a

\* Clearing the bit of the old first owner, and setting the new owner's if
\* there was none, is all the bits need.
LEMMA AttachBits ==
  ASSUME NEW g, Linked(g), BitsExact(g), NEW h \in Objects, g.block[h] = Null,
         NEW b \in Blocks \cup {Null}
  PROVE  BitsExact(Attach(g, h, b))
<1> DEFINE old == IF b = Null THEN Null ELSE g.first[b]
           a == Attach(g, h, b)
<1>1. \A x \in Objects :
           /\ a.block[x] = IF x = h THEN b ELSE g.block[x]
           /\ a.unique[x] <=> IF x = h THEN b # Null /\ old = Null
                              ELSE x # old /\ g.unique[x]
  BY AttachFields DEF Linked
<1>2. /\ old # Null => old \in Objects /\ g.block[old] = b
      /\ old = Null => \A x \in Objects : b = Null \/ g.block[x] # b
  BY Facts, HasFirst DEF Linked, LinksAgree, Graph
<1> HIDE DEF old, a
<1>3. ASSUME NEW x \in Objects
      PROVE  a.unique[x] <=> (a.block[x] # Null /\ OwnersIn(a, a.block[x]) = {x})
  <2>1. CASE x = h
    <3>1. \A y \in OwnersIn(a, b) : b # Null /\ y # h => g.block[y] = b
      BY <1>1 DEF OwnersIn
    <3>2. b # Null => (OwnersIn(a, b) = {h} <=> \A y \in Objects : g.block[y] # b)
      BY <1>1 DEF OwnersIn
    <3>3. old = Null <=> \A y \in Objects : b = Null \/ g.block[y] # b
      BY <1>2 DEF old
    <3> QED
      BY <1>1, <2>1, <3>2, <3>3
  <2>2. CASE x # h /\ g.block[x] # b
    <3>1. x # old
      BY <1>2, <2>2, Facts
    <3>2. g.block[x] # Null => OwnersIn(a, g.block[x]) = OwnersIn(g, g.block[x])
      BY <1>1, <2>2 DEF OwnersIn
    <3> QED
      BY <1>1, <2>2, <3>1, <3>2 DEF BitsExact
  <2>3. CASE x # h /\ g.block[x] = b
    <3>1. a.block[x] = b /\ (b # Null => OwnersIn(a, b) # {x})
      BY <1>1, <2>3 DEF OwnersIn
    <3>2. b # Null /\ x # old => OwnersIn(g, b) # {x}
      BY <1>2, <2>3 DEF OwnersIn
    <3> QED
      BY <1>1, <2>3, <3>1, <3>2 DEF BitsExact
  <2> QED
    BY <2>1, <2>2, <2>3
<1> QED
  BY <1>3 DEF BitsExact, a

-----------------------------------------------------------------------------
(* detach.                                                                 *)

\* Joining the two neighbours of the object that leaves keeps every list
\* linked and free of cycles.
LEMMA DetachLinked ==
  ASSUME NEW g, Linked(g), NEW h \in Objects, g.block[h] # Null
  PROVE  Linked(Detach(g, h))
<1> DEFINE p == g.previous[h]
           n == g.next[h]
           b == g.block[h]
           d == Detach(g, h)
<1>0. g \in Graph
  BY DEF Linked
<1>1. /\ d \in Graph
      /\ \A x \in Objects :
           /\ d.block[x] = IF x = h THEN Null ELSE g.block[x]
           /\ d.next[x] = IF x = h THEN Null ELSE IF x = p THEN n ELSE g.next[x]
           /\ d.previous[x] = IF x = h THEN Null ELSE IF x = n THEN p ELSE g.previous[x]
      /\ \A c \in Blocks : d.first[c] = IF c = b /\ p = Null THEN n ELSE g.first[c]
  <2>1. d \in Graph /\ LeftBy(g, h, d)
    BY <1>0, DetachFields
  <2> HIDE DEF d
  <2> QED
    BY <2>1 DEF LeftBy
<1>2. p # h /\ n # h
  <2>1. \E x \in {h} : g.previous[x] \notin {h}
    BY DEF Linked, WellOrdered
  <2> QED
    BY <2>1, Facts DEF Linked, LinksAgree
<1>3. /\ g \in Graph /\ h # Null /\ b \in Blocks
      /\ n # Null => n \in Objects /\ g.block[n] = b /\ g.previous[n] = h
      /\ p # Null => p \in Objects /\ g.block[p] = b /\ g.next[p] = h
      /\ p = Null => g.first[b] = h
  BY Facts DEF Linked, LinksAgree, Graph
<1>4. \A x \in Objects : /\ g.next[x] = h => x = p
                         /\ g.previous[x] = h => x = n
                         /\ g.next[x] = n /\ n # Null => x = h
                         /\ g.previous[x] = p /\ p # Null => x = h
  BY Facts DEF Linked, LinksAgree
<1> HIDE DEF p, n, b, d
<1>5. LinksAgree(d)
  <2>1. ASSUME NEW x \in Objects
        PROVE  /\ d.block[x] = Null => d.previous[x] = Null /\ d.next[x] = Null
               /\ d.next[x] # Null => /\ d.previous[d.next[x]] = x
                                      /\ d.block[d.next[x]] = d.block[x]
               /\ d.previous[x] # Null => /\ d.next[d.previous[x]] = x
                                          /\ d.block[d.previous[x]] = d.block[x]
    <3>1. d.block[x] = Null => d.previous[x] = Null /\ d.next[x] = Null
      BY <1>1, <1>2, <1>3, <1>4, Facts DEF Linked, LinksAgree, Graph
    <3>2. d.next[x] # Null => /\ d.previous[d.next[x]] = x
                              /\ d.block[d.next[x]] = d.block[x]
      BY <1>1, <1>2, <1>3, <1>4, Facts DEF Linked, LinksAgree, Graph
    <3>3. d.previous[x] # Null => /\ d.next[d.previous[x]] = x
                                  /\ d.block[d.previous[x]] = d.block[x]
      BY <1>1, <1>2, <1>3, <1>4, Facts DEF Linked, LinksAgree, Graph
    <3> QED
      BY <3>1, <3>2, <3>3
  <2>2. ASSUME NEW x \in Objects, d.block[x] # Null, d.previous[x] = Null
        PROVE  d.first[d.block[x]] = x
    BY <1>1, <1>2, <1>3, <1>4, <2>2, Facts DEF Linked, LinksAgree, Graph
  <2>3. ASSUME NEW c \in Blocks, d.first[c] # Null
        PROVE  d.block[d.first[c]] = c /\ d.previous[d.first[c]] = Null
    BY <1>1, <1>2, <1>3, <1>4, <2>3, Facts DEF Linked, LinksAgree, Graph
  <2> QED
    BY <2>1, <2>2, <2>3 DEF LinksAgree
<1>6. WellOrdered(d)
  <2> SUFFICES ASSUME NEW S \in (SUBSET Objects) \ {{}}
               PROVE  \E x \in S : d.previous[x] \notin S
    BY DEF WellOrdered
  <2>1. CASE h \in S
    BY <1>1, <2>1, Facts
  <2>2. CASE h \notin S
    <3>1. PICK x \in S \cup {h} : g.previous[x] \notin S \cup {h}
      BY DEF Linked, WellOrdered
    <3>2. PICK y \in S : g.previous[y] \notin S
      BY DEF Linked, WellOrdered
    <3>3. CASE x # h
      BY <1>1, <1>3, <2>2, <3>1, <3>3, Facts
    <3>4. CASE x = h
      <4>1. p \notin S
        BY <3>1, <3>4 DEF p
      <4> QED
        BY <1>1, <2>2, <3>2, <4>1
    <3> QED
      BY <3>3, <3>4
  <2> QED
    BY <2>1, <2>2
<1> QED
  BY <1>1, <1>5, <1>6 DEF Linked, d

\* Looking at the new first owner is enough to find the owner that is alone
\* after a detach.
LEMMA DetachBits ==
  ASSUME NEW g, Linked(g), BitsExact(g), NEW h \in Objects, g.block[h] # Null
  PROVE  BitsExact(Detach(g, h))
<1> DEFINE b == g.block[h]
           d == Detach(g, h)
<1>0. g \in Graph
  BY DEF Linked
<1>1. \A x \in Objects :
        /\ d.block[x] = IF x = h THEN Null ELSE g.block[x]
        /\ d.unique[x] <=> \/ d.first[b] = x /\ d.next[x] = Null
                           \/ x # h /\ g.unique[x]
  <2>1. d \in Graph /\ LeftBy(g, h, d)
    BY <1>0, DetachFields
  <2> HIDE DEF d
  <2> QED
    BY <2>1 DEF LeftBy
<1>2. Linked(d) /\ b \in Blocks /\ b # Null
  BY DetachLinked, Facts DEF Linked, Graph
<1> HIDE DEF d
<1>3. ASSUME NEW x \in Objects
      PROVE  (d.first[b] = x /\ d.next[x] = Null) <=> OwnersIn(d, b) = {x}
  <2>1. CASE d.first[b] = x
    BY <1>2, <2>1, AloneIffNoNext, Facts
  <2>2. CASE d.first[b] # x
    <3> SUFFICES ASSUME OwnersIn(d, b) = {x} PROVE FALSE
      BY <2>2
    <3>1. d.block[x] = b
      BY DEF OwnersIn
    <3>2. d.first[b] \in Objects
      BY <1>2, <3>1, HasFirst
    <3>3. d.first[b] \in OwnersIn(d, b)
      BY <1>2, <3>2, AloneIffNoNext, Facts
    <3> QED
      BY <2>2, <3>3
  <2> QED
    BY <2>1, <2>2
<1> HIDE DEF b
<1>4. ASSUME NEW x \in Objects
      PROVE  d.unique[x] <=> (d.block[x] # Null /\ OwnersIn(d, d.block[x]) = {x})
  <2>1. CASE x = h
    <3>1. d.block[x] = Null /\ OwnersIn(d, b) # {x}
      BY <1>1, <1>2, <2>1 DEF OwnersIn
    <3> QED
      BY <1>1, <1>3, <2>1, <3>1
  <2>2. CASE x # h /\ g.block[x] = b
    <3>1. ~g.unique[x]
      BY <1>2, <2>2 DEF BitsExact, OwnersIn, b
    <3>2. d.block[x] = b
      BY <1>1, <2>2
    <3> QED
      BY <1>1, <1>2, <1>3, <2>2, <3>1, <3>2
  <2>3. CASE x # h /\ g.block[x] # b
    <3>1. d.block[x] = g.block[x] /\ OwnersIn(d, b) # {x}
      BY <1>1, <2>3 DEF OwnersIn
    <3>2. g.block[x] # Null => OwnersIn(d, g.block[x]) = OwnersIn(g, g.block[x])
      BY <1>1, <2>3 DEF OwnersIn, b
    <3> QED
      BY <1>1, <1>3, <2>3, <3>1, <3>2 DEF BitsExact
  <2> QED
    BY <2>1, <2>2, <2>3
<1> QED
  BY <1>4 DEF BitsExact, d

\* detach keeps the graph good, the heap included, and only h loses its block.
LEMMA DetachGood ==
  ASSUME NEW g, Good(g), NEW h \in Objects
  PROVE  /\ Good(Detach(g, h))
         /\ Detach(g, h).block = [g.block EXCEPT ![h] = Null]
<1> DEFINE b == g.block[h]
           d == Detach(g, h)
<1>1. g \in Graph /\ Linked(g) /\ BitsExact(g) /\ HeapExact(g)
  BY DEF Good, Linked
<1>2. CASE b = Null
  <2>1. d = g
    BY <1>2 DEF Detach
  <2>2. g.block = [g.block EXCEPT ![h] = Null]
    BY <1>1, <1>2 DEF Graph
  <2> QED
    BY <2>1, <2>2
<1>3. CASE b # Null
  <2>1. Linked(d) /\ BitsExact(d)
    BY <1>1, <1>3, DetachLinked, DetachBits
  <2>2. d \in Graph /\ LeftBy(g, h, d) /\ b \in Blocks
    BY <1>1, <1>3, DetachFields DEF Graph
  <2> HIDE DEF d
  <2>3. d.block = [g.block EXCEPT ![h] = Null]
    BY <1>1, <2>2 DEF LeftBy, Graph
  <2>4. d.first[b] = Null <=> \A x \in Objects : d.block[x] # b
    <3>1. ASSUME d.first[b] # Null
          PROVE  d.first[b] \in Objects /\ d.block[d.first[b]] = b
      BY <2>1, <2>2, <3>1 DEF Linked, LinksAgree, Graph
    <3>2. ASSUME NEW x \in Objects, d.block[x] = b
          PROVE  d.first[b] # Null
      <4>1. d.first[d.block[x]] \in Objects
        BY <1>3, <2>1, <3>2, HasFirst
      <4> QED
        BY <3>2, <4>1, Facts
    <3> QED
      BY <3>1, <3>2
  <2>5. HeapExact(d)
    <3>1. d.heap = IF d.first[b] = Null THEN g.heap \ {b} ELSE g.heap
      BY <2>2 DEF LeftBy
    <3>2. \A x \in Objects : d.block[x] = IF x = h THEN Null ELSE g.block[x]
      BY <2>2 DEF LeftBy
    <3> HIDE DEF b
    <3>3. g.block[h] = b
      BY DEF b
    <3>4. ASSUME NEW c PROVE c \in d.heap <=> c # Null /\ \E x \in Objects : d.block[x] = c
      <4>1. c \in g.heap <=> c # Null /\ \E x \in Objects : g.block[x] = c
        BY <1>1 DEF HeapExact
      <4>2. CASE c = b
        BY <1>3, <2>4, <3>1, <3>2, <3>3, <4>1, <4>2
      <4>3. CASE c # b
        BY <2>4, <3>1, <3>2, <3>3, <4>1, <4>3
      <4> QED
        BY <4>2, <4>3
    <3> QED
      BY <3>4 DEF HeapExact
  <2> QED
    BY <2>1, <2>3, <2>5 DEF Good, d
<1> QED
  BY <1>2, <1>3

\* An object that owns nothing may join the owners of what another one owns.
LEMMA AttachGood ==
  ASSUME NEW g, Good(g), NEW h \in Objects, NEW o \in Objects, g.block[h] = Null
  PROVE  /\ Good(Attach(g, h, g.block[o]))
         /\ Attach(g, h, g.block[o]).block = [g.block EXCEPT ![h] = g.block[o]]
<1> DEFINE b == g.block[o]
           a == Attach(g, h, b)
<1>1. /\ g \in Graph /\ Linked(g) /\ BitsExact(g) /\ HeapExact(g)
      /\ b \in Blocks \cup {Null}
  BY DEF Good, Linked, Graph
<1>2. Linked(a) /\ BitsExact(a)
  BY <1>1, AttachLinked, AttachBits
<1>3. /\ a \in Graph /\ a.heap = g.heap
      /\ \A x \in Objects : a.block[x] = IF x = h THEN b ELSE g.block[x]
  BY <1>1, AttachFields
<1> HIDE DEF a
<1>4. a.block = [g.block EXCEPT ![h] = b]
  BY <1>1, <1>3 DEF Graph
<1>5. HeapExact(a)
  <2>1. ASSUME NEW c
        PROVE  c \in {g.block[x] : x \in Objects} \ {Null}
                 <=> c \in {a.block[x] : x \in Objects} \ {Null}
    BY <1>3
  <2> QED
    BY <1>1, <1>3, <2>1 DEF HeapExact
<1> QED
  BY <1>2, <1>4, <1>5 DEF Good, a

\* An object that owns nothing may become the owner of a new block.
LEMMA AttachFreshGood ==
  ASSUME NEW g, Good(g), NEW h \in Objects, g.block[h] = Null,
         NEW b \in Blocks \ g.heap
  PROVE  /\ Good(Attach(MakeBlock(g, b), h, b))
         /\ Attach(MakeBlock(g, b), h, b).block = [g.block EXCEPT ![h] = b]
<1> DEFINE m == MakeBlock(g, b)
           a == Attach(m, h, b)
<1>1. /\ g \in Graph /\ Linked(g) /\ BitsExact(g) /\ HeapExact(g) /\ b # Null
  BY Facts DEF Good, Linked
<1>2. g.first[b] = Null
  <2>1. SUFFICES ASSUME g.first[b] # Null PROVE FALSE
    OBVIOUS
  <2>2. g.first[b] \in Objects /\ g.block[g.first[b]] = b
    BY <1>1, <2>1 DEF Linked, LinksAgree, Graph
  <2> QED
    BY <1>1, <2>2 DEF HeapExact
<1>3. /\ m \in Graph /\ m.block = g.block /\ m.unique = g.unique
      /\ m.previous = g.previous /\ m.next = g.next /\ m.first = g.first
      /\ m.heap = g.heap \cup {b}
  BY <1>1, <1>2 DEF MakeBlock, Graph
<1> HIDE DEF m
<1>4. Linked(m) /\ BitsExact(m)
  BY <1>1, <1>3 DEF Linked, LinksAgree, WellOrdered, BitsExact, OwnersIn
<1>5. Linked(a) /\ BitsExact(a)
  BY <1>3, <1>4, AttachLinked, AttachBits
<1>6. /\ a \in Graph /\ a.heap = m.heap
      /\ \A x \in Objects : a.block[x] = IF x = h THEN b ELSE m.block[x]
  BY <1>3, AttachFields
<1> HIDE DEF a
<1>7. a.block = [g.block EXCEPT ![h] = b]
  BY <1>1, <1>3, <1>6 DEF Graph
<1>8. HeapExact(a)
  <2>1. ASSUME NEW c
        PROVE  c \in ({g.block[x] : x \in Objects} \ {Null}) \cup {b}
                 <=> c \in {a.block[x] : x \in Objects} \ {Null}
    BY <1>1, <1>3, <1>6
  <2> QED
    BY <1>1, <1>3, <1>6, <2>1 DEF HeapExact
<1> QED
  BY <1>5, <1>7, <1>8 DEF Good, a, m

-----------------------------------------------------------------------------
(* move_from and swap both let two objects exchange places in the graph.   *)

\* The permutation that exchanges h and o and leaves everything else, Null
\* included, where it is.
Turn(h, o, x) == IF x = h THEN o ELSE IF x = o THEN h ELSE x

\* e is g with h and o exchanged.
Exchanged(g, h, o, e) ==
  /\ e \in Graph
  /\ \A x \in Objects :
       /\ e.block[x] = g.block[Turn(h, o, x)]
       /\ e.unique[x] <=> g.unique[Turn(h, o, x)]
       /\ e.previous[x] = Turn(h, o, g.previous[Turn(h, o, x)])
       /\ e.next[x] = Turn(h, o, g.next[Turn(h, o, x)])
  /\ \A c \in Blocks : e.first[c] = Turn(h, o, g.first[c])
  /\ e.heap = g.heap

\* Exchanging two objects is a renaming, so it keeps all that Good says.
LEMMA ExchangedGood ==
  ASSUME NEW g, Good(g), NEW h \in Objects, NEW o \in Objects,
         NEW e, Exchanged(g, h, o, e)
  PROVE  /\ Good(e)
         /\ e.block = [g.block EXCEPT ![h] = g.block[o], ![o] = g.block[h]]
<1> DEFINE P(x) == Turn(h, o, x)
<1>1. /\ g \in Graph /\ e \in Graph
      /\ LinksAgree(g) /\ WellOrdered(g) /\ BitsExact(g) /\ HeapExact(g)
  BY DEF Good, Linked, Exchanged
<1>2. /\ \A x \in Objects : P(x) \in Objects /\ P(P(x)) = x
      /\ \A x : P(P(x)) = x
      /\ P(Null) = Null
      /\ \A x : P(x) = Null <=> x = Null
  BY Facts DEF Turn
<1>3. /\ \A x \in Objects :
           /\ e.block[x] = g.block[P(x)]
           /\ e.unique[x] <=> g.unique[P(x)]
           /\ e.previous[x] = P(g.previous[P(x)])
           /\ e.next[x] = P(g.next[P(x)])
      /\ \A c \in Blocks : e.first[c] = P(g.first[c])
      /\ e.heap = g.heap
  BY DEF Exchanged
<1>4. e.block = [g.block EXCEPT ![h] = g.block[o], ![o] = g.block[h]]
  BY <1>1, <1>3 DEF Turn, Graph
<1> HIDE DEF P
<1>5. LinksAgree(e)
  <2>1. ASSUME NEW x \in Objects
        PROVE  /\ e.block[x] = Null => e.previous[x] = Null /\ e.next[x] = Null
               /\ e.next[x] # Null => /\ e.previous[e.next[x]] = x
                                      /\ e.block[e.next[x]] = e.block[x]
               /\ e.previous[x] # Null => /\ e.next[e.previous[x]] = x
                                          /\ e.block[e.previous[x]] = e.block[x]
               /\ e.block[x] # Null /\ e.previous[x] = Null => e.first[e.block[x]] = x
    <3> DEFINE y == P(x)
    <3>1. y \in Objects /\ P(y) = x
      BY <1>2
    <3>2. /\ e.block[x] = g.block[y] /\ e.previous[x] = P(g.previous[y])
          /\ e.next[x] = P(g.next[y])
      BY <1>3
    <3> HIDE DEF y
    <3>3. e.block[x] = Null => e.previous[x] = Null /\ e.next[x] = Null
      <4>1. g.block[y] = Null => g.previous[y] = Null /\ g.next[y] = Null
        BY <1>1, <3>1 DEF LinksAgree
      <4> QED
        BY <1>2, <3>2, <4>1
    <3>4. ASSUME e.next[x] # Null
          PROVE  e.previous[e.next[x]] = x /\ e.block[e.next[x]] = e.block[x]
      <4>1. g.next[y] \in Objects /\ g.previous[g.next[y]] = y /\ g.block[g.next[y]] = g.block[y]
        BY <1>1, <1>2, <3>1, <3>2, <3>4 DEF LinksAgree, Graph
      <4>2. P(g.next[y]) \in Objects /\ P(P(g.next[y])) = g.next[y]
        BY <1>2, <4>1
      <4> QED
        BY <1>3, <3>1, <3>2, <4>1, <4>2
    <3>5. ASSUME e.previous[x] # Null
          PROVE  e.next[e.previous[x]] = x /\ e.block[e.previous[x]] = e.block[x]
      <4>1. /\ g.previous[y] \in Objects /\ g.next[g.previous[y]] = y
            /\ g.block[g.previous[y]] = g.block[y]
        BY <1>1, <1>2, <3>1, <3>2, <3>5 DEF LinksAgree, Graph
      <4>2. P(g.previous[y]) \in Objects /\ P(P(g.previous[y])) = g.previous[y]
        BY <1>2, <4>1
      <4> QED
        BY <1>3, <3>1, <3>2, <4>1, <4>2
    <3>6. ASSUME e.block[x] # Null, e.previous[x] = Null
          PROVE  e.first[e.block[x]] = x
      <4>1. g.previous[y] = Null /\ g.block[y] # Null
        BY <1>2, <3>2, <3>6
      <4>2. g.first[g.block[y]] = y /\ g.block[y] \in Blocks
        BY <1>1, <3>1, <4>1 DEF LinksAgree, Graph
      <4> QED
        BY <1>3, <3>1, <3>2, <4>2
    <3> QED
      BY <3>3, <3>4, <3>5, <3>6
  <2>2. ASSUME NEW c \in Blocks, e.first[c] # Null
        PROVE  e.block[e.first[c]] = c /\ e.previous[e.first[c]] = Null
    <3>1. g.first[c] # Null /\ e.first[c] = P(g.first[c])
      BY <1>2, <1>3, <2>2
    <3>2. /\ g.first[c] \in Objects /\ g.block[g.first[c]] = c
          /\ g.previous[g.first[c]] = Null
      BY <1>1, <3>1 DEF LinksAgree, Graph
    <3>3. P(g.first[c]) \in Objects /\ P(P(g.first[c])) = g.first[c]
      BY <1>2, <3>2
    <3> QED
      BY <1>2, <1>3, <3>1, <3>2, <3>3
  <2> QED
    BY <2>1, <2>2 DEF LinksAgree
<1>6. WellOrdered(e)
  <2> SUFFICES ASSUME NEW S \in (SUBSET Objects) \ {{}}
               PROVE  \E x \in S : e.previous[x] \notin S
    BY DEF WellOrdered
  <2> DEFINE T == {P(x) : x \in S}
  <2>1. T \in (SUBSET Objects) \ {{}}
    BY <1>2
  <2>2. PICK y \in T : g.previous[y] \notin T
    BY <1>1, <2>1 DEF WellOrdered
  <2>3. P(y) \in S /\ y \in Objects
    BY <1>2, <2>1, <2>2
  <2>4. e.previous[P(y)] = P(g.previous[y])
    BY <1>2, <1>3, <2>3
  <2>5. P(g.previous[y]) \notin S
    BY <1>2, <2>2
  <2> QED
    BY <2>3, <2>4, <2>5
<1>7. BitsExact(e)
  <2>1. ASSUME NEW x \in Objects
        PROVE  e.unique[x] <=> (e.block[x] # Null /\ OwnersIn(e, e.block[x]) = {x})
    <3> DEFINE y == P(x)
               c == e.block[x]
    <3>1. y \in Objects /\ P(y) = x /\ g.block[y] = c
      BY <1>2, <1>3
    <3>2. g.unique[y] <=> (c # Null /\ OwnersIn(g, c) = {y})
      BY <1>1, <3>1 DEF BitsExact
    <3>3. e.unique[x] <=> g.unique[y]
      BY <1>3
    <3> HIDE DEF y, c
    <3>4. \A z \in Objects : z \in OwnersIn(e, c) <=> P(z) \in OwnersIn(g, c)
      BY <1>2, <1>3 DEF OwnersIn
    <3>5. OwnersIn(g, c) = {y} <=> OwnersIn(e, c) = {x}
      <4>1. /\ OwnersIn(g, c) \subseteq Objects
            /\ OwnersIn(e, c) \subseteq Objects
        BY DEF OwnersIn
      <4>2. P(x) = y /\ x \in Objects
        BY <1>2, <3>1
      <4>3. ASSUME OwnersIn(g, c) = {y}, NEW z \in Objects
            PROVE  z \in OwnersIn(e, c) <=> z = x
        BY <1>2, <3>1, <3>4, <4>2, <4>3
      <4>4. ASSUME OwnersIn(e, c) = {x}, NEW z \in Objects
            PROVE  z \in OwnersIn(g, c) <=> z = y
        <5>1. P(z) \in Objects /\ P(P(z)) = z
          BY <1>2
        <5>2. z \in OwnersIn(g, c) <=> P(z) = x
          BY <3>4, <4>4, <5>1
        <5> QED
          BY <3>1, <4>2, <5>1, <5>2
      <4>5. OwnersIn(g, c) = {y} => OwnersIn(e, c) = {x}
        BY <4>1, <4>2, <4>3
      <4>6. OwnersIn(e, c) = {x} => OwnersIn(g, c) = {y}
        BY <3>1, <4>1, <4>4
      <4> QED
        BY <4>5, <4>6
    <3> QED
      BY <3>2, <3>3, <3>5 DEF c
  <2> QED
    BY <2>1 DEF BitsExact
<1>8. HeapExact(e)
  <2>1. ASSUME NEW c
        PROVE  c \in {e.block[x] : x \in Objects} <=> c \in {g.block[x] : x \in Objects}
    <3>1. ASSUME NEW x \in Objects, e.block[x] = c
          PROVE  P(x) \in Objects /\ g.block[P(x)] = c
      BY <1>2, <1>3, <3>1
    <3>2. ASSUME NEW x \in Objects, g.block[x] = c
          PROVE  P(x) \in Objects /\ e.block[P(x)] = c
      BY <1>2, <1>3, <3>2
    <3> QED
      BY <3>1, <3>2
  <2> QED
    BY <1>1, <1>3, <2>1 DEF HeapExact
<1> QED
  BY <1>1, <1>4, <1>5, <1>6, <1>7, <1>8 DEF Good, Linked

\* In a linked graph the neighbours of an object have its block; the object
\* is its own neighbour nowhere, and it is the neighbour of its neighbours only.
LEMMA Neighbours ==
  ASSUME NEW g, Linked(g), NEW h \in Objects
  PROVE  /\ g.previous[h] \in Objects \cup {Null} /\ g.next[h] \in Objects \cup {Null}
         /\ g.previous[h] # h /\ g.next[h] # h
         /\ g.previous[h] # Null => /\ g.block[g.previous[h]] = g.block[h]
                                    /\ g.block[h] # Null
         /\ g.next[h] # Null => g.block[g.next[h]] = g.block[h] /\ g.block[h] # Null
         /\ \A x \in Objects : /\ g.next[x] = h <=> x = g.previous[h]
                               /\ g.previous[x] = h <=> x = g.next[h]
         /\ g.block[h] # Null /\ g.previous[h] = Null => g.first[g.block[h]] = h
         /\ \A c \in Blocks : g.first[c] = h => c = g.block[h] /\ g.previous[h] = Null
<1>1. g \in Graph /\ LinksAgree(g)
  BY DEF Linked
<1>2. \E x \in {h} : g.previous[x] \notin {h}
  BY DEF Linked, WellOrdered
<1>3. g.previous[h] \in Objects \cup {Null} /\ g.next[h] \in Objects \cup {Null}
  BY <1>1 DEF Graph
<1>4. g.previous[h] # h /\ g.next[h] # h
  BY <1>1, <1>2, Facts DEF LinksAgree
<1>5. /\ g.previous[h] # Null => g.block[g.previous[h]] = g.block[h] /\ g.block[h] # Null
      /\ g.next[h] # Null => g.block[g.next[h]] = g.block[h] /\ g.block[h] # Null
  BY <1>1 DEF LinksAgree
<1>6. \A x \in Objects : /\ g.next[x] = h <=> x = g.previous[h]
                         /\ g.previous[x] = h <=> x = g.next[h]
  BY <1>1, Facts DEF LinksAgree
<1>7. /\ g.block[h] # Null /\ g.previous[h] = Null => g.first[g.block[h]] = h
      /\ \A c \in Blocks : g.first[c] = h => c = g.block[h] /\ g.previous[h] = Null
  BY <1>1, Facts DEF LinksAgree
<1> QED
  BY <1>3, <1>4, <1>5, <1>6, <1>7

\* replace_owner, field by field.
LEMMA ReplaceOwnerFields ==
  ASSUME NEW g \in Graph, NEW b, NEW p, NEW n, NEW r \in Objects,
         NEW e, e = ReplaceOwner(g, b, p, n, r)
  PROVE  /\ e \in Graph
         /\ e.block = g.block /\ e.unique = g.unique /\ e.heap = g.heap
         /\ \A x \in Objects :
              /\ e.next[x] = IF x = p THEN r ELSE g.next[x]
              /\ e.previous[x] = IF x = n THEN r ELSE g.previous[x]
         /\ \A c \in Blocks :
              e.first[c] = IF c = b /\ p = Null THEN r ELSE g.first[c]
<1>1. /\ Store(g.next, p, r) \in [Objects -> Objects \cup {Null}]
      /\ \A x \in Objects : Store(g.next, p, r)[x] = IF x = p THEN r ELSE g.next[x]
  BY DEF Store, Graph
<1>2. /\ Store(g.previous, n, r) \in [Objects -> Objects \cup {Null}]
      /\ \A x \in Objects : Store(g.previous, n, r)[x] = IF x = n THEN r ELSE g.previous[x]
  BY DEF Store, Graph
<1>3. /\ Store(g.first, b, r) \in [Blocks -> Objects \cup {Null}]
      /\ \A c \in Blocks : Store(g.first, b, r)[c] = IF c = b THEN r ELSE g.first[c]
  BY DEF Store, Graph
<1>4. /\ e.block = g.block /\ e.unique = g.unique /\ e.heap = g.heap
      /\ e.next = Store(g.next, p, r) /\ e.previous = Store(g.previous, n, r)
      /\ e.first = IF p = Null THEN Store(g.first, b, r) ELSE g.first
      /\ e = [block |-> e.block, unique |-> e.unique, previous |-> e.previous,
              next |-> e.next, first |-> e.first, heap |-> e.heap]
  BY DEF ReplaceOwner, Graph
<1>5. e \in Graph
  BY <1>1, <1>2, <1>3, <1>4 DEF Graph
<1> QED
  BY <1>1, <1>2, <1>3, <1>4, <1>5

\* move_from an object whose destination owns nothing exchanges the two.
LEMMA MoveExchanged ==
  ASSUME NEW g, Good(g), NEW h \in Objects, NEW o \in Objects, h # o,
         g.block[h] = Null
  PROVE  Exchanged(g, h, o, MoveFrom(g, h, o))
<1> DEFINE m == MoveFrom(g, h, o)
           b == g.block[o]
           p == g.previous[o]
           n == g.next[o]
<1>1. /\ g \in Graph /\ Linked(g) /\ b \in Blocks \cup {Null}
      /\ g.previous[h] = Null /\ g.next[h] = Null /\ ~g.unique[h]
      /\ \A c \in Blocks : g.first[c] # h
  BY Facts DEF Good, Linked, LinksAgree, BitsExact, Graph
<1>2. /\ p \in Objects \cup {Null} /\ n \in Objects \cup {Null}
      /\ p \notin {h, o} /\ n \notin {h, o}
      /\ b = Null => p = Null
      /\ \A x \in Objects : /\ g.next[x] = o <=> x = p
                            /\ g.previous[x] = o <=> x = n
      /\ b # Null /\ p = Null => g.first[b] = o
      /\ \A c \in Blocks : g.first[c] = o => c = b /\ p = Null
  BY <1>1, Neighbours, Facts
<1>3. \A x \in Objects : g.next[x] # h /\ g.previous[x] # h
  BY <1>1, Neighbours, Facts
<1>4. /\ m \in Graph /\ m.heap = g.heap
      /\ \A x \in Objects :
           /\ m.block[x] = IF x = h THEN b ELSE IF x = o THEN Null ELSE g.block[x]
           /\ m.unique[x] <=> IF x = h THEN g.unique[o] ELSE x # o /\ g.unique[x]
           /\ m.previous[x] = IF x = h THEN p ELSE IF x = o THEN Null
                              ELSE IF x = n THEN h ELSE g.previous[x]
           /\ m.next[x] = IF x = h THEN n ELSE IF x = o THEN Null
                          ELSE IF x = p THEN h ELSE g.next[x]
      /\ \A c \in Blocks :
           m.first[c] = IF c = b /\ p = Null THEN h ELSE g.first[c]
  <2> DEFINE t == [g EXCEPT !.block    = Take(@, h, o, Null),
                            !.unique   = Take(@, h, o, FALSE),
                            !.previous = Take(@, h, o, Null),
                            !.next     = Take(@, h, o, Null)]
  <2>1. /\ t \in Graph /\ t.heap = g.heap /\ t.first = g.first
        /\ \A x \in Objects :
             /\ t.block[x] = IF x = h THEN b ELSE IF x = o THEN Null ELSE g.block[x]
             /\ t.unique[x] <=> IF x = h THEN g.unique[o] ELSE x # o /\ g.unique[x]
             /\ t.previous[x] = IF x = h THEN p ELSE IF x = o THEN Null
                                ELSE g.previous[x]
             /\ t.next[x] = IF x = h THEN n ELSE IF x = o THEN Null ELSE g.next[x]
    BY <1>1, Facts DEF Take, Graph
  <2>2. m = ReplaceOwner(t, b, p, n, h)
    BY DEF MoveFrom
  <2> HIDE DEF t, m
  <2> QED
    BY <1>2, <2>1, <2>2, ReplaceOwnerFields
<1> HIDE DEF m
<1>5. \A x \in Objects :
        /\ m.block[x] = g.block[Turn(h, o, x)]
        /\ m.unique[x] <=> g.unique[Turn(h, o, x)]
  BY <1>1, <1>4 DEF Turn
<1>6. \A x \in Objects : m.previous[x] = Turn(h, o, g.previous[Turn(h, o, x)])
  BY <1>1, <1>2, <1>3, <1>4, Facts DEF Turn
<1>7. \A x \in Objects : m.next[x] = Turn(h, o, g.next[Turn(h, o, x)])
  BY <1>1, <1>2, <1>3, <1>4, Facts DEF Turn
<1>8. \A c \in Blocks : m.first[c] = Turn(h, o, g.first[c])
  BY <1>1, <1>2, <1>4, Facts DEF Turn
<1> QED
  BY <1>4, <1>5, <1>6, <1>7, <1>8 DEF Exchanged, m

\* swap of two objects that own different blocks exchanges them.
LEMMA SwapExchanged ==
  ASSUME NEW g, Linked(g), NEW h \in Objects, NEW o \in Objects,
         g.block[h] # g.block[o]
  PROVE  Exchanged(g, h, o, Swap(g, h, o))
<1> DEFINE s == Swap(g, h, o)
           bh == g.block[h]
           ph == g.previous[h]
           nh == g.next[h]
           bo == g.block[o]
           po == g.previous[o]
           no == g.next[o]
<1>1. /\ g \in Graph /\ h # o /\ bh # bo
      /\ bh \in Blocks \cup {Null} /\ bo \in Blocks \cup {Null}
  BY DEF Linked, Graph
<1>2. /\ ph \in Objects \cup {Null} /\ nh \in Objects \cup {Null}
      /\ ph \notin {h, o} /\ nh \notin {h, o}
      /\ bh = Null => ph = Null
      /\ \A x \in Objects : /\ g.next[x] = h <=> x = ph
                            /\ g.previous[x] = h <=> x = nh
      /\ bh # Null /\ ph = Null => g.first[bh] = h
      /\ \A c \in Blocks : g.first[c] = h => c = bh /\ ph = Null
  BY <1>1, Neighbours, Facts
<1>3. /\ po \in Objects \cup {Null} /\ no \in Objects \cup {Null}
      /\ po \notin {h, o} /\ no \notin {h, o}
      /\ bo = Null => po = Null
      /\ \A x \in Objects : /\ g.next[x] = o <=> x = po
                            /\ g.previous[x] = o <=> x = no
      /\ bo # Null /\ po = Null => g.first[bo] = o
      /\ \A c \in Blocks : g.first[c] = o => c = bo /\ po = Null
  BY <1>1, Neighbours, Facts
<1>4. (ph = po => ph = Null) /\ (nh = no => nh = Null)
  BY <1>1, Neighbours
<1>5. /\ s \in Graph /\ s.heap = g.heap
      /\ \A x \in Objects :
           /\ s.block[x] = IF x = o THEN bh ELSE IF x = h THEN bo ELSE g.block[x]
           /\ s.unique[x] <=> IF x = o THEN g.unique[h] ELSE
                              IF x = h THEN g.unique[o] ELSE g.unique[x]
           /\ s.previous[x] = IF x = o THEN ph ELSE IF x = h THEN po
                              ELSE IF x = no THEN h ELSE IF x = nh THEN o
                              ELSE g.previous[x]
           /\ s.next[x] = IF x = o THEN nh ELSE IF x = h THEN no
                          ELSE IF x = po THEN h ELSE IF x = ph THEN o
                          ELSE g.next[x]
      /\ \A c \in Blocks :
           s.first[c] = IF c = bo /\ po = Null THEN h
                        ELSE IF c = bh /\ ph = Null THEN o ELSE g.first[c]
  <2> DEFINE one == ReplaceOwner(g, bh, ph, nh, o)
             two == ReplaceOwner(one, bo, po, no, h)
  <2>1. /\ one \in Graph
        /\ one.block = g.block /\ one.unique = g.unique /\ one.heap = g.heap
        /\ \A x \in Objects :
             /\ one.next[x] = IF x = ph THEN o ELSE g.next[x]
             /\ one.previous[x] = IF x = nh THEN o ELSE g.previous[x]
        /\ \A c \in Blocks :
             one.first[c] = IF c = bh /\ ph = Null THEN o ELSE g.first[c]
    BY <1>1, ReplaceOwnerFields
  <2> HIDE DEF one
  <2>2. /\ two \in Graph
        /\ two.block = one.block /\ two.unique = one.unique /\ two.heap = one.heap
        /\ \A x \in Objects :
             /\ two.next[x] = IF x = po THEN h ELSE one.next[x]
             /\ two.previous[x] = IF x = no THEN h ELSE one.previous[x]
        /\ \A c \in Blocks :
             two.first[c] = IF c = bo /\ po = Null THEN h ELSE one.first[c]
    BY <2>1, ReplaceOwnerFields
  <2>3. s = [two EXCEPT !.block    = Cross(@, h, o, g.block),
                        !.unique   = Cross(@, h, o, g.unique),
                        !.previous = Cross(@, h, o, g.previous),
                        !.next     = Cross(@, h, o, g.next)]
    BY <1>1 DEF Swap, one
  <2> HIDE DEF two, s
  <2>4. /\ s \in Graph /\ s.heap = two.heap /\ s.first = two.first
        /\ \A x \in Objects :
             /\ s.block[x] = IF x = o THEN bh ELSE IF x = h THEN bo ELSE two.block[x]
             /\ s.unique[x] <=> IF x = o THEN g.unique[h] ELSE
                                IF x = h THEN g.unique[o] ELSE two.unique[x]
             /\ s.previous[x] = IF x = o THEN ph ELSE IF x = h THEN po
                                ELSE two.previous[x]
             /\ s.next[x] = IF x = o THEN nh ELSE IF x = h THEN no ELSE two.next[x]
    <3>1. /\ s.block = Cross(two.block, h, o, g.block)
          /\ s.unique = Cross(two.unique, h, o, g.unique)
          /\ s.previous = Cross(two.previous, h, o, g.previous)
          /\ s.next = Cross(two.next, h, o, g.next)
          /\ s.first = two.first /\ s.heap = two.heap
          /\ s = [block |-> s.block, unique |-> s.unique, previous |-> s.previous,
                  next |-> s.next, first |-> s.first, heap |-> s.heap]
      BY <2>2, <2>3 DEF Graph
    <3>2. /\ s.block \in [Objects -> Blocks \cup {Null}]
          /\ \A x \in Objects :
               s.block[x] = IF x = o THEN bh ELSE IF x = h THEN bo ELSE two.block[x]
      BY <1>1, <2>2, <3>1 DEF Cross, Graph
    <3>3. /\ s.unique \in [Objects -> BOOLEAN]
          /\ \A x \in Objects :
               s.unique[x] <=> IF x = o THEN g.unique[h] ELSE
                               IF x = h THEN g.unique[o] ELSE two.unique[x]
      BY <1>1, <2>2, <3>1 DEF Cross, Graph
    <3>4. /\ s.previous \in [Objects -> Objects \cup {Null}]
          /\ \A x \in Objects :
               s.previous[x] = IF x = o THEN ph ELSE IF x = h THEN po ELSE two.previous[x]
      BY <1>1, <2>2, <3>1 DEF Cross, Graph
    <3>5. /\ s.next \in [Objects -> Objects \cup {Null}]
          /\ \A x \in Objects :
               s.next[x] = IF x = o THEN nh ELSE IF x = h THEN no ELSE two.next[x]
      BY <1>1, <2>2, <3>1 DEF Cross, Graph
    <3>6. s \in Graph
      BY <2>2, <3>1, <3>2, <3>3, <3>4, <3>5 DEF Graph
    <3> QED
      BY <3>1, <3>2, <3>3, <3>4, <3>5, <3>6
  <2> HIDE DEF bh, ph, nh, bo, po, no
  <2> QED
    BY <2>1, <2>2, <2>4
<1> HIDE DEF s
<1>6. \A x \in Objects :
        /\ s.block[x] = g.block[Turn(h, o, x)]
        /\ s.unique[x] <=> g.unique[Turn(h, o, x)]
  BY <1>1, <1>5 DEF Turn
<1>7. \A x \in Objects : s.previous[x] = Turn(h, o, g.previous[Turn(h, o, x)])
  BY <1>1, <1>2, <1>3, <1>4, <1>5, Facts DEF Turn
<1>8. \A x \in Objects : s.next[x] = Turn(h, o, g.next[Turn(h, o, x)])
  BY <1>1, <1>2, <1>3, <1>4, <1>5, Facts DEF Turn
<1>9. \A c \in Blocks : s.first[c] = Turn(h, o, g.first[c])
  BY <1>1, <1>2, <1>3, <1>5, Facts DEF Turn
<1> QED
  BY <1>5, <1>6, <1>7, <1>8, <1>9 DEF Exchanged, s

\* What move_from leaves behind, and whose block it moved.
LEMMA MoveGood ==
  ASSUME NEW g, Good(g), NEW h \in Objects, NEW o \in Objects, h # o,
         g.block[h] = Null
  PROVE  /\ Good(MoveFrom(g, h, o))
         /\ MoveFrom(g, h, o).block = [g.block EXCEPT ![h] = g.block[o], ![o] = Null]
<1>1. Exchanged(g, h, o, MoveFrom(g, h, o))
  BY MoveExchanged
<1> QED
  BY <1>1, ExchangedGood

\* What swap leaves behind: the two blocks exchanged, even where the code
\* returns early.
LEMMA SwapGood ==
  ASSUME NEW g, Good(g), NEW h \in Objects, NEW o \in Objects
  PROVE  /\ Good(Swap(g, h, o))
         /\ Swap(g, h, o).block = [g.block EXCEPT ![h] = g.block[o], ![o] = g.block[h]]
<1>1. g \in Graph /\ Linked(g)
  BY DEF Good, Linked
<1>2. CASE g.block[h] = g.block[o]
  <2>1. Swap(g, h, o) = g
    BY <1>2 DEF Swap
  <2>2. g.block = [g.block EXCEPT ![h] = g.block[o], ![o] = g.block[h]]
    BY <1>1, <1>2 DEF Graph
  <2> QED
    BY <2>1, <2>2
<1>3. CASE g.block[h] # g.block[o]
  <2>1. Exchanged(g, h, o, Swap(g, h, o))
    BY <1>1, <1>3, SwapExchanged
  <2> QED
    BY <2>1, ExchangedGood
<1> QED
  BY <1>2, <1>3

-----------------------------------------------------------------------------
(* The public operations.                                                  *)

\* The parts of Inv in the form the operations need them.
LEMMA Typing ==
  ASSUME Inv
  PROVE  /\ alive \subseteq Handles /\ Handles \subseteq Objects
         /\ Replacement \in Objects /\ graph.block[Replacement] = Null
         /\ graph \in Graph /\ Good(graph)
         /\ \A x \in Objects \ alive : graph.block[x] = Null
<1>1. Replacement \in Objects \ alive
  BY Facts DEF Inv, Objects
<1> QED
  BY <1>1 DEF Inv, Good, Linked, Objects

\* Every operation that acts on the handle h alone.
LEMMA OnOne ==
  ASSUME Inv, NEW h \in Handles
  PROVE  /\ Good(Detach(graph, h))
         /\ Detach(graph, h).block = [graph.block EXCEPT ![h] = Null]
         /\ \A b \in FreeBlocks : graph.block[h] = Null =>
              /\ Good(Attach(MakeBlock(graph, b), h, b))
              /\ Attach(MakeBlock(graph, b), h, b).block = [graph.block EXCEPT ![h] = b]
<1>1. h \in Objects /\ Good(graph)
  BY Typing
<1> QED
  BY <1>1, DetachGood, AttachFreshGood DEF FreeBlocks

\* Assigning a text: the replacement is built, takes h's place, and releases
\* what h owned.
LEMMA OnReplacement ==
  ASSUME Inv, NEW h \in Handles, NEW b \in FreeBlocks
  PROVE  LET built == Attach(MakeBlock(graph, b), Replacement, b)
             after == Detach(Swap(built, h, Replacement), Replacement)
         IN  Good(after) /\ after.block = [graph.block EXCEPT ![h] = b]
<1> DEFINE built == Attach(MakeBlock(graph, b), Replacement, b)
           swapped == Swap(built, h, Replacement)
           after == Detach(swapped, Replacement)
<1>1. /\ h \in Objects /\ Replacement \in Objects /\ h # Replacement
      /\ Good(graph) /\ graph \in Graph /\ graph.block[Replacement] = Null
  BY Typing, Facts
<1>2. Good(built) /\ built.block = [graph.block EXCEPT ![Replacement] = b]
  BY <1>1, AttachFreshGood DEF FreeBlocks
<1> HIDE DEF built
<1>3. /\ Good(swapped)
      /\ swapped.block = [built.block EXCEPT ![h] = built.block[Replacement],
                                             ![Replacement] = built.block[h]]
  <2>1. Good(built) /\ h \in Objects /\ Replacement \in Objects
    BY <1>1, <1>2
  <2> QED
    BY <2>1, SwapGood
<1> HIDE DEF swapped
<1>4. Good(after) /\ after.block = [swapped.block EXCEPT ![Replacement] = Null]
  BY <1>1, <1>3, DetachGood
<1>5. [swapped.block EXCEPT ![Replacement] = Null] = [graph.block EXCEPT ![h] = b]
  BY <1>1, <1>2, <1>3 DEF Graph
<1> QED
  BY <1>4, <1>5 DEF after, swapped, built

\* The step leaves a good graph in which the objects own the blocks f.
Owned(f) == graph' \in Graph /\ Good(graph') /\ graph'.block = f

\* A good graph is a graph.
LEMMA GoodIsGraph ==
  ASSUME NEW g, Good(g)
  PROVE  g \in Graph
  BY DEF Good, Linked

\* Constructing a null String changes no ownership.
LEMMA ConstructNullOwned ==
  ASSUME Inv, NEW h \in Handles, ConstructNull(h)
  PROVE  Owned(graph.block)
  BY Typing DEF ConstructNull, Owned

\* Constructing from a text gives h a free block.
LEMMA ConstructValueOwned ==
  ASSUME Inv, NEW h \in Handles, ConstructValue(h)
  PROVE  \E b \in FreeBlocks : Owned([graph.block EXCEPT ![h] = b])
<1>1. PICK b \in FreeBlocks : graph' = Attach(MakeBlock(graph, b), h, b)
  BY DEF ConstructValue
<1>2. graph.block[h] = Null
  BY Typing DEF ConstructValue, Construct
<1> QED
  BY <1>1, <1>2, OnOne, GoodIsGraph DEF Owned

\* Copy construction gives h what o owns.
LEMMA ConstructCopyOwned ==
  ASSUME Inv, NEW h \in Handles, NEW o \in alive, ConstructCopy(h, o)
  PROVE  Owned([graph.block EXCEPT ![h] = graph.block[o]])
<1>1. h \in Objects /\ o \in Objects /\ graph.block[h] = Null /\ Good(graph)
  BY Typing DEF ConstructCopy, Construct
<1> QED
  BY <1>1, AttachGood, GoodIsGraph DEF ConstructCopy, Owned

\* Move construction gives h what o owned and leaves o nothing.
LEMMA ConstructMoveOwned ==
  ASSUME Inv, NEW h \in Handles, NEW o \in alive, ConstructMove(h, o)
  PROVE  Owned([graph.block EXCEPT ![h] = graph.block[o], ![o] = Null])
<1>1. h \in Objects /\ o \in Objects /\ h # o /\ graph.block[h] = Null /\ Good(graph)
  BY Typing DEF ConstructMove, Construct
<1> QED
  BY <1>1, MoveGood, GoodIsGraph DEF ConstructMove, Owned

\* Destroying and resetting take from h what it owned.
LEMMA DetachOwned ==
  ASSUME Inv, NEW h \in alive, Destroy(h) \/ Reset(h)
  PROVE  Owned([graph.block EXCEPT ![h] = Null])
<1>1. h \in Handles /\ graph' = Detach(graph, h)
  BY Typing DEF Destroy, Reset
<1> QED
  BY <1>1, OnOne, GoodIsGraph DEF Owned

\* Assigning a text gives h a block that was free before the assignment.
LEMMA AssignValueOwned ==
  ASSUME Inv, NEW h \in alive, AssignValue(h)
  PROVE  \E b \in FreeBlocks : Owned([graph.block EXCEPT ![h] = b])
<1>1. PICK b \in FreeBlocks :
        graph' = Detach(Swap(Attach(MakeBlock(graph, b), Replacement, b),
                             h, Replacement), Replacement)
  BY DEF AssignValue
<1>2. h \in Handles
  BY Typing
<1> QED
  BY <1>1, <1>2, OnReplacement, GoodIsGraph DEF Owned

\* Copy assignment gives h what o owns, also where the code returns early.
LEMMA AssignCopyOwned ==
  ASSUME Inv, NEW h \in alive, NEW o \in alive, AssignCopy(h, o)
  PROVE  Owned([graph.block EXCEPT ![h] = graph.block[o]])
<1>1. /\ h \in Objects /\ o \in Objects /\ h \in Handles
      /\ Good(graph) /\ graph \in Graph
  BY Typing
<1>2. CASE h = o \/ graph.block[h] = graph.block[o]
  <2>1. graph' = graph
    BY <1>2 DEF AssignCopy
  <2>2. graph.block = [graph.block EXCEPT ![h] = graph.block[o]]
    BY <1>1, <1>2 DEF Graph
  <2> QED
    BY <1>1, <2>1, <2>2 DEF Owned
<1>3. CASE ~(h = o \/ graph.block[h] = graph.block[o])
  <2> DEFINE d == Detach(graph, h)
  <2>1. graph' = Attach(d, h, graph.block[o])
    BY <1>3 DEF AssignCopy
  <2>2. Good(d) /\ d.block = [graph.block EXCEPT ![h] = Null]
    BY <1>1, DetachGood
  <2> HIDE DEF d
  <2>3. d.block[o] = graph.block[o] /\ d.block[h] = Null
    BY <1>1, <1>3, <2>2 DEF Graph
  <2>4. /\ Good(Attach(d, h, d.block[o]))
        /\ Attach(d, h, d.block[o]).block = [d.block EXCEPT ![h] = d.block[o]]
    <3>1. Good(d) /\ h \in Objects /\ o \in Objects /\ d.block[h] = Null
      BY <1>1, <2>2, <2>3
    <3> QED
      BY <3>1, AttachGood
  <2>5. [d.block EXCEPT ![h] = d.block[o]] = [graph.block EXCEPT ![h] = graph.block[o]]
    BY <1>1, <2>2, <2>3 DEF Graph
  <2> QED
    BY <2>1, <2>3, <2>4, <2>5, GoodIsGraph DEF Owned
<1> QED
  BY <1>2, <1>3

\* Move assignment gives h what o owned; self-assignment changes nothing.
LEMMA AssignMoveOwned ==
  ASSUME Inv, NEW h \in alive, NEW o \in alive, AssignMove(h, o)
  PROVE  \/ h = o /\ Owned(graph.block)
         \/ h # o /\ Owned([graph.block EXCEPT ![h] = graph.block[o], ![o] = Null])
<1>1. /\ h \in Objects /\ o \in Objects /\ Good(graph) /\ graph \in Graph
  BY Typing
<1>2. CASE h = o
  BY <1>1, <1>2 DEF AssignMove, Owned
<1>3. CASE h # o
  <2> DEFINE d == Detach(graph, h)
  <2>1. graph' = MoveFrom(d, h, o)
    BY <1>3 DEF AssignMove
  <2>2. Good(d) /\ d.block = [graph.block EXCEPT ![h] = Null]
    BY <1>1, DetachGood
  <2> HIDE DEF d
  <2>3. d.block[o] = graph.block[o] /\ d.block[h] = Null
    BY <1>1, <1>3, <2>2 DEF Graph
  <2>4. /\ Good(MoveFrom(d, h, o))
        /\ MoveFrom(d, h, o).block = [d.block EXCEPT ![h] = d.block[o], ![o] = Null]
    <3>1. Good(d) /\ h \in Objects /\ o \in Objects /\ h # o /\ d.block[h] = Null
      BY <1>1, <1>3, <2>2, <2>3
    <3> QED
      BY <3>1, MoveGood
  <2>5. [d.block EXCEPT ![h] = d.block[o], ![o] = Null]
          = [graph.block EXCEPT ![h] = graph.block[o], ![o] = Null]
    BY <1>1, <1>3, <2>2, <2>3 DEF Graph
  <2> QED
    BY <1>3, <2>1, <2>4, <2>5, GoodIsGraph DEF Owned
<1> QED
  BY <1>2, <1>3

\* Swapping exchanges what h and o own.
LEMMA SwapOwned ==
  ASSUME Inv, NEW h \in alive, NEW o \in alive, SwapWith(h, o)
  PROVE  Owned([graph.block EXCEPT ![h] = graph.block[o], ![o] = graph.block[h]])
<1>1. h \in Objects /\ o \in Objects /\ Good(graph)
  BY Typing
<1> QED
  BY <1>1, SwapGood, GoodIsGraph DEF SwapWith, Owned

-----------------------------------------------------------------------------
(* The invariant and what follows from it.                                 *)

\* The program starts with no owner and no block.
LEMMA InitInv ==
  ASSUME Init
  PROVE  Inv
<1>1. /\ alive = {} /\ graph \in Graph
      /\ graph.heap = {}
      /\ \A x \in Objects : /\ graph.block[x] = Null /\ ~graph.unique[x]
                            /\ graph.previous[x] = Null /\ graph.next[x] = Null
      /\ \A b \in Blocks : graph.first[b] = Null
  BY DEF Init, Graph
<1>2. LinksAgree(graph) /\ WellOrdered(graph)
  BY <1>1, Facts DEF LinksAgree, WellOrdered
<1>3. BitsExact(graph) /\ HeapExact(graph)
  BY <1>1 DEF BitsExact, HeapExact
<1> QED
  BY <1>1, <1>2, <1>3 DEF Inv, Good, Linked

\* Every operation keeps the invariant.
LEMMA NextInv ==
  ASSUME Inv, Next
  PROVE  Inv'
<1>1. /\ alive \subseteq Handles /\ Handles \subseteq Objects /\ graph \in Graph
      /\ \A x \in Objects \ alive : graph.block[x] = Null
  BY Typing
<1>2. ASSUME NEW h \in Handles, NEW f, Construct(h), Owned(f),
             \A x \in Objects \ {h} : f[x] # Null => graph.block[x] # Null
      PROVE  Inv'
  BY <1>1, <1>2 DEF Construct, Owned, Inv
<1>3. ASSUME NEW f, UNCHANGED alive, Owned(f),
             \A x \in Objects \ alive : f[x] = Null
      PROVE  Inv'
  BY <1>1, <1>3 DEF Owned, Inv
<1>4. ASSUME NEW h \in Handles, ConstructNull(h)
      PROVE  Inv'
  BY <1>1, <1>2, <1>4, ConstructNullOwned DEF ConstructNull
<1>5. ASSUME NEW h \in Handles, ConstructValue(h)
      PROVE  Inv'
  <2>1. PICK b \in FreeBlocks : Owned([graph.block EXCEPT ![h] = b])
    BY <1>5, ConstructValueOwned
  <2>2. \A x \in Objects \ {h} : [graph.block EXCEPT ![h] = b][x] = graph.block[x]
    BY <1>1 DEF Graph
  <2> QED
    BY <1>2, <1>5, <2>1, <2>2 DEF ConstructValue
<1>6. ASSUME NEW h \in Handles, NEW o \in alive, ConstructCopy(h, o)
      PROVE  Inv'
  <2>1. Owned([graph.block EXCEPT ![h] = graph.block[o]])
    BY <1>6, ConstructCopyOwned
  <2>2. \A x \in Objects \ {h} :
          [graph.block EXCEPT ![h] = graph.block[o]][x] = graph.block[x]
    BY <1>1 DEF Graph
  <2> QED
    BY <1>2, <1>6, <2>1, <2>2 DEF ConstructCopy
<1>7. ASSUME NEW h \in Handles, NEW o \in alive, ConstructMove(h, o)
      PROVE  Inv'
  <2>1. Owned([graph.block EXCEPT ![h] = graph.block[o], ![o] = Null])
    BY <1>7, ConstructMoveOwned
  <2>2. \A x \in Objects \ {h} :
          [graph.block EXCEPT ![h] = graph.block[o], ![o] = Null][x]
            \in {graph.block[x], Null}
    BY <1>1 DEF Graph
  <2> QED
    BY <1>2, <1>7, <2>1, <2>2 DEF ConstructMove
<1>8. ASSUME NEW h \in alive, Destroy(h)
      PROVE  Inv'
  <2>1. Owned([graph.block EXCEPT ![h] = Null])
    BY <1>8, DetachOwned
  <2>2. \A x \in Objects \ (alive \ {h}) : [graph.block EXCEPT ![h] = Null][x] = Null
    BY <1>1 DEF Graph
  <2> QED
    BY <1>1, <1>8, <2>1, <2>2 DEF Destroy, Owned, Inv
<1>9. ASSUME NEW h \in alive, Reset(h)
      PROVE  Inv'
  <2>1. Owned([graph.block EXCEPT ![h] = Null])
    BY <1>9, DetachOwned
  <2>2. \A x \in Objects \ alive : [graph.block EXCEPT ![h] = Null][x] = Null
    BY <1>1 DEF Graph
  <2> QED
    BY <1>3, <1>9, <2>1, <2>2 DEF Reset
<1>10. ASSUME NEW h \in alive, AssignValue(h)
       PROVE  Inv'
  <2>1. PICK b \in FreeBlocks : Owned([graph.block EXCEPT ![h] = b])
    BY <1>10, AssignValueOwned
  <2>2. \A x \in Objects \ alive : [graph.block EXCEPT ![h] = b][x] = Null
    BY <1>1 DEF Graph
  <2> QED
    BY <1>3, <1>10, <2>1, <2>2 DEF AssignValue
<1>11. ASSUME NEW h \in alive, NEW o \in alive, AssignCopy(h, o)
       PROVE  Inv'
  <2>1. Owned([graph.block EXCEPT ![h] = graph.block[o]])
    BY <1>11, AssignCopyOwned
  <2>2. \A x \in Objects \ alive : [graph.block EXCEPT ![h] = graph.block[o]][x] = Null
    BY <1>1 DEF Graph
  <2> QED
    BY <1>3, <1>11, <2>1, <2>2 DEF AssignCopy
<1>12. ASSUME NEW h \in alive, NEW o \in alive, AssignMove(h, o)
       PROVE  Inv'
  <2>1. \/ Owned(graph.block)
        \/ Owned([graph.block EXCEPT ![h] = graph.block[o], ![o] = Null])
    BY <1>12, AssignMoveOwned
  <2>2. \A x \in Objects \ alive :
          [graph.block EXCEPT ![h] = graph.block[o], ![o] = Null][x] = Null
    BY <1>1 DEF Graph
  <2>3. UNCHANGED alive
    BY <1>12 DEF AssignMove
  <2> QED
    BY <1>1, <1>3, <2>1, <2>2, <2>3
<1>13. ASSUME NEW h \in alive, NEW o \in alive, SwapWith(h, o)
       PROVE  Inv'
  <2>1. Owned([graph.block EXCEPT ![h] = graph.block[o], ![o] = graph.block[h]])
    BY <1>13, SwapOwned
  <2>2. \A x \in Objects \ alive :
          [graph.block EXCEPT ![h] = graph.block[o], ![o] = graph.block[h]][x] = Null
    BY <1>1 DEF Graph
  <2> QED
    BY <1>3, <1>13, <2>1, <2>2 DEF SwapWith
<1> QED
  BY <1>4, <1>5, <1>6, <1>7, <1>8, <1>9, <1>10, <1>11, <1>12, <1>13 DEF Next

\* The owner lists, the bits and the heap stay exact after every operation.
THEOREM Invariance == Spec => []Inv
<1>1. ASSUME Inv, [Next]_vars PROVE Inv'
  <2>1. CASE UNCHANGED vars
    BY <1>1, <2>1 DEF vars, Inv, Good, Linked, LinksAgree, WellOrdered,
                     BitsExact, OwnersIn, HeapExact
  <2> QED
    BY <1>1, <2>1, NextInv
<1> QED
  BY InitInv, <1>1, PTL DEF Spec

\* Every reachable graph has the fields the class declares, and a String that
\* does not live owns nothing.
THEOREM TypeCorrect == Spec => []TypeOK
<1>1. Inv => TypeOK
  BY Typing DEF TypeOK, Inv
<1> QED
  BY <1>1, Invariance, PTL

\* unique() is true of exactly the sole owners, for any number of Strings and
\* blocks and after any sequence of operations.
THEOREM UniqueBit == Spec => []UniqueBitExact
<1>1. Inv => UniqueBitExact
  BY DEF Inv, Good, BitsExact, OwnersIn, UniqueBitExact, Owners
<1> QED
  BY <1>1, Invariance, PTL

\* A block is on the heap exactly as long as a live String owns it.
THEOREM NoLeakNoDangling == Spec => []ReleasedWithLastOwner
<1>1. ASSUME Inv PROVE ReleasedWithLastOwner
  <2>1. /\ alive \subseteq Objects
        /\ \A x \in Objects \ alive : graph.block[x] = Null
    BY <1>1, Typing
  <2>2. graph.heap = {graph.block[x] : x \in Objects} \ {Null}
    BY <1>1 DEF Inv, Good, HeapExact
  <2> QED
    BY <2>1, <2>2 DEF ReleasedWithLastOwner
<1> QED
  BY <1>1, Invariance, PTL

\* No owner is ever on a cycle or cut off from the block's first owner.
THEOREM WellFormedLists == Spec => []OwnersOnOneList
<1>1. ASSUME Inv PROVE OwnersOnOneList
  <2>1. Linked(graph) /\ LinksAgree(graph) /\ WellOrdered(graph)
    BY <1>1 DEF Inv, Good, Linked
  <2>2. ASSUME NEW b \in Blocks, Owners(b) # {}
        PROVE  graph.first[b] # Null
    <3>1. PICK x \in Objects : graph.block[x] = b
      BY <2>2 DEF Owners
    <3>2. graph.first[graph.block[x]] \in Objects
      BY <2>1, <3>1, HasFirst, Facts
    <3> QED
      BY <3>1, <3>2, Facts
  <2> QED
    BY <2>1, <2>2 DEF OwnersOnOneList, WellOrdered
<1> QED
  BY <1>1, Invariance, PTL

-----------------------------------------------------------------------------
(* The owner lists implement shared ownership.                             *)

\* In a good graph where only handles own, the heap and what unique() returns
\* are the outputs of Become(o).
LEMMA Outputs ==
  ASSUME NEW g, Good(g), \A x \in Objects \ Handles : g.block[x] = Null,
         NEW o, o = [h \in Handles |-> g.block[h]]
  PROVE  /\ g.heap = {o[h] : h \in Handles} \ {Null}
         /\ [h \in Handles |-> g.unique[h]]
              = [h \in Handles |-> o[h] # Null /\ {x \in Handles : o[x] = o[h]} = {h}]
<1>1. Handles \subseteq Objects /\ g \in Graph /\ BitsExact(g) /\ HeapExact(g)
  BY DEF Good, Linked, Objects
<1>2. \A h \in Handles : o[h] = g.block[h]
  OBVIOUS
<1>3. ASSUME NEW h \in Handles, g.block[h] # Null
      PROVE  {x \in Handles : o[x] = o[h]} = OwnersIn(g, g.block[h])
  BY <1>1, <1>2, <1>3 DEF OwnersIn
<1>4. ASSUME NEW h \in Handles
      PROVE  g.unique[h] = (o[h] # Null /\ {x \in Handles : o[x] = o[h]} = {h})
  <2>1. g.unique[h] \in BOOLEAN
    BY <1>1 DEF Graph
  <2>2. g.unique[h] <=> o[h] # Null /\ {x \in Handles : o[x] = o[h]} = {h}
    BY <1>1, <1>2, <1>3 DEF BitsExact
  <2> QED
    BY <2>1, <2>2
<1>5. g.heap = {o[h] : h \in Handles} \ {Null}
  BY <1>1, <1>2 DEF HeapExact
<1> QED
  BY <1>4, <1>5

\* A step that gives the objects the blocks f does what Become asks for.
LEMMA BecomeOwned ==
  ASSUME Inv', NEW f, Owned(f), NEW o, o = [h \in Handles |-> f[h]]
  PROVE  /\ [h \in Handles |-> graph'.block[h]] = o
         /\ graph'.heap = {o[h] : h \in Handles} \ {Null}
         /\ [h \in Handles |-> graph'.unique[h]]
              = [h \in Handles |-> o[h] # Null /\ {x \in Handles : o[x] = o[h]} = {h}]
<1>1. [h \in Handles |-> graph'.block[h]] = o
  BY DEF Owned
<1>2. Good(graph') /\ \A x \in Objects \ Handles : graph'.block[x] = Null
  BY DEF Inv
<1>3. /\ graph'.heap = {o[h] : h \in Handles} \ {Null}
      /\ [h \in Handles |-> graph'.unique[h]]
           = [h \in Handles |-> o[h] # Null /\ {x \in Handles : o[x] = o[h]} = {h}]
  BY <1>1, <1>2, Outputs
<1> QED
  BY <1>1, <1>3

\* The owner lists, the tag bits and the owner-driven release implement shared
\* ownership: what a program can observe of any run is a run of SharedBlocks.
THEOREM Refinement == Spec => ImplementsSharedBlocks
<1> DEFINE owns == [h \in Handles |-> graph.block[h]]
<1>1. ASSUME Init PROVE Shared!Init
  BY <1>1 DEF Init, Shared!Init, Objects
<1>2. ASSUME Inv, Inv', [Next]_vars PROVE [Shared!Next]_(Shared!vars)
  <2>1. CASE UNCHANGED vars
    BY <2>1 DEF vars, Shared!vars
  <2>2. /\ alive \subseteq Handles /\ graph \in Graph
        /\ Handles \subseteq Objects
        /\ owns = [h \in Handles |-> graph.block[h]]
        /\ FreeBlocks = Blocks \ graph.heap
    BY <1>2, Typing DEF FreeBlocks
  <2>3. ASSUME NEW h \in Handles, ConstructNull(h)
        PROVE  Shared!Next
    <3>1. Owned(graph.block)
      BY <1>2, <2>3, ConstructNullOwned
    <3>2. Shared!Become(owns)
      <4>1. owns = [x \in Handles |-> graph.block[x]]
        OBVIOUS
      <4>2. Inv'
        BY <1>2
      <4> HIDE DEF owns
      <4> QED
        BY <3>1, <4>1, <4>2, BecomeOwned DEF Shared!Become, Shared!OwnersOf
    <3> QED
      BY <2>3, <3>2 DEF ConstructNull, Construct,
                        Shared!Next, Shared!Construct, Shared!ConstructEmpty
  <2>4. ASSUME NEW h \in Handles, ConstructValue(h)
        PROVE  Shared!Next
    <3>1. PICK b \in FreeBlocks : Owned([graph.block EXCEPT ![h] = b])
      BY <1>2, <2>4, ConstructValueOwned
    <3>2. [owns EXCEPT ![h] = b] = [x \in Handles |-> [graph.block EXCEPT ![h] = b][x]]
      BY <2>2 DEF Graph
    <3>3. Shared!Become([owns EXCEPT ![h] = b])
      <4> DEFINE new == [owns EXCEPT ![h] = b]
                 blocks == [graph.block EXCEPT ![h] = b]
      <4>1. Inv' /\ Owned(blocks) /\ new = [x \in Handles |-> blocks[x]]
        BY <1>2, <3>1, <3>2
      <4> HIDE DEF new, blocks
      <4>2. Shared!Become(new)
        BY <4>1, BecomeOwned DEF Shared!Become, Shared!OwnersOf
      <4> QED
        BY <4>2 DEF new
    <3> QED
      BY <2>2, <2>4, <3>3 DEF ConstructValue, Construct,
                              Shared!Next, Shared!Construct, Shared!ConstructFresh
  <2>5. ASSUME NEW h \in Handles, NEW o \in alive, ConstructCopy(h, o)
        PROVE  Shared!Next
    <3>1. Owned([graph.block EXCEPT ![h] = graph.block[o]])
      BY <1>2, <2>5, ConstructCopyOwned
    <3>2. [owns EXCEPT ![h] = owns[o]]
            = [x \in Handles |-> [graph.block EXCEPT ![h] = graph.block[o]][x]]
      BY <2>2 DEF Graph
    <3>3. Shared!Become([owns EXCEPT ![h] = owns[o]])
      <4> DEFINE new == [owns EXCEPT ![h] = owns[o]]
                 blocks == [graph.block EXCEPT ![h] = graph.block[o]]
      <4>1. Inv' /\ Owned(blocks) /\ new = [x \in Handles |-> blocks[x]]
        BY <1>2, <3>1, <3>2
      <4> HIDE DEF new, blocks
      <4>2. Shared!Become(new)
        BY <4>1, BecomeOwned DEF Shared!Become, Shared!OwnersOf
      <4> QED
        BY <4>2 DEF new
    <3> QED
      BY <2>5, <3>3 DEF ConstructCopy, Construct,
                        Shared!Next, Shared!Construct, Shared!ConstructCopy
  <2>6. ASSUME NEW h \in Handles, NEW o \in alive, ConstructMove(h, o)
        PROVE  Shared!Next
    <3>1. Owned([graph.block EXCEPT ![h] = graph.block[o], ![o] = Null])
      BY <1>2, <2>6, ConstructMoveOwned
    <3>2. [owns EXCEPT ![h] = owns[o], ![o] = Null]
            = [x \in Handles |->
                 [graph.block EXCEPT ![h] = graph.block[o], ![o] = Null][x]]
      BY <2>2 DEF Graph
    <3>3. Shared!Become([owns EXCEPT ![h] = owns[o], ![o] = Null])
      <4> DEFINE new == [owns EXCEPT ![h] = owns[o], ![o] = Null]
                 blocks == [graph.block EXCEPT ![h] = graph.block[o], ![o] = Null]
      <4>1. Inv' /\ Owned(blocks) /\ new = [x \in Handles |-> blocks[x]]
        BY <1>2, <3>1, <3>2
      <4> HIDE DEF new, blocks
      <4>2. Shared!Become(new)
        BY <4>1, BecomeOwned DEF Shared!Become, Shared!OwnersOf
      <4> QED
        BY <4>2 DEF new
    <3> QED
      BY <2>6, <3>3 DEF ConstructMove, Construct,
                        Shared!Next, Shared!Construct, Shared!ConstructMove
  <2>7. ASSUME NEW h \in alive, Destroy(h) \/ Reset(h)
        PROVE  Shared!Next
    <3>1. Owned([graph.block EXCEPT ![h] = Null])
      BY <1>2, <2>7, DetachOwned
    <3>2. [owns EXCEPT ![h] = Null]
            = [x \in Handles |-> [graph.block EXCEPT ![h] = Null][x]]
      BY <2>2 DEF Graph
    <3>3. Shared!Become([owns EXCEPT ![h] = Null])
      <4> DEFINE new == [owns EXCEPT ![h] = Null]
                 blocks == [graph.block EXCEPT ![h] = Null]
      <4>1. Inv' /\ Owned(blocks) /\ new = [x \in Handles |-> blocks[x]]
        BY <1>2, <3>1, <3>2
      <4> HIDE DEF new, blocks
      <4>2. Shared!Become(new)
        BY <4>1, BecomeOwned DEF Shared!Become, Shared!OwnersOf
      <4> QED
        BY <4>2 DEF new
    <3> QED
      BY <2>7, <3>3 DEF Destroy, Reset,
                        Shared!Next, Shared!Destroy, Shared!Assign, Shared!Drop
  <2>8. ASSUME NEW h \in alive, AssignValue(h)
        PROVE  Shared!Next
    <3>1. PICK b \in FreeBlocks : Owned([graph.block EXCEPT ![h] = b])
      BY <1>2, <2>8, AssignValueOwned
    <3>2. [owns EXCEPT ![h] = b] = [x \in Handles |-> [graph.block EXCEPT ![h] = b][x]]
      BY <2>2 DEF Graph
    <3>3. Shared!Become([owns EXCEPT ![h] = b])
      <4> DEFINE new == [owns EXCEPT ![h] = b]
                 blocks == [graph.block EXCEPT ![h] = b]
      <4>1. Inv' /\ Owned(blocks) /\ new = [x \in Handles |-> blocks[x]]
        BY <1>2, <3>1, <3>2
      <4> HIDE DEF new, blocks
      <4>2. Shared!Become(new)
        BY <4>1, BecomeOwned DEF Shared!Become, Shared!OwnersOf
      <4> QED
        BY <4>2 DEF new
    <3> QED
      BY <2>2, <2>8, <3>3 DEF AssignValue, Shared!Next, Shared!Assign, Shared!AssignFresh
  <2>9. ASSUME NEW h \in alive, NEW o \in alive, AssignCopy(h, o)
        PROVE  Shared!Next
    <3>1. Owned([graph.block EXCEPT ![h] = graph.block[o]])
      BY <1>2, <2>9, AssignCopyOwned
    <3>2. [owns EXCEPT ![h] = owns[o]]
            = [x \in Handles |-> [graph.block EXCEPT ![h] = graph.block[o]][x]]
      BY <2>2 DEF Graph
    <3>3. Shared!Become([owns EXCEPT ![h] = owns[o]])
      <4> DEFINE new == [owns EXCEPT ![h] = owns[o]]
                 blocks == [graph.block EXCEPT ![h] = graph.block[o]]
      <4>1. Inv' /\ Owned(blocks) /\ new = [x \in Handles |-> blocks[x]]
        BY <1>2, <3>1, <3>2
      <4> HIDE DEF new, blocks
      <4>2. Shared!Become(new)
        BY <4>1, BecomeOwned DEF Shared!Become, Shared!OwnersOf
      <4> QED
        BY <4>2 DEF new
    <3> QED
      BY <2>9, <3>3 DEF AssignCopy, Shared!Next, Shared!Assign, Shared!AssignCopy
  <2>10. ASSUME NEW h \in alive, NEW o \in alive, AssignMove(h, o), h # o
         PROVE  Shared!Next
    <3>1. Owned([graph.block EXCEPT ![h] = graph.block[o], ![o] = Null])
      BY <1>2, <2>10, AssignMoveOwned
    <3>2. [owns EXCEPT ![h] = owns[o], ![o] = Null]
            = [x \in Handles |->
                 [graph.block EXCEPT ![h] = graph.block[o], ![o] = Null][x]]
      BY <2>2 DEF Graph
    <3>3. Shared!Become([owns EXCEPT ![h] = owns[o], ![o] = Null])
      <4> DEFINE new == [owns EXCEPT ![h] = owns[o], ![o] = Null]
                 blocks == [graph.block EXCEPT ![h] = graph.block[o], ![o] = Null]
      <4>1. Inv' /\ Owned(blocks) /\ new = [x \in Handles |-> blocks[x]]
        BY <1>2, <3>1, <3>2
      <4> HIDE DEF new, blocks
      <4>2. Shared!Become(new)
        BY <4>1, BecomeOwned DEF Shared!Become, Shared!OwnersOf
      <4> QED
        BY <4>2 DEF new
    <3> QED
      BY <2>10, <3>3 DEF AssignMove, Shared!Next, Shared!Assign, Shared!AssignMove
  <2>11. ASSUME NEW h \in alive, AssignMove(h, h)
         PROVE  UNCHANGED vars
    BY <2>11 DEF AssignMove, vars
  <2>12. ASSUME NEW h \in alive, NEW o \in alive, SwapWith(h, o)
         PROVE  Shared!Next
    <3>1. Owned([graph.block EXCEPT ![h] = graph.block[o], ![o] = graph.block[h]])
      BY <1>2, <2>12, SwapOwned
    <3>2. [owns EXCEPT ![h] = owns[o], ![o] = owns[h]]
            = [x \in Handles |->
                 [graph.block EXCEPT ![h] = graph.block[o], ![o] = graph.block[h]][x]]
      BY <2>2 DEF Graph
    <3>3. Shared!Become([owns EXCEPT ![h] = owns[o], ![o] = owns[h]])
      <4> DEFINE new == [owns EXCEPT ![h] = owns[o], ![o] = owns[h]]
                 blocks == [graph.block EXCEPT ![h] = graph.block[o], ![o] = graph.block[h]]
      <4>1. Inv' /\ Owned(blocks) /\ new = [x \in Handles |-> blocks[x]]
        BY <1>2, <3>1, <3>2
      <4> HIDE DEF new, blocks
      <4>2. Shared!Become(new)
        BY <4>1, BecomeOwned DEF Shared!Become, Shared!OwnersOf
      <4> QED
        BY <4>2 DEF new
    <3> QED
      BY <2>12, <3>3 DEF SwapWith, Shared!Next, Shared!Assign, Shared!Exchange
  <2>13. CASE Next
    BY <2>1, <2>3, <2>4, <2>5, <2>6, <2>7, <2>8, <2>9, <2>10, <2>11, <2>12, <2>13
       DEF Next
  <2> QED
    BY <1>2, <2>1, <2>13
<1> QED
  BY <1>1, <1>2, Invariance, PTL DEF Spec, ImplementsSharedBlocks, Shared!Spec

=============================================================================

--------------------------- MODULE OwnedListProofs ---------------------------
(***************************************************************************)
(* OwnedList for any number of lists, nodes and allocators of any kinds.   *)
(* Every object is the head of a path to Null; the paths do not meet; and  *)
(* each step of a call moves nodes from one to the other in a way that the *)
(* steps left over (todo) account for.                                     *)
(***************************************************************************)
EXTENDS OwnedList, SequenceTheorems, FiniteSetTheorems, WellFoundedInduction, TLAPS

-----------------------------------------------------------------------------
(* Traversals.  The prover has no induction, but every non-empty set of    *)
(* numbers has a least element.                                            *)

LEMMA Least ==
  ASSUME NEW T, T \subseteq Nat, T # {}
  PROVE  \E n \in T : \A m \in T : n <= m
<1>1. PICK n \in T : \A m \in T : ~(<<m, n>> \in OpToRel(<, Nat))
  BY NatLessThanWellFounded, WFMin
<1>2. \A m \in T : ~(m < n)
  BY <1>1 DEF OpToRel
<1> QED
  BY <1>2

\* The equation of the function inside Traversal, up to k steps.
StepsTo(steps, m, top) ==
  steps = [k \in 0..top |->
             [p \in Nodes \cup {Null} |->
                IF k = 0 \/ p = Null THEN <<>> ELSE <<p>> \o steps[k - 1][m[p].next]]]

LEMMA StepsExist ==
  ASSUME NEW m, NEW top \in Nat
  PROVE  \E steps : StepsTo(steps, m, top)
<1> DEFINE Bad == {k \in Nat : ~\E s : StepsTo(s, m, k)}
<1>1. SUFFICES ASSUME Bad # {} PROVE FALSE
  OBVIOUS
<1>2. PICK n \in Bad : \A k \in Bad : n <= k
  BY <1>1, Least
<1>3. CASE n = 0
  <2> DEFINE s == [k \in 0..0 |-> [p \in Nodes \cup {Null} |-> <<>>]]
  <2>1. StepsTo(s, m, 0)
    BY DEF StepsTo
  <2> QED
    BY <1>2, <1>3, <2>1
<1>4. CASE n # 0
  <2>1. n - 1 \in Nat /\ n - 1 \notin Bad
    BY <1>2, <1>4
  <2>2. PICK u : StepsTo(u, m, n - 1)
    BY <2>1
  <2> DEFINE s == [k \in 0..n |-> [p \in Nodes \cup {Null} |->
                     IF k = 0 \/ p = Null THEN <<>> ELSE <<p>> \o u[k - 1][m[p].next]]]
  <2>3. ASSUME NEW k \in 0..(n - 1)
        PROVE  s[k] = u[k]
    <3>1. u = [j \in 0..(n - 1) |-> [p \in Nodes \cup {Null} |->
                 IF j = 0 \/ p = Null THEN <<>> ELSE <<p>> \o u[j - 1][m[p].next]]]
      BY <2>2 DEF StepsTo
    <3> HIDE DEF s
    <3>2. u[k] = [p \in Nodes \cup {Null} |->
                    IF k = 0 \/ p = Null THEN <<>> ELSE <<p>> \o u[k - 1][m[p].next]]
      BY <3>1
    <3>3. k \in 0..n
      BY <2>1
    <3> QED
      BY <3>2, <3>3 DEF s
  <2>4. ASSUME NEW k \in 0..n, NEW p \in Nodes \cup {Null}
        PROVE  s[k][p] = IF k = 0 \/ p = Null THEN <<>> ELSE <<p>> \o s[k - 1][m[p].next]
    <3>1. CASE k = 0
      BY <3>1
    <3>2. CASE k # 0
      <4>1. k - 1 \in 0..(n - 1)
        BY <2>1, <3>2
      <4>2. s[k - 1] = u[k - 1]
        BY <2>3, <4>1
      <4> QED
        BY <4>2
    <3> QED
      BY <3>1, <3>2
  <2>5. StepsTo(s, m, n)
    BY <2>4 DEF StepsTo
  <2> QED
    BY <1>2, <2>5
<1> QED
  BY <1>3, <1>4

\* s is the way from p to Null in memory m, and does not come back to a node.
Path(m, p, s) ==
  /\ s \in Seq(Nodes)
  /\ \A i, j \in 1..Len(s) : s[i] = s[j] => i = j
  /\ p = IF s = <<>> THEN Null ELSE s[1]
  /\ \A i \in 1..Len(s) : m[s[i]].next = IF i = Len(s) THEN Null ELSE s[i + 1]

On(s) == {s[i] : i \in DOMAIN s}

\* No path is longer than there are nodes.
LEMMA PathCardinality ==
  ASSUME NEW m, NEW p, NEW s, Path(m, p, s)
  PROVE  /\ Cardinality(On(s)) = Len(s) /\ Len(s) <= Cardinality(Nodes)
<1>1. /\ Len(s) \in Nat /\ s \in [1..Len(s) -> Nodes] /\ DOMAIN s = 1..Len(s)
  BY LenProperties DEF Path
<1>2. On(s) \subseteq Nodes /\ IsFiniteSet(On(s)) /\ Cardinality(On(s)) <= Cardinality(Nodes)
  <2>1. On(s) \subseteq Nodes
    BY <1>1 DEF On
  <2> QED
    BY <2>1, ListAssumption, FS_Subset
<1>3. s \in Bijection(1..Len(s), On(s))
  <2>1. s \in [1..Len(s) -> On(s)]
    BY <1>1 DEF On
  <2>2. \A i, j \in 1..Len(s) : s[i] = s[j] => i = j
    BY DEF Path
  <2>3. \A n \in On(s) : \E i \in 1..Len(s) : s[i] = n
    BY <1>1 DEF On
  <2> QED
    BY <2>1, <2>2, <2>3 DEF Bijection, Injection, Surjection, IsInjective
<1>4. Cardinality(On(s)) = Len(s)
  <2>1. IsFiniteSet(1..Len(s)) /\ Cardinality(1..Len(s)) = Len(s)
    BY <1>1, FS_Interval
  <2>2. ExistsBijection(1..Len(s), On(s))
    BY <1>3 DEF ExistsBijection
  <2> QED
    BY <2>1, <2>2, FS_Bijection
<1> QED
  BY <1>2, <1>4

\* A path without its first node.
LEMMA PathTail ==
  ASSUME NEW m, NEW m2, NEW p, NEW s, Path(m, p, s), s # <<>>,
         \A i \in 2..Len(s) : m2[s[i]].next = m[s[i]].next
  PROVE  /\ Path(m2, m[p].next, Tail(s))
         /\ On(Tail(s)) = On(s) \ {p} /\ p \in On(s) /\ p \in Nodes
         /\ Len(Tail(s)) = Len(s) - 1 /\ p = s[1]
         /\ \A i \in 1..Len(Tail(s)) : Tail(s)[i] = s[i + 1]
<1> DEFINE t == Tail(s)
<1>1. /\ s \in Seq(Nodes) /\ Len(s) \in Nat \ {0} /\ DOMAIN s = 1..Len(s)
      /\ \A i \in 1..Len(s) : s[i] \in Nodes
      /\ p = s[1]
  BY EmptySeq, LenProperties, ElementOfSeq DEF Path
<1>2. /\ t \in Seq(Nodes) /\ Len(t) \in Nat /\ Len(t) = Len(s) - 1
      /\ DOMAIN t = 1..Len(t)
      /\ \A i \in 1..Len(t) : t[i] = s[i + 1]
  BY <1>1, HeadTailProperties, LenProperties
<1> HIDE DEF t
<1>3. \A i \in 1..Len(t) : m2[t[i]].next = IF i = Len(t) THEN Null ELSE t[i + 1]
  <2> SUFFICES ASSUME NEW i \in 1..Len(t)
               PROVE  m2[t[i]].next = IF i = Len(t) THEN Null ELSE t[i + 1]
    OBVIOUS
  <2>1. i + 1 \in 2..Len(s) /\ i + 1 \in 1..Len(s) /\ t[i] = s[i + 1]
    BY <1>1, <1>2
  <2>2. m2[t[i]].next = IF i + 1 = Len(s) THEN Null ELSE s[(i + 1) + 1]
    BY <2>1 DEF Path
  <2>3. CASE i = Len(t)
    BY <1>1, <1>2, <2>2, <2>3
  <2>4. CASE i # Len(t)
    <3>1. i + 1 \in 1..Len(t)
      <4>1. Len(t) \in Nat
        BY <1>2
      <4> QED
        BY <2>4, <4>1
    <3>2. t[i + 1] = s[(i + 1) + 1]
      BY <1>2, <3>1
    <3>3. i + 1 # Len(s)
      <4>1. Len(t) \in Nat /\ Len(s) \in Nat /\ Len(t) = Len(s) - 1
        BY <1>1, <1>2
      <4> QED
        BY <2>4, <4>1
    <3> QED
      BY <2>2, <2>4, <3>2, <3>3
  <2> QED
    BY <2>3, <2>4
<1>4. \A i, j \in 1..Len(t) : t[i] = t[j] => i = j
  <2> SUFFICES ASSUME NEW i \in 1..Len(t), NEW j \in 1..Len(t), t[i] = t[j]
               PROVE  i = j
    OBVIOUS
  <2>1. i + 1 \in 1..Len(s) /\ j + 1 \in 1..Len(s) /\ s[i + 1] = s[j + 1]
    BY <1>1, <1>2
  <2> QED
    BY <1>2, <2>1 DEF Path
<1>5. m[p].next = IF t = <<>> THEN Null ELSE t[1]
  <2>1. 1 \in 1..Len(s)
    <3>1. Len(s) \in Nat \ {0}
      BY <1>1
    <3> QED
      BY <3>1
  <2>2. m[p].next = IF 1 = Len(s) THEN Null ELSE s[1 + 1]
    BY <1>1, <2>1 DEF Path
  <2>3. t = <<>> <=> Len(t) = 0
    BY <1>2, EmptySeq
  <2>4. Len(t) # 0 => 1 \in 1..Len(t)
    <3>1. Len(t) \in Nat
      BY <1>2
    <3> QED
      BY <3>1
  <2>5. Len(t) = 0 <=> 1 = Len(s)
    BY <1>1, <1>2
  <2> QED
    BY <1>2, <2>2, <2>3, <2>4, <2>5
<1>6. On(t) = On(s) \ {p}
  <2>1. ASSUME NEW n \in On(t) PROVE n \in On(s) /\ n # p
    <3>1. PICK i \in 1..Len(t) : n = s[i + 1]
      BY <1>2 DEF On
    <3>2. i + 1 \in 1..Len(s) /\ 1 \in 1..Len(s) /\ i + 1 # 1
      BY <1>1, <1>2
    <3> QED
      BY <1>1, <3>1, <3>2 DEF On, Path
  <2>2. ASSUME NEW n \in On(s), n # p PROVE n \in On(t)
    <3>1. PICK i \in 1..Len(s) : n = s[i]
      BY <1>1 DEF On
    <3>2. i # 1
      BY <1>1, <2>2, <3>1
    <3>3. i - 1 \in 1..Len(t)
      BY <1>1, <1>2, <3>2
    <3>4. t[i - 1] = s[(i - 1) + 1] /\ (i - 1) + 1 = i
      BY <1>2, <3>3
    <3> QED
      BY <1>2, <3>1, <3>3, <3>4 DEF On
  <2> QED
    BY <2>1, <2>2
<1>7. p \in On(s) /\ p \in Nodes
  BY <1>1 DEF On
<1> QED
  BY <1>1, <1>2, <1>3, <1>4, <1>5, <1>6, <1>7 DEF Path, t

\* A traversal meets the nodes of a path, one after the other.
LEMMA TraversalFindsPath ==
  ASSUME NEW m, NEW p, NEW s, Path(m, p, s)
  PROVE  Traversal(m)[p] = s
<1> DEFINE top == Cardinality(Nodes)
           steps == CHOOSE f : f = [k \in 0..top |->
                       [q \in Nodes \cup {Null} |->
                          IF k = 0 \/ q = Null THEN <<>> ELSE <<q>> \o f[k - 1][m[q].next]]]
<1>1. top \in Nat
  BY ListAssumption, FS_CardinalityType
<1>2. Traversal(m) = steps[top]
  BY DEF Traversal
<1>3. steps = [k \in 0..top |->
                 [q \in Nodes \cup {Null} |->
                    IF k = 0 \/ q = Null THEN <<>> ELSE <<q>> \o steps[k - 1][m[q].next]]]
  BY <1>1, StepsExist DEF StepsTo
<1> HIDE DEF steps
<1>4. \A k \in 0..top, q \in Nodes \cup {Null} :
        steps[k][q] = IF k = 0 \/ q = Null THEN <<>> ELSE <<q>> \o steps[k - 1][m[q].next]
  <2> HIDE DEF top
  <2>1. ASSUME NEW k \in 0..top
        PROVE  steps[k] = [q \in Nodes \cup {Null} |->
                  IF k = 0 \/ q = Null THEN <<>> ELSE <<q>> \o steps[k - 1][m[q].next]]
    BY <1>3
  <2> QED
    BY <2>1
<1> HIDE DEF top
<1> DEFINE Bad == {k \in 0..top : \E q, t : Path(m, q, t) /\ Len(t) <= k /\ steps[k][q] # t}
<1>5. Bad = {}
  <2>1. SUFFICES ASSUME Bad # {} PROVE FALSE
    OBVIOUS
  <2>2. PICK n \in Bad : \A k \in Bad : n <= k
    <3>1. Bad \subseteq Nat
      OBVIOUS
    <3> HIDE DEF Bad
    <3> QED
      BY <2>1, <3>1, Least
  <2>3. PICK q, t : Path(m, q, t) /\ Len(t) <= n /\ steps[n][q] # t
    BY <2>2
  <2>4. t \in Seq(Nodes) /\ Len(t) \in Nat
    BY <2>3, LenProperties DEF Path
  <2>5. CASE t = <<>>
    <3>1. q = Null
      BY <2>3, <2>5 DEF Path
    <3> QED
      BY <1>4, <2>2, <2>3, <2>5, <3>1
  <2>6. CASE t # <<>>
    <3>1. /\ Path(m, m[q].next, Tail(t)) /\ Len(Tail(t)) = Len(t) - 1 /\ q \in Nodes
          /\ q = t[1]
      BY <2>3, <2>6, PathTail
    <3>2. n \in Nat \ {0} /\ n - 1 \in 0..top /\ Len(t) - 1 <= n - 1
      BY <1>1, <2>2, <2>3, <2>4, <2>6, EmptySeq
    <3>3. steps[n - 1][m[q].next] = Tail(t)
      <4>1. n - 1 \notin Bad
        BY <2>2, <3>2
      <4> QED
        BY <3>1, <3>2, <4>1
    <3>4. steps[n][q] = <<q>> \o Tail(t)
      <4>1. q # Null /\ n # 0 /\ n \in 0..top /\ q \in Nodes \cup {Null}
        BY <2>2, <3>1, <3>2, ListAssumption
      <4>2. steps[n][q] = <<q>> \o steps[n - 1][m[q].next]
        BY <1>4, <4>1
      <4> QED
        BY <3>3, <4>2
    <3>5. <<q>> \o Tail(t) = t
      BY <2>4, <2>6, <3>1
    <3> QED
      BY <2>3, <3>4, <3>5
  <2> QED
    BY <2>5, <2>6
<1>6. Len(s) <= top
  BY PathCardinality DEF top
<1>7. top \in 0..top
  BY <1>1
<1> QED
  BY <1>2, <1>5, <1>6, <1>7

\* Memory that is changed elsewhere leaves a path as it is.
LEMMA PathKept ==
  ASSUME NEW m, NEW m2, NEW p, NEW s, Path(m, p, s),
         \A n \in On(s) : m2[n].next = m[n].next
  PROVE  Path(m2, p, s)
<1>1. \A i \in 1..Len(s) : s[i] \in On(s)
  BY LenProperties DEF Path, On
<1> QED
  BY <1>1 DEF Path

\* One more node in front.
LEMMA PathPush ==
  ASSUME NEW m, NEW m2, NEW p, NEW s, Path(m, p, s), NEW n \in Nodes \ On(s),
         m2[n].next = p, \A k \in On(s) : m2[k].next = m[k].next
  PROVE  /\ Path(m2, n, <<n>> \o s)
         /\ On(<<n>> \o s) = On(s) \cup {n}
         /\ Len(<<n>> \o s) = Len(s) + 1
         /\ \A i \in 1..(Len(s) + 1) : (<<n>> \o s)[i] = IF i = 1 THEN n ELSE s[i - 1]
<1> DEFINE t == <<n>> \o s
<1>1. /\ s \in Seq(Nodes) /\ Len(s) \in Nat /\ DOMAIN s = 1..Len(s)
      /\ \A i \in 1..Len(s) : s[i] \in On(s)
  BY LenProperties DEF Path, On
<1>2. /\ t \in Seq(Nodes) /\ Len(t) = Len(s) + 1 /\ DOMAIN t = 1..Len(t)
      /\ \A i \in 1..(Len(s) + 1) : t[i] = IF i = 1 THEN n ELSE s[i - 1]
  <2>1. <<n>> \in Seq(Nodes) /\ Len(<<n>>) = 1 /\ <<n>>[1] = n
    OBVIOUS
  <2>2. /\ t \in Seq(Nodes) /\ Len(t) = 1 + Len(s)
        /\ \A i \in 1..(1 + Len(s)) : t[i] = IF i <= 1 THEN <<n>>[i] ELSE s[i - 1]
    BY <1>1, <2>1, ConcatProperties
  <2> HIDE DEF t
  <2>3. DOMAIN t = 1..Len(t)
    BY <2>2, LenProperties
  <2> QED
    BY <1>1, <2>1, <2>2, <2>3
<1> HIDE DEF t
<1>3. On(t) = On(s) \cup {n}
  <2>1. ASSUME NEW k \in On(t), k # n PROVE k \in On(s)
    <3>1. PICK i \in 1..(Len(s) + 1) : k = t[i]
      BY <1>2 DEF On
    <3>2. i # 1 /\ k = s[i - 1]
      BY <1>2, <2>1, <3>1
    <3>3. i - 1 \in 1..Len(s)
      BY <1>1, <3>2
    <3> QED
      BY <1>1, <3>2, <3>3 DEF On
  <2>2. n \in On(t)
    BY <1>1, <1>2 DEF On
  <2>3. ASSUME NEW k \in On(s) PROVE k \in On(t)
    <3>1. PICK i \in 1..Len(s) : k = s[i]
      BY <1>1 DEF On
    <3>2. i + 1 \in 1..Len(t) /\ t[i + 1] = s[(i + 1) - 1] /\ (i + 1) - 1 = i
      BY <1>1, <1>2
    <3> QED
      BY <1>2, <3>1, <3>2 DEF On
  <2> QED
    BY <2>1, <2>2, <2>3
<1>4. \A i, j \in 1..Len(t) : t[i] = t[j] => i = j
  <2> SUFFICES ASSUME NEW i \in 1..Len(t), NEW j \in 1..Len(t), t[i] = t[j]
               PROVE  i = j
    OBVIOUS
  <2>1. \A k \in 1..Len(t) : k # 1 => k - 1 \in 1..Len(s)
    BY <1>1, <1>2
  <2>2. \A k \in 1..Len(t) : k # 1 => t[k] = s[k - 1] /\ t[k] \in On(s)
    BY <1>1, <1>2, <2>1
  <2>3. t[1] = n
    BY <1>1, <1>2
  <2>4. CASE i = 1 \/ j = 1
    BY <2>2, <2>3, <2>4
  <2>5. CASE i # 1 /\ j # 1
    <3>1. i - 1 = j - 1
      BY <2>1, <2>2, <2>5 DEF Path
    <3> QED
      BY <3>1
  <2> QED
    BY <2>4, <2>5
<1>5. \A i \in 1..Len(t) : m2[t[i]].next = IF i = Len(t) THEN Null ELSE t[i + 1]
  <2> SUFFICES ASSUME NEW i \in 1..Len(t)
               PROVE  m2[t[i]].next = IF i = Len(t) THEN Null ELSE t[i + 1]
    OBVIOUS
  <2>1. CASE i = 1
    <3>1. m2[t[i]].next = p
      BY <1>1, <1>2, <2>1
    <3>2. CASE s = <<>>
      BY <1>2, <2>1, <3>1, <3>2 DEF Path
    <3>3. CASE s # <<>>
      <4>1. Len(s) # 0 /\ p = s[1]
        BY <1>1, <3>3, EmptySeq DEF Path
      <4>2. 2 \in 1..Len(t) /\ t[2] = s[1]
        BY <1>1, <1>2, <4>1
      <4> QED
        BY <1>1, <1>2, <2>1, <3>1, <4>1, <4>2
    <3> QED
      BY <3>2, <3>3
  <2>2. CASE i # 1
    <3>1. i - 1 \in 1..Len(s) /\ t[i] = s[i - 1]
      BY <1>1, <1>2, <2>2
    <3>2. m2[t[i]].next = IF i - 1 = Len(s) THEN Null ELSE s[(i - 1) + 1]
      BY <1>1, <3>1 DEF Path
    <3>3. i # Len(t) => t[i + 1] = s[(i + 1) - 1]
      BY <1>1, <1>2
    <3> QED
      BY <1>1, <1>2, <3>1, <3>2, <3>3
  <2> QED
    BY <2>1, <2>2
<1>6. t # <<>> /\ t[1] = n
  BY <1>1, <1>2
<1> QED
  BY <1>2, <1>3, <1>4, <1>5, <1>6 DEF Path, t

LEMMA OnAppend ==
  ASSUME NEW s \in Seq(Nodes), NEW n \in Nodes
  PROVE  On(Append(s, n)) = On(s) \cup {n}
<1> DEFINE t == Append(s, n)
<1>1. Len(s) \in Nat /\ DOMAIN s = 1..Len(s)
  BY LenProperties
<1>2. /\ Len(t) = Len(s) + 1 /\ DOMAIN t = 1..Len(t)
      /\ \A i \in 1..Len(s) : t[i] = s[i]
      /\ t[Len(s) + 1] = n
  BY AppendProperties, LenProperties
<1> HIDE DEF t
<1>3. \A i \in 1..Len(t) : i \in 1..Len(s) \/ i = Len(s) + 1
  BY <1>1, <1>2
<1>4. \A i \in 1..Len(s) : i \in 1..Len(t)
  BY <1>1, <1>2
<1>5. Len(s) + 1 \in 1..Len(t)
  BY <1>1, <1>2
<1>6. On(t) = On(s) \cup {n}
  BY <1>1, <1>2, <1>3, <1>4, <1>5 DEF On
<1> QED
  BY <1>6 DEF t

\* m2 is memory m with n linked to the last node of s.
Linked(m, m2, s, n) ==
  /\ n \in Nodes \ On(s)
  /\ m2[n].next = Null
  /\ s # <<>> => m2[s[Len(s)]].next = n
  /\ \A i \in 1..(Len(s) - 1) : m2[s[i]].next = m[s[i]].next

\* One more node at the end.
LEMMA PathAppend ==
  ASSUME NEW m, NEW m2, NEW p, NEW s, Path(m, p, s), NEW n, Linked(m, m2, s, n)
  PROVE  /\ Path(m2, IF s = <<>> THEN n ELSE p, Append(s, n))
         /\ Len(Append(s, n)) = Len(s) + 1
         /\ \A i \in 1..(Len(s) + 1) : Append(s, n)[i] = IF i = Len(s) + 1 THEN n ELSE s[i]
<1> DEFINE t == Append(s, n)
<1>a. n \in Nodes /\ n \notin On(s)
  BY DEF Linked
<1>b. m2[n].next = Null /\ (s # <<>> => m2[s[Len(s)]].next = n)
  BY DEF Linked
<1>c. \A i \in 1..(Len(s) - 1) : m2[s[i]].next = m[s[i]].next
  BY DEF Linked
<1>1. /\ s \in Seq(Nodes) /\ Len(s) \in Nat /\ DOMAIN s = 1..Len(s)
      /\ \A i \in 1..Len(s) : s[i] \in On(s)
  BY LenProperties DEF Path, On
<1>2. /\ t \in Seq(Nodes) /\ Len(t) = Len(s) + 1 /\ DOMAIN t = 1..Len(t)
      /\ \A i \in 1..Len(s) : t[i] = s[i]
      /\ t[Len(s) + 1] = n /\ t # <<>>
  BY <1>1, <1>a, AppendProperties, LenProperties
<1> HIDE DEF t
<1>4. \A i, j \in 1..Len(t) : t[i] = t[j] => i = j
  <2> SUFFICES ASSUME NEW i \in 1..Len(t), NEW j \in 1..Len(t), t[i] = t[j]
               PROVE  i = j
    OBVIOUS
  <2>1. \A k \in 1..Len(t) : k \in 1..Len(s) \/ k = Len(s) + 1
    BY <1>1, <1>2
  <2>2. ASSUME NEW k \in 1..Len(s) PROVE t[k] = s[k] /\ t[k] # n
    <3>1. t[k] = s[k] /\ s[k] \in On(s)
      BY <1>1, <1>2
    <3> QED
      BY <1>a, <3>1
  <2>3. CASE i \in 1..Len(s) /\ j \in 1..Len(s)
    BY <2>2, <2>3 DEF Path
  <2> QED
    BY <1>2, <2>1, <2>2, <2>3
<1>5. \A i \in 1..Len(t) : m2[t[i]].next = IF i = Len(t) THEN Null ELSE t[i + 1]
  <2> SUFFICES ASSUME NEW i \in 1..Len(t)
               PROVE  m2[t[i]].next = IF i = Len(t) THEN Null ELSE t[i + 1]
    OBVIOUS
  <2>1. CASE i = Len(s) + 1
    BY <1>1, <1>2, <1>b, <2>1
  <2>2. CASE i = Len(s)
    <3>1. s # <<>> /\ t[i] = s[Len(s)] /\ i \in 1..Len(s)
      BY <1>1, <1>2, <2>2
    <3> QED
      BY <1>1, <1>2, <1>b, <2>2, <3>1
  <2>3. CASE i \in 1..(Len(s) - 1)
    <3>1. i \in 1..Len(s) /\ i + 1 \in 1..Len(s) /\ i # Len(s) /\ i # Len(t)
      <4>1. Len(s) \in Nat /\ Len(t) = Len(s) + 1
        BY <1>1, <1>2
      <4> QED
        BY <2>3, <4>1
    <3>2. m[s[i]].next = s[i + 1]
      BY <3>1 DEF Path
    <3>3. t[i] = s[i] /\ t[i + 1] = s[i + 1]
      BY <1>2, <3>1
    <3> QED
      BY <1>c, <2>3, <3>1, <3>2, <3>3
  <2>4. i = Len(s) + 1 \/ i = Len(s) \/ i \in 1..(Len(s) - 1)
    <3>1. Len(s) \in Nat /\ i \in 1..(Len(s) + 1)
      BY <1>1, <1>2
    <3> QED
      BY <3>1
  <2> QED
    BY <2>1, <2>2, <2>3, <2>4
<1>6. t[1] = IF s = <<>> THEN n ELSE p
  <2>1. CASE s = <<>>
    BY <1>2, <2>1
  <2>2. CASE s # <<>>
    <3>1. Len(s) \in Nat \ {0}
      BY <1>1, <2>2, EmptySeq
    <3>2. 1 \in 1..Len(s)
      BY <3>1
    <3> QED
      BY <1>2, <2>2, <3>2 DEF Path
  <2> QED
    BY <2>1, <2>2
<1>7. Path(m2, IF s = <<>> THEN n ELSE p, t)
  BY <1>2, <1>4, <1>5, <1>6 DEF Path
<1>8. \A i \in 1..(Len(s) + 1) : t[i] = IF i = Len(s) + 1 THEN n ELSE s[i]
  <2>1. \A i \in 1..(Len(s) + 1) : i \in 1..Len(s) \/ i = Len(s) + 1
    BY <1>1
  <2> QED
    BY <1>1, <1>2, <2>1
<1> QED
  BY <1>2, <1>7, <1>8 DEF t

-----------------------------------------------------------------------------
(* The invariant.                                                          *)

Types ==
  /\ kind \in Kinds
  /\ alive \subseteq Lists
  /\ list \in [Objects -> [head : Nodes \cup {Null}, size : Nat,
                           allocator : Allocators \cup {Null}]]
  /\ node \in [Nodes -> [next : Nodes \cup {Null}, value : Values \cup {Moved, Null},
                         madeBy : Allocators \cup {Null}]]
  /\ threw \in BOOLEAN
  /\ contents \in [Lists -> Seq(Values \cup {Moved})]

\* Every object is the head of a path of its own, through elements its own
\* allocator has made; what is off the paths is free, or of an arena.
Heap ==
  /\ \A x \in Objects : Path(node, list[x].head, Chain(x))
  /\ \A x, y \in Objects : x # y => ChainNodes(x) \cap ChainNodes(y) = {}
  /\ \A x \in Objects : \A n \in ChainNodes(x) :
       node[n].value # Null /\ node[n].madeBy = list[x].allocator /\ node[n].madeBy # Null
  /\ ~kind.arena => \A n \in Nodes :
       node[n].madeBy # Null => \E x \in Objects : n \in ChainNodes(x)

\* A list that is being cleared is counted again in the end.
Sized ==
  \A x \in Objects :
    list[x].size = Len(Chain(x)) \/ (Doing("clear") /\ Head(todo).list = x)

IsEmpty(x) == list[x].head = Null

SameAllocator(x, y) == list[x].allocator = list[y].allocator

\* The call has not touched the lists that are not in S.
Untouched(S) == \A y \in Lists \ S : ValuesOf(y) = contents[y]

AllValues == [y \in Lists |-> ValuesOf(y)]

\* The call has had its effect, or will have had none.
Done ==
  /\ AllValues = Service!Effect(call)
  /\ ~(call.op = "pop" /\ contents[call.list] = <<>>)

Thrown ==
  /\ call.op \in {"constructCopy", "assignCopy", "assignMove", "push", "pop"}
  /\ call.op = "pop" => contents[call.list] = <<>>
  /\ IF call.op = "assignMove"
     THEN \E k \in 0..Len(contents[call.other]) :
            AllValues = [contents EXCEPT ![call.other] = Service!MovedFrom(@, k)]
     ELSE AllValues = contents

Finished == IF threw THEN Thrown ELSE Done

-----------------------------------------------------------------------------
(* Where a call can be.                                                    *)

\* Between two calls.
Resting ==
  /\ call = NoCall /\ todo = <<>> /\ ~threw
  /\ Untouched({})
  /\ \A x \in Objects \ alive : list[x] = NoList
  /\ \A x \in alive : list[x].allocator # Null

AtReturn == todo = <<>> /\ Finished /\ IsEmpty(Temp)

AtPush ==
  /\ call.op = "push" /\ todo = <<Do("push", call.list)>>
  /\ ~threw /\ Untouched({}) /\ IsEmpty(Temp)

AtPop ==
  /\ call.op = "pop" /\ todo = <<Do("pop", call.list)>>
  /\ ~threw /\ Untouched({}) /\ IsEmpty(Temp)

AtClear ==
  /\ call.op \in {"clear", "destroy"} /\ todo = <<Do("clear", call.list)>>
  /\ ~threw /\ Untouched({call.list}) /\ IsEmpty(Temp)

\* As many elements have been copied or moved to x as it has.
Filling(x, how) ==
  LET done == Len(Chain(x))
      from == Chain(call.other)
  IN  [step |-> "fill", list |-> x, how |-> how,
       source |-> IF done = Len(from) THEN Null ELSE from[done + 1],
       tail |-> IF done = 0 THEN Null ELSE Chain(x)[done]]

\* They are the first of the source's.
Partly(x) ==
  /\ Len(Chain(x)) <= Len(contents[call.other])
  /\ \A i \in 1..Len(Chain(x)) : ValuesOf(x)[i] = contents[call.other][i]

AtConstructFill ==
  /\ call.op = "constructCopy" /\ todo = <<Filling(call.list, "copy")>>
  /\ Partly(call.list)
  /\ ~threw /\ Untouched({call.list}) /\ IsEmpty(Temp)

AtConstructUndo ==
  /\ call.op = "constructCopy" /\ todo = <<Do("clear", call.list)>>
  /\ threw /\ Untouched({call.list}) /\ IsEmpty(Temp)

\* The last step of an assignment, of one that throws, too.
AtTempClear ==
  /\ call.op \in {"assignCopy", "assignMove"} /\ todo = <<Do("clear", Temp)>>
  /\ Finished

Copying == call.op = "assignCopy" /\ call.list # call.other /\ ~threw

AtCopyFill ==
  /\ Copying
  /\ todo = <<Filling(Temp, "copy"), Do2("swap", call.list, Temp), Do("clear", Temp)>>
  /\ Partly(Temp) /\ SameAllocator(call.list, Temp)
  /\ Untouched({})

AtCopySwap ==
  /\ Copying
  /\ todo = <<Do2("swap", call.list, Temp), Do("clear", Temp)>>
  /\ ValuesOf(Temp) = contents[call.other] /\ SameAllocator(call.list, Temp)
  /\ Untouched({})

Moving == call.op = "assignMove" /\ call.list # call.other /\ ~threw

Stealing == Moving /\ Untouched({call.list}) /\ IsEmpty(Temp)

AtStealClear ==
  /\ Stealing
  /\ \/ todo = <<Do("clear", call.list), Do2("takeAllocator", call.list, call.other),
                 Do2("steal", call.list, call.other)>>
     \/ /\ todo = <<Do("clear", call.list), Do2("steal", call.list, call.other)>>
        /\ SameAllocator(call.list, call.other)

AtTakeAllocator ==
  /\ Stealing
  /\ todo = <<Do2("takeAllocator", call.list, call.other),
              Do2("steal", call.list, call.other)>>
  /\ IsEmpty(call.list)

AtSteal ==
  /\ Stealing
  /\ todo = <<Do2("steal", call.list, call.other)>>
  /\ IsEmpty(call.list) /\ SameAllocator(call.list, call.other)

AtMoveFill ==
  /\ Moving
  /\ todo = <<Filling(Temp, "move"), Do("clear", call.list),
              Do2("swap", call.list, Temp), Do("clear", call.other), Do("clear", Temp)>>
  /\ Partly(Temp) /\ SameAllocator(call.list, Temp)
  /\ Untouched({call.other})
  /\ ValuesOf(call.other) = Service!MovedFrom(contents[call.other], Len(Chain(Temp)))

Replacing ==
  /\ Moving
  /\ ValuesOf(Temp) = contents[call.other] /\ SameAllocator(call.list, Temp)
  /\ Untouched({call.list, call.other})

AtMoveClear ==
  /\ Replacing
  /\ todo = <<Do("clear", call.list), Do2("swap", call.list, Temp),
              Do("clear", call.other), Do("clear", Temp)>>

AtMoveSwap ==
  /\ Replacing
  /\ todo = <<Do2("swap", call.list, Temp), Do("clear", call.other), Do("clear", Temp)>>
  /\ IsEmpty(call.list)

AtSourceClear ==
  /\ Moving
  /\ todo = <<Do("clear", call.other), Do("clear", Temp)>>
  /\ ValuesOf(call.list) = contents[call.other]
  /\ Untouched({call.list, call.other})

Somewhere ==
  \/ AtReturn \/ AtPush \/ AtPop \/ AtClear
  \/ AtConstructFill \/ AtConstructUndo
  \/ AtTempClear \/ AtCopyFill \/ AtCopySwap
  \/ AtStealClear \/ AtTakeAllocator \/ AtSteal
  \/ AtMoveFill \/ AtMoveClear \/ AtMoveSwap \/ AtSourceClear

\* The arguments of the call.
InCall ==
  /\ call.op \in Service!Operations /\ call.list \in Lists
  /\ call.op \in Service!Constructors <=> call.list \notin alive
  /\ IF call.op \in Service!Unary THEN call.other = Null ELSE call.other \in alive
  /\ call.op = "push" => call.value \in Values
  /\ \A x \in Lists \ (alive \cup {call.list}) : list[x] = NoList
  /\ \A x \in alive \cup {call.list} : list[x].allocator # Null
  /\ \A x \in Lists \ alive : contents[x] = <<>>

Inv == Types /\ Heap /\ Sized /\ (Resting \/ (InCall /\ Somewhere))

-----------------------------------------------------------------------------
(* What a step does to the chains.                                         *)

LEMMA ChainIs ==
  /\ \A x, s : Path(node, list[x].head, s) => Chain(x) = s
  /\ \A x, s : Path(node', list'[x].head, s) => Chain(x)' = s
  /\ \A x : ChainNodes(x) = On(Chain(x))
  /\ \A x : ChainNodes(x)' = On(Chain(x)')
<1>1. ASSUME NEW x, NEW s, Path(node, list[x].head, s) PROVE Chain(x) = s
  BY <1>1, TraversalFindsPath DEF Chain
<1>2. ASSUME NEW x, NEW s, Path(node', list'[x].head, s) PROVE Chain(x)' = s
  BY <1>2, TraversalFindsPath DEF Chain
<1> QED
  BY <1>1, <1>2 DEF ChainNodes, On

\* A chain, and the sequence of values on it.
Reads(x) ==
  /\ Chain(x) \in Seq(Nodes) /\ Len(Chain(x)) \in Nat /\ DOMAIN Chain(x) = 1..Len(Chain(x))
  /\ ValuesOf(x) \in Seq(Values \cup {Moved}) /\ Len(ValuesOf(x)) = Len(Chain(x))
  /\ DOMAIN ValuesOf(x) = 1..Len(Chain(x))
  /\ \A i \in 1..Len(Chain(x)) :
       /\ Chain(x)[i] \in ChainNodes(x)
       /\ Chain(x)[i] \in Nodes
       /\ ValuesOf(x)[i] = node[Chain(x)[i]].value
  /\ ChainNodes(x) \subseteq Nodes
  /\ IsEmpty(x) <=> Chain(x) = <<>>
  /\ IsEmpty(x) <=> Len(Chain(x)) = 0
  /\ IsEmpty(x) <=> ValuesOf(x) = <<>>

AllRead == \A x \in Objects : Reads(x)

LEMMA EachReads ==
  Types /\ Heap => AllRead
<1> SUFFICES ASSUME Types, Heap, NEW x \in Objects PROVE Reads(x)
  BY DEF AllRead
<1> DEFINE s == Chain(x)
           v == ValuesOf(x)
<1>1. Path(node, list[x].head, s)
  BY DEF Heap
<1>2. s \in Seq(Nodes) /\ Len(s) \in Nat /\ DOMAIN s = 1..Len(s)
  BY <1>1, LenProperties DEF Path
<1>3. \A i \in 1..Len(s) : s[i] \in Nodes /\ s[i] \in ChainNodes(x)
  BY <1>2, ElementOfSeq DEF ChainNodes
<1>4. ChainNodes(x) \subseteq Nodes
  BY <1>2, <1>3 DEF ChainNodes
<1>5. v = [i \in 1..Len(s) |-> node[s[i]].value]
  BY <1>2 DEF ValuesOf
<1>6. \A i \in 1..Len(s) : node[s[i]].value \in Values \cup {Moved}
  BY <1>3 DEF Heap, Types
<1>7. v \in Seq(Values \cup {Moved}) /\ Len(v) = Len(s) /\ DOMAIN v = 1..Len(s)
  <2> HIDE DEF s, v
  <2> QED
    BY <1>2, <1>5, <1>6, LenProperties
<1>8. IsEmpty(x) <=> s = <<>>
  <2>1. s # <<>> => s[1] \in Nodes
    BY <1>2, EmptySeq, <1>3
  <2> QED
    BY <1>1, <2>1, ListAssumption DEF Path, IsEmpty
<1>9. (s = <<>> <=> Len(s) = 0) /\ (v = <<>> <=> Len(s) = 0)
  <2> HIDE DEF s, v
  <2> QED
    BY <1>2, <1>7, EmptySeq
<1> QED
  BY <1>2, <1>3, <1>4, <1>5, <1>7, <1>8, <1>9 DEF Reads

LEMMA ValuesOfChain ==
  ASSUME NEW x \in Objects, Types, Heap
  PROVE  /\ Chain(x) \in Seq(Nodes) /\ Len(Chain(x)) \in Nat /\ DOMAIN Chain(x) = 1..Len(Chain(x))
         /\ ValuesOf(x) \in Seq(Values \cup {Moved}) /\ Len(ValuesOf(x)) = Len(Chain(x))
         /\ DOMAIN ValuesOf(x) = 1..Len(Chain(x))
         /\ \A i \in 1..Len(Chain(x)) :
              /\ Chain(x)[i] \in ChainNodes(x)
              /\ Chain(x)[i] \in Nodes
              /\ ValuesOf(x)[i] = node[Chain(x)[i]].value
         /\ ChainNodes(x) \subseteq Nodes
         /\ IsEmpty(x) <=> Chain(x) = <<>>
         /\ IsEmpty(x) <=> Len(Chain(x)) = 0
         /\ IsEmpty(x) <=> ValuesOf(x) = <<>>
  BY EachReads DEF AllRead, Reads

\* The same after a step.
LEMMA ReadsNext ==
  ASSUME NEW y \in Objects, Types', Heap'
  PROVE  Reads(y)'
<1>1. AllRead'
  BY EachReads, PTL
<1> QED
  BY <1>1 DEF AllRead

\* A chain is as it was if its nodes are.
LEMMA OffChain ==
  ASSUME Types, Heap, NEW x \in Objects, list'[x].head = list[x].head,
         \A n \in ChainNodes(x) : node'[n].next = node[n].next
  PROVE  /\ Chain(x)' = Chain(x) /\ ChainNodes(x)' = ChainNodes(x)
         /\ Path(node', list'[x].head, Chain(x))
         /\ (\A n \in ChainNodes(x) : node'[n].value = node[n].value)
              => ValuesOf(x)' = ValuesOf(x)
<1>1. Path(node', list'[x].head, Chain(x))
  BY ChainIs, PathKept DEF Heap
<1>2. Chain(x)' = Chain(x) /\ ChainNodes(x)' = ChainNodes(x)
  BY <1>1, ChainIs
<1>3. ASSUME \A n \in ChainNodes(x) : node'[n].value = node[n].value
      PROVE  ValuesOf(x)' = ValuesOf(x)
  <2>1. \A i \in DOMAIN Chain(x) : Chain(x)[i] \in ChainNodes(x)
    BY DEF ChainNodes
  <2> QED
    BY <1>2, <1>3, <2>1 DEF ValuesOf
<1> QED
  BY <1>1, <1>2, <1>3

\* The nodes stay as they are, and each object has the chain another had, or none.
LEMMA HeadsMoved ==
  ASSUME Types, Heap, Types', node' = node, kind' = kind,
         NEW from \in [Objects -> Objects \cup {Null}],
         \A x \in Objects : from[x] = Null => list'[x].head = Null,
         \A x \in Objects : from[x] # Null =>
           /\ list'[x].head = list[from[x]].head
           /\ IsEmpty(from[x]) \/ list'[x].allocator = list[from[x]].allocator,
         \A x, y \in Objects : from[x] = from[y] /\ from[x] # Null => x = y,
         \A y \in Objects : IsEmpty(y) \/ kind.arena \/ \E x \in Objects : from[x] = y
  PROVE  /\ Heap'
         /\ \A x \in Objects :
              /\ from[x] = Null => Chain(x)' = <<>> /\ ValuesOf(x)' = <<>>
              /\ from[x] # Null => Chain(x)' = Chain(from[x]) /\ ValuesOf(x)' = ValuesOf(from[x])
<1>1. ASSUME NEW x \in Objects, from[x] = Null
      PROVE  /\ Path(node', list'[x].head, <<>>) /\ Chain(x)' = <<>> /\ ValuesOf(x)' = <<>>
             /\ ChainNodes(x)' = {}
  <2>1. Path(node', list'[x].head, <<>>)
    BY <1>1 DEF Path
  <2>2. Chain(x)' = <<>>
    BY <2>1, ChainIs
  <2> QED
    BY <2>1, <2>2 DEF ValuesOf, ChainNodes
<1>2. ASSUME NEW x \in Objects, from[x] # Null
      PROVE  /\ Path(node', list'[x].head, Chain(from[x])) /\ Chain(x)' = Chain(from[x])
             /\ ValuesOf(x)' = ValuesOf(from[x])
             /\ ChainNodes(x)' = ChainNodes(from[x])
  <2>1. Path(node', list'[x].head, Chain(from[x]))
    BY <1>2 DEF Heap
  <2>2. Chain(x)' = Chain(from[x])
    BY <2>1, ChainIs
  <2> QED
    BY <2>1, <2>2 DEF ValuesOf, ChainNodes
<1>3. \A x \in Objects : IsEmpty(x) => ChainNodes(x) = {}
  BY ValuesOfChain DEF ChainNodes
<1>4. \A x \in Objects : Path(node', list'[x].head, Chain(x)')
  BY <1>1, <1>2
<1>5. ASSUME NEW x \in Objects, NEW y \in Objects, x # y
      PROVE  ChainNodes(x)' \cap ChainNodes(y)' = {}
  <2>1. CASE from[x] = Null \/ from[y] = Null
    BY <1>1, <2>1
  <2>2. CASE from[x] # Null /\ from[y] # Null
    <3>1. from[x] # from[y]
      BY <1>5, <2>2
    <3> QED
      BY <1>2, <2>2, <3>1 DEF Heap
  <2> QED
    BY <2>1, <2>2
<1>6. ASSUME NEW x \in Objects, NEW n \in ChainNodes(x)'
      PROVE  /\ node'[n].value # Null /\ node'[n].madeBy = list'[x].allocator
             /\ node'[n].madeBy # Null
  <2>1. from[x] # Null /\ n \in ChainNodes(from[x])
    BY <1>1, <1>2, <1>6
  <2>2. list'[x].allocator = list[from[x]].allocator
    BY <1>3, <2>1
  <2> QED
    BY <2>1, <2>2 DEF Heap
<1>7. ASSUME ~kind'.arena, NEW n \in Nodes, node'[n].madeBy # Null
      PROVE  \E x \in Objects : n \in ChainNodes(x)'
  <2>1. PICK y \in Objects : n \in ChainNodes(y)
    BY <1>7 DEF Heap
  <2>2. PICK x \in Objects : from[x] = y
    BY <1>3, <1>7, <2>1
  <2>3. y # Null
    BY ListAssumption
  <2> QED
    BY <1>2, <2>1, <2>2, <2>3
<1>8. Heap'
  BY <1>4, <1>5, <1>6, <1>7 DEF Heap
<1> QED
  BY <1>1, <1>2, <1>8

\* The first node of x goes, as DestroyHead and pop_front or clear do it.
LEMMA HeadDropped ==
  ASSUME Types, Heap, Types', kind' = kind, NEW x \in Objects, ~IsEmpty(x),
         DestroyHead(x), list'[x].head = node[list[x].head].next,
         \A y \in Objects \ {x} : list'[y].head = list[y].head,
         \A y \in Objects : list'[y].allocator = list[y].allocator
  PROVE  /\ Heap'
         /\ Chain(x)' = Tail(Chain(x)) /\ ValuesOf(x)' = Tail(ValuesOf(x))
         /\ Len(Chain(x)') = Len(Chain(x)) - 1
         /\ \A y \in Objects \ {x} : Chain(y)' = Chain(y) /\ ValuesOf(y)' = ValuesOf(y)
<1> DEFINE s == Chain(x)
           t == Tail(s)
           p == list[x].head
<1>1. Path(node, p, s) /\ s # <<>> /\ s \in Seq(Nodes) /\ Len(s) \in Nat /\ Len(s) # 0
  BY ValuesOfChain DEF Heap
<1>2. p \in Nodes /\ p = s[1] /\ p \in ChainNodes(x)
  BY <1>1, PathTail, ChainIs
<1>3. \A n \in Nodes \ {p} : node'[n] = node[n]
  BY <1>2 DEF DestroyHead, Types
<1>4. node'[p].madeBy # Null => kind.arena
  BY <1>2 DEF DestroyHead, Deallocated, NoNode, Types
<1>5. \A i \in 2..Len(s) : s[i] \in Nodes \ {p}
  <2> SUFFICES ASSUME NEW i \in 2..Len(s) PROVE s[i] \in Nodes \ {p}
    OBVIOUS
  <2>1. i \in 1..Len(s) /\ 1 \in 1..Len(s) /\ i # 1
    BY <1>1
  <2> QED
    BY <1>1, <1>2, <2>1, ElementOfSeq DEF Path
<1>6. /\ Path(node', list'[x].head, t) /\ On(t) = On(s) \ {p}
      /\ Len(t) = Len(s) - 1
      /\ \A i \in 1..Len(t) : t[i] = s[i + 1]
  BY <1>1, <1>3, <1>5, PathTail
<1>7. Chain(x)' = t /\ ChainNodes(x)' = ChainNodes(x) \ {p}
  BY <1>6, ChainIs
<1>8. ASSUME NEW y \in Objects \ {x}
      PROVE  /\ Chain(y)' = Chain(y) /\ ValuesOf(y)' = ValuesOf(y)
             /\ ChainNodes(y)' = ChainNodes(y) /\ p \notin ChainNodes(y)
             /\ Path(node', list'[y].head, Chain(y))
  <2>1. p \notin ChainNodes(y) /\ ChainNodes(y) \subseteq Nodes
    BY <1>2, ValuesOfChain DEF Heap
  <2> QED
    BY <1>3, <2>1, OffChain
<1>9. Heap'
  <2>1. \A y \in Objects : Path(node', list'[y].head, Chain(y)')
    BY <1>6, <1>7, <1>8
  <2>2. \A y \in Objects : ChainNodes(y)' = ChainNodes(y) \ {p}
    BY <1>7, <1>8
  <2>3. \A y, z \in Objects : y # z => ChainNodes(y)' \cap ChainNodes(z)' = {}
    BY <2>2 DEF Heap
  <2>4. \A y \in Objects : \A n \in ChainNodes(y)' :
          /\ node'[n].value # Null /\ node'[n].madeBy = list'[y].allocator
          /\ node'[n].madeBy # Null
    BY <1>3, <2>2, ValuesOfChain DEF Heap
  <2>5. ASSUME ~kind'.arena, NEW n \in Nodes, node'[n].madeBy # Null
        PROVE  \E y \in Objects : n \in ChainNodes(y)'
    <3>1. n # p
      BY <1>4, <2>5
    <3>2. node[n].madeBy # Null
      BY <1>3, <2>5, <3>1
    <3> QED
      BY <2>2, <2>5, <3>1, <3>2 DEF Heap
  <2> QED
    BY <2>1, <2>3, <2>4, <2>5 DEF Heap
<1>10. ValuesOf(x)' = Tail(ValuesOf(x))
  <2> DEFINE v == ValuesOf(x)
             w == Tail(v)
  <2>1. /\ v \in Seq(Values \cup {Moved}) /\ Len(v) = Len(s) /\ v # <<>>
        /\ \A i \in 1..Len(s) : v[i] = node[s[i]].value
    BY ValuesOfChain
  <2>2. /\ w \in Seq(Values \cup {Moved}) /\ Len(w) = Len(s) - 1
        /\ \A i \in 1..Len(w) : w[i] = v[i + 1]
    BY <2>1, HeadTailProperties
  <2>3. DOMAIN w = 1..Len(t) /\ DOMAIN t = 1..Len(t) /\ Len(t) \in Nat
    BY <1>6, <2>2, LenProperties DEF Path
  <2>4. ValuesOf(x)' = [i \in 1..Len(t) |-> node'[t[i]].value]
    BY <1>7, <2>3 DEF ValuesOf
  <2> HIDE DEF v, w, t, s, p
  <2>5. ASSUME NEW i \in 1..Len(t) PROVE w[i] = node'[t[i]].value
    <3>1. i + 1 \in 2..Len(s) /\ i + 1 \in 1..Len(s) /\ i \in 1..Len(w)
      BY <1>1, <1>6, <2>2, <2>3
    <3>2. w[i] = node[s[i + 1]].value /\ t[i] = s[i + 1]
      BY <1>6, <2>1, <2>2, <3>1
    <3>3. node'[s[i + 1]] = node[s[i + 1]]
      BY <1>3, <1>5, <3>1
    <3> QED
      BY <3>2, <3>3
  <2>6. w = [i \in 1..Len(t) |-> w[i]]
    BY <2>2, <2>3, LenProperties
  <2> QED
    BY <2>4, <2>5, <2>6 DEF w, v
<1> QED
  BY <1>6, <1>7, <1>8, <1>9, <1>10

LEMMA FreeIsOff ==
  ASSUME Types, Heap, NEW n \in FreeNodes
  PROVE  /\ n \in Nodes /\ node[n].madeBy = Null
         /\ \A x \in Objects : n \notin ChainNodes(x)
  BY DEF FreeNodes, UsedNodes, Heap

\* A new node is the first of x, as create_node and push_front make it.
LEMMA NodePushed ==
  ASSUME Types, Heap, Types', kind' = kind, NEW x \in Objects, NEW n \in FreeNodes, NEW v,
         v # Null, list[x].allocator # Null,
         node' = [node EXCEPT ![n] = [next |-> list[x].head, value |-> v,
                                      madeBy |-> list[x].allocator]],
         list'[x].head = n,
         \A y \in Objects \ {x} : list'[y].head = list[y].head,
         \A y \in Objects : list'[y].allocator = list[y].allocator
  PROVE  /\ Heap'
         /\ ValuesOf(x)' = <<v>> \o ValuesOf(x)
         /\ Len(Chain(x)') = Len(Chain(x)) + 1
         /\ \A y \in Objects \ {x} : Chain(y)' = Chain(y) /\ ValuesOf(y)' = ValuesOf(y)
<1> DEFINE s == Chain(x)
           t == <<n>> \o s
           p == list[x].head
<1>1. n \in Nodes /\ node[n].madeBy = Null /\ \A y \in Objects : n \notin ChainNodes(y)
  BY FreeIsOff
<1>2. /\ \A k \in Nodes \ {n} : node'[k] = node[k]
      /\ node'[n] = [next |-> list[x].head, value |-> v, madeBy |-> list[x].allocator]
  BY <1>1 DEF Types
<1>3. /\ Path(node, p, s) /\ s \in Seq(Nodes) /\ Len(s) \in Nat /\ DOMAIN s = 1..Len(s)
      /\ On(s) = ChainNodes(x) /\ ChainNodes(x) \subseteq Nodes
  BY ValuesOfChain, ChainIs DEF Heap
<1>4. /\ Path(node', n, t) /\ On(t) = On(s) \cup {n} /\ Len(t) = Len(s) + 1
      /\ \A i \in 1..(Len(s) + 1) : t[i] = IF i = 1 THEN n ELSE s[i - 1]
  <2>1. \A k \in On(s) : node'[k].next = node[k].next
    BY <1>1, <1>2, <1>3
  <2>2. n \in Nodes \ On(s) /\ node'[n].next = p
    BY <1>1, <1>2, <1>3
  <2>3. Path(node, p, s)
    BY <1>3
  <2> HIDE DEF s, p
  <2> QED
    BY ONLY <2>1, <2>2, <2>3, PathPush
<1>5. Chain(x)' = t /\ ChainNodes(x)' = ChainNodes(x) \cup {n}
  BY <1>3, <1>4, ChainIs
<1>6. ASSUME NEW y \in Objects \ {x}
      PROVE  /\ Chain(y)' = Chain(y) /\ ValuesOf(y)' = ValuesOf(y)
             /\ ChainNodes(y)' = ChainNodes(y)
             /\ Path(node', list'[y].head, Chain(y))
  <2>1. n \notin ChainNodes(y) /\ ChainNodes(y) \subseteq Nodes
    BY <1>1, ValuesOfChain
  <2> QED
    BY <1>2, <2>1, OffChain
<1>7. Heap'
  <2>1. ASSUME NEW y \in Objects PROVE Path(node', list'[y].head, Chain(y)')
    <3>1. CASE y = x
      BY <1>4, <1>5, <3>1
    <3>2. CASE y # x
      BY <1>6, <3>2
    <3> QED
      BY <3>1, <3>2
  <2>2. \A y \in Objects : ChainNodes(y)' = IF y = x THEN ChainNodes(x) \cup {n} ELSE ChainNodes(y)
    BY <1>5, <1>6
  <2>3. \A y, z \in Objects : y # z => ChainNodes(y)' \cap ChainNodes(z)' = {}
    BY <1>1, <2>2 DEF Heap
  <2>4. ASSUME NEW y \in Objects, NEW k \in ChainNodes(y)'
        PROVE  /\ node'[k].value # Null /\ node'[k].madeBy = list'[y].allocator
               /\ node'[k].madeBy # Null
    <3>1. CASE k = n
      <4>1. y = x
        BY <1>1, <2>2, <2>4, <3>1
      <4> QED
        BY <1>2, <3>1, <4>1
    <3>2. CASE k # n
      <4>1. k \in ChainNodes(y) /\ k \in Nodes
        BY <2>2, <2>4, <3>2, ValuesOfChain
      <4> QED
        BY <1>2, <3>2, <4>1 DEF Heap
    <3> QED
      BY <3>1, <3>2
  <2>5. ASSUME ~kind'.arena, NEW k \in Nodes, node'[k].madeBy # Null
        PROVE  \E y \in Objects : k \in ChainNodes(y)'
    <3>1. CASE k = n
      BY <2>2, <3>1
    <3>2. CASE k # n
      BY <1>2, <2>2, <2>5, <3>2 DEF Heap
    <3> QED
      BY <3>1, <3>2
  <2> QED
    BY <2>1, <2>3, <2>4, <2>5 DEF Heap
<1>8. ValuesOf(x)' = <<v>> \o ValuesOf(x)
  <2> DEFINE u == ValuesOf(x)
             w == <<v>> \o u
  <2>1. /\ u \in Seq(Values \cup {Moved}) /\ Len(u) = Len(s)
        /\ \A i \in 1..Len(s) : u[i] = node[s[i]].value /\ s[i] \in ChainNodes(x)
    BY ValuesOfChain
  <2>2. v \in Values \cup {Moved}
    BY <1>1, <1>2 DEF Types
  <2>3. /\ w \in Seq(Values \cup {Moved}) /\ Len(w) = Len(s) + 1
        /\ \A i \in 1..(Len(s) + 1) : w[i] = IF i = 1 THEN v ELSE u[i - 1]
    <3>1. <<v>> \in Seq(Values \cup {Moved}) /\ Len(<<v>>) = 1 /\ <<v>>[1] = v
      BY <2>2
    <3>2. /\ w \in Seq(Values \cup {Moved}) /\ Len(w) = 1 + Len(u)
          /\ \A i \in 1..(1 + Len(u)) : w[i] = IF i <= 1 THEN <<v>>[i] ELSE u[i - 1]
      BY <2>1, <3>1, ConcatProperties
    <3> HIDE DEF w, u, s
    <3> QED
      BY <1>3, <2>1, <3>1, <3>2
  <2>4. DOMAIN w = 1..Len(t) /\ DOMAIN t = 1..Len(t) /\ Len(t) \in Nat
    BY <1>4, <2>3, LenProperties DEF Path
  <2>5. ValuesOf(x)' = [i \in 1..Len(t) |-> node'[t[i]].value]
    BY <1>5, <2>4 DEF ValuesOf
  <2> HIDE DEF u, w, t, s, p
  <2>6. ASSUME NEW i \in 1..Len(t) PROVE w[i] = node'[t[i]].value
    <3>0. i \in 1..(Len(s) + 1)
      BY <1>4
    <3>1. CASE i = 1
      BY <1>2, <1>4, <2>3, <3>0, <3>1
    <3>2. CASE i # 1
      <4>1. i - 1 \in 1..Len(s)
        BY <1>3, <3>0, <3>2
      <4>2. w[i] = u[i - 1] /\ t[i] = s[i - 1]
        BY <1>4, <2>3, <3>0, <3>2
      <4>3. s[i - 1] \in Nodes \ {n}
        BY <1>1, <1>3, <2>1, <4>1
      <4> QED
        BY <1>2, <2>1, <4>1, <4>2, <4>3
    <3> QED
      BY <3>1, <3>2
  <2>7. w = [i \in 1..Len(t) |-> w[i]]
    BY <2>3, <2>4, LenProperties
  <2> QED
    BY <2>5, <2>6, <2>7 DEF w, u
<1> QED
  BY <1>4, <1>5, <1>6, <1>7, <1>8

\* The values of y, where the element of source is w now.
Rewritten(y, source, w) ==
  /\ source \notin ChainNodes(y) \/ w = node[source].value => ValuesOf(y)' = ValuesOf(y)
  /\ \A i \in 1..Len(Chain(y)) :
       ValuesOf(y)'[i] = IF Chain(y)[i] = source THEN w ELSE ValuesOf(y)[i]

\* A new node is the last of x, as one turn of copy_from or move_values_from
\* makes it; the element it is made from is w afterwards.
Appends(x, n, v, source, w) ==
  /\ node'[n] = [next |-> Null, value |-> v, madeBy |-> list[x].allocator]
  /\ \A k \in Nodes \ {n} :
       /\ node'[k].madeBy = node[k].madeBy
       /\ node'[k].value = IF k = source THEN w ELSE node[k].value
       /\ node'[k].next = IF Chain(x) # <<>> /\ k = Chain(x)[Len(Chain(x))]
                          THEN n ELSE node[k].next
  /\ list'[x].head = IF Chain(x) = <<>> THEN n ELSE list[x].head
  /\ \A y \in Objects \ {x} : list'[y].head = list[y].head
  /\ \A y \in Objects : list'[y].allocator = list[y].allocator

LEMMA NodeAppended ==
  ASSUME Types, Heap, Types', kind' = kind, NEW x \in Objects, NEW n \in FreeNodes,
         NEW v, v # Null, list[x].allocator # Null,
         NEW source, NEW w, w # Null, source \notin ChainNodes(x), source # n,
         Appends(x, n, v, source, w)
  PROVE  /\ Heap'
         /\ Chain(x)' = Append(Chain(x), n)
         /\ ValuesOf(x)' = Append(ValuesOf(x), v)
         /\ Len(Chain(x)') = Len(Chain(x)) + 1
         /\ \A y \in Objects \ {x} : Chain(y)' = Chain(y) /\ Rewritten(y, source, w)
<1> USE DEF Appends, Rewritten
<1> DEFINE s == Chain(x)
           t == Append(s, n)
           p == list[x].head
<1>1. n \in Nodes /\ node[n].madeBy = Null /\ \A y \in Objects : n \notin ChainNodes(y)
  BY FreeIsOff
<1>3. /\ Path(node, p, s) /\ s \in Seq(Nodes) /\ Len(s) \in Nat /\ DOMAIN s = 1..Len(s)
      /\ On(s) = ChainNodes(x) /\ ChainNodes(x) \subseteq Nodes
      /\ s = <<>> <=> Len(s) = 0
      /\ \A i \in 1..Len(s) : s[i] \in ChainNodes(x)
  BY ValuesOfChain, ChainIs DEF Heap
<1>4. /\ Path(node', list'[x].head, t) /\ On(t) = On(s) \cup {n} /\ Len(t) = Len(s) + 1
      /\ \A i \in 1..(Len(s) + 1) : t[i] = IF i = Len(s) + 1 THEN n ELSE s[i]
  <2>1. n \in Nodes \ On(s) /\ node'[n].next = Null
    BY <1>1, <1>3
  <2>2. ASSUME s # <<>> PROVE node'[s[Len(s)]].next = n
    <3>1. Len(s) \in 1..Len(s)
      BY <1>3, <2>2
    <3>2. s[Len(s)] \in Nodes \ {n}
      BY <1>1, <1>3, <3>1
    <3> QED
      BY <2>2, <3>2
  <2>3. ASSUME NEW i \in 1..(Len(s) - 1) PROVE node'[s[i]].next = node[s[i]].next
    <3>1. i \in 1..Len(s) /\ Len(s) \in 1..Len(s) /\ i # Len(s)
      <4>1. Len(s) \in Nat
        BY <1>3
      <4> QED
        BY <2>3, <4>1
    <3>2. s[i] \in Nodes \ {n}
      BY <1>1, <1>3, <3>1
    <3>3. s[i] # s[Len(s)]
      <4> HIDE DEF s
      <4> QED
        BY <1>3, <3>1 DEF Path
    <3> QED
      BY <3>2, <3>3
  <2>4. list'[x].head = IF s = <<>> THEN n ELSE p
    OBVIOUS
  <2>5. Path(node, p, s)
    BY <1>3
  <2> HIDE DEF s, p
  <2>0. Linked(node, node', s, n)
    BY <2>1, <2>2, <2>3 DEF Linked
  <2>6. Path(node', IF s = <<>> THEN n ELSE p, t)
    BY ONLY <2>0, <2>5, PathAppend
  <2>7. On(t) = On(s) \cup {n}
    <3>1. s \in Seq(Nodes) /\ n \in Nodes
      BY <2>0, <2>5 DEF Path, Linked
    <3> QED
      BY <3>1, OnAppend
  <2>8. Len(t) = Len(s) + 1
    BY ONLY <2>0, <2>5, PathAppend
  <2>9. \A i \in 1..(Len(s) + 1) : t[i] = IF i = Len(s) + 1 THEN n ELSE s[i]
    BY ONLY <2>0, <2>5, PathAppend
  <2> QED
    BY <2>4, <2>6, <2>7, <2>8, <2>9
<1>5. Chain(x)' = t /\ ChainNodes(x)' = ChainNodes(x) \cup {n}
  BY <1>3, <1>4, ChainIs
<1>6. ASSUME NEW y \in Objects \ {x}
      PROVE  /\ Chain(y)' = Chain(y)
             /\ ChainNodes(y)' = ChainNodes(y)
             /\ Path(node', list'[y].head, Chain(y))
             /\ source \notin ChainNodes(y) \/ w = node[source].value
                  => ValuesOf(y)' = ValuesOf(y)
             /\ \A i \in 1..Len(Chain(y)) :
                  ValuesOf(y)'[i] = IF Chain(y)[i] = source THEN w ELSE ValuesOf(y)[i]
  <2>1. /\ n \notin ChainNodes(y) /\ ChainNodes(y) \subseteq Nodes
        /\ ChainNodes(x) \cap ChainNodes(y) = {}
    BY <1>1, ValuesOfChain DEF Heap
  <2>2. s # <<>> => s[Len(s)] \in ChainNodes(x)
    BY <1>3
  <2>3. \A k \in ChainNodes(y) : node'[k].next = node[k].next
    BY <2>1, <2>2
  <2>4. /\ Chain(y)' = Chain(y)
        /\ ChainNodes(y)' = ChainNodes(y)
        /\ Path(node', list'[y].head, Chain(y))
        /\ (\A k \in ChainNodes(y) : node'[k].value = node[k].value)
              => ValuesOf(y)' = ValuesOf(y)
    BY <2>3, OffChain
  <2>5. ASSUME NEW i \in 1..Len(Chain(y))
        PROVE  ValuesOf(y)'[i] = IF Chain(y)[i] = source THEN w ELSE ValuesOf(y)[i]
    <3>1. /\ Chain(y)[i] \in ChainNodes(y) /\ ValuesOf(y)[i] = node[Chain(y)[i]].value
          /\ DOMAIN Chain(y) = 1..Len(Chain(y))
      BY ValuesOfChain
    <3>2. ValuesOf(y)'[i] = node'[Chain(y)[i]].value
      BY <2>4, <3>1 DEF ValuesOf
    <3>3. Chain(y)[i] \in Nodes \ {n}
      BY <2>1, <3>1
    <3> QED
      BY <3>1, <3>2, <3>3
  <2> QED
    BY <2>1, <2>4, <2>5
<1>7. Heap'
  <2>1. ASSUME NEW y \in Objects PROVE Path(node', list'[y].head, Chain(y)')
    <3>1. CASE y = x
      BY <1>4, <1>5, <3>1
    <3>2. CASE y # x
      BY <1>6, <3>2
    <3> QED
      BY <3>1, <3>2
  <2>2. \A y \in Objects : ChainNodes(y)' = IF y = x THEN ChainNodes(x) \cup {n} ELSE ChainNodes(y)
    BY <1>5, <1>6
  <2>3. \A y, z \in Objects : y # z => ChainNodes(y)' \cap ChainNodes(z)' = {}
    BY <1>1, <2>2 DEF Heap
  <2>4. ASSUME NEW y \in Objects, NEW k \in ChainNodes(y)'
        PROVE  /\ node'[k].value # Null /\ node'[k].madeBy = list'[y].allocator
               /\ node'[k].madeBy # Null
    <3>1. CASE k = n
      <4>1. y = x
        BY <1>1, <2>2, <2>4, <3>1
      <4> QED
        BY <3>1, <4>1
    <3>2. CASE k # n
      <4>1. k \in ChainNodes(y) /\ k \in Nodes \ {n}
        BY <2>2, <2>4, <3>2, ValuesOfChain
      <4> QED
        BY <4>1 DEF Heap
    <3> QED
      BY <3>1, <3>2
  <2>5. ASSUME ~kind'.arena, NEW k \in Nodes, node'[k].madeBy # Null
        PROVE  \E y \in Objects : k \in ChainNodes(y)'
    <3>1. CASE k = n
      BY <2>2, <3>1
    <3>2. CASE k # n
      <4>1. node[k].madeBy # Null
        BY <2>5, <3>2
      <4> QED
        BY <2>2, <2>5, <4>1 DEF Heap
    <3> QED
      BY <3>1, <3>2
  <2> QED
    BY <2>1, <2>3, <2>4, <2>5 DEF Heap
<1>8. ValuesOf(x)' = Append(ValuesOf(x), v)
  <2> DEFINE u == ValuesOf(x)
             a == Append(u, v)
  <2>1. /\ u \in Seq(Values \cup {Moved}) /\ Len(u) = Len(s)
        /\ \A i \in 1..Len(s) : u[i] = node[s[i]].value
    BY ValuesOfChain
  <2>2. v \in Values \cup {Moved}
    <3>1. node'[n].value = v
      OBVIOUS
    <3> QED
      BY <1>1, <3>1 DEF Types
  <2>3. /\ a \in Seq(Values \cup {Moved}) /\ Len(a) = Len(s) + 1
        /\ \A i \in 1..Len(s) : a[i] = u[i]
        /\ a[Len(s) + 1] = v
    <3> HIDE DEF u, s
    <3> QED
      BY <2>1, <2>2, AppendProperties
  <2>4. DOMAIN a = 1..Len(t) /\ DOMAIN t = 1..Len(t) /\ Len(t) \in Nat
    BY <1>4, <2>3, LenProperties DEF Path
  <2>5. ValuesOf(x)' = [i \in 1..Len(t) |-> node'[t[i]].value]
    BY <1>5, <2>4 DEF ValuesOf
  <2> HIDE DEF u, a, t, s, p
  <2>6. ASSUME NEW i \in 1..Len(t) PROVE a[i] = node'[t[i]].value
    <3>0. i \in 1..(Len(s) + 1)
      BY <1>4
    <3>1. CASE i = Len(s) + 1
      BY <1>4, <2>3, <3>0, <3>1
    <3>2. CASE i # Len(s) + 1
      <4>1. i \in 1..Len(s) /\ Len(s) \in Nat
        BY <1>3, <3>0, <3>2
      <4>2. a[i] = node[s[i]].value /\ t[i] = s[i]
        BY <1>4, <2>1, <2>3, <3>0, <3>2, <4>1
      <4>3. s[i] \in Nodes \ {n} /\ s[i] # source
        BY <1>1, <1>3, <4>1 DEF s
      <4> QED
        BY <4>2, <4>3
    <3> QED
      BY <3>1, <3>2
  <2>7. a = [i \in 1..Len(t) |-> a[i]]
    BY <2>3, <2>4, LenProperties
  <2> QED
    BY <2>5, <2>6, <2>7 DEF a, u
<1> QED
  BY <1>4, <1>5, <1>6, <1>7, <1>8

\* A node is left to an arena, by create_node, or an arena is reset.
LEMMA OthersChanged ==
  ASSUME Types, Heap, Types', kind' = kind,
         \A x \in Objects : /\ list'[x].head = list[x].head
                            /\ IsEmpty(x) \/ list'[x].allocator = list[x].allocator,
         \A x \in Objects : \A n \in ChainNodes(x) : node'[n] = node[n],
         kind.arena \/ node' = node
  PROVE  /\ Heap'
         /\ \A x \in Objects : Chain(x)' = Chain(x) /\ ValuesOf(x)' = ValuesOf(x)
<1>1. ASSUME NEW x \in Objects
      PROVE  /\ Chain(x)' = Chain(x) /\ ValuesOf(x)' = ValuesOf(x)
             /\ ChainNodes(x)' = ChainNodes(x) /\ Path(node', list'[x].head, Chain(x))
             /\ IsEmpty(x) => ChainNodes(x) = {}
  <2>1. IsEmpty(x) => ChainNodes(x) = {}
    BY ValuesOfChain DEF ChainNodes
  <2> QED
    BY <2>1, OffChain
<1>2. Heap'
  <2>1. \A x \in Objects : \A n \in ChainNodes(x) :
          /\ node'[n].value # Null /\ node'[n].madeBy = list'[x].allocator
          /\ node'[n].madeBy # Null
    BY <1>1 DEF Heap
  <2>2. ~kind'.arena => \A n \in Nodes :
          node'[n].madeBy # Null => \E x \in Objects : n \in ChainNodes(x)
    BY DEF Heap
  <2>3. \A x, y \in Objects : x # y => ChainNodes(x)' \cap ChainNodes(y)' = {}
    BY <1>1 DEF Heap
  <2> QED
    BY <1>1, <2>1, <2>2, <2>3 DEF Heap
<1> QED
  BY <1>1, <1>2

-----------------------------------------------------------------------------
(* Where a call is, and what it has done.                                  *)

\* The step that is next says where the call is.
LEMMA Where ==
  ASSUME InCall, Somewhere
  PROVE  /\ todo = <<>> => AtReturn
         /\ Doing("push") => AtPush
         /\ Doing("pop") => AtPop
         /\ Doing("fill") => AtConstructFill \/ AtCopyFill \/ AtMoveFill
         /\ Doing("clear") => \/ AtClear \/ AtConstructUndo \/ AtTempClear
                              \/ AtStealClear \/ AtMoveClear \/ AtSourceClear
         /\ Doing("takeAllocator") => AtTakeAllocator
         /\ Doing("steal") => AtSteal
         /\ Doing("swap") => AtCopySwap \/ AtMoveSwap
<1> USE DEF Doing, Do, Do2
<1>1. CASE AtReturn
  BY <1>1 DEF AtReturn
<1>2. CASE AtPush
  BY <1>2 DEF AtPush
<1>3. CASE AtPop
  BY <1>3 DEF AtPop
<1>4. CASE AtClear \/ AtConstructUndo \/ AtTempClear \/ AtStealClear \/ AtMoveClear \/ AtSourceClear
  <2>1. Doing("clear")
    BY <1>4 DEF AtClear, AtConstructUndo, AtTempClear, AtStealClear, AtMoveClear, AtSourceClear
  <2> QED
    BY <1>4, <2>1
<1>5. CASE AtConstructFill \/ AtCopyFill \/ AtMoveFill
  <2>1. Doing("fill")
    BY <1>5 DEF AtConstructFill, AtCopyFill, AtMoveFill, Filling
  <2> QED
    BY <1>5, <2>1
<1>6. CASE AtTakeAllocator
  BY <1>6 DEF AtTakeAllocator
<1>7. CASE AtSteal
  BY <1>7 DEF AtSteal
<1>8. CASE AtCopySwap \/ AtMoveSwap
  <2>1. Doing("swap")
    BY <1>8 DEF AtCopySwap, AtMoveSwap
  <2> QED
    BY <1>8, <2>1
<1> QED
  BY <1>1, <1>2, <1>3, <1>4, <1>5, <1>6, <1>7, <1>8 DEF Somewhere

\* The effects of calls that did not throw.
LEMMA Finishes ==
  ASSUME contents' = contents, ~threw',
         \/ /\ call'.op \in {"construct", "destroy", "clear", "release"}
            /\ AllValues' = [contents EXCEPT ![call'.list] = <<>>]
         \/ /\ call'.op \in {"constructCopy", "assignCopy"}
            /\ AllValues' = [contents EXCEPT ![call'.list] = contents[call'.other]]
         \/ /\ call'.op = "constructMove" \/ (call'.op = "assignMove" /\ call'.list # call'.other)
            /\ AllValues' = [contents EXCEPT ![call'.list] = contents[call'.other],
                                             ![call'.other] = <<>>]
         \/ /\ call'.op = "assignMove" /\ call'.list = call'.other
            /\ AllValues' = contents
         \/ /\ call'.op = "push"
            /\ AllValues' = [contents EXCEPT ![call'.list] = <<call'.value>> \o @]
         \/ /\ call'.op = "pop" /\ contents[call'.list] # <<>>
            /\ AllValues' = [contents EXCEPT ![call'.list] = Tail(@)]
  PROVE  Finished'
<1>1. AllValues' = Service!Effect(call)'
  BY DEF Service!Effect
<1> QED
  BY <1>1 DEF Finished, Done

\* Between two calls.
LEMMA Rests ==
  ASSUME Inv, call = NoCall
  PROVE  /\ Resting /\ Types /\ Heap
         /\ \A x \in Objects : list[x].size = Len(Chain(x))
         /\ list[Temp] = NoList /\ IsEmpty(Temp)
         /\ \A x \in Lists \ alive : contents[x] = <<>> /\ list[x] = NoList
         /\ \A y \in Lists : ValuesOf(y) = contents[y]
<1>1. Resting /\ Types /\ Heap
  BY DEF Inv, InCall, NoCall, Service!NoCall, Service!Operations
<1>2. \A x \in Objects : list[x].size = Len(Chain(x))
  BY <1>1 DEF Inv, Sized, Doing, Resting
<1>3. Temp \in Objects \ alive /\ \A x \in Lists \ alive : x \in Objects \ alive
  BY <1>1, ListAssumption DEF Types, Objects
<1>4. \A x \in Objects \ alive : list[x] = NoList
  BY <1>1 DEF Resting
<1>5. \A x \in Objects \ alive : IsEmpty(x) /\ ValuesOf(x) = <<>>
  BY <1>1, <1>4, ValuesOfChain DEF IsEmpty, NoList
<1>6. \A y \in Lists : ValuesOf(y) = contents[y]
  BY <1>1 DEF Resting, Untouched
<1> QED
  BY <1>1, <1>2, <1>3, <1>4, <1>5, <1>6

ServiceStep == Service!Next \/ UNCHANGED <<alive, contents, call>>

-----------------------------------------------------------------------------
(* Each public operation begins as its point of the code says.             *)

\* A call begins with its arguments.
LEMMA Called ==
  ASSUME Inv, NEW op \in Service!Operations, NEW l \in Lists, NEW o, NEW v, NEW steps,
         Begin(op, l, o, v, steps),
         op \in Service!Constructors <=> l \notin alive,
         IF op \in Service!Unary THEN o = Null ELSE o \in alive,
         IF op = "push" THEN v \in Values ELSE v = Null,
         \A x \in Lists \ (alive \cup {l}) : list'[x] = list[x],
         \A x \in alive \cup {l} : list'[x].allocator # Null
  PROVE  /\ InCall' /\ ~threw' /\ contents' = contents /\ alive' = alive /\ kind' = kind
         /\ node' = node /\ todo' = steps
         /\ call' = [op |-> op, list |-> l, other |-> o, value |-> v]
         /\ ServiceStep
<1>1. /\ call = NoCall /\ contents' = contents /\ alive' = alive /\ kind' = kind
      /\ node' = node /\ todo' = steps /\ threw' = threw
      /\ call' = [op |-> op, list |-> l, other |-> o, value |-> v]
  BY DEF Begin
<1>2. ~threw' /\ \A x \in Lists \ alive : contents[x] = <<>> /\ list[x] = NoList
  BY <1>1, Rests DEF Resting
<1>3. InCall'
  BY <1>1, <1>2 DEF InCall, Service!Operations, Service!Unary, Service!Constructors
<1>4. ServiceStep
  <2>1. o \in alive \cup {Null} /\ v \in Values \cup {Null}
    OBVIOUS
  <2>2. o = Null <=> op \in Service!Unary
    BY <1>1, Rests, ListAssumption DEF Types, Objects
  <2>3. v # Null <=> op = "push"
    BY ListAssumption
  <2>4. call = Service!NoCall
    BY <1>1 DEF NoCall
  <2>5. Service!Call
    BY <1>1, <2>1, <2>2, <2>3, <2>4 DEF Service!Call
  <2> QED
    BY <2>5 DEF ServiceStep, Service!Next
<1> QED
  BY <1>1, <1>2, <1>3, <1>4

\* The list to construct, or the local one, is made.
NewList(x) == \E a \in Allocators : list' = [list EXCEPT ![x] = [NoList EXCEPT !.allocator = a]]

\* Most calls begin with at most a new empty list.
LEMMA Begins ==
  ASSUME Inv, NEW op \in Service!Operations, NEW l \in Lists, NEW o, NEW v, NEW steps,
         Begin(op, l, o, v, steps),
         op \in Service!Constructors <=> l \notin alive,
         IF op \in Service!Unary THEN o = Null ELSE o \in alive,
         IF op = "push" THEN v \in Values ELSE v = Null,
         \/ list' = list /\ l \in alive
         \/ l \in alive /\ NewList(Temp)
         \/ l \notin alive /\ NewList(l)
  PROVE  /\ InCall' /\ Types' /\ Heap' /\ Sized' /\ ServiceStep
         /\ ~threw' /\ contents' = contents /\ alive' = alive /\ kind' = kind
         /\ node' = node /\ todo' = steps
         /\ call' = [op |-> op, list |-> l, other |-> o, value |-> v]
         /\ \A y \in Objects : Chain(y)' = Chain(y) /\ ValuesOf(y)' = ValuesOf(y)
         /\ \A y \in Lists : ValuesOf(y)' = contents[y] /\ y \in Objects
         /\ \A y \in Objects : list'[y].head = list[y].head
         /\ IsEmpty(Temp)'
         /\ l \notin alive => contents[l] = <<>> /\ IsEmpty(l)'
<1>1. /\ call = NoCall /\ contents' = contents /\ alive' = alive /\ kind' = kind
      /\ node' = node /\ todo' = steps /\ threw' = threw
      /\ call' = [op |-> op, list |-> l, other |-> o, value |-> v]
  BY DEF Begin
<1>2. /\ Types /\ Heap /\ Resting /\ \A x \in Objects \ alive : list[x] = NoList
      /\ \A x \in Objects : list[x].size = Len(Chain(x))
      /\ \A y \in Lists : ValuesOf(y) = contents[y]
      /\ \A x \in Lists \ alive : contents[x] = <<>>
      /\ IsEmpty(Temp) /\ ~threw
  BY <1>1, Rests DEF Resting
<1>3. Temp \in Objects \ Lists /\ (\A y \in Lists : y \in Objects) /\ alive \subseteq Lists
  BY <1>2, ListAssumption DEF Objects, Types
<1>4. /\ Types'
      /\ \A x \in Objects : /\ list'[x].head = list[x].head
                            /\ IsEmpty(x) \/ list'[x].allocator = list[x].allocator
                            /\ list'[x].size = list[x].size
      /\ \A x \in Lists \ (alive \cup {l}) : list'[x] = list[x]
      /\ \A x \in alive \cup {l} : list'[x].allocator # Null
  <2>1. CASE list' = list /\ l \in alive
    <3>1. \A x \in alive : list[x].allocator # Null
      BY <1>2 DEF Resting
    <3> QED
      BY <1>1, <1>2, <2>1, <3>1 DEF Types
  <2>2. ASSUME NEW x \in {IF l \in alive THEN Temp ELSE l}, NEW a \in Allocators,
               list' = [list EXCEPT ![x] = [NoList EXCEPT !.allocator = a]]
        PROVE  <1>4!1 /\ <1>4!2 /\ <1>4!3 /\ <1>4!4
    <3>0. x \in Objects \ alive /\ a # Null
      BY <1>3, ListAssumption
    <3>1. list'[x] = [head |-> Null, size |-> 0, allocator |-> a]
      BY <1>2, <2>2, <3>0 DEF Types, NoList
    <3>2. \A y \in Objects : y # x => list'[y] = list[y]
      BY <1>2, <2>2 DEF Types
    <3>3. list[x] = [head |-> Null, size |-> 0, allocator |-> Null]
      BY <1>2, <3>0 DEF NoList
    <3>4. list' \in [Objects -> [head : Nodes \cup {Null}, size : Nat,
                                 allocator : Allocators \cup {Null}]]
      <4>1. [NoList EXCEPT !.allocator = a] \in [head : Nodes \cup {Null}, size : Nat,
                                                  allocator : Allocators \cup {Null}]
        BY DEF NoList
      <4> QED
        BY <1>2, <2>2, <4>1 DEF Types
    <3>5. Types'
      BY <1>1, <1>2, <3>4 DEF Types
    <3>6. \A y \in Objects : /\ list'[y].head = list[y].head
                             /\ IsEmpty(y) \/ list'[y].allocator = list[y].allocator
                             /\ list'[y].size = list[y].size
      BY <3>1, <3>2, <3>3 DEF IsEmpty
    <3>7. \A y \in Lists \ (alive \cup {l}) : list'[y] = list[y]
      BY <1>3, <3>2
    <3>8. \A y \in alive \cup {l} : list'[y].allocator # Null
      <4>1. \A y \in alive : list[y].allocator # Null
        BY <1>2 DEF Resting
      <4> QED
        BY <1>3, <3>0, <3>1, <3>2, <4>1
    <3> QED
      BY <3>5, <3>6, <3>7, <3>8
  <2>3. \A x : x \in {IF l \in alive THEN Temp ELSE l} /\ NewList(x) => <1>4!:
    BY <2>2 DEF NewList
  <2> QED
    BY <2>1, <2>3
<1>5. /\ Heap'
      /\ \A x \in Objects : Chain(x)' = Chain(x) /\ ValuesOf(x)' = ValuesOf(x)
  BY <1>1, <1>2, <1>4, OthersChanged
<1>6. Sized'
  <2>1. \A x \in Objects : list'[x].size = Len(Chain(x)')
    BY <1>2, <1>4, <1>5
  <2> QED
    BY <2>1 DEF Sized
<1>7. InCall' /\ ServiceStep
  BY <1>4, Called
<1>8. IsEmpty(Temp)'
  BY <1>2, <1>3, <1>4 DEF IsEmpty
<1>9. l \notin alive => contents[l] = <<>> /\ IsEmpty(l)'
  BY <1>2, <1>3, <1>4 DEF IsEmpty, NoList
<1>10. \A y \in Lists : ValuesOf(y)' = contents[y]
  BY <1>2, <1>3, <1>5
<1> QED
  BY <1>1, <1>2, <1>3, <1>4, <1>5, <1>6, <1>7, <1>8, <1>9, <1>10

LEMMA ConstructInv ==
  ASSUME Inv, NEW l \in Lists, NEW a \in Allocators, Construct(l, a)
  PROVE  Inv' /\ ServiceStep
<1>1. /\ InCall' /\ Types' /\ Heap' /\ Sized' /\ ServiceStep
      /\ ~threw' /\ contents' = contents /\ todo' = <<>>
      /\ call' = [op |-> "construct", list |-> l, other |-> Null, value |-> Null]
      /\ \A y \in Lists : ValuesOf(y)' = contents[y]
      /\ IsEmpty(Temp)' /\ contents[l] = <<>>
  <2>1. Begin("construct", l, Null, Null, <<>>) /\ l \notin alive
        /\ list' = [list EXCEPT ![l] = [NoList EXCEPT !.allocator = a]]
    BY DEF Construct
  <2>2. "construct" \in Service!Operations /\ "construct" \in Service!Constructors
        /\ "construct" \in Service!Unary
    BY DEF Service!Operations, Service!Constructors, Service!Unary
  <2>3. NewList(l)
    BY <2>1 DEF NewList
  <2> QED
    BY <2>1, <2>2, <2>3, Begins
<1>2. AllValues' = [contents EXCEPT ![l] = <<>>]
  BY <1>1 DEF AllValues, Types
<1>3. Finished'
  BY <1>1, <1>2, Finishes
<1> QED
  BY <1>1, <1>3 DEF Inv, Somewhere, AtReturn

LEMMA ClearInv ==
  ASSUME Inv, NEW l \in alive, Destroy(l) \/ Clear(l)
  PROVE  Inv' /\ ServiceStep
<1>1. /\ InCall' /\ Types' /\ Heap' /\ Sized' /\ ServiceStep
      /\ ~threw' /\ contents' = contents /\ todo' = <<Do("clear", l)>>
      /\ call'.op \in {"destroy", "clear"} /\ call'.list = l
      /\ \A y \in Lists : ValuesOf(y)' = contents[y]
      /\ IsEmpty(Temp)'
  <2>1. PICK op \in {"destroy", "clear"} : Begin(op, l, Null, Null, <<Do("clear", l)>>)
    BY DEF Destroy, Clear
  <2>2. list' = list
    BY DEF Destroy, Clear
  <2>3. op \in Service!Operations /\ op \notin Service!Constructors /\ op \in Service!Unary
    BY DEF Service!Operations, Service!Constructors, Service!Unary
  <2>4. l \in Lists
    BY DEF Inv, Types
  <2> QED
    BY <2>1, <2>2, <2>3, <2>4, Begins
<1>2. AtClear'
  <2>1. Untouched({l})'
    BY <1>1 DEF Untouched
  <2> QED
    BY <1>1, <2>1 DEF AtClear, Do, Untouched
<1> QED
  BY <1>1, <1>2 DEF Inv, Somewhere

LEMMA PushInv ==
  ASSUME Inv, NEW l \in alive, NEW v \in Values, PushFront(l, v)
  PROVE  Inv' /\ ServiceStep
<1>1. /\ InCall' /\ Types' /\ Heap' /\ Sized' /\ ServiceStep
      /\ ~threw' /\ contents' = contents /\ todo' = <<Do("push", l)>>
      /\ call'.op = "push" /\ call'.list = l
      /\ \A y \in Lists : ValuesOf(y)' = contents[y]
      /\ IsEmpty(Temp)'
  <2>1. Begin("push", l, Null, v, <<Do("push", l)>>) /\ list' = list
    BY DEF PushFront
  <2>2. "push" \in Service!Operations /\ "push" \notin Service!Constructors
        /\ "push" \in Service!Unary
    BY DEF Service!Operations, Service!Constructors, Service!Unary
  <2>3. l \in Lists
    BY DEF Inv, Types
  <2> QED
    BY <2>1, <2>2, <2>3, Begins
<1>2. AtPush'
  BY <1>1 DEF AtPush, Do, Untouched
<1> QED
  BY <1>1, <1>2 DEF Inv, Somewhere

LEMMA PopInv ==
  ASSUME Inv, NEW l \in alive, PopFront(l)
  PROVE  Inv' /\ ServiceStep
<1>1. /\ InCall' /\ Types' /\ Heap' /\ Sized' /\ ServiceStep
      /\ ~threw' /\ contents' = contents /\ todo' = <<Do("pop", l)>>
      /\ call'.op = "pop" /\ call'.list = l
      /\ \A y \in Lists : ValuesOf(y)' = contents[y]
      /\ IsEmpty(Temp)'
  <2>1. Begin("pop", l, Null, Null, <<Do("pop", l)>>) /\ list' = list
    BY DEF PopFront
  <2>2. "pop" \in Service!Operations /\ "pop" \notin Service!Constructors
        /\ "pop" \in Service!Unary
    BY DEF Service!Operations, Service!Constructors, Service!Unary
  <2>3. l \in Lists
    BY DEF Inv, Types
  <2> QED
    BY <2>1, <2>2, <2>3, Begins
<1>2. AtPop'
  BY <1>1 DEF AtPop, Do, Untouched
<1> QED
  BY <1>1, <1>2 DEF Inv, Somewhere

\* An empty object is to be filled from the first node of o.
LEMMA FillingFirst ==
  ASSUME Types', Heap', NEW x \in Objects, NEW o \in Objects, call'.other = o,
         IsEmpty(x)', list'[o].head = list[o].head, NEW how
  PROVE  /\ Filling(x, how)' = Fill(x, how, o)
         /\ Len(Chain(x)') = 0
<1>1. Len(Chain(x)') = 0
  BY ReadsNext DEF Reads
<1>2. Path(node', list'[o].head, Chain(o)') /\ Chain(o)' \in Seq(Nodes)
  BY DEF Heap, Path
<1>3. list[o].head = IF 0 = Len(Chain(o)') THEN Null ELSE Chain(o)'[0 + 1]
  <2> DEFINE c == Chain(o)'
  <2>1. c = <<>> <=> 0 = Len(c)
    BY <1>2, EmptySeq
  <2> QED
    BY <1>2, <2>1 DEF Path
<1> QED
  BY <1>1, <1>3 DEF Filling, Fill

LEMMA ConstructCopyInv ==
  ASSUME Inv, NEW l \in Lists, NEW o \in alive, NEW a \in Allocators, ConstructCopy(l, o, a)
  PROVE  Inv' /\ ServiceStep
<1>1. /\ InCall' /\ Types' /\ Heap' /\ Sized' /\ ServiceStep
      /\ ~threw' /\ contents' = contents /\ todo' = <<Fill(l, "copy", o)>>
      /\ call' = [op |-> "constructCopy", list |-> l, other |-> o, value |-> Null]
      /\ \A y \in Lists : ValuesOf(y)' = contents[y]
      /\ IsEmpty(Temp)' /\ IsEmpty(l)' /\ list'[o].head = list[o].head
  <2>1. Begin("constructCopy", l, o, Null, <<Fill(l, "copy", o)>>) /\ l \notin alive
        /\ list' = [list EXCEPT ![l] = [NoList EXCEPT !.allocator = a]]
    BY DEF ConstructCopy
  <2>2. "constructCopy" \in Service!Operations /\ "constructCopy" \in Service!Constructors
        /\ "constructCopy" \notin Service!Unary
    BY DEF Service!Operations, Service!Constructors, Service!Unary
  <2>3. l \in Objects /\ o \in Objects
    BY DEF Objects, Inv, Types
  <2>4. NewList(l)
    BY <2>1 DEF NewList
  <2> QED
    BY <2>1, <2>2, <2>3, <2>4, Begins
<1>2. l \in Objects /\ o \in Objects
  BY DEF Objects, Inv, Types
<1>3. Filling(l, "copy")' = Fill(l, "copy", o) /\ Len(Chain(l)') = 0
  BY <1>1, <1>2, FillingFirst
<1>4. Partly(l)'
  <2>1. Len(contents[o]) \in Nat
    BY <1>1, LenProperties DEF Types, Inv
  <2> QED
    BY <1>1, <1>3, <2>1 DEF Partly
<1>5. AtConstructFill'
  BY <1>1, <1>3, <1>4 DEF AtConstructFill, Untouched
<1> QED
  BY <1>1, <1>5 DEF Inv, Somewhere

LEMMA SelfAssignInv ==
  ASSUME Inv, NEW l \in alive, AssignCopy(l, l) \/ AssignMove(l, l)
  PROVE  Inv' /\ ServiceStep
<1>1. /\ InCall' /\ Types' /\ Heap' /\ Sized' /\ ServiceStep
      /\ ~threw' /\ contents' = contents /\ todo' = <<>>
      /\ call'.op \in {"assignCopy", "assignMove"} /\ call'.list = l /\ call'.other = l
      /\ \A y \in Lists : ValuesOf(y)' = contents[y]
      /\ IsEmpty(Temp)' /\ l \in Lists
  <2>1. PICK op \in {"assignCopy", "assignMove"} : Begin(op, l, l, Null, <<>>) /\ list' = list
    BY DEF AssignCopy, AssignMove
  <2>2. op \in Service!Operations /\ op \notin Service!Constructors /\ op \notin Service!Unary
    BY DEF Service!Operations, Service!Constructors, Service!Unary
  <2>3. l \in Lists
    BY DEF Inv, Types
  <2> QED
    BY <2>1, <2>2, <2>3, Begins
<1>2. AllValues' = contents /\ AllValues' = [contents EXCEPT ![l] = contents[l]]
  BY <1>1 DEF AllValues, Types, Inv
<1>3. Finished'
  BY <1>1, <1>2, Finishes
<1> QED
  BY <1>1, <1>3 DEF Inv, Somewhere, AtReturn

LEMMA AssignCopyInv ==
  ASSUME Inv, NEW l \in alive, NEW o \in alive, AssignCopy(l, o), l # o
  PROVE  Inv' /\ ServiceStep
<1> DEFINE steps == <<Fill(Temp, "copy", o), Do2("swap", l, Temp), Do("clear", Temp)>>
<1>0. l \in Lists /\ l \in Objects /\ o \in Objects /\ Temp \in Objects \ Lists
  BY ListAssumption DEF Objects, Inv, Types
<1>a. /\ Begin("assignCopy", l, o, Null, steps)
      /\ list' = [list EXCEPT ![Temp] = [NoList EXCEPT !.allocator = list[l].allocator]]
  BY DEF AssignCopy, NewTemp
<1>b. list[l].allocator \in Allocators /\ Types
  BY <1>0, <1>a, Rests DEF Begin, Resting, Types
<1>1. /\ InCall' /\ Types' /\ Heap' /\ Sized' /\ ServiceStep
      /\ ~threw' /\ contents' = contents /\ todo' = steps
      /\ call' = [op |-> "assignCopy", list |-> l, other |-> o, value |-> Null]
      /\ \A y \in Lists : ValuesOf(y)' = contents[y]
      /\ IsEmpty(Temp)' /\ list'[o].head = list[o].head
  <2>1. "assignCopy" \in Service!Operations /\ "assignCopy" \notin Service!Constructors
        /\ "assignCopy" \notin Service!Unary
    BY DEF Service!Operations, Service!Constructors, Service!Unary
  <2>2. NewList(Temp)
    BY <1>a, <1>b DEF NewList
  <2>3. Begin("assignCopy", l, o, Null, steps) /\ l \in Lists
    BY <1>0, <1>a
  <2> HIDE DEF steps
  <2> QED
    BY <1>0, <2>1, <2>2, <2>3, Begins
<1>2. SameAllocator(l, Temp)'
  BY <1>0, <1>a, <1>b DEF SameAllocator, Types, NoList
<1>3. Filling(Temp, "copy")' = Fill(Temp, "copy", o) /\ Len(Chain(Temp)') = 0
  BY <1>0, <1>1, FillingFirst
<1>4. Partly(Temp)'
  <2>1. Len(contents[o]) \in Nat
    BY <1>1, LenProperties DEF Types, Inv
  <2> QED
    BY <1>1, <1>3, <2>1 DEF Partly
<1>5. AtCopyFill'
  BY <1>1, <1>2, <1>3, <1>4 DEF AtCopyFill, Copying, Untouched, Do, Do2
<1> QED
  BY <1>1, <1>5 DEF Inv, Somewhere

\* A sequence of which nothing has been moved.
LEMMA MovedNone ==
  ASSUME NEW S, NEW s \in Seq(S)
  PROVE  Service!MovedFrom(s, 0) = s
  BY LenProperties DEF Service!MovedFrom

LEMMA AssignMoveFillInv ==
  ASSUME Inv, NEW l \in alive, NEW o \in alive, AssignMove(l, o), l # o,
         ~kind.propagates, list[l].allocator # list[o].allocator
  PROVE  Inv' /\ ServiceStep
<1> DEFINE steps == <<Fill(Temp, "move", o), Do("clear", l), Do2("swap", l, Temp),
                      Do("clear", o), Do("clear", Temp)>>
<1>0. l \in Lists /\ l \in Objects /\ o \in Lists /\ o \in Objects /\ Temp \in Objects \ Lists
  BY ListAssumption DEF Objects, Inv, Types
<1>a. /\ Begin("assignMove", l, o, Null, steps)
      /\ list' = [list EXCEPT ![Temp] = [NoList EXCEPT !.allocator = list[l].allocator]]
  BY DEF AssignMove, NewTemp
<1>b. list[l].allocator \in Allocators /\ Types
  BY <1>0, <1>a, Rests DEF Begin, Resting, Types
<1>1. /\ InCall' /\ Types' /\ Heap' /\ Sized' /\ ServiceStep
      /\ ~threw' /\ contents' = contents /\ todo' = steps
      /\ call' = [op |-> "assignMove", list |-> l, other |-> o, value |-> Null]
      /\ \A y \in Lists : ValuesOf(y)' = contents[y]
      /\ IsEmpty(Temp)' /\ list'[o].head = list[o].head
  <2>1. "assignMove" \in Service!Operations /\ "assignMove" \notin Service!Constructors
        /\ "assignMove" \notin Service!Unary
    BY DEF Service!Operations, Service!Constructors, Service!Unary
  <2>2. NewList(Temp)
    BY <1>a, <1>b DEF NewList
  <2>3. Begin("assignMove", l, o, Null, steps) /\ l \in Lists
    BY <1>0, <1>a
  <2> HIDE DEF steps
  <2> QED
    BY <1>0, <2>1, <2>2, <2>3, Begins
<1>2. SameAllocator(l, Temp)'
  BY <1>0, <1>a, <1>b DEF SameAllocator, Types, NoList
<1>3. Filling(Temp, "move")' = Fill(Temp, "move", o) /\ Len(Chain(Temp)') = 0
  BY <1>0, <1>1, FillingFirst
<1>4. Partly(Temp)'
  <2>1. Len(contents[o]) \in Nat
    BY <1>0, <1>1, LenProperties DEF Types, Inv
  <2> QED
    BY <1>1, <1>3, <2>1 DEF Partly
<1>5. (ValuesOf(call.other) = Service!MovedFrom(contents[call.other], Len(Chain(Temp))))'
  <2>1. Service!MovedFrom(contents[o], 0) = contents[o]
    BY <1>0, <1>b, MovedNone DEF Types
  <2> QED
    BY <1>0, <1>1, <1>3, <2>1 DEF Service!MovedFrom
<1>6. AtMoveFill'
  BY <1>1, <1>2, <1>3, <1>4, <1>5 DEF AtMoveFill, Moving, Untouched, Do, Do2
<1> QED
  BY <1>1, <1>6 DEF Inv, Somewhere

LEMMA AssignMoveStealInv ==
  ASSUME Inv, NEW l \in alive, NEW o \in alive, AssignMove(l, o), l # o,
         kind.propagates \/ list[l].allocator = list[o].allocator
  PROVE  Inv' /\ ServiceStep
<1>1. PICK steps : /\ Begin("assignMove", l, o, Null, steps) /\ list' = list
                   /\ \/ steps = <<Do("clear", l), Do2("takeAllocator", l, o), Do2("steal", l, o)>>
                      \/ /\ steps = <<Do("clear", l), Do2("steal", l, o)>>
                         /\ list[l].allocator = list[o].allocator
  <2>1. CASE kind.propagates
    BY <2>1 DEF AssignMove
  <2>2. CASE ~kind.propagates
    BY <2>2 DEF AssignMove
  <2> QED
    BY <2>1, <2>2
<1>2. /\ InCall' /\ Types' /\ Heap' /\ Sized' /\ ServiceStep
      /\ ~threw' /\ contents' = contents /\ todo' = steps
      /\ call' = [op |-> "assignMove", list |-> l, other |-> o, value |-> Null]
      /\ \A y \in Lists : ValuesOf(y)' = contents[y]
      /\ IsEmpty(Temp)'
  <2>1. "assignMove" \in Service!Operations /\ "assignMove" \notin Service!Constructors
        /\ "assignMove" \notin Service!Unary
    BY DEF Service!Operations, Service!Constructors, Service!Unary
  <2>2. l \in Lists
    BY DEF Inv, Types
  <2> QED
    BY <1>1, <2>1, <2>2, Begins
<1>3. Stealing'
  BY <1>2 DEF Stealing, Moving, Untouched
<1>4. AtStealClear'
  BY <1>1, <1>2, <1>3 DEF AtStealClear, Do, Do2, SameAllocator
<1> QED
  BY <1>2, <1>4 DEF Inv, Somewhere

LEMMA ConstructMoveInv ==
  ASSUME Inv, NEW l \in Lists, NEW o \in alive, ConstructMove(l, o)
  PROVE  Inv' /\ ServiceStep
<1>1. /\ Begin("constructMove", l, o, Null, <<>>) /\ l \notin alive /\ call = NoCall
      /\ list' = [list EXCEPT ![l] = list[o],
                              ![o] = [NoList EXCEPT !.allocator = list[o].allocator]]
  BY DEF ConstructMove, Begin
<1>2. /\ Types /\ Heap /\ Resting /\ \A x \in Objects : list[x].size = Len(Chain(x))
      /\ \A y \in Lists : ValuesOf(y) = contents[y]
      /\ IsEmpty(Temp) /\ list[l] = NoList
  BY <1>1, Rests
<1>3. /\ l \in Objects /\ o \in Objects /\ o \in Lists /\ Temp \in Objects \ Lists /\ l # o
      /\ alive \subseteq Objects /\ Lists \subseteq Objects /\ Null \notin Objects
  BY <1>1, <1>2, ListAssumption DEF Objects, Types
<1>4. /\ list'[l] = list[o]
      /\ list'[o] = [head |-> Null, size |-> 0, allocator |-> list[o].allocator]
      /\ \A x \in Objects \ {l, o} : list'[x] = list[x]
  BY <1>1, <1>2, <1>3 DEF Types, NoList
<1>5. /\ InCall' /\ ~threw' /\ contents' = contents /\ alive' = alive /\ kind' = kind
      /\ node' = node /\ todo' = <<>>
      /\ call' = [op |-> "constructMove", list |-> l, other |-> o, value |-> Null]
      /\ ServiceStep
  <2>1. "constructMove" \in Service!Operations /\ "constructMove" \in Service!Constructors
        /\ "constructMove" \notin Service!Unary
    BY DEF Service!Operations, Service!Constructors, Service!Unary
  <2>2. \A x \in Lists \ (alive \cup {l}) : list'[x] = list[x]
    BY <1>3, <1>4
  <2>3. \A x \in alive \cup {l} : list'[x].allocator # Null
    <3>1. \A x \in alive : list[x].allocator # Null
      BY <1>2 DEF Resting
    <3> QED
      BY <1>3, <1>4, <3>1
  <2> QED
    BY <1>1, <2>1, <2>2, <2>3, Called
<1>6. Types'
  <2>1. list' \in [Objects -> [head : Nodes \cup {Null}, size : Nat,
                               allocator : Allocators \cup {Null}]]
    <3> DEFINE Record == [head : Nodes \cup {Null}, size : Nat, allocator : Allocators \cup {Null}]
    <3>1. \A x \in Objects : list[x] \in Record
      BY <1>2 DEF Types
    <3>2. list'[o] \in Record
      <4>1. list[o].allocator \in Allocators \cup {Null}
        BY <1>3, <3>1
      <4> QED
        BY <1>4, <4>1
    <3> HIDE DEF Record
    <3>3. \A x \in Objects : list'[x] \in Record
      BY <1>3, <1>4, <3>1, <3>2
    <3>4. list' = [x \in Objects |-> list'[x]]
      BY <1>1, <1>2 DEF Types
    <3>5. list' \in [Objects -> Record]
      BY <3>3, <3>4
    <3> QED
      BY <3>5 DEF Record
  <2>2. threw' = threw
    BY <1>1 DEF Begin
  <2> QED
    BY <1>2, <1>5, <2>1, <2>2 DEF Types
<1> DEFINE from == [x \in Objects |-> IF x = l THEN o ELSE IF x = o THEN Null ELSE x]
<1>7. /\ from \in [Objects -> Objects \cup {Null}]
      /\ from[l] = o /\ from[o] = Null /\ \A x \in Objects \ {l, o} : from[x] = x
  BY <1>3
<1> HIDE DEF from
<1>8. /\ Heap'
      /\ \A x \in Objects :
           /\ from[x] = Null => Chain(x)' = <<>> /\ ValuesOf(x)' = <<>>
           /\ from[x] # Null => Chain(x)' = Chain(from[x]) /\ ValuesOf(x)' = ValuesOf(from[x])
  <2>1. \A x \in Objects : from[x] = Null => list'[x].head = Null
    BY <1>3, <1>4, <1>7
  <2>2. \A x \in Objects : from[x] # Null =>
          /\ list'[x].head = list[from[x]].head
          /\ IsEmpty(from[x]) \/ list'[x].allocator = list[from[x]].allocator
    BY <1>3, <1>4, <1>7
  <2>3. \A x, y \in Objects : from[x] = from[y] /\ from[x] # Null => x = y
    BY <1>3, <1>7
  <2>4. \A y \in Objects : IsEmpty(y) \/ kind.arena \/ \E x \in Objects : from[x] = y
    <3>1. IsEmpty(l)
      BY <1>2 DEF IsEmpty, NoList
    <3> QED
      BY <1>3, <1>7, <3>1
  <2> QED
    BY <1>2, <1>5, <1>6, <1>7, <2>1, <2>2, <2>3, <2>4, HeadsMoved
<1>9. /\ ValuesOf(l)' = ValuesOf(o) /\ ValuesOf(o)' = <<>> /\ Chain(l)' = Chain(o)
      /\ Chain(o)' = <<>>
      /\ \A x \in Objects \ {l, o} : ValuesOf(x)' = ValuesOf(x) /\ Chain(x)' = Chain(x)
  BY <1>3, <1>7, <1>8
<1>10. Sized'
  <2>1. \A x \in Objects : list'[x].size = Len(Chain(x)')
    BY <1>2, <1>3, <1>4, <1>9
  <2> QED
    BY <2>1 DEF Sized
<1>11. AllValues' = [contents EXCEPT ![l] = contents[o], ![o] = <<>>]
  BY <1>2, <1>3, <1>9 DEF AllValues, Types
<1>12. Finished'
  BY <1>5, <1>11, Finishes
<1>13. IsEmpty(Temp)'
  BY <1>2, <1>3, <1>4 DEF IsEmpty
<1> QED
  BY <1>5, <1>6, <1>8, <1>10, <1>12, <1>13 DEF Inv, Somewhere, AtReturn

LEMMA ReleaseInv ==
  ASSUME Inv, NEW l \in alive, ReleaseNodes(l)
  PROVE  Inv' /\ ServiceStep
<1>1. /\ Begin("release", l, Null, Null, <<>>) /\ call = NoCall /\ kind.arena
      /\ list' = [list EXCEPT ![l].head = Null, ![l].size = 0]
  BY DEF ReleaseNodes, Begin
<1>2. /\ Types /\ Heap /\ Resting /\ \A x \in Objects : list[x].size = Len(Chain(x))
      /\ \A y \in Lists : ValuesOf(y) = contents[y]
      /\ IsEmpty(Temp)
  BY <1>1, Rests
<1>3. /\ l \in Objects /\ l \in Lists /\ Temp \in Objects \ Lists
      /\ alive \subseteq Objects /\ Lists \subseteq Objects /\ Null \notin Objects
  BY <1>1, <1>2, ListAssumption DEF Objects, Types
<1>4. /\ list'[l] = [head |-> Null, size |-> 0, allocator |-> list[l].allocator]
      /\ \A x \in Objects \ {l} : list'[x] = list[x]
  <2>1. list[l] \in [head : Nodes \cup {Null}, size : Nat, allocator : Allocators \cup {Null}]
    BY <1>2, <1>3 DEF Types
  <2>2. list'[l] = [list[l] EXCEPT !.head = Null, !.size = 0]
    BY <1>1, <1>2, <1>3 DEF Types
  <2> QED
    BY <1>1, <1>2, <1>3, <2>1, <2>2 DEF Types
<1>5. /\ InCall' /\ ~threw' /\ contents' = contents /\ alive' = alive /\ kind' = kind
      /\ node' = node /\ todo' = <<>>
      /\ call' = [op |-> "release", list |-> l, other |-> Null, value |-> Null]
      /\ ServiceStep
  <2>1. "release" \in Service!Operations /\ "release" \notin Service!Constructors
        /\ "release" \in Service!Unary
    BY DEF Service!Operations, Service!Constructors, Service!Unary
  <2>2. \A x \in Lists \ (alive \cup {l}) : list'[x] = list[x]
    BY <1>3, <1>4
  <2>3. \A x \in alive \cup {l} : list'[x].allocator # Null
    <3>1. \A x \in alive : list[x].allocator # Null
      BY <1>2 DEF Resting
    <3> QED
      BY <1>3, <1>4, <3>1
  <2> QED
    BY <1>1, <1>3, <2>1, <2>2, <2>3, Called
<1>6. Types'
  <2>1. list' \in [Objects -> [head : Nodes \cup {Null}, size : Nat,
                               allocator : Allocators \cup {Null}]]
    <3> DEFINE Record == [head : Nodes \cup {Null}, size : Nat, allocator : Allocators \cup {Null}]
    <3>1. \A x \in Objects : list[x] \in Record
      BY <1>2 DEF Types
    <3>2. list'[l] \in Record
      <4>1. list[l].allocator \in Allocators \cup {Null}
        BY <1>3, <3>1
      <4> QED
        BY <1>4, <4>1
    <3> HIDE DEF Record
    <3>3. \A x \in Objects : list'[x] \in Record
      BY <1>3, <1>4, <3>1, <3>2
    <3>4. list' = [x \in Objects |-> list'[x]]
      BY <1>1, <1>2 DEF Types
    <3>5. list' \in [Objects -> Record]
      BY <3>3, <3>4
    <3> QED
      BY <3>5 DEF Record
  <2>2. threw' = threw
    BY <1>1 DEF Begin
  <2> QED
    BY <1>2, <1>5, <2>1, <2>2 DEF Types
<1> DEFINE from == [x \in Objects |-> IF x = l THEN Null ELSE x]
<1>7. /\ from \in [Objects -> Objects \cup {Null}]
      /\ from[l] = Null /\ \A x \in Objects \ {l} : from[x] = x
  BY <1>3
<1> HIDE DEF from
<1>8. /\ Heap'
      /\ \A x \in Objects :
           /\ from[x] = Null => Chain(x)' = <<>> /\ ValuesOf(x)' = <<>>
           /\ from[x] # Null => Chain(x)' = Chain(from[x]) /\ ValuesOf(x)' = ValuesOf(from[x])
  <2>1. \A x \in Objects : from[x] = Null => list'[x].head = Null
    BY <1>3, <1>4, <1>7
  <2>2. \A x \in Objects : from[x] # Null =>
          /\ list'[x].head = list[from[x]].head
          /\ IsEmpty(from[x]) \/ list'[x].allocator = list[from[x]].allocator
    BY <1>3, <1>4, <1>7
  <2>3. \A x, y \in Objects : from[x] = from[y] /\ from[x] # Null => x = y
    BY <1>3, <1>7
  <2>4. \A y \in Objects : IsEmpty(y) \/ kind.arena \/ \E x \in Objects : from[x] = y
    BY <1>1
  <2> QED
    BY <1>2, <1>5, <1>6, <1>7, <2>1, <2>2, <2>3, <2>4, HeadsMoved
<1>9. /\ ValuesOf(l)' = <<>> /\ Chain(l)' = <<>>
      /\ \A x \in Objects \ {l} : ValuesOf(x)' = ValuesOf(x) /\ Chain(x)' = Chain(x)
  BY <1>3, <1>7, <1>8
<1>10. Sized'
  <2>1. \A x \in Objects : list'[x].size = Len(Chain(x)')
    BY <1>2, <1>3, <1>4, <1>9
  <2> QED
    BY <2>1 DEF Sized
<1>11. AllValues' = [contents EXCEPT ![l] = <<>>]
  BY <1>2, <1>3, <1>9 DEF AllValues, Types
<1>12. Finished'
  BY <1>5, <1>11, Finishes
<1>13. IsEmpty(Temp)'
  BY <1>2, <1>3, <1>4 DEF IsEmpty
<1> QED
  BY <1>5, <1>6, <1>8, <1>10, <1>12, <1>13 DEF Inv, Somewhere, AtReturn

-----------------------------------------------------------------------------
(* The end of a call, and the reset of a pool.                             *)

LEMMA ReturnInv ==
  ASSUME Inv, Return
  PROVE  Inv' /\ ServiceStep
<1> DEFINE l == call.list
           born == call.op \in Service!Constructors /\ ~threw
           dead == IF ~born /\ call.op \in Service!Constructors \cup {"destroy"}
                   THEN {l} ELSE {}
<1>1. /\ Types /\ Heap /\ Sized /\ InCall /\ AtReturn
      /\ call # NoCall /\ todo = <<>>
  <2>1. Types /\ Heap /\ Sized /\ InCall /\ Somewhere
    BY DEF Inv, Return, Resting
  <2> QED
    BY <2>1, Where DEF Return
<1>2. /\ alive' = (alive \ dead) \cup (IF born THEN {l} ELSE {})
      /\ list' = [x \in Objects |-> IF x \in dead \cup {Temp} THEN NoList ELSE list[x]]
      /\ contents' = AllValues
      /\ call' = NoCall /\ threw' = FALSE /\ node' = node /\ todo' = todo /\ kind' = kind
  BY DEF Return, AllValues
<1>3. /\ IsEmpty(Temp) /\ (threw => Thrown) /\ (~threw => Done) /\ threw \in BOOLEAN
      /\ l \in Lists /\ l \in Objects /\ Temp \in Objects \ Lists /\ Lists \subseteq Objects
      /\ alive \subseteq Lists
  BY <1>1, ListAssumption DEF AtReturn, Finished, InCall, Objects, Types
<1>4. \A x \in dead : x = l /\ IsEmpty(x)
  <2>1. SUFFICES ASSUME dead # {} PROVE ValuesOf(l) = <<>>
    BY <1>1, <1>3, ValuesOfChain
  <2>2. CASE threw
    <3>1. call.op = "constructCopy"
      BY <1>3, <2>1, <2>2 DEF Thrown, Service!Constructors
    <3>2. AllValues = contents /\ contents[l] = <<>>
      BY <1>1, <1>3, <2>2, <3>1 DEF Thrown, InCall, Service!Constructors
    <3> QED
      BY <1>3, <3>2 DEF AllValues
  <2>3. CASE ~threw
    <3>1. call.op = "destroy"
      BY <2>1, <2>3
    <3>2. AllValues = [contents EXCEPT ![l] = <<>>]
      BY <1>3, <2>3, <3>1 DEF Done, Service!Effect
    <3> QED
      BY <1>1, <1>3, <3>2 DEF AllValues, Types
  <2> QED
    BY <2>2, <2>3
<1>5. alive' = CASE threw -> alive
                 [] ~threw /\ call.op \in Service!Constructors -> alive \cup {l}
                 [] ~threw /\ call.op = "destroy" -> alive \ {l}
                 [] OTHER -> alive
  <2>1. CASE threw
    <3>1. call.op \in Service!Constructors => l \notin alive
      BY <1>1 DEF InCall
    <3>2. call.op # "destroy"
      BY <1>3, <2>1 DEF Thrown
    <3> QED
      BY <1>2, <2>1, <3>1, <3>2
  <2>2. CASE ~threw
    <3>1. "destroy" \notin Service!Constructors
      BY DEF Service!Constructors
    <3> QED
      BY <1>2, <2>2, <3>1
  <2> QED
    BY <1>3, <2>1, <2>2
<1>6. ServiceStep
  <2>1. CASE threw
    <3>1. Service!Throw
      BY <1>2, <1>3, <1>5, <2>1 DEF Thrown, Service!Throw, NoCall
    <3> QED
      BY <3>1 DEF ServiceStep, Service!Next
  <2>2. CASE ~threw
    <3>1. alive' = CASE call.op \in Service!Constructors -> alive \cup {l}
                     [] call.op = "destroy" -> alive \ {l}
                     [] OTHER -> alive
      BY <1>5, <2>2 DEF Service!Constructors
    <3>2. Service!Return
      BY <1>1, <1>2, <1>3, <2>2, <3>1 DEF Done, Service!Return, NoCall
    <3> QED
      BY <3>2 DEF ServiceStep, Service!Next
  <2> QED
    BY <2>1, <2>2
<1> HIDE DEF dead, born
<1>7. \A x \in Objects : list'[x] = IF x \in dead \cup {Temp} THEN NoList ELSE list[x]
  BY <1>2
<1>8. \A x \in Objects :
        /\ list'[x].head = list[x].head
        /\ IsEmpty(x) \/ list'[x].allocator = list[x].allocator
        /\ list'[x].size = Len(Chain(x))
  <2> SUFFICES ASSUME NEW x \in Objects
               PROVE  /\ list'[x].head = list[x].head
                      /\ IsEmpty(x) \/ list'[x].allocator = list[x].allocator
                      /\ list'[x].size = Len(Chain(x))
    OBVIOUS
  <2>1. list[x].size = Len(Chain(x))
    BY <1>1 DEF Sized, Doing
  <2>2. CASE x \in dead \cup {Temp}
    <3>1. IsEmpty(x)
      BY <1>3, <1>4, <2>2
    <3>2. Len(Chain(x)) = 0
      BY <1>1, <3>1, ValuesOfChain
    <3> QED
      BY <1>7, <2>2, <3>1, <3>2 DEF IsEmpty, NoList
  <2>3. CASE x \notin dead \cup {Temp}
    BY <1>7, <2>1, <2>3
  <2> QED
    BY <2>2, <2>3
<1>9. Types'
  <2>1. list' \in [Objects -> [head : Nodes \cup {Null}, size : Nat,
                               allocator : Allocators \cup {Null}]]
    <3>1. NoList \in [head : Nodes \cup {Null}, size : Nat, allocator : Allocators \cup {Null}]
      BY DEF NoList
    <3> QED
      BY <1>1, <1>2, <3>1 DEF Types
  <2>2. contents' \in [Lists -> Seq(Values \cup {Moved})]
    BY <1>1, <1>2, <1>3, ValuesOfChain DEF AllValues
  <2>3. alive' \subseteq Lists
    BY <1>2, <1>3
  <2> QED
    BY <1>1, <1>2, <2>1, <2>2, <2>3 DEF Types
<1>10. Heap' /\ \A x \in Objects : Chain(x)' = Chain(x) /\ ValuesOf(x)' = ValuesOf(x)
  BY <1>1, <1>2, <1>8, <1>9, OthersChanged
<1>11. Sized'
  BY <1>8, <1>10 DEF Sized
<1>12. Resting'
  <2>1. Untouched({})'
    BY <1>2, <1>3, <1>10 DEF Untouched, AllValues
  <2>2. ASSUME NEW x \in Objects \ alive' PROVE list'[x] = NoList
    <3>1. CASE x = Temp
      BY <1>7, <3>1
    <3>2. CASE x \in Lists /\ x # l
      <4>1. x \notin alive
        BY <1>4, <1>2, <3>2
      <4>2. list[x] = NoList
        BY <1>1, <3>2, <4>1 DEF InCall
      <4> QED
        BY <1>7, <4>2
    <3>3. CASE x = l
      <4>1. x \in dead
        BY <1>1, <1>2, <2>2, <3>3 DEF dead, born, InCall
      <4> QED
        BY <1>7, <4>1
    <3> QED
      BY <3>1, <3>2, <3>3 DEF Objects
  <2>3. ASSUME NEW x \in alive' PROVE list'[x].allocator # Null
    <3>1. x \notin dead /\ x \in alive \cup {l}
      BY <1>2, <1>3, <1>4 DEF dead, born
    <3>2. x \in Objects /\ x # Temp
      BY <1>3, <3>1
    <3>3. list[x].allocator # Null
      BY <1>1, <3>1 DEF InCall
    <3> QED
      BY <1>7, <3>1, <3>2, <3>3
  <2> QED
    BY <1>1, <1>2, <2>1, <2>2, <2>3 DEF Resting, NoCall
<1> QED
  BY <1>6, <1>9, <1>10, <1>11, <1>12 DEF Inv

LEMMA ResetInv ==
  ASSUME Inv, NEW a \in Allocators, ResetArena(a)
  PROVE  Inv' /\ ServiceStep
<1>1. /\ Types /\ Heap /\ Resting /\ \A x \in Objects : list[x].size = Len(Chain(x))
  BY Rests DEF ResetArena
<1>2. /\ kind.arena /\ call = NoCall
      /\ \A l \in alive : list[l].allocator = a => list[l].head = Null
      /\ node' = [n \in Nodes |-> IF node[n].madeBy = a THEN NoNode ELSE node[n]]
      /\ alive' = alive /\ list' = list /\ todo' = todo /\ threw' = threw /\ call' = call
      /\ contents' = contents /\ kind' = kind
  BY DEF ResetArena
<1>3. Types'
  <2>1. NoNode \in [next : Nodes \cup {Null}, value : Values \cup {Moved, Null},
                    madeBy : Allocators \cup {Null}]
    BY DEF NoNode
  <2> QED
    BY <1>1, <1>2, <2>1 DEF Types
<1>4. ASSUME NEW x \in Objects, NEW n \in ChainNodes(x) PROVE node'[n] = node[n]
  <2>1. ~IsEmpty(x) /\ n \in Nodes
    BY <1>1, ValuesOfChain DEF ChainNodes
  <2>2. x \in alive
    BY <1>1, <2>1 DEF Resting, IsEmpty, NoList
  <2>3. node[n].madeBy # a
    BY <1>1, <1>2, <2>1, <2>2 DEF Heap, IsEmpty
  <2> QED
    BY <1>2, <2>1, <2>3
<1>5. Heap' /\ \A x \in Objects : Chain(x)' = Chain(x) /\ ValuesOf(x)' = ValuesOf(x)
  BY <1>1, <1>2, <1>3, <1>4, OthersChanged
<1>6. Sized'
  BY <1>1, <1>2, <1>5 DEF Sized
<1>7. Resting'
  BY <1>1, <1>2, <1>5 DEF Resting, Untouched, Objects
<1>8. ServiceStep
  BY <1>2 DEF ServiceStep
<1> QED
  BY <1>3, <1>5, <1>6, <1>7, <1>8 DEF Inv

-----------------------------------------------------------------------------
(* The steps inside a call.                                                *)

\* What the steps leave alone.
Inside ==
  alive' = alive /\ call' = call /\ contents' = contents /\ kind' = kind

LEMMA InsideKept ==
  ASSUME InCall, Types, Inside,
         \A x \in Lists \ (alive \cup {call.list}) : list'[x] = list[x],
         \A x \in alive \cup {call.list} : list'[x].allocator # Null
  PROVE  InCall' /\ ServiceStep
<1>1. ServiceStep
  BY DEF ServiceStep, Inside
<1>2. InCall'
  BY DEF InCall, Inside, Service!Operations, Service!Constructors, Service!Unary
<1> QED
  BY <1>1, <1>2

\* The arguments of a call are different objects where they need be.
LEMMA Arguments ==
  ASSUME Types, InCall
  PROVE  /\ call.list \in Lists /\ call.list \in Objects /\ Temp \in Objects \ Lists
         /\ alive \subseteq Lists /\ Lists \subseteq Objects /\ Null \notin Objects
         /\ call.op \in {"constructCopy", "assignCopy", "assignMove"} =>
              call.other \in alive /\ call.other \in Lists
         /\ call.op \notin Service!Constructors => call.list \in alive
         /\ call.op = "constructCopy" => call.list \notin alive
         /\ \A x \in alive \cup {call.list} : list[x].allocator # Null
  BY ListAssumption DEF InCall, Types, Objects, Service!Unary, Service!Constructors

\* An object that gets another size, or another head.
LEMMA TypesOfStep ==
  ASSUME Types, Inside, threw' \in BOOLEAN,
         list' \in [Objects -> [head : Nodes \cup {Null}, size : Nat,
                                allocator : Allocators \cup {Null}]],
         node' \in [Nodes -> [next : Nodes \cup {Null}, value : Values \cup {Moved, Null},
                              madeBy : Allocators \cup {Null}]]
  PROVE  Types'
  BY DEF Types, Inside

\* create_node throws: nothing is different but a node of an arena's.
LEMMA CreationFails ==
  ASSUME Types, Heap, InCall, NEW x \in Objects, CreateNodeFails(x), Inside, list' = list,
         threw' = TRUE
  PROVE  /\ Types' /\ Heap' /\ InCall' /\ ServiceStep
         /\ \A y \in Objects : Chain(y)' = Chain(y) /\ ValuesOf(y)' = ValuesOf(y)
<1>1. /\ node' \in [Nodes -> [next : Nodes \cup {Null}, value : Values \cup {Moved, Null},
                              madeBy : Allocators \cup {Null}]]
      /\ kind.arena \/ node' = node
      /\ \A y \in Objects : \A k \in ChainNodes(y) : node'[k] = node[k]
  <2>1. CASE ~kind.arena
    BY <2>1 DEF CreateNodeFails, Types
  <2>2. CASE kind.arena
    <3>1. PICK n \in FreeNodes : node' = [node EXCEPT ![n].madeBy = list[x].allocator]
      BY <2>2 DEF CreateNodeFails
    <3>2. n \in Nodes /\ \A y \in Objects : n \notin ChainNodes(y)
      BY FreeIsOff
    <3>3. \A y \in Objects : ChainNodes(y) \subseteq Nodes
      BY ValuesOfChain
    <3>4. \A k \in Nodes \ {n} : node'[k] = node[k]
      BY <3>1, <3>2 DEF Types
    <3>5. list[x].allocator \in Allocators \cup {Null}
      BY DEF Types
    <3>6. node' \in [Nodes -> [next : Nodes \cup {Null}, value : Values \cup {Moved, Null},
                               madeBy : Allocators \cup {Null}]]
      BY <3>1, <3>2, <3>5 DEF Types
    <3> QED
      BY <2>2, <3>2, <3>3, <3>4, <3>6
  <2> QED
    BY <2>1, <2>2
<1>2. Types'
  BY <1>1, TypesOfStep DEF Types
<1>3. Heap' /\ \A y \in Objects : Chain(y)' = Chain(y) /\ ValuesOf(y)' = ValuesOf(y)
  BY <1>1, <1>2, OthersChanged DEF Inside
<1>4. InCall' /\ ServiceStep
  BY Arguments, InsideKept
<1> QED
  BY <1>2, <1>3, <1>4

LEMMA PushNodeInv ==
  ASSUME Inv, PushNode
  PROVE  Inv' /\ ServiceStep
<1>0. PICK l : l = call.list
  OBVIOUS
<1>1. /\ Types /\ Heap /\ Sized /\ InCall /\ AtPush /\ Inside
  <2>1. Types /\ Heap /\ Sized /\ InCall /\ Somewhere /\ Inside
    BY DEF Inv, PushNode, Resting, Doing, Inside
  <2> QED
    BY <2>1, Where DEF PushNode
<1>2. /\ call.op = "push" /\ todo = <<Do("push", l)>> /\ ~threw /\ IsEmpty(Temp)
      /\ \A y \in Lists : ValuesOf(y) = contents[y]
      /\ Head(todo).list = l /\ Tail(todo) = <<>>
  BY <1>0, <1>1 DEF AtPush, Untouched, Do
<1>3. /\ l \in Lists /\ l \in Objects /\ Temp \in Objects \ Lists /\ l \in alive
      /\ Lists \subseteq Objects /\ alive \subseteq Lists /\ list[l].allocator # Null
      /\ call.value \in Values /\ call.value # Null /\ l = call.list
  BY <1>0, <1>1, <1>2, Arguments, ListAssumption DEF Service!Constructors, InCall
<1>4. \A x \in Objects : list[x].size = Len(Chain(x))
  BY <1>1, <1>2 DEF Sized, Doing, Do
<1>5. CASE CreateNodeFails(l) /\ Throw(<<>>) /\ UNCHANGED list
  <2>1. /\ Types' /\ Heap' /\ InCall' /\ ServiceStep
        /\ \A y \in Objects : Chain(y)' = Chain(y) /\ ValuesOf(y)' = ValuesOf(y)
        /\ todo' = <<>> /\ threw' = TRUE /\ list' = list
    BY <1>1, <1>3, <1>5, CreationFails DEF Throw
  <2>2. Sized'
    BY <1>4, <2>1 DEF Sized
  <2>3. AllValues' = contents
    BY <1>1, <1>2, <1>3, <2>1 DEF AllValues, Types
  <2>4. Thrown'
    BY <1>1, <1>2, <1>3, <2>3 DEF Thrown, Inside
  <2>5. AtReturn'
    BY <1>2, <2>1, <2>4 DEF AtReturn, Finished, IsEmpty
  <2> QED
    BY <2>1, <2>2, <2>5 DEF Inv, Somewhere
<1>6. ASSUME NEW n \in FreeNodes,
             node' = [node EXCEPT ![n] = [next |-> list[l].head, value |-> call.value,
                                          madeBy |-> list[l].allocator]],
             list' = [list EXCEPT ![l].head = n, ![l].size = @ + 1],
             Advance, threw' = threw
      PROVE  Inv' /\ ServiceStep
  <2>1. /\ n \in Nodes /\ list[l] \in [head : Nodes \cup {Null}, size : Nat,
                                       allocator : Allocators \cup {Null}]
    BY <1>1, <1>3, FreeIsOff DEF Types
  <2>2. /\ list'[l].head = n /\ list'[l].size = list[l].size + 1
        /\ list'[l].allocator = list[l].allocator
        /\ list'[l] \in [head : Nodes \cup {Null}, size : Nat, allocator : Allocators \cup {Null}]
        /\ \A y \in Objects \ {l} : list'[y] = list[y]
    <3>1. list'[l] = [list[l] EXCEPT !.head = n, !.size = list[l].size + 1]
      BY <1>1, <1>3, <1>6 DEF Types
    <3>2. \A y \in Objects \ {l} : list'[y] = list[y]
      BY <1>1, <1>3, <1>6 DEF Types
    <3>3. list[l].size \in Nat /\ list[l].allocator \in Allocators \cup {Null}
      BY <2>1
    <3>4. list'[l] = [head |-> n, size |-> list[l].size + 1, allocator |-> list[l].allocator]
      BY <2>1, <3>1
    <3> QED
      BY <2>1, <3>2, <3>3, <3>4
  <2>3. Types'
    <3>1. node' \in [Nodes -> [next : Nodes \cup {Null}, value : Values \cup {Moved, Null},
                               madeBy : Allocators \cup {Null}]]
      BY <1>1, <1>3, <1>6, <2>1 DEF Types
    <3>2. list' \in [Objects -> [head : Nodes \cup {Null}, size : Nat,
                                 allocator : Allocators \cup {Null}]]
      BY <1>1, <1>3, <1>6, <2>1, <2>2 DEF Types
    <3> QED
      BY <1>1, <1>6, <3>1, <3>2, TypesOfStep DEF Types
  <2>4. /\ Heap'
        /\ ValuesOf(l)' = <<call.value>> \o ValuesOf(l)
        /\ Len(Chain(l)') = Len(Chain(l)) + 1
        /\ \A y \in Objects \ {l} : Chain(y)' = Chain(y) /\ ValuesOf(y)' = ValuesOf(y)
    BY <1>1, <1>3, <1>6, <2>2, <2>3, NodePushed DEF Inside
  <2>5. Sized'
    <3>1. \A x \in Objects : list'[x].size = Len(Chain(x)')
      <4>1. list'[l].size = Len(Chain(l)')
        BY <1>3, <1>4, <2>2, <2>4
      <4> QED
        BY <1>4, <2>2, <2>4, <4>1
    <3> QED
      BY <3>1 DEF Sized
  <2>6. InCall' /\ ServiceStep
    <3>1. \A x \in alive \cup {l} : list'[x].allocator # Null
      BY <1>1, <1>3, <2>2, Arguments
    <3>2. \A x \in Lists \ (alive \cup {l}) : list'[x] = list[x]
      BY <1>3, <2>2
    <3> QED
      BY <1>0, <1>1, <3>1, <3>2, InsideKept
  <2>7. AllValues' = [contents EXCEPT ![l] = <<call.value>> \o @]
    <3>1. ValuesOf(l)' = <<call.value>> \o contents[l]
      BY <1>2, <1>3, <2>4
    <3>2. \A y \in Lists \ {l} : ValuesOf(y)' = contents[y]
      BY <1>2, <1>3, <2>4
    <3> QED
      BY <1>1, <1>3, <3>1, <3>2 DEF AllValues, Types
  <2>8. Finished'
    BY <1>1, <1>2, <1>3, <1>6, <2>7, Finishes DEF Inside
  <2>9. AtReturn'
    <3>1. IsEmpty(Temp)'
      BY <1>2, <1>3, <2>2 DEF IsEmpty
    <3> QED
      BY <1>2, <1>6, <2>8, <3>1 DEF AtReturn, Advance
  <2> QED
    BY <2>3, <2>4, <2>5, <2>6, <2>9 DEF Inv, Somewhere
<1> QED
  BY <1>2, <1>5, <1>6 DEF PushNode

\* The heads stay where they are; sizes, and the allocators of empty objects, may change.
LEMMA HeadsKept ==
  ASSUME Types, Heap, Inside, threw' \in BOOLEAN, node' = node,
         list' \in [Objects -> [head : Nodes \cup {Null}, size : Nat,
                                allocator : Allocators \cup {Null}]],
         \A x \in Objects : /\ list'[x].head = list[x].head
                            /\ IsEmpty(x) \/ list'[x].allocator = list[x].allocator
  PROVE  /\ Types' /\ Heap'
         /\ \A x \in Objects : Chain(x)' = Chain(x) /\ ValuesOf(x)' = ValuesOf(x)
<1>1. Types'
  BY TypesOfStep DEF Types
<1> QED
  BY <1>1, OthersChanged DEF Inside

\* pop_front and clear take the first node of x off.
LEMMA DropInside ==
  ASSUME Types, Heap, InCall, Inside, threw' \in BOOLEAN, NEW x \in Objects, ~IsEmpty(x),
         x \in alive \cup {call.list, Temp}, DestroyHead(x), NEW k \in Nat,
         list' = [list EXCEPT ![x] = [head |-> node[list[x].head].next, size |-> k,
                                      allocator |-> list[x].allocator]]
  PROVE  /\ Types' /\ Heap' /\ InCall' /\ ServiceStep
         /\ Chain(x)' = Tail(Chain(x)) /\ ValuesOf(x)' = Tail(ValuesOf(x))
         /\ Len(Chain(x)') = Len(Chain(x)) - 1
         /\ list'[x].size = k /\ list'[x].allocator = list[x].allocator
         /\ \A y \in Objects \ {x} :
              Chain(y)' = Chain(y) /\ ValuesOf(y)' = ValuesOf(y) /\ list'[y] = list[y]
<1>1. list[x].head \in Nodes
  BY DEF Types, IsEmpty
<1>2. [head |-> node[list[x].head].next, size |-> k, allocator |-> list[x].allocator]
        \in [head : Nodes \cup {Null}, size : Nat, allocator : Allocators \cup {Null}]
  <2>1. /\ node[list[x].head].next \in Nodes \cup {Null}
        /\ list[x].allocator \in Allocators \cup {Null}
    BY <1>1 DEF Types
  <2> QED
    BY <2>1
<1>3. /\ list' \in [Objects -> [head : Nodes \cup {Null}, size : Nat,
                                allocator : Allocators \cup {Null}]]
      /\ list'[x] = [head |-> node[list[x].head].next, size |-> k,
                     allocator |-> list[x].allocator]
      /\ \A y \in Objects \ {x} : list'[y] = list[y]
  BY <1>2 DEF Types
<1>4. node' \in [Nodes -> [next : Nodes \cup {Null}, value : Values \cup {Moved, Null},
                           madeBy : Allocators \cup {Null}]]
  <2>1. Deallocated(list[x].head) \in [next : Nodes \cup {Null}, value : Values \cup {Moved, Null},
                                       madeBy : Allocators \cup {Null}]
    <3>1. node[list[x].head].madeBy \in Allocators \cup {Null}
      BY <1>1 DEF Types
    <3> QED
      BY <3>1 DEF Deallocated, NoNode
  <2> QED
    BY <1>1, <2>1 DEF Types, DestroyHead
<1>5. Types'
  BY <1>3, <1>4, TypesOfStep
<1>6. /\ Heap'
      /\ Chain(x)' = Tail(Chain(x)) /\ ValuesOf(x)' = Tail(ValuesOf(x))
      /\ Len(Chain(x)') = Len(Chain(x)) - 1
      /\ \A y \in Objects \ {x} : Chain(y)' = Chain(y) /\ ValuesOf(y)' = ValuesOf(y)
  <2>1. /\ list'[x].head = node[list[x].head].next
        /\ \A y \in Objects \ {x} : list'[y].head = list[y].head
        /\ \A y \in Objects : list'[y].allocator = list[y].allocator
    BY <1>3
  <2> QED
    BY <1>5, <2>1, HeadDropped DEF Inside
<1>7. InCall' /\ ServiceStep
  <2>1. \A y \in alive \cup {call.list} : list'[y].allocator # Null
    <3>1. \A y \in Objects : list'[y].allocator = list[y].allocator
      BY <1>3
    <3> QED
      BY <3>1, Arguments
  <2>2. \A y \in Lists \ (alive \cup {call.list}) : list'[y] = list[y]
    BY <1>3, Arguments
  <2> QED
    BY <2>1, <2>2, InsideKept
<1> QED
  BY <1>3, <1>5, <1>6, <1>7

LEMMA Updated ==
  ASSUME NEW r \in [head : Nodes \cup {Null}, size : Nat, allocator : Allocators \cup {Null}],
         NEW h \in Nodes \cup {Null}, NEW k \in Nat
  PROVE  [r EXCEPT !.head = h, !.size = k] = [head |-> h, size |-> k, allocator |-> r.allocator]
<1> DEFINE q == [r EXCEPT !.head = h, !.size = k]
<1>1. q \in [head : Nodes \cup {Null}, size : Nat, allocator : Allocators \cup {Null}]
  OBVIOUS
<1>2. q.head = h /\ q.size = k /\ q.allocator = r.allocator
  OBVIOUS
<1> HIDE DEF q
<1>3. q = [head |-> h, size |-> k, allocator |-> r.allocator]
  BY <1>1, <1>2
<1> QED
  BY <1>3 DEF q

LEMMA PopNodeInv ==
  ASSUME Inv, PopNode
  PROVE  Inv' /\ ServiceStep
<1>0. PICK l : l = call.list
  OBVIOUS
<1>1. /\ Types /\ Heap /\ Sized /\ InCall /\ AtPop /\ Inside
  <2>1. Types /\ Heap /\ Sized /\ InCall /\ Somewhere /\ Inside
    BY DEF Inv, PopNode, Resting, Doing, Inside
  <2> QED
    BY <2>1, Where DEF PopNode
<1>2. /\ call.op = "pop" /\ todo = <<Do("pop", l)>> /\ ~threw /\ IsEmpty(Temp)
      /\ \A y \in Lists : ValuesOf(y) = contents[y]
      /\ Head(todo).list = l /\ Tail(todo) = <<>>
  BY <1>0, <1>1 DEF AtPop, Untouched, Do
<1>3. /\ l \in Lists /\ l \in Objects /\ Temp \in Objects \ Lists /\ l \in alive
      /\ Lists \subseteq Objects /\ alive \subseteq Lists /\ l = call.list
  BY <1>0, <1>1, <1>2, Arguments, ListAssumption DEF Service!Constructors, InCall
<1>4. \A x \in Objects : list[x].size = Len(Chain(x))
  BY <1>1, <1>2 DEF Sized, Doing, Do
<1>5. CASE IsEmpty(l)
  <2>1. threw' = TRUE /\ todo' = <<>> /\ list' = list /\ node' = node
    BY <1>2, <1>5 DEF PopNode, IsEmpty, Throw, heap
  <2>2. /\ Types' /\ Heap'
        /\ \A y \in Objects : Chain(y)' = Chain(y) /\ ValuesOf(y)' = ValuesOf(y)
    BY <1>1, <2>1, HeadsKept DEF Types
  <2>3. InCall' /\ ServiceStep
    BY <1>1, <2>1, InsideKept, Arguments
  <2>4. Sized'
    BY <1>4, <2>1, <2>2 DEF Sized
  <2>5. AllValues' = contents
    BY <1>1, <1>2, <1>3, <2>2 DEF AllValues, Types
  <2>6. contents[l] = <<>>
    BY <1>1, <1>2, <1>3, <1>5, ValuesOfChain
  <2>7. Thrown'
    BY <1>1, <1>2, <1>3, <2>5, <2>6 DEF Thrown, Inside
  <2>8. AtReturn'
    BY <1>2, <2>1, <2>7 DEF AtReturn, Finished, IsEmpty
  <2> QED
    BY <2>2, <2>3, <2>4, <2>8 DEF Inv, Somewhere
<1>6. CASE ~IsEmpty(l)
  <2>1. /\ list' = [list EXCEPT ![l].head = node[@].next, ![l].size = @ - 1]
        /\ DestroyHead(l) /\ todo' = <<>> /\ threw' = threw
    BY <1>2, <1>6 DEF PopNode, IsEmpty, Advance
  <2>2. list[l].size - 1 \in Nat /\ list[l].size = Len(Chain(l))
    <3>1. list[l].size = Len(Chain(l)) /\ Len(Chain(l)) \in Nat /\ Len(Chain(l)) # 0
      BY <1>1, <1>3, <1>4, <1>6, ValuesOfChain
    <3> QED
      BY <3>1
  <2>3. list' = [list EXCEPT ![l] = [head |-> node[list[l].head].next, size |-> list[l].size - 1,
                                     allocator |-> list[l].allocator]]
    <3>1. list[l] \in [head : Nodes \cup {Null}, size : Nat, allocator : Allocators \cup {Null}]
      BY <1>1, <1>3 DEF Types
    <3>2. list' = [list EXCEPT ![l] = [list[l] EXCEPT !.head = node[list[l].head].next,
                                                      !.size = list[l].size - 1]]
      BY <1>1, <1>3, <2>1 DEF Types
    <3>3. node[list[l].head].next \in Nodes \cup {Null}
      BY <1>1, <1>3, <1>6, <3>1 DEF Types, IsEmpty
    <3>4. [list[l] EXCEPT !.head = node[list[l].head].next, !.size = list[l].size - 1]
            = [head |-> node[list[l].head].next, size |-> list[l].size - 1,
               allocator |-> list[l].allocator]
      BY <2>2, <3>1, <3>3, Updated
    <3> QED
      BY <3>2, <3>4
  <2>4. /\ Types' /\ Heap' /\ InCall' /\ ServiceStep
        /\ ValuesOf(l)' = Tail(ValuesOf(l))
        /\ Len(Chain(l)') = Len(Chain(l)) - 1
        /\ list'[l].size = list[l].size - 1
        /\ \A y \in Objects \ {l} :
             Chain(y)' = Chain(y) /\ ValuesOf(y)' = ValuesOf(y) /\ list'[y] = list[y]
    <3>1. threw' \in BOOLEAN
      BY <1>1, <2>1 DEF Types
    <3> QED
      BY <1>1, <1>3, <1>6, <2>1, <2>2, <2>3, <3>1, DropInside
  <2>5. Sized'
    <3>1. \A x \in Objects : list'[x].size = Len(Chain(x)')
      BY <1>4, <2>2, <2>4
    <3> QED
      BY <3>1 DEF Sized
  <2>6. contents[l] # <<>>
    BY <1>1, <1>2, <1>3, <1>6, ValuesOfChain
  <2>7. AllValues' = [contents EXCEPT ![l] = Tail(@)]
    <3>1. ValuesOf(l)' = Tail(contents[l]) /\ \A y \in Lists \ {l} : ValuesOf(y)' = contents[y]
      BY <1>2, <1>3, <2>4
    <3> QED
      BY <1>1, <1>3, <3>1 DEF AllValues, Types
  <2>8. Finished'
    BY <1>1, <1>2, <1>3, <2>1, <2>6, <2>7, Finishes DEF Inside
  <2>9. IsEmpty(Temp)'
    BY <1>2, <1>3, <2>4 DEF IsEmpty
  <2> QED
    BY <2>1, <2>4, <2>5, <2>8, <2>9 DEF Inv, Somewhere, AtReturn
<1> QED
  BY <1>5, <1>6

\* What has been done stays done.
LEMMA FinishedKept ==
  ASSUME Inside, threw' = threw, AllValues' = AllValues, Finished
  PROVE  Finished'
<1>1. Service!Effect(call)' = Service!Effect(call)
  BY DEF Inside, Service!Effect
<1>2. Done => Done'
  BY <1>1 DEF Done, Inside
<1>3. Thrown => Thrown'
  BY DEF Thrown, Inside
<1> QED
  BY <1>2, <1>3 DEF Finished

LEMMA NewHead ==
  ASSUME NEW r \in [head : Nodes \cup {Null}, size : Nat, allocator : Allocators \cup {Null}],
         NEW h \in Nodes \cup {Null}
  PROVE  [r EXCEPT !.head = h] = [head |-> h, size |-> r.size, allocator |-> r.allocator]
<1> DEFINE q == [r EXCEPT !.head = h]
<1>1. q \in [head : Nodes \cup {Null}, size : Nat, allocator : Allocators \cup {Null}]
  OBVIOUS
<1>2. q.head = h /\ q.size = r.size /\ q.allocator = r.allocator
  OBVIOUS
<1> HIDE DEF q
<1>3. q = [head |-> h, size |-> r.size, allocator |-> r.allocator]
  BY <1>1, <1>2
<1> QED
  BY <1>3 DEF q

\* Who is being cleared.
LEMMA ClearedObject ==
  ASSUME Types, InCall, Somewhere, Doing("clear")
  PROVE  /\ Head(todo).list \in alive \cup {call.list, Temp}
         /\ Head(todo).list \in Objects
         /\ AtClear \/ AtConstructUndo \/ AtStealClear \/ AtMoveClear =>
              Head(todo).list = call.list
         /\ AtTempClear => Head(todo).list = Temp
         /\ AtSourceClear => Head(todo).list = call.other
<1>1. AtClear \/ AtConstructUndo \/ AtStealClear \/ AtMoveClear => Head(todo).list = call.list
  BY DEF AtClear, AtConstructUndo, AtStealClear, AtMoveClear, Do
<1>2. AtTempClear => Head(todo).list = Temp
  BY DEF AtTempClear, Do
<1>3. AtSourceClear => Head(todo).list = call.other /\ call.other \in alive
  BY Arguments DEF AtSourceClear, Moving, Do
<1> QED
  BY <1>1, <1>2, <1>3, Where, Arguments

LEMMA ClearNodeInv ==
  ASSUME Inv, ClearNode
  PROVE  Inv' /\ ServiceStep
<1>0. PICK x : x = Head(todo).list
  OBVIOUS
<1>1. /\ Types /\ Heap /\ Sized /\ InCall /\ Somewhere /\ Inside /\ Doing("clear")
      /\ todo' = todo /\ threw' = threw /\ threw' \in BOOLEAN
      /\ list' = [list EXCEPT ![x].head = node[@].next] /\ DestroyHead(x) /\ ~IsEmpty(x)
  BY <1>0 DEF Inv, ClearNode, Resting, Doing, Inside, IsEmpty, Types
<1>2. /\ x \in alive \cup {call.list, Temp} /\ x \in Objects
      /\ AtClear \/ AtConstructUndo \/ AtStealClear \/ AtMoveClear => x = call.list
      /\ AtTempClear => x = Temp
      /\ AtSourceClear => x = call.other
  BY <1>0, <1>1, ClearedObject
<1>3. /\ Types' /\ Heap' /\ InCall' /\ ServiceStep
      /\ list'[x].allocator = list[x].allocator
      /\ \A y \in Objects \ {x} :
           Chain(y)' = Chain(y) /\ ValuesOf(y)' = ValuesOf(y) /\ list'[y] = list[y]
  <2>1. list[x] \in [head : Nodes \cup {Null}, size : Nat, allocator : Allocators \cup {Null}]
    BY <1>1, <1>2 DEF Types
  <2>2. node[list[x].head].next \in Nodes \cup {Null}
    BY <1>1, <2>1 DEF Types, IsEmpty
  <2>3. list' = [list EXCEPT ![x] = [list[x] EXCEPT !.head = node[list[x].head].next]]
    BY <1>1, <1>2 DEF Types
  <2>4. list' = [list EXCEPT ![x] = [head |-> node[list[x].head].next, size |-> list[x].size,
                                     allocator |-> list[x].allocator]]
    BY <2>1, <2>2, <2>3, NewHead
  <2>5. list[x].size \in Nat
    BY <2>1
  <2> QED
    BY <1>1, <1>2, <2>4, <2>5, DropInside
<1>4. Sized'
  <2>1. \A y \in Objects \ {x} : list'[y].size = Len(Chain(y)')
    BY <1>0, <1>1, <1>3 DEF Sized
  <2>2. Doing("clear")' /\ Head(todo').list = x
    BY <1>0, <1>1 DEF Doing
  <2> QED
    BY <2>1, <2>2 DEF Sized
<1>5. /\ call.list \in Objects /\ Temp \in Objects \ Lists /\ call.list \in Lists
      /\ Lists \subseteq Objects
      /\ call.op \in {"assignCopy", "assignMove"} => call.other \in Lists
  BY <1>1, Arguments
<1>6. /\ \A y \in Lists \ {x} : ValuesOf(y)' = ValuesOf(y)
      /\ \A y \in Objects : list'[y].allocator = list[y].allocator
      /\ x # Temp => ValuesOf(Temp)' = ValuesOf(Temp) /\ (IsEmpty(Temp)' <=> IsEmpty(Temp))
      /\ alive' = alive /\ call' = call /\ contents' = contents
  BY <1>1, <1>3, <1>5 DEF IsEmpty, Inside
<1>7. ASSUME AtClear PROVE Somewhere'
  BY <1>1, <1>2, <1>5, <1>6, <1>7 DEF AtClear, Untouched, Somewhere
<1>8. ASSUME AtConstructUndo PROVE Somewhere'
  BY <1>1, <1>2, <1>5, <1>6, <1>8 DEF AtConstructUndo, Untouched, Somewhere
<1>9. ASSUME AtTempClear PROVE Somewhere'
  <2>1. AllValues' = AllValues
    BY <1>2, <1>5, <1>6, <1>9 DEF AllValues
  <2>2. Finished'
    BY <1>1, <1>9, <2>1, FinishedKept DEF AtTempClear
  <2> QED
    BY <1>1, <1>6, <1>9, <2>2 DEF AtTempClear, Somewhere
<1>10. ASSUME AtStealClear PROVE Somewhere'
  <2>1. x = call.list /\ call.other \in Lists
    BY <1>2, <1>5, <1>10 DEF AtStealClear, Stealing, Moving
  <2>2. Stealing'
    BY <1>1, <1>5, <1>6, <1>10, <2>1 DEF AtStealClear, Stealing, Moving, Untouched
  <2>3. SameAllocator(call.list, call.other) => SameAllocator(call.list, call.other)'
    BY <1>5, <1>6, <2>1 DEF SameAllocator
  <2>4. AtStealClear'
    BY <1>1, <1>6, <1>10, <2>2, <2>3 DEF AtStealClear
  <2> QED
    BY <2>4 DEF Somewhere
<1>11. ASSUME AtMoveClear PROVE Somewhere'
  <2>1. x = call.list /\ x # Temp
    BY <1>2, <1>5, <1>11
  <2>2. SameAllocator(call.list, Temp)'
    BY <1>5, <1>6, <1>11 DEF SameAllocator, AtMoveClear, Replacing
  <2>3. (ValuesOf(Temp) = contents[call.other])'
    BY <1>6, <1>11, <2>1 DEF AtMoveClear, Replacing
  <2>4. Untouched({call.list, call.other})'
    BY <1>6, <1>11, <2>1 DEF AtMoveClear, Replacing, Untouched
  <2>5. Replacing'
    BY <1>1, <1>6, <1>11, <2>2, <2>3, <2>4 DEF AtMoveClear, Replacing, Moving
  <2> QED
    BY <1>1, <1>6, <1>11, <2>5 DEF AtMoveClear, Somewhere
<1>12. ASSUME AtSourceClear PROVE Somewhere'
  <2>1. x = call.other /\ x # call.list
    BY <1>2, <1>12 DEF AtSourceClear, Moving
  <2>2. (ValuesOf(call.list) = contents[call.other])'
    <3>1. PICK l : l = call.list
      OBVIOUS
    <3>2. ValuesOf(l)' = contents[call.other]
      BY <1>5, <1>6, <1>12, <2>1, <3>1 DEF AtSourceClear
    <3> QED
      BY <1>6, <3>1, <3>2
  <2>3. Untouched({call.list, call.other})'
    BY <1>6, <1>12, <2>1 DEF AtSourceClear, Untouched
  <2> QED
    BY <1>1, <1>6, <1>12, <2>2, <2>3 DEF AtSourceClear, Moving, Somewhere
<1>13. Somewhere'
  BY <1>1, <1>7, <1>8, <1>9, <1>10, <1>11, <1>12, Where
<1> QED
  BY <1>3, <1>4, <1>13 DEF Inv

LEMMA ClearDoneInv ==
  ASSUME Inv, ClearDone
  PROVE  Inv' /\ ServiceStep
<1>0. PICK x, l, o : x = Head(todo).list /\ l = call.list /\ o = call.other
  OBVIOUS
<1>1. /\ Types /\ Heap /\ Sized /\ InCall /\ Somewhere /\ Inside /\ Doing("clear")
      /\ todo' = Tail(todo) /\ threw' = threw /\ threw' \in BOOLEAN /\ node' = node
      /\ list' = [list EXCEPT ![x].size = 0] /\ IsEmpty(x)
  BY <1>0 DEF Inv, ClearDone, Resting, Doing, Inside, IsEmpty, Types, Advance
<1>2. /\ x \in Objects
      /\ AtClear \/ AtConstructUndo \/ AtStealClear \/ AtMoveClear => x = l
      /\ AtTempClear => x = Temp
      /\ AtSourceClear => x = o
  BY <1>0, <1>1, ClearedObject
<1>3. /\ list' \in [Objects -> [head : Nodes \cup {Null}, size : Nat,
                                allocator : Allocators \cup {Null}]]
      /\ \A y \in Objects : list'[y].head = list[y].head /\ list'[y].allocator = list[y].allocator
      /\ list'[x].size = 0
      /\ \A y \in Objects \ {x} : list'[y] = list[y]
  <2>1. list[x] \in [head : Nodes \cup {Null}, size : Nat, allocator : Allocators \cup {Null}]
    BY <1>1, <1>2 DEF Types
  <2>2. list' = [list EXCEPT ![x] = [list[x] EXCEPT !.size = 0]]
    BY <1>1, <1>2 DEF Types
  <2> DEFINE r == [list[x] EXCEPT !.size = 0]
  <2>3. /\ r \in [head : Nodes \cup {Null}, size : Nat, allocator : Allocators \cup {Null}]
        /\ r.head = list[x].head /\ r.allocator = list[x].allocator /\ r.size = 0
    BY <2>1
  <2> HIDE DEF r
  <2>4. list' = [list EXCEPT ![x] = r]
    BY <2>2 DEF r
  <2> QED
    BY <1>1, <1>2, <2>3, <2>4 DEF Types
<1>4. /\ Types' /\ Heap'
      /\ \A y \in Objects : Chain(y)' = Chain(y) /\ ValuesOf(y)' = ValuesOf(y)
  BY <1>1, <1>3, HeadsKept
<1>5. /\ l \in Lists /\ l \in Objects /\ Temp \in Objects \ Lists
      /\ alive \subseteq Lists /\ Lists \subseteq Objects
      /\ call.op \in {"constructCopy", "assignCopy", "assignMove"} => o \in Lists
      /\ call.op = "constructCopy" => l \notin alive
      /\ \A y \in alive \cup {l} : list[y].allocator # Null
      /\ alive' = alive /\ call' = call /\ contents' = contents
      /\ l = call.list /\ o = call.other
  BY <1>0, <1>1, Arguments DEF Inside
<1>6. InCall' /\ ServiceStep
  <2>1. \A y \in alive \cup {l} : list'[y].allocator # Null
    BY <1>3, <1>5
  <2>2. \A y \in Lists \ (alive \cup {l}) : list'[y] = list[y]
    <3>1. x \in alive \cup {l, Temp}
      BY <1>0, <1>1, ClearedObject
    <3> QED
      BY <1>3, <1>5, <3>1
  <2> QED
    BY <1>0, <1>1, <2>1, <2>2, InsideKept
<1>7. Sized'
  <2>1. \A y \in Objects \ {x} : list'[y].size = Len(Chain(y)')
    BY <1>0, <1>1, <1>3, <1>4 DEF Sized
  <2>2. Len(Chain(x)) = 0
    BY <1>1, <1>2, ValuesOfChain
  <2> QED
    BY <1>2, <1>3, <1>4, <2>1, <2>2 DEF Sized
<1>8. /\ \A y \in Objects : IsEmpty(y)' <=> IsEmpty(y)
      /\ ValuesOf(x) = <<>>
      /\ \A y \in Lists : ValuesOf(y)' = ValuesOf(y)
  BY <1>1, <1>2, <1>3, <1>4, <1>5, ValuesOfChain DEF IsEmpty
<1>9. AllValues' = AllValues
  BY <1>8 DEF AllValues
<1>10. ASSUME AtClear PROVE Somewhere'
  <2>1. x = l /\ call.op \in {"clear", "destroy"} /\ ~threw' /\ IsEmpty(Temp)' /\ todo' = <<>>
    BY <1>1, <1>2, <1>5, <1>8, <1>10 DEF AtClear
  <2>2. AllValues' = [contents EXCEPT ![l] = <<>>]
    BY <1>1, <1>5, <1>8, <1>10, <2>1 DEF AllValues, Types, AtClear, Untouched
  <2>3. Finished'
    BY <1>5, <2>1, <2>2, Finishes
  <2> QED
    BY <2>1, <2>3 DEF AtReturn, Somewhere
<1>11. ASSUME AtConstructUndo PROVE Somewhere'
  <2>1. x = l /\ call.op = "constructCopy" /\ threw' /\ IsEmpty(Temp)' /\ todo' = <<>>
    BY <1>1, <1>2, <1>5, <1>8, <1>11 DEF AtConstructUndo
  <2>2. contents[l] = <<>>
    BY <1>1, <1>5, <2>1 DEF InCall
  <2>3. AllValues' = contents
    BY <1>1, <1>5, <1>8, <1>11, <2>1, <2>2 DEF AllValues, Types, AtConstructUndo, Untouched
  <2>4. Finished'
    BY <1>5, <2>1, <2>3 DEF Finished, Thrown
  <2> QED
    BY <2>1, <2>4 DEF AtReturn, Somewhere
<1>12. ASSUME AtTempClear PROVE Somewhere'
  <2>1. x = Temp /\ IsEmpty(Temp)' /\ todo' = <<>>
    BY <1>1, <1>2, <1>5, <1>8, <1>12 DEF AtTempClear
  <2>2. Finished'
    BY <1>1, <1>9, <1>12, FinishedKept DEF AtTempClear
  <2> QED
    BY <2>1, <2>2 DEF AtReturn, Somewhere
<1>13. ASSUME AtStealClear PROVE Somewhere'
  <2>1. Stealing'
    BY <1>1, <1>5, <1>8, <1>13 DEF AtStealClear, Stealing, Moving, Untouched
  <2>2. IsEmpty(l)' /\ IsEmpty(call.list)'
    <3>1. IsEmpty(l)'
      BY <1>1, <1>2, <1>5, <1>8, <1>13
    <3> QED
      BY <1>5, <3>1 DEF IsEmpty
  <2>3. SameAllocator(call.list, call.other) => SameAllocator(call.list, call.other)'
    <3>1. o \in Objects
      BY <1>5, <1>13 DEF AtStealClear, Stealing, Moving
    <3> QED
      BY <1>3, <1>5, <3>1 DEF SameAllocator
  <2>4. AtTakeAllocator' \/ AtSteal'
    <3>1. CASE todo = <<Do("clear", call.list), Do2("takeAllocator", call.list, call.other),
                        Do2("steal", call.list, call.other)>>
      <4>1. todo' = <<Do2("takeAllocator", call.list, call.other),
                      Do2("steal", call.list, call.other)>>
        BY <1>1, <3>1
      <4> QED
        BY <1>5, <2>1, <2>2, <4>1 DEF AtTakeAllocator, Do2
    <3>2. CASE /\ todo = <<Do("clear", call.list), Do2("steal", call.list, call.other)>>
               /\ SameAllocator(call.list, call.other)
      <4>1. todo' = <<Do2("steal", call.list, call.other)>>
        BY <1>1, <3>2
      <4> QED
        BY <1>5, <2>1, <2>2, <2>3, <3>2, <4>1 DEF AtSteal, Do2
    <3> QED
      BY <1>13, <3>1, <3>2 DEF AtStealClear
  <2> QED
    BY <2>4 DEF Somewhere
<1>14. ASSUME AtMoveClear PROVE Somewhere'
  <2>1. todo' = <<Do2("swap", l, Temp), Do("clear", o), Do("clear", Temp)>>
    BY <1>1, <1>5, <1>14 DEF AtMoveClear
  <2>2. SameAllocator(call.list, Temp)'
    BY <1>3, <1>5, <1>14 DEF SameAllocator, AtMoveClear, Replacing
  <2>3. (ValuesOf(Temp) = contents[call.other])'
    BY <1>4, <1>5, <1>14 DEF AtMoveClear, Replacing
  <2>4. Untouched({call.list, call.other})'
    BY <1>5, <1>8, <1>14 DEF AtMoveClear, Replacing, Untouched
  <2>5. Replacing'
    BY <1>1, <1>5, <1>14, <2>2, <2>3, <2>4 DEF AtMoveClear, Replacing, Moving
  <2>6. IsEmpty(call.list)'
    <3>1. list'[l].head = Null
      BY <1>1, <1>2, <1>3, <1>5, <1>14 DEF IsEmpty
    <3> QED
      BY <1>5, <3>1 DEF IsEmpty
  <2> QED
    BY <1>5, <2>1, <2>5, <2>6 DEF AtMoveSwap, Somewhere, Do, Do2
<1>15. ASSUME AtSourceClear PROVE Somewhere'
  <2>1. x = o /\ call.op = "assignMove" /\ l # o /\ ~threw' /\ o \in Lists
    BY <1>1, <1>2, <1>5, <1>15 DEF AtSourceClear, Moving
  <2>2. todo' = <<Do("clear", Temp)>>
    BY <1>1, <1>15 DEF AtSourceClear
  <2>3. AllValues' = [contents EXCEPT ![l] = contents[o], ![o] = <<>>]
    BY <1>1, <1>5, <1>8, <1>15, <2>1 DEF AllValues, Types, AtSourceClear, Untouched
  <2>4. Finished'
    BY <1>5, <2>1, <2>3, Finishes
  <2> QED
    BY <1>5, <2>1, <2>2, <2>4 DEF AtTempClear, Somewhere, Do
<1>16. Somewhere'
  BY <1>1, <1>10, <1>11, <1>12, <1>13, <1>14, <1>15, Where
<1> QED
  BY <1>4, <1>6, <1>7, <1>16 DEF Inv

LEMMA TakeAllocatorInv ==
  ASSUME Inv, TakeAllocator
  PROVE  Inv' /\ ServiceStep
<1>0. PICK l, o : l = call.list /\ o = call.other
  OBVIOUS
<1>1. /\ Types /\ Heap /\ Sized /\ InCall /\ AtTakeAllocator /\ Inside /\ Doing("takeAllocator")
  <2>1. /\ Types /\ Heap /\ Sized /\ InCall /\ Somewhere /\ Inside /\ Doing("takeAllocator")
    BY DEF Inv, TakeAllocator, Resting, Doing, Inside
  <2> QED
    BY <2>1, Where
<1>2. /\ todo = <<Do2("takeAllocator", l, o), Do2("steal", l, o)>>
      /\ Head(todo).list = l /\ Head(todo).other = o /\ Tail(todo) = <<Do2("steal", l, o)>>
      /\ Stealing /\ IsEmpty(l)
  BY <1>0, <1>1 DEF AtTakeAllocator, Do2
<1>3. /\ todo' = <<Do2("steal", l, o)>> /\ threw' = threw /\ threw' \in BOOLEAN /\ node' = node
      /\ list' = [list EXCEPT ![l].allocator = list[o].allocator]
  BY <1>1, <1>2 DEF TakeAllocator, Types, Advance
<1>4. /\ l \in Lists /\ l \in Objects /\ Temp \in Objects \ Lists
      /\ alive \subseteq Lists /\ Lists \subseteq Objects
      /\ o \in alive /\ o \in Objects
      /\ \A y \in alive \cup {l} : list[y].allocator # Null
      /\ alive' = alive /\ call' = call /\ contents' = contents
      /\ l = call.list /\ o = call.other
  BY <1>0, <1>1, <1>2, Arguments DEF Inside, Stealing, Moving
<1>5. /\ list' \in [Objects -> [head : Nodes \cup {Null}, size : Nat,
                                allocator : Allocators \cup {Null}]]
      /\ \A y \in Objects : list'[y].head = list[y].head /\ list'[y].size = list[y].size
      /\ list'[l].allocator = list[o].allocator /\ list'[o].allocator = list[o].allocator
      /\ \A y \in Objects \ {l} : list'[y] = list[y]
  <2>1. list[l] \in [head : Nodes \cup {Null}, size : Nat, allocator : Allocators \cup {Null}]
        /\ list[o].allocator \in Allocators \cup {Null}
    BY <1>1, <1>4 DEF Types
  <2>2. list' = [list EXCEPT ![l] = [list[l] EXCEPT !.allocator = list[o].allocator]]
    BY <1>1, <1>3, <1>4 DEF Types
  <2> DEFINE r == [list[l] EXCEPT !.allocator = list[o].allocator]
  <2>3. /\ r \in [head : Nodes \cup {Null}, size : Nat, allocator : Allocators \cup {Null}]
        /\ r.head = list[l].head /\ r.allocator = list[o].allocator /\ r.size = list[l].size
    BY <2>1
  <2> HIDE DEF r
  <2>4. list' = [list EXCEPT ![l] = r]
    BY <2>2 DEF r
  <2> QED
    BY <1>1, <1>4, <2>3, <2>4 DEF Types
<1>6. /\ Types' /\ Heap'
      /\ \A y \in Objects : Chain(y)' = Chain(y) /\ ValuesOf(y)' = ValuesOf(y)
  <2>1. \A y \in Objects : IsEmpty(y) \/ list'[y].allocator = list[y].allocator
    BY <1>2, <1>5
  <2> QED
    BY <1>1, <1>3, <1>5, <2>1, HeadsKept
<1>7. InCall' /\ ServiceStep
  <2>1. \A y \in alive \cup {l} : list'[y].allocator # Null
    BY <1>4, <1>5
  <2>2. \A y \in Lists \ (alive \cup {l}) : list'[y] = list[y]
    BY <1>4, <1>5
  <2> QED
    BY <1>0, <1>1, <2>1, <2>2, InsideKept
<1>8. Sized'
  <2>1. \A y \in Objects : list[y].size = Len(Chain(y))
    BY <1>1 DEF Sized, Doing
  <2> QED
    BY <1>5, <1>6, <2>1 DEF Sized
<1>9. Stealing'
  <2>1. \A y \in Lists : ValuesOf(y)' = ValuesOf(y)
    BY <1>4, <1>6
  <2>2. IsEmpty(Temp)'
    BY <1>2, <1>4, <1>5 DEF Stealing, IsEmpty
  <2> QED
    BY <1>2, <1>3, <1>4, <2>1, <2>2 DEF Stealing, Moving, Untouched
<1>10. IsEmpty(call.list)' /\ SameAllocator(call.list, call.other)'
  BY <1>2, <1>4, <1>5 DEF IsEmpty, SameAllocator
<1>11. AtSteal'
  BY <1>3, <1>4, <1>9, <1>10 DEF AtSteal, Do2
<1> QED
  BY <1>6, <1>7, <1>8, <1>11 DEF Inv, Somewhere

\* swap_nodes, and steal_nodes_from, whose taker is empty: the two exchange their chains.
LEMMA Exchange ==
  ASSUME Types, Heap, Sized, InCall, Inside, ~Doing("clear"), threw' \in BOOLEAN, node' = node,
         NEW x \in Objects, NEW y \in Objects, x # y, SameAllocator(x, y),
         x \in alive \cup {call.list, Temp}, y \in alive \cup {call.list, Temp},
         list' = [list EXCEPT ![x].head = list[y].head, ![x].size = list[y].size,
                              ![y].head = list[x].head, ![y].size = list[x].size]
  PROVE  /\ Types' /\ Heap' /\ Sized' /\ InCall' /\ ServiceStep
         /\ ValuesOf(x)' = ValuesOf(y) /\ ValuesOf(y)' = ValuesOf(x)
         /\ \A z \in Objects \ {x, y} : ValuesOf(z)' = ValuesOf(z) /\ list'[z] = list[z]
<1>1. /\ list[x] \in [head : Nodes \cup {Null}, size : Nat, allocator : Allocators \cup {Null}]
      /\ list[y] \in [head : Nodes \cup {Null}, size : Nat, allocator : Allocators \cup {Null}]
  BY DEF Types
<1>2. /\ list'[x] = [head |-> list[y].head, size |-> list[y].size, allocator |-> list[x].allocator]
      /\ list'[y] = [head |-> list[x].head, size |-> list[x].size, allocator |-> list[y].allocator]
      /\ \A z \in Objects \ {x, y} : list'[z] = list[z]
  <2>1. /\ list'[x] = [list[x] EXCEPT !.head = list[y].head, !.size = list[y].size]
        /\ list'[y] = [list[y] EXCEPT !.head = list[x].head, !.size = list[x].size]
        /\ \A z \in Objects \ {x, y} : list'[z] = list[z]
    BY DEF Types
  <2>2. /\ list[x].head \in Nodes \cup {Null} /\ list[x].size \in Nat
        /\ list[y].head \in Nodes \cup {Null} /\ list[y].size \in Nat
    BY <1>1
  <2>3. list'[x] = [head |-> list[y].head, size |-> list[y].size, allocator |-> list[x].allocator]
    <3>1. PICK r, h, k : r = list[x] /\ h = list[y].head /\ k = list[y].size
      OBVIOUS
    <3>2. /\ r \in [head : Nodes \cup {Null}, size : Nat, allocator : Allocators \cup {Null}]
          /\ h \in Nodes \cup {Null} /\ k \in Nat
      BY <1>1, <2>2, <3>1
    <3>3. [r EXCEPT !.head = h, !.size = k] = [head |-> h, size |-> k, allocator |-> r.allocator]
      BY ONLY <3>2, Updated
    <3> QED
      BY <2>1, <3>1, <3>3
  <2>4. list'[y] = [head |-> list[x].head, size |-> list[x].size, allocator |-> list[y].allocator]
    <3>1. PICK r, h, k : r = list[y] /\ h = list[x].head /\ k = list[x].size
      OBVIOUS
    <3>2. /\ r \in [head : Nodes \cup {Null}, size : Nat, allocator : Allocators \cup {Null}]
          /\ h \in Nodes \cup {Null} /\ k \in Nat
      BY <1>1, <2>2, <3>1
    <3>3. [r EXCEPT !.head = h, !.size = k] = [head |-> h, size |-> k, allocator |-> r.allocator]
      BY ONLY <3>2, Updated
    <3> QED
      BY <2>1, <3>1, <3>3
  <2> QED
    BY <2>1, <2>3, <2>4
<1>3. Types'
  <2>1. \A z \in Objects : list'[z] \in [head : Nodes \cup {Null}, size : Nat,
                                         allocator : Allocators \cup {Null}]
    <3>1. list'[x] \in [head : Nodes \cup {Null}, size : Nat, allocator : Allocators \cup {Null}]
      BY <1>1, <1>2
    <3>2. list'[y] \in [head : Nodes \cup {Null}, size : Nat, allocator : Allocators \cup {Null}]
      BY <1>1, <1>2
    <3> QED
      BY <1>2, <3>1, <3>2 DEF Types
  <2>2. list' = [z \in Objects |-> list'[z]]
    BY DEF Types
  <2>3. list' \in [Objects -> [head : Nodes \cup {Null}, size : Nat,
                               allocator : Allocators \cup {Null}]]
    BY <2>1, <2>2
  <2> QED
    BY <2>3, TypesOfStep DEF Types
<1> DEFINE from == [z \in Objects |-> IF z = x THEN y ELSE IF z = y THEN x ELSE z]
<1>4. /\ from \in [Objects -> Objects \cup {Null}]
      /\ from[x] = y /\ from[y] = x
      /\ \A z \in Objects \ {x, y} : from[z] = z
  OBVIOUS
<1> HIDE DEF from
<1>5. Null \notin Objects
  BY ListAssumption
<1>6. /\ Heap'
      /\ \A z \in Objects :
           /\ from[z] = Null => Chain(z)' = <<>> /\ ValuesOf(z)' = <<>>
           /\ from[z] # Null => Chain(z)' = Chain(from[z]) /\ ValuesOf(z)' = ValuesOf(from[z])
  <2>1. \A z \in Objects : from[z] = Null => list'[z].head = Null
    BY <1>4, <1>5
  <2>2. ASSUME NEW z \in Objects
        PROVE  /\ list'[z].head = list[from[z]].head
               /\ list'[z].allocator = list[from[z]].allocator
    <3>1. CASE z = x
      BY <1>2, <1>4, <3>1 DEF SameAllocator
    <3>2. CASE z = y
      BY <1>2, <1>4, <3>2 DEF SameAllocator
    <3>3. CASE z # x /\ z # y
      BY <1>2, <1>4, <3>3
    <3> QED
      BY <3>1, <3>2, <3>3
  <2>3. \A z, u \in Objects : from[z] = from[u] /\ from[z] # Null => z = u
    BY <1>4, <1>5
  <2>4. \A z \in Objects : IsEmpty(z) \/ kind.arena \/ \E u \in Objects : from[u] = z
    BY <1>4
  <2> QED
    BY <1>3, <1>4, <2>1, <2>2, <2>3, <2>4, HeadsMoved DEF Inside
<1>7. ValuesOf(x)' = ValuesOf(y) /\ Chain(x)' = Chain(y)
  BY <1>4, <1>5, <1>6
<1>8. ValuesOf(y)' = ValuesOf(x) /\ Chain(y)' = Chain(x)
  BY <1>4, <1>5, <1>6
<1>9. \A z \in Objects \ {x, y} : ValuesOf(z)' = ValuesOf(z) /\ Chain(z)' = Chain(z)
  BY <1>4, <1>5, <1>6
<1>10. Sized'
  <2>1. \A z \in Objects : list[z].size = Len(Chain(z))
    BY DEF Sized
  <2>2. \A z \in Objects : list'[z].size = Len(Chain(z)')
    <3>1. list'[x].size = Len(Chain(x)')
      BY <1>2, <1>7, <2>1
    <3>2. list'[y].size = Len(Chain(y)')
      BY <1>2, <1>8, <2>1
    <3> QED
      BY <1>2, <1>9, <2>1, <3>1, <3>2
  <2> QED
    BY <2>2 DEF Sized
<1>11. InCall' /\ ServiceStep
  <2>1. ASSUME NEW z \in Objects PROVE list'[z].allocator = list[z].allocator
    <3>1. list'[x].allocator = list[x].allocator
      BY <1>2
    <3>2. list'[y].allocator = list[y].allocator
      BY <1>2
    <3> QED
      BY <1>2, <3>1, <3>2
  <2>2. \A z \in alive \cup {call.list} : list'[z].allocator # Null
    BY <2>1, Arguments
  <2>3. \A z \in Lists \ (alive \cup {call.list}) : list'[z] = list[z]
    BY <1>2, Arguments
  <2> QED
    BY <2>2, <2>3, InsideKept
<1> QED
  BY <1>2, <1>3, <1>6, <1>7, <1>8, <1>9, <1>10, <1>11

LEMMA StealInv ==
  ASSUME Inv, Steal
  PROVE  Inv' /\ ServiceStep
<1>0. PICK l, o : l = call.list /\ o = call.other
  OBVIOUS
<1>1. /\ Types /\ Heap /\ Sized /\ InCall /\ AtSteal /\ Inside /\ Doing("steal")
  <2>1. /\ Types /\ Heap /\ Sized /\ InCall /\ Somewhere /\ Inside /\ Doing("steal")
    BY DEF Inv, Steal, Resting, Doing, Inside
  <2> QED
    BY <2>1, Where
<1>2. /\ todo = <<Do2("steal", l, o)>>
      /\ Head(todo).list = l /\ Head(todo).other = o /\ Tail(todo) = <<>>
      /\ Stealing /\ IsEmpty(l) /\ SameAllocator(l, o) /\ ~Doing("clear")
  BY <1>0, <1>1 DEF AtSteal, Do2, Doing
<1>3. /\ todo' = <<>> /\ threw' = threw /\ threw' \in BOOLEAN /\ ~threw' /\ node' = node
      /\ list' = [list EXCEPT ![l].head = list[o].head, ![l].size = list[o].size,
                              ![o].head = Null, ![o].size = 0]
  BY <1>1, <1>2 DEF Steal, Types, Advance, Stealing, Moving
<1>4. /\ l \in Lists /\ l \in Objects /\ Temp \in Objects \ Lists
      /\ Lists \subseteq Objects
      /\ o \in alive /\ o \in Objects /\ o \in Lists /\ l # o /\ call.op = "assignMove"
      /\ alive' = alive /\ call' = call /\ contents' = contents
      /\ l = call.list /\ o = call.other
  BY <1>0, <1>1, <1>2, Arguments DEF Inside, Stealing, Moving
<1>5. /\ Types' /\ Heap' /\ Sized' /\ InCall' /\ ServiceStep
      /\ ValuesOf(l)' = ValuesOf(o) /\ ValuesOf(o)' = ValuesOf(l)
      /\ \A z \in Objects \ {l, o} : ValuesOf(z)' = ValuesOf(z) /\ list'[z] = list[z]
  <2>1. list[l].head = Null /\ list[l].size = 0
    <3>1. Len(Chain(l)) = 0
      BY <1>1, <1>2, <1>4, ValuesOfChain
    <3> QED
      BY <1>1, <1>2, <1>4, <3>1 DEF IsEmpty, Sized
  <2>2. list' = [list EXCEPT ![l].head = list[o].head, ![l].size = list[o].size,
                             ![o].head = list[l].head, ![o].size = list[l].size]
    BY <1>3, <2>1
  <2>3. l \in alive \cup {call.list, Temp} /\ o \in alive \cup {call.list, Temp}
    BY <1>4
  <2>4. Types /\ Heap /\ Sized /\ InCall /\ Inside
    BY <1>1
  <2>5. ~Doing("clear") /\ threw' \in BOOLEAN /\ node' = node
    BY <1>2, <1>3
  <2>6. l \in Objects /\ o \in Objects /\ l # o /\ SameAllocator(l, o)
    BY <1>2, <1>4
  <2> QED
    BY ONLY <2>2, <2>3, <2>4, <2>5, <2>6, Exchange
<1>6. AllValues' = [contents EXCEPT ![l] = contents[o], ![o] = <<>>]
  <2>1. ValuesOf(l) = <<>>
    BY <1>1, <1>2, <1>4, ValuesOfChain
  <2>2. \A y \in Lists \ {l} : ValuesOf(y) = contents[y]
    BY <1>2, <1>4 DEF Stealing, Untouched
  <2> QED
    BY <1>1, <1>4, <1>5, <2>1, <2>2 DEF AllValues, Types
<1>7. Finished'
  BY <1>3, <1>4, <1>6, Finishes
<1>8. IsEmpty(Temp)'
  BY <1>2, <1>4, <1>5 DEF Stealing, IsEmpty
<1> QED
  BY <1>3, <1>5, <1>7, <1>8 DEF Inv, Somewhere, AtReturn

LEMMA SwapInv ==
  ASSUME Inv, SwapNodes
  PROVE  Inv' /\ ServiceStep
<1>0. PICK l, o : l = call.list /\ o = call.other
  OBVIOUS
<1>1. /\ Types /\ Heap /\ Sized /\ InCall /\ Inside /\ Doing("swap")
      /\ AtCopySwap \/ AtMoveSwap
  <2>1. /\ Types /\ Heap /\ Sized /\ InCall /\ Somewhere /\ Inside /\ Doing("swap")
    BY DEF Inv, SwapNodes, Resting, Doing, Inside
  <2> QED
    BY <2>1, Where
<1>2. /\ Head(todo).list = l /\ Head(todo).other = Temp
      /\ AtCopySwap => Tail(todo) = <<Do("clear", Temp)>>
      /\ AtMoveSwap => Tail(todo) = <<Do("clear", o), Do("clear", Temp)>>
      /\ SameAllocator(l, Temp) /\ ~threw /\ ~Doing("clear")
      /\ call.op \in {"assignCopy", "assignMove"} /\ l # o
  <2>1. CASE AtCopySwap
    <3>1. /\ todo = <<Do2("swap", l, Temp), Do("clear", Temp)>>
          /\ SameAllocator(l, Temp) /\ ~threw /\ call.op = "assignCopy" /\ l # o
      BY <1>0, <2>1 DEF AtCopySwap, Copying
    <3>2. ~AtMoveSwap
      BY <3>1 DEF AtMoveSwap, Replacing, Moving
    <3> QED
      BY <1>1, <3>1, <3>2 DEF Do2, Doing
  <2>2. CASE AtMoveSwap
    <3>1. /\ todo = <<Do2("swap", l, Temp), Do("clear", o), Do("clear", Temp)>>
          /\ SameAllocator(l, Temp) /\ ~threw /\ call.op = "assignMove" /\ l # o
      BY <1>0, <2>2 DEF AtMoveSwap, Replacing, Moving
    <3>2. ~AtCopySwap
      BY <3>1 DEF AtCopySwap, Copying
    <3> QED
      BY <1>1, <3>1, <3>2 DEF Do2, Doing
  <2> QED
    BY <1>1, <2>1, <2>2
<1>3. /\ todo' = Tail(todo) /\ threw' = threw /\ threw' \in BOOLEAN /\ ~threw' /\ node' = node
      /\ list' = [list EXCEPT ![l].head = list[Temp].head, ![l].size = list[Temp].size,
                              ![Temp].head = list[l].head, ![Temp].size = list[l].size]
  BY <1>1, <1>2 DEF SwapNodes, Types, Advance
<1>4. /\ l \in Lists /\ l \in Objects /\ Temp \in Objects \ Lists
      /\ Lists \subseteq Objects /\ o \in Lists
      /\ alive' = alive /\ call' = call /\ contents' = contents
      /\ l = call.list /\ o = call.other
  BY <1>0, <1>1, <1>2, Arguments DEF Inside
<1>5. /\ Types' /\ Heap' /\ Sized' /\ InCall' /\ ServiceStep
      /\ ValuesOf(l)' = ValuesOf(Temp) /\ ValuesOf(Temp)' = ValuesOf(l)
      /\ \A z \in Objects \ {l, Temp} : ValuesOf(z)' = ValuesOf(z) /\ list'[z] = list[z]
  <2>1. l \in alive \cup {call.list, Temp} /\ Temp \in alive \cup {call.list, Temp}
    BY <1>4
  <2>2. Types /\ Heap /\ Sized /\ InCall /\ Inside
    BY <1>1
  <2>3. ~Doing("clear") /\ threw' \in BOOLEAN /\ node' = node
    BY <1>2, <1>3
  <2>4. l \in Objects /\ Temp \in Objects /\ l # Temp /\ SameAllocator(l, Temp)
    BY <1>2, <1>4
  <2> QED
    BY ONLY <1>3, <2>1, <2>2, <2>3, <2>4, Exchange
<1>6. ASSUME AtCopySwap PROVE Somewhere'
  <2>1. AllValues' = [contents EXCEPT ![l] = contents[o]]
    <3>1. ValuesOf(Temp) = contents[o] /\ \A y \in Lists \ {l} : ValuesOf(y) = contents[y]
      BY <1>4, <1>6 DEF AtCopySwap, Untouched
    <3> QED
      BY <1>1, <1>4, <1>5, <3>1 DEF AllValues, Types
  <2>2. call.op = "assignCopy"
    BY <1>6 DEF AtCopySwap, Copying
  <2>3. Finished'
    BY <1>3, <1>4, <2>1, <2>2, Finishes
  <2> QED
    BY <1>2, <1>3, <1>4, <1>6, <2>2, <2>3 DEF AtTempClear, Somewhere, Do
<1>7. ASSUME AtMoveSwap PROVE Somewhere'
  <2>1. ValuesOf(l)' = contents[o]
    BY <1>4, <1>5, <1>7 DEF AtMoveSwap, Replacing
  <2>2. Untouched({call.list, call.other})'
    BY <1>4, <1>5, <1>7 DEF AtMoveSwap, Replacing, Untouched
  <2>3. Moving'
    BY <1>3, <1>4, <1>7 DEF AtMoveSwap, Replacing, Moving
  <2>4. (ValuesOf(call.list) = contents[call.other])'
    BY <1>4, <2>1
  <2> QED
    BY <1>2, <1>3, <1>4, <1>7, <2>2, <2>3, <2>4 DEF AtSourceClear, Somewhere, Do
<1> QED
  BY <1>1, <1>5, <1>6, <1>7 DEF Inv

\* What the source of a copy, or of a move, holds while x is filled.
Left(x, how) ==
  ValuesOf(call.other) = IF how = "move"
                         THEN Service!MovedFrom(contents[call.other], Len(Chain(x)))
                         ELSE contents[call.other]

\* The element the loop is at.
LEMMA NextSource ==
  ASSUME Types, Heap, NEW x \in Objects, NEW o \in Lists, o \in Objects, o = call.other, x # o,
         NEW how, Partly(x), Left(x, how)
  PROVE  /\ Len(Chain(o)) = Len(contents[o]) /\ Len(Chain(x)) <= Len(Chain(o))
         /\ Filling(x, how).source = Null => Len(Chain(x)) = Len(Chain(o))
         /\ Filling(x, how).source # Null =>
              LET k == Len(Chain(x)) + 1
                  source == Filling(x, how).source
              IN  /\ k \in 1..Len(Chain(o)) /\ source = Chain(o)[k]
                  /\ source \in Nodes /\ source \in ChainNodes(o) /\ source \notin ChainNodes(x)
                  /\ \A i \in 1..Len(Chain(o)) : Chain(o)[i] = source => i = k
                  /\ node[source].value = contents[o][k] /\ node[source].value # Null
                  /\ node[source].next = IF k = Len(Chain(o)) THEN Null ELSE Chain(o)[k + 1]
<1> DEFINE d == Len(Chain(x))
           c == Chain(o)
           k == d + 1
<1>1. /\ d \in Nat /\ c \in Seq(Nodes) /\ Len(c) \in Nat
      /\ Len(ValuesOf(o)) = Len(c)
      /\ \A i \in 1..Len(c) : /\ c[i] \in Nodes /\ c[i] \in ChainNodes(o)
                              /\ ValuesOf(o)[i] = node[c[i]].value
  BY ValuesOfChain
<1>2. contents[o] \in Seq(Values \cup {Moved}) /\ Len(contents[o]) \in Nat
  BY LenProperties DEF Types
<1>3. /\ Len(ValuesOf(o)) = Len(contents[o])
      /\ \A i \in 1..Len(contents[o]) : i > d => ValuesOf(o)[i] = contents[o][i]
  <2>1. CASE how = "move"
    <3>1. ValuesOf(o) = [i \in 1..Len(contents[o]) |-> IF i <= d THEN Moved ELSE contents[o][i]]
      BY <2>1 DEF Left, Service!MovedFrom
    <3>2. Len([i \in 1..Len(contents[o]) |-> IF i <= d THEN Moved ELSE contents[o][i]])
            = Len(contents[o])
      BY <1>2
    <3> QED
      BY <1>1, <1>2, <3>1, <3>2
  <2>2. CASE how # "move"
    BY <2>2 DEF Left
  <2> QED
    BY <2>1, <2>2
<1>4. d <= Len(c) /\ Len(c) = Len(contents[o])
  BY <1>1, <1>3 DEF Partly
<1>5. Filling(x, how).source = IF d = Len(c) THEN Null ELSE c[k]
  BY DEF Filling
<1>6. d # Len(c) => k \in 1..Len(c)
  BY <1>1, <1>4
<1>7. d # Len(c) => c[k] # Null
  BY <1>1, <1>6, ListAssumption
<1>8. Path(node, list[o].head, c)
  BY DEF Heap
<1> HIDE DEF d, c
<1>9. ASSUME d # Len(c)
      PROVE  /\ c[k] \in Nodes /\ c[k] \in ChainNodes(o) /\ c[k] \notin ChainNodes(x)
             /\ \A i \in 1..Len(c) : c[i] = c[k] => i = k
             /\ node[c[k]].value = contents[o][k] /\ node[c[k]].value # Null
             /\ node[c[k]].next = IF k = Len(c) THEN Null ELSE c[k + 1]
  <2>1. k \in 1..Len(c) /\ k > d
    BY <1>1, <1>6, <1>9
  <2>2. c[k] \in Nodes /\ c[k] \in ChainNodes(o) /\ ValuesOf(o)[k] = node[c[k]].value
    BY <1>1, <2>1
  <2>3. c[k] \notin ChainNodes(x) /\ node[c[k]].value # Null
    BY <2>2 DEF Heap
  <2>4. ValuesOf(o)[k] = contents[o][k]
    BY <1>3, <1>4, <2>1
  <2>5. \A i \in 1..Len(c) : c[i] = c[k] => i = k
    BY <1>8, <2>1 DEF Path
  <2>6. node[c[k]].next = IF k = Len(c) THEN Null ELSE c[k + 1]
    BY <1>8, <2>1 DEF Path
  <2> QED
    BY <2>2, <2>3, <2>4, <2>5, <2>6
<1>10. ASSUME Filling(x, how).source # Null
       PROVE  d # Len(c) /\ Filling(x, how).source = c[k]
  BY <1>5, <1>10
<1> QED
  BY <1>4, <1>5, <1>6, <1>7, <1>9, <1>10 DEF d, c

\* What one turn of the loop that does not throw does to the heap.
Fills(x, how, n, source, tail) ==
  /\ \E stored :
       /\ stored = [node EXCEPT ![source].value = IF how = "move" THEN Moved ELSE @,
                                ![n] = [next |-> Null, value |-> node[source].value,
                                        madeBy |-> list[x].allocator]]
       /\ node' = IF tail = Null THEN stored ELSE [stored EXCEPT ![tail].next = n]
  /\ list' = [list EXCEPT ![x].head = IF tail = Null THEN n ELSE @, ![x].size = @ + 1]

LEMMA NodeFilled ==
  ASSUME Types, Heap, Sized, InCall, Inside, ~Doing("clear"), threw' \in BOOLEAN,
         NEW x \in Objects, NEW o \in Lists, o \in Objects, o = call.other, x # o,
         x \in {call.list, Temp}, list[x].allocator # Null,
         NEW how, Partly(x), Left(x, how), NEW source, NEW tail,
         source = Filling(x, how).source, tail = Filling(x, how).tail, source # Null,
         NEW n \in FreeNodes, Fills(x, how, n, source, tail)
  PROVE  /\ Types' /\ Heap' /\ Sized' /\ InCall' /\ ServiceStep
         /\ Filling(x, how)'
              = [step |-> "fill", list |-> x, how |-> how, source |-> node[source].next, tail |-> n]
         /\ Partly(x)' /\ Left(x, how)'
         /\ \A y \in Objects \ {x, o} : ValuesOf(y)' = ValuesOf(y)
         /\ \A y \in Objects : list'[y].allocator = list[y].allocator
         /\ \A y \in Objects \ {x} : list'[y] = list[y]
<1>a. PICK stored :
        /\ stored = [node EXCEPT ![source].value = IF how = "move" THEN Moved ELSE @,
                                 ![n] = [next |-> Null, value |-> node[source].value,
                                         madeBy |-> list[x].allocator]]
        /\ node' = IF tail = Null THEN stored ELSE [stored EXCEPT ![tail].next = n]
  BY DEF Fills
<1>b. list' = [list EXCEPT ![x].head = IF tail = Null THEN n ELSE @, ![x].size = @ + 1]
  BY DEF Fills
<1>0. PICK d, k, c, s : d = Len(Chain(x)) /\ k = d + 1 /\ c = Chain(o) /\ s = Chain(x)
  OBVIOUS
<1>1. /\ Len(c) = Len(contents[o]) /\ d <= Len(c) /\ Len(c) \in Nat
      /\ k \in 1..Len(c) /\ source = c[k]
      /\ source \in Nodes /\ source \in ChainNodes(o) /\ source \notin ChainNodes(x)
      /\ \A i \in 1..Len(c) : c[i] = source => i = k
      /\ node[source].value = contents[o][k] /\ node[source].value # Null
      /\ node[source].next = IF k = Len(c) THEN Null ELSE c[k + 1]
  BY <1>0, NextSource, ValuesOfChain
<1>2. /\ s \in Seq(Nodes) /\ d = Len(s) /\ d \in Nat /\ (s = <<>> <=> d = 0)
      /\ \A i \in 1..d : s[i] \in Nodes /\ s[i] \in ChainNodes(x)
  BY <1>0, ValuesOfChain, EmptySeq
<1>3. n \in Nodes /\ \A y \in Objects : n \notin ChainNodes(y)
  BY FreeIsOff
<1>4. tail = IF d = 0 THEN Null ELSE s[d]
  BY <1>0 DEF Filling
<1>5. d # 0 => tail \in Nodes /\ tail \in ChainNodes(x) /\ tail # source /\ tail # n /\ tail # Null
  <2>1. d # 0 => d \in 1..d
    BY <1>2
  <2> QED
    BY <1>1, <1>2, <1>3, <1>4, <2>1, ListAssumption
<1>6. source # n
  BY <1>1, <1>3
<1> DEFINE w == IF how = "move" THEN Moved ELSE node[source].value
           v == node[source].value
           Record == [next : Nodes \cup {Null}, value : Values \cup {Moved, Null},
                      madeBy : Allocators \cup {Null}]
           new == [next |-> Null, value |-> v, madeBy |-> list[x].allocator]
<1>7. w # Null /\ w \in Values \cup {Moved, Null} /\ v \in Values \cup {Moved, Null} /\ v # Null
  BY <1>1, ListAssumption DEF Types
<1>8. new \in Record
  BY <1>7 DEF Types
<1>9. /\ stored \in [Nodes -> Record]
      /\ stored[n] = new
      /\ \A j \in Nodes \ {n} : /\ stored[j].madeBy = node[j].madeBy
                                /\ stored[j].value = IF j = source THEN w ELSE node[j].value
                                /\ stored[j].next = node[j].next
  <2>1. stored = [[node EXCEPT ![source].value = w] EXCEPT ![n] = new]
    BY <1>1, <1>3, <1>a DEF Types
  <2> DEFINE moved == [node EXCEPT ![source].value = w]
  <2>2. /\ moved \in [Nodes -> Record]
        /\ \A j \in Nodes : /\ moved[j].madeBy = node[j].madeBy
                            /\ moved[j].value = IF j = source THEN w ELSE node[j].value
                            /\ moved[j].next = node[j].next
    <3>1. node \in [Nodes -> Record] /\ node[source] \in Record
      BY <1>1 DEF Types
    <3> HIDE DEF w
    <3>2. [node[source] EXCEPT !.value = w] \in Record
      BY <1>7, <3>1
    <3>3. moved = [node EXCEPT ![source] = [node[source] EXCEPT !.value = w]]
      BY <3>1
    <3> HIDE DEF moved
    <3> QED
      BY <1>1, <3>1, <3>2, <3>3
  <2> HIDE DEF moved, w, new, Record
  <2>3. stored = [moved EXCEPT ![n] = new]
    BY <2>1 DEF moved
  <2> QED
    BY <1>3, <1>8, <2>2, <2>3
<1>10. /\ node' \in [Nodes -> Record]
       /\ node'[n] = new
       /\ \A j \in Nodes \ {n} :
            /\ node'[j].madeBy = node[j].madeBy
            /\ node'[j].value = IF j = source THEN w ELSE node[j].value
            /\ node'[j].next = IF s # <<>> /\ j = s[Len(s)] THEN n ELSE node[j].next
  <2> HIDE DEF w, new
  <2>1. CASE d = 0
    <3>1. node' = stored /\ s = <<>>
      BY <1>2, <1>4, <1>a, <2>1
    <3>2. stored \in [Nodes -> Record] /\ stored[n] = new
      BY <1>9
    <3> HIDE DEF Record
    <3>3. node' \in [Nodes -> Record] /\ node'[n] = new
      BY ONLY <3>1, <3>2
    <3> QED
      BY ONLY <1>9, <3>1, <3>3
  <2>2. CASE d # 0
    <3>1. /\ node' = [stored EXCEPT ![tail].next = n] /\ tail \in Nodes \ {n} /\ s # <<>>
          /\ tail = s[Len(s)]
      BY <1>2, <1>4, <1>5, <1>a, <2>2
    <3>2. stored[tail] \in Record
      BY <1>9, <3>1
    <3>3. [stored[tail] EXCEPT !.next = n] \in Record
      BY <1>3, <3>2
    <3>4. node' = [stored EXCEPT ![tail] = [stored[tail] EXCEPT !.next = n]]
      BY <3>1
    <3>5. node' \in [Nodes -> Record]
      <4> HIDE DEF Record
      <4> QED
        BY <1>9, <3>1, <3>3, <3>4
    <3>6. /\ node'[tail] = [stored[tail] EXCEPT !.next = n]
          /\ \A j \in Nodes \ {tail} : node'[j] = stored[j]
      BY <1>9, <3>1, <3>4
    <3>7. /\ node'[tail].madeBy = stored[tail].madeBy /\ node'[tail].value = stored[tail].value
          /\ node'[tail].next = n
      BY <3>2, <3>6
    <3>8. node'[n] = new
      BY <1>3, <1>9, <3>1, <3>6
    <3>9. ASSUME NEW j \in Nodes \ {n}
          PROVE  /\ node'[j].madeBy = node[j].madeBy
                 /\ node'[j].value = IF j = source THEN w ELSE node[j].value
                 /\ node'[j].next = IF s # <<>> /\ j = s[Len(s)] THEN n ELSE node[j].next
      <4>1. CASE j = tail
        BY ONLY <1>9, <3>1, <3>7, <4>1
      <4>2. CASE j # tail
        <5>1. node'[j] = stored[j]
          BY ONLY <3>6, <4>2, j \in Nodes \ {n}
        <5> QED
          BY ONLY <1>9, <3>1, <4>2, <5>1, j \in Nodes \ {n}
      <4> QED
        BY <4>1, <4>2
    <3> HIDE DEF Record
    <3> QED
      BY <3>5, <3>8, <3>9
  <2> QED
    BY <2>1, <2>2
<1>11. list[x] \in [head : Nodes \cup {Null}, size : Nat, allocator : Allocators \cup {Null}]
  BY DEF Types
<1>12. /\ list'[x].head = IF s = <<>> THEN n ELSE list[x].head
       /\ list'[x].size = list[x].size + 1
       /\ list'[x].allocator = list[x].allocator
       /\ list'[x] \in [head : Nodes \cup {Null}, size : Nat, allocator : Allocators \cup {Null}]
       /\ \A y \in Objects \ {x} : list'[y] = list[y]
  <2>1. PICK r, h, z : /\ r = list[x] /\ h = IF tail = Null THEN n ELSE list[x].head
                       /\ z = list[x].size + 1
    OBVIOUS
  <2>2. /\ r \in [head : Nodes \cup {Null}, size : Nat, allocator : Allocators \cup {Null}]
        /\ h \in Nodes \cup {Null} /\ z \in Nat
    BY <1>3, <1>11, <2>1
  <2>3. [r EXCEPT !.head = h, !.size = z] = [head |-> h, size |-> z, allocator |-> r.allocator]
    BY ONLY <2>2, Updated
  <2>4. list'[x] = [r EXCEPT !.head = h, !.size = z] /\ \A y \in Objects \ {x} : list'[y] = list[y]
    BY <1>b, <2>1 DEF Types
  <2>5. list'[x] = [head |-> h, size |-> z, allocator |-> r.allocator]
    BY <2>3, <2>4
  <2>6. h = IF s = <<>> THEN n ELSE list[x].head
    BY <1>2, <1>4, <1>5, <2>1
  <2>7. r.allocator \in Allocators \cup {Null}
    BY <2>2
  <2>8. /\ list'[x].head = h /\ list'[x].size = z /\ list'[x].allocator = r.allocator
        /\ list'[x] \in [head : Nodes \cup {Null}, size : Nat, allocator : Allocators \cup {Null}]
    BY ONLY <2>2, <2>5, <2>7
  <2>9. list'[x].size = list[x].size + 1 /\ list'[x].allocator = list[x].allocator
    BY ONLY <2>1, <2>8
  <2> QED
    BY ONLY <2>4, <2>6, <2>8, <2>9
<1>13. Types'
  <2>1. list' = [z \in Objects |-> list'[z]]
    BY <1>b DEF Types
  <2>2. list' \in [Objects -> [head : Nodes \cup {Null}, size : Nat,
                               allocator : Allocators \cup {Null}]]
    BY <1>12, <2>1 DEF Types
  <2> QED
    BY <1>10, <2>2, TypesOfStep
<1>14. /\ Heap'
       /\ Chain(x)' = Append(s, n) /\ ValuesOf(x)' = Append(ValuesOf(x), v)
       /\ Len(Chain(x)') = d + 1
       /\ \A y \in Objects \ {x} :
            /\ Chain(y)' = Chain(y)
            /\ source \notin ChainNodes(y) \/ w = node[source].value => ValuesOf(y)' = ValuesOf(y)
            /\ \A i \in 1..Len(Chain(y)) :
                 ValuesOf(y)'[i] = IF Chain(y)[i] = source THEN w ELSE ValuesOf(y)[i]
  <2>1. \A y \in Objects \ {x} : list'[y].head = list[y].head
    BY <1>12
  <2>2. \A y \in Objects : list'[y].allocator = list[y].allocator
    BY <1>12
  <2>3. kind' = kind
    BY DEF Inside
  <2>4. node'[n] = [next |-> Null, value |-> v, madeBy |-> list[x].allocator]
    BY <1>10
  <2>5. \A j \in Nodes \ {n} :
          /\ node'[j].madeBy = node[j].madeBy
          /\ node'[j].value = IF j = source THEN w ELSE node[j].value
          /\ node'[j].next = IF Chain(x) # <<>> /\ j = Chain(x)[Len(Chain(x))]
                             THEN n ELSE node[j].next
    <3>1. s = Chain(x)
      BY <1>0
    <3> HIDE DEF w
    <3> QED
      BY ONLY <1>10, <3>1
  <2>6. list'[x].head = IF Chain(x) = <<>> THEN n ELSE list[x].head
    BY <1>0, <1>12
  <2>7. v # Null /\ w # Null /\ source \notin ChainNodes(x) /\ source # n
    BY <1>1, <1>6, <1>7
  <2>8. Types /\ Heap /\ Types' /\ x \in Objects /\ n \in FreeNodes /\ list[x].allocator # Null
    BY <1>13
  <2> HIDE DEF v, w
  <2>9. /\ Heap'
        /\ Chain(x)' = Append(Chain(x), n) /\ ValuesOf(x)' = Append(ValuesOf(x), v)
        /\ Len(Chain(x)') = Len(Chain(x)) + 1
        /\ \A y \in Objects \ {x} :
             /\ Chain(y)' = Chain(y)
             /\ source \notin ChainNodes(y) \/ w = node[source].value => ValuesOf(y)' = ValuesOf(y)
             /\ \A i \in 1..Len(Chain(y)) :
                  ValuesOf(y)'[i] = IF Chain(y)[i] = source THEN w ELSE ValuesOf(y)[i]
    <3>1. PICK v0, w0 : v0 = v /\ w0 = w
      OBVIOUS
    <3>2. Appends(x, n, v0, source, w0)
      BY ONLY <2>1, <2>2, <2>4, <2>5, <2>6, <3>1 DEF Appends
    <3>3. v0 # Null /\ w0 # Null
      BY ONLY <2>7, <3>1
    <3>4. Heap'
      BY ONLY <2>3, <2>7, <2>8, <3>2, <3>3, NodeAppended
    <3>5. Chain(x)' = Append(Chain(x), n)
      BY ONLY <2>3, <2>7, <2>8, <3>2, <3>3, NodeAppended
    <3>6. ValuesOf(x)' = Append(ValuesOf(x), v0)
      BY ONLY <2>3, <2>7, <2>8, <3>2, <3>3, NodeAppended
    <3>7. Len(Chain(x)') = Len(Chain(x)) + 1
      BY ONLY <2>3, <2>7, <2>8, <3>2, <3>3, NodeAppended
    <3>8. ASSUME NEW y \in Objects \ {x}
          PROVE  /\ Chain(y)' = Chain(y)
                 /\ source \notin ChainNodes(y) \/ w0 = node[source].value
                      => ValuesOf(y)' = ValuesOf(y)
                 /\ \A i \in 1..Len(Chain(y)) :
                      ValuesOf(y)'[i] = IF Chain(y)[i] = source THEN w0 ELSE ValuesOf(y)[i]
      <4>1. Chain(y)' = Chain(y)
        BY ONLY <2>3, <2>7, <2>8, <3>2, <3>3, y \in Objects \ {x}, NodeAppended
      <4>2. Rewritten(y, source, w0)
        BY ONLY <2>3, <2>7, <2>8, <3>2, <3>3, y \in Objects \ {x}, NodeAppended
      <4> QED
        BY ONLY <4>1, <4>2 DEF Rewritten
    <3> QED
      BY ONLY <3>1, <3>4, <3>5, <3>6, <3>7, <3>8
  <2> QED
    BY <1>0, <2>9
<1>15. Sized'
  <2>1. \A y \in Objects : list[y].size = Len(Chain(y))
    BY DEF Sized
  <2>2. list'[x].size = Len(Chain(x)')
    BY <1>0, <1>12, <1>14, <2>1
  <2>3. \A y \in Objects \ {x} : list'[y].size = Len(Chain(y)')
    BY <1>12, <1>14, <2>1
  <2> QED
    BY <2>2, <2>3 DEF Sized
<1>16. InCall' /\ ServiceStep
  <2>1. \A y \in alive \cup {call.list} : list'[y].allocator # Null
    BY <1>12, Arguments
  <2>2. \A y \in Lists \ (alive \cup {call.list}) : list'[y] = list[y]
    BY <1>12, Arguments
  <2> QED
    BY <2>1, <2>2, InsideKept
<1>17. \A y \in Objects \ {x, o} : ValuesOf(y)' = ValuesOf(y)
  <2>1. \A y \in Objects \ {x, o} : source \notin ChainNodes(y)
    BY <1>1 DEF Heap
  <2> HIDE DEF w, v
  <2> QED
    BY <1>14, <2>1
<1>18. Chain(o)' = c /\ call'.other = o /\ contents' = contents
  BY <1>0, <1>14 DEF Inside
<1>19. Filling(x, how)'
         = [step |-> "fill", list |-> x, how |-> how, source |-> node[source].next, tail |-> n]
  <2>1. Append(s, n)[d + 1] = n
    BY <1>2
  <2>2. Chain(x)'[d + 1] = n /\ d + 1 # 0
    BY <1>2, <1>14, <2>1
  <2> QED
    BY <1>0, <1>1, <1>14, <1>18, <2>2 DEF Filling
<1>20. Partly(x)'
  <2>1. Len(Chain(x)') <= Len(contents[o])
    BY <1>0, <1>1, <1>2, <1>14
  <2>2. ASSUME NEW i \in 1..(d + 1) PROVE ValuesOf(x)'[i] = contents[o][i]
    <3>1. ValuesOf(x) \in Seq(Values \cup {Moved}) /\ Len(ValuesOf(x)) = d
      BY <1>0, ValuesOfChain
    <3>2. Append(ValuesOf(x), v)[i] = IF i <= d THEN ValuesOf(x)[i] ELSE v
      <4> HIDE DEF v
      <4>1. PICK q : q = ValuesOf(x)
        OBVIOUS
      <4>2. q \in Seq(Values \cup {Moved}) /\ Len(q) = d
        BY ONLY <3>1, <4>1
      <4>3. Append(q, v)[i] = IF i <= d THEN q[i] ELSE v
        BY <1>2, <4>2
      <4> QED
        BY ONLY <4>1, <4>3
    <3>3. i <= d => ValuesOf(x)[i] = contents[o][i]
      BY <1>0, <1>2 DEF Partly
    <3>4. i = k => v = contents[o][i]
      BY <1>1
    <3>5. i <= d \/ i = k
      BY <1>0, <1>2
    <3>6. i = k => ~(i <= d)
      BY <1>0, <1>2
    <3> HIDE DEF v
    <3> QED
      BY <1>14, <3>2, <3>3, <3>4, <3>5, <3>6
  <2> QED
    BY <1>14, <1>18, <2>1, <2>2 DEF Partly
<1>21. Left(x, how)'
  <2>1. CASE how # "move"
    <3>1. w = node[source].value
      BY <2>1
    <3> HIDE DEF w
    <3>2. ValuesOf(o)' = ValuesOf(o)
      BY <1>14, <3>1
    <3>3. ValuesOf(o) = contents[o]
      BY <2>1 DEF Left
    <3> QED
      BY <1>18, <2>1, <3>2, <3>3 DEF Left
  <2>2. CASE how = "move"
    <3>1. ValuesOf(o) = [i \in 1..Len(c) |-> IF i <= d THEN Moved ELSE contents[o][i]]
      BY <1>0, <1>1, <2>2 DEF Left, Service!MovedFrom
    <3>2. Reads(o)'
      BY <1>13, <1>14, ReadsNext
    <3>3. ValuesOf(o)' \in Seq(Values \cup {Moved}) /\ DOMAIN ValuesOf(o)' = 1..Len(c)
      BY <1>18, <3>2 DEF Reads
    <3>4. ASSUME NEW i \in 1..Len(c)
          PROVE  ValuesOf(o)'[i] = IF i <= d + 1 THEN Moved ELSE contents[o][i]
      <4>1. ValuesOf(o)'[i] = IF c[i] = source THEN Moved ELSE ValuesOf(o)[i]
        BY <1>0, <1>14, <2>2
      <4>2. c[i] = source <=> i = d + 1
        BY <1>0, <1>1
      <4>3. i <= d + 1 <=> i <= d \/ i = d + 1
        BY <1>2
      <4> QED
        BY <3>1, <4>1, <4>2, <4>3
    <3>5. ValuesOf(o)' = [i \in 1..Len(c) |-> IF i <= d + 1 THEN Moved ELSE contents[o][i]]
      <4>1. PICK q : q = ValuesOf(o)'
        OBVIOUS
      <4>2. q \in Seq(Values \cup {Moved}) /\ DOMAIN q = 1..Len(c)
        BY ONLY <3>3, <4>1
      <4>3. q = [i \in 1..Len(c) |-> q[i]]
        BY ONLY <4>2
      <4>4. \A i \in 1..Len(c) : q[i] = IF i <= d + 1 THEN Moved ELSE contents[o][i]
        BY ONLY <3>4, <4>1
      <4>5. q = [i \in 1..Len(c) |-> IF i <= d + 1 THEN Moved ELSE contents[o][i]]
        BY ONLY <4>3, <4>4
      <4> QED
        BY ONLY <4>1, <4>5
    <3> QED
      BY <1>1, <1>14, <1>18, <2>2, <3>5 DEF Left, Service!MovedFrom
  <2> QED
    BY <2>1, <2>2
<1> QED
  BY <1>12, <1>13, <1>14, <1>15, <1>16, <1>17, <1>19, <1>20, <1>21

\* What is being filled, and from where.
FillsObject(x, how) ==
  /\ Head(todo) = Filling(x, how) /\ Partly(x) /\ Left(x, how)
  /\ x \in Objects /\ x # call.other /\ x \in {call.list, Temp} /\ list[x].allocator # Null

LEMMA FilledObject ==
  ASSUME Types, InCall, Somewhere, Doing("fill")
  PROVE  /\ AtConstructFill => FillsObject(call.list, "copy")
         /\ AtCopyFill => FillsObject(Temp, "copy")
         /\ AtMoveFill => FillsObject(Temp, "move")
         /\ AtConstructFill \/ AtCopyFill \/ AtMoveFill
         /\ call.other \in Lists /\ call.other \in Objects
         /\ ~threw /\ ~Doing("clear")
<1>1. AtConstructFill \/ AtCopyFill \/ AtMoveFill
  BY Where
<1>2. /\ call.op \in {"constructCopy", "assignCopy", "assignMove"} /\ ~threw
  BY <1>1 DEF AtConstructFill, AtCopyFill, AtMoveFill, Copying, Moving
<1>3. /\ call.list \in Lists /\ call.list \in Objects /\ Temp \in Objects \ Lists
      /\ call.other \in alive /\ call.other \in Lists /\ call.other \in Objects
      /\ call.op = "constructCopy" => call.list \notin alive
      /\ list[call.list].allocator # Null
  BY <1>2, Arguments
<1>4. ASSUME AtConstructFill PROVE FillsObject(call.list, "copy")
  <2>1. Left(call.list, "copy")
    BY <1>3, <1>4 DEF AtConstructFill, Untouched, Left
  <2>2. Head(todo) = Filling(call.list, "copy")
    BY <1>4 DEF AtConstructFill
  <2> QED
    BY <1>3, <1>4, <2>1, <2>2 DEF AtConstructFill, FillsObject
<1>5. ASSUME AtCopyFill PROVE FillsObject(Temp, "copy")
  <2>1. Left(Temp, "copy")
    BY <1>3, <1>5 DEF AtCopyFill, Untouched, Left
  <2>2. Head(todo) = Filling(Temp, "copy")
    BY <1>5 DEF AtCopyFill
  <2> QED
    BY <1>3, <1>5, <2>1, <2>2 DEF AtCopyFill, FillsObject, SameAllocator
<1>6. ASSUME AtMoveFill PROVE FillsObject(Temp, "move")
  <2>1. Left(Temp, "move")
    BY <1>3, <1>6 DEF AtMoveFill, Left
  <2>2. Head(todo) = Filling(Temp, "move")
    BY <1>6 DEF AtMoveFill
  <2> QED
    BY <1>3, <1>6, <2>1, <2>2 DEF AtMoveFill, FillsObject, SameAllocator
<1>7. ~Doing("clear")
  BY DEF Doing
<1> QED
  BY <1>1, <1>2, <1>3, <1>4, <1>5, <1>6, <1>7

\* Every element has been copied, or moved.
LEMMA FilledAll ==
  ASSUME Types, Heap, NEW x, NEW o \in Lists, o \in Objects, o = call.other, NEW how,
         FillsObject(x, how), Head(todo).source = Null
  PROVE  /\ ValuesOf(x) = contents[o]
         /\ how = "move" => ValuesOf(o) = Service!MovedFrom(contents[o], Len(contents[o]))
<1>1. /\ x \in Objects /\ x # o /\ Partly(x) /\ Left(x, how) /\ Filling(x, how).source = Null
  BY DEF FillsObject
<1>2. Len(Chain(x)) = Len(contents[o])
  BY <1>1, NextSource
<1>3. ValuesOf(x) = contents[o]
  <2>1. PICK q, r : q = ValuesOf(x) /\ r = contents[o]
    OBVIOUS
  <2>2. q \in Seq(Values \cup {Moved}) /\ r \in Seq(Values \cup {Moved}) /\ Len(q) = Len(r)
    BY <1>1, <1>2, <2>1, ValuesOfChain DEF Types
  <2>3. \A i \in 1..Len(q) : q[i] = r[i]
    BY <1>1, <1>2, <2>1, <2>2 DEF Partly
  <2>4. q = r
    BY ONLY <2>2, <2>3, SeqEqual
  <2> QED
    BY <2>1, <2>4
<1> QED
  BY <1>1, <1>2, <1>3 DEF Left

LEMMA FillDoneInv ==
  ASSUME Inv, FillDone
  PROVE  Inv' /\ ServiceStep
<1>0. PICK l, o : l = call.list /\ o = call.other
  OBVIOUS
<1>1. /\ Types /\ Heap /\ Sized /\ InCall /\ Somewhere /\ Inside /\ Doing("fill")
      /\ Head(todo).source = Null
      /\ todo' = Tail(todo) /\ threw' = threw /\ node' = node /\ list' = list
  BY DEF Inv, FillDone, Resting, Doing, Inside, Advance, heap
<1>2. /\ l \in Lists /\ l \in Objects /\ Temp \in Objects \ Lists
      /\ Lists \subseteq Objects /\ o \in Lists /\ o \in Objects
      /\ alive' = alive /\ call' = call /\ contents' = contents /\ kind' = kind
      /\ l = call.list /\ o = call.other /\ ~threw' /\ ~Doing("clear")
  BY <1>0, <1>1, Arguments, FilledObject DEF Inside
<1>3. /\ Types' /\ Heap'
      /\ \A y \in Objects : Chain(y)' = Chain(y) /\ ValuesOf(y)' = ValuesOf(y)
  <2>1. Types'
    BY <1>1, <1>2 DEF Types
  <2> QED
    BY <1>1, <1>2, <2>1, OthersChanged
<1>4. Sized'
  <2>1. \A y \in Objects : list'[y].size = Len(Chain(y)')
    BY <1>1, <1>2, <1>3 DEF Sized
  <2> QED
    BY <2>1 DEF Sized
<1>5. InCall' /\ ServiceStep
  BY <1>1, Arguments, InsideKept
<1>6. ASSUME AtConstructFill PROVE Somewhere'
  <2>1. FillsObject(l, "copy")
    BY <1>0, <1>1, <1>6, FilledObject
  <2>2. ValuesOf(l) = contents[o]
    BY <1>1, <1>2, <2>1, FilledAll
  <2>3. call.op = "constructCopy" /\ todo' = <<>> /\ IsEmpty(Temp)
    BY <1>1, <1>6 DEF AtConstructFill
  <2>4. AllValues' = [contents EXCEPT ![l] = contents[o]]
    BY <1>1, <1>2, <1>3, <1>6, <2>2 DEF AllValues, Types, AtConstructFill, Untouched
  <2>5. Finished'
    BY <1>2, <2>3, <2>4, Finishes
  <2> QED
    BY <1>1, <2>3, <2>5 DEF AtReturn, Somewhere, IsEmpty
<1>7. ASSUME AtCopyFill PROVE Somewhere'
  <2>1. FillsObject(Temp, "copy")
    BY <1>1, <1>7, FilledObject
  <2>2. ValuesOf(Temp) = contents[o]
    BY <1>1, <1>2, <2>1, FilledAll
  <2>3. todo' = <<Do2("swap", l, Temp), Do("clear", Temp)>>
    BY <1>0, <1>1, <1>7 DEF AtCopyFill
  <2>4. Copying' /\ Untouched({})'
    BY <1>1, <1>2, <1>3, <1>7 DEF AtCopyFill, Copying, Untouched
  <2>5. (ValuesOf(Temp) = contents[call.other])'
    BY <1>2, <1>3, <2>2
  <2>6. SameAllocator(call.list, Temp)'
    BY <1>1, <1>2, <1>7 DEF AtCopyFill, SameAllocator
  <2> QED
    BY <1>2, <2>3, <2>4, <2>5, <2>6 DEF AtCopySwap, Somewhere, Do, Do2
<1>8. ASSUME AtMoveFill PROVE Somewhere'
  <2>1. FillsObject(Temp, "move")
    BY <1>1, <1>8, FilledObject
  <2>2. ValuesOf(Temp) = contents[o]
    BY <1>1, <1>2, <2>1, FilledAll
  <2>3. todo' = <<Do("clear", l), Do2("swap", l, Temp), Do("clear", o), Do("clear", Temp)>>
    BY <1>0, <1>1, <1>8 DEF AtMoveFill
  <2>4. Moving' /\ Untouched({call.list, call.other})'
    BY <1>1, <1>2, <1>3, <1>8 DEF AtMoveFill, Moving, Untouched
  <2>5. (ValuesOf(Temp) = contents[call.other])'
    BY <1>2, <1>3, <2>2
  <2>6. SameAllocator(call.list, Temp)'
    BY <1>1, <1>2, <1>8 DEF AtMoveFill, SameAllocator
  <2> QED
    BY <1>2, <2>3, <2>4, <2>5, <2>6 DEF AtMoveClear, Replacing, Somewhere, Do, Do2
<1> QED
  BY <1>1, <1>3, <1>4, <1>5, <1>6, <1>7, <1>8, FilledObject DEF Inv

\* One turn of the loop.
LEMMA FillNodeTurn ==
  ASSUME Types, Heap, Sized, InCall, Inside, ~Doing("clear"), FillNode,
         ~threw, NEW x, NEW o \in Lists, o \in Objects, o = call.other, NEW how,
         FillsObject(x, how), Head(todo) = todo[1]
  PROVE  \/ /\ Types' /\ Heap' /\ Sized' /\ InCall' /\ ServiceStep /\ ~threw'
            /\ todo' = [todo EXCEPT ![1] = Filling(x, how)']
            /\ Partly(x)' /\ Left(x, how)'
            /\ \A y \in Objects \ {x, o} : ValuesOf(y)' = ValuesOf(y)
            /\ \A y \in Objects : list'[y].allocator = list[y].allocator
            /\ \A y \in Objects \ {x} : list'[y] = list[y]
         \/ /\ Types' /\ Heap' /\ Sized' /\ InCall' /\ ServiceStep /\ threw'
            /\ todo' = <<Do("clear", x)>>
            /\ \A y \in Objects : ValuesOf(y)' = ValuesOf(y)
            /\ list' = list
<1>0. PICK f : f = Head(todo)
  OBVIOUS
<1>1. /\ f = Filling(x, how) /\ f.list = x /\ f.how = how /\ Partly(x) /\ Left(x, how)
      /\ x \in Objects /\ x # o /\ x \in {call.list, Temp} /\ list[x].allocator # Null
      /\ f.source # Null
      /\ f = [step |-> "fill", list |-> x, how |-> how, source |-> f.source, tail |-> f.tail]
  <2>1. f = Filling(x, how)
    BY <1>0 DEF FillsObject
  <2>2. PICK source, tail :
          Filling(x, how) =
            [step |-> "fill", list |-> x, how |-> how, source |-> source, tail |-> tail]
    BY DEF Filling
  <2>3. /\ f.list = x /\ f.how = how
        /\ f = [step |-> "fill", list |-> x, how |-> how, source |-> f.source, tail |-> f.tail]
    BY ONLY <2>1, <2>2
  <2>4. f.source # Null
    BY <1>0 DEF FillNode
  <2> QED
    BY <2>1, <2>3, <2>4 DEF FillsObject
<1>2. ASSUME NEW n \in FreeNodes, NEW stored,
             stored = [node EXCEPT ![f.source].value = IF f.how = "move" THEN Moved ELSE @,
                                   ![n] = [next |-> Null, value |-> node[f.source].value,
                                           madeBy |-> list[f.list].allocator]],
             node' = IF f.tail = Null THEN stored ELSE [stored EXCEPT ![f.tail].next = n],
             list' = [list EXCEPT ![f.list].head = IF f.tail = Null THEN n ELSE @,
                                  ![f.list].size = @ + 1],
             todo' = [todo EXCEPT ![1].source = node[f.source].next, ![1].tail = n],
             threw' = threw
      PROVE  /\ Types' /\ Heap' /\ Sized' /\ InCall' /\ ServiceStep /\ ~threw'
             /\ todo' = [todo EXCEPT ![1] = Filling(x, how)']
             /\ Partly(x)' /\ Left(x, how)'
             /\ \A y \in Objects \ {x, o} : ValuesOf(y)' = ValuesOf(y)
             /\ \A y \in Objects : list'[y].allocator = list[y].allocator
             /\ \A y \in Objects \ {x} : list'[y] = list[y]
  <2>1. PICK source, tail : source = f.source /\ tail = f.tail
    OBVIOUS
  <2>2. /\ source = Filling(x, how).source /\ tail = Filling(x, how).tail /\ source # Null
        /\ f.list = x /\ f.how = how
    BY <1>1, <2>1
  <2>3. stored = [node EXCEPT ![source].value = IF how = "move" THEN Moved ELSE @,
                              ![n] = [next |-> Null, value |-> node[source].value,
                                      madeBy |-> list[x].allocator]]
    BY <1>2, <2>1, <2>2
  <2>4. node' = IF tail = Null THEN stored ELSE [stored EXCEPT ![tail].next = n]
    BY <1>2, <2>1
  <2>5. list' = [list EXCEPT ![x].head = IF tail = Null THEN n ELSE @, ![x].size = @ + 1]
    BY <1>2, <2>1, <2>2
  <2>6. threw' \in BOOLEAN /\ ~threw'
    BY <1>2 DEF Types
  <2>7. /\ Types' /\ Heap' /\ Sized' /\ InCall' /\ ServiceStep
        /\ Filling(x, how)'
             = [step |-> "fill", list |-> x, how |-> how, source |-> node[source].next, tail |-> n]
        /\ Partly(x)' /\ Left(x, how)'
        /\ \A y \in Objects \ {x, o} : ValuesOf(y)' = ValuesOf(y)
        /\ \A y \in Objects : list'[y].allocator = list[y].allocator
        /\ \A y \in Objects \ {x} : list'[y] = list[y]
    <3>1. Fills(x, how, n, source, tail)
      BY ONLY <2>3, <2>4, <2>5 DEF Fills
    <3>2. x \in Objects /\ x # o /\ x \in {call.list, Temp} /\ list[x].allocator # Null
      BY <1>1
    <3>3. Partly(x) /\ Left(x, how)
      BY <1>1
    <3>4. Types /\ Heap /\ Sized /\ InCall /\ Inside /\ ~Doing("clear") /\ threw' \in BOOLEAN
      BY <2>6
    <3>5. o \in Lists /\ o \in Objects /\ o = call.other
      OBVIOUS
    <3>6. n \in FreeNodes
      OBVIOUS
    <3> QED
      BY ONLY <2>2, <3>1, <3>2, <3>3, <3>4, <3>5, <3>6, NodeFilled
  <2>8. todo' = [todo EXCEPT ![1] = Filling(x, how)']
    <3>1. PICK g : g = Filling(x, how)'
      OBVIOUS
    <3>2. [f EXCEPT !.source = node[source].next, !.tail = n] = g
      <4>1. PICK p, q, r : p = node[source].next /\ q = f.source /\ r = f.tail
        OBVIOUS
      <4>2. f = [step |-> "fill", list |-> x, how |-> how, source |-> q, tail |-> r]
        BY <1>1, <4>1
      <4>3. g = [step |-> "fill", list |-> x, how |-> how, source |-> p, tail |-> n]
        BY <2>7, <3>1, <4>1
      <4>4. [f EXCEPT !.source = p, !.tail = n] = g
        <5> DEFINE R == [step : {"fill"}, list : {x}, how : {how}, source : {p, q}, tail : {n, r}]
                   e == [f EXCEPT !.source = p, !.tail = n]
        <5>1. f \in R
          BY ONLY <4>2
        <5>2. e \in R
          BY ONLY <5>1
        <5>3. e.source = p /\ e.tail = n
          BY ONLY <5>1
        <5>4. e.step = "fill" /\ e.list = x /\ e.how = how
          BY ONLY <5>2
        <5> HIDE DEF e
        <5>5. e = [step |-> "fill", list |-> x, how |-> how, source |-> p, tail |-> n]
          BY ONLY <5>2, <5>3, <5>4
        <5> QED
          BY ONLY <4>3, <5>5 DEF e
      <4> QED
        BY ONLY <4>1, <4>4
    <3>3. f = todo[1]
      BY <1>0
    <3>4. todo' = [todo EXCEPT ![1] = [todo[1] EXCEPT !.source = node[source].next, !.tail = n]]
      BY <1>2, <2>1
    <3> QED
      BY <3>1, <3>2, <3>3, <3>4
  <2> QED
    BY <2>6, <2>7, <2>8
<1>3. ASSUME CreateNodeFails(x), Throw(<<Do("clear", x)>>), UNCHANGED list
      PROVE  /\ Types' /\ Heap' /\ Sized' /\ InCall' /\ ServiceStep /\ threw'
             /\ todo' = <<Do("clear", x)>>
             /\ \A y \in Objects : ValuesOf(y)' = ValuesOf(y)
             /\ list' = list
  <2>1. /\ Types' /\ Heap' /\ InCall' /\ ServiceStep
        /\ \A y \in Objects : Chain(y)' = Chain(y) /\ ValuesOf(y)' = ValuesOf(y)
        /\ todo' = <<Do("clear", x)>> /\ threw' /\ list' = list
    BY <1>1, <1>3, CreationFails DEF Throw
  <2>2. \A y \in Objects : list'[y].size = Len(Chain(y)')
    BY <2>1 DEF Sized
  <2> QED
    BY <2>1, <2>2 DEF Sized
<1> QED
  <2>1. \/ \E n \in FreeNodes :
             /\ node' = IF f.tail = Null
                        THEN [node EXCEPT
                                ![f.source].value = IF f.how = "move" THEN Moved ELSE @,
                                ![n] = [next |-> Null, value |-> node[f.source].value,
                                        madeBy |-> list[f.list].allocator]]
                        ELSE [[node EXCEPT
                                 ![f.source].value = IF f.how = "move" THEN Moved ELSE @,
                                 ![n] = [next |-> Null, value |-> node[f.source].value,
                                         madeBy |-> list[f.list].allocator]]
                              EXCEPT ![f.tail].next = n]
             /\ list' = [list EXCEPT ![f.list].head = IF f.tail = Null THEN n ELSE @,
                                     ![f.list].size = @ + 1]
             /\ todo' = [todo EXCEPT ![1].source = node[f.source].next, ![1].tail = n]
             /\ UNCHANGED threw
        \/ CreateNodeFails(f.list) /\ Throw(<<Do("clear", f.list)>>) /\ UNCHANGED list
    BY <1>0, Zenon DEF FillNode
  <2>2. CASE CreateNodeFails(f.list) /\ Throw(<<Do("clear", f.list)>>) /\ UNCHANGED list
    <3>1. CreateNodeFails(x) /\ Throw(<<Do("clear", x)>>) /\ UNCHANGED list
      BY <1>1, <2>2, Zenon
    <3> QED
      BY <1>3, <3>1
  <2> QED
    BY <1>2, <2>1, <2>2, Zenon

LEMMA FillNodeInv ==
  ASSUME Inv, FillNode
  PROVE  Inv' /\ ServiceStep
<1>0. PICK l, o : l = call.list /\ o = call.other
  OBVIOUS
<1>1. /\ Types /\ Heap /\ Sized /\ InCall /\ Somewhere /\ Inside /\ Doing("fill")
  BY DEF Inv, FillNode, Resting, Doing, Inside
<1>2. /\ l \in Lists /\ l \in Objects /\ Temp \in Objects \ Lists
      /\ Lists \subseteq Objects /\ o \in Lists /\ o \in Objects
      /\ alive' = alive /\ call' = call /\ contents' = contents /\ kind' = kind
      /\ l = call.list /\ o = call.other /\ ~threw /\ ~Doing("clear")
  BY <1>0, <1>1, Arguments, FilledObject DEF Inside
<1>3. CASE AtConstructFill
  <2>1. FillsObject(l, "copy")
    BY <1>0, <1>1, <1>3, FilledObject
  <2>2. todo = <<Filling(l, "copy")>> /\ Head(todo) = todo[1]
    BY <1>0, <1>3 DEF AtConstructFill
  <2>3. call.op = "constructCopy" /\ IsEmpty(Temp) /\ contents[l] = <<>>
    BY <1>0, <1>1, <1>2, <1>3, Arguments DEF AtConstructFill, InCall
  <2>4. \A y \in Lists \ {l} : ValuesOf(y) = contents[y]
    BY <1>0, <1>3 DEF AtConstructFill, Untouched
  <2>5. CASE /\ Types' /\ Heap' /\ Sized' /\ InCall' /\ ServiceStep /\ ~threw'
             /\ todo' = [todo EXCEPT ![1] = Filling(l, "copy")']
             /\ Partly(l)' /\ Left(l, "copy")'
             /\ \A y \in Objects \ {l, o} : ValuesOf(y)' = ValuesOf(y)
             /\ \A y \in Objects : list'[y].allocator = list[y].allocator
             /\ \A y \in Objects \ {l} : list'[y] = list[y]
    <3>1. todo' = <<Filling(l, "copy")'>>
      BY <2>2, <2>5
    <3>2. Untouched({call.list})'
      <4>1. ValuesOf(o)' = contents[o]
        BY <1>2, <2>5 DEF Left
      <4> QED
        BY <1>2, <2>4, <2>5, <4>1 DEF Untouched
    <3>3. IsEmpty(Temp)'
      BY <1>2, <2>3, <2>5 DEF IsEmpty
    <3>4. (todo = <<Filling(call.list, "copy")>> /\ Partly(call.list))'
      BY <1>2, <2>5, <3>1
    <3>5. AtConstructFill'
      BY <1>2, <2>3, <2>5, <3>2, <3>3, <3>4 DEF AtConstructFill
    <3> QED
      BY <2>5, <3>5 DEF Inv, Somewhere
  <2>6. CASE /\ Types' /\ Heap' /\ Sized' /\ InCall' /\ ServiceStep /\ threw'
             /\ todo' = <<Do("clear", l)>>
             /\ \A y \in Objects : ValuesOf(y)' = ValuesOf(y)
             /\ list' = list
    <3>1. Untouched({call.list})' /\ IsEmpty(Temp)'
      BY <1>2, <2>3, <2>4, <2>6 DEF Untouched, IsEmpty
    <3>2. AtConstructUndo'
      BY <1>2, <2>3, <2>6, <3>1 DEF AtConstructUndo, Do
    <3> QED
      BY <2>6, <3>2 DEF Inv, Somewhere
  <2> QED
    BY <1>1, <1>2, <2>1, <2>2, <2>5, <2>6, FillNodeTurn
<1>4. CASE AtCopyFill
  <2>1. FillsObject(Temp, "copy")
    BY <1>1, <1>4, FilledObject
  <2>2. /\ todo = <<Filling(Temp, "copy"), Do2("swap", l, Temp), Do("clear", Temp)>>
        /\ Head(todo) = todo[1]
    BY <1>0, <1>4 DEF AtCopyFill
  <2>3. /\ call.op = "assignCopy" /\ l # o
        /\ \A y \in Lists : ValuesOf(y) = contents[y]
        /\ SameAllocator(l, Temp)
    BY <1>0, <1>4 DEF AtCopyFill, Copying, Untouched
  <2>5. CASE /\ Types' /\ Heap' /\ Sized' /\ InCall' /\ ServiceStep /\ ~threw'
             /\ todo' = [todo EXCEPT ![1] = Filling(Temp, "copy")']
             /\ Partly(Temp)' /\ Left(Temp, "copy")'
             /\ \A y \in Objects \ {Temp, o} : ValuesOf(y)' = ValuesOf(y)
             /\ \A y \in Objects : list'[y].allocator = list[y].allocator
             /\ \A y \in Objects \ {Temp} : list'[y] = list[y]
    <3>1. todo' = <<Filling(Temp, "copy")', Do2("swap", l, Temp), Do("clear", Temp)>>
      BY <2>2, <2>5
    <3>2. Untouched({})'
      <4>1. ValuesOf(o)' = contents[o]
        BY <1>2, <2>5 DEF Left
      <4> QED
        BY <1>2, <2>3, <2>5, <4>1 DEF Untouched
    <3>3. SameAllocator(call.list, Temp)' /\ Copying'
      BY <1>2, <2>3, <2>5 DEF SameAllocator, Copying
    <3>4. (todo = <<Filling(Temp, "copy"), Do2("swap", call.list, Temp), Do("clear", Temp)>>)'
      BY <1>2, <3>1 DEF Do, Do2
    <3>5. AtCopyFill'
      BY <2>5, <3>2, <3>3, <3>4 DEF AtCopyFill
    <3> QED
      BY <2>5, <3>5 DEF Inv, Somewhere
  <2>6. CASE /\ Types' /\ Heap' /\ Sized' /\ InCall' /\ ServiceStep /\ threw'
             /\ todo' = <<Do("clear", Temp)>>
             /\ \A y \in Objects : ValuesOf(y)' = ValuesOf(y)
             /\ list' = list
    <3>1. AllValues' = contents
      BY <1>1, <1>2, <2>3, <2>6 DEF AllValues, Types
    <3>2. Finished'
      BY <1>2, <2>3, <2>6, <3>1 DEF Finished, Thrown
    <3>3. AtTempClear'
      BY <1>2, <2>3, <2>6, <3>2 DEF AtTempClear, Do
    <3> QED
      BY <2>6, <3>3 DEF Inv, Somewhere
  <2> QED
    BY <1>1, <1>2, <2>1, <2>2, <2>5, <2>6, FillNodeTurn
<1>5. CASE AtMoveFill
  <2>1. FillsObject(Temp, "move")
    BY <1>1, <1>5, FilledObject
  <2>2. /\ todo = <<Filling(Temp, "move"), Do("clear", l), Do2("swap", l, Temp),
                    Do("clear", o), Do("clear", Temp)>>
        /\ Head(todo) = todo[1]
    BY <1>0, <1>5 DEF AtMoveFill
  <2>3. /\ call.op = "assignMove" /\ l # o
        /\ \A y \in Lists \ {o} : ValuesOf(y) = contents[y]
        /\ SameAllocator(l, Temp) /\ Partly(Temp)
    BY <1>0, <1>5 DEF AtMoveFill, Moving, Untouched
  <2>4. ValuesOf(o) = Service!MovedFrom(contents[o], Len(Chain(Temp)))
    BY <1>0, <1>5 DEF AtMoveFill
  <2>5. CASE /\ Types' /\ Heap' /\ Sized' /\ InCall' /\ ServiceStep /\ ~threw'
             /\ todo' = [todo EXCEPT ![1] = Filling(Temp, "move")']
             /\ Partly(Temp)' /\ Left(Temp, "move")'
             /\ \A y \in Objects \ {Temp, o} : ValuesOf(y)' = ValuesOf(y)
             /\ \A y \in Objects : list'[y].allocator = list[y].allocator
             /\ \A y \in Objects \ {Temp} : list'[y] = list[y]
    <3>1. todo' = <<Filling(Temp, "move")', Do("clear", l), Do2("swap", l, Temp),
                    Do("clear", o), Do("clear", Temp)>>
      BY <2>2, <2>5
    <3>2. Untouched({call.other})'
      BY <1>2, <2>3, <2>5 DEF Untouched
    <3>3. SameAllocator(call.list, Temp)' /\ Moving'
      BY <1>2, <2>3, <2>5 DEF SameAllocator, Moving
    <3>4. (todo = <<Filling(Temp, "move"), Do("clear", call.list), Do2("swap", call.list, Temp),
                    Do("clear", call.other), Do("clear", Temp)>>)'
      BY <1>2, <3>1 DEF Do, Do2
    <3>5. (ValuesOf(call.other) = Service!MovedFrom(contents[call.other], Len(Chain(Temp))))'
      BY <2>5 DEF Left
    <3>6. AtMoveFill'
      BY <2>5, <3>2, <3>3, <3>4, <3>5 DEF AtMoveFill
    <3> QED
      BY <2>5, <3>6 DEF Inv, Somewhere
  <2>6. CASE /\ Types' /\ Heap' /\ Sized' /\ InCall' /\ ServiceStep /\ threw'
             /\ todo' = <<Do("clear", Temp)>>
             /\ \A y \in Objects : ValuesOf(y)' = ValuesOf(y)
             /\ list' = list
    <3>1. AllValues' = [contents EXCEPT ![o] = Service!MovedFrom(@, Len(Chain(Temp)))]
      <4>1. ValuesOf(o)' = Service!MovedFrom(contents[o], Len(Chain(Temp)))
        BY <1>2, <2>4, <2>6
      <4>2. \A y \in Lists \ {o} : ValuesOf(y)' = contents[y]
        BY <1>2, <2>3, <2>6
      <4> QED
        BY <1>1, <1>2, <4>1, <4>2 DEF AllValues, Types
    <3>2. Len(Chain(Temp)) \in 0..Len(contents[o])
      <4>1. Len(Chain(Temp)) \in Nat /\ Len(contents[o]) \in Nat
        BY <1>1, <1>2, ValuesOfChain, LenProperties DEF Types
      <4>2. Len(Chain(Temp)) <= Len(contents[o])
        BY <1>0, <2>3 DEF Partly
      <4> QED
        BY <4>1, <4>2
    <3>3. Thrown'
      BY <1>2, <2>3, <3>1, <3>2 DEF Thrown
    <3>4. AtTempClear'
      BY <1>2, <2>3, <2>6, <3>3 DEF AtTempClear, Do, Finished
    <3> QED
      BY <2>6, <3>4 DEF Inv, Somewhere
  <2> QED
    BY <1>1, <1>2, <2>1, <2>2, <2>5, <2>6, FillNodeTurn
<1> QED
  BY <1>1, <1>3, <1>4, <1>5, FilledObject

-----------------------------------------------------------------------------
(* The invariant, and what the service promises, in every step.            *)

LEMMA InitInv ==
  ASSUME Init
  PROVE  Inv /\ Service!Init
<1>1. /\ list = [x \in Objects |-> NoList] /\ node = [n \in Nodes |-> NoNode]
      /\ alive = {} /\ todo = <<>> /\ threw = FALSE /\ call = NoCall
      /\ contents = [l \in Lists |-> <<>>] /\ kind \in Kinds
  BY DEF Init
<1>2. Types
  <2>1. NoList \in [head : Nodes \cup {Null}, size : Nat, allocator : Allocators \cup {Null}]
    BY DEF NoList
  <2>2. NoNode \in [next : Nodes \cup {Null}, value : Values \cup {Moved, Null},
                    madeBy : Allocators \cup {Null}]
    BY DEF NoNode
  <2>3. <<>> \in Seq(Values \cup {Moved})
    OBVIOUS
  <2> QED
    BY <1>1, <2>1, <2>2, <2>3 DEF Types
<1>3. ASSUME NEW x \in Objects
      PROVE  /\ list[x].head = Null /\ list[x].size = 0
             /\ Path(node, list[x].head, <<>>)
             /\ Chain(x) = <<>> /\ ChainNodes(x) = {}
  <2>1. list[x].head = Null /\ list[x].size = 0
    BY <1>1 DEF NoList
  <2>2. Path(node, list[x].head, <<>>)
    BY <2>1 DEF Path
  <2>3. Chain(x) = <<>>
    BY <2>2, ChainIs
  <2> QED
    BY <2>1, <2>2, <2>3 DEF ChainNodes
<1>4. Heap
  <2>1. \A n \in Nodes : node[n].madeBy = Null
    BY <1>1 DEF NoNode
  <2> QED
    BY <1>3, <2>1 DEF Heap
<1>5. Sized
  BY <1>3 DEF Sized
<1>6. Resting
  <2>1. \A y \in Lists : y \in Objects
    BY DEF Objects
  <2>2. \A y \in Lists : ValuesOf(y) = <<>>
    BY <1>2, <1>3, <1>4, <2>1, ValuesOfChain
  <2> QED
    BY <1>1, <2>2 DEF Resting, Untouched
<1> QED
  BY <1>1, <1>2, <1>4, <1>5, <1>6 DEF Inv, Service!Init, NoCall

LEMMA AssignMoveInv ==
  ASSUME Inv, NEW l \in alive, NEW o \in alive, AssignMove(l, o)
  PROVE  Inv' /\ ServiceStep
<1>1. CASE l = o
  BY <1>1, SelfAssignInv
<1>2. CASE l # o /\ (kind.propagates \/ list[l].allocator = list[o].allocator)
  BY <1>2, AssignMoveStealInv
<1>3. CASE l # o /\ ~kind.propagates /\ list[l].allocator # list[o].allocator
  BY <1>3, AssignMoveFillInv
<1> QED
  BY <1>1, <1>2, <1>3

LEMMA NextInv ==
  ASSUME Inv, Next
  PROVE  Inv' /\ ServiceStep
<1>1. ASSUME NEW l \in Lists, NEW a \in Allocators, Construct(l, a)
      PROVE  Inv' /\ ServiceStep
  BY <1>1, ConstructInv
<1>2. ASSUME NEW l \in Lists, NEW o \in alive, ConstructMove(l, o)
      PROVE  Inv' /\ ServiceStep
  BY <1>2, ConstructMoveInv
<1>3. ASSUME NEW l \in Lists, NEW o \in alive, NEW a \in Allocators, ConstructCopy(l, o, a)
      PROVE  Inv' /\ ServiceStep
  BY <1>3, ConstructCopyInv
<1>4. ASSUME NEW l \in alive, NEW o \in alive, AssignCopy(l, o)
      PROVE  Inv' /\ ServiceStep
  <2>1. CASE l = o
    BY <1>4, <2>1, SelfAssignInv
  <2>2. CASE l # o
    BY <1>4, <2>2, AssignCopyInv
  <2> QED
    BY <2>1, <2>2
<1>5. ASSUME NEW l \in alive, NEW o \in alive, AssignMove(l, o)
      PROVE  Inv' /\ ServiceStep
  BY <1>5, AssignMoveInv
<1>6. ASSUME NEW l \in alive, Destroy(l) \/ Clear(l)
      PROVE  Inv' /\ ServiceStep
  BY <1>6, ClearInv
<1>7. ASSUME NEW l \in alive, PopFront(l)
      PROVE  Inv' /\ ServiceStep
  BY <1>7, PopInv
<1>8. ASSUME NEW l \in alive, ReleaseNodes(l)
      PROVE  Inv' /\ ServiceStep
  BY <1>8, ReleaseInv
<1>9. ASSUME NEW l \in alive, NEW v \in Values, PushFront(l, v)
      PROVE  Inv' /\ ServiceStep
  BY <1>9, PushInv
<1>10. ASSUME Step
       PROVE  Inv' /\ ServiceStep
  BY <1>10, PushNodeInv, FillNodeInv, FillDoneInv, PopNodeInv, ClearNodeInv, ClearDoneInv,
     StealInv, TakeAllocatorInv, SwapInv DEF Step
<1>11. ASSUME Return
       PROVE  Inv' /\ ServiceStep
  BY <1>11, ReturnInv
<1>12. ASSUME NEW a \in Allocators, ResetArena(a)
       PROVE  Inv' /\ ServiceStep
  BY <1>12, ResetInv
<1> QED
  BY <1>1, <1>2, <1>3, <1>4, <1>5, <1>6, <1>7, <1>8, <1>9, <1>10, <1>11, <1>12 DEF Next

LEMMA StutterInv ==
  ASSUME Inv, UNCHANGED vars
  PROVE  Inv' /\ ServiceStep
<1>1. /\ kind' = kind /\ alive' = alive /\ list' = list /\ node' = node /\ todo' = todo
      /\ threw' = threw /\ call' = call /\ contents' = contents
  BY DEF vars
<1>2. ServiceStep
  BY <1>1 DEF ServiceStep
<1>3. /\ \A x : Chain(x)' = Chain(x)
      /\ \A x : ChainNodes(x)' = ChainNodes(x)
      /\ \A x : ValuesOf(x)' = ValuesOf(x)
      /\ AllValues' = AllValues
      /\ \A x : IsEmpty(x)' = IsEmpty(x)
      /\ \A x, y : SameAllocator(x, y)' = SameAllocator(x, y)
      /\ \A S : Untouched(S)' = Untouched(S)
  BY <1>1 DEF Chain, ChainNodes, ValuesOf, AllValues, IsEmpty, SameAllocator, Untouched
<1>4. /\ \A x, how : Filling(x, how)' = Filling(x, how)
      /\ \A x : Partly(x)' = Partly(x)
  BY <1>1, <1>3 DEF Filling, Partly
<1>5. Finished' = Finished
  BY <1>1, <1>3 DEF Finished, Done, Thrown, Service!Effect
<1>6. Types' /\ Heap' /\ Sized'
  BY <1>1, <1>3 DEF Inv, Types, Heap, Sized, Doing
<1>7. Resting => Resting'
  BY <1>1, <1>3 DEF Resting
<1>8. InCall => InCall'
  BY <1>1 DEF InCall
<1>9. /\ AtReturn => AtReturn'
      /\ AtPush => AtPush'
      /\ AtPop => AtPop'
      /\ AtClear => AtClear'
  BY <1>1, <1>3, <1>5 DEF AtReturn, AtPush, AtPop, AtClear
<1>10. /\ AtConstructFill => AtConstructFill'
       /\ AtConstructUndo => AtConstructUndo'
       /\ AtTempClear => AtTempClear'
  BY <1>1, <1>3, <1>4, <1>5 DEF AtConstructFill, AtConstructUndo, AtTempClear
<1>11. /\ AtCopyFill => AtCopyFill'
       /\ AtCopySwap => AtCopySwap'
  BY <1>1, <1>3, <1>4 DEF AtCopyFill, AtCopySwap, Copying
<1>12. /\ AtStealClear => AtStealClear'
       /\ AtTakeAllocator => AtTakeAllocator'
       /\ AtSteal => AtSteal'
  BY <1>1, <1>3 DEF AtStealClear, AtTakeAllocator, AtSteal, Stealing, Moving
<1>13. AtMoveFill => AtMoveFill'
  BY <1>1, <1>3, <1>4 DEF AtMoveFill, Moving
<1>14. /\ AtMoveClear => AtMoveClear'
       /\ AtMoveSwap => AtMoveSwap'
       /\ AtSourceClear => AtSourceClear'
  BY <1>1, <1>3 DEF AtMoveClear, AtMoveSwap, AtSourceClear, Replacing, Moving
<1>15. Somewhere => Somewhere'
  BY <1>9, <1>10, <1>11, <1>12, <1>13, <1>14 DEF Somewhere
<1> QED
  BY <1>2, <1>6, <1>7, <1>8, <1>15 DEF Inv

-----------------------------------------------------------------------------
(* Theorems.                                                               *)

THEOREM Invariance ==
  Spec => []Inv
<1>1. Init => Inv
  BY InitInv
<1>2. Inv /\ [Next]_vars => Inv'
  BY NextInv, StutterInv
<1> QED
  BY <1>1, <1>2, PTL DEF Spec

\* No list has a negative size or a head that is no node, whatever throws, and
\* between calls nothing but the constructed lists holds anything.
THEOREM TypeCorrect ==
  Spec => []TypeOK
<1>1. Inv => TypeOK
  BY Rests DEF Inv, Types, Resting, InCall, NoCall, Service!NoCall, Service!Operations, TypeOK
<1> QED
  BY <1>1, Invariance, PTL

\* A List gives a node back only to the allocator that made it: after a move
\* assignment between lists of different allocators, a swap with the local copy,
\* or a reset of a pool, every node a list can reach is its own allocator's.
THEOREM OwnNodes ==
  Spec => []NodesOfOwnAllocator
<1>1. Inv => NodesOfOwnAllocator
  BY DEF Inv, Heap, NodesOfOwnAllocator
<1> QED
  BY <1>1, Invariance, PTL

\* No node is reached twice, so the destructors free none twice, and size() counts
\* the nodes whenever no call is under way.
THEOREM NoSharedNode ==
  Spec => []ChainsDisjoint
<1>1. Inv => ChainsDisjoint
  <2> SUFFICES ASSUME Inv PROVE ChainsDisjoint
    OBVIOUS
  <2>1. \A x, y \in Objects : x # y => ChainNodes(x) \cap ChainNodes(y) = {}
    BY DEF Inv, Heap
  <2>2. ASSUME NEW x \in Objects
        PROVE  Cardinality(ChainNodes(x)) = Len(Chain(x))
    <3>1. Path(node, list[x].head, Chain(x))
      BY DEF Inv, Heap
    <3>2. Cardinality(On(Chain(x))) = Len(Chain(x))
      BY <3>1, PathCardinality
    <3> QED
      BY <3>2, ChainIs
  <2>3. ASSUME call = NoCall, NEW l \in alive
        PROVE  list[l].size = Len(Chain(l))
    BY <2>3, Rests DEF Types, Objects
  <2> QED
    BY <2>1, <2>2, <2>3 DEF ChainsDisjoint
<1> QED
  BY <1>1, Invariance, PTL

\* Whatever an allocator that can deallocate has allocated is on some list: an
\* element that throws in the middle of copy_from, or the nodes that an
\* assignment replaces, leave nothing behind.
THEOREM NothingLeaks ==
  Spec => []NoNodeLost
<1>1. Inv => NoNodeLost
  <2> SUFFICES ASSUME Inv, ~kind.arena
               PROVE  UsedNodes = UNION {ChainNodes(x) : x \in Objects}
    BY DEF NoNodeLost
  <2>1. Heap /\ \A x \in Objects : ChainNodes(x) \subseteq Nodes
    BY ValuesOfChain DEF Inv
  <2>2. \A n \in Nodes : node[n].madeBy # Null => \E x \in Objects : n \in ChainNodes(x)
    BY <2>1 DEF Heap
  <2>3. \A x \in Objects : \A n \in ChainNodes(x) : n \in Nodes /\ node[n].madeBy # Null
    BY <2>1 DEF Heap
  <2> QED
    BY <2>2, <2>3 DEF UsedNodes
<1> QED
  BY <1>1, Invariance, PTL

\* Each public operation, with all the private steps it is made of and whatever
\* throws in the middle, does to the values of the lists in one step of
\* ListService what its name says, or throws and does nothing to them (a move
\* that throws has moved from the first elements of its source).
THEOREM Refinement ==
  Spec => ImplementsListService
<1>1. Init => Service!Init
  BY InitInv
<1>2. Inv /\ [Next]_vars => [Service!Next]_(Service!vars)
  BY NextInv, StutterInv DEF ServiceStep, Service!vars
<1> QED
  BY <1>1, <1>2, Invariance, PTL DEF Spec, ImplementsListService, Service!Spec
=============================================================================

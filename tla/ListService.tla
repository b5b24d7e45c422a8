---------------------------- MODULE ListService ----------------------------
(***************************************************************************)
(* What doost::List promises its user: a list is a sequence of values, and *)
(* a call either has its effect or throws and has none.  No nodes, no      *)
(* allocators, no steps inside a call.  One exception is part of the       *)
(* promise: a move assignment that throws may have moved some of the       *)
(* elements of its source already.                                         *)
(***************************************************************************)
EXTENDS Sequences, Naturals

CONSTANTS
  Lists, Values,
  Moved,   \* what a moved-from element holds
  Null     \* no argument

VARIABLES
  alive,     \* the lists that are constructed and not yet destroyed
  contents,  \* the values of each list, in order
  call       \* the call being made

vars == <<alive, contents, call>>

Operations ==
  {"construct", "constructCopy", "constructMove", "destroy", "assignCopy",
   "assignMove", "push", "pop", "clear", "release"}

NoCall == [op |-> "none", list |-> Null, other |-> Null, value |-> Null]

Init ==
  /\ alive = {}
  /\ contents = [l \in Lists |-> <<>>]
  /\ call = NoCall

Constructors == {"construct", "constructCopy", "constructMove"}
Unary == {"construct", "destroy", "push", "pop", "clear", "release"}

Call ==
  /\ call = NoCall
  /\ \E op \in Operations, l \in Lists, o \in alive \cup {Null}, v \in Values \cup {Null} :
       /\ l \in alive <=> op \notin Constructors
       /\ o = Null <=> op \in Unary
       /\ v # Null <=> op = "push"
       /\ call' = [op |-> op, list |-> l, other |-> o, value |-> v]
  /\ UNCHANGED <<alive, contents>>

\* What the lists hold after a call that did not throw.
Effect(c) ==
  LET l == c.list
      o == c.other
  IN  CASE c.op \in {"construct", "destroy", "clear", "release"} ->
             [contents EXCEPT ![l] = <<>>]
        [] c.op \in {"constructCopy", "assignCopy"} ->
             [contents EXCEPT ![l] = contents[o]]
        [] c.op = "constructMove" \/ (c.op = "assignMove" /\ l # o) ->
             [contents EXCEPT ![l] = contents[o], ![o] = <<>>]
        [] c.op = "assignMove" /\ l = o -> contents
        [] c.op = "push" -> [contents EXCEPT ![l] = <<c.value>> \o @]
        [] c.op = "pop"  -> [contents EXCEPT ![l] = Tail(@)]

Return ==
  /\ call # NoCall
  /\ ~(call.op = "pop" /\ contents[call.list] = <<>>)
  /\ contents' = Effect(call)
  /\ alive' = CASE call.op \in Constructors -> alive \cup {call.list}
                [] call.op = "destroy" -> alive \ {call.list}
                [] OTHER -> alive
  /\ call' = NoCall

\* The first k values of a sequence have been moved from.
MovedFrom(values, k) ==
  [i \in 1..Len(values) |-> IF i <= k THEN Moved ELSE values[i]]

Throw ==
  /\ call.op \in {"constructCopy", "assignCopy", "assignMove", "push", "pop"}
  /\ call.op = "pop" => contents[call.list] = <<>>
  /\ IF call.op = "assignMove"
     THEN \E k \in 0..Len(contents[call.other]) :
            contents' = [contents EXCEPT ![call.other] = MovedFrom(@, k)]
     ELSE UNCHANGED contents
  /\ call' = NoCall
  /\ UNCHANGED alive

Next == Call \/ Return \/ Throw

Spec == Init /\ [][Next]_vars
=============================================================================

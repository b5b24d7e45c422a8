---------------------------- MODULE SharedBlocks ----------------------------
(***************************************************************************)
(* What doost::String promises its user, with no owner list and no tag     *)
(* bit: every handle owns one block or none; a block lives exactly as long *)
(* as some handle owns it; unique() answers whether a handle is the only   *)
(* owner.  heap and unique are outputs: every step sets them to what the   *)
(* new ownership says they are.                                            *)
(***************************************************************************)

CONSTANTS
  Handles,   \* the String objects a program may have
  Blocks,    \* the heap blocks the allocator may return
  Null

VARIABLES
  alive,     \* handles that are constructed and not yet destroyed
  owns,      \* block owned by each handle, Null if none
  heap,      \* blocks allocated and not yet freed
  unique     \* what unique() returns for each handle

vars == <<alive, owns, heap, unique>>

OwnersOf(o, b) == {h \in Handles : o[h] = b}

\* Ownership becomes o; the two outputs follow it.
Become(o) ==
  /\ owns' = o
  /\ heap' = {o[h] : h \in Handles} \ {Null}
  /\ unique' = [h \in Handles |-> o[h] # Null /\ OwnersOf(o, o[h]) = {h}]

Init ==
  /\ alive = {}
  /\ owns = [h \in Handles |-> Null]
  /\ heap = {}
  /\ unique = [h \in Handles |-> FALSE]

\* h is constructed owning nothing, a fresh block, or what o owns.
ConstructEmpty(h) == Become(owns)

ConstructFresh(h) ==
  \E b \in Blocks \ heap : Become([owns EXCEPT ![h] = b])

ConstructCopy(h, o) == Become([owns EXCEPT ![h] = owns[o]])

ConstructMove(h, o) == Become([owns EXCEPT ![h] = owns[o], ![o] = Null])

Construct(h) ==
  /\ h \notin alive
  /\ alive' = alive \cup {h}
  /\ \/ ConstructEmpty(h)
     \/ ConstructFresh(h)
     \/ \E o \in alive : ConstructCopy(h, o) \/ ConstructMove(h, o)

Drop(h) == Become([owns EXCEPT ![h] = Null])

Destroy(h) ==
  /\ alive' = alive \ {h}
  /\ Drop(h)

\* Assigning a text always takes a block nobody had before the assignment,
\* the one h gives up included.
AssignFresh(h) ==
  \E b \in Blocks \ heap : Become([owns EXCEPT ![h] = b])

AssignCopy(h, o) == Become([owns EXCEPT ![h] = owns[o]])

AssignMove(h, o) ==
  /\ h # o
  /\ Become([owns EXCEPT ![h] = owns[o], ![o] = Null])

Exchange(h, o) == Become([owns EXCEPT ![h] = owns[o], ![o] = owns[h]])

Assign(h) ==
  /\ UNCHANGED alive
  /\ \/ Drop(h)
     \/ AssignFresh(h)
     \/ \E o \in alive : AssignCopy(h, o) \/ AssignMove(h, o) \/ Exchange(h, o)

Next ==
  \/ \E h \in Handles : Construct(h)
  \/ \E h \in alive : Destroy(h) \/ Assign(h)

Spec == Init /\ [][Next]_vars
=============================================================================

-------------------------------- MODULE Arena --------------------------------
(***************************************************************************)
(* What every downward pool promises: blocks in use are aligned and do not *)
(* overlap, and a program that asks for more than there is dies (at the    *)
(* guard page) before it uses a byte outside the area it bought.  No       *)
(* cursor, no order of addresses, no threads.                              *)
(***************************************************************************)
EXTENDS Integers

CONSTANT Requests   \* the [bytes, alignment] a program asks for

VARIABLES
  status,    \* "closed", "open", "crashed" or "lost"
  area,      \* [from, to]: the addresses the pool may hand out
  guarded,   \* the guard is as large as the program's requests need
  held       \* blocks in use, as [begin, bytes]

vars == <<status, area, guarded, held>>

Init ==
  /\ status = "closed"
  /\ area = [from |-> 0, to |-> 0]
  /\ guarded \in BOOLEAN
  /\ held = {}

Open ==
  /\ status = "closed"
  /\ status' = "open"
  /\ area'.from <= area'.to
  /\ guarded' \in BOOLEAN
  /\ held' = {}

Apart(a, b) == a.begin + a.bytes <= b.begin \/ b.begin + b.bytes <= a.begin

\* An empty block holds nothing and need not be anywhere.
Issue(r) ==
  /\ status = "open" /\ r.bytes > 0
  /\ \E begin \in area.from .. (area.to - r.bytes) :
       LET block == [begin |-> begin, bytes |-> r.bytes]
       IN  /\ begin % r.alignment = 0
           /\ \A other \in held : Apart(block, other)
           /\ held' = held \cup {block}
  /\ UNCHANGED <<status, area, guarded>>

Crash ==
  /\ status = "open"
  /\ status' = "crashed"
  /\ UNCHANGED <<area, guarded, held>>

\* Only a pool with too small a guard lets a program use foreign memory.
Lose ==
  /\ status = "open" /\ ~guarded
  /\ status' = "lost"
  /\ UNCHANGED <<area, guarded, held>>

Reset ==
  /\ status = "open"
  /\ held' = {}
  /\ UNCHANGED <<status, area, guarded>>

Close ==
  /\ status = "open"
  /\ status' = "closed"
  /\ held' = {}
  /\ area' = [from |-> 0, to |-> 0]
  /\ guarded' \in BOOLEAN

Next == Open \/ (\E r \in Requests : Issue(r)) \/ Crash \/ Lose \/ Reset \/ Close

Spec == Init /\ [][Next]_vars
=============================================================================

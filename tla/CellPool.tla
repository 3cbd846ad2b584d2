------------------------------ MODULE CellPool ------------------------------
(***************************************************************************)
(* What the small path of one size class promises, with every cache and   *)
(* page list abstracted away: the class owns some runs taken from the      *)
(* backend; an allocation hands out a cell, aligned as asked, of a run the *)
(* class owns (possibly a run it takes from the backend in the same call)  *)
(* that the program does not hold; a free gives a held cell back; runs go  *)
(* back to the backend only when the program holds none of their cells.   *)
(*                                                                         *)
(* Nothing here says WHICH free cell or WHEN a new run is taken: a thread  *)
(* cache may keep free cells from other threads, and allocate_batch_v2     *)
(* skips partial pages for an aligned request, so a new run can be taken   *)
(* while free cells exist.  CentralCache is checked to implement this      *)
(* specification.                                                          *)
(***************************************************************************)
EXTENDS Integers, FiniteSets

CONSTANTS
  Runs,        \* run bases the backend can hand the class
  RunCells(_), \* the cell addresses of the run at a base
  Aligns       \* alignments callers ask for

VARIABLES
  held,        \* [addr, al] cells the program holds
  owned,       \* runs the class holds
  free         \* runs free in the backend

vars == <<held, owned, free>>

CellsOf(rs) == UNION {RunCells(b) : b \in rs}

HeldAddrs == {x.addr : x \in held}

Init ==
  /\ held = {}
  /\ owned = {}
  /\ free = Runs

\* an allocation: a cell of an owned run, or of a run new to the class
Alloc(c, al, new) ==
  /\ new \subseteq free
  /\ Cardinality(new) <= 1
  /\ c \in CellsOf(owned \cup new) \ HeldAddrs
  /\ c % al = 0
  /\ held' = held \cup {[addr |-> c, al |-> al]}
  /\ owned' = owned \cup new
  /\ free' = free \ new

\* a free of a held cell; the cell stays with the class
Free(x) ==
  /\ x \in held
  /\ held' = held \ {x}
  /\ UNCHANGED <<owned, free>>

\* runs none of whose cells the program holds go back to the backend
Reclaim(rs) ==
  /\ rs # {}
  /\ rs \subseteq owned
  /\ CellsOf(rs) \cap HeldAddrs = {}
  /\ owned' = owned \ rs
  /\ free' = free \cup rs
  /\ UNCHANGED held

Next ==
  \/ \E al \in Aligns, new \in SUBSET free, c \in CellsOf(owned \cup free) :
       Alloc(c, al, new)
  \/ \E x \in held : Free(x)
  \/ \E rs \in SUBSET owned : Reclaim(rs)

Spec == Init /\ [][Next]_vars
=============================================================================

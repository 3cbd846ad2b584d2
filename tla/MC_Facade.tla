----------------------------- MODULE MC_Facade -----------------------------
(***************************************************************************)
(* The two allocators the program sees through the allocator APIs, each   *)
(* checked against AllocApi, side by side in one model: BuddyHeap          *)
(* (BUDDY_HEAP behind BuddySystemAllocator) and Facade (RustAllocator over *)
(* the central layer and the page backend, whose held blocks `live' are    *)
(* renamed flive here).  Init picks which runs; it takes every step and    *)
(* the other keeps its initial state, so each property is the component's *)
(* own: BuddyHeap's under their names, Facade's prefixed F_.               *)
(*                                                                         *)
(* Facade: a zero-size request, two small classes (40 bytes, class 5; 48  *)
(* bytes, class 6; one-page runs), and two Large sizes (28100 bytes, 7     *)
(* pages; 32768 bytes, 8 pages) on pages 1..9.                             *)
(***************************************************************************)
EXTENDS BuddyHeap

CONSTANTS
  Requests, Bases, MaxOps, CellBound   \* Facade

VARIABLES
  which,                               \* the component run
  used, classRuns, flive, ops          \* Facade

F == INSTANCE Facade WITH live <- flive

fvars == <<used, classRuns, flive, ops>>
allvars == <<which, vars, fvars>>

UInit ==
  /\ which \in {"buddy", "facade"}
  /\ Init /\ F!Init
  /\ which # "buddy" => build = CHOOSE v \in Tables : \A w \in Tables : v <= w

UNext ==
  \/ which = "buddy" /\ Next /\ UNCHANGED <<which, fvars>>
  \/ which = "facade" /\ F!Next /\ UNCHANGED <<which, vars>>

USpec == UInit /\ [][UNext]_allvars

\* Facade's properties, stated in its module
F_TypeOK == F!TypeOK
F_BlocksBacked == F!BlocksBacked
F_Refines == F!Refines

MCRequests == {0, 40, 48, 28100, 32768}

MCBases == 1..9

\* three allocation names: up to three blocks held at once
CONSTANTS i1, i2, i3
MCIds == {i1, i2, i3}
=============================================================================

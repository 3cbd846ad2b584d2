--------------------------- MODULE PageAllocator ---------------------------
(***************************************************************************)
(* What the page backend promises its callers (spec 4.2, GlobalBackend's  *)
(* alloc and dealloc): a request for n pages is answered by a run of n     *)
(* pages that overlaps no run handed out and not yet returned, and a       *)
(* returned run is no longer handed out.  A run is a record [b, n]: pages *)
(* b .. b + n - 1.                                                         *)
(***************************************************************************)
EXTENDS Integers

CONSTANTS
  Addrs,      \* page numbers a run may start at
  Sizes       \* run lengths callers ask for, in pages

VARIABLE
  allocated   \* runs handed out and not yet returned

RunPages(r) == r.b .. r.b + r.n - 1

Disjoint(r, S) == \A s \in S : RunPages(r) \cap RunPages(s) = {}

\* alloc: any run of the requested length that overlaps no allocated run
Alloc(r) ==
  /\ r.n \in Sizes
  /\ Disjoint(r, allocated)
  /\ allocated' = allocated \cup {r}

\* dealloc: an allocated run is returned
Free(r) ==
  /\ r \in allocated
  /\ allocated' = allocated \ {r}

Init == allocated = {}

Next == \E r \in [b : Addrs, n : Sizes] : Alloc(r) \/ Free(r)

Spec == Init /\ [][Next]_allocated
=============================================================================

------------------------------ MODULE Facade ------------------------------
(***************************************************************************)
(* The allocator as the program sees it: RustAllocator's alloc, dealloc   *)
(* and realloc (cache/mod.rs), the dispatch of ThreadCache::allocate and   *)
(* deallocate on the size class of the layout (cache/thread_cache.rs), the *)
(* large path ZoneAllocator::allocate_large / deallocate_large (zone.rs)   *)
(* straight to the page backend, and the object-page runs the small path  *)
(* takes from the same backend (EfObjectPage::allocate_page).             *)
(*                                                                         *)
(* The backend is its abstract specification PageAllocator (the set of    *)
(* pages handed out), which PageBackend is checked to implement.  The     *)
(* small path is abstracted to "some free cell of a run of the class":    *)
(* how the cell reaches the thread cache is CentralCache's subject, which *)
(* is checked to implement CellPool.  One program thread makes the calls, *)
(* so each call is one step.                                               *)
(***************************************************************************)
EXTENDS Integers, FiniteSets

CONSTANTS
  Requests,   \* layout sizes the program asks for, in bytes
  Bases,      \* page numbers the backend may place a run at
  MaxOps,     \* bound on the number of allocations (content names 1..MaxOps)
  CellBound   \* cells of a run the model lets the cache hand out

ASSUME Bases \subseteq Nat \ {0}

VARIABLES
  used,       \* pages the backend has handed out and not taken back
  classRuns,  \* object-page runs of the small path: [b, n, cls]
  live,       \* blocks the program holds: [addr, size, content]
  ops         \* allocations made so far

vars == <<used, classRuns, live, ops>>

SC == INSTANCE SizeClass WITH req <- 0, out <- 0, slabs <- 0

PG_SIZE == 4096

\* ThreadCache::allocate's answer to a zero-size request, the constant
\* address 0x100000000000; TLC integers stop at 2^31, so a stand-in above
\* every page the model places is used.  It is never dereferenced.
ZST_PTR == 2 ^ 30

\* SizeClass::index(): the class number for Base, the size itself for Large
index(size) == SC!get_size_class(size).idx

IsLarge(size) == SC!get_size_class(size).kind = "Large"

\* FreeList::alloc and FreeList::free: origin_size + 1 pages for size bytes
LargePages(size) == (size + PG_SIZE - 1) \div PG_SIZE

PagesAt(b, n) == b .. b + n - 1

\* SCAllocator::new's layout of a run of class idx
Layout(idx) == SC!SCNew(SC!get_rounded_size_by_idx(idx), SC!get_num_pages_by_idx(idx))

Cells(r) == {r.b * PG_SIZE + i * Layout(r.cls).pg_align :
               i \in 0 .. (IF Layout(r.cls).pg_count < CellBound
                           THEN Layout(r.cls).pg_count ELSE CellBound) - 1}

\* GlobalBackend.alloc of n pages: a run of free pages
FreeBases(n, us) == {b \in Bases : PagesAt(b, n) \cap us = {}}

Block(a, s, c) == [addr |-> a, size |-> s, content |-> c]

(***************************************************************************)
(* RustAllocator::alloc: ThreadCache::allocate classifies the size; class *)
(* 0 gets the constant address, another class a free cell of one of its   *)
(* runs or, when no run has one, the first cell of a new run from the     *)
(* backend (allocate_page); a Large size gets its own pages from the      *)
(* backend.  With one calling thread that never exits, every free cell of *)
(* a class is in that thread's cache, which hands one out before it       *)
(* refills when the alignment asked for is one every cell meets (at most  *)
(* 8 for the modelled classes): this is CellPool's Alloc narrowed to that *)
(* case.  The outcomes are records [used, runs, blk].                     *)
(***************************************************************************)
AllocOutcomes(size, c, lv, us, cr) ==
  LET cls == SC!get_size_class(size)
      own == {r \in cr : r.cls = cls.idx}
      free == UNION {Cells(r) : r \in own} \ {x.addr : x \in lv}
      n == SC!get_num_pages_by_idx(cls.idx)
  IN CASE cls.kind = "Base" /\ cls.idx = 0 ->
            {[used |-> us, runs |-> cr, blk |-> Block(ZST_PTR, size, c)]}
       [] cls.kind = "Base" /\ free # {} ->
            {[used |-> us, runs |-> cr, blk |-> Block(a, size, c)] : a \in free}
       [] cls.kind = "Base" ->
            {[used |-> us \cup PagesAt(b, n),
              runs |-> cr \cup {[b |-> b, n |-> n, cls |-> cls.idx]},
              blk  |-> Block(b * PG_SIZE, size, c)] : b \in FreeBases(n, us)}
       [] OTHER ->
            {[used |-> us \cup PagesAt(b, LargePages(size)), runs |-> cr,
              blk  |-> Block(b * PG_SIZE, size, c)] : b \in FreeBases(LargePages(size), us)}

\* RustAllocator::dealloc with the block's layout: a small cell goes back
\* to the thread cache (its run stays with the class); a Large block's
\* LargePages(size) pages from its address go back to the backend
Release(x, us) ==
  IF IsLarge(x.size)
  THEN us \ PagesAt(x.addr \div PG_SIZE, LargePages(x.size))
  ELSE us

-----------------------------------------------------------------------------
Init ==
  /\ used = {}
  /\ classRuns = {}
  /\ live = {}
  /\ ops = 0

\* RustAllocator::alloc(layout) that returns a block
Alloc(s) ==
  /\ ops < MaxOps
  /\ \E o \in AllocOutcomes(s, ops + 1, live, used, classRuns) :
       /\ used' = o.used
       /\ classRuns' = o.runs
       /\ live' = live \cup {o.blk}
  /\ ops' = ops + 1

\* RustAllocator::dealloc(ptr, layout) of a held block with its layout
Dealloc(x) ==
  /\ live' = live \ {x}
  /\ used' = Release(x, used)
  /\ UNCHANGED <<classRuns, ops>>

\* mutant: a realloc to a class of no larger index is done in place
ReallocShrinkInPlace(x, s) ==
  IF index(s) <= index(x.size)
  THEN /\ live' = (live \ {x}) \cup {[x EXCEPT !.size = s]}
       /\ UNCHANGED <<used, classRuns, ops>>
  ELSE /\ \E o \in AllocOutcomes(s, x.content, live, used, classRuns) :
            /\ live' = (live \ {x}) \cup {o.blk}
            /\ used' = Release(x, o.used)
            /\ classRuns' = o.runs
       /\ UNCHANGED ops

\* mutant: the old block is freed before the new one is allocated
ReallocFreeFirst(x, s) ==
  IF index(x.size) = index(s)
  THEN /\ live' = (live \ {x}) \cup {[x EXCEPT !.size = s]}
       /\ UNCHANGED <<used, classRuns, ops>>
  ELSE /\ \E o \in AllocOutcomes(s, x.content, live \ {x}, Release(x, used), classRuns) :
            /\ live' = (live \ {x}) \cup {o.blk}
            /\ used' = o.used
            /\ classRuns' = o.runs
       /\ UNCHANGED ops

\* mutant: the contents are not copied; the new block holds fresh data
ReallocNoCopy(x, s) ==
  IF index(x.size) = index(s)
  THEN /\ live' = (live \ {x}) \cup {[x EXCEPT !.size = s]}
       /\ UNCHANGED <<used, classRuns, ops>>
  ELSE /\ \E o \in AllocOutcomes(s, ops + 1, live, used, classRuns) :
            /\ live' = (live \ {x}) \cup {o.blk}
            /\ used' = Release(x, o.used)
            /\ classRuns' = o.runs
       /\ UNCHANGED ops

\* RustAllocator::realloc(ptr, layout, new_size): the same SizeClass index
\* returns ptr; otherwise alloc(new layout), copy, dealloc(ptr, layout)
Realloc(x, s) ==
  IF index(x.size) = index(s)
  THEN /\ live' = (live \ {x}) \cup {[x EXCEPT !.size = s]}
       /\ UNCHANGED <<used, classRuns, ops>>
  ELSE /\ \E o \in AllocOutcomes(s, x.content, live, used, classRuns) :
            /\ live' = (live \ {x}) \cup {o.blk}
            /\ used' = Release(x, o.used)
            /\ classRuns' = o.runs
       /\ UNCHANGED ops

\* the program has made its calls and holds nothing
Done ==
  /\ ops = MaxOps
  /\ live = {}
  /\ UNCHANGED vars

Next ==
  \/ \E s \in Requests : Alloc(s)
  \/ \E x \in live : Dealloc(x)
  \/ \E x \in live, s \in Requests : Realloc(x, s)
  \/ Done

Spec == Init /\ [][Next]_vars

-----------------------------------------------------------------------------
\* Every held block has a content name from the allocations made, a size
\* the program asked for, and an address; runs carry a class of the table.
TypeOK ==
  /\ used \subseteq Nat
  /\ classRuns \subseteq [b : Bases, n : Nat, cls : 1..63]
  /\ live \subseteq [addr : Nat, size : Requests, content : 1..MaxOps]
  /\ ops \in 0..MaxOps

(***************************************************************************)
(* dealloc and realloc route a block by the size class of the layout the  *)
(* program holds it under (ThreadCache::deallocate, RustAllocator::realloc *)
(* comparing SizeClass::index of Base numbers and Large sizes).  For that  *)
(* to be safe every held block must belong to the path its current layout *)
(* names: a zero-size block is the constant address; a small block is a    *)
(* cell of a run of its class whose pages the backend handed out; a Large *)
(* block starts a page, and the LargePages(size) pages a dealloc will give *)
(* back are held from the backend and belong to no run and no other block.*)
(***************************************************************************)
BlocksBacked ==
  \A x \in live :
    LET cls == SC!get_size_class(x.size)
        pgs == PagesAt(x.addr \div PG_SIZE, LargePages(x.size))
    IN CASE cls.kind = "Base" /\ cls.idx = 0 -> x.addr = ZST_PTR
         [] cls.kind = "Base" ->
              \E r \in classRuns : /\ r.cls = cls.idx
                                   /\ x.addr \in Cells(r)
                                   /\ PagesAt(r.b, r.n) \subseteq used
         [] OTHER ->
              /\ x.addr % PG_SIZE = 0
              /\ pgs \subseteq used
              /\ \A r \in classRuns : PagesAt(r.b, r.n) \cap pgs = {}
              /\ \A y \in live \ {x} :
                   IsLarge(y.size) =>
                     PagesAt(y.addr \div PG_SIZE, LargePages(y.size)) \cap pgs = {}

(***************************************************************************)
(* The allocator keeps the GlobalAlloc promise (AllocApi): held blocks     *)
(* never share a byte, and realloc's block holds the old contents, at the *)
(* same address or apart from the old block.                              *)
(***************************************************************************)
Api == INSTANCE AllocApi WITH blocks <- live

Refines == Api!Spec
=============================================================================

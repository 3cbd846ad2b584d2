------------------------------ MODULE BuddyHeap ------------------------------
(***************************************************************************)
(* The buddy-system heap of buddy_system/ (BUDDY_HEAP, a                   *)
(* BuddySystem<BASE_ORDER, MAX_ORDER>, behind BuddySystemAllocator):       *)
(*   - BuddyTree (buddy.rs): a 1-indexed flat binary tree whose node n     *)
(*     holds order_free, 1 + the order of the largest free block below it *)
(*     (0: none); allocate walks down from the root, deallocate frees a    *)
(*     node and merges buddies on the way up;                              *)
(*   - BuddySystem's GlobalAlloc (heap.rs): alloc rounds the size to pages *)
(*     and to an order and adds heap_start to the tree's offset; dealloc   *)
(*     gives the block back; realloc keeps the block when the page-rounded *)
(*     sizes agree, else allocates, copies and frees.                      *)
(* The tree sits behind one Mutex, so each tree call is one step; realloc  *)
(* takes it twice, but the old block stays allocated to its caller until  *)
(* the second call, so no other call can observe the gap.  tree[n] is      *)
(* flat_blocks[n - 1].  The heap is scaled down: MAX_ORDER levels below    *)
(* the root instead of 22.                                                 *)
(***************************************************************************)
EXTENDS Integers, FiniteSets

CONSTANTS
  BASE_ORDER,   \* log2 of the smallest block (12: PAGE_SIZE on x86-64)
  MAX_ORDER,    \* order of the root block
  PAGE_SIZE,    \* consts.rs PAGE_SIZE
  HeapStart,    \* heap_start: the address SystemAllocator returned
  Tables,       \* per build target, the TableTop of its BuddyTree::new table:
                \* it writes TableTop - L at each level L < TableTop
  Sizes,        \* sizes the program asks for, in bytes
  ApiSizes,     \* sizes the program passes to the Allocator API (0 among them)
  Aligns,       \* layout.align() of the Allocator API requests
  GlobalAlign,  \* layout.align() of the GlobalAlloc requests (alloc ignores
                \* it, so one value stands for all)
  Ids           \* names of allocations (which data a block holds); their
                \* number bounds the blocks the program holds at once

VARIABLES
  build,        \* the TableTop of the target the heap was built for
  tree,         \* tree[n] = flat_blocks[n - 1].order_free
  live          \* the blocks the program holds: [addr, size, align, content]

vars == <<build, tree, live>>

MAX_ORDER_SIZE == BASE_ORDER + MAX_ORDER

Nodes == 1 .. 2 ^ (MAX_ORDER + 1) - 1

Larger(a, b) == IF a >= b THEN a ELSE b

\* the level of node n (the root is level 0): flat_tree::parent halves
RECURSIVE Level(_)
Level(n) == IF n = 1 THEN 0 ELSE 1 + Level(n \div 2)

\* the order of the block node n stands for
Ord(n) == MAX_ORDER - Level(n)

-----------------------------------------------------------------------------
(* buddy.rs *)

\* a table one too high at every level
TreeNewOffByOne(top) ==
  [n \in Nodes |-> IF Level(n) < top THEN top - Level(n) + 1 ELSE 0]

\* BuddyTree::new: the hard-coded write_bytes table, level by level; the
\* levels it does not write keep the zeroed memory of the mapped tree.
\* x86-64 writes all LEVEL_COUNT = MAX_ORDER + 1 levels (root 23); the
\* aarch64 table writes 21 levels from root 21 for a BuddySystem<14, 22>,
\* two levels short (TableTop = MAX_ORDER - 1 scaled down)
TreeNew(top) == [n \in Nodes |-> IF Level(n) < top THEN top - Level(n) ELSE 0]

\* allocate's walk: go left when the left child has the order free, else
\* right without looking, adding the left child's size to the address
RECURSIVE Walk(_, _, _, _)
Walk(n, level, addr, d) ==
  IF level = MAX_ORDER - d
  THEN [node |-> n, addr |-> addr]
  ELSE LET o == tree[2 * n]
       IN IF o # 0 /\ o > d
          THEN Walk(2 * n, level + 1, addr, d)
          ELSE Walk(2 * n + 1, level + 1,
                    addr + 2 ^ (MAX_ORDER_SIZE - level - 1), d)

\* allocate's upward loop: each parent becomes the larger of its children
RECURSIVE MaxUp(_, _)
MaxUp(t, n) ==
  IF n = 1 THEN t
  ELSE LET p == n \div 2
       IN MaxUp([t EXCEPT ![p] = Larger(t[2 * p], t[2 * p + 1])], p)

\* BuddyTree::allocate(desired_order): None when the root has no block of
\* the order; else the walk's node becomes used (0) and its ancestors are
\* updated; the result is the offset of the block in the heap
TreeAllocate(d) ==
  IF tree[1] = 0 \/ tree[1] - 1 < d
  THEN [ok |-> FALSE, addr |-> 0, tree |-> tree]
  ELSE LET w == Walk(1, 0, 0, d)
       IN [ok |-> TRUE, addr |-> w.addr,
           tree |-> MaxUp([tree EXCEPT ![w.node] = 0], w.node)]

\* update_blocks_above with update_block: a parent of order o whose two
\* children are whole free blocks of order o - 1 (order_free = o) merges
RECURSIVE MergeUp(_, _, _)
MergeUp(t, n, o) ==
  IF o > MAX_ORDER THEN t
  ELSE LET p == n \div 2
           l == t[2 * p]
           r == t[2 * p + 1]
       IN MergeUp([t EXCEPT ![p] = IF l = o /\ r = o THEN o + 1 ELSE Larger(l, r)],
                  p, o + 1)

\* a deallocate that frees the node but skips update_blocks_above
TreeDeallocateNoMerge(t, ptr, order) ==
  LET index == (2 ^ (MAX_ORDER - order) - 1) + ptr \div 2 ^ (order + BASE_ORDER) + 1
  IN [t EXCEPT ![index] = order + 1]

\* BuddyTree::deallocate(ptr, order): the node at level MAX_ORDER - order,
\* index blocks_in_tree(level) + (ptr >> (order + BASE_ORDER)) + 1
TreeDeallocate(t, ptr, order) ==
  LET index == (2 ^ (MAX_ORDER - order) - 1) + ptr \div 2 ^ (order + BASE_ORDER) + 1
  IN MergeUp([t EXCEPT ![index] = order + 1], index, order + 1)

-----------------------------------------------------------------------------
(* heap.rs *)

\* next_page_size: round up to a multiple of PAGE_SIZE
next_page_size(s) ==
  IF s % PAGE_SIZE = 0 THEN s ELSE ((s + PAGE_SIZE - 1) \div PAGE_SIZE) * PAGE_SIZE

\* the exponent of the least power of two 2^k >= n, from k on
RECURSIVE CeilLog2(_, _)
CeilLog2(n, k) == IF 2 ^ k >= n THEN k ELSE CeilLog2(n, k + 1)

\* log2(n): 63 - leading_zeros of n.next_power_of_two(), that is log2
\* rounded up (n = 0 rounds to 1)
log2(n) == CeilLog2(n, 0)

\* order_checked; its None branch (log2 above u8::MAX) cannot be taken
order_checked(v) ==
  IF v = 0 THEN 0
  ELSE IF log2(v) >= BASE_ORDER THEN log2(v) - BASE_ORDER ELSE 0

BlockOrder(size) == order_checked(next_page_size(size))

Contents == {b.content : b \in live}

\* the held blocks that own heap bytes (not the dangling zero-size ones)
HeapBlocks == {b \in live : b.size # 0}

\* the blocks the program hands to GlobalAlloc dealloc and realloc: those
\* with a GlobalAlloc layout
GlobalBlocks == {b \in HeapBlocks : b.align = GlobalAlign}

\* BuddySystem::alloc: the tree allocates the rounded order; null when it
\* has no such block (the size > isize::MAX early return is not reached by
\* the sizes modelled); c names the new block's data
Alloc(size, al, c) ==
  LET r == TreeAllocate(BlockOrder(size))
  IN /\ r.ok
     /\ tree' = r.tree
     /\ live' = live \cup {[addr |-> HeapStart + r.addr, size |-> size,
                            align |-> al, content |-> c]}
     /\ UNCHANGED build

AllocNull(size) ==
  /\ ~TreeAllocate(BlockOrder(size)).ok
  /\ UNCHANGED vars

\* BuddySystem::dealloc: the order of the rounded size, the offset from
\* heap_start (the assert that the pointer is in the heap holds)
Dealloc(b) ==
  /\ tree' = TreeDeallocate(tree, b.addr - HeapStart, BlockOrder(b.size))
  /\ live' = live \ {b}
  /\ UNCHANGED build

\* a realloc that also keeps the block when it grows by one page
ReallocInPlaceOnePageMore(b, ns) ==
  /\ next_page_size(ns) <= next_page_size(b.size) + PAGE_SIZE
  /\ live' = (live \ {b}) \cup {[b EXCEPT !.size = ns]}
  /\ UNCHANGED <<build, tree>>

\* BuddySystem::realloc, same page-rounded size: the pointer is returned
ReallocInPlace(b, ns) ==
  /\ next_page_size(b.size) = next_page_size(ns)
  /\ live' = (live \ {b}) \cup {[b EXCEPT !.size = ns]}
  /\ UNCHANGED <<build, tree>>

\* realloc otherwise: alloc(new_layout); if not null, copy and dealloc the
\* old block with its layout; a null result leaves the old block held
ReallocMove(b, ns) ==
  LET r == TreeAllocate(BlockOrder(ns))
  IN /\ next_page_size(b.size) # next_page_size(ns)
     /\ r.ok
     /\ tree' = TreeDeallocate(r.tree, b.addr - HeapStart, BlockOrder(b.size))
     /\ live' = (live \ {b}) \cup {[addr |-> HeapStart + r.addr, size |-> ns,
                                    align |-> b.align, content |-> b.content]}
     /\ UNCHANGED build

ReallocNull(b, ns) ==
  /\ next_page_size(b.size) # next_page_size(ns)
  /\ ~TreeAllocate(BlockOrder(ns)).ok
  /\ UNCHANGED vars

(***************************************************************************)
(* The Allocator impls (heap.rs), the API the Rust collections use.  A     *)
(* zero-size layout gets layout.dangling(), the address align, and no     *)
(* block of the tree; any other goes to BUDDY_HEAP.alloc.  A call's       *)
(* outcome is a record [ok, tree, blk]: whether it succeeded, the tree     *)
(* after it and the block it hands out.                                    *)
(***************************************************************************)

\* BuddySystem::alloc_impl(layout, false): dangling for size 0, else
\* alloc(layout), whose null becomes Err(AllocError)
alloc_impl(size, al, c) ==
  IF size = 0
  THEN [ok |-> TRUE, tree |-> tree,
        blk |-> [addr |-> al, size |-> 0, align |-> al, content |-> c]]
  ELSE LET r == TreeAllocate(BlockOrder(size))
       IN [ok |-> r.ok, tree |-> r.tree,
           blk |-> [addr |-> HeapStart + r.addr, size |-> size, align |-> al,
                    content |-> c]]

\* BuddySystemAllocator::allocate: the same, after rounding a non-zero
\* size to pages (which BlockOrder does anyway); the slice keeps the size
allocate(size, al, c) == alloc_impl(size, al, c)

\* the program gets r.blk in place of the blocks in gone, the tree becomes t
Install(gone, r, t) ==
  /\ r.ok
  /\ tree' = t
  /\ live' = (live \ gone) \cup {r.blk}
  /\ UNCHANGED build

Failed(r) == ~r.ok /\ UNCHANGED vars

ApiAllocate(size, al, c) ==
  LET r == allocate(size, al, c)
  IN Install({}, r, r.tree) \/ Failed(r)

\* BuddySystemAllocator::deallocate: nothing for size 0, else dealloc with
\* the page-rounded layout
ApiDeallocate(b) ==
  \/ b.size = 0 /\ live' = live \ {b} /\ UNCHANGED <<build, tree>>
  \/ b.size # 0 /\ Dealloc(b)

\* grow, that is BUDDY_HEAP.grow_impl(ptr, old, new, false) with
\* new.size() >= old.size(): from size 0 a fresh alloc_impl; with the
\* alignment unchanged the GlobalAlloc realloc; otherwise alloc_impl, copy
\* and self.deallocate(ptr, old) (BuddySystem::deallocate, i.e. dealloc).
\* An Err leaves the old block held.
GrowFresh(b, ns, na) ==
  LET r == alloc_impl(ns, na, b.content)
  IN Install({b}, r, r.tree) \/ Failed(r)

GrowMove(b, ns, na) ==
  LET r == alloc_impl(ns, na, b.content)
  IN \/ Install({b}, r, TreeDeallocate(r.tree, b.addr - HeapStart, BlockOrder(b.size)))
     \/ Failed(r)

Grow(b, ns, na) ==
  /\ ns >= b.size
  /\ \/ b.size = 0 /\ GrowFresh(b, ns, na)
     \/ b.size # 0 /\ b.align = na /\
          (ReallocInPlace(b, ns) \/ ReallocMove(b, ns) \/ ReallocNull(b, ns))
     \/ b.size # 0 /\ b.align # na /\ GrowMove(b, ns, na)

Init ==
  /\ build \in Tables
  /\ tree = TreeNew(build)
  /\ live = {}

\* the data of a new allocation: names are interchangeable, so the first
\* unused one stands for any
Fresh == CHOOSE c \in Ids \ Contents : TRUE

\* GlobalAlloc calls (sizes are non-zero, as GlobalAlloc requires) and
\* Allocator calls, which may also pass size 0 and change the alignment
Next ==
  \/ \E s \in Sizes :
       \/ Contents # Ids /\ Alloc(s, GlobalAlign, Fresh)
       \/ AllocNull(s)
  \/ \E b \in GlobalBlocks : Dealloc(b)
  \/ \E b \in GlobalBlocks, s \in Sizes :
       ReallocInPlace(b, s) \/ ReallocMove(b, s) \/ ReallocNull(b, s)
  \/ \E s \in ApiSizes, al \in Aligns :
       Contents # Ids /\ ApiAllocate(s, al, Fresh)
  \/ \E b \in live : ApiDeallocate(b)
  \/ \E b \in live, s \in ApiSizes, al \in Aligns : Grow(b, s, al)

Spec == Init /\ [][Next]_vars

-----------------------------------------------------------------------------
TypeOK ==
  /\ build \in Tables
  /\ tree \in [Nodes -> 0 .. MAX_ORDER + 1]
  /\ live \subseteq [addr : Nat, size : Sizes \cup ApiSizes, align : Aligns, content : Ids]

\* the heap bytes node n stands for: [lo, hi)
NodeBytes(n) ==
  LET w == 2 ^ (Ord(n) + BASE_ORDER)
      i == n - 2 ^ Level(n)
  IN [lo |-> HeapStart + i * w, hi |-> HeapStart + (i + 1) * w]

\* the node of a held block: its offset at the level of its order
BlockNode(b) ==
  LET o == BlockOrder(b.size)
  IN 2 ^ (MAX_ORDER - o) + (b.addr - HeapStart) \div 2 ^ (o + BASE_ORDER)

LiveNodes == {BlockNode(b) : b \in HeapBlocks}

\* m lies in the subtree of n, n itself excluded
Below(m, n) == Level(m) > Level(n) /\ m \div 2 ^ (Level(m) - Level(n)) = n

\* the tree's geometry as tables (constants, computed once): each node's
\* bytes and the nodes strictly below it
Span == [n \in Nodes |-> NodeBytes(n)]
Beneath == [n \in Nodes |-> {m \in Nodes : Below(m, n)}]

\* the nodes whose bytes no held block's node covers
FreeNodes ==
  {m \in Nodes : \A a \in LiveNodes :
                   Span[m].hi <= Span[a].lo \/ Span[a].hi <= Span[m].lo}

\* what order_free means: 1 + the largest order of a block in n's subtree
\* whose bytes no held block's node covers, 0 when there is none
FreeRef(n, free) ==
  LET ks == {Ord(m) : m \in ({n} \cup Beneath[n]) \cap free}
  IN IF ks = {} THEN 0 ELSE 1 + (CHOOSE k \in ks : \A j \in ks : j <= k)

(***************************************************************************)
(* The tree summarises the held blocks (buddy.rs): on the x86-64 table,   *)
(* the node of every held block reads 0, nodes inside a held block keep    *)
(* the whole-free value they had when it was handed out, and every other   *)
(* node reads FreeRef, 1 + the largest free order below it.  It needs     *)
(* allocate's max update, the merge of update_block and deallocate's index *)
(* arithmetic to agree over any sequence of alloc, dealloc and realloc;    *)
(* allocate's blind step to the right child is only safe while it holds.   *)
(***************************************************************************)
TreeSummarisesBlocks ==
  build = MAX_ORDER + 1 =>
    LET held == LiveNodes
        free == FreeNodes
    IN \A n \in Nodes :
         tree[n] = IF n \in held THEN 0
                   ELSE IF \E a \in held : n \in Beneath[a] THEN Ord(n) + 1
                   ELSE FreeRef(n, free)

(***************************************************************************)
(* BUDDY_HEAP keeps the GlobalAlloc contract (AllocApi) on either table:   *)
(* held blocks never share a byte, realloc keeps the data and moves it     *)
(* only to bytes apart from the old block.  On the aarch64 table this      *)
(* needs allocate's blind right step never to land in a used block,        *)
(* although the two bottom levels start at 0 under parents that read free. *)
(***************************************************************************)
Api == INSTANCE AllocApi WITH blocks <- live
Refines == Api!Spec
=============================================================================

# TLA+ models of UniAlloc

This directory holds TLA+ models of the UniAlloc memory allocator
(`src/unialloc/src`), the TLC configurations that check them, and
`PROJECT.json`, which records the components, runs, mutants and hazards. It
also maps every model definition to the source lines it translates.

## The system

`UniAlloc` (`cache/mod.rs`, `RustAllocator`) is a `GlobalAlloc`. The parts on
the default allocation path are listed below.

| Part | Source | Role |
|---|---|---|
| Façade | `cache/mod.rs` | `RustAllocator::alloc`, `dealloc` and `realloc`. Each is routed by the size class of the layout: class 0, a Base class through the thread cache, or Large straight to the backend. `realloc` keeps the block when `SizeClass::index()` is unchanged, and otherwise allocates, copies and frees. |
| Thread cache | `cache/thread_cache.rs`, `mm/linklist.rs` | One `ThreadCacheUnit` per size class and thread: an intrusive free list (`Linklist`) plus a bump remainder (`bump_ptr`, `bump_count`, `bump_unit`). It is reached through the `tls_static!` pointer `GlobalTcache`, and the pthread-key destructor `free_thread_cache` drains it. |
| Zone | `zone.rs` | `GLOBAL_ZONE`: 64 `SCAllocator`s, each behind a pthread mutex. Large requests go straight to the backend. |
| Central allocator | `sc/efficient_sc.rs`, `page/efficient_page.rs` | Per class, four circular lists of `EfObjectPage` records (full, partial, empty, uninit) and `empty_count`. A record holds `counter` (cells handed out), `data` (the run) and `ptr` (the page's free list). `allocate_batch_v2` hands a whole page to a cache; `deallocate_batch` takes back a cache list one page segment at a time. |
| Page index | `collections/radix_tree.rs` | A two-level radix tree keyed by page. It maps a page to its `EfObjectPage`, and the first or last page of a free backend run to a negative length marker. |
| Page backend | `freelist/mod.rs`, `freelist/bump.rs` | `GlobalBackend`: 128 per-length lists of free runs, each behind a spin mutex. It splits larger runs, tries to coalesce on free, and falls back to a 4 GiB downward bump. |
| Metadata bumps | `sc/mod.rs`, `page/mod.rs` | `META_BUMP` supplies thread caches and the zone, and has a free list of 2 KiB units. `PG_BUMP` carves the 40-byte `EfObjectPage` records. |
| Lazy statics | `alloc_macros/src/allocator.rs`, `pal/sync.rs` | `atomic_static!` creates `GLOBAL_ZONE` by CAS. `tls_static!` creates the thread cache and registers the pthread key. |
| Size classes | `size_class/tc_size_class.rs` | Maps a request size to a class index, its rounded size and its pages per run. |

The following parts are compiled but not on this path, and are not modelled
yet: the bitmap allocator (nothing reaches it: see below), the
concurrent collections other than the 128-bit radix tree (`RadixTree`) and
the per-CPU array (`PerCpuArray`), and the background thread. In the bitmap
allocator (`bitmap_alloc/`), `SLABAllocator::allocate`, the only would-be caller, is
commented out. `CommutativeTree` is never constructed. `LazySegTree::new()`
returns `()`. `CompressedSum` and `CommutativeBitmap` reach `unreachable!()`
on every leaf write. The bitfield slab
allocator `separate_sc`/`separate_page` is compiled and unused, and is
modelled on its own (`SeparateSC`). The bounded MPMC queue (`mpmc.rs`,
`MpMcQueue`) and the buddy-system heap (`buddy_system/`, `BuddyHeap`) are
modelled on their own. The per-CPU, array and mem caches are not built at
all, because their `mod` lines are commented out; the per-CPU cache is
modelled all the same (`CpuCache`), because spec §1 names it an experimental
peer of the thread cache. The platform layer is OS I/O.

How the parts interact: an allocation goes to the thread's unit for its class.
It first tries the list, then the bump remainder, then a refill. A refill
takes the class mutex and calls `allocate_batch_v2`. That takes a partial
page, or an empty page, or a record from uninit or `PG_BUMP` with a fresh run
from the backend. A fresh page's run is entered in the radix tree. A free
pushes the cell on the freeing thread's list, whatever thread allocated it.
When a thread exits, `clean_up` pushes the bump remainder on the list and
returns the list through `deallocate_batch`. That function finds each
segment's page through the radix tree and moves the page between lists. When
more than `empty_count` cap pages are empty, the page's run goes back to the
backend.

## Modules

### CentralCache and CellPool (`CentralCache.tla`, `CellPool.tla`, `MC_CentralCache.tla`)

This module models one size class with all its threads. The mapping to the
code:

- **State.**
  - `sc` is the four lists of the `SCAllocator` and `empty_count`.
  - `pg` is the records (`counter`, `data`, `ptr`, with the free list as a
    sequence of cell addresses).
  - `rd` is the radix leaf slots of the class's pages.
  - `be` is the runs free in the backend.
  - `fresh` is the records `PG_BUMP` has not carved yet.
  - `tc` is each thread's `ThreadCacheUnit`.
  - `live` is the allocations the program holds, with the alignment each
    asked for.
  - `phase` records whether the thread's cache destructor has run.
- **Data abstraction.** Addresses are small integers. A run is one page of
  `PageSize` bytes. The cell count and stride come from the same formula as
  `SCAllocator::new` (`PgCount`, `PgAlign`). The prev/next links of the
  record lists are sequences.
- **Actions.** `AllocFromList`, `AllocFromBump` and `AllocRefill` are the three
  cases of `ThreadCacheUnit::allocate`. `AllocRefill` includes the whole
  central call (`AllocateBatch`, which covers `GetEmpty`, `GetUninit` and
  `RdInsert`). `Deallocate` is `ThreadCacheUnit::deallocate`. `ThreadExit` is
  `free_thread_cache` with `clean_up` and the whole `DeallocateBatch`
  (`PageDeallocate`, `InsertEty`, `RdRemove`).
- **Atomicity.** Each action is one atomic step. A central call runs under the
  class mutex, and a cache unit is only touched by its own thread. Threads
  that are torn can still act, because `GlobalTcache_VALUE` is never cleared.

The runs use `MC_CentralCache` with two threads (symmetric), two records, two
runs (bases 8 and 16), 3-byte objects in 8-byte pages (2 cells, 4 bytes
apart), and `EmptyCap = 0`. With `EmptyCap = 0` the second page to become
empty goes back to the backend, so both arms of `insert_ety` happen. With
alignments {1, 8}, one cell of each run is aligned and the other is not. That
drives the aligned pop past the list head and the bump walk past unaligned
cells. An alignment of 1 takes partial pages, and an alignment of 8 skips
them.

| Run | cfg | Expect | What it checks |
|---|---|---|---|
| central_safety | `Central.cfg` (`MC_Central`) | pass | `CellAccounting`: counters equal the cells held by the program and the caches, and each cell is in exactly one place. `PageListsMatchCounters`: each record is on the one list its counter says, and `empty_count` is the empty list's length. `RadixConsistent`: slots name the record whose run covers the page, and a run is free or owned exactly once. `AllocationsAligned`. `CacheLengthMatchesList`. `Refines`: the class implements `CellPool`. About 97k distinct states. The same run checks `SeparateSC` and `SizeClass` (see `MC_Central` below). |
| align_above_page | `CentralCache_Align.cfg` | violation | `AllocationsAligned` with alignment 16 above the 8-byte page. A refill returns the run base unchecked. |

Each property of the passing run is broken by a mutant that reproduces a
plausible coding error:

- the page counter drops by 1 instead of the segment length;
- the partial page is not unlinked from the partial list;
- the radix slots are kept when a run is released;
- the list pop ignores alignment;
- the refill sets the list length to n instead of n − 1;
- `allocate_all` hands out an empty page with one cell more than it holds,
  which breaks `Refines`: the extra cell lies outside every run the class owns.

**Refinement to `CellPool`.** `CellPool.tla` states what the small path of
one class promises, without caches or page lists. Its variables are `held`
(the cells the program holds), `owned` (the runs the class holds) and `free`
(the runs free in the backend). It has three actions:

- `Alloc` hands out an aligned cell that is not held. The cell lies in an
  owned run, or in at most one run the class takes from the backend in the
  same call.
- `Free` gives a held cell back. The runs do not move.
- `Reclaim` returns owned runs to the backend, but only runs none of whose
  cells are held.

It does not say which free cell an allocation gets, or when a new run is
taken. A refill may take a new run while free cells sit in another thread's
cache, or on a partial page that an aligned request skips. `CentralCache`
maps to it as follows:

- `held` is `live`;
- `owned` is the runs named by records;
- `free` is `be`.

`Refines == Pool!Spec` is a PROPERTY of `central_safety`. It says that
every step of the caches and the central lists is a `CellPool` step, in both
threads' interleavings.

No fairness is assumed and no liveness is checked. Every step is a bounded
call that either completes or does not apply. `Terminated` makes the end of
all threads a legal final state, so deadlock checking stays on.

### PageBackend and PageAllocator (`PageBackend.tla`, `PageAllocator.tla`, `MC_PageBackend.tla`)

`PageBackend` models `FreeList` (`freelist/mod.rs`) and the page `BUMP`
(`freelist/bump.rs`) behind `BuddySystemAllocator`, which is `GlobalBackend`.
The mapping to the code:

- **State.**
  - `lists[k]` is list `k` (runs of `k + 1` pages) as a sequence of run bases,
    head first. The `DoubleLinkedList` links are implied by the order: the
    head's `prev` is `None` and the last node's `next` is `None`.
  - `rd` is the radix slots of the backend's pages, holding the decoded
    marker `-(k + 1)` or 0.
  - `bump` is `check_point` and `current`. `mmaps` and `mapped` record the
    reservations made and the pages currently mapped.
  - `held` is the runs callers hold. `th` is each thread's call in progress:
    its label and the locals of `alloc` and `free`.
- **Actions.**
  - `alloc` is `AllocBegin`, then `AllocOwn` (`remove_one(origin)`), then
    `AllocParent` steps over larger lists. A hit is followed by `AllocSplit`,
    where the remainder goes through `insert_one`. A miss on every list, or a
    request of `MaxPage` pages or more, ends in `AllocBump`.
  - `AllocBump` is all of `BumpAlloc::alloc` under the BUMP lock, `init`
    included. `init` unmaps the old remainder and maps a new region, and it
    turns a failed mmap into a base of 0. A negative `checked_sub` fails the
    call.
  - `free` is `FreeBegin`, then `FreePrev`, an unlocked read of the marker of
    page `ptr - 1`, then `FreePrevRm` (`remove_spec_one` under that list's
    lock). `FreeNext` and `FreeNextRm` do the same for the next neighbour.
    `FreeInsert` is `insert_one`, or `munmap` when the run has `MaxPage`
    pages or more.
- **Atomicity.** Each list and BUMP has its own spin mutex. A thread holds at
  most one of them, so each locked section is one step. The marker reads in
  `free` take no lock and are steps of their own.

`PageAllocator` is what the backend promises (spec 4.2): `allocated` is a set
of pairwise disjoint runs. `Alloc` adds a run of a requested length that
overlaps none of them, and `Free` removes one. `PageBackend` maps `allocated`
to the held runs plus the runs whose `free` has not finished (`AbsAllocated`)
and checks `PA!Spec` as a property.

`MC_PageBackend` runs two threads with three operations each and sizes of 1 to
3 pages. With `MaxPage = 2`, a 2-page run can be split into 1 + 1, and a
3-page request bypasses the lists and is unmapped on free. Each mmap reserves
4 pages at the next of six bases, enough that the operations never run out.
With these bounds the model reaches splits, bump remaps that unmap an unused
remainder, a free whose neighbour is listed, and both arms of the insert. The
run visits about 102k distinct states in about 1 minute. Symmetry is not used,
because the refinement property is temporal.

| Run | cfg | Expect | What it checks |
|---|---|---|---|
| backend_safety | `PageBackend.cfg` | pass | `Refines`: the backend implements `PageAllocator`. `PagePartition`: every mapped page lies in exactly one listed run, held run, run in flight (a parent before its split, a run being freed) or bump remainder, and no unmapped page is covered. `MarkersMatchLists`: slot markers are exactly the ends of listed runs, with their lengths. `TypeOK`. |
| backend_coalescing | `PageBackend_Coalesce.cfg` | violation | `FullyCoalesced`. With nothing held, two adjacent 2-page runs stay listed. |
| backend_oom | `PageBackend_Oom.cfg` | violation | `RunsMapped` with mmap allowed to fail. A held 3-page run is not mapped. |

The mutants:

- the split remainder is placed one page off;
- `insert_one` writes only the head marker;
- `remove_one` leaves the node on its list;
- the munmap bound is `<=` instead of `<`, which indexes past the lists.

Coalescing is dead code, so the unlocked marker reads are harmless today.
`SpecAcceptsLinked` is the evident fix: it accepts any listed neighbour whose
marker is set. With it, TLC breaks `PagePartition`. A thread reads a stale
`prev` marker, another thread allocates that run, and the free then merges a
run that is in use. Fixing coalescing therefore also requires re-checking the
marker under the lock against the list contents.

No fairness is assumed. Every call is a bounded sequence of steps, and the
end of all operations is a legal final state.

### SizeClass (`SizeClass.tla`)

`SizeClass` holds the classification of `tc_size_class.rs` as operators that
keep the source names:

- `get_sizeclass_tuple2` with the literal `IDX_ARRAY` and `SIZE_ARRAY`;
- `get_size_class`, `get_rounded_size_by_idx` (`SIZE_CLASSES`) and
  `get_num_pages_by_idx` (`SIZE_CLASS_PAGES`);
- the deprecated `get_size_class_index` match, written as the upper bounds of
  its arms (checked to be contiguous from 0).

`SCNew` is `SCAllocator::new`'s layout: `pg_count`, then `pg_align` from the
perfect stride, `next_power_of_two` and the rounding of the size. `ZoneNew` is
`ZoneAllocator::new`, which builds one layout per class index. Tuples are
1-indexed, and `At(T, i)` is the code's `T[i]`.

The state is one request `req`, its classification `out`, and the zone's
layouts `slabs`. The first request may have any size from 0 to
`MAX_SIZE + 1`, and `Classify` moves to the next size, so every size the
small path can see is checked, along with the first `Large` request. `Swept`
is the final state. This gives 28,034 states, all initial. The run is
`central_safety` (see `MC_Central` under SeparateSC below), where the
properties are named `S_TypeOK`, `S_Classification` and `S_CellFitsRun`.

| Property | What it checks |
|---|---|
| `Classification`, `CellFitsRun`, `TypeOK` | `Classification` (spec 4.1): the result is the least class size that holds the request. Its index is the match table's plus one. `SIZE_CLASSES` agrees with `SIZE_ARRAY`, which matters because `deallocate` uses one and `allocate` the other. Class 0 is only the zero-size request. `Large` begins exactly above `MAX_SIZE`. `CellFitsRun`: the class's slab has at least one cell, a stride of at least the request, and its cells end within `SIZE_CLASS_PAGES` pages. `TypeOK`. |

The mutants:

- the large-branch slot rounds down (126 instead of 127), which breaks
  `Classification` at 1025;
- the cell count is rounded up, which breaks `CellFitsRun`;
- the index is returned one too high, as in the deprecated match's
  numbering. The top class then indexes past the 64 entries of
  `ThreadCache::list`, which breaks `TypeOK`.

Monotonicity (spec 4.4) follows from `Classification`, which says the result
is the least fitting class, so it is not checked separately.
`binary_search_size` has no caller and is left out. The layout is checked
for the x86-64 Linux `PAGE_SIZE` of 4096. On aarch64 macOS, `PAGE_SIZE` is
16 KiB, while the backend's `PG_SIZE` stays 4096.

`SIZE_ARRAY` has gaps wider than spec §3's 12.5% wastage bound above 1 KiB:
1536 is followed by 1792, and 6528 by 8192. The spec leaves the tables
themselves out of scope ("an implementer produces fresh tables"), so this is
recorded here and not checked by a run.

### Bootstrap (`Bootstrap.tla`, `MC_Bootstrap.tla`)

`Bootstrap` models how the allocator creates its own global and per-thread
state on first use. All of it comes from `META_BUMP`, the metadata allocator.

- **Metadata memory** (`sc/mod.rs`):
  - `BumpAlloc(size)` is `BumpAlloc::alloc`. It maps a new 64 MiB region when
    the current one is empty or invalid. A failed mmap becomes start 0. It then
    carves from the top, with no check that the request fits.
  - `MetaAlloc(size)` is `MetaBumpAlloc::alloc`. It rounds the request up to
    2048-byte units. A one-unit request pops the `backup` list first.
  - `MetaDealloc(p)` pushes a block on `backup`.
  - `mb` and `backup` are the two fields of `MetaBumpAlloc`. `mapped` is the set
    of regions mmap really returned.
- **Thread cache creation** (`tls_static!`, `allocator.rs` 198-217). A thread's
  first use is split into one action per step, because another thread can run
  between any two of them:
  - `TcacheNew`: the block is taken from `META_BUMP`.
  - `TsdCheck`: the unsynchronised read of `TSD_INITIALIZED`.
  - `RegisterKey`: `pthread_key_create` writes `PKEY`.
  - `SetTsd`: `TSD_INITIALIZED` is set.
  - `SaveTls`: `pthread_setspecific(PKEY, …)`.
- **Zone creation** (`atomic_static!` `deref`, `allocator.rs` 87-122):
  - `ZoneDeref` loads `GLOBAL_ZONE` and allocates a 6144-byte zone from
    `META_BUMP` when it is null.
  - `ZoneCas` is the `compare_exchange`.
  - The loser drops its block through `GlobalBackend`. `ZoneLoserFree` is that
    `FreeList::free`: `ceil(6144/4096)` pages from the block's address become a
    free backend run, recorded in `given`.
- **Backend list array** (`FreeList::get_slice`, `freelist/mod.rs` 235-264):
  - `SliceNew` allocates the 2048-byte array when `lists` is null.
  - `SliceCas` publishes it. The loser gives its array back to `META_BUMP`.
  - `BackendCall` is the backend call that needed the array. It goes on to
    record the run in the radix tree.
- **Radix tree nodes** (`collections/radix_tree.rs`): the page index creates
  its nodes lazily, each with `allocate_node` (an mmap) and a
  `compare_exchange` on a null pointer.
  - `RdRoot` and `RdRootCas` are `get_rd_tree`: load `RDPTR`, mmap a root
    when null, CAS it in. The loser munmaps its own root.
  - `RdNode` and `RdNodeCas` are the same steps in `RadixNodeHead::insert`
    for `nodes[idx]`, the bottom node covering the heap.
  - `rdmaps` is the set of nodes mmap'd and not munmap'd. A node is named by
    the thread that mapped it; `NullNode` is the null pointer.
- **Thread exit**:
  - `ThreadExit` is the `pthread` key destructor `free_thread_cache`. It runs
    only if the thread saved its cache under a key that exists. It pushes the
    cache block on `backup`.
  - `LateUse` is a later destructor of the same thread. It calls
    `GlobalTcache`'s `deref`, finds the stale pointer, and uses the block again.

The sizes are the x86-64 Linux ones: `ThreadCache` is 2048 bytes, `ZoneAllocator`
is 6144 and the list array is 2048. The 64 MiB regions have two possible bases.
The model uses two threads. That is enough for every race named above, since
each race has two sides. A third thread would add only a second round of
backup reuse, and costs more than 4 million states. `Refills` = 1 lets the
region be replaced once. The passing properties are checked in the
`standalone` run (see `MC_Standalone` below), under the names `BT_…`. There
Bootstrap adds about 28k distinct states and fires every action. The two
violation runs use `MC_Bootstrap`, with symmetry under
`Permutations(Threads)`.

| Run | cfg | Expect | What it checks |
|---|---|---|---|
| standalone | `Standalone.cfg` | pass | `BT_MetaBlocksDisjoint`: no two holders (thread caches in use, `backup` entries, the zone, the list array, blocks of CAS losers) share a `META_BUMP` byte. `BT_SavedUnderCreatedKey`: a thread past `SaveTls` saved its cache under a key `pthread_key_create` made, even when both threads see `TSD_INITIALIZED` false and both create a key. `BT_RadixMaps`: the mapped radix nodes are exactly the published root and node plus those a thread holds between its mmap and its CAS, so no CAS loser leaks its node or unmaps the winner's. `BT_TypeOK`. |
| bootstrap_zone_loser | `Bootstrap_ZoneLoser.cfg` | violation | `BackendRunsDisjointFromMeta`: no page run given to the backend overlaps a live metadata block. The zone loser's two pages cover 2048 bytes of the next `META_BUMP` object, the other thread's `ThreadCache`. |
| bootstrap_stale_cache | `Bootstrap_StaleCache.cfg` | violation | `CacheExclusive`: no two running threads use the same `ThreadCache`. An exited thread's block is popped by the other thread while the exited thread's later destructor still uses it. |

The mutants:

- `MetaAlloc` pops the backup head without advancing it, which breaks
  `MetaBlocksDisjoint`;
- `BumpAlloc` drops the `current > start` half of the refill test. The first
  request then wraps below address 0, which breaks `TypeOK` (a usize address
  is a natural number);
- `RegisterKey` does not store the new key in `PKEY`, which breaks
  `SavedUnderCreatedKey`;
- the `RadixNodeHead::insert` CAS loser munmaps the published node (`cur_ptr`)
  rather than its own, which breaks `RadixMaps`.

`allocate_node` does not check mmap's result (radix_tree.rs:44). `MAP_FAILED`
is not null, so a failed mmap would be published as a node and written
through. The model lets these mmaps succeed, and the hazard is listed without a
property.

`BumpAlloc::alloc` never checks that the request fits (sc/mod.rs:134), but
that cannot bite with these sizes: the region is a multiple of every request,
and the refill test catches an exactly empty region. `PG_BUMP` hands out 40-byte records of one size
only. It is the `fresh` pool of `CentralCache` and is not modelled here.

### Facade and AllocApi (`Facade.tla`, `AllocApi.tla`, `MC_Facade.tla`)

`AllocApi` is the contract a `GlobalAlloc` gives the program. Its only
variable is `blocks`, a set of `[addr, size, content]` records.

- The blocks held never share a byte.
- `Alloc` adds a block of the requested size with fresh contents.
- `Dealloc` removes a held block.
- `Realloc` replaces a block by one that holds the same contents. The new
  block is at the same address or apart from the old one, and apart from
  every other block.

`Facade` composes the parts a call goes through. Its state has four
variables:

- `used`: the pages the backend handed out. This is the variable of the
  abstract `PageAllocator`, which `backend_safety` shows `PageBackend`
  implements, so the composition uses the backend's specification rather than
  its lists.
- `classRuns`: the object-page runs of the small path.
- `live`: the blocks the program holds, each under the layout size it was
  last given.
- `ops`: the number of allocations made.

The actions follow `RustAllocator` (cache/mod.rs):

- `Alloc` is `alloc`, through `ThreadCache::allocate`:
  - class 0 gets the constant address;
  - a Base class gets a free cell of one of its runs, or the first cell of a
    new run of `get_num_pages_by_idx` pages from the backend;
  - `Large` gets `ceil(size/4096)` pages from the backend (`allocate_large`).
- `Dealloc` is `dealloc`, routed the same way. A Large block gives
  `ceil(size/4096)` pages from its address back to the backend.
- `Realloc` is `realloc`. Equal `SizeClass::index()` returns the pointer.
  Otherwise it runs `alloc`, then the copy, then `dealloc` of the old block,
  in one step.

Sizes, classes and run layouts come from `SizeClass` through
`SC == INSTANCE SizeClass`. One program thread makes the calls. How a cell
reaches a thread cache is `CentralCache`'s subject, and here a cell is any
free one among the first `CellBound` of its run. A new run is taken only
when no run of the class has a free cell. That holds for one calling thread
that never exits and asks for an alignment every cell meets (at most 8 for
classes 5 and 6, whose cells are 40 and 48 bytes apart from a page base),
because all of a class's free cells are then in its cache. With several threads, `CellPool` allows a new run at any time.

`MC_Facade` uses the requests 0, 40 (class 5), 48 (class 6), 28100 (Large, 7
pages) and 32768 (Large, 8 pages). Runs may start at pages 1..9, and there are
at most 3 allocations. Two Large blocks and two class runs then fit, and every
cross-path realloc (small↔small, small↔Large, Large↔Large, to and from zero
size) happens. Facade's part of the run is 111k distinct states.

`MC_Facade` checks `Facade` side by side with `BuddyHeap` (below), the other
allocator that implements `AllocApi`. It extends `BuddyHeap` and instantiates
`Facade` as `F`, with Facade's `live` renamed `flive`. `Init` picks `which`
model runs, and the other keeps its initial state, as in `MC_Standalone`.
Facade's properties carry the prefix `F_`. The run reaches 124k distinct
states in about 2 minutes.

| Run | cfg | Expect | What it checks |
|---|---|---|---|
| facade_api | `Facade.cfg` (`MC_Facade`) | pass | `F_BlocksBacked`: every held block belongs to the path its current layout names. A zero-size block is the constant address. A small block is a cell of a run of its class whose pages are held. A Large block starts a page, and the pages its dealloc will free are held and belong to no run and no other Large block. `F_Refines`: `Facade` implements `AllocApi`. `F_TypeOK`. With them, BuddyHeap's `TreeSummarisesBlocks`, `Refines` and `TypeOK` (below). |

The mutants of `Realloc`:

- an in-place shortcut when the new index is not larger breaks
  `F_BlocksBacked`. A Large block then lives on under a small layout;
- freeing the old block before allocating the new one breaks `F_Refines`,
  because the new run can overlap the old at another address;
- a realloc that does not carry the contents over breaks `F_TypeOK`, because its
  content name is not that of any allocation made. It also breaks `F_Refines`.

`realloc` compares `index()`, which is a class number for Base sizes and the
byte size for Large ones. The two ranges cannot meet, because Large sizes
exceed `MAX_SIZE`, so the comparison is sound. `F_BlocksBacked` is what would
fail if they could. Null returns are not modelled: the abstract backend does
not fail, and mmap failure is `backend_oom`'s subject.

### MpMcQueue (`MpMcQueue.tla`, `MC_MpMcQueue.tla`, `MC_Standalone.tla`)

`mpmc.rs` is a bounded lock-free queue of the Vyukov kind, `MpMcQueue<T, N>`
(aliases `Q2` to `Q512`). Each of its `N` cells holds a sequence number and a
slot. `enqueue_pos` and `dequeue_pos` are claimed by `compare_exchange_weak`.
Nothing on the allocation path uses it; its one user is `GLOBAL_BG_THREAD`, a
`Q512` pointer in `bg_thread.rs` that is never set.

- **State.**
  - `seq` and `data` are the cells.
  - `enqPos` and `deqPos` are the two positions.
  - `th` is each thread's call in progress: program counter, the position it
    loaded, its item, and its result.
  - `enqd`, `deqd` and `freed` are history variables. They record what each
    completed enqueue published, what each dequeue read, and which positions
    a dequeue released.
- **Actions.** Every atomic access is a step of its own, so other threads
  interleave between any two:
  - enqueue: `EnqLoad`, `EnqSeq`, `EnqCas` (or `EnqCasSpurious`), `EnqWrite`,
    `EnqPub`;
  - dequeue: `DeqLoad`, `DeqSeq`, `DeqCas` (or `DeqCasSpurious`), `DeqRead`,
    `DeqPub`.

  The sequence check takes the difference as the code does, on the low 8
  bits (`I8`). A failed CAS retries with the same stale `pos`, as the loop
  does. `StartEnq` and `StartDeq` begin a call, and call k enqueues item k.
- **Initial states.** The empty queue at position 0 is `new()`. The empty
  queue whose positions are 255 is the state after 255 enqueue/dequeue pairs
  (`EmptyAt`), the state the module's tests `drain_at_pos255` and
  `full_at_wrapped_pos0` reach.
- **Fairness.** A preempted thread runs again, so there is weak fairness on
  each thread's steps. A `compare_exchange_weak` whose value matches fails
  spuriously only finitely often, so there is strong fairness on each CAS.
  Nothing forces a thread to make a call.

| Run | cfg | Expect | What it checks |
|---|---|---|---|
| standalone | `Standalone.cfg` | pass | `Q_ExactlyOnceInOrder`: a dequeue that claimed position p read the item that p's enqueue published, and no two dequeue calls read the same position. `Q_ErrOnlyWhenFull` (action property): `Err` only while position pos − N is not yet released. `Q_LiveCallsReturn`: every call returns. `Q_TypeOK`: no dequeue returns the uninitialised slot. Two threads, `N` = 2, five calls, starting at 0 and at 255: 56k distinct states of the run's 83k. |
| mpmc_wide | `MpMcQueue_Wide.cfg` | violation | `LiveCallsReturn` on a `Q512` with one thread that only enqueues. After 512 enqueues the queue is full. The 513th enqueue computes `i8(1 − 512)` = +1, takes it for a stale position, and reloads forever. |

Two threads are enough for every race here. Each of them, two producers on
one position, two consumers on one position, and a consumer before a
producer's publish, has two sides. With three threads the run takes 16
minutes. Five calls on a `Q2` fill it, and they wrap cells onto a second lap.
The `N` = 512 run has one thread and 3,076 states. With `N` = 64 the same
program returns `Err` and `LiveCallsReturn` holds.

The mutants:

- dequeue compares the sequence with `pos` instead of `pos + 1`. It then
  reads an unpublished slot, which breaks `TypeOK`;
- `dequeue_pos` is advanced by a store, not a CAS. Two consumers then read
  one position, which breaks `ExactlyOnceInOrder`;
- a cell is released with `pos + MASK`, one short. The next lap's enqueue
  then reports full, which breaks `ErrOnlyWhenFull`;
- enqueue retries a taken position without reloading `enqueue_pos`, which
  breaks `LiveCallsReturn`.

### BuddyHeap (`BuddyHeap.tla`, `MC_Facade.tla`)

`buddy_system/` is a buddy allocator over one big heap. `BUDDY_HEAP` is a
`BuddySystem<12, 22>` on x86-64 and a `BuddySystem<14, 22>` on aarch64. The
`BuddySystemAllocator` and the free functions `alloc`, `dealloc` and
`realloc` forward to it. Nothing that is built calls it, and spec §1 calls the
buddy tree vestigial. It is modelled because it is compiled, self-contained,
and its tree arithmetic is easy to get wrong.

- **State.**
  - `tree[n]` is `flat_blocks[n - 1].order_free`. The tree is 1-indexed and
    flat: 1 + the order of the largest free block below node n, or 0.
  - `build` is the table `BuddyTree::new` wrote. It is the level count of
    that target's hard-coded `write_bytes` table.
  - `live` is the blocks the program holds, as `[addr, size, align,
    content]`.
- **Operators** (buddy.rs, heap.rs):
  - `TreeNew` is `BuddyTree::new`.
  - `Walk` and `MaxUp` are the two loops of `allocate`. `TreeAllocate` is the
    whole call, with its root check.
  - `MergeUp` is `update_blocks_above` with `update_block`.
  - `TreeDeallocate` is `deallocate`, with its index arithmetic.
  - `next_page_size`, `log2` (log2 of the next power of two) and
    `order_checked` keep their source names.
- **Actions.** `Alloc` and `AllocNull` are `BuddySystem::alloc`. `Dealloc` is
  `dealloc`. `ReallocInPlace`, `ReallocMove` and `ReallocNull` are the three
  outcomes of `realloc`.
- **The Allocator API** (`BuddySystemAllocator`'s `Allocator` impl).
  - `alloc_impl` gives a record `[ok, tree, blk]`. For size 0 it is
    `layout.dangling()`: the address `align`, with no tree block behind it.
    Otherwise it is `alloc`, and a null result becomes `Err`.
  - `ApiAllocate` is `allocate`. `ApiDeallocate` is `deallocate`, which skips
    size 0.
  - `Grow` is `grow`, that is `grow_impl` with `new.size() >= old.size()`.
    From size 0 it is a fresh `alloc_impl` (`GrowFresh`). With the alignment
    unchanged it is the GlobalAlloc `realloc`. Otherwise `GrowMove` runs
    `alloc_impl`, copies, and only then frees the old block with
    `self.deallocate`.
  - An `Err` leaves the old block held.
- **Atomicity.** The tree sits behind one mutex, so each tree call is one
  step. `realloc` allocates, copies and frees in two locked calls. The model
  makes that one step: the old block stays with its caller until the free,
  so no other call can tell the difference.

The heap is scaled to `MAX_ORDER = 3` (eight base pages) with 4096-byte
pages. The two tables are scaled with it. x86-64 writes every level
(`Tables` value 4 = `MAX_ORDER + 1`). aarch64 writes two levels fewer
(value 2 = `MAX_ORDER - 1`), as its 21 levels from root 21 fall two short of
`LEVEL_COUNT` = 23.

The GlobalAlloc requests (`Sizes`) are:

- 1 and 4096 bytes (order 0; realloc between them stays in place);
- 8192 (order 1);
- 12288 (rounded to order 2);
- 40000 (larger than the heap, so null).

GlobalAlloc calls use one alignment, `GlobalAlign` = 8. `alloc` ignores the
alignment, so one value stands for all. The Allocator calls take
`ApiSizes` = {0, 8192} and `Aligns` = {8, 16}. That reaches every branch of
`grow_impl`:

- from a dangling block;
- in place (8192 to 8192);
- moved by `realloc` (one page to 8192, align 8);
- moved with a changed alignment.

GlobalAlloc `dealloc` and `realloc` are applied only to blocks with a
GlobalAlloc layout (non-zero size, `GlobalAlign`). Three allocation names
bound the blocks held at once. That is enough to fragment the heap, fill a
buddy pair and free it in either order. A new allocation takes the first
unused name (`Fresh`), since names are interchangeable.

Properties, in the `facade_api` run:

- `TreeSummarisesBlocks` (x86-64 table). Every node equals what the held
  heap blocks imply: 0 at a held block, the untouched value inside one, and
  otherwise 1 + the largest order free below it. `FreeRef` computes that
  last value from the blocks' byte ranges, not from the tree. The geometry
  tables `Span` and `Beneath` are constants, so TLC computes them once.
- `Refines`. `BuddyHeap` implements `AllocApi` on both tables: held blocks
  never overlap, and realloc and grow keep the data. A `grow` that freed the
  old block before allocating the new one breaks it. The freed block merges
  with its buddy, and the new, larger block starts below it and covers it
  (heap.rs:234).
- `TypeOK`.

The mutants:

- the table one too high breaks `TypeOK`;
- a `deallocate` that skips `update_blocks_above` breaks
  `TreeSummarisesBlocks`;
- a `realloc` that keeps the block when it grows by one page breaks
  `Refines`.

Not modelled: `alloc_large`, which has no caller, and `alloc_zeroed`, which
only fills memory. `BuddySystem`'s own `Allocator::allocate` and `grow` are
not modelled either: `BUDDY_HEAP` is private, and only `grow_impl` reaches
that impl, through `deallocate`.

**The aarch64 table.** On this table the bottom two levels read "used" and
every stored value is two below its order. Even so, TLC finds no overlap:
`allocate`'s blind step to the right never lands in a held block. The cost is
capacity. The root reads `MAX_ORDER - 1`, so no block of either of the two
largest orders is ever handed out. A freed bottom block never merges with a
buddy that was never allocated. `alloc` ignores `layout.align()` beyond the
block's own alignment. `AllocApi` has no alignment clause, and no caller asks
for more, so this is listed as a hazard.

### CpuCache (`CpuCache.tla`, `MC_CpuCache.tla`)

`cache/cpu_cache.rs` is the per-CPU cache. It builds a restartable-sequence
(rseq) slab per CPU, `PerCpuSlabs` behind `GLOBAL_CCACHE`. It is not built:
`cache/mod.rs` comments its `mod` line out, and it calls an older zone API
(`allocate_batch_from_slab(idx, &mut batch, n)`). Spec §1 names it an
experimental peer of the thread cache, with the same contract towards the
central layer (§4.4). The model takes the zone at that contract. A batch call
gives `CWND` free cells or fails, `deallocate_batch_to_slab` takes cells back,
and `allocate(sz, align)` gives one aligned cell or fails.

- **State.**
  - `hdr[p]` and `mem[p]` are CPU p's `Header` (`current`, `begin`, `end`)
    and slot words. The 63 header words come first, as `init_cpu` lays them
    out.
  - `zfree` is the zone's free cells.
  - `cpu[t]` is the CPU thread t runs on.
  - `held[t]` is the cells t's allocations returned.
  - `ccache` and `slabs` are `GLOBAL_CCACHE_VALUE` and the `PerCpuSlabs`
    blocks that were allocated.
  - `th[t]` is t's call in progress.
- **Steps.** A `push` or `pop` is one rseq section. The CPU id is read inside
  the section, and the commit is the last store. A `pop` stores only at its
  commit, so it is one step on the CPU the thread is on at that moment
  (`PopAligned`, `PopUnaligned`, `PopUnderflow`, `EvictPop`). A `push` is two
  steps: the store of the item (`Push`, `RefillPush`) and the commit of
  `current + 1` (`PushCommit`, `RefillCommit`). A thread that runs a section
  on a CPU preempted any other thread between those two steps there, and
  `Abort` sends that thread back to the start of its push, as the abort
  handler does. `Migrate` preempts a thread between any two steps and
  resumes it on any CPU, aborting its push the same way. The other calls are:
  - the `cpu_id() == cpu` tests of `refill_cache` and `evict_cache`
    (`RefillCheck`, `EvictCheck`);
  - each push of `push_batch` and each pop of `pop_batch` (`RefillPush`,
    `EvictPop`);
  - each zone call;
  - the load, allocation and CAS of `GLOBAL_CCACHE` (`Deref`, `NewSlab`,
    `SlabCas`).

  Each of these is a step of its own.

`MC_CpuCache` uses:

- two threads and two CPUs;
- `CAP` = 2 slots per CPU;
- `CWND` = 3, so that a refill can overflow the slab and an eviction pops a
  partial batch;
- five cells 16 bytes apart, and alignments 16 and 32, so that a cached cell
  can be misaligned.

| Run | cfg | Expect | What it checks |
|---|---|---|---|
| cpu_cache_refill | `CpuCache_Refill.cfg` | violation | `CellsExclusive`: a cell returned to a thread is not cached on any CPU, free in the zone, or held by another thread. TLC breaks it in 10 steps, at the first allocation. |

The first allocation goes as follows:

1. It finds the slab empty and refills.
2. `push_batch(&mut batch, idx, CWND, 1)` pushes `batch[n - 1]` for `n` from
   1, which is `batch[0]` and `batch[1]`.
3. `refill_cache` returns `batch[0]`, which is now also in the slab.

`batch[2]` is neither cached nor returned, and leaks.

Since every refill breaks exclusivity, no passing run can check the rest of
this module. That includes the `GLOBAL_CCACHE` CAS, the eviction and the
migration races. The `Large` path, `init_cpu`'s lock and the capacity update
are not modelled: `init_cpu` runs only inside `init`, on a slab no other
thread can reach before the `GLOBAL_CCACHE` CAS.

### RadixTree and RadixMap (`RadixTree.tla`, `RadixMap.tla`, `MC_Standalone.tla`)

`RadixMap` is what both radix trees promise their callers. It is a map from
keys to values, grouped by leaf: a group is absent (every key reads
`NullRead`) or present (an unwritten key reads 0). An insert makes its group
present and then writes its `n` slots one at a time. A remove of an absent
group returns at once, and otherwise zeroes its slots one at a time. A
`get_mut` reads in one step.

`RadixTree` is the tree of `radix_tree_128.rs`, scaled down. The scale is
set by `W` key bits, `Heads` head levels of `2^HB` slots, and bottom nodes of
`2^LB` slots.

| `RadixTree` | Code |
|---|---|
| `heads`, `leaves` | the `AtomicPtr` arrays of the `RadixNode128Head` levels and the `i32` arrays of `RadixBottom128Node` |
| `mapped` | the nodes that `allocate_node` has mmapped and not munmapped |
| `th[t]` | the thread's call: the node it is at, the shifted key, its level, its `pc`, and the node it mmapped (`mine`) |
| `Call` | a caller invokes `insert(k, v, n)`, `remove(k, n)` or `get_mut(k)` on a range inside one leaf |
| `Load` | `node_ptr_ref.load`: descend; or, on null, `allocate_node` (insert), `Ok(())` (remove), or `NullRead` (get) |
| `Cas` | `compare_exchange_weak(null, node_ptr)`: install and descend, or `deallocate_node` the own node and descend into `p`. A spurious `Err(null)` retries from the same state, so it is not a step |
| `Descend` | `node.insert(k << 21, ..)` and its siblings: the key shifted by one level |
| `WriteSlot`, `ReadSlot` | one iteration of the bottom node's loop, and its `get_mut` |

Each write of a slot is one step. The writes are plain, unsynchronised
stores of an aligned `i32`, so two threads writing one slot leave one of the
two values.

`MC_Standalone` instantiates it twice:

- `R128` is `radix_tree_128.rs`: 3-bit keys, two head levels, bottom nodes of
  2 slots, and `NullRead` = −1.
- `R64` is `radix_tree.rs`: 5-bit keys, one head level, bottom nodes of 4
  slots, and `NullRead` = 0. That file's tree has the same control. Its CAS
  is the strong `compare_exchange`, which is the weak one without the
  spurious retry.

Both have two threads, three calls, ranges of 1 and 2 slots, and the value 7.
Two inserts into an empty tree race on every level's node. The keys are
chosen so that calls share a leaf and also reach different leaves.

| Run | cfg | Expect | What it checks |
|---|---|---|---|
| standalone | `Standalone.cfg` | pass | `R64_Refines`, `R128_Refines`: each tree implements `RadixMap`. The refinement mapping reads every group's leaf through the published pointers (`LeafNode`). `R128_NodesAccounted`: the mapped nodes are exactly the nodes linked from the root plus one node per thread between its mmap and its CAS, and no two threads hold the same one. So no CAS loser leaks its node or munmaps the winner's. `R_TypeOK` (both trees' `TypeOK`): every slot write stays inside its bottom node. |

In the union the refinement properties are written as
`Init /\ [][which # c \/ [Next]_absvars]_vars`. A step of another component
leaves the tree's variables unchanged, and so the abstract variables too. The
formula is therefore the same as `R*!Refines`, and TLC evaluates the mapping
only on the tree's own steps.

The mutants:

| Mutant | Breaks |
|---|---|
| `WriteSlotInclusive` (a `0..=n` loop) | the TypeOKs |
| `DescendUnshifted` (no `k << 21`) | `R64_Refines` |
| `CasAdoptsOwn` (the loser munmaps its node and then uses it) | `R128_Refines` |
| `CasLeaks` (the loser does not munmap) | `R128_NodesAccounted` |

Not modelled: `RdTree128Alloc`, an mmap `Allocator` that nothing in the tree
uses, and a failed mmap in `allocate_node` (see the hazard at
radix_tree.rs:44).

### PerCpuArray and PerCpuStacks (`PerCpuArray.tla`, `PerCpuStacks.tla`, `MC_Standalone.tla`)

`PerCpuArray<NCPU>` (`collections/concurrent.rs`) is one `FlatArrayList` per
CPU: `NUM_ARRS` header words (`FlatArrayHeader`: `current`, `end_copy`,
`begin`, `end`, word offsets from the block) followed by `DATA_LEN` data
words. `push(idx, val)` and `pop(idx)` are restartable sequences (rseq).

`PerCpuStacks` is what the type promises: per CPU and class a stack of at
most `Cap` items, where a push appends or returns `Err(cpu)` when full, a pop
removes the top or returns `Err(cpu)` when empty, each in one step on the CPU
the thread is on, and threads migrate at any time.

| `PerCpuArray` | Code |
|---|---|
| `hdr[c][cl]`, `data[c]` | the header words and data words of CPU c's `FlatArrayList` |
| `InitialCapacity`, `Offset`, `InitHeader`, `FlatArrayInit`, `Init` | `FlatArrayList::new`, `initial_capacity()` and `init`: class cl gets words `[begin, end)` at `byte_used / 8`, and word `begin` holds its own address as the prefetch target. `init`'s header locks are overwritten before `init` returns, and are left out |
| `cpu`, `RSEQ_CPU_ID_UNINITIALIZED`, `is_registered` | `RSEQ_ABI.cpu_id` of each thread (`pal/os/linux_rseq.rs`): −1 from `rseq::new()` until the thread registers |
| `Register` | `register_current_thread_checked()` at the head of `push` and `pop`: an unregistered thread calls `sys_rseq`, and the kernel writes its CPU into `cpu_id`. A registered thread returns at once |
| `Call` | a caller invokes `push` or `pop` on a class |
| `PushStore` | push from label 4 to the first store: load `cpu_id` and `current`; `current >= end` returns `Err(cpu_id)`; else store the item at word `current` |
| `PushCommit` | the commit store `current := current + 1` and `Ok(())` |
| `Pop` | the whole pop section: `current <= begin` returns `Err(cpu)`; else read word `current - 1` and commit `current - 1` |
| `Abort` | a thread running a section on CPU c preempted every other thread in a push section on c: the kernel sends it to the abort handler, which restarts the push |
| `Migrate` | the scheduler preempts a registered thread and resumes it on any CPU, the same included, updating its `cpu_id` and aborting its push section |

A pop has one store, its commit, so a pop section is one step. A push has
two: an abort between them leaves the item in the word above the stack,
which the mapping does not count. `Stack(c, cl)` (words `begin` to
`current - 1`) is the refinement mapping to `stack`. An unregistered
thread's CPU maps to a fixed CPU of the abstract spec, so its registration
is an abstract `Migrate`. It counts word `begin`
as an item slot, as the code does: `init` sets `current = begin` and the
first push stores there. The comments say that word is reserved as the
prefetch target. `percpu_prefetch` (`MC_PerCpuArray`, one thread, one CPU)
shows the first push overwriting it; see Findings. `pop` also loads word
`current - 2` as a prefetch (concurrent.rs:453). That load changes no state
and is left out, so `PA_TypeOK` bounds only the item load.

`MC_Standalone` instantiates it as `PA`: two threads, two CPUs, two classes,
`DATA_LEN` = 48, so a capacity of `48 / 8 / 2 - 1` = 2 per class, three calls
and one value. Three calls fill a class, overflow it, or pop across a
preempted push; both threads share a CPU or not.

| Run | cfg | Expect | What it checks |
|---|---|---|---|
| standalone | `Standalone.cfg` | pass | `PA_Refines`: push and pop, preempted and migrated at any point, implement `PerCpuStacks`. No item is lost or returned twice when a push is aborted between its store and its commit. `PA_TypeOK`: `begin <= current <= end` within each class's own words, so no store leaves its class. |
| percpu_prefetch | `PerCpuArray_Prefetch.cfg` | violation | `PrefetchTargetKept`: word `begin` of every class keeps its own address, as the comments say. It fails at the first push. |

The mutants are `PushStoreNoAbort` (the two stores outside an rseq, with no
restart on preemption; breaks `PA_Refines`) and `PopBelowBegin` (`jb` for
`jbe` in the underflow test; breaks `PA_TypeOK`).

Not modelled: `PerCpuCache::allocate` and `deallocate` in the same file do
not build (they call `allocate_batch_from_slab` with an older signature and
`allocate_from_slab`, which is commented out in `zone.rs`), and `pop_filter`
is `todo!()`. A failed rseq registration (`rc != 0`) panics and is taken not
to happen; `unregister_current_thread` has no caller.

### MC_Standalone: the side-by-side run

`MpMcQueue`, `Bootstrap` and the two radix trees share no state with each
other. `MC_Standalone` checks them side by side in one pass run,
`standalone`:

- Each component is an `INSTANCE` (`Q`, `BT`, `R64`, `R128`, `PA`). Bootstrap's
  per-thread record `th` is renamed `bth`, and the trees' variables get
  suffixes `64` and `128`, because the queue has a `th` of its own.
- `Init` picks `which` component runs. That component takes every step, and
  the others keep one fixed initial state. The reachable states are therefore
  the disjoint union of the models' own.
- The properties are the components' own, renamed with `Q_`, `BT_`, `R64_`,
  `R128_` and `PA_`.
- `MpMcQueue`'s fairness is stated on the queue's steps.

Symmetry is not used. It would make the queue's liveness check three times
slower and is not sound for liveness. The run reaches about 179k distinct
states in about 2 minutes. `BuddyHeap` runs beside `Facade` instead. The
liveness check builds a behaviour graph over every state of the union, so
the buddy states would make this run several times slower.

### SeparateSC (`SeparateSC.tla`, `MC_Central.tla`)

`sc/separate_sc.rs` is a second central allocator for one size class. The
zone does not use it. Its pages are `ObjectPage` records
(`page/separate_page.rs`): a `counter` of cells handed out, the run `data`,
and a bitfield word in `SCAllocator::bitfields` with one bit per cell. The
records live in one `ArrayLinkedList` (`collections/linklist.rs`) and are
threaded on four circular lists (full, partial, empty, uninit). A run's page
is mapped in the radix tree to its record index + 1.

The model:

- The variables are the four list heads and counts, the record vector
  `pages` (prev, next, counter, data), the bitfields `bits`, the radix map
  `rd`, the backend's free pages `bk`, the caller's cells `held` (a bag), and
  `panic`.
- Every public method takes `&mut self`, so each call is one step. The
  actions are `Allocate`, `AllocateBatch`, `AllocateBatchV2`, `Deallocate`
  and `DeallocateBatch`. Their helpers are operators on a record of the whole
  state, with the Rust names (`get_uninit`, `get_empty`, `remove_partial`,
  `insert_full`, `try_back_ety`, `back_ety`, `first_fit`, ...). Loops are
  `RECURSIVE` operators. A helper whose result is used several times passes
  it on as a parameter (`PartialStep`, `V2PartialNext`, `FreeBatchStep`).
- A failed `assert!`, `expect` or `panic!` is recorded in `panic`, and nothing
  changes after it. So is a loop that makes no progress
  (`allocate_batch_v2`'s first loop).
- Callers free only cells they hold, whole batches in any order of distinct
  held cells.
- The bounds are 1360-byte cells, two 4096-byte pages in the backend, up to
  four held cells, alignments 1, 32 and 4096, and batch lengths 1, 2 and 4.
  With 1360-byte cells, `new()` computes three cells per run at a stride of
  1360. Alignment 32 admits cells 0 and 2, and 4096 only cell 0, so aligned
  requests skip partial records. A batch of 4 takes a whole record
  (`allocate_all`) in `allocate_batch_v2`'s second loop. `EMPTY_CAP = 0`
  stands for the cap of 2048 empty records: the first record to empty stays
  on the empty list and the next goes back to the backend, which is the same
  boundary. Two pages let the backend run out; `allocate_page`'s
  `assert_ne!` then panics, and `NoPanic` allows that one panic.
- Two things the model does not reach. `ObjectPage::deallocate_batch`
  walks the whole rest of the slice, not the first `count_p` entries
  (separate_page.rs:184); the model passes `count_p` equal to the length.
  `allocate_batch` returns a count of 0 with the one cell it takes from a
  partial record (separate_sc.rs:451); the model records that cell as held.
- Left out: runs of several OS pages (`num_os_pages = 1` here, which is where
  `handle_rd_tree_insert` and `handle_rd_tree_remove` split a run
  differently), more than 32 cells per run, and the `Vec` reservations.

`MC_Central` checks it beside `CentralCache` and `SizeClass` in the
`central_safety` run, in the way `MC_Standalone` combines its components:
`which` picks the component that runs, and the others keep their initial
state (`req = 0` for SizeClass). The run reaches about 127k distinct states
in about 2 minutes. SeparateSC's radix map is
renamed `srd` and its alignments `SCAligns`, because CentralCache has an `rd`
and an `Aligns` of its own. The thread symmetry of `MC_CentralCache` is sound
for SeparateSC and SizeClass, which have no threads.

| Property | What it says |
|---|---|
| `SC_NoPanic` | No sequence of legal calls reaches a panic or a loop that never ends, short of the backend running out. |
| `SC_BitsMatchHeld` | Every held cell was handed out once, inside a run some record owns. Each owning record's counter counts its set bits, and those bits are exactly its held cells. |
| `SC_ListsPartitionRecords` | Walking each list from its head for `count` steps visits distinct records and closes the circle. `prev` undoes `next`. Every record is on exactly one list, the one its counter and run say. |
| `SC_RadixMatchesRuns` | The radix map names the owning record for every owned page, and nothing for a page back in the backend. The backend's free pages and the owned runs partition the pages. |

All four hold, over about 2k distinct states of the allocator, the deepest 13
calls from the start. Each property is broken by a one-line mutant of the code
(listed in `PROJECT.json`), such as a `remove_*` that leaves the list head on
the removed record. A larger instance (three pages) gives about 154k states and also holds, but
it takes longer than the side-by-side run can afford.

## Findings

- Alignment above `PAGE_SIZE` is not honoured by the small-object path
  (thread_cache.rs:119). The large path is not honoured either, because runs
  are only page-aligned. This is against spec §8, "Alignment". Run
  `align_above_page`.
- Backend coalescing never happens. `remove_spec_one` requires
  `next == self` (freelist/mod.rs:108), and the linear list never has that.
  This is against spec §8. Run `backend_coalescing`.
- A failed mmap in the page bump (freelist/bump.rs:51) yields a base of 0.
  The backend then hands out unmapped pages instead of null, which is against
  spec §7. Run `backend_oom`.
- The `atomic_static!` CAS loser frees its `META_BUMP` block into the page
  backend as whole pages (allocator.rs:114). The run overlaps a live
  `ThreadCache`. This is a code bug against spec §9, which says a losing
  initialiser releases its own work. Run `bootstrap_zone_loser`.
- `free_thread_cache` puts the cache block back on `META_BUMP`'s backup list
  while the stale TLS pointer still reaches it (thread_cache.rs:229). Two
  threads can then share one `ThreadCache`, against spec §5 ("single-owner;
  no lock"). The same stale pointer lets a free after the destructor push a
  cell on the drained cache, where nobody returns it, against spec §8
  ("drain"). Run `bootstrap_stale_cache`.
- A failed mmap in the metadata bump (sc/mod.rs:123) places metadata at
  addresses below 64 MiB, against spec §7. This is the same code as in the
  page bump, so `backend_oom` stands for both.
- `MpMcQueue::enqueue` on a full `Q512` never returns (mpmc.rs:194). The
  position difference is taken as `i8`, and 1 − 512 reads as +1, so the call
  reloads the position forever instead of returning `Err(item)` as its doc
  comment says (mpmc.rs:108). `Q512` is the type of `GLOBAL_BG_THREAD`; `Q256`
  has the same flaw, and `Q64` does not. Run `mpmc_wide`.
- `refill_cache` in the per-CPU cache returns `batch[0]` while `push_batch`
  has also cached it (cpu_cache.rs:610-616). The next pop on that CPU hands
  the same cell to a second caller, and `batch[CWND - 1]` leaks. This is
  against the central-layer contract of spec §4.4. The file is not built
  today. Run `cpu_cache_refill`.
- `FlatArrayList` uses word `begin` of each class for an item. `init` sets
  `current = begin` (concurrent.rs:165-166) and `push` stores at word
  `current` (concurrent.rs:345). The comments at concurrent.rs:99-100 and
  148-149 say that word is never used and always holds its own address as
  `pop`'s prefetch target. The first push overwrites it. Run
  `percpu_prefetch`. Related: the doc comment of `initial_capacity`
  (concurrent.rs:179-183) counts 519 slots per class, but the code shifts
  the slot count right by 3 once more and gets `(32705 >> 3) / 63 - 1` = 63.
  This is an arithmetic fact about two constants, so no run checks it.
- Found while surveying and not yet checked: the thread-cache soft cap is dead
  code (thread_cache.rs:69).

## Plan

1. **CentralCache** (done).
2. **PageBackend** with the **PageAllocator** refinement (done).
3. **Bootstrap** (done).
4. **SizeClass** (done).
5. **Facade**: the composition of the façade, the size classes and the
   abstract backend, refining `AllocApi` (done). The small path's promise,
   `CellPool`, is shown to be implemented by `CentralCache` (done). Facade's
   small path is `CellPool`'s `Alloc` narrowed to one calling thread that
   never exits: every free cell of a class is then in that thread's cache,
   and the cache hands one out before it refills.
6. **MpMcQueue** (done).
7. **BuddyHeap** (done, GlobalAlloc and Allocator impls, in the
   `facade_api` run, with `AllocApi` as its promise) and **CpuCache** (partly: one violation run for its refill bug).
8. Next: give the uncovered hazards properties. These are the thread-cache
   soft cap (thread_cache.rs:69), the size-class lookup bounds (sc/mod.rs:123),
   the radix split (radix_tree.rs:44) and the page arithmetic
   (page/mod.rs:69, listed with sc/mod.rs:123).
9. **SeparateSC**: every state-changing method of the unused bitfield
   slab allocator (done, beside CentralCache in the `central_safety` run).
10. **RadixTree**: both radix trees, refining `RadixMap` (done, in the
   `standalone` run).
11. **PerCpuArray**: the rseq push and pop of `concurrent.rs`, refining
   `PerCpuStacks` (done, in the `standalone` run).
12. **CpuCache**: its `push` split into the item store and the commit, with
   the same rseq abort as `PerCpuArray` (done; still checked only by the
   `cpu_cache_refill` violation run, because the refill bug breaks
   `CellsExclusive` before anything else).

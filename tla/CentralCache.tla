---------------------------- MODULE CentralCache ----------------------------
(***************************************************************************)
(* One size class of UniAlloc: the per-thread cache units                 *)
(* (cache/thread_cache.rs, ThreadCacheUnit), the central SCAllocator of   *)
(* the class (sc/efficient_sc.rs) with its object pages                    *)
(* (page/efficient_page.rs), the radix-tree slots that map a page to its   *)
(* object page, and the backend reduced to a pool of free runs.            *)
(*                                                                         *)
(* Addresses are natural numbers in bytes; a run of NumPages pages starts  *)
(* at a multiple of PageSize and its cells lie PgAlign bytes apart.  A     *)
(* free list threaded through the cells' first words is a sequence of      *)
(* cell addresses.  Every central call runs under the class mutex          *)
(* (zone.rs: sc.lock()), and a cache unit is owned by one thread, so each  *)
(* cache operation, with the central call it makes, is one atomic step.    *)
(***************************************************************************)
EXTENDS Integers, Sequences, SequencesExt, FiniteSets

CONSTANTS
  Threads,     \* thread ids (model values)
  Records,     \* object-page records PG_BUMP can carve, 1..n
  RunBases,    \* run base addresses the backend can hand out
  PageSize,    \* PAGE_SIZE
  NumPages,    \* pages per run of the class (get_num_pages_by_idx)
  ClassSize,   \* rounded size of the class (get_rounded_size_by_idx)
  EmptyCap,    \* 2048 in try_insert_ety / insert_ety
  Aligns       \* alignments requested by callers (powers of two)

ASSUME Records \subseteq Nat \ {0}
ASSUME \A b \in RunBases : b > 0 /\ b % PageSize = 0

VARIABLES
  sc,      \* SCAllocator: the four page lists and empty_count
  pg,      \* object-page records: counter, data, ptr
  rd,      \* radix-tree leaf slots: page number -> record (0 = unmapped)
  be,      \* runs free in the backend
  fresh,   \* records PG_BUMP has not handed out yet
  tc,      \* ThreadCacheUnit of each thread for this class
  live,    \* allocations held by the program: [addr, al]
  phase    \* running | torn (cache destructor ran) | gone

central == <<sc, pg, rd, be, fresh>>
vars == <<sc, pg, rd, be, fresh, tc, live, phase>>

NoRun == 0
Pages == {b \div PageSize + k : b \in RunBases, k \in 0..NumPages-1}

(***************************************************************************)
(* SCAllocator::new: cells per run and the stride between cells.          *)
(***************************************************************************)
RECURSIVE NextPow2(_, _)
NextPow2(n, p) == IF p >= n THEN p ELSE NextPow2(n, 2 * p)

IsPow2(n) == n > 0 /\ NextPow2(n, 1) = n

PgCount == (PageSize * NumPages) \div ClassSize

PgAlign ==
  LET perfect  == (PageSize * NumPages) \div PgCount
      diff     == perfect - ClassSize
      minAlign == IF NextPow2(diff, 1) \div 2 = 0 THEN 1 ELSE NextPow2(diff, 1) \div 2
      rem      == IF ClassSize % minAlign = 0 THEN ClassSize
                  ELSE (ClassSize \div minAlign + 1) * minAlign
  IN IF IsPow2(perfect) THEN perfect ELSE rem

RunCells(b) == {b + i * PgAlign : i \in 0..PgCount-1}
AllCells == UNION {RunCells(b) : b \in RunBases}
PagesOf(b) == {b \div PageSize + k : k \in 0..NumPages-1}
InRun(a, b) == b # 0 /\ a >= b /\ a < b + NumPages * PageSize
IsAligned(a, al) == a % al = 0

NoPage == [counter |-> 0, data |-> 0, ptr |-> <<>>]
EmptyUnit == [list |-> <<>>, len |-> 0, bumpPtr |-> 0, bumpCount |-> 0, bumpUnit |-> 0]

\* mutant: the list pop ignores the alignment (pop_unchecked)
PopAlignedIgnoresAlign(list, al) ==
  [found |-> list # <<>>, cell |-> IF list # <<>> THEN Head(list) ELSE 0,
   list |-> IF list # <<>> THEN Tail(list) ELSE list]

(***************************************************************************)
(* Linklist::pop_unchecked_aligned: the first cell of the list, from the  *)
(* head on, whose address meets the alignment is unlinked.                 *)
(***************************************************************************)
PopAligned(list, al) ==
  LET i == SelectInSeq(list, LAMBDA a : IsAligned(a, al))
  IN [found |-> i # 0,
      cell  |-> IF i # 0 THEN list[i] ELSE 0,
      list  |-> IF i # 0 THEN RemoveAt(list, i) ELSE list]

\* mutant: the bump walk runs one cell past bump_count
BumpTakeOffByOne(u, al) ==
  LET cells == [j \in 1..u.bumpCount + 1 |-> u.bumpPtr + (j - 1) * u.bumpUnit]
      k     == SelectInSeq(cells, LAMBDA a : IsAligned(a, al))
      used  == IF k # 0 THEN k ELSE u.bumpCount + 1
      pushed == SubSeq(cells, 1, used - (IF k # 0 THEN 1 ELSE 0))
  IN [found |-> k # 0 /\ u.bumpCount > 0,
      cell  |-> IF k # 0 THEN cells[k] ELSE 0,
      unit  |-> [u EXCEPT !.list = Reverse(pushed) \o @,
                          !.len = @ + Len(pushed),
                          !.bumpPtr = @ + used * u.bumpUnit,
                          !.bumpCount = @ - used]]

(***************************************************************************)
(* ThreadCacheUnit::allocate, case 2: walk the bump remainder; a cell that *)
(* does not meet the alignment is pushed on the list, the first one that   *)
(* does is returned.  found = FALSE when the remainder runs out.           *)
(***************************************************************************)
BumpTake(u, al) ==
  LET cells == [j \in 1..u.bumpCount |-> u.bumpPtr + (j - 1) * u.bumpUnit]
      k     == SelectInSeq(cells, LAMBDA a : IsAligned(a, al))
      used  == IF k # 0 THEN k ELSE u.bumpCount
      pushed == SubSeq(cells, 1, IF k # 0 THEN k - 1 ELSE u.bumpCount)
  IN [found |-> k # 0,
      cell  |-> IF k # 0 THEN cells[k] ELSE 0,
      unit  |-> [u EXCEPT !.list = Reverse(pushed) \o @,
                          !.len = @ + Len(pushed),
                          !.bumpPtr = @ + used * u.bumpUnit,
                          !.bumpCount = @ - used]]

\* mutant: an empty page is handed out with one cell more than it holds
AllocateAllOverrun(p) ==
  IF p.counter = 0
  THEN [page |-> [p EXCEPT !.counter = PgCount, !.ptr = <<>>],
        ans  |-> [chain |-> <<>>, base |-> p.data, n |-> PgCount + 1, unit |-> PgAlign]]
  ELSE [page |-> [p EXCEPT !.counter = PgCount, !.ptr = <<>>],
        ans  |-> [chain |-> p.ptr, base |-> 0, n |-> PgCount - p.counter, unit |-> 0]]

(***************************************************************************)
(* ObjectPage::allocate_all: hand out every free cell of the page.  An     *)
(* empty page is handed out whole (base, count, stride); a partial one as  *)
(* its free list.                                                          *)
(***************************************************************************)
AllocateAll(p) ==
  IF p.counter = 0
  THEN [page |-> [p EXCEPT !.counter = PgCount, !.ptr = <<>>],
        ans  |-> [chain |-> <<>>, base |-> p.data, n |-> PgCount, unit |-> PgAlign]]
  ELSE [page |-> [p EXCEPT !.counter = PgCount, !.ptr = <<>>],
        ans  |-> [chain |-> p.ptr, base |-> 0, n |-> PgCount - p.counter, unit |-> 0]]

(***************************************************************************)
(* SCAllocator::handle_rd_tree_insert / handle_rd_tree_remove: the slots  *)
(* of every page of the run.  The code splits the write at leaf            *)
(* boundaries; the pages written are the same.                             *)
(***************************************************************************)
RdInsert(m, r, b) == [p \in DOMAIN m |-> IF p \in PagesOf(b) THEN r ELSE m[p]]
RdRemove(m, b) == [p \in DOMAIN m |-> IF p \in PagesOf(b) THEN 0 ELSE m[p]]

(***************************************************************************)
(* The circular lists of SCAllocator, each a sequence from its head: an    *)
(* insert links the record before the head, so it is appended; a remove    *)
(* unlinks the record wherever it is; remove_uninit and remove_empty take  *)
(* the head, and remove_empty keeps empty_count.                           *)
(***************************************************************************)
remove_full(S, r) == [S EXCEPT !.sc.full = RemoveFirst(@, r)]
insert_full(S, r) == [S EXCEPT !.sc.full = Append(@, r)]
insert_partial(S, r) == [S EXCEPT !.sc.partial = Append(@, r)]
remove_partial(S, r) == [S EXCEPT !.sc.partial = RemoveFirst(@, r)]
remove_uninit(S) == [S EXCEPT !.sc.uninit = Tail(@)]
remove_empty(S) == [S EXCEPT !.sc.empty = Tail(@), !.sc.emptyCount = @ - 1]

(***************************************************************************)
(* SCAllocator::get_uninit: reuse an uninitialised record, or carve a new *)
(* one from PG_BUMP, and give it a run from the backend (allocate_page).  *)
(***************************************************************************)
GetUninit(S, b) ==
  LET fromList == S.sc.uninit # <<>>
      r == IF fromList THEN Head(S.sc.uninit) ELSE Min(S.fresh)
      S1 == IF fromList THEN remove_uninit(S) ELSE [S EXCEPT !.fresh = @ \ {r}]
  IN [st |-> [S1 EXCEPT !.pg[r] = [counter |-> 0, data |-> b, ptr |-> <<>>],
                       !.be = @ \ {b}],
      r  |-> r]

(***************************************************************************)
(* SCAllocator::get_empty: the head of the empty list, else get_uninit.   *)
(***************************************************************************)
GetEmpty(S, b) ==
  IF S.sc.empty # <<>>
  THEN [st |-> remove_empty(S), r |-> Head(S.sc.empty), newPage |-> FALSE]
  ELSE LET g == GetUninit(S, b) IN [st |-> g.st, r |-> g.r, newPage |-> TRUE]

\* get_empty would take a new run from the backend
NeedsRun(S) == S.sc.empty = <<>>

\* mutant: a partial page handed out is put on full without remove_partial
AllocateBatchKeepsPartial(S, al, b) ==
  IF S.sc.partial # <<>> /\ al = 1
  THEN LET r == Head(S.sc.partial)
           a == AllocateAll(S.pg[r])
       IN [st  |-> insert_full([S EXCEPT !.pg[r] = a.page], r),
           ans |-> a.ans]
  ELSE LET g  == GetEmpty(S, b)
           a  == AllocateAll(g.st.pg[g.r])
           st == insert_full([g.st EXCEPT !.pg[g.r] = a.page], g.r)
       IN [st  |-> IF g.newPage THEN [st EXCEPT !.rd = RdInsert(@, g.r, b)] ELSE st,
           ans |-> a.ans]

(***************************************************************************)
(* SCAllocator::allocate_batch_v2: a partial page when the caller asks for *)
(* no alignment, otherwise an empty or new page; the page moves to full.   *)
(***************************************************************************)
AllocateBatch(S, al, b) ==
  IF S.sc.partial # <<>> /\ al = 1
  THEN LET r == Head(S.sc.partial)
           a == AllocateAll(S.pg[r])
       IN [st  |-> insert_full(remove_partial([S EXCEPT !.pg[r] = a.page], r), r),
           ans |-> a.ans]
  ELSE LET g  == GetEmpty(S, b)
           a  == AllocateAll(g.st.pg[g.r])
           st == insert_full([g.st EXCEPT !.pg[g.r] = a.page], g.r)
       IN [st  |-> IF g.newPage THEN [st EXCEPT !.rd = RdInsert(@, g.r, b)] ELSE st,
           ans |-> a.ans]

\* allocate_batch_v2 takes a partial page
TakesPartial(S, al) == S.sc.partial # <<>> /\ al = 1

(***************************************************************************)
(* ObjectPage::deallocate: splice the leading cells of the chain that lie *)
(* in this page's run onto the page free list; returns how many.          *)
(***************************************************************************)
SegmentLen(chain, b) ==
  LET out == {i \in 2..Len(chain) : ~InRun(chain[i], b)}
  IN IF out = {} THEN Len(chain) ELSE Min(out) - 1

\* mutant: the counter drops by one per segment instead of its length
PageDeallocateDecOne(p, chain) ==
  LET n == SegmentLen(chain, p.data)
  IN [page |-> [p EXCEPT !.counter = @ - 1, !.ptr = SubSeq(chain, 1, n) \o @],
      n    |-> n]

PageDeallocate(p, chain) ==
  LET n == SegmentLen(chain, p.data)
  IN [page |-> [p EXCEPT !.counter = @ - n, !.ptr = SubSeq(chain, 1, n) \o @],
      n    |-> n]

\* mutant: the run goes back to the backend with its radix slots kept
InsertEtyKeepsSlots(S, r) ==
  IF S.sc.emptyCount > EmptyCap
  THEN [S EXCEPT !.sc.uninit = Append(@, r),
                 !.be = @ \cup {S.pg[r].data},
                 !.pg[r] = NoPage]
  ELSE [S EXCEPT !.sc.empty = Append(@, r), !.sc.emptyCount = @ + 1]

(***************************************************************************)
(* try_insert_ety + insert_ety: an emptied page goes to the empty list     *)
(* unless the list already holds more than EmptyCap pages; then its radix  *)
(* slots are cleared, the record goes to uninit and its run back to the    *)
(* backend (insert_uninit, destroy_page).                                  *)
(***************************************************************************)
InsertEty(S, r) ==
  IF S.sc.emptyCount > EmptyCap
  THEN [S EXCEPT !.rd = RdRemove(@, S.pg[r].data),
                 !.sc.uninit = Append(@, r),
                 !.be = @ \cup {S.pg[r].data},
                 !.pg[r] = NoPage]
  ELSE [S EXCEPT !.sc.empty = Append(@, r), !.sc.emptyCount = @ + 1]

(***************************************************************************)
(* SCAllocator::deallocate_batch: walk a cache list, one page at a time.   *)
(***************************************************************************)
RECURSIVE DeallocateBatch(_, _)
DeallocateBatch(S, chain) ==
  IF chain = <<>> THEN S
  ELSE
    LET r           == S.rd[chain[1] \div PageSize]
        backPartial == S.pg[r].counter >= PgCount
        d           == PageDeallocate(S.pg[r], chain)
        S1          == [S EXCEPT !.pg[r] = d.page]
        S2 == IF d.page.counter = 0
              THEN InsertEty(IF backPartial THEN remove_full(S1, r) ELSE remove_partial(S1, r), r)
              ELSE IF backPartial
                   THEN insert_partial(remove_full(S1, r), r)
                   ELSE S1
    IN DeallocateBatch(S2, SubSeq(chain, d.n + 1, Len(chain)))

CentralState == [sc |-> sc, pg |-> pg, rd |-> rd, be |-> be, fresh |-> fresh]

SetCentral(S) ==
  /\ sc' = S.sc /\ pg' = S.pg /\ rd' = S.rd /\ be' = S.be /\ fresh' = S.fresh

\* b is the run the backend returns when get_empty needs one, else NoRun;
\* PG_BUMP is bounded by Records
NewRunOk(al, b) ==
  IF ~TakesPartial(CentralState, al) /\ NeedsRun(CentralState)
  THEN b \in be /\ (sc.uninit # <<>> \/ fresh # {})
  ELSE b = NoRun

Acting(t) == phase[t] \in {"running", "torn"}

-----------------------------------------------------------------------------
Init ==
  /\ sc = [full |-> <<>>, partial |-> <<>>, empty |-> <<>>, uninit |-> <<>>, emptyCount |-> 0]
  /\ pg = [r \in Records |-> NoPage]
  /\ rd = [p \in Pages |-> 0]
  /\ be = RunBases
  /\ fresh = Records
  /\ tc = [t \in Threads |-> EmptyUnit]
  /\ live = {}
  /\ phase = [t \in Threads |-> "running"]

(***************************************************************************)
(* ThreadCache::allocate, case 1: an aligned cell from the cache list.     *)
(* Also reached after the cache destructor ran (phase torn): the           *)
(* thread-local pointer is never cleared, so later calls use the cache.   *)
(***************************************************************************)
AllocFromList(t, al) ==
  LET pop == PopAligned(tc[t].list, al)
  IN /\ Acting(t)
     /\ tc[t].len > 0
     /\ pop.found
     /\ tc' = [tc EXCEPT ![t].list = pop.list, ![t].len = @ - 1]
     /\ live' = live \cup {[addr |-> pop.cell, al |-> al]}
     /\ UNCHANGED <<sc, pg, rd, be, fresh, phase>>

\* case 1 does not return a cell
ListMisses(t, al) == tc[t].len = 0 \/ ~PopAligned(tc[t].list, al).found

(***************************************************************************)
(* ThreadCache::allocate, case 2: the first aligned cell of the bump      *)
(* remainder.                                                              *)
(***************************************************************************)
AllocFromBump(t, al) ==
  LET bt == BumpTake(tc[t], al)
  IN /\ Acting(t)
     /\ ListMisses(t, al)
     /\ bt.found
     /\ tc' = [tc EXCEPT ![t] = bt.unit]
     /\ live' = live \cup {[addr |-> bt.cell, al |-> al]}
     /\ UNCHANGED <<sc, pg, rd, be, fresh, phase>>

\* mutant: a linked refill sets the list length to n instead of n - 1
AllocRefillLenN(t, al, b) ==
  LET u   == BumpTake(tc[t], al).unit
      res == AllocateBatch(CentralState, al, b)
      ans == res.ans
  IN /\ Acting(t)
     /\ ListMisses(t, al)
     /\ ~BumpTake(tc[t], al).found
     /\ NewRunOk(al, b)
     /\ SetCentral(res.st)
     /\ IF ans.unit # 0
        THEN /\ tc' = [tc EXCEPT ![t] = [u EXCEPT !.bumpCount = ans.n - 1,
                                                   !.bumpUnit = ans.unit,
                                                   !.bumpPtr = ans.base + ans.unit]]
             /\ live' = live \cup {[addr |-> ans.base, al |-> al]}
        ELSE /\ tc' = [tc EXCEPT ![t] = [u EXCEPT !.list = Tail(ans.chain),
                                                   !.len = ans.n]]
             /\ live' = live \cup {[addr |-> Head(ans.chain), al |-> al]}
     /\ UNCHANGED phase

(***************************************************************************)
(* ThreadCache::allocate, case 3: the remainder held no aligned cell (its  *)
(* cells are now on the list); refill from the central allocator.  A      *)
(* contiguous batch becomes the bump remainder and its first cell is      *)
(* returned; a linked batch becomes the list.  b is the run the backend   *)
(* returns if a new page is needed.                                        *)
(***************************************************************************)
AllocRefill(t, al, b) ==
  LET u   == BumpTake(tc[t], al).unit
      res == AllocateBatch(CentralState, al, b)
      ans == res.ans
  IN /\ Acting(t)
     /\ ListMisses(t, al)
     /\ ~BumpTake(tc[t], al).found
     /\ NewRunOk(al, b)
     /\ SetCentral(res.st)
     /\ IF ans.unit # 0
        THEN /\ tc' = [tc EXCEPT ![t] = [u EXCEPT !.bumpCount = ans.n - 1,
                                                   !.bumpUnit = ans.unit,
                                                   !.bumpPtr = ans.base + ans.unit]]
             /\ live' = live \cup {[addr |-> ans.base, al |-> al]}
        ELSE /\ tc' = [tc EXCEPT ![t] = [u EXCEPT !.list = Tail(ans.chain),
                                                   !.len = ans.n - 1]]
             /\ live' = live \cup {[addr |-> Head(ans.chain), al |-> al]}
     /\ UNCHANGED phase

(***************************************************************************)
(* ThreadCache::deallocate: push the cell on the caller's cache list.  Any *)
(* thread may free any allocation; a torn thread still pushes on its dead  *)
(* cache.  The soft cap that would return half the list is dead code       *)
(* (return; before it).                                                    *)
(***************************************************************************)
Deallocate(t, x) ==
  /\ Acting(t)
  /\ x \in live
  /\ live' = live \ {x}
  /\ tc' = [tc EXCEPT ![t].list = <<x.addr>> \o @, ![t].len = @ + 1]
  /\ UNCHANGED <<sc, pg, rd, be, fresh, phase>>

(***************************************************************************)
(* free_thread_cache (the TLS destructor): clean_up pushes the bump        *)
(* remainder on the list and hands the list to deallocate_batch_to_slab.   *)
(***************************************************************************)
ThreadExit(t) ==
  LET cells == [j \in 1..tc[t].bumpCount |-> tc[t].bumpPtr + (j - 1) * tc[t].bumpUnit]
      list  == Reverse(cells) \o tc[t].list
  IN /\ phase[t] = "running"
     /\ SetCentral(IF tc[t].len + tc[t].bumpCount > 0
                   THEN DeallocateBatch(CentralState, list)
                   ELSE CentralState)
     /\ tc' = [tc EXCEPT ![t] = EmptyUnit]
     /\ phase' = [phase EXCEPT ![t] = "torn"]
     /\ UNCHANGED live

\* the thread has run its last destructor
ThreadGone(t) ==
  /\ phase[t] = "torn"
  /\ phase' = [phase EXCEPT ![t] = "gone"]
  /\ UNCHANGED <<sc, pg, rd, be, fresh, tc, live>>

\* every thread is gone: the process is over
Terminated ==
  /\ \A t \in Threads : phase[t] = "gone"
  /\ UNCHANGED vars

Next ==
  \/ \E t \in Threads, al \in Aligns :
       \/ AllocFromList(t, al)
       \/ AllocFromBump(t, al)
       \/ \E b \in be \cup {NoRun} : AllocRefill(t, al, b)
  \/ \E t \in Threads, x \in live : Deallocate(t, x)
  \/ \E t \in Threads : ThreadExit(t) \/ ThreadGone(t)
  \/ Terminated

Spec == Init /\ [][Next]_vars


-----------------------------------------------------------------------------
TypeOK ==
  /\ sc \in [full : Seq(Records), partial : Seq(Records), empty : Seq(Records),
             uninit : Seq(Records), emptyCount : Nat]
  /\ pg \in [Records -> [counter : 0..PgCount, data : RunBases \cup {0}, ptr : Seq(AllCells)]]
  /\ rd \in [Pages -> Records \cup {0}]
  /\ be \subseteq RunBases
  /\ fresh \subseteq Records
  /\ tc \in [Threads -> [list : Seq(AllCells), len : Nat, bumpPtr : Nat,
                         bumpCount : Nat, bumpUnit : Nat]]
  /\ live \subseteq [addr : AllCells, al : Aligns]
  /\ phase \in [Threads -> {"running", "torn", "gone"}]

\* how many times a cell is held outside the central allocator: by the
\* program, on a cache list, or in a bump remainder
BumpCells(u) == {u.bumpPtr + j * u.bumpUnit : j \in 0..u.bumpCount-1}
Occurrences(s, c) == Cardinality({i \in DOMAIN s : s[i] = c})
Held(c) ==
  Cardinality({x \in live : x.addr = c})
  + MapThenSumSet(LAMBDA t : Occurrences(tc[t].list, c) + (IF c \in BumpCells(tc[t]) THEN 1 ELSE 0),
                  Threads)

(***************************************************************************)
(* Cell accounting (spec: non-overlap, and the object page's counter      *)
(* equals the cells of its run that are handed out).  For every run held  *)
(* by a record, counter is the number of its cells held by the program or *)
(* by caches, and each cell is in exactly one place: held once, or on the *)
(* page free list once while the page is partial or full; cells of an     *)
(* empty page, and of runs back in the backend, are held nowhere.  Broken *)
(* by a wrong count in ObjectPage::deallocate, by a refill that drops a   *)
(* list, or by a cell handed out twice.                                    *)
(***************************************************************************)
CellAccounting ==
  /\ \A r \in Records : pg[r].data # 0 =>
       /\ pg[r].counter = MapThenSumSet(Held, RunCells(pg[r].data))
       /\ \A c \in RunCells(pg[r].data) :
            Held(c) + (IF pg[r].counter > 0 THEN Occurrences(pg[r].ptr, c) ELSE 0)
              = (IF pg[r].counter > 0 THEN 1 ELSE 0)
  /\ \A b \in be : \A c \in RunCells(b) : Held(c) = 0

\* the list a record sits on, by the record's counter
ListOf(r) ==
  IF pg[r].data = 0 THEN "uninit"
  ELSE IF pg[r].counter = 0 THEN "empty"
  ELSE IF pg[r].counter = PgCount THEN "full"
  ELSE "partial"

(***************************************************************************)
(* Page lifecycle (spec 3, CentralPage): every record PG_BUMP handed out   *)
(* is on exactly one of the full, partial, empty and uninit lists, the one *)
(* its counter and data say, and empty_count is the empty list's length.   *)
(* Broken when deallocate_batch moves a page to the wrong list or misses   *)
(* a move.                                                                 *)
(***************************************************************************)
PageListsMatchCounters ==
  /\ sc.emptyCount = Len(sc.empty)
  /\ \A r \in Records \ fresh :
       /\ Occurrences(sc.full, r) + Occurrences(sc.partial, r)
            + Occurrences(sc.empty, r) + Occurrences(sc.uninit, r) = 1
       /\ Occurrences(sc[ListOf(r)], r) = 1
  /\ \A r \in fresh : pg[r] = NoPage /\ Occurrences(sc.full \o sc.partial \o sc.empty \o sc.uninit, r) = 0

(***************************************************************************)
(* Radix-tree consistency and run ownership (spec 3, PageIndex): a page's  *)
(* slot names the record whose run covers the page, every page of a held  *)
(* run is mapped, and each run is either free in the backend or held by   *)
(* exactly one record.  Broken when a run goes back to the backend with   *)
(* its slots still naming the record.                                      *)
(***************************************************************************)
RadixConsistent ==
  /\ \A p \in Pages : rd[p] # 0 => p \in PagesOf(pg[rd[p]].data) /\ pg[rd[p]].data # 0
  /\ \A r \in Records : pg[r].data # 0 => \A p \in PagesOf(pg[r].data) : rd[p] = r
  /\ \A b \in RunBases :
       (IF b \in be THEN 1 ELSE 0) + Cardinality({r \in Records : pg[r].data = b}) = 1

(***************************************************************************)
(* Alignment (spec 8): every address the allocator returned satisfies the  *)
(* alignment it was asked for, whether it came from the list, the bump     *)
(* remainder or a refill.                                                  *)
(***************************************************************************)
AllocationsAligned == \A x \in live : IsAligned(x.addr, x.al)

(***************************************************************************)
(* A cache unit's length field counts the cells on its list.  The length  *)
(* of a refilled list is computed from the page counter (n - 1), not by    *)
(* walking the chain; the two must agree or pop and drain go wrong.        *)
(***************************************************************************)
CacheLengthMatchesList == \A t \in Threads : tc[t].len = Len(tc[t].list)

(***************************************************************************)
(* The class implements CellPool, the small path's promise: the program    *)
(* holds what it was handed and not yet freed, the class owns the runs its *)
(* records hold and the backend keeps the rest.  Each step is a CellPool   *)
(* step: a cell handed out (from a list, a bump remainder or a refill that *)
(* may take one run) is aligned, lies in a run the class owns and is not   *)
(* held already, by this thread or any other; a free keeps the runs; and   *)
(* a thread exit returns to the backend only runs none of whose cells the  *)
(* program still holds.  Broken by a batch that hands out a cell past its  *)
(* run, or a run released while one of its cells is held.                 *)
(***************************************************************************)
Pool == INSTANCE CellPool WITH
          Runs <- RunBases,
          held <- live,
          owned <- {pg[r].data : r \in Records} \ {0},
          free <- be

Refines == Pool!Spec

=============================================================================

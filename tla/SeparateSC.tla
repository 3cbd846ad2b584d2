------------------------------ MODULE SeparateSC ------------------------------
(***************************************************************************)
(* The bitfield slab allocator of one size class: SCAllocator of           *)
(* sc/separate_sc.rs over the ObjectPage of page/separate_page.rs and the  *)
(* ArrayLinkedList of collections/linklist.rs.                             *)
(*                                                                         *)
(* The page records live in one vector, each with its prev and next index, *)
(* and are threaded on four circular lists (full, partial, empty, uninit)  *)
(* given by a start index and a count.  A record's `counter' counts its    *)
(* cells handed out and its bitfield marks them; `data' is the run taken   *)
(* from the backend (0 = none).  The radix map sends each page of a run to *)
(* the record index + 1.  Every public method takes &mut self, so each     *)
(* call is one step; its helpers are operators on a record W of the        *)
(* allocator, the radix map and the backend, and a failed assert, expect   *)
(* or panic! is recorded in W.panic, after which nothing more happens.     *)
(*                                                                         *)
(* The model has one bitfield word per record (pg_count <= 32), one OS     *)
(* page per run (num_os_pages = 1), and the backend hands out its lowest   *)
(* free page.                                                              *)
(***************************************************************************)
EXTENDS Integers, Sequences, FiniteSets, FiniteSetsExt, SequencesExt, Bags

CONSTANTS
  SIZE_CLASS,   \* the class's cell size (SCAllocator::new's size_class)
  PAGE_SIZE,    \* crate::PAGE_SIZE
  EMPTY_CAP,    \* the 2048 of try_back_ety and back_ety
  PageAddrs,    \* page addresses the backend can hand out
  Aligns,       \* alignments callers pass to allocate and allocate_batch
  Counts,       \* counts callers pass to allocate_batch_v2 and deallocate_batch
  MaxHeld       \* bound on the cells the program holds at once

VARIABLES
  start,        \* [List -> Nat]: full_start, partial_start, empty_start, uninit_start
  count,        \* [List -> Nat]: full_count, partial_count, empty_count, uninit_count
  pages,        \* ArrayLinkedList<ObjectPage>: Seq of [prev, next, counter, data]
  bits,         \* bitfields: one word per record, as the set of its set bits
  rd,           \* the radix map: [PageAddrs -> Int], 0 = no entry
  bk,           \* pages free in the backend
  held,         \* the cells the program holds: a bag of addresses
  panic         \* "none", or the panic a call hit

vars == <<start, count, pages, bits, rd, bk, held, panic>>

Lists == {"full", "partial", "empty", "uninit"}
Null == 0
OOM == "allocate_page: backend out of memory"
WORD == 0 .. 31

RECURSIVE NextPow2(_, _)
NextPow2(n, p) == IF p >= n THEN p ELSE NextPow2(n, 2 * p)
IsPow2(n) == NextPow2(n, 1) = n

\* SCAllocator::new(size_class, 1): cells per run and the stride between them
pg_count == PAGE_SIZE \div SIZE_CLASS
perfect_align == PAGE_SIZE \div pg_count
min_align ==
  LET h == NextPow2(perfect_align - SIZE_CLASS, 1) \div 2 IN IF h = 0 THEN 1 ELSE h
pg_align ==
  IF IsPow2(perfect_align) THEN perfect_align
  ELSE IF SIZE_CLASS % min_align = 0 THEN SIZE_CLASS
  ELSE (SIZE_CLASS \div min_align + 1) * min_align

ASSUME SIZE_CLASS > 0 /\ pg_count \in 1 .. 32

Cells == {a + i * pg_align : a \in PageAddrs, i \in 0 .. pg_count - 1}

-----------------------------------------------------------------------------
(* ArrayLinkedList: records are 0-indexed; ps[i + 1] is record i.          *)
(***************************************************************************)
Prev(ps, i) == ps[i + 1].prev
Next1(ps, i) == ps[i + 1].next
set_prev(ps, c, v) == [ps EXCEPT ![c + 1].prev = v]
set_next(ps, c, v) == [ps EXCEPT ![c + 1].next = v]

reset_links(ps, i) == set_next(set_prev(ps, i, i), i, i)

remove_node(ps, i) ==
  LET p == Prev(ps, i)
      n == Next1(ps, i)
  IN reset_links(set_next(set_prev(ps, n, p), p, n), i)

insert_to_prev(ps, base, i) ==
  LET p == Prev(ps, base)
  IN set_prev(set_next(set_prev(set_next(ps, p, i), base, i), i, base), i, p)

-----------------------------------------------------------------------------
(* The allocator state as a record, and the panics.                        *)
(***************************************************************************)
W0 == [start |-> start, count |-> count, pages |-> pages, bits |-> bits,
       rd |-> rd, bk |-> bk, panic |-> panic]

Panic(w, why) == [w EXCEPT !.panic = IF @ = "none" THEN why ELSE @]

Rec(w, i) == w.pages[i + 1]
SetRec(w, i, f, v) == [w EXCEPT !.pages[i + 1][f] = v]

\* remove_full, remove_partial, remove_uninit (one shape, three lists)
\* mutant: removing the head leaves start on it
RemoveFromKeepStart(w, L, i) == [w EXCEPT !.pages = remove_node(@, i), !.count[L] = @ - 1]

RemoveFrom(w, L, i) ==
  LET w1 == IF i = w.start[L] THEN [w EXCEPT !.start[L] = Next1(w.pages, i)] ELSE w
  IN [w1 EXCEPT !.pages = remove_node(@, i), !.count[L] = @ - 1]

\* insert_full and insert_partial, and the list half of back_ety and back_uninit
InsertInto(w, L, i) ==
  IF w.count[L] = 0
  THEN [w EXCEPT !.start[L] = i, !.pages = reset_links(@, i), !.count[L] = 1]
  ELSE [w EXCEPT !.pages = insert_to_prev(@, w.start[L], i), !.count[L] = @ + 1]

remove_full(w, i) == RemoveFrom(w, "full", i)
remove_partial(w, i) == RemoveFrom(w, "partial", i)
remove_uninit(w, i) == RemoveFrom(w, "uninit", i)
insert_full(w, i) == InsertInto(w, "full", i)
insert_partial(w, i) == InsertInto(w, "partial", i)

-----------------------------------------------------------------------------
(* ObjectPage (page/separate_page.rs).                                     *)
(***************************************************************************)
\* allocate_page: a run from the backend, which must not be null
allocate_page(w, i) ==
  IF w.bk = {} THEN Panic(w, OOM)
  ELSE LET a == Min(w.bk) IN [SetRec(w, i, "data", a) EXCEPT !.bk = @ \ {a}]

\* destroy_page: the run back to the backend; a null run is a double free
destroy_page(w, i) ==
  IF Rec(w, i).data = Null THEN Panic(w, "destroy_page: double free")
  ELSE [SetRec(w, i, "data", Null) EXCEPT !.bk = @ \cup {Rec(w, i).data}]

TrailingOnes(bf) == Min({k \in 0 .. 32 : k \notin bf})

\* first_fit: the first free, aligned cell at or after the word's first zero,
\* until the index passes pg_count or the cell leaves the run; -1 = None
\* mutant: the scan ignores where the run ends
first_fit_unbounded(base, align, bf) ==
  LET cand == {k \in TrailingOnes(bf) .. 31 : k \notin bf /\ (base + k * pg_align) % align = 0}
  IN IF bf = WORD \/ cand = {} THEN -1 ELSE Min(cand)

first_fit(base, align, bf) ==
  LET stop(k) == k > pg_count \/ k * pg_align + pg_align > PAGE_SIZE
      fits(k) == k \notin bf /\ (base + k * pg_align) % align = 0
      cand == {k \in TrailingOnes(bf) .. 31 : ~stop(k) /\ fits(k)}
  IN IF bf = WORD \/ cand = {} THEN -1 ELSE Min(cand)

\* ObjectPage::allocate: one cell, or null when counter says full or none fits
PageAllocate(w, i, align) ==
  LET k == first_fit(Rec(w, i).data, align, w.bits[i + 1])
  IN IF Rec(w, i).counter >= pg_count \/ k = -1 THEN [w |-> w, ptr |-> Null]
     ELSE [w |-> [SetRec(w, i, "counter", Rec(w, i).counter + 1)
                    EXCEPT !.bits[i + 1] = @ \cup {k}],
           ptr |-> Rec(w, i).data + k * pg_align]

is_full(w, i) == pg_count <= Rec(w, i).counter
is_empty(w, i) == Rec(w, i).counter = 0

\* allocate_all: every bit of every word set, counter = pg_count
allocate_all(w, i) ==
  [SetRec(w, i, "counter", pg_count) EXCEPT !.bits[i + 1] = WORD]

\* ObjectPage::deallocate: clear the cell's bit; a clear bit is EDBFRE, which
\* SCAllocator::deallocate turns into a panic with expect
PageDeallocate(w, i, ptr) ==
  LET num == (ptr - Rec(w, i).data) \div pg_align
  IN IF num \div 32 > 0 THEN Panic(w, "deallocate: bitfield index out of range")
     ELSE IF num % 32 \notin w.bits[i + 1]
     THEN Panic(w, "deallocate: EDBFRE")
     ELSE [SetRec(w, i, "counter", Rec(w, i).counter - 1)
             EXCEPT !.bits[i + 1] = @ \ {num % 32}]

\* ObjectPage::deallocate_batch: clear the bits of the cells arr[j], arr[j+1],
\* ... up to the first that is not in this run (asserting each bit is set),
\* then take their number off counter
RECURSIVE PageFreeLoop(_, _, _, _, _)
PageFreeLoop(w, i, arr, j, ans) ==
  LET base == Rec(w, i).data
      num == (arr[j] - base) \div pg_align
  IN IF j > Len(arr) \/ arr[j] < base \/ arr[j] - base >= PAGE_SIZE
     THEN [w |-> w, ans |-> ans]
     ELSE IF num \div 32 > 0 \/ num % 32 \notin w.bits[i + 1]
     THEN [w |-> Panic(w, "deallocate_batch: bit not set"), ans |-> ans]
     ELSE PageFreeLoop([w EXCEPT !.bits[i + 1] = @ \ {num % 32}], i, arr, j + 1, ans + 1)

\* mutant: counter drops by one however many cells were freed
PageFreeSettleByOne(r, i) == [w |-> SetRec(r.w, i, "counter", Rec(r.w, i).counter - 1), ans |-> r.ans]
PageFreeSettle(r, i) == [w |-> SetRec(r.w, i, "counter", Rec(r.w, i).counter - r.ans), ans |-> r.ans]
PageDeallocateBatch(w, i, arr, j) == PageFreeSettle(PageFreeLoop(w, i, arr, j, 0), i)

\* ObjectPage::allocate_batch: from the word's first zero, hand out free cells
\* below pg_count into arr[st + 1], arr[st + 2], ... until cnt are handed out
RECURSIVE PageBatchLoop(_, _, _, _, _, _, _)
PageBatchLoop(w, i, arr, st, cnt, ff, n) ==
  IF ff >= 32 THEN [w |-> w, arr |-> arr, n |-> n]
  ELSE IF ff \in w.bits[i + 1] THEN PageBatchLoop(w, i, arr, st, cnt, ff + 1, n)
  ELSE IF ff >= pg_count THEN [w |-> w, arr |-> arr, n |-> n]
  ELSE LET w1 == [SetRec(w, i, "counter", Rec(w, i).counter + 1)
                    EXCEPT !.bits[i + 1] = @ \cup {ff}]
           a1 == [arr EXCEPT ![st + n + 1] = Rec(w, i).data + ff * pg_align]
       IN IF n + 1 >= cnt THEN [w |-> w1, arr |-> a1, n |-> n + 1]
          ELSE PageBatchLoop(w1, i, a1, st, cnt, ff + 1, n + 1)

PageAllocateBatch(w, i, arr, st, cnt) ==
  IF Rec(w, i).counter >= pg_count
  THEN [w |-> Panic(w, "allocate_batch: error tracing obj status"), arr |-> arr, n |-> 0]
  ELSE IF w.bits[i + 1] = WORD THEN [w |-> w, arr |-> arr, n |-> 0]
  ELSE PageBatchLoop(w, i, arr, st, cnt, TrailingOnes(w.bits[i + 1]), 0)

-----------------------------------------------------------------------------
(* SCAllocator's helpers (sc/separate_sc.rs).                              *)
(***************************************************************************)
\* get_uninit: a record from uninit (a new one pushed when there is none),
\* given a run; the Vec reservations are not modelled
get_uninit(w) ==
  LET idx == Len(w.pages)
      w1 == IF w.count["uninit"] = 0
            THEN [w EXCEPT !.pages = Append(@, [prev |-> idx, next |-> idx,
                                               counter |-> 0, data |-> Null]),
                           !.bits = Append(@, {}),
                           !.start["uninit"] = idx, !.count["uninit"] = @ + 1]
            ELSE w
      res == w1.start["uninit"]
      w2 == allocate_page(remove_uninit(w1, res), res)
  IN [w |-> w2, idx |-> res, new |-> Rec(w2, res).data]

\* get_empty: the head of empty, or a record from get_uninit with its new run
get_empty(w) ==
  IF w.count["empty"] > 0
  THEN LET res == w.start["empty"]
       IN [w |-> [w EXCEPT !.start["empty"] = Next1(w.pages, res),
                           !.pages = remove_node(@, res),
                           !.count["empty"] = @ - 1],
           idx |-> res, new |-> Null]
  ELSE get_uninit(w)

back_uninit(w, i) == destroy_page(InsertInto(w, "uninit", i), i)

try_back_ety(w, i) ==
  IF w.count["empty"] > EMPTY_CAP
  THEN IF Rec(w, i).data = Null THEN [w |-> Panic(w, "get_data_ptr: double free"), p |-> Null]
       ELSE [w |-> w, p |-> Rec(w, i).data]
  ELSE [w |-> w, p |-> Null]

back_ety(w, i) ==
  IF w.count["empty"] > EMPTY_CAP THEN back_uninit(w, i) ELSE InsertInto(w, "empty", i)

\* the radix entries of a run's pages (one page per run here)
handle_rd_tree_insert(w, i, addr) == [w EXCEPT !.rd[addr] = i + 1]
handle_rd_tree_remove(w, addr) == [w EXCEPT !.rd[addr] = 0]

\* a record that became empty: unmapped and returned when more than
\* EMPTY_CAP records are empty, otherwise put on empty
\* mutant: the run goes back to the backend with its radix entry left
RetireEmptyKeepRadix(w, i) == back_ety(try_back_ety(w, i).w, i)

RetireEmpty(w, i) ==
  LET t == try_back_ety(w, i)
  IN back_ety(IF t.p # Null THEN handle_rd_tree_remove(t.w, t.p) ELSE t.w, i)

\* the `if let Some(addr) = idx.1' tail of the allocation paths
RegisterNew(w, e) == IF e.new # Null THEN handle_rd_tree_insert(w, e.idx, e.new) ELSE w

align_12k(ptr) == ptr - (ptr % PAGE_SIZE)

ASSUME PAGE_SIZE = 4096

-----------------------------------------------------------------------------
(* SCAllocator's methods.                                                  *)
(***************************************************************************)
\* a record that got cells stays partial or, when that filled it, goes to full
PlaceByFill(w, i) == IF is_full(w, i) THEN insert_full(w, i) ELSE insert_partial(w, i)

\* the partial-list loop of allocate and allocate_batch: try each partial
\* record from head once round the circle; a record the cell fills moves to full
RECURSIVE PartialTry(_, _, _)
\* mutant: a record the cell fills stays on partial
PartialStepNoMove(r, head, align) ==
  IF r.ptr # Null THEN [w |-> r.w, ptr |-> r.ptr]
  ELSE IF Next1(r.w.pages, head) = r.w.start["partial"] THEN [w |-> r.w, ptr |-> Null]
  ELSE PartialTry(r.w, Next1(r.w.pages, head), align)
PartialStep(r, head, align) ==
  IF r.ptr # Null
  THEN [w |-> IF is_full(r.w, head) THEN insert_full(remove_partial(r.w, head), head)
              ELSE r.w,
        ptr |-> r.ptr]
  ELSE IF Next1(r.w.pages, head) = r.w.start["partial"] THEN [w |-> r.w, ptr |-> Null]
  ELSE PartialTry(r.w, Next1(r.w.pages, head), align)
PartialTry(w, head, align) == PartialStep(PageAllocate(w, head, align), head, align)

TryPartials(w, align) ==
  IF w.count["partial"] > 0 THEN PartialTry(w, w.start["partial"], align)
  ELSE [w |-> w, ptr |-> Null]

\* allocate(align): a partial record, else a record from get_empty; null = ENOMEM
AllocPlace(r, e) == [w |-> RegisterNew(PlaceByFill(r.w, e.idx), e), ptr |-> r.ptr]
AllocFresh(e, align) == AllocPlace(PageAllocate(e.w, e.idx, align), e)
AllocTail(p, align) == IF p.ptr # Null THEN p ELSE AllocFresh(get_empty(p.w), align)
allocate(w, align) == AllocTail(TryPartials(w, align), align)

\* allocate_batch(align): one cell of a partial record, or a whole record
\* from get_empty (allocate_all), returned as (ptr, pg_align, pg_count)
BatchWhole(e) ==
  [w |-> RegisterNew(PlaceByFill(allocate_all(e.w, e.idx), e.idx), e),
   cells |-> [k \in 1 .. pg_count |-> Rec(e.w, e.idx).data + (k - 1) * pg_align]]
BatchTail(p) ==
  IF p.ptr # Null THEN [w |-> p.w, cells |-> <<p.ptr>>] ELSE BatchWhole(get_empty(p.w))
allocate_batch(w, align) == BatchTail(TryPartials(w, align))

\* allocate_batch_v2's first loop: fill arr from the head of partial
RECURSIVE V2Partial(_, _, _, _)
V2PartialNext(w1, b, n, cnt) ==
  IF n + b.n = cnt THEN [w |-> w1, arr |-> b.arr, n |-> n + b.n]
  ELSE IF b.n = 0 THEN [w |-> Panic(w1, "allocate_batch_v2: loops for ever"), arr |-> b.arr, n |-> n]
  ELSE V2Partial(w1, b.arr, n + b.n, cnt)
V2PartialStep(b, cur, n, cnt) ==
  V2PartialNext(IF is_full(b.w, cur) THEN insert_full(remove_partial(b.w, cur), cur) ELSE b.w,
                b, n, cnt)
V2Partial(w, arr, n, cnt) ==
  IF w.panic # "none" \/ w.count["partial"] = 0 \/ n >= cnt THEN [w |-> w, arr |-> arr, n |-> n]
  ELSE V2PartialStep(PageAllocateBatch(w, w.start["partial"], arr, n, cnt - n),
                     w.start["partial"], n, cnt)

\* allocate_batch_v2's second loop: records from get_empty, whole (the next
\* pg_count slots of arr) or in part (ObjectPage::allocate_batch)
RECURSIVE V2Fresh(_, _, _, _)
V2FreshPart(b, e, n, cnt) ==
  V2Fresh(RegisterNew(insert_partial(b.w, e.idx), e), b.arr, n + b.n, cnt)
V2FreshStep(e, arr, n, cnt) ==
  IF cnt - n >= pg_count
  THEN V2Fresh(RegisterNew(insert_full(allocate_all(e.w, e.idx), e.idx), e),
               [k \in DOMAIN arr |-> IF n < k /\ k <= n + pg_count
                                     THEN Rec(e.w, e.idx).data + (k - n - 1) * pg_align
                                     ELSE arr[k]],
               n + pg_count, cnt)
  ELSE V2FreshPart(PageAllocateBatch(e.w, e.idx, arr, n, cnt - n), e, n, cnt)
V2Fresh(w, arr, n, cnt) ==
  IF w.panic # "none" \/ n >= cnt THEN [w |-> w, arr |-> arr, n |-> n]
  ELSE V2FreshStep(get_empty(w), arr, n, cnt)

\* allocate_batch_v2(arr, cnt) with arr of length cnt: one cell from
\* allocate(1) into arr[cnt], then cnt - 1 more into arr[1 .. cnt - 1]
V2Finish(f, cnt) ==
  IF f.n # cnt - 1 THEN [w |-> Panic(f.w, "allocate_batch_v2: allocated == count"), cells |-> <<>>]
  ELSE [w |-> f.w, cells |-> f.arr]
V2Loops(p, cnt) == V2Finish(V2Fresh(p.w, p.arr, p.n, cnt - 1), cnt)
V2Start(r, cnt) ==
  IF r.ptr = Null THEN [w |-> Panic(r.w, "allocate_batch_v2: alloc failed"), cells |-> <<>>]
  ELSE V2Loops(V2Partial(r.w, [k \in 1 .. cnt |-> IF k = cnt THEN r.ptr ELSE Null], 0, cnt - 1),
               cnt)
allocate_batch_v2(w, cnt) == V2Start(allocate(w, 1), cnt)

\* the list moves after cells of record idx were freed; wasFull is is_full
\* before the free
AfterFree(w, idx, wasFull) ==
  IF wasFull
  THEN LET w1 == remove_full(w, idx)
       IN IF is_empty(w1, idx) THEN RetireEmpty(w1, idx) ELSE insert_partial(w1, idx)
  ELSE IF is_empty(w, idx) THEN RetireEmpty(remove_partial(w, idx), idx)
  ELSE w

\* the record the radix map gives for a cell's page (radix value - 1)
RadixIdx(w, ptr) == w.rd[align_12k(ptr)] - 1

deallocate(w, ptr) ==
  LET idx == RadixIdx(w, ptr)
  IN IF idx < 0 THEN Panic(w, "deallocate: assert idx >= 0")
     ELSE IF idx >= Len(w.pages) THEN Panic(w, "deallocate: cannot getmut")
     ELSE LET w1 == PageDeallocate(w, idx, ptr)
          IN IF w1.panic # "none" THEN w1 ELSE AfterFree(w1, idx, is_full(w, idx))

\* deallocate_batch(arr, cnt) with cnt = Len(arr): page by page, each
\* ObjectPage::deallocate_batch taking the run of arr that lies in its page
RECURSIVE FreeBatchLoop(_, _, _, _)
FreeBatchStep(t, wasFull, idx, arr, d, cnt) ==
  IF t.ans = 0 THEN Panic(t.w, "deallocate_batch: assert_ne t 0")
  ELSE FreeBatchLoop(AfterFree(t.w, idx, wasFull), arr, d + t.ans, cnt)
FreeBatchLoop(w, arr, d, cnt) ==
  IF w.panic # "none" \/ d >= cnt THEN w
  ELSE LET idx == RadixIdx(w, arr[d + 1])
       IN IF idx < 0 \/ idx >= Len(w.pages) THEN Panic(w, "deallocate_batch: cannot getmut")
          ELSE FreeBatchStep(PageDeallocateBatch(w, idx, arr, d + 1), is_full(w, idx),
                             idx, arr, d, cnt)

deallocate_batch(w, arr) == FreeBatchLoop(w, arr, 0, Len(arr))

-----------------------------------------------------------------------------
Init ==
  /\ start = [L \in Lists |-> 0]
  /\ count = [L \in Lists |-> 0]
  /\ pages = <<>>
  /\ bits = <<>>
  /\ rd = [a \in PageAddrs |-> 0]
  /\ bk = PageAddrs
  /\ held = EmptyBag
  /\ panic = "none"

\* the end of a call: the new state, or the panic and nothing else
Commit(w, got, gone) ==
  IF w.panic # "none"
  THEN /\ panic' = w.panic
       /\ UNCHANGED <<start, count, pages, bits, rd, bk, held>>
  ELSE /\ start' = w.start
       /\ count' = w.count
       /\ pages' = w.pages
       /\ bits' = w.bits
       /\ rd' = w.rd
       /\ bk' = w.bk
       /\ held' = (held (+) ToBag(got)) (-) ToBag(gone)
       /\ UNCHANGED panic

\* the end of an allocation call, with the cell or cells it returned
CommitPtr(r) == Commit(r.w, IF r.ptr = Null THEN <<>> ELSE <<r.ptr>>, <<>>)
CommitCells(r) == Commit(r.w, r.cells, <<>>)

Room(n) == panic = "none" /\ BagCardinality(held) + n <= MaxHeld

Allocate(align) ==
  /\ Room(1)
  /\ CommitPtr(allocate(W0, align))

AllocateBatch(align) ==
  /\ Room(pg_count)
  /\ CommitCells(allocate_batch(W0, align))

AllocateBatchV2(cnt) ==
  /\ Room(cnt)
  /\ CommitCells(allocate_batch_v2(W0, cnt))

Deallocate(c) ==
  /\ panic = "none"
  /\ Commit(deallocate(W0, c), <<>>, <<c>>)

DeallocateBatch(arr) ==
  /\ panic = "none"
  /\ Commit(deallocate_batch(W0, arr), <<>>, arr)

\* after a panic the program is gone
Halted == panic # "none" /\ UNCHANGED vars

\* sequences of distinct held cells of the lengths in Counts
HeldSeqs ==
  UNION {{f \in [1 .. k -> BagToSet(held)] : \A x, y \in 1 .. k : x # y => f[x] # f[y]}
         : k \in Counts}

Next ==
  \/ \E al \in Aligns : Allocate(al) \/ AllocateBatch(al)
  \/ \E cnt \in Counts : AllocateBatchV2(cnt)
  \/ \E c \in BagToSet(held) : Deallocate(c)
  \/ \E arr \in HeldSeqs : DeallocateBatch(arr)
  \/ Halted

Spec == Init /\ [][Next]_vars

-----------------------------------------------------------------------------
Records == 0 .. Len(pages) - 1
DataPages == {pages[i + 1].data : i \in Records} \ {Null}

\* the records of list L, walked from its start along next, count[L] of them
RECURSIVE Walk(_, _)
Walk(i, k) == IF k = 0 THEN <<>> ELSE <<i>> \o Walk(Next1(pages, i), k - 1)
ListOf(L) == Walk(start[L], count[L])

\* the cells of record i that its bitfield marks handed out
Marked(i) == {k \in 0 .. pg_count - 1 : k \in bits[i + 1]}

TypeOK ==
  /\ start \in [Lists -> Nat] /\ count \in [Lists -> Nat]
  /\ \A i \in DOMAIN pages :
       pages[i] \in [prev : Records, next : Records, counter : 0 .. pg_count,
                    data : PageAddrs \cup {Null}]
  /\ Len(bits) = Len(pages) /\ \A i \in DOMAIN bits : bits[i] \subseteq WORD
  /\ rd \in [PageAddrs -> Int]
  /\ bk \subseteq PageAddrs
  /\ IsABag(held) /\ BagToSet(held) \subseteq Cells

\* No sequence of legal calls (frees of held cells only) makes a call hit
\* one of the allocator's assert!, expect or panic! paths, or loop for ever,
\* short of the backend refusing a page (allocate_page's assert_ne!):
\* every cell handed out is marked in the bitfield of the record the radix
\* map names for its page, and the list moves keep counters in step.
NoPanic == panic \in {"none", OOM}

\* The bitfields and counters say exactly which cells the program holds:
\* each held cell was handed out once and lies in a run some record owns,
\* and each owned record's counter is the number of its marked cells, which
\* are its held cells.
BitsMatchHeld ==
  /\ \A c \in BagToSet(held) : held[c] = 1
  /\ \A c \in BagToSet(held) : align_12k(c) \in DataPages
  /\ \A i \in Records : pages[i + 1].data # Null =>
       /\ pages[i + 1].counter = Cardinality(Marked(i))
       /\ Marked(i) = {k \in 0 .. pg_count - 1 :
                         pages[i + 1].data + k * pg_align \in BagToSet(held)}

\* The four circular lists are well linked and share the records out: each
\* walk visits distinct records and closes on its start, prev undoes next,
\* every record is on exactly one list, and the list matches the record's
\* state (full: counter = pg_count; partial: some but not all cells handed
\* out; empty: owns a run with no cell handed out; uninit: no run).
ListsPartitionRecords ==
  /\ \A L \in Lists : count[L] > 0 =>
       /\ start[L] \in Records
       /\ Cardinality(ToSet(ListOf(L))) = count[L]
       /\ Next1(pages, ListOf(L)[count[L]]) = start[L]
  /\ \A i \in Records : Prev(pages, Next1(pages, i)) = i
  /\ \A i \in Records : \E L \in Lists : i \in ToSet(ListOf(L))
  /\ \A L, M \in Lists : L # M => ToSet(ListOf(L)) \cap ToSet(ListOf(M)) = {}
  /\ \A i \in ToSet(ListOf("full")) : pages[i + 1].counter = pg_count
  /\ \A i \in ToSet(ListOf("partial")) : pages[i + 1].counter \in 1 .. pg_count - 1
  /\ \A i \in ToSet(ListOf("empty")) : pages[i + 1].counter = 0 /\ pages[i + 1].data # Null
  /\ \A i \in ToSet(ListOf("uninit")) : pages[i + 1].data = Null

\* The radix map names, for every page, the record that owns it, and nothing
\* for a page back in the backend; no page is both owned and free, or lost.
RadixMatchesRuns ==
  /\ \A i \in Records : pages[i + 1].data # Null => rd[pages[i + 1].data] = i + 1
  /\ \A a \in PageAddrs : rd[a] # 0 => a \in DataPages
  /\ bk \cap DataPages = {}
  /\ bk \cup DataPages = PageAddrs
=============================================================================

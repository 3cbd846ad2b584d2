----------------------------- MODULE SizeClass -----------------------------
(***************************************************************************)
(* Size classification (size_class/tc_size_class.rs, the tables compiled   *)
(* without fixed_heap) and the per-class run layout the zone derives from  *)
(* it (zone.rs ZoneAllocator::new, sc/efficient_sc.rs SCAllocator::new).   *)
(*                                                                         *)
(* get_sizeclass_tuple2 maps a request to Base(i) and SIZE_ARRAY[i], or to *)
(* Large(r) above MAX_SIZE.  The thread cache classifies every alloc and   *)
(* dealloc with it, frees with SIZE_CLASSES[i], and refills from slab i,   *)
(* whose cells are pg_align bytes apart in a run of SIZE_CLASS_PAGES[i]    *)
(* pages.  The state is one request and its classification; the spec      *)
(* sweeps every request from 0 to the first Large one, so the invariants   *)
(* below are checked for every size the small-object path can see.         *)
(* Tables are 0-indexed in the code and tuples are 1-indexed here: At(T, i) *)
(* is T[i] of the code.                                                    *)
(***************************************************************************)
EXTENDS Integers, Sequences

PAGE_SIZE == 4096
MAX_SIZE == 28032
MAX_ALLOC_SIZE == 28032

At(T, i) == T[i + 1]

\* IDX_ARRAY: request slot -> class index (8-byte slots up to 1024,
\* 128-byte slots above, shifted by 120)
IDX_ARRAY ==
  <<0, 1, 2, 3, 4, 5, 6, 7, 8, 9, 10, 11, 12, 13, 14, 15, 16, 17, 17, 18,
    18, 19, 19, 20, 20, 21, 21, 22, 22, 23, 23, 24, 24, 25, 25, 25, 26, 26, 26, 27,
    27, 27, 27, 27, 27, 28, 28, 28, 28, 29, 29, 29, 29, 29, 30, 30, 30, 30, 30, 30,
    30, 31, 31, 31, 31, 32, 32, 32, 32, 32, 32, 32, 32, 33, 33, 33, 33, 33, 33, 33,
    33, 34, 34, 34, 34, 34, 34, 34, 34, 35, 35, 35, 35, 35, 35, 35, 35, 35, 35, 35,
    35, 35, 35, 35, 35, 36, 36, 36, 36, 36, 36, 36, 36, 37, 37, 37, 37, 37, 37, 37,
    37, 37, 37, 37, 37, 37, 37, 37, 37, 38, 39, 40, 41, 42, 42, 43, 43, 44, 45, 46,
    47, 47, 47, 47, 48, 48, 49, 49, 49, 50, 50, 50, 50, 51, 51, 51, 51, 52, 52, 52,
    52, 52, 52, 53, 53, 53, 53, 53, 53, 53, 53, 53, 54, 54, 54, 54, 54, 54, 54, 54,
    54, 54, 54, 54, 54, 55, 55, 55, 55, 55, 55, 55, 55, 55, 56, 56, 56, 56, 56, 56,
    56, 56, 56, 56, 56, 56, 57, 57, 57, 57, 57, 57, 57, 57, 57, 57, 57, 57, 57, 57,
    57, 57, 57, 58, 58, 58, 58, 58, 58, 58, 59, 59, 59, 59, 59, 59, 59, 59, 59, 59,
    59, 59, 59, 59, 59, 59, 59, 59, 59, 60, 60, 60, 60, 60, 60, 60, 60, 60, 60, 60,
    60, 60, 60, 60, 60, 60, 60, 60, 60, 60, 61, 61, 61, 61, 61, 61, 61, 61, 61, 61,
    61, 61, 61, 61, 61, 61, 61, 61, 61, 61, 61, 62, 62, 62, 62, 62, 62, 62, 62, 62,
    62, 62, 62, 62, 62, 62, 62, 62, 62, 62, 62, 62, 62, 63, 63, 63, 63, 63, 63, 63,
    63, 63, 63, 63, 63, 63, 63, 63, 63, 63, 63, 63, 63, 63, 63, 63, 63, 63, 63, 63>>

\* SIZE_ARRAY: class index -> rounded size, used by get_sizeclass_tuple2
SIZE_ARRAY ==
  <<0, 8, 16, 24, 32, 40, 48, 56, 64, 72, 80, 88, 96, 104, 112, 120,
    128, 144, 160, 176, 192, 208, 224, 240, 256, 280, 304, 352, 384, 424, 480, 512,
    576, 640, 704, 832, 896, 1024, 1152, 1280, 1408, 1536, 1792, 2048, 2176, 2304, 2432, 2944,
    3200, 3584, 4096, 4608, 5376, 6528, 8192, 9344, 10880, 13056, 13952, 16384, 19072, 21760, 24576, 28032>>

\* SIZE_CLASSES: class index -> rounded size, used by get_rounded_size_by_idx
SIZE_CLASSES ==
  <<0, 8, 16, 24, 32, 40, 48, 56, 64, 72, 80, 88, 96, 104, 112, 120,
    128, 144, 160, 176, 192, 208, 224, 240, 256, 280, 304, 352, 384, 424, 480, 512,
    576, 640, 704, 832, 896, 1024, 1152, 1280, 1408, 1536, 1792, 2048, 2176, 2304, 2432, 2944,
    3200, 3584, 4096, 4608, 5376, 6528, 8192, 9344, 10880, 13056, 13952, 16384, 19072, 21760, 24576, 28032>>

\* SIZE_CLASS_PAGES: class index -> OS pages per run
SIZE_CLASS_PAGES ==
  <<0, 1, 1, 1, 1, 1, 1, 1, 1, 1, 1, 1, 1, 1, 1, 1, 1, 1, 1, 1, 1, 1, 1, 1, 2, 2, 2, 2, 2, 2, 2, 4,
    4, 4, 4, 4, 4, 8, 8, 8, 8, 8, 8, 16, 16, 16, 16, 16, 16, 16, 32, 32, 32, 32, 64, 64, 64, 64, 64, 64, 64, 64, 64, 64>>

\* the upper bounds of the Base arms of get_size_class_index, in order
MatchUpper ==
  <<8, 16, 24, 32, 40, 48, 56, 64, 72, 80, 88, 96, 104, 112, 120, 128,
    144, 160, 176, 192, 208, 224, 240, 256, 280, 304, 352, 384, 424, 480, 512, 576,
    640, 704, 832, 896, 1024, 1152, 1280, 1408, 1536, 1792, 2048, 2176, 2304, 2432, 2944, 3200,
    3584, 4096, 4608, 5376, 6528, 8192, 9344, 10880, 13056, 13952, 16384, 19072, 21760, 24576, 28032>>

\* mutant: the 128-byte slot of the large branch rounds down (126, not 127)
get_sizeclass_tuple2_RoundDown(r) ==
  IF r <= 1024
  THEN LET i == At(IDX_ARRAY, (r + 7) \div 8)
       IN [kind |-> "Base", idx |-> i, size |-> At(SIZE_ARRAY, i)]
  ELSE IF r <= MAX_SIZE
  THEN LET i == At(IDX_ARRAY, (r + 126 + 120 * 128) \div 128)
       IN [kind |-> "Base", idx |-> i, size |-> At(SIZE_ARRAY, i)]
  ELSE [kind |-> "Large", idx |-> r, size |-> r]

\* mutant: the index is returned in the deprecated match's numbering
\* shifted by one (new_size_idx + 1), with the size of the right class
get_sizeclass_tuple2_MatchIndex(r) ==
  IF r <= 1024
  THEN LET i == At(IDX_ARRAY, (r + 7) \div 8)
       IN [kind |-> "Base", idx |-> i + 1, size |-> At(SIZE_ARRAY, i)]
  ELSE IF r <= MAX_SIZE
  THEN LET i == At(IDX_ARRAY, (r + 127 + 120 * 128) \div 128)
       IN [kind |-> "Base", idx |-> i + 1, size |-> At(SIZE_ARRAY, i)]
  ELSE [kind |-> "Large", idx |-> r, size |-> r]

\* get_sizeclass_tuple2: the dense table for r <= 1024 (8-byte stride), the
\* 128-byte-stride part of the same table with an offset of 120 above it
get_sizeclass_tuple2(r) ==
  IF r <= 1024
  THEN LET i == At(IDX_ARRAY, (r + 7) \div 8)
       IN [kind |-> "Base", idx |-> i, size |-> At(SIZE_ARRAY, i)]
  ELSE IF r <= MAX_SIZE
  THEN LET i == At(IDX_ARRAY, (r + 127 + 120 * 128) \div 128)
       IN [kind |-> "Base", idx |-> i, size |-> At(SIZE_ARRAY, i)]
  ELSE [kind |-> "Large", idx |-> r, size |-> r]

get_size_class(r) == get_sizeclass_tuple2(r)

get_rounded_size_by_idx(i) == At(SIZE_CLASSES, i)

get_num_pages_by_idx(i) == At(SIZE_CLASS_PAGES, i)

\* get_size_class_index (the deprecated match): arm k covers
\* MatchUpper[k-1] + 1 .. MatchUpper[k], the first arm starts at 0
get_size_class_index(r) ==
  IF r <= MAX_SIZE
  THEN [kind |-> "Base",
        idx |-> CHOOSE k \in 0..Len(MatchUpper)-1 :
                  r <= At(MatchUpper, k) /\ (k = 0 \/ r > At(MatchUpper, k - 1))]
  ELSE [kind |-> "Large", idx |-> r]

RECURSIVE next_power_of_two(_, _)
next_power_of_two(n, p) == IF p >= n THEN p ELSE next_power_of_two(n, 2 * p)

is_power_of_two(n) == n > 0 /\ next_power_of_two(n, 1) = n

\* mutant: the cell count is rounded up instead of down
SCNewCountCeil(size, pages) ==
  IF size = 0 THEN [pg_count |-> 0, pg_num |-> 0, pg_align |-> 0]
  ELSE
    LET count    == (PAGE_SIZE * pages + size - 1) \div size
        perfect  == (PAGE_SIZE * pages) \div count
        diff     == perfect - size
        minAlign == IF next_power_of_two(diff, 1) \div 2 = 0
                    THEN 1 ELSE next_power_of_two(diff, 1) \div 2
        rem      == IF size % minAlign = 0 THEN size
                    ELSE (size \div minAlign + 1) * minAlign
    IN [pg_count |-> count, pg_num |-> pages,
        pg_align |-> IF is_power_of_two(perfect) THEN perfect ELSE rem]

\* SCAllocator::new(size_class, num_os_pages): cells per run and their stride
SCNew(size, pages) ==
  IF size = 0 THEN [pg_count |-> 0, pg_num |-> 0, pg_align |-> 0]
  ELSE
    LET count    == (PAGE_SIZE * pages) \div size
        perfect  == (PAGE_SIZE * pages) \div count
        diff     == perfect - size
        minAlign == IF next_power_of_two(diff, 1) \div 2 = 0
                    THEN 1 ELSE next_power_of_two(diff, 1) \div 2
        rem      == IF size % minAlign = 0 THEN size
                    ELSE (size \div minAlign + 1) * minAlign
    IN [pg_count |-> count, pg_num |-> pages,
        pg_align |-> IF is_power_of_two(perfect) THEN perfect ELSE rem]

\* ZoneAllocator::new: one SCAllocator per class index
ZoneNew == [i \in 0..Len(SIZE_CLASSES)-1 |->
              SCNew(get_rounded_size_by_idx(i), get_num_pages_by_idx(i))]

-----------------------------------------------------------------------------
VARIABLES
  req,     \* the request size being classified
  out,     \* get_size_class(req)
  slabs    \* GLOBAL_ZONE's slab layouts

vars == <<req, out, slabs>>

\* the first request may have any size
Init ==
  /\ slabs = ZoneNew
  /\ req \in 0..MAX_SIZE + 1
  /\ out = get_size_class(req)

\* ThreadCache::allocate / deallocate classify the next request size
Classify ==
  /\ req <= MAX_SIZE
  /\ req' = req + 1
  /\ out' = get_size_class(req + 1)
  /\ UNCHANGED slabs

\* every size up to the first Large request has been classified
Swept == req = MAX_SIZE + 1 /\ UNCHANGED vars

Next == Classify \/ Swept

Spec == Init /\ [][Next]_vars

-----------------------------------------------------------------------------
\* The class index a small request gets stays inside the 64 entries of
\* ThreadCache::list and of the zone's slabs that allocate indexes with it.
TypeOK ==
  /\ req \in 0..MAX_SIZE + 1
  /\ out.kind \in {"Base", "Large"}
  /\ out.kind = "Base" => out.idx \in 0..Len(SIZE_ARRAY)-1
  /\ DOMAIN slabs = 0..Len(SIZE_CLASSES)-1

\* the least class size that holds r
LeastFit(r) == CHOOSE s \in {At(SIZE_ARRAY, i) : i \in 0..Len(SIZE_ARRAY)-1} :
                 s >= r /\ \A i \in 0..Len(SIZE_ARRAY)-1 : At(SIZE_ARRAY, i) >= r => s <= At(SIZE_ARRAY, i)

(***************************************************************************)
(* Classification (spec 4.1): a request up to MAX_SIZE gets the least      *)
(* class whose rounded size holds it; the class index agrees with the      *)
(* deprecated match table (whose indices start one lower: its Base(0) is   *)
(* 1..8); the size ThreadCache::deallocate frees with                      *)
(* (get_rounded_size_by_idx, SIZE_CLASSES) is the size allocate rounded to *)
(* (SIZE_ARRAY); class 0 is exactly the zero-size request that             *)
(* ThreadCache::allocate answers with a fixed address.  Broken by an off-  *)
(* by-one in either index formula, a wrong offset at the 1024 seam, or a   *)
(* table entry out of step.                                                *)
(***************************************************************************)
Classification ==
  \/ /\ req > MAX_SIZE
     /\ out = [kind |-> "Large", idx |-> req, size |-> req]
  \/ /\ req <= MAX_SIZE
     /\ out.kind = "Base"
     /\ out.size = LeastFit(req)
     /\ out.size = get_rounded_size_by_idx(out.idx)
     /\ (out.idx = 0) = (req = 0)
     /\ req > 0 => out.idx = get_size_class_index(req).idx + 1

(***************************************************************************)
(* Cells fit their run: the slab ThreadCacheUnit::allocate refills from    *)
(* for a request's class lays out pg_count >= 1 cells, pg_align >= req     *)
(* bytes apart (so a cell holds the request and cells do not overlap), and *)
(* the last cell ends inside the run of get_num_pages_by_idx pages that    *)
(* allocate_batch_v2 takes from the backend.                               *)
(***************************************************************************)
CellFitsRun ==
  (out.kind = "Base" /\ out.idx > 0) =>
    LET s == slabs[out.idx]
    IN /\ s.pg_count >= 1
       /\ s.pg_align >= req
       /\ s.pg_count * s.pg_align <= PAGE_SIZE * get_num_pages_by_idx(out.idx)
=============================================================================

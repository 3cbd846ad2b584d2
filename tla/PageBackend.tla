---------------------------- MODULE PageBackend ----------------------------
(***************************************************************************)
(* The page backend (freelist/mod.rs FreeList, freelist/bump.rs BumpAlloc) *)
(* used as GlobalBackend.  Pages are numbered; a run is [b, n], pages b .. *)
(* b + n - 1.  lists[k] holds the bases of free runs of k + 1 pages, head  *)
(* first; the radix slot of the first and the last page of a listed run   *)
(* holds the marker -(k + 1) (the code stores it shifted left by 48 and    *)
(* decodes it with -(v >> 48); the model keeps the decoded tag).           *)
(*                                                                         *)
(* Each list is behind its own spin mutex and BUMP behind another; a       *)
(* thread holds at most one of them at a time, so each locked section      *)
(* (remove_one, remove_spec_one, insert_one, BumpAlloc::alloc) is one      *)
(* atomic step.  FreeList::free reads the neighbours' markers with no lock *)
(* held: those reads are steps of their own.                               *)
(***************************************************************************)
EXTENDS Integers, Sequences, SequencesExt, FiniteSets

CONSTANTS
  Threads,      \* threads calling the backend (model values)
  Sizes,        \* run lengths requested, in pages
  MaxPage,      \* BACKEND_MAX_PAGE: lists 0 .. MaxPage - 1
  ResPages,     \* BumpAlloc::DEFAULT_SIZE, in pages
  RegionBases,  \* the bases successive mmap calls return (a sequence)
  MmapMayFail,  \* whether mmap may return MAP_FAILED
  Ops           \* operations per thread (bound)

VARIABLES
  lists,    \* FreeList.lists: list k -> sequence of run bases
  rd,       \* radix leaf slots of the backend's pages: marker tag or 0
  bump,     \* BUMP: [cp |-> check_point, cur |-> current]
  mmaps,    \* mmap calls made so far
  mapped,   \* pages currently mapped
  held,     \* runs handed out to callers and not yet freed
  th        \* each thread's operation in progress

vars == <<lists, rd, bump, mmaps, mapped, held, th>>

Addrs == 0 .. (Max(Range(RegionBases)) + ResPages)
Run(b, n) == [b |-> b, n |-> n]
RunPages(r) == r.b .. r.b + r.n - 1
Interval(lo, hi) == lo .. hi - 1

\* a radix lookup; pages outside the model read as unmapped slots
Slot(p) == IF p \in DOMAIN rd THEN rd[p] ELSE 0

\* -(v >> 48): the run length a marker announces, 0 for other slots
Flag(v) == IF v < 0 THEN -v ELSE 0

Idle == [pc |-> "idle", n |-> 0, org |-> 0, j |-> 0, ptr |-> 0,
         fptr |-> 0, fidx |-> 0, start |-> 0, k |-> 0, ops |-> Ops]

\* mutant: the marker is written at the first page only
InsertOneHeadOnly(L, m, k, b) ==
  [lists |-> [L EXCEPT ![k] = <<b>> \o @],
   rd    |-> [m EXCEPT ![b] = -(k + 1)]]

(***************************************************************************)
(* FreeList::insert_one: push the run before the head of lists[k] and     *)
(* write its markers at its first and last page.                           *)
(***************************************************************************)
InsertOne(L, m, k, b) ==
  [lists |-> [L EXCEPT ![k] = <<b>> \o @],
   rd    |-> [m EXCEPT ![b] = -(k + 1), ![b + k] = -(k + 1)]]

\* mutant: the head is returned but the list head is not advanced
RemoveOneKeepsHead(k) ==
  IF lists[k] = <<>> THEN [got |-> FALSE, ptr |-> 0, lists |-> lists, rd |-> rd]
  ELSE [got |-> TRUE, ptr |-> Head(lists[k]), lists |-> lists, rd |-> rd]

(***************************************************************************)
(* FreeList::remove_one: take the head of lists[k] and clear its markers. *)
(***************************************************************************)
RemoveOne(k) ==
  IF lists[k] = <<>> THEN [got |-> FALSE, ptr |-> 0, lists |-> lists, rd |-> rd]
  ELSE LET b == Head(lists[k])
       IN [got |-> TRUE, ptr |-> b,
           lists |-> [lists EXCEPT ![k] = Tail(@)],
           rd |-> [rd EXCEPT ![b] = 0, ![b + k] = 0]]

\* the list holding a free run, and the node after it (target.next)
ListOf(b) == CHOOSE k \in 0..MaxPage-1 : \E i \in 1..Len(lists[k]) : lists[k][i] = b
NextNode(b) ==
  LET L == lists[ListOf(b)]
      i == CHOOSE i \in 1..Len(L) : L[i] = b
  IN IF i < Len(L) THEN L[i + 1] ELSE 0
Listed(b) == \E k \in 0..MaxPage-1 : \E i \in 1..Len(lists[k]) : lists[k][i] = b

\* mutant: a neighbour is accepted whenever it is linked in some list
SpecAcceptsLinked(b) == Flag(Slot(b)) > 0 /\ Listed(b)

(***************************************************************************)
(* remove_spec_one's test: under the lock, the slot at the neighbour's    *)
(* start is still a marker and target.next == target.  On a list whose     *)
(* last node's next is None this only holds for a node linked twice.       *)
(***************************************************************************)
SpecAccepts(b) == Flag(Slot(b)) > 0 /\ Listed(b) /\ NextNode(b) = b

\* remove_spec_one on success: unlink the node and clear its markers
RemoveSpecOne(k, b) ==
  [lists |-> [lists EXCEPT ![ListOf(b)] = SelectSeq(@, LAMBDA x : x # b)],
   rd    |-> [rd EXCEPT ![b] = 0, ![b + k] = 0]]

-----------------------------------------------------------------------------
Init ==
  /\ lists = [k \in 0..MaxPage-1 |-> <<>>]
  /\ rd = [p \in Addrs |-> 0]
  /\ bump = [cp |-> 0, cur |-> 0]
  /\ mmaps = 0
  /\ mapped = {}
  /\ held = {}
  /\ th = [t \in Threads |-> Idle]

\* the caller receives the run; the operation is over
Done(t, r) ==
  /\ held' = held \cup {r}
  /\ th' = [th EXCEPT ![t] = [Idle EXCEPT !.ops = th[t].ops - 1]]

(***************************************************************************)
(* FreeList::alloc: origin_size = pages - 1; lists below MaxPage are       *)
(* tried first, larger requests go straight to BUMP.                       *)
(***************************************************************************)
AllocBegin(t, n) ==
  /\ th[t].pc = "idle"
  /\ th[t].ops > 0
  /\ th' = [th EXCEPT ![t].pc = IF n - 1 < MaxPage THEN "a_own" ELSE "a_bump",
                      ![t].n = n, ![t].org = n - 1]
  /\ UNCHANGED <<lists, rd, bump, mmaps, mapped, held>>

\* remove_one(origin_size); on a miss the parent loop starts at origin + 1
AllocOwn(t) ==
  LET res == RemoveOne(th[t].org)
  IN /\ th[t].pc = "a_own"
     /\ lists' = res.lists
     /\ rd' = res.rd
     /\ IF res.got
        THEN Done(t, Run(res.ptr, th[t].n))
        ELSE /\ th' = [th EXCEPT ![t].j = th[t].org + 1,
                                 ![t].pc = IF th[t].org + 1 < MaxPage THEN "a_parent" ELSE "a_bump"]
             /\ UNCHANGED held
     /\ UNCHANGED <<bump, mmaps, mapped>>

\* one turn of the parent loop: remove_one(parent_idx)
AllocParent(t) ==
  LET res == RemoveOne(th[t].j)
  IN /\ th[t].pc = "a_parent"
     /\ lists' = res.lists
     /\ rd' = res.rd
     /\ th' = IF res.got
              THEN [th EXCEPT ![t].pc = "a_split", ![t].ptr = res.ptr]
              ELSE [th EXCEPT ![t].j = @ + 1,
                              ![t].pc = IF th[t].j + 1 < MaxPage THEN "a_parent" ELSE "a_bump"]
     /\ UNCHANGED <<bump, mmaps, mapped, held>>

\* mutant: the remainder starts at ptr + origin_size, one page early
AllocSplitOffByOne(t) ==
  LET u   == th[t]
      ins == InsertOne(lists, rd, u.j - u.org - 1, u.ptr + u.org)
  IN /\ u.pc = "a_split"
     /\ lists' = ins.lists
     /\ rd' = ins.rd
     /\ Done(t, Run(u.ptr, u.n))
     /\ UNCHANGED <<bump, mmaps, mapped>>

\* the parent's tail past the request goes back as a run of j - origin pages
AllocSplit(t) ==
  LET u   == th[t]
      ins == InsertOne(lists, rd, u.j - u.org - 1, u.ptr + u.org + 1)
  IN /\ u.pc = "a_split"
     /\ lists' = ins.lists
     /\ rd' = ins.rd
     /\ Done(t, Run(u.ptr, u.n))
     /\ UNCHANGED <<bump, mmaps, mapped>>

(***************************************************************************)
(* BumpAlloc::alloc under BUMP's lock: when the request does not fit      *)
(* above check_point, init unmaps the unused rest of the reservation and  *)
(* maps a fresh one; a failed mmap leaves start = 0.  The run is cut from *)
(* the top; checked_sub failing is an error and alloc returns null.        *)
(***************************************************************************)
AllocBump(t) ==
  LET n == th[t].n
      refill == bump.cp + n > bump.cur
  IN /\ th[t].pc = "a_bump"
     /\ refill => mmaps < Len(RegionBases)
     /\ \E fail \in (IF refill /\ MmapMayFail THEN BOOLEAN ELSE {FALSE}) :
          LET start == IF fail THEN 0 ELSE RegionBases[mmaps + 1]
              b     == IF refill THEN [cp |-> start, cur |-> start + ResPages] ELSE bump
          IN /\ mmaps' = IF refill THEN mmaps + 1 ELSE mmaps
             /\ mapped' = IF refill
                          THEN (mapped \ Interval(bump.cp, bump.cur))
                               \cup (IF fail THEN {} ELSE Interval(start, start + ResPages))
                          ELSE mapped
             /\ IF b.cur - n >= 0
                THEN /\ bump' = [b EXCEPT !.cur = b.cur - n]
                     /\ Done(t, Run(b.cur - n, n))
                ELSE /\ bump' = b
                     /\ th' = [th EXCEPT ![t] = [Idle EXCEPT !.ops = th[t].ops - 1]]
                     /\ UNCHANGED held
     /\ UNCHANGED <<lists, rd>>

(***************************************************************************)
(* FreeList::free, first step: the caller returns a run it holds.          *)
(***************************************************************************)
FreeBegin(t, r) ==
  /\ th[t].pc = "idle"
  /\ th[t].ops > 0
  /\ r \in held
  /\ held' = held \ {r}
  /\ th' = [th EXCEPT ![t].pc = "f_prev", ![t].n = r.n, ![t].org = r.n - 1,
                      ![t].ptr = r.b, ![t].fptr = r.b, ![t].fidx = r.n - 1]
  /\ UNCHANGED <<lists, rd, bump, mmaps, mapped>>

\* read the marker of the page before the run, with no lock held
FreePrev(t) ==
  LET pflag == Flag(Slot(th[t].ptr - 1))
  IN /\ th[t].pc = "f_prev"
     /\ th' = IF pflag > 0
              THEN [th EXCEPT ![t].pc = "f_prevrm", ![t].k = pflag,
                              ![t].start = th[t].ptr - pflag]
              ELSE [th EXCEPT ![t].pc = "f_next"]
     /\ UNCHANGED <<lists, rd, bump, mmaps, mapped, held>>

\* remove_spec_one(pflag - 1, start) under that list's lock
FreePrevRm(t) ==
  LET u == th[t]
  IN /\ u.pc = "f_prevrm"
     /\ IF SpecAccepts(u.start)
        THEN LET res == RemoveSpecOne(u.k - 1, u.start)
             IN /\ lists' = res.lists /\ rd' = res.rd
                /\ th' = [th EXCEPT ![t].fptr = u.start, ![t].fidx = @ + u.k,
                                    ![t].pc = "f_next"]
        ELSE /\ th' = [th EXCEPT ![t].pc = "f_next"]
             /\ UNCHANGED <<lists, rd>>
     /\ UNCHANGED <<bump, mmaps, mapped, held>>

\* read the marker of the page after the run (original size), no lock held
FreeNext(t) ==
  LET nflag == Flag(Slot(th[t].ptr + th[t].org + 1))
  IN /\ th[t].pc = "f_next"
     /\ th' = IF nflag > 0
              THEN [th EXCEPT ![t].pc = "f_nextrm", ![t].k = nflag,
                              ![t].start = th[t].ptr + th[t].org + 1]
              ELSE [th EXCEPT ![t].pc = "f_ins"]
     /\ UNCHANGED <<lists, rd, bump, mmaps, mapped, held>>

\* remove_spec_one(nflag - 1, next) under that list's lock
FreeNextRm(t) ==
  LET u == th[t]
  IN /\ u.pc = "f_nextrm"
     /\ IF SpecAccepts(u.start)
        THEN LET res == RemoveSpecOne(u.k - 1, u.start)
             IN /\ lists' = res.lists /\ rd' = res.rd
                /\ th' = [th EXCEPT ![t].fidx = @ + u.k, ![t].pc = "f_ins"]
        ELSE /\ th' = [th EXCEPT ![t].pc = "f_ins"]
             /\ UNCHANGED <<lists, rd>>
     /\ UNCHANGED <<bump, mmaps, mapped, held>>

\* mutant: runs of exactly BACKEND_MAX_PAGE + 1 pages are inserted, not unmapped
FreeInsertLe(t) ==
  LET u == th[t]
  IN /\ u.pc = "f_ins"
     /\ IF u.fidx <= MaxPage
        THEN LET ins == InsertOne(lists, rd, u.fidx, u.fptr)
             IN /\ lists' = ins.lists /\ rd' = ins.rd /\ UNCHANGED mapped
        ELSE /\ mapped' = mapped \ RunPages(Run(u.fptr, u.fidx + 1))
             /\ UNCHANGED <<lists, rd>>
     /\ th' = [th EXCEPT ![t] = [Idle EXCEPT !.ops = u.ops - 1]]
     /\ UNCHANGED <<bump, mmaps, held>>

\* insert_one(final_idx, final_ptr), or munmap when the run is too long
FreeInsert(t) ==
  LET u == th[t]
  IN /\ u.pc = "f_ins"
     /\ IF u.fidx < MaxPage
        THEN LET ins == InsertOne(lists, rd, u.fidx, u.fptr)
             IN /\ lists' = ins.lists /\ rd' = ins.rd /\ UNCHANGED mapped
        ELSE /\ mapped' = mapped \ RunPages(Run(u.fptr, u.fidx + 1))
             /\ UNCHANGED <<lists, rd>>
     /\ th' = [th EXCEPT ![t] = [Idle EXCEPT !.ops = u.ops - 1]]
     /\ UNCHANGED <<bump, mmaps, held>>

\* every thread has used its operations
Finished ==
  /\ \A t \in Threads : th[t].pc = "idle" /\ th[t].ops = 0
  /\ UNCHANGED vars

Next ==
  \/ \E t \in Threads :
       \/ \E n \in Sizes : AllocBegin(t, n)
       \/ AllocOwn(t) \/ AllocParent(t) \/ AllocSplit(t) \/ AllocBump(t)
       \/ \E r \in held : FreeBegin(t, r)
       \/ FreePrev(t) \/ FreePrevRm(t) \/ FreeNext(t) \/ FreeNextRm(t) \/ FreeInsert(t)
  \/ Finished

Spec == Init /\ [][Next]_vars

-----------------------------------------------------------------------------
TypeOK ==
  /\ lists \in [0..MaxPage-1 -> Seq(Addrs)]
  /\ rd \in [Addrs -> -MaxPage..0]
  /\ bump \in [cp : Addrs, cur : Addrs]
  /\ mmaps \in 0..Len(RegionBases)
  /\ mapped \subseteq Addrs
  /\ held \subseteq [b : Addrs, n : Sizes]
  /\ \A t \in Threads : th[t].pc \in {"idle", "a_own", "a_parent", "a_split", "a_bump",
                                       "f_prev", "f_prevrm", "f_next", "f_nextrm", "f_ins"}

\* the free runs on the lists, the runs a thread is between two locked
\* sections with (a parent before its split, a run being freed), and the
\* unused part of the bump reservation
ListedRuns == UNION {{Run(lists[k][i], k + 1) : i \in 1..Len(lists[k])} : k \in 0..MaxPage-1}
InFlight ==
  {Run(th[t].ptr, th[t].j + 1) : t \in {u \in Threads : th[u].pc = "a_split"}}
  \cup {Run(th[t].ptr, th[t].n) : t \in {u \in Threads : th[u].pc \in {"f_prev", "f_prevrm", "f_next", "f_nextrm", "f_ins"}}}
BumpRest == Interval(bump.cp, bump.cur)

\* how many of the backend's pieces (listed, held, in flight, bump rest) cover page p
Owners(p) ==
  Cardinality({r \in ListedRuns : p \in RunPages(r)})
  + Cardinality({r \in held : p \in RunPages(r)})
  + Cardinality({r \in InFlight : p \in RunPages(r)})
  + (IF p \in BumpRest THEN 1 ELSE 0)

(***************************************************************************)
(* Page partition (spec 3: every page of heap memory is free, handed out  *)
(* or unmapped, never two of these): each mapped page lies in exactly one *)
(* listed run, held run, run in flight or the bump remainder, no page     *)
(* outside the mapped reservations is covered, and no base is listed      *)
(* twice.  Broken by a wrong split offset or length in FreeList::alloc,    *)
(* by a merge with a neighbour that is no longer free, or by bump          *)
(* arithmetic that reuses pages.                                           *)
(***************************************************************************)
PagePartition ==
  /\ \A p \in Addrs : Owners(p) = (IF p \in mapped THEN 1 ELSE 0)
  /\ \A k \in 0..MaxPage-1 : IsInjective(lists[k])

(***************************************************************************)
(* Markers match the lists (spec 3, FreeRangeNode): a slot holds a marker *)
(* exactly when its page is the first or last page of a listed run, and    *)
(* the marker announces that run's length.  free trusts these markers      *)
(* without a lock to find its neighbours.  Broken when remove_one or       *)
(* insert_one misses the last page (b + k) or writes the wrong tag.        *)
(***************************************************************************)
MarkersMatchLists ==
  \A p \in Addrs :
    Flag(rd[p]) = (IF \E r \in ListedRuns : p \in {r.b, r.b + r.n - 1}
                   THEN (CHOOSE r \in ListedRuns : p \in {r.b, r.b + r.n - 1}).n
                   ELSE 0)

(***************************************************************************)
(* Spec 8, backend coalescing: once every run has been returned and no    *)
(* call is in progress, free runs have been merged with their free         *)
(* neighbours, so no two listed runs are adjacent (free looks up both      *)
(* neighbours through their markers and removes them with                  *)
(* remove_spec_one to merge).                                              *)
(***************************************************************************)
FullyCoalesced ==
  (held = {} /\ \A t \in Threads : th[t].pc = "idle")
    => \A r, s \in ListedRuns : r.b + r.n # s.b

(***************************************************************************)
(* Spec 7, OOM: a run the backend hands out lies in mapped memory; when   *)
(* the OS refuses a reservation the call fails rather than returning pages *)
(* nobody mapped.                                                          *)
(***************************************************************************)
RunsMapped == \A r \in held : RunPages(r) \subseteq mapped

\* the caller-visible state: runs handed out, including those being freed
AbsAllocated == held \cup {Run(th[t].ptr, th[t].n) : t \in {u \in Threads : th[u].pc \in {"f_prev", "f_prevrm", "f_next", "f_nextrm", "f_ins"}}}

PA == INSTANCE PageAllocator WITH allocated <- AbsAllocated

(***************************************************************************)
(* Refinement: FreeList with BUMP implements the abstract page allocator: *)
(* every run it hands out overlaps no run that is out and not returned,   *)
(* and insert_one is the step at which a run stops being out.              *)
(***************************************************************************)
Refines == PA!Spec
=============================================================================

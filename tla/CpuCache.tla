------------------------------ MODULE CpuCache ------------------------------
(***************************************************************************)
(* The per-CPU restartable-sequence cache of cache/cpu_cache.rs            *)
(* (PerCpuSlabs behind CpuCache and GLOBAL_CCACHE), for one size class.    *)
(* Each CPU's slab has a Header [current, begin, end] and a slot array;    *)
(* push stores at slot current and bumps it, pop reads slot current - 1.   *)
(*                                                                         *)
(* push and pop are rseq critical sections: the CPU id is read inside the  *)
(* section, and a preemption, a migration or another thread running on the *)
(* CPU before the commit (the last store) sends it to the abort handler,   *)
(* which restarts it.  pop stores only at its commit: one step.  push      *)
(* stores the item and then commits current + 1: two steps, and an abort   *)
(* between them restarts the push.  A thread migrates between any two      *)
(* steps (Migrate).  The                                                   *)
(* cpu_id() checks of refill_cache and evict_cache are plain reads, and    *)
(* push_batch / pop_batch push or pop one cell per step.                   *)
(*                                                                         *)
(* The central layer is taken at its batch contract (spec 4.4), the one    *)
(* this file calls: allocate_batch_from_slab fills the batch with CWND     *)
(* free cells or fails, deallocate_batch_to_slab takes cells back,         *)
(* allocate(sz, align) hands out one aligned free cell or fails.  The zone *)
(* calls run under the class mutex: one step each.                         *)
(***************************************************************************)
EXTENDS Integers, Sequences, FiniteSets

CONSTANTS
  Threads,     \* threads calling CpuCache (model values)
  CPUs,        \* CPUs they run on (model values)
  Cells,       \* addresses of the class's cells, all free in the zone at first
  Aligns,      \* layout.align() of the requests
  CAP,         \* get_capacity(cl) (500 in the code): slots per CPU
  CWND,        \* the batch size CWND (64 in the code)
  None         \* a null pointer / no CPU (a model value)

ASSUME CWND >= 2 /\ CAP >= 1 /\ None \notin Threads \cup CPUs

VARIABLES
  ccache,      \* GLOBAL_CCACHE_VALUE: the thread whose slab won, or None
  slabs,       \* PerCpuSlabs blocks allocated from GlobalBackend, not freed
  hdr,         \* per CPU: the Header of the class
  mem,         \* per CPU: slot index -> cell
  zfree,       \* cells free in the zone
  cpu,         \* the CPU each thread runs on
  held,        \* per thread: cells allocate returned and not yet freed
  th           \* per thread: [pc, after, ret, al, ptr, err, batch, n, sec, h]

vars == <<ccache, slabs, hdr, mem, zfree, cpu, held, th>>

\* HDR_SIZE: the 63 header words come first; the class's slots follow
OFFSET == 63
Slots == OFFSET .. OFFSET + CAP - 1

\* Header::new(current, end_copy, begin, end) as init_cpu lays out class 0
\* (end_copy is never read)
InitHeader == [current |-> OFFSET, begin |-> OFFSET, end |-> OFFSET + CAP]

\* pc: the step a call is at; after: where a call goes once it has a slab;
\* ret: where deallocate returns to (the caller, or allocate's zone call)
Idle == [pc |-> "idle", after |-> "idle", ret |-> "idle", al |-> 0, ptr |-> 0,
         err |-> None, batch |-> <<>>, n |-> 0, sec |-> None, h |-> 0]

Init ==
  /\ ccache = None
  /\ slabs = {}
  /\ hdr = [p \in CPUs |-> InitHeader]
  /\ mem = [p \in CPUs |-> [s \in Slots |-> 0]]
  /\ zfree = Cells
  /\ cpu \in [Threads -> CPUs]
  /\ held = [t \in Threads |-> {}]
  /\ th = [t \in Threads |-> Idle]

Set(t, f) == th' = [th EXCEPT ![t] = f]

\* the zone's cells in address order
Sorted(S) == LET RECURSIVE Srt(_)
                 Srt(X) == IF X = {} THEN <<>>
                           ELSE LET m == CHOOSE x \in X : \A y \in X : x <= y
                                IN <<m>> \o Srt(X \ {m})
             IN Srt(S)

-----------------------------------------------------------------------------
(* The rseq sections on the CPU p the thread runs on. *)

\* pop: underflow when current <= begin; else slot current - 1, current - 1
CanPop(p) == hdr[p].current > hdr[p].begin
Top(p) == mem[p][hdr[p].current - 1]
PopOn(p) == hdr' = [hdr EXCEPT ![p].current = @ - 1]

\* push: overflow when current >= end; else the first store, slot
\* current := item, and the commit, current := current + 1
CanPush(p) == hdr[p].current < hdr[p].end
StoreOn(p, x) == mem' = [mem EXCEPT ![p][hdr[p].current] = x]
CommitOn(p, h) == hdr' = [hdr EXCEPT ![p].current = h + 1]

\* the section a push store was made in restarts from label 3
Restart(pc) == IF pc = "pcommit" THEN "push" ELSE "rpush"

\* thread t runs a section on CPU p: every other thread between its push
\* store and its commit on p was preempted, and the kernel sends it to the
\* abort handler (label 2), which jumps back to the start
Abort(t, p) ==
  [u \in Threads |-> IF u # t /\ th[u].pc \in {"pcommit", "rcommit"} /\ th[u].sec = p
                     THEN [th[u] EXCEPT !.pc = Restart(@)] ELSE th[u]]

\* a section step of t on p: the aborts, and t's own record f
SetOn(t, p, f) == th' = [Abort(t, p) EXCEPT ![t] = f]

-----------------------------------------------------------------------------
(* GLOBAL_CCACHE deref, on a call that finds the pointer null *)

\* GlobalBackend.alloc(Layout::new::<PerCpuSlabs>()) and slab.init(): the
\* fresh slab is private to the thread until the CAS
NewSlab(t) ==
  /\ th[t].pc = "slab"
  /\ slabs' = slabs \cup {t}
  /\ Set(t, [th[t] EXCEPT !.pc = "cas"])
  /\ UNCHANGED <<ccache, hdr, mem, zfree, cpu, held>>

\* compare_exchange(null, init_ptr): the loser deallocates its own slab
\* through GlobalBackend and uses the winner's
SlabCas(t) ==
  /\ th[t].pc = "cas"
  /\ IF ccache = None
     THEN /\ ccache' = t
          /\ UNCHANGED slabs
     ELSE /\ slabs' = slabs \ {t}
          /\ UNCHANGED ccache
  /\ Set(t, [th[t] EXCEPT !.pc = th[t].after])
  /\ UNCHANGED <<hdr, mem, zfree, cpu, held>>

\* a call's first use of (*GLOBAL_CCACHE): a null pointer diverts to NewSlab
Deref(f, pc) ==
  IF ccache = None THEN [f EXCEPT !.pc = "slab", !.after = pc]
  ELSE [f EXCEPT !.pc = pc]

-----------------------------------------------------------------------------
(* CpuCache::alloc -> PerCpuSlabs::allocate (a Base class request) *)

CallAlloc(t, al) ==
  /\ th[t].pc = "idle"
  /\ Set(t, Deref([Idle EXCEPT !.al = al], "pop"))
  /\ UNCHANGED <<ccache, slabs, hdr, mem, zfree, cpu, held>>

\* pop returns a cell the alignment allows: the call returns it
PopAligned(t) ==
  LET p == cpu[t] IN
  /\ th[t].pc = "pop"
  /\ CanPop(p)
  /\ Top(p) % th[t].al = 0
  /\ PopOn(p)
  /\ held' = [held EXCEPT ![t] = @ \cup {Top(p)}]
  /\ SetOn(t, p, Idle)
  /\ UNCHANGED <<ccache, slabs, mem, zfree, cpu>>

\* a misaligned cell is given back with self.deallocate, then the call
\* goes to alloc_from_zone
PopUnaligned(t) ==
  LET p == cpu[t] IN
  /\ th[t].pc = "pop"
  /\ CanPop(p)
  /\ Top(p) % th[t].al # 0
  /\ PopOn(p)
  /\ SetOn(t, p, [th[t] EXCEPT !.pc = "push", !.ptr = Top(p), !.ret = "zalloc"])
  /\ UNCHANGED <<ccache, slabs, mem, zfree, cpu, held>>

\* underflow: Err(cpu id of the section) and refill_cache(cpu, idx)
PopUnderflow(t) ==
  LET p == cpu[t] IN
  /\ th[t].pc = "pop"
  /\ ~CanPop(p)
  /\ SetOn(t, p, [th[t] EXCEPT !.pc = "rcheck", !.err = p])
  /\ UNCHANGED <<ccache, slabs, hdr, mem, zfree, cpu, held>>

\* refill_cache: only if cpu_id() is still the CPU that underflowed
RefillCheck(t) ==
  /\ th[t].pc = "rcheck"
  /\ Set(t, [th[t] EXCEPT !.pc = IF cpu[t] = th[t].err THEN "rzone" ELSE "zalloc"])
  /\ UNCHANGED <<ccache, slabs, hdr, mem, zfree, cpu, held>>

\* allocate_batch_from_slab(idx, &mut batch, CWND); on Err, refill_cache
\* returns None and allocate calls alloc_from_zone
RefillZone(t) ==
  /\ th[t].pc = "rzone"
  /\ IF Cardinality(zfree) >= CWND
     THEN LET b == SubSeq(Sorted(zfree), 1, CWND)
          IN /\ zfree' = zfree \ {b[i] : i \in 1 .. CWND}
             /\ Set(t, [th[t] EXCEPT !.pc = "rpush", !.batch = b, !.n = 1])
     ELSE /\ Set(t, [th[t] EXCEPT !.pc = "zalloc"])
          /\ UNCHANGED zfree
  /\ UNCHANGED <<ccache, slabs, hdr, mem, cpu, held>>

\* push_batch(&mut batch, idx, CWND, 1): while n < len, push
\* batch[n - start_idx] (the sequence's element n) on the CPU the thread is
\* on now; an overflow ends the loop.  This is the push's first store.
RefillPush(t) ==
  LET p == cpu[t]
      n == th[t].n
  IN /\ th[t].pc = "rpush"
     /\ IF CanPush(p)
        THEN /\ StoreOn(p, th[t].batch[n])
             /\ SetOn(t, p, [th[t] EXCEPT !.pc = "rcommit", !.sec = p,
                                          !.h = hdr[p].current])
        ELSE /\ SetOn(t, p, [th[t] EXCEPT !.pc = "rret"])
             /\ UNCHANGED mem
     /\ UNCHANGED <<ccache, slabs, hdr, zfree, cpu, held>>

\* the push's commit; Ok, so n += 1
RefillCommit(t) ==
  LET n == th[t].n
  IN /\ th[t].pc = "rcommit"
     /\ CommitOn(th[t].sec, th[t].h)
     /\ Set(t, [th[t] EXCEPT !.n = n + 1,
                             !.pc = IF n + 1 < CWND THEN "rpush" ELSE "rret"])
     /\ UNCHANGED <<ccache, slabs, mem, zfree, cpu, held>>

\* if n < CWND, deallocate_batch_to_slab(idx, &mut batch[n..], CWND - n);
\* then Some(batch[0]) is returned as the allocation
RefillReturn(t) ==
  LET n == th[t].n
      b == th[t].batch
  IN /\ th[t].pc = "rret"
     /\ zfree' = zfree \cup {b[i] : i \in n + 1 .. CWND}
     /\ held' = [held EXCEPT ![t] = @ \cup {b[1]}]
     /\ Set(t, Idle)
     /\ UNCHANGED <<ccache, slabs, hdr, mem, cpu>>

\* alloc_from_zone(sz, align): GLOBAL_ZONE.allocate hands out an aligned
\* free cell, or fails and CpuCache::alloc returns null
ZoneAlloc(t) ==
  LET ok == {c \in zfree : c % th[t].al = 0}
  IN /\ th[t].pc = "zalloc"
     /\ IF ok # {}
        THEN LET c == CHOOSE x \in ok : \A y \in ok : x <= y
             IN /\ zfree' = zfree \ {c}
                /\ held' = [held EXCEPT ![t] = @ \cup {c}]
        ELSE UNCHANGED <<zfree, held>>
     /\ Set(t, Idle)
     /\ UNCHANGED <<ccache, slabs, hdr, mem, cpu>>
-----------------------------------------------------------------------------
(* CpuCache::dealloc -> PerCpuSlabs::deallocate (a Base class cell) *)

CallFree(t, c) ==
  /\ th[t].pc = "idle"
  /\ c \in held[t]
  /\ held' = [held EXCEPT ![t] = @ \ {c}]
  /\ Set(t, Deref([Idle EXCEPT !.ptr = c], "push"))
  /\ UNCHANGED <<ccache, slabs, hdr, mem, zfree, cpu>>

\* push(ptr, idx) up to its first store; on overflow Err(cpu id of the
\* section) and evict_cache
Push(t) ==
  LET p == cpu[t] IN
  /\ th[t].pc = "push"
  /\ IF CanPush(p)
     THEN /\ StoreOn(p, th[t].ptr)
          /\ SetOn(t, p, [th[t] EXCEPT !.pc = "pcommit", !.sec = p, !.h = hdr[p].current])
     ELSE /\ SetOn(t, p, [th[t] EXCEPT !.pc = "echeck", !.err = p])
          /\ UNCHANGED mem
  /\ UNCHANGED <<ccache, slabs, hdr, zfree, cpu, held>>

\* the push's commit: r11 == before + 1, Ok(()), and deallocate returns
PushCommit(t) ==
  /\ th[t].pc = "pcommit"
  /\ CommitOn(th[t].sec, th[t].h)
  /\ Set(t, [th[t] EXCEPT !.pc = th[t].ret])
  /\ UNCHANGED <<ccache, slabs, mem, zfree, cpu, held>>

\* evict_cache: only if cpu_id() is still the CPU that overflowed:
\* batch[0] = ptr, then pop_batch(batch, idx, CWND - 1, 1); otherwise None
\* and deallocate calls dealloc_to_zone
EvictCheck(t) ==
  /\ th[t].pc = "echeck"
  /\ Set(t, IF cpu[t] = th[t].err
            THEN [th[t] EXCEPT !.batch = <<th[t].ptr>>, !.n = 1,
                               !.pc = IF 1 < CWND - 1 THEN "epop" ELSE "ezone"]
            ELSE [th[t] EXCEPT !.pc = "zfree"])
  /\ UNCHANGED <<ccache, slabs, hdr, mem, zfree, cpu, held>>

\* pop_batch: while n < len, pop on the CPU the thread is on now into
\* batch[n]; an underflow ends the loop
EvictPop(t) ==
  LET p == cpu[t]
      n == th[t].n
  IN /\ th[t].pc = "epop"
     /\ IF CanPop(p)
        THEN /\ PopOn(p)
             /\ SetOn(t, p, [th[t] EXCEPT !.batch = Append(@, Top(p)), !.n = n + 1,
                                     !.pc = IF n + 1 < CWND - 1 THEN "epop" ELSE "ezone"])
        ELSE /\ SetOn(t, p, [th[t] EXCEPT !.pc = "ezone"])
             /\ UNCHANGED hdr
     /\ UNCHANGED <<ccache, slabs, mem, zfree, cpu, held>>

\* deallocate_batch_to_slab(idx, &mut batch, n): batch[0 .. n) to the zone
EvictZone(t) ==
  /\ th[t].pc = "ezone"
  /\ zfree' = zfree \cup {th[t].batch[i] : i \in 1 .. th[t].n}
  /\ Set(t, [th[t] EXCEPT !.pc = th[t].ret])
  /\ UNCHANGED <<ccache, slabs, hdr, mem, cpu, held>>

\* dealloc_to_zone(ptr, sz): GLOBAL_ZONE.deallocate
ZoneFree(t) ==
  /\ th[t].pc = "zfree"
  /\ zfree' = zfree \cup {th[t].ptr}
  /\ Set(t, [th[t] EXCEPT !.pc = th[t].ret])
  /\ UNCHANGED <<ccache, slabs, hdr, mem, cpu, held>>

\* the scheduler preempts a thread between two of its steps and resumes it
\* on any CPU, the same included: the push section it was in (its rseq_cs
\* is registered) aborts and restarts
Migrate(t) ==
  /\ \E q \in CPUs : cpu' = [cpu EXCEPT ![t] = q]
  /\ Set(t, IF th[t].pc \in {"pcommit", "rcommit"}
            THEN [th[t] EXCEPT !.pc = Restart(@)] ELSE th[t])
  /\ UNCHANGED <<ccache, slabs, hdr, mem, zfree, held>>

Next ==
  \E t \in Threads :
    \/ \E al \in Aligns : CallAlloc(t, al)
    \/ \E c \in held[t] : CallFree(t, c)
    \/ NewSlab(t) \/ SlabCas(t)
    \/ PopAligned(t) \/ PopUnaligned(t) \/ PopUnderflow(t)
    \/ RefillCheck(t) \/ RefillZone(t) \/ RefillPush(t) \/ RefillCommit(t)
    \/ RefillReturn(t)
    \/ ZoneAlloc(t)
    \/ Push(t) \/ PushCommit(t) \/ EvictCheck(t) \/ EvictPop(t) \/ EvictZone(t) \/ ZoneFree(t)
    \/ Migrate(t)

Spec == Init /\ [][Next]_vars

-----------------------------------------------------------------------------
PCs == {"idle", "slab", "cas", "pop", "rcheck", "rzone", "rpush", "rret",
        "zalloc", "push", "pcommit", "rcommit", "echeck", "epop", "ezone", "zfree"}

TypeOK ==
  /\ ccache \in Threads \cup {None}
  /\ slabs \subseteq Threads
  /\ hdr \in [CPUs -> [current : Slots \cup {OFFSET + CAP}, begin : {OFFSET},
                       end : {OFFSET + CAP}]]
  /\ mem \in [CPUs -> [Slots -> Cells \cup {0}]]
  /\ zfree \subseteq Cells
  /\ cpu \in [Threads -> CPUs]
  /\ held \in [Threads -> SUBSET Cells]
  /\ \A t \in Threads : th[t].pc \in PCs /\ th[t].n \in 0 .. CWND

\* the cells cached on CPU p: slots begin .. current - 1
Cached(p) == {mem[p][s] : s \in hdr[p].begin .. hdr[p].current - 1}

(***************************************************************************)
(* A cell is in one place at a time (spec 4.4: the per-CPU cache keeps the *)
(* central layer's contract): a cell allocate returned to one thread is    *)
(* not returned to another, not cached on any CPU and not free in the      *)
(* zone until it is freed.  It needs refill_cache's push_batch, which      *)
(* caches the batch from index 1 on, and the cell it returns to agree, and *)
(* evict_cache to give back exactly the cells it popped.                   *)
(***************************************************************************)
CellsExclusive ==
  \A t \in Threads :
    /\ held[t] \cap zfree = {}
    /\ \A p \in CPUs : held[t] \cap Cached(p) = {}
    /\ \A u \in Threads \ {t} : held[t] \cap held[u] = {}
====

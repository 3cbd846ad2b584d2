----------------------------- MODULE Bootstrap -----------------------------
(***************************************************************************)
(* The allocator's metadata and its lazy initialisation:                  *)
(*   - META_BUMP (sc/mod.rs MetaBumpAlloc): a downward BumpAlloc over     *)
(*     mmap'd regions plus the `backup' free list of one-unit blocks;     *)
(*   - atomic_static! (alloc_macros allocator.rs) creating GLOBAL_ZONE:    *)
(*     allocate from META_BUMP, then CAS the pointer; the loser frees its *)
(*     block through GlobalBackend;                                        *)
(*   - FreeList::get_slice (freelist/mod.rs) creating the backend's list  *)
(*     array the same way, the loser returning it to META_BUMP;           *)
(*   - tls_static! creating each thread's ThreadCache from META_BUMP,     *)
(*     registering the pthread key once (TSD_INITIALIZED, PKEY in          *)
(*     pal/sync.rs) and saving the cache under it; the key's destructor    *)
(*     free_thread_cache (cache/thread_cache.rs) drains the cache and      *)
(*     returns its block to META_BUMP, leaving GlobalTcache_VALUE set;     *)
(*   - get_rd_tree and RadixNodeHead::insert (collections/radix_tree.rs)  *)
(*     creating the radix tree's root and a bottom node by mmap and CAS   *)
(*     inside the backend call, the loser munmapping its own node.        *)
(* Addresses and sizes are in bytes.  META_BUMP's lock makes each          *)
(* MetaBumpAlloc call one step; the CASes and key creation are atomic;     *)
(* the plain TSD_INITIALIZED flag is read and written in steps of its own. *)
(***************************************************************************)
EXTENDS Integers, Sequences, FiniteSets, SequencesExt

CONSTANTS
  Threads,      \* threads (model values)
  TcBytes,      \* size_of::<ThreadCache>()
  ZoneBytes,    \* size_of::<ZoneAllocator>()
  ListsBytes,   \* size_of of the 128 list mutexes of FreeList
  MetaBases,    \* the addresses successive mmap calls return (a sequence)
  MmapMayFail,  \* whether mmap may return MAP_FAILED
  Refills       \* refills per thread (bound)

VARIABLES
  mb,       \* META_BUMP.bumper: [start, current]
  backup,   \* META_BUMP.backup, head first
  mapped,   \* regions mmap'd for META_BUMP: a set of [b, n]
  zone,     \* GLOBAL_ZONE_VALUE (0 = null)
  lists,    \* FREELIST.lists (0 = null)
  tsd,      \* TSD_INITIALIZED
  pkey,     \* PKEY (0 = never written by register_tls_key)
  keys,     \* pthread keys register_tls_key created: 1 .. keys
  tc,       \* GlobalTcache_VALUE per thread (0 = null)
  saved,    \* the key each thread's cache was saved under (-1 = none)
  given,    \* runs handed to GlobalBackend.dealloc: a set of [b, n]
  rdptr,    \* RDPTR, the radix tree's root (NullNode = null)
  rdnode,   \* the root's nodes[idx] for the heap's 1 GiB region (NullNode = null)
  rdmaps,   \* radix nodes mmap'd and not munmap'd
  th        \* per thread: pc, the zone and list blocks it is about to publish, the
            \* label a backend call returns to, refills left

rd == <<rdptr, rdnode, rdmaps>>

\* a null radix-node pointer; nodes are named by the thread that mapped them
NullNode == <<>>
vars == <<mb, backup, mapped, zone, lists, tsd, pkey, keys, tc, saved, given, rd, th>>

PG_SIZE == 4096
META_DEFAULT_SIZE == 4 * 2 ^ 24     \* BumpAlloc::DEFAULT_SIZE (sc/mod.rs)

Block(b, n) == [b |-> b, n |-> n]
Overlap(x, y) == x.b < y.b + y.n /\ y.b < x.b + x.n
Within(x, r) == r.b <= x.b /\ x.b + x.n <= r.b + r.n

\* mutant: the `current > start' half of the refill guard is dropped
BumpAllocNoEmptyCheck(size) ==
  LET fresh == ~(mb.cur - mb.start <= META_DEFAULT_SIZE)
      i     == Cardinality(mapped) + 1
  IN /\ fresh => i <= Len(MetaBases)
     /\ \E ok \in (IF fresh /\ MmapMayFail THEN BOOLEAN ELSE {TRUE}) :
          LET start == IF ~fresh THEN mb.start ELSE IF ok THEN MetaBases[i] ELSE 0
              cur   == IF fresh THEN start + META_DEFAULT_SIZE ELSE mb.cur
          IN /\ mb' = [start |-> start, cur |-> cur - size]
             /\ mapped' = IF fresh /\ ok THEN mapped \cup {Block(start, META_DEFAULT_SIZE)}
                          ELSE mapped

\* sc::BumpAlloc::alloc: a new region when the current one is used up or
\* was never made; then current moves down by size, with no check that it
\* stays above start
BumpAlloc(size) ==
  LET fresh == ~(mb.cur > mb.start /\ mb.cur - mb.start <= META_DEFAULT_SIZE)
      i     == Cardinality(mapped) + 1
  IN /\ fresh => i <= Len(MetaBases)
     /\ \E ok \in (IF fresh /\ MmapMayFail THEN BOOLEAN ELSE {TRUE}) :
          LET start == IF ~fresh THEN mb.start ELSE IF ok THEN MetaBases[i] ELSE 0
              cur   == IF fresh THEN start + META_DEFAULT_SIZE ELSE mb.cur
          IN /\ mb' = [start |-> start, cur |-> cur - size]
             /\ mapped' = IF fresh /\ ok THEN mapped \cup {Block(start, META_DEFAULT_SIZE)}
                          ELSE mapped

\* MetaBumpAlloc::alloc(size): round up to whole ThreadCache units; a
\* one-unit request pops the backup list if it is not empty.  The block's
\* address is the new mb.cur or the popped head.
MetaUnits(size) == ((size + TcBytes - 1) \div TcBytes) * TcBytes
\* mutant: a pop from the backup list leaves the head on the list
MetaAllocKeepsHead(size) ==
  IF MetaUnits(size) = TcBytes /\ backup # <<>>
  THEN UNCHANGED <<backup, mb, mapped>>
  ELSE /\ BumpAlloc(MetaUnits(size))
       /\ UNCHANGED backup
MetaAlloc(size) ==
  IF MetaUnits(size) = TcBytes /\ backup # <<>>
  THEN /\ backup' = Tail(backup)
       /\ UNCHANGED <<mb, mapped>>
  ELSE /\ BumpAlloc(MetaUnits(size))
       /\ UNCHANGED backup
MetaPtr(size) ==
  IF MetaUnits(size) = TcBytes /\ backup # <<>> THEN Head(backup) ELSE mb'.cur

\* MetaBumpAlloc::dealloc(ptr): push on the backup list, whatever its size
MetaDealloc(p) == backup' = <<p>> \o backup

-----------------------------------------------------------------------------
Idle == [pc |-> "init", mine |-> 0, smine |-> 0, rmine |-> NullNode, nmine |-> NullNode, ret |-> "body",
         left |-> Refills]

Init ==
  /\ mb = [start |-> 0, cur |-> 0]
  /\ backup = <<>>
  /\ mapped = {}
  /\ zone = 0
  /\ lists = 0
  /\ tsd = FALSE
  /\ pkey = 0
  /\ keys = 0
  /\ tc = [t \in Threads |-> 0]
  /\ saved = [t \in Threads |-> -1]
  /\ given = {}
  /\ rdptr = NullNode
  /\ rdnode = NullNode
  /\ rdmaps = {}
  /\ th = [t \in Threads |-> Idle]

Goto(t, l) == th' = [th EXCEPT ![t].pc = l]

\* tls_static deref with GlobalTcache_VALUE null: Box::new_in(ThreadCache,
\* MetadataAllocator) and the store of the pointer
TcacheNew(t) ==
  /\ th[t].pc = "init"
  /\ MetaAlloc(TcBytes)
  /\ tc' = [tc EXCEPT ![t] = MetaPtr(TcBytes)]
  /\ Goto(t, "tsd")
  /\ UNCHANGED <<zone, lists, tsd, pkey, keys, saved, given, rd>>

\* if !TSD_INITIALIZED: a plain read, racing with other first-time threads
TsdCheck(t) ==
  /\ th[t].pc = "tsd"
  /\ Goto(t, IF tsd THEN "save" ELSE "reg")
  /\ UNCHANGED <<mb, backup, mapped, zone, lists, tsd, pkey, keys, tc, saved, given, rd>>

\* mutant: the key is created into a copy, PKEY is never written
RegisterKeyNoStore(t) ==
  /\ th[t].pc = "reg"
  /\ keys' = keys + 1
  /\ Goto(t, "settsd")
  /\ UNCHANGED <<mb, backup, mapped, zone, lists, tsd, pkey, tc, saved, given, rd>>

\* register_tls_key: pthread_key_create(&PKEY, free_thread_cache)
RegisterKey(t) ==
  /\ th[t].pc = "reg"
  /\ keys' = keys + 1
  /\ pkey' = keys + 1
  /\ Goto(t, "settsd")
  /\ UNCHANGED <<mb, backup, mapped, zone, lists, tsd, tc, saved, given, rd>>

\* TSD_INITIALIZED = true
SetTsd(t) ==
  /\ th[t].pc = "settsd"
  /\ tsd' = TRUE
  /\ Goto(t, "save")
  /\ UNCHANGED <<mb, backup, mapped, zone, lists, pkey, keys, tc, saved, given, rd>>

\* save_tls: pthread_setspecific(PKEY, cache)
SaveTls(t) ==
  /\ th[t].pc = "save"
  /\ saved' = [saved EXCEPT ![t] = pkey]
  /\ Goto(t, "body")
  /\ UNCHANGED <<mb, backup, mapped, zone, lists, tsd, pkey, keys, tc, given, rd>>

\* a refill: ThreadCacheUnit::allocate dereferences GLOBAL_ZONE; with the
\* pointer null, atomic_static allocates the zone from META_BUMP
ZoneDeref(t) ==
  /\ th[t].pc = "body"
  /\ th[t].left > 0
  /\ IF zone # 0
     THEN /\ th' = [th EXCEPT ![t].pc = "backend", ![t].ret = "body",
                              ![t].left = @ - 1]
          /\ UNCHANGED <<mb, backup, mapped>>
     ELSE /\ MetaAlloc(ZoneBytes)
          /\ th' = [th EXCEPT ![t].pc = "zcas", ![t].mine = MetaPtr(ZoneBytes),
                              ![t].left = @ - 1]
  /\ UNCHANGED <<zone, lists, tsd, pkey, keys, tc, saved, given, rd>>

\* compare_exchange(null, init_ptr): the winner publishes its zone; the
\* loser drops Box::from_raw_in(init_ptr, GlobalBackend), a backend free of
\* size_of::<ZoneAllocator>() bytes at init_ptr
ZoneCas(t) ==
  /\ th[t].pc = "zcas"
  /\ IF zone = 0
     THEN /\ zone' = th[t].mine
          /\ th' = [th EXCEPT ![t].pc = "backend", ![t].ret = "body", ![t].mine = 0]
     ELSE /\ th' = [th EXCEPT ![t].pc = "backend", ![t].ret = "zfree"]
          /\ UNCHANGED zone
  /\ UNCHANGED <<mb, backup, mapped, lists, tsd, pkey, keys, tc, saved, given, rd>>

\* FreeList::get_slice with lists null: a new array from META_BUMP
SliceNew(t) ==
  /\ th[t].pc = "backend"
  /\ lists = 0
  /\ MetaAlloc(ListsBytes)
  /\ th' = [th EXCEPT ![t].pc = "scas", ![t].smine = MetaPtr(ListsBytes)]
  /\ UNCHANGED <<zone, lists, tsd, pkey, keys, tc, saved, given, rd>>

\* get_slice's compare_exchange: the loser returns its array to META_BUMP
SliceCas(t) ==
  /\ th[t].pc = "scas"
  /\ IF lists = 0
     THEN /\ lists' = th[t].smine
          /\ UNCHANGED backup
     ELSE /\ MetaDealloc(th[t].smine)
          /\ UNCHANGED lists
  /\ th' = [th EXCEPT ![t].pc = "backend", ![t].smine = 0]
  /\ UNCHANGED <<mb, mapped, zone, tsd, pkey, keys, tc, saved, given, rd>>

\* the backend call itself, with the list array in place; it reaches the
\* radix tree through get_rd_tree (FreeList::alloc/free, and the refill's
\* handle_rd_tree_insert)
BackendCall(t) ==
  /\ th[t].pc = "backend"
  /\ lists # 0
  /\ Goto(t, "rdroot")
  /\ UNCHANGED <<mb, backup, mapped, zone, lists, tsd, pkey, keys, tc, saved, given, rd>>

\* the node a thread's allocate_node call mmaps
RootOf(t) == <<t, "root">>
NodeOf(t) == <<t, "node">>

\* get_rd_tree: RDPTR.load; null -> allocate_node::<RadixTree>() (mmap)
RdRoot(t) ==
  /\ th[t].pc = "rdroot"
  /\ IF rdptr # NullNode
     THEN /\ Goto(t, "rdnode")
          /\ UNCHANGED rdmaps
     ELSE /\ rdmaps' = rdmaps \cup {RootOf(t)}
          /\ th' = [th EXCEPT ![t].pc = "rcas", ![t].rmine = RootOf(t)]
  /\ UNCHANGED <<mb, backup, mapped, zone, lists, tsd, pkey, keys, tc, saved, given,
                 rdptr, rdnode>>

\* RDPTR.compare_exchange(null, ptr): the loser deallocate_node(ptr)s
RdRootCas(t) ==
  /\ th[t].pc = "rcas"
  /\ IF rdptr = NullNode
     THEN /\ rdptr' = th[t].rmine
          /\ UNCHANGED rdmaps
     ELSE /\ rdmaps' = rdmaps \ {th[t].rmine}
          /\ UNCHANGED rdptr
  /\ th' = [th EXCEPT ![t].pc = "rdnode", ![t].rmine = NullNode]
  /\ UNCHANGED <<mb, backup, mapped, zone, lists, tsd, pkey, keys, tc, saved, given,
                 rdnode>>

\* RadixNodeHead::insert: nodes[idx].load; null -> allocate_node::<V>()
RdNode(t) ==
  /\ th[t].pc = "rdnode"
  /\ IF rdnode # NullNode
     THEN /\ Goto(t, th[t].ret)
          /\ UNCHANGED rdmaps
     ELSE /\ rdmaps' = rdmaps \cup {NodeOf(t)}
          /\ th' = [th EXCEPT ![t].pc = "ncas", ![t].nmine = NodeOf(t)]
  /\ UNCHANGED <<mb, backup, mapped, zone, lists, tsd, pkey, keys, tc, saved, given,
                 rdptr, rdnode>>

\* mutant: the loser munmaps the node it lost to, not its own
RdNodeCasFreesWinner(t) ==
  /\ th[t].pc = "ncas"
  /\ IF rdnode = NullNode
     THEN /\ rdnode' = th[t].nmine
          /\ UNCHANGED rdmaps
     ELSE /\ rdmaps' = rdmaps \ {rdnode}
          /\ UNCHANGED rdnode
  /\ th' = [th EXCEPT ![t].pc = th[t].ret, ![t].nmine = NullNode]
  /\ UNCHANGED <<mb, backup, mapped, zone, lists, tsd, pkey, keys, tc, saved, given,
                 rdptr>>

\* nodes[idx].compare_exchange(null, node_ptr): the loser
\* deallocate_node(node_ptr)s and uses cur_ptr
RdNodeCas(t) ==
  /\ th[t].pc = "ncas"
  /\ IF rdnode = NullNode
     THEN /\ rdnode' = th[t].nmine
          /\ UNCHANGED rdmaps
     ELSE /\ rdmaps' = rdmaps \ {th[t].nmine}
          /\ UNCHANGED rdnode
  /\ th' = [th EXCEPT ![t].pc = th[t].ret, ![t].nmine = NullNode]
  /\ UNCHANGED <<mb, backup, mapped, zone, lists, tsd, pkey, keys, tc, saved, given,
                 rdptr>>

\* FreeList::free(init_ptr, ZoneBytes): a run of whole pages from init_ptr
ZoneLoserFree(t) ==
  /\ th[t].pc = "zfree"
  /\ given' = given \cup {Block(th[t].mine, ((ZoneBytes + PG_SIZE - 1) \div PG_SIZE) * PG_SIZE)}
  /\ th' = [th EXCEPT ![t].pc = "body", ![t].mine = 0]
  /\ UNCHANGED <<mb, backup, mapped, zone, lists, tsd, pkey, keys, tc, saved, rd>>

\* thread exit: pthread runs free_thread_cache for the value saved under a
\* key register_tls_key created; it drains the cache and pushes the block
\* on META_BUMP's backup list, and GlobalTcache_VALUE keeps pointing at it
ThreadExit(t) ==
  /\ th[t].pc = "body"
  /\ IF saved[t] \in 1..keys
     THEN /\ MetaDealloc(tc[t])
          /\ Goto(t, "exited")
     ELSE /\ Goto(t, "gone")
          /\ UNCHANGED backup
  /\ UNCHANGED <<mb, mapped, zone, lists, tsd, pkey, keys, tc, saved, given, rd>>

\* a later TLS destructor of the same thread frees memory: deref finds
\* GlobalTcache_VALUE non-null and uses the returned block as its cache
LateUse(t) ==
  /\ th[t].pc = "exited"
  /\ Goto(t, "late")
  /\ UNCHANGED <<mb, backup, mapped, zone, lists, tsd, pkey, keys, tc, saved, given, rd>>

Terminated ==
  /\ \A t \in Threads : th[t].pc \in {"exited", "late", "gone"}
  /\ UNCHANGED vars

Next ==
  \/ \E t \in Threads :
       \/ TcacheNew(t) \/ TsdCheck(t) \/ RegisterKey(t) \/ SetTsd(t) \/ SaveTls(t)
       \/ ZoneDeref(t) \/ ZoneCas(t) \/ SliceNew(t) \/ SliceCas(t)
       \/ BackendCall(t) \/ RdRoot(t) \/ RdRootCas(t) \/ RdNode(t) \/ RdNodeCas(t)
       \/ ZoneLoserFree(t) \/ ThreadExit(t) \/ LateUse(t)
  \/ Terminated

Spec == Init /\ [][Next]_vars

-----------------------------------------------------------------------------
\* Addresses are usize: BumpAlloc's `self.current - size' (sc/mod.rs:134)
\* must never wrap below zero, so the bump pointer and every cache pointer
\* stay natural numbers.
TypeOK ==
  /\ mb \in [start : Nat, cur : Nat]
  /\ backup \in Seq(Nat)
  /\ zone \in Nat /\ lists \in Nat
  /\ tsd \in BOOLEAN
  /\ pkey \in 0..keys /\ keys \in 0..Cardinality(Threads)
  /\ tc \in [Threads -> Nat]
  /\ saved \in [Threads -> -1..keys]
  /\ \A t \in Threads :
       th[t].pc \in {"init", "tsd", "reg", "settsd", "save", "body", "zcas",
                     "backend", "scas", "rdroot", "rcas", "rdnode", "ncas", "zfree",
                     "exited", "late", "gone"}
  /\ rdptr \in {NullNode} \cup {RootOf(t) : t \in Threads}
  /\ rdnode \in {NullNode} \cup {NodeOf(t) : t \in Threads}

\* the blocks META_BUMP has handed out and not taken back, and its free
\* blocks, each with who holds it: a running thread's cache (a thread that
\* exited without its destructor leaks it), the published zone and list
\* array, a block a thread holds before its CAS or its free, a backup entry
Holders ==
  {[who |-> <<"tc", t>>, b |-> tc[t], n |-> MetaUnits(TcBytes)] :
     t \in {u \in Threads : tc[u] # 0 /\ th[u].pc \notin {"exited", "late"}}}
  \cup {[who |-> <<"bk", i>>, b |-> backup[i], n |-> TcBytes] : i \in 1..Len(backup)}
  \cup (IF zone # 0 THEN {[who |-> <<"zone">>, b |-> zone, n |-> MetaUnits(ZoneBytes)]} ELSE {})
  \cup (IF lists # 0 THEN {[who |-> <<"lists">>, b |-> lists, n |-> MetaUnits(ListsBytes)]} ELSE {})
  \cup {[who |-> <<"zmine", t>>, b |-> th[t].mine, n |-> MetaUnits(ZoneBytes)] :
          t \in {u \in Threads : th[u].pc = "zcas" \/ (th[u].pc \in {"backend", "zfree"} /\ th[u].ret = "zfree")}}
  \cup {[who |-> <<"smine", t>>, b |-> th[t].smine, n |-> MetaUnits(ListsBytes)] :
          t \in {u \in Threads : th[u].pc = "scas"}}

(***************************************************************************)
(* Metadata blocks are disjoint (spec 4.6): no two holders of META_BUMP    *)
(* memory (thread caches, the zone, the list array, blocks on the backup   *)
(* list, blocks before their CAS) share a byte.  Broken by a backup pop    *)
(* that does not advance, a CAS loser whose block is also published, or a *)
(* bump that does not move down by the rounded size.                      *)
(***************************************************************************)
MetaBlocksDisjoint ==
  \A x, y \in Holders : x.who # y.who => ~Overlap(x, y)

(***************************************************************************)
(* Every cache has its destructor: a thread that saved its cache with      *)
(* save_tls saved it under a key register_tls_key created, so pthread runs *)
(* free_thread_cache when the thread exits, despite the unsynchronised     *)
(* TSD_INITIALIZED check two first-time threads may both pass.             *)
(***************************************************************************)
SavedUnderCreatedKey ==
  \A t \in Threads : saved[t] # -1 => saved[t] \in 1..keys

(***************************************************************************)
(* A lost initialisation race gives back only what it took (spec 9): the  *)
(* runs handed to the page backend overlap no metadata block still held.  *)
(* The atomic_static loser frees its META_BUMP block through GlobalBackend,*)
(* which treats it as whole pages from init_ptr.                           *)
(***************************************************************************)
BackendRunsDisjointFromMeta ==
  \A r \in given : \A x \in Holders : ~Overlap(r, x)

(***************************************************************************)
(* One cache per thread (spec 3, PerThreadCache is thread-local): no two   *)
(* threads that may touch their GlobalTcache_VALUE use the same block.     *)
(* After free_thread_cache a thread's pointer still names its block, which *)
(* is on the backup list for the next new thread.                         *)
(***************************************************************************)
CacheExclusive ==
  \A t, u \in Threads :
    (t # u /\ th[t].pc \notin {"init", "exited", "gone"} /\ th[u].pc \notin {"init", "exited", "gone"})
      => tc[t] # tc[u]
(***************************************************************************)
(* The radix tree's lazily created nodes (get_rd_tree, RadixNodeHead::     *)
(* insert): the mmap'd nodes are exactly the published root and bottom    *)
(* node and the nodes threads hold between their mmap and their CAS.  A   *)
(* CAS loser that munmapped the published node would leave every thread   *)
(* writing page tags into unmapped memory; one that kept its node leaks   *)
(* it.                                                                     *)
(***************************************************************************)
RadixMaps ==
  rdmaps = ({rdptr, rdnode} \ {NullNode})
           \cup {th[t].rmine : t \in {u \in Threads : th[u].pc = "rcas"}}
           \cup {th[t].nmine : t \in {u \in Threads : th[u].pc = "ncas"}}
=============================================================================

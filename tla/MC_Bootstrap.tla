---------------------------- MODULE MC_Bootstrap ----------------------------
(***************************************************************************)
(* Model-checking instance of Bootstrap with the x86-64 Linux sizes:       *)
(*   ThreadCache = 64 units of 32 bytes (Linklist 16, bump_ptr 8, two i32) *)
(*   = 2048; ZoneAllocator = 64 PthreadMutex<SCAllocator> of 40 bytes of   *)
(*   pthread_mutex_t and 56 bytes of SCAllocator = 6144; the backend list *)
(*   array = 128 spin::Mutex<Option<&mut _>> of 16 bytes = 2048.          *)
(* META_BUMP maps 64 MiB regions; two bases are enough for the blocks     *)
(* two threads take (symmetric under Permutations(Threads)).             *)
(***************************************************************************)
EXTENDS Bootstrap, TLC

MCMetaBases == <<1073741824, 536870912>>

Symmetry == Permutations(Threads)
=============================================================================

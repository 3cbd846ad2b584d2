---------------------------- MODULE MC_CpuCache ----------------------------
(***************************************************************************)
(* CpuCache instantiated for TLC: two threads, two CPUs, a slab of two     *)
(* slots per CPU and a batch of three, so that a refill overflows the      *)
(* slab and an eviction pops a partial batch; cells 16 apart, so that a    *)
(* 32-aligned request meets a misaligned cached cell.                      *)
(***************************************************************************)
EXTENDS CpuCache

MCCells == {16, 32, 48, 64, 80}
=============================================================================

----------------------------- MODULE MC_Central -----------------------------
(***************************************************************************)
(* The crate's two central allocators and the size-class tables, checked  *)
(* side by side in one model: the zone's SCAllocator of sc/efficient_sc.rs *)
(* (CentralCache, with the constants of MC_CentralCache), the unused       *)
(* bitfield SCAllocator of sc/separate_sc.rs (SeparateSC, whose radix map  *)
(* rd is renamed srd and whose alignments are SCAligns) and the size-class *)
(* tables with the zone's slab layouts (SizeClass).  They share no state.  *)
(* Init picks which one runs; it takes every step and the others keep      *)
(* their initial state, so each property below holds of the union exactly *)
(* when it holds of the component it is about.                             *)
(*                                                                         *)
(* SeparateSC: 1360-byte cells, so new() makes three cells a run at a      *)
(* stride of 1360; alignment 32 admits cells 0 and 2, 4096 only cell 0.    *)
(* Two pages in the backend let it run out; a batch of 4 takes a whole     *)
(* record; EMPTY_CAP = 0 puts the boundary of the cap of 2048 at the       *)
(* second empty record.                                                    *)
(***************************************************************************)
EXTENDS MC_CentralCache

CONSTANTS SIZE_CLASS, PAGE_SIZE, EMPTY_CAP, PageAddrs, SCAligns, Counts, MaxHeld

VARIABLES
  which,                                              \* the allocator run
  start, count, pages, bits, srd, bk, held, panic,    \* SeparateSC
  req, out, slabs                                     \* SizeClass

SC == INSTANCE SeparateSC WITH rd <- srd, Aligns <- SCAligns
S == INSTANCE SizeClass

scvars == <<start, count, pages, bits, srd, bk, held, panic>>
svars == <<req, out, slabs>>
allvars == <<which, vars, scvars, svars>>

\* SizeClass's Init ranges over every request size; the others fix req = 0
UInit ==
  /\ which \in {"central", "separatesc", "sizeclass"}
  /\ Init /\ SC!Init /\ S!Init
  /\ which # "sizeclass" => req = 0

UNext ==
  \/ which = "central" /\ Next /\ UNCHANGED <<which, scvars, svars>>
  \/ which = "separatesc" /\ SC!Next /\ UNCHANGED <<which, vars, svars>>
  \/ which = "sizeclass" /\ S!Next /\ UNCHANGED <<which, vars, scvars>>

USpec == UInit /\ [][UNext]_allvars

\* SeparateSC's properties, stated in its module
SC_TypeOK == SC!TypeOK
SC_NoPanic == SC!NoPanic
SC_BitsMatchHeld == SC!BitsMatchHeld
SC_ListsPartitionRecords == SC!ListsPartitionRecords
SC_RadixMatchesRuns == SC!RadixMatchesRuns

\* SizeClass's properties, stated in its module
S_TypeOK == S!TypeOK
S_Classification == S!Classification
S_CellFitsRun == S!CellFitsRun

MCPageAddrs == {4096 * k : k \in 1 .. 2}
=============================================================================

--------------------------- MODULE MC_CentralCache ---------------------------
(***************************************************************************)
(* Model-checking instance of CentralCache: a class of 3-byte objects in  *)
(* one 8-byte page per run, so a run holds 2 cells 4 bytes apart and only  *)
(* the first meets an alignment of 8; two runs, two records, and an        *)
(* empty-list cap of 0 so that the second emptied page goes back to the    *)
(* backend.  MCAlignsLarge asks for an alignment above the page size.      *)
(***************************************************************************)
EXTENDS CentralCache, TLC

MCRecords == {1, 2}
MCRunBases == {8, 16}
MCAlignsSmall == {1, 8}
MCAlignsLarge == {1, 16}

Symmetry == Permutations(Threads)
=============================================================================

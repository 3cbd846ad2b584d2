--------------------------- MODULE MC_PageBackend ---------------------------
(***************************************************************************)
(* Model-checking instance of PageBackend: lists for runs of 1 and 2 pages *)
(* (BACKEND_MAX_PAGE = 2), so a 3-page request goes to BUMP and its free   *)
(* is unmapped; 4-page reservations at pages 32, 26, 20, 14, 8 and 2, one *)
(* per allocation three calls of two threads can make, so a 2-page run   *)
(* can be split and every reservation can run out.                        *)
(***************************************************************************)
EXTENDS PageBackend, TLC

MCRegionBases == <<32, 26, 20, 14, 8, 2>>
MCSizes == {1, 2, 3}

Symmetry == Permutations(Threads)
=============================================================================

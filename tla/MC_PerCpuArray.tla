---------------------------- MODULE MC_PerCpuArray ----------------------------
(***************************************************************************)
(* PerCpuArray with one thread, one CPU, two classes and a data region of  *)
(* 48 words, which init splits into two classes of two words each.        *)
(***************************************************************************)
EXTENDS PerCpuArray
=============================================================================

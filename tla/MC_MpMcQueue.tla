--------------------------- MODULE MC_MpMcQueue ---------------------------
(***************************************************************************)
(* MpMcQueue instantiated for TLC: model-value threads, and empty queues   *)
(* whose positions start at 0 or at the i8 wrap, as in the module's tests  *)
(* drain_at_pos255 and full_at_wrapped_pos0.                               *)
(***************************************************************************)
EXTENDS MpMcQueue

MCStarts == {0, 255}
MCCalls == {"enq", "deq"}
\* a program that only enqueues
MCEnqOnly == {"enq"}
=============================================================================

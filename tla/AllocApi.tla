----------------------------- MODULE AllocApi -----------------------------
(***************************************************************************)
(* What a GlobalAlloc implementation promises the program (spec 4.6 and   *)
(* the GlobalAlloc contract RustAllocator implements): the blocks the      *)
(* program holds never share a byte; alloc adds a block of the requested   *)
(* size with fresh contents; dealloc removes a held block; realloc        *)
(* replaces a held block by one of the new size holding the same contents, *)
(* either at the same address or apart from the old one (the copy is       *)
(* copy_nonoverlapping), and apart from every other held block.            *)
(* A block is a record [addr, size, content]; content names the allocation *)
(* whose data the block holds.                                             *)
(***************************************************************************)
EXTENDS Integers

VARIABLE
  blocks    \* the blocks the program holds

\* no byte in common; a zero-size block has no bytes
Apart(x, y) ==
  \/ x.size = 0 \/ y.size = 0
  \/ x.addr + x.size <= y.addr
  \/ y.addr + y.size <= x.addr

Contents(S) == {x.content : x \in S}

Alloc ==
  \E b \in blocks' :
    /\ b \notin blocks
    /\ b.content \notin Contents(blocks)
    /\ \A y \in blocks : Apart(b, y)
    /\ blocks' = blocks \cup {b}

Dealloc ==
  \E b \in blocks : blocks' = blocks \ {b}

Realloc ==
  \E b \in blocks, c \in blocks' :
    /\ c.content = b.content
    /\ c.addr = b.addr \/ Apart(b, c)
    /\ \A y \in blocks \ {b} : Apart(c, y)
    /\ blocks' = (blocks \ {b}) \cup {c}

Init == blocks = {}

Next == Alloc \/ Dealloc \/ Realloc

Spec == Init /\ [][Next]_blocks
=============================================================================

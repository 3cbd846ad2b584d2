------------------------------ MODULE RadixTree ------------------------------
(***************************************************************************)
(* The lock-free radix trees of collections/radix_tree_128.rs (and, with   *)
(* one head level, NullRead = 0 and a strong CAS, collections/radix_tree.rs)*)
(* under concurrent insert, remove and get_mut.                            *)
(*                                                                         *)
(* A RadixNode128Head holds 2^HB AtomicPtr slots; it takes its index from  *)
(* the top HB bits of the key and passes the key shifted left by HB (high  *)
(* bits dropped) to the child.  Heads such levels lead to a                *)
(* RadixBottom128Node of 2^LB values indexed by the top LB bits.  A thread *)
(* that loads a null slot on insert mmaps a zeroed node and CASes it in;   *)
(* the loser of that race munmaps its node and adopts the winner's.        *)
(* remove and get_mut stop at a null slot (Ok and NullRead).  The bottom   *)
(* range loop writes one i32 per step, so other threads see a partly       *)
(* written range.  Node names stand for mmap'd addresses; Root is the tree *)
(* itself, allocated by its owner before the calls start.                  *)
(***************************************************************************)
EXTENDS Integers, FiniteSets

CONSTANTS
  Threads,
  W,          \* key width in bits (u128: 128, usize: 64)
  HB,         \* index bits per head node (21 and 18)
  LB,         \* index bits of a bottom node (23 and 18)
  Heads,      \* head levels under the root's slots (5 and 1)
  NullRead,   \* what get_mut returns at a null slot (-1 and 0)
  NodeIds,    \* addresses mmap can return; Null is not one of them
  Root,       \* the tree's root node
  Keys,       \* keys the callers pass
  Vals,       \* values the callers insert
  Lens,       \* range lengths the callers pass
  MaxOps      \* bound on the calls of a behaviour

VARIABLES
  heads,      \* node -> its AtomicPtr slots, as a head node
  leaves,     \* node -> its values, as a bottom node
  mapped,     \* nodes mmap'd and not munmap'd
  th,         \* per-thread call state
  ops         \* calls made so far

vars == <<heads, leaves, mapped, th, ops>>

Null == 0
Fan == 2 ^ HB
Leaf == 2 ^ LB

\* ((mask & k) >> (W - HB)) with mask = !((1 << (W - HB)) - 1)
HeadIdx(k) == k \div 2 ^ (W - HB)
\* k << HB on a W-bit integer
Shift(k) == (k * Fan) % 2 ^ W
\* the bottom node's index: the top LB bits
LeafIdx(k) == k \div 2 ^ (W - LB)

EmptyHead == [i \in 0 .. Fan - 1 |-> Null]
EmptyLeaf == [i \in 0 .. Leaf - 1 |-> 0]

RECURSIVE Shifted(_, _)
Shifted(k, d) == IF d = 0 THEN k ELSE Shifted(Shift(k), d - 1)

\* a group is the keys that share a bottom node: their top Heads * HB bits
Groups == 0 .. 2 ^ (Heads * HB) - 1
GroupOf(k) == k \div 2 ^ (W - Heads * HB)
SlotOf(k) == LeafIdx(Shifted(k, Heads))

\* the callers' calls; a range stays inside its bottom node
Calls ==
  [op : {"insert"}, key : Keys, v : Vals, n : Lens] \cup
  [op : {"remove"}, key : Keys, v : {0}, n : Lens] \cup
  [op : {"get"}, key : Keys, v : {0}, n : {1}]
FitsLeaf(c) == SlotOf(c.key) + c.n <= Leaf

IdleTh(r) == [pc |-> "idle", op |-> "idle", key |-> 0, v |-> 0, n |-> 0,
              k |-> 0, lvl |-> 0, node |-> Null, mine |-> Null, i |-> 0,
              ret |-> r]

Init ==
  /\ heads = [m \in NodeIds |-> EmptyHead]
  /\ leaves = [m \in NodeIds |-> EmptyLeaf]
  /\ mapped = {Root}
  /\ th = [t \in Threads |-> IdleTh(0)]
  /\ ops = 0

\* a call on the root: rd.insert(k, v, n), rd.remove(k, n), rd.get_mut(k)
Call(t) ==
  /\ th[t].pc = "idle"
  /\ ops < MaxOps
  /\ \E c \in Calls :
       /\ FitsLeaf(c)
       /\ th' = [th EXCEPT ![t] = [pc |-> "load", op |-> c.op, key |-> c.key,
                   v |-> c.v, n |-> c.n, k |-> c.key, lvl |-> 1, node |-> Root,
                   mine |-> Null, i |-> 0, ret |-> 0]]
  /\ ops' = ops + 1
  /\ UNCHANGED <<heads, leaves, mapped>>

\* mutant: the child gets k instead of k << HB
DescendUnshifted(s, p) ==
  [s EXCEPT !.node = p, !.lvl = s.lvl + 1, !.mine = Null,
            !.pc = IF s.lvl < Heads THEN "load"
                   ELSE IF s.op = "get" THEN "read" ELSE "write"]

\* node.insert(k << HB, ..), node.remove(k << HB, ..), node.get_mut(k << HB)
Descend(s, p) ==
  [s EXCEPT !.node = p, !.k = Shift(s.k), !.lvl = s.lvl + 1, !.mine = Null,
            !.pc = IF s.lvl < Heads THEN "load"
                   ELSE IF s.op = "get" THEN "read" ELSE "write"]

\* allocate_node: mmap of a zeroed node
Fresh == CHOOSE m \in NodeIds \ mapped : TRUE

\* node_ptr_ref.load(Relaxed) and what each call does with it
Load(t) ==
  LET s == th[t]
      p == heads[s.node][HeadIdx(s.k)]
  IN /\ s.pc = "load"
     /\ \/ /\ p # Null
           /\ th' = [th EXCEPT ![t] = Descend(s, p)]
           /\ UNCHANGED <<heads, leaves, mapped>>
        \/ /\ p = Null /\ s.op = "insert"
           /\ mapped # NodeIds
           /\ mapped' = mapped \cup {Fresh}
           /\ heads' = [heads EXCEPT ![Fresh] = EmptyHead]
           /\ leaves' = [leaves EXCEPT ![Fresh] = EmptyLeaf]
           /\ th' = [th EXCEPT ![t].pc = "cas", ![t].mine = Fresh]
        \/ /\ p = Null /\ s.op # "insert"
           /\ th' = [th EXCEPT ![t] = IdleTh(IF s.op = "get" THEN NullRead ELSE 0)]
           /\ UNCHANGED <<heads, leaves, mapped>>
  /\ UNCHANGED ops

\* mutant: the loser munmaps its node but keeps node_ptr (no node_ptr = p)
CasAdoptsOwn(t) ==
  LET s == th[t]
      cur == heads[s.node][HeadIdx(s.k)]
  IN /\ s.pc = "cas"
     /\ \/ /\ cur = Null
           /\ heads' = [heads EXCEPT ![s.node][HeadIdx(s.k)] = s.mine]
           /\ th' = [th EXCEPT ![t] = Descend(s, s.mine)]
           /\ UNCHANGED <<leaves, mapped>>
        \/ /\ cur # Null
           /\ mapped' = mapped \ {s.mine}
           /\ th' = [th EXCEPT ![t] = Descend(s, s.mine)]
           /\ UNCHANGED <<heads, leaves>>
  /\ UNCHANGED ops

\* mutant: the loser adopts p but does not deallocate_node its own
CasLeaks(t) ==
  LET s == th[t]
      cur == heads[s.node][HeadIdx(s.k)]
  IN /\ s.pc = "cas"
     /\ \/ /\ cur = Null
           /\ heads' = [heads EXCEPT ![s.node][HeadIdx(s.k)] = s.mine]
           /\ th' = [th EXCEPT ![t] = Descend(s, s.mine)]
           /\ UNCHANGED <<leaves, mapped>>
        \/ /\ cur # Null
           /\ th' = [th EXCEPT ![t] = Descend(s, cur)]
           /\ UNCHANGED <<heads, leaves, mapped>>
  /\ UNCHANGED ops

\* compare_exchange_weak(null, node_ptr): Ok installs the thread's node;
\* Err(p) with p non-null munmaps it and adopts p.  A spurious Err(null)
\* retries the same exchange from the same state and is not a step here.
Cas(t) ==
  LET s == th[t]
      cur == heads[s.node][HeadIdx(s.k)]
  IN /\ s.pc = "cas"
     /\ \/ /\ cur = Null
           /\ heads' = [heads EXCEPT ![s.node][HeadIdx(s.k)] = s.mine]
           /\ th' = [th EXCEPT ![t] = Descend(s, s.mine)]
           /\ UNCHANGED <<leaves, mapped>>
        \/ /\ cur # Null
           /\ mapped' = mapped \ {s.mine}
           /\ th' = [th EXCEPT ![t] = Descend(s, cur)]
           /\ UNCHANGED <<heads, leaves>>
  /\ UNCHANGED ops

\* mutant: the loop runs for i in 0..=n
WriteSlotInclusive(t) ==
  LET s == th[t]
  IN /\ s.pc = "write"
     /\ leaves' = [leaves EXCEPT ![s.node][LeafIdx(s.k) + s.i] =
                                   IF s.op = "insert" THEN s.v ELSE 0]
     /\ th' = [th EXCEPT ![t] = IF s.i = s.n THEN IdleTh(0)
                                ELSE [s EXCEPT !.i = s.i + 1]]
     /\ UNCHANGED <<heads, mapped, ops>>

\* one iteration of RadixBottom128Node::insert / remove:
\* self.nodes[idx + i] = v (or 0); Ok(()) after the last
WriteSlot(t) ==
  LET s == th[t]
  IN /\ s.pc = "write"
     /\ leaves' = [leaves EXCEPT ![s.node][LeafIdx(s.k) + s.i] =
                                   IF s.op = "insert" THEN s.v ELSE 0]
     /\ th' = [th EXCEPT ![t] = IF s.i + 1 = s.n THEN IdleTh(0)
                                ELSE [s EXCEPT !.i = s.i + 1]]
     /\ UNCHANGED <<heads, mapped, ops>>

\* RadixBottom128Node::get_mut: self.nodes[idx]
ReadSlot(t) ==
  /\ th[t].pc = "read"
  /\ th' = [th EXCEPT ![t] = IdleTh(leaves[th[t].node][LeafIdx(th[t].k)])]
  /\ UNCHANGED <<heads, leaves, mapped, ops>>

\* the callers have made their calls and every call has returned
Done ==
  /\ ops = MaxOps
  /\ \A t \in Threads : th[t].pc = "idle"
  /\ UNCHANGED vars

Next ==
  \/ \E t \in Threads :
       \/ Call(t)
       \/ Load(t) \/ Cas(t) \/ WriteSlot(t) \/ ReadSlot(t)
  \/ Done

Spec == Init /\ [][Next]_vars

-----------------------------------------------------------------------------
\* The bottom node of a key, following the slots from node at level lvl
\* (Null when a slot on the way is null): the path get_mut walks.
RECURSIVE LeafNode(_, _, _)
LeafNode(m, k, lvl) ==
  IF lvl > Heads THEN m
  ELSE LET p == heads[m][HeadIdx(k)]
       IN IF p = Null THEN Null ELSE LeafNode(p, Shift(k), lvl + 1)

\* the nodes linked under the root, level by level
RECURSIVE Linked(_)
Linked(d) ==
  IF d = 0 THEN {Root}
  ELSE LET up == Linked(d - 1)
       IN up \cup ({heads[m][i] : m \in up, i \in 0 .. Fan - 1} \ {Null})

\* nodes a thread holds between its mmap and its CAS
Pending == {th[t].mine : t \in {u \in Threads : th[u].pc = "cas"}}

\* The variables keep their types, a call returns a value or NullRead, and a
\* thread in the bottom loop of insert or remove writes inside its node
\* (self.nodes[idx + i] would panic otherwise).
TypeOK ==
  /\ mapped \subseteq NodeIds
  /\ ops \in 0 .. MaxOps
  /\ \A t \in Threads :
       /\ th[t].pc \in {"idle", "load", "cas", "write", "read"}
       /\ th[t].pc = "idle" => th[t].ret \in Vals \cup {0, NullRead}
       /\ th[t].pc = "write" => th[t].i < th[t].n /\ LeafIdx(th[t].k) + th[t].i < Leaf

\* Every mmap'd node is linked into the tree or held by one thread between
\* its mmap and its CAS, never both, and no two threads hold the same one:
\* the CAS loser of RadixNode128Head::insert munmaps its own node, not the
\* winner's, and adopts the winner's instead of writing into its own.
NodesAccounted ==
  /\ mapped = Linked(Heads) \cup Pending
  /\ Linked(Heads) \cap Pending = {}
  /\ \A t, u \in Threads :
       t # u /\ th[t].pc = "cas" /\ th[u].pc = "cas" => th[t].mine # th[u].mine

\* The calls are linearisable to RadixMap: the slot writes of every insert
\* and remove land in the bottom node that get_mut of the same key reads,
\* and get_mut returns what the map holds at the step it reads, although the
\* path, the CAS races and the range loops of other threads interleave.
Abstract == INSTANCE RadixMap WITH
  tree <- [g \in Groups |->
             LET m == LeafNode(Root, g * 2 ^ (W - Heads * HB), 1)
             IN IF m = Null THEN [s \in {} |-> 0] ELSE leaves[m]],
  Slots <- 0 .. Leaf - 1,
  call <- [t \in Threads |->
             IF th[t].pc = "idle"
             THEN [op |-> "idle", key |-> 0, v |-> 0, n |-> 0, i |-> 0, ret |-> th[t].ret]
             ELSE [op |-> th[t].op, key |-> th[t].key, v |-> th[t].v,
                   n |-> th[t].n, i |-> th[t].i, ret |-> 0]]
Refines == Abstract!Spec
=============================================================================

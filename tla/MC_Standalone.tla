--------------------------- MODULE MC_Standalone ---------------------------
(***************************************************************************)
(* Components that share no state with each other, checked side by side   *)
(* in one model: the bounded MPMC queue (MpMcQueue), the lazy statics     *)
(* with META_BUMP and the radix root (Bootstrap, whose per-thread record   *)
(* th is renamed bth here), and the radix trees of radix_tree.rs (R64) and *)
(* radix_tree_128.rs (R128), both RadixTree with their own variables, and *)
(* the rseq per-CPU arrays of concurrent.rs (PA, PerCpuArray).            *)
(* Init picks which component runs; it takes                               *)
(* every step and the other keeps its initial state, so the reachable      *)
(* states are the disjoint union of the models' own, and each property     *)
(* below is the component's property on its own variables.                *)
(***************************************************************************)
EXTENDS Integers

CONSTANTS
  Threads, N, Calls, MaxOps, Starts,                          \* MpMcQueue
  TcBytes, ZoneBytes, ListsBytes, MetaBases, MmapMayFail, Refills, \* Bootstrap
  RdThreads, RdNodeIds, RdVals, RdLens, RdOps,               \* RadixTree
  PaCpus                                                     \* PerCpuArray

VARIABLES
  which,                                                \* the component run
  seq, data, enqPos, deqPos, th, calls, enqd, deqd, freed,  \* MpMcQueue
  mb, backup, mapped, zone, lists, tsd, pkey, keys, tc, saved, given,
  rdptr, rdnode, rdmaps, bth,                           \* Bootstrap
  h64, l64, m64, t64, o64, h128, l128, m128, t128, o128,  \* RadixTree
  pahdr, padata, pacpu, path, paops                     \* PerCpuArray

Q == INSTANCE MpMcQueue
BT == INSTANCE Bootstrap WITH th <- bth
\* radix_tree.rs: usize keys (page address << 16), one RadixNodeHead of
\* 2^18 slots over RadixBottomNode; scaled to 5-bit keys, 2 and 4 slots
R64 == INSTANCE RadixTree WITH Threads <- RdThreads, W <- 5, HB <- 1, LB <- 2,
         Heads <- 1, NullRead <- 0, NodeIds <- RdNodeIds, Root <- 1,
         Keys <- {0, 4, 16}, Vals <- RdVals, Lens <- RdLens, MaxOps <- RdOps,
         heads <- h64, leaves <- l64, mapped <- m64, th <- t64, ops <- o64
\* radix_tree_128.rs: u128 keys, five head levels; scaled to 3-bit keys,
\* two head levels and bottom nodes of 2 slots
R128 == INSTANCE RadixTree WITH Threads <- RdThreads, W <- 3, HB <- 1, LB <- 1,
         Heads <- 2, NullRead <- -1, NodeIds <- RdNodeIds, Root <- 1,
         Keys <- {0, 1, 2}, Vals <- RdVals, Lens <- RdLens, MaxOps <- RdOps,
         heads <- h128, leaves <- l128, mapped <- m128, th <- t128, ops <- o128
\* concurrent.rs: 63 classes of 63 words in 2^18-byte blocks; scaled to two
\* classes of two words, two CPUs, the threads of the trees
PA == INSTANCE PerCpuArray WITH Threads <- RdThreads, Cpus <- PaCpus,
        NumArrs <- 2, DataLen <- 48, Vals <- RdVals, MaxOps <- RdOps,
        hdr <- pahdr, data <- padata, cpu <- pacpu, th <- path, ops <- paops

qvars == <<seq, data, enqPos, deqPos, th, calls, enqd, deqd, freed>>
btvars == <<mb, backup, mapped, zone, lists, tsd, pkey, keys, tc, saved, given,
           rdptr, rdnode, rdmaps, bth>>
r64vars == <<h64, l64, m64, t64, o64>>
r128vars == <<h128, l128, m128, t128, o128>>
pavars == <<pahdr, padata, pacpu, path, paops>>
vars == <<which, qvars, btvars, r64vars, r128vars, pavars>>

\* one fixed initial state of each component that does not run
Fixed(x, Vals) == x = CHOOSE v \in Vals : \A w \in Vals : v <= w

Init ==
  /\ which \in {"queue", "bootstrap", "radix64", "radix128", "percpu"}
  /\ Q!Init /\ BT!Init /\ R64!Init /\ R128!Init /\ PA!Init
  /\ which # "queue" => Fixed(enqPos, Starts)

\* a step of the queue, with the other components unchanged
QAct(A) == which = "queue" /\ A /\ UNCHANGED <<which, btvars, r64vars, r128vars, pavars>>

Next ==
  \/ QAct(Q!Next)
  \/ which = "bootstrap" /\ BT!Next /\ UNCHANGED <<which, qvars, r64vars, r128vars, pavars>>
  \/ which = "radix64" /\ R64!Next /\ UNCHANGED <<which, qvars, btvars, r128vars, pavars>>
  \/ which = "radix128" /\ R128!Next /\ UNCHANGED <<which, qvars, btvars, r64vars, pavars>>
  \/ which = "percpu" /\ PA!Next /\ UNCHANGED <<which, qvars, btvars, r64vars, r128vars>>

\* MpMcQueue's fairness, on the queue's steps
Fairness ==
  \A t \in Threads :
    /\ WF_vars(QAct(Q!Step(t)))
    /\ SF_vars(QAct(Q!EnqCas(t)))
    /\ SF_vars(QAct(Q!DeqCas(t)))

Spec == Init /\ [][Next]_vars /\ Fairness

\* the components' properties, stated in their modules
Q_TypeOK == Q!TypeOK
Q_ExactlyOnceInOrder == Q!ExactlyOnceInOrder
Q_ErrOnlyWhenFull == Q!ErrOnlyWhenFull
Q_LiveCallsReturn == Q!LiveCallsReturn
BT_TypeOK == BT!TypeOK
BT_MetaBlocksDisjoint == BT!MetaBlocksDisjoint
BT_SavedUnderCreatedKey == BT!SavedUnderCreatedKey
BT_RadixMaps == BT!RadixMaps
\* both trees' TypeOK: in radix_tree.rs and radix_tree_128.rs every slot
\* write of the bottom node's loop stays inside its node
R_TypeOK == R64!TypeOK /\ R128!TypeOK
R128_NodesAccounted == R128!NodesAccounted
\* R64!Refines and R128!Refines, restricted to their component's steps: a
\* step of another component leaves the tree's variables, and so the
\* abstract map and calls, unchanged, so each is the same property as the
\* tree implementing RadixMap, without evaluating the mapping on the steps
\* of the other components.
\* The trees of radix_tree.rs (R64) and radix_tree_128.rs (R128) implement
\* RadixMap: every insert, remove and get_mut, racing on the lazy creation
\* of interior and bottom nodes, acts as slot-at-a-time writes to one map.
R64_Refines == R64!Abstract!Init /\ [][which # "radix64" \/ [R64!Abstract!Next]_(R64!Abstract!absvars)]_vars
\* the same for radix_tree_128.rs, whose get_mut of an absent group reads -1
R128_Refines == R128!Abstract!Init /\ [][which # "radix128" \/ [R128!Abstract!Next]_(R128!Abstract!absvars)]_vars
PA_TypeOK == PA!TypeOK
\* PA!Refines restricted to the array's steps, as for the trees: the rseq
\* push and pop of concurrent.rs act as atomic per-CPU stack operations
PA_Refines == PA!Abstract!Init /\ [][which # "percpu" \/ [PA!Abstract!Next]_(PA!Abstract!absvars)]_vars

MCStarts == {0, 255}
MCCalls == {"enq", "deq"}
\* the sizes and mmap bases of MC_Bootstrap
MCMetaBases == <<1073741824, 536870912>>
=============================================================================

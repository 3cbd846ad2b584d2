------------------------------ MODULE RadixMap ------------------------------
(***************************************************************************)
(* What the radix trees of collections/radix_tree.rs and radix_tree_128.rs *)
(* promise their callers: a map from keys to values, read and written by   *)
(* concurrent calls.  Keys come in groups of consecutive slots: the keys   *)
(* of one group share a leaf, and a group is either absent (every key of   *)
(* it reads NullRead) or present (an unwritten key of it reads 0).         *)
(*                                                                         *)
(* A call is linearised one slot at a time, as the trees write a range:    *)
(*   - insert(key, v, n) makes the key's group present, then writes v to   *)
(*     the n slots from the key's, one write at a time;                    *)
(*   - remove(key, n) returns at once when the group is absent, and else   *)
(*     writes 0 to the n slots one at a time;                              *)
(*   - get_mut(key) returns the key's value in one step.                   *)
(***************************************************************************)
EXTENDS Integers

CONSTANTS
  Threads,
  Groups,     \* the leaf groups
  Slots,      \* the slots of a group
  GroupOf(_), \* the group of a key
  SlotOf(_),  \* the slot of a key in its group
  NullRead,   \* what get_mut returns for a key of an absent group
  Calls       \* the calls the callers make: records [op, key, v, n]

VARIABLES
  tree,       \* per group: Absent, or the values of its slots
  call        \* per thread: its call, how many slots it has written, its result

absvars == <<tree, call>>

\* no leaf: the function with no slots
Absent == [s \in {} |-> 0]

Idle == [op |-> "idle", key |-> 0, v |-> 0, n |-> 0, i |-> 0, ret |-> 0]

Read(k) == IF tree[GroupOf(k)] = Absent THEN NullRead ELSE tree[GroupOf(k)][SlotOf(k)]

Init ==
  /\ tree = [g \in Groups |-> Absent]
  /\ call = [t \in Threads |-> Idle]

Invoke(t, c) ==
  /\ call[t].op = "idle"
  /\ call' = [call EXCEPT ![t] = [op |-> c.op, key |-> c.key, v |-> c.v,
                                   n |-> c.n, i |-> 0, ret |-> 0]]
  /\ UNCHANGED tree

\* the insert that makes its key's group present
Materialise(t) ==
  LET g == GroupOf(call[t].key)
  IN /\ call[t].op = "insert"
     /\ tree[g] = Absent
     /\ tree' = [tree EXCEPT ![g] = [s \in Slots |-> 0]]
     /\ UNCHANGED call

\* one write of an insert or a remove; the last one returns
WriteOne(t) ==
  LET c == call[t]
      g == GroupOf(c.key)
  IN /\ c.op \in {"insert", "remove"}
     /\ tree[g] # Absent
     /\ tree' = [tree EXCEPT ![g][SlotOf(c.key) + c.i] =
                               IF c.op = "insert" THEN c.v ELSE 0]
     /\ call' = [call EXCEPT ![t] = IF c.i + 1 = c.n THEN Idle
                                    ELSE [c EXCEPT !.i = c.i + 1]]

RemoveAbsent(t) ==
  /\ call[t].op = "remove"
  /\ tree[GroupOf(call[t].key)] = Absent
  /\ call' = [call EXCEPT ![t] = Idle]
  /\ UNCHANGED tree

Get(t) ==
  /\ call[t].op = "get"
  /\ call' = [call EXCEPT ![t] = [Idle EXCEPT !.ret = Read(call[t].key)]]
  /\ UNCHANGED tree

Next ==
  \E t \in Threads :
    \/ \E c \in Calls : Invoke(t, c)
    \/ Materialise(t) \/ WriteOne(t) \/ RemoveAbsent(t) \/ Get(t)

Spec == Init /\ [][Next]_absvars
=============================================================================

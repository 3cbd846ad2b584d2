---------------------------- MODULE PerCpuStacks ----------------------------
(***************************************************************************)
(* What PerCpuArray (collections/concurrent.rs) promises: per CPU and per  *)
(* class, a bounded stack of usize items.  A call runs on the CPU its      *)
(* thread is on when it takes effect, and takes effect in one step:        *)
(*   - push(idx, val) appends val, or, when the stack holds Cap items,     *)
(*     returns Err(cpu) (what err_handler(cpu_id) is given);               *)
(*   - pop(idx) removes and returns the top item, or, when the stack is    *)
(*     empty, returns Err(cpu).                                            *)
(* Threads move between CPUs at any time.                                  *)
(***************************************************************************)
EXTENDS Integers, Sequences

CONSTANTS
  Threads,
  Cpus,
  Classes,   \* the size-class indices idx
  Vals,      \* the items pushed
  Cap        \* the capacity of a stack

VARIABLES
  stack,     \* per CPU, per class: the items, the top last
  cpu,       \* the CPU each thread runs on
  call       \* per thread: its pending call, or "idle" and the last result

absvars == <<stack, cpu, call>>

Ok(x) == [ok |-> TRUE, val |-> x]
Err(c) == [ok |-> FALSE, val |-> c]
Idle(r) == [op |-> "idle", cl |-> 0, v |-> 0, ret |-> r]

Init ==
  /\ stack = [c \in Cpus |-> [cl \in Classes |-> <<>>]]
  /\ cpu \in [Threads -> Cpus]
  /\ call = [t \in Threads |-> Idle(Ok(0))]

Invoke(t) ==
  /\ call[t].op = "idle"
  /\ \E cl \in Classes :
       \/ \E v \in Vals : call' = [call EXCEPT ![t] = [op |-> "push", cl |-> cl, v |-> v, ret |-> Ok(0)]]
       \/ call' = [call EXCEPT ![t] = [op |-> "pop", cl |-> cl, v |-> 0, ret |-> Ok(0)]]
  /\ UNCHANGED <<stack, cpu>>

Push(t) ==
  LET c == cpu[t]
      s == stack[c][call[t].cl]
  IN /\ call[t].op = "push"
     /\ IF Len(s) < Cap
        THEN /\ stack' = [stack EXCEPT ![c][call[t].cl] = Append(s, call[t].v)]
             /\ call' = [call EXCEPT ![t] = Idle(Ok(0))]
        ELSE /\ call' = [call EXCEPT ![t] = Idle(Err(c))]
             /\ UNCHANGED stack
     /\ UNCHANGED cpu

Pop(t) ==
  LET c == cpu[t]
      s == stack[c][call[t].cl]
  IN /\ call[t].op = "pop"
     /\ IF s # <<>>
        THEN /\ stack' = [stack EXCEPT ![c][call[t].cl] = SubSeq(s, 1, Len(s) - 1)]
             /\ call' = [call EXCEPT ![t] = Idle(Ok(s[Len(s)]))]
        ELSE /\ call' = [call EXCEPT ![t] = Idle(Err(c))]
             /\ UNCHANGED stack
     /\ UNCHANGED cpu

Migrate(t) ==
  /\ \E c \in Cpus : cpu' = [cpu EXCEPT ![t] = c]
  /\ UNCHANGED <<stack, call>>

Next == \E t \in Threads : Invoke(t) \/ Push(t) \/ Pop(t) \/ Migrate(t)

Spec == Init /\ [][Next]_absvars
=============================================================================

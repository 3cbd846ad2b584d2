----------------------------- MODULE PerCpuArray -----------------------------
(***************************************************************************)
(* PerCpuArray<NCPU> of collections/concurrent.rs: one FlatArrayList per   *)
(* CPU, each a block of NUM_ARRS header words (FlatArrayHeader: current,   *)
(* end_copy, begin, end, word offsets from the block) followed by DATA_LEN *)
(* data words.  init gives class cl the words [begin, end) with begin =    *)
(* current, and stores at word begin its own address as a prefetch target. *)
(*                                                                         *)
(* push and pop are restartable sequences (rseq): the section reads the    *)
(* CPU id, then the class header, and commits with its last store.  A     *)
(* preemption, a migration or another thread running on the CPU before    *)
(* the commit aborts the section, and the abort handler jumps back to its  *)
(* start.  pop has one store, so a pop section is one step.  push stores   *)
(* the item at word current and then stores current + 1: the first store   *)
(* and the commit are two steps, and an abort between them leaves the item *)
(* in the word above the stack and restarts the push.                      *)
(*                                                                         *)
(* Each thread's RSEQ_ABI.cpu_id is -1 until register_current_thread_    *)
(* checked(), the first thing push and pop do, registers it with the       *)
(* kernel; the registration is taken to succeed (a failed rseq syscall     *)
(* panics).                                                                *)
(***************************************************************************)
EXTENDS Integers

CONSTANTS
  Threads,   \* threads calling push and pop (model values)
  Cpus,      \* the CPUs, one FlatArrayList each (model values)
  NumArrs,   \* NUM_ARRS = TOTAL_SIZE_CLASS: classes and header words
  DataLen,   \* DATA_LEN: data words after the headers
  Vals,      \* the non-zero items pushed
  MaxOps     \* bound on the calls made

VARIABLES
  hdr,       \* per CPU, per class: the FlatArrayHeader
  data,      \* per CPU: word offset -> usize
  cpu,       \* per thread: RSEQ_ABI.cpu_id, the CPU it runs on, or -1
  th,        \* per thread: [pc, op, cl, v, c, h, ret]
  ops        \* calls made

vars == <<hdr, data, cpu, th, ops>>

Classes == 0 .. NumArrs - 1


\* initial_capacity(): (DATA_LEN >> 3) / TOTAL_SIZE_CLASS - 1
InitialCapacity == (DataLen \div 8) \div NumArrs - 1

\* byte_used / 8 when init reaches class cl: HDR_SIZE / 8 header words
\* first, then InitialCapacity words per class
Offset(cl) == NumArrs + cl * InitialCapacity

\* the data words init hands out; the rest of DATA_LEN is never addressed
Words == NumArrs .. Offset(NumArrs) - 1

\* the header init stores for class cl: current == begin, end_copy == end
InitHeader(cl) ==
  [current |-> Offset(cl), end_copy |-> Offset(cl) + InitialCapacity,
   begin |-> Offset(cl), end |-> Offset(cl) + InitialCapacity]

\* the address of word w of a block, stored as its prefetch target
Addr(w) == 4096 + 8 * w

\* RSEQ_CPU_ID_UNINITIALIZED: the cpu_id rseq::new() gives RSEQ_ABI
RSEQ_CPU_ID_UNINITIALIZED == -1

\* is_registered(): cpu_id() >= 0, i.e. the kernel has written a CPU id
is_registered(t) == cpu[t] # RSEQ_CPU_ID_UNINITIALIZED

Ok(x) == [ok |-> TRUE, val |-> x]
Err(c) == [ok |-> FALSE, val |-> c]
IdleTh(r) == [pc |-> "idle", op |-> "idle", cl |-> 0, v |-> 0, c |-> CHOOSE c \in Cpus : TRUE,
              h |-> 0, ret |-> r]

\* FlatArrayList::new() then init(): headers and data zeroed, every header
\* locked (overwritten below), then per class the prefetch target stored at
\* word begin when the capacity is not 0, and the header stored
FlatArrayInit ==
  [hdr  |-> [cl \in Classes |-> InitHeader(cl)],
   data |-> [w \in Words |-> IF InitialCapacity # 0 /\ \E cl \in Classes : w = Offset(cl)
                            THEN Addr(w) ELSE 0]]

\* PerCpuArray::new() then init(): one initialised FlatArrayList per CPU
Init ==
  /\ hdr = [c \in Cpus |-> FlatArrayInit.hdr]
  /\ data = [c \in Cpus |-> FlatArrayInit.data]
  /\ cpu = [t \in Threads |-> RSEQ_CPU_ID_UNINITIALIZED]
  /\ th = [t \in Threads |-> IdleTh(Ok(0))]
  /\ ops = 0

\* register_current_thread_checked() at the head of push and pop: a thread
\* not yet registered calls sys_rseq(&RSEQ_ABI, size_of::<rseq>(), 0,
\* RSEQ_SIG), and the kernel writes the CPU the thread is on into cpu_id;
\* a registered thread returns at once, which is no step
Register(t) ==
  /\ th[t].pc \in {"push", "pop"}
  /\ ~is_registered(t)
  /\ \E c \in Cpus : cpu' = [cpu EXCEPT ![t] = c]
  /\ UNCHANGED <<hdr, data, th, ops>>

\* thread t runs a section on CPU c: every other thread that was inside a
\* push section on c was preempted, and restarts
Abort(t, c) ==
  [u \in Threads |-> IF u # t /\ th[u].pc = "commit" /\ th[u].c = c
                     THEN [th[u] EXCEPT !.pc = "push"] ELSE th[u]]

\* a caller invokes push(idx, val, ..) or pop(idx, ..)
Call(t) ==
  /\ th[t].pc = "idle"
  /\ ops < MaxOps
  /\ \E cl \in Classes :
       \/ \E v \in Vals :
            th' = [th EXCEPT ![t] = [IdleTh(Ok(0)) EXCEPT !.pc = "push", !.op = "push",
                                                          !.cl = cl, !.v = v]]
       \/ th' = [th EXCEPT ![t] = [IdleTh(Ok(0)) EXCEPT !.pc = "pop", !.op = "pop", !.cl = cl]]
  /\ ops' = ops + 1
  /\ UNCHANGED <<hdr, data, cpu>>

\* mutant: the store and the commit outside a restartable sequence; a
\* thread preempted between them is not restarted
PushStoreNoAbort(t) ==
  LET s == th[t]
      c == cpu[t]
      h == hdr[c][s.cl].current
  IN /\ s.pc = "push"
     /\ is_registered(t)
     /\ IF h >= hdr[c][s.cl].end
        THEN /\ th' = [th EXCEPT ![t] = IdleTh(Err(c))]
             /\ UNCHANGED data
        ELSE /\ th' = [th EXCEPT ![t] = [s EXCEPT !.pc = "commit", !.c = c, !.h = h]]
             /\ data' = [data EXCEPT ![c][h] = s.v]
     /\ UNCHANGED <<hdr, cpu, ops>>

\* push, from label 4 to the first store: load cpu_id, header.current;
\* current >= end jumps to 5 and the call returns err_handler(cpu_id);
\* else word current := item
PushStore(t) ==
  LET s == th[t]
      c == cpu[t]
      h == hdr[c][s.cl].current
  IN /\ s.pc = "push"
     /\ is_registered(t)
     /\ IF h >= hdr[c][s.cl].end
        THEN /\ th' = [Abort(t, c) EXCEPT ![t] = IdleTh(Err(c))]
             /\ UNCHANGED data
        ELSE /\ th' = [Abort(t, c) EXCEPT ![t] = [s EXCEPT !.pc = "commit", !.c = c, !.h = h]]
             /\ data' = [data EXCEPT ![c][h] = s.v]
     /\ UNCHANGED <<hdr, cpu, ops>>

\* push, the commit: header.current := current + 1; r11 == before + 1: Ok
PushCommit(t) ==
  LET s == th[t]
  IN /\ s.pc = "commit"
     /\ hdr' = [hdr EXCEPT ![s.c][s.cl].current = s.h + 1]
     /\ th' = [th EXCEPT ![t] = IdleTh(Ok(0))]
     /\ UNCHANGED <<data, cpu, ops>>

\* mutant: the underflow test as jb (current < begin) instead of jbe; the
\* word below class 0 is a header word, outside data, read here as 0
PopBelowBegin(t) ==
  LET s == th[t]
      c == cpu[t]
      h == hdr[c][s.cl].current
  IN /\ s.pc = "pop"
     /\ is_registered(t)
     /\ IF h < hdr[c][s.cl].begin
        THEN /\ th' = [Abort(t, c) EXCEPT ![t] = IdleTh(Err(c))]
             /\ UNCHANGED hdr
        ELSE /\ hdr' = [hdr EXCEPT ![c][s.cl].current = h - 1]
             /\ th' = [Abort(t, c) EXCEPT ![t] = IdleTh(Ok(IF h - 1 \in Words THEN data[c][h - 1] ELSE 0))]
     /\ UNCHANGED <<data, cpu, ops>>

\* pop: current <= begin jumps to 5 and the call returns err_handler(cpu);
\* else result := word current - 1 and the commit stores current - 1
Pop(t) ==
  LET s == th[t]
      c == cpu[t]
      h == hdr[c][s.cl].current
  IN /\ s.pc = "pop"
     /\ is_registered(t)
     /\ IF h <= hdr[c][s.cl].begin
        THEN /\ th' = [Abort(t, c) EXCEPT ![t] = IdleTh(Err(c))]
             /\ UNCHANGED hdr
        ELSE /\ hdr' = [hdr EXCEPT ![c][s.cl].current = h - 1]
             /\ th' = [Abort(t, c) EXCEPT ![t] = IdleTh(Ok(data[c][h - 1]))]
     /\ UNCHANGED <<data, cpu, ops>>

\* the scheduler preempts a registered thread t and resumes it on CPU c
\* (maybe the same), and the kernel updates its cpu_id: a push section it
\* was inside aborts and restarts
Migrate(t) ==
  /\ is_registered(t)
  /\ \E c \in Cpus : cpu' = [cpu EXCEPT ![t] = c]
  /\ th' = [th EXCEPT ![t].pc = IF @ = "commit" THEN "push" ELSE @]
  /\ UNCHANGED <<hdr, data, ops>>

\* the callers have made their calls and every call has returned
Done ==
  /\ ops = MaxOps
  /\ \A t \in Threads : th[t].pc = "idle"
  /\ UNCHANGED vars

Next ==
  \/ \E t \in Threads :
       Call(t) \/ Register(t) \/ PushStore(t) \/ PushCommit(t) \/ Pop(t) \/ Migrate(t)
  \/ Done

Spec == Init /\ [][Next]_vars

-----------------------------------------------------------------------------
(* Properties *)

\* Every header keeps begin <= current <= end inside its class's words, so
\* no push of either section writes past its class and no pop's item load
\* reads below it (the prefetch load of word current - 2 is not modelled);
\* the words of the classes do not overlap.
TypeOK ==
  /\ \A c \in Cpus, cl \in Classes :
       /\ hdr[c][cl].begin = Offset(cl) /\ hdr[c][cl].end = Offset(cl) + InitialCapacity
       /\ hdr[c][cl].begin <= hdr[c][cl].current
       /\ hdr[c][cl].current <= hdr[c][cl].end
       /\ Offset(NumArrs) <= NumArrs + DataLen
  /\ \A t \in Threads : th[t].pc = "commit" => th[t].h \in Words
  /\ cpu \in [Threads -> Cpus \cup {RSEQ_CPU_ID_UNINITIALIZED}]
  /\ \A t \in Threads : th[t].pc = "commit" => is_registered(t)
  /\ ops \in 0 .. MaxOps

\* the items of class cl on CPU c: words begin .. current - 1, word begin
\* included, since init sets current = begin (concurrent.rs:165-166) and
\* push stores its first item at word current (concurrent.rs:345)
Stack(c, cl) ==
  [i \in 1 .. hdr[c][cl].current - hdr[c][cl].begin |-> data[c][hdr[c][cl].begin + i - 1]]

Abstract == INSTANCE PerCpuStacks WITH
  Classes <- Classes, Cap <- InitialCapacity,
  cpu <- [t \in Threads |-> IF is_registered(t) THEN cpu[t] ELSE CHOOSE c \in Cpus : TRUE],
  stack <- [c \in Cpus |-> [cl \in Classes |-> Stack(c, cl)]],
  call <- [t \in Threads |->
             IF th[t].pc = "idle"
             THEN [op |-> "idle", cl |-> 0, v |-> 0, ret |-> th[t].ret]
             ELSE [op |-> th[t].op, cl |-> th[t].cl, v |-> th[t].v, ret |-> Ok(0)]]

\* push and pop, run as restartable sequences by threads that are preempted
\* and migrate at any point, act as atomic pushes and pops of per-CPU
\* stacks: no item is lost or read twice when a push is aborted between
\* its store and its commit and another thread pushes or pops on the CPU
\* in between, and Err(cpu) names a CPU whose stack was full (push) or
\* empty (pop) at that moment.
Refines == Abstract!Spec

\* The comments on FlatArrayList (concurrent.rs:99-100) and in init
\* (concurrent.rs:148-149) say word begin of every class is never used for
\* an item and always holds its own address, the target of pop's prefetch.
PrefetchTargetKept ==
  \A c \in Cpus, cl \in Classes :
    InitialCapacity # 0 => data[c][Offset(cl)] = Addr(Offset(cl))
=============================================================================

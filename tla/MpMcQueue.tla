----------------------------- MODULE MpMcQueue -----------------------------
(***************************************************************************)
(* The bounded lock-free queue MpMcQueue<T, N> of mpmc.rs (Q2 ... Q512;    *)
(* GLOBAL_BG_THREAD in bg_thread.rs is a Q512).  A cell holds a sequence   *)
(* number and a slot; enqueue_pos and dequeue_pos are claimed by          *)
(* compare_exchange_weak.  Every atomic access of enqueue() and dequeue()  *)
(* is one step of the calling thread, so other threads interleave between  *)
(* the position load, the sequence load, the CAS, the slot access and the  *)
(* sequence store.                                                         *)
(*                                                                         *)
(* The position difference is computed as in the code, on the low 8 bits  *)
(* ((seq as i8).wrapping_sub(pos as i8)); positions are usize and never    *)
(* wrap within the model's bound.                                          *)
(***************************************************************************)
EXTENDS Integers, FiniteSets

CONSTANTS
  Threads,   \* threads calling the queue
  N,         \* capacity, a power of two
  Calls,     \* the calls the threads make: a subset of {"enq", "deq"}
  MaxOps,    \* bound on the number of calls; call k enqueues item k
  Starts     \* dequeue_pos = enqueue_pos of the empty queue at the start

ASSUME N \in {2 ^ k : k \in 1 .. 9}

VARIABLES
  seq,       \* cell i's sequence number
  data,      \* cell i's slot: an item, or None when never written
  enqPos,    \* enqueue_pos
  deqPos,    \* dequeue_pos
  th,        \* per thread: [pc, pos, item, call, res]
  calls,     \* calls started
  enqd,      \* history: [pos, item] of every completed enqueue
  deqd,      \* history: [pos, item, call] of every slot a dequeue read
  freed      \* history: positions whose cell a dequeue has released

vars == <<seq, data, enqPos, deqPos, th, calls, enqd, deqd, freed>>

Cells == 0 .. N - 1
Items == 1 .. MaxOps
None == 0

\* usize & MASK
CellOf(pos) == pos % N

\* (x as i8): the low 8 bits read as a signed byte
I8(x) == LET r == x % 256 IN IF r >= 128 THEN r - 256 ELSE r

\* the cells of an empty queue whose positions have reached p: cell i was
\* last released by the largest position q < p on it (sequence q + N), or
\* never used (its initial sequence i)
EmptyAt(p) ==
  [i \in Cells |-> IF i < p THEN (p - 1 - ((p - 1 - i) % N)) + N ELSE i]

Idle == [pc |-> "idle", pos |-> 0, item |-> None, call |-> 0, res |-> "none"]

-----------------------------------------------------------------------------
Init ==
  \E p \in Starts :
    /\ seq = EmptyAt(p)
    /\ data = [i \in Cells |-> None]
    /\ enqPos = p
    /\ deqPos = p
    /\ th = [t \in Threads |-> Idle]
    /\ calls = 0
    /\ enqd = {}
    /\ deqd = {}
    /\ freed = 0 .. p - 1

Goto(t, pc) == th' = [th EXCEPT ![t].pc = pc]

\* MpMcQueue::enqueue(item) and MpMcQueue::dequeue() are called
StartEnq(t) ==
  /\ "enq" \in Calls
  /\ th[t].pc = "idle"
  /\ calls < MaxOps
  /\ th' = [th EXCEPT ![t] = [Idle EXCEPT !.pc = "eload", !.item = calls + 1,
                                          !.call = calls + 1]]
  /\ calls' = calls + 1
  /\ UNCHANGED <<seq, data, enqPos, deqPos, enqd, deqd, freed>>

StartDeq(t) ==
  /\ "deq" \in Calls
  /\ th[t].pc = "idle"
  /\ calls < MaxOps
  /\ th' = [th EXCEPT ![t] = [Idle EXCEPT !.pc = "dload", !.call = calls + 1]]
  /\ calls' = calls + 1
  /\ UNCHANGED <<seq, data, enqPos, deqPos, enqd, deqd, freed>>

\* enqueue: pos = enqueue_pos.load(), also on the retry of dif > 0
EnqLoad(t) ==
  /\ th[t].pc = "eload"
  /\ th' = [th EXCEPT ![t].pc = "eseq", ![t].pos = enqPos]
  /\ UNCHANGED <<seq, data, enqPos, deqPos, calls, enqd, deqd, freed>>

\* mutant: a position found taken (dif > 0) is tried again without reloading
EnqSeqNoReload(t) ==
  LET dif == I8(seq[CellOf(th[t].pos)] - th[t].pos)
  IN /\ th[t].pc = "eseq"
     /\ CASE dif = 0 -> Goto(t, "ecas")
          [] dif < 0 -> th' = [th EXCEPT ![t].pc = "idle", ![t].res = "err"]
          [] OTHER   -> Goto(t, "eseq")
     /\ UNCHANGED <<seq, data, enqPos, deqPos, calls, enqd, deqd, freed>>

\* enqueue: the sequence of pos's cell decides: claim it (dif = 0), report
\* the queue full (dif < 0, Err(item)), or reload the position (dif > 0)
EnqSeq(t) ==
  LET dif == I8(seq[CellOf(th[t].pos)] - th[t].pos)
  IN /\ th[t].pc = "eseq"
     /\ CASE dif = 0 -> Goto(t, "ecas")
          [] dif < 0 -> th' = [th EXCEPT ![t].pc = "idle", ![t].res = "err"]
          [] OTHER   -> Goto(t, "eload")
     /\ UNCHANGED <<seq, data, enqPos, deqPos, calls, enqd, deqd, freed>>

\* enqueue: compare_exchange_weak(pos, pos + 1) on enqueue_pos; on failure
\* the loop reads the same cell again with the same pos
EnqCas(t) ==
  /\ th[t].pc = "ecas"
  /\ IF enqPos = th[t].pos
     THEN /\ enqPos' = th[t].pos + 1
          /\ Goto(t, "ewrite")
     ELSE /\ Goto(t, "eseq")
          /\ UNCHANGED enqPos
  /\ UNCHANGED <<seq, data, deqPos, calls, enqd, deqd, freed>>

\* compare_exchange_weak may fail although the value matched
EnqCasSpurious(t) ==
  /\ th[t].pc = "ecas"
  /\ Goto(t, "eseq")
  /\ UNCHANGED <<seq, data, enqPos, deqPos, calls, enqd, deqd, freed>>

\* enqueue: (*cell).data.write(item)
EnqWrite(t) ==
  /\ th[t].pc = "ewrite"
  /\ data' = [data EXCEPT ![CellOf(th[t].pos)] = th[t].item]
  /\ Goto(t, "epub")
  /\ UNCHANGED <<seq, enqPos, deqPos, calls, enqd, deqd, freed>>

\* enqueue: sequence.store(pos + 1); Ok(())
EnqPub(t) ==
  /\ th[t].pc = "epub"
  /\ seq' = [seq EXCEPT ![CellOf(th[t].pos)] = th[t].pos + 1]
  /\ enqd' = enqd \cup {[pos |-> th[t].pos, item |-> th[t].item]}
  /\ th' = [th EXCEPT ![t].pc = "idle", ![t].res = "ok"]
  /\ UNCHANGED <<data, enqPos, deqPos, calls, deqd, freed>>

\* dequeue: pos = dequeue_pos.load(), also on the retry of dif > 0
DeqLoad(t) ==
  /\ th[t].pc = "dload"
  /\ th' = [th EXCEPT ![t].pc = "dseq", ![t].pos = deqPos]
  /\ UNCHANGED <<seq, data, enqPos, deqPos, calls, enqd, deqd, freed>>

\* mutant: dequeue compares the sequence with pos, as enqueue does
DeqSeqNoPlusOne(t) ==
  LET dif == I8(seq[CellOf(th[t].pos)] - th[t].pos)
  IN /\ th[t].pc = "dseq"
     /\ CASE dif = 0 -> Goto(t, "dcas")
          [] dif < 0 -> th' = [th EXCEPT ![t].pc = "idle", ![t].res = "none"]
          [] OTHER   -> Goto(t, "dload")
     /\ UNCHANGED <<seq, data, enqPos, deqPos, calls, enqd, deqd, freed>>

\* dequeue: the sequence of pos's cell decides: claim it when it holds the
\* item of position pos (dif = 0), report the queue empty (dif < 0, None),
\* or reload the position (dif > 0)
DeqSeq(t) ==
  LET dif == I8(seq[CellOf(th[t].pos)] - (th[t].pos + 1))
  IN /\ th[t].pc = "dseq"
     /\ CASE dif = 0 -> Goto(t, "dcas")
          [] dif < 0 -> th' = [th EXCEPT ![t].pc = "idle", ![t].res = "none"]
          [] OTHER   -> Goto(t, "dload")
     /\ UNCHANGED <<seq, data, enqPos, deqPos, calls, enqd, deqd, freed>>

\* mutant: dequeue_pos is advanced by a plain store, not a compare-exchange
DeqCasNoCheck(t) ==
  /\ th[t].pc = "dcas"
  /\ deqPos' = th[t].pos + 1
  /\ Goto(t, "dread")
  /\ UNCHANGED <<seq, data, enqPos, calls, enqd, deqd, freed>>

\* dequeue: compare_exchange_weak(pos, pos + 1) on dequeue_pos; on failure
\* the loop reads the same cell again with the same pos
DeqCas(t) ==
  /\ th[t].pc = "dcas"
  /\ IF deqPos = th[t].pos
     THEN /\ deqPos' = th[t].pos + 1
          /\ Goto(t, "dread")
     ELSE /\ Goto(t, "dseq")
          /\ UNCHANGED deqPos
  /\ UNCHANGED <<seq, data, enqPos, calls, enqd, deqd, freed>>

DeqCasSpurious(t) ==
  /\ th[t].pc = "dcas"
  /\ Goto(t, "dseq")
  /\ UNCHANGED <<seq, data, enqPos, deqPos, calls, enqd, deqd, freed>>

\* dequeue: data = (*cell).data.as_ptr().read()
DeqRead(t) ==
  /\ th[t].pc = "dread"
  /\ th' = [th EXCEPT ![t].pc = "dpub", ![t].item = data[CellOf(th[t].pos)]]
  /\ deqd' = deqd \cup {[pos |-> th[t].pos, item |-> data[CellOf(th[t].pos)],
                         call |-> th[t].call]}
  /\ UNCHANGED <<seq, data, enqPos, deqPos, calls, enqd, freed>>

\* mutant: the cell is released with pos + MASK, one short of the next lap
DeqPubOffByOne(t) ==
  /\ th[t].pc = "dpub"
  /\ seq' = [seq EXCEPT ![CellOf(th[t].pos)] = th[t].pos + (N - 1)]
  /\ freed' = freed \cup {th[t].pos}
  /\ th' = [th EXCEPT ![t].pc = "idle", ![t].res = "some"]
  /\ UNCHANGED <<data, enqPos, deqPos, calls, enqd, deqd>>

\* dequeue: sequence.store(pos + MASK + 1), releasing the cell to the
\* enqueue of position pos + N; Some(data)
DeqPub(t) ==
  /\ th[t].pc = "dpub"
  /\ seq' = [seq EXCEPT ![CellOf(th[t].pos)] = th[t].pos + (N - 1) + 1]
  /\ freed' = freed \cup {th[t].pos}
  /\ th' = [th EXCEPT ![t].pc = "idle", ![t].res = "some"]
  /\ UNCHANGED <<data, enqPos, deqPos, calls, enqd, deqd>>

\* the program has made its calls and every call has returned
Done ==
  /\ calls = MaxOps
  /\ \A t \in Threads : th[t].pc = "idle"
  /\ UNCHANGED vars

\* the steps of a call in progress, but the spurious CAS failures
Step(t) ==
  \/ EnqLoad(t) \/ EnqSeq(t) \/ EnqCas(t) \/ EnqWrite(t) \/ EnqPub(t)
  \/ DeqLoad(t) \/ DeqSeq(t) \/ DeqCas(t) \/ DeqRead(t) \/ DeqPub(t)

Next ==
  \/ \E t \in Threads :
       \/ StartEnq(t) \/ StartDeq(t)
       \/ Step(t)
       \/ EnqCasSpurious(t) \/ DeqCasSpurious(t)
  \/ Done

(***************************************************************************)
(* A preempted thread is scheduled again (weak fairness on its steps), and *)
(* a compare_exchange_weak whose value matches does not fail spuriously    *)
(* forever (strong fairness on the CAS).  Nothing forces a thread to call  *)
(* the queue.                                                              *)
(***************************************************************************)
Fairness ==
  \A t \in Threads :
    /\ WF_vars(Step(t))
    /\ SF_vars(EnqCas(t))
    /\ SF_vars(DeqCas(t))

Spec == Init /\ [][Next]_vars /\ Fairness

-----------------------------------------------------------------------------
\* Every dequeue that read a slot read an item some enqueue wrote, never
\* the uninitialised MaybeUninit of a cell.
TypeOK ==
  /\ seq \in [Cells -> Nat]
  /\ data \in [Cells -> Items \cup {None}]
  /\ enqPos \in Nat /\ deqPos \in Nat
  /\ calls \in 0 .. MaxOps
  /\ enqd \subseteq [pos : Nat, item : Items]
  /\ deqd \subseteq [pos : Nat, item : Items, call : Items]
  /\ freed \subseteq Nat

(***************************************************************************)
(* The queue is FIFO and delivers each item once: a dequeue that claimed   *)
(* position p reads the item that the enqueue which claimed p wrote and   *)
(* published, and no two dequeue calls claim the same position.  This     *)
(* rests on the pairing of the sequence check and the compare_exchange of *)
(* both positions in enqueue() and dequeue().                             *)
(***************************************************************************)
ExactlyOnceInOrder ==
  /\ \A d \in deqd : [pos |-> d.pos, item |-> d.item] \in enqd
  /\ \A d, e \in deqd : d.pos = e.pos => d = e

(***************************************************************************)
(* enqueue returns Err(item) only when the queue is full: the cell of its  *)
(* position still belongs to the position N earlier, which a dequeue has  *)
(* not yet released (the i8 difference of the sequence check is negative  *)
(* only then).                                                             *)
(***************************************************************************)
ErrOnlyWhenFull ==
  [][\A t \in Threads :
       (th[t].pc = "eseq" /\ th'[t].res = "err") =>
         /\ th[t].pos >= N
         /\ th[t].pos - N \notin freed]_vars

(***************************************************************************)
(* Every enqueue and dequeue call returns: Ok or Err, Some or None.  The    *)
(* queue never blocks; a thread retries only while another thread is       *)
(* between its CAS and its sequence store, or after losing a CAS.          *)
(***************************************************************************)
LiveCallsReturn ==
  \A t \in Threads : th[t].pc # "idle" ~> th[t].pc = "idle"
=============================================================================

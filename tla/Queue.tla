------------------------------- MODULE Queue --------------------------------
(***************************************************************************)
(* common/queue.cc: the ring buffer behind the virtual consoles.  One slot *)
(* stays free, to tell a full ring from an empty one.  It has no lock: its *)
(* callers run at EL2 with interrupts masked.                              *)
(***************************************************************************)
EXTENDS Naturals, Sequences

CONSTANTS
  kMaxSize,   \* slots of the ring
  Data        \* values of its elements

ASSUME QueueAssumption == kMaxSize \in Nat \ {0} /\ Data \subseteq Nat

VARIABLES
  buff_,      \* the slots; a new queue's page holds anything
  head_,      \* the oldest element
  tail_,      \* the next free slot
  ret         \* what the last call returned (true is 1)

vars == <<buff_, head_, tail_, ret>>

Slots == 0 .. kMaxSize - 1

Init ==
  /\ buff_ \in [Slots -> Data]
  /\ head_ = 0
  /\ tail_ = 0
  /\ ret = 0

\* Faulty: the index runs off the end of the ring one slot late.
SuccLate(i) == IF i = kMaxSize THEN 0 ELSE i + 1

\* The next index, wrapping around.
Succ(i) == IF i + 1 = kMaxSize THEN 0 ELSE i + 1

Empty == head_ = tail_

\* Faulty: the wrap-around is forgotten.
FullUnwrapped == head_ = tail_ + 1

Full == head_ = (tail_ + 1) % kMaxSize

Push(data) ==
  IF Full
  THEN ret' = 0 /\ UNCHANGED <<buff_, head_, tail_>>
  ELSE /\ buff_' = [buff_ EXCEPT ![tail_] = data]
       /\ tail_' = Succ(tail_)
       /\ ret' = 1
       /\ UNCHANGED head_

Pop ==
  IF Empty
  THEN ret' = 0 /\ UNCHANGED <<buff_, head_, tail_>>
  ELSE /\ ret' = buff_[head_]
       /\ head_' = Succ(head_)
       /\ UNCHANGED <<buff_, tail_>>

Next == (\E data \in Data : Push(data)) \/ Pop

Spec == Init /\ [][Next]_vars

-----------------------------------------------------------------------------
(* Properties *)

\* The indices stay inside the ring, whatever is pushed and popped.
TypeOK ==
  /\ buff_ \in [Slots -> Data]
  /\ head_ \in Slots
  /\ tail_ \in Slots
  /\ ret \in Data \cup {0, 1}

\* The elements between the two indices, oldest first.
Count == IF head_ <= tail_ THEN tail_ - head_ ELSE tail_ + kMaxSize - head_

At(i) == IF head_ + i < kMaxSize THEN head_ + i ELSE head_ + i - kMaxSize

Contents == [i \in 1 .. Count |-> buff_[At(i - 1)]]

F == INSTANCE Fifo WITH Capacity <- kMaxSize - 1, q <- Contents

\* Whatever the calls, the ring is a queue of kMaxSize - 1 elements: nothing is
\* lost, overwritten or delivered twice when an index wraps or the ring is full.
ImplementsFifo == F!Spec
=============================================================================

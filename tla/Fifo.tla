-------------------------------- MODULE Fifo --------------------------------
(***************************************************************************)
(* What a Queue promises its callers: a bounded first-in first-out queue.  *)
(* Pushing onto a full one changes nothing and returns false, popping an   *)
(* empty one returns 0.                                                    *)
(***************************************************************************)
EXTENDS Naturals, Sequences

CONSTANTS
  Capacity,   \* how many elements it holds
  Data        \* what it holds

VARIABLES
  q,          \* the elements, oldest first
  ret         \* what the last call returned

Init == q = <<>> /\ ret = 0

Push(x) ==
  IF Len(q) < Capacity
  THEN q' = Append(q, x) /\ ret' = 1
  ELSE q' = q /\ ret' = 0

Pop ==
  IF q = <<>>
  THEN q' = q /\ ret' = 0
  ELSE q' = Tail(q) /\ ret' = Head(q)

Next == (\E x \in Data : Push(x)) \/ Pop

Spec == Init /\ [][Next]_<<q, ret>>
=============================================================================

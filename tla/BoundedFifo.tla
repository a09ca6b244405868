------------------------------ MODULE BoundedFifo ------------------------------
(***************************************************************************)
(* A bounded first-in first-out queue: what XLLFQ and XLEventQueue promise. *)
(***************************************************************************)
EXTENDS Integers, Sequences

CONSTANTS Items, Capacity        \* Capacity \in Nat

VARIABLE queue

Init == queue = <<>>

Enqueue(x) == /\ Len(queue) < Capacity
              /\ queue' = Append(queue, x)

\* x is what the caller gets.
Dequeue(x) == /\ queue # <<>>
              /\ x = Head(queue)
              /\ queue' = Tail(queue)

Next == \E x \in Items : Enqueue(x) \/ Dequeue(x)

Spec == Init /\ [][Next]_queue
================================================================================

------------------------------- MODULE ByteFifo -------------------------------
(* What an interrupt queue promises: a bounded first-in first-out queue of *)
(* bytes.                                                                  *)
EXTENDS Integers, Sequences

CONSTANTS Byte, Capacity

VARIABLES queue,  \* the bytes put and not yet got, the oldest first
          out     \* the last byte got

Init == queue = <<>> /\ out \in Byte

Put(b) == /\ Len(queue) < Capacity
          /\ queue' = Append(queue, b)
          /\ UNCHANGED out

Get == /\ queue # <<>>
       /\ out' = Head(queue)
       /\ queue' = Tail(queue)

Next == Get \/ \E b \in Byte : Put(b)

Spec == Init /\ [][Next]_<<queue, out>>
=============================================================================

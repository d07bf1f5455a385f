------------------------------ MODULE WorkQueue ------------------------------
(***************************************************************************)
(* What the dispatch of packets to the worker threads promises, without    *)
(* rings, locks or signals.  A packet that arrives is appended to one      *)
(* worker's bounded FIFO queue, exactly once; a worker takes packets in    *)
(* order, one at a time.  A queue may fail in two ways only: a packet is   *)
(* pushed when it is full, or taken when it is empty.  A failed queue      *)
(* promises nothing more, but never disturbs the queue of another worker.  *)
(***************************************************************************)
EXTENDS Integers, Sequences

CONSTANTS Workers, Packets, NoPacket, Capacity

VARIABLES arriving,  \* the packet read from a socket and not yet queued
          queue,     \* queue[w]: what worker w has still to take
          inHand,    \* inHand[w]: the packet worker w is processing
          failed     \* failed[w]: the queue of w has over- or underrun

vars == <<arriving, queue, inHand, failed>>

Init ==
  /\ arriving = NoPacket
  /\ queue = [w \in Workers |-> <<>>]
  /\ inHand = [w \in Workers |-> NoPacket]
  /\ failed = [w \in Workers |-> FALSE]

Arrive ==
  /\ arriving = NoPacket
  /\ arriving' \in Packets
  /\ UNCHANGED <<queue, inHand, failed>>

Submit(w) ==
  /\ arriving # NoPacket
  /\ ~failed[w]
  /\ Len(queue[w]) < Capacity
  /\ queue' = [queue EXCEPT ![w] = Append(@, arriving)]
  /\ arriving' = NoPacket
  /\ UNCHANGED <<inHand, failed>>

\* the packet is dropped into a queue that no longer works
Drop(w) ==
  /\ arriving # NoPacket
  /\ failed[w]
  /\ arriving' = NoPacket
  /\ UNCHANGED <<queue, inHand, failed>>

Take(w) ==
  /\ ~failed[w]
  /\ inHand[w] = NoPacket
  /\ queue[w] # <<>>
  /\ inHand' = [inHand EXCEPT ![w] = Head(queue[w])]
  /\ queue' = [queue EXCEPT ![w] = Tail(@)]
  /\ UNCHANGED <<arriving, failed>>

Finish(w) ==
  /\ inHand[w] # NoPacket
  /\ inHand' = [inHand EXCEPT ![w] = NoPacket]
  /\ UNCHANGED <<arriving, queue, failed>>

Fail(w) ==
  /\ ~failed[w]
  /\ failed' = [failed EXCEPT ![w] = TRUE]
  /\ queue' = [queue EXCEPT ![w] = <<>>]
  /\ inHand' = [inHand EXCEPT ![w] = NoPacket]

\* full, counting a packet that is taken but may still occupy its place
Overrun(w) ==
  /\ \/ Len(queue[w]) = Capacity
     \/ Len(queue[w]) = Capacity - 1 /\ inHand[w] # NoPacket
  /\ arriving # NoPacket
  /\ arriving' = NoPacket
  /\ Fail(w)

Underrun(w) ==
  /\ queue[w] = <<>>
  /\ inHand[w] = NoPacket
  /\ Fail(w)
  /\ UNCHANGED arriving

Next ==
  \/ Arrive
  \/ \E w \in Workers : \/ Submit(w) \/ Drop(w) \/ Take(w) \/ Finish(w)
                        \/ Overrun(w) \/ Underrun(w)

Spec == Init /\ [][Next]_vars
=============================================================================

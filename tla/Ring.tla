-------------------------------- MODULE Ring --------------------------------
(***************************************************************************)
(* The index arithmetic of server/ring.h.  A ring has RingSize slots; head *)
(* is the slot the producer fills next, tail the one the consumer reads    *)
(* next.  The code keeps an index inside the ring with "& (RING_SIZE - 1)",*)
(* which is "% RingSize" when RingSize is a power of two; MCPipeline       *)
(* checks that the two agree.                                              *)
(***************************************************************************)
EXTENDS Integers

CONSTANT RingSize   \* RING_SIZE, 4096 in the code

ASSUME RingSizeAssumption == RingSize \in Nat /\ RingSize > 1

Slots == 0 .. RingSize - 1

\* ring_buffer_push on head, ring_buffer_pop on tail
Advance(i) == (i + 1) % RingSize

\* ring_buffer_used
Used(head, tail) == (head - tail) % RingSize

\* ring_buffer_avail: one more than what may still be pushed
Avail(head, tail) == RingSize - Used(head, tail)
=============================================================================

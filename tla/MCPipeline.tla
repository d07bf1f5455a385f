----------------------------- MODULE MCPipeline -----------------------------
(* Instances of Pipeline small enough for TLC. *)
EXTENDS Pipeline, TLC, Bitwise

CONSTANT Width   \* bits of an unsigned int

\* groups of 1 and 2 packets (-1 as an unsigned int), and the one that ends it
MCGroupSettings == {-1, 0, 1}

\* Bound: what happens after a ring is breached is not explored.  A property
\* that only speaks of behaviours without a breach loses nothing.
NoBreach == \A w \in Workers : ~breached[w]

\* What is set again before it is read does not count: slots already popped,
\* current and target between two packets, group while a packet is handed
\* over (a reload can follow), and what a thread did at a wait once it is
\* past the ring.  Nor does where a ring lies, of any but worker 0's.
LiveView ==
  <<epc, Arriving, IF epc = "idle" THEN 0 ELSE target, counter,
    IF epc \in {"idle", "ended"} THEN group ELSE 0,
    eBlind /\ epc \in {"fill", "push"},
    wpc, inHand, {w \in Workers : wBlind[w] /\ wpc[w] = "copy"},
    head[0], tail[0], [w \in Workers |-> Pending(w)], mlock, awaiting,
    breached>>

\* "(head + 1) & (RING_SIZE - 1)" and "(head - tail) & (RING_SIZE - 1)" in
\* unsigned arithmetic (ring.h:41, 46, 51) are Advance and Used: the mask
\* undoes the wrap-around of the subtraction when tail is past head.
ASSUME MaskIsRemainder ==
  \A h, t \in Slots :
    /\ Advance(h) = ((h + 1) % 2^Width) & (RingSize - 1)
    /\ Used(h, t) = ((h - t) % 2^Width) & (RingSize - 1)
=============================================================================

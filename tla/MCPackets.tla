------------------------------ MODULE MCPackets -------------------------------
(* The key table in its full size, three numbered flows and one beyond.     *)
EXTENDS Packets

\* INIT_SEED, 0x5555555555555557
MCSeed == [i \in KeyBits |-> IF i % 2 = 0 \/ i = 1 THEN 1 ELSE 0]
=============================================================================

-------------------------------- MODULE MCWire --------------------------------
(* Two-bit words, two blocks of which the last is cut, a header for each      *)
(* packet type.                                                               *)
EXTENDS Wire

Word(hi, lo) == [i \in 0 .. 1 |-> IF i = 0 THEN lo ELSE hi]

MCInitial == Word(0, 1)

MCHeads == {"request", "heartbeat"}

\* Keys whose words rotate by nothing, by one bit and by all bits.
MCKeyOf == [h \in MCHeads |->
              IF h = "request"
              THEN <<Word(1, 0), Word(1, 1), Word(0, 1), Word(0, 0)>>
              ELSE <<Word(0, 0), Word(0, 1), Word(1, 1), Word(1, 0)>>]

MCTexts == { [p \in Body |-> Word(1, 0)],
             [p \in Body |-> IF p[2] = 2 THEN Word(1, 1) ELSE Word(0, p[1] - 1)] }
=============================================================================

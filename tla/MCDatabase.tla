------------------------------ MODULE MCDatabase ------------------------------
(* Two clients whose flows have the same descriptor, and so the same user ID, *)
(* but different SIDs; keys in three of four slots.                           *)
EXTENDS Database

MCUser == [f \in Flows |-> "user"]

MCHash == [k \in Keys |-> IF k[1] = "USER_DEVICE" THEN 4
                          ELSE IF k[1] = "DEVICE_STATE" THEN 3 ELSE 1]
=============================================================================

------------------------------- MODULE PacketMix ------------------------------
(***************************************************************************)
(* Which packets of the client are requests (getPktTypeNum in client.c).   *)
(* A counter runs through rounds of Accuracy packets; those up to upper,   *)
(* the configured share, are requests.  The admin thread may change the    *)
(* share at any moment; epollLoop takes it over before it waits.           *)
(***************************************************************************)
EXTENDS Integers

CONSTANT Accuracy   \* RATE_ACCURACY, 100 in the code

ASSUME AccuracyAssumption == Accuracy \in Nat \ {0}

Rates == 0 .. Accuracy   \* requestRate * RATE_ACCURACY after validRequestRate

VARIABLES
  rate,      \* conf->requestRate, in units of 1 / Accuracy
  upper,     \* upper_bound of epollLoop
  counter,   \* pktTypeCounter
  \* history of the round at work, or of the last one while counter is 0
  requests,  \* its requests
  low, high  \* the smallest and the largest upper_bound it was sent under

mixVars == <<rate, upper, counter, requests, low, high>>

MixInit ==
  /\ rate \in Rates
  /\ upper = rate
  /\ counter = 0
  /\ requests = 0 /\ low = 0 /\ high = 0

\* the assignment to requestRate in updateEpoch
SetRate(r) ==
  /\ rate' = r
  /\ UNCHANGED <<upper, counter, requests, low, high>>

\* epollLoop before epoll_wait
ReadRate ==
  /\ upper' = rate
  /\ UNCHANGED <<rate, counter, requests, low, high>>

RecordBound ==
  /\ low'  = IF counter = 0 \/ upper < low THEN upper ELSE low
  /\ high' = IF counter = 0 \/ upper > high THEN upper ELSE high

RecordRequests(n) == requests' = n + IF counter = 0 THEN 0 ELSE requests

\* a slip: the counter is compared before it is increased
SendRequestBefore ==
  /\ counter <= upper /\ counter < Accuracy
  /\ counter' = counter + 1
  /\ RecordRequests(1) /\ RecordBound
  /\ UNCHANGED <<rate, upper>>
SendRequest ==
  /\ counter + 1 <= upper
  /\ counter' = counter + 1
  /\ RecordRequests(1) /\ RecordBound
  /\ UNCHANGED <<rate, upper>>

SendHeartbeat ==
  /\ counter + 1 > upper /\ counter + 1 < Accuracy
  /\ counter' = counter + 1
  /\ RecordRequests(0) /\ RecordBound
  /\ UNCHANGED <<rate, upper>>

\* a slip: the last packet of a round is counted in the next one
SendLastLate ==
  /\ counter + 1 > upper /\ counter + 1 >= Accuracy
  /\ counter' = 1
  /\ RecordRequests(0) /\ RecordBound
  /\ UNCHANGED <<rate, upper>>
\* the heartbeat that ends a round
SendLast ==
  /\ counter + 1 > upper /\ counter + 1 >= Accuracy
  /\ counter' = 0
  /\ RecordRequests(0) /\ RecordBound
  /\ UNCHANGED <<rate, upper>>

Send == SendRequest \/ SendHeartbeat \/ SendLast

MixNext == (\E r \in Rates : SetRate(r)) \/ ReadRate \/ Send

MixSpec == MixInit /\ [][MixNext]_mixVars

-----------------------------------------------------------------------------
(* Properties.                                                             *)

MixTypeOK ==
  /\ rate \in Rates /\ upper \in Rates
  /\ counter \in 0 .. Accuracy
  /\ requests \in 0 .. Accuracy
  /\ low \in Rates /\ high \in Rates

\* README.md:18, "the proportion of packets requiring a responce": a round has
\* as many requests as its share asks for, and if the share changed meanwhile,
\* no fewer than the smallest and no more than the largest would have given.
RoundKeepsShare == counter = 0 => low <= requests /\ requests <= high
=============================================================================

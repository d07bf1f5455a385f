------------------------------ MODULE Statistics ------------------------------
(***************************************************************************)
(* The counters of statistics.c, on the example of the packets received:   *)
(* whoever receives one adds to the counter of the second and to that of   *)
(* the minute; two threads print one of them each and reset it.  No lock   *)
(* is taken, so x += 1 is a load and a store.                              *)
(*                                                                         *)
(* The other counters are added to in the same way: that of the packets    *)
(* sent by all the workers of the server, the rest by one thread.  The     *)
(* client is built with the two threads (TPUT), the server can be.  Sums   *)
(* and the largest RTT are reset with the counters and are left out.       *)
(***************************************************************************)
EXTENDS Integers, FiniteSets

CONSTANTS Adders,     \* threads that add to the counters
          Nothing,    \* no value
          Packets     \* bound: packets; a uint32_t counts them all

ASSUME PacketsAssumption == Packets \in Nat
ASSUME NothingAssumption == Nothing \notin Nat

Counters == {"sec", "min"}

VARIABLES
  count,      \* stats.receive_counter_sec, stats.receive_counter_min
  adding,     \* adding[a]: the counter a adds to next
  loaded,     \* loaded[a]: what it has loaded of it and not stored yet
  place,      \* place[k]: where the thread is that prints counter k
  received,   \* packets received so far
  \* history
  added,      \* added[k]: additions to k since it was reset
  undone,     \* undone[k]: one was under way when it was reset
  lapped      \* lapped[k]: two were under way together since it was reset

adderVars == <<adding, loaded, received>>
statsVars == <<count, adderVars, place, added, undone, lapped>>

StatsInit ==
  /\ count = [k \in Counters |-> 0]
  /\ adding = [a \in Adders |-> "sec"]
  /\ loaded = [a \in Adders |-> Nothing]
  /\ place = [k \in Counters |-> "sleep"]
  /\ received = 0
  /\ added = [k \in Counters |-> 0]
  /\ undone = [k \in Counters |-> FALSE]
  /\ lapped = [k \in Counters |-> FALSE]

-----------------------------------------------------------------------------
(* increReceivePkts                                                         *)

UnderWay(k) == {a \in Adders : adding[a] = k /\ loaded[a] # Nothing}

Load(a) ==
  /\ loaded[a] = Nothing
  /\ loaded' = [loaded EXCEPT ![a] = count[adding[a]]]
  /\ IF adding[a] = "sec"
       THEN received < Packets /\ received' = received + 1
       ELSE UNCHANGED received
  /\ lapped' = [lapped EXCEPT ![adding[a]] = @ \/ UnderWay(adding[a]) # {}]
  /\ UNCHANGED <<count, adding, place, added, undone>>

Store(a) ==
  /\ loaded[a] # Nothing
  /\ count' = [count EXCEPT ![adding[a]] = loaded[a] + 1]
  /\ added' = [added EXCEPT ![adding[a]] = @ + 1]
  /\ loaded' = [loaded EXCEPT ![a] = Nothing]
  /\ adding' = [adding EXCEPT ![a] = IF @ = "sec" THEN "min" ELSE "sec"]
  /\ UNCHANGED <<place, received, undone, lapped>>

-----------------------------------------------------------------------------
(* throughput_sec, throughput_min                                           *)

Goto(k, p) == place' = [place EXCEPT ![k] = p]

PrintCount(k) ==
  /\ place[k] = "sleep"
  /\ Goto(k, IF k = "sec" THEN "test" ELSE "reset")
  /\ UNCHANGED <<count, adderVars, added, undone, lapped>>

\* without packets there is no average
Test ==
  /\ place["sec"] = "test"
  /\ Goto("sec", IF count["sec"] = 0 THEN "reset" ELSE "divide")
  /\ UNCHANGED <<count, adderVars, added, undone, lapped>>

\* RTT_sum / receive_counter_sec, which is loaded again
Divide ==
  /\ place["sec"] = "divide"
  /\ Goto("sec", IF count["sec"] = 0 THEN "ended" ELSE "reset")
  /\ UNCHANGED <<count, adderVars, added, undone, lapped>>

\* a slip: the counter stays
ResetForgotten(k) ==
  /\ place[k] = "reset"
  /\ added' = [added EXCEPT ![k] = 0]
  /\ undone' = [undone EXCEPT ![k] = UnderWay(k) # {}]
  /\ lapped' = [lapped EXCEPT ![k] = FALSE]
  /\ Goto(k, "sleep")
  /\ UNCHANGED <<count, adderVars>>
\* a slip: each thread resets all counters
ResetAll(k) ==
  /\ place[k] = "reset"
  /\ count' = [c \in Counters |-> 0]
  /\ added' = [c \in Counters |-> 0]
  /\ undone' = [c \in Counters |-> UnderWay(c) # {}]
  /\ lapped' = [c \in Counters |-> FALSE]
  /\ Goto(k, "sleep")
  /\ UNCHANGED adderVars
\* resetSecStats, resetMinStats
Reset(k) ==
  /\ place[k] = "reset"
  /\ count' = [count EXCEPT ![k] = 0]
  /\ added' = [added EXCEPT ![k] = 0]
  /\ undone' = [undone EXCEPT ![k] = UnderWay(k) # {}]
  /\ lapped' = [lapped EXCEPT ![k] = FALSE]
  /\ Goto(k, "sleep")
  /\ UNCHANGED adderVars

StatsNext ==
  /\ place["sec"] # "ended"
  /\ \/ \E a \in Adders : Load(a) \/ Store(a)
     \/ \E k \in Counters : PrintCount(k) \/ Reset(k)
     \/ Test \/ Divide

StatsSpec == StatsInit /\ [][StatsNext]_statsVars

-----------------------------------------------------------------------------
(* Properties                                                              *)

StatsTypeOK ==
  /\ count \in [Counters -> Nat]
  /\ adding \in [Adders -> Counters]
  /\ loaded \in [Adders -> Nat \cup {Nothing}]
  /\ place \in [Counters -> {"sleep", "test", "divide", "reset", "ended"}]
  /\ received \in 0 .. Packets
  /\ added \in [Counters -> Nat]
  /\ undone \in [Counters -> BOOLEAN] /\ lapped \in [Counters -> BOOLEAN]

\* statistics.c tests the counter and then loads it a second time to divide
\* by it, while others store to it: it is not 0 by then, since nobody else
\* resets the counter of the second and a store leaves 1 at least.
NeverDividesByZero == place["sec"] # "ended"

\* No packet is counted in two reports, unless an addition was under way when
\* the counter was reset: its store brings back what was counted before.  And
\* none is left out, unless two additions were under way together (between
\* the print and the reset nothing is counted at all).
ReportsAreTrue ==
  \A k \in Counters :
    ~undone[k] => /\ count[k] <= added[k]
                  /\ ~lapped[k] => count[k] = added[k]
=============================================================================

---------------------------- MODULE DatabaseProofs ----------------------------
(* For every cluster, key hash, number of workers and of moves: the slot map  *)
(* is right, a binding is written a bounded number of times, what is answered *)
(* is stored or its slot has moved, and the server ends for one of two        *)
(* reasons only.                                                              *)
EXTENDS Database, FiniteSetTheorems, TLAPS

\* A node with one range is parsed as that range.
LEMMA RangeParsed ==
  ASSUME NEW lo \in Slots, NEW hi \in Slots, lo < hi
  PROVE  /\ Parsed(lo .. hi)
         /\ \A s \in Slots : Claims(lo .. hi, s) <=> s \in lo .. hi
<1> lo \in Int /\ hi \in Int
  BY CountAssumption DEF Slots
<1>1. StartSlot(lo .. hi) = lo
  BY DEF StartSlot, Least
<1>2. Starts(lo .. hi) = {lo}
  BY DEF Starts
<1>3. {e \in lo .. hi : e >= lo /\ e + 1 \notin lo .. hi} = {hi}
  OBVIOUS
<1>4. EndOf(lo .. hi, lo) = hi
  BY <1>3, Least({hi}) = hi DEF EndOf, Least
<1>5. Dashed(lo .. hi) = {lo}
  BY <1>2, <1>4 DEF Dashed
<1>6. EndSlot(lo .. hi) = hi
  BY <1>4, <1>5, Least({lo}) = lo DEF EndSlot, Least
<1>7. \A s \in Slots : Claims(lo .. hi, s) <=> s \in lo .. hi
  BY <1>1, <1>6, CountAssumption DEF Claims, Slots
<1> QED BY <1>5, <1>7 DEF Parsed

\* So if each node has one range, a slot is claimed by its owner alone.
LEMMA OwnerClaims ==
  ASSUME TypeOK, Regular, NEW n \in Nodes
  PROVE  /\ Parsed(Own(n))
         /\ \A s \in Slots : Claims(Own(n), s) <=> owner[s] = n
<1>1. PICK lo \in Slots, hi \in Slots : lo < hi /\ Own(n) = lo .. hi
  BY DEF Regular
<1>2. \A s \in Slots : s \in Own(n) <=> owner[s] = n
  BY DEF Own
<1> QED BY <1>1, <1>2, RangeParsed

LEMMA SlotType == \A k \in Keys : Slot(k) \in Slots
BY HashAssumption, CountAssumption DEF Slot, Slots

LEMMA KeyType ==
  \A f \in Flows :
    DeviceKey(f) \in Keys /\ StateKey(f) \in Keys /\ SIDKey(f) \in Keys
BY DEF DeviceKey, StateKey, SIDKey, Keys, Users

-----------------------------------------------------------------------------
(* What the commands change.                                                  *)

LEMMA GetEffect ==
  ASSUME NEW w \in Workers, NEW k \in Keys, NEW ifNil, NEW otherwise,
         Get(w, k, ifNil, otherwise)
  PROVE  /\ UNCHANGED <<clusterVars, writes, flow, linkVars>>
         /\ \/ crashed' = TRUE /\ wpc' = wpc /\ Breaks(w, k)
            \/ /\ crashed' = crashed
               /\ wpc' = [wpc EXCEPT ![w] = ifNil] /\ writes[k] = 0
            \/ /\ crashed' = crashed
               /\ wpc' = [wpc EXCEPT ![w] = otherwise]
               /\ writes[k] # 0 \/ Refused(w, k)
<1>1. CASE Accepted(w, k) /\ UNCHANGED writes
           /\ Goto(w, IF writes[k] = 0 THEN ifNil ELSE otherwise)
  <2>1. CASE writes[k] = 0
    BY <1>1, <2>1 DEF Goto, clusterVars, linkVars
  <2>2. CASE writes[k] # 0
    BY <1>1, <2>2 DEF Goto, clusterVars, linkVars
  <2> QED BY <2>1, <2>2
<1>2. CASE Refused(w, k) /\ Goto(w, otherwise) /\ UNCHANGED writes
  BY <1>2 DEF Goto, clusterVars, linkVars
<1>3. CASE Breaks(w, k) /\ Crash /\ UNCHANGED linkVars
  BY <1>3 DEF Crash, clusterVars, linkVars
<1> QED BY <1>1, <1>2, <1>3 DEF Get

LEMMA SetEffect ==
  ASSUME TypeOK, NEW w, NEW k \in Keys, NEW then, Set(w, k, then)
  PROVE  /\ UNCHANGED <<clusterVars, flow, linkVars>>
         /\ \/ crashed' = TRUE /\ wpc' = wpc /\ UNCHANGED writes /\ Breaks(w, k)
            \/ /\ crashed' = crashed
               /\ wpc' = [wpc EXCEPT ![w] = then]
               /\ UNCHANGED writes /\ Refused(w, k)
            \/ /\ crashed' = crashed
               /\ wpc' = [wpc EXCEPT ![w] = then]
               /\ writes' = [writes EXCEPT ![k] =
                     IF k[1] = "DEVICE_STATE" THEN 1 ELSE writes[k] + 1]
<1>1. CASE /\ Accepted(w, k) /\ Goto(w, then)
           /\ writes' = [writes EXCEPT ![k] =
                 IF k[1] = "DEVICE_STATE" THEN 1 ELSE writes[k] + 1]
  BY <1>1 DEF Goto, clusterVars, linkVars
<1>2. CASE Refused(w, k) /\ Goto(w, then) /\ UNCHANGED writes
  BY <1>2 DEF Goto, clusterVars, linkVars
<1>3. CASE Breaks(w, k) /\ Crash /\ UNCHANGED linkVars
  BY <1>3 DEF Crash, clusterVars, linkVars
<1> QED BY <1>1, <1>2, <1>3 DEF Set

-----------------------------------------------------------------------------
(* Type correctness.                                                          *)

LEMMA TypeInit == Init => TypeOK
<1> SUFFICES ASSUME Init PROVE TypeOK
  OBVIOUS
<1>1. owner \in [Slots -> Nodes] /\ up \subseteq Nodes /\ moves \in 0 .. Moves
  BY CountAssumption DEF Init
<1>2. writes \in [Keys -> Nat] /\ crashed \in BOOLEAN
  BY DEF Init
<1>3. /\ wpc \in [Workers -> {"ask", "connect", "idle", "getDevice",
                              "setDevice", "setState", "getSID", "setSID",
                              "answer"}]
      /\ flow \in [Workers -> Flows \cup {NoFlow}]
      /\ \A w \in Workers :
           flow[w] = NoFlow <=> wpc[w] \in {"ask", "connect", "idle"}
  BY DEF Init
<1>4. /\ host \in [Workers -> [Slots -> Nodes \cup {Unset}]]
      /\ context \in [Workers -> SUBSET Nodes]
      /\ stale \in [Workers -> SUBSET Slots]
  BY DEF Init
<1>5. regular \in [Workers -> BOOLEAN]
  BY DEF Init
<1> QED BY <1>1, <1>2, <1>3, <1>4, <1>5 DEF TypeOK

Places == {"ask", "connect", "idle", "getDevice", "setDevice", "setState",
           "getSID", "setSID", "answer"}

\* A worker within a packet stays within it.
LEMMA PlaceType ==
  ASSUME TypeOK, NEW w \in Workers, wpc[w] \notin {"ask", "connect", "idle"},
         \/ wpc' = wpc
         \/ \E p \in Places \ {"ask", "connect", "idle"} :
              wpc' = [wpc EXCEPT ![w] = p]
  PROVE  /\ wpc' \in [Workers -> Places]
         /\ \A v \in Workers :
              wpc'[v] \in {"ask", "connect", "idle"} <=>
                wpc[v] \in {"ask", "connect", "idle"}
<1>1. wpc \in [Workers -> Places]
  BY DEF TypeOK, Places
<1>2. CASE wpc' = wpc
  BY <1>1, <1>2
<1>3. ASSUME NEW p \in Places \ {"ask", "connect", "idle"},
             wpc' = [wpc EXCEPT ![w] = p]
      PROVE  /\ wpc' \in [Workers -> Places]
             /\ \A v \in Workers :
                  wpc'[v] \in {"ask", "connect", "idle"} <=>
                    wpc[v] \in {"ask", "connect", "idle"}
  BY <1>1, <1>3
<1> QED BY <1>2, <1>3

\* A command keeps the types if the places it leads to are within a packet.
LEMMA GetType ==
  ASSUME TypeOK, NEW w \in Workers, NEW k \in Keys,
         NEW ifNil \in Places \ {"ask", "connect", "idle"},
         NEW otherwise \in Places \ {"ask", "connect", "idle"},
         wpc[w] \notin {"ask", "connect", "idle"}, Get(w, k, ifNil, otherwise)
  PROVE  TypeOK'
<1>1. /\ UNCHANGED <<clusterVars, writes, flow, linkVars>>
      /\ \/ crashed' = TRUE /\ wpc' = wpc
         \/ crashed' = crashed /\ wpc' = [wpc EXCEPT ![w] = ifNil]
         \/ crashed' = crashed /\ wpc' = [wpc EXCEPT ![w] = otherwise]
  BY GetEffect
<1>2. /\ wpc' \in [Workers -> Places]
      /\ \A v \in Workers :
           wpc'[v] \in {"ask", "connect", "idle"} <=>
             wpc[v] \in {"ask", "connect", "idle"}
  <2>1. wpc' = wpc \/ wpc' = [wpc EXCEPT ![w] = ifNil]
                  \/ wpc' = [wpc EXCEPT ![w] = otherwise]
    BY <1>1
  <2> QED BY <2>1, PlaceType
<1>3. crashed' \in BOOLEAN
  BY <1>1 DEF TypeOK
<1> QED BY <1>1, <1>2, <1>3 DEF TypeOK, Places, clusterVars, linkVars

LEMMA SetType ==
  ASSUME TypeOK, NEW w \in Workers, NEW k \in Keys,
         NEW then \in Places \ {"ask", "connect", "idle"},
         wpc[w] \notin {"ask", "connect", "idle"}, Set(w, k, then)
  PROVE  TypeOK'
<1>1. /\ UNCHANGED <<clusterVars, flow, linkVars>>
      /\ \/ crashed' = TRUE /\ wpc' = wpc
         \/ crashed' = crashed /\ wpc' = [wpc EXCEPT ![w] = then]
      /\ \/ UNCHANGED writes
         \/ writes' = [writes EXCEPT ![k] =
                         IF k[1] = "DEVICE_STATE" THEN 1 ELSE writes[k] + 1]
  BY SetEffect
<1>2. /\ wpc' \in [Workers -> Places]
      /\ \A v \in Workers :
           wpc'[v] \in {"ask", "connect", "idle"} <=>
             wpc[v] \in {"ask", "connect", "idle"}
  <2>1. wpc' = wpc \/ wpc' = [wpc EXCEPT ![w] = then]
    BY <1>1
  <2> QED BY <2>1, PlaceType
<1>4. crashed' \in BOOLEAN
  BY <1>1 DEF TypeOK
<1>3. writes' \in [Keys -> Nat]
  BY <1>1 DEF TypeOK
<1> QED BY <1>1, <1>2, <1>3, <1>4 DEF TypeOK, Places, clusterVars, linkVars

\* Where a worker has a packet, the packet is one of a flow.
LEMMA AtWork ==
  ASSUME TypeOK, NEW w \in Workers, wpc[w] \notin {"ask", "connect", "idle"}
  PROVE  flow[w] \in Flows
BY DEF TypeOK

LEMMA TypeStep == TypeOK /\ [Next]_vars => TypeOK'
<1> SUFFICES ASSUME TypeOK, [Next]_vars PROVE TypeOK'
  OBVIOUS
<1>1. ASSUME NEW s \in Slots, NEW n \in Nodes, Move(s, n) PROVE TypeOK'
  <2>1. owner' \in [Slots -> Nodes] /\ moves' \in 0 .. Moves
    BY <1>1, CountAssumption DEF Move, TypeOK
  <2>2. stale' \in [Workers -> SUBSET Slots]
    BY <1>1 DEF Move, TypeOK
  <2> QED BY <1>1, <2>1, <2>2 DEF Move, TypeOK
<1>2. ASSUME NEW n \in Nodes, Die(n) PROVE TypeOK'
  <2>1. up' \subseteq Nodes /\ moves' \in 0 .. Moves
    BY <1>2, CountAssumption DEF Die, TypeOK
  <2> QED BY <1>2, <2>1 DEF Die, TypeOK, linkVars
<1>3. ASSUME NEW w \in Workers, Ask(w) PROVE TypeOK'
  <2>1. host' \in [Workers -> [Slots -> Nodes \cup {Unset}]]
    BY <1>3 DEF Ask, TypeOK
  <2>2. regular' \in [Workers -> BOOLEAN]
    BY <1>3 DEF Ask, TypeOK, Regular
  <2>3. /\ wpc' = [wpc EXCEPT ![w] = "connect"] /\ wpc[w] = "ask"
        /\ UNCHANGED <<owner, up, moves, writes, crashed, flow, context, stale>>
    BY <1>3 DEF Ask, clusterVars
  <2> QED BY <2>1, <2>2, <2>3 DEF TypeOK
<1>4. ASSUME NEW w \in Workers, AskCrashes(w) PROVE TypeOK'
  <2>1. regular' \in [Workers -> BOOLEAN]
    BY <1>4 DEF AskCrashes, TypeOK, Regular
  <2> QED BY <1>4, <2>1 DEF AskCrashes, Crash, TypeOK, clusterVars
<1>5. ASSUME NEW w \in Workers, Connect(w) PROVE TypeOK'
  <2>1. context' \in [Workers -> SUBSET Nodes]
    BY <1>5 DEF Connect, TypeOK
  <2> QED BY <1>5, <2>1 DEF Connect, TypeOK, clusterVars
<1>6. ASSUME NEW w \in Workers, NEW f \in Flows, Take(w, f) PROVE TypeOK'
  BY <1>6, FlowsAssumption DEF Take, TypeOK, clusterVars, linkVars
<1>7. ASSUME NEW w \in Workers, GetDevice(w) PROVE TypeOK'
  BY <1>7, AtWork, KeyType, GetType DEF GetDevice, Places
<1>8. ASSUME NEW w \in Workers, SetDevice(w) PROVE TypeOK'
  BY <1>8, AtWork, KeyType, SetType DEF SetDevice, Places
<1>9. ASSUME NEW w \in Workers, SetState(w) PROVE TypeOK'
  BY <1>9, AtWork, KeyType, SetType DEF SetState, Places
<1>10. ASSUME NEW w \in Workers, GetSID(w) PROVE TypeOK'
  BY <1>10, AtWork, KeyType, GetType DEF GetSID, Places
<1>11. ASSUME NEW w \in Workers, SetSID(w) PROVE TypeOK'
  BY <1>11, AtWork, KeyType, SetType DEF SetSID, Places
<1>12. ASSUME NEW w \in Workers, Answer(w) PROVE TypeOK'
  BY <1>12 DEF Answer, TypeOK, clusterVars, linkVars
<1>13. CASE UNCHANGED vars
  BY <1>13 DEF vars, TypeOK, clusterVars, linkVars
<1> QED BY <1>1, <1>2, <1>3, <1>4, <1>5, <1>6, <1>7, <1>8, <1>9, <1>10, <1>11,
           <1>12, <1>13 DEF Next, Work

\* Type correctness of the workers and of what they know about the cluster.
THEOREM DatabaseTyping == Spec => []TypeOK
BY TypeInit, TypeStep, PTL DEF Spec

-----------------------------------------------------------------------------
(* The slot map.  RoutesRight is inductive with TypeOK; that a regular answer *)
(* leaves no slot without a node, also of those that move later, is needed    *)
(* for the end of the server.                                                 *)

AllHosted ==
  \A w \in Workers : wpc[w] # "ask" /\ regular[w] =>
    \A s \in Slots : host[w][s] \in Nodes

\* Asking a regular cluster gives the owner of each slot.
LEMMA AskRoutes ==
  ASSUME TypeOK, NEW w \in Workers, Ask(w), Regular
  PROVE  \A s \in Slots : host'[w][s] = owner[s]
<1>1. PICK map \in [Slots -> Nodes \cup {Unset}], place \in Orders :
        AssignSlot(map, place) /\ host' = [host EXCEPT ![w] = map]
  BY DEF Ask
<1>2. ASSUME NEW s \in Slots PROVE map[s] = owner[s]
  <2>1. owner[s] \in Nodes
    BY DEF TypeOK
  <2>2. {n \in Nodes : Claims(Own(n), s)} = {owner[s]}
    BY <2>1, OwnerClaims
  <2> QED BY <1>1, <2>2 DEF AssignSlot
<1> QED BY <1>1, <1>2 DEF TypeOK

\* Where a command leads, whatever its outcome.
LEMMA GetLeads ==
  ASSUME NEW w \in Workers, NEW k \in Keys, NEW ifNil, NEW otherwise,
         Get(w, k, ifNil, otherwise)
  PROVE  /\ UNCHANGED <<clusterVars, linkVars>>
         /\ \/ wpc' = wpc
            \/ wpc' = [wpc EXCEPT ![w] = ifNil]
            \/ wpc' = [wpc EXCEPT ![w] = otherwise]
BY GetEffect

LEMMA SetLeads ==
  ASSUME TypeOK, NEW w \in Workers, NEW k \in Keys, NEW then, Set(w, k, then)
  PROVE  /\ UNCHANGED <<clusterVars, linkVars>>
         /\ wpc' = wpc \/ wpc' = [wpc EXCEPT ![w] = then]
BY SetEffect

\* The other steps of a worker leave alone what it knows.
LEMMA WorkKeepsLinks ==
  ASSUME TypeOK, NEW w \in Workers,
         Work(w), ~Ask(w), ~AskCrashes(w), ~Connect(w)
  PROVE  /\ UNCHANGED <<clusterVars, linkVars>>
         /\ \A v \in Workers : wpc[v] \in {"ask", "connect"} <=>
                               wpc'[v] \in {"ask", "connect"}
         /\ \A v \in Workers : wpc[v] = "ask" <=> wpc'[v] = "ask"
<1>1. ASSUME NEW f \in Flows, Take(w, f)
      PROVE  /\ UNCHANGED <<clusterVars, linkVars>>
             /\ wpc[w] = "idle" /\ wpc' = [wpc EXCEPT ![w] = "getDevice"]
  BY <1>1 DEF Take
<1>2. CASE Answer(w)
  BY <1>2 DEF Answer, TypeOK
<1>3. CASE GetDevice(w)
  <2>1. /\ wpc[w] = "getDevice" /\ UNCHANGED <<clusterVars, linkVars>>
        /\ \/ wpc' = wpc
           \/ wpc' = [wpc EXCEPT ![w] = "setDevice"]
           \/ wpc' = [wpc EXCEPT ![w] = "setState"]
    <3>1. /\ wpc[w] = "getDevice"
          /\ Get(w, DeviceKey(flow[w]), "setDevice", "setState")
      BY <1>3 DEF GetDevice
    <3>2. DeviceKey(flow[w]) \in Keys
      BY <3>1, AtWork, KeyType
    <3> QED BY <3>1, <3>2, GetLeads
  <2> QED BY <2>1 DEF TypeOK
<1>4. CASE SetDevice(w)
  <2>1. /\ wpc[w] = "setDevice" /\ UNCHANGED <<clusterVars, linkVars>>
        /\ \/ wpc' = wpc
           \/ wpc' = [wpc EXCEPT ![w] = "setState"]
    <3>1. wpc[w] = "setDevice" /\ Set(w, DeviceKey(flow[w]), "setState")
      BY <1>4 DEF SetDevice
    <3>2. DeviceKey(flow[w]) \in Keys
      BY <3>1, AtWork, KeyType
    <3> QED BY <3>1, <3>2, SetLeads
  <2> QED BY <2>1 DEF TypeOK
<1>5. CASE SetState(w)
  <2>1. /\ wpc[w] = "setState" /\ UNCHANGED <<clusterVars, linkVars>>
        /\ \/ wpc' = wpc
           \/ wpc' = [wpc EXCEPT ![w] = "getSID"]
    <3>1. wpc[w] = "setState" /\ Set(w, StateKey(flow[w]), "getSID")
      BY <1>5 DEF SetState
    <3>2. StateKey(flow[w]) \in Keys
      BY <3>1, AtWork, KeyType
    <3> QED BY <3>1, <3>2, SetLeads
  <2> QED BY <2>1 DEF TypeOK
<1>6. CASE GetSID(w)
  <2>1. /\ wpc[w] = "getSID" /\ UNCHANGED <<clusterVars, linkVars>>
        /\ \/ wpc' = wpc
           \/ wpc' = [wpc EXCEPT ![w] = "setSID"]
           \/ wpc' = [wpc EXCEPT ![w] = "answer"]
    <3>1. /\ wpc[w] = "getSID"
          /\ Get(w, SIDKey(flow[w]), "setSID", "answer")
      BY <1>6 DEF GetSID
    <3>2. SIDKey(flow[w]) \in Keys
      BY <3>1, AtWork, KeyType
    <3> QED BY <3>1, <3>2, GetLeads
  <2> QED BY <2>1 DEF TypeOK
<1>7. CASE SetSID(w)
  <2>1. /\ wpc[w] = "setSID" /\ UNCHANGED <<clusterVars, linkVars>>
        /\ \/ wpc' = wpc
           \/ wpc' = [wpc EXCEPT ![w] = "answer"]
    <3>1. wpc[w] = "setSID" /\ Set(w, SIDKey(flow[w]), "answer")
      BY <1>7 DEF SetSID
    <3>2. SIDKey(flow[w]) \in Keys
      BY <3>1, AtWork, KeyType
    <3> QED BY <3>1, <3>2, SetLeads
  <2> QED BY <2>1 DEF TypeOK
<1>8. CASE \E f \in Flows : Take(w, f)
  BY <1>1, <1>8 DEF TypeOK
<1> QED BY <1>2, <1>3, <1>4, <1>5, <1>6, <1>7, <1>8 DEF Work

RouteInv == RoutesRight /\ AllHosted

LEMMA RouteStep == TypeOK /\ RouteInv /\ [Next]_vars => RouteInv'
<1> SUFFICES ASSUME TypeOK, RouteInv, [Next]_vars PROVE RouteInv'
  OBVIOUS
<1>1. ASSUME NEW s \in Slots, NEW n \in Nodes, Move(s, n) PROVE RouteInv'
  BY <1>1 DEF Move, RouteInv, RoutesRight, AllHosted, TypeOK
<1>2. ASSUME NEW n \in Nodes, Die(n) PROVE RouteInv'
  BY <1>2 DEF Die, RouteInv, RoutesRight, AllHosted, linkVars
<1>3. ASSUME NEW w \in Workers, Ask(w) PROVE RouteInv'
  <2>1. /\ UNCHANGED <<owner, stale>>
        /\ wpc' = [wpc EXCEPT ![w] = "connect"]
        /\ regular' = [regular EXCEPT ![w] = Regular]
        /\ \A v \in Workers \ {w} : host'[v] = host[v]
    BY <1>3 DEF Ask, clusterVars, TypeOK
  <2>2. ASSUME NEW v \in Workers, v # w, wpc'[v] # "ask", regular'[v]
        PROVE  \A s \in Slots : /\ s \notin stale'[v] => host'[v][s] = owner'[s]
                                /\ host'[v][s] \in Nodes
    BY <2>1, <2>2 DEF TypeOK, RouteInv, RoutesRight, AllHosted
  <2>3. ASSUME regular'[w]
        PROVE  \A s \in Slots : host'[w][s] = owner'[s] /\ host'[w][s] \in Nodes
    <3>1. Regular
      BY <2>1, <2>3 DEF TypeOK
    <3> QED BY <1>3, <2>1, <3>1, AskRoutes DEF TypeOK
  <2> QED BY <2>2, <2>3 DEF RouteInv, RoutesRight, AllHosted
<1>4. ASSUME NEW w \in Workers, AskCrashes(w) PROVE RouteInv'
  BY <1>4 DEF AskCrashes, Crash, clusterVars, TypeOK, RouteInv, RoutesRight,
              AllHosted
<1>5. ASSUME NEW w \in Workers, Connect(w) PROVE RouteInv'
  BY <1>5 DEF Connect, clusterVars, TypeOK, RouteInv, RoutesRight, AllHosted
<1>6. ASSUME NEW w \in Workers, Work(w), ~Ask(w), ~AskCrashes(w), ~Connect(w)
      PROVE  RouteInv'
  BY <1>6, WorkKeepsLinks DEF clusterVars, linkVars, RouteInv, RoutesRight,
                              AllHosted
<1>7. CASE UNCHANGED vars
  BY <1>7 DEF vars, clusterVars, linkVars, RouteInv, RoutesRight, AllHosted
<1> QED BY <1>1, <1>2, <1>3, <1>4, <1>5, <1>6, <1>7 DEF Next

LEMMA RouteInit == Init => RouteInv
BY DEF Init, RouteInv, RoutesRight, AllHosted

\* connect.c:357-380: a worker that asked while each node had one range sends
\* each command to the node that has the slot, until the slot moves.
THEOREM RoutesAreRight == Spec => []RoutesRight
<1>1. Spec => [](TypeOK /\ RouteInv)
  BY TypeInit, TypeStep, RouteInit, RouteStep, PTL DEF Spec
<1>2. RouteInv => RoutesRight
  BY DEF RouteInv
<1> QED BY <1>1, <1>2, PTL

-----------------------------------------------------------------------------
(* The end of the server.                                                     *)

\* A worker that was connected while all nodes ran has a context for each.
AllLinked ==
  \A w \in Workers :
    wpc[w] \notin {"ask", "connect"} /\ up = Nodes => context[w] = Nodes

CrashInv == AllLinked /\ CrashHasCause

\* So with all nodes running a command of a worker that asked a regular
\* cluster is accepted or refused.
LEMMA NoBreak ==
  ASSUME TypeOK, RouteInv, CrashInv, NEW w \in Workers, NEW k \in Keys,
         wpc[w] \notin {"ask", "connect"}, up = Nodes, regular[w]
  PROVE  ~Breaks(w, k)
<1>1. host[w][Slot(k)] \in Nodes
  BY SlotType DEF RouteInv, AllHosted
<1>2. context[w] = Nodes
  BY DEF CrashInv, AllLinked
<1> QED BY <1>1, <1>2 DEF Breaks, Linked, Node

LEMMA CrashStep ==
  TypeOK /\ RouteInv /\ CrashInv /\ [Next]_vars => CrashInv'
<1> SUFFICES ASSUME TypeOK, RouteInv, CrashInv, [Next]_vars PROVE CrashInv'
  OBVIOUS
<1>1. ASSUME NEW s \in Slots, NEW n \in Nodes, Move(s, n) PROVE CrashInv'
  BY <1>1 DEF Move, CrashInv, AllLinked, CrashHasCause
<1>2. ASSUME NEW n \in Nodes, Die(n) PROVE CrashInv'
  <2>1. up' # Nodes
    BY <1>2 DEF Die
  <2> QED BY <1>2, <2>1 DEF Die, linkVars, CrashInv, AllLinked, CrashHasCause
<1>3. ASSUME NEW w \in Workers, Ask(w), ~crashed PROVE CrashInv'
  BY <1>3 DEF Ask, clusterVars, TypeOK, CrashInv, AllLinked, CrashHasCause
<1>4. ASSUME NEW w \in Workers, AskCrashes(w) PROVE CrashInv'
  <2>1. UNCHANGED <<up, wpc, context>>
    BY <1>4 DEF AskCrashes, Crash, clusterVars
  <2>2. ASSUME up = Nodes PROVE ~regular'[w]
    <3>1. \E n \in Nodes : ~Parsed(Own(n))
      BY <1>4, <2>2, NodesAssumption DEF AskCrashes
    <3>2. ~Regular
      BY <3>1, OwnerClaims
    <3> QED BY <1>4, <3>2 DEF AskCrashes, TypeOK
  <2> QED BY <2>1, <2>2 DEF CrashInv, AllLinked, CrashHasCause
<1>5. ASSUME NEW w \in Workers, Connect(w) PROVE CrashInv'
  <2>1. /\ wpc[w] = "connect" /\ wpc' = [wpc EXCEPT ![w] = "idle"]
        /\ up = Nodes => context'[w] = Nodes
        /\ \A v \in Workers \ {w} : context'[v] = context[v]
        /\ UNCHANGED <<up, crashed, regular>>
    BY <1>5 DEF Connect, clusterVars, TypeOK
  <2> QED BY <2>1 DEF TypeOK, CrashInv, AllLinked, CrashHasCause
<1>6. ASSUME NEW w \in Workers,
             Work(w), ~Ask(w), ~AskCrashes(w), ~Connect(w), ~crashed
      PROVE  CrashInv'
  <2>1. UNCHANGED <<up, context, regular>>
    BY <1>6, WorkKeepsLinks DEF clusterVars, linkVars
  <2>2. AllLinked'
    BY <1>6, <2>1, WorkKeepsLinks DEF CrashInv, AllLinked
  <2>3. ASSUME crashed', up = Nodes PROVE ~regular[w]
    <3>1. \E k \in Keys : Breaks(w, k) /\ wpc[w] \notin {"ask", "connect"}
      <4>1. CASE \E f \in Flows : Take(w, f)
        BY <1>6, <2>3, <4>1 DEF Take
      <4>2. CASE Answer(w)
        BY <1>6, <2>3, <4>2 DEF Answer
      <4>3. CASE GetDevice(w)
        BY <1>6, <2>3, <4>3, GetEffect, AtWork, KeyType DEF GetDevice
      <4>4. CASE SetDevice(w)
        BY <1>6, <2>3, <4>4, SetEffect, AtWork, KeyType DEF SetDevice
      <4>5. CASE SetState(w)
        BY <1>6, <2>3, <4>5, SetEffect, AtWork, KeyType DEF SetState
      <4>6. CASE GetSID(w)
        BY <1>6, <2>3, <4>6, GetEffect, AtWork, KeyType DEF GetSID
      <4>7. CASE SetSID(w)
        BY <1>6, <2>3, <4>7, SetEffect, AtWork, KeyType DEF SetSID
      <4> QED BY <1>6, <4>1, <4>2, <4>3, <4>4, <4>5, <4>6, <4>7 DEF Work
    <3> QED BY <2>3, <3>1, NoBreak
  <2>4. CrashHasCause'
    BY <2>1, <2>3 DEF CrashHasCause
  <2> QED BY <2>2, <2>4 DEF CrashInv
<1>7. CASE UNCHANGED vars
  BY <1>7 DEF vars, clusterVars, linkVars, CrashInv, AllLinked, CrashHasCause
<1> QED BY <1>1, <1>2, <1>3, <1>4, <1>5, <1>6, <1>7 DEF Next

LEMMA CrashInit == Init => CrashInv
BY DEF Init, CrashInv, AllLinked, CrashHasCause

\* A slot that moves does not end the server: a node must have died, or a
\* worker must have asked when a node had no range or more than one.
THEOREM CrashesHaveCauses == Spec => []CrashHasCause
<1>1. Spec => [](TypeOK /\ RouteInv /\ CrashInv)
  BY TypeInit, TypeStep, RouteInit, RouteStep, CrashInit, CrashStep, PTL
     DEF Spec
<1>2. CrashInv => CrashHasCause
  BY DEF CrashInv
<1> QED BY <1>1, <1>2, PTL

-----------------------------------------------------------------------------
(* What is stored.  After each command its key has been written, or its slot  *)
(* has moved, or a node has died.                                             *)

Done(w, k) == writes[k] > 0 \/ Slot(k) \in stale[w] \/ up # Nodes
Sound(w) == regular[w] /\ context[w] = Nodes

DoneSoFar(w) ==
  /\ wpc[w] \in {"setState", "getSID", "setSID", "answer"} =>
       Done(w, DeviceKey(flow[w]))
  /\ wpc[w] \in {"getSID", "setSID", "answer"} => Done(w, StateKey(flow[w]))
  /\ wpc[w] = "answer" => Done(w, SIDKey(flow[w]))

StoredInv == \A w \in Workers : Sound(w) => DoneSoFar(w)

\* A command is refused because the slot has moved.
LEMMA RefusedIsStale ==
  ASSUME TypeOK, RouteInv, NEW w \in Workers, NEW k \in Keys,
         wpc[w] # "ask", Sound(w), Refused(w, k)
  PROVE  Done(w, k)
<1>1. Slot(k) \in Slots
  BY SlotType
<1>2. owner[Slot(k)] # host[w][Slot(k)] \/ up # Nodes
  BY DEF Refused, Linked, Node, Sound
<1> QED BY <1>1, <1>2 DEF RouteInv, RoutesRight, Done, Sound

\* What is done stays done, for the other workers too.
LEMMA DoneStays ==
  ASSUME TypeOK, NEW w \in Workers, NEW k \in Keys, Done(w, k),
         \/ UNCHANGED writes
         \/ \E j \in Keys : writes' = [writes EXCEPT ![j] =
              IF j[1] = "DEVICE_STATE" THEN 1 ELSE writes[j] + 1],
         stale[w] \subseteq stale'[w], up' \subseteq up
  PROVE  Done(w, k)'
BY DEF Done, TypeOK

\* Other workers than the one at work keep what they have done.
LEMMA OthersStored ==
  ASSUME TypeOK, StoredInv, NEW v \in Workers,
         \/ UNCHANGED writes
         \/ \E j \in Keys : writes' = [writes EXCEPT ![j] =
              IF j[1] = "DEVICE_STATE" THEN 1 ELSE writes[j] + 1],
         stale[v] \subseteq stale'[v], up' \subseteq up,
         wpc'[v] = wpc[v], flow'[v] = flow[v],
         regular'[v] = regular[v], context'[v] = context[v]
  PROVE  (Sound(v) => DoneSoFar(v))'
<1> SUFFICES ASSUME Sound(v)' PROVE DoneSoFar(v)'
  OBVIOUS
<1>1. Sound(v) /\ DoneSoFar(v)
  BY DEF Sound, StoredInv
<1>2. CASE wpc[v] \in {"ask", "connect", "idle", "getDevice", "setDevice"}
  BY <1>2 DEF DoneSoFar
<1>3. CASE wpc[v] \in {"setState", "getSID", "setSID", "answer"}
  <2>1. flow[v] \in Flows
    BY <1>3, AtWork
  <2>2. \A k \in Keys : Done(v, k) => Done(v, k)'
    BY DoneStays
  <2>3. /\ Done(v, DeviceKey(flow[v])) => Done(v, DeviceKey(flow[v]))'
        /\ Done(v, StateKey(flow[v])) => Done(v, StateKey(flow[v]))'
        /\ Done(v, SIDKey(flow[v])) => Done(v, SIDKey(flow[v]))'
    BY <2>1, <2>2, KeyType DEF DeviceKey, StateKey, SIDKey
  <2> QED BY <1>1, <2>3 DEF DoneSoFar, DeviceKey, StateKey, SIDKey
<1> QED BY <1>2, <1>3 DEF TypeOK

\* A command of w is refused, or its key is now written.
LEMMA CommandDone ==
  ASSUME TypeOK, RouteInv, NEW w \in Workers, NEW k \in Keys, wpc[w] # "ask",
         Sound(w), UNCHANGED <<stale, up>>,
         \/ UNCHANGED writes /\ (writes[k] # 0 \/ Refused(w, k))
         \/ writes' = [writes EXCEPT ![k] =
              IF k[1] = "DEVICE_STATE" THEN 1 ELSE writes[k] + 1]
  PROVE  Done(w, k)'
<1>1. CASE UNCHANGED writes /\ writes[k] # 0
  BY <1>1 DEF Done, TypeOK
<1>2. CASE UNCHANGED writes /\ Refused(w, k)
  <2>1. Done(w, k)
    BY <1>2, RefusedIsStale
  <2> QED BY <1>2, <2>1 DEF Done
<1>3. CASE writes' = [writes EXCEPT ![k] =
             IF k[1] = "DEVICE_STATE" THEN 1 ELSE writes[k] + 1]
  BY <1>3 DEF Done, TypeOK
<1> QED BY <1>1, <1>2, <1>3

\* A command with key k at a place of worker w, and what w has done after it.
LEMMA CommandStored ==
  ASSUME TypeOK, RouteInv, StoredInv, NEW w \in Workers, NEW k \in Keys,
         UNCHANGED <<clusterVars, flow, linkVars>>,
         wpc[w] \notin {"ask", "connect", "idle"},
         \/ UNCHANGED writes
         \/ \E j \in Keys : writes' = [writes EXCEPT ![j] =
              IF j[1] = "DEVICE_STATE" THEN 1 ELSE writes[j] + 1],
         \A v \in Workers \ {w} : wpc'[v] = wpc[v],
         Sound(w) => DoneSoFar(w)'
  PROVE  StoredInv'
<1>1. ASSUME NEW v \in Workers, v # w PROVE (Sound(v) => DoneSoFar(v))'
  BY <1>1, OthersStored DEF clusterVars, linkVars
<1>2. (Sound(w) => DoneSoFar(w))'
  BY DEF Sound, linkVars
<1> QED BY <1>1, <1>2 DEF StoredInv

LEMMA StoredStep ==
  TypeOK /\ RouteInv /\ StoredInv /\ [Next]_vars => StoredInv'
<1> SUFFICES ASSUME TypeOK, RouteInv, StoredInv, [Next]_vars PROVE StoredInv'
  OBVIOUS
<1>1. ASSUME NEW s \in Slots, NEW n \in Nodes, Move(s, n) PROVE StoredInv'
  <2>1. ASSUME NEW v \in Workers PROVE (Sound(v) => DoneSoFar(v))'
    <3>1. CASE wpc[v] = "ask"
      BY <1>1, <3>1 DEF Move, DoneSoFar
    <3>2. CASE wpc[v] # "ask"
      <4>1. stale[v] \subseteq stale'[v]
        BY <1>1, <3>2 DEF Move, TypeOK
      <4>2. UNCHANGED <<up, writes, wpc, flow, regular, context>>
        BY <1>1 DEF Move
      <4> QED BY <4>1, <4>2, OthersStored
    <3> QED BY <3>1, <3>2
  <2> QED BY <2>1 DEF StoredInv
<1>2. ASSUME NEW n \in Nodes, Die(n) PROVE StoredInv'
  <2>1. /\ UNCHANGED <<writes, wpc, flow, regular, context, stale>>
        /\ up' \subseteq up
    BY <1>2 DEF Die, linkVars
  <2> QED BY <2>1, OthersStored DEF StoredInv
<1>3. ASSUME NEW w \in Workers, Ask(w) \/ AskCrashes(w) \/ Connect(w)
      PROVE  StoredInv'
  <2>1. /\ UNCHANGED <<up, writes, flow, stale>>
        /\ wpc[w] \in {"ask", "connect"}
        /\ wpc'[w] \in {"ask", "connect", "idle"}
        /\ \A v \in Workers \ {w} :
             /\ wpc'[v] = wpc[v]
             /\ regular'[v] = regular[v] /\ context'[v] = context[v]
    BY <1>3 DEF Ask, AskCrashes, Crash, Connect, clusterVars, TypeOK
  <2>2. ASSUME NEW v \in Workers, v # w PROVE (Sound(v) => DoneSoFar(v))'
    BY <2>1, <2>2, OthersStored
  <2>3. DoneSoFar(w)'
    BY <2>1 DEF DoneSoFar
  <2> QED BY <2>2, <2>3 DEF StoredInv
<1>4. ASSUME NEW w \in Workers, Answer(w) \/ \E f \in Flows : Take(w, f)
      PROVE  StoredInv'
  <2>1. /\ UNCHANGED <<up, writes, stale, regular, context>>
        /\ wpc'[w] \in {"idle", "getDevice"}
        /\ \A v \in Workers \ {w} : wpc'[v] = wpc[v] /\ flow'[v] = flow[v]
    BY <1>4 DEF Answer, Take, clusterVars, linkVars, TypeOK
  <2>2. ASSUME NEW v \in Workers, v # w PROVE (Sound(v) => DoneSoFar(v))'
    BY <2>1, <2>2, OthersStored
  <2>3. DoneSoFar(w)'
    BY <2>1 DEF DoneSoFar
  <2> QED BY <2>2, <2>3 DEF StoredInv
<1>5. ASSUME NEW w \in Workers, GetDevice(w) PROVE StoredInv'
  <2>1. /\ wpc[w] = "getDevice" /\ flow[w] \in Flows
        /\ DeviceKey(flow[w]) \in Keys /\ StateKey(flow[w]) \in Keys
        /\ SIDKey(flow[w]) \in Keys
    BY <1>5, AtWork, KeyType DEF GetDevice
  <2>2. /\ UNCHANGED <<clusterVars, writes, flow, linkVars>>
        /\ \/ wpc' = wpc
           \/ wpc' = [wpc EXCEPT ![w] = "setDevice"]
           \/ /\ wpc' = [wpc EXCEPT ![w] = "setState"]
              /\ \/ writes[DeviceKey(flow[w])] # 0
                 \/ Refused(w, DeviceKey(flow[w]))
    BY <1>5, <2>1, GetEffect DEF GetDevice
  <2>3. \/ UNCHANGED writes
        \/ \E j \in Keys : writes' = [writes EXCEPT ![j] =
             IF j[1] = "DEVICE_STATE" THEN 1 ELSE writes[j] + 1]
    BY <2>1, <2>2
  <2>4. ASSUME Sound(w) PROVE DoneSoFar(w)'
    <3>1. DoneSoFar(w)
      BY <2>4 DEF StoredInv
    <3>2. \A k \in Keys : Done(w, k) => Done(w, k)'
      BY <2>2, <2>3, DoneStays DEF clusterVars, linkVars
    <3>3. \/ wpc' = wpc \/ wpc' = [wpc EXCEPT ![w] = "setDevice"]
          \/ Done(w, DeviceKey(flow[w]))'
      BY <2>1, <2>2, <2>4, CommandDone DEF clusterVars, linkVars
    <3> QED BY <2>1, <2>2, <3>1, <3>2, <3>3
        DEF DoneSoFar, TypeOK, DeviceKey, StateKey, SIDKey
  <2> QED BY <2>1, <2>2, <2>3, <2>4, CommandStored DEF TypeOK
<1>6. ASSUME NEW w \in Workers, SetDevice(w) PROVE StoredInv'
  <2>1. /\ wpc[w] = "setDevice" /\ flow[w] \in Flows
        /\ DeviceKey(flow[w]) \in Keys /\ StateKey(flow[w]) \in Keys
        /\ SIDKey(flow[w]) \in Keys
    BY <1>6, AtWork, KeyType DEF SetDevice
  <2>2. /\ UNCHANGED <<clusterVars, flow, linkVars>>
        /\ \/ wpc' = wpc /\ UNCHANGED writes
           \/ /\ wpc' = [wpc EXCEPT ![w] = "setState"]
              /\ \/ UNCHANGED writes /\ Refused(w, DeviceKey(flow[w]))
                 \/ writes' = [writes EXCEPT ![DeviceKey(flow[w])] =
                      IF DeviceKey(flow[w])[1] = "DEVICE_STATE" THEN 1
                      ELSE writes[DeviceKey(flow[w])] + 1]
    BY <1>6, <2>1, SetEffect DEF SetDevice
  <2>3. \/ UNCHANGED writes
        \/ \E j \in Keys : writes' = [writes EXCEPT ![j] =
             IF j[1] = "DEVICE_STATE" THEN 1 ELSE writes[j] + 1]
    BY <2>1, <2>2
  <2>4. ASSUME Sound(w) PROVE DoneSoFar(w)'
    <3>1. DoneSoFar(w)
      BY <2>4 DEF StoredInv
    <3>2. \A k \in Keys : Done(w, k) => Done(w, k)'
      BY <2>2, <2>3, DoneStays DEF clusterVars, linkVars
    <3>3. wpc' = wpc \/ Done(w, DeviceKey(flow[w]))'
      BY <2>1, <2>2, <2>4, CommandDone DEF clusterVars, linkVars
    <3> QED BY <2>1, <2>2, <3>1, <3>2, <3>3
        DEF DoneSoFar, TypeOK, DeviceKey, StateKey, SIDKey
  <2> QED BY <2>1, <2>2, <2>3, <2>4, CommandStored DEF TypeOK
<1>7. ASSUME NEW w \in Workers, SetState(w) PROVE StoredInv'
  <2>1. /\ wpc[w] = "setState" /\ flow[w] \in Flows
        /\ DeviceKey(flow[w]) \in Keys /\ StateKey(flow[w]) \in Keys
        /\ SIDKey(flow[w]) \in Keys
    BY <1>7, AtWork, KeyType DEF SetState
  <2>2. /\ UNCHANGED <<clusterVars, flow, linkVars>>
        /\ \/ wpc' = wpc /\ UNCHANGED writes
           \/ /\ wpc' = [wpc EXCEPT ![w] = "getSID"]
              /\ \/ UNCHANGED writes /\ Refused(w, StateKey(flow[w]))
                 \/ writes' = [writes EXCEPT ![StateKey(flow[w])] =
                      IF StateKey(flow[w])[1] = "DEVICE_STATE" THEN 1
                      ELSE writes[StateKey(flow[w])] + 1]
    BY <1>7, <2>1, SetEffect DEF SetState
  <2>3. \/ UNCHANGED writes
        \/ \E j \in Keys : writes' = [writes EXCEPT ![j] =
             IF j[1] = "DEVICE_STATE" THEN 1 ELSE writes[j] + 1]
    BY <2>1, <2>2
  <2>4. ASSUME Sound(w) PROVE DoneSoFar(w)'
    <3>1. DoneSoFar(w)
      BY <2>4 DEF StoredInv
    <3>2. \A k \in Keys : Done(w, k) => Done(w, k)'
      BY <2>2, <2>3, DoneStays DEF clusterVars, linkVars
    <3>3. wpc' = wpc \/ Done(w, StateKey(flow[w]))'
      BY <2>1, <2>2, <2>4, CommandDone DEF clusterVars, linkVars
    <3> QED BY <2>1, <2>2, <3>1, <3>2, <3>3
        DEF DoneSoFar, TypeOK, DeviceKey, StateKey, SIDKey
  <2> QED BY <2>1, <2>2, <2>3, <2>4, CommandStored DEF TypeOK
<1>8. ASSUME NEW w \in Workers, GetSID(w) PROVE StoredInv'
  <2>1. /\ wpc[w] = "getSID" /\ flow[w] \in Flows
        /\ DeviceKey(flow[w]) \in Keys /\ StateKey(flow[w]) \in Keys
        /\ SIDKey(flow[w]) \in Keys
    BY <1>8, AtWork, KeyType DEF GetSID
  <2>2. /\ UNCHANGED <<clusterVars, writes, flow, linkVars>>
        /\ \/ wpc' = wpc
           \/ wpc' = [wpc EXCEPT ![w] = "setSID"]
           \/ /\ wpc' = [wpc EXCEPT ![w] = "answer"]
              /\ \/ writes[SIDKey(flow[w])] # 0
                 \/ Refused(w, SIDKey(flow[w]))
    BY <1>8, <2>1, GetEffect DEF GetSID
  <2>3. \/ UNCHANGED writes
        \/ \E j \in Keys : writes' = [writes EXCEPT ![j] =
             IF j[1] = "DEVICE_STATE" THEN 1 ELSE writes[j] + 1]
    BY <2>1, <2>2
  <2>4. ASSUME Sound(w) PROVE DoneSoFar(w)'
    <3>1. DoneSoFar(w)
      BY <2>4 DEF StoredInv
    <3>2. \A k \in Keys : Done(w, k) => Done(w, k)'
      BY <2>2, <2>3, DoneStays DEF clusterVars, linkVars
    <3>3. \/ wpc' = wpc \/ wpc' = [wpc EXCEPT ![w] = "setSID"]
          \/ Done(w, SIDKey(flow[w]))'
      BY <2>1, <2>2, <2>4, CommandDone DEF clusterVars, linkVars
    <3> QED BY <2>1, <2>2, <3>1, <3>2, <3>3
        DEF DoneSoFar, TypeOK, DeviceKey, StateKey, SIDKey
  <2> QED BY <2>1, <2>2, <2>3, <2>4, CommandStored DEF TypeOK
<1>9. ASSUME NEW w \in Workers, SetSID(w) PROVE StoredInv'
  <2>1. /\ wpc[w] = "setSID" /\ flow[w] \in Flows
        /\ DeviceKey(flow[w]) \in Keys /\ StateKey(flow[w]) \in Keys
        /\ SIDKey(flow[w]) \in Keys
    BY <1>9, AtWork, KeyType DEF SetSID
  <2>2. /\ UNCHANGED <<clusterVars, flow, linkVars>>
        /\ \/ wpc' = wpc /\ UNCHANGED writes
           \/ /\ wpc' = [wpc EXCEPT ![w] = "answer"]
              /\ \/ UNCHANGED writes /\ Refused(w, SIDKey(flow[w]))
                 \/ writes' = [writes EXCEPT ![SIDKey(flow[w])] =
                      IF SIDKey(flow[w])[1] = "DEVICE_STATE" THEN 1
                      ELSE writes[SIDKey(flow[w])] + 1]
    BY <1>9, <2>1, SetEffect DEF SetSID
  <2>3. \/ UNCHANGED writes
        \/ \E j \in Keys : writes' = [writes EXCEPT ![j] =
             IF j[1] = "DEVICE_STATE" THEN 1 ELSE writes[j] + 1]
    BY <2>1, <2>2
  <2>4. ASSUME Sound(w) PROVE DoneSoFar(w)'
    <3>1. DoneSoFar(w)
      BY <2>4 DEF StoredInv
    <3>2. \A k \in Keys : Done(w, k) => Done(w, k)'
      BY <2>2, <2>3, DoneStays DEF clusterVars, linkVars
    <3>3. wpc' = wpc \/ Done(w, SIDKey(flow[w]))'
      BY <2>1, <2>2, <2>4, CommandDone DEF clusterVars, linkVars
    <3> QED BY <2>1, <2>2, <3>1, <3>2, <3>3
        DEF DoneSoFar, TypeOK, DeviceKey, StateKey, SIDKey
  <2> QED BY <2>1, <2>2, <2>3, <2>4, CommandStored DEF TypeOK
<1>10. CASE UNCHANGED vars
  <2>1. UNCHANGED <<up, writes, wpc, flow, regular, context, stale>>
    BY <1>10 DEF vars, clusterVars, linkVars
  <2> QED BY <2>1, OthersStored DEF StoredInv
<1> QED BY <1>1, <1>2, <1>3, <1>4, <1>5, <1>6, <1>7, <1>8, <1>9, <1>10
    DEF Next, Work

\* server.c:207-217: when a packet's request is answered its three keys have
\* been written, or the slot of one that was not has moved.
THEOREM AnsweredIsStored == Spec => []StoredUnlessMoved
<1>1. Init => StoredInv
  BY DEF Init, StoredInv, DoneSoFar
<1>2. Spec => [](TypeOK /\ RouteInv /\ StoredInv)
  BY <1>1, TypeInit, TypeStep, RouteInit, RouteStep, StoredStep, PTL DEF Spec
<1>3. StoredInv => StoredUnlessMoved
  BY DEF StoredInv, StoredUnlessMoved, Sound, DoneSoFar, Done
<1> QED BY <1>2, <1>3, PTL

-----------------------------------------------------------------------------
(* How often a binding is written.  FewWrites is not inductive: a worker that *)
(* found the key nil is about to write it.  Once it has been written nobody   *)
(* joins those workers, and each write takes one away.                        *)

Setting(w, k) ==
  \/ wpc[w] = "setDevice" /\ k = DeviceKey(flow[w])
  \/ wpc[w] = "setSID" /\ k = SIDKey(flow[w])

Setters(k) == {w \in Workers : Setting(w, k)}

WriteInv ==
  \A k \in Keys :
    IF k[1] = "DEVICE_STATE"
    THEN writes[k] <= 1
    ELSE writes[k] > 0 =>
           writes[k] + Cardinality(Setters(k)) <= Cardinality(Workers)

LEMMA SettersFinite ==
  \A k : /\ IsFiniteSet(Setters(k)) /\ Cardinality(Setters(k)) \in Nat
         /\ Cardinality(Setters(k)) <= Cardinality(Workers)
<1> SUFFICES ASSUME NEW k
             PROVE  /\ IsFiniteSet(Setters(k))
                    /\ Cardinality(Setters(k)) \in Nat
                    /\ Cardinality(Setters(k)) <= Cardinality(Workers)
  OBVIOUS
<1>1. Setters(k) \in SUBSET Workers
  BY DEF Setters
<1> QED BY <1>1, WorkersAssumption, FS_Subset, FS_CardinalityType

LEMMA WorkersCounted ==
  Cardinality(Workers) \in Nat /\ Cardinality(Workers) >= 1
BY WorkersAssumption, FS_EmptySet, FS_CardinalityType

\* Where nothing is written and nobody begins to write, the bound is kept.
LEMMA NobodyBegins ==
  ASSUME TypeOK, WriteInv, UNCHANGED writes,
         \A k \in Keys : writes[k] > 0 => Setters(k)' \subseteq Setters(k)
  PROVE  WriteInv'
<1> SUFFICES ASSUME NEW k \in Keys
             PROVE  (IF k[1] = "DEVICE_STATE"
                     THEN writes[k] <= 1
                     ELSE writes[k] > 0 =>
                       writes[k] + Cardinality(Setters(k))
                         <= Cardinality(Workers))'
  BY DEF WriteInv
<1>1. CASE k[1] = "DEVICE_STATE"
  BY <1>1 DEF WriteInv
<1>2. CASE k[1] # "DEVICE_STATE" /\ writes[k] > 0
  <2>1. Setters(k)' \in SUBSET Setters(k)
    BY <1>2
  <2>2. Cardinality(Setters(k)') <= Cardinality(Setters(k))
    BY <2>1, SettersFinite, FS_Subset
  <2>3. Cardinality(Setters(k)') \in Nat
    BY <2>1, SettersFinite, FS_Subset, FS_CardinalityType
  <2>4. writes[k] + Cardinality(Setters(k)) <= Cardinality(Workers)
    BY <1>2 DEF WriteInv
  <2> QED BY <1>2, <2>2, <2>3, <2>4, SettersFinite, WorkersCounted DEF TypeOK
<1> QED BY <1>1, <1>2

\* A write takes its worker away from those that are about to write.
LEMMA WriteCounts ==
  ASSUME TypeOK, WriteInv, NEW w \in Workers, NEW k \in Keys,
         k[1] # "DEVICE_STATE",
         w \in Setters(k), Setters(k)' = Setters(k) \ {w},
         \A j \in Keys \ {k} : Setters(j)' \subseteq Setters(j),
         writes' = [writes EXCEPT ![k] = writes[k] + 1]
  PROVE  WriteInv'
<1> SUFFICES ASSUME NEW j \in Keys
             PROVE  (IF j[1] = "DEVICE_STATE"
                     THEN writes[j] <= 1
                     ELSE writes[j] > 0 =>
                       writes[j] + Cardinality(Setters(j))
                         <= Cardinality(Workers))'
  BY DEF WriteInv
<1>1. CASE j = k
  <2>1. Cardinality(Setters(k)') = Cardinality(Setters(k)) - 1
    BY SettersFinite, FS_RemoveElement
  <2>2. writes'[k] = writes[k] + 1 /\ writes[k] \in Nat
    BY DEF TypeOK
  <2>3. writes[k] + Cardinality(Setters(k)) <= Cardinality(Workers)
    BY <2>2, SettersFinite DEF WriteInv
  <2>4. Cardinality(Setters(k)) \in Nat /\ Cardinality(Workers) \in Nat
    BY SettersFinite, WorkersCounted
  <2>5. writes'[k] + Cardinality(Setters(k)') <= Cardinality(Workers)
    BY <2>1, <2>2, <2>3, <2>4
  <2> QED BY <1>1, <2>5
<1>2. CASE j # k /\ j[1] = "DEVICE_STATE"
  BY <1>2 DEF WriteInv, TypeOK
<1>3. CASE j # k /\ j[1] # "DEVICE_STATE" /\ writes[j] > 0
  <2>1. Setters(j)' \in SUBSET Setters(j)
    BY <1>3
  <2>2. Cardinality(Setters(j)') <= Cardinality(Setters(j))
    BY <2>1, SettersFinite, FS_Subset
  <2>3. Cardinality(Setters(j)') \in Nat
    BY <2>1, SettersFinite, FS_Subset, FS_CardinalityType
  <2>4. writes[j] + Cardinality(Setters(j)) <= Cardinality(Workers)
    BY <1>3 DEF WriteInv
  <2>5. writes'[j] = writes[j]
    BY <1>3 DEF TypeOK
  <2> QED BY <1>3, <2>2, <2>3, <2>4, <2>5, SettersFinite, WorkersCounted
          DEF TypeOK
<1> QED BY <1>1, <1>2, <1>3 DEF TypeOK

\* A state is written with a plain SET: the count is not of these.
LEMMA StateWrites ==
  ASSUME TypeOK, WriteInv, NEW k \in Keys, k[1] = "DEVICE_STATE",
         \A j \in Keys : Setters(j)' \subseteq Setters(j),
         writes' = [writes EXCEPT ![k] = 1]
  PROVE  WriteInv'
<1> SUFFICES ASSUME NEW j \in Keys
             PROVE  (IF j[1] = "DEVICE_STATE"
                     THEN writes[j] <= 1
                     ELSE writes[j] > 0 =>
                       writes[j] + Cardinality(Setters(j))
                         <= Cardinality(Workers))'
  BY DEF WriteInv
<1>1. CASE j[1] = "DEVICE_STATE"
  BY <1>1 DEF WriteInv, TypeOK
<1>2. CASE j # k /\ j[1] # "DEVICE_STATE" /\ writes[j] > 0
  <2>1. Setters(j)' \in SUBSET Setters(j)
    OBVIOUS
  <2>2. /\ Cardinality(Setters(j)') <= Cardinality(Setters(j))
        /\ Cardinality(Setters(j)') \in Nat
    BY <2>1, SettersFinite, FS_Subset, FS_CardinalityType
  <2>3. writes[j] + Cardinality(Setters(j)) <= Cardinality(Workers)
    BY <1>2 DEF WriteInv
  <2>4. writes'[j] = writes[j]
    BY <1>2 DEF TypeOK
  <2> QED BY <1>2, <2>2, <2>3, <2>4, SettersFinite, WorkersCounted DEF TypeOK
<1> QED BY <1>1, <1>2 DEF TypeOK

\* A SET of a binding by a worker that is about to write it.
LEMMA SetWrites ==
  ASSUME TypeOK, WriteInv, NEW w \in Workers, NEW k \in Keys,
         NEW then \in {"setState", "answer"}, k[1] # "DEVICE_STATE",
         w \in Setters(k), Set(w, k, then)
  PROVE  WriteInv'
<1>1. UNCHANGED flow /\ (wpc' = wpc \/ wpc' = [wpc EXCEPT ![w] = then])
  BY SetEffect
<1>2. \A j \in Keys : Setters(j)' \subseteq Setters(j)
  BY <1>1 DEF Setters, Setting, TypeOK
<1>3. CASE UNCHANGED writes
  BY <1>2, <1>3, NobodyBegins
<1>4. CASE /\ wpc' = [wpc EXCEPT ![w] = then]
           /\ writes' = [writes EXCEPT ![k] =
                 IF k[1] = "DEVICE_STATE" THEN 1 ELSE writes[k] + 1]
  <2>1. writes' = [writes EXCEPT ![k] = writes[k] + 1]
    BY <1>4
  <2>2. Setters(k)' = Setters(k) \ {w}
    BY <1>1, <1>4 DEF Setters, Setting, TypeOK
  <2> QED BY <1>2, <2>1, <2>2, WriteCounts
<1> QED BY <1>3, <1>4, SetEffect

\* A GET: only a worker that found the key nil goes where it writes it.
LEMMA GetNil ==
  ASSUME NEW w \in Workers, NEW k \in Keys, NEW ifNil, NEW otherwise,
         Get(w, k, ifNil, otherwise)
  PROVE  /\ writes' = writes /\ flow' = flow
         /\ \/ wpc' = wpc
            \/ wpc' = [wpc EXCEPT ![w] = ifNil] /\ writes[k] = 0
            \/ wpc' = [wpc EXCEPT ![w] = otherwise]
BY GetEffect

\* The bound is kept by every step.
LEMMA WriteStep == TypeOK /\ WriteInv /\ [Next]_vars => WriteInv'
<1> SUFFICES ASSUME TypeOK, WriteInv, [Next]_vars PROVE WriteInv'
  OBVIOUS
<1>1. CASE UNCHANGED <<writes, wpc, flow>>
  <2>1. \A k \in Keys : Setters(k)' \subseteq Setters(k)
    BY <1>1 DEF Setters, Setting
  <2> QED BY <1>1, <2>1, NobodyBegins
<1>2. ASSUME NEW w \in Workers,
             Ask(w) \/ Connect(w) \/ (\E f \in Flows : Take(w, f)) \/ Answer(w)
      PROVE  WriteInv'
  <2>1. \A v \in Workers \ {w} : wpc'[v] = wpc[v] /\ flow'[v] = flow[v]
    BY <1>2 DEF TypeOK, Ask, Connect, Take, Answer
  <2>2. wpc'[w] \in {"connect", "idle", "getDevice"}
    BY <1>2 DEF TypeOK, Ask, Connect, Take, Answer
  <2>3. UNCHANGED writes
    BY <1>2 DEF Ask, Connect, Take, Answer
  <2>4. \A k \in Keys : Setters(k)' \subseteq Setters(k)
    BY <2>1, <2>2 DEF Setters, Setting
  <2> QED BY <2>3, <2>4, NobodyBegins
<1>3. ASSUME NEW w \in Workers, GetDevice(w) PROVE WriteInv'
  <2>1. /\ wpc[w] = "getDevice" /\ flow[w] \in Flows
        /\ DeviceKey(flow[w]) \in Keys
        /\ Get(w, DeviceKey(flow[w]), "setDevice", "setState")
    BY <1>3, AtWork, KeyType DEF GetDevice
  <2>2. /\ writes' = writes /\ flow' = flow
        /\ \/ wpc' = wpc
           \/ /\ wpc' = [wpc EXCEPT ![w] = "setDevice"]
              /\ writes[DeviceKey(flow[w])] = 0
           \/ wpc' = [wpc EXCEPT ![w] = "setState"]
    BY <2>1, GetNil
  <2>3. ASSUME NEW k \in Keys, writes[k] > 0
        PROVE  Setters(k)' \subseteq Setters(k)
    BY <2>1, <2>2, <2>3 DEF Setters, Setting, TypeOK
  <2> QED BY <2>2, <2>3, NobodyBegins
<1>4. ASSUME NEW w \in Workers, SetDevice(w) PROVE WriteInv'
  <2>1. /\ wpc[w] = "setDevice" /\ flow[w] \in Flows
        /\ DeviceKey(flow[w]) \in Keys
        /\ Set(w, DeviceKey(flow[w]), "setState")
    BY <1>4, AtWork, KeyType DEF SetDevice
  <2>2. DeviceKey(flow[w])[1] # "DEVICE_STATE"
    BY DEF DeviceKey
  <2>3. w \in Setters(DeviceKey(flow[w]))
    BY <2>1 DEF Setters, Setting
  <2> QED BY <2>1, <2>2, <2>3, SetWrites
<1>5. ASSUME NEW w \in Workers, SetState(w) PROVE WriteInv'
  <2>1. /\ wpc[w] = "setState" /\ flow[w] \in Flows
        /\ StateKey(flow[w]) \in Keys
    BY <1>5, AtWork, KeyType DEF SetState
  <2>2. /\ UNCHANGED flow
        /\ wpc' = wpc \/ wpc' = [wpc EXCEPT ![w] = "getSID"]
        /\ \/ UNCHANGED writes
           \/ writes' = [writes EXCEPT ![StateKey(flow[w])] =
                IF StateKey(flow[w])[1] = "DEVICE_STATE" THEN 1
                ELSE writes[StateKey(flow[w])] + 1]
    BY <1>5, <2>1, SetEffect DEF SetState
  <2>3. StateKey(flow[w])[1] = "DEVICE_STATE"
    BY DEF StateKey
  <2>4. \A k \in Keys : Setters(k)' \subseteq Setters(k)
    BY <2>1, <2>2 DEF Setters, Setting, TypeOK
  <2>5. CASE UNCHANGED writes
    BY <2>4, <2>5, NobodyBegins
  <2>6. CASE writes' = [writes EXCEPT ![StateKey(flow[w])] = 1]
    BY <2>1, <2>3, <2>4, <2>6, StateWrites
  <2> QED BY <2>2, <2>3, <2>5, <2>6
<1>6. ASSUME NEW w \in Workers, GetSID(w) PROVE WriteInv'
  <2>1. /\ wpc[w] = "getSID" /\ flow[w] \in Flows
        /\ SIDKey(flow[w]) \in Keys
        /\ Get(w, SIDKey(flow[w]), "setSID", "answer")
    BY <1>6, AtWork, KeyType DEF GetSID
  <2>2. /\ writes' = writes /\ flow' = flow
        /\ \/ wpc' = wpc
           \/ /\ wpc' = [wpc EXCEPT ![w] = "setSID"]
              /\ writes[SIDKey(flow[w])] = 0
           \/ wpc' = [wpc EXCEPT ![w] = "answer"]
    BY <2>1, GetNil
  <2>3. ASSUME NEW k \in Keys, writes[k] > 0
        PROVE  Setters(k)' \subseteq Setters(k)
    BY <2>1, <2>2, <2>3 DEF Setters, Setting, TypeOK
  <2> QED BY <2>2, <2>3, NobodyBegins
<1>7. ASSUME NEW w \in Workers, SetSID(w) PROVE WriteInv'
  <2>1. /\ wpc[w] = "setSID" /\ flow[w] \in Flows
        /\ SIDKey(flow[w]) \in Keys
        /\ Set(w, SIDKey(flow[w]), "answer")
    BY <1>7, AtWork, KeyType DEF SetSID
  <2>2. SIDKey(flow[w])[1] # "DEVICE_STATE"
    BY DEF SIDKey
  <2>3. w \in Setters(SIDKey(flow[w]))
    BY <2>1 DEF Setters, Setting
  <2> QED BY <2>1, <2>2, <2>3, SetWrites
<1>8. ASSUME NEW s \in Slots, NEW n \in Nodes, Move(s, n)
      PROVE  UNCHANGED <<writes, wpc, flow>>
  BY <1>8 DEF Move
<1>9. ASSUME NEW n \in Nodes, Die(n) PROVE UNCHANGED <<writes, wpc, flow>>
  BY <1>9 DEF Die
<1>10. ASSUME NEW w \in Workers, AskCrashes(w)
       PROVE  UNCHANGED <<writes, wpc, flow>>
  BY <1>10 DEF AskCrashes, Crash
<1>11. CASE UNCHANGED vars
  BY <1>1, <1>11 DEF vars
<1> QED BY <1>1, <1>2, <1>3, <1>4, <1>5, <1>6, <1>7, <1>8, <1>9, <1>10, <1>11
    DEF Next, Work

LEMMA WriteBound == TypeOK /\ WriteInv => FewWrites
<1> SUFFICES ASSUME TypeOK, WriteInv, NEW k \in Keys
             PROVE  writes[k] <= Cardinality(Workers)
  BY DEF FewWrites
<1>1. writes[k] \in Nat
  BY DEF TypeOK
<1>2. CASE k[1] = "DEVICE_STATE"
  BY <1>1, <1>2, WorkersCounted DEF WriteInv
<1>3. CASE k[1] # "DEVICE_STATE" /\ writes[k] > 0
  BY <1>1, <1>3, SettersFinite, WorkersCounted DEF WriteInv
<1> QED BY <1>1, <1>2, <1>3, WorkersCounted

\* server.c:183-204: however the commands of the workers interleave, a binding
\* is written no more often than there are workers.
THEOREM BindingsWrittenFew == Spec => []FewWrites
<1>1. Init => WriteInv
  <2> SUFFICES ASSUME Init, NEW k \in Keys PROVE writes[k] = 0
    BY DEF WriteInv
  <2> QED BY DEF Init
<1>2. Spec => [](TypeOK /\ WriteInv)
  BY <1>1, TypeInit, TypeStep, WriteStep, PTL DEF Spec
<1> QED BY <1>2, WriteBound, PTL
=============================================================================

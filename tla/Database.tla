------------------------------- MODULE Database -------------------------------
(***************************************************************************)
(* What the workers keep in the Redis cluster (queryDatabase and           *)
(* processDatabase in server/server.c) and how they find the node for a    *)
(* key (server/redis/connect.c).  A worker asks one node for the layout of *)
(* the cluster, takes one range of slots per node from the answer, and     *)
(* sends each command to the node that then had the slot.  It never asks   *)
(* again: a command for a slot that has moved is refused.                  *)
(*                                                                         *)
(* The cluster is the environment: slots may move, with the keys in them,  *)
(* and nodes may die.  Following a pointer that was never set, or the      *)
(* reply of a broken connection, ends the server.                          *)
(***************************************************************************)
EXTENDS Integers, FiniteSets

CONSTANTS
  Workers, Nodes,
  Seed,        \* database_ip and database_port, the node that is asked
  SlotCount,   \* 16384 in the code
  Flows,       \* a flow is its SID, userID[1] of its packets
  User,        \* userID[0] of the packets of a flow
  Hash,        \* crc16 of a key
  Moves,       \* bound on the slots that move and the nodes that die
  Unset, NoFlow

Slots == 0 .. SlotCount - 1
Users == {User[f] : f \in Flows}
Keys  == ({"USER_DEVICE", "DEVICE_STATE"} \X Users) \cup ({"USER_KEY"} \X Flows)

ASSUME WorkersAssumption == IsFiniteSet(Workers) /\ Workers # {}
ASSUME NodesAssumption   ==
  IsFiniteSet(Nodes) /\ Seed \in Nodes /\ Unset \notin Nodes
\* The parser has room for 49 masters and the rest of the text behind the last
\* (char *argv[50], connect.c:317; connect.h:21-22) and writes on without a
\* test: a larger cluster is not covered.
ASSUME RoomAssumption    == Cardinality(Nodes) < 50
ASSUME CountAssumption   == SlotCount \in Nat \ {0} /\ Moves \in Nat
ASSUME FlowsAssumption   == NoFlow \notin Flows
ASSUME HashAssumption    == Hash \in [Keys -> Nat]

Slot(k) == Hash[k] % SlotCount
DeviceKey(f) == <<"USER_DEVICE", User[f]>>
StateKey(f)  == <<"DEVICE_STATE", User[f]>>
SIDKey(f)    == <<"USER_KEY", f>>

-----------------------------------------------------------------------------
(* The line of a node in the answer to "cluster nodes": its slots as ranges *)
(* lo-hi in ascending order, a single slot as a number.                     *)

Least(S) == CHOOSE x \in S : \A y \in S : x <= y

Starts(own) == {s \in own : s - 1 \notin own}
EndOf(own, s) == Least({e \in own : e >= s /\ e + 1 \notin own})
Dashed(own) == {s \in Starts(own) : EndOf(own, s) # s}

\* Without a slot, or without a dash, the parser follows a null pointer.
Parsed(own) == Dashed(own) # {}

\* the number after "connected", and the one after the first dash
StartSlot(own) == Least(own)
EndSlot(own) == EndOf(own, Least(Dashed(own)))

\* a slip: the last slot of the range is left out
ClaimsShort(own, s) == StartSlot(own) <= s /\ s < EndSlot(own)
Claims(own, s) == StartSlot(own) <= s /\ s <= EndSlot(own)

-----------------------------------------------------------------------------
VARIABLES
  owner,    \* the node that has a slot
  up,       \* the nodes that run
  moves,    \* counts slots that moved and nodes that died
  writes,   \* how often a key was set (a state: whether), 0 if it is nil
  crashed,  \* the server has ended
  \* per worker
  wpc, flow,  \* where it is, whose packet it has
  host,       \* slot_to_host
  context,    \* nodes whose context is set
  stale,      \* history: slots that moved since it asked
  regular     \* history: did each node have one range when it asked?

clusterVars == <<owner, up, moves>>
linkVars    == <<host, context, stale, regular>>
vars == <<clusterVars, writes, crashed, wpc, flow, linkVars>>

Own(n) == {s \in Slots : owner[s] = n}
\* Each node has one range of slots, and of more than one slot.
Regular == \A n \in Nodes : \E lo, hi \in Slots : lo < hi /\ Own(n) = lo .. hi

Init ==
  /\ owner \in [Slots -> Nodes] /\ up = Nodes /\ moves = 0
  /\ writes = [k \in Keys |-> 0]
  /\ crashed = FALSE
  /\ wpc = [w \in Workers |-> "ask"] /\ flow = [w \in Workers |-> NoFlow]
  /\ host = [w \in Workers |-> [s \in Slots |-> Unset]]
  /\ context = [w \in Workers |-> {}]
  /\ stale = [w \in Workers |-> {}]
  /\ regular = [w \in Workers |-> TRUE]

-----------------------------------------------------------------------------
(* The cluster                                                              *)

Move(s, n) ==
  /\ moves < Moves /\ moves' = moves + 1
  /\ owner[s] # n /\ n \in up
  /\ owner' = [owner EXCEPT ![s] = n]
  /\ stale' = [w \in Workers |->
                 IF wpc[w] = "ask" THEN {} ELSE stale[w] \cup {s}]
  /\ UNCHANGED <<up, writes, crashed, wpc, flow, host, context, regular>>

Die(n) ==
  /\ moves < Moves /\ moves' = moves + 1
  /\ n \in up /\ up' = up \ {n}
  /\ UNCHANGED <<owner, writes, crashed, wpc, flow, linkVars>>

-----------------------------------------------------------------------------
(* connectRedis                                                             *)

Crash == crashed' = TRUE /\ UNCHANGED <<clusterVars, writes, wpc, flow>>

\* assign_slot, nodes being listed in some order: of two that claim a slot the
\* later one gets it.
Orders == {place \in [Nodes -> 1 .. Cardinality(Nodes)] :
             \A m, n \in Nodes : place[m] = place[n] => m = n}

AssignSlot(map, place) ==
  \A s \in Slots :
    LET claimers == {n \in Nodes : Claims(Own(n), s)}
    IN  IF claimers = {} THEN map[s] = Unset
        ELSE /\ map[s] \in claimers
             /\ \A m \in claimers : place[m] <= place[map[s]]

\* __clusterInfo up to assign_slot
Ask(w) ==
  /\ wpc[w] = "ask"
  /\ Seed \in up /\ \A n \in Nodes : Parsed(Own(n))
  /\ \E map \in [Slots -> Nodes \cup {Unset}], place \in Orders :
       AssignSlot(map, place) /\ host' = [host EXCEPT ![w] = map]
  /\ regular' = [regular EXCEPT ![w] = Regular]
  /\ wpc' = [wpc EXCEPT ![w] = "connect"]
  /\ UNCHANGED <<clusterVars, writes, crashed, flow, context, stale>>

\* The node asked does not run, or a node's line cannot be parsed.
AskCrashes(w) ==
  /\ wpc[w] = "ask"
  /\ Seed \notin up \/ \E n \in Nodes : ~Parsed(Own(n))
  /\ regular' = [regular EXCEPT ![w] = Regular]
  /\ Crash /\ UNCHANGED <<host, context, stale>>

\* __add_context_to_cluster: it stops at the first node that refuses, and
\* those listed after it keep a context that was never set.
Connect(w) ==
  /\ wpc[w] = "connect"
  /\ \E reached \in SUBSET up :
       /\ up = Nodes => reached = Nodes
       /\ context' = [context EXCEPT ![w] = reached]
  /\ wpc' = [wpc EXCEPT ![w] = "idle"]
  /\ UNCHANGED <<clusterVars, writes, crashed, flow, host, stale, regular>>

-----------------------------------------------------------------------------
(* A command of worker w for key k                                          *)

Node(w, k) == host[w][Slot(k)]
Linked(w, k) == Node(w, k) \in context[w] \cap up

Accepted(w, k) == Linked(w, k) /\ owner[Slot(k)] = Node(w, k)

\* MOVED, CLUSTERDOWN, or a context that happens to be NULL
Refused(w, k) ==
  \/ Linked(w, k) /\ (owner[Slot(k)] # Node(w, k) \/ up # Nodes)
  \/ Node(w, k) \in Nodes \ context[w]

\* a slip: a reply that refuses is followed
BreaksRefused(w, k) == ~Accepted(w, k)
\* no parseArgv, a context that was never set, no reply
Breaks(w, k) == ~Linked(w, k)

Goto(w, place) ==
  /\ wpc' = [wpc EXCEPT ![w] = place]
  /\ UNCHANGED <<clusterVars, crashed, flow, linkVars>>

\* a slip: a key that is found is set again
GetSetsAll(w, k, ifNil, otherwise) ==
  \/ /\ Accepted(w, k)
     /\ Goto(w, ifNil)
     /\ UNCHANGED writes
  \/ /\ Refused(w, k)
     /\ Goto(w, otherwise) /\ UNCHANGED writes
  \/ /\ Breaks(w, k)
     /\ Crash /\ UNCHANGED linkVars
\* a slip: a key that is nil is taken for one that is found
GetSetsNone(w, k, ifNil, otherwise) ==
  \/ /\ Accepted(w, k)
     /\ Goto(w, otherwise)
     /\ UNCHANGED writes
  \/ /\ Refused(w, k)
     /\ Goto(w, otherwise) /\ UNCHANGED writes
  \/ /\ Breaks(w, k)
     /\ Crash /\ UNCHANGED linkVars
\* queryDatabase with GET, up to the SET of a key that is nil
Get(w, k, ifNil, otherwise) ==
  \/ /\ Accepted(w, k)
     /\ Goto(w, IF writes[k] = 0 THEN ifNil ELSE otherwise)
     /\ UNCHANGED writes
  \/ /\ Refused(w, k)
     /\ Goto(w, otherwise) /\ UNCHANGED writes
  \/ /\ Breaks(w, k)
     /\ Crash /\ UNCHANGED linkVars

\* SET; what it returns is not looked at
Set(w, k, then) ==
  \/ /\ Accepted(w, k)
     /\ writes' = [writes EXCEPT ![k] =
                     IF k[1] = "DEVICE_STATE" THEN 1 ELSE writes[k] + 1]
     /\ Goto(w, then)
  \/ /\ Refused(w, k)
     /\ Goto(w, then) /\ UNCHANGED writes
  \/ /\ Breaks(w, k)
     /\ Crash /\ UNCHANGED linkVars

-----------------------------------------------------------------------------
(* processPackets, processDatabase                                          *)

Take(w, f) ==
  /\ wpc[w] = "idle"
  /\ wpc' = [wpc EXCEPT ![w] = "getDevice"]
  /\ flow' = [flow EXCEPT ![w] = f]
  /\ UNCHANGED <<clusterVars, writes, crashed, linkVars>>

GetDevice(w) ==
  wpc[w] = "getDevice" /\ Get(w, DeviceKey(flow[w]), "setDevice", "setState")

SetDevice(w) ==
  wpc[w] = "setDevice" /\ Set(w, DeviceKey(flow[w]), "setState")

SetState(w) ==
  wpc[w] = "setState" /\ Set(w, StateKey(flow[w]), "getSID")

GetSID(w) ==
  wpc[w] = "getSID" /\ Get(w, SIDKey(flow[w]), "setSID", "answer")

SetSID(w) ==
  wpc[w] = "setSID" /\ Set(w, SIDKey(flow[w]), "answer")

\* A request is answered, whatever came of the commands.
Answer(w) ==
  /\ wpc[w] = "answer"
  /\ wpc' = [wpc EXCEPT ![w] = "idle"]
  /\ flow' = [flow EXCEPT ![w] = NoFlow]
  /\ UNCHANGED <<clusterVars, writes, crashed, linkVars>>

Work(w) ==
  \/ Ask(w) \/ AskCrashes(w) \/ Connect(w)
  \/ \E f \in Flows : Take(w, f)
  \/ GetDevice(w) \/ SetDevice(w) \/ SetState(w) \/ GetSID(w) \/ SetSID(w)
  \/ Answer(w)

Next ==
  \/ \E s \in Slots, n \in Nodes : Move(s, n)
  \/ \E n \in Nodes : Die(n)
  \/ ~crashed /\ \E w \in Workers : Work(w)

Spec == Init /\ [][Next]_vars

-----------------------------------------------------------------------------
(* Properties.                                                              *)

TypeOK ==
  /\ owner \in [Slots -> Nodes] /\ up \subseteq Nodes /\ moves \in 0 .. Moves
  /\ writes \in [Keys -> Nat]
  /\ crashed \in BOOLEAN
  /\ wpc \in [Workers -> {"ask", "connect", "idle", "getDevice", "setDevice",
                          "setState", "getSID", "setSID", "answer"}]
  /\ flow \in [Workers -> Flows \cup {NoFlow}]
  /\ \A w \in Workers :
       flow[w] = NoFlow <=> wpc[w] \in {"ask", "connect", "idle"}
  /\ host \in [Workers -> [Slots -> Nodes \cup {Unset}]]
  /\ context \in [Workers -> SUBSET Nodes]
  /\ stale \in [Workers -> SUBSET Slots]
  /\ regular \in [Workers -> BOOLEAN]

\* The slot map is right: if each node had one range of slots when a worker
\* asked, it sends each command to the node that has the slot, unless the slot
\* has moved since.
RoutesRight ==
  \A w \in Workers : wpc[w] # "ask" /\ regular[w] =>
    \A s \in Slots \ stale[w] : host[w][s] = owner[s]

\* GET and SET of a binding are two commands, and workers may all find it nil;
\* but once one has set it no other will begin to: it is written no more often
\* than there are workers, wherever slots move in between.
FewWrites ==
  \A k \in Keys : writes[k] <= Cardinality(Workers)

\* When a request is answered, what its packet says has been stored, or the
\* slot of the key has moved since the worker asked, or a node has died.  The code does not say so
\* to the client: it ignores the errors (server.c:183-217).
StoredUnlessMoved ==
  \A w \in Workers :
    wpc[w] = "answer" /\ regular[w] /\ context[w] = Nodes =>
      \A k \in {DeviceKey(flow[w]), StateKey(flow[w]), SIDKey(flow[w])} :
        writes[k] > 0 \/ Slot(k) \in stale[w] \/ up # Nodes

\* The server ends only if a node has died, or had no range, or more than one,
\* when a worker asked: a slot that moves does not end it.
CrashHasCause ==
  crashed => up # Nodes \/ \E w \in Workers : ~regular[w]
=============================================================================

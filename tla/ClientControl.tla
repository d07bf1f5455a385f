----------------------------- MODULE ClientControl ----------------------------
(***************************************************************************)
(* Changing the client's settings while it runs (client/client.c,          *)
(* client/epoll.c, client/client_config.c).  The admin thread (update_cfg) *)
(* reads the file every five seconds; to add flows it reopens closed ones  *)
(* and creates the rest itself, to remove some it adds to close_conns and  *)
(* leaves the closing to epollLoop, which looks at it when an event comes. *)
(* updateEvents registers flows meanwhile.  Nothing is locked.             *)
(*                                                                         *)
(* A flow is named by its place in connsMap, the random order in which     *)
(* flows are closed and reopened.  Of a flow only what concerns its being  *)
(* there is kept; ClientFlows has the rest, PacketMix the share of requests.*)
(* Left out: active_connections and params->connections, which nothing     *)
(* reads, and the pacing.                                                  *)
(***************************************************************************)
EXTENDS Integers, FiniteSets

CONSTANTS
  Places,     \* number of places in connsMap, MAX_EVENTS
  MaxConns,   \* bound on the connections asked for
  Edits       \* bound on the changes of the file

ASSUME PlacesAssumption == Places \in Nat \ {0, 1}
ASSUME BoundsAssumption == MaxConns \in Nat /\ Edits \in Nat

Flows == 0 .. Places - 1

VARIABLES
  file,       \* connections and kill in settings.cfg
  edits,      \* changes of it so far
  conns,      \* conf->connections
  \* packets_time and the kernel
  there,      \* flows whose efd is set
  closed,     \* flows whose connectionClosed is 1
  known,      \* flows registered with epoll
  \* shared counters
  dead,       \* dead_connections
  toClose,    \* params->close_conns
  \* update_cfg: what it does, how many flows are to do, place or value read
  apc, todo, aval,
  \* epollLoop: what it does, close_conns it read, flows to do, place or value
  lpc, taken, left, lval,
  \* updateEvents: the flow it has found ready
  armed,
  \* history: open flows lost to the server, and flows that were not created;
  \* has something happened that the counts do not survive?
  lost, disturbed

flowVars  == <<there, closed, known>>
adminVars == <<apc, todo, aval>>
loopVars  == <<lpc, taken, left, lval>>
histVars  == <<lost, disturbed>>
vars == <<file, edits, conns, flowVars, dead, toClose, adminVars, loopVars,
          armed, histVars>>

Live == there \ closed
Running == apc # "exited"
None == -1   \* updateEvents is at no flow

\* The flows of the first configuration have been created.
Init ==
  /\ conns \in 1 .. MaxConns
  /\ file = [connections |-> conns, kill |-> FALSE] /\ edits = 0
  /\ there \in SUBSET Flows /\ Cardinality(there) = conns
  /\ closed = Flows \ there /\ known = {}
  /\ dead = 0 /\ toClose = 0
  /\ apc = "sleep" /\ todo = 0 /\ aval = 0
  /\ lpc = "wait" /\ taken = 0 /\ left = 0 /\ lval = 0
  /\ armed = None
  /\ lost = 0 /\ disturbed = FALSE

\* Somebody edits settings.cfg: the number of flows, or kill.
Edit(n, k) ==
  /\ Running /\ edits < Edits
  /\ file' = [connections |-> n, kill |-> k] /\ file' # file
  /\ edits' = edits + 1
  /\ UNCHANGED <<conns, flowVars, dead, toClose, adminVars, loopVars, armed,
                 histVars>>

\* An update of dead_connections is lost if the other thread is at one too.
Racing(new, otherAtWork) ==
  dead' \in {new} \cup IF otherAtWork THEN {dead} ELSE {}

-----------------------------------------------------------------------------
(* update_cfg                                                              *)

\* updateEpoch, then updateConnections with the difference
Poll ==
  /\ apc = "sleep" /\ ~file.kill
  /\ conns' = file.connections
  /\ IF conns' > conns
     THEN /\ apc' = "restore" /\ todo' = conns' - conns /\ aval' = 0
     ELSE IF conns' < conns
     THEN /\ apc' = "load" /\ todo' = conns - conns' /\ UNCHANGED aval
     ELSE UNCHANGED adminVars
  /\ UNCHANGED <<file, edits, flowVars, dead, toClose, loopVars, armed,
                 histVars>>

\* kill: closeAllConnections, exit
Kill ==
  /\ apc = "sleep" /\ file.kill
  /\ conns' = file.connections
  /\ there' = {} /\ closed' = Flows /\ known' = {}
  /\ apc' = "exited" /\ lpc' = "exited" /\ armed' = None
  /\ UNCHANGED <<file, edits, dead, toClose, todo, aval, taken, left, lval,
                 histVars>>

\* a slip: the next place is looked at only after a flow has been reopened
RestoreOneStays ==
  /\ apc = "restore" /\ todo > 0
  /\ dead # 0 /\ aval < Places
  /\ aval \in there /\ aval \in closed
  /\ closed' = closed \ {aval} /\ aval' = aval + 1 /\ todo' = todo - 1
  /\ Racing(dead - 1, lpc = "close")
  /\ UNCHANGED <<file, edits, conns, there, known, toClose, apc, loopVars,
                 armed, histVars>>
\* restoreConnections; of a flow that is there and not closed restoreConnection
\* returns nothing, which without optimisation is the 0 it has just compared
RestoreOne ==
  /\ apc = "restore" /\ todo > 0
  /\ dead # 0 /\ aval < Places
  /\ aval' = aval + 1
  /\ IF aval \in there /\ aval \in closed
     THEN /\ closed' = closed \ {aval}
          /\ Racing(dead - 1, lpc = "close")
          /\ todo' = todo - 1
     ELSE UNCHANGED <<closed, dead, todo>>
  /\ UNCHANGED <<file, edits, conns, there, known, toClose, apc, loopVars,
                 armed, histVars>>

RestoreGivesUp ==
  /\ apc = "restore" /\ todo > 0
  /\ dead = 0 \/ aval >= Places
  /\ Racing(0, lpc = "close")
  /\ apc' = "create" /\ aval' = 0
  /\ UNCHANGED <<file, edits, conns, flowVars, toClose, todo, loopVars, armed,
                 histVars>>

\* createEvents: the kernel gives out a free descriptor
CreateOne(f) ==
  /\ apc = "create" /\ todo > 0
  /\ f \notin there
  /\ there' = there \cup {f} /\ closed' = closed \ {f}
  /\ todo' = todo - 1
  /\ UNCHANGED <<file, edits, conns, known, dead, toClose, apc, aval, loopVars,
                 armed, histVars>>

\* bind or connect fails: continue
CreateFails ==
  /\ apc = "create" /\ todo > 0
  /\ todo' = todo - 1
  /\ lost' = lost + 1
  /\ UNCHANGED <<file, edits, conns, flowVars, dead, toClose, apc, aval,
                 loopVars, armed,
                 disturbed>>

\* socket fails: exit, and the kernel closes what was open
CreateExits ==
  /\ apc = "create" /\ todo > 0
  /\ there' = {} /\ closed' = Flows /\ known' = {}
  /\ apc' = "exited" /\ lpc' = "exited" /\ armed' = None
  /\ UNCHANGED <<file, edits, conns, dead, toClose, todo, aval, taken, left, lval,
                 histVars>>

Added ==
  /\ apc \in {"restore", "create"} /\ todo = 0
  /\ apc' = "sleep" /\ aval' = 0
  /\ UNCHANGED <<file, edits, conns, flowVars, dead, toClose, todo, loopVars,
                 armed, histVars>>

\* deleteConnections: close_conns += todo, a load and a store
AddLoad ==
  /\ apc = "load"
  /\ aval' = toClose
  /\ apc' = "store"
  /\ disturbed' = (disturbed \/ lpc = "subtract")
  /\ UNCHANGED <<file, edits, conns, flowVars, dead, toClose, todo, loopVars,
                 armed, lost>>

AddStore ==
  /\ apc = "store"
  /\ toClose' = aval + todo
  /\ apc' = "sleep" /\ todo' = 0 /\ aval' = 0
  /\ UNCHANGED <<file, edits, conns, flowVars, dead, loopVars, armed,
                 histVars>>

AdminStep ==
  \/ Poll \/ Kill \/ RestoreOne \/ RestoreGivesUp \/ CreateFails \/ CreateExits
  \/ Added \/ AddLoad \/ AddStore \/ \E f \in Flows : CreateOne(f)

-----------------------------------------------------------------------------
(* epollLoop                                                               *)

\* epoll_wait returns with an event of some flow, and close_conns is not 0.
WakeToClose ==
  /\ lpc = "wait" /\ known # {} /\ toClose > 0
  /\ taken' = toClose /\ left' = toClose /\ lval' = 1
  /\ lpc' = "close"
  /\ UNCHANGED <<file, edits, conns, flowVars, dead, toClose, adminVars, armed,
                 histVars>>

\* a slip: a flow that is closed already is counted
CloseOneAgain ==
  /\ lpc = "close" /\ left > 0 /\ lval < Places
  /\ lval' = lval + 1
  /\ IF lval \in there
     THEN /\ closed' = closed \cup {lval}
          /\ Racing(dead + 1, apc = "restore")
          /\ left' = left - 1
     ELSE UNCHANGED <<closed, dead, left>>
  /\ UNCHANGED <<file, edits, conns, there, known, toClose, adminVars, lpc,
                 taken, armed, histVars>>
\* closeConnections, closeConnection
CloseOne ==
  /\ lpc = "close" /\ left > 0 /\ lval < Places
  /\ lval' = lval + 1
  /\ IF lval \in there /\ lval \notin closed
     THEN /\ closed' = closed \cup {lval}
          /\ Racing(dead + 1, apc = "restore")
          /\ left' = left - 1
     ELSE UNCHANGED <<closed, dead, left>>
  /\ UNCHANGED <<file, edits, conns, there, known, toClose, adminVars, lpc,
                 taken, armed, histVars>>

\* close_conns -= taken, a load and a store
SubtractLoad ==
  /\ lpc = "close" /\ (left = 0 \/ lval >= Places)
  /\ lval' = toClose /\ left' = 0
  /\ lpc' = "subtract"
  /\ disturbed' = (disturbed \/ apc = "store" \/ (left > 0 /\ 0 \in Live))
  /\ UNCHANGED <<file, edits, conns, flowVars, dead, toClose, adminVars, taken,
                 armed, lost>>

SubtractStore ==
  /\ lpc = "subtract"
  /\ toClose' = lval - taken
  /\ lpc' = "wait" /\ taken' = 0 /\ lval' = 0
  /\ UNCHANGED <<file, edits, conns, flowVars, dead, adminVars, left,
                 armed, histVars>>

\* The server closes a flow, which is deleted: its descriptor is free again.
\* One that was to stay is lost, one counted as dead stays counted.
Delete(f) ==
  /\ lpc = "wait" /\ f \in known
  /\ there' = there \ {f} /\ closed' = closed \cup {f} /\ known' = known \ {f}
  /\ lost' = lost + Cardinality({f} \ closed)
  /\ UNCHANGED <<file, edits, conns, dead, toClose, adminVars, loopVars, armed,
                 disturbed>>

CloseStep == WakeToClose \/ CloseOne \/ SubtractLoad \/ SubtractStore

-----------------------------------------------------------------------------
(* updateEvents, for a flow that is not registered yet                     *)

\* canSendPkt
Scan(f) ==
  /\ Running /\ armed = None
  /\ f \in Live \ known
  /\ armed' = f
  /\ UNCHANGED <<file, edits, conns, flowVars, dead, toClose, adminVars,
                 loopVars, histVars>>

\* addEpollEvent, which opens the flow if it was closed meanwhile
Arm ==
  /\ armed # None
  /\ closed' = closed \ {armed} /\ known' = known \cup {armed}
  /\ armed' = None
  /\ disturbed' = (disturbed \/ armed \in closed)
  /\ UNCHANGED <<file, edits, conns, there, dead, toClose, adminVars, loopVars,
                 lost>>

-----------------------------------------------------------------------------
Next ==
  \/ \E n \in 0 .. MaxConns, k \in BOOLEAN : Edit(n, k)
  \/ AdminStep
  \/ CloseStep
  \/ \E f \in Flows : Delete(f) \/ Scan(f)
  \/ Arm

Spec == Init /\ [][Next]_vars

\* The threads run; a flow that is there gets its turn and wakes epollLoop, its
\* requests being answered (ClientFlows), so that WakeToClose is fair only as
\* long as there is one.
FairSpec ==
  /\ Spec
  /\ WF_vars(AdminStep)
  /\ WF_vars(Live # {} /\ WakeToClose)
  /\ WF_vars(CloseOne \/ SubtractLoad \/ SubtractStore)
  /\ WF_vars(Arm)
  /\ \A f \in Flows : SF_vars(Scan(f))

-----------------------------------------------------------------------------
(* Properties.                                                             *)

TypeOK ==
  /\ file \in [connections : 0 .. MaxConns, kill : BOOLEAN]
  /\ edits \in 0 .. Edits
  /\ conns \in 0 .. MaxConns
  /\ there \in SUBSET Flows /\ closed \in SUBSET Flows
  /\ known \in SUBSET there
  /\ dead \in Nat /\ toClose \in Int
  /\ apc \in {"sleep", "restore", "create", "load", "store", "exited"}
  /\ todo \in 0 .. MaxConns /\ aval \in Int
  /\ lpc \in {"wait", "close", "subtract", "exited"}
  /\ taken \in Int /\ left \in Int /\ lval \in Int
  /\ armed \in Flows \cup {None} /\ lost \in Nat
  /\ disturbed \in BOOLEAN

Settled == apc = "sleep" /\ lpc = "wait" /\ toClose = 0

\* Through any sequence of increases and decreases, also one begun before the
\* last was carried out, there are as many flows as conf->connections says
\* once nothing is left to do.  Nothing replaces a flow lost to the server or at
\* its creation, but a flow too few does not make later changes come out worse
\* by more, nor leave flows too many.  The exceptions (disturbed): a flow was
\* opened by its registration, an update of close_conns was lost, or all flows
\* were to be closed and there was one at place 0.
RightNumber ==
  Settled /\ ~disturbed => Cardinality(Live) \in conns - lost .. conns

\* When nobody changes the file any more, what it asks for is carried out:
\* close_conns is worked off as long as a flow is there to wake epollLoop.
Settles == <>[](~Running \/ Settled \/ Live = {})
=============================================================================

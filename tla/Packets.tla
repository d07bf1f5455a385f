-------------------------------- MODULE Packets -------------------------------
(***************************************************************************)
(* The packets a client makes.  init in client.c numbers the flows         *)
(* (initIDMap, shuffer) and fills the table of keys; then epollLoop makes  *)
(* packet after packet, the type of each as PacketMix says, the fields as  *)
(* setPayload sets them.  The server reads them with its own copy of the   *)
(* layout and of the table, which KeyTable fills in the same way.          *)
(***************************************************************************)
EXTENDS PacketMix, KeyTable, Payload

CONSTANTS
  Fds,        \* descriptors of flows
  SIDStart,   \* conf->SID_start
  SIDEnd,     \* conf->SID_end
  Strays,     \* numbers that may lie in memory beyond the map
  RandMax     \* RAND_MAX

ASSUME FdsAssumption == Fds \subseteq Nat
ASSUME SIDAssumption ==    \* the assert of initIDMap
  SIDStart \in Nat /\ SIDEnd \in Nat /\ SIDStart < SIDEnd
ASSUME StraysAssumption == Strays \subseteq Nat
ASSUME NumbersAssumption ==    \* uint32_t
  \A n \in Fds \cup Strays \cup {SIDEnd} : FitsIn(n, 4)
ASSUME RandMaxAssumption == RandMax \in Nat \ {0}

MapSize == SIDEnd - SIDStart
Places  == 0 .. MapSize - 1

VARIABLES
  map,      \* map[fd]: the number (SID) of the flow at descriptor fd
  place,    \* i of shuffer: places of the map that have their number
  last      \* the packet made last

vars == <<mixVars, keyVars, map, place, last>>

Requests   == 1   \* REQUEST_PKT
Heartbeats == 2   \* HEARTBEAT_PKT
UserToServer == 0
ServerToApp  == 3

NoPacket == << >>

\* an array of which all elements but the first are filled with "rest"
FirstThen(first, rest, count) ==
  [i \in 0 .. count - 1 |-> IF i = 0 THEN first ELSE rest]
Only(x) == FirstThen(x, x, 1)

\* initPayload and setPayload; "a" is 97
SetPayload(type, fd, sid) ==
  [ zero        |-> FirstThen(0, 0, 6),
    direction   |-> Only(UserToServer),
    type        |-> Only(type),
    userID      |-> [i \in 0 .. 2 |-> IF i = 1 THEN sid ELSE fd],
    reserve     |-> Only(0),
    type_affirm |-> Only(type),
    family      |-> Only(0),
    srcDeviceID |-> FirstThen(sid, 0, 4),
    dstDeviceID |-> FirstThen(fd, 0, 4),
    operation   |-> FirstThen(0, 0, 4),
    state       |-> FirstThen(97, 97, 67) ]

\* setDirection, for the answer of the server
Answered(packet) == [packet EXCEPT !.direction = Only(ServerToApp)]

-----------------------------------------------------------------------------
\* initIDMap before the map is shuffled
IDMap == [p \in Places |-> p + SIDStart]

Init ==
  /\ MixInit
  /\ KeyInit
  /\ map = IDMap
  /\ place = 0
  /\ last = NoPacket

\* The place shuffer draws from those that are left, when rand() is r.
Drawn(r) == place + r \div (RandMax \div (MapSize - place) + 1)

\* a slip: the number that was there is lost
SwapLosing(r) ==
  /\ place < MapSize
  /\ map' = [map EXCEPT ![Drawn(r)] = map[place]]
  /\ place' = place + 1
  /\ UNCHANGED <<mixVars, keyVars, last>>
\* A round of the loop of shuffer.  A map of one place is not shuffled, which
\* is what a round does to it.
Swap(r) ==
  /\ place < MapSize
  /\ map' = [map EXCEPT ![Drawn(r)] = map[place], ![place] = map[Drawn(r)]]
  /\ place' = place + 1
  /\ UNCHANGED <<mixVars, keyVars, last>>

\* init calls initKeyTable after initIDMap
Fill ==
  /\ place = MapSize
  /\ FillKey
  /\ UNCHANGED <<mixVars, map, place, last>>

\* main starts the threads after init
Running == place = MapSize /\ filled = TableSize

Reload ==
  /\ Running
  /\ (\E r \in Rates : SetRate(r)) \/ ReadRate
  /\ UNCHANGED <<keyVars, map, place, last>>

\* The number of a flow; a descriptor beyond the map finds what lies there.
SIDs(fd) == IF fd \in Places THEN {map[fd]} ELSE Strays

\* epollLoop: getPktType, initPayload, setPayload
Make(fd) ==
  /\ Running
  /\ \/ SendRequest /\ last' \in {SetPayload(Requests, fd, s) : s \in SIDs(fd)}
     \/ /\ SendHeartbeat \/ SendLast
        /\ last' \in {SetPayload(Heartbeats, fd, s) : s \in SIDs(fd)}
  /\ UNCHANGED <<keyVars, map, place>>

Next ==
  \/ \E r \in 0 .. RandMax : Swap(r)
  \/ Fill
  \/ Reload
  \/ \E fd \in Fds : Make(fd)

Spec == Init /\ [][Next]_vars

-----------------------------------------------------------------------------
(* Properties.                                                             *)

TypeOK ==
  /\ MixTypeOK
  /\ filled \in 0 .. TableSize /\ key \in Keys
  /\ map \in [Places -> SIDStart .. SIDEnd - 1]
  /\ place \in 0 .. MapSize

\* README.md, SID_start and SID_end: numbers of flows "can be regarded as the
\* primary key".  So no two flows of a client have the same, whatever shuffer
\* draws.  It says nothing of descriptors beyond the map.
SIDsDiffer == \A f, g \in Places : f # g => map[f] # map[g]

\* The server finds in a packet what the client put into it, each field at the
\* offset and in the byte order it was written with (serialize.c).  The answer,
\* whose fields the client does not read, is laid out in the same way.
FieldsRead ==
  last # NoPacket =>
    /\ Deserialize(Serialize(last)) = last
    /\ Deserialize(Serialize(Answered(last))) = Answered(last)

\* cipher.c:100-102, "userID[2-15] for get des key": the key of a packet is the
\* flow's, whatever the type and direction, and the bytes it is found from
\* are all sent in clear, so the server finds it before it deciphers the rest.
InClear(bytes) ==
  [o \in 0 .. PayloadSize - 1 |-> IF o < PayloadOffset THEN bytes[o] ELSE 255]
KeyIsFlows ==
  last # NoPacket =>
    LET offset == KeyOffset(Serialize(last))
    IN  /\ KeyOffset(InClear(Serialize(last))) = offset
        /\ KeyOffset(Serialize(Answered(last))) = offset
        /\ \A type \in {Requests, Heartbeats} :
             KeyOffset(Serialize([last EXCEPT !.type = Only(type)])) = offset
=============================================================================

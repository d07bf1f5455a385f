-------------------------------- MODULE Pacing --------------------------------
(***************************************************************************)
(* When a flow of the client sends (client/epoll.c, client_config.c).  A   *)
(* flow is due when epoch seconds have passed since its virtual_time: when *)
(* it starts, a time that spreads the flows over an epoch; later, the time *)
(* of its last packet.  Both are cut to multiples of an interval, that is  *)
(* computed from the settings when the number of connections changes.      *)
(*                                                                         *)
(* One flow, for flows share nothing here but the settings.  Times are     *)
(* ticks of 1 / Second, and int is narrow, so that it overflows as the     *)
(* code's does after 35 minutes in microseconds.                           *)
(***************************************************************************)
EXTENDS Integers

CONSTANTS
  Second,        \* S_TO_US
  IntSize,       \* 2^32, the number of values of an int
  BaseConns,     \* BASE_CONNS
  GroupSize,     \* GROUP_SIZE
  Part,          \* delays are multiples of 1 / Part seconds
  UnitDelay,     \* unit_delay of the settings, in parts
  RestoreDelay,  \* 0.1, the one of restoreConnections, in parts
  DefaultInterval,
  Epochs, Bursts, Conns,   \* what the file may say
  LongestEpoch,
  Fds, Totals,   \* fd and total of setVirtualEventTime
  Setup          \* how long ago its time was taken, in ticks

IntMax == IntSize \div 2 - 1

ASSUME UnitsAssumption ==
  /\ IntSize \in Nat \ {0} /\ IntSize % 2 = 0
  /\ Second \in 1 .. IntMax /\ DefaultInterval \in 1 .. IntMax
  /\ BaseConns \in Nat \ {0} /\ GroupSize \in Nat \ {0}
  /\ Part \in Nat \ {0} /\ UnitDelay \in Nat /\ RestoreDelay \in Nat
ASSUME FileAssumption ==
  /\ Epochs \subseteq 0 .. LongestEpoch
  /\ Bursts \subseteq Nat /\ Conns \subseteq Nat
ASSUME EpochsFit == LongestEpoch \in Nat /\ LongestEpoch * Second <= IntMax
ASSUME ArgumentsAssumption ==
  Fds \subseteq Nat /\ Totals \subseteq Nat /\ Setup \in Nat

\* what is left of x in an int
Wrap(x) == ((x + IntMax + 1) % IntSize) - (IntMax + 1)
Abs(x) == IF x < 0 THEN -x ELSE x
\* x / i * i for i # 0: C divides towards zero
Cut(x, i) ==
  LET c == (Abs(x) \div Abs(i)) * Abs(i) IN IF x < 0 THEN -c ELSE c

-----------------------------------------------------------------------------
VARIABLES
  \* the admin thread and conf
  apc, epoch, burst, conns, interval,
  phase,      \* now, within its second
  \* the flow
  state,      \* "none", "open", or "closed" by connectionClosed
  known,      \* is it registered with epoll?
  flag,       \* sendingFlag
  age,        \* now - virtual_time, as a number modulo IntSize
  pending,    \* EPOLLOUT is to be handled
  asked,      \* the answer is
  starting,   \* it is opened, its virtual_time still to be set: "create" or
              \* "restore", by whom, otherwise "no"
  stamping,   \* its packet is written, its virtual_time still to be set
  upc,        \* updateEvents: "scan", or "arm" once it has found the flow due
  crashed,    \* the client has ended: "no", by which division by zero, or
              \* "gone" if the flow to be armed was deleted
  \* history
  timed,      \* what virtual_time is from: "send", "start", or of no use
  since,      \* ticks since then, up to IntMax
  lag,        \* by how much it may be late when it starts
  few,        \* some flows asked for were too few for an interval
  judged,     \* the epoch the flow was found due for, 0 while it is not armed
  overtaken   \* was a packet of it not yet stamped then, or written since?

confVars == <<apc, epoch, burst, conns, interval, few>>
flowVars == <<state, known, flag, pending, asked>>
timeVars == <<age, timed, since, lag>>
updVars  == <<upc, judged, overtaken>>
vars == <<confVars, phase, flowVars, timeVars, starting, stamping, updVars,
          crashed>>

\* updateEpoch and getConfigs
Scaled(c, b) == (c * b) \div BaseConns
\* What it may be in doubles: c / BASE_CONNS is rounded, so that a whole share
\* can come out one less (2 for 60 flows and a burst of 5000), but for 1.
Shares(c, b) ==
  {Scaled(c, b)} \union
    {q \in {Scaled(c, b) - 1} : q > 0 /\ (c * b) % BaseConns = 0}
Interval(c, e, b) ==
  IF c = 0 THEN DefaultInterval ELSE Wrap(((Second * e) \div c) * b)
TooFew(c, e, b) ==
  /\ c # 0
  /\ \/ c * b < BaseConns
     \/ c > Second * e
     \/ ((Second * e) \div c) * Scaled(c, b) > IntMax

Init ==
  /\ apc = "sleep" /\ epoch \in Epochs /\ conns \in Conns \ {0}
  /\ \E b \in Bursts :
       burst \in Shares(conns, b) /\ few = TooFew(conns, epoch, b)
  /\ interval = Interval(conns, epoch, burst)
  /\ phase \in 0 .. Second - 1
  /\ state = "none" /\ known = FALSE /\ flag = FALSE
  /\ age \in 0 .. IntSize - 1     \* initEventTime stores seconds in tv_usec
  /\ pending = FALSE /\ asked = FALSE /\ starting = "no" /\ stamping = FALSE
  /\ upc = "scan" /\ judged = 0 /\ overtaken = FALSE
  /\ crashed = "no"
  /\ timed = "none" /\ since = 0 /\ lag = 0

-----------------------------------------------------------------------------
(* The clock                                                                *)

Tick ==
  /\ phase' = (phase + 1) % Second
  /\ age' = (age + 1) % IntSize
  /\ since' = IF timed = "none" \/ since = IntMax THEN since ELSE since + 1
  /\ UNCHANGED <<confVars, flowVars, timed, lag, starting, stamping, updVars,
                 crashed>>

-----------------------------------------------------------------------------
(* updateEpoch of the client, setting by setting                            *)

SetEpoch(e) ==
  /\ apc = "sleep" /\ apc' = "burst"
  /\ epoch' = e
  /\ UNCHANGED <<burst, conns, interval, few, phase, flowVars, timeVars,
                 starting, stamping, updVars, crashed>>

\* The share of the connections is not taken here.
SetBurst(b) ==
  /\ apc = "burst" /\ apc' = "connections"
  /\ burst' = b
  /\ UNCHANGED <<epoch, conns, interval, few, phase, flowVars, timeVars,
                 starting, stamping, updVars, crashed>>

\* a slip: no interval of its own for no connections
SetConnectionsPlain(c) ==
  /\ apc = "connections" /\ apc' = "sleep"
  /\ conns' = c
  /\ burst' \in Shares(c, burst)
  /\ interval' = IF c = 0 THEN 0 ELSE Interval(c, epoch, burst')
  /\ few' = (few \/ TooFew(c, epoch, burst))
  /\ UNCHANGED <<epoch, phase, flowVars, timeVars, starting, stamping, updVars,
                 crashed>>
SetConnections(c) ==
  /\ apc = "connections" /\ apc' = "sleep"
  /\ conns' = c
  /\ IF c = conns THEN UNCHANGED <<burst, interval, few>>
     ELSE /\ burst' \in Shares(c, burst)
          /\ interval' = Interval(c, epoch, burst')
          /\ few' = (few \/ TooFew(c, epoch, burst))
  /\ UNCHANGED <<epoch, phase, flowVars, timeVars, starting, stamping, updVars,
                 crashed>>

\* A setting is missing: the ones before it have been taken over.
Missing ==
  /\ apc # "sleep" /\ apc' = "sleep"
  /\ UNCHANGED <<epoch, burst, conns, interval, few, phase, flowVars, timeVars,
                 starting, stamping, updVars, crashed>>

-----------------------------------------------------------------------------
(* The flow starts                                                          *)

\* createEvents, setEventTimeEfd
Create ==
  /\ state = "none" /\ starting = "no"
  /\ state' = "open" /\ flag' = FALSE /\ starting' = "create"
  /\ timed' = "none" /\ since' = 0 /\ lag' = 0
  /\ UNCHANGED <<confVars, phase, known, age, pending, asked, stamping, updVars,
                 crashed>>

\* closeConnection, restoreConnection
Close ==
  /\ state = "open" /\ state' = "closed"
  /\ UNCHANGED <<confVars, phase, known, flag, pending, asked, timeVars,
                 starting, stamping, updVars, crashed>>
Restore ==
  /\ state = "closed" /\ starting = "no"
  /\ state' = "open" /\ starting' = "restore"
  /\ UNCHANGED <<confVars, phase, known, flag, pending, asked, timeVars,
                 stamping, updVars, crashed>>

Offset(fd, total) == Cut(Wrap(fd * ((epoch * Second) \div total)), interval)
\* unit_delay: of the settings, or what restoreConnections passes
Unit == IF starting = "restore" THEN RestoreDelay ELSE UnitDelay
\* the delay of the flow's group, in parts of a second
GroupDelay(total) == (total \div GroupSize) * Unit
\* virtual_delay, an int: epoch less the delay, cut to seconds towards zero.  In
\* floats the same for 0.5 (settings.cfg:11) and 0.1; for 0.3 and 100 groups,
\* say, the product is rounded up and another second is cut off.
VirtualDelay(total) == Cut(epoch * Part - GroupDelay(total), Part) \div Part
\* the delay of the group, up to the next second
StartLag(total) == (GroupDelay(total) + Part - 1) \div Part

\* a slip: the flow waits for its place in the next epoch
SinceVirtualAhead(fd, total, setup) ==
  setup + ((phase - setup) % Second) - Offset(fd, total)
    + (VirtualDelay(total) - epoch) * Second
\* now - virtual_time, when time was taken setup ago: its second, without its
\* tv_usec, and the offset, less the delay
SinceVirtual(fd, total, setup) ==
  setup + ((phase - setup) % Second) - Offset(fd, total)
    + VirtualDelay(total) * Second

\* A descriptor that is not below total may be late by hours, or an overflow.
SetVirtualEventTime(fd, total, setup) ==
  /\ starting # "no" /\ starting' = "no"
  /\ total # 0 /\ interval # 0
  /\ age' = SinceVirtual(fd, total, setup) % IntSize
  /\ timed' = IF fd < total THEN "start" ELSE "none"
  /\ since' = 0
  /\ lag' = IF fd < total THEN StartLag(total) * Second ELSE 0
  /\ UNCHANGED <<confVars, phase, flowVars, stamping, updVars, crashed>>

StartCrashes(total) ==
  /\ starting # "no"
  /\ total = 0 \/ interval = 0
  /\ crashed' = IF total = 0 THEN "total" ELSE "interval"
  /\ UNCHANGED <<confVars, phase, flowVars, timeVars, starting, stamping,
                 updVars>>

-----------------------------------------------------------------------------
(* The flow sends                                                           *)

\* getTimeDiff / S_TO_US >= epoch
Due == Cut(Wrap(age), Second) >= epoch * Second

\* canSendPkt
CanSendPkt ==
  /\ upc = "scan" /\ state = "open" /\ ~flag /\ Due
  /\ flag' = TRUE /\ upc' = "arm"
  /\ judged' = epoch /\ overtaken' = stamping
  /\ UNCHANGED <<confVars, phase, state, known, pending, asked, timeVars,
                 starting, stamping, crashed>>

\* modifyEpollEvent.  A flow not registered goes to addEpollEvent, which opens
\* it and clears the flag.
Arm ==
  /\ upc = "arm" /\ state # "none"
  /\ known' = TRUE /\ pending' = TRUE
  /\ IF known THEN UNCHANGED <<state, flag>>
     ELSE state' = "open" /\ flag' = FALSE
  /\ upc' = "scan" /\ judged' = 0 /\ overtaken' = FALSE
  /\ UNCHANGED <<confVars, phase, asked, timeVars, starting, stamping, crashed>>

\* It has been deleted: epoll_ctl fails twice, exit(1).
ArmGone ==
  /\ upc = "arm" /\ state = "none"
  /\ crashed' = "gone"
  /\ UNCHANGED <<confVars, phase, flowVars, timeVars, starting, stamping,
                 updVars>>

\* epollLoop up to setEventSendTime: write, then EPOLLIN or resetSendPkt
Write ==
  /\ pending /\ ~stamping
  /\ pending' = FALSE /\ stamping' = TRUE
  /\ \/ asked' = TRUE /\ flag' = flag
     \/ asked' = asked /\ flag' = FALSE
  /\ overtaken' = (overtaken \/ upc = "arm")
  /\ UNCHANGED <<confVars, phase, state, known, timeVars, starting, upc, judged,
                 crashed>>

\* a slip: the next packet is due an epoch after this one was
SetEventSendTimeByEpoch ==
  /\ stamping /\ stamping' = FALSE
  /\ interval # 0
  /\ age' = (age - epoch * Second) % IntSize
  /\ timed' = "send" /\ since' = 0 /\ lag' = 0
  /\ UNCHANGED <<confVars, phase, flowVars, starting, updVars, crashed>>
SetEventSendTime ==
  /\ stamping /\ stamping' = FALSE
  /\ interval # 0
  /\ age' = phase - Cut(phase, interval)
  /\ timed' = "send" /\ since' = 0 /\ lag' = 0
  /\ UNCHANGED <<confVars, phase, flowVars, starting, updVars, crashed>>

StampCrashes ==
  /\ stamping /\ interval = 0
  /\ crashed' = "interval"
  /\ UNCHANGED <<confVars, phase, flowVars, timeVars, starting, stamping,
                 updVars>>

\* EPOLLIN; of two requests one may be left.
Answered ==
  /\ asked /\ ~stamping
  /\ asked' \in BOOLEAN /\ flag' = FALSE
  /\ UNCHANGED <<confVars, phase, state, known, pending, timeVars, starting,
                 stamping, updVars, crashed>>

Delete ==
  /\ known /\ ~stamping
  /\ state' = "none" /\ known' = FALSE /\ pending' = FALSE /\ asked' = FALSE
  /\ timed' = "none" /\ since' = 0 /\ lag' = 0
  /\ UNCHANGED <<confVars, phase, flag, age, starting, stamping, updVars,
                 crashed>>

Next ==
  /\ crashed = "no"
  /\ \/ Tick
     \/ \E e \in Epochs : SetEpoch(e)
     \/ \E b \in Bursts : SetBurst(b)
     \/ \E c \in Conns : SetConnections(c)
     \/ Missing
     \/ Create \/ Close \/ Restore
     \/ \E fd \in Fds, total \in Totals, setup \in 0 .. Setup :
          SetVirtualEventTime(fd, total, setup)
     \/ \E total \in Totals : StartCrashes(total)
     \/ CanSendPkt \/ Arm \/ ArmGone
     \/ Write \/ SetEventSendTime \/ StampCrashes \/ Answered \/ Delete

Spec == Init /\ [][Next]_vars

-----------------------------------------------------------------------------
(* Properties.                                                              *)

TypeOK ==
  /\ apc \in {"sleep", "burst", "connections"}
  /\ epoch \in Epochs /\ conns \in Conns /\ burst \in Nat
  /\ interval \in -(IntMax + 1) .. IntMax
  /\ phase \in 0 .. Second - 1
  /\ state \in {"none", "open", "closed"}
  /\ {known, flag, pending, asked, stamping, few, overtaken} \subseteq BOOLEAN
  /\ age \in 0 .. IntSize - 1
  /\ starting \in {"no", "create", "restore"}
  /\ upc \in {"scan", "arm"} /\ judged \in 0 .. LongestEpoch
  /\ crashed \in {"no", "total", "interval", "gone"}
  /\ timed \in {"none", "start", "send"} /\ since \in 0 .. IntMax
  /\ lag \in Nat

\* README.md:16, "any flow sends a packet to the server in every epoch": a flow
\* that nothing holds back is due when an epoch has passed since its last packet
\* or since it started, whatever the settings were then; when it starts, later
\* by the delay of its group, up to the next second, for virtual_delay is cut to
\* an int (epoll.c:135); and unless time has passed that does not fit into one.
DueInTime ==
  /\ state = "open" /\ ~flag /\ timed # "none"
  /\ since >= epoch * Second + lag
  /\ since <= IntMax - (LongestEpoch + 1) * Second - Setup
  => Due

\* The same line: between a packet and the next time the flow is armed an epoch
\* passes, the one it was found due for, less the part of a second that the
\* interval takes off.  Two exceptions.  The flow was found due before that
\* packet had its time stamp (overtaken: the flag is reset before, at
\* client.c:306 or epoll.c:22, and the arming may come after the stamp).  Or it
\* has been closed and opened since, which gives it a place in a new epoch
\* whenever it sent (timed is no longer "send", epoll.c:245).
NeverEarly ==
  [][upc = "arm" /\ upc' = "scan" /\ timed = "send" /\ ~overtaken
       => since > (judged - 1) * Second]_vars

\* client_config.c:118: the client divides by an interval of 0 only if it once
\* was asked for so few flows that their burst is less than a packet, for more
\* than there are ticks in an epoch, or for an interval that is no int.
ZeroIntervalHasCause == crashed = "interval" => few
=============================================================================

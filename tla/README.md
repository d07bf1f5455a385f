# A TLA+ model of DaBao

DaBao is a load generator and the server it loads.  The client keeps many TCP
flows open and sends a packet on each of them once per epoch; a share of the
packets are *requests*, the rest *heartbeats*.  The server reads the packets
with one epoll thread, hands them to worker threads over ring buffers, stores
what they say in a Redis cluster and answers the requests.

This directory holds TLA+ modules translated from that code, the TLC
configurations that check them, and TLAPS proofs.  Source lines are quoted as
`file:line`; `PROJECT.json` maps every definition to the lines it stands for.

## 1. Inventory

| component | state | operations | modelled |
|---|---|---|---|
| ring buffers and hand-over (`server/ring.h`, `processEPOLLIN`, `processPackets`) | per worker: `head`, `tail`, the slots, a mutex, two condition variables; `receive_counter_min` | push, pop, full and empty test, wait, signal | `Ring`, `Pipeline`, `WorkQueue` |
| server connections (`acceptEpollEvents`, `deleteEpollEvent`, `processEPOLLIN`, `processRequestPkt`) | the epoll set, the descriptor table, `usr_num` | accept, add, read, delete, answer | `Connections` |
| client flows (`client.c`, `epoll.c`) | `packets_time[fd]`, the epoll set | `canSendPkt`, arm, send, await, read, delete | `ClientFlows` |
| client resizing (`update_cfg`, `updateConnections`, `closeConnections`, `restoreConnections`, `createEvents`) | `conf->connections`, `dead_connections`, `params->close_conns`, `efd` and `connectionClosed` of each flow | poll the file, add, delete, close, restore, kill | `ClientControl` |
| packets of the client (`getPktTypeNum`, `initIDMap`, `shuffer`, `setPayload`) | `pktTypeCounter`, `conf->requestRate`, `map` | type of the next packet, reload of the share, numbers of the flows, fields | `PacketMix`, `Packets` |
| pacing (`setVirtualEventTime`, `setEventSendTime`, `canSendPkt`) | `virtual_time`, `conf->epoch`, `burst`, `interval` | first due time, next due time, is it due, reload | `Pacing` |
| Redis cluster client (`server/redis`) | per worker `clusterInfo`: nodes, contexts, slot map | ask for the layout, parse, connect, get, set | `Database` |
| state in Redis (`processDatabase`) | keys in three databases | GET, SET when absent; SET | `Database` |
| configuration (`*_config.c`) | `conf` | read, validate, reload | the client's: `ClientControl`, `PacketMix`, `Pacing`; the server's: `ServerConfig`, `Pipeline` |
| payload cipher (`DES/cipher.c`, `payload_cipher.c`) | key table | fill, find the key, encrypt, decrypt | `KeyTable`, `Payload`, `Cipher`, `Wire` |
| packets on the wire (`epollLoop`, `processEPOLLIN`, `serialize.c`) | the stream, the server's read buffer | serialize, write, drain, decipher, deserialize | `Payload`, `Wire` |
| statistics (`statistics.c` of both) | counters of the second and of the minute | add, print, divide, reset | `Statistics` |
| socket tools, scripts, `des.c` | — | — | not modelled (section 7) |

**How they interact.**  The client's `updateEvents` thread and its `epollLoop`
thread share `packets_time` and the epoll set.  Client and server share TCP
connections.  In the server the epoll thread and each worker share one ring;
all threads share the descriptor table, the epoll set and `usr_num`.  A packet
in a ring names its connection by descriptor only.

**What is hard.**  (a) The ring's indices are read without a lock and the
worker takes the mutex only by waiting on a condition, so the mutex orders
nothing.  (b) Both waits are an `if`, not a loop, and the signal is sent
without the lock: signals can be lost, or be old when they arrive.  (c) The
kernel reuses descriptors, while rings and threads still hold them.  (d) Epoll
is edge-triggered: what is not read at the right moment is not reported again.
(e) The client's three threads decide by plain variables who may touch a flow
and how many are still to be closed.  (f) TCP is a stream: a packet may arrive
in pieces or be written in part, and neither end keeps track of where it is.
(g) Each worker learns the layout of the Redis cluster once and keeps it while
slots move and nodes die, and it looks at no result of a command.  (h) A write
to a connection that has been reset raises SIGPIPE, which neither program
handles: it ends it.

**What makes the parts correct.**

* hand-over: each packet is taken once, in order, by the worker it was given
  to; a slot is never filled while it is read; nobody sleeps for ever with
  work to do;
* connections: every open connection is watched, every answer goes to who
  asked, a connection is closed only when its client is gone, `usr_num` counts
  them, and where it does not, it is known why;
* flows: no flow falls silent, none sends more often than its epoch allows;
* resizing: after any sequence of changes there are as many flows as the file
  asks for, and the work comes to an end;
* pacing: a flow is due in every epoch, and not before, whatever becomes of the
  settings meanwhile;
* packets: each round has the share of requests that is configured; flows have
  different numbers; the server reads the fields that were written;
* Redis: a command goes to the node that has its slot; what a packet says is
  stored before it is answered; a binding is not written over and over;
* wire and cipher: what the client wrote is what the server reads, for every
  key, and a damaged packet does not damage the next; both ends find the same
  key, and the table has each once;
* statistics: what is reported was received, once; no average is over nothing;
* settings: what the file says may change at any time and stops nothing;
* both programs: they do not end because somebody at the other end leaves.

## 2. The modules

```
ServerConfig ──┐
Ring ──────> Pipeline ──(refines)──> WorkQueue    Connections
                ├── MCPipeline        (TLC)          └── ConnectionsProofs
                └── PipelineProofs    (TLAPS)

ClientFlows                ClientControl                Pacing ─────┐
   └── ClientFlowsProofs      └── ClientControlProofs               ├─> PacingAndStatisticsProofs
                                                        Statistics ─┘

Cipher ──> Wire ── MCWire         (TLC)           PacketMix ─┐
             └── WireProofs       (TLAPS)         KeyTable ──┼─> Packets
                                                  Payload ───┘    ├── MCPackets
Database ── MCDatabase                                            └── PacketsProofs
   └── DatabaseProofs
```

**`Ring`** is the arithmetic of `ring.h` as remainders.  `& (RING_SIZE - 1)` on
unsigned integers is the same thing when the size is a power of two; the
assumption `MaskIsRemainder` of `MCPipeline` compares the two whenever it runs.

**`ServerConfig`** is what `getConfigs` and `updateEpoch` make of a setting.

**`Pipeline`** has one epoll thread and `ThreadsNum` workers, as many as the file
asked for when the server started, and `group`, which the admin thread sets to
what the file has at any moment (`Reload`).  `group` is an int and the packet
counter unsigned, so `getThreadIndex` divides by the int taken for unsigned
(`Divisor`); if that is 0 the server ends.  `EndMinute` is `resetMinStats`: in
a build with TPUT a thread sets the packet counter to 0 at any moment, also
between two packets of a group.  `epc` and `wpc[w]` say where each thread is:

| code | places of the epoll thread (`epc`) |
|---|---|
| `server.c:349-376` read, count, choose the worker | `idle` → `lock` |
| 377 `pthread_mutex_lock` | `lock` → `check` |
| 378 `ring_buffer_avail(ring) <= 1` | `check` → `wait` or `fill` |
| 379 `pthread_cond_wait` | `wait` → `asleep`, (signal) `woken` → `fill` |
| 381-385 fill the slot | `fill` → `push` |
| 386 `ring_buffer_push` | `push` → `unlock` |
| 387-388 unlock, signal | `unlock` → `signal` → `idle` |

| code | places of a worker (`wpc[w]`) |
|---|---|
| 419 `ring_buffer_used(ring) <= 0` | `check` → `wait` or `copy` |
| 420 `pthread_cond_wait` | `wait` → `asleep`, (signal) `woken` → `copy` |
| 422-437 decrypt and copy out | `copy` → `pop` |
| 438 `ring_buffer_pop` | `pop` → `unlock` |
| 439-440 unlock, signal | `unlock` → `signal` → `process` |
| 441-454 database, answer | `process` → `check` |

Unlocking, and waiting with, a mutex that the thread does not hold frees it, as
the default glibc mutex does.  A wait whose signal came before it sleeps on.
Three history variables record what the code does not: `eBlind` and `wBlind`
(the thread went on after a wait without testing again) and `breached` (the
ring was pushed to when full or read when empty).

**`WorkQueue`** is the abstract specification: a bounded FIFO queue per worker,
which may fail by overrun or underrun and then promises nothing more, while the
other queues still work.

**`Connections`** leaves the rings out (a set of tasks) and looks at the
descriptors.  Connections have an identity the server does not see; the server
sees `fdTable`.  `close`, `EPOLL_CTL_DEL` and the decrement of `usr_num` are
three steps, of whichever thread deletes; `read` is one step per packet, and
the last packet read is the one that is passed on, as in the code.  The kernel
gives out the lowest free descriptor, until `limit` are in use: then `accept`
fails (`refused`) and the loop around it ends, although connections may be left
in the backlog.  A peer that leaves sends a FIN or a
reset; the first write after a FIN succeeds and is answered by a reset.  A reset
is told once, to the read or write that meets it (`peer` becomes `gone`); a write
after that raises SIGPIPE and the server ends (`BrokenPipe`).  `patient` chooses
whether clients leave at any time or only when nothing is owed to them.  `vain`
is history: the deletions of a number that another thread had closed already.

**`ClientFlows`** has `updateEvents` (`Scan` is `canSendPkt`, then `Arm`,
`ArmNew` or `ArmClosed` is `modifyEpollEvent`) and `epollLoop` (events one by
one; after the write three more steps in the code's order).  The server may
close a flow with a FIN or a reset; after a FIN the first write succeeds
(`shut`), and is answered by a reset (`broken`, `ResetArrives`), which the next
`epoll_wait` reports; a write that comes before it looks raises SIGPIPE
(`BrokenPipe`).  `read` in the client never returns -1: a reset is reported with
`EPOLLHUP` and `EPOLLERR`, which `epollLoop` tests first, answers that came before
it are read, and after a FIN `read` returns 0.  So `client.c:314`, which compares a
variable nothing has set with EAGAIN, is not reached.  Time is one bit
per flow.  `sends` is history.  The data race on `packets_time` is modelled by
the order of the steps; each field is a word.

**`ClientControl`** has the three threads that change which flows there are.
`apc` is the admin thread: `sleep` → `restore` (`restoreConnections`, one place
of the map per step) → `create` (`createEvents`, one connection per step: `bind`
and `connect` may fail and the loop goes on, `CreateFails`; a failing `socket` ends
the client, `CreateExits`), or `load` → `store` (`close_conns += n`).  `lpc` is `epollLoop`: `wait` → `close`
(`closeConnections`, one place per step) → `subtract` (`close_conns -= taken`).
`Scan` and `Arm` are `updateEvents` at a flow not registered yet; registering
opens a flow that was closed in between.  `dead_connections` may lose an update
when both threads are at it (`Racing`).  A flow is named by its place in
`connsMap`, so closing starts at place 1 and reopening at 0, as in the code.
`lost` and `disturbed` are history: the flows that were lost to the server or
not created, and whether something happened that the counts do not survive.

**`Statistics`** is one counter in its two copies, of the second and of the
minute, the threads that add to it (`Load` and `Store`: `x += 1` is not atomic)
and the two threads that print and reset them.  `throughput_sec` tests the
counter and loads it again to divide by it.  `added`, `undone` and `lapped` are
history.

**`PacketMix`** is `getPktTypeNum` with its counter.  The share is an integer
between 0 and `Accuracy`; the admin thread changes it at any moment, `epollLoop`
takes it over before `epoll_wait`.  `low`, `high` and `requests` are history.

**`KeyTable`** is `des_key_init`: two shift registers with feedback, bit by bit.
The code copies the seed into place after place, so how many are filled and what
comes next is the whole state.  **`Payload`** is the layout of a packet: the list
of its fields, with `Start` the offsets that follow from it, the byte order, and
`KeyOffset`, the bits that choose a key.  The offsets are a recursive function;
`FitsIn` says which numbers a field of so many bytes can hold.
**`Packets`** puts the three together as `init` and `epollLoop` do: the numbers
are written and shuffled, then the keys, then packets are made.  `Strays` is what
may lie beyond `map`: the code reads it for a descriptor that is too large.

**`Pacing`** has one flow, the clock, and the settings that say when it sends.
`age` is `now - virtual_time`, kept modulo the number of ints as `getTimeDiff`
returns it.  `apc` is `updateEpoch`, which takes over the settings one by one and
may end before the last (`Missing`).  A flow that is opened has `virtual_time`
set a step later (`starting`, with `unit_delay` of the settings or the 0.1 that
`restoreConnections` passes); a packet that is written, likewise (`stamping`).
`updateEvents` decides and arms in two steps: `CanSendPkt`, then `Arm` or `ArmGone`
(`upc`).  So it may find the flow due with the old time and arm it when the new
one is set, or when the flow is closed, opened again or deleted.  The numbers a
tick stands for differ from the code's; the divisions and the overflow are the
same.

Two conversions round.  `virtual_delay` (`epoll.c:135`) is an epoch less a float,
cut to an int: delays are counted in parts of a second, a tenth for the values
in the repository, and `VirtualDelay` cuts towards zero as C does.  With 0.5
(`client/settings.cfg`) and 0.1 (`epoll.c:245`) the float product is cut to the
same int; with 0.3 and 100 groups (a million flows) it may be a second
less, which is not modelled.  The share of the burst (`client_config.c:118`) is a quotient of doubles
times an int: a whole share may come out one less (`Shares`; 60 flows with a burst
of 5000 have 2, not 3).

`timed`, `since`, `lag`, `few`, `judged` and `overtaken` are history: what
`virtual_time` was set from and how long ago, the delay the flow started with,
settings too small for an interval, the epoch the flow was found due for, and
whether a packet of it was not yet stamped when it was, or has been written since.

**`Cipher`** defines `own_encrypt` and `own_decrypt` on words of any width,
with the shift inside a word of twice the width and the folding of the halves.
**`Wire`** puts them into a connection: the stream is cut into units (a head and
a body per packet), a write may be cut after the head, an arrival has any number
of units, the buffer keeps what it held.  The blocks that are ciphered are four
bytes longer than the body; what lies there is arbitrary (`Junk`), differs
between the two ends, and is cut off.  Which of the two ends is built with
CIPHER is arbitrary.

**`Database`** has the workers' side of Redis and the cluster as environment.
`wpc[w]` is where a worker is:

| code | places of a worker |
|---|---|
| `connect.c:17-44, 211-225` `connectRedis` up to `assign_slot` | `ask` → `connect` |
| 385-404 `__add_context_to_cluster` | `connect` → `idle` |
| `server.c:418-441` a packet is taken | `idle` → `getDevice` |
| 213, 188 GET of the device of a user | `getDevice` → `setDevice` or `setState` |
| 190 SET of a device that is nil | `setDevice` → `setState` |
| 215, 197 SET of the state | `setState` → `getSID` |
| 216, 188 GET of the device of a SID | `getSID` → `setSID` or `answer` |
| 190 SET when it is nil | `setSID` → `answer` |
| 450-454 the answer | `answer` → `idle` |

Each command is one step, as it is in Redis, and has one of three outcomes.
`Accepted`: the node that the worker's map names has the slot.  `Refused`: MOVED
or CLUSTERDOWN, or the context is found to be NULL; the code returns -1 and
nobody looks at it.  `Breaks`: the map has no node for the slot (its table is
too big for `malloc` to reuse old memory, so an unset entry is NULL), the
context was never set (any value, so also NULL, which is refused), or the
connection is broken and `redisCommand` returns NULL; the server ends.

The layout is asked for once.  What a node says of itself is its ranges of slots
as text; the parser takes the number after "connected" and the number after the
first dash.  So a node whose first entry is a single slot is given everything up
to the end of its first range, its other ranges are lost, and a node without a
dash ends the server.  Among nodes that claim a slot the last in the answer gets
it, in an order the cluster chooses.  `regular` records whether each node had
exactly one range, of at least two slots; `stale` the slots that moved since.
`Move` and `Die` are the cluster's.  The keys move with their slot.  `Nodes` are
the masters; the parser has room for 49 (`connect.c:317` has an array of 50, the
last for the rest of the text) and does not test, so `RoomAssumption` says there
are fewer than 50.

## 3. The runs

| run | question | states |
|---|---|---|
| `pipeline_safety` | 2 workers, rings of 4, groups of -1, 0 and 1 that are reloaded at any moment, a packet counter that wraps at 3 and is reset at any moment, 1 flow, every interleaving until a ring is breached.  Are the unlocked tests sound?  Are the rings FIFO queues (refinement)?  What ends the server, and what stops it? | 1 211 000 |
| `pipeline_traffic` | ring of 2, 1 worker, 2 flows: is a request ever in two places or in none; is it answered while traffic goes on, or at least unless a signal was missed? | 48 000 |
| `pipeline_lost_wakeup` | is every request answered?  **No** | |
| `connections` | 2 connections, at most 1 or 2 descriptors, 2 workers, up to 2 unread packets each; clients leave at any time, or (`patient`) only when nothing is owed to them: is anything that arrives overlooked, are all answered, and only the right ones closed; does the server stay up; what is `usr_num` off by? | 405 000 |
| `connections_unmonitored` | does every open connection stay in the epoll set when clients leave at any time?  **No** | |
| `client_flows` | 2 flows, one of which the server may close: is any flow forgotten, silenced, or sent on too often; is the closed one deleted, what ends the client? | 247 000 |
| `client_control` | 4 places, up to 2 flows asked for, 3 changes of the file, each possibly before the last is carried out: is the number of flows right in the end, and is there an end? | 563 000 |
| `statistics` | 2 threads that add, 4 packets, both reports: is a packet reported twice or never, is anything divided by zero? | 122 000 |
| `pacing` | 1 flow, seconds of 2 ticks, ints of 5 bits, epochs of 1 and 2 seconds, settings with 0, 1 and 3 connections, delays of 0.4 and 0.1 seconds for each of 4 groups, descriptors 3 and 4: is the flow due in time, is it ever armed early, what divides by zero? | 12 241 000 |
| `packets` | rounds of 3 packets, shares 0 to 3 changing at any moment, 3 numbers and `rand()` up to 7, a key table of 16384, flows at 0, 2 and beyond the map: does each round keep its share, do numbers and keys differ, are the fields and the key found again? | 410 000 |
| `database` | 2 workers, 2 nodes, 5 slots in any layout, 2 flows of one user, 2 slots that move or nodes that die: are commands routed right, is what is answered stored, how often is a binding written, what ends the server? | 3 476 000 |
| `wire` | 2-bit words, 2 blocks of which the last is cut, 2 headers, 2 bodies, 2 packets in flight: is each whole arrival read as it was meant? | 69 000 |

**Bounds.**  A ring of 4 holds 3 packets: full, empty, neither, and wrapped
around occur; 2 is the smallest ring and makes full and empty one packet apart.
One flow is enough in `pipeline_safety` because heartbeats are not limited by
answers, so the ring fills.  With a counter that wraps at 3 the group -1 is a
group of 2, so single packets and pairs go to the workers in turn and after a
wrap-around twice to the same; the second flow of `pipeline_traffic` makes traffic
independent of the request watched.  `CounterLimit` stands for 2^32.  After a breach the run stops looking
(`CONSTRAINT NoBreach`): the properties are about the time before, and the
breach itself is seen.  `VIEW LiveView` identifies states that differ only in
what is set again before it is read, or in where the ring of worker 1 lies; the
proofs in section 5 do without it.  Two descriptors and two
connections are what a reuse takes, and two workers what a double deletion by
workers takes; a limit of one descriptor leaves a connection in the backlog.  `ReplyLimit` bounds unanswered requests at 3; the invariant
`TwoRequestsOut` shows the bound is never reached.

In `client_control` 4 places are two more than flows are asked for, so a
descriptor can be free, closed flows exist beside new ones, and place 0, which
is never closed, is sometimes in use; three edits allow an increase, a decrease
begun before it is over, and a third change meanwhile.  In `wire` the keys have
words with no, one and all bits set, so that all rotations of a two-bit word
occur; `Positions` of the second block are cut as in the code.  The proofs of
section 5 hold for every width, group count and accuracy.

In `packets` the key table, the layout and the key bits have the code's sizes.
Rounds of 3 and shares up to 3 have every place of a share in a round; three
numbers, drawn with `RandMax` 7, make every permutation.

In `pacing` 16 ticks are the 35 minutes that an int of microseconds holds, so the
difference wraps while a flow waits for an answer.  The intervals that occur are 0,
1 tick, and the default one of a second and a half.  Four groups with a delay of 0.4
make 1.6 seconds, so `virtual_delay` is cut from -0.6 and 0.4 to 0; with 0.1, from
0.6 to 0 and from 1.6 to 1.  Descriptor 4 with a total of 4 is one that is not below
total, and a total of 0 ends the client.  The time that `DueInTime` speaks of,
from an epoch and its delay up to 8 ticks, is reached with each epoch and delay.
One flow has a share of the burst of 0, and 3 flows are more than the shorter
epoch has ticks: two of the three causes of an interval of 0.  The third, an
interval that is no int, and whole shares that come out one less, are left to
the theorems.

In `database` five slots between two nodes give every layout the parser
distinguishes: one range, a single slot before or after a range, two ranges,
single slots only, nothing.  Keys are in three of the slots.  The two flows have
the same user, as flows of two clients with the same descriptor have
(`client/payload.c`), so the workers meet at two keys and differ in the third.
Two events are enough for a slot to move away and back, or for a node to lose a
slot and then die.  The proofs do without these bounds.

**Checking deadlock** is off: a thread asleep on a condition, a server that
has exited and a client with nothing left open are states the program can be
in, and the properties say which of them are wrong.

**What the passing runs show.**

* `ImplementsWorkQueue`: until a breach no packet is lost,
  duplicated, reordered or given to another worker.
* `BreachOnlyBlind`, `RingInv`, `NoSlotRace`: the tests at `server.c:378` and
  `419`, made without a lock, are never wrong in the direction that hurts,
  because each index has one writer.  A breach needs a thread that was woken
  and did not look again.
* `RequestsKept`: the same seen from the client.  A flow awaits an answer exactly
  if its request is under way, and then in one place: read and not yet pushed,
  pending in one ring, or in one worker's hand.  Neither the group of packets nor
  the reset of the counter, which both move a flow to another worker, makes a
  request come twice or get lost.
* `StandstillHasCause`: when no thread can go on and a request is unanswered, one
  of them sleeps beside a ring it could work on, with no signal on its way.  The
  mutexes and the two conditions make no other deadlock.
* `AnsweredUnderTraffic`: a lost wake-up is repaired by the next packet for the
  same ring.
* `AnsweredUnlessMissed`: the two missed signals (the worker's, and the epoll
  thread's on a full ring) are the only ways in which a request stays
  unanswered, although the mutex is unlocked by threads that do not hold it.
* `EveryRequestAnswered`: with clients that wait for their answers before they
  leave, reuse of descriptors does no harm.  It has two exceptions: a connection
  that `accept` left in the backlog, and a request that a worker has in its ring
  and never takes out, which is the lost wake-up (`server.c:419-420`).  Nothing is
  assumed of the hand-over here; `AnsweredUnlessMissed` says of the rings when it
  fails.
* `UsrNumAccounted`: whenever clients leave, `usr_num` is the number of connections
  and the listening socket, but for those being added or deleted and for deletions
  in vain: a worker and the epoll thread may delete the same connection, or one
  of them the next connection with its number.  Only a client that leaves while
  an answer is owed to it makes that happen.
* `NothingOverlooked`: with edge-triggered events nothing is reported twice, so
  whatever is in a socket must have an edge not yet reported, an event in the
  batch, or the epoll thread at it; it has, also if it came between `accept` and
  `EPOLL_CTL_ADD`.  And the request of a client that waits is the last packet
  in its socket, or the one in the buffer, or a task: the reads that overwrite
  one another (`server.c:357`) never overwrite a request.
* `AnswersReachSender`, `ClosesOnlyGone`: such clients keep their descriptor while
  a task names it, so no answer goes to a stranger, and the server closes nobody
  who is still there.  A client that leaves while an answer is owed to it may have
  its number given to another, who then gets the answer.
* `ServerStaysUp`: such clients do not end the server either; one that leaves
  with a request on its way can, by SIGPIPE.
* `NewcomersNoticed`: the edge of the listening socket is never lost, so a
  connection stays in the backlog only after `accept` has failed for want of
  descriptors; it then waits for the next one to come.
* `FlagIsCared`, `EveryFlowKeepsSending`: whatever the interleaving of the
  client's threads, a flow with `sendingFlag` set has somebody who will reset
  it, or find it closed, so no flow is skipped for ever.
* `TwoRequestsOut`, `ThreeSendsPerEpoch`: `sendingFlag` is cleared before
  `virtual_time` is set, and when a flow is registered, so a flow may send twice or
  three times in an epoch, not more often.
* `EndsOnlyWhenClosed`: whatever the two threads do to a flow, the client does
  not end unless the server has closed one.  If it has, it may: `addEpollEvent`
  exits when the flow was deleted meanwhile, and SIGPIPE is not handled.
* `ClosedFlowsDeleted`: `EPOLLHUP`, the next write or the end of file finds a flow
  that the server has closed, wherever the two threads are with it, also when an
  answer that came with the end used up the notice.
* `RightNumber`, `Settles`: increases and decreases that overlap come out right.
  A flow lost to the server or refused at its creation is not replaced (`lost`
  counts them), and later changes neither add to the shortage nor overshoot.
  The exceptions that `disturbed` records are those of the code: a flow closed between
  `canSendPkt` and its registration is opened again, an update of `close_conns`
  can be lost between the load and the store of the other thread, and the flow
  at place 0 is never closed.  Lost updates of `dead_connections` do no harm:
  at worst a new flow is created instead of an old one reopened.
* `NeverDividesByZero`, `ReportsAreTrue`: the second load of the counter finds
  no 0 because nobody else resets it; a report is wrong only after an addition
  that was under way at a reset (too many) or beside another (too few).
* `RoutesRight`: with regular layouts the parser is right, and a worker that has
  asked knows every slot that has not moved since.
* `StoredUnlessMoved`, `CrashHasCause`: a moved slot costs the writes to it, in
  silence; it does not end the server.  A node that dies may.
* `FewWrites`: GET and SET are not atomic, but once a binding is there nobody
  joins the workers that are about to write it.
* `DueInTime`: a flow is due an epoch after its packet, because cutting times to
  multiples of an interval, also of an old one, makes them earlier only.  When it
  starts it is later by the delay of its group, rounded up to the next second,
  since `virtual_delay` is cut to an int: with 100 000 flows and a unit delay of 0.5
  a flow starts 5 seconds after its place in the epoch, with 30 000 flows 2
  seconds, not 1.5.
  There are two exceptions, and both are the code's.  A flow whose descriptor is
  not below `total` has an offset beyond the epoch: `addConnections` calls
  `createEvents` with the number of *new* flows as `total`, so with 1000 flows
  running and an epoch of 60 s, 10 more would start after 100 minutes, were it not
  that this overflows an int.  And a difference of more than 35 minutes is
  negative.
* `NeverEarly`: between a packet and the next arming of its flow lies an epoch, less
  than a second short: the interval takes less than a second off.  Also here the
  exceptions are the code's.  A flow found due before the packet had its time
  stamp is armed when `updateEvents` comes to it, which may be after the stamp:
  `sendingFlag` is reset before `virtual_time` is set (`client.c:306-308`).  And a flow
  that was closed and restored has a new place in the epoch, whenever it sent.
* `ZeroIntervalHasCause`: with a burst of 1400 (`client/settings.cfg`), fewer than
  72 flows make the interval 0 and the client ends at its next time stamp.
* `EndsOnlyByRefusedGroup`: `updateEpoch` takes a `packets_group` of 0, which
  `getConfigs` refuses, and the next packet ends the server.  A negative one does
  not: all packets go to worker 0 until 2^31 have come in a minute.
* `SIDsDiffer`: a number is given to one flow only (README.md:
  "the primary key"), whatever is drawn.  This speaks of descriptors within the
  map.  A flow whose descriptor is `SID_end - SID_start` or more sends what lies
  in memory; `FieldsRead` and `KeyIsFlows` hold for it all the same.
* `FieldsRead`: the two lists of calls in `serialize.c` agree.  (The client's copy
  of `deserialize_payload` reads `dstDeviceID` into `srcDeviceID`, line 61, but
  nobody calls it.)
* `KeyIsFlows`: the key depends on bytes that are sent in clear and on nothing
  that the type or the direction of a packet changes.
* `SeedComesOnce`: checked for the 16384 keys there are; with the feedback left
  out the table would repeat after 32.
* `RoundKeepsShare`: also with shares 0 and 1 and with a share that changes in
  the middle of a round.  A round at share 1 has `Accuracy` + 1 packets, of
  which the last is a heartbeat.
* `HeadsUnderstood`, `BodiesUnderstood`: a short write or a packet in pieces
  spoils at most the arrivals it is part of, because each arrival is read from
  the start of the buffer; the four bytes ciphered beyond the body do not reach
  the bytes before them, because the chain runs forward only.

**What the violated properties show** (listed as findings):

* `RequestAnswered`: the worker tests, the epoll thread pushes and signals, the
  worker waits.  The request stays until the next packet for that ring.  The
  same may happen to the epoll thread on a full ring: it finds it full, the worker
  empties it and its signals find nobody waiting, the epoll thread waits, then
  the worker.  The server reads nothing any more.  (`EpollMissed` in
  `AnsweredUnlessMissed` is this state; a server without it would not need the
  exception.)
* `AllMonitored`: `deleteEpollEvent` closes first and removes from the epoll set
  second, so it can remove a new connection with the same number.

## 4. Fairness and the environment

`Pipeline`: the operating system runs every thread that can run (weak fairness
of the epoll thread and of each worker), and a client that may send does, since
it sends every epoch.  Nothing is assumed about who gets a mutex: only waiting
threads compete for it, and both release it in a bounded number of steps.
`AnsweredUnderTraffic` has the rest in its premise.

`Connections`: weak fairness of the epoll thread, but for its last step with a
packet (`ReadDone`, where it may wait for ever for room in a ring,
`server.c:379`), and of each worker's deletions.  Of the hand-over nothing is
assumed: no worker has to take a task, since it may sleep beside its ring
(`server.c:419-420`); `EveryRequestAnswered` names the exception.
The read loop at `server.c:356` could go on for ever if a client sent as fast
as it is read; `ReaderCatchesUp` excludes that, since epochs last seconds;
it also says that the epoll thread does not stay at a full ring.

`ClientFlows`: the loop thread and the updater run, time passes, the server
answers, and the reset that answers a write to a closed connection arrives.  `updateEvents` goes through all flows in turn, so a flow that stays
ready is found: strong fairness of `Scan(f)`, since arming other flows
interrupts the scan.  That the server answers is an assumption here, and
`pipeline_lost_wakeup` shows when it fails.

`ClientControl`: the admin thread and `epollLoop` run; `epollLoop` looks at
`close_conns` only when an event comes, so it is woken as long as there is an
open flow (each sends once per epoch and, with the server answering, never
falls silent: `EveryFlowKeepsSending`).  The file is changed a bounded number of
times.  `Packets`, `Pacing`, `Wire`, `Statistics` and `Database` state safety only.  In `Database` the
cluster may do anything, up to `Moves` times; Redis answers a command to a slot
that a node has unless the cluster is down.

In `Pipeline` and `Connections` a client sends nothing while its last request
is unanswered.  This is `sendingFlag`, and `ClientFlows` shows its one
exception: when a flow is registered for the first time `addEpollEvent` clears
the flag `canSendPkt` has just set.

## 5. The proofs

Each invariant and action property that a run checks is also a theorem, for
every value of the constants that the named assumptions allow; what is left to
TLC is listed at the end of this section.

### The server

`PipelineProofs` begins with the arithmetic of a ring of any size: how `Used`
changes with a push and a pop (`UsedAfterPush`, `UsedAfterPop`), when it is zero
(`UsedZero`), what `Avail` says about it (`AvailFull`), and where the i-th
pending slot lies (`OffsetWraps`).  Then it proves, for every number of workers
asked for, ring size above 1, set of packet groups, counter limit and set of
flows:

| theorem | statement |
|---|---|
| `TypeCorrect` | `Spec => []TypeOK` |
| `RingInvariant` | `Spec => []RingInv` |
| `OnlyBlindBreaches` | `Spec => BreachOnlyBlind` |
| `SlotsNeverRace` | `Spec => []NoSlotRace` |
| `EndNeedsRefusedGroup` | `Spec => []EndsOnlyByRefusedGroup` |
| `RingsAreQueues` | `Spec => ImplementsWorkQueue` |
| `NoRequestForgotten` | `Spec => []RequestsKept` |
| `OnlyMissedSignalsStop` | `Spec => []StandstillHasCause` |
| `NoLivelock` | `Spec => ThreadsGetDone`, with what is left always natural numbers |

`NoSlotRace` is not inductive.  `RingInv` is the strengthening: it adds what
each thread *knows* after its test.  `RoomToPush`: from the test until the push
there is room, because only the epoll thread moves `head` and a pop makes more
room.  `PacketToCopy` and `PacketToPop`: from the test until the pop there is a
packet, because only worker `w` moves its `tail` and a push adds one.  Each is
disturbed by four steps only; the type invariant carries the rest.  The
assumptions are the named ones in the modules: a ring has more than one slot,
the settings are ints, of less than the counter limit, and `NoFlow` is no flow.
That there is a worker at all is `ThreadsNumType`, from what `getConfigs` does.

`RingsAreQueues` is the refinement.  `HeldInv` adds to `RingInv` that the worker
of a ring that is not breached holds a packet exactly from the copy to the
answer, and that the slot that was filled holds what was read.  `Content` is what
is pending as a function of the slots and the indices, with one lemma for each
way the code changes them: filling the slot at `head` is not seen, for that slot
is not in use (`FillContent`); a push appends it (`PushContent`); a copy takes
the first (`PopContent`).  The step that breaches a ring is `Overrun` or
`Underrun`, and of a breached ring a push is `Drop` and the rest stutters.

`NoRequestForgotten` is proved of the abstract queues and carried over.  `Kept`
speaks of any queues, hands and packet that has arrived, and has one lemma for
each of their operations: an arrival (`ArriveKeeps`), a submission at the end of a
queue (`SubmitKeeps`), a worker that takes the first (`TakeKeeps`), an answer
(`FinishKeeps`).  `KeptStep` takes from the refinement which of them a step of the
pipeline is; what is left to prove is that `awaiting` changes with an arrival
and an answer only.

`OnlyMissedSignalsStop` is the safety half of `AnsweredUnlessMissed`: what a
server that stands still may look like.  Its invariant, `MutexInv`, is all that
is left of mutual exclusion when threads unlock what they do not hold: a mutex
that is locked is so by a thread that is at a place where it goes on by itself.
So when all stand still every mutex is free.  A request that is unanswered is,
by `Kept` and `HeldInv`, in a ring whose worker sleeps, or in the hands of the
epoll thread, which sleeps beside a ring that has room, or that is full and so
has work for its worker.

`NoLivelock` is the other half: the threads cannot go on for ever without a packet
that arrives.  `EpollLeft` counts the places the epoll thread has before it, and
`WorkerLeft` the packets a worker is still going to pop and the places before
it.  Each step leaves the epoll thread less, or one worker less and the others
as much as they had; a signal is a step of its sender, so it pays for the one
it wakes.  This holds in breached rings too: a worker that underruns its ring
finds it full, goes through all of it, and stops.  So after the last packet the
threads come to stand still, and `OnlyMissedSignalsStop` says in which states.
`ThreadsGetDone` is a definition of the proof module and in no run.

`ConnectionsProofs` proves, for every set of clients and of workers, any limit
on descriptors and on what may wait in a socket:

| theorem | statement |
|---|---|
| `ConnectionsTyping` | `Spec => []TypeOK` |
| `BacklogIsNoticed` | `Spec => []NewcomersNoticed` |
| `PatientServerStaysUp` | `Spec => []ServerStaysUp` |
| `AnswersAreRight` | `Spec => AnswersReachSender` |
| `ClosesAreRight` | `Spec => ClosesOnlyGone` |
| `UsersAreCounted` | `Spec => []UsrNumAccounted` |
| `PatientAreMonitored` | `Spec => [](patient => AllMonitored)` |
| `ArrivalsAreNoticed` | `Spec => []NothingOverlooked` |

The first two and `UsersAreCounted` hold whatever the clients do.  The others are
about patient clients, who leave only when nothing is owed to them, and rest on the same two
invariants.  `OnceInv`: a connection is in the backlog once or behind one
descriptor, never both, so that a descriptor says which connection is meant.
`PatientInv` says what the epoll thread and the workers may rely on: an event in
the batch is of an open connection with something to read, and not of the one
at hand (`EventInv`); what the thread has at its place is open, or just closed
(`HandledInv`); whoever waits for an answer is there, and the request is in
exactly one of his socket, the buffer and the tasks (`AwaitedInv`); so a worker
never meets a failing write and never deletes (`WorkersAnswer`).  `QuietNext`
lists the steps that are left once this is known, which halves the cases of
every later proof.  `CountInv` is `UsrNumAccounted` with what it takes to keep it: who
closes is counted from the close on (`UncountingMoves`), a close that finds
nothing adds to `vain`, and patient clients leave no thread such a close.
`WatchInv` is `AllMonitored` itself, which `connections_unmonitored` refutes when
clients may leave early: the theorem says that this is the only way.
`ArrivalsAreNoticed` is the safety half of `EveryRequestAnswered`.  `OverlookInv`
needs `WatchInv`, because an edge is of use only if the connection is watched,
and `AwaitedInv`: a read takes a packet away and may overwrite the buffer, and
there is no second packet of a client whose request is on its way.

`DatabaseProofs` proves, for every number of workers and slots, of nodes below 50,
every hash and set of flows:

| theorem | statement |
|---|---|
| `DatabaseTyping` | `Spec => []TypeOK` |
| `RoutesAreRight` | `Spec => []RoutesRight` |
| `CrashesHaveCauses` | `Spec => []CrashHasCause` |
| `AnsweredIsStored` | `Spec => []StoredUnlessMoved` |
| `BindingsWrittenFew` | `Spec => []FewWrites` |

None of the last four is inductive.  `RangeParsed` shows that of a single range
of two or more slots the parser takes the whole range, so exactly the owner
claims a slot.  `RouteInv` adds that every slot then has a node, without which a
command could follow a null pointer.  `CrashInv` adds that while all nodes run
every context is set.  `StoredInv` says after which place of the worker which of
its three keys has been dealt with.  `WriteInv` counts: the times a binding was
written plus the workers that stand before its SET are no more than the workers,
once it was written; before that all of them may be there.  A worker that begins
found the key nil, and a SET takes its worker away.

### The client

`ClientFlowsProofs` proves, for every set of flows, whichever of them the server
closes:

| theorem | statement |
|---|---|
| `FlowTyping` | `Spec => []TypeOK` |
| `NobodyElseEnds` | `Spec => []EndsOnlyWhenClosed` |
| `NoneForgotten` | `Spec => []FlagIsCared` |
| `RequestsBounded` | `Spec => []TwoRequestsOut` |
| `EpochQuota` | `Spec => []ThreeSendsPerEpoch` |

The invariant all rest on, `FlowInv`, says where the threads are: the flow that
`epollLoop` is at work on is open, and no other event of it is in the batch; an
event is of a registered flow; only a flow the server closed is closed.
`CareInv` adds to `FlagIsCared` that a request waits to be awaited with something
to wait for, an answer or the end of the flow.  `NoneForgotten` is the safety half
of both `EveryFlowKeepsSending` and `ClosedFlowsDeleted`.
`QuotaInv` counts: the requests of a flow that are out, its arming,
its raised edge, its event in the batch, one for a flag that is clear and one
for a flag that is about to be cleared, are at most 2.  Setting the flag pays for the
arming, an event for the packet, an answer for the flag.  `EpochInv` adds that a flow
which is due has sent nothing since, but for the packet just being written, so
that at its time stamp at most 1 + 2 packets can come before the next epoch.

`ClientControlProofs` proves, for every `connsMap` of two places or more, every
bound on the flows asked for and any number of changes of the file:

| theorem | statement |
|---|---|
| `ControlTyping` | `Spec => []TypeOK` |
| `RightNumberKept` | `Spec => []RightNumber` |
| `WorkEnds` | `Spec => WorkShrinks /\ []WorkTyped` |
| `RestIsRight` | `Spec => [](Resting => ...)`: at rest the number is right |

`RightNumber` speaks of the moments at which nothing is left to do.  The
invariant, `AccountInv`, is an account that is right at every step.  `Expected`
is the number of flows asked for, less those still to be created, plus those
still to be closed, wherever that number is kept: in `todo` until the store, then
in `close_conns`, then in what is left of the round.  `MissingInv`: `Expected` is
not below the number of open flows, and above it only by what was lost.
`LoadInv`: what was loaded from `close_conns` is not stale when it is stored back;
a load that could become stale is what sets `disturbed`.  `ScanInv` is for the
round of closing that comes to the end of `connsMap` with flows left to close:
the open flows it has passed are no more than those that are to stay, so at the
end, if none is at place 0, the rest of the round is not owed.  That is why
the code may subtract what it took rather than what it closed.

`WorkEnds` is the part of `Settles` that needs no fairness.  `Work` is what there
is to do, as four natural numbers in lexicographic order: a change of the file
not yet read, the closings that are owed, what is left of the rounds of adding
and closing, the flows not yet registered.  Every step of every thread makes it
smaller, but for a look at a file in which nothing has changed; so between two
changes of the file the threads take finitely many steps.  The hard part is
`Owed`, because `close_conns` is read, added to and written back without a lock:
what a thread has loaded may be stored when it is out of date, and bring back
closings that were done.  `CounterInv` bounds that, in the executions with lost
updates too: what `deleteConnections` has loaded is no less than what is there when it
stores, a round takes off no more than it finds, and `close_conns` is never
negative.  `RestIsRight` says where it ends: when no thread has anything to do,
nothing is owed (or no flow is left to wake `epollLoop`), and `RightNumber` holds.
`WorkShrinks` is a definition of the proof module and in no run.

`PacketsProofs` proves:

| theorem | statement |
|---|---|
| `PlaysMix` | `Spec => MixSpec`: the composed client implements `PacketMix` |
| `ShareKept` | `Spec => []RoundKeepsShare`, for every accuracy |
| `Typing` | `Spec => []TypeOK`; `DrawBound`: `shuffer` stays in the map for every `RAND_MAX` and size |
| `SIDsAreKeys` | `Spec => []SIDsDiffer` |
| `KeysAreFound` | `Spec => []KeyIsFlows` |
| `FieldsAreRead` | `Spec => []FieldsRead` |
| `PacketRoundTrip` | `Deserialize(Serialize(p)) = p` if the fields of `p` fit into their bytes |
| `NextKeyInjective` | keys with the same successor are the same, for every width and taps |
| `KeysDiffer` | if the seed does not come back within the table, no key is in it twice |

For `ShareKept` the strengthening, `SoFar`, says what holds in the middle of a
round: the requests up to the counter are no fewer than the smaller of it and
the smallest share, no more than it and the largest.  `KeysDiffer` takes two
places with the same key, the first as small as can be, and walks back one step
in both by `NextKeyInjective` until the first is the seed.  Its hypothesis is
what the run checks as `SeedComesOnce`, at the code's size and seed.

The layout is a recursive function over the list of fields.  `StartAt` gives its
values: the offsets satisfy the definition, and nothing else does.  From them
`FieldOf` shows that a byte belongs to one field, `ByteOf` what is written there,
and `KeyFromBytes` that the key comes from bytes 8 to 21 only, which are those of
`userID` and `reserve`.  A number is written by shifting it right byte by byte and
read by shifting left; `NumberRead` follows the two against each other for the
sizes of 1, 2, 4 and 8 bytes, and needs that nothing is left of the number
after its last byte (`FitsIn`).  `NumbersAssumption` says so of descriptors and
of the numbers of flows, which are `uint32_t`, those read beyond the map
included.

### Between the two

`WireProofs` proves, for every width, number of groups, key table, and set of
headers and bodies:

| theorem | statement |
|---|---|
| `RoundTrip` | `Decrypt` undoes `Encrypt`, for every initial word, key and block |
| `CutRoundTrip` | a body is deciphered to what it was, whatever lies beyond |
| `Typing` | `Spec => []TypeOK` |
| `HeadsThm` | `Spec => HeadsUnderstood` |
| `BodiesThm` | `Spec => BodiesUnderstood` |

The core of `RoundTrip` is `RotateBack`: bit `i` of a word shifted left and
folded is bit `i - n` or `i - n + Width` of the word, and the shift right finds
it again; `n` is a number of ones and so at most `Width`.

The invariant behind the last two adds to the type that each packet in the stream is
`Honest`: it carries the code its client made of its text, with the cipher for
some `Junk` beyond the body, or without it.  `CutRoundTrip` needs
`DecryptPrefix`: a word that is deciphered depends on its cipher word and the
ones before it only, so the cut at the end does not matter.

### Pacing and statistics

`PacingAndStatisticsProofs` proves, for every length of a second, width of an
int, set of epochs, bursts and numbers of flows, and for every number of threads
and packets:

| theorem | statement |
|---|---|
| `PacingTyping` | `Spec => []TypeOK` |
| `ZeroIntervalExplained` | `Spec => []ZeroIntervalHasCause` |
| `FlowsAreDue` | `Spec => []DueInTime` |
| `PacketsKeepDistance` | `Spec => NeverEarly` |
| `StatisticsTyping` | `StatsSpec => []StatsTypeOK` |
| `DivisionIsSafe` | `StatsSpec => []NeverDividesByZero` |
| `ReportsTrue` | `StatsSpec => []ReportsAreTrue` |

`AgeInv` relates what the code computes, the difference of two times modulo the
number of ints, to the ticks that have really passed.  After a packet (`SendInv`)
the two differ by less than a second, because the time is cut to whole intervals
of the current second.  After a start (`StartInv`) they agree modulo the number of
ints with a time that is at most `lag` behind and `Ahead` ahead.  The provers do
not reason about division by a variable, so the module first proves what it
needs from the definition of the remainder: `Wrap` keeps an int; a time cut to
intervals is less than an interval back; an offset modulo the epoch is inside it;
an epoch less a delay, cut to seconds towards zero, is at most the epoch, and
short of it by no more than the delay rounded up (`CutLess`,
`VirtualDelayBounds`); and when the interval is 0 (`IntervalIsZero`, for each share
of the burst that `Shares` allows).  The assumptions are that a second and the
default interval are positive ints, that the longest epoch in microseconds is
one, that ints have an even number of values, and that delays are whole parts of
a second.

`NeverEarly` speaks of the step that arms, which may come long after the one that
looked.  `DueIsNotEarly` is about the look: a flow that is due, modulo the width of
an int, has waited.  `JudgedInv` carries that to the arming: while `upc` is at
`arm`, either a packet was unstamped at the look or written since (`overtaken`), or
no stamp can come in between and time only passes.
`CauseInv` says of the interval what `ZeroIntervalHasCause` says of the crash.

`DivisorInv` says that what was tested stays above 0, since nobody else resets
it.  `CountInv` adds to `ReportsAreTrue` what the threads that have loaded the
counter have loaded.

### Only model-checked

* The liveness properties (`AnsweredUnderTraffic`, `AnsweredUnlessMissed`,
  `EveryRequestAnswered`, `EveryFlowKeepsSending`, `ClosedFlowsDeleted`,
  `Settles`): TLAPS proves nothing about `ENABLED` here.  Their safety halves are
  theorems: that there is no state in which nobody is going to do what has to be
  done (`OnlyMissedSignalsStop`, `ArrivalsAreNoticed`, `NoneForgotten`,
  `RestIsRight`), and, for the rings and for `Settles`, that the work shrinks with
  every step (`NoLivelock`, `WorkEnds`).
* `SeedComesOnce`: a statement about 16384 steps from one seed.  `KeysDiffer`
  takes it as its hypothesis.

The type invariants are proved for all values of the constants and are not in
the runs; the one `RingInv` contains is.

## 6. What could be added

`System`: a client flow against the server's connection and one ring, in which
the assumptions `ClientFlows`, `Connections` and `Pipeline` make about one another
are steps of each other.  Today they meet on paper (section 4): `ClientFlows`
assumes that the server answers, which `EveryRequestAnswered` and
`AnsweredUnlessMissed` show with their exceptions; the two server modules assume
that a client sends only when it has its answer, which `ClientFlows` shows but for
the first registration of a flow.  The three state spaces multiply, so such a
module would be one to prove about, from the invariants of section 5.

## 7. Not modelled

* `des.c` and `server/cipher.c` are in no Makefile.
* Of the statistics, the sums and the largest RTT, which are only printed.
  `Statistics` is one counter for all, which are handled alike, and the build
  with TPUT: it is defined in `client.h:26` and commented out in `server.h:27`.
* `MAXPORTS` is 1 at both ends, so there is one listening socket, one epoll
  thread, and one `epollLoop`; arrays indexed by the port are single values.
* `updateEvents` reads `efd` of a flow a second time after `canSendPkt`; a flow
  deleted in between fails in `modifyEpollEvent` all the same (`ArmClosed`).
* `initThreads` hands its threads pointers into its stack frame, and sleeps a
  second; that all have read them by then is the initial state of `Pipeline`.
* Socket options, address lookup, alias addresses, argument handling and the
  shell scripts are calls into the system in a fixed order.
* `flushDb` and `disconnectDatabase` are reached by no thread (the worker's loop
  does not end); `server/redis/main.c` is in no Makefile.  `crc16` is a constant.
* Spurious wake-ups, which POSIX allows, are left out: they would only make the
  violated properties easier to violate and are covered by `eBlind`/`wBlind` in
  the others.

------------------------------ MODULE Pipeline ------------------------------
(***************************************************************************)
(* The server's packet pipeline (server/server.c): the one epoll thread    *)
(* reads packets and pushes each to the ring of one worker; the worker     *)
(* pops it and answers it if it is a request.                              *)
(*                                                                         *)
(* Each thread's code is cut where another thread can observe or change    *)
(* what it reads.  The indices are read without a lock by the worker, and  *)
(* both condition waits are an IF, not a loop, so a thread that is woken   *)
(* goes on without looking again.                                          *)
(*                                                                         *)
(* The mutexes are those of glibc: unlocking one, or waiting on a          *)
(* condition with one, frees it whoever holds it.  No wake-up is spurious. *)
(***************************************************************************)
EXTENDS Ring, ServerConfig, Sequences

CONSTANTS ThreadsSetting,  \* threads_num in settings.cfg
          GroupSettings,   \* packets_group there, at one time or another
          CounterLimit,    \* values of an unsigned int, 2^32 in the code
          Flows,           \* the connections that send packets
          NoFlow           \* the fd of a slot that was never filled

ASSUME ThreadsSettingAssumption == ThreadsSetting \in Int
ASSUME CounterLimitAssumption == CounterLimit \in Nat \ {0, 1}
ASSUME GroupSettingsAssumption ==    \* ints
  /\ GroupSettings # {}
  /\ \A g \in GroupSettings : g \in Int /\ -CounterLimit < g /\ g < CounterLimit
ASSUME NoFlowAssumption == NoFlow \notin Flows

ThreadsNum == StartThreads(ThreadsSetting)   \* conf->threads_num, for good
Workers == 0 .. ThreadsNum - 1

Packets == [flow : Flows, type : {"HEARTBEAT", "REQUEST"}]
Blank == [flow |-> NoFlow, type |-> "STATE"]      \* a calloc'ed slot
NoPacket == [flow |-> NoFlow, type |-> "NONE"]    \* nothing read, or done

VARIABLES
  \* the epoll thread
  epc,       \* where it is in processEPOLLIN; "idle" is the epoll_wait loop
  current,   \* buf and fd: the packet it read
  target,    \* getThreadIndex: the worker the packet is for
  counter,   \* stats.receive_counter_min
  group,     \* conf->packets_group
  \* worker w
  wpc,       \* wpc[w]: where it is in the loop of processPackets
  inHand,    \* inHand[w]: payload and fd: the packet it processes
  \* packets_for_thread[w]
  head, tail, slot,
  mlock,     \* mlock[w]: is the mutex locked?
  \* the clients
  awaiting,  \* flows whose last request has not been answered
  \* history
  eBlind,    \* the epoll thread went past its wait without looking again
  wBlind,    \* wBlind[w]: so did worker w
  breached   \* breached[w]: a push to a full ring or a read of an empty one

epollVars  == <<epc, current, target, counter, group, eBlind>>
workerVars == <<wpc, inHand, wBlind>>
ringVars   == <<head, tail, slot>>
vars == <<epollVars, workerVars, ringVars, mlock, awaiting, breached>>

UsedOf(w)  == Used(head[w], tail[w])
AvailOf(w) == Avail(head[w], tail[w])

\* What the epoll thread and the worker look at before they wait, and the
\* packet the worker takes; each with a slip of it.
FullOffByOne(w) == AvailOf(w) <= 0
Full(w) == AvailOf(w) <= 1
EmptyOffByOne(w) == UsedOf(w) < 0
Empty(w) == UsedOf(w) <= 0
OldestAtHead(w) == slot[w][head[w]]
Oldest(w) == slot[w][tail[w]]

Init ==
  /\ epc = "idle" /\ current = NoPacket /\ target = 0 /\ counter = 0
  /\ group \in {StartGroup(g) : g \in GroupSettings}
  /\ wpc = [w \in Workers |-> "check"]
  /\ inHand = [w \in Workers |-> NoPacket]
  /\ head = [w \in Workers |-> 0]
  /\ tail = [w \in Workers |-> 0]
  /\ slot = [w \in Workers |-> [i \in Slots |-> Blank]]
  /\ mlock = [w \in Workers |-> FALSE]
  /\ awaiting = {}
  /\ eBlind = FALSE
  /\ wBlind = [w \in Workers |-> FALSE]
  /\ breached = [w \in Workers |-> FALSE]

-----------------------------------------------------------------------------
(* The epoll thread: processEPOLLIN                                        *)

\* The counter is unsigned, so the divisor is taken for unsigned, too.
Divisor(g) == g % CounterLimit
ThreadIndex(count) == (count \div Divisor(group)) % ThreadsNum

\* The read loop ends with one packet of flow f.  A client sends nothing
\* while its last request is unanswered (sendingFlag; ClientFlows shows the
\* one exception, when a flow is first registered).  The minute may end before
\* the counter is read again.
Read(f, type) ==
  /\ epc = "idle"
  /\ f \notin awaiting
  /\ current' = [flow |-> f, type |-> type]
  /\ awaiting' = IF type = "REQUEST" THEN awaiting \cup {f} ELSE awaiting
  /\ counter' \in {(counter + 1) % CounterLimit, 0}
  /\ UNCHANGED <<group, eBlind, workerVars, ringVars, mlock, breached>>

Receive(f, type) ==
  /\ Read(f, type)
  /\ Divisor(group) # 0
  /\ target' = ThreadIndex(counter')
  /\ epc' = "lock"

\* SIGFPE: the server ends
DivideByZero(f, type) ==
  /\ Read(f, type)
  /\ Divisor(group) = 0
  /\ epc' = "ended"
  /\ UNCHANGED target

Lock ==
  /\ epc = "lock"
  /\ ~mlock[target]
  /\ mlock' = [mlock EXCEPT ![target] = TRUE]
  /\ epc' = "check"
  /\ UNCHANGED <<current, target, counter, group, eBlind, workerVars, ringVars,
                 awaiting, breached>>

\* a slip: the packet is dropped when the ring is full
CheckFullDropping ==
  /\ epc = "check"
  /\ epc' = IF Full(target) THEN "unlock" ELSE "fill"
  /\ eBlind' = FALSE
  /\ UNCHANGED <<current, target, counter, group, workerVars, ringVars, mlock,
                 awaiting, breached>>
CheckFull ==
  /\ epc = "check"
  /\ epc' = IF Full(target) THEN "wait" ELSE "fill"
  /\ eBlind' = FALSE
  /\ UNCHANGED <<current, target, counter, group, workerVars, ringVars, mlock,
                 awaiting, breached>>

WaitNotFull ==
  /\ epc = "wait"
  /\ epc' = "asleep"
  /\ mlock' = [mlock EXCEPT ![target] = FALSE]
  /\ UNCHANGED <<current, target, counter, group, eBlind, workerVars, ringVars,
                 awaiting, breached>>

ReacquireNotFull ==
  /\ epc = "woken"
  /\ ~mlock[target]
  /\ mlock' = [mlock EXCEPT ![target] = TRUE]
  /\ epc' = "fill"
  /\ eBlind' = TRUE
  /\ UNCHANGED <<current, target, counter, group, workerVars, ringVars,
                 awaiting, breached>>

Fill ==
  /\ epc = "fill"
  /\ slot' = [slot EXCEPT ![target][head[target]] = current]
  /\ epc' = "push"
  /\ UNCHANGED <<current, target, counter, group, eBlind, workerVars, head,
                 tail, mlock, awaiting, breached>>

Push ==
  /\ epc = "push"
  /\ head' = [head EXCEPT ![target] = Advance(@)]
  /\ breached' = [breached EXCEPT ![target] = @ \/ AvailOf(target) <= 1]
  /\ epc' = "unlock"
  /\ UNCHANGED <<current, target, counter, group, eBlind, workerVars, tail,
                 slot, mlock, awaiting>>

\* a slip: the mutex stays locked
UnlockForgotten ==
  /\ epc = "unlock"
  /\ epc' = "signal"
  /\ UNCHANGED <<current, target, counter, group, eBlind, workerVars, ringVars,
                 mlock, awaiting, breached>>
Unlock ==
  /\ epc = "unlock"
  /\ mlock' = [mlock EXCEPT ![target] = FALSE]
  /\ epc' = "signal"
  /\ UNCHANGED <<current, target, counter, group, eBlind, workerVars, ringVars,
                 awaiting, breached>>

SignalNotEmpty ==
  /\ epc = "signal"
  /\ wpc' = IF wpc[target] = "asleep" THEN [wpc EXCEPT ![target] = "woken"]
                                      ELSE wpc
  /\ epc' = "idle"
  /\ UNCHANGED <<current, target, counter, group, eBlind, inHand, wBlind,
                 ringVars, mlock, awaiting, breached>>

EpollStep ==
  \/ Lock \/ CheckFull \/ WaitNotFull \/ ReacquireNotFull
  \/ Fill \/ Push \/ Unlock \/ SignalNotEmpty

-----------------------------------------------------------------------------
(* Worker w: the loop of processPackets                                    *)

GoTo(w, pc) == wpc' = [wpc EXCEPT ![w] = pc]

CheckEmpty(w) ==
  /\ wpc[w] = "check"
  /\ GoTo(w, IF Empty(w) THEN "wait" ELSE "copy")
  /\ wBlind' = [wBlind EXCEPT ![w] = FALSE]
  /\ UNCHANGED <<epollVars, inHand, ringVars, mlock, awaiting, breached>>

\* the wait frees the mutex, which the worker did not lock
WaitNotEmpty(w) ==
  /\ wpc[w] = "wait"
  /\ GoTo(w, "asleep")
  /\ mlock' = [mlock EXCEPT ![w] = FALSE]
  /\ UNCHANGED <<epollVars, inHand, wBlind, ringVars, awaiting, breached>>

ReacquireNotEmpty(w) ==
  /\ wpc[w] = "woken"
  /\ ~mlock[w]
  /\ mlock' = [mlock EXCEPT ![w] = TRUE]
  /\ GoTo(w, "copy")
  /\ wBlind' = [wBlind EXCEPT ![w] = TRUE]
  /\ UNCHANGED <<epollVars, inHand, ringVars, awaiting, breached>>

Copy(w) ==
  /\ wpc[w] = "copy"
  /\ inHand' = [inHand EXCEPT ![w] = Oldest(w)]
  /\ breached' = [breached EXCEPT ![w] = @ \/ UsedOf(w) <= 0]
  /\ GoTo(w, "pop")
  /\ UNCHANGED <<epollVars, wBlind, ringVars, mlock, awaiting>>

Pop(w) ==
  /\ wpc[w] = "pop"
  /\ tail' = [tail EXCEPT ![w] = Advance(@)]
  /\ GoTo(w, "unlock")
  /\ UNCHANGED <<epollVars, inHand, wBlind, head, slot, mlock, awaiting,
                 breached>>

\* frees the mutex whoever holds it: after a check that found a packet the
\* worker does not, and the epoll thread may
UnlockRing(w) ==
  /\ wpc[w] = "unlock"
  /\ mlock' = [mlock EXCEPT ![w] = FALSE]
  /\ GoTo(w, "signal")
  /\ UNCHANGED <<epollVars, inHand, wBlind, ringVars, awaiting, breached>>

SignalNotFull(w) ==
  /\ wpc[w] = "signal"
  /\ epc' = IF epc = "asleep" /\ target = w THEN "woken" ELSE epc
  /\ GoTo(w, "process")
  /\ UNCHANGED <<current, target, counter, group, eBlind, inHand, wBlind,
                 ringVars, mlock, awaiting, breached>>

\* a request is answered on the flow it came from; other packets are not
Process(w) ==
  /\ wpc[w] = "process"
  /\ awaiting' = IF inHand[w].type = "REQUEST"
                   THEN awaiting \ {inHand[w].flow} ELSE awaiting
  /\ inHand' = [inHand EXCEPT ![w] = NoPacket]
  /\ GoTo(w, "check")
  /\ UNCHANGED <<epollVars, wBlind, ringVars, mlock, breached>>

WorkerStep(w) ==
  /\ epc # "ended"
  /\ \/ CheckEmpty(w) \/ WaitNotEmpty(w) \/ ReacquireNotEmpty(w) \/ Copy(w)
     \/ Pop(w) \/ UnlockRing(w) \/ SignalNotFull(w) \/ Process(w)

\* update_cfg.  A file that cannot be read, or lacks the setting or the one
\* read before it, changes nothing here.
Reload(setting) ==
  /\ epc # "ended"
  /\ group' = NewGroup(setting)
  /\ UNCHANGED <<epc, current, target, counter, eBlind, workerVars, ringVars,
                 mlock, awaiting, breached>>

\* resetMinStats, if the server is built with TPUT (Statistics has the store
\* that undoes it, which is as if there were none)
EndMinute ==
  /\ epc # "ended"
  /\ counter' = 0
  /\ UNCHANGED <<epc, current, target, group, eBlind, workerVars, ringVars,
                 mlock, awaiting, breached>>

-----------------------------------------------------------------------------
Next ==
  \/ \E f \in Flows, type \in {"HEARTBEAT", "REQUEST"} :
       Receive(f, type) \/ DivideByZero(f, type)
  \/ \E setting \in GroupSettings : Reload(setting)
  \/ EndMinute
  \/ EpollStep
  \/ \E w \in Workers : WorkerStep(w)

Spec == Init /\ [][Next]_vars

\* Every thread that can run does, and a client that may send does: it sends
\* a packet every epoch.
FairSpec ==
  /\ Spec
  /\ WF_vars(EpollStep)
  /\ \A w \in Workers : WF_vars(WorkerStep(w))
  /\ \A f \in Flows :
       WF_vars(\E type \in {"HEARTBEAT", "REQUEST"} : Receive(f, type))

-----------------------------------------------------------------------------
(* Properties                                                              *)

EpollPlaces == {"idle", "lock", "check", "wait", "asleep", "woken", "fill",
                "push", "unlock", "signal", "ended"}
WorkerPlaces == {"check", "wait", "asleep", "woken", "copy", "pop", "unlock",
                 "signal", "process"}

\* Every variable has its type: the indices stay inside the ring and the
\* packet handed to a worker is for one of the workers that exist.
TypeOK ==
  /\ epc \in EpollPlaces
  /\ current \in Packets \cup {NoPacket}
  /\ epc # "idle" => current \in Packets
  /\ target \in Workers
  /\ counter \in 0 .. CounterLimit - 1
  /\ group \in Int /\ -CounterLimit < group /\ group < CounterLimit
  /\ wpc \in [Workers -> WorkerPlaces]
  /\ inHand \in [Workers -> Packets \cup {Blank, NoPacket}]
  /\ head \in [Workers -> Slots]
  /\ tail \in [Workers -> Slots]
  /\ slot \in [Workers -> [Slots -> Packets \cup {Blank}]]
  /\ mlock \in [Workers -> BOOLEAN]
  /\ awaiting \in SUBSET Flows
  /\ eBlind \in BOOLEAN
  /\ wBlind \in [Workers -> BOOLEAN]
  /\ breached \in [Workers -> BOOLEAN]

\* The slots between tail and head, oldest first, without the one the worker
\* has copied and not yet popped.
Pending(w) ==
  LET first == IF wpc[w] = "pop" THEN Advance(tail[w]) ELSE tail[w]
  IN  [i \in 1 .. Used(head[w], first) |->
         slot[w][(first + i - 1) % RingSize]]

\* The packet the epoll thread has read and not yet pushed.
Arriving ==
  IF epc \in {"idle", "unlock", "signal"} THEN NoPacket ELSE current

\* The rings implement the bounded FIFO queues of WorkQueue although neither
\* thread holds the lock when it matters: until a ring over- or underruns,
\* every packet read is taken exactly once, in order, by the worker it was
\* dispatched to (processEPOLLIN against processPackets).
Queues == INSTANCE WorkQueue WITH
  Packets <- Packets,
  NoPacket <- NoPacket,
  Capacity <- RingSize - 1,
  arriving <- Arriving,
  queue <- [w \in Workers |-> IF breached[w] THEN <<>> ELSE Pending(w)],
  inHand <- [w \in Workers |-> IF breached[w] THEN NoPacket ELSE inHand[w]],
  failed <- breached

ImplementsWorkQueue == Queues!Spec

\* A ring over- or underruns only by the step of a thread that was woken and
\* did not look again (server.c:378-380, 419-421): the unlocked checks
\* themselves are never stale in the direction that hurts.
BreachOnlyBlind ==
  [][\A w \in Workers :
       ~breached[w] /\ breached'[w] =>
         \/ epc = "push" /\ target = w /\ eBlind
         \/ wpc[w] = "copy" /\ wBlind[w]]_vars

\* getConfigs takes 1 where the file has no positive packets_group
\* (server_config.c:57-58), updateEpoch takes what there is.  The server ends
\* only by a packets_group that getConfigs refuses: no division by zero comes
\* of a negative one, taken for unsigned, of the width of the counter, or of
\* a reload in the middle of a packet.
EndsOnlyByRefusedGroup ==
  epc = "ended" => group # StartGroup(group)

\* Why the unlocked checks suffice.  The room the epoll thread found cannot
\* be used up by the worker, nor the packet the worker found be taken back by
\* the epoll thread; so each still has what it saw when it acts on it.
RoomToPush ==
  epc \in {"fill", "push"} /\ ~eBlind /\ ~breached[target]
    => UsedOf(target) < RingSize - 1
PacketToCopy ==
  \A w \in Workers :
    wpc[w] = "copy" /\ ~wBlind[w] /\ ~breached[w] => UsedOf(w) > 0
PacketToPop ==
  \A w \in Workers : wpc[w] = "pop" /\ ~breached[w] => UsedOf(w) > 0

RingInv == TypeOK /\ RoomToPush /\ PacketToCopy /\ PacketToPop

\* The epoll thread never fills the slot a worker is copying, unless the
\* worker went to it without looking or the ring is already breached.
NoSlotRace ==
  \A w \in Workers :
    ~breached[w] /\ ~wBlind[w] /\ wpc[w] = "copy"
      => ~(epc = "fill" /\ target = w /\ head[w] = tail[w])

\* The way of a packet to worker w's answer: what w has in hand (0), then what
\* is pending in its ring.
Line(w) ==
  [i \in 0 .. Len(Pending(w)) |-> IF i = 0 THEN inHand[w] ELSE Pending(w)[i]]
Request(f) == [flow |-> f, type |-> "REQUEST"]
InLine(f) ==
  {p \in Workers \X (0 .. RingSize - 1) :
     p[2] <= Len(Pending(p[1])) /\ Line(p[1])[p[2]] = Request(f)}

\* No request is forgotten and none is answered twice: while no ring is
\* breached, the request of each flow that awaits its answer is in one place
\* on the way, and a flow that awaits nothing has none under way, whatever
\* the group of packets and the reloads do to the choice of the worker.
RequestsKept ==
  (\A w \in Workers : ~breached[w]) => \A f \in Flows :
    /\ f \in awaiting <=> Arriving = Request(f) \/ InLine(f) # {}
    /\ Arriving = Request(f) => InLine(f) = {}
    /\ \A p, q \in InLine(f) : p = q

\* A worker that slept through the signal for a packet is woken by the next
\* packet for its ring: while those keep coming and no ring is breached,
\* every request is answered.
Traffic(w) == epc = "signal" /\ target = w
AnsweredUnderTraffic ==
  ([](\A w \in Workers : ~breached[w]) /\ \A w \in Workers : []<>Traffic(w))
    => \A f \in Flows : f \in awaiting ~> f \notin awaiting

\* Nothing but a missed signal leaves a request unanswered, whatever the mutex
\* that is unlocked by others does: a thread that sleeps on while its ring has
\* work for it, and nobody is about to signal (server.c:379, 420).
EpollMissed ==
  /\ epc = "asleep" /\ ~Full(target)
  /\ wpc[target] \notin {"unlock", "signal"}
WorkerMissed(w) ==
  /\ wpc[w] = "asleep" /\ ~Empty(w)
  /\ ~(epc \in {"unlock", "signal"} /\ target = w)
AnsweredUnlessMissed ==
  []((\A w \in Workers : ~breached[w] /\ ~WorkerMissed(w)) /\ ~EpollMissed)
    => \A f \in Flows : f \in awaiting ~> f \notin awaiting

\* A thread that cannot go on by itself.
EpollStuck ==
  \/ epc \in {"idle", "asleep"}
  \/ epc \in {"lock", "woken"} /\ mlock[target]
WorkerStuck(w) ==
  \/ wpc[w] = "asleep"
  \/ wpc[w] = "woken" /\ mlock[w]

\* A missed signal is the only deadlock of the pipeline: when no thread can go
\* on by itself and a request is unanswered, one of them missed its signal.
\* The mutexes, freed by whoever passes, and the two conditions never make the
\* threads wait for one another in a circle.
StandstillHasCause ==
  /\ EpollStuck
  /\ \A w \in Workers : WorkerStuck(w) /\ ~breached[w]
  /\ awaiting # {}
  => EpollMissed \/ \E w \in Workers : WorkerMissed(w)

-----------------------------------------------------------------------------
(* What the README and the comments say, and the code does not do          *)

\* README.md:18: a request is a packet "requiring a responce from the
\* server".  So each is answered (processPackets, server.c:419-421).
\* It fails even while no ring is breached.
RequestAnswered ==
  [](\A w \in Workers : ~breached[w])
    => \A f \in Flows : f \in awaiting ~> f \notin awaiting
=============================================================================

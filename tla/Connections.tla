----------------------------- MODULE Connections -----------------------------
(***************************************************************************)
(* The life of a connection in the server (server/server.c): accepted and  *)
(* watched by the epoll thread, read when the edge-triggered epoll set     *)
(* reports it, answered by worker threads that know it by its descriptor   *)
(* only, and deleted by whichever thread finds it gone.                    *)
(*                                                                         *)
(* A descriptor is a number the kernel hands out again after a close, so   *)
(* what a thread holds may name another connection by the time it uses it. *)
(* The rings between the threads are reduced to a set of tasks (Pipeline   *)
(* models them); heartbeats, which no worker answers, never become tasks.  *)
(***************************************************************************)
EXTENDS Integers, FiniteSets, SequencesExt

CONSTANTS Conns,          \* connections a client may open, each once
          NoConn,         \* a free entry of the descriptor table
          MaxFd,          \* the largest limit on descriptors
          Workers,        \* threads that answer
          InboxLimit      \* bound on the packets unread in a socket

ASSUME NoConnAssumption == NoConn \notin Conns
ASSUME MaxFdAssumption == MaxFd \in Nat \ {0}
ASSUME EpollAssumption == "epoll" \notin Workers

Fds == 1 .. MaxFd
Listener == 0             \* sfd, the listening socket
Types == {"HEARTBEAT", "REQUEST"}
Threads == {"epoll"} \cup Workers

VARIABLES
  \* the clients and the network
  peer,       \* peer[c]: "new", "up", "fin", "rst", or "gone": a reset of
              \* which the server has been told
  inbox,      \* inbox[c]: packets sent and not yet read
  awaiting,   \* connections whose client waits for an answer
  patient,    \* do clients leave only when they wait for no answer?
  \* the kernel
  backlog,    \* connections not yet accepted
  fdTable,    \* fdTable[fd]: the open connection behind a descriptor
  watched,    \* connections in the epoll set
  edge,       \* edge[c]: something arrived since epoll_wait last reported c
  listenEdge,
  limit,      \* descriptors the process may have for connections
  \* the server
  pc, at,     \* pc[t], at[t]: where a thread is, and the fd it works on
  batch,      \* the events epoll_wait returned and not yet handled
  buf,        \* the type of the packet in buf, "NONE" if nothing was read
  tasks,      \* requests on their way to a worker: [conn, fd]
  usrNum,     \* usr_num; the listening socket counts as one
  \* history
  refused,    \* accept last failed for want of a descriptor
  vain        \* deletions whose close met a number that was not open

clientVars == <<peer, awaiting, patient>>
kernelVars == <<backlog, fdTable, watched, edge, listenEdge>>
limitVars == <<limit, refused, vain>>
vars == <<clientVars, inbox, kernelVars, pc, at, batch, buf, tasks, usrNum,
          limitVars>>

Init ==
  /\ peer = [c \in Conns |-> "new"]
  /\ inbox = [c \in Conns |-> <<>>]
  /\ awaiting = {} /\ patient \in BOOLEAN
  /\ backlog = <<>>
  /\ fdTable = [fd \in Fds |-> NoConn]
  /\ watched = {}
  /\ edge = [c \in Conns |-> FALSE]
  /\ listenEdge = FALSE
  /\ pc = [t \in Threads |-> IF t = "epoll" THEN "wait" ELSE "idle"]
  /\ at = [t \in Threads |-> Listener]
  /\ batch = {}
  /\ buf = "NONE"
  /\ tasks = {}
  /\ usrNum = 1
  /\ limit \in Fds
  /\ refused = FALSE /\ vain = 0

Running == pc["epoll"] # "exited"
IsOpen(fd) == fdTable[fd] # NoConn
FreeFds == {fd \in 1 .. limit : ~IsOpen(fd)}
OpenConns == {fdTable[fd] : fd \in {g \in Fds : IsOpen(g)}}
InBacklog(c) == c \in Range(backlog)
Readable(c) == inbox[c] # <<>> \/ peer[c] \in {"fin", "rst", "gone"}

\* A reset is reported once, to the first read or write that meets it.
Told(c) == IF peer[c] = "rst" THEN "gone" ELSE peer[c]

GoTo(t, p) == pc' = [pc EXCEPT ![t] = p]
MoveTo(t, p, fd) == GoTo(t, p) /\ at' = [at EXCEPT ![t] = fd]

-----------------------------------------------------------------------------
(* The clients                                                             *)

Connect(c) ==
  /\ Running
  /\ peer[c] = "new"
  /\ peer' = [peer EXCEPT ![c] = "up"]
  /\ backlog' = Append(backlog, c)
  /\ listenEdge' = TRUE
  /\ UNCHANGED <<inbox, awaiting, patient, fdTable, watched, edge, pc, at,
                 batch, buf, tasks, usrNum, limitVars>>

\* A client sends nothing while it waits for an answer (sendingFlag; see
\* ClientFlows for the exception).
Send(c, type) ==
  /\ Running
  /\ peer[c] = "up" /\ c \notin awaiting
  /\ c \in OpenConns \/ InBacklog(c)
  /\ Len(inbox[c]) < InboxLimit
  /\ inbox' = [inbox EXCEPT ![c] = Append(@, type)]
  /\ awaiting' = IF type = "REQUEST" THEN awaiting \cup {c} ELSE awaiting
  /\ edge' = [edge EXCEPT ![c] = TRUE]
  /\ UNCHANGED <<peer, patient, backlog, fdTable, watched, listenEdge, pc, at,
                 batch, buf, tasks, usrNum, limitVars>>

Leave(c, how) ==
  /\ Running
  /\ peer[c] = "up"
  /\ patient => c \notin awaiting
  /\ peer' = [peer EXCEPT ![c] = how]
  /\ awaiting' = awaiting \ {c}
  /\ edge' = [edge EXCEPT ![c] = TRUE]
  /\ UNCHANGED <<patient, inbox, backlog, fdTable, watched, listenEdge, pc,
                 at, batch, buf, tasks, usrNum, limitVars>>

-----------------------------------------------------------------------------
(* Deleting a connection: deleteEpollEvent, by any thread                  *)

\* A close of a number that is not open fails unnoticed; the last close of a
\* connection also takes it out of the epoll set.
DeleteClose(t) ==
  /\ pc[t] = "close"
  /\ watched' = watched \ {fdTable[at[t]]}
  /\ fdTable' = [fdTable EXCEPT ![at[t]] = NoConn]
  /\ vain' = IF IsOpen(at[t]) THEN vain ELSE vain + 1
  /\ GoTo(t, "ctl")
  /\ UNCHANGED <<clientVars, inbox, backlog, edge, listenEdge, at, batch, buf,
                 tasks, usrNum, limit, refused>>

\* EPOLL_CTL_DEL looks up whatever the number stands for by now.
DeleteCtl(t) ==
  /\ pc[t] = "ctl"
  /\ watched' = watched \ {fdTable[at[t]]}
  /\ GoTo(t, "decr")
  /\ UNCHANGED <<clientVars, inbox, backlog, fdTable, edge, listenEdge, at,
                 batch, buf, tasks, usrNum, limitVars>>

\* a slip: the count stays
DeleteUncounted(t) ==
  /\ pc[t] = "decr"
  /\ GoTo(t, IF t = "epoll" THEN "dispatch" ELSE "idle")
  /\ UNCHANGED <<clientVars, inbox, kernelVars, at, batch, buf, tasks,
                 usrNum, limitVars>>
\* decr_usr_num
DeleteDecr(t) ==
  /\ pc[t] = "decr"
  /\ usrNum' = usrNum - 1
  /\ GoTo(t, IF t = "epoll" THEN "dispatch" ELSE "idle")
  /\ UNCHANGED <<clientVars, inbox, kernelVars, at, batch, buf, tasks,
                 limitVars>>

Delete(t) == DeleteClose(t) \/ DeleteCtl(t) \/ DeleteDecr(t)

-----------------------------------------------------------------------------
(* The epoll thread: server, acceptEpollEvents, processEPOLLIN             *)

ReadyFds == {fd \in Fds : /\ fdTable[fd] \in watched
                          /\ edge[fdTable[fd]]
                          /\ Readable(fdTable[fd])}

EpollWait ==
  /\ pc["epoll"] = "wait"
  /\ LET hup == {fd \in ReadyFds : peer[fdTable[fd]] \in {"rst", "gone"}}
         in  == ReadyFds \ hup
         new == IF listenEdge /\ backlog # <<>> THEN {Listener} ELSE {}
     IN  batch' = {[fd |-> fd, hup |-> TRUE] : fd \in hup}
                  \cup {[fd |-> fd, hup |-> FALSE] : fd \in in \cup new}
  /\ batch' # {}
  /\ edge' = [c \in Conns |->
                edge[c] /\ c \notin {fdTable[fd] : fd \in ReadyFds}]
  /\ listenEdge' = FALSE
  /\ GoTo("epoll", "dispatch")
  /\ UNCHANGED <<clientVars, inbox, backlog, fdTable, watched, at, buf, tasks,
                 usrNum, limitVars>>

Dispatch(event) ==
  /\ pc["epoll"] = "dispatch"
  /\ event \in batch
  /\ batch' = batch \ {event}
  /\ MoveTo("epoll", IF event.hup THEN "close"
                     ELSE IF event.fd = Listener THEN "accept" ELSE "read",
            event.fd)
  /\ buf' = "NONE"
  /\ UNCHANGED <<clientVars, inbox, kernelVars, tasks, usrNum, limitVars>>

DispatchDone ==
  /\ pc["epoll"] = "dispatch"
  /\ batch = {}
  /\ GoTo("epoll", "wait")
  /\ UNCHANGED <<clientVars, inbox, kernelVars, at, batch, buf, tasks,
                 usrNum, limitVars>>

\* accept returns the lowest free descriptor
Accept ==
  /\ pc["epoll"] = "accept"
  /\ backlog # <<>> /\ FreeFds # {}
  /\ fdTable' = [fdTable EXCEPT ![Min(FreeFds)] = Head(backlog)]
  /\ backlog' = Tail(backlog)
  /\ MoveTo("epoll", "add", Min(FreeFds))
  /\ UNCHANGED <<clientVars, inbox, watched, edge, listenEdge, batch, buf,
                 tasks, usrNum, limitVars>>

\* a slip: one connection for each event
AddOnce ==
  LET fd == at["epoll"]
      c  == fdTable[fd]
  IN  /\ pc["epoll"] = "add"
      /\ IsOpen(fd)
      /\ watched' = watched \cup {c}
      /\ edge' = [edge EXCEPT ![c] = Readable(c)]
      /\ usrNum' = usrNum + 1
      /\ GoTo("epoll", "dispatch")
      /\ UNCHANGED <<clientVars, inbox, backlog, fdTable, listenEdge, at,
                     batch, buf, tasks, limitVars>>
\* nothing to accept, or accept failed: no descriptor is left
AcceptDone ==
  /\ pc["epoll"] = "accept"
  /\ backlog = <<>> \/ FreeFds = {}
  /\ refused' = (backlog # <<>>)
  /\ GoTo("epoll", "dispatch")
  /\ UNCHANGED <<clientVars, inbox, kernelVars, at, batch, buf, tasks, usrNum,
                 limit, vain>>

\* a slip: only what arrives from now on is an edge
AddWithoutEdge ==
  LET fd == at["epoll"]
      c  == fdTable[fd]
  IN  /\ pc["epoll"] = "add"
      /\ IsOpen(fd)
      /\ watched' = watched \cup {c}
      /\ edge' = [edge EXCEPT ![c] = FALSE]
      /\ usrNum' = usrNum + 1
      /\ GoTo("epoll", "accept")
      /\ UNCHANGED <<clientVars, inbox, backlog, fdTable, listenEdge, at,
                     batch, buf, tasks, limitVars>>
\* setClientSocket and addEpollEvent: what already arrived raises an edge
Add ==
  LET fd == at["epoll"]
      c  == fdTable[fd]
  IN  /\ pc["epoll"] = "add"
      /\ IsOpen(fd)
      /\ watched' = watched \cup {c}
      /\ edge' = [edge EXCEPT ![c] = Readable(c)]
      /\ usrNum' = usrNum + 1
      /\ GoTo("epoll", "accept")
      /\ UNCHANGED <<clientVars, inbox, backlog, fdTable, listenEdge, at,
                     batch, buf, tasks, limitVars>>

\* another thread has closed the descriptor: the calls fail and the server
\* exits
AddFails ==
  /\ pc["epoll"] = "add"
  /\ ~IsOpen(at["epoll"])
  /\ pc' = [t \in Threads |-> "exited"]
  /\ UNCHANGED <<clientVars, inbox, kernelVars, at, batch, buf, tasks,
                 usrNum, limitVars>>

\* one read of the loop; it overwrites what the read before it returned
ReadPacket ==
  LET c == fdTable[at["epoll"]]
  IN  /\ pc["epoll"] = "read"
      /\ IsOpen(at["epoll"])
      /\ inbox[c] # <<>>
      /\ buf' = Head(inbox[c])
      /\ inbox' = [inbox EXCEPT ![c] = Tail(@)]
      /\ UNCHANGED <<clientVars, kernelVars, pc, at, batch, tasks,
                     usrNum, limitVars>>

\* a slip: one read and no more
ReadDoneEarly ==
  LET fd == at["epoll"]
  IN  /\ pc["epoll"] = "read"
      /\ IsOpen(fd)
      /\ buf # "NONE"
      /\ tasks' = IF buf = "REQUEST"
                    THEN tasks \cup {[conn |-> fdTable[fd], fd |-> fd]}
                    ELSE tasks
      /\ GoTo("epoll", "dispatch")
      /\ UNCHANGED <<clientVars, inbox, kernelVars, at, batch, buf,
                     usrNum, limitVars>>
\* EAGAIN ends the loop and buf is passed on.  If no read filled it, it holds
\* what the stack held: any packet.
ReadDone ==
  LET fd == at["epoll"]
  IN  /\ pc["epoll"] = "read"
      /\ IsOpen(fd)
      /\ inbox[fdTable[fd]] = <<>> /\ peer[fdTable[fd]] = "up"
      /\ \E type \in IF buf = "NONE" THEN Types ELSE {buf} :
           tasks' = IF type = "REQUEST"
                      THEN tasks \cup {[conn |-> fdTable[fd], fd |-> fd]}
                      ELSE tasks
      /\ GoTo("epoll", "dispatch")
      /\ UNCHANGED <<clientVars, inbox, kernelVars, at, batch, buf,
                     usrNum, limitVars>>

\* a slip: EAGAIN is taken for an error
ReadFailsOnEagain ==
  LET fd == at["epoll"]
  IN  /\ pc["epoll"] = "read"
      /\ IsOpen(fd) => inbox[fdTable[fd]] = <<>>
      /\ GoTo("epoll", "close")
      /\ UNCHANGED <<clientVars, inbox, kernelVars, at, batch, buf, tasks,
                     usrNum, limitVars>>
\* a slip: no return after the connection is deleted
ReadFailsNoReturn ==
  LET fd == at["epoll"]
  IN  /\ pc["epoll"] = "read"
      /\ IsOpen(fd) => inbox[fdTable[fd]] = <<>> /\ peer[fdTable[fd]] # "up"
      /\ tasks' = tasks \cup {[conn |-> fdTable[fd], fd |-> fd]}
      /\ GoTo("epoll", "close")
      /\ UNCHANGED <<clientVars, inbox, kernelVars, at, batch, buf,
                     usrNum, limitVars>>
\* end of file, a reset, or a descriptor that is no longer open
ReadFails ==
  LET fd == at["epoll"]
  IN  /\ pc["epoll"] = "read"
      /\ IsOpen(fd) => inbox[fdTable[fd]] = <<>> /\ peer[fdTable[fd]] # "up"
      /\ peer' = [c \in Conns |-> IF c = fdTable[fd] THEN Told(c) ELSE peer[c]]
      /\ GoTo("epoll", "close")
      /\ UNCHANGED <<awaiting, patient, inbox, kernelVars, at, batch, buf,
                     tasks, usrNum, limitVars>>

EpollGoesOn ==
  \/ EpollWait \/ (\E event \in batch : Dispatch(event)) \/ DispatchDone
  \/ Accept \/ AcceptDone \/ Add \/ AddFails
  \/ ReadPacket \/ ReadFails
  \/ Delete("epoll")
EpollStep == EpollGoesOn \/ ReadDone

-----------------------------------------------------------------------------
(* A worker: processRequestPkt                                             *)

\* a slip: the task is not taken off the ring
AnswerTwice(w, task) ==
  LET c == fdTable[task.fd]
  IN  /\ pc[w] = "idle"
      /\ task \in tasks
      /\ IsOpen(task.fd) /\ peer[c] = "up"
      /\ awaiting' = awaiting \ {c}
      /\ UNCHANGED <<peer, patient, inbox, kernelVars, pc, at, batch, buf,
                     tasks, usrNum, limitVars>>
\* Whoever the descriptor belongs to now gets the answer.  The first write
\* after the peer's FIN still succeeds and is answered with a reset.
Answer(w, task) ==
  LET c == fdTable[task.fd]
  IN  /\ pc[w] = "idle"
      /\ task \in tasks
      /\ IsOpen(task.fd) /\ peer[c] \in {"up", "fin"}
      /\ tasks' = tasks \ {task}
      /\ awaiting' = awaiting \ {c}
      /\ peer' = [peer EXCEPT ![c] = IF @ = "fin" THEN "gone" ELSE @]
      /\ edge' = [edge EXCEPT ![c] = @ \/ peer[c] = "fin"]
      /\ UNCHANGED <<patient, inbox, backlog, fdTable, watched, listenEdge,
                     pc, at, batch, buf, usrNum, limitVars>>

\* the descriptor is not open, or this write is told of the reset
AnswerFails(w, task) ==
  /\ pc[w] = "idle"
  /\ task \in tasks
  /\ IsOpen(task.fd) => peer[fdTable[task.fd]] = "rst"
  /\ tasks' = tasks \ {task}
  /\ peer' = [c \in Conns |->
                IF c = fdTable[task.fd] THEN Told(c) ELSE peer[c]]
  /\ MoveTo(w, "close", task.fd)
  /\ UNCHANGED <<awaiting, patient, inbox, kernelVars, batch, buf, usrNum,
                 limitVars>>

\* any later write raises SIGPIPE, which nothing handles: the server ends
BrokenPipe(w, task) ==
  /\ pc[w] = "idle"
  /\ task \in tasks
  /\ IsOpen(task.fd) /\ peer[fdTable[task.fd]] = "gone"
  /\ tasks' = tasks \ {task}
  /\ pc' = [t \in Threads |-> "exited"]
  /\ UNCHANGED <<clientVars, inbox, kernelVars, at, batch, buf, usrNum,
                 limitVars>>

Serve(w, task) == Answer(w, task) \/ AnswerFails(w, task) \/ BrokenPipe(w, task)

WorkerStep(w) == (\E task \in tasks : Serve(w, task)) \/ Delete(w)

-----------------------------------------------------------------------------
ClientStep(c) ==
  \/ Connect(c)
  \/ \E type \in Types : Send(c, type)
  \/ \E how \in {"fin", "rst"} : Leave(c, how)

Next ==
  \/ \E c \in Conns : ClientStep(c)
  \/ EpollStep
  \/ \E w \in Workers : WorkerStep(w)

Spec == Init /\ [][Next]_vars

\* The epoll thread goes on, and a worker with a deletion.  Nothing is assumed
\* of the hand-over between them, which can fail (Pipeline): the epoll thread
\* may wait for ever to push what it has read (ReadDone, server.c:379), and a
\* worker for a task that is in its ring (Serve, server.c:420).
FairSpec ==
  /\ Spec
  /\ WF_vars(EpollGoesOn)
  /\ \A w \in Workers : WF_vars(Delete(w))

-----------------------------------------------------------------------------
(* Properties                                                              *)

TypeOK ==
  /\ peer \in [Conns -> {"new", "up", "fin", "rst", "gone"}]
  /\ inbox \in [Conns -> Seq(Types)]
  /\ awaiting \in SUBSET Conns /\ patient \in BOOLEAN
  /\ backlog \in Seq(Conns)
  /\ fdTable \in [Fds -> Conns \cup {NoConn}]
  /\ watched \in SUBSET OpenConns
  /\ edge \in [Conns -> BOOLEAN]
  /\ listenEdge \in BOOLEAN
  /\ pc \in [Threads -> {"wait", "dispatch", "accept", "add", "read", "close",
                         "ctl", "decr", "exited", "idle"}]
  /\ at \in [Threads -> Fds \cup {Listener}]
  /\ batch \in SUBSET [fd : Fds \cup {Listener}, hup : BOOLEAN]
  /\ buf \in Types \cup {"NONE"}
  /\ tasks \in SUBSET [conn : Conns, fd : Fds]
  /\ usrNum \in Int
  /\ limit \in Fds /\ refused \in BOOLEAN /\ vain \in Nat

(* While clients leave only when nothing is owed to them, descriptors are   *)
(* used right although they are reused.                                     *)

\* An answer is written to the connection that asked, while it still waits
\* (processRequestPkt knows only the descriptor).
AnswersReachSender ==
  [][\A w \in Workers, task \in tasks :
       patient /\ Answer(w, task) =>
         fdTable[task.fd] = task.conn /\ task.conn \in awaiting]_vars

\* The server closes a connection only after its client has left.
ClosesOnlyGone ==
  [][\A fd \in Fds :
       patient /\ IsOpen(fd) /\ fdTable'[fd] = NoConn
         => peer[fdTable[fd]] # "up"]_vars

\* Every request is answered: the edge that reports it is not lost, and no
\* later read overwrites it (processEPOLLIN).  Two exceptions.  accept has left
\* the connection in the backlog.  Or the request has been handed to a worker,
\* who never takes it from its ring: the lost wake-up of server.c:419-420, which
\* Pipeline models and AnsweredUnlessMissed delimits.  The epoll thread must
\* leave processEPOLLIN again and again: its loop catches up with its client,
\* who sends one packet an epoch, seconds long, and does not wait for ever for
\* room in a ring (server.c:379, StandstillHasCause of Pipeline).
ReaderCatchesUp == []<>(pc["epoll"] # "read")
EveryRequestAnswered ==
  patient /\ ReaderCatchesUp
    => \A c \in Conns :
         c \in awaiting ~>
           \/ c \notin awaiting
           \/ refused /\ InBacklog(c)
           \/ [](\E task \in tasks : task.conn = c)

\* What EveryRequestAnswered rests on, moment by moment: nothing that arrived
\* is overlooked, although events are reported on edges only and a read
\* overwrites what the read before it returned (server.c:355-374).  An open
\* connection with something to read is about to be reported, has been, or is
\* being added, read or closed; and the request of a client that waits is the
\* last packet in its socket, or in buf, or with a worker.
Noticed(c) ==
  \/ c \in watched /\ edge[c]
  \/ \E event \in batch : event.fd \in Fds /\ fdTable[event.fd] = c
  \/ pc["epoll"] \in {"add", "read", "close"} /\ fdTable[at["epoll"]] = c
RequestUnderWay(c) ==
  \/ inbox[c] # <<>> /\ Last(inbox[c]) = "REQUEST"
  \/ pc["epoll"] = "read" /\ fdTable[at["epoll"]] = c /\ buf = "REQUEST"
  \/ \E task \in tasks : task.conn = c
NothingOverlooked ==
  patient => \A c \in Conns :
    /\ c \in OpenConns /\ Readable(c) => Noticed(c)
    /\ c \in awaiting => RequestUnderWay(c)

\* No client that leaves makes the server end: not by a write to a connection
\* that is gone (SIGPIPE), nor by closing a descriptor that has been accepted
\* and not yet added.
ServerStaysUp == patient => Running

(* Whenever clients leave, also with requests of theirs in the rings.       *)

\* server.c:98, 108 log usr_num as the users online.  It is the number of open
\* connections and the listening socket, but for the one that is being added
\* and those that are closed and not yet subtracted; less one for each deletion
\* in vain, of a number that another thread had closed already: the count then
\* stays too low for good.  Only a client that leaves while it is owed an answer
\* can bring that about.
Uncounting == {t \in Threads : pc[t] \in {"ctl", "decr"}}
UsrNumAccounted ==
  /\ Running =>
       usrNum = 1 + Cardinality(OpenConns) + Cardinality(Uncounting)
                  - (IF pc["epoll"] = "add" THEN 1 ELSE 0) - vain
  /\ patient => vain = 0

\* server.c:297: the loop has "processed all incomming connectings" when it
\* ends.  So a connection in the backlog is on its way to be accepted, however
\* late it came, or accept has failed for want of a descriptor; then it waits
\* for the next one to come, since the listening socket reports edges only.
NewcomersNoticed ==
  Running /\ backlog # <<>> =>
    \/ listenEdge \/ [fd |-> Listener, hup |-> FALSE] \in batch
    \/ pc["epoll"] \in {"accept", "add"}
    \/ refused

-----------------------------------------------------------------------------
(* What a comment says, and the code does not do                           *)

\* server.c:312-313: an accepted connection is added "to the list of fds to
\* monitor"; it stays there while it is open.  It does not when the
\* EPOLL_CTL_DEL of a deletion comes late.
AllMonitored ==
  \A fd \in Fds :
    IsOpen(fd) /\ ~(pc["epoll"] \in {"add", "exited"} /\ at["epoll"] = fd)
      => fdTable[fd] \in watched
=============================================================================

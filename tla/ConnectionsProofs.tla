-------------------------- MODULE ConnectionsProofs --------------------------
(***************************************************************************)
(* The server's connections, for every set of clients and workers, table   *)
(* of descriptors and limit on them.                                       *)
(***************************************************************************)
EXTENDS Connections, FiniteSetTheorems, WellFoundedInduction, TLAPS

-----------------------------------------------------------------------------
(* Descriptors                                                             *)

\* A set of numbers has a smallest one.
LEMMA Smallest ==
  ASSUME NEW S, S \subseteq Nat, S # {}
  PROVE  Min(S) \in S
  <1>1. PICK n \in S : \A m \in S : ~(<<m, n>> \in OpToRel(<, Nat))
    BY NatLessThanWellFounded, WFMin
  <1>2. \A m \in S : ~(m < n)
    BY <1>1 DEF OpToRel
  <1>3. \E x \in S : \A y \in S : x =< y
    BY <1>2
  <1>4. QED
    BY <1>3, Zenon DEF Min

\* accept's choice: there is a lowest free descriptor if there is a free one.
LEMMA LowestFree ==
  ASSUME limit \in Fds, FreeFds # {}
  PROVE  Min(FreeFds) \in Fds /\ ~IsOpen(Min(FreeFds))
  <1>1. FreeFds \subseteq Nat /\ FreeFds \subseteq Fds
    BY MaxFdAssumption DEF FreeFds, Fds
  <1>2. Min(FreeFds) \in FreeFds
    BY <1>1, Smallest
  <1>3. QED
    BY <1>1, <1>2 DEF FreeFds

-----------------------------------------------------------------------------
(* Typing                                                                  *)

\* A thread that handles a descriptor has one, an event of a reset is of one,
\* and epoll_wait is called when no event is left.
Handling == {"add", "read", "close", "ctl", "decr"}
PlaceInv ==
  /\ \A t \in Threads : pc[t] \in Handling => at[t] \in Fds
  /\ \A event \in batch : event.hup => event.fd \in Fds
  /\ pc["epoll"] = "wait" => batch = {}
TypeInv == TypeOK /\ PlaceInv

LEMMA OpenConn ==
  ASSUME TypeOK, NEW fd \in Fds, IsOpen(fd)
  PROVE  fdTable[fd] \in Conns /\ fdTable[fd] \in OpenConns
  BY DEF TypeOK, IsOpen, OpenConns

LEMMA ConnectionsTypeInit == Init => TypeInv
  <1> SUFFICES ASSUME Init PROVE TypeInv
    OBVIOUS
  <1>1. PlaceInv
    BY DEF Init, PlaceInv, Handling
  <1>2. /\ pc \in [Threads -> {"wait", "dispatch", "accept", "add", "read",
                               "close", "ctl", "decr", "exited", "idle"}]
        /\ at \in [Threads -> Fds \cup {Listener}]
    BY DEF Init
  <1>3. inbox \in [Conns -> Seq(Types)] /\ backlog \in Seq(Conns)
    BY DEF Init
  <1>4. fdTable \in [Fds -> Conns \cup {NoConn}] /\ usrNum \in Int
    BY DEF Init
  <1>5. /\ peer \in [Conns -> {"new", "up", "fin", "rst", "gone"}]
        /\ edge \in [Conns -> BOOLEAN] /\ listenEdge \in BOOLEAN
        /\ limit \in Fds /\ refused \in BOOLEAN /\ patient \in BOOLEAN
        /\ vain \in Nat
    BY DEF Init
  <1>6. /\ awaiting = {} /\ watched = {} /\ batch = {} /\ tasks = {}
        /\ buf = "NONE"
    BY DEF Init
  <1>7. QED
    BY <1>1, <1>2, <1>3, <1>4, <1>5, <1>6 DEF TypeInv, TypeOK

LEMMA ConnectionsTypeStep == TypeInv /\ [Next]_vars => TypeInv'
  <1> SUFFICES ASSUME TypeInv, [Next]_vars
               PROVE  TypeInv'
    OBVIOUS
  <1> USE DEF TypeInv, TypeOK, PlaceInv, clientVars, kernelVars, limitVars,
              GoTo, MoveTo
  <1>0. "epoll" \in Threads /\ Workers \subseteq Threads /\ Listener \notin Fds
    BY DEF Threads, Listener, Fds
  <1>open. ASSUME UNCHANGED fdTable
           PROVE  OpenConns' = OpenConns
    BY <1>open DEF OpenConns, IsOpen
  <1>1. ASSUME NEW c \in Conns, Connect(c)
        PROVE  TypeInv'
    BY <1>1, <1>open DEF Connect
  <1>2. ASSUME NEW c \in Conns, NEW type \in Types, Send(c, type)
        PROVE  TypeInv'
    BY <1>2, <1>open DEF Send
  <1>3. ASSUME NEW c \in Conns, NEW how \in {"fin", "rst"}, Leave(c, how)
        PROVE  TypeInv'
    BY <1>3, <1>open DEF Leave
  <1>4. ASSUME NEW t \in Threads, DeleteClose(t)
        PROVE  TypeInv'
    <2>1. watched' \in SUBSET OpenConns'
      BY <1>4 DEF DeleteClose, OpenConns, IsOpen
    <2>2. QED
      BY <1>4, <2>1 DEF DeleteClose, Handling
  <1>5. ASSUME NEW t \in Threads, DeleteCtl(t)
        PROVE  TypeInv'
    BY <1>5, <1>open DEF DeleteCtl, Handling
  <1>6. ASSUME NEW t \in Threads, DeleteDecr(t)
        PROVE  TypeInv'
    BY <1>6, <1>open DEF DeleteDecr, Handling
  <1>7. CASE EpollWait
    <2>1. ReadyFds \subseteq Fds
      BY DEF ReadyFds
    <2>2. \A event \in batch' : \E fd \in Fds \cup {Listener}, hup \in BOOLEAN :
            event = [fd |-> fd, hup |-> hup] /\ (hup => fd \in Fds)
      BY <1>7, <2>1 DEF EpollWait
    <2>3. /\ batch' \in SUBSET [fd : Fds \cup {Listener}, hup : BOOLEAN]
          /\ \A event \in batch' : event.hup => event.fd \in Fds
      BY <2>2
    <2>4. edge' \in [Conns -> BOOLEAN]
      BY <1>7 DEF EpollWait
    <2>5. QED
      BY <1>0, <1>7, <1>open, <2>4, <2>3 DEF EpollWait, Handling
  <1>8. ASSUME NEW event \in batch, Dispatch(event)
        PROVE  TypeInv'
    BY <1>0, <1>8, <1>open DEF Dispatch, Handling
  <1>9. CASE DispatchDone \/ AcceptDone
    BY <1>0, <1>9, <1>open DEF DispatchDone, AcceptDone, Handling
  <1>10. CASE Accept
    <2>1. Min(FreeFds) \in Fds /\ ~IsOpen(Min(FreeFds))
      BY <1>10, LowestFree DEF Accept
    <2>2. Head(backlog) \in Conns /\ Tail(backlog) \in Seq(Conns)
      BY <1>10 DEF Accept
    <2>3. watched' \in SUBSET OpenConns'
      BY <1>10, <2>1, <2>2, NoConnAssumption DEF Accept, OpenConns, IsOpen
    <2>4. QED
      BY <1>0, <1>10, <2>1, <2>2, <2>3 DEF Accept, Handling
  <1>11. CASE Add
    <2>1. fdTable[at["epoll"]] \in Conns /\ fdTable[at["epoll"]] \in OpenConns
      BY <1>0, <1>11, OpenConn DEF Add, Handling
    <2>2. Readable(fdTable[at["epoll"]]) \in BOOLEAN
      BY DEF Readable
    <2>3. QED
      BY <1>0, <1>11, <1>open, <2>1, <2>2 DEF Add, Handling
  <1>12. ASSUME AddFails
                \/ \E w \in Workers, task \in tasks : BrokenPipe(w, task)
         PROVE  TypeInv'
    BY <1>0, <1>12, <1>open DEF AddFails, BrokenPipe, Handling
  <1>13. CASE ReadPacket
    <2>1. fdTable[at["epoll"]] \in Conns
      BY <1>0, <1>13, OpenConn DEF ReadPacket, Handling
    <2>2. QED
      BY <1>0, <1>13, <1>open, <2>1 DEF ReadPacket, Handling
  <1>14. CASE ReadDone
    <2>1. fdTable[at["epoll"]] \in Conns /\ at["epoll"] \in Fds
      BY <1>0, <1>14, OpenConn DEF ReadDone, Handling
    <2>2. QED
      BY <1>0, <1>14, <1>open, <2>1 DEF ReadDone, Handling
  <1>15. CASE ReadFails
    BY <1>0, <1>15, <1>open DEF ReadFails, Handling, Told
  <1>16. ASSUME NEW w \in Workers, NEW task \in tasks, Answer(w, task)
         PROVE  TypeInv'
    BY <1>0, <1>16, <1>open DEF Answer
  <1>17. ASSUME NEW w \in Workers, NEW task \in tasks, AnswerFails(w, task)
         PROVE  TypeInv'
    BY <1>0, <1>17, <1>open, EpollAssumption DEF AnswerFails, Handling, Told
  <1>18. CASE UNCHANGED vars
    BY <1>18, <1>open DEF vars
  <1>19. QED
    BY <1>0, <1>1, <1>2, <1>3, <1>4, <1>5, <1>6, <1>7, <1>8, <1>9, <1>10,
       <1>11, <1>12, <1>13, <1>14, <1>15, <1>16, <1>17, <1>18
       DEF Next, ClientStep, EpollStep, EpollGoesOn, WorkerStep, Serve, Delete

\* Every variable keeps its type, a descriptor that is handled is one, and only
\* open connections are watched.
THEOREM ConnectionsTyping == Spec => []TypeOK
  <1>1. Spec => []TypeInv
    BY ConnectionsTypeInit, ConnectionsTypeStep, PTL DEF Spec
  <1>2. QED
    BY <1>1, PTL DEF TypeInv

-----------------------------------------------------------------------------
(* Newcomers                                                               *)

LEMMA NoticeStep ==
  TypeInv /\ NewcomersNoticed /\ [Next]_vars => NewcomersNoticed'
  <1> SUFFICES ASSUME TypeInv, NewcomersNoticed, [Next]_vars
               PROVE  NewcomersNoticed'
    OBVIOUS
  <1> USE DEF NewcomersNoticed, Running, clientVars, kernelVars, limitVars,
              GoTo, MoveTo
  <1>0. /\ "epoll" \in Threads /\ Workers \subseteq Threads
        /\ pc \in [Threads -> {"wait", "dispatch", "accept", "add", "read",
                               "close", "ctl", "decr", "exited", "idle"}]
        /\ "epoll" \notin Workers /\ backlog \in Seq(Conns)
    BY EpollAssumption DEF Threads, TypeInv, TypeOK
  <1>1. ASSUME NEW c \in Conns, ClientStep(c)
        PROVE  NewcomersNoticed'
    BY <1>1 DEF ClientStep, Connect, Send, Leave
  <1>2. ASSUME NEW t \in Threads, Delete(t)
        PROVE  NewcomersNoticed'
    BY <1>0, <1>2 DEF Delete, DeleteClose, DeleteCtl, DeleteDecr
  <1>3. CASE EpollWait
    BY <1>0, <1>3 DEF EpollWait, TypeInv, PlaceInv
  <1>4. ASSUME NEW event \in batch, Dispatch(event)
        PROVE  NewcomersNoticed'
    BY <1>0, <1>4 DEF Dispatch
  <1>5. CASE DispatchDone \/ Accept \/ AcceptDone \/ Add \/ AddFails
    BY <1>0, <1>5 DEF DispatchDone, Accept, AcceptDone, Add, AddFails
  <1>6. CASE ReadPacket \/ ReadDone \/ ReadFails
    BY <1>0, <1>6 DEF ReadPacket, ReadDone, ReadFails
  <1>7. ASSUME NEW w \in Workers, NEW task \in tasks, Serve(w, task)
        PROVE  NewcomersNoticed'
    BY <1>0, <1>7 DEF Serve, Answer, AnswerFails, BrokenPipe
  <1>8. CASE UNCHANGED vars
    BY <1>8 DEF vars
  <1>9. QED
    BY <1>0, <1>1, <1>2, <1>3, <1>4, <1>5, <1>6, <1>7, <1>8
       DEF Next, EpollStep, EpollGoesOn, WorkerStep

\* A connection in the backlog is on its way to be accepted, however late it
\* came, unless accept has failed for want of a descriptor.
THEOREM BacklogIsNoticed == Spec => []NewcomersNoticed
  <1>1. Init => NewcomersNoticed
    BY DEF Init, NewcomersNoticed
  <1>2. QED
    BY <1>1, ConnectionsTypeInit, ConnectionsTypeStep, NoticeStep, PTL DEF Spec

-----------------------------------------------------------------------------
(* Each connection is in one place                                         *)

\* A client connects once.  So a connection is in the backlog once at most, or
\* behind one descriptor.
OnceInv ==
  /\ \A i, j \in DOMAIN backlog : backlog[i] = backlog[j] => i = j
  /\ \A fd, g \in Fds : IsOpen(fd) /\ fdTable[fd] = fdTable[g] => fd = g
  /\ \A i \in DOMAIN backlog, fd \in Fds : backlog[i] # fdTable[fd]
  /\ \A i \in DOMAIN backlog : peer[backlog[i]] # "new"
  /\ \A fd \in Fds : IsOpen(fd) => peer[fdTable[fd]] # "new"

LEMMA OnceStep == TypeInv /\ OnceInv /\ [Next]_vars => OnceInv'
  <1> SUFFICES ASSUME TypeInv, OnceInv, [Next]_vars
               PROVE  OnceInv'
    OBVIOUS
  <1> USE DEF OnceInv, IsOpen, clientVars, kernelVars, limitVars, GoTo, MoveTo
  <1>0. /\ backlog \in Seq(Conns) /\ fdTable \in [Fds -> Conns \cup {NoConn}]
        /\ peer \in [Conns -> {"new", "up", "fin", "rst", "gone"}]
        /\ \A fd \in Fds : IsOpen(fd) => fdTable[fd] \in Conns
    BY DEF TypeInv, TypeOK
  <1>1. ASSUME NEW c \in Conns, Connect(c)
        PROVE  OnceInv'
    <2>1. /\ Len(backlog') = Len(backlog) + 1
          /\ \A i \in DOMAIN backlog : backlog'[i] = backlog[i]
          /\ backlog'[Len(backlog) + 1] = c /\ backlog' \in Seq(Conns)
      BY <1>0, <1>1 DEF Connect
    <2>2. /\ \A i \in DOMAIN backlog : backlog[i] # c
          /\ \A fd \in Fds : fdTable[fd] # c
          /\ peer' = [peer EXCEPT ![c] = "up"] /\ fdTable' = fdTable
      BY <1>1, NoConnAssumption DEF Connect
    <2>3. QED
      BY <1>0, <2>1, <2>2
  <1>2. ASSUME NEW c \in Conns, NEW type \in Types, Send(c, type)
        PROVE  OnceInv'
    BY <1>2 DEF Send
  <1>3. ASSUME NEW c \in Conns, NEW how \in {"fin", "rst"}, Leave(c, how)
        PROVE  OnceInv'
    BY <1>0, <1>3 DEF Leave
  <1>4. ASSUME NEW t \in Threads, DeleteClose(t)
        PROVE  OnceInv'
    BY <1>0, <1>4, NoConnAssumption DEF DeleteClose
  <1>5. ASSUME NEW t \in Threads, DeleteCtl(t) \/ DeleteDecr(t)
        PROVE  OnceInv'
    BY <1>5 DEF DeleteCtl, DeleteDecr
  <1>6. CASE EpollWait \/ DispatchDone \/ AcceptDone \/ Add \/ AddFails
    BY <1>6 DEF EpollWait, DispatchDone, AcceptDone, Add, AddFails
  <1>7. ASSUME NEW event \in batch, Dispatch(event)
        PROVE  OnceInv'
    BY <1>7 DEF Dispatch
  <1>8. CASE Accept
    <2>1. Min(FreeFds) \in Fds /\ ~IsOpen(Min(FreeFds))
      BY <1>8, LowestFree DEF Accept, TypeInv, TypeOK
    <2>2. /\ Len(backlog) > 0 /\ Head(backlog) = backlog[1]
          /\ Len(backlog') = Len(backlog) - 1 /\ backlog' \in Seq(Conns)
          /\ \A i \in DOMAIN backlog' : backlog'[i] = backlog[i + 1]
      BY <1>0, <1>8 DEF Accept
    <2>3. fdTable' = [fdTable EXCEPT ![Min(FreeFds)] = backlog[1]]
          /\ peer' = peer
      BY <1>8, <2>2 DEF Accept
    <2>4. \A i \in DOMAIN backlog' :
            /\ i + 1 \in DOMAIN backlog /\ backlog'[i] = backlog[i + 1]
            /\ backlog'[i] # backlog[1]
      BY <1>0, <2>2
    <2>5. \A i, j \in DOMAIN backlog' : backlog'[i] = backlog'[j] => i = j
      <3> SUFFICES ASSUME NEW i \in DOMAIN backlog', NEW j \in DOMAIN backlog',
                          backlog'[i] = backlog'[j]
                   PROVE  i = j
        OBVIOUS
      <3>1. i + 1 = j + 1
        BY <2>4
      <3>2. QED
        BY <2>2, <3>1
    <2>6. 1 \in DOMAIN backlog
      BY <1>0, <2>2
    <2>7. QED
      BY <1>0, <2>1, <2>3, <2>4, <2>5, <2>6, NoConnAssumption
  <1>9. CASE ReadPacket \/ ReadDone
    BY <1>9 DEF ReadPacket, ReadDone
  <1>10. CASE ReadFails
    BY <1>0, <1>10 DEF ReadFails, Told
  <1>11. ASSUME NEW w \in Workers, NEW task \in tasks, Answer(w, task)
         PROVE  OnceInv'
    BY <1>0, <1>11 DEF Answer
  <1>12. ASSUME NEW w \in Workers, NEW task \in tasks, AnswerFails(w, task)
         PROVE  OnceInv'
    BY <1>0, <1>12 DEF AnswerFails, Told
  <1>13. ASSUME NEW w \in Workers, NEW task \in tasks, BrokenPipe(w, task)
         PROVE  OnceInv'
    BY <1>13 DEF BrokenPipe
  <1>14. CASE UNCHANGED vars
    BY <1>14 DEF vars
  <1>15. QED
    BY <1>1, <1>2, <1>3, <1>4, <1>5, <1>6, <1>7, <1>8, <1>9, <1>10, <1>11,
       <1>12, <1>13, <1>14
       DEF Next, ClientStep, EpollStep, EpollGoesOn, WorkerStep, Serve, Delete,
           Threads

\* At the start there is no connection anywhere.
LEMMA OnceInit == Init => OnceInv
  BY DEF Init, OnceInv, IsOpen

-----------------------------------------------------------------------------
(* Patient clients: descriptors are used right                             *)

\* An event is of an open connection that has something to read, and no event
\* is left of the one that is at hand.
EventInv ==
  /\ \A event \in batch : event.fd # Listener =>
       /\ IsOpen(event.fd) /\ Readable(fdTable[event.fd])
       /\ event.hup => peer[fdTable[event.fd]] \in {"rst", "gone"}
       /\ pc["epoll"] \in {"read", "close"} => event.fd # at["epoll"]
  /\ \A event, other \in batch : event.fd = other.fd => event = other

\* The connection at hand is open until it is closed, and is closed only when
\* its client has left.
HandledInv ==
  LET fd == at["epoll"] IN
  /\ pc["epoll"] = "add" => IsOpen(fd)
  /\ pc["epoll"] = "read" =>
       IsOpen(fd) /\ (buf = "NONE" => Readable(fdTable[fd]))
  /\ pc["epoll"] = "close" => IsOpen(fd) /\ peer[fdTable[fd]] # "up"
  /\ pc["epoll"] = "ctl" => ~IsOpen(fd)

\* A client that waits is there, and its request is in one place: the last
\* packet in its socket, the buffer, or a task that names it.
AwaitedInv ==
  /\ \A c \in awaiting : peer[c] = "up"
  /\ \A c \in Conns : \A i \in DOMAIN inbox[c] :
       inbox[c][i] = "REQUEST" => i = Len(inbox[c]) /\ c \in awaiting
  /\ pc["epoll"] = "read" /\ buf = "REQUEST" =>
       LET c == fdTable[at["epoll"]] IN c \in awaiting /\ inbox[c] = <<>>
  /\ \A task \in tasks :
       /\ fdTable[task.fd] = task.conn /\ task.conn \in awaiting
       /\ inbox[task.conn] = <<>>
       /\ ~(pc["epoll"] = "read" /\ at["epoll"] = task.fd)

\* No worker ever deletes a connection.
WorkersAnswer == \A w \in Workers : pc[w] = "idle"

PatientInv ==
  patient => Running /\ WorkersAnswer /\ EventInv /\ HandledInv /\ AwaitedInv

\* What the proofs below use of the steps before.
ConnInv == TypeInv /\ OnceInv /\ PatientInv

Threading ==
  /\ "epoll" \in Threads /\ "epoll" \notin Workers
  /\ Workers \subseteq Threads /\ Listener \notin Fds
  /\ pc \in [Threads -> {"wait", "dispatch", "accept", "add", "read", "close",
                         "ctl", "decr", "exited", "idle"}]
  /\ at \in [Threads -> Fds \cup {Listener}]

LEMMA ThreadingHolds == TypeOK => Threading
  BY EpollAssumption DEF TypeOK, Threading, Threads, Listener, Fds

\* The steps that patient clients leave: no write fails, and what is accepted
\* is still open when it is added.
QuietNext ==
  \/ \E c \in Conns : ClientStep(c)
  \/ EpollWait \/ (\E event \in batch : Dispatch(event)) \/ DispatchDone
  \/ Accept \/ AcceptDone \/ Add
  \/ ReadPacket \/ ReadDone \/ ReadFails
  \/ Delete("epoll")
  \/ \E w \in Workers, task \in tasks : Answer(w, task)

LEMMA QuietSteps ==
  ASSUME ConnInv, patient, Next
  PROVE  QuietNext
  <1>1. ASSUME NEW w \in Workers, Delete(w)
        PROVE  FALSE
    BY <1>1 DEF Delete, DeleteClose, DeleteCtl, DeleteDecr, ConnInv,
       PatientInv, WorkersAnswer
  <1>2. ASSUME NEW w \in Workers, NEW task \in tasks,
               AnswerFails(w, task) \/ BrokenPipe(w, task)
        PROVE  FALSE
    <2>1. /\ fdTable[task.fd] = task.conn /\ task.conn \in awaiting
          /\ peer[task.conn] = "up" /\ task.conn \in Conns
      BY DEF ConnInv, PatientInv, AwaitedInv, TypeInv, TypeOK
    <2>2. QED
      BY <1>2, <2>1, NoConnAssumption DEF AnswerFails, BrokenPipe, IsOpen
  <1>3. ~AddFails
    BY DEF AddFails, ConnInv, PatientInv, HandledInv
  <1>4. QED
    BY <1>1, <1>2, <1>3
       DEF Next, QuietNext, EpollStep, EpollGoesOn, WorkerStep, Serve

LEMMA PatientStays == [Next]_vars => patient' = patient
  BY DEF Next, vars, clientVars, ClientStep, Connect, Send, Leave, EpollStep,
     EpollGoesOn, EpollWait, Dispatch, DispatchDone, Accept, AcceptDone, Add, AddFails,
     ReadPacket, ReadDone, ReadFails, WorkerStep, Delete, DeleteClose,
     DeleteCtl, DeleteDecr, Serve, Answer, AnswerFails, BrokenPipe

LEMMA ThreadsStep ==
  ASSUME ConnInv, patient, QuietNext
  PROVE  Running' /\ WorkersAnswer'
  <1>1. Threading /\ Running /\ WorkersAnswer
    BY ThreadingHolds DEF ConnInv, TypeInv, PatientInv
  <1>2. pc' = pc \/ \E p \in {"wait", "dispatch", "accept", "add", "read",
                              "close", "ctl", "decr"} :
                       pc' = [pc EXCEPT !["epoll"] = p]
    BY DEF QuietNext, ClientStep, Connect, Send, Leave, EpollWait, Dispatch,
       DispatchDone, Accept, AcceptDone, Add, ReadPacket, ReadDone, ReadFails,
       Delete, DeleteClose, DeleteCtl, DeleteDecr, Answer, GoTo, MoveTo
  <1>3. QED
    BY <1>1, <1>2 DEF Threading, Running, WorkersAnswer

\* What is open and can be read stays so until the epoll thread handles it.
LEMMA EventStep ==
  ASSUME ConnInv, patient, QuietNext
  PROVE  EventInv'
  <1> USE DEF EventInv, IsOpen, clientVars, kernelVars, limitVars, GoTo, MoveTo
  <1>1. /\ Threading /\ EventInv /\ HandledInv /\ AwaitedInv /\ WorkersAnswer
        /\ fdTable \in [Fds -> Conns \cup {NoConn}]
        /\ peer \in [Conns -> {"new", "up", "fin", "rst", "gone"}]
        /\ inbox \in [Conns -> Seq(Types)]
        /\ tasks \in SUBSET [conn : Conns, fd : Fds]
        /\ batch \in SUBSET [fd : Fds \cup {Listener}, hup : BOOLEAN]
    BY ThreadingHolds DEF ConnInv, TypeInv, TypeOK, PatientInv
  <1>2. \A fd \in Fds : IsOpen(fd) => fdTable[fd] \in Conns
    BY <1>1
  <1>3. pc["epoll"] \in Handling => at["epoll"] \in Fds
    BY <1>1 DEF ConnInv, TypeInv, PlaceInv, Threading
  <1>4. ASSUME NEW c \in Conns, Connect(c)
        PROVE  EventInv'
    BY <1>1, <1>2, <1>4 DEF Connect, Readable, ConnInv, OnceInv
  <1>5. ASSUME NEW c \in Conns, NEW type \in Types, Send(c, type)
        PROVE  EventInv'
    BY <1>1, <1>2, <1>5 DEF Send, Readable
  <1>6. ASSUME NEW c \in Conns, NEW how \in {"fin", "rst"}, Leave(c, how)
        PROVE  EventInv'
    BY <1>1, <1>2, <1>6 DEF Leave, Readable
  <1>7. CASE EpollWait
    <2>1. \A fd \in ReadyFds : fd \in Fds /\ IsOpen(fd) /\ Readable(fdTable[fd])
      BY NoConnAssumption
         DEF ReadyFds, ConnInv, TypeInv, TypeOK, OpenConns
    <2> DEFINE Reset(fd) == peer[fdTable[fd]] \in {"rst", "gone"}
    <2>2. \A event \in batch' : \E fd \in ReadyFds \cup {Listener} :
            \/ event = [fd |-> fd, hup |-> TRUE] /\ fd # Listener /\ Reset(fd)
            \/ /\ event = [fd |-> fd, hup |-> FALSE]
               /\ fd = Listener \/ ~Reset(fd)
      <3>1. batch' \subseteq
              {[fd |-> fd, hup |-> TRUE] : fd \in {g \in ReadyFds : Reset(g)}}
              \cup {[fd |-> fd, hup |-> FALSE] :
                      fd \in (ReadyFds \ {g \in ReadyFds : Reset(g)})
                             \cup {Listener}}
        BY <1>7 DEF EpollWait
      <3>2. Listener \notin ReadyFds
        BY <1>1, <2>1 DEF Threading
      <3> HIDE DEF Reset
      <3>3. QED
        BY <3>1, <3>2
    <2>3. \A event, other \in batch' : event.fd = other.fd => event = other
      <3> SUFFICES ASSUME NEW event \in batch', NEW other \in batch',
                          event.fd = other.fd
                   PROVE  event = other
        OBVIOUS
      <3> HIDE DEF Reset
      <3>1. PICK fd : \/ /\ event = [fd |-> fd, hup |-> TRUE]
                         /\ fd # Listener /\ Reset(fd)
                      \/ /\ event = [fd |-> fd, hup |-> FALSE]
                         /\ fd = Listener \/ ~Reset(fd)
        BY <2>2
      <3>2. PICK g : \/ /\ other = [fd |-> g, hup |-> TRUE]
                        /\ g # Listener /\ Reset(g)
                     \/ /\ other = [fd |-> g, hup |-> FALSE]
                        /\ g = Listener \/ ~Reset(g)
        BY <2>2
      <3>3. fd = g
        BY <3>1, <3>2
      <3>4. QED
        BY <3>1, <3>2, <3>3
    <2>4. QED
      BY <1>1, <1>7, <2>1, <2>2, <2>3 DEF EpollWait, Readable, Threading
  <1>8. ASSUME NEW event \in batch, Dispatch(event)
        PROVE  EventInv'
    BY <1>1, <1>8 DEF Dispatch, Readable, Threading
  <1>9. CASE DispatchDone \/ AcceptDone \/ Add
    BY <1>1, <1>9 DEF DispatchDone, AcceptDone, Add, Readable, Threading
  <1>10. CASE Accept
    <2>1. Min(FreeFds) \in Fds /\ ~IsOpen(Min(FreeFds))
      BY <1>10, LowestFree DEF Accept, ConnInv, TypeInv, TypeOK
    <2>2. \A fd \in Fds : IsOpen(fd) => fdTable'[fd] = fdTable[fd]
      BY <1>1, <1>10, <2>1 DEF Accept
    <2>3. QED
      BY <1>1, <1>10, <2>2 DEF Accept, Readable, Threading
  <1>11. CASE ReadPacket
    <2>1. \A c \in Conns : c # fdTable[at["epoll"]] => inbox'[c] = inbox[c]
      BY <1>1, <1>11 DEF ReadPacket
    <2>2. \A event \in batch : event.fd # Listener =>
            fdTable[event.fd] # fdTable[at["epoll"]]
      BY <1>1, <1>3, <1>11 DEF ReadPacket, ConnInv, OnceInv, Handling
    <2>3. QED
      BY <1>1, <1>2, <1>11, <2>1, <2>2 DEF ReadPacket, Readable
  <1>12. CASE ReadDone
    BY <1>1, <1>12 DEF ReadDone, Readable, Threading
  <1>13. CASE ReadFails
    BY <1>1, <1>2, <1>13 DEF ReadFails, Readable, Threading, Told
  <1>14. CASE DeleteClose("epoll")
    BY <1>1, <1>3, <1>14 DEF DeleteClose, Readable, Threading, Handling
  <1>15. CASE DeleteCtl("epoll") \/ DeleteDecr("epoll")
    BY <1>1, <1>15 DEF DeleteCtl, DeleteDecr, Readable, Threading
  <1>16. ASSUME NEW w \in Workers, NEW task \in tasks, Answer(w, task)
         PROVE  EventInv'
    <2>1. peer' = peer
      BY <1>1, <1>16 DEF Answer, AwaitedInv
    <2>2. QED
      BY <1>1, <1>16, <2>1 DEF Answer, Readable
  <1>17. QED
    BY <1>4, <1>5, <1>6, <1>7, <1>8, <1>9, <1>10, <1>11, <1>12, <1>13, <1>14,
       <1>15, <1>16 DEF QuietNext, ClientStep, Delete

LEMMA HandledStep ==
  ASSUME ConnInv, patient, QuietNext
  PROVE  HandledInv'
  <1> USE DEF HandledInv, IsOpen, clientVars, kernelVars, limitVars, GoTo,
              MoveTo
  <1>1. /\ Threading /\ EventInv /\ HandledInv /\ AwaitedInv /\ WorkersAnswer
        /\ fdTable \in [Fds -> Conns \cup {NoConn}]
        /\ peer \in [Conns -> {"new", "up", "fin", "rst", "gone"}]
        /\ inbox \in [Conns -> Seq(Types)]
        /\ tasks \in SUBSET [conn : Conns, fd : Fds]
    BY ThreadingHolds DEF ConnInv, TypeInv, TypeOK, PatientInv
  <1>2. \A fd \in Fds : IsOpen(fd) => fdTable[fd] \in Conns
    BY <1>1
  <1>3. pc["epoll"] \in Handling => at["epoll"] \in Fds
    BY <1>1 DEF ConnInv, TypeInv, PlaceInv, Threading
  <1>4. ASSUME NEW c \in Conns, Connect(c)
        PROVE  HandledInv'
    BY <1>1, <1>2, <1>3, <1>4
       DEF Connect, Readable, ConnInv, OnceInv, Handling
  <1>5. ASSUME NEW c \in Conns, NEW type \in Types, Send(c, type)
        PROVE  HandledInv'
    BY <1>1, <1>2, <1>3, <1>5 DEF Send, Readable, Handling
  <1>6. ASSUME NEW c \in Conns, NEW how \in {"fin", "rst"}, Leave(c, how)
        PROVE  HandledInv'
    BY <1>1, <1>2, <1>3, <1>6 DEF Leave, Readable, Handling
  <1>7. CASE EpollWait \/ DispatchDone \/ AcceptDone \/ Add
    BY <1>1, <1>7 DEF EpollWait, DispatchDone, AcceptDone, Add, Threading
  <1>8. ASSUME NEW event \in batch, Dispatch(event)
        PROVE  HandledInv'
    BY <1>1, <1>8 DEF Dispatch, EventInv, Readable, Threading, ConnInv,
       TypeInv, PlaceInv
  <1>9. CASE Accept
    <2>1. Min(FreeFds) \in Fds /\ Head(backlog) \in Conns
      BY <1>9, LowestFree DEF Accept, ConnInv, TypeInv, TypeOK
    <2>2. QED
      BY <1>1, <1>9, <2>1, NoConnAssumption DEF Accept, Threading
  <1>10. CASE ReadPacket
    <2>1. buf' \in Types
      BY <1>1, <1>2, <1>3, <1>10 DEF ReadPacket, Handling
    <2>2. buf' # "NONE"
      BY <2>1 DEF Types
    <2>3. QED
      BY <1>10, <2>2 DEF ReadPacket
  <1>11. CASE ReadDone
    BY <1>1, <1>11 DEF ReadDone, Threading
  <1>12. CASE ReadFails
    BY <1>1, <1>2, <1>3, <1>12 DEF ReadFails, Threading, Told, Handling
  <1>13. CASE Delete("epoll")
    BY <1>1, <1>3, <1>13
       DEF Delete, DeleteClose, DeleteCtl, DeleteDecr, Threading, Handling
  <1>14. ASSUME NEW w \in Workers, NEW task \in tasks, Answer(w, task)
         PROVE  HandledInv'
    <2>1. peer' = peer
      BY <1>1, <1>14 DEF Answer, AwaitedInv
    <2>2. QED
      BY <1>1, <1>14, <2>1 DEF Answer, Readable
  <1>15. QED
    BY <1>4, <1>5, <1>6, <1>7, <1>8, <1>9, <1>10, <1>11, <1>12, <1>13, <1>14
       DEF QuietNext, ClientStep

\* A request moves from the socket to the buffer, to a task, to its answer.
LEMMA AwaitedStep ==
  ASSUME ConnInv, patient, QuietNext
  PROVE  AwaitedInv'
  <1> USE DEF AwaitedInv, IsOpen, clientVars, kernelVars, limitVars, GoTo,
              MoveTo
  <1>1. /\ Threading /\ EventInv /\ HandledInv /\ AwaitedInv /\ WorkersAnswer
        /\ fdTable \in [Fds -> Conns \cup {NoConn}]
        /\ peer \in [Conns -> {"new", "up", "fin", "rst", "gone"}]
        /\ inbox \in [Conns -> Seq(Types)] /\ awaiting \in SUBSET Conns
        /\ tasks \in SUBSET [conn : Conns, fd : Fds]
    BY ThreadingHolds DEF ConnInv, TypeInv, TypeOK, PatientInv
  <1>2. \A fd \in Fds : IsOpen(fd) => fdTable[fd] \in Conns
    BY <1>1
  <1>3. pc["epoll"] \in Handling => at["epoll"] \in Fds
    BY <1>1 DEF ConnInv, TypeInv, PlaceInv, Threading
  <1>4. ASSUME NEW c \in Conns, Connect(c)
        PROVE  AwaitedInv'
    BY <1>1, <1>4 DEF Connect
  <1>5. ASSUME NEW c \in Conns, NEW type \in Types, Send(c, type)
        PROVE  AwaitedInv'
    <2>1. /\ c \notin awaiting /\ peer[c] = "up" /\ peer' = peer
          /\ awaiting' = IF type = "REQUEST" THEN awaiting \cup {c}
                                             ELSE awaiting
          /\ UNCHANGED <<fdTable, pc, at, buf, tasks>>
      BY <1>5 DEF Send
    <2>2. /\ Len(inbox'[c]) = Len(inbox[c]) + 1
          /\ DOMAIN inbox'[c] = 1 .. Len(inbox[c]) + 1
          /\ \A i \in DOMAIN inbox[c] : inbox'[c][i] = inbox[c][i]
          /\ inbox'[c][Len(inbox[c]) + 1] = type
      BY <1>1, <1>5 DEF Send
    <2>3. \A d \in Conns \ {c} : inbox'[d] = inbox[d]
      BY <1>1, <1>5 DEF Send
    <2>4. \A i \in DOMAIN inbox'[c] : inbox'[c][i] = "REQUEST" =>
            i = Len(inbox'[c]) /\ c \in awaiting'
      <3> SUFFICES ASSUME NEW i \in DOMAIN inbox'[c],
                          inbox'[c][i] = "REQUEST"
                   PROVE  i = Len(inbox'[c]) /\ c \in awaiting'
        OBVIOUS
      <3>1. i \notin DOMAIN inbox[c]
        BY <1>1, <2>1, <2>2
      <3>2. i = Len(inbox[c]) + 1
        BY <1>1, <2>2, <3>1
      <3>3. QED
        BY <2>1, <2>2, <3>2
    <2>5. pc["epoll"] = "read" => fdTable[at["epoll"]] \in Conns
      BY <1>1, <1>2, <1>3 DEF HandledInv, Handling
    <2>6. QED
      BY <1>1, <2>1, <2>3, <2>4, <2>5
  <1>6. ASSUME NEW c \in Conns, NEW how \in {"fin", "rst"}, Leave(c, how)
        PROVE  AwaitedInv'
    BY <1>1, <1>6 DEF Leave
  <1>7. CASE EpollWait \/ DispatchDone \/ AcceptDone \/ Add
    <2>1. /\ UNCHANGED <<peer, inbox, awaiting, fdTable, buf, tasks, at>>
          /\ pc'["epoll"] # "read"
      BY <1>1, <1>7 DEF EpollWait, DispatchDone, AcceptDone, Add, Threading
    <2>2. QED
      BY <1>1, <2>1
  <1>8. ASSUME NEW event \in batch, Dispatch(event)
        PROVE  AwaitedInv'
    <2>1. \A task \in tasks : ~Readable(fdTable[task.fd])
      BY <1>1 DEF Readable
    <2>2. \A task \in tasks : task.fd \in Fds
      BY <1>1
    <2>3. buf' = "NONE" /\ at'["epoll"] = event.fd
          /\ (pc'["epoll"] = "read" => event.fd # Listener)
      BY <1>1, <1>8 DEF Dispatch, Threading
    <2>4. QED
      BY <1>1, <1>8, <2>1, <2>2, <2>3 DEF Dispatch, EventInv
  <1>9. CASE Accept
    <2>1. Min(FreeFds) \in Fds /\ ~IsOpen(Min(FreeFds))
      BY <1>9, LowestFree DEF Accept, ConnInv, TypeInv, TypeOK
    <2>2. \A fd \in Fds : IsOpen(fd) => fdTable'[fd] = fdTable[fd]
      BY <1>1, <1>9, <2>1 DEF Accept
    <2>3. \A task \in tasks : fdTable'[task.fd] = task.conn
      BY <1>1, <2>2, NoConnAssumption
    <2>4. QED
      BY <1>1, <1>9, <2>3 DEF Accept, Threading
  <1>10. CASE ReadPacket
    <2> DEFINE c == fdTable[at["epoll"]]
    <2>1. c \in Conns /\ inbox[c] # <<>> /\ inbox[c] \in Seq(Types)
      BY <1>1, <1>2, <1>3, <1>10 DEF ReadPacket, Handling
    <2>2. /\ inbox' = [inbox EXCEPT ![c] = Tail(inbox[c])]
          /\ buf' = inbox[c][1]
          /\ UNCHANGED <<peer, awaiting, fdTable, tasks, pc, at>>
          /\ pc["epoll"] = "read"
      BY <1>10, <2>1 DEF ReadPacket
    <2> HIDE DEF c
    <2>3. /\ Len(inbox'[c]) = Len(inbox[c]) - 1 /\ Len(inbox[c]) > 0
          /\ DOMAIN inbox'[c] = 1 .. Len(inbox[c]) - 1
          /\ \A i \in DOMAIN inbox'[c] : inbox'[c][i] = inbox[c][i + 1]
          /\ DOMAIN inbox[c] = 1 .. Len(inbox[c])
          /\ inbox'[c] \in Seq(Types)
      BY <1>1, <2>1, <2>2
    <2>4. \A i \in DOMAIN inbox'[c] : inbox'[c][i] = "REQUEST" =>
            i = Len(inbox'[c]) /\ c \in awaiting'
      <3> SUFFICES ASSUME NEW i \in DOMAIN inbox'[c],
                          inbox'[c][i] = "REQUEST"
                   PROVE  i = Len(inbox'[c]) /\ c \in awaiting'
        OBVIOUS
      <3>1. i + 1 \in DOMAIN inbox[c] /\ inbox[c][i + 1] = "REQUEST"
        BY <2>3
      <3>2. i + 1 = Len(inbox[c]) /\ c \in awaiting
        BY <1>1, <2>1, <3>1
      <3>3. QED
        BY <2>2, <2>3, <3>2
    <2>5. buf' = "REQUEST" => c \in awaiting' /\ inbox'[c] = <<>>
      <3> SUFFICES ASSUME inbox[c][1] = "REQUEST"
                   PROVE  c \in awaiting /\ inbox'[c] = <<>>
        BY <2>2
      <3>1. 1 \in DOMAIN inbox[c]
        BY <2>1, <2>3
      <3>2. 1 = Len(inbox[c]) /\ c \in awaiting
        BY <1>1, <2>1, <3>1
      <3>3. QED
        BY <2>3, <3>2
    <2>6. \A d \in Conns \ {c} : inbox'[d] = inbox[d]
      BY <1>1, <2>2
    <2>7. \A task \in tasks : task.conn \in Conns /\ task.conn # c
      BY <1>1, <2>1
    <2>8. QED
      BY <1>1, <2>2, <2>4, <2>5, <2>6, <2>7 DEF c
  <1>11. CASE ReadDone
    <2> DEFINE fd == at["epoll"]
    <2>1. /\ fd \in Fds /\ IsOpen(fd) /\ inbox[fdTable[fd]] = <<>>
          /\ buf # "NONE"
      BY <1>1, <1>3, <1>11 DEF ReadDone, HandledInv, Readable, Handling
    <2>2. tasks' = IF buf = "REQUEST"
                   THEN tasks \cup {[conn |-> fdTable[fd], fd |-> fd]}
                   ELSE tasks
      BY <1>11, <2>1 DEF ReadDone
    <2>3. pc'["epoll"] # "read" /\ UNCHANGED <<peer, inbox, awaiting, fdTable>>
      BY <1>1, <1>11 DEF ReadDone, Threading
    <2>4. buf = "REQUEST" => fdTable[fd] \in awaiting
      BY <1>1, <1>11 DEF ReadDone
    <2>5. \A task \in tasks' \ tasks :
            /\ fdTable[task.fd] = task.conn /\ task.conn \in awaiting
            /\ inbox[task.conn] = <<>>
      BY <2>1, <2>2, <2>4
    <2>6. QED
      BY <1>1, <2>3, <2>5
  <1>12. CASE ReadFails
    <2>1. \A c \in Conns : peer[c] = "up" => peer'[c] = "up"
      BY <1>1, <1>12 DEF ReadFails, Told
    <2>2. QED
      BY <1>1, <1>12, <2>1 DEF ReadFails, Threading
  <1>13. CASE DeleteClose("epoll")
    <2>1. \A task \in tasks : at["epoll"] # task.fd
      BY <1>1, <1>13 DEF DeleteClose, HandledInv
    <2>2. QED
      BY <1>1, <1>3, <1>13, <2>1 DEF DeleteClose, Threading, Handling
  <1>14. CASE DeleteCtl("epoll") \/ DeleteDecr("epoll")
    <2>1. /\ UNCHANGED <<peer, inbox, awaiting, fdTable, buf, tasks, at>>
          /\ pc'["epoll"] # "read"
      BY <1>1, <1>14 DEF DeleteCtl, DeleteDecr, Threading
    <2>2. QED
      BY <1>1, <2>1
  <1>15. ASSUME NEW w \in Workers, NEW task \in tasks, Answer(w, task)
         PROVE  AwaitedInv'
    <2>1. fdTable[task.fd] = task.conn /\ task.conn \in awaiting
      BY <1>1
    <2>2. \A other \in tasks : other.conn = task.conn => other = task
      <3> SUFFICES ASSUME NEW other \in tasks, other.conn = task.conn
                   PROVE  other = task
        OBVIOUS
      <3>1. other.fd \in Fds /\ task.fd \in Fds /\ task.conn \in Conns
        BY <1>1
      <3>2. fdTable[other.fd] = fdTable[task.fd] /\ IsOpen(task.fd)
        BY <1>1, <3>1, NoConnAssumption
      <3>3. other.fd = task.fd
        BY <3>1, <3>2 DEF ConnInv, OnceInv
      <3>4. other = [conn |-> other.conn, fd |-> other.fd]
            /\ task = [conn |-> task.conn, fd |-> task.fd]
        BY <1>1
      <3>5. QED
        BY <3>3, <3>4
    <2>3. /\ tasks' = tasks \ {task} /\ awaiting' = awaiting \ {task.conn}
          /\ UNCHANGED <<inbox, fdTable, pc, at, buf>>
      BY <1>15, <2>1 DEF Answer
    <2>4. peer' = peer
      BY <1>1, <1>15 DEF Answer
    <2>5. \A c \in Conns : \A i \in DOMAIN inbox[c] :
            inbox[c][i] = "REQUEST" => c # task.conn
      BY <1>1
    <2>6. pc["epoll"] = "read" => fdTable[at["epoll"]] # task.conn
      <3>1. pc["epoll"] = "read" => IsOpen(at["epoll"]) /\ at["epoll"] \in Fds
        BY <1>1, <1>3 DEF HandledInv, Handling
      <3>2. task.fd \in Fds
        BY <1>1
      <3>3. QED
        BY <1>1, <2>1, <3>1, <3>2 DEF ConnInv, OnceInv
    <2>7. QED
      BY <1>1, <2>2, <2>3, <2>4, <2>5, <2>6
  <1>16. QED
    BY <1>4, <1>5, <1>6, <1>7, <1>8, <1>9, <1>10, <1>11, <1>12, <1>13, <1>14,
       <1>15 DEF QuietNext, ClientStep, Delete

LEMMA PatientStep == ConnInv /\ [Next]_vars => PatientInv'
  <1> SUFFICES ASSUME ConnInv, [Next]_vars, patient
               PROVE  PatientInv'
    BY PatientStays DEF PatientInv
  <1>1. CASE Next
    BY <1>1, QuietSteps, ThreadsStep, EventStep, HandledStep, AwaitedStep
       DEF PatientInv
  <1>2. CASE UNCHANGED vars
    BY <1>2 DEF vars, clientVars, kernelVars, ConnInv, PatientInv, Running,
       WorkersAnswer, EventInv, HandledInv, AwaitedInv, IsOpen, Readable
  <1>3. QED
    BY <1>1, <1>2

LEMMA PatientInit == Init => PatientInv
  <1> SUFFICES ASSUME Init PROVE PatientInv
    OBVIOUS
  <1>1. pc["epoll"] = "wait" /\ WorkersAnswer
    BY EpollAssumption DEF Init, Threads, WorkersAnswer
  <1>2. QED
    BY <1>1 DEF Init, PatientInv, Running, EventInv, HandledInv, AwaitedInv

LEMMA ConnInvariant == Spec => []ConnInv
  BY ConnectionsTypeInit, ConnectionsTypeStep, OnceInit, OnceStep, PatientInit,
     PatientStep, PTL DEF Spec, ConnInv

\* While clients leave only when nothing is owed to them, none that leaves makes
\* the server end, by SIGPIPE or by a descriptor closed before it was added.
THEOREM PatientServerStaysUp == Spec => []ServerStaysUp
  <1>1. ConnInv => ServerStaysUp
    BY DEF ConnInv, PatientInv, ServerStaysUp
  <1>2. QED
    BY <1>1, ConnInvariant, PTL

\* processRequestPkt writes to a descriptor.  While no client leaves that is owed
\* an answer, the descriptor in a task stays open and with the connection that
\* asked, who still waits; so only such a client can bring an answer to a
\* stranger.
THEOREM AnswersAreRight == Spec => AnswersReachSender
  <1>1. ConnInv => \A w \in Workers, task \in tasks :
          patient /\ Answer(w, task) =>
            fdTable[task.fd] = task.conn /\ task.conn \in awaiting
    BY DEF ConnInv, PatientInv, AwaitedInv
  <1>2. QED
    BY <1>1, ConnInvariant, PTL DEF AnswersReachSender

\* Then the server closes a connection only after its client has left.
THEOREM ClosesAreRight == Spec => ClosesOnlyGone
  <1>1. ASSUME ConnInv, [Next]_vars, patient,
               NEW fd \in Fds, IsOpen(fd), fdTable'[fd] = NoConn
        PROVE  peer[fdTable[fd]] # "up"
    <2> USE DEF clientVars, kernelVars, limitVars
    <2>1. /\ Threading /\ HandledInv /\ fdTable \in [Fds -> Conns \cup {NoConn}]
          /\ fdTable' # fdTable
      BY <1>1, ThreadingHolds DEF ConnInv, TypeInv, TypeOK, PatientInv, IsOpen
    <2>2. Accept \/ DeleteClose("epoll")
      <3>1. QuietNext
        BY <1>1, <2>1, QuietSteps DEF vars
      <3>2. QED
        BY <2>1, <3>1
           DEF QuietNext, ClientStep, Connect, Send, Leave, EpollWait,
               Dispatch, DispatchDone, AcceptDone, Add, ReadPacket, ReadDone,
               ReadFails, Delete, DeleteCtl, DeleteDecr, Answer
    <2>3. ASSUME Accept
          PROVE  FALSE
      <3>1. Min(FreeFds) \in Fds /\ ~IsOpen(Min(FreeFds))
        BY <1>1, <2>3, LowestFree DEF Accept, ConnInv, TypeInv, TypeOK
      <3>2. fdTable'[fd] = fdTable[fd]
        BY <1>1, <2>1, <2>3, <3>1 DEF Accept, IsOpen
      <3>3. QED
        BY <1>1, <3>2 DEF IsOpen
    <2>4. QED
      BY <1>1, <2>1, <2>2, <2>3 DEF DeleteClose, HandledInv, IsOpen
  <1>2. ConnInv /\ [Next]_vars =>
          [\A fd \in Fds : patient /\ IsOpen(fd) /\ fdTable'[fd] = NoConn
             => peer[fdTable[fd]] # "up"]_vars
    BY <1>1
  <1>3. QED
    BY <1>2, ConnInvariant, PTL DEF Spec, ClosesOnlyGone

-----------------------------------------------------------------------------
(* All clients: the count of users                                         *)

Adding == IF pc["epoll"] = "add" THEN 1 ELSE 0

CountInv ==
  /\ patient => vain = 0
  /\ Running =>
       /\ IsFiniteSet(Uncounting)
       /\ usrNum + Adding + vain
            = 1 + Cardinality(OpenConns) + Cardinality(Uncounting)

LEMMA OpenFinite ==
  ASSUME TypeOK
  PROVE  IsFiniteSet(OpenConns) /\ Cardinality(OpenConns) \in Nat
  <1> DEFINE used == {fd \in Fds : IsOpen(fd)}
             of == [fd \in used |-> fdTable[fd]]
  <1>1. IsFiniteSet(used)
    <2>1. IsFiniteSet(Fds)
      BY FS_Interval, MaxFdAssumption DEF Fds
    <2>2. QED
      BY <2>1, FS_Subset
  <1>2. of \in Surjection(used, OpenConns)
    BY DEF OpenConns, Surjection
  <1>3. IsFiniteSet(OpenConns)
    BY <1>1, <1>2, FS_Surjection
  <1>4. QED
    BY <1>3, FS_CardinalityType

\* One thread moves, and the others count as before.
LEMMA UncountingMoves ==
  ASSUME Threading, IsFiniteSet(Uncounting), NEW t \in Threads, NEW p,
         pc' = [pc EXCEPT ![t] = p]
  PROVE  /\ IsFiniteSet(Uncounting') /\ Cardinality(Uncounting) \in Nat
         /\ pc[t] \notin {"ctl", "decr"} /\ p \in {"ctl", "decr"} =>
              Cardinality(Uncounting') = Cardinality(Uncounting) + 1
         /\ pc[t] \in {"ctl", "decr"} /\ p \notin {"ctl", "decr"} =>
              Cardinality(Uncounting') = Cardinality(Uncounting) - 1
         /\ (pc[t] \in {"ctl", "decr"} <=> p \in {"ctl", "decr"}) =>
              Cardinality(Uncounting') = Cardinality(Uncounting)
  <1>0. /\ \A s \in Threads : pc'[s] = IF s = t THEN p ELSE pc[s]
        /\ Cardinality(Uncounting) \in Nat
    BY FS_CardinalityType DEF Threading
  <1>1. CASE pc[t] \notin {"ctl", "decr"} /\ p \in {"ctl", "decr"}
    <2>1. Uncounting' = Uncounting \cup {t} /\ t \notin Uncounting
      BY <1>0, <1>1 DEF Uncounting
    <2>2. QED
      BY <1>0, <1>1, <2>1, FS_AddElement
  <1>2. CASE pc[t] \in {"ctl", "decr"} /\ p \notin {"ctl", "decr"}
    <2>1. Uncounting' = Uncounting \ {t} /\ t \in Uncounting
      BY <1>0, <1>2 DEF Uncounting
    <2>2. QED
      BY <1>0, <1>2, <2>1, FS_RemoveElement
  <1>3. CASE pc[t] \in {"ctl", "decr"} <=> p \in {"ctl", "decr"}
    <2>1. Uncounting' = Uncounting
      BY <1>0, <1>3 DEF Uncounting
    <2>2. QED
      BY <1>0, <1>3, <2>1
  <1>4. QED
    BY <1>1, <1>2, <1>3

LEMMA CountStep == ConnInv /\ CountInv /\ [Next]_vars => CountInv'
  <1> SUFFICES ASSUME ConnInv, CountInv, [Next]_vars
               PROVE  CountInv'
    OBVIOUS
  <1> USE DEF clientVars, kernelVars, limitVars, GoTo, MoveTo
  <1>1. /\ Threading /\ usrNum \in Int /\ vain \in Nat
        /\ fdTable \in [Fds -> Conns \cup {NoConn}]
        /\ IsFiniteSet(OpenConns) /\ Cardinality(OpenConns) \in Nat
        /\ patient' = patient /\ "epoll" \in Threads
    BY ThreadingHolds, OpenFinite, PatientStays
       DEF ConnInv, TypeInv, TypeOK, Threads
  <1>2. ASSUME UNCHANGED fdTable
        PROVE  OpenConns' = OpenConns
    BY <1>2 DEF OpenConns, IsOpen
  <1>3. ASSUME UNCHANGED <<fdTable, usrNum, pc, vain>>
        PROVE  CountInv'
    BY <1>1, <1>2, <1>3 DEF CountInv, Adding, Running, Uncounting
  <1>4. ASSUME UNCHANGED <<fdTable, usrNum, vain>>,
               NEW t \in Threads, NEW p, pc' = [pc EXCEPT ![t] = p],
               pc[t] \notin {"exited", "add", "ctl", "decr"},
               p \notin {"exited", "add", "ctl", "decr"}
        PROVE  CountInv'
    <2>1. (Running' <=> Running) /\ Adding' = Adding
      BY <1>1, <1>4 DEF Running, Adding, Threading
    <2>2. QED
      BY <1>1, <1>2, <1>4, <2>1, UncountingMoves DEF CountInv
  <1>same. ASSUME Running, NEW t \in Threads, NEW p, pc' = [pc EXCEPT ![t] = p],
               pc[t] \notin {"ctl", "decr"}, p \notin {"ctl", "decr"}
        PROVE  /\ IsFiniteSet(Uncounting') /\ Cardinality(Uncounting) \in Nat
               /\ Cardinality(Uncounting') = Cardinality(Uncounting)
    BY <1>1, <1>same, UncountingMoves DEF CountInv
  <1>5. ASSUME NEW c \in Conns, ClientStep(c)
        PROVE  CountInv'
    BY <1>3, <1>5 DEF ClientStep, Connect, Send, Leave
  <1>6. CASE EpollWait \/ DispatchDone \/ AcceptDone \/ ReadDone \/ ReadFails
    <2>1. /\ UNCHANGED <<fdTable, usrNum, vain>>
          /\ pc["epoll"] \in {"wait", "dispatch", "accept", "read"}
          /\ \E p \in {"wait", "dispatch", "close"} :
               pc' = [pc EXCEPT !["epoll"] = p]
      BY <1>6 DEF EpollWait, DispatchDone, AcceptDone, ReadDone, ReadFails
    <2>2. QED
      BY <1>1, <1>4, <2>1 DEF Threading
  <1>7. ASSUME NEW event \in batch, Dispatch(event)
        PROVE  CountInv'
    <2>1. /\ UNCHANGED <<fdTable, usrNum, vain>> /\ pc["epoll"] = "dispatch"
          /\ \E p \in {"close", "accept", "read"} :
               pc' = [pc EXCEPT !["epoll"] = p]
      BY <1>7 DEF Dispatch
    <2>2. QED
      BY <1>1, <1>4, <2>1 DEF Threading
  <1>8. CASE Accept
    <2>1. Min(FreeFds) \in Fds /\ ~IsOpen(Min(FreeFds))
      BY <1>8, LowestFree DEF Accept, ConnInv, TypeInv, TypeOK
    <2>2. Head(backlog) \in Conns /\ Head(backlog) \notin OpenConns
      BY <1>8 DEF Accept, ConnInv, OnceInv, TypeInv, TypeOK, OpenConns
    <2>3. OpenConns' = OpenConns \cup {Head(backlog)}
      BY <1>1, <1>8, <2>1, <2>2, NoConnAssumption DEF Accept, OpenConns, IsOpen
    <2>4. Cardinality(OpenConns') = Cardinality(OpenConns) + 1
      BY <1>1, <2>2, <2>3, FS_AddElement
    <2>5. /\ Running /\ Adding = 0 /\ Adding' = 1 /\ vain' = vain
          /\ usrNum' = usrNum /\ pc["epoll"] = "accept"
          /\ pc' = [pc EXCEPT !["epoll"] = "add"]
      BY <1>1, <1>8 DEF Accept, Running, Adding, Threading
    <2>6. /\ IsFiniteSet(Uncounting') /\ Cardinality(Uncounting) \in Nat
          /\ Cardinality(Uncounting') = Cardinality(Uncounting)
      BY <1>1, <1>same, <2>5
    <2>7. QED
      BY <1>1, <2>4, <2>5, <2>6 DEF CountInv
  <1>9. CASE Add
    <2>1. /\ Running /\ Adding = 1 /\ Adding' = 0 /\ vain' = vain
          /\ usrNum' = usrNum + 1 /\ pc["epoll"] = "add"
          /\ pc' = [pc EXCEPT !["epoll"] = "accept"] /\ UNCHANGED fdTable
      BY <1>1, <1>9 DEF Add, Running, Adding, Threading
    <2>2. /\ IsFiniteSet(Uncounting') /\ Cardinality(Uncounting) \in Nat
          /\ Cardinality(Uncounting') = Cardinality(Uncounting)
      BY <1>1, <1>same, <2>1
    <2>3. QED
      BY <1>1, <1>2, <2>1, <2>2 DEF CountInv
  <1>10. ASSUME AddFails
                \/ \E w \in Workers, task \in tasks : BrokenPipe(w, task)
         PROVE  CountInv'
    <2>1. ~Running' /\ vain' = vain
      BY <1>1, <1>10 DEF AddFails, BrokenPipe, Running, Threading
    <2>2. QED
      BY <1>1, <2>1 DEF CountInv
  <1>11. ASSUME ReadPacket
                \/ \E w \in Workers, task \in tasks : Answer(w, task)
         PROVE  CountInv'
    BY <1>3, <1>11 DEF ReadPacket, Answer
  <1>12. ASSUME NEW w \in Workers, NEW task \in tasks, AnswerFails(w, task)
         PROVE  CountInv'
    <2>1. /\ UNCHANGED <<fdTable, usrNum, vain>> /\ pc[w] = "idle"
          /\ w \in Threads /\ pc' = [pc EXCEPT ![w] = "close"]
      BY <1>1, <1>12 DEF AnswerFails, Threading
    <2>2. QED
      BY <1>4, <2>1
  <1>13. ASSUME NEW t \in Threads, DeleteClose(t)
         PROVE  CountInv'
    <2> DEFINE fd == at[t]
    <2>1. /\ fd \in Fds /\ pc[t] = "close" /\ pc' = [pc EXCEPT ![t] = "ctl"]
          /\ fdTable' = [fdTable EXCEPT ![fd] = NoConn] /\ usrNum' = usrNum
          /\ vain' = IF IsOpen(fd) THEN vain ELSE vain + 1
      BY <1>13 DEF DeleteClose, ConnInv, TypeInv, PlaceInv, Handling
    <2>2. patient => IsOpen(fd)
      BY <1>1, <2>1
         DEF ConnInv, PatientInv, WorkersAnswer, HandledInv, Threads
    <2>3. (Running' <=> Running) /\ Adding' = Adding
      BY <1>1, <2>1 DEF Running, Adding, Threading
    <2>4. Running =>
            /\ IsFiniteSet(Uncounting') /\ Cardinality(Uncounting) \in Nat
            /\ Cardinality(Uncounting') = Cardinality(Uncounting) + 1
      BY <1>1, <2>1, UncountingMoves DEF CountInv
    <2>5. Adding \in Int
      BY DEF Adding
    <2>6. CASE IsOpen(fd)
      <3>1. fdTable[fd] \in OpenConns
        BY <2>1, <2>6 DEF OpenConns
      <3>2. OpenConns' = OpenConns \ {fdTable[fd]}
        BY <1>1, <2>1, <2>6 DEF OpenConns, IsOpen, ConnInv, OnceInv
      <3>3. Cardinality(OpenConns') = Cardinality(OpenConns) - 1
        BY <1>1, <3>1, <3>2, FS_RemoveElement
      <3>4. QED
        BY <1>1, <2>1, <2>3, <2>4, <2>5, <2>6, <3>3 DEF CountInv
    <2>7. CASE ~IsOpen(fd)
      <3>1. OpenConns' = OpenConns
        BY <1>1, <2>1, <2>7 DEF OpenConns, IsOpen
      <3>2. QED
        BY <1>1, <2>1, <2>2, <2>3, <2>4, <2>5, <2>7, <3>1 DEF CountInv
    <2>8. QED
      BY <2>6, <2>7
  <1>14. ASSUME NEW t \in Threads, DeleteCtl(t)
         PROVE  CountInv'
    <2>1. /\ UNCHANGED <<fdTable, usrNum, vain>> /\ pc[t] = "ctl"
          /\ pc' = [pc EXCEPT ![t] = "decr"]
      BY <1>14 DEF DeleteCtl
    <2>2. (Running' <=> Running) /\ Adding' = Adding
      BY <1>1, <2>1 DEF Running, Adding, Threading
    <2>3. QED
      BY <1>1, <1>2, <2>1, <2>2, UncountingMoves DEF CountInv
  <1>15. ASSUME NEW t \in Threads, DeleteDecr(t)
         PROVE  CountInv'
    <2>1. /\ UNCHANGED <<fdTable, vain>> /\ usrNum' = usrNum - 1
          /\ pc[t] = "decr"
          /\ \E p \in {"dispatch", "idle"} : pc' = [pc EXCEPT ![t] = p]
      BY <1>15 DEF DeleteDecr
    <2>2. (Running' <=> Running) /\ Adding' = Adding
      BY <1>1, <2>1 DEF Running, Adding, Threading
    <2>3. Running =>
            /\ IsFiniteSet(Uncounting') /\ Cardinality(Uncounting) \in Nat
            /\ Cardinality(Uncounting') = Cardinality(Uncounting) - 1
      BY <1>1, <2>1, UncountingMoves DEF CountInv
    <2>4. Adding \in Int
      BY DEF Adding
    <2>5. QED
      BY <1>1, <1>2, <2>1, <2>2, <2>3, <2>4 DEF CountInv
  <1>16. CASE UNCHANGED vars
    BY <1>3, <1>16 DEF vars
  <1>17. QED
    BY <1>1, <1>5, <1>6, <1>7, <1>8, <1>9, <1>10, <1>11, <1>12, <1>13, <1>14,
       <1>15, <1>16
       DEF Next, EpollStep, EpollGoesOn, WorkerStep, Serve, Delete, Threading

LEMMA CountInit == Init => CountInv
  <1> SUFFICES ASSUME Init PROVE CountInv
    OBVIOUS
  <1>1. OpenConns = {} /\ Uncounting = {}
    BY DEF Init, OpenConns, IsOpen, Uncounting
  <1>2. pc["epoll"] = "wait" /\ usrNum = 1 /\ vain = 0
    BY DEF Init, Threads
  <1>3. QED
    BY <1>1, <1>2, FS_EmptySet DEF CountInv, Adding

\* decr_usr_num by every deletion, whoever else deletes: whenever clients leave,
\* usr_num is the number of open connections, the listening socket, and what is
\* on its way to be subtracted, less what is still to be added and the deletions
\* that closed nothing; with patient clients there are none of those.
THEOREM UsersAreCounted == Spec => []UsrNumAccounted
  <1>1. ConnInv /\ CountInv => UsrNumAccounted
    <2> SUFFICES ASSUME ConnInv, CountInv, Running
                 PROVE  usrNum = 1 + Cardinality(OpenConns)
                          + Cardinality(Uncounting) - Adding - vain
      BY DEF UsrNumAccounted, CountInv, Adding
    <2>1. /\ usrNum \in Int /\ vain \in Nat /\ Adding \in Int
          /\ Cardinality(OpenConns) \in Nat /\ Cardinality(Uncounting) \in Nat
      BY OpenFinite, FS_CardinalityType
         DEF ConnInv, TypeInv, TypeOK, CountInv, Adding
    <2>2. QED
      BY <2>1 DEF CountInv
  <1>2. QED
    BY <1>1, ConnInvariant, CountInit, CountStep, PTL DEF Spec

-----------------------------------------------------------------------------
(* Patient clients: what is open is watched                                *)

WatchInv == patient => AllMonitored

LEMMA WatchStep == ConnInv /\ WatchInv /\ [Next]_vars => WatchInv'
  <1> SUFFICES ASSUME ConnInv, AllMonitored, [Next]_vars, patient
               PROVE  AllMonitored'
    BY PatientStays DEF WatchInv
  <1> USE DEF AllMonitored, clientVars, kernelVars, limitVars, GoTo, MoveTo
  <1>1. /\ Threading /\ HandledInv /\ WorkersAnswer /\ Running
        /\ fdTable \in [Fds -> Conns \cup {NoConn}]
    BY ThreadingHolds DEF ConnInv, TypeInv, TypeOK, PatientInv
  <1>2. CASE Next
    <2>1. QuietNext
      BY <1>2, QuietSteps
    <2>2. ASSUME NEW c \in Conns, ClientStep(c)
          PROVE  AllMonitored'
      BY <2>2 DEF ClientStep, Connect, Send, Leave, IsOpen
    <2>3. CASE EpollWait \/ DispatchDone \/ AcceptDone
      BY <1>1, <2>3 DEF EpollWait, DispatchDone, AcceptDone, Threading, IsOpen
    <2>4. ASSUME NEW event \in batch, Dispatch(event)
          PROVE  AllMonitored'
      BY <1>1, <2>4 DEF Dispatch, Threading, IsOpen
    <2>5. CASE Accept
      <3>1. Min(FreeFds) \in Fds
        BY <2>5, LowestFree DEF Accept, ConnInv, TypeInv, TypeOK
      <3>2. pc'["epoll"] = "add" /\ at'["epoll"] = Min(FreeFds)
            /\ pc["epoll"] = "accept" /\ watched' = watched
        BY <1>1, <2>5 DEF Accept, Threading
      <3>3. \A fd \in Fds \ {Min(FreeFds)} : fdTable'[fd] = fdTable[fd]
        BY <1>1, <2>5, <3>1 DEF Accept
      <3>4. QED
        BY <3>2, <3>3 DEF IsOpen
    <2>6. CASE Add
      BY <1>1, <2>6 DEF Add, Threading, IsOpen
    <2>7. CASE ReadPacket \/ ReadDone \/ ReadFails
      BY <1>1, <2>7 DEF ReadPacket, ReadDone, ReadFails, Threading, IsOpen
    <2>8. CASE DeleteClose("epoll")
      <3> DEFINE gone == at["epoll"]
      <3>1. /\ gone \in Fds /\ IsOpen(gone)
            /\ fdTable' = [fdTable EXCEPT ![gone] = NoConn]
            /\ watched' = watched \ {fdTable[gone]}
            /\ pc["epoll"] = "close"
        BY <1>1, <2>8
           DEF DeleteClose, HandledInv, ConnInv, TypeInv, PlaceInv, Threading,
               Handling
      <3>2. \A fd \in Fds \ {gone} :
              fdTable'[fd] = fdTable[fd] /\ fdTable[fd] # fdTable[gone]
        BY <1>1, <3>1 DEF ConnInv, OnceInv, IsOpen
      <3>3. fdTable'[gone] = NoConn
        BY <1>1, <3>1 DEF IsOpen
      <3> HIDE DEF gone
      <3>4. QED
        BY <3>1, <3>2, <3>3 DEF IsOpen
    <2>9. CASE DeleteCtl("epoll") \/ DeleteDecr("epoll")
      BY <1>1, <2>9
         DEF DeleteCtl, DeleteDecr, HandledInv, Threading, IsOpen
    <2>10. ASSUME NEW w \in Workers, NEW task \in tasks, Answer(w, task)
           PROVE  AllMonitored'
      BY <2>10 DEF Answer, IsOpen
    <2>11. QED
      BY <2>1, <2>2, <2>3, <2>4, <2>5, <2>6, <2>7, <2>8, <2>9, <2>10
         DEF QuietNext, Delete
  <1>3. CASE UNCHANGED vars
    BY <1>3 DEF vars, IsOpen
  <1>4. QED
    BY <1>2, <1>3

\* Then every open connection is watched, which server.c:312-313 says of all
\* clients: it takes one that leaves while it waits to break it.
THEOREM PatientAreMonitored == Spec => [](patient => AllMonitored)
  <1>1. Init => WatchInv
    BY DEF Init, WatchInv, AllMonitored, IsOpen
  <1>2. QED
    BY <1>1, ConnInvariant, WatchStep, PTL DEF Spec, WatchInv

-----------------------------------------------------------------------------
(* Patient clients: nothing that arrived is overlooked                     *)

\* The two halves of NothingOverlooked.
NoticeInv  == \A c \in Conns : c \in OpenConns /\ Readable(c) => Noticed(c)
RequestInv == \A c \in awaiting : RequestUnderWay(c)
OverlookInv == patient => AllMonitored /\ NoticeInv /\ RequestInv

\* What the two proofs below use of the invariants before.
QuietState ==
  /\ Threading /\ EventInv /\ HandledInv /\ AwaitedInv
  /\ fdTable \in [Fds -> Conns \cup {NoConn}]
  /\ peer \in [Conns -> {"new", "up", "fin", "rst", "gone"}]
  /\ inbox \in [Conns -> Seq(Types)] /\ awaiting \in SUBSET Conns
  /\ edge \in [Conns -> BOOLEAN] /\ watched \in SUBSET OpenConns
  /\ tasks \in SUBSET [conn : Conns, fd : Fds]
  /\ batch \in SUBSET [fd : Fds \cup {Listener}, hup : BOOLEAN]
  /\ pc["epoll"] \in Handling => at["epoll"] \in Fds
  /\ pc["epoll"] = "wait" => batch = {}
  /\ \A fd \in Fds : IsOpen(fd) => fdTable[fd] \in Conns
  /\ \A fd, g \in Fds : IsOpen(fd) /\ fdTable[fd] = fdTable[g] => fd = g

LEMMA QuietStateHolds == ConnInv /\ patient => QuietState
  BY ThreadingHolds
     DEF QuietState, ConnInv, TypeInv, TypeOK, PlaceInv, OnceInv, PatientInv,
         Threading, IsOpen

\* Of an open connection: what the kernel or the epoll thread knows of it.
LEMMA NoticeStays ==
  ASSUME QuietState, AllMonitored, patient, ConnInv, NoticeInv, QuietNext
  PROVE  NoticeInv'
  <1> USE DEF Noticed, IsOpen, clientVars, kernelVars, limitVars, GoTo, MoveTo
  <1>1. \A fd \in Fds, c \in Conns : c = fdTable[fd] => IsOpen(fd)
    BY NoConnAssumption
  <1>2. ASSUME NEW c \in Conns, c \in OpenConns
        PROVE  /\ \E fd \in Fds : fdTable[fd] = c
               /\ \/ c \in watched
                  \/ pc["epoll"] \in {"add", "exited"} /\ fdTable[at["epoll"]] = c
    BY <1>2 DEF OpenConns, AllMonitored
  <1>3. pc["epoll"] # "exited"
    BY DEF ConnInv, PatientInv, Running
  <1>4. ASSUME UNCHANGED fdTable
        PROVE  OpenConns' = OpenConns
    BY <1>4 DEF OpenConns
  \* of most steps: they add nothing to read and leave what is known
  <1>5. ASSUME UNCHANGED <<peer, inbox, fdTable, watched, edge, batch>>,
               pc["epoll"] \in {"add", "read", "close"} =>
                 /\ pc'["epoll"] \in {"add", "read", "close"}
                 /\ at'["epoll"] = at["epoll"]
        PROVE  NoticeInv'
    BY <1>4, <1>5 DEF NoticeInv, Readable
  <1>6. ASSUME NEW c \in Conns, Connect(c)
        PROVE  NoticeInv'
    <2>1. c \notin OpenConns /\ OpenConns' = OpenConns
      BY <1>4, <1>6 DEF Connect, ConnInv, OnceInv, OpenConns
    <2>2. \A d \in Conns : d # c => (Readable(d)' <=> Readable(d))
      BY <1>6 DEF Connect, Readable, QuietState
    <2>3. \A d \in Conns : Noticed(d)' <=> Noticed(d)
      BY <1>6 DEF Connect
    <2>4. QED
      BY <2>1, <2>2, <2>3 DEF NoticeInv
  <1>7. ASSUME NEW c \in Conns,
               (\E type \in Types : Send(c, type))
                 \/ \E how \in {"fin", "rst"} : Leave(c, how)
        PROVE  NoticeInv'
    <2>1. /\ edge' = [edge EXCEPT ![c] = TRUE]
          /\ UNCHANGED <<fdTable, watched, batch, pc, at>>
          /\ \A d \in Conns : d # c => (Readable(d)' <=> Readable(d))
      <3>1. ASSUME NEW type \in Types, Send(c, type)
            PROVE  UNCHANGED peer
                   /\ \A d \in Conns : d # c => inbox'[d] = inbox[d]
        BY <3>1 DEF Send, QuietState
      <3>2. ASSUME NEW how \in {"fin", "rst"}, Leave(c, how)
            PROVE  UNCHANGED inbox
                   /\ \A d \in Conns : d # c => peer'[d] = peer[d]
        BY <3>2 DEF Leave, QuietState
      <3>3. \A d \in Conns : d # c => (Readable(d)' <=> Readable(d))
        BY <1>7, <3>1, <3>2 DEF Readable
      <3>4. /\ edge' = [edge EXCEPT ![c] = TRUE]
            /\ UNCHANGED <<fdTable, watched, batch, pc, at>>
        BY <1>7 DEF Send, Leave
      <3>5. QED
        BY <3>3, <3>4
    <2>2. OpenConns' = OpenConns
      BY <1>4, <2>1
    <2>3. c \in OpenConns => Noticed(c)'
      BY <1>2, <1>3, <2>1 DEF QuietState
    <2>4. \A d \in Conns : d # c => (Noticed(d) => Noticed(d)')
      BY <2>1 DEF QuietState
    <2>5. QED
      BY <2>1, <2>2, <2>3, <2>4 DEF NoticeInv
  <1>8. CASE EpollWait
    <2>1. OpenConns' = OpenConns
      BY <1>4, <1>8 DEF EpollWait
    <2>2. ASSUME NEW c \in Conns, c \in OpenConns, Readable(c)
          PROVE  Noticed(c)'
      <3>1. batch = {} /\ pc["epoll"] = "wait"
        BY <1>8 DEF EpollWait, QuietState
      <3>2. c \in watched /\ edge[c]
        BY <2>2, <3>1 DEF NoticeInv
      <3>3. PICK fd \in Fds : fdTable[fd] = c
        BY <1>2, <2>2
      <3>4. fd \in ReadyFds
        BY <2>2, <3>2, <3>3 DEF ReadyFds
      <3>5. \E event \in batch' : event.fd = fd
        <4> DEFINE Reset(g) == peer[fdTable[g]] \in {"rst", "gone"}
        <4>1. CASE Reset(fd)
          <5>1. [fd |-> fd, hup |-> TRUE] \in batch'
            BY <1>8, <3>4, <4>1 DEF EpollWait
          <5>2. QED
            BY <5>1
        <4>2. CASE ~Reset(fd)
          <5>1. [fd |-> fd, hup |-> FALSE] \in batch'
            BY <1>8, <3>4, <4>2 DEF EpollWait
          <5>2. QED
            BY <5>1
        <4>3. QED
          BY <4>1, <4>2
      <3>6. fdTable' = fdTable
        BY <1>8 DEF EpollWait
      <3>7. QED
        BY <3>3, <3>5, <3>6
    <2>3. \A c \in Conns : Readable(c)' <=> Readable(c)
      BY <1>8 DEF EpollWait, Readable
    <2>4. QED
      BY <2>1, <2>2, <2>3 DEF NoticeInv
  <1>9. ASSUME NEW event \in batch, Dispatch(event)
        PROVE  NoticeInv'
    <2>1. /\ UNCHANGED <<peer, inbox, fdTable, watched, edge>>
          /\ batch' = batch \ {event} /\ pc["epoll"] = "dispatch"
          /\ at'["epoll"] = event.fd
          /\ event.fd \in Fds => pc'["epoll"] \in {"read", "close"}
      BY <1>9 DEF Dispatch, QuietState, Threading
    <2>2. OpenConns' = OpenConns
      BY <1>4, <2>1
    <2>3. \A c \in Conns : Noticed(c) => Noticed(c)'
      BY <2>1
    <2>4. QED
      BY <2>1, <2>2, <2>3 DEF NoticeInv, Readable
  <1>10. CASE DispatchDone \/ AcceptDone
    BY <1>5, <1>10 DEF DispatchDone, AcceptDone
  <1>11. CASE Accept
    <2> DEFINE new == Min(FreeFds)
    <2>1. /\ new \in Fds /\ ~IsOpen(new)
          /\ Head(backlog) \in Conns
      BY <1>11, LowestFree DEF Accept, ConnInv, TypeInv, TypeOK
    <2> HIDE DEF new
    <2>2. /\ fdTable' = [fdTable EXCEPT ![new] = Head(backlog)]
          /\ pc["epoll"] = "accept" /\ pc'["epoll"] = "add" /\ at'["epoll"] = new
          /\ UNCHANGED <<peer, inbox, watched, edge, batch>>
      BY <1>11 DEF Accept, QuietState, Threading, new
    <2>3. \A fd \in Fds : fd # new => fdTable'[fd] = fdTable[fd]
      BY <2>1, <2>2 DEF QuietState
    <2>4. fdTable'[new] = Head(backlog)
      BY <2>1, <2>2 DEF QuietState
    <2>5. ASSUME NEW c \in Conns, c \in OpenConns', Readable(c)'
          PROVE  Noticed(c)'
      <3>1. CASE c = Head(backlog)
        BY <2>2, <2>4, <3>1
      <3>2. CASE c # Head(backlog)
        <4>1. c \in OpenConns /\ Readable(c)
          BY <2>1, <2>2, <2>3, <2>4, <2>5, <3>2 DEF OpenConns, Readable
        <4>2. Noticed(c)
          BY <4>1 DEF NoticeInv
        <4>3. \A event \in batch :
                event.fd \in Fds /\ fdTable[event.fd] = c =>
                  fdTable'[event.fd] = c
          BY <1>1, <2>1, <2>3
        <4>4. QED
          BY <2>2, <4>2, <4>3
      <3>3. QED
        BY <3>1, <3>2
    <2>6. QED
      BY <2>5 DEF NoticeInv
  <1>12. CASE Add
    <2> DEFINE added == fdTable[at["epoll"]]
    <2>1. /\ added \in Conns /\ pc["epoll"] = "add"
          /\ watched' = watched \cup {added}
          /\ edge' = [edge EXCEPT ![added] = Readable(added)]
          /\ UNCHANGED <<peer, inbox, fdTable, batch, at>>
      BY <1>12 DEF Add, QuietState, Handling
    <2> HIDE DEF added
    <2>2. OpenConns' = OpenConns
      BY <1>4, <2>1
    <2>3. \A c \in Conns : Readable(c)' <=> Readable(c)
      BY <2>1 DEF Readable
    <2>4. ASSUME NEW c \in Conns, c = added, Readable(c)
          PROVE  Noticed(c)'
      <3>1. edge'[c] = Readable(c) /\ c \in watched'
        BY <2>1, <2>4 DEF QuietState
      <3>2. QED
        BY <2>4, <3>1, Zenon
    <2>5. \A c \in Conns : c # added => (Noticed(c) => Noticed(c)')
      BY <2>1 DEF QuietState, added
    <2> HIDE DEF Noticed
    <2>6. QED
      BY <2>2, <2>3, <2>4, <2>5 DEF NoticeInv
  <1>13. CASE ReadPacket
    <2> DEFINE read == fdTable[at["epoll"]]
    <2>1. /\ pc["epoll"] = "read"
          /\ inbox' = [inbox EXCEPT ![read] = Tail(@)]
          /\ UNCHANGED <<peer, fdTable, watched, edge, batch, pc, at>>
      BY <1>13 DEF ReadPacket
    <2>2. OpenConns' = OpenConns
      BY <1>4, <2>1
    <2>3. \A c \in Conns : c # read => (Readable(c)' <=> Readable(c))
      BY <2>1 DEF Readable, QuietState
    <2>4. \A c \in Conns : c = read \/ Noticed(c) => Noticed(c)'
      BY <2>1
    <2> HIDE DEF Noticed
    <2>5. QED
      BY <2>2, <2>3, <2>4 DEF NoticeInv
  <1>14. CASE ReadDone
    <2> DEFINE read == fdTable[at["epoll"]]
    <2>1. /\ pc["epoll"] = "read" /\ inbox[read] = <<>> /\ peer[read] = "up"
          /\ UNCHANGED <<peer, inbox, fdTable, watched, edge, batch, at>>
      BY <1>14 DEF ReadDone
    <2>2. OpenConns' = OpenConns
      BY <1>4, <2>1
    <2>3. ~Readable(read) /\ \A c \in Conns : Readable(c)' <=> Readable(c)
      BY <2>1 DEF Readable
    <2>4. \A c \in Conns : c # read => (Noticed(c) => Noticed(c)')
      BY <2>1
    <2>5. QED
      BY <2>2, <2>3, <2>4 DEF NoticeInv
  <1>15. CASE ReadFails
    <2>1. /\ pc["epoll"] = "read" /\ pc'["epoll"] = "close"
          /\ UNCHANGED <<inbox, fdTable, watched, edge, batch, at>>
          /\ \A c \in Conns : Readable(c)' <=> Readable(c)
      BY <1>15 DEF ReadFails, QuietState, Threading, Told, Readable
    <2>2. OpenConns' = OpenConns
      BY <1>4, <2>1
    <2>3. \A c \in Conns : Noticed(c) => Noticed(c)'
      BY <2>1
    <2>4. QED
      BY <2>1, <2>2, <2>3 DEF NoticeInv
  <1>16. CASE DeleteClose("epoll")
    <2> DEFINE gone == at["epoll"]
    <2>1. /\ gone \in Fds /\ IsOpen(gone)
          /\ fdTable' = [fdTable EXCEPT ![gone] = NoConn]
          /\ watched' = watched \ {fdTable[gone]}
          /\ pc["epoll"] = "close"
          /\ UNCHANGED <<peer, inbox, edge, batch, at>>
      BY <1>16 DEF DeleteClose, QuietState, HandledInv, Handling
    <2> HIDE DEF gone
    <2>2. /\ \A fd \in Fds : fd # gone => fdTable'[fd] = fdTable[fd]
          /\ fdTable'[gone] = NoConn
      BY <2>1 DEF QuietState
    <2>3. \A c \in Conns : c \in OpenConns' =>
            c \in OpenConns /\ c # fdTable[gone]
      BY <2>1, <2>2 DEF OpenConns, QuietState
    <2>4. \A c \in Conns : c # fdTable[gone] => (Noticed(c) => Noticed(c)')
      <3> SUFFICES ASSUME NEW c \in Conns, c # fdTable[gone], Noticed(c)
                   PROVE  Noticed(c)'
        OBVIOUS
      <3>1. CASE c \in watched /\ edge[c]
        BY <2>1, <3>1
      <3>2. ASSUME NEW event \in batch, event.fd \in Fds, fdTable[event.fd] = c
            PROVE  Noticed(c)'
        BY <2>1, <2>2, <3>2
      <3>3. ~(fdTable[at["epoll"]] = c)
        BY DEF gone
      <3>4. QED
        BY <3>1, <3>2, <3>3
    <2>5. QED
      BY <2>1, <2>3, <2>4 DEF NoticeInv, Readable
  <1>17. CASE DeleteCtl("epoll")
    <2>1. /\ pc["epoll"] = "ctl" /\ watched' = watched \ {NoConn}
          /\ UNCHANGED <<peer, inbox, fdTable, edge, batch, at>>
      BY <1>17 DEF DeleteCtl, QuietState, HandledInv
    <2>2. \A c \in Conns : Noticed(c) => Noticed(c)'
      BY <2>1, NoConnAssumption
    <2>3. QED
      BY <1>4, <2>1, <2>2 DEF NoticeInv, Readable
  <1>18. CASE DeleteDecr("epoll")
    BY <1>5, <1>18 DEF DeleteDecr
  <1>19. ASSUME NEW w \in Workers, NEW task \in tasks, Answer(w, task)
         PROVE  NoticeInv'
    <2>1. fdTable[task.fd] \in Conns /\ peer[fdTable[task.fd]] = "up"
      BY DEF QuietState, AwaitedInv
    <2>2. peer' = peer /\ edge' = edge
      BY <1>19, <2>1 DEF Answer, QuietState
    <2>3. QED
      BY <1>5, <1>19, <2>2 DEF Answer
  <1>20. QED
    BY <1>6, <1>7, <1>8, <1>9, <1>10, <1>11, <1>12, <1>13, <1>14, <1>15, <1>16,
       <1>17, <1>18, <1>19 DEF QuietNext, ClientStep, Delete

LEMMA TailKeepsLast ==
  ASSUME NEW S, NEW s \in Seq(S), s # <<>>, Len(s) # 1
  PROVE  Tail(s) # <<>> /\ Tail(s)[Len(Tail(s))] = s[Len(s)]
  <1> DEFINE n == Len(s)
  <1>1. n \in Nat /\ n # 0 /\ n # 1
    OBVIOUS
  <1>2. /\ Len(Tail(s)) = n - 1
        /\ \A i \in 1 .. n - 1 : Tail(s)[i] = s[i + 1]
    OBVIOUS
  <1> HIDE DEF n
  <1>3. n - 1 \in 1 .. n - 1 /\ (n - 1) + 1 = n /\ n - 1 # 0
    BY <1>1
  <1>4. QED
    BY <1>2, <1>3 DEF n

\* Of a client that waits: where its request is.
LEMMA RequestStays ==
  ASSUME QuietState, RequestInv, QuietNext
  PROVE  RequestInv'
  <1> USE DEF RequestUnderWay, clientVars, kernelVars, limitVars, GoTo, MoveTo,
              Last
  \* of most steps: what they do to the events is none of the requests' business
  <1>1. ASSUME UNCHANGED <<inbox, awaiting, fdTable, tasks>>,
               pc["epoll"] # "read"
        PROVE  RequestInv'
    BY <1>1 DEF RequestInv
  <1>2. ASSUME NEW c \in Conns, Connect(c) \/ \E how \in {"fin", "rst"} : Leave(c, how)
        PROVE  RequestInv'
    BY <1>2 DEF Connect, Leave, RequestInv
  <1>3. ASSUME NEW c \in Conns, NEW type \in Types, Send(c, type)
        PROVE  RequestInv'
    <2>1. /\ UNCHANGED <<fdTable, tasks, pc, at, buf>>
          /\ awaiting' = IF type = "REQUEST" THEN awaiting \cup {c} ELSE awaiting
          /\ c \notin awaiting
          /\ inbox' = [inbox EXCEPT ![c] = Append(@, type)]
      BY <1>3 DEF Send
    <2>2. inbox'[c] # <<>> /\ inbox'[c][Len(inbox'[c])] = type
      <3>1. inbox'[c] = Append(inbox[c], type) /\ inbox[c] \in Seq(Types)
        BY <2>1 DEF QuietState
      <3>2. QED
        BY <3>1
    <2>3. \A d \in Conns : d # c => inbox'[d] = inbox[d]
      BY <2>1 DEF QuietState
    <2>4. awaiting \in SUBSET Conns
      BY DEF QuietState
    <2>5. QED
      BY <2>1, <2>2, <2>3, <2>4 DEF RequestInv
  <1>4. CASE EpollWait \/ DispatchDone \/ AcceptDone \/ Add
               \/ DeleteCtl("epoll") \/ DeleteDecr("epoll")
    BY <1>1, <1>4 DEF EpollWait, DispatchDone, AcceptDone, Add, DeleteCtl, DeleteDecr
  <1>5. ASSUME NEW event \in batch, Dispatch(event)
        PROVE  RequestInv'
    BY <1>1, <1>5 DEF Dispatch
  <1>6. CASE Accept \/ DeleteClose("epoll")
    <2>1. /\ UNCHANGED <<inbox, awaiting, tasks>>
          /\ pc["epoll"] # "read"
      BY <1>6 DEF Accept, DeleteClose
    <2>2. QED
      BY <2>1 DEF RequestInv
  <1>7. CASE ReadPacket
    <2> DEFINE read == fdTable[at["epoll"]]
    <2>1. /\ pc["epoll"] = "read" /\ read \in Conns
          /\ inbox[read] # <<>> /\ inbox[read] \in Seq(Types)
          /\ inbox' = [inbox EXCEPT ![read] = Tail(@)]
          /\ buf' = Head(inbox[read])
          /\ UNCHANGED <<awaiting, fdTable, tasks, pc, at>>
      BY <1>7 DEF ReadPacket, QuietState, Handling
    <2>2. ~(buf = "REQUEST")
      BY <2>1 DEF QuietState, AwaitedInv
    <2>3. \A c \in Conns : c # read => inbox'[c] = inbox[c]
      BY <2>1 DEF QuietState
    <2>4. inbox'[read] = Tail(inbox[read])
      BY <2>1 DEF QuietState
    <2>5. CASE inbox[read][Len(inbox[read])] = "REQUEST"
      <3>1. CASE Len(inbox[read]) = 1
        <4>1. buf' = "REQUEST"
          BY <2>1, <2>5, <3>1
        <4>2. QED
          BY <2>1, <2>2, <2>3, <4>1 DEF RequestInv, QuietState
      <3>2. CASE Len(inbox[read]) # 1
        <4>1. inbox'[read] # <<>> /\ inbox'[read][Len(inbox'[read])] = "REQUEST"
          BY <2>1, <2>4, <2>5, <3>2, TailKeepsLast
        <4>2. QED
          BY <2>1, <2>2, <2>3, <4>1 DEF RequestInv, QuietState
      <3>3. QED
        BY <3>1, <3>2
    <2>6. CASE inbox[read][Len(inbox[read])] # "REQUEST"
      BY <2>1, <2>2, <2>3, <2>6 DEF RequestInv, QuietState
    <2>7. QED
      BY <2>5, <2>6
  <1>8. CASE ReadDone
    <2> DEFINE read == fdTable[at["epoll"]]
    <2>1. /\ pc["epoll"] = "read" /\ inbox[read] = <<>> /\ tasks \subseteq tasks'
          /\ buf = "REQUEST" =>
               [conn |-> read, fd |-> at["epoll"]] \in tasks'
          /\ UNCHANGED <<inbox, awaiting>>
      BY <1>8 DEF ReadDone
    <2>2. buf = "REQUEST" => \E task \in tasks' : task.conn = read
      BY <2>1
    <2>3. QED
      BY <2>1, <2>2 DEF RequestInv
  <1>9. CASE ReadFails
    <2> DEFINE read == fdTable[at["epoll"]]
    <2>1. /\ pc["epoll"] = "read" /\ read \in Conns /\ peer[read] # "up"
          /\ UNCHANGED <<inbox, awaiting, tasks>>
      BY <1>9 DEF ReadFails, QuietState, Handling, HandledInv
    <2>2. read \notin awaiting
      BY <2>1 DEF QuietState, AwaitedInv
    <2>3. QED
      BY <2>1, <2>2 DEF RequestInv
  <1>10. ASSUME NEW w \in Workers, NEW task \in tasks, Answer(w, task)
         PROVE  RequestInv'
    <2>1. /\ tasks' = tasks \ {task} /\ awaiting' = awaiting \ {task.conn}
          /\ UNCHANGED <<inbox, fdTable, pc, at, buf>>
      BY <1>10 DEF Answer, QuietState, AwaitedInv
    <2>2. QED
      BY <2>1 DEF RequestInv
  <1>11. QED
    BY <1>2, <1>3, <1>4, <1>5, <1>6, <1>7, <1>8, <1>9, <1>10
       DEF QuietNext, ClientStep, Delete

LEMMA OverlookStep == ConnInv /\ OverlookInv /\ [Next]_vars => OverlookInv'
  <1> SUFFICES ASSUME ConnInv, OverlookInv, [Next]_vars, patient
               PROVE  (AllMonitored /\ NoticeInv /\ RequestInv)'
    BY PatientStays DEF OverlookInv
  <1>1. AllMonitored /\ NoticeInv /\ RequestInv /\ QuietState
    BY QuietStateHolds DEF OverlookInv
  <1>2. AllMonitored'
    BY <1>1, WatchStep, PatientStays DEF WatchInv
  <1>3. CASE Next
    BY <1>1, <1>2, <1>3, QuietSteps, NoticeStays, RequestStays
  <1>4. CASE UNCHANGED vars
    BY <1>1, <1>2, <1>4
       DEF vars, clientVars, kernelVars, NoticeInv, RequestInv, Noticed, Readable,
           RequestUnderWay, OpenConns, IsOpen, Last
  <1>5. QED
    BY <1>2, <1>3, <1>4

\* Then nothing that arrived is overlooked: what can be read will be reported,
\* and the request of a client that waits is on its way.
THEOREM ArrivalsAreNoticed == Spec => []NothingOverlooked
  <1>1. Init => OverlookInv
    <2> SUFFICES ASSUME Init PROVE OverlookInv
      OBVIOUS
    <2>1. OpenConns = {} /\ awaiting = {}
      BY DEF Init, OpenConns, IsOpen
    <2>2. QED
      BY <2>1 DEF Init, OverlookInv, AllMonitored, NoticeInv, RequestInv, IsOpen
  <1>2. ConnInv /\ OverlookInv => NothingOverlooked
    BY DEF OverlookInv, NothingOverlooked, NoticeInv, RequestInv
  <1>3. QED
    BY <1>1, <1>2, ConnInvariant, OverlookStep, PTL DEF Spec
=============================================================================

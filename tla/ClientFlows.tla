----------------------------- MODULE ClientFlows -----------------------------
(***************************************************************************)
(* The client's flows (client/client.c, client/epoll.c).  Two threads work *)
(* on each flow without a lock: updateEvents looks for flows whose epoch   *)
(* has passed and arms them for EPOLLOUT; epollLoop writes the packet when *)
(* the event comes, and after a request waits for the answer with EPOLLIN. *)
(* sendingFlag is what keeps updateEvents away from a flow meanwhile.      *)
(*                                                                         *)
(* Time is reduced to one bit a flow: due says that an epoch has passed    *)
(* since virtual_time.  Left out: the counters in epoll_conns_stats and    *)
(* params, which only a change of the number of connections reads.         *)
(***************************************************************************)
EXTENDS Integers, FiniteSets

CONSTANTS Flows,           \* the descriptors createEvents made
          NoFlow,          \* the flow of a thread that works on none
          Closable,        \* flows the server may close
          ReplyLimit       \* bound on the requests of a flow not yet done

ASSUME NoFlowAssumption == NoFlow \notin Flows
ASSUME ReplyLimitAssumption == ReplyLimit \in Nat \ {0}

VARIABLES
  \* packets_time[f], shared by the threads
  efd,      \* efd[f]: is efd other than 0?
  closed,   \* connectionClosed
  flag,     \* sendingFlag
  due,      \* has an epoch passed since virtual_time?
  \* the kernel
  mask,     \* mask[f]: what f is registered for, "NONE" if it is not
  edge,     \* edge[f]: an event of mask[f] not yet reported
  open,     \* flows whose descriptor is open
  \* updateEvents
  upc, ufd,
  \* epollLoop
  lpc, lfd, batch,
  \* the server
  asked,    \* asked[f]: requests it has still to answer
  replies,  \* replies[f]: answers the client has not read
  peer,     \* peer[f]: "up", or how f was closed: "fin", "rst", "shut" for
            \* a FIN the client has written after, "broken" when the reset
            \* that answers this has come
  \* history
  sends     \* sends[f]: packets sent to it since an epoch last passed

timeVars   == <<efd, closed, flag, due>>
kernelVars == <<mask, edge, open>>
updVars    == <<upc, ufd>>
loopVars   == <<lpc, lfd, batch>>
serverVars == <<asked, replies, peer>>
vars == <<timeVars, kernelVars, updVars, loopVars, serverVars, sends>>

\* createEvents and setEventTimeEfd have run; no flow is registered yet.
Init ==
  /\ efd = [f \in Flows |-> TRUE]
  /\ closed = [f \in Flows |-> FALSE]
  /\ flag = [f \in Flows |-> FALSE]
  /\ due = [f \in Flows |-> FALSE]
  /\ mask = [f \in Flows |-> "NONE"]
  /\ edge = [f \in Flows |-> FALSE]
  /\ open = Flows
  /\ upc = "scan" /\ ufd = NoFlow
  /\ lpc = "wait" /\ lfd = NoFlow /\ batch = {}
  /\ asked = [f \in Flows |-> 0]
  /\ replies = [f \in Flows |-> 0]
  /\ peer = [f \in Flows |-> "up"]
  /\ sends = [f \in Flows |-> 0]

Running == upc # "exited"
IsReset(f) == peer[f] \in {"rst", "broken"}

-----------------------------------------------------------------------------
(* The clock and the server                                                *)

Elapse(f) ==
  /\ Running
  /\ ~due[f] /\ f \in open
  /\ due' = [due EXCEPT ![f] = TRUE]
  /\ sends' = [sends EXCEPT ![f] = 0]
  /\ UNCHANGED <<efd, closed, flag, kernelVars, updVars, loopVars, serverVars>>

ServerAnswers(f) ==
  /\ Running
  /\ asked[f] > 0 /\ peer[f] = "up"
  /\ asked' = [asked EXCEPT ![f] = @ - 1]
  /\ replies' = [replies EXCEPT ![f] = @ + 1]
  /\ edge' = [edge EXCEPT ![f] = @ \/ mask[f] = "IN"]
  /\ UNCHANGED <<timeVars, mask, open, updVars, loopVars, peer, sends>>

\* a FIN or a reset; either raises an edge whatever f is registered for
ServerCloses(f, how) ==
  /\ Running
  /\ f \in Closable \cap open /\ peer[f] = "up"
  /\ peer' = [peer EXCEPT ![f] = how]
  /\ edge' = [edge EXCEPT ![f] = @ \/ mask[f] # "NONE"]
  /\ asked' = [asked EXCEPT ![f] = 0]
  /\ sends' = [sends EXCEPT ![f] = 0]
  /\ UNCHANGED <<timeVars, mask, open, updVars, loopVars, replies>>

\* what a closed connection answers to a write
ResetArrives(f) ==
  /\ Running
  /\ f \in open /\ peer[f] = "shut"
  /\ peer' = [peer EXCEPT ![f] = "broken"]
  /\ edge' = [edge EXCEPT ![f] = @ \/ mask[f] # "NONE"]
  /\ UNCHANGED <<timeVars, mask, open, updVars, loopVars, asked, replies, sends>>

-----------------------------------------------------------------------------
(* updateEvents                                                            *)

\* a slip: sendingFlag is not looked at
ScanUnflagged(f) ==
  /\ upc = "scan"
  /\ efd[f]
  /\ ~closed[f] /\ due[f]
  /\ flag' = [flag EXCEPT ![f] = TRUE]
  /\ upc' = "arm" /\ ufd' = f
  /\ UNCHANGED <<efd, closed, due, kernelVars, loopVars, serverVars, sends>>
\* canSendPkt
Scan(f) ==
  /\ upc = "scan"
  /\ efd[f]
  /\ ~flag[f] /\ ~closed[f] /\ due[f]
  /\ flag' = [flag EXCEPT ![f] = TRUE]
  /\ upc' = "arm" /\ ufd' = f
  /\ UNCHANGED <<efd, closed, due, kernelVars, loopVars, serverVars,
                 sends>>

\* modifyEpollEvent for EPOLLOUT: a socket that can be written reports at once
Arm ==
  /\ upc = "arm"
  /\ mask[ufd] # "NONE"
  /\ mask' = [mask EXCEPT ![ufd] = "OUT"]
  /\ edge' = [edge EXCEPT ![ufd] = TRUE]
  /\ upc' = "scan" /\ ufd' = NoFlow
  /\ UNCHANGED <<timeVars, open, loopVars, serverVars, sends>>

\* the flow is not registered: addEpollEvent, which sets its fields afresh
ArmNew ==
  /\ upc = "arm"
  /\ mask[ufd] = "NONE" /\ ufd \in open
  /\ efd' = [efd EXCEPT ![ufd] = TRUE]
  /\ closed' = [closed EXCEPT ![ufd] = FALSE]
  /\ flag' = [flag EXCEPT ![ufd] = FALSE]
  /\ mask' = [mask EXCEPT ![ufd] = "OUT"]
  /\ edge' = [edge EXCEPT ![ufd] = TRUE]
  /\ upc' = "scan" /\ ufd' = NoFlow
  /\ UNCHANGED <<due, open, loopVars, serverVars, sends>>

\* the loop has closed the descriptor meanwhile: both calls fail, exit(1)
ArmClosed ==
  /\ upc = "arm"
  /\ ufd \notin open
  /\ upc' = "exited" /\ lpc' = "exited"
  /\ UNCHANGED <<timeVars, kernelVars, ufd, lfd, batch, serverVars,
                 sends>>

UpdateStep == (\E f \in Flows : Scan(f)) \/ Arm \/ ArmNew \/ ArmClosed

-----------------------------------------------------------------------------
(* epollLoop                                                               *)

Reported(f) ==
  /\ edge[f]
  /\ mask[f] = "OUT" \/ replies[f] > 0 \/ peer[f] # "up"

EpollWait ==
  /\ lpc = "wait"
  /\ batch' = {[fd |-> f, event |-> IF IsReset(f) THEN "HUP" ELSE mask[f]] :
                 f \in {g \in Flows : Reported(g)}}
  /\ batch' # {}
  /\ edge' = [f \in Flows |-> edge[f] /\ ~Reported(f)]
  /\ lpc' = "next"
  /\ UNCHANGED <<timeVars, mask, open, updVars, lfd, serverVars,
                 sends>>

NextEvent(e, kind, pc) ==
  /\ lpc = "next"
  /\ e \in batch /\ e.event = kind
  /\ batch' = batch \ {e}
  /\ lfd' = IF pc = "next" THEN NoFlow ELSE e.fd
  /\ lpc' = pc

BatchDone ==
  /\ lpc = "next" /\ batch = {}
  /\ lpc' = "wait"
  /\ UNCHANGED <<timeVars, kernelVars, updVars, lfd, batch, serverVars, sends>>

\* deleteEpollEvent; to updateEvents its assignments are one step, which only
\* the close can harm
Delete(f) ==
  /\ efd' = [efd EXCEPT ![f] = FALSE]
  /\ closed' = [closed EXCEPT ![f] = TRUE]
  /\ open' = open \ {f}
  /\ mask' = [mask EXCEPT ![f] = "NONE"]
  /\ edge' = [edge EXCEPT ![f] = FALSE]
  /\ UNCHANGED <<flag, due, updVars, serverVars, sends>>

HangUp(e) == NextEvent(e, "HUP", "next") /\ Delete(e.fd)

WriteFails(e) ==
  NextEvent(e, "OUT", "next") /\ peer[e.fd] = "rst" /\ Delete(e.fd)

\* The reset that follows a FIN turns the error into SIGPIPE, which nothing
\* handles: the client ends.
BrokenPipe(e) ==
  /\ NextEvent(e, "OUT", "exited")
  /\ peer[e.fd] = "broken"
  /\ upc' = "exited"
  /\ UNCHANGED <<timeVars, kernelVars, ufd, serverVars, sends>>

\* Until its reset arrives, writes after a FIN succeed.
Send(f) ==
  /\ ~IsReset(f)
  /\ peer' = [peer EXCEPT ![f] = IF @ = "fin" THEN "shut" ELSE @]
  /\ sends' = [sends EXCEPT ![f] = IF peer[f] = "up" THEN @ + 1 ELSE @]

WriteRequest(e) ==
  /\ NextEvent(e, "OUT", "await")
  /\ Send(e.fd)
  /\ asked[e.fd] + replies[e.fd] < ReplyLimit
  /\ asked' = [asked EXCEPT ![e.fd] = IF peer[e.fd] = "up" THEN @ + 1 ELSE @]
  /\ UNCHANGED <<timeVars, kernelVars, updVars, replies>>

WriteHeartbeat(e) ==
  /\ NextEvent(e, "OUT", "release")
  /\ Send(e.fd)
  /\ UNCHANGED <<timeVars, kernelVars, updVars, asked, replies>>

\* modifyEpollEvent for EPOLLIN after a request
AwaitReply ==
  /\ lpc = "await"
  /\ mask' = [mask EXCEPT ![lfd] = "IN"]
  /\ edge' = [edge EXCEPT ![lfd] = replies[lfd] > 0 \/ peer[lfd] # "up"]
  /\ lpc' = "stamp"
  /\ UNCHANGED <<timeVars, open, updVars, lfd, batch, serverVars,
                 sends>>

\* a slip: the flag is not reset
ReleaseForgotten ==
  /\ lpc = "release"
  /\ lpc' = "stamp"
  /\ UNCHANGED <<timeVars, kernelVars, updVars, lfd, batch, serverVars, sends>>
\* resetSendPkt after a heartbeat
Release ==
  /\ lpc = "release"
  /\ flag' = [flag EXCEPT ![lfd] = FALSE]
  /\ lpc' = "stamp"
  /\ UNCHANGED <<efd, closed, due, kernelVars, updVars, lfd, batch, serverVars,
                 sends>>

\* a slip: virtual_time stays what it was
StampForgotten ==
  /\ lpc = "stamp"
  /\ lpc' = "next" /\ lfd' = NoFlow
  /\ UNCHANGED <<timeVars, kernelVars, updVars, batch, serverVars, sends>>
\* setEventSendTime
Stamp ==
  /\ lpc = "stamp"
  /\ due' = [due EXCEPT ![lfd] = FALSE]
  /\ lpc' = "next" /\ lfd' = NoFlow
  /\ UNCHANGED <<efd, closed, flag, kernelVars, updVars, batch, serverVars,
                 sends>>

\* a slip: the flag is not reset
ReadReplyFlagged(e) ==
  /\ NextEvent(e, "IN", "next")
  /\ replies[e.fd] > 0
  /\ replies' = [replies EXCEPT ![e.fd] = 0]
  /\ UNCHANGED <<timeVars, kernelVars, updVars, asked, peer, sends>>
\* one read, of every answer that is there
ReadReply(e) ==
  /\ NextEvent(e, "IN", "next")
  /\ replies[e.fd] > 0
  /\ replies' = [replies EXCEPT ![e.fd] = 0]
  /\ flag' = [flag EXCEPT ![e.fd] = FALSE]
  /\ UNCHANGED <<efd, closed, due, kernelVars, updVars, asked, peer, sends>>

\* a slip: end of file is not taken for the end
ReadFailsOnReset(e) ==
  /\ NextEvent(e, "IN", "next")
  /\ peer[e.fd] # "up" /\ replies[e.fd] = 0
  /\ IF peer[e.fd] = "rst"
       THEN Delete(e.fd)
       ELSE UNCHANGED <<timeVars, kernelVars, updVars, serverVars, sends>>
\* a slip: an answer is taken for the end
ReadFailsAnyway(e) ==
  /\ NextEvent(e, "IN", "next")
  /\ Delete(e.fd)
\* End of file.  No read fails with -1: a flow that has been reset is reported
\* with HUP, and answers that came before the reset are read first.  So the
\* variable error, which nothing sets (client.c:314), is never looked at.
ReadFails(e) ==
  /\ NextEvent(e, "IN", "next")
  /\ peer[e.fd] # "up" /\ replies[e.fd] = 0
  /\ Delete(e.fd)

LoopStep ==
  \/ EpollWait \/ BatchDone \/ AwaitReply \/ Release \/ Stamp
  \/ \E e \in batch : \/ HangUp(e) \/ WriteFails(e) \/ BrokenPipe(e)
                      \/ WriteRequest(e) \/ WriteHeartbeat(e)
                      \/ ReadReply(e) \/ ReadFails(e)

-----------------------------------------------------------------------------
Next ==
  \/ UpdateStep
  \/ LoopStep
  \/ \E f \in Flows :
       \/ Elapse(f) \/ ServerAnswers(f) \/ ResetArrives(f)
       \/ \E how \in {"fin", "rst"} : ServerCloses(f, how)

Spec == Init /\ [][Next]_vars

\* The threads run, updateEvents scans every flow again and again, time
\* passes and the server answers.
FairSpec ==
  /\ Spec
  /\ WF_vars(LoopStep)
  /\ WF_vars(Arm \/ ArmNew \/ ArmClosed)
  /\ \A f \in Flows : /\ SF_vars(Scan(f))
                      /\ WF_vars(Elapse(f))
                      /\ WF_vars(ServerAnswers(f))
                      /\ WF_vars(ResetArrives(f))

-----------------------------------------------------------------------------
(* Properties                                                              *)

\* Every variable has its type, and a closed flow is out of the table.
TypeOK ==
  /\ efd \in [Flows -> BOOLEAN] /\ closed \in [Flows -> BOOLEAN]
  /\ flag \in [Flows -> BOOLEAN] /\ due \in [Flows -> BOOLEAN]
  /\ mask \in [Flows -> {"NONE", "OUT", "IN"}]
  /\ edge \in [Flows -> BOOLEAN]
  /\ open \in SUBSET Flows
  /\ upc \in {"scan", "arm", "exited"} /\ ufd \in Flows \cup {NoFlow}
  /\ lpc \in {"wait", "next", "await", "release", "stamp", "exited"}
  /\ lfd \in Flows \cup {NoFlow}
  /\ batch \in SUBSET [fd : Flows, event : {"OUT", "IN", "HUP"}]
  /\ asked \in [Flows -> 0 .. ReplyLimit]
  /\ replies \in [Flows -> 0 .. ReplyLimit]
  /\ peer \in [Flows -> {"up", "fin", "rst", "shut", "broken"}]
  /\ sends \in [Flows -> Nat]
  /\ \A f \in Flows \ open : closed[f] /\ ~efd[f] /\ mask[f] = "NONE"

\* A flow whose flag is set is skipped by updateEvents, so somebody must still
\* be going to reset it or to find the flow closed: the thread at work on it,
\* an event not yet handled, or the answer the server owes (canSendPkt against
\* resetSendPkt).  So it is also with a flow the server has closed.
Cared(f) ==
  \/ upc = "arm" /\ ufd = f
  \/ Reported(f) \/ \E e \in batch : e.fd = f
  \/ lpc \in {"await", "release"} /\ lfd = f
  \/ mask[f] = "IN" /\ asked[f] > 0
FlagIsCared == Running => \A f \in open : flag[f] => Cared(f)

\* Though the two threads may arm a flow twice, never more than two of its
\* requests are unanswered or unread, in the first epoch or in any other.
TwoRequestsOut == \A f \in Flows : asked[f] + replies[f] <= 2

\* A flow sends at most three packets before the next epoch passes, though
\* the flag is reset before virtual_time is set (client.c:306-308) and when
\* the flow is registered (epoll.c:22).
ThreeSendsPerEpoch == \A f \in Flows : sends[f] <= 3

\* README.md:16: "any flow sends a packet to the server in every epoch": a
\* flow never falls silent while its server answers and the client runs.
EveryFlowKeepsSending ==
  \A f \in Flows : \/ []<>(lpc = "stamp" /\ lfd = f)
                   \/ <>(peer[f] # "up" \/ ~Running)

\* A flow the server leaves alone never makes the client end: neither
\* updateEvents, when it arms a flow that epollLoop has closed since it found
\* it ready (epoll.c:28), nor a write to a connection that is gone (SIGPIPE).
EndsOnlyWhenClosed == Running \/ \E f \in Flows : peer[f] # "up"

\* A flow the server closes, at any place of the two threads, is deleted in the
\* end, though the notice may be used up by an answer that comes before the end
\* of file (client.c:311-328 reads once), and though nothing is heard of a flow
\* not yet registered.
ClosedFlowsDeleted ==
  \A f \in Flows : peer[f] # "up" ~> f \notin open \/ ~Running
=============================================================================

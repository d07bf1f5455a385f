--------------------------- MODULE ClientFlowsProofs --------------------------
(* For any set of flows, however many of them the server may close: the      *)
(* types, who ends the client, and what sendingFlag achieves.                *)
EXTENDS ClientFlows, TLAPS

(* Where the threads are and what has been reported to them.                 *)

Places ==
  /\ upc = "arm" => ufd \in Flows
  /\ lpc = "wait" => batch = {}
  /\ lpc \in {"await", "release", "stamp"} =>
       /\ lfd \in open /\ mask[lfd] # "NONE"
       /\ \A e \in batch : e.fd # lfd

Kernel ==
  /\ \A f \in Flows : edge[f] => mask[f] # "NONE"
  /\ \A e \in batch : /\ mask[e.fd] # "NONE"
                      /\ e.event = "HUP" => IsReset(e.fd)
  /\ \A d, e \in batch : d.fd = e.fd => d = e

Out(f) == asked[f] + replies[f]

Bounded == \A f \in Flows : Out(f) <= ReplyLimit
ClosedByServer == \A f \in Flows \ open : peer[f] # "up"

FlowInv == TypeOK /\ Places /\ Kernel /\ Bounded /\ ClosedByServer


LEMMA FlowInit == Init => FlowInv
BY NoFlowAssumption, ReplyLimitAssumption
   DEF Init, FlowInv, TypeOK, Places, Kernel, Bounded, ClosedByServer, Out

LEMMA EventType ==
  ASSUME TypeOK, NEW e \in batch
  PROVE  e.fd \in Flows /\ e = [fd |-> e.fd, event |-> e.event]
BY DEF TypeOK

\* Taking an event leaves none for its flow.
LEMMA EventTaken ==
  ASSUME FlowInv, NEW e \in batch, NEW kind, NEW pc, NextEvent(e, kind, pc)
  PROVE  /\ batch' = batch \ {e} /\ batch' \subseteq batch
         /\ \A d \in batch' : d.fd # e.fd
         /\ e.fd \in Flows /\ e.fd \in open /\ mask[e.fd] # "NONE"
         /\ lpc = "next" /\ lpc' = pc /\ e.event = kind
         /\ lfd' = IF pc = "next" THEN NoFlow ELSE e.fd
<1>1. e.fd \in Flows
  BY EventType DEF FlowInv
<1>2. mask[e.fd] # "NONE"
  BY DEF FlowInv, Kernel
<1>3. e.fd \in open
  BY <1>1, <1>2 DEF FlowInv, TypeOK
<1>4. batch' = batch \ {e} /\ \A d \in batch' : d.fd # e.fd
  BY DEF NextEvent, FlowInv, Kernel
<1> QED BY <1>1, <1>2, <1>3, <1>4 DEF NextEvent

\* deleteEpollEvent of a flow the server has closed.
LEMMA DeleteKeepsInv ==
  ASSUME FlowInv, NEW e \in batch, NEW kind, NextEvent(e, kind, "next"),
         Delete(e.fd), peer[e.fd] # "up"
  PROVE  FlowInv'
<1>1. /\ batch' \subseteq batch /\ \A d \in batch' : d.fd # e.fd
      /\ e.fd \in Flows /\ lpc' = "next" /\ lfd' = NoFlow
  BY EventTaken
<1>2. TypeOK'
  BY <1>1 DEF Delete, updVars, serverVars, FlowInv, TypeOK
<1>3. Places'
  BY <1>1 DEF Delete, updVars, FlowInv, Places
<1>4. Kernel'
  <2>1. \A f \in Flows : edge'[f] => mask'[f] # "NONE"
    BY <1>1 DEF Delete, FlowInv, Kernel, TypeOK
  <2>2. \A d \in batch' : d \in batch /\ d.fd \in Flows /\ d.fd # e.fd
    BY <1>1, EventType DEF FlowInv
  <2>3. \A d \in batch' : mask'[d.fd] = mask[d.fd] /\ peer' = peer
    BY <1>1, <2>2 DEF Delete, serverVars, FlowInv, TypeOK
  <2> QED BY <1>1, <2>1, <2>2, <2>3 DEF FlowInv, Kernel, IsReset
<1>5. Bounded' /\ ClosedByServer'
  BY <1>1 DEF Delete, serverVars, FlowInv, Bounded, ClosedByServer, Out
<1> QED BY <1>2, <1>3, <1>4, <1>5 DEF FlowInv

\* A write, of a request or not, to a flow that has not been reset.
LEMMA WriteKeepsInv ==
  ASSUME FlowInv, NEW e \in batch,
         NEW pc \in {"await", "release"}, NextEvent(e, "OUT", pc), Send(e.fd),
         UNCHANGED <<timeVars, kernelVars, updVars, replies>>,
         \/ UNCHANGED asked
         \/ /\ asked[e.fd] + replies[e.fd] < ReplyLimit
            /\ asked' = [asked EXCEPT ![e.fd] =
                           IF peer[e.fd] = "up" THEN @ + 1 ELSE @]
  PROVE  FlowInv'
<1>1. /\ batch' \subseteq batch /\ \A d \in batch' : d.fd # e.fd
      /\ e.fd \in Flows /\ e.fd \in open /\ mask[e.fd] # "NONE"
      /\ lpc' = pc /\ lfd' = e.fd
  BY EventTaken
<1>2. /\ asked' \in [Flows -> 0 .. ReplyLimit] /\ Bounded'
  BY <1>1, ReplyLimitAssumption DEF FlowInv, TypeOK, Bounded, Out
<1>3. /\ peer' \in [Flows -> {"up", "fin", "rst", "shut", "broken"}]
      /\ sends' \in [Flows -> Nat]
      /\ \A f \in Flows : (peer'[f] = "up" <=> peer[f] = "up")
                         /\ (IsReset(f)' <=> IsReset(f))
  BY <1>1 DEF Send, FlowInv, TypeOK, IsReset
<1>4. TypeOK'
  BY <1>1, <1>2, <1>3 DEF timeVars, kernelVars, updVars, FlowInv, TypeOK
<1>5. Places'
  BY <1>1 DEF kernelVars, updVars, FlowInv, Places
<1>6. Kernel' /\ ClosedByServer'
  <2>1. \A d \in batch' : d \in batch /\ d.fd \in Flows
    BY <1>1, EventType DEF FlowInv
  <2> QED BY <1>3, <2>1 DEF kernelVars, FlowInv, Kernel, ClosedByServer
<1> QED BY <1>2, <1>4, <1>5, <1>6 DEF FlowInv

LEMMA EpollWaitKeepsInv == FlowInv /\ EpollWait => FlowInv'
<1> SUFFICES ASSUME FlowInv, EpollWait PROVE FlowInv'
  OBVIOUS
<1>1. \A f \in Flows : Reported(f) => mask[f] \in {"OUT", "IN"}
  BY DEF Reported, FlowInv, Kernel, TypeOK
<1>2. \A e \in batch' :
        /\ e.fd \in Flows /\ mask[e.fd] # "NONE"
        /\ e = [fd |-> e.fd, event |-> IF IsReset(e.fd) THEN "HUP"
                                      ELSE mask[e.fd]]
        /\ e.event \in {"OUT", "IN", "HUP"}
        /\ e.event = "HUP" => IsReset(e.fd)
  BY <1>1 DEF EpollWait
<1>3. batch' \in SUBSET [fd : Flows, event : {"OUT", "IN", "HUP"}]
  BY <1>2
<1>4. TypeOK'
  BY <1>3 DEF EpollWait, timeVars, updVars, serverVars, FlowInv, TypeOK
<1>5. Places'
  BY DEF EpollWait, updVars, FlowInv, Places
<1>6. Kernel'
  <2>1. \A d, e \in batch' : d.fd = e.fd => d = e
    BY <1>2
  <2> QED BY <1>2, <2>1 DEF EpollWait, serverVars, FlowInv, Kernel, IsReset
<1>7. Bounded' /\ ClosedByServer'
  BY DEF EpollWait, serverVars, FlowInv, Bounded, ClosedByServer, Out
<1> QED BY <1>4, <1>5, <1>6, <1>7 DEF FlowInv

LEMMA FlowStep == FlowInv /\ [Next]_vars => FlowInv'
<1> SUFFICES ASSUME FlowInv, [Next]_vars PROVE FlowInv'
  OBVIOUS
<1>0. TypeOK /\ Places /\ Kernel /\ Bounded /\ ClosedByServer
  BY DEF FlowInv
<1>1. ASSUME NEW f \in Flows, Elapse(f) PROVE FlowInv'
  BY <1>0, <1>1 DEF Elapse, FlowInv, TypeOK, Places, Kernel, Bounded,
     ClosedByServer, Out, IsReset, kernelVars, updVars, loopVars, serverVars
<1>2. ASSUME NEW f \in Flows, ServerAnswers(f) PROVE FlowInv'
  <2>1. /\ asked' \in [Flows -> 0 .. ReplyLimit]
        /\ replies' \in [Flows -> 0 .. ReplyLimit] /\ Bounded'
    BY <1>0, <1>2, ReplyLimitAssumption DEF ServerAnswers, TypeOK, Bounded, Out
  <2> QED BY <1>0, <1>2, <2>1 DEF ServerAnswers, FlowInv, TypeOK, Places,
          Kernel, ClosedByServer, IsReset, timeVars, updVars, loopVars
<1>3. ASSUME NEW f \in Flows, NEW how \in {"fin", "rst"}, ServerCloses(f, how)
      PROVE  FlowInv'
  <2>1. /\ peer' \in [Flows -> {"up", "fin", "rst", "shut", "broken"}]
        /\ \A g \in Flows : /\ peer[g] # "up" => peer'[g] # "up"
                           /\ IsReset(g) => IsReset(g)'
    BY <1>0, <1>3 DEF ServerCloses, TypeOK, IsReset
  <2>2. asked' \in [Flows -> 0 .. ReplyLimit] /\ Bounded'
    BY <1>0, <1>3, ReplyLimitAssumption DEF ServerCloses, TypeOK, Bounded, Out
  <2>3. \A e \in batch : e.fd \in Flows
    BY <1>0, EventType
  <2> QED BY <1>0, <1>3, <2>1, <2>2, <2>3 DEF ServerCloses, FlowInv, TypeOK,
          Places, Kernel, ClosedByServer, timeVars, updVars, loopVars
<1>4. ASSUME NEW f \in Flows, ResetArrives(f) PROVE FlowInv'
  <2>1. /\ peer' \in [Flows -> {"up", "fin", "rst", "shut", "broken"}]
        /\ \A g \in Flows : /\ peer[g] # "up" => peer'[g] # "up"
                           /\ IsReset(g) => IsReset(g)'
    BY <1>0, <1>4 DEF ResetArrives, TypeOK, IsReset
  <2>2. \A e \in batch : e.fd \in Flows
    BY <1>0, EventType
  <2> QED BY <1>0, <1>4, <2>1, <2>2 DEF ResetArrives, FlowInv, TypeOK, Places,
          Kernel, Bounded, Out, ClosedByServer, timeVars, updVars, loopVars
<1>5. ASSUME NEW f \in Flows, Scan(f) PROVE FlowInv'
  BY <1>0, <1>5 DEF Scan, FlowInv, TypeOK, Places, Kernel, Bounded,
     ClosedByServer, Out, IsReset, kernelVars, loopVars, serverVars
<1>6. CASE Arm
  <2>1. ufd \in open
    BY <1>0, <1>6 DEF Arm, TypeOK, Places
  <2>2. \A e \in batch : e.fd \in Flows
    BY <1>0, EventType
  <2>3. TypeOK'
    BY <1>0, <1>6, <2>1 DEF Arm, TypeOK, timeVars, loopVars, serverVars
  <2> QED BY <1>0, <1>6, <2>1, <2>2, <2>3 DEF Arm, FlowInv, TypeOK, Places,
          Kernel, Bounded, ClosedByServer, Out, IsReset, timeVars, loopVars,
          serverVars
<1>7. CASE ArmNew
  <2>1. TypeOK'
    BY <1>0, <1>7 DEF ArmNew, TypeOK, loopVars, serverVars
  <2>2. \A e \in batch : e.fd \in Flows
    BY <1>0, EventType
  <2> QED BY <1>0, <1>7, <2>1, <2>2 DEF ArmNew, FlowInv, TypeOK, Places, Kernel,
          Bounded, ClosedByServer, Out, IsReset, loopVars, serverVars
<1>8. CASE ArmClosed
  BY <1>0, <1>8 DEF ArmClosed, FlowInv, TypeOK, Places, Kernel, Bounded,
     ClosedByServer, Out, IsReset, timeVars, kernelVars, serverVars
<1>9. CASE EpollWait
  BY <1>9, EpollWaitKeepsInv
<1>10. CASE BatchDone
  BY <1>0, <1>10 DEF BatchDone, FlowInv, TypeOK, Places, Kernel, Bounded,
     ClosedByServer, Out, IsReset, timeVars, kernelVars, updVars, serverVars
<1>11. CASE AwaitReply
  <2>1. lfd \in Flows /\ lfd \in open
    BY <1>0, <1>11 DEF AwaitReply, TypeOK, Places
  <2>2. TypeOK'
    BY <1>0, <1>11, <2>1 DEF AwaitReply, TypeOK, timeVars, updVars, serverVars
  <2>3. \A e \in batch : e.fd \in Flows
    BY <1>0, EventType
  <2> QED BY <1>0, <1>11, <2>1, <2>2, <2>3 DEF AwaitReply, FlowInv, TypeOK,
          Places, Kernel, Bounded, ClosedByServer, Out, IsReset, timeVars,
          updVars, serverVars
<1>12. CASE Release
  BY <1>0, <1>12 DEF Release, FlowInv, TypeOK, Places, Kernel, Bounded,
     ClosedByServer, Out, IsReset, kernelVars, updVars, serverVars
<1>13. CASE Stamp
  BY <1>0, <1>13 DEF Stamp, FlowInv, TypeOK, Places, Kernel, Bounded,
     ClosedByServer, Out, IsReset, kernelVars, updVars, serverVars
<1>14. ASSUME NEW e \in batch, HangUp(e) PROVE FlowInv'
  <2>1. peer[e.fd] # "up"
    BY <1>0, <1>14 DEF HangUp, NextEvent, Kernel, IsReset
  <2> QED BY <1>14, <2>1, DeleteKeepsInv DEF HangUp
<1>15. ASSUME NEW e \in batch, WriteFails(e) PROVE FlowInv'
  BY <1>15, DeleteKeepsInv DEF WriteFails
<1>16. ASSUME NEW e \in batch, BrokenPipe(e) PROVE FlowInv'
  <2>1. NextEvent(e, "OUT", "exited")
    BY <1>16 DEF BrokenPipe
  <2>2. batch' \subseteq batch /\ lpc' = "exited" /\ lfd' = e.fd
    BY <2>1, EventTaken
  <2>3. e.fd \in Flows
    BY <2>1, EventTaken
  <2> QED BY <1>0, <1>16, <2>2, <2>3 DEF BrokenPipe, FlowInv, TypeOK, Places,
          Kernel, Bounded, ClosedByServer, Out, IsReset, timeVars, kernelVars,
          serverVars
<1>17. ASSUME NEW e \in batch, WriteRequest(e) PROVE FlowInv'
  BY <1>17, WriteKeepsInv DEF WriteRequest
<1>18. ASSUME NEW e \in batch, WriteHeartbeat(e) PROVE FlowInv'
  BY <1>18, WriteKeepsInv DEF WriteHeartbeat, serverVars
<1>19. ASSUME NEW e \in batch, ReadReply(e) PROVE FlowInv'
  <2>1. /\ batch' \subseteq batch /\ lpc' = "next" /\ lfd' = NoFlow
        /\ e.fd \in Flows
    BY <1>19, EventTaken DEF ReadReply
  <2>2. replies' \in [Flows -> 0 .. ReplyLimit] /\ Bounded'
    BY <1>0, <1>19, <2>1, ReplyLimitAssumption
       DEF ReadReply, TypeOK, Bounded, Out
  <2> QED BY <1>0, <1>19, <2>1, <2>2 DEF ReadReply, FlowInv, TypeOK, Places,
          Kernel, ClosedByServer, IsReset, kernelVars, updVars
<1>20. ASSUME NEW e \in batch, ReadFails(e) PROVE FlowInv'
  BY <1>20, DeleteKeepsInv DEF ReadFails
<1>21. CASE UNCHANGED vars
  BY <1>0, <1>21 DEF vars, FlowInv, TypeOK, Places, Kernel, Bounded,
     ClosedByServer, Out, IsReset, timeVars, kernelVars, updVars, loopVars,
     serverVars
<1> QED BY <1>1, <1>2, <1>3, <1>4, <1>5, <1>6, <1>7, <1>8, <1>9, <1>10, <1>11,
        <1>12, <1>13, <1>14, <1>15, <1>16, <1>17, <1>18, <1>19, <1>20,
        <1>21 DEF Next, UpdateStep, LoopStep

LEMMA FlowInvariant == Spec => []FlowInv
BY FlowInit, FlowStep, PTL DEF Spec

\* Every variable keeps its type, and a closed flow is out of the table.
THEOREM FlowTyping == Spec => []TypeOK
BY FlowInvariant, PTL DEF FlowInv

\* What the server has closed stays closed.
LEMMA PeerStays ==
  ASSUME TypeOK, [Next]_vars, NEW f \in Flows, peer[f] # "up"
  PROVE  peer'[f] # "up"
<1>1. ASSUME NEW g \in Flows, NEW how \in {"fin", "rst"}, ServerCloses(g, how)
      PROVE  peer'[f] # "up"
  BY <1>1 DEF ServerCloses, TypeOK
<1>2. ASSUME NEW g \in Flows, ResetArrives(g) PROVE peer'[f] # "up"
  BY <1>2 DEF ResetArrives, TypeOK
<1>3. ASSUME NEW e \in batch, Send(e.fd) PROVE peer'[f] # "up"
  BY <1>3 DEF Send, TypeOK
<1>4. \/ UNCHANGED peer
      \/ \E g \in Flows : \/ \E how \in {"fin", "rst"} : ServerCloses(g, how)
                         \/ ResetArrives(g)
      \/ \E e \in batch : Send(e.fd)
  BY DEF Next, UpdateStep, LoopStep, vars, Elapse, ServerAnswers, Scan, Arm,
     ArmNew, ArmClosed, EpollWait, BatchDone, AwaitReply, Release, Stamp,
     HangUp, WriteFails, Delete, WriteRequest, WriteHeartbeat, BrokenPipe,
     ReadReply, ReadFails, serverVars
<1> QED BY <1>1, <1>2, <1>3, <1>4

\* Only a flow that the server has closed makes the client end: whatever the
\* two threads do to a flow at the same time, it is open while it is armed.
THEOREM NobodyElseEnds == Spec => []EndsOnlyWhenClosed
<1>1. Init => EndsOnlyWhenClosed
  BY DEF Init, EndsOnlyWhenClosed, Running
<1>2. FlowInv /\ EndsOnlyWhenClosed /\ [Next]_vars => EndsOnlyWhenClosed'
  <2> SUFFICES ASSUME FlowInv, EndsOnlyWhenClosed, [Next]_vars
               PROVE  EndsOnlyWhenClosed'
    OBVIOUS
  <2>1. TypeOK /\ Places /\ ClosedByServer
    BY DEF FlowInv
  <2>2. \/ Running' \/ UNCHANGED upc \/ ArmClosed
        \/ \E e \in batch : BrokenPipe(e)
    BY DEF Next, UpdateStep, LoopStep, vars, Running, Elapse, ServerAnswers,
       ServerCloses, ResetArrives, Scan, Arm, ArmNew, EpollWait, BatchDone,
       AwaitReply, Release, Stamp, HangUp, WriteFails, Delete, WriteRequest,
       WriteHeartbeat, ReadReply, ReadFails, updVars
  <2>3. CASE Running'
    BY <2>3 DEF EndsOnlyWhenClosed
  <2>4. CASE ArmClosed
    BY <2>1, <2>4 DEF ArmClosed, Places, ClosedByServer, EndsOnlyWhenClosed,
       serverVars
  <2>5. ASSUME NEW e \in batch, BrokenPipe(e) PROVE EndsOnlyWhenClosed'
    BY <2>1, <2>5, EventType DEF BrokenPipe, EndsOnlyWhenClosed, serverVars
  <2>6. CASE UNCHANGED upc /\ ~Running
    <3>1. PICK f \in Flows : peer[f] # "up"
      BY <2>6 DEF EndsOnlyWhenClosed
    <3>2. peer'[f] # "up"
      BY <2>1, <2>6, <3>1, PeerStays
    <3> QED BY <3>2 DEF EndsOnlyWhenClosed
  <2> QED BY <2>2, <2>3, <2>4, <2>5, <2>6 DEF Running
<1> QED BY <1>1, <1>2, FlowInvariant, PTL DEF Spec

-----------------------------------------------------------------------------
(* A flow with its flag set is cared for: what cares for it hands it on.     *)

Handled(f) ==
  f \in open =>
    /\ Running /\ flag[f] => Cared(f)
    /\ lpc = "await" /\ lfd = f => Out(f) > 0 \/ peer[f] # "up"

CareInv == \A f \in Flows : Handled(f)

LEMMA CareInit == Init => CareInv
BY DEF Init, CareInv, Handled

\* No step opens a flow again.
LEMMA OpenStays ==
  ASSUME FlowInv, [Next]_vars, NEW f \in Flows, f \in open'
  PROVE  f \in open
BY DEF Next, UpdateStep, LoopStep, vars, Elapse, ServerAnswers,
   ServerCloses, ResetArrives, Scan, Arm, ArmNew, ArmClosed, EpollWait,
   BatchDone, AwaitReply, Release, Stamp, HangUp, WriteFails, BrokenPipe,
   Delete, WriteRequest, WriteHeartbeat, ReadReply, ReadFails,
   kernelVars

\* Events of a flow that are not yet handled stay so while others are.
LEMMA OthersWait ==
  ASSUME FlowInv, NEW e \in batch, NEW kind, NEW pc, NextEvent(e, kind, pc),
         NEW f \in Flows, f # e.fd
  PROVE  (\E d \in batch : d.fd = f) => \E d \in batch' : d.fd = f
BY EventTaken

LEMMA CareStep == FlowInv /\ CareInv /\ [Next]_vars => CareInv'
<1> SUFFICES ASSUME FlowInv, CareInv, [Next]_vars, NEW f \in Flows,
                    f \in open'
             PROVE  Handled(f)'
  BY DEF CareInv, Handled
<1>0. TypeOK /\ Places /\ Kernel /\ f \in open /\ Handled(f)
  BY OpenStays DEF FlowInv, CareInv
<1> USE <1>0 DEF Handled, Cared, Reported, Out, Running
<1>1. ASSUME NEW g \in Flows, Elapse(g) \/ ResetArrives(g) \/
             \E how \in {"fin", "rst"} : ServerCloses(g, how)
      PROVE  Handled(f)'
  BY <1>1 DEF Elapse, ResetArrives, ServerCloses, TypeOK, timeVars,
     kernelVars, updVars, loopVars, serverVars
<1>2. ASSUME NEW g \in Flows, ServerAnswers(g)
      PROVE  Handled(f)'
  BY <1>2 DEF ServerAnswers, TypeOK, timeVars, updVars, loopVars
<1>3. ASSUME NEW g \in Flows, Scan(g)
      PROVE  Handled(f)'
  BY <1>3 DEF Scan, TypeOK, kernelVars, loopVars, serverVars
<1>4. ASSUME Arm \/ ArmNew \/ ArmClosed
      PROVE  Handled(f)'
  BY <1>4 DEF Arm, ArmNew, ArmClosed, TypeOK, Places, timeVars, kernelVars,
     loopVars, serverVars
<1>5. ASSUME EpollWait
      PROVE  Handled(f)'
  <2>1. Reported(f) => \E e \in batch' : e.fd = f
    <3> DEFINE event(g) == [fd |-> g, event |-> IF IsReset(g) THEN "HUP"
                                                ELSE mask[g]]
    <3>1. batch' = {event(g) : g \in {h \in Flows : Reported(h)}}
      BY <1>5 DEF EpollWait
    <3>2. Reported(f) => event(f) \in batch'
      BY <3>1
    <3>3. event(f).fd = f
      OBVIOUS
    <3> HIDE DEF event
    <3> QED BY <3>2, <3>3
  <2>2. edge[f] /\ ~Reported(f) => edge'[f]
    BY <1>5 DEF EpollWait, TypeOK
  <2> QED BY <1>5, <2>1, <2>2 DEF EpollWait, Places, TypeOK, timeVars, updVars,
          serverVars
<1>6. ASSUME BatchDone \/ AwaitReply \/ Release \/ Stamp
      PROVE  Handled(f)'
  BY <1>6 DEF BatchDone, AwaitReply, Release, Stamp, TypeOK, Places, timeVars,
     kernelVars, updVars, loopVars, serverVars
<1>7. ASSUME NEW e \in batch, NEW kind, NEW pc, NextEvent(e, kind, pc),
             f # e.fd
      PROVE  lpc = "next" /\ lfd' # f
             /\ ((\E d \in batch : d.fd = f) => \E d \in batch' : d.fd = f)
  BY <1>7, EventTaken, OthersWait, NoFlowAssumption
<1>8. ASSUME NEW e \in batch, HangUp(e) \/ WriteFails(e) \/ ReadFails(e)
      PROVE  Handled(f)'
  <2>1. f # e.fd
    BY <1>8 DEF HangUp, WriteFails, ReadFails, Delete
  <2>2. PICK kind : NextEvent(e, kind, "next") /\ Delete(e.fd)
    BY <1>8 DEF HangUp, WriteFails, ReadFails
  <2>3. e.fd \in Flows /\ lpc' = "next"
    BY <2>2, EventTaken
  <2> QED BY <1>7, <2>1, <2>2, <2>3 DEF Delete, TypeOK, updVars, serverVars
<1>9. ASSUME NEW e \in batch, BrokenPipe(e)
      PROVE  Handled(f)'
  BY <1>9 DEF BrokenPipe, NextEvent
<1>10. ASSUME NEW e \in batch, WriteRequest(e)
      PROVE  Handled(f)'
  <2>1. NextEvent(e, "OUT", "await") /\ e.fd \in Flows
    BY <1>10, EventType DEF WriteRequest
  <2>2. CASE f # e.fd
    BY <1>7, <1>10, <2>1, <2>2 DEF WriteRequest, Send, NextEvent, TypeOK,
       timeVars, kernelVars, updVars
  <2>3. CASE f = e.fd
    BY <1>10, <2>1, <2>3 DEF WriteRequest, Send, NextEvent, TypeOK
  <2> QED BY <2>2, <2>3
<1>11. ASSUME NEW e \in batch, WriteHeartbeat(e)
      PROVE  Handled(f)'
  <2>1. NextEvent(e, "OUT", "release") /\ e.fd \in Flows
    BY <1>11, EventType DEF WriteHeartbeat
  <2>2. CASE f # e.fd
    BY <1>7, <1>11, <2>1, <2>2 DEF WriteHeartbeat, Send, NextEvent, TypeOK,
       timeVars, kernelVars, updVars
  <2>3. CASE f = e.fd
    BY <2>1, <2>3 DEF NextEvent
  <2> QED BY <2>2, <2>3
<1>12. ASSUME NEW e \in batch, ReadReply(e)
      PROVE  Handled(f)'
  <2>1. NextEvent(e, "IN", "next") /\ e.fd \in Flows /\ lpc' = "next"
    BY <1>12, EventType DEF ReadReply, NextEvent
  <2>2. CASE f # e.fd
    BY <1>7, <1>12, <2>1, <2>2 DEF ReadReply, TypeOK, timeVars,
       kernelVars, updVars, serverVars
  <2>3. CASE f = e.fd
    BY <1>12, <2>1, <2>3 DEF ReadReply, TypeOK
  <2> QED BY <2>2, <2>3
<1>13. ASSUME UNCHANGED vars
      PROVE  Handled(f)'
  BY <1>13 DEF vars, timeVars, kernelVars, updVars, loopVars, serverVars
<1> QED BY <1>1, <1>2, <1>3, <1>4, <1>5, <1>6, <1>8, <1>9, <1>10, <1>11, <1>12,
        <1>13 DEF Next, UpdateStep, LoopStep

\* updateEvents skips a flow whose flag is set, and somebody is always going
\* to reset it or to find the flow closed: the client forgets none, however
\* the two threads interleave and whichever flows the server closes.
THEOREM NoneForgotten == Spec => []FlagIsCared
<1>1. Spec => [](FlowInv /\ CareInv)
  BY FlowInvariant, CareInit, CareStep, PTL DEF Spec
<1>2. FlowInv /\ CareInv => FlagIsCared
  BY DEF CareInv, Handled, FlagIsCared, TypeOK, FlowInv
<1> QED BY <1>1, <1>2, PTL

-----------------------------------------------------------------------------
(* How often a flow sends.  What may still lead to a packet is counted: the  *)
(* flow is being armed, armed, or its event taken; so are its requests that  *)
(* are out.  A flag that is not set, or is about to be reset, leaves room for*)
(* one more.                                                                 *)

B(x) == IF x THEN 1 ELSE 0

Armed(f)     == upc = "arm" /\ ufd = f
Raised(f)    == mask[f] = "OUT" /\ edge[f]
Taken(f)     == \E e \in batch : e.fd = f /\ e.event = "OUT"
Releasing(f) == lpc = "release" /\ lfd = f
Coming(f)    == B(Armed(f)) + B(Raised(f)) + B(Taken(f))

Quota(f) ==
  IF peer[f] = "up"
    THEN /\ Out(f) + Coming(f) + B(~flag[f]) + B(Releasing(f)) <= 2
         /\ mask[f] = "NONE" => Out(f) = 0
    ELSE Out(f) <= 2 /\ asked[f] = 0
QuotaInv == \A f \in Flows : Quota(f)

LEMMA QuotaInit == Init => QuotaInv
BY DEF Init, QuotaInv, Quota, Out, Coming, B, Armed, Raised, Taken, Releasing

LEMMA CountType ==
  ASSUME TypeOK, NEW f \in Flows
  PROVE  asked[f] \in Nat /\ replies[f] \in Nat /\ Out(f) \in Nat
BY ReplyLimitAssumption DEF TypeOK, Out

LEMMA QuotaStep == FlowInv /\ QuotaInv /\ [Next]_vars => QuotaInv'
<1> SUFFICES ASSUME FlowInv, QuotaInv, [Next]_vars, NEW f \in Flows
             PROVE  Quota(f)'
  BY DEF QuotaInv
<1>0. TypeOK /\ Places /\ Kernel /\ Quota(f)
  BY DEF FlowInv, QuotaInv
<1>t. asked[f] \in Nat /\ replies[f] \in Nat
  BY <1>0, CountType
<1>u. peer[f] # "up" => peer'[f] # "up"
  BY <1>0, PeerStays
<1> USE <1>0, <1>t DEF Quota, Out, Coming, Armed, Raised, Releasing, B
<1>1. ASSUME NEW g \in Flows, Elapse(g) PROVE Quota(f)'
  BY <1>1 DEF Elapse, Taken, TypeOK, kernelVars, updVars, loopVars, serverVars
<1>2. ASSUME NEW g \in Flows, ResetArrives(g) PROVE Quota(f)'
  BY <1>2 DEF ResetArrives, Taken, TypeOK, timeVars, updVars, loopVars
<1>3. ASSUME NEW g \in Flows, NEW how \in {"fin", "rst"}, ServerCloses(g, how)
      PROVE  Quota(f)'
  BY <1>3 DEF ServerCloses, Taken, TypeOK, timeVars, updVars, loopVars
<1>4. ASSUME NEW g \in Flows, ServerAnswers(g) PROVE Quota(f)'
  BY <1>4 DEF ServerAnswers, Taken, TypeOK, Kernel, timeVars, updVars, loopVars
<1>5. ASSUME NEW g \in Flows, Scan(g) PROVE Quota(f)'
  BY <1>5 DEF Scan, Taken, TypeOK, kernelVars, loopVars, serverVars
<1>6. CASE Arm
  BY <1>6 DEF Arm, Taken, TypeOK, Places, timeVars, loopVars, serverVars
<1>7. CASE ArmNew
  <2>1. mask[f] = "NONE" => ~Taken(f) /\ ~Releasing(f) /\ ~edge[f]
    BY DEF Taken, Kernel, Places
  <2>2. Taken(f)' <=> Taken(f)
    BY <1>7 DEF ArmNew, loopVars, Taken
  <2> QED BY <1>7, <2>1, <2>2 DEF ArmNew, TypeOK, Places, loopVars, serverVars
<1>8. CASE ArmClosed
  BY <1>8 DEF ArmClosed, Taken, timeVars, kernelVars, serverVars
<1>9. CASE EpollWait
  <2>1. batch' = {[fd |-> g, event |-> IF IsReset(g) THEN "HUP" ELSE mask[g]] :
                   g \in {h \in Flows : Reported(h)}}
    BY <1>9 DEF EpollWait
  <2>2. Taken(f)' => Raised(f)
    BY <2>1 DEF Taken, Reported
  <2>3. Raised(f)' => Raised(f) /\ ~Reported(f)
    BY <1>9 DEF EpollWait
  <2>4. Raised(f) => Reported(f)
    BY DEF Reported
  <2>5. ~Taken(f) /\ ~Raised(f)'
    BY <1>9, <2>3, <2>4 DEF EpollWait, Places, Taken
  <2> QED BY <1>9, <2>2, <2>5 DEF EpollWait, timeVars, updVars, serverVars
<1>10. CASE BatchDone
  BY <1>10 DEF BatchDone, Taken, timeVars, kernelVars, updVars, serverVars
<1>11. CASE AwaitReply
  BY <1>11 DEF AwaitReply, Taken, TypeOK, timeVars, updVars, serverVars
<1>12. CASE Release
  BY <1>12 DEF Release, Taken, TypeOK, kernelVars, updVars, serverVars
<1>13. CASE Stamp
  BY <1>13 DEF Stamp, Taken, kernelVars, updVars, serverVars
<1>14. ASSUME NEW e \in batch, NEW kind, NEW pc, NextEvent(e, kind, pc)
       PROVE  /\ Taken(f)' => Taken(f) /\ f # e.fd
              /\ e.fd \in Flows /\ lpc = "next" /\ lpc' = pc
              /\ kind = "OUT" => Taken(e.fd)
  BY <1>14, EventTaken DEF Taken
<1>15. ASSUME NEW e \in batch, HangUp(e) \/ WriteFails(e) \/ ReadFails(e)
       PROVE  Quota(f)'
  <2>1. PICK kind : NextEvent(e, kind, "next") /\ Delete(e.fd)
    BY <1>15 DEF HangUp, WriteFails, ReadFails
  <2>2. peer[e.fd] # "up"
    BY <1>15 DEF HangUp, WriteFails, ReadFails, NextEvent, Kernel, IsReset
  <2> QED BY <1>14, <2>1, <2>2 DEF Delete, TypeOK, updVars, serverVars
<1>16. ASSUME NEW e \in batch, BrokenPipe(e) PROVE Quota(f)'
  BY <1>14, <1>16 DEF BrokenPipe, timeVars, kernelVars, serverVars
<1>17. ASSUME NEW e \in batch, WriteRequest(e) PROVE Quota(f)'
  <2>1. NextEvent(e, "OUT", "await")
    BY <1>17 DEF WriteRequest
  <2>2. CASE f # e.fd
    BY <1>14, <1>17, <2>1, <2>2 DEF WriteRequest, Send, TypeOK, timeVars,
       kernelVars, updVars
  <2>3. CASE f = e.fd
    <3>1. mask[f] # "NONE"
      BY <2>1, <2>3, EventTaken
    <3>2. Taken(f) /\ ~Taken(f)'
      BY <1>14, <2>1, <2>3
    <3> QED BY <1>14, <1>17, <2>1, <2>3, <3>1, <3>2, <1>u DEF WriteRequest,
            Send, TypeOK, timeVars, kernelVars, updVars
  <2> QED BY <2>2, <2>3
<1>18. ASSUME NEW e \in batch, WriteHeartbeat(e) PROVE Quota(f)'
  <2>1. NextEvent(e, "OUT", "release")
    BY <1>18 DEF WriteHeartbeat
  <2>2. CASE f # e.fd
    BY <1>14, <1>18, <2>1, <2>2 DEF WriteHeartbeat, Send, NextEvent, TypeOK,
       timeVars, kernelVars, updVars
  <2>3. CASE f = e.fd
    <3>1. Taken(f) /\ ~Taken(f)'
      BY <1>14, <2>1, <2>3
    <3> QED BY <1>14, <1>18, <2>1, <2>3, <3>1, <1>u DEF WriteHeartbeat, Send,
            TypeOK, timeVars, kernelVars, updVars
  <2> QED BY <2>2, <2>3
<1>19. ASSUME NEW e \in batch, ReadReply(e) PROVE Quota(f)'
  <2>1. NextEvent(e, "IN", "next")
    BY <1>19 DEF ReadReply
  <2> QED BY <1>14, <1>19, <2>1 DEF ReadReply, TypeOK, kernelVars, updVars
<1>20. CASE UNCHANGED vars
  BY <1>20 DEF vars, Taken, timeVars, kernelVars, updVars, loopVars, serverVars
<1> QED BY <1>1, <1>2, <1>3, <1>4, <1>5, <1>6, <1>7, <1>8, <1>9, <1>10, <1>11,
        <1>12, <1>13, <1>15, <1>16, <1>17, <1>18, <1>19, <1>20
        DEF Next, UpdateStep, LoopStep

LEMMA QuotaInvariant == Spec => [](FlowInv /\ QuotaInv)
BY FlowInvariant, QuotaInit, QuotaStep, PTL DEF Spec

\* No flow ever has more than two requests out, though updateEvents may arm it
\* while it waits: for any number of flows, and whatever their server does.
THEOREM RequestsBounded == Spec => []TwoRequestsOut
<1>1. FlowInv /\ QuotaInv => TwoRequestsOut
  <2> SUFFICES ASSUME FlowInv, QuotaInv, NEW f \in Flows
               PROVE  asked[f] + replies[f] <= 2
    BY DEF TwoRequestsOut
  <2>1. Quota(f) /\ Out(f) \in Nat
    BY CountType DEF QuotaInv, FlowInv
  <2> QED BY <2>1 DEF Quota, Out, Coming, B
<1> QED BY <1>1, QuotaInvariant, PTL

-----------------------------------------------------------------------------
(* The packets of an epoch.  Once the next has come, only the flow epollLoop *)
(* is at work on has sent one; until then, what may still lead to a packet is*)
(* counted with those sent.                                                  *)

AtWork(f) == lpc \in {"await", "release", "stamp"} /\ lfd = f

Epoch(f) ==
  /\ peer[f] = "up" /\ due[f] =>
       /\ sends[f] <= 1
       /\ lpc # "exited" => sends[f] <= B(AtWork(f))
  /\ peer[f] = "up" /\ ~due[f] => sends[f] + Coming(f) <= 3
  /\ peer[f] # "up" => sends[f] = 0
EpochInv == \A f \in Flows : Epoch(f)

LEMMA EpochInit == Init => EpochInv
BY DEF Init, EpochInv, Epoch, Coming, B, Armed, Raised, Taken

LEMMA ComingBounded ==
  ASSUME TypeOK, NEW f \in Flows, Quota(f), peer[f] = "up"
  PROVE  Coming(f) \in 0 .. 2
BY CountType DEF Quota, Coming, B

\* A packet is sent to a flow whose event has been taken.
LEMMA SendKeepsEpoch ==
  ASSUME FlowInv, NEW f \in Flows, Epoch(f), NEW e \in batch,
         NEW pc \in {"await", "release"}, NextEvent(e, "OUT", pc), Send(e.fd),
         UNCHANGED <<timeVars, kernelVars, updVars>>
  PROVE  Epoch(f)'
<1>1. /\ e.fd \in Flows /\ lpc = "next" /\ lpc' = pc /\ lfd' = e.fd
      /\ Taken(e.fd) /\ ~Taken(e.fd)' /\ (Taken(f)' => Taken(f))
  BY EventTaken DEF Taken
<1>2. sends[f] \in Nat /\ TypeOK
  BY DEF FlowInv, TypeOK
<1>3. CASE f # e.fd
  BY <1>1, <1>2, <1>3 DEF Send, TypeOK, Epoch, AtWork, Coming, Armed, Raised,
     B, timeVars, kernelVars, updVars
<1>4. CASE f = e.fd
  <2>1. sends' = [sends EXCEPT ![f] = IF peer[f] = "up" THEN @ + 1 ELSE @]
    BY <1>4 DEF Send
  <2>2. peer'[f] = "up" <=> peer[f] = "up"
    BY <1>2, <1>4 DEF Send, TypeOK
  <2>3. Coming(f) = Coming(f)' + 1
    BY <1>1, <1>4 DEF Coming, Armed, Raised, B, kernelVars, updVars
  <2>4. Coming(f)' \in Nat
    BY DEF Coming, B
  <2>5. AtWork(f)' /\ ~AtWork(f) /\ due' = due
    BY <1>1, <1>4 DEF AtWork, timeVars
  <2> QED BY <1>1, <1>2, <2>1, <2>2, <2>3, <2>4, <2>5 DEF TypeOK, Epoch, B
<1> QED BY <1>3, <1>4

LEMMA EpochStep ==
  FlowInv /\ QuotaInv /\ EpochInv /\ [Next]_vars => EpochInv'
<1> SUFFICES ASSUME FlowInv, QuotaInv, EpochInv, [Next]_vars, NEW f \in Flows
             PROVE  Epoch(f)'
  BY DEF EpochInv
<1>0. TypeOK /\ Places /\ Kernel /\ Quota(f) /\ Epoch(f)
  BY DEF FlowInv, QuotaInv, EpochInv
<1>t. sends[f] \in Nat
  BY <1>0 DEF TypeOK
<1>u. peer[f] # "up" => peer'[f] # "up"
  BY <1>0, PeerStays
<1>c. peer[f] = "up" => Coming(f) \in 0 .. 2
  BY <1>0, ComingBounded
<1> USE <1>0, <1>t DEF Epoch, Coming, Armed, Raised, AtWork, B
<1>1. ASSUME NEW g \in Flows, Elapse(g) PROVE Epoch(f)'
  BY <1>1 DEF Elapse, Taken, TypeOK, kernelVars, updVars, loopVars, serverVars
<1>2. ASSUME NEW g \in Flows, ResetArrives(g) PROVE Epoch(f)'
  BY <1>2 DEF ResetArrives, Taken, TypeOK, timeVars, updVars, loopVars
<1>3. ASSUME NEW g \in Flows, NEW how \in {"fin", "rst"}, ServerCloses(g, how)
      PROVE  Epoch(f)'
  BY <1>3 DEF ServerCloses, Taken, TypeOK, timeVars, updVars, loopVars
<1>4. ASSUME NEW g \in Flows, ServerAnswers(g) PROVE Epoch(f)'
  BY <1>4 DEF ServerAnswers, Taken, TypeOK, timeVars, updVars, loopVars
<1>5. ASSUME NEW g \in Flows, Scan(g) PROVE Epoch(f)'
  BY <1>5 DEF Scan, Taken, TypeOK, kernelVars, loopVars, serverVars
<1>6. CASE Arm
  BY <1>6 DEF Arm, Taken, TypeOK, Places, timeVars, loopVars, serverVars
<1>7. CASE ArmNew
  <2>1. mask[f] = "NONE" => ~Taken(f) /\ ~edge[f]
    BY DEF Taken, Kernel
  <2>2. Taken(f)' <=> Taken(f)
    BY <1>7 DEF ArmNew, loopVars, Taken
  <2> QED BY <1>7, <2>1, <2>2 DEF ArmNew, TypeOK, Places, loopVars, serverVars
<1>8. CASE ArmClosed
  BY <1>8 DEF ArmClosed, Taken, timeVars, kernelVars, serverVars
<1>9. CASE EpollWait
  <2>1. batch' = {[fd |-> g, event |-> IF IsReset(g) THEN "HUP" ELSE mask[g]] :
                   g \in {h \in Flows : Reported(h)}}
    BY <1>9 DEF EpollWait
  <2>2. Taken(f)' => Raised(f)
    BY <2>1 DEF Taken, Reported
  <2>3. Raised(f)' => Raised(f) /\ ~Reported(f)
    BY <1>9 DEF EpollWait
  <2>4. Raised(f) => Reported(f)
    BY DEF Reported
  <2>5. ~Taken(f) /\ ~Raised(f)'
    BY <1>9, <2>3, <2>4 DEF EpollWait, Places, Taken
  <2> QED BY <1>9, <2>2, <2>5 DEF EpollWait, timeVars, updVars, serverVars
<1>10. CASE BatchDone
  BY <1>10 DEF BatchDone, Taken, timeVars, kernelVars, updVars, serverVars
<1>11. CASE AwaitReply
  BY <1>11 DEF AwaitReply, Taken, TypeOK, timeVars, updVars, serverVars
<1>12. CASE Release
  BY <1>12 DEF Release, Taken, TypeOK, kernelVars, updVars, serverVars
<1>13. CASE Stamp
  <2>1. Coming(f)' = Coming(f)
    BY <1>13 DEF Stamp, Taken, kernelVars, updVars
  <2>2. CASE f = lfd
    BY <1>13, <2>1, <2>2, <1>c DEF Stamp, TypeOK, serverVars
  <2>3. CASE f # lfd
    BY <1>13, <2>1, <2>3 DEF Stamp, TypeOK, serverVars
  <2> QED BY <2>2, <2>3
<1>14. ASSUME NEW e \in batch, NEW kind, NEW pc, NextEvent(e, kind, pc)
       PROVE  /\ Taken(f)' => Taken(f)
              /\ e.fd \in Flows /\ lpc = "next" /\ lpc' = pc
  BY <1>14, EventTaken DEF Taken
<1>15. ASSUME NEW e \in batch, HangUp(e) \/ WriteFails(e) \/ ReadFails(e)
       PROVE  Epoch(f)'
  <2>1. PICK kind : NextEvent(e, kind, "next") /\ Delete(e.fd)
    BY <1>15 DEF HangUp, WriteFails, ReadFails
  <2> QED BY <1>14, <2>1 DEF Delete, TypeOK, updVars, serverVars
<1>16. ASSUME NEW e \in batch, BrokenPipe(e) PROVE Epoch(f)'
  BY <1>14, <1>16 DEF BrokenPipe, timeVars, kernelVars, serverVars
<1>17. ASSUME NEW e \in batch, WriteRequest(e) PROVE Epoch(f)'
  BY <1>17, SendKeepsEpoch DEF WriteRequest
<1>18. ASSUME NEW e \in batch, WriteHeartbeat(e) PROVE Epoch(f)'
  BY <1>18, SendKeepsEpoch DEF WriteHeartbeat
<1>19. ASSUME NEW e \in batch, ReadReply(e) PROVE Epoch(f)'
  BY <1>14, <1>19 DEF ReadReply, TypeOK, kernelVars, updVars
<1>20. CASE UNCHANGED vars
  BY <1>20 DEF vars, Taken, timeVars, kernelVars, updVars, loopVars, serverVars
<1> QED BY <1>1, <1>2, <1>3, <1>4, <1>5, <1>6, <1>7, <1>8, <1>9, <1>10, <1>11,
        <1>12, <1>13, <1>15, <1>16, <1>17, <1>18, <1>19, <1>20
        DEF Next, UpdateStep, LoopStep

\* Between two epochs a flow sends at most three packets: the one that was due,
\* and two that the flag, reset before virtual_time is set, let through.
THEOREM EpochQuota == Spec => []ThreeSendsPerEpoch
<1>1. Spec => [](FlowInv /\ QuotaInv /\ EpochInv)
  BY QuotaInvariant, EpochInit, EpochStep, PTL DEF Spec
<1>2. FlowInv /\ QuotaInv /\ EpochInv => ThreeSendsPerEpoch
  <2> SUFFICES ASSUME FlowInv, QuotaInv, EpochInv, NEW f \in Flows
               PROVE  sends[f] <= 3
    BY DEF ThreeSendsPerEpoch
  <2>1. Epoch(f) /\ sends[f] \in Nat
    BY DEF FlowInv, TypeOK, EpochInv
  <2>2. Coming(f) \in Nat
    BY DEF Coming, B
  <2> QED BY <2>1, <2>2 DEF Epoch
<1> QED BY <1>1, <1>2, PTL
=============================================================================

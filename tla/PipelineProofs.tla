--------------------------- MODULE PipelineProofs ---------------------------
(***************************************************************************)
(* What Pipeline guarantees for every number of workers, ring size and set *)
(* of flows.                                                               *)
(***************************************************************************)
EXTENDS Pipeline, TLAPS

-----------------------------------------------------------------------------
(* The index arithmetic of the ring, which spares the rest reasoning       *)
(* about "%"                                                               *)

\* Moving an index stays in the ring and wraps at its last slot.
LEMMA AdvanceWraps ==
  ASSUME NEW i \in Slots
  PROVE  /\ Advance(i) \in Slots
         /\ Advance(i) = IF i = RingSize - 1 THEN 0 ELSE i + 1
  BY RingSizeAssumption DEF Slots, Advance

\* The number of used slots without "%": the distance from tail to head.
LEMMA UsedDistance ==
  ASSUME NEW h \in Slots, NEW t \in Slots
  PROVE  /\ Used(h, t) \in Slots
         /\ Used(h, t) = IF h >= t THEN h - t ELSE h - t + RingSize
  BY RingSizeAssumption DEF Slots, Used

\* A ring never looks fuller than RingSize - 1, and looks empty exactly when
\* its indices are equal.
LEMMA UsedZero ==
  ASSUME NEW h \in Slots, NEW t \in Slots
  PROVE  (Used(h, t) = 0) <=> (h = t)
  <1>1. Used(h, t) = IF h >= t THEN h - t ELSE h - t + RingSize
    BY UsedDistance
  <1>2. QED
    BY <1>1, RingSizeAssumption DEF Slots

\* A push uses one more slot; a push to a full ring makes it look empty.
LEMMA UsedAfterPush ==
  ASSUME NEW h \in Slots, NEW t \in Slots
  PROVE  Used(Advance(h), t) =
           IF Used(h, t) = RingSize - 1 THEN 0 ELSE Used(h, t) + 1
  <1>1. /\ Advance(h) \in Slots
        /\ Advance(h) = IF h = RingSize - 1 THEN 0 ELSE h + 1
    BY AdvanceWraps
  <1>2. Used(h, t) = IF h >= t THEN h - t ELSE h - t + RingSize
    BY UsedDistance
  <1>3. Used(Advance(h), t) = IF Advance(h) >= t THEN Advance(h) - t
                                ELSE Advance(h) - t + RingSize
    BY <1>1, UsedDistance
  <1>4. QED
    BY <1>1, <1>2, <1>3, RingSizeAssumption DEF Slots

\* A pop frees one slot; a pop from an empty ring makes it look full.
LEMMA UsedAfterPop ==
  ASSUME NEW h \in Slots, NEW t \in Slots
  PROVE  Used(h, Advance(t)) =
           IF Used(h, t) = 0 THEN RingSize - 1 ELSE Used(h, t) - 1
  <1>1. /\ Advance(t) \in Slots
        /\ Advance(t) = IF t = RingSize - 1 THEN 0 ELSE t + 1
    BY AdvanceWraps
  <1>2. Used(h, t) = IF h >= t THEN h - t ELSE h - t + RingSize
    BY UsedDistance
  <1>3. Used(h, Advance(t)) = IF h >= Advance(t) THEN h - Advance(t)
                                ELSE h - Advance(t) + RingSize
    BY <1>1, UsedDistance
  <1>4. QED
    BY <1>1, <1>2, <1>3, RingSizeAssumption DEF Slots

\* What the producer tests, "avail <= 1", says that RingSize - 1 are used.
LEMMA AvailFull ==
  ASSUME NEW h \in Slots, NEW t \in Slots
  PROVE  (Avail(h, t) <= 1) <=> (Used(h, t) = RingSize - 1)
  <1>1. Used(h, t) \in Slots
    BY UsedDistance
  <1>2. QED
    BY <1>1, RingSizeAssumption DEF Slots, Avail

\* The slot k places after i, for the offsets a used slot can have.
LEMMA OffsetWraps ==
  ASSUME NEW i \in Slots, NEW k \in Slots
  PROVE  /\ (i + k) % RingSize \in Slots
         /\ (i + k) % RingSize =
              IF i + k < RingSize THEN i + k ELSE i + k - RingSize
  BY RingSizeAssumption DEF Slots

-----------------------------------------------------------------------------
(* Typing                                                                  *)

LEMMA ThreadsNumType == ThreadsNum \in Nat \ {0}
  BY ThreadsSettingAssumption
     DEF ThreadsNum, StartThreads, ValidThreadNum, MinThreads, MaxThreads

\* What getConfigs makes of a setting is an int, and so is what it was.
LEMMA GroupType ==
  ASSUME NEW g \in GroupSettings, NEW new \in {g, StartGroup(g)}
  PROVE  new \in Int /\ -CounterLimit < new /\ new < CounterLimit
  BY GroupSettingsAssumption, CounterLimitAssumption DEF StartGroup

\* getThreadIndex, where it does not end the server, names one of the workers
\* that exist.
LEMMA ThreadIndexType ==
  ASSUME NEW count \in Nat, group \in Int, Divisor(group) # 0
  PROVE  ThreadIndex(count) \in Workers
  <1>1. Divisor(group) \in Nat \ {0}
    BY CounterLimitAssumption DEF Divisor
  <1>2. count \div Divisor(group) \in Nat
    BY <1>1
  <1>3. QED
    BY <1>2, ThreadsNumType DEF ThreadIndex, Workers

LEMMA TypeInit == Init => TypeOK
  <1> SUFFICES ASSUME Init
               PROVE  TypeOK
    OBVIOUS
  <1>1. 0 \in Workers /\ 0 \in Slots /\ 0 \in 0 .. CounterLimit - 1
    BY RingSizeAssumption, ThreadsNumType, CounterLimitAssumption
       DEF Workers, Slots
  <1>2. group \in Int /\ -CounterLimit < group /\ group < CounterLimit
    BY GroupType DEF Init
  <1>3. QED
    BY <1>1, <1>2 DEF Init, TypeOK, EpollPlaces, WorkerPlaces

\* Every step of any thread keeps every variable in its type.
LEMMA TypeStep == TypeOK /\ [Next]_vars => TypeOK'
  <1> SUFFICES ASSUME TypeOK, [Next]_vars
               PROVE  TypeOK'
    OBVIOUS
  <1> USE DEF epollVars, workerVars, ringVars
  <1>1. ASSUME NEW f \in Flows, NEW type \in {"HEARTBEAT", "REQUEST"},
               Receive(f, type) \/ DivideByZero(f, type)
        PROVE  TypeOK'
    <2>1. Read(f, type)
      BY <1>1 DEF Receive, DivideByZero
    <2>2. counter' \in 0 .. CounterLimit - 1
      BY <2>1, CounterLimitAssumption DEF TypeOK, Read
    <2>3. target' \in Workers
      BY <1>1, <2>2, ThreadIndexType, CounterLimitAssumption
         DEF TypeOK, Receive, DivideByZero
    <2>4. current' \in Packets
      BY <2>1 DEF Read, Packets
    <2>5. epc' \in EpollPlaces
      BY <1>1 DEF Receive, DivideByZero, EpollPlaces
    <2>6. QED
      BY <2>1, <2>2, <2>3, <2>4, <2>5 DEF Read, TypeOK
  <1>2. CASE Lock
    BY <1>2 DEF Lock, TypeOK, EpollPlaces
  <1>3. CASE CheckFull
    BY <1>3 DEF CheckFull, TypeOK, EpollPlaces
  <1>4. CASE WaitNotFull
    BY <1>4 DEF WaitNotFull, TypeOK, EpollPlaces
  <1>5. CASE ReacquireNotFull
    BY <1>5 DEF ReacquireNotFull, TypeOK, EpollPlaces
  <1>6. CASE Fill
    <2>1. current \in Packets
      BY <1>6 DEF Fill, TypeOK
    <2>2. slot' \in [Workers -> [Slots -> Packets \cup {Blank}]]
      BY <1>6, <2>1 DEF Fill, TypeOK
    <2>3. QED
      BY <1>6, <2>2 DEF Fill, TypeOK, EpollPlaces
  <1>7. CASE Push
    <2>1. head' \in [Workers -> Slots]
      BY <1>7, AdvanceWraps DEF Push, TypeOK
    <2>2. QED
      BY <1>7, <2>1 DEF Push, TypeOK, EpollPlaces
  <1>8. CASE Unlock
    BY <1>8 DEF Unlock, TypeOK, EpollPlaces
  <1>9. CASE SignalNotEmpty
    BY <1>9 DEF SignalNotEmpty, TypeOK, EpollPlaces, WorkerPlaces
  <1>10. ASSUME NEW w \in Workers, WorkerStep(w)
         PROVE  TypeOK'
    <2> USE DEF GoTo
    <2>1. CASE CheckEmpty(w)
      BY <2>1 DEF CheckEmpty, TypeOK, WorkerPlaces
    <2>2. CASE WaitNotEmpty(w)
      BY <2>2 DEF WaitNotEmpty, TypeOK, WorkerPlaces
    <2>3. CASE ReacquireNotEmpty(w)
      BY <2>3 DEF ReacquireNotEmpty, TypeOK, WorkerPlaces
    <2>4. CASE Copy(w)
      BY <2>4 DEF Copy, Oldest, TypeOK, WorkerPlaces
    <2>5. CASE Pop(w)
      <3>1. tail' \in [Workers -> Slots]
        BY <2>5, AdvanceWraps DEF Pop, TypeOK
      <3>2. QED
        BY <2>5, <3>1 DEF Pop, TypeOK, WorkerPlaces
    <2>6. CASE UnlockRing(w)
      BY <2>6 DEF UnlockRing, TypeOK, WorkerPlaces
    <2>7. CASE SignalNotFull(w)
      BY <2>7 DEF SignalNotFull, TypeOK, EpollPlaces, WorkerPlaces
    <2>8. CASE Process(w)
      BY <2>8 DEF Process, TypeOK, WorkerPlaces
    <2>9. QED
      BY <1>10, <2>1, <2>2, <2>3, <2>4, <2>5, <2>6, <2>7, <2>8
         DEF WorkerStep
  <1>11. ASSUME NEW setting \in GroupSettings, Reload(setting)
         PROVE  TypeOK'
    <2>1. group' \in Int /\ -CounterLimit < group' /\ group' < CounterLimit
      BY <1>11, GroupType DEF Reload, NewGroup
    <2>2. QED
      BY <1>11, <2>1 DEF Reload, TypeOK
  <1>12. CASE EndMinute
    BY <1>12, CounterLimitAssumption DEF EndMinute, TypeOK
  <1>13. CASE UNCHANGED vars
    BY <1>13 DEF vars, TypeOK
  <1>14. QED
    BY <1>1, <1>2, <1>3, <1>4, <1>5, <1>6, <1>7, <1>8, <1>9, <1>10, <1>11,
       <1>12, <1>13
       DEF Next, EpollStep

\* Type correctness of the pipeline for every value of the constants: the
\* indices never leave the ring, whatever the threads do to each other and
\* whatever settings.cfg says, now and later.
THEOREM TypeCorrect == Spec => []TypeOK
  <1>1. QED
    BY TypeInit, TypeStep, PTL DEF Spec

-----------------------------------------------------------------------------
(* What a thread saw in the ring still holds when it acts on it            *)

LEMMA RingInit == Init => RingInv
  <1> SUFFICES ASSUME Init
               PROVE  RingInv
    OBVIOUS
  <1>1. TypeOK
    BY TypeInit
  <1>2. QED
    BY <1>1 DEF Init, RingInv, RoomToPush, PacketToCopy, PacketToPop

\* The number of used slots of a ring as a number.
LEMMA UsedType ==
  ASSUME TypeOK, NEW w \in Workers
  PROVE  UsedOf(w) \in Slots /\ UsedOf(w) \in Nat
  <1>1. head[w] \in Slots /\ tail[w] \in Slots
    BY DEF TypeOK
  <1>2. UsedOf(w) \in Slots
    BY <1>1, UsedDistance DEF UsedOf
  <1>3. QED
    BY <1>2, RingSizeAssumption DEF Slots

LEMMA UsedTypePrime ==
  ASSUME TypeOK', NEW w \in Workers
  PROVE  UsedOf(w)' \in Nat
  <1>1. head'[w] \in Slots /\ tail'[w] \in Slots
    BY DEF TypeOK
  <1>2. Used(head'[w], tail'[w]) \in Slots
    BY <1>1, UsedDistance
  <1>3. QED
    BY <1>2, RingSizeAssumption DEF Slots, UsedOf

\* Push adds one packet to the target's ring, or breaches it when it is full.
LEMMA PushEffect ==
  ASSUME TypeOK, Push
  PROVE  /\ \A w \in Workers : w # target =>
              UsedOf(w)' = UsedOf(w) /\ breached'[w] = breached[w]
         /\ IF UsedOf(target) = RingSize - 1
              THEN breached'[target]
              ELSE /\ UsedOf(target)' = UsedOf(target) + 1
                   /\ breached'[target] = breached[target]
  <1>1. target \in Workers
    BY DEF TypeOK
  <1>2. head[target] \in Slots /\ tail[target] \in Slots
    BY <1>1 DEF TypeOK
  <1>3. \A w \in Workers : w # target =>
          UsedOf(w)' = UsedOf(w) /\ breached'[w] = breached[w]
    BY DEF Push, ringVars, TypeOK, UsedOf
  <1>4. (AvailOf(target) <= 1) <=> (UsedOf(target) = RingSize - 1)
    BY <1>2, AvailFull DEF AvailOf, UsedOf
  <1>5. breached'[target] = (breached[target] \/ AvailOf(target) <= 1)
    BY <1>1 DEF Push, TypeOK
  <1>6. UsedOf(target)' = Used(Advance(head[target]), tail[target])
    BY <1>1 DEF Push, TypeOK, UsedOf
  <1>7. UsedOf(target)' = IF UsedOf(target) = RingSize - 1 THEN 0
                            ELSE UsedOf(target) + 1
    BY <1>2, <1>6, UsedAfterPush DEF UsedOf
  <1>8. breached[target] \in BOOLEAN
    BY <1>1 DEF TypeOK
  <1>9. QED
    BY <1>3, <1>4, <1>5, <1>7, <1>8

\* Pop removes one packet of a ring that has one, and touches no other ring.
LEMMA PopEffect ==
  ASSUME TypeOK, NEW v \in Workers, Pop(v)
  PROVE  /\ \A w \in Workers : w # v => UsedOf(w)' = UsedOf(w)
         /\ UsedOf(v) > 0 => UsedOf(v)' = UsedOf(v) - 1
  <1>1. head[v] \in Slots /\ tail[v] \in Slots
    BY DEF TypeOK
  <1>2. \A w \in Workers : w # v => UsedOf(w)' = UsedOf(w)
    BY DEF Pop, TypeOK, UsedOf
  <1>3. UsedOf(v)' = Used(head[v], Advance(tail[v]))
    BY DEF Pop, TypeOK, UsedOf
  <1>4. UsedOf(v)' = IF UsedOf(v) = 0 THEN RingSize - 1 ELSE UsedOf(v) - 1
    BY <1>1, <1>3, UsedAfterPop DEF UsedOf
  <1>5. QED
    BY <1>2, <1>4, UsedType

\* What the two checks establish.
LEMMA CheckFullEffect ==
  ASSUME TypeOK, CheckFull, epc' = "fill"
  PROVE  UsedOf(target) < RingSize - 1
  <1>1. target \in Workers
    BY DEF TypeOK
  <1>2. head[target] \in Slots /\ tail[target] \in Slots
    BY <1>1 DEF TypeOK
  <1>3. ~(AvailOf(target) <= 1)
    BY DEF CheckFull, Full
  <1>4. UsedOf(target) # RingSize - 1
    BY <1>2, <1>3, AvailFull DEF AvailOf, UsedOf
  <1>5. UsedOf(target) \in 0 .. RingSize - 1
    BY <1>1, UsedType DEF Slots
  <1>6. QED
    BY <1>4, <1>5, RingSizeAssumption

\* An action that moves no index, breaches no ring and brings nobody to the
\* places the invariant is about keeps it.
LEMMA RingInvFrame ==
  ASSUME RingInv, TypeOK',
         UNCHANGED <<head, tail, breached>>,
         epc' \in {"fill", "push"} =>
           (epc \in {"fill", "push"} /\ UNCHANGED <<target, eBlind>>) \/ eBlind',
         \A w \in Workers :
           /\ wpc'[w] = "copy" =>
                (wpc[w] = "copy" /\ wBlind'[w] = wBlind[w]) \/ wBlind'[w]
           /\ wpc'[w] = "pop" => wpc[w] = "pop"
  PROVE  RingInv'
  <1>1. \A w \in Workers : UsedOf(w)' = UsedOf(w)
    BY DEF UsedOf
  <1>2. RoomToPush'
    BY <1>1 DEF RingInv, RoomToPush, TypeOK
  <1>3. PacketToCopy' /\ PacketToPop'
    BY <1>1 DEF RingInv, PacketToCopy, PacketToPop
  <1>4. QED
    BY <1>2, <1>3 DEF RingInv

\* Every step keeps what the threads saw; only a step of a thread that was
\* woken and did not look again breaches a ring.
LEMMA RingStep == RingInv /\ [Next]_vars => RingInv'
  <1> SUFFICES ASSUME RingInv, [Next]_vars
               PROVE  RingInv'
    OBVIOUS
  <1> USE DEF epollVars, workerVars, ringVars, GoTo
  <1>type. TypeOK /\ TypeOK'
    BY TypeStep DEF RingInv
  <1>1. ASSUME NEW f \in Flows, NEW type \in {"HEARTBEAT", "REQUEST"},
               Receive(f, type) \/ DivideByZero(f, type)
        PROVE  RingInv'
    BY <1>1, <1>type, RingInvFrame DEF Receive, DivideByZero, Read
  <1>2. CASE Lock
    BY <1>2, <1>type, RingInvFrame DEF Lock
  <1>3. CASE CheckFull
    <2>1. \A w \in Workers : UsedOf(w)' = UsedOf(w)
      BY <1>3 DEF CheckFull, UsedOf
    <2>2. RoomToPush'
      BY <1>3, <1>type, <2>1, CheckFullEffect
         DEF CheckFull, RoomToPush, TypeOK
    <2>3. PacketToCopy' /\ PacketToPop'
      BY <1>3, <2>1 DEF CheckFull, RingInv, PacketToCopy, PacketToPop
    <2>4. QED
      BY <1>type, <2>2, <2>3 DEF RingInv
  <1>4. CASE WaitNotFull
    BY <1>4, <1>type, RingInvFrame DEF WaitNotFull
  <1>5. CASE ReacquireNotFull
    BY <1>5, <1>type, RingInvFrame DEF ReacquireNotFull
  <1>6. CASE Fill
    BY <1>6, <1>type, RingInvFrame DEF Fill
  <1>7. CASE Push
    <2>1. RoomToPush'
      BY <1>7 DEF Push, RoomToPush
    <2>2. \A w \in Workers : ~breached'[w] =>
            ~breached[w] /\ UsedOf(w)' \in Nat /\ UsedOf(w)' >= UsedOf(w)
      <3> SUFFICES ASSUME NEW w \in Workers, ~breached'[w]
                   PROVE  /\ ~breached[w]
                          /\ UsedOf(w)' \in Nat /\ UsedOf(w)' >= UsedOf(w)
        OBVIOUS
      <3>1. UsedOf(w) \in Nat
        BY <1>type, UsedType
      <3>2. CASE w # target
        BY <1>7, <1>type, <3>1, <3>2, PushEffect
      <3>3. CASE w = target
        <4>1. target' = target
          BY <1>7 DEF Push
        <4>2. QED
          BY <1>7, <1>type, <3>1, <3>3, <4>1, PushEffect
      <3>4. QED
        BY <3>2, <3>3
    <2>3. \A w \in Workers : UsedOf(w) \in Nat
      BY <1>type, UsedType
    <2>4. PacketToCopy' /\ PacketToPop'
      BY <1>7, <2>2, <2>3 DEF Push, RingInv, PacketToCopy, PacketToPop
    <2>5. QED
      BY <1>type, <2>1, <2>4 DEF RingInv
  <1>8. CASE Unlock
    BY <1>8, <1>type, RingInvFrame DEF Unlock
  <1>9. CASE SignalNotEmpty
    BY <1>9, <1>type, RingInvFrame DEF SignalNotEmpty, TypeOK
  <1>10. ASSUME NEW v \in Workers, WorkerStep(v)
         PROVE  RingInv'
    <2>1. CASE CheckEmpty(v)
      <3>1. \A w \in Workers : UsedOf(w)' = UsedOf(w)
        BY <2>1 DEF CheckEmpty, UsedOf
      <3>2. RoomToPush'
        BY <2>1, <1>type, <3>1 DEF CheckEmpty, RingInv, RoomToPush, TypeOK
      <3>3. wpc'[v] = "copy" => UsedOf(v) > 0
        BY <2>1, <1>type, UsedType DEF CheckEmpty, Empty, TypeOK
      <3>4. PacketToCopy'
        BY <2>1, <1>type, <3>1, <3>3
           DEF CheckEmpty, RingInv, PacketToCopy, TypeOK
      <3>5. PacketToPop'
        BY <2>1, <1>type, <3>1 DEF CheckEmpty, RingInv, PacketToPop, TypeOK
      <3>6. QED
        BY <1>type, <3>2, <3>4, <3>5 DEF RingInv
    <2>2. CASE WaitNotEmpty(v)
      BY <2>2, <1>type, RingInvFrame DEF WaitNotEmpty, TypeOK
    <2>3. CASE ReacquireNotEmpty(v)
      BY <2>3, <1>type, RingInvFrame DEF ReacquireNotEmpty, TypeOK
    <2>4. CASE Copy(v)
      <3>1. \A w \in Workers : UsedOf(w)' = UsedOf(w)
        BY <2>4 DEF Copy, UsedOf
      <3>2. \A w \in Workers : ~breached'[w] =>
              ~breached[w] /\ (w = v => UsedOf(w) > 0)
        <4>1. breached'[v] = (breached[v] \/ UsedOf(v) <= 0)
          BY <2>4, <1>type DEF Copy, TypeOK
        <4>2. \A w \in Workers : w # v => breached'[w] = breached[w]
          BY <2>4, <1>type DEF Copy, TypeOK
        <4>3. UsedOf(v) \in Nat
          BY <1>type, UsedType
        <4>4. UsedOf(v) <= 0 \/ UsedOf(v) > 0
          BY <4>3
        <4>5. ~breached'[v] => ~breached[v] /\ UsedOf(v) > 0
          BY <4>1, <4>4, Zenon
        <4>6. QED
          BY <4>2, <4>5
      <3>3. RoomToPush'
        BY <2>4, <1>type, <3>1, <3>2 DEF Copy, RingInv, RoomToPush, TypeOK
      <3>4. PacketToCopy' /\ PacketToPop'
        BY <2>4, <1>type, <3>1, <3>2
           DEF Copy, RingInv, PacketToCopy, PacketToPop, TypeOK
      <3>5. QED
        BY <1>type, <3>3, <3>4 DEF RingInv
    <2>5. CASE Pop(v)
      <3>1. ~breached[v] => UsedOf(v) > 0
        BY <2>5 DEF Pop, RingInv, PacketToPop
      <3>2. \A w \in Workers : ~breached[w] =>
              /\ UsedOf(w)' <= UsedOf(w)
              /\ w # v => UsedOf(w)' = UsedOf(w)
        BY <2>5, <1>type, <3>1, PopEffect, UsedType
      <3>3. \A w \in Workers : UsedOf(w) \in Nat /\ UsedOf(w)' \in Nat
        BY <1>type, UsedType, UsedTypePrime
      <3>4. RoomToPush'
        BY <2>5, <1>type, <3>2, <3>3, RingSizeAssumption
           DEF Pop, RingInv, RoomToPush, TypeOK
      <3>5. PacketToCopy' /\ PacketToPop'
        BY <2>5, <1>type, <3>2
           DEF Pop, RingInv, PacketToCopy, PacketToPop, TypeOK
      <3>6. QED
        BY <1>type, <3>4, <3>5 DEF RingInv
    <2>6. CASE UnlockRing(v)
      BY <2>6, <1>type, RingInvFrame DEF UnlockRing, TypeOK
    <2>7. CASE SignalNotFull(v)
      BY <2>7, <1>type, RingInvFrame DEF SignalNotFull, TypeOK
    <2>8. CASE Process(v)
      BY <2>8, <1>type, RingInvFrame DEF Process, TypeOK
    <2>9. QED
      BY <1>10, <2>1, <2>2, <2>3, <2>4, <2>5, <2>6, <2>7, <2>8
         DEF WorkerStep
  <1>11. ASSUME NEW setting \in GroupSettings, Reload(setting)
         PROVE  RingInv'
    BY <1>11, <1>type, RingInvFrame DEF Reload
  <1>12. CASE EndMinute
    BY <1>12, <1>type, RingInvFrame DEF EndMinute
  <1>13. CASE UNCHANGED vars
    BY <1>13, <1>type, RingInvFrame DEF vars
  <1>14. QED
    BY <1>1, <1>2, <1>3, <1>4, <1>5, <1>6, <1>7, <1>8, <1>9, <1>10, <1>11,
       <1>12, <1>13
       DEF Next, EpollStep

\* What the checks saw holds when it is acted on, in every reachable state.
THEOREM RingInvariant == Spec => []RingInv
  <1>1. QED
    BY RingInit, RingStep, PTL DEF Spec

LEMMA BreachStep ==
  RingInv /\ [Next]_vars =>
    \A w \in Workers :
      ~breached[w] /\ breached'[w] =>
        \/ epc = "push" /\ target = w /\ eBlind
        \/ wpc[w] = "copy" /\ wBlind[w]
  <1> SUFFICES ASSUME RingInv, [Next]_vars, NEW w \in Workers,
                      ~breached[w], breached'[w]
               PROVE  \/ epc = "push" /\ target = w /\ eBlind
                      \/ wpc[w] = "copy" /\ wBlind[w]
    OBVIOUS
  <1>type. TypeOK
    BY DEF RingInv
  <1>1. CASE Push
    <2>1. w = target
      BY <1>1, <1>type, PushEffect
    <2>2. UsedOf(target) = RingSize - 1
      BY <1>1, <1>type, <2>1, PushEffect
    <2>3. eBlind
      BY <1>1, <1>type, <2>1, <2>2, RingSizeAssumption
         DEF Push, RingInv, RoomToPush, TypeOK
    <2>4. QED
      BY <1>1, <2>1, <2>3 DEF Push
  <1>2. ASSUME NEW v \in Workers, Copy(v)
        PROVE  wpc[w] = "copy" /\ wBlind[w]
    <2>1. w = v /\ UsedOf(v) <= 0
      BY <1>2, <1>type DEF Copy, TypeOK
    <2>2. wpc[w] = "copy" /\ ~(UsedOf(w) > 0)
      BY <1>2, <1>type, <2>1, UsedType DEF Copy
    <2>3. QED
      BY <2>2 DEF RingInv, PacketToCopy
  <1>3. CASE ~Push /\ ~\E v \in Workers : Copy(v)
    <2>1. breached' = breached
      BY <1>3 DEF Next, vars, Receive, DivideByZero, Read, Reload, EndMinute, EpollStep,
           Lock, CheckFull, WaitNotFull, ReacquireNotFull, Fill, Unlock, SignalNotEmpty,
           WorkerStep, CheckEmpty, WaitNotEmpty, ReacquireNotEmpty, Pop,
           UnlockRing, SignalNotFull, Process
    <2>2. QED
      BY <2>1
  <1>4. QED
    BY <1>1, <1>2, <1>3

\* A thread that checked the ring itself never over- or underruns it, for any
\* ring size and number of workers.
THEOREM OnlyBlindBreaches == Spec => BreachOnlyBlind
  <1>1. QED
    BY RingInvariant, BreachStep, PTL DEF Spec, BreachOnlyBlind

LEMMA NoRaceFromInv == RingInv => NoSlotRace
  <1> SUFFICES ASSUME RingInv, NEW w \in Workers, ~breached[w], ~wBlind[w],
                      wpc[w] = "copy", head[w] = tail[w]
               PROVE  FALSE
    BY DEF NoSlotRace
  <1>1. head[w] \in Slots /\ tail[w] \in Slots
    BY DEF RingInv, TypeOK
  <1>2. UsedOf(w) > 0
    BY DEF RingInv, PacketToCopy
  <1>3. UsedOf(w) = 0
    BY <1>1, UsedZero DEF UsedOf
  <1>4. QED
    BY <1>2, <1>3

\* Without a lock the two threads still never meet in a slot.
THEOREM SlotsNeverRace == Spec => []NoSlotRace
  <1>1. QED
    BY RingInvariant, NoRaceFromInv, PTL

-----------------------------------------------------------------------------
(* What ends the server                                                    *)

LEMMA EndStep ==
  TypeOK /\ EndsOnlyByRefusedGroup /\ [Next]_vars => EndsOnlyByRefusedGroup'
  <1> SUFFICES ASSUME TypeOK, EndsOnlyByRefusedGroup, [Next]_vars, epc' = "ended"
               PROVE  group' # StartGroup(group')
    BY DEF EndsOnlyByRefusedGroup
  <1> USE DEF epollVars, workerVars
  <1>1. ASSUME NEW f \in Flows, NEW type \in {"HEARTBEAT", "REQUEST"},
               Receive(f, type) \/ DivideByZero(f, type)
        PROVE  group' # StartGroup(group')
    <2>1. Divisor(group) = 0 /\ group' = group
      BY <1>1 DEF Receive, DivideByZero, Read
    <2>2. group \in Int /\ -CounterLimit < group /\ group < CounterLimit
      BY DEF TypeOK
    <2>3. group = 0
      BY <2>1, <2>2, CounterLimitAssumption DEF Divisor
    <2>4. QED
      BY <2>1, <2>3 DEF StartGroup
  <1>2. CASE epc = "ended" /\ group' = group
    BY <1>2 DEF EndsOnlyByRefusedGroup
  <1>3. ASSUME NEW w \in Workers, WorkerStep(w)
        PROVE  FALSE
    BY <1>3 DEF WorkerStep, CheckEmpty, WaitNotEmpty, ReacquireNotEmpty, Copy,
         Pop, UnlockRing, SignalNotFull, Process
  <1>4. ~EpollStep /\ ~EndMinute
        /\ ~\E setting \in GroupSettings : Reload(setting)
    BY DEF EpollStep, Lock, CheckFull, WaitNotFull, ReacquireNotFull, Fill,
         Push, Unlock, SignalNotEmpty, Reload, EndMinute
  <1>5. QED
    BY <1>1, <1>2, <1>3, <1>4 DEF Next, vars

\* For every width of the counter and every file, at the start and later: a
\* server that getConfigs has put right divides by zero only after updateEpoch
\* has taken over what getConfigs refuses.
THEOREM EndNeedsRefusedGroup == Spec => []EndsOnlyByRefusedGroup
  <1>1. Init => EndsOnlyByRefusedGroup
    BY DEF Init, EndsOnlyByRefusedGroup
  <1>2. QED
    BY <1>1, EndStep, TypeCorrect, PTL DEF Spec

-----------------------------------------------------------------------------
(* The rings implement the queues of WorkQueue                             *)

\* Of a ring that is not breached: a worker holds a packet from the copy to
\* the answer, and what the epoll thread has filled is what it has read.
Holding == {"pop", "unlock", "signal", "process"}
HeldInv ==
  /\ \A w \in Workers : ~breached[w] =>
       (inHand[w] # NoPacket <=> wpc[w] \in Holding)
  /\ epc = "push" => slot[target][head[target]] = current

LEMMA PacketsAreSome ==
  ASSUME NEW p \in Packets \cup {Blank}
  PROVE  p # NoPacket
  BY NoFlowAssumption DEF Packets, Blank, NoPacket

LEMMA HeldInit == Init => HeldInv
  BY DEF Init, HeldInv, Holding

LEMMA HeldStep == RingInv /\ HeldInv /\ [Next]_vars => HeldInv'
  <1> SUFFICES ASSUME RingInv, HeldInv, [Next]_vars
               PROVE  HeldInv'
    OBVIOUS
  <1> USE DEF epollVars, workerVars, ringVars, GoTo, HeldInv, Holding
  <1>type. TypeOK
    BY DEF RingInv
  <1>1. ASSUME NEW f \in Flows, NEW type \in {"HEARTBEAT", "REQUEST"},
               Receive(f, type) \/ DivideByZero(f, type)
        PROVE  HeldInv'
    BY <1>1 DEF Receive, DivideByZero, Read
  <1>2. CASE Lock \/ CheckFull \/ WaitNotFull \/ ReacquireNotFull \/ Unlock
    BY <1>2 DEF Lock, CheckFull, WaitNotFull, ReacquireNotFull, Unlock
  <1>3. CASE Fill
    BY <1>3, <1>type DEF Fill, TypeOK
  <1>4. CASE Push
    BY <1>4, <1>type DEF Push, TypeOK
  <1>5. CASE SignalNotEmpty
    BY <1>5, <1>type DEF SignalNotEmpty, TypeOK
  <1>6. ASSUME NEW v \in Workers, CheckEmpty(v) \/ WaitNotEmpty(v) \/
               ReacquireNotEmpty(v) \/ Pop(v) \/ UnlockRing(v)
        PROVE  HeldInv'
    BY <1>6, <1>type DEF CheckEmpty, WaitNotEmpty, ReacquireNotEmpty, Pop,
       UnlockRing, TypeOK
  <1>7. ASSUME NEW v \in Workers, Copy(v)
        PROVE  HeldInv'
    <2>1. Oldest(v) # NoPacket
      BY <1>type, PacketsAreSome DEF Oldest, TypeOK
    <2>2. \A w \in Workers : ~breached'[w] => ~breached[w]
      BY <1>7, <1>type DEF Copy, TypeOK
    <2>3. QED
      BY <1>7, <1>type, <2>1, <2>2 DEF Copy, TypeOK
  <1>8. ASSUME NEW v \in Workers, SignalNotFull(v)
        PROVE  HeldInv'
    BY <1>8, <1>type DEF SignalNotFull, TypeOK
  <1>9. ASSUME NEW v \in Workers, Process(v)
        PROVE  HeldInv'
    BY <1>9, <1>type DEF Process, TypeOK
  <1>10. ASSUME EndMinute \/ \E setting \in GroupSettings : Reload(setting)
         PROVE  HeldInv'
    BY <1>10 DEF EndMinute, Reload
  <1>11. CASE UNCHANGED vars
    BY <1>11 DEF vars
  <1>12. QED
    BY <1>1, <1>2, <1>3, <1>4, <1>5, <1>6, <1>7, <1>8, <1>9, <1>10, <1>11
       DEF Next, EpollStep, WorkerStep

QueueInv == RingInv /\ HeldInv

LEMMA QueueInvariant == Spec => []QueueInv
  BY RingInit, RingStep, HeldInit, HeldStep, PTL DEF Spec, QueueInv

-----------------------------------------------------------------------------
(* Pending(w) as a function of the ring alone                              *)

Entries == Packets \cup {Blank}
Content(ring, first, h) ==
  [i \in 1 .. Used(h, first) |-> ring[(first + i - 1) % RingSize]]
First(pc, t) == IF pc = "pop" THEN Advance(t) ELSE t

LEMMA ContentType ==
  ASSUME NEW ring \in [Slots -> Entries], NEW t \in Slots, NEW h \in Slots
  PROVE  /\ Content(ring, t, h) \in Seq(Entries)
         /\ Len(Content(ring, t, h)) = Used(h, t)
         /\ DOMAIN Content(ring, t, h) = 1 .. Used(h, t)
         /\ Used(h, t) \in Nat /\ Used(h, t) < RingSize
  <1>1. Used(h, t) \in Nat /\ Used(h, t) < RingSize
    <2>1. Used(h, t) \in Slots
      BY UsedDistance
    <2>2. QED
      BY <2>1, RingSizeAssumption DEF Slots
  <1>2. ASSUME NEW i \in 1 .. Used(h, t)
        PROVE  (t + i - 1) % RingSize \in Slots
    BY <1>1, RingSizeAssumption DEF Slots
  <1>3. \A i \in 1 .. Used(h, t) : ring[(t + i - 1) % RingSize] \in Entries
    BY <1>2
  <1>4. QED
    BY <1>1, <1>3 DEF Content

\* The slot at head is not in use.
LEMMA FillContent ==
  ASSUME NEW ring \in [Slots -> Entries], NEW t \in Slots, NEW h \in Slots,
         NEW x \in Entries
  PROVE  Content([ring EXCEPT ![h] = x], t, h) = Content(ring, t, h)
  <1>1. ASSUME NEW i \in 1 .. Used(h, t)
        PROVE  (t + i - 1) % RingSize # h
    <2>1. Used(h, t) = IF h >= t THEN h - t ELSE h - t + RingSize
      BY UsedDistance
    <2>2. i - 1 \in Slots /\ t + (i - 1) = t + i - 1
      BY <2>1, RingSizeAssumption DEF Slots
    <2>3. (t + i - 1) % RingSize =
            IF t + i - 1 < RingSize THEN t + i - 1 ELSE t + i - 1 - RingSize
      BY <2>2, OffsetWraps
    <2>4. QED
      BY <2>1, <2>3, RingSizeAssumption DEF Slots
  <1>2. QED
    BY <1>1 DEF Content

LEMMA PushContent ==
  ASSUME NEW ring \in [Slots -> Entries], NEW t \in Slots, NEW h \in Slots,
         Used(h, t) # RingSize - 1
  PROVE  Content(ring, t, Advance(h)) = Append(Content(ring, t, h), ring[h])
  <1> DEFINE n == Used(h, t)
  <1>1. n \in Nat /\ Used(Advance(h), t) = n + 1
    BY UsedAfterPush, ContentType
  <1>2. (t + (n + 1) - 1) % RingSize = h
    <2>1. n = IF h >= t THEN h - t ELSE h - t + RingSize
      BY UsedDistance
    <2>2. n \in Slots /\ t + n = t + (n + 1) - 1
      BY <1>1, UsedDistance DEF Slots
    <2>3. (t + n) % RingSize = IF t + n < RingSize THEN t + n
                                                  ELSE t + n - RingSize
      BY <2>2, OffsetWraps
    <2>4. QED
      BY <2>1, <2>2, <2>3, RingSizeAssumption DEF Slots
  <1>3. Len(Content(ring, t, h)) = n /\ Content(ring, t, h) \in Seq(Entries)
    BY ContentType
  <1>4. Append(Content(ring, t, h), ring[h]) =
          [i \in 1 .. n + 1 |-> IF i <= n THEN Content(ring, t, h)[i]
                                         ELSE ring[h]]
    <2> HIDE DEF n
    <2>1. QED
      BY <1>1, <1>3
  <1>5. \A i \in 1 .. n : Content(ring, t, h)[i] = ring[(t + i - 1) % RingSize]
    BY DEF Content
  <1>6. Content(ring, t, Advance(h)) =
          [i \in 1 .. n + 1 |-> ring[(t + i - 1) % RingSize]]
    BY <1>1 DEF Content
  <1>7. \A i \in 1 .. n + 1 :
          ring[(t + i - 1) % RingSize] =
            IF i <= n THEN Content(ring, t, h)[i] ELSE ring[h]
    <2> HIDE DEF n
    <2> SUFFICES ASSUME NEW i \in 1 .. n + 1, ~(i <= n)
                 PROVE  ring[(t + i - 1) % RingSize] = ring[h]
      BY <1>5
    <2>1. i = n + 1
      BY <1>1
    <2>2. QED
      BY <1>2, <2>1
  <1> HIDE DEF n
  <1>8. QED
    BY <1>4, <1>6, <1>7

LEMMA PopContent ==
  ASSUME NEW ring \in [Slots -> Entries], NEW t \in Slots, NEW h \in Slots,
         Used(h, t) # 0
  PROVE  /\ Content(ring, t, h) # <<>>
         /\ Head(Content(ring, t, h)) = ring[t]
         /\ Content(ring, Advance(t), h) = Tail(Content(ring, t, h))
  <1> DEFINE n == Used(h, t)
             q == Content(ring, t, h)
  <1>0. n \in Nat /\ n < RingSize
    BY ContentType
  <1>1. n \in Nat /\ n > 0 /\ Used(h, Advance(t)) = n - 1 /\ n < RingSize
    BY <1>0, UsedAfterPop
  <1>2. q \in Seq(Entries) /\ Len(q) = n
    BY ContentType
  <1>3. q[1] = ring[t]
    <2>1. (t + 1 - 1) % RingSize = t
      BY RingSizeAssumption DEF Slots
    <2>2. QED
      BY <1>1, <2>1 DEF Content
  <1>4. \A i \in 1 .. n - 1 : q[i + 1] = Content(ring, Advance(t), h)[i]
    <2> SUFFICES ASSUME NEW i \in 1 .. n - 1
                 PROVE  (t + (i + 1) - 1) % RingSize =
                        (Advance(t) + i - 1) % RingSize
      BY <1>1 DEF Content
    <2>1. i \in Slots /\ i - 1 \in Slots /\ Advance(t) \in Slots
      BY <1>1, AdvanceWraps, RingSizeAssumption DEF Slots
    <2>2. (t + i) % RingSize = IF t + i < RingSize THEN t + i
                                                  ELSE t + i - RingSize
      BY <2>1, OffsetWraps
    <2>3. (Advance(t) + (i - 1)) % RingSize =
            IF Advance(t) + (i - 1) < RingSize THEN Advance(t) + (i - 1)
                                       ELSE Advance(t) + (i - 1) - RingSize
      BY <2>1, OffsetWraps
    <2>4. Advance(t) = IF t = RingSize - 1 THEN 0 ELSE t + 1
      BY AdvanceWraps
    <2>5. t + (i + 1) - 1 = t + i /\ Advance(t) + i - 1 = Advance(t) + (i - 1)
      BY <2>1 DEF Slots
    <2>6. QED
      BY <2>1, <2>2, <2>3, <2>4, <2>5, RingSizeAssumption DEF Slots
  <1>5. Content(ring, Advance(t), h) = Tail(q)
    <2>1. /\ Content(ring, Advance(t), h) \in Seq(Entries)
          /\ Len(Content(ring, Advance(t), h)) = n - 1
      BY <1>1, AdvanceWraps, ContentType
    <2> DEFINE r == Content(ring, Advance(t), h)
    <2> HIDE DEF n, q, r
    <2>2. Len(Tail(q)) = n - 1 /\ Tail(q) \in Seq(Entries)
      BY <1>1, <1>2
    <2>3. \A i \in 1 .. n - 1 : Tail(q)[i] = q[i + 1]
      BY <1>1, <1>2
    <2>4. /\ r \in Seq(Entries) /\ Len(r) = n - 1
          /\ \A i \in 1 .. n - 1 : q[i + 1] = r[i]
      BY <1>4, <2>1 DEF r
    <2>5. r = Tail(q)
      BY <2>2, <2>3, <2>4, SMT
    <2>6. QED
      BY <2>5 DEF r
  <1> HIDE DEF n, q
  <1>6. QED
    BY <1>1, <1>2, <1>3, <1>5 DEF q

-----------------------------------------------------------------------------
(* Each step is one of WorkQueue's, or none                                *)

Queue == [w \in Workers |-> IF breached[w] THEN <<>> ELSE Pending(w)]
Hand  == [w \in Workers |-> IF breached[w] THEN NoPacket ELSE inHand[w]]
Begin(w) == First(wpc[w], tail[w])

LEMMA PendingIs ==
  ASSUME NEW w \in Workers
  PROVE  Pending(w) = Content(slot[w], Begin(w), head[w])
  BY DEF Pending, Content, First, Begin

LEMMA BeginType ==
  ASSUME TypeOK, NEW w \in Workers
  PROVE  /\ tail[w] \in Slots /\ head[w] \in Slots /\ Begin(w) \in Slots
         /\ slot[w] \in [Slots -> Entries]
  BY AdvanceWraps DEF Entries, TypeOK, Begin, First

\* What is pending depends on the indices and the slots.
LEMMA QueueFrame ==
  ASSUME UNCHANGED <<slot, head, breached>>,
         \A w \in Workers : Begin(w)' = Begin(w)
  PROVE  Queue' = Queue
  BY PendingIs DEF Queue, Pending, Begin, First

LEMMA Stutter ==
  ASSUME UNCHANGED <<slot, head, breached, inHand, Arriving>>,
         \A w \in Workers : Begin(w)' = Begin(w)
  PROVE  UNCHANGED Queues!vars
  BY QueueFrame DEF Queues!vars, Queue, Hand

LEMMA ArriveMaps ==
  ASSUME QueueInv, NEW f \in Flows, NEW type \in {"HEARTBEAT", "REQUEST"},
         Receive(f, type) \/ DivideByZero(f, type)
  PROVE  Queues!Arrive
  <1> USE DEF workerVars, ringVars
  <1>1. Arriving = NoPacket
    BY DEF Receive, DivideByZero, Read, Arriving
  <1>2. Arriving' \in Packets
    BY DEF Receive, DivideByZero, Read, Arriving, Packets
  <1>3. UNCHANGED <<Queue, Hand, breached>>
    BY QueueFrame DEF Receive, DivideByZero, Read, Begin, First, Hand
  <1>4. QED
    BY <1>1, <1>2, <1>3 DEF Queues!Arrive, Queue, Hand

\* Filling a slot is not seen: it is not in use.
LEMMA FillMaps == QueueInv /\ Fill => UNCHANGED Queues!vars
  <1> SUFFICES ASSUME QueueInv, Fill
               PROVE  UNCHANGED Queues!vars
    OBVIOUS
  <1> USE DEF workerVars
  <1>type. TypeOK
    BY DEF QueueInv, RingInv
  <1>1. target \in Workers /\ current \in Entries
    BY <1>type DEF Fill, TypeOK, Entries
  <1>2. ASSUME NEW w \in Workers
        PROVE  Pending(w)' = Pending(w)
    <2>1. Pending(w)' = Content(slot'[w], Begin(w), head[w])
      BY DEF Fill, Pending, Content, Begin, First
    <2>2. CASE w # target
      BY <2>1, <2>2, <1>type, PendingIs DEF Fill, TypeOK
    <2>3. CASE w = target
      <3>1. slot'[w] = [slot[w] EXCEPT ![head[w]] = current]
        BY <1>1, <1>type, <2>3 DEF Fill, TypeOK
      <3>2. Content(slot'[w], Begin(w), head[w])
              = Content(slot[w], Begin(w), head[w])
        BY <1>1, <1>type, <3>1, BeginType, FillContent
      <3>3. QED
        BY <2>1, <3>2, PendingIs
    <2>4. QED
      BY <2>2, <2>3
  <1>3. Arriving' = Arriving
    BY DEF Fill, Arriving
  <1>4. Queue' = Queue /\ Hand' = Hand /\ breached' = breached
    BY <1>2 DEF Fill, Queue, Hand
  <1>5. QED
    BY <1>3, <1>4 DEF Queues!vars, Queue, Hand

\* How many packets are pending, by how many slots are used.
LEMMA PendingLength ==
  ASSUME QueueInv, NEW w \in Workers, ~breached[w]
  PROVE  /\ Pending(w) \in Seq(Entries)
         /\ Len(Pending(w)) = IF wpc[w] = "pop" THEN UsedOf(w) - 1
                                                ELSE UsedOf(w)
         /\ UsedOf(w) \in 0 .. RingSize - 1
         /\ wpc[w] = "pop" => UsedOf(w) > 0
         /\ Used(head[w], Begin(w)) = Len(Pending(w))
  <1>type. TypeOK
    BY DEF QueueInv, RingInv
  <1>1. UsedOf(w) \in 0 .. RingSize - 1
    BY <1>type, UsedType DEF Slots
  <1>2. wpc[w] = "pop" => UsedOf(w) > 0
    BY DEF QueueInv, RingInv, PacketToPop
  <1>3. Used(head[w], Begin(w)) = IF wpc[w] = "pop" THEN UsedOf(w) - 1
                                                    ELSE UsedOf(w)
    BY <1>type, <1>1, <1>2, BeginType, UsedAfterPop DEF Begin, First, UsedOf
  <1>4. /\ Pending(w) \in Seq(Entries)
        /\ Len(Pending(w)) = Used(head[w], Begin(w))
    BY <1>type, PendingIs, BeginType, ContentType
  <1>5. QED
    BY <1>1, <1>2, <1>3, <1>4

LEMMA PushMaps ==
  ASSUME QueueInv, Push, NEW v \in Workers, v = target
  PROVE  \/ Queues!Submit(v) \/ Queues!Drop(v)
         \/ Queues!Overrun(v)
  <1> USE DEF workerVars
  <1>type. TypeOK
    BY DEF QueueInv, RingInv
  <1>1. /\ current \in Packets
        /\ UNCHANGED <<slot, inHand, wpc, tail>>
        /\ \A w \in Workers : Begin(w)' = Begin(w)
    BY <1>type DEF Push, TypeOK, Begin, First
  <1>2. Arriving = current /\ Arriving' = NoPacket /\ Arriving # NoPacket
    BY <1>1, PacketsAreSome DEF Push, Arriving
  <1>3. \A w \in Workers \ {v} :
          head'[w] = head[w] /\ breached'[w] = breached[w]
    BY <1>type DEF Push, TypeOK
  <1>4. \A w \in Workers \ {v} :
          Pending(w)' = Pending(w)
    BY <1>1, <1>3 DEF Pending
  <1>5. head'[v] = Advance(head[v])
    BY <1>type, <1>1 DEF Push, TypeOK
  <1>6. slot[v][head[v]] = current
    BY DEF Push, QueueInv, HeldInv
  <1>b. breached \in [Workers -> BOOLEAN] /\ breached' \in [Workers -> BOOLEAN]
    BY <1>type, TypeStep DEF TypeOK, Next, EpollStep
  <1>7. CASE breached[v]
    <2>1. breached' = breached
      BY <1>type, <1>1, <1>7 DEF Push, TypeOK
    <2>2. Queue' = Queue /\ Hand' = Hand
      BY <1>1, <1>4, <1>7, <2>1 DEF Queue, Hand
    <2>3. QED
      BY <1>2, <1>7, <2>1, <2>2 DEF Queues!Drop, Queue, Hand
  <1>8. CASE ~breached[v] /\ UsedOf(v) # RingSize - 1
    <2>1. breached' = breached
      <3>1. breached'[v] = breached[v]
        BY <1>type, <1>8, PushEffect
      <3>2. QED
        BY <1>b, <1>1, <1>3, <3>1
    <2>2. Used(head[v], Begin(v)) # RingSize - 1
          /\ Len(Pending(v)) < RingSize - 1
      BY <1>1, <1>8, PendingLength, RingSizeAssumption
    <2>3. Pending(v)' = Append(Pending(v), current)
      <3>1. Pending(v)'
              = Content(slot[v], Begin(v), Advance(head[v]))
        BY <1>1, <1>5 DEF Push, Pending, Content, Begin, First
      <3>2. QED
        BY <1>type, <1>1, <1>6, <2>2, <3>1, BeginType, PushContent, PendingIs
    <2>4. Queue' = [Queue EXCEPT ![v] = Append(@, Arriving)]
      BY <1>1, <1>2, <1>4, <1>8, <2>1, <2>3 DEF Queue
    <2>5. Hand' = Hand
      BY <1>1, <2>1 DEF Hand
    <2>6. QED
      BY <1>1, <1>2, <1>8, <2>1, <2>2, <2>4, <2>5
         DEF Queues!Submit, Queue, Hand
  <1>9. CASE ~breached[v] /\ UsedOf(v) = RingSize - 1
    <2>1. breached' = [breached EXCEPT ![v] = TRUE]
      <3>1. breached'[v]
        BY <1>type, <1>9, PushEffect
      <3>2. QED
        BY <1>b, <1>1, <1>3, <3>1
    <2>2. /\ Queue' = [Queue EXCEPT ![v] = <<>>]
          /\ Hand' = [Hand EXCEPT ![v] = NoPacket]
      BY <1>1, <1>4, <1>b, <2>1 DEF Queue, Hand
    <2>3. \/ Len(Pending(v)) = RingSize - 1
          \/ /\ Len(Pending(v)) = RingSize - 1 - 1
             /\ inHand[v] # NoPacket
      BY <1>1, <1>9, PendingLength DEF QueueInv, HeldInv, Holding
    <2>4. Queue[v] = Pending(v) /\ Hand[v] = inHand[v]
      BY <1>1, <1>9 DEF Queue, Hand
    <2>5. Queues!Fail(v)
      BY <1>9, <2>1, <2>2 DEF Queues!Fail, Queue, Hand
    <2>6. QED
      BY <1>2, <2>3, <2>4, <2>5 DEF Queues!Overrun, Queue, Hand
  <1>10. QED
    BY <1>7, <1>8, <1>9

LEMMA CopyMaps ==
  ASSUME QueueInv, NEW v \in Workers, Copy(v)
  PROVE  \/ Queues!Take(v) \/ Queues!Underrun(v) \/ UNCHANGED Queues!vars
  <1> USE DEF epollVars, ringVars, GoTo
  <1>type. TypeOK
    BY DEF QueueInv, RingInv
  <1>1. /\ UNCHANGED <<slot, head, tail>> /\ Arriving' = Arriving
        /\ wpc[v] = "copy" /\ wpc'[v] = "pop"
        /\ inHand'[v] = slot[v][tail[v]]
        /\ breached'[v] = (breached[v] \/ UsedOf(v) <= 0)
        /\ UsedOf(v) \in Nat
    BY <1>type, UsedType DEF Copy, Arriving, Oldest, TypeOK
  <1>2. \A w \in Workers \ {v} :
          /\ wpc'[w] = wpc[w] /\ inHand'[w] = inHand[w]
          /\ breached'[w] = breached[w] /\ Pending(w)' = Pending(w)
    BY <1>type DEF Copy, TypeOK, Pending
  <1>b. breached \in [Workers -> BOOLEAN] /\ breached' \in [Workers -> BOOLEAN]
    BY <1>type DEF Copy, TypeOK
  <1>3. CASE breached[v]
    <2>1. breached' = breached
      BY <1>1, <1>2, <1>3, <1>b
    <2>2. Queue' = Queue /\ Hand' = Hand
      BY <1>2, <1>3, <2>1 DEF Queue, Hand
    <2>3. QED
      BY <1>1, <2>1, <2>2 DEF Queues!vars, Queue, Hand
  <1>4. ~breached[v] => inHand[v] = NoPacket
    BY <1>1 DEF QueueInv, HeldInv, Holding
  <1>5. CASE ~breached[v] /\ UsedOf(v) > 0
    <2>1. breached' = breached
      <3>1. ~(UsedOf(v) <= 0)
        BY <1>1, <1>5
      <3>2. breached'[v] = breached[v]
        BY <1>1, <1>b, <3>1, Zenon
      <3>3. QED
        BY <1>2, <1>b, <3>2
    <2>2. /\ Pending(v) = Content(slot[v], tail[v], head[v])
          /\ Pending(v)' = Content(slot[v], Advance(tail[v]), head[v])
      BY <1>1 DEF Pending, Content
    <2>3. /\ Pending(v) # <<>> /\ Head(Pending(v)) = slot[v][tail[v]]
          /\ Pending(v)' = Tail(Pending(v))
      BY <1>type, <1>5, <2>2, BeginType, PopContent DEF UsedOf
    <2>4. Queue' = [Queue EXCEPT ![v] = Tail(@)] /\ Queue[v] = Pending(v)
      BY <1>2, <1>5, <2>1, <2>3 DEF Queue
    <2>5. Hand' = [Hand EXCEPT ![v] = Head(Queue[v])] /\ Hand[v] = NoPacket
      BY <1>1, <1>2, <1>4, <1>5, <2>1, <2>3, <2>4 DEF Hand
    <2>6. QED
      BY <1>1, <1>5, <2>1, <2>3, <2>4, <2>5 DEF Queues!Take, Queue, Hand
  <1>6. CASE ~breached[v] /\ UsedOf(v) = 0
    <2>1. breached' = [breached EXCEPT ![v] = TRUE]
      BY <1>1, <1>2, <1>6, <1>b
    <2>2. /\ Queue' = [Queue EXCEPT ![v] = <<>>]
          /\ Hand' = [Hand EXCEPT ![v] = NoPacket]
      BY <1>2, <1>b, <2>1 DEF Queue, Hand
    <2>3. Queue[v] = <<>> /\ Hand[v] = NoPacket
      <3>1. Len(Pending(v)) = 0 /\ Pending(v) \in Seq(Entries)
        BY <1>1, <1>6, PendingLength
      <3>2. Pending(v) = <<>>
        BY <3>1
      <3>3. QED
        BY <1>4, <1>6, <3>2 DEF Queue, Hand
    <2>4. Queues!Fail(v)
      BY <1>6, <2>1, <2>2 DEF Queues!Fail, Queue, Hand
    <2>5. QED
      BY <1>1, <2>3, <2>4 DEF Queues!Underrun, Queue, Hand
  <1>7. QED
    BY <1>1, <1>3, <1>5, <1>6

LEMMA ProcessMaps ==
  ASSUME QueueInv, NEW v \in Workers, Process(v)
  PROVE  Queues!Finish(v) \/ UNCHANGED Queues!vars
  <1> USE DEF epollVars, ringVars, GoTo
  <1>type. TypeOK
    BY DEF QueueInv, RingInv
  <1>1. UNCHANGED <<slot, head, tail, breached, Arriving>>
    BY DEF Process, Arriving
  <1>2. \A w \in Workers : Begin(w)' = Begin(w)
    BY <1>type, <1>1 DEF Process, Begin, First, TypeOK
  <1>3. Queue' = Queue
    BY <1>1, <1>2, QueueFrame
  <1>4. CASE breached[v]
    <2>1. Hand' = Hand
      BY <1>type, <1>1, <1>4 DEF Process, Hand, TypeOK
    <2>2. QED
      BY <1>1, <1>3, <2>1 DEF Queues!vars, Queue, Hand
  <1>5. CASE ~breached[v]
    <2>1. Hand[v] # NoPacket
      BY <1>5 DEF Process, Hand, QueueInv, HeldInv, Holding
    <2>2. Hand' = [Hand EXCEPT ![v] = NoPacket]
      BY <1>type, <1>1 DEF Process, Hand, TypeOK
    <2>3. QED
      BY <1>1, <1>3, <2>1, <2>2 DEF Queues!Finish, Queue, Hand
  <1>6. QED
    BY <1>4, <1>5

LEMMA QueueStep ==
  QueueInv /\ [Next]_vars => [Queues!Next]_(Queues!vars)
  <1> SUFFICES ASSUME QueueInv, [Next]_vars
               PROVE  Queues!Next \/ UNCHANGED Queues!vars
    OBVIOUS
  <1> USE DEF epollVars, workerVars, ringVars, GoTo
  <1>type. TypeOK
    BY DEF QueueInv, RingInv
  <1>1. ASSUME NEW f \in Flows, NEW type \in {"HEARTBEAT", "REQUEST"},
               Receive(f, type) \/ DivideByZero(f, type)
        PROVE  Queues!Next
    BY <1>1, ArriveMaps DEF Queues!Next
  <1>2. CASE Lock \/ CheckFull \/ WaitNotFull \/ ReacquireNotFull \/ Unlock
    BY <1>2, Stutter DEF Lock, CheckFull, WaitNotFull, ReacquireNotFull, Unlock,
       Arriving, Begin, First
  <1>3. CASE Fill
    BY <1>3, FillMaps
  <1>4. CASE Push
    <2>1. target \in Workers
      BY <1>type DEF TypeOK
    <2>2. QED
      BY <1>4, <2>1, PushMaps DEF Queues!Next
  <1>5. CASE SignalNotEmpty
    BY <1>5, <1>type, Stutter DEF SignalNotEmpty, Arriving, Begin, First, TypeOK
  <1>6. ASSUME NEW v \in Workers, WorkerStep(v)
        PROVE  Queues!Next \/ UNCHANGED Queues!vars
    <2>1. CASE CheckEmpty(v) \/ WaitNotEmpty(v) \/ ReacquireNotEmpty(v)
      BY <2>1, <1>type, Stutter DEF CheckEmpty, WaitNotEmpty, ReacquireNotEmpty,
         Arriving, Begin, First, TypeOK
    <2>2. CASE Copy(v)
      BY <2>2, CopyMaps DEF Queues!Next
    <2>3. CASE Pop(v)
      BY <2>3, <1>type, Stutter DEF Pop, Arriving, Begin, First, TypeOK
    <2>4. CASE UnlockRing(v) \/ SignalNotFull(v)
      BY <2>4, <1>type, Stutter DEF UnlockRing, SignalNotFull, Arriving, Begin,
         First, TypeOK
    <2>5. CASE Process(v)
      BY <2>5, ProcessMaps DEF Queues!Next
    <2>6. QED
      BY <1>6, <2>1, <2>2, <2>3, <2>4, <2>5 DEF WorkerStep
  <1>7. CASE EndMinute \/ \E setting \in GroupSettings : Reload(setting)
    BY <1>7, Stutter DEF EndMinute, Reload, Arriving, Begin, First
  <1>8. CASE UNCHANGED vars
    BY <1>8, Stutter DEF vars, Arriving, Begin, First
  <1>9. QED
    BY <1>1, <1>2, <1>3, <1>4, <1>5, <1>6, <1>7, <1>8 DEF Next, EpollStep

LEMMA QueueInit == Init => Queues!Init
  <1> SUFFICES ASSUME Init PROVE Queues!Init
    OBVIOUS
  <1>1. \A w \in Workers : Pending(w) = <<>>
    <2>1. 0 \in Slots
      BY RingSizeAssumption DEF Slots
    <2>2. Used(0, 0) = 0
      BY <2>1, UsedZero
    <2>3. QED
      BY <2>2 DEF Init, Pending
  <1>2. QED
    BY <1>1 DEF Init, Arriving, Queues!Init

\* For every number of workers and ring size the rings are the bounded FIFO
\* queues of WorkQueue, until one is breached, and then the others still are.
THEOREM RingsAreQueues == Spec => ImplementsWorkQueue
  <1>1. QED
    BY QueueInvariant, QueueInit, QueueStep, PTL
       DEF Spec, ImplementsWorkQueue, Queues!Spec

-----------------------------------------------------------------------------
(* No request is forgotten                                                 *)

\* RequestsKept, of any queues and hands: the request of flow f is the i-th
\* packet on the way to worker w's answer.
At(q, h, f, w, i) ==
  i \in 0 .. Len(q[w]) /\ (IF i = 0 THEN h[w] ELSE q[w][i]) = Request(f)
Kept(a, q, h, waiting) ==
  \A f \in Flows :
    /\ f \in waiting <=>
         a = Request(f) \/ \E w \in Workers, i \in Nat : At(q, h, f, w, i)
    /\ a = Request(f) => \A w \in Workers, i \in Nat : ~At(q, h, f, w, i)
    /\ \A w, v \in Workers, i, j \in Nat :
         At(q, h, f, w, i) /\ At(q, h, f, v, j) => w = v /\ i = j

KeptNow == Kept(Arriving, Queue, Hand, awaiting)

Intact == \A w \in Workers : ~breached[w]
Any == Packets \cup {Blank, NoPacket}

\* What the step of a queue does to it.
LEMMA ArriveKeeps ==
  ASSUME NEW q, NEW h, NEW waiting,
         NEW f \in Flows, f \notin waiting,
         NEW type \in {"HEARTBEAT", "REQUEST"}, Kept(NoPacket, q, h, waiting)
  PROVE  Kept([flow |-> f, type |-> type], q, h,
              IF type = "REQUEST" THEN waiting \cup {f} ELSE waiting)
  <1>1. \A g \in Flows :
          /\ NoPacket # Request(g)
          /\ [flow |-> f, type |-> type] = Request(g)
               <=> type = "REQUEST" /\ g = f
    BY NoFlowAssumption DEF NoPacket, Request
  <1>2. QED
    BY <1>1 DEF Kept

LEMMA SubmitKeeps ==
  ASSUME NEW a \in Packets, NEW q \in [Workers -> Seq(Entries)], NEW h,
         NEW waiting, NEW v \in Workers, Kept(a, q, h, waiting)
  PROVE  Kept(NoPacket, [q EXCEPT ![v] = Append(@, a)], h, waiting)
  <1> DEFINE n == [q EXCEPT ![v] = Append(@, a)]
  <1>1. /\ q[v] \in Seq(Entries) /\ Len(q[v]) \in Nat
        /\ a \in Entries
    BY DEF Entries
  <1>2. /\ \A w \in Workers : w # v => n[w] = q[w]
        /\ n[v] = Append(q[v], a)
    OBVIOUS
  <1>3. /\ Len(n[v]) = Len(q[v]) + 1
        /\ \A i \in 1 .. Len(q[v]) : n[v][i] = q[v][i]
        /\ n[v][Len(q[v]) + 1] = a
    BY <1>1, <1>2
  <1>4. \A f \in Flows, w \in Workers, i \in Nat :
          At(n, h, f, w, i) <=>
            \/ At(q, h, f, w, i)
            \/ w = v /\ i = Len(q[v]) + 1 /\ a = Request(f)
    <2> TAKE f \in Flows, w \in Workers, i \in Nat
    <2>1. CASE w # v
      BY <1>2, <2>1 DEF At
    <2>2. CASE w = v /\ i \in 0 .. Len(q[v])
      BY <1>1, <1>3, <2>2 DEF At
    <2>3. CASE w = v /\ i = Len(q[v]) + 1
      BY <1>1, <1>3, <2>3 DEF At
    <2>4. CASE w = v /\ i > Len(q[v]) + 1
      BY <1>1, <1>3, <2>4 DEF At
    <2>5. QED
      BY <1>1, <2>1, <2>2, <2>3, <2>4
  <1>5. Len(q[v]) + 1 \in Nat
    BY <1>1
  <1>6. \A f \in Flows : NoPacket # Request(f)
    BY NoFlowAssumption DEF NoPacket, Request
  <1> HIDE DEF n
  <1>7. ASSUME NEW f \in Flows
        PROVE  (\E w \in Workers, i \in Nat : At(n, h, f, w, i))
                 <=> \/ a = Request(f)
                     \/ \E w \in Workers, i \in Nat : At(q, h, f, w, i)
    BY <1>4, <1>5
  <1>8. ASSUME NEW f \in Flows, NEW w \in Workers, NEW u \in Workers,
               NEW i \in Nat, NEW j \in Nat,
               At(n, h, f, w, i), At(n, h, f, u, j)
        PROVE  w = u /\ i = j
    <2>1. CASE a = Request(f)
      <3>1. ~At(q, h, f, w, i) /\ ~At(q, h, f, u, j)
        BY <2>1 DEF Kept
      <3>2. QED
        BY <1>4, <1>8, <3>1
    <2>2. CASE a # Request(f)
      <3>1. At(q, h, f, w, i) /\ At(q, h, f, u, j)
        BY <1>4, <1>8, <2>2
      <3>2. QED
        BY <3>1 DEF Kept
    <2>3. QED
      BY <2>1, <2>2
  <1>9. ASSUME NEW f \in Flows
        PROVE  f \in waiting <=> \E w \in Workers, i \in Nat : At(n, h, f, w, i)
    BY <1>7 DEF Kept
  <1>10. QED
    BY <1>6, <1>8, <1>9 DEF Kept, n

LEMMA TakeKeeps ==
  ASSUME NEW a, NEW q \in [Workers -> Seq(Entries)], NEW h \in [Workers -> Any],
         NEW waiting, NEW v \in Workers, h[v] = NoPacket, q[v] # <<>>,
         Kept(a, q, h, waiting)
  PROVE  Kept(a, [q EXCEPT ![v] = Tail(@)], [h EXCEPT ![v] = Head(q[v])],
              waiting)
  <1> DEFINE n == [q EXCEPT ![v] = Tail(@)]
             g == [h EXCEPT ![v] = Head(q[v])]
  <1>1. q[v] \in Seq(Entries) /\ Len(q[v]) \in Nat \ {0}
    OBVIOUS
  <1>2. /\ \A w \in Workers : w # v => n[w] = q[w] /\ g[w] = h[w]
        /\ n[v] = Tail(q[v]) /\ g[v] = q[v][1]
    OBVIOUS
  <1>3. /\ Len(n[v]) = Len(q[v]) - 1
        /\ \A i \in 1 .. Len(q[v]) - 1 : n[v][i] = q[v][i + 1]
    BY <1>1, <1>2
  <1>4. \A f \in Flows : NoPacket # Request(f)
    BY NoFlowAssumption DEF NoPacket, Request
  <1>5. \A f \in Flows, w \in Workers, i \in Nat :
          At(n, g, f, w, i) <=> At(q, h, f, w, IF w = v THEN i + 1 ELSE i)
    <2> TAKE f \in Flows, w \in Workers, i \in Nat
    <2>1. CASE w # v
      BY <1>2, <2>1 DEF At
    <2>2. CASE w = v /\ i = 0
      BY <1>1, <1>2, <1>3, <2>2 DEF At
    <2>3. CASE w = v /\ i \in 1 .. Len(q[v]) - 1
      BY <1>1, <1>2, <1>3, <2>3 DEF At
    <2>4. CASE w = v /\ i > Len(q[v]) - 1 /\ i # 0
      BY <1>1, <1>2, <1>3, <2>4 DEF At
    <2>5. QED
      BY <1>1, <2>1, <2>2, <2>3, <2>4
  <1>6. \A f \in Flows : ~At(q, h, f, v, 0)
    BY <1>4 DEF At
  <1>7. \A i \in Nat : i + 1 \in Nat /\ (i # 0 => i - 1 \in Nat /\ (i - 1) + 1 = i)
    OBVIOUS
  <1>8. \A i, j \in Nat : i + 1 = j + 1 => i = j
    OBVIOUS
  <1> HIDE DEF n, g
  <1>9. ASSUME NEW f \in Flows
        PROVE  (\E w \in Workers, i \in Nat : At(n, g, f, w, i))
                 <=> \E w \in Workers, i \in Nat : At(q, h, f, w, i)
    <2>1. ASSUME NEW w \in Workers, NEW i \in Nat, At(q, h, f, w, i)
          PROVE  \E u \in Workers, j \in Nat : At(n, g, f, u, j)
      <3>1. CASE w # v
        BY <1>5, <2>1, <3>1
      <3>2. CASE w = v
        <4>1. i # 0
          BY <1>6, <2>1, <3>2
        <4>2. i - 1 \in Nat /\ At(n, g, f, v, i - 1)
          BY <1>5, <1>7, <2>1, <3>2, <4>1
        <4>3. QED
          BY <4>2
      <3>3. QED
        BY <3>1, <3>2
    <2>2. QED
      BY <1>5, <1>7, <2>1
  <1>10. ASSUME NEW f \in Flows, NEW w \in Workers, NEW u \in Workers,
                NEW i \in Nat, NEW j \in Nat,
                At(n, g, f, w, i), At(n, g, f, u, j)
         PROVE  w = u /\ i = j
    <2> DEFINE shift(x, k) == IF x = v THEN k + 1 ELSE k
    <2>1. At(q, h, f, w, shift(w, i)) /\ At(q, h, f, u, shift(u, j))
      BY <1>5, <1>10
    <2>2. shift(w, i) \in Nat /\ shift(u, j) \in Nat
      OBVIOUS
    <2>3. w = u /\ shift(w, i) = shift(u, j)
      BY <2>1, <2>2 DEF Kept
    <2>4. QED
      BY <1>8, <2>3
  <1>11. ASSUME NEW f \in Flows
         PROVE  /\ f \in waiting <=>
                     \/ a = Request(f)
                     \/ \E w \in Workers, i \in Nat : At(n, g, f, w, i)
                /\ a = Request(f) =>
                     ~\E w \in Workers, i \in Nat : At(n, g, f, w, i)
    BY <1>9 DEF Kept
  <1>12. QED
    BY <1>10, <1>11 DEF Kept, n, g

LEMMA FinishKeeps ==
  ASSUME NEW a, NEW q \in [Workers -> Seq(Entries)], NEW h \in [Workers -> Any],
         NEW waiting, NEW v \in Workers, Kept(a, q, h, waiting)
  PROVE  Kept(a, q, [h EXCEPT ![v] = NoPacket],
              IF h[v].type = "REQUEST" THEN waiting \ {h[v].flow} ELSE waiting)
  <1> DEFINE g == [h EXCEPT ![v] = NoPacket]
  <1>1. \A f \in Flows :
          /\ NoPacket # Request(f)
          /\ h[v] = Request(f) <=> h[v].type = "REQUEST" /\ h[v].flow = f
    BY NoFlowAssumption DEF Any, Packets, Blank, NoPacket, Request
  <1>2. /\ Len(q[v]) \in Nat
        /\ \A w \in Workers : w # v => g[w] = h[w]
        /\ g[v] = NoPacket
    OBVIOUS
  <1>3. \A f \in Flows, w \in Workers, i \in Nat :
          At(q, g, f, w, i) <=> At(q, h, f, w, i) /\ ~(w = v /\ i = 0)
    BY <1>1, <1>2 DEF At
  <1>4. \A f \in Flows : At(q, h, f, v, 0) <=> h[v] = Request(f)
    BY <1>2 DEF At
  <1> HIDE DEF g
  <1>5. 0 \in Nat
    OBVIOUS
  <1> DEFINE left == IF h[v].type = "REQUEST" THEN waiting \ {h[v].flow} ELSE waiting
  <1>6. \A f \in Flows : f \in left <=> f \in waiting /\ h[v] # Request(f)
    BY <1>1
  <1> HIDE DEF left
  <1>7. ASSUME NEW f \in Flows
        PROVE  /\ f \in left <=>
                    \/ a = Request(f)
                    \/ \E w \in Workers, i \in Nat : At(q, g, f, w, i)
               /\ a = Request(f) =>
                    \A w \in Workers, i \in Nat : ~At(q, g, f, w, i)
               /\ \A w, u \in Workers, i, j \in Nat :
                    At(q, g, f, w, i) /\ At(q, g, f, u, j) => w = u /\ i = j
    <2>1. CASE h[v] = Request(f)
      <3>1. At(q, h, f, v, 0) /\ a # Request(f)
        BY <1>4, <1>5, <2>1 DEF Kept
      <3>2. \A w \in Workers, i \in Nat : ~At(q, g, f, w, i)
        BY <1>3, <1>5, <3>1 DEF Kept
      <3>3. QED
        BY <1>6, <2>1, <3>1, <3>2
    <2>2. CASE h[v] # Request(f)
      <3>1. \A w \in Workers, i \in Nat : At(q, g, f, w, i) <=> At(q, h, f, w, i)
        BY <1>3, <1>4, <2>2
      <3>2. QED
        BY <1>6, <2>2, <3>1 DEF Kept
    <2>3. QED
      BY <2>1, <2>2
  <1>8. QED
    BY <1>7 DEF Kept, g, left

\* While no ring is breached the queues and hands are the pending packets and
\* what the workers hold, and RequestsKept speaks of them.
LEMMA LinesAreSequences ==
  ASSUME QueueInv
  PROVE  /\ Queue \in [Workers -> Seq(Entries)]
         /\ Hand \in [Workers -> Any]
         /\ Intact => \A w \in Workers :
              /\ Queue[w] = Pending(w) /\ Hand[w] = inHand[w]
              /\ Len(Pending(w)) \in 0 .. RingSize - 1
  <1>type. TypeOK
    BY DEF QueueInv, RingInv
  <1>1. ASSUME NEW w \in Workers
        PROVE  /\ Queue[w] \in Seq(Entries)
               /\ ~breached[w] => Len(Pending(w)) \in 0 .. RingSize - 1
    <2>1. CASE breached[w]
      BY <2>1 DEF Queue
    <2>2. CASE ~breached[w]
      <3>1. /\ Pending(w) \in Seq(Entries)
            /\ UsedOf(w) \in 0 .. RingSize - 1
            /\ wpc[w] = "pop" => UsedOf(w) > 0
            /\ Len(Pending(w)) = IF wpc[w] = "pop" THEN UsedOf(w) - 1
                                                   ELSE UsedOf(w)
        BY <2>2, PendingLength
      <3>2. Queue[w] = Pending(w)
        BY <2>2 DEF Queue
      <3>3. QED
        BY <3>1, <3>2, RingSizeAssumption
    <2>3. QED
      BY <2>1, <2>2
  <1>2. \A w \in Workers : Hand[w] \in Any
    BY <1>type DEF Hand, Any, TypeOK
  <1>3. QED
    BY <1>1, <1>2 DEF Queue, Hand, Intact

LEMMA KeptIs ==
  ASSUME QueueInv, Intact
  PROVE  RequestsKept <=> KeptNow
  <1>1. ASSUME NEW f \in Flows
        PROVE  /\ \A p \in InLine(f) :
                    /\ p[1] \in Workers /\ p[2] \in Nat /\ p = <<p[1], p[2]>>
                    /\ At(Queue, Hand, f, p[1], p[2])
               /\ \A w \in Workers, i \in Nat :
                    At(Queue, Hand, f, w, i) => <<w, i>> \in InLine(f)
    <2>1. ASSUME NEW w \in Workers, NEW i \in Nat
          PROVE  At(Queue, Hand, f, w, i) <=>
                   /\ i \in 0 .. RingSize - 1 /\ i <= Len(Pending(w))
                   /\ Line(w)[i] = Request(f)
      <3>1. /\ Queue[w] = Pending(w) /\ Hand[w] = inHand[w]
            /\ Len(Pending(w)) \in 0 .. RingSize - 1
        BY LinesAreSequences
      <3>2. i \in 0 .. Len(Pending(w)) =>
              Line(w)[i] = IF i = 0 THEN inHand[w] ELSE Pending(w)[i]
        BY DEF Line
      <3>3. QED
        BY <3>1, <3>2, RingSizeAssumption DEF At
    <2>2. \A p \in InLine(f) :
            /\ p[1] \in Workers /\ p[2] \in 0 .. RingSize - 1
            /\ p = <<p[1], p[2]>>
            /\ p[2] <= Len(Pending(p[1])) /\ Line(p[1])[p[2]] = Request(f)
      BY DEF InLine
    <2>3. \A w \in Workers, i \in 0 .. RingSize - 1 :
            i <= Len(Pending(w)) /\ Line(w)[i] = Request(f)
              => <<w, i>> \in InLine(f)
      BY DEF InLine
    <2>4. \A i \in 0 .. RingSize - 1 : i \in Nat
      OBVIOUS
    <2>5. QED
      BY <2>1, <2>2, <2>3, <2>4
  <1>2. ASSUME NEW f \in Flows
        PROVE  InLine(f) # {} <=>
                 \E w \in Workers, i \in Nat : At(Queue, Hand, f, w, i)
    BY <1>1
  <1>3. ASSUME NEW f \in Flows
        PROVE  (\A p, q \in InLine(f) : p = q) <=>
                 \A w, v \in Workers, i, j \in Nat :
                   At(Queue, Hand, f, w, i) /\ At(Queue, Hand, f, v, j)
                     => w = v /\ i = j
    <2>1. ASSUME \A p, q \in InLine(f) : p = q,
                 NEW w \in Workers, NEW v \in Workers,
                 NEW i \in Nat, NEW j \in Nat,
                 At(Queue, Hand, f, w, i), At(Queue, Hand, f, v, j)
          PROVE  w = v /\ i = j
      <3>1. <<w, i>> = <<v, j>>
        BY <1>1, <2>1
      <3>2. QED
        BY <3>1
    <2>2. ASSUME \A w, v \in Workers, i, j \in Nat :
                   At(Queue, Hand, f, w, i) /\ At(Queue, Hand, f, v, j)
                     => w = v /\ i = j,
                 NEW p \in InLine(f), NEW q \in InLine(f)
          PROVE  p = q
      <3>1. p[1] = q[1] /\ p[2] = q[2]
        BY <1>1, <2>2
      <3>2. QED
        BY <1>1, <3>1
    <2>3. QED
      BY <2>1, <2>2
  <1>4. RequestsKept <=> \A f \in Flows :
          /\ f \in awaiting <=> Arriving = Request(f) \/ InLine(f) # {}
          /\ Arriving = Request(f) => InLine(f) = {}
          /\ \A p, q \in InLine(f) : p = q
    BY DEF RequestsKept, Intact
  <1>5. QED
    BY <1>2, <1>3, <1>4 DEF KeptNow, Kept

LEMMA KeptInit == Init => KeptNow
  <1> SUFFICES ASSUME Init
               PROVE  KeptNow
    OBVIOUS
  <1>1. Arriving = NoPacket /\ awaiting = {}
    BY DEF Init, Arriving
  <1>2. \A w \in Workers : Queue[w] = <<>> /\ Hand[w] = NoPacket
    BY QueueInit DEF Queues!Init, Queue, Hand
  <1>3. \A f \in Flows : NoPacket # Request(f)
    BY NoFlowAssumption DEF NoPacket, Request
  <1>4. \A f \in Flows, w \in Workers, i \in Nat : ~At(Queue, Hand, f, w, i)
    BY <1>2, <1>3 DEF At
  <1>5. QED
    BY <1>1, <1>3, <1>4 DEF KeptNow, Kept

KeptInv == Intact => KeptNow

LEMMA KeptAfter ==
  ASSUME NEW a, NEW q, NEW h, NEW waiting, Kept(a, q, h, waiting),
         Arriving' = a, Queue' = q, Hand' = h, awaiting' = waiting
  PROVE  KeptNow'
  BY DEF KeptNow, Kept, At

\* A step of the queues that is none of their own and leaves awaiting alone.
LEMMA KeptFrame ==
  ASSUME KeptNow,
         UNCHANGED Queues!vars, awaiting' = awaiting
  PROVE  KeptNow'
  <1>1. Queue' = Queue /\ Hand' = Hand /\ Arriving' = Arriving
    BY DEF Queues!vars, Queue, Hand
  <1>2. QED
    BY <1>1 DEF KeptNow, Kept, At

LEMMA KeptStep ==
  ASSUME QueueInv, Intact', KeptInv, [Next]_vars
  PROVE  KeptNow'
  <1> USE DEF epollVars, workerVars, ringVars, GoTo
  <1>type. TypeOK /\ TypeOK'
    BY TypeStep DEF QueueInv, RingInv
  <1>a. Intact
    <2>1. \A w \in Workers : breached[w] => breached'[w]
      BY <1>type DEF Next, Receive, DivideByZero, Read, EpollStep, Lock, CheckFull,
         WaitNotFull, ReacquireNotFull, Fill, Push, Unlock, SignalNotEmpty,
         WorkerStep, CheckEmpty, WaitNotEmpty, ReacquireNotEmpty, Copy, Pop,
         UnlockRing, SignalNotFull, Process, EndMinute, Reload, vars, TypeOK
    <2>2. QED
      BY <2>1 DEF Intact
  <1>k. KeptNow
    BY <1>a DEF KeptInv
  <1>b. /\ Queue \in [Workers -> Seq(Entries)]
        /\ Hand \in [Workers -> Any]
        /\ \A w \in Workers : ~breached[w] /\ ~breached'[w]
        /\ \A w \in Workers : Hand[w] = inHand[w]
    BY <1>a, LinesAreSequences DEF Intact
  <1>1. ASSUME NEW f \in Flows, NEW type \in {"HEARTBEAT", "REQUEST"},
               Receive(f, type) \/ DivideByZero(f, type)
        PROVE  KeptNow'
    <2>1. Queues!Arrive
      BY <1>1, ArriveMaps
    <2>2. Arriving = NoPacket /\ Queue' = Queue /\ Hand' = Hand
      BY <2>1 DEF Queues!Arrive, Queue, Hand
    <2> DEFINE packet == [flow |-> f, type |-> type]
               waiting == IF type = "REQUEST" THEN awaiting \cup {f}
                                              ELSE awaiting
    <2>3. Arriving' = packet /\ f \notin awaiting /\ awaiting' = waiting
      BY <1>1 DEF Receive, DivideByZero, Read, Arriving
    <2>4. Kept(packet, Queue, Hand, waiting)
      BY <2>2, <2>3, ArriveKeeps, <1>k DEF KeptNow
    <2> HIDE DEF packet, waiting
    <2>5. QED
      BY <2>2, <2>3, <2>4, KeptAfter
  <1>2. ASSUME Push, NEW v \in Workers, v = target
        PROVE  KeptNow'
    <2>1. Queues!Submit(v)
      <3>1. ~Queues!Drop(v)
        BY <1>b, <1>2 DEF Queues!Drop
      <3>2. ~Queues!Overrun(v)
        BY <1>b, <1>2, <1>type DEF Queues!Overrun, Queues!Fail, TypeOK
      <3>3. QED
        BY <1>2, <3>1, <3>2, PushMaps
    <2>2. /\ Arriving' = NoPacket /\ Hand' = Hand
          /\ Queue' = [Queue EXCEPT ![v] = Append(@, Arriving)]
      BY <2>1 DEF Queues!Submit, Queue, Hand
    <2>3. Arriving \in Packets /\ awaiting' = awaiting
      BY <1>2, <1>type DEF Push, Arriving, TypeOK
    <2>4. Kept(NoPacket, [Queue EXCEPT ![v] = Append(@, Arriving)], Hand, awaiting)
      BY <1>b, <2>3, SubmitKeeps, <1>k DEF KeptNow
    <2>5. QED
      BY <2>2, <2>3, <2>4, KeptAfter
  <1>3. ASSUME NEW v \in Workers, Copy(v)
        PROVE  KeptNow'
    <2>1. awaiting' = awaiting
      BY <1>3 DEF Copy
    <2>2. CASE Queues!Take(v)
      <3>1. /\ Arriving' = Arriving
            /\ Hand[v] = NoPacket /\ Queue[v] # <<>>
            /\ Hand' = [Hand EXCEPT ![v] = Head(Queue[v])]
            /\ Queue' = [Queue EXCEPT ![v] = Tail(@)]
        BY <2>2 DEF Queues!Take, Queue, Hand
      <3>2. Kept(Arriving, [Queue EXCEPT ![v] = Tail(@)],
                 [Hand EXCEPT ![v] = Head(Queue[v])], awaiting)
        BY <1>b, <3>1, TakeKeeps, <1>k DEF KeptNow
      <3>3. QED
        BY <2>1, <3>1, <3>2, KeptAfter
    <2>3. ~Queues!Underrun(v)
      BY <1>b, <1>type DEF Queues!Underrun, Queues!Fail, TypeOK
    <2>4. QED
      BY <1>3, <2>1, <2>2, <2>3, CopyMaps, <1>k, KeptFrame
  <1>4. ASSUME NEW v \in Workers, Process(v)
        PROVE  KeptNow'
    <2>1. UNCHANGED <<Arriving, Queue>>
      <3>1. UNCHANGED <<slot, head, tail, breached, Arriving>>
        BY <1>4 DEF Process, Arriving
      <3>2. \A w \in Workers : Begin(w)' = Begin(w)
        BY <1>4, <1>type, <3>1 DEF Process, Begin, First, TypeOK
      <3>3. QED
        BY <3>1, <3>2, QueueFrame
    <2>2. Hand' = [Hand EXCEPT ![v] = NoPacket]
      BY <1>4, <1>type, <1>b DEF Process, Hand, TypeOK
    <2>3. awaiting' = IF Hand[v].type = "REQUEST"
                        THEN awaiting \ {Hand[v].flow} ELSE awaiting
      BY <1>4, <1>b DEF Process
    <2>4. Kept(Arriving, Queue, [Hand EXCEPT ![v] = NoPacket],
               IF Hand[v].type = "REQUEST"
                 THEN awaiting \ {Hand[v].flow} ELSE awaiting)
      BY <1>b, FinishKeeps, <1>k DEF KeptNow
    <2>5. QED
      BY <2>1, <2>2, <2>3, <2>4, KeptAfter
  <1>5. CASE Fill
    BY <1>5, FillMaps, <1>k, KeptFrame DEF Fill
  <1>6. CASE Lock \/ CheckFull \/ WaitNotFull \/ ReacquireNotFull \/ Unlock
    BY <1>6, Stutter, <1>k, KeptFrame DEF Lock, CheckFull, WaitNotFull,
       ReacquireNotFull, Unlock, Arriving, Begin, First
  <1>7. CASE SignalNotEmpty
    BY <1>7, <1>type, Stutter, <1>k, KeptFrame DEF SignalNotEmpty, Arriving, Begin, First, TypeOK
  <1>8. ASSUME NEW v \in Workers,
               CheckEmpty(v) \/ WaitNotEmpty(v) \/ ReacquireNotEmpty(v) \/ Pop(v)
                 \/ UnlockRing(v) \/ SignalNotFull(v)
        PROVE  KeptNow'
    BY <1>8, <1>type, Stutter, <1>k, KeptFrame DEF CheckEmpty, WaitNotEmpty,
       ReacquireNotEmpty, Pop, UnlockRing, SignalNotFull, Arriving, Begin, First,
       TypeOK
  <1>9. CASE EndMinute \/ \E setting \in GroupSettings : Reload(setting)
    BY <1>9, Stutter, <1>k, KeptFrame DEF EndMinute, Reload, Arriving, Begin, First
  <1>10. CASE UNCHANGED vars
    BY <1>10, Stutter, <1>k, KeptFrame DEF vars, Arriving, Begin, First
  <1>11. target \in Workers
    BY <1>type DEF TypeOK
  <1>12. QED
    BY <1>1, <1>2, <1>3, <1>4, <1>5, <1>6, <1>7, <1>8, <1>9, <1>10, <1>11
       DEF Next, EpollStep, WorkerStep

LEMMA KeptInvariant == Spec => [](QueueInv /\ KeptInv)
  <1>1. Init => KeptInv
    BY KeptInit DEF KeptInv
  <1>2. QueueInv /\ KeptInv /\ [Next]_vars => KeptInv'
    BY KeptStep DEF KeptInv
  <1>3. QED
    BY <1>1, <1>2, QueueInvariant, PTL DEF Spec

\* For every number of workers, ring size, set of flows and sequence of
\* reloads: while no ring is breached, a flow awaits an answer exactly if its
\* request is under way, and then in one place.
THEOREM NoRequestForgotten == Spec => []RequestsKept
  <1>1. QueueInv /\ KeptInv => RequestsKept
    <2>1. ~Intact => RequestsKept
      BY DEF Intact, RequestsKept
    <2>2. QED
      BY <2>1, KeptIs DEF KeptInv
  <1>2. QED
    BY <1>1, KeptInvariant, PTL

-----------------------------------------------------------------------------
(* A standstill has a cause                                                *)

\* A mutex that is locked is about to be freed by the thread that locked it or
\* by the other one.
MutexInv ==
  \A w \in Workers : mlock[w] =>
    \/ epc \in {"check", "wait", "fill", "push", "unlock"} /\ target = w
    \/ wpc[w] \in {"copy", "pop", "unlock"}

LEMMA MutexStep == TypeOK /\ MutexInv /\ [Next]_vars => MutexInv'
  <1> SUFFICES ASSUME TypeOK, MutexInv, [Next]_vars
               PROVE  MutexInv'
    OBVIOUS
  <1> USE DEF epollVars, workerVars, ringVars, GoTo, MutexInv
  <1>1. ASSUME NEW f \in Flows, NEW type \in {"HEARTBEAT", "REQUEST"},
               Receive(f, type) \/ DivideByZero(f, type)
        PROVE  MutexInv'
    BY <1>1 DEF Receive, DivideByZero, Read
  <1>2. CASE Lock \/ CheckFull \/ WaitNotFull \/ ReacquireNotFull
    BY <1>2 DEF Lock, CheckFull, WaitNotFull, ReacquireNotFull, TypeOK
  <1>3. CASE Fill \/ Push \/ Unlock \/ SignalNotEmpty
    BY <1>3 DEF Fill, Push, Unlock, SignalNotEmpty, TypeOK
  <1>4. ASSUME NEW v \in Workers,
               CheckEmpty(v) \/ WaitNotEmpty(v) \/ ReacquireNotEmpty(v) \/ Copy(v)
        PROVE  MutexInv'
    BY <1>4 DEF CheckEmpty, WaitNotEmpty, ReacquireNotEmpty, Copy, TypeOK
  <1>5. ASSUME NEW v \in Workers,
               Pop(v) \/ UnlockRing(v) \/ SignalNotFull(v) \/ Process(v)
        PROVE  MutexInv'
    BY <1>5 DEF Pop, UnlockRing, SignalNotFull, Process, TypeOK
  <1>6. CASE \/ EndMinute \/ \E setting \in GroupSettings : Reload(setting)
             \/ UNCHANGED vars
    BY <1>6 DEF EndMinute, Reload, vars
  <1>7. QED
    BY <1>1, <1>2, <1>3, <1>4, <1>5, <1>6 DEF Next, EpollStep, WorkerStep

\* Stuck with a request unanswered: every mutex is free, so every thread is in
\* its wait or without a packet, and the ring of the request wants one of them.
LEMMA StandstillFromInv ==
  QueueInv /\ KeptInv /\ MutexInv => StandstillHasCause
  <1> SUFFICES ASSUME QueueInv, KeptInv, MutexInv, EpollStuck,
                      \A w \in Workers : WorkerStuck(w) /\ ~breached[w],
                      NEW f \in awaiting
               PROVE  EpollMissed \/ \E w \in Workers : WorkerMissed(w)
    BY DEF StandstillHasCause
  <1>type. TypeOK
    BY DEF QueueInv, RingInv
  <1>1. \A w \in Workers : ~mlock[w]
    BY <1>type DEF MutexInv, EpollStuck, WorkerStuck, TypeOK
  <1>2. epc \in {"idle", "asleep"} /\ \A w \in Workers : wpc[w] = "asleep"
    BY <1>1, <1>type DEF EpollStuck, WorkerStuck, TypeOK
  <1>3. f \in Flows
    BY <1>type DEF TypeOK
  <1>4. \/ Arriving = Request(f)
        \/ \E w \in Workers, i \in Nat : At(Queue, Hand, f, w, i)
    BY <1>3 DEF KeptInv, Intact, KeptNow, Kept
  <1>5. ASSUME NEW w \in Workers, NEW i \in Nat, At(Queue, Hand, f, w, i)
        PROVE  WorkerMissed(w)
    <2>1. Queue[w] = Pending(w) /\ Hand[w] = inHand[w] /\ Len(Pending(w)) \in Nat
      BY LinesAreSequences DEF Intact
    <2>2. Hand[w] = NoPacket
      BY <1>2, <2>1 DEF QueueInv, HeldInv, Holding
    <2>3. i # 0
      BY <1>5, <2>2, NoFlowAssumption DEF At, NoPacket, Request
    <2>4. Len(Pending(w)) > 0
      BY <1>5, <2>1, <2>3 DEF At
    <2>5. UsedOf(w) \in Nat \ {0}
      BY <1>2, <2>4, PendingLength
    <2>6. QED
      BY <1>2, <2>5 DEF WorkerMissed, Empty
  <1>6. CASE Arriving = Request(f)
    <2>1. epc = "asleep"
      BY <1>2, <1>6, NoFlowAssumption DEF Arriving, NoPacket, Request
    <2>2. target \in Workers /\ wpc[target] = "asleep"
      BY <1>2, <1>type DEF TypeOK
    <2>3. CASE ~Full(target)
      BY <2>1, <2>2, <2>3 DEF EpollMissed
    <2>4. CASE Full(target)
      <3>1. head[target] \in Slots /\ tail[target] \in Slots
        BY <2>2, <1>type DEF TypeOK
      <3>2. UsedOf(target) = RingSize - 1
        BY <2>4, <3>1, AvailFull DEF Full, AvailOf, UsedOf
      <3>3. QED
        BY <2>1, <2>2, <3>2, RingSizeAssumption DEF WorkerMissed, Empty
    <2>5. QED
      BY <2>3, <2>4
  <1>7. QED
    BY <1>4, <1>5, <1>6

\* The only deadlock of the pipeline is a missed signal, for every number of
\* workers and every ring size.
THEOREM OnlyMissedSignalsStop == Spec => []StandstillHasCause
  <1>1. Init => MutexInv
    BY DEF Init, MutexInv
  <1>2. QED
    BY <1>1, TypeCorrect, MutexStep, KeptInvariant, StandstillFromInv, PTL DEF Spec

-----------------------------------------------------------------------------
(* No livelock                                                             *)

\* How far each thread is from having done with what it was given.  A worker
\* that looked, or was woken, is going to pop whatever its ring holds; after
\* an underrun the ring looks full and it goes through all of it.
EpollLeft ==
  CASE epc = "lock"   -> 9 [] epc = "check"  -> 8 [] epc = "wait"   -> 7
    [] epc = "asleep" -> 6 [] epc = "woken"  -> 5 [] epc = "fill"   -> 4
    [] epc = "push"   -> 3 [] epc = "unlock" -> 2 [] epc = "signal" -> 1
    [] OTHER          -> 0
StillToPop(w) ==
  IF wpc[w] \in {"woken", "copy", "pop"}
    THEN Used(head[w], Advance(tail[w])) + 1 ELSE UsedOf(w)
PlacesLeft(pc) ==
  CASE pc = "unlock" -> 9 [] pc = "signal" -> 8 [] pc = "process" -> 7
    [] pc = "check"  -> 6 [] pc = "woken"  -> 5 [] pc = "copy"    -> 4
    [] pc = "pop"    -> 3 [] pc = "wait"   -> 2 [] OTHER          -> 1
WorkerLeft(w) == 10 * StillToPop(w) + PlacesLeft(wpc[w])

\* Less is left: to the epoll thread, whatever it gives the workers to do; or
\* to one worker, and the others have what they had.
LessLeft ==
  \/ EpollLeft' < EpollLeft
  \/ /\ EpollLeft' = EpollLeft
     /\ \E w \in Workers :
          /\ WorkerLeft(w)' < WorkerLeft(w)
          /\ \A v \in Workers \ {w} : WorkerLeft(v)' = WorkerLeft(v)

\* Every step of the epoll thread and of the workers, but for the arrival of a
\* packet, leaves less to do, in the rings that are breached as well: the
\* threads never signal, wake and unlock one another in a circle.
ThreadsGetDone ==
  [][\/ \E f \in Flows, type \in {"HEARTBEAT", "REQUEST"} :
          Receive(f, type) \/ DivideByZero(f, type)
     \/ \E setting \in GroupSettings : Reload(setting)
     \/ EndMinute
     \/ LessLeft]_vars

\* What is left is natural numbers.
LEMMA LeftType ==
  TypeOK => /\ EpollLeft \in 0 .. 9
            /\ \A w \in Workers : WorkerLeft(w) \in Nat
  <1> SUFFICES ASSUME TypeOK, NEW w \in Workers
               PROVE  EpollLeft \in 0 .. 9 /\ WorkerLeft(w) \in Nat
    BY DEF TypeOK, EpollLeft
  <1>1. head[w] \in Slots /\ tail[w] \in Slots
    BY DEF TypeOK
  <1>2. Advance(tail[w]) \in Slots
    BY <1>1, AdvanceWraps
  <1>3. UsedOf(w) \in Nat /\ Used(head[w], Advance(tail[w])) \in Nat
    BY <1>1, <1>2, UsedDistance DEF UsedOf, Slots
  <1>4. StillToPop(w) \in Nat
    BY <1>3 DEF StillToPop
  <1>5. PlacesLeft(wpc[w]) \in Nat
    BY DEF PlacesLeft
  <1>6. EpollLeft \in 0 .. 9
    BY DEF EpollLeft
  <1>7. QED
    BY <1>4, <1>5, <1>6 DEF WorkerLeft

\* A step of one worker that stays in its loop and leaves it less.
LEMMA WorkerDoes ==
  ASSUME NEW w \in Workers, TypeOK,
         NEW pc, GoTo(w, pc), epc' = epc, head' = head,
         \A v \in Workers \ {w} : tail'[v] = tail[v],
         WorkerLeft(w)' < WorkerLeft(w)
  PROVE  LessLeft
  <1>1. EpollLeft' = EpollLeft
    BY DEF EpollLeft
  <1>2. ASSUME NEW v \in Workers \ {w}
        PROVE  WorkerLeft(v)' = WorkerLeft(v)
    <2>1. wpc'[v] = wpc[v] /\ tail'[v] = tail[v] /\ head'[v] = head[v]
      BY DEF GoTo, TypeOK
    <2>2. QED
      BY <2>1 DEF WorkerLeft, StillToPop, UsedOf
  <1>3. QED
    BY <1>1, <1>2 DEF LessLeft

LEMMA LeftStep ==
  ASSUME TypeOK, EpollStep \/ \E w \in Workers : WorkerStep(w)
  PROVE  LessLeft
  <1> USE DEF epollVars, workerVars, ringVars
  <1>1. CASE EpollStep
    <2>1. EpollLeft' < EpollLeft
      BY <1>1 DEF EpollStep, Lock, CheckFull, WaitNotFull, ReacquireNotFull, Fill,
         Push, Unlock, SignalNotEmpty, EpollLeft
    <2>2. QED
      BY <2>1 DEF LessLeft
  <1>2. ASSUME NEW w \in Workers, WorkerStep(w)
        PROVE  LessLeft
    <2>type. /\ wpc[w] \in WorkerPlaces /\ wpc \in [Workers -> WorkerPlaces]
             /\ head[w] \in Slots /\ tail[w] \in Slots
             /\ Advance(tail[w]) \in Slots
             /\ tail \in [Workers -> Slots]
      BY AdvanceWraps DEF TypeOK
    <2>used. /\ UsedOf(w) \in Nat
             /\ Used(head[w], Advance(tail[w])) \in Nat
             /\ Used(head[w], Advance(tail[w]))
                  = IF UsedOf(w) = 0 THEN RingSize - 1 ELSE UsedOf(w) - 1
      <3>1. /\ UsedOf(w) \in Slots
            /\ Used(head[w], Advance(tail[w])) \in Slots
        BY <2>type, UsedDistance DEF UsedOf
      <3>2. Used(head[w], Advance(tail[w]))
              = IF UsedOf(w) = 0 THEN RingSize - 1 ELSE UsedOf(w) - 1
        BY <2>type, UsedAfterPop DEF UsedOf
      <3>3. QED
        BY <3>1, <3>2 DEF Slots
    <2>same. head' = head /\ tail'[w] = tail[w] =>
               /\ UsedOf(w)' = UsedOf(w)
               /\ Used(head'[w], Advance(tail'[w]))
                    = Used(head[w], Advance(tail[w]))
      BY DEF UsedOf
    <2>1. CASE CheckEmpty(w)
      <3>1. CASE Empty(w)
        <4>1. wpc'[w] = "wait" /\ UsedOf(w)' = UsedOf(w)
          BY <2>1, <2>type, <2>same, <3>1 DEF CheckEmpty, GoTo
        <4>2. WorkerLeft(w)' < WorkerLeft(w)
          BY <2>1, <2>used, <4>1
             DEF CheckEmpty, WorkerLeft, StillToPop, PlacesLeft
        <4>3. QED
          BY <2>1, <3>1, <4>2, WorkerDoes DEF CheckEmpty
      <3>2. CASE ~Empty(w)
        <4>1. wpc'[w] = "copy" /\ UsedOf(w) # 0
          BY <2>1, <2>type, <2>used, <3>2 DEF CheckEmpty, GoTo, Empty
        <4>2. WorkerLeft(w)' < WorkerLeft(w)
          BY <2>1, <2>used, <2>same, <4>1
             DEF CheckEmpty, WorkerLeft, StillToPop, PlacesLeft
        <4>3. QED
          BY <2>1, <3>2, <4>2, WorkerDoes DEF CheckEmpty
      <3>3. QED
        BY <3>1, <3>2
    <2>2. CASE WaitNotEmpty(w) \/ UnlockRing(w) \/ Process(w)
      <3>1. /\ UsedOf(w)' = UsedOf(w) /\ head' = head /\ tail' = tail
            /\ epc' = epc
        BY <2>2, <2>same DEF WaitNotEmpty, UnlockRing, Process
      <3>2. PICK pc : GoTo(w, pc) /\ pc \in {"asleep", "signal", "check"}
                      /\ PlacesLeft(pc) < PlacesLeft(wpc[w])
                      /\ wpc[w] \notin {"woken", "copy", "pop"}
        BY <2>2 DEF WaitNotEmpty, UnlockRing, Process, PlacesLeft
      <3>3. wpc'[w] = pc
        BY <2>type, <3>2 DEF GoTo
      <3>4. PlacesLeft(pc) \in Nat /\ PlacesLeft(wpc[w]) \in Nat
        BY DEF PlacesLeft
      <3>5. WorkerLeft(w)' < WorkerLeft(w)
        BY <2>used, <3>1, <3>2, <3>3, <3>4 DEF WorkerLeft, StillToPop
      <3>6. QED
        BY <3>1, <3>2, <3>5, WorkerDoes
    <2>3. CASE ReacquireNotEmpty(w) \/ Copy(w)
      <3>1. head' = head /\ tail' = tail /\ epc' = epc
        BY <2>3 DEF ReacquireNotEmpty, Copy
      <3>2. PICK pc : GoTo(w, pc) /\ pc \in {"copy", "pop"}
                      /\ PlacesLeft(pc) < PlacesLeft(wpc[w])
                      /\ wpc[w] \in {"woken", "copy", "pop"}
        BY <2>3 DEF ReacquireNotEmpty, Copy, PlacesLeft
      <3>3. wpc'[w] = pc
        BY <2>type, <3>2 DEF GoTo
      <3>4. PlacesLeft(pc) \in Nat /\ PlacesLeft(wpc[w]) \in Nat
        BY DEF PlacesLeft
      <3>5. WorkerLeft(w)' < WorkerLeft(w)
        BY <2>used, <2>same, <3>1, <3>2, <3>3, <3>4 DEF WorkerLeft, StillToPop
      <3>6. QED
        BY <3>1, <3>2, <3>5, WorkerDoes
    <2>4. CASE Pop(w)
      <3>1. /\ wpc[w] = "pop" /\ wpc'[w] = "unlock"
            /\ head' = head /\ tail'[w] = Advance(tail[w])
            /\ \A v \in Workers \ {w} : tail'[v] = tail[v]
        BY <2>4, <2>type DEF Pop, GoTo
      <3>2. UsedOf(w)' = Used(head[w], Advance(tail[w]))
        BY <3>1 DEF UsedOf
      <3>3. WorkerLeft(w)' < WorkerLeft(w)
        BY <2>used, <3>1, <3>2 DEF WorkerLeft, StillToPop, PlacesLeft
      <3>4. QED
        BY <2>4, <3>1, <3>3, WorkerDoes DEF Pop
    <2>5. CASE SignalNotFull(w)
      <3>1. CASE epc = "asleep" /\ target = w
        BY <2>5, <3>1 DEF SignalNotFull, EpollLeft, LessLeft
      <3>2. CASE ~(epc = "asleep" /\ target = w)
        <4>1. epc' = epc /\ head' = head /\ tail' = tail /\ GoTo(w, "process")
          BY <2>5, <3>2 DEF SignalNotFull
        <4>2. /\ wpc[w] = "signal" /\ wpc'[w] = "process"
              /\ UsedOf(w)' = UsedOf(w)
          BY <2>5, <2>type, <2>same, <4>1 DEF SignalNotFull, GoTo
        <4>3. WorkerLeft(w)' < WorkerLeft(w)
          BY <2>used, <4>2 DEF WorkerLeft, StillToPop, PlacesLeft
        <4>4. QED
          BY <4>1, <4>3, WorkerDoes
      <3>3. QED
        BY <3>1, <3>2
    <2>6. QED
      BY <1>2, <2>1, <2>2, <2>3, <2>4, <2>5 DEF WorkerStep
  <1>3. QED
    BY <1>1, <1>2

\* Between two arrivals the server's threads take finitely many steps, for
\* every number of workers and ring size.  With OnlyMissedSignalsStop: what they
\* come to is that every request is answered, or that a signal was missed.
THEOREM NoLivelock ==
  Spec => /\ ThreadsGetDone
          /\ [](EpollLeft \in 0 .. 9 /\ \A w \in Workers : WorkerLeft(w) \in Nat)
  <1>1. TypeOK /\ [Next]_vars
          => [\/ \E f \in Flows, type \in {"HEARTBEAT", "REQUEST"} :
                   Receive(f, type) \/ DivideByZero(f, type)
              \/ \E setting \in GroupSettings : Reload(setting)
              \/ EndMinute
              \/ LessLeft]_vars
    BY LeftStep DEF Next
  <1>2. QED
    BY <1>1, LeftType, TypeCorrect, PTL DEF Spec, ThreadsGetDone
=============================================================================

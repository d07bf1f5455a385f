------------------------- MODULE ClientControlProofs -------------------------
(***************************************************************************)
(* The client's changes of the number of flows, for every connsMap, every  *)
(* bound on the flows asked for and any number of changes of the file.     *)
(***************************************************************************)
EXTENDS ClientControl, FiniteSetTheorems, TLAPS

-----------------------------------------------------------------------------
(* Sets of flows                                                           *)

\* A set of flows is finite.
LEMMA FlowsFinite ==
  ASSUME NEW S \in SUBSET Flows
  PROVE  IsFiniteSet(S) /\ Cardinality(S) \in Nat
  <1>1. IsFiniteSet(Flows)
    BY FS_Interval, PlacesAssumption DEF Flows
  <1>2. IsFiniteSet(S)
    BY <1>1, FS_Subset
  <1>3. QED
    BY <1>2, FS_CardinalityType

\* A flow that joins or leaves a set of flows changes its size by one.
LEMMA OneFlow ==
  ASSUME NEW S \in SUBSET Flows, NEW f \in Flows
  PROVE  /\ f \notin S => Cardinality(S \cup {f}) = Cardinality(S) + 1
         /\ f \in S => Cardinality(S \ {f}) = Cardinality(S) - 1
  BY FlowsFinite, FS_AddElement, FS_RemoveElement

\* Of one flow, one or none is open.
LEMMA OneOpen ==
  ASSUME NEW f, NEW C
  PROVE  Cardinality({f} \ C) = IF f \in C THEN 0 ELSE 1
  <1>1. CASE f \in C
    BY <1>1, {f} \ C = {}, FS_EmptySet
  <1>2. CASE f \notin C
    BY <1>2, {f} \ C = {f}, FS_Singleton
  <1>3. QED
    BY <1>1, <1>2

-----------------------------------------------------------------------------
(* Typing                                                                  *)

\* A flow about to be registered is there and not registered yet; a descriptor
\* that is free counts as closed; what the threads hold at each of their steps.
ThreadInv ==
  /\ armed # None => armed \in there \ known
  /\ Flows \ there \subseteq closed
  /\ apc = "exited" <=> lpc = "exited"
  /\ apc = "sleep" => todo = 0
  /\ apc \in {"restore", "create"} => todo =< conns
  /\ lpc = "wait" => taken = 0 /\ left = 0
  /\ lpc = "close" => left >= 0
  /\ lpc = "subtract" => left = 0

TypeInv == TypeOK /\ ThreadInv

LEMMA ControlTypeInit == Init => TypeInv
  <1> SUFFICES ASSUME Init PROVE TypeInv
    OBVIOUS
  <1>1. conns \in 0 .. MaxConns
    BY BoundsAssumption DEF Init
  <1>2. file \in [connections : 0 .. MaxConns, kill : BOOLEAN]
    BY <1>1 DEF Init
  <1>3. edits \in 0 .. Edits /\ todo \in 0 .. MaxConns
    BY BoundsAssumption DEF Init
  <1>4. there \in SUBSET Flows /\ closed \in SUBSET Flows /\ known = {}
    BY DEF Init
  <1>5. /\ dead \in Nat /\ toClose \in Int /\ aval \in Int /\ taken \in Int
        /\ left \in Int /\ lval \in Int /\ lost \in Nat
    BY DEF Init
  <1>6. /\ armed \in Flows \cup {None} /\ disturbed \in BOOLEAN
        /\ apc = "sleep" /\ lpc = "wait"
    BY DEF Init
  <1>7. TypeOK
    BY <1>1, <1>2, <1>3, <1>4, <1>5, <1>6, Zenon DEF TypeOK
  <1>8. ThreadInv
    BY DEF ThreadInv, Init, None
  <1>9. QED
    BY <1>7, <1>8 DEF TypeInv

LEMMA ControlTypeStep == TypeInv /\ [Next]_vars => TypeInv'
  <1> SUFFICES ASSUME TypeInv, [Next]_vars
               PROVE  TypeInv'
    OBVIOUS
  <1> USE BoundsAssumption
      DEF TypeInv, TypeOK, ThreadInv, None, Racing, flowVars, adminVars,
          loopVars, histVars
  <1>1. ASSUME NEW n \in 0 .. MaxConns, NEW k \in BOOLEAN, Edit(n, k)
        PROVE  TypeInv'
    BY <1>1 DEF Edit
  <1>2. CASE Poll
    <2>1. conns' \in 0 .. MaxConns
      BY <1>2 DEF Poll
    <2>2. apc' \in {"sleep", "restore", "load"} /\ todo' \in 0 .. MaxConns
      BY <1>2, <2>1 DEF Poll
    <2>3. /\ apc' = "sleep" => todo' = 0
          /\ apc' = "restore" => todo' =< conns'
          /\ aval' \in Int
      BY <1>2, <2>1 DEF Poll
    <2>4. QED
      BY <1>2, <2>1, <2>2, <2>3 DEF Poll
  <1>3. CASE Kill
    BY <1>3 DEF Kill
  <1>4. CASE RestoreOne
    BY <1>4 DEF RestoreOne
  <1>5. CASE RestoreGivesUp
    BY <1>5 DEF RestoreGivesUp
  <1>6. ASSUME NEW f \in Flows, CreateOne(f)
        PROVE  TypeInv'
    BY <1>6 DEF CreateOne
  <1>7. CASE CreateFails
    BY <1>7 DEF CreateFails
  <1>exits. CASE CreateExits
    BY <1>exits DEF CreateExits
  <1>8. CASE Added
    BY <1>8 DEF Added
  <1>9. CASE AddLoad
    BY <1>9 DEF AddLoad
  <1>10. CASE AddStore
    BY <1>10 DEF AddStore
  <1>11. CASE WakeToClose
    BY <1>11 DEF WakeToClose
  <1>12. CASE CloseOne
    <2>1. lval \in there => lval \in Flows
      OBVIOUS
    <2>2. QED
      BY <1>12, <2>1 DEF CloseOne
  <1>13. CASE SubtractLoad
    BY <1>13 DEF SubtractLoad
  <1>14. CASE SubtractStore
    BY <1>14 DEF SubtractStore
  <1>15. ASSUME NEW f \in Flows, Delete(f)
         PROVE  TypeInv'
    <2>1. lost' \in Nat
      BY <1>15, OneOpen DEF Delete
    <2>2. QED
      BY <1>15, <2>1 DEF Delete
  <1>16. ASSUME NEW f \in Flows, Scan(f)
         PROVE  TypeInv'
    BY <1>16 DEF Scan, Live
  <1>17. CASE Arm
    BY <1>17 DEF Arm
  <1>18. CASE UNCHANGED vars
    BY <1>18 DEF vars
  <1>19. QED
    BY <1>1, <1>2, <1>3, <1>4, <1>5, <1>6, <1>7, <1>8, <1>9, <1>10, <1>11,
       <1>12, <1>13, <1>14, <1>15, <1>16, <1>17, <1>18,
       <1>exits
       DEF Next, AdminStep, CloseStep

\* Every variable keeps its type in every execution: the flow that updateEvents
\* registers is there still, whatever update_cfg and epollLoop did meanwhile,
\* and dead_connections never goes below zero, though both write it unlocked.
THEOREM ControlTyping == Spec => []TypeOK
  <1>1. TypeInv => TypeOK
    BY DEF TypeInv
  <1>2. QED
    BY <1>1, ControlTypeInit, ControlTypeStep, PTL DEF Spec
-----------------------------------------------------------------------------
(* The account of flows                                                    *)

\* What the threads still have to do: flows to add, and flows to close, those
\* of an update_cfg that has not stored its request yet included.
ToAdd == IF apc \in {"restore", "create"} THEN todo ELSE 0
ToRemove ==
  (IF apc \in {"load", "store"} THEN todo ELSE 0) + toClose - taken + left

\* flows that should be open at this point of the work
Expected == conns + ToRemove - ToAdd

\* open flows that epollLoop has passed while it closes some
Behind == Live \cap 1 .. lval - 1

\* What is loaded is not stale.
LoadInv ==
  ~disturbed =>
    /\ apc = "store" => aval = toClose /\ lpc # "subtract"
    /\ lpc = "subtract" => lval = toClose

\* What lies behind a round of closing is covered by the flows that are to
\* stay: a round that runs out of flows has closed all it had to.
ScanInv ==
  ~disturbed /\ lpc = "close" => Cardinality(Behind) =< Expected - left

\* What is missing has been lost.
MissingInv ==
  ~disturbed /\ Running => Expected - Cardinality(Live) \in 0 .. lost

AccountInv == LoadInv /\ ScanInv /\ MissingInv

LEMMA Amounts ==
  ASSUME TypeInv
  PROVE  /\ Live \in SUBSET Flows /\ Cardinality(Live) \in Nat
         /\ Behind \in SUBSET Flows /\ Cardinality(Behind) \in Nat
         /\ conns \in Nat /\ todo \in Nat /\ lost \in Nat
         /\ toClose \in Int /\ taken \in Int /\ left \in Int
         /\ aval \in Int /\ lval \in Int
         /\ Expected \in Int
  <1>1. Live \in SUBSET Flows /\ Behind \in SUBSET Flows
    BY DEF TypeInv, TypeOK, Live, Behind
  <1>2. Cardinality(Live) \in Nat /\ Cardinality(Behind) \in Nat
    BY <1>1, FlowsFinite
  <1>3. /\ conns \in Nat /\ todo \in Nat /\ lost \in Nat
        /\ toClose \in Int /\ taken \in Int /\ left \in Int
        /\ aval \in Int /\ lval \in Int
    BY BoundsAssumption DEF TypeInv, TypeOK
  <1>4. Expected \in Int
    BY <1>3 DEF Expected, ToAdd, ToRemove
  <1>5. QED
    BY <1>1, <1>2, <1>3, <1>4

\* The account holds as long as no flow opens or closes, none is expected or
\* given up, and epollLoop stays where it is in a round.
LEMMA SameAccount ==
  ASSUME TypeInv, AccountInv, LoadInv', Running,
         Live' = Live, lost' = lost,
         ~disturbed' => ~disturbed /\ Expected' = Expected,
         lpc' = "close" => UNCHANGED <<lpc, left, lval>>
  PROVE  AccountInv'
  <1>1. ScanInv'
    BY DEF AccountInv, ScanInv, Behind
  <1>2. MissingInv'
    BY DEF AccountInv, MissingInv
  <1>3. QED
    BY <1>1, <1>2 DEF AccountInv

\* It holds when a flow opens that is expected from now on.
LEMMA OneOpens ==
  ASSUME TypeInv, AccountInv, LoadInv', Running,
         NEW f \in Flows \ Live, Live' = Live \cup {f},
         Expected' = Expected + 1,
         UNCHANGED <<lpc, left, lval, lost, disturbed>>
  PROVE  AccountInv'
  <1>1. Cardinality(Live') = Cardinality(Live) + 1
    BY Amounts, OneFlow
  <1>2. \/ Behind' = Behind
        \/ Behind' = Behind \cup {f} /\ f \notin Behind
    BY DEF Behind
  <1>3. /\ Cardinality(Behind') \in Nat
        /\ Cardinality(Behind') =< Cardinality(Behind) + 1
    BY <1>2, Amounts, OneFlow
  <1>4. ScanInv'
    BY <1>3, Amounts DEF AccountInv, ScanInv
  <1>5. MissingInv'
    BY <1>1, Amounts DEF AccountInv, MissingInv
  <1>6. QED
    BY <1>4, <1>5 DEF AccountInv

LEMMA AccountInit == Init => AccountInv
  <1> SUFFICES ASSUME Init PROVE AccountInv
    OBVIOUS
  <1>1. Live = there
    BY DEF Init, Live
  <1>2. Cardinality(Live) = conns /\ conns \in Nat /\ lost = 0
    BY <1>1, BoundsAssumption DEF Init
  <1>3. Expected = conns
    BY <1>2 DEF Init, Expected, ToAdd, ToRemove
  <1>4. Expected - Cardinality(Live) \in 0 .. lost
    BY <1>2, <1>3
  <1>5. QED
    BY <1>4 DEF Init, AccountInv, LoadInv, ScanInv, MissingInv

\* The admin thread: adding or removing is expected once the file is read, and
\* each flow opened, created or given up is a part of it.
LEMMA AccountAdmin ==
  TypeInv /\ TypeInv' /\ AccountInv /\ AdminStep => AccountInv'
  <1> SUFFICES ASSUME TypeInv, TypeInv', AccountInv, AdminStep
               PROVE  AccountInv'
    OBVIOUS
  <1> USE DEF flowVars, adminVars, loopVars, histVars
  <1>0. conns' \in Nat
    BY BoundsAssumption DEF TypeInv, TypeOK
  <1>1. CASE Poll
    <2>1. todo = 0 /\ Running
      BY <1>1 DEF Poll, TypeInv, ThreadInv, Running
    <2>2. Expected' = Expected
      BY <1>0, <1>1, <2>1, Amounts DEF Poll, Expected, ToAdd, ToRemove
    <2>3. LoadInv' /\ Live' = Live
      BY <1>1 DEF Poll, AccountInv, LoadInv, Live
    <2>4. QED
      BY <1>1, <2>1, <2>2, <2>3, SameAccount DEF Poll
  <1>2. CASE Kill
    BY <1>2 DEF Kill, AccountInv, LoadInv, ScanInv, MissingInv, Running
  <1>3. CASE RestoreOne
    <2>1. Running /\ LoadInv'
      BY <1>3 DEF RestoreOne, Running, AccountInv, LoadInv
    <2>2. CASE aval \in there /\ aval \in closed
      <3>1. aval \in Flows \ Live /\ Live' = Live \cup {aval}
        BY <1>3, <2>2 DEF RestoreOne, Live, TypeInv, TypeOK
      <3>2. Expected' = Expected + 1
        BY <1>3, <2>2, Amounts DEF RestoreOne, Expected, ToAdd, ToRemove
      <3>3. QED
        BY <1>3, <2>1, <3>1, <3>2, OneOpens DEF RestoreOne
    <2>3. CASE ~(aval \in there /\ aval \in closed)
      <3>1. Expected' = Expected /\ Live' = Live
        BY <1>3, <2>3 DEF RestoreOne, Expected, ToAdd, ToRemove, Live
      <3>2. QED
        BY <1>3, <2>1, <3>1, SameAccount DEF RestoreOne
    <2>4. QED
      BY <2>2, <2>3
  <1>4. CASE RestoreGivesUp
    <2>1. /\ Expected' = Expected /\ Live' = Live /\ Running
          /\ LoadInv'
      BY <1>4 DEF RestoreGivesUp, Expected, ToAdd, ToRemove, Live, Running,
                  AccountInv, LoadInv
    <2>2. QED
      BY <1>4, <2>1, SameAccount DEF RestoreGivesUp
  <1>5. ASSUME NEW f \in Flows, CreateOne(f)
        PROVE  AccountInv'
    <2>1. Running /\ LoadInv'
      BY <1>5 DEF CreateOne, Running, AccountInv, LoadInv
    <2>2. f \in Flows \ Live /\ Live' = Live \cup {f}
      BY <1>5 DEF CreateOne, Live
    <2>3. Expected' = Expected + 1
      BY <1>5, Amounts DEF CreateOne, Expected, ToAdd, ToRemove
    <2>4. QED
      BY <1>5, <2>1, <2>2, <2>3, OneOpens DEF CreateOne
  <1>6. CASE CreateFails
    <2>1. Live' = Live /\ Behind' = Behind /\ Running /\ LoadInv'
      BY <1>6 DEF CreateFails, Live, Behind, Running, AccountInv, LoadInv
    <2>2. Expected' = Expected + 1 /\ lost' = lost + 1
      BY <1>6, Amounts DEF CreateFails, Expected, ToAdd, ToRemove
    <2>3. ScanInv'
      BY <1>6, <2>1, <2>2, Amounts DEF CreateFails, AccountInv, ScanInv
    <2>4. MissingInv'
      BY <1>6, <2>1, <2>2, Amounts DEF CreateFails, AccountInv, MissingInv
    <2>5. QED
      BY <2>1, <2>3, <2>4 DEF AccountInv
  <1>exits. CASE CreateExits
    BY <1>exits DEF CreateExits, AccountInv, LoadInv, ScanInv, MissingInv, Running
  <1>7. CASE Added
    <2>1. Expected' = Expected /\ Live' = Live /\ Running /\ LoadInv'
      BY <1>7 DEF Added, Expected, ToAdd, ToRemove, Live, Running,
                  AccountInv, LoadInv
    <2>2. QED
      BY <1>7, <2>1, SameAccount DEF Added
  <1>8. CASE AddLoad
    <2>1. ~disturbed' => ~disturbed /\ lpc # "subtract"
      BY <1>8 DEF AddLoad
    <2>2. Expected' = Expected /\ Live' = Live /\ Running
      BY <1>8 DEF AddLoad, Expected, ToAdd, ToRemove, Live, Running
    <2>3. LoadInv'
      BY <1>8, <2>1 DEF AddLoad, AccountInv, LoadInv
    <2>4. QED
      BY <1>8, <2>1, <2>2, <2>3, SameAccount DEF AddLoad
  <1>9. CASE AddStore
    <2>1. LoadInv' /\ Live' = Live /\ Running
      BY <1>9 DEF AddStore, AccountInv, LoadInv, Live, Running
    <2>2. ~disturbed => Expected' = Expected
      BY <1>9, Amounts
         DEF AddStore, Expected, ToAdd, ToRemove, AccountInv, LoadInv
    <2>3. QED
      BY <1>9, <2>1, <2>2, SameAccount DEF AddStore
  <1>10. QED
    BY <1>1, <1>exits, <1>2, <1>3, <1>4, <1>5, <1>6, <1>7, <1>8, <1>9 DEF AdminStep

\* epollLoop: a round closes what it took, or every flow there is.
LEMMA AccountClose == TypeInv /\ AccountInv /\ CloseStep => AccountInv'
  <1> SUFFICES ASSUME TypeInv, AccountInv, CloseStep
               PROVE  AccountInv'
    OBVIOUS
  <1> USE DEF flowVars, adminVars, loopVars, histVars
  <1>0. lpc # "exited" /\ Running
    BY DEF CloseStep, WakeToClose, CloseOne, SubtractLoad, SubtractStore,
           TypeInv, ThreadInv, Running
  <1>1. CASE WakeToClose
    <2>1. Live' = Live /\ Behind' = {}
      BY <1>1 DEF WakeToClose, Live, Behind
    <2>2. Cardinality(Behind') = 0
      BY <2>1, FS_EmptySet
    <2>3. Expected' = Expected /\ Expected' >= left'
      BY <1>1, Amounts
         DEF WakeToClose, Expected, ToAdd, ToRemove, TypeInv, ThreadInv
    <2>4. LoadInv'
      BY <1>1 DEF WakeToClose, AccountInv, LoadInv
    <2>5. ScanInv'
      BY <1>1, <2>2, <2>3, Amounts DEF WakeToClose, ScanInv
    <2>6. MissingInv'
      BY <1>0, <1>1, <2>1, <2>3 DEF WakeToClose, AccountInv, MissingInv
    <2>7. QED
      BY <2>4, <2>5, <2>6 DEF AccountInv
  <1>2. CASE CloseOne
    <2>1. LoadInv'
      BY <1>2 DEF CloseOne, AccountInv, LoadInv
    <2>2. Behind' = Behind
      BY <1>2, Amounts DEF CloseOne, Behind, Live
    <2>3. CASE lval \in Live
      <3>1. Live' = Live \ {lval} /\ lval \in Flows
        BY <1>2, <2>3, Amounts DEF CloseOne, Live
      <3>2. Cardinality(Live') = Cardinality(Live) - 1
        BY <2>3, <3>1, Amounts, OneFlow
      <3>3. left' = left - 1 /\ Expected' = Expected - 1
        BY <1>2, <2>3, Amounts DEF CloseOne, Expected, ToAdd, ToRemove, Live
      <3>4. ScanInv'
        BY <1>2, <2>2, <3>3, Amounts DEF CloseOne, AccountInv, ScanInv
      <3>5. MissingInv'
        BY <1>0, <1>2, <3>2, <3>3, Amounts DEF CloseOne, AccountInv, MissingInv
      <3>6. QED
        BY <2>1, <3>4, <3>5 DEF AccountInv
    <2>4. CASE lval \notin Live
      <3>1. Live' = Live /\ left' = left /\ Expected' = Expected
        BY <1>2, <2>4 DEF CloseOne, Expected, ToAdd, ToRemove, Live
      <3>2. ScanInv'
        BY <1>2, <2>2, <3>1 DEF CloseOne, AccountInv, ScanInv
      <3>3. MissingInv'
        BY <1>0, <1>2, <3>1 DEF CloseOne, AccountInv, MissingInv
      <3>4. QED
        BY <2>1, <3>2, <3>3 DEF AccountInv
    <2>5. QED
      BY <2>3, <2>4
  <1>3. CASE SubtractLoad
    <2>1. Live' = Live /\ Expected' = Expected - left /\ left >= 0
      BY <1>3, Amounts
         DEF SubtractLoad, Live, Expected, ToAdd, ToRemove, TypeInv, ThreadInv
    <2>2. ~disturbed' => /\ ~disturbed /\ apc # "store"
                         /\ left > 0 => 0 \notin Live
      BY <1>3 DEF SubtractLoad
    <2>3. LoadInv' /\ ScanInv'
      BY <1>3, <2>2 DEF SubtractLoad, LoadInv, ScanInv
    <2>4. CASE left = 0
      BY <1>0, <1>3, <2>1, <2>2, <2>3, <2>4, Amounts
         DEF SubtractLoad, AccountInv, MissingInv
    <2>5. CASE left > 0 /\ ~disturbed'
      <3>1. lval >= Places /\ 0 \notin Live
        BY <1>3, <2>2, <2>5 DEF SubtractLoad
      <3>2. \A f \in Live : f \in 1 .. lval - 1
        BY <3>1, Amounts, PlacesAssumption DEF Flows
      <3>3. Behind = Live
        BY <3>2 DEF Behind
      <3>4. Cardinality(Live) =< Expected - left
        BY <1>3, <2>2, <2>5, <3>3 DEF SubtractLoad, AccountInv, ScanInv
      <3>5. QED
        BY <1>0, <1>3, <2>1, <2>2, <2>3, <2>5, <3>4, Amounts
           DEF SubtractLoad, AccountInv, MissingInv
    <2>6. CASE disturbed'
      BY <2>3, <2>6 DEF AccountInv, MissingInv
    <2>7. QED
      BY <2>1, <2>4, <2>5, <2>6, Amounts
  <1>4. CASE SubtractStore
    <2>1. Live' = Live /\ LoadInv'
      BY <1>4 DEF SubtractStore, Live, AccountInv, LoadInv
    <2>2. ~disturbed => Expected' = Expected
      BY <1>4, Amounts
         DEF SubtractStore, Expected, ToAdd, ToRemove, AccountInv, LoadInv
    <2>3. QED
      BY <1>0, <1>4, <2>1, <2>2, SameAccount DEF SubtractStore
  <1>5. QED
    BY <1>1, <1>2, <1>3, <1>4 DEF CloseStep

LEMMA AccountStep ==
  TypeInv /\ TypeInv' /\ AccountInv /\ [Next]_vars => AccountInv'
  <1> SUFFICES ASSUME TypeInv, TypeInv', AccountInv, [Next]_vars
               PROVE  AccountInv'
    OBVIOUS
  <1> USE DEF flowVars, adminVars, loopVars, histVars
  <1>1. ASSUME NEW n \in 0 .. MaxConns, NEW k \in BOOLEAN, Edit(n, k)
        PROVE  AccountInv'
    <2>1. Expected' = Expected /\ Live' = Live /\ Running /\ LoadInv'
      BY <1>1 DEF Edit, Expected, ToAdd, ToRemove, Live, AccountInv, LoadInv
    <2>2. QED
      BY <1>1, <2>1, SameAccount DEF Edit
  <1>2. ASSUME NEW f \in Flows, Delete(f)
        PROVE  AccountInv'
    <2>1. LoadInv' /\ ScanInv'
      BY <1>2 DEF Delete, AccountInv, LoadInv, ScanInv
    <2>2. Expected' = Expected /\ Running' = Running
      BY <1>2 DEF Delete, Expected, ToAdd, ToRemove, Running
    <2>3. CASE f \in closed
      <3>1. Live' = Live /\ lost' = lost
        BY <1>2, <2>3, OneOpen, Amounts DEF Delete, Live
      <3>2. QED
        BY <1>2, <2>1, <2>2, <3>1 DEF Delete, AccountInv, MissingInv
    <2>4. CASE f \notin closed
      <3>1. f \in Live /\ Live' = Live \ {f} /\ lost' = lost + 1
        BY <1>2, <2>4, OneOpen, Amounts DEF Delete, Live, TypeInv, TypeOK
      <3>2. Cardinality(Live') = Cardinality(Live) - 1
        BY <3>1, Amounts, OneFlow
      <3>3. QED
        BY <1>2, <2>1, <2>2, <3>1, <3>2, Amounts
           DEF Delete, AccountInv, MissingInv
    <2>5. QED
      BY <2>3, <2>4
  <1>3. ASSUME NEW f \in Flows, Scan(f)
        PROVE  AccountInv'
    <2>1. Expected' = Expected /\ Live' = Live /\ Running /\ LoadInv'
      BY <1>3 DEF Scan, Expected, ToAdd, ToRemove, Live, AccountInv, LoadInv
    <2>2. QED
      BY <1>3, <2>1, SameAccount DEF Scan
  <1>4. CASE Arm
    <2>1. CASE armed \in closed
      BY <1>4, <2>1 DEF Arm, AccountInv, LoadInv, ScanInv, MissingInv
    <2>2. CASE armed \notin closed /\ Running
      <3>1. Expected' = Expected /\ Live' = Live /\ LoadInv'
        BY <1>4, <2>2 DEF Arm, Expected, ToAdd, ToRemove, Live, AccountInv,
                          LoadInv
      <3>2. QED
        BY <1>4, <2>2, <3>1, SameAccount DEF Arm
    <2>3. CASE ~Running
      BY <1>4, <2>3
         DEF Arm, AccountInv, LoadInv, ScanInv, MissingInv, Running, TypeInv,
             ThreadInv
    <2>4. QED
      BY <2>1, <2>2, <2>3
  <1>5. CASE UNCHANGED vars
    BY <1>5 DEF vars, AccountInv, LoadInv, ScanInv, MissingInv, Running,
                Expected, ToAdd, ToRemove, Live, Behind
  <1>6. QED
    BY <1>1, <1>2, <1>3, <1>4, <1>5, AccountAdmin, AccountClose DEF Next

\* Through every sequence of increases and decreases, whatever the order in
\* which update_cfg and epollLoop get on with them, as many flows are open once
\* nothing is left to do as conf->connections says, less those that were lost.
THEOREM RightNumberKept == Spec => []RightNumber
  <1>1. TypeInv /\ AccountInv => RightNumber
    <2> SUFFICES ASSUME TypeInv, AccountInv, Settled, ~disturbed
                 PROVE  Cardinality(Live) \in conns - lost .. conns
      BY DEF RightNumber
    <2>1. Expected = conns /\ Running
      BY Amounts
         DEF Settled, Expected, ToAdd, ToRemove, Running, TypeInv, ThreadInv
    <2>2. QED
      BY <2>1, Amounts DEF AccountInv, MissingInv
  <1>2. QED
    BY <1>1, ControlTypeInit, ControlTypeStep, AccountInit, AccountStep, PTL
       DEF Spec

-----------------------------------------------------------------------------
(* The work comes to an end.  Settles needs fairness only to have the threads*)
(* go on; that they cannot go on for ever is a matter of counting.           *)

\* What there is to do, each kind of work before the kind it may make: a change
\* of the file that is not yet read; closings that are in close_conns, or may
\* come to be there, also by a value that is stale when it is stored; what is
\* left of a round of adding and of one of closing; flows to be registered, or
\* deleted by the server.
Unread == IF Running /\ (file.kill \/ conns # file.connections) THEN 1 ELSE 0
Owed ==
  (CASE apc = "load"  -> 2 * (toClose + todo) + 2
     [] apc = "store" -> 2 * (aval + todo) + 1
     [] OTHER         -> 0)
  + (CASE lpc = "wait"     -> 2 * toClose
       [] lpc = "close"    -> 2 * toClose - 1
       [] lpc = "subtract" -> 2 * lval - 1
       [] OTHER            -> 0)
RoundsLeft ==
  (CASE apc = "restore" -> todo + (Places - aval) + 2
     [] apc = "create"  -> todo + 1
     [] OTHER           -> 0)
  + (CASE lpc = "close"    -> (Places - lval) + 2
       [] lpc = "subtract" -> 1
       [] OTHER            -> 0)
Unregistered ==
  2 * Cardinality(there) + 2 * Cardinality(there \ known)
    - (IF armed = None THEN 0 ELSE 1)

Work == <<Unread, Owed, RoundsLeft, Unregistered>>

\* The lexicographic order of four numbers, in which nothing decreases for ever.
Less(v, w) ==
  \E i \in 1 .. 4 : v[i] < w[i] /\ \A j \in 1 .. i - 1 : v[j] = w[j]

\* The admin thread reads a file in which nothing has changed.
Idle == Poll /\ conns' = conns

\* Whatever the three threads do, and whichever updates of the counters they
\* lose, each step leaves less to do, but for the looks at an unchanged file:
\* between two changes of settings.cfg there are finitely many.
WorkShrinks ==
  [][\/ \E n \in 0 .. MaxConns, k \in BOOLEAN : Edit(n, k)
     \/ Idle
     \/ Less(Work', Work)]_vars

\* Nothing is left to do: what the file says has been taken over, every flow
\* that is open is registered, and epollLoop has nothing to close or nobody to
\* wake it.
Resting ==
  /\ apc = "sleep" /\ Unread = 0 /\ armed = None /\ Live \subseteq known
  /\ lpc = "wait" /\ (known = {} \/ toClose <= 0)

\* The counters, whichever of their updates are lost: close_conns is never
\* negative, a round never takes off more than it finds when it is done, and
\* what deleteConnections stores is no less than what was there.
CounterInv ==
  /\ toClose >= 0
  /\ apc = "restore" => aval \in 0 .. Places
  /\ apc = "store" /\ lpc # "subtract" => aval >= toClose
  /\ lpc = "close" =>
       /\ 0 < taken /\ taken =< toClose /\ lval =< Places
       /\ apc = "store" => taken =< aval
  /\ lpc = "subtract" =>
       /\ 0 < taken /\ taken =< lval /\ toClose >= lval - taken
       /\ apc = "store" => aval >= lval - taken

LEMMA CounterInit == Init => CounterInv
  BY DEF Init, CounterInv

LEMMA CounterStep == TypeInv /\ CounterInv /\ [Next]_vars => CounterInv'
  <1> SUFFICES ASSUME TypeInv, CounterInv, [Next]_vars
               PROVE  CounterInv'
    OBVIOUS
  <1>type. /\ todo \in Nat /\ toClose \in Int /\ aval \in Int
           /\ taken \in Int /\ left \in Int /\ lval \in Int
    BY Amounts
  <1> USE <1>type, PlacesAssumption
      DEF CounterInv, adminVars, loopVars, flowVars, histVars
  <1>1. CASE Poll
    BY <1>1 DEF Poll
  <1>2. CASE Kill \/ CreateExits
    BY <1>2 DEF Kill, CreateExits
  <1>adds. CASE RestoreOne \/ RestoreGivesUp \/ CreateFails \/ Added
    BY <1>adds DEF RestoreOne, RestoreGivesUp, CreateFails, Added
  <1>3. CASE AddLoad \/ AddStore
    BY <1>3 DEF AddLoad, AddStore
  <1>4. CASE WakeToClose \/ CloseOne
    BY <1>4 DEF WakeToClose, CloseOne
  <1>5. CASE SubtractLoad \/ SubtractStore
    BY <1>5 DEF SubtractLoad, SubtractStore
  <1>6. ASSUME NEW f \in Flows, CreateOne(f) \/ Delete(f) \/ Scan(f)
        PROVE  CounterInv'
    BY <1>6 DEF CreateOne, Delete, Scan
  <1>7. ASSUME NEW n \in 0 .. MaxConns, NEW k \in BOOLEAN, Edit(n, k)
        PROVE  CounterInv'
    BY <1>7 DEF Edit
  <1>8. CASE Arm \/ UNCHANGED vars
    BY <1>8 DEF Arm, vars
  <1>9. QED
    BY <1>1, <1>2, <1>adds, <1>3, <1>4, <1>5, <1>6, <1>7, <1>8
       DEF Next, AdminStep, CloseStep

LEMMA CounterInvariant == Spec => [](TypeInv /\ CounterInv)
  BY ControlTypeInit, ControlTypeStep, CounterInit, CounterStep, PTL DEF Spec

\* What there is to do is four numbers.
WorkTyped == Work \in Nat \X Nat \X Nat \X Nat

LEMMA WorkType == TypeInv /\ CounterInv => WorkTyped
  <1> SUFFICES ASSUME TypeInv, CounterInv PROVE WorkTyped
    OBVIOUS
  <1>type. /\ todo \in Nat /\ toClose \in Int /\ aval \in Int
           /\ taken \in Int /\ left \in Int /\ lval \in Int
    BY Amounts
  <1>1. Unread \in Nat
    BY DEF Unread
  <1>2. Owed \in Nat
    BY <1>type DEF Owed, CounterInv
  <1>3. RoundsLeft \in Nat
    BY <1>type, PlacesAssumption DEF RoundsLeft, CounterInv
  <1>4. Unregistered \in Nat
    <2>1. there \in SUBSET Flows /\ there \ known \in SUBSET Flows
      BY DEF TypeInv, TypeOK
    <2>2. Cardinality(there) \in Nat /\ Cardinality(there \ known) \in Nat
      BY <2>1, FlowsFinite
    <2>3. armed # None => Cardinality(there \ known) # 0
      <3>1. armed # None => armed \in there \ known
        BY DEF TypeInv, ThreadInv
      <3>2. IsFiniteSet(there \ known)
        BY <2>1, FlowsFinite
      <3>3. QED
        BY <3>1, <3>2, FS_EmptySet
    <2>4. QED
      BY <2>2, <2>3 DEF Unregistered
  <1>5. QED
    BY <1>1, <1>2, <1>3, <1>4 DEF WorkTyped, Work

\* The order, number by number.
LEMMA LessBy ==
  ASSUME WorkTyped, WorkTyped',
         \/ Unread' < Unread
         \/ Unread' = Unread /\ Owed' < Owed
         \/ Unread' = Unread /\ Owed' = Owed /\ RoundsLeft' < RoundsLeft
         \/ /\ Unread' = Unread /\ Owed' = Owed /\ RoundsLeft' = RoundsLeft
            /\ Unregistered' < Unregistered
  PROVE  Less(Work', Work)
  <1>1. /\ Work[1] = Unread /\ Work[2] = Owed
        /\ Work[3] = RoundsLeft /\ Work[4] = Unregistered
        /\ Work'[1] = Unread' /\ Work'[2] = Owed'
        /\ Work'[3] = RoundsLeft' /\ Work'[4] = Unregistered'
    BY DEF Work
  <1>2. CASE Unread' < Unread
    BY <1>1, <1>2, 1 \in 1 .. 4, 1 .. 0 = {} DEF Less
  <1>3. CASE Unread' = Unread /\ Owed' < Owed
    BY <1>1, <1>3, 2 \in 1 .. 4, 1 .. 1 = {1} DEF Less
  <1>4. CASE Unread' = Unread /\ Owed' = Owed /\ RoundsLeft' < RoundsLeft
    BY <1>1, <1>4, 3 \in 1 .. 4, 1 .. 2 = {1, 2} DEF Less
  <1>5. CASE /\ Unread' = Unread /\ Owed' = Owed /\ RoundsLeft' = RoundsLeft
             /\ Unregistered' < Unregistered
    BY <1>1, <1>5, 4 \in 1 .. 4, 1 .. 3 = {1, 2, 3} DEF Less
  <1>6. QED
    BY <1>2, <1>3, <1>4, <1>5

LEMMA WorkStep ==
  ASSUME TypeInv, CounterInv, WorkTyped, WorkTyped', Next
  PROVE  \/ \E n \in 0 .. MaxConns, k \in BOOLEAN : Edit(n, k)
         \/ Idle
         \/ Less(Work', Work)
  <1>type. /\ todo \in Nat /\ toClose \in Int /\ aval \in Int
           /\ taken \in Int /\ left \in Int /\ lval \in Int
    BY Amounts
  <1>apart. /\ apc \in {"sleep", "restore", "create", "load", "store", "exited"}
            /\ lpc \in {"wait", "close", "subtract", "exited"}
    BY DEF TypeInv, TypeOK
  <1> USE <1>type, PlacesAssumption
      DEF adminVars, loopVars, flowVars, histVars
  <1>1. CASE Poll
    <2>1. CASE conns' = conns
      BY <1>1, <2>1 DEF Idle
    <2>2. CASE conns' # conns
      <3>1. Unread = 1 /\ Unread' = 0
        BY <1>1, <2>2 DEF Poll, Unread, Running
      <3>2. QED
        BY <3>1, LessBy
    <2>3. QED
      BY <2>1, <2>2
  <1>2. CASE Kill
    <2>1. Unread = 1 /\ Unread' = 0
      BY <1>2 DEF Kill, Unread, Running
    <2>2. QED
      BY <2>1, LessBy
  <1>3. CASE RestoreOne \/ RestoreGivesUp \/ CreateFails \/ Added
    <2>1. Unread' = Unread /\ Owed' = Owed
      BY <1>3 DEF RestoreOne, RestoreGivesUp, CreateFails, Added, Unread, Owed,
                  Running
    <2>2. RoundsLeft' < RoundsLeft
      BY <1>3, <1>apart DEF RestoreOne, RestoreGivesUp, CreateFails, Added,
         RoundsLeft, CounterInv
    <2>3. QED
      BY <2>1, <2>2, LessBy
  <1>exits. CASE CreateExits
    <2>1. Unread' = 0 /\ Unread \in Nat
      BY <1>exits DEF CreateExits, Unread, Running
    <2>2. Owed' = 0 /\ Owed \in Nat
      BY <1>exits DEF CreateExits, Owed, WorkTyped, Work
    <2>3. RoundsLeft' = 0 /\ RoundsLeft > 0
      BY <1>exits, <1>apart DEF CreateExits, RoundsLeft, CounterInv
    <2>4. QED
      BY <2>1, <2>2, <2>3, LessBy
  <1>4. ASSUME NEW f \in Flows, CreateOne(f)
        PROVE  Less(Work', Work)
    <2>1. Unread' = Unread /\ Owed' = Owed /\ RoundsLeft' < RoundsLeft
      BY <1>4, <1>apart DEF CreateOne, Unread, Owed, RoundsLeft, Running
    <2>2. QED
      BY <2>1, LessBy
  <1>5. CASE AddLoad \/ AddStore
    <2>1. Unread' = Unread
      BY <1>5 DEF AddLoad, AddStore, Unread, Running
    <2>2. Owed' < Owed
      <3>1. CASE AddLoad
        BY <1>apart, <3>1 DEF AddLoad, Owed, CounterInv
      <3>2. CASE AddStore
        BY <1>apart, <3>2 DEF AddStore, Owed, CounterInv
      <3>3. QED
        BY <1>5, <3>1, <3>2
    <2>3. QED
      BY <2>1, <2>2, LessBy
  <1>6. CASE WakeToClose \/ SubtractStore
    <2>1. Unread' = Unread
      BY <1>6 DEF WakeToClose, SubtractStore, Unread, Running
    <2>2. Owed' < Owed
      BY <1>6, <1>apart DEF WakeToClose, SubtractStore, Owed, CounterInv
    <2>3. QED
      BY <2>1, <2>2, LessBy
  <1>7. CASE CloseOne \/ SubtractLoad
    <2>1. Unread' = Unread /\ Owed' = Owed
      BY <1>7, <1>apart DEF CloseOne, SubtractLoad, Unread, Owed, Running
    <2>2. RoundsLeft' < RoundsLeft
      BY <1>7, <1>apart DEF CloseOne, SubtractLoad, RoundsLeft, CounterInv
    <2>3. QED
      BY <2>1, <2>2, LessBy
  <1>8. ASSUME NEW f \in Flows, Delete(f) \/ Scan(f) \/ Arm
        PROVE  Less(Work', Work)
    <2>1. Unread' = Unread /\ Owed' = Owed /\ RoundsLeft' = RoundsLeft
      BY <1>8 DEF Delete, Scan, Arm, Unread, Owed, RoundsLeft, Running
    <2>2. /\ there \in SUBSET Flows /\ there \ known \in SUBSET Flows
          /\ known \subseteq there
          /\ armed # None => armed \in there \ known /\ armed \in Flows
      BY DEF TypeInv, TypeOK, ThreadInv
    <2>3. Cardinality(there) \in Nat /\ Cardinality(there \ known) \in Nat
      BY <2>2, FlowsFinite
    <2>4. CASE Delete(f)
      <3>1. Cardinality(there') = Cardinality(there) - 1
        BY <2>2, <2>4, OneFlow DEF Delete
      <3>2. there' \ known' = there \ known /\ armed' = armed
        BY <2>2, <2>4 DEF Delete
      <3>3. Cardinality(there' \ known') = Cardinality(there \ known)
        BY <3>2
      <3>4. Unregistered' < Unregistered
        BY <2>3, <3>1, <3>2, <3>3 DEF Unregistered
      <3>5. QED
        BY <2>1, <3>4, LessBy
    <2>5. CASE Scan(f)
      <3>1. armed = None /\ armed' # None /\ there' = there /\ known' = known
        BY <2>5 DEF Scan, None, Flows
      <3>2. /\ Cardinality(there') = Cardinality(there)
            /\ Cardinality(there' \ known') = Cardinality(there \ known)
        BY <3>1
      <3>3. Unregistered' < Unregistered
        BY <2>3, <3>1, <3>2 DEF Unregistered, None
      <3>4. QED
        BY <2>1, <3>3, LessBy
    <2>6. CASE Arm
      <3>1. there' \ known' = (there \ known) \ {armed} /\ there' = there
        BY <2>6 DEF Arm
      <3>2. Cardinality(there' \ known') = Cardinality(there \ known) - 1
        BY <2>2, <2>6, <3>1, OneFlow DEF Arm
      <3>3. Unregistered' < Unregistered
        BY <2>3, <2>6, <3>1, <3>2 DEF Arm, Unregistered
      <3>4. QED
        BY <2>1, <3>3, LessBy
    <2>7. QED
      BY <1>8, <2>4, <2>5, <2>6
  <1>9. 0 \in Flows
    BY PlacesAssumption DEF Flows
  <1>10. QED
    BY <1>1, <1>2, <1>3, <1>exits, <1>4, <1>5, <1>6, <1>7, <1>8, <1>9
       DEF Next, AdminStep, CloseStep

\* Between two changes of the file the threads take finitely many steps, but
\* for the looks at it: each leaves less to do, and that is always four natural
\* numbers, compared lexicographically.
THEOREM WorkEnds ==
  Spec => WorkShrinks /\ []WorkTyped
  <1>1. TypeInv /\ CounterInv /\ WorkTyped /\ WorkTyped' /\ [Next]_vars
          => [\/ \E n \in 0 .. MaxConns, k \in BOOLEAN : Edit(n, k)
              \/ Idle
              \/ Less(Work', Work)]_vars
    BY WorkStep
  <1>2. QED
    BY <1>1, WorkType, CounterInvariant, PTL DEF Spec, WorkShrinks

\* What they come to is right: with nothing left to do close_conns is worked
\* off, unless every flow has been lost, and then as many flows are open as
\* conf->connections says, less those lost, but for the disturbances of
\* RightNumber.
THEOREM RestIsRight ==
  Spec => [](Resting => \/ Live = {}
                        \/ /\ Settled
                           /\ disturbed
                                \/ Cardinality(Live) \in conns - lost .. conns)
  <1>1. TypeInv /\ CounterInv /\ Resting => Settled \/ Live = {}
    BY Amounts DEF Resting, Settled, CounterInv
  <1>2. RightNumber /\ Settled
          => disturbed \/ Cardinality(Live) \in conns - lost .. conns
    BY DEF RightNumber
  <1>3. QED
    BY <1>1, <1>2, CounterInvariant, RightNumberKept, PTL
=============================================================================

----------------------- MODULE PacingAndStatisticsProofs -----------------------
(***************************************************************************)
(* The client's clocks and counters.  When a flow sends, for every length  *)
(* of a second, width of int, epoch, burst and number of flows; and what   *)
(* the threads that measure it count, for every number of receivers and of *)
(* packets, on the client and the server.                                  *)
(***************************************************************************)
EXTENDS Pacing, Statistics, TLAPS

-----------------------------------------------------------------------------
(* Division                                                                *)

LEMMA Division ==
  ASSUME NEW x \in Int, NEW m \in Nat \ {0}
  PROVE  /\ x \div m \in Int /\ x % m \in 0 .. m - 1
         /\ x % m = x - m * (x \div m)
  <1>1. x % m = x - m * (x \div m)
    OBVIOUS
  <1>2. x \div m \in Int
    OBVIOUS
  <1>3. x % m \in 0 .. m - 1
    OBVIOUS
  <1>4. QED
    BY <1>1, <1>2, <1>3

\* Quotient and remainder are the only ones there are.
LEMMA DivisionUnique ==
  ASSUME NEW x \in Int, NEW m \in Nat \ {0}, NEW q \in Int,
         NEW r \in 0 .. m - 1, x = m * q + r
  PROVE  x \div m = q /\ x % m = r
  OBVIOUS

\* Counting on modulo m
LEMMA NextModulo ==
  ASSUME NEW x \in Int, NEW m \in Nat \ {0}
  PROVE  ((x % m) + 1) % m = (x + 1) % m
  <1> DEFINE q == x \div m
             r == x % m
  <1>1. q \in Int /\ r \in 0 .. m - 1 /\ r = x - m * q
    BY Division
  <1>2. \A y, p \in Int, s \in 0 .. m - 1 : y = m * p + s => y % m = s
    BY DivisionUnique
  <1> HIDE DEF q, r
  <1>3. CASE r + 1 < m
    <2>1. (r + 1) % m = r + 1
      BY <1>1, <1>3
    <2>2. x + 1 = m * q + (r + 1) /\ r + 1 \in 0 .. m - 1 /\ x + 1 \in Int
      BY <1>1, <1>3
    <2>3. (x + 1) % m = r + 1
      BY <1>1, <1>2, <2>2
    <2>4. QED
      BY <2>1, <2>3 DEF r
  <1>4. CASE r + 1 = m
    <2>1. (r + 1) % m = 0
      BY <1>1, <1>4
    <2>2. m * (q + 1) = m * q + m
      BY <1>1
    <2>3. x + 1 = m * q + m
      BY <1>1, <1>4
    <2>4. q + 1 \in Int /\ x + 1 \in Int /\ 0 \in 0 .. m - 1
      BY <1>1
    <2>5. x + 1 = m * (q + 1) + 0
      BY <2>2, <2>3, <2>4
    <2>6. (x + 1) % m = 0
      BY <1>2, <2>4, <2>5
    <2>7. QED
      BY <2>1, <2>6 DEF r
  <1>5. QED
    BY <1>1, <1>3, <1>4

\* What is cut off a number is less than a unit of it.
LEMMA CutDown ==
  ASSUME NEW x \in Nat, NEW i \in Int \ {0}
  PROVE  Cut(x, i) \in 0 .. x
  <1>1. Abs(i) \in Nat \ {0} /\ Abs(x) = x
    BY DEF Abs
  <1>2. \A m \in Nat \ {0} : (x \div m) * m \in 0 .. x
    OBVIOUS
  <1>3. QED
    BY <1>1, <1>2 DEF Cut

LEMMA CutInt ==
  ASSUME NEW x \in Int, NEW i \in Int \ {0}
  PROVE  Cut(x, i) \in Int
  <1>1. Abs(i) \in Nat \ {0} /\ Abs(x) \in Nat
    BY DEF Abs
  <1>2. \A y \in Nat, m \in Nat \ {0} : (y \div m) * m \in 0 .. y
    OBVIOUS
  <1>3. QED
    BY <1>1, <1>2 DEF Cut

\* A number of whole units that has been reached is not cut off.
LEMMA CutReached ==
  ASSUME NEW x \in Nat, NEW m \in Nat \ {0}, NEW q \in Nat, x >= q * m
  PROVE  Cut(x, m) >= q * m
  <1> DEFINE d == x \div m
  <1>1. d \in Int /\ x - m * d \in 0 .. m - 1
    BY Division
  <1>2. Cut(x, m) = d * m
    BY DEF Cut, Abs
  <1> HIDE DEF d
  <1>3. CASE d < q
    <2>1. d + 1 =< q
      BY <1>1, <1>3
    <2>2. m * (d + 1) =< m * q
      BY <1>1, <2>1
    <2>3. QED
      BY <1>1, <2>2
  <1>4. CASE d >= q
    <2>1. d * m >= q * m
      BY <1>1, <1>4
    <2>2. QED
      BY <1>2, <2>1
  <1>5. QED
    BY <1>1, <1>3, <1>4

\* A product with a positive factor orders as the other factor does.
LEMMA FactorsOrdered ==
  ASSUME NEW a \in Int, NEW b \in Int, NEW m \in Nat \ {0}, m * a < m * b
  PROVE  a < b
  <1>1. SUFFICES ASSUME a >= b
                 PROVE  FALSE
    OBVIOUS
  <1>2. m * a >= m * b
    BY <1>1
  <1>3. m * a \in Int /\ m * b \in Int
    OBVIOUS
  <1>4. QED
    BY <1>2, <1>3

\* e whole units less d parts of a unit, cut to units towards zero, are at most
\* e, and short of it by d at most, rounded up to units.
LEMMA CutLess ==
  ASSUME NEW e \in Nat, NEW d \in Nat, NEW m \in Nat \ {0}
  PROVE  /\ (d + m - 1) \div m \in Nat
         /\ Cut(e * m - d, m) \div m \in Int
         /\ Cut(e * m - d, m) \div m >= e - ((d + m - 1) \div m)
         /\ Cut(e * m - d, m) \div m =< e
  <1> DEFINE q == (d + m - 1) \div m
             x == m * e - d
             k == Abs(x) \div m
  <1>1. /\ q \in Int /\ d + m - 1 - m * q \in 0 .. m - 1
        /\ m * e \in Int /\ m * q \in Int /\ x \in Int /\ e * m = m * e
    BY Division
  <1>2. q \in Nat
    <2>1. d + m - 1 \in Nat
      OBVIOUS
    <2> QED
      BY <2>1
  <1>3. /\ Abs(x) \in Nat /\ Abs(m) = m
        /\ k \in Int /\ m * k \in Int /\ Abs(x) - m * k \in 0 .. m - 1
    <2>1. Abs(x) \in Nat /\ Abs(m) = m
      BY <1>1 DEF Abs
    <2>2. \A y \in Nat : y \div m \in Int /\ y - m * (y \div m) \in 0 .. m - 1
      OBVIOUS
    <2>3. k \in Int /\ Abs(x) - m * k \in 0 .. m - 1
      BY <2>1, <2>2
    <2>4. m * k \in Int
      BY <2>3
    <2>5. QED
      BY <2>1, <2>3, <2>4
  <1>4. \A y \in Int : (m * y) \div m = y
    <2>1. ASSUME NEW y \in Int
          PROVE  (m * y) \div m = y
      BY DivisionUnique, m * y \in Int, 0 \in 0 .. m - 1, m * y = m * y + 0
    <2>2. QED
      BY <2>1
  <1>5. CASE x >= 0
    <2>1. Cut(x, m) = m * k
      BY <1>1, <1>3, <1>5 DEF Cut, k
    <2>2. Cut(x, m) \div m = k
      BY <1>3, <1>4, <2>1
    <2>3. Abs(x) = x
      BY <1>1, <1>5 DEF Abs
    <2> HIDE DEF q, k
    <2>4. m * k < m * (e + 1)
      BY <1>1, <1>3, <2>3, m * (e + 1) = m * e + m
    <2>5. m * (e - q - 1) < m * k
      <3>1. m * (e - q - 1) = m * e - m * q - m
        BY <1>1
      <3>2. QED
        BY <1>1, <1>3, <2>3, <3>1
    <2>6. k < e + 1 /\ e - q - 1 < k
      BY <1>1, <1>3, <2>4, <2>5, FactorsOrdered
    <2>7. QED
      BY <1>1, <1>2, <1>3, <2>2, <2>6 DEF q
  <1>6. CASE x < 0
    <2>1. Cut(x, m) = m * (-k)
      BY <1>1, <1>3, <1>6 DEF Cut, k
    <2>2. Cut(x, m) \div m = -k
      BY <1>3, <1>4, <2>1
    <2>3. Abs(x) = -x
      BY <1>1, <1>6 DEF Abs
    <2>4. k \in Nat
      BY <1>3
    <2> HIDE DEF q, k
    <2>5. m * k < m * (q - e + 1)
      <3>1. m * (q - e + 1) = m * q - m * e + m
        BY <1>1
      <3>2. QED
        BY <1>1, <1>3, <2>3, <3>1
    <2>6. k < q - e + 1
      BY <1>1, <1>3, <2>5, FactorsOrdered
    <2>7. QED
      BY <1>1, <1>2, <1>3, <2>2, <2>4, <2>6 DEF q
  <1>7. QED
    BY <1>1, <1>5, <1>6

-----------------------------------------------------------------------------
(* int                                                                     *)

LEMMA IntBounds ==
  /\ IntMax \in Nat \ {0} /\ IntSize = 2 * (IntMax + 1)
  /\ Second \in Nat \ {0} /\ Second =< IntMax
  /\ LongestEpoch \in Nat /\ LongestEpoch * Second =< IntMax
  <1>1. IntSize = 2 * (IntSize \div 2)
    BY UnitsAssumption
  <1>2. QED
    BY <1>1, UnitsAssumption, EpochsFit DEF IntMax

LEMMA WrapInt ==
  ASSUME NEW x \in Int
  PROVE  Wrap(x) \in -(IntMax + 1) .. IntMax
  <1>1. (x + IntMax + 1) % IntSize \in 0 .. IntSize - 1
    BY IntBounds, UnitsAssumption, Division
  <1>2. QED
    BY <1>1, IntBounds DEF Wrap

LEMMA WrapFits ==
  ASSUME NEW x \in 0 .. IntMax
  PROVE  Wrap(x) = x
  <1>1. (x + IntMax + 1) % IntSize = x + IntMax + 1
    BY IntBounds, DivisionUnique,
       x + IntMax + 1 = IntSize * 0 + (x + IntMax + 1)
  <1>2. QED
    BY <1>1, IntBounds DEF Wrap

\* The upper half of the numbers is the negative ones.
LEMMA WrapNegative ==
  ASSUME NEW x \in IntMax + 1 .. IntSize - 1
  PROVE  Wrap(x) < 0
  <1>1. (x + IntMax + 1) % IntSize = x + IntMax + 1 - IntSize
    BY IntBounds, DivisionUnique,
       x + IntMax + 1 = IntSize * 1 + (x + IntMax + 1 - IntSize)
  <1>2. QED
    BY <1>1, IntBounds DEF Wrap

-----------------------------------------------------------------------------
(* The settings, and where the times of a flow come from                   *)

LEMMA SettingsFit ==
  /\ \A e \in Epochs : e \in Nat /\ e =< LongestEpoch
                       /\ e * Second \in 0 .. LongestEpoch * Second
                       /\ e * Second \in 0 .. IntMax
                       /\ Second * e = e * Second
  /\ Conns \subseteq Nat /\ Bursts \subseteq Nat
  <1>1. ASSUME NEW e \in Epochs
        PROVE  /\ e \in Nat /\ e =< LongestEpoch
               /\ e * Second \in 0 .. LongestEpoch * Second
               /\ e * Second \in 0 .. IntMax
               /\ Second * e = e * Second
    <2>1. e \in Nat /\ e =< LongestEpoch
      BY IntBounds, FileAssumption
    <2>2. e * Second =< LongestEpoch * Second
      BY <2>1, IntBounds
    <2>3. e * Second \in Nat /\ Second * e = e * Second
      BY <2>1, IntBounds
    <2>4. QED
      BY <2>1, <2>2, <2>3, IntBounds
  <1>2. QED
    BY <1>1, FileAssumption

LEMMA SharesNat ==
  ASSUME NEW c \in Nat, NEW b \in Nat
  PROVE  /\ Scaled(c, b) \in Nat
         /\ \A s \in Shares(c, b) : s \in Nat /\ s =< Scaled(c, b)
         /\ \A s \in Shares(c, b) : s = 0 => Scaled(c, b) = 0
  <1>1. c * b \in Nat
    OBVIOUS
  <1>2. Scaled(c, b) \in Nat
    BY <1>1, UnitsAssumption DEF Scaled
  <1>3. QED
    BY <1>2 DEF Shares

LEMMA IntervalInt ==
  ASSUME NEW c \in Nat, NEW e \in Epochs, NEW b \in Nat
  PROVE  Interval(c, e, b) \in -(IntMax + 1) .. IntMax
  <1>1. CASE c = 0
    BY <1>1, UnitsAssumption, IntBounds DEF Interval
  <1>2. CASE c # 0
    <2>1. Second * e \in Nat
      BY SettingsFit
    <2>2. (Second * e) \div c \in Int
      BY <1>2, <2>1, Division
    <2>3. ((Second * e) \div c) * b \in Int
      BY <2>2
    <2>4. QED
      BY <1>2, <2>3, WrapInt DEF Interval
  <1>3. QED
    BY <1>1, <1>2

\* An interval of 0 is one of too few flows.
LEMMA IntervalIsZero ==
  ASSUME NEW c \in Nat, NEW e \in Epochs, NEW b \in Nat,
         NEW s \in Shares(c, b), Interval(c, e, s) = 0
  PROVE  TooFew(c, e, b)
  <1>1. c # 0
    BY UnitsAssumption DEF Interval
  <1>2. SUFFICES ASSUME c * b >= BaseConns, c =< Second * e,
                        ((Second * e) \div c) * Scaled(c, b) =< IntMax
                 PROVE  FALSE
    <2>1. c * b \in Int /\ Second * e \in Int /\ BaseConns \in Int
      BY SettingsFit, UnitsAssumption
    <2>2. (Second * e) \div c \in Int /\ Scaled(c, b) \in Int
      BY <1>1, <2>1, Division, SharesNat
    <2>3. ((Second * e) \div c) * Scaled(c, b) \in Int
      BY <2>2
    <2>4. IntMax \in Int
      BY IntBounds
    <2>5. QED
      BY <1>1, <1>2, <2>1, <2>3, <2>4 DEF TooFew
  <1>3. \A x \in Nat, y \in Nat \ {0} : x >= y => x \div y \in Nat \ {0}
    OBVIOUS
  <1> DEFINE d == (Second * e) \div c
  <1>4. d \in Nat \ {0}
    BY <1>1, <1>2, <1>3, SettingsFit
  <1>5. Scaled(c, b) \in Nat \ {0}
    <2>1. c * b \in Nat
      OBVIOUS
    <2>2. QED
      BY <1>2, <1>3, <2>1, UnitsAssumption DEF Scaled
  <1>6. s \in Nat \ {0} /\ s =< Scaled(c, b)
    BY <1>5, SharesNat
  <1>7. d * s \in 1 .. IntMax
    <2>1. d * s =< d * Scaled(c, b)
      BY <1>4, <1>5, <1>6
    <2>2. \A x, y \in Nat \ {0} : x * y \in Nat \ {0}
      OBVIOUS
    <2>3. d * s \in Nat \ {0} /\ d * Scaled(c, b) \in Nat \ {0}
      BY <1>4, <1>5, <1>6, <2>2
    <2>4. d * Scaled(c, b) =< IntMax
      BY <1>2
    <2> HIDE DEF d
    <2>5. QED
      BY <2>1, <2>3, <2>4, IntBounds
  <1>8. Interval(c, e, s) = d * s
    BY <1>1, <1>7, WrapFits, IntBounds DEF Interval
  <1>9. QED
    BY <1>7, <1>8

\* virtual_delay, however it is cut, is at most an epoch, and short of one by
\* the delay of the group at most, up to the next second.
LEMMA VirtualDelayBounds ==
  ASSUME epoch \in Epochs, NEW total \in Nat
  PROVE  /\ StartLag(total) \in Nat /\ StartLag(total) * Second \in Nat
         /\ VirtualDelay(total) \in Int
         /\ epoch - StartLag(total) =< VirtualDelay(total)
         /\ VirtualDelay(total) =< epoch
  <1>1. total \div GroupSize \in Nat /\ Unit \in Nat
    BY UnitsAssumption DEF Unit
  <1>2. \A x, y \in Nat : x * y \in Nat
    OBVIOUS
  <1>3. GroupDelay(total) \in Nat /\ epoch \in Nat /\ Part \in Nat \ {0}
    BY <1>1, <1>2, UnitsAssumption, SettingsFit DEF GroupDelay
  <1>4. /\ StartLag(total) \in Nat /\ VirtualDelay(total) \in Int
        /\ epoch - StartLag(total) =< VirtualDelay(total)
        /\ VirtualDelay(total) =< epoch
    BY <1>3, CutLess DEF StartLag, VirtualDelay
  <1>5. QED
    BY <1>2, <1>4, IntBounds

\* A flow's place in the epoch lies in it, however it is cut.
LEMMA OffsetInEpoch ==
  ASSUME epoch \in Epochs, interval \in Int \ {0},
         NEW fd \in Fds, NEW total \in Totals, total # 0
  PROVE  /\ Offset(fd, total) \in Int
         /\ fd < total => Offset(fd, total) \in 0 .. epoch * Second
  <1>1. fd \in Nat /\ total \in Nat \ {0} /\ epoch * Second \in 0 .. IntMax
    BY ArgumentsAssumption, SettingsFit
  <1>2. (epoch * Second) \div total \in Nat
    BY <1>1
  <1>3. fd * ((epoch * Second) \div total) \in Nat
    BY <1>1, <1>2
  <1>4. Offset(fd, total) \in Int
    BY <1>3, WrapInt, CutInt, IntBounds DEF Offset
  <1>5. ASSUME fd < total
        PROVE  Offset(fd, total) \in 0 .. epoch * Second
    <2>1. \A x, f \in Nat, t \in Nat \ {0} : f < t => f * (x \div t) \in 0 .. x
      OBVIOUS
    <2>2. fd * ((epoch * Second) \div total) \in 0 .. epoch * Second
      BY <1>1, <1>5, <2>1
    <2> DEFINE turn == fd * ((epoch * Second) \div total)
    <2>3. Offset(fd, total) = Cut(Wrap(turn), interval)
      BY DEF Offset
    <2>4. turn \in 0 .. epoch * Second
      BY <2>2
    <2> HIDE DEF turn
    <2>5. turn \in Nat /\ turn \in 0 .. IntMax
      BY <1>1, <2>4, IntBounds
    <2>6. Cut(turn, interval) \in 0 .. turn
      BY <2>5, CutDown
    <2>7. QED
      BY <1>1, <2>3, <2>4, <2>5, <2>6, WrapFits
  <1>6. QED
    BY <1>4, <1>5

\* A flow that starts is at most its group's delay behind its turn, and an
\* epoch and a bit ahead of it.
Ahead == (LongestEpoch + 1) * Second + Setup

LEMMA StartBounds ==
  ASSUME epoch \in Epochs, interval \in Int \ {0}, phase \in 0 .. Second - 1,
         NEW fd \in Fds, NEW total \in Totals, NEW setup \in 0 .. Setup,
         total # 0
  PROVE  /\ SinceVirtual(fd, total, setup) \in Int
         /\ fd < total => SinceVirtual(fd, total, setup)
                            \in -(StartLag(total) * Second) .. Ahead
  <1> DEFINE turn == (phase - setup) % Second
             delay == VirtualDelay(total)
             late == StartLag(total)
  <1>1. setup \in 0 .. Setup /\ Setup \in Nat /\ phase - setup \in Int
    BY ArgumentsAssumption, IntBounds
  <1>2. turn \in 0 .. Second - 1
    BY <1>1, IntBounds, Division
  <1>3. /\ late \in Nat /\ late * Second \in Nat /\ delay \in Int
        /\ epoch - late =< delay /\ delay =< epoch
    BY ArgumentsAssumption, VirtualDelayBounds
  <1>4. /\ epoch \in Nat /\ epoch * Second \in 0 .. LongestEpoch * Second
        /\ LongestEpoch * Second \in Nat /\ Second \in Nat \ {0}
    BY SettingsFit, IntBounds
  <1>5. SinceVirtual(fd, total, setup) =
          setup + turn - Offset(fd, total) + delay * Second
    BY DEF SinceVirtual
  <1>6. /\ Offset(fd, total) \in Int
        /\ fd < total => Offset(fd, total) \in 0 .. epoch * Second
    BY OffsetInEpoch
  <1> HIDE DEF turn, delay, late
  <1>7. /\ delay * Second \in Int
        /\ epoch * Second - late * Second =< delay * Second
        /\ delay * Second =< epoch * Second
    <2>1. (epoch - late) * Second =< delay * Second
      BY <1>3, <1>4
    <2>2. (epoch - late) * Second = epoch * Second - late * Second
      BY <1>3, <1>4
    <2>3. delay * Second =< epoch * Second
      BY <1>3, <1>4
    <2>4. QED
      BY <1>3, <1>4, <2>1, <2>2, <2>3
  <1>8. (LongestEpoch + 1) * Second = LongestEpoch * Second + Second
    BY IntBounds
  <1>9. SinceVirtual(fd, total, setup) \in Int
    BY <1>1, <1>2, <1>5, <1>6, <1>7
  <1>10. ASSUME fd < total
         PROVE  SinceVirtual(fd, total, setup) \in -(late * Second) .. Ahead
    BY <1>1, <1>2, <1>3, <1>4, <1>5, <1>6, <1>7, <1>8, <1>10 DEF Ahead
  <1>11. QED
    BY <1>9, <1>10 DEF late

-----------------------------------------------------------------------------
(* Typing                                                                  *)

LEMMA PacingTypeInit == Init => TypeOK
  <1> SUFFICES ASSUME Init PROVE TypeOK
    OBVIOUS
  <1>1. PICK b \in Bursts :
          burst \in Shares(conns, b) /\ few = TooFew(conns, epoch, b)
    BY DEF Init
  <1>2. conns \in Conns /\ conns \in Nat /\ epoch \in Epochs /\ b \in Nat
    BY SettingsFit DEF Init
  <1>3. burst \in Nat /\ few \in BOOLEAN
    BY <1>1, <1>2, SharesNat DEF TooFew
  <1>4. interval \in -(IntMax + 1) .. IntMax
    BY <1>2, <1>3, IntervalInt DEF Init
  <1>5. since \in 0 .. IntMax /\ lag \in Nat /\ judged \in 0 .. LongestEpoch
    BY IntBounds DEF Init
  <1>6. /\ phase \in 0 .. Second - 1 /\ age \in 0 .. IntSize - 1
        /\ apc = "sleep" /\ state = "none" /\ crashed = "no" /\ timed = "none"
        /\ known = FALSE /\ flag = FALSE /\ pending = FALSE /\ asked = FALSE
        /\ starting = "no" /\ stamping = FALSE
        /\ upc = "scan" /\ judged = 0 /\ overtaken = FALSE
    BY DEF Init
  <1>7. QED
    BY <1>2, <1>3, <1>4, <1>5, <1>6, Zenon DEF TypeOK

LEMMA PacingTypeStep == TypeOK /\ [Next]_vars => TypeOK'
  <1> SUFFICES ASSUME TypeOK, [Next]_vars
               PROVE  TypeOK'
    OBVIOUS
  <1> USE DEF TypeOK, confVars, flowVars, timeVars, updVars
  <1>1. CASE Tick
    <2>1. (phase + 1) % Second \in 0 .. Second - 1
      BY IntBounds, Division
    <2>2. (age + 1) % IntSize \in 0 .. IntSize - 1
      <3>1. age + 1 \in Int /\ IntSize \in Nat \ {0}
        BY IntBounds
      <3>2. QED
        BY <3>1, Division
    <2>3. since' \in 0 .. IntMax
      BY <1>1, IntBounds DEF Tick
    <2>4. QED
      BY <1>1, <2>1, <2>2, <2>3 DEF Tick
  <1>2. ASSUME NEW e \in Epochs, SetEpoch(e)
        PROVE  TypeOK'
    BY <1>2 DEF SetEpoch
  <1>3. ASSUME NEW b \in Bursts, SetBurst(b)
        PROVE  TypeOK'
    BY <1>3, SettingsFit DEF SetBurst
  <1>4. ASSUME NEW c \in Conns, SetConnections(c)
        PROVE  TypeOK'
    <2>1. c \in Nat /\ \A s \in Shares(c, burst) : s \in Nat
      BY SharesNat, SettingsFit
    <2>2. \A s \in Shares(c, burst) :
            Interval(c, epoch, s) \in -(IntMax + 1) .. IntMax
      BY <2>1, IntervalInt
    <2>3. /\ burst' \in Nat /\ interval' \in -(IntMax + 1) .. IntMax
          /\ few' \in BOOLEAN
      BY <1>4, <2>1, <2>2 DEF SetConnections
    <2>4. QED
      BY <1>4, <2>3 DEF SetConnections
  <1>5. CASE Missing
    BY <1>5 DEF Missing
  <1>6. CASE Create
    <2>1. since' \in 0 .. IntMax /\ lag' \in Nat
      BY <1>6, IntBounds DEF Create
    <2>2. QED
      BY <1>6, <2>1 DEF Create
  <1>7. CASE Close
    BY <1>7 DEF Close
  <1>8. CASE Restore
    BY <1>8 DEF Restore
  <1>9. ASSUME NEW fd \in Fds, NEW total \in Totals, NEW setup \in 0 .. Setup,
               SetVirtualEventTime(fd, total, setup)
        PROVE  TypeOK'
    <2>1. interval \in Int \ {0} /\ total # 0
      BY <1>9, IntBounds DEF SetVirtualEventTime
    <2>2. SinceVirtual(fd, total, setup) \in Int
      BY <2>1, StartBounds
    <2>3. SinceVirtual(fd, total, setup) % IntSize \in 0 .. IntSize - 1
      BY <2>2, UnitsAssumption, Division
    <2>4. StartLag(total) * Second \in Nat
      BY ArgumentsAssumption, VirtualDelayBounds
    <2>5. since' \in 0 .. IntMax /\ lag' \in Nat
      BY <1>9, <2>4, IntBounds DEF SetVirtualEventTime
    <2>6. age' \in 0 .. IntSize - 1 /\ timed' \in {"none", "start", "send"}
      BY <1>9, <2>3 DEF SetVirtualEventTime
    <2>7. QED
      BY <1>9, <2>5, <2>6 DEF SetVirtualEventTime
  <1>10. ASSUME NEW total \in Totals, StartCrashes(total)
         PROVE  TypeOK'
    BY <1>10 DEF StartCrashes
  <1>11. CASE CanSendPkt
    <2>1. judged' \in 0 .. LongestEpoch
      BY <1>11, SettingsFit, IntBounds DEF CanSendPkt
    <2>2. QED
      BY <1>11, <2>1 DEF CanSendPkt
  <1>12. CASE Arm \/ ArmGone
    <2>1. CASE Arm
      <3>1. judged' \in 0 .. LongestEpoch
        BY <2>1, IntBounds DEF Arm
      <3>2. state' \in {"none", "open", "closed"} /\ flag' \in BOOLEAN
        BY <2>1 DEF Arm
      <3>3. QED
        BY <2>1, <3>1, <3>2 DEF Arm
    <2>2. CASE ArmGone
      BY <2>2 DEF ArmGone
    <2>3. QED
      BY <1>12, <2>1, <2>2
  <1>13. CASE Write
    BY <1>13 DEF Write
  <1>14. CASE SetEventSendTime
    <2>1. phase \in Nat /\ interval \in Int \ {0}
      BY <1>14, IntBounds DEF SetEventSendTime
    <2>2. Cut(phase, interval) \in 0 .. phase
      BY <2>1, CutDown
    <2>3. phase - Cut(phase, interval) \in 0 .. IntSize - 1
      BY <2>1, <2>2, IntBounds
    <2>4. since' \in 0 .. IntMax /\ lag' \in Nat
      BY <1>14, IntBounds DEF SetEventSendTime
    <2>5. QED
      BY <1>14, <2>3, <2>4 DEF SetEventSendTime
  <1>15. CASE StampCrashes
    BY <1>15 DEF StampCrashes
  <1>16. CASE Answered
    BY <1>16 DEF Answered
  <1>17. CASE Delete
    <2>1. since' \in 0 .. IntMax /\ lag' \in Nat
      BY <1>17, IntBounds DEF Delete
    <2>2. QED
      BY <1>17, <2>1 DEF Delete
  <1>18. CASE UNCHANGED vars
    BY <1>18 DEF vars
  <1>19. QED
    BY <1>1, <1>2, <1>3, <1>4, <1>5, <1>6, <1>7, <1>8, <1>9, <1>10, <1>11,
       <1>12, <1>13, <1>14, <1>15, <1>16, <1>17, <1>18 DEF Next

\* Every variable keeps its type in every execution: what setVirtualEventTime
\* and setEventSendTime compute fits into the int it is stored in.
THEOREM PacingTyping == Spec => []TypeOK
  BY PacingTypeInit, PacingTypeStep, PTL DEF Spec

-----------------------------------------------------------------------------
(* An interval of 0                                                        *)

CauseInv == (interval = 0 => few) /\ ZeroIntervalHasCause

LEMMA CauseStep == TypeOK /\ CauseInv /\ [Next]_vars => CauseInv'
  <1> SUFFICES ASSUME TypeOK, CauseInv, [Next]_vars
               PROVE  CauseInv'
    OBVIOUS
  <1> USE DEF CauseInv, ZeroIntervalHasCause, confVars, flowVars, timeVars,
              updVars
  <1>1. ASSUME NEW c \in Conns, SetConnections(c)
        PROVE  CauseInv'
    <2>1. c \in Nat /\ epoch \in Epochs /\ burst \in Nat
      BY SettingsFit DEF TypeOK
    <2>2. \A s \in Shares(c, burst) :
            Interval(c, epoch, s) = 0 => TooFew(c, epoch, burst)
      BY <2>1, IntervalIsZero
    <2>3. QED
      BY <1>1, <2>2 DEF SetConnections
  <1>2. ASSUME NEW total \in Totals, StartCrashes(total)
        PROVE  CauseInv'
    BY <1>2 DEF StartCrashes
  <1>3. CASE StampCrashes
    BY <1>3 DEF StampCrashes
  <1>4. CASE ArmGone
    BY <1>4 DEF ArmGone
  <1>5. ASSUME UNCHANGED <<interval, few, crashed>>
        PROVE  CauseInv'
    BY <1>5
  <1>6. QED
    BY <1>1, <1>2, <1>3, <1>4, <1>5
       DEF Next, Tick, SetEpoch, SetBurst, Missing, Create, Close, Restore,
           SetVirtualEventTime, CanSendPkt, Arm, Write, SetEventSendTime,
           Answered, Delete, vars

\* client_config.c:118: whatever the settings were and are, the client divides
\* by an interval of 0 only if too few flows were asked for once.
THEOREM ZeroIntervalExplained == Spec => []ZeroIntervalHasCause
  <1>1. Init => CauseInv
    <2> SUFFICES ASSUME Init, interval = 0
                 PROVE  few
      BY DEF Init, CauseInv, ZeroIntervalHasCause
    <2>1. PICK b \in Bursts :
            burst \in Shares(conns, b) /\ few = TooFew(conns, epoch, b)
      BY DEF Init
    <2>2. conns \in Nat /\ epoch \in Epochs /\ b \in Nat
      BY SettingsFit DEF Init
    <2>3. Interval(conns, epoch, burst) = 0
      BY DEF Init
    <2>4. QED
      BY <2>1, <2>2, <2>3, IntervalIsZero
  <1>2. QED
    BY <1>1, CauseStep, PacingTyping, PTL DEF Spec, CauseInv

-----------------------------------------------------------------------------
(* The time since a flow's turn                                            *)

\* As long as the time since can be told, a flow that has sent is counted from
\* the second its packet was sent in, and one that has started from a turn that
\* its group's delay put off at most; the number kept is that one modulo 2^32.
SendInv ==
  timed = "send" =>
    lag = 0 /\ (since < IntMax => age \in since .. since + Second - 1)
StartInv ==
  timed = "start" /\ since < IntMax =>
    \E v \in since - lag .. since + Ahead : age = v % IntSize

AgeInv == SendInv /\ StartInv

LEMMA AgeStep == TypeOK /\ AgeInv /\ [Next]_vars => AgeInv'
  <1> SUFFICES ASSUME TypeOK, AgeInv, [Next]_vars
               PROVE  AgeInv'
    OBVIOUS
  <1> USE DEF AgeInv, confVars, flowVars, timeVars, updVars
  <1>0. /\ since \in 0 .. IntMax /\ lag \in Nat /\ age \in 0 .. IntSize - 1
        /\ Ahead \in Nat /\ IntSize \in Nat \ {0}
    <2>1. (LongestEpoch + 1) * Second \in Nat
      BY IntBounds
    <2>2. QED
      BY <2>1, IntBounds, ArgumentsAssumption DEF TypeOK, Ahead
  <1>1. CASE Tick
    <2>1. /\ age' = (age + 1) % IntSize /\ timed' = timed /\ lag' = lag
          /\ timed # "none" /\ since < IntMax => since' = since + 1
          /\ timed # "none" /\ since = IntMax => since' = IntMax
      BY <1>1, <1>0 DEF Tick
    <2>2. SendInv'
      <3> SUFFICES ASSUME timed = "send", since < IntMax, since + 1 < IntMax
                   PROVE  age' \in since + 1 .. since + Second
        BY <1>0, <2>1, IntBounds DEF SendInv
      <3>1. age + 1 \in since + 1 .. since + Second
        BY <1>0, IntBounds DEF SendInv
      <3>2. age + 1 \in 0 .. IntSize - 1
        BY <1>0, <3>1, IntBounds
      <3>3. (age + 1) % IntSize = age + 1
        BY <1>0, <3>2, DivisionUnique, age + 1 = IntSize * 0 + (age + 1)
      <3>4. QED
        BY <2>1, <3>1, <3>3
    <2>3. StartInv'
      <3>0. Ahead' = Ahead
        BY DEF Ahead
      <3> SUFFICES ASSUME timed' = "start", since' < IntMax
                   PROVE  \E v \in since' - lag' .. since' + Ahead :
                            age' = v % IntSize
        BY <3>0 DEF StartInv
      <3>1. /\ timed = "start" /\ since < IntMax
            /\ since' = since + 1 /\ lag' = lag
        BY <1>0, <2>1, IntBounds
      <3>2. PICK v \in since - lag .. since + Ahead : age = v % IntSize
        BY <3>1 DEF StartInv
      <3>3. v \in Int /\ v + 1 \in since' - lag' .. since' + Ahead
        BY <1>0, <3>1
      <3>4. age' = (v + 1) % IntSize
        BY <1>0, <2>1, <3>2, <3>3, NextModulo
      <3>5. QED
        BY <3>3, <3>4
    <2>4. QED
      BY <2>2, <2>3
  <1>2. ASSUME NEW fd \in Fds, NEW total \in Totals, NEW setup \in 0 .. Setup,
               SetVirtualEventTime(fd, total, setup)
        PROVE  AgeInv'
    <2>1. /\ epoch \in Epochs /\ interval \in Int \ {0} /\ total # 0
          /\ phase \in 0 .. Second - 1
      BY <1>2, IntBounds DEF SetVirtualEventTime, TypeOK
    <2>2. CASE fd < total
      <3>1. SinceVirtual(fd, total, setup)
              \in -(StartLag(total) * Second) .. Ahead
        BY <2>1, <2>2, StartBounds
      <3>2. /\ timed' = "start" /\ since' = 0
            /\ lag' = StartLag(total) * Second
            /\ age' = SinceVirtual(fd, total, setup) % IntSize
        BY <1>2, <2>2 DEF SetVirtualEventTime
      <3>3. lag' \in Nat
        BY <2>1, <3>2, ArgumentsAssumption, VirtualDelayBounds
      <3>4. SinceVirtual(fd, total, setup) \in since' - lag' .. since' + Ahead
        BY <1>0, <3>1, <3>2, <3>3
      <3>5. QED
        BY <3>2, <3>4 DEF SendInv, StartInv, Ahead
    <2>3. CASE ~(fd < total)
      BY <1>2, <2>3 DEF SetVirtualEventTime, SendInv, StartInv
    <2>4. QED
      BY <2>2, <2>3
  <1>3. CASE SetEventSendTime
    <2>1. phase \in 0 .. Second - 1 /\ phase \in Nat /\ interval \in Int \ {0}
      BY <1>3, IntBounds DEF SetEventSendTime, TypeOK
    <2>2. Cut(phase, interval) \in 0 .. phase
      BY <2>1, CutDown
    <2>3. phase - Cut(phase, interval) \in 0 .. 0 + Second - 1
      BY <2>1, <2>2, IntBounds
    <2>4. QED
      BY <1>3, <2>3 DEF SetEventSendTime, SendInv, StartInv
  <1>4. CASE Create \/ Delete
    BY <1>4 DEF Create, Delete, SendInv, StartInv
  <1>5. ASSUME UNCHANGED timeVars
        PROVE  AgeInv'
    BY <1>5 DEF SendInv, StartInv, Ahead
  <1>6. QED
    BY <1>1, <1>2, <1>3, <1>4, <1>5
       DEF Next, SetEpoch, SetBurst, SetConnections, Missing, Close, Restore,
           StartCrashes, CanSendPkt, Arm, ArmGone, Write, StampCrashes,
           Answered, vars

LEMMA AgeKept == Spec => [](TypeOK /\ AgeInv)
  <1>1. Init => AgeInv
    BY DEF Init, AgeInv, SendInv, StartInv
  <1>2. QED
    BY <1>1, AgeStep, PacingTyping, PTL DEF Spec

\* What has gone by since a flow's turn has gone by on its clock.
LEMMA TurnReached ==
  ASSUME TypeOK, AgeInv, timed # "none",
         since >= epoch * Second + lag, since =< IntMax - Ahead
  PROVE  Due
  <1>0. /\ since \in 0 .. IntMax /\ lag \in Nat /\ epoch \in Nat
        /\ epoch * Second \in Nat /\ IntSize \in Nat \ {0}
        /\ Second \in Nat \ {0} /\ Ahead \in Nat /\ Ahead >= Second
    <2>1. (LongestEpoch + 1) * Second = LongestEpoch * Second + Second
      BY IntBounds
    <2>2. LongestEpoch * Second \in Nat
      BY IntBounds
    <2>3. QED
      BY <2>1, <2>2, IntBounds, SettingsFit, ArgumentsAssumption
         DEF TypeOK, Ahead
  <1>1. age \in Nat /\ age =< IntMax /\ age >= epoch * Second
    <2>1. CASE timed = "send"
      BY <1>0, <2>1, IntBounds DEF AgeInv, SendInv, TypeOK
    <2>2. CASE timed = "start"
      <3>1. PICK v \in since - lag .. since + Ahead : age = v % IntSize
        BY <1>0, <2>2, IntBounds DEF AgeInv, StartInv
      <3>2. v \in Nat /\ v =< IntMax /\ v >= epoch * Second
        BY <1>0, <3>1, IntBounds
      <3>3. v % IntSize = v
        BY <1>0, <3>2, IntBounds, DivisionUnique, v = IntSize * 0 + v
      <3>4. QED
        BY <3>1, <3>2, <3>3
    <2>3. QED
      BY <2>1, <2>2 DEF TypeOK
  <1>2. Wrap(age) = age
    BY <1>1, WrapFits, IntBounds
  <1>3. QED
    BY <1>0, <1>1, <1>2, CutReached DEF Due

\* README.md:16: whatever the settings were when it started or sent, a flow
\* that nothing holds back is due when an epoch has passed, and if it has just
\* started the delay of its group, up to the next second (virtual_delay is cut
\* to an int, epoll.c:135), unless that does not fit into an int.
THEOREM FlowsAreDue == Spec => []DueInTime
  <1>1. TypeOK /\ AgeInv => DueInTime
    <2> SUFFICES ASSUME TypeOK, AgeInv, timed # "none",
                        since >= epoch * Second + lag,
                        since =< IntMax - (LongestEpoch + 1) * Second - Setup
                 PROVE  Due
      BY DEF DueInTime
    <2>1. (LongestEpoch + 1) * Second \in Nat /\ Setup \in Nat
      BY IntBounds, ArgumentsAssumption
    <2>2. since =< IntMax - Ahead
      BY <2>1, IntBounds DEF Ahead
    <2>3. QED
      BY <2>2, TurnReached
  <1>2. QED
    BY <1>1, AgeKept, PTL

\* A flow that is due has waited for its epoch, but for the part of a second
\* that its time was cut by.
LEMMA DueIsNotEarly ==
  ASSUME TypeOK, AgeInv, timed = "send", Due
  PROVE  since > (epoch - 1) * Second
  <1>0. /\ since \in 0 .. IntMax /\ age \in 0 .. IntSize - 1
        /\ epoch \in Nat /\ epoch * Second \in 0 .. IntMax
        /\ Second \in Nat \ {0}
    BY SettingsFit, IntBounds DEF TypeOK
  <1>1. (epoch - 1) * Second = epoch * Second - Second
    BY <1>0
  <1>2. CASE since = IntMax
    BY <1>0, <1>1, <1>2, IntBounds
  <1>3. CASE since < IntMax /\ age =< IntMax
    <2>1. age \in Nat /\ Wrap(age) = age
      BY <1>0, <1>3, WrapFits, IntBounds
    <2>2. Cut(age, Second) \in 0 .. age
      BY <1>0, <2>1, CutDown
    <2>3. age >= epoch * Second
      BY <1>0, <2>1, <2>2 DEF Due
    <2>4. age =< since + Second - 1
      BY <1>3 DEF AgeInv, SendInv
    <2>5. QED
      BY <1>0, <1>1, <2>1, <2>3, <2>4
  <1>4. CASE since < IntMax /\ age > IntMax
    <2>1. Wrap(age) < 0 /\ Wrap(age) \in Int
      BY <1>0, <1>4, WrapNegative, WrapInt, IntBounds
    <2>2. Cut(Wrap(age), Second) =< 0
      <3>1. Abs(Wrap(age)) \in Nat /\ Abs(Second) = Second
        BY <1>0, <2>1 DEF Abs
      <3>2. \A x \in Nat, m \in Nat \ {0} : (x \div m) * m \in 0 .. x
        OBVIOUS
      <3>3. QED
        BY <1>0, <2>1, <3>1, <3>2 DEF Cut
    <2>3. Cut(Wrap(age), Second) \in Int
      BY <1>0, <2>1, CutInt
    <2>4. epoch * Second = 0
      BY <1>0, <2>2, <2>3 DEF Due
    <2>5. QED
      BY <1>0, <1>1, <2>4
  <1>5. QED
    BY <1>0, <1>2, <1>3, <1>4, IntBounds

\* From canSendPkt to modifyEpollEvent the flow stays one that was not early,
\* unless a packet of it was unstamped or is written in the meantime.
JudgedInv ==
  upc = "arm" /\ ~overtaken =>
    ~stamping /\ (timed = "send" => since > (judged - 1) * Second)

LEMMA JudgedStep ==
  TypeOK /\ AgeInv /\ JudgedInv /\ [Next]_vars => JudgedInv'
  <1> SUFFICES ASSUME TypeOK, AgeInv, JudgedInv, [Next]_vars
               PROVE  JudgedInv'
    OBVIOUS
  <1> USE DEF JudgedInv, confVars, flowVars, timeVars, updVars
  <1>0. /\ since \in 0 .. IntMax /\ judged \in 0 .. LongestEpoch
        /\ (judged - 1) * Second \in Int
    <2>1. since \in 0 .. IntMax /\ judged \in 0 .. LongestEpoch
      BY DEF TypeOK
    <2>2. QED
      BY <2>1, IntBounds
  <1>1. CASE Tick
    <2>1. since' >= since /\ since' \in Int
      BY <1>0, <1>1, IntBounds DEF Tick
    <2>2. QED
      BY <1>0, <1>1, <2>1 DEF Tick
  <1>2. CASE CanSendPkt
    <2>1. timed = "send" => since > (epoch - 1) * Second
      BY <1>2, DueIsNotEarly DEF CanSendPkt
    <2>2. QED
      BY <1>2, <2>1 DEF CanSendPkt
  <1>3. CASE Write
    BY <1>3 DEF Write
  <1>4. ASSUME NEW fd \in Fds, NEW total \in Totals, NEW setup \in 0 .. Setup,
               SetVirtualEventTime(fd, total, setup)
        PROVE  JudgedInv'
    BY <1>4 DEF SetVirtualEventTime
  <1>5. CASE SetEventSendTime
    BY <1>5 DEF SetEventSendTime
  <1>6. CASE Create \/ Delete
    BY <1>6 DEF Create, Delete
  <1>7. CASE Arm
    BY <1>7 DEF Arm
  <1>8. ASSUME UNCHANGED <<upc, judged, overtaken, stamping, timed, since>>
        PROVE  JudgedInv'
    BY <1>8
  <1>9. QED
    BY <1>1, <1>2, <1>3, <1>4, <1>5, <1>6, <1>7, <1>8
       DEF Next, SetEpoch, SetBurst, SetConnections, Missing, Close, Restore,
           StartCrashes, ArmGone, StampCrashes, Answered, vars

\* canSendPkt, setEventSendTime and modifyEpollEvent in every order: between a
\* packet and the next arming of its flow lies the epoch it was found due for,
\* less the part of a second that the interval takes off; unless the packet had
\* no time stamp yet when it was found due, or was written after that, and
\* unless the flow has been closed and opened since.
THEOREM PacketsKeepDistance == Spec => NeverEarly
  <1>1. Init => JudgedInv
    BY DEF Init, JudgedInv
  <1>2. JudgedInv /\ [Next]_vars
          => [upc = "arm" /\ upc' = "scan" /\ timed = "send" /\ ~overtaken
                => since > (judged - 1) * Second]_vars
    BY DEF JudgedInv
  <1>3. QED
    BY <1>1, <1>2, JudgedStep, AgeKept, PTL DEF Spec, NeverEarly

-----------------------------------------------------------------------------
(* Counters that are added to without a lock                               *)

LEMMA StatsTypeInit == StatsInit => StatsTypeOK
  BY PacketsAssumption DEF StatsInit, StatsTypeOK, Counters

LEMMA StatsTypeStep == StatsTypeOK /\ [StatsNext]_statsVars => StatsTypeOK'
  <1> SUFFICES ASSUME StatsTypeOK, [StatsNext]_statsVars PROVE StatsTypeOK'
    OBVIOUS
  <1> USE DEF StatsTypeOK, Counters, adderVars, Goto
  <1>1. ASSUME NEW a \in Adders, Load(a) PROVE StatsTypeOK'
    BY <1>1, PacketsAssumption DEF Load
  <1>2. ASSUME NEW a \in Adders, Store(a) PROVE StatsTypeOK'
    BY <1>2 DEF Store
  <1>3. ASSUME NEW k \in Counters, PrintCount(k) PROVE StatsTypeOK'
    BY <1>3 DEF PrintCount
  <1>4. ASSUME NEW k \in Counters, Reset(k) PROVE StatsTypeOK'
    BY <1>4 DEF Reset
  <1>5. CASE Test
    BY <1>5 DEF Test
  <1>6. CASE Divide
    BY <1>6 DEF Divide
  <1>7. CASE UNCHANGED statsVars
    BY <1>7 DEF statsVars
  <1> QED BY <1>1, <1>2, <1>3, <1>4, <1>5, <1>6, <1>7 DEF StatsNext

\* Every variable keeps its type: counters do not become negative.
THEOREM StatisticsTyping == StatsSpec => []StatsTypeOK
  BY StatsTypeInit, StatsTypeStep, PTL DEF StatsSpec

\* What was found not to be 0 stays so until it has been divided by.
DivisorInv == /\ place["sec"] = "divide" => count["sec"] # 0
              /\ NeverDividesByZero

LEMMA DivisorStep ==
  StatsTypeOK /\ DivisorInv /\ [StatsNext]_statsVars => DivisorInv'
  <1> SUFFICES ASSUME StatsTypeOK, DivisorInv, [StatsNext]_statsVars
               PROVE  DivisorInv'
    OBVIOUS
  <1> USE DEF DivisorInv, NeverDividesByZero, adderVars, Goto
  <1>1. ASSUME NEW a \in Adders, Load(a) PROVE DivisorInv'
    BY <1>1 DEF Load
  <1>2. ASSUME NEW a \in Adders, Store(a) PROVE DivisorInv'
    <2>1. loaded[a] \in Nat /\ adding[a] \in Counters /\ UNCHANGED place
      BY <1>2 DEF Store, StatsTypeOK
    <2>2. count'["sec"] = count["sec"] \/ count'["sec"] = loaded[a] + 1
      BY <1>2, <2>1 DEF Store, StatsTypeOK, Counters
    <2> QED BY <2>1, <2>2
  <1>3. ASSUME NEW k \in Counters, PrintCount(k) PROVE DivisorInv'
    BY <1>3 DEF PrintCount, StatsTypeOK, Counters
  <1>4. ASSUME NEW k \in Counters, Reset(k) PROVE DivisorInv'
    BY <1>4 DEF Reset, StatsTypeOK, Counters
  <1>5. CASE Test
    BY <1>5 DEF Test, StatsTypeOK, Counters
  <1>6. CASE Divide
    BY <1>6 DEF Divide, StatsTypeOK, Counters
  <1>7. CASE UNCHANGED statsVars
    BY <1>7 DEF statsVars
  <1> QED BY <1>1, <1>2, <1>3, <1>4, <1>5, <1>6, <1>7 DEF StatsNext

\* throughput_sec, statistics.c: the second load of the counter finds no 0.
THEOREM DivisionIsSafe == StatsSpec => []NeverDividesByZero
  <1>1. StatsInit => DivisorInv
    BY DEF StatsInit, DivisorInv, NeverDividesByZero, Counters
  <1> QED BY <1>1, DivisorStep, StatisticsTyping, PTL DEF StatsSpec, DivisorInv

\* Additions under way, and what they have loaded.
Bounded(k) == /\ count[k] <= added[k]
              /\ \A a \in UnderWay(k) : loaded[a] <= added[k]
Exact(k) == /\ count[k] = added[k]
            /\ \A a \in UnderWay(k) : loaded[a] = added[k]
            /\ \A a, b \in UnderWay(k) : a = b
CountInv ==
  \A k \in Counters : ~undone[k] => Bounded(k) /\ (~lapped[k] => Exact(k))

LEMMA CountStep == StatsTypeOK /\ CountInv /\ [StatsNext]_statsVars => CountInv'
  <1> SUFFICES ASSUME StatsTypeOK, CountInv, [StatsNext]_statsVars,
                      NEW k \in Counters, ~undone'[k]
               PROVE  Bounded(k)' /\ (~lapped'[k] => Exact(k)')
    BY DEF CountInv
  <1>1. ASSUME NEW a \in Adders, Load(a)
        PROVE  Bounded(k)' /\ (~lapped'[k] => Exact(k)')
    <2>1. /\ UNCHANGED <<count, adding, added, undone>> /\ loaded[a] = Nothing
          /\ loaded' = [loaded EXCEPT ![a] = count[adding[a]]]
      BY <1>1 DEF Load
    <2>2. Bounded(k) /\ (~lapped[k] => Exact(k))
      BY <2>1 DEF CountInv
    <2>3. CASE adding[a] # k
      <3>1. UnderWay(k)' = UnderWay(k) /\ lapped'[k] = lapped[k]
        BY <1>1, <2>1, <2>3 DEF Load, UnderWay, StatsTypeOK
      <3>2. \A b \in UnderWay(k) : loaded'[b] = loaded[b]
        BY <2>1, <2>3 DEF UnderWay, StatsTypeOK
      <3> QED BY <2>1, <2>2, <3>1, <3>2 DEF Bounded, Exact
    <2>4. CASE adding[a] = k
      <3>1. count[k] \in Nat /\ added[k] \in Nat /\ count[k] # Nothing
        BY NothingAssumption DEF StatsTypeOK
      <3>2. UnderWay(k)' = UnderWay(k) \cup {a}
        BY <2>1, <2>4, <3>1 DEF UnderWay, StatsTypeOK
      <3>3. /\ loaded'[a] = count[k]
            /\ \A b \in Adders \ {a} : loaded'[b] = loaded[b]
        BY <2>1, <2>4 DEF StatsTypeOK
      <3>4. Bounded(k)'
        BY <2>1, <2>2, <3>1, <3>2, <3>3 DEF Bounded, UnderWay
      <3>5. lapped'[k] = (lapped[k] \/ UnderWay(k) # {})
        BY <1>1, <2>4 DEF Load, StatsTypeOK
      <3>6. ASSUME ~lapped'[k] PROVE Exact(k)'
        <4>1. UnderWay(k) = {} /\ Exact(k)
          BY <2>2, <3>5, <3>6 DEF StatsTypeOK
        <4> QED BY <2>1, <3>2, <3>3, <4>1 DEF Exact
      <3> QED BY <3>4, <3>6
    <2> QED BY <2>3, <2>4
  <1>2. ASSUME NEW a \in Adders, Store(a)
        PROVE  Bounded(k)' /\ (~lapped'[k] => Exact(k)')
    <2>1. /\ UNCHANGED <<undone, lapped>> /\ loaded[a] \in Nat
          /\ count' = [count EXCEPT ![adding[a]] = loaded[a] + 1]
          /\ added' = [added EXCEPT ![adding[a]] = added[adding[a]] + 1]
          /\ loaded' = [loaded EXCEPT ![a] = Nothing]
          /\ \A b \in Adders \ {a} : adding'[b] = adding[b]
          /\ adding[a] \in Counters
      BY <1>2 DEF Store, StatsTypeOK
    <2>2. Bounded(k) /\ (~lapped[k] => Exact(k))
      BY <2>1 DEF CountInv
    <2>3. UnderWay(k)' = UnderWay(k) \ {a}
      BY <2>1 DEF UnderWay, StatsTypeOK
    <2>4. \A b \in UnderWay(k)' : loaded'[b] = loaded[b] /\ loaded[b] \in Nat
      BY <2>1, <2>3 DEF UnderWay, StatsTypeOK
    <2>5. CASE adding[a] # k
      <3>1. count'[k] = count[k] /\ added'[k] = added[k]
        BY <2>1, <2>5 DEF StatsTypeOK
      <3> QED BY <2>1, <2>2, <2>3, <2>4, <3>1 DEF Bounded, Exact
    <2>6. CASE adding[a] = k
      <3>1. /\ count'[k] = loaded[a] + 1 /\ added'[k] = added[k] + 1
            /\ added[k] \in Nat
        BY <2>1, <2>6 DEF StatsTypeOK
      <3>2. a \in UnderWay(k)
        BY <1>2, <2>6 DEF Store, UnderWay
      <3>3. Bounded(k)'
        <4>1. loaded[a] <= added[k]
          BY <2>2, <3>2 DEF Bounded
        <4>2. \A b \in UnderWay(k)' : loaded[b] <= added[k]
          BY <2>2, <2>3 DEF Bounded
        <4> QED BY <2>1, <2>4, <3>1, <4>1, <4>2 DEF Bounded
      <3>4. ASSUME ~lapped'[k] PROVE Exact(k)'
        <4>1. UnderWay(k) = {a} /\ loaded[a] = added[k]
          BY <2>1, <2>2, <3>2, <3>4 DEF Exact
        <4> QED BY <2>3, <3>1, <4>1 DEF Exact
      <3> QED BY <3>3, <3>4
    <2> QED BY <2>5, <2>6
  <1>3. ASSUME NEW c \in Counters, Reset(c)
        PROVE  Bounded(k)' /\ (~lapped'[k] => Exact(k)')
    <2>1. UNCHANGED <<adding, loaded>> /\ UnderWay(k)' = UnderWay(k)
      BY <1>3 DEF Reset, adderVars, UnderWay
    <2>2. CASE c = k
      <3>1. count'[k] = 0 /\ added'[k] = 0 /\ UnderWay(k) = {}
        BY <1>3, <2>2 DEF Reset, StatsTypeOK
      <3> QED BY <2>1, <3>1 DEF Bounded, Exact
    <2>3. CASE c # k
      <3>1. /\ count'[k] = count[k] /\ added'[k] = added[k]
            /\ undone'[k] = undone[k] /\ lapped'[k] = lapped[k]
        BY <1>3, <2>3 DEF Reset, StatsTypeOK
      <3> QED BY <2>1, <3>1 DEF CountInv, Bounded, Exact
    <2> QED BY <2>2, <2>3
  <1>4. ASSUME UNCHANGED <<count, adderVars, added, undone, lapped>>
        PROVE  Bounded(k)' /\ (~lapped'[k] => Exact(k)')
    <2>1. UnderWay(k)' = UnderWay(k)
      BY <1>4 DEF adderVars, UnderWay
    <2> QED BY <1>4, <2>1 DEF CountInv, Bounded, Exact, adderVars
  <1> QED BY <1>1, <1>2, <1>3, <1>4
          DEF StatsNext, PrintCount, Test, Divide, statsVars

\* statistics.c: a report counts a packet of an earlier one only if an addition
\* was under way when the counter was reset, and misses one added since only
\* if two additions were under way together.
THEOREM ReportsTrue == StatsSpec => []ReportsAreTrue
  <1>1. StatsInit => CountInv
    BY DEF StatsInit, CountInv, Bounded, Exact, UnderWay, Counters
  <1>2. StatsTypeOK /\ CountInv => ReportsAreTrue
    BY DEF CountInv, ReportsAreTrue, Bounded, Exact
  <1> QED BY <1>1, <1>2, CountStep, StatisticsTyping, PTL DEF StatsSpec
=============================================================================

----------------------------- MODULE PacketsProofs ----------------------------
(* For every accuracy, map, table, number and draw of rand: a round of        *)
(* packets keeps the configured share, flows have different numbers, the      *)
(* shift that makes the keys can be undone, a table has no key twice, the     *)
(* server finds the key of a packet and reads the fields that were written.   *)
EXTENDS Packets, TLAPS, WellFoundedInduction

-----------------------------------------------------------------------------
(* The share of requests.                                                    *)

\* In the middle of a round the requests are those up to the counter: no fewer
\* than the smallest bound, no more than the largest, would have given by then.
SoFar ==
  counter > 0 =>
    /\ counter <= requests \/ low <= requests
    /\ requests <= counter /\ requests <= high

MixInv == MixTypeOK /\ SoFar /\ RoundKeepsShare

LEMMA MixInitInv == MixInit => MixInv
BY AccuracyAssumption DEF MixInit, MixInv, MixTypeOK, SoFar, RoundKeepsShare, Rates

LEMMA MixNextInv == MixInv /\ [MixNext]_mixVars => MixInv'
<1> SUFFICES ASSUME MixInv, [MixNext]_mixVars PROVE MixInv'
  OBVIOUS
<1> USE AccuracyAssumption DEF MixInv, MixTypeOK, SoFar, RoundKeepsShare, Rates
<1>1. ASSUME NEW r \in Rates, SetRate(r) PROVE MixInv'
  BY <1>1 DEF SetRate
<1>2. CASE ReadRate
  BY <1>2 DEF ReadRate
<1>3. CASE SendRequest
  BY <1>3 DEF SendRequest, RecordRequests, RecordBound
<1>4. CASE SendHeartbeat
  BY <1>4 DEF SendHeartbeat, RecordRequests, RecordBound
<1>5. CASE SendLast
  BY <1>5 DEF SendLast, RecordRequests, RecordBound
<1>6. CASE UNCHANGED mixVars
  BY <1>6 DEF mixVars
<1> QED BY <1>1, <1>2, <1>3, <1>4, <1>5, <1>6 DEF MixNext, Send

\* What the client does is, for the mix, a step of PacketMix or nothing.
LEMMA MixStep == [Next]_vars => [MixNext]_mixVars
<1> SUFFICES ASSUME [Next]_vars PROVE [MixNext]_mixVars
  OBVIOUS
<1>1. ASSUME NEW r \in 0 .. RandMax, Swap(r) PROVE UNCHANGED mixVars
  BY <1>1 DEF Swap
<1>2. CASE Fill
  BY <1>2 DEF Fill
<1>3. CASE Reload
  BY <1>3 DEF Reload, MixNext
<1>4. ASSUME NEW fd \in Fds, Make(fd) PROVE MixNext
  BY <1>4 DEF Make, MixNext, Send
<1>5. CASE UNCHANGED vars
  BY <1>5 DEF vars
<1> QED BY <1>1, <1>2, <1>3, <1>4, <1>5 DEF Next

THEOREM PlaysMix == Spec => MixSpec
<1>1. Init => MixInit
  BY DEF Init
<1> QED BY <1>1, MixStep, PTL DEF Spec, MixSpec

\* Every round has the share of requests it was sent under.
THEOREM ShareKept == Spec => []RoundKeepsShare
<1>1. MixInv => RoundKeepsShare
  BY DEF MixInv
<1> QED BY <1>1, MixInitInv, MixNextInv, PlaysMix, PTL DEF MixSpec

-----------------------------------------------------------------------------
(* Types.                                                                    *)

\* utils.c:12: what is added to i is less than the places that are left.
LEMMA DrawBound ==
  ASSUME NEW s \in Nat \ {0}, NEW top \in Nat, NEW r \in 0 .. top
  PROVE  r \div (top \div s + 1) \in 0 .. s - 1
<1> DEFINE q == top \div s
           d == r \div (q + 1)
<1>1. q \in Nat /\ top < s * (q + 1)
  <2>1. q \in Nat /\ top = s * q + (top % s) /\ top % s \in 0 .. s - 1
    OBVIOUS
  <2>2. s * (q + 1) = s * q + s
    BY <2>1
  <2> HIDE DEF q
  <2> QED BY <2>1, <2>2
<1> HIDE DEF q
<1>2. d \in Nat /\ r = (q + 1) * d + (r % (q + 1)) /\ r % (q + 1) \in 0 .. q
  BY <1>1
<1> HIDE DEF d
<1>3. d < s
  <2> SUFFICES ASSUME d >= s PROVE FALSE
    BY <1>2
  <2>1. (q + 1) * d >= (q + 1) * s
    BY <1>1, <1>2
  <2>2. (q + 1) * s = s * (q + 1)
    BY <1>1
  <2> QED BY <1>1, <1>2, <2>1, <2>2
<1> QED BY <1>2, <1>3 DEF d, q

LEMMA DrawnPlace ==
  ASSUME place \in 0 .. MapSize, place < MapSize, NEW r \in 0 .. RandMax
  PROVE  Drawn(r) \in Places /\ place \in Places
<1>1. MapSize \in Nat /\ MapSize - place \in Nat \ {0}
  BY SIDAssumption DEF MapSize
<1>2. r \div (RandMax \div (MapSize - place) + 1) \in 0 .. MapSize - place - 1
  BY <1>1, DrawBound, RandMaxAssumption
<1> QED BY <1>1, <1>2 DEF Drawn, Places

LEMMA NextKeyType ==
  ASSUME NEW k \in Keys
  PROVE  NextKey(k) \in Keys
BY HalfAssumption, TapsAssumption DEF NextKey, Keys, KeyBits, Low, Top, Flip

LEMMA InitType == Init => TypeOK
<1> SUFFICES ASSUME Init PROVE TypeOK
  OBVIOUS
<1>1. MixTypeOK
  BY MixInitInv DEF Init, MixInv
<1>2. filled \in 0 .. TableSize /\ key \in Keys
  BY TableSizeAssumption, SeedAssumption DEF Init, KeyInit
<1>3. map \in [Places -> SIDStart .. SIDEnd - 1]
  BY SIDAssumption DEF Init, IDMap, Places, MapSize
<1> QED BY <1>1, <1>2, <1>3, SIDAssumption DEF Init, TypeOK, MapSize

LEMMA NextType == TypeOK /\ MixInv' /\ [Next]_vars => TypeOK'
<1> SUFFICES ASSUME TypeOK, MixInv', [Next]_vars PROVE TypeOK'
  OBVIOUS
<1> USE DEF TypeOK
<1>m. MixTypeOK'
  BY DEF MixInv
<1>1. ASSUME NEW r \in 0 .. RandMax, Swap(r) PROVE TypeOK'
  <2>1. Drawn(r) \in Places /\ place \in Places
    BY <1>1, DrawnPlace DEF Swap
  <2>2. map' \in [Places -> SIDStart .. SIDEnd - 1]
    BY <1>1, <2>1 DEF Swap
  <2>3. place' \in 0 .. MapSize
    BY <1>1, SIDAssumption DEF Swap, MapSize
  <2> QED BY <1>1, <1>m, <2>2, <2>3 DEF Swap, keyVars
<1>2. CASE Fill
  <2>1. key' \in Keys
    BY <1>2, NextKeyType DEF Fill, FillKey
  <2>2. filled' \in 0 .. TableSize
    BY <1>2, TableSizeAssumption DEF Fill, FillKey
  <2> QED BY <1>2, <1>m, <2>1, <2>2 DEF Fill
<1>3. CASE Reload
  BY <1>3, <1>m DEF Reload, keyVars
<1>4. ASSUME NEW fd \in Fds, Make(fd) PROVE TypeOK'
  BY <1>4, <1>m DEF Make, keyVars
<1>5. CASE UNCHANGED vars
  BY <1>5, <1>m DEF vars, keyVars
<1> QED BY <1>1, <1>2, <1>3, <1>4, <1>5 DEF Next

\* Every variable keeps its type; the numbers of the map are those configured.
THEOREM Typing == Spec => []TypeOK
<1> QED BY InitType, NextType, MixInitInv, MixNextInv, PlaysMix, PTL
        DEF Spec, MixSpec

-----------------------------------------------------------------------------
(* The numbers of the flows.                                                 *)

LEMMA SwapDiffers ==
  TypeOK /\ SIDsDiffer /\ [Next]_vars => SIDsDiffer'
<1> SUFFICES ASSUME TypeOK, SIDsDiffer, [Next]_vars PROVE SIDsDiffer'
  OBVIOUS
<1>1. ASSUME NEW r \in 0 .. RandMax, Swap(r) PROVE SIDsDiffer'
  <2>1. Drawn(r) \in Places /\ place \in Places
    BY <1>1, DrawnPlace DEF Swap, TypeOK
  <2>2. \A p \in Places :
          map'[p] = IF p = place THEN map[Drawn(r)]
                    ELSE IF p = Drawn(r) THEN map[place] ELSE map[p]
    BY <1>1, <2>1 DEF Swap, TypeOK
  <2> QED BY <2>1, <2>2 DEF SIDsDiffer
<1>2. ASSUME UNCHANGED map PROVE SIDsDiffer'
  BY <1>2 DEF SIDsDiffer
<1> QED BY <1>1, <1>2 DEF Next, Fill, Reload, Make, vars

\* Whatever shuffer draws, no two flows have the same number.
THEOREM SIDsAreKeys == Spec => []SIDsDiffer
<1>1. Init => SIDsDiffer
  BY SIDAssumption DEF Init, IDMap, SIDsDiffer, Places
<1> QED BY <1>1, Typing, SwapDiffers, PTL DEF Spec

-----------------------------------------------------------------------------
(* The table of keys.                                                        *)

\* Two keys that are followed by the same key are the same.
THEOREM NextKeyInjective ==
  ASSUME NEW a \in Keys, NEW b \in Keys, NextKey(a) = NextKey(b)
  PROVE  a = b
<1> USE HalfAssumption, TapsAssumption DEF KeyBits, Low, Top
<1>1. \A i \in KeyBits : NextKey(a)[i] = NextKey(b)[i]
  OBVIOUS
<1>2. \A i \in KeyBits : Low(i) \in KeyBits /\ Top(i) \in KeyBits
  OBVIOUS
<1>3. \A i \in KeyBits : a[Top(i)] = b[Top(i)]
  <2> TAKE i \in KeyBits
  <2>1. NextKey(a)[Low(i)] = NextKey(b)[Low(i)]
    BY <1>1, <1>2
  <2>2. Low(Low(i)) = Low(i) /\ Top(Low(i)) = Top(i)
    OBVIOUS
  <2> QED BY <1>2, <2>1, <2>2 DEF NextKey
<1>4. \A i \in KeyBits : i # Low(i) => a[i - 1] = b[i - 1]
  <2> SUFFICES ASSUME NEW i \in KeyBits, i # Low(i) PROVE a[i - 1] = b[i - 1]
    OBVIOUS
  <2>1. i - 1 \in KeyBits
    OBVIOUS
  <2>2. /\ NextKey(a)[i] = IF i - Low(i) \in Taps
                           THEN Flip(a[i - 1], a[Top(i)]) ELSE a[i - 1]
        /\ NextKey(b)[i] = IF i - Low(i) \in Taps
                           THEN Flip(b[i - 1], b[Top(i)]) ELSE b[i - 1]
    BY DEF NextKey
  <2>3. /\ a[i - 1] \in {0, 1} /\ b[i - 1] \in {0, 1}
        /\ a[Top(i)] \in {0, 1} /\ b[Top(i)] \in {0, 1}
    BY <1>2, <2>1 DEF Keys
  <2>4. a[Top(i)] = b[Top(i)] /\ NextKey(a)[i] = NextKey(b)[i]
    BY <1>1, <1>3
  <2> QED BY <2>2, <2>3, <2>4 DEF Flip
<1>5. \A i \in KeyBits : a[i] = b[i]
  <2> TAKE i \in KeyBits
  <2>1. CASE i = Top(i)
    BY <1>3, <2>1
  <2>2. CASE i # Top(i)
    <3>1. i + 1 \in KeyBits /\ i + 1 # Low(i + 1) /\ (i + 1) - 1 = i
      BY <2>2
    <3> QED BY <1>4, <3>1
  <2> QED BY <2>1, <2>2
<1> QED BY <1>5 DEF Keys

\* A set of numbers has a smallest one.
LEMMA Smallest ==
  ASSUME NEW T, T \subseteq Nat, T # {}
  PROVE  \E x \in T : \A y \in T : x <= y
<1>1. PICK x \in T : \A y \in T : ~(<<y, x>> \in OpToRel(<, Nat))
  BY NatLessThanWellFounded, WFMin
<1>2. \A y \in T : ~(y < x)
  BY <1>1 DEF OpToRel
<1> QED BY <1>2

\* What SeedComesOnce is for: if the seed does not come back, no key comes
\* twice.  Else take the first key that does; undoing a shift gives an earlier.
THEOREM KeysDiffer ==
  ASSUME NEW n \in Nat, NEW table \in [0 .. n -> Keys],
         \A i \in 1 .. n : table[i] = NextKey(table[i - 1]),
         \A i \in 1 .. n : table[i] # table[0]
  PROVE  \A i, j \in 0 .. n : i # j => table[i] # table[j]
<1> DEFINE Twice(i) == \E j \in 0 .. n : i < j /\ table[i] = table[j]
           Early == {i \in 0 .. n : Twice(i)}
<1>1. Early = {}
  <2> SUFFICES ASSUME Early # {} PROVE FALSE
    OBVIOUS
  <2>1. PICK a \in Early : \A i \in Early : a <= i
    <3>1. Early \subseteq Nat
      OBVIOUS
    <3> HIDE DEF Early
    <3> QED BY <3>1, Smallest
  <2>2. PICK b \in 0 .. n : a < b /\ table[a] = table[b]
    OBVIOUS
  <2>3. a # 0
    BY <2>2
  <2>4. NextKey(table[a - 1]) = NextKey(table[b - 1])
    BY <2>2, <2>3
  <2>5. a - 1 \in 0 .. n /\ b - 1 \in 0 .. n /\ a - 1 < b - 1
    BY <2>2, <2>3
  <2>6. table[a - 1] = table[b - 1]
    BY <2>4, <2>5, NextKeyInjective
  <2>7. a - 1 \in Early
    BY <2>5, <2>6
  <2> QED BY <2>1, <2>7
<1>2. \A i \in 0 .. n : ~Twice(i)
  BY <1>1
<1> QED BY <1>2
-----------------------------------------------------------------------------
(* The layout of a packet.                                                   *)

\* the offset of each field
At == <<0, 6, 7, 8, 20, 22, 23, 31, 47, 63, 79>>

LEMMA FieldSizes ==
  /\ FieldNumbers = 1 .. 11
  /\ Layout[1].count = 6  /\ Layout[1].size = 1
  /\ Layout[2].count = 1  /\ Layout[2].size = 1
  /\ Layout[3].count = 1  /\ Layout[3].size = 1
  /\ Layout[4].count = 3  /\ Layout[4].size = 4
  /\ Layout[5].count = 1  /\ Layout[5].size = 2
  /\ Layout[6].count = 1  /\ Layout[6].size = 1
  /\ Layout[7].count = 1  /\ Layout[7].size = 8
  /\ Layout[8].count = 4  /\ Layout[8].size = 4
  /\ Layout[9].count = 4  /\ Layout[9].size = 4
  /\ Layout[10].count = 4 /\ Layout[10].size = 4
  /\ Layout[11].count = 67 /\ Layout[11].size = 1
BY DEF Layout, FieldNumbers

LEMMA FieldExtents ==
  /\ Extent(1) = 6 /\ Extent(2) = 1 /\ Extent(3) = 1 /\ Extent(4) = 12
  /\ Extent(5) = 2 /\ Extent(6) = 1 /\ Extent(7) = 8 /\ Extent(8) = 16
  /\ Extent(9) = 16 /\ Extent(10) = 16 /\ Extent(11) = 67
BY FieldSizes DEF Extent

\* Start is what its definition says.
LEMMA StartAt == Start = [k \in FieldNumbers |-> At[k]]
<1> DEFINE Of(f) == [k \in FieldNumbers |->
                       IF k = 1 THEN 0 ELSE f[k - 1] + Extent(k - 1)]
           at == [k \in FieldNumbers |-> At[k]]
<1>1. at = Of(at)
  BY FieldSizes, FieldExtents DEF At
<1>2. Start = CHOOSE f : f = Of(f)
  BY DEF Start
<1>3. Start = Of(Start)
  <2> HIDE DEF at, Of
  <2> QED BY <1>1, <1>2
<1>4. /\ Start[1] = 0 /\ Start[2] = 6 /\ Start[3] = 7 /\ Start[4] = 8
      /\ Start[5] = 20 /\ Start[6] = 22 /\ Start[7] = 23 /\ Start[8] = 31
      /\ Start[9] = 47 /\ Start[10] = 63 /\ Start[11] = 79
  BY <1>3, FieldSizes, FieldExtents
<1> QED BY <1>3, <1>4, FieldSizes DEF At

\* A byte belongs to one field, and every byte of a field is in the buffer.
LEMMA FieldOf ==
  ASSUME NEW k \in FieldNumbers, NEW d \in 0 .. Extent(k) - 1
  PROVE  /\ Start[k] + d \in 0 .. PayloadSize - 1
         /\ k = CHOOSE n \in FieldNumbers :
                  (Start[k] + d) - Start[n] \in 0 .. Extent(n) - 1
<1> DEFINE o == Start[k] + d
           Has(n) == o - Start[n] \in 0 .. Extent(n) - 1
<1>1. /\ Start[1] = 0 /\ Start[2] = 6 /\ Start[3] = 7 /\ Start[4] = 8
      /\ Start[5] = 20 /\ Start[6] = 22 /\ Start[7] = 23 /\ Start[8] = 31
      /\ Start[9] = 47 /\ Start[10] = 63 /\ Start[11] = 79
  BY StartAt, FieldSizes DEF At
<1>2. k \in 1 .. 11
  BY FieldSizes
<1>3. Has(k) /\ o \in 0 .. PayloadSize - 1
  BY <1>1, <1>2, FieldExtents DEF PayloadSize
<1>4. ASSUME NEW n \in FieldNumbers, Has(n)
      PROVE  n = k
  <2>1. n \in 1 .. 11
    BY FieldSizes
  <2> QED BY <1>1, <1>2, <1>4, <2>1, FieldExtents
<1>5. k = CHOOSE n \in FieldNumbers : Has(n)
  <2> HIDE DEF Has
  <2> QED BY <1>3, <1>4
<1> QED BY <1>3, <1>5

\* What serialize_payload writes at each byte of a field.
LEMMA ByteOf ==
  ASSUME NEW packet, NEW k \in FieldNumbers, NEW d \in 0 .. Extent(k) - 1
  PROVE  Serialize(packet)[Start[k] + d] =
           WriteByte(packet[Layout[k].name][d \div Layout[k].size],
                     Layout[k].size, d % Layout[k].size)
<1>1. Start[k] \in Int
  BY StartAt, FieldSizes DEF At
<1>2. (Start[k] + d) - Start[k] = d
  BY <1>1, FieldSizes, FieldExtents
<1> QED BY <1>2, FieldOf DEF Serialize

\* A field that two packets agree in is written alike.
LEMMA SameField ==
  ASSUME NEW p, NEW q, NEW k \in FieldNumbers, NEW d \in 0 .. Extent(k) - 1,
         NEW name, Layout[k].name = name, p[name] = q[name]
  PROVE  Serialize(p)[Start[k] + d] = Serialize(q)[Start[k] + d]
BY ByteOf

-----------------------------------------------------------------------------
(* Numbers of bytes.                                                         *)

LEMMA ShiftedBytes ==
  ASSUME NEW v \in Nat
  PROVE  /\ Shifted(v)[0] = v
         /\ \A n \in 1 .. 8 : Shifted(v)[n] = Shifted(v)[n - 1] \div 256
         /\ \A n \in 0 .. 8 : Shifted(v)[n] \in Nat
<1> DEFINE Of(f) == [n \in 0 .. 8 |-> IF n = 0 THEN v ELSE f[n - 1] \div 256]
           s1 == v \div 256
           s2 == s1 \div 256
           s3 == s2 \div 256
           s4 == s3 \div 256
           s5 == s4 \div 256
           s6 == s5 \div 256
           s7 == s6 \div 256
           s8 == s7 \div 256
           all == <<s1, s2, s3, s4, s5, s6, s7, s8>>
           g == [n \in 0 .. 8 |-> IF n = 0 THEN v ELSE all[n]]
<1>1. g = Of(g)
  <2>1. ASSUME NEW n \in 1 .. 8 PROVE g[n] = g[n - 1] \div 256
    OBVIOUS
  <2> QED BY <2>1
<1>2. Shifted(v) = CHOOSE f : f = Of(f)
  BY DEF Shifted
<1> HIDE DEF g
<1>3. Shifted(v) = Of(Shifted(v))
  <2> HIDE DEF Of
  <2> QED BY <1>1, <1>2
<1>4. Shifted(v)[0] = v
  BY <1>3
<1>5. \A n \in 1 .. 8 : Shifted(v)[n] = Shifted(v)[n - 1] \div 256
  BY <1>3
<1>6. \A n \in 0 .. 8 : Shifted(v)[n] \in Nat
  <2>1. ASSUME NEW n \in 1 .. 8, Shifted(v)[n - 1] \in Nat
        PROVE  Shifted(v)[n] \in Nat
    <3>1. \A x \in Nat : x \div 256 \in Nat
      OBVIOUS
    <3> QED BY <1>5, <2>1, <3>1
  <2>2. Shifted(v)[1] \in Nat
    BY <1>4, <2>1
  <2>3. Shifted(v)[2] \in Nat
    BY <2>1, <2>2
  <2>4. Shifted(v)[3] \in Nat
    BY <2>1, <2>3
  <2>5. Shifted(v)[4] \in Nat
    BY <2>1, <2>4
  <2>6. Shifted(v)[5] \in Nat
    BY <2>1, <2>5
  <2>7. Shifted(v)[6] \in Nat
    BY <2>1, <2>6
  <2>8. Shifted(v)[7] \in Nat
    BY <2>1, <2>7
  <2>9. Shifted(v)[8] \in Nat
    BY <2>1, <2>8
  <2> QED
    BY <1>4, <2>2, <2>3, <2>4, <2>5, <2>6, <2>7, <2>8, <2>9
<1> QED BY <1>4, <1>5, <1>6

\* A number below one that fits in four bytes fits.
LEMMA SmallerFits ==
  ASSUME NEW x \in Nat, NEW y \in Nat, x <= y, FitsIn(y, 4)
  PROVE  FitsIn(x, 4)
<1>1. \A n \in 0 .. 4 : Shifted(x)[n] \in Nat /\ Shifted(y)[n] \in Nat
  BY ShiftedBytes
<1>2. Shifted(x)[0] <= Shifted(y)[0]
  BY ShiftedBytes
<1>3. ASSUME NEW n \in 1 .. 4, Shifted(x)[n - 1] <= Shifted(y)[n - 1]
      PROVE  Shifted(x)[n] <= Shifted(y)[n]
  <2>1. /\ Shifted(x)[n] = Shifted(x)[n - 1] \div 256
        /\ Shifted(y)[n] = Shifted(y)[n - 1] \div 256
    BY ShiftedBytes
  <2> QED BY <1>1, <1>3, <2>1
<1>4. Shifted(x)[4] <= Shifted(y)[4]
  <2>1. Shifted(x)[1] <= Shifted(y)[1]
    BY <1>2, <1>3
  <2>2. Shifted(x)[2] <= Shifted(y)[2]
    BY <2>1, <1>3
  <2>3. Shifted(x)[3] <= Shifted(y)[3]
    BY <2>2, <1>3
  <2> QED BY <2>3, <1>3
<1> QED BY <1>1, <1>4 DEF FitsIn

-----------------------------------------------------------------------------
(* What is known of a packet.                                                *)

PacketOf(type, fd, sid) ==
  /\ type \in {Requests, Heartbeats}
  /\ fd \in Fds /\ sid \in Nat /\ FitsIn(sid, 4)
  /\ last = SetPayload(type, fd, sid)
LastInv == last # NoPacket => \E type, fd, sid : PacketOf(type, fd, sid)

\* The numbers of flows fit into the four bytes they have.
LEMMA SIDFits ==
  ASSUME TypeOK, NEW fd \in Fds, NEW sid \in SIDs(fd)
  PROVE  sid \in Nat /\ FitsIn(sid, 4)
<1>1. CASE fd \in Places
  <2>1. sid \in Nat /\ sid <= SIDEnd
    BY <1>1, SIDAssumption DEF SIDs, TypeOK
  <2> QED BY <2>1, SmallerFits, NumbersAssumption, SIDAssumption
<1>2. CASE fd \notin Places
  BY <1>2, NumbersAssumption, StraysAssumption DEF SIDs
<1> QED BY <1>1, <1>2

LEMMA PacketsAreSet == Spec => []LastInv
<1>1. Init => LastInv
  BY DEF Init, LastInv
<1>2. TypeOK /\ LastInv /\ [Next]_vars => LastInv'
  <2> SUFFICES ASSUME TypeOK, LastInv, [Next]_vars
               PROVE  LastInv'
    OBVIOUS
  <2>1. ASSUME NEW fd \in Fds, Make(fd)
        PROVE  LastInv'
    <3>1. PICK type \in {Requests, Heartbeats}, sid \in SIDs(fd) :
            last' = SetPayload(type, fd, sid)
      BY <2>1 DEF Make
    <3>2. PacketOf(type, fd, sid)'
      BY <3>1, SIDFits DEF PacketOf
    <3> QED BY <3>2 DEF LastInv
  <2>2. ASSUME UNCHANGED last
        PROVE  LastInv'
    BY <2>2 DEF LastInv, PacketOf
  <2> QED BY <2>1, <2>2 DEF Next, Swap, Fill, Reload, vars
<1> QED BY <1>1, <1>2, Typing, PTL DEF Spec

-----------------------------------------------------------------------------
(* The key of a packet.                                                      *)

\* The key is found from the bytes of userID and reserve.
KeyBytes == 8 .. 21

LEMMA KeyFromBytes ==
  ASSUME NEW a, NEW b, \A o \in KeyBytes : a[o] = b[o]
  PROVE  KeyOffset(a) = KeyOffset(b)
<1>1. ASSUME NEW k \in 0 .. SliceBits - 1, NEW slice \in Ends \X Slices
      PROVE  BitBefore(a, slice[1], SliceBits * slice[2] + k) =
             BitBefore(b, slice[1], SliceBits * slice[2] + k)
  <2>1. slice[1] \in {14, 21} /\ slice[2] \in {0, 1, 2, 3} /\ k \in 0 .. 13
    BY DEF Ends, Slices, SliceBits, ZeroFillOffset
  <2>2. slice[1] - (SliceBits * slice[2] + k) \div 8 \in KeyBytes
    BY <2>1 DEF SliceBits, KeyBytes
  <2> QED BY <2>2 DEF BitBefore
<1>2. ASSUME NEW k \in 0 .. SliceBits - 1
      PROVE  OffsetBit(a, k) = OffsetBit(b, k)
  BY <1>1, <1>2 DEF OffsetBit
<1> QED BY <1>2 DEF KeyOffset

\* Packets that agree in userID and reserve have the same key.
LEMMA KeyFromFields ==
  ASSUME NEW p, NEW q, p["userID"] = q["userID"], p["reserve"] = q["reserve"]
  PROVE  KeyOffset(Serialize(p)) = KeyOffset(Serialize(q))
<1>1. /\ Start[4] = 8 /\ Start[5] = 20
      /\ 4 \in FieldNumbers /\ 5 \in FieldNumbers
  BY StartAt, FieldSizes DEF At
<1>2. Layout[4].name = "userID" /\ Layout[5].name = "reserve"
  BY DEF Layout
<1>3. ASSUME NEW o \in 8 .. 19
      PROVE  Serialize(p)[o] = Serialize(q)[o]
  <2>1. o - 8 \in 0 .. Extent(4) - 1 /\ Start[4] + (o - 8) = o
    BY <1>1, FieldExtents
  <2>2. Serialize(p)[Start[4] + (o - 8)] = Serialize(q)[Start[4] + (o - 8)]
    BY <1>1, <1>2, <2>1, SameField
  <2> QED BY <2>1, <2>2
<1>4. ASSUME NEW o \in 20 .. 21
      PROVE  Serialize(p)[o] = Serialize(q)[o]
  <2>1. o - 20 \in 0 .. Extent(5) - 1 /\ Start[5] + (o - 20) = o
    BY <1>1, FieldExtents
  <2>2. Serialize(p)[Start[5] + (o - 20)] = Serialize(q)[Start[5] + (o - 20)]
    BY <1>1, <1>2, <2>1, SameField
  <2> QED BY <2>1, <2>2
<1>5. \A o \in KeyBytes : o \in 8 .. 19 \/ o \in 20 .. 21
  BY DEF KeyBytes
<1> QED BY <1>3, <1>4, <1>5, KeyFromBytes

\* The key of a packet is found before it is deciphered, and is the same for a
\* request, a heartbeat and the answer.
THEOREM KeysAreFound == Spec => []KeyIsFlows
<1>1. LastInv => KeyIsFlows
  <2> SUFFICES ASSUME NEW type, NEW fd, NEW sid, PacketOf(type, fd, sid)
               PROVE  KeyIsFlows
    BY DEF LastInv, KeyIsFlows
  <2>1. KeyOffset(InClear(Serialize(last))) = KeyOffset(Serialize(last))
    <3>1. \A o \in KeyBytes : InClear(Serialize(last))[o] = Serialize(last)[o]
      BY DEF InClear, KeyBytes, PayloadSize, PayloadOffset
    <3> QED BY <3>1, KeyFromBytes
  <2>2. KeyOffset(Serialize(Answered(last))) = KeyOffset(Serialize(last))
    <3>1. /\ Answered(last)["userID"] = last["userID"]
          /\ Answered(last)["reserve"] = last["reserve"]
      BY DEF PacketOf, SetPayload, Answered
    <3> QED BY <3>1, KeyFromFields
  <2>3. ASSUME NEW other \in {Requests, Heartbeats}
        PROVE  KeyOffset(Serialize([last EXCEPT !.type = Only(other)])) =
               KeyOffset(Serialize(last))
    <3>1. /\ [last EXCEPT !.type = Only(other)]["userID"] = last["userID"]
          /\ [last EXCEPT !.type = Only(other)]["reserve"] = last["reserve"]
      BY DEF PacketOf, SetPayload
    <3> QED BY <3>1, KeyFromFields
  <2> QED BY <2>1, <2>2, <2>3 DEF KeyIsFlows
<1> QED BY <1>1, PacketsAreSet, Typing, PTL

-----------------------------------------------------------------------------
(* Reading back what was written.                                            *)

\* deserialize_u8 ... deserialize_u64 undo serialize_u8 ... serialize_u64.
LEMMA NumberRead ==
  ASSUME NEW bytes, NEW at \in Nat, NEW size \in {1, 2, 4, 8}, NEW v \in Nat,
         FitsIn(v, size),
         \A j \in 0 .. size - 1 : bytes[at + j] = WriteByte(v, size, j)
  PROVE  ReadNumber(bytes, at, size) = v
<1> DEFINE sh == Shifted(v)
           Of(f) == [n \in 0 .. size |->
                       IF n = 0 THEN 0
                       ELSE f[n - 1] * 256 + bytes[at + n - 1]]
           read == CHOOSE f : f = Of(f)
           Back(n) == n > size \/ read[n] = sh[size - n]
<1>1. ASSUME NEW n \in 1 .. size
      PROVE  sh[size - n] = sh[size - n + 1] * 256 + bytes[at + n - 1]
  <2>0. /\ size - n + 1 \in 1 .. 8 /\ (size - n + 1) - 1 = size - n
        /\ size - n \in 0 .. 8
    OBVIOUS
  <2>1. sh[size - n + 1] = sh[size - n] \div 256
    BY <2>0, ShiftedBytes
  <2>2. bytes[at + n - 1] = sh[size - n] % 256
    <3>1. bytes[at + (n - 1)] = WriteByte(v, size, n - 1)
      OBVIOUS
    <3>2. at + (n - 1) = at + n - 1 /\ size - 1 - (n - 1) = size - n
      OBVIOUS
    <3> QED BY <3>1, <3>2 DEF WriteByte
  <2>3. sh[size - n] \in Nat
    BY <2>0, ShiftedBytes
  <2> HIDE DEF sh
  <2>4. \A x \in Nat : x = (x \div 256) * 256 + (x % 256)
    OBVIOUS
  <2> QED BY <2>1, <2>2, <2>3, <2>4
<1>2. sh[size] = 0 /\ sh[0] = v
  BY ShiftedBytes DEF FitsIn
<1> HIDE DEF sh
<1>3. read = Of(read)
  <2> DEFINE g == [n \in 0 .. size |-> sh[size - n]]
  <2>1. g = Of(g)
    <3>1. ASSUME NEW n \in 1 .. size
          PROVE  g[n] = g[n - 1] * 256 + bytes[at + n - 1]
      <4>1. size - (n - 1) = size - n + 1 /\ n \in 0 .. size
            /\ n - 1 \in 0 .. size
        OBVIOUS
      <4>2. g[n] = sh[size - n] /\ g[n - 1] = sh[size - n + 1]
        BY <4>1
      <4> QED BY <1>1, <4>2
    <3>2. g[0] = 0
      BY <1>2
    <3>3. \A n \in 0 .. size : n = 0 \/ n \in 1 .. size
      OBVIOUS
    <3> HIDE DEF sh
    <3>4. g = [n \in 0 .. size |-> g[n]]
      OBVIOUS
    <3> HIDE DEF g
    <3> QED BY <3>1, <3>2, <3>3, <3>4
  <2> HIDE DEF g, Of
  <2> QED BY <2>1
<1> HIDE DEF read
<1>4. Back(0)
  BY <1>2, <1>3
<1>5. ASSUME NEW n \in 1 .. 8, Back(n - 1)
      PROVE  Back(n)
  <2> SUFFICES ASSUME n \in 1 .. size
               PROVE  read[n] = sh[size - n]
    OBVIOUS
  <2>1. read[n] = read[n - 1] * 256 + bytes[at + n - 1]
    BY <1>3
  <2>2. read[n - 1] = sh[size - n + 1]
    <3>1. size - (n - 1) = size - n + 1
      OBVIOUS
    <3> QED BY <1>5, <3>1
  <2> QED BY <1>1, <2>1, <2>2
<1> HIDE DEF Back
<1>6. Back(1)
  BY <1>4, <1>5
<1>7. Back(2)
  BY <1>5, <1>6
<1>8. Back(3)
  BY <1>5, <1>7
<1>9. Back(4)
  BY <1>5, <1>8
<1>10. Back(5)
  BY <1>5, <1>9
<1>11. Back(6)
  BY <1>5, <1>10
<1>12. Back(7)
  BY <1>5, <1>11
<1>13. Back(8)
  BY <1>5, <1>12
<1>14. read[size] = v
  BY <1>2, <1>6, <1>7, <1>9, <1>13 DEF Back
<1>15. ReadNumber(bytes, at, size) = read[size]
  BY DEF ReadNumber, read
<1> QED BY <1>14, <1>15

\* What deserialize_payload finds in an element of a field.
LEMMA ElementRead ==
  ASSUME NEW p, NEW k \in FieldNumbers, NEW i \in 0 .. Layout[k].count - 1,
         NEW v \in Nat, v = p[Layout[k].name][i], FitsIn(v, Layout[k].size)
  PROVE  ReadNumber(Serialize(p), Start[k] + i * Layout[k].size,
                    Layout[k].size) = v
<1> DEFINE size == Layout[k].size
           at   == Start[k] + i * size
<1>1. size \in {1, 2, 4, 8} /\ Layout[k].count \in Nat
  BY FieldSizes
<1>2. Start[k] \in Nat
  BY StartAt, FieldSizes DEF At
<1>3. Extent(k) = Layout[k].count * size
  BY DEF Extent
<1> HIDE DEF size
<1>4. at \in Nat
  BY <1>1, <1>2
<1>5. ASSUME NEW j \in 0 .. size - 1
      PROVE  Serialize(p)[at + j] = WriteByte(v, size, j)
  <2> DEFINE d == i * size + j
  <2>1. d \in 0 .. Extent(k) - 1 /\ d \div size = i /\ d % size = j
    <3>1. CASE size = 1
      BY <1>1, <1>3, <3>1
    <3>2. CASE size = 2
      BY <1>1, <1>3, <3>2
    <3>3. CASE size = 4
      BY <1>1, <1>3, <3>3
    <3>4. CASE size = 8
      BY <1>1, <1>3, <3>4
    <3> QED BY <1>1, <3>1, <3>2, <3>3, <3>4
  <2>2. at + j = Start[k] + d
    BY <1>1, <1>2
  <2> HIDE DEF d
  <2>3. Serialize(p)[Start[k] + d] =
          WriteByte(p[Layout[k].name][d \div size], size, d % size)
    BY <2>1, ByteOf DEF size
  <2> QED BY <2>1, <2>2, <2>3
<1>6. ReadNumber(Serialize(p), at, size) = v
  BY <1>1, <1>4, <1>5, NumberRead DEF size
<1> QED BY <1>6 DEF size

\* A packet whose elements fit into the bytes they have.
WellFormed(p) ==
  /\ p = [name \in FieldNames |-> p[name]]
  /\ \A k \in FieldNumbers :
       LET field == p[Layout[k].name] IN
       /\ field = [i \in 0 .. Layout[k].count - 1 |-> field[i]]
       /\ \A i \in 0 .. Layout[k].count - 1 :
            field[i] \in Nat /\ FitsIn(field[i], Layout[k].size)

LEMMA FieldNamed ==
  /\ Layout[1].name = "zero"        /\ Layout[2].name = "direction"
  /\ Layout[3].name = "type"        /\ Layout[4].name = "userID"
  /\ Layout[5].name = "reserve"     /\ Layout[6].name = "type_affirm"
  /\ Layout[7].name = "family"      /\ Layout[8].name = "srcDeviceID"
  /\ Layout[9].name = "dstDeviceID" /\ Layout[10].name = "operation"
  /\ Layout[11].name = "state"
BY DEF Layout

\* deserialize_payload undoes serialize_payload.
THEOREM PacketRoundTrip ==
  ASSUME NEW p, WellFormed(p)
  PROVE  Deserialize(Serialize(p)) = p
<1>1. ASSUME NEW k \in FieldNumbers
      PROVE  Deserialize(Serialize(p))[Layout[k].name] = p[Layout[k].name]
  <2> DEFINE name == Layout[k].name
  <2>1. name \in FieldNames
    BY DEF FieldNames
  <2>2. k = CHOOSE n \in FieldNumbers : Layout[n].name = name
    <3>1. ASSUME NEW n \in FieldNumbers, Layout[n].name = name
          PROVE  n = k
      BY <3>1, FieldSizes, FieldNamed
    <3> QED BY <3>1
  <2>3. Deserialize(Serialize(p))[name] =
          [i \in 0 .. Layout[k].count - 1 |->
             ReadNumber(Serialize(p), Start[k] + i * Layout[k].size,
                        Layout[k].size)]
    <3> HIDE DEF name
    <3> QED BY <2>1, <2>2 DEF Deserialize
  <2>4. ASSUME NEW i \in 0 .. Layout[k].count - 1
        PROVE  ReadNumber(Serialize(p), Start[k] + i * Layout[k].size,
                          Layout[k].size) = p[name][i]
    <3>1. p[name][i] \in Nat /\ FitsIn(p[name][i], Layout[k].size)
      BY DEF WellFormed
    <3> QED BY <3>1, ElementRead
  <2>5. p[name] = [i \in 0 .. Layout[k].count - 1 |-> p[name][i]]
    BY DEF WellFormed
  <2> HIDE DEF name
  <2>6. Deserialize(Serialize(p))[name] = p[name]
    BY <2>3, <2>4, <2>5
  <2> QED BY <2>6 DEF name
<1>2. ASSUME NEW name \in FieldNames
      PROVE  Deserialize(Serialize(p))[name] = p[name]
  BY <1>1 DEF FieldNames
<1>3. Deserialize(Serialize(p)) =
        [name \in FieldNames |-> Deserialize(Serialize(p))[name]]
  BY DEF Deserialize
<1> QED BY <1>2, <1>3 DEF WellFormed

\* A byte fits wherever it is put.
LEMMA ByteFits ==
  ASSUME NEW v \in 0 .. 255, NEW size \in {1, 2, 4, 8}
  PROVE  v \in Nat /\ FitsIn(v, size)
<1>1. v \in Nat /\ v \div 256 = 0
  OBVIOUS
<1>2. Shifted(v)[1] = 0
  BY <1>1, ShiftedBytes
<1>3. ASSUME NEW n \in 2 .. 8, Shifted(v)[n - 1] = 0
      PROVE  Shifted(v)[n] = 0
  <2>1. Shifted(v)[n] = Shifted(v)[n - 1] \div 256
    BY <1>1, ShiftedBytes
  <2> QED BY <1>3, <2>1
<1>4. Shifted(v)[2] = 0
  BY <1>2, <1>3
<1>5. Shifted(v)[3] = 0
  BY <1>3, <1>4
<1>6. Shifted(v)[4] = 0
  BY <1>3, <1>5
<1>7. Shifted(v)[5] = 0
  BY <1>3, <1>6
<1>8. Shifted(v)[6] = 0
  BY <1>3, <1>7
<1>9. Shifted(v)[7] = 0
  BY <1>3, <1>8
<1>10. Shifted(v)[8] = 0
  BY <1>3, <1>9
<1> QED BY <1>1, <1>2, <1>4, <1>6, <1>10 DEF FitsIn

\* setPayload sets no field to more than fits.
LEMMA SetIsWellFormed ==
  ASSUME NEW type \in 0 .. 255, NEW direction \in 0 .. 255,
         NEW fd \in Nat, FitsIn(fd, 4), NEW sid \in Nat, FitsIn(sid, 4)
  PROVE  WellFormed([SetPayload(type, fd, sid) EXCEPT
                       !.direction = Only(direction)])
<1> DEFINE p == [SetPayload(type, fd, sid) EXCEPT
                   !.direction = Only(direction)]
<1>1. p = [name \in FieldNames |-> p[name]]
  <2>1. FieldNames = {"zero", "direction", "type", "userID", "reserve",
                      "type_affirm", "family", "srcDeviceID", "dstDeviceID",
                      "operation", "state"}
    <3>1. FieldNames = {Layout[k].name : k \in 1 .. 11}
      BY FieldSizes DEF FieldNames
    <3> QED BY <3>1, FieldNamed
  <2> QED BY <2>1 DEF SetPayload
<1>2. /\ p["zero"] = [i \in 0 .. 5 |-> 0]
      /\ p["direction"] = [i \in 0 .. 0 |-> direction]
      /\ p["type"] = [i \in 0 .. 0 |-> type]
      /\ p["userID"] = [i \in 0 .. 2 |-> IF i = 1 THEN sid ELSE fd]
      /\ p["reserve"] = [i \in 0 .. 0 |-> 0]
      /\ p["type_affirm"] = [i \in 0 .. 0 |-> type]
      /\ p["family"] = [i \in 0 .. 0 |-> 0]
      /\ p["srcDeviceID"] = [i \in 0 .. 3 |-> IF i = 0 THEN sid ELSE 0]
      /\ p["dstDeviceID"] = [i \in 0 .. 3 |-> IF i = 0 THEN fd ELSE 0]
      /\ p["operation"] = [i \in 0 .. 3 |-> 0]
      /\ p["state"] = [i \in 0 .. 66 |-> 97]
  BY DEF SetPayload, Only, FirstThen
<1> DEFINE Good(field, count, size) ==
             /\ field = [i \in 0 .. count - 1 |-> field[i]]
             /\ \A i \in 0 .. count - 1 :
                  \/ field[i] \in 0 .. 255
                  \/ size = 4 /\ field[i] \in {fd, sid}
<1> HIDE DEF p
<1>3. /\ Good(p["zero"], 6, 1) /\ Good(p["direction"], 1, 1)
      /\ Good(p["type"], 1, 1) /\ Good(p["userID"], 3, 4)
  BY <1>2
<1>4. /\ Good(p["reserve"], 1, 2) /\ Good(p["type_affirm"], 1, 1)
      /\ Good(p["family"], 1, 8) /\ Good(p["srcDeviceID"], 4, 4)
  BY <1>2
<1>5. /\ Good(p["dstDeviceID"], 4, 4) /\ Good(p["operation"], 4, 4)
      /\ Good(p["state"], 67, 1)
  BY <1>2
<1>6. ASSUME NEW k \in FieldNumbers
      PROVE  Good(p[Layout[k].name], Layout[k].count, Layout[k].size)
  <2> HIDE DEF Good
  <2>1. k \in 1 .. 11
    BY FieldSizes
  <2> QED BY <1>3, <1>4, <1>5, <2>1, FieldSizes, FieldNamed
<1>7. ASSUME NEW k \in FieldNumbers, NEW i \in 0 .. Layout[k].count - 1
      PROVE  /\ p[Layout[k].name][i] \in Nat
             /\ FitsIn(p[Layout[k].name][i], Layout[k].size)
  <2>1. CASE p[Layout[k].name][i] \in 0 .. 255
    <3>1. Layout[k].size \in {1, 2, 4, 8}
      BY FieldSizes
    <3> QED BY <2>1, <3>1, ByteFits
  <2>2. CASE Layout[k].size = 4 /\ p[Layout[k].name][i] \in {fd, sid}
    BY <2>2
  <2> QED BY <1>6, <2>1, <2>2
<1>8. WellFormed(p)
  BY <1>1, <1>6, <1>7 DEF WellFormed
<1> QED BY <1>8 DEF p

\* The server reads each field of a request, a heartbeat and an answer as it was
\* set, for every descriptor and number of four bytes.
THEOREM FieldsAreRead == Spec => []FieldsRead
<1>1. LastInv => FieldsRead
  <2> SUFFICES ASSUME NEW type, NEW fd, NEW sid, PacketOf(type, fd, sid)
               PROVE  FieldsRead
    BY DEF LastInv, FieldsRead
  <2>1. /\ type \in 0 .. 255 /\ fd \in Nat /\ FitsIn(fd, 4)
        /\ sid \in Nat /\ FitsIn(sid, 4)
    BY FdsAssumption, NumbersAssumption DEF PacketOf, Requests, Heartbeats
  <2>2. WellFormed(Answered(last))
    <3>1. Answered(last) = [SetPayload(type, fd, sid) EXCEPT
                              !.direction = Only(ServerToApp)]
      BY DEF PacketOf, Answered
    <3>2. ServerToApp \in 0 .. 255
      BY DEF ServerToApp
    <3>3. WellFormed([SetPayload(type, fd, sid) EXCEPT
                        !.direction = Only(ServerToApp)])
      BY <2>1, <3>2, SetIsWellFormed
    <3> QED BY <3>1, <3>3
  <2>3. WellFormed(last)
    <3>1. last = [SetPayload(type, fd, sid) EXCEPT
                    !.direction = Only(UserToServer)]
      BY DEF PacketOf, SetPayload
    <3>2. UserToServer \in 0 .. 255
      BY DEF UserToServer
    <3> QED BY <2>1, <3>1, <3>2, SetIsWellFormed
  <2> QED BY <2>2, <2>3, PacketRoundTrip DEF FieldsRead
<1> QED BY <1>1, PacketsAreSet, PTL
=============================================================================

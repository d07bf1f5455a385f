------------------------------ MODULE WireProofs ------------------------------
(***************************************************************************)
(* For every word width, number of blocks, key table and set of bodies: an *)
(* arrival of whole packets is taken for the last of them, and the server  *)
(* reads the body the client meant when both ends have the cipher or none. *)
(***************************************************************************)
EXTENDS Wire, FiniteSetTheorems, SequenceTheorems, TLAPS

-----------------------------------------------------------------------------
(* The cipher loses nothing: what own_encrypt makes of a block             *)
(* own_decrypt turns back into it                                          *)

\* Exclusive or of words is a word, and is undone by a second one.
LEMMA XorWords ==
  ASSUME NEW x \in Words, NEW y \in Words
  PROVE  Xor(x, y) \in Words
BY DEF Xor, Add, Words

LEMMA XorTwice ==
  ASSUME NEW x \in Words, NEW y \in Words
  PROVE  Xor(y, Xor(x, y)) = x /\ Xor(Xor(y, x), y) = x
BY DEF Xor, Add, Words

\* A key word never asks for more than a full rotation (cal_nonzero_bits).
LEMMA OneBitsBound ==
  ASSUME NEW x \in Words
  PROVE  OneBits(x) \in 0 .. Width
<1> DEFINE ones == {i \in Bits : x[i] = 1}
<1>1. IsFiniteSet(Bits) /\ Cardinality(Bits) = Width
  BY FS_Interval, WidthAssumption DEF Bits
<1>2. IsFiniteSet(ones) /\ Cardinality(ones) <= Cardinality(Bits)
  BY <1>1, FS_Subset
<1>3. Cardinality(ones) \in Nat
  BY <1>2, FS_CardinalityType
<1> QED BY <1>1, <1>2, <1>3, WidthAssumption DEF OneBits

\* Shifting and folding is rotating: which bit of x each bit of the result is.
LEMMA RotateLeftBit ==
  ASSUME NEW x \in Words, NEW n \in 0 .. Width, NEW i \in Bits
  PROVE  /\ RotateLeft(x, n) \in Words
         /\ i >= n => RotateLeft(x, n)[i] = x[i - n]
         /\ i < n => RotateLeft(x, n)[i] = x[i - n + Width]
<1> USE WidthAssumption
<1>1. RotateLeft(x, n) \in Words
  BY DEF RotateLeft, Fold, Add, Words
<1>2. i \in DoubleBits /\ i + Width \in DoubleBits
  BY DEF Bits, DoubleBits
<1>3. PICK high \in DoubleBits : high = i + Width
  BY <1>2
<1>4. /\ high - n = i - n + Width
      /\ i \in 0 .. Width - 1
  BY <1>3 DEF Bits
<1>5. RotateLeft(x, n)[i] = Add(ShiftLeft(x, n)[high], ShiftLeft(x, n)[i])
  BY <1>3 DEF RotateLeft, Fold
<1>6. ShiftLeft(x, n)[high] = IF high - n \in Bits THEN x[high - n] ELSE 0
  BY DEF ShiftLeft
<1>7. ShiftLeft(x, n)[i] = IF i - n \in Bits THEN x[i - n] ELSE 0
  BY <1>2 DEF ShiftLeft
<1>8. CASE i >= n
  <2>1. i - n \in Bits /\ high - n \notin Bits
    BY <1>4, <1>8 DEF Bits
  <2>2. x[i - n] \in {0, 1}
    BY <2>1 DEF Words
  <2>3. RotateLeft(x, n)[i] = Add(0, x[i - n])
    BY <1>5, <1>6, <1>7, <2>1
  <2> QED BY <1>1, <1>4, <1>8, <2>2, <2>3 DEF Add
<1>9. CASE i < n
  <2>1. i - n \notin Bits /\ high - n \in Bits
    BY <1>4, <1>9 DEF Bits
  <2>2. x[high - n] \in {0, 1}
    BY <2>1 DEF Words
  <2>3. RotateLeft(x, n)[i] = Add(x[high - n], 0)
    BY <1>5, <1>6, <1>7, <2>1
  <2> QED BY <1>1, <1>4, <1>9, <2>2, <2>3 DEF Add
<1> QED BY <1>1, <1>4, <1>8, <1>9

LEMMA RotateRightBit ==
  ASSUME NEW x \in Words, NEW n \in 0 .. Width, NEW i \in Bits
  PROVE  /\ RotateRight(x, n) \in Words
         /\ i + n < Width => RotateRight(x, n)[i] = x[i + n]
         /\ i + n >= Width => RotateRight(x, n)[i] = x[i + n - Width]
<1> USE WidthAssumption
<1>1. RotateRight(x, n) \in Words
  BY DEF RotateRight, Fold, Add, Words
<1>2. i \in DoubleBits /\ i + Width \in DoubleBits
  BY DEF Bits, DoubleBits
<1>3. i + Width + n - Width = i + n
  BY DEF Bits
<1>4. RotateRight(x, n)[i]
        = Add(IF i + n \in Bits THEN x[i + n] ELSE 0,
              IF i + n - Width \in Bits THEN x[i + n - Width] ELSE 0)
  BY <1>2, <1>3 DEF RotateRight, Fold, ShiftRight
<1>5. CASE i + n < Width
  <2>1. i + n \in Bits /\ i + n - Width \notin Bits
    BY <1>5 DEF Bits
  <2>2. x[i + n] \in {0, 1}
    BY <2>1 DEF Words
  <2> QED BY <1>1, <1>4, <1>5, <2>1, <2>2 DEF Add, Bits
<1>6. CASE i + n >= Width
  <2>1. i + n \notin Bits /\ i + n - Width \in Bits
    BY <1>6 DEF Bits
  <2>2. x[i + n - Width] \in {0, 1}
    BY <2>1 DEF Words
  <2> QED BY <1>1, <1>4, <1>6, <2>1, <2>2 DEF Add, Bits
<1> QED BY <1>1, <1>5, <1>6 DEF Bits

LEMMA RotateBack ==
  ASSUME NEW x \in Words, NEW n \in 0 .. Width
  PROVE  RotateRight(RotateLeft(x, n), n) = x
<1> USE WidthAssumption
<1> DEFINE y == RotateLeft(x, n)
<1>1. y \in Words /\ RotateRight(y, n) \in Words
  <2>1. 0 \in Bits
    BY DEF Bits
  <2> QED BY <2>1, RotateLeftBit, RotateRightBit
<1>2. ASSUME NEW i \in Bits
      PROVE  RotateRight(y, n)[i] = x[i]
  <2>1. CASE i + n < Width
    <3>1. PICK k \in Bits : k = i + n
      BY <2>1 DEF Bits
    <3>2. k >= n /\ k - n = i
      BY <3>1 DEF Bits
    <3>3. RotateRight(y, n)[i] = y[k]
      BY <1>1, <2>1, <3>1, RotateRightBit
    <3>4. y[k] = x[k - n]
      BY <3>2, RotateLeftBit
    <3> QED BY <3>2, <3>3, <3>4
  <2>2. CASE i + n >= Width
    <3>1. PICK k \in Bits : k = i + n - Width
      BY <2>2 DEF Bits
    <3>2. k < n /\ k - n + Width = i
      BY <3>1 DEF Bits
    <3>3. RotateRight(y, n)[i] = y[k]
      BY <1>1, <2>2, <3>1, RotateRightBit
    <3>4. y[k] = x[k - n + Width]
      BY <3>2, RotateLeftBit
    <3> QED BY <3>2, <3>3, <3>4
  <2> QED BY <2>1, <2>2 DEF Bits
<1> QED BY <1>1, <1>2 DEF Words

\* One word: decrypted with the key word and the cipher word before it that
\* it was encrypted with, it is what it was.
LEMMA WordRoundTrip ==
  ASSUME NEW prev \in Words, NEW x \in Words, NEW key \in Words
  PROVE  /\ EncryptWord(prev, x, key) \in Words
         /\ DecryptWord(prev, EncryptWord(prev, x, key), key) = x
<1> DEFINE n == OneBits(key)
           y == Xor(prev, x)
           z == RotateLeft(y, n)
<1>1. n \in 0 .. Width
  BY OneBitsBound
<1>2. y \in Words
  BY XorWords
<1>3. z \in Words
  <2>1. 0 \in Bits
    BY WidthAssumption DEF Bits
  <2> QED BY <1>1, <1>2, <2>1, RotateLeftBit
<1>4. EncryptWord(prev, x, key) = Xor(z, key) /\ Xor(z, key) \in Words
  BY <1>3, XorWords DEF EncryptWord
<1>5. Xor(key, Xor(z, key)) = z
  BY <1>3, XorTwice
<1>6. RotateRight(z, n) = y
  BY <1>1, <1>2, RotateBack
<1>7. Xor(y, prev) = x
  BY XorTwice
<1> HIDE DEF n, y, z
<1> QED BY <1>4, <1>5, <1>6, <1>7 DEF DecryptWord, n

\* own_decrypt undoes own_encrypt, for every word width, block and key.
THEOREM RoundTrip ==
  ASSUME NEW x \in Blocks, NEW key \in Blocks
  PROVE  \A i \in 1 .. 4 : Decrypt(Encrypt(x, key), key)[i] = x[i]
<1> DEFINE c1 == EncryptWord(Initial, x[1], key[1])
           c2 == EncryptWord(c1, x[2], key[2])
           c3 == EncryptWord(c2, x[3], key[3])
           c4 == EncryptWord(c3, x[4], key[4])
<1>1. \A i \in 1 .. 4 : x[i] \in Words /\ key[i] \in Words
  BY DEF Blocks
<1>2. c1 \in Words /\ DecryptWord(Initial, c1, key[1]) = x[1]
  BY <1>1, WordRoundTrip, InitialAssumption
<1>3. c2 \in Words /\ DecryptWord(c1, c2, key[2]) = x[2]
  BY <1>1, <1>2, WordRoundTrip
<1>4. c3 \in Words /\ DecryptWord(c2, c3, key[3]) = x[3]
  BY <1>1, <1>3, WordRoundTrip
<1>5. DecryptWord(c3, c4, key[4]) = x[4]
  BY <1>1, <1>4, WordRoundTrip
<1>6. Encrypt(x, key) = <<c1, c2, c3, c4>>
  BY DEF Encrypt
<1> HIDE DEF c1, c2, c3, c4
<1> QED BY <1>2, <1>3, <1>4, <1>5, <1>6 DEF Decrypt

-----------------------------------------------------------------------------
(* The stream of packets                                                   *)

\* A block of a body and of what lies beyond it is a block.
LEMMA BlockType ==
  ASSUME NEW body \in Bodies, NEW junk \in Junk, NEW g \in 1 .. Groups
  PROVE  Block(body, junk, g) \in Blocks
<1>1. ASSUME NEW w \in 1 .. 4
      PROVE  (IF <<g, w>> \in Body THEN body[<<g, w>>] ELSE junk[<<g, w>>]) \in Words
  <2>1. CASE <<g, w>> \in Body
    BY <2>1 DEF Bodies
  <2>2. CASE <<g, w>> \notin Body
    <3>1. <<g, w>> \in Beyond
      BY <2>2 DEF Body, Positions
    <3> QED BY <2>2, <3>1 DEF Junk
  <2> QED BY <2>1, <2>2
<1> QED BY <1>1 DEF Block, Blocks

\* A word of a block that is deciphered depends on that word and the one before.
LEMMA DecryptPrefix ==
  ASSUME NEW c \in Blocks, NEW d \in Blocks, NEW key \in Blocks,
         NEW i \in 1 .. 4, \A j \in 1 .. i : c[j] = d[j]
  PROVE  Decrypt(c, key)[i] = Decrypt(d, key)[i]
<1>1. CASE i = 1
  BY <1>1 DEF Decrypt
<1>2. CASE i = 2
  <2>1. c[1] = d[1] /\ c[2] = d[2]
    BY <1>2
  <2> QED BY <1>2, <2>1 DEF Decrypt
<1>3. CASE i = 3
  <2>1. c[2] = d[2] /\ c[3] = d[3]
    BY <1>3
  <2> QED BY <1>3, <2>1 DEF Decrypt
<1>4. CASE i = 4
  <2>1. c[3] = d[3] /\ c[4] = d[4]
    BY <1>4
  <2> QED BY <1>4, <2>1 DEF Decrypt
<1> QED BY <1>1, <1>2, <1>3, <1>4

\* What own_encrypt and own_decrypt return is a block.
LEMMA CipherType ==
  ASSUME NEW x \in Blocks, NEW key \in Blocks
  PROVE  Encrypt(x, key) \in Blocks /\ Decrypt(x, key) \in Blocks
<1>1. \A i \in 1 .. 4 : x[i] \in Words /\ key[i] \in Words
  BY DEF Blocks
<1>2. \A prev, y, k \in Words : EncryptWord(prev, y, k) \in Words
  BY WordRoundTrip
<1>3. \A prev, c, k \in Words : DecryptWord(prev, c, k) \in Words
  <2> SUFFICES ASSUME NEW prev \in Words, NEW c \in Words, NEW k \in Words
               PROVE  DecryptWord(prev, c, k) \in Words
    OBVIOUS
  <2>1. Xor(k, c) \in Words /\ OneBits(k) \in 0 .. Width
    BY XorWords, OneBitsBound
  <2>2. 0 \in Bits
    BY WidthAssumption DEF Bits
  <2>3. RotateRight(Xor(k, c), OneBits(k)) \in Words
    BY <2>1, <2>2, RotateRightBit
  <2> QED BY <2>3, XorWords DEF DecryptWord
<1>4. Encrypt(x, key) \in Blocks
  <2> DEFINE c1 == EncryptWord(Initial, x[1], key[1])
             c2 == EncryptWord(c1, x[2], key[2])
             c3 == EncryptWord(c2, x[3], key[3])
             c4 == EncryptWord(c3, x[4], key[4])
  <2>1. c1 \in Words
    BY <1>1, <1>2, InitialAssumption
  <2>2. c2 \in Words
    BY <1>1, <1>2, <2>1
  <2>3. c3 \in Words
    BY <1>1, <1>2, <2>2
  <2>4. c4 \in Words
    BY <1>1, <1>2, <2>3
  <2>5. Encrypt(x, key) = <<c1, c2, c3, c4>>
    BY DEF Encrypt
  <2> HIDE DEF c1, c2, c3, c4
  <2> QED BY <2>1, <2>2, <2>3, <2>4, <2>5 DEF Blocks
<1>5. Decrypt(x, key) \in Blocks
  <2> DEFINE d1 == DecryptWord(Initial, x[1], key[1])
             d2 == DecryptWord(x[1], x[2], key[2])
             d3 == DecryptWord(x[2], x[3], key[3])
             d4 == DecryptWord(x[3], x[4], key[4])
  <2>1. d1 \in Words /\ d2 \in Words /\ d3 \in Words /\ d4 \in Words
    BY <1>1, <1>3, InitialAssumption
  <2>2. Decrypt(x, key) = <<d1, d2, d3, d4>>
    BY DEF Decrypt
  <2> HIDE DEF d1, d2, d3, d4
  <2> QED BY <2>1, <2>2 DEF Blocks
<1> QED BY <1>4, <1>5

\* Cut makes a body of blocks.
LEMMA CutType ==
  ASSUME NEW blocks \in [1 .. Groups -> Blocks]
  PROVE  Cut(blocks) \in Bodies
<1>1. ASSUME NEW p \in Body
      PROVE  blocks[p[1]][p[2]] \in Words
  <2>1. p[1] \in 1 .. Groups /\ p[2] \in 1 .. 4
    BY DEF Body, Positions
  <2> QED BY <2>1 DEF Blocks
<1> QED BY <1>1 DEF Cut, Bodies

LEMMA PayloadType ==
  ASSUME NEW body \in Bodies, NEW key \in Blocks, NEW junk \in Junk
  PROVE  /\ EncryptPayload(body, key, junk) \in Bodies
         /\ DecryptPayload(body, key, junk) \in Bodies
<1>1. [g \in 1 .. Groups |-> Encrypt(Block(body, junk, g), key)] \in [1 .. Groups -> Blocks]
  BY BlockType, CipherType
<1>2. [g \in 1 .. Groups |-> Decrypt(Block(body, junk, g), key)] \in [1 .. Groups -> Blocks]
  BY BlockType, CipherType
<1> QED BY <1>1, <1>2, CutType DEF EncryptPayload, DecryptPayload

\* decrypt_payload undoes encrypt_payload on the body, whatever lies beyond
\* the buffers at either end.
THEOREM CutRoundTrip ==
  ASSUME NEW text \in Bodies, NEW key \in Blocks, NEW j1 \in Junk, NEW j2 \in Junk
  PROVE  DecryptPayload(EncryptPayload(text, key, j1), key, j2) = text
<1> DEFINE code == EncryptPayload(text, key, j1)
           got  == DecryptPayload(code, key, j2)
<1>1. code \in Bodies /\ got \in Bodies
  BY PayloadType
<1>2. ASSUME NEW g \in 1 .. Groups, NEW w \in 1 .. 4, <<g, w>> \in Body
      PROVE  got[<<g, w>>] = text[<<g, w>>]
  <2> DEFINE clear == Block(text, j1, g)
             sent  == Encrypt(clear, key)
             back  == Block(code, j2, g)
  <2>1. clear \in Blocks /\ sent \in Blocks /\ back \in Blocks
    BY <1>1, BlockType, CipherType
  <2>2. ASSUME NEW k \in 1 .. w
        PROVE  back[k] = sent[k]
    <3>1. k \in 1 .. 4 /\ <<g, k>> \in Body
      BY <1>2 DEF Body, Beyond, Positions
    <3>2. back[k] = code[<<g, k>>]
      BY <3>1 DEF Block
    <3>3. code[<<g, k>>] = sent[k]
      BY <3>1 DEF EncryptPayload, Cut
    <3> QED BY <3>2, <3>3
  <2>3. Decrypt(back, key)[w] = Decrypt(sent, key)[w]
    <3> HIDE DEF back, sent
    <3> QED BY <2>1, <2>2, DecryptPrefix
  <2>4. Decrypt(sent, key)[w] = clear[w]
    <3> HIDE DEF clear
    <3> QED BY <2>1, RoundTrip
  <2>5. clear[w] = text[<<g, w>>]
    BY <1>2 DEF Block
  <2>6. got[<<g, w>>] = Decrypt(back, key)[w]
    BY <1>2 DEF DecryptPayload, Cut
  <2> QED BY <2>3, <2>4, <2>5, <2>6
<1>3. ASSUME NEW p \in Body
      PROVE  got[p] = text[p]
  <2>1. PICK g \in 1 .. Groups, w \in 1 .. 4 : p = <<g, w>>
    BY DEF Body, Positions
  <2> HIDE DEF got
  <2> QED BY <1>2, <2>1
<1> HIDE DEF got
<1>4. got = text
  BY <1>1, <1>3 DEF Bodies
<1> QED BY <1>4 DEF got

-----------------------------------------------------------------------------
(* The inductive invariant: what is in the stream was made by the client.  *)

Honest(ciphers, packet) ==
  IF ciphers
  THEN \E junk \in Junk :
         packet.code = EncryptPayload(packet.text, KeyOf[packet.head], junk)
  ELSE packet.code = packet.text

Inv ==
  /\ TypeOK
  /\ \A i \in 1 .. Len(wire) : Honest(build.client, wire[i].packet)

\* What a buffer of units is read as, with or without the cipher.
LEMMA ReadingType ==
  ASSUME TypeOK, NEW b \in [1 .. 2 -> Units \cup {Unset}], NEW junk \in Junk
  PROVE  Reading(b, junk) \in Readings
<1>1. CASE b[1].part = "head" /\ b[2].part = "body"
  <2>1. b[1] \in Units /\ b[2] \in Units
    BY <1>1 DEF Unset
  <2>2. b[1].packet.head \in Heads /\ b[2].packet.code \in Bodies
    BY <2>1 DEF Units, Packets
  <2>3. KeyOf[b[1].packet.head] \in Blocks
    BY <2>2, KeyAssumption
  <2>4. DecryptPayload(b[2].packet.code, KeyOf[b[1].packet.head], junk) \in Bodies
    BY <2>2, <2>3, PayloadType
  <2> QED BY <1>1, <2>2, <2>4 DEF Reading, Readings
<1>2. CASE ~(b[1].part = "head" /\ b[2].part = "body")
  BY <1>2 DEF Reading, Readings
<1> QED BY <1>1, <1>2

\* A write adds units of a packet the client made.
LEMMA WriteKeepsInv ==
  ASSUME Inv, NEW head \in Heads, NEW text \in Texts, Write(head, text)
  PROVE  Inv'
<1>1. PICK junk \in Junk, taken \in 1 .. 2 :
        LET code   == IF build.client
                      THEN EncryptPayload(text, KeyOf[head], junk)
                      ELSE text
            packet == [head |-> head, code |-> code, text |-> text]
            units  == << [part |-> "head", packet |-> packet],
                         [part |-> "body", packet |-> packet] >>
        IN /\ Len(wire) + 2 <= 2 * InFlight
           /\ wire' = wire \o SubSeq(units, 1, taken)
           /\ UNCHANGED <<build, buf, handled>>
  BY DEF Write
<1> DEFINE code   == IF build.client THEN EncryptPayload(text, KeyOf[head], junk)
                                     ELSE text
           packet == [head |-> head, code |-> code, text |-> text]
           units  == << [part |-> "head", packet |-> packet],
                        [part |-> "body", packet |-> packet] >>
           added  == SubSeq(units, 1, taken)
<1>2. code \in Bodies
  <2>1. text \in Bodies /\ KeyOf[head] \in Blocks
    BY TextsAssumption, KeyAssumption
  <2> QED BY <2>1, PayloadType
<1>3. packet \in Packets /\ Honest(build.client, packet)
  <2> HIDE DEF code
  <2>1. packet \in Packets
    BY <1>2 DEF Packets
  <2>2. Honest(build.client, packet)
    BY DEF Honest, code
  <2> QED BY <2>1, <2>2
<1>4. /\ added \in Seq(Units) /\ Len(added) = taken
      /\ \A i \in 1 .. taken : added[i].packet = packet
  <2> HIDE DEF packet
  <2>1. units \in Seq(Units) /\ Len(units) = 2
    BY <1>3 DEF Units
  <2>2. \A i \in 1 .. 2 : units[i].packet = packet
    OBVIOUS
  <2> HIDE DEF units
  <2>3. added \in Seq(Units) /\ Len(added) = taken
    BY <2>1, SubSeqProperties
  <2>4. \A i \in 1 .. taken : added[i] = units[i]
    BY <2>1, SubSeqProperties
  <2> QED BY <2>2, <2>3, <2>4
<1>5. wire' = wire \o added /\ Len(wire) + 2 <= 2 * InFlight
      /\ UNCHANGED <<build, buf, handled>>
  BY <1>1
<1> HIDE DEF added, packet, units, code
<1>6. wire' \in Seq(Units) /\ Len(wire') = Len(wire) + taken
  BY <1>4, <1>5 DEF Inv, TypeOK
<1>7. \A i \in 1 .. Len(wire') : Honest(build.client, wire'[i].packet)
  <2> SUFFICES ASSUME NEW i \in 1 .. Len(wire')
               PROVE  Honest(build.client, wire'[i].packet)
    OBVIOUS
  <2>1. CASE i <= Len(wire)
    <3>1. wire'[i] = wire[i] /\ i \in 1 .. Len(wire)
      BY <1>4, <1>5, <2>1 DEF Inv, TypeOK
    <3> QED BY <3>1 DEF Inv
  <2>2. CASE i > Len(wire)
    <3>1. wire'[i] = added[i - Len(wire)] /\ i - Len(wire) \in 1 .. taken
      BY <1>4, <1>5, <1>6, <2>2 DEF Inv, TypeOK
    <3> QED BY <1>3, <1>4, <3>1
  <2> QED BY <1>6, <2>1, <2>2 DEF Inv, TypeOK
<1>8. Len(wire') <= 2 * InFlight
  BY <1>5, <1>6, InFlightAssumption DEF Inv, TypeOK
<1>9. TypeOK'
  BY <1>5, <1>6, <1>8 DEF Inv, TypeOK
<1> QED BY <1>5, <1>7, <1>9 DEF Inv

\* What a buffer holds after units were read into it: the last two of them if
\* their number is even.
LEMMA ReadIntoType ==
  ASSUME NEW start \in [1 .. 2 -> Units \cup {Unset}],
         NEW units \in Seq(Units), Len(units) > 0
  PROVE  /\ ReadInto(start, units) \in [1 .. 2 -> Units \cup {Unset}]
         /\ Len(units) % 2 = 0 =>
              ReadInto(start, units) = <<units[Len(units) - 1], units[Len(units)]>>
<1> DEFINE n == Len(units)
<1>1. n \in Nat \ {0} /\ units[n] \in Units
  OBVIOUS
<1>2. CASE n % 2 = 0
  <2>1. n - 1 \in 1 .. n
    BY <1>1, <1>2
  <2>2. units[n - 1] \in Units
    BY <2>1
  <2> QED BY <1>1, <1>2, <2>2 DEF ReadInto
<1>3. CASE n % 2 # 0 /\ n = 1
  <2>1. ReadInto(start, units) = <<units[n], start[2]>>
    BY <1>3 DEF ReadInto
  <2> QED BY <1>1, <1>3, <2>1
<1>4. CASE n % 2 # 0 /\ n # 1
  <2>1. ReadInto(start, units) = <<units[n], units[n - 1]>>
    BY <1>4 DEF ReadInto
  <2>2. n - 1 \in 1 .. n
    <3>1. n \in Nat /\ n # 0 /\ n # 1
      BY <1>1, <1>4
    <3> HIDE DEF n
    <3> QED BY <3>1
  <2>3. units[n - 1] \in Units
    BY <2>2
  <2> QED BY <1>1, <1>4, <2>1, <2>3
<1> QED BY <1>2, <1>3, <1>4

\* The units that have arrived, and those left.
LEMMA Taken ==
  ASSUME Inv, NEW n \in 1 .. Len(wire)
  PROVE  /\ SubSeq(wire, 1, n) \in Seq(Units)
         /\ Len(SubSeq(wire, 1, n)) = n
         /\ \A i \in 1 .. n : SubSeq(wire, 1, n)[i] = wire[i]
         /\ SubSeq(wire, n + 1, Len(wire)) \in Seq(Units)
         /\ Len(SubSeq(wire, n + 1, Len(wire))) = Len(wire) - n
         /\ \A i \in 1 .. Len(wire) - n :
              SubSeq(wire, n + 1, Len(wire))[i] = wire[n + i]
<1>1. wire \in Seq(Units) /\ Len(wire) \in Nat
  BY DEF Inv, TypeOK
<1>2. \A i \in 1 .. Len(wire) : wire[i] \in Units
  BY <1>1
<1>3. /\ SubSeq(wire, 1, n) \in Seq(Units)
      /\ Len(SubSeq(wire, 1, n)) = n
      /\ \A i \in 1 .. n : SubSeq(wire, 1, n)[i] = wire[i]
  BY <1>1, <1>2, SubSeqProperties
<1>4. /\ SubSeq(wire, n + 1, Len(wire)) \in Seq(Units)
      /\ Len(SubSeq(wire, n + 1, Len(wire))) = Len(wire) - n
      /\ \A i \in 1 .. Len(wire) - n :
           SubSeq(wire, n + 1, Len(wire))[i] = wire[n + 1 + i - 1]
  <2>1. \A i \in n + 1 .. Len(wire) : wire[i] \in Units
    BY <1>1, <1>2
  <2>2. n + 1 \in Int /\ Len(wire) \in Int
    BY <1>1
  <2>3. /\ SubSeq(wire, n + 1, Len(wire)) \in Seq(Units)
        /\ Len(SubSeq(wire, n + 1, Len(wire)))
             = IF n + 1 <= Len(wire) THEN Len(wire) - (n + 1) + 1 ELSE 0
        /\ \A i \in 1 .. Len(wire) - (n + 1) + 1 :
             SubSeq(wire, n + 1, Len(wire))[i] = wire[n + 1 + i - 1]
    BY <2>1, <2>2, SubSeqProperties
  <2>4. Len(wire) - (n + 1) + 1 = Len(wire) - n
    BY <1>1
  <2> DEFINE rest == SubSeq(wire, n + 1, Len(wire))
  <2>5. Len(rest) = Len(wire) - n
    <3>1. CASE n + 1 <= Len(wire)
      BY <2>3, <2>4, <3>1
    <3>2. CASE ~(n + 1 <= Len(wire))
      BY <1>1, <2>3, <3>2
    <3> QED BY <3>1, <3>2
  <2>6. \A i \in 1 .. Len(wire) - n : rest[i] = wire[n + 1 + i - 1]
    BY <2>3, <2>4
  <2>7. rest \in Seq(Units)
    BY <2>3
  <2> QED BY <2>5, <2>6, <2>7
<1>5. \A i \in 1 .. Len(wire) - n : n + 1 + i - 1 = n + i
  BY <1>1
<1> QED BY <1>3, <1>4, <1>5

LEMMA ArriveKeepsInv ==
  ASSUME Inv, NEW n \in 1 .. Len(wire), Arrive(n)
  PROVE  Inv'
<1>1. PICK junk \in Junk, start \in {buf, <<Unset, Unset>>} :
        /\ wire' = SubSeq(wire, n + 1, Len(wire))
        /\ buf' = ReadInto(start, SubSeq(wire, 1, n))
        /\ handled' = Reading(buf', junk)
        /\ build' = build
  BY DEF Arrive
<1>2. buf' \in [1 .. 2 -> Units \cup {Unset}]
  <2>1. start \in [1 .. 2 -> Units \cup {Unset}]
    BY DEF Inv, TypeOK
  <2> DEFINE arrived == SubSeq(wire, 1, n)
  <2>2. arrived \in Seq(Units) /\ Len(arrived) > 0
    <3>1. arrived \in Seq(Units) /\ Len(arrived) = n
      BY Taken
    <3>2. n > 0
      BY DEF Inv, TypeOK
    <3> QED BY <3>1, <3>2
  <2>3. buf' = ReadInto(start, arrived)
    BY <1>1
  <2> HIDE DEF arrived
  <2> QED BY <2>1, <2>2, <2>3, ReadIntoType
<1>3. handled' \in Readings
  BY <1>1, <1>2, ReadingType DEF Inv
<1>4. wire' \in Seq(Units) /\ Len(wire') = Len(wire) - n /\ Len(wire) \in Nat
  BY <1>1, Taken DEF Inv, TypeOK
<1>5. Len(wire') <= 2 * InFlight
  BY <1>4, InFlightAssumption DEF Inv, TypeOK
<1>6. \A i \in 1 .. Len(wire') : Honest(build.client, wire'[i].packet)
  <2> SUFFICES ASSUME NEW i \in 1 .. Len(wire')
               PROVE  Honest(build.client, wire'[i].packet)
    OBVIOUS
  <2>1. wire'[i] = wire[n + i] /\ n + i \in 1 .. Len(wire)
    BY <1>1, <1>4, Taken
  <2> QED BY <2>1 DEF Inv
<1>7. TypeOK'
  BY <1>1, <1>2, <1>3, <1>4, <1>5 DEF Inv, TypeOK
<1> QED BY <1>1, <1>6, <1>7 DEF Inv

LEMMA InitInv == Init => Inv
<1> SUFFICES ASSUME Init PROVE Inv
  OBVIOUS
<1>1. wire \in Seq(Units) /\ Len(wire) = 0
  BY DEF Init
<1>2. TypeOK
  BY <1>1, InFlightAssumption DEF Init, TypeOK, Readings
<1> QED BY <1>1, <1>2 DEF Inv

LEMMA NextInv == Inv /\ [Next]_vars => Inv'
<1> SUFFICES ASSUME Inv, [Next]_vars PROVE Inv'
  OBVIOUS
<1>1. ASSUME NEW head \in Heads, NEW text \in Texts, Write(head, text)
      PROVE  Inv'
  BY <1>1, WriteKeepsInv
<1>2. ASSUME NEW n \in 1 .. Len(wire), Arrive(n)
      PROVE  Inv'
  BY <1>2, ArriveKeepsInv
<1>3. CASE UNCHANGED vars
  BY <1>3 DEF vars, Inv, TypeOK
<1> QED BY <1>1, <1>2, <1>3 DEF Next

\* What the stream and the buffer hold, and what the server reads, are of the
\* types they should be.
THEOREM Typing == Spec => []TypeOK
<1>1. Inv => TypeOK
  BY DEF Inv
<1> QED BY <1>1, InitInv, NextInv, PTL DEF Spec

\* A whole arrival leaves its last packet in the buffer, and the server reads
\* the header of that packet with the body that was sent with it.
LEMMA WholeReading ==
  ASSUME Inv, [Next]_vars, NEW n \in 1 .. Len(wire), WholeArrival(n)
  PROVE  LET packet == wire[n].packet
         IN  /\ packet \in Packets /\ Honest(build.client, packet)
             /\ \E junk \in Junk :
                  handled' = [ read |-> TRUE, head |-> packet.head,
                               body |-> IF build.server
                                        THEN DecryptPayload(packet.code,
                                               KeyOf[packet.head], junk)
                                        ELSE packet.code ]
<1> DEFINE packet == wire[n].packet
<1>1. /\ wire \in Seq(Units) /\ Len(wire) \in Nat /\ n \in Nat \ {0}
      /\ Len(wire') = Len(wire) - n
  <2>1. Len(SubSeq(wire, n + 1, Len(wire))) = Len(wire) - n
    BY Taken
  <2> QED BY <2>1 DEF WholeArrival, Inv, TypeOK
<1>2. Arrive(n)
  <2>1. ASSUME NEW head \in Heads, NEW text \in Texts, Write(head, text)
        PROVE  FALSE
    <3>1. PICK junk \in Junk, taken \in 1 .. 2 :
            LET code == IF build.client
                        THEN EncryptPayload(text, KeyOf[head], junk) ELSE text
                p    == [head |-> head, code |-> code, text |-> text]
                us   == << [part |-> "head", packet |-> p],
                           [part |-> "body", packet |-> p] >>
            IN wire' = wire \o SubSeq(us, 1, taken)
      BY <2>1 DEF Write
    <3> DEFINE code == IF build.client
                       THEN EncryptPayload(text, KeyOf[head], junk) ELSE text
               p    == [head |-> head, code |-> code, text |-> text]
               us   == << [part |-> "head", packet |-> p],
                          [part |-> "body", packet |-> p] >>
               added == SubSeq(us, 1, taken)
    <3>2. added \in Seq({us[1], us[2]})
      <4>1. \A i \in 1 .. taken : us[i] \in {us[1], us[2]}
        OBVIOUS
      <4> HIDE DEF us
      <4> QED BY <4>1, SubSeqProperties
    <3>3. wire' = wire \o added
      BY <3>1
    <3> HIDE DEF added
    <3>4. Len(wire') = Len(wire) + Len(added) /\ Len(added) \in Nat
      BY <1>1, <3>2, <3>3
    <3> QED BY <1>1, <3>4
  <2>2. ASSUME NEW m \in 1 .. Len(wire), Arrive(m)
        PROVE  Arrive(n)
    <3>1. Len(wire') = Len(wire) - m
      BY <2>2, Taken DEF Arrive
    <3>2. m = n
      BY <1>1, <3>1
    <3> QED BY <2>2, <3>2
  <2>3. CASE UNCHANGED vars
    <3>1. wire' = wire
      BY <2>3 DEF vars
    <3> QED BY <1>1, <3>1
  <2> QED BY <2>1, <2>2, <2>3 DEF Next
<1>3. PICK junk \in Junk, start \in {buf, <<Unset, Unset>>} :
        /\ buf' = ReadInto(start, SubSeq(wire, 1, n))
        /\ handled' = Reading(buf', junk)
  BY <1>2 DEF Arrive
<1>4. /\ n - 1 \in 1 .. n /\ n \in 1 .. n
      /\ wire[n - 1].part = "head" /\ wire[n].part = "body"
      /\ wire[n].packet = wire[n - 1].packet
  <2>1. n % 2 = 0 /\ n # 1
    BY <1>1 DEF WholeArrival
  <2>2. n - 1 \in 1 .. n /\ n \in 1 .. n /\ (n - 1) % 2 = 1
    BY <1>1, <2>1
  <2>3. \A i \in 1 .. n :
          IF i % 2 = 1
          THEN wire[i].part = "head"
          ELSE wire[i].part = "body" /\ wire[i].packet = wire[i - 1].packet
    BY DEF WholeArrival
  <2>4. wire[n].part = "body" /\ wire[n].packet = wire[n - 1].packet
    BY <2>1, <2>2, <2>3
  <2>5. wire[n - 1].part = "head"
    BY <2>2, <2>3
  <2> QED BY <2>2, <2>4, <2>5
<1>5. buf' = <<wire[n - 1], wire[n]>>
  <2> DEFINE arrived == SubSeq(wire, 1, n)
  <2>1. /\ arrived \in Seq(Units) /\ Len(arrived) = n
        /\ arrived[n - 1] = wire[n - 1] /\ arrived[n] = wire[n]
    BY <1>4, Taken
  <2>2. start \in [1 .. 2 -> Units \cup {Unset}]
    BY DEF Inv, TypeOK
  <2>3. buf' = ReadInto(start, arrived)
    BY <1>3
  <2>4. Len(arrived) > 0 /\ Len(arrived) % 2 = 0
    BY <1>1, <2>1 DEF WholeArrival
  <2> HIDE DEF arrived
  <2>5. ReadInto(start, arrived) = <<arrived[Len(arrived) - 1], arrived[Len(arrived)]>>
    BY <2>1, <2>2, <2>4, ReadIntoType
  <2> QED BY <2>1, <2>3, <2>5
<1>6. handled' = [ read |-> TRUE, head |-> packet.head,
                   body |-> IF build.server
                            THEN DecryptPayload(packet.code, KeyOf[packet.head], junk)
                            ELSE packet.code ]
  <2>1. buf'[1] = wire[n - 1] /\ buf'[2] = wire[n]
    BY <1>5
  <2>2. buf'[1].part = "head" /\ buf'[2].part = "body"
    BY <1>4, <2>1
  <2>3. buf'[1].packet = packet /\ buf'[2].packet = packet
    BY <1>4, <2>1
  <2>4. handled' = Reading(buf', junk)
    BY <1>3
  <2> HIDE DEF packet
  <2> QED BY <2>2, <2>3, <2>4 DEF Reading
<1>7. packet \in Packets /\ Honest(build.client, packet)
  <2>1. wire[n] \in Units
    BY <1>1
  <2> QED BY <2>1 DEF Units, Inv
<1> HIDE DEF packet
<1> QED BY <1>6, <1>7 DEF packet

\* An arrival of whole packets is taken for the last of them, whatever came
\* before it and whichever end has the cipher.
THEOREM HeadsThm == Spec => HeadsUnderstood
<1>1. Inv /\ [Next]_vars
        => \A n \in 1 .. Len(wire) :
             WholeArrival(n) =>
               handled'.read /\ handled'.head = wire[n].packet.head
  <2> SUFFICES ASSUME Inv, [Next]_vars, NEW n \in 1 .. Len(wire), WholeArrival(n)
               PROVE  handled'.read /\ handled'.head = wire[n].packet.head
    OBVIOUS
  <2> QED BY WholeReading
<1> QED BY <1>1, InitInv, NextInv, PTL DEF Spec, HeadsUnderstood

\* And its body is read as the client meant it when both ends have the cipher
\* or neither has.
THEOREM BodiesThm == Spec => BodiesUnderstood
<1>1. Inv /\ [Next]_vars
        => \A n \in 1 .. Len(wire) :
             WholeArrival(n) /\ build.client = build.server =>
               handled'.body = wire[n].packet.text
  <2> SUFFICES ASSUME Inv, [Next]_vars, NEW n \in 1 .. Len(wire),
                      WholeArrival(n), build.client = build.server
               PROVE  handled'.body = wire[n].packet.text
    OBVIOUS
  <2> DEFINE packet == wire[n].packet
             key    == KeyOf[packet.head]
  <2>1. /\ packet \in Packets /\ Honest(build.client, packet)
        /\ \E junk \in Junk :
             handled'.body = IF build.server
                             THEN DecryptPayload(packet.code, key, junk)
                             ELSE packet.code
    BY WholeReading
  <2>2. packet.text \in Bodies /\ key \in Blocks
    BY <2>1, TextsAssumption, KeyAssumption DEF Packets
  <2> HIDE DEF packet
  <2>3. CASE build.server
    <3>1. PICK j1 \in Junk : packet.code = EncryptPayload(packet.text, key, j1)
      BY <2>1, <2>3 DEF Honest
    <3>2. PICK j2 \in Junk : handled'.body = DecryptPayload(packet.code, key, j2)
      BY <2>1, <2>3
    <3>3. DecryptPayload(packet.code, key, j2) = packet.text
      BY <2>2, <3>1, CutRoundTrip
    <3> QED BY <3>2, <3>3 DEF packet
  <2>4. CASE ~build.server
    BY <2>1, <2>4 DEF Honest, packet
  <2> QED BY <2>3, <2>4
<1> QED BY <1>1, InitInv, NextInv, PTL DEF Spec, BodiesUnderstood
=============================================================================

-------------------------------- MODULE Payload -------------------------------
(***************************************************************************)
(* The fields of a packet (struct packet_format), how they are written to  *)
(* and read from the PAYLOAD_SIZE bytes that are sent (serialize.c,        *)
(* socket_tools.c; the same files at both ends as far as they are used),   *)
(* and which bytes choose the key (get_key_from_userID in DES/cipher.c).   *)
(***************************************************************************)
EXTENDS Integers, Sequences, FiniteSets

PayloadSize    == 146   \* PAYLOAD_SIZE
PayloadOffset  == 22    \* PAYLOAD_OFFSET, the bytes that are not ciphered
ZeroFillOffset == 6     \* ZERO_FILL_OFFSET, where the bytes of the key begin

\* The fields in the order they are written: how many elements of how many
\* bytes each has.
Layout ==
  << [name |-> "zero",        count |-> 6,  size |-> 1],
     [name |-> "direction",   count |-> 1,  size |-> 1],
     [name |-> "type",        count |-> 1,  size |-> 1],
     [name |-> "userID",      count |-> 3,  size |-> 4],
     [name |-> "reserve",     count |-> 1,  size |-> 2],
     [name |-> "type_affirm", count |-> 1,  size |-> 1],
     [name |-> "family",      count |-> 1,  size |-> 8],
     [name |-> "srcDeviceID", count |-> 4,  size |-> 4],
     [name |-> "dstDeviceID", count |-> 4,  size |-> 4],
     [name |-> "operation",   count |-> 4,  size |-> 4],
     [name |-> "state",       count |-> 67, size |-> 1] >>

FieldNumbers == 1 .. Len(Layout)
FieldNames   == {Layout[k].name : k \in FieldNumbers}
Extent(k)    == Layout[k].count * Layout[k].size

\* where the pointer into the buffer stands before field k
Start[k \in FieldNumbers] ==
  IF k = 1 THEN 0 ELSE Start[k - 1] + Extent(k - 1)

-----------------------------------------------------------------------------
(* Numbers are written with the most significant byte first.               *)

\* v shifted right by 0, 1, ... bytes
Shifted(v) ==
  LET rest[n \in 0 .. 8] == IF n = 0 THEN v ELSE rest[n - 1] \div 256
  IN  rest

WriteByte(v, size, place) == Shifted(v)[size - 1 - place] % 256

\* what a number of "size" bytes can be
FitsIn(v, size) == v \in Nat /\ Shifted(v)[size] = 0

\* a slip: the number is read with the least significant byte first
ReadLeastFirst(bytes, at, size) ==
  LET read[n \in 0 .. size] ==
        IF n = 0 THEN 0 ELSE read[n - 1] * 256 + bytes[at + size - n]
  IN  read[size]
ReadNumber(bytes, at, size) ==
  LET read[n \in 0 .. size] ==
        IF n = 0 THEN 0 ELSE read[n - 1] * 256 + bytes[at + n - 1]
  IN  read[size]

\* serialize_payload
Serialize(packet) ==
  [o \in 0 .. PayloadSize - 1 |->
     LET k == CHOOSE n \in FieldNumbers : o - Start[n] \in 0 .. Extent(n) - 1
         f == Layout[k]
         d == o - Start[k]
     IN  WriteByte(packet[f.name][d \div f.size], f.size, d % f.size)]

\* deserialize_payload
Deserialize(bytes) ==
  [name \in FieldNames |->
     LET k == CHOOSE n \in FieldNumbers : Layout[n].name = name
         f == Layout[k]
     IN  [i \in 0 .. f.count - 1 |->
            ReadNumber(bytes, Start[k] + i * f.size, f.size)]]

-----------------------------------------------------------------------------
(* The key of a packet.                                                    *)

SliceBits == 14
Slices    == 0 .. 3

\* Bit n of the number whose last byte is that at "last".
BitBefore(bytes, last, n) ==
  (bytes[last - n \div 8] \div 2 ^ (n % 8)) % 2

\* a slip: the second number ends one byte too early
EndsEarly == {ZeroFillOffset + 15, ZeroFillOffset + 7}
\* get_key_from_userID, of a buffer: two numbers of seven bytes that end with
\* the last byte before the ciphered ones and with the one seven before it.
\* Their slices are added without carry.
Ends == {ZeroFillOffset + 15, ZeroFillOffset + 8}

OffsetBit(bytes, k) ==
  Cardinality({slice \in Ends \X Slices :
                 BitBefore(bytes, slice[1], SliceBits * slice[2] + k) = 1}) % 2

KeyOffset(bytes) == [k \in 0 .. SliceBits - 1 |-> OffsetBit(bytes, k)]
=============================================================================

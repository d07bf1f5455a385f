--------------------------------- MODULE Wire ---------------------------------
(***************************************************************************)
(* One connection as a stream of bytes: the client writes packets of       *)
(* PAYLOAD_SIZE bytes into it (epollLoop in client.c), the server drains   *)
(* what has arrived into one buffer of that size, takes what is then in    *)
(* the buffer for a packet (processEPOLLIN in server.c) and deciphers it   *)
(* (processPackets).  A packet is a header sent in clear and a body; each  *)
(* end is built with the cipher or without it.                             *)
(*                                                                         *)
(* The stream is cut in units, a packet being a head unit and a body unit, *)
(* so that a packet may arrive in two pieces or be written in part only.   *)
(***************************************************************************)
EXTENDS Cipher, Sequences

CONSTANTS
  Groups,    \* GROUPS, the blocks that are ciphered, 16 in the code
  Heads,     \* headers: direction, type, user IDs (PAYLOAD_OFFSET bytes)
  KeyOf,     \* the key get_key_from_userID finds in the table for a header
  Texts,     \* bodies the client sends
  InFlight   \* bound: packets written and not read yet

\* GROUPS blocks of CIPHER_SIZE bytes are four bytes, two words, more than
\* the body has: both ends read and write beyond their buffers.
Positions == (1 .. Groups) \X (1 .. 4)
Beyond == {<<Groups, 3>>, <<Groups, 4>>}
Body   == Positions \ Beyond
Bodies == [Body -> Words]
Junk   == [Beyond -> Words]

ASSUME GroupsAssumption == Groups \in Nat \ {0}
ASSUME KeyAssumption    == KeyOf \in [Heads -> Blocks]
ASSUME TextsAssumption  == Texts \subseteq Bodies
ASSUME InFlightAssumption == InFlight \in Nat

-----------------------------------------------------------------------------
(* payload_cipher.c: the blocks of a body and of what lies beyond it.      *)

Block(body, junk, g) ==
  [w \in 1 .. 4 |->
     IF <<g, w>> \in Body THEN body[<<g, w>>] ELSE junk[<<g, w>>]]

Cut(blocks) == [p \in Body |-> blocks[p[1]][p[2]]]

EncryptPayload(body, key, junk) ==
  Cut([g \in 1 .. Groups |-> Encrypt(Block(body, junk, g), key)])

DecryptPayload(code, key, junk) ==
  Cut([g \in 1 .. Groups |-> Decrypt(Block(code, junk, g), key)])

-----------------------------------------------------------------------------
VARIABLES
  build,    \* which ends define CIPHER
  wire,     \* units written and not read
  buf,      \* the server's buffer, on its stack: it may keep what it held
  handled   \* what the server took the last arrival for

vars == <<build, wire, buf, handled>>

\* "code" is the body as it is sent; "text" is history, the body it was.
Packets == [head : Heads, code : Bodies, text : Texts]
Units   == [part : {"head", "body"}, packet : Packets]
Unset   == [part |-> "unset"]
Garbled == [read |-> FALSE]
Readings == {Garbled} \cup [read : {TRUE}, head : Heads, body : Bodies]

TypeOK ==
  /\ build \in [client : BOOLEAN, server : BOOLEAN]
  /\ wire \in Seq(Units) /\ Len(wire) <= 2 * InFlight
  /\ buf \in [1 .. 2 -> Units \cup {Unset}]
  /\ handled \in Readings

Init ==
  /\ build \in [client : BOOLEAN, server : BOOLEAN]
  /\ wire = << >>
  /\ buf = <<Unset, Unset>>
  /\ handled = Garbled

\* A write of which the socket takes everything, or only the head: the client
\* counts both as sent and never writes the rest.
Write(head, text) ==
  \E junk \in Junk, taken \in 1 .. 2 :
    LET code   == IF build.client
                  THEN EncryptPayload(text, KeyOf[head], junk)
                  ELSE text
        packet == [head |-> head, code |-> code, text |-> text]
        units  == << [part |-> "head", packet |-> packet],
                     [part |-> "body", packet |-> packet] >>
    IN /\ Len(wire) + 2 <= 2 * InFlight
       /\ wire' = wire \o SubSeq(units, 1, taken)
       /\ UNCHANGED <<build, buf, handled>>

\* a slip: only the first packet of an arrival is kept
ReadFirst(start, units) ==
  IF Len(units) = 1 THEN <<units[1], start[2]>> ELSE <<units[1], units[2]>>
\* A buffer of two units after units were read into it two at a time: the
\* last read decides, and a short one leaves the tail of the one before it.
ReadInto(start, units) ==
  LET n == Len(units)
  IN  IF n % 2 = 0 THEN <<units[n - 1], units[n]>>
      ELSE <<units[n], IF n = 1 THEN start[2] ELSE units[n - 1]>>

\* decrypt_payload with the key of the header in the buffer, deserialize_payload
Reading(b, junk) ==
  IF b[1].part = "head" /\ b[2].part = "body"
  THEN LET head == b[1].packet.head
           code == b[2].packet.code
       IN  [ read |-> TRUE, head |-> head,
             body |-> IF build.server
                      THEN DecryptPayload(code, KeyOf[head], junk)
                      ELSE code ]
  ELSE Garbled

\* n units have arrived when the server drains the connection.
Arrive(n) ==
  \E junk \in Junk, start \in {buf, <<Unset, Unset>>} :
    /\ wire' = SubSeq(wire, n + 1, Len(wire))
    /\ buf' = ReadInto(start, SubSeq(wire, 1, n))
    /\ handled' = Reading(buf', junk)
    /\ UNCHANGED build

Next ==
  \/ \E head \in Heads, text \in Texts : Write(head, text)
  \/ \E n \in 1 .. Len(wire) : Arrive(n)

Spec == Init /\ [][Next]_vars

-----------------------------------------------------------------------------
(* Properties.                                                             *)

\* A step takes the first n units, and they are packets, none of them cut.
WholeArrival(n) ==
  /\ wire' = SubSeq(wire, n + 1, Len(wire))
  /\ n % 2 = 0
  /\ \A i \in 1 .. n :
       IF i % 2 = 1
       THEN wire[i].part = "head"
       ELSE wire[i].part = "body" /\ wire[i].packet = wire[i - 1].packet

\* Whatever arrived before, in pieces or cut short, an arrival of whole packets
\* is taken for the last of them: the stream never stays misaligned, and the
\* header can be read whichever end has the cipher.
HeadsUnderstood ==
  [][\A n \in 1 .. Len(wire) :
       WholeArrival(n) =>
         handled'.read /\ handled'.head = wire[n].packet.head]_vars

\* If both ends have the cipher, or neither, the body of that packet is read
\* as the client meant it, although the two words that are ciphered beyond the
\* end of the buffers are not sent.
BodiesUnderstood ==
  [][\A n \in 1 .. Len(wire) :
       WholeArrival(n) /\ build.client = build.server =>
         handled'.body = wire[n].packet.text]_vars
=============================================================================

-------------------------------- MODULE Cipher --------------------------------
(***************************************************************************)
(* The payload cipher (DES/cipher.c, DES/payload_cipher.c; the client and  *)
(* the server have the same files).  A block is four words of Width bits,  *)
(* each chained to the cipher word before it, rotated by the number of     *)
(* ones in its key word, and combined with that key word.                  *)
(*                                                                         *)
(* A word is a function from bit positions to {0, 1}, so that its width    *)
(* is a parameter.                                                         *)
(***************************************************************************)
EXTENDS Integers, FiniteSets

CONSTANTS Width,    \* bits of a word, 16 in the code
          Initial   \* ENCRYPT, what the first word is chained to

Bits  == 0 .. Width - 1
Words == [Bits -> {0, 1}]

ASSUME WidthAssumption == Width \in Nat \ {0}
ASSUME InitialAssumption == Initial \in Words

Add(a, b) == IF a = b THEN 0 ELSE 1
Xor(x, y) == [i \in Bits |-> Add(x[i], y[i])]

\* cal_nonzero_bits
OneBits(x) == Cardinality({i \in Bits : x[i] = 1})

\* The code shifts a word by n inside an unsigned int of twice its width and
\* combines the halves of the result; that rotates it when n is at most Width.
DoubleBits == 0 .. 2 * Width - 1
ShiftLeft(x, n)  == [j \in DoubleBits |->
                       IF j - n \in Bits THEN x[j - n] ELSE 0]
ShiftRight(x, n) == [j \in DoubleBits |->
                       IF j + n - Width \in Bits THEN x[j + n - Width] ELSE 0]
Fold(d) == [i \in Bits |-> Add(d[i + Width], d[i])]

RotateLeft(x, n)  == Fold(ShiftLeft(x, n))
RotateRight(x, n) == Fold(ShiftRight(x, n))

\* one word of own_encrypt and of own_decrypt; prev is the cipher word before
EncryptWord(prev, x, key) ==
  Xor(RotateLeft(Xor(prev, x), OneBits(key)), key)
DecryptWord(prev, c, key) ==
  Xor(RotateRight(Xor(key, c), OneBits(key)), prev)

Blocks == [1 .. 4 -> Words]

\* own_encrypt
Encrypt(x, key) ==
  LET c1 == EncryptWord(Initial, x[1], key[1])
      c2 == EncryptWord(c1, x[2], key[2])
      c3 == EncryptWord(c2, x[3], key[3])
      c4 == EncryptWord(c3, x[4], key[4])
  IN  <<c1, c2, c3, c4>>

\* a slip: a word is chained to the clear word before it
DecryptChainedToClear(c, key) ==
  LET x1 == DecryptWord(Initial, c[1], key[1])
      x2 == DecryptWord(x1, c[2], key[2])
      x3 == DecryptWord(x2, c[3], key[3])
      x4 == DecryptWord(x3, c[4], key[4])
  IN  <<x1, x2, x3, x4>>
\* own_decrypt
Decrypt(c, key) ==
  << DecryptWord(Initial, c[1], key[1]), DecryptWord(c[1], c[2], key[2]),
     DecryptWord(c[2], c[3], key[3]),    DecryptWord(c[3], c[4], key[4]) >>
=============================================================================

------------------------------- MODULE KeyTable -------------------------------
(***************************************************************************)
(* The table of keys both ends of the cipher compute when they start       *)
(* (des_key_init in DES/cipher.c).  A key is two halves, each a shift      *)
(* register with feedback; key n of the table is the seed after n shifts.  *)
(*                                                                         *)
(* The table is written once, from its first place to its last, so the     *)
(* key that is next and the number of places filled say what is in it.     *)
(***************************************************************************)
EXTENDS Integers

CONSTANTS
  Half,       \* bits of half a key, 32 in the code
  Taps,       \* places the top bit of a half is added to, {2, 6, 7}
  Seed,       \* INIT_SEED
  TableSize   \* TABLE_SIZE, 2^14

KeyBits == 0 .. 2 * Half - 1
Keys == [KeyBits -> {0, 1}]

ASSUME HalfAssumption == Half \in Nat \ {0}
ASSUME TapsAssumption == Taps \subseteq 1 .. Half - 1
ASSUME SeedAssumption == Seed \in Keys
ASSUME TableSizeAssumption == TableSize \in Nat \ {0}

Flip(a, b) == IF a = b THEN 0 ELSE 1

Low(i) == IF i < Half THEN 0 ELSE Half    \* the first bit of the half of i
Top(i) == Low(i) + Half - 1               \* and the last

\* a slip: the halves are rotated, without the feedback
NextKeyRotated(key) ==
  [i \in KeyBits |-> IF i = Low(i) THEN key[Top(i)] ELSE key[i - 1]]
\* nxt_Bits
NextKey(key) ==
  [i \in KeyBits |->
     IF i = Low(i) THEN key[Top(i)]
     ELSE IF i - Low(i) \in Taps THEN Flip(key[i - 1], key[Top(i)])
     ELSE key[i - 1]]

VARIABLES
  filled,   \* places of the table that are written
  key       \* seed_l, what the next place gets

keyVars == <<filled, key>>

\* initKeyTable
KeyInit == filled = 0 /\ key = Seed

\* a round of the loop of des_key_init
FillKey ==
  /\ filled < TableSize
  /\ filled' = filled + 1
  /\ key' = NextKey(key)

\* Key n of the table is the seed only for n = 0.  The table then has no key
\* twice (KeysDiffer): else the shifts that lead from one place to the other
\* would lead from the first place to a seed.
SeedComesOnce == filled \in 1 .. TableSize - 1 => key # Seed
=============================================================================

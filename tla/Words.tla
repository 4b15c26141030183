-------------------------------- MODULE Words --------------------------------
(* The limbs of a Bignum of foundation.c and the U32 words its loops use.  *)
EXTENDS Integers

CONSTANTS
  Base,       \* 32768
  Word        \* 2^32
ASSUME BaseAssumption == Base \in Nat /\ Base >= 2
ASSUME WordAssumption == Word \in Nat /\ Base * Base <= Word

U32(n) == n % Word
Limb == 0 .. Base - 1
=============================================================================

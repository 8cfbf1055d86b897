-------------------------------- MODULE Words -------------------------------
(***************************************************************************)
(* The uint16_t arithmetic of the codecs, for a word of any even number of *)
(* values: 2 * Half is 2^16 in the code.  Addition and subtraction wrap;   *)
(* ZigzagEnc16 and ZigzagDec16 are given by their values on two's          *)
(* complement words rather than bit by bit.                                *)
(***************************************************************************)
EXTENDS Integers

CONSTANT Half   \* 2^15

ASSUME HalfAssumption == Half \in Nat \ {0}

WordSize == 2 * Half
Word     == 0 .. WordSize - 1

Plus(a, b) == (a + b) % WordSize

\* (Mutant: the difference is kept as the int it is computed in.)
MinusUnwrapped(a, b) == a - b

Minus(a, b) == (a - b) % WordSize

\* A word as the integer whose two's complement it is.
Signed(w) == IF w < Half THEN w ELSE w - WordSize

\* (d << 1) ^ -(d >> 15): the non-negative differences become the even words,
\* the negative ones the odd words, counted from zero outwards.
ZigzagEnc16(d) == IF d < Half THEN 2 * d ELSE 2 * (WordSize - d) - 1

\* (Mutant: the sign bit is shifted out and forgotten.)
ZigzagDecUnsigned(z) == z \div 2

\* (z >> 1) ^ -(z & 1): the complement of z \div 2 when z is odd.
ZigzagDec16(z) == IF z % 2 = 0 THEN z \div 2 ELSE WordSize - 1 - z \div 2

============================================================================

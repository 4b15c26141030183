------------------------------ MODULE Decimal ------------------------------
(***************************************************************************)
(* bignum_of_decimal and bignum_to_string of foundation.c: a text of       *)
(* digits is read a chunk at a time into limbs, low one first, in a buffer *)
(* that is not trimmed afterwards, and the limbs are divided again until   *)
(* nothing is left.  Both count on U32 words and on buffers whose size is  *)
(* computed before.                                                        *)
(***************************************************************************)
EXTENDS Words, Sequences

CONSTANTS
  Radix,      \* 10
  Chunk,      \* 5, the digits read at once
  PerLimb,    \* 4, the digits every limb can hold
  Power,      \* the powers of Radix up to Chunk
  MaxDigits   \* bound: the digits of a text
ASSUME RadixAssumption ==
  /\ Radix \in Nat /\ Radix >= 2 /\ Base >= Radix
  /\ Chunk \in Nat /\ Chunk >= 1 /\ PerLimb \in Nat /\ PerLimb >= 1 /\ MaxDigits \in Nat
ASSUME PowerAssumption ==
  /\ Power \in [0 .. Chunk -> Nat] /\ Power[0] = 1
  /\ \A n \in 1 .. Chunk : Power[n] = Power[n - 1] * Radix
  /\ \A n \in 0 .. Chunk : 1 <= Power[n] /\ Power[n] <= Power[Chunk]
ASSUME ChunkAssumption ==
  Base * Power[Chunk] <= Word /\ Power[Chunk] <= Base * Base
\* 10^4 <= 2^15 <= 10^5: a limb holds four digits and shows as five at most.
ASSUME LimbAssumption ==
  PerLimb <= Chunk /\ Power[PerLimb] <= Base /\ Base <= Power[Chunk]

VARIABLES
  phase,                 \* where the program is
  text, pos,             \* the digits, and how many are read
  value, factor, count,  \* the chunk: its number, its power, its digits
  limbs,                 \* the limbs made, then those that are left
  at, held,              \* the loop over the limbs
  size, shown            \* to_string: value.size, and the digits made, low one first

chunk == <<value, factor, count>>
string == <<size, shown>>
textvars == <<phase, text, pos, chunk, limbs, at, held, string>>

Digit == 0 .. Radix - 1
NoDigit == Radix   \* a character that is none

\* Seeded fault: a limb for every chunk of digits.
RoomByChunk(n) == (n \div Chunk) + 1

\* The cells that the two functions allocate.
Room(n) == (n \div PerLimb) + 3
ShowRoom(n) == n * Chunk + 1

TextInit ==
  /\ text \in UNION {[1 .. n -> 0 .. Radix] : n \in 0 .. MaxDigits}
  /\ phase = "start" /\ pos = 0 /\ value = 0 /\ factor = 1 /\ count = 0
  /\ limbs = << >> /\ at = 0 /\ held = 0 /\ size = 0 /\ shown = << >>

Begin ==
  /\ phase = "start"
  /\ phase' = IF text = << >> \/ \E k \in DOMAIN text : text[k] = NoDigit THEN "refused" ELSE "read"
  /\ UNCHANGED <<text, pos, chunk, limbs, at, held, string>>

Flush(next) == phase' = next /\ at' = 0

\* Seeded fault: the chunk is flushed a digit late.
ReadDigitLate ==
  /\ phase = "read" /\ pos < Len(text) /\ pos' = pos + 1
  /\ value' = U32(value * Radix + text[pos + 1]) /\ factor' = U32(factor * Radix)
  /\ IF count = Chunk THEN Flush("flush") /\ held' = value' /\ UNCHANGED count
                      ELSE count' = count + 1 /\ UNCHANGED <<phase, at, held>>
  /\ UNCHANGED <<text, limbs, string>>

ReadDigit ==
  /\ phase = "read" /\ pos < Len(text) /\ pos' = pos + 1
  /\ value' = U32(value * Radix + text[pos + 1]) /\ factor' = U32(factor * Radix)
  /\ IF count = Chunk - 1 THEN Flush("flush") /\ held' = value' /\ UNCHANGED count
                          ELSE count' = count + 1 /\ UNCHANGED <<phase, at, held>>
  /\ UNCHANGED <<text, limbs, string>>

ReadEnd ==
  /\ phase = "read" /\ pos = Len(text)
  /\ Flush("last") /\ held' = value
  /\ UNCHANGED <<text, pos, chunk, limbs, string>>

\* bignum_muladd
Flushing == phase \in {"flush", "last"}
Cur == limbs[at + 1] * factor + held
MulAdd ==
  /\ Flushing /\ at < Len(limbs)
  /\ limbs' = [limbs EXCEPT ![at + 1] = U32(Cur) % Base] /\ held' = U32(Cur) \div Base
  /\ at' = at + 1 /\ UNCHANGED <<phase, text, pos, chunk, string>>

\* Seeded fault: there is one limb of carry at most.
CarryOutOnce == IF held = 0 THEN << >> ELSE << held % Base >>

CarryOut ==
  (IF held = 0 THEN << >> ELSE << held % Base >>)
    \o (IF held \div Base = 0 THEN << >> ELSE << held \div Base >>)
Push(next) ==
  /\ limbs' = limbs \o CarryOut /\ phase' = next
  /\ value' = 0 /\ factor' = 1 /\ count' = 0

FlushDone ==
  /\ phase = "flush" /\ at = Len(limbs)
  /\ Push("read") /\ UNCHANGED <<text, pos, at, held, string>>

ReadDone ==
  /\ phase = "last" /\ at = Len(limbs)
  /\ Push("show") /\ at' = Len(limbs') /\ size' = Len(limbs') /\ held' = 0
  /\ UNCHANGED <<text, pos, shown>>

\* bignum_to_string: the limbs are divided by ten, high one first.
Part == held * Base + limbs[at]
Divide ==
  /\ phase = "show" /\ at > 0
  /\ limbs' = [limbs EXCEPT ![at] = U32(Part) \div Radix] /\ held' = U32(Part) % Radix
  /\ at' = at - 1 /\ UNCHANGED <<phase, text, pos, chunk, string>>

\* The high zero limbs go, and the remainder is the next digit.
Trim(s) ==
  LET n == CHOOSE k \in 0 .. Len(s) : (\A m \in k + 1 .. Len(s) : s[m] = 0) /\ (k = 0 \/ s[k] # 0)
  IN  SubSeq(s, 1, n)

Divided ==
  /\ phase = "show" /\ at = 0 /\ limbs # << >>
  /\ limbs' = Trim(limbs) /\ at' = Len(limbs') /\ held' = 0
  /\ shown' = Append(shown, held) /\ UNCHANGED <<phase, text, pos, chunk, size>>

Shown ==
  /\ phase = "show" /\ limbs = << >>
  /\ shown' = IF shown = << >> THEN <<0>> ELSE shown
  /\ phase' = "done" /\ UNCHANGED <<text, pos, chunk, limbs, at, held, size>>

TextNext ==
  \/ Begin \/ ReadDigit \/ ReadEnd \/ MulAdd \/ FlushDone \/ ReadDone
  \/ Divide \/ Divided \/ Shown
TextSpec == TextInit /\ [][TextNext]_textvars

-----------------------------------------------------------------------------
TextTypeOK ==
  /\ phase \in {"start", "refused", "read", "flush", "last", "show", "done"}
  /\ text \in Seq(0 .. Radix) /\ pos \in 0 .. Len(text)
  /\ value \in Nat /\ factor \in Nat /\ count \in 0 .. Chunk
  /\ limbs \in Seq(Limb) /\ at \in 0 .. Len(limbs) /\ held \in Nat

\* No word that the two loops compute wraps: a limb times the power of the
\* chunk and the carry, the chunk itself, and a remainder before a limb.
TextNoWrap ==
  /\ phase = "read" /\ pos < Len(text) =>
       value * Radix + text[pos + 1] < Word /\ factor * Radix < Word
  /\ Flushing /\ at < Len(limbs) => Cur < Word
  /\ phase = "show" /\ at > 0 => Part < Word

\* The buffers are large enough: limbs are pushed inside the cells allocated
\* from the length of the text, and digits inside those from the limbs.
InRoom ==
  /\ phase \in {"read", "flush", "last", "show"} => Len(limbs) <= Room(Len(text))
  /\ Len(shown) <= ShowRoom(size)

\* A number is shown as it was written, but for zeros in front.
Stripped ==
  LET first == CHOOSE k \in DOMAIN text :
                 (text[k] # 0 \/ k = Len(text)) /\ \A m \in 1 .. k - 1 : text[m] = 0
  IN  SubSeq(text, first, Len(text))
RoundTrip == phase = "done" => [k \in DOMAIN shown |-> shown[Len(shown) - k + 1]] = Stripped
=============================================================================

------------------------------- MODULE Limbs -------------------------------
(***************************************************************************)
(* The arithmetic of Bignum in foundation.c: a sign and limbs, the low one *)
(* first.  A call runs its loop a limb at a time on U32 words, and then    *)
(* bignum_make trims what was made.  Calls share nothing, so a behaviour is *)
(* one call; what calls are made with is what other calls answered.        *)
(***************************************************************************)
EXTENDS Words, Sequences

CONSTANTS
  Low, High,  \* the limbs of 2^62 and of 2^62 - 1
  NatMax,     \* 2^33 - 1, the bound in bignum_to_nat
  MaxLimbs    \* bound: limbs of an operand
ASSUME BoundsAssumption ==
  Low \in Seq(0 .. Base - 1) /\ High \in Seq(0 .. Base - 1) /\ NatMax \in Nat /\ MaxLimbs \in Nat

VARIABLES
  op,      \* the loop that runs
  x, y,    \* the limbs of its operands
  neg,     \* the sign its result gets
  out,     \* the limbs it makes
  i, j,    \* where it is
  carry,   \* or borrow
  result,  \* what the last call answered
  wanted   \* ghost: the integer it should be

loop == <<op, x, y, neg, out, i, j, carry>>
vars == <<loop, result, wanted>>

Big(negative, limbs) == [negative |-> negative, limbs |-> limbs]

\* bignum_make: high zero limbs go, and zero has no sign.
Make(negative, limbs) ==
  LET n == CHOOSE k \in 0 .. Len(limbs) :
             /\ \A m \in k + 1 .. Len(limbs) : limbs[m] = 0
             /\ k = 0 \/ limbs[k] # 0
  IN  Big(negative /\ n # 0, SubSeq(limbs, 1, n))
Zero == Big(FALSE, << >>)
One == Big(FALSE, <<1>>)
Negate(a) == Make(~a.negative, a.limbs)

\* bignum_cmp_abs: below, equal or above, as -1, 0, 1.
CmpAbs(p, q) ==
  IF Len(p) # Len(q) THEN IF Len(p) < Len(q) THEN -1 ELSE 1
  ELSE LET apart == {k \in DOMAIN p : p[k] # q[k]}
           top == CHOOSE k \in apart : \A m \in apart : m <= k
       IN  IF apart = {} THEN 0 ELSE IF p[top] < q[top] THEN -1 ELSE 1

\* bignum_compare
Compare(a, b) ==
  CASE ~a.negative /\ ~b.negative -> CmpAbs(a.limbs, b.limbs)
    [] a.negative /\ b.negative   -> -CmpAbs(a.limbs, b.limbs)
    [] a.negative /\ ~b.negative  -> -1
    [] ~a.negative /\ b.negative  -> 1

\* The integer of a number.
Magnitude(limbs) ==
  LET from[k \in 1 .. Len(limbs) + 1] ==
        IF k > Len(limbs) THEN 0 ELSE limbs[k] + Base * from[k + 1]
  IN  from[1]
IntOf(a) == IF a.negative THEN -Magnitude(a.limbs) ELSE Magnitude(a.limbs)

\* Low and High are the magnitudes of the bounds of Int63.
ASSUME Int63Assumption ==
  /\ Low # << >> /\ Low[Len(Low)] # 0 /\ High # << >> /\ High[Len(High)] # 0
  /\ Magnitude(Low) = Magnitude(High) + 1

\* bignum_from_nat, bignum_of_int: a digit at a time, until nothing is left.
OfNatural(n) ==
  LET rest[k \in 0 .. n] == IF k = 0 THEN n ELSE rest[k - 1] \div Base
      size == CHOOSE k \in 0 .. n : rest[k] = 0 /\ \A m \in 0 .. k - 1 : rest[m] # 0
  IN  [k \in 1 .. size |-> rest[k - 1] % Base]
OfInt(n) == IF n < 0 THEN Make(TRUE, OfNatural(-n)) ELSE Make(FALSE, OfNatural(n))

\* bignum_to_nat: from the high limb down; -1 when it refuses.
ToNat(a) ==
  LET size == Len(a.limbs)
      read[k \in 0 .. size] ==
        IF k = 0 THEN 0
        ELSE IF read[k - 1] = -1 \/ read[k - 1] > NatMax THEN -1
        ELSE read[k - 1] * Base + a.limbs[size - k + 1]
  IN  IF a.negative THEN -1 ELSE read[size]

\* bignum_to_int: whether it is an Int63.
IsInt63(a) == CmpAbs(a.limbs, IF a.negative THEN Low ELSE High) <= 0

\* int63_wrap_sum
WrapSum(raw) ==
  IF raw > Magnitude(High) THEN raw - 2 * Magnitude(Low)
  ELSE IF raw < -Magnitude(Low) THEN raw + 2 * Magnitude(Low) ELSE raw

\* The numbers that calls are made with: all of them are the answer of Make.
Numbers ==
  {a \in [negative : BOOLEAN, limbs : UNION {[1 .. n -> Limb] : n \in 0 .. MaxLimbs}] :
     a.limbs = << >> \/ a.limbs[Len(a.limbs)] # 0}
  \ {Big(TRUE, << >>)}

Longest(p, q) == IF Len(p) > Len(q) THEN Len(p) ELSE Len(q)
At(limbs, k) == IF k < Len(limbs) THEN limbs[k + 1] ELSE 0
Blank(n) == [k \in 1 .. n |-> 0]

-----------------------------------------------------------------------------
Init ==
  /\ op = "start" /\ x = << >> /\ y = << >> /\ neg = FALSE /\ out = << >>
  /\ i = 0 /\ j = 0 /\ carry = 0 /\ result = Zero /\ wanted = 0

Run(name, negative, p, q, size) ==
  /\ op' = name /\ neg' = negative /\ x' = p /\ y' = q /\ out' = Blank(size)
  /\ i' = 0 /\ j' = 0 /\ carry' = 0 /\ UNCHANGED result
Answer(a) ==
  /\ op' = "answered" /\ x' = << >> /\ y' = << >> /\ neg' = FALSE /\ out' = << >>
  /\ i' = 0 /\ j' = 0 /\ carry' = 0 /\ result' = a

\* bignum_add, bignum_add_different
AddNumbers(a, b) ==
  IF a.negative = b.negative
  THEN Run("add", a.negative, a.limbs, b.limbs, Longest(a.limbs, b.limbs) + 1)
  ELSE LET order == CmpAbs(a.limbs, b.limbs) IN
       CASE order = 0  -> Answer(Zero)
         [] order = 1  -> Run("sub", a.negative, a.limbs, b.limbs, Len(a.limbs))
         [] order = -1 -> Run("sub", ~a.negative, b.limbs, a.limbs, Len(b.limbs))

BeginAdd(a, b) == op = "start" /\ AddNumbers(a, b) /\ wanted' = IntOf(a) + IntOf(b)

\* bignum_sub stops at zero.
BeginSub(a, b) ==
  /\ op = "start"
  /\ IF Compare(a, b) = 1 THEN AddNumbers(a, Negate(b)) ELSE Answer(Zero)
  /\ wanted' = IF IntOf(a) > IntOf(b) THEN IntOf(a) - IntOf(b) ELSE 0

BeginMul(a, b) ==
  /\ op = "start"
  /\ Run("mul", a.negative # b.negative, a.limbs, b.limbs, Len(a.limbs) + Len(b.limbs))
  /\ wanted' = IntOf(a) * IntOf(b)

\* bignum_succ_int63
BeginSucc(a) ==
  /\ op = "start"
  /\ IF Compare(a, Make(FALSE, High)) = 0 THEN Answer(Make(TRUE, Low)) ELSE AddNumbers(a, One)
  /\ wanted' = IF IntOf(a) = Magnitude(High) THEN -Magnitude(Low) ELSE IntOf(a) + 1

\* A number is narrowed to a Nat or an Int63 and comes back.
ThroughNat(a) ==
  /\ op = "start"
  /\ Answer(IF ToNat(a) = -1 THEN Zero ELSE OfInt(ToNat(a)))
  /\ wanted' = IF IntOf(a) \in 0 .. (NatMax + 1) * Base - 1 THEN IntOf(a) ELSE 0

Int63Range == -Magnitude(Low) .. Magnitude(High)
ThroughInt63(a) ==
  /\ op = "start"
  /\ Answer(IF IsInt63(a) THEN OfInt(IntOf(a)) ELSE Zero)
  /\ wanted' = IF IntOf(a) \in Int63Range THEN IntOf(a) ELSE 0

\* int63_add and int63_sub: the Int63 that is the same modulo 2^63.
Int63Sum(a, b) ==
  /\ op = "start" /\ IsInt63(a) /\ IsInt63(b)
  /\ \E raw \in {IntOf(a) + IntOf(b), IntOf(a) - IntOf(b)} :
       /\ Answer(OfInt(WrapSum(raw)))
       /\ wanted' = ((raw + Magnitude(Low)) % (2 * Magnitude(Low))) - Magnitude(Low)

Going == UNCHANGED <<op, x, y, neg, result, wanted>>

\* bignum_add_abs
Sum == At(x, i) + At(y, i) + carry
AddStep ==
  /\ op = "add" /\ i + 1 < Len(out)
  /\ out' = [out EXCEPT ![i + 1] = U32(Sum) % Base] /\ carry' = U32(Sum) \div Base
  /\ i' = i + 1 /\ UNCHANGED j /\ Going

AddDone ==
  /\ op = "add" /\ i + 1 = Len(out)
  /\ Answer(Make(neg, [out EXCEPT ![i + 1] = carry])) /\ UNCHANGED wanted

\* Seeded fault: the borrow is the one of the digits alone.
SubStepForgets ==
  /\ op = "sub" /\ i < Len(out)
  /\ out' = [out EXCEPT ![i + 1] = U32(Base + At(x, i) - At(y, i) - carry) % Base]
  /\ carry' = IF At(x, i) < At(y, i) THEN 1 ELSE 0
  /\ i' = i + 1 /\ UNCHANGED j /\ Going

\* bignum_sub_abs
Difference == Base + At(x, i) - At(y, i) - carry
SubStep ==
  /\ op = "sub" /\ i < Len(out)
  /\ out' = [out EXCEPT ![i + 1] = U32(Difference) % Base]
  /\ carry' = IF At(x, i) < At(y, i) + carry THEN 1 ELSE 0
  /\ i' = i + 1 /\ UNCHANGED j /\ Going

SubDone == op = "sub" /\ i = Len(out) /\ Answer(Make(neg, out)) /\ UNCHANGED wanted

\* Seeded fault: the carry of a row is not reduced before the next limb.
MulStepLate ==
  /\ op = "mul" /\ i < Len(x) /\ j < Len(y)
  /\ LET cur == U32(out[i + j + 1] + x[i + 1] * y[j + 1] + carry) IN
       out' = [out EXCEPT ![i + j + 1] = cur % Base] /\ carry' = cur
  /\ j' = j + 1 /\ UNCHANGED i /\ Going

\* bignum_mul, the inner loop and its end
Product == out[i + j + 1] + x[i + 1] * y[j + 1] + carry
MulStep ==
  /\ op = "mul" /\ i < Len(x) /\ j < Len(y)
  /\ out' = [out EXCEPT ![i + j + 1] = U32(Product) % Base] /\ carry' = U32(Product) \div Base
  /\ j' = j + 1 /\ UNCHANGED i /\ Going

MulRow ==
  /\ op = "mul" /\ i < Len(x) /\ j = Len(y)
  /\ out' = [out EXCEPT ![i + Len(y) + 1] = carry]
  /\ i' = i + 1 /\ j' = 0 /\ carry' = 0 /\ Going

MulDone == op = "mul" /\ i = Len(x) /\ Answer(Make(neg, out)) /\ UNCHANGED wanted

Next ==
  \/ op = "start" /\ \E a, b \in Numbers :
       BeginAdd(a, b) \/ BeginSub(a, b) \/ BeginMul(a, b) \/ Int63Sum(a, b)
  \/ op = "start" /\ \E a \in Numbers : BeginSucc(a) \/ ThroughNat(a) \/ ThroughInt63(a)
  \/ AddStep \/ AddDone \/ SubStep \/ SubDone \/ MulStep \/ MulRow \/ MulDone
Spec == Init /\ [][Next]_vars

-----------------------------------------------------------------------------
TypeOK ==
  /\ op \in {"start", "answered", "add", "sub", "mul"} /\ neg \in BOOLEAN
  /\ x \in Seq(Limb) /\ y \in Seq(Limb) /\ out \in Seq(Limb)
  /\ i \in Nat /\ j \in Nat /\ carry \in Limb

\* No word of a loop wraps: neither above, in a product that is added to a
\* limb and a carry, nor below, in a difference under a borrow.
NoWrap ==
  /\ op = "add" /\ i + 1 < Len(out) => Sum \in 0 .. Word - 1
  /\ op = "sub" /\ i < Len(out) => Difference \in 0 .. Word - 1
  /\ op = "mul" /\ i < Len(x) /\ j < Len(y) => Product \in 0 .. Word - 1

\* A call answers the integer it should, over carries and borrows of any
\* length and the wrap of Int63.
Exact == op = "answered" => IntOf(result) = wanted
=============================================================================

------------------------------ MODULE Quantity ------------------------------
(***************************************************************************)
(* The quantity algebra of lib/kernel_quantity.c: the semiring of binder   *)
(* quantities 0, 1 and w, intervals of quantities, and the usage of a      *)
(* checked term (what it consumes on its returning paths, and what it      *)
(* reads on any path).                                                     *)
(*                                                                         *)
(* A list of QuantityUse rows is a function from de Bruijn levels to       *)
(* intervals here: quantity_interval answers (0, 0) for a level without a  *)
(* row, so an absent row and the row (0, 0) are the same value.  That the  *)
(* sorted lists of the source implement these functions is checked in      *)
(* module UsageRows.                                                       *)
(***************************************************************************)
EXTENDS Naturals

CONSTANT Depth   \* the deepest checking context
ASSUME DepthAssumption == Depth \in Nat

Level == 0 .. Depth - 1

Zero == 0
One  == 1
Many == 2
Quantities == {Zero, One, Many}

Mul(a, b) == IF a = Zero \/ b = Zero THEN Zero
             ELSE IF a = One THEN b ELSE Many

\* Seeded fault: the sum is not saturated at w.
AddUnsaturated(a, b) == a + b
Add(a, b) == IF a = Zero THEN b ELSE IF b = Zero THEN a ELSE Many

Minimum(a, b) == IF a <= b THEN a ELSE b
Maximum(a, b) == IF a <= b THEN b ELSE a
Left(a, b)    == a

Runtime(q) == IF q = Zero THEN Zero ELSE One

Interval == [lo : Quantities, hi : Quantities]
Pair(lo, hi) == [lo |-> lo, hi |-> hi]
Unused == Pair(Zero, Zero)

Rows   == [Level -> Interval]
NoRows == [l \in Level |-> Unused]

(* Joins two lists of rows level by level, f on lower ends, g on upper. *)
Combine(f(_, _), g(_, _), a, b) ==
  [l \in Level |-> Pair(f(a[l].lo, b[l].lo), g(a[l].hi, b[l].hi))]

ScaleMap(q, rows) ==
  [l \in Level |-> Pair(Mul(q, rows[l].lo), Mul(q, rows[l].hi))]

(***************************************************************************)
(* A usage.  returns is paths.some of the source: FALSE when no path of    *)
(* the term returns, and then its path rows mean nothing and are NoRows.   *)
(***************************************************************************)
Usage == [returns : BOOLEAN, paths : Rows, reads : Rows]

Returning(rows) == [returns |-> TRUE, paths |-> rows, reads |-> rows]
Empty       == Returning(NoRows)
Unreachable == [returns |-> FALSE, paths |-> NoRows, reads |-> NoRows]

Occurrence(level, q) == Returning([NoRows EXCEPT ![level] = Pair(q, q)])

Sequence(a, b) ==
  [returns |-> a.returns /\ b.returns,
   paths   |-> IF a.returns /\ b.returns
               THEN Combine(Add, Add, a.paths, b.paths) ELSE NoRows,
   reads   |-> Combine(Add, Add, a.reads, b.reads)]

\* Seeded fault: the upper end is joined like the lower one.
AlternativeLow(a, b) ==
  [returns |-> a.returns \/ b.returns,
   paths   |-> IF ~a.returns THEN b.paths
               ELSE IF ~b.returns THEN a.paths
               ELSE Combine(Minimum, Minimum, a.paths, b.paths),
   reads   |-> Combine(Maximum, Maximum, a.reads, b.reads)]
\* Seeded fault: a branch that never returns counts as one that reads nothing.
AlternativeEmpty(a, b) ==
  [returns |-> a.returns \/ b.returns,
   paths   |-> Combine(Minimum, Maximum, a.paths, b.paths),
   reads   |-> Combine(Maximum, Maximum, a.reads, b.reads)]
Alternative(a, b) ==
  [returns |-> a.returns \/ b.returns,
   paths   |-> IF ~a.returns THEN b.paths
               ELSE IF ~b.returns THEN a.paths
               ELSE Combine(Minimum, Maximum, a.paths, b.paths),
   reads   |-> Combine(Maximum, Maximum, a.reads, b.reads)]

Scale(q, u) ==
  IF q = Zero THEN Empty
  ELSE [u EXCEPT !.paths = ScaleMap(q, u.paths),
                 !.reads = ScaleMap(q, u.reads)]

(* The usage of a closure: it keeps everything its body reads, whether or  *)
(* not the path that reads it returns.                                     *)
Captures(u) ==
  [u EXCEPT !.returns = TRUE,
            !.paths = IF u.returns THEN Combine(Left, Maximum, u.paths, u.reads)
                      ELSE u.reads]

(* Forgets the levels of a scope that is closed. *)
RemoveLevels(levels, u) ==
  LET drop(rows) == [l \in Level |-> IF l \in levels THEN Unused ELSE rows[l]]
  IN  [u EXCEPT !.paths = drop(u.paths), !.reads = drop(u.reads)]

(* Code that never returns may be taken to consume a binder once. *)
Get(l, u) == IF u.returns THEN u.paths[l]
             ELSE Pair(One, Maximum(One, u.reads[l].hi))

ExactlyOnce(l, u) == Get(l, u) = Pair(One, One)
AtMostOnce(l, u)  == Get(l, u).hi # Many
Used(l, u)        == u.reads[l].hi # Zero
=============================================================================

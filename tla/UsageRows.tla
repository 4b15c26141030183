----------------------------- MODULE UsageRows -----------------------------
(***************************************************************************)
(* The lists of QuantityUse rows of kernel_quantity.c, and that they are   *)
(* the functions of module Quantity: a list has one row per level, lower   *)
(* levels first, and a level without a row is unused.                      *)
(*                                                                         *)
(* rows is a list that some terms' usages were built into; it is merged    *)
(* with others, scaled and cut, and meaning follows it as a function.  The *)
(* merge is a loop over both lists, and the code may be anywhere in it.    *)
(***************************************************************************)
EXTENDS Quantity, Sequences

CONSTANT Intervals   \* the intervals of the lists that are merged in
ASSUME IntervalsAssumption == Intervals \subseteq Interval

VARIABLES
  rows,     \* the list
  meaning,  \* ghost: the function it should be
  join,     \* the merge: how the two lists are joined, or Idle
  a, b,     \* the merge: what is left of the lists
  out       \* the merge: the rows made

vars == <<rows, meaning, join, a, b, out>>

Seqs == INSTANCE SequencesExt

Idle == "idle"
Row(level, interval) == [level |-> level, interval |-> interval]

\* The two operations of a merge, on lower and on upper ends.
Joins == {"sequence", "alternative", "reads", "captures"}
JoinInterval(j, x, y) ==
  CASE j = "sequence"    -> Pair(Add(x.lo, y.lo), Add(x.hi, y.hi))
    [] j = "alternative" -> Pair(Minimum(x.lo, y.lo), Maximum(x.hi, y.hi))
    [] j = "reads"       -> Pair(Maximum(x.lo, y.lo), Maximum(x.hi, y.hi))
    [] j = "captures"    -> Pair(x.lo, Maximum(x.hi, y.hi))

Ascending(rs) == \A i, j \in DOMAIN rs : i < j => rs[i].level < rs[j].level

\* The lists a term's usage may be.
Lists ==
  {rs \in UNION {[1 .. n -> [level : Level, interval : Intervals]] : n \in 0 .. Depth} :
     Ascending(rs)}

\* quantity_interval: the search stops at a higher level.
Lookup(level, rs) ==
  LET at == {i \in DOMAIN rs : rs[i].level >= level}
      first == CHOOSE i \in at : \A j \in at : i <= j
  IN  IF at # {} /\ rs[first].level = level THEN rs[first].interval ELSE Unused

\* The function a list is.
Meaning(rs) ==
  [l \in Level |-> IF \E i \in DOMAIN rs : rs[i].level = l
                   THEN (CHOOSE r \in {rs[i] : i \in DOMAIN rs} : r.level = l).interval
                   ELSE Unused]

-----------------------------------------------------------------------------
Init ==
  /\ rows \in Lists /\ meaning = Meaning(rows)
  /\ join = Idle /\ a = << >> /\ b = << >> /\ out = << >>

\* Another usage is joined, on either side.
Begin(j, list, other) ==
  /\ join = Idle /\ join' = j /\ out' = << >>
  /\ IF other THEN a' = list /\ b' = rows ELSE a' = rows /\ b' = list
  /\ meaning' = [l \in Level |-> IF other THEN JoinInterval(j, Meaning(list)[l], meaning[l])
                                ELSE JoinInterval(j, meaning[l], Meaning(list)[l])]
  /\ UNCHANGED rows

Emit(level, interval) == out' = Append(out, Row(level, interval))
Merging == join # Idle

\* Seeded fault: a row of one list only is kept as it is.
TakeLeftAsIs ==
  /\ Merging /\ a # << >> /\ (b # << >> => Head(a).level < Head(b).level)
  /\ Emit(Head(a).level, Head(a).interval)
  /\ a' = Tail(a) /\ UNCHANGED <<rows, meaning, join, b>>

TakeLeft ==
  /\ Merging /\ a # << >> /\ (b # << >> => Head(a).level < Head(b).level)
  /\ Emit(Head(a).level, JoinInterval(join, Head(a).interval, Unused))
  /\ a' = Tail(a) /\ UNCHANGED <<rows, meaning, join, b>>

TakeRight ==
  /\ Merging /\ b # << >> /\ (a # << >> => Head(b).level < Head(a).level)
  /\ Emit(Head(b).level, JoinInterval(join, Unused, Head(b).interval))
  /\ b' = Tail(b) /\ UNCHANGED <<rows, meaning, join, a>>

TakeBoth ==
  /\ Merging /\ a # << >> /\ b # << >> /\ Head(a).level = Head(b).level
  /\ Emit(Head(a).level, JoinInterval(join, Head(a).interval, Head(b).interval))
  /\ a' = Tail(a) /\ b' = Tail(b) /\ UNCHANGED <<rows, meaning, join>>

End ==
  /\ Merging /\ a = << >> /\ b = << >>
  /\ rows' = out /\ join' = Idle /\ out' = << >>
  /\ UNCHANGED <<meaning, a, b>>

\* quantity_scale_map: the ends may be scaled by different quantities.
ScaleRows(lo, hi) ==
  /\ join = Idle
  /\ rows' = [i \in DOMAIN rows |->
                Row(rows[i].level, Pair(Mul(lo, rows[i].interval.lo), Mul(hi, rows[i].interval.hi)))]
  /\ meaning' = [l \in Level |-> Pair(Mul(lo, meaning[l].lo), Mul(hi, meaning[l].hi))]
  /\ UNCHANGED <<join, a, b, out>>

\* quantity_remove_map: a scope that closes takes its row along.
RemoveRow(level) ==
  /\ join = Idle
  /\ rows' = Seqs!RemoveFirstMatch(rows, LAMBDA r : r.level = level)
  /\ meaning' = [meaning EXCEPT ![level] = Unused]
  /\ UNCHANGED <<join, a, b, out>>

Next ==
  \/ \E j \in Joins, list \in Lists, other \in BOOLEAN : Begin(j, list, other)
  \/ TakeLeft \/ TakeRight \/ TakeBoth \/ End
  \/ \E lo, hi \in Quantities : ScaleRows(lo, hi)
  \/ \E level \in Level : RemoveRow(level)

Spec == Init /\ [][Next]_vars

-----------------------------------------------------------------------------
\* Between operations the list, as the checker reads it, is its meaning.
RowsRight == join = Idle => \A l \in Level : Lookup(l, rows) = meaning[l]

=============================================================================

-------------------------- MODULE UsageRowsProofs --------------------------
(***************************************************************************)
(* The sorted lists of UsageRows are the functions they should be, for     *)
(* contexts of any depth, lists of any length and any intervals in them.   *)
(***************************************************************************)
EXTENDS UsageRows, SequenceTheorems, WellFoundedInduction, TLAPS

UseRow == [level : Level, interval : Interval]
Levels(rs) == {rs[i].level : i \in 1 .. Len(rs)}

TypeOK ==
  /\ rows \in Seq(UseRow) /\ meaning \in [Level -> Interval] /\ join \in Joins \cup {Idle}
  /\ a \in Seq(UseRow) /\ b \in Seq(UseRow) /\ out \in Seq(UseRow)

\* What is made lies below what is left, so what is appended keeps the order.
Ordered ==
  /\ Ascending(rows) /\ Ascending(a) /\ Ascending(b) /\ Ascending(out)
  /\ \A l \in Levels(out) : \A m \in Levels(a) \cup Levels(b) : l < m

\* In the middle of a merge: a level has its row, or will get it from what is
\* left of the lists.
Split ==
  /\ join = Idle => \A l \in Level : meaning[l] = Meaning(rows)[l]
  /\ join # Idle =>
       \A l \in Level :
         meaning[l] = IF l \in Levels(out) THEN Meaning(out)[l]
                      ELSE JoinInterval(join, Meaning(a)[l], Meaning(b)[l])

Inv == TypeOK /\ Ordered /\ Split

-----------------------------------------------------------------------------
(***************************************************************************)
(* Intervals.                                                              *)
(***************************************************************************)

LEMMA UnusedTyped == Unused \in Interval
BY DEF Unused, Pair, Interval, Quantities, Zero

LEMMA JoinTyped ==
  ASSUME NEW j \in Joins, NEW v \in Interval, NEW w \in Interval
  PROVE  JoinInterval(j, v, w) \in Interval
<1>1. \A p, q \in Quantities :
        /\ Add(p, q) \in Quantities /\ Minimum(p, q) \in Quantities
        /\ Maximum(p, q) \in Quantities
  BY DEF Quantities, Add, Minimum, Maximum, Zero, One, Many
<1>2. v.lo \in Quantities /\ v.hi \in Quantities /\ w.lo \in Quantities /\ w.hi \in Quantities
  BY DEF Interval
<1> QED
  BY <1>1, <1>2 DEF JoinInterval, Joins, Pair, Interval

LEMMA JoinUnused ==
  ASSUME NEW j \in Joins
  PROVE  JoinInterval(j, Unused, Unused) = Unused
BY DEF JoinInterval, Joins, Unused, Pair, Add, Minimum, Maximum, Zero

LEMMA ScaleTyped ==
  ASSUME NEW lo \in Quantities, NEW hi \in Quantities, NEW v \in Interval
  PROVE  Pair(Mul(lo, v.lo), Mul(hi, v.hi)) \in Interval
BY DEF Quantities, Mul, Pair, Interval, Zero, One, Many

LEMMA ScaleUnused ==
  ASSUME NEW lo, NEW hi
  PROVE  Pair(Mul(lo, Unused.lo), Mul(hi, Unused.hi)) = Unused
BY DEF Unused, Pair, Mul, Zero

-----------------------------------------------------------------------------
(***************************************************************************)
(* What a sorted list means.                                               *)
(***************************************************************************)

LEMMA RowParts ==
  ASSUME NEW rs \in Seq(UseRow), NEW i \in 1 .. Len(rs)
  PROVE  /\ rs[i] \in UseRow /\ rs[i].level \in Level /\ rs[i].interval \in Interval
         /\ rs[i].level \in Nat /\ rs[i].level \in Levels(rs)
<1>1. rs[i] \in UseRow
  OBVIOUS
<1>2. Level \subseteq Nat
  BY DepthAssumption DEF Level
<1> QED
  BY <1>1, <1>2 DEF UseRow, Levels

LEMMA OneRow ==
  ASSUME NEW rs \in Seq(UseRow), Ascending(rs), NEW i \in 1 .. Len(rs), NEW k \in 1 .. Len(rs),
         rs[i].level = rs[k].level
  PROVE  i = k
<1>1. rs[i].level \in Nat /\ rs[k].level \in Nat /\ DOMAIN rs = 1 .. Len(rs)
  BY RowParts
<1>2. ~(i < k) /\ ~(k < i)
  BY <1>1 DEF Ascending
<1> QED
  BY <1>2

LEMMA MeaningAt ==
  ASSUME NEW rs \in Seq(UseRow), Ascending(rs), NEW i \in 1 .. Len(rs)
  PROVE  Meaning(rs)[rs[i].level] = rs[i].interval
<1> DEFINE l == rs[i].level
           r == CHOOSE q \in {rs[k] : k \in DOMAIN rs} : q.level = l
<1>1. l \in Level /\ DOMAIN rs = 1 .. Len(rs)
  BY RowParts
<1>2. r \in {rs[k] : k \in DOMAIN rs} /\ r.level = l
  BY <1>1
<1>3. PICK k \in 1 .. Len(rs) : r = rs[k]
  BY <1>1, <1>2
<1>4. r = rs[i]
  BY <1>2, <1>3, OneRow
<1> QED
  BY <1>1, <1>4 DEF Meaning

LEMMA MeaningOut ==
  ASSUME NEW rs \in Seq(UseRow), NEW l \in Level \ Levels(rs)
  PROVE  Meaning(rs)[l] = Unused
BY DEF Meaning, Levels

LEMMA MeaningTyped ==
  ASSUME NEW rs \in Seq(UseRow), Ascending(rs)
  PROVE  \A l \in Level : Meaning(rs)[l] \in Interval
<1> SUFFICES ASSUME NEW l \in Level PROVE Meaning(rs)[l] \in Interval
  OBVIOUS
<1>1. CASE l \in Levels(rs)
  <2>1. PICK i \in 1 .. Len(rs) : rs[i].level = l
    BY <1>1 DEF Levels
  <2> QED
    BY <2>1, MeaningAt, RowParts
<1>2. CASE l \notin Levels(rs)
  BY <1>2, MeaningOut, UnusedTyped
<1> QED
  BY <1>1, <1>2

\* Lists with the same rows mean the same.
LEMMA MeaningSame ==
  ASSUME NEW rs \in Seq(UseRow), Ascending(rs), NEW ss \in Seq(UseRow), Ascending(ss),
         NEW l \in Level,
         \A i \in 1 .. Len(rs) : rs[i].level = l => \E k \in 1 .. Len(ss) : ss[k] = rs[i],
         \A k \in 1 .. Len(ss) : ss[k].level = l => \E i \in 1 .. Len(rs) : rs[i] = ss[k]
  PROVE  Meaning(rs)[l] = Meaning(ss)[l]
<1>1. CASE l \in Levels(rs)
  <2>1. PICK i \in 1 .. Len(rs) : rs[i].level = l
    BY <1>1 DEF Levels
  <2>2. PICK k \in 1 .. Len(ss) : ss[k] = rs[i]
    BY <2>1
  <2>3. Meaning(rs)[l] = rs[i].interval
    BY <2>1, MeaningAt
  <2>4. Meaning(ss)[l] = ss[k].interval
    BY <2>1, <2>2, MeaningAt
  <2> QED
    BY <2>2, <2>3, <2>4
<1>2. CASE l \notin Levels(rs)
  <2>1. l \notin Levels(ss)
    BY <1>2 DEF Levels
  <2> QED
    BY <1>2, <2>1, MeaningOut
<1> QED
  BY <1>1, <1>2

LEMMA SmallestOf ==
  ASSUME NEW S \in SUBSET Nat, S # {}
  PROVE  \E m \in S : \A k \in S : m <= k
<1> DEFINE R == {ss \in Nat \X Nat : ss[1] < ss[2]}
<1>1. IsWellFoundedOn(R, Nat)
  BY NatLessThanWellFounded DEF OpToRel
<1> HIDE DEF R
<1>2. PICK m \in S : \A k \in S : ~ (<<k, m>> \in R)
  BY <1>1, WFMin
<1>3. \A k, n \in Nat : <<k, n>> \in R <=> k < n
  BY DEF R
<1>4. ASSUME NEW k \in S PROVE m <= k
  <2>1. ~(k < m)
    BY <1>2, <1>3
  <2> QED
    BY <2>1
<1> QED
  BY <1>4

\* quantity_interval finds a level's row, though it stops at a higher one.
LEMMA LookupMeans ==
  ASSUME NEW rs \in Seq(UseRow), Ascending(rs), NEW l \in Level
  PROVE  Lookup(l, rs) = Meaning(rs)[l]
<1> DEFINE at == {i \in DOMAIN rs : rs[i].level >= l}
           first == CHOOSE i \in at : \A k \in at : i <= k
<1>1. DOMAIN rs = 1 .. Len(rs) /\ Len(rs) \in Nat /\ l \in Nat
  BY DepthAssumption DEF Level
<1>2. at # {} => first \in at /\ \A k \in at : first <= k
  <2>1. at \in SUBSET Nat
    BY <1>1
  <2> HIDE DEF at
  <2>2. at # {} => \E i \in at : \A k \in at : i <= k
    BY <2>1, SmallestOf
  <2> QED
    BY <2>2
<1>3. CASE l \in Levels(rs)
  <2>1. PICK i \in 1 .. Len(rs) : rs[i].level = l
    BY <1>3 DEF Levels
  <2>2. i \in at
    BY <1>1, <2>1
  <2>3. first \in 1 .. Len(rs) /\ first <= i /\ rs[first].level >= l
    BY <1>1, <1>2, <2>2
  <2>4. rs[first].level \in Nat
    BY <2>3, RowParts
  <2> HIDE DEF first
  <2>5. first = i
    <3>1. ~(first < i)
      BY <1>1, <2>1, <2>3, <2>4 DEF Ascending
    <3> QED
      BY <2>3, <3>1
  <2>6. Lookup(l, rs) = rs[i].interval
    BY <2>1, <2>2, <2>5 DEF Lookup, first
  <2> QED
    BY <2>1, <2>6, MeaningAt
<1>4. CASE l \notin Levels(rs)
  <2>1. at # {} => rs[first].level # l
    BY <1>1, <1>2, <1>4 DEF Levels
  <2>2. Lookup(l, rs) = Unused
    BY <2>1 DEF Lookup
  <2> QED
    BY <1>4, <2>2, MeaningOut
<1> QED
  BY <1>3, <1>4

-----------------------------------------------------------------------------
(***************************************************************************)
(* What the operations do to a sorted list.                                *)
(***************************************************************************)

LEMMA TailFacts ==
  ASSUME NEW rs \in Seq(UseRow), Ascending(rs), rs # << >>
  PROVE  /\ Head(rs) \in UseRow /\ Head(rs).level \in Level /\ Head(rs).interval \in Interval
         /\ Head(rs).level \in Levels(rs)
         /\ Tail(rs) \in Seq(UseRow) /\ Ascending(Tail(rs))
         /\ Levels(Tail(rs)) = Levels(rs) \ {Head(rs).level}
         /\ \A l \in Levels(Tail(rs)) : Head(rs).level < l
         /\ Meaning(rs)[Head(rs).level] = Head(rs).interval
         /\ \A l \in Level :
              l # Head(rs).level => Meaning(Tail(rs))[l] = Meaning(rs)[l]
<1> DEFINE t == Tail(rs)
<1>1. /\ Len(rs) \in Nat \ {0} /\ Head(rs) = rs[1] /\ t \in Seq(UseRow)
      /\ Len(t) = Len(rs) - 1 /\ \A i \in 1 .. Len(t) : t[i] = rs[i + 1]
      /\ DOMAIN rs = 1 .. Len(rs) /\ DOMAIN t = 1 .. Len(t)
  BY HeadTailProperties
<1> HIDE DEF t
<1>2. \A i \in 1 .. Len(t) : i + 1 \in 1 .. Len(rs)
  BY <1>1
<1>3. \A i \in 2 .. Len(rs) : i - 1 \in 1 .. Len(t) /\ rs[i] = t[i - 1]
  BY <1>1
<1>4. 1 \in 1 .. Len(rs)
  BY <1>1
<1>5. /\ Head(rs) \in UseRow /\ Head(rs).level \in Level /\ Head(rs).interval \in Interval
      /\ Head(rs).level \in Levels(rs)
  BY <1>1, <1>4, RowParts
<1>6. Ascending(t)
  <2> SUFFICES ASSUME NEW i \in 1 .. Len(t), NEW k \in 1 .. Len(t), i < k
               PROVE  t[i].level < t[k].level
    BY <1>1 DEF Ascending
  <2>1. i + 1 \in DOMAIN rs /\ k + 1 \in DOMAIN rs /\ i + 1 < k + 1
    BY <1>1, <1>2
  <2>2. rs[i + 1].level < rs[k + 1].level
    BY <2>1 DEF Ascending
  <2> QED
    BY <1>1, <2>2
<1>7. \A l \in Levels(t) : Head(rs).level < l /\ l \in Levels(rs)
  <2> SUFFICES ASSUME NEW i \in 1 .. Len(t)
               PROVE  Head(rs).level < t[i].level /\ t[i].level \in Levels(rs)
    BY DEF Levels
  <2>1. i + 1 \in DOMAIN rs /\ 1 \in DOMAIN rs /\ 1 < i + 1
    BY <1>1, <1>2, <1>4
  <2>2. rs[1].level < rs[i + 1].level
    BY <2>1 DEF Ascending
  <2>3. t[i] = rs[i + 1]
    BY <1>1
  <2> QED
    BY <1>1, <2>1, <2>2, <2>3 DEF Levels
<1>8. \A l \in Levels(rs) : l # Head(rs).level => l \in Levels(t)
  <2> SUFFICES ASSUME NEW i \in 1 .. Len(rs), rs[i].level # Head(rs).level
               PROVE  rs[i].level \in Levels(t)
    BY DEF Levels
  <2>1. i \in 2 .. Len(rs)
    BY <1>1
  <2> QED
    BY <1>3, <2>1 DEF Levels
<1>9. Levels(t) = Levels(rs) \ {Head(rs).level}
  <2>1. Head(rs).level \in Nat
    BY <1>1, <1>4, RowParts
  <2> QED
    BY <1>7, <1>8, <2>1
<1>10. Meaning(rs)[Head(rs).level] = Head(rs).interval
  BY <1>1, <1>4, MeaningAt
<1>11. ASSUME NEW l \in Level, l # Head(rs).level
       PROVE  Meaning(t)[l] = Meaning(rs)[l]
  <2>1. \A i \in 1 .. Len(t) : t[i].level = l => \E k \in 1 .. Len(rs) : rs[k] = t[i]
    BY <1>1, <1>2
  <2>2. \A k \in 1 .. Len(rs) : rs[k].level = l => \E i \in 1 .. Len(t) : t[i] = rs[k]
    <3> SUFFICES ASSUME NEW k \in 1 .. Len(rs), rs[k].level = l
                 PROVE  \E i \in 1 .. Len(t) : t[i] = rs[k]
      OBVIOUS
    <3>1. k \in 2 .. Len(rs)
      BY <1>1, <1>11
    <3> QED
      BY <1>3, <3>1
  <2> QED
    BY <1>1, <1>6, <2>1, <2>2, MeaningSame
<1> QED
  BY <1>1, <1>5, <1>6, <1>7, <1>9, <1>10, <1>11 DEF t

LEMMA AppendFacts ==
  ASSUME NEW rs \in Seq(UseRow), Ascending(rs), NEW l \in Level, NEW v \in Interval,
         \A m \in Levels(rs) : m < l
  PROVE  LET new == Append(rs, Row(l, v))
         IN  /\ new \in Seq(UseRow) /\ Ascending(new) /\ Levels(new) = Levels(rs) \cup {l}
             /\ Meaning(new)[l] = v
             /\ \A m \in Level : m # l => Meaning(new)[m] = Meaning(rs)[m]
<1> DEFINE new == Append(rs, Row(l, v))
           n == Len(rs) + 1
<1>1. Row(l, v) \in UseRow /\ Row(l, v).level = l /\ Row(l, v).interval = v
  BY DEF Row, UseRow
<1>2. /\ new \in Seq(UseRow) /\ Len(new) = n /\ Len(rs) \in Nat /\ new[n] = Row(l, v)
      /\ \A i \in 1 .. Len(rs) : new[i] = rs[i]
      /\ DOMAIN new = 1 .. n /\ DOMAIN rs = 1 .. Len(rs)
  BY <1>1, AppendProperties
<1> HIDE DEF new
<1>3. \A i \in 1 .. n : i = n \/ i \in 1 .. Len(rs)
  BY <1>2
<1>4. n \in 1 .. n /\ \A i \in 1 .. Len(rs) : i \in 1 .. n /\ i # n
  BY <1>2
<1>5. Ascending(new)
  <2> SUFFICES ASSUME NEW i \in 1 .. n, NEW k \in 1 .. n, i < k
               PROVE  new[i].level < new[k].level
    BY <1>2 DEF Ascending
  <2>1. i \in 1 .. Len(rs)
    BY <1>2
  <2>2. CASE k = n
    BY <1>1, <1>2, <2>1, <2>2 DEF Levels
  <2>3. CASE k # n
    BY <1>2, <1>3, <2>1, <2>3 DEF Ascending
  <2> QED
    BY <2>2, <2>3
<1>6. Levels(new) = Levels(rs) \cup {l}
  BY <1>1, <1>2, <1>3, <1>4 DEF Levels
<1>7. Meaning(new)[l] = v
  <2>1. n \in 1 .. Len(new)
    BY <1>2
  <2> QED
    BY <1>1, <1>2, <1>5, <2>1, MeaningAt
<1>8. ASSUME NEW m \in Level, m # l
      PROVE  Meaning(new)[m] = Meaning(rs)[m]
  <2>1. \A i \in 1 .. Len(new) : new[i].level = m => \E k \in 1 .. Len(rs) : rs[k] = new[i]
    BY <1>1, <1>2, <1>3, <1>8
  <2>2. \A k \in 1 .. Len(rs) : rs[k].level = m => \E i \in 1 .. Len(new) : new[i] = rs[k]
    BY <1>2, <1>4
  <2> QED
    BY <1>2, <1>5, <2>1, <2>2, MeaningSame
<1> QED
  BY <1>2, <1>5, <1>6, <1>7, <1>8 DEF new

LEMMA ScaleFacts ==
  ASSUME NEW rs \in Seq(UseRow), Ascending(rs), NEW lo \in Quantities, NEW hi \in Quantities
  PROVE  LET new == [i \in DOMAIN rs |->
                       Row(rs[i].level,
                           Pair(Mul(lo, rs[i].interval.lo), Mul(hi, rs[i].interval.hi)))]
         IN  /\ new \in Seq(UseRow) /\ Ascending(new)
             /\ \A l \in Level :
                  Meaning(new)[l] =
                    Pair(Mul(lo, Meaning(rs)[l].lo), Mul(hi, Meaning(rs)[l].hi))
<1> DEFINE scaled(v) == Pair(Mul(lo, v.lo), Mul(hi, v.hi))
           new == [i \in DOMAIN rs |-> Row(rs[i].level, scaled(rs[i].interval))]
<1>1. \A v \in Interval : scaled(v) \in Interval
  BY ScaleTyped
<1>2. scaled(Unused) = Unused
  BY ScaleUnused
<1> HIDE DEF scaled
<1>3. DOMAIN rs = 1 .. Len(rs) /\ Len(rs) \in Nat
  OBVIOUS
<1>4. \A i \in 1 .. Len(rs) :
        /\ new[i] = Row(rs[i].level, scaled(rs[i].interval)) /\ new[i] \in UseRow
        /\ new[i].level = rs[i].level /\ new[i].interval = scaled(rs[i].interval)
  <2> SUFFICES ASSUME NEW i \in 1 .. Len(rs)
               PROVE  /\ new[i] = Row(rs[i].level, scaled(rs[i].interval)) /\ new[i] \in UseRow
                      /\ new[i].level = rs[i].level
                      /\ new[i].interval = scaled(rs[i].interval)
    OBVIOUS
  <2>1. rs[i].level \in Level /\ scaled(rs[i].interval) \in Interval
    BY <1>1, RowParts
  <2>2. new[i] = Row(rs[i].level, scaled(rs[i].interval))
    BY <1>3
  <2> QED
    BY <2>1, <2>2 DEF Row, UseRow
<1>5. new \in Seq(UseRow) /\ Len(new) = Len(rs) /\ DOMAIN new = 1 .. Len(rs)
  <2>1. new \in [1 .. Len(rs) -> UseRow]
    BY <1>3, <1>4
  <2> HIDE DEF new
  <2> QED
    BY <1>3, <2>1
<1> HIDE DEF new
<1>6. Ascending(new)
  BY <1>3, <1>4, <1>5 DEF Ascending
<1>7. ASSUME NEW l \in Level
      PROVE  Meaning(new)[l] = scaled(Meaning(rs)[l])
  <2>1. CASE l \in Levels(rs)
    <3>1. PICK i \in 1 .. Len(rs) : rs[i].level = l
      BY <2>1 DEF Levels
    <3>2. Meaning(rs)[l] = rs[i].interval
      BY <3>1, MeaningAt
    <3>3. i \in 1 .. Len(new) /\ new[i].level = l
      BY <1>4, <1>5, <3>1
    <3>4. Meaning(new)[l] = new[i].interval
      BY <1>5, <1>6, <3>3, MeaningAt
    <3> QED
      BY <1>4, <3>2, <3>4
  <2>2. CASE l \notin Levels(rs)
    <3>1. l \notin Levels(new)
      BY <1>4, <1>5, <2>2 DEF Levels
    <3>2. Meaning(rs)[l] = Unused
      BY <2>2, MeaningOut
    <3>3. Meaning(new)[l] = Unused
      BY <1>5, <3>1, MeaningOut
    <3> QED
      BY <1>2, <3>2, <3>3
  <2> QED
    BY <2>1, <2>2
<1> QED
  BY <1>5, <1>6, <1>7 DEF new, scaled

LEMMA LengthAfter ==
  ASSUME NEW n \in Nat, NEW i \in 1 .. n
  PROVE  (IF i + 1 <= n THEN n - (i + 1) + 1 ELSE 0) = n - i
OBVIOUS

\* quantity_remove_map drops the row of the level, and no other.
LEMMA RemoveFacts ==
  ASSUME NEW level \in Level, rows \in Seq(UseRow), Ascending(rows), RemoveRow(level)
  PROVE  /\ rows' \in Seq(UseRow) /\ Ascending(rows')
         /\ \A l \in Level : Meaning(rows')[l] = IF l = level THEN Unused ELSE Meaning(rows)[l]
<1> DEFINE at == {i \in 1 .. Len(rows) : rows[i].level = level}
           k == Seqs!SelectInSeq(rows, LAMBDA r : r.level = level)
<1>1. rows' = IF \E i \in 1 .. Len(rows) : rows[i].level = level
              THEN Seqs!RemoveAt(rows, k) ELSE rows
  BY DEF RemoveRow, Seqs!RemoveFirstMatch
<1>2. CASE at = {}
  <2>1. rows' = rows /\ level \notin Levels(rows)
    BY <1>1, <1>2 DEF Levels
  <2> QED
    BY <2>1, MeaningOut
<1>3. CASE at # {}
  <2>1. PICK i \in 1 .. Len(rows) : rows[i].level = level
    BY <1>3
  <2>2. at = {i}
    BY <2>1, OneRow
  <2>3. k = i
    <3>1. k = CHOOSE m \in at : \A n \in at : m <= n
      BY <1>3 DEF Seqs!SelectInSeq, Seqs!Min
    <3> HIDE DEF at, k
    <3>2. i \in Nat
      BY <2>1
    <3> QED
      BY <2>2, <3>1, <3>2
  <2>4. rows' = SubSeq(rows, 1, i - 1) \o SubSeq(rows, i + 1, Len(rows))
    BY <1>1, <2>1, <2>3 DEF Seqs!RemoveAt
  <2> HIDE DEF at, k
  <2> DEFINE low == SubSeq(rows, 1, i - 1)
             high == SubSeq(rows, i + 1, Len(rows))
             n == Len(rows) - 1
             from(m) == IF m < i THEN m ELSE m + 1
  <2>5. Len(rows) \in Nat /\ i \in 1 .. Len(rows) /\ DOMAIN rows = 1 .. Len(rows)
    BY <2>1
  <2>6. low \in Seq(UseRow) /\ Len(low) = i - 1 /\ \A m \in 1 .. i - 1 : low[m] = rows[m]
    BY <2>5, SubSeqProperties
  <2>7. /\ high \in Seq(UseRow) /\ Len(high) = Len(rows) - i
        /\ \A m \in 1 .. Len(rows) - i : high[m] = rows[m + i]
    <3>1. i + 1 \in Int /\ Len(rows) \in Int /\ \A m \in i + 1 .. Len(rows) : rows[m] \in UseRow
      BY <2>5
    <3>2. /\ high \in Seq(UseRow)
          /\ Len(high) = IF i + 1 <= Len(rows) THEN Len(rows) - (i + 1) + 1 ELSE 0
          /\ \A m \in 1 .. Len(rows) - (i + 1) + 1 : high[m] = rows[i + 1 + m - 1]
      BY <3>1, SubSeqProperties
    <3>3. Len(high) = Len(rows) - i
      BY <2>5, <3>2, LengthAfter
    <3>4. \A m \in 1 .. Len(rows) - i :
            m \in 1 .. Len(rows) - (i + 1) + 1 /\ i + 1 + m - 1 = m + i
      BY <2>5
    <3> QED
      BY <3>2, <3>3, <3>4
  <2> HIDE DEF low, high
  <2>8. /\ rows' \in Seq(UseRow) /\ Len(rows') = n /\ DOMAIN rows' = 1 .. n
        /\ \A m \in 1 .. n : rows'[m] = rows[from(m)]
    <3>1. rows' = low \o high
      BY <2>4 DEF low, high
    <3>2. /\ low \o high \in Seq(UseRow) /\ Len(low \o high) = Len(low) + Len(high)
          /\ \A m \in 1 .. Len(low) + Len(high) :
               (low \o high)[m] = IF m <= Len(low) THEN low[m] ELSE high[m - Len(low)]
      BY <2>6, <2>7, ConcatProperties
    <3>3. Len(low) + Len(high) = n
      BY <2>5, <2>6, <2>7
    <3>4. \A m \in 1 .. n : rows'[m] = IF m <= i - 1 THEN low[m] ELSE high[m - (i - 1)]
      BY <2>6, <3>1, <3>2, <3>3
    <3>5. ASSUME NEW m \in 1 .. n PROVE rows'[m] = rows[from(m)]
      <4>1. CASE m < i
        BY <2>5, <2>6, <3>4, <4>1
      <4>2. CASE m >= i
        <5>1. m - (i - 1) \in 1 .. Len(rows) - i /\ ~(m <= i - 1)
          BY <2>5, <4>2
        <5>2. rows'[m] = rows[m - (i - 1) + i]
          BY <2>7, <3>4, <5>1
        <5>3. m - (i - 1) + i = m + 1 /\ ~(m < i)
          BY <2>5, <4>2
        <5> QED
          BY <5>2, <5>3
      <4> QED
        BY <2>5, <4>1, <4>2
    <3> QED
      BY <3>1, <3>2, <3>3, <3>5
  <2>9. /\ \A m \in 1 .. n : from(m) \in 1 .. Len(rows) /\ from(m) # i
        /\ \A m, p \in 1 .. n : m < p => from(m) < from(p)
        /\ \A m \in 1 .. Len(rows) : m # i => \E p \in 1 .. n : from(p) = m
    <3>1. ASSUME NEW m \in 1 .. Len(rows), m # i PROVE \E p \in 1 .. n : from(p) = m
      <4>1. CASE m < i
        BY <2>5, <4>1
      <4>2. CASE m > i
        <5>1. m - 1 \in 1 .. n /\ from(m - 1) = m
          BY <2>5, <4>2
        <5> QED
          BY <5>1
      <4> QED
        BY <2>5, <3>1, <4>1, <4>2
    <3> QED
      BY <2>5, <3>1
  <2> HIDE DEF from, n
  <2>10. Ascending(rows')
    BY <2>5, <2>8, <2>9 DEF Ascending
  <2>11. ASSUME NEW l \in Level, l # level
         PROVE  Meaning(rows')[l] = Meaning(rows)[l]
    <3>1. \A m \in 1 .. Len(rows') :
            rows'[m].level = l => \E p \in 1 .. Len(rows) : rows[p] = rows'[m]
      BY <2>8, <2>9
    <3>2. \A p \in 1 .. Len(rows) :
            rows[p].level = l => \E m \in 1 .. Len(rows') : rows'[m] = rows[p]
      <4> SUFFICES ASSUME NEW p \in 1 .. Len(rows), rows[p].level = l
                   PROVE  \E m \in 1 .. Len(rows') : rows'[m] = rows[p]
        OBVIOUS
      <4>1. p # i
        BY <2>1, <2>11
      <4>2. PICK m \in 1 .. n : from(m) = p
        BY <2>9, <4>1
      <4> QED
        BY <2>8, <4>2
    <3> QED
      BY <2>8, <2>10, <3>1, <3>2, MeaningSame
  <2>12. Meaning(rows')[level] = Unused
    <3>1. level \notin Levels(rows')
      <4> SUFFICES ASSUME NEW m \in 1 .. n, rows'[m].level = level PROVE FALSE
        BY <2>8 DEF Levels
      <4>1. from(m) \in 1 .. Len(rows) /\ from(m) # i /\ rows[from(m)].level = level
        BY <2>8, <2>9
      <4> QED
        BY <2>1, <4>1, OneRow
    <3> QED
      BY <2>8, <3>1, MeaningOut
  <2> QED
    BY <2>8, <2>10, <2>11, <2>12
<1> QED
  BY <1>2, <1>3

-----------------------------------------------------------------------------
(***************************************************************************)
(* The merge.                                                              *)
(***************************************************************************)

LEMMA ListsTyped ==
  ASSUME NEW rs \in Lists
  PROVE  rs \in Seq(UseRow) /\ Ascending(rs)
<1>1. PICK n \in 0 .. Depth : rs \in [1 .. n -> [level : Level, interval : Intervals]]
  BY DEF Lists
<1>2. rs \in [1 .. n -> UseRow]
  BY <1>1, IntervalsAssumption DEF UseRow
<1>3. n \in Nat
  BY DepthAssumption
<1> QED
  BY <1>2, <1>3, SeqDef DEF Lists

LEMMA NothingMade ==
  /\ << >> \in Seq(UseRow) /\ Ascending(<< >>) /\ Levels(<< >>) = {}
BY DEF Ascending, Levels

LEMMA InitInv ==
  ASSUME Init
  PROVE  Inv
<1>1. /\ rows \in Seq(UseRow) /\ Ascending(rows) /\ meaning = Meaning(rows)
      /\ join = Idle /\ a = << >> /\ b = << >> /\ out = << >>
  BY ListsTyped DEF Init
<1>2. meaning \in [Level -> Interval]
  <2>1. \A l \in Level : Meaning(rows)[l] \in Interval
    BY <1>1, MeaningTyped
  <2> QED
    BY <1>1, <2>1 DEF Meaning
<1>3. TypeOK /\ Ordered
  BY <1>1, <1>2, NothingMade DEF TypeOK, Ordered
<1>4. Split
  BY <1>1 DEF Split
<1> QED
  BY <1>3, <1>4 DEF Inv

LEMMA BeginInv ==
  ASSUME Inv, NEW j \in Joins, NEW list \in Lists, NEW other \in BOOLEAN, Begin(j, list, other)
  PROVE  Inv'
<1>1. /\ join = Idle /\ join' = j /\ out' = << >> /\ rows' = rows /\ j # Idle
  BY DEF Begin, Joins, Idle
<1>2. /\ rows \in Seq(UseRow) /\ Ascending(rows) /\ list \in Seq(UseRow) /\ Ascending(list)
      /\ meaning \in [Level -> Interval] /\ \A l \in Level : meaning[l] = Meaning(rows)[l]
  BY <1>1, ListsTyped DEF Inv, TypeOK, Ordered, Split
<1>3. /\ a' \in Seq(UseRow) /\ b' \in Seq(UseRow) /\ Ascending(a') /\ Ascending(b')
      /\ \A l \in Level : meaning'[l] = JoinInterval(j, Meaning(a')[l], Meaning(b')[l])
      /\ DOMAIN meaning' = Level /\ meaning' = [l \in Level |-> meaning'[l]]
  <2>1. CASE other
    BY <1>2, <2>1 DEF Begin
  <2>2. CASE ~other
    BY <1>2, <2>2 DEF Begin
  <2> QED
    BY <2>1, <2>2
<1>4. \A l \in Level : meaning'[l] \in Interval
  <2> SUFFICES ASSUME NEW l \in Level PROVE meaning'[l] \in Interval
    OBVIOUS
  <2>1. Meaning(a')[l] \in Interval /\ Meaning(b')[l] \in Interval
    BY <1>3, MeaningTyped
  <2> QED
    BY <1>3, <2>1, JoinTyped
<1>5. TypeOK'
  <2>1. meaning' \in [Level -> Interval]
    BY <1>3, <1>4
  <2> QED
    BY <1>1, <1>2, <1>3, <2>1, NothingMade DEF TypeOK
<1>6. Ordered'
  BY <1>1, <1>2, <1>3, NothingMade DEF Ordered
<1>7. Split'
  BY <1>1, <1>3, NothingMade DEF Split
<1> QED
  BY <1>5, <1>6, <1>7 DEF Inv

\* What every step of the merge does: the lowest level l that is left goes,
\* with the row v, from the lists to what is made.
LEMMA StepInv ==
  ASSUME Inv, join # Idle, NEW l \in Level, NEW v \in Interval,
         v = JoinInterval(join, Meaning(a)[l], Meaning(b)[l]),
         out' = Append(out, Row(l, v)), UNCHANGED <<rows, meaning, join>>,
         a' \in Seq(UseRow), Ascending(a'), b' \in Seq(UseRow), Ascending(b'),
         l \in Levels(a) \cup Levels(b),
         Levels(a') \subseteq Levels(a), Levels(b') \subseteq Levels(b),
         \A m \in Levels(a') \cup Levels(b') : l < m,
         \A m \in Level : m # l => /\ Meaning(a')[m] = Meaning(a)[m]
                                   /\ Meaning(b')[m] = Meaning(b)[m]
  PROVE  Inv'
<1>1. /\ out \in Seq(UseRow) /\ Ascending(out) /\ \A m \in Levels(out) : m < l
      /\ \A k \in Levels(out) : \A m \in Levels(a) \cup Levels(b) : k < m
      /\ rows \in Seq(UseRow) /\ Ascending(rows) /\ TypeOK
  BY DEF Inv, TypeOK, Ordered
<1>2. /\ out' \in Seq(UseRow) /\ Ascending(out') /\ Levels(out') = Levels(out) \cup {l}
      /\ Meaning(out')[l] = v
      /\ \A m \in Level : m # l => Meaning(out')[m] = Meaning(out)[m]
  BY <1>1, AppendFacts
<1>3. TypeOK'
  BY <1>1, <1>2 DEF TypeOK
<1>4. Ordered'
  BY <1>1, <1>2 DEF Ordered
<1>5. Split'
  <2>1. ASSUME NEW m \in Level
        PROVE  meaning[m] = IF m \in Levels(out') THEN Meaning(out')[m]
                            ELSE JoinInterval(join, Meaning(a')[m], Meaning(b')[m])
    <3>1. meaning[m] = IF m \in Levels(out) THEN Meaning(out)[m]
                       ELSE JoinInterval(join, Meaning(a)[m], Meaning(b)[m])
      BY DEF Inv, Split
    <3>2. CASE m = l
      <4>1. l \notin Levels(out)
        BY <1>1, DepthAssumption DEF Level
      <4> QED
        BY <1>2, <3>1, <3>2, <4>1
    <3>3. CASE m # l
      BY <1>2, <3>1, <3>3
    <3> QED
      BY <3>2, <3>3
  <2> QED
    BY <2>1 DEF Split
<1> QED
  BY <1>3, <1>4, <1>5 DEF Inv

\* A level below the first of a list has no row in it.
LEMMA BelowHead ==
  ASSUME NEW rs \in Seq(UseRow), Ascending(rs), NEW l \in Level,
         rs # << >> => l < Head(rs).level
  PROVE  /\ Meaning(rs)[l] = Unused /\ \A m \in Levels(rs) : l < m
<1>1. \A m \in Levels(rs) : l < m
  <2>1. CASE rs = << >>
    BY <2>1 DEF Levels
  <2>2. CASE rs # << >>
    <3>1. /\ Levels(Tail(rs)) = Levels(rs) \ {Head(rs).level}
          /\ \A m \in Levels(Tail(rs)) : Head(rs).level < m
          /\ Head(rs).level \in Level
      BY <2>2, TailFacts
    <3>2. \A m \in Levels(rs) : m \in Nat
      BY RowParts DEF Levels
    <3>3. Head(rs).level \in Nat /\ l \in Nat
      BY <3>1, DepthAssumption DEF Level
    <3> QED
      BY <2>2, <3>1, <3>2, <3>3
  <2> QED
    BY <2>1, <2>2
<1>2. l \notin Levels(rs)
  BY <1>1, DepthAssumption DEF Level
<1> QED
  BY <1>1, <1>2, MeaningOut

LEMMA TakeLeftInv ==
  ASSUME Inv, TakeLeft
  PROVE  Inv'
<1> DEFINE l == Head(a).level
           v == JoinInterval(join, Head(a).interval, Unused)
<1>1. /\ a \in Seq(UseRow) /\ Ascending(a) /\ b \in Seq(UseRow) /\ Ascending(b)
      /\ a # << >> /\ join \in Joins /\ join # Idle /\ (b # << >> => l < Head(b).level)
      /\ out' = Append(out, Row(l, v)) /\ a' = Tail(a) /\ b' = b
      /\ UNCHANGED <<rows, meaning, join>>
  BY DEF Inv, TypeOK, Ordered, TakeLeft, Emit, Merging
<1>2. /\ l \in Level /\ Head(a).interval \in Interval /\ l \in Levels(a)
      /\ a' \in Seq(UseRow) /\ Ascending(a') /\ Levels(a') \subseteq Levels(a)
      /\ \A m \in Levels(a') : l < m
      /\ \A m \in Level : m # l => Meaning(a')[m] = Meaning(a)[m]
  BY <1>1, TailFacts
<1>3. Meaning(a)[l] = Head(a).interval
  BY <1>1, TailFacts
<1>4. v \in Interval
  BY <1>1, <1>2, JoinTyped, UnusedTyped
<1>5. Meaning(b)[l] = Unused /\ \A m \in Levels(b) : l < m
  BY <1>1, <1>2, BelowHead
<1>6. v = JoinInterval(join, Meaning(a)[l], Meaning(b)[l])
  BY <1>3, <1>5
<1> HIDE DEF l, v
<1> QED
  BY <1>1, <1>2, <1>4, <1>5, <1>6, StepInv

LEMMA TakeRightInv ==
  ASSUME Inv, TakeRight
  PROVE  Inv'
<1> DEFINE l == Head(b).level
           v == JoinInterval(join, Unused, Head(b).interval)
<1>1. /\ a \in Seq(UseRow) /\ Ascending(a) /\ b \in Seq(UseRow) /\ Ascending(b)
      /\ b # << >> /\ join \in Joins /\ join # Idle /\ (a # << >> => l < Head(a).level)
      /\ out' = Append(out, Row(l, v)) /\ b' = Tail(b) /\ a' = a
      /\ UNCHANGED <<rows, meaning, join>>
  BY DEF Inv, TypeOK, Ordered, TakeRight, Emit, Merging
<1>2. /\ l \in Level /\ Head(b).interval \in Interval /\ l \in Levels(b)
      /\ b' \in Seq(UseRow) /\ Ascending(b') /\ Levels(b') \subseteq Levels(b)
      /\ \A m \in Levels(b') : l < m
      /\ \A m \in Level : m # l => Meaning(b')[m] = Meaning(b)[m]
  BY <1>1, TailFacts
<1>3. Meaning(b)[l] = Head(b).interval
  BY <1>1, TailFacts
<1>4. v \in Interval
  BY <1>1, <1>2, JoinTyped, UnusedTyped
<1>5. Meaning(a)[l] = Unused /\ \A m \in Levels(a) : l < m
  BY <1>1, <1>2, BelowHead
<1>6. v = JoinInterval(join, Meaning(a)[l], Meaning(b)[l])
  BY <1>3, <1>5
<1> HIDE DEF l, v
<1> QED
  BY <1>1, <1>2, <1>4, <1>5, <1>6, StepInv

LEMMA TakeBothInv ==
  ASSUME Inv, TakeBoth
  PROVE  Inv'
<1> DEFINE l == Head(a).level
           v == JoinInterval(join, Head(a).interval, Head(b).interval)
<1>1. /\ a \in Seq(UseRow) /\ Ascending(a) /\ b \in Seq(UseRow) /\ Ascending(b)
      /\ a # << >> /\ b # << >> /\ join \in Joins /\ join # Idle /\ Head(b).level = l
      /\ out' = Append(out, Row(l, v)) /\ a' = Tail(a) /\ b' = Tail(b)
      /\ UNCHANGED <<rows, meaning, join>>
  BY DEF Inv, TypeOK, Ordered, TakeBoth, Emit, Merging
<1>2. /\ l \in Level /\ Head(a).interval \in Interval /\ l \in Levels(a)
      /\ a' \in Seq(UseRow) /\ Ascending(a') /\ Levels(a') \subseteq Levels(a)
      /\ \A m \in Levels(a') : l < m
      /\ \A m \in Level : m # l => Meaning(a')[m] = Meaning(a)[m]
  BY <1>1, TailFacts
<1>3. /\ Head(b).interval \in Interval
      /\ b' \in Seq(UseRow) /\ Ascending(b') /\ Levels(b') \subseteq Levels(b)
      /\ \A m \in Levels(b') : l < m
      /\ \A m \in Level : m # l => Meaning(b')[m] = Meaning(b)[m]
  BY <1>1, TailFacts
<1>4. Meaning(a)[l] = Head(a).interval /\ Meaning(b)[l] = Head(b).interval
  BY <1>1, TailFacts
<1>5. v \in Interval
  BY <1>1, <1>2, <1>3, JoinTyped
<1>6. v = JoinInterval(join, Meaning(a)[l], Meaning(b)[l])
  BY <1>4
<1> HIDE DEF l, v
<1> QED
  BY <1>1, <1>2, <1>3, <1>5, <1>6, StepInv

LEMMA EndInv ==
  ASSUME Inv, End
  PROVE  Inv'
<1>1. /\ TypeOK /\ Ordered /\ join \in Joins /\ a = << >> /\ b = << >> /\ join # Idle
      /\ rows' = out /\ join' = Idle /\ out' = << >> /\ UNCHANGED <<meaning, a, b>>
  BY DEF Inv, TypeOK, End, Merging
<1>2. out \in Seq(UseRow) /\ Ascending(out)
  BY <1>1 DEF TypeOK, Ordered
<1>3. TypeOK' /\ Ordered'
  BY <1>1, <1>2, NothingMade DEF TypeOK, Ordered
<1>4. ASSUME NEW l \in Level
      PROVE  meaning[l] = Meaning(out)[l]
  <2>1. meaning[l] = IF l \in Levels(out) THEN Meaning(out)[l]
                     ELSE JoinInterval(join, Meaning(a)[l], Meaning(b)[l])
    BY <1>1 DEF Inv, Split
  <2>2. Meaning(a)[l] = Unused /\ Meaning(b)[l] = Unused
    BY <1>1, NothingMade, MeaningOut
  <2>3. l \notin Levels(out) => Meaning(out)[l] = Unused
    BY <1>2, MeaningOut
  <2> QED
    BY <1>1, <2>1, <2>2, <2>3, JoinUnused
<1>5. Split'
  BY <1>1, <1>4 DEF Split
<1> QED
  BY <1>3, <1>5 DEF Inv

LEMMA ScaleInv ==
  ASSUME Inv, NEW lo \in Quantities, NEW hi \in Quantities, ScaleRows(lo, hi)
  PROVE  Inv'
<1>1. /\ TypeOK /\ Ordered /\ join = Idle /\ UNCHANGED <<join, a, b, out>>
      /\ rows \in Seq(UseRow) /\ Ascending(rows) /\ meaning \in [Level -> Interval]
      /\ \A l \in Level : meaning[l] = Meaning(rows)[l]
      /\ meaning' = [l \in Level |-> Pair(Mul(lo, meaning[l].lo), Mul(hi, meaning[l].hi))]
  BY DEF Inv, TypeOK, Ordered, Split, ScaleRows
<1>2. /\ rows' \in Seq(UseRow) /\ Ascending(rows')
      /\ \A l \in Level :
           Meaning(rows')[l] = Pair(Mul(lo, Meaning(rows)[l].lo), Mul(hi, Meaning(rows)[l].hi))
  BY <1>1, ScaleFacts DEF ScaleRows
<1>3. meaning' \in [Level -> Interval]
  BY <1>1, ScaleTyped
<1>4. TypeOK' /\ Ordered'
  BY <1>1, <1>2, <1>3 DEF TypeOK, Ordered
<1>5. Split'
  BY <1>1, <1>2 DEF Split
<1> QED
  BY <1>4, <1>5 DEF Inv

LEMMA RemoveInv ==
  ASSUME Inv, NEW level \in Level, RemoveRow(level)
  PROVE  Inv'
<1>1. /\ TypeOK /\ Ordered /\ join = Idle /\ UNCHANGED <<join, a, b, out>>
      /\ rows \in Seq(UseRow) /\ Ascending(rows) /\ meaning \in [Level -> Interval]
      /\ \A l \in Level : meaning[l] = Meaning(rows)[l]
      /\ meaning' = [meaning EXCEPT ![level] = Unused]
  BY DEF Inv, TypeOK, Ordered, Split, RemoveRow
<1>2. /\ rows' \in Seq(UseRow) /\ Ascending(rows')
      /\ \A l \in Level : Meaning(rows')[l] = IF l = level THEN Unused ELSE Meaning(rows)[l]
  BY <1>1, RemoveFacts
<1>3. meaning' \in [Level -> Interval]
  BY <1>1, UnusedTyped
<1>4. TypeOK' /\ Ordered'
  BY <1>1, <1>2, <1>3 DEF TypeOK, Ordered
<1>5. Split'
  BY <1>1, <1>2 DEF Split
<1> QED
  BY <1>4, <1>5 DEF Inv

LEMMA NextInv ==
  ASSUME Inv, [Next]_vars
  PROVE  Inv'
<1>1. CASE Next
  BY <1>1, BeginInv, TakeLeftInv, TakeRightInv, TakeBothInv, EndInv, ScaleInv, RemoveInv DEF Next
<1>2. CASE UNCHANGED vars
  BY <1>2 DEF vars, Inv, TypeOK, Ordered, Split, Ascending, Levels
<1> QED
  BY <1>1, <1>2

\* During a join the rows made and the rows left are in order and say what
\* quantity_join has to.
THEOREM InvInvariant == Spec => []Inv
<1>1. Init => Inv
  BY InitInv
<1>2. Inv /\ [Next]_vars => Inv'
  BY NextInv
<1> QED
  BY <1>1, <1>2, PTL DEF Spec

\* Between operations the sorted list, as quantity_interval reads it, is the
\* function the algebra of module Quantity says: merging, scaling and cutting
\* lose no use of a local, and count none for another.
THEOREM RowsAlwaysRight == Spec => []RowsRight
<1>1. Inv => RowsRight
  <2> SUFFICES ASSUME Inv, join = Idle, NEW l \in Level PROVE Lookup(l, rows) = meaning[l]
    BY DEF RowsRight
  <2>1. rows \in Seq(UseRow) /\ Ascending(rows) /\ meaning[l] = Meaning(rows)[l]
    BY DEF Inv, TypeOK, Ordered, Split
  <2> QED
    BY <2>1, LookupMeans
<1> QED
  BY <1>1, InvInvariant, PTL

=============================================================================

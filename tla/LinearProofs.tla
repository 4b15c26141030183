---------------------------- MODULE LinearProofs ----------------------------
(***************************************************************************)
(* Proofs about the quantity discipline of module Linear.                  *)
(***************************************************************************)
EXTENDS Linear, TLAPS, SequenceTheorems

Sound(e) == e \in Entry /\ Enclosed(e)

Scoped == \A i \in 1 .. Size : locals[i].lower < i

(* A term runs somewhere: to its end or into a dead end.                   *)
Live(e) == e.runs # {} \/ e.dead # {}
Lively == \A e \in Entries : e.kind = "term" => Live(e)

(* Where no run ends dead, the interval has no slack: a run reaches each    *)
(* end of it, and nothing is read that no run consumes.                    *)
Tight(e) ==
  Straight(e) => \A l \in Level :
    IF e.runs = {} THEN e.use.reads[l].hi = Zero
    ELSE /\ \E r \in e.runs : r.count[l] = e.use.paths[l].lo
         /\ \E r \in e.runs : r.count[l] = e.use.paths[l].hi
         /\ e.use.reads[l].hi = e.use.paths[l].hi
Exact == \A e \in Entries : Tight(e)

IInv == TypeOK /\ Scoped /\ Hulls /\ Lively /\ Exact

-----------------------------------------------------------------------------
(* The semiring. *)
LEMMA QuantityOps ==
  ASSUME NEW a \in Quantities, NEW b \in Quantities
  PROVE  /\ Add(a, b) \in Quantities
         /\ Mul(a, b) \in Quantities
         /\ Minimum(a, b) \in Quantities
         /\ Maximum(a, b) \in Quantities
         /\ Runtime(a) \in Quantities
         /\ Minimum(a, b) <= a /\ Minimum(a, b) <= b
         /\ a <= Maximum(a, b) /\ b <= Maximum(a, b)
  BY DEF Add, Mul, Minimum, Maximum, Runtime, Quantities, Zero, One, Many

LEMMA Monotone ==
  ASSUME NEW a \in Quantities, NEW b \in Quantities,
         NEW c \in Quantities, NEW d \in Quantities,
         a <= c, b <= d
  PROVE  /\ Add(a, b) <= Add(c, d)
         /\ Mul(a, b) <= Mul(c, d)
         /\ Maximum(a, b) <= Maximum(c, d)
  BY DEF Add, Mul, Maximum, Quantities, Zero, One, Many

-----------------------------------------------------------------------------
(* The usage operators are typed. *)
LEMMA RowsType ==
  ASSUME NEW a \in Rows, NEW b \in Rows, NEW q \in Quantities
  PROVE  /\ NoRows \in Rows
         /\ Combine(Add, Add, a, b) \in Rows
         /\ Combine(Maximum, Maximum, a, b) \in Rows
         /\ Combine(Minimum, Maximum, a, b) \in Rows
         /\ Combine(Left, Maximum, a, b) \in Rows
         /\ ScaleMap(q, a) \in Rows
<1> USE DEF Rows, Interval, Pair
<1>1. NoRows \in Rows
  BY DEF NoRows, Unused, Quantities
<1>2. Combine(Add, Add, a, b) \in Rows
  BY QuantityOps DEF Combine
<1>3. Combine(Maximum, Maximum, a, b) \in Rows
  BY QuantityOps DEF Combine
<1>4. Combine(Minimum, Maximum, a, b) \in Rows
  BY QuantityOps DEF Combine
<1>5. Combine(Left, Maximum, a, b) \in Rows
  BY QuantityOps DEF Combine, Left
<1>6. ScaleMap(q, a) \in Rows
  BY QuantityOps DEF ScaleMap
<1> QED
  BY <1>1, <1>2, <1>3, <1>4, <1>5, <1>6

LEMMA SomeUsage == Empty \in Usage /\ Unreachable \in Usage /\ None \in Count
  BY DEF Empty, Returning, Unreachable, Usage, NoRows, Rows, Unused, Pair, Interval,
         None, Count, Quantities

LEMMA JoinType ==
  ASSUME NEW u \in Usage, NEW v \in Usage
  PROVE  Sequence(u, v) \in Usage /\ Alternative(u, v) \in Usage
<1>1. /\ u.paths \in Rows /\ v.paths \in Rows /\ u.reads \in Rows /\ v.reads \in Rows
      /\ NoRows \in Rows /\ Zero \in Quantities
  BY SomeUsage DEF Usage, Unreachable, Quantities
<1> QED
  BY <1>1, RowsType DEF Usage, Sequence, Alternative

LEMMA OccurrenceType ==
  ASSUME NEW l \in Level, NEW q \in Quantities
  PROVE  /\ Occurrence(l, q) \in Usage
         /\ [None EXCEPT ![l] = q] \in Count
<1>1. NoRows \in Rows /\ Pair(q, q) \in Interval
  BY SomeUsage DEF Unreachable, Usage, Pair, Interval
<1>2. Occurrence(l, q) \in Usage
  BY <1>1 DEF Occurrence, Returning, Usage, Rows
<1> QED
  BY <1>2, SomeUsage DEF Count

LEMMA ScaleType ==
  ASSUME NEW u \in Usage, NEW q \in Quantities
  PROVE  Scale(q, u) \in Usage
<1>1. ScaleMap(q, u.paths) \in Rows /\ ScaleMap(q, u.reads) \in Rows
  BY RowsType DEF Usage
<1> QED
  BY <1>1, SomeUsage DEF Scale, Usage

LEMMA CapturesType ==
  ASSUME NEW u \in Usage
  PROVE  Captures(u) \in Usage
<1>1. Combine(Left, Maximum, u.paths, u.reads) \in Rows
  BY RowsType, SomeUsage DEF Usage, Quantities
<1> QED
  BY <1>1 DEF Captures, Usage

LEMMA RemoveType ==
  ASSUME NEW u \in Usage, NEW ls
  PROVE  RemoveLevels(ls, u) \in Usage
<1>1. Unused \in Interval
  BY DEF Unused, Pair, Interval, Quantities
<1> QED
  BY <1>1 DEF RemoveLevels, Usage, Rows

-----------------------------------------------------------------------------
(* What each way of building a usage does to the enclosure of its runs.    *)
LEMMA Retag ==
  ASSUME NEW e, Sound(e), NEW k \in {"term", "arms"},
         NEW n \in 0 .. Depth, NEW m \in Quantities
  PROVE  /\ Sound([e EXCEPT !.size = n])
         /\ Sound([e EXCEPT !.mode = m])
         /\ Sound([e EXCEPT !.kind = k])
  BY DEF Sound, Entry, Enclosed

LEMMA CountType ==
  ASSUME NEW x \in Count
  PROVE  /\ \A y \in Count : Plus(x, y) \in Count
         /\ \A q \in Quantities : Times(q, x) \in Count
         /\ \A ls : Forget(ls, x) \in Count
<1>1. ASSUME NEW y \in Count PROVE Plus(x, y) \in Count
  BY QuantityOps DEF Plus, Count
<1>2. ASSUME NEW q \in Quantities PROVE Times(q, x) \in Count
  BY QuantityOps DEF Times, Count
<1>3. ASSUME NEW ls PROVE Forget(ls, x) \in Count
  BY DEF Forget, Count, Quantities
<1> QED
  BY <1>1, <1>2, <1>3

LEMMA LeafSound ==
  ASSUME Size \in 0 .. Depth, NEW m \in Quantities,
         NEW u \in Usage, NEW c \in Count, u.returns,
         \A k \in Level : u.paths[k] = Pair(c[k], c[k]) /\ u.reads[k] = Pair(c[k], c[k])
  PROVE  Sound(Leaf(m, u, c))
<1> DEFINE e == Leaf(m, u, c)
<1>1. e \in Entry
  BY DEF Leaf, Term, Entry, Run
<1>2. /\ e.use = u /\ e.dead = {}
      /\ e.runs = {[count |-> c, vacuous |-> FALSE]}
  BY DEF Leaf, Term
<1>3. \A k \in Level : c[k] <= c[k]
  BY DEF Count, Quantities, Zero, One, Many
<1>4. ASSUME NEW k \in Level
      PROVE  /\ u.paths[k].lo = c[k] /\ u.paths[k].hi = c[k]
             /\ u.reads[k].lo = c[k] /\ u.reads[k].hi = c[k]
  <2>1. u.paths[k] = Pair(c[k], c[k]) /\ u.reads[k] = Pair(c[k], c[k])
    OBVIOUS
  <2> QED
    BY <2>1 DEF Pair
<1> HIDE DEF e
<1>5. Enclosed(e)
  BY <1>2, <1>3, <1>4 DEF Enclosed
<1> QED
  BY <1>1, <1>5 DEF Sound, e

LEMMA EmptySound ==
  ASSUME Size \in 0 .. Depth, NEW m \in Quantities
  PROVE  Sound(Leaf(m, Empty, None))
<1>1. \A k \in Level : /\ Empty.paths[k] = Pair(None[k], None[k])
                       /\ Empty.reads[k] = Pair(None[k], None[k])
  BY DEF Empty, Returning, NoRows, None, Unused
<1> QED
  BY <1>1, SomeUsage, LeafSound DEF Empty, Returning

LEMMA ReadSound ==
  ASSUME Size \in 0 .. Depth, NEW m \in Quantities, NEW l \in Level
  PROVE  Sound(Leaf(m, Occurrence(l, m), [None EXCEPT ![l] = m]))
<1> DEFINE c == [None EXCEPT ![l] = m]
           u == Occurrence(l, m)
<1>1. c \in Count /\ u \in Usage
  BY OccurrenceType
<1>2. \A k \in Level : /\ u.paths[k] = Pair(c[k], c[k])
                       /\ u.reads[k] = Pair(c[k], c[k])
  BY DEF Occurrence, Returning, NoRows, None, Unused, Pair
<1>3. u.returns
  BY DEF Occurrence, Returning
<1> QED
  BY <1>1, <1>2, <1>3, LeafSound

(* The interval of a sequence is the sum of the intervals.                 *)
LEMMA ThenSound ==
  ASSUME Size \in 0 .. Depth, NEW m \in Quantities,
         NEW a, Sound(a), NEW b, Sound(b)
  PROVE  Sound(Then(m, a, b))
<1> DEFINE u == Sequence(a.use, b.use)
           e == Then(m, a, b)
<1>1. /\ a.use \in Usage /\ b.use \in Usage
      /\ a.runs \subseteq Run /\ b.runs \subseteq Run
      /\ a.dead \subseteq Count /\ b.dead \subseteq Count
  BY DEF Sound, Entry
<1>2. /\ e.use = u /\ e.runs = SeqRuns(a, b) /\ e.dead = SeqDead(a, b)
  BY DEF Then, Term
<1>3. ASSUME NEW r \in SeqRuns(a, b)
      PROVE  r \in Run
  <2>1. PICK s \in a.runs, t \in b.runs : r = Both(s, t)
    BY DEF SeqRuns
  <2>2. /\ s.count \in Count /\ t.count \in Count
        /\ s.vacuous \in BOOLEAN /\ t.vacuous \in BOOLEAN
    BY <1>1 DEF Run
  <2>3. Plus(s.count, t.count) \in Count
    BY <2>2, CountType
  <2> QED
    BY <2>1, <2>2, <2>3 DEF Both, Run
<1>4. ASSUME NEW x \in SeqDead(a, b)
      PROVE  x \in Count
  <2>1. CASE x \in a.dead
    BY <1>1, <2>1
  <2>2. CASE x \notin a.dead
    <3>1. PICK r \in a.runs, y \in b.dead : x = Plus(r.count, y)
      BY <2>2 DEF SeqDead
    <3>2. r.count \in Count /\ y \in Count
      BY <1>1 DEF Run
    <3> QED
      BY <3>1, <3>2, CountType
  <2> QED
    BY <2>1, <2>2
<1>5. e \in Entry
  <2>1. u \in Usage
    BY <1>1, JoinType
  <2> QED
    BY <2>1, <1>3, <1>4 DEF Then, Term, Entry
<1>6. u.returns <=> SeqRuns(a, b) # {}
  <2>1. u.returns <=> a.runs # {} /\ b.runs # {}
    BY DEF Sequence, Sound, Enclosed
  <2>2. ASSUME NEW s \in a.runs, NEW t \in b.runs
        PROVE  Both(s, t) \in SeqRuns(a, b)
    <3>1. <<s, t>> \in a.runs \X b.runs
      OBVIOUS
    <3> QED
      BY <3>1 DEF SeqRuns
  <2>3. SeqRuns(a, b) # {} => a.runs # {} /\ b.runs # {}
    BY DEF SeqRuns
  <2> QED
    BY <2>1, <2>2, <2>3
<1>7. ASSUME NEW l \in Level
      PROVE  /\ u.reads[l].lo = u.reads[l].hi
             /\ u.paths[l].hi <= u.reads[l].hi
             /\ \A x \in SeqDead(a, b) : x[l] <= u.reads[l].hi
             /\ \A r \in SeqRuns(a, b) :
                  /\ r.count[l] <= u.paths[l].hi
                  /\ ~r.vacuous => u.paths[l].lo <= r.count[l]
  <2> DEFINE ap == a.use.paths[l] ar == a.use.reads[l]
             bp == b.use.paths[l] br == b.use.reads[l]
  <2>1. /\ ap \in Interval /\ ar \in Interval /\ bp \in Interval /\ br \in Interval
    BY <1>1 DEF Usage, Rows
  <2>2. /\ ap.lo \in Quantities /\ ap.hi \in Quantities
        /\ ar.lo \in Quantities /\ ar.hi \in Quantities
        /\ bp.lo \in Quantities /\ bp.hi \in Quantities
        /\ br.lo \in Quantities /\ br.hi \in Quantities
    BY <2>1 DEF Interval
  <2>3. /\ ap.hi <= ar.hi /\ ar.lo = ar.hi /\ bp.hi <= br.hi /\ br.lo = br.hi
    BY DEF Sound, Enclosed
  <2>4. u.reads[l] = Pair(Add(ar.lo, br.lo), Add(ar.hi, br.hi))
    BY DEF Sequence, Combine
  <2>5. u.paths[l] = IF u.returns THEN Pair(Add(ap.lo, bp.lo), Add(ap.hi, bp.hi)) ELSE Unused
    BY DEF Sequence, Combine, NoRows
  <2>6. u.reads[l].lo = u.reads[l].hi
    BY <2>3, <2>4 DEF Pair
  <2>7. u.paths[l].hi <= u.reads[l].hi
    <3>1. CASE u.returns
      BY <3>1, <2>2, <2>3, <2>4, <2>5, Monotone DEF Pair
    <3>2. CASE ~u.returns
      <4>1. u.paths[l].hi = 0
        BY <3>2, <2>5 DEF Unused, Pair, Zero
      <4>2. Add(ar.hi, br.hi) \in Quantities
        BY <2>2, QuantityOps
      <4>3. u.reads[l].hi = Add(ar.hi, br.hi)
        BY <2>4 DEF Pair
      <4> QED
        BY <4>1, <4>2, <4>3 DEF Quantities, Zero, One, Many
    <3> QED
      BY <3>1, <3>2
  <2>8. ASSUME NEW x \in SeqDead(a, b)
        PROVE  x[l] <= u.reads[l].hi
    <3>1. CASE x \in a.dead
      <4>1. x[l] \in Quantities /\ x[l] <= ar.hi
        BY <1>1, <3>1 DEF Count, Sound, Enclosed
      <4>2. ar.hi <= Add(ar.hi, br.hi)
        BY <2>2 DEF Add, Quantities, Zero, One, Many
      <4>3. Add(ar.hi, br.hi) \in Quantities
        BY <2>2, QuantityOps
      <4> QED
        BY <4>1, <4>2, <4>3, <2>2, <2>4 DEF Pair, Quantities, Zero, One, Many
    <3>2. CASE x \notin a.dead
      <4>1. PICK r \in a.runs, y \in b.dead : x = Plus(r.count, y)
        BY <3>2 DEF SeqDead
      <4>2. r.count[l] \in Quantities /\ y[l] \in Quantities
        BY <1>1 DEF Run, Count
      <4>3. r.count[l] <= ap.hi /\ y[l] <= br.hi
        BY DEF Sound, Enclosed
      <4>4. r.count[l] <= ar.hi
        BY <4>2, <4>3, <2>2, <2>3 DEF Quantities, Zero, One, Many
      <4>5. Add(r.count[l], y[l]) <= Add(ar.hi, br.hi)
        BY <4>2, <4>3, <4>4, <2>2, Monotone
      <4> QED
        BY <4>1, <4>5, <2>4 DEF Plus, Pair
    <3> QED
      BY <3>1, <3>2
  <2>9. ASSUME NEW r \in SeqRuns(a, b)
        PROVE  /\ r.count[l] <= u.paths[l].hi
               /\ ~r.vacuous => u.paths[l].lo <= r.count[l]
    <3>1. PICK s \in a.runs, t \in b.runs : r = Both(s, t)
      BY DEF SeqRuns
    <3>2. u.returns
      BY <1>6
    <3>3. s.count[l] \in Quantities /\ t.count[l] \in Quantities
      BY <1>1 DEF Run, Count
    <3>4. /\ s.count[l] <= ap.hi /\ t.count[l] <= bp.hi
          /\ ~s.vacuous => ap.lo <= s.count[l]
          /\ ~t.vacuous => bp.lo <= t.count[l]
      BY DEF Sound, Enclosed
    <3>5. r.count[l] = Add(s.count[l], t.count[l]) /\ (r.vacuous <=> s.vacuous \/ t.vacuous)
      BY <3>1 DEF Both, Plus
    <3> DEFINE cs == s.count[l] ct == t.count[l]
    <3>6. u.paths[l].lo = Add(ap.lo, bp.lo) /\ u.paths[l].hi = Add(ap.hi, bp.hi)
      BY <3>2, <2>5 DEF Pair
    <3>7. Add(cs, ct) <= Add(ap.hi, bp.hi)
      BY <3>3, <3>4, <2>2, Monotone
    <3>8. ASSUME ~r.vacuous PROVE Add(ap.lo, bp.lo) <= Add(cs, ct)
      <4>1. ap.lo <= cs /\ bp.lo <= ct
        BY <3>4, <3>5, <3>8
      <4> QED
        BY <4>1, <3>3, <2>2, Monotone
    <3> QED
      BY <3>5, <3>6, <3>7, <3>8
  <2> QED
    BY <2>6, <2>7, <2>8, <2>9
<1> HIDE DEF e, u
<1>8. Enclosed(e)
  BY <1>2, <1>6, <1>7 DEF Enclosed
<1> QED
  BY <1>5, <1>8 DEF Sound, e
LEMMA Parts ==
  ASSUME NEW e, Sound(e), NEW l \in Level
  PROVE  /\ e.use \in Usage /\ e.runs \subseteq Run /\ e.dead \subseteq Count
         /\ e.use.paths \in Rows /\ e.use.reads \in Rows
         /\ e.use.paths[l].lo \in Quantities /\ e.use.paths[l].hi \in Quantities
         /\ e.use.reads[l].lo \in Quantities /\ e.use.reads[l].hi \in Quantities
         /\ e.use.paths[l].hi <= e.use.reads[l].hi
         /\ e.use.reads[l].lo = e.use.reads[l].hi
         /\ \A r \in e.runs : /\ r.count[l] \in Quantities
                              /\ r.vacuous \in BOOLEAN
                              /\ r.count[l] <= e.use.paths[l].hi
                              /\ r.count[l] <= e.use.reads[l].hi
                              /\ ~r.vacuous => e.use.paths[l].lo <= r.count[l]
         /\ \A x \in e.dead : x[l] \in Quantities /\ x[l] <= e.use.reads[l].hi
<1>1. e.use \in Usage /\ e.runs \subseteq Run /\ e.dead \subseteq Count
  BY DEF Sound, Entry
<1>2. e.use.paths \in Rows /\ e.use.reads \in Rows
  BY <1>1 DEF Usage
<1>3. e.use.paths[l] \in Interval /\ e.use.reads[l] \in Interval
  BY <1>2 DEF Rows
<1>4. /\ e.use.paths[l].lo \in Quantities /\ e.use.paths[l].hi \in Quantities
      /\ e.use.reads[l].lo \in Quantities /\ e.use.reads[l].hi \in Quantities
  BY <1>3 DEF Interval
<1>5. /\ e.use.paths[l].hi <= e.use.reads[l].hi
      /\ e.use.reads[l].lo = e.use.reads[l].hi
  BY DEF Sound, Enclosed
<1>6. ASSUME NEW r \in e.runs
      PROVE  /\ r.count[l] \in Quantities
             /\ r.vacuous \in BOOLEAN
             /\ r.count[l] <= e.use.paths[l].hi
             /\ r.count[l] <= e.use.reads[l].hi
             /\ ~r.vacuous => e.use.paths[l].lo <= r.count[l]
  <2>1. r.count[l] \in Quantities /\ r.vacuous \in BOOLEAN
    BY <1>1 DEF Run, Count
  <2>2. r.count[l] <= e.use.paths[l].hi /\ (~r.vacuous => e.use.paths[l].lo <= r.count[l])
    BY DEF Sound, Enclosed
  <2>3. r.count[l] <= e.use.reads[l].hi
    BY <2>1, <2>2, <1>4, <1>5 DEF Quantities, Zero, One, Many
  <2> QED
    BY <2>1, <2>2, <2>3
<1>7. ASSUME NEW x \in e.dead
      PROVE  x[l] \in Quantities /\ x[l] <= e.use.reads[l].hi
  BY <1>1 DEF Count, Sound, Enclosed
<1> QED
  BY <1>1, <1>2, <1>4, <1>5, <1>6, <1>7

LEMMA ThenLive ==
  ASSUME NEW m, NEW a, NEW b, Live(a), Live(b)
  PROVE  Live(Then(m, a, b))
<1>1. ASSUME NEW r \in a.runs, NEW t \in b.runs
      PROVE  SeqRuns(a, b) # {}
  <2>1. <<r, t>> \in a.runs \X b.runs
    OBVIOUS
  <2> QED
    BY <2>1 DEF SeqRuns
<1>2. ASSUME NEW r \in a.runs, NEW x \in b.dead
      PROVE  SeqDead(a, b) # {}
  <2>1. <<r, x>> \in a.runs \X b.dead
    OBVIOUS
  <2> QED
    BY <2>1 DEF SeqDead
<1>3. a.dead # {} => SeqDead(a, b) # {}
  BY DEF SeqDead
<1> QED
  BY <1>1, <1>2, <1>3 DEF Live, Then, Term

(* An erased part runs nothing; a part under w runs any number of times.   *)
LEMMA ScaledSound ==
  ASSUME Size \in 0 .. Depth, NEW m \in Quantities, NEW q \in Quantities,
         NEW a, Sound(a)
  PROVE  /\ Sound(Scaled(m, q, a))
         /\ Live(a) \/ q = Zero => Live(Scaled(m, q, a))
<1>1. CASE q = Zero
  <2>1. Scaled(m, q, a) = Leaf(m, Empty, None)
    BY <1>1 DEF Scaled
  <2>2. Leaf(m, Empty, None).runs # {}
    BY DEF Leaf, Term
  <2> QED
    BY <2>1, <2>2, EmptySound DEF Live
<1>2. CASE q # Zero
  <2> DEFINE u == Scale(q, a.use)
             rs == OnRuns(LAMBDA x : Times(q, x), a.runs)
             ds == {Times(q, x) : x \in a.dead}
             e == Scaled(m, q, a)
  <2>0. a.use \in Usage /\ a.runs \subseteq Run /\ a.dead \subseteq Count
    BY DEF Sound, Entry
  <2>1. /\ e = Term(m, u, rs, ds)
        /\ e.use = u /\ e.runs = rs /\ e.dead = ds
    <3>1. e = Term(m, u, rs, ds)
      BY <1>2 DEF Scaled
    <3> HIDE DEF e, u, rs, ds
    <3> QED
      BY <3>1 DEF Term
  <2>2. ASSUME NEW r \in rs PROVE r \in Run
    <3>1. PICK s \in a.runs : r = [s EXCEPT !.count = Times(q, s.count)]
      BY DEF OnRuns
    <3>2. s \in Run /\ s.count \in Count
      BY <2>0 DEF Run
    <3> QED
      BY <3>1, <3>2, CountType DEF Run
  <2>3. ASSUME NEW y \in ds PROVE y \in Count
    BY <2>0, CountType
  <2>4. e \in Entry
    <3>1. u \in Usage
      BY <2>0, ScaleType
    <3>2. rs \subseteq Run /\ ds \subseteq Count
      BY <2>2, <2>3
    <3>3. e = Term(m, u, rs, ds)
      BY <2>1
    <3> HIDE DEF e, u, rs, ds
    <3> QED
      BY <3>1, <3>2, <3>3 DEF Term, Entry
  <2>5. u.returns <=> rs # {}
    <3>1. u.returns <=> a.use.returns
      BY <1>2, <2>0 DEF Scale, Usage
    <3>2. a.use.returns <=> a.runs # {}
      BY DEF Sound, Enclosed
    <3>3. rs # {} <=> a.runs # {}
      BY DEF OnRuns
    <3> QED
      BY <3>1, <3>2, <3>3
  <2>6. ASSUME NEW l \in Level
        PROVE  /\ u.reads[l].lo = u.reads[l].hi
               /\ u.paths[l].hi <= u.reads[l].hi
               /\ \A x \in ds : x[l] <= u.reads[l].hi
               /\ \A r \in rs : /\ r.count[l] <= u.paths[l].hi
                                /\ ~r.vacuous => u.paths[l].lo <= r.count[l]
    <3> DEFINE p == a.use.paths[l] d == a.use.reads[l]
    <3>1. /\ u.paths[l].lo = Mul(q, p.lo) /\ u.paths[l].hi = Mul(q, p.hi)
          /\ u.reads[l].lo = Mul(q, d.lo) /\ u.reads[l].hi = Mul(q, d.hi)
      BY <1>2, <2>0 DEF Scale, ScaleMap, Pair, Usage
    <3>2. /\ p.lo \in Quantities /\ p.hi \in Quantities /\ p.hi <= d.hi
          /\ d.lo \in Quantities /\ d.hi \in Quantities /\ d.lo = d.hi
      BY Parts
    <3>3. q <= q
      BY DEF Quantities, Zero, One, Many
    <3>4. u.paths[l].hi <= u.reads[l].hi
      BY <3>1, <3>2, <3>3, Monotone
    <3>5. ASSUME NEW x \in ds PROVE x[l] <= u.reads[l].hi
      <4>1. PICK y \in a.dead : x = Times(q, y)
        OBVIOUS
      <4>2. x[l] = Mul(q, y[l]) /\ y[l] \in Quantities /\ y[l] <= d.hi
        BY <4>1, Parts DEF Times
      <4>3. Mul(q, y[l]) <= Mul(q, d.hi)
        BY <4>2, <3>2, <3>3, Monotone
      <4> QED
        BY <4>2, <4>3, <3>1
    <3>6. ASSUME NEW r \in rs
          PROVE  /\ r.count[l] <= u.paths[l].hi
                 /\ ~r.vacuous => u.paths[l].lo <= r.count[l]
      <4>1. PICK s \in a.runs : r = [s EXCEPT !.count = Times(q, s.count)]
        BY DEF OnRuns
      <4>2. s \in Run
        BY <2>0
      <4>3. r.count[l] = Mul(q, s.count[l]) /\ r.vacuous = s.vacuous
        BY <4>1, <4>2 DEF Times, Run
      <4>4. /\ s.count[l] \in Quantities /\ s.count[l] <= p.hi
            /\ ~s.vacuous => p.lo <= s.count[l]
        BY Parts
      <4>5. Mul(q, s.count[l]) <= Mul(q, p.hi)
        BY <4>4, <3>2, <3>3, Monotone
      <4>6. ~s.vacuous => Mul(q, p.lo) <= Mul(q, s.count[l])
        BY <4>4, <3>2, <3>3, Monotone
      <4> QED
        BY <4>3, <4>5, <4>6, <3>1
    <3> QED
      BY <3>1, <3>2, <3>4, <3>5, <3>6
  <2>7. Live(a) => Live(e)
    BY <2>1 DEF Live, OnRuns
  <2> HIDE DEF e, u, rs, ds
  <2>8. Enclosed(e)
    BY <2>1, <2>5, <2>6 DEF Enclosed
  <2> QED
    BY <1>2, <2>4, <2>7, <2>8 DEF Sound, e
<1> QED
  BY <1>1, <1>2

(* A closure keeps what its body reads on any path. *)
LEMMA ClosureSound ==
  ASSUME NEW a, Sound(a), Live(a)
  PROVE  Sound(Closure(a)) /\ Live(Closure(a))
<1> DEFINE u == Captures(a.use)
           rs == a.runs \cup {[count |-> x, vacuous |-> TRUE] : x \in a.dead}
           e == Closure(a)
<1>0. /\ a.use \in Usage /\ a.runs \subseteq Run /\ a.dead \subseteq Count
      /\ a \in Entry
  BY DEF Sound, Entry
<1>1. /\ e.use = u /\ e.runs = rs /\ e.dead = {}
  BY <1>0 DEF Closure, Entry
<1>2. ASSUME NEW r \in rs PROVE r \in Run
  <2>1. CASE r \in a.runs
    BY <1>0, <2>1
  <2>2. CASE r \notin a.runs
    <3>1. PICK x \in a.dead : r = [count |-> x, vacuous |-> TRUE]
      BY <2>2
    <3>2. x \in Count
      BY <1>0
    <3> QED
      BY <3>1, <3>2 DEF Run
  <2> QED
    BY <2>1, <2>2
<1>3. e \in Entry
  <2>1. u \in Usage /\ rs \subseteq Run
    BY <1>0, <1>2, CapturesType
  <2>2. e = [a EXCEPT !.use = u, !.runs = rs, !.dead = {}]
    BY <1>0 DEF Closure, Entry
  <2> HIDE DEF e, u, rs
  <2> QED
    BY <1>0, <2>1, <2>2 DEF Entry
<1>4. rs # {} /\ u.returns
  <2>1. rs # {}
    BY DEF Live
  <2>2. u.returns
    BY <1>0 DEF Captures, Usage
  <2> QED
    BY <2>1, <2>2
<1>5. ASSUME NEW l \in Level
      PROVE  /\ u.reads[l].lo = u.reads[l].hi
             /\ u.paths[l].hi <= u.reads[l].hi
             /\ \A r \in rs : /\ r.count[l] <= u.paths[l].hi
                              /\ ~r.vacuous => u.paths[l].lo <= r.count[l]
  <2> DEFINE p == a.use.paths[l] d == a.use.reads[l]
  <2>1. /\ p.lo \in Quantities /\ p.hi \in Quantities /\ p.hi <= d.hi
        /\ d.lo \in Quantities /\ d.hi \in Quantities /\ d.lo = d.hi
    BY Parts
  <2>2. u.reads[l] = d
    BY <1>0 DEF Captures, Usage
  <2>3. u.paths[l].hi = d.hi
    <3>1. CASE a.use.returns
      <4>1. u.paths[l].hi = Maximum(p.hi, d.hi)
        BY <1>0, <3>1 DEF Captures, Combine, Pair, Usage
      <4> QED
        BY <4>1, <2>1 DEF Maximum
    <3>2. CASE ~a.use.returns
      BY <1>0, <3>2 DEF Captures, Usage
    <3> QED
      BY <3>1, <3>2
  <2>4. a.use.returns => u.paths[l].lo = p.lo
    BY <1>0 DEF Captures, Combine, Left, Pair, Usage
  <2>5. d.hi <= d.hi
    BY <2>1 DEF Quantities, Zero, One, Many
  <2>6. ASSUME NEW r \in rs
        PROVE  /\ r.count[l] <= u.paths[l].hi
               /\ ~r.vacuous => u.paths[l].lo <= r.count[l]
    <3>1. CASE r \in a.runs
      <4>1. a.use.returns
        BY <3>1 DEF Sound, Enclosed
      <4> QED
        BY <3>1, <4>1, <2>3, <2>4, Parts
    <3>2. CASE r \notin a.runs
      <4>1. PICK x \in a.dead : r = [count |-> x, vacuous |-> TRUE]
        BY <3>2
      <4> QED
        BY <4>1, <2>3, Parts
    <3> QED
      BY <3>1, <3>2
  <2> QED
    BY <2>1, <2>2, <2>3, <2>5, <2>6
<1> HIDE DEF e, u, rs
<1>6. Enclosed(e)
  BY <1>1, <1>4, <1>5 DEF Enclosed
<1> QED
  BY <1>1, <1>3, <1>4, <1>6 DEF Sound, Live, e
(* Closing a scope forgets the same levels in the rows and in the runs.    *)
LEMMA OutsideSound ==
  ASSUME NEW a, Sound(a), NEW n \in 0 .. Depth
  PROVE  /\ Sound(Outside(n, a))
         /\ Live(a) => Live(Outside(n, a))
         /\ Outside(n, a).kind = a.kind
<1> DEFINE ls == {l \in Level : l >= n}
           u == RemoveLevels(ls, a.use)
           rs == OnRuns(LAMBDA x : Forget(ls, x), a.runs)
           ds == {Forget(ls, x) : x \in a.dead}
           e == Outside(n, a)
<1>0. /\ a.use \in Usage /\ a.runs \subseteq Run /\ a.dead \subseteq Count
      /\ a \in Entry
  BY DEF Sound, Entry
<1>1. /\ e = [a EXCEPT !.size = n, !.use = u, !.runs = rs, !.dead = ds]
      /\ e.use = u /\ e.runs = rs /\ e.dead = ds /\ e.kind = a.kind
  <2>1. e = [a EXCEPT !.size = n, !.use = u, !.runs = rs, !.dead = ds]
    BY DEF Outside
  <2> HIDE DEF e, u, rs, ds
  <2> QED
    BY <1>0, <2>1 DEF Entry
<1>2. ASSUME NEW r \in rs PROVE r \in Run
  <2>1. PICK s \in a.runs : r = [s EXCEPT !.count = Forget(ls, s.count)]
    BY DEF OnRuns
  <2>2. s \in Run /\ s.count \in Count
    BY <1>0 DEF Run
  <2>3. Forget(ls, s.count) \in Count
    BY <2>2, CountType
  <2> QED
    BY <2>1, <2>2, <2>3 DEF Run
<1>3. ASSUME NEW y \in ds PROVE y \in Count
  BY <1>0, CountType
<1>4. e \in Entry
  <2>1. u \in Usage /\ rs \subseteq Run /\ ds \subseteq Count
    BY <1>0, <1>2, <1>3, RemoveType
  <2> HIDE DEF e, u, rs, ds
  <2> QED
    BY <1>0, <1>1, <2>1 DEF Entry
<1>5. u.returns <=> rs # {}
  <2>1. u.returns <=> a.use.returns
    BY <1>0 DEF RemoveLevels, Usage
  <2>2. a.use.returns <=> a.runs # {}
    BY DEF Sound, Enclosed
  <2>3. rs # {} <=> a.runs # {}
    BY DEF OnRuns
  <2> QED
    BY <2>1, <2>2, <2>3
<1>6. ASSUME NEW l \in Level
      PROVE  /\ u.reads[l].lo = u.reads[l].hi
             /\ u.paths[l].hi <= u.reads[l].hi
             /\ \A x \in ds : x[l] <= u.reads[l].hi
             /\ \A r \in rs : /\ r.count[l] <= u.paths[l].hi
                              /\ ~r.vacuous => u.paths[l].lo <= r.count[l]
  <2>1. /\ u.paths[l] = IF l \in ls THEN Unused ELSE a.use.paths[l]
        /\ u.reads[l] = IF l \in ls THEN Unused ELSE a.use.reads[l]
    BY <1>0 DEF RemoveLevels, Usage
  <2>2. ASSUME NEW x \in ds
        PROVE  \E y \in a.dead : x[l] = IF l \in ls THEN Zero ELSE y[l]
    BY DEF Forget
  <2>3. ASSUME NEW r \in rs
        PROVE  \E s \in a.runs : /\ r.vacuous = s.vacuous
                                /\ r.count[l] = IF l \in ls THEN Zero ELSE s.count[l]
    <3>1. PICK s \in a.runs : r = [s EXCEPT !.count = Forget(ls, s.count)]
      BY DEF OnRuns
    <3>2. s \in Run
      BY <1>0
    <3> QED
      BY <3>1, <3>2 DEF Run, Forget
  <2> HIDE DEF u, rs, ds, ls
  <2>4. CASE l \in ls
    BY <2>1, <2>2, <2>3, <2>4 DEF Unused, Pair, Zero
  <2>5. CASE l \notin ls
    BY <2>1, <2>2, <2>3, <2>5, Parts
  <2> QED
    BY <2>4, <2>5
<1>7. Live(a) => Live(e)
  <2>1. (rs # {} <=> a.runs # {}) /\ (ds # {} <=> a.dead # {})
    BY DEF OnRuns
  <2> HIDE DEF e, rs, ds
  <2> QED
    BY <1>1, <2>1 DEF Live
<1> HIDE DEF e, u, rs, ds
<1>8. Enclosed(e)
  BY <1>1, <1>5, <1>6 DEF Enclosed
<1> QED
  BY <1>1, <1>4, <1>7, <1>8 DEF Sound, e

(* The interval of two branches is the hull of their intervals.            *)
LEMMA FoldSound ==
  ASSUME NEW a, Sound(a), NEW b, Sound(b)
  PROVE  Sound([a EXCEPT !.use  = Alternative(a.use, b.use),
                         !.runs = a.runs \cup b.runs,
                         !.dead = a.dead \cup b.dead])
<1> DEFINE u == Alternative(a.use, b.use)
           rs == a.runs \cup b.runs
           ds == a.dead \cup b.dead
           e == [a EXCEPT !.use = u, !.runs = rs, !.dead = ds]
<1>0. /\ a.use \in Usage /\ a.runs \subseteq Run /\ a.dead \subseteq Count
      /\ b.use \in Usage /\ b.runs \subseteq Run /\ b.dead \subseteq Count
      /\ a \in Entry
  BY DEF Sound, Entry
<1>1. u \in Usage /\ rs \subseteq Run /\ ds \subseteq Count
  BY <1>0, JoinType
<1>2. e \in Entry /\ e.use = u /\ e.runs = rs /\ e.dead = ds
  <2> HIDE DEF u, rs, ds
  <2> QED
    BY <1>0, <1>1 DEF Entry
<1>3. u.returns <=> rs # {}
  <2>1. u.returns <=> a.use.returns \/ b.use.returns
    BY DEF Alternative
  <2> QED
    BY <2>1 DEF Sound, Enclosed
<1>4. ASSUME NEW l \in Level
      PROVE  /\ u.reads[l].lo = u.reads[l].hi
             /\ u.paths[l].hi <= u.reads[l].hi
             /\ \A x \in ds : x[l] <= u.reads[l].hi
             /\ \A r \in rs : /\ r.count[l] <= u.paths[l].hi
                              /\ ~r.vacuous => u.paths[l].lo <= r.count[l]
  <2> DEFINE ap == a.use.paths[l] ar == a.use.reads[l]
             bp == b.use.paths[l] br == b.use.reads[l]
  <2>1. /\ ap.lo \in Quantities /\ ap.hi \in Quantities /\ ap.hi <= ar.hi
        /\ ar.lo \in Quantities /\ ar.hi \in Quantities /\ ar.lo = ar.hi
        /\ bp.lo \in Quantities /\ bp.hi \in Quantities /\ bp.hi <= br.hi
        /\ br.lo \in Quantities /\ br.hi \in Quantities /\ br.lo = br.hi
    BY Parts
  <2>2. /\ u.reads[l].lo = Maximum(ar.lo, br.lo)
        /\ u.reads[l].hi = Maximum(ar.hi, br.hi)
    BY DEF Alternative, Combine, Pair
  <2>3. /\ ~a.use.returns => u.paths[l] = bp
        /\ ~b.use.returns /\ a.use.returns => u.paths[l] = ap
    BY DEF Alternative
  <2>4. a.use.returns /\ b.use.returns =>
          /\ u.paths[l].lo = Minimum(ap.lo, bp.lo)
          /\ u.paths[l].hi = Maximum(ap.hi, bp.hi)
    BY DEF Alternative, Combine, Pair
  <2>5. /\ ar.hi <= u.reads[l].hi /\ br.hi <= u.reads[l].hi
        /\ u.reads[l].hi \in Quantities
    BY <2>1, <2>2 DEF Maximum, Quantities, Zero, One, Many
  <2>6. u.paths[l].hi <= u.reads[l].hi
    <3>1. CASE a.use.returns /\ b.use.returns
      BY <3>1, <2>1, <2>2, <2>4, Monotone
    <3>2. CASE ~(a.use.returns /\ b.use.returns)
      BY <3>2, <2>1, <2>3, <2>5 DEF Quantities, Zero, One, Many
    <3> QED
      BY <3>1, <3>2
  <2>7. ASSUME NEW x \in ds PROVE x[l] <= u.reads[l].hi
    <3>1. x[l] \in Quantities /\ (x[l] <= ar.hi \/ x[l] <= br.hi)
      BY Parts
    <3> QED
      BY <3>1, <2>1, <2>5 DEF Quantities, Zero, One, Many
  <2>8. ASSUME NEW r \in a.runs
        PROVE  /\ r.count[l] <= u.paths[l].hi
               /\ ~r.vacuous => u.paths[l].lo <= r.count[l]
    <3>1. a.use.returns
      BY DEF Sound, Enclosed
    <3>2. /\ r.count[l] \in Quantities /\ r.count[l] <= ap.hi
          /\ ~r.vacuous => ap.lo <= r.count[l]
      BY Parts
    <3>3. ap.hi <= u.paths[l].hi /\ u.paths[l].hi \in Quantities
      BY <3>1, <2>1, <2>3, <2>4, QuantityOps DEF Quantities, Zero, One, Many
    <3>4. u.paths[l].lo <= ap.lo /\ u.paths[l].lo \in Quantities
      BY <3>1, <2>1, <2>3, <2>4, QuantityOps DEF Quantities, Zero, One, Many
    <3> QED
      BY <3>2, <3>3, <3>4, <2>1 DEF Quantities, Zero, One, Many
  <2>9. ASSUME NEW r \in b.runs
        PROVE  /\ r.count[l] <= u.paths[l].hi
               /\ ~r.vacuous => u.paths[l].lo <= r.count[l]
    <3>1. b.use.returns
      BY DEF Sound, Enclosed
    <3>2. /\ r.count[l] \in Quantities /\ r.count[l] <= bp.hi
          /\ ~r.vacuous => bp.lo <= r.count[l]
      BY Parts
    <3>3. bp.hi <= u.paths[l].hi /\ u.paths[l].hi \in Quantities
      BY <3>1, <2>1, <2>3, <2>4, QuantityOps DEF Quantities, Zero, One, Many
    <3>4. u.paths[l].lo <= bp.lo /\ u.paths[l].lo \in Quantities
      BY <3>1, <2>1, <2>3, <2>4, QuantityOps DEF Quantities, Zero, One, Many
    <3> QED
      BY <3>2, <3>3, <3>4, <2>1 DEF Quantities, Zero, One, Many
  <2>10. u.reads[l].lo = u.reads[l].hi
    BY <2>1, <2>2
  <2> QED
    BY <2>6, <2>7, <2>8, <2>9, <2>10
<1> HIDE DEF e, u, rs, ds
<1>5. Enclosed(e)
  BY <1>2, <1>3, <1>4 DEF Enclosed
<1> QED
  BY <1>2, <1>5 DEF Sound, e, u, rs, ds
(* A case without branches turns the runs that reach it into dead ends.    *)
LEMMA StopSound ==
  ASSUME Size \in 0 .. Depth, NEW m \in Quantities,
         NEW a, Sound(a), NEW b, Sound(b), NEW w, w = Then(m, a, b)
  PROVE  Sound([w EXCEPT !.dead = @ \cup {r.count : r \in a.runs}])
<1> DEFINE ds == w.dead \cup {r.count : r \in a.runs}
           e == [w EXCEPT !.dead = ds]
<1>0. Sound(w) /\ w \in Entry
  BY ThenSound DEF Sound
<1>1. a.runs \subseteq Run /\ w.dead \subseteq Count
  BY <1>0 DEF Sound, Entry
<1>2. ds \subseteq Count
  BY <1>1 DEF Run
<1>3. /\ e \in Entry /\ e.use = w.use /\ e.runs = w.runs /\ e.dead = ds
  <2> HIDE DEF ds
  <2> QED
    BY <1>0, <1>2 DEF Entry
<1>4. ASSUME NEW l \in Level, NEW r \in a.runs
      PROVE  r.count[l] <= w.use.reads[l].hi
  <2> DEFINE ar == a.use.reads[l].hi br == b.use.reads[l].hi c == r.count[l]
  <2>1. c \in Quantities /\ ar \in Quantities /\ br \in Quantities /\ c <= ar
    BY Parts
  <2>2. w.use.reads[l].hi = Add(ar, br)
    BY DEF Then, Term, Sequence, Combine, Pair
  <2> HIDE DEF ar, br, c
  <2>3. c <= Add(ar, br)
    BY <2>1 DEF Add, Quantities, Zero, One, Many
  <2> QED
    BY <2>2, <2>3 DEF c
<1>5. ASSUME NEW l \in Level, NEW x \in ds
      PROVE  x[l] <= w.use.reads[l].hi
  BY <1>0, <1>4, Parts
<1> HIDE DEF e, ds
<1>6. Enclosed(e)
  BY <1>0, <1>3, <1>5 DEF Sound, Enclosed
<1> QED
  BY <1>3, <1>6 DEF Sound, e, ds

-----------------------------------------------------------------------------
(* What each way of building a usage does to its tightness.                *)
LEMMA SameTight ==
  ASSUME NEW e, NEW f, f.use = e.use, f.runs = e.runs, f.dead = e.dead
  PROVE  Tight(e) <=> Tight(f)
  BY DEF Tight, Straight

LEMMA LeafTight ==
  ASSUME NEW m, NEW u, NEW c,
         \A k \in Level : u.paths[k] = Pair(c[k], c[k]) /\ u.reads[k] = Pair(c[k], c[k])
  PROVE  Tight(Leaf(m, u, c))
<1> DEFINE e == Leaf(m, u, c)
           o == [count |-> c, vacuous |-> FALSE]
<1>1. e.use = u /\ e.runs = {o}
  BY DEF Leaf, Term
<1>2. ASSUME NEW k \in Level
      PROVE  o.count[k] = u.paths[k].lo /\ o.count[k] = u.paths[k].hi
             /\ u.reads[k].hi = u.paths[k].hi
  <2>1. u.paths[k] = Pair(c[k], c[k]) /\ u.reads[k] = Pair(c[k], c[k])
    OBVIOUS
  <2> QED
    BY <2>1 DEF Pair
<1>3. e.runs # {} /\ o \in e.runs
  BY <1>1
<1> HIDE DEF e, o
<1> QED
  BY <1>1, <1>2, <1>3 DEF Tight, e

LEMMA EmptyTight == ASSUME NEW m PROVE Tight(Leaf(m, Empty, None))
<1>1. \A k \in Level : /\ Empty.paths[k] = Pair(None[k], None[k])
                       /\ Empty.reads[k] = Pair(None[k], None[k])
  BY DEF Empty, Returning, NoRows, None, Unused
<1> QED
  BY <1>1, LeafTight

LEMMA ReadTight ==
  ASSUME NEW m, NEW l \in Level
  PROVE  Tight(Leaf(m, Occurrence(l, m), [None EXCEPT ![l] = m]))
<1> DEFINE c == [None EXCEPT ![l] = m]
           u == Occurrence(l, m)
<1>1. \A k \in Level : u.paths[k] = Pair(c[k], c[k]) /\ u.reads[k] = Pair(c[k], c[k])
  BY DEF Occurrence, Returning, NoRows, None, Unused, Pair
<1> HIDE DEF c, u
<1>2. Tight(Leaf(m, u, c))
  BY <1>1, LeafTight
<1> QED
  BY <1>2 DEF c, u

(* A straight sequence has straight parts, and both of them run. *)
LEMMA ThenTight ==
  ASSUME NEW m, NEW a, Sound(a), Live(a), Tight(a),
         NEW b, Sound(b), Live(b), Tight(b)
  PROVE  Tight(Then(m, a, b))
<1> DEFINE e == Then(m, a, b)
           u == Sequence(a.use, b.use)
<1>1. e.use = u /\ e.runs = SeqRuns(a, b) /\ e.dead = SeqDead(a, b)
  BY DEF Then, Term
<1>2. ASSUME NEW s \in a.runs, NEW t \in b.runs
      PROVE  Both(s, t) \in SeqRuns(a, b)
  <2>1. <<s, t>> \in a.runs \X b.runs
    OBVIOUS
  <2> QED
    BY <2>1 DEF SeqRuns
<1>3. SUFFICES ASSUME Straight(e), NEW l \in Level
      PROVE  /\ e.runs # {}
             /\ \E r \in e.runs : r.count[l] = e.use.paths[l].lo
             /\ \E r \in e.runs : r.count[l] = e.use.paths[l].hi
             /\ e.use.reads[l].hi = e.use.paths[l].hi
  <2> HIDE DEF e, u
  <2> QED
    BY <1>3 DEF Tight, e
<1>4. SeqDead(a, b) = {} /\ \A r \in SeqRuns(a, b) : ~r.vacuous
  BY <1>1, <1>3 DEF Straight
<1>5. a.dead = {} /\ a.runs # {}
  BY <1>4 DEF SeqDead, Live
<1>6. b.dead = {} /\ b.runs # {}
  <2>1. ASSUME NEW r \in a.runs, NEW y \in b.dead PROVE FALSE
    <3>1. <<r, y>> \in a.runs \X b.dead
      OBVIOUS
    <3>2. Plus(r.count, y) \in SeqDead(a, b)
      BY <3>1 DEF SeqDead
    <3> QED
      BY <3>2, <1>4
  <2> QED
    BY <2>1, <1>5 DEF Live
<1>7. Straight(a) /\ Straight(b)
  <2>1. ASSUME NEW s \in a.runs, NEW t \in b.runs
        PROVE  ~s.vacuous /\ ~t.vacuous
    BY <1>2, <1>4 DEF Both
  <2> QED
    BY <2>1, <1>5, <1>6 DEF Straight
<1> DEFINE ap == a.use.paths[l] ar == a.use.reads[l]
           bp == b.use.paths[l] br == b.use.reads[l]
<1>8. /\ \E s \in a.runs : s.count[l] = ap.lo
      /\ \E s \in a.runs : s.count[l] = ap.hi
      /\ ar.hi = ap.hi
      /\ \E t \in b.runs : t.count[l] = bp.lo
      /\ \E t \in b.runs : t.count[l] = bp.hi
      /\ br.hi = bp.hi
  BY <1>3, <1>5, <1>6, <1>7 DEF Tight
<1>9. u.returns
  BY <1>5, <1>6 DEF Sequence, Sound, Enclosed
<1>10. /\ u.paths[l].lo = Add(ap.lo, bp.lo) /\ u.paths[l].hi = Add(ap.hi, bp.hi)
       /\ u.reads[l].hi = Add(ar.hi, br.hi)
  BY <1>9, <1>3 DEF Sequence, Combine, Pair
<1>11. ASSUME NEW s \in a.runs, NEW t \in b.runs
       PROVE  Both(s, t) \in e.runs /\ Both(s, t).count[l] = Add(s.count[l], t.count[l])
  BY <1>1, <1>2, <1>3 DEF Both, Plus
<1>12. \E r \in e.runs : r.count[l] = u.paths[l].lo
  <2>1. PICK s \in a.runs, t \in b.runs : s.count[l] = ap.lo /\ t.count[l] = bp.lo
    BY <1>8
  <2> QED
    BY <2>1, <1>10, <1>11
<1>13. \E r \in e.runs : r.count[l] = u.paths[l].hi
  <2>1. PICK s \in a.runs, t \in b.runs : s.count[l] = ap.hi /\ t.count[l] = bp.hi
    BY <1>8
  <2> QED
    BY <2>1, <1>10, <1>11
<1>14. u.reads[l].hi = u.paths[l].hi
  BY <1>8, <1>10
<1> QED
  BY <1>1, <1>12, <1>13, <1>14

(* Scaling is monotone, so it carries the ends of an interval to the ends. *)
LEMMA ScaledTight ==
  ASSUME NEW m, NEW q \in Quantities, NEW a, Sound(a), Tight(a)
  PROVE  Tight(Scaled(m, q, a))
<1>1. CASE q = Zero
  <2>1. Scaled(m, q, a) = Leaf(m, Empty, None)
    BY <1>1 DEF Scaled
  <2> QED
    BY <2>1, EmptyTight
<1>2. CASE q # Zero
  <2> DEFINE u == Scale(q, a.use)
             rs == OnRuns(LAMBDA x : Times(q, x), a.runs)
             ds == {Times(q, x) : x \in a.dead}
             e == Scaled(m, q, a)
  <2>0. a.use \in Usage /\ a.runs \subseteq Run
    BY DEF Sound, Entry
  <2>1. e.use = u /\ e.runs = rs /\ e.dead = ds
    <3>1. e = Term(m, u, rs, ds)
      BY <1>2 DEF Scaled
    <3> HIDE DEF e, u, rs, ds
    <3> QED
      BY <3>1 DEF Term
  <2>2. ASSUME NEW s \in a.runs
        PROVE  \E r \in rs : /\ r.vacuous = s.vacuous
                             /\ \A l \in Level : r.count[l] = Mul(q, s.count[l])
    <3> DEFINE r == [s EXCEPT !.count = Times(q, s.count)]
    <3>1. r \in rs
      BY DEF OnRuns
    <3>2. r.vacuous = s.vacuous /\ r.count = Times(q, s.count)
      BY <2>0 DEF Run
    <3> HIDE DEF r, rs
    <3> QED
      BY <3>1, <3>2 DEF Times
  <2>3. (rs = {} <=> a.runs = {}) /\ (ds = {} <=> a.dead = {})
    BY DEF OnRuns
  <2>4. ASSUME NEW l \in Level
        PROVE  /\ u.paths[l].lo = Mul(q, a.use.paths[l].lo)
               /\ u.paths[l].hi = Mul(q, a.use.paths[l].hi)
               /\ u.reads[l].hi = Mul(q, a.use.reads[l].hi)
    BY <1>2, <2>0 DEF Scale, ScaleMap, Pair, Usage
  <2>5. Mul(q, Zero) = Zero
    BY DEF Mul
  <2> HIDE DEF e, u, rs, ds
  <2>6. Straight(e) => Straight(a)
    BY <2>1, <2>2, <2>3 DEF Straight
  <2>7. ASSUME Straight(a), NEW l \in Level
        PROVE  IF rs = {} THEN u.reads[l].hi = Zero
               ELSE /\ \E r \in rs : r.count[l] = u.paths[l].lo
                    /\ \E r \in rs : r.count[l] = u.paths[l].hi
                    /\ u.reads[l].hi = u.paths[l].hi
    <3>1. CASE rs = {}
      BY <3>1, <2>3, <2>4, <2>5, <2>7 DEF Tight
    <3>2. CASE rs # {}
      <4>1. /\ \E s \in a.runs : s.count[l] = a.use.paths[l].lo
            /\ \E s \in a.runs : s.count[l] = a.use.paths[l].hi
            /\ a.use.reads[l].hi = a.use.paths[l].hi
        BY <3>2, <2>3, <2>7 DEF Tight
      <4>2. \E r \in rs : r.count[l] = u.paths[l].lo
        BY <4>1, <2>2, <2>4
      <4>3. \E r \in rs : r.count[l] = u.paths[l].hi
        BY <4>1, <2>2, <2>4
      <4> QED
        BY <3>2, <4>1, <4>2, <4>3, <2>4
    <3> QED
      BY <3>1, <3>2
  <2>8. Tight(e)
    BY <2>1, <2>6, <2>7 DEF Tight
  <2> QED
    BY <2>8 DEF e
<1> QED
  BY <1>1, <1>2

(* A closure whose body cannot end dead captures what the body consumes.   *)
LEMMA ClosureTight ==
  ASSUME NEW a, Sound(a), Live(a), Tight(a)
  PROVE  Tight(Closure(a))
<1> DEFINE u == Captures(a.use)
           vs == {[count |-> x, vacuous |-> TRUE] : x \in a.dead}
           e == Closure(a)
<1>0. a.use \in Usage /\ a \in Entry
  BY DEF Sound, Entry
<1>1. e.use = u /\ e.runs = a.runs \cup vs /\ e.dead = {}
  BY <1>0 DEF Closure, Entry
<1>2. SUFFICES ASSUME Straight(e), NEW l \in Level
      PROVE  /\ e.runs # {}
             /\ \E r \in e.runs : r.count[l] = e.use.paths[l].lo
             /\ \E r \in e.runs : r.count[l] = e.use.paths[l].hi
             /\ e.use.reads[l].hi = e.use.paths[l].hi
  <2> HIDE DEF e, u
  <2> QED
    BY <1>2 DEF Tight, e
<1>3. a.dead = {}
  <2>1. ASSUME NEW x \in a.dead PROVE FALSE
    <3>1. [count |-> x, vacuous |-> TRUE] \in e.runs
      BY <1>1
    <3> QED
      BY <3>1, <1>2 DEF Straight
  <2> QED
    BY <2>1
<1>4. e.runs = a.runs /\ a.runs # {}
  BY <1>1, <1>3 DEF Live
<1>5. Straight(a)
  BY <1>2, <1>3, <1>4 DEF Straight
<1> DEFINE p == a.use.paths[l] d == a.use.reads[l]
<1>6. /\ \E r \in a.runs : r.count[l] = p.lo
      /\ \E r \in a.runs : r.count[l] = p.hi
      /\ d.hi = p.hi
  BY <1>2, <1>4, <1>5 DEF Tight
<1>7. a.use.returns /\ p.hi \in Quantities
  BY <1>2, <1>4, Parts DEF Sound, Enclosed
<1>8. /\ u.paths[l].lo = p.lo /\ u.paths[l].hi = Maximum(p.hi, d.hi)
      /\ u.reads[l].hi = d.hi
  BY <1>0, <1>2, <1>7 DEF Captures, Combine, Left, Pair, Usage
<1>9. u.paths[l].hi = p.hi
  BY <1>6, <1>8 DEF Maximum
<1> QED
  BY <1>1, <1>4, <1>6, <1>8, <1>9

LEMMA OutsideTight ==
  ASSUME NEW a, Sound(a), Tight(a), NEW n
  PROVE  Tight(Outside(n, a))
<1> DEFINE ls == {l \in Level : l >= n}
           u == RemoveLevels(ls, a.use)
           rs == OnRuns(LAMBDA x : Forget(ls, x), a.runs)
           ds == {Forget(ls, x) : x \in a.dead}
           e == Outside(n, a)
<1>0. a.use \in Usage /\ a.runs \subseteq Run /\ a \in Entry
  BY DEF Sound, Entry
<1>1. e.use = u /\ e.runs = rs /\ e.dead = ds
  <2>1. e = [a EXCEPT !.size = n, !.use = u, !.runs = rs, !.dead = ds]
    BY DEF Outside
  <2> HIDE DEF e, u, rs, ds
  <2> QED
    BY <1>0, <2>1 DEF Entry
<1>2. ASSUME NEW s \in a.runs
      PROVE  \E r \in rs :
               /\ r.vacuous = s.vacuous
               /\ \A l \in Level : r.count[l] = IF l \in ls THEN Zero ELSE s.count[l]
  <2> DEFINE r == [s EXCEPT !.count = Forget(ls, s.count)]
  <2>1. r \in rs
    BY DEF OnRuns
  <2>2. r.vacuous = s.vacuous /\ r.count = Forget(ls, s.count)
    BY <1>0 DEF Run
  <2> HIDE DEF r, rs, ls
  <2> QED
    BY <2>1, <2>2 DEF Forget
<1>3. (rs = {} <=> a.runs = {}) /\ (ds = {} <=> a.dead = {})
  BY DEF OnRuns
<1>4. ASSUME NEW l \in Level
      PROVE  /\ u.paths[l] = IF l \in ls THEN Unused ELSE a.use.paths[l]
             /\ u.reads[l] = IF l \in ls THEN Unused ELSE a.use.reads[l]
  BY <1>0 DEF RemoveLevels, Usage
<1> HIDE DEF e, u, rs, ds, ls
<1>5. Straight(e) => Straight(a)
  BY <1>1, <1>2, <1>3 DEF Straight
<1>6. ASSUME Straight(a), NEW l \in Level
      PROVE  IF rs = {} THEN u.reads[l].hi = Zero
             ELSE /\ \E r \in rs : r.count[l] = u.paths[l].lo
                  /\ \E r \in rs : r.count[l] = u.paths[l].hi
                  /\ u.reads[l].hi = u.paths[l].hi
  <2>1. CASE l \in ls
    <3>1. u.paths[l].lo = Zero /\ u.paths[l].hi = Zero /\ u.reads[l].hi = Zero
      BY <2>1, <1>4 DEF Unused, Pair
    <3>2. rs # {} => \E r \in rs : r.count[l] = Zero
      BY <2>1, <1>2, <1>3
    <3> QED
      BY <3>1, <3>2
  <2>2. CASE l \notin ls
    <3>1. u.paths[l] = a.use.paths[l] /\ u.reads[l] = a.use.reads[l]
      BY <2>2, <1>4
    <3>2. ASSUME NEW s \in a.runs PROVE \E r \in rs : r.count[l] = s.count[l]
      BY <2>2, <1>2
    <3> QED
      BY <3>1, <3>2, <1>3, <1>6 DEF Tight
  <2> QED
    BY <2>1, <2>2
<1>7. Tight(e)
  BY <1>1, <1>5, <1>6 DEF Tight
<1> QED
  BY <1>7 DEF e

LEMMA FoldTight ==
  ASSUME NEW a, Sound(a), Tight(a), NEW b, Sound(b), Tight(b),
         NEW e, e.use = Alternative(a.use, b.use),
         e.runs = a.runs \cup b.runs, e.dead = a.dead \cup b.dead
  PROVE  Tight(e)
<1>1. SUFFICES ASSUME Straight(e), NEW l \in Level
      PROVE  IF e.runs = {} THEN e.use.reads[l].hi = Zero
             ELSE /\ \E r \in e.runs : r.count[l] = e.use.paths[l].lo
                  /\ \E r \in e.runs : r.count[l] = e.use.paths[l].hi
                  /\ e.use.reads[l].hi = e.use.paths[l].hi
  BY DEF Tight
<1>2. Straight(a) /\ Straight(b)
  BY <1>1 DEF Straight
<1> DEFINE ap == a.use.paths[l] ar == a.use.reads[l]
           bp == b.use.paths[l] br == b.use.reads[l]
           u == e.use
<1>3. /\ ap.lo \in Quantities /\ ap.hi \in Quantities /\ ar.hi \in Quantities
      /\ bp.lo \in Quantities /\ bp.hi \in Quantities /\ br.hi \in Quantities
  BY <1>1, Parts
<1>4. (a.use.returns <=> a.runs # {}) /\ (b.use.returns <=> b.runs # {})
  BY DEF Sound, Enclosed
<1>5. u.reads[l].hi = Maximum(ar.hi, br.hi)
  BY <1>1 DEF Alternative, Combine, Pair
<1>6. /\ IF a.runs = {} THEN ar.hi = Zero
         ELSE /\ \E r \in a.runs : r.count[l] = ap.lo
              /\ \E r \in a.runs : r.count[l] = ap.hi
              /\ ar.hi = ap.hi
      /\ IF b.runs = {} THEN br.hi = Zero
         ELSE /\ \E r \in b.runs : r.count[l] = bp.lo
              /\ \E r \in b.runs : r.count[l] = bp.hi
              /\ br.hi = bp.hi
  BY <1>1, <1>2 DEF Tight
<1>7. Maximum(Zero, br.hi) = br.hi /\ Maximum(ar.hi, Zero) = ar.hi
  BY <1>3 DEF Maximum, Quantities, Zero, One, Many
<1>8. CASE a.runs = {}
  <2>1. u.paths = b.use.paths /\ e.runs = b.runs
    BY <1>4, <1>8 DEF Alternative
  <2> QED
    BY <2>1, <1>5, <1>6, <1>7, <1>8
<1>9. CASE a.runs # {} /\ b.runs = {}
  <2>1. u.paths = a.use.paths /\ e.runs = a.runs
    BY <1>4, <1>9 DEF Alternative
  <2> QED
    BY <2>1, <1>5, <1>6, <1>7, <1>9
<1>10. CASE a.runs # {} /\ b.runs # {}
  <2>1. u.paths[l].lo = Minimum(ap.lo, bp.lo) /\ u.paths[l].hi = Maximum(ap.hi, bp.hi)
    BY <1>1, <1>4, <1>10 DEF Alternative, Combine, Pair
  <2>2. Minimum(ap.lo, bp.lo) \in {ap.lo, bp.lo} /\ Maximum(ap.hi, bp.hi) \in {ap.hi, bp.hi}
    BY DEF Minimum, Maximum
  <2>3. \E r \in e.runs : r.count[l] = u.paths[l].lo
    BY <2>1, <2>2, <1>6, <1>10
  <2>4. \E r \in e.runs : r.count[l] = u.paths[l].hi
    BY <2>1, <2>2, <1>6, <1>10
  <2>5. u.reads[l].hi = u.paths[l].hi
    BY <2>1, <1>5, <1>6, <1>10
  <2> QED
    BY <2>3, <2>4, <2>5, <1>10
<1> QED
  BY <1>8, <1>9, <1>10

-----------------------------------------------------------------------------
(* The stack. *)
Good(e) == Sound(e) /\ (e.kind = "term" => Live(e)) /\ Tight(e)
Stacked(s) == s \in Seq(Entry) /\ \A i \in 1 .. Len(s) : Good(s[i])

LEMMA StackedIff ==
  stack \in Seq(Entry) /\ Hulls /\ Lively /\ Exact <=> Stacked(stack)
<1>1. ASSUME stack \in Seq(Entry), NEW i \in 1 .. Len(stack)
      PROVE  stack[i] \in Entry /\ stack[i] \in Entries
  BY <1>1 DEF Entries
<1> QED
  BY <1>1 DEF Stacked, Good, Sound, Hulls, Lively, Exact, Entries

LEMMA PushStacked ==
  ASSUME NEW s, Stacked(s), NEW n \in 0 .. Len(s), NEW e, Good(e)
  PROVE  Stacked(Append(SubSeq(s, 1, Len(s) - n), e))
<1> DEFINE b == SubSeq(s, 1, Len(s) - n)
<1>1. s \in Seq(Entry) /\ e \in Entry
  BY DEF Stacked, Good, Sound
<1>2. /\ b \in Seq(Entry) /\ Len(b) = Len(s) - n
      /\ \A i \in 1 .. Len(b) : b[i] = s[i]
  BY <1>1
<1> HIDE DEF b
<1>3. /\ Append(b, e) \in Seq(Entry) /\ Len(Append(b, e)) = Len(b) + 1
      /\ \A i \in 1 .. Len(b) : Append(b, e)[i] = b[i]
      /\ Append(b, e)[Len(b) + 1] = e
  BY <1>1, <1>2
<1>4. ASSUME NEW i \in 1 .. Len(b) + 1
      PROVE  Good(Append(b, e)[i])
  <2>1. CASE i = Len(b) + 1
    BY <2>1, <1>3
  <2>2. CASE i # Len(b) + 1
    <3>1. i \in 1 .. Len(b) /\ i \in 1 .. Len(s)
      BY <2>2, <1>1, <1>2
    <3> QED
      BY <3>1, <1>2, <1>3 DEF Stacked
  <2> QED
    BY <2>1, <2>2
<1> QED
  BY <1>3, <1>4 DEF Stacked, b

LEMMA TopGood ==
  ASSUME Stacked(stack), Len(stack) >= 1
  PROVE  Good(Top) /\ (Len(stack) >= 2 => Good(Next2)) /\ Len(stack) \in Nat
<1>1. Len(stack) \in Nat
  BY DEF Stacked
<1> QED
  BY <1>1 DEF Stacked, Top, Next2

-----------------------------------------------------------------------------
(* The context. *)
Scopes(ls) == /\ ls \in Seq(Local) /\ Len(ls) <= Depth
              /\ \A i \in 1 .. Len(ls) : ls[i].lower < i

LEMMA BindScopes ==
  ASSUME Scopes(locals), NEW role \in Role, NEW mode \in Quantities,
         NEW qs \in Seq(Quantities), qs # <<>>, Size + Len(qs) <= Depth,
         Bind(role, mode, qs)
  PROVE  Scopes(locals') /\ Len(locals') > Size
<1> DEFINE f == [i \in 1 .. Len(qs) |->
                  [quantity |-> qs[i], role |-> role, mode |-> mode, lower |-> Size]]
<1>1. Len(qs) \in Nat \ {0} /\ Size \in Nat /\ locals \in Seq(Local)
  BY DEF Scopes, Size
<1>2. Size \in Level
  BY <1>1, DepthAssumption DEF Level
<1>3. \A i \in 1 .. Len(qs) : f[i] \in Local
  BY <1>2 DEF Local
<1>4. f \in Seq(Local) /\ Len(f) = Len(qs)
  BY <1>1, <1>3, IsASeq
<1>5. \A i \in 1 .. Len(f) : f[i].lower = Size
  BY <1>4
<1>6. locals' = locals \o f
  BY DEF Bind
<1> HIDE DEF f
<1>7. /\ locals' \in Seq(Local) /\ Len(locals') = Size + Len(f)
      /\ \A i \in 1 .. Len(locals') :
           locals'[i] = IF i <= Size THEN locals[i] ELSE f[i - Size]
  BY <1>1, <1>4, <1>6, ConcatProperties DEF Size
<1>8. ASSUME NEW i \in 1 .. Len(locals')
      PROVE  locals'[i].lower < i
  <2>1. CASE i <= Size
    BY <2>1, <1>1, <1>7 DEF Scopes, Size
  <2>2. CASE ~(i <= Size)
    <3>1. i \in Nat /\ i <= Size + Len(f) /\ Len(f) \in Nat /\ Size < i
      BY <2>2, <1>1, <1>4, <1>7
    <3>2. i - Size \in 1 .. Len(f)
      BY <3>1, <1>1
    <3>3. locals'[i] = f[i - Size]
      BY <2>2, <1>7
    <3>4. locals'[i].lower = Size
      BY <3>2, <3>3, <1>5
    <3> QED
      BY <3>1, <3>4
  <2> QED
    BY <2>1, <2>2
<1> QED
  BY <1>1, <1>4, <1>7, <1>8 DEF Scopes

LEMMA LeaveScopes ==
  ASSUME Scopes(locals), Size > 0, Leave
  PROVE  /\ Scopes(locals')
         /\ Inner \in Local /\ Inner.lower \in 0 .. Depth /\ Inner.lower < Size
         /\ Inner.mode \in Quantities
<1>1. Size \in 1 .. Len(locals) /\ locals \in Seq(Local)
  BY DEF Scopes, Size
<1>2. Inner \in Local /\ Inner.lower < Size
  BY <1>1 DEF Scopes, Inner
<1>3. Inner.lower \in 0 .. Depth /\ Inner.lower \in Nat /\ Inner.mode \in Quantities
  BY <1>2, DepthAssumption DEF Local, Level
<1>4. locals' = SubSeq(locals, 1, Inner.lower)
  BY DEF Leave
<1>5. /\ locals' \in Seq(Local) /\ Len(locals') = Inner.lower
      /\ \A i \in 1 .. Len(locals') : locals'[i] = locals[i]
  BY <1>1, <1>2, <1>3, <1>4 DEF Size
<1> QED
  BY <1>1, <1>2, <1>3, <1>5 DEF Scopes, Size
-----------------------------------------------------------------------------
(* IInv in the form the steps use. *)
State == /\ Scopes(locals)
         /\ Stacked(stack)
         /\ fuel \in 0 .. Fuel
         /\ refused \in BOOLEAN

LEMMA IInvIff == IInv <=> State
  BY StackedIff DEF IInv, State, TypeOK, Scoped, Scopes, Size

LEMMA StateFacts ==
  ASSUME State
  PROVE  /\ Size \in 0 .. Depth /\ Len(stack) \in Nat
         /\ TopTerm => Good(Top) /\ Len(stack) >= 1 /\ Top.mode \in Quantities
         /\ TwoHere => /\ Good(Top) /\ Good(Next2) /\ Len(stack) >= 2
                       /\ Top.mode \in Quantities /\ Next2.mode \in Quantities
<1>1. Size \in 0 .. Depth
  BY DepthAssumption DEF State, Scopes, Size
<1>2. Len(stack) \in Nat
  BY DEF State, Stacked
<1>3. TopTerm => Good(Top) /\ Len(stack) >= 1
  BY TopGood DEF State, TopTerm
<1>4. TwoHere => Good(Top) /\ Good(Next2) /\ Len(stack) >= 2
  BY TopGood, <1>2 DEF State, TwoHere
<1> QED
  BY <1>1, <1>2, <1>3, <1>4 DEF Good, Sound, Entry

(* A step that replaces the n topmost entries by a good one. *)
LEMMA PushState ==
  ASSUME State, Spend, NEW n \in Nat, n <= Len(stack), NEW e, Good(e), Push(n, e),
         Scopes(locals'), refused' = refused
  PROVE  State'
<1>1. n \in 0 .. Len(stack)
  BY StateFacts
<1>2. Stacked(stack')
  BY <1>1, PushStacked DEF State, Push, Below
<1>3. fuel' \in 0 .. Fuel
  BY BoundAssumption DEF State, Spend
<1> QED
  BY <1>2, <1>3 DEF State, Scopes, Stacked

LEMMA RefuseState ==
  ASSUME State, Spend, Refuse
  PROVE  State'
<1>1. fuel' \in 0 .. Fuel
  BY BoundAssumption DEF State, Spend
<1> QED
  BY <1>1 DEF State, Refuse, Scopes, Stacked

LEMMA LeafGood ==
  ASSUME State, NEW m \in Quantities
  PROVE  /\ Good(Leaf(m, Empty, None))
         /\ \A l \in Level : Good(Leaf(m, Occurrence(l, m), [None EXCEPT ![l] = m]))
<1>1. \A u, c : Live(Leaf(m, u, c))
  BY DEF Live, Leaf, Term
<1> QED
  BY <1>1, EmptySound, ReadSound, EmptyTight, ReadTight, StateFacts DEF Good

-----------------------------------------------------------------------------
LEMMA ReadStep ==
  ASSUME State, NEW l \in 0 .. Size - 1, NEW m \in Modes, ReadLocal(l, m)
  PROVE  State'
<1>1. l \in Level /\ m \in Quantities
  BY StateFacts, DepthAssumption, BoundAssumption DEF Level
<1>2. CASE Readable(m, locals[l + 1].quantity)
  <2>1. Push(0, Leaf(m, Occurrence(l, m), [None EXCEPT ![l] = m]))
    BY <1>2 DEF ReadLocal
  <2> QED
    BY <1>1, <1>2, <2>1, LeafGood, PushState, StateFacts DEF ReadLocal, State, Scopes
<1>3. CASE ~Readable(m, locals[l + 1].quantity)
  BY <1>3, RefuseState DEF ReadLocal
<1> QED
  BY <1>2, <1>3

LEMMA ClosedStep ==
  ASSUME State, NEW m \in Modes, Closed(m)
  PROVE  State'
<1>1. m \in Quantities
  BY BoundAssumption
<1> QED
  BY <1>1, LeafGood, PushState, StateFacts DEF Closed, State, Scopes

LEMMA ThenGood ==
  ASSUME Size \in 0 .. Depth, NEW m \in Quantities,
         NEW a, Good(a), Live(a), NEW b, Good(b), Live(b)
  PROVE  Good(Then(m, a, b))
  BY ThenSound, ThenLive, ThenTight DEF Good

LEMMA InSequenceStep ==
  ASSUME State, InSequence
  PROVE  State'
<1>1. PICK m \in {Top.mode, Next2.mode} : Push(2, Then(m, Next2, Top))
  BY DEF InSequence
<1>2. /\ Good(Top) /\ Good(Next2) /\ m \in Quantities /\ Len(stack) >= 2
      /\ Top.kind = "term" /\ Next2.kind = "term"
  BY StateFacts DEF InSequence
<1>3. Good(Then(m, Next2, Top))
  <2>1. Live(Next2) /\ Live(Top)
    BY <1>2 DEF Good
  <2> QED
    BY <1>2, <2>1, ThenGood, StateFacts
<1> QED
  BY <1>1, <1>2, <1>3, PushState DEF InSequence, State, Scopes

LEMMA OpenStep ==
  ASSUME State, NEW r \in {"lambda", "arm"}, NEW m \in Modes,
         NEW qs \in [1 .. 1 -> Quantities] \cup [1 .. 2 -> Quantities], Open(r, m, qs)
  PROVE  State' /\ Len(locals') > Size
<1>1. qs \in Seq(Quantities) /\ qs # <<>>
  <2>0. \E n \in {1, 2} : qs \in [1 .. n -> Quantities]
    OBVIOUS
  <2>1. PICK n \in Nat : qs \in [1 .. n -> Quantities] /\ n # 0
    BY <2>0
  <2>2. qs \in Seq(Quantities)
    BY <2>1, SeqDef
  <2>3. Len(qs) = n
    BY <2>1
  <2> QED
    BY <2>1, <2>2, <2>3
<1>2. Scopes(locals') /\ Len(locals') > Size
  BY <1>1, BindScopes, BoundAssumption DEF Open, State, Role
<1>3. fuel' \in 0 .. Fuel
  BY BoundAssumption DEF State, Open, Spend
<1> QED
  BY <1>2, <1>3 DEF State, Open, Scopes, Stacked

LEMMA OpenAliasStep ==
  ASSUME State, NEW m \in Modes, OpenAlias(m)
  PROVE  State' /\ Len(locals') > Size
<1>1. PICK q \in Quantities : Bind("alias", m, <<q>>)
  BY DEF OpenAlias, Quantities
<1>2. /\ <<q>> \in Seq(Quantities) /\ <<q>> # <<>> /\ Len(<<q>>) = 1
  OBVIOUS
<1>3. Size + Len(<<q>>) <= Depth
  BY <1>2, StateFacts, DepthAssumption DEF OpenAlias
<1>4. Scopes(locals') /\ Len(locals') > Size
  BY <1>1, <1>2, <1>3, BindScopes, BoundAssumption DEF State, Role
<1>5. fuel' \in 0 .. Fuel
  BY BoundAssumption DEF State, OpenAlias, Spend
<1> QED
  BY <1>4, <1>5 DEF State, OpenAlias, Scopes, Stacked

(* The body of the scope that is closed, seen from outside. *)
LEMMA BodyGood ==
  ASSUME State, Size > 0, TopTerm, Leave
  PROVE  /\ Good(Body) /\ Body.kind = "term"
         /\ Inner.mode \in Quantities /\ Inner.lower \in 0 .. Depth /\ Inner.lower < Size
         /\ Scopes(locals')
<1>1. /\ Scopes(locals') /\ Inner.lower \in 0 .. Depth /\ Inner.lower < Size
      /\ Inner.mode \in Quantities
  BY LeaveScopes DEF State
<1>2. Good(Top) /\ Top.kind = "term"
  BY StateFacts DEF TopTerm
<1> DEFINE o == Outside(Inner.lower, Top)
<1>3. Sound(o) /\ Live(o) /\ o.kind = "term"
  BY <1>1, <1>2, OutsideSound DEF Good
<1>5. Tight(o)
  BY <1>2, OutsideTight DEF Good
<1> HIDE DEF o
<1>4. LET b == [o EXCEPT !.mode = Inner.mode] IN
        Sound(b) /\ b.kind = "term" /\ Live(b) /\ Tight(b)
  <2> DEFINE b == [o EXCEPT !.mode = Inner.mode]
  <2>1. /\ b.use = o.use /\ b.runs = o.runs /\ b.dead = o.dead
        /\ b.kind = "term"
    BY <1>3 DEF Sound, Entry
  <2>2. Sound(b)
    BY <1>1, <1>3, Retag
  <2> HIDE DEF b
  <2>3. Live(b) /\ Tight(b)
    BY <2>1, <1>3, <1>5, SameTight DEF Live
  <2> QED
    BY <2>1, <2>2, <2>3 DEF b
<1> QED
  BY <1>1, <1>4 DEF Body, Good, o
(* Retagged leaves and sequences stay good. *)
LEMMA SizedGood ==
  ASSUME NEW e, Good(e), NEW n \in 0 .. Depth
  PROVE  Good([e EXCEPT !.size = n])
<1>1. e \in Entry
  BY DEF Good, Sound
<1> DEFINE f == [e EXCEPT !.size = n]
<1>2. f.kind = e.kind /\ f.use = e.use /\ f.runs = e.runs /\ f.dead = e.dead
  BY <1>1 DEF Entry
<1>3. Sound(f)
  <2>1. "term" \in {"term", "arms"} /\ Zero \in Quantities
    BY DEF Quantities
  <2> QED
    BY <2>1, Retag DEF Good
<1> HIDE DEF f
<1> QED
  BY <1>2, <1>3, SameTight DEF Good, Live, f

LEMMA ArmsGood ==
  ASSUME NEW e, Good(e)
  PROVE  Good([e EXCEPT !.kind = "arms"])
<1>1. e \in Entry /\ e.size \in 0 .. Depth /\ e.mode \in Quantities
  BY DEF Good, Sound, Entry
<1> DEFINE f == [e EXCEPT !.kind = "arms"]
<1>2. Sound(f)
  BY <1>1, Retag DEF Good
<1>3. f.kind = "arms" /\ f.use = e.use /\ f.runs = e.runs /\ f.dead = e.dead
  BY <1>1 DEF Entry
<1> HIDE DEF f
<1> QED
  BY <1>2, <1>3, SameTight DEF Good, f

LEMMA CloseLambdaStep ==
  ASSUME State, CloseLambda
  PROVE  State'
<1>1. Size > 0 /\ TopTerm /\ Len(stack) >= 1
  BY DEF CloseLambda, Closing, TopTerm
<1>2. CASE CloseOk(Top.use)
  <2> DEFINE c == Scaled(Inner.mode, Inner.mode, Closure(Body))
  <2>1. Leave /\ Push(1, [c EXCEPT !.size = Inner.lower]) /\ refused' = refused
    BY <1>2 DEF CloseLambda
  <2>2. /\ Good(Body) /\ Body.kind = "term" /\ Scopes(locals')
        /\ Inner.mode \in Quantities /\ Inner.lower \in 0 .. Depth
    BY <1>1, <2>1, BodyGood
  <2>3. Sound(Closure(Body)) /\ Live(Closure(Body)) /\ Tight(Closure(Body))
    BY <2>2, ClosureSound, ClosureTight DEF Good
  <2>4. Good(c)
    BY <2>2, <2>3, ScaledSound, ScaledTight, StateFacts DEF Good
  <2> HIDE DEF c
  <2>5. Good([c EXCEPT !.size = Inner.lower])
    BY <2>2, <2>4, SizedGood
  <2> QED
    BY <1>1, <2>1, <2>2, <2>5, PushState DEF CloseLambda
<1>3. CASE ~CloseOk(Top.use)
  BY <1>3, RefuseState DEF CloseLambda
<1> QED
  BY <1>2, <1>3

LEMMA CloseArmStep ==
  ASSUME State, CloseArm
  PROVE  State'
<1>1. Size > 0 /\ TopTerm /\ Len(stack) >= 1
  BY DEF CloseArm, Closing, TopTerm
<1>2. CASE CloseOk(Top.use)
  <2>1. Leave /\ Push(1, [Body EXCEPT !.kind = "arms"]) /\ refused' = refused
    BY <1>2 DEF CloseArm
  <2>2. Good(Body) /\ Scopes(locals')
    BY <1>1, <2>1, BodyGood
  <2> QED
    BY <1>1, <2>1, <2>2, ArmsGood, PushState DEF CloseArm
<1>3. CASE ~CloseOk(Top.use)
  BY <1>3, RefuseState DEF CloseArm
<1> QED
  BY <1>2, <1>3

LEMMA BareArmStep ==
  ASSUME State, NEW m \in Modes, BareArm(m)
  PROVE  State'
<1>1. Good(Top) /\ Len(stack) >= 1 /\ Top \in Entry /\ m \in Quantities
  BY StateFacts, BoundAssumption DEF BareArm, Good, Sound
<1> DEFINE e == [Top EXCEPT !.kind = "arms"]
<1>2. Good(e) /\ e \in Entry /\ e.kind = "arms"
  BY <1>1, ArmsGood DEF Good, Sound, Entry
<1>3. [Top EXCEPT !.kind = "arms", !.mode = m] = [e EXCEPT !.mode = m]
  BY <1>1 DEF Entry
<1> HIDE DEF e
<1>4. Good([e EXCEPT !.mode = m])
  <2> DEFINE f == [e EXCEPT !.mode = m]
  <2>1. Sound(f)
    <3>1. "arms" \in {"term", "arms"} /\ e.size \in 0 .. Depth
      BY <1>2 DEF Entry
    <3> QED
      BY <1>1, <1>2, <3>1, Retag DEF Good
  <2>2. f.kind = "arms" /\ f.use = e.use /\ f.runs = e.runs /\ f.dead = e.dead
    BY <1>2 DEF Entry
  <2> HIDE DEF f
  <2> QED
    BY <1>2, <2>1, <2>2, SameTight DEF Good, f
<1>5. Push(1, [e EXCEPT !.mode = m])
  BY <1>3 DEF BareArm
<1> QED
  BY <1>1, <1>4, <1>5, PushState DEF BareArm, State, Scopes

LEMMA CloseAliasStep ==
  ASSUME State, CloseAlias
  PROVE  State'
<1>1. Size > 0 /\ TopTerm /\ Len(stack) >= 2 /\ Len(stack) \in Nat
  BY StateFacts DEF CloseAlias, Closing
<1>2. CASE CloseOk(Top.use)
  <2> DEFINE d == Scaled(Inner.mode, Inner.mode, Next2)
             t == Then(Inner.mode, d, Body)
  <2>1. Leave /\ Push(2, [t EXCEPT !.size = Inner.lower]) /\ refused' = refused
    BY <1>2 DEF CloseAlias
  <2>2. /\ Good(Body) /\ Body.kind = "term" /\ Scopes(locals')
        /\ Inner.mode \in Quantities /\ Inner.lower \in 0 .. Depth
    BY <1>1, <2>1, BodyGood
  <2>3. Good(Next2) /\ Next2.kind = "term"
    BY <1>1, TopGood DEF State, CloseAlias
  <2>4. Sound(d) /\ Live(d) /\ Tight(d)
    BY <2>2, <2>3, ScaledSound, ScaledTight, StateFacts DEF Good
  <2> HIDE DEF d
  <2>5. Good(t)
    BY <2>2, <2>4, ThenGood, StateFacts DEF Good
  <2> HIDE DEF t
  <2>6. Good([t EXCEPT !.size = Inner.lower])
    BY <2>2, <2>5, SizedGood
  <2> QED
    BY <1>1, <2>1, <2>2, <2>6, PushState DEF CloseAlias
<1>3. CASE ~CloseOk(Top.use)
  BY <1>3, RefuseState DEF CloseAlias
<1> QED
  BY <1>2, <1>3

LEMMA NoArmsStep ==
  ASSUME State, NEW m \in Modes, NoArms(m)
  PROVE  State'
<1> DEFINE t == Term(m, Unreachable, {}, {})
           e == [t EXCEPT !.kind = "arms"]
<1>1. m \in Quantities /\ Size \in 0 .. Depth
  BY BoundAssumption, StateFacts
<1>2. e \in Entry /\ e.use = Unreachable /\ e.runs = {} /\ e.dead = {} /\ e.kind = "arms"
  BY <1>1, SomeUsage DEF Term, Entry
<1> HIDE DEF e
<1>3. Enclosed(e)
  BY <1>2 DEF Enclosed, Unreachable, NoRows, Unused, Pair, Zero
<1>4. Good(e)
  <2>1. \A l \in Level : e.use.reads[l].hi = Zero
    BY <1>2 DEF Unreachable, NoRows, Unused, Pair
  <2> QED
    BY <1>2, <1>3, <2>1 DEF Good, Sound, Tight
<1>5. Push(0, e) /\ refused' = refused /\ locals' = locals /\ Spend
  BY DEF NoArms, e
<1> QED
  BY <1>4, <1>5, PushState, StateFacts DEF State, Scopes

LEMMA FoldArmStep ==
  ASSUME State, FoldArm
  PROVE  State'
<1> DEFINE e == [Next2 EXCEPT !.use  = Alternative(Next2.use, Top.use),
                              !.runs = Next2.runs \cup Top.runs,
                              !.dead = Next2.dead \cup Top.dead]
<1>1. Good(Top) /\ Good(Next2) /\ Len(stack) >= 2 /\ Next2.kind = "arms"
  BY StateFacts DEF FoldArm
<1>2. Sound(e) /\ e.kind = "arms"
  BY <1>1, FoldSound DEF Good, Sound, Entry
<1>4. Tight(e)
  <2>1. /\ e.use = Alternative(Next2.use, Top.use)
        /\ e.runs = Next2.runs \cup Top.runs /\ e.dead = Next2.dead \cup Top.dead
    BY <1>1 DEF Good, Sound, Entry
  <2> HIDE DEF e
  <2> QED
    BY <2>1, <1>1, FoldTight DEF Good
<1>3. Push(2, e) /\ refused' = refused /\ locals' = locals /\ Spend
  BY DEF FoldArm
<1> HIDE DEF e
<1> QED
  BY <1>1, <1>2, <1>3, <1>4, PushState DEF State, Scopes, Good

LEMMA EliminateStep ==
  ASSUME State, Eliminate
  PROVE  State'
<1> DEFINE m == Top.mode
           a == Scaled(m, m, Top)
           w == Then(m, Next2, a)
           ds == w.dead \cup {r.count : r \in Next2.runs}
           stop == [w EXCEPT !.dead = @ \cup {r.count : r \in Next2.runs}]
<1>1. /\ Good(Top) /\ Good(Next2) /\ Len(stack) >= 2 /\ m \in Quantities
      /\ Next2.kind = "term" /\ Size \in 0 .. Depth
  BY StateFacts DEF Eliminate
<1>2. Sound(a) /\ Tight(a) /\ (Live(Top) \/ m = Zero => Live(a))
  BY <1>1, ScaledSound, ScaledTight DEF Good
<1>3. Live(Next2)
  BY <1>1 DEF Good
<1>4. CASE m # Zero /\ Stops(Top)
  <2>1. Sound(w) /\ Sound(stop)
    BY <1>1, <1>2, ThenSound, StopSound DEF Good
  <2>2. stop.dead = ds
    BY <2>1 DEF Sound, Entry
  <2>3. ds # {}
    BY <1>3 DEF Live, Then, Term, SeqDead
  <2>4. Good(stop)
    <3> HIDE DEF stop, ds
    <3> QED
      BY <2>1, <2>2, <2>3 DEF Good, Live, Tight, Straight
  <2>5. Push(2, stop)
    BY <1>4 DEF Eliminate
  <2> HIDE DEF stop
  <2> QED
    BY <1>1, <2>4, <2>5, PushState DEF Eliminate, State, Scopes
<1>5. CASE ~(m # Zero /\ Stops(Top))
  <2>1. Live(a)
    BY <1>2, <1>5 DEF Stops, Live
  <2>2. Good(w)
    BY <1>1, <1>2, <1>3, <2>1, ThenSound, ThenLive, ThenTight DEF Good
  <2>3. Push(2, w)
    BY <1>5 DEF Eliminate
  <2> HIDE DEF w
  <2> QED
    BY <1>1, <2>2, <2>3, PushState DEF Eliminate, State, Scopes
<1> QED
  BY <1>4, <1>5
-----------------------------------------------------------------------------
(* IInv holds in every reachable state. *)
THEOREM Invariance == Spec => []IInv
<1>1. Init => State
  <2> SUFFICES ASSUME Init PROVE State
    OBVIOUS
  <2>1. Scopes(locals) /\ Stacked(stack)
    BY DepthAssumption DEF Init, Scopes, Stacked
  <2>2. Fuel \in 0 .. Fuel
    BY BoundAssumption
  <2> QED
    BY <2>1, <2>2 DEF Init, State
<1>2. State /\ [Next]_vars => State'
  <2> SUFFICES ASSUME State, [Next]_vars PROVE State'
    OBVIOUS
  <2>1. CASE \E l \in 0 .. Size - 1, m \in Modes : ReadLocal(l, m)
    BY <2>1, ReadStep
  <2>2. CASE \E m \in Modes : Closed(m)
    BY <2>2, ClosedStep
  <2>3. CASE InSequence
    BY <2>3, InSequenceStep
  <2>4. CASE \E r \in {"lambda", "arm"}, m \in Modes,
             qs \in [1 .. 1 -> Quantities] \cup [1 .. 2 -> Quantities] : Open(r, m, qs)
    BY <2>4, OpenStep
  <2>5. CASE \E m \in Modes : OpenAlias(m)
    BY <2>5, OpenAliasStep
  <2>6. CASE CloseLambda
    BY <2>6, CloseLambdaStep
  <2>7. CASE CloseArm
    BY <2>7, CloseArmStep
  <2>8. CASE CloseAlias
    BY <2>8, CloseAliasStep
  <2>9. CASE \E m \in Modes : BareArm(m)
    BY <2>9, BareArmStep
  <2>10. CASE \E m \in Modes : NoArms(m)
    BY <2>10, NoArmsStep
  <2>11. CASE FoldArm
    BY <2>11, FoldArmStep
  <2>12. CASE Eliminate
    BY <2>12, EliminateStep
  <2>13. CASE UNCHANGED vars
    BY <2>13 DEF vars, State, Scopes, Stacked
  <2> QED
    BY <2>1, <2>2, <2>3, <2>4, <2>5, <2>6, <2>7, <2>8, <2>9, <2>10, <2>11, <2>12, <2>13
    DEF Next
<1> QED
  BY <1>1, <1>2, IInvIff, PTL DEF Spec

(* The types of the checker's context and usages, for every Depth, Height  *)
(* and Fuel.                                                               *)
THEOREM Typing == Spec => []TypeOK
<1>1. IInv => TypeOK
  BY DEF IInv
<1> QED
  BY <1>1, Invariance, PTL

(* The intervals of quantity_sequence, _alternative, _scale, _captures and *)
(* _remove enclose what runs consume, whatever the term is.                *)
THEOREM HullsEnclose == Spec => []Hulls
<1>1. IInv => Hulls
  BY DEF IInv
<1> QED
  BY <1>1, Invariance, PTL

(* Only a close that accepts its binders leaves a scope. *)
LEMMA ClosesBy ==
  ASSUME State, [Next]_vars, Closes
  PROVE  CloseLambda \/ CloseArm \/ CloseAlias
<1>1. Size \in Nat
  BY StateFacts DEF Size, State, Scopes
<1>2. ~UNCHANGED locals
  BY <1>1 DEF Closes, Size
<1>3. ~\E l \in 0 .. Size - 1, m \in Modes : ReadLocal(l, m)
  BY <1>2 DEF ReadLocal, Refuse
<1>4. ~\E m \in Modes : Closed(m) \/ BareArm(m) \/ NoArms(m)
  BY <1>2 DEF Closed, BareArm, NoArms
<1>5. ~(InSequence \/ FoldArm \/ Eliminate \/ UNCHANGED vars)
  BY <1>2 DEF InSequence, FoldArm, Eliminate, vars
<1>6. ~\E r \in {"lambda", "arm"}, m \in Modes,
         qs \in [1 .. 1 -> Quantities] \cup [1 .. 2 -> Quantities] : Open(r, m, qs)
  <2> SUFFICES ASSUME NEW r \in {"lambda", "arm"}, NEW m \in Modes,
                      NEW qs \in [1 .. 1 -> Quantities] \cup [1 .. 2 -> Quantities],
                      Open(r, m, qs)
               PROVE  FALSE
    OBVIOUS
  <2>1. Scopes(locals') /\ Len(locals') > Size
    BY OpenStep DEF State
  <2>2. Len(locals') \in Nat
    BY <2>1 DEF Scopes
  <2> QED
    BY <1>1, <2>1, <2>2 DEF Closes
<1>7. ~\E m \in Modes : OpenAlias(m)
  <2> SUFFICES ASSUME NEW m \in Modes, OpenAlias(m) PROVE FALSE
    OBVIOUS
  <2>1. Scopes(locals') /\ Len(locals') > Size
    BY OpenAliasStep DEF State
  <2>2. Len(locals') \in Nat
    BY <2>1 DEF Scopes
  <2> QED
    BY <1>1, <2>1, <2>2 DEF Closes
<1> QED
  BY <1>3, <1>4, <1>5, <1>6, <1>7 DEF Next

LEMMA ClosesAccepted ==
  ASSUME State, [Next]_vars, Closes
  PROVE  Size > 0 /\ TopTerm /\ CloseOk(Top.use)
<1>1. Size \in Nat
  BY StateFacts
<1>2. ~UNCHANGED locals
  BY <1>1 DEF Closes, Size
<1> QED
  BY <1>2, ClosesBy DEF CloseLambda, CloseArm, CloseAlias, Closing, Refuse

(* check_close_loop accepts a linear binder only when every run to the end *)
(* of its scope consumes it exactly once (an alias: at most once).         *)
THEOREM LinearBindersOnce == Spec => LinearOnce
<1>1. ASSUME State, [Next]_vars, Closes
      PROVE  \A i \in Inner.lower + 1 .. Size :
               Inner.mode # Zero /\ locals[i].quantity = One => Consumed(i, Top)
  <2> SUFFICES ASSUME NEW i \in Inner.lower + 1 .. Size,
                      Inner.mode # Zero, locals[i].quantity = One
               PROVE  Consumed(i, Top)
    OBVIOUS
  <2>1. Size > 0 /\ TopTerm /\ CloseOk(Top.use)
    BY <1>1, ClosesAccepted
  <2>2. Good(Top) /\ Sound(Top)
    BY <1>1, <2>1, StateFacts DEF Good
  <2>3. Size \in 0 .. Depth /\ Inner.lower \in Nat
    <3>1. Size \in 0 .. Depth /\ Size \in 1 .. Len(locals) /\ locals \in Seq(Local)
      BY <1>1, <2>1, StateFacts DEF State, Scopes, Size
    <3>2. Inner \in Local
      BY <3>1 DEF Inner
    <3> QED
      BY <3>1, <3>2, DepthAssumption DEF Local, Level
  <2> DEFINE l == i - 1
             p == Top.use.paths[l]
             d == Top.use.reads[l]
  <2>4. l \in Level
    BY <2>3, DepthAssumption DEF Level
  <2>5. /\ p.lo \in Quantities /\ p.hi \in Quantities /\ p.hi <= d.hi
        /\ d.hi \in Quantities
        /\ \A r \in Top.runs : /\ r.count[l] \in Quantities /\ r.count[l] <= p.hi
                               /\ ~r.vacuous => p.lo <= r.count[l]
                               /\ r.vacuous \in BOOLEAN
        /\ \A x \in Top.dead : x[l] \in Quantities /\ x[l] <= d.hi
    BY <2>2, <2>4, Parts
  <2>6. Top.use.returns <=> Top.runs # {}
    BY <2>2 DEF Sound, Enclosed
  <2>7. IF Inner.role = "alias" THEN AtMostOnce(l, Top.use) ELSE ExactlyOnce(l, Top.use)
    BY <2>1 DEF CloseOk, BinderOk
  <2>8. CASE Top.runs = {}
    <3>1. Get(l, Top.use) = Pair(One, Maximum(One, d.hi))
      BY <2>6, <2>8 DEF Get
    <3>2. Maximum(One, d.hi) # Many
      BY <2>7, <3>1 DEF AtMostOnce, ExactlyOnce, Pair, One, Many
    <3>3. d.hi # Many
      BY <3>2 DEF Maximum, One, Many
    <3> QED
      BY <2>5, <2>8, <3>3 DEF Consumed, Quantities, Zero, One, Many
  <2>9. CASE Top.runs # {}
    <3>1. Get(l, Top.use) = p
      BY <2>6, <2>9 DEF Get
    <3>2. p.hi # Many /\ (Inner.role # "alias" => p.lo = One)
      BY <2>7, <3>1 DEF AtMostOnce, ExactlyOnce, Pair, One, Many
    <3>3. ASSUME NEW r \in Top.runs
          PROVE  /\ r.count[l] # Many
                 /\ r.count[l] = One \/ r.vacuous \/ Inner.role = "alias"
      <4>1. r.count[l] # Many
        BY <2>5, <3>2 DEF Quantities, Zero, One, Many
      <4>2. CASE ~r.vacuous /\ Inner.role # "alias"
        <5>1. One <= r.count[l]
          BY <2>5, <3>2, <4>2
        <5> QED
          BY <2>5, <4>1, <5>1 DEF Quantities, Zero, One, Many
      <4> QED
        BY <4>1, <4>2
    <3> QED
      BY <2>9, <3>3 DEF Consumed
  <2> QED
    BY <2>8, <2>9
<1>2. ASSUME IInv, [Next]_vars
      PROVE  [Closes => \A i \in Inner.lower + 1 .. Size :
                Inner.mode # Zero /\ locals[i].quantity = One => Consumed(i, Top)]_vars
  BY <1>1, <1>2, IInvIff
<1> QED
  BY <1>2, Invariance, PTL DEF Spec, LinearOnce

(* Where nothing ends dead, check_close_loop refuses no binder that every  *)
(* run treats rightly: the interval it tests has no slack.                 *)
THEOREM NothingRefusedInVain == Spec => []NoSpuriousRefusal
<1>1. ASSUME IInv PROVE NoSpuriousRefusal
  <2> SUFFICES ASSUME NEW e \in Entries, e.kind = "term", Straight(e), NEW l \in Level
               PROVE  /\ (\A r \in e.runs : r.count[l] = One) => ExactlyOnce(l, e.use)
                      /\ (\A r \in e.runs : r.count[l] # Many) => AtMostOnce(l, e.use)
    BY DEF NoSpuriousRefusal
  <2>1. Sound(e) /\ Live(e) /\ Tight(e)
    <3>1. stack \in Seq(Entry)
      BY <1>1 DEF IInv, TypeOK
    <3>2. PICK i \in 1 .. Len(stack) : e = stack[i]
      BY DEF Entries
    <3> QED
      BY <1>1, <3>1, <3>2 DEF IInv, Hulls, Lively, Exact, Sound
  <2>2. e.runs # {}
    BY <2>1 DEF Live, Straight
  <2> DEFINE p == e.use.paths[l]
  <2>3. Get(l, e.use) = p
    BY <2>1, <2>2 DEF Sound, Enclosed, Get
  <2>4. /\ \E r \in e.runs : r.count[l] = p.lo
        /\ \E r \in e.runs : r.count[l] = p.hi
    BY <2>1, <2>2 DEF Tight
  <2>5. p \in Interval
    BY <2>1, Parts DEF Rows
  <2>6. p.lo = One /\ p.hi = One => p = Pair(One, One)
    BY <2>5 DEF Interval, Pair
  <2> HIDE DEF p
  <2> QED
    BY <2>3, <2>4, <2>6 DEF ExactlyOnce, AtMostOnce
<1> QED
  BY <1>1, Invariance, PTL

-----------------------------------------------------------------------------
(* The definition of a let stays in hand under everything its body pushes, *)
(* and an alias that is not linear has a definition that reads nothing     *)
(* linear.                                                                 *)
Definition(k, j) ==
  /\ stack[j].size = k - 1
  /\ \A i \in j + 1 .. Len(stack) : stack[i].size >= k
  /\ locals[k].mode # Zero /\ locals[k].quantity # One =>
       \A i \in 1 .. k - 1 : locals[i].quantity = One => ~Used(i - 1, stack[j].use)
Aliased ==
  \A k \in 1 .. Size : locals[k].role = "alias" =>
    /\ locals[k].lower = k - 1
    /\ \E j \in 1 .. Len(stack) : Definition(k, j)

(* Entries of the scopes that stay open are not touched by a push. *)
LEMMA AliasedPush ==
  ASSUME State, Aliased, NEW n \in 0 .. Len(stack), NEW e, Push(n, e),
         NEW p \in 0 .. Size, e.size = p, locals' = SubSeq(locals, 1, p),
         \A i \in Len(stack) - n + 1 .. Len(stack) : stack[i].size >= p
  PROVE  Aliased'
<1>1. Len(stack) \in Nat /\ Size \in Nat /\ locals \in Seq(Local) /\ stack \in Seq(Entry)
  BY StateFacts DEF State, Scopes, Stacked, Size
<1>2. Len(locals') = p /\ \A k \in 1 .. p : locals'[k] = locals[k] /\ k \in 1 .. Size
  BY <1>1 DEF Size
<1> DEFINE b == Below(n)
           c == Len(stack) - n
<1>3. c \in 0 .. Len(stack) /\ Len(b) = c /\ \A i \in 1 .. c : b[i] = stack[i]
  BY <1>1 DEF Below
<1>4. /\ Len(stack') = c + 1 /\ stack'[c + 1] = e
      /\ \A i \in 1 .. c : stack'[i] = stack[i]
  <2>1. stack' = Append(b, e) /\ b \in Seq(Entry)
    BY <1>1 DEF Push, Below
  <2> HIDE DEF b, c
  <2> QED
    BY <2>1, <1>3
<1> HIDE DEF b
<1>5. SUFFICES ASSUME NEW k \in 1 .. p, locals[k].role = "alias"
      PROVE  /\ locals[k].lower = k - 1
             /\ \E j \in 1 .. Len(stack') : Definition(k, j)'
  BY <1>2 DEF Aliased, Size
<1>6. PICK j \in 1 .. Len(stack) : Definition(k, j)
  BY <1>2, <1>5 DEF Aliased
<1>7. j \in 1 .. c
  <2>1. stack[j].size = k - 1
    BY <1>6 DEF Definition
  <2>2. ~(stack[j].size >= p)
    BY <2>1, <1>5
  <2>3. ~(j \in Len(stack) - n + 1 .. Len(stack))
    BY <2>2
  <2> QED
    BY <2>3, <1>1, <1>3
<1>8. \A i \in j + 1 .. Len(stack') : stack'[i].size >= k
  <2> SUFFICES ASSUME NEW i \in j + 1 .. c + 1 PROVE stack'[i].size >= k
    BY <1>4
  <2>1. CASE i = c + 1
    BY <2>1, <1>4, <1>5
  <2>2. CASE i # c + 1
    <3>1. i \in 1 .. c /\ i \in j + 1 .. Len(stack)
      <4> HIDE DEF c
      <4> QED
        BY <2>2, <1>3, <1>7, <1>1
    <3> QED
      BY <3>1, <1>4, <1>6 DEF Definition
  <2> QED
    BY <2>1, <2>2
<1>9. \A i \in 1 .. k : locals'[i] = locals[i]
  BY <1>2, <1>5
<1>10. Definition(k, j)'
  <2>1. stack'[j] = stack[j] /\ locals'[k] = locals[k]
    BY <1>4, <1>7, <1>9
  <2>2. stack'[j].size = k - 1
    BY <2>1, <1>6 DEF Definition
  <2>3. ASSUME locals'[k].mode # Zero, locals'[k].quantity # One,
               NEW i \in 1 .. k - 1, locals'[i].quantity = One
        PROVE  ~Used(i - 1, stack'[j].use)
    <3>1. i \in 1 .. k
      OBVIOUS
    <3> QED
      BY <2>1, <2>3, <3>1, <1>9, <1>6 DEF Definition
  <2> QED
    BY <2>2, <2>3, <1>8 DEF Definition
<1>11. j \in 1 .. Len(stack')
  BY <1>4, <1>7, <1>3
<1> QED
  BY <1>2, <1>5, <1>10, <1>11 DEF Aliased

(* The entry a rule builds in the open scope. *)
LEMMA AliasedHere ==
  ASSUME State, Aliased, NEW n \in 0 .. Len(stack), NEW e, Push(n, e), e.size = Size,
         locals' = locals,
         \A i \in Len(stack) - n + 1 .. Len(stack) : stack[i].size = Size
  PROVE  Aliased'
<1>1. Size \in Nat /\ locals \in Seq(Local) /\ Size = Len(locals)
  BY StateFacts DEF State, Scopes, Size
<1>2. locals' = SubSeq(locals, 1, Size) /\ Size \in 0 .. Size
  BY <1>1
<1>3. \A i \in Len(stack) - n + 1 .. Len(stack) : stack[i].size >= Size
  BY <1>1
<1> QED
  BY <1>2, <1>3, AliasedPush

LEMMA AliasedSame ==
  ASSUME Aliased, UNCHANGED <<locals, stack>>
  PROVE  Aliased'
  BY DEF Aliased, Definition, Size

(* A scope that opens is above every entry in hand. *)
LEMMA AliasedBind ==
  ASSUME State, Aliased, NEW role \in Role, NEW mode \in Quantities,
         NEW qs \in Seq(Quantities), qs # <<>>, Size + Len(qs) <= Depth,
         Bind(role, mode, qs), stack' = stack,
         role = "alias" =>
           /\ Len(qs) = 1 /\ Len(stack) >= 1 /\ Top.size = Size
           /\ mode # Zero /\ qs[1] # One => ~LinearDefinition(Top.use)
  PROVE  Aliased'
<1> DEFINE f == [i \in 1 .. Len(qs) |->
                  [quantity |-> qs[i], role |-> role, mode |-> mode, lower |-> Size]]
<1>1. Size \in Nat /\ locals \in Seq(Local) /\ Size = Len(locals) /\ Len(stack) \in Nat
      /\ Len(qs) \in Nat \ {0}
  BY StateFacts DEF State, Scopes, Size
<1>2. f \in Seq(Local) /\ Len(f) = Len(qs)
  <2>1. Size \in Level
    BY <1>1, DepthAssumption DEF Level
  <2>2. \A i \in 1 .. Len(qs) : f[i] \in Local
    BY <2>1 DEF Local
  <2> QED
    BY <1>1, <2>2, IsASeq
<1>3. locals' = locals \o f
  BY DEF Bind
<1>4. \A i \in 1 .. Len(qs) : f[i].role = role /\ f[i].mode = mode
                              /\ f[i].quantity = qs[i] /\ f[i].lower = Size
  OBVIOUS
<1> HIDE DEF f
<1>5. /\ Len(locals') = Size + Len(qs)
      /\ \A i \in 1 .. Len(locals') :
           locals'[i] = IF i <= Size THEN locals[i] ELSE f[i - Size]
  <2>1. Len(locals') = Size + Len(f)
    BY <1>1, <1>2, <1>3, ConcatProperties DEF Size
  <2>2. \A i \in 1 .. Len(locals') :
          locals'[i] = IF i <= Size THEN locals[i] ELSE f[i - Size]
    BY <1>1, <1>2, <1>3, ConcatProperties DEF Size
  <2> QED
    BY <2>1, <2>2, <1>2
<1>6. SUFFICES ASSUME NEW k \in 1 .. Len(locals'), locals'[k].role = "alias"
      PROVE  /\ locals'[k].lower = k - 1
             /\ \E j \in 1 .. Len(stack) : Definition(k, j)'
  BY DEF Aliased, Size
<1>7. CASE k <= Size
  <2>1. k \in 1 .. Size /\ locals'[k] = locals[k]
        /\ \A i \in 1 .. k : locals'[i] = locals[i]
    BY <1>1, <1>5, <1>7
  <2>2. PICK j \in 1 .. Len(stack) : Definition(k, j)
    BY <2>1, <1>6 DEF Aliased
  <2>3. Definition(k, j)'
    <3>1. \A i \in 1 .. k - 1 : locals'[i] = locals[i]
      BY <2>1
    <3> QED
      BY <2>1, <2>2, <3>1 DEF Definition
  <2> QED
    BY <2>1, <2>3, <1>6 DEF Aliased
<1>8. CASE ~(k <= Size)
  <2>1. k - Size \in 1 .. Len(qs) /\ locals'[k] = f[k - Size]
    BY <1>1, <1>5, <1>8
  <2>2. role = "alias" /\ locals'[k].mode = mode /\ locals'[k].lower = Size
        /\ locals'[k].quantity = qs[k - Size]
    BY <2>1, <1>4, <1>6
  <2>3. k = Size + 1 /\ k - Size = 1
    <3>1. Len(qs) = 1 /\ k \in Nat /\ k <= Size + Len(qs)
      BY <2>2, <1>1, <1>5
    <3> QED
      BY <3>1, <1>1, <1>8
  <2>0. PICK j \in 1 .. Len(stack) : j = Len(stack)
    BY <2>2, <1>1
  <2>4. j \in 1 .. Len(stack) /\ stack[j] = Top /\ stack[j].size = Size
    BY <2>0, <2>2 DEF Top
  <2>5. \A i \in j + 1 .. Len(stack) : stack[i].size >= k
    BY <1>1, <2>0
  <2>6. ASSUME locals'[k].mode # Zero, locals'[k].quantity # One,
               NEW i \in 1 .. k - 1, locals'[i].quantity = One
        PROVE  ~Used(i - 1, stack[j].use)
    <3>1. ~LinearDefinition(Top.use)
      BY <2>2, <2>3, <2>6
    <3>2. i \in 1 .. Size /\ locals[i].quantity = One
      BY <2>3, <2>6, <1>1, <1>5
    <3> QED
      BY <3>1, <3>2, <2>4 DEF LinearDefinition
  <2>8. stack[j].size = k - 1
    BY <2>3, <2>4, <1>1
  <2>7. Definition(k, j)'
    BY <2>5, <2>6, <2>8 DEF Definition
  <2>9. locals'[k].lower = k - 1
    BY <2>2, <2>3, <1>1
  <2> QED
    BY <2>4, <2>7, <2>9
<1> QED
  BY <1>7, <1>8

(* The entries that a rule takes belong to the open scope. *)
LEMMA TakenHere ==
  ASSUME State
  PROVE  /\ \A i \in Len(stack) - 0 + 1 .. Len(stack) : stack[i].size = Size
         /\ TopTerm => /\ Len(stack) >= 1
                       /\ \A i \in Len(stack) - 1 + 1 .. Len(stack) : stack[i].size = Size
         /\ TwoHere => /\ Len(stack) >= 2
                       /\ \A i \in Len(stack) - 2 + 1 .. Len(stack) : stack[i].size = Size
<1>1. Len(stack) \in Nat
  BY StateFacts
<1>2. \A i \in Len(stack) - 0 + 1 .. Len(stack) : stack[i].size = Size
  BY <1>1
<1>3. ASSUME TopTerm
      PROVE  \A i \in Len(stack) - 1 + 1 .. Len(stack) : stack[i].size = Size
  <2>1. \A i \in Len(stack) - 1 + 1 .. Len(stack) : i = Len(stack)
    BY <1>1
  <2> QED
    BY <2>1, <1>3 DEF TopTerm, Top
<1>4. ASSUME TwoHere
      PROVE  \A i \in Len(stack) - 2 + 1 .. Len(stack) : stack[i].size = Size
  <2>1. \A i \in Len(stack) - 2 + 1 .. Len(stack) : i = Len(stack) \/ i = Len(stack) - 1
    BY <1>1
  <2> QED
    BY <2>1, <1>4 DEF TwoHere, Top, Next2
<1> QED
  BY <1>2, <1>3, <1>4 DEF TopTerm, TwoHere

LEMMA TermSize == ASSUME NEW m, NEW u, NEW r, NEW d
                  PROVE  Term(m, u, r, d).size = Size
  BY DEF Term

(* The rules that leave the scopes as they are. *)
LEMMA AliasedRules ==
  ASSUME State, Aliased,
         \/ \E l \in 0 .. Size - 1, m \in Modes : ReadLocal(l, m)
         \/ \E m \in Modes : Closed(m) \/ BareArm(m) \/ NoArms(m)
         \/ InSequence \/ FoldArm \/ Eliminate
  PROVE  Aliased'
<1>0. Len(stack) \in Nat /\ 0 \in 0 .. Len(stack)
      /\ (TopTerm => 1 \in 0 .. Len(stack)) /\ (TwoHere => 2 \in 0 .. Len(stack))
  BY StateFacts
<1>1. ASSUME NEW e, Push(0, e), e.size = Size, locals' = locals PROVE Aliased'
  BY <1>0, <1>1, TakenHere, AliasedHere
<1>2. ASSUME NEW e, Push(1, e), e.size = Size, locals' = locals, TopTerm PROVE Aliased'
  BY <1>0, <1>2, TakenHere, AliasedHere
<1>3. ASSUME NEW e, Push(2, e), e.size = Size, locals' = locals, TwoHere PROVE Aliased'
  BY <1>0, <1>3, TakenHere, AliasedHere
<1>4. ASSUME NEW l \in 0 .. Size - 1, NEW m \in Modes, ReadLocal(l, m) PROVE Aliased'
  <2>1. CASE Readable(m, locals[l + 1].quantity)
    <3> DEFINE e == Leaf(m, Occurrence(l, m), [None EXCEPT ![l] = m])
    <3>1. e.size = Size
      BY TermSize DEF Leaf
    <3>2. Push(0, e) /\ locals' = locals
      BY <1>4, <2>1 DEF ReadLocal
    <3> HIDE DEF e
    <3> QED
      BY <3>1, <3>2, <1>1
  <2>2. CASE ~Readable(m, locals[l + 1].quantity)
    BY <1>4, <2>2, AliasedSame DEF ReadLocal, Refuse
  <2> QED
    BY <2>1, <2>2
<1>5. ASSUME NEW m \in Modes, Closed(m) PROVE Aliased'
  <2> DEFINE e == Leaf(m, Empty, None)
  <2>1. e.size = Size
    BY TermSize DEF Leaf
  <2>2. Push(0, e) /\ locals' = locals
    BY <1>5 DEF Closed
  <2> HIDE DEF e
  <2> QED
    BY <2>1, <2>2, <1>1
<1>6. ASSUME NEW m \in Modes, NoArms(m) PROVE Aliased'
  <2> DEFINE e == [Term(m, Unreachable, {}, {}) EXCEPT !.kind = "arms"]
  <2>1. e.size = Size
    BY DEF Term
  <2>2. Push(0, e) /\ locals' = locals
    BY <1>6 DEF NoArms
  <2> HIDE DEF e
  <2> QED
    BY <2>1, <2>2, <1>1
<1>7. ASSUME NEW m \in Modes, BareArm(m) PROVE Aliased'
  <2> DEFINE e == [Top EXCEPT !.kind = "arms", !.mode = m]
  <2>1. Top \in Entry /\ Top.size = Size /\ TopTerm
    BY <1>7, StateFacts DEF BareArm, Good, Sound, TopTerm
  <2>2. e.size = Size
    BY <2>1 DEF Entry
  <2>3. Push(1, e) /\ locals' = locals
    BY <1>7 DEF BareArm
  <2> HIDE DEF e
  <2> QED
    BY <2>1, <2>2, <2>3, <1>2
<1>8. ASSUME InSequence PROVE Aliased'
  <2>1. PICK m \in {Top.mode, Next2.mode} : Push(2, Then(m, Next2, Top))
    BY <1>8 DEF InSequence
  <2>2. Then(m, Next2, Top).size = Size
    BY TermSize DEF Then
  <2>3. TwoHere /\ locals' = locals
    BY <1>8 DEF InSequence
  <2> QED
    BY <2>1, <2>2, <2>3, <1>3
<1>9. ASSUME FoldArm PROVE Aliased'
  <2> DEFINE e == [Next2 EXCEPT !.use  = Alternative(Next2.use, Top.use),
                                !.runs = Next2.runs \cup Top.runs,
                                !.dead = Next2.dead \cup Top.dead]
  <2>1. Next2 \in Entry /\ Next2.size = Size /\ TwoHere
    BY <1>9, StateFacts DEF FoldArm, Good, Sound, TwoHere
  <2>2. e.size = Size
    BY <2>1 DEF Entry
  <2>3. Push(2, e) /\ locals' = locals
    BY <1>9 DEF FoldArm
  <2> HIDE DEF e
  <2> QED
    BY <2>1, <2>2, <2>3, <1>3
<1>10. ASSUME Eliminate PROVE Aliased'
  <2> DEFINE w == Then(Top.mode, Next2, Scaled(Top.mode, Top.mode, Top))
             s == [w EXCEPT !.dead = @ \cup {r.count : r \in Next2.runs}]
  <2>1. w.size = Size /\ s.size = Size
    BY DEF Then, Term
  <2>2. (Push(2, s) \/ Push(2, w)) /\ locals' = locals /\ TwoHere
    BY <1>10 DEF Eliminate
  <2> HIDE DEF w, s
  <2> QED
    BY <2>1, <2>2, <1>3
<1> QED
  BY <1>4, <1>5, <1>6, <1>7, <1>8, <1>9, <1>10

LEMMA AliasedOpens ==
  ASSUME State, Aliased,
         \/ \E r \in {"lambda", "arm"}, m \in Modes,
               qs \in [1 .. 1 -> Quantities] \cup [1 .. 2 -> Quantities] : Open(r, m, qs)
         \/ \E m \in Modes : OpenAlias(m)
  PROVE  Aliased'
<1>1. ASSUME NEW r \in {"lambda", "arm"}, NEW m \in Modes,
             NEW qs \in [1 .. 1 -> Quantities] \cup [1 .. 2 -> Quantities], Open(r, m, qs)
      PROVE  Aliased'
  <2>0. \E n \in {1, 2} : qs \in [1 .. n -> Quantities]
    OBVIOUS
  <2>1. PICK n \in Nat : qs \in [1 .. n -> Quantities] /\ n # 0
    BY <2>0
  <2>2. qs \in Seq(Quantities)
    BY <2>1, SeqDef
  <2>3. Len(qs) = n
    BY <2>1
  <2>4. qs # <<>> /\ r \in Role /\ m \in Quantities /\ r # "alias"
    BY <2>1, <2>2, <2>3, BoundAssumption DEF Role
  <2> QED
    BY <1>1, <2>2, <2>4, AliasedBind DEF Open
<1>2. ASSUME NEW m \in Modes, OpenAlias(m) PROVE Aliased'
  <2> DEFINE q == IF m = Zero THEN Zero
                  ELSE IF LinearDefinition(Top.use) THEN One ELSE Many
             qs == <<q>>
  <2>1. q \in Quantities /\ (m # Zero /\ q # One => ~LinearDefinition(Top.use))
    BY DEF Quantities
  <2>2. Bind("alias", m, qs) /\ TopTerm /\ Size < Depth /\ stack' = stack
    BY <1>2 DEF OpenAlias
  <2> HIDE DEF q
  <2>3. qs \in Seq(Quantities) /\ qs # <<>> /\ Len(qs) = 1 /\ qs[1] = q
    BY <2>1
  <2>4. Size + Len(qs) <= Depth
    BY <2>2, <2>3, StateFacts, DepthAssumption
  <2>5. "alias" \in Role /\ m \in Quantities
    BY BoundAssumption DEF Role
  <2> HIDE DEF qs
  <2> QED
    BY <2>1, <2>2, <2>3, <2>4, <2>5, AliasedBind DEF TopTerm
<1> QED
  BY <1>1, <1>2

(* When the scope of an alias closes, its definition is next in hand.      *)
LEMMA AliasScope ==
  ASSUME State, Aliased, Closing("alias", Inner.mode), Len(stack) > 1
  PROVE  /\ Inner.lower = Size - 1 /\ Next2.size = Inner.lower
         /\ Inner.mode # Zero /\ Inner.quantity # One =>
              \A i \in 1 .. Inner.lower :
                locals[i].quantity = One => ~Used(i - 1, Next2.use)
<1>1. /\ Size \in Nat /\ Size > 0 /\ Len(stack) \in Nat /\ stack \in Seq(Entry)
      /\ Top.size = Size /\ Next2.size < Size /\ locals[Size].role = "alias"
  BY StateFacts DEF Closing, TopTerm, Inner, State, Stacked
<1>2. Size \in 1 .. Size
  BY <1>1
<1>3. PICK j \in 1 .. Len(stack) : Definition(Size, j)
  BY <1>1, <1>2 DEF Aliased
<1>4. Inner.lower = Size - 1
  BY <1>1, <1>2 DEF Aliased, Inner
<1>5. j # Len(stack)
  BY <1>1, <1>3 DEF Definition, Top
<1>6. ~(Len(stack) - 1 \in j + 1 .. Len(stack))
  <2>1. ~(Next2.size >= Size)
    <3>1. Next2.size \in Nat
      <4>1. Len(stack) - 1 \in 1 .. Len(stack)
        BY <1>1
      <4>2. Next2 \in Entry
        BY <4>1, <1>1 DEF Next2
      <4>3. Next2.size \in 0 .. Depth
        BY <4>2 DEF Entry
      <4> QED
        BY <4>3, DepthAssumption
    <3> QED
      BY <3>1, <1>1
  <2> QED
    BY <2>1, <1>3 DEF Definition, Next2
<1>7. j = Len(stack) - 1
  BY <1>1, <1>5, <1>6
<1> QED
  BY <1>3, <1>4, <1>7 DEF Definition, Next2, Inner

LEMMA AliasedCloses ==
  ASSUME State, Aliased, CloseLambda \/ CloseArm \/ CloseAlias
  PROVE  Aliased'
<1>0. /\ Size \in Nat /\ Size > 0 /\ Len(stack) \in Nat /\ TopTerm /\ Top.size = Size
      /\ Len(stack) >= 1
  BY StateFacts DEF CloseLambda, CloseArm, CloseAlias, Closing, TopTerm
<1>1. CASE Refuse
  BY <1>1, AliasedSame DEF Refuse
<1>2. CASE ~Refuse
  <2>1. Leave /\ locals' = SubSeq(locals, 1, Inner.lower)
    BY <1>2 DEF CloseLambda, CloseArm, CloseAlias, Leave
  <2>2. /\ Good(Body) /\ Inner.mode \in Quantities /\ Inner.lower \in 0 .. Depth
        /\ Inner.lower < Size
    BY <1>0, <2>1, BodyGood
  <2>3. Inner.lower \in 0 .. Size /\ Inner.lower \in Nat
    BY <1>0, <2>2
  <2>4. ASSUME NEW e, Push(1, e), e.size = Inner.lower PROVE Aliased'
    <3>1. \A i \in Len(stack) - 1 + 1 .. Len(stack) : stack[i].size >= Inner.lower
      BY <1>0, <2>2, <2>3, TakenHere
    <3>2. 1 \in 0 .. Len(stack)
      BY <1>0
    <3> QED
      BY <2>1, <2>3, <2>4, <3>1, <3>2, AliasedPush
  <2>5. CASE CloseLambda
    <3> DEFINE c == Scaled(Inner.mode, Inner.mode, Closure(Body))
               e == [c EXCEPT !.size = Inner.lower]
    <3>1. Push(1, e) /\ Body.kind = "term"
      BY <1>0, <1>2, <2>1, <2>5, BodyGood DEF CloseLambda
    <3>2. Sound(Closure(Body))
      BY <2>2, <3>1, ClosureSound DEF Good
    <3>3. c \in Entry
      BY <2>2, <3>2, ScaledSound, StateFacts DEF Sound
    <3> HIDE DEF c
    <3>4. e.size = Inner.lower
      BY <3>3 DEF Entry
    <3> HIDE DEF e
    <3> QED
      BY <3>1, <3>4, <2>4
  <2>6. CASE CloseArm
    <3> DEFINE e == [Body EXCEPT !.kind = "arms"]
    <3>1. Push(1, e)
      BY <1>2, <2>6 DEF CloseArm
    <3>2. e.size = Inner.lower
      <4>1. Outside(Inner.lower, Top) \in Entry
        BY <1>0, <2>2, StateFacts, OutsideSound DEF Good, Sound
      <4>2. Outside(Inner.lower, Top).size = Inner.lower
        <5>1. Top \in Entry
          BY <1>0, StateFacts DEF Good, Sound
        <5> QED
          BY <5>1 DEF Outside, Entry
      <4>3. Body.size = Inner.lower
        BY <4>1, <4>2 DEF Body, Entry
      <4>4. Body \in Entry
        BY <2>2 DEF Good, Sound
      <4> QED
        BY <4>3, <4>4 DEF Entry
    <3> HIDE DEF e
    <3> QED
      BY <3>1, <3>2, <2>4
  <2>7. CASE CloseAlias
    <3> DEFINE t == Then(Inner.mode, Scaled(Inner.mode, Inner.mode, Next2), Body)
               e == [t EXCEPT !.size = Inner.lower]
    <3>1. Push(2, e) /\ Closing("alias", Inner.mode) /\ Len(stack) > 1
      BY <1>2, <2>7 DEF CloseAlias
    <3>2. e.size = Inner.lower
      BY DEF Then, Term
    <3>3. Next2.size = Inner.lower
      BY <3>1, AliasScope
    <3>4. \A i \in Len(stack) - 2 + 1 .. Len(stack) : stack[i].size >= Inner.lower
      <4>1. \A i \in Len(stack) - 2 + 1 .. Len(stack) : i = Len(stack) \/ i = Len(stack) - 1
        BY <1>0
      <4>2. Top.size >= Inner.lower /\ Next2.size >= Inner.lower
        BY <1>0, <2>2, <2>3, <3>3
      <4> QED
        BY <4>1, <4>2 DEF Top, Next2
    <3>5. 2 \in 0 .. Len(stack)
      BY <1>0, <3>1
    <3> HIDE DEF e
    <3> QED
      BY <2>1, <2>3, <3>1, <3>2, <3>4, <3>5, AliasedPush
  <2> QED
    BY <2>5, <2>6, <2>7
<1> QED
  BY <1>1, <1>2

LEMMA AliasedInvariance == Spec => [](State /\ Aliased)
<1>1. Init => Aliased
  BY DEF Init, Aliased, Size
<1>2. ASSUME IInv, Aliased, [Next]_vars PROVE Aliased'
  <2>1. State
    BY <1>2, IInvIff
  <2>2. CASE UNCHANGED vars
    BY <1>2, <2>2, AliasedSame DEF vars
  <2>3. CASE Next
    BY <1>2, <2>1, <2>3, AliasedRules, AliasedOpens, AliasedCloses DEF Next
  <2> QED
    BY <1>2, <2>2, <2>3
<1>3. IInv <=> State
  BY IInvIff
<1> QED
  BY <1>1, <1>2, <1>3, Invariance, PTL DEF Spec

(* check_linear_definition makes the alias of a let linear whenever its    *)
(* definition reads a linear binder: inlining the definition consumes no   *)
(* linear binder more often than check_let_finish counts.                  *)
THEOREM AliasesInline == Spec => AliasInlines
<1>1. ASSUME State, Aliased, [Next]_vars, Closes, Inner.role = "alias", Inner.mode # Zero,
             NEW d \in Next2.runs, NEW b \in Top.runs, NEW i \in 1 .. Inner.lower,
             locals[i].quantity = One
      PROVE  Mul(b.count[Size - 1], d.count[i - 1]) <= Mul(Inner.mode, d.count[i - 1])
  <2>1. Size > 0 /\ TopTerm /\ CloseOk(Top.use)
    BY <1>1, ClosesAccepted
  <2>2. CloseAlias
    BY <1>1, ClosesBy DEF CloseLambda, CloseArm, Closing
  <2>3. Closing("alias", Inner.mode) /\ Len(stack) > 1 /\ Next2.kind = "term"
    BY <2>2 DEF CloseAlias
  <2>4. /\ Inner.lower = Size - 1
        /\ Inner.quantity # One => ~Used(i - 1, Next2.use)
    BY <1>1, <2>3, AliasScope
  <2>5. Sound(Top) /\ Sound(Next2)
    BY <1>1, <2>3, TopGood, StateFacts DEF State, Good
  <2>6. Size \in 1 .. Depth /\ Inner.mode \in Quantities /\ Size - 1 \in Level /\ i - 1 \in Level
    <3>1. Size \in 1 .. Len(locals) /\ locals \in Seq(Local) /\ Size \in 0 .. Depth
      BY <1>1, <2>1, StateFacts DEF State, Scopes, Size
    <3>2. Inner \in Local
      BY <3>1 DEF Inner
    <3> QED
      BY <1>1, <2>4, <3>1, <3>2, DepthAssumption DEF Local, Level
  <2> DEFINE y == d.count[i - 1] x == b.count[Size - 1]
  <2>7. x \in Quantities /\ y \in Quantities
    BY <2>5, <2>6, Parts
  <2>8. CASE Inner.quantity = One
    <3>1. AtMostOnce(Size - 1, Top.use)
      <4>1. Size \in Inner.lower + 1 .. Size
        BY <2>4, <2>6
      <4> QED
        BY <1>1, <2>1, <2>8, <4>1 DEF CloseOk, BinderOk, Inner
    <3>2. Get(Size - 1, Top.use) = Top.use.paths[Size - 1]
      BY <2>5 DEF Sound, Enclosed, Get
    <3>3. x <= Top.use.paths[Size - 1].hi /\ Top.use.paths[Size - 1].hi \in Quantities
      BY <2>5, <2>6, Parts
    <3>4. x # Many
      BY <2>7, <3>1, <3>2, <3>3 DEF AtMostOnce, Quantities, Zero, One, Many
    <3> HIDE DEF x, y
    <3> QED
      BY <1>1, <2>6, <2>7, <3>4 DEF Mul, Quantities, Zero, One, Many, x, y
  <2>9. CASE Inner.quantity # One
    <3>1. Next2.use.reads[i - 1].hi = Zero
      BY <2>4, <2>9 DEF Used
    <3>2. y <= Next2.use.reads[i - 1].hi
      BY <2>5, <2>6, Parts
    <3>3. y = Zero
      BY <2>7, <3>1, <3>2 DEF Quantities, Zero, One, Many
    <3> QED
      BY <3>3 DEF Mul, Zero
  <2> QED
    BY <2>8, <2>9
<1>2. ASSUME State, Aliased, [Next]_vars
      PROVE  [Closes /\ Inner.role = "alias" /\ Inner.mode # Zero =>
                \A d \in Next2.runs, b \in Top.runs, i \in 1 .. Inner.lower :
                  locals[i].quantity = One =>
                    Mul(b.count[Size - 1], d.count[i - 1])
                      <= Mul(Inner.mode, d.count[i - 1])]_vars
  BY <1>1, <1>2
<1> QED
  BY <1>2, AliasedInvariance, PTL DEF Spec, AliasInlines
=============================================================================

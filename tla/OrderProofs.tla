---------------------------- MODULE OrderProofs ----------------------------
(***************************************************************************)
(* Proofs about Order and OrderTerms: whatever the members are, the walk's *)
(* statuses are right about the binders they stand for, so every recorded  *)
(* call passes a proper part of the caller's argument, under a chain that  *)
(* is not empty; a certificate is about every occurrence that the bodies   *)
(* hold; and it is for the first position that fits, if one does.          *)
(***************************************************************************)
EXTENDS OrderTerms, WellFoundedInduction, TLAPS

Steps == [scrut : Nat, ctor : BOOLEAN]
JobSet == [st : Seq(Status), den : Seq(Denotations), chain : Seq(Steps), term : Trees]
CallSet == [callee : Nat, chain : Seq(Steps), den : Denotations]

GoodJobs(pos) == {j \in JobSet : JobStatusRight(pos, j) /\ JobRemembers(j)}
GoodCalls(pos) == {c \in CallSet : CallDescends(pos, c) /\ c.chain # << >>}

(***************************************************************************)
(* The inductive invariant: every job, waiting or being visited, is good   *)
(* for the position tried, and so is every call recorded.                  *)
(***************************************************************************)
IInv ==
  /\ members \in [Group -> Bodies]
  /\ k \in Nat /\ at \in Nat /\ (phase = "certify" => k = 0)
  /\ jobs \in Seq(GoodJobs(k))
  /\ calls \in Seq(GoodCalls(k))
  /\ rows \in Seq(Seq(GoodCalls(k)))

-----------------------------------------------------------------------------
(***************************************************************************)
(* Jobs.                                                                   *)
(***************************************************************************)

\* What a term of each form holds.
LEMMA TreeForms ==
  ASSUME NEW t \in Trees
  PROVE  /\ t.tag = "var" => t.var \in Nat
         /\ t.tag = "global" => t.name \in Nat
         /\ t.tag = "node" => t.parts \in Seq(Scopes)
         /\ t.tag = "let" => t.type \in Trees /\ t.value \in Trees /\ t.body \in Trees
         /\ t.tag = "elim" => /\ t.scrut \in Trees /\ t.parts \in Seq(Scopes)
                             /\ t.motives \in Seq(Scopes) /\ t.branches \in Seq(Arms)
         /\ t.tag = "spine" => /\ t.head \in Trees /\ t.args \in Seq(Trees)
                              /\ t.parts \in Seq(Scopes)
BY TreesAssumption DEF Atoms, Spines, Elims, Lets, Nodes

LEMMA CopiesType ==
  ASSUME NEW S, NEW x \in S, NEW n \in Nat
  PROVE  /\ Copies(x, n) \in Seq(S) /\ Len(Copies(x, n)) = n
         /\ \A i \in 1 .. n : Copies(x, n)[i] = x
BY DEF Copies

LEMMA ConcatType ==
  ASSUME NEW S, NEW a \in Seq(S), NEW b \in Seq(S)
  PROVE  /\ a \o b \in Seq(S) /\ Len(a \o b) = Len(a) + Len(b)
         /\ \A i \in 1 .. Len(a) : (a \o b)[i] = a[i]
         /\ \A i \in 1 .. Len(b) : (a \o b)[Len(a) + i] = b[i]
OBVIOUS

\* The denotation of an index, and of a part of it, is a denotation.
LEMMA DenType ==
  ASSUME NEW j \in JobSet, NEW ix \in Nat
  PROVE  Den(j, ix) \in Denotations
<1>1. j.den \in Seq(Denotations)
  BY DEF JobSet
<1>2. CASE ix < Len(j.den)
  <2>1. Len(j.den) - ix \in 1 .. Len(j.den)
    BY <1>1, <1>2
  <2> QED BY <1>1, <1>2, <2>1 DEF Den
<1>3. CASE ~(ix < Len(j.den))
  BY <1>3 DEF Den, Unknown, Denotations
<1> QED BY <1>2, <1>3

LEMMA PartType ==
  ASSUME NEW d \in Denotations
  PROVE  Part(d) \in Denotations
BY DEF Part, Denotations, Unknown

\* Another term, or another chain that is not empty, leaves a job good.
LEMMA VisitGood ==
  ASSUME NEW pos \in Nat, NEW j \in GoodJobs(pos), NEW t \in Trees
  PROVE  Visit(j, t) \in GoodJobs(pos)
<1>1. /\ Visit(j, t) \in JobSet
      /\ Visit(j, t).st = j.st /\ Visit(j, t).den = j.den /\ Visit(j, t).chain = j.chain
  BY DEF Visit, GoodJobs, JobSet
<1> QED BY <1>1 DEF GoodJobs, JobStatusRight, JobRemembers, StatusAt, Den

LEMMA ChainGood ==
  ASSUME NEW pos \in Nat, NEW j \in GoodJobs(pos), NEW c \in Seq(Steps), c = j.chain \/ c # << >>
  PROVE  [j EXCEPT !.chain = c] \in GoodJobs(pos)
<1> DEFINE n == [j EXCEPT !.chain = c]
<1>1. n \in JobSet /\ n.st = j.st /\ n.den = j.den /\ n.chain = c
  BY DEF GoodJobs, JobSet
<1> QED BY <1>1 DEF GoodJobs, JobStatusRight, JobRemembers, StatusAt, Den

\* New binders of status s for d shift the others: a status and a denotation
\* are found at the same index.
LEMMA UnderGood ==
  ASSUME NEW pos \in Nat, NEW j \in GoodJobs(pos), NEW s \in Status, NEW d \in Denotations,
         NEW n \in Nat, NEW t \in Trees,
         IndexRight(pos, s, d), s = "smaller" => j.chain # << >>
  PROVE  Under(j, s, d, n, t) \in GoodJobs(pos)
<1> DEFINE u == Under(j, s, d, n, t)
<1>1. /\ j \in JobSet /\ JobStatusRight(pos, j) /\ JobRemembers(j)
      /\ j.st \in Seq(Status) /\ j.den \in Seq(Denotations) /\ j.chain \in Seq(Steps)
      /\ Len(j.st) = Len(j.den) /\ Len(j.st) \in Nat
  BY DEF GoodJobs, JobSet, JobStatusRight
<1>2. /\ Copies(s, n) \in Seq(Status) /\ Len(Copies(s, n)) = n
      /\ \A i \in 1 .. n : Copies(s, n)[i] = s
      /\ Copies(d, n) \in Seq(Denotations) /\ Len(Copies(d, n)) = n
      /\ \A i \in 1 .. n : Copies(d, n)[i] = d
  BY CopiesType
<1>3. u.st = Copies(s, n) \o j.st /\ u.den = j.den \o Copies(d, n)
      /\ u.chain = j.chain /\ u.term = t
  BY DEF Under
<1> DEFINE L == Len(j.st)
<1>4. /\ u.st \in Seq(Status) /\ u.den \in Seq(Denotations)
      /\ Len(u.st) = n + L /\ Len(u.den) = n + L /\ L \in Nat
      /\ \A i \in 1 .. n : u.st[i] = s /\ u.den[L + i] = d
      /\ \A i \in 1 .. L : u.st[n + i] = j.st[i] /\ u.den[i] = j.den[i]
  <2> DEFINE a == Copies(s, n)
             b == Copies(d, n)
  <2>1. /\ a \o j.st \in Seq(Status) /\ Len(a \o j.st) = Len(a) + L
        /\ \A i \in 1 .. Len(a) : (a \o j.st)[i] = a[i]
        /\ \A i \in 1 .. L : (a \o j.st)[Len(a) + i] = j.st[i]
    <3>1. a \in Seq(Status) /\ j.st \in Seq(Status)
      BY <1>1, <1>2
    <3> HIDE DEF a
    <3> QED BY <3>1, ConcatType
  <2>2. /\ j.den \o b \in Seq(Denotations) /\ Len(j.den \o b) = Len(j.den) + Len(b)
        /\ \A i \in 1 .. Len(j.den) : (j.den \o b)[i] = j.den[i]
        /\ \A i \in 1 .. Len(b) : (j.den \o b)[Len(j.den) + i] = b[i]
    <3>1. b \in Seq(Denotations) /\ j.den \in Seq(Denotations)
      BY <1>1, <1>2
    <3> HIDE DEF b
    <3> QED BY <3>1, ConcatType
  <2>3. /\ Len(a) = n /\ Len(b) = n /\ u.st = a \o j.st /\ u.den = j.den \o b /\ Len(j.den) = L
        /\ \A i \in 1 .. n : a[i] = s /\ b[i] = d
    BY <1>1, <1>2, <1>3
  <2> HIDE DEF a, b, u
  <2>4. u.st \in Seq(Status) /\ u.den \in Seq(Denotations) /\ L \in Nat
    BY <1>1, <2>1, <2>2, <2>3
  <2> HIDE DEF L
  <2>5. Len(u.st) = n + L /\ Len(u.den) = n + L
    BY <2>1, <2>2, <2>3, <2>4
  <2>6. ASSUME NEW i \in 1 .. n
        PROVE  u.st[i] = s /\ u.den[L + i] = d
    BY <2>1, <2>2, <2>3, <2>6
  <2>7. ASSUME NEW i \in 1 .. L
        PROVE  u.st[n + i] = j.st[i] /\ u.den[i] = j.den[i]
    BY <2>1, <2>2, <2>3, <2>7
  <2> QED BY <2>4, <2>5, <2>6, <2>7
<1>5. u \in JobSet
  BY <1>1, <1>3, <1>4 DEF Under, JobSet
<1> HIDE DEF u
<1>6. ASSUME NEW ix \in 0 .. Len(u.st) - 1
      PROVE  IndexRight(pos, StatusAt(u, ix), Den(u, ix))
  <2>1. StatusAt(u, ix) = u.st[ix + 1] /\ Den(u, ix) = u.den[n + L - ix]
    BY <1>4, <1>1 DEF StatusAt, Den
  <2>2. CASE ix < n
    <3>1. ix + 1 \in 1 .. n /\ n - ix \in 1 .. n /\ n + L - ix = L + (n - ix)
      BY <1>1, <2>2
    <3>2. StatusAt(u, ix) = s /\ Den(u, ix) = d
      BY <1>4, <2>1, <3>1
    <3> QED BY <3>2
  <2>3. CASE ~(ix < n)
    <3> DEFINE old == ix - n
    <3>1. /\ old \in 0 .. L - 1 /\ old + 1 \in 1 .. L /\ L - old \in 1 .. L
          /\ ix + 1 = n + (old + 1) /\ n + L - ix = L - old
      BY <1>1, <1>4, <2>3
    <3> HIDE DEF old
    <3>2. StatusAt(u, ix) = j.st[old + 1] /\ Den(u, ix) = j.den[L - old]
      BY <1>4, <2>1, <3>1
    <3>4. StatusAt(j, old) = j.st[old + 1] /\ Den(j, old) = j.den[L - old]
      BY <1>1, <3>1 DEF StatusAt, Den
    <3>5. IndexRight(pos, StatusAt(j, old), Den(j, old))
      BY <1>1, <3>1 DEF JobStatusRight
    <3> QED BY <3>2, <3>4, <3>5
  <2> QED BY <2>2, <2>3
<1>7. JobStatusRight(pos, u)
  BY <1>4, <1>6 DEF JobStatusRight
<1>8. ASSUME NEW i \in DOMAIN u.st, u.st[i] = "smaller"
      PROVE  u.chain # << >>
  <2>1. i \in 1 .. n + L
    BY <1>4
  <2>2. CASE i <= n
    <3>1. i \in 1 .. n
      BY <2>1, <2>2
    <3>2. u.st[i] = s
      BY <1>4, <3>1
    <3> QED BY <1>3, <1>8, <3>2
  <2>3. CASE ~(i <= n)
    <3>1. i - n \in 1 .. L /\ i = n + (i - n)
      BY <1>4, <2>1, <2>3
    <3> DEFINE old == i - n
    <3> HIDE DEF old
    <3>2. old \in 1 .. L /\ i = n + old
      BY <3>1 DEF old
    <3>3. u.st[n + old] = j.st[old]
      BY <1>4, <3>2
    <3>4. j.st[old] = "smaller"
      BY <1>8, <3>2, <3>3
    <3>5. DOMAIN j.st = 1 .. L
      BY <1>1
    <3> QED BY <1>1, <1>3, <3>2, <3>4, <3>5 DEF JobRemembers
  <2> QED BY <2>2, <2>3
<1>9. JobRemembers(u)
  BY <1>8 DEF JobRemembers
<1> QED BY <1>5, <1>7, <1>9 DEF GoodJobs, u

-----------------------------------------------------------------------------
(***************************************************************************)
(* The jobs a term leads to.                                               *)
(***************************************************************************)
LEMMA VisitsGood ==
  ASSUME NEW pos \in Nat, NEW j \in GoodJobs(pos), NEW ts \in Seq(Trees)
  PROVE  Visits(j, ts) \in Seq(GoodJobs(pos))
<1>1. \A i \in 1 .. Len(ts) : Visit(j, ts[i]) \in GoodJobs(pos)
  BY VisitGood
<1> QED BY <1>1 DEF Visits

LEMMA PartsGood ==
  ASSUME NEW pos \in Nat, NEW j \in GoodJobs(pos), NEW ps \in Seq(Scopes)
  PROVE  Parts(j, ps) \in Seq(GoodJobs(pos))
<1>1. Unknown \in Denotations /\ "other" \in Status /\ IndexRight(pos, "other", Unknown)
  BY DEF Unknown, Denotations, Status, IndexRight
<1>2. ASSUME NEW i \in 1 .. Len(ps)
      PROVE  Under(j, "other", Unknown, ps[i].binders, ps[i].term) \in GoodJobs(pos)
  <2>1. ps[i] \in Scopes
    OBVIOUS
  <2>2. ps[i].binders \in Nat /\ ps[i].term \in Trees
    BY <2>1 DEF Scopes
  <2> QED BY <1>1, <2>2, UnderGood
<1> QED BY <1>2 DEF Parts

LEMMA LetBodyGood ==
  ASSUME NEW pos \in Nat, NEW j \in GoodJobs(pos), NEW t \in Trees, t.tag = "let"
  PROVE  LetBody(j, t) \in GoodJobs(pos)
<1>1. t.body \in Trees /\ t.value \in Trees /\ (t.value.tag = "var" => t.value.var \in Nat)
  BY TreeForms
<1> DEFINE d == IF t.value.tag = "var" THEN Den(j, t.value.var) ELSE Unknown
<1>2. d \in Denotations
  <2>1. Unknown \in Denotations
    BY DEF Unknown, Denotations
  <2>2. j \in JobSet
    BY DEF GoodJobs
  <2> QED BY <1>1, <2>1, <2>2, DenType
<1>3. "other" \in Status /\ IndexRight(pos, "other", d)
  BY DEF Status, IndexRight
<1> HIDE DEF d
<1>4. Under(j, "other", d, 1, t.body) \in GoodJobs(pos)
  BY <1>1, <1>2, <1>3, UnderGood
<1> QED BY <1>4 DEF LetBody, d

\* A special index stands for the principal argument or for a part of it.
LEMMA SpecialDen ==
  ASSUME NEW pos \in Nat, NEW j \in GoodJobs(pos), NEW ix \in Nat
  PROVE  /\ Special(j, ix) => Den(j, ix).root = pos /\ Den(j, ix) # Unknown
         /\ StatusAt(j, ix) = "smaller" => /\ Den(j, ix).root = pos /\ Den(j, ix).below > 0
                                         /\ j.chain # << >>
<1>1. j \in JobSet /\ j.st \in Seq(Status) /\ JobStatusRight(pos, j) /\ JobRemembers(j)
  BY DEF GoodJobs, JobSet
<1>2. CASE ix < Len(j.st)
  <2>1. ix \in 0 .. Len(j.st) - 1
    BY <1>1, <1>2
  <2>2. IndexRight(pos, StatusAt(j, ix), Den(j, ix))
    BY <1>1, <2>1 DEF JobStatusRight
  <2>3. Formal(pos).root = pos /\ Unknown.root = -1 /\ pos # -1
    BY DEF Formal, Unknown
  <2>4. StatusAt(j, ix) = j.st[ix + 1] /\ ix + 1 \in DOMAIN j.st
    BY <1>1, <1>2, <2>1 DEF StatusAt
  <2> QED BY <1>1, <2>2, <2>3, <2>4 DEF IndexRight, Special, JobRemembers
<1>3. CASE ~(ix < Len(j.st))
  BY <1>3 DEF StatusAt, Special
<1> QED BY <1>2, <1>3

LEMMA BranchGood ==
  ASSUME NEW pos \in Nat, NEW j \in GoodJobs(pos), NEW e \in Trees, e.tag = "elim", NEW b \in Arms
  PROVE  Branch(j, e, b) \in GoodJobs(pos)
<1>1. /\ e.scrut \in Trees /\ (e.scrut.tag = "var" => e.scrut.var \in Nat)
      /\ b.binders \in Nat /\ b.term \in Trees /\ b.ctor \in BOOLEAN
      /\ j \in JobSet /\ j.chain \in Seq(Steps)
  BY TreeForms DEF Arms, GoodJobs, JobSet
<1> DEFINE c == ChainAt(j, e, b)
           s == BranchStatus(j, e)
           d == BranchDen(j, e)
           n == [j EXCEPT !.chain = c]
<1>2. c \in Seq(Steps) /\ (c = j.chain \/ c # << >>) /\ (OfSpecial(j, e) => c # << >>)
  <2>1. CASE OfSpecial(j, e)
    <3>1. [scrut |-> e.scrut.var, ctor |-> b.ctor] \in Steps
      BY <1>1, <2>1 DEF OfSpecial, Scrut, Steps
    <3>2. c = <<[scrut |-> e.scrut.var, ctor |-> b.ctor]>> \o j.chain
      BY <2>1 DEF ChainAt, Scrut
    <3> HIDE DEF c
    <3>3. c \in Seq(Steps) /\ Len(c) = 1 + Len(j.chain) /\ Len(j.chain) \in Nat
      BY <1>1, <3>1, <3>2
    <3> QED BY <3>3
  <2>2. CASE ~OfSpecial(j, e)
    BY <1>1, <2>2 DEF ChainAt
  <2> QED BY <2>1, <2>2
<1>3. n \in GoodJobs(pos) /\ n.chain = c
  <2>1. n.chain = c
    BY <1>1 DEF JobSet
  <2> HIDE DEF c
  <2> QED BY <1>2, <2>1, ChainGood
<1>4. d \in Denotations
  <2>1. Unknown \in Denotations
    BY DEF Unknown, Denotations
  <2>2. CASE e.scrut.tag = "var"
    <3>1. Den(j, e.scrut.var) \in Denotations
      BY <1>1, <2>2, DenType
    <3> QED BY <2>2, <3>1, PartType DEF BranchDen, Scrut
  <2>3. CASE e.scrut.tag # "var"
    BY <2>1, <2>3 DEF BranchDen, Scrut
  <2> QED BY <2>2, <2>3
<1>5. s \in Status /\ IndexRight(pos, s, d) /\ (s = "smaller" => OfSpecial(j, e))
  <2>1. CASE OfSpecial(j, e)
    <3>1. e.scrut.tag = "var" /\ e.scrut.var \in Nat /\ Special(j, e.scrut.var)
      BY <1>1, <2>1 DEF OfSpecial, Scrut
    <3>2. Den(j, e.scrut.var).root = pos /\ Den(j, e.scrut.var) # Unknown
          /\ Den(j, e.scrut.var) \in Denotations
      BY <1>1, <3>1, SpecialDen, DenType
    <3>3. d.root = pos /\ d.below > 0
      BY <3>1, <3>2 DEF BranchDen, Scrut, Part, Denotations
    <3> QED BY <2>1, <3>3 DEF BranchStatus, Status, IndexRight
  <2>2. CASE ~OfSpecial(j, e)
    BY <2>2 DEF BranchStatus, Status, IndexRight
  <2> QED BY <2>1, <2>2
<1> HIDE DEF c, s, d, n
<1>6. Under(n, s, d, b.binders, b.term) \in GoodJobs(pos)
  BY <1>1, <1>2, <1>3, <1>4, <1>5, UnderGood
<1> QED BY <1>6 DEF Branch, c, s, d, n

LEMMA BranchesGood ==
  ASSUME NEW pos \in Nat, NEW j \in GoodJobs(pos), NEW e \in Trees, e.tag = "elim"
  PROVE  Branches(j, e) \in Seq(GoodJobs(pos))
<1>1. e.branches \in Seq(Arms)
  BY TreeForms
<1>2. \A i \in 1 .. Len(e.branches) : Branch(j, e, e.branches[i]) \in GoodJobs(pos)
  BY <1>1, BranchGood
<1> QED BY <1>1, <1>2 DEF Branches

\* The walk of a member starts with its formals, the principal one at the
\* index formals - 1 - pos.
LEMMA FirstGood ==
  ASSUME NEW pos \in Nat, members \in [Group -> Bodies], NEW m \in Group
  PROVE  First(m, pos) \in GoodJobs(pos)
<1> DEFINE n == members[m].formals
           j == First(m, pos)
<1>1. n \in Nat /\ members[m].body \in Trees
  BY BodiesAssumption
<1>2. /\ j.st = Seed(n, pos) /\ j.den = [i \in 1 .. n |-> Formal(i - 1)]
      /\ j.chain = << >> /\ j.term = members[m].body
      /\ j = [st |-> j.st, den |-> j.den, chain |-> j.chain, term |-> j.term]
  BY DEF First
<1> HIDE DEF n, j
<1>3. /\ j.st \in Seq(Status) /\ Len(j.st) = n
      /\ \A i \in 1 .. n : j.st[i] = IF i - 1 = n - 1 - pos THEN "principal" ELSE "other"
  <2>1. /\ j.st = [i \in 1 .. n |-> IF i - 1 = n - 1 - pos THEN "principal" ELSE "other"]
        /\ n \in Nat
    BY <1>1, <1>2 DEF Seed, n
  <2>2. \A i \in 1 .. n : (IF i - 1 = n - 1 - pos THEN "principal" ELSE "other") \in Status
    BY DEF Status
  <2> QED BY <2>1, <2>2
<1>4. \A i \in 1 .. n : Formal(i - 1) \in Denotations
  BY <1>1 DEF Formal, Denotations
<1>5. j.den \in Seq(Denotations) /\ Len(j.den) = n /\ \A i \in 1 .. n : j.den[i] = Formal(i - 1)
  BY <1>1, <1>2, <1>4
<1>6. j \in JobSet
  <2>1. j.chain \in Seq(Steps)
    BY <1>2
  <2> QED BY <1>1, <1>2, <1>3, <1>5, <2>1 DEF JobSet, n
<1>7. ASSUME NEW ix \in 0 .. Len(j.st) - 1
      PROVE  IndexRight(pos, StatusAt(j, ix), Den(j, ix))
  <2>1. ix \in 0 .. n - 1 /\ ix + 1 \in 1 .. n /\ n - ix \in 1 .. n
    BY <1>1, <1>3
  <2>2. StatusAt(j, ix) = j.st[ix + 1] /\ Den(j, ix) = Formal(n - ix - 1)
    BY <1>1, <1>3, <1>5, <2>1 DEF StatusAt, Den
  <2>3. j.st[ix + 1] = IF ix = n - 1 - pos THEN "principal" ELSE "other"
    BY <1>1, <1>3, <2>1
  <2>4. CASE ix = n - 1 - pos
    <3>1. n - ix - 1 = pos
      BY <1>1, <2>4
    <3> QED BY <2>2, <2>3, <2>4, <3>1 DEF IndexRight
  <2>5. CASE ix # n - 1 - pos
    BY <2>2, <2>3, <2>5 DEF IndexRight
  <2> QED BY <2>4, <2>5
<1>8. JobStatusRight(pos, j)
  BY <1>3, <1>5, <1>7 DEF JobStatusRight
<1>9. JobRemembers(j)
  BY <1>1, <1>3 DEF JobRemembers
<1> QED BY <1>6, <1>8, <1>9 DEF GoodJobs, j
-----------------------------------------------------------------------------
(***************************************************************************)
(* The invariant.                                                          *)
(***************************************************************************)
LEMMA InitIInv == Init => IInv
<1> SUFFICES ASSUME Init PROVE IInv
  OBVIOUS
<1>1. k = 0 /\ at = 0 /\ jobs = << >> /\ calls = << >> /\ rows = << >>
  BY DEF Init
<1> QED BY <1>1 DEF Init, IInv

\* What IInv says of the job being visited.
LEMMA JobFacts ==
  ASSUME IInv, Walking
  PROVE  /\ Job \in GoodJobs(k) /\ Term \in Trees
         /\ Tail(jobs) \in Seq(GoodJobs(k))
<1>1. jobs \in Seq(GoodJobs(k)) /\ jobs # << >>
  BY DEF IInv, Walking
<1>2. Head(jobs) \in GoodJobs(k) /\ Tail(jobs) \in Seq(GoodJobs(k))
  BY <1>1
<1> QED BY <1>2 DEF Job, Term, GoodJobs, JobSet

LEMMA ExpandIInv ==
  ASSUME IInv, Walking, NEW new \in Seq(GoodJobs(k)), Expand(new)
  PROVE  IInv'
<1>1. Tail(jobs) \in Seq(GoodJobs(k))
  BY JobFacts
<1>2. new \o Tail(jobs) \in Seq(GoodJobs(k))
  BY <1>1
<1> QED BY <1>2 DEF Expand, IInv

\* A call that is guarded descends, under a chain that is not empty.
LEMMA GuardedCall ==
  ASSUME IInv, Walking, Term.tag = "spine", Term.head.tag = "global", Guarded(Job, Term.args)
  PROVE  [callee |-> Term.head.name, chain |-> Job.chain,
          den |-> Den(Job, Term.args[k + 1].var)] \in GoodCalls(k)
<1>1. Job \in GoodJobs(k) /\ Term \in Trees /\ k \in Nat
  BY JobFacts DEF IInv
<1>2. Term.head \in Trees /\ Term.args \in Seq(Trees)
  BY <1>1, TreeForms
<1>3. Term.head.name \in Nat
  BY <1>2, TreeForms
<1> DEFINE a == Term.args[k + 1]
<1>4. a \in Trees /\ a.tag = "var" /\ StatusAt(Job, a.var) = "smaller"
  BY <1>1, <1>2 DEF Guarded
<1>5. a.var \in Nat
  BY <1>4, TreeForms
<1> HIDE DEF a
<1>6. /\ Den(Job, a.var).root = k /\ Den(Job, a.var).below > 0 /\ Job.chain # << >>
      /\ Den(Job, a.var) \in Denotations /\ Job.chain \in Seq(Steps)
  BY <1>1, <1>4, <1>5, SpecialDen, DenType DEF GoodJobs, JobSet
<1> QED BY <1>3, <1>6 DEF GoodCalls, CallSet, CallDescends, a

LEMMA NextIInv == IInv /\ [Next]_vars => IInv'
<1> SUFFICES ASSUME IInv, [Next]_vars PROVE IInv'
  OBVIOUS
<1> USE DEF IInv
<1>0. k \in Nat /\ members \in [Group -> Bodies] /\ 1 \in Group
  BY SizeAssumption DEF Group
<1>1. CASE Certify
  <2>1. members' = members /\ k' = k /\ k = 0 /\ phase' # "certify"
    BY <1>1 DEF Certify
  <2>2. CASE /\ phase' = "walk"
             /\ at' = 1 /\ jobs' = <<First(1, 0)>> /\ calls' = << >> /\ rows' = << >>
    <3>1. First(1, 0) \in GoodJobs(k')
      BY <1>0, <2>1, <2>2, FirstGood
    <3> QED BY <2>1, <2>2, <3>1
  <2>3. CASE UNCHANGED <<at, jobs, calls, rows>>
    BY <2>1, <2>3
  <2> QED BY <1>1, <2>2, <2>3 DEF Certify
<1>2. CASE Exhaust
  BY <1>2 DEF Exhaust
<1>3. CASE Simple
  <2>1. << >> \in Seq(GoodJobs(k))
    OBVIOUS
  <2> QED BY <1>3, <2>1, ExpandIInv DEF Simple
<1>4. CASE Name
  <2>1. << >> \in Seq(GoodJobs(k))
    OBVIOUS
  <2>2. CASE GiveUp
    BY <2>2 DEF GiveUp
  <2> QED BY <1>4, <2>1, <2>2, ExpandIInv DEF Name
<1>5. CASE Node
  <2>1. Parts(Job, Term.parts) \in Seq(GoodJobs(k))
    BY <1>0, <1>5, JobFacts, TreeForms, PartsGood DEF Node
  <2> QED BY <1>5, <2>1, ExpandIInv DEF Node
<1>6. CASE Let
  <2>1. Job \in GoodJobs(k) /\ Term \in Trees /\ Term.type \in Trees /\ Term.value \in Trees
        /\ Term.tag = "let"
    BY <1>6, JobFacts, TreeForms DEF Let
  <2>2. Visit(Job, Term.type) \in GoodJobs(k) /\ Visit(Job, Term.value) \in GoodJobs(k)
    BY <1>0, <2>1, VisitGood
  <2>3. LetBody(Job, Term) \in GoodJobs(k)
    BY <1>0, <2>1, LetBodyGood
  <2>4. <<Visit(Job, Term.type), Visit(Job, Term.value), LetBody(Job, Term)>> \in Seq(GoodJobs(k))
    BY <2>2, <2>3
  <2> QED BY <1>6, <2>4, ExpandIInv DEF Let
<1>7. CASE Elim
  <2>1. /\ Job \in GoodJobs(k) /\ Term \in Trees /\ Term.tag = "elim" /\ Term.scrut \in Trees
        /\ Term.parts \in Seq(Scopes) /\ Term.motives \in Seq(Scopes)
    BY <1>7, JobFacts, TreeForms DEF Elim
  <2>2. Visit(Job, Term.scrut) \in GoodJobs(k)
    BY <1>0, <2>1, VisitGood
  <2>3. Parts(Job, Term.parts) \in Seq(GoodJobs(k)) /\ Parts(Job, Term.motives) \in Seq(GoodJobs(k))
    BY <1>0, <2>1, PartsGood
  <2>4. Branches(Job, Term) \in Seq(GoodJobs(k))
    BY <1>0, <2>1, BranchesGood
  <2>5. <<Visit(Job, Term.scrut)>> \o Parts(Job, Term.parts) \o Parts(Job, Term.motives)
          \o Branches(Job, Term) \in Seq(GoodJobs(k))
    BY <2>2, <2>3, <2>4
  <2> QED BY <1>7, <2>5, ExpandIInv DEF Elim
<1>8. CASE Spine
  <2> DEFINE rest == Parts(Job, Term.parts) \o Visits(Job, Term.args)
  <2>1. /\ Job \in GoodJobs(k) /\ Term \in Trees /\ Term.tag = "spine" /\ Term.head \in Trees
        /\ Term.parts \in Seq(Scopes) /\ Term.args \in Seq(Trees)
        /\ Tail(jobs) \in Seq(GoodJobs(k))
    BY <1>8, JobFacts, TreeForms DEF Spine
  <2>2. rest \in Seq(GoodJobs(k))
    <3>1. Parts(Job, Term.parts) \in Seq(GoodJobs(k))
      BY <1>0, <2>1, PartsGood
    <3>2. Visits(Job, Term.args) \in Seq(GoodJobs(k))
      BY <1>0, <2>1, VisitsGood
    <3> QED BY <3>1, <3>2
  <2> HIDE DEF rest
  <2>3. CASE Expand(<<Visit(Job, Term.head)>> \o rest)
    <3>1. Visit(Job, Term.head) \in GoodJobs(k)
      BY <1>0, <2>1, VisitGood
    <3>2. <<Visit(Job, Term.head)>> \o rest \in Seq(GoodJobs(k))
      BY <2>2, <3>1
    <3> QED BY <1>8, <2>3, <3>2, ExpandIInv DEF Spine
  <2>4. CASE Expand(rest)
    BY <1>8, <2>2, <2>4, ExpandIInv DEF Spine
  <2>5. CASE GiveUp
    BY <2>5 DEF GiveUp
  <2>6. CASE /\ Term.head.tag = "global" /\ Guarded(Job, Term.args)
             /\ calls' = Append(calls, [callee |-> Term.head.name, chain |-> Job.chain,
                                       den |-> Den(Job, Term.args[k + 1].var)])
             /\ jobs' = rest \o Tail(jobs)
             /\ UNCHANGED <<members, k, at, rows, phase>>
    <3>1. [callee |-> Term.head.name, chain |-> Job.chain,
           den |-> Den(Job, Term.args[k + 1].var)] \in GoodCalls(k)
      BY <1>8, <2>6, GuardedCall DEF Spine
    <3>2. calls' \in Seq(GoodCalls(k))
      BY <2>6, <3>1
    <3>3. jobs' \in Seq(GoodJobs(k))
      BY <2>1, <2>2, <2>6
    <3> QED BY <2>6, <3>2, <3>3
  <2> QED BY <1>8, <2>3, <2>4, <2>5, <2>6 DEF Spine, rest
<1>9. CASE NextMember
  <2>1. members' = members /\ k' = k /\ rows' = Append(rows, calls) /\ calls' = << >>
        /\ phase' # "certify"
    BY <1>9 DEF NextMember
  <2>2. rows' \in Seq(Seq(GoodCalls(k))) /\ calls' \in Seq(GoodCalls(k))
    BY <2>1
  <2>3. CASE at + 1 \in Group /\ at' = at + 1 /\ jobs' = <<First(at + 1, k)>>
    <3>1. First(at + 1, k) \in GoodJobs(k)
      BY <1>0, <2>3, FirstGood
    <3> QED BY <2>1, <2>2, <2>3, <3>1
  <2>4. CASE UNCHANGED <<at, jobs>>
    BY <2>1, <2>2, <2>4
  <2> QED BY <1>9, <2>3, <2>4 DEF NextMember
<1>10. CASE Retry
  <2>0. phase' # "certify"
    BY <1>10 DEF Retry
  <2>1. CASE /\ k' = k + 1 /\ members' = members
             /\ at' = 1 /\ jobs' = <<First(1, k + 1)>> /\ calls' = << >> /\ rows' = << >>
    <3>1. k + 1 \in Nat /\ First(1, k + 1) \in GoodJobs(k')
      BY <1>0, <2>1, FirstGood
    <3> QED BY <2>0, <2>1, <3>1
  <2>2. CASE UNCHANGED <<members, k, at, jobs, calls, rows>>
    BY <2>0, <2>2
  <2> QED BY <1>10, <2>1, <2>2 DEF Retry
<1>11. CASE Translate
  BY <1>11 DEF Translate
<1>12. CASE UNCHANGED vars
  BY <1>12 DEF vars
<1> QED BY <1>1, <1>2, <1>3, <1>4, <1>5, <1>6, <1>7, <1>8, <1>9, <1>10, <1>11, <1>12 DEF Next

LEMMA IInvParts == IInv => Descends /\ StatusRight /\ ChainsRemember
<1> SUFFICES ASSUME IInv PROVE Descends /\ StatusRight /\ ChainsRemember
  OBVIOUS
<1>1. \A c \in Calls : c \in GoodCalls(k)
  <2> SUFFICES ASSUME NEW c \in Calls PROVE c \in GoodCalls(k)
    OBVIOUS
  <2>1. CASE c \in {calls[i] : i \in DOMAIN calls}
    BY <2>1 DEF IInv
  <2>2. CASE \E m \in DOMAIN rows : c \in {rows[m][i] : i \in DOMAIN rows[m]}
    <3>1. PICK m \in DOMAIN rows : \E i \in DOMAIN rows[m] : c = rows[m][i]
      BY <2>2
    <3>2. rows[m] \in Seq(GoodCalls(k))
      BY DEF IInv
    <3> QED BY <3>1, <3>2
  <2> QED BY <2>1, <2>2 DEF Calls
<1>2. \A j \in DOMAIN jobs : jobs[j] \in GoodJobs(k)
  BY DEF IInv
<1> QED BY <1>1, <1>2 DEF GoodCalls, GoodJobs, Descends, StatusRight, ChainsRemember

THEOREM Invariance == Spec => []IInv
<1> QED BY InitIInv, NextIInv, PTL DEF Spec

\* Every call recorded for a group passes a proper part of the caller's
\* argument k, whatever the members and the position.
THEOREM AlwaysDescends == Spec => []Descends
<1> QED BY Invariance, IInvParts, PTL

\* Every status the walk keeps is right about what its binder stands for.
THEOREM AlwaysStatusRight == Spec => []StatusRight
<1> QED BY Invariance, IInvParts, PTL

\* Every recorded call, and every job with a smaller variable in scope, has a
\* chain: the translation never meets a call without one.
THEOREM AlwaysChainsRemember == Spec => []ChainsRemember
<1> QED BY Invariance, IInvParts, PTL

-----------------------------------------------------------------------------
(***************************************************************************)
(* The reference.  Occurrences is defined by an equation; a reading's      *)
(* occurrences, collected from all the readings that its inner readings    *)
(* lead to, solve it.                                                      *)
(***************************************************************************)
ClosedReadings(S, al) == S \subseteq Readings /\ \A s \in S : Inner(s, al) \subseteq S
Reached(s, al) ==
  {u \in Readings : \A S \in SUBSET Readings : ClosedReadings(S, al) /\ s \in S => u \in S}
Collected(al) == [s \in Readings |-> UNION {Here(u) : u \in Reached(s, al)}]

\* D holds what the binders of the inner readings stand for, when it does for
\* a reading's own.
ClosedDenotations(D) ==
  D \subseteq Denotations /\ Unknown \in D /\ \A d \in D : Part(d) \in D
ReadingsOver(D) == [term : Trees, env : Seq(D)]

LEMMA EnvAtIn ==
  ASSUME NEW D, ClosedDenotations(D), NEW env \in Seq(D), NEW ix \in Nat
  PROVE  EnvAt(env, ix) \in D
<1>1. Unknown \in D
  BY DEF ClosedDenotations
<1>2. CASE ix < Len(env)
  <2>1. Len(env) - ix \in 1 .. Len(env)
    BY <1>2
  <2>2. env[Len(env) - ix] \in D
    BY <2>1
  <2> QED BY <1>2, <2>2 DEF EnvAt
<1> QED BY <1>1, <1>2 DEF EnvAt

\* The inner readings of a reading are readings.
LEMMA InPartsIn ==
  ASSUME NEW D, NEW env \in Seq(D), NEW d \in D, NEW ps,
         ps \in Seq(Scopes) \/ ps \in Seq(Arms)
  PROVE  InParts(env, d, ps) \subseteq ReadingsOver(D)
<1> SUFFICES ASSUME NEW i \in DOMAIN ps
             PROVE  Reading(ps[i].term, env \o Copies(d, ps[i].binders)) \in ReadingsOver(D)
  BY DEF InParts
<1>1. ps[i] \in Scopes \/ ps[i] \in Arms
  OBVIOUS
<1>2. ps[i].binders \in Nat /\ ps[i].term \in Trees
  BY <1>1 DEF Scopes, Arms
<1> DEFINE n == ps[i].binders
<1>3. Copies(d, n) \in Seq(D)
  BY <1>2, CopiesType
<1> HIDE DEF n
<1>4. env \o Copies(d, n) \in Seq(D)
  BY <1>3, ConcatType
<1> QED BY <1>2, <1>4 DEF Reading, ReadingsOver, n

LEMMA InnerIn ==
  ASSUME NEW D, ClosedDenotations(D), NEW al \in BOOLEAN, NEW s \in ReadingsOver(D)
  PROVE  Inner(s, al) \subseteq ReadingsOver(D)
<1> DEFINE t == s.term
           env == s.env
<1>1. t \in Trees /\ env \in Seq(D)
  BY DEF ReadingsOver
<1>2. Unknown \in D /\ \A d \in D : Part(d) \in D
  BY DEF ClosedDenotations
<1> HIDE DEF t, env
<1>3. ASSUME NEW u \in Trees PROVE Reading(u, env) \in ReadingsOver(D)
  BY <1>1 DEF Reading, ReadingsOver
<1>4. CASE t.tag = "node"
  <2>1. t.parts \in Seq(Scopes)
    BY <1>1, <1>4, TreeForms
  <2>2. InParts(env, Unknown, t.parts) \subseteq ReadingsOver(D)
    BY <1>1, <1>2, <2>1, InPartsIn
  <2> QED BY <1>4, <2>2 DEF Inner, t, env
<1>5. CASE t.tag = "let"
  <2>1. /\ t.type \in Trees /\ t.value \in Trees /\ t.body \in Trees
        /\ (t.value.tag = "var" => t.value.var \in Nat)
    BY <1>1, <1>5, TreeForms
  <2> DEFINE d == Bound(env, t.value, al)
  <2>2. d \in D
    BY <1>1, <1>2, <2>1, EnvAtIn DEF Bound
  <2> HIDE DEF d
  <2>3. Copies(d, 1) \in Seq(D)
    BY <2>2, CopiesType
  <2>4. env \o Copies(d, 1) \in Seq(D)
    BY <1>1, <2>3, ConcatType
  <2>5. Reading(t.body, env \o Copies(d, 1)) \in ReadingsOver(D)
    BY <2>1, <2>4 DEF Reading, ReadingsOver
  <2>6. Reading(t.type, env) \in ReadingsOver(D) /\ Reading(t.value, env) \in ReadingsOver(D)
    BY <1>3, <2>1
  <2>7. Inner(s, al) = {Reading(t.type, env), Reading(t.value, env),
                        Reading(t.body, env \o Copies(d, 1))}
    BY <1>5 DEF Inner, t, env, d
  <2> QED BY <2>5, <2>6, <2>7
<1>6. CASE t.tag = "elim"
  <2>1. /\ t.scrut \in Trees /\ t.parts \in Seq(Scopes) /\ t.motives \in Seq(Scopes)
        /\ t.branches \in Seq(Arms) /\ (t.scrut.tag = "var" => t.scrut.var \in Nat)
    BY <1>1, <1>6, TreeForms
  <2>2. PartOf(env, t.scrut) \in D
    BY <1>1, <1>2, <2>1, EnvAtIn DEF PartOf
  <2>3. /\ InParts(env, Unknown, t.parts) \subseteq ReadingsOver(D)
        /\ InParts(env, Unknown, t.motives) \subseteq ReadingsOver(D)
        /\ InParts(env, PartOf(env, t.scrut), t.branches) \subseteq ReadingsOver(D)
    BY <1>1, <1>2, <2>1, <2>2, InPartsIn
  <2>4. Reading(t.scrut, env) \in ReadingsOver(D)
    BY <1>3, <2>1
  <2> QED BY <1>6, <2>3, <2>4 DEF Inner, t, env
<1>7. CASE t.tag = "spine"
  <2>1. t.head \in Trees /\ t.parts \in Seq(Scopes) /\ t.args \in Seq(Trees)
    BY <1>1, <1>7, TreeForms
  <2>2. InParts(env, Unknown, t.parts) \subseteq ReadingsOver(D)
    BY <1>1, <1>2, <2>1, InPartsIn
  <2>3. Reading(t.head, env) \in ReadingsOver(D) /\ \A i \in DOMAIN t.args : Reading(t.args[i], env) \in ReadingsOver(D)
    BY <1>3, <2>1
  <2> QED BY <1>7, <2>2, <2>3 DEF Inner, t, env
<1>8. CASE t.tag \notin {"node", "let", "elim", "spine"}
  BY <1>8 DEF Inner, t, env
<1> QED BY <1>4, <1>5, <1>6, <1>7, <1>8

LEMMA InnerType ==
  ASSUME NEW al \in BOOLEAN, NEW s \in Readings
  PROVE  Inner(s, al) \subseteq Readings
<1>1. ClosedDenotations(Denotations)
  BY DEF ClosedDenotations, Denotations, Unknown, Part
<1>2. ReadingsOver(Denotations) = Readings
  BY DEF ReadingsOver, Readings
<1> QED BY <1>1, <1>2, InnerIn

LEMMA EnvAtType ==
  ASSUME NEW env \in Seq(Denotations), NEW ix \in Nat
  PROVE  EnvAt(env, ix) \in Denotations
<1>1. ClosedDenotations(Denotations)
  BY DEF ClosedDenotations, Denotations, Unknown, Part
<1> QED BY <1>1, EnvAtIn

\* Collected solves the equation.
LEMMA CollectedSolves ==
  ASSUME NEW al \in BOOLEAN
  PROVE  Collected(al) = [s \in Readings |->
           Here(s) \cup UNION {Collected(al)[u] : u \in Inner(s, al)}]
<1> SUFFICES ASSUME NEW s \in Readings
             PROVE  UNION {Here(u) : u \in Reached(s, al)}
                      = Here(s) \cup UNION {Collected(al)[u] : u \in Inner(s, al)}
  BY DEF Collected
<1>1. Inner(s, al) \subseteq Readings
  BY InnerType
<1>2. ASSUME NEW v \in Readings PROVE v \in Reached(v, al)
  BY <1>2 DEF Reached
<1>3. ASSUME NEW v \in Inner(s, al), NEW u \in Reached(v, al) PROVE u \in Reached(s, al)
  BY <1>1, <1>3 DEF Reached, ClosedReadings
<1>4. ASSUME NEW u \in Reached(s, al), u # s
      PROVE  \E v \in Inner(s, al) : u \in Reached(v, al)
  <2> DEFINE S == {s} \cup UNION {Reached(v, al) : v \in Inner(s, al)}
  <2>1. S \subseteq Readings
    BY <1>1 DEF Reached
  <2>2. ASSUME NEW w \in S PROVE Inner(w, al) \subseteq S
    <3>1. CASE w = s
      BY <1>1, <1>2, <3>1
    <3>2. CASE w # s
      <4>1. PICK v \in Inner(s, al) : w \in Reached(v, al)
        BY <3>2
      <4>2. Inner(w, al) \subseteq Readings
        BY <2>1, <2>2, InnerType
      <4>3. Inner(w, al) \subseteq Reached(v, al)
        BY <4>1, <4>2 DEF Reached, ClosedReadings
      <4> QED BY <4>1, <4>3
    <3> QED BY <3>1, <3>2
  <2>3. ClosedReadings(S, al) /\ s \in S
    BY <2>1, <2>2 DEF ClosedReadings
  <2> HIDE DEF S
  <2>4. u \in S
    BY <1>4, <2>1, <2>3 DEF Reached
  <2> QED BY <1>4, <2>4 DEF S
<1>5. \A v \in Inner(s, al) : Collected(al)[v] = UNION {Here(u) : u \in Reached(v, al)}
  BY <1>1 DEF Collected
<1>6. ASSUME NEW o, NEW u \in Reached(s, al), o \in Here(u)
      PROVE  o \in Here(s) \cup UNION {Collected(al)[v] : v \in Inner(s, al)}
  <2>1. CASE u = s
    BY <1>6, <2>1
  <2>2. CASE u # s
    <3>1. PICK v \in Inner(s, al) : u \in Reached(v, al)
      BY <1>4, <2>2
    <3>2. o \in Collected(al)[v]
      BY <1>5, <1>6, <3>1
    <3> QED BY <3>2
  <2> QED BY <2>1, <2>2
<1>7. ASSUME NEW o \in Here(s) PROVE o \in UNION {Here(u) : u \in Reached(s, al)}
  BY <1>2, <1>7
<1>8. ASSUME NEW v \in Inner(s, al), NEW o \in Collected(al)[v]
      PROVE  o \in UNION {Here(u) : u \in Reached(s, al)}
  <2>1. PICK u \in Reached(v, al) : o \in Here(u)
    BY <1>5, <1>8
  <2> QED BY <1>3, <1>8, <2>1
<1> QED BY <1>6, <1>7, <1>8

\* So the occurrences of a reading are its own and those of its inner readings.
LEMMA OccurrencesIn ==
  ASSUME NEW al \in BOOLEAN, NEW s \in Readings
  PROVE  Occurrences(al)[s] = Here(s) \cup UNION {Occurrences(al)[u] : u \in Inner(s, al)}
<1> DEFINE Solves(f) == f = [r \in Readings |-> Here(r) \cup UNION {f[u] : u \in Inner(r, al)}]
           held == CHOOSE f : Solves(f)
<1>1. Solves(Collected(al))
  BY CollectedSolves
<1>2. Solves(held)
  <2> HIDE DEF Solves
  <2> QED BY <1>1
<1>3. held[s] = Here(s) \cup UNION {held[u] : u \in Inner(s, al)}
  <2> HIDE DEF held
  <2> QED BY <1>2
<1>4. Occurrences(al) = held
  BY DEF Occurrences
<1> HIDE DEF held
<1> QED BY <1>3, <1>4

-----------------------------------------------------------------------------
(***************************************************************************)
(* What a body mentions.  Terms are finite, so a set of terms that takes   *)
(* in each term whose subterms it has is all of them.  Hence Mentioned,    *)
(* defined over the terms alone, is what the occurrences name, whatever    *)
(* the binders stand for; and no occurrence decreases at a position that   *)
(* its member has no formal for.                                           *)
(***************************************************************************)
\* The terms in a term are terms.
LEMMA PartedType ==
  ASSUME NEW ps, ps \in Seq(Scopes) \/ ps \in Seq(Arms)
  PROVE  Parted(ps) \subseteq Trees
<1> SUFFICES ASSUME NEW i \in DOMAIN ps PROVE ps[i].term \in Trees
  BY DEF Parted
<1>1. ps[i] \in Scopes \/ ps[i] \in Arms
  OBVIOUS
<1> QED BY <1>1 DEF Scopes, Arms

LEMMA SubtermsType ==
  ASSUME NEW t \in Trees
  PROVE  Subterms(t) \subseteq Trees
<1>1. CASE t.tag = "node"
  BY <1>1, TreeForms, PartedType DEF Subterms
<1>2. CASE t.tag = "let"
  BY <1>2, TreeForms DEF Subterms
<1>3. CASE t.tag = "elim"
  <2>1. Parted(t.parts) \subseteq Trees /\ Parted(t.motives) \subseteq Trees
        /\ Parted(t.branches) \subseteq Trees /\ t.scrut \in Trees
    BY <1>3, TreeForms, PartedType
  <2> QED BY <1>3, <2>1 DEF Subterms
<1>4. CASE t.tag = "spine"
  <2>1. /\ t.head \in Trees /\ Parted(t.parts) \subseteq Trees
        /\ \A i \in DOMAIN t.args : t.args[i] \in Trees
    BY <1>4, TreeForms, PartedType
  <2> QED BY <1>4, <2>1 DEF Subterms
<1>5. CASE t.tag \notin {"node", "let", "elim", "spine"}
  BY <1>5 DEF Subterms
<1> QED BY <1>1, <1>2, <1>3, <1>4, <1>5

\* A term is in a set that holds every term whose subterms it holds: terms are
\* finite.
LEMMA TermInduction ==
  ASSUME NEW S, \A t \in Trees : Subterms(t) \subseteq S => t \in S
  PROVE  Trees \subseteq S
<1> DEFINE Missed == {t \in Trees : t \notin S}
           heights == {Height[t] : t \in Missed}
           below == {ss \in Nat \X Nat : ss[1] < ss[2]}
<1> SUFFICES ASSUME Missed # {} PROVE FALSE
  OBVIOUS
<1>1. heights \subseteq Nat /\ heights # {}
  BY HeightAssumption
<1>2. PICK h \in heights : \A i \in heights : ~(<<i, h>> \in below)
  <2>1. IsWellFoundedOn(below, Nat)
    BY NatLessThanWellFounded DEF OpToRel
  <2> HIDE DEF heights, below
  <2> QED BY <1>1, <2>1, WFMin
<1>3. PICK t \in Missed : h = Height[t]
  BY <1>2
<1>4. Subterms(t) \subseteq Trees
  BY SubtermsType
<1>5. ASSUME NEW u \in Subterms(t) PROVE u \in S
  <2>1. Height[u] < Height[t] /\ Height[u] \in Nat /\ Height[t] \in Nat
    BY <1>3, <1>4, HeightAssumption
  <2>2. <<Height[u], h>> \in below
    BY <1>3, <2>1
  <2>3. u \notin Missed
    BY <1>2, <2>2
  <2> QED BY <1>4, <2>3
<1> QED BY <1>3, <1>5

\* What a term names itself, and the terms in it that are not the name of a call.
Own(t) ==
  IF Names(t) THEN {t.name}
  ELSE IF t.tag = "spine" /\ Names(t.head) THEN {t.head.name} ELSE {}
InnerTerms(t) ==
  IF t.tag = "spine" /\ t.head.tag = "global"
  THEN Parted(t.parts) \cup {t.args[i] : i \in DOMAIN t.args}
  ELSE Subterms(t)

\* The inner readings of a term are of the terms in it.
LEMMA InnerTermsOf ==
  ASSUME NEW al \in BOOLEAN, NEW r \in Readings
  PROVE  {u.term : u \in Inner(r, al)} = InnerTerms(r.term)
<1> DEFINE t == r.term
           env == r.env
<1>1. \A u, e : Reading(u, e).term = u
  BY DEF Reading
<1>2. ASSUME NEW e, NEW d, NEW ps PROVE {u.term : u \in InParts(e, d, ps)} = Parted(ps)
  <2>1. ASSUME NEW u \in InParts(e, d, ps) PROVE u.term \in Parted(ps)
    BY <1>1 DEF InParts, Parted
  <2>2. ASSUME NEW i \in DOMAIN ps PROVE \E u \in InParts(e, d, ps) : ps[i].term = u.term
    <3> DEFINE u == Reading(ps[i].term, e \o Copies(d, ps[i].binders))
    <3>1. u \in InParts(e, d, ps) /\ u.term = ps[i].term
      BY <1>1 DEF InParts
    <3> QED BY <3>1
  <2> QED BY <2>1, <2>2 DEF Parted
<1>3. CASE t.tag = "node"
  BY <1>2, <1>3 DEF Inner, InnerTerms, Subterms
<1>4. CASE t.tag = "let"
  BY <1>1, <1>4 DEF Inner, InnerTerms, Subterms
<1>5. CASE t.tag = "elim"
  <2> DEFINE a == {Reading(t.scrut, env)}
             b == InParts(env, Unknown, t.parts)
             c == InParts(env, Unknown, t.motives)
             d == InParts(env, PartOf(env, t.scrut), t.branches)
  <2>1. Inner(r, al) = a \cup b \cup c \cup d
    BY <1>5 DEF Inner
  <2>2. {u.term : u \in a} = {t.scrut}
    BY <1>1
  <2>3. /\ {u.term : u \in b} = Parted(t.parts) /\ {u.term : u \in c} = Parted(t.motives)
        /\ {u.term : u \in d} = Parted(t.branches)
    BY <1>2
  <2>4. InnerTerms(t) = {t.scrut} \cup Parted(t.parts) \cup Parted(t.motives) \cup Parted(t.branches)
    BY <1>5 DEF InnerTerms, Subterms
  <2> HIDE DEF a, b, c, d
  <2>5. {u.term : u \in a \cup b \cup c \cup d}
          = {u.term : u \in a} \cup {u.term : u \in b} \cup {u.term : u \in c} \cup {u.term : u \in d}
    OBVIOUS
  <2> QED BY <2>1, <2>2, <2>3, <2>4, <2>5
<1>6. CASE t.tag = "spine"
  <2> DEFINE a == InParts(env, Unknown, t.parts)
             b == {Reading(t.args[i], env) : i \in DOMAIN t.args}
             c == IF t.head.tag = "global" THEN {} ELSE {Reading(t.head, env)}
  <2>1. Inner(r, al) = a \cup b \cup c
    BY <1>6 DEF Inner
  <2>2. {u.term : u \in a} = Parted(t.parts)
    BY <1>2
  <2>3. {u.term : u \in b} = {t.args[i] : i \in DOMAIN t.args}
    <3>1. \A i \in DOMAIN t.args : Reading(t.args[i], env).term = t.args[i]
      BY <1>1
    <3> QED BY <3>1
  <2>4. {u.term : u \in c} = IF t.head.tag = "global" THEN {} ELSE {t.head}
    BY <1>1
  <2>5. InnerTerms(t) = Parted(t.parts) \cup {t.args[i] : i \in DOMAIN t.args}
                        \cup IF t.head.tag = "global" THEN {} ELSE {t.head}
    BY <1>6 DEF InnerTerms, Subterms
  <2> HIDE DEF a, b, c
  <2>6. {u.term : u \in a \cup b \cup c}
          = {u.term : u \in a} \cup {u.term : u \in b} \cup {u.term : u \in c}
    OBVIOUS
  <2> QED BY <2>1, <2>2, <2>3, <2>4, <2>5, <2>6
<1>7. CASE t.tag \notin {"node", "let", "elim", "spine"}
  BY <1>7 DEF Inner, InnerTerms, Subterms
<1> QED BY <1>3, <1>4, <1>5, <1>6, <1>7

\* The members that a reading's occurrences name.
CalleesOf(r, al) == {o.callee : o \in Occurrences(al)[r]}

LEMMA CalleesIn ==
  ASSUME NEW al \in BOOLEAN, NEW r \in Readings
  PROVE  CalleesOf(r, al) = Own(r.term) \cup UNION {CalleesOf(u, al) : u \in Inner(r, al)}
<1>1. Occurrences(al)[r] = Here(r) \cup UNION {Occurrences(al)[u] : u \in Inner(r, al)}
  BY OccurrencesIn
<1>2. {o.callee : o \in Here(r)} = Own(r.term)
  <2>1. CASE Names(r.term)
    <3> DEFINE o == [callee |-> r.term.name, passed |-> << >>]
    <3>1. Here(r) = {o}
      BY <2>1 DEF Here, Names
    <3>2. o.callee = r.term.name
      OBVIOUS
    <3> HIDE DEF o
    <3> QED BY <2>1, <3>1, <3>2 DEF Own
  <2>2. CASE ~Names(r.term) /\ r.term.tag = "spine" /\ Names(r.term.head)
    <3> DEFINE o == [callee |-> r.term.head.name, passed |-> Passed(r.env, r.term.args)]
    <3>1. Here(r) = {o}
      BY <2>2 DEF Here
    <3>2. o.callee = r.term.head.name
      OBVIOUS
    <3> HIDE DEF o
    <3> QED BY <2>2, <3>1, <3>2 DEF Own
  <2>3. CASE ~Names(r.term) /\ ~(r.term.tag = "spine" /\ Names(r.term.head))
    BY <2>3 DEF Here, Own
  <2> QED BY <2>1, <2>2, <2>3
<1>3. ASSUME NEW o \in Occurrences(al)[r]
      PROVE  o.callee \in Own(r.term) \cup UNION {CalleesOf(u, al) : u \in Inner(r, al)}
  <2>1. CASE o \in Here(r)
    BY <1>2, <2>1
  <2>2. CASE o \notin Here(r)
    <3>1. PICK u \in Inner(r, al) : o \in Occurrences(al)[u]
      BY <1>1, <1>3, <2>2
    <3>2. o.callee \in CalleesOf(u, al)
      BY <3>1 DEF CalleesOf
    <3> QED BY <3>1, <3>2
  <2> QED BY <2>1, <2>2
<1>4. ASSUME NEW n \in Own(r.term) PROVE n \in CalleesOf(r, al)
  <2>1. PICK o \in Here(r) : n = o.callee
    BY <1>2, <1>4
  <2>2. o \in Occurrences(al)[r]
    BY <1>1, <2>1
  <2> QED BY <2>1, <2>2 DEF CalleesOf
<1>5. ASSUME NEW u \in Inner(r, al), NEW n \in CalleesOf(u, al) PROVE n \in CalleesOf(r, al)
  <2>1. PICK o \in Occurrences(al)[u] : n = o.callee
    BY <1>5 DEF CalleesOf
  <2>2. o \in Occurrences(al)[r]
    BY <1>1, <1>5, <2>1
  <2> QED BY <2>1, <2>2 DEF CalleesOf
<1> QED BY <1>3, <1>4, <1>5 DEF CalleesOf

\* They do not depend on what the binders stand for.
Named(al) == [t \in Trees |-> CalleesOf(Reading(t, << >>), al)]

LEMMA InnerTermsIn ==
  ASSUME NEW t \in Trees
  PROVE  InnerTerms(t) \subseteq Subterms(t)
BY DEF InnerTerms, Subterms

LEMMA CalleesNamed ==
  ASSUME NEW al \in BOOLEAN, NEW r \in Readings,
         \A u \in Inner(r, al) : CalleesOf(u, al) = Named(al)[u.term]
  PROVE  CalleesOf(r, al) = Own(r.term) \cup UNION {Named(al)[u] : u \in InnerTerms(r.term)}
<1>1. CalleesOf(r, al) = Own(r.term) \cup UNION {CalleesOf(u, al) : u \in Inner(r, al)}
  BY CalleesIn
<1>2. {u.term : u \in Inner(r, al)} = InnerTerms(r.term)
  BY InnerTermsOf
<1>3. ASSUME NEW n, NEW u \in Inner(r, al), n \in CalleesOf(u, al)
      PROVE  \E v \in InnerTerms(r.term) : n \in Named(al)[v]
  BY <1>2, <1>3
<1>4. ASSUME NEW n, NEW v \in InnerTerms(r.term), n \in Named(al)[v]
      PROVE  \E u \in Inner(r, al) : n \in CalleesOf(u, al)
  <2>1. PICK u \in Inner(r, al) : v = u.term
    BY <1>2, <1>4
  <2> QED BY <1>4, <2>1
<1>5. UNION {CalleesOf(u, al) : u \in Inner(r, al)} = UNION {Named(al)[u] : u \in InnerTerms(r.term)}
  BY <1>3, <1>4
<1> QED BY <1>1, <1>5

LEMMA NamedAnywhere ==
  ASSUME NEW al \in BOOLEAN, NEW r \in Readings
  PROVE  CalleesOf(r, al) = Named(al)[r.term]
<1> DEFINE S == {t \in Trees : \A e \in Seq(Denotations) :
                                 CalleesOf(Reading(t, e), al) = Named(al)[t]}
<1>1. ASSUME NEW t \in Trees, Subterms(t) \subseteq S PROVE t \in S
  <2> DEFINE All == Own(t) \cup UNION {Named(al)[u] : u \in InnerTerms(t)}
  <2>1. ASSUME NEW e \in Seq(Denotations) PROVE CalleesOf(Reading(t, e), al) = All
    <3> DEFINE s == Reading(t, e)
    <3>1. s \in Readings /\ s.term = t
      BY DEF Reading, Readings
    <3> HIDE DEF s, S
    <3>2. {u.term : u \in Inner(s, al)} \subseteq S /\ Inner(s, al) \subseteq Readings
      BY <1>1, <3>1, InnerTermsOf, InnerTermsIn, InnerType
    <3>3. ASSUME NEW u \in Inner(s, al) PROVE CalleesOf(u, al) = Named(al)[u.term]
      <4>1. u.term \in S /\ u \in Readings
        BY <3>2
      <4>2. u.env \in Seq(Denotations) /\ u = Reading(u.term, u.env)
        BY <4>1 DEF Readings, Reading
      <4> QED BY <4>1, <4>2 DEF S
    <3>4. CalleesOf(s, al) = All
      BY <3>1, <3>3, CalleesNamed
    <3> QED BY <3>4 DEF s
  <2>2. << >> \in Seq(Denotations)
    OBVIOUS
  <2>3. Named(al)[t] = All
    <3>1. Named(al)[t] = CalleesOf(Reading(t, << >>), al)
      BY DEF Named
    <3> QED BY <2>1, <2>2, <3>1
  <2> HIDE DEF All
  <2> QED BY <2>1, <2>3
<1>2. r.term \in Trees /\ r.env \in Seq(Denotations) /\ r = Reading(r.term, r.env)
  BY DEF Readings, Reading
<1>3. r.term \in S
  <2> HIDE DEF S
  <2>1. Trees \subseteq S
    BY <1>1, TermInduction
  <2> QED BY <1>2, <2>1
<1> QED BY <1>2, <1>3

LEMMA NamedIn ==
  ASSUME NEW al \in BOOLEAN, NEW t \in Trees
  PROVE  Named(al)[t] = Own(t) \cup UNION {Named(al)[u] : u \in InnerTerms(t)}
<1> DEFINE s == Reading(t, << >>)
<1>1. s \in Readings /\ s.term = t
  BY DEF Reading, Readings
<1> HIDE DEF s
<1>2. \A u \in Inner(s, al) : CalleesOf(u, al) = Named(al)[u.term]
  BY <1>1, InnerType, NamedAnywhere
<1> QED BY <1>1, <1>2, CalleesNamed, NamedAnywhere

\* So they solve the equation of Mentioned.
MentionsIn(f, t) == (IF Names(t) THEN {t.name} ELSE {}) \cup UNION {f[u] : u \in Subterms(t)}
Mentions(f) == f = [t \in Trees |-> MentionsIn(f, t)]

LEMMA NamedMentions ==
  ASSUME NEW al \in BOOLEAN
  PROVE  Mentions(Named(al))
<1> DEFINE f == Named(al)
<1>1. \A t \in Trees : f[t] = Own(t) \cup UNION {f[u] : u \in InnerTerms(t)}
  BY NamedIn
<1>2. f = [t \in Trees |-> f[t]]
  BY DEF Named
<1> HIDE DEF f
<1>3. ASSUME NEW t \in Trees PROVE f[t] = MentionsIn(f, t)
  <2>1. CASE t.tag = "spine" /\ t.head.tag = "global"
    <3>1. t.head \in Trees
      BY <2>1, TreeForms
    <3>2. InnerTerms(t.head) = {} /\ Own(t.head) = IF Names(t.head) THEN {t.head.name} ELSE {}
      BY <2>1 DEF InnerTerms, Subterms, Own
    <3>3. f[t.head] = IF Names(t.head) THEN {t.head.name} ELSE {}
      BY <1>1, <3>1, <3>2
    <3>4. Own(t) = f[t.head] /\ ~Names(t)
      BY <2>1, <3>3 DEF Own, Names
    <3>5. Subterms(t) = {t.head} \cup InnerTerms(t)
      BY <2>1 DEF Subterms, InnerTerms
    <3>6. f[t] = f[t.head] \cup UNION {f[u] : u \in InnerTerms(t)}
      BY <1>1, <3>4
    <3>7. UNION {f[u] : u \in {t.head} \cup InnerTerms(t)}
            = f[t.head] \cup UNION {f[u] : u \in InnerTerms(t)}
      OBVIOUS
    <3> QED BY <3>4, <3>5, <3>6, <3>7 DEF MentionsIn
  <2>2. CASE ~(t.tag = "spine" /\ t.head.tag = "global")
    <3>1. InnerTerms(t) = Subterms(t)
      BY <2>2 DEF InnerTerms
    <3>2. Own(t) = IF Names(t) THEN {t.name} ELSE {}
      BY <2>2 DEF Own, Names
    <3> QED BY <1>1, <3>1, <3>2 DEF MentionsIn
  <2> QED BY <2>1, <2>2
<1>4. Mentions(f)
  BY <1>2, <1>3 DEF Mentions
<1> QED BY <1>4 DEF f

\* What a term mentions is what its occurrences name, in any reading.
LEMMA MentionedNamed ==
  ASSUME NEW al \in BOOLEAN, NEW r \in Readings
  PROVE  Mentioned[r.term] = {o.callee : o \in Occurrences(al)[r]}
<1> DEFINE g == CHOOSE f : Mentions(f)
           S == {t \in Trees : g[t] = Named(al)[t]}
<1>1. Mentioned = g
  BY DEF Mentioned, Mentions, MentionsIn
<1>2. Mentions(g)
  BY NamedMentions
<1> HIDE DEF g
<1>3. \A t \in Trees : g[t] = MentionsIn(g, t) /\ Named(al)[t] = MentionsIn(Named(al), t)
  <2>1. ASSUME NEW f, Mentions(f) PROVE \A t \in Trees : f[t] = MentionsIn(f, t)
    BY <2>1 DEF Mentions
  <2> QED BY <1>2, <2>1, NamedMentions
<1>4. ASSUME NEW t \in Trees, Subterms(t) \subseteq S PROVE t \in S
  <2>1. \A u \in Subterms(t) : g[u] = Named(al)[u]
    BY <1>4
  <2>2. {g[u] : u \in Subterms(t)} = {Named(al)[u] : u \in Subterms(t)}
    BY <2>1
  <2> QED BY <1>3, <2>2 DEF MentionsIn
<1>5. r.term \in Trees
  BY DEF Readings
<1>6. Trees \subseteq S
  <2> HIDE DEF S
  <2> QED BY <1>4, TermInduction
<1>7. CalleesOf(r, al) = Named(al)[r.term]
  BY NamedAnywhere
<1> QED BY <1>1, <1>5, <1>6, <1>7 DEF CalleesOf

\* A member's body, read with its formals in scope.
LEMMA FirstReading ==
  ASSUME members \in [Group -> Bodies], NEW m \in Group
  PROVE  /\ members[m].body \in Trees /\ members[m].formals \in Nat
         /\ Env(m) \in Seq(Denotations) /\ Reading(members[m].body, Env(m)) \in Readings
<1>1. members[m].body \in Trees /\ members[m].formals \in Nat
  BY BodiesAssumption
<1>2. Env(m) \in Seq(Denotations)
  <2>1. \A i \in 1 .. members[m].formals : Formal(i - 1) \in Denotations
    BY <1>1 DEF Formal, Denotations
  <2> QED BY <1>1, <2>1 DEF Env
<1> QED BY <1>1, <1>2 DEF Reading, Readings

\* The members whose bodies mention the group are those whose bodies hold an
\* occurrence.
LEMMA InBodyHolds ==
  ASSUME members \in [Group -> Bodies], NEW al \in BOOLEAN
  PROVE  InBody = {m \in Group : Held(m, al) # {}}
<1> SUFFICES ASSUME NEW m \in Group
             PROVE  Mentioned[members[m].body] # {} <=> Held(m, al) # {}
  BY DEF InBody
<1> DEFINE r == Reading(members[m].body, Env(m))
<1>1. r \in Readings /\ r.term = members[m].body
  BY FirstReading DEF Reading
<1> HIDE DEF r
<1>2. Mentioned[members[m].body] = {o.callee : o \in Occurrences(al)[r]}
  BY <1>1, MentionedNamed
<1>3. Held(m, al) = Occurrences(al)[r]
  BY DEF Held, r
<1> QED BY <1>2, <1>3

\* What a member with n formals passes is a part of one of them, or unknown:
\* no occurrence decreases at a position it has no argument for.
Below(n) == {d \in Denotations : d.root < n}
PassesBelow(o, n) == \A i \in Nat : i < Len(o.passed) => o.passed[i + 1].root < n

LEMMA OccurrencesBelow ==
  ASSUME NEW n \in Nat, NEW al \in BOOLEAN, NEW r \in ReadingsOver(Below(n)),
         NEW o \in Occurrences(al)[r]
  PROVE  PassesBelow(o, n)
<1> DEFINE S == {t \in Trees : \A s \in ReadingsOver(Below(n)) : s.term = t =>
                                 \A p \in Occurrences(al)[s] : PassesBelow(p, n)}
<1>0. ClosedDenotations(Below(n))
  BY DEF ClosedDenotations, Below, Denotations, Unknown, Part
<1>a. ASSUME NEW s \in ReadingsOver(Below(n))
      PROVE  s \in Readings /\ s.env \in Seq(Below(n)) /\ s.term \in Trees
  <2>1. s = [term |-> s.term, env |-> s.env] /\ s.term \in Trees /\ s.env \in Seq(Below(n))
    BY DEF ReadingsOver
  <2>2. s.env \in Seq(Denotations)
    BY <2>1 DEF Below
  <2> QED BY <2>1, <2>2 DEF Readings
<1>1. ASSUME NEW t \in Trees, Subterms(t) \subseteq S PROVE t \in S
  <2> SUFFICES ASSUME NEW s \in ReadingsOver(Below(n)), s.term = t,
                      NEW p \in Occurrences(al)[s]
               PROVE  PassesBelow(p, n)
    OBVIOUS
  <2>1. Occurrences(al)[s] = Here(s) \cup UNION {Occurrences(al)[u] : u \in Inner(s, al)}
    BY <1>a, OccurrencesIn
  <2>2. CASE p \in Here(s)
    <3>1. CASE Names(s.term)
      <4>1. p.passed = << >>
        BY <2>2, <3>1 DEF Here, Names
      <4> QED BY <4>1 DEF PassesBelow
    <3>2. CASE ~Names(s.term)
      <4>1. t.tag = "spine" /\ p = [callee |-> t.head.name, passed |-> Passed(s.env, t.args)]
        BY <2>2, <3>2 DEF Here
      <4>2. p.passed = Passed(s.env, t.args)
        BY <4>1
      <4>3. t.args \in Seq(Trees)
        BY <4>1, TreeForms
      <4>4. ASSUME NEW i \in Nat, i < Len(p.passed) PROVE p.passed[i + 1].root < n
        <5>1. Len(p.passed) = Len(t.args) /\ i + 1 \in DOMAIN t.args
          BY <4>2, <4>3, <4>4 DEF Passed
        <5> DEFINE a == t.args[i + 1]
        <5>2. a \in Trees /\ p.passed[i + 1] = IF a.tag = "var" THEN EnvAt(s.env, a.var) ELSE Unknown
          BY <4>2, <4>3, <5>1 DEF Passed
        <5> HIDE DEF a
        <5>3. CASE a.tag = "var"
          <6>1. a.var \in Nat
            BY <5>2, <5>3, TreeForms
          <6>2. EnvAt(s.env, a.var) \in Below(n)
            BY <1>0, <1>a, <6>1, EnvAtIn
          <6> QED BY <5>2, <5>3, <6>2 DEF Below
        <5>4. CASE a.tag # "var"
          BY <5>2, <5>4 DEF Unknown
        <5> QED BY <5>3, <5>4
      <4> QED BY <4>4 DEF PassesBelow
    <3> QED BY <3>1, <3>2
  <2>3. CASE p \notin Here(s)
    <3>1. PICK u \in Inner(s, al) : p \in Occurrences(al)[u]
      BY <2>1, <2>3
    <3>2. u \in ReadingsOver(Below(n))
      BY <1>0, InnerIn
    <3>3. u.term \in InnerTerms(t)
      BY <1>a, InnerTermsOf
    <3>4. u.term \in S
      BY <1>1, <3>3, InnerTermsIn
    <3> QED BY <3>1, <3>2, <3>4
  <2> QED BY <2>2, <2>3
<1>2. Trees \subseteq S
  <2> HIDE DEF S
  <2> QED BY <1>1, TermInduction
<1> QED BY <1>2, <1>a

LEMMA HeldBelow ==
  ASSUME members \in [Group -> Bodies], NEW m \in Group, NEW al \in BOOLEAN,
         NEW o \in Held(m, al), NEW pos \in Nat, ~(pos < members[m].formals)
  PROVE  ~Decreases(o, pos)
<1> DEFINE n == members[m].formals
           r == Reading(members[m].body, Env(m))
<1>1. n \in Nat /\ members[m].body \in Trees
  BY FirstReading
<1>2. Env(m) \in Seq(Below(n))
  <2>1. \A i \in 1 .. n : Formal(i - 1) \in Below(n)
    BY <1>1 DEF Formal, Denotations, Below
  <2>2. Env(m) = [i \in 1 .. n |-> Formal(i - 1)]
    BY DEF Env
  <2> HIDE DEF n
  <2> QED BY <1>1, <2>1, <2>2
<1>3. o \in Occurrences(al)[r] /\ ~(pos < n)
  BY DEF Held
<1>4. r \in ReadingsOver(Below(n))
  BY <1>1, <1>2 DEF Reading, ReadingsOver
<1> HIDE DEF r, n
<1>5. PassesBelow(o, n)
  BY <1>1, <1>3, <1>4, OccurrencesBelow
<1>6. ASSUME pos < Len(o.passed) PROVE o.passed[pos + 1].root # pos
  BY <1>3, <1>5, <1>6 DEF PassesBelow
<1> QED BY <1>6 DEF Decreases

-----------------------------------------------------------------------------
(***************************************************************************)
(* The walk follows the reference: the readings of the jobs it adds for a  *)
(* term are the term's inner readings.                                     *)
(***************************************************************************)
JobReading(j) == Reading(j.term, j.den)
ReadingsOf(q) == {JobReading(q[i]) : i \in DOMAIN q}

LEMMA ReadingsOfConcat ==
  ASSUME NEW S, NEW a \in Seq(S), NEW b \in Seq(S)
  PROVE  ReadingsOf(a \o b) = ReadingsOf(a) \cup ReadingsOf(b)
<1> DEFINE c == a \o b
<1>1. /\ Len(c) = Len(a) + Len(b) /\ Len(a) \in Nat /\ Len(b) \in Nat
      /\ DOMAIN c = 1 .. Len(c) /\ DOMAIN a = 1 .. Len(a) /\ DOMAIN b = 1 .. Len(b)
      /\ \A i \in 1 .. Len(a) : c[i] = a[i]
      /\ \A i \in 1 .. Len(b) : c[Len(a) + i] = b[i]
  BY ConcatType
<1> HIDE DEF c
<1>2. ASSUME NEW i \in DOMAIN c PROVE JobReading(c[i]) \in ReadingsOf(a) \cup ReadingsOf(b)
  <2>1. CASE i <= Len(a)
    <3>1. i \in DOMAIN a /\ c[i] = a[i]
      BY <1>1, <2>1
    <3> QED BY <3>1 DEF ReadingsOf
  <2>2. CASE ~(i <= Len(a))
    <3> DEFINE n == i - Len(a)
    <3>1. n \in 1 .. Len(b) /\ i = Len(a) + n
      BY <1>1, <2>2
    <3> HIDE DEF n
    <3>2. c[i] = b[n] /\ n \in DOMAIN b
      BY <1>1, <3>1
    <3> QED BY <3>2 DEF ReadingsOf
  <2> QED BY <2>1, <2>2
<1>3. ASSUME NEW i \in DOMAIN a PROVE JobReading(a[i]) \in ReadingsOf(c)
  <2>1. i \in DOMAIN c /\ c[i] = a[i]
    BY <1>1
  <2> QED BY <2>1 DEF ReadingsOf
<1>4. ASSUME NEW i \in DOMAIN b PROVE JobReading(b[i]) \in ReadingsOf(c)
  <2>1. Len(a) + i \in DOMAIN c /\ c[Len(a) + i] = b[i]
    BY <1>1
  <2> QED BY <2>1 DEF ReadingsOf
<1> QED BY <1>2, <1>3, <1>4 DEF ReadingsOf, c

LEMMA ReadingsOfJobsConcat ==
  ASSUME NEW a \in Seq(JobSet), NEW b \in Seq(JobSet)
  PROVE  ReadingsOf(a \o b) = ReadingsOf(a) \cup ReadingsOf(b)
BY ReadingsOfConcat

LEMMA ReadingsOfOne ==
  ASSUME NEW x
  PROVE  ReadingsOf(<<x>>) = {JobReading(x)}
BY DEF ReadingsOf

LEMMA ReadingsOfThree ==
  ASSUME NEW x, NEW y, NEW z
  PROVE  ReadingsOf(<<x, y, z>>) = {JobReading(x), JobReading(y), JobReading(z)}
<1> DEFINE q == <<x, y, z>>
<1>1. DOMAIN q = {1, 2, 3} /\ q[1] = x /\ q[2] = y /\ q[3] = z
  OBVIOUS
<1> HIDE DEF q
<1>2. ReadingsOf(q) = {JobReading(x), JobReading(y), JobReading(z)}
  BY <1>1 DEF ReadingsOf
<1> QED BY <1>2 DEF q

LEMMA ReadingsOfHeadTail ==
  ASSUME NEW S, NEW q \in Seq(S), q # << >>
  PROVE  ReadingsOf(q) = {JobReading(Head(q))} \cup ReadingsOf(Tail(q))
<1>1. q = <<Head(q)>> \o Tail(q) /\ Head(q) \in S /\ Tail(q) \in Seq(S)
  OBVIOUS
<1> DEFINE a == <<Head(q)>>
           b == Tail(q)
<1>2. a \in Seq(S) /\ b \in Seq(S) /\ q = a \o b
  BY <1>1
<1>3. ReadingsOf(a) = {JobReading(Head(q))}
  BY ReadingsOfOne
<1> HIDE DEF a, b
<1>4. ReadingsOf(a \o b) = ReadingsOf(a) \cup ReadingsOf(b)
  BY <1>2, ReadingsOfConcat
<1> QED BY <1>2, <1>3, <1>4 DEF b

LEMMA ReadingsOfJobs ==
  ASSUME NEW j \in JobSet, NEW e
  PROVE  /\ \A t : JobReading(Visit(j, t)) = Reading(t, j.den)
         /\ \A ps : ReadingsOf(Parts(j, ps)) = InParts(j.den, Unknown, ps)
         /\ \A ts : ReadingsOf(Visits(j, ts)) = {Reading(ts[i], j.den) : i \in DOMAIN ts}
         /\ ReadingsOf(Branches(j, e)) = InParts(j.den, PartOf(j.den, e.scrut), e.branches)
         /\ JobReading(LetBody(j, e))
              = Reading(e.body, j.den \o Copies(Bound(j.den, e.value, TRUE), 1))
<1>1. \A ix : Den(j, ix) = EnvAt(j.den, ix)
  BY DEF Den, EnvAt
<1>2. \A t : JobReading(Visit(j, t)) = Reading(t, j.den)
  BY DEF JobReading, Visit, JobSet
<1>3. ASSUME NEW ps PROVE ReadingsOf(Parts(j, ps)) = InParts(j.den, Unknown, ps)
  <2>1. /\ DOMAIN Parts(j, ps) = DOMAIN ps
        /\ \A i \in DOMAIN ps : JobReading(Parts(j, ps)[i])
             = Reading(ps[i].term, j.den \o Copies(Unknown, ps[i].binders))
    BY DEF JobReading, Parts, Under
  <2> QED BY <2>1 DEF ReadingsOf, InParts
<1>4. ASSUME NEW ts PROVE ReadingsOf(Visits(j, ts)) = {Reading(ts[i], j.den) : i \in DOMAIN ts}
  <2>1. /\ DOMAIN Visits(j, ts) = DOMAIN ts
        /\ \A i \in DOMAIN ts : JobReading(Visits(j, ts)[i]) = Reading(ts[i], j.den)
    BY <1>2 DEF Visits
  <2> QED BY <2>1 DEF ReadingsOf
<1>5. ReadingsOf(Branches(j, e)) = InParts(j.den, PartOf(j.den, e.scrut), e.branches)
  <2> DEFINE bs == e.branches
             d == PartOf(j.den, e.scrut)
  <2>1. BranchDen(j, e) = d
    BY <1>1 DEF BranchDen, PartOf, Scrut
  <2>2. ASSUME NEW i \in DOMAIN bs
        PROVE  JobReading(Branches(j, e)[i]) = Reading(bs[i].term, j.den \o Copies(d, bs[i].binders))
    <3>1. Branches(j, e)[i] = Branch(j, e, bs[i])
      BY DEF Branches
    <3>2. [j EXCEPT !.chain = ChainAt(j, e, bs[i])].den = j.den
      BY DEF JobSet
    <3>3. JobReading(Branch(j, e, bs[i])) = Reading(bs[i].term, j.den \o Copies(d, bs[i].binders))
      BY <2>1, <3>2 DEF Branch, Under, JobReading
    <3> QED BY <3>1, <3>3
  <2>3. DOMAIN Branches(j, e) = DOMAIN bs
    BY DEF Branches
  <2> QED BY <2>2, <2>3 DEF ReadingsOf, InParts
<1>6. JobReading(LetBody(j, e))
        = Reading(e.body, j.den \o Copies(Bound(j.den, e.value, TRUE), 1))
  <2>1. (IF e.value.tag = "var" THEN Den(j, e.value.var) ELSE Unknown) = Bound(j.den, e.value, TRUE)
    BY <1>1 DEF Bound
  <2> QED BY <2>1 DEF LetBody, Under, JobReading
<1> QED BY <1>2, <1>3, <1>4, <1>5, <1>6

-----------------------------------------------------------------------------
(***************************************************************************)
(* The certificate.  While a member is walked, an occurrence that its body *)
(* holds is held by a pending job or is a recorded call that decreases;    *)
(* nothing else is pending or recorded.                                    *)
(***************************************************************************)
Pending == UNION {Occurrences(TRUE)[r] : r \in ReadingsOf(jobs)}
Callees(q) == {q[i].callee : i \in DOMAIN q}
HeldCallees(m) == {o.callee : o \in Held(m, TRUE)}
Covered(o) == Decreases(o, k) /\ o.callee \in Callees(calls)

MemberDone(m) ==
  /\ \A o \in Held(m, TRUE) : Decreases(o, k)
  /\ Callees(rows[m]) = HeldCallees(m)
RowsDone == \A m \in 1 .. Len(rows) : MemberDone(m)

WalkCovers ==
  /\ at \in Group /\ Len(rows) = at - 1
  /\ RowsDone
  /\ Pending \subseteq Held(at, TRUE)
  /\ \A o \in Held(at, TRUE) : o \in Pending \/ Covered(o)
  /\ Callees(calls) \subseteq HeldCallees(at)

CertInv ==
  /\ phase = "plain" => Calling = {}
  /\ phase = "walk" => WalkCovers
  /\ phase \in {"certified", "granted"} => Len(rows) = Size /\ RowsDone

\* The pending occurrences, when a job is taken.
LEMMA PendingStep ==
  ASSUME IInv, Walking
  PROVE  LET r == JobReading(Job)
         IN  Pending = Here(r) \cup (UNION {Occurrences(TRUE)[u] : u \in Inner(r, TRUE)})
                       \cup UNION {Occurrences(TRUE)[u] : u \in ReadingsOf(Tail(jobs))}
<1> DEFINE r == JobReading(Job)
<1>1. jobs \in Seq(GoodJobs(k)) /\ jobs # << >> /\ Job = Head(jobs)
  BY DEF IInv, Walking, Job
<1>2. ReadingsOf(jobs) = {r} \cup ReadingsOf(Tail(jobs))
  BY <1>1, ReadingsOfHeadTail
<1>3. r \in Readings
  BY JobFacts DEF GoodJobs, JobSet, JobReading, Reading, Readings
<1> HIDE DEF r
<1>4. Occurrences(TRUE)[r] = Here(r) \cup UNION {Occurrences(TRUE)[u] : u \in Inner(r, TRUE)}
  BY <1>3, OccurrencesIn
<1> QED BY <1>2, <1>4 DEF Pending, r

\* A walk that starts has all the occurrences of the member pending.
LEMMA StartCovers ==
  ASSUME NEW m \in Group, NEW pos \in Nat, members' = members, at' = m,
         jobs' = <<First(m, pos)>>, calls' = << >>, Len(rows') = m - 1, RowsDone'
  PROVE  WalkCovers'
<1>1. JobReading(First(m, pos)) = Reading(members[m].body, Env(m))
  BY DEF First, Env, JobReading
<1>2. ReadingsOf(jobs') = {Reading(members[m].body, Env(m))}
  BY <1>1, ReadingsOfOne
<1>3. Pending' = Held(m, TRUE)
  <2>1. UNION {Occurrences(TRUE)[r] : r \in ReadingsOf(jobs')}
          = Occurrences(TRUE)[Reading(members[m].body, Env(m))]
    BY <1>2
  <2> QED BY <2>1 DEF Pending, Held
<1>4. Held(at, TRUE)' = Held(m, TRUE)
  BY DEF Held, Env
<1>5. Callees(calls)' = {}
  BY DEF Callees
<1> QED BY <1>3, <1>4, <1>5 DEF WalkCovers

\* A step that leaves the member, the calls and the rows.
LEMMA ExpandCovers ==
  ASSUME IInv, CertInv, Walking, NEW new \in Seq(JobSet), Expand(new),
         Here(JobReading(Job)) = {}, ReadingsOf(new) = Inner(JobReading(Job), TRUE)
  PROVE  CertInv'
<1>1. Tail(jobs) \in Seq(JobSet)
  <2>1. Tail(jobs) \in Seq(GoodJobs(k)) /\ GoodJobs(k) \subseteq JobSet
    BY JobFacts DEF GoodJobs
  <2> QED BY <2>1
<1>2. ReadingsOf(jobs') = Inner(JobReading(Job), TRUE) \cup ReadingsOf(Tail(jobs))
  <2> DEFINE rest == Tail(jobs)
  <2>1. rest \in Seq(JobSet) /\ jobs' = new \o rest
    BY <1>1 DEF Expand
  <2> HIDE DEF rest
  <2>2. ReadingsOf(new \o rest) = ReadingsOf(new) \cup ReadingsOf(rest)
    BY <2>1, ReadingsOfJobsConcat
  <2> QED BY <2>1, <2>2 DEF rest
<1>3. Pending' = Pending
  BY <1>2, PendingStep DEF Pending
<1>4. /\ members' = members /\ at' = at /\ calls' = calls /\ rows' = rows /\ k' = k
      /\ phase' = phase /\ phase = "walk" /\ WalkCovers
  BY DEF Expand, CertInv, Walking
<1>5. RowsDone' /\ Held(at, TRUE)' = Held(at, TRUE) /\ HeldCallees(at)' = HeldCallees(at)
      /\ Callees(calls)' = Callees(calls)
  BY <1>4 DEF WalkCovers, RowsDone, MemberDone, HeldCallees, Held, Env
<1>6. WalkCovers'
  BY <1>3, <1>4, <1>5 DEF WalkCovers, Covered
<1> QED BY <1>4, <1>6 DEF CertInv

\* A recorded call is the occurrence that its spine is.
LEMMA CallCovers ==
  ASSUME IInv, CertInv, Walking, Term.tag = "spine", Term.head.tag = "global",
         Term.head.name \in Group, Guarded(Job, Term.args), NEW c, c.callee = Term.head.name,
         calls \in Seq(CallSet), calls' = Append(calls, c), NEW rest \in Seq(JobSet),
         jobs' = rest \o Tail(jobs), UNCHANGED <<members, k, at, rows, phase>>,
         ReadingsOf(rest) = Inner(JobReading(Job), TRUE)
  PROVE  CertInv'
<1> DEFINE o == [callee |-> Term.head.name, passed |-> Passed(Job.den, Term.args)]
           r == JobReading(Job)
<1>0. Job \in GoodJobs(k) /\ Term \in Trees /\ k \in Nat
  BY JobFacts DEF IInv
<1>1. Here(r) = {o}
  BY DEF Here, JobReading, Reading, Names, Term
<1>2. Decreases(o, k) /\ o.callee = c.callee
  <2> DEFINE a == Term.args[k + 1]
             d == Den(Job, a.var)
             pa == Passed(Job.den, Term.args)
  <2>1. Term.args \in Seq(Trees)
    BY <1>0, TreeForms
  <2>2. d.root = k /\ d.below > 0
    BY GuardedCall DEF GoodCalls, CallDescends
  <2>3. k < Len(Term.args) /\ a.tag = "var"
    BY DEF Guarded
  <2>4. k + 1 \in DOMAIN Term.args
    BY <1>0, <2>1, <2>3
  <2>5. pa[k + 1] = d /\ Len(pa) = Len(Term.args)
    <3>1. pa[k + 1] = d
      BY <2>3, <2>4 DEF Passed, Den, EnvAt
    <3>2. pa = [i \in 1 .. Len(Term.args) |-> pa[i]] /\ Len(Term.args) \in Nat
      BY <2>1 DEF Passed
    <3> HIDE DEF pa
    <3>3. Len(pa) = Len(Term.args)
      BY <3>2
    <3> QED BY <3>1, <3>3
  <2> HIDE DEF pa, d
  <2>6. o.passed = pa /\ o.callee = c.callee
    BY DEF pa
  <2> HIDE DEF o
  <2> QED BY <2>2, <2>3, <2>5, <2>6 DEF Decreases
<1>3. Callees(calls)' = Callees(calls) \cup {c.callee}
  <2>1. /\ Len(calls) \in Nat /\ DOMAIN calls = 1 .. Len(calls)
        /\ DOMAIN calls' = 1 .. Len(calls) + 1
        /\ \A i \in 1 .. Len(calls) : calls'[i] = calls[i]
        /\ calls'[Len(calls) + 1] = c
    OBVIOUS
  <2> DEFINE n == Len(calls)
  <2>2. n \in Nat /\ DOMAIN calls' = (1 .. n) \cup {n + 1} /\ DOMAIN calls = 1 .. n
    BY <2>1
  <2> HIDE DEF n
  <2> QED BY <2>1, <2>2 DEF Callees, n
<1>4. ReadingsOf(jobs') = Inner(r, TRUE) \cup ReadingsOf(Tail(jobs))
  <2> DEFINE t == Tail(jobs)
  <2>1. t \in Seq(JobSet)
    <3>1. Tail(jobs) \in Seq(GoodJobs(k)) /\ GoodJobs(k) \subseteq JobSet
      BY JobFacts DEF GoodJobs
    <3> QED BY <3>1
  <2> HIDE DEF t
  <2>2. ReadingsOf(rest \o t) = ReadingsOf(rest) \cup ReadingsOf(t)
    BY <2>1, ReadingsOfJobsConcat
  <2> QED BY <2>2 DEF t
<1>5. Pending = {o} \cup Pending'
  BY <1>1, <1>4, PendingStep DEF Pending
<1>6. phase = "walk" /\ phase' = "walk" /\ WalkCovers
  BY DEF CertInv, Walking
<1>7. RowsDone' /\ Held(at, TRUE)' = Held(at, TRUE) /\ HeldCallees(at)' = HeldCallees(at)
  BY <1>6 DEF WalkCovers, RowsDone, MemberDone, HeldCallees, Held, Env
<1> HIDE DEF o, r
<1>8. o \in Held(at, TRUE) /\ Pending' \subseteq Held(at, TRUE)
  BY <1>5, <1>6 DEF WalkCovers
<1>9. ASSUME NEW p \in Held(at, TRUE) PROVE p \in Pending' \/ Covered(p)'
  <2>1. CASE p = o
    BY <1>2, <1>3, <2>1 DEF Covered
  <2>2. CASE p # o
    BY <1>3, <1>5, <1>6, <1>9, <2>2 DEF Covered, WalkCovers
  <2> QED BY <2>1, <2>2
<1>10. Callees(calls)' \subseteq HeldCallees(at)
  BY <1>2, <1>3, <1>6, <1>8 DEF WalkCovers, HeldCallees
<1>11. WalkCovers'
  BY <1>6, <1>7, <1>8, <1>9, <1>10 DEF WalkCovers
<1> QED BY <1>6, <1>11 DEF CertInv

\* The member is done, and its calls are a row.
LEMMA NextMemberCovers ==
  ASSUME IInv, CertInv, NextMember
  PROVE  CertInv'
<1>1. /\ phase = "walk" /\ WalkCovers /\ jobs = << >>
      /\ rows' = Append(rows, calls) /\ members' = members /\ k' = k /\ calls' = << >>
      /\ rows \in Seq(Seq(GoodCalls(k))) /\ k \in Nat /\ Size \in Nat
  BY SizeAssumption DEF NextMember, CertInv, IInv
<1>2. at \in 1 .. Size /\ Len(rows) = at - 1
  BY <1>1 DEF WalkCovers, Group
<1>3. Len(rows') = at /\ rows'[at] = calls /\ \A m \in 1 .. at - 1 : rows'[m] = rows[m]
  BY <1>1, <1>2
<1>4. ReadingsOf(jobs) = {}
  BY <1>1 DEF ReadingsOf
<1>5. Pending = {}
  BY <1>4 DEF Pending
<1>6. \A o \in Held(at, TRUE) : Covered(o)
  BY <1>1, <1>5 DEF WalkCovers
<1>7. Callees(calls) = HeldCallees(at)
  BY <1>1, <1>6 DEF WalkCovers, Covered, HeldCallees
<1>8. \A m : Held(m, TRUE)' = Held(m, TRUE) /\ HeldCallees(m)' = HeldCallees(m)
  BY <1>1 DEF Held, Env, HeldCallees
<1>9. ASSUME NEW m \in 1 .. Len(rows') PROVE MemberDone(m)'
  <2>1. CASE m = at
    <3>1. Callees(rows'[m]) = HeldCallees(m)
      BY <1>3, <1>7, <2>1
    <3> QED BY <1>1, <1>6, <1>8, <2>1, <3>1 DEF MemberDone, Covered
  <2>2. CASE m # at
    <3>1. m \in 1 .. Len(rows) /\ rows'[m] = rows[m]
      BY <1>2, <1>3, <2>2
    <3>2. MemberDone(m)
      BY <1>1, <3>1 DEF WalkCovers, RowsDone
    <3> QED BY <1>1, <1>8, <3>1, <3>2 DEF MemberDone
  <2> QED BY <2>1, <2>2
<1>10. RowsDone'
  BY <1>9 DEF RowsDone
<1>11. CASE at + 1 \in Group
  <2>1. /\ at' = at + 1 /\ jobs' = <<First(at + 1, k)>> /\ phase' = "walk"
    BY <1>1, <1>11 DEF NextMember
  <2> DEFINE m == at + 1
  <2>2. m \in Group /\ at' = m /\ jobs' = <<First(m, k)>> /\ Len(rows') = m - 1
    BY <1>2, <1>3, <1>11, <2>1
  <2> HIDE DEF m
  <2>3. WalkCovers'
    BY <1>1, <1>10, <2>2, StartCovers
  <2> QED BY <2>1, <2>3 DEF CertInv
<1>12. CASE at + 1 \notin Group
  <2>1. phase' = "certified" /\ at = Size
    BY <1>1, <1>2, <1>12 DEF NextMember, Group
  <2> QED BY <1>3, <1>10, <2>1 DEF CertInv
<1> QED BY <1>11, <1>12

LEMMA InitCertInv == Init => CertInv
BY DEF Init, CertInv

LEMMA NextCertInv == IInv /\ CertInv /\ [Next]_vars => CertInv'
<1> SUFFICES ASSUME IInv, CertInv, [Next]_vars PROVE CertInv'
  OBVIOUS
<1>0. k \in Nat /\ 1 \in Group
  BY SizeAssumption DEF Group, IInv
<1>a. ASSUME NEW pos \in Nat, members' = members, at' = 1, jobs' = <<First(1, pos)>>,
             calls' = << >>, rows' = << >>, phase' = "walk"
      PROVE  CertInv'
  <2>1. Len(rows') = 1 - 1 /\ RowsDone'
    BY <1>a DEF RowsDone
  <2>2. WalkCovers'
    <3> DEFINE one == 1
    <3>1. one \in Group /\ at' = one /\ jobs' = <<First(one, pos)>> /\ Len(rows') = one - 1
      BY <1>0, <1>a, <2>1
    <3> HIDE DEF one
    <3> QED BY <1>a, <2>1, <3>1, StartCovers
  <2> QED BY <1>a, <2>2 DEF CertInv
<1>b. ASSUME phase' \notin {"plain", "walk", "certified", "granted"} PROVE CertInv'
  BY <1>b DEF CertInv
<1>c. ASSUME GiveUp PROVE CertInv'
  BY <1>b, <1>c DEF GiveUp
<1>j. ASSUME Walking
      PROVE  /\ Job \in JobSet /\ Term = JobReading(Job).term /\ Job.den = JobReading(Job).env
             /\ Job \in GoodJobs(k) /\ Term \in Trees /\ GoodJobs(k) \subseteq JobSet
  BY <1>j, JobFacts DEF GoodJobs, JobReading, Reading, Term
<1> DEFINE r == JobReading(Job)
<1>1. CASE Certify
  <2>0. members' = members
    BY <1>1 DEF Certify
  <2>1. CASE Calling = {} /\ phase' = "plain"
    <3>1. Calling' = {}
      BY <2>0, <2>1 DEF Calling, InBody
    <3> QED BY <2>1, <3>1 DEF CertInv
  <2>2. CASE phase' = "unfit"
    BY <1>b, <2>2
  <2>3. CASE /\ phase' = "walk" /\ at' = 1 /\ jobs' = <<First(1, 0)>>
             /\ calls' = << >> /\ rows' = << >>
    BY <1>0, <1>a, <2>0, <2>3
  <2> QED BY <1>1, <2>1, <2>2, <2>3 DEF Certify
<1>2. CASE Exhaust
  BY <1>2, <1>b DEF Exhaust
<1>3. CASE Simple
  <2>1. Here(r) = {} /\ Inner(r, TRUE) = {}
    BY <1>3, <1>j DEF Simple, Here, Inner, Names
  <2>2. << >> \in Seq(JobSet) /\ ReadingsOf(<< >>) = {}
    BY DEF ReadingsOf
  <2> QED BY <1>3, <2>1, <2>2, ExpandCovers DEF Simple
<1>4. CASE Name
  <2>1. CASE Term.name \in Group
    BY <1>4, <1>c, <2>1 DEF Name, Names
  <2>2. CASE Term.name \notin Group
    <3>1. Here(r) = {} /\ Inner(r, TRUE) = {}
      BY <1>4, <1>j, <2>2 DEF Name, Here, Inner, Names
    <3>2. << >> \in Seq(JobSet) /\ ReadingsOf(<< >>) = {}
      BY DEF ReadingsOf
    <3> QED BY <1>4, <2>2, <3>1, <3>2, ExpandCovers DEF Name, Names
  <2> QED BY <2>1, <2>2
<1>5. CASE Node
  <2>0. Walking /\ Term.tag = "node"
    BY <1>5 DEF Node
  <2>1. Here(r) = {} /\ Inner(r, TRUE) = InParts(Job.den, Unknown, Term.parts)
    BY <2>0, <1>j DEF Here, Inner, Names
  <2>2. Parts(Job, Term.parts) \in Seq(JobSet)
    <3>1. Parts(Job, Term.parts) \in Seq(GoodJobs(k))
      BY <1>0, <2>0, <1>j, TreeForms, PartsGood
    <3> QED BY <2>0, <3>1, <1>j
  <2>3. ReadingsOf(Parts(Job, Term.parts)) = Inner(r, TRUE)
    BY <2>0, <2>1, <1>j, ReadingsOfJobs
  <2> QED BY <1>5, <2>1, <2>2, <2>3, ExpandCovers DEF Node
<1>6. CASE Let
  <2>0. Walking /\ Term.tag = "let"
    BY <1>6 DEF Let
  <2> DEFINE a == Visit(Job, Term.type)
             b == Visit(Job, Term.value)
             c == LetBody(Job, Term)
  <2>1. Here(r) = {} /\ Inner(r, TRUE) = {JobReading(a), JobReading(b), JobReading(c)}
    <3>1. Here(r) = {}
      BY <2>0, <1>j DEF Here, Names
    <3>2. Inner(r, TRUE)
            = {Reading(Term.type, Job.den), Reading(Term.value, Job.den),
               Reading(Term.body, Job.den \o Copies(Bound(Job.den, Term.value, TRUE), 1))}
      BY <2>0, <1>j DEF Inner
    <3> QED BY <2>0, <3>1, <3>2, <1>j, ReadingsOfJobs
  <2>2. a \in JobSet /\ b \in JobSet /\ c \in JobSet
    <3>1. Term.type \in Trees /\ Term.value \in Trees
      BY <2>0, <1>j, TreeForms
    <3> QED BY <1>0, <2>0, <3>1, <1>j, VisitGood, LetBodyGood
  <2>3. Expand(<<a, b, c>>)
    BY <1>6 DEF Let
  <2> HIDE DEF a, b, c
  <2>4. <<a, b, c>> \in Seq(JobSet) /\ ReadingsOf(<<a, b, c>>) = Inner(r, TRUE)
    <3>1. <<a, b, c>> \in Seq(JobSet)
      BY <2>2
    <3>2. ReadingsOf(<<a, b, c>>) = {JobReading(a), JobReading(b), JobReading(c)}
      BY ReadingsOfThree
    <3> QED BY <2>1, <3>1, <3>2
  <2> QED BY <2>0, <2>1, <2>3, <2>4, ExpandCovers
<1>7. CASE Elim
  <2>0. Walking /\ Term.tag = "elim"
    BY <1>7 DEF Elim
  <2> DEFINE a == <<Visit(Job, Term.scrut)>>
             b == Parts(Job, Term.parts)
             c == Parts(Job, Term.motives)
             d == Branches(Job, Term)
             new == a \o b \o c \o d
  <2>1. Here(r) = {} /\ Inner(r, TRUE)
          = {Reading(Term.scrut, Job.den)} \cup InParts(Job.den, Unknown, Term.parts)
            \cup InParts(Job.den, Unknown, Term.motives)
            \cup InParts(Job.den, PartOf(Job.den, Term.scrut), Term.branches)
    BY <2>0, <1>j DEF Here, Inner, Names
  <2>2. a \in Seq(JobSet) /\ b \in Seq(JobSet) /\ c \in Seq(JobSet) /\ d \in Seq(JobSet)
    <3>1. Term.scrut \in Trees /\ Term.parts \in Seq(Scopes) /\ Term.motives \in Seq(Scopes)
      BY <2>0, <1>j, TreeForms
    <3>2. /\ Visit(Job, Term.scrut) \in GoodJobs(k) /\ Parts(Job, Term.parts) \in Seq(GoodJobs(k))
          /\ Parts(Job, Term.motives) \in Seq(GoodJobs(k)) /\ Branches(Job, Term) \in Seq(GoodJobs(k))
      BY <1>0, <2>0, <3>1, <1>j, VisitGood, PartsGood, BranchesGood
    <3> QED BY <2>0, <3>2, <1>j
  <2>3. /\ ReadingsOf(a) = {Reading(Term.scrut, Job.den)}
        /\ ReadingsOf(b) = InParts(Job.den, Unknown, Term.parts)
        /\ ReadingsOf(c) = InParts(Job.den, Unknown, Term.motives)
        /\ ReadingsOf(d) = InParts(Job.den, PartOf(Job.den, Term.scrut), Term.branches)
    BY <2>0, <1>j, ReadingsOfJobs, ReadingsOfOne
  <2>4. Expand(new)
    BY <1>7 DEF Elim
  <2> HIDE DEF a, b, c, d
  <2>5. new \in Seq(JobSet)
        /\ ReadingsOf(new) = ReadingsOf(a) \cup ReadingsOf(b) \cup ReadingsOf(c) \cup ReadingsOf(d)
    <3> DEFINE ab == a \o b
               abc == ab \o c
    <3>1. ab \in Seq(JobSet) /\ ReadingsOf(ab) = ReadingsOf(a) \cup ReadingsOf(b)
      BY <2>2, ConcatType, ReadingsOfJobsConcat
    <3> HIDE DEF ab
    <3>2. abc \in Seq(JobSet) /\ ReadingsOf(abc) = ReadingsOf(ab) \cup ReadingsOf(c)
      BY <2>2, <3>1, ConcatType, ReadingsOfJobsConcat
    <3> HIDE DEF abc
    <3>3. abc \o d \in Seq(JobSet) /\ ReadingsOf(abc \o d) = ReadingsOf(abc) \cup ReadingsOf(d)
      BY <2>2, <3>2, ConcatType, ReadingsOfJobsConcat
    <3>4. new = abc \o d
      BY DEF abc, ab
    <3> QED BY <3>1, <3>2, <3>3, <3>4
  <2> HIDE DEF new
  <2> QED BY <2>0, <2>1, <2>3, <2>4, <2>5, ExpandCovers
<1>8. CASE Spine
  <2>0. Walking /\ Term.tag = "spine"
    BY <1>8 DEF Spine
  <2> DEFINE b == Parts(Job, Term.parts)
             c == Visits(Job, Term.args)
             rest == b \o c
             a == <<Visit(Job, Term.head)>>
             reads == InParts(Job.den, Unknown, Term.parts)
                      \cup {Reading(Term.args[i], Job.den) : i \in DOMAIN Term.args}
  <2>2. a \in Seq(JobSet) /\ b \in Seq(JobSet) /\ c \in Seq(JobSet)
    <3>1. Term.head \in Trees /\ Term.parts \in Seq(Scopes) /\ Term.args \in Seq(Trees)
      BY <2>0, <1>j, TreeForms
    <3>2. /\ Visit(Job, Term.head) \in GoodJobs(k) /\ Parts(Job, Term.parts) \in Seq(GoodJobs(k))
          /\ Visits(Job, Term.args) \in Seq(GoodJobs(k))
      BY <1>0, <2>0, <3>1, <1>j, VisitGood, PartsGood, VisitsGood
    <3> QED BY <2>0, <3>2, <1>j
  <2>3. /\ ReadingsOf(b) \cup ReadingsOf(c) = reads
        /\ ReadingsOf(a) = {Reading(Term.head, Job.den)}
    BY <2>0, <1>j, ReadingsOfJobs, ReadingsOfOne
  <2>4. rest \in Seq(JobSet) /\ ReadingsOf(rest) = reads
    <3>1. ReadingsOf(b) \cup ReadingsOf(c) = reads
      BY <2>3
    <3> HIDE DEF b, c, reads
    <3> QED BY <2>2, <3>1, ConcatType, ReadingsOfJobsConcat
  <2> HIDE DEF rest
  <2>5. CASE Term.head.tag # "global"
    <3>1. Here(r) = {} /\ Inner(r, TRUE) = {Reading(Term.head, Job.den)} \cup reads
      BY <2>0, <2>5, <1>j DEF Here, Inner, Names
    <3> HIDE DEF reads
    <3>2. Expand(a \o rest)
      BY <1>8, <2>5 DEF Spine, rest
    <3> DEFINE new == a \o rest
    <3> HIDE DEF a
    <3>3. new \in Seq(JobSet) /\ ReadingsOf(new) = Inner(r, TRUE)
      <4>1. new \in Seq(JobSet) /\ ReadingsOf(new) = ReadingsOf(a) \cup ReadingsOf(rest)
        BY <2>2, <2>4, ConcatType, ReadingsOfJobsConcat
      <4> HIDE DEF new, r
      <4> QED BY <2>3, <2>4, <3>1, <4>1
    <3>4. Expand(new)
      BY <3>2
    <3> HIDE DEF new
    <3> QED BY <2>0, <3>1, <3>3, <3>4, ExpandCovers
  <2>6. CASE Term.head.tag = "global"
    <3>1. Inner(r, TRUE) = reads /\ (Term.head.name \notin Group => Here(r) = {})
      BY <2>0, <2>6, <1>j DEF Here, Inner, Names
    <3> HIDE DEF reads
    <3>2. CASE Term.head.name \notin Group
      <4>1. Expand(rest)
        BY <1>8, <2>6, <3>2 DEF Spine, rest
      <4> QED BY <2>0, <2>4, <3>1, <3>2, <4>1, ExpandCovers
    <3>3. CASE Term.head.name \in Group /\ ~Guarded(Job, Term.args)
      BY <1>8, <1>c, <2>6, <3>3 DEF Spine
    <3>4. CASE Term.head.name \in Group /\ Guarded(Job, Term.args)
      <4> DEFINE call == [callee |-> Term.head.name, chain |-> Job.chain,
                          den |-> Den(Job, Term.args[k + 1].var)]
      <4>1. /\ calls' = Append(calls, call) /\ jobs' = rest \o Tail(jobs)
            /\ UNCHANGED <<members, k, at, rows, phase>>
        BY <1>8, <2>6, <3>4 DEF Spine, rest
      <4>2. call.callee = Term.head.name
        OBVIOUS
      <4>3. calls \in Seq(CallSet)
        <5>1. calls \in Seq(GoodCalls(k)) /\ GoodCalls(k) \subseteq CallSet
          BY DEF IInv, GoodCalls
        <5> QED BY <5>1
      <4> HIDE DEF call
      <4> QED BY <2>0, <2>4, <2>6, <3>1, <3>4, <4>1, <4>2, <4>3, CallCovers
    <3> QED BY <3>2, <3>3, <3>4
  <2> QED BY <2>5, <2>6
<1>9. CASE NextMember
  BY <1>9, NextMemberCovers
<1>10. CASE Retry
  <2>1. CASE InBound(k + 1)
    <3> DEFINE n == k + 1
    <3>1. n \in Nat /\ members' = members /\ at' = 1 /\ jobs' = <<First(1, n)>> /\ calls' = << >>
          /\ rows' = << >> /\ phase' = "walk"
      BY <1>0, <1>10, <2>1 DEF Retry
    <3> HIDE DEF n
    <3> QED BY <3>1, <1>a
  <2>2. CASE ~InBound(k + 1)
    BY <1>10, <1>b, <2>2 DEF Retry
  <2> QED BY <2>1, <2>2
<1>11. CASE Translate
  <2>1. /\ members' = members /\ k' = k /\ rows' = rows /\ phase = "certified"
        /\ phase' \in {"granted", "refused"} /\ Len(rows) = Size /\ RowsDone
    BY <1>11 DEF Translate, CertInv
  <2>2. RowsDone'
    BY <2>1 DEF RowsDone, MemberDone, HeldCallees, Held, Env
  <2> QED BY <2>1, <2>2 DEF CertInv
<1>12. CASE UNCHANGED vars
  <2>1. /\ members' = members /\ k' = k /\ rows' = rows /\ at' = at /\ jobs' = jobs
        /\ calls' = calls /\ phase' = phase
    BY <1>12 DEF vars
  <2>2. Calling' = Calling
    BY <2>1 DEF Calling, InBody
  <2> QED BY <2>1, <2>2 DEF CertInv, WalkCovers, RowsDone, MemberDone, HeldCallees, Held, Env,
                            Pending, Covered
<1> HIDE DEF r
<1> QED BY <1>1, <1>2, <1>3, <1>4, <1>5, <1>6, <1>7, <1>8, <1>9, <1>10, <1>11, <1>12 DEF Next

LEMMA CertInvRight == IInv /\ CertInv => CertificateRight
<1> SUFFICES ASSUME IInv, CertInv PROVE CertificateRight
  OBVIOUS
<1>1. ASSUME phase = "plain", NEW m \in Group PROVE Held(m, TRUE) = {}
  <2>1. InBody = {}
    BY <1>1 DEF CertInv, Calling
  <2>2. InBody = {n \in Group : Held(n, TRUE) # {}}
    BY InBodyHolds DEF IInv
  <2> QED BY <2>1, <2>2
<1>2. ASSUME phase \in {"certified", "granted"}
      PROVE  /\ Fits(k, TRUE)
             /\ \A m \in Group : {o.callee : o \in Held(m, TRUE)}
                                   = {rows[m][i].callee : i \in DOMAIN rows[m]}
  <2>1. \A m \in Group : MemberDone(m)
    BY <1>2 DEF CertInv, RowsDone, Group
  <2> QED BY <2>1 DEF MemberDone, Fits, Callees, HeldCallees
<1> QED BY <1>1, <1>2 DEF CertificateRight

\* A group is certified at a position only when every occurrence of a member
\* in every body, however deep, is a call that passes a proper part of that
\* argument, and the rows hold the calls.
THEOREM AlwaysCertificateRight == Spec => []CertificateRight
<1>1. Init => IInv /\ CertInv
  BY InitIInv, InitCertInv
<1>2. IInv /\ CertInv /\ [Next]_vars => (IInv /\ CertInv)'
  BY NextIInv, NextCertInv
<1>3. IInv /\ CertInv => CertificateRight
  BY CertInvRight
<1> QED BY <1>1, <1>2, <1>3, PTL DEF Spec

-----------------------------------------------------------------------------
(***************************************************************************)
(* The first fit.  Where a let's variable stands for nothing, a status is  *)
(* all that the reference knows of a binder: a walk that gives up has met  *)
(* an occurrence that does not decrease.                                   *)
(***************************************************************************)
StatusOf(pos, d) ==
  IF d.root # pos THEN "other" ELSE IF d.below = 0 THEN "principal" ELSE "smaller"

\* env is what the binders in a job's scope stand for.
Traced(pos, j, env) ==
  /\ env \in Seq(Denotations) /\ Len(env) = Len(j.st)
  /\ \A ix \in Nat : StatusAt(j, ix) = StatusOf(pos, EnvAt(env, ix))

HeldBy(H) == {r \in Readings : Occurrences(FALSE)[r] \subseteq H}
TracedJobs(pos, H) ==
  {j \in GoodJobs(pos) : \E env : Traced(pos, j, env) /\ Reading(j.term, env) \in HeldBy(H)}

\* The positions are searched because some body mentions the group; none is
\* left that every such member has.
Searching == {"walk", "retry", "certified", "granted", "refused"}
SearchEnds ==
  IF InBody = {} THEN Calling # {} ELSE \A pos \in Nat : InBound(pos) => ~Fits(pos, FALSE)

FitInv ==
  /\ \A pos \in 0 .. k - 1 : ~Fits(pos, FALSE)
  /\ phase \in Searching => InBody # {}
  /\ phase = "walk" => at \in Group /\ jobs \in Seq(TracedJobs(k, Held(at, FALSE)))
  /\ phase = "retry" => ~Fits(k, FALSE)
  /\ phase = "unfit" => SearchEnds

\* What a body holds, its inner readings hold.
LEMMA InnerHeldBy ==
  ASSUME NEW H, NEW r \in HeldBy(H)
  PROVE  Inner(r, FALSE) \subseteq HeldBy(H) /\ Here(r) \subseteq H
<1>1. r \in Readings /\ Occurrences(FALSE)[r] \subseteq H
  BY DEF HeldBy
<1>2. Inner(r, FALSE) \subseteq Readings
  BY <1>1, InnerType
<1>3. Occurrences(FALSE)[r] = Here(r) \cup UNION {Occurrences(FALSE)[u] : u \in Inner(r, FALSE)}
  BY <1>1, OccurrencesIn
<1> QED BY <1>1, <1>2, <1>3 DEF HeldBy

LEMMA StatusConcat ==
  ASSUME NEW a \in Seq(Status), NEW b \in Seq(Status)
  PROVE  /\ Len(a \o b) = Len(a) + Len(b)
         /\ \A i \in 1 .. Len(a) : (a \o b)[i] = a[i]
         /\ \A i \in 1 .. Len(b) : (a \o b)[Len(a) + i] = b[i]
BY ConcatType

LEMMA DenConcat ==
  ASSUME NEW a \in Seq(Denotations), NEW b \in Seq(Denotations)
  PROVE  /\ a \o b \in Seq(Denotations) /\ Len(a \o b) = Len(a) + Len(b)
         /\ \A i \in 1 .. Len(a) : (a \o b)[i] = a[i]
         /\ \A i \in 1 .. Len(b) : (a \o b)[Len(a) + i] = b[i]
BY ConcatType

\* New binders shift the status and what it is the status of.
LEMMA TracedUnder ==
  ASSUME NEW pos \in Nat, NEW j \in JobSet, NEW env, Traced(pos, j, env),
         NEW d \in Denotations, NEW s \in Status, s = StatusOf(pos, d), NEW n \in Nat, NEW t
  PROVE  Traced(pos, Under(j, s, d, n, t), env \o Copies(d, n))
<1> DEFINE u == Under(j, s, d, n, t)
           new == env \o Copies(d, n)
           L == Len(env)
<1>1. /\ j.st \in Seq(Status) /\ env \in Seq(Denotations) /\ Len(j.st) = L /\ L \in Nat
      /\ \A ix \in Nat : StatusAt(j, ix) = StatusOf(pos, EnvAt(env, ix))
  BY DEF Traced, JobSet
<1>2. /\ Copies(s, n) \in Seq(Status) /\ Len(Copies(s, n)) = n
      /\ \A i \in 1 .. n : Copies(s, n)[i] = s
      /\ Copies(d, n) \in Seq(Denotations) /\ Len(Copies(d, n)) = n
      /\ \A i \in 1 .. n : Copies(d, n)[i] = d
  BY CopiesType
<1>3. /\ Len(u.st) = n + L
      /\ \A i \in 1 .. n : u.st[i] = s
      /\ \A i \in 1 .. L : u.st[n + i] = j.st[i]
  <2> DEFINE a == Copies(s, n)
             b == j.st
  <2>1. a \in Seq(Status) /\ b \in Seq(Status) /\ u.st = a \o b /\ Len(a) = n /\ Len(b) = L
        /\ \A i \in 1 .. n : a[i] = s
    BY <1>1, <1>2 DEF Under
  <2> HIDE DEF a, b, u, L
  <2>2. /\ Len(a \o b) = Len(a) + Len(b)
        /\ \A i \in 1 .. Len(a) : (a \o b)[i] = a[i]
        /\ \A i \in 1 .. Len(b) : (a \o b)[Len(a) + i] = b[i]
    BY <2>1, StatusConcat
  <2>3. /\ Len(u.st) = n + L
        /\ \A i \in 1 .. n : u.st[i] = s
        /\ \A i \in 1 .. L : u.st[n + i] = b[i]
    BY <2>1, <2>2
  <2> QED BY <2>3 DEF b
<1>4. /\ new \in Seq(Denotations) /\ Len(new) = n + L
      /\ \A i \in 1 .. L : new[i] = env[i]
      /\ \A i \in 1 .. n : new[L + i] = d
  <2> DEFINE a == Copies(d, n)
  <2>1. a \in Seq(Denotations) /\ Len(a) = n /\ \A i \in 1 .. n : a[i] = d
    BY <1>2
  <2> HIDE DEF a
  <2>2. /\ env \o a \in Seq(Denotations) /\ Len(env \o a) = Len(env) + Len(a)
        /\ \A i \in 1 .. Len(env) : (env \o a)[i] = env[i]
        /\ \A i \in 1 .. Len(a) : (env \o a)[Len(env) + i] = a[i]
    BY <1>1, <2>1, DenConcat
  <2>3. new = env \o a
    BY DEF a
  <2> HIDE DEF new
  <2> QED BY <1>1, <2>1, <2>2, <2>3
<1> HIDE DEF u, new, L
<1> DEFINE W == n + L
<1>l. Len(u.st) = W /\ Len(new) = W /\ W \in Nat /\ W = n + L /\ L \in Nat
  BY <1>1, <1>3, <1>4
<1> HIDE DEF W
<1>5. ASSUME NEW ix \in Nat PROVE StatusAt(u, ix) = StatusOf(pos, EnvAt(new, ix))
  <2>1. CASE ix < n
    <3> DEFINE i == ix + 1
               o == n - ix
    <3>1. i \in 1 .. n /\ o \in 1 .. n /\ W - ix = L + o /\ ix < W
      BY <1>l, <2>1
    <3>2. StatusAt(u, ix) = u.st[i] /\ EnvAt(new, ix) = new[W - ix]
      BY <1>l, <3>1 DEF StatusAt, EnvAt
    <3> HIDE DEF i, o
    <3>3. StatusAt(u, ix) = s /\ EnvAt(new, ix) = d
      BY <1>3, <1>4, <3>1, <3>2
    <3> QED BY <3>3
  <2>2. CASE ~(ix < n)
    <3> DEFINE old == ix - n
    <3>1. old \in Nat /\ ix = n + old
      BY <2>2
    <3> HIDE DEF old
    <3>2. StatusAt(u, ix) = StatusAt(j, old) /\ EnvAt(new, ix) = EnvAt(env, old)
      <4>1. CASE old < L
        <5> DEFINE i == old + 1
                   o == L - old
        <5>1. /\ i \in 1 .. L /\ o \in 1 .. L /\ ix < W
              /\ ix + 1 = n + i /\ W - ix = o
          BY <1>l, <3>1, <4>1
        <5>2. StatusAt(j, old) = j.st[i] /\ EnvAt(env, old) = env[o]
          BY <1>1, <4>1 DEF StatusAt, EnvAt, L
        <5> HIDE DEF i, o
        <5>3. StatusAt(u, ix) = u.st[n + i] /\ EnvAt(new, ix) = new[o]
          BY <1>l, <5>1 DEF StatusAt, EnvAt
        <5> QED BY <1>3, <1>4, <5>1, <5>2, <5>3
      <4>2. CASE ~(old < L)
        <5>1. ~(ix < W)
          BY <1>l, <3>1, <4>2
        <5> QED BY <1>1, <1>l, <4>2, <5>1 DEF StatusAt, EnvAt, L
      <4> QED BY <4>1, <4>2
    <3> QED BY <1>1, <3>1, <3>2
  <2> QED BY <2>1, <2>2
<1>6. Traced(pos, u, new)
  BY <1>3, <1>4, <1>5 DEF Traced
<1> QED BY <1>6 DEF u, new

LEMMA TracedVisit ==
  ASSUME NEW pos \in Nat, NEW j \in GoodJobs(pos), NEW env, Traced(pos, j, env), NEW H,
         NEW t \in Trees, Reading(t, env) \in HeldBy(H)
  PROVE  Visit(j, t) \in TracedJobs(pos, H)
<1>1. Visit(j, t) \in GoodJobs(pos)
  BY VisitGood
<1>2. Visit(j, t).term = t /\ Visit(j, t).st = j.st
  BY DEF Visit, GoodJobs, JobSet
<1>3. Traced(pos, Visit(j, t), env)
  BY <1>2 DEF Traced, StatusAt
<1> QED BY <1>1, <1>2, <1>3 DEF TracedJobs

LEMMA TracedVisits ==
  ASSUME NEW pos \in Nat, NEW j \in GoodJobs(pos), NEW env, Traced(pos, j, env), NEW H,
         NEW ts \in Seq(Trees), {Reading(ts[i], env) : i \in DOMAIN ts} \subseteq HeldBy(H)
  PROVE  Visits(j, ts) \in Seq(TracedJobs(pos, H))
<1>1. \A i \in 1 .. Len(ts) : Visit(j, ts[i]) \in TracedJobs(pos, H)
  BY TracedVisit
<1> QED BY <1>1 DEF Visits

LEMMA TracedParts ==
  ASSUME NEW pos \in Nat, NEW j \in GoodJobs(pos), NEW env, Traced(pos, j, env), NEW H,
         NEW ps \in Seq(Scopes), InParts(env, Unknown, ps) \subseteq HeldBy(H)
  PROVE  Parts(j, ps) \in Seq(TracedJobs(pos, H))
<1>1. Unknown \in Denotations /\ "other" \in Status /\ "other" = StatusOf(pos, Unknown)
  BY DEF Unknown, Denotations, Status, StatusOf
<1>2. Parts(j, ps) \in Seq(GoodJobs(pos)) /\ j \in JobSet
  BY PartsGood DEF GoodJobs
<1>3. ASSUME NEW i \in 1 .. Len(ps)
      PROVE  Under(j, "other", Unknown, ps[i].binders, ps[i].term) \in TracedJobs(pos, H)
  <2> DEFINE n == ps[i].binders
             t == ps[i].term
             u == Under(j, "other", Unknown, n, t)
  <2>1. n \in Nat /\ t \in Trees
    <3>1. ps[i] \in Scopes
      OBVIOUS
    <3> QED BY <3>1 DEF Scopes
  <2>2. u \in GoodJobs(pos)
    <3>1. Parts(j, ps)[i] \in GoodJobs(pos)
      BY <1>2 DEF Parts
    <3> QED BY <3>1 DEF Parts
  <2>3. Reading(t, env \o Copies(Unknown, n)) \in HeldBy(H)
    BY DEF InParts
  <2>4. u.term = t
    BY DEF Under
  <2> HIDE DEF n, t, u
  <2>5. Traced(pos, Under(j, "other", Unknown, n, t), env \o Copies(Unknown, n))
    BY <1>1, <1>2, <2>1, TracedUnder
  <2>6. Traced(pos, u, env \o Copies(Unknown, n))
    BY <2>5 DEF u
  <2> QED BY <2>2, <2>3, <2>4, <2>6 DEF TracedJobs, u, n, t
<1> QED BY <1>3 DEF Parts

LEMMA TracedLetBody ==
  ASSUME NEW pos \in Nat, NEW j \in GoodJobs(pos), NEW env, Traced(pos, j, env), NEW H,
         NEW t \in Trees, t.tag = "let",
         Reading(t.body, env \o Copies(Unknown, 1)) \in HeldBy(H)
  PROVE  LetBody(j, t) \in TracedJobs(pos, H)
<1> DEFINE d == IF t.value.tag = "var" THEN Den(j, t.value.var) ELSE Unknown
           u == LetBody(j, t)
           flat == Under(j, "other", Unknown, 1, t.body)
<1>1. Unknown \in Denotations /\ "other" \in Status /\ "other" = StatusOf(pos, Unknown)
  BY DEF Unknown, Denotations, Status, StatusOf
<1>2. u \in GoodJobs(pos) /\ j \in JobSet
  BY LetBodyGood DEF GoodJobs
<1>3. Traced(pos, flat, env \o Copies(Unknown, 1))
  BY <1>1, <1>2, TracedUnder
<1>4. u.term = t.body /\ u.st = flat.st
  BY DEF LetBody, Under
<1> HIDE DEF u, flat
<1>5. Traced(pos, u, env \o Copies(Unknown, 1))
  BY <1>3, <1>4 DEF Traced, StatusAt
<1>6. u \in TracedJobs(pos, H)
  BY <1>2, <1>4, <1>5 DEF TracedJobs
<1> QED BY <1>6 DEF u

\* A branch of an elimination of a special variable binds smaller ones in both.
LEMMA TracedBranches ==
  ASSUME NEW pos \in Nat, NEW j \in GoodJobs(pos), NEW env, Traced(pos, j, env), NEW H,
         NEW e \in Trees, e.tag = "elim",
         InParts(env, PartOf(env, e.scrut), e.branches) \subseteq HeldBy(H)
  PROVE  Branches(j, e) \in Seq(TracedJobs(pos, H))
<1> DEFINE bs == e.branches
           d == PartOf(env, e.scrut)
           s == BranchStatus(j, e)
<1>1. /\ bs \in Seq(Arms) /\ e.scrut \in Trees /\ (e.scrut.tag = "var" => e.scrut.var \in Nat)
      /\ env \in Seq(Denotations) /\ j \in JobSet
  BY TreeForms DEF Traced, GoodJobs
<1>2. d \in Denotations
  <2>1. Unknown \in Denotations
    BY DEF Unknown, Denotations
  <2> QED BY <1>1, <2>1, EnvAtType, PartType DEF PartOf
<1>3. s \in Status /\ s = StatusOf(pos, d)
  <2>1. CASE e.scrut.tag = "var"
    <3> DEFINE x == EnvAt(env, e.scrut.var)
    <3>1. x \in Denotations /\ StatusAt(j, e.scrut.var) = StatusOf(pos, x)
      BY <1>1, <2>1, EnvAtType DEF Traced
    <3>2. d = Part(x) /\ s = IF StatusAt(j, e.scrut.var) \in {"principal", "smaller"}
                             THEN "smaller" ELSE "other"
      BY <2>1 DEF PartOf, BranchStatus, OfSpecial, Special, Scrut
    <3> HIDE DEF x, d, s
    <3>3. CASE x.root = pos
      <4>1. x # Unknown /\ d = [root |-> pos, below |-> x.below + 1] /\ x.below \in Nat
        BY <3>1, <3>2, <3>3 DEF Unknown, Part, Denotations
      <4>2. s = "smaller"
        BY <3>1, <3>2, <3>3 DEF StatusOf
      <4> QED BY <4>1, <4>2 DEF StatusOf, Status
    <3>4. CASE x.root # pos
      <4>1. d.root # pos
        BY <3>2, <3>4 DEF Part
      <4>2. s = "other"
        BY <3>1, <3>2, <3>4 DEF StatusOf
      <4> QED BY <4>1, <4>2 DEF StatusOf, Status
    <3> QED BY <3>3, <3>4
  <2>2. CASE e.scrut.tag # "var"
    BY <2>2 DEF PartOf, BranchStatus, OfSpecial, Scrut, StatusOf, Status, Unknown
  <2> QED BY <2>1, <2>2
<1>4. Branches(j, e) \in Seq(GoodJobs(pos)) /\ DOMAIN Branches(j, e) = DOMAIN bs
      /\ \A i \in DOMAIN bs : Branches(j, e)[i] = Branch(j, e, bs[i])
  BY BranchesGood DEF Branches
<1> HIDE DEF bs, d, s
<1>5. ASSUME NEW i \in DOMAIN bs PROVE Branch(j, e, bs[i]) \in TracedJobs(pos, H)
  <2> DEFINE n == bs[i].binders
             t == bs[i].term
             dd == BranchDen(j, e)
             jc == [j EXCEPT !.chain = ChainAt(j, e, bs[i])]
             u == Branch(j, e, bs[i])
             flat == Under(j, s, d, n, t)
  <2>1. n \in Nat /\ t \in Trees
    <3>1. bs[i] \in Arms
      BY <1>1
    <3> QED BY <3>1 DEF Arms
  <2>2. u \in GoodJobs(pos)
    BY <1>4
  <2>3. Reading(t, env \o Copies(d, n)) \in HeldBy(H)
    BY DEF InParts, bs, d
  <2>4. jc.st = j.st
    BY <1>1 DEF JobSet
  <2>5. u.term = t /\ u.st = flat.st
    <3>1. u = Under(jc, s, dd, n, t)
      BY DEF Branch, s
    <3> HIDE DEF u, jc
    <3> QED BY <2>4, <3>1 DEF Under
  <2> HIDE DEF n, t, u
  <2>6. Traced(pos, Under(j, s, d, n, t), env \o Copies(d, n))
    BY <1>1, <1>2, <1>3, <2>1, TracedUnder
  <2>7. Traced(pos, u, env \o Copies(d, n))
    BY <2>5, <2>6 DEF Traced, StatusAt
  <2>8. u \in TracedJobs(pos, H)
    BY <2>2, <2>3, <2>5, <2>7 DEF TracedJobs
  <2> QED BY <2>8 DEF u
<1> QED BY <1>1, <1>4, <1>5

\* A walk starts with the formals, in both.
LEMMA TracedFirst ==
  ASSUME NEW pos \in Nat, members \in [Group -> Bodies], NEW m \in Group
  PROVE  First(m, pos) \in TracedJobs(pos, Held(m, FALSE))
<1> DEFINE n == members[m].formals
           j == First(m, pos)
           env == Env(m)
<1>1. n \in Nat /\ members[m].body \in Trees
  BY BodiesAssumption
<1>2. j \in GoodJobs(pos) /\ j.term = members[m].body /\ j.st = Seed(n, pos)
  BY FirstGood DEF First
<1>3. env \in Seq(Denotations) /\ Len(env) = n /\ \A i \in 1 .. n : env[i] = Formal(i - 1)
  <2>1. \A i \in 1 .. n : Formal(i - 1) \in Denotations
    BY <1>1 DEF Formal, Denotations
  <2>2. env = [i \in 1 .. n |-> Formal(i - 1)]
    BY DEF Env
  <2> HIDE DEF env, n
  <2> QED BY <1>1, <2>1, <2>2
<1>4. Len(j.st) = n
      /\ \A i \in 1 .. n : j.st[i] = IF i - 1 = n - 1 - pos THEN "principal" ELSE "other"
  <2>1. j.st = [i \in 1 .. n |-> IF i - 1 = n - 1 - pos THEN "principal" ELSE "other"]
    BY <1>2 DEF Seed
  <2> HIDE DEF j, n
  <2> QED BY <1>1, <2>1
<1> HIDE DEF n, j, env
<1>5. ASSUME NEW ix \in Nat PROVE StatusAt(j, ix) = StatusOf(pos, EnvAt(env, ix))
  <2>1. CASE ix < n
    <3>1. n - ix \in 1 .. n /\ ix + 1 \in 1 .. n /\ (ix + 1) - 1 = ix
      BY <1>1, <2>1
    <3>2. EnvAt(env, ix) = Formal(n - ix - 1)
      BY <1>3, <2>1, <3>1 DEF EnvAt
    <3>3. StatusAt(j, ix) = IF ix = n - 1 - pos THEN "principal" ELSE "other"
      BY <1>4, <2>1, <3>1 DEF StatusAt
    <3>4. n - ix - 1 = pos <=> ix = n - 1 - pos
      BY <1>1
    <3> QED BY <3>2, <3>3, <3>4 DEF StatusOf, Formal
  <2>2. CASE ~(ix < n)
    BY <1>3, <1>4, <2>2 DEF StatusAt, EnvAt, StatusOf, Unknown
  <2> QED BY <2>1, <2>2
<1>6. Traced(pos, j, env)
  BY <1>3, <1>4, <1>5 DEF Traced
<1>7. Reading(j.term, env) \in HeldBy(Held(m, FALSE))
  BY <1>1, <1>2, <1>3 DEF HeldBy, Held, Reading, Readings, env
<1>8. j \in TracedJobs(pos, Held(m, FALSE))
  BY <1>2, <1>6, <1>7 DEF TracedJobs
<1> QED BY <1>8 DEF j

LEMMA InitFitInv == Init => FitInv
BY DEF Init, FitInv, Searching

\* A step that stays in the member.
LEMMA ExpandFits ==
  ASSUME IInv, FitInv, Walking, NEW new \in Seq(TracedJobs(k, Held(at, FALSE))),
         jobs' = new \o Tail(jobs), UNCHANGED <<members, k, at, phase>>
  PROVE  FitInv'
<1> DEFINE T == TracedJobs(k, Held(at, FALSE))
           t == Tail(jobs)
<1>1. /\ phase = "walk" /\ jobs \in Seq(T) /\ at \in Group /\ jobs # << >> /\ new \in Seq(T)
      /\ InBody # {}
  BY DEF Walking, FitInv, Searching
<1>2. t \in Seq(T) /\ new \in Seq(T)
  <2> HIDE DEF T
  <2> QED BY <1>1
<1>3. /\ Held(at, FALSE)' = Held(at, FALSE) /\ \A pos : Fits(pos, FALSE)' = Fits(pos, FALSE)
      /\ InBody' = InBody
  BY DEF Held, Env, Fits, InBody
<1>4. jobs' \in Seq(T)
  <2> HIDE DEF T, t
  <2>1. new \o t \in Seq(T)
    BY <1>2
  <2> QED BY <2>1 DEF t
<1>5. TracedJobs(k, Held(at, FALSE))' = T
  BY <1>3
<1> HIDE DEF T
<1> QED BY <1>1, <1>3, <1>4, <1>5 DEF FitInv

\* The reading of the job taken, where lets stand for nothing.
LEMMA JobTraced ==
  ASSUME IInv, FitInv, Walking
  PROVE  \E env : /\ Traced(k, Job, env)
                  /\ Reading(Term, env) \in HeldBy(Held(at, FALSE))
<1> DEFINE T == TracedJobs(k, Held(at, FALSE))
<1>1. jobs \in Seq(T) /\ jobs # << >>
  BY DEF Walking, FitInv
<1>2. Job \in T
  <2> HIDE DEF T
  <2> QED BY <1>1 DEF Job
<1> QED BY <1>2 DEF TracedJobs, Term

\* A walk that gives up has an occurrence that does not decrease.
LEMMA GiveUpFits ==
  ASSUME IInv, FitInv, Walking, GiveUp, NEW env, Reading(Term, env) \in HeldBy(Held(at, FALSE)),
         NEW o \in Here(Reading(Term, env)), ~Decreases(o, k)
  PROVE  FitInv'
<1>1. at \in Group /\ o \in Held(at, FALSE)
  BY InnerHeldBy DEF FitInv, Walking
<1>2. ~Fits(k, FALSE)
  BY <1>1 DEF Fits
<1>3. InBody' = InBody /\ \A pos : Fits(pos, FALSE)' = Fits(pos, FALSE)
  BY DEF GiveUp, Held, Env, Fits, InBody
<1>4. InBody # {}
  BY DEF FitInv, Walking, Searching
<1> QED BY <1>2, <1>3, <1>4 DEF GiveUp, FitInv

LEMMA StartFits ==
  ASSUME IInv, NEW m \in Group, NEW pos \in Nat, members' = members, k' = pos, at' = m, InBody # {},
         jobs' = <<First(m, pos)>>, phase' = "walk", \A p \in 0 .. pos - 1 : ~Fits(p, FALSE)
  PROVE  FitInv'
<1>1. First(m, pos) \in TracedJobs(pos, Held(m, FALSE))
  BY TracedFirst DEF IInv
<1>2. /\ Held(m, FALSE)' = Held(m, FALSE) /\ \A p : Fits(p, FALSE)' = Fits(p, FALSE)
      /\ InBody' # {}
  BY DEF Held, Env, Fits, InBody
<1> DEFINE T == TracedJobs(pos, Held(m, FALSE))
<1>3. TracedJobs(k, Held(at, FALSE))' = T
  BY <1>2 DEF Held, Env
<1>4. jobs' \in Seq(T)
  <2>1. First(m, pos) \in T
    BY <1>1
  <2> HIDE DEF T
  <2> QED BY <2>1
<1> HIDE DEF T
<1>5. \A p \in 0 .. k' - 1 : ~Fits(p, FALSE)'
  BY <1>2
<1> QED BY <1>2, <1>3, <1>4, <1>5 DEF FitInv

\* An occurrence that a spine is decreases exactly when the walk finds it guarded.
LEMMA SpineFits ==
  ASSUME IInv, FitInv, Walking, GiveUp, Term.tag = "spine", Term.head.tag = "global",
         Term.head.name \in Group, ~Guarded(Job, Term.args)
  PROVE  FitInv'
<1>0. Job \in GoodJobs(k) /\ Term \in Trees /\ k \in Nat
  BY JobFacts DEF IInv
<1>1. PICK env : Traced(k, Job, env) /\ Reading(Term, env) \in HeldBy(Held(at, FALSE))
  BY JobTraced
<1> DEFINE pa == Passed(env, Term.args)
           o == [callee |-> Term.head.name, passed |-> pa]
           a == Term.args[k + 1]
<1>2. o \in Here(Reading(Term, env))
  BY DEF Here, Reading, Names
<1>3. Term.args \in Seq(Trees)
  BY <1>0, TreeForms
<1>4. Len(pa) = Len(Term.args)
  <2>1. pa = [i \in 1 .. Len(Term.args) |-> pa[i]] /\ Len(Term.args) \in Nat
    BY <1>3 DEF Passed
  <2> HIDE DEF pa
  <2> QED BY <2>1
<1>5. ASSUME k < Len(Term.args), pa[k + 1].root = k, pa[k + 1].below > 0
      PROVE  FALSE
  <2>1. k + 1 \in DOMAIN Term.args /\ a \in Trees
    BY <1>0, <1>3, <1>5
  <2>2. CASE a.tag = "var"
    <3>1. a.var \in Nat
      BY <2>1, <2>2, TreeForms
    <3>2. pa[k + 1] = EnvAt(env, a.var)
      BY <2>1, <2>2 DEF Passed
    <3>3. EnvAt(env, a.var) \in Denotations
      BY <1>1, <3>1, EnvAtType DEF Traced
    <3>4. StatusAt(Job, a.var) = StatusOf(k, EnvAt(env, a.var))
      BY <1>1, <3>1 DEF Traced
    <3>5. StatusAt(Job, a.var) = "smaller"
      <4> DEFINE x == EnvAt(env, a.var)
      <4>1. x.root = k /\ x.below > 0 /\ x.below \in Nat /\ StatusAt(Job, a.var) = StatusOf(k, x)
        BY <1>5, <3>2, <3>3, <3>4 DEF Denotations
      <4> HIDE DEF x
      <4> QED BY <4>1 DEF StatusOf
    <3> QED BY <1>5, <2>2, <3>5 DEF Guarded
  <2>3. CASE a.tag # "var"
    <3>1. pa[k + 1] = Unknown
      BY <2>1, <2>3 DEF Passed
    <3> QED BY <1>0, <1>5, <3>1 DEF Unknown
  <2> QED BY <2>2, <2>3
<1>6. ~Decreases(o, k)
  <2>1. o.passed = pa
    OBVIOUS
  <2> HIDE DEF o, pa
  <2> QED BY <1>4, <1>5, <2>1 DEF Decreases
<1> HIDE DEF o
<1> QED BY <1>1, <1>2, <1>6, GiveUpFits

LEMMA NextFitInv == IInv /\ FitInv /\ [Next]_vars => FitInv'
<1> SUFFICES ASSUME IInv, FitInv, [Next]_vars PROVE FitInv'
  OBVIOUS
<1>0. k \in Nat /\ 1 \in Group
  BY SizeAssumption DEF Group, IInv
<1> DEFINE H == Held(at, FALSE)
           T == TracedJobs(k, H)
<1>e. ASSUME Walking, NEW new \in Seq(T), Expand(new)
      PROVE  FitInv'
  BY <1>e, ExpandFits DEF Expand
<1>f. << >> \in Seq(T)
  OBVIOUS
<1>j. ASSUME Walking PROVE Job \in GoodJobs(k) /\ Term \in Trees
  BY <1>j, JobFacts
<1>s. ASSUME members' = members
      PROVE  /\ \A pos : Fits(pos, FALSE)' = Fits(pos, FALSE) /\ InBound(pos)' = InBound(pos)
             /\ Calling' = Calling /\ InBody' = InBody /\ SearchEnds' = SearchEnds
  <2>1. Calling' = Calling /\ InBody' = InBody
    BY <1>s DEF Calling, InBody
  <2>2. \A pos : Fits(pos, FALSE)' = Fits(pos, FALSE)
    BY <1>s DEF Held, Env, Fits
  <2>3. \A pos : InBound(pos)' = InBound(pos)
    BY <1>s, <2>1 DEF InBound
  <2> QED BY <2>1, <2>2, <2>3 DEF SearchEnds
<1>n. ASSUME NEW m \in InBody PROVE m \in Group /\ members[m].formals \in Nat
  BY <1>n, FirstReading DEF InBody, IInv
<1>1. CASE Certify
  <2>0. k = 0 /\ k' = 0 /\ members' = members
    BY <1>1 DEF Certify, IInv
  <2>1. CASE phase' = "plain"
    BY <1>s, <2>0, <2>1 DEF FitInv, Searching
  <2>2. CASE Calling # {} /\ ~InBound(0) /\ phase' = "unfit"
    <3>1. ASSUME InBody # {}, NEW pos \in Nat PROVE ~InBound(pos)
      <4>1. PICK m \in InBody : ~(0 < members[m].formals)
        BY <2>2, <3>1 DEF InBound
      <4>2. ~(pos < members[m].formals)
        BY <1>n, <4>1
      <4> QED BY <4>1, <4>2 DEF InBound
    <3>2. SearchEnds
      BY <2>2, <3>1 DEF SearchEnds
    <3> QED BY <1>s, <2>0, <2>2, <3>2 DEF FitInv, Searching
  <2>3. CASE InBound(0) /\ phase' = "walk" /\ at' = 1 /\ jobs' = <<First(1, 0)>>
    <3> DEFINE m == 1
               z == 0
    <3>1. m \in Group /\ z \in Nat /\ k' = z /\ at' = m /\ jobs' = <<First(m, z)>>
          /\ InBody # {} /\ \A p \in 0 .. z - 1 : ~Fits(p, FALSE)
      BY <1>0, <2>0, <2>3 DEF InBound
    <3> HIDE DEF m, z
    <3> QED BY <2>0, <2>3, <3>1, StartFits
  <2> QED BY <1>1, <2>1, <2>2, <2>3 DEF Certify
<1>2. CASE Exhaust
  BY <1>2, <1>s DEF Exhaust, FitInv, Searching
<1>3. CASE Simple
  BY <1>3, <1>e, <1>f DEF Simple
<1>4. CASE Name
  <2>1. CASE Term.name \in Group
    <3>1. Walking /\ GiveUp /\ Term.tag = "global"
      BY <1>4, <2>1 DEF Name, Names
    <3>2. PICK env : Traced(k, Job, env) /\ Reading(Term, env) \in HeldBy(Held(at, FALSE))
      BY <3>1, JobTraced
    <3> DEFINE o == [callee |-> Term.name, passed |-> << >>]
    <3>3. o \in Here(Reading(Term, env))
      BY <2>1, <3>1 DEF Here, Reading, Names
    <3>4. ~Decreases(o, k)
      <4>1. Len(o.passed) = 0
        OBVIOUS
      <4> HIDE DEF o
      <4> QED BY <1>0, <4>1 DEF Decreases
    <3> HIDE DEF o
    <3> QED BY <3>1, <3>2, <3>3, <3>4, GiveUpFits
  <2>2. CASE Term.name \notin Group
    BY <1>4, <1>e, <1>f, <2>2 DEF Name, Names
  <2> QED BY <2>1, <2>2
<1>5. CASE Node
  <2>0. Walking /\ Term.tag = "node" /\ Expand(Parts(Job, Term.parts))
    BY <1>5 DEF Node
  <2>1. PICK env : Traced(k, Job, env) /\ Reading(Term, env) \in HeldBy(H)
    BY <2>0, JobTraced
  <2>2. InParts(env, Unknown, Term.parts) \subseteq HeldBy(H)
    <3>1. Inner(Reading(Term, env), FALSE) = InParts(env, Unknown, Term.parts)
      BY <2>0 DEF Inner, Reading
    <3> HIDE DEF H
    <3> QED BY <2>1, <3>1, InnerHeldBy
  <2>3. Parts(Job, Term.parts) \in Seq(T)
    <3>1. Term.parts \in Seq(Scopes)
      BY <2>0, <1>j, TreeForms
    <3> HIDE DEF H
    <3> QED BY <1>0, <1>j, <2>0, <2>1, <2>2, <3>1, TracedParts
  <2> QED BY <1>e, <2>0, <2>3
<1>6. CASE Let
  <2> DEFINE a == Visit(Job, Term.type)
             b == Visit(Job, Term.value)
             c == LetBody(Job, Term)
  <2>0. Walking /\ Term.tag = "let" /\ Expand(<<a, b, c>>)
    BY <1>6 DEF Let
  <2>1. PICK env : Traced(k, Job, env) /\ Reading(Term, env) \in HeldBy(H)
    BY <2>0, JobTraced
  <2>2. /\ Reading(Term.type, env) \in HeldBy(H) /\ Reading(Term.value, env) \in HeldBy(H)
        /\ Reading(Term.body, env \o Copies(Unknown, 1)) \in HeldBy(H)
    <3>1. Inner(Reading(Term, env), FALSE)
            = {Reading(Term.type, env), Reading(Term.value, env),
               Reading(Term.body, env \o Copies(Unknown, 1))}
      BY <2>0 DEF Inner, Reading, Bound
    <3> HIDE DEF H
    <3> QED BY <2>1, <3>1, InnerHeldBy
  <2>3. a \in T /\ b \in T /\ c \in T
    <3>1. Term.type \in Trees /\ Term.value \in Trees
      BY <2>0, <1>j, TreeForms
    <3> HIDE DEF H
    <3> QED BY <1>0, <1>j, <2>0, <2>1, <2>2, <3>1, TracedVisit, TracedLetBody
  <2> HIDE DEF a, b, c
  <2>4. <<a, b, c>> \in Seq(T)
    <3> HIDE DEF T
    <3> QED BY <2>3
  <2> QED BY <1>e, <2>0, <2>4
<1>7. CASE Elim
  <2> DEFINE a == <<Visit(Job, Term.scrut)>>
             b == Parts(Job, Term.parts)
             c == Parts(Job, Term.motives)
             d == Branches(Job, Term)
  <2>0. Walking /\ Term.tag = "elim" /\ Expand(a \o b \o c \o d)
    BY <1>7 DEF Elim
  <2>1. PICK env : Traced(k, Job, env) /\ Reading(Term, env) \in HeldBy(H)
    BY <2>0, JobTraced
  <2>2. /\ Reading(Term.scrut, env) \in HeldBy(H)
        /\ InParts(env, Unknown, Term.parts) \subseteq HeldBy(H)
        /\ InParts(env, Unknown, Term.motives) \subseteq HeldBy(H)
        /\ InParts(env, PartOf(env, Term.scrut), Term.branches) \subseteq HeldBy(H)
    <3>1. Inner(Reading(Term, env), FALSE)
            = {Reading(Term.scrut, env)} \cup InParts(env, Unknown, Term.parts)
              \cup InParts(env, Unknown, Term.motives)
              \cup InParts(env, PartOf(env, Term.scrut), Term.branches)
      BY <2>0 DEF Inner, Reading
    <3> HIDE DEF H
    <3>2. Inner(Reading(Term, env), FALSE) \subseteq HeldBy(H)
      BY <2>1, InnerHeldBy
    <3> QED BY <3>1, <3>2
  <2>3. a \in Seq(T) /\ b \in Seq(T) /\ c \in Seq(T) /\ d \in Seq(T)
    <3>1. Term.scrut \in Trees /\ Term.parts \in Seq(Scopes) /\ Term.motives \in Seq(Scopes)
      BY <2>0, <1>j, TreeForms
    <3> HIDE DEF H
    <3>2. Visit(Job, Term.scrut) \in T
      BY <1>0, <1>j, <2>0, <2>1, <2>2, <3>1, TracedVisit
    <3>3. b \in Seq(T) /\ c \in Seq(T)
      BY <1>0, <1>j, <2>0, <2>1, <2>2, <3>1, TracedParts
    <3>4. d \in Seq(T)
      BY <1>0, <1>j, <2>0, <2>1, <2>2, TracedBranches
    <3> HIDE DEF T
    <3> QED BY <3>2, <3>3, <3>4
  <2> HIDE DEF a, b, c, d
  <2>4. a \o b \o c \o d \in Seq(T)
    <3> HIDE DEF T
    <3> QED BY <2>3
  <2> QED BY <1>e, <2>0, <2>4
<1>8. CASE Spine
  <2> DEFINE a == <<Visit(Job, Term.head)>>
             b == Parts(Job, Term.parts)
             c == Visits(Job, Term.args)
             rest == b \o c
  <2>0. Walking /\ Term.tag = "spine"
    BY <1>8 DEF Spine
  <2>1. PICK env : Traced(k, Job, env) /\ Reading(Term, env) \in HeldBy(H)
    BY <2>0, JobTraced
  <2>2. /\ Term.head.tag # "global" => Reading(Term.head, env) \in HeldBy(H)
        /\ InParts(env, Unknown, Term.parts) \subseteq HeldBy(H)
        /\ {Reading(Term.args[i], env) : i \in DOMAIN Term.args} \subseteq HeldBy(H)
    <3>1. Inner(Reading(Term, env), FALSE)
            = InParts(env, Unknown, Term.parts)
              \cup {Reading(Term.args[i], env) : i \in DOMAIN Term.args}
              \cup (IF Term.head.tag = "global" THEN {} ELSE {Reading(Term.head, env)})
      BY <2>0 DEF Inner, Reading
    <3> HIDE DEF H
    <3>2. Inner(Reading(Term, env), FALSE) \subseteq HeldBy(H)
      BY <2>1, InnerHeldBy
    <3> QED BY <3>1, <3>2
  <2>3. Term.head \in Trees /\ Term.parts \in Seq(Scopes) /\ Term.args \in Seq(Trees)
    BY <2>0, <1>j, TreeForms
  <2>4. b \in Seq(T) /\ c \in Seq(T)
    <3> HIDE DEF H
    <3> QED BY <1>0, <1>j, <2>0, <2>1, <2>2, <2>3, TracedParts, TracedVisits
  <2>5. rest \in Seq(T)
    <3> HIDE DEF T, b, c
    <3> QED BY <2>4
  <2> HIDE DEF rest
  <2>6. CASE Term.head.tag # "global"
    <3>1. Visit(Job, Term.head) \in T
      <4> HIDE DEF H
      <4> QED BY <1>0, <1>j, <2>0, <2>1, <2>2, <2>3, <2>6, TracedVisit
    <3>2. a \o rest \in Seq(T)
      <4> HIDE DEF T
      <4> QED BY <2>5, <3>1
    <3>3. Expand(a \o rest)
      BY <1>8, <2>6 DEF Spine, rest
    <3> QED BY <1>e, <2>0, <3>2, <3>3
  <2>7. CASE Term.head.tag = "global" /\ Term.head.name \notin Group
    <3>1. Expand(rest)
      BY <1>8, <2>7 DEF Spine, rest
    <3> QED BY <1>e, <2>0, <2>5, <3>1
  <2>8. CASE Term.head.tag = "global" /\ Term.head.name \in Group /\ ~Guarded(Job, Term.args)
    <3>1. GiveUp
      BY <1>8, <2>8 DEF Spine
    <3> QED BY <2>0, <2>8, <3>1, SpineFits
  <2>9. CASE Term.head.tag = "global" /\ Term.head.name \in Group /\ Guarded(Job, Term.args)
    <3>1. jobs' = rest \o Tail(jobs) /\ UNCHANGED <<members, k, at, phase>>
      BY <1>8, <2>9 DEF Spine, rest
    <3> QED BY <2>0, <2>5, <3>1, ExpandFits
  <2> QED BY <2>6, <2>7, <2>8, <2>9
<1>9. CASE NextMember
  <2>0. /\ phase = "walk" /\ members' = members /\ k' = k
        /\ InBody # {} /\ \A pos \in 0 .. k - 1 : ~Fits(pos, FALSE)
    BY <1>9 DEF NextMember, FitInv, Searching
  <2>1. CASE at + 1 \in Group
    <3> DEFINE m == at + 1
    <3>1. m \in Group /\ at' = m /\ jobs' = <<First(m, k)>> /\ phase' = "walk"
      BY <1>9, <2>0, <2>1 DEF NextMember
    <3> HIDE DEF m
    <3> QED BY <1>0, <2>0, <3>1, StartFits
  <2>2. CASE at + 1 \notin Group
    <3>1. phase' = "certified"
      BY <1>9, <2>2 DEF NextMember
    <3> QED BY <1>s, <2>0, <3>1 DEF FitInv
  <2> QED BY <2>1, <2>2
<1>10. CASE Retry
  <2>0. members' = members /\ InBody # {} /\ \A pos \in 0 .. k : ~Fits(pos, FALSE)
    <3>1. /\ members' = members /\ InBody # {}
          /\ ~Fits(k, FALSE) /\ \A pos \in 0 .. k - 1 : ~Fits(pos, FALSE)
      BY <1>10 DEF Retry, FitInv, Searching
    <3>2. \A pos \in 0 .. k : pos = k \/ pos \in 0 .. k - 1
      BY <1>0
    <3> QED BY <3>1, <3>2
  <2>1. CASE InBound(k + 1)
    <3> DEFINE m == 1
               n == k + 1
    <3>1. m \in Group /\ n \in Nat /\ k' = n /\ at' = m /\ jobs' = <<First(m, n)>>
          /\ phase' = "walk" /\ n - 1 = k
      BY <1>0, <1>10, <2>1 DEF Retry
    <3> HIDE DEF m, n
    <3>2. \A p \in 0 .. n - 1 : ~Fits(p, FALSE)
      BY <2>0, <3>1
    <3> QED BY <2>0, <3>1, <3>2, StartFits
  <2>2. CASE ~InBound(k + 1)
    <3>1. phase' = "unfit" /\ k' = k
      BY <1>10, <2>2 DEF Retry
    <3>2. ASSUME NEW pos \in Nat, InBound(pos) PROVE ~Fits(pos, FALSE)
      <4>1. PICK m \in InBody : ~(k + 1 < members[m].formals)
        BY <2>0, <2>2 DEF InBound
      <4>2. members[m].formals \in Nat
        BY <1>n
      <4>3. pos < members[m].formals
        BY <3>2, <4>1 DEF InBound
      <4>4. pos \in 0 .. k
        BY <1>0, <4>1, <4>2, <4>3
      <4> QED BY <2>0, <4>4
    <3>3. SearchEnds
      BY <2>0, <3>2 DEF SearchEnds
    <3> QED BY <1>0, <1>s, <2>0, <3>1, <3>3 DEF FitInv, Searching
  <2> QED BY <2>1, <2>2
<1>11. CASE Translate
  <2>1. phase = "certified" /\ phase' \in {"granted", "refused"} /\ members' = members /\ k' = k
    BY <1>11 DEF Translate
  <2> QED BY <1>s, <2>1 DEF FitInv, Searching
<1>12. CASE UNCHANGED vars
  <2>1. members' = members /\ k' = k /\ at' = at /\ jobs' = jobs /\ phase' = phase
    BY <1>12 DEF vars
  <2>2. H' = H
    BY <2>1 DEF Held, Env
  <2>3. T' = T
    BY <2>1, <2>2
  <2> QED BY <1>s, <2>1, <2>3 DEF FitInv
<1> HIDE DEF H, T
<1> QED BY <1>1, <1>2, <1>3, <1>4, <1>5, <1>6, <1>7, <1>8, <1>9, <1>10, <1>11, <1>12 DEF Next

LEMMA FitInvFirst == IInv /\ FitInv => FirstFit
<1> SUFFICES ASSUME IInv, FitInv PROVE FirstFit
  OBVIOUS
<1>0. members \in [Group -> Bodies]
  BY DEF IInv
<1>1. Holders = InBody
  BY <1>0, InBodyHolds DEF Holders
<1>2. ASSUME phase = "unfit", Holders # {}, NEW m \in Group, NEW pos \in 0 .. members[m].formals - 1
      PROVE  ~Fits(pos, FALSE)
  <2>1. pos \in Nat
    OBVIOUS
  <2>2. CASE InBound(pos)
    BY <1>1, <1>2, <2>1, <2>2 DEF FitInv, SearchEnds
  <2>3. CASE ~InBound(pos)
    <3>1. PICK n \in InBody : ~(pos < members[n].formals)
      BY <1>1, <1>2, <2>3 DEF InBound
    <3>2. n \in Group /\ Held(n, FALSE) # {}
      BY <1>1 DEF Holders
    <3>3. PICK o \in Held(n, FALSE) : TRUE
      BY <3>2
    <3>4. ~Decreases(o, pos)
      BY <1>0, <2>1, <3>1, <3>2, HeldBelow
    <3> QED BY <3>2, <3>4 DEF Fits
  <2> QED BY <2>2, <2>3
<1>3. ASSUME phase = "unfit", Holders = {} PROVE \E m \in Group : members[m].types
  BY <1>1, <1>3 DEF FitInv, SearchEnds, Calling
<1>4. ASSUME phase \in {"certified", "granted"}
      PROVE  Holders # {} /\ \A pos \in 0 .. k - 1 : ~Fits(pos, FALSE)
  BY <1>1, <1>4 DEF FitInv, Searching
<1> QED BY <1>2, <1>3, <1>4 DEF FirstFit

\* The position certified is the first that fits, of a group some body calls; a
\* group refused as unfit has none, whichever were tried, unless no body calls
\* it and a formal's type mentions it.
THEOREM AlwaysFirstFit == Spec => []FirstFit
<1>1. Init => IInv /\ FitInv
  BY InitIInv, InitFitInv
<1>2. IInv /\ FitInv /\ [Next]_vars => (IInv /\ FitInv)'
  BY NextIInv, NextFitInv
<1>3. IInv /\ FitInv => FirstFit
  BY FitInvFirst
<1> QED BY <1>1, <1>2, <1>3, PTL DEF Spec
=============================================================================

----------------------------- MODULE TrieProofs -----------------------------
(***************************************************************************)
(* Map of foundation.c is a map, for keys and calls of any length and      *)
(* number: each operation changes what one key means, get answers what was *)
(* put there last, and the bindings come in order.                         *)
(***************************************************************************)
EXTENDS Trie, WellFoundedInduction, TLAPS

-----------------------------------------------------------------------------
(***************************************************************************)
(* The bindings of the nodes of a heap.                                    *)
(***************************************************************************)
Text == Seq(Nat)
CellsOf(ps) ==
  [tag : {"end"}, value : Values, rest : ps]
  \cup [tag : {"char"}, code : Nat, less : ps, same : ps, greater : ps]

\* A node's children are older than the node.
Heap(h) == h \in Seq(CellsOf(Nat)) /\ \A p \in DOMAIN h : h[p] \in CellsOf(0 .. p - 1)

LEMMA LeastOf ==
  ASSUME NEW S \in SUBSET Nat, S # {}
  PROVE  \E m \in S : \A k \in S : m <= k
<1> DEFINE below == {ss \in Nat \X Nat : ss[1] < ss[2]}
<1>1. IsWellFoundedOn(below, Nat)  BY NatLessThanWellFounded DEF OpToRel
<1>2. \A k, n \in Nat : <<k, n>> \in below <=> k < n  OBVIOUS
<1> HIDE DEF below
<1>3. PICK m \in S : \A k \in S : ~(<<k, m>> \in below)  BY <1>1, WFMin
<1>4. ASSUME NEW k \in S PROVE m <= k
  <2>1. ~(k < m)  BY <1>2, <1>3
  <2> QED  BY <2>1
<1> QED  BY <1>4

LEMMA CellForms ==
  ASSUME NEW ps, NEW c \in CellsOf(ps)
  PROVE  \/ c.tag = "end" /\ c.value \in Values /\ c.rest \in ps /\ c = End(c.value, c.rest)
         \/ /\ c.tag = "char" /\ c.code \in Nat /\ c.less \in ps /\ c.same \in ps /\ c.greater \in ps
            /\ c = Char(c.code, c.less, c.same, c.greater)
BY DEF CellsOf, End, Char

LEMMA HeldSame ==
  ASSUME NEW ps, NEW c \in CellsOf(ps), NEW f, NEW g, \A p \in ps : f[p] = g[p]
  PROVE  Held(c, f) = Held(c, g)
BY CellForms DEF Held

\* The equation of BoundIn has a solution on the first cells of a heap.
Out(h, f, p) == IF p = 0 THEN {} ELSE Held(h[p], f)
Solves(h, n, f) == f = [p \in 0 .. n |-> Out(h, f, p)]
LEMMA Solvable ==
  ASSUME NEW h, Heap(h), NEW n \in 0 .. Len(h)
  PROVE  \E f : Solves(h, n, f)
<1> DEFINE S == {m \in Nat : m <= Len(h) /\ ~ \E f : Solves(h, m, f)}
<1>0. Len(h) \in Nat /\ DOMAIN h = 1 .. Len(h)  BY DEF Heap
<1> SUFFICES ASSUME S # {} PROVE FALSE  BY <1>0
<1>1. PICK m \in S : \A k \in S : m <= k
  <2>1. S \in SUBSET Nat  OBVIOUS
  <2> HIDE DEF S
  <2> QED  BY <2>1, LeastOf
<1>2. CASE m = 0
  <2> DEFINE f == [p \in 0 .. 0 |-> {}]
  <2>1. Solves(h, 0, f)  BY DEF Solves, Out
  <2> QED  BY <1>2, <2>1
<1>3. CASE m # 0
  <2>1. m - 1 \in Nat /\ m - 1 <= Len(h) /\ ~(m <= m - 1) /\ m \in DOMAIN h  BY <1>0, <1>3
  <2>2. m - 1 \notin S  BY <1>1, <2>1
  <2>3. PICK f : Solves(h, m - 1, f)  BY <2>1, <2>2
  <2> DEFINE g == [p \in 0 .. m |-> IF p = m THEN Held(h[m], f) ELSE f[p]]
  <2>4. ASSUME NEW p \in 0 .. m PROVE g[p] = Out(h, g, p)
    <3>1. CASE p = 0
      <4>1. g[p] = f[0]  BY <1>3, <3>1
      <4>2. f[0] = Out(h, f, 0)  BY <2>1, <2>3 DEF Solves
      <4> QED  BY <3>1, <4>1, <4>2 DEF Out
    <3>2. CASE p # 0
      <4>0. p \in DOMAIN h  BY <1>0, <2>1, <3>2
      <4>1. p \in DOMAIN h /\ h[p] \in CellsOf(0 .. p - 1)  BY <4>0 DEF Heap
      <4>2. \A q \in 0 .. p - 1 : q \in 0 .. m /\ q # m  BY <2>1
      <4>3. \A q \in 0 .. p - 1 : f[q] = g[q]  BY <4>2
      <4>4. Held(h[p], f) = Held(h[p], g)
        <5> HIDE DEF g
        <5> QED  BY <4>1, <4>3, HeldSame
      <4>5. g[p] = Held(h[p], f)
        <5>1. CASE p = m  BY <5>1
        <5>2. CASE p # m
          <6>1. p \in 0 .. m - 1 /\ g[p] = f[p]  BY <5>2, <2>1
          <6>2. f[p] = Out(h, f, p)  BY <6>1, <2>3 DEF Solves
          <6> QED  BY <3>2, <6>1, <6>2 DEF Out
        <5> QED  BY <5>1, <5>2
      <4> QED  BY <3>2, <4>4, <4>5 DEF Out
    <3> QED  BY <3>1, <3>2
  <2>5. g = [p \in 0 .. m |-> Out(h, g, p)]
    <3>1. [p \in 0 .. m |-> g[p]] = [p \in 0 .. m |-> Out(h, g, p)]  BY <2>4
    <3>2. g = [p \in 0 .. m |-> g[p]]  OBVIOUS
    <3> HIDE DEF g
    <3> QED  BY <3>1, <3>2
  <2>6. Solves(h, m, g)  BY <2>5 DEF Solves
  <2> QED  BY <2>6
<1> QED  BY <1>2, <1>3

LEMMA BoundEquation ==
  ASSUME NEW h, Heap(h)
  PROVE  /\ BoundIn(h)[0] = {}
         /\ \A p \in DOMAIN h : BoundIn(h)[p] = Held(h[p], BoundIn(h))
<1>0. Len(h) \in Nat /\ DOMAIN h = 1 .. Len(h)  BY DEF Heap
<1>1. \E f : Solves(h, Len(h), f)  BY <1>0, Solvable
<1>2. \E f : f = [p \in 0 .. Len(h) |-> IF p = 0 THEN {} ELSE Held(h[p], f)]
  BY <1>1 DEF Solves, Out
<1> DEFINE b == CHOOSE f : f = [p \in 0 .. Len(h) |-> IF p = 0 THEN {} ELSE Held(h[p], f)]
<1>3. b = [p \in 0 .. Len(h) |-> IF p = 0 THEN {} ELSE Held(h[p], b)]  BY <1>2
<1>4. BoundIn(h) = b  BY DEF BoundIn
<1> HIDE DEF b
<1>5. 0 \in 0 .. Len(h) /\ \A p \in DOMAIN h : p \in 0 .. Len(h) /\ p # 0  BY <1>0
<1> QED  BY <1>3, <1>4, <1>5

\* A heap that grows keeps what its nodes are bound to.
Grown(h, c, new) == new = Append(h, c)
LEMMA BoundGrows ==
  ASSUME NEW h, Heap(h), NEW c \in CellsOf(0 .. Len(h)), NEW new, Grown(h, c, new)
  PROVE  /\ Heap(new) /\ Len(new) = Len(h) + 1
         /\ \A p \in DOMAIN h : p \in DOMAIN new /\ new[p] = h[p]
         /\ Len(new) \in DOMAIN new /\ new[Len(new)] = c
         /\ \A p \in 0 .. Len(h) : BoundIn(new)[p] = BoundIn(h)[p]
         /\ BoundIn(new)[Len(new)] = Held(c, BoundIn(h))
<1>0. Len(h) \in Nat /\ DOMAIN h = 1 .. Len(h) /\ h \in Seq(CellsOf(Nat))  BY DEF Heap
<1>1. c \in CellsOf(Nat)  BY <1>0 DEF CellsOf
<1>2. /\ new \in Seq(CellsOf(Nat)) /\ Len(new) = Len(h) + 1 /\ DOMAIN new = 1 .. Len(h) + 1
      /\ \A p \in 1 .. Len(h) : new[p] = h[p]
      /\ new[Len(h) + 1] = c
  <2> DEFINE C == CellsOf(Nat)
  <2>1. h \in Seq(C) /\ c \in C /\ new = Append(h, c)  BY <1>0, <1>1 DEF Grown
  <2> HIDE DEF C
  <2>2. new \in Seq(C) /\ Len(new) = Len(h) + 1 /\ DOMAIN new = 1 .. Len(h) + 1
    BY <2>1
  <2>3. \A p \in 1 .. Len(h) : new[p] = h[p]  BY <2>1
  <2>4. new[Len(h) + 1] = c  BY <2>1
  <2> QED  BY <2>2, <2>3, <2>4 DEF C
<1>3. Heap(new)
  <2>1. ASSUME NEW p \in DOMAIN new PROVE new[p] \in CellsOf(0 .. p - 1)
    <3>1. CASE p \in DOMAIN h  BY <3>1, <1>0, <1>2 DEF Heap
    <3>2. CASE p \notin DOMAIN h
      <4>1. p = Len(h) + 1 /\ p - 1 = Len(h)  BY <3>2, <1>0, <1>2
      <4> QED  BY <4>1, <1>2
    <3> QED  BY <3>1, <3>2
  <2> QED  BY <1>2, <2>1 DEF Heap
<1> DEFINE f == BoundIn(h)  g == BoundIn(new)
<1>4. /\ f[0] = {} /\ \A p \in DOMAIN h : f[p] = Held(h[p], f)
      /\ g[0] = {} /\ \A p \in DOMAIN new : g[p] = Held(new[p], g)
  BY <1>3, BoundEquation
<1> HIDE DEF f, g
<1> DEFINE S == {p \in Nat : p <= Len(h) /\ f[p] # g[p]}
<1>5. S = {}
  <2> SUFFICES ASSUME S # {} PROVE FALSE  OBVIOUS
  <2>1. PICK m \in S : \A k \in S : m <= k
    <3>1. S \in SUBSET Nat  OBVIOUS
    <3> HIDE DEF S
    <3> QED  BY <3>1, LeastOf
  <2>2. m # 0  BY <1>4
  <2>3. m \in DOMAIN h /\ m \in DOMAIN new /\ new[m] = h[m] /\ h[m] \in CellsOf(0 .. m - 1)
    <3>1. m \in 1 .. Len(h)  BY <2>2, <1>0
    <3> QED  BY <3>1, <1>0, <1>2 DEF Heap
  <2>4. ASSUME NEW q \in 0 .. m - 1 PROVE f[q] = g[q]
    <3>1. q \in Nat /\ q <= Len(h) /\ ~(m <= q)  BY <1>0
    <3>2. q \notin S  BY <2>1, <3>1
    <3> QED  BY <3>1, <3>2
  <2>5. Held(h[m], f) = Held(h[m], g)  BY <2>3, <2>4, HeldSame
  <2> QED  BY <1>4, <2>3, <2>5
<1>6. ASSUME NEW p \in 0 .. Len(h) PROVE f[p] = g[p]  BY <1>0, <1>5
<1>7. g[Len(h) + 1] = Held(c, g)  BY <1>0, <1>2, <1>4
<1>8. Held(c, g) = Held(c, f)  BY <1>6, HeldSame
<1>9. Len(new) \in DOMAIN new /\ new[Len(new)] = c /\ \A p \in DOMAIN h : p \in DOMAIN new /\ new[p] = h[p]
  BY <1>0, <1>2
<1> QED  BY <1>2, <1>3, <1>6, <1>7, <1>8, <1>9 DEF f, g

-----------------------------------------------------------------------------
(***************************************************************************)
(* Keys, and what the bindings of a node are among those of its parent.    *)
(***************************************************************************)
LEMMA Cons ==
  ASSUME NEW c \in Nat, NEW s \in Text
  PROVE  /\ <<c>> \o s \in Text /\ <<c>> \o s # << >> /\ (<<c>> \o s)[1] = c
         /\ \A t \in Text : <<c>> \o s = <<c>> \o t => s = t
<1>1. /\ <<c>> \o s \in Text /\ Len(<<c>> \o s) = Len(s) + 1 /\ (<<c>> \o s)[1] = c
      /\ \A i \in 1 .. Len(s) : (<<c>> \o s)[i + 1] = s[i]
  BY DEF Text
<1>2. ASSUME NEW t \in Text, <<c>> \o s = <<c>> \o t PROVE s = t
  <2>1. Len(<<c>> \o t) = Len(t) + 1 /\ \A i \in 1 .. Len(t) : (<<c>> \o t)[i + 1] = t[i]
    BY DEF Text
  <2>2. Len(s) = Len(t) /\ Len(s) \in Nat
    BY <1>1, <1>2, <2>1 DEF Text
  <2>3. \A i \in 1 .. Len(s) : s[i] = t[i]
    BY <1>1, <1>2, <2>1, <2>2
  <2> QED
    BY <2>2, <2>3 DEF Text
<1> QED
  <2>1. <<c>> \o s # << >>  BY <1>1 DEF Text
  <2> QED  BY <1>1, <1>2, <2>1

LEMMA DropFacts ==
  ASSUME NEW key \in Text
  PROVE  /\ Drop(key, 0) = key /\ Drop(key, Len(key)) = << >>
         /\ \A n \in 0 .. Len(key) : Drop(key, n) \in Text
         /\ \A n \in 0 .. Len(key) - 1 :
              /\ Drop(key, n) = <<key[n + 1]>> \o Drop(key, n + 1)
              /\ Drop(key, n) # << >> /\ Drop(key, n)[1] = key[n + 1]
              /\ key[n + 1] \in Nat
<1>0. Len(key) \in Nat /\ \A i \in 1 .. Len(key) : key[i] \in Nat  BY DEF Text
<1>1. ASSUME NEW n \in 0 .. Len(key)
      PROVE  /\ Drop(key, n) \in Text /\ Len(Drop(key, n)) = Len(key) - n
             /\ \A i \in 1 .. Len(key) - n : Drop(key, n)[i] = key[n + i]
  BY <1>0 DEF Drop, Text
<1>2. Drop(key, 0) = key
  BY <1>0, <1>1 DEF Text
<1>3. Drop(key, Len(key)) = << >>
  BY <1>0, <1>1 DEF Text
<1>4. ASSUME NEW n \in 0 .. Len(key) - 1
      PROVE  /\ Drop(key, n) = <<key[n + 1]>> \o Drop(key, n + 1)
             /\ Drop(key, n) # << >> /\ Drop(key, n)[1] = key[n + 1]
             /\ key[n + 1] \in Nat
  <2>1. n \in 0 .. Len(key) /\ n + 1 \in 0 .. Len(key) /\ key[n + 1] \in Nat  BY <1>0
  <2> DEFINE a == Drop(key, n)  b == Drop(key, n + 1)  c == key[n + 1]
  <2>2. /\ a \in Text /\ Len(a) = Len(key) - n /\ \A i \in 1 .. Len(key) - n : a[i] = key[n + i]
        /\ b \in Text /\ Len(b) = Len(key) - (n + 1)
        /\ \A i \in 1 .. Len(key) - (n + 1) : b[i] = key[n + 1 + i]
    BY <1>1, <2>1
  <2>3. c \in Nat  BY <2>1
  <2>4. a[1] = c  BY <1>0, <2>2
  <2>5. \A i \in 1 .. Len(b) : a[i + 1] = b[i]
    <3> SUFFICES ASSUME NEW i \in 1 .. Len(b) PROVE a[i + 1] = b[i]  OBVIOUS
    <3>1. i \in 1 .. Len(key) - (n + 1) /\ i + 1 \in 1 .. Len(key) - n /\ n + (i + 1) = n + 1 + i
      BY <1>0, <2>2
    <3>2. a[i + 1] = key[n + (i + 1)] /\ b[i] = key[n + 1 + i]  BY <3>1, <2>2
    <3> QED  BY <3>1, <3>2
  <2>6. Len(a) = Len(b) + 1 /\ Len(b) \in Nat
    <3>1. Len(a) = Len(key) - n /\ Len(b) = Len(key) - (n + 1)  BY <2>2
    <3> HIDE DEF a, b
    <3> QED  BY <3>1, <1>0
  <2> HIDE DEF a, b, c
  <2>7. a = <<c>> \o b
    <3>0. b \in Seq(Nat) /\ a \in Seq(Nat)  BY <2>2 DEF Text
    <3>1. <<c>> \o b \in Seq(Nat) /\ Len(<<c>> \o b) = Len(b) + 1 /\ (<<c>> \o b)[1] = c
          /\ \A i \in 1 .. Len(b) : (<<c>> \o b)[i + 1] = b[i]
      BY <3>0, <2>3
    <3>2. ASSUME NEW i \in 1 .. Len(a) PROVE a[i] = (<<c>> \o b)[i]
      <4>1. CASE i = 1  BY <4>1, <3>1, <2>4
      <4>2. CASE i # 1
        <5> DEFINE j == i - 1
        <5>1. j \in 1 .. Len(b) /\ j + 1 = i  BY <4>2, <2>6
        <5> QED  BY <5>1, <3>1, <2>5
      <4> QED  BY <4>1, <4>2
    <3> DEFINE d == <<c>> \o b
    <3>3. d \in Seq(Nat) /\ Len(d) = Len(a) /\ \A i \in 1 .. Len(a) : a[i] = d[i]
      BY <3>1, <3>2, <2>6
    <3> HIDE DEF d
    <3>4. Len(a) \in Nat  BY <2>6
    <3>5. a = [i \in 1 .. Len(a) |-> a[i]] /\ d = [i \in 1 .. Len(d) |-> d[i]]  BY <3>0, <3>3
    <3>6. [i \in 1 .. Len(a) |-> a[i]] = [i \in 1 .. Len(d) |-> d[i]]  BY <3>3
    <3>7. a = d  BY <3>5, <3>6
    <3> QED  BY <3>7 DEF d
  <2>8. a # << >>  BY <2>6
  <2> QED  BY <2>3, <2>4, <2>7, <2>8 DEF a, b, c
<1> QED  BY <1>1, <1>2, <1>3, <1>4

\* One value a key.
Good(bs) == bs \subseteq Text \X Values /\ \A b, c \in bs : b[1] = c[1] => b = c

\* The keys of the children of a node are on their sides of it.
Starts(bs, codes) == \A b \in bs : b[1] # << >> /\ b[1][1] \in codes
Smaller(n) == {m \in Nat : m < n}
Larger(n) == {m \in Nat : m > n}
Apart(c, f) ==
  IF c.tag = "end" THEN Starts(f[c.rest], Nat)
  ELSE Starts(f[c.less], Smaller(c.code)) /\ Starts(f[c.greater], Larger(c.code))

LEMMA LongerFacts ==
  ASSUME NEW n \in Nat, NEW bs, Good(bs)
  PROVE  Good(Longer(n, bs)) /\ Starts(Longer(n, bs), {n})
<1>1. ASSUME NEW b \in bs
      PROVE  /\ b[1] \in Text /\ b[2] \in Values /\ b = <<b[1], b[2]>>
             /\ <<n>> \o b[1] \in Text /\ <<n>> \o b[1] # << >> /\ (<<n>> \o b[1])[1] = n
  <2>1. b[1] \in Text /\ b[2] \in Values /\ b = <<b[1], b[2]>>  BY DEF Good
  <2> QED  BY <2>1, Cons
<1>2. \A x \in Longer(n, bs) : \E b \in bs : x = << <<n>> \o b[1], b[2] >>
  BY DEF Longer
<1>3. Starts(Longer(n, bs), {n})
  BY <1>1, <1>2 DEF Starts
<1>4. Longer(n, bs) \subseteq Text \X Values
  <2> SUFFICES ASSUME NEW x \in Longer(n, bs) PROVE x \in Text \X Values  OBVIOUS
  <2>1. PICK b \in bs : x = << <<n>> \o b[1], b[2] >>  BY <1>2
  <2> DEFINE k == <<n>> \o b[1]
  <2>2. k \in Text /\ b[2] \in Values /\ x = <<k, b[2]>>  BY <1>1, <2>1
  <2> HIDE DEF k
  <2> QED  BY <2>2
<1>5. ASSUME NEW x \in Longer(n, bs), NEW y \in Longer(n, bs), x[1] = y[1] PROVE x = y
  <2>1. PICK b \in bs : x = << <<n>> \o b[1], b[2] >>  BY <1>2
  <2>2. PICK c \in bs : y = << <<n>> \o c[1], c[2] >>  BY <1>2
  <2>3. <<n>> \o b[1] = <<n>> \o c[1]  BY <1>5, <2>1, <2>2
  <2>4. b[1] \in Text /\ c[1] \in Text  BY <1>1
  <2>5. b[1] = c[1]
    <3>1. PICK s \in Text, t \in Text : s = b[1] /\ t = c[1]  BY <2>4
    <3>2. <<n>> \o s = <<n>> \o t  BY <2>3, <3>1
    <3> QED  BY <3>1, <3>2, Cons
  <2>6. b = c  BY <2>5 DEF Good
  <2> QED  BY <2>1, <2>2, <2>6
<1> QED  BY <1>3, <1>4, <1>5 DEF Good

\* Bindings whose keys start differently are those of a node together.
LEMMA GoodUnion ==
  ASSUME NEW a, NEW b, Good(a), Good(b), \A x \in a, y \in b : x[1] # y[1]
  PROVE  Good(a \cup b)
BY DEF Good

LEMMA HeldGood ==
  ASSUME NEW ps, NEW c \in CellsOf(ps), NEW f, \A p \in ps : Good(f[p]), Apart(c, f)
  PROVE  Good(Held(c, f))
<1>1. CASE c.tag = "end"
  <2>1. c.value \in Values /\ c.rest \in ps  BY <1>1, CellForms
  <2> DEFINE a == {<< << >>, c.value >>}
  <2>2. Good(a)
    <3>1. << >> \in Text  BY DEF Text
    <3> QED  BY <2>1, <3>1 DEF Good
  <2>3. \A x \in a, y \in f[c.rest] : x[1] # y[1]  BY <1>1 DEF Apart, Starts
  <2>4. Held(c, f) = a \cup f[c.rest]  BY <1>1 DEF Held
  <2> HIDE DEF a
  <2> QED  BY <2>1, <2>2, <2>3, <2>4, GoodUnion
<1>2. CASE c.tag # "end"
  <2>1. c.code \in Nat /\ Good(f[c.less]) /\ Good(f[c.same]) /\ Good(f[c.greater])  BY <1>2, CellForms
  <2> DEFINE n == c.code  L == f[c.less]  S == Longer(n, f[c.same])  G == f[c.greater]
  <2>2. Good(S) /\ Starts(S, {n}) /\ Starts(L, Smaller(n)) /\ Starts(G, Larger(n))
    BY <1>2, <2>1, LongerFacts DEF Apart
  <2>3. Held(c, f) = L \cup S \cup G  BY <1>2 DEF Held
  <2>4. Good(L) /\ Good(G) /\ n \in Nat  BY <2>1
  <2> HIDE DEF n, L, S, G
  <2>5. \A x \in L, y \in S : x[1] # y[1]  BY <2>2, <2>4 DEF Starts, Smaller
  <2>6. Good(L \cup S)  BY <2>2, <2>4, <2>5, GoodUnion
  <2>7. \A x \in L \cup S, y \in G : x[1] # y[1]
    <3>1. \A x \in L, y \in G : x[1] # y[1]  BY <2>2, <2>4 DEF Starts, Smaller, Larger
    <3>2. \A x \in S, y \in G : x[1] # y[1]  BY <2>2, <2>4 DEF Starts, Larger
    <3> QED  BY <3>1, <3>2
  <2> QED  BY <2>3, <2>4, <2>6, <2>7, GoodUnion
<1> QED  BY <1>1, <1>2

-----------------------------------------------------------------------------
(***************************************************************************)
(* What a call changes, and that a copied node hands it up.                *)
(***************************************************************************)
New(s, v) == IF v = Missing THEN {} ELSE {<<s, v>>}
Change(bs, s, v) == {b \in bs : b[1] # s} \cup New(s, v)

LEMMA ChangeGood ==
  ASSUME NEW bs, Good(bs), NEW s \in Text, NEW v \in Values \cup {Missing}
  PROVE  Good(Change(bs, s, v))
BY DEF Good, Change, New

LEMMA ChangeStarts ==
  ASSUME NEW bs, NEW codes, Starts(bs, codes), NEW s, s # << >>, s[1] \in codes, NEW v
  PROVE  Starts(Change(bs, s, v), codes)
BY DEF Starts, Change, New

LEMMA ChangeBeside ==
  ASSUME NEW a, NEW b, NEW s, NEW v, \A x \in b : x[1] # s
  PROVE  Change(a, s, v) \cup b = Change(a \cup b, s, v)
BY DEF Change

LEMMA LongerChange ==
  ASSUME NEW n \in Nat, NEW bs, Good(bs), NEW t \in Text, NEW v
  PROVE  Longer(n, Change(bs, t, v)) = Change(Longer(n, bs), <<n>> \o t, v)
<1>1. \A b \in bs : b[1] \in Text  BY DEF Good
<1>2. \A b \in bs : <<n>> \o b[1] = <<n>> \o t <=> b[1] = t
  <2> SUFFICES ASSUME NEW b \in bs, <<n>> \o b[1] = <<n>> \o t PROVE b[1] = t  OBVIOUS
  <2>1. PICK k \in Text : k = b[1]  BY <1>1
  <2> QED  BY <2>1, Cons
<1> DEFINE up(b) == << <<n>> \o b[1], b[2] >>
<1>3. Longer(n, New(t, v)) = New(<<n>> \o t, v)
  <2>1. \A b \in {<<t, v>>} : up(b) = << <<n>> \o t, v>>  OBVIOUS
  <2> QED  BY <2>1 DEF Longer, New
<1>4. Longer(n, {b \in bs : b[1] # t}) = {b \in Longer(n, bs) : b[1] # <<n>> \o t}
  <2>1. ASSUME NEW b \in bs PROVE up(b)[1] # <<n>> \o t <=> b[1] # t  BY <1>2
  <2>2. Longer(n, bs) = {up(b) : b \in bs} /\ Longer(n, {b \in bs : b[1] # t}) = {up(b) : b \in {c \in bs : c[1] # t}}
    BY DEF Longer
  <2> HIDE DEF up
  <2>3. {up(b) : b \in {c \in bs : c[1] # t}} = {x \in {up(b) : b \in bs} : x[1] # <<n>> \o t}
    BY <2>1
  <2> QED  BY <2>2, <2>3
<1>5. Longer(n, {b \in bs : b[1] # t} \cup New(t, v)) = Longer(n, {b \in bs : b[1] # t}) \cup Longer(n, New(t, v))
  BY DEF Longer
<1> QED  BY <1>3, <1>4, <1>5 DEF Change

\* The way key s goes at cell c, and what is left of it below.
Toward(c, step, s, t) ==
  \/ c.tag = "end" /\ step = "rest" /\ s # << >> /\ s[1] \in Nat /\ t = s
  \/ c.tag = "char" /\ step = "less" /\ s # << >> /\ s[1] \in Smaller(c.code) /\ t = s
  \/ c.tag = "char" /\ step = "same" /\ s = <<c.code>> \o t
  \/ c.tag = "char" /\ step = "greater" /\ s # << >> /\ s[1] \in Larger(c.code) /\ t = s

Changed(f, q, c, step, t, v) == f[q] = Change(f[c[step]], t, v)
LEMMA HeldChanges ==
  ASSUME NEW ps, NEW c \in CellsOf(ps), NEW q \in ps, NEW f, \A p \in ps : Good(f[p]), Apart(c, f),
         NEW s \in Text, NEW t \in Text, NEW step, Toward(c, step, s, t), NEW v,
         Changed(f, q, c, step, t, v)
  PROVE  /\ Copy(c, step, q) \in CellsOf(ps)
         /\ Held(Copy(c, step, q), f) = Change(Held(c, f), s, v)
         /\ Apart(Copy(c, step, q), f)
<1> DEFINE d == Copy(c, step, q)
<1>0. f[q] = Change(f[c[step]], t, v)  BY DEF Changed
<1>1. CASE c.tag = "end"
  <2>1. step = "rest" /\ s # << >> /\ s[1] \in Nat /\ t = s /\ c.value \in Values /\ c.rest \in ps
    BY <1>1, CellForms DEF Toward
  <2>2. d = End(c.value, q)  BY <2>1 DEF Copy
  <2>3. d \in CellsOf(ps)  BY <2>1, <2>2 DEF End, CellsOf
  <2> DEFINE R == f[c.rest]  E == {<< << >>, c.value>>}
  <2>4. f[q] = Change(R, s, v)  BY <1>0, <2>1
  <2>5. Starts(R, Nat)  BY <1>1 DEF Apart
  <2>6. Held(c, f) = E \cup R /\ Held(d, f) = E \cup f[q]  BY <1>1, <2>2 DEF Held, End
  <2>7. \A x \in E : x[1] # s  BY <2>1
  <2>8. Apart(d, f) <=> Starts(f[q], Nat)  BY <2>2 DEF Apart, End
  <2> HIDE DEF R, E, d
  <2>9. Starts(Change(R, s, v), Nat)  BY <2>1, <2>5, ChangeStarts
  <2>10. Change(R, s, v) \cup E = Change(R \cup E, s, v)  BY <2>7, ChangeBeside
  <2>11. Held(d, f) = Change(Held(c, f), s, v)
    <3>1. E \cup R = R \cup E /\ E \cup f[q] = f[q] \cup E  OBVIOUS
    <3> QED  BY <2>4, <2>6, <2>10, <3>1
  <2> QED  BY <2>3, <2>4, <2>8, <2>9, <2>11 DEF d
<1>2. CASE c.tag = "char"
  <2> DEFINE n == c.code  L == f[c.less]  B == f[c.same]  S == Longer(n, B)  G == f[c.greater]
  <2>1. n \in Nat /\ Good(L) /\ Good(B) /\ Good(G) /\ c.less \in ps /\ c.same \in ps /\ c.greater \in ps
    BY <1>2, CellForms
  <2>2. Starts(L, Smaller(n)) /\ Starts(G, Larger(n))  BY <1>2 DEF Apart
  <2>3. Starts(S, {n})  BY <2>1, LongerFacts
  <2>4. Held(c, f) = L \cup S \cup G  BY <1>2 DEF Held
  <2>5. CASE step = "less"
    <3>1. s # << >> /\ s[1] \in Smaller(n) /\ t = s  BY <2>5, <1>2 DEF Toward
    <3>2. d = Char(n, q, c.same, c.greater)  BY <2>5 DEF Copy
    <3>3. d \in CellsOf(ps)  BY <2>1, <3>2 DEF Char, CellsOf
    <3>4. Held(d, f) = f[q] \cup S \cup G  BY <3>2 DEF Held, Char
    <3>5. Apart(d, f) <=> Starts(f[q], Smaller(n)) /\ Starts(G, Larger(n))  BY <3>2 DEF Apart, Char
    <3>6. f[q] = Change(L, s, v)  BY <1>0, <2>5, <3>1
    <3> HIDE DEF n, L, B, S, G, d
    <3>7. Starts(Change(L, s, v), Smaller(n))  BY <2>2, <3>1, ChangeStarts
    <3>8. \A x \in S \cup G : x[1] # s  BY <2>1, <2>2, <2>3, <3>1 DEF Starts, Smaller, Larger
    <3>9. Change(L, s, v) \cup (S \cup G) = Change(L \cup (S \cup G), s, v)
      <4> DEFINE X == S \cup G
      <4>1. \A x \in X : x[1] # s  BY <3>8
      <4> HIDE DEF X
      <4>2. Change(L, s, v) \cup X = Change(L \cup X, s, v)  BY <4>1, ChangeBeside
      <4> QED  BY <4>2 DEF X
    <3>10. Held(d, f) = Change(Held(c, f), s, v)
      <4>1. L \cup (S \cup G) = L \cup S \cup G /\ f[q] \cup (S \cup G) = f[q] \cup S \cup G  OBVIOUS
      <4> QED  BY <2>4, <3>4, <3>6, <3>9, <4>1
    <3> QED  BY <2>2, <3>3, <3>5, <3>6, <3>7, <3>10 DEF d
  <2>6. CASE step = "greater"
    <3>1. s # << >> /\ s[1] \in Larger(n) /\ t = s  BY <2>6, <1>2 DEF Toward
    <3>2. d = Char(n, c.less, c.same, q)  BY <2>6 DEF Copy
    <3>3. d \in CellsOf(ps)  BY <2>1, <3>2 DEF Char, CellsOf
    <3>4. Held(d, f) = L \cup S \cup f[q]  BY <3>2 DEF Held, Char
    <3>5. Apart(d, f) <=> Starts(L, Smaller(n)) /\ Starts(f[q], Larger(n))  BY <3>2 DEF Apart, Char
    <3>6. f[q] = Change(G, s, v)  BY <1>0, <2>6, <3>1
    <3> HIDE DEF n, L, B, S, G, d
    <3>7. Starts(Change(G, s, v), Larger(n))  BY <2>2, <3>1, ChangeStarts
    <3>8. \A x \in L \cup S : x[1] # s  BY <2>1, <2>2, <2>3, <3>1 DEF Starts, Smaller, Larger
    <3>9. Change(G, s, v) \cup (L \cup S) = Change(G \cup (L \cup S), s, v)
      <4> DEFINE X == L \cup S
      <4>1. \A x \in X : x[1] # s  BY <3>8
      <4> HIDE DEF X
      <4>2. Change(G, s, v) \cup X = Change(G \cup X, s, v)  BY <4>1, ChangeBeside
      <4> QED  BY <4>2 DEF X
    <3>10. Held(d, f) = Change(Held(c, f), s, v)
      <4>1. G \cup (L \cup S) = L \cup S \cup G /\ f[q] \cup (L \cup S) = L \cup S \cup f[q]  OBVIOUS
      <4> QED  BY <2>4, <3>4, <3>6, <3>9, <4>1
    <3> QED  BY <2>2, <3>3, <3>5, <3>6, <3>7, <3>10 DEF d
  <2>7. CASE step = "same"
    <3>1. s = <<n>> \o t  BY <2>7, <1>2 DEF Toward
    <3>2. d = Char(n, c.less, q, c.greater)  BY <2>7 DEF Copy
    <3>3. d \in CellsOf(ps)  BY <2>1, <3>2 DEF Char, CellsOf
    <3>4. Held(d, f) = L \cup Longer(n, f[q]) \cup G  BY <3>2 DEF Held, Char
    <3>5. Apart(d, f) <=> Starts(L, Smaller(n)) /\ Starts(G, Larger(n))  BY <3>2 DEF Apart, Char
    <3>6. f[q] = Change(B, t, v)  BY <1>0, <2>7
    <3>7. s[1] = n
      <4> HIDE DEF n
      <4> QED  BY <3>1, <2>1, Cons
    <3> HIDE DEF n, L, B, G, d
    <3>8. Longer(n, f[q]) = Change(S, s, v)
      <4>1. Longer(n, Change(B, t, v)) = Change(Longer(n, B), <<n>> \o t, v)  BY <2>1, LongerChange
      <4> QED  BY <4>1, <3>1, <3>6
    <3> HIDE DEF S
    <3>9. \A x \in L \cup G : x[1] # s  BY <2>1, <2>2, <3>7 DEF Starts, Smaller, Larger
    <3>10. Change(S, s, v) \cup (L \cup G) = Change(S \cup (L \cup G), s, v)
      <4> DEFINE X == L \cup G
      <4>1. \A x \in X : x[1] # s  BY <3>9
      <4> HIDE DEF X
      <4>2. Change(S, s, v) \cup X = Change(S \cup X, s, v)  BY <4>1, ChangeBeside
      <4> QED  BY <4>2 DEF X
    <3>11. Held(d, f) = Change(Held(c, f), s, v)
      <4>1. S \cup (L \cup G) = L \cup S \cup G /\ Change(S, s, v) \cup (L \cup G) = L \cup Change(S, s, v) \cup G  OBVIOUS
      <4> QED  BY <2>4, <3>4, <3>8, <3>10, <4>1
    <3> QED  BY <2>2, <3>3, <3>5, <3>11 DEF d
  <2> QED  BY <1>2, <2>5, <2>6, <2>7 DEF Toward
<1> QED  BY <1>1, <1>2, CellForms

-----------------------------------------------------------------------------
(***************************************************************************)
(* The heap and the way back.                                              *)
(***************************************************************************)
HeapRight(h) ==
  /\ Heap(h)
  /\ \A p \in DOMAIN h : Apart(h[p], BoundIn(h))
  /\ \A p \in 0 .. Len(h) : Good(BoundIn(h)[p])

LEMMA HeapGrows ==
  ASSUME NEW h, HeapRight(h), NEW c \in CellsOf(0 .. Len(h)), Apart(c, BoundIn(h)),
         NEW new, Grown(h, c, new)
  PROVE  /\ HeapRight(new) /\ Len(new) = Len(h) + 1 /\ Len(h) \in Nat /\ DOMAIN h = 1 .. Len(h)
         /\ \A p \in DOMAIN h : p \in DOMAIN new /\ new[p] = h[p]
         /\ \A p \in 0 .. Len(h) : BoundIn(new)[p] = BoundIn(h)[p]
         /\ BoundIn(new)[Len(h) + 1] = Held(c, BoundIn(h))
<1> DEFINE f == BoundIn(h)  g == BoundIn(new)
<1>0. Heap(h) /\ Len(h) \in Nat /\ DOMAIN h = 1 .. Len(h)  BY DEF HeapRight, Heap
<1>1. /\ Heap(new) /\ Len(new) = Len(h) + 1
      /\ \A p \in DOMAIN h : p \in DOMAIN new /\ new[p] = h[p]
      /\ Len(new) \in DOMAIN new /\ new[Len(new)] = c
      /\ \A p \in 0 .. Len(h) : g[p] = f[p]
      /\ g[Len(new)] = Held(c, f)
  BY <1>0, BoundGrows
<1>2. Good(Held(c, f))
  <2>1. \A p \in 0 .. Len(h) : Good(f[p])  BY DEF HeapRight
  <2> HIDE DEF f
  <2> QED  BY <2>1, HeldGood DEF f
<1>3. DOMAIN new = 1 .. Len(h) + 1
  BY <1>1 DEF Heap
<1>4. \A p \in 0 .. Len(new) : Good(g[p])
  <2>1. \A p \in 0 .. Len(h) : Good(g[p])  BY <1>1 DEF HeapRight
  <2> HIDE DEF f, g
  <2> QED  BY <1>0, <1>1, <1>2, <2>1
<1>5. ASSUME NEW p \in DOMAIN new PROVE Apart(new[p], g)
  <2>1. \E d \in CellsOf(0 .. Len(h)) : d = new[p] /\ Apart(d, f)
    <3>1. CASE p = Len(h) + 1  BY <3>1, <1>1
    <3>2. CASE p # Len(h) + 1
      <4>1. p \in DOMAIN h  BY <3>2, <1>0, <1>3
      <4>2. h[p] \in CellsOf(0 .. p - 1)  BY <4>1, <1>0 DEF Heap
      <4>3. 0 .. p - 1 \subseteq 0 .. Len(h)  BY <4>1, <1>0
      <4>4. h[p] \in CellsOf(0 .. Len(h))  BY <4>2, <4>3 DEF CellsOf
      <4> QED  BY <4>1, <4>4, <1>1 DEF HeapRight
    <3> QED  BY <3>1, <3>2
  <2> HIDE DEF f, g
  <2> QED  BY <2>1, <1>1, CellForms DEF Apart
<1> QED  BY <1>0, <1>1, <1>4, <1>5 DEF HeapRight

LEMMA HeapFacts ==
  ASSUME NEW h, HeapRight(h)
  PROVE  /\ Len(h) \in Nat /\ DOMAIN h = 1 .. Len(h)
         /\ \A p \in DOMAIN h : h[p] \in CellsOf(0 .. Len(h)) /\ h[p] \in CellsOf(0 .. p - 1)
         /\ \A p \in DOMAIN h : BoundIn(h)[p] = Held(h[p], BoundIn(h))
         /\ BoundIn(h)[0] = {}
         /\ \A p \in DOMAIN h : Apart(h[p], BoundIn(h))
         /\ \A p \in 0 .. Len(h) : Good(BoundIn(h)[p])
<1>1. Heap(h) /\ Len(h) \in Nat /\ DOMAIN h = 1 .. Len(h)  BY DEF HeapRight, Heap
<1>2. ASSUME NEW p \in DOMAIN h PROVE h[p] \in CellsOf(0 .. Len(h)) /\ h[p] \in CellsOf(0 .. p - 1)
  <2>1. h[p] \in CellsOf(0 .. p - 1)  BY <1>1 DEF Heap
  <2>2. 0 .. p - 1 \subseteq 0 .. Len(h)  BY <1>1
  <2> QED  BY <2>1, <2>2 DEF CellsOf
<1> QED  BY <1>1, <1>2, BoundEquation DEF HeapRight

Steps == {"rest", "less", "same", "greater"}
Frames == [node : Nat, step : Steps, at : Nat]
Turn(c, code, step) ==
  \/ c.tag = "end" /\ step = "rest"
  \/ c.tag = "char" /\ step = "less" /\ code < c.code
  \/ c.tag = "char" /\ step = "same" /\ code = c.code
  \/ c.tag = "char" /\ step = "greater" /\ code > c.code
FrameRight(h, key, f) ==
  f.node \in DOMAIN h /\ f.at \in 0 .. Len(key) - 1 /\ Turn(h[f.node], key[f.at + 1], f.step)
\* Where a frame leads, and the position there.
Leads(h, f) == h[f.node][f.step]
After(f) == IF f.step = "same" THEN f.at + 1 ELSE f.at
Top(h, m, w) == IF w = << >> THEN m ELSE Leads(h, w[1])
Place(w) == IF w = << >> THEN 0 ELSE After(w[1])
PathRight(h, key, m, w) ==
  /\ w \in Seq(Frames)
  /\ \A i \in DOMAIN w : FrameRight(h, key, w[i])
  /\ \A i \in DOMAIN w :
       IF i = Len(w) THEN w[i].node = m /\ w[i].at = 0
       ELSE w[i].node = Leads(h, w[i + 1]) /\ w[i].at = After(w[i + 1])

\* A frame leads from what the key is there to what is left of it.
LEMMA FrameLeads ==
  ASSUME NEW h, HeapRight(h), NEW key \in Text, NEW f \in Frames, FrameRight(h, key, f)
  PROVE  /\ After(f) \in 0 .. Len(key) /\ Leads(h, f) \in 0 .. Len(h)
         /\ Toward(h[f.node], f.step, Drop(key, f.at), Drop(key, After(f)))
<1> DEFINE n == f.at  c == h[f.node]  s == Drop(key, n)
<1>0. Len(key) \in Nat  BY DEF Text
<1>1. n \in 0 .. Len(key) - 1 /\ n \in Nat /\ Turn(c, key[n + 1], f.step) /\ c \in CellsOf(0 .. Len(h))
  BY HeapFacts DEF FrameRight, Frames
<1>2. /\ s = <<key[n + 1]>> \o Drop(key, n + 1) /\ s # << >> /\ s[1] = key[n + 1] /\ key[n + 1] \in Nat
  BY <1>1, DropFacts
<1>3. n + 1 \in 0 .. Len(key) /\ n \in 0 .. Len(key)  BY <1>0, <1>1
<1> HIDE DEF n, c, s
<1>4. CASE c.tag = "end"
  <2>1. f.step = "rest" /\ c.rest \in 0 .. Len(h) /\ After(f) = n  BY <1>1, <1>4, CellForms DEF Turn, After, n
  <2> QED  BY <1>2, <1>3, <1>4, <2>1 DEF Toward, Leads, n, c, s
<1>5. CASE c.tag = "char"
  <2>1. c.code \in Nat /\ c.less \in 0 .. Len(h) /\ c.same \in 0 .. Len(h) /\ c.greater \in 0 .. Len(h)
    BY <1>1, <1>5, CellForms
  <2>2. CASE f.step = "less"
    <3>1. key[n + 1] < c.code /\ After(f) = n  BY <1>1, <1>5, <2>2 DEF Turn, After, n
    <3>2. key[n + 1] \in Smaller(c.code)  BY <3>1, <1>2 DEF Smaller
    <3> QED  BY <1>2, <1>3, <1>5, <2>1, <2>2, <3>1, <3>2 DEF Toward, Leads, n, c, s
  <2>3. CASE f.step = "same"
    <3>1. key[n + 1] = c.code /\ After(f) = n + 1  BY <1>1, <1>5, <2>3 DEF Turn, After, n
    <3> QED  BY <1>2, <1>3, <1>5, <2>1, <2>3, <3>1 DEF Toward, Leads, n, c, s
  <2>4. CASE f.step = "greater"
    <3>1. key[n + 1] > c.code /\ After(f) = n  BY <1>1, <1>5, <2>4 DEF Turn, After, n
    <3>2. key[n + 1] \in Larger(c.code)  BY <3>1, <1>2 DEF Larger
    <3> QED  BY <1>2, <1>3, <1>5, <2>1, <2>4, <3>1, <3>2 DEF Toward, Leads, n, c, s
  <2> QED  BY <1>1, <1>5, <2>2, <2>3, <2>4 DEF Turn
<1> QED  BY <1>1, <1>4, <1>5, CellForms

LEMMA PathEmpty ==
  ASSUME NEW h, NEW key, NEW m
  PROVE  PathRight(h, key, m, << >>) /\ Top(h, m, << >>) = m /\ Place(<< >>) = 0
BY DEF PathRight, Top, Place

LEMMA PathPush ==
  ASSUME NEW h, NEW key, NEW m, NEW w, PathRight(h, key, m, w),
         NEW f \in Frames, FrameRight(h, key, f), f.node = Top(h, m, w), f.at = Place(w)
  PROVE  /\ PathRight(h, key, m, << f >> \o w)
         /\ Top(h, m, << f >> \o w) = Leads(h, f) /\ Place(<< f >> \o w) = After(f)
<1> DEFINE all == << f >> \o w
<1>1. w \in Seq(Frames) /\ Len(w) \in Nat /\ DOMAIN w = 1 .. Len(w)  BY DEF PathRight
<1>2. /\ all \in Seq(Frames) /\ Len(all) = Len(w) + 1 /\ DOMAIN all = 1 .. Len(w) + 1 /\ all[1] = f
      /\ \A i \in 1 .. Len(w) : all[i + 1] = w[i]
  BY <1>1
<1> HIDE DEF all
<1>3. \A j \in DOMAIN all : j = 1 \/ (j - 1 \in DOMAIN w /\ all[j] = w[j - 1])
  <2> SUFFICES ASSUME NEW j \in DOMAIN all, j # 1 PROVE j - 1 \in DOMAIN w /\ all[j] = w[j - 1]  OBVIOUS
  <2> DEFINE i == j - 1
  <2>1. i \in 1 .. Len(w) /\ i + 1 = j  BY <1>1, <1>2
  <2> QED  BY <2>1, <1>1, <1>2
<1>4. \A j \in DOMAIN all : FrameRight(h, key, all[j])
  BY <1>2, <1>3 DEF PathRight
<1>5. ASSUME NEW j \in DOMAIN all
      PROVE  IF j = Len(all) THEN all[j].node = m /\ all[j].at = 0
             ELSE all[j].node = Leads(h, all[j + 1]) /\ all[j].at = After(all[j + 1])
  <2>1. CASE j = 1 /\ w = << >>
    <3>1. Len(all) = 1  BY <2>1, <1>2
    <3> QED  BY <2>1, <3>1, <1>2 DEF Top, Place
  <2>2. CASE j = 1 /\ w # << >>
    <3>1. 1 \in 1 .. Len(w) /\ Len(all) # 1  BY <2>2, <1>1, <1>2
    <3>2. all[j + 1] = w[1]
      <4>1. all[1 + 1] = w[1]  BY <3>1, <1>2
      <4> QED  BY <2>2, <4>1
    <3> QED  BY <2>2, <3>1, <3>2, <1>2 DEF Top, Place
  <2>3. CASE j # 1
    <3> DEFINE i == j - 1
    <3>1. i \in DOMAIN w /\ all[j] = w[i] /\ i + 1 = j  BY <1>2, <1>3, <2>3
    <3>2. j = Len(all) <=> i = Len(w)  BY <1>1, <1>2
    <3>3. ASSUME i # Len(w) PROVE all[j + 1] = w[i + 1]
      <4>1. j \in 1 .. Len(w)  BY <3>1, <3>3, <1>1
      <4> QED  BY <4>1, <3>1, <1>2
    <3> HIDE DEF i
    <3> QED  BY <3>1, <3>2, <3>3 DEF PathRight
  <2> QED  BY <2>1, <2>2, <2>3
<1>6. all # << >>  BY <1>2
<1> QED  BY <1>2, <1>4, <1>5, <1>6 DEF PathRight, Top, Place, all

LEMMA PathPop ==
  ASSUME NEW h, NEW key, NEW m, NEW w, PathRight(h, key, m, w), w # << >>
  PROVE  /\ Head(w) = w[1] /\ w[1] \in Frames /\ FrameRight(h, key, w[1])
         /\ PathRight(h, key, m, Tail(w))
         /\ w[1].node = Top(h, m, Tail(w)) /\ w[1].at = Place(Tail(w))
<1> DEFINE t == Tail(w)
<1>1. w \in Seq(Frames) /\ Len(w) \in Nat \ {0} /\ DOMAIN w = 1 .. Len(w) /\ Head(w) = w[1] /\ w[1] \in Frames
  BY DEF PathRight
<1>2. /\ t \in Seq(Frames) /\ Len(t) = Len(w) - 1 /\ DOMAIN t = 1 .. Len(w) - 1
      /\ \A i \in 1 .. Len(w) - 1 : t[i] = w[i + 1]
  BY <1>1
<1> HIDE DEF t
<1>3. 1 \in DOMAIN w /\ FrameRight(h, key, w[1])  BY <1>1 DEF PathRight
<1>4. ASSUME NEW i \in DOMAIN t
      PROVE  /\ FrameRight(h, key, t[i])
             /\ IF i = Len(t) THEN t[i].node = m /\ t[i].at = 0
                ELSE t[i].node = Leads(h, t[i + 1]) /\ t[i].at = After(t[i + 1])
  <2> DEFINE j == i + 1
  <2>1. j \in DOMAIN w /\ t[i] = w[j]  BY <1>1, <1>2
  <2>2. j = Len(w) <=> i = Len(t)  BY <1>1, <1>2
  <2>3. ASSUME i # Len(t) PROVE t[i + 1] = w[j + 1]
    <3>1. j \in 1 .. Len(w) - 1  BY <1>1, <1>2, <2>3
    <3> QED  BY <3>1, <1>2
  <2> HIDE DEF j
  <2> QED  BY <2>1, <2>2, <2>3 DEF PathRight, j
<1>5. w[1].node = Top(h, m, t) /\ w[1].at = Place(t)
  <2>1. CASE Len(w) = 1
    <3>1. t = << >>  BY <2>1, <1>2
    <3> QED  BY <2>1, <3>1, <1>3 DEF PathRight, Top, Place
  <2>2. CASE Len(w) # 1
    <3>1. t # << >>  BY <2>2, <1>1, <1>2
    <3>2. t[1] = w[1 + 1]
      <4>1. 1 \in 1 .. Len(w) - 1  BY <2>2, <1>1
      <4> QED  BY <4>1, <1>2
    <3> QED  BY <2>2, <3>1, <3>2, <1>3 DEF PathRight, Top, Place
  <2> QED  BY <2>1, <2>2
<1> QED  BY <1>1, <1>2, <1>3, <1>4, <1>5 DEF PathRight, t

\* A heap that grows keeps the path.
LEMMA PathKept ==
  ASSUME NEW h, NEW new, \A p \in DOMAIN h : p \in DOMAIN new /\ new[p] = h[p],
         NEW key, NEW m, NEW w, PathRight(h, key, m, w)
  PROVE  PathRight(new, key, m, w) /\ Top(new, m, w) = Top(h, m, w)
<1>1. ASSUME NEW i \in DOMAIN w PROVE Leads(new, w[i]) = Leads(h, w[i]) /\ FrameRight(new, key, w[i])
  BY DEF PathRight, FrameRight, Leads
<1>2. w \in Seq(Frames) /\ DOMAIN w = 1 .. Len(w) /\ Len(w) \in Nat  BY DEF PathRight
<1>3. \A i \in DOMAIN w : i # Len(w) => i + 1 \in DOMAIN w  BY <1>2
<1>4. w # << >> => 1 \in DOMAIN w  BY <1>2
<1> QED  BY <1>1, <1>2, <1>3, <1>4 DEF PathRight, Top

-----------------------------------------------------------------------------
(***************************************************************************)
(* The invariant.                                                          *)
(***************************************************************************)
CallsMade ==
  {Idle, [name |-> "bindings"]}
  \cup [name : {"get", "remove"}, key : Keys, value : {Missing}]
  \cup [name : {"insert", "single"}, key : Keys, value : Values]
  \cup [name : {"rebuild"}, key : Keys, value : Values \cup {Missing}]
TypeOK ==
  /\ HeapRight(cells)
  /\ map \in 0 .. Len(cells) /\ node \in 0 .. Len(cells)
  /\ answer \in Values \cup {Missing} /\ call \in CallsMade

OnPath == PathRight(cells, call.key, map, path)
\* The walk down: the node reached is what the key comes to.
WalkRight ==
  Walking =>
    /\ OnPath /\ node = Top(cells, map, path)
    /\ at = Place(path) /\ at \in 0 .. Len(call.key)
    /\ \A v \in Values : <<Drop(call.key, at), v>> \in Bound(node) <=> <<call.key, v>> \in Bound(map)
\* The nodes made are those of the end of the key.
SingleRight ==
  call.name = "single" =>
    /\ OnPath /\ Top(cells, map, path) = 0
    /\ at = Place(path) /\ at \in 0 .. Len(call.key) /\ upto \in at .. Len(call.key)
    /\ Bound(node) = {<<Drop(call.key, upto), call.value>>}
\* The walk up: the node in hand has the change, the node it stands for not.
RebuildRight ==
  call.name = "rebuild" =>
    /\ OnPath
    /\ Bound(node) = Change(Bound(Top(cells, map, path)), Drop(call.key, Place(path)), call.value)

LEMMA CallForms ==
  ASSUME TypeOK
  PROVE  /\ call.name \notin {"none", "bindings"} => call.key \in Keys /\ call.key \in Text
         /\ call.name \in {"get", "remove"} => call.value = Missing
         /\ call.name \in {"insert", "single"} => call.value \in Values /\ call.value # Missing
         /\ call.name \notin {"none", "bindings"} => call.value \in Values \cup {Missing}
         /\ call.name \notin {"none", "bindings"} => call = [name |-> call.name, key |-> call.key, value |-> call.value]
BY KeysAssumption DEF TypeOK, CallsMade, Idle, Text

LEMMA TowardSame ==
  ASSUME NEW ps, NEW c \in CellsOf(ps), NEW f, \A p \in ps : Good(f[p]), Apart(c, f),
         NEW s \in Text, NEW t \in Text, NEW step, Toward(c, step, s, t), NEW v
  PROVE  <<s, v>> \in Held(c, f) <=> <<t, v>> \in f[c[step]]
<1>1. CASE c.tag = "end"
  <2>1. step = "rest" /\ s # << >> /\ t = s  BY <1>1 DEF Toward
  <2>2. Held(c, f) = {<< << >>, c.value>>} \cup f[c.rest]  BY <1>1 DEF Held
  <2> QED  BY <2>1, <2>2
<1>2. CASE c.tag = "char"
  <2> DEFINE n == c.code  L == f[c.less]  B == f[c.same]  S == Longer(n, B)  G == f[c.greater]
  <2>1. n \in Nat /\ Good(L) /\ Good(B) /\ Good(G)  BY <1>2, CellForms
  <2>2. Starts(L, Smaller(n)) /\ Starts(G, Larger(n)) /\ Starts(S, {n})  BY <1>2, <2>1, LongerFacts DEF Apart
  <2>3. Held(c, f) = L \cup S \cup G  BY <1>2 DEF Held
  <2> HIDE DEF L, B, S, G, n
  <2>4. <<s, v>> \in L => s[1] \in Smaller(n)  BY <2>2 DEF Starts
  <2>5. <<s, v>> \in G => s[1] \in Larger(n)  BY <2>2 DEF Starts
  <2>6. <<s, v>> \in S => s[1] = n  BY <2>2 DEF Starts
  <2>7. CASE step = "less"
    <3>1. s[1] \in Smaller(n) /\ t = s  BY <1>2, <2>7 DEF Toward, n
    <3>2. s[1] \notin Larger(n) /\ s[1] # n  BY <2>1, <3>1 DEF Smaller, Larger
    <3> QED  BY <2>3, <2>5, <2>6, <2>7, <3>1, <3>2 DEF L
  <2>8. CASE step = "greater"
    <3>1. s[1] \in Larger(n) /\ t = s  BY <1>2, <2>8 DEF Toward, n
    <3>2. s[1] \notin Smaller(n) /\ s[1] # n  BY <2>1, <3>1 DEF Smaller, Larger
    <3> QED  BY <2>3, <2>4, <2>6, <2>8, <3>1, <3>2 DEF G
  <2>9. CASE step = "same"
    <3>1. s = <<n>> \o t  BY <1>2, <2>9 DEF Toward, n
    <3>2. s[1] = n  BY <2>1, <3>1, Cons
    <3>3. n \notin Smaller(n) /\ n \notin Larger(n)  BY <2>1 DEF Smaller, Larger
    <3>4. <<s, v>> \in Held(c, f) <=> <<s, v>> \in S  BY <2>3, <2>4, <2>5, <3>2, <3>3
    <3>5. <<t, v>> \in B => <<s, v>> \in S  BY <3>1 DEF S, Longer
    <3>6. ASSUME <<s, v>> \in S PROVE <<t, v>> \in B
      <4>1. PICK b \in B : <<s, v>> = << <<n>> \o b[1], b[2] >>  BY <3>6 DEF S, Longer
      <4>2. b[1] \in Text /\ b = <<b[1], b[2]>>  BY <2>1 DEF Good
      <4>3. PICK k \in Text : k = b[1]  BY <4>2
      <4>4. <<n>> \o k = <<n>> \o t  BY <3>1, <4>1, <4>3
      <4>5. k = t  BY <2>1, <4>4, Cons
      <4> QED  BY <4>1, <4>2, <4>3, <4>5
    <3> QED  BY <2>9, <3>4, <3>5, <3>6 DEF B
  <2> QED  BY <1>2, <2>7, <2>8, <2>9 DEF Toward
<1> QED  BY <1>1, <1>2, CellForms

-----------------------------------------------------------------------------
(***************************************************************************)
(* The walk down.                                                          *)
(***************************************************************************)
LEMMA BeginWalks ==
  ASSUME TypeOK, NEW name \in {"get", "insert", "remove"}, NEW key \in Keys,
         NEW value \in Values \cup {Missing}, Begin(name, key, value),
         IF name = "insert" THEN value \in Values ELSE value = Missing
  PROVE  TypeOK' /\ WalkRight'
<1>1. /\ call' = [name |-> name, key |-> key, value |-> value] /\ node' = map /\ at' = 0 /\ path' = << >>
      /\ UNCHANGED <<cells, map, answer>>
  BY DEF Begin, listing
<1>2. call' \in CallsMade  BY <1>1 DEF CallsMade
<1>3. TypeOK'  BY <1>1, <1>2 DEF TypeOK
<1>4. call'.key = key /\ key \in Text /\ Drop(key, 0) = key /\ 0 \in 0 .. Len(key)
  BY <1>1, KeysAssumption, DropFacts DEF Text
<1>5. OnPath' /\ Top(cells, map, path)' = map /\ Place(path)' = 0
  BY <1>1, PathEmpty DEF OnPath, Top, Place
<1>6. WalkRight'
  BY <1>1, <1>4, <1>5 DEF WalkRight, Bound
<1> QED  BY <1>3, <1>6

LEMMA DescendWalks ==
  ASSUME TypeOK, WalkRight, Descend
  PROVE  TypeOK' /\ WalkRight'
<1> DEFINE key == call.key  c == Cell(node)
           step == IF c.tag = "end" THEN "rest" ELSE Side(c)  f == Frame(step)
<1>1. /\ Walking /\ node # 0 /\ ~Ended /\ UNCHANGED <<cells, map, answer, call>>
      /\ node' = c[step] /\ path' = << f >> \o path
      /\ at' = IF step = "same" THEN at + 1 ELSE at
  BY DEF Descend, Stopped
<1>2. key \in Text /\ Len(key) \in Nat  BY <1>1, CallForms DEF Walking, Text
<1>3. /\ OnPath /\ node = Top(cells, map, path) /\ at = Place(path) /\ at \in 0 .. Len(key)
      /\ \A v \in Values : <<Drop(key, at), v>> \in Bound(node) <=> <<key, v>> \in Bound(map)
  BY <1>1 DEF WalkRight
<1>4. at \in 0 .. Len(key) - 1  BY <1>1, <1>2, <1>3 DEF Ended
<1>5. HeapRight(cells) /\ node \in 0 .. Len(cells) /\ call \in CallsMade /\ map \in 0 .. Len(cells) /\ answer \in Values \cup {Missing}
  BY DEF TypeOK
<1>6. node \in DOMAIN cells /\ c = cells[node] /\ node \in Nat
  BY <1>1, <1>5, HeapFacts DEF Cell
<1>7. c \in CellsOf(0 .. Len(cells)) /\ Apart(c, BoundIn(cells)) /\ Bound(node) = Held(c, BoundIn(cells))
      /\ \A p \in 0 .. Len(cells) : Good(BoundIn(cells)[p])
  BY <1>5, <1>6, HeapFacts DEF Bound
<1>8. key[at + 1] \in Nat  BY <1>2, <1>4, DropFacts
<1>9. Turn(c, key[at + 1], step) /\ step \in Steps
  <2>1. CASE c.tag = "end"  BY <2>1 DEF Turn, Steps
  <2>2. CASE c.tag = "char"
    <3>1. c.code \in Nat  BY <1>7, <2>2, CellForms
    <3> DEFINE k == key[at + 1]
    <3>2. step = IF k < c.code THEN "less" ELSE IF k = c.code THEN "same" ELSE "greater"
      BY <2>2 DEF Side, Here
    <3> HIDE DEF step, k
    <3> QED  BY <1>8, <2>2, <3>1, <3>2 DEF Turn, Steps, k
  <2> QED  BY <2>1, <2>2, <1>7, CellForms
<1> HIDE DEF step, c, key
<1>10. f \in Frames /\ f.node = node /\ f.at = at /\ f.step = step
  BY <1>4, <1>6, <1>9 DEF Frame, Frames
<1> HIDE DEF f
<1>11. FrameRight(cells, key, f)  BY <1>4, <1>6, <1>9, <1>10 DEF FrameRight
<1>12. PathRight(cells, key, map, path')  /\ Top(cells, map, path') = Leads(cells, f) /\ Place(path') = After(f)
  <2>1. PathRight(cells, key, map, path)  BY <1>3 DEF OnPath, key
  <2> QED  BY <1>1, <1>3, <1>10, <1>11, <2>1, PathPush
<1>13. /\ After(f) \in 0 .. Len(key) /\ Leads(cells, f) \in 0 .. Len(cells)
       /\ Toward(c, step, Drop(key, at), Drop(key, After(f)))
  BY <1>2, <1>5, <1>6, <1>10, <1>11, FrameLeads
<1>14. node' = Leads(cells, f) /\ at' = After(f)
  BY <1>1, <1>6, <1>10 DEF Leads, After
<1>15. Drop(key, at) \in Text /\ Drop(key, After(f)) \in Text  BY <1>2, <1>3, <1>13, DropFacts
<1>16. \A v \in Values : <<Drop(key, at), v>> \in Bound(node) <=> <<Drop(key, at'), v>> \in BoundIn(cells)[c[step]]
  BY <1>7, <1>13, <1>14, <1>15, TowardSame
<1>17. TypeOK'
  BY <1>1, <1>5, <1>13, <1>14 DEF TypeOK
<1>18. WalkRight'
  <2>1. OnPath'  BY <1>1, <1>12 DEF OnPath, key
  <2>2. Bound(node)' = BoundIn(cells)[c[step]] /\ Bound(map)' = Bound(map)  BY <1>1 DEF Bound
  <2>3. call'.key = key  BY <1>1 DEF key
  <2>4. \A v \in Values : <<Drop(call.key, at), v>>' \in Bound(node)' <=> <<call.key, v>>' \in Bound(map)'
    BY <1>3, <1>16, <2>2, <2>3
  <2>5. node' = Top(cells, map, path)' /\ at' = Place(path)' /\ at' \in 0 .. Len(call'.key)
    BY <1>1, <1>12, <1>13, <1>14, <2>3
  <2> QED  BY <2>1, <2>4, <2>5 DEF WalkRight
<1> QED  BY <1>17, <1>18

-----------------------------------------------------------------------------
(***************************************************************************)
(* The change at the node reached, and the walk up.                        *)
(***************************************************************************)
\* What a node made keeps, and what it is bound to.
LEMMA MakeKeeps ==
  ASSUME TypeOK, NEW c \in CellsOf(0 .. Len(cells)), Apart(c, BoundIn(cells)), Make(c)
  PROVE  /\ HeapRight(cells') /\ node' \in 0 .. Len(cells')
         /\ 0 .. Len(cells) \subseteq 0 .. Len(cells')
         /\ BoundIn(cells')[node'] = Held(c, BoundIn(cells))
         /\ \A p \in 0 .. Len(cells) : BoundIn(cells')[p] = BoundIn(cells)[p]
         /\ \A key, m, w : PathRight(cells, key, m, w) =>
              PathRight(cells', key, m, w) /\ Top(cells', m, w) = Top(cells, m, w)
<1>1. HeapRight(cells) /\ Grown(cells, c, cells') /\ node' = Len(cells) + 1
  BY DEF TypeOK, Make, Grown
<1>2. /\ HeapRight(cells') /\ Len(cells') = Len(cells) + 1 /\ Len(cells) \in Nat
      /\ \A p \in DOMAIN cells : p \in DOMAIN cells' /\ cells'[p] = cells[p]
      /\ \A p \in 0 .. Len(cells) : BoundIn(cells')[p] = BoundIn(cells)[p]
      /\ BoundIn(cells')[Len(cells) + 1] = Held(c, BoundIn(cells))
  BY <1>1, HeapGrows
<1>3. node' \in 0 .. Len(cells') /\ 0 .. Len(cells) \subseteq 0 .. Len(cells')  BY <1>1, <1>2
<1> QED  BY <1>1, <1>2, <1>3, PathKept

LEMMA CharStarts ==
  ASSUME NEW ps, NEW c \in CellsOf(ps), c.tag = "char", NEW f, \A p \in ps : Good(f[p]), Apart(c, f)
  PROVE  Starts(Held(c, f), Nat)
<1> DEFINE n == c.code  L == f[c.less]  S == Longer(n, f[c.same])  G == f[c.greater]
<1>1. n \in Nat /\ Starts(L, Smaller(n)) /\ Starts(G, Larger(n)) /\ Starts(S, {n})
  BY CellForms, LongerFacts DEF Apart
<1>2. Held(c, f) = L \cup S \cup G  BY DEF Held
<1> HIDE DEF n, L, S, G
<1> QED  BY <1>1, <1>2 DEF Starts, Smaller, Larger

\* What a walk that stops has found.
LEMMA StopsAt ==
  ASSUME TypeOK, WalkRight, Walking, Stopped
  PROVE  LET c == Cell(node)  f == BoundIn(cells)
         IN  \/ c.tag = "empty" /\ node = 0 /\ Bound(node) = {}
             \/ /\ c.tag = "end" /\ c.value \in Values /\ c.rest \in 0 .. Len(cells)
                /\ Drop(call.key, at) = << >>
                /\ Bound(node) = {<< << >>, c.value>>} \cup f[c.rest] /\ Starts(f[c.rest], Nat)
             \/ /\ c.tag = "char" /\ Drop(call.key, at) = << >> /\ Starts(Bound(node), Nat)
<1> DEFINE c == Cell(node)  f == BoundIn(cells)
<1>1. HeapRight(cells) /\ node \in 0 .. Len(cells)  BY DEF TypeOK
<1>2. CASE node = 0
  <2>1. c.tag = "empty"  BY <1>2 DEF Cell, Empty
  <2>2. Bound(node) = {}  BY <1>1, <1>2, HeapFacts DEF Bound
  <2> QED  BY <1>2, <2>1, <2>2
<1>3. CASE node # 0
  <2>1. node \in DOMAIN cells  BY <1>1, <1>3, HeapFacts
  <2>2. /\ c \in CellsOf(0 .. Len(cells)) /\ Apart(c, f) /\ Bound(node) = Held(c, f)
        /\ \A p \in 0 .. Len(cells) : Good(f[p])
    BY <1>1, <1>3, <2>1, HeapFacts DEF Bound, Cell
  <2>3. call.key \in Text  BY CallForms DEF Walking
  <2>4. Drop(call.key, at) = << >>  BY <1>3, <2>3, DropFacts DEF Stopped, Ended
  <2> HIDE DEF c, f
  <2>5. CASE c.tag = "end"
    <3>1. c.value \in Values /\ c.rest \in 0 .. Len(cells)  BY <2>2, <2>5, CellForms
    <3>2. Bound(node) = {<< << >>, c.value>>} \cup f[c.rest] /\ Starts(f[c.rest], Nat)
      BY <2>2, <2>5 DEF Held, Apart
    <3> QED  BY <2>4, <2>5, <3>1, <3>2 DEF c, f
  <2>6. CASE c.tag = "char"
    <3>1. Starts(Bound(node), Nat)  BY <2>2, <2>6, CharStarts
    <3> QED  BY <2>4, <2>6, <3>1 DEF c, f
  <2> QED  BY <2>2, <2>5, <2>6, CellForms
<1> QED  BY <1>2, <1>3

LEMMA InsertRight ==
  ASSUME TypeOK, WalkRight, InsertHere
  PROVE  TypeOK' /\ SingleRight' /\ RebuildRight' /\ call'.name \in {"single", "rebuild"}
         /\ Bound(map)' = Bound(map)
<1> DEFINE c == Cell(node)  f == BoundIn(cells)  key == call.key  v == call.value
<1>1. /\ call.name = "insert" /\ Walking /\ Stopped /\ UNCHANGED <<map, answer, at, path>>
  BY DEF InsertHere, Walking, listing
<1>2. key \in Text /\ key \in Keys /\ Len(key) \in Nat /\ v \in Values /\ v # Missing
      /\ call = [name |-> "insert", key |-> key, value |-> v]
  BY <1>1, CallForms DEF Text
<1>3. OnPath /\ node = Top(cells, map, path) /\ at = Place(path) /\ at \in 0 .. Len(key)
  BY <1>1 DEF WalkRight
<1>4. HeapRight(cells) /\ node \in 0 .. Len(cells) /\ map \in 0 .. Len(cells) /\ answer \in Values \cup {Missing}
  BY DEF TypeOK
<1>5. f[0] = {} /\ 0 \in 0 .. Len(cells)  BY <1>4, HeapFacts
<1>6. /\ New(<< >>, v) = {<< << >>, v>>}  BY <1>2 DEF New
<1>7. CASE c.tag = "empty"
  <2> DEFINE d == End(v, 0)
  <2>1. Make(d) /\ call' = [call EXCEPT !.name = "single"] /\ upto' = Len(key)
    BY <1>7 DEF InsertHere, Goto
  <2>2. d \in CellsOf(0 .. Len(cells)) /\ Apart(d, f) /\ Held(d, f) = {<< << >>, v>>}
    BY <1>2, <1>5 DEF CellsOf, End, Apart, Held, Starts
  <2> HIDE DEF d
  <2>3. /\ HeapRight(cells') /\ node' \in 0 .. Len(cells') /\ 0 .. Len(cells) \subseteq 0 .. Len(cells')
        /\ BoundIn(cells')[node'] = {<< << >>, v>>} /\ BoundIn(cells')[map] = f[map]
        /\ PathRight(cells', key, map, path) /\ Top(cells', map, path) = node
    BY <1>3, <1>4, <2>1, <2>2, MakeKeeps DEF OnPath
  <2>4. call' = [name |-> "single", key |-> key, value |-> v]  BY <1>2, <2>1
  <2>5. call' \in CallsMade  BY <1>2, <2>4 DEF CallsMade
  <2>6. TypeOK'  BY <1>1, <1>4, <2>3, <2>5 DEF TypeOK
  <2>7. node = 0  BY <1>1, <1>7, StopsAt
  <2>8. Drop(key, Len(key)) = << >>  BY <1>2, DropFacts
  <2>9. SingleRight'
    <3>1. OnPath' /\ Top(cells', map', path') = 0 /\ at' = Place(path')
      BY <1>1, <1>3, <2>3, <2>4, <2>7 DEF OnPath, Place
    <3>2. at' \in 0 .. Len(call'.key) /\ upto' \in at' .. Len(call'.key)
      BY <1>1, <1>2, <1>3, <2>1, <2>4
    <3>3. Bound(node)' = {<<Drop(call'.key, upto'), call'.value>>}  BY <2>1, <2>3, <2>4, <2>8 DEF Bound
    <3> QED  BY <3>1, <3>2, <3>3 DEF SingleRight, Top, Leads
  <2> QED  BY <1>1, <2>3, <2>4, <2>6, <2>9 DEF RebuildRight, Bound
<1>8. ASSUME NEW p \in 0 .. Len(cells), Starts(f[p], Nat), Make(End(v, p)), Goto("rebuild"),
             Drop(key, at) = << >>, {b \in Bound(node) : b[1] # << >>} = f[p]
      PROVE  TypeOK' /\ RebuildRight' /\ call'.name = "rebuild" /\ Bound(map)' = Bound(map)
  <2> DEFINE d == End(v, p)
  <2>1. d \in CellsOf(0 .. Len(cells)) /\ Apart(d, f) /\ Held(d, f) = {<< << >>, v>>} \cup f[p]
    BY <1>2, <1>8 DEF CellsOf, End, Apart, Held
  <2>2. Make(d)  BY <1>8
  <2> HIDE DEF d
  <2>3. /\ HeapRight(cells') /\ node' \in 0 .. Len(cells') /\ 0 .. Len(cells) \subseteq 0 .. Len(cells')
        /\ BoundIn(cells')[node'] = {<< << >>, v>>} \cup f[p] /\ BoundIn(cells')[map] = f[map]
        /\ PathRight(cells', key, map, path) /\ Top(cells', map, path) = node
        /\ BoundIn(cells')[node] = Bound(node)
    BY <1>3, <1>4, <2>1, <2>2, MakeKeeps DEF OnPath, Bound
  <2>4. call' = [name |-> "rebuild", key |-> key, value |-> v]  BY <1>2, <1>8 DEF Goto
  <2>5. call' \in CallsMade  BY <1>2, <2>4 DEF CallsMade
  <2>6. TypeOK'  BY <1>1, <1>4, <2>3, <2>5 DEF TypeOK
  <2>7. {<< << >>, v>>} \cup f[p] = Change(Bound(node), << >>, v)  BY <1>6, <1>8 DEF Change
  <2>8. OnPath'  BY <1>1, <2>3, <2>4 DEF OnPath
  <2>9. Top(cells', map', path') = node /\ Drop(call'.key, Place(path')) = << >> /\ call'.value = v
    BY <1>1, <1>3, <1>8, <2>3, <2>4 DEF Place
  <2>10. RebuildRight'
    BY <2>3, <2>7, <2>8, <2>9 DEF RebuildRight, Bound, Top, Leads, Place, Drop
  <2> QED  BY <1>1, <2>3, <2>4, <2>6, <2>10 DEF Bound
<1>9. CASE c.tag = "end"
  <2>1. /\ c.rest \in 0 .. Len(cells) /\ Drop(key, at) = << >> /\ Starts(f[c.rest], Nat)
        /\ Bound(node) = {<< << >>, c.value>>} \cup f[c.rest]
    BY <1>1, <1>9, StopsAt
  <2>2. {b \in Bound(node) : b[1] # << >>} = f[c.rest]  BY <2>1 DEF Starts
  <2>3. Make(End(v, c.rest)) /\ Goto("rebuild")  BY <1>9 DEF InsertHere
  <2>4. TypeOK' /\ RebuildRight' /\ call'.name = "rebuild" /\ Bound(map)' = Bound(map)  BY <1>8, <2>1, <2>2, <2>3
  <2> QED  BY <2>4 DEF SingleRight
<1>10. CASE c.tag = "char"
  <2>1. Drop(key, at) = << >> /\ Starts(f[node], Nat)  BY <1>1, <1>10, StopsAt DEF Bound
  <2>2. {b \in Bound(node) : b[1] # << >>} = f[node]  BY <2>1 DEF Starts, Bound
  <2>3. Make(End(v, node)) /\ Goto("rebuild")  BY <1>10 DEF InsertHere
  <2>4. TypeOK' /\ RebuildRight' /\ call'.name = "rebuild" /\ Bound(map)' = Bound(map)  BY <1>4, <1>8, <2>1, <2>2, <2>3
  <2> QED  BY <2>4 DEF SingleRight
<1> QED  BY <1>1, <1>7, <1>9, <1>10, StopsAt
LEMMA SingleStep ==
  ASSUME TypeOK, SingleRight, Single
  PROVE  TypeOK' /\ SingleRight' /\ RebuildRight' /\ call'.name \in {"single", "rebuild"}
         /\ Bound(map)' = Bound(map)
<1> DEFINE f == BoundIn(cells)  key == call.key  v == call.value
<1>1. /\ call.name = "single" /\ UNCHANGED <<map, answer, at, path>>
  BY DEF Single, listing
<1>2. key \in Text /\ key \in Keys /\ Len(key) \in Nat /\ v \in Values /\ v # Missing
      /\ call = [name |-> "single", key |-> key, value |-> v]
  BY <1>1, CallForms DEF Text
<1>3. /\ OnPath /\ Top(cells, map, path) = 0 /\ at = Place(path) /\ at \in 0 .. Len(key)
      /\ upto \in at .. Len(key) /\ f[node] = {<<Drop(key, upto), v>>}
  BY <1>1 DEF SingleRight, Bound
<1>4. HeapRight(cells) /\ node \in 0 .. Len(cells) /\ map \in 0 .. Len(cells) /\ answer \in Values \cup {Missing}
  BY DEF TypeOK
<1>5. f[0] = {} /\ 0 \in 0 .. Len(cells)  BY <1>4, HeapFacts
<1>6. CASE upto > at
  <2> DEFINE n == upto - 1  code == key[upto]  d == Char(code, 0, node, 0)
  <2>1. Make(d) /\ upto' = n /\ UNCHANGED call  BY <1>6 DEF Single
  <2>2. n \in 0 .. Len(key) - 1 /\ n + 1 = upto /\ n \in at .. Len(key)  BY <1>2, <1>3, <1>6
  <2>3. Drop(key, n) = <<code>> \o Drop(key, upto) /\ code \in Nat
    <3>1. Drop(key, n) = <<key[n + 1]>> \o Drop(key, n + 1) /\ key[n + 1] \in Nat  BY <1>2, <2>2, DropFacts
    <3> QED  BY <2>2, <3>1
  <2>4. Longer(code, f[node]) = {<<Drop(key, n), v>>}
    <3>1. Longer(code, {<<Drop(key, upto), v>>}) = {<< <<code>> \o Drop(key, upto), v>>}  BY DEF Longer
    <3> QED  BY <1>3, <2>3, <3>1
  <2>5. d \in CellsOf(0 .. Len(cells)) /\ Apart(d, f) /\ Held(d, f) = {<<Drop(key, n), v>>}
    BY <1>4, <1>5, <2>3, <2>4 DEF CellsOf, Char, Apart, Held, Starts
  <2> HIDE DEF d, n
  <2>6. /\ HeapRight(cells') /\ node' \in 0 .. Len(cells') /\ 0 .. Len(cells) \subseteq 0 .. Len(cells')
        /\ BoundIn(cells')[node'] = {<<Drop(key, n), v>>} /\ BoundIn(cells')[map] = f[map]
        /\ PathRight(cells', key, map, path) /\ Top(cells', map, path) = 0
    BY <1>3, <1>4, <2>1, <2>5, MakeKeeps DEF OnPath
  <2>7. TypeOK'  BY <1>1, <1>4, <2>1, <2>6 DEF TypeOK
  <2>8. SingleRight'
    <3>1. OnPath' /\ Top(cells', map', path') = 0 /\ at' = Place(path')
      BY <1>1, <1>3, <2>1, <2>6 DEF OnPath, Place
    <3>2. at' \in 0 .. Len(call'.key) /\ upto' \in at' .. Len(call'.key)
      BY <1>1, <1>3, <2>1, <2>2
    <3>3. Bound(node)' = {<<Drop(call'.key, upto'), call'.value>>}  BY <2>1, <2>6 DEF Bound
    <3> QED  BY <3>1, <3>2, <3>3 DEF SingleRight, Top, Leads
  <2> QED  BY <1>1, <2>1, <2>6, <2>7, <2>8 DEF RebuildRight, Bound
<1>7. CASE ~(upto > at)
  <2>1. Goto("rebuild") /\ UNCHANGED <<cells, node, upto>>  BY <1>7 DEF Single
  <2>2. upto = at  BY <1>2, <1>3, <1>7
  <2>3. call' = [name |-> "rebuild", key |-> key, value |-> v]  BY <1>2, <2>1 DEF Goto
  <2>4. call' \in CallsMade  BY <1>2, <2>3 DEF CallsMade
  <2>5. TypeOK'  BY <1>1, <1>4, <2>1, <2>4 DEF TypeOK
  <2>6. f[node] = Change({}, Drop(key, at), v)  BY <1>2, <1>3, <2>2 DEF Change, New
  <2>7. RebuildRight'
    <3>1. OnPath'  BY <1>1, <1>3, <2>1, <2>3 DEF OnPath
    <3>2. Bound(node)' = f[node] /\ Bound(Top(cells, map, path))' = {}
      BY <1>1, <1>3, <1>5, <2>1 DEF Bound, Top, Leads
    <3>3. Drop(call.key, Place(path))' = Drop(key, at) /\ call'.value = v
      BY <1>1, <1>3, <2>3 DEF Drop, Place, After
    <3> QED  BY <2>6, <3>1, <3>2, <3>3 DEF RebuildRight
  <2> QED  BY <1>1, <2>1, <2>3, <2>5, <2>7 DEF SingleRight, Bound
<1> QED  BY <1>6, <1>7

LEMMA RemoveRight ==
  ASSUME TypeOK, WalkRight, RemoveHere
  PROVE  TypeOK' /\ RebuildRight' /\ call'.name = "rebuild"
<1> DEFINE c == Cell(node)  f == BoundIn(cells)  key == call.key
<1>1. /\ call.name = "remove" /\ Walking /\ Stopped /\ UNCHANGED <<cells, map, answer, at, path>>
      /\ node' = (IF c.tag = "end" THEN c.rest ELSE node) /\ call' = [call EXCEPT !.name = "rebuild"]
  BY DEF RemoveHere, Walking, listing, Goto
<1>2. key \in Text /\ key \in Keys /\ call = [name |-> "remove", key |-> key, value |-> Missing]
  BY <1>1, CallForms
<1>3. OnPath /\ node = Top(cells, map, path) /\ at = Place(path) /\ at \in 0 .. Len(key)
  BY <1>1 DEF WalkRight
<1>4. HeapRight(cells) /\ node \in 0 .. Len(cells) /\ map \in 0 .. Len(cells) /\ answer \in Values \cup {Missing}
  BY DEF TypeOK
<1>5. call' = [name |-> "rebuild", key |-> key, value |-> Missing]  BY <1>1, <1>2
<1>6. call' \in CallsMade  BY <1>2, <1>5 DEF CallsMade
<1>7. node' \in 0 .. Len(cells)  BY <1>1, <1>4, StopsAt
<1>8. TypeOK'  BY <1>1, <1>4, <1>6, <1>7 DEF TypeOK
<1>9. f[node'] = Change(f[node], Drop(key, at), Missing)
  <2>1. New(Drop(key, at), Missing) = {}  BY DEF New
  <2>2. f[node'] = {b \in f[node] : b[1] # Drop(key, at)}
    <3>1. CASE c.tag = "empty"
      <4>1. node' = node /\ f[node] = {}  BY <1>1, <3>1, StopsAt DEF Bound
      <4> QED  BY <4>1
    <3>2. CASE c.tag = "end"
      <4>1. node' = c.rest /\ Drop(key, at) = << >> /\ f[node] = {<< << >>, c.value>>} \cup f[c.rest] /\ Starts(f[c.rest], Nat)
        BY <1>1, <3>2, StopsAt DEF Bound
      <4> HIDE DEF f, c
      <4> QED  BY <4>1 DEF Starts
    <3>3. CASE c.tag = "char"
      <4>1. node' = node /\ Drop(key, at) = << >> /\ Starts(f[node], Nat)  BY <1>1, <3>3, StopsAt DEF Bound
      <4> HIDE DEF f, c
      <4> QED  BY <4>1 DEF Starts
    <3> QED  BY <1>1, <3>1, <3>2, <3>3, StopsAt
  <2> QED  BY <2>1, <2>2 DEF Change
<1>10. RebuildRight'
  <2>1. OnPath'  BY <1>1, <1>3, <1>5 DEF OnPath
  <2>2. Bound(node)' = f[node'] /\ Bound(Top(cells, map, path))' = f[node]
    BY <1>1, <1>3 DEF Bound, Top, Leads
  <2>3. Drop(call.key, Place(path))' = Drop(key, at) /\ call'.value = Missing
    <3>1. Place(path)' = at /\ call'.key = key /\ call'.value = Missing  BY <1>1, <1>3, <1>5 DEF Place, After
    <3> QED  BY <3>1 DEF Drop
  <2> QED  BY <1>9, <2>1, <2>2, <2>3 DEF RebuildRight
<1> QED  BY <1>5, <1>8, <1>10

LEMMA RebuildStep ==
  ASSUME TypeOK, RebuildRight, Rebuild
  PROVE  TypeOK' /\ RebuildRight' /\ call' = call /\ Bound(map)' = Bound(map)
<1> DEFINE f == BoundIn(cells)  key == call.key  v == call.value  e == path[1]  w == Tail(path)
           c == cells[e.node]  d == Copy(c, e.step, node)
           s == Drop(key, e.at)  t == Drop(key, After(e))
<1>1. call.name = "rebuild" /\ path # << >> /\ path' = w /\ UNCHANGED <<map, answer, call>>
  BY DEF Rebuild, listing
<1>2. key \in Text  BY <1>1, CallForms
<1>3. /\ PathRight(cells, key, map, path) /\ Top(cells, map, path) = Leads(cells, e)
      /\ f[node] = Change(f[Leads(cells, e)], t, v)
  BY <1>1 DEF RebuildRight, OnPath, Bound, Top, Place
<1>4. HeapRight(cells) /\ node \in 0 .. Len(cells) /\ map \in 0 .. Len(cells) /\ answer \in Values \cup {Missing} /\ call \in CallsMade
  BY DEF TypeOK
<1>5. /\ Head(path) = e /\ e \in Frames /\ FrameRight(cells, key, e) /\ PathRight(cells, key, map, w)
      /\ e.node = Top(cells, map, w) /\ e.at = Place(w)
  BY <1>1, <1>3, PathPop
<1>6. e.node \in DOMAIN cells /\ e.at \in 0 .. Len(key)
  <2>1. e.node \in DOMAIN cells /\ e.at \in 0 .. Len(key) - 1 /\ Len(key) \in Nat  BY <1>2, <1>5 DEF FrameRight, Text
  <2> QED  BY <2>1
<1>7. Make(d)
  <2>1. e.node # 0  BY <1>4, <1>6, HeapFacts
  <2> QED  BY <1>5, <2>1 DEF Rebuild, Cell
<1>8. After(e) \in 0 .. Len(key) /\ Leads(cells, e) = c[e.step] /\ Toward(c, e.step, s, t)
  BY <1>2, <1>4, <1>5, FrameLeads DEF Leads
<1>9. s \in Text /\ t \in Text  BY <1>2, <1>6, <1>8, DropFacts
<1>10. /\ c \in CellsOf(0 .. Len(cells)) /\ Apart(c, f) /\ f[e.node] = Held(c, f)
       /\ \A p \in 0 .. Len(cells) : Good(f[p])
  BY <1>4, <1>6, HeapFacts
<1>11. d \in CellsOf(0 .. Len(cells)) /\ Held(d, f) = Change(f[e.node], s, v) /\ Apart(d, f)
  <2> DEFINE step == e.step  ps == 0 .. Len(cells)
  <2>1. Changed(f, node, c, step, t, v) /\ Toward(c, step, s, t)  BY <1>3, <1>8 DEF Changed
  <2>2. node \in ps /\ c \in CellsOf(ps) /\ Apart(c, f) /\ \A p \in ps : Good(f[p])  BY <1>4, <1>10
  <2> HIDE DEF f, c, s, t, d, step, v, ps
  <2>3. /\ Copy(c, step, node) \in CellsOf(ps) /\ Held(Copy(c, step, node), f) = Change(Held(c, f), s, v)
        /\ Apart(Copy(c, step, node), f)
    BY <1>9, <2>1, <2>2, HeldChanges
  <2> QED  BY <1>10, <2>3 DEF d, step, ps
<1> HIDE DEF d
<1>12. /\ HeapRight(cells') /\ node' \in 0 .. Len(cells') /\ 0 .. Len(cells) \subseteq 0 .. Len(cells')
       /\ BoundIn(cells')[node'] = Change(f[e.node], s, v)
       /\ PathRight(cells', key, map, w) /\ Top(cells', map, w) = e.node
       /\ BoundIn(cells')[e.node] = f[e.node] /\ BoundIn(cells')[map] = f[map]
  <2>1. e.node \in 0 .. Len(cells)  BY <1>4, <1>6, HeapFacts
  <2> QED  BY <1>4, <1>5, <1>7, <1>11, <2>1, MakeKeeps
<1>13. TypeOK'  BY <1>1, <1>4, <1>12 DEF TypeOK
<1>14. RebuildRight'
  <2>1. OnPath'  BY <1>1, <1>12 DEF OnPath
  <2>2. Bound(node)' = Change(f[e.node], s, v) /\ Bound(Top(cells, map, path))' = f[e.node]
    BY <1>1, <1>12 DEF Bound, Top, Leads
  <2>3. Drop(call.key, Place(path))' = s /\ call'.value = v
    BY <1>1, <1>5 DEF Drop, Place, After
  <2> QED  BY <2>1, <2>2, <2>3 DEF RebuildRight
<1> QED  BY <1>1, <1>12, <1>13, <1>14 DEF Bound

\* What map_insert and map_remove change of the map.
LEMMA RebuiltChanges ==
  ASSUME TypeOK, RebuildRight, Rebuilt
  PROVE  TypeOK' /\ call.key \in Keys /\ Bound(map)' = Change(Bound(map), call.key, call.value)
<1>1. call.name = "rebuild" /\ path = << >> /\ map' = node /\ call' = Idle /\ node' = 0 /\ UNCHANGED <<cells, answer>>
  BY DEF Rebuilt, Return, listing
<1>2. call.key \in Text /\ call.key \in Keys  BY <1>1, CallForms
<1>3. Bound(node) = Change(Bound(map), call.key, call.value)
  BY <1>1, <1>2, PathEmpty, DropFacts DEF RebuildRight
<1>4. 0 \in 0 .. Len(cells)
  <2>1. Len(cells) \in Nat  BY HeapFacts DEF TypeOK
  <2> QED  BY <2>1
<1>5. TypeOK'  BY <1>1, <1>4 DEF TypeOK, CallsMade
<1>6. Bound(map)' = Bound(node)  BY <1>1 DEF Bound
<1> QED  BY <1>2, <1>3, <1>5, <1>6

\* What map_get answers.
LEMMA GetRight ==
  ASSUME TypeOK, WalkRight, GetDone
  PROVE  /\ TypeOK'
         /\ \A v \in Values : answer' = v <=> <<call.key, v>> \in Bound(map)
         /\ answer' \in Values \cup {Missing}
<1> DEFINE c == Cell(node)  f == BoundIn(cells)
<1>1. /\ call.name = "get" /\ Walking /\ Stopped /\ UNCHANGED <<cells, map>>
      /\ answer' = (IF c.tag = "end" THEN c.value ELSE Missing) /\ call' = Idle /\ node' = 0
  BY DEF GetDone, Walking, Return, listing
<1>2. \A v \in Values : <<Drop(call.key, at), v>> \in Bound(node) <=> <<call.key, v>> \in Bound(map)
  BY <1>1 DEF WalkRight
<1>3. \A v \in Values : answer' = v <=> <<Drop(call.key, at), v>> \in Bound(node)
  <2>1. CASE c.tag = "empty"
    <3>1. Bound(node) = {} /\ answer' = Missing  BY <1>1, <2>1, StopsAt
    <3> QED  BY <3>1, KeysAssumption
  <2>2. CASE c.tag = "end"
    <3>1. /\ answer' = c.value /\ Drop(call.key, at) = << >> /\ Starts(f[c.rest], Nat)
          /\ Bound(node) = {<< << >>, c.value>>} \cup f[c.rest]
      BY <1>1, <2>2, StopsAt
    <3> HIDE DEF c, f
    <3> QED  BY <3>1 DEF Starts
  <2>3. CASE c.tag = "char"
    <3>1. answer' = Missing /\ Drop(call.key, at) = << >> /\ Starts(Bound(node), Nat)
      BY <1>1, <2>3, StopsAt
    <3> QED  BY <3>1, KeysAssumption DEF Starts
  <2> QED  BY <1>1, <2>1, <2>2, <2>3, StopsAt
<1>4. answer' \in Values \cup {Missing}  BY <1>1, StopsAt
<1>5. 0 \in 0 .. Len(cells)
  <2>1. Len(cells) \in Nat  BY HeapFacts DEF TypeOK
  <2> QED  BY <2>1
<1>6. TypeOK'  BY <1>1, <1>4, <1>5 DEF TypeOK, CallsMade
<1> QED  BY <1>2, <1>3, <1>4, <1>6
-----------------------------------------------------------------------------
(***************************************************************************)
(* The listing.                                                            *)
(***************************************************************************)
Precede(bs, cs) == \A b \in bs, c \in cs : Before(b[1], c[1])
Prefixed(p, bs) == {<<p \o b[1], b[2]>> : b \in bs}

LEMMA BeforeFirst ==
  ASSUME NEW a \in Text, NEW b \in Text, b # << >>, a = << >> \/ a[1] < b[1]
  PROVE  Before(a, b)
<1>1. Len(a) \in Nat /\ Len(b) \in Nat \ {0} /\ (a = << >> => Len(a) = 0)  BY DEF Text
<1>2. 1 \in 1 .. Len(b) /\ 1 <= Len(a) + 1 /\ 1 .. 1 - 1 = {} /\ (a = << >> => 1 = Len(a) + 1)  BY <1>1
<1> QED  BY <1>2 DEF Before

LEMMA BeforePrefixed ==
  ASSUME NEW p \in Text, NEW a \in Text, NEW b \in Text, Before(a, b)
  PROVE  Before(p \o a, p \o b)
<1> DEFINE x == p \o a  y == p \o b  n == Len(p)
<1>1. Len(a) \in Nat /\ Len(b) \in Nat /\ n \in Nat  BY DEF Text
<1>2. /\ Len(x) = n + Len(a) /\ \A i \in 1 .. n : x[i] = p[i]
      /\ \A i \in 1 .. Len(a) : x[n + i] = a[i]
      /\ Len(y) = n + Len(b) /\ \A i \in 1 .. n : y[i] = p[i]
      /\ \A i \in 1 .. Len(b) : y[n + i] = b[i]
  BY DEF Text
<1> HIDE DEF x, y, n
<1>3. PICK i \in 1 .. Len(b) :
        /\ i <= Len(a) + 1 /\ \A j \in 1 .. i - 1 : a[j] = b[j]
        /\ i = Len(a) + 1 \/ a[i] < b[i]
  BY DEF Before
<1> DEFINE m == n + i
<1>4. m \in 1 .. Len(y) /\ m <= Len(x) + 1 /\ (i = Len(a) + 1 => m = Len(x) + 1)  BY <1>1, <1>2, <1>3
<1>5. ASSUME NEW j \in 1 .. m - 1 PROVE x[j] = y[j]
  <2>1. CASE j <= n  BY <2>1, <1>1, <1>2
  <2>2. CASE ~(j <= n)
    <3> DEFINE k == j - n
    <3>1. k \in 1 .. i - 1 /\ n + k = j /\ k \in 1 .. Len(a) /\ k \in 1 .. Len(b)  BY <2>2, <1>1, <1>3
    <3> HIDE DEF k
    <3>2. x[n + k] = a[k] /\ y[n + k] = b[k] /\ a[k] = b[k]  BY <3>1, <1>2, <1>3
    <3> QED  BY <3>1, <3>2
  <2> QED  BY <2>1, <2>2
<1>6. ASSUME i # Len(a) + 1 PROVE x[m] < y[m]
  <2>1. i \in 1 .. Len(a)  BY <1>1, <1>3, <1>6
  <2>2. x[m] = a[i] /\ y[m] = b[i]  BY <2>1, <1>2, <1>3
  <2> QED  BY <2>2, <1>3, <1>6
<1> HIDE DEF m
<1>7. Before(x, y)  BY <1>4, <1>5, <1>6 DEF Before
<1> QED  BY <1>7 DEF x, y

LEMMA PrefixFacts ==
  ASSUME NEW p \in Text, NEW n \in Nat, NEW s \in Text
  PROVE  p \o << >> = p /\ Append(p, n) \in Text /\ Append(p, n) \o s = p \o (<<n>> \o s) /\ p \o s \in Text
<1>1. p \o << >> = p /\ Append(p, n) \in Text /\ p \o s \in Text  BY DEF Text
<1>2. Append(p, n) \o s = p \o (<<n>> \o s)  BY DEF Text
<1> QED  BY <1>1, <1>2

LEMMA PrefixedLonger ==
  ASSUME NEW p \in Text, NEW n \in Nat, NEW bs, Good(bs)
  PROVE  Prefixed(Append(p, n), bs) = Prefixed(p, Longer(n, bs))
<1> DEFINE up(b) == << <<n>> \o b[1], b[2] >>
<1>1. Prefixed(p, Longer(n, bs)) = {<<p \o up(b)[1], up(b)[2]>> : b \in bs}  BY DEF Prefixed, Longer
<1>2. ASSUME NEW b \in bs PROVE <<p \o up(b)[1], up(b)[2]>> = <<Append(p, n) \o b[1], b[2]>>
  <2>1. b[1] \in Text  BY DEF Good
  <2>2. Append(p, n) \o b[1] = p \o (<<n>> \o b[1])  BY <2>1, PrefixFacts
  <2> QED  BY <2>2
<1> QED  BY <1>1, <1>2 DEF Prefixed

LEMMA PrefixedOrder ==
  ASSUME NEW p \in Text, NEW bs, NEW cs, Good(bs), Good(cs), Precede(bs, cs)
  PROVE  Precede(Prefixed(p, bs), Prefixed(p, cs))
<1>1. ASSUME NEW x \in Prefixed(p, bs), NEW y \in Prefixed(p, cs) PROVE Before(x[1], y[1])
  <2>1. \E b \in bs, c \in cs : x[1] = p \o b[1] /\ y[1] = p \o c[1]
    <3>1. PICK b \in bs : x = <<p \o b[1], b[2]>>  BY DEF Prefixed
    <3>2. PICK c \in cs : y = <<p \o c[1], c[2]>>  BY DEF Prefixed
    <3> QED  BY <3>1, <3>2
  <2>5. PICK b \in bs, c \in cs : x[1] = p \o b[1] /\ y[1] = p \o c[1]  BY <2>1
  <2>2. b[1] \in Text /\ c[1] \in Text /\ Before(b[1], c[1])  BY DEF Good, Precede
  <2>3. PICK s \in Text, t \in Text : s = b[1] /\ t = c[1] /\ Before(s, t)  BY <2>2
  <2>4. Before(p \o s, p \o t)  BY <2>3, BeforePrefixed
  <2> QED  BY <2>3, <2>4, <2>5
<1> QED  BY <1>1 DEF Precede

LEMMA PrefixedUnion ==
  ASSUME NEW p, NEW a, NEW b
  PROVE  Prefixed(p, a \cup b) = Prefixed(p, a) \cup Prefixed(p, b)
BY DEF Prefixed

LEMMA PrefixedGood ==
  ASSUME NEW p \in Text, NEW bs, Good(bs)
  PROVE  Prefixed(p, bs) \subseteq Text \X Values
<1> SUFFICES ASSUME NEW b \in bs PROVE <<p \o b[1], b[2]>> \in Text \X Values  BY DEF Prefixed
<1>1. b[1] \in Text /\ b[2] \in Values  BY DEF Good
<1>2. PICK s \in Text : s = b[1]  BY <1>1
<1>3. p \o s \in Text  BY <1>2, DropFacts DEF Text
<1> QED  BY <1>1, <1>2, <1>3
Works(n) == [node : 0 .. n, prefix : Text]
Hold(f, w) == Prefixed(w.prefix, f[w.node])
\* The bindings out and the nodes to visit hold what the map is bound to, in order.
Listed(f, n, all, work, found) ==
  /\ work \in Seq(Works(n)) /\ found \in Seq(Text \X Values)
  /\ all = {found[i] : i \in DOMAIN found} \cup UNION {Hold(f, work[i]) : i \in DOMAIN work}
  /\ \A i, j \in DOMAIN found : i < j => Before(found[i][1], found[j][1])
  /\ \A i \in DOMAIN found, j \in DOMAIN work : Precede({found[i]}, Hold(f, work[j]))
  /\ \A i, j \in DOMAIN work : i < j => Precede(Hold(f, work[i]), Hold(f, work[j]))

\* A node gives its own binding, if it has one, and the nodes under it.
Own(w, c) == IF c.tag = "end" THEN {<<w.prefix, c.value>>} ELSE {}
Splits(f, n, w, own, us) ==
  /\ us \in Seq(Works(n)) /\ own \subseteq Text \X Values
  /\ Hold(f, w) = own \cup UNION {Hold(f, us[i]) : i \in DOMAIN us}
  /\ \A i \in DOMAIN us : Precede(own, Hold(f, us[i]))
  /\ \A i, j \in DOMAIN us : i < j => Precede(Hold(f, us[i]), Hold(f, us[j]))
Emits(found, own, new) ==
  \/ own = {} /\ new = found
  \/ \E x \in Text \X Values : own = {x} /\ new = Append(found, x)

LEMMA WorkPlaces ==
  ASSUME NEW W, NEW us \in Seq(W), NEW work \in Seq(W), work # << >>
  PROVE  LET rest == us \o Tail(work)
         IN  /\ rest \in Seq(W) /\ Len(rest) = Len(us) + Len(work) - 1
             /\ DOMAIN rest = 1 .. Len(us) + Len(work) - 1
             /\ \A j \in 1 .. Len(us) : rest[j] = us[j]
             /\ \A k \in 2 .. Len(work) : rest[Len(us) + k - 1] = work[k]
<1> DEFINE t == Tail(work)  rest == us \o t
<1>1. /\ t \in Seq(W) /\ Len(t) = Len(work) - 1 /\ Len(work) \in Nat \ {0} /\ Len(us) \in Nat
      /\ \A i \in 1 .. Len(t) : t[i] = work[i + 1]
  OBVIOUS
<1>2. /\ rest \in Seq(W) /\ Len(rest) = Len(us) + Len(t) /\ DOMAIN rest = 1 .. Len(rest)
      /\ \A k \in 1 .. Len(rest) : rest[k] = IF k <= Len(us) THEN us[k] ELSE t[k - Len(us)]
  BY <1>1
<1> HIDE DEF t, rest
<1>3. \A j \in 1 .. Len(us) : rest[j] = us[j]  BY <1>1, <1>2
<1>4. ASSUME NEW k \in 2 .. Len(work) PROVE rest[Len(us) + k - 1] = work[k]
  <2> DEFINE m == Len(us) + k - 1  i == k - 1
  <2>1. m \in 1 .. Len(rest) /\ ~(m <= Len(us)) /\ m - Len(us) = i /\ i \in 1 .. Len(t) /\ i + 1 = k
    BY <1>1, <1>2
  <2> HIDE DEF m, i
  <2>2. rest[m] = t[i] /\ t[i] = work[k]  BY <1>1, <1>2, <2>1
  <2> QED  BY <2>2 DEF m
<1>5. Len(rest) = Len(us) + Len(work) - 1  BY <1>1, <1>2
<1> QED  BY <1>2, <1>3, <1>4, <1>5 DEF rest, t

LEMMA ListedFurther ==
  ASSUME NEW f, NEW n, NEW all, NEW work, NEW found, Listed(f, n, all, work, found), work # << >>,
         NEW own, NEW us, Splits(f, n, Head(work), own, us), NEW new, Emits(found, own, new)
  PROVE  Listed(f, n, all, us \o Tail(work), new)
<1> DEFINE W == Works(n)  B == Text \X Values  rest == us \o Tail(work)  H(w) == Hold(f, w)
<1>1. /\ work \in Seq(W) /\ Len(work) \in Nat \ {0} /\ DOMAIN work = 1 .. Len(work) /\ Head(work) = work[1]
      /\ us \in Seq(W) /\ Len(us) \in Nat /\ DOMAIN us = 1 .. Len(us)
      /\ found \in Seq(B) /\ Len(found) \in Nat /\ DOMAIN found = 1 .. Len(found)
  <2> HIDE DEF W, B
  <2>1. work \in Seq(W) /\ us \in Seq(W) /\ found \in Seq(B)  BY DEF Listed, Splits, W, B
  <2> QED  BY <2>1
<1>2. /\ rest \in Seq(W) /\ Len(rest) = Len(us) + Len(work) - 1 /\ DOMAIN rest = 1 .. Len(us) + Len(work) - 1
      /\ \A j \in 1 .. Len(us) : rest[j] = us[j]
      /\ \A k \in 2 .. Len(work) : rest[Len(us) + k - 1] = work[k]
  BY <1>1, WorkPlaces
<1> HIDE DEF rest, W, B
\* What stands where among the nodes to visit.
<1>3. ASSUME NEW j \in DOMAIN rest
      PROVE  \/ j \in DOMAIN us /\ rest[j] = us[j]
             \/ \E k \in DOMAIN work : k > 1 /\ j = Len(us) + k - 1 /\ rest[j] = work[k]
  <2>1. CASE j <= Len(us)  BY <2>1, <1>1, <1>2
  <2>2. CASE ~(j <= Len(us))
    <3> DEFINE k == j - Len(us) + 1
    <3>1. k \in 2 .. Len(work) /\ k \in DOMAIN work /\ k > 1 /\ j = Len(us) + k - 1  BY <1>1, <1>2, <2>2
    <3> HIDE DEF k
    <3> QED  BY <3>1, <1>2
  <2> QED  BY <2>1, <2>2
<1>4. /\ \A j \in DOMAIN us : j \in DOMAIN rest /\ rest[j] = us[j]
      /\ \A k \in DOMAIN work : k > 1 => Len(us) + k - 1 \in DOMAIN rest /\ rest[Len(us) + k - 1] = work[k]
  <2>1. \A j \in DOMAIN us : j \in DOMAIN rest  BY <1>1, <1>2
  <2>2. \A k \in DOMAIN work : k > 1 => k \in 2 .. Len(work) /\ Len(us) + k - 1 \in DOMAIN rest  BY <1>1, <1>2
  <2> QED  BY <1>1, <1>2, <2>1, <2>2
<1>5. 1 \in DOMAIN work /\ H(work[1]) = own \cup UNION {H(us[i]) : i \in DOMAIN us}
  BY <1>1 DEF Splits
\* What stands where among the bindings found.
<1>6. /\ new \in Seq(B) /\ Len(new) \in Nat /\ DOMAIN new = 1 .. Len(new)
      /\ \A i \in DOMAIN found : i \in DOMAIN new /\ new[i] = found[i]
      /\ \A i \in DOMAIN new : i \in DOMAIN found \/ (i = Len(found) + 1 /\ own = {new[i]})
      /\ own # {} => Len(found) + 1 \in DOMAIN new /\ own = {new[Len(found) + 1]}
  <2>1. CASE own = {} /\ new = found  BY <2>1, <1>1
  <2>2. CASE \E x \in B : own = {x} /\ new = Append(found, x)
    <3>1. PICK x \in B : own = {x} /\ new = Append(found, x)  BY <2>2
    <3>2. /\ new \in Seq(B) /\ Len(new) = Len(found) + 1 /\ DOMAIN new = 1 .. Len(found) + 1
          /\ \A i \in 1 .. Len(found) : new[i] = found[i]
          /\ new[Len(found) + 1] = x
      BY <1>1, <3>1
    <3> QED  BY <1>1, <3>1, <3>2
  <2> QED  BY <2>1, <2>2 DEF Emits, B
<1> HIDE DEF H
<1>7. all = {found[i] : i \in DOMAIN found} \cup UNION {H(work[i]) : i \in DOMAIN work}
  BY DEF Listed, H
<1>8. all = {new[i] : i \in DOMAIN new} \cup UNION {H(rest[i]) : i \in DOMAIN rest}
  <2>1. ASSUME NEW x \in all PROVE x \in {new[i] : i \in DOMAIN new} \cup UNION {H(rest[i]) : i \in DOMAIN rest}
    <3>1. CASE \E i \in DOMAIN found : x = found[i]  BY <3>1, <1>6
    <3>2. CASE x \in own  BY <3>2, <1>6
    <3>3. CASE \E i \in DOMAIN us : x \in H(us[i])  BY <3>3, <1>4
    <3>4. CASE \E k \in DOMAIN work : k > 1 /\ x \in H(work[k])
      <4>1. PICK k \in DOMAIN work : k > 1 /\ x \in H(work[k])  BY <3>4
      <4>2. Len(us) + k - 1 \in DOMAIN rest /\ rest[Len(us) + k - 1] = work[k]  BY <4>1, <1>4
      <4> QED  BY <4>1, <4>2
    <3>5. \A k \in DOMAIN work : k = 1 \/ k > 1  BY <1>1
    <3> QED  BY <1>5, <1>7, <3>1, <3>2, <3>3, <3>4, <3>5
  <2>2. ASSUME NEW i \in DOMAIN new PROVE new[i] \in all
    <3>1. CASE i \in DOMAIN found  BY <3>1, <1>6, <1>7
    <3>2. CASE own = {new[i]}  BY <3>2, <1>5, <1>7
    <3> QED  BY <1>6, <3>1, <3>2
  <2>3. ASSUME NEW j \in DOMAIN rest PROVE H(rest[j]) \subseteq all
    <3>1. CASE j \in DOMAIN us /\ rest[j] = us[j]  BY <3>1, <1>5, <1>7
    <3>2. CASE \E k \in DOMAIN work : rest[j] = work[k]  BY <3>2, <1>7
    <3> QED  BY <1>3, <3>1, <3>2
  <2> QED  BY <2>1, <2>2, <2>3
<1>9. ASSUME NEW i \in DOMAIN new, NEW j \in DOMAIN new, i < j PROVE Before(new[i][1], new[j][1])
  <2>1. i \in DOMAIN found /\ new[i] = found[i]  BY <1>1, <1>6, <1>9
  <2>2. CASE j \in DOMAIN found  BY <2>1, <2>2, <1>6, <1>9 DEF Listed
  <2>3. CASE own = {new[j]}
    <3>1. Precede({found[i]}, H(work[1]))  BY <2>1, <1>5 DEF Listed, H
    <3>2. new[j] \in H(work[1])  BY <1>5, <2>3
    <3> QED  BY <2>1, <3>1, <3>2 DEF Precede
  <2> QED  BY <1>6, <2>2, <2>3
<1>10. ASSUME NEW i \in DOMAIN new, NEW j \in DOMAIN rest PROVE Precede({new[i]}, H(rest[j]))
  <2>1. CASE i \in DOMAIN found
    <3>1. \A k \in DOMAIN work : Precede({new[i]}, H(work[k]))  BY <2>1, <1>6 DEF Listed, H
    <3>2. \A k \in DOMAIN us : Precede({new[i]}, H(us[k]))
      <4>1. Precede({new[i]}, H(work[1]))  BY <1>5, <3>1
      <4> QED  BY <4>1, <1>5 DEF Precede
    <3> QED  BY <1>3, <3>1, <3>2
  <2>2. CASE own = {new[i]}
    <3>1. \A k \in DOMAIN us : Precede({new[i]}, H(us[k]))  BY <2>2 DEF Splits, H
    <3>2. \A k \in DOMAIN work : k > 1 => Precede({new[i]}, H(work[k]))
      <4> SUFFICES ASSUME NEW k \in DOMAIN work, k > 1 PROVE Precede({new[i]}, H(work[k]))  OBVIOUS
      <4>1. Precede(H(work[1]), H(work[k]))  BY <1>5 DEF Listed, H
      <4> QED  BY <4>1, <1>5, <2>2 DEF Precede
    <3> QED  BY <1>3, <3>1, <3>2
  <2> QED  BY <1>6, <2>1, <2>2
<1>11. ASSUME NEW i \in DOMAIN rest, NEW j \in DOMAIN rest, i < j PROVE Precede(H(rest[i]), H(rest[j]))
  <2>1. CASE i \in DOMAIN us /\ rest[i] = us[i]
    <3>1. CASE j \in DOMAIN us /\ rest[j] = us[j]  BY <1>11, <2>1, <3>1 DEF Splits, H
    <3>2. CASE \E k \in DOMAIN work : k > 1 /\ rest[j] = work[k]
      <4>1. PICK k \in DOMAIN work : k > 1 /\ rest[j] = work[k]  BY <3>2
      <4>2. Precede(H(work[1]), H(work[k]))  BY <4>1, <1>5 DEF Listed, H
      <4> QED  BY <4>1, <4>2, <1>5, <2>1 DEF Precede
    <3> QED  BY <1>3, <3>1, <3>2
  <2>2. CASE \E k \in DOMAIN work : k > 1 /\ i = Len(us) + k - 1 /\ rest[i] = work[k]
    <3>1. PICK k \in DOMAIN work : k > 1 /\ i = Len(us) + k - 1 /\ rest[i] = work[k]  BY <2>2
    <3>2. j \notin DOMAIN us  BY <1>1, <1>2, <1>11, <3>1
    <3>3. PICK m \in DOMAIN work : m > 1 /\ j = Len(us) + m - 1 /\ rest[j] = work[m]  BY <1>3, <3>2
    <3>4. k < m  BY <1>1, <1>11, <3>1, <3>3
    <3> QED  BY <3>1, <3>3, <3>4 DEF Listed, H
  <2> QED  BY <1>3, <2>1, <2>2
<1> QED  BY <1>2, <1>6, <1>8, <1>9, <1>10, <1>11 DEF Listed, W, B, rest, H
LEMMA NodeSplits ==
  ASSUME NEW h, HeapRight(h), NEW w \in Works(Len(h)), NEW c,
         c = IF w.node = 0 THEN Empty ELSE h[w.node]
  PROVE  Splits(BoundIn(h), Len(h), w, Own(w, c), Under(w, c))
<1> DEFINE f == BoundIn(h)  n == Len(h)  p == w.prefix  W == Works(n)  own == Own(w, c)  us == Under(w, c)
<1>1. p \in Text /\ w.node \in 0 .. n /\ n \in Nat /\ DOMAIN h = 1 .. n /\ f[0] = {} /\ \A q \in 0 .. n : Good(f[q])
  BY HeapFacts DEF Works
<1>2. CASE w.node = 0
  <2>1. own = {} /\ us = << >> /\ Hold(f, w) = {}
    BY <1>1, <1>2 DEF Own, Under, Empty, Hold, Prefixed
  <2> HIDE DEF own, us
  <2>2. us \in Seq(W) /\ DOMAIN us = {}  BY <2>1
  <2>3. Splits(f, n, w, own, us)  BY <2>1, <2>2 DEF Splits, W
  <2> QED  BY <2>3 DEF own, us
<1>3. CASE w.node # 0
  <2>1. w.node \in DOMAIN h  BY <1>1, <1>3
  <2>2. c \in CellsOf(0 .. n) /\ Apart(c, f) /\ f[w.node] = Held(c, f)
    BY <1>3, <2>1, HeapFacts
  <2>3. CASE c.tag = "end"
    <3> DEFINE R == f[c.rest]  x == <<p, c.value>>  E == {<< << >>, c.value>>}
    <3>1. c.value \in Values /\ c.rest \in 0 .. n /\ Good(R) /\ Starts(R, Nat)
      BY <1>1, <2>2, <2>3, CellForms DEF Apart
    <3>2. own = {x} /\ us = << Work(c.rest, p) >>  BY <2>3 DEF Own, Under
    <3>3. Work(c.rest, p) \in W /\ Hold(f, Work(c.rest, p)) = Prefixed(p, R)
      BY <1>1, <3>1 DEF Work, Works, Hold
    <3>4. Prefixed(p, E) = {x}
      <4>1. Prefixed(p, E) = {<<p \o << >>, c.value>>}
        <5> DEFINE up(b) == <<p \o b[1], b[2]>>
        <5>1. Prefixed(p, E) = {up(b) : b \in E}  BY DEF Prefixed
        <5>2. up(<< << >>, c.value>>) = <<p \o << >>, c.value>>  OBVIOUS
        <5> HIDE DEF up
        <5> QED  BY <5>1, <5>2
      <4>2. p \o << >> = p  BY <1>1, DropFacts DEF Text
      <4> QED  BY <4>1, <4>2
    <3>5. Hold(f, w) = {x} \cup Prefixed(p, R)
      <4>1. f[w.node] = E \cup R  BY <2>2, <2>3 DEF Held
      <4> HIDE DEF E, R, x
      <4>2. Hold(f, w) = Prefixed(p, E) \cup Prefixed(p, R)  BY <4>1, PrefixedUnion DEF Hold
      <4> QED  BY <3>4, <4>2
    <3>6. Precede({x}, Prefixed(p, R))
      <4>0. << >> \in Text  BY DEF Text
      <4>1. Good(E)  BY <3>1, <4>0 DEF Good
      <4>2. Precede(E, R)
        <5> SUFFICES ASSUME NEW b \in R PROVE Before(<< >>, b[1])  BY DEF Precede
        <5>1. b[1] \in Text /\ b[1] # << >>  BY <3>1 DEF Good, Starts
        <5>2. PICK s \in Text : s = b[1]  BY <5>1
        <5> QED  BY <4>0, <5>1, <5>2, BeforeFirst
      <4> HIDE DEF E, R, x
      <4>3. Precede(Prefixed(p, E), Prefixed(p, R))  BY <1>1, <3>1, <4>1, <4>2, PrefixedOrder
      <4> QED  BY <3>4, <4>3
    <3> DEFINE a == Work(c.rest, p)
    <3>7. a \in W /\ us = << a >> /\ Hold(f, a) = Prefixed(p, R) /\ x \in Text \X Values
      BY <1>1, <3>1, <3>2, <3>3
    <3> HIDE DEF own, us, W, R, x, a, f, n
    <3>8. us \in Seq(W) /\ DOMAIN us = {1} /\ us[1] = a  BY <3>7
    <3>9. UNION {Hold(f, us[i]) : i \in DOMAIN us} = Prefixed(p, R)  BY <3>7, <3>8
    <3>10. Splits(f, n, w, own, us)
      <4>1. \A i \in DOMAIN us : Precede(own, Hold(f, us[i]))  BY <3>2, <3>6, <3>7, <3>8
      <4>2. \A i, j \in DOMAIN us : ~(i < j)  BY <3>8
      <4> QED  BY <3>2, <3>5, <3>7, <3>8, <3>9, <4>1, <4>2 DEF Splits, W
    <3> QED  BY <3>10 DEF own, us, f, n
  <2>4. CASE c.tag = "char"
    <3> DEFINE k == c.code  L == f[c.less]  B == f[c.same]  S == Longer(k, B)  G == f[c.greater]
               PL == Prefixed(p, L)  PS == Prefixed(p, S)  PG == Prefixed(p, G)
               a == Work(c.less, p)  b == Work(c.same, Append(p, k))  d == Work(c.greater, p)
    <3>1. /\ k \in Nat /\ c.less \in 0 .. n /\ c.same \in 0 .. n /\ c.greater \in 0 .. n
          /\ Good(L) /\ Good(B) /\ Good(G) /\ Starts(L, Smaller(k)) /\ Starts(G, Larger(k))
      BY <1>1, <2>2, <2>4, CellForms DEF Apart
    <3>2. Good(S) /\ Starts(S, {k})  BY <3>1, LongerFacts
    <3>3. own = {} /\ us = << a, b, d >>  BY <2>4 DEF Own, Under
    <3>4. Append(p, k) \in Text  BY <1>1, <3>1, PrefixFacts DEF Text
    <3>5. a \in W /\ b \in W /\ d \in W  BY <1>1, <3>1, <3>4 DEF Work, Works
    <3>6. Hold(f, a) = PL /\ Hold(f, d) = PG /\ Hold(f, b) = Prefixed(Append(p, k), B)  BY DEF Hold, Work
    <3>7. Hold(f, b) = PS
      <4> HIDE DEF B, k
      <4> QED  BY <1>1, <3>1, <3>6, PrefixedLonger
    <3>8. f[w.node] = L \cup S \cup G  BY <2>2, <2>4 DEF Held
    <3> HIDE DEF own, us, W, a, b, d, f, n, L, S, G, B, k
    <3>9. Hold(f, w) = PL \cup PS \cup PG
      <4>1. Prefixed(p, L \cup S \cup G) = Prefixed(p, L \cup S) \cup PG  BY PrefixedUnion
      <4>2. Prefixed(p, L \cup S) = PL \cup PS  BY PrefixedUnion
      <4> QED  BY <3>8, <4>1, <4>2 DEF Hold
    <3>10. ASSUME NEW xs, NEW ys, Good(xs), Good(ys), NEW l, NEW m, Starts(xs, l), Starts(ys, m),
                  \A i \in l, j \in m : i < j
           PROVE  Precede(Prefixed(p, xs), Prefixed(p, ys))
      <4>1. Precede(xs, ys)
        <5> SUFFICES ASSUME NEW x \in xs, NEW y \in ys PROVE Before(x[1], y[1])  BY DEF Precede
        <5>1. x[1] \in Text /\ y[1] \in Text /\ y[1] # << >> /\ x[1][1] < y[1][1]
          BY <3>10 DEF Good, Starts
        <5>2. PICK s \in Text, t \in Text : s = x[1] /\ t = y[1]  BY <5>1
        <5> QED  BY <5>1, <5>2, BeforeFirst
      <4> QED  BY <1>1, <3>10, <4>1, PrefixedOrder
    <3>11. Precede(PL, PS)
      <4>1. \A i \in Smaller(k), j \in {k} : i < j  BY DEF Smaller
      <4> QED  BY <3>1, <3>2, <3>10, <4>1
    <3>12. Precede(PS, PG)
      <4>1. \A i \in {k}, j \in Larger(k) : i < j  BY <3>1 DEF Larger
      <4> QED  BY <3>1, <3>2, <3>10, <4>1
    <3>13. Precede(PL, PG)
      <4>1. \A i \in Smaller(k), j \in Larger(k) : i < j  BY <3>1 DEF Smaller, Larger
      <4> QED  BY <3>1, <3>10, <4>1
    <3> HIDE DEF PL, PS, PG
    <3>14. us \in Seq(W) /\ DOMAIN us = 1 .. 3 /\ us[1] = a /\ us[2] = b /\ us[3] = d  BY <3>3, <3>5
    <3>15. /\ Hold(f, us[1]) = PL /\ Hold(f, us[2]) = PS /\ Hold(f, us[3]) = PG
      BY <3>6, <3>7, <3>14
    <3>16. UNION {Hold(f, us[i]) : i \in DOMAIN us} = PL \cup PS \cup PG
      <4>1. 1 .. 3 = {1, 2, 3}  OBVIOUS
      <4>2. DOMAIN us = {1, 2, 3}  BY <3>14, <4>1
      <4> QED  BY <3>15, <4>2
    <3>17. ASSUME NEW i \in DOMAIN us, NEW j \in DOMAIN us, i < j PROVE Precede(Hold(f, us[i]), Hold(f, us[j]))
      <4>1. (i = 1 /\ j = 2) \/ (i = 1 /\ j = 3) \/ (i = 2 /\ j = 3)  BY <3>14, <3>17
      <4> QED  BY <4>1, <3>11, <3>12, <3>13, <3>15
    <3>18. Splits(f, n, w, own, us)
      <4>1. \A i \in DOMAIN us : Precede(own, Hold(f, us[i]))  BY <3>3 DEF Precede
      <4> QED  BY <3>3, <3>9, <3>14, <3>16, <3>17, <4>1 DEF Splits, W
    <3> QED  BY <3>18 DEF own, us, f, n
  <2> QED  BY <2>2, <2>3, <2>4, CellForms
<1> QED  BY <1>2, <1>3
-----------------------------------------------------------------------------
(***************************************************************************)
(* Every step keeps the invariant.                                         *)
(***************************************************************************)
ListRight == call.name = "bindings" => Listed(BoundIn(cells), Len(cells), Bound(map), todo, out)
Inv == TypeOK /\ WalkRight /\ SingleRight /\ RebuildRight /\ ListRight

\* A call that has returned.
LEMMA IdleRight ==
  ASSUME TypeOK, call = Idle
  PROVE  Inv
BY DEF Inv, Idle, WalkRight, Walking, SingleRight, RebuildRight, ListRight

LEMMA InitInv == Init => Inv
<1> SUFFICES ASSUME Init PROVE Inv  OBVIOUS
<1>1. cells = << >> /\ map = 0 /\ node = 0 /\ answer = Missing /\ call = Idle  BY DEF Init
<1>2. Len(cells) = 0 /\ DOMAIN cells = {} /\ cells \in Seq(CellsOf(Nat))  BY <1>1
<1>3. Heap(cells)  BY <1>2 DEF Heap
<1>4. BoundIn(cells)[0] = {}  BY <1>3, BoundEquation
<1>5. 0 .. Len(cells) = {0} /\ Good({})  BY <1>2 DEF Good
<1>6. HeapRight(cells)  BY <1>2, <1>3, <1>4, <1>5 DEF HeapRight
<1>7. TypeOK  BY <1>1, <1>5, <1>6 DEF TypeOK, CallsMade
<1> QED  BY <1>1, <1>7, IdleRight

LEMMA BeginLists ==
  ASSUME TypeOK, BeginBindings
  PROVE  TypeOK' /\ ListRight' /\ call'.name = "bindings"
<1>1. /\ call' = [name |-> "bindings"] /\ todo' = << Work(map, << >>) >> /\ out' = << >>
      /\ UNCHANGED <<cells, map, answer, node>>
  BY DEF BeginBindings, walk
<1>2. TypeOK'  BY <1>1 DEF TypeOK, CallsMade
<1> DEFINE f == BoundIn(cells)  n == Len(cells)  w == Work(map, << >>)  W == Works(n)
           work == << w >>  found == << >>  all == f[map]
<1>3. map \in 0 .. n /\ HeapRight(cells)  BY DEF TypeOK
<1>4. w \in W /\ Hold(f, w) = Prefixed(<< >>, all)
  <2>1. << >> \in Text  BY DEF Text
  <2> QED  BY <1>3, <2>1 DEF Work, Works, Hold
<1>5. Prefixed(<< >>, all) = all
  <2>1. Good(all)  BY <1>3, HeapFacts
  <2> HIDE DEF all
  <2>2. ASSUME NEW b \in all PROVE <<<< >> \o b[1], b[2]>> = b
    <3>1. b[1] \in Text /\ b = <<b[1], b[2]>>  BY <2>1 DEF Good
    <3>2. << >> \o b[1] = b[1]  BY <3>1 DEF Text
    <3> QED  BY <3>1, <3>2
  <2>3. Prefixed(<< >>, all) = {b : b \in all}  BY <2>2 DEF Prefixed
  <2> QED  BY <2>3
<1> HIDE DEF w, W, f, all
<1>6. work \in Seq(W) /\ DOMAIN work = {1} /\ work[1] = w  BY <1>4
<1>7. found \in Seq(Text \X Values) /\ DOMAIN found = {}  OBVIOUS
<1> HIDE DEF work, found
<1>8. UNION {Hold(f, work[i]) : i \in DOMAIN work} = all  BY <1>4, <1>5, <1>6
<1>9. \A i, j \in DOMAIN work : ~(i < j)  BY <1>6
<1>10. Listed(f, n, all, work, found)  BY <1>6, <1>7, <1>8, <1>9 DEF Listed, W
<1>11. ListRight'
  <2>1. todo' = work /\ out' = found /\ BoundIn(cells)' = f /\ Len(cells)' = n /\ Bound(map)' = all
    BY <1>1 DEF work, w, found, f, all, Bound
  <2> QED  BY <1>10, <2>1 DEF ListRight
<1> QED  BY <1>1, <1>2, <1>11

LEMMA VisitLists ==
  ASSUME TypeOK, ListRight, Visit
  PROVE  TypeOK' /\ ListRight' /\ call'.name = "bindings"
<1> DEFINE f == BoundIn(cells)  n == Len(cells)  all == Bound(map)  w == Head(todo)  c == Cell(w.node)
           own == Own(w, c)  us == Under(w, c)
<1>1. /\ call.name = "bindings" /\ todo # << >> /\ UNCHANGED <<cells, map, answer, call, node>>
      /\ out' = (IF c.tag = "end" THEN Append(out, <<w.prefix, c.value>>) ELSE out)
      /\ todo' = us \o Tail(todo)
  BY DEF Visit, walk
<1>2. Listed(f, n, all, todo, out)  BY <1>1 DEF ListRight
<1>3. w \in Works(n)
  <2> DEFINE W == Works(n)
  <2>1. todo \in Seq(W)  BY <1>2 DEF Listed
  <2> HIDE DEF W
  <2>2. Head(todo) \in W  BY <1>1, <2>1
  <2> QED  BY <2>2 DEF W
<1>4. HeapRight(cells)  BY DEF TypeOK
<1>5. Splits(f, n, w, own, us)  BY <1>3, <1>4, NodeSplits DEF Cell
<1>6. Emits(out, own, out')
  <2>1. CASE c.tag = "end"
    <3> DEFINE x == <<w.prefix, c.value>>
    <3>1. own = {x} /\ out' = Append(out, x)  BY <1>1, <2>1 DEF Own
    <3>2. x \in Text \X Values
      <4>1. own \subseteq Text \X Values  BY <1>5 DEF Splits
      <4> QED  BY <3>1, <4>1
    <3> QED  BY <3>1, <3>2 DEF Emits
  <2>2. CASE c.tag # "end"  BY <1>1, <2>2 DEF Own, Emits
  <2> QED  BY <2>1, <2>2
<1> HIDE DEF f, n, all, own, us
<1>7. Listed(f, n, all, us \o Tail(todo), out')
  BY <1>1, <1>2, <1>5, <1>6, ListedFurther
<1>8. TypeOK'  BY <1>1 DEF TypeOK
<1>9. ListRight'
  <2>1. BoundIn(cells)' = f /\ Len(cells)' = n /\ Bound(map)' = all  BY <1>1 DEF f, n, all, Bound
  <2> QED  BY <1>1, <1>7, <2>1 DEF ListRight
<1> QED  BY <1>1, <1>8, <1>9

\* One action, one case: the parts a step can disturb are those its call is in.
LEMMA NextInv == Inv /\ [Next]_vars => Inv'
<1> SUFFICES ASSUME Inv, [Next]_vars PROVE Inv'  OBVIOUS
<1>0. TypeOK /\ WalkRight /\ SingleRight /\ RebuildRight /\ ListRight  BY DEF Inv
<1>1. ASSUME NEW name \in {"get", "insert", "remove"}, NEW key \in Keys,
             NEW value \in Values \cup {Missing}, Begin(name, key, value),
             IF name = "insert" THEN value \in Values ELSE value = Missing
      PROVE  Inv'
  <2>1. TypeOK' /\ WalkRight'  BY <1>0, <1>1, BeginWalks
  <2>2. call' = [name |-> name, key |-> key, value |-> value]  BY <1>1 DEF Begin
  <2>3. call'.name \notin {"single", "rebuild", "bindings"}  BY <2>2
  <2> QED  BY <2>1, <2>3 DEF Inv, SingleRight, RebuildRight, ListRight
<1>2. CASE Descend
  <2>1. TypeOK' /\ WalkRight'  BY <1>0, <1>2, DescendWalks
  <2>2. call' = call /\ call.name \in {"get", "insert", "remove"}  BY <1>2 DEF Descend, Walking
  <2> QED  BY <2>1, <2>2 DEF Inv, SingleRight, RebuildRight, ListRight
<1>3. CASE GetDone
  <2>1. TypeOK'  BY <1>0, <1>3, GetRight
  <2>2. call' = Idle  BY <1>3 DEF GetDone, Return
  <2> QED  BY <2>1, <2>2, IdleRight DEF Idle, Inv, WalkRight, Walking, SingleRight, RebuildRight, ListRight
<1>4. CASE InsertHere
  <2>1. TypeOK' /\ SingleRight' /\ RebuildRight' /\ call'.name \in {"single", "rebuild"}
    BY <1>0, <1>4, InsertRight
  <2> QED  BY <2>1 DEF Inv, WalkRight, Walking, ListRight
<1>5. CASE Single
  <2>1. TypeOK' /\ SingleRight' /\ RebuildRight' /\ call'.name \in {"single", "rebuild"}
    BY <1>0, <1>5, SingleStep
  <2> QED  BY <2>1 DEF Inv, WalkRight, Walking, ListRight
<1>6. CASE RemoveHere
  <2>1. TypeOK' /\ RebuildRight' /\ call'.name = "rebuild"  BY <1>0, <1>6, RemoveRight
  <2> QED  BY <2>1 DEF Inv, WalkRight, Walking, SingleRight, ListRight
<1>7. CASE Rebuild
  <2>1. TypeOK' /\ RebuildRight' /\ call' = call  BY <1>0, <1>7, RebuildStep
  <2>2. call.name = "rebuild"  BY <1>7 DEF Rebuild
  <2> QED  BY <2>1, <2>2 DEF Inv, WalkRight, Walking, SingleRight, ListRight
<1>8. CASE Rebuilt
  <2>1. TypeOK'  BY <1>0, <1>8, RebuiltChanges
  <2>2. call' = Idle  BY <1>8 DEF Rebuilt, Return
  <2> QED  BY <2>1, <2>2 DEF Idle, Inv, WalkRight, Walking, SingleRight, RebuildRight, ListRight
<1>9. CASE BeginBindings
  <2>1. TypeOK' /\ ListRight' /\ call'.name = "bindings"  BY <1>0, <1>9, BeginLists
  <2> QED  BY <2>1 DEF Inv, WalkRight, Walking, SingleRight, RebuildRight
<1>10. CASE Visit
  <2>1. TypeOK' /\ ListRight' /\ call'.name = "bindings"  BY <1>0, <1>10, VisitLists
  <2> QED  BY <2>1 DEF Inv, WalkRight, Walking, SingleRight, RebuildRight
<1>11. CASE BindingsDone
  <2>1. call' = Idle /\ UNCHANGED <<cells, map, answer, node>>  BY <1>11 DEF BindingsDone, walk
  <2>2. TypeOK'  BY <1>0, <2>1 DEF TypeOK, CallsMade
  <2> QED  BY <2>1, <2>2 DEF Idle, Inv, WalkRight, Walking, SingleRight, RebuildRight, ListRight
<1>12. CASE UNCHANGED vars
  BY <1>0, <1>12 DEF vars, walk, listing, Inv, TypeOK, WalkRight, Walking, SingleRight, RebuildRight, ListRight,
                     OnPath, Bound, Top, Place, Leads, After, Drop
<1> QED
  BY <1>1, <1>2, <1>3, <1>4, <1>5, <1>6, <1>7, <1>8, <1>9, <1>10, <1>11, <1>12 DEF Next

\* The inductive invariant: the heap is a forest of well-placed nodes, each call
\* is at the node its key leads to, and what it hands up is the change asked for.
THEOREM AlwaysInv == Spec => []Inv
BY InitInv, NextInv, PTL DEF Spec

LEMMA InvOrder == Inv => BindingsInOrder
<1> SUFFICES ASSUME Inv, call.name = "bindings" PROVE BindingsInOrder  BY DEF BindingsInOrder
<1>1. Listed(BoundIn(cells), Len(cells), Bound(map), todo, out)  BY DEF Inv, ListRight
<1>2. \A i, j \in DOMAIN out : i < j => Before(out[i][1], out[j][1])  BY <1>1 DEF Listed
<1>3. ASSUME todo = << >> PROVE {out[i] : i \in DOMAIN out} = Bound(map)
  <2>1. DOMAIN todo = {}  BY <1>3
  <2>2. Bound(map) = {out[i] : i \in DOMAIN out} \cup UNION {Hold(BoundIn(cells), todo[i]) : i \in DOMAIN todo}
    BY <1>1 DEF Listed
  <2> QED  BY <2>1, <2>2
<1> QED  BY <1>2, <1>3 DEF BindingsInOrder

\* map_bindings lists every binding of the map once, in the order of text_compare,
\* for keys of any length and maps of any size.
THEOREM AlwaysInOrder == Spec => []BindingsInOrder
BY AlwaysInv, InvOrder, PTL
-----------------------------------------------------------------------------
(***************************************************************************)
(* The trie implements the map.                                            *)
(***************************************************************************)
Bindings(bs, k) == {b[2] : b \in {c \in bs : c[1] = k}}
ContentOf(bs) == [k \in Keys |-> Sole(Bindings(bs, k))]

LEMMA SoleFacts == Sole({}) = Missing /\ \A v : Sole({v}) = v
<1>1. ASSUME NEW v PROVE (CHOOSE u \in {v} : {v} = {u}) = v
  <2>1. \E u \in {v} : {v} = {u}  OBVIOUS
  <2>2. (CHOOSE u \in {v} : {v} = {u}) \in {v}  BY <2>1
  <2> QED  BY <2>2
<1> QED  BY <1>1 DEF Sole

LEMMA ContentAt ==
  ASSUME NEW bs, Good(bs), NEW k \in Keys
  PROVE  /\ ContentOf(bs)[k] \in Values \cup {Missing}
         /\ \A v \in Values : ContentOf(bs)[k] = v <=> <<k, v>> \in bs
<1>1. ContentOf(bs)[k] = Sole(Bindings(bs, k))  BY DEF ContentOf
<1>2. CASE \E b \in bs : b[1] = k
  <2>1. PICK b \in bs : b[1] = k  BY <1>2
  <2>2. {c \in bs : c[1] = k} = {b} /\ b = <<k, b[2]>> /\ b[2] \in Values  BY <2>1 DEF Good
  <2>3. Bindings(bs, k) = {b[2]}  BY <2>2 DEF Bindings
  <2>4. ContentOf(bs)[k] = b[2]  BY <1>1, <2>3, SoleFacts
  <2>5. \A v \in Values : <<k, v>> \in bs => v = b[2]  BY <2>2
  <2> QED  BY <2>1, <2>2, <2>4, <2>5
<1>3. CASE ~ \E b \in bs : b[1] = k
  <2>1. Bindings(bs, k) = {}  BY <1>3 DEF Bindings
  <2>2. ContentOf(bs)[k] = Missing  BY <1>1, <2>1, SoleFacts
  <2>3. \A v \in Values : <<k, v>> \notin bs  BY <1>3
  <2> QED  BY <2>2, <2>3, KeysAssumption
<1> QED  BY <1>2, <1>3

LEMMA ContentChanges ==
  ASSUME NEW bs, NEW k \in Keys, NEW v
  PROVE  ContentOf(Change(bs, k, v)) = [ContentOf(bs) EXCEPT ![k] = v]
<1>1. ASSUME NEW j \in Keys, j # k PROVE Bindings(Change(bs, k, v), j) = Bindings(bs, j)
  <2>1. {c \in Change(bs, k, v) : c[1] = j} = {c \in bs : c[1] = j}  BY <1>1 DEF Change, New
  <2> QED  BY <2>1 DEF Bindings
<1>2. Sole(Bindings(Change(bs, k, v), k)) = v
  <2>1. {c \in Change(bs, k, v) : c[1] = k} = New(k, v)  BY DEF Change, New
  <2>2. CASE v = Missing
    <3>1. Bindings(Change(bs, k, v), k) = {}  BY <2>1, <2>2 DEF Bindings, New
    <3> QED  BY <2>2, <3>1, SoleFacts
  <2>3. CASE v # Missing
    <3>0. New(k, v) = {<<k, v>>} /\ {b[2] : b \in {<<k, v>>}} = {v}  BY <2>3 DEF New
    <3>1. Bindings(Change(bs, k, v), k) = {v}  BY <2>1, <3>0 DEF Bindings
    <3> QED  BY <3>1, SoleFacts
  <2> QED  BY <2>2, <2>3
<1>3. ASSUME NEW j \in Keys
      PROVE  Sole(Bindings(Change(bs, k, v), j)) = IF j = k THEN v ELSE ContentOf(bs)[j]
  <2>1. CASE j = k  BY <1>2, <2>1
  <2>2. CASE j # k
    <3>1. Bindings(Change(bs, k, v), j) = Bindings(bs, j)  BY <1>1, <2>2
    <3> QED  BY <2>2, <3>1 DEF ContentOf
  <2> QED  BY <2>1, <2>2
<1>4. [ContentOf(bs) EXCEPT ![k] = v] = [j \in Keys |-> IF j = k THEN v ELSE ContentOf(bs)[j]]
  BY DEF ContentOf
<1>5. ContentOf(Change(bs, k, v)) = [j \in Keys |-> Sole(Bindings(Change(bs, k, v), j))]  BY DEF ContentOf
<1> QED  BY <1>3, <1>4, <1>5

LEMMA ContentIs == Content = ContentOf(Bound(map)) /\ Content' = ContentOf(Bound(map)')
<1>1. /\ Content = [k \in Keys |-> Sole({b[2] : b \in {c \in Bound(map) : c[1] = k}})]
      /\ Content' = [k \in Keys |-> Sole({b[2] : b \in {c \in Bound(map)' : c[1] = k}})]
  BY DEF Content
<1>2. ASSUME NEW bs PROVE ContentOf(bs) = [k \in Keys |-> Sole({b[2] : b \in {c \in bs : c[1] = k}})]
  BY DEF ContentOf, Bindings
<1> QED  BY <1>1, <1>2

LEMMA InitIsMap == Init => Abstract!Init
<1> SUFFICES ASSUME Init PROVE Abstract!Init  OBVIOUS
<1>1. HeapRight(cells) /\ map = 0  BY InitInv DEF Inv, TypeOK, Init
<1>2. Bound(map) = {}  BY <1>1, HeapFacts DEF Bound
<1>3. \A k \in Keys : Sole(Bindings({}, k)) = Missing
  <2>1. \A k : Bindings({}, k) = {}  BY DEF Bindings
  <2> QED  BY <2>1, SoleFacts
<1>4. Content = [k \in Keys |-> Missing]  BY <1>2, <1>3, ContentIs DEF ContentOf
<1> QED  BY <1>4 DEF Abstract!Init, Init

LEMMA NextIsMap == Inv /\ [Next]_vars => [Abstract!Next]_<<Content, answer>>
<1> SUFFICES ASSUME Inv, [Next]_vars PROVE Abstract!Next \/ UNCHANGED <<Content, answer>>  OBVIOUS
<1>0. TypeOK /\ WalkRight /\ SingleRight /\ RebuildRight  BY DEF Inv
<1>1. Content = ContentOf(Bound(map)) /\ Content' = ContentOf(Bound(map)')  BY ContentIs
<1>2. HeapRight(cells) /\ map \in 0 .. Len(cells) /\ Good(Bound(map))
  BY <1>0, HeapFacts DEF TypeOK, Bound
<1>3. ASSUME answer' = answer, Bound(map)' = Bound(map) PROVE UNCHANGED <<Content, answer>>
  BY <1>1, <1>3
<1>4. ASSUME UNCHANGED <<cells, map, answer>> PROVE UNCHANGED <<Content, answer>>
  BY <1>3, <1>4 DEF Bound
<1>5. CASE \E name, key, value : Begin(name, key, value)  BY <1>4, <1>5 DEF Begin
<1>6. CASE Descend  BY <1>4, <1>6 DEF Descend
<1>7. CASE GetDone
  <2>1. call.name = "get" /\ UNCHANGED <<cells, map>>  BY <1>7 DEF GetDone
  <2>2. call.key \in Keys  BY <1>0, <2>1, CallForms
  <2> DEFINE bs == Bound(map)  k == call.key
  <2>3. answer' \in Values \cup {Missing} /\ \A v \in Values : answer' = v <=> <<k, v>> \in bs
    BY <1>0, <1>7, GetRight
  <2> HIDE DEF bs, k
  <2>4. /\ ContentOf(bs)[k] \in Values \cup {Missing}
        /\ \A v \in Values : ContentOf(bs)[k] = v <=> <<k, v>> \in bs
    BY <1>2, <2>2, ContentAt DEF bs, k
  <2>5. answer' = ContentOf(bs)[k]  BY <2>3, <2>4
  <2>6. Abstract!Get(k)
    <3>1. Bound(map)' = bs  BY <2>1 DEF Bound, bs
    <3> QED  BY <1>1, <2>5, <3>1 DEF Abstract!Get, bs
  <2> QED  BY <2>2, <2>6 DEF Abstract!Next, k
<1>8. CASE InsertHere
  <2>1. Bound(map)' = Bound(map)  BY <1>0, <1>8, InsertRight
  <2> QED  BY <1>3, <1>8, <2>1 DEF InsertHere
<1>9. CASE Single
  <2>1. Bound(map)' = Bound(map)  BY <1>0, <1>9, SingleStep
  <2> QED  BY <1>3, <1>9, <2>1 DEF Single
<1>10. CASE RemoveHere  BY <1>4, <1>10 DEF RemoveHere
<1>11. CASE Rebuild
  <2>1. Bound(map)' = Bound(map)  BY <1>0, <1>11, RebuildStep
  <2> QED  BY <1>3, <1>11, <2>1 DEF Rebuild
<1>12. CASE Rebuilt
  <2> DEFINE k == call.key  v == call.value
  <2>1. k \in Keys /\ Bound(map)' = Change(Bound(map), k, v)  BY <1>0, <1>12, RebuiltChanges
  <2>2. call.name = "rebuild" /\ answer' = answer  BY <1>12 DEF Rebuilt
  <2>3. v \in Values \cup {Missing}  BY <1>0, <2>2, CallForms
  <2> HIDE DEF k, v
  <2>4. Content' = [Content EXCEPT ![k] = v]
    <3>1. ContentOf(Change(Bound(map), k, v)) = [ContentOf(Bound(map)) EXCEPT ![k] = v]
      BY <2>1, ContentChanges
    <3> QED  BY <1>1, <2>1, <3>1
  <2>5. CASE v = Missing
    <3>1. Abstract!Remove(k)  BY <2>2, <2>4, <2>5 DEF Abstract!Remove
    <3> QED  BY <2>1, <3>1 DEF Abstract!Next
  <2>6. CASE v \in Values
    <3>1. Abstract!Insert(k, v)  BY <2>2, <2>4 DEF Abstract!Insert
    <3> QED  BY <2>1, <2>6, <3>1 DEF Abstract!Next
  <2> QED  BY <2>3, <2>5, <2>6
<1>13. CASE BeginBindings  BY <1>4, <1>13 DEF BeginBindings
<1>14. CASE Visit  BY <1>4, <1>14 DEF Visit
<1>15. CASE BindingsDone  BY <1>4, <1>15 DEF BindingsDone
<1>16. CASE UNCHANGED vars  BY <1>4, <1>16 DEF vars
<1> QED
  BY <1>5, <1>6, <1>7, <1>8, <1>9, <1>10, <1>11, <1>12, <1>13, <1>14, <1>15, <1>16 DEF Next

\* Map of foundation.c is a finite function from texts: map_insert and map_remove
\* change what their key means and nothing else, however many nodes they copy,
\* and map_get answers what was put there last.
THEOREM TrieIsMap == Spec => ImplementsKeyMap
BY AlwaysInv, InitIsMap, NextIsMap, PTL DEF Spec, ImplementsKeyMap, Abstract!Spec
=============================================================================

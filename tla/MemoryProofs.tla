---------------------------- MODULE MemoryProofs ----------------------------
(***************************************************************************)
(* Two facts about the host's memory.  The arena keeps the cells of its    *)
(* callers apart, for every block size, every request and every nesting of *)
(* marks.  The evaluator's caches in those cells are right although a row  *)
(* finds the addresses of the row before, for any names, environments,     *)
(* heap sizes and numbers of rows.                                         *)
(***************************************************************************)
EXTENDS Arena, Memo, FiniteSetTheorems, SequenceTheorems, WellFoundedInduction, TLAPS

(***************************************************************************)
(* Arena.  The inductive invariant says one thing of the present and of    *)
(* every mark held: the chain, the bump pointer and the live cells fit     *)
(* together (Sound), and a mark's part of the chain and of the cells is a  *)
(* prefix of the present one.  A release then brings back a sound state,   *)
(* because it was sound when the mark was taken and nothing below the mark *)
(* has changed.                                                            *)
(***************************************************************************)

Inside(blk, c) ==
  /\ blk.base + Header <= c.base
  /\ c.base + c.size <= blk.base + Header + blk.size

BlocksApart(ch) ==
  \A i, j \in DOMAIN ch :
    i < j => \/ ch[i].base + Header + ch[i].size <= ch[j].base
             \/ ch[j].base + Header + ch[j].size <= ch[i].base

Apart(cs) ==
  \A i, j \in DOMAIN cs :
    i < j => \/ cs[i].base + cs[i].size <= cs[j].base
             \/ cs[j].base + cs[j].size <= cs[i].base

\* The bump pointer is in the last block, and the room runs to its end.
TailOK(ch, nx, lf) ==
  /\ Len(ch) = 0 => lf = 0
  /\ Len(ch) > 0 =>
       /\ ch[Len(ch)].base + Header <= nx
       /\ nx + lf = ch[Len(ch)].base + Header + ch[Len(ch)].size

\* Every cell is in a block, and below the bump pointer if it is the last one.
Housed(ch, nx, cs) ==
  \A c \in DOMAIN cs : \E b \in DOMAIN ch :
    /\ Inside(ch[b], cs[c])
    /\ b = Len(ch) => cs[c].base + cs[c].size <= nx

Sound(ch, nx, lf, cs) ==
  /\ ch \in Seq(BlockRec) /\ nx \in Nat /\ lf \in Nat /\ cs \in Seq(CellRec)
  /\ BlocksApart(ch)
  /\ TailOK(ch, nx, lf)
  /\ Housed(ch, nx, cs)
  /\ Apart(cs)

MarkRec == [block : Nat, next : Nat, left : Nat, live : Seq(CellRec),
            held : SUBSET (Nat \X Nat)]

\* What a mark says is still so of the part of the arena below it.
MarkOK(m, ch, cs) ==
  /\ m.block <= Len(ch)
  /\ Len(m.live) <= Len(cs)
  /\ m.live = SubSeq(cs, 1, Len(m.live))
  /\ m.held = Footprint(SubSeq(ch, 1, m.block))
  /\ Sound(SubSeq(ch, 1, m.block), m.next, m.left, m.live)

Nested ==
  \A i, j \in DOMAIN marks :
    i < j => /\ marks[i].block <= marks[j].block
             /\ Len(marks[i].live) <= Len(marks[j].live)

IInv ==
  /\ Sound(chain, next, left, cells)
  /\ halted \in BOOLEAN
  /\ marks \in Seq(MarkRec)
  /\ \A k \in DOMAIN marks : MarkOK(marks[k], chain, cells)
  /\ Nested

-----------------------------------------------------------------------------
(***************************************************************************)
(* Arithmetic and sequences.                                               *)
(***************************************************************************)

\* A rounded request covers the bytes asked for and is never empty
\* (runtime.c 33-35).
LEMMA RoundedCovers ==
  ASSUME NEW size \in Nat
  PROVE  /\ Rounded(size) \in Nat
         /\ Rounded(size) >= size
         /\ Rounded(size) > 0
<1>1. Granule \in Nat \ {0}
  BY ArenaConstants
<1>2. CASE size = 0
  BY <1>1, <1>2 DEF Rounded
<1>3. CASE size # 0
  <2> DEFINE x == size + Granule - 1
             q == x \div Granule
  <2>1. x \in Nat /\ x >= Granule
    BY <1>1, <1>3
  <2>2. q \in Nat /\ x % Granule \in 0 .. (Granule - 1) /\ x = (Granule * q) + (x % Granule)
    BY <1>1, <2>1
  <2>3. Granule * q >= size
    BY <1>1, <2>2
  <2>4. Granule * q \in Nat /\ q * Granule = Granule * q
    BY <1>1, <2>2
  <2> QED
    BY <2>3, <2>4, <1>3 DEF Rounded
<1> QED
  BY <1>2, <1>3

\* A fresh block has room for the request that made it (runtime.c 37).
LEMMA BlockHolds ==
  ASSUME NEW r \in Nat
  PROVE  BlockSize(r) \in Nat /\ BlockSize(r) >= r
BY ArenaConstants DEF BlockSize

LEMMA SubSeqFacts ==
  ASSUME NEW S, NEW s \in Seq(S), NEW n \in 0 .. Len(s)
  PROVE  /\ SubSeq(s, 1, n) \in Seq(S)
         /\ Len(SubSeq(s, 1, n)) = n
         /\ \A i \in 1 .. n : SubSeq(s, 1, n)[i] = s[i]
OBVIOUS

LEMMA SubSeqAppend ==
  ASSUME NEW S, NEW s \in Seq(S), NEW e \in S, NEW n \in 0 .. Len(s)
  PROVE  SubSeq(Append(s, e), 1, n) = SubSeq(s, 1, n)
OBVIOUS

LEMMA SubSeqSubSeq ==
  ASSUME NEW S, NEW s \in Seq(S), NEW n \in 0 .. Len(s), NEW m \in 0 .. n
  PROVE  SubSeq(SubSeq(s, 1, n), 1, m) = SubSeq(s, 1, m)
OBVIOUS

LEMMA SubSeqWhole ==
  ASSUME NEW S, NEW s \in Seq(S)
  PROVE  SubSeq(s, 1, Len(s)) = s
OBVIOUS

-----------------------------------------------------------------------------
(***************************************************************************)
(* A cut keeps the arena sound, in the current block and in a fresh one.   *)
(***************************************************************************)

LEMMA CutHere ==
  ASSUME NEW ch, NEW nx, NEW lf, NEW cs, Sound(ch, nx, lf, cs),
         NEW size \in Nat, Rounded(size) <= lf
  PROVE  Sound(ch, nx + Rounded(size), lf - Rounded(size),
               Append(cs, [base |-> nx, size |-> size]))
<1> DEFINE c == [base |-> nx, size |-> size]
           cs2 == Append(cs, c)
           n == Len(ch)
<1>1. /\ Rounded(size) \in Nat /\ Rounded(size) >= size /\ Rounded(size) > 0
  BY RoundedCovers
<1>2. /\ ch \in Seq(BlockRec) /\ nx \in Nat /\ lf \in Nat /\ cs \in Seq(CellRec)
      /\ BlocksApart(ch) /\ TailOK(ch, nx, lf) /\ Housed(ch, nx, cs) /\ Apart(cs)
  BY DEF Sound
<1>3. n \in Nat \ {0} /\ n \in DOMAIN ch
  BY <1>1, <1>2 DEF TailOK
<1>4. /\ ch[n].base + Header <= nx
      /\ nx + lf = ch[n].base + Header + ch[n].size
      /\ ch[n].base \in Nat /\ ch[n].size \in Nat /\ Header \in Nat
  <2>1. ch[n] \in BlockRec
    BY <1>2, <1>3
  <2>2. ch[n].base \in Nat /\ ch[n].size \in Nat /\ Header \in Nat
    BY <2>1, ArenaConstants DEF BlockRec
  <2>3. /\ ch[n].base + Header <= nx
        /\ nx + lf = ch[n].base + Header + ch[n].size
    BY <1>2, <1>3 DEF TailOK
  <2> QED
    BY <2>2, <2>3
<1>5. c \in CellRec
  BY <1>2 DEF CellRec
<1>6. /\ cs2 \in Seq(CellRec) /\ DOMAIN cs2 = 1 .. Len(cs) + 1 /\ Len(cs) \in Nat
      /\ \A i \in 1 .. Len(cs) : cs2[i] = cs[i]
      /\ cs2[Len(cs) + 1] = c
  BY <1>2, <1>5
<1>7. DOMAIN cs = 1 .. Len(cs) /\ DOMAIN ch = 1 .. n
  BY <1>2
<1>8. /\ \A i \in 1 .. Len(cs) : cs[i].base \in Nat /\ cs[i].size \in Nat
      /\ \A b \in 1 .. n : ch[b].base \in Nat /\ ch[b].size \in Nat
  <2>1. \A i \in 1 .. Len(cs) : cs[i] \in CellRec
    BY <1>2
  <2>2. \A b \in 1 .. n : ch[b] \in BlockRec
    BY <1>2
  <2>3. \A r \in BlockRec : r.base \in Nat /\ r.size \in Nat
    BY ArenaConstants DEF BlockRec
  <2>4. \A r \in CellRec : r.base \in Nat /\ r.size \in Nat
    BY DEF CellRec
  <2> QED
    BY <2>1, <2>2, <2>3, <2>4
<1> HIDE DEF cs2, c, n
<1>9. c.base = nx /\ c.size = size
  BY DEF c
<1>10. TailOK(ch, nx + Rounded(size), lf - Rounded(size))
  BY <1>1, <1>2, <1>3, <1>4 DEF TailOK, n
<1>11. Housed(ch, nx + Rounded(size), cs2)
  <2> SUFFICES ASSUME NEW i \in DOMAIN cs2
               PROVE  \E b \in DOMAIN ch :
                        /\ Inside(ch[b], cs2[i])
                        /\ b = Len(ch) => cs2[i].base + cs2[i].size <= nx + Rounded(size)
    BY DEF Housed
  <2>1. CASE i = Len(cs) + 1
    <3>1. Inside(ch[n], cs2[i])
      <4>1. cs2[i].base = nx /\ cs2[i].size = size
        BY <1>6, <1>9, <2>1
      <4>2. nx \in Nat /\ lf \in Nat /\ size <= lf
        BY <1>1, <1>2
      <4>3. nx + size <= nx + lf
        BY <4>2
      <4>4. ch[n].base + Header <= nx /\ nx + lf = ch[n].base + Header + ch[n].size
        BY <1>4
      <4>5. nx + size <= ch[n].base + Header + ch[n].size
        BY <4>3, <4>4
      <4> QED
        BY <4>1, <4>4, <4>5 DEF Inside
    <3>2. cs2[i].base + cs2[i].size <= nx + Rounded(size)
      BY <1>1, <1>2, <1>6, <1>9, <2>1
    <3> QED
      BY <3>1, <3>2, <1>3
  <2>2. CASE i \in 1 .. Len(cs)
    <3>1. PICK b \in DOMAIN ch : /\ Inside(ch[b], cs[i])
                                 /\ b = Len(ch) => cs[i].base + cs[i].size <= nx
      BY <1>2, <1>7, <2>2 DEF Housed
    <3>2. cs2[i] = cs[i] /\ cs[i].base \in Nat /\ cs[i].size \in Nat
      BY <1>6, <1>8, <2>2
    <3>3. b = Len(ch) => cs2[i].base + cs2[i].size <= nx + Rounded(size)
      BY <1>1, <1>2, <3>1, <3>2
    <3> QED
      BY <3>1, <3>2, <3>3
  <2> QED
    BY <1>6, <2>1, <2>2
<1>12. \A i \in 1 .. Len(cs) : \/ cs[i].base + cs[i].size <= nx
                              \/ nx + size <= cs[i].base
  <2> SUFFICES ASSUME NEW i \in 1 .. Len(cs)
               PROVE  \/ cs[i].base + cs[i].size <= nx
                      \/ nx + size <= cs[i].base
    OBVIOUS
  <2>1. PICK b \in 1 .. n : /\ Inside(ch[b], cs[i])
                            /\ b = n => cs[i].base + cs[i].size <= nx
    BY <1>2, <1>7 DEF Housed, n
  <2>2. cs[i].base \in Nat /\ cs[i].size \in Nat
    BY <1>8
  <2>3. CASE b = n
    BY <2>1, <2>3
  <2>4. CASE b # n
    <3>1. \/ ch[b].base + Header + ch[b].size <= ch[n].base
          \/ ch[n].base + Header + ch[n].size <= ch[b].base
      BY <1>2, <1>3, <1>7, <2>1, <2>4 DEF BlocksApart
    <3>2. ch[b].base \in Nat /\ ch[b].size \in Nat
      BY <1>8
    <3>3. ch[b].base + Header <= cs[i].base
          /\ cs[i].base + cs[i].size <= ch[b].base + Header + ch[b].size
      BY <2>1 DEF Inside
    <3>4. CASE ch[b].base + Header + ch[b].size <= ch[n].base
      <4> DEFINE x == cs[i].base + cs[i].size
                 y == ch[b].base + Header + ch[b].size
                 z == ch[n].base
      <4>a. x \in Nat
        BY <2>2
      <4>b. y \in Nat
        <5>1. ch[b].base \in Nat
          BY <3>2
        <5>2. ch[b].size \in Nat
          BY <3>2
        <5>3. Header \in Nat
          BY ArenaConstants
        <5>4. \A p, q, r \in Nat : p + q + r \in Nat
          OBVIOUS
        <5> QED
          BY <5>1, <5>2, <5>3, <5>4
      <4>c. z \in Nat
        BY <1>4
      <4>1. x \in Nat /\ y \in Nat /\ z \in Nat
        BY <4>a, <4>b, <4>c
      <4>2. x <= y /\ y <= z
        BY <3>3, <3>4
      <4>3. z <= nx
        BY <1>2, <1>4, <4>1 DEF n
      <4> HIDE DEF x, y, z
      <4>4. x <= nx
        BY <1>2, <4>1, <4>2, <4>3
      <4> QED
        BY <4>4 DEF x
    <3>5. CASE ch[n].base + Header + ch[n].size <= ch[b].base
      <4>1. ch[b].base <= cs[i].base
        BY <1>4, <2>2, <3>2, <3>3
      <4>2. nx + lf <= cs[i].base
        <5> DEFINE u == nx + lf
                   w == ch[b].base
                   x == cs[i].base
        <5>1. u = ch[n].base + Header + ch[n].size  BY <1>4
        <5>2. u <= w /\ w <= x  BY <3>5, <4>1, <5>1
        <5>3. u \in Nat  BY <1>4
        <5>4. w \in Nat /\ x \in Nat  BY <2>2, <3>2
        <5> HIDE DEF u, w, x
        <5>5. u <= x  BY <5>2, <5>3, <5>4
        <5> QED  BY <5>5 DEF u, x
      <4>3. size <= lf
        BY <1>1, <1>2
      <4> QED
        BY <1>2, <2>2, <4>2, <4>3
    <3> QED
      BY <3>1, <3>4, <3>5
  <2> QED
    BY <2>3, <2>4
<1>13. Apart(cs2)
  <2> SUFFICES ASSUME NEW i \in DOMAIN cs2, NEW j \in DOMAIN cs2, i < j
               PROVE  \/ cs2[i].base + cs2[i].size <= cs2[j].base
                      \/ cs2[j].base + cs2[j].size <= cs2[i].base
    BY DEF Apart
  <2>1. CASE j = Len(cs) + 1
    <3>1. i \in 1 .. Len(cs)
      BY <1>6, <2>1
    <3> QED
      BY <1>6, <1>9, <1>12, <2>1, <3>1
  <2>2. CASE j \in 1 .. Len(cs)
    <3>1. i \in 1 .. Len(cs)
      BY <1>6, <2>2
    <3> QED
      BY <1>2, <1>6, <1>7, <2>2, <3>1 DEF Apart
  <2> QED
    BY <1>6, <2>1, <2>2
<1>14. nx + Rounded(size) \in Nat /\ lf - Rounded(size) \in Nat
  BY <1>1, <1>2
<1> QED
  BY <1>2, <1>6, <1>10, <1>11, <1>13, <1>14 DEF Sound, c, cs2

\* A fresh block is sound before the cut: its whole room is left, and the
\* cells of the older blocks need no bound.
LEMMA FreshBlock ==
  ASSUME NEW ch, NEW nx, NEW lf, NEW cs, Sound(ch, nx, lf, cs),
         NEW base \in 1 .. Space, NEW size \in Nat,
         \A i \in DOMAIN ch :
           \/ base + Header + size <= ch[i].base
           \/ ch[i].base + Header + ch[i].size <= base
  PROVE  Sound(Append(ch, [base |-> base, size |-> size]), base + Header, size, cs)
<1> DEFINE blk == [base |-> base, size |-> size]
           ch2 == Append(ch, blk)
           n == Len(ch)
<1>1. /\ ch \in Seq(BlockRec) /\ nx \in Nat /\ lf \in Nat /\ cs \in Seq(CellRec)
      /\ BlocksApart(ch) /\ Housed(ch, nx, cs) /\ Apart(cs)
  BY DEF Sound
<1>2. base \in Nat /\ Header \in Nat /\ blk \in BlockRec
  BY ArenaConstants DEF BlockRec
<1>3. /\ ch2 \in Seq(BlockRec) /\ n \in Nat /\ DOMAIN ch2 = 1 .. n + 1 /\ Len(ch2) = n + 1
      /\ \A i \in 1 .. n : ch2[i] = ch[i]
      /\ ch2[n + 1] = blk /\ DOMAIN ch = 1 .. n
  BY <1>1, <1>2
<1> HIDE DEF ch2, blk, n
<1>4. blk.base = base /\ blk.size = size
  BY DEF blk
<1>5. BlocksApart(ch2)
  <2> SUFFICES ASSUME NEW i \in 1 .. n + 1, NEW j \in 1 .. n + 1, i < j
               PROVE  \/ ch2[i].base + Header + ch2[i].size <= ch2[j].base
                      \/ ch2[j].base + Header + ch2[j].size <= ch2[i].base
    BY <1>3 DEF BlocksApart
  <2>1. i \in 1 .. n
    BY <1>3
  <2>2. CASE j = n + 1
    BY <1>3, <1>4, <2>1, <2>2
  <2>3. CASE j \in 1 .. n
    BY <1>1, <1>3, <2>1, <2>3 DEF BlocksApart
  <2> QED
    BY <1>3, <2>2, <2>3
<1>6. TailOK(ch2, base + Header, size)
  BY <1>2, <1>3, <1>4 DEF TailOK
<1>7. Housed(ch2, base + Header, cs)
  <2> SUFFICES ASSUME NEW c \in DOMAIN cs
               PROVE  \E b \in DOMAIN ch2 :
                        /\ Inside(ch2[b], cs[c])
                        /\ b = Len(ch2) => cs[c].base + cs[c].size <= base + Header
    BY DEF Housed
  <2>1. PICK b \in DOMAIN ch : Inside(ch[b], cs[c])
    BY <1>1 DEF Housed
  <2>2. b \in DOMAIN ch2 /\ b # Len(ch2) /\ ch2[b] = ch[b]
    BY <1>3
  <2> QED
    BY <2>1, <2>2
<1>8. base + Header \in Nat
  BY <1>2
<1> QED
  BY <1>1, <1>3, <1>5, <1>6, <1>7, <1>8 DEF Sound, ch2, blk

-----------------------------------------------------------------------------
(***************************************************************************)
(* The inductive invariant.                                                *)
(***************************************************************************)

LEMMA SoundEmpty == Sound(<< >>, 0, 0, << >>)
BY DEF Sound, BlocksApart, TailOK, Housed, Apart

\* What a mark says does not change when the chain and the cells grow.
LEMMA MarkGrows ==
  ASSUME NEW m \in MarkRec, NEW ch \in Seq(BlockRec), NEW cs \in Seq(CellRec),
         NEW ch2 \in Seq(BlockRec), NEW cs2 \in Seq(CellRec),
         MarkOK(m, ch, cs),
         Len(ch) <= Len(ch2), SubSeq(ch2, 1, m.block) = SubSeq(ch, 1, m.block),
         Len(cs) <= Len(cs2), SubSeq(cs2, 1, Len(m.live)) = SubSeq(cs, 1, Len(m.live))
  PROVE  MarkOK(m, ch2, cs2)
<1>1. m.block \in Nat /\ m.live \in Seq(CellRec)
  BY DEF MarkRec
<1>2. /\ m.block <= Len(ch2)
      /\ Len(m.live) <= Len(cs2)
  BY <1>1 DEF MarkOK
<1> QED
  BY <1>2 DEF MarkOK

LEMMA InitIInv == Init => IInv
<1> SUFFICES ASSUME Init PROVE IInv
  OBVIOUS
<1>1. Sound(chain, next, left, cells)
  BY SoundEmpty DEF Init
<1>2. marks = << >>
  BY DEF Init
<1>3. marks \in Seq(MarkRec) /\ DOMAIN marks = {}
  BY <1>2
<1> QED
  BY <1>1, <1>3 DEF IInv, Init, Nested

LEMMA NextIInv == IInv /\ [Next]_vars => IInv'
<1> SUFFICES ASSUME IInv, [Next]_vars PROVE IInv'
  OBVIOUS
<1>1. /\ Sound(chain, next, left, cells) /\ marks \in Seq(MarkRec) /\ Nested
      /\ \A k \in DOMAIN marks : MarkOK(marks[k], chain, cells)
      /\ halted \in BOOLEAN
      /\ chain \in Seq(BlockRec) /\ cells \in Seq(CellRec) /\ next \in Nat /\ left \in Nat
  BY DEF IInv, Sound
<1>2. \A k \in DOMAIN marks : /\ marks[k] \in MarkRec
                              /\ marks[k].block \in Nat
                              /\ marks[k].live \in Seq(CellRec)
                              /\ marks[k].block \in 0 .. Len(chain)
                              /\ Len(marks[k].live) \in 0 .. Len(cells)
  <2> TAKE k \in DOMAIN marks
  <2>1. marks[k] \in MarkRec /\ MarkOK(marks[k], chain, cells)
    BY <1>1
  <2>2. marks[k].block \in Nat /\ marks[k].live \in Seq(CellRec)
    BY <2>1 DEF MarkRec
  <2> QED
    BY <1>1, <2>1, <2>2 DEF MarkOK
<1>3. ASSUME NEW size \in Sizes, AllocHere(size)
      PROVE  IInv'
  <2>1. size \in Nat
    BY ArenaConstants
  <2>2. Sound(chain, next', left', cells')
    BY <1>1, <1>3, <2>1, CutHere DEF AllocHere, Bump
  <2>3. /\ chain' = chain /\ marks' = marks /\ halted' = halted
        /\ cells' = Append(cells, [base |-> next, size |-> size])
        /\ [base |-> next, size |-> size] \in CellRec
    BY <1>1, <1>3, <2>1 DEF AllocHere, Bump, CellRec
  <2>4. \A k \in DOMAIN marks : MarkOK(marks[k], chain, cells')
    <3> TAKE k \in DOMAIN marks
    <3>1. SubSeq(cells', 1, Len(marks[k].live)) = SubSeq(cells, 1, Len(marks[k].live))
      BY <1>1, <1>2, <2>3, SubSeqAppend
    <3>2. cells' \in Seq(CellRec) /\ Len(cells) <= Len(cells')
      BY <1>1, <2>3
    <3>3. Len(chain) <= Len(chain)
      BY <1>1
    <3> QED
      BY <1>1, <1>2, <3>1, <3>2, <3>3, MarkGrows
  <2> QED
    BY <1>1, <2>2, <2>3, <2>4 DEF IInv, Nested
<1>4. ASSUME NEW size \in Sizes, NEW base \in 1 .. Space, AllocFresh(size, base)
      PROVE  IInv'
  <2> DEFINE room == BlockSize(Rounded(size))
             blk == [base |-> base, size |-> room]
  <2>1. size \in Nat /\ Rounded(size) \in Nat /\ room \in Nat /\ Rounded(size) <= room
    BY ArenaConstants, RoundedCovers, BlockHolds
  <2>2. \A i \in DOMAIN chain :
          \/ base + Header + room <= chain[i].base
          \/ chain[i].base + Header + chain[i].size <= base
    BY <1>4 DEF AllocFresh, Fits
  <2>3. /\ chain' = Append(chain, blk) /\ marks' = marks /\ halted' = halted
        /\ next' = base + Header + Rounded(size) /\ left' = room - Rounded(size)
        /\ cells' = Append(cells, [base |-> base + Header, size |-> size])
    BY <1>4 DEF AllocFresh, Bump
  <2>4. blk \in BlockRec /\ [base |-> base + Header, size |-> size] \in CellRec
    BY <2>1, ArenaConstants DEF BlockRec, CellRec
  <2> HIDE DEF room
  <2>5. Sound(chain', base + Header, room, cells)
    BY <1>1, <2>1, <2>2, <2>3, FreshBlock
  <2>6. Sound(chain', next', left', cells')
    BY <2>1, <2>3, <2>5, CutHere
  <2>7. \A k \in DOMAIN marks : MarkOK(marks[k], chain', cells')
    <3> TAKE k \in DOMAIN marks
    <3>1. SubSeq(cells', 1, Len(marks[k].live)) = SubSeq(cells, 1, Len(marks[k].live))
      BY <1>1, <1>2, <2>3, <2>4, SubSeqAppend
    <3>2. SubSeq(chain', 1, marks[k].block) = SubSeq(chain, 1, marks[k].block)
      BY <1>1, <1>2, <2>3, <2>4, SubSeqAppend
    <3>3. cells' \in Seq(CellRec) /\ Len(cells) <= Len(cells')
      BY <1>1, <2>3, <2>4
    <3>4. chain' \in Seq(BlockRec) /\ Len(chain) <= Len(chain')
      BY <1>1, <2>3, <2>4
    <3> QED
      BY <1>1, <1>2, <3>1, <3>2, <3>3, <3>4, MarkGrows
  <2> QED
    BY <1>1, <2>3, <2>6, <2>7 DEF IInv, Nested
<1>5. ASSUME NEW size \in Sizes, OutOfMemory(size)
      PROVE  IInv'
  BY <1>1, <1>5 DEF OutOfMemory, IInv, Nested
<1>6. CASE Mark
  <2> DEFINE m == [block |-> Len(chain), next |-> next, left |-> left,
                   live |-> cells, held |-> Footprint(chain)]
  <2>1. /\ marks' = Append(marks, m)
        /\ UNCHANGED <<chain, next, left, halted, cells>>
    BY <1>6 DEF Mark
  <2>2. Footprint(chain) \in SUBSET (Nat \X Nat)
    <3>1. \A r \in BlockRec : r.base \in Nat /\ r.size \in Nat
      BY ArenaConstants DEF BlockRec
    <3>2. \A i \in DOMAIN chain : chain[i] \in BlockRec
      BY <1>1
    <3> QED
      BY <3>1, <3>2 DEF Footprint
  <2>3. m \in MarkRec
    BY <1>1, <2>2 DEF MarkRec
  <2>4. SubSeq(chain, 1, Len(chain)) = chain /\ SubSeq(cells, 1, Len(cells)) = cells
    BY <1>1, SubSeqWhole
  <2>5. /\ m.block = Len(chain) /\ m.next = next /\ m.left = left
        /\ m.live = cells /\ m.held = Footprint(chain)
    OBVIOUS
  <2> HIDE DEF m
  <2>6. MarkOK(m, chain, cells)
    <3>1. m.block <= Len(chain) /\ Len(m.live) <= Len(cells)
      BY <1>1, <2>5
    <3>2. Sound(SubSeq(chain, 1, m.block), m.next, m.left, m.live)
      BY <1>1, <2>4, <2>5
    <3> QED
      BY <2>4, <2>5, <3>1, <3>2 DEF MarkOK
  <2>7. /\ marks' \in Seq(MarkRec) /\ Len(marks) \in Nat
        /\ DOMAIN marks' = 1 .. Len(marks) + 1 /\ DOMAIN marks = 1 .. Len(marks)
        /\ \A k \in 1 .. Len(marks) : marks'[k] = marks[k]
        /\ marks'[Len(marks) + 1] = m
    BY <1>1, <2>1, <2>3
  <2>8. \A k \in DOMAIN marks' : MarkOK(marks'[k], chain, cells)
    BY <1>1, <2>6, <2>7
  <2>9. Nested'
    <3> SUFFICES ASSUME NEW i \in DOMAIN marks', NEW j \in DOMAIN marks', i < j
                 PROVE  /\ marks'[i].block <= marks'[j].block
                        /\ Len(marks'[i].live) <= Len(marks'[j].live)
      BY DEF Nested
    <3>1. i \in 1 .. Len(marks)
      BY <2>7
    <3>2. CASE j = Len(marks) + 1
      BY <1>2, <2>5, <2>7, <3>1, <3>2
    <3>3. CASE j \in 1 .. Len(marks)
      BY <1>1, <2>7, <3>1, <3>3 DEF Nested
    <3> QED
      BY <2>7, <3>2, <3>3
  <2> QED
    BY <1>1, <2>1, <2>7, <2>8, <2>9 DEF IInv
<1>7. ASSUME NEW k \in DOMAIN marks, Release(k)
      PROVE  IInv'
  <2> DEFINE m == marks[k]
  <2>1. /\ chain' = SubSeq(chain, 1, m.block) /\ next' = m.next /\ left' = m.left
        /\ cells' = SubSeq(cells, 1, Len(m.live)) /\ marks' = SubSeq(marks, 1, k - 1)
        /\ halted' = halted
    BY <1>7 DEF Release, Rewound
  <2>2. MarkOK(m, chain, cells)
    BY <1>1
  <2>3. cells' = m.live /\ Sound(chain', next', left', cells')
    BY <2>1, <2>2 DEF MarkOK
  <2>4. k \in 1 .. Len(marks) /\ Len(marks) \in Nat /\ k - 1 \in 0 .. Len(marks)
    BY <1>1
  <2>5. /\ marks' \in Seq(MarkRec) /\ Len(marks') = k - 1 /\ DOMAIN marks' = 1 .. k - 1
        /\ \A i \in 1 .. k - 1 : marks'[i] = marks[i]
    BY <1>1, <2>1, <2>4, SubSeqFacts
  <2>6. /\ chain' \in Seq(BlockRec) /\ Len(chain') = m.block
        /\ cells' \in Seq(CellRec) /\ Len(cells') = Len(m.live)
    BY <1>1, <1>2, <2>1, SubSeqFacts
  <2>7. ASSUME NEW i \in 1 .. k - 1
        PROVE  MarkOK(marks[i], chain', cells')
    <3>1. /\ i \in DOMAIN marks /\ i < k
      BY <2>4, <1>1
    <3>2. marks[i].block <= m.block /\ Len(marks[i].live) <= Len(m.live)
      BY <1>1, <3>1 DEF Nested
    <3>3. marks[i].block \in 0 .. m.block /\ m.block \in 0 .. Len(chain)
      BY <1>2, <3>1, <3>2
    <3>4. Len(marks[i].live) \in 0 .. Len(m.live) /\ Len(m.live) \in 0 .. Len(cells)
      BY <1>2, <3>1, <3>2
    <3>5. SubSeq(chain', 1, marks[i].block) = SubSeq(chain, 1, marks[i].block)
      BY <1>1, <2>1, <3>3, SubSeqSubSeq
    <3>6. SubSeq(cells', 1, Len(marks[i].live)) = SubSeq(cells, 1, Len(marks[i].live))
      BY <1>1, <2>1, <3>4, SubSeqSubSeq
    <3>7. MarkOK(marks[i], chain, cells)
      BY <1>1, <3>1
    <3> QED
      BY <2>6, <3>2, <3>5, <3>6, <3>7 DEF MarkOK
  <2>8. \A i \in DOMAIN marks' : MarkOK(marks'[i], chain', cells')
    BY <2>5, <2>7
  <2>9. Nested'
    <3>1. \A i \in 1 .. k - 1 : i \in DOMAIN marks
      BY <1>1, <2>4
    <3> QED
      BY <1>1, <2>5, <3>1 DEF Nested
  <2> QED
    BY <1>1, <2>1, <2>3, <2>5, <2>8, <2>9 DEF IInv
<1>8. CASE UNCHANGED vars
  BY <1>1, <1>8 DEF vars, IInv, Nested
<1> QED
  BY <1>3, <1>4, <1>5, <1>6, <1>7, <1>8 DEF Next

\* The arena and its marks stay sound, whatever is requested and rewound.
THEOREM ArenaSound == Spec => []IInv
<1>1. Init => IInv
  BY InitIInv
<1>2. IInv /\ [Next]_vars => IInv'
  BY NextIInv
<1> QED
  BY <1>1, <1>2, PTL DEF Spec

\* The variables keep their types: the room left never goes below zero.
THEOREM Typing == Spec => []TypeOK
<1>1. IInv => TypeOK
  BY DEF IInv, Sound, TypeOK, MarkRec
<1> QED
  BY <1>1, ArenaSound, PTL

\* Two live cells never share a byte, for all sizes and all reuse of freed
\* blocks (arena_alloc, arena_release).
THEOREM CellsNeverOverlap == Spec => []CellsApart
<1>1. IInv => CellsApart
  BY DEF IInv, Sound, Apart, CellsApart
<1> QED
  BY <1>1, ArenaSound, PTL

\* No live cell is in a freed block (arena_release runtime.c 67-81).
THEOREM CellsNeverFreed == Spec => []CellsHeld
<1>1. IInv => CellsHeld
  BY DEF IInv, Sound, Housed, Inside, CellsHeld
<1> QED
  BY <1>1, ArenaSound, PTL

\* A release leaves exactly the cells and the memory of the time of the mark
\* (sole.h 51-54).
THEOREM ReleaseRestores == Spec => ReleaseExact
<1>1. IInv /\ [Next]_vars =>
        [\A k \in DOMAIN marks : Release(k) =>
           /\ cells' = marks[k].live
           /\ Footprint(chain') = marks[k].held]_vars
  <2> SUFFICES ASSUME IInv, NEW k \in DOMAIN marks, Release(k)
               PROVE  /\ cells' = marks[k].live
                      /\ Footprint(chain') = marks[k].held
    OBVIOUS
  <2>1. MarkOK(marks[k], chain, cells)
    BY DEF IInv
  <2> QED
    BY <2>1 DEF MarkOK, Release, Rewound, Footprint
<1> QED
  BY <1>1, ArenaSound, PTL DEF Spec, ReleaseExact

-----------------------------------------------------------------------------
(***************************************************************************)
(* Memo.  The cells are wired: an address in a cell is that of a cell of   *)
(* the right kind.  Under each map of the row a number falls from every    *)
(* term to what its value is made of, so evaluation ends (Grounded), and   *)
(* a value there is well defined.  A cache holds the value under the map   *)
(* of its key (Right).  Evaluation keeps this and answers the value, by    *)
(* induction on how deep its calls may nest, for which the cells suffice.  *)
(***************************************************************************)
TermsOf(h) == Cells(h, "term")
EntriesOf(h) == Cells(h, "entry")
MapsOf(h) == Cells(h, "globals")

\* Two cells that differ only in what they cache; the static one caches nothing.
SameCell(c, d) ==
  /\ d.cell = c.cell
  /\ c.cell = "term" => d.tag = c.tag /\ d.name = c.name /\ d.part = c.part
                        /\ (c.tag = "auto" => d = c)
  /\ c.cell = "entry" => d.kind = c.kind /\ d.body = c.body
  /\ c.cell = "globals" => d.map = c.map
  /\ c.cell = "head" => d.name = c.name

\* h2 has the cells of h, and maybe others after them.
Grown(h, h2) == Len(h) <= Len(h2) /\ \A p \in DOMAIN h : SameCell(h[p], h2[p])

\* The addresses in the cells are those of cells of the right kind.
WiredTerm(h, p) ==
  IF h[p].tag \in {"lan", "node"} THEN h[p].part \in TermsOf(h) /\ h[p].part < p
  ELSE h[p].part = 0
Wired(h) ==
  /\ h \in Heaps
  /\ \A p \in TermsOf(h) : WiredTerm(h, p)
  /\ \A e \in EntriesOf(h) : h[e].body \in TermsOf(h)
  /\ \A g \in MapsOf(h) : \A n \in Names : h[g].map[n] \in EntriesOf(h) \cup {0}

\* The cells below a row: the static term, then paths of the walk.
BaseCell(p) == IF p = 1 THEN StaticAuto ELSE Path
Based(h, n) == \A p \in 1 .. n : h[p] = BaseCell(p)

\* The body a term unfolds to in a map, if it is the name of a definition.
Unfolded(h, g, p) ==
  {h[e].body : e \in {e \in EntriesOf(h) : /\ h[p].tag = "global" /\ h[g].map[h[p].name] = e
                                          /\ h[e].kind = "def"}}

\* Evaluation under a map ends: a number for every term that falls at every call.
Falls(h, g, p, m) ==
  /\ h[p].part # 0 => m[h[p].part] < m[p]
  /\ \A b \in Unfolded(h, g, p) : m[b] < m[p]
Descends(h, g, d, m) ==
  /\ m \in [TermsOf(h) -> 0 .. d]
  /\ \A p \in TermsOf(h) : Falls(h, g, p, m)
Ends(h, g) == \E d \in Nat : \E m : Descends(h, g, d, m)
Grounded(h) == \A g \in MapsOf(h) : Ends(h, g)

\* What a cell c at p caches is right for the terms and maps of h.
SeenOK(h, seen, name) ==
  /\ seen.key \in MapsOf(h) \cup {0}
  /\ seen.key # 0 => seen.entry = h[seen.key].map[name]
KeptOK(h, p, c) ==
  /\ p \in TermsOf(h) /\ Closed(h, p) /\ c.key \in MapsOf(h)
  /\ \A env \in Envs : c.value = Fresh(h, c.key)[p][env]
BodyOK(h, p, c) ==
  /\ p \in EntriesOf(h) /\ c.key \in MapsOf(h)
  /\ c.kind = "def" => c.value = Fresh(h, c.key)[c.body][<< >>]
CellOK(h, p, c) ==
  /\ c.cell \in {"term", "head"} => SeenOK(h, c.seen, c.name)
  /\ c.cell = "term" /\ c.state = "kept" => KeptOK(h, p, c)
  /\ c.cell = "entry" /\ c.key # 0 => BodyOK(h, p, c)
Right(h, h2) == \A p \in DOMAIN h2 : CellOK(h, p, h2[p])

\* What evaluations make of h: neutral heads are new, and caches changed.
Heads(h, h2) == \A p \in DOMAIN h2 : p \notin DOMAIN h => h2[p].cell = "head"
Reached(h, h2) == h2 \in Heaps /\ Grown(h, h2) /\ Heads(h, h2) /\ Right(h, h2)

Framed ==
  /\ mark \in Nat /\ rows \in Nat /\ bound \in Bounds
  /\ mark <= Len(heap) /\ 1 <= Len(heap)
  /\ Based(heap, IF InRow THEN mark ELSE Len(heap))
  /\ InRow => 1 <= mark /\ mark + 1 \in TermsOf(heap)

MemoInv == Framed /\ Wired(heap) /\ Grounded(heap) /\ Right(heap, heap)

-----------------------------------------------------------------------------
\* Induction, as facts about sets.
LEMMA LeastOf ==
  ASSUME NEW S \in SUBSET Nat, S # {}
  PROVE  \E m \in S : \A k \in S : m <= k
<1> DEFINE below == {ss \in Nat \X Nat : ss[1] < ss[2]}
<1>1. IsWellFoundedOn(below, Nat)
  BY NatLessThanWellFounded DEF OpToRel
<1>2. \A k, n \in Nat : <<k, n>> \in below <=> k < n
  OBVIOUS
<1> HIDE DEF below
<1>3. PICK m \in S : \A k \in S : ~ (<<k, m>> \in below)
  BY <1>1, WFMin
<1>4. ASSUME NEW k \in S PROVE m <= k
  <2>1. ~(k < m)
    BY <1>2, <1>3
  <2> QED
    BY <2>1
<1> QED
  BY <1>4

LEMMA Induct ==
  ASSUME NEW S, 0 \in S, \A m \in Nat : m \in S => m + 1 \in S
  PROVE  Nat \subseteq S
<1> DEFINE T == {m \in Nat : m \notin S}
<1>1. SUFFICES ASSUME T # {} PROVE FALSE
  OBVIOUS
<1>2. PICK d \in T : \A e \in T : d <= e
  <2>1. T \in SUBSET Nat
    OBVIOUS
  <2> HIDE DEF T
  <2> QED
    BY <1>1, <2>1, LeastOf
<1>3. d \in Nat /\ d # 0 /\ d - 1 \in Nat /\ ~(d <= d - 1)
  OBVIOUS
<1>4. d - 1 \notin T
  BY <1>2, <1>3
<1> QED
  BY <1>3, <1>4

\* What falls along a number holds everywhere, if it holds of whatever has all
\* smaller ones.
Hereditary(S, m, good) ==
  \A p \in S : (\A q \in S : m[q] < m[p] => q \in good) => p \in good
LEMMA Descent ==
  ASSUME NEW S, NEW m \in [S -> Nat], NEW good, Hereditary(S, m, good)
  PROVE  S \subseteq good
<1> DEFINE T == {m[p] : p \in {p \in S : p \notin good}}
<1>1. SUFFICES ASSUME T # {} PROVE FALSE
  OBVIOUS
<1>2. T \in SUBSET Nat
  OBVIOUS
<1>3. PICK k \in T : \A e \in T : k <= e
  <2> HIDE DEF T
  <2> QED  BY <1>1, <1>2, LeastOf
<1>4. PICK p \in S : p \notin good /\ m[p] = k
  OBVIOUS
<1>5. ASSUME NEW q \in S, m[q] < m[p] PROVE q \in good
  <2>1. m[q] \notin T  BY <1>2, <1>3, <1>4, <1>5
  <2> QED  BY <2>1
<1> QED
  BY <1>4, <1>5 DEF Hereditary

-----------------------------------------------------------------------------
(***************************************************************************)
(* Cells.                                                                  *)
(***************************************************************************)
LEMMA HeapIs ==
  ASSUME NEW h \in Heaps
  PROVE  /\ Len(h) \in Nat /\ DOMAIN h = 1 .. Len(h)
         /\ \A p \in DOMAIN h : h[p] \in Cell
BY DEF Heaps

LEMMA CellIs ==
  ASSUME NEW c \in Cell
  PROVE  /\ c.cell = "term" => c \in TermCell
         /\ c.cell = "entry" => c \in EntryCell
         /\ c.cell = "globals" => c \in GlobalsCell
         /\ c.cell = "head" => c \in HeadCell
         /\ c.cell = "path" => c = Path
         /\ c.cell \in {"term", "entry", "globals", "head", "path"}
BY DEF Cell, TermCell, EntryCell, GlobalsCell, HeadCell, Path

LEMMA CellsAre ==
  ASSUME NEW h \in Heaps
  PROVE  /\ \A p \in TermsOf(h) : p \in DOMAIN h /\ h[p] \in TermCell /\ h[p].cell = "term"
         /\ \A p \in EntriesOf(h) : p \in DOMAIN h /\ h[p] \in EntryCell /\ h[p].cell = "entry"
         /\ \A p \in MapsOf(h) : p \in DOMAIN h /\ h[p] \in GlobalsCell /\ h[p].cell = "globals"
         /\ TermsOf(h) \subseteq Nat \ {0} /\ EntriesOf(h) \subseteq Nat \ {0}
         /\ MapsOf(h) \subseteq Nat \ {0}
BY HeapIs, CellIs DEF TermsOf, EntriesOf, MapsOf, Cells
-----------------------------------------------------------------------------
(***************************************************************************)
(* Recursion along a number that falls.  A rule makes the value of p from  *)
(* a function f, of which it looks only at what has smaller numbers.       *)
(***************************************************************************)
Below(S, m, p) == {q \in S : m[q] < m[p]}
Agree(T, f, e) == \A q \in T : f[q] = e[q]
Looks(S, V, m, rule) ==
  \A p \in S : \A f, e \in [S -> V] :
    Agree(Below(S, m, p), f, e) => rule[<<p, f>>] = rule[<<p, e>>]
Follows(S, f, rule) == \A p \in S : f[p] = rule[<<p, f>>]

LEMMA Recursion ==
  ASSUME NEW S, NEW V, NEW v \in V, NEW d \in Nat, NEW m \in [S -> 0 .. d],
         NEW rule \in [S \X [S -> V] -> V], Looks(S, V, m, rule)
  PROVE  \E f \in [S -> V] : Follows(S, f, rule)
<1> DEFINE Upto(k, f) == \A p \in S : m[p] < k => f[p] = rule[<<p, f>>]
           T == {k \in Nat : \E f \in [S -> V] : Upto(k, f)}
<1>1. 0 \in T
  <2>1. Upto(0, [p \in S |-> v]) /\ [p \in S |-> v] \in [S -> V]  OBVIOUS
  <2> HIDE DEF Upto
  <2> QED  BY <2>1
<1>2. ASSUME NEW k \in Nat, k \in T PROVE k + 1 \in T
  <2>1. PICK f \in [S -> V] : Upto(k, f)  BY <1>2
  <2> DEFINE e == [p \in S |-> IF m[p] < k THEN f[p] ELSE rule[<<p, f>>]]
  <2>2. e \in [S -> V]  OBVIOUS
  <2>3. ASSUME NEW p \in S, m[p] < k + 1 PROVE e[p] = rule[<<p, e>>]
    <3>1. Agree(Below(S, m, p), f, e)
      <4>1. ASSUME NEW q \in Below(S, m, p) PROVE m[q] < k  BY <2>3 DEF Below
      <4> QED  BY <4>1 DEF Agree, Below
    <3>2. rule[<<p, f>>] = rule[<<p, e>>]
      <4> HIDE DEF e
      <4> QED  BY <2>2, <3>1 DEF Looks
    <3>3. e[p] = rule[<<p, f>>]  BY <2>1
    <3> QED  BY <3>2, <3>3
  <2>4. Upto(k + 1, e)
    <3> HIDE DEF e
    <3> QED  BY <2>3
  <2> HIDE DEF Upto, e
  <2> QED  BY <2>2, <2>4
<1>3. Nat \subseteq T
  <2> HIDE DEF T
  <2> QED  BY <1>1, <1>2, Induct
<1>4. PICK f \in [S -> V] : Upto(d + 1, f)
  <2>1. d + 1 \in T
    <3> HIDE DEF T
    <3> QED  BY <1>3
  <2> QED  BY <2>1
<1>5. \A p \in S : m[p] < d + 1  OBVIOUS
<1> QED
  BY <1>4, <1>5 DEF Follows

-----------------------------------------------------------------------------
(***************************************************************************)
(* The innermost part of a term.                                           *)
(***************************************************************************)
LeafStep(h, f, p) == IF h[p].part = 0 THEN p ELSE f[h[p].part]

LEMMA PartIs ==
  ASSUME NEW h, Wired(h), NEW p \in TermsOf(h), h[p].part # 0
  PROVE  h[p].part \in TermsOf(h) /\ h[p].part < p /\ h[p].tag \in {"lan", "node"}
BY DEF Wired, WiredTerm

LEMMA LeafEquation ==
  ASSUME NEW h, Wired(h)
  PROVE  Leaf(h) = [p \in TermsOf(h) |-> LeafStep(h, Leaf(h), p)]
<1> DEFINE S == TermsOf(h)
           m == [p \in S |-> p]
           rule == [pf \in S \X [S -> S] |-> LeafStep(h, pf[2], pf[1])]
<1>0. h \in Heaps  BY DEF Wired
<1>1. Len(h) \in Nat /\ S \subseteq 1 .. Len(h) /\ m \in [S -> 0 .. Len(h)]
  BY <1>0, HeapIs, CellsAre
<1>2. rule \in [S \X [S -> S] -> S]
  BY PartIs DEF LeafStep
<1>3. Looks(S, S, m, rule)
  <2> SUFFICES ASSUME NEW p \in S, NEW f \in [S -> S], NEW e \in [S -> S],
                      Agree(Below(S, m, p), f, e)
               PROVE  LeafStep(h, f, p) = LeafStep(h, e, p)
    BY DEF Looks
  <2>1. CASE h[p].part = 0  BY <2>1 DEF LeafStep
  <2>2. CASE h[p].part # 0
    <3>1. h[p].part \in Below(S, m, p)  BY <2>2, PartIs DEF Below
    <3> QED  BY <3>1, <2>2 DEF LeafStep, Agree
  <2> QED  BY <2>1, <2>2
<1>4. \E f : f = [p \in S |-> LeafStep(h, f, p)]
  <2>1. CASE S = {}
    <3> DEFINE f == [p \in S |-> LeafStep(h, << >>, p)]
    <3>1. f = [p \in S |-> LeafStep(h, f, p)]  BY <2>1
    <3> QED  BY <3>1
  <2>2. CASE S # {}
    <3>1. PICK v \in S : TRUE  BY <2>2
    <3>2. PICK f \in [S -> S] : Follows(S, f, rule)
      <4> HIDE DEF S, m, rule
      <4> QED  BY <1>1, <1>2, <1>3, <3>1, Recursion
    <3>3. \A p \in S : f[p] = LeafStep(h, f, p)  BY <3>2 DEF Follows
    <3>4. f = [p \in S |-> f[p]]  OBVIOUS
    <3> HIDE DEF S
    <3>5. f = [p \in S |-> LeafStep(h, f, p)]  BY <3>3, <3>4
    <3> QED  BY <3>5
  <2> QED  BY <2>1, <2>2
<1> DEFINE l == CHOOSE f : f = [p \in S |-> LeafStep(h, f, p)]
<1>5. l = [p \in S |-> LeafStep(h, l, p)]  BY <1>4
<1>6. Leaf(h) = l  BY DEF Leaf, LeafStep, TermsOf
<1> HIDE DEF l, S
<1> QED  BY <1>5, <1>6 DEF S

LEMMA LeafIs ==
  ASSUME NEW h, Wired(h), NEW p \in TermsOf(h)
  PROVE  /\ h[p].part = 0 => Leaf(h)[p] = p
         /\ h[p].part # 0 => Leaf(h)[p] = Leaf(h)[h[p].part]
<1> DEFINE l == Leaf(h)
<1>1. l = [q \in TermsOf(h) |-> LeafStep(h, l, q)]  BY LeafEquation
<1> HIDE DEF l
<1>2. l[p] = LeafStep(h, l, p)  BY <1>1
<1> QED  BY <1>2 DEF LeafStep, l
LEMMA LeafTyped ==
  ASSUME NEW h, Wired(h)
  PROVE  \A p \in TermsOf(h) : Leaf(h)[p] \in TermsOf(h) /\ h[Leaf(h)[p]].part = 0
<1> DEFINE S == TermsOf(h)
           m == [p \in S |-> p]
           good == {p \in S : Leaf(h)[p] \in S /\ h[Leaf(h)[p]].part = 0}
<1>0. h \in Heaps  BY DEF Wired
<1>1. m \in [S -> Nat]  BY <1>0, CellsAre
<1>2. ASSUME NEW p \in S, \A q \in S : m[q] < m[p] => q \in good PROVE p \in good
  <2>1. CASE h[p].part = 0  BY <2>1, LeafIs
  <2>2. CASE h[p].part # 0
    <3>1. h[p].part \in S /\ m[h[p].part] < m[p]  BY <2>2, PartIs
    <3>2. h[p].part \in good  BY <1>2, <3>1
    <3>3. Leaf(h)[p] = Leaf(h)[h[p].part]  BY <2>2, LeafIs
    <3> QED  BY <3>2, <3>3
  <2> QED  BY <2>1, <2>2
<1>3. S \subseteq good
  <2> HIDE DEF S, m, good
  <2>1. Hereditary(S, m, good)  BY <1>2 DEF Hereditary
  <2> QED  BY <1>1, <2>1, Descent
<1> QED  BY <1>3

LEMMA GrownIs ==
  ASSUME NEW h \in Heaps, NEW h2 \in Heaps, Grown(h, h2)
  PROVE  /\ \A p \in DOMAIN h : p \in DOMAIN h2 /\ SameCell(h[p], h2[p])
         /\ TermsOf(h) \subseteq TermsOf(h2) /\ EntriesOf(h) \subseteq EntriesOf(h2)
         /\ MapsOf(h) \subseteq MapsOf(h2)
         /\ \A p \in TermsOf(h) : /\ h2[p].tag = h[p].tag /\ h2[p].name = h[p].name
                                  /\ h2[p].part = h[p].part
         /\ \A e \in EntriesOf(h) : h2[e].kind = h[e].kind /\ h2[e].body = h[e].body
         /\ \A g \in MapsOf(h) : h2[g].map = h[g].map
<1>1. \A p \in DOMAIN h : p \in DOMAIN h2 /\ SameCell(h[p], h2[p])
  BY HeapIs DEF Grown
<1> QED  BY <1>1 DEF TermsOf, EntriesOf, MapsOf, Cells, SameCell

LEMMA LeafGrows ==
  ASSUME NEW h, NEW h2, Wired(h), Wired(h2), Grown(h, h2)
  PROVE  \A p \in TermsOf(h) :
           /\ Leaf(h2)[p] = Leaf(h)[p]
           /\ Closed(h2, p) = Closed(h, p)
           /\ Mentioned(h2, p) = Mentioned(h, p)
<1> DEFINE S == TermsOf(h)
           m == [p \in S |-> p]
           good == {p \in S : Leaf(h2)[p] = Leaf(h)[p]}
<1>0. h \in Heaps /\ h2 \in Heaps  BY DEF Wired
<1>1. m \in [S -> Nat]  BY <1>0, CellsAre
<1>2. ASSUME NEW p \in S, \A q \in S : m[q] < m[p] => q \in good PROVE p \in good
  <2>0. p \in TermsOf(h2) /\ h2[p].part = h[p].part  BY <1>0, GrownIs
  <2>1. CASE h[p].part = 0  BY <2>0, <2>1, LeafIs
  <2>2. CASE h[p].part # 0
    <3>1. h[p].part \in S /\ m[h[p].part] < m[p]  BY <2>2, PartIs
    <3>2. h[p].part \in good  BY <1>2, <3>1
    <3>3. Leaf(h)[p] = Leaf(h)[h[p].part]  BY <2>2, LeafIs
    <3>4. Leaf(h2)[p] = Leaf(h2)[h[p].part]  BY <2>0, <2>2, LeafIs
    <3> QED  BY <3>2, <3>3, <3>4
  <2> QED  BY <2>1, <2>2
<1>3. S \subseteq good
  <2> HIDE DEF S, m, good
  <2>1. Hereditary(S, m, good)  BY <1>2 DEF Hereditary
  <2> QED  BY <1>1, <2>1, Descent
<1>4. ASSUME NEW p \in S PROVE /\ Leaf(h2)[p] = Leaf(h)[p] /\ h2[Leaf(h)[p]].tag = h[Leaf(h)[p]].tag
                              /\ h2[Leaf(h)[p]].name = h[Leaf(h)[p]].name
  <2>1. Leaf(h)[p] \in TermsOf(h)  BY LeafTyped
  <2> QED  BY <1>0, <1>3, <2>1, GrownIs
<1>5. ASSUME NEW p \in S PROVE Closed(h2, p) = Closed(h, p)  BY <1>4 DEF Closed
<1>6. ASSUME NEW p \in S PROVE Mentioned(h2, p) = Mentioned(h, p)
  <2> DEFINE a == Leaf(h)[p]
  <2>1. Leaf(h2)[p] = a /\ h2[a].tag = h[a].tag /\ h2[a].name = h[a].name  BY <1>4
  <2>2. Mentioned(h2, p) = {h2[q].name : q \in {q \in {a} : h2[q].tag = "global"}}
    BY <2>1 DEF Mentioned
  <2>3. Mentioned(h, p) = {h[q].name : q \in {q \in {a} : h[q].tag = "global"}}
    BY DEF Mentioned
  <2> HIDE DEF a
  <2> QED  BY <2>1, <2>2, <2>3
<1> QED  BY <1>4, <1>5, <1>6

-----------------------------------------------------------------------------
(***************************************************************************)
(* Evaluation without caches.                                              *)
(***************************************************************************)
\* e is the entry of the name p in the map g.
Means(h, g, p, e) == h[p].tag = "global" /\ h[g].map[h[p].name] = e

LEMMA TagIs ==
  ASSUME NEW h, Wired(h), NEW p \in TermsOf(h)
  PROVE  h[p].tag \in {"var", "auto", "univ", "global", "lan", "node"} /\ h[p].name \in Names
BY CellsAre DEF Wired, TermCell

LEMMA EntryIs ==
  ASSUME NEW h, Wired(h), NEW g \in MapsOf(h), NEW p \in TermsOf(h), h[p].tag = "global"
  PROVE  \E e \in EntriesOf(h) \cup {0} : Means(h, g, p, e)
BY TagIs DEF Wired, Means

LEMMA BodyIs ==
  ASSUME NEW h, Wired(h), NEW g \in MapsOf(h), NEW p \in TermsOf(h), NEW e \in EntriesOf(h),
         Means(h, g, p, e)
  PROVE  h[e].body \in TermsOf(h) /\ (h[e].kind = "def" => h[e].body \in Unfolded(h, g, p))
BY DEF Wired, Means, Unfolded

LEMMA FreshLeaf ==
  ASSUME NEW h, NEW g, NEW p, NEW env, NEW f
  PROVE  /\ h[p].tag = "var" => FreshStep(h, g, f, p, env) = IF env = << >> THEN Failed ELSE env
         /\ h[p].tag = "auto" => FreshStep(h, g, f, p, env) = Failed
         /\ h[p].tag = "univ" => FreshStep(h, g, f, p, env) = <<"univ">>
BY DEF FreshStep

LEMMA FreshUnbound ==
  ASSUME NEW h, NEW g, NEW p, NEW env, NEW f, Means(h, g, p, 0)
  PROVE  FreshStep(h, g, f, p, env) = Failed
BY DEF FreshStep, Means

LEMMA FreshDef ==
  ASSUME NEW h, NEW g, NEW p, NEW env, NEW f, NEW e, e # 0, Means(h, g, p, e), h[e].kind = "def"
  PROVE  FreshStep(h, g, f, p, env) = f[h[e].body][<< >>]
BY DEF FreshStep, Means

LEMMA FreshStuck ==
  ASSUME NEW h, NEW g, NEW p, NEW env, NEW f, NEW e, e # 0, Means(h, g, p, e), h[e].kind # "def"
  PROVE  FreshStep(h, g, f, p, env) = <<"stuck", h[p].name>>
BY DEF FreshStep, Means

LEMMA FreshNode ==
  ASSUME NEW h, NEW g, NEW p, NEW env, NEW f, h[p].tag \in {"lan", "node"}
  PROVE  FreshStep(h, g, f, p, env) = Wrap(h[p].tag, f[h[p].part][env])
BY DEF FreshStep

LEMMA NodePart ==
  ASSUME NEW h, Wired(h), NEW p \in TermsOf(h), h[p].tag \in {"lan", "node"}
  PROVE  h[p].part \in TermsOf(h) /\ h[p].part # 0
BY CellsAre DEF Wired, WiredTerm

LEMMA ValuesAre ==
  /\ Failed \in Values /\ <<"univ">> \in Values /\ << >> \in Values
  /\ \A n \in Names : <<"stuck", n>> \in Values
  /\ Envs \subseteq Values
  /\ \A v \in Values : \A tag \in {"lan", "node"} : <<tag>> \o v \in Values /\ Wrap(tag, v) \in Values
<1> DEFINE L == UNION {b.locals : b \in Bounds}
           A == Names \cup {"lan", "node", "univ", "stuck", "error"} \cup L
<1>1. Values = Seq(A)  BY DEF Values
<1>2. "lan" \in A /\ "node" \in A /\ "univ" \in A /\ "stuck" \in A /\ "error" \in A /\ Names \subseteq A
  OBVIOUS
<1>3. ASSUME NEW env \in Envs PROVE env \in Seq(A)
  <2>1. PICK b \in Bounds : env \in EnvsOf(b)  BY DEF Envs
  <2>2. \A v \in b.locals : v \in A  OBVIOUS
  <2> HIDE DEF A
  <2>3. \A v \in b.locals : <<v>> \in Seq(A)  BY <2>2
  <2>4. << >> \in Seq(A)  OBVIOUS
  <2>5. env = << >> \/ \E v \in b.locals : env = <<v>>  BY <2>1 DEF EnvsOf
  <2> QED  BY <2>3, <2>4, <2>5
<1> HIDE DEF A
<1>4. ASSUME NEW v \in Seq(A), NEW tag \in {"lan", "node"} PROVE <<tag>> \o v \in Seq(A)
  <2>1. <<tag>> \in Seq(A)  BY <1>2
  <2> QED  BY <2>1
<1>5. Failed \in Seq(A) /\ <<"univ">> \in Seq(A) /\ << >> \in Seq(A)
  BY <1>2 DEF Failed
<1>6. \A n \in Names : <<"stuck", n>> \in Seq(A)  BY <1>2
<1>7. ASSUME NEW v \in Seq(A), NEW tag \in {"lan", "node"} PROVE Wrap(tag, v) \in Seq(A)
  BY <1>4, <1>5 DEF Wrap
<1> QED  BY <1>1, <1>3, <1>4, <1>5, <1>6, <1>7

LEMMA NoEnv == Bounds # {} => << >> \in Envs
BY DEF Envs, EnvsOf

FreshRow(h, g, f, p) == [env \in Envs |-> FreshStep(h, g, f, p, env)]

LEMMA FreshEquation ==
  ASSUME NEW h, Wired(h), NEW g \in MapsOf(h), NEW d \in Nat, NEW m, Descends(h, g, d, m),
         Bounds # {}
  PROVE  Fresh(h, g) = [p \in TermsOf(h) |-> FreshRow(h, g, Fresh(h, g), p)]
<1> DEFINE S == TermsOf(h)
           V == [Envs -> Values]
           rule == [pf \in S \X [S -> V] |-> FreshRow(h, g, pf[2], pf[1])]
           v0 == [env \in Envs |-> Failed]
<1>1. m \in [S -> 0 .. d]  BY DEF Descends
<1>2. ASSUME NEW p \in S, NEW f \in [S -> V], NEW env \in Envs
      PROVE  FreshStep(h, g, f, p, env) \in Values
  <2>0. << >> \in Envs /\ env \in Values  BY NoEnv, ValuesAre
  <2>1. \A q \in S : \A x \in Envs : f[q][x] \in Values  OBVIOUS
  <2> HIDE DEF V
  <2>2. CASE h[p].tag \in {"var", "auto", "univ"}
    <3>1. FreshStep(h, g, f, p, env) \in {Failed, env, <<"univ">>}  BY <2>2, FreshLeaf
    <3> QED  BY <2>0, <3>1, ValuesAre
  <2>3. CASE h[p].tag \in {"lan", "node"}
    <3>1. h[p].part \in S  BY <2>3, NodePart
    <3>2. f[h[p].part][env] \in Values  BY <2>1, <3>1
    <3> QED  BY <2>3, <3>2, FreshNode, ValuesAre
  <2>4. CASE h[p].tag = "global"
    <3>1. PICK e \in EntriesOf(h) \cup {0} : Means(h, g, p, e)  BY <2>4, EntryIs
    <3>2. CASE e = 0
      <4>1. FreshStep(h, g, f, p, env) = Failed  BY <3>1, <3>2, FreshUnbound
      <4> QED  BY <4>1, ValuesAre
    <3>3. CASE e # 0 /\ h[e].kind = "def"
      <4>1. h[e].body \in S  BY <3>1, <3>3, BodyIs
      <4>2. FreshStep(h, g, f, p, env) = f[h[e].body][<< >>]  BY <3>1, <3>3, FreshDef
      <4> QED  BY <2>0, <2>1, <4>1, <4>2
    <3>4. CASE e # 0 /\ h[e].kind # "def"
      <4>1. FreshStep(h, g, f, p, env) = <<"stuck", h[p].name>>  BY <3>1, <3>4, FreshStuck
      <4>2. h[p].name \in Names  BY TagIs
      <4> QED  BY <4>1, <4>2, ValuesAre
    <3> QED  BY <3>2, <3>3, <3>4
  <2> QED  BY <2>2, <2>3, <2>4, TagIs
<1>3. rule \in [S \X [S -> V] -> V]
  <2>1. ASSUME NEW p \in S, NEW f \in [S -> V] PROVE FreshRow(h, g, f, p) \in V
    BY <1>2 DEF FreshRow
  <2> HIDE DEF V, S
  <2> QED  BY <2>1
<1>4. Looks(S, V, m, rule)
  <2> SUFFICES ASSUME NEW p \in S, NEW f \in [S -> V], NEW e \in [S -> V],
                      Agree(Below(S, m, p), f, e)
               PROVE  FreshRow(h, g, f, p) = FreshRow(h, g, e, p)
    <3> HIDE DEF V, S
    <3> QED  BY DEF Looks
  <2> SUFFICES ASSUME NEW env \in Envs
               PROVE  FreshStep(h, g, f, p, env) = FreshStep(h, g, e, p, env)
    BY DEF FreshRow
  <2>0. Falls(h, g, p, m)  BY DEF Descends
  <2>1. \A q \in S : m[q] < m[p] => f[q] = e[q]  BY DEF Agree, Below
  <2>2. CASE h[p].tag \in {"var", "auto", "univ"}  BY <2>2, FreshLeaf
  <2>3. CASE h[p].tag \in {"lan", "node"}
    <3>1. h[p].part \in S /\ m[h[p].part] < m[p]  BY <2>0, <2>3, NodePart DEF Falls
    <3>2. f[h[p].part] = e[h[p].part]  BY <3>1, <2>1
    <3>3. /\ FreshStep(h, g, f, p, env) = Wrap(h[p].tag, f[h[p].part][env])
          /\ FreshStep(h, g, e, p, env) = Wrap(h[p].tag, e[h[p].part][env])
      BY <2>3, FreshNode
    <3> QED  BY <3>2, <3>3
  <2>4. CASE h[p].tag = "global"
    <3>1. PICK n \in EntriesOf(h) \cup {0} : Means(h, g, p, n)  BY <2>4, EntryIs
    <3>2. CASE n = 0  BY <3>1, <3>2, FreshUnbound
    <3>3. CASE n # 0 /\ h[n].kind = "def"
      <4>1. h[n].body \in S /\ h[n].body \in Unfolded(h, g, p)  BY <3>1, <3>3, BodyIs
      <4>2. f[h[n].body] = e[h[n].body]  BY <4>1, <2>0, <2>1 DEF Falls
      <4>3. /\ FreshStep(h, g, f, p, env) = f[h[n].body][<< >>]
            /\ FreshStep(h, g, e, p, env) = e[h[n].body][<< >>]
        BY <3>1, <3>3, FreshDef
      <4> QED  BY <4>2, <4>3
    <3>4. CASE n # 0 /\ h[n].kind # "def"  BY <3>1, <3>4, FreshStuck
    <3> QED  BY <3>2, <3>3, <3>4
  <2> QED  BY <2>2, <2>3, <2>4, TagIs
<1>5. PICK f \in [S -> V] : Follows(S, f, rule)
  <2>1. v0 \in V  BY ValuesAre
  <2> HIDE DEF S, V, rule, v0
  <2> QED  BY <1>1, <1>3, <1>4, <2>1, Recursion
<1>6. f = [p \in S |-> FreshRow(h, g, f, p)]
  <2>1. \A p \in S : f[p] = FreshRow(h, g, f, p)
    <3> HIDE DEF V, S
    <3> QED  BY <1>5 DEF Follows
  <2>2. f = [p \in S |-> f[p]]
    <3> HIDE DEF V, S
    <3> QED  OBVIOUS
  <2> HIDE DEF V, S
  <2> QED  BY <2>1, <2>2
<1> DEFINE l == CHOOSE x : x = [p \in S |-> FreshRow(h, g, x, p)]
<1>7. l = [p \in S |-> FreshRow(h, g, l, p)]  BY <1>6
<1>8. Fresh(h, g) = l  BY DEF Fresh, FreshRow, TermsOf
<1> HIDE DEF l, S
<1> QED  BY <1>7, <1>8 DEF S

LEMMA FreshIs ==
  ASSUME NEW h, Wired(h), NEW g \in MapsOf(h), Ends(h, g), Bounds # {},
         NEW p \in TermsOf(h), NEW env \in Envs
  PROVE  Fresh(h, g)[p][env] = FreshStep(h, g, Fresh(h, g), p, env)
<1> DEFINE f == Fresh(h, g)
<1>0. PICK d \in Nat : \E m : Descends(h, g, d, m)  BY DEF Ends
<1>1. PICK m : Descends(h, g, d, m)  BY <1>0
<1>2. f = [q \in TermsOf(h) |-> FreshRow(h, g, f, q)]  BY <1>1, FreshEquation
<1> HIDE DEF f
<1>3. f[p] = FreshRow(h, g, f, p)  BY <1>2
<1> QED  BY <1>3 DEF FreshRow, f

LEMMA FreshTyped ==
  ASSUME NEW h, Wired(h), NEW g \in MapsOf(h), Ends(h, g), Bounds # {}
  PROVE  \A p \in TermsOf(h) : \A env \in Envs : Fresh(h, g)[p][env] \in Values
<1> DEFINE S == TermsOf(h)
           f == Fresh(h, g)
           good == {p \in S : \A env \in Envs : f[p][env] \in Values}
<1>0. PICK d \in Nat : \E m : Descends(h, g, d, m)  BY DEF Ends
<1>1. PICK m : Descends(h, g, d, m)  BY <1>0
<1>2. m \in [S -> Nat]  BY <1>1 DEF Descends
<1>3. ASSUME NEW p \in S, \A q \in S : m[q] < m[p] => q \in good PROVE p \in good
  <2> SUFFICES ASSUME NEW env \in Envs PROVE f[p][env] \in Values  OBVIOUS
  <2>0. << >> \in Envs /\ env \in Values /\ Falls(h, g, p, m)
    BY <1>1, NoEnv, ValuesAre DEF Descends
  <2>1. f[p][env] = FreshStep(h, g, f, p, env)  BY FreshIs
  <2> HIDE DEF f
  <2>2. CASE h[p].tag \in {"var", "auto", "univ"}
    <3>1. FreshStep(h, g, f, p, env) \in {Failed, env, <<"univ">>}  BY <2>2, FreshLeaf
    <3> QED  BY <2>0, <2>1, <3>1, ValuesAre
  <2>3. CASE h[p].tag \in {"lan", "node"}
    <3>1. h[p].part \in S /\ m[h[p].part] < m[p]  BY <2>0, <2>3, NodePart DEF Falls
    <3>2. f[h[p].part][env] \in Values  BY <1>3, <3>1
    <3> QED  BY <2>1, <2>3, <3>2, FreshNode, ValuesAre
  <2>4. CASE h[p].tag = "global"
    <3>1. PICK e \in EntriesOf(h) \cup {0} : Means(h, g, p, e)  BY <2>4, EntryIs
    <3>2. CASE e = 0
      <4>1. FreshStep(h, g, f, p, env) = Failed  BY <3>1, <3>2, FreshUnbound
      <4> QED  BY <2>1, <4>1, ValuesAre
    <3>3. CASE e # 0 /\ h[e].kind = "def"
      <4>1. h[e].body \in S /\ m[h[e].body] < m[p]  BY <2>0, <3>1, <3>3, BodyIs DEF Falls
      <4>2. f[p][env] = f[h[e].body][<< >>]  BY <2>1, <3>1, <3>3, FreshDef
      <4>3. h[e].body \in good  BY <1>3, <4>1
      <4> QED  BY <2>0, <4>2, <4>3
    <3>4. CASE e # 0 /\ h[e].kind # "def"
      <4>1. f[p][env] = <<"stuck", h[p].name>>  BY <2>1, <3>1, <3>4, FreshStuck
      <4>2. h[p].name \in Names  BY TagIs
      <4> QED  BY <4>1, <4>2, ValuesAre
    <3> QED  BY <3>2, <3>3, <3>4
  <2> QED  BY <2>2, <2>3, <2>4, TagIs
<1>4. S \subseteq good
  <2> HIDE DEF S, good
  <2>1. Hereditary(S, m, good)  BY <1>3 DEF Hereditary
  <2> QED  BY <1>2, <2>1, Descent
<1> QED  BY <1>4

\* More cells change no value.
LEMMA FreshGrows ==
  ASSUME NEW h, NEW h2, Wired(h), Wired(h2), Grown(h, h2), NEW g \in MapsOf(h),
         Ends(h, g), Ends(h2, g), Bounds # {}
  PROVE  \A p \in TermsOf(h) : \A env \in Envs : Fresh(h2, g)[p][env] = Fresh(h, g)[p][env]
<1> DEFINE S == TermsOf(h)
           f == Fresh(h, g)
           f2 == Fresh(h2, g)
           good == {p \in S : \A env \in Envs : f2[p][env] = f[p][env]}
<1>0. PICK d \in Nat : \E m : Descends(h, g, d, m)  BY DEF Ends
<1>1. PICK m : Descends(h, g, d, m)  BY <1>0
<1>2. m \in [S -> Nat]  BY <1>1 DEF Descends
<1>3. h \in Heaps /\ h2 \in Heaps /\ g \in MapsOf(h2) /\ h2[g].map = h[g].map
  BY GrownIs DEF Wired
<1>4. ASSUME NEW p \in S, \A q \in S : m[q] < m[p] => q \in good PROVE p \in good
  <2> SUFFICES ASSUME NEW env \in Envs PROVE f2[p][env] = f[p][env]  OBVIOUS
  <2>0. << >> \in Envs /\ Falls(h, g, p, m)  BY <1>1, NoEnv DEF Descends
  <2>1. p \in TermsOf(h2) /\ h2[p].tag = h[p].tag /\ h2[p].name = h[p].name /\ h2[p].part = h[p].part
    BY <1>3, GrownIs
  <2>2. f[p][env] = FreshStep(h, g, f, p, env) /\ f2[p][env] = FreshStep(h2, g, f2, p, env)
    BY <1>3, <2>1, FreshIs
  <2> HIDE DEF f, f2
  <2>3. CASE h[p].tag \in {"var", "auto", "univ"}
    <3>1. FreshStep(h2, g, f2, p, env) = FreshStep(h, g, f, p, env)  BY <2>1, <2>3, FreshLeaf
    <3> QED  BY <2>2, <3>1
  <2>4. CASE h[p].tag \in {"lan", "node"}
    <3>1. h[p].part \in S /\ m[h[p].part] < m[p]  BY <2>0, <2>4, NodePart DEF Falls
    <3>2. f2[h[p].part][env] = f[h[p].part][env]  BY <1>4, <3>1
    <3>3. /\ FreshStep(h, g, f, p, env) = Wrap(h[p].tag, f[h[p].part][env])
          /\ FreshStep(h2, g, f2, p, env) = Wrap(h[p].tag, f2[h[p].part][env])
      BY <2>1, <2>4, FreshNode
    <3> QED  BY <2>2, <3>2, <3>3
  <2>5. CASE h[p].tag = "global"
    <3>1. PICK e \in EntriesOf(h) \cup {0} : Means(h, g, p, e)  BY <2>5, EntryIs
    <3>2. Means(h2, g, p, e)  BY <1>3, <2>1, <3>1 DEF Means
    <3>3. CASE e = 0
      <4>1. FreshStep(h, g, f, p, env) = Failed /\ FreshStep(h2, g, f2, p, env) = Failed
        BY <3>1, <3>2, <3>3, FreshUnbound
      <4> QED  BY <2>2, <4>1
    <3>4. e # 0 => h2[e].kind = h[e].kind /\ h2[e].body = h[e].body  BY <1>3, GrownIs
    <3>5. CASE e # 0 /\ h[e].kind = "def"
      <4>1. h[e].body \in S /\ m[h[e].body] < m[p]  BY <2>0, <3>1, <3>5, BodyIs DEF Falls
      <4>2. f[p][env] = f[h[e].body][<< >>]  BY <2>2, <3>1, <3>5, FreshDef
      <4>3. f2[p][env] = f2[h[e].body][<< >>]  BY <2>2, <3>2, <3>4, <3>5, FreshDef
      <4>4. h[e].body \in good  BY <1>4, <4>1
      <4> QED  BY <2>0, <4>2, <4>3, <4>4
    <3>6. CASE e # 0 /\ h[e].kind # "def"
      <4>1. f[p][env] = <<"stuck", h[p].name>>  BY <2>2, <3>1, <3>6, FreshStuck
      <4>2. f2[p][env] = <<"stuck", h2[p].name>>  BY <2>2, <3>2, <3>4, <3>6, FreshStuck
      <4> QED  BY <2>1, <4>1, <4>2
    <3> QED  BY <3>3, <3>5, <3>6
  <2> QED  BY <2>3, <2>4, <2>5, TagIs
<1>5. S \subseteq good
  <2> HIDE DEF S, good
  <2>1. Hereditary(S, m, good)  BY <1>4 DEF Hereditary
  <2> QED  BY <1>2, <2>1, Descent
<1> QED  BY <1>5

\* A closed term has one value in a map, whatever the environment.
LEMMA ClosedSame ==
  ASSUME NEW h, Wired(h), NEW g \in MapsOf(h), Ends(h, g), Bounds # {}
  PROVE  \A p \in TermsOf(h) : Closed(h, p) =>
           \A env, env2 \in Envs : Fresh(h, g)[p][env] = Fresh(h, g)[p][env2]
<1> DEFINE S == TermsOf(h)
           m == [p \in S |-> p]
           f == Fresh(h, g)
           good == {p \in S : Closed(h, p) => \A env, env2 \in Envs : f[p][env] = f[p][env2]}
<1>0. h \in Heaps  BY DEF Wired
<1>1. m \in [S -> Nat]  BY <1>0, CellsAre
<1>2. ASSUME NEW p \in S, \A q \in S : m[q] < m[p] => q \in good PROVE p \in good
  <2> SUFFICES ASSUME Closed(h, p), NEW env \in Envs, NEW env2 \in Envs
               PROVE  f[p][env] = f[p][env2]
    OBVIOUS
  <2>1. f[p][env] = FreshStep(h, g, f, p, env) /\ f[p][env2] = FreshStep(h, g, f, p, env2)
    BY FreshIs
  <2> HIDE DEF f
  <2>2. CASE h[p].tag \in {"lan", "node"}
    <3>1. h[p].part \in S /\ h[p].part # 0 /\ m[h[p].part] < m[p]  BY <2>2, NodePart, PartIs
    <3>2. Closed(h, h[p].part)  BY <3>1, LeafIs DEF Closed
    <3>3. f[h[p].part][env] = f[h[p].part][env2]  BY <1>2, <3>1, <3>2
    <3>4. /\ FreshStep(h, g, f, p, env) = Wrap(h[p].tag, f[h[p].part][env])
          /\ FreshStep(h, g, f, p, env2) = Wrap(h[p].tag, f[h[p].part][env2])
      BY <2>2, FreshNode
    <3> QED  BY <2>1, <3>3, <3>4
  <2>3. CASE h[p].tag \in {"auto", "univ"}
    <3>1. FreshStep(h, g, f, p, env) = FreshStep(h, g, f, p, env2)  BY <2>3, FreshLeaf
    <3> QED  BY <2>1, <3>1
  <2>4. CASE h[p].tag = "var"
    <3>1. h[p].part = 0  BY <2>4 DEF Wired, WiredTerm
    <3>2. Leaf(h)[p] = p  BY <3>1, LeafIs
    <3> QED  BY <2>4, <3>2 DEF Closed
  <2>5. CASE h[p].tag = "global"
    <3>1. PICK e \in EntriesOf(h) \cup {0} : Means(h, g, p, e)  BY <2>5, EntryIs
    <3>2. CASE e = 0
      <4>1. FreshStep(h, g, f, p, env) = Failed /\ FreshStep(h, g, f, p, env2) = Failed
        BY <3>1, <3>2, FreshUnbound
      <4> QED  BY <2>1, <4>1
    <3>3. CASE e # 0 /\ h[e].kind = "def"
      <4>1. /\ FreshStep(h, g, f, p, env) = f[h[e].body][<< >>]
            /\ FreshStep(h, g, f, p, env2) = f[h[e].body][<< >>]
        BY <3>1, <3>3, FreshDef
      <4> QED  BY <2>1, <4>1
    <3>4. CASE e # 0 /\ h[e].kind # "def"
      <4>1. /\ FreshStep(h, g, f, p, env) = <<"stuck", h[p].name>>
            /\ FreshStep(h, g, f, p, env2) = <<"stuck", h[p].name>>
        BY <3>1, <3>4, FreshStuck
      <4> QED  BY <2>1, <4>1
    <3> QED  BY <3>2, <3>3, <3>4
  <2> QED  BY <2>2, <2>3, <2>4, <2>5, TagIs
<1>3. S \subseteq good
  <2> HIDE DEF S, m, good
  <2>1. Hereditary(S, m, good)  BY <1>2 DEF Hereditary
  <2> QED  BY <1>1, <2>1, Descent
<1> QED  BY <1>3
-----------------------------------------------------------------------------
(***************************************************************************)
(* The caches, cell by cell.                                               *)
(***************************************************************************)
Put(h, p, c) == [h EXCEPT ![p] = c]

LEMMA PutReached ==
  ASSUME NEW h, Wired(h), NEW h2, Reached(h, h2), NEW p \in DOMAIN h, NEW c \in Cell,
         SameCell(h2[p], c), CellOK(h, p, c)
  PROVE  Reached(h, Put(h2, p, c))
<1>0. h \in Heaps /\ h2 \in Heaps /\ p \in DOMAIN h2  BY GrownIs DEF Wired, Reached
<1>1. /\ Put(h2, p, c) \in Heaps /\ DOMAIN Put(h2, p, c) = DOMAIN h2
      /\ Len(Put(h2, p, c)) = Len(h2)
      /\ \A q \in DOMAIN h2 : Put(h2, p, c)[q] = IF q = p THEN c ELSE h2[q]
  <2>1. h2 \in Seq(Cell)  BY <1>0 DEF Heaps
  <2>2. Put(h2, p, c) \in Seq(Cell) /\ DOMAIN Put(h2, p, c) = DOMAIN h2
        /\ Len(Put(h2, p, c)) = Len(h2)
    BY <1>0, <2>1 DEF Put
  <2> QED  BY <1>0, <2>1, <2>2 DEF Put, Heaps
<1> DEFINE h3 == Put(h2, p, c)
<1> HIDE DEF h3
<1>2. SameCell(h[p], h2[p])  BY <1>0, GrownIs DEF Reached
<1>3. SameCell(h[p], c)  BY <1>2 DEF SameCell
<1>4. Grown(h, h3)
  BY <1>0, <1>1, <1>3, GrownIs DEF Reached, Grown, h3
<1>5. Heads(h, h3)  BY <1>1 DEF Reached, Heads, h3
<1>6. Right(h, h3)  BY <1>1 DEF Reached, Right, h3
<1> QED  BY <1>1, <1>4, <1>5, <1>6 DEF Reached, h3

LEMMA ReachedIs ==
  ASSUME NEW h, Wired(h), NEW h2, Reached(h, h2)
  PROVE  /\ h \in Heaps /\ h2 \in Heaps /\ Grown(h, h2)
         /\ \A p \in DOMAIN h : p \in DOMAIN h2 /\ CellOK(h, p, h2[p])
         /\ \A p \in TermsOf(h) :
              /\ p \in DOMAIN h /\ p \in DOMAIN h2 /\ h2[p] \in TermCell /\ h2[p].cell = "term"
              /\ h2[p].tag = h[p].tag /\ h2[p].name = h[p].name /\ h2[p].part = h[p].part
         /\ \A p \in EntriesOf(h) :
              /\ p \in DOMAIN h /\ p \in DOMAIN h2 /\ h2[p] \in EntryCell /\ h2[p].cell = "entry"
              /\ h2[p].kind = h[p].kind /\ h2[p].body = h[p].body
         /\ \A p \in MapsOf(h) : p \in DOMAIN h /\ h2[p].map = h[p].map
         /\ TermsOf(h2) = TermsOf(h)
<1>1. h \in Heaps /\ h2 \in Heaps /\ Grown(h, h2)  BY DEF Wired, Reached
<1>2. \A p \in DOMAIN h : p \in DOMAIN h2 /\ CellOK(h, p, h2[p])
  BY <1>1, GrownIs DEF Reached, Right
<1>3. TermsOf(h) \subseteq TermsOf(h2) /\ EntriesOf(h) \subseteq EntriesOf(h2)
  BY <1>1, GrownIs
<1>4. ASSUME NEW p \in TermsOf(h2) PROVE p \in TermsOf(h)
  <2>1. p \in DOMAIN h2 /\ h2[p].cell = "term"  BY <1>1, CellsAre
  <2>2. p \in DOMAIN h  BY <2>1 DEF Reached, Heads
  <2>3. SameCell(h[p], h2[p])  BY <1>1, <2>2, GrownIs
  <2> QED  BY <2>1, <2>2, <2>3 DEF SameCell, TermsOf, Cells
<1>5. \A p \in TermsOf(h) :
              /\ p \in DOMAIN h /\ p \in DOMAIN h2 /\ h2[p] \in TermCell /\ h2[p].cell = "term"
              /\ h2[p].tag = h[p].tag /\ h2[p].name = h[p].name /\ h2[p].part = h[p].part
  BY <1>1, <1>3, CellsAre, GrownIs
<1>6. \A p \in EntriesOf(h) :
              /\ p \in DOMAIN h /\ p \in DOMAIN h2 /\ h2[p] \in EntryCell /\ h2[p].cell = "entry"
              /\ h2[p].kind = h[p].kind /\ h2[p].body = h[p].body
  BY <1>1, <1>3, CellsAre, GrownIs
<1>7. \A p \in MapsOf(h) : p \in DOMAIN h /\ h2[p].map = h[p].map
  BY <1>1, CellsAre, GrownIs
<1> QED  BY <1>1, <1>2, <1>3, <1>4, <1>5, <1>6, <1>7

\* eval_find_seen answers the entry of the name, and may be kept.
LEMMA FindSeenRight ==
  ASSUME NEW h, Wired(h), NEW h2, Reached(h, h2), NEW g \in MapsOf(h), NEW name \in Names,
         NEW seen \in Seen, SeenOK(h, seen, name)
  PROVE  /\ FindSeen(h2, seen, name, g) \in Seen
         /\ FindSeen(h2, seen, name, g).key = g
         /\ FindSeen(h2, seen, name, g).entry = h[g].map[name]
         /\ SeenOK(h, FindSeen(h2, seen, name, g), name)
<1>1. h2[g].map = h[g].map /\ g # 0 /\ g \in Nat /\ h[g].map[name] \in Nat
  <2>1. h[g] \in GlobalsCell /\ g \in Nat \ {0}  BY ReachedIs, CellsAre
  <2> QED  BY <2>1, ReachedIs DEF GlobalsCell
<1>2. CASE seen.key = g  BY <1>1, <1>2 DEF FindSeen, SeenOK
<1>3. CASE seen.key # g  BY <1>1, <1>3 DEF FindSeen, SeenOK, Seen
<1> QED  BY <1>2, <1>3

LEMMA NameKept ==
  ASSUME NEW h, Wired(h), NEW h2, Reached(h, h2), NEW p \in TermsOf(h), h[p].tag = "global",
         NEW seen \in Seen, SeenOK(h, seen, h[p].name)
  PROVE  Reached(h, [h2 EXCEPT ![p].seen = seen])
<1> DEFINE c == [h2[p] EXCEPT !.seen = seen]
<1>1. /\ p \in DOMAIN h /\ p \in DOMAIN h2 /\ h2[p] \in TermCell /\ h2[p].cell = "term"
      /\ h2[p].tag = "global" /\ h2[p].name = h[p].name /\ CellOK(h, p, h2[p])
  BY ReachedIs
<1>2. c \in TermCell  BY <1>1 DEF TermCell
<1>3. /\ c.cell = "term" /\ c.tag = h2[p].tag /\ c.name = h2[p].name /\ c.part = h2[p].part
      /\ c.state = h2[p].state /\ c.key = h2[p].key /\ c.value = h2[p].value /\ c.seen = seen
  BY <1>1 DEF TermCell
<1>4. [h2 EXCEPT ![p].seen = seen] = Put(h2, p, c)  BY DEF Put
<1> HIDE DEF c
<1>5. SameCell(h2[p], c)  BY <1>1, <1>3 DEF SameCell
<1>6. CellOK(h, p, c)  BY <1>1, <1>3 DEF CellOK, KeptOK
<1>7. c \in Cell  BY <1>2 DEF Cell
<1>8. Reached(h, Put(h2, p, c))  BY <1>1, <1>5, <1>6, <1>7, PutReached
<1> QED  BY <1>4, <1>8

LEMMA TermKeepReached ==
  ASSUME NEW h, Wired(h), NEW h2, Reached(h, h2), NEW p \in TermsOf(h),
         h[p].tag \in {"lan", "node"}, NEW g \in MapsOf(h), Ends(h, g), NEW env \in Envs,
         NEW v \in Values, v = Fresh(h, g)[p][env], Bounds # {}, Wired(h2)
  PROVE  Reached(h, TermKeep(h2, g, p, v))
<1>1. /\ p \in DOMAIN h /\ p \in DOMAIN h2 /\ h2[p] \in TermCell /\ h2[p].cell = "term"
      /\ h2[p].tag = h[p].tag /\ h2[p].name = h[p].name /\ CellOK(h, p, h2[p])
  BY ReachedIs
<1>2. Closed(h2, p) = Closed(h, p)  BY ReachedIs, LeafGrows
<1>3. CASE h2[p].state = "open" \/ (h2[p].state = "unseen" /\ ~Closed(h2, p))
  <2> DEFINE c == [h2[p] EXCEPT !.state = "open"]
  <2>1. c \in TermCell  BY <1>1 DEF TermCell
  <2>2. /\ c.cell = "term" /\ c.tag = h2[p].tag /\ c.name = h2[p].name /\ c.part = h2[p].part
        /\ c.state = "open" /\ c.seen = h2[p].seen
    BY <1>1 DEF TermCell
  <2>3. TermKeep(h2, g, p, v) = Put(h2, p, c)  BY <1>3 DEF Put, TermKeep
  <2> HIDE DEF c
  <2>4. SameCell(h2[p], c)  BY <1>1, <2>2 DEF SameCell
  <2>5. CellOK(h, p, c)  BY <1>1, <2>2 DEF CellOK
  <2>6. c \in Cell  BY <2>1 DEF Cell
  <2> QED  BY <1>1, <2>3, <2>4, <2>5, <2>6, PutReached
<1>4. CASE ~(h2[p].state = "open" \/ (h2[p].state = "unseen" /\ ~Closed(h2, p)))
  <2> DEFINE c == [h2[p] EXCEPT !.state = "kept", !.key = g, !.value = v]
  <2>0. g \in Nat  BY CellsAre DEF Wired
  <2>1. c \in TermCell  BY <1>1, <2>0 DEF TermCell
  <2>2. /\ c.cell = "term" /\ c.tag = h2[p].tag /\ c.name = h2[p].name /\ c.part = h2[p].part
        /\ c.state = "kept" /\ c.seen = h2[p].seen /\ c.key = g /\ c.value = v
    BY <1>1 DEF TermCell
  <2>3. TermKeep(h2, g, p, v) = [h2 EXCEPT ![p].state = "kept", ![p].key = g, ![p].value = v]
    BY <1>4 DEF TermKeep
  <2>4. [h2 EXCEPT ![p].state = "kept", ![p].key = g, ![p].value = v] = Put(h2, p, c)
    BY <1>1 DEF Put
  <2> HIDE DEF c
  <2>5. SameCell(h2[p], c)  BY <1>1, <2>2 DEF SameCell
  <2>6. Closed(h, p)
    <3>1. h2[p].state \in {"unseen", "open", "kept"}  BY <1>1 DEF TermCell
    <3> QED  BY <1>1, <1>2, <1>4, <3>1 DEF CellOK, KeptOK
  <2>7. \A x \in Envs : v = Fresh(h, g)[p][x]  BY <2>6, ClosedSame
  <2>8. CellOK(h, p, c)  BY <1>1, <2>2, <2>6, <2>7 DEF CellOK, KeptOK
  <2>9. c \in Cell  BY <2>1 DEF Cell
  <2>10. Reached(h, Put(h2, p, c))  BY <1>1, <2>5, <2>8, <2>9, PutReached
  <2>11. TermKeep(h2, g, p, v) = Put(h2, p, c)  BY <2>3, <2>4
  <2> QED  BY <2>10, <2>11
<1> QED  BY <1>3, <1>4

LEMMA BodyKeepReached ==
  ASSUME NEW h, Wired(h), NEW h2, Reached(h, h2), NEW e \in EntriesOf(h),
         NEW g \in MapsOf(h), NEW v \in Values, v = Fresh(h, g)[h[e].body][<< >>]
  PROVE  Reached(h, BodyKeep(h2, g, e, v))
<1> DEFINE c == [h2[e] EXCEPT !.value = v, !.key = g]
<1>1. /\ e \in DOMAIN h /\ e \in DOMAIN h2 /\ h2[e] \in EntryCell /\ h2[e].cell = "entry"
      /\ h2[e].kind = h[e].kind /\ h2[e].body = h[e].body /\ g \in Nat
  BY ReachedIs, CellsAre
<1>2. c \in EntryCell  BY <1>1 DEF EntryCell
<1>3. /\ c.cell = "entry" /\ c.kind = h2[e].kind /\ c.body = h2[e].body /\ c.key = g /\ c.value = v
  BY <1>1 DEF EntryCell
<1>4. BodyKeep(h2, g, e, v) = Put(h2, e, c)  BY <1>1 DEF Put, BodyKeep
<1> HIDE DEF c
<1>5. SameCell(h2[e], c)  BY <1>1, <1>3 DEF SameCell
<1>6. CellOK(h, e, c)  BY <1>1, <1>3 DEF CellOK, BodyOK
<1>7. c \in Cell  BY <1>2 DEF Cell
<1> QED  BY <1>1, <1>4, <1>5, <1>6, <1>7, PutReached
LEMMA ReachedWired ==
  ASSUME NEW h, Wired(h), NEW h2, Reached(h, h2)
  PROVE  Wired(h2) /\ EntriesOf(h2) = EntriesOf(h) /\ MapsOf(h2) = MapsOf(h)
<1>1. h \in Heaps /\ h2 \in Heaps /\ TermsOf(h2) = TermsOf(h)  BY ReachedIs
<1>2. ASSUME NEW p \in DOMAIN h2, h2[p].cell # "head"
      PROVE  p \in DOMAIN h /\ SameCell(h[p], h2[p])
  <2>1. p \in DOMAIN h  BY <1>2 DEF Reached, Heads
  <2> QED  BY <1>1, <2>1, GrownIs DEF Reached
<1>3. EntriesOf(h2) = EntriesOf(h)
  <2>1. EntriesOf(h) \subseteq EntriesOf(h2)  BY <1>1, GrownIs DEF Reached
  <2>2. ASSUME NEW p \in EntriesOf(h2) PROVE p \in EntriesOf(h)
    <3>1. p \in DOMAIN h2 /\ h2[p].cell = "entry"  BY <1>1, CellsAre
    <3>2. p \in DOMAIN h /\ SameCell(h[p], h2[p])  BY <1>2, <3>1
    <3> QED  BY <3>1, <3>2 DEF SameCell, EntriesOf, Cells
  <2> QED  BY <2>1, <2>2
<1>4. MapsOf(h2) = MapsOf(h)
  <2>1. MapsOf(h) \subseteq MapsOf(h2)  BY <1>1, GrownIs DEF Reached
  <2>2. ASSUME NEW p \in MapsOf(h2) PROVE p \in MapsOf(h)
    <3>1. p \in DOMAIN h2 /\ h2[p].cell = "globals"  BY <1>1, CellsAre
    <3>2. p \in DOMAIN h /\ SameCell(h[p], h2[p])  BY <1>2, <3>1
    <3> QED  BY <3>1, <3>2 DEF SameCell, MapsOf, Cells
  <2> QED  BY <2>1, <2>2
<1>5. \A p \in TermsOf(h2) : WiredTerm(h2, p)
  <2> SUFFICES ASSUME NEW p \in TermsOf(h2) PROVE WiredTerm(h2, p)  OBVIOUS
  <2>1. WiredTerm(h, p)  BY <1>1 DEF Wired
  <2>2. h2[p].tag = h[p].tag /\ h2[p].part = h[p].part  BY <1>1, ReachedIs
  <2> QED  BY <1>1, <2>1, <2>2 DEF WiredTerm
<1>6. \A e \in EntriesOf(h2) : h2[e].body \in TermsOf(h2)
  BY <1>1, <1>3, ReachedIs DEF Wired
<1>7. \A g \in MapsOf(h2) : \A n \in Names : h2[g].map[n] \in EntriesOf(h2) \cup {0}
  BY <1>3, <1>4, ReachedIs DEF Wired
<1> QED  BY <1>1, <1>3, <1>4, <1>5, <1>6, <1>7 DEF Wired

LEMMA StuckReached ==
  ASSUME NEW h, Wired(h), NEW h2, Reached(h, h2), NEW n \in Names, NEW seen \in Seen,
         SeenOK(h, seen, n)
  PROVE  Reached(h, Stuck(h2, n, seen).heap) /\ Stuck(h2, n, seen).value = <<"stuck", n>>
<1> DEFINE c == Neutral(n, seen)
           h3 == Append(h2, c)
<1>1. c \in HeadCell /\ c \in Cell /\ c.cell = "head" /\ c.name = n /\ c.seen = seen
  BY DEF Neutral, HeadCell, Cell
<1>2. h \in Heaps /\ h2 \in Heaps  BY ReachedIs
<1> HIDE DEF c
<1>3. /\ h3 \in Heaps /\ Len(h3) = Len(h2) + 1 /\ Len(h2) \in Nat
      /\ \A p \in DOMAIN h2 : p \in DOMAIN h3 /\ h3[p] = h2[p]
      /\ \A p \in DOMAIN h3 : p \notin DOMAIN h2 => h3[p] = c
  BY <1>1, <1>2 DEF Heaps
<1> HIDE DEF h3
<1>4. Grown(h, h3)
  <2>1. Len(h) \in Nat /\ Len(h) <= Len(h2) /\ \A p \in DOMAIN h : p \in DOMAIN h2 /\ SameCell(h[p], h2[p])
    BY <1>2, HeapIs, GrownIs DEF Reached, Grown
  <2> QED  BY <1>3, <2>1 DEF Grown
<1>5. Heads(h, h3)  BY <1>1, <1>3 DEF Reached, Heads
<1>6. Right(h, h3)
  <2> SUFFICES ASSUME NEW p \in DOMAIN h3 PROVE CellOK(h, p, h3[p])  BY DEF Right
  <2>1. CASE p \in DOMAIN h2  BY <1>3, <2>1 DEF Reached, Right
  <2>2. CASE p \notin DOMAIN h2  BY <1>1, <1>3, <2>2 DEF CellOK
  <2> QED  BY <2>1, <2>2
<1>7. Reached(h, h3)  BY <1>3, <1>4, <1>5, <1>6 DEF Reached
<1> QED  BY <1>7 DEF Stuck, Answer, h3, c

-----------------------------------------------------------------------------
(***************************************************************************)
(* One evaluation.                                                         *)
(***************************************************************************)
Answers(h, g, p, env, r) == Reached(h, r.heap) /\ r.value = Fresh(h, g)[p][env]
Knows(h, g, eval, p) ==
  \A h2 \in Heaps : \A env \in Envs :
    Reached(h, h2) => Answers(h, g, p, env, eval[<<h2, env, p>>])
Callees(h, g, eval, p) ==
  /\ h[p].part # 0 => Knows(h, g, eval, h[p].part)
  /\ \A b \in Unfolded(h, g, p) : Knows(h, g, eval, b)

LEMMA AnswerIs ==
  ASSUME NEW h, NEW v PROVE Answer(h, v).heap = h /\ Answer(h, v).value = v
BY DEF Answer

LEMMA NodeRight ==
  ASSUME NEW h, Wired(h), NEW g \in MapsOf(h), Ends(h, g), Bounds # {},
         NEW p \in TermsOf(h), h[p].tag \in {"lan", "node"}, NEW env \in Envs,
         NEW h2, Reached(h, h2), NEW eval, Callees(h, g, eval, p)
  PROVE  Answers(h, g, p, env, EvalNode(eval, h2, g, env, p))
<1> DEFINE f == Fresh(h, g)
           part == eval[<<h2, env, h2[p].part>>]
           v == <<h[p].tag>> \o part.value
<1>0. h2[p].tag = h[p].tag /\ h2[p].part = h[p].part /\ h2 \in Heaps  BY ReachedIs
<1>1. h[p].part \in TermsOf(h) /\ h[p].part # 0  BY NodePart
<1>2. Answers(h, g, h[p].part, env, part)  BY <1>0, <1>1 DEF Callees, Knows
<1>3. Reached(h, part.heap) /\ part.value = f[h[p].part][env]  BY <1>2 DEF Answers
<1>4. f[p][env] = Wrap(h[p].tag, part.value)  BY <1>3, FreshIs, FreshNode
<1>5. part.value \in Values  BY <1>1, <1>3, FreshTyped
<1>6. EvalNode(eval, h2, g, env, p) =
        IF part.value = Failed THEN part
        ELSE Answer(IF h[p].tag = "lan" THEN TermKeep(part.heap, g, p, v) ELSE part.heap, v)
  BY <1>0 DEF EvalNode
<1> HIDE DEF part, f
<1>7. CASE part.value = Failed
  <2>1. f[p][env] = Failed  BY <1>4, <1>7 DEF Wrap
  <2> QED  BY <1>3, <1>6, <1>7, <2>1 DEF Answers, f
<1>8. CASE part.value # Failed
  <2>1. f[p][env] = v /\ v \in Values  BY <1>4, <1>5, <1>8, ValuesAre DEF Wrap
  <2> HIDE DEF v
  <2>2. Wired(part.heap)  BY <1>3, ReachedWired
  <2>3. Reached(h, TermKeep(part.heap, g, p, v))
    BY <1>3, <2>1, <2>2, TermKeepReached DEF f
  <2>4. CASE h[p].tag = "lan"
    <3>1. EvalNode(eval, h2, g, env, p) = Answer(TermKeep(part.heap, g, p, v), v)
      BY <1>6, <1>8, <2>4
    <3> QED  BY <2>1, <2>3, <3>1, AnswerIs DEF Answers, f
  <2>5. CASE h[p].tag # "lan"
    <3>1. EvalNode(eval, h2, g, env, p) = Answer(part.heap, v)  BY <1>6, <1>8, <2>5
    <3> QED  BY <1>3, <2>1, <3>1, AnswerIs DEF Answers, f
  <2> QED  BY <2>4, <2>5
<1> QED  BY <1>7, <1>8

LEMMA BodyRight ==
  ASSUME NEW h, Wired(h), NEW g \in MapsOf(h), Ends(h, g), Bounds # {},
         NEW p \in TermsOf(h), NEW e \in EntriesOf(h), Means(h, g, p, e), h[e].kind = "def",
         NEW h2, Reached(h, h2), NEW eval, Callees(h, g, eval, p), NEW env \in Envs
  PROVE  Answers(h, g, p, env, MemoBody(eval, h2, g, e))
<1> DEFINE f == Fresh(h, g)
           b == h[e].body
           body == eval[<<h2, << >>, b>>]
<1>0. /\ h2[e].kind = "def" /\ h2[e].body = b /\ h2 \in Heaps /\ CellOK(h, e, h2[e])
      /\ h2[e].cell = "entry" /\ e # 0 /\ g # 0
  BY ReachedIs, CellsAre
<1>1. b \in TermsOf(h) /\ b \in Unfolded(h, g, p) /\ << >> \in Envs  BY BodyIs, NoEnv
<1>2. f[p][env] = f[b][<< >>]
  <2>1. f[p][env] = FreshStep(h, g, f, p, env)  BY FreshIs
  <2> QED  BY <1>0, <2>1, FreshDef
<1>3. CASE h2[e].key = g
  <2>1. h2[e].value = f[b][<< >>]  BY <1>0, <1>3 DEF CellOK, BodyOK
  <2>2. MemoBody(eval, h2, g, e) = Answer(h2, h2[e].value)  BY <1>3 DEF MemoBody
  <2> QED  BY <1>2, <2>1, <2>2, AnswerIs DEF Answers
<1>4. CASE h2[e].key # g
  <2>1. Answers(h, g, b, << >>, body)  BY <1>0, <1>1 DEF Callees, Knows
  <2>2. Reached(h, body.heap) /\ body.value = f[b][<< >>]  BY <2>1 DEF Answers
  <2>3. body.value \in Values  BY <1>1, <2>2, FreshTyped
  <2>4. MemoBody(eval, h2, g, e) =
          IF body.value = Failed THEN body
          ELSE Answer(BodyKeep(body.heap, g, e, body.value), body.value)
    BY <1>0, <1>4 DEF MemoBody
  <2> HIDE DEF body
  <2>5. Reached(h, BodyKeep(body.heap, g, e, body.value))
    BY <2>2, <2>3, BodyKeepReached
  <2>6. CASE body.value = Failed  BY <1>2, <2>2, <2>4, <2>6 DEF Answers
  <2>7. CASE body.value # Failed
    <3>1. MemoBody(eval, h2, g, e) = Answer(BodyKeep(body.heap, g, e, body.value), body.value)
      BY <2>4, <2>7
    <3> QED  BY <1>2, <2>2, <2>5, <3>1, AnswerIs DEF Answers
  <2> QED  BY <2>6, <2>7
<1> QED  BY <1>3, <1>4
LEMMA NameRight ==
  ASSUME NEW h, Wired(h), NEW g \in MapsOf(h), Ends(h, g), Bounds # {},
         NEW p \in TermsOf(h), h[p].tag = "global", NEW env \in Envs,
         NEW h2, Reached(h, h2), NEW eval, Callees(h, g, eval, p)
  PROVE  Answers(h, g, p, env, EvalGlobal(eval, h2, g, p))
<1> DEFINE f == Fresh(h, g)
           n == h[p].name
           seen == FindSeen(h2, h2[p].seen, n, g)
           cached == [h2 EXCEPT ![p].seen = seen]
<1>0. /\ h2[p].name = n /\ n \in Names /\ h2[p].seen \in Seen /\ SeenOK(h, h2[p].seen, n)
      /\ h2 \in Heaps
  <2>1. h2[p].cell = "term" /\ h2[p] \in TermCell /\ CellOK(h, p, h2[p]) /\ h2[p].name = h[p].name
    BY ReachedIs
  <2> QED  BY <2>1, ReachedIs, TagIs DEF CellOK, TermCell
<1>1. seen \in Seen /\ seen.entry = h[g].map[n] /\ SeenOK(h, seen, n)
  BY <1>0, FindSeenRight
<1>2. Reached(h, cached)
  <2> HIDE DEF seen
  <2> QED  BY <1>1, NameKept
<1>3. Means(h, g, p, seen.entry) /\ seen.entry \in EntriesOf(h) \cup {0}
  BY <1>0, <1>1 DEF Means, Wired
<1>4. f[p][env] = FreshStep(h, g, f, p, env)  BY FreshIs
<1>5. EvalGlobal(eval, h2, g, p) =
        CASE seen.entry = 0 -> Answer(cached, Failed)
          [] seen.entry # 0 /\ h2[seen.entry].kind = "def" -> MemoBody(eval, cached, g, seen.entry)
          [] OTHER -> Stuck(cached, n, seen)
  BY <1>0 DEF EvalGlobal
<1> HIDE DEF seen, cached, f
<1>6. CASE seen.entry = 0
  <2>1. f[p][env] = Failed  BY <1>3, <1>4, <1>6, FreshUnbound
  <2>2. EvalGlobal(eval, h2, g, p) = Answer(cached, Failed)  BY <1>5, <1>6
  <2> QED  BY <1>2, <2>1, <2>2, AnswerIs DEF Answers, f
<1>7. CASE seen.entry # 0
  <2> DEFINE e == seen.entry
  <2>1. e \in EntriesOf(h) /\ h2[e].kind = h[e].kind  BY <1>3, <1>7, ReachedIs
  <2>2. CASE h[e].kind = "def"
    <3>1. EvalGlobal(eval, h2, g, p) = MemoBody(eval, cached, g, e)  BY <1>5, <1>7, <2>1, <2>2
    <3> QED  BY <1>2, <1>3, <2>1, <2>2, <3>1, BodyRight
  <2>3. CASE h[e].kind # "def"
    <3>1. EvalGlobal(eval, h2, g, p) = Stuck(cached, n, seen)  BY <1>5, <1>7, <2>1, <2>3
    <3>2. f[p][env] = <<"stuck", n>>  BY <1>3, <1>4, <1>7, <2>3, FreshStuck
    <3>3. Reached(h, Stuck(cached, n, seen).heap) /\ Stuck(cached, n, seen).value = <<"stuck", n>>
      BY <1>0, <1>1, <1>2, StuckReached
    <3> QED  BY <3>1, <3>2, <3>3 DEF Answers, f
  <2> QED  BY <2>2, <2>3
<1> QED  BY <1>6, <1>7

LEMMA StepRight ==
  ASSUME NEW h, Wired(h), NEW g \in MapsOf(h), Ends(h, g), Bounds # {},
         NEW p \in TermsOf(h), NEW env \in Envs,
         NEW h2, Reached(h, h2), NEW eval, Callees(h, g, eval, p)
  PROVE  Answers(h, g, p, env, EvalStep(eval, h2, g, env, p))
<1> DEFINE f == Fresh(h, g)
           r == EvalStep(eval, h2, g, env, p)
<1>0. /\ h2[p].tag = h[p].tag /\ h2[p].cell = "term" /\ CellOK(h, p, h2[p])
      /\ f[p][env] = FreshStep(h, g, f, p, env)
  BY ReachedIs, FreshIs
<1> HIDE DEF f
<1>1. CASE h[p].tag = "auto" \/ (h[p].tag = "var" /\ env = << >>)
  <2>1. r = Answer(h2, Failed)  BY <1>0, <1>1 DEF EvalStep
  <2>2. f[p][env] = Failed  BY <1>0, <1>1, FreshLeaf
  <2> QED  BY <2>1, <2>2, AnswerIs DEF Answers, f
<1>2. CASE h[p].tag = "var" /\ env # << >>
  <2>1. r = Answer(h2, env)  BY <1>0, <1>2 DEF EvalStep
  <2>2. f[p][env] = env  BY <1>0, <1>2, FreshLeaf
  <2> QED  BY <2>1, <2>2, AnswerIs DEF Answers, f
<1>3. CASE h[p].tag = "univ"
  <2>1. r = Answer(h2, <<"univ">>)  BY <1>0, <1>3 DEF EvalStep
  <2>2. f[p][env] = <<"univ">>  BY <1>0, <1>3, FreshLeaf
  <2> QED  BY <2>1, <2>2, AnswerIs DEF Answers, f
<1>4. CASE h[p].tag = "global"
  <2>1. r = EvalGlobal(eval, h2, g, p)  BY <1>0, <1>4 DEF EvalStep
  <2> QED  BY <1>4, <2>1, NameRight
<1>5. CASE h[p].tag = "lan" /\ TermKept(h2[p], g)
  <2>1. r = Answer(h2, h2[p].value)  BY <1>0, <1>5 DEF EvalStep
  <2>2. h2[p].value = f[p][env]  BY <1>0, <1>5 DEF CellOK, KeptOK, TermKept, f
  <2> QED  BY <2>1, <2>2, AnswerIs DEF Answers, f
<1>6. CASE h[p].tag \in {"lan", "node"} /\ ~(h[p].tag = "lan" /\ TermKept(h2[p], g))
  <2>1. r = EvalNode(eval, h2, g, env, p)  BY <1>0, <1>6 DEF EvalStep
  <2> QED  BY <1>6, <2>1, NodeRight
<1> QED  BY <1>1, <1>2, <1>3, <1>4, <1>5, <1>6, TagIs

\* How many terms have smaller numbers.
Rank(S, m, p) == Cardinality(Below(S, m, p))

LEMMA RankFalls ==
  ASSUME NEW S, IsFiniteSet(S), NEW m \in [S -> Nat]
  PROVE  \A p \in S :
           /\ Rank(S, m, p) \in Nat /\ Rank(S, m, p) < Cardinality(S)
           /\ \A q \in S : m[q] < m[p] => Rank(S, m, q) < Rank(S, m, p)
<1>1. \A p \in S : Below(S, m, p) \subseteq S /\ p \notin Below(S, m, p)
  BY DEF Below
<1>2. ASSUME NEW T, IsFiniteSet(T), NEW U \in SUBSET T, NEW p \in T, p \notin U
      PROVE  Cardinality(U) \in Nat /\ Cardinality(U) < Cardinality(T)
  <2>1. IsFiniteSet(U) /\ Cardinality(U) <= Cardinality(T) /\ (Cardinality(T) = Cardinality(U) => T = U)
    BY <1>2, FS_Subset
  <2>2. Cardinality(U) \in Nat /\ Cardinality(T) \in Nat  BY <1>2, <2>1, FS_CardinalityType
  <2> QED  BY <1>2, <2>1, <2>2
<1>3. ASSUME NEW p \in S PROVE Rank(S, m, p) \in Nat /\ Rank(S, m, p) < Cardinality(S)
  BY <1>1, <1>2 DEF Rank
<1>4. ASSUME NEW p \in S, NEW q \in S, m[q] < m[p] PROVE Rank(S, m, q) < Rank(S, m, p)
  <2>1. IsFiniteSet(Below(S, m, p))  BY <1>1, FS_Subset
  <2>2. Below(S, m, q) \in SUBSET Below(S, m, p) /\ q \in Below(S, m, p)
    BY <1>4 DEF Below
  <2>3. q \notin Below(S, m, q)  BY <1>1
  <2> QED  BY <1>2, <2>1, <2>2, <2>3 DEF Rank
<1> QED  BY <1>3, <1>4
EvalRow(g, prev, k) ==
  [c \in Heaps \X Envs \X Nat |->
     IF k = 0 THEN Answer(c[1], Failed) ELSE EvalStep(prev, c[1], g, c[2], c[3])]
NestedCalls(g, n, f) == f = [k \in 0 .. n |-> EvalRow(g, f[k - 1], k)]

LEMMA NestedExists ==
  ASSUME NEW g, NEW n \in Nat
  PROVE  \E f : NestedCalls(g, n, f)
<1> DEFINE T == {j \in Nat : \E f : NestedCalls(g, j, f)}
<1>0. ASSUME NEW x, NEW y PROVE EvalRow(g, x, 0) = EvalRow(g, y, 0)
  BY DEF EvalRow
<1>1. 0 \in T
  <2> DEFINE f == [k \in 0 .. 0 |-> EvalRow(g, 0, 0)]
  <2>1. \A k \in 0 .. 0 : k = 0  OBVIOUS
  <2>2. \A k \in 0 .. 0 : f[k] = EvalRow(g, f[k - 1], k)  BY <1>0, <2>1
  <2>3. f = [k \in 0 .. 0 |-> f[k]]  OBVIOUS
  <2> HIDE DEF f
  <2>4. NestedCalls(g, 0, f)  BY <2>2, <2>3 DEF NestedCalls
  <2> QED  BY <2>4
<1>2. ASSUME NEW j \in Nat, j \in T PROVE j + 1 \in T
  <2>1. PICK f : NestedCalls(g, j, f)  BY <1>2
  <2> DEFINE e == [k \in 0 .. j + 1 |-> IF k = j + 1 THEN EvalRow(g, f[j], j + 1) ELSE f[k]]
  <2>2. ASSUME NEW k \in 0 .. j + 1 PROVE e[k] = EvalRow(g, e[k - 1], k)
    <3>1. CASE k = 0
      <4>1. e[k] = f[0] /\ f[0] = EvalRow(g, f[0 - 1], 0)  BY <2>1, <3>1 DEF NestedCalls
      <4>2. EvalRow(g, f[0 - 1], 0) = EvalRow(g, e[0 - 1], 0)  BY <1>0
      <4> QED  BY <3>1, <4>1, <4>2
    <3>2. CASE k # 0 /\ k # j + 1
      <4>1. k \in 0 .. j /\ k - 1 \in 0 .. j /\ k - 1 # j + 1 /\ k - 1 \in 0 .. j + 1  BY <3>2
      <4>2. e[k] = f[k] /\ e[k - 1] = f[k - 1]  BY <3>2, <4>1
      <4>3. f[k] = EvalRow(g, f[k - 1], k)  BY <2>1, <4>1 DEF NestedCalls
      <4> QED  BY <4>2, <4>3
    <3>3. CASE k = j + 1
      <4>1. e[k] = EvalRow(g, f[j], j + 1)  BY <3>3
      <4>2. k - 1 = j /\ j \in 0 .. j + 1 /\ j # j + 1  BY <3>3
      <4>3. e[j] = f[j]  BY <4>2
      <4> HIDE DEF e
      <4> QED  BY <3>3, <4>1, <4>2, <4>3
    <3> QED  BY <3>1, <3>2, <3>3
  <2>3. e = [k \in 0 .. j + 1 |-> e[k]]  OBVIOUS
  <2> HIDE DEF e
  <2>4. NestedCalls(g, j + 1, e)  BY <2>2, <2>3 DEF NestedCalls
  <2> HIDE DEF T
  <2>5. j + 1 \in Nat /\ \E x : NestedCalls(g, j + 1, x)  BY <2>4
  <2> QED  BY <2>5 DEF T
<1>3. Nat \subseteq T
  <2> HIDE DEF T
  <2> QED  BY <1>1, <1>2, Induct
<1>4. n \in T
  <2> HIDE DEF T
  <2> QED  BY <1>3
<1> QED  BY <1>4

LEMMA EvalIs ==
  ASSUME NEW g, Len(heap) \in Nat
  PROVE  \E f : NestedCalls(g, Len(heap), f) /\ Eval(g) = f[Len(heap)]
<1> DEFINE n == Len(heap)
           l == CHOOSE f : f = [k \in 0 .. n |->
                  [c \in Heaps \X Envs \X Nat |->
                     IF k = 0 THEN Answer(c[1], Failed) ELSE EvalStep(f[k - 1], c[1], g, c[2], c[3])]]
<1>1. \E f : f = [k \in 0 .. n |->
                  [c \in Heaps \X Envs \X Nat |->
                     IF k = 0 THEN Answer(c[1], Failed) ELSE EvalStep(f[k - 1], c[1], g, c[2], c[3])]]
  <2>1. PICK f : NestedCalls(g, n, f)  BY NestedExists
  <2> QED  BY <2>1 DEF NestedCalls, EvalRow
<1>2. l = [k \in 0 .. n |->
                  [c \in Heaps \X Envs \X Nat |->
                     IF k = 0 THEN Answer(c[1], Failed) ELSE EvalStep(l[k - 1], c[1], g, c[2], c[3])]]
  BY <1>1
<1>3. Eval(g) = l[n]  BY DEF Eval
<1> HIDE DEF l
<1>4. NestedCalls(g, n, l)  BY <1>2 DEF NestedCalls, EvalRow
<1> QED  BY <1>3, <1>4

LEMMA EvalRight ==
  ASSUME Wired(heap), NEW g \in MapsOf(heap), Ends(heap, g), Bounds # {},
         NEW p \in TermsOf(heap)
  PROVE  Knows(heap, g, Eval(g), p)
<1> DEFINE S == TermsOf(heap)
           n == Len(heap)
<1>0. heap \in Heaps /\ n \in Nat /\ S \subseteq 1 .. n /\ S \subseteq Nat
  BY HeapIs, CellsAre DEF Wired
<1>1. PICK d \in Nat : \E m : Descends(heap, g, d, m)  BY DEF Ends
<1>2. PICK m : Descends(heap, g, d, m)  BY <1>1
<1>3. m \in [S -> Nat]  BY <1>2 DEF Descends
<1>4. PICK f : NestedCalls(g, n, f) /\ Eval(g) = f[n]  BY <1>0, EvalIs
<1>5. IsFiniteSet(S) /\ Cardinality(S) <= n
  <2> HIDE DEF S, n
  <2>0. n \in Int /\ 1 \in Int  BY <1>0
  <2>1. IsFiniteSet(1 .. n) /\ Cardinality(1 .. n) = IF 1 > n THEN 0 ELSE n - 1 + 1
    BY <2>0, FS_Interval
  <2>2. Cardinality(1 .. n) = n  BY <1>0, <2>1
  <2> QED  BY <1>0, <2>1, <2>2, FS_Subset
<1>6. Cardinality(S) \in Nat  BY <1>5, FS_CardinalityType
<1>7. \A q \in S :
        /\ Rank(S, m, q) \in Nat /\ Rank(S, m, q) < n
        /\ \A q2 \in S : m[q2] < m[q] => Rank(S, m, q2) < Rank(S, m, q)
  <2> HIDE DEF S, n
  <2>1. \A q \in S :
          /\ Rank(S, m, q) \in Nat /\ Rank(S, m, q) < Cardinality(S)
          /\ \A q2 \in S : m[q2] < m[q] => Rank(S, m, q2) < Rank(S, m, q)
    BY <1>3, <1>5, RankFalls
  <2>2. ASSUME NEW q \in S PROVE Rank(S, m, q) < n
    <3>1. Rank(S, m, q) \in Nat /\ Rank(S, m, q) < Cardinality(S)  BY <2>1
    <3> QED  BY <1>0, <1>5, <1>6, <3>1
  <2> QED  BY <2>1, <2>2
<1> DEFINE Good(k) == \A q \in S : Rank(S, m, q) < k => Knows(heap, g, f[k], q)
           T == {k \in Nat : k <= n => Good(k)}
<1>8. 0 \in T  BY <1>7
<1>9. ASSUME NEW k \in Nat, k \in T PROVE k + 1 \in T
  <2> SUFFICES ASSUME k + 1 <= n, NEW q \in S, Rank(S, m, q) < k + 1
               PROVE  Knows(heap, g, f[k + 1], q)
    BY DEF Good
  <2>1. k <= n /\ Good(k)  BY <1>0, <1>9
  <2>2. Falls(heap, g, q, m)  BY <1>2 DEF Descends
  <2>3. ASSUME NEW q2 \in S, m[q2] < m[q] PROVE Knows(heap, g, f[k], q2)
    <3>1. Rank(S, m, q2) \in Nat /\ Rank(S, m, q2) < Rank(S, m, q) /\ Rank(S, m, q) \in Nat
      BY <1>7, <2>3
    <3>2. Rank(S, m, q2) < k  BY <3>1
    <3> QED  BY <2>1, <3>2
  <2>4. Callees(heap, g, f[k], q)
    <3>1. heap[q].part # 0 => heap[q].part \in S  BY PartIs
    <3>2. \A b \in Unfolded(heap, g, q) : b \in S  BY DEF Unfolded, Wired
    <3> QED  BY <2>2, <2>3, <3>1, <3>2 DEF Falls, Callees
  <2>5. f[k + 1] = EvalRow(g, f[k], k + 1)
    <3>1. k + 1 \in 0 .. n /\ (k + 1) - 1 = k  BY <1>0
    <3> HIDE DEF n
    <3> QED  BY <1>4, <3>1 DEF NestedCalls
  <2>6. ASSUME NEW h2 \in Heaps, NEW env \in Envs, Reached(heap, h2)
        PROVE  Answers(heap, g, q, env, f[k + 1][<<h2, env, q>>])
    <3> DEFINE c == <<h2, env, q>>
    <3>1. c \in Heaps \X Envs \X Nat /\ c[1] = h2 /\ c[2] = env /\ c[3] = q  BY <1>0
    <3> HIDE DEF c
    <3>2. k + 1 # 0  OBVIOUS
    <3>3. f[k + 1][c] = EvalStep(f[k], h2, g, env, q)  BY <2>5, <3>1, <3>2 DEF EvalRow
    <3>4. Answers(heap, g, q, env, EvalStep(f[k], h2, g, env, q))  BY <2>4, <2>6, StepRight
    <3> QED  BY <3>3, <3>4 DEF c
  <2> QED  BY <2>6 DEF Knows
<1>10. Nat \subseteq T
  <2> HIDE DEF T
  <2> QED  BY <1>8, <1>9, Induct
<1>11. n \in T
  <2> HIDE DEF T, n
  <2> QED  BY <1>0, <1>10
<1>12. Good(n)
  <2> HIDE DEF Good, n
  <2> QED  BY <1>0, <1>11
<1> QED  BY <1>4, <1>7, <1>12
LEMMA SelfReached ==
  ASSUME NEW h, Wired(h), Right(h, h)
  PROVE  Reached(h, h)
BY HeapIs DEF Wired, Reached, Grown, Heads, SameCell

\* eval_eval answers what a fresh evaluation does, and leaves right caches.
LEMMA EntryRight ==
  ASSUME Wired(heap), Right(heap, heap), NEW g \in MapsOf(heap), Ends(heap, g), Bounds # {},
         NEW p \in TermsOf(heap), NEW env \in Envs
  PROVE  Answers(heap, g, p, env, EvalEntry(g, env, p))
<1> DEFINE f == Fresh(heap, g)
           r == Eval(g)[<<heap, env, p>>]
<1>0. heap \in Heaps /\ Reached(heap, heap) /\ CellOK(heap, p, heap[p]) /\ heap[p].cell = "term"
  BY SelfReached, CellsAre DEF Wired, Right
<1>1. CASE EntryKeeps(heap[p]) /\ TermKept(heap[p], g)
  <2>1. EvalEntry(g, env, p) = Answer(heap, heap[p].value)  BY <1>1 DEF EvalEntry
  <2>2. heap[p].value = f[p][env]  BY <1>0, <1>1 DEF CellOK, KeptOK, TermKept
  <2> QED  BY <1>0, <2>1, <2>2, AnswerIs DEF Answers
<1>2. CASE ~(EntryKeeps(heap[p]) /\ TermKept(heap[p], g))
  <2>1. Answers(heap, g, p, env, r)
    <3>1. Knows(heap, g, Eval(g), p)  BY EvalRight
    <3> QED  BY <1>0, <3>1 DEF Knows
  <2>2. EvalEntry(g, env, p) =
          IF r.value = Failed \/ ~EntryKeeps(heap[p]) THEN r
          ELSE Answer(TermKeep(r.heap, g, p, r.value), r.value)
    BY <1>2 DEF EvalEntry
  <2> HIDE DEF r
  <2>3. CASE r.value = Failed \/ ~EntryKeeps(heap[p])
    <3>1. EvalEntry(g, env, p) = r  BY <2>2, <2>3
    <3> QED  BY <2>1, <3>1
  <2>4. CASE ~(r.value = Failed \/ ~EntryKeeps(heap[p]))
    <3>1. EvalEntry(g, env, p) = Answer(TermKeep(r.heap, g, p, r.value), r.value)
      BY <2>2, <2>4
    <3>2. heap[p].tag \in {"lan", "node"}  BY <2>4 DEF EntryKeeps
    <3>3. Reached(heap, r.heap) /\ r.value = f[p][env]  BY <2>1 DEF Answers
    <3>4. r.value \in Values  BY <3>3, FreshTyped
    <3>5. Wired(r.heap)  BY <3>3, ReachedWired
    <3>6. Reached(heap, TermKeep(r.heap, g, p, r.value))
      BY <3>2, <3>3, <3>4, <3>5, TermKeepReached
    <3> QED  BY <3>1, <3>3, <3>6, AnswerIs DEF Answers
  <2> QED  BY <2>3, <2>4
<1> QED  BY <1>1, <1>2

-----------------------------------------------------------------------------
(***************************************************************************)
(* The invariant gives the properties of the run.                          *)
(***************************************************************************)
LEMMA RowIs ==
  ASSUME Framed, heap \in Heaps
  PROVE  /\ 1 \in TermsOf(heap) /\ Terms \subseteq TermsOf(heap)
         /\ RowCells("globals") \subseteq MapsOf(heap)
         /\ Bounds # {} /\ EnvsOf(bound) \subseteq Envs
         /\ heap[1] = StaticAuto
<1>1. Len(heap) \in Nat /\ DOMAIN heap = 1 .. Len(heap) /\ mark \in Nat
  BY HeapIs DEF Framed
<1>2. heap[1] = StaticAuto /\ 1 \in DOMAIN heap
  <2>1. 1 \in 1 .. (IF InRow THEN mark ELSE Len(heap)) /\ 1 \in DOMAIN heap
    BY <1>1 DEF Framed
  <2> QED  BY <2>1 DEF Framed, Based, BaseCell
<1>3. 1 \in TermsOf(heap)  BY <1>2 DEF TermsOf, Cells, StaticAuto, Term
<1>4. Terms \subseteq TermsOf(heap)  BY <1>3 DEF Terms, RowCells, TermsOf
<1>5. RowCells("globals") \subseteq MapsOf(heap)  BY DEF RowCells, MapsOf
<1>6. Bounds # {} /\ EnvsOf(bound) \subseteq Envs  BY DEF Framed, Envs
<1> QED  BY <1>2, <1>3, <1>4, <1>5, <1>6

LEMMA InvAnswers == MemoInv => AnswersFresh
<1> SUFFICES ASSUME MemoInv, NEW g \in RowCells("globals"), NEW env \in EnvsOf(bound), NEW p \in Terms
             PROVE  EvalEntry(g, env, p).value = Fresh(heap, g)[p][env]
  BY DEF AnswersFresh
<1>1. g \in MapsOf(heap) /\ p \in TermsOf(heap) /\ env \in Envs /\ Bounds # {}
  BY RowIs DEF MemoInv, Wired
<1>2. Ends(heap, g)  BY <1>1 DEF MemoInv, Grounded
<1>3. Answers(heap, g, p, env, EvalEntry(g, env, p))  BY <1>1, <1>2, EntryRight DEF MemoInv
<1> QED  BY <1>3 DEF Answers

LEMMA InvCaches == MemoInv => CachesRight
<1> SUFFICES ASSUME MemoInv PROVE CachesRight  OBVIOUS
<1>0. heap \in Heaps /\ EnvsOf(bound) \subseteq Envs /\ \A p \in DOMAIN heap : CellOK(heap, p, heap[p])
  BY RowIs DEF MemoInv, Wired, Right
<1>1. ASSUME NEW p \in Cells(heap, "term") \cup Cells(heap, "head")
      PROVE  SeenRight(heap[p].seen, heap[p].name)
  <2>1. p \in DOMAIN heap /\ heap[p].cell \in {"term", "head"}  BY DEF Cells
  <2> QED  BY <1>0, <2>1 DEF CellOK, SeenOK, SeenRight
<1>2. ASSUME NEW p \in Cells(heap, "term"), heap[p].state = "kept", NEW env \in EnvsOf(bound)
      PROVE  heap[p].value = Fresh(heap, heap[p].key)[p][env]
  <2>1. p \in DOMAIN heap /\ heap[p].cell = "term"  BY DEF Cells
  <2> QED  BY <1>0, <1>2, <2>1 DEF CellOK, KeptOK
<1>3. ASSUME NEW p \in Cells(heap, "entry"), heap[p].kind = "def", heap[p].key # 0
      PROVE  heap[p].value = Fresh(heap, heap[p].key)[heap[p].body][<< >>]
  <2>1. p \in DOMAIN heap /\ heap[p].cell = "entry"  BY DEF Cells
  <2> QED  BY <1>0, <1>3, <2>1 DEF CellOK, BodyOK
<1> QED  BY <1>1, <1>2, <1>3 DEF CachesRight

-----------------------------------------------------------------------------
(***************************************************************************)
(* More cells.                                                             *)
(***************************************************************************)
LEMMA RightGrows ==
  ASSUME NEW h, NEW h2, Wired(h), Wired(h2), Grown(h, h2), Grounded(h), Grounded(h2),
         Bounds # {}, Right(h, h2)
  PROVE  Right(h2, h2)
<1>0. h \in Heaps /\ h2 \in Heaps  BY DEF Wired
<1>1. /\ TermsOf(h) \subseteq TermsOf(h2) /\ EntriesOf(h) \subseteq EntriesOf(h2)
      /\ MapsOf(h) \subseteq MapsOf(h2) /\ \A g \in MapsOf(h) : h2[g].map = h[g].map
  BY <1>0, GrownIs
<1>2. ASSUME NEW g \in MapsOf(h)
      PROVE  \A p \in TermsOf(h) : \A env \in Envs : Fresh(h2, g)[p][env] = Fresh(h, g)[p][env]
  <2>1. Ends(h, g) /\ Ends(h2, g)  BY <1>1 DEF Grounded
  <2> QED  BY <2>1, FreshGrows
<1> SUFFICES ASSUME NEW p \in DOMAIN h2 PROVE CellOK(h2, p, h2[p])  BY DEF Right
<1> DEFINE c == h2[p]
<1>3. CellOK(h, p, c)  BY DEF Right
<1>4. c.cell \in {"term", "head"} => SeenOK(h2, c.seen, c.name)
  BY <1>1, <1>3 DEF CellOK, SeenOK
<1>5. ASSUME c.cell = "term", c.state = "kept" PROVE KeptOK(h2, p, c)
  <2>1. KeptOK(h, p, c)  BY <1>3, <1>5 DEF CellOK
  <2>2. p \in TermsOf(h) /\ Closed(h2, p) /\ c.key \in MapsOf(h)  BY <2>1, LeafGrows DEF KeptOK
  <2> QED  BY <1>1, <1>2, <2>1, <2>2 DEF KeptOK
<1>6. ASSUME c.cell = "entry", c.key # 0 PROVE BodyOK(h2, p, c)
  <2>1. BodyOK(h, p, c)  BY <1>3, <1>6 DEF CellOK
  <2>2. p \in EntriesOf(h) /\ c.key \in MapsOf(h) /\ << >> \in Envs  BY <2>1, NoEnv DEF BodyOK
  <2>3. c.body \in TermsOf(h)
    <3>1. h[p].body \in TermsOf(h)  BY <2>2 DEF Wired
    <3> QED  BY <1>0, <2>2, <3>1, GrownIs
  <2> QED  BY <1>1, <1>2, <2>1, <2>2, <2>3 DEF BodyOK
<1> QED  BY <1>4, <1>5, <1>6 DEF CellOK

LEMMA UnfoldedGrows ==
  ASSUME NEW h, NEW h2, Wired(h), h2 \in Heaps, Grown(h, h2),
         NEW g \in MapsOf(h), NEW p \in TermsOf(h2), h2[p].name \in Names
  PROVE  /\ Unfolded(h2, g, p) \subseteq TermsOf(h)
         /\ p \in TermsOf(h) => Unfolded(h2, g, p) = Unfolded(h, g, p)
<1>0. h \in Heaps  BY DEF Wired
<1>1. /\ h2[g].map = h[g].map /\ EntriesOf(h) \subseteq EntriesOf(h2)
      /\ \A e \in EntriesOf(h) : h2[e].kind = h[e].kind /\ h2[e].body = h[e].body
  BY <1>0, GrownIs
<1>2. \A e \in EntriesOf(h2) : e # 0  BY CellsAre
<1>3. ASSUME NEW e \in EntriesOf(h2), h2[g].map[h2[p].name] = e PROVE e \in EntriesOf(h)
  BY <1>1, <1>2, <1>3 DEF Wired
<1>4. Unfolded(h2, g, p) = {h[e].body : e \in {e \in EntriesOf(h) :
         h2[p].tag = "global" /\ h[g].map[h2[p].name] = e /\ h[e].kind = "def"}}
  BY <1>1, <1>3 DEF Unfolded
<1>5. Unfolded(h2, g, p) \subseteq TermsOf(h)  BY <1>4 DEF Wired
<1>6. ASSUME p \in TermsOf(h) PROVE Unfolded(h2, g, p) = Unfolded(h, g, p)
  <2>1. h2[p].tag = h[p].tag /\ h2[p].name = h[p].name  BY <1>0, <1>6, GrownIs
  <2> QED  BY <1>4, <2>1 DEF Unfolded
<1> QED  BY <1>5, <1>6

\* The parts of new terms are old.
NewParts(h, h2) ==
  \A p \in TermsOf(h2) : p \notin TermsOf(h) /\ h2[p].part # 0 => h2[p].part \in TermsOf(h)

LEMMA EndsGrows ==
  ASSUME NEW h, NEW h2, Wired(h), Wired(h2), Grown(h, h2), NewParts(h, h2),
         NEW g \in MapsOf(h), Ends(h, g)
  PROVE  Ends(h2, g)
<1>0. PICK d \in Nat : \E m : Descends(h, g, d, m)  BY DEF Ends
<1>1. PICK m : Descends(h, g, d, m)  BY <1>0
<1> DEFINE m2 == [p \in TermsOf(h2) |-> IF p \in TermsOf(h) THEN m[p] ELSE d + 1]
<1>2. h \in Heaps /\ h2 \in Heaps /\ TermsOf(h) \subseteq TermsOf(h2)  BY GrownIs DEF Wired
<1>3. m \in [TermsOf(h) -> 0 .. d]  BY <1>1 DEF Descends
<1>4. m2 \in [TermsOf(h2) -> 0 .. d + 1]  BY <1>3
<1>5. ASSUME NEW p \in TermsOf(h2) PROVE Falls(h2, g, p, m2)
  <2>0. h2[p].name \in Names  BY TagIs
  <2>1. CASE p \in TermsOf(h)
    <3>1. Falls(h, g, p, m)  BY <1>1, <2>1 DEF Descends
    <3>2. h2[p].part = h[p].part  BY <1>2, <2>1, GrownIs
    <3>3. h[p].part # 0 => h[p].part \in TermsOf(h)  BY <2>1, PartIs
    <3>4. Unfolded(h2, g, p) = Unfolded(h, g, p) /\ Unfolded(h, g, p) \subseteq TermsOf(h)
      BY <1>2, <2>0, <2>1, UnfoldedGrows
    <3>5. \A q \in TermsOf(h) : m2[q] = m[q]  BY <1>2
    <3> QED  BY <2>1, <3>1, <3>2, <3>3, <3>4, <3>5 DEF Falls
  <2>2. CASE p \notin TermsOf(h)
    <3>1. m2[p] = d + 1 /\ \A q \in TermsOf(h) : m2[q] < d + 1  BY <1>2, <1>3, <2>2
    <3>2. h2[p].part # 0 => h2[p].part \in TermsOf(h)  BY <2>2 DEF NewParts
    <3>3. Unfolded(h2, g, p) \subseteq TermsOf(h)  BY <1>2, <2>0, UnfoldedGrows
    <3> HIDE DEF m2
    <3> QED  BY <3>1, <3>2, <3>3 DEF Falls
  <2> QED  BY <2>1, <2>2
<1> HIDE DEF m2
<1>6. Descends(h2, g, d + 1, m2)  BY <1>4, <1>5 DEF Descends
<1> QED  BY <1>6 DEF Ends
\* Cells appended, which cache nothing.
Blank(c) ==
  /\ c.cell \in {"term", "head"} => c.seen.key = 0
  /\ c.cell = "term" => c.state # "kept"
  /\ c.cell = "entry" => c.key = 0
Joined(h, cs, h2) == h2 = h \o cs

LEMMA JoinedIs ==
  ASSUME NEW h \in Heaps, NEW cs \in Seq(Cell), NEW h2, Joined(h, cs, h2)
  PROVE  /\ h2 \in Heaps /\ Len(h) \in Nat /\ Len(cs) \in Nat /\ Len(h2) = Len(h) + Len(cs)
         /\ \A p \in DOMAIN h : p \in DOMAIN h2 /\ h2[p] = h[p]
         /\ \A i \in 1 .. Len(cs) : Len(h) + i \in DOMAIN h2 /\ h2[Len(h) + i] = cs[i]
         /\ \A p \in DOMAIN h2 : p \notin DOMAIN h => \E i \in 1 .. Len(cs) : p = Len(h) + i
         /\ Grown(h, h2)
<1>1. h \in Seq(Cell) /\ h2 = h \o cs  BY DEF Heaps, Joined
<1> DEFINE C == Cell
<1> HIDE DEF C
<1>2. /\ h2 \in Seq(C) /\ Len(h2) = Len(h) + Len(cs) /\ Len(h) \in Nat /\ Len(cs) \in Nat
      /\ DOMAIN h = 1 .. Len(h) /\ DOMAIN h2 = 1 .. Len(h) + Len(cs)
      /\ \A p \in 1 .. Len(h) : h2[p] = h[p]
      /\ \A i \in 1 .. Len(h) + Len(cs) : i > Len(h) => h2[i] = cs[i - Len(h)]
  BY <1>1 DEF C
<1>3. \A p \in DOMAIN h : p \in DOMAIN h2 /\ h2[p] = h[p]  BY <1>2
<1>4. ASSUME NEW i \in 1 .. Len(cs) PROVE Len(h) + i \in DOMAIN h2 /\ h2[Len(h) + i] = cs[i]
  <2>1. Len(h) + i \in 1 .. Len(h) + Len(cs) /\ Len(h) + i > Len(h) /\ Len(h) + i - Len(h) = i
    BY <1>2
  <2> QED  BY <1>2, <2>1
<1>5. ASSUME NEW p \in DOMAIN h2, p \notin DOMAIN h PROVE \E i \in 1 .. Len(cs) : p = Len(h) + i
  <2>1. p - Len(h) \in 1 .. Len(cs) /\ p = Len(h) + (p - Len(h))  BY <1>2, <1>5
  <2> QED  BY <2>1
<1>6. Grown(h, h2)  BY <1>2, <1>3 DEF Grown, SameCell
<1> QED  BY <1>2, <1>3, <1>4, <1>5, <1>6 DEF C, Heaps

LEMMA JoinedRight ==
  ASSUME NEW h \in Heaps, NEW cs \in Seq(Cell), NEW h2, Joined(h, cs, h2), Right(h, h),
         \A i \in 1 .. Len(cs) : Blank(cs[i])
  PROVE  Right(h, h2)
<1> SUFFICES ASSUME NEW p \in DOMAIN h2 PROVE CellOK(h, p, h2[p])  BY DEF Right
<1>1. CASE p \in DOMAIN h  BY <1>1, JoinedIs DEF Right
<1>2. CASE p \notin DOMAIN h
  <2>1. PICK i \in 1 .. Len(cs) : p = Len(h) + i  BY <1>2, JoinedIs
  <2>2. Blank(h2[p])  BY <2>1, JoinedIs
  <2> QED  BY <2>2 DEF CellOK, Blank, SeenOK
<1> QED  BY <1>1, <1>2

\* The frame of a row whose cells are kept by what the row adds.
LEMMA FrameKept ==
  ASSUME MemoInv, InRow, mark' = mark, rows' = rows, bound' = bound, heap' \in Heaps,
         Grown(heap, heap'), \A p \in 1 .. mark : heap'[p] = heap[p]
  PROVE  Framed'
<1>1. Len(heap) \in Nat /\ DOMAIN heap = 1 .. Len(heap) /\ mark \in Nat /\ Len(heap') \in Nat
      /\ heap \in Heaps
  BY HeapIs DEF MemoInv, Framed, Wired
<1>2. Len(heap) <= Len(heap') /\ TermsOf(heap) \subseteq TermsOf(heap')
  BY <1>1, GrownIs DEF Grown
<1>3. mark <= Len(heap) /\ 1 <= Len(heap) /\ Based(heap, mark) /\ 1 <= mark
      /\ mark + 1 \in TermsOf(heap) /\ rows \in Nat /\ bound \in Bounds
  BY DEF MemoInv, Framed
<1>4. Based(heap', mark)  BY <1>3 DEF Based
<1>5. /\ mark' \in Nat /\ rows' \in Nat /\ bound' \in Bounds /\ mark' <= Len(heap') /\ 1 <= Len(heap')
      /\ InRow' /\ 1 <= mark' /\ mark' + 1 \in TermsOf(heap') /\ Based(heap', mark')
  BY <1>1, <1>2, <1>3, <1>4 DEF InRow
<1> QED  BY <1>5 DEF Framed, TermsOf

\* Cells that a row adds: what is left to show of them.
LEMMA RowAdds ==
  ASSUME MemoInv, InRow, mark' = mark, rows' = rows, bound' = bound,
         NEW cs \in Seq(Cell), Joined(heap, cs, heap'),
         \A i \in 1 .. Len(cs) : Blank(cs[i]),
         Wired(heap'), Grounded(heap')
  PROVE  MemoInv'
<1>1. heap \in Heaps /\ Wired(heap) /\ Grounded(heap) /\ Right(heap, heap) /\ Bounds # {}
  BY DEF MemoInv, Wired, Framed
<1>2. /\ heap' \in Heaps /\ Grown(heap, heap') /\ \A p \in DOMAIN heap : heap'[p] = heap[p]
  BY <1>1, JoinedIs
<1>3. \A p \in 1 .. mark : p \in DOMAIN heap
  <2>1. mark <= Len(heap) /\ mark \in Nat  BY DEF MemoInv, Framed
  <2> QED  BY <1>1, <2>1, HeapIs
<1>4. Framed'  BY <1>2, <1>3, FrameKept
<1>5. Right(heap, heap')  BY <1>1, JoinedRight
<1>6. Right(heap', heap')  BY <1>1, <1>2, <1>5, RightGrows
<1> QED  BY <1>4, <1>6 DEF MemoInv

LEMMA BlankTerm ==
  ASSUME NEW tag \in {"var", "global", "univ", "auto", "lan", "node"}, NEW name \in Names,
         NEW part \in Nat
  PROVE  /\ Term(tag, name, part) \in Cell /\ Blank(Term(tag, name, part))
         /\ Term(tag, name, part).cell = "term" /\ Term(tag, name, part).tag = tag
         /\ Term(tag, name, part).name = name /\ Term(tag, name, part).part = part
<1>1. << >> \in Values  BY ValuesAre
<1> QED  BY <1>1 DEF Term, Cell, TermCell, Seen, Blank

LEMMA BlankEntry ==
  ASSUME NEW kind \in {"def", "rec", "axiom"}, NEW body \in Nat
  PROVE  /\ Entry(kind, body) \in Cell /\ Blank(Entry(kind, body))
         /\ Entry(kind, body).cell = "entry" /\ Entry(kind, body).kind = kind
         /\ Entry(kind, body).body = body
<1>1. << >> \in Values  BY ValuesAre
<1> QED  BY <1>1 DEF Entry, Cell, EntryCell, Blank

LEMMA BlankGlobals ==
  ASSUME NEW map \in [Names -> Nat]
  PROVE  /\ Globals(map) \in Cell /\ Blank(Globals(map))
         /\ Globals(map).cell = "globals" /\ Globals(map).map = map
BY DEF Globals, Cell, GlobalsCell, Blank
WiredCell(h, p) ==
  /\ h[p].cell = "term" => WiredTerm(h, p)
  /\ h[p].cell = "entry" => h[p].body \in TermsOf(h)
  /\ h[p].cell = "globals" => \A n \in Names : h[p].map[n] \in EntriesOf(h) \cup {0}

LEMMA JoinedWired ==
  ASSUME NEW h, Wired(h), NEW cs \in Seq(Cell), NEW h2, Joined(h, cs, h2),
         \A i \in 1 .. Len(cs) : WiredCell(h2, Len(h) + i)
  PROVE  Wired(h2)
<1>0. h \in Heaps /\ h2 \in Heaps /\ Grown(h, h2)  BY JoinedIs DEF Wired
<1>1. TermsOf(h) \subseteq TermsOf(h2) /\ EntriesOf(h) \subseteq EntriesOf(h2)  BY <1>0, GrownIs
<1>2. ASSUME NEW p \in DOMAIN h2 PROVE WiredCell(h2, p)
  <2>1. CASE p \in DOMAIN h
    <3>1. h2[p] = h[p]  BY <1>0, <2>1, JoinedIs
    <3>2. WiredCell(h, p)  BY <2>1 DEF Wired, WiredCell, TermsOf, EntriesOf, MapsOf, Cells
    <3> QED  BY <1>1, <3>1, <3>2 DEF WiredCell, WiredTerm
  <2>2. CASE p \notin DOMAIN h  BY <1>0, <2>2, JoinedIs
  <2> QED  BY <2>1, <2>2
<1>3. \A p \in TermsOf(h2) : WiredTerm(h2, p)
  BY <1>0, <1>2, CellsAre DEF WiredCell
<1>4. \A p \in EntriesOf(h2) : h2[p].body \in TermsOf(h2)
  BY <1>0, <1>2, CellsAre DEF WiredCell
<1>5. \A g \in MapsOf(h2) : \A n \in Names : h2[g].map[n] \in EntriesOf(h2) \cup {0}
  BY <1>0, <1>2, CellsAre DEF WiredCell
<1> QED  BY <1>0, <1>3, <1>4, <1>5 DEF Wired

LEMMA JoinedGrounded ==
  ASSUME NEW h, Wired(h), Grounded(h), NEW cs \in Seq(Cell), NEW h2, Joined(h, cs, h2), Wired(h2),
         NewParts(h, h2),
         \A i \in 1 .. Len(cs) : cs[i].cell = "globals" => Ends(h2, Len(h) + i)
  PROVE  Grounded(h2)
<1>0. h \in Heaps /\ h2 \in Heaps /\ Grown(h, h2)  BY JoinedIs DEF Wired
<1> SUFFICES ASSUME NEW g \in MapsOf(h2) PROVE Ends(h2, g)  BY DEF Grounded
<1>1. g \in DOMAIN h2 /\ h2[g].cell = "globals"  BY <1>0, CellsAre
<1>2. CASE g \in DOMAIN h
  <2>1. g \in MapsOf(h)
    <3>1. h2[g] = h[g]  BY <1>0, <1>2, JoinedIs
    <3> QED  BY <1>1, <1>2, <3>1 DEF MapsOf, Cells
  <2>2. Ends(h, g)  BY <2>1 DEF Grounded
  <2> QED  BY <1>0, <2>1, <2>2, EndsGrows
<1>3. CASE g \notin DOMAIN h
  <2>1. PICK i \in 1 .. Len(cs) : g = Len(h) + i  BY <1>0, <1>1, <1>3, JoinedIs
  <2>2. h2[g] = cs[i]  BY <1>0, <2>1, JoinedIs
  <2> QED  BY <1>1, <2>1, <2>2
<1> QED  BY <1>2, <1>3

-----------------------------------------------------------------------------
(***************************************************************************)
(* The steps of a row.                                                     *)
(***************************************************************************)
\* The terms the elaborator makes.
Makes(tag, part) ==
  (tag \in {"var", "global"} /\ part = 0) \/ (tag \in {"lan", "node"} /\ part \in TermsOf(heap))

LEMMA NewTermKeeps ==
  ASSUME MemoInv, NEW tag, NEW name \in Names, NEW part, Makes(tag, part),
         NewTerm(tag, name, part), bound' = bound
  PROVE  MemoInv'
<1> DEFINE c == Term(tag, name, part)
           n == Len(heap)
           cs == <<c>>
<1>0. heap \in Heaps /\ Wired(heap) /\ Grounded(heap)  BY DEF MemoInv, Wired
<1>1. n \in Nat /\ DOMAIN heap = 1 .. n /\ InRow /\ mark' = mark /\ rows' = rows
  BY <1>0, HeapIs DEF NewTerm
<1>2. tag \in {"var", "global", "univ", "auto", "lan", "node"} /\ part \in Nat
  BY <1>0, CellsAre DEF Makes
<1>3. c \in Cell /\ Blank(c) /\ c.cell = "term" /\ c.tag = tag /\ c.name = name /\ c.part = part
  BY <1>2, BlankTerm
<1>4. heap' = heap \o <<c>>
  <2>1. heap' = Append(heap, c)  BY DEF NewTerm
  <2> HIDE DEF c
  <2> QED  BY <1>0, <1>3, <2>1 DEF Heaps
<1> HIDE DEF c
<1>5. /\ cs \in Seq(Cell) /\ Len(cs) = 1 /\ cs[1] = c /\ \A i \in 1 .. Len(cs) : i = 1
      /\ Joined(heap, cs, heap')
  BY <1>3, <1>4 DEF Joined
<1> HIDE DEF cs
<1>6. /\ heap' \in Heaps /\ Grown(heap, heap') /\ n + 1 \in DOMAIN heap' /\ heap'[n + 1] = c
      /\ \A p \in DOMAIN heap' : p \notin DOMAIN heap => p = n + 1
  <2>1. heap \in Heaps /\ cs \in Seq(Cell) /\ Joined(heap, cs, heap')  BY <1>0, <1>5
  <2>2. heap' \in Heaps /\ Grown(heap, heap')  BY <2>1, JoinedIs
  <2>3. \A i \in 1 .. Len(cs) : n + i \in DOMAIN heap' /\ heap'[n + i] = cs[i]
    BY <2>1, JoinedIs
  <2>4. n + 1 \in DOMAIN heap' /\ heap'[n + 1] = c  BY <1>5, <2>3
  <2>5. \A p \in DOMAIN heap' : p \notin DOMAIN heap => \E i \in 1 .. Len(cs) : p = n + i
    BY <2>1, JoinedIs
  <2>6. \A p \in DOMAIN heap' : p \notin DOMAIN heap => p = n + 1  BY <1>5, <2>5
  <2> QED  BY <2>2, <2>4, <2>6
<1>7. /\ TermsOf(heap) \subseteq TermsOf(heap') /\ TermsOf(heap) \subseteq 1 .. n
      /\ 0 \notin TermsOf(heap)
  BY <1>0, <1>1, <1>6, GrownIs, CellsAre
<1>8. WiredCell(heap', n + 1)
  <2>1. CASE tag \in {"var", "global"}  BY <1>3, <1>6, <2>1 DEF Makes, WiredCell, WiredTerm
  <2>2. CASE tag \in {"lan", "node"}
    <3>1. part \in TermsOf(heap') /\ part < n + 1  BY <1>1, <1>7, <2>2 DEF Makes
    <3> QED  BY <1>3, <1>6, <2>2, <3>1 DEF WiredCell, WiredTerm
  <2> QED  BY <2>1, <2>2 DEF Makes
<1>9. \A i \in 1 .. Len(cs) : WiredCell(heap', n + i) /\ Blank(cs[i])
  BY <1>3, <1>5, <1>8
<1>10. Wired(heap')  BY <1>0, <1>5, <1>9, JoinedWired
<1>11. NewParts(heap, heap')
  <2> SUFFICES ASSUME NEW p \in TermsOf(heap'), p \notin TermsOf(heap), heap'[p].part # 0
               PROVE  heap'[p].part \in TermsOf(heap)
    BY DEF NewParts
  <2>1. p \in DOMAIN heap' /\ heap'[p].cell = "term"  BY <1>6, CellsAre
  <2>2. p \notin DOMAIN heap
    <3>1. p \in DOMAIN heap => heap'[p] = heap[p]  BY <1>0, <1>5, JoinedIs
    <3> QED  BY <2>1, <3>1 DEF TermsOf, Cells
  <2>3. p = n + 1  BY <1>6, <2>1, <2>2
  <2> QED  BY <1>3, <1>6, <2>3 DEF Makes
<1>12. Grounded(heap')
  <2>1. \A i \in 1 .. Len(cs) : cs[i].cell = "globals" => Ends(heap', n + i)
    BY <1>3, <1>5
  <2> QED  BY <1>0, <1>5, <1>10, <1>11, <2>1, JoinedGrounded
<1> QED  BY <1>1, <1>5, <1>9, <1>10, <1>12, RowAdds
\* h2 has the terms of heap, an entry e, and the map g2 of g with e for n.
Adds(h2, g, n, kind, p, e, g2) ==
  /\ TermsOf(h2) = TermsOf(heap) /\ h2 \in Heaps /\ Grown(heap, h2)
  /\ \A q \in EntriesOf(h2) : q \in EntriesOf(heap) \cup {e}
  /\ h2[e].kind = kind /\ h2[e].body = p /\ e \notin EntriesOf(heap)
  /\ h2[g2].map = [heap[g].map EXCEPT ![n] = e]

LEMMA UnfoldedAdds ==
  ASSUME Wired(heap), NEW g \in MapsOf(heap), NEW n \in Names, NEW kind, NEW p \in TermsOf(heap),
         NEW e, NEW g2, NEW h2, Adds(h2, g, n, kind, p, e, g2), NEW q \in TermsOf(heap),
         NEW b \in Unfolded(h2, g2, q)
  PROVE  /\ b \in TermsOf(heap) /\ heap[q].tag = "global"
         /\ heap[q].name = n => kind = "def" /\ b = p
         /\ heap[q].name # n => b \in Unfolded(heap, g, q)
<1>0. heap \in Heaps /\ h2 \in Heaps /\ Grown(heap, h2)  BY DEF Wired, Adds
<1>1. h2[q].tag = heap[q].tag /\ h2[q].name = heap[q].name /\ heap[q].name \in Names
  BY <1>0, GrownIs, TagIs
<1>2. PICK x \in EntriesOf(h2) : /\ b = h2[x].body /\ h2[q].tag = "global"
                                /\ h2[g2].map[h2[q].name] = x /\ h2[x].kind = "def"
  BY DEF Unfolded
<1>3. heap[g].map \in [Names -> Nat]  BY <1>0, CellsAre DEF GlobalsCell
<1>4. CASE heap[q].name = n
  <2>1. x = e  BY <1>1, <1>2, <1>3, <1>4 DEF Adds
  <2> QED  BY <1>1, <1>2, <1>4, <2>1 DEF Adds
<1>5. CASE heap[q].name # n
  <2>1. x = heap[g].map[heap[q].name]  BY <1>1, <1>2, <1>3, <1>5 DEF Adds
  <2>2. x \in EntriesOf(heap)
    <3>1. x \in EntriesOf(heap) \cup {0}  BY <1>1, <2>1 DEF Wired
    <3>2. x # 0  BY <1>0, CellsAre
    <3> QED  BY <3>1, <3>2
  <2>3. h2[x].kind = heap[x].kind /\ h2[x].body = heap[x].body  BY <1>0, <2>2, GrownIs
  <2>4. heap[x].body \in TermsOf(heap)  BY <2>2 DEF Wired
  <2>5. b \in Unfolded(heap, g, q)  BY <1>1, <1>2, <2>1, <2>2, <2>3 DEF Unfolded
  <2> QED  BY <1>1, <1>2, <1>5, <2>3, <2>4, <2>5
<1> QED  BY <1>4, <1>5

\* An entry that does not unfold leaves every evaluation shorter or the same.
LEMMA StuckEnds ==
  ASSUME Wired(heap), NEW g \in MapsOf(heap), Ends(heap, g), NEW n \in Names, NEW kind,
         kind # "def", NEW p \in TermsOf(heap), NEW e, NEW g2, NEW h2,
         Adds(h2, g, n, kind, p, e, g2)
  PROVE  Ends(h2, g2)
<1>0. PICK d \in Nat : \E m : Descends(heap, g, d, m)  BY DEF Ends
<1>1. PICK m : Descends(heap, g, d, m)  BY <1>0
<1>2. heap \in Heaps /\ h2 \in Heaps /\ TermsOf(h2) = TermsOf(heap) /\ Grown(heap, h2)
  BY DEF Wired, Adds
<1>3. ASSUME NEW q \in TermsOf(h2) PROVE Falls(h2, g2, q, m)
  <2>1. Falls(heap, g, q, m) /\ h2[q].part = heap[q].part  BY <1>1, <1>2, GrownIs DEF Descends
  <2>2. \A b \in Unfolded(h2, g2, q) : b \in Unfolded(heap, g, q)
    BY <1>2, UnfoldedAdds
  <2> QED  BY <2>1, <2>2 DEF Falls
<1>4. Descends(h2, g2, d, m)  BY <1>1, <1>2, <1>3 DEF Descends
<1> QED  BY <1>4 DEF Ends

\* A definition of n: a term whose names unfold without n keeps its number; any
\* other falls to the body at last, so it gets a number above all of these.
LEMMA DefEnds ==
  ASSUME Wired(heap), NEW g \in MapsOf(heap), Ends(heap, g), NEW n \in Names,
         NEW p \in TermsOf(heap), Admits(g, n, "def", p), NEW e, NEW g2, NEW h2,
         Adds(h2, g, n, "def", p, e, g2)
  PROVE  Ends(h2, g2)
<1>0. PICK d \in Nat : \E m : Descends(heap, g, d, m)  BY DEF Ends
<1>1. PICK m : Descends(heap, g, d, m)  BY <1>0
<1>2. heap \in Heaps /\ h2 \in Heaps /\ TermsOf(h2) = TermsOf(heap) /\ Grown(heap, h2)
  BY DEF Wired, Adds
<1>3. PICK ns \in SUBSET (Names \ {n}) : Mentioned(heap, p) \subseteq ns /\ Unfolds(g, ns)
  BY DEF Admits
<1> DEFINE S == TermsOf(heap)
           low == {q \in S : Mentioned(heap, q) \subseteq ns}
           m2 == [q \in S |-> IF q \in low THEN m[q] ELSE m[q] + m[p] + 1]
<1>4. m \in [S -> 0 .. d]  BY <1>1 DEF Descends
<1>5. m2 \in [S -> 0 .. d + d + 1]
  <2>1. ASSUME NEW q \in S PROVE m[q] \in 0 .. d + d + 1 /\ m[q] + m[p] + 1 \in 0 .. d + d + 1
    BY <1>4
  <2> HIDE DEF low, S
  <2> QED  BY <2>1
<1>6. ASSUME NEW q \in S, NEW b \in S, m[b] < m[q], q \in low => b \in low
      PROVE  m2[b] < m2[q]
  <2>1. m[q] \in Nat /\ m[b] \in Nat /\ m[p] \in Nat  BY <1>4
  <2>2. m2[q] = (IF q \in low THEN m[q] ELSE m[q] + m[p] + 1)
        /\ m2[b] = (IF b \in low THEN m[b] ELSE m[b] + m[p] + 1)
    OBVIOUS
  <2> HIDE DEF low, m2, S
  <2> QED  BY <1>6, <2>1, <2>2
<1>7. ASSUME NEW q \in S PROVE Falls(h2, g2, q, m2)
  <2>0. Falls(heap, g, q, m) /\ h2[q].part = heap[q].part  BY <1>1, <1>2, GrownIs DEF Descends
  <2>1. ASSUME heap[q].part # 0 PROVE m2[heap[q].part] < m2[q]
    <3>1. heap[q].part \in S  BY <2>1, PartIs
    <3>2. Leaf(heap)[q] = Leaf(heap)[heap[q].part]  BY <2>1, LeafIs
    <3>3. Mentioned(heap, q) = Mentioned(heap, heap[q].part)  BY <3>2 DEF Mentioned
    <3>4. q \in low => heap[q].part \in low  BY <3>1, <3>3
    <3>5. m[heap[q].part] < m[q]  BY <2>0, <2>1 DEF Falls
    <3> HIDE DEF m2, low
    <3> QED  BY <1>6, <3>1, <3>4, <3>5
  <2>2. ASSUME NEW b \in Unfolded(h2, g2, q) PROVE m2[b] < m2[q]
    <3>1. /\ b \in S /\ heap[q].tag = "global"
          /\ heap[q].name = n => b = p
          /\ heap[q].name # n => b \in Unfolded(heap, g, q)
      BY UnfoldedAdds
    <3>2. heap[q].part = 0  BY <3>1 DEF Wired, WiredTerm
    <3>3. Mentioned(heap, q) = {heap[q].name}
      <4>1. Leaf(heap)[q] = q  BY <3>2, LeafIs
      <4> QED  BY <3>1, <4>1 DEF Mentioned
    <3>4. CASE heap[q].name = n
      <4>1. q \notin low /\ p \in low  BY <1>3, <3>3, <3>4
      <4>2. m2[q] = m[q] + m[p] + 1 /\ m2[b] = m[p]  BY <3>1, <3>4, <4>1
      <4>3. m[q] \in Nat /\ m[p] \in Nat  BY <1>4
      <4> HIDE DEF m2
      <4> QED  BY <4>2, <4>3
    <3>5. CASE heap[q].name # n
      <4>1. b \in Unfolded(heap, g, q)  BY <3>1, <3>5
      <4>2. m[b] < m[q]  BY <2>0, <4>1 DEF Falls
      <4>3. ASSUME q \in low PROVE b \in low
        <5>1. heap[q].name \in ns  BY <3>3, <4>3
        <5>2. PICK x \in EntriesOf(heap) : /\ b = heap[x].body /\ heap[x].kind = "def"
                                          /\ heap[g].map[heap[q].name] = x
          BY <4>1 DEF Unfolded
        <5>3. x # 0  BY <1>2, CellsAre
        <5>4. Mentioned(heap, b) \subseteq ns  BY <1>3, <5>1, <5>2, <5>3 DEF Unfolds
        <5> QED  BY <3>1, <5>4
      <4> HIDE DEF m2, low
      <4> QED  BY <1>6, <3>1, <4>2, <4>3
    <3> QED  BY <3>4, <3>5
  <2> HIDE DEF m2
  <2> QED  BY <2>0, <2>1, <2>2 DEF Falls
<1> HIDE DEF m2
<1>8. Descends(h2, g2, d + d + 1, m2)  BY <1>2, <1>5, <1>7 DEF Descends
<1>9. d + d + 1 \in Nat  OBVIOUS
<1> QED  BY <1>8, <1>9 DEF Ends
LEMMA AddEntryKeeps ==
  ASSUME MemoInv, NEW g \in MapsOf(heap), NEW n \in Names, NEW kind \in {"def", "rec", "axiom"},
         NEW p \in TermsOf(heap), AddEntry(g, n, kind, p), bound' = bound
  PROVE  MemoInv'
<1> DEFINE k == Len(heap)
           map == [heap[g].map EXCEPT ![n] = k + 1]
           c == Entry(kind, p)
           d == Globals(map)
           cs == <<c, d>>
<1>0. heap \in Heaps /\ Wired(heap) /\ Grounded(heap)  BY DEF MemoInv, Wired
<1>1. k \in Nat /\ DOMAIN heap = 1 .. k /\ InRow /\ mark' = mark /\ rows' = rows
  BY <1>0, HeapIs DEF AddEntry
<1>2. p \in Nat /\ heap[g].map \in [Names -> Nat]
  BY <1>0, CellsAre DEF GlobalsCell
<1>3. map \in [Names -> Nat] /\ map[n] = k + 1 /\ \A x \in Names \ {n} : map[x] = heap[g].map[x]
  BY <1>1, <1>2
<1>4. heap' = heap \o cs  BY DEF AddEntry
<1>5. c \in Cell /\ Blank(c) /\ c.cell = "entry" /\ c.kind = kind /\ c.body = p
  BY <1>2, BlankEntry
<1> HIDE DEF map
<1>6. d \in Cell /\ Blank(d) /\ d.cell = "globals" /\ d.map = map
  BY <1>3, BlankGlobals
<1> HIDE DEF c, d
<1>7. /\ cs \in Seq(Cell) /\ Len(cs) = 2 /\ cs[1] = c /\ cs[2] = d
      /\ \A i \in 1 .. Len(cs) : i = 1 \/ i = 2
      /\ Joined(heap, cs, heap')
  BY <1>4, <1>5, <1>6 DEF Joined
<1> HIDE DEF cs
<1>8. /\ heap' \in Heaps /\ Grown(heap, heap') /\ \A q \in DOMAIN heap : heap'[q] = heap[q]
      /\ \A q \in DOMAIN heap' : q \notin DOMAIN heap => q = k + 1 \/ q = k + 2
  <2>0. heap \in Heaps /\ cs \in Seq(Cell) /\ Joined(heap, cs, heap')  BY <1>0, <1>7
  <2>1. heap' \in Heaps /\ Grown(heap, heap')  BY <2>0, JoinedIs
  <2>2. \A q \in DOMAIN heap : heap'[q] = heap[q]  BY <2>0, JoinedIs
  <2>3. \A q \in DOMAIN heap' : q \notin DOMAIN heap => \E i \in 1 .. Len(cs) : q = k + i
    BY <2>0, JoinedIs
  <2>4. ASSUME NEW q \in DOMAIN heap', q \notin DOMAIN heap PROVE q = k + 1 \/ q = k + 2
    <3>1. PICK i \in 1 .. Len(cs) : q = k + i  BY <2>3, <2>4
    <3>2. i = 1 \/ i = 2  BY <1>7
    <3> QED  BY <3>1, <3>2
  <2> QED  BY <2>1, <2>2, <2>4
<1>9. k + 1 \in DOMAIN heap' /\ heap'[k + 1] = c /\ k + 2 \in DOMAIN heap' /\ heap'[k + 2] = d
  <2>1. 1 \in 1 .. Len(cs) /\ 2 \in 1 .. Len(cs)  BY <1>7
  <2> QED  BY <1>0, <1>7, <2>1, JoinedIs
<1>10. TermsOf(heap) \subseteq TermsOf(heap') /\ EntriesOf(heap) \subseteq EntriesOf(heap')
  BY <1>0, <1>8, GrownIs
<1>11. ASSUME NEW q \in DOMAIN heap', heap'[q].cell # "globals", q # k + 1
       PROVE  q \in DOMAIN heap /\ heap'[q] = heap[q]
  BY <1>6, <1>8, <1>9, <1>11
<1>12. TermsOf(heap') = TermsOf(heap)
  <2>1. ASSUME NEW q \in TermsOf(heap') PROVE q \in TermsOf(heap)
    <3>1. q \in DOMAIN heap' /\ heap'[q].cell = "term"  BY <1>8, CellsAre
    <3>2. q # k + 1  BY <1>5, <1>9, <3>1
    <3>3. q \in DOMAIN heap /\ heap'[q] = heap[q]  BY <1>11, <3>1, <3>2
    <3> QED  BY <3>1, <3>3 DEF TermsOf, Cells
  <2> QED  BY <1>10, <2>1
<1>13. \A q \in EntriesOf(heap') : q \in EntriesOf(heap) \cup {k + 1}
  <2> SUFFICES ASSUME NEW q \in EntriesOf(heap'), q # k + 1 PROVE q \in EntriesOf(heap)
    OBVIOUS
  <2>1. q \in DOMAIN heap' /\ heap'[q].cell = "entry"  BY <1>8, CellsAre
  <2>2. q \in DOMAIN heap /\ heap'[q] = heap[q]  BY <1>11, <2>1
  <2> QED  BY <2>1, <2>2 DEF EntriesOf, Cells
<1>14. k + 1 \notin EntriesOf(heap)  BY <1>0, <1>1, CellsAre
<1>15. k + 1 \in EntriesOf(heap')  BY <1>5, <1>9 DEF EntriesOf, Cells
<1>16. Adds(heap', g, n, kind, p, k + 1, k + 2)
  BY <1>5, <1>6, <1>8, <1>9, <1>12, <1>13, <1>14 DEF Adds, map
<1>17. Ends(heap, g)  BY DEF MemoInv, Grounded
<1>18. Ends(heap', k + 2)
  <2> DEFINE e == k + 1
             g2 == k + 2
  <2>1. Adds(heap', g, n, kind, p, e, g2)  BY <1>16
  <2> HIDE DEF e, g2
  <2>2. CASE kind = "def"
    <3>1. Admits(g, n, "def", p) /\ Adds(heap', g, n, "def", p, e, g2)
      BY <2>1, <2>2 DEF AddEntry
    <3>2. Ends(heap', g2)  BY <1>0, <1>17, <3>1, DefEnds
    <3> QED  BY <3>2 DEF g2
  <2>3. CASE kind # "def"
    <3>1. Ends(heap', g2)  BY <1>0, <1>17, <2>1, <2>3, StuckEnds
    <3> QED  BY <3>1 DEF g2
  <2> QED  BY <2>2, <2>3
<1>19. WiredCell(heap', k + 1)  BY <1>5, <1>9, <1>10 DEF WiredCell
<1>20. WiredCell(heap', k + 2)
  <2>1. ASSUME NEW x \in Names PROVE map[x] \in EntriesOf(heap') \cup {0}
    <3>1. heap[g].map[x] \in EntriesOf(heap) \cup {0}  BY <1>0 DEF Wired
    <3> QED  BY <1>3, <1>10, <1>15, <3>1
  <2> QED  BY <1>6, <1>9, <2>1 DEF WiredCell
<1>21. \A i \in 1 .. Len(cs) : WiredCell(heap', k + i) /\ Blank(cs[i])
  BY <1>5, <1>6, <1>7, <1>19, <1>20
<1>22. Wired(heap')  BY <1>0, <1>7, <1>21, JoinedWired
<1>23. NewParts(heap, heap')  BY <1>12 DEF NewParts
<1>24. Grounded(heap')
  <2>1. \A i \in 1 .. Len(cs) : cs[i].cell = "globals" => Ends(heap', k + i)
    BY <1>5, <1>7, <1>18
  <2> QED  BY <1>0, <1>7, <1>22, <1>23, <2>1, JoinedGrounded
<1> QED  BY <1>1, <1>7, <1>21, <1>22, <1>24, RowAdds

LEMMA ReachedKeeps ==
  ASSUME MemoInv, InRow, mark' = mark, rows' = rows, bound' = bound, Reached(heap, heap')
  PROVE  MemoInv'
<1>1. heap \in Heaps /\ Wired(heap) /\ Grounded(heap) /\ Bounds # {}
  BY DEF MemoInv, Wired, Framed
<1>2. /\ heap' \in Heaps /\ Grown(heap, heap') /\ Right(heap, heap')
      /\ TermsOf(heap') = TermsOf(heap) /\ MapsOf(heap') = MapsOf(heap) /\ Wired(heap')
  BY <1>1, ReachedIs, ReachedWired DEF Reached
<1>3. \A p \in 1 .. mark : heap'[p] = heap[p]
  <2> SUFFICES ASSUME NEW p \in 1 .. mark PROVE heap'[p] = heap[p]  OBVIOUS
  <2>1. mark \in Nat /\ mark <= Len(heap) /\ heap[p] = BaseCell(p)
    BY DEF MemoInv, Framed, Based
  <2>2. p \in DOMAIN heap  BY <1>1, <2>1, HeapIs
  <2>3. SameCell(heap[p], heap'[p]) /\ heap'[p] \in Cell  BY <1>1, <1>2, <2>2, GrownIs, HeapIs
  <2>4. CASE p = 1  BY <2>1, <2>3, <2>4 DEF BaseCell, StaticAuto, Term, SameCell
  <2>5. CASE p # 1
    <3>1. heap[p] = Path /\ heap'[p].cell = "path"  BY <2>1, <2>3, <2>5 DEF BaseCell, Path, SameCell
    <3> QED  BY <2>3, <3>1, CellIs
  <2> QED  BY <2>4, <2>5
<1>4. Framed'  BY <1>2, <1>3, FrameKept
<1>5. NewParts(heap, heap')  BY <1>2 DEF NewParts
<1>6. ASSUME NEW g \in MapsOf(heap') PROVE Ends(heap', g)
  <2>1. g \in MapsOf(heap) /\ Ends(heap, g)  BY <1>1, <1>2 DEF Grounded
  <2> QED  BY <1>1, <1>2, <1>5, <2>1, EndsGrows
<1>7. Grounded(heap')  BY <1>6 DEF Grounded
<1>8. Right(heap', heap')  BY <1>1, <1>2, <1>7, RightGrows
<1> QED  BY <1>2, <1>4, <1>7, <1>8 DEF MemoInv

LEMMA EvaluateKeeps ==
  ASSUME MemoInv, NEW g \in MapsOf(heap), NEW env \in Envs, NEW p \in TermsOf(heap),
         Evaluate(g, env, p), bound' = bound
  PROVE  MemoInv'
<1>1. Wired(heap) /\ Right(heap, heap) /\ Ends(heap, g) /\ Bounds # {}
  BY DEF MemoInv, Framed, Grounded
<1>2. Answers(heap, g, p, env, EvalEntry(g, env, p))  BY <1>1, EntryRight
<1>3. Reached(heap, heap') /\ InRow /\ mark' = mark /\ rows' = rows
  BY <1>2 DEF Answers, Evaluate
<1> QED  BY <1>3, ReachedKeeps

LEMMA ForceKeeps ==
  ASSUME MemoInv, NEW p \in Cells(heap, "head"), NEW g \in MapsOf(heap), ForceHead(p, g), bound' = bound
  PROVE  MemoInv'
<1> DEFINE seen == FindSeen(heap, heap[p].seen, heap[p].name, g)
           c == [heap[p] EXCEPT !.seen = seen]
<1>1. /\ heap \in Heaps /\ Wired(heap) /\ Right(heap, heap) /\ Reached(heap, heap)
      /\ InRow /\ mark' = mark /\ rows' = rows
  BY SelfReached DEF MemoInv, Wired, ForceHead
<1>2. p \in DOMAIN heap /\ heap[p].cell = "head" /\ heap[p] \in HeadCell /\ CellOK(heap, p, heap[p])
  BY <1>1, HeapIs, CellIs DEF Cells, Right
<1>3. heap[p].name \in Names /\ heap[p].seen \in Seen /\ SeenOK(heap, heap[p].seen, heap[p].name)
  BY <1>2 DEF HeadCell, CellOK
<1>4. seen \in Seen /\ SeenOK(heap, seen, heap[p].name)
  <2> DEFINE a == heap[p].seen
             n == heap[p].name
  <2>1. a \in Seen /\ n \in Names /\ SeenOK(heap, a, n)  BY <1>3
  <2> HIDE DEF a, n
  <2>2. FindSeen(heap, a, n, g) \in Seen /\ SeenOK(heap, FindSeen(heap, a, n, g), n)
    BY <1>1, <2>1, FindSeenRight
  <2> QED  BY <2>2 DEF a, n
<1>5. heap' = Put(heap, p, c)  BY DEF ForceHead, Put
<1> HIDE DEF seen
<1>6. c \in HeadCell /\ c.cell = "head" /\ c.name = heap[p].name /\ c.seen = seen
  BY <1>2, <1>4 DEF HeadCell
<1> HIDE DEF c
<1>7. SameCell(heap[p], c) /\ CellOK(heap, p, c) /\ c \in Cell
  BY <1>2, <1>4, <1>6 DEF SameCell, CellOK, Cell
<1>8. Reached(heap, Put(heap, p, c))  BY <1>1, <1>2, <1>7, PutReached
<1> QED  BY <1>1, <1>5, <1>8, ReachedKeeps
-----------------------------------------------------------------------------
(***************************************************************************)
(* Between two rows.                                                       *)
(***************************************************************************)
LEMMA BaseCells ==
  /\ StaticAuto \in Cell /\ StaticAuto.cell = "term" /\ StaticAuto.tag = "auto"
  /\ StaticAuto.part = 0 /\ StaticAuto.name = "nat" /\ Blank(StaticAuto)
  /\ Path \in Cell /\ Path.cell = "path"
<1>1. "nat" \in Names  BY MemoConstants
<1> QED  BY <1>1, BlankTerm DEF StaticAuto, Path, Cell

LEMMA BaseRight ==
  ASSUME NEW h \in Heaps, Based(h, Len(h))
  PROVE  Wired(h) /\ Grounded(h) /\ Right(h, h)
<1>1. \A p \in DOMAIN h : h[p] = BaseCell(p)  BY HeapIs DEF Based
<1>2. TermsOf(h) \subseteq {1} /\ EntriesOf(h) = {} /\ MapsOf(h) = {}
      /\ \A p \in TermsOf(h) : h[p] = StaticAuto
  BY <1>1, BaseCells DEF BaseCell, TermsOf, EntriesOf, MapsOf, Cells
<1>3. Wired(h)  BY <1>2, BaseCells DEF Wired, WiredTerm
<1>4. Grounded(h)  BY <1>2 DEF Grounded
<1>5. \A p \in DOMAIN h : h[p] = StaticAuto \/ h[p] = Path  BY <1>1 DEF BaseCell
<1>6. Right(h, h)  BY <1>5, BaseCells DEF Right, CellOK, Blank, SeenOK
<1> QED  BY <1>3, <1>4, <1>6

LEMMA MemoInitInv == MemoInit => MemoInv
<1> SUFFICES ASSUME MemoInit PROVE MemoInv  OBVIOUS
<1>1. heap = <<StaticAuto>> /\ mark = 0 /\ rows = 0 /\ bound \in Bounds  BY DEF MemoInit
<1> DEFINE c == StaticAuto
<1>2. c \in Cell  BY BaseCells
<1> HIDE DEF c
<1>3. heap = <<c>>  BY <1>1 DEF c
<1>4. heap \in Heaps /\ Len(heap) = 1 /\ heap[1] = c  BY <1>2, <1>3 DEF Heaps
<1>5. Based(heap, Len(heap))
  <2>1. \A p \in 1 .. Len(heap) : p = 1  BY <1>4
  <2> QED  BY <1>4, <2>1 DEF Based, BaseCell, c
<1>6. Framed  BY <1>1, <1>4, <1>5 DEF Framed, InRow
<1> QED  BY <1>4, <1>5, <1>6, BaseRight DEF MemoInv

LEMMA WalkKeeps ==
  ASSUME MemoInv, WalkOn, bound' = bound
  PROVE  MemoInv'
<1>1. /\ heap \in Heaps /\ mark = 0 /\ mark' = mark /\ rows' = rows /\ heap' = Append(heap, Path)
      /\ Based(heap, Len(heap)) /\ 1 <= Len(heap) /\ rows \in Nat /\ bound \in Bounds
  BY DEF MemoInv, Wired, WalkOn, Framed, InRow
<1> DEFINE c == Path
<1>2. c \in Cell  BY BaseCells
<1> HIDE DEF c
<1>3. heap' = Append(heap, c)  BY <1>1 DEF c
<1>4. /\ heap' \in Heaps /\ Len(heap) \in Nat /\ Len(heap') = Len(heap) + 1
      /\ \A p \in 1 .. Len(heap) : heap'[p] = heap[p]
      /\ heap'[Len(heap) + 1] = c
  BY <1>1, <1>2, <1>3 DEF Heaps
<1>5. Based(heap', Len(heap'))
  <2> SUFFICES ASSUME NEW p \in 1 .. Len(heap') PROVE heap'[p] = BaseCell(p)  BY DEF Based
  <2>1. CASE p \in 1 .. Len(heap)  BY <1>1, <1>4, <2>1 DEF Based
  <2>2. CASE p \notin 1 .. Len(heap)
    <3>1. p = Len(heap) + 1 /\ p # 1  BY <1>1, <1>4, <2>2
    <3> QED  BY <1>4, <3>1 DEF BaseCell, c
  <2> QED  BY <2>1, <2>2
<1>6. /\ mark' \in Nat /\ rows' \in Nat /\ bound' \in Bounds /\ mark' <= Len(heap') /\ 1 <= Len(heap')
      /\ ~InRow' /\ Based(heap', Len(heap'))
  BY <1>1, <1>4, <1>5 DEF InRow
<1>7. Framed'  BY <1>6 DEF Framed
<1>8. Wired(heap') /\ Grounded(heap') /\ Right(heap', heap')  BY <1>4, <1>5, BaseRight
<1> QED  BY <1>7, <1>8 DEF MemoInv

LEMMA RowEndKeeps ==
  ASSUME MemoInv, RowEnd, bound' = bound
  PROVE  MemoInv'
<1>1. /\ heap \in Heaps /\ mark \in Nat /\ 1 <= mark /\ mark <= Len(heap) /\ mark' = 0
      /\ rows' = rows /\ heap' = SubSeq(heap, 1, mark) /\ Based(heap, mark)
      /\ rows \in Nat /\ bound \in Bounds /\ Len(heap) \in Nat
  BY HeapIs DEF MemoInv, Wired, RowEnd, Framed, InRow
<1>2. /\ heap' \in Heaps /\ Len(heap') = mark
      /\ \A p \in 1 .. mark : heap'[p] = heap[p]
  <2> DEFINE C == Cell
  <2>1. heap \in Seq(C)  BY <1>1 DEF Heaps
  <2> HIDE DEF C
  <2>2. SubSeq(heap, 1, mark) \in Seq(C) /\ Len(SubSeq(heap, 1, mark)) = mark
        /\ \A p \in 1 .. mark : SubSeq(heap, 1, mark)[p] = heap[p]
    BY <1>1, <2>1
  <2> QED  BY <1>1, <2>2 DEF Heaps, C
<1>3. Based(heap', Len(heap'))  BY <1>1, <1>2 DEF Based
<1>4. /\ mark' \in Nat /\ rows' \in Nat /\ bound' \in Bounds /\ mark' <= Len(heap') /\ 1 <= Len(heap')
      /\ ~InRow' /\ Based(heap', Len(heap'))
  BY <1>1, <1>2, <1>3 DEF InRow
<1>5. Framed'  BY <1>4 DEF Framed
<1>6. Wired(heap') /\ Grounded(heap') /\ Right(heap', heap')  BY <1>2, <1>3, BaseRight
<1> QED  BY <1>5, <1>6 DEF MemoInv

LEMMA RowBeginKeeps ==
  ASSUME MemoInv, RowBegin, bound' = bound
  PROVE  MemoInv'
<1> DEFINE k == Len(heap)
           map == [Unbound EXCEPT !["nat"] = k + 2]
           u == Term("univ", "nat", 0)
           a == Entry("axiom", k + 1)
           d == Globals(map)
           cs == <<u, a, d>>
<1>0. /\ heap \in Heaps /\ Wired(heap) /\ Grounded(heap) /\ Right(heap, heap) /\ Bounds # {}
      /\ bound \in Bounds /\ rows \in Nat
  BY DEF MemoInv, Wired, Framed
<1>1. /\ k \in Nat /\ DOMAIN heap = 1 .. k /\ 1 <= k /\ Based(heap, k) /\ mark' = k
      /\ rows' = rows + 1 /\ heap' = heap \o cs
  BY <1>0, HeapIs DEF MemoInv, Framed, RowBegin, InRow
<1>2. /\ map \in [Names -> Nat] /\ map["nat"] = k + 2 /\ \A x \in Names \ {"nat"} : map[x] = 0
      /\ "nat" \in Names
  BY <1>1, MemoConstants DEF Unbound
<1> HIDE DEF map
<1>3. u \in Cell /\ Blank(u) /\ u.cell = "term" /\ u.tag = "univ" /\ u.part = 0
  BY <1>2, BlankTerm
<1>4. a \in Cell /\ Blank(a) /\ a.cell = "entry" /\ a.kind = "axiom" /\ a.body = k + 1
  BY <1>1, BlankEntry
<1>5. d \in Cell /\ Blank(d) /\ d.cell = "globals" /\ d.map = map
  BY <1>2, BlankGlobals
<1> HIDE DEF u, a, d
<1>6. /\ cs \in Seq(Cell) /\ Len(cs) = 3 /\ cs[1] = u /\ cs[2] = a /\ cs[3] = d
      /\ \A i \in 1 .. Len(cs) : i = 1 \/ i = 2 \/ i = 3
      /\ Joined(heap, cs, heap')
  BY <1>1, <1>3, <1>4, <1>5 DEF Joined
<1> HIDE DEF cs
<1>7. /\ heap' \in Heaps /\ Grown(heap, heap') /\ Len(heap') = k + 3
  <2>1. heap \in Heaps /\ cs \in Seq(Cell) /\ Joined(heap, cs, heap')  BY <1>0, <1>6
  <2>2. heap' \in Heaps /\ Grown(heap, heap')  BY <2>1, JoinedIs
  <2>3. Len(heap') = Len(heap) + Len(cs)  BY <2>1, JoinedIs
  <2>4. Len(heap') = k + 3  BY <1>6, <2>3
  <2> QED  BY <2>2, <2>4
<1>8. \A q \in DOMAIN heap : heap'[q] = heap[q]  BY <1>0, <1>6, JoinedIs
<1>9. \A q \in DOMAIN heap' : q \notin DOMAIN heap => q = k + 1 \/ q = k + 2 \/ q = k + 3
  <2>1. \A q \in DOMAIN heap' : q \notin DOMAIN heap => \E i \in 1 .. Len(cs) : q = k + i
    BY <1>0, <1>6, JoinedIs
  <2>2. ASSUME NEW q \in DOMAIN heap', q \notin DOMAIN heap
        PROVE  q = k + 1 \/ q = k + 2 \/ q = k + 3
    <3>1. PICK i \in 1 .. Len(cs) : q = k + i  BY <2>1, <2>2
    <3>2. i = 1 \/ i = 2 \/ i = 3  BY <1>6
    <3> QED  BY <3>1, <3>2
  <2> QED  BY <2>2
<1>10. /\ k + 1 \in DOMAIN heap' /\ heap'[k + 1] = u
       /\ k + 2 \in DOMAIN heap' /\ heap'[k + 2] = a
       /\ k + 3 \in DOMAIN heap' /\ heap'[k + 3] = d
  <2>1. 1 \in 1 .. Len(cs) /\ 2 \in 1 .. Len(cs) /\ 3 \in 1 .. Len(cs)  BY <1>6
  <2>2. \A i \in 1 .. Len(cs) : k + i \in DOMAIN heap' /\ heap'[k + i] = cs[i]
    BY <1>0, <1>6, JoinedIs
  <2>3. k + 1 \in DOMAIN heap' /\ heap'[k + 1] = u  BY <1>6, <2>1, <2>2
  <2>4. k + 2 \in DOMAIN heap' /\ heap'[k + 2] = a  BY <1>6, <2>1, <2>2
  <2>5. k + 3 \in DOMAIN heap' /\ heap'[k + 3] = d  BY <1>6, <2>1, <2>2
  <2> QED  BY <2>3, <2>4, <2>5
<1>11. k + 1 \in TermsOf(heap') /\ k + 2 \in EntriesOf(heap')
  BY <1>3, <1>4, <1>10 DEF TermsOf, EntriesOf, Cells
<1>12. WiredCell(heap', k + 1)  BY <1>3, <1>10 DEF WiredCell, WiredTerm
<1>13. WiredCell(heap', k + 2)  BY <1>4, <1>10, <1>11 DEF WiredCell
<1>14. WiredCell(heap', k + 3)  BY <1>2, <1>5, <1>10, <1>11 DEF WiredCell
<1>15. \A i \in 1 .. Len(cs) : WiredCell(heap', k + i) /\ Blank(cs[i])
  BY <1>3, <1>4, <1>5, <1>6, <1>12, <1>13, <1>14
<1>16. Wired(heap')  BY <1>0, <1>6, <1>15, JoinedWired
<1>17. NewParts(heap, heap')
  <2> SUFFICES ASSUME NEW p \in TermsOf(heap'), p \notin TermsOf(heap) PROVE heap'[p].part = 0
    BY DEF NewParts
  <2>1. p \in DOMAIN heap' /\ heap'[p].cell = "term"  BY <1>7, CellsAre
  <2>2. p \notin DOMAIN heap  BY <1>8, <2>1 DEF TermsOf, Cells
  <2> QED  BY <1>3, <1>4, <1>5, <1>9, <1>10, <2>1, <2>2
<1>18. Ends(heap', k + 3)
  <2> DEFINE S == TermsOf(heap')
             m == [q \in S |-> q]
  <2>1. m \in [S -> 0 .. k + 3]
    <3> HIDE DEF k
    <3>1. DOMAIN heap' = 1 .. Len(heap')  BY <1>7, HeapIs
    <3>2. S \subseteq DOMAIN heap'  BY DEF TermsOf, Cells
    <3>3. S \subseteq 1 .. k + 3  BY <1>7, <3>1, <3>2
    <3>4. \A q \in S : q \in 0 .. k + 3  BY <1>1, <3>3
    <3> QED  BY <3>4
  <2>2. ASSUME NEW q \in S PROVE Unfolded(heap', k + 3, q) = {}
    <3> SUFFICES ASSUME NEW b \in Unfolded(heap', k + 3, q) PROVE FALSE  OBVIOUS
    <3>1. PICK e \in EntriesOf(heap') : heap'[k + 3].map[heap'[q].name] = e /\ heap'[e].kind = "def"
      BY DEF Unfolded
    <3>2. heap'[q].name \in Names  BY <1>16, TagIs
    <3>3. e # 0  BY <1>7, CellsAre
    <3>4. e = k + 2  BY <1>2, <1>5, <1>10, <3>1, <3>2, <3>3
    <3> QED  BY <1>4, <1>10, <3>1, <3>4
  <2>3. ASSUME NEW q \in S PROVE Falls(heap', k + 3, q, m)
    <3>1. heap'[q].part # 0 => heap'[q].part \in S /\ heap'[q].part < q  BY <1>16, PartIs
    <3>2. heap'[q].part # 0 => m[heap'[q].part] < m[q]  BY <3>1
    <3> HIDE DEF m
    <3> QED  BY <2>2, <3>2 DEF Falls
  <2> HIDE DEF m
  <2>4. Descends(heap', k + 3, k + 3, m)  BY <2>1, <2>3 DEF Descends
  <2>5. k + 3 \in Nat  BY <1>1
  <2> QED  BY <2>4, <2>5 DEF Ends
<1>19. Grounded(heap')
  <2>1. \A i \in 1 .. Len(cs) : cs[i].cell = "globals" => Ends(heap', k + i)
    BY <1>3, <1>4, <1>6, <1>18
  <2> QED  BY <1>0, <1>6, <1>16, <1>17, <2>1, JoinedGrounded
<1>20. Right(heap, heap')  BY <1>0, <1>6, <1>15, JoinedRight
<1>21. Right(heap', heap')  BY <1>0, <1>7, <1>16, <1>19, <1>20, RightGrows
<1>22. Based(heap', k)  BY <1>1, <1>8 DEF Based
<1>23. /\ mark' \in Nat /\ rows' \in Nat /\ bound' \in Bounds /\ mark' <= Len(heap') /\ 1 <= Len(heap')
       /\ InRow' /\ 1 <= mark' /\ mark' + 1 \in TermsOf(heap') /\ Based(heap', mark')
  BY <1>0, <1>1, <1>7, <1>11, <1>22 DEF InRow
<1>24. Framed'  BY <1>23 DEF Framed, TermsOf
<1> QED  BY <1>16, <1>19, <1>21, <1>24 DEF MemoInv

-----------------------------------------------------------------------------
LEMMA MemoNextInv == MemoInv /\ [MemoNext]_memovars => MemoInv'
<1> SUFFICES ASSUME MemoInv, [MemoNext]_memovars PROVE MemoInv'  OBVIOUS
<1>0. /\ heap \in Heaps /\ Wired(heap) /\ Terms \subseteq TermsOf(heap)
      /\ RowCells("globals") \subseteq MapsOf(heap) /\ RowCells("head") \subseteq Cells(heap, "head")
      /\ EnvsOf(bound) \subseteq Envs /\ bound \in Bounds /\ "nat" \in Names
      /\ bound.tags \subseteq {"lan", "node"} /\ bound.kinds \subseteq {"def", "rec"}
  BY RowIs, MemoConstants DEF MemoInv, Wired, Framed, RowCells
<1>1. CASE UNCHANGED memovars
  <2>1. heap' = heap /\ mark' = mark /\ rows' = rows /\ bound' = bound  BY <1>1 DEF memovars
  <2>2. Framed'  BY <2>1 DEF MemoInv, Framed, InRow, TermsOf
  <2> QED  BY <2>1, <2>2 DEF MemoInv
<1>2. CASE WalkOn /\ bound' = bound  BY <1>2, WalkKeeps
<1>3. CASE RowBegin /\ bound' = bound  BY <1>3, RowBeginKeeps
<1>4. CASE RowEnd /\ bound' = bound  BY <1>4, RowEndKeeps
<1>5. CASE NewTerm("var", "nat", 0) /\ bound' = bound
  <2>1. Makes("var", 0)  BY DEF Makes
  <2> QED  BY <1>0, <1>5, <2>1, NewTermKeeps
<1>6. ASSUME NEW n \in Names, NewTerm("global", n, 0), bound' = bound PROVE MemoInv'
  <2>1. Makes("global", 0)  BY DEF Makes
  <2> QED  BY <1>6, <2>1, NewTermKeeps
<1>7. ASSUME NEW p \in Terms, NEW tag \in bound.tags, NewTerm(tag, heap[p].name, p), bound' = bound
      PROVE  MemoInv'
  <2>1. Makes(tag, p)  BY <1>0 DEF Makes
  <2> DEFINE n == heap[p].name
  <2>2. n \in Names /\ NewTerm(tag, n, p)  BY <1>0, <1>7, TagIs
  <2> HIDE DEF n
  <2> QED  BY <1>7, <2>1, <2>2, NewTermKeeps
<1>8. ASSUME NEW g \in RowCells("globals"), NEW n \in Names, NEW p \in Terms, NEW kind \in bound.kinds,
             AddEntry(g, n, kind, p), bound' = bound
      PROVE  MemoInv'
  BY <1>0, <1>8, AddEntryKeeps
<1>9. ASSUME NEW g \in RowCells("globals"), NEW n \in Names, AddEntry(g, n, "axiom", mark + 1),
             bound' = bound
      PROVE  MemoInv'
  <2> DEFINE p == mark + 1
  <2>1. p \in TermsOf(heap) /\ AddEntry(g, n, "axiom", p)  BY <1>9 DEF AddEntry, MemoInv, Framed
  <2> HIDE DEF p
  <2> QED  BY <1>0, <1>9, <2>1, AddEntryKeeps
<1>10. ASSUME NEW g \in RowCells("globals"), NEW p \in Terms, NEW env \in EnvsOf(bound),
              Evaluate(g, env, p), bound' = bound
       PROVE  MemoInv'
  BY <1>0, <1>10, EvaluateKeeps
<1>11. ASSUME NEW p \in RowCells("head"), NEW g \in RowCells("globals"), ForceHead(p, g),
              bound' = bound
       PROVE  MemoInv'
  BY <1>0, <1>11, ForceKeeps
<1>12. CASE MemoNext
  <2>1. Step /\ bound' = bound  BY <1>12 DEF MemoNext
  <2> QED
    BY <2>1, <1>2, <1>3, <1>4, <1>5, <1>6, <1>7, <1>8, <1>9, <1>10, <1>11 DEF Step
<1> QED  BY <1>1, <1>12

\* The cells stay well made, evaluation of every term ends under every map of
\* the row, and each cache is right under the map of its key (kernel_eval.c
\* 130-209), for any names, environments, heaps and rows.
THEOREM AlwaysMemoInv == MemoSpec => []MemoInv
<1>1. MemoInit => MemoInv  BY MemoInitInv
<1>2. MemoInv /\ [MemoNext]_memovars => MemoInv'  BY MemoNextInv
<1> QED  BY <1>1, <1>2, PTL DEF MemoSpec

\* eval_eval answers from its caches what an evaluation without them answers
\* (kernel_eval.c 155-158 and 173-182).
THEOREM AlwaysAnswersFresh == MemoSpec => []AnswersFresh
<1>1. MemoInv => AnswersFresh  BY InvAnswers
<1> QED  BY <1>1, AlwaysMemoInv, PTL

\* A cached entry or value is that of the name, the node or the body in the map
\* of its key (kernel_eval.c 135-142, 163-170, 203-209).
THEOREM AlwaysCachesRight == MemoSpec => []CachesRight
<1>1. MemoInv => CachesRight  BY InvCaches
<1> QED  BY <1>1, AlwaysMemoInv, PTL
=============================================================================

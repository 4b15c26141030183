--------------------------- MODULE ProgramProofs ---------------------------
(***************************************************************************)
(* Proofs about the admission of declarations of module Program, for any   *)
(* set of names, any bounds and any number of declarations.                *)
(***************************************************************************)
EXTENDS Program, TLAPS, SequenceTheorems, FunctionTheorems, FiniteSetTheorems,
        WellFoundedInduction

\* Functions from some part of S.
Partial(S, T) == UNION {[D -> T] : D \in SUBSET S}

Refs ==
  [kind : {"entry", "family"}, name : Name] \cup [kind : {"ctor"}, name : Name, owner : Name]
Seens == Partial(Refs, Nat)

Entries ==
  [kind : {"prim", "axiom", "def"}, ty : SUBSET Refs, body : SUBSET Refs, rec : BOOLEAN,
   at : Nat, seen : Seens]
Families ==
  [status : {"provisional", "complete"}, ty : SUBSET Refs, ctors : Partial(Name, SUBSET Refs),
   at : Nat, seen : Seens]
Globals == [entries : Partial(Name, Entries), families : Partial(Name, Families)]
Rows == Seq(Name \X Entries)

Postulating ==
  [phase : {"postulates"}, group : Seq(Name), g : Globals, rows : Rows, ty : Seq(SUBSET Refs)]
Admitting ==
  [phase : {"admit"}, group : Seq(Name), ty : Seq(SUBSET Refs), body : Seq(SUBSET Refs),
   rows : Rows, calls : SUBSET Nat, g : Globals]
Completing ==
  [phase : {"declare", "define"}, group : Seq(Name), ctors : Seq(SUBSET Name), g : Globals,
   next : Nat]

(***************************************************************************)
(* The invariant of every source.  Shape says what the group in work is    *)
(* made of, and how its globals differ from those it began with.           *)
(***************************************************************************)
TypeOK ==
  /\ globals \in Globals /\ rows \in Rows
  /\ work \in {Idle} \cup Postulating \cup Admitting \cup Completing
  /\ status \in {"running", "done", "failed"} /\ count \in Nat \ {0}

\* What was admitted comes from an earlier declaration, and is complete.
Earlier ==
  /\ \A n \in DOMAIN globals.entries : globals.entries[n].at < count
  /\ \A f \in DOMAIN globals.families :
       globals.families[f].at < count /\ globals.families[f].status = "complete"

PostulatesShape ==
  work.phase = "postulates" =>
    /\ Len(work.group) > 0 /\ Len(work.ty) = Len(work.group)
    /\ Len(work.rows) <= Len(work.group)
    /\ \A i \in 1 .. Len(work.rows) :
         work.rows[i][1] = work.group[i] /\ work.rows[i][2].at = count

AdmitShape ==
  work.phase = "admit" =>
    /\ Len(work.group) > 0
    /\ Len(work.ty) = Len(work.group) /\ Len(work.body) = Len(work.group)
    /\ work.calls = Calls(work.group, work.body)
    /\ Len(work.rows) <= Len(work.group)
    /\ \A i \in 1 .. Len(work.rows) :
         /\ work.rows[i][1] = work.group[i]
         /\ work.rows[i][2].kind = "def" /\ work.rows[i][2].at = count
         /\ work.rows[i][2].body = work.body[i]
         /\ work.rows[i][2].rec = (i \in work.calls)

\* How many families of the group are declared, and how many are complete.
Declared == IF work.phase = "declare" THEN work.next - 1 ELSE Len(work.group)
Completed == IF work.phase = "declare" THEN 0 ELSE work.next - 1

FamiliesFresh ==
  work.phase \in {"declare", "define"} =>
    /\ Len(work.group) > 0 /\ Len(work.ctors) = Len(work.group)
    /\ work.next \in 1 .. Len(work.group) + 1
    /\ \A i \in 1 .. Len(work.group) : \A c \in work.ctors[i] :
         /\ c \notin DOMAIN globals.families /\ c \notin Names(work.group)
         /\ \A f \in DOMAIN globals.families : c \notin DOMAIN globals.families[f].ctors
    /\ \A i, j \in 1 .. Len(work.group) : i # j => work.ctors[i] \cap work.ctors[j] = {}

FamiliesShape ==
  work.phase \in {"declare", "define"} =>
    /\ work.g.entries = globals.entries
    /\ DOMAIN work.g.families =
         DOMAIN globals.families \cup {work.group[i] : i \in 1 .. Declared}
    /\ \A f \in DOMAIN globals.families : work.g.families[f] = globals.families[f]
    /\ \A i \in 1 .. Declared :
         /\ work.group[i] \notin DOMAIN globals.families
         /\ \A j \in 1 .. Declared : work.group[i] = work.group[j] => i = j
         /\ work.g.families[work.group[i]].at = count
         /\ i <= Completed => /\ work.g.families[work.group[i]].status = "complete"
                              /\ DOMAIN work.g.families[work.group[i]].ctors = work.ctors[i]
         /\ i > Completed => DOMAIN work.g.families[work.group[i]].ctors = {}

Shape ==
  /\ TypeOK /\ Earlier /\ CtorsUnique
  /\ PostulatesShape /\ AdmitShape /\ FamiliesFresh /\ FamiliesShape

-----------------------------------------------------------------------------
(***************************************************************************)
(* Facts about naturals, maps and sequences.                               *)
(***************************************************************************)

LEMMA SmallestOf ==
  ASSUME NEW S \in SUBSET Nat, S # {}
  PROVE  \E m \in S : \A k \in S : m <= k
<1> DEFINE R == {ss \in Nat \X Nat : ss[1] < ss[2]}
<1>1. IsWellFoundedOn(R, Nat)
  BY NatLessThanWellFounded DEF OpToRel
<1> HIDE DEF R
<1>2. PICK m \in S : \A k \in S : ~ (<<k, m>> \in R)
  BY <1>1, WFMin
<1>3. \A k, n \in Nat : <<k, n>> \in R <=> k < n
  BY DEF R
<1>4. ASSUME NEW k \in S PROVE m <= k
  <2>1. k \in Nat /\ m \in Nat
    OBVIOUS
  <2>2. ~(k < m)
    BY <1>2, <1>3, <2>1
  <2> QED
    BY <2>1, <2>2
<1> QED
  BY <1>4

LEMMA PartialDef ==
  ASSUME NEW S, NEW T, NEW f
  PROVE  f \in Partial(S, T) <=> DOMAIN f \subseteq S /\ f \in [DOMAIN f -> T]
  BY DEF Partial

LEMMA EmptyPartial ==
  ASSUME NEW S, NEW T
  PROVE  << >> \in Partial(S, T) /\ DOMAIN << >> = {}
<1>1. DOMAIN << >> = {}
  OBVIOUS
<1>2. << >> \in [{} -> T]
  OBVIOUS
<1> QED
  BY <1>1, <1>2, PartialDef

LEMMA PutTyped ==
  ASSUME NEW S, NEW T, NEW map \in Partial(S, T), NEW key \in S, NEW value \in T
  PROVE  Put(map, key, value) \in Partial(S, T)
  BY PartialDef DEF Put

\* The last row of a name is one of its rows.
LEMMA LastRowIs ==
  ASSUME NEW rs \in Rows, NEW n \in RowNames(rs)
  PROVE  LastRow(n, rs) \in 1 .. Len(rs) /\ rs[LastRow(n, rs)][1] = n
<1> DEFINE above == {Len(rs) - i : i \in {j \in 1 .. Len(rs) : rs[j][1] = n}}
<1>1. DOMAIN rs = 1 .. Len(rs) /\ Len(rs) \in Nat
  BY DEF Rows
<1>2. above \in SUBSET Nat /\ above # {}
  BY <1>1 DEF RowNames
<1>3. PICK m \in above : \A k \in above : m <= k
  BY <1>2, SmallestOf
<1>4. PICK i \in 1 .. Len(rs) : rs[i][1] = n /\ m = Len(rs) - i
  BY <1>3
<1>5. \A j \in DOMAIN rs : rs[j][1] = n => j <= i
  <2> SUFFICES ASSUME NEW j \in DOMAIN rs, rs[j][1] = n PROVE j <= i
    OBVIOUS
  <2>1. m <= Len(rs) - j
    BY <1>1, <1>3
  <2> QED
    BY <2>1, <1>1, <1>4
<1> QED
  BY <1>1, <1>4, <1>5 DEF LastRow

-----------------------------------------------------------------------------
(***************************************************************************)
(* The operations on globals.                                              *)
(***************************************************************************)

LEMMA GlobalsParts ==
  ASSUME NEW g \in Globals
  PROVE  /\ g = [entries |-> g.entries, families |-> g.families]
         /\ g.entries \in Partial(Name, Entries) /\ DOMAIN g.entries \subseteq Name
         /\ \A n \in DOMAIN g.entries : g.entries[n] \in Entries
         /\ g.families \in Partial(Name, Families) /\ DOMAIN g.families \subseteq Name
         /\ \A f \in DOMAIN g.families : g.families[f] \in Families
  BY PartialDef DEF Globals

LEMMA AddFacts ==
  ASSUME NEW g \in Globals, NEW n \in Name, NEW e \in Entries
  PROVE  /\ Add(g, n, e) \in Globals
         /\ Add(g, n, e).families = g.families
         /\ DOMAIN Add(g, n, e).entries = DOMAIN g.entries \cup {n}
         /\ Add(g, n, e).entries[n] = e
         /\ \A m \in DOMAIN g.entries : m # n => Add(g, n, e).entries[m] = g.entries[m]
<1>1. Add(g, n, e) = [entries |-> Put(g.entries, n, e), families |-> g.families]
  BY GlobalsParts DEF Add
<1>2. Put(g.entries, n, e) \in Partial(Name, Entries)
  BY GlobalsParts, PutTyped
<1>3. Add(g, n, e) \in Globals
  BY <1>1, <1>2, GlobalsParts DEF Globals
<1>4. Add(g, n, e).families = g.families /\ Add(g, n, e).entries = Put(g.entries, n, e)
  BY <1>1
<1> QED
  BY <1>3, <1>4 DEF Put

LEMMA AddFamilyFacts ==
  ASSUME NEW g \in Globals, NEW f \in Name, NEW fam \in Families
  PROVE  /\ AddFamily(g, f, fam) \in Globals
         /\ AddFamily(g, f, fam).entries = g.entries
         /\ DOMAIN AddFamily(g, f, fam).families = DOMAIN g.families \cup {f}
         /\ AddFamily(g, f, fam).families[f] = fam
         /\ \A h \in DOMAIN g.families :
              h # f => AddFamily(g, f, fam).families[h] = g.families[h]
<1>1. AddFamily(g, f, fam) = [entries |-> g.entries, families |-> Put(g.families, f, fam)]
  BY GlobalsParts DEF AddFamily
<1>2. Put(g.families, f, fam) \in Partial(Name, Families)
  BY GlobalsParts, PutTyped
<1>3. AddFamily(g, f, fam) \in Globals
  BY <1>1, <1>2, GlobalsParts DEF Globals
<1>4. /\ AddFamily(g, f, fam).entries = g.entries
      /\ AddFamily(g, f, fam).families = Put(g.families, f, fam)
  BY <1>1
<1> QED
  BY <1>3, <1>4 DEF Put

LEMMA InstallFacts ==
  ASSUME NEW g \in Globals, NEW rs \in Rows
  PROVE  /\ Install(rs, g) \in Globals
         /\ Install(rs, g).families = g.families
         /\ DOMAIN Install(rs, g).entries = DOMAIN g.entries \cup RowNames(rs)
         /\ \A n \in DOMAIN g.entries :
              n \notin RowNames(rs) => Install(rs, g).entries[n] = g.entries[n]
         /\ \A n \in RowNames(rs) :
              \E i \in 1 .. Len(rs) : rs[i][1] = n /\ Install(rs, g).entries[n] = rs[i][2]
<1> DEFINE es == [n \in DOMAIN g.entries \cup RowNames(rs) |->
                    IF n \in RowNames(rs) THEN rs[LastRow(n, rs)][2] ELSE g.entries[n]]
<1>1. Install(rs, g) = [entries |-> es, families |-> g.families]
  BY GlobalsParts DEF Install
<1>2. RowNames(rs) \subseteq Name /\ \A i \in 1 .. Len(rs) : rs[i] \in Name \X Entries
  BY DEF RowNames, Rows
<1>3. \A n \in RowNames(rs) : LastRow(n, rs) \in 1 .. Len(rs) /\ rs[LastRow(n, rs)][1] = n
  BY LastRowIs
<1>4. es \in Partial(Name, Entries)
  <2>1. \A n \in DOMAIN es : es[n] \in Entries
    BY <1>2, <1>3, GlobalsParts
  <2>2. DOMAIN es \subseteq Name
    BY <1>2, GlobalsParts
  <2>3. es \in [DOMAIN es -> Entries]
    BY <2>1
  <2> QED
    BY <2>2, <2>3, PartialDef
<1> QED
  BY <1>1, <1>3, <1>4, GlobalsParts DEF Globals

LEMMA ElabTyped ==
  ASSUME NEW g \in Globals, NEW names \in SUBSET Name
  PROVE  Elab(names, g) \in SUBSET Refs
<1>1. ASSUME NEW n \in Name PROVE Resolve(n, g) \subseteq Refs
  <2>1. Owners(n, g) \subseteq Name
    BY GlobalsParts DEF Owners
  <2> QED
    BY <2>1 DEF Resolve, Refs
<1> QED
  BY <1>1 DEF Elab

LEMMA MeaningTyped ==
  ASSUME NEW g \in Globals, NEW r \in Refs, Known(r, g)
  PROVE  Meaning(r, g) \in Nat
<1>1. \A n \in DOMAIN g.entries : g.entries[n].at \in Nat
  BY GlobalsParts DEF Entries
<1>2. \A f \in DOMAIN g.families : g.families[f].at \in Nat
  BY GlobalsParts DEF Families
<1>3. r.kind \in {"entry", "family", "ctor"}
  BY DEF Refs
<1> QED
  BY <1>1, <1>2, <1>3 DEF Known, Meaning

LEMMA SeenTyped ==
  ASSUME NEW g \in Globals, NEW refs \in SUBSET Refs, AllKnown(refs, g)
  PROVE  /\ SeenIn(refs, g) \in Seens
         /\ DOMAIN SeenIn(refs, g) = refs
         /\ \A r \in refs : SeenIn(refs, g)[r] = Meaning(r, g)
<1>1. \A r \in refs : Meaning(r, g) \in Nat
  BY MeaningTyped DEF AllKnown
<1>2. SeenIn(refs, g) \in [refs -> Nat]
  BY <1>1 DEF SeenIn
<1> QED
  BY <1>2, PartialDef DEF SeenIn, Seens

LEMMA EntryTyped ==
  ASSUME NEW g \in Globals, NEW ty \in SUBSET Refs, NEW body \in SUBSET Refs,
         NEW kind \in {"axiom", "def"}, NEW rec \in BOOLEAN, count \in Nat,
         AllKnown(ty \cup body, g)
  PROVE  Entry(kind, ty, body, rec, g) \in Entries
<1>1. SeenIn(ty \cup body, g) \in Seens
  BY SeenTyped
<1>2. Entry(kind, ty, body, rec, g) =
        [kind |-> kind, ty |-> ty, body |-> body, rec |-> rec, at |-> count,
         seen |-> SeenIn(ty \cup body, g)]
  BY DEF Entry, SeenIn
<1> QED
  BY <1>1, <1>2 DEF Entries

-----------------------------------------------------------------------------
(***************************************************************************)
(* Shape is an invariant.                                                  *)
(***************************************************************************)

LEMMA Phases5 ==
  ASSUME TypeOK
  PROVE  /\ work.phase \in Phases
         /\ work.phase = "idle" => work = Idle
         /\ work.phase = "postulates" => work \in Postulating
         /\ work.phase = "admit" => work \in Admitting
         /\ work.phase \in {"declare", "define"} => work \in Completing
         /\ work = Idle => work.phase = "idle"
  BY DEF TypeOK, Phases, Idle, Postulating, Admitting, Completing

LEMMA TypesTyped == Types \subseteq SUBSET Name /\ Bodies \subseteq SUBSET Name
  BY DEF Types, Bodies

LEMMA TuplesTyped ==
  ASSUME NEW S, NEW bound \in Nat, NEW t \in Tuples(S, bound)
  PROVE  t \in Seq(S) /\ Len(t) \in Nat \ {0} /\ DOMAIN t = 1 .. Len(t)
<1>1. PICK k \in 1 .. bound : t \in [1 .. k -> S]
  BY DEF Tuples
<1>2. t \in Seq(S)
  BY <1>1, SeqDef
<1> QED
  BY <1>1, <1>2

LEMMA InitShape ==
  ASSUME Init
  PROVE  Shape
<1>1. globals \in Globals
  <2>1. [kind |-> "prim", ty |-> {}, body |-> {}, rec |-> FALSE, at |-> 0, seen |-> << >>]
          \in Entries
    BY EmptyPartial DEF Entries, Seens
  <2>2. globals.entries \in [Prims -> Entries]
    BY <2>1 DEF Init
  <2>3. globals.entries \in Partial(Name, Entries)
    BY <2>2, PartialDef, ProgramConstants
  <2>4. << >> \in Partial(Name, Families)
    BY EmptyPartial
  <2> QED
    BY <2>3, <2>4 DEF Init, Globals
<1>2. TypeOK
  BY <1>1 DEF TypeOK, Init, Rows
<1>3. DOMAIN globals.families = {}
  BY EmptyPartial DEF Init
<1>4. Earlier /\ CtorsUnique
  BY <1>3 DEF Init, Earlier, CtorsUnique
<1>5. PostulatesShape /\ AdmitShape /\ FamiliesFresh /\ FamiliesShape
  BY DEF Init, Idle, PostulatesShape, AdmitShape, FamiliesFresh, FamiliesShape
<1> QED
  BY <1>2, <1>4, <1>5 DEF Shape

\* Between declarations only what was admitted counts.
LEMMA IdleShape ==
  ASSUME TypeOK', Earlier', CtorsUnique', work' = Idle
  PROVE  Shape'
<1>1. PostulatesShape' /\ AdmitShape' /\ FamiliesFresh' /\ FamiliesShape'
  BY DEF Idle, PostulatesShape, AdmitShape, FamiliesFresh, FamiliesShape
<1> QED
  BY <1>1 DEF Shape

LEMMA OrdinaryShape ==
  ASSUME Shape, NEW n \in Name, NEW kind \in {"axiom", "def"},
         NEW ty \in SUBSET Name, NEW body \in SUBSET Name, Ordinary(n, kind, ty, body)
  PROVE  Shape'
<1> DEFINE t == Elab(ty, globals)
           b == Elab(body, globals)
           e == Entry(kind, t, b, FALSE, globals)
<1>1. /\ TypeOK /\ work = Idle /\ AllKnown(t \cup b, globals)
      /\ globals' = Add(globals, n, e) /\ rows' = Append(rows, <<n, e>>)
      /\ count' = count + 1 /\ work' = work /\ status' = status
  BY DEF Shape, Ready, Ordinary
<1>2. t \in SUBSET Refs /\ b \in SUBSET Refs
  BY <1>1, ElabTyped DEF TypeOK
<1> HIDE DEF t, b
<1>3. e \in Entries /\ e.at = count
  <2>1. e \in Entries
    BY <1>1, <1>2, EntryTyped DEF TypeOK
  <2> QED
    BY <2>1 DEF Entry
<1> HIDE DEF e
<1>4. /\ globals' \in Globals /\ globals'.families = globals.families
      /\ DOMAIN globals'.entries = DOMAIN globals.entries \cup {n}
      /\ globals'.entries[n] = e
      /\ \A m \in DOMAIN globals.entries :
           m # n => globals'.entries[m] = globals.entries[m]
  BY <1>1, <1>3, AddFacts DEF TypeOK
<1>5. rows' \in Rows
  BY <1>1, <1>3 DEF TypeOK, Rows
<1>6. TypeOK'
  BY <1>1, <1>4, <1>5 DEF TypeOK
<1>7. Earlier'
  BY <1>1, <1>3, <1>4, GlobalsParts DEF Earlier, Shape, TypeOK, Entries, Families
<1>8. CtorsUnique'
  BY <1>4 DEF CtorsUnique, Shape, Owners
<1> QED
  BY <1>1, <1>6, <1>7, <1>8, IdleShape

\* A step that leaves the globals alone keeps what is said of them alone.
LEMMA QuietGlobals ==
  ASSUME Shape, UNCHANGED <<globals, count>>
  PROVE  Earlier' /\ CtorsUnique'
  BY DEF Shape, Earlier, CtorsUnique, Owners

LEMMA RecTypesShape ==
  ASSUME Shape, NEW ns \in RecNames, NEW tys \in [DOMAIN ns -> Types], RecTypes(ns, tys)
  PROVE  Shape'
<1>1. ns \in Seq(Name) /\ Len(ns) \in Nat \ {0} /\ DOMAIN ns = 1 .. Len(ns)
  BY TuplesTyped, ProgramConstants DEF RecNames
<1> DEFINE ts == [i \in DOMAIN ns |-> Elab(tys[i], globals)]
<1>2. /\ TypeOK /\ UNCHANGED <<globals, rows, status, count>>
      /\ work' = [phase |-> "postulates", group |-> ns, g |-> globals, rows |-> << >>, ty |-> ts]
  BY DEF RecTypes, Shape
<1>3. ts \in Seq(SUBSET Refs) /\ Len(ts) = Len(ns)
  <2>1. \A i \in DOMAIN ns : Elab(tys[i], globals) \in SUBSET Refs
    BY <1>2, ElabTyped, TypesTyped DEF TypeOK
  <2> QED
    BY <1>1, <2>1
<1> HIDE DEF ts
<1>4. TypeOK'
  BY <1>1, <1>2, <1>3 DEF TypeOK, Postulating, Rows
<1>5. PostulatesShape' /\ AdmitShape' /\ FamiliesFresh' /\ FamiliesShape'
  BY <1>1, <1>2, <1>3 DEF PostulatesShape, AdmitShape, FamiliesFresh, FamiliesShape
<1> QED
  BY <1>2, <1>4, <1>5, QuietGlobals DEF Shape

LEMMA RecPostulateShape ==
  ASSUME Shape, RecPostulate
  PROVE  Shape'
<1> DEFINE i == Len(work.rows) + 1
           e == Entry("axiom", work.ty[i], {}, FALSE, work.g)
<1>1. /\ TypeOK /\ UNCHANGED <<globals, rows, status, count>>
      /\ work \in Postulating /\ work.phase = "postulates" /\ PostulatesShape
      /\ Len(work.rows) < Len(work.group) /\ AllKnown(work.ty[i], work.g)
      /\ work' = [work EXCEPT !.rows = Append(@, <<work.group[i], e>>),
                              !.g = Add(@, work.group[i], e)]
  BY Phases5 DEF RecPostulate, Shape
<1>2. /\ work.group \in Seq(Name) /\ work.g \in Globals /\ work.rows \in Rows
      /\ work.ty \in Seq(SUBSET Refs) /\ Len(work.ty) = Len(work.group)
      /\ i \in 1 .. Len(work.group)
  BY <1>1 DEF Postulating, PostulatesShape, Rows
<1>3. e \in Entries /\ e.at = count
  <2>1. work.ty[i] \cup {} = work.ty[i] /\ work.ty[i] \in SUBSET Refs
    BY <1>2
  <2>2. e \in Entries
    BY <1>1, <1>2, <2>1, EntryTyped DEF TypeOK
  <2> QED
    BY <2>2 DEF Entry
<1> HIDE DEF e
<1> DEFINE rs == Append(work.rows, <<work.group[i], e>>)
           h == Add(work.g, work.group[i], e)
<1>4. rs \in Rows /\ Len(rs) = i /\ \A j \in 1 .. i : rs[j] = IF j = i THEN <<work.group[i], e>> ELSE work.rows[j]
  BY <1>2, <1>3 DEF Rows
<1>5. h \in Globals
  <2>1. work.group[i] \in Name
    BY <1>2
  <2> QED
    BY <1>2, <1>3, <2>1, AddFacts
<1>6. work' = [phase |-> "postulates", group |-> work.group, g |-> h, rows |-> rs,
               ty |-> work.ty]
  BY <1>1 DEF Postulating
<1> HIDE DEF rs, h
<1>7. TypeOK'
  BY <1>1, <1>2, <1>4, <1>5, <1>6 DEF TypeOK, Postulating
<1>8. PostulatesShape'
  BY <1>1, <1>2, <1>3, <1>4, <1>6 DEF PostulatesShape
<1>9. AdmitShape' /\ FamiliesFresh' /\ FamiliesShape'
  BY <1>6 DEF AdmitShape, FamiliesFresh, FamiliesShape
<1> QED
  BY <1>1, <1>7, <1>8, <1>9, QuietGlobals DEF Shape

LEMMA RecGuardShape ==
  ASSUME Shape, NEW bodies \in [DOMAIN work.group -> Bodies], RecGuard(bodies)
  PROVE  Shape'
<1> DEFINE provisional == Install(work.rows, globals)
           body == [i \in DOMAIN work.group |-> Elab(bodies[i], provisional)]
           calls == Calls(work.group, body)
           h == IF calls = {} THEN globals ELSE provisional
<1>1. /\ TypeOK /\ UNCHANGED <<globals, rows, status, count>>
      /\ work \in Postulating /\ work.phase = "postulates" /\ PostulatesShape
      /\ work' = [phase |-> "admit", group |-> work.group, ty |-> work.ty, body |-> body,
                  rows |-> << >>, calls |-> calls, g |-> h]
  BY Phases5 DEF RecGuard, Shape
<1>2. /\ work.group \in Seq(Name) /\ DOMAIN work.group = 1 .. Len(work.group)
      /\ work.ty \in Seq(SUBSET Refs) /\ globals \in Globals /\ work.rows \in Rows
  BY <1>1 DEF Postulating, TypeOK
<1>3. provisional \in Globals
  BY <1>2, InstallFacts
<1> HIDE DEF provisional
<1>4. body \in Seq(SUBSET Refs) /\ Len(body) = Len(work.group)
  <2>1. \A i \in DOMAIN work.group : Elab(bodies[i], provisional) \in SUBSET Refs
    BY <1>3, ElabTyped, TypesTyped
  <2> QED
    BY <1>2, <2>1
<1> HIDE DEF body
<1>5. calls \in SUBSET Nat /\ h \in Globals
  BY <1>2, <1>3 DEF Calls
<1> HIDE DEF calls, h
<1>6. TypeOK'
  BY <1>1, <1>2, <1>4, <1>5 DEF TypeOK, Admitting, Rows
<1>7. AdmitShape'
  BY <1>1, <1>2, <1>4 DEF PostulatesShape, AdmitShape, calls
<1>8. PostulatesShape' /\ FamiliesFresh' /\ FamiliesShape'
  BY <1>1 DEF PostulatesShape, FamiliesFresh, FamiliesShape
<1> QED
  BY <1>1, <1>6, <1>7, <1>8, QuietGlobals DEF Shape

LEMMA RecAdmitShape ==
  ASSUME Shape, RecAdmit
  PROVE  Shape'
<1> DEFINE i == Len(work.rows) + 1
           r == i \in work.calls
           e == Entry("def", work.ty[i], work.body[i], r, work.g)
           rs == Append(work.rows, <<work.group[i], e>>)
           h == IF work.calls = {} THEN Add(work.g, work.group[i], e) ELSE work.g
<1>1. /\ TypeOK /\ UNCHANGED <<globals, rows, status, count>>
      /\ work \in Admitting /\ work.phase = "admit" /\ AdmitShape
      /\ Len(work.rows) < Len(work.group)
      /\ AllKnown(work.ty[i] \cup work.body[i], work.g)
      /\ work' = [work EXCEPT !.rows = rs, !.g = h]
  BY Phases5 DEF RecAdmit, Shape
<1>2. /\ work.group \in Seq(Name) /\ work.g \in Globals /\ work.rows \in Rows
      /\ work.ty \in Seq(SUBSET Refs) /\ Len(work.ty) = Len(work.group)
      /\ work.body \in Seq(SUBSET Refs) /\ Len(work.body) = Len(work.group)
      /\ i \in 1 .. Len(work.group)
  BY <1>1 DEF Admitting, AdmitShape, Rows
<1>3. /\ e \in Entries /\ e.at = count /\ e.kind = "def" /\ e.body = work.body[i]
      /\ e.rec = r
  <2>1. r \in BOOLEAN /\ work.ty[i] \in SUBSET Refs /\ work.body[i] \in SUBSET Refs
    BY <1>2
  <2> HIDE DEF r
  <2>2. e \in Entries
    BY <1>1, <1>2, <2>1, EntryTyped DEF TypeOK
  <2> QED
    BY <2>2 DEF Entry
<1> HIDE DEF e
<1>4. /\ rs \in Rows /\ Len(rs) = i
      /\ \A j \in 1 .. i : rs[j] = IF j = i THEN <<work.group[i], e>> ELSE work.rows[j]
  BY <1>2, <1>3 DEF Rows
<1>5. h \in Globals
  <2>1. work.group[i] \in Name
    BY <1>2
  <2> QED
    BY <1>2, <1>3, <2>1, AddFacts
<1> HIDE DEF rs, h
<1>6. work' = [phase |-> "admit", group |-> work.group, ty |-> work.ty, body |-> work.body,
               rows |-> rs, calls |-> work.calls, g |-> h]
  BY <1>1 DEF Admitting
<1>7. TypeOK'
  BY <1>1, <1>2, <1>4, <1>5, <1>6 DEF TypeOK, Admitting
<1>8. AdmitShape'
  BY <1>1, <1>2, <1>3, <1>4, <1>6 DEF AdmitShape
<1>9. PostulatesShape' /\ FamiliesFresh' /\ FamiliesShape'
  BY <1>6 DEF PostulatesShape, FamiliesFresh, FamiliesShape
<1> QED
  BY <1>1, <1>7, <1>8, <1>9, QuietGlobals DEF Shape

LEMMA RecInstallShape ==
  ASSUME Shape, RecInstall
  PROVE  Shape'
<1>1. /\ TypeOK /\ work \in Admitting /\ AdmitShape /\ Earlier /\ CtorsUnique
      /\ work.phase = "admit" /\ Len(work.rows) = Len(work.group)
      /\ globals' = Install(work.rows, globals) /\ rows' = rows \o work.rows
      /\ work' = Idle /\ count' = count + 1 /\ status' = status
  BY Phases5 DEF RecInstall, Shape
<1>2. work.rows \in Rows /\ globals \in Globals
  BY <1>1 DEF Admitting, TypeOK
<1>3. /\ globals' \in Globals /\ globals'.families = globals.families
      /\ DOMAIN globals'.entries = DOMAIN globals.entries \cup RowNames(work.rows)
      /\ \A n \in DOMAIN globals.entries :
           n \notin RowNames(work.rows) => globals'.entries[n] = globals.entries[n]
      /\ \A n \in RowNames(work.rows) :
           \E i \in 1 .. Len(work.rows) :
             work.rows[i][1] = n /\ globals'.entries[n] = work.rows[i][2]
  <2> DEFINE h == Install(work.rows, globals)
  <2>1. /\ h \in Globals /\ h.families = globals.families
        /\ DOMAIN h.entries = DOMAIN globals.entries \cup RowNames(work.rows)
        /\ \A n \in DOMAIN globals.entries :
             n \notin RowNames(work.rows) => h.entries[n] = globals.entries[n]
        /\ \A n \in RowNames(work.rows) :
             \E i \in 1 .. Len(work.rows) :
               work.rows[i][1] = n /\ h.entries[n] = work.rows[i][2]
    BY <1>2, InstallFacts
  <2>2. globals' = h
    BY <1>1
  <2> HIDE DEF h
  <2> QED
    BY <2>1, <2>2
<1>4. TypeOK'
  BY <1>1, <1>2, <1>3 DEF TypeOK, Rows
<1>5. Earlier'
  <2>1. \A n \in DOMAIN globals'.entries : globals'.entries[n].at < count'
    <3> SUFFICES ASSUME NEW n \in DOMAIN globals'.entries PROVE globals'.entries[n].at < count'
      OBVIOUS
    <3>1. CASE n \in RowNames(work.rows)
      BY <1>1, <1>3, <3>1 DEF AdmitShape, TypeOK
    <3>2. CASE n \notin RowNames(work.rows)
      BY <1>1, <1>2, <1>3, <3>2, GlobalsParts DEF Earlier, TypeOK, Entries
    <3> QED
      BY <3>1, <3>2
  <2>2. \A f \in DOMAIN globals'.families :
          globals'.families[f].at < count' /\ globals'.families[f].status = "complete"
    BY <1>1, <1>2, <1>3, GlobalsParts DEF Earlier, TypeOK, Families
  <2> QED
    BY <2>1, <2>2 DEF Earlier
<1>6. CtorsUnique'
  BY <1>1, <1>3 DEF CtorsUnique, Owners
<1> QED
  BY <1>1, <1>4, <1>5, <1>6, IdleShape

LEMMA MuFreshShape ==
  ASSUME Shape, NEW fams \in Tuples(Name, FamGroup), NEW ctors \in [DOMAIN fams -> Types],
         MuFresh(fams, ctors)
  PROVE  Shape'
<1>1. fams \in Seq(Name) /\ Len(fams) \in Nat \ {0} /\ DOMAIN fams = 1 .. Len(fams)
  BY TuplesTyped, ProgramConstants
<1>2. /\ TypeOK /\ UNCHANGED <<globals, rows, status, count>>
      /\ Parsed(fams, ctors)
      /\ \A i \in DOMAIN fams : \A c \in ctors[i] : ~Taken(c, Names(fams))
      /\ work' = [phase |-> "declare", group |-> fams, ctors |-> ctors, g |-> globals,
                  next |-> 1]
  BY DEF MuFresh, Shape
<1>3. ctors \in Seq(SUBSET Name) /\ Len(ctors) = Len(fams)
  <2>1. ctors \in [1 .. Len(fams) -> SUBSET Name]
    BY <1>1, TypesTyped
  <2>2. ctors \in Seq(SUBSET Name)
    BY <1>1, <2>1, SeqDef
  <2> QED
    BY <1>1, <2>1, <2>2
<1>4. TypeOK'
  BY <1>1, <1>2, <1>3 DEF TypeOK, Completing
<1>5. FamiliesFresh'
  <2>1. \A i \in 1 .. Len(fams) : \A c \in ctors[i] :
          /\ c \notin DOMAIN globals.families /\ c \notin Names(fams)
          /\ \A f \in DOMAIN globals.families : c \notin DOMAIN globals.families[f].ctors
    BY <1>1, <1>2 DEF Taken, Owners
  <2>2. \A i, j \in 1 .. Len(fams) : i # j => ctors[i] \cap ctors[j] = {}
    <3> SUFFICES ASSUME NEW i \in 1 .. Len(fams), NEW j \in 1 .. Len(fams), i # j
                 PROVE  ctors[i] \cap ctors[j] = {}
      OBVIOUS
    <3>1. CASE j < i
      BY <1>1, <1>2, <3>1 DEF Parsed
    <3>2. CASE i < j
      BY <1>1, <1>2, <3>2 DEF Parsed
    <3> QED
      BY <1>1, <3>1, <3>2
  <2> QED
    BY <1>1, <1>2, <1>3, <2>1, <2>2 DEF FamiliesFresh
<1>6. FamiliesShape'
  BY <1>2 DEF FamiliesShape, Declared
<1>7. PostulatesShape' /\ AdmitShape'
  BY <1>2 DEF PostulatesShape, AdmitShape
<1> QED
  BY <1>2, <1>4, <1>5, <1>6, <1>7, QuietGlobals DEF Shape

\* What the steps of a family group have in hand.
LEMMA CompletingParts ==
  ASSUME Shape, work.phase \in {"declare", "define"}
  PROVE  /\ work \in Completing /\ globals \in Globals /\ count \in Nat
         /\ work.group \in Seq(Name) /\ DOMAIN work.group = 1 .. Len(work.group)
         /\ Len(work.group) \in Nat \ {0}
         /\ work.ctors \in Seq(SUBSET Name) /\ Len(work.ctors) = Len(work.group)
         /\ work.g \in Globals /\ work.next \in 1 .. Len(work.group) + 1
         /\ work = [phase |-> work.phase, group |-> work.group, ctors |-> work.ctors,
                    g |-> work.g, next |-> work.next]
<1>1. TypeOK /\ work \in Completing /\ FamiliesFresh
  BY Phases5 DEF Shape
<1> QED
  BY <1>1 DEF TypeOK, Completing, FamiliesFresh

LEMMA MuDeclareShape ==
  ASSUME Shape, NEW names \in Types, MuDeclare(names)
  PROVE  Shape'
<1> DEFINE f == work.group[work.next]
           ty == Elab(names, work.g)
           fam == [status |-> "provisional", ty |-> ty, ctors |-> << >>, at |-> count,
                   seen |-> SeenIn(ty, work.g)]
           h == AddFamily(work.g, f, fam)
<1>1. /\ TypeOK /\ UNCHANGED <<globals, rows, status, count>>
      /\ work.phase = "declare" /\ work.next <= Len(work.group)
      /\ f \notin DOMAIN work.g.families /\ AllKnown(ty, work.g)
      /\ work' = [work EXCEPT !.next = work.next + 1, !.g = h]
      /\ FamiliesFresh /\ FamiliesShape
  BY DEF MuDeclare, Shape
<1>2. /\ work.group \in Seq(Name) /\ work.g \in Globals /\ work.ctors \in Seq(SUBSET Name)
      /\ work.next \in 1 .. Len(work.group) /\ count \in Nat
      /\ work = [phase |-> work.phase, group |-> work.group, ctors |-> work.ctors,
                 g |-> work.g, next |-> work.next]
  BY <1>1, CompletingParts
<1>3. work' = [phase |-> "declare", group |-> work.group, ctors |-> work.ctors, g |-> h,
               next |-> work.next + 1]
  BY <1>1, <1>2
<1>4. fam \in Families /\ f \in Name
  <2>1. ty \in SUBSET Refs
    BY <1>2, ElabTyped, TypesTyped
  <2>2. SeenIn(ty, work.g) \in Seens
    BY <1>1, <1>2, <2>1, SeenTyped
  <2> HIDE DEF ty
  <2>3. << >> \in Partial(Name, SUBSET Refs)
    BY EmptyPartial
  <2> QED
    BY <1>2, <2>1, <2>2, <2>3 DEF Families
<1>5. fam.at = count /\ DOMAIN fam.ctors = {}
  BY EmptyPartial
<1> HIDE DEF fam, f
<1>6. /\ h \in Globals /\ h.entries = work.g.entries
      /\ DOMAIN h.families = DOMAIN work.g.families \cup {f}
      /\ h.families[f] = fam
      /\ \A k \in DOMAIN work.g.families : k # f => h.families[k] = work.g.families[k]
  BY <1>2, <1>4, AddFamilyFacts
<1> HIDE DEF h
<1>7. TypeOK'
  BY <1>1, <1>2, <1>3, <1>6 DEF TypeOK, Completing
<1>8. FamiliesFresh'
  BY <1>1, <1>2, <1>3 DEF FamiliesFresh
<1>9. FamiliesShape'
  <2>1. /\ Declared = work.next - 1 /\ Declared' = work.next
        /\ Completed = 0 /\ Completed' = 0
    BY <1>1, <1>2, <1>3 DEF Declared, Completed
  <2>2. /\ work.g.entries = globals.entries
        /\ DOMAIN work.g.families =
             DOMAIN globals.families \cup {work.group[i] : i \in 1 .. work.next - 1}
        /\ \A k \in DOMAIN globals.families : work.g.families[k] = globals.families[k]
        /\ \A i \in 1 .. work.next - 1 :
             /\ work.group[i] \notin DOMAIN globals.families
             /\ \A j \in 1 .. work.next - 1 : work.group[i] = work.group[j] => i = j
             /\ work.g.families[work.group[i]].at = count
             /\ DOMAIN work.g.families[work.group[i]].ctors = {}
    BY <1>1, <1>2, <2>1 DEF FamiliesShape
  <2>3. \A i \in 1 .. work.next : i # work.next => i \in 1 .. work.next - 1
    BY <1>2
  <2>4. f \notin DOMAIN globals.families /\ \A i \in 1 .. work.next - 1 : work.group[i] # f
    BY <1>1, <2>2
  <2>5. DOMAIN h.families =
          DOMAIN globals.families \cup {work.group[i] : i \in 1 .. work.next}
    BY <1>2, <1>6, <2>2, <2>3 DEF f
  <2>6. \A k \in DOMAIN globals.families : h.families[k] = globals.families[k]
    BY <1>6, <2>2, <2>4
  <2>7. \A i \in 1 .. work.next :
          /\ work.group[i] \notin DOMAIN globals.families
          /\ \A j \in 1 .. work.next : work.group[i] = work.group[j] => i = j
          /\ h.families[work.group[i]].at = count
          /\ DOMAIN h.families[work.group[i]].ctors = {}
    <3> SUFFICES ASSUME NEW i \in 1 .. work.next
                 PROVE  /\ work.group[i] \notin DOMAIN globals.families
                        /\ \A j \in 1 .. work.next : work.group[i] = work.group[j] => i = j
                        /\ h.families[work.group[i]].at = count
                        /\ DOMAIN h.families[work.group[i]].ctors = {}
      OBVIOUS
    <3>1. CASE i = work.next
      BY <1>5, <1>6, <2>3, <2>4, <3>1 DEF f
    <3>2. CASE i # work.next
      BY <1>6, <2>2, <2>3, <2>4, <3>2 DEF f
    <3> QED
      BY <3>1, <3>2
  <2> QED
    BY <1>1, <1>2, <1>3, <1>6, <2>1, <2>2, <2>5, <2>6, <2>7 DEF FamiliesShape
<1>10. PostulatesShape' /\ AdmitShape'
  BY <1>3 DEF PostulatesShape, AdmitShape
<1> QED
  BY <1>1, <1>7, <1>8, <1>9, <1>10, QuietGlobals DEF Shape

LEMMA MuDeclaredShape ==
  ASSUME Shape, MuDeclared
  PROVE  Shape'
<1>1. /\ TypeOK /\ UNCHANGED <<globals, rows, status, count>>
      /\ work.phase = "declare" /\ work.next > Len(work.group)
      /\ work' = [work EXCEPT !.phase = "define", !.next = 1]
      /\ FamiliesFresh /\ FamiliesShape
  BY DEF MuDeclared, Shape
<1>2. /\ work.group \in Seq(Name) /\ work.g \in Globals /\ work.ctors \in Seq(SUBSET Name)
      /\ work.next = Len(work.group) + 1 /\ Len(work.group) \in Nat \ {0}
      /\ work = [phase |-> work.phase, group |-> work.group, ctors |-> work.ctors,
                 g |-> work.g, next |-> work.next]
  BY <1>1, CompletingParts
<1>3. work' = [phase |-> "define", group |-> work.group, ctors |-> work.ctors, g |-> work.g,
               next |-> 1]
  BY <1>1, <1>2
<1>4. TypeOK'
  BY <1>1, <1>2, <1>3 DEF TypeOK, Completing
<1>5. FamiliesFresh'
  BY <1>1, <1>2, <1>3 DEF FamiliesFresh
<1>6. FamiliesShape'
  <2>1. Declared = Len(work.group) /\ Declared' = Len(work.group)
        /\ Completed = 0 /\ Completed' = 0
    BY <1>1, <1>2, <1>3 DEF Declared, Completed
  <2> QED
    BY <1>1, <1>2, <1>3, <2>1 DEF FamiliesShape
<1>7. PostulatesShape' /\ AdmitShape'
  BY <1>3 DEF PostulatesShape, AdmitShape
<1> QED
  BY <1>1, <1>4, <1>5, <1>6, <1>7, QuietGlobals DEF Shape

LEMMA SeenMore ==
  ASSUME NEW g \in Globals, NEW refs \in SUBSET Refs, AllKnown(refs, g), NEW seen \in Seens
  PROVE  SeenAlso(seen, refs, g) \in Seens
<1>1. \A r \in refs : Meaning(r, g) \in Nat
  BY MeaningTyped DEF AllKnown
<1> QED
  BY <1>1, PartialDef DEF SeenAlso, Seens

LEMMA MuDefineShape ==
  ASSUME Shape, work.phase = "define", work.next <= Len(work.group),
         NEW names \in [work.ctors[work.next] -> Types], MuDefine(names)
  PROVE  Shape'
<1> DEFINE f == work.group[work.next]
           ctors == [c \in work.ctors[work.next] |-> Elab(names[c], work.g)]
           refs == UNION {ctors[c] : c \in DOMAIN ctors}
           old == work.g.families[f]
           seen == SeenAlso(old.seen, refs, work.g)
           fam == [old EXCEPT !.status = "complete", !.ctors = ctors, !.seen = seen]
           h == AddFamily(work.g, f, fam)
<1>1. /\ TypeOK /\ UNCHANGED <<globals, rows, status, count>>
      /\ AllKnown(refs, work.g)
      /\ work' = [work EXCEPT !.next = work.next + 1, !.g = h]
      /\ FamiliesFresh /\ FamiliesShape
  BY DEF MuDefine, Shape
<1>2. /\ work.group \in Seq(Name) /\ work.g \in Globals /\ work.ctors \in Seq(SUBSET Name)
      /\ Len(work.ctors) = Len(work.group)
      /\ work.next \in 1 .. Len(work.group) /\ count \in Nat
      /\ work = [phase |-> work.phase, group |-> work.group, ctors |-> work.ctors,
                 g |-> work.g, next |-> work.next]
  BY CompletingParts
<1>3. work' = [phase |-> "define", group |-> work.group, ctors |-> work.ctors, g |-> h,
               next |-> work.next + 1]
  BY <1>1, <1>2
<1>4. /\ Declared = Len(work.group) /\ Declared' = Len(work.group)
      /\ Completed = work.next - 1 /\ Completed' = work.next
  BY <1>2, <1>3 DEF Declared, Completed
<1>5. old \in Families /\ old.at = count /\ f \in Name
  <2>1. f \in DOMAIN work.g.families
    BY <1>1, <1>2, <1>4 DEF FamiliesShape
  <2>2. old.at = count
    BY <1>1, <1>2, <1>4 DEF FamiliesShape
  <2> QED
    BY <1>2, <2>1, <2>2, GlobalsParts
<1>6. /\ fam \in Families /\ fam.at = count /\ fam.status = "complete"
      /\ DOMAIN fam.ctors = work.ctors[work.next]
  <2>1. \A c \in work.ctors[work.next] : ctors[c] \in SUBSET Refs
    BY <1>2, ElabTyped, TypesTyped
  <2>2. ctors \in Partial(Name, SUBSET Refs) /\ refs \in SUBSET Refs
    BY <1>2, <2>1, PartialDef
  <2> HIDE DEF refs
  <2>3. seen \in Seens
    <3>1. old.seen \in Seens
      BY <1>5 DEF Families
    <3> QED
      BY <1>1, <1>2, <2>2, <3>1, SeenMore DEF refs
  <2>4. DOMAIN ctors = work.ctors[work.next] /\ old \in Families
    BY <1>5
  <2>5. fam = [old EXCEPT !.status = "complete", !.ctors = ctors, !.seen = seen]
    OBVIOUS
  <2> HIDE DEF ctors, seen, old, fam
  <2>6. /\ fam \in Families /\ fam.status = "complete" /\ fam.ctors = ctors
        /\ fam.at = old.at
    <3>1. fam = [status |-> "complete", ty |-> old.ty, ctors |-> ctors, at |-> old.at,
                 seen |-> seen]
      BY <2>4, <2>5 DEF Families
    <3>2. old.ty \in SUBSET Refs /\ old.at \in Nat
      BY <2>4 DEF Families
    <3> QED
      BY <2>2, <2>3, <3>1, <3>2 DEF Families
  <2> QED
    BY <1>5, <2>4, <2>6
<1> HIDE DEF fam, f, old, refs, ctors, seen
<1>7. /\ h \in Globals /\ h.entries = work.g.entries
      /\ DOMAIN h.families = DOMAIN work.g.families \cup {f}
      /\ h.families[f] = fam
      /\ \A k \in DOMAIN work.g.families : k # f => h.families[k] = work.g.families[k]
  <2>1. work.g \in Globals /\ f \in Name /\ fam \in Families
    BY <1>2, <1>5, <1>6
  <2> QED
    BY <2>1, AddFamilyFacts
<1> HIDE DEF h
<1>8. TypeOK'
  BY <1>1, <1>2, <1>3, <1>7 DEF TypeOK, Completing
<1>9. FamiliesFresh'
  BY <1>1, <1>2, <1>3 DEF FamiliesFresh
<1>10. FamiliesShape'
  <2>1. /\ work.g.entries = globals.entries
        /\ DOMAIN work.g.families =
             DOMAIN globals.families \cup {work.group[i] : i \in 1 .. Len(work.group)}
        /\ \A k \in DOMAIN globals.families : work.g.families[k] = globals.families[k]
        /\ \A i \in 1 .. Len(work.group) :
             /\ work.group[i] \notin DOMAIN globals.families
             /\ \A j \in 1 .. Len(work.group) : work.group[i] = work.group[j] => i = j
             /\ work.g.families[work.group[i]].at = count
             /\ i <= work.next - 1 =>
                  /\ work.g.families[work.group[i]].status = "complete"
                  /\ DOMAIN work.g.families[work.group[i]].ctors = work.ctors[i]
             /\ i > work.next - 1 => DOMAIN work.g.families[work.group[i]].ctors = {}
    BY <1>1, <1>4 DEF FamiliesShape
  <2>2. /\ DOMAIN h.families = DOMAIN work.g.families
        /\ \A k \in DOMAIN globals.families : h.families[k] = globals.families[k]
    BY <1>2, <1>7, <2>1 DEF f
  <2>3. \A i \in 1 .. Len(work.group) :
          /\ h.families[work.group[i]].at = count
          /\ i <= work.next => /\ h.families[work.group[i]].status = "complete"
                               /\ DOMAIN h.families[work.group[i]].ctors = work.ctors[i]
          /\ i > work.next => DOMAIN h.families[work.group[i]].ctors = {}
    <3> SUFFICES ASSUME NEW i \in 1 .. Len(work.group)
                 PROVE  /\ h.families[work.group[i]].at = count
                        /\ i <= work.next =>
                             /\ h.families[work.group[i]].status = "complete"
                             /\ DOMAIN h.families[work.group[i]].ctors = work.ctors[i]
                        /\ i > work.next => DOMAIN h.families[work.group[i]].ctors = {}
      OBVIOUS
    <3>1. CASE i = work.next
      BY <1>2, <1>6, <1>7, <3>1 DEF f
    <3>2. CASE i # work.next
      <4>1. h.families[work.group[i]] = work.g.families[work.group[i]]
        BY <1>2, <1>7, <2>1, <3>2 DEF f
      <4>2. i <= work.next => i <= work.next - 1
        BY <1>2, <3>2
      <4>3. i > work.next => i > work.next - 1
        BY <1>2
      <4> QED
        BY <2>1, <4>1, <4>2, <4>3
    <3> QED
      BY <3>1, <3>2
  <2> QED
    BY <1>1, <1>3, <1>4, <1>7, <2>1, <2>2, <2>3 DEF FamiliesShape
<1>11. PostulatesShape' /\ AdmitShape'
  BY <1>3 DEF PostulatesShape, AdmitShape
<1> QED
  BY <1>1, <1>8, <1>9, <1>10, <1>11, QuietGlobals DEF Shape

\* The families of the last step are complete, and their constructors theirs.
LEMMA MuInstallShape ==
  ASSUME Shape, MuInstall
  PROVE  Shape'
<1>1. /\ TypeOK /\ Earlier /\ CtorsUnique /\ FamiliesFresh /\ FamiliesShape
      /\ work.phase = "define" /\ work.next > Len(work.group)
      /\ globals' = work.g /\ work' = Idle /\ count' = count + 1
      /\ rows' = rows /\ status' = status
  BY DEF MuInstall, Shape
<1>2. /\ work.g \in Globals /\ globals \in Globals /\ count \in Nat
      /\ work.next = Len(work.group) + 1 /\ Len(work.group) \in Nat
      /\ DOMAIN work.group = 1 .. Len(work.group)
  BY <1>1, CompletingParts
<1> DEFINE new == {work.group[i] : i \in 1 .. Len(work.group)}
<1>3. /\ work.g.entries = globals.entries
      /\ DOMAIN work.g.families = DOMAIN globals.families \cup new
      /\ \A f \in DOMAIN globals.families : work.g.families[f] = globals.families[f]
      /\ \A i \in 1 .. Len(work.group) :
           /\ work.group[i] \notin DOMAIN globals.families
           /\ work.g.families[work.group[i]].at = count
           /\ work.g.families[work.group[i]].status = "complete"
           /\ DOMAIN work.g.families[work.group[i]].ctors = work.ctors[i]
  <2>1. Declared = Len(work.group) /\ Completed = Len(work.group)
    BY <1>1, <1>2 DEF Declared, Completed
  <2> QED
    BY <1>1, <2>1 DEF FamiliesShape
<1>4. TypeOK'
  BY <1>1, <1>2 DEF TypeOK
<1>5. Earlier'
  BY <1>1, <1>2, <1>3, GlobalsParts DEF Earlier, Entries, Families
<1>6. CtorsUnique'
  <2> SUFFICES ASSUME NEW f \in DOMAIN work.g.families,
                      NEW c \in DOMAIN work.g.families[f].ctors
               PROVE  /\ Owners(c, work.g) = {f}
                      /\ c \in DOMAIN work.g.families =>
                           work.g.families[c].at > work.g.families[f].at
    BY <1>1 DEF CtorsUnique
  <2>1. CASE f \in DOMAIN globals.families
    <3>1. c \in DOMAIN globals.families[f].ctors
      BY <1>3, <2>1
    <3>2. /\ Owners(c, globals) = {f}
          /\ c \in DOMAIN globals.families =>
               globals.families[c].at > globals.families[f].at
      BY <1>1, <2>1, <3>1 DEF CtorsUnique
    <3>3. \A i \in 1 .. Len(work.group) : c \notin work.ctors[i]
      BY <1>1, <2>1, <3>1 DEF FamiliesFresh
    <3>4. Owners(c, work.g) = {f}
      BY <1>3, <2>1, <3>1, <3>2, <3>3 DEF Owners
    <3>5. globals.families[f].at < count
      BY <1>1, <2>1 DEF Earlier
    <3>6. globals.families[f].at \in Nat
      BY <1>2, <2>1, GlobalsParts DEF Families
    <3> QED
      BY <1>2, <1>3, <2>1, <3>2, <3>4, <3>5, <3>6
  <2>2. CASE f \in new
    <3>1. PICK i \in 1 .. Len(work.group) : f = work.group[i]
      BY <2>2
    <3>2. c \in work.ctors[i]
      BY <1>3, <3>1
    <3>3. /\ c \notin DOMAIN globals.families /\ c \notin Names(work.group)
          /\ \A k \in DOMAIN globals.families : c \notin DOMAIN globals.families[k].ctors
          /\ \A j \in 1 .. Len(work.group) : j # i => c \notin work.ctors[j]
      BY <1>1, <3>2 DEF FamiliesFresh
    <3>4. c \notin DOMAIN work.g.families
      BY <1>2, <1>3, <3>3 DEF Names
    <3>5. ASSUME NEW k \in DOMAIN work.g.families, c \in DOMAIN work.g.families[k].ctors
          PROVE  k = f
      <4>1. k \notin DOMAIN globals.families
        BY <1>3, <3>3, <3>5
      <4>2. PICK j \in 1 .. Len(work.group) : k = work.group[j]
        BY <1>3, <3>5, <4>1
      <4>3. c \in work.ctors[j]
        BY <1>3, <3>5, <4>2
      <4> QED
        BY <3>1, <3>3, <4>2, <4>3
    <3>6. Owners(c, work.g) = {f}
      BY <3>5 DEF Owners
    <3> QED
      BY <3>4, <3>6
  <2> QED
    BY <1>3, <2>1, <2>2
<1> QED
  BY <1>1, <1>4, <1>5, <1>6, IdleShape

LEMMA StopShape ==
  ASSUME Shape, Refuse \/ Finish
  PROVE  Shape'
<1>1. TypeOK /\ UNCHANGED <<globals, rows, count>> /\ work' = Idle
  BY DEF Refuse, Finish, Shape
<1>2. TypeOK'
  BY <1>1 DEF TypeOK, Refuse, Finish
<1> QED
  BY <1>1, <1>2, QuietGlobals, IdleShape

LEMMA NextShape ==
  ASSUME Shape, [Next]_vars
  PROVE  Shape'
<1>1. CASE \E n \in Name, ty \in Types : Ordinary(n, "axiom", ty, {})
  <2>1. PICK n \in Name, ty \in Types : Ordinary(n, "axiom", ty, {})
    BY <1>1
  <2> QED
    BY <2>1, OrdinaryShape, TypesTyped
<1>2. CASE \E n \in Name, ty \in Types, body \in Bodies : Ordinary(n, "def", ty, body)
  BY <1>2, OrdinaryShape, TypesTyped
<1>3. CASE Ready /\ \E ns \in RecNames : \E tys \in [DOMAIN ns -> Types] : RecTypes(ns, tys)
  BY <1>3, RecTypesShape
<1>4. CASE work.phase = "postulates" /\ \E bodies \in [DOMAIN work.group -> Bodies] : RecGuard(bodies)
  BY <1>4, RecGuardShape
<1>5. CASE RecPostulate \/ RecAdmit \/ RecInstall
  BY <1>5, RecPostulateShape, RecAdmitShape, RecInstallShape
<1>6. CASE \E fams \in Tuples(Name, FamGroup) : \E ctors \in [DOMAIN fams -> Types] :
             MuFresh(fams, ctors)
  BY <1>6, MuFreshShape
<1>7. CASE \E names \in Types : MuDeclare(names)
  BY <1>7, MuDeclareShape
<1>8. CASE /\ work.phase = "define" /\ work.next <= Len(work.group)
           /\ \E names \in [work.ctors[work.next] -> Types] : MuDefine(names)
  BY <1>8, MuDefineShape
<1>9. CASE MuDeclared \/ MuInstall
  BY <1>9, MuDeclaredShape, MuInstallShape
<1>10. CASE Refuse \/ Finish
  BY <1>10, StopShape
<1>11. CASE UNCHANGED vars
  <2>1. UNCHANGED <<globals, rows, work, status, count>>
    BY <1>11 DEF vars
  <2>2. TypeOK' /\ PostulatesShape' /\ AdmitShape' /\ FamiliesFresh' /\ FamiliesShape'
    BY <2>1 DEF Shape, TypeOK, PostulatesShape, AdmitShape, FamiliesFresh, FamiliesShape,
                Declared, Completed
  <2> QED
    BY <2>1, <2>2, QuietGlobals DEF Shape
<1> QED
  BY <1>1, <1>2, <1>3, <1>4, <1>5, <1>6, <1>7, <1>8, <1>9, <1>10, <1>11 DEF Next

\* What elab_rec_group, elab_mu_group_program and global_add leave of a
\* program has this shape at every step, whatever the source declares.
THEOREM ShapeInvariant == Spec => []Shape
<1>1. Init => Shape
  BY InitShape
<1>2. Shape /\ [Next]_vars => Shape'
  BY NextShape
<1> QED
  BY <1>1, <1>2, PTL DEF Spec

\* A constructor name leads to one family, whatever the source declares, and
\* however often it declares a name.
THEOREM CtorsAlwaysUnique == Spec => []CtorsUnique
<1>1. Shape => CtorsUnique
  BY DEF Shape
<1> QED
  BY <1>1, ShapeInvariant, PTL

-----------------------------------------------------------------------------
(***************************************************************************)
(* A group of recursive definitions.                                       *)
(***************************************************************************)

\* Only its completion ends a group that is being admitted and goes on.
LEMMA OnlyInstall ==
  ASSUME Shape, Next, work.phase = "admit", work' = Idle, status' = "running"
  PROVE  RecInstall
<1>1. TypeOK /\ work # Idle /\ work \in Admitting
  BY Phases5 DEF Shape, Idle
<1>2. ~Ready
  BY <1>1 DEF Ready
<1>3. ~RecAdmit
  <2> SUFFICES ASSUME RecAdmit PROVE FALSE
    OBVIOUS
  <2>1. PICK rs, h : work' = [work EXCEPT !.rows = rs, !.g = h]
    BY DEF RecAdmit
  <2>2. work'.phase = "admit"
    BY <1>1, <2>1 DEF Admitting
  <2> QED
    BY <2>2 DEF Idle
<1>4. ~Refuse /\ ~Finish
  BY <1>1 DEF Refuse, Finish
<1>5. ~MuDeclared /\ ~MuInstall /\ ~RecPostulate
  BY DEF MuDeclared, MuInstall, RecPostulate
<1>6. \A names \in Types : ~MuDeclare(names)
  BY DEF MuDeclare
<1> QED
  BY <1>2, <1>3, <1>4, <1>5, <1>6 DEF Next, Ordinary, MuFresh

LEMMA InstalledWhole ==
  ASSUME Shape, RecInstall
  PROVE  \A i \in DOMAIN work.group :
           LET e == globals'.entries[work.group[i]]
           IN  /\ e.kind = "def"
               /\ (\E r \in e.body : r.kind = "entry" /\ r.name \in Names(work.group)) => e.rec
<1>1. /\ TypeOK /\ AdmitShape /\ work \in Admitting /\ work.phase = "admit"
      /\ Len(work.rows) = Len(work.group) /\ globals' = Install(work.rows, globals)
  BY Phases5 DEF RecInstall, Shape
<1>2. /\ work.rows \in Rows /\ globals \in Globals
      /\ DOMAIN work.group = 1 .. Len(work.group) /\ Len(work.group) \in Nat
      /\ DOMAIN work.rows = 1 .. Len(work.group)
  BY <1>1 DEF Admitting, TypeOK, Rows
<1> SUFFICES ASSUME NEW i \in DOMAIN work.group
             PROVE  /\ globals'.entries[work.group[i]].kind = "def"
                    /\ (\E r \in globals'.entries[work.group[i]].body :
                          r.kind = "entry" /\ r.name \in Names(work.group)) =>
                         globals'.entries[work.group[i]].rec
  OBVIOUS
<1>3. work.group[i] \in RowNames(work.rows)
  BY <1>1, <1>2 DEF AdmitShape, RowNames
<1>4. PICK j \in 1 .. Len(work.rows) :
        /\ work.rows[j][1] = work.group[i]
        /\ Install(work.rows, globals).entries[work.group[i]] = work.rows[j][2]
  BY <1>2, <1>3, InstallFacts
<1>5. /\ work.rows[j][2].kind = "def" /\ work.rows[j][2].body = work.body[j]
      /\ work.rows[j][2].rec = (j \in work.calls) /\ work.calls = Calls(work.group, work.body)
  BY <1>1, <1>4 DEF AdmitShape
<1>6. ASSUME NEW r \in work.body[j], r.kind = "entry", r.name \in Names(work.group)
      PROVE  j \in work.calls
  BY <1>1, <1>2, <1>4, <1>5, <1>6 DEF Calls, Mentions
<1> QED
  BY <1>1, <1>4, <1>5, <1>6

\* A group of recursive definitions is installed as definitions, and a member
\* that calls the group has a recursive argument, whatever the source declares.
THEOREM GroupAlwaysInstalled == Spec => GroupInstalled
<1>1. Shape /\ [Next]_vars =>
        [work.phase = "admit" /\ work' = Idle /\ status' = "running" =>
           \A i \in DOMAIN work.group :
             LET e == globals'.entries[work.group[i]]
             IN  /\ e.kind = "def"
                 /\ (\E r \in e.body : r.kind = "entry" /\ r.name \in Names(work.group)) =>
                      e.rec]_vars
  BY OnlyInstall, InstalledWhole
<1> QED
  BY <1>1, ShapeInvariant, PTL DEF Spec, GroupInstalled

-----------------------------------------------------------------------------
(***************************************************************************)
(* Sources that define a name once.  Meanings then stay, since globals     *)
(* only grow, and a definition that unfolds freely mentions only earlier   *)
(* declarations.                                                           *)
(***************************************************************************)

\* h has what g has, and it stands for the same.
Grows(g, h) ==
  /\ \A n \in DOMAIN g.entries :
       n \in DOMAIN h.entries /\ h.entries[n].at = g.entries[n].at
  /\ \A f \in DOMAIN g.families :
       /\ f \in DOMAIN h.families /\ h.families[f].at = g.families[f].at
       /\ DOMAIN g.families[f].ctors \subseteq DOMAIN h.families[f].ctors

\* The references are known in g, and stand for what they were seen as.
Stay(refs, seen, g) == \A r \in refs : Known(r, g) /\ Meaning(r, g) = seen[r]

EntriesStay(g) ==
  \A n \in DOMAIN g.entries :
    Stay(g.entries[n].ty \cup g.entries[n].body, g.entries[n].seen, g)

FamiliesStay(g) ==
  \A f \in DOMAIN g.families :
    /\ Stay(DOMAIN g.families[f].seen, g.families[f].seen, g)
    /\ g.families[f].ty \subseteq DOMAIN g.families[f].seen
    /\ \A c \in DOMAIN g.families[f].ctors :
         g.families[f].ctors[c] \subseteq DOMAIN g.families[f].seen

FreeDescends ==
  \A n \in DOMAIN globals.entries : Unfolds(n) =>
    \A r \in globals.entries[n].body :
      r.kind = "entry" => globals.entries[r.name].at < globals.entries[n].at

\* The names of the group are new, and no two are the same.
GroupOnce ==
  work.phase \in {"postulates", "admit"} =>
    \A i \in 1 .. Len(work.group) :
      /\ work.group[i] \notin DOMAIN globals.entries
      /\ \A j \in 1 .. Len(work.group) : work.group[i] = work.group[j] => i = j

\* The globals that members are admitted in are the original ones and some of
\* the group; the rows mean the same in them as when they were checked.
AdmitOnce ==
  work.phase = "admit" =>
    /\ work.g.families = globals.families
    /\ DOMAIN globals.entries \subseteq DOMAIN work.g.entries
    /\ \A n \in DOMAIN work.g.entries :
         IF n \in DOMAIN globals.entries THEN work.g.entries[n] = globals.entries[n]
         ELSE n \in Names(work.group) /\ work.g.entries[n].at = count
    /\ \A i \in 1 .. Len(work.rows) :
         Stay(work.rows[i][2].ty \cup work.rows[i][2].body, work.rows[i][2].seen, work.g)

CompletingStay == work.phase \in {"declare", "define"} => FamiliesStay(work.g)

Once ==
  /\ EntriesStay(globals) /\ FamiliesStay(globals) /\ FreeDescends
  /\ GroupOnce /\ AdmitOnce /\ CompletingStay

LEMMA KindsOf ==
  ASSUME NEW r \in Refs
  PROVE  r.kind \in {"entry", "family", "ctor"}
  BY DEF Refs

LEMMA StayGrows ==
  ASSUME NEW g, NEW h, Grows(g, h), NEW refs \in SUBSET Refs, NEW seen, Stay(refs, seen, g)
  PROVE  Stay(refs, seen, h)
<1> SUFFICES ASSUME NEW r \in refs PROVE Known(r, h) /\ Meaning(r, h) = seen[r]
  BY DEF Stay
<1>1. Known(r, g) /\ Meaning(r, g) = seen[r]
  BY DEF Stay
<1>2. CASE r.kind = "entry"
  BY <1>1, <1>2 DEF Known, Meaning, Grows
<1>3. CASE r.kind = "family"
  BY <1>1, <1>3 DEF Known, Meaning, Grows
<1>4. CASE r.kind = "ctor"
  BY <1>1, <1>4 DEF Known, Meaning, Grows
<1> QED
  BY <1>2, <1>3, <1>4, KindsOf

\* An entry is checked in globals where its references mean what it says.
LEMMA EntryStays ==
  ASSUME NEW kind, NEW ty, NEW body, NEW rec, NEW g, AllKnown(ty \cup body, g)
  PROVE  LET e == Entry(kind, ty, body, rec, g) IN Stay(e.ty \cup e.body, e.seen, g)
  BY DEF Entry, Stay, AllKnown

\* The names in what was admitted are references.
LEMMA EntryRefs ==
  ASSUME NEW g \in Globals, NEW n \in DOMAIN g.entries
  PROVE  g.entries[n].ty \cup g.entries[n].body \in SUBSET Refs
<1>1. g.entries[n] \in Entries
  BY GlobalsParts
<1> QED
  BY <1>1 DEF Entries

LEMMA FamilyRefs ==
  ASSUME NEW g \in Globals, NEW f \in DOMAIN g.families
  PROVE  DOMAIN g.families[f].seen \in SUBSET Refs
<1>1. g.families[f].seen \in Seens
  BY GlobalsParts DEF Families
<1> QED
  BY <1>1, PartialDef DEF Seens

LEMMA EntryStaysGrows ==
  ASSUME NEW g \in Globals, NEW h, Grows(g, h), NEW n \in DOMAIN g.entries, EntriesStay(g)
  PROVE  Stay(g.entries[n].ty \cup g.entries[n].body, g.entries[n].seen, h)
<1>1. Stay(g.entries[n].ty \cup g.entries[n].body, g.entries[n].seen, g)
  BY DEF EntriesStay
<1> QED
  BY <1>1, EntryRefs, StayGrows

LEMMA SameFamiliesStay ==
  ASSUME NEW g \in Globals, NEW h, Grows(g, h), h.families = g.families, FamiliesStay(g)
  PROVE  FamiliesStay(h)
<1> SUFFICES ASSUME NEW f \in DOMAIN g.families
             PROVE  /\ Stay(DOMAIN g.families[f].seen, g.families[f].seen, h)
                    /\ g.families[f].ty \subseteq DOMAIN g.families[f].seen
                    /\ \A c \in DOMAIN g.families[f].ctors :
                         g.families[f].ctors[c] \subseteq DOMAIN g.families[f].seen
  BY DEF FamiliesStay
<1>1. /\ Stay(DOMAIN g.families[f].seen, g.families[f].seen, g)
      /\ g.families[f].ty \subseteq DOMAIN g.families[f].seen
      /\ \A c \in DOMAIN g.families[f].ctors :
           g.families[f].ctors[c] \subseteq DOMAIN g.families[f].seen
  BY DEF FamiliesStay
<1>2. Stay(DOMAIN g.families[f].seen, g.families[f].seen, h)
  BY <1>1, FamilyRefs, StayGrows
<1> QED
  BY <1>1, <1>2

LEMMA InitOnce ==
  ASSUME Init
  PROVE  Once
<1>1. DOMAIN globals.families = {} /\ work = Idle
  BY EmptyPartial DEF Init
<1>2. /\ \A n \in DOMAIN globals.entries :
           globals.entries[n].ty = {} /\ globals.entries[n].body = {}
  BY DEF Init
<1> QED
  BY <1>1, <1>2 DEF Once, EntriesStay, FamiliesStay, Stay, FreeDescends, GroupOnce, AdmitOnce,
                   CompletingStay, Idle

\* Between declarations only the globals count.
LEMMA IdleOnce ==
  ASSUME EntriesStay(globals)', FamiliesStay(globals)', FreeDescends', work' = Idle
  PROVE  Once'
  BY DEF Once, Idle, GroupOnce, AdmitOnce, CompletingStay

LEMMA QuietOnce ==
  ASSUME Once, UNCHANGED globals
  PROVE  EntriesStay(globals)' /\ FamiliesStay(globals)' /\ FreeDescends'
  BY DEF Once, EntriesStay, FamiliesStay, FreeDescends, Unfolds

\* What an entry of the globals mentions as an entry is one.
LEMMA MentionedIn ==
  ASSUME NEW g, EntriesStay(g), NEW n \in DOMAIN g.entries,
         NEW r \in g.entries[n].ty \cup g.entries[n].body, r.kind = "entry"
  PROVE  r.name \in DOMAIN g.entries
  BY DEF EntriesStay, Stay, Known

LEMMA OrdinaryOnce ==
  ASSUME ~Redeclare, Shape, Once, NEW n \in Name, NEW kind \in {"axiom", "def"},
         NEW ty \in SUBSET Name, NEW body \in SUBSET Name, Ordinary(n, kind, ty, body)
  PROVE  Once'
<1> DEFINE t == Elab(ty, globals)
           b == Elab(body, globals)
           e == Entry(kind, t, b, FALSE, globals)
<1>1. /\ TypeOK /\ work = Idle /\ AllKnown(t \cup b, globals) /\ work' = work
      /\ globals' = Add(globals, n, e) /\ n \notin DOMAIN globals.entries
  BY DEF Shape, Ready, Ordinary, Free, AllKnown
<1>2. t \in SUBSET Refs /\ b \in SUBSET Refs /\ globals \in Globals
  BY <1>1, ElabTyped DEF TypeOK
<1> HIDE DEF t, b
<1>3. e \in Entries
  BY <1>1, <1>2, EntryTyped DEF TypeOK
<1>4. e.at = count /\ e.body = b /\ e.ty = t
  BY DEF Entry
<1>5. Stay(e.ty \cup e.body, e.seen, globals)
  BY <1>1, EntryStays
<1> HIDE DEF e
<1>6. /\ globals' \in Globals /\ globals'.families = globals.families
      /\ DOMAIN globals'.entries = DOMAIN globals.entries \cup {n}
      /\ globals'.entries[n] = e
      /\ \A m \in DOMAIN globals.entries : globals'.entries[m] = globals.entries[m]
  BY <1>1, <1>2, <1>3, AddFacts
<1>7. Grows(globals, globals')
  BY <1>6 DEF Grows
<1>8. EntriesStay(globals')
  <2> SUFFICES ASSUME NEW m \in DOMAIN globals'.entries
               PROVE  Stay(globals'.entries[m].ty \cup globals'.entries[m].body,
                           globals'.entries[m].seen, globals')
    BY DEF EntriesStay
  <2>1. CASE m = n
    <3>1. e.ty \cup e.body \in SUBSET Refs
      BY <1>2, <1>4
    <3> QED
      BY <1>5, <1>6, <1>7, <2>1, <3>1, StayGrows
  <2>2. CASE m \in DOMAIN globals.entries
    BY <1>2, <1>6, <1>7, <2>2, EntryStaysGrows DEF Once
  <2> QED
    BY <1>6, <2>1, <2>2
<1>9. FamiliesStay(globals')
  BY <1>2, <1>6, <1>7, SameFamiliesStay DEF Once
<1>10. FreeDescends'
  <2> SUFFICES ASSUME NEW m \in DOMAIN globals'.entries, Unfolds(m)',
                      NEW r \in globals'.entries[m].body, r.kind = "entry"
               PROVE  globals'.entries[r.name].at < globals'.entries[m].at
    BY DEF FreeDescends
  <2>1. CASE m = n
    <3>1. r.name \in DOMAIN globals.entries
      BY <1>5, <1>6, <2>1 DEF Stay, Known
    <3> QED
      BY <1>4, <1>6, <2>1, <3>1 DEF Shape, Earlier
  <2>2. CASE m \in DOMAIN globals.entries
    <3>1. globals'.entries[m] = globals.entries[m] /\ Unfolds(m)
      BY <1>6, <2>2 DEF Unfolds
    <3>2. r.name \in DOMAIN globals.entries
      BY <2>2, <3>1, MentionedIn DEF Once
    <3> QED
      BY <1>6, <2>2, <3>1, <3>2 DEF Once, FreeDescends
  <2> QED
    BY <1>6, <2>1, <2>2
<1> QED
  BY <1>1, <1>8, <1>9, <1>10, IdleOnce

LEMMA RecTypesOnce ==
  ASSUME ~Redeclare, Once, NEW ns \in RecNames, NEW tys, RecTypes(ns, tys)
  PROVE  Once'
<1>1. UNCHANGED globals /\ work'.phase = "postulates" /\ work'.group = ns
  BY DEF RecTypes
<1>2. ns \in Seq(Name) /\ DOMAIN ns = 1 .. Len(ns)
  BY TuplesTyped, ProgramConstants DEF RecNames
<1>3. GroupOnce'
  BY <1>1, <1>2 DEF GroupOnce, RecNames, Distinct, Free
<1>4. AdmitOnce' /\ CompletingStay'
  BY <1>1 DEF AdmitOnce, CompletingStay
<1> QED
  BY <1>1, <1>3, <1>4, QuietOnce DEF Once

LEMMA RecPostulateOnce ==
  ASSUME Shape, Once, RecPostulate
  PROVE  Once'
<1>1. PICK rs, h : work' = [work EXCEPT !.rows = rs, !.g = h]
  BY DEF RecPostulate
<1>2. UNCHANGED globals /\ work \in Postulating /\ work.phase = "postulates"
  BY Phases5 DEF RecPostulate, Shape
<1>3. work'.phase = "postulates" /\ work'.group = work.group
  BY <1>1, <1>2 DEF Postulating
<1>4. GroupOnce'
  BY <1>2, <1>3 DEF GroupOnce, Once
<1>5. AdmitOnce' /\ CompletingStay'
  BY <1>3 DEF AdmitOnce, CompletingStay
<1> QED
  BY <1>2, <1>4, <1>5, QuietOnce DEF Once

LEMMA RecGuardOnce ==
  ASSUME Shape, Once, NEW bodies, RecGuard(bodies)
  PROVE  Once'
<1> DEFINE provisional == Install(work.rows, globals)
<1>1. /\ UNCHANGED globals /\ work \in Postulating /\ work.phase = "postulates"
      /\ work'.phase = "admit" /\ work'.group = work.group /\ work'.rows = << >>
      /\ work'.g = globals \/ work'.g = provisional
      /\ Len(work.rows) = Len(work.group) /\ PostulatesShape /\ TypeOK
  BY Phases5 DEF RecGuard, Shape
<1>2. /\ work.rows \in Rows /\ globals \in Globals /\ work.group \in Seq(Name)
      /\ DOMAIN work.rows = 1 .. Len(work.rows) /\ DOMAIN work.group = 1 .. Len(work.group)
  BY <1>1 DEF Postulating, TypeOK, Rows
<1>3. RowNames(work.rows) = Names(work.group)
  BY <1>1, <1>2 DEF RowNames, Names, PostulatesShape
<1>4. \A n \in Names(work.group) : n \notin DOMAIN globals.entries
  BY <1>1, <1>2 DEF Once, GroupOnce, Names
<1>5. /\ provisional.families = globals.families
      /\ DOMAIN provisional.entries = DOMAIN globals.entries \cup Names(work.group)
      /\ \A n \in DOMAIN globals.entries : provisional.entries[n] = globals.entries[n]
      /\ \A n \in Names(work.group) :
           \E i \in 1 .. Len(work.rows) : provisional.entries[n] = work.rows[i][2]
  BY <1>2, <1>3, <1>4, InstallFacts
<1>6. \A n \in Names(work.group) : provisional.entries[n].at = count
  BY <1>1, <1>5 DEF PostulatesShape
<1> HIDE DEF provisional
<1>7. count' = count
  BY DEF RecGuard
<1>8. AdmitOnce'
  <2>1. CASE work'.g = globals
    BY <1>1, <2>1 DEF AdmitOnce
  <2>2. CASE work'.g = provisional
    BY <1>1, <1>4, <1>5, <1>6, <1>7, <2>2 DEF AdmitOnce
  <2> QED
    BY <1>1, <2>1, <2>2
<1>9. GroupOnce'
  BY <1>1 DEF GroupOnce, Once
<1>10. CompletingStay'
  BY <1>1 DEF CompletingStay
<1> QED
  BY <1>1, <1>8, <1>9, <1>10, QuietOnce DEF Once

LEMMA RecAdmitOnce ==
  ASSUME Shape, Once, RecAdmit
  PROVE  Once'
<1> DEFINE i == Len(work.rows) + 1
           b == i \in work.calls
           e == Entry("def", work.ty[i], work.body[i], b, work.g)
           rs == Append(work.rows, <<work.group[i], e>>)
           h == IF work.calls = {} THEN Add(work.g, work.group[i], e) ELSE work.g
<1>1. /\ TypeOK /\ UNCHANGED <<globals, rows, status, count>>
      /\ work \in Admitting /\ work.phase = "admit" /\ AdmitShape
      /\ Len(work.rows) < Len(work.group)
      /\ AllKnown(work.ty[i] \cup work.body[i], work.g)
      /\ work' = [work EXCEPT !.rows = rs, !.g = h]
      /\ AdmitOnce /\ GroupOnce
  BY Phases5 DEF RecAdmit, Shape, Once
<1>2. /\ work.group \in Seq(Name) /\ work.g \in Globals /\ work.rows \in Rows
      /\ work.ty \in Seq(SUBSET Refs) /\ Len(work.ty) = Len(work.group)
      /\ work.body \in Seq(SUBSET Refs) /\ Len(work.body) = Len(work.group)
      /\ i \in 1 .. Len(work.group) /\ work.group[i] \in Name
      /\ work.group[i] \in Names(work.group)
  BY <1>1 DEF Admitting, AdmitShape, Rows, Names
<1>3. work.ty[i] \in SUBSET Refs /\ work.body[i] \in SUBSET Refs /\ b \in BOOLEAN
  BY <1>2
<1>4. e \in Entries /\ e.at = count /\ e.ty = work.ty[i] /\ e.body = work.body[i]
  <2> HIDE DEF b
  <2>1. e \in Entries
    BY <1>1, <1>2, <1>3, EntryTyped DEF TypeOK
  <2> QED
    BY <2>1 DEF Entry
<1>5. Stay(e.ty \cup e.body, e.seen, work.g)
  BY <1>1, EntryStays
<1> HIDE DEF e
<1>6. /\ rs \in Rows /\ Len(rs) = i
      /\ \A j \in 1 .. i : rs[j] = IF j = i THEN <<work.group[i], e>> ELSE work.rows[j]
  BY <1>2, <1>4 DEF Rows
<1>7. work.group[i] \notin DOMAIN globals.entries
  BY <1>1, <1>2 DEF GroupOnce
<1>8. /\ h.families = work.g.families
      /\ DOMAIN work.g.entries \subseteq DOMAIN h.entries
      /\ \A n \in DOMAIN h.entries :
           \/ n \in DOMAIN work.g.entries /\ h.entries[n] = work.g.entries[n]
           \/ n = work.group[i] /\ h.entries[n] = e
  <2>1. CASE work.calls = {}
    BY <1>2, <1>4, <2>1, AddFacts
  <2>2. CASE work.calls # {}
    BY <2>2
  <2> QED
    BY <2>1, <2>2
<1> HIDE DEF rs, h
<1>9. work' = [phase |-> "admit", group |-> work.group, ty |-> work.ty, body |-> work.body,
               rows |-> rs, calls |-> work.calls, g |-> h]
  BY <1>1 DEF Admitting
<1>10. Grows(work.g, h)
  <2>1. \A n \in DOMAIN work.g.entries : h.entries[n].at = work.g.entries[n].at
    <3> SUFFICES ASSUME NEW n \in DOMAIN work.g.entries
                 PROVE  h.entries[n].at = work.g.entries[n].at
      OBVIOUS
    <3>1. CASE h.entries[n] = work.g.entries[n]
      BY <3>1
    <3>2. CASE n = work.group[i] /\ h.entries[n] = e
      BY <1>1, <1>4, <1>7, <3>2 DEF AdmitOnce
    <3> QED
      BY <1>8, <3>1, <3>2
  <2> QED
    BY <1>8, <2>1 DEF Grows
<1>11. \A j \in 1 .. Len(rs) : Stay(rs[j][2].ty \cup rs[j][2].body, rs[j][2].seen, h)
  <2> SUFFICES ASSUME NEW j \in 1 .. Len(rs)
               PROVE  Stay(rs[j][2].ty \cup rs[j][2].body, rs[j][2].seen, h)
    OBVIOUS
  <2>1. CASE j = i
    <3>1. e.ty \cup e.body \in SUBSET Refs
      BY <1>3, <1>4
    <3>2. Stay(e.ty \cup e.body, e.seen, h)
      BY <1>5, <1>10, <3>1, StayGrows
    <3>3. rs[j][2] = e
      BY <1>6, <2>1
    <3> QED
      BY <3>2, <3>3
  <2>2. CASE j # i
    <3>1. j \in 1 .. Len(work.rows) /\ rs[j] = work.rows[j]
      BY <1>2, <1>6, <2>2 DEF Rows
    <3>2. work.rows[j] \in Name \X Entries
      BY <1>2, <3>1 DEF Rows
    <3>3. work.rows[j][2].ty \cup work.rows[j][2].body \in SUBSET Refs
      BY <3>2 DEF Entries
    <3>4. Stay(work.rows[j][2].ty \cup work.rows[j][2].body, work.rows[j][2].seen, work.g)
      BY <1>1, <3>1 DEF AdmitOnce
    <3>5. Stay(work.rows[j][2].ty \cup work.rows[j][2].body, work.rows[j][2].seen, h)
      BY <1>10, <3>3, <3>4, StayGrows
    <3> QED
      BY <3>1, <3>5
  <2> QED
    BY <2>1, <2>2
<1>12. AdmitOnce'
  <2>1. /\ h.families = globals.families
        /\ DOMAIN globals.entries \subseteq DOMAIN h.entries
    BY <1>1, <1>8 DEF AdmitOnce
  <2>2. \A n \in DOMAIN h.entries :
          IF n \in DOMAIN globals.entries THEN h.entries[n] = globals.entries[n]
          ELSE n \in Names(work.group) /\ h.entries[n].at = count
    <3> SUFFICES ASSUME NEW n \in DOMAIN h.entries
                 PROVE  IF n \in DOMAIN globals.entries THEN h.entries[n] = globals.entries[n]
                        ELSE n \in Names(work.group) /\ h.entries[n].at = count
      OBVIOUS
    <3>1. CASE n \in DOMAIN work.g.entries /\ h.entries[n] = work.g.entries[n]
      BY <1>1, <3>1 DEF AdmitOnce
    <3>2. CASE n = work.group[i] /\ h.entries[n] = e
      BY <1>2, <1>4, <1>7, <3>2
    <3> QED
      BY <1>8, <3>1, <3>2
  <2> QED
    BY <1>1, <1>9, <1>11, <2>1, <2>2 DEF AdmitOnce
<1>13. GroupOnce' /\ CompletingStay'
  BY <1>1, <1>9 DEF GroupOnce, CompletingStay
<1> QED
  BY <1>1, <1>12, <1>13, QuietOnce DEF Once

\* What the completion of a group of definitions installs.
LEMMA Installed ==
  ASSUME Shape, Once, RecInstall
  PROVE  /\ globals' \in Globals /\ globals'.families = globals.families
         /\ Names(work.group) \cap DOMAIN globals.entries = {}
         /\ DOMAIN globals'.entries = DOMAIN globals.entries \cup Names(work.group)
         /\ \A n \in DOMAIN globals.entries : globals'.entries[n] = globals.entries[n]
         /\ \A i \in 1 .. Len(work.group) :
              globals'.entries[work.group[i]] = work.rows[i][2]
         /\ Grows(globals, globals') /\ Grows(work.g, globals')
<1>1. /\ TypeOK /\ work \in Admitting /\ work.phase = "admit" /\ AdmitShape
      /\ Len(work.rows) = Len(work.group) /\ GroupOnce /\ AdmitOnce
      /\ globals' = Install(work.rows, globals)
  BY Phases5 DEF RecInstall, Shape, Once
<1>2. /\ work.rows \in Rows /\ globals \in Globals /\ work.group \in Seq(Name)
      /\ DOMAIN work.rows = 1 .. Len(work.rows) /\ DOMAIN work.group = 1 .. Len(work.group)
  BY <1>1 DEF Admitting, TypeOK, Rows
<1>3. RowNames(work.rows) = Names(work.group)
  BY <1>1, <1>2 DEF RowNames, Names, AdmitShape
<1>4. \A n \in Names(work.group) : n \notin DOMAIN globals.entries
  BY <1>1, <1>2 DEF GroupOnce, Names
<1>5. /\ globals' \in Globals /\ globals'.families = globals.families
      /\ DOMAIN globals'.entries = DOMAIN globals.entries \cup Names(work.group)
      /\ \A n \in DOMAIN globals.entries : globals'.entries[n] = globals.entries[n]
      /\ \A n \in Names(work.group) :
           \E i \in 1 .. Len(work.rows) :
             work.rows[i][1] = n /\ globals'.entries[n] = work.rows[i][2]
  BY <1>1, <1>2, <1>3, <1>4, InstallFacts
<1>6. \A i \in 1 .. Len(work.group) : globals'.entries[work.group[i]] = work.rows[i][2]
  BY <1>1, <1>2, <1>5 DEF AdmitShape, GroupOnce, Names
<1>7. Grows(globals, globals')
  BY <1>5 DEF Grows
<1>8. Grows(work.g, globals')
  <2>1. \A n \in DOMAIN work.g.entries :
          n \in DOMAIN globals'.entries /\ globals'.entries[n].at = work.g.entries[n].at
    <3> SUFFICES ASSUME NEW n \in DOMAIN work.g.entries
                 PROVE  /\ n \in DOMAIN globals'.entries
                        /\ globals'.entries[n].at = work.g.entries[n].at
      OBVIOUS
    <3>1. CASE n \in DOMAIN globals.entries
      BY <1>1, <1>5, <3>1 DEF AdmitOnce
    <3>2. CASE n \notin DOMAIN globals.entries
      BY <1>1, <1>5, <3>2 DEF AdmitOnce, AdmitShape
    <3> QED
      BY <3>1, <3>2
  <2> QED
    BY <1>1, <1>5, <2>1 DEF Grows, AdmitOnce
<1> QED
  BY <1>4, <1>5, <1>6, <1>7, <1>8

LEMMA RecInstallOnce ==
  ASSUME Shape, Once, RecInstall
  PROVE  Once'
<1>1. /\ TypeOK /\ Earlier /\ work \in Admitting /\ work.phase = "admit" /\ AdmitShape
      /\ Len(work.rows) = Len(work.group) /\ GroupOnce /\ AdmitOnce /\ work' = Idle
  BY Phases5 DEF RecInstall, Shape, Once
<1>2. /\ work.rows \in Rows /\ globals \in Globals /\ work.group \in Seq(Name)
      /\ DOMAIN work.group = 1 .. Len(work.group) /\ count \in Nat
  BY <1>1 DEF Admitting, TypeOK
<1>3. /\ globals' \in Globals /\ globals'.families = globals.families
      /\ Names(work.group) \cap DOMAIN globals.entries = {}
      /\ DOMAIN globals'.entries = DOMAIN globals.entries \cup Names(work.group)
      /\ \A n \in DOMAIN globals.entries : globals'.entries[n] = globals.entries[n]
      /\ \A i \in 1 .. Len(work.group) : globals'.entries[work.group[i]] = work.rows[i][2]
      /\ Grows(globals, globals') /\ Grows(work.g, globals')
  BY Installed
<1>4. ASSUME NEW i \in 1 .. Len(work.group)
      PROVE  /\ Stay(work.rows[i][2].ty \cup work.rows[i][2].body, work.rows[i][2].seen, work.g)
             /\ work.rows[i][2].ty \cup work.rows[i][2].body \in SUBSET Refs
             /\ work.rows[i][2].at = count /\ work.rows[i][2].body = work.body[i]
             /\ work.rows[i][2].rec = (i \in work.calls)
  <2>1. work.rows[i] \in Name \X Entries
    BY <1>1, <1>2 DEF Rows
  <2> QED
    BY <1>1, <2>1 DEF AdmitOnce, AdmitShape, Entries
<1>5. EntriesStay(globals')
  <2> SUFFICES ASSUME NEW m \in DOMAIN globals'.entries
               PROVE  Stay(globals'.entries[m].ty \cup globals'.entries[m].body,
                           globals'.entries[m].seen, globals')
    BY DEF EntriesStay
  <2>1. CASE m \in Names(work.group)
    <3>1. PICK i \in 1 .. Len(work.group) : m = work.group[i]
      BY <1>2, <2>1 DEF Names
    <3>2. /\ Stay(work.rows[i][2].ty \cup work.rows[i][2].body, work.rows[i][2].seen, work.g)
          /\ work.rows[i][2].ty \cup work.rows[i][2].body \in SUBSET Refs
      BY <1>4
    <3>3. Stay(work.rows[i][2].ty \cup work.rows[i][2].body, work.rows[i][2].seen, globals')
      BY <1>3, <3>2, StayGrows
    <3> QED
      BY <1>3, <3>1, <3>3
  <2>2. CASE m \in DOMAIN globals.entries
    BY <1>2, <1>3, <2>2, EntryStaysGrows DEF Once
  <2> QED
    BY <1>3, <2>1, <2>2
<1>6. FamiliesStay(globals')
  BY <1>2, <1>3, SameFamiliesStay DEF Once
<1>7. FreeDescends'
  <2> SUFFICES ASSUME NEW m \in DOMAIN globals'.entries, Unfolds(m)',
                      NEW r \in globals'.entries[m].body, r.kind = "entry"
               PROVE  globals'.entries[r.name].at < globals'.entries[m].at
    BY DEF FreeDescends
  <2>1. CASE m \in Names(work.group)
    <3>1. PICK i \in 1 .. Len(work.group) : m = work.group[i]
      BY <1>2, <2>1 DEF Names
    <3>2. i \notin work.calls /\ r \in work.body[i] /\ globals'.entries[m].at = count
      BY <1>3, <1>4, <3>1 DEF Unfolds
    <3>3. r.name \notin Names(work.group)
      BY <1>1, <1>2, <3>2 DEF AdmitShape, Calls, Mentions
    <3>4. r.name \in DOMAIN work.g.entries
      BY <1>4, <3>2 DEF Stay, Known
    <3>5. r.name \in DOMAIN globals.entries
      BY <1>1, <3>3, <3>4 DEF AdmitOnce
    <3> QED
      BY <1>1, <1>3, <3>2, <3>5 DEF Earlier
  <2>2. CASE m \in DOMAIN globals.entries
    <3>1. globals'.entries[m] = globals.entries[m] /\ Unfolds(m)
      BY <1>3, <2>2 DEF Unfolds
    <3>2. r.name \in DOMAIN globals.entries
      BY <2>2, <3>1, MentionedIn DEF Once
    <3> QED
      BY <1>3, <2>2, <3>1, <3>2 DEF Once, FreeDescends
  <2> QED
    BY <1>3, <2>1, <2>2
<1> QED
  BY <1>1, <1>5, <1>6, <1>7, IdleOnce

LEMMA MuFreshOnce ==
  ASSUME Shape, Once, NEW fams, NEW ctors, MuFresh(fams, ctors)
  PROVE  Once'
<1>1. UNCHANGED globals /\ work'.phase = "declare" /\ work'.g = globals
  BY DEF MuFresh
<1>2. CompletingStay'
  BY <1>1 DEF CompletingStay, Once
<1>3. GroupOnce' /\ AdmitOnce'
  BY <1>1 DEF GroupOnce, AdmitOnce
<1> QED
  BY <1>1, <1>2, <1>3, QuietOnce DEF Once

\* A family of a group that is put in the place of one without constructors,
\* or in no one's.
LEMMA FamilyPut ==
  ASSUME NEW g \in Globals, NEW h, NEW f, NEW fam \in Families, FamiliesStay(g),
         DOMAIN h.families = DOMAIN g.families \cup {f}, h.entries = g.entries,
         h.families[f] = fam,
         \A k \in DOMAIN g.families : k # f => h.families[k] = g.families[k],
         f \in DOMAIN g.families =>
           g.families[f].at = fam.at /\ DOMAIN g.families[f].ctors = {},
         Stay(DOMAIN fam.seen, fam.seen, g), fam.ty \subseteq DOMAIN fam.seen,
         \A c \in DOMAIN fam.ctors : fam.ctors[c] \subseteq DOMAIN fam.seen
  PROVE  FamiliesStay(h) /\ Grows(g, h)
<1>1. Grows(g, h)
  BY DEF Grows
<1>2. ASSUME NEW k \in DOMAIN h.families
      PROVE  /\ Stay(DOMAIN h.families[k].seen, h.families[k].seen, h)
             /\ h.families[k].ty \subseteq DOMAIN h.families[k].seen
             /\ \A c \in DOMAIN h.families[k].ctors :
                  h.families[k].ctors[c] \subseteq DOMAIN h.families[k].seen
  <2>1. CASE k = f
    <3>1. DOMAIN fam.seen \in SUBSET Refs
      BY PartialDef DEF Families, Seens
    <3>2. Stay(DOMAIN fam.seen, fam.seen, h)
      BY <1>1, <3>1, StayGrows
    <3> QED
      BY <2>1, <3>2
  <2>2. CASE k # f
    <3>1. k \in DOMAIN g.families /\ h.families[k] = g.families[k]
      BY <2>2
    <3>2. /\ Stay(DOMAIN g.families[k].seen, g.families[k].seen, g)
          /\ g.families[k].ty \subseteq DOMAIN g.families[k].seen
          /\ \A c \in DOMAIN g.families[k].ctors :
               g.families[k].ctors[c] \subseteq DOMAIN g.families[k].seen
      BY <3>1 DEF FamiliesStay
    <3>3. Stay(DOMAIN g.families[k].seen, g.families[k].seen, h)
      BY <1>1, <3>1, <3>2, FamilyRefs, StayGrows
    <3> QED
      BY <3>1, <3>2, <3>3
  <2> QED
    BY <2>1, <2>2
<1> QED
  BY <1>1, <1>2 DEF FamiliesStay

LEMMA MuDeclareOnce ==
  ASSUME Shape, Once, NEW names \in Types, MuDeclare(names)
  PROVE  Once'
<1> DEFINE f == work.group[work.next]
           ty == Elab(names, work.g)
           fam == [status |-> "provisional", ty |-> ty, ctors |-> << >>, at |-> count,
                   seen |-> SeenIn(ty, work.g)]
           h == AddFamily(work.g, f, fam)
<1>1. /\ TypeOK /\ UNCHANGED globals /\ work.phase = "declare" /\ work.next <= Len(work.group)
      /\ f \notin DOMAIN work.g.families /\ AllKnown(ty, work.g)
      /\ work' = [work EXCEPT !.next = work.next + 1, !.g = h]
      /\ FamiliesStay(work.g)
  BY DEF MuDeclare, Shape, Once, CompletingStay
<1>2. /\ work.group \in Seq(Name) /\ work.g \in Globals
      /\ work.next \in 1 .. Len(work.group) /\ count \in Nat
      /\ work = [phase |-> work.phase, group |-> work.group, ctors |-> work.ctors,
                 g |-> work.g, next |-> work.next]
  BY <1>1, CompletingParts
<1>3. work'.phase = "declare" /\ work'.g = h
  BY <1>1, <1>2
<1>4. ty \in SUBSET Refs
  BY <1>2, ElabTyped, TypesTyped
<1>5. /\ SeenIn(ty, work.g) \in Seens /\ DOMAIN SeenIn(ty, work.g) = ty
      /\ \A r \in ty : SeenIn(ty, work.g)[r] = Meaning(r, work.g)
  BY <1>1, <1>2, <1>4, SeenTyped
<1>6. << >> \in Partial(Name, SUBSET Refs) /\ DOMAIN << >> = {}
  BY EmptyPartial
<1> HIDE DEF ty
<1>7. fam \in Families /\ f \in Name
  BY <1>2, <1>4, <1>5, <1>6 DEF Families
<1>8. /\ Stay(DOMAIN fam.seen, fam.seen, work.g) /\ fam.ty \subseteq DOMAIN fam.seen
      /\ DOMAIN fam.ctors = {}
  BY <1>1, <1>5, <1>6 DEF Stay, AllKnown
<1> HIDE DEF fam, f
<1>9. /\ h.entries = work.g.entries
      /\ DOMAIN h.families = DOMAIN work.g.families \cup {f} /\ h.families[f] = fam
      /\ \A k \in DOMAIN work.g.families : k # f => h.families[k] = work.g.families[k]
  BY <1>2, <1>7, AddFamilyFacts
<1> HIDE DEF h
<1>10. FamiliesStay(h)
  BY <1>1, <1>2, <1>7, <1>8, <1>9, FamilyPut
<1>11. GroupOnce' /\ AdmitOnce' /\ CompletingStay'
  BY <1>3, <1>10 DEF GroupOnce, AdmitOnce, CompletingStay
<1> QED
  BY <1>1, <1>11, QuietOnce DEF Once

LEMMA MuDeclaredOnce ==
  ASSUME Shape, Once, MuDeclared
  PROVE  Once'
<1>1. /\ UNCHANGED globals /\ work.phase = "declare"
      /\ work' = [work EXCEPT !.phase = "define", !.next = 1]
  BY DEF MuDeclared
<1>2. work = [phase |-> work.phase, group |-> work.group, ctors |-> work.ctors,
              g |-> work.g, next |-> work.next]
  BY <1>1, CompletingParts
<1>3. work'.phase = "define" /\ work'.g = work.g
  BY <1>1, <1>2
<1>4. GroupOnce' /\ AdmitOnce' /\ CompletingStay'
  BY <1>1, <1>3 DEF GroupOnce, AdmitOnce, CompletingStay, Once
<1> QED
  BY <1>1, <1>4, QuietOnce DEF Once

LEMMA MuDefineOnce ==
  ASSUME Shape, Once, work.phase = "define", work.next <= Len(work.group),
         NEW names \in [work.ctors[work.next] -> Types], MuDefine(names)
  PROVE  Once'
<1> DEFINE f == work.group[work.next]
           ctors == [c \in work.ctors[work.next] |-> Elab(names[c], work.g)]
           refs == UNION {ctors[c] : c \in DOMAIN ctors}
           old == work.g.families[f]
           seen == SeenAlso(old.seen, refs, work.g)
           fam == [old EXCEPT !.status = "complete", !.ctors = ctors, !.seen = seen]
           h == AddFamily(work.g, f, fam)
<1>1. /\ TypeOK /\ UNCHANGED globals /\ AllKnown(refs, work.g)
      /\ work' = [work EXCEPT !.next = work.next + 1, !.g = h]
      /\ FamiliesFresh /\ FamiliesShape /\ FamiliesStay(work.g)
  BY DEF MuDefine, Shape, Once, CompletingStay
<1>2. /\ work.group \in Seq(Name) /\ work.g \in Globals /\ work.ctors \in Seq(SUBSET Name)
      /\ Len(work.ctors) = Len(work.group)
      /\ work.next \in 1 .. Len(work.group) /\ count \in Nat
      /\ work = [phase |-> work.phase, group |-> work.group, ctors |-> work.ctors,
                 g |-> work.g, next |-> work.next]
  BY CompletingParts
<1>3. work'.phase = "define" /\ work'.g = h
  BY <1>1, <1>2
<1>4. Declared = Len(work.group) /\ Completed = work.next - 1
  BY <1>2 DEF Declared, Completed
<1>5. f \in DOMAIN work.g.families /\ DOMAIN old.ctors = {} /\ f \in Name
  <2>1. work.next > work.next - 1 /\ work.next \in 1 .. Len(work.group)
    BY <1>2
  <2>2. f \in DOMAIN work.g.families
    BY <1>1, <1>4, <2>1 DEF FamiliesShape
  <2>3. DOMAIN old.ctors = {}
    BY <1>1, <1>4, <2>1 DEF FamiliesShape
  <2> QED
    BY <1>2, <2>2, <2>3
<1>6. old \in Families /\ old.seen \in Seens
  BY <1>2, <1>5, GlobalsParts DEF Families
<1>7. /\ \A c \in DOMAIN ctors : ctors[c] \subseteq refs
      /\ ctors \in Partial(Name, SUBSET Refs) /\ refs \in SUBSET Refs
  <2>1. \A c \in work.ctors[work.next] : ctors[c] \in SUBSET Refs
    BY <1>2, ElabTyped, TypesTyped
  <2> QED
    BY <1>2, <2>1, PartialDef
<1> HIDE DEF refs
<1>8. seen \in Seens
  BY <1>1, <1>2, <1>6, <1>7, SeenMore
<1>9. /\ Stay(DOMAIN old.seen, old.seen, work.g) /\ old.ty \subseteq DOMAIN old.seen
  BY <1>1, <1>5 DEF FamiliesStay
<1>10. DOMAIN seen = DOMAIN old.seen \cup refs /\ Stay(DOMAIN seen, seen, work.g)
  BY <1>1, <1>9 DEF Stay, SeenAlso, AllKnown
<1>11. fam = [old EXCEPT !.status = "complete", !.ctors = ctors, !.seen = seen]
  OBVIOUS
<1> HIDE DEF ctors, seen, old, fam
<1>12. fam = [status |-> "complete", ty |-> old.ty, ctors |-> ctors, at |-> old.at,
              seen |-> seen]
  BY <1>6, <1>11 DEF Families
<1>13. fam \in Families
  BY <1>6, <1>7, <1>8, <1>12 DEF Families
<1>14. /\ fam.at = old.at /\ Stay(DOMAIN fam.seen, fam.seen, work.g)
       /\ fam.ty \subseteq DOMAIN fam.seen
       /\ \A c \in DOMAIN fam.ctors : fam.ctors[c] \subseteq DOMAIN fam.seen
  BY <1>7, <1>9, <1>10, <1>12
<1>15. /\ work.g.families[f].at = fam.at /\ DOMAIN work.g.families[f].ctors = {}
  BY <1>5, <1>14 DEF old
<1> HIDE DEF f
<1>16. /\ h.entries = work.g.entries
       /\ DOMAIN h.families = DOMAIN work.g.families \cup {f} /\ h.families[f] = fam
       /\ \A k \in DOMAIN work.g.families : k # f => h.families[k] = work.g.families[k]
  BY <1>2, <1>5, <1>13, AddFamilyFacts
<1> HIDE DEF h
<1>17. FamiliesStay(h)
  BY <1>1, <1>2, <1>13, <1>14, <1>15, <1>16, FamilyPut
<1>18. GroupOnce' /\ AdmitOnce' /\ CompletingStay'
  BY <1>3, <1>17 DEF GroupOnce, AdmitOnce, CompletingStay
<1> QED
  BY <1>1, <1>18, QuietOnce DEF Once

LEMMA MuInstalled ==
  ASSUME Shape, MuInstall
  PROVE  /\ globals' = work.g /\ work.g.entries = globals.entries
         /\ DOMAIN globals.families \subseteq DOMAIN work.g.families
         /\ \A f \in DOMAIN globals.families : work.g.families[f] = globals.families[f]
         /\ work.group[1] \in DOMAIN work.g.families \ DOMAIN globals.families
         /\ Grows(globals, globals')
<1>1. /\ FamiliesShape /\ work.phase = "define" /\ globals' = work.g
  BY DEF MuInstall, Shape
<1>2. Declared = Len(work.group) /\ Len(work.group) \in Nat \ {0}
  BY <1>1, CompletingParts DEF Declared
<1> QED
  BY <1>1, <1>2 DEF FamiliesShape, Grows

LEMMA MuInstallOnce ==
  ASSUME Shape, Once, MuInstall
  PROVE  Once'
<1>1. work.phase = "define" /\ work' = Idle /\ globals \in Globals
  BY DEF MuInstall, Shape, TypeOK
<1>2. globals'.entries = globals.entries /\ Grows(globals, globals') /\ globals' = work.g
  BY MuInstalled
<1>3. \A n \in DOMAIN globals.entries :
        Stay(globals.entries[n].ty \cup globals.entries[n].body, globals.entries[n].seen, globals')
  BY <1>1, <1>2, EntryStaysGrows DEF Once
<1>4. EntriesStay(globals')
  BY <1>2, <1>3 DEF EntriesStay
<1>5. FamiliesStay(globals')
  BY <1>1, <1>2 DEF Once, CompletingStay
<1>6. FreeDescends'
  BY <1>2 DEF Once, FreeDescends, Unfolds
<1> QED
  BY <1>1, <1>4, <1>5, <1>6, IdleOnce

LEMMA NextOnce ==
  ASSUME ~Redeclare, Shape, Once, [Next]_vars
  PROVE  Once'
<1>1. CASE \E n \in Name, ty \in Types : Ordinary(n, "axiom", ty, {})
  <2>1. PICK n \in Name, ty \in Types : Ordinary(n, "axiom", ty, {})
    BY <1>1
  <2> QED
    BY <2>1, OrdinaryOnce, TypesTyped
<1>2. CASE \E n \in Name, ty \in Types, body \in Bodies : Ordinary(n, "def", ty, body)
  BY <1>2, OrdinaryOnce, TypesTyped
<1>3. CASE Ready /\ \E ns \in RecNames : \E tys \in [DOMAIN ns -> Types] : RecTypes(ns, tys)
  BY <1>3, RecTypesOnce
<1>4. CASE work.phase = "postulates" /\ \E bodies \in [DOMAIN work.group -> Bodies] : RecGuard(bodies)
  BY <1>4, RecGuardOnce
<1>5. CASE RecPostulate \/ RecAdmit \/ RecInstall
  BY <1>5, RecPostulateOnce, RecAdmitOnce, RecInstallOnce
<1>6. CASE \E fams \in Tuples(Name, FamGroup) : \E ctors \in [DOMAIN fams -> Types] :
             MuFresh(fams, ctors)
  BY <1>6, MuFreshOnce
<1>7. CASE \E names \in Types : MuDeclare(names)
  BY <1>7, MuDeclareOnce
<1>8. CASE /\ work.phase = "define" /\ work.next <= Len(work.group)
           /\ \E names \in [work.ctors[work.next] -> Types] : MuDefine(names)
  BY <1>8, MuDefineOnce
<1>9. CASE MuDeclared \/ MuInstall
  BY <1>9, MuDeclaredOnce, MuInstallOnce
<1>10. CASE Refuse \/ Finish
  <2>1. UNCHANGED globals /\ work' = Idle
    BY <1>10 DEF Refuse, Finish
  <2> QED
    BY <2>1, QuietOnce, IdleOnce
<1>11. CASE UNCHANGED vars
  BY <1>11 DEF vars, Once, EntriesStay, FamiliesStay, FreeDescends, Unfolds, GroupOnce, AdmitOnce,
               CompletingStay
<1> QED
  BY <1>1, <1>2, <1>3, <1>4, <1>5, <1>6, <1>7, <1>8, <1>9, <1>10, <1>11 DEF Next

LEMMA OnceInvariant ==
  ASSUME ~Redeclare
  PROVE  Spec => [](Shape /\ Once)
<1>1. Init => Shape /\ Once
  BY InitShape, InitOnce
<1>2. Shape /\ Once /\ [Next]_vars => (Shape /\ Once)'
  BY NextShape, NextOnce
<1> QED
  BY <1>1, <1>2, PTL DEF Spec

\* In a source that defines a name once, definitions that unfold freely do
\* not unfold forever (eval_eval_entry evaluates the body at each mention):
\* of any set of them, the first declared mentions none.
THEOREM UnfoldingAlwaysEnds ==
  ASSUME ~Redeclare
  PROVE  Spec => []UnfoldingEnds
<1>1. Shape /\ Once => UnfoldingEnds
  <2> SUFFICES ASSUME Shape, Once,
                      NEW S \in SUBSET {n \in DOMAIN globals.entries : Unfolds(n)}, S # {}
               PROVE  \E n \in S : \A r \in globals.entries[n].body :
                        r.kind = "entry" => r.name \notin S
    BY DEF UnfoldingEnds
  <2> DEFINE ats == {globals.entries[n].at : n \in S}
  <2>1. \A n \in DOMAIN globals.entries : globals.entries[n].at \in Nat
    BY GlobalsParts DEF Shape, TypeOK, Entries
  <2>2. ats \in SUBSET Nat /\ ats # {}
    BY <2>1
  <2>3. PICK m \in ats : \A k \in ats : m <= k
    BY <2>2, SmallestOf
  <2>4. PICK n \in S : m = globals.entries[n].at
    BY <2>3
  <2>5. ASSUME NEW r \in globals.entries[n].body, r.kind = "entry", r.name \in S
        PROVE  FALSE
    <3>1. globals.entries[r.name].at < m
      BY <2>4, <2>5 DEF Once, FreeDescends
    <3>2. m <= globals.entries[r.name].at
      BY <2>3, <2>5
    <3>3. m \in Nat /\ globals.entries[r.name].at \in Nat
      BY <2>1, <2>2, <2>5
    <3> QED
      BY <3>1, <3>2, <3>3
  <2> QED
    BY <2>5
<1> QED
  BY <1>1, OnceInvariant, PTL

\* In a source that defines a name once, every reference of what was admitted
\* keeps the meaning it was checked with.
THEOREM MeaningsAlwaysStay ==
  ASSUME ~Redeclare
  PROVE  Spec => []MeaningsStay
<1>1. Once => MeaningsStay
  BY DEF Once, MeaningsStay, EntriesStay, FamiliesStay, Stay
<1> QED
  BY <1>1, OnceInvariant, PTL

-----------------------------------------------------------------------------
(***************************************************************************)
(* The steps of a declaration are one admission.                           *)
(***************************************************************************)

LEMMA GlobalsClosed ==
  ASSUME NEW g, EntriesStay(g), FamiliesStay(g)
  PROVE  A!Closed(g)
<1>1. \A n \in DOMAIN g.entries : \A r \in g.entries[n].ty \cup g.entries[n].body : Known(r, g)
  BY DEF EntriesStay, Stay
<1>2. ASSUME NEW f \in DOMAIN g.families
      PROVE  /\ \A r \in g.families[f].ty : Known(r, g)
             /\ \A c \in DOMAIN g.families[f].ctors : \A r \in g.families[f].ctors[c] : Known(r, g)
  BY DEF FamiliesStay, Stay
<1> QED
  BY <1>1, <1>2 DEF A!Closed

LEMMA AdmitsFirst ==
  ASSUME Init
  PROVE  A!Init
BY DEF Init, A!Init

\* What is appended comes back as the end of the whole.
LEMMA EndOfConcat ==
  ASSUME NEW S, NEW s \in Seq(S), NEW t \in Seq(S)
  PROVE  /\ Len(s) \in Nat /\ Len(s \o t) = Len(s) + Len(t)
         /\ SubSeq(s \o t, 1, Len(s)) = s
         /\ SubSeq(s \o t, Len(s) + 1, Len(s \o t)) = t
<1>1. Len(s) \in Nat /\ Len(t) \in Nat /\ s \o t \in Seq(S) /\ Len(s \o t) = Len(s) + Len(t)
  OBVIOUS
<1>2. SubSeq(s \o t, 1, Len(s)) = s
  <2>1. CASE Len(s) = 0
    BY <1>1, <2>1, SubSeqEmpty
  <2>2. CASE Len(s) # 0
    <3>1. SubSeq(s \o t, 1, Len(s)) = SubSeq(s, 1, Len(s))
      BY <1>1, <2>2, SubSeqOfConcat1
    <3> QED
      BY <3>1, SubSeqFull
  <2> QED
    BY <2>1, <2>2
<1>3. SubSeq(s \o t, Len(s) + 1, Len(s \o t)) = t
  <2>1. CASE Len(t) = 0
    BY <1>1, <2>1, SubSeqEmpty
  <2>2. CASE Len(t) # 0
    <3> DEFINE m == Len(s) + 1
               n == Len(s) + Len(t)
    <3>1. m \in Len(s) + 1 .. Len(s) + Len(t) /\ n \in Len(s) + 1 .. Len(s) + Len(t)
      BY <1>1, <2>2
    <3>2. m - Len(s) = 1 /\ n - Len(s) = Len(t)
      BY <1>1
    <3> HIDE DEF m, n
    <3>3. SubSeq(s \o t, m, n) = SubSeq(t, m - Len(s), n - Len(s))
      BY <3>1, SubSeqOfConcat2
    <3>4. SubSeq(s \o t, m, n) = t
      BY <3>2, <3>3, SubSeqFull
    <3> QED
      BY <1>1, <3>4 DEF m, n
  <2> QED
    BY <2>1, <2>2
<1> QED
  BY <1>1, <1>2, <1>3

\* The specification of admissions counts as this module does.
LEMMA SameCount ==
  ASSUME NEW S
  PROVE  A!Cardinality(S) = Cardinality(S)
BY DEF Cardinality, A!Cardinality

\* A definition or an axiom adds its entry and its row.
LEMMA OrdinaryAdmits ==
  ASSUME ~Redeclare, Shape, Once, Once', NEW n \in Name, NEW kind \in {"axiom", "def"},
         NEW ty \in SUBSET Name, NEW body \in SUBSET Name, Ordinary(n, kind, ty, body)
  PROVE  A!AdmitEntries
<1> DEFINE t == Elab(ty, globals)
           b == Elab(body, globals)
           e == Entry(kind, t, b, FALSE, globals)
<1>1. /\ TypeOK /\ status = "running" /\ status' = status /\ AllKnown(t \cup b, globals)
      /\ globals' = Add(globals, n, e) /\ rows' = Append(rows, <<n, e>>)
      /\ n \notin DOMAIN globals.entries
  BY DEF Shape, Ready, Ordinary, Free, AllKnown
<1>2. t \in SUBSET Refs /\ b \in SUBSET Refs /\ globals \in Globals /\ rows \in Rows
  BY <1>1, ElabTyped DEF TypeOK
<1> HIDE DEF t, b
<1>3. e \in Entries
  BY <1>1, <1>2, EntryTyped DEF TypeOK
<1> HIDE DEF e
<1>4. /\ globals'.families = globals.families
      /\ DOMAIN globals'.entries = DOMAIN globals.entries \cup {n}
      /\ globals'.entries[n] = e
      /\ \A m \in DOMAIN globals.entries : globals'.entries[m] = globals.entries[m]
  BY <1>1, <1>2, <1>3, AddFacts
<1>5. A!NewNames = {n}
  BY <1>1, <1>4 DEF A!NewNames
<1>6. Cardinality(A!NewNames) = 1
  BY <1>5, FS_Singleton
<1>7. /\ Len(rows') = Len(rows) + 1 /\ Len(rows) \in Nat
      /\ SubSeq(rows', 1, Len(rows)) = rows
      /\ A!NewRows = << <<n, e>> >>
  <2> DEFINE new == << <<n, e>> >>
  <2>1. rows \in Seq(Name \X Entries) /\ new \in Seq(Name \X Entries) /\ Len(new) = 1
    BY <1>2, <1>3 DEF Rows
  <2>2. rows' = rows \o new
    <3>1. <<n, e>> \in Name \X Entries
      BY <1>3
    <3> QED
      BY <1>1, <2>1, <3>1, AppendIsConcat
  <2> HIDE DEF new
  <2>3. /\ Len(rows) \in Nat /\ Len(rows \o new) = Len(rows) + Len(new)
        /\ SubSeq(rows \o new, 1, Len(rows)) = rows
        /\ SubSeq(rows \o new, Len(rows) + 1, Len(rows \o new)) = new
    <3> DEFINE S == Name \X Entries
    <3>1. rows \in Seq(S) /\ new \in Seq(S)
      BY <2>1
    <3> HIDE DEF S
    <3> QED
      BY <3>1, EndOfConcat
  <2>4. A!NewRows = new
    BY <2>2, <2>3 DEF A!NewRows
  <2> QED
    BY <2>1, <2>2, <2>3, <2>4 DEF new
<1>8. {A!NewRows[i] : i \in DOMAIN A!NewRows} =
        {<<m, globals'.entries[m]>> : m \in A!NewNames}
  BY <1>4, <1>5, <1>7
<1>9. A!Closed(globals')
  BY GlobalsClosed DEF Once
<1>10. A!Extends(globals'.entries, globals.entries) /\ A!NewNames # {}
  BY <1>4, <1>5 DEF A!Extends
<1>11. Len(A!NewRows) = A!Cardinality(A!NewNames)
  BY <1>6, <1>7, SameCount
<1> QED
  BY <1>1, <1>4, <1>7, <1>8, <1>9, <1>10, <1>11 DEF A!AdmitEntries

\* The completion of a group of definitions adds its entries and its rows.
LEMMA RecInstallAdmits ==
  ASSUME Shape, Once, Once', RecInstall, status = "running"
  PROVE  A!AdmitEntries
<1>1. /\ TypeOK /\ work \in Admitting /\ work.phase = "admit" /\ AdmitShape
      /\ Len(work.rows) = Len(work.group) /\ GroupOnce /\ status' = status
      /\ rows' = rows \o work.rows
  BY Phases5 DEF RecInstall, Shape, Once
<1>2. /\ work.rows \in Rows /\ rows \in Rows /\ work.group \in Seq(Name)
      /\ DOMAIN work.group = 1 .. Len(work.group) /\ Len(work.group) \in Nat \ {0}
  BY <1>1 DEF Admitting, TypeOK, AdmitShape
<1>3. /\ globals'.families = globals.families
      /\ Names(work.group) \cap DOMAIN globals.entries = {}
      /\ DOMAIN globals'.entries = DOMAIN globals.entries \cup Names(work.group)
      /\ \A n \in DOMAIN globals.entries : globals'.entries[n] = globals.entries[n]
      /\ \A i \in 1 .. Len(work.group) : globals'.entries[work.group[i]] = work.rows[i][2]
  BY Installed
<1>4. A!NewNames = Names(work.group)
  BY <1>3 DEF A!NewNames
<1>5. Cardinality(A!NewNames) = Len(work.group)
  <2>1. ExistsBijection(1 .. Len(work.group), Names(work.group))
    <3> DEFINE S == 1 .. Len(work.group)
               T == Names(work.group)
    <3>1. work.group \in [S -> T]
      BY <1>2 DEF Names
    <3>2. \A i, j \in S : work.group[i] = work.group[j] => i = j
      BY <1>1 DEF GroupOnce
    <3>3. \A n \in T : \E i \in S : work.group[i] = n
      BY <1>2 DEF Names
    <3> HIDE DEF S, T
    <3>4. work.group \in Bijection(S, T)
      BY <3>1, <3>2, <3>3, Fun_IsBij
    <3> QED
      BY <3>4 DEF ExistsBijection, S, T
  <2>2. IsFiniteSet(1 .. Len(work.group)) /\ Cardinality(1 .. Len(work.group)) = Len(work.group)
    BY <1>2, FS_Interval
  <2> QED
    BY <1>4, <2>1, <2>2, FS_Bijection
<1>6. /\ Len(rows') = Len(rows) + Len(work.group) /\ Len(rows) \in Nat
      /\ SubSeq(rows', 1, Len(rows)) = rows
      /\ A!NewRows = work.rows
  <2>1. rows \in Seq(Name \X Entries) /\ work.rows \in Seq(Name \X Entries)
    BY <1>2 DEF Rows
  <2>2. /\ Len(rows) \in Nat /\ Len(rows \o work.rows) = Len(rows) + Len(work.rows)
        /\ SubSeq(rows \o work.rows, 1, Len(rows)) = rows
        /\ SubSeq(rows \o work.rows, Len(rows) + 1, Len(rows \o work.rows)) = work.rows
    BY <2>1, EndOfConcat
  <2> QED
    BY <1>1, <2>2 DEF A!NewRows
<1>7. {A!NewRows[i] : i \in DOMAIN A!NewRows} =
        {<<m, globals'.entries[m]>> : m \in A!NewNames}
  <2>1. \A i \in 1 .. Len(work.group) : work.rows[i] = <<work.group[i], globals'.entries[work.group[i]]>>
    <3> SUFFICES ASSUME NEW i \in 1 .. Len(work.group)
                 PROVE  work.rows[i] = <<work.group[i], globals'.entries[work.group[i]]>>
      OBVIOUS
    <3>1. work.rows[i] \in Name \X Entries
      BY <1>1, <1>2 DEF Rows
    <3>2. work.rows[i][1] = work.group[i]
      BY <1>1 DEF AdmitShape
    <3> QED
      BY <1>3, <3>1, <3>2
  <2>2. DOMAIN work.rows = 1 .. Len(work.group)
    BY <1>1, <1>2 DEF Rows
  <2>3. {work.rows[i] : i \in 1 .. Len(work.group)} =
          {<<work.group[i], globals'.entries[work.group[i]]>> : i \in 1 .. Len(work.group)}
    BY <2>1
  <2>4. {<<work.group[i], globals'.entries[work.group[i]]>> : i \in 1 .. Len(work.group)} =
          {<<m, globals'.entries[m]>> : m \in Names(work.group)}
    BY <1>2 DEF Names
  <2> QED
    BY <1>4, <1>6, <2>2, <2>3, <2>4
<1>8. A!Closed(globals')
  BY GlobalsClosed DEF Once
<1>9. work.group[1] \in A!NewNames
  BY <1>2, <1>4 DEF Names
<1>10. A!Extends(globals'.entries, globals.entries) /\ A!NewNames # {}
  BY <1>3, <1>9 DEF A!Extends
<1>11. Len(A!NewRows) = A!Cardinality(A!NewNames) /\ Len(rows') >= Len(rows)
  BY <1>1, <1>2, <1>5, <1>6, SameCount
<1> QED
  BY <1>1, <1>3, <1>6, <1>7, <1>8, <1>10, <1>11 DEF A!AdmitEntries

\* The completion of a group of families adds its families.
LEMMA MuInstallAdmits ==
  ASSUME Shape, Shape', Once', MuInstall, status = "running"
  PROVE  A!AdmitFamilies
<1>1. rows' = rows /\ status' = status
  BY DEF MuInstall
<1>2. /\ globals'.entries = globals.entries
      /\ DOMAIN globals.families \subseteq DOMAIN globals'.families
      /\ \A f \in DOMAIN globals.families : globals'.families[f] = globals.families[f]
      /\ work.group[1] \in DOMAIN globals'.families \ DOMAIN globals.families
  BY MuInstalled
<1>3. \A f \in DOMAIN globals'.families : globals'.families[f].status = "complete"
  BY DEF Shape, Earlier
<1>4. A!Closed(globals')
  BY GlobalsClosed DEF Once
<1> QED
  BY <1>1, <1>2, <1>3, <1>4 DEF A!AdmitFamilies, A!Extends

\* A group is only in work while the check runs.
Running == work # Idle => status = "running"

LEMMA RunningStays ==
  ASSUME Running, [Next]_vars
  PROVE  Running'
<1>1. CASE Refuse \/ Finish
  BY <1>1 DEF Refuse, Finish, Running, Idle
<1>2. CASE /\ ~Refuse /\ ~Finish /\ Next
  <2>1. status' = status /\ (status = "running" \/ work # Idle)
    <3>1. ASSUME Ready, status' = status PROVE status' = status /\ status = "running"
      BY <3>1 DEF Ready
    <3>2. work = Idle => work.phase = "idle"
      BY DEF Idle
    <3>3. CASE RecPostulate \/ RecAdmit \/ RecInstall \/ MuDeclared \/ MuInstall
      BY <3>2, <3>3 DEF RecPostulate, RecAdmit, RecInstall, MuDeclared, MuInstall
    <3>4. CASE \E names : MuDeclare(names) \/ MuDefine(names) \/ RecGuard(names)
      BY <3>2, <3>4 DEF MuDeclare, MuDefine, RecGuard
    <3>5. CASE \E n, kind, ty, body : Ordinary(n, kind, ty, body)
      BY <3>5 DEF Ordinary, Ready
    <3>6. CASE \E ns, tys : RecTypes(ns, tys) \/ MuFresh(ns, tys)
      BY <3>6 DEF RecTypes, MuFresh, Ready
    <3> QED
      BY <1>2, <3>3, <3>4, <3>5, <3>6 DEF Next
  <2> QED
    BY <2>1 DEF Running
<1>3. CASE UNCHANGED vars
  BY <1>3 DEF vars, Running
<1> QED
  BY <1>1, <1>2, <1>3

LEMMA StepAdmits ==
  ASSUME ~Redeclare, Shape, Once, Running, Shape', Once', [Next]_vars
  PROVE  [A!Next]_<<globals, rows, status>>
<1>1. CASE \E n \in Name, ty \in Types : Ordinary(n, "axiom", ty, {})
  <2>1. PICK n \in Name, ty \in Types : Ordinary(n, "axiom", ty, {})
    BY <1>1
  <2>2. A!AdmitEntries
    BY <2>1, OrdinaryAdmits, TypesTyped
  <2> QED
    BY <2>2 DEF A!Next
<1>2. CASE \E n \in Name, ty \in Types, body \in Bodies : Ordinary(n, "def", ty, body)
  <2>1. PICK n \in Name, ty \in Types, body \in Bodies : Ordinary(n, "def", ty, body)
    BY <1>2
  <2>2. A!AdmitEntries
    BY <2>1, OrdinaryAdmits, TypesTyped
  <2> QED
    BY <2>2 DEF A!Next
<1>3. CASE RecInstall
  <2>1. status = "running"
    BY <1>3 DEF RecInstall, Running, Idle
  <2> QED
    BY <1>3, <2>1, RecInstallAdmits DEF A!Next
<1>4. CASE MuInstall
  <2>1. status = "running"
    BY <1>4 DEF MuInstall, Running, Idle
  <2> QED
    BY <1>4, <2>1, MuInstallAdmits DEF A!Next
<1>5. CASE Refuse \/ Finish
  BY <1>5 DEF Refuse, Finish, A!Stop, A!Next
<1>6. CASE RecPostulate \/ RecAdmit \/ MuDeclared
  BY <1>6 DEF RecPostulate, RecAdmit, MuDeclared
<1>7. CASE \E names : MuDeclare(names) \/ MuDefine(names) \/ RecGuard(names)
  BY <1>7 DEF MuDeclare, MuDefine, RecGuard
<1>8. CASE \E ns, tys : RecTypes(ns, tys) \/ MuFresh(ns, tys)
  BY <1>8 DEF RecTypes, MuFresh
<1>9. CASE UNCHANGED vars
  BY <1>9 DEF vars
<1> QED
  BY <1>1, <1>2, <1>3, <1>4, <1>5, <1>6, <1>7, <1>8, <1>9 DEF Next

\* In a source that defines a name once, the steps of a declaration are one
\* admission, whole and closed, or none: program_loop, elab_rec_group and
\* elab_mu_group_program implement module Admission.
THEOREM AdmissionIsAtomic ==
  ASSUME ~Redeclare
  PROVE  Spec => AtomicAdmission
<1>1. Init => A!Init
  BY AdmitsFirst
<1>2. Init => Running
  BY DEF Init, Running
<1>3. Running /\ [Next]_vars => Running'
  BY RunningStays
<1>4. Shape /\ Once /\ Running /\ (Shape /\ Once)' /\ [Next]_vars =>
        [A!Next]_<<globals, rows, status>>
  BY StepAdmits
<1> QED
  BY <1>1, <1>2, <1>3, <1>4, OnceInvariant, PTL DEF Spec, AtomicAdmission, A!Spec

=============================================================================

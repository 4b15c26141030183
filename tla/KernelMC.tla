------------------------------ MODULE KernelMC ------------------------------
(***************************************************************************)
(* Small programs for module Kernel, well and ill typed.                   *)
(***************************************************************************)
EXTENDS Erase

--------------------------------------------------------------------------
\* Abbreviations for terms.

B  == BoolTy
FF == In(SColl(2), Leg(0), <<UnitVal>>)
TT == In(SColl(2), Leg(1), <<UnitVal>>)
Empty0 == Ann(Lan(SColl(0), UnitVal), Univ(1))
Nat0   == Global("Nat")

Fun(q, dom, b)  == Sec(SPi(q, dom), <<Bound(<<q>>, b)>>)
App(f, dom, a)  == Out(SPi(ManyQ, dom), Pt(ManyQ, a), f)
Cond(x, q, mo, yes, no) ==
  Elim(SColl(2), x, q, mo, <<Branch(Leg(0), <<ManyQ>>, no),
                             Branch(Leg(1), <<ManyQ>>, yes)>>)
Use(x)          == Cond(x, One, NoMotive, TT, FF)
Fst(q, p, second) == Elim(SPi(q, B), p, One, NoMotive, ProjBranch(q, second))
PairTy(q)       == Lan(SPi(q, B), B)
PairOf(q, x, y) == Ann(In(SPi(q, B), Pt(q, x), <<y>>), PairTy(q))

Data(n)         == Lan(SMu(n, <<>>), Sec(SColl(0), <<>>))
Con(n, k, args) == In(SMu(n, <<>>), Actor(k), args)
EqTy(ty, x, y)  == Lan(SMu("Eq", <<y>>),
                       Sec(SColl(2), <<Bound(<<>>, ty), Bound(<<>>, x)>>))
Refl            == Con("Eq", "refl", <<>>)

Def(n, ty, b)   == [kind |-> "def", name |-> n, ty |-> ty, body |-> b]
Axiom(n, ty)    == [kind |-> "axiom", name |-> n, ty |-> ty, body |-> Auto]
Rec(n, ty, b, k) == [kind |-> "rec", name |-> n, ty |-> ty, body |-> b, rec |-> k]
Group(ds)       == [kind |-> "family", group |-> ds]
Entry(q, ty)    == [q |-> q, ty |-> ty]
Ctor(n, args)   == [name |-> n, args |-> args, params |-> <<>>, idx |-> <<>>]
Simple(n, level, cs) == [name |-> n, params |-> <<>>, indices |-> <<>>,
                         level |-> level, ctors |-> cs]

EqFamily ==
  Group(<<[name |-> "Eq",
           params |-> <<Entry(Zero, Univ(1)), Entry(Zero, Var(0))>>,
           indices |-> <<Entry(Zero, Var(1))>>, level |-> 1,
           ctors |-> <<[name |-> "refl", args |-> <<>>,
                        params |-> <<Var(1), Var(0)>>, idx |-> <<Var(0)>>]>>]>>)

--------------------------------------------------------------------------
\* Functions on booleans, at each quantity, and what uses them.

Bodies1(q) ==
  {Var(0), TT, App(Ann(Fun(Zero, B, FF), Arrow(Zero, B, B)), B, Var(0)),
   Let(B, Var(0), Var(0)), Let(B, Var(0), TT), Let(B, Var(0), Use(Var(1))),
   App(App(Global("natEq"), Nat0, Lit(1)), Nat0, Lit(2))}
  \cup {Cond(Var(0), r, NoMotive, x, y) :
          r \in Quantities, x \in {TT, Var(1)}, y \in {TT, FF}}
  \cup {Fst(r, PairOf(r, Var(0), TT), second) :
          r \in Quantities, second \in BOOLEAN}
FunctionDefs ==
  {Def("f", Arrow(q, B, B), Fun(q, B, b)) : q \in Quantities, b \in Bodies1(0)}
  \cup {Def("f", Arrow(q, B, B), Fun(r, B, TT)) : q, r \in Quantities}
  \cup {Axiom("f", Arrow(ManyQ, B, B))}

F == Global("f")
Not == Fun(ManyQ, B, Cond(Var(0), One, NoMotive, FF, TT))
ClientDefs ==
  {Def("g", B, b) :
     b \in {App(F, B, TT), App(F, B, App(F, B, FF)), Use(App(F, B, FF)),
            Let(B, App(F, B, TT), Cond(Var(0), One, NoMotive, Var(1), FF))}}
  \cup {Def("g", EqTy(B, x, y), Refl) :
          x, y \in {TT, FF, App(F, B, TT), App(F, B, FF)}}
  \cup {Def("g", EqTy(Arrow(ManyQ, B, B), F, h), Refl) :
          h \in {F, Ann(Not, Arrow(ManyQ, B, B)),
                 Ann(Fun(ManyQ, B, App(F, B, Var(0))), Arrow(ManyQ, B, B)),
                 Ann(Fun(ManyQ, B, Var(0)), Arrow(ManyQ, B, B))}}
  \cup {Def("g", Arrow(Many, Arrow(ManyQ, B, B), B),
            Fun(ManyQ, Arrow(ManyQ, B, B), App(Var(0), B, x))) : x \in {TT, FF}}
  \cup {Def("g", Empty0, Cond(App(F, B, TT), One, NoMotive, FF, TT))}

--------------------------------------------------------------------------
\* Families and what takes them apart.

Nats  == Group(<<Simple("N", 1, <<Ctor("z", <<>>),
                                  Ctor("s", <<Entry(ManyQ, Data("N"))>>)>>)>>)
FamilyGroups ==
  {Group(<<Simple("P", 0, <<Ctor("l", <<>>), Ctor("r", <<>>)>>)>>),
   Group(<<Simple("P", 1, <<Ctor("l", <<>>), Ctor("r", <<>>)>>)>>),
   Group(<<Simple("P", 0, <<Ctor("l", <<>>)>>)>>),
   Group(<<Simple("P", 0, <<>>)>>),
   Group(<<Simple("P", 1, <<Ctor("l", <<Entry(Zero, B)>>)>>)>>),
   Group(<<Simple("P", 1, <<Ctor("l", <<Entry(ManyQ, B)>>)>>)>>),
   Group(<<Simple("P", 0, <<Ctor("l", <<Entry(ManyQ, B)>>)>>)>>),
   Group(<<Simple("P", 1, <<Ctor("l", <<Entry(ManyQ,
             Arrow(ManyQ, Data("P"), Empty0))>>)>>)>>),
   Group(<<Simple("P", 1, <<Ctor("l", <<>>), Ctor("r", <<Entry(ManyQ,
             Arrow(ManyQ, B, Data("P")))>>)>>)>>),
   Group(<<Simple("P", 1, <<Ctor("l", <<>>), Ctor("r", <<Entry(ManyQ,
             Data("Q"))>>)>>),
           Simple("Q", 1, <<Ctor("k", <<Entry(ManyQ, Data("P"))>>)>>)>>)}

Leg1(k, qs, b) == Branch(Actor(k), qs, b)
Taken(n, brs, ty) == Elim(SMu(n, <<>>), Var(0), One, Motive(n, 0, ty), brs)
BranchSets(n) ==
  IF n = "N" THEN {<<>>, <<Leg1("z", <<>>, TT), Leg1("s", <<ManyQ>>, FF)>>,
                   <<Leg1("z", <<>>, TT)>>}
  ELSE
  {<<>>, <<Leg1("l", <<>>, TT), Leg1("r", <<>>, FF)>>, <<Leg1("l", <<>>, TT)>>,
   <<Leg1("l", <<Zero>>, TT)>>, <<Leg1("l", <<Zero>>, Var(0))>>,
   <<Leg1("l", <<ManyQ>>, Var(0))>>, <<Leg1("l", <<ManyQ>>, FF)>>,
   <<Leg1("l", <<>>, TT), Leg1("r", <<ManyQ>>, FF)>>}
Eliminators(n) ==
  {Def("f", Arrow(q, Data(n), B), Fun(q, Data(n), Taken(n, brs, B))) :
     q \in Quantities, brs \in BranchSets(n)}
PEliminators == Eliminators("P")
  \cup {Def("f", Arrow(ManyQ, Data("P"), Empty0),
            Fun(ManyQ, Data("P"), Taken("P", brs, Empty0))) :
          brs \in {<<>>, <<Leg1("l", <<ManyQ>>, App(Var(0), Data("P"), Var(1)))>>}}
NEliminators == Eliminators("N")
  \cup {Rec("f", Arrow(ManyQ, Data("N"), B),
            Fun(ManyQ, Data("N"), Taken("N", <<Leg1("z", <<>>, TT),
              Leg1("s", <<ManyQ>>, Cond(App(F, Data("N"), Var(0)), One,
                                        NoMotive, FF, TT))>>, B)), 0)}

Values0(n) ==
  IF n = "N" THEN {Con("N", "z", <<>>), Con("N", "s", <<Con("N", "z", <<>>)>>)}
  ELSE {Con("P", "l", <<>>), Con("P", "r", <<>>), Con("P", "l", <<TT>>),
        Con("P", "l", <<FF>>),
        Con("P", "r", <<Fun(ManyQ, B, Con("P", "l", <<>>))>>)}
Clients(n) == {Def("g", B, App(F, Data(n), v)) : v \in Values0(n)}
FamilyClients == Clients("P")
  \cup {Def("g", Empty0, App(F, Data("P"),
            Con("P", "l", <<Fun(ManyQ, Data("P"), App(F, Data("P"), Var(0)))>>))),
        Def("g", B, App(Ann(Fun(ManyQ, Data("P"), Use(App(F, Data("P"), Var(0)))),
                            Arrow(ManyQ, Data("P"), B)), Data("P"),
                        Con("P", "l", <<>>)))}

--------------------------------------------------------------------------
\* Equalities, and what is carried along them.

Sides == {TT, FF, Cond(TT, One, NoMotive, FF, TT),
          App(App(Global("natEq"), Nat0, Lit(1)), Nat0, Lit(1))}
Equalities == {Def("p", EqTy(B, Ann(x, B), Ann(y, B)), Refl) : x, y \in Sides}
(* A type that has a value at TT and none at FF.                           *)
Big(x) == Elim(SColl(2), x, One, Motive("", 0, Univ(1)),
               <<Branch(Leg(0), <<ManyQ>>, Empty0),
                 Branch(Leg(1), <<ManyQ>>, UnitTy(1))>>)
Carry(b) == Elim(SMu("Eq", <<>>), Global("p"), One, Motive("Eq", 1, b),
                 <<Leg1("refl", <<>>, UnitVal)>>)
Transports == {Def("g", Empty0, Carry(Big(Var(1)))),
               Def("g", UnitTy(1), Carry(Big(Var(1)))),
               Def("g", Big(Ann(FF, B)), Carry(Big(Var(1)))),
               Def("g", UnitTy(1), Carry(UnitTy(1)))}

PairPredicates ==
  {Def("f", Arrow(r, PairTy(q), B), Fun(r, PairTy(q), Fst(q, Var(0), second))) :
     q, r \in Quantities, second \in BOOLEAN}
Pairs0(q) == {Def("g", EqTy(PairTy(q), PairOf(q, x, y), PairOf(q, v, w)), Refl) :
                x, y, v, w \in {TT, FF}}

--------------------------------------------------------------------------
\* Recursions: on a family at each quantity of its recursive field, with a
\* motive that depends on the value; on a family with a parameter; on a
\* family of a ring of three.

Trees(q) == Group(<<Simple("P", 1, <<Ctor("l", <<>>),
                                     Ctor("r", <<Entry(q, Data("P"))>>)>>)>>)
Ring == Group(<<Simple("P", 1, <<Ctor("l", <<>>), Ctor("r", <<Entry(ManyQ, Data("P"))>>),
                                 Ctor("m", <<Entry(ManyQ, Data("Q"))>>)>>),
                Simple("Q", 1, <<Ctor("k", <<Entry(ManyQ, Data("R"))>>)>>),
                Simple("R", 1, <<Ctor("j", <<Entry(ManyQ, Data("P"))>>)>>)>>)
ListOf(a) == Lan(SMu("L", <<>>), Sec(SColl(1), <<Bound(<<>>, a)>>))
(* The element of the tail's type: the parameter, or another type.         *)
Lists(a) ==
  Group(<<[name |-> "L", params |-> <<Entry(Zero, Univ(1))>>, indices |-> <<>>,
           level |-> 2,
           ctors |-> <<[name |-> "n", args |-> <<>>, params |-> <<Var(0)>>,
                        idx |-> <<>>],
                       [name |-> "c", args |-> <<Entry(ManyQ, Var(0)),
                                                 Entry(ManyQ, ListOf(a))>>,
                        params |-> <<Var(2)>>, idx |-> <<>>]>>]>>)

(* Unit at l and at everything else the given type.                        *)
ByCase(x, ty) == Elim(SMu("P", <<>>), x, One, Motive("P", 0, Univ(1)),
                      <<Leg1("l", <<>>, UnitTy(1)), Leg1("r", <<ManyQ>>, ty)>>)
RecBodies == {Var(0), Var(1), TT, Cond(Var(0), One, NoMotive, FF, TT)}
Recursors ==
  {Def("f", Arrow(r, Data("P"), B), Fun(r, Data("P"),
     Elim(SMu("P", <<>>), Var(0), One, Motive("P", 0, B),
          <<Leg1("l", <<>>, TT), Leg1("r", <<q, q>>, b)>>))) :
     q \in Quantities, r \in {Zero, Many}, b \in RecBodies}
  \cup {Def("f", Ran(SPi(ManyQ, Data("P")), ByCase(Var(0), B)),
            Fun(ManyQ, Data("P"),
              Elim(SMu("P", <<>>), Var(0), One, Motive("P", 0, ByCase(Var(0), B)),
                   <<Leg1("l", <<>>, UnitVal), Leg1("r", <<ManyQ, ManyQ>>, b)>>))) :
          b \in {TT, Var(0)}}
  \cup {Def("f", Arrow(ManyQ, ListOf(B), B), Fun(ManyQ, ListOf(B),
            Elim(SMu("L", <<>>), Var(0), One, Motive("L", 0, B),
                 <<Leg1("n", <<>>, TT), Leg1("c", <<ManyQ, ManyQ, ManyQ>>, b)>>))) :
          b \in {Var(0), Var(1), Var(2), Cond(Var(2), One, NoMotive, Var(1), FF)}}
  \cup {Def("f", Arrow(ManyQ, Data("P"), B), Fun(ManyQ, Data("P"),
            Elim(SMu("P", <<>>), Var(0), One, Motive("P", 0, B),
                 <<Leg1("l", <<>>, TT), Leg1("r", <<ManyQ, ManyQ>>, Var(0)),
                   Leg1("m", <<ManyQ>>, FF)>>)))}
L1(k, args) == In(SMu("L", <<>>), Actor(k), args)
RecursorClients ==
  {Def("g", B, App(F, Data("P"), Con("P", "r", <<Con("P", "l", <<>>)>>))),
   Def("g", B, App(F, Data("P"), Con("P", "l", <<>>))),
   Def("g", EqTy(B, App(F, Data("P"), Con("P", "l", <<>>)), TT), Refl),
   Def("g", Arrow(ManyQ, Data("P"), B),
       Fun(ManyQ, Data("P"), App(F, Data("P"), Var(0)))),
   Def("g", B, App(F, ListOf(B), L1("c", <<TT, L1("n", <<>>)>>)))}

--------------------------------------------------------------------------
\* What erasure walks: closures under kept and dropped binders, in lets, in
\* branches and in one another; tuples; families with two fields.

BB == Arrow(ManyQ, B, B)
Ask2(i, j) == Cond(Var(0), Many, NoMotive, Var(i), Var(j))
Asks(k)    == {Ask2(i, j) : i, j \in 1 .. k}
Lam(b)     == Fun(ManyQ, B, b)
(* Under two binders: a function of a third.                               *)
CapturingBodies ==
  {Lam(b) : b \in Asks(3)}
  \cup {Let(BB, Lam(b), Lam(App(Var(1), B, App(Var(1), B, Var(0))))) :
           b \in {Ask2(1, 2), Ask2(2, 3), Ask2(3, 1)}}
  \cup {Cond(Var(k), Many, NoMotive, Lam(b), Lam(Var(1))) :
           k \in {0, 1}, b \in {Ask2(3, 4), Ask2(4, 1)}}
  \cup {Lam(App(Ann(Lam(App(Ann(Lam(b), BB), B, Var(k))), BB), B, Var(0))) :
          k \in {0, 1, 3}, b \in {Ask2(4, 5), Ask2(2, 5), Ask2(5, 2)}}
  \cup {Elim(SPi(q, B), PairOf(q, Var(0), Var(1)), One, NoMotive,
             <<Branch(Leg(0), <<q, Many>>, Lam(b))>>) :
          q \in {Zero, Many}, b \in {Ask2(2, 3), Ask2(3, 5), Ask2(5, 2)}}
CapturingDefs ==
  {Def("f", Arrow(q, B, Arrow(r, B, BB)), Fun(q, B, Fun(r, B, b))) :
     <<q, r>> \in {<<Many, Many>>, <<Zero, Many>>, <<Many, Zero>>}, b \in CapturingBodies}
(* Enough to tell which of three arguments is answered at each choice.     *)
Told == {<<TT, FF, TT>>, <<TT, FF, FF>>, <<FF, TT, TT>>, <<FF, TT, FF>>}
App3(x, y, z) == App(App(App(F, B, x), B, y), B, z)
CapturingClients ==
  {Def("g", B, App3(x, y, z)) : <<x, y, z>> \in Told}
  \cup {Def("g", BB, App(App(F, B, TT), B, FF)),
        Def("g", BB, Lam(App3(Var(0), FF, Var(0)))),
        Def("g", Arrow(ManyQ, BB, B),
            Fun(ManyQ, BB, App(Var(0), B, App3(TT, App(Var(0), B, FF), TT))))}

TripleTy == Ann(Ran(SColl(3), Sec(SColl(3), <<Bound(<<>>, B), Bound(<<>>, UnitTy(1)),
                                             Bound(<<>>, BB)>>)), Univ(1))
Triple(x, h) == Ann(Sec(SColl(3), <<Bound(<<>>, x), Bound(<<>>, UnitVal),
                                     Bound(<<>>, h)>>), TripleTy)
Leg3(k, e) == Out(SColl(3), Leg(k), e)
TupleDefs ==
  {Def("f", BB, Lam(App(Leg3(2, Triple(x, Lam(b))), B, Leg3(0, Triple(y, Lam(Var(0))))))) :
     x, y \in {TT, Var(0)}, b \in {Var(1), Ask2(1, 0), Not.legs[1].b}}
Fielded(q, r) == Group(<<Simple("P", 1, <<Ctor("l", <<Entry(q, B), Entry(r, B)>>),
                                          Ctor("r", <<>>)>>)>>)
FieldDefs ==
  {Def("f", Arrow(ManyQ, Data("P"), BB), Fun(ManyQ, Data("P"),
       Taken("P", <<Leg1("r", <<>>, Lam(Var(0))), Leg1("l", <<q, r>>, b)>>, BB))) :
     q, r \in {Zero, Many}, b \in {Lam(c) : c \in Asks(2)}}
FieldClients ==
  {Def("g", B, App(App(F, Data("P"), Con("P", "l", <<x, y>>)), B, z)) :
     <<x, y, z>> \in Told}
  \cup {Def("g", BB, App(F, Data("P"), Con("P", "r", <<>>)))}

--------------------------------------------------------------------------
MCPlans ==
             <<<<{EqFamily}, FunctionDefs, ClientDefs>>,
               <<{Nats}, NEliminators, Clients("N")>>,
               <<FamilyGroups, PEliminators, FamilyClients>>,
               <<{EqFamily}, Equalities, Transports>>,
               <<{EqFamily}, PairPredicates, UNION {Pairs0(q) : q \in Quantities}>>,
               <<{EqFamily}, {Trees(q) : q \in Quantities} \cup {Ring}
                   \cup {Lists(a) : a \in {Var(1), B, UnitTy(1)}}, Recursors, RecursorClients>>,
               <<CapturingDefs \cup TupleDefs, CapturingClients>>,
               <<{Fielded(q, r) : q, r \in {Zero, Many}}, FieldDefs, FieldClients>>>>

MCProbes == {TT, FF, Con("N", "z", <<>>), Con("N", "s", <<Con("N", "z", <<>>)>>),
             Con("P", "l", <<>>), Con("P", "r", <<>>), Con("P", "l", <<TT>>),
             Con("P", "l", <<FF>>), Con("P", "r", <<Con("P", "l", <<>>)>>),
             Con("P", "r", <<Con("P", "r", <<Con("P", "l", <<>>)>>)>>),
             Con("P", "m", <<Con("Q", "k", <<Con("R", "j", <<Con("P", "l", <<>>)>>)>>)>>),
             L1("n", <<>>), L1("c", <<TT, L1("n", <<>>)>>),
             L1("c", <<FF, L1("c", <<TT, L1("n", <<>>)>>)>>), Fun(ManyQ, B, Var(0)), Fun(ManyQ, B, TT), Not,
             Fun(ManyQ, B, App(Ann(Not, Arrow(ManyQ, B, B)), B, Var(0)))}
            \cup {In(SPi(q, B), Pt(q, x), <<y>>) : q \in Quantities, x, y \in {TT, FF}}

--------------------------------------------------------------------------
(* A predicate over the functions of type (0 A : Type) -> A -> A -> A and  *)
(* a postulated witness of it.                                             *)
U1      == Univ(1)
Choice  == Arrow(Zero, U1, Arrow(ManyQ, Var(0), Arrow(ManyQ, Var(1), Var(2))))
Ident   == Arrow(Zero, U1, Arrow(ManyQ, Var(0), Var(1)))
Apply(k) == Out(SPi(ManyQ, Var(2)), Pt(ManyQ, Var(k)),
                Out(SPi(Zero, U1), Pt(Zero, Var(2)), F))
Chooser(b) == Fun(Zero, U1, Fun(ManyQ, Var(0), Fun(ManyQ, Var(1), b)))
Choosers == {Chooser(b) : b \in {Var(0), Var(1), Apply(0), Apply(1)}}
On(x)   == Lan(SMu("P", <<x>>), Sec(SColl(0), <<>>))
MCWitness ==
  <<<<{Group(<<[name |-> "P", params |-> <<>>, indices |-> <<Entry(Zero, Choice)>>,
               level |-> 2, ctors |-> <<>>]>>)},
     {Axiom("f", Ident)},
     {Axiom("w", On(x)) : x \in Choosers},
     {Def("g", On(x), Global("w")) : x \in Choosers}>>>>
=============================================================================

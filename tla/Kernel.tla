------------------------------- MODULE Kernel -------------------------------
(***************************************************************************)
(* The kernel's checking host (lib/kernel_check.c) as a program is         *)
(* admitted, statement by statement: a family group is declared and then   *)
(* defined, a definition or a postulate is checked in the globals so far,  *)
(* a guarded recursive definition is checked with itself as a postulate.   *)
(* The first refusal ends the program.  Strict positivity is               *)
(* lib/kernel_positivity.c.                                                *)
(*                                                                         *)
(* A statement is a record with kind "family" (a group of declarations),   *)
(* "def" or "axiom" (body = Auto when there is none), or "rec" (with the   *)
(* index of its guarding argument, which module Order certifies).          *)
(***************************************************************************)
EXTENDS Typing

CONSTANTS
  Plans,      \* sequences of sets: the statements a program has at each place
  Budgets,    \* the budgets a program is checked with
  Probes      \* closed terms that the properties apply functions to

ASSUME KernelAssumption == Budgets # {} /\ Budgets \subseteq Nat

VARIABLES plan, program

vars == <<plan, program>>

--------------------------------------------------------------------------
\* Entries and families.

Postulate(ty)  == [kind |-> "axiom", ty |-> ty, body |-> Auto,
                   reducible |-> FALSE, rec |-> -1]
Primitive(p)   == [Postulate(PrimTy(p)) EXCEPT !.kind = "prim"]
Definition(ty, body, rec) == [kind |-> "def", ty |-> ty, body |-> body,
                              reducible |-> TRUE, rec |-> rec]

Prims == {"natAdd", "natSub", "natMul", "natEq", "natLt"}
InitialGlobals == [n \in Prims \cup {"Nat"} |->
                     IF n = "Nat" THEN Postulate(Univ(1)) ELSE Primitive(n)]

With(n, x, m) == [k \in DOMAIN m \cup {n} |-> IF k = n THEN x ELSE m[k]]

--------------------------------------------------------------------------
\* Strict positivity.

AbsentAll(names, es) == \A k \in DOMAIN es : Absent(names, es[k])

\* Seeded fault: the domain of a function type may name the group.
RECURSIVE PositiveDomain(_, _)
PositiveDomain(names, e) ==
  CASE e.t = "ran" /\ e.s.t = "spi" -> PositiveDomain(names, e.d)
    [] OTHER -> TRUE
RECURSIVE Positive(_, _)
Positive(names, e) ==
  CASE e.t = "lan" /\ FamilyOf(e.s) \cap names # {} ->
         AbsentAll(names, ShapeTerms(e.s)) /\ Absent(names, e.d)
    [] e.t = "ran" /\ e.s.t = "spi" ->
         Absent(names, e.s.dom) /\ Positive(names, e.d)
    [] e.t = "out" /\ e.s.t = "spi" /\ e.a.t = "pt" ->
         Absent(names, e.a.arg) /\ Positive(names, e.head)
    [] e.t = "global" -> TRUE
    [] OTHER -> Absent(names, e)

PositiveFields(names, args) == \A k \in DOMAIN args : Positive(names, args[k].ty)

--------------------------------------------------------------------------
\* Families.

(* A telescope of types, bound one after the other.  limit is the largest  *)
(* level a type may live at, -1 when there is none; the entries of a       *)
(* limited telescope are inferred twice.                                   *)
CheckTele(c, tele, limit, f) ==
  Walk(Len(tele), Done(c, f), LAMBDA d, k, f1 :
    LET bind(f2) == Then(InferUniv(d, tele[k].ty, f2), LAMBDA l, f3 :
                      LET ty == EvalIn(d, tele[k].ty)
                      IN  IF Ok(ty) THEN Done(Bind(d, tele[k].q, ty), f3)
                          ELSE Refused(f3))
    IN  IF limit = -1 THEN bind(f1)
        ELSE Then(InferUniv(d, tele[k].ty, f1), LAMBDA l, f2 :
               IF l <= limit THEN bind(f2) ELSE Refused(f2)))

DeclareFamily(g, fams, d, b) ==
  IF d.name \in DOMAIN fams THEN Refused(b)
  ELSE Then(CheckTele(Top(g, fams), d.params, -1, b), LAMBDA c, f :
         IF \E k \in DOMAIN d.indices : d.indices[k].q # Zero THEN Refused(f)
         ELSE Then(CheckTele(c, d.indices, d.level, f), LAMBDA i, f1 :
                Done(With(d.name,
                         [params |-> d.params, indices |-> d.indices,
                          level |-> d.level, status |-> "provisional",
                          names |-> <<>>, ctors |-> <<>>, positive |-> FALSE],
                         fams), f1)))

(* Does the term name the variable, under annotations?                     *)
RECURSIVE ParameterAt(_, _)
ParameterAt(i, e) == IF e.t = "ann" THEN ParameterAt(i, e.e)
                     ELSE e.t = "var" /\ e.i = i
ParametersAt(es, i) == \A k \in DOMAIN es : ParameterAt(i - k + 1, es[k])

CheckCtor(c, fam, group, cd, f) ==
  LET nparams == Len(fam.params)
      nargs   == Len(cd.args)
  IN  Then(CheckTele(c, cd.args, fam.level, f), LAMBDA in, f1 :
        IF \/ ~PositiveFields(group, cd.args)
           \/ Len(cd.params) # nparams
           \/ ~ParametersAt(cd.params, nargs + nparams - 1)
        THEN Refused(f1)
        ELSE Then(Telescope(in, Zero, fam.params, cd.params, <<>>, TRUE, f1),
                  LAMBDA st, f2 :
             Then(Telescope(in, Zero, fam.indices, cd.idx, st.env, TRUE, f2),
                  LAMBDA ix, f3 :
               Done([name |-> cd.name, args |-> cd.args, idx |-> cd.idx,
                     self |-> SelfRec(group, cd.args)], f3))))

DefineCtors(g, fams, group, n, cds, b) ==
  IF n \notin DOMAIN fams \/ fams[n].status # "provisional" THEN Refused(b)
  ELSE Then(CheckTele(Top(g, fams), fams[n].params, -1, b), LAMBDA c, f :
       Then(Walk(Len(cds), Done(<<>>, f), LAMBDA cs, k, f1 :
              Then(CheckCtor(c, fams[n], group, cds[k], f1), LAMBDA ct, f2 :
                Done(Append(cs, ct), f2))),
            LAMBDA cs, f1 :
         Done(With(n, [fams[n] EXCEPT
                        !.status = "complete", !.positive = TRUE, !.ctors = cs,
                        !.names = [k \in DOMAIN cs |-> cs[k].name]], fams), f1)))

(* Every family of a group is declared before the first is defined; each   *)
(* request has its own copy of the budget.                                 *)
AdmitGroup(g, fams, ds, b) ==
  LET names    == {ds[k].name : k \in DOMAIN ds}
      declared == Walk(Len(ds), Done(fams, b), LAMBDA fs, k, f :
                         DeclareFamily(g, fs, ds[k], b))
  IN  Then(declared, LAMBDA fs0, f0 :
        Walk(Len(ds), Done(fs0, b), LAMBDA fs, k, f :
               DefineCtors(g, fs, names, ds[k].name, ds[k].ctors, b)))

--------------------------------------------------------------------------
\* Declarations.

CheckDecl(g, fams, d, b) ==
  LET c == Top(g, fams)
  IN  Then(InferUniv(c, d.ty, b), LAMBDA l, f :
        LET ty == EvalIn(c, d.ty)
        IN  CASE ~Ok(ty) -> Refused(f)
              [] Ok(ty) /\ d.kind = "axiom" -> Done(Postulate(d.ty), f)
              [] Ok(ty) /\ d.kind # "axiom" /\ d.body = Auto -> Refused(f)
              [] Ok(ty) /\ d.kind # "axiom" /\ d.body # Auto ->
                   Then(Check(c, One, d.body, ty, f), LAMBDA u, f1 :
                          Done(Definition(d.ty, d.body, -1), f1)))

(* A recursive definition is first a postulate of its type; its body is    *)
(* checked against that type with a copy of the budget of its own.         *)
CheckGuarded(g, fams, d, b) ==
  Then(CheckDecl(g, fams, [d EXCEPT !.kind = "axiom"], b), LAMBDA p, f :
    LET c  == Top(With(d.name, p, g), fams)
        ty == Eval(g, <<>>, d.ty)
    IN  Then(Check(c, One, d.body, ty, b), LAMBDA u, f1 :
               Done(Definition(d.ty, d.body, d.rec), f1)))

(* A world is what the statements so far have put in: the globals and the  *)
(* families.  Each statement is checked with a copy of the whole budget.   *)
Admit(w, st, b) ==
  LET entered(r) == Then(r, LAMBDA x, f :
                      Done([w EXCEPT !.globals = With(st.name, x, w.globals)], f))
  IN  CASE st.kind = "family" ->
             Then(AdmitGroup(w.globals, w.families, st.group, b), LAMBDA fs, f :
                    Done([w EXCEPT !.families = fs], f))
        [] st.kind \in {"def", "axiom"} ->
             entered(CheckDecl(w.globals, w.families, st, b))
        [] st.kind = "rec" -> entered(CheckGuarded(w.globals, w.families, st, b))

Run(p, b) ==
  Walk(Len(p), Done([globals |-> InitialGlobals, families |-> <<>>], b),
       LAMBDA w, k, f : Admit(w, p[k], b))

--------------------------------------------------------------------------
\* The state machine: a client hands in one statement after the other, and
\* the kernel runs over the program so far.

Init == plan \in DOMAIN Plans /\ program = <<>>

Submit == /\ Len(program) < Len(Plans[plan])
          /\ \E st \in Plans[plan][Len(program) + 1] : program' = Append(program, st)
          /\ UNCHANGED plan

Next == Submit

Spec == Init /\ [][Next]_vars

--------------------------------------------------------------------------
\* What is admitted, and how it computes.

Enough == CHOOSE b \in Budgets : \A c \in Budgets : c <= b
(* The world of a program that is admitted; none of one that is refused.   *)
Worlds(p) == {r.v : r \in {x \in {Run(p, Enough)} : x.ok}}
(* The definition the last statement enters.                               *)
Newest(p) == {p[k].name : k \in {j \in {Len(p)} : p[j].kind # "family"}}

Ctx(w)       == Top(w.globals, w.families)
Force(w, e)  == Whnf(w.globals, Eval(w.globals, <<>>, e))
ValueOf(w, n) == Force(w, Global(n))
TypeOf(w, n) == Force(w, w.globals[n].ty)
AxiomFree(w) == \A n \in DOMAIN w.globals \ DOMAIN InitialGlobals :
                  w.globals[n].kind = "def"

IsEmpty(w, ty) == /\ ty.t = "lan"
                  /\ \/ ty.s.t = "scoll" /\ ty.s.n = 0
                     \/ ty.s.t = "smu" /\ w.families[ty.s.fam].ctors = <<>>
IsBool(ty)     == ty.t = "lan" /\ ty.s = SColl(2)

(* A value of the type that shows its outermost introduction.              *)
Shows(w, ty, v) ==
  CASE ty.t = "lan" /\ ty.s.t = "scoll" ->
         v.t = "in" /\ v.a.t = "leg" /\ v.a.k \in 0 .. ty.s.n - 1
    [] ty.t = "lan" /\ ty.s.t = "smu" ->
         v.t = "in" /\ v.a.t = "actor"
         /\ CtorNamed(w.families[ty.s.fam], v.a.c) # {}
    [] ty.t = "lan" /\ ty.s.t = "spi" -> v.t = "in" /\ v.a.t = "pt"
    [] ty = VNeutral(GlobalHead("Nat"), <<>>) -> v.t = "lit"
    [] OTHER -> TRUE

(* The functions to booleans, and their answer at a probe.                 *)
Predicate(w, n) == LET ty == TypeOf(w, n)
                   IN  /\ ty.t = "ran" /\ ty.s.t = "spi"
                       /\ IsBool(OpenIn(Ctx(w), ty.d, <<VVar(0)>>))
Fitting(w, n)   == LET dom == TypeOf(w, n).s.dom
                   IN  {p \in Probes : Check(Ctx(w), Zero, p, dom, Enough).ok}
Answer(w, n, p) == OutValue(w.globals, TypeOf(w, n).s, Pt(ManyQ, Force(w, p)),
                            ValueOf(w, n))

(* An elimination with induction hypotheses is not run by the evaluator:   *)
(* at a constructor it gives an error.                                     *)
Routed(w, e) == e.t = "elim" /\ e.s.t = "smu" /\ e.s.fam \in DOMAIN w.families
                /\ Routes(w.families[e.s.fam], e.brs)
RECURSIVE HasRouted(_, _)
HasRouted(w, e) == Routed(w, e) \/ \E k \in DOMAIN Parts(e) : HasRouted(w, Parts(e)[k])
Delays(w) == \E n \in DOMAIN w.globals : HasRouted(w, w.globals[n].body)

(* A function that is a recursion on its argument.                         *)
Recursion(w, n) == LET b == w.globals[n].body
                   IN  /\ b.t = "sec" /\ b.s.t = "spi"
                       /\ Routed(w, b.legs[1].b)
                       /\ b.legs[1].b.scrut = Var(0)
(* What the recursion is at v: its branch at the constructor of v, with    *)
(* the recursion at each recursive field for the hypothesis.               *)
RECURSIVE Unroll(_, _, _, _)
Unroll(w, e, env, v) ==
  LET fam == w.families[e.s.fam]
      ct  == CtorOf(fam, v.a.c)
      hs  == SelectSeq([k \in DOMAIN ct.args |-> k],
                       LAMBDA k : LET ty == ct.args[k].ty
                                  IN  ty.t = "lan" /\ FamilyOf(ty.s) = {e.s.fam})
      hyps == [j \in DOMAIN hs |-> Unroll(w, e, env, v.args[hs[j]])]
      leg  == e.brs[First(AtKey(v.a, e.brs))].leg
  IN  IF AllOk(hyps) THEN Eval(w.globals, Extend(v.args \o hyps, env), leg.b)
      ELSE Fail
UnrollAt(w, n, v) ==
  LET ps == ParamEnv(Ctx(w), TypeOf(w, n).s.dom.d)
  IN  Unroll(w, w.globals[n].body.legs[1].b, ps.env \o <<v>>, v)

RECURSIVE HasElim(_)
HasElim(e) == e.t = "elim" \/ \E k \in DOMAIN Parts(e) : HasElim(Parts(e)[k])

--------------------------------------------------------------------------
\* Properties: what a statement adds to the program that is admitted.

(* No definition of a program without postulates is a proof of a type that *)
(* has no value: neither a group of families that is not strictly positive *)
(* nor an elimination that leaves a case out makes one.                    *)
Consistent ==
  [][\A w \in Worlds(program') : AxiomFree(w) =>
       \A n \in Newest(program') : ~IsEmpty(w, TypeOf(w, n))]_vars

(* Without postulates an admitted definition computes: its value at a left *)
(* former is an introduction, at Nat a literal, never a stuck elimination. *)
Canonical ==
  [][\A w \in Worlds(program') : AxiomFree(w) =>
       \A n \in Newest(program') :
         LET ty == TypeOf(w, n)   v == ValueOf(w, n)
         IN  IsEmpty(w, ty) \/ Shows(w, ty, v) \/ (Delays(w) /\ ~Ok(v))]_vars

(* A recursion computes: at each constructor its branch, given the         *)
(* recursion at the recursive fields for its hypotheses, is a value of the *)
(* type the motive has there.                                              *)
RecursorComputes ==
  [][\A w \in Worlds(program') : AxiomFree(w) =>
       \A n \in Newest(program') : Recursion(w, n) =>
         \A p \in Fitting(w, n) :
           LET v == Force(w, p)   r == UnrollAt(w, n, v)
           IN  Ok(r) /\ Check(Ctx(w), Zero, Quote(w.globals, 0, r),
                              OpenIn(Ctx(w), TypeOf(w, n).d, <<v>>), Enough).ok]_vars

(* The group a recursor is laid out for has every family that reaches its  *)
(* owner through fields, in however many steps: no recursive field through *)
(* other families is taken for an ordinary one.                            *)
GroupClosed ==
  [][Newest(program') = {} => \A w \in Worlds(program') :
       \A owner \in DOMAIN w.families :
         LET closed(S) == Joining(S, w.families) = {}
         IN  Members(w.families, owner) =
               {n \in DOMAIN w.families : \A S \in SUBSET DOMAIN w.families :
                  owner \in S /\ closed(S) => n \in S}]_vars

(* What is erased is not read: a predicate whose argument is at quantity 0 *)
(* answers the same at every argument, however the argument travels        *)
(* through lets, pairs, other functions and eliminations.                  *)
ErasedUnread ==
  [][\A w \in Worlds(program') : AxiomFree(w) =>
       \A n \in Newest(program') : Predicate(w, n) /\ TypeOf(w, n).s.q = Zero =>
         \A p, r \in Fitting(w, n) : Answer(w, n, p) = Answer(w, n, r)]_vars

(* Conversion identifies only what no admitted predicate tells apart: eta, *)
(* the irrelevance of proofs and the elimination of propositions into      *)
(* larger universes agree on what a proof may be read for.                 *)
Congruent ==
  [][\A w \in Worlds(program') : AxiomFree(w) =>
       \A n \in Newest(program') : Predicate(w, n) =>
         \A p, r \in Fitting(w, n) :
           Conv(Ctx(w), TypeOf(w, n).s.dom, Force(w, p), Force(w, r), Enough).v = TRUE
             => Answer(w, n, p) = Answer(w, n, r)]_vars

(* The normal form of an admitted definition, when no elimination is stuck *)
(* in it, is closed, has the type of the definition and the same value.    *)
NormalForms ==
  [][\A w \in Worlds(program') : \A n \in Newest(program') :
       LET e  == NormalForm(w.globals, Global(n))
           ty == Eval(w.globals, <<>>, w.globals[n].ty)
       IN  (Ok(e) \/ Delays(w)) /\ (~Ok(e) \/ HasElim(e) \/
             /\ Closed(e)
             /\ Check(Ctx(w), Zero, e, ty, Enough).ok
             /\ Conv(Ctx(w), ty, ValueOf(w, n), Force(w, e), Enough).v = TRUE)]_vars

(* A statement admitted with a budget is admitted with a larger one: what  *)
(* the budget cuts short inside a question about propositions never turns  *)
(* a refusal into an admission.                                            *)
FuelMonotone ==
  [][\A w \in Worlds(program) : \A b, c \in Budgets :
       LET verdict(f) == Admit(w, program'[Len(program')], f).ok
       IN  b < c /\ verdict(b) => verdict(c)]_vars

(* Proof irrelevance is the rule of Prop alone: a postulated witness of a  *)
(* predicate at one value is no witness of it at another.                  *)
WitnessAtItsIndex ==
  [][\A w \in Worlds(program') : \A n \in Newest(program') :
       LET e     == w.globals[n]
           at(m) == [k \in DOMAIN TypeOf(w, m).s.idx |->
                       Quote(w.globals, 0, TypeOf(w, m).s.idx[k])]
       IN  e.kind = "def" /\ e.body.t = "global" =>
             LET ty == TypeOf(w, n)
             IN  ty.t = "lan" /\ ty.s.t = "smu" => at(n) = at(e.body.n)]_vars
=============================================================================

------------------------------- MODULE Typing -------------------------------
(***************************************************************************)
(* Typed conversion (lib/kernel_conv.c) and the bidirectional checker      *)
(* (lib/kernel_check.c, lib/kernel_rules.c).  The two call one another:    *)
(* checking compares types, and conversion infers the universe of a type   *)
(* to know whether it is a proposition.                                    *)
(*                                                                         *)
(* A context c has the globals g, the families fams, the environment env   *)
(* and the locals, both newest first, and its size.  A request threads the *)
(* fuel f and answers [ok, v, f]: only a request to infer spends a unit.   *)
(***************************************************************************)
EXTENDS Eval, Quantity

Done(v, f)  == [ok |-> TRUE, v |-> v, f |-> f]
Refused(f)  == [ok |-> FALSE, v |-> None, f |-> f]
Lift(v, f)  == IF Ok(v) THEN Done(v, f) ELSE Refused(f)
Guard(p, f) == IF p THEN Done(None, f) ELSE Refused(f)
Then(r, next(_, _)) == IF r.ok THEN next(r.v, r.f) ELSE r

(* step(v, k, f) for k = 1 .. n, each on the answer of the one before.     *)
Walk(n, init, step(_, _, _)) ==
  FoldLeft(LAMBDA r, k : Then(r, LAMBDA v, f : step(v, k, f)),
           init, [k \in 1 .. n |-> k])
(* test(k, f) for k = 1 .. n up to the first that answers FALSE.           *)
Every(n, f, test(_, _)) ==
  Walk(n, Done(TRUE, f),
       LAMBDA v, k, f1 : IF v THEN test(k, f1) ELSE Done(FALSE, f1))

--------------------------------------------------------------------------
\* Contexts.

Top(g, fams) == [g |-> g, fams |-> fams, env |-> <<>>, locals |-> <<>>,
                 size |-> 0]
Define(c, q, ty, v) ==
  [c EXCEPT !.env = <<v>> \o @, !.locals = <<[q |-> q, ty |-> ty]>> \o @,
            !.size = @ + 1]
Bind(c, q, ty) == Define(c, q, ty, VVar(c.size))
(* The binders of a scope whose types conversion does not know.            *)
Grow(n, c) == FoldLeft(LAMBDA d, k : Bind(d, Many, Placeholder), c,
                       [k \in 1 .. n |-> k])

EvalIn(c, e)      == Eval(c.g, c.env, e)
OpenIn(c, clo, args) == Open(c.g, clo, args)
(* A closure opened at a term: one whose body reads no variable does not   *)
(* evaluate the argument.                                                  *)
OpenAt(c, clo, arg) ==
  IF ~ExistsVar(clo.b) THEN OpenIn(c, clo, <<>>)
  ELSE LET v == EvalIn(c, arg) IN IF Ok(v) THEN OpenIn(c, clo, <<v>>) ELSE Fail

HeadTy(c, h) ==
  IF h.t = "local"
  THEN IF c.size - h.l \in DOMAIN c.locals THEN c.locals[c.size - h.l].ty
       ELSE Fail
  ELSE IF h.n \in DOMAIN c.g THEN Eval(c.g, <<>>, c.g[h.n].ty) ELSE Fail

(* The levels of a scope are closed: at a runtime mode each linear binder  *)
(* of it was used exactly once, or at most once when it is an alias.       *)
CloseScope(affine, c, lower, mode, uses, f) ==
  LET scope == lower .. c.size - 1
      kept(l) == IF affine THEN AtMostOnce(l, uses) ELSE ExactlyOnce(l, uses)
  IN  IF /\ mode # Zero
         /\ \E l \in scope : c.locals[c.size - l].q = One /\ ~kept(l)
      THEN Refused(f) ELSE Done(RemoveLevels(scope, uses), f)

--------------------------------------------------------------------------
\* Families.

CtorNamed(fam, n) == {k \in DOMAIN fam.ctors : fam.ctors[k].name = n}
CtorOf(fam, n)    == fam.ctors[First(CtorNamed(fam, n))]

ZeroCtor(fam, n) ==
  /\ CtorNamed(fam, n) # {}
  /\ \A k \in DOMAIN CtorOf(fam, n).args : CtorOf(fam, n).args[k].q = Zero
  /\ ~CtorOf(fam, n).self

(* A family whose values carry no information: a complete proposition with *)
(* no constructor, or one with only erased fields.                         *)
ZeroFamily(fam) ==
  /\ fam.status = "complete" /\ fam.level = 0 /\ fam.positive
  /\ \/ Len(fam.names) = 0
     \/ Len(fam.names) = 1 /\ ZeroCtor(fam, fam.names[1])

Subsingleton(c, ty) ==
  /\ ty.t = "lan" /\ ty.s.t = "smu" /\ ty.s.fam \in DOMAIN c.fams
  /\ ZeroFamily(c.fams[ty.s.fam])

Absent(names, e) == ~Occurs(names, e)
SelfRec(names, args) == \E k \in DOMAIN args : Occurs(names, args[k].ty)

(* An elimination whose leg binds induction hypotheses.                    *)
Routes(fam, brs) ==
  \E k \in DOMAIN brs :
    /\ brs[k].a.t = "actor" /\ CtorNamed(fam, brs[k].a.c) # {}
    /\ CtorOf(fam, brs[k].a.c).self
    /\ Len(brs[k].leg.qs) > Len(CtorOf(fam, brs[k].a.c).args)

--------------------------------------------------------------------------
RECURSIVE Infer(_, _, _, _), Check(_, _, _, _, _), Conv(_, _, _, _, _)

InferUniv(c, e, f) ==
  Then(Infer(c, Zero, e, f), LAMBDA i, f1 :
    LET w == Whnf(c.g, i.ty)
    IN  IF Ok(w) /\ w.t = "univ" THEN Done(w.l, f1) ELSE Refused(f1))

(* A refusal of the request, also of the budget, means: not a proposition. *)
\* Seeded fault: a refused request means a proposition.
IsPropCaught(c, ty, f) ==
  LET e == Quote(c.g, c.size, ty)
  IN  IF ~Ok(e) THEN Done(FALSE, f)
      ELSE LET r == InferUniv(c, e, f) IN Done(r.ok => r.v = 0, r.f)
IsProp(c, ty, f) ==
  LET e == Quote(c.g, c.size, ty)
  IN  IF ~Ok(e) THEN Done(FALSE, f)
      ELSE LET r == InferUniv(c, e, f) IN Done(r.ok /\ r.v = 0, r.f)

(* Conversion of two types, and of whatever has no known type.             *)
ConvType(c, a, b, f) == Conv(c, Placeholder, a, b, f)
ConvAt(c, ty, a, b, f) ==
  IF ty = None THEN ConvType(c, a, b, f) ELSE Conv(c, ty, a, b, f)

ConvAll(c, as, bs, f) ==
  LET n == Minimum(Len(as), Len(bs))
  IN  Then(Every(n, f, LAMBDA k, f1 : ConvType(c, as[k], bs[k], f1)),
           LAMBDA same, f1 : Done(same /\ Len(as) = Len(bs), f1))

ConvShape(c, s, r, f) ==
  CASE s.t # r.t -> Done(FALSE, f)
    [] s.t = "spi" /\ r.t = "spi" ->
         IF s.q = r.q THEN ConvType(c, s.dom, r.dom, f) ELSE Done(FALSE, f)
    [] s.t = "scoll" /\ r.t = "scoll" -> Done(s.n = r.n, f)
    [] s.t = "smu" /\ r.t = "smu" ->
         IF s.fam = r.fam THEN ConvAll(c, s.idx, r.idx, f) ELSE Done(FALSE, f)

(* ty is the type of a point, None when it is not known.                   *)
ConvAddr(c, ty, a, b, f) ==
  IF a.t = "pt" /\ b.t = "pt" THEN ConvAt(c, ty, a.arg, b.arg, f)
  ELSE Done(a.t = b.t /\ a = b, f)

(* Two bodies under the same count of fresh binders.                       *)
ConvBodies(c, n, env1, b1, env2, b2, f) ==
  LET v1 == Eval(c.g, Extend(Fresh(c.size, n), env1), b1)
      v2 == Eval(c.g, Extend(Fresh(c.size, n), env2), b2)
  IN  IF Ok(v1) /\ Ok(v2) THEN ConvType(Grow(n, c), v1, v2, f) ELSE Refused(f)
ConvLegs(c, n, env1, b1, m, env2, b2, f) ==
  IF n = m THEN ConvBodies(c, n, env1, b1, env2, b2, f) ELSE Done(FALSE, f)

ConvDiagram(c, s, d1, d2, f) ==
  LET args == IF Pack(s) = "pi" THEN <<VVar(c.size)>> ELSE <<>>
      in   == IF Pack(s) = "pi" THEN Bind(c, s.q, s.dom) ELSE c
      v1 == OpenIn(c, d1, args)
      v2 == OpenIn(c, d2, args)
  IN  IF Ok(v1) /\ Ok(v2) THEN ConvType(in, v1, v2, f) ELSE Refused(f)

(* Empty collections are compared at their level; an absent one is 0.      *)
SameLevel(s, u1, u2) ==
  s.t = "scoll" /\ s.n = 0 => Maximum(u1, 0) = Maximum(u2, 0)

ConvFormers(c, a, b, f) ==
  Then(ConvShape(c, a.s, b.s, f), LAMBDA same, f1 :
    IF same /\ SameLevel(a.s, a.u, b.u) THEN ConvDiagram(c, a.s, a.d, b.d, f1)
    ELSE Done(FALSE, f1))

(* The type of an address and the type of the frame's answer, when the     *)
(* head of the spine is known to be a right former; None when they are not.*)
SectionOf(c, d) == LET v == OpenIn(c, d, <<>>)
                   IN  IF v.t = "sec" THEN v ELSE Fail
SpineStep(c, hty, s, a) ==
  LET w == Whnf(c.g, hty)
      no == [arg |-> None, next |-> None]
  IN  CASE w.t # "ran" -> [no EXCEPT !.arg = IF Ok(w) THEN None ELSE Fail]
        [] w.t = "ran" /\ Pack(s) = "pi" ->
             IF a.t # "pt" THEN no
             ELSE [arg |-> IF s.t = "spi" THEN s.dom ELSE None,
                   next |-> OpenIn(c, w.d, <<a.arg>>)]
        [] w.t = "ran" /\ Pack(s) = "coll" ->
             IF a.t # "leg" THEN no
             ELSE LET sec == SectionOf(c, w.d)
                  IN  IF ~Ok(sec) THEN [no EXCEPT !.next = Fail]
                      ELSE IF a.k + 1 \in DOMAIN sec.legs
                      THEN [no EXCEPT !.next =
                              OpenIn(c, sec.legs[a.k + 1].clo, <<>>)]
                      ELSE no
        [] w.t = "ran" /\ Pack(s) = "mu" -> no

ConvMotives(c, x, y, f) ==
  IF x.mo = NoMotive \/ y.mo = NoMotive THEN Done(x.mo = y.mo, f)
  ELSE ConvLegs(c, x.mo.n + 1, x.env, x.mo.b, y.mo.n + 1, y.env, y.mo.b, f)

ConvBranchAddr(c, x, y, k, f) ==
  LET a == x.brs[k].a
      b == y.brs[k].a
  IN  IF a.t = "pt" /\ b.t = "pt"
      THEN LET v == Eval(c.g, x.env, a.arg)
               w == Eval(c.g, y.env, b.arg)
           IN  IF Ok(v) /\ Ok(w) THEN ConvType(c, v, w, f) ELSE Refused(f)
      ELSE Done(a.t = b.t /\ a = b, f)

ConvBranches(c, x, y, f) ==
  LET n == Minimum(Len(x.brs), Len(y.brs))
      one(k, f1) ==
        Then(ConvBranchAddr(c, x, y, k, f1), LAMBDA same, f2 :
          IF same THEN ConvLegs(c, Len(x.brs[k].leg.qs), x.env, x.brs[k].leg.b,
                                Len(y.brs[k].leg.qs), y.env, y.brs[k].leg.b, f2)
          ELSE Done(FALSE, f2))
  IN  Then(Every(n, f, one), LAMBDA same, f1 :
             Done(same /\ Len(x.brs) = Len(y.brs), f1))

(* Two stuck eliminations.                                                 *)
ConvStuck(c, x, y, f) ==
  Then(ConvShape(c, x.s, y.s, f), LAMBDA shape, f1 :
  Then(ConvMotives(c, x, y, f1), LAMBDA motive, f2 :
    IF shape /\ motive /\ x.q = y.q THEN ConvBranches(c, x, y, f2)
    ELSE Done(FALSE, f2)))

(* One frame, under the type hty of what stands before it; the answer says *)
(* whether the frames agree and the type of what stands after.             *)
ConvFrame(c, x, y, hty, f) ==
  CASE x.t # y.t -> Done([same |-> FALSE, hty |-> hty], f)
    [] x.t = "elim" /\ y.t = "elim" ->
         Then(ConvStuck(c, x, y, f), LAMBDA same, f1 :
                Done([same |-> same, hty |-> Placeholder], f1))
    [] x.t = "out" /\ y.t = "out" ->
         Then(ConvShape(c, x.s, y.s, f), LAMBDA shape, f1 :
           LET st == SpineStep(c, hty, x.s, x.a)
               known == st.next # None
           IN  IF ~Ok(st.arg) \/ ~Ok(st.next) THEN Refused(f1)
               ELSE Then(ConvAddr(c, IF known THEN st.arg ELSE None,
                                  x.a, y.a, f1), LAMBDA addr, f2 :
                      Done([same |-> shape /\ addr,
                            hty |-> IF known THEN st.next ELSE Placeholder],
                           f2)))

ConvNeutrals(c, a, b, f) ==
  IF a.head # b.head THEN Done(FALSE, f)
  ELSE LET ty == HeadTy(c, a.head)
           n  == Minimum(Len(a.spine), Len(b.spine))
           frame(st, k, f1) == IF st.same
                               THEN ConvFrame(c, a.spine[k], b.spine[k], st.hty, f1)
                               ELSE Done(st, f1)
       IN  IF ~Ok(ty) THEN Refused(f)
           ELSE Then(Walk(n, Done([same |-> TRUE, hty |-> ty], f), frame),
                     LAMBDA st, f1 :
                       Done(st.same /\ Len(a.spine) = Len(b.spine), f1))

ConvIntros(c, a, b, f) ==
  Then(ConvShape(c, a.s, b.s, f), LAMBDA shape, f1 :
  Then(ConvAddr(c, None, a.a, b.a, f1), LAMBDA addr, f2 :
    IF shape /\ addr THEN ConvAll(c, a.args, b.args, f2) ELSE Done(FALSE, f2)))

ConvSections(c, a, b, f) ==
  Then(ConvShape(c, a.s, b.s, f), LAMBDA shape, f1 :
    LET n == Minimum(Len(a.legs), Len(b.legs))
        leg(k, f2) == LET x == a.legs[k]
                          y == b.legs[k]
                      IN  ConvLegs(c, Len(x.qs), x.clo.env, x.clo.b,
                                   Len(y.qs), y.clo.env, y.clo.b, f2)
    IN  IF ~shape THEN Done(FALSE, f1)
        ELSE Then(Every(n, f1, leg), LAMBDA same, f2 :
                    Done(same /\ Len(a.legs) = Len(b.legs), f2)))

Structural(c, v, w, f) ==
  LET a == Whnf(c.g, v)
      b == Whnf(c.g, w)
  IN  CASE ~Ok(a) \/ ~Ok(b) -> Refused(f)
        [] Ok(a) /\ Ok(b) /\ a.t # b.t -> Done(FALSE, f)
        [] a.t = "univ" /\ b.t = "univ" -> Done(a.l = b.l, f)
        [] a.t = "lit" /\ b.t = "lit" -> Done(a.n = b.n, f)
        [] a.t = b.t /\ a.t \in {"lan", "ran"} -> ConvFormers(c, a, b, f)
        [] a.t = b.t /\ a.t = "in" -> ConvIntros(c, a, b, f)
        [] a.t = b.t /\ a.t = "sec" -> ConvSections(c, a, b, f)
        [] a.t = b.t /\ a.t = "neutral" -> ConvNeutrals(c, a, b, f)

(* Eta at a right point former: both sides applied to a fresh variable.    *)
EtaFunction(c, w, a, b, f) ==
  LET x   == Pt(w.s.q, VVar(c.size))
      cod == OpenIn(c, w.d, <<VVar(c.size)>>)
      fa  == OutValue(c.g, w.s, x, a)
      fb  == OutValue(c.g, w.s, x, b)
  IN  IF Ok(cod) /\ Ok(fa) /\ Ok(fb)
      THEN Conv(Bind(c, w.s.q, w.s.dom), cod, fa, fb, f) ELSE Refused(f)

(* Eta at a left point former: the two projections.                        *)
ProjBranch(q, second) ==
  <<Branch(Leg(0), <<q, Many>>, Var(IF second THEN 0 ELSE 1))>>
Project(c, w, mo, second, v) ==
  ElimValue(c.g, w.s, One, mo, ProjBranch(w.s.q, second), c.env, v)
ProjMotive(c, w, second) ==
  LET point == ElimValue(c.g, w.s, w.s.q, NoMotive, ProjBranch(w.s.q, FALSE),
                         c.env, VVar(c.size))
      v == IF second THEN OpenIn(c, w.d, <<point>>) ELSE w.s.dom
      b == IF Ok(v) THEN Quote(c.g, c.size + 1, v) ELSE Fail
  IN  IF Ok(b) THEN Motive("", 0, b) ELSE NoMotive

EtaPair(c, w, a, b, f) ==
  LET m1 == ProjMotive(c, w, FALSE)
      a1 == Project(c, w, m1, FALSE, a)
      b1 == Project(c, w, m1, FALSE, b)
  IN  IF m1 = NoMotive \/ ~Ok(a1) \/ ~Ok(b1) THEN Refused(f)
      ELSE Then(Conv(c, w.s.dom, a1, b1, f), LAMBDA same, f1 :
             LET cod == OpenIn(c, w.d, <<a1>>)
                 m2  == ProjMotive(c, w, TRUE)
                 a2  == Project(c, w, m2, TRUE, a)
                 b2  == Project(c, w, m2, TRUE, b)
             IN  IF ~same THEN Done(FALSE, f1)
                 ELSE IF ~Ok(cod) \/ m2 = NoMotive \/ ~Ok(a2) \/ ~Ok(b2)
                 THEN Refused(f1)
                 ELSE Conv(c, cod, a2, b2, f1))

(* Eta at a right collection: leg by leg at the type of the leg.           *)
EtaTuple(c, w, a, b, f) ==
  LET sec == SectionOf(c, w.d)
      leg(k, f1) ==
        IF k \notin DOMAIN sec.legs THEN Refused(f1)
        ELSE LET ty == OpenIn(c, sec.legs[k].clo, <<>>)
                 x  == OutValue(c.g, w.s, Leg(k - 1), a)
                 y  == OutValue(c.g, w.s, Leg(k - 1), b)
             IN  IF Ok(ty) /\ Ok(x) /\ Ok(y) THEN Conv(c, ty, x, y, f1)
                 ELSE Refused(f1)
  IN  IF ~Ok(sec) \/ w.s.n < 0 THEN Refused(f) ELSE Every(w.s.n, f, leg)

Expand(c, w, a, b, f) ==
  CASE Pack(w.s) = "pi" /\ w.t = "ran" -> EtaFunction(c, w, a, b, f)
    [] Pack(w.s) = "pi" /\ w.t = "lan" -> EtaPair(c, w, a, b, f)
    [] Pack(w.s) = "coll" -> EtaTuple(c, w, a, b, f)

Conv(c, ty, a, b, f) ==
  Then(IsProp(c, ty, f), LAMBDA prop, f1 :
    LET w == Whnf(c.g, ty)
    IN  CASE prop -> Done(TRUE, f1)
          [] ~prop /\ ~Ok(w) -> Refused(f1)
          [] ~prop /\ Ok(w) ->
               IF Subsingleton(c, w) THEN Done(TRUE, f1)
               ELSE IF w.t \in {"lan", "ran"} /\ HasEta(w.s, w.t = "ran")
               THEN Expand(c, w, a, b, f1)
               ELSE Structural(c, a, b, f1))

--------------------------------------------------------------------------
\* The rules of the right and left formers.

(* A function type into a proposition is a proposition.                    *)
FormPi(c, s, d, right, f) ==
  Then(InferUniv(c, s.dom, f), LAMBDA l, f1 :
    LET dv == EvalIn(c, s.dom)
    IN  IF ~Ok(dv) THEN Refused(f1)
        ELSE Then(InferUniv(Bind(c, s.q, dv), d, f1), LAMBDA m, f2 :
               Done(IF right /\ m = 0 THEN 0 ELSE Maximum(l, m), f2)))

(* level is the universe the former is checked against, -1 when there is   *)
(* none; only an empty collection takes it over.                           *)
FormColl(c, s, d, level, f) ==
  IF ~(/\ d.t = "sec" /\ d.s = s /\ Len(d.legs) = s.n
       /\ \A k \in DOMAIN d.legs : d.legs[k].qs = <<>>)
  THEN Refused(f)
  ELSE Then(Walk(s.n, Done(0, f), LAMBDA l, k, f1 :
              Then(InferUniv(c, d.legs[k].b, f1), LAMBDA m, f2 :
                Done(Maximum(l, m), f2))),
            LAMBDA l, f1 : Done(IF s.n = 0 THEN Maximum(level, 0) ELSE l, f1))

(* The arguments of a telescope, each checked at the type its predecessors *)
(* give it.  The answer is the environment of the arguments and what they  *)
(* use.  An argument that nothing reads is not evaluated: need says        *)
(* whether the caller reads the environment.                               *)
Reads(tele, k) == \E j \in k + 1 .. Len(tele) : ExistsVar(tele[j].ty)
Telescope(c, mode, tele, args, env, need, f) ==
  IF Len(tele) # Len(args) THEN Refused(f)
  ELSE Walk(Len(tele), Done([env |-> env, uses |-> Empty], f),
         LAMBDA st, k, f1 :
           LET ty == Eval(c.g, st.env, tele[k].ty)
           IN  IF ~Ok(ty) THEN Refused(f1)
               ELSE Then(Check(c, Mul(mode, tele[k].q), args[k], ty, f1),
                         LAMBDA u, f2 :
                 LET read == need \/ Reads(tele, k)
                     v == IF read THEN EvalIn(c, args[k]) ELSE None
                 IN  IF ~Ok(v) THEN Refused(f2)
                     ELSE Done([env |-> IF read THEN <<v>> \o st.env ELSE st.env,
                                uses |-> Sequence(st.uses, u)], f2)))

(* A family may be used when it is not complete and refused.               *)
Usable(c, n) == n \in DOMAIN c.fams
                /\ (c.fams[n].status = "complete" => c.fams[n].positive)

FormMu(c, s, d, f) ==
  IF ~Usable(c, s.fam) \/ d.t # "sec" THEN Refused(f)
  ELSE LET fam == c.fams[s.fam]
       IN  Then(Telescope(c, Zero, fam.params, Bodies(d.legs), <<>>, TRUE, f),
                LAMBDA st, f1 :
           Then(Telescope(c, Zero, fam.indices, s.idx, st.env, FALSE, f1),
                LAMBDA ix, f2 : Done(fam.level, f2)))

Form(c, s, d, level, right, f) ==
  CASE ~HasPack(s) -> Refused(f)
    [] s.t = "spi" -> FormPi(c, s, d, right, f)
    [] s.t = "scoll" -> FormColl(c, s, d, level, f)
    [] s.t = "smu" -> IF right THEN Refused(f) ELSE FormMu(c, s, d, f)

CheckFormer(c, e, ty, f) ==
  LET w == Whnf(c.g, ty)
  IN  IF w.t # "univ" THEN Refused(f)
      ELSE Then(Form(c, e.s, e.d, w.l, e.t = "ran", f), LAMBDA l, f1 :
             IF l = w.l THEN Done(Empty, f1) ELSE Refused(f1))

--------------------------------------------------------------------------
\* Introductions.

(* A scope checked at a type; what it uses outside of the scope.           *)
CheckScope(c, inner, mode, b, ty, f) ==
  Then(Check(inner, Runtime(mode), b, ty, f), LAMBDA u, f1 :
         CloseScope(FALSE, inner, c.size, mode, u, f1))

IntroFunction(c, mode, e, w, f) ==
  LET leg == e.legs[1]
      cod == OpenIn(c, w.d, <<VVar(c.size)>>)
  IN  IF Len(e.legs) # 1 \/ leg.qs # <<w.s.q>> \/ ~Ok(cod) THEN Refused(f)
      ELSE Then(CheckScope(c, Bind(c, w.s.q, w.s.dom), mode, leg.b, cod, f),
                LAMBDA u, f1 : Done(Scale(mode, Captures(u)), f1))

IntroTuple(c, mode, e, w, f) ==
  LET sec == SectionOf(c, w.d)
      leg(u, k, f1) ==
        IF k \notin DOMAIN sec.legs THEN Refused(f1)
        ELSE LET ty == OpenIn(c, sec.legs[k].clo, <<>>)
             IN  IF ~Ok(ty) THEN Refused(f1)
                 ELSE Then(Check(c, mode, e.legs[k].b, ty, f1),
                           LAMBDA v, f2 : Done(Sequence(u, v), f2))
  IN  IF w.s.n # e.s.n \/ Len(e.legs) # e.s.n \/ ~Ok(sec) THEN Refused(f)
      ELSE Then(Walk(e.s.n, Done(Empty, f), leg), LAMBDA u, f1 :
             IF Len(sec.legs) = e.s.n THEN Done(u, f1) ELSE Refused(f1))

CheckSec(c, mode, e, ty, f) ==
  LET w == Whnf(c.g, ty)
  IN  IF e.s.t \in {"spi", "scoll"} /\ w.t = "ran" /\ w.s.t = e.s.t
      THEN IF e.s.t = "spi" THEN IntroFunction(c, mode, e, w, f)
           ELSE IntroTuple(c, mode, e, w, f)
      ELSE Refused(f)

IntroPair(c, mode, e, w, f) ==
  IF e.a.t # "pt" \/ Len(e.args) # 1 THEN Refused(f)
  ELSE Then(Check(c, Mul(mode, w.s.q), e.a.arg, w.s.dom, f), LAMBDA u, f1 :
         LET cod == OpenAt(c, w.d, e.a.arg)
         IN  IF ~Ok(cod) THEN Refused(f1)
             ELSE Then(Check(c, mode, e.args[1], cod, f1), LAMBDA v, f2 :
                    Done(Sequence(u, v), f2)))

IntroInjection(c, mode, e, w, f) ==
  LET sec == SectionOf(c, w.d)
  IN  IF \/ e.a.t # "leg" \/ e.a.k \notin 0 .. w.s.n - 1 \/ ~Ok(sec)
         \/ e.a.k + 1 \notin DOMAIN sec.legs \/ Len(e.args) # 1
      THEN Refused(f)
      ELSE LET ty == OpenIn(c, sec.legs[e.a.k + 1].clo, <<>>)
           IN  IF Ok(ty) THEN Check(c, mode, e.args[1], ty, f) ELSE Refused(f)

(* The parameters of a family former, newest first.                        *)
ParamEnv(c, d) ==
  LET sec == SectionOf(c, d)
      vs  == [k \in DOMAIN sec.legs |-> OpenIn(c, sec.legs[k].clo, <<>>)]
  IN  IF ~Ok(sec) \/ ~AllOk(vs) THEN [ok |-> FALSE, env |-> <<>>]
      ELSE [ok |-> TRUE, env |-> Reverse(vs)]

(* The indices a constructor gives are those its type asks for.            *)
CtorIndices(c, ct, idx, env, f) ==
  LET one(k, f1) == LET got == Eval(c.g, env, ct.idx[k])
                    IN  IF Ok(got) THEN ConvType(c, got, idx[k], f1)
                        ELSE Refused(f1)
  IN  IF Len(ct.idx) # Len(idx) THEN Refused(f)
      ELSE Then(Every(Len(idx), f, one), LAMBDA same, f1 : Guard(same, f1))

IntroCtor(c, mode, e, w, f) ==
  IF e.a.t # "actor" \/ ~Usable(c, w.s.fam) THEN Refused(f)
  ELSE LET fam == c.fams[w.s.fam]
           ps  == ParamEnv(c, w.d)
       IN  IF CtorNamed(fam, e.a.c) = {} \/ ~ps.ok THEN Refused(f)
           ELSE LET ct == CtorOf(fam, e.a.c)
                IN  Then(Telescope(c, mode, ct.args, e.args, ps.env, TRUE, f),
                         LAMBDA st, f1 :
                    Then(CtorIndices(c, ct, w.s.idx, st.env, f1),
                         LAMBDA n, f2 : Done(st.uses, f2)))

CheckIn(c, mode, e, ty, f) ==
  LET w == Whnf(c.g, ty)
  IN  CASE ~HasPack(e.s) \/ w.t # "lan" -> Refused(f)
        [] HasPack(e.s) /\ w.t = "lan" /\ w.s.t # e.s.t -> Refused(f)
        [] w.t = "lan" /\ w.s.t = e.s.t /\ e.s.t = "spi" ->
             IntroPair(c, mode, e, w, f)
        [] w.t = "lan" /\ w.s.t = e.s.t /\ e.s.t = "scoll" ->
             IntroInjection(c, mode, e, w, f)
        [] w.t = "lan" /\ w.s.t = e.s.t /\ e.s.t = "smu" ->
             IntroCtor(c, mode, e, w, f)

--------------------------------------------------------------------------
\* Eliminations.  Each answers the type of the term and what it uses.

Inferred(ty, u, f) == IF Ok(ty) THEN Done([ty |-> ty, uses |-> u], f)
                      ELSE Refused(f)

InferOut(c, mode, e, f) ==
  CASE e.s.t = "spi" /\ e.a.t = "pt" ->
         Then(Infer(c, mode, e.head, f), LAMBDA h, f1 :
           LET w == Whnf(c.g, h.ty)
           IN  IF w.t # "ran" \/ (w.t = "ran" /\ w.s.t # "spi") THEN Refused(f1)
               ELSE Then(Check(c, Mul(mode, w.s.q), e.a.arg, w.s.dom, f1),
                         LAMBDA u, f2 :
                      Inferred(OpenAt(c, w.d, e.a.arg), Sequence(h.uses, u), f2)))
    [] e.s.t = "scoll" /\ e.a.t = "leg" ->
         Then(Infer(c, mode, e.head, f), LAMBDA h, f1 :
           LET w == Whnf(c.g, h.ty)
           IN  IF w.t # "ran" \/ (w.t = "ran" /\ w.s.t # "scoll")
               THEN Refused(f1)
               ELSE LET sec == SectionOf(c, w.d)
                    IN  IF \/ e.a.k \notin 0 .. w.s.n - 1 \/ ~Ok(sec)
                           \/ e.a.k + 1 \notin DOMAIN sec.legs
                        THEN Refused(f1)
                        ELSE Inferred(OpenIn(c, sec.legs[e.a.k + 1].clo, <<>>),
                                      h.uses, f1))
    [] OTHER -> Refused(f)

(* The scrutinee, with the left former it must have as its type.           *)
Scrutinee(c, mode, e, f) ==
  IF mode # Zero /\ e.q = Zero THEN Refused(f)
  ELSE Then(Infer(c, Mul(mode, e.q), e.scrut, f), LAMBDA i, f1 :
         LET w == Whnf(c.g, i.ty)
         IN  IF w.t = "lan" THEN Done([w |-> w, uses |-> i.uses], f1)
             ELSE Refused(f1))

(* The type of an elimination at self: its motive there, or the type it is *)
(* checked against.                                                        *)
ElimResult(c, mo, expected, self) ==
  IF mo # NoMotive THEN Eval(c.g, <<self>> \o c.env, mo.b)
  ELSE IF expected = None THEN Fail ELSE expected

CheckMotive(c, mo, ty, f) ==
  IF mo = NoMotive THEN Done(None, f) ELSE InferUniv(Bind(c, Zero, ty), mo.b, f)

CheckBranch(c, inner, mode, b, ty, f) ==
  IF Ok(ty) THEN CheckScope(c, inner, mode, b, ty, f) ELSE Refused(f)

ElimPair(c, mode, e, w, expected, f) ==
  LET br  == e.brs[1]
      x   == VVar(c.size)
      cod == OpenIn(c, w.d, <<x>>)
      in  == Bind(Bind(c, br.leg.qs[1], w.s.dom), br.leg.qs[2], cod)
      self == VIn(w.s, Pt(w.s.q, x), <<VVar(c.size + 1)>>)
  IN  IF \/ Len(e.brs) # 1 \/ br.a # Leg(0) \/ Len(br.leg.qs) # 2
         \/ br.leg.qs[1] # w.s.q \/ ~Ok(cod)
      THEN Refused(f)
      ELSE CheckBranch(c, in, mode, br.leg.b,
                       ElimResult(c, e.mo, expected, self), f)

ElimColl(c, mode, e, w, expected, f) ==
  LET sec == SectionOf(c, w.d)
      branch(u, k, f1) ==
        LET at == AtKey(Leg(k - 1), e.brs)
            br == e.brs[First(at)]
            ty == OpenIn(c, sec.legs[k].clo, <<>>)
            self == VIn(w.s, Leg(k - 1), <<VVar(c.size)>>)
        IN  IF \/ at = {} \/ Len(br.leg.qs) # 1 \/ k \notin DOMAIN sec.legs
               \/ ~Ok(ty)
            THEN Refused(f1)
            ELSE Then(CheckBranch(c, Bind(c, br.leg.qs[1], ty), mode, br.leg.b,
                                  ElimResult(c, e.mo, expected, self), f1),
                      LAMBDA v, f2 : Done(Alternative(u, v), f2))
  IN  IF Len(e.brs) # w.s.n \/ ~Ok(sec) THEN Refused(f)
      ELSE Walk(w.s.n, Done(Unreachable, f), branch)

(* An elimination at a point or collection former.                         *)
ElimSimple(c, mode, e, expected, f) ==
  Then(Scrutinee(c, mode, e, f), LAMBDA sc, f1 :
    IF sc.w.s.t # e.s.t THEN Refused(f1)
    ELSE Then(CheckMotive(c, e.mo, sc.w, f1), LAMBDA m, f2 :
           LET sv == EvalIn(c, e.scrut)
               ty == IF Ok(sv) THEN ElimResult(c, e.mo, expected, sv) ELSE Fail
               brs == IF e.s.t = "spi"
                      THEN ElimPair(c, mode, e, sc.w, expected, f2)
                      ELSE ElimColl(c, mode, e, sc.w, expected, f2)
           IN  IF ~Ok(ty) THEN Refused(f2)
               ELSE Then(brs, LAMBDA u, f3 :
                      Inferred(ty, Sequence(sc.uses, Scale(mode, u)), f3))))

--------------------------------------------------------------------------
\* Eliminations at a family.

(* Binders of a telescope over the parameters: the context that binds them *)
(* and the environment of the telescope's types.                           *)
BindTele(c, tele, qs, env, f) ==
  Walk(Len(tele), Done([c |-> c, env |-> env, vals |-> <<>>], f),
    LAMBDA st, k, f1 :
      LET ty == Eval(c.g, st.env, tele[k].ty)
          x  == VVar(st.c.size)
      IN  IF ~Ok(ty) THEN Refused(f1)
          ELSE Done([c |-> Bind(st.c, qs[k], ty), env |-> <<x>> \o st.env,
                     vals |-> Append(st.vals, x)], f1))

(* The universe of the motive, under the indices and the scrutinee.        *)
MotiveLevel(c, n, fam, mo, w, penv, f) ==
  Then(BindTele(c, fam.indices, [k \in DOMAIN fam.indices |-> Zero], penv, f),
       LAMBDA st, f1 :
    InferUniv(Bind(st.c, Zero, VFormer("lan", SMu(n, st.vals), w.d, w.u)),
              mo.b, f1))

\* Seeded fault: any proposition may be eliminated into any universe.
LargeAllowed(fam, level) == TRUE
(* A proposition is eliminated into a larger universe only when its values *)
(* carry no information.                                                   *)
Large(fam, level) == fam.level # 0 \/ level = 0 \/ ZeroFamily(fam)

Keys(brs) == [k \in DOMAIN brs |-> brs[k].a]
(* Each constructor has one branch and each branch is of a constructor.    *)
Covers(fam, brs) ==
  /\ \A k \in DOMAIN brs : brs[k].a.t = "actor"
  /\ \A j \in DOMAIN fam.names :
       Cardinality({k \in DOMAIN brs : brs[k].a.c = fam.names[j]}) = 1
  /\ \A k \in DOMAIN brs : \E j \in DOMAIN fam.names :
       fam.names[j] = brs[k].a.c

MotiveAt(c, mo, idx, self) == Eval(c.g, <<self>> \o Extend(idx, c.env), mo.b)

MuBranch(c, mode, n, fam, e, penv, name, f) ==
  LET ct == CtorOf(fam, name)
      leg == e.brs[First(AtKey(Actor(name), e.brs))].leg
  IN  IF \/ CtorNamed(fam, name) = {} \/ Len(leg.qs) # Len(ct.args)
         \/ \E k \in DOMAIN ct.args : leg.qs[k] # ct.args[k].q
      THEN Refused(f)
      ELSE Then(BindTele(c, ct.args, leg.qs, penv, f), LAMBDA st, f1 :
             LET idx == EvalAll(c.g, st.env, ct.idx)
                 self == VIn(SMu(n, idx), Actor(name), st.vals)
             IN  IF ~AllOk(idx) THEN Refused(f1)
                 ELSE CheckBranch(c, st.c, mode, leg.b,
                                  MotiveAt(c, e.mo, idx, self), f1))

ElimMu(c, mode, e, f) ==
  Then(Scrutinee(c, mode, e, f), LAMBDA sc, f1 :
    LET w == sc.w
        n == w.s.fam
        fam == c.fams[n]
        ps == ParamEnv(c, w.d)
        branch(u, k, f2) ==
          Then(MuBranch(c, mode, n, fam, e, ps.env, fam.names[k], f2),
               LAMBDA v, f3 : Done(Alternative(u, v), f3))
    IN  IF w.s.t # "smu" THEN Refused(f1)
        ELSE IF \/ ~Usable(c, n) \/ e.mo = NoMotive \/ e.mo.ind # n
                \/ e.mo.n # Len(fam.indices) \/ Len(w.s.idx) # e.mo.n \/ ~ps.ok
        THEN Refused(f1)
        ELSE Then(MotiveLevel(c, n, fam, e.mo, w, ps.env, f1), LAMBDA l, f2 :
               IF \/ ~Large(fam, l) \/ fam.status # "complete"
                  \/ ~Covers(fam, e.brs)
               THEN Refused(f2)
               ELSE Then(Walk(Len(fam.names), Done(Unreachable, f2), branch),
                         LAMBDA u, f3 :
                      LET sv == EvalIn(c, e.scrut)
                      IN  IF ~Ok(sv) THEN Refused(f3)
                          ELSE Inferred(MotiveAt(c, e.mo, w.s.idx, sv),
                                 Sequence(sc.uses, Scale(mode, u)), f3))))

--------------------------------------------------------------------------
\* The recursor: eliminations with legs that bind induction hypotheses.

(* The families that reach the owner through the fields of constructors:   *)
(* one round for each family there is.                                     *)
Joining(names, fams) ==
  {n \in DOMAIN fams \ names :
     \E k \in DOMAIN fams[n].ctors : SelfRec(names, fams[n].ctors[k].args)}
\* Seeded fault: one round only.
MembersOnce(fams, owner) == {owner} \cup Joining({owner}, fams)
Members(fams, owner) ==
  FoldLeft(LAMBDA names, k : names \cup Joining(names, fams), {owner},
           [k \in 1 .. Cardinality(DOMAIN fams) |-> k])

(* The parameters of the family, defined as the values the scrutinee gives.*)
Instantiate(c, tele, vals, f) ==
  IF Len(tele) # Len(vals) THEN Refused(f)
  ELSE Walk(Len(tele), Done(c, f), LAMBDA d, k, f1 :
         LET ty == EvalIn(d, tele[k].ty)
         IN  IF Ok(ty) THEN Done(Define(d, Zero, ty, vals[k]), f1)
             ELSE Refused(f1))

(* A field is recursive when its type is the owner; any other field must   *)
(* not mention the group.                                                  *)
Direct(owner, ty) == ty.t = "lan" /\ ty.s.t = "smu" /\ ty.s.fam = owner
Ordinary(c, group, ty) ==
  LET e == Quote(c.g, c.size, ty) IN Ok(e) /\ Absent(group, e)

Fields(c, owner, group, args, f) ==
  Walk(Len(args), Done([c |-> c, fields |-> <<>>], f), LAMBDA pl, k, f1 :
    LET d  == pl.c
        ev == EvalIn(d, args[k].ty)
        ty == IF Ok(ev) THEN Whnf(d.g, ev) ELSE Fail
    IN  IF ~Ok(ty) \/ (~Direct(owner, ty) /\ ~Ordinary(d, group, ty))
        THEN Refused(f1)
        ELSE Done([c |-> Bind(d, args[k].q, ty),
                   fields |-> Append(pl.fields,
                     [q |-> args[k].q, ty |-> ty, x |-> VVar(d.size)])], f1))

(* A recursive field is at the parameters of the scrutinee.                *)
Uniform(base, c, params, vals, ty, f) ==
  LET ps == ParamEnv(c, ty.d)
      given == Reverse(ps.env)
      same(d, k, f1) ==
        LET pt == EvalIn(d, params[k].ty)
        IN  IF ~Ok(pt) THEN Refused(f1)
            ELSE Then(Conv(c, pt, given[k], vals[k], f1), LAMBDA eq, f2 :
                   IF eq THEN Done(Define(d, Zero, pt, vals[k]), f2)
                   ELSE Refused(f2))
  IN  IF ~ps.ok \/ Len(given) # Len(params) THEN Refused(f)
      ELSE Walk(Len(params), Done(base, f), same)

Recursive(owner, fs) == SelectSeq(fs, LAMBDA x : Direct(owner, x.ty))

Layout(c, origin, vals, owner, ct, f) ==
  LET fam == c.fams[owner]
  IN  Then(Fields(origin, owner, Members(c.fams, owner), ct.args, f),
           LAMBDA pl, f1 :
        LET rs == Recursive(owner, pl.fields)
            uniform(n, k, f2) == Uniform(c, pl.c, fam.params, vals, rs[k].ty, f2)
        IN  Then(Walk(Len(rs), Done(None, f1), uniform),
                 LAMBDA n, f2 : Done(pl, f2)))

(* The motive is checked over the parameters of the family.                *)
RecursorMotive(origin, owner, mo, f) ==
  LET fam == origin.fams[owner]
      n   == Len(fam.params)
      d   == Close(origin.env,
                   Sec(SColl(n), [k \in 1 .. n |-> Bound(<<>>, Var(n - k))]))
  IN  IF mo.ind # owner \/ mo.n # Len(fam.indices) THEN Refused(f)
      ELSE Then(MotiveLevel(origin, owner, fam, mo,
                            [d |-> d, u |-> fam.level], origin.env, f),
                LAMBDA l, f1 : Guard(Large(fam, l), f1))

\* Seeded fault: the hypothesis is about the constructor, not the field.
HypothesesOfSelf(origin, owner, mo, fs, self) ==
  [k \in DOMAIN Recursive(owner, fs) |->
     LET x == Recursive(owner, fs)[k]
     IN  [q |-> x.q, ty |-> MotiveAt(origin, mo, x.ty.s.idx, self)]]
(* One hypothesis for each recursive field: the motive at the field.       *)
Hypotheses(origin, owner, mo, fs, self) ==
  [k \in DOMAIN Recursive(owner, fs) |->
     LET x == Recursive(owner, fs)[k]
     IN  [q |-> x.q, ty |-> MotiveAt(origin, mo, x.ty.s.idx, x.x)]]

Formation(c, ty, f) ==
  LET e == IF Ok(ty) THEN Quote(c.g, c.size, ty) ELSE Fail
  IN  IF Ok(e) THEN InferUniv(c, e, f) ELSE Refused(f)
(* The binders of a branch and its target are types, each under the ones   *)
(* before it.                                                              *)
Certify(c, binders, target, f) ==
  Then(Walk(Len(binders), Done(c, f), LAMBDA d, k, f1 :
         Then(Formation(d, binders[k].ty, f1), LAMBDA l, f2 :
           Done(Bind(d, binders[k].q, binders[k].ty), f2))),
       LAMBDA d, f1 : Then(Formation(d, target, f1),
                           LAMBDA l, f2 : Done(d, f2)))

(* The leg binds what the plan says, and its body has the target's type.   *)
RecursorBody(origin, mode, leg, binders, target, in, f) ==
  IF leg.qs # [k \in DOMAIN binders |-> binders[k].q] THEN Refused(f)
  ELSE CheckScope(origin, in, mode, leg.b, target, f)

RecursorBranch(c, origin, vals, mode, owner, e, name, f) ==
  LET fam == c.fams[owner]
      ct  == CtorOf(fam, name)
      leg == e.brs[First(AtKey(Actor(name), e.brs))].leg
  IN  IF CtorNamed(fam, name) = {} THEN Refused(f)
      ELSE Then(Layout(c, origin, vals, owner, ct, f), LAMBDA pl, f1 :
           Then(RecursorMotive(origin, owner, e.mo, f1), LAMBDA n, f2 :
             LET idx  == EvalAll(c.g, pl.c.env, ct.idx)
                 self == VIn(SMu(owner, idx), Actor(name),
                             [k \in DOMAIN pl.fields |-> pl.fields[k].x])
                 hs   == Hypotheses(origin, owner, e.mo, pl.fields, self)
                 bs   == [k \in DOMAIN pl.fields |-> [q |-> pl.fields[k].q,
                                                     ty |-> pl.fields[k].ty]] \o hs
                 target == IF AllOk(idx) THEN MotiveAt(origin, e.mo, idx, self)
                           ELSE Fail
             IN  IF \E k \in DOMAIN hs : hs[k].q = One \/ ~Ok(hs[k].ty)
                 THEN Refused(f2)
                 ELSE Then(Certify(origin, bs, target, f2), LAMBDA in, f3 :
                        RecursorBody(origin, mode, leg, bs, target, in, f3))))

(* Each constructor's branch in the order of the family; the values of a   *)
(* family without constructors are not taken apart by recursion.           *)
RecursorBranches(c, origin, vals, mode, owner, e, f) ==
  LET fam == c.fams[owner]
      branch(us, k, f1) ==
        Then(RecursorBranch(c, origin, vals, mode, owner, e, fam.names[k], f1),
             LAMBDA u, f2 : Done(Append(us, u), f2))
  IN  IF fam.status # "complete" \/ fam.names = <<>> \/ ~Covers(fam, e.brs)
      THEN Refused(f)
      ELSE Then(Walk(Len(fam.names), Done(<<>>, f), branch), LAMBDA us, f1 :
             Done(FoldRight(Alternative, us, Unreachable), f1))

(* The parameters must be given by a section with as many legs as the      *)
(* family has parameters, none of which binds anything.                    *)
InstanceOf(c, width, d) ==
  LET sec == SectionOf(c, d)
  IN  IF /\ Ok(sec) /\ sec.s = SColl(width) /\ Len(sec.legs) = width
         /\ \A k \in DOMAIN sec.legs : sec.legs[k].qs = <<>>
      THEN ParamEnv(c, d) ELSE [ok |-> FALSE, env |-> <<>>]

Recursor(c, mode, e, f) ==
  LET owner == e.s.fam
      fam   == c.fams[owner]
  IN  IF e.mo = NoMotive \/ ~Usable(c, owner) THEN Refused(f)
      ELSE Then(Scrutinee(c, mode, e, f), LAMBDA sc, f1 :
        LET ps == InstanceOf(c, Len(fam.params), sc.w.d)
            vals == Reverse(ps.env)
        IN  IF sc.w.s.t # "smu" THEN Refused(f1)
            ELSE IF sc.w.s.fam # owner \/ ~ps.ok THEN Refused(f1)
            ELSE Then(Instantiate(c, fam.params, vals, f1), LAMBDA origin, f2 :
              Then(RecursorBranches(c, origin, vals, mode, owner, e, f2),
                   LAMBDA u, f3 :
                LET sv == EvalIn(c, e.scrut)
                IN  IF ~Ok(sv) THEN Refused(f3)
                    ELSE Then(CloseScope(FALSE, origin, c.size, mode, u, f3),
                              LAMBDA free, f4 :
                      Inferred(MotiveAt(origin, e.mo, sc.w.s.idx, sv),
                               Sequence(sc.uses, Scale(mode, free)), f4)))))

(* An elimination whose leg binds induction hypotheses goes to the         *)
(* recursor; the type that is expected of it is not passed on.             *)
InferElim(c, mode, e, expected, f) ==
  CASE ~HasPack(e.s) -> Refused(f)
    [] e.s.t \in {"spi", "scoll"} -> ElimSimple(c, mode, e, expected, f)
    [] e.s.t = "smu" ->
         IF e.s.fam \in DOMAIN c.fams /\ Routes(c.fams[e.s.fam], e.brs)
         THEN Recursor(c, mode, e, f) ELSE ElimMu(c, mode, e, f)

--------------------------------------------------------------------------
\* The two requests.

LinearDefinition(c, u) ==
  \E l \in 0 .. c.size - 1 : c.locals[c.size - l].q = One /\ Used(l, u)

LetBody(in, mode, e, expected, f) ==
  IF expected = None THEN Infer(in, mode, e.b, f)
  ELSE Then(Check(in, mode, e.b, expected, f), LAMBDA u, f1 :
         Inferred(expected, u, f1))

(* A let: its alias is linear when its definition uses a linear local.  The *)
(* body is checked when a type is expected, and inferred otherwise.        *)
InferLet(c, mode, e, expected, f) ==
  Then(InferUniv(c, e.ty, f), LAMBDA l, f1 :
    LET ty == EvalIn(c, e.ty)
    IN  IF ~Ok(ty) THEN Refused(f1)
        ELSE Then(Check(c, Runtime(mode), e.v, ty, f1), LAMBDA u, f2 :
          LET v == EvalIn(c, e.v)
              linear == LinearDefinition(c, u)
              q == IF mode = Zero THEN Zero ELSE IF linear THEN One ELSE Many
              in == Define(c, q, ty, v)
          IN  IF ~Ok(v) THEN Refused(f2)
              ELSE Then(LetBody(in, mode, e, expected, f2), LAMBDA i, f3 :
                   Then(CloseScope(linear, in, c.size, mode, i.uses, f3),
                        LAMBDA free, f4 :
                     Inferred(i.ty, Sequence(Scale(mode, u), free), f4)))))

\* Seeded fault: an erased local may be read at runtime.
ReadableAlways(mode, q) == TRUE
Readable(mode, q) == mode = Zero \/ q # Zero

InferNode(c, mode, e, f) ==
  CASE e.t = "var" ->
         IF e.i + 1 \notin DOMAIN c.locals
            \/ ~Readable(mode, c.locals[e.i + 1].q) THEN Refused(f)
         ELSE Inferred(c.locals[e.i + 1].ty,
                       Occurrence(c.size - e.i - 1, mode), f)
    [] e.t = "univ" -> Inferred(VUniv(e.l + 1), Empty, f)
    [] e.t \in {"lan", "ran"} ->
         Then(Form(c, e.s, e.d, -1, e.t = "ran", f), LAMBDA l, f1 :
                Inferred(VUniv(l), Empty, f1))
    [] e.t = "out" -> InferOut(c, mode, e, f)
    [] e.t = "elim" -> InferElim(c, mode, e, None, f)
    [] e.t = "let" ->
         InferLet(c, mode, e, None, f)
    [] e.t = "ann" ->
         Then(InferUniv(c, e.ty, f), LAMBDA l, f1 :
           LET ty == EvalIn(c, e.ty)
           IN  IF ~Ok(ty) THEN Refused(f1)
               ELSE Then(Check(c, mode, e.e, ty, f1), LAMBDA u, f2 :
                      Inferred(ty, u, f2)))
    [] e.t = "global" -> Inferred(HeadTy(c, GlobalHead(e.n)), Empty, f)
    [] e.t = "lit" ->
         IF e.n < 0 THEN Refused(f)
         ELSE Inferred(Eval(c.g, <<>>, Global("Nat")), Empty, f)
    [] e.t \in {"in", "sec", "auto"} -> Refused(f)

(* The only request that spends fuel.                                      *)
Infer(c, mode, e, f) ==
  IF f = 0 THEN Refused(0) ELSE InferNode(c, mode, e, f - 1)

Ensure(c, i, ty, f) ==
  Then(ConvType(c, i.ty, ty, f), LAMBDA same, f1 :
    IF same THEN Done(i.uses, f1) ELSE Refused(f1))

Check(c, mode, e, ty, f) ==
  CASE e.t = "sec" -> CheckSec(c, mode, e, ty, f)
    [] e.t = "in" -> CheckIn(c, mode, e, ty, f)
    [] e.t = "elim" ->
         Then(InferElim(c, mode, e, ty, f),
              LAMBDA i, f1 : Ensure(c, i, ty, f1))
    [] e.t \in {"lan", "ran"} -> CheckFormer(c, e, ty, f)
    [] e.t = "let" ->
         Then(InferLet(c, mode, e, ty, f), LAMBDA i, f1 : Done(i.uses, f1))
    [] OTHER -> Then(Infer(c, mode, e, f), LAMBDA i, f1 : Ensure(c, i, ty, f1))
=============================================================================

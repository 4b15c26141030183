-------------------------------- MODULE Eval --------------------------------
(***************************************************************************)
(* Normalization by evaluation: lib/kernel_eval.c with the beta and freeze *)
(* rules of lib/kernel_rules.c.                                            *)
(*                                                                         *)
(* g is the globals map: a function from the declared names to entries     *)
(* with kind "axiom", "prim" or "def"; a def has a body, a reducible flag  *)
(* and the index rec of its guarding argument (-1 when there is none).     *)
(* Evaluation spends no fuel.  It answers Fail where the source answers an *)
(* error; a program that does not end has no value, and the callers of     *)
(* this module evaluate checked terms.                                     *)
(***************************************************************************)
EXTENDS Terms

Reducible(g, n) == g[n].kind = "def" /\ g[n].reducible
Unfolds(g, n)   == Reducible(g, n) /\ g[n].rec = -1

(* A name bound to newest-first args over env.                             *)
Extend(args, env) == Reverse(args) \o env

(* The branch of a key, first match.                                       *)
AtKey(a, brs) == {k \in DOMAIN brs : brs[k].a = a}
First(ks)     == CHOOSE k \in ks : \A j \in ks : k <= j

(* The arguments of a saturated primitive: all its frames must apply it to *)
(* literals.                                                               *)
LitFrame(fr) == fr.t = "out" /\ fr.a.t = "pt" /\ fr.a.arg.t = "lit"
PrimStep(g, v) ==
  IF /\ v.t = "neutral" /\ v.head.t = "global"
     /\ v.head.n \in DOMAIN g /\ g[v.head.n].kind = "prim"
     /\ Len(v.spine) = 2 /\ \A k \in 1 .. 2 : LitFrame(v.spine[k])
     /\ \A k \in 1 .. 2 : v.spine[k].a.arg.n >= 0
  THEN PrimOf(v.head.n, v.spine[1].a.arg.n, v.spine[2].a.arg.n)
  ELSE v

\* Seeded fault: the guarding argument must not be the last.
GuardedLate(spine, index) ==
  /\ index >= 0 /\ index + 1 < Len(spine)
  /\ \A k \in 1 .. index + 1 : spine[k].t = "out" /\ spine[k].a.t = "pt"
  /\ spine[index + 1].a.arg.t = "in"
(* A definition with a guarding argument unfolds only when the frames up   *)
(* to that argument apply it to points and the argument is a constructor.  *)
Guarded(spine, index) ==
  /\ index >= 0 /\ index < Len(spine)
  /\ \A k \in 1 .. index + 1 : spine[k].t = "out" /\ spine[k].a.t = "pt"
  /\ spine[index + 1].a.arg.t = "in"
  /\ spine[index + 1].a.arg.a.t = "actor"

Candidate(g, v) ==
  /\ v.t = "neutral" /\ v.head.t = "global" /\ v.head.n \in DOMAIN g
  /\ Reducible(g, v.head.n) /\ g[v.head.n].rec # -1
  /\ Guarded(v.spine, g[v.head.n].rec)

LevelOf(v) == IF v.t = "univ" THEN v.l ELSE -1

(* A former annotated with a universe keeps the level it already has.      *)
Annotate(v, ann) ==
  IF v.t \in {"lan", "ran"} /\ v.u = -1 THEN [v EXCEPT !.u = LevelOf(ann)]
  ELSE v

--------------------------------------------------------------------------
RECURSIVE Eval(_, _, _), Whnf(_, _), EvalShape(_, _, _), Replay(_, _, _)

EvalAll(g, env, es) == MapAll(LAMBDA e : Eval(g, env, e), es)

Open(g, clo, args) == Eval(g, Extend(args, clo.env), clo.b)

EvalShape(g, env, s) ==
  CASE s.t = "spi" -> LET d == Eval(g, env, s.dom)
                      IN  IF Ok(d) THEN SPi(s.q, d) ELSE Fail
    [] s.t = "scoll" -> s
    [] s.t = "smu" -> LET ix == EvalAll(g, env, s.idx)
                      IN  IF AllOk(ix) THEN SMu(s.fam, ix) ELSE Fail
    [] OTHER -> Fail

EvalAddr(g, env, a) ==
  IF a.t # "pt" THEN a
  ELSE LET v == Eval(g, env, a.arg) IN IF Ok(v) THEN Pt(a.q, v) ELSE Fail

(* The beta step of a right elimination; None when the head is stuck.      *)
BetaOut(g, pack, a, v) ==
  CASE pack = "mu" -> Fail
    [] pack = "pi" -> IF a.t = "pt" /\ v.t = "sec" /\ Len(v.legs) = 1
                      THEN Open(g, v.legs[1].clo, <<a.arg>>) ELSE None
    [] pack = "coll" -> IF a.t = "leg" /\ v.t = "sec" /\ a.k + 1 \in DOMAIN v.legs
                        THEN Open(g, v.legs[a.k + 1].clo, <<>>) ELSE None

(* A branch runs when it binds exactly the arguments; a branch that also   *)
(* binds induction hypotheses is refused here.                             *)
BetaBody(g, leg, env, args) ==
  IF Len(leg.qs) = Len(args) THEN Eval(g, Extend(args, env), leg.b) ELSE Fail

(* The beta step of a left elimination; None when the scrutinee is stuck.  *)
BetaElim(g, pack, brs, env, v) ==
  CASE v.t # "in" -> None
    [] v.t = "in" /\ pack = "pi" ->
         IF v.a.t = "pt" /\ Len(v.args) = 1 /\ Len(brs) = 1
         THEN Eval(g, <<v.args[1], v.a.arg>> \o env, brs[1].leg.b) ELSE None
    [] v.t = "in" /\ pack # "pi" ->
         IF v.a.t = (IF pack = "coll" THEN "leg" ELSE "actor")
            /\ AtKey(v.a, brs) # {}
         THEN BetaBody(g, brs[First(AtKey(v.a, brs))].leg, env, v.args)
         ELSE None

(* s is a value shape here.                                                *)
OutValue(g, s, a, v) ==
  LET r == BetaOut(g, Pack(s), a, v)
  IN  IF r = None THEN Freeze(v, SOut(s, a)) ELSE r
ElimValue(g, s, q, mo, brs, env, v) ==
  LET r == BetaElim(g, Pack(s), brs, env, v)
  IN  IF r = None THEN Freeze(v, SElim(s, q, mo, brs, env)) ELSE r

(* The frames of a call, replayed on the value of its body.                *)
Replay(g, v, frames) ==
  IF frames = <<>> \/ ~Ok(v) THEN v
  ELSE LET fr == Head(frames)
           w == IF fr.t = "out"
                THEN LET r == OutValue(g, fr.s, fr.a, v)
                     IN  IF Ok(r) THEN Whnf(g, r) ELSE Fail
                ELSE ElimValue(g, fr.s, fr.q, fr.mo, fr.brs, fr.env, v)
       IN  Replay(g, w, Tail(frames))

Whnf(g, v) ==
  LET p == PrimStep(g, v)
  IN  IF Candidate(g, p)
      THEN Replay(g, Eval(g, <<>>, g[p.head.n].body), p.spine)
      ELSE p

EvalOut(g, env, e) ==
  IF ~HasPack(e.s) THEN Fail
  ELSE LET a == EvalAddr(g, env, e.a)
           v == Eval(g, env, e.head)
       IN  IF ~Ok(a) \/ ~Ok(v) THEN Fail
           ELSE LET r == BetaOut(g, Pack(e.s), a, v)
                    s == EvalShape(g, env, e.s)
                    f == IF r # None THEN r
                         ELSE IF Ok(s) THEN Freeze(v, SOut(s, a)) ELSE Fail
                IN  IF Ok(f) THEN Whnf(g, f) ELSE Fail

EvalElim(g, env, e) ==
  IF ~HasPack(e.s) THEN Fail
  ELSE LET v == Eval(g, env, e.scrut)
       IN  IF ~Ok(v) THEN Fail
           ELSE LET r == BetaElim(g, Pack(e.s), e.brs, env, v)
                    s == EvalShape(g, env, e.s)
                IN  IF r # None THEN r
                    ELSE IF Ok(s)
                         THEN Freeze(v, SElim(s, e.q, e.mo, e.brs, env))
                         ELSE Fail

EvalGlobal(g, n) ==
  IF n \notin DOMAIN g THEN Fail
  ELSE IF Unfolds(g, n) THEN Eval(g, <<>>, g[n].body)
  ELSE VNeutral(GlobalHead(n), <<>>)

Eval(g, env, e) ==
  CASE e.t = "var" -> IF e.i \in 0 .. Len(env) - 1 THEN env[e.i + 1] ELSE Fail
    [] e.t = "univ" -> VUniv(e.l)
    [] e.t = "lit" -> VLit(e.n)
    [] e.t \in {"lan", "ran"} ->
         LET s == EvalShape(g, env, e.s)
         IN  IF Ok(s) THEN VFormer(e.t, s, Close(env, e.d), -1) ELSE Fail
    [] e.t = "in" ->
         LET s == EvalShape(g, env, e.s)
             a == EvalAddr(g, env, e.a)
             xs == EvalAll(g, env, e.args)
         IN  IF Ok(s) /\ Ok(a) /\ AllOk(xs) THEN VIn(s, a, xs) ELSE Fail
    [] e.t = "sec" ->
         LET s == EvalShape(g, env, e.s)
         IN  IF Ok(s) THEN VSec(s, [k \in DOMAIN e.legs |->
                               VLeg(e.legs[k].qs, Close(env, e.legs[k].b))])
             ELSE Fail
    [] e.t = "out" -> EvalOut(g, env, e)
    [] e.t = "elim" -> EvalElim(g, env, e)
    [] e.t = "let" -> LET v == Eval(g, env, e.v)
                      IN  IF Ok(v) THEN Eval(g, <<v>> \o env, e.b) ELSE Fail
    [] e.t = "ann" -> LET v == Eval(g, env, e.e)
                      IN  IF Ok(v) THEN Annotate(v, Eval(g, env, e.ty))
                          ELSE Fail
    [] e.t = "global" -> EvalGlobal(g, e.n)
    [] e.t = "auto" -> Fail

--------------------------------------------------------------------------
(* Readback in a context of the given size: a level becomes the index      *)
(* size - level - 1.  A stuck elimination is read back with the motive and *)
(* the branches it was built with, not with their closures.                *)
RECURSIVE Quote(_, _, _), QuoteFrames(_, _, _, _)

QuoteAll(g, size, vs) == MapAll(LAMBDA v : Quote(g, size, v), vs)

QuoteShape(g, size, s) ==
  CASE s.t = "spi" -> LET d == Quote(g, size, s.dom)
                      IN  IF Ok(d) THEN SPi(s.q, d) ELSE Fail
    [] s.t = "smu" -> LET ix == QuoteAll(g, size, s.idx)
                      IN  IF AllOk(ix) THEN SMu(s.fam, ix) ELSE Fail
    [] OTHER -> s

QuoteAddr(g, size, a) ==
  IF a.t # "pt" THEN a
  ELSE LET e == Quote(g, size, a.arg) IN IF Ok(e) THEN Pt(a.q, e) ELSE Fail

QuoteUnder(g, size, n, clo) ==
  LET v == Open(g, clo, Fresh(size, n))
  IN  IF Ok(v) THEN Quote(g, size + n, v) ELSE Fail

QuoteFrames(g, size, e, frames) ==
  IF frames = <<>> \/ ~Ok(e) THEN e
  ELSE LET fr == Head(frames)
           s == QuoteShape(g, size, fr.s)
           a == IF fr.t = "out" THEN QuoteAddr(g, size, fr.a) ELSE None
           f == IF ~Ok(s) \/ ~Ok(a) THEN Fail
                ELSE IF fr.t = "out" THEN Out(s, a, e)
                ELSE Elim(s, e, fr.q, fr.mo, fr.brs)
       IN  QuoteFrames(g, size, f, Tail(frames))

\* Seeded fault: the index of a level is one too large.
QuoteHeadLate(size, h) ==
  IF h.t = "local" THEN Var(size - h.l) ELSE Global(h.n)
QuoteHead(size, h) ==
  IF h.t = "local" THEN Var(size - h.l - 1) ELSE Global(h.n)

Former(side, s, d, u) ==
  LET f == IF side = "ran" THEN Ran(s, d) ELSE Lan(s, d)
  IN  IF u = -1 THEN f ELSE Ann(f, Univ(u))

Quote(g, size, v) ==
  CASE v.t = "univ" -> Univ(v.l)
    [] v.t = "lit" -> Lit(v.n)
    [] v.t \in {"lan", "ran"} ->
         LET s == QuoteShape(g, size, v.s)
             d == QuoteUnder(g, size, DiagramArity(v.s), v.d)
         IN  IF Ok(s) /\ Ok(d) THEN Former(v.t, s, d, v.u) ELSE Fail
    [] v.t = "in" ->
         LET s == QuoteShape(g, size, v.s)
             a == QuoteAddr(g, size, v.a)
             xs == QuoteAll(g, size, v.args)
         IN  IF Ok(s) /\ Ok(a) /\ AllOk(xs) THEN In(s, a, xs) ELSE Fail
    [] v.t = "sec" ->
         LET s == QuoteShape(g, size, v.s)
             bs == [k \in DOMAIN v.legs |->
                      QuoteUnder(g, size, Len(v.legs[k].qs), v.legs[k].clo)]
         IN  IF Ok(s) /\ AllOk(bs)
             THEN Sec(s, [k \in DOMAIN bs |-> Bound(v.legs[k].qs, bs[k])])
             ELSE Fail
    [] v.t = "neutral" ->
         QuoteFrames(g, size, QuoteHead(size, v.head), v.spine)

NormalForm(g, e) ==
  LET v == Eval(g, <<>>, e) IN IF Ok(v) THEN Quote(g, 0, v) ELSE Fail
=============================================================================

------------------------------- MODULE Erase -------------------------------
(***************************************************************************)
(* Type-directed erasure: lib/erase_core.c with the plans of erase_sum.c,  *)
(* erase_pair.c and erase_mu.c, the runtime types of erase_type.c and the  *)
(* reindexing of erase_runtime.c.                                          *)
(*                                                                         *)
(* An erased term is a record with its tag t, its data x and its subterms  *)
(* ks.  The representations of types, which only name the layouts, are     *)
(* left out: of a function its count of parameters is kept.                *)
(*                                                                         *)
(* A context x has the checking context c, its slots (newest first), the   *)
(* name self of the definition and the budget b, of which every question   *)
(* to the kernel has a copy.  A state s has the counter next, the lifted   *)
(* functions and the fuel of the walk, and is threaded like fuel.          *)
(***************************************************************************)
EXTENDS Kernel

--------------------------------------------------------------------------
\* Erased terms.

Node(t, x, ks) == [t |-> t, x |-> x, ks |-> ks]
KVar(i)        == Node("kvar", i, <<>>)
KErased        == Node("kerased", 0, <<>>)
KLet(v, body)  == Node("klet", 0, <<v, body>>)
KProj(k, e)    == Node("kproj", k, <<e>>)
(* A case has the arity of each branch; the scrutinee comes first.         *)
KCase(scrut, brs) == Node("kcase", [k \in DOMAIN brs |-> brs[k].arity],
                          <<scrut>> \o [k \in DOMAIN brs |-> brs[k].body])

(* The binders over the k-th subterm.                                      *)
Under(e, k) == CASE e.t = "klet" /\ k = 2  -> 1
                 [] e.t = "kcase" /\ k > 1 -> e.x[k - 1]
                 [] OTHER                  -> 0

(* f maps the indices of the free variables.                               *)
RECURSIVE Reindex(_, _, _)
Reindex(f, depth, e) ==
  IF e.t = "kvar" THEN IF e.x < depth THEN e ELSE KVar(depth + f[e.x - depth])
  ELSE [e EXCEPT !.ks = [k \in DOMAIN e.ks |->
                           Reindex(f, depth + Under(e, k), e.ks[k])]]

RECURSIVE RuntimeVars(_, _)
RuntimeVars(depth, e) ==
  IF e.t = "kvar" THEN {e.x - depth} \cap Nat
  ELSE UNION {RuntimeVars(depth + Under(e, k), e.ks[k]) : k \in DOMAIN e.ks}

ShiftRuntime(n, e) == Reindex([i \in Nat |-> i + n], 0, e)

(* Of the captures args, outermost first, those that the body of a         *)
(* function with params parameters reads; its indices close up.            *)
PruneCaptures(args, params, body) ==
  LET count == Len(args)
      live  == {i \in 0 .. count - 1 : params + i \in RuntimeVars(0, body)}
      smaller(i) == Cardinality({j \in live : j < i})
      kept  == SelectSeq([k \in 1 .. count |-> k], LAMBDA k : count - k \in live)
  IN  [args |-> [k \in DOMAIN kept |-> args[kept[k]]],
       body |-> Reindex([i \in Nat |-> IF i < params THEN i
                                       ELSE params + smaller(i - params)], 0, body)]

--------------------------------------------------------------------------
\* Slots: a source binder is kept or dropped; an extra one has no source
\* binder.

Slot(keep) == IF keep THEN "keep" ELSE "drop"
SourceSlots(slots) == SelectSeq([k \in DOMAIN slots |-> k],
                                LAMBDA k : slots[k] # "extra")

(* The runtime index of a source variable: -1 when it is gone, -2 when     *)
(* there is no such binder.                                                *)
Lookup(i, slots) ==
  LET at == SourceSlots(slots)
  IN  CASE i + 1 \notin DOMAIN at         -> -2
        [] i + 1 \in DOMAIN at /\ slots[at[i + 1]] = "drop" -> -1
        [] i + 1 \in DOMAIN at /\ slots[at[i + 1]] = "keep" ->
             Cardinality({k \in 1 .. at[i + 1] - 1 : slots[k] # "drop"})

\* Seeded fault: a dropped slot does not advance the index.
FramedShort(slots, caps) ==
  LET at == SourceSlots(slots)
      index(i) == Cardinality({k \in 1 .. at[i] - 1 : slots[k] = "keep"})
  IN  [i \in DOMAIN at |-> Slot(slots[at[i]] = "keep" /\ index(i) \in caps)]
(* The slots of a lifted function: of the source binders the captured.     *)
Framed(slots, caps) ==
  LET at == SourceSlots(slots)
  IN  [i \in DOMAIN at |-> Slot(slots[at[i]] = "keep" /\ i - 1 \in caps)]

(* The subterms that may hold runtime code, with their binders: no type,   *)
(* no motive, no index.                                                    *)
Scanned(e) ==
  LET bare(es)   == [k \in DOMAIN es |-> Bound(<<>>, es[k])]
  IN  CASE e.t = "in"   -> bare(AddrTerms(e.a) \o e.args)
        [] e.t = "out"  -> bare(AddrTerms(e.a) \o <<e.head>>)
        [] e.t = "sec"  -> e.legs
        [] e.t = "elim" -> bare(<<e.scrut>>) \o [k \in DOMAIN e.brs |-> e.brs[k].leg]
        [] e.t = "let"  -> <<Bound(<<>>, e.v), Bound(<<Many>>, e.b)>>
        [] e.t = "ann"  -> bare(<<e.e>>)
        [] OTHER        -> <<>>
RECURSIVE SourceVars(_, _)
SourceVars(depth, e) ==
  IF e.t = "var" THEN {e.i - depth} \cap Nat
  ELSE UNION {SourceVars(depth + Len(Scanned(e)[k].qs), Scanned(e)[k].b) :
                k \in DOMAIN Scanned(e)}

--------------------------------------------------------------------------
\* Contexts, and which types have values at run time.

Tick(s) == IF s.fuel = 0 THEN Refused(s) ELSE Done(None, [s EXCEPT !.fuel = @ - 1])
(* A question to the kernel leaves the state alone.                        *)
Ask(r, s) == IF r.ok THEN Done(r.v, s) ELSE Refused(s)
Needs(p, s, r) == IF p THEN r ELSE Refused(s)

Added(x, q, ty, keep) ==
  [x EXCEPT !.c = Bind(@, q, ty), !.slots = <<Slot(keep)>> \o @]
Extra(x) == [x EXCEPT !.slots = <<"extra">> \o @]
Force1(x, v) == Whnf(x.c.g, v)
InferHead(x, e, s) == Ask(Infer(x.c, Many, e, x.b), s)

IsArrow(w) == w.t = "ran" /\ w.s.t = "spi"
EmptyFormer(w) == w.t \in {"lan", "ran"} /\ w.s = SColl(0)

(* A universe, an empty collection and a proposition have no values.       *)
RuntimeTy(x, ty, s) ==
  LET w == Force1(x, ty)
      e == Quote(x.c.g, x.c.size, w)
  IN  CASE ~Ok(w) -> Refused(s)
        [] Ok(w) /\ (w.t = "univ" \/ EmptyFormer(w)) -> Done(FALSE, s)
        [] Ok(w) /\ w.t # "univ" /\ ~EmptyFormer(w) ->
             Needs(Ok(e), s, Then(Ask(InferUniv(x.c, e, x.b), s),
                                  LAMBDA l, s1 : Done(l # 0, s1)))
PointRuntime(x, q, ty, s) == IF q = Zero THEN Done(FALSE, s) ELSE RuntimeTy(x, ty, s)
KeptTypes(x, tys, s) ==
  Walk(Len(tys), Done(<<>>, s), LAMBDA ks, k, s1 :
    Then(RuntimeTy(x, tys[k], s1), LAMBDA keep, s2 : Done(Append(ks, keep), s2)))

LegTypes(x, n, d) ==
  LET sec == SectionOf(x.c, d)
  IN  IF ~Ok(sec) \/ Len(sec.legs) # n THEN <<Fail>>
      ELSE [k \in DOMAIN sec.legs |-> OpenIn(x.c, sec.legs[k].clo, <<>>)]

(* The runtime parameters of a function type; each turn has its unit.      *)
RECURSIVE Arity(_, _, _, _)
Arity(x, ty, turns, s) ==
  LET w == Force1(x, ty)
      cod == OpenIn(x.c, w.d, <<VVar(x.c.size)>>)
  IN  CASE turns = 0 \/ ~Ok(w) -> Refused(s)
        [] turns > 0 /\ Ok(w) /\ ~IsArrow(w) -> Done(0, s)
        [] turns > 0 /\ Ok(w) /\ IsArrow(w) ->
             Then(PointRuntime(x, w.s.q, w.s.dom, s), LAMBDA keep, s1 :
               Needs(Ok(cod), s1,
                 Then(Arity(Added(x, w.s.q, w.s.dom, keep), cod, turns - 1, s1),
                      LAMBDA n, s2 : Done(IF keep THEN n + 1 ELSE n, s2))))
--------------------------------------------------------------------------
RECURSIVE EraseTerm(_, _, _, _, _), Chain(_, _, _, _, _)

Job(ty, e) == [ty |-> ty, e |-> e]
(* The jobs one after the other, none of them in tail position.            *)
EraseJobs(x, js, s) ==
  Walk(Len(js), Done(<<>>, s), LAMBDA ts, k, s1 :
    Then(EraseTerm(x, FALSE, js[k].ty, js[k].e, s1), LAMBDA t, s2 :
           Done(Append(ts, t), s2)))
(* Of the jobs those that keep marks.                                      *)
KeptJobs(js, keep) ==
  LET ks == SelectSeq([k \in DOMAIN js |-> k], LAMBDA k : keep[k])
  IN  [j \in DOMAIN ks |-> js[ks[j]]]

Variable(x, i, s) ==
  LET k == Lookup(i, x.slots)
  IN  CASE k = -2 -> Refused(s)
        [] k = -1 -> Done(KErased, s)
        [] k >= 0 -> Done(KVar(k), s)

EraseLet(x, tail, ty, e, s) ==
  LET lty == EvalIn(x.c, e.ty)
      v   == EvalIn(x.c, e.v)
      in(keep) == [x EXCEPT !.c = Define(@, Many, lty, v),
                            !.slots = <<Slot(keep)>> \o @]
  IN  Needs(Ok(lty), s, Then(RuntimeTy(x, lty, s), LAMBDA keep, s1 :
        CASE ~Ok(v) -> Refused(s1)
          [] Ok(v) /\ ~keep -> EraseTerm(in(FALSE), tail, ty, e.b, s1)
          [] Ok(v) /\ keep ->
               Then(EraseTerm(x, FALSE, lty, e.v, s1), LAMBDA t, s2 :
               Then(EraseTerm(in(TRUE), tail, ty, e.b, s2), LAMBDA b, s3 :
                 Done(KLet(t, b), s3)))))

--------------------------------------------------------------------------
\* Functions and their calls.

(* A chain of lambdas becomes the parameters and the body of one function. *)
LambdaBody(e) == e.t = "sec" /\ e.s.t = "spi" /\ Len(e.legs) = 1
EtaVars(n) == [k \in 1 .. n |-> KVar(n - k)]
Call(tail, head, args) == Node(IF tail THEN "ktail" ELSE "kapp", 0, <<head>> \o args)

Eta(x, params, ty, e, s) ==
  Then(EraseTerm(x, FALSE, ty, e, s), LAMBDA head, s1 :
  Then(Arity(x, ty, x.b, s1), LAMBDA n, s2 :
    Done([params |-> params + n,
          body |-> Call(TRUE, ShiftRuntime(n, head), EtaVars(n))], s2)))

ChainArrow(x, params, w, b, s) ==
  LET cod == OpenIn(x.c, w.d, <<VVar(x.c.size)>>)
  IN  Then(PointRuntime(x, w.s.q, w.s.dom, s), LAMBDA keep, s1 :
        Needs(Ok(cod), s1,
              Chain(Added(x, w.s.q, w.s.dom, keep),
                    IF keep THEN params + 1 ELSE params, cod, b, s1)))

Chain(x, params, ty, e, s) ==
  LET w == Force1(x, ty)
  IN  Then(Tick(s), LAMBDA n, s1 :
        CASE ~Ok(w) -> Refused(s1)
          [] Ok(w) /\ ~IsArrow(w) ->
               Then(EraseTerm(x, TRUE, ty, e, s1), LAMBDA t, s2 :
                      Done([params |-> params, body |-> t], s2))
          [] IsArrow(w) /\ LambdaBody(e) -> ChainArrow(x, params, w, e.legs[1].b, s1)
          [] IsArrow(w) /\ ~LambdaBody(e) -> Eta(x, params, ty, e, s1))

\* Seeded fault: the counter of lifted names stays.
NamedAgain(s) == s
(* The name of a lifted function is used up before its body is erased.     *)
Named(s) == [s EXCEPT !.next = @ + 1]
LiftClosure(x, ty, e, s) ==
  LET caps  == {i \in SourceVars(0, e) : Lookup(i, x.slots) >= 0}
      order == SetToSortSeq(caps, LAMBDA i, j : i > j)
      args  == [k \in DOMAIN order |-> KVar(Lookup(order[k], x.slots))]
      fid   == <<x.self, s.next>>
  IN  Needs(\A i \in caps : Infer(x.c, Many, Var(i), x.b).ok, s,
        Then(Chain([x EXCEPT !.slots = Framed(@, caps)], 0, ty, e, Named(s)),
             LAMBDA r, s1 :
          LET p == PruneCaptures(args, r.params, r.body)
          IN  Done(Node("kclos", [fid |-> fid, n |-> r.params], p.args),
                   [s1 EXCEPT !.lifted = Append(@,
                      [fid |-> fid, params |-> Len(p.args) + r.params,
                       body |-> p.body])])))

RECURSIVE SpineOf(_, _)
SpineOf(e, args) ==
  IF e.t = "out" /\ e.s.t = "spi" /\ e.a.t = "pt"
  THEN SpineOf(e.head, <<e.a.arg>> \o args)
  ELSE [head |-> e, args |-> args]

(* The arguments of a spine that its head keeps, with their types.         *)
SpineJobs(x, ty, args, s) ==
  LET step(st, k, s1) ==
        LET w == Force1(x, st.ty)
            v == EvalIn(x.c, args[k])
            cod == OpenIn(x.c, w.d, <<v>>)
        IN  Needs(k <= x.b /\ Ok(w) /\ IsArrow(w), s1,
              Then(PointRuntime(x, w.s.q, w.s.dom, s1), LAMBDA keep, s2 :
                Needs(Ok(v) /\ Ok(cod), s2,
                  Done([ty |-> cod,
                        js |-> st.js \o (IF keep THEN <<Job(w.s.dom, args[k])>>
                                         ELSE <<>>)], s2))))
  IN  Then(Walk(Len(args), Done([ty |-> ty, js |-> <<>>], s), step),
           LAMBDA st, s1 : Done(st.js, s1))

(* Without an argument left, a head whose type is still a function type    *)
(* stands for itself.  A call that waits only for erased arguments is      *)
(* refused.                                                                *)
CallFinish(x, tail, ty, head, args, s) ==
  LET w == Force1(x, ty)
      made == Done(Call(tail, head, args), s)
  IN  CASE ~Ok(w) -> Refused(s)
        [] Ok(w) /\ ~IsArrow(w) -> made
        [] IsArrow(w) /\ args = <<>> -> Done(head, s)
        [] IsArrow(w) /\ args # <<>> ->
             Then(Arity(x, w, x.b, s), LAMBDA n, s1 : Needs(n # 0, s1, made))

EraseCall(x, tail, ty, e, s) ==
  LET a == SpineOf(e, <<>>)
  IN  Then(InferHead(x, a.head, s), LAMBDA i, s1 :
      Then(SpineJobs(x, i.ty, a.args, s1), LAMBDA js, s2 :
      Then(EraseTerm(x, FALSE, i.ty, a.head, s2), LAMBDA h, s3 :
      Then(EraseJobs(x, js, s3), LAMBDA ts, s4 :
             CallFinish(x, tail, ty, h, ts, s4)))))

--------------------------------------------------------------------------
\* Tuples and pairs.

Struct(ts) == IF ts = <<>> THEN KErased ELSE Node("kstruct", 0, ts)

Tuple(x, ty, e, s) ==
  LET w   == Force1(x, ty)
      tys == LegTypes(x, e.s.n, w.d)
      js  == [k \in DOMAIN tys |-> Job(tys[k], e.legs[k].b)]
  IN  Needs(w.t = "ran" /\ AllOk(tys) /\ Len(e.legs) = Len(tys), s,
        Then(KeptTypes(x, tys, s), LAMBDA keep, s1 :
        Then(EraseJobs(x, KeptJobs(js, keep), s1), LAMBDA ts, s2 :
               Done(Struct(ts), s2))))

(* The kept legs before a leg give its place.                              *)
Projection(x, e, s) ==
  Needs(e.a.t = "leg", s, Then(InferHead(x, e.head, s), LAMBDA i, s1 :
    LET w == Force1(x, i.ty)
        tys == LegTypes(x, e.s.n, w.d)
    IN  Needs(w.t = "ran" /\ AllOk(tys), s1,
          Then(KeptTypes(x, tys, s1), LAMBDA keep, s2 :
            Needs(e.a.k + 1 \in DOMAIN tys, s2,
              Then(EraseTerm(x, FALSE, i.ty, e.head, s2), LAMBDA h, s3 :
                Done(KProj(Cardinality({k \in 1 .. e.a.k : keep[k]}), h), s3)))))))

(* Are the point and the fibre of a point former kept?  The fibre is asked *)
(* under the point as a variable.                                          *)
PairKeeps(x, w, s) ==
  LET cod == OpenIn(x.c, w.d, <<VVar(x.c.size)>>)
  IN  Then(PointRuntime(x, w.s.q, w.s.dom, s), LAMBDA one, s1 :
        Needs(Ok(cod), s1,
          Then(RuntimeTy(Added(x, w.s.q, w.s.dom, one), cod, s1),
               LAMBDA two, s2 : Done(<<one, two>>, s2))))

ErasePair(x, ty, e, s) ==
  LET w == Force1(x, ty)
      v == EvalIn(x.c, e.a.arg)
      fibre == OpenIn(x.c, w.d, <<v>>)
      js == <<Job(w.s.dom, e.a.arg), Job(fibre, e.args[1])>>
  IN  Needs(e.a.t = "pt" /\ Len(e.args) = 1 /\ w.t = "lan" /\ w.s.t = "spi", s,
        Then(PairKeeps(x, w, s), LAMBDA keep, s1 :
          Needs(Ok(v) /\ Ok(fibre), s1,
            Then(EraseJobs(x, KeptJobs(js, keep), s1), LAMBDA ts, s2 :
                   Done(Struct(ts), s2)))))

(* The scrutinee is bound, then the fields that are kept.                  *)
PairLets(keep, body) ==
  LET offset == IF keep[1] THEN 1 ELSE 0
      inner  == IF keep[2] THEN KLet(KProj(offset, KVar(offset)), body) ELSE body
  IN  IF keep[1] THEN KLet(KProj(0, KVar(0)), inner) ELSE inner

PairCase(x, tail, ty, e, s) ==
  Then(InferHead(x, e.scrut, s), LAMBDA i, s1 :
    LET w   == Force1(x, i.ty)
        leg == e.brs[1].leg
        cod == OpenIn(x.c, w.d, <<VVar(x.c.size)>>)
        sv  == EvalShape(x.c.g, x.c.env, e.s)
        self == VIn(sv, Pt(w.s.q, VVar(x.c.size)), <<VVar(x.c.size + 1)>>)
        target == ElimResult(x.c, e.mo, ty, self)
        in(keep) == Added(Added(Extra(x), w.s.q, w.s.dom, keep[1]),
                          Many, cod, keep[2])
    IN  Needs(w.t = "lan" /\ w.s.t = "spi" /\ Len(e.brs) = 1 /\ Len(leg.qs) = 2, s1,
          Then(PairKeeps(x, w, s1), LAMBDA keep, s2 :
            Needs(Ok(sv) /\ Ok(target), s2,
              Then(EraseTerm(x, FALSE, i.ty, e.scrut, s2), LAMBDA v, s3 :
              Then(EraseTerm(in(keep), tail, target, leg.b, s3), LAMBDA b, s4 :
                     Done(KLet(v, PairLets(keep, b)), s4)))))))
--------------------------------------------------------------------------
\* Sums.

(* The payload is there when the type of its leg has values at run time.   *)
Tag(x, ty, e, s) ==
  LET w   == Force1(x, ty)
      tys == LegTypes(x, w.s.n, w.d)
      lty == tys[e.a.k + 1]
      tag(ts) == Node("ktag", e.a.k, ts)
  IN  Needs(/\ e.a.t = "leg" /\ w.t = "lan" /\ w.s.t = "scoll" /\ AllOk(tys)
            /\ e.a.k + 1 \in DOMAIN tys /\ Len(e.args) = 1, s,
        Then(RuntimeTy(x, lty, s), LAMBDA keep, s1 :
          IF ~keep THEN Done(tag(<<>>), s1)
          ELSE Then(EraseTerm(x, FALSE, lty, e.args[1], s1), LAMBDA t, s2 :
                      Done(tag(<<t>>), s2))))

(* The binder of a branch is kept at a runtime quantity and type.          *)
SumBranch(x, tail, ty, e, tys, k, s) ==
  LET at   == AtKey(Leg(k - 1), e.brs)
      leg  == e.brs[First(at)].leg
      self == VIn(SColl(Len(tys)), Leg(k - 1), <<VVar(x.c.size)>>)
      target == ElimResult(x.c, e.mo, ty, self)
  IN  Needs(at # {} /\ Len(leg.qs) = 1, s,
        Then(PointRuntime(x, leg.qs[1], tys[k], s), LAMBDA keep, s1 :
          Needs(Ok(target), s1,
            Then(EraseTerm(Added(x, leg.qs[1], tys[k], keep), tail, target, leg.b, s1),
                 LAMBDA t, s2 :
                   Done([arity |-> IF keep THEN 1 ELSE 0, body |-> t], s2)))))

SumCase(x, tail, ty, e, s) ==
  Then(InferHead(x, e.scrut, s), LAMBDA i, s1 :
    LET w   == Force1(x, i.ty)
        tys == LegTypes(x, w.s.n, w.d)
    IN  Needs(w.t = "lan" /\ w.s.t = "scoll" /\ AllOk(tys), s1,
          Then(EraseTerm(x, FALSE, i.ty, e.scrut, s1), LAMBDA v, s2 :
          Then(Walk(Len(tys), Done(<<>>, s2), LAMBDA brs, k, s3 :
                 Then(SumBranch(x, tail, ty, e, tys, k, s3), LAMBDA br, s4 :
                        Done(Append(brs, br), s4))),
               LAMBDA brs, s3 : Done(KCase(v, brs), s3)))))

--------------------------------------------------------------------------
\* Constructors of families and their cases.

(* Which fields of a constructor are kept is decided once for the family,  *)
(* under its parameters as variables.                                      *)
RuntimeLayout(x, fam, ct, s) ==
  LET bind(st, tele, k, s1, next(_, _)) ==
        LET ty == Eval(x.c.g, st.c.env, tele[k].ty)
        IN  Needs(Ok(ty), s1, next([st EXCEPT !.c = Bind(@, tele[k].q, ty)], ty))
      param(st, k, s1) ==
        bind(st, fam.params, k, s1, LAMBDA st1, ty : Done(st1, s1))
      field(st, k, s1) ==
        bind(st, ct.args, k, s1, LAMBDA st1, ty :
          Then(PointRuntime([x EXCEPT !.c = st.c], ct.args[k].q, ty, s1),
               LAMBDA keep, s2 : Done([st1 EXCEPT !.keep = Append(@, keep)], s2)))
      fresh == [c |-> Top(x.c.g, x.c.fams), keep |-> <<>>]
  IN  Then(Walk(Len(fam.params), Done(fresh, s), param), LAMBDA st, s1 :
      Then(Walk(Len(ct.args), Done(st, s1), field), LAMBDA st1, s2 :
             Done(st1.keep, s2)))

Position(fam, n) == First({k \in DOMAIN fam.names : fam.names[k] = n}) - 1

ConstructorFields(x, ct, env, args, s) ==
  Then(Walk(Len(args), Done([env |-> env, js |-> <<>>], s), LAMBDA st, k, s1 :
         LET ty == Eval(x.c.g, st.env, ct.args[k].ty)
             v  == EvalIn(x.c, args[k])
         IN  Needs(Ok(ty) /\ Ok(v), s1,
               Done([env |-> <<v>> \o st.env,
                     js |-> Append(st.js, Job(ty, args[k]))], s1))),
       LAMBDA st, s1 : Done(st.js, s1))

Constructor(x, ty, e, s) ==
  LET w   == Force1(x, ty)
      fam == x.c.fams[w.s.fam]
      ct  == CtorOf(fam, e.a.c)
      ps  == ParamEnv(x.c, w.d)
  IN  Needs(/\ w.t = "lan" /\ w.s.t = "smu" /\ e.a.t = "actor"
            /\ Usable(x.c, w.s.fam) /\ CtorNamed(fam, e.a.c) # {} /\ ps.ok
            /\ Len(e.args) = Len(ct.args), s,
        Then(RuntimeLayout(x, fam, ct, s), LAMBDA keep, s1 :
        Then(ConstructorFields(x, ct, ps.env, e.args, s1), LAMBDA js, s2 :
        Then(EraseJobs(x, KeptJobs(js, keep), s2), LAMBDA ts, s3 :
               Done(Node("ktag", Position(fam, e.a.c), ts), s3)))))

(* The binders of a branch are the fields: a branch that also binds        *)
(* induction hypotheses is refused.                                        *)
MuBinders(x, ct, keep, env, s) ==
  Walk(Len(ct.args), Done([x |-> x, env |-> env, vals |-> <<>>], s),
    LAMBDA st, k, s1 :
      LET ty == Eval(x.c.g, st.env, ct.args[k].ty)
          v  == VVar(st.x.c.size)
      IN  Needs(Ok(ty), s1,
            Done([x |-> Added(st.x, ct.args[k].q, ty, keep[k]),
                  env |-> <<v>> \o st.env, vals |-> Append(st.vals, v)], s1)))

EraseMuBranch(x, tail, e, fam, env, name, s) ==
  LET ct  == CtorOf(fam, name)
      at  == AtKey(Actor(name), e.brs)
      leg == e.brs[First(at)].leg
  IN  Needs(CtorNamed(fam, name) # {} /\ at # {}, s,
      Then(RuntimeLayout(x, fam, ct, s), LAMBDA keep, s1 :
        Needs(Len(leg.qs) = Len(ct.args), s1,
        Then(MuBinders(x, ct, keep, env, s1), LAMBDA st, s2 :
          LET idx  == EvalAll(x.c.g, st.env, ct.idx)
              self == VIn(SMu(e.mo.ind, idx), Actor(name), st.vals)
              target == MotiveAt(x.c, e.mo, idx, self)
          IN  Needs(AllOk(idx) /\ Ok(target), s2,
                Then(EraseTerm(st.x, tail, target, leg.b, s2), LAMBDA t, s3 :
                  Done([arity |-> Len(SelectSeq(keep, LAMBDA b : b)),
                        body |-> t], s3)))))))

MuCase(x, tail, e, s) ==
  Then(InferHead(x, e.scrut, s), LAMBDA i, s1 :
    LET w   == Force1(x, i.ty)
        fam == x.c.fams[w.s.fam]
        ps  == ParamEnv(x.c, w.d)
    IN  Needs(/\ w.t = "lan" /\ w.s.t = "smu" /\ Usable(x.c, w.s.fam)
              /\ e.mo # NoMotive /\ e.mo.ind = w.s.fam
              /\ e.mo.n = Len(fam.indices) /\ Len(w.s.idx) = e.mo.n
              /\ fam.status = "complete" /\ ps.ok, s1,
          Then(EraseTerm(x, FALSE, i.ty, e.scrut, s1), LAMBDA v, s2 :
          Then(Walk(Len(fam.names), Done(<<>>, s2), LAMBDA brs, k, s3 :
                 Then(EraseMuBranch(x, tail, e, fam, ps.env, fam.names[k], s3),
                      LAMBDA br, s4 : Done(Append(brs, br), s4))),
               LAMBDA brs, s3 : Done(KCase(v, brs), s3)))))

--------------------------------------------------------------------------
\* Terms, declarations and programs.

EraseNode(x, tail, ty, e, s) ==
  CASE e.t = "var" -> Variable(x, e.i, s)
    [] e.t \in {"univ", "lan", "ran"} -> Done(KErased, s)
    [] e.t = "global" -> Done(Node("kglobal", e.n, <<>>), s)
    [] e.t = "lit"    -> Done(Node("klit", e.n, <<>>), s)
    [] e.t = "ann"    -> EraseTerm(x, tail, ty, e.e, s)
    [] e.t = "let"    -> EraseLet(x, tail, ty, e, s)
    [] e.t = "auto"   -> Refused(s)
    [] e.t = "sec"  /\ e.s.t = "spi"   -> LiftClosure(x, ty, e, s)
    [] e.t = "sec"  /\ e.s.t = "scoll" -> Tuple(x, ty, e, s)
    [] e.t = "out"  /\ e.s.t = "spi"   -> EraseCall(x, tail, ty, e, s)
    [] e.t = "out"  /\ e.s.t = "scoll" -> Projection(x, e, s)
    [] e.t = "in"   /\ e.s.t = "spi"   -> ErasePair(x, ty, e, s)
    [] e.t = "in"   /\ e.s.t = "scoll" -> Tag(x, ty, e, s)
    [] e.t = "in"   /\ e.s.t = "smu"   -> Constructor(x, ty, e, s)
    [] e.t = "elim" /\ e.s.t = "spi"   -> PairCase(x, tail, ty, e, s)
    [] e.t = "elim" /\ e.s.t = "scoll" -> SumCase(x, tail, ty, e, s)
    [] e.t = "elim" /\ e.s.t = "smu"   -> MuCase(x, tail, e, s)
    [] OTHER -> Refused(s)

EraseTerm(x, tail, ty, e, s) ==
  Then(Tick(s), LAMBDA n, s1 : Then(RuntimeTy(x, ty, s1), LAMBDA keep, s2 :
    IF keep THEN EraseNode(x, tail, ty, e, s2) ELSE Done(KErased, s2)))

Start(b)      == [next |-> 0, lifted |-> <<>>, fuel |-> b]
OuterCtx(w, n, b) == [c |-> Ctx(w), slots |-> <<>>, self |-> n, b |-> b]

(* The functions that a declaration becomes, its own last; none when it    *)
(* has no value at run time, when it is a postulate or a primitive.        *)
EraseDecl(w, n, entry, b) ==
  LET x  == OuterCtx(w, n, b)
      ty == Eval(w.globals, <<>>, entry.ty)
      s  == Start(b)
  IN  IF entry.kind = "prim" THEN Done(<<>>, s)
      ELSE Needs(Ok(ty), s, Then(RuntimeTy(x, ty, s), LAMBDA keep, s1 :
        CASE ~keep -> Done(<<>>, s1)
          [] keep /\ entry.rec # -1 -> Refused(s1)
          [] keep /\ entry.kind = "axiom" -> Done(<<>>, s1)
          [] keep /\ entry.rec = -1 /\ entry.kind = "def" ->
               Then(Chain(x, 0, ty, entry.body, s1), LAMBDA r, s2 :
                 Done(Append(s2.lifted, [fid |-> <<n>>, params |-> r.params,
                                         body |-> r.body]), s2))))

(* Each declaration of an admitted program is erased in the globals before *)
(* it; the first refusal ends the program.                                 *)
EraseProgram(p, b) ==
  LET start == [w |-> [globals |-> InitialGlobals, families |-> <<>>], code |-> <<>>]
      erased(st, w, d, s) ==
        IF d.kind = "family" THEN Done([st EXCEPT !.w = w], s)
        ELSE Then(EraseDecl(st.w, d.name, w.globals[d.name], b), LAMBDA fs, s1 :
               Done([w |-> w, code |-> st.code \o fs], s1))
  IN  Walk(Len(p), Done(start, Start(b)), LAMBDA st, k, s :
        Then(Ask(Admit(st.w, p[k], b), s), LAMBDA w, s1 : erased(st, w, p[k], s1)))

--------------------------------------------------------------------------
\* What erased code means: a machine that calls functions by value.  A
\* function without parameters is run where it stands, a call without
\* arguments answers its head, and a case on an erased value, which only a
\* proposition with at most one constructor allows, takes its one branch.

Wrong == [t |-> "wrong", x |-> 0, vs |-> <<>>]
RtValue(t, x, vs) == [t |-> t, x |-> x, vs |-> vs]
TagOf(b) == RtValue("ktag", IF b THEN 1 ELSE 0, <<>>)

CodeOf(code, fid) == {code[k] : k \in {j \in DOMAIN code : code[j].fid = fid}}

RtPrim(p, vs) ==
  LET a == vs[1].x   b == vs[2].x
  IN  IF vs[1].t # "klit" \/ vs[2].t # "klit" THEN Wrong
      ELSE CASE p \in {"natEq", "natLt"} -> TagOf(IF p = "natEq" THEN a = b ELSE a < b)
             [] OTHER -> RtValue("klit", PrimOf(p, a, b).n, <<>>)

RECURSIVE RunCode(_, _, _), Apply1(_, _, _)

(* A function value holds the arguments it has.                            *)
Apply1(code, f, args) ==
  LET vs == f.vs \o args
      fs == CodeOf(code, f.x)
      n  == IF f.t = "prim" THEN 2 ELSE (CHOOSE fn \in fs : TRUE).params
      own == SubSeq(vs, 1, n)
      r  == IF f.t = "prim" THEN RtPrim(f.x, own)
            ELSE RunCode(code, Reverse(own), (CHOOSE fn \in fs : TRUE).body)
  IN  CASE args = <<>> /\ f.t \notin {"prim", "kclos"} -> f
        [] f.t = "prim" /\ Len(vs) < 2 -> [f EXCEPT !.vs = vs]
        [] f.t = "kclos" /\ fs = {} -> Wrong
        [] f.t = "kclos" /\ fs # {} /\ Len(vs) < n -> [f EXCEPT !.vs = vs]
        [] f.t \in {"prim", "kclos"} /\ (f.t = "prim" \/ fs # {}) /\ Len(vs) >= n ->
             IF r.t = "wrong" \/ Len(vs) = n THEN r
             ELSE Apply1(code, r, SubSeq(vs, n + 1, Len(vs)))
        [] OTHER -> Wrong

RunCode(code, env, e) ==
  LET vs(ks) == [k \in DOMAIN ks |-> RunCode(code, env, ks[k])]
      whole(us, v) == IF \E k \in DOMAIN us : us[k].t = "wrong" THEN Wrong ELSE v
      head == RunCode(code, env, e.ks[1])
      args == vs(Tail(e.ks))
      built(t, x) == LET us == vs(e.ks) IN whole(us, RtValue(t, x, us))
  IN  CASE e.t = "kvar"    -> IF e.x + 1 \in DOMAIN env THEN env[e.x + 1] ELSE Wrong
        [] e.t = "klit"    -> RtValue("klit", e.x, <<>>)
        [] e.t = "kerased" -> RtValue("kerased", 0, <<>>)
        [] e.t = "kglobal" ->
             Apply1(code, RtValue(IF e.x \in Prims THEN "prim" ELSE "kclos",
                                  IF e.x \in Prims THEN e.x ELSE <<e.x>>, <<>>), <<>>)
        [] e.t = "kclos" ->
             LET f == built("kclos", e.x.fid)
             IN  IF f.t = "wrong" THEN f ELSE Apply1(code, f, <<>>)
        [] e.t \in {"kapp", "ktail"} ->
             IF head.t = "wrong" THEN Wrong ELSE whole(args, Apply1(code, head, args))
        [] e.t = "klet" -> IF head.t = "wrong" THEN Wrong
                           ELSE RunCode(code, <<head>> \o env, e.ks[2])
        [] e.t \in {"kstruct", "ktag"} -> built(e.t, e.x)
        [] e.t = "kproj" -> IF head.t = "kstruct" /\ e.x + 1 \in DOMAIN head.vs
                            THEN head.vs[e.x + 1] ELSE Wrong
        [] e.t = "kcase" /\ head.t = "kerased" ->
             IF e.x = <<0>> THEN RunCode(code, env, e.ks[2]) ELSE Wrong
        [] e.t = "kcase" /\ head.t # "kerased" ->
             LET n == e.x[head.x + 1]
             IN  IF \/ head.t # "ktag" \/ head.x + 1 \notin DOMAIN e.x
                    \/ n \notin {0, Len(head.vs)}
                 THEN Wrong
                 ELSE RunCode(code, (IF n = 0 THEN <<>> ELSE Reverse(head.vs)) \o env,
                              e.ks[head.x + 2])

--------------------------------------------------------------------------
\* Properties of the code of a program that is admitted and erased.

Codes(p) == {r.v.code : r \in {x \in {EraseProgram(p, Enough)} : x.ok}}
OwnCode(code, n) == CodeOf(code, <<n>>)

(* A kernel value and a runtime value show the same introduction.          *)
SameAnswer(w, v, r) ==
  CASE v.t = "lit" -> r.t = "klit" /\ r.x = v.n
    [] v.t = "in" /\ v.a.t = "leg"   -> r.t = "ktag" /\ r.x = v.a.k
    [] v.t = "in" /\ v.a.t = "actor" ->
         r.t = "ktag" /\ r.x = Position(w.families[v.s.fam], v.a.c)
    [] OTHER -> r.t # "wrong"

(* The code of a closed term of a type: the functions lifted from it and   *)
(* its body.                                                               *)
CodeAt(w, ty, e) ==
  LET x == OuterCtx(w, "probe", Enough)
  IN  EraseTerm(x, FALSE, Eval(w.globals, <<>>, Quote(w.globals, 0, ty)), e, Start(Enough))
(* The answer of a predicate's code at a probe, a set of at most one.      *)
RtAnswer(w, code, n, p) ==
  LET dom  == TypeOf(w, n).s.dom
      keep == PointRuntime(OuterCtx(w, "probe", Enough), TypeOf(w, n).s.q, dom,
                           Start(Enough)).v
      arg  == CodeAt(w, dom, p)
      all  == code \o arg.f.lifted
      f    == RunCode(all, <<>>, Node("kglobal", n, <<>>))
  IN  IF ~keep THEN {Apply1(code, f, <<>>)}
      ELSE {Apply1(all, f, <<RunCode(all, <<>>, r.v)>>) : r \in {y \in {arg} : y.ok}}

(* Erasing does not change what a program computes: the code of a          *)
(* definition answers what the kernel answers, at every probe when it is a *)
(* predicate, whichever binders, captures, fields and arguments were       *)
(* dropped on the way.                                                     *)
ErasedAgrees ==
  [][\A w \in Worlds(program') : AxiomFree(w) /\ ~Delays(w) =>
       \A code \in Codes(program') :
         \A n \in {m \in Newest(program') : OwnCode(code, m) # {}} :
           IF Predicate(w, n)
           THEN \A p \in Fitting(w, n) : \A r \in RtAnswer(w, code, n, p) :
                  SameAnswer(w, Answer(w, n, p), r)
           ELSE SameAnswer(w, ValueOf(w, n),
                           RunCode(code, <<>>, Node("kglobal", n, <<>>)))]_vars

(* Every closure in the term names a function that takes what it captures  *)
(* and what it says it still takes.                                        *)
RECURSIVE ClosuresFit(_, _)
ClosuresFit(code, e) ==
  /\ e.t = "kclos" =>
       \E f \in CodeOf(code, e.x.fid) : f.params = Len(e.ks) + e.x.n
  /\ \A k \in DOMAIN e.ks : ClosuresFit(code, e.ks[k])

(* The code of a program is whole: no two functions share a name, however  *)
(* lambdas are nested, the variables of a body are its parameters, and the *)
(* closures fit the functions they name.                                   *)
CodeWhole ==
  [][\A code \in Codes(program') :
       /\ \A i, j \in DOMAIN code : code[i].fid = code[j].fid => i = j
       /\ \A i \in DOMAIN code :
            /\ RuntimeVars(0, code[i].body) \subseteq 0 .. code[i].params - 1
            /\ ClosuresFit(code, code[i].body)]_vars
=============================================================================

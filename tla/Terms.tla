------------------------------- MODULE Terms -------------------------------
(***************************************************************************)
(* The data of the kernel: core terms (lib/kernel_term.c), shapes          *)
(* (lib/kernel_shape.c), semantic values (lib/kernel_value.c), levels and  *)
(* the primitives (lib/kernel_prim.c).                                     *)
(*                                                                         *)
(* A term, a shape, an address and a value are records with the tag of     *)
(* the source in field t.  Binder names are left out: nothing in the       *)
(* kernel compares them.  A list is a sequence; an absent Maybe of a level *)
(* is -1.  An environment is newest first, as in the source; a spine is    *)
(* kept oldest first (the source keeps it reversed and turns it round at   *)
(* every use).                                                             *)
(***************************************************************************)
EXTENDS Integers, Sequences, SequencesExt

ManyQ == 2                       \* QUANTITY_MANY

--------------------------------------------------------------------------
\* Shapes, addresses and terms.

SPi(q, dom)   == [t |-> "spi", q |-> q, dom |-> dom]
SColl(n)      == [t |-> "scoll", n |-> n]
SMu(fam, idx) == [t |-> "smu", fam |-> fam, idx |-> idx]
SPar          == [t |-> "spar"]
SNu           == [t |-> "snu"]

Pt(q, arg)    == [t |-> "pt", q |-> q, arg |-> arg]
Leg(k)        == [t |-> "leg", k |-> k]
Actor(c)      == [t |-> "actor", c |-> c]

Var(i)            == [t |-> "var", i |-> i]
Univ(l)           == [t |-> "univ", l |-> l]
Lan(s, d)         == [t |-> "lan", s |-> s, d |-> d]
Ran(s, d)         == [t |-> "ran", s |-> s, d |-> d]
In(s, a, args)    == [t |-> "in", s |-> s, a |-> a, args |-> args]
Sec(s, legs)      == [t |-> "sec", s |-> s, legs |-> legs]
Out(s, a, head)   == [t |-> "out", s |-> s, a |-> a, head |-> head]
Elim(s, scrut, q, mo, brs) ==
  [t |-> "elim", s |-> s, scrut |-> scrut, q |-> q, mo |-> mo, brs |-> brs]
Let(ty, v, b)     == [t |-> "let", ty |-> ty, v |-> v, b |-> b]
Ann(e, ty)        == [t |-> "ann", e |-> e, ty |-> ty]
Global(n)         == [t |-> "global", n |-> n]
Lit(n)            == [t |-> "lit", n |-> n]
Auto              == [t |-> "auto"]

(* A leg binds the quantities qs in order and has a body; a branch is a    *)
(* leg at an address; a motive names its family (or "" for none), counts   *)
(* the indices it binds, and binds the scrutinee last.                     *)
Bound(qs, b)      == [qs |-> qs, b |-> b]
Branch(a, qs, b)  == [a |-> a, leg |-> Bound(qs, b)]
Motive(ind, n, b) == [ind |-> ind, n |-> n, b |-> b]
NoMotive          == [ind |-> "", n |-> -1, b |-> Auto]

Arrow(q, dom, cod) == Ran(SPi(q, dom), cod)
UnitVal     == Sec(SColl(0), <<>>)
UnitTy(l)   == Ann(Ran(SColl(0), UnitVal), Univ(l))
BoolTy      == Lan(SColl(2), Sec(SColl(2), <<Bound(<<>>, UnitTy(1)),
                                              Bound(<<>>, UnitTy(1))>>))

(* The rule pack of a shape; par and nu shapes have none.                  *)
Packs == [spi |-> "pi", scoll |-> "coll", smu |-> "mu"]
HasPack(s) == s.t \in DOMAIN Packs
Pack(s)    == Packs[s.t]

DiagramArity(s)   == IF Pack(s) = "pi" THEN 1 ELSE 0
HasEta(s, right)  == Pack(s) = "pi" \/ (Pack(s) = "coll" /\ right)

--------------------------------------------------------------------------
\* The scans of a term.

ShapeTerms(s) == CASE s.t = "spi" -> <<s.dom>>
                   [] s.t = "smu" -> s.idx
                   [] OTHER       -> <<>>
AddrTerms(a) == IF a.t = "pt" THEN <<a.arg>> ELSE <<>>

Bodies(legs)    == [k \in DOMAIN legs |-> legs[k].b]
BranchTerms(br) == AddrTerms(br.a) \o <<br.leg.b>>

(* The subterms one step down.                                             *)
Parts(e) ==
  CASE e.t \in {"lan", "ran"} -> ShapeTerms(e.s) \o <<e.d>>
    [] e.t = "in"   -> ShapeTerms(e.s) \o AddrTerms(e.a) \o e.args
    [] e.t = "sec"  -> ShapeTerms(e.s) \o Bodies(e.legs)
    [] e.t = "out"  -> ShapeTerms(e.s) \o AddrTerms(e.a) \o <<e.head>>
    [] e.t = "elim" -> ShapeTerms(e.s) \o <<e.scrut>>
                       \o (IF e.mo = NoMotive THEN <<>> ELSE <<e.mo.b>>)
                       \o FlattenSeq([k \in DOMAIN e.brs |->
                                        BranchTerms(e.brs[k])])
    [] e.t = "let"  -> <<e.ty, e.v, e.b>>
    [] e.t = "ann"  -> <<e.e, e.ty>>
    [] OTHER        -> <<>>

(* The binders over each part of an elimination.                           *)
ElimBinders(e) ==
  [k \in DOMAIN ShapeTerms(e.s) |-> 0] \o <<0>>
  \o (IF e.mo = NoMotive THEN <<>> ELSE <<e.mo.n + 1>>)
  \o FlattenSeq([k \in DOMAIN e.brs |->
        [j \in DOMAIN AddrTerms(e.brs[k].a) |-> 0]
        \o <<Len(e.brs[k].leg.qs)>>])

RECURSIVE ExistsVar(_)
ExistsVar(e) == \/ e.t = "var"
                \/ \E k \in DOMAIN Parts(e) : ExistsVar(Parts(e)[k])

(* Is every variable of the term bound inside it, under depth binders?     *)
RECURSIVE ClosedUnder(_, _)
ClosedUnder(depth, e) ==
  LET inner == CASE e.t \in {"lan", "ran"} -> [k \in DOMAIN Parts(e) |->
                      IF k = Len(Parts(e)) /\ e.s.t = "spi" THEN 1 ELSE 0]
                 [] e.t = "sec" -> LET n == Len(ShapeTerms(e.s)) IN
                      [k \in DOMAIN Parts(e) |->
                         IF k > n THEN Len(e.legs[k - n].qs) ELSE 0]
                 [] e.t = "elim" -> ElimBinders(e)
                 [] e.t = "let" -> <<0, 0, 1>>
                 [] OTHER -> [k \in DOMAIN Parts(e) |-> 0]
  IN  IF e.t = "var" THEN e.i < depth
      ELSE \A k \in DOMAIN Parts(e) : ClosedUnder(depth + inner[k], Parts(e)[k])
Closed(e) == ClosedUnder(0, e)

FamilyOf(s) == IF s.t = "smu" THEN {s.fam} ELSE {}
HasShape(e) == e.t \in {"lan", "ran", "in", "sec", "out", "elim"}

(* Do the names occur in the term, as globals or as families?              *)
RECURSIVE Occurs(_, _)
Occurs(names, e) ==
  \/ e.t = "global" /\ e.n \in names
  \/ HasShape(e) /\ FamilyOf(e.s) \cap names # {}
  \/ \E k \in DOMAIN Parts(e) : Occurs(names, Parts(e)[k])

--------------------------------------------------------------------------
\* Values.

Fail == [t |-> "fail"]           \* an evaluation that gives an error
None == [t |-> "none"]           \* an absent value: not an error
Ok(v) == v.t # "fail"

Close(env, b)        == [env |-> env, b |-> b]
VUniv(l)             == [t |-> "univ", l |-> l]
VFormer(side, s, d, u) == [t |-> side, s |-> s, d |-> d, u |-> u]
VIn(s, a, args)      == [t |-> "in", s |-> s, a |-> a, args |-> args]
VLeg(qs, clo)        == [qs |-> qs, clo |-> clo]
VSec(s, legs)        == [t |-> "sec", s |-> s, legs |-> legs]
VLit(n)              == [t |-> "lit", n |-> n]

LocalHead(l)  == [t |-> "local", l |-> l]
GlobalHead(n) == [t |-> "global", n |-> n]
SOut(s, a)    == [t |-> "out", s |-> s, a |-> a]
SElim(s, q, mo, brs, env) ==
  [t |-> "elim", s |-> s, q |-> q, mo |-> mo, brs |-> brs, env |-> env]
VNeutral(head, spine) == [t |-> "neutral", head |-> head, spine |-> spine]
VVar(l) == VNeutral(LocalHead(l), <<>>)

(* An eliminator frozen onto a value: only a neutral can carry it.         *)
Freeze(v, frame) ==
  IF v.t = "neutral" THEN VNeutral(v.head, Append(v.spine, frame)) ELSE Fail

(* count fresh variables from level size on, oldest first.                 *)
Fresh(size, count) == [k \in 1 .. count |-> VVar(size + k - 1)]

Placeholder == VUniv(0)

(* fn(a[1]) .. fn(a[n]), or Fail when one of them fails.                   *)
MapAll(fn(_), xs) == [k \in DOMAIN xs |-> fn(xs[k])]
AllOk(xs) == \A k \in DOMAIN xs : Ok(xs[k])

--------------------------------------------------------------------------
\* Primitives: each takes two literals.

BoolValue(b) == VIn(SColl(2), Leg(IF b THEN 1 ELSE 0), <<VSec(SColl(0), <<>>)>>)

PrimOf(p, a, b) ==
  CASE p = "natAdd" -> VLit(a + b)
    [] p = "natSub" -> VLit(IF a < b THEN 0 ELSE a - b)
    [] p = "natMul" -> VLit(a * b)
    [] p = "natEq"  -> BoolValue(a = b)
    [] p = "natLt"  -> BoolValue(a < b)

PrimTy(p) ==
  LET nat == Global("Nat")
  IN  Arrow(ManyQ, nat, Arrow(ManyQ, nat, IF p \in {"natEq", "natLt"}
                                          THEN BoolTy ELSE nat))
=============================================================================

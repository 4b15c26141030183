------------------------------ MODULE OrderMC ------------------------------
(***************************************************************************)
(* The small terms that Order is checked with.                             *)
(***************************************************************************)
EXTENDS OrderTerms

CONSTANTS
  Widest,  \* the most formals of a member
  Args     \* the most arguments of a call

Outsider == 0
Leaf == [tag |-> "leaf"]
Var(ix) == [tag |-> "var", var |-> ix]
Global(g) == [tag |-> "global", name |-> g]
Vars(n) == {Var(ix) : ix \in 0 .. n - 1}
Bind(b, t) == [binders |-> b, term |-> t]
Arm(b, c, t) == [ctor |-> c, binders |-> b, term |-> t]

Call(g, args) == [tag |-> "spine", head |-> Global(g), args |-> args, parts |-> << >>]
CaseOf(ix, motives, arms) ==
  [tag |-> "elim", scrut |-> Var(ix), parts |-> << >>, motives |-> motives, branches |-> arms]
LetIn(value, body) == [tag |-> "let", type |-> Leaf, value |-> value, body |-> body]
Lambda(t) == [tag |-> "node", parts |-> <<Bind(1, t)>>]

\* Calls of members with variables, at n binders.
CallTerms(n) ==
  {Call(g, args) : g \in Group, args \in UNION {[1 .. a -> Vars(n)] : a \in 1 .. Args}}
Simples(n) == {Leaf} \cup {Global(1)} \cup CallTerms(n)

Case(ix, t) == CaseOf(ix, <<Bind(1, Leaf)>>, <<Arm(1, TRUE, t)>>)

\* Terms under one more binder: of a branch, a let or a lambda.
Wrapped(n, inner) ==
  {Case(ix, t) : ix \in 0 .. n - 1, t \in inner}
  \cup {LetIn(v, t) : v \in Vars(n), t \in inner}
  \cup {Lambda(t) : t \in inner}

\* Calls at n binders and under one more; under two more, the outer one a
\* branch's, calls that pass one variable at both positions.
Shallow(n) == Simples(n) \cup Wrapped(n, Simples(n + 1))
Nested(n) ==
  {Case(ix, t) : ix \in 0 .. n - 1,
                 t \in Wrapped(n + 1, {Call(1, <<v, v>>) : v \in Vars(n + 2)})}

\* Shapes of terms the grammar above has not: a call as an argument, a motive,
\* a let's value, a scrutinee, a head; two branches; a branch without a
\* constructor; an elimination without a motive.
Odd(n) ==
  LET c == Call(1, <<Var(0)>>)
  IN  {Call(Outsider, <<c>>), LetIn(c, Leaf),
       [CaseOf(0, <<Bind(1, Leaf)>>, << >>) EXCEPT !.scrut = c],
       [Call(1, <<Leaf, Var(0)>>) EXCEPT !.head = Lambda(Call(1, <<Var(1)>>))],
       [Call(Outsider, <<Leaf>>) EXCEPT !.parts = <<Bind(1, c)>>],
       [CaseOf(0, << >>, << >>) EXCEPT !.parts = <<Bind(0, c)>>]}
      \cup {CaseOf(ix, m, <<Arm(1, TRUE, Leaf), Arm(2, ct, Call(1, <<Var(a), Var(a)>>))>>) :
              ix \in 0 .. n - 1, ct \in BOOLEAN, a \in 0 .. n,
              m \in {<< >>, <<Bind(1, Leaf)>>, <<Bind(1, c)>>}}

-----------------------------------------------------------------------------
AllBodies ==
  {[formals |-> 0, body |-> t, types |-> FALSE] : t \in Shallow(0)}
  \cup UNION {{[formals |-> n, body |-> t, types |-> b] :
                 t \in Shallow(n) \cup Nested(n) \cup Odd(n), b \in BOOLEAN} : n \in 1 .. Widest}

RECURSIVE Closed(_)
Closed(ts) ==
  LET more == {u : u \in ts \cup UNION {Subterms(t) : t \in ts}}
  IN  IF more = ts THEN more ELSE Closed(more)
SmallTrees == Closed({b.body : b \in AllBodies})

\* When the body mentions the group, it does not matter whether a formal's type
\* does too.
SmallBodies == {b \in AllBodies : b.types => Mentioned[b.body] = {}}
=============================================================================

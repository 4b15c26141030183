------------------------------- MODULE Linear -------------------------------
(***************************************************************************)
(* The quantity discipline of the checker (lib/kernel_check.c and          *)
(* lib/kernel_rules.c): how the usage of a term is built from the usages   *)
(* of its parts while scopes open and close, and when a scope is refused.  *)
(*                                                                         *)
(* The checker recurses over a term; stack holds the usages its pending    *)
(* calls have in hand, in evaluation order, and locals is the checking     *)
(* context.  Every usage carries two history fields that the program does  *)
(* not have: runs, the consumption of each way the term can run to its     *)
(* end, and dead, the consumption of each way it can run into an           *)
(* elimination without branches.  The properties compare the intervals     *)
(* the code computes with these runs.                                      *)
(***************************************************************************)
EXTENDS Quantity, Sequences, FiniteSets

CONSTANTS Modes,    \* the modes terms are checked in
          Height,   \* bound: usages in hand at a time
          Fuel      \* bound: rule applications of one check
ASSUME BoundAssumption ==
  Modes \subseteq Quantities /\ Height \in Nat /\ Fuel \in Nat

VARIABLES locals,   \* the binders in scope, level 0 first
          stack,    \* the usages in hand
          fuel,     \* rule applications left
          refused   \* the check has answered with a quantity error
vars == <<locals, stack, fuel, refused>>

Count == [Level -> Quantities]
None  == [l \in Level |-> Zero]

(* A run that calls a closure whose body never returns is marked vacuous:  *)
(* what it leaves unconsumed is never missed.                              *)
Run  == [count : Count, vacuous : BOOLEAN]
Role == {"lambda", "arm", "alias"}

Local == [quantity : Quantities, role : Role, mode : Quantities, lower : Level]
Entry == [kind : {"term", "arms"}, size : 0 .. Depth, mode : Quantities,
          use : Usage, runs : SUBSET Run, dead : SUBSET Count]

-----------------------------------------------------------------------------
(* What runs do. *)
Plus(x, y)  == [l \in Level |-> Add(x[l], y[l])]
Times(q, x) == [l \in Level |-> Mul(q, x[l])]
Forget(levels, x) == [l \in Level |-> IF l \in levels THEN Zero ELSE x[l]]

Both(r, s) == [count |-> Plus(r.count, s.count),
               vacuous |-> r.vacuous \/ s.vacuous]
SeqRuns(a, b) == {Both(p[1], p[2]) : p \in a.runs \X b.runs}
SeqDead(a, b) == a.dead \cup {Plus(p[1].count, p[2]) : p \in a.runs \X b.dead}

OnRuns(f(_), rs) == {[r EXCEPT !.count = f(r.count)] : r \in rs}

-----------------------------------------------------------------------------
(* How entries are made. *)
Size == Len(locals)
Top  == stack[Len(stack)]
Next2 == stack[Len(stack) - 1]
Below(n) == SubSeq(stack, 1, Len(stack) - n)

Term(mode, use, runs, dead) ==
  [kind |-> "term", size |-> Size, mode |-> mode,
   use |-> use, runs |-> runs, dead |-> dead]

Leaf(mode, use, count) ==
  Term(mode, use, {[count |-> count, vacuous |-> FALSE]}, {})

(* The usage of a followed by b, seen as a term of mode m. *)
Then(m, a, b) == Term(m, Sequence(a.use, b.use), SeqRuns(a, b), SeqDead(a, b))

(* Usage e scaled by q: an erased part does not run. *)
Scaled(m, q, e) ==
  IF q = Zero THEN Leaf(m, Empty, None)
  ELSE Term(m, Scale(q, e.use),
            OnRuns(LAMBDA x : Times(q, x), e.runs),
            {Times(q, x) : x \in e.dead})

(* The closure of body e. *)
Closure(e) ==
  [e EXCEPT !.use  = Captures(e.use),
            !.runs = e.runs \cup {[count |-> x, vacuous |-> TRUE] : x \in e.dead},
            !.dead = {}]

(* Entry e after the scope of levels lower, lower + 1, ... is closed. *)
Outside(lower, e) ==
  LET inner == {l \in Level : l >= lower} IN
  [e EXCEPT !.size = lower,
            !.use  = RemoveLevels(inner, e.use),
            !.runs = OnRuns(LAMBDA x : Forget(inner, x), e.runs),
            !.dead = {Forget(inner, x) : x \in e.dead}]

(* A case without branches stops the run that reaches it. *)
Stops(e) == e.runs = {} /\ e.dead = {}

(* Some linear binder in scope is read by u (check_linear_definition). *)
\* Seeded fault: the linear fields that a branch binds are overlooked.
LinearLambda(u) ==
  \E i \in 1 .. Size :
    locals[i].quantity = One /\ locals[i].role = "lambda" /\ Used(i - 1, u)
LinearDefinition(u) ==
  \E i \in 1 .. Size : locals[i].quantity = One /\ Used(i - 1, u)

-----------------------------------------------------------------------------
Init == /\ locals = <<>>
        /\ stack = <<>>
        /\ fuel = Fuel
        /\ refused = FALSE

Spend == ~refused /\ fuel > 0 /\ fuel' = fuel - 1

Push(n, e) == stack' = Append(Below(n), e)
Refuse == refused' = TRUE /\ UNCHANGED <<locals, stack>>

(* The two topmost entries belong to the scope that is open. *)
TopTerm == Len(stack) >= 1 /\ Top.size = Size /\ Top.kind = "term"
TwoHere == Len(stack) >= 2 /\ Top.size = Size /\ Next2.size = Size

Readable(mode, q) == mode = Zero \/ q # Zero

(* A variable is read in the given mode. *)
ReadLocal(level, mode) ==
  /\ Spend
  /\ Len(stack) < Height
  /\ IF Readable(mode, locals[level + 1].quantity)
     THEN /\ Push(0, Leaf(mode, Occurrence(level, mode),
                          [None EXCEPT ![level] = mode]))
          /\ UNCHANGED <<locals, refused>>
     ELSE Refuse

(* A literal, a universe, a type former or a global consumes nothing. *)
Closed(mode) ==
  /\ Spend
  /\ Len(stack) < Height
  /\ Push(0, Leaf(mode, Empty, None))
  /\ UNCHANGED <<locals, refused>>

(* An application, pair, tuple or constructor: the parts are checked one   *)
(* after the other, a point argument in the mode times its quantity.       *)
InSequence ==
  /\ Spend
  /\ TwoHere /\ Top.kind = "term" /\ Next2.kind = "term"
  /\ \E m \in {Top.mode, Next2.mode} :
       /\ \E q \in Quantities : {Top.mode, Next2.mode} = {m, Mul(m, q)}
       /\ Push(2, Then(m, Next2, Top))
  /\ UNCHANGED <<locals, refused>>

-----------------------------------------------------------------------------
Bind(role, mode, qs) ==
  locals' = locals \o [i \in 1 .. Len(qs) |->
    [quantity |-> qs[i], role |-> role, mode |-> mode, lower |-> Size]]

(* The body of a function, or a branch with qs fields, is entered. *)
Open(role, mode, qs) ==
  /\ Spend
  /\ Size + Len(qs) <= Depth
  /\ Len(stack) < Height
  /\ role = "lambda" => Len(qs) = 1
  /\ Bind(role, mode, qs)
  /\ UNCHANGED <<stack, refused>>

(* The definition of a let is in hand: its alias is linear if the          *)
(* definition reads a linear binder, and unrestricted otherwise.           *)
OpenAlias(mode) ==
  /\ Spend
  /\ Size < Depth
  /\ TopTerm
  /\ Top.mode = Runtime(mode)
  /\ Bind("alias", mode,
          <<IF mode = Zero THEN Zero
            ELSE IF LinearDefinition(Top.use) THEN One ELSE Many>>)
  /\ UNCHANGED <<stack, refused>>

(* check_close_loop: every linear binder of the scope of the innermost     *)
(* local is consumed exactly once, an alias at most once.                  *)
Inner == locals[Size]
\* Seeded fault: every linear binder is treated like a let alias.
BinderAffine(i, u) ==
  \/ Inner.mode = Zero
  \/ locals[i].quantity # One
  \/ AtMostOnce(i - 1, u)
BinderOk(i, u) ==
  \/ Inner.mode = Zero
  \/ locals[i].quantity # One
  \/ IF Inner.role = "alias" THEN AtMostOnce(i - 1, u) ELSE ExactlyOnce(i - 1, u)
CloseOk(u) == \A i \in Inner.lower + 1 .. Size : BinderOk(i, u)

Closing(role, bodyMode) ==
  /\ Size > 0
  /\ TopTerm
  /\ Inner.role = role
  /\ Top.mode = bodyMode
  /\ Len(stack) > 1 => Next2.size < Size

Body == [Outside(Inner.lower, Top) EXCEPT !.mode = Inner.mode]
Leave == locals' = SubSeq(locals, 1, Inner.lower)

(* rules_pi_sec_body. *)
CloseLambda ==
  /\ Spend
  /\ Closing("lambda", Runtime(Inner.mode))
  /\ IF CloseOk(Top.use)
     THEN /\ Push(1, [Scaled(Inner.mode, Inner.mode, Closure(Body))
                        EXCEPT !.size = Inner.lower])
          /\ Leave /\ UNCHANGED refused
     ELSE Refuse

(* rules_pi_branch_body, rules_mu_branch_body. *)
CloseArm ==
  /\ Spend
  /\ Closing("arm", Runtime(Inner.mode))
  /\ IF CloseOk(Top.use)
     THEN Push(1, [Body EXCEPT !.kind = "arms"]) /\ Leave /\ UNCHANGED refused
     ELSE Refuse

(* A branch that binds nothing has nothing to close. *)
BareArm(mode) ==
  /\ Spend
  /\ TopTerm
  /\ Top.mode = Runtime(mode)
  /\ Push(1, [Top EXCEPT !.kind = "arms", !.mode = mode])
  /\ UNCHANGED <<locals, refused>>

(* check_let_finish: the definition runs, then the body. *)
CloseAlias ==
  /\ Spend
  /\ Closing("alias", Inner.mode)
  /\ Len(stack) > 1 /\ Next2.kind = "term"   \* the definition
  /\ IF CloseOk(Top.use)
     THEN /\ Push(2, [Then(Inner.mode, Scaled(Inner.mode, Inner.mode, Next2), Body)
                        EXCEPT !.size = Inner.lower])
          /\ Leave /\ UNCHANGED refused
     ELSE Refuse

-----------------------------------------------------------------------------
(* The base of the fold over the branches. *)
NoArms(mode) ==
  /\ Spend
  /\ Len(stack) < Height
  /\ Push(0, [Term(mode, Unreachable, {}, {}) EXCEPT !.kind = "arms"])
  /\ UNCHANGED <<locals, refused>>

(* One branch and the fold of the branches after it. *)
FoldArm ==
  /\ Spend
  /\ TwoHere /\ Top.kind = "arms" /\ Next2.kind = "arms"
  /\ Top.mode = Next2.mode
  /\ Push(2, [Next2 EXCEPT !.use  = Alternative(Next2.use, Top.use),
                           !.runs = Next2.runs \cup Top.runs,
                           !.dead = Next2.dead \cup Top.dead])
  /\ UNCHANGED <<locals, refused>>

(* The scrutinee runs in the mode times its quantity, then one branch.     *)
Eliminate ==
  /\ Spend
  /\ TwoHere /\ Top.kind = "arms" /\ Next2.kind = "term"
  /\ \E q \in Quantities : /\ Next2.mode = Mul(Top.mode, q)
                           /\ Top.mode = Zero \/ q # Zero
  /\ LET m    == Top.mode
         arms == Scaled(m, m, Top)
         whole == Then(m, Next2, arms)
     IN Push(2, IF m # Zero /\ Stops(Top)
                THEN [whole EXCEPT !.dead = @ \cup {r.count : r \in Next2.runs}]
                ELSE whole)
  /\ UNCHANGED <<locals, refused>>

Next ==
  \/ \E l \in 0 .. Size - 1, m \in Modes : ReadLocal(l, m)
  \/ \E m \in Modes : Closed(m)
  \/ InSequence
  \/ \E r \in {"lambda", "arm"}, m \in Modes,
        qs \in [1 .. 1 -> Quantities] \cup [1 .. 2 -> Quantities] : Open(r, m, qs)
  \/ \E m \in Modes : OpenAlias(m)
  \/ CloseLambda \/ CloseArm \/ CloseAlias
  \/ \E m \in Modes : BareArm(m)
  \/ \E m \in Modes : NoArms(m)
  \/ FoldArm
  \/ Eliminate

Spec == Init /\ [][Next]_vars

-----------------------------------------------------------------------------
TypeOK ==
  /\ locals \in Seq(Local) /\ Size <= Depth
  /\ stack \in Seq(Entry)
  /\ fuel \in 0 .. Fuel
  /\ refused \in BOOLEAN

Entries == {stack[i] : i \in 1 .. Len(stack)}

(* What a run consumes lies in the interval the code has computed, and     *)
(* never above what the term is known to read.                             *)
Enclosed(e) ==
  /\ e.use.returns <=> e.runs # {}
  /\ \A l \in Level :
       /\ \A r \in e.runs :
            /\ r.count[l] <= e.use.paths[l].hi
            /\ ~r.vacuous => e.use.paths[l].lo <= r.count[l]
       /\ \A x \in e.dead : x[l] <= e.use.reads[l].hi
       /\ e.use.paths[l].hi <= e.use.reads[l].hi
       /\ e.use.reads[l].lo = e.use.reads[l].hi
Hulls == \A e \in Entries : Enclosed(e)

(* Without dead ends the discipline refuses nothing that is right: a       *)
(* binder that every run consumes once passes exactly_once, and one that   *)
(* no run consumes twice passes at_most_once.                              *)
Straight(e) == e.dead = {} /\ \A r \in e.runs : ~r.vacuous
NoSpuriousRefusal ==
  \A e \in Entries : e.kind = "term" /\ Straight(e) =>
    \A l \in Level :
      /\ (\A r \in e.runs : r.count[l] = One) => ExactlyOnce(l, e.use)
      /\ (\A r \in e.runs : r.count[l] # Many) => AtMostOnce(l, e.use)

(* A scope that closes in a runtime mode has consumed each of its linear   *)
(* binders exactly once on every run to its end (an alias at most once),   *)
(* and a body without any such run reads none of them twice.               *)
Consumed(i, e) ==
  /\ \A r \in e.runs : /\ r.count[i - 1] # Many
                       /\ \/ r.count[i - 1] = One
                          \/ r.vacuous
                          \/ Inner.role = "alias"
  /\ e.runs = {} => \A x \in e.dead : x[i - 1] # Many
Closes == Len(locals') < Size
LinearOnce ==
  [][Closes => \A i \in Inner.lower + 1 .. Size :
       Inner.mode # Zero /\ locals[i].quantity = One => Consumed(i, Top)]_vars

(* Reading the definition of a let in place of each use of its alias would *)
(* consume no linear binder more often than running the definition first.  *)
AliasInlines ==
  [][Closes /\ Inner.role = "alias" /\ Inner.mode # Zero =>
       \A d \in Next2.runs, b \in Top.runs, i \in 1 .. Inner.lower :
         locals[i].quantity = One =>
           Mul(b.count[Size - 1], d.count[i - 1]) <= Mul(Inner.mode, d.count[i - 1])]_vars
=============================================================================

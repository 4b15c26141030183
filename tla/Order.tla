------------------------------- MODULE Order -------------------------------
(***************************************************************************)
(* The structural certificate of a group of recursive definitions          *)
(* (surface_order.c, called by surface_totality.c): an argument position k *)
(* such that every call of a member inside a member's body passes, at      *)
(* position k, a variable bound by eliminating the principal argument or a *)
(* part of it.                                                             *)
(*                                                                         *)
(* Terms have de Bruijn indices, and the walk keeps a status for each      *)
(* index in scope, innermost first.  den is a ghost that the code has not: *)
(* what each binder in scope stands for at run time, outermost first.      *)
(*                                                                         *)
(* Term forms, by what the walk does with them:                            *)
(*   var     an index                                                      *)
(*   leaf    a universe, a literal, auto                                   *)
(*   global  a name                                                        *)
(*   spine   a head applied to point arguments; parts are the shapes       *)
(*   elim    scrutinee, shape parts, motives (none or one), branches       *)
(*   let     type, value, body                                             *)
(*   node    any other: parts under binders                                *)
(***************************************************************************)
EXTENDS Integers, Sequences

Sets == INSTANCE FiniteSetsExt

CONSTANTS
  Size,    \* the members of the group
  Trees,   \* the terms, with their subterms
  Bodies   \* what a member may be, peeled; types: the type of a formal, which
           \* peel drops, mentions the group

\* The members are 1 .. Size, and a term names one by its place.
Group == 1 .. Size

ASSUME SizeAssumption == Size \in Nat \ {0}
ASSUME BodiesAssumption == Bodies \subseteq [formals : Nat, body : Trees, types : BOOLEAN]

\* A part of a term under binders; a branch of an elimination.
Scopes == [binders : Nat, term : Trees]
Arms == [ctor : BOOLEAN, binders : Nat, term : Trees]

Atoms == [tag : {"leaf"}] \cup [tag : {"var"}, var : Nat] \cup [tag : {"global"}, name : Nat]
Spines == [tag : {"spine"}, head : Trees, args : Seq(Trees), parts : Seq(Scopes)]
Elims == [tag : {"elim"}, scrut : Trees, parts : Seq(Scopes), motives : Seq(Scopes),
          branches : Seq(Arms)]
Lets == [tag : {"let"}, type : Trees, value : Trees, body : Trees]
Nodes == [tag : {"node"}, parts : Seq(Scopes)]

ASSUME TreesAssumption == Trees \subseteq Atoms \cup Spines \cup Elims \cup Lets \cup Nodes

\* The terms in a term.
Parted(ps) == {ps[i].term : i \in DOMAIN ps}
Subterms(t) ==
  CASE t.tag = "node" -> Parted(t.parts)
    [] t.tag = "let" -> {t.type, t.value, t.body}
    [] t.tag = "elim" ->
         {t.scrut} \cup Parted(t.parts) \cup Parted(t.motives) \cup Parted(t.branches)
    [] t.tag = "spine" -> {t.head} \cup Parted(t.parts) \cup {t.args[i] : i \in DOMAIN t.args}
    [] OTHER -> {}

\* Terms are finite: each has a height above those of the terms in it.
Height ==
  LET height[t \in Trees] ==
        IF Subterms(t) = {} THEN 0 ELSE 1 + Sets!Max({height[u] : u \in Subterms(t)})
  IN  height

ASSUME HeightAssumption ==
  \A t \in Trees : Height[t] \in Nat /\ \A u \in Subterms(t) : Height[u] < Height[t]

\* surface_order_mentions: the members a term names, however deep.
Names(t) == t.tag = "global" /\ t.name \in Group
Mentioned ==
  LET mentioned[t \in Trees] ==
        (IF Names(t) THEN {t.name} ELSE {}) \cup UNION {mentioned[u] : u \in Subterms(t)}
  IN  mentioned

VARIABLES
  members,  \* the members, peeled
  k,        \* the position tried
  at,       \* the member being walked
  jobs,     \* the walk: terms still to visit
  calls,    \* calls found in this member
  rows,     \* the calls of the members before it
  phase     \* "certify", "walk", "retry", "certified", then an answer of Answered

vars == <<members, k, at, jobs, calls, rows, phase>>

\* plain: no certificate is needed.
Answered == {"plain", "granted", "exhausted", "unfit", "refused"}

-----------------------------------------------------------------------------
(***************************************************************************)
(* Statuses and what they are about.                                       *)
(***************************************************************************)
Status == {"principal", "smaller", "other"}

\* A binder stands for a part of a formal, below eliminations deep in it, or
\* for something else.
Unknown == [root |-> -1, below |-> 0]
Formal(l) == [root |-> l, below |-> 0]
Part(d) == IF d = Unknown THEN Unknown ELSE [root |-> d.root, below |-> d.below + 1]

Copies(x, n) == [i \in 1 .. n |-> x]

\* The denotation of an index.
Den(job, ix) == IF ix < Len(job.den) THEN job.den[Len(job.den) - ix] ELSE Unknown

\* seed: the index of position pos under formals binders is formals - 1 - pos.
Seed(formals, pos) ==
  [i \in 1 .. formals |-> IF i - 1 = formals - 1 - pos THEN "principal" ELSE "other"]

\* special, smaller.
StatusAt(job, ix) == IF ix < Len(job.st) THEN job.st[ix + 1] ELSE "other"
Special(job, ix) == StatusAt(job, ix) \in {"principal", "smaller"}

-----------------------------------------------------------------------------
(***************************************************************************)
(* Jobs.                                                                   *)
(***************************************************************************)
Visit(job, term) == [job EXCEPT !.term = term]

\* Under n binders of status s, which stand for d.
Under(job, s, d, n, term) ==
  [st |-> Copies(s, n) \o job.st, den |-> job.den \o Copies(d, n),
   chain |-> job.chain, term |-> term]

Visits(job, terms) == [i \in DOMAIN terms |-> Visit(job, terms[i])]
Parts(job, parts) ==
  [i \in DOMAIN parts |-> Under(job, "other", Unknown, parts[i].binders, parts[i].term)]

\* An elimination of a special variable: its branches bind smaller ones.
Scrut(e) == e.scrut
OfSpecial(job, e) == Scrut(e).tag = "var" /\ Special(job, Scrut(e).var)

BranchStatus(job, e) == IF OfSpecial(job, e) THEN "smaller" ELSE "other"

BranchDen(job, e) == IF Scrut(e).tag = "var" THEN Part(Den(job, Scrut(e).var)) ELSE Unknown

\* chain_at.
ChainAt(job, e, b) ==
  IF OfSpecial(job, e) THEN <<[scrut |-> Scrut(e).var, ctor |-> b.ctor]>> \o job.chain
  ELSE job.chain

Branch(job, e, b) ==
  Under([job EXCEPT !.chain = ChainAt(job, e, b)], BranchStatus(job, e), BranchDen(job, e),
        b.binders, b.term)
Branches(job, e) == [i \in DOMAIN e.branches |-> Branch(job, e, e.branches[i])]

\* Seeded fault: a let's body is visited as if it bound nothing.
LetBodyFlat(job, t) == Under(job, "other", Unknown, 0, t.body)

\* A let binds an "other" variable, whatever its value is.
LetBody(job, t) ==
  Under(job, "other", IF t.value.tag = "var" THEN Den(job, t.value.var) ELSE Unknown, 1, t.body)

\* Seeded fault: the principal argument itself may be passed.
GuardedSpecial(job, args) ==
  /\ k < Len(args)
  /\ args[k + 1].tag = "var"
  /\ Special(job, args[k + 1].var)

\* guarded_call.
Guarded(job, args) ==
  /\ k < Len(args)
  /\ args[k + 1].tag = "var"
  /\ StatusAt(job, args[k + 1].var) = "smaller"

-----------------------------------------------------------------------------
(***************************************************************************)
(* certify: some member mentions the group, in its body or in a formal's   *)
(* type, or there is nothing to show; first_fit tries the positions that   *)
(* all members have whose peeled body mentions it, and none if no body     *)
(* does.                                                                   *)
(***************************************************************************)
Init ==
  /\ members \in [Group -> Bodies]
  /\ k = 0 /\ at = 0 /\ jobs = << >> /\ calls = << >>
  /\ rows = << >> /\ phase = "certify"

InBody == {m \in Group : Mentioned[members[m].body] # {}}
Calling == InBody \cup {m \in Group : members[m].types}

\* Seeded fault: a mention in a formal's type counts for the bound too.
InBoundWhole(pos) == Calling # {} /\ \A m \in Calling : pos < members[m].formals

\* bound: the least formals of the members whose peeled body mentions the
\* group, 0 if there is none.
InBound(pos) == InBody # {} /\ \A m \in InBody : pos < members[m].formals

First(m, pos) ==
  [st |-> Seed(members[m].formals, pos),
   den |-> [i \in 1 .. members[m].formals |-> Formal(i - 1)],
   chain |-> << >>, term |-> members[m].body]

Certify ==
  /\ phase = "certify"
  /\ IF Calling = {} THEN phase' = "plain" /\ UNCHANGED <<at, jobs, calls, rows>>
     ELSE IF ~InBound(0) THEN phase' = "unfit" /\ UNCHANGED <<at, jobs, calls, rows>>
     ELSE /\ phase' = "walk"
          /\ at' = 1 /\ jobs' = <<First(1, 0)>> /\ calls' = << >> /\ rows' = << >>
  /\ UNCHANGED <<members, k>>

\* The budget of surface_totality.c may not last.
Exhaust ==
  /\ phase = "certify"
  /\ phase' = "exhausted"
  /\ UNCHANGED <<members, k, at, jobs, calls, rows>>

-----------------------------------------------------------------------------
(***************************************************************************)
(* walk: one job.                                                          *)
(***************************************************************************)
Walking == phase = "walk" /\ jobs # << >>
Job == Head(jobs)
Term == Job.term

\* The jobs a term leads to, before the jobs that wait.
Expand(new) ==
  /\ jobs' = new \o Tail(jobs)
  /\ UNCHANGED <<members, k, at, calls, rows, phase>>

GiveUp ==
  /\ phase' = "retry"
  /\ UNCHANGED <<members, k, at, jobs, calls, rows>>

Simple == Walking /\ Term.tag \in {"var", "leaf"} /\ Expand(<< >>)

\* A member's name alone is not a guarded call.
Name ==
  /\ Walking /\ Term.tag = "global"
  /\ IF Names(Term) THEN GiveUp ELSE Expand(<< >>)

Node == Walking /\ Term.tag = "node" /\ Expand(Parts(Job, Term.parts))

Let ==
  /\ Walking /\ Term.tag = "let"
  /\ Expand(<<Visit(Job, Term.type), Visit(Job, Term.value), LetBody(Job, Term)>>)

Elim ==
  /\ Walking /\ Term.tag = "elim"
  /\ Expand(<<Visit(Job, Term.scrut)>> \o Parts(Job, Term.parts) \o Parts(Job, Term.motives)
            \o Branches(Job, Term))

\* spine_jobs: the head, the shapes, the arguments.
Spine ==
  /\ Walking /\ Term.tag = "spine"
  /\ LET head == Term.head
         rest == Parts(Job, Term.parts) \o Visits(Job, Term.args)
     IN  IF head.tag # "global" THEN Expand(<<Visit(Job, head)>> \o rest)
         ELSE IF head.name \notin Group THEN Expand(rest)
         ELSE IF ~Guarded(Job, Term.args) THEN GiveUp
         ELSE /\ calls' = Append(calls, [callee |-> head.name, chain |-> Job.chain,
                                         den |-> Den(Job, Term.args[k + 1].var)])
              /\ jobs' = rest \o Tail(jobs)
              /\ UNCHANGED <<members, k, at, rows, phase>>

\* rows_at: the next member, or the certificate.
NextMember ==
  /\ phase = "walk" /\ jobs = << >>
  /\ rows' = Append(rows, calls) /\ calls' = << >>
  /\ IF at + 1 \in Group
     THEN at' = at + 1 /\ jobs' = <<First(at + 1, k)>> /\ UNCHANGED phase
     ELSE phase' = "certified" /\ UNCHANGED <<at, jobs>>
  /\ UNCHANGED <<members, k>>

\* Seeded fault: the position is tried again.
RetrySame ==
  /\ phase = "retry"
  /\ IF InBound(k)
     THEN /\ phase' = "walk"
          /\ at' = 1 /\ jobs' = <<First(1, k)>> /\ calls' = << >> /\ rows' = << >>
     ELSE phase' = "unfit" /\ UNCHANGED <<at, jobs, calls, rows>>
  /\ UNCHANGED <<members, k>>

\* first_fit: the next position, or the refusal.
Retry ==
  /\ phase = "retry"
  /\ IF InBound(k + 1)
     THEN /\ k' = k + 1 /\ phase' = "walk"
          /\ at' = 1 /\ jobs' = <<First(1, k + 1)>> /\ calls' = << >> /\ rows' = << >>
     ELSE phase' = "unfit" /\ UNCHANGED <<k, at, jobs, calls, rows>>
  /\ UNCHANGED members

(***************************************************************************)
(* translate, for every member that mentions the group: the body is an     *)
(* elimination of the principal argument, with a motive and constructor    *)
(* branches, and every call is under a constructor of a special variable.  *)
(***************************************************************************)
HeadElim(m) ==
  LET b == members[m].body
  IN  /\ b.tag = "elim"
      /\ Scrut(b).tag = "var" /\ Scrut(b).var = members[m].formals - 1 - k
      /\ Len(b.motives) = 1
      /\ \A i \in DOMAIN b.branches : b.branches[i].ctor

RowChains ==
  \A m \in DOMAIN rows : \A i \in DOMAIN rows[m] :
    rows[m][i].chain # << >> /\ Head(rows[m][i].chain).ctor

Translate ==
  /\ phase = "certified"
  /\ phase' = IF (\A m \in Calling : HeadElim(m)) /\ RowChains THEN "granted" ELSE "refused"
  /\ UNCHANGED <<members, k, at, jobs, calls, rows>>

Next ==
  \/ Certify \/ Exhaust
  \/ Simple \/ Name \/ Node \/ Let \/ Elim \/ Spine
  \/ NextMember \/ Retry \/ Translate

Spec == Init /\ [][Next]_vars /\ WF_vars(Next)

-----------------------------------------------------------------------------
Calls == {calls[i] : i \in DOMAIN calls} \cup UNION {{rows[m][i] : i \in DOMAIN rows[m]} : m \in DOMAIN rows}

\* Every call found so far passes, at position k, a proper part of the caller's
\* argument k: the evaluation of a certified group ends on finite arguments.
CallDescends(pos, c) == c.den.root = pos /\ c.den.below > 0
Descends == \A c \in Calls : CallDescends(k, c)

\* The status of an index is right about what its binder stands for.
IndexRight(pos, status, d) ==
  /\ status = "principal" => d = Formal(pos)
  /\ status = "smaller" => d.root = pos /\ d.below > 0
JobStatusRight(pos, job) ==
  /\ Len(job.st) = Len(job.den)
  /\ \A ix \in 0 .. Len(job.st) - 1 : IndexRight(pos, StatusAt(job, ix), Den(job, ix))
StatusRight == \A j \in DOMAIN jobs : JobStatusRight(k, jobs[j])

\* A smaller variable comes from an elimination the chain remembers, so the
\* translation never meets a call without one.
JobRemembers(job) == (\E i \in DOMAIN job.st : job.st[i] = "smaller") => job.chain # << >>
ChainsRemember ==
  /\ \A j \in DOMAIN jobs : JobRemembers(jobs[j])
  /\ \A c \in Calls : c.chain # << >>

\* The certificate is given or refused.
Answers == <>(phase \in Answered)

=============================================================================

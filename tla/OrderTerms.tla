----------------------------- MODULE OrderTerms -----------------------------
(***************************************************************************)
(* Order beside a second reading of the bodies: the occurrences of members *)
(* that they hold and what is passed, found without statuses or jobs.      *)
(***************************************************************************)
EXTENDS Order

-----------------------------------------------------------------------------
(***************************************************************************)
(* The reference: the occurrences of members in a term whose binders stand *)
(* for env, outermost first.  aliases says whether a let's variable stands *)
(* for what the let binds to it.                                           *)
(***************************************************************************)
Denotations == [root : Int, below : Nat]
Reading(t, env) == [term |-> t, env |-> env]
Readings == [term : Trees, env : Seq(Denotations)]

EnvAt(env, ix) == IF ix < Len(env) THEN env[Len(env) - ix] ELSE Unknown
PartOf(env, scrut) == IF scrut.tag = "var" THEN Part(EnvAt(env, scrut.var)) ELSE Unknown

\* What a let's variable stands for.
Bound(env, value, aliases) ==
  IF aliases /\ value.tag = "var" THEN EnvAt(env, value.var) ELSE Unknown

Passed(env, args) ==
  [i \in DOMAIN args |-> IF args[i].tag = "var" THEN EnvAt(env, args[i].var) ELSE Unknown]

\* What a term is itself, and the readings of the terms in it.
Here(s) ==
  CASE Names(s.term) -> {[callee |-> s.term.name, passed |-> << >>]}
    [] s.term.tag = "spine" /\ Names(s.term.head) ->
         {[callee |-> s.term.head.name, passed |-> Passed(s.env, s.term.args)]}
    [] OTHER -> {}

InParts(env, d, ps) == {Reading(ps[i].term, env \o Copies(d, ps[i].binders)) : i \in DOMAIN ps}
Inner(s, aliases) ==
  LET t == s.term
      env == s.env
      In(u) == Reading(u, env)
  IN  CASE t.tag = "node" -> InParts(env, Unknown, t.parts)
        [] t.tag = "let" ->
             {In(t.type), In(t.value), Reading(t.body, env \o Copies(Bound(env, t.value, aliases), 1))}
        [] t.tag = "elim" ->
             {In(t.scrut)} \cup InParts(env, Unknown, t.parts) \cup InParts(env, Unknown, t.motives)
             \cup InParts(env, PartOf(env, t.scrut), t.branches)
        [] t.tag = "spine" ->
             InParts(env, Unknown, t.parts) \cup {In(t.args[i]) : i \in DOMAIN t.args}
             \cup (IF t.head.tag = "global" THEN {} ELSE {In(t.head)})
        [] OTHER -> {}

Occurrences(aliases) ==
  LET held[s \in Readings] == Here(s) \cup UNION {held[u] : u \in Inner(s, aliases)}
  IN  held

Env(m) == [i \in 1 .. members[m].formals |-> Formal(i - 1)]
Held(m, aliases) == Occurrences(aliases)[Reading(members[m].body, Env(m))]

\* An occurrence passes a proper part of the caller's argument pos.
Decreases(o, pos) ==
  pos < Len(o.passed) /\ o.passed[pos + 1].root = pos /\ o.passed[pos + 1].below > 0

Fits(pos, aliases) == \A m \in Group : \A o \in Held(m, aliases) : Decreases(o, pos)

-----------------------------------------------------------------------------
(***************************************************************************)
(* What the certificate says of the bodies.                                *)
(***************************************************************************)
\* Where no certificate is needed, no body holds a member.  A certificate for
\* position k is right: every occurrence of a member in a member's body is a
\* call that passes a proper part of argument k, and it is among the recorded
\* calls, whose chains the translation reads.
CertificateRight ==
  /\ phase = "plain" => \A m \in Group : Held(m, TRUE) = {}
  /\ phase \in {"certified", "granted"} =>
       /\ Fits(k, TRUE)
       /\ \A m \in Group :
            {o.callee : o \in Held(m, TRUE)} = {rows[m][i].callee : i \in DOMAIN rows[m]}

\* The members whose bodies hold a member.
Holders == {m \in Group : Held(m, FALSE) # {}}

\* A certificate is for the first position that fits, of a group some body
\* calls, a let's variable standing for nothing.  When some body calls, the
\* group is refused as unfit only if no argument of any member fits, whichever
\* positions were tried; when none does, only for what a formal's type mentions.
FirstFit ==
  /\ phase \in {"certified", "granted"} =>
       Holders # {} /\ \A pos \in 0 .. k - 1 : ~Fits(pos, FALSE)
  /\ phase = "unfit" /\ Holders # {} =>
       \A m \in Group : \A pos \in 0 .. members[m].formals - 1 : ~Fits(pos, FALSE)
  /\ phase = "unfit" /\ Holders = {} => \E m \in Group : members[m].types

=============================================================================

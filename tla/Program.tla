------------------------------ MODULE Program ------------------------------
(***************************************************************************)
(* How a checked program grows its globals (surface_program.c, the mu      *)
(* group of surface_elab.c, the declaration entry points of                *)
(* kernel_check.c).  program_loop takes the declarations in source order:  *)
(* a def or an axiom goes in by itself; a group of recursive definitions   *)
(* goes through a provisional globals where its members are postulates;    *)
(* a group of families is declared provisional, then completed family by   *)
(* family.  The first refusal ends the check.                              *)
(*                                                                         *)
(* A term is the set of names it mentions.  Whether it type-checks beyond  *)
(* those names, and whether the fuel is enough, is open: any step may be   *)
(* refused.  An entry keeps two ghosts: at, the declaration it came from,  *)
(* and seen, the declaration each of its references stood for when the     *)
(* entry was checked.                                                      *)
(***************************************************************************)
EXTENDS Naturals, Sequences, FiniteSets

CONSTANTS
  Name,        \* identifiers of the source
  Prims,       \* names of global_initial: Nat and the primitives
  TypeNames,   \* bound: names a type mentions at most
  BodyNames,   \* bound: names a body mentions at most
  RecGroup,    \* bound: members of a group of recursive definitions
  FamGroup,    \* bound: families of a group
  MaxDecls,    \* bound: declarations of a program
  Redeclare    \* whether a source may define one name twice

ASSUME ProgramConstants ==
  /\ Prims \subseteq Name /\ Redeclare \in BOOLEAN
  /\ MaxDecls \in Nat /\ RecGroup \in Nat /\ FamGroup \in Nat
  /\ TypeNames \in Nat /\ BodyNames \in Nat

VARIABLES
  globals,  \* [entries, families]: the persistent map of program_loop
  rows,     \* the checked rows, in order: <<name, entry>>
  work,     \* the group being admitted, or Idle
  status,   \* "running", "done", "failed"
  count     \* declarations begun

vars == <<globals, rows, work, status, count>>

Idle == [phase |-> "idle"]

-----------------------------------------------------------------------------
(***************************************************************************)
(* Names.                                                                  *)
(***************************************************************************)

Owners(c, g) == {f \in DOMAIN g.families : c \in DOMAIN g.families[f].ctors}

\* mu_ref_of, then local_or_global: a family hides a constructor, which hides
\* an entry.
Resolve(n, g) ==
  CASE n \in DOMAIN g.families -> {[kind |-> "family", name |-> n]}
    [] n \notin DOMAIN g.families /\ Owners(n, g) # {} ->
         {[kind |-> "ctor", name |-> n, owner |-> f] : f \in Owners(n, g)}
    [] OTHER -> {[kind |-> "entry", name |-> n]}

Elab(names, g) == UNION {Resolve(n, g) : n \in names}

\* The kernel finds what the reference names.
Known(r, g) ==
  CASE r.kind = "entry" -> r.name \in DOMAIN g.entries
    [] r.kind = "family" -> r.name \in DOMAIN g.families
    [] r.kind = "ctor" -> /\ r.owner \in DOMAIN g.families
                          /\ r.name \in DOMAIN g.families[r.owner].ctors

AllKnown(refs, g) == \A r \in refs : Known(r, g)

\* Ghost: the declaration a known reference stands for.
Meaning(r, g) ==
  CASE r.kind = "entry" -> g.entries[r.name].at
    [] r.kind = "family" -> g.families[r.name].at
    [] r.kind = "ctor" -> g.families[r.owner].at

\* term_exists_name: a term mentions a definition of the group.
Mentions(group, refs) == \E r \in refs : r.kind = "entry" /\ r.name \in group

Entry(kind, ty, body, rec, g) ==
  [kind |-> kind, ty |-> ty, body |-> body, rec |-> rec, at |-> count,
   seen |-> [r \in ty \cup body |-> Meaning(r, g)]]

Put(map, key, value) == [k \in DOMAIN map \cup {key} |-> IF k = key THEN value ELSE map[k]]

\* global_add: an entry of the same name is lost.
Add(g, n, e) == [g EXCEPT !.entries = Put(g.entries, n, e)]
AddFamily(g, f, fam) == [g EXCEPT !.families = Put(g.families, f, fam)]

RowNames(rs) == {rs[i][1] : i \in DOMAIN rs}
LastRow(n, rs) == CHOOSE i \in DOMAIN rs : rs[i][1] = n /\ \A j \in DOMAIN rs : rs[j][1] = n => j <= i

\* install: the rows in order, so the last one of a name stays.
Install(rs, g) ==
  [g EXCEPT !.entries =
     [n \in DOMAIN g.entries \cup RowNames(rs) |->
        IF n \in RowNames(rs) THEN rs[LastRow(n, rs)][2] ELSE g.entries[n]]]

-----------------------------------------------------------------------------
(***************************************************************************)
(* The declarations a source may hold.  What is read of a group before a   *)
(* step needs it makes no difference, so the names of a group are chosen   *)
(* first and its terms when they are elaborated.                           *)
(***************************************************************************)

Types == {s \in SUBSET Name : Cardinality(s) <= TypeNames}
Bodies == {s \in SUBSET Name : Cardinality(s) <= BodyNames}

Tuples(S, bound) == UNION {[1 .. k -> S] : k \in 1 .. bound}
Distinct(names) == \A i, j \in DOMAIN names : names[i] = names[j] => i = j
Names(seq) == {seq[i] : i \in DOMAIN seq}

\* A name a def, an axiom or a recursive definition may take.
Free(n) == Redeclare \/ n \notin DOMAIN globals.entries

RecNames == {ns \in Tuples(Name, RecGroup) :
               (Redeclare \/ Distinct(ns)) /\ \A i \in DOMAIN ns : Free(ns[i])}

\* The parser refuses a constructor name it has seen in the group, or that is
\* the name of its own or an earlier family of the group.
Parsed(fams, ctors) ==
  \A i, j \in DOMAIN fams :
    /\ j <= i => fams[j] \notin ctors[i]
    /\ j < i => ctors[j] \cap ctors[i] = {}

-----------------------------------------------------------------------------
Init ==
  /\ globals = [entries |-> [p \in Prims |->
                               [kind |-> "prim", ty |-> {}, body |-> {}, rec |-> FALSE,
                                at |-> 0, seen |-> << >>]],
                families |-> << >>]
  /\ rows = << >> /\ work = Idle /\ status = "running" /\ count = 1

\* The next declaration may begin.
Ready == status = "running" /\ work = Idle /\ count <= MaxDecls

(***************************************************************************)
(* ordinary: the type and the body are checked in the globals as they are, *)
(* so the body cannot mention the definition itself.                       *)
(***************************************************************************)
Ordinary(n, kind, ty, body) ==
  /\ Ready
  /\ Free(n)
  /\ AllKnown(Elab(ty, globals) \cup Elab(body, globals), globals)
  /\ LET e == Entry(kind, Elab(ty, globals), Elab(body, globals), FALSE, globals)
     IN  /\ globals' = Add(globals, n, e)
         /\ rows' = Append(rows, <<n, e>>)
  /\ count' = count + 1
  /\ UNCHANGED <<work, status>>

(***************************************************************************)
(* elab_rec_group.  types: each member type against the original globals.  *)
(***************************************************************************)
RecTypes(ns, tys) ==
  /\ Ready
  /\ work' = [phase |-> "postulates", group |-> ns, g |-> globals, rows |-> << >>,
              ty |-> [i \in DOMAIN ns |-> Elab(tys[i], globals)]]
  /\ UNCHANGED <<globals, rows, status, count>>

\* check_declarations_program on the postulates: the globals grow.
RecPostulate ==
  /\ work.phase = "postulates"
  /\ Len(work.rows) < Len(work.group)
  /\ LET i == Len(work.rows) + 1
         e == Entry("axiom", work.ty[i], {}, FALSE, work.g)
     IN  /\ AllKnown(work.ty[i], work.g)
         /\ work' = [work EXCEPT !.rows = Append(@, <<work.group[i], e>>),
                                 !.g = Add(@, work.group[i], e)]
  /\ UNCHANGED <<globals, rows, status, count>>

\* Seeded fault: only a call of the member itself counts.
CallsSelf(group, body) == {i \in DOMAIN group : Mentions({group[i]}, body[i])}

\* rec_arg: the members whose bodies mention the group.
Calls(group, body) == {i \in DOMAIN group : Mentions(Names(group), body[i])}

\* Each body against the provisional globals (bodies), then guard_group: a
\* group with no call into itself needs no certificate and goes back to the
\* original globals (admitted); for any other the certificate of
\* surface_order.c is given, or refused.
RecGuard(bodies) ==
  /\ work.phase = "postulates"
  /\ Len(work.rows) = Len(work.group)
  /\ LET provisional == Install(work.rows, globals)
         body == [i \in DOMAIN work.group |-> Elab(bodies[i], provisional)]
         calls == Calls(work.group, body)
     IN  work' = [phase |-> "admit", group |-> work.group, ty |-> work.ty, body |-> body,
                  rows |-> << >>, calls |-> calls,
                  g |-> IF calls = {} THEN globals ELSE provisional]
  /\ UNCHANGED <<globals, rows, status, count>>

\* Seeded fault: an admitted member has no recursive argument.
RecAdmitPlain ==
  /\ work.phase = "admit"
  /\ Len(work.rows) < Len(work.group)
  /\ LET i == Len(work.rows) + 1
         e == Entry("def", work.ty[i], work.body[i], FALSE, work.g)
     IN  /\ AllKnown(work.ty[i] \cup work.body[i], work.g)
         /\ work' = [work EXCEPT !.rows = Append(@, <<work.group[i], e>>),
                                 !.g = IF work.calls = {} THEN Add(@, work.group[i], e) ELSE @]
  /\ UNCHANGED <<globals, rows, status, count>>

\* One member: check_check_decls lets the original globals grow, guarded
\* stays with the provisional ones.
RecAdmit ==
  /\ work.phase = "admit"
  /\ Len(work.rows) < Len(work.group)
  /\ LET i == Len(work.rows) + 1
         e == Entry("def", work.ty[i], work.body[i], i \in work.calls, work.g)
     IN  /\ AllKnown(work.ty[i] \cup work.body[i], work.g)
         /\ work' = [work EXCEPT !.rows = Append(@, <<work.group[i], e>>),
                                 !.g = IF work.calls = {} THEN Add(@, work.group[i], e) ELSE @]
  /\ UNCHANGED <<globals, rows, status, count>>

\* in_provisional: only the completed group enters the original globals.
RecInstall ==
  /\ work.phase = "admit"
  /\ Len(work.rows) = Len(work.group)
  /\ globals' = Install(work.rows, globals)
  /\ rows' = rows \o work.rows
  /\ work' = Idle /\ count' = count + 1
  /\ UNCHANGED status

\* Seeded fault: the constructors of earlier families are not looked up.
TakenFamilies(c, group) == c \in DOMAIN globals.families \/ c \in group

(***************************************************************************)
(* elab_mu_group_program.  fresh_group: no constructor has a name that the *)
(* globals or the families of the group already use.                       *)
(***************************************************************************)
Taken(c, group) == c \in DOMAIN globals.families \/ Owners(c, globals) # {} \/ c \in group

MuFresh(fams, ctors) ==
  /\ Ready
  /\ Parsed(fams, ctors)
  /\ \A i \in DOMAIN fams : \A c \in ctors[i] : ~Taken(c, Names(fams))
  /\ work' = [phase |-> "declare", group |-> fams, ctors |-> ctors, g |-> globals, next |-> 1]
  /\ UNCHANGED <<globals, rows, status, count>>

SeenIn(refs, g) == [r \in refs |-> Meaning(r, g)]
SeenAlso(seen, refs, g) ==
  [r \in DOMAIN seen \cup refs |-> IF r \in DOMAIN seen THEN seen[r] ELSE Meaning(r, g)]

\* Seeded fault: a family may be declared again.
MuDeclareAgain(names) ==
  /\ work.phase = "declare"
  /\ work.next <= Len(work.group)
  /\ LET f == work.group[work.next]
         ty == Elab(names, work.g)
     IN  /\ AllKnown(ty, work.g)
         /\ work' = [work EXCEPT
              !.next = @ + 1,
              !.g = AddFamily(@, f, [status |-> "provisional", ty |-> ty, ctors |-> << >>,
                                     at |-> count, seen |-> SeenIn(ty, work.g)])]
  /\ UNCHANGED <<globals, rows, status, count>>

\* check_declare_family: a provisional family with no constructor.
MuDeclare(names) ==
  /\ work.phase = "declare"
  /\ work.next <= Len(work.group)
  /\ LET f == work.group[work.next]
         ty == Elab(names, work.g)
     IN  /\ f \notin DOMAIN work.g.families
         /\ AllKnown(ty, work.g)
         /\ work' = [work EXCEPT
              !.next = @ + 1,
              !.g = AddFamily(@, f, [status |-> "provisional", ty |-> ty, ctors |-> << >>,
                                     at |-> count, seen |-> SeenIn(ty, work.g)])]
  /\ UNCHANGED <<globals, rows, status, count>>

MuDeclared ==
  /\ work.phase = "declare"
  /\ work.next > Len(work.group)
  /\ work' = [work EXCEPT !.phase = "define", !.next = 1]
  /\ UNCHANGED <<globals, rows, status, count>>

\* check_define_ctors: the constructors of one provisional family, against
\* the globals where the families before it are complete.
MuDefine(names) ==
  /\ work.phase = "define"
  /\ work.next <= Len(work.group)
  /\ LET f == work.group[work.next]
         fam == work.g.families[f]
         ctors == [c \in work.ctors[work.next] |-> Elab(names[c], work.g)]
         refs == UNION {ctors[c] : c \in DOMAIN ctors}
     IN  /\ fam.status = "provisional"
         /\ AllKnown(refs, work.g)
         /\ work' = [work EXCEPT
              !.next = @ + 1,
              !.g = AddFamily(@, f, [fam EXCEPT !.status = "complete", !.ctors = ctors,
                                                !.seen = SeenAlso(@, refs, work.g)])]
  /\ UNCHANGED <<globals, rows, status, count>>

\* The globals of the last family are those of the declaration; a group adds
\* no row.
MuInstall ==
  /\ work.phase = "define"
  /\ work.next > Len(work.group)
  /\ globals' = work.g
  /\ work' = Idle /\ count' = count + 1
  /\ UNCHANGED <<rows, status>>

\* Seeded fault: the globals of the refused group stay.
RefuseKeeps ==
  /\ status = "running"
  /\ Ready \/ work # Idle
  /\ status' = "failed" /\ work' = Idle
  /\ globals' = IF work = Idle THEN globals ELSE work.g
  /\ UNCHANGED <<rows, count>>

\* A name is unknown, a term does not type-check, a call does not descend,
\* fuel runs out: the error is the answer, and the globals of the check are
\* dropped with the group in work.
Refuse ==
  /\ status = "running"
  /\ Ready \/ work # Idle
  /\ status' = "failed" /\ work' = Idle
  /\ UNCHANGED <<globals, rows, count>>

\* The end of the source.
Finish ==
  /\ status = "running" /\ work = Idle
  /\ status' = "done"
  /\ UNCHANGED <<globals, rows, work, count>>

Next ==
  \/ \E n \in Name, ty \in Types : Ordinary(n, "axiom", ty, {})
  \/ \E n \in Name, ty \in Types, body \in Bodies : Ordinary(n, "def", ty, body)
  \/ Ready /\ \E ns \in RecNames : \E tys \in [DOMAIN ns -> Types] : RecTypes(ns, tys)
  \/ /\ work.phase = "postulates"
     /\ \E bodies \in [DOMAIN work.group -> Bodies] : RecGuard(bodies)
  \/ RecPostulate \/ RecAdmit \/ RecInstall
  \/ \E fams \in Tuples(Name, FamGroup) : \E ctors \in [DOMAIN fams -> Types] : MuFresh(fams, ctors)
  \/ \E names \in Types : MuDeclare(names)
  \/ /\ work.phase = "define" /\ work.next <= Len(work.group)
     /\ \E names \in [work.ctors[work.next] -> Types] : MuDefine(names)
  \/ MuDeclared \/ MuInstall
  \/ Refuse \/ Finish

Spec == Init /\ [][Next]_vars

-----------------------------------------------------------------------------
Phases == {"idle", "postulates", "admit", "declare", "define"}

\* A definition that unfolds freely: reducible, with no recursive argument
\* (eval_eval_entry evaluates its body at each mention).
Unfolds(n) == globals.entries[n].kind = "def" /\ ~globals.entries[n].rec

\* Unfolding ends: no set of freely unfolding definitions in which each
\* mentions one of the set.
UnfoldingEnds ==
  \A S \in SUBSET {n \in DOMAIN globals.entries : Unfolds(n)} :
    S # {} => \E n \in S : \A r \in globals.entries[n].body : r.kind = "entry" => r.name \notin S

\* Every reference still stands for what it stood for when its entry was
\* checked, so what was well typed stays well typed.
MeaningsStay ==
  /\ \A n \in DOMAIN globals.entries :
       LET e == globals.entries[n]
       IN  \A r \in e.ty \cup e.body : Known(r, globals) /\ Meaning(r, globals) = e.seen[r]
  /\ \A f \in DOMAIN globals.families :
       LET fam == globals.families[f]
       IN  \A r \in DOMAIN fam.seen : Known(r, globals) /\ Meaning(r, globals) = fam.seen[r]

\* A constructor name leads to one family, and no family declared before it
\* or with it has its name (dev/validation/stage-a-public-family.md 24-31).
CtorsUnique ==
  \A f \in DOMAIN globals.families : \A c \in DOMAIN globals.families[f].ctors :
    /\ Owners(c, globals) = {f}
    /\ c \in DOMAIN globals.families => globals.families[c].at > globals.families[f].at

\* What a group of recursive definitions installs is its definitions: none of
\* its postulates stays, and a member that calls the group has a recursive
\* argument.
GroupInstalled ==
  [][work.phase = "admit" /\ work' = Idle /\ status' = "running" =>
       \A i \in DOMAIN work.group :
         LET e == globals'.entries[work.group[i]]
         IN  /\ e.kind = "def"
             /\ (\E r \in e.body : r.kind = "entry" /\ r.name \in Names(work.group)) => e.rec]_vars

\* The steps of a declaration are one admission, or none.
A == INSTANCE Admission
AtomicAdmission == A!Spec

=============================================================================

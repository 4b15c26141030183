-------------------------------- MODULE Memo --------------------------------
(***************************************************************************)
(* The caches of the evaluator (kernel_eval.c 130-230 and 939-975) over    *)
(* the memory of the test verb (main.c test_row).  Terms, entries and      *)
(* neutral heads are arena cells, each with one cached answer, and the key *)
(* of an answer is the address of the globals it was computed under.  Each *)
(* row builds its own cells and releases them, so the next row finds other *)
(* cells at the same addresses.                                            *)
(*                                                                         *)
(* An address is a position in the heap; 0 is NULL.  A term is a reference *)
(* to a local or a global, or a node over one part: tag "lan" for a node   *)
(* evaluation itself keeps, "node" for one only eval_eval keeps.  A value  *)
(* is the path from a node to what its innermost part stands for.          *)
(***************************************************************************)
EXTENDS Naturals, Sequences, FiniteSets

CONSTANTS
  Names,     \* global names; "nat" is in the initial globals
  Bounds     \* bounds of a behaviour, of which one is chosen for it

(***************************************************************************)
(* A bound has the values a local may have, the nodes and the definitions  *)
(* that are made, and how many cells, neutral heads whose cache is         *)
(* followed, and rows there are.                                           *)
(***************************************************************************)
ASSUME MemoConstants ==
  /\ "nat" \in Names
  /\ \A b \in Bounds :
       /\ b.tags \subseteq {"lan", "node"} /\ b.kinds \subseteq {"def", "rec"}
       /\ b.cells \in Nat /\ b.heads \in Nat /\ b.rows \in Nat

VARIABLES
  heap,     \* the cells, in the order of their addresses
  mark,     \* the heap size test_row found, in a row
  rows,     \* rows begun
  bound     \* the bound of the behaviour

memovars == <<heap, mark, rows, bound>>

\* No environment, or one with a local.
EnvsOf(b) == {<< >>} \cup {<<v>> : v \in b.locals}
Envs == UNION {EnvsOf(b) : b \in Bounds}

Failed == <<"error">>

-----------------------------------------------------------------------------
(***************************************************************************)
(* Cells.                                                                  *)
(***************************************************************************)
Term(tag, name, part) ==
  [cell |-> "term", tag |-> tag, name |-> name, part |-> part,
   state |-> "unseen", key |-> 0, value |-> << >>, seen |-> [key |-> 0, entry |-> 0]]
Entry(kind, body) ==
  [cell |-> "entry", kind |-> kind, body |-> body, key |-> 0, value |-> << >>]
Globals(map) == [cell |-> "globals", map |-> map]
Neutral(name, seen) == [cell |-> "head", name |-> name, seen |-> seen]
Path == [cell |-> "path"]

\* term_auto is one static cell, at an address below the arena.
StaticAuto == Term("auto", "nat", 0)

Values == Seq(Names \cup {"lan", "node", "univ", "stuck", "error"}
                    \cup UNION {b.locals : b \in Bounds})
Seen == [key : Nat, entry : Nat]
TermCell ==
  [cell : {"term"}, tag : {"var", "global", "univ", "auto", "lan", "node"}, name : Names,
   part : Nat, state : {"unseen", "open", "kept"}, key : Nat, value : Values, seen : Seen]
EntryCell == [cell : {"entry"}, kind : {"def", "rec", "axiom"}, body : Nat, key : Nat, value : Values]
GlobalsCell == [cell : {"globals"}, map : [Names -> Nat]]
HeadCell == [cell : {"head"}, name : Names, seen : Seen]
Cell == TermCell \cup EntryCell \cup GlobalsCell \cup HeadCell \cup {Path}
Heaps == Seq(Cell)

Cells(h, kind) == {p \in DOMAIN h : h[p].cell = kind}
Unbound == [n \in Names |-> 0]

\* The innermost part of a term, and the names it mentions.
Leaf(h) ==
  LET leaf[p \in Cells(h, "term")] == IF h[p].part = 0 THEN p ELSE leaf[h[p].part] IN leaf
Mentioned(h, p) == {h[q].name : q \in {q \in {Leaf(h)[p]} : h[q].tag = "global"}}

\* term_closed.
Closed(h, p) == h[Leaf(h)[p]].tag # "var"

-----------------------------------------------------------------------------
(***************************************************************************)
(* What an evaluation answers when nothing was kept.                       *)
(***************************************************************************)
Wrap(tag, v) == IF v = Failed THEN Failed ELSE <<tag>> \o v

FreshStep(h, g, fresh, p, env) ==
  LET t == h[p]
      entry == h[g].map[t.name]
  IN  CASE t.tag = "var" -> IF env = << >> THEN Failed ELSE env
        [] t.tag = "auto" -> Failed
        [] t.tag = "univ" -> <<"univ">>
        [] t.tag = "global" ->
             IF entry = 0 THEN Failed
             ELSE IF h[entry].kind = "def" THEN fresh[h[entry].body][<< >>]
             ELSE <<"stuck", t.name>>
        [] OTHER -> Wrap(t.tag, fresh[t.part][env])

Fresh(h, g) ==
  LET fresh[p \in Cells(h, "term")] == [env \in Envs |-> FreshStep(h, g, fresh, p, env)]
  IN  fresh

-----------------------------------------------------------------------------
(***************************************************************************)
(* A row: the globals of global_initial, then the program's cells.         *)
(***************************************************************************)
MemoInit ==
  /\ bound \in Bounds
  /\ heap = <<StaticAuto>> /\ mark = 0 /\ rows = 0

InRow == mark # 0

\* The walk of the test verb keeps a path between two rows.
WalkOn ==
  /\ ~InRow /\ rows < bound.rows /\ Len(heap) <= rows
  /\ heap' = Append(heap, Path)
  /\ UNCHANGED <<mark, rows>>

\* global_initial: the postulate nat, of a universe.
RowBegin ==
  /\ ~InRow /\ rows < bound.rows
  /\ LET n == Len(heap)
     IN  heap' = heap \o <<Term("univ", "nat", 0), Entry("axiom", n + 1),
                           Globals([Unbound EXCEPT !["nat"] = n + 2])>>
  /\ mark' = Len(heap)
  /\ rows' = rows + 1

Room == Len(heap) < bound.cells

\* The elaborator makes a term cell.  Bound: no two of the same form, whose
\* caches would have nothing to do with each other.
NewTerm(tag, name, part) ==
  /\ InRow /\ Room
  /\ \A p \in Cells(heap, "term") : <<heap[p].tag, heap[p].name, heap[p].part>> # <<tag, name, part>>
  /\ heap' = Append(heap, Term(tag, name, part))
  /\ UNCHANGED <<mark, rows>>

\* A definition is checked in the globals it is added to: its body is closed
\* and mentions admitted names, one with a recursive argument its own name
\* too.  It may replace an entry of its name.  A source whose definitions
\* unfold forever is left out (see Program): the names a body unfolds to, after
\* any number of steps, are in a set without the name.
Unfolds(g, ns) ==
  \A m \in ns : LET e == heap[g].map[m]
                IN  e # 0 /\ heap[e].kind = "def" => Mentioned(heap, heap[e].body) \subseteq ns
Admits(g, n, kind, p) ==
  /\ Closed(heap, p)
  /\ \A m \in Mentioned(heap, p) : heap[g].map[m] # 0 \/ (kind = "rec" /\ m = n)
  /\ kind = "def" =>
       \E ns \in SUBSET (Names \ {n}) : Mentioned(heap, p) \subseteq ns /\ Unfolds(g, ns)

\* global_add: the entry and a new map; the old map stays.
AddEntry(g, n, kind, p) ==
  /\ InRow /\ Len(heap) + 1 < bound.cells
  /\ Admits(g, n, kind, p)
  /\ heap' = heap \o <<Entry(kind, p), Globals([heap[g].map EXCEPT ![n] = Len(heap) + 1])>>
  /\ UNCHANGED <<mark, rows>>

\* Seeded fault: the first term of the row stays for the next row.
RowEndLate ==
  /\ InRow
  /\ heap' = SubSeq(heap, 1, IF Len(heap) < mark + 4 THEN mark + 3 ELSE mark + 4)
  /\ mark' = 0
  /\ UNCHANGED rows

\* arena_release.
RowEnd ==
  /\ InRow
  /\ heap' = SubSeq(heap, 1, mark)
  /\ mark' = 0
  /\ UNCHANGED rows

-----------------------------------------------------------------------------
(***************************************************************************)
(* One evaluation.  The C calls run to their end with no other actor, so   *)
(* they are one step from the cells h they find to the cells they leave.   *)
(***************************************************************************)
Answer(h, v) == [heap |-> h, value |-> v]

\* eval_entry_keeps.
EntryKeeps(t) == t.tag \in {"lan", "node"}

\* eval_term_kept.
TermKept(t, g) == t.state = "kept" /\ t.key = g

\* eval_term_keep: the node is scanned once, an open one keeps nothing.
TermKeep(h, g, p, v) ==
  IF h[p].state = "open" \/ (h[p].state = "unseen" /\ ~Closed(h, p))
  THEN [h EXCEPT ![p].state = "open"]
  ELSE [h EXCEPT ![p].state = "kept", ![p].key = g, ![p].value = v]

\* eval_find_seen.
FindSeen(h, seen, n, g) ==
  IF seen.key = g THEN seen ELSE [key |-> g, entry |-> h[g].map[n]]

\* value_hglobal: a neutral head, its cache set.
Stuck(h, n, seen) ==
  LET followed == Len(h) < bound.cells /\ Cardinality(Cells(h, "head")) < bound.heads
  IN  Answer(IF followed THEN Append(h, Neutral(n, seen)) ELSE h, <<"stuck", n>>)

\* Seeded fault: the key of a body's value is set once.
BodyKeepOnce(h, g, e, v) ==
  [h EXCEPT ![e].value = v, ![e].key = IF @ = 0 THEN g ELSE @]

\* The value eval_memo_body keeps.
BodyKeep(h, g, e, v) == [h EXCEPT ![e].value = v, ![e].key = g]

\* eval_memo_body.  The calls inside a call are those of eval.
MemoBody(eval, h, g, e) ==
  IF h[e].key = g THEN Answer(h, h[e].value)
  ELSE LET body == eval[<<h, << >>, h[e].body>>]
       IN  IF body.value = Failed THEN body
           ELSE Answer(BodyKeep(body.heap, g, e, body.value), body.value)

\* A name: eval_find_seen, then eval_eval_entry.
EvalGlobal(eval, h, g, p) ==
  LET n == h[p].name
      seen == FindSeen(h, h[p].seen, n, g)
      found == h[seen.entry]
      cached == [h EXCEPT ![p].seen = seen]
  IN  CASE seen.entry = 0 -> Answer(cached, Failed)
        [] seen.entry # 0 /\ found.kind = "def" -> MemoBody(eval, cached, g, seen.entry)
        [] OTHER -> Stuck(cached, n, seen)

\* A node over one part.
EvalNode(eval, h, g, env, p) ==
  LET part == eval[<<h, env, h[p].part>>]
      v == <<h[p].tag>> \o part.value
  IN  IF part.value = Failed THEN part
      ELSE Answer(IF h[p].tag = "lan" THEN TermKeep(part.heap, g, p, v) ELSE part.heap, v)

\* eval_eval_step.
EvalStep(eval, h, g, env, p) ==
  LET t == h[p]
  IN  CASE t.tag = "auto" \/ (t.tag = "var" /\ env = << >>) -> Answer(h, Failed)
        [] t.tag = "var" /\ env # << >> -> Answer(h, env)
        [] t.tag = "univ" -> Answer(h, <<"univ">>)
        [] t.tag = "global" -> EvalGlobal(eval, h, g, p)
        [] t.tag = "lan" /\ TermKept(t, g) -> Answer(h, t.value)
        [] OTHER -> EvalNode(eval, h, g, env, p)

\* A call of it, on cells, an environment and a term, that nests at most k
\* calls.  No call nests more of them than there are cells.
Eval(g) ==
  LET eval[k \in 0 .. Len(heap)] ==
        [c \in Heaps \X Envs \X Nat |->
           IF k = 0 THEN Answer(c[1], Failed) ELSE EvalStep(eval[k - 1], c[1], g, c[2], c[3])]
  IN  eval[Len(heap)]

\* eval_eval.
EvalEntry(g, env, p) ==
  IF EntryKeeps(heap[p]) /\ TermKept(heap[p], g) THEN Answer(heap, heap[p].value)
  ELSE LET r == Eval(g)[<<heap, env, p>>]
       IN  IF r.value = Failed \/ ~EntryKeeps(heap[p]) THEN r
           ELSE Answer(TermKeep(r.heap, g, p, r.value), r.value)

Evaluate(g, env, p) ==
  /\ InRow
  /\ heap' = EvalEntry(g, env, p).heap
  /\ UNCHANGED <<mark, rows>>

\* A stuck value is forced again: its head asks for its entry.
ForceHead(p, g) ==
  /\ InRow
  /\ heap' = [heap EXCEPT ![p].seen = FindSeen(heap, @, heap[p].name, g)]
  /\ UNCHANGED <<mark, rows>>

RowCells(kind) == {p \in Cells(heap, kind) : p > mark}
Terms == RowCells("term") \cup {1}

Step ==
  \/ WalkOn \/ RowBegin \/ RowEnd
  \/ (bound.locals # {} /\ NewTerm("var", "nat", 0))
  \/ \E n \in Names : NewTerm("global", n, 0)
  \/ \E p \in Terms, tag \in bound.tags : NewTerm(tag, heap[p].name, p)
  \/ \E g \in RowCells("globals"), n \in Names, p \in Terms :
       \E kind \in bound.kinds : AddEntry(g, n, kind, p)
  \/ \E g \in RowCells("globals"), n \in Names : AddEntry(g, n, "axiom", mark + 1)
  \/ \E g \in RowCells("globals"), p \in Terms, env \in EnvsOf(bound) : Evaluate(g, env, p)
  \/ \E p \in RowCells("head"), g \in RowCells("globals") : ForceHead(p, g)

MemoNext == Step /\ UNCHANGED bound
MemoSpec == MemoInit /\ [][MemoNext]_memovars

-----------------------------------------------------------------------------
\* What eval_eval answers, from caches filled in any order under any of the
\* row's maps, is what an evaluation without caches answers (the comments at
\* kernel_eval.c 155-158 and 173-182).
AnswersFresh ==
  \A g \in RowCells("globals"), env \in EnvsOf(bound), p \in Terms :
    EvalEntry(g, env, p).value = Fresh(heap, g)[p][env]

\* Each cache holds what its key says: a cached entry is the entry of its name
\* in the map of the key, a kept value the value of the closed node, or of the
\* body, in that map, whatever environment it was computed in.
SeenRight(seen, name) == seen.key # 0 => seen.entry = heap[seen.key].map[name]
CachesRight ==
  /\ \A p \in Cells(heap, "term") \cup Cells(heap, "head") : SeenRight(heap[p].seen, heap[p].name)
  /\ \A p \in Cells(heap, "term") : heap[p].state = "kept" =>
       \A env \in EnvsOf(bound) : heap[p].value = Fresh(heap, heap[p].key)[p][env]
  /\ \A p \in Cells(heap, "entry") : heap[p].kind = "def" /\ heap[p].key # 0 =>
       heap[p].value = Fresh(heap, heap[p].key)[heap[p].body][<< >>]

=============================================================================

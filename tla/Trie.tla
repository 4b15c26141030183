-------------------------------- MODULE Trie --------------------------------
(***************************************************************************)
(* Map of foundation.c: a persistent ternary search tree whose keys are    *)
(* texts.  map_get and map_descend go down a node at a time, map_singleton *)
(* and map_rebuild come back up, allocating a node at a time.  Below an    *)
(* End is what is left of the longer keys; an Empty ends every branch.     *)
(***************************************************************************)
EXTENDS Integers, Sequences, FiniteSets

CONSTANTS
  Keys,      \* the texts used: sequences of codes
  Values,
  Missing,   \* map_get's 0
  Calls      \* bound: the calls made
ASSUME KeysAssumption == Keys \subseteq Seq(Nat) /\ Missing \notin Values /\ Calls \in Nat

VARIABLES
  cells,           \* the nodes allocated: an address is a position, or 0
  map,             \* the map in use: an address
  answer,          \* what the last map_get found
  call,            \* the call in progress: its name, key and value
  node, at, path,  \* the walk: where it is, the key's position, the way back
  upto,            \* map_singleton: the codes of the key below are to come
  todo, out,       \* map_bindings: nodes to visit, bindings found
  calls            \* the calls begun

walk == <<node, at, path>>
listing == <<todo, out>>
vars == <<cells, map, answer, call, walk, upto, listing, calls>>

\* map_empty_cell, at address 0.
Empty == [tag |-> "empty"]
End(value, rest) == [tag |-> "end", value |-> value, rest |-> rest]
Char(code, less, same, greater) ==
  [tag |-> "char", code |-> code, less |-> less, same |-> same, greater |-> greater]
Cell(p) == IF p = 0 THEN Empty ELSE cells[p]

Idle == [name |-> "none"]
Drop(key, n) == SubSeq(key, n + 1, Len(key))
Ended == at = Len(call.key)
Here == call.key[at + 1]
Side(c) == IF Here < c.code THEN "less" ELSE IF Here = c.code THEN "same" ELSE "greater"

-----------------------------------------------------------------------------
Init ==
  /\ cells = << >> /\ map = 0 /\ answer = Missing /\ call = Idle
  /\ node = 0 /\ at = 0 /\ path = << >> /\ upto = 0 /\ todo = << >> /\ out = << >> /\ calls = 0

\* arena_alloc of a node, which becomes the node in hand.
Make(c) == cells' = Append(cells, c) /\ node' = Len(cells) + 1
Goto(name) == call' = [call EXCEPT !.name = name]

Begin(name, key, value) ==
  /\ call = Idle /\ calls < Calls /\ calls' = calls + 1
  /\ call' = [name |-> name, key |-> key, value |-> value]
  /\ node' = map /\ at' = 0 /\ path' = << >>
  /\ UNCHANGED <<cells, map, answer, upto, listing>>

Walking == call.name \in {"get", "insert", "remove"}
Stopped == node = 0 \/ Ended

\* The position is a ghost.
Frame(step) == [node |-> node, step |-> step, at |-> at]
\* One turn of the loop of map_descend, and of map_get, which keeps no path.
Descend ==
  /\ Walking /\ ~Stopped
  /\ LET c == Cell(node)
         step == IF c.tag = "end" THEN "rest" ELSE Side(c)
     IN  /\ node' = c[step] /\ path' = << Frame(step) >> \o path
         /\ at' = IF step = "same" THEN at + 1 ELSE at
  /\ UNCHANGED <<cells, map, answer, call, upto, listing, calls>>

\* The locals of a call go with it.
Return == call' = Idle /\ node' = 0 /\ at' = 0 /\ path' = << >> /\ upto' = 0

GetDone ==
  /\ call.name = "get" /\ Stopped
  /\ answer' = IF Cell(node).tag = "end" THEN Cell(node).value ELSE Missing
  /\ Return /\ UNCHANGED <<cells, map, listing, calls>>

\* map_insert: what takes the place of the node reached.
InsertHere ==
  /\ call.name = "insert" /\ Stopped
  /\ LET c == Cell(node)
     IN  \/ /\ c.tag = "empty" /\ Make(End(call.value, 0))
            /\ Goto("single") /\ upto' = Len(call.key)
         \/ /\ c.tag = "end" /\ Make(End(call.value, c.rest))
            /\ Goto("rebuild") /\ UNCHANGED upto
         \/ /\ c.tag = "char" /\ Make(End(call.value, node))
            /\ Goto("rebuild") /\ UNCHANGED upto
  /\ UNCHANGED <<map, answer, at, path, listing, calls>>

\* map_singleton of what is left of the key.
Single ==
  /\ call.name = "single"
  /\ IF upto > at
     THEN Make(Char(call.key[upto], 0, node, 0)) /\ upto' = upto - 1 /\ UNCHANGED call
     ELSE Goto("rebuild") /\ UNCHANGED <<cells, node, upto>>
  /\ UNCHANGED <<map, answer, at, path, listing, calls>>

\* Seeded fault: the binding goes with all that is below it.
RemoveBelow ==
  /\ call.name = "remove" /\ Stopped
  /\ node' = IF Cell(node).tag = "char" THEN node ELSE 0
  /\ Goto("rebuild") /\ UNCHANGED <<cells, map, answer, at, path, upto, listing, calls>>

\* map_remove
RemoveHere ==
  /\ call.name = "remove" /\ Stopped
  /\ node' = IF Cell(node).tag = "end" THEN Cell(node).rest ELSE node
  /\ Goto("rebuild") /\ UNCHANGED <<cells, map, answer, at, path, upto, listing, calls>>

\* A node with another child.
Copy(c, step, p) ==
  IF step = "rest" THEN End(c.value, p)
  ELSE Char(c.code, IF step = "less" THEN p ELSE c.less,
                    IF step = "same" THEN p ELSE c.same,
                    IF step = "greater" THEN p ELSE c.greater)
\* map_rebuild
Rebuild ==
  /\ call.name = "rebuild" /\ path # << >>
  /\ Make(Copy(Cell(Head(path).node), Head(path).step, node))
  /\ path' = Tail(path) /\ UNCHANGED <<map, answer, call, at, upto, listing, calls>>

Rebuilt ==
  /\ call.name = "rebuild" /\ path = << >>
  /\ map' = node /\ Return /\ UNCHANGED <<cells, answer, listing, calls>>

\* map_bindings, over a work stack; map_size is the length of its answer.
Work(p, prefix) == [node |-> p, prefix |-> prefix]
BeginBindings ==
  /\ call = Idle /\ calls < Calls /\ calls' = calls + 1
  /\ call' = [name |-> "bindings"] /\ todo' = << Work(map, << >>) >> /\ out' = << >>
  /\ UNCHANGED <<cells, map, answer, walk, upto>>

\* Seeded fault: the longer keys come last.
UnderAside(w, c) ==
  CASE c.tag = "empty" -> << >>
    [] c.tag = "end"   -> << Work(c.rest, w.prefix) >>
    [] c.tag = "char"  -> << Work(c.less, w.prefix), Work(c.greater, w.prefix),
                             Work(c.same, Append(w.prefix, c.code)) >>

Under(w, c) ==
  CASE c.tag = "empty" -> << >>
    [] c.tag = "end"   -> << Work(c.rest, w.prefix) >>
    [] c.tag = "char"  -> << Work(c.less, w.prefix), Work(c.same, Append(w.prefix, c.code)),
                             Work(c.greater, w.prefix) >>

Visit ==
  /\ call.name = "bindings" /\ todo # << >>
  /\ LET w == Head(todo)
         c == Cell(w.node)
     IN  /\ out' = IF c.tag = "end" THEN Append(out, <<w.prefix, c.value>>) ELSE out
         /\ todo' = Under(w, c) \o Tail(todo)
  /\ UNCHANGED <<cells, map, answer, call, walk, upto, calls>>

BindingsDone ==
  /\ call.name = "bindings" /\ todo = << >>
  /\ call' = Idle /\ out' = << >> /\ UNCHANGED <<cells, map, answer, walk, upto, todo, calls>>

Next ==
  \/ \E key \in Keys : Begin("get", key, Missing) \/ Begin("remove", key, Missing)
  \/ \E key \in Keys, value \in Values : Begin("insert", key, value)
  \/ Descend \/ GetDone \/ InsertHere \/ Single \/ RemoveHere \/ Rebuild \/ Rebuilt
  \/ BeginBindings \/ Visit \/ BindingsDone
Spec == Init /\ [][Next]_vars

-----------------------------------------------------------------------------
\* The bindings the nodes of a heap stand for, read off their shape alone.
Longer(code, bs) == {<< <<code>> \o b[1], b[2] >> : b \in bs}
Held(c, bound) ==
  IF c.tag = "end" THEN {<< << >>, c.value >>} \cup bound[c.rest]
  ELSE bound[c.less] \cup Longer(c.code, bound[c.same]) \cup bound[c.greater]
BoundIn(h) ==
  LET bound[p \in 0 .. Len(h)] == IF p = 0 THEN {} ELSE Held(h[p], bound) IN bound
Bound(p) == BoundIn(cells)[p]

Sole(vs) == IF vs = {} THEN Missing ELSE CHOOSE v \in vs : vs = {v}
Content ==
  LET bound == Bound(map)
  IN  [k \in Keys |-> Sole({b[2] : b \in {c \in bound : c[1] = k}})]

\* The trie implements the map: a call changes what its key means and nothing
\* else, however many nodes it copies, and get answers what was put there last.
Abstract == INSTANCE KeyMap WITH content <- Content
ImplementsKeyMap == Abstract!Spec

\* text_compare on two keys.
Before(a, b) ==
  \E i \in 1 .. Len(b) :
    /\ i <= Len(a) + 1 /\ \A j \in 1 .. i - 1 : a[j] = b[j]
    /\ i = Len(a) + 1 \/ a[i] < b[i]
\* map_bindings lists every binding once, in the order of text_compare, which
\* is the order constructors are searched for in the families.
BindingsInOrder ==
  call.name = "bindings" =>
    /\ \A i, j \in DOMAIN out : i < j => Before(out[i][1], out[j][1])
    /\ todo = << >> => {out[i] : i \in DOMAIN out} = Bound(map)
=============================================================================

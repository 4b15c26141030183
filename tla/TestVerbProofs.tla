--------------------------- MODULE TestVerbProofs ---------------------------
(***************************************************************************)
(* What the rows and the exit code of the test verb say, for every tree,   *)
(* every argument list and any number of changes to the tree.              *)
(***************************************************************************)
EXTENDS TestVerb, FiniteSetTheorems, TLAPS

Names3 == {"opendir", "lstat", "stat"}
Calls == [do : Names3, node : Node]
Loops == {f \in [do : {"entries"}, node : Node, left : SUBSET Nat] :
            f.left \subseteq DOMAIN Children[f.node]}
SourceLoops == [do : {"source"}, node : Sources, mode : 1 .. Len(Modes) + 1, before : Nat]
Frames == Calls \cup Loops \cup SourceLoops
Lines == [arg : DOMAIN Args, node : Node, what : Mode \cup Whys, ok : BOOLEAN]

TypeOK ==
  /\ kind \in [Node -> Kinds] /\ \A n \in Node : kind[n] \in KindsOf[n]
  /\ golden \in [Sources -> [Mode -> Goldens]]
  /\ changes \in Nat /\ disturbed \subseteq Node
  /\ phase \in {"paths", "next", "walk", "done"}
  /\ arg \in 1 .. Len(Args) + 1 /\ (phase = "walk" => arg \in DOMAIN Args)
  /\ before \in Nat /\ work \in Seq(Frames)
  /\ runs \in Nat /\ passes \in Nat /\ fails \in Nat /\ rows \in Seq(Lines)
  /\ expect \in Nat /\ exit \in {"none", "usage", "ok", "fail"}

-----------------------------------------------------------------------------
(***************************************************************************)
(* The tree and the stack.                                                 *)
(***************************************************************************)

\* What is in a sequence is at one of its places.
LEMMA ArgsFacts ==
  /\ Args \in Seq(Node) /\ Len(Args) \in Nat /\ DOMAIN Args = 1 .. Len(Args)
  /\ \A i \in DOMAIN Args : Args[i] \in Node
  /\ 1 \in DOMAIN Args
<1>1. Args \in Seq(Node) /\ Args # << >>  BY CommandAssumption
<1> QED  BY <1>1

LEMMA ModesFacts ==
  /\ Len(Modes) \in Nat /\ DOMAIN Modes = 1 .. Len(Modes)
  /\ \A j \in DOMAIN Modes : Modes[j] \in Mode
<1>1. Modes \in Seq(Mode)  BY CommandAssumption
<1> QED  BY <1>1

\* A call goes on: the frames above stay as they were, further down or up.
Moved(j, more) == j + Len(more) - 1
Came(k, more) == k - Len(more) + 1
LEMMA StackPlaces ==
  ASSUME NEW w \in Seq(Frames), w # << >>, NEW more \in Seq(Frames)
  PROVE  /\ Head(w) \in Frames /\ Head(w) = w[1] /\ 1 \in DOMAIN w
         /\ more \o Tail(w) \in Seq(Frames)
         /\ \A j \in DOMAIN more : j \in DOMAIN (more \o Tail(w)) /\ (more \o Tail(w))[j] = more[j]
         /\ \A j \in DOMAIN w \ {1} :
              Moved(j, more) \in DOMAIN (more \o Tail(w)) /\ (more \o Tail(w))[Moved(j, more)] = w[j]
         /\ \A k \in DOMAIN (more \o Tail(w)) \ DOMAIN more :
              Came(k, more) \in DOMAIN w \ {1} /\ (more \o Tail(w))[k] = w[Came(k, more)]
         /\ \A k, l \in DOMAIN (more \o Tail(w)) : Came(k, more) = Came(l, more) => k = l
<1> DEFINE t == Tail(w)  all == more \o t
<1>1. t \in Seq(Frames) /\ Len(t) = Len(w) - 1 /\ \A j \in 1 .. Len(t) : t[j] = w[j + 1]
  OBVIOUS
<1>2. Len(w) \in Nat /\ Len(w) >= 1 /\ DOMAIN w = 1 .. Len(w) /\ Head(w) = w[1] /\ w[1] \in Frames
  OBVIOUS
<1>3. /\ all \in Seq(Frames) /\ Len(all) = Len(more) + Len(t) /\ DOMAIN all = 1 .. Len(all)
      /\ Len(more) \in Nat /\ DOMAIN more = 1 .. Len(more)
      /\ \A k \in 1 .. Len(all) : all[k] = IF k <= Len(more) THEN more[k] ELSE t[k - Len(more)]
  BY <1>1
<1> HIDE DEF t, all
<1>4. \A j \in DOMAIN more : j \in DOMAIN all /\ all[j] = more[j]
  BY <1>1, <1>2, <1>3
<1>5. ASSUME NEW j \in DOMAIN w \ {1}
      PROVE  Moved(j, more) \in DOMAIN all /\ all[Moved(j, more)] = w[j]
  <2> DEFINE k == j + Len(more) - 1
  <2>1. k \in 1 .. Len(all) /\ k > Len(more) /\ k - Len(more) = j - 1 /\ j - 1 \in 1 .. Len(t)
    BY <1>1, <1>2, <1>3
  <2>2. t[j - 1] = w[j]
    <3> DEFINE i == j - 1
    <3>1. i \in 1 .. Len(t) /\ i + 1 = j  BY <2>1, <1>2
    <3> QED  BY <3>1, <1>1
  <2> QED  BY <2>1, <2>2, <1>3 DEF Moved
<1>6. ASSUME NEW k \in DOMAIN all \ DOMAIN more
      PROVE  Came(k, more) \in DOMAIN w \ {1} /\ all[k] = w[Came(k, more)]
  <2> DEFINE j == k - Len(more) + 1
  <2>1. j \in DOMAIN w \ {1} /\ k - Len(more) \in 1 .. Len(t)
    BY <1>1, <1>2, <1>3
  <2>2. all[k] = t[k - Len(more)]
    BY <1>3
  <2>3. t[k - Len(more)] = w[j]
    <3> DEFINE i == k - Len(more)
    <3>1. i \in 1 .. Len(t) /\ i + 1 = j  BY <2>1, <1>2, <1>3
    <3> QED  BY <3>1, <1>1
  <2> QED  BY <2>1, <2>2, <2>3 DEF Came
<1>7. \A k, l \in DOMAIN all : Came(k, more) = Came(l, more) => k = l
  BY <1>1, <1>2, <1>3 DEF Came
<1>8. Head(w) \in Frames /\ Head(w) = w[1] /\ 1 \in DOMAIN w /\ all \in Seq(Frames)
  BY <1>2, <1>3
<1> QED  BY <1>4, <1>5, <1>6, <1>7, <1>8 DEF all, t

OnTop(more, w, all) == all = more \o Tail(w)
LEMMA StackFacts ==
  ASSUME NEW w \in Seq(Frames), w # << >>, NEW more \in Seq(Frames),
         NEW all, OnTop(more, w, all)
  PROVE  /\ Head(w) \in Frames /\ Head(w) = w[1] /\ 1 \in DOMAIN w
         /\ all \in Seq(Frames)
         /\ \A j \in DOMAIN more : j \in DOMAIN all /\ all[j] = more[j]
         /\ \A j \in DOMAIN w \ {1} : Moved(j, more) \in DOMAIN all /\ all[Moved(j, more)] = w[j]
         /\ \A k \in DOMAIN all \ DOMAIN more : Came(k, more) \in DOMAIN w \ {1} /\ all[k] = w[Came(k, more)]
         /\ \A k, l \in DOMAIN all : Came(k, more) = Came(l, more) => k = l
BY StackPlaces DEF OnTop

-----------------------------------------------------------------------------
(***************************************************************************)
(* Types.                                                                  *)
(***************************************************************************)
LEMMA FrameTypes ==
  ASSUME TypeOK
  PROVE  /\ \A what \in Names3, n \in Node : Call(what, n) \in Frames
         /\ \A d \in Node : Loop(d) \in Frames
         /\ \A n \in Node : SourceWork(n) \in Seq(Frames)
         /\ \A n \in Node : Dir(n) \in Node
<1>1. \A what \in Names3, n \in Node : Call(what, n) \in Frames
  BY DEF Call, Frames, Calls
<1>2. ASSUME NEW d \in Node PROVE Loop(d) \in Frames
  <2>1. Children[d] \in Seq(Node)  BY TreeAssumption
  <2>2. DOMAIN Children[d] \subseteq Nat  BY <2>1
  <2>3. Listing(d) \subseteq DOMAIN Children[d]  BY DEF Listing
  <2> QED  BY <2>2, <2>3 DEF Loop, Frames, Loops
<1>3. ASSUME NEW n \in Node PROVE SourceWork(n) \in Seq(Frames)
  <2>1. CASE n \in Sources
    <3> DEFINE f == [do |-> "source", node |-> n, mode |-> 1, before |-> runs]
    <3>1. f \in Frames  BY <2>1, ModesFacts DEF TypeOK, Frames, SourceLoops
    <3>2. SourceWork(n) = << f >>  BY <2>1 DEF SourceWork
    <3> HIDE DEF f
    <3> QED  BY <3>1, <3>2
  <2>2. CASE n \notin Sources  BY <2>2 DEF SourceWork
  <2> QED  BY <2>1, <2>2
<1>4. \A n \in Node : Dir(n) \in Node  BY FilesAssumption DEF Dir
<1> QED  BY <1>1, <1>2, <1>3, <1>4

LEMMA RowTypes ==
  ASSUME TypeOK, arg \in DOMAIN Args, NEW n \in Node, NEW what \in Mode \cup Whys, NEW ok \in BOOLEAN
  PROVE  Row(n, what, ok) \in Lines
BY DEF Row, Lines

LEMMA ReportTypes ==
  ASSUME TypeOK, NEW row \in Lines, Report(row)
  PROVE  /\ runs' = runs + 1 /\ rows' = Append(rows, row)
         /\ runs' \in Nat /\ passes' \in Nat /\ fails' \in Nat /\ rows' \in Seq(Lines)
         /\ fails' >= fails /\ (row.ok = FALSE => fails' > 0)
<1>1. rows' \in Seq(Lines)
  <2>1. rows \in Seq(Lines)  BY DEF TypeOK
  <2> QED  BY <2>1 DEF Report
<1>2. row.ok \in BOOLEAN  BY DEF Lines
<1> QED  BY <1>1, <1>2 DEF Report, TypeOK

\* The frame at the head, and what doing it means.
LEMMA HeadFacts ==
  ASSUME TypeOK, NEW what, Doing(what)
  PROVE  /\ phase = "walk" /\ work # << >> /\ Frame \in Frames /\ Frame.do = what
         /\ Now \in Node /\ Here \in Node /\ arg \in DOMAIN Args
         /\ what \in Names3 => Frame \in Calls
         /\ what = "entries" => Frame \in Loops
         /\ what = "source" => Frame \in SourceLoops
<1>1. work \in Seq(Frames) /\ work # << >> /\ phase = "walk" /\ Frame.do = what
  BY DEF Doing, TypeOK
<1>2. Frame \in Frames  BY <1>1, StackPlaces DEF Frame
<1>3. Frame \in Calls \/ Frame \in Loops \/ Frame \in SourceLoops  BY <1>2 DEF Frames
<1>4. Now \in Node  BY <1>3, FilesAssumption DEF Now, Calls, Loops, SourceLoops
<1>5. arg \in DOMAIN Args /\ Here \in Node  BY <1>1, ArgsFacts DEF TypeOK, Here
<1> QED  BY <1>1, <1>2, <1>3, <1>4, <1>5 DEF Calls, Loops, SourceLoops, Names3

-----------------------------------------------------------------------------
(***************************************************************************)
(* What a frame may still tell: claims, pairs of a name and of what a row  *)
(* says of it.                                                             *)
(***************************************************************************)
DirIn(k, n) == IF k[n] = "dirlink" THEN Target[n] ELSE n
Below(n) == {m \in Node : n \in Above[m]}
Sub(n) == {n} \cup Below(n)
All(ns) == ns \X (Mode \cup Whys)
Claims(k, f) ==
  CASE f.do = "opendir" -> All({f.node} \cup Below(DirIn(k, f.node)))
    [] f.do = "entries" -> All(UNION {Sub(Children[f.node][i]) : i \in f.left})
    [] f.do = "source" -> {f.node} \X ({"no goldens"} \cup {Modes[j] : j \in f.mode .. Len(Modes)})
    [] OTHER -> All(Sub(f.node))
Apart(k, w) == \A i, j \in DOMAIN w : i # j => Claims(k, w[i]) \cap Claims(k, w[j]) = {}

\* The entries of a directory share nothing, and are below it.
LEMMA Siblings ==
  ASSUME NEW d \in Node, NEW i \in DOMAIN Children[d]
  PROVE  /\ Children[d][i] \in Node /\ Sub(Children[d][i]) \subseteq Below(d)
         /\ \A j \in DOMAIN Children[d] : i # j => Sub(Children[d][i]) \cap Sub(Children[d][j]) = {}
<1> DEFINE c(j) == Children[d][j]
<1>1. Children[d] \in Seq(Node)  BY TreeAssumption
<1>2. \A j \in DOMAIN Children[d] : c(j) \in Node /\ Above[c(j)] = {d} \cup Above[d]
  BY <1>1, TreeAssumption
<1>3. \A m \in Node : m \notin Above[m] /\ \A p \in Above[m] : p \in Node /\ Above[p] \subseteq Above[m]
  BY TreeAssumption
<1>4. ASSUME NEW m \in Sub(c(i)) PROVE m \in Below(d)
  <2>1. CASE m = c(i)  BY <2>1, <1>2 DEF Below
  <2>2. CASE m \in Below(c(i))
    <3>1. m \in Node /\ Above[c(i)] \subseteq Above[m]  BY <2>2, <1>3 DEF Below
    <3> QED  BY <3>1, <1>2 DEF Below
  <2> QED  BY <1>4, <2>1, <2>2 DEF Sub
<1>5. ASSUME NEW j \in DOMAIN Children[d], i # j, NEW m \in Sub(c(i)), m \in Sub(c(j)) PROVE FALSE
  <2>1. c(i) # c(j)  BY <1>5, TreeAssumption
  <2>2. ASSUME NEW u \in Node, NEW v \in Node, Above[u] = {d} \cup Above[d], Above[v] = {d} \cup Above[d],
               u \in Above[v]
        PROVE  FALSE
    <3>1. CASE u = d
      <4>1. d \in Above[d]  BY <2>2, <3>1
      <4> QED  BY <4>1, <1>3
    <3>2. CASE u \in Above[d]
      <4>1. d \in Above[d]  BY <2>2, <3>2, <1>3
      <4> QED  BY <4>1, <1>3
    <3> QED  BY <2>2, <3>1, <3>2
  <2>3. c(i) \notin Above[c(j)] /\ c(j) \notin Above[c(i)]  BY <2>2, <1>2
  <2>4. m # c(i) /\ m # c(j)  BY <2>1, <2>3, <1>5 DEF Sub, Below
  <2>5. m \in Node /\ c(i) \in Above[m] /\ c(j) \in Above[m]  BY <2>4, <1>5 DEF Sub, Below
  <2>6. c(i) = c(j) \/ c(i) \in Above[c(j)] \/ c(j) \in Above[c(i)]  BY <2>5, TreeAssumption
  <2> QED  BY <2>1, <2>3, <2>6
<1>6. \A j \in DOMAIN Children[d] : i # j => Sub(c(i)) \cap Sub(c(j)) = {}  BY <1>5
<1> QED  BY <1>2, <1>4, <1>6

LEMMA ClaimForms ==
  ASSUME NEW k
  PROVE  /\ \A f : f.do = "opendir" => Claims(k, f) = All({f.node} \cup Below(DirIn(k, f.node)))
         /\ \A f : f.do \in {"lstat", "stat"} => Claims(k, f) = All(Sub(f.node))
         /\ \A f : f.do = "entries" => Claims(k, f) = All(UNION {Sub(Children[f.node][i]) : i \in f.left})
         /\ \A f : f.do = "source" =>
              Claims(k, f) = {f.node} \X ({"no goldens"} \cup {Modes[j] : j \in f.mode .. Len(Modes)})
BY DEF Claims

\* The frames of a walk, after a step, tell no more than before, each of its own.
Goes(more) ==
  /\ GoOn(more) /\ Doing(Frame.do)
  /\ \A j \in DOMAIN more : j # 1 => more[j].do # "source"
  /\ \A j \in DOMAIN more : Claims(kind, more[j]) \subseteq Claims(kind, Frame)
  /\ Apart(kind, more)
  /\ \/ UNCHANGED counts
     \/ \E row \in Lines :
          /\ Report(row) /\ row.arg = arg /\ (row.ok => row.what \in Mode)
          /\ <<row.node, row.what>> \in Claims(kind, Frame)
          /\ \A j \in DOMAIN more : <<row.node, row.what>> \notin Claims(kind, more[j])

LEMMA GoesOne ==
  ASSUME TypeOK, NEW what, Doing(what), NEW f \in Frames, Claims(kind, f) \subseteq Claims(kind, Frame),
         GoOn(<< f >>), UNCHANGED counts
  PROVE  Goes(<< f >>)
<1>1. Doing(Frame.do)  BY DEF Doing
<1>2. DOMAIN << f >> = {1} /\ << f >>[1] = f  OBVIOUS
<1> QED  BY <1>1, <1>2 DEF Goes, Apart

LEMMA GoesFail ==
  ASSUME TypeOK, NEW what, Doing(what), NEW why \in Whys, <<Now, why>> \in Claims(kind, Frame),
         GoOn(<< >>), Fail(Now, why)
  PROVE  Goes(<< >>) /\ fails' > 0
<1>1. Doing(Frame.do)  BY DEF Doing
<1>2. arg \in DOMAIN Args /\ Now \in Node  BY HeadFacts
<1> DEFINE row == Row(Now, why, FALSE)
<1>3. row \in Lines  BY <1>2, RowTypes
<1>4. row.arg = arg /\ row.node = Now /\ row.what = why /\ row.ok = FALSE  BY DEF Row
<1>5. Report(row)  BY DEF Fail
<1> HIDE DEF row
<1>6. fails' > 0  BY <1>3, <1>4, <1>5, ReportTypes
<1>7. DOMAIN << >> = {}  OBVIOUS
<1> QED  BY <1>1, <1>3, <1>4, <1>5, <1>6, <1>7 DEF Goes, Apart

LEMMA GoesSource ==
  ASSUME TypeOK, NEW what \in {"lstat", "stat"}, Doing(what),
         GoOn(SourceWork(Now)), UNCHANGED counts
  PROVE  Goes(SourceWork(Now))
<1>1. Doing(Frame.do) /\ Frame.do = what  BY DEF Doing
<1>2. Claims(kind, Frame) = All(Sub(Now))  BY <1>1 DEF Now, Claims
<1>3. CASE Now \notin Sources
  <2>1. SourceWork(Now) = << >> /\ DOMAIN << >> = {}  BY <1>3 DEF SourceWork
  <2> QED  BY <1>1, <2>1 DEF Goes, Apart
<1>4. CASE Now \in Sources
  <2> DEFINE f == [do |-> "source", node |-> Now, mode |-> 1, before |-> runs]
  <2>1. SourceWork(Now) = << f >>  BY <1>4 DEF SourceWork
  <2>2. f \in Frames  BY <1>4, ModesFacts DEF TypeOK, Frames, SourceLoops
  <2>3. f.do = "source" /\ f.node = Now /\ f.mode = 1  OBVIOUS
  <2>4. Claims(kind, f) = {Now} \X ({"no goldens"} \cup {Modes[j] : j \in 1 .. Len(Modes)})
    BY <2>3, ClaimForms
  <2>5. Claims(kind, f) \subseteq All(Sub(Now))  BY <2>4, ModesFacts DEF All, Sub, Whys
  <2> HIDE DEF f
  <2> QED  BY <2>1, <2>2, <2>5, <1>2, GoesOne
<1> QED  BY <1>3, <1>4

LEMMA GoesNone ==
  ASSUME TypeOK, NEW what, Doing(what), GoOn(<< >>), UNCHANGED counts
  PROVE  Goes(<< >>)
<1>1. Doing(Frame.do) /\ DOMAIN << >> = {}  BY DEF Doing
<1> QED  BY <1>1 DEF Goes, Apart

LEMMA NoneIsStack == << >> \in Seq(Frames)
OBVIOUS

LEMMA OneIsStack ==
  ASSUME NEW f \in Frames
  PROVE  << f >> \in Seq(Frames) /\ DOMAIN << f >> = {1} /\ << f >>[1] = f
OBVIOUS

LEMMA OpenDirectoryGoes ==
  ASSUME TypeOK, OpenDirectory
  PROVE  \/ Opens(Here, Now) /\ Loop(Dir(Now)) \in Frames /\ Goes(<< Loop(Dir(Now)) >>)
         \/ ~Opens(Here, Now) /\ Goes(<< >>) /\ fails' > 0
<1>1. Doing("opendir") /\ Now \in Node /\ Frame.do = "opendir"  BY HeadFacts DEF OpenDirectory
<1>2. Claims(kind, Frame) = All({Now} \cup Below(Dir(Now)))
  BY <1>1 DEF Claims, Now, Dir, DirIn
<1>3. CASE Opens(Here, Now)
  <2> DEFINE d == Dir(Now)
  <2>1. d \in Node /\ Loop(d) \in Frames  BY <1>1, FrameTypes
  <2> HIDE DEF d
  <2>2. Claims(kind, Loop(d)) = All(UNION {Sub(Children[d][i]) : i \in Listing(d)})
    BY DEF Claims, Loop
  <2>3. ASSUME NEW m \in UNION {Sub(Children[d][i]) : i \in Listing(d)} PROVE m \in Below(d)
    <3>1. PICK i \in Listing(d) : m \in Sub(Children[d][i])  BY <2>3
    <3> QED  BY <2>1, <3>1, Siblings DEF Listing
  <2>4. Claims(kind, Loop(d)) \subseteq Claims(kind, Frame)
    BY <1>2, <2>2, <2>3 DEF All, d
  <2>5. GoOn(<< Loop(d) >>) /\ UNCHANGED counts  BY <1>3 DEF OpenDirectory, d
  <2>6. Goes(<< Loop(d) >>)  BY <1>1, <2>1, <2>4, <2>5, GoesOne
  <2> QED  BY <1>3, <2>1, <2>6 DEF d
<1>4. CASE ~Opens(Here, Now)
  <2>1. GoOn(<< >>) /\ Fail(Now, "directory")  BY <1>4 DEF OpenDirectory
  <2>2. <<Now, "directory">> \in Claims(kind, Frame)  BY <1>2 DEF All, Whys
  <2> QED  BY <1>1, <1>4, <2>1, <2>2, GoesFail DEF Whys
<1> QED  BY <1>3, <1>4

\* The frames after the next entry is taken.
Rest(i) == [Frame EXCEPT !.left = @ \ {i}]
LEMMA NextEntryGoes ==
  ASSUME TypeOK, NextEntry
  PROVE  /\ Frame \in Loops
         /\ \/ Frame.left = {} /\ Goes(<< >>) /\ UNCHANGED counts
            \/ \E i \in Frame.left :
                 /\ i \in DOMAIN Children[Now]
                 /\ Call("lstat", Children[Now][i]) \in Frames /\ Rest(i) \in Frames
                 /\ Rest(i).do = "entries" /\ Rest(i).node = Now /\ Rest(i).left = Frame.left \ {i}
                 /\ << Call("lstat", Children[Now][i]), Rest(i) >> \in Seq(Frames)
                 /\ Goes(<< Call("lstat", Children[Now][i]), Rest(i) >>) /\ UNCHANGED counts
<1>1. Doing("entries") /\ Now \in Node /\ Frame.do = "entries" /\ Frame \in Loops /\ Frame.node = Now
  BY HeadFacts DEF NextEntry, Now
<1>2. Claims(kind, Frame) = All(UNION {Sub(Children[Now][i]) : i \in Frame.left})
  BY <1>1 DEF Claims
<1>3. Frame.left \subseteq DOMAIN Children[Now]  BY <1>1 DEF Loops
<1>4. CASE Frame.left = {} /\ GoOn(<< >>)
  BY <1>1, <1>4, GoesNone DEF NextEntry
<1>5. ASSUME NEW i \in Frame.left, GoOn(<< Call("lstat", Children[Now][i]), Rest(i) >>)
      PROVE  /\ i \in DOMAIN Children[Now]
             /\ Call("lstat", Children[Now][i]) \in Frames /\ Rest(i) \in Frames
             /\ Rest(i).do = "entries" /\ Rest(i).node = Now /\ Rest(i).left = Frame.left \ {i}
             /\ << Call("lstat", Children[Now][i]), Rest(i) >> \in Seq(Frames)
             /\ Goes(<< Call("lstat", Children[Now][i]), Rest(i) >>)
  <2> DEFINE c == Call("lstat", Children[Now][i])  r == Rest(i)
  <2>1. i \in DOMAIN Children[Now] /\ Children[Now][i] \in Node  BY <1>1, <1>3, Siblings
  <2>2. c \in Frames  BY <2>1, FrameTypes DEF Names3
  <2>3. /\ r \in [do : {"entries"}, node : Node, left : SUBSET Nat]
        /\ r.do = "entries" /\ r.node = Now /\ r.left = Frame.left \ {i}
    BY <1>1 DEF Loops, Rest
  <2>4. r \in Frames  BY <2>3, <1>3 DEF Loops, Frames
  <2>5. Claims(kind, c) = All(Sub(Children[Now][i]))  BY DEF Claims, Call
  <2> HIDE DEF c, r
  <2>6. Claims(kind, r) = All(UNION {Sub(Children[Now][j]) : j \in Frame.left \ {i}})
    BY <2>3 DEF Claims
  <2>7. Claims(kind, c) \subseteq Claims(kind, Frame) /\ Claims(kind, r) \subseteq Claims(kind, Frame)
    BY <1>2, <2>5, <2>6 DEF All
  <2>8. \A j \in Frame.left \ {i} : Sub(Children[Now][i]) \cap Sub(Children[Now][j]) = {}
    BY <1>1, <1>3, <2>1, Siblings
  <2>9. Claims(kind, c) \cap Claims(kind, r) = {}
    <3>1. Sub(Children[Now][i]) \cap UNION {Sub(Children[Now][j]) : j \in Frame.left \ {i}} = {}
      BY <2>8
    <3> QED  BY <2>5, <2>6, <3>1 DEF All
  <2>10. << c, r >> \in Seq(Frames) /\ DOMAIN << c, r >> = {1, 2} /\ << c, r >>[1] = c /\ << c, r >>[2] = r
    BY <2>2, <2>4
  <2>11. Apart(kind, << c, r >>)  BY <2>9, <2>10 DEF Apart
  <2>12. Doing(Frame.do)  BY <1>1
  <2>13. Goes(<< c, r >>)
    BY <1>5, <2>3, <2>7, <2>10, <2>11, <2>12 DEF Goes, NextEntry, c, r
  <2> QED  BY <2>1, <2>2, <2>3, <2>4, <2>10, <2>13 DEF c, r
<1> QED  BY <1>1, <1>4, <1>5 DEF NextEntry, Rest

LEMMA EntryGoes ==
  ASSUME TypeOK, Entry
  PROVE  /\ Doing("lstat")
         /\ \/ Found(Here, Now) = "absent" /\ Goes(<< >>) /\ fails' > 0
            \/ /\ Found(Here, Now) \in {"dir", "locked"}
               /\ Call("opendir", Now) \in Frames /\ Goes(<< Call("opendir", Now) >>) /\ UNCHANGED counts
            \/ /\ Found(Here, Now) \in {"dirlink", "filelink", "dangling"}
               /\ Call("stat", Now) \in Frames /\ Goes(<< Call("stat", Now) >>) /\ UNCHANGED counts
            \/ Found(Here, Now) = "file" /\ Goes(SourceWork(Now)) /\ UNCHANGED counts
<1>1. Doing("lstat") /\ Now \in Node /\ Frame.do = "lstat"  BY HeadFacts DEF Entry
<1>2. Claims(kind, Frame) = All(Sub(Now))  BY <1>1 DEF Claims, Now
<1>3. CASE Found(Here, Now) = "absent" /\ GoOn(<< >>) /\ Fail(Now, "stat")
  <2>1. <<Now, "stat">> \in Claims(kind, Frame)  BY <1>2 DEF All, Sub, Whys
  <2>2. "stat" \in Whys  BY DEF Whys
  <2> QED  BY <1>1, <1>3, <2>1, <2>2, GoesFail
<1>4. CASE Found(Here, Now) \in {"dir", "locked"} /\ GoOn(<< Call("opendir", Now) >>) /\ UNCHANGED counts
  <2>1. Call("opendir", Now) \in Frames  BY <1>1, FrameTypes DEF Names3
  <2>2. kind[Now] # "dirlink"  BY <1>4 DEF Found
  <2>3. Claims(kind, Call("opendir", Now)) = All(Sub(Now))  BY <2>2 DEF Claims, Call, DirIn, Sub
  <2> QED  BY <1>1, <1>2, <1>4, <2>1, <2>3, GoesOne
<1>5. CASE Found(Here, Now) \in {"dirlink", "filelink", "dangling"} /\ GoOn(<< Call("stat", Now) >>) /\ UNCHANGED counts
  <2>1. Call("stat", Now) \in Frames  BY <1>1, FrameTypes DEF Names3
  <2>2. Claims(kind, Call("stat", Now)) = All(Sub(Now))  BY DEF Claims, Call
  <2> QED  BY <1>1, <1>2, <1>5, <2>1, <2>2, GoesOne
<1>6. CASE Found(Here, Now) = "file" /\ GoOn(SourceWork(Now)) /\ UNCHANGED counts
  BY <1>1, <1>6, GoesSource
<1> QED  BY <1>1, <1>3, <1>4, <1>5, <1>6 DEF Entry

LEMMA LinkGoes ==
  ASSUME TypeOK, Link
  PROVE  /\ Doing("stat")
         /\ \/ Found(Here, Now) \notin {"file", "filelink"} /\ Goes(<< >>) /\ fails' > 0
            \/ Found(Here, Now) \in {"file", "filelink"} /\ Goes(SourceWork(Now)) /\ UNCHANGED counts
<1>1. Doing("stat") /\ Now \in Node /\ Frame.do = "stat"  BY HeadFacts DEF Link
<1>2. Claims(kind, Frame) = All(Sub(Now))  BY <1>1 DEF Claims, Now
<1>3. ASSUME NEW why \in {"stat", "symlink"}, GoOn(<< >>), Fail(Now, why)
      PROVE  Goes(<< >>) /\ fails' > 0
  <2>1. why \in Whys /\ <<Now, why>> \in Claims(kind, Frame)  BY <1>2 DEF All, Sub, Whys
  <2> QED  BY <1>1, <1>3, <2>1, GoesFail
<1>4. CASE Found(Here, Now) \in {"file", "filelink"} /\ GoOn(SourceWork(Now)) /\ UNCHANGED counts
  BY <1>1, <1>4, GoesSource
<1> QED  BY <1>1, <1>3, <1>4 DEF Link

\* The loop over the modes, once round.
NextLoop == [Frame EXCEPT !.mode = @ + 1]
LEMMA TestRowGoes ==
  ASSUME TypeOK, TestRow
  PROVE  /\ Doing("source") /\ Frame \in SourceLoops /\ Frame.mode \in DOMAIN Modes
         /\ ThisMode \in Mode /\ NextLoop \in SourceLoops /\ NextLoop.node = Now
         /\ NextLoop.mode = Frame.mode + 1 /\ NextLoop.before = Frame.before
         /\ Goes(<< NextLoop >>)
         /\ \E found \in GoldenFound(Here, Now, ThisMode) :
              \/ found = "none" /\ UNCHANGED counts
              \/ found = "unreadable" /\ Report(Row(Now, ThisMode, FALSE))
              \/ found \in {"same", "differs"}
                 /\ \E ok \in BOOLEAN :
                      /\ Readable(Here, Now) => ok = (found = "same")
                      /\ Report(Row(Now, ThisMode, ok))
<1>1. /\ Doing("source") /\ Now \in Node /\ Frame.do = "source" /\ Frame \in SourceLoops
      /\ arg \in DOMAIN Args /\ Frame.node = Now
  BY HeadFacts DEF TestRow, ModeLeft, Now
<1>2. Frame.mode <= Len(Modes)  BY DEF TestRow, ModeLeft
<1>3. Frame.mode \in DOMAIN Modes  BY <1>1, <1>2, ModesFacts DEF SourceLoops
<1>4. ThisMode \in Mode  BY <1>3, ModesFacts DEF ThisMode
<1>5. Claims(kind, Frame) = {Now} \X ({"no goldens"} \cup {Modes[j] : j \in Frame.mode .. Len(Modes)})
  BY <1>1 DEF Claims
<1> DEFINE f == NextLoop
<1>6. f \in SourceLoops /\ f.do = "source" /\ f.node = Now /\ f.mode = Frame.mode + 1 /\ f.before = Frame.before
  BY <1>1, <1>3, ModesFacts DEF SourceLoops, NextLoop
<1>7. GoOn(<< f >>)  BY DEF TestRow, NextMode, NextLoop
<1> HIDE DEF f
<1>8. Claims(kind, f) = {Now} \X ({"no goldens"} \cup {Modes[j] : j \in Frame.mode + 1 .. Len(Modes)})
  BY <1>6 DEF Claims
<1>9. Claims(kind, f) \subseteq Claims(kind, Frame)
  <2>1. Frame.mode + 1 .. Len(Modes) \subseteq Frame.mode .. Len(Modes)  BY <1>3, ModesFacts
  <2> QED  BY <1>5, <1>8, <2>1
<1>10. <<Now, ThisMode>> \in Claims(kind, Frame)
  <2>1. Frame.mode \in Frame.mode .. Len(Modes)  BY <1>3, ModesFacts
  <2>2. ThisMode \in {Modes[j] : j \in Frame.mode .. Len(Modes)}  BY <2>1 DEF ThisMode
  <2> QED  BY <1>5, <2>2
<1>11. <<Now, ThisMode>> \notin Claims(kind, f)
  <2>1. ThisMode # "no goldens"  BY <1>4, CommandAssumption DEF Whys
  <2>2. \A j \in Frame.mode + 1 .. Len(Modes) : Modes[j] # ThisMode
    BY <1>3, ModesFacts, CommandAssumption DEF ThisMode
  <2> QED  BY <1>8, <2>1, <2>2
<1>12. ASSUME NEW ok \in BOOLEAN, Report(Row(Now, ThisMode, ok)) PROVE Goes(<< f >>)
  <2> DEFINE row == Row(Now, ThisMode, ok)
  <2>1. row \in Lines  BY <1>1, <1>4, RowTypes
  <2>2. row.arg = arg /\ row.node = Now /\ row.what = ThisMode  BY DEF Row
  <2>3. Report(row)  BY <1>12
  <2> HIDE DEF row
  <2>4. DOMAIN << f >> = {1} /\ << f >>[1] = f  OBVIOUS
  <2>5. Doing(Frame.do)  BY <1>1
  <2> QED  BY <1>4, <1>7, <1>9, <1>10, <1>11, <2>1, <2>2, <2>3, <2>4, <2>5 DEF Goes, Apart
<1>13. ASSUME UNCHANGED counts PROVE Goes(<< f >>)
  BY <1>1, <1>6, <1>7, <1>9, <1>13, GoesOne DEF Frames
<1>14. PICK found \in GoldenFound(Here, Now, ThisMode) :
         \/ found = "none" /\ UNCHANGED counts
         \/ found = "unreadable" /\ Report(Row(Now, ThisMode, FALSE))
         \/ found \in {"same", "differs"}
            /\ \E ok \in BOOLEAN :
                 /\ Readable(Here, Now) => ok = (found = "same")
                 /\ Report(Row(Now, ThisMode, ok))
  BY DEF TestRow
<1>15. Goes(<< f >>)  BY <1>12, <1>13, <1>14
<1> QED  BY <1>1, <1>3, <1>4, <1>6, <1>14, <1>15 DEF f

LEMMA SourceDoneGoes ==
  ASSUME TypeOK, SourceDone
  PROVE  /\ Doing("source") /\ Frame \in SourceLoops /\ Frame.mode = Len(Modes) + 1 /\ Goes(<< >>)
         /\ IF runs = Frame.before THEN Fail(Now, "no goldens") ELSE UNCHANGED counts
<1>1. /\ Doing("source") /\ Frame.do = "source" /\ Frame \in SourceLoops /\ Frame.node = Now
  BY HeadFacts DEF SourceDone, Now
<1>2. Claims(kind, Frame) = {Now} \X ({"no goldens"} \cup {Modes[j] : j \in Frame.mode .. Len(Modes)})
  BY <1>1 DEF Claims
<1>3. <<Now, "no goldens">> \in Claims(kind, Frame)  BY <1>2
<1>4. GoOn(<< >>) /\ IF runs = Frame.before THEN Fail(Now, "no goldens") ELSE UNCHANGED counts
  BY DEF SourceDone
<1>5. Frame.mode = Len(Modes) + 1
  <2>1. Frame.mode \in 1 .. Len(Modes) + 1 /\ Frame.mode > Len(Modes)  BY <1>1 DEF SourceDone, SourceLoops
  <2> QED  BY <2>1, ModesFacts
<1>6. "no goldens" \in Whys  BY DEF Whys
<1>7. Goes(<< >>)
  <2>1. CASE runs = Frame.before  BY <1>1, <1>3, <1>4, <1>6, <2>1, GoesFail
  <2>2. CASE runs # Frame.before  BY <1>1, <1>4, <2>2, GoesNone
  <2> QED  BY <2>1, <2>2
<1> QED  BY <1>1, <1>4, <1>5, <1>7

\* The six actions of a walk, as one.
WalkStep == OpenDirectory \/ NextEntry \/ Entry \/ Link \/ TestRow \/ SourceDone

LEMMA WalkGoes ==
  ASSUME TypeOK, WalkStep
  PROVE  \E more \in Seq(Frames) : Goes(more)
<1>1. CASE OpenDirectory  BY <1>1, OpenDirectoryGoes, OneIsStack, NoneIsStack
<1>2. CASE NextEntry  BY <1>2, NextEntryGoes, NoneIsStack
<1>3. CASE Entry
  <2>1. Doing("lstat") /\ Now \in Node  BY <1>3, EntryGoes, HeadFacts
  <2> QED  BY <1>3, <2>1, EntryGoes, OneIsStack, NoneIsStack, FrameTypes
<1>4. CASE Link
  <2>1. Doing("stat") /\ Now \in Node  BY <1>4, LinkGoes, HeadFacts
  <2> QED  BY <1>4, <2>1, LinkGoes, NoneIsStack, FrameTypes
<1>5. CASE TestRow
  <2>1. NextLoop \in Frames /\ Goes(<< NextLoop >>)  BY <1>5, TestRowGoes DEF Frames
  <2> QED  BY <2>1, OneIsStack
<1>6. CASE SourceDone  BY <1>6, SourceDoneGoes, NoneIsStack
<1> QED  BY <1>1, <1>2, <1>3, <1>4, <1>5, <1>6 DEF WalkStep

LEMMA GoesTypes ==
  ASSUME TypeOK, NEW more \in Seq(Frames), Goes(more)
  PROVE  /\ TypeOK' /\ phase = "walk" /\ work # << >> /\ arg \in DOMAIN Args /\ Frame = Head(work)
         /\ work' = more \o Tail(work) /\ UNCHANGED <<tree, phase, arg, before, expect, exit>>
         /\ fails' >= fails
<1>1. /\ phase = "walk" /\ work # << >> /\ Frame = Head(work) /\ work' = more \o Tail(work)
      /\ UNCHANGED <<tree, phase, arg, before, expect, exit>>
  BY DEF Goes, GoOn, Doing, Frame
<1>2. work \in Seq(Frames) /\ arg \in DOMAIN Args  BY <1>1 DEF TypeOK
<1>3. work' \in Seq(Frames)  BY <1>1, <1>2, StackFacts DEF OnTop
<1>4. runs' \in Nat /\ passes' \in Nat /\ fails' \in Nat /\ rows' \in Seq(Lines) /\ fails' >= fails
  <2>1. CASE UNCHANGED counts  BY <2>1 DEF counts, TypeOK
  <2>2. ASSUME NEW row \in Lines, Report(row)
        PROVE  runs' \in Nat /\ passes' \in Nat /\ fails' \in Nat /\ rows' \in Seq(Lines) /\ fails' >= fails
    BY <2>2, ReportTypes
  <2> QED  BY <2>1, <2>2 DEF Goes
<1> QED  BY <1>1, <1>2, <1>3, <1>4 DEF TypeOK, tree

LEMMA GoesStack ==
  ASSUME TypeOK, NEW more \in Seq(Frames), Goes(more)
  PROVE  /\ Frame \in Frames /\ Frame = work[1] /\ 1 \in DOMAIN work
         /\ \A j \in DOMAIN more : j \in DOMAIN work' /\ work'[j] = more[j]
         /\ \A j \in DOMAIN work \ {1} :
              Moved(j, more) \in DOMAIN work' /\ work'[Moved(j, more)] = work[j]
         /\ \A k \in DOMAIN work' \ DOMAIN more :
              Came(k, more) \in DOMAIN work \ {1} /\ work'[k] = work[Came(k, more)]
         /\ \A k, l \in DOMAIN work' : Came(k, more) = Came(l, more) => k = l
<1>1. work \in Seq(Frames) /\ work # << >> /\ OnTop(more, work, work') /\ Frame = Head(work)
  BY GoesTypes DEF TypeOK, OnTop
<1> DEFINE w == work  all == work'
<1>2. w \in Seq(Frames) /\ w # << >> /\ OnTop(more, w, all) /\ Frame = Head(w)  BY <1>1
<1> HIDE DEF w, all
<1>3. /\ Head(w) \in Frames /\ Head(w) = w[1] /\ 1 \in DOMAIN w
      /\ \A j \in DOMAIN more : j \in DOMAIN all /\ all[j] = more[j]
      /\ \A j \in DOMAIN w \ {1} : Moved(j, more) \in DOMAIN all /\ all[Moved(j, more)] = w[j]
      /\ \A k \in DOMAIN all \ DOMAIN more : Came(k, more) \in DOMAIN w \ {1} /\ all[k] = w[Came(k, more)]
      /\ \A k, l \in DOMAIN all : Came(k, more) = Came(l, more) => k = l
  BY <1>2, StackFacts
<1> QED  BY <1>2, <1>3 DEF w, all

-----------------------------------------------------------------------------
LEMMA InitTypes == Init => TypeOK
<1> SUFFICES ASSUME Init PROVE TypeOK  OBVIOUS
<1>1. work \in Seq(Frames) /\ rows \in Seq(Lines)  BY DEF Init
<1>2. arg \in 1 .. Len(Args) + 1  BY ArgsFacts DEF Init
<1>3. expect \in Nat  BY CommandAssumption DEF Init
<1> QED  BY <1>1, <1>2, <1>3 DEF Init, TypeOK

LEMMA DisturbTypes ==
  ASSUME TypeOK, NEW n \in Node, Disturb(n)
  PROVE  TypeOK' /\ \A m \in Node : m # n => kind'[m] = kind[m] /\ (m \in Sources => golden'[m] = golden[m])
<1>1. CASE \E k \in KindsOf[n] : k # kind[n] /\ kind' = [kind EXCEPT ![n] = k] /\ UNCHANGED golden
  <2>1. PICK k \in KindsOf[n] : kind' = [kind EXCEPT ![n] = k] /\ UNCHANGED golden  BY <1>1
  <2>2. k \in Kinds  BY <2>1, FilesAssumption
  <2>3. kind' \in [Node -> Kinds] /\ \A m \in Node : kind'[m] \in KindsOf[m] /\ (m # n => kind'[m] = kind[m])
    BY <2>1, <2>2 DEF TypeOK
  <2> QED  BY <2>1, <2>3 DEF TypeOK, Disturb, counts
<1>2. CASE n \in Sources /\ UNCHANGED kind
           /\ \E m \in Mode : \E g \in GoldensOf[n][m] : golden' = [golden EXCEPT ![n][m] = g]
  <2>1. PICK m \in Mode : \E g \in GoldensOf[n][m] : golden' = [golden EXCEPT ![n][m] = g]  BY <1>2
  <2>2. PICK g \in GoldensOf[n][m] : golden' = [golden EXCEPT ![n][m] = g]  BY <2>1
  <2>3. g \in Goldens  BY <1>2, <2>2, FilesAssumption
  <2>4. golden' \in [Sources -> [Mode -> Goldens]] /\ \A s \in Sources : s # n => golden'[s] = golden[s]
    BY <1>2, <2>2, <2>3 DEF TypeOK
  <2> QED  BY <1>2, <2>4 DEF TypeOK, Disturb, counts
<1> QED  BY <1>1, <1>2 DEF Disturb

LEMMA PlainTypes ==
  ASSUME TypeOK
  PROVE  /\ CheckPath => TypeOK'
         /\ PathsChecked => TypeOK'
         /\ WalkArgument => TypeOK'
         /\ ArgumentDone => TypeOK'
         /\ Finish => TypeOK'
<1>1. ASSUME CheckPath PROVE TypeOK'
  <2>1. arg' \in 1 .. Len(Args) + 1 /\ phase' # "walk"
    BY <1>1, ArgsFacts DEF CheckPath, TypeOK
  <2> QED  BY <1>1, <2>1 DEF CheckPath, TypeOK, tree, counts
<1>2. ASSUME PathsChecked PROVE TypeOK'
  <2>1. 1 \in 1 .. Len(Args) + 1  BY ArgsFacts
  <2> QED  BY <1>2, <2>1 DEF PathsChecked, TypeOK, tree, counts
<1>3. ASSUME WalkArgument PROVE TypeOK'
  <2>1. arg \in DOMAIN Args /\ Here \in Node  BY <1>3, ArgsFacts DEF WalkArgument, TypeOK, Here
  <2>2. << Call("opendir", Here) >> \in Seq(Frames) /\ SourceWork(Here) \in Seq(Frames)
    BY <2>1, FrameTypes, OneIsStack DEF Names3
  <2>3. work' \in Seq(Frames)  BY <1>3, <2>2 DEF WalkArgument
  <2> QED  BY <1>3, <2>1, <2>3 DEF WalkArgument, TypeOK, tree, counts
<1>4. ASSUME ArgumentDone PROVE TypeOK'
  <2>1. arg \in DOMAIN Args /\ Here \in Node  BY <1>4, ArgsFacts DEF ArgumentDone, TypeOK, Here
  <2>2. arg' \in 1 .. Len(Args) + 1
    <3>1. arg' = arg + 1  BY <1>4 DEF ArgumentDone
    <3>2. arg \in 1 .. Len(Args) /\ Len(Args) \in Nat  BY <2>1, ArgsFacts
    <3> QED  BY <3>1, <3>2
  <2>3. runs' \in Nat /\ passes' \in Nat /\ fails' \in Nat /\ rows' \in Seq(Lines)
    <3>1. CASE UNCHANGED counts  BY <3>1 DEF counts, TypeOK
    <3>2. CASE Fail(Here, "no goldens")
      <4>1. Row(Here, "no goldens", FALSE) \in Lines  BY <2>1, RowTypes DEF Whys
      <4> QED  BY <3>2, <4>1, ReportTypes DEF Fail
    <3> QED  BY <1>4, <3>1, <3>2 DEF ArgumentDone
  <2> QED  BY <1>4, <2>2, <2>3 DEF ArgumentDone, TypeOK, tree
<1>5. ASSUME Finish PROVE TypeOK'
  BY <1>5 DEF Finish, TypeOK, tree, counts
<1> QED  BY <1>1, <1>2, <1>3, <1>4, <1>5

\* The ways a step goes.
LEMMA NextCases ==
  ASSUME TypeOK, [Next]_vars
  PROVE  /\ TypeOK'
         /\ \/ CheckPath \/ PathsChecked \/ WalkArgument \/ ArgumentDone \/ Finish
            \/ \E more \in Seq(Frames) : Goes(more)
            \/ \E n \in Node : Disturb(n)
            \/ UNCHANGED vars
<1>1. CASE WalkStep  BY <1>1, WalkGoes, GoesTypes
<1>2. CASE \E n \in Node : Disturb(n)  BY <1>2, DisturbTypes
<1>3. CASE UNCHANGED vars  BY <1>3 DEF vars, tree, counts, TypeOK
<1> QED  BY <1>1, <1>2, <1>3, PlainTypes DEF Next, Step, WalkStep

-----------------------------------------------------------------------------
(***************************************************************************)
(* The rows and the counts.                                                *)
(***************************************************************************)
RowsRight ==
  /\ Len(rows) = runs
  /\ \A k \in DOMAIN rows : /\ rows[k].ok => rows[k].what \in Mode
                            /\ ~rows[k].ok => fails > 0
  /\ \A k \in DOMAIN work : k # 1 => work[k].do # "source"
RowsInTurn ==
  /\ phase = "paths" => rows = << >>
  /\ phase = "next" => \A k \in DOMAIN rows : rows[k].arg < arg
  /\ phase = "walk" => /\ before <= runs
                       /\ \A k \in DOMAIN rows : /\ k <= before => rows[k].arg < arg
                                                 /\ k > before => rows[k].arg = arg
EveryArgument ==
  /\ phase # "paths" /\ exit # "usage" =>
       \A i \in 1 .. arg - 1 : \E k \in DOMAIN rows : rows[k].arg = i
  /\ phase # "done" => exit = "none"
  /\ phase = "done" /\ exit # "usage" => arg = Len(Args) + 1
  /\ exit = "ok" => phase = "done" /\ fails = 0 /\ (expect # 0 => runs = expect)

\* A report adds one row.
LEMMA AppendFacts ==
  ASSUME NEW s \in Seq(Lines), NEW row \in Lines, NEW t, t = Append(s, row)
  PROVE  /\ t \in Seq(Lines) /\ Len(t) = Len(s) + 1 /\ Len(s) \in Nat
         /\ DOMAIN s = 1 .. Len(s) /\ DOMAIN t = 1 .. Len(s) + 1
         /\ \A k \in DOMAIN s : k \in DOMAIN t /\ t[k] = s[k]
         /\ t[Len(s) + 1] = row
         /\ \A k \in DOMAIN t : k \in DOMAIN s \/ k = Len(s) + 1
OBVIOUS

LEMMA ReportRight ==
  ASSUME TypeOK, RowsRight, NEW row \in Lines, Report(row), row.ok => row.what \in Mode
  PROVE  /\ Len(rows') = runs'
         /\ \A k \in DOMAIN rows' : (rows'[k].ok => rows'[k].what \in Mode) /\ (~rows'[k].ok => fails' > 0)
<1>1. rows \in Seq(Lines) /\ rows' = Append(rows, row) /\ runs' = runs + 1 /\ fails' >= fails
      /\ fails \in Nat /\ fails' \in Nat /\ (row.ok = FALSE => fails' > 0)
  BY ReportTypes DEF TypeOK
<1>2. /\ Len(rows') = Len(rows) + 1 /\ \A k \in DOMAIN rows : rows'[k] = rows[k]
      /\ rows'[Len(rows) + 1] = row
      /\ \A k \in DOMAIN rows' : k \in DOMAIN rows \/ k = Len(rows) + 1
  BY <1>1, AppendFacts
<1>3. row.ok \in BOOLEAN  BY DEF Lines
<1>4. ASSUME NEW k \in DOMAIN rows'
      PROVE  (rows'[k].ok => rows'[k].what \in Mode) /\ (~rows'[k].ok => fails' > 0)
  <2>1. CASE k \in DOMAIN rows
    <3>1. rows'[k] = rows[k]  BY <1>2, <2>1
    <3>2. ~rows[k].ok => fails' > 0  BY <1>1, <2>1 DEF RowsRight
    <3> QED  BY <3>1, <3>2, <2>1 DEF RowsRight
  <2>2. CASE k = Len(rows) + 1  BY <1>1, <1>2, <1>3, <2>2
  <2> QED  BY <1>2, <2>1, <2>2
<1> QED  BY <1>1, <1>2, <1>4 DEF RowsRight

LEMMA RowsRightNext == TypeOK /\ RowsRight /\ [Next]_vars => RowsRight'
<1> SUFFICES ASSUME TypeOK, RowsRight, [Next]_vars PROVE RowsRight'  OBVIOUS
<1>1. ASSUME UNCHANGED counts, UNCHANGED work PROVE RowsRight'
  BY <1>1 DEF counts, RowsRight
<1>2. CASE CheckPath  BY <1>1, <1>2 DEF CheckPath
<1>3. CASE PathsChecked  BY <1>1, <1>3 DEF PathsChecked
<1>4. CASE WalkArgument
  <2>1. \A k \in DOMAIN work' : k = 1  BY <1>4 DEF WalkArgument, SourceWork
  <2> QED  BY <1>4, <2>1 DEF WalkArgument, counts, RowsRight
<1>5. CASE ArgumentDone
  <2>1. arg \in DOMAIN Args /\ Here \in Node  BY <1>5, ArgsFacts DEF ArgumentDone, TypeOK, Here
  <2>2. CASE UNCHANGED counts  BY <1>1, <1>5, <2>2 DEF ArgumentDone
  <2>3. CASE Fail(Here, "no goldens")
    <3> DEFINE row == Row(Here, "no goldens", FALSE)
    <3>1. row \in Lines  BY <2>1, RowTypes DEF Whys
    <3>2. row.ok = FALSE /\ Report(row)  BY <2>3 DEF Row, Fail
    <3> HIDE DEF row
    <3>3. /\ Len(rows') = runs'
          /\ \A k \in DOMAIN rows' : (rows'[k].ok => rows'[k].what \in Mode) /\ (~rows'[k].ok => fails' > 0)
      BY <3>1, <3>2, ReportRight
    <3>4. work' = work  BY <1>5 DEF ArgumentDone
    <3>5. \A k \in DOMAIN work' : k # 1 => work'[k].do # "source"  BY <3>4 DEF RowsRight
    <3> QED  BY <3>3, <3>5 DEF RowsRight
  <2> QED  BY <1>5, <2>2, <2>3 DEF ArgumentDone
<1>6. CASE Finish  BY <1>1, <1>6 DEF Finish
<1>7. CASE \E more \in Seq(Frames) : Goes(more)
  <2>1. PICK more \in Seq(Frames) : Goes(more)  BY <1>7
  <2>2. work' = more \o Tail(work) /\ work \in Seq(Frames) /\ work # << >>
    BY <2>1, GoesTypes DEF TypeOK
  <2>3. \A k \in DOMAIN work' : k # 1 => work'[k].do # "source"
    <3> SUFFICES ASSUME NEW k \in DOMAIN work', k # 1 PROVE work'[k].do # "source"  OBVIOUS
    <3>1. CASE k \in DOMAIN more
      <4>1. work'[k] = more[k]  BY <2>1, <3>1, GoesStack
      <4> QED  BY <3>1, <4>1, <2>1 DEF Goes
    <3>2. CASE k \notin DOMAIN more
      <4>1. Came(k, more) \in DOMAIN work \ {1} /\ work'[k] = work[Came(k, more)]
        BY <2>1, <3>2, GoesStack
      <4> QED  BY <4>1 DEF RowsRight
    <3> QED  BY <3>1, <3>2
  <2>4. CASE UNCHANGED counts  BY <2>3, <2>4 DEF counts, RowsRight
  <2>5. ASSUME NEW row \in Lines, Report(row), row.ok => row.what \in Mode PROVE RowsRight'
    <3>1. /\ Len(rows') = runs'
          /\ \A k \in DOMAIN rows' : (rows'[k].ok => rows'[k].what \in Mode) /\ (~rows'[k].ok => fails' > 0)
      BY <2>5, ReportRight
    <3> QED  BY <2>3, <3>1 DEF RowsRight
  <2> QED  BY <2>1, <2>4, <2>5 DEF Goes
<1>8. CASE \E n \in Node : Disturb(n)  BY <1>1, <1>8 DEF Disturb
<1>9. CASE UNCHANGED vars  BY <1>1, <1>9 DEF vars
<1> QED  BY <1>2, <1>3, <1>4, <1>5, <1>6, <1>7, <1>8, <1>9, NextCases

LEMMA RowsInTurnNext ==
  TypeOK /\ RowsRight /\ RowsInTurn /\ EveryArgument /\ [Next]_vars => RowsInTurn' /\ EveryArgument'
<1> SUFFICES ASSUME TypeOK, RowsRight, RowsInTurn, EveryArgument, [Next]_vars
             PROVE  RowsInTurn' /\ EveryArgument'  OBVIOUS
<1>a. /\ arg \in Nat /\ before \in Nat /\ runs \in Nat /\ Len(Args) \in Nat /\ fails \in Nat
      /\ arg >= 1 /\ arg <= Len(Args) + 1 /\ Len(rows) = runs /\ rows \in Seq(Lines)
      /\ DOMAIN rows = 1 .. runs
  BY ArgsFacts DEF TypeOK, RowsRight
<1>1. ASSUME UNCHANGED <<phase, arg, before, counts, exit, expect>> PROVE RowsInTurn' /\ EveryArgument'
  BY <1>1 DEF counts, RowsInTurn, EveryArgument
<1>2. CASE CheckPath
  BY <1>a, <1>2 DEF CheckPath, RowsInTurn, EveryArgument, counts
<1>3. CASE PathsChecked
  <2>1. rows' = << >> /\ arg' = 1 /\ phase' = "next" /\ exit' = exit /\ exit = "none"
    BY <1>3 DEF PathsChecked, RowsInTurn, EveryArgument, counts
  <2>2. DOMAIN rows' = {} /\ 1 .. arg' - 1 = {}  BY <2>1
  <2> QED  BY <2>1, <2>2 DEF RowsInTurn, EveryArgument
<1>4. CASE WalkArgument
  BY <1>a, <1>4 DEF WalkArgument, RowsInTurn, EveryArgument, counts
<1>5. CASE ArgumentDone
  <2>1. arg \in DOMAIN Args /\ Here \in Node  BY <1>5, ArgsFacts DEF ArgumentDone, TypeOK, Here
  <2>2. phase = "walk" /\ phase' = "next" /\ arg' = arg + 1 /\ exit' = exit /\ exit = "none"
    BY <1>5 DEF ArgumentDone, EveryArgument
  <2>3. \A k \in DOMAIN rows : rows[k].arg < arg'
    <3> SUFFICES ASSUME NEW k \in DOMAIN rows PROVE rows[k].arg < arg'  OBVIOUS
    <3>1. k \in Nat /\ (k <= before \/ k > before)  BY <1>a
    <3>2. rows[k].arg < arg \/ rows[k].arg = arg  BY <2>2, <3>1 DEF RowsInTurn
    <3>3. rows[k].arg \in Nat
      <4>1. rows[k] \in Lines  BY <1>a
      <4>2. rows[k].arg \in DOMAIN Args  BY <4>1 DEF Lines
      <4> QED  BY <4>2, ArgsFacts
    <3> QED  BY <1>a, <2>2, <3>2, <3>3
  <2>4. CASE runs # before
    <3>1. UNCHANGED counts  BY <1>5, <2>4 DEF ArgumentDone
    <3>2. runs \in DOMAIN rows /\ runs > before  BY <1>a, <2>2, <2>4 DEF RowsInTurn
    <3>3. rows[runs].arg = arg  BY <2>2, <3>2 DEF RowsInTurn
    <3>4. \A i \in 1 .. arg - 1 : \E k \in DOMAIN rows : rows[k].arg = i
      BY <2>2 DEF EveryArgument
    <3>5. \A i \in 1 .. arg' - 1 : i \in 1 .. arg - 1 \/ i = arg  BY <1>a, <2>2
    <3>6. rows' = rows  BY <3>1 DEF counts
    <3>7. EveryArgument'  BY <2>2, <3>2, <3>3, <3>4, <3>5, <3>6 DEF EveryArgument
    <3> QED  BY <2>2, <2>3, <3>6, <3>7 DEF RowsInTurn
  <2>5. CASE runs = before
    <3> DEFINE row == Row(Here, "no goldens", FALSE)
    <3>1. row \in Lines  BY <2>1, RowTypes DEF Whys
    <3>2. row.arg = arg /\ Report(row)  BY <1>5, <2>5 DEF Row, Fail, ArgumentDone
    <3> HIDE DEF row
    <3>3. rows' = Append(rows, row)  BY <3>2 DEF Report
    <3>4. /\ \A k \in DOMAIN rows : k \in DOMAIN rows' /\ rows'[k] = rows[k]
          /\ runs + 1 \in DOMAIN rows' /\ rows'[runs + 1] = row
          /\ \A k \in DOMAIN rows' : k \in DOMAIN rows \/ k = runs + 1
      BY <1>a, <3>1, <3>3, AppendFacts
    <3>5. \A k \in DOMAIN rows' : rows'[k].arg < arg'
      BY <1>a, <2>2, <2>3, <3>2, <3>4
    <3>6. \A i \in 1 .. arg - 1 : \E k \in DOMAIN rows : rows[k].arg = i
      BY <2>2 DEF EveryArgument
    <3>7. \A i \in 1 .. arg' - 1 : i \in 1 .. arg - 1 \/ i = arg  BY <1>a, <2>2
    <3>8. \A i \in 1 .. arg' - 1 : \E k \in DOMAIN rows' : rows'[k].arg = i
      BY <3>2, <3>4, <3>6, <3>7
    <3> QED  BY <2>2, <3>5, <3>8 DEF RowsInTurn, EveryArgument
  <2> QED  BY <2>4, <2>5
<1>6. CASE Finish
  <2>1. /\ phase = "next" /\ arg > Len(Args) /\ phase' = "done" /\ UNCHANGED <<arg, before, counts, expect>>
        /\ exit' = IF (expect # 0 => runs = expect) /\ fails = 0 THEN "ok" ELSE "fail"
    BY <1>6 DEF Finish
  <2>2. arg = Len(Args) + 1 /\ exit = "none"  BY <1>a, <2>1 DEF EveryArgument
  <2> QED  BY <2>1, <2>2 DEF RowsInTurn, EveryArgument, counts
<1>7. CASE \E more \in Seq(Frames) : Goes(more)
  <2>1. PICK more \in Seq(Frames) : Goes(more)  BY <1>7
  <2>2. phase = "walk" /\ UNCHANGED <<phase, arg, before, expect, exit>>
    BY <2>1, GoesTypes
  <2>3. CASE UNCHANGED counts  BY <1>1, <2>2, <2>3
  <2>4. ASSUME NEW row \in Lines, Report(row), row.arg = arg PROVE RowsInTurn' /\ EveryArgument'
    <3>1. rows' = Append(rows, row) /\ runs' = runs + 1  BY <2>4 DEF Report
    <3>2. /\ \A k \in DOMAIN rows : k \in DOMAIN rows' /\ rows'[k] = rows[k]
          /\ runs + 1 \in DOMAIN rows' /\ rows'[runs + 1] = row
          /\ \A k \in DOMAIN rows' : k \in DOMAIN rows \/ k = runs + 1
      BY <1>a, <3>1, AppendFacts
    <3>3. before <= runs /\ before <= runs' /\ ~(runs + 1 <= before)  BY <1>a, <2>2, <3>1 DEF RowsInTurn
    <3>4. ASSUME NEW k \in DOMAIN rows'
          PROVE  (k <= before => rows'[k].arg < arg) /\ (k > before => rows'[k].arg = arg)
      <4>1. CASE k \in DOMAIN rows  BY <2>2, <3>2, <4>1 DEF RowsInTurn
      <4>2. CASE k = runs + 1  BY <2>4, <3>2, <3>3, <4>2
      <4> QED  BY <3>2, <4>1, <4>2
    <3>5. RowsInTurn'  BY <2>2, <3>3, <3>4 DEF RowsInTurn
    <3>6. exit = "none"  BY <2>2 DEF EveryArgument
    <3>7. \A i \in 1 .. arg - 1 : \E k \in DOMAIN rows' : rows'[k].arg = i
      BY <2>2, <3>2, <3>6 DEF EveryArgument
    <3>8. EveryArgument'  BY <2>2, <3>6, <3>7 DEF EveryArgument
    <3> QED  BY <3>5, <3>8
  <2> QED  BY <2>1, <2>3, <2>4 DEF Goes
<1>8. CASE \E n \in Node : Disturb(n)  BY <1>1, <1>8 DEF Disturb
<1>9. CASE UNCHANGED vars  BY <1>1, <1>9 DEF vars
<1> QED  BY <1>2, <1>3, <1>4, <1>5, <1>6, <1>7, <1>8, <1>9, NextCases

-----------------------------------------------------------------------------
(***************************************************************************)
(* No row twice: what a frame may still tell, no other frame may, and no   *)
(* row of this argument has told.                                          *)
(***************************************************************************)
Fresh == \A j \in DOMAIN work, k \in DOMAIN rows :
  rows[k].arg = arg => <<rows[k].node, rows[k].what>> \notin Claims(kind, work[j])
NoneTwice == \A j, k \in DOMAIN rows : SameRow(rows[j], rows[k]) => j = k
Once ==
  LinksStay => /\ phase = "walk" => Apart(kind, work) /\ Fresh
               /\ NoneTwice

LEMMA ApartGoes ==
  ASSUME TypeOK, NEW more \in Seq(Frames), Goes(more), Apart(kind, work)
  PROVE  Apart(kind, work')
<1> SUFFICES ASSUME NEW i \in DOMAIN work', NEW j \in DOMAIN work', i # j
             PROVE  Claims(kind, work'[i]) \cap Claims(kind, work'[j]) = {}
  BY DEF Apart
<1>1. ASSUME NEW k \in DOMAIN work', k \in DOMAIN more
      PROVE  work'[k] = more[k] /\ Claims(kind, more[k]) \subseteq Claims(kind, Frame)
  BY <1>1, GoesStack DEF Goes
<1>2. ASSUME NEW k \in DOMAIN work', k \notin DOMAIN more
      PROVE  /\ Came(k, more) \in DOMAIN work \ {1} /\ work'[k] = work[Came(k, more)]
             /\ Claims(kind, work'[k]) \cap Claims(kind, Frame) = {}
  <2>1. Came(k, more) \in DOMAIN work \ {1} /\ work'[k] = work[Came(k, more)]
    BY <1>2, GoesStack
  <2>2. 1 \in DOMAIN work /\ Frame = work[1]  BY GoesStack
  <2> QED  BY <2>1, <2>2 DEF Apart
<1>3. CASE i \in DOMAIN more /\ j \in DOMAIN more
  BY <1>1, <1>3 DEF Goes, Apart
<1>4. CASE i \in DOMAIN more /\ j \notin DOMAIN more
  BY <1>1, <1>2, <1>4
<1>5. CASE i \notin DOMAIN more /\ j \in DOMAIN more
  BY <1>1, <1>2, <1>5
<1>6. CASE i \notin DOMAIN more /\ j \notin DOMAIN more
  <2>1. Came(i, more) # Came(j, more)  BY GoesStack
  <2> QED  BY <1>2, <1>6, <2>1 DEF Apart
<1> QED  BY <1>3, <1>4, <1>5, <1>6

\* Old rows are in no frame's claims.
LEMMA OldFresh ==
  ASSUME TypeOK, NEW more \in Seq(Frames), Goes(more), Fresh,
         NEW k \in DOMAIN rows, rows[k].arg = arg, NEW j \in DOMAIN work'
  PROVE  <<rows[k].node, rows[k].what>> \notin Claims(kind, work'[j])
<1>1. CASE j \in DOMAIN more
  <2>1. work'[j] = more[j] /\ Claims(kind, more[j]) \subseteq Claims(kind, Frame)
        /\ 1 \in DOMAIN work /\ Frame = work[1]
    BY <1>1, GoesStack DEF Goes
  <2> QED  BY <2>1 DEF Fresh
<1>2. CASE j \notin DOMAIN more
  <2>1. Came(j, more) \in DOMAIN work /\ work'[j] = work[Came(j, more)]
    BY <1>2, GoesStack
  <2> QED  BY <2>1 DEF Fresh
<1> QED  BY <1>1, <1>2

LEMMA OnceGoes ==
  ASSUME TypeOK, NEW more \in Seq(Frames), Goes(more), Apart(kind, work), Fresh, NoneTwice
  PROVE  Apart(kind', work') /\ Fresh' /\ NoneTwice'
<1>1. kind' = kind /\ arg' = arg  BY GoesTypes DEF tree
<1>2. Apart(kind, work')  BY ApartGoes
<1>3. CASE UNCHANGED counts
  <2>1. rows' = rows  BY <1>3 DEF counts
  <2>2. Fresh'  BY <1>1, <2>1, OldFresh DEF Fresh
  <2> QED  BY <1>1, <1>2, <2>1, <2>2 DEF NoneTwice
<1>4. ASSUME NEW row \in Lines, Report(row), row.arg = arg,
             <<row.node, row.what>> \in Claims(kind, Frame),
             \A j \in DOMAIN more : <<row.node, row.what>> \notin Claims(kind, more[j])
      PROVE  Fresh' /\ NoneTwice'
  <2> DEFINE l == Len(rows) + 1
  <2>1. /\ \A k \in DOMAIN rows : k \in DOMAIN rows' /\ rows'[k] = rows[k]
        /\ rows'[l] = row
        /\ \A k \in DOMAIN rows' : k \in DOMAIN rows \/ k = l
    <3>1. rows \in Seq(Lines) /\ rows' = Append(rows, row)  BY <1>4 DEF TypeOK, Report
    <3> QED  BY <3>1, AppendFacts
  <2> HIDE DEF l
  <2>2. 1 \in DOMAIN work /\ Frame = work[1]  BY GoesStack
  <2>3. ASSUME NEW j \in DOMAIN work'
        PROVE  <<row.node, row.what>> \notin Claims(kind, work'[j])
    <3>1. CASE j \in DOMAIN more
      <4>1. work'[j] = more[j]  BY <3>1, GoesStack
      <4> QED  BY <1>4, <3>1, <4>1
    <3>2. CASE j \notin DOMAIN more
      <4>1. Came(j, more) \in DOMAIN work \ {1} /\ work'[j] = work[Came(j, more)]
        BY <3>2, GoesStack
      <4>2. Claims(kind, work[Came(j, more)]) \cap Claims(kind, work[1]) = {}
        BY <2>2, <4>1 DEF Apart
      <4> QED  BY <1>4, <2>2, <4>1, <4>2
    <3> QED  BY <3>1, <3>2
  <2>4. Fresh'
    <3> SUFFICES ASSUME NEW j \in DOMAIN work', NEW k \in DOMAIN rows', rows'[k].arg = arg
                 PROVE  <<rows'[k].node, rows'[k].what>> \notin Claims(kind, work'[j])
      BY <1>1 DEF Fresh
    <3>1. CASE k \in DOMAIN rows  BY <2>1, <3>1, OldFresh
    <3>2. CASE k = l  BY <2>1, <2>3, <3>2
    <3> QED  BY <2>1, <3>1, <3>2
  <2>5. ASSUME NEW k \in DOMAIN rows PROVE ~SameRow(rows[k], row) /\ ~SameRow(row, rows[k])
    <3>1. rows[k].arg = arg => <<rows[k].node, rows[k].what>> \notin Claims(kind, Frame)
      BY <2>2 DEF Fresh
    <3> QED  BY <1>4, <3>1 DEF SameRow
  <2>6. NoneTwice'
    <3> SUFFICES ASSUME NEW j \in DOMAIN rows', NEW k \in DOMAIN rows', SameRow(rows'[j], rows'[k])
                 PROVE  j = k
      BY DEF NoneTwice
    <3>1. CASE j \in DOMAIN rows /\ k \in DOMAIN rows  BY <2>1, <3>1 DEF NoneTwice
    <3>2. CASE j \in DOMAIN rows /\ k = l  BY <2>1, <2>5, <3>2
    <3>3. CASE j = l /\ k \in DOMAIN rows  BY <2>1, <2>5, <3>3
    <3> QED  BY <2>1, <3>1, <3>2, <3>3
  <2> QED  BY <2>4, <2>6
<1> QED  BY <1>1, <1>2, <1>3, <1>4 DEF Goes

LEMMA OnceNext == TypeOK /\ RowsRight /\ RowsInTurn /\ Once /\ [Next]_vars => Once'
<1> SUFFICES ASSUME TypeOK, RowsRight, RowsInTurn, Once, [Next]_vars, LinksStay'
             PROVE  (phase' = "walk" => Apart(kind', work') /\ Fresh') /\ NoneTwice'
  BY DEF Once
<1>a. ASSUME UNCHANGED disturbed
      PROVE  NoneTwice /\ (phase = "walk" => Apart(kind, work) /\ Fresh)
  <2>1. LinksStay  BY <1>a DEF LinksStay
  <2> QED  BY <2>1 DEF Once
<1>b. ASSUME UNCHANGED rows, NoneTwice PROVE NoneTwice'
  BY <1>b DEF NoneTwice
<1>1. CASE CheckPath
  BY <1>1, <1>a, <1>b DEF CheckPath, tree, counts
<1>2. CASE PathsChecked
  BY <1>2, <1>a, <1>b DEF PathsChecked, tree, counts
<1>3. CASE WalkArgument
  <2>1. NoneTwice'  BY <1>3, <1>a, <1>b DEF WalkArgument, tree, counts
  <2>2. \A j \in DOMAIN work' : j = 1  BY <1>3 DEF WalkArgument, SourceWork
  <2>3. Apart(kind', work')  BY <2>2 DEF Apart
  <2>4. \A k \in DOMAIN rows' : rows'[k].arg # arg'
    <3>1. phase = "next" /\ rows' = rows /\ arg' = arg  BY <1>3 DEF WalkArgument, counts
    <3>2. ASSUME NEW k \in DOMAIN rows PROVE rows[k].arg # arg
      <4>1. rows[k] \in Lines  BY DEF TypeOK
      <4>2. rows[k].arg \in Nat /\ arg \in Nat  BY <4>1, ArgsFacts DEF Lines, TypeOK
      <4>3. rows[k].arg < arg  BY <3>1 DEF RowsInTurn
      <4> QED  BY <4>2, <4>3
    <3> QED  BY <3>1, <3>2
  <2>5. Fresh'  BY <2>4 DEF Fresh
  <2> QED  BY <2>1, <2>3, <2>5
<1>4. CASE ArgumentDone
  <2>1. phase = "walk" /\ phase' = "next" /\ arg \in DOMAIN Args /\ Here \in Node /\ NoneTwice
    BY <1>4, <1>a, ArgsFacts DEF ArgumentDone, TypeOK, Here, tree
  <2>2. CASE UNCHANGED counts  BY <1>b, <2>1, <2>2 DEF counts
  <2>3. CASE runs = before /\ Fail(Here, "no goldens")
    <3> DEFINE row == Row(Here, "no goldens", FALSE)  l == Len(rows) + 1
    <3>1. row \in Lines  BY <2>1, RowTypes DEF Whys
    <3>2. row.arg = arg /\ Report(row)  BY <2>3 DEF Row, Fail
    <3> HIDE DEF row
    <3>3. rows' = Append(rows, row) /\ rows \in Seq(Lines)  BY <3>2 DEF Report, TypeOK
    <3>4. /\ \A k \in DOMAIN rows : k \in DOMAIN rows' /\ rows'[k] = rows[k]
          /\ rows'[l] = row
          /\ \A k \in DOMAIN rows' : k \in DOMAIN rows \/ k = l
      BY <3>1, <3>3, AppendFacts
    <3> HIDE DEF l
    <3>5. ASSUME NEW k \in DOMAIN rows PROVE rows[k].arg # arg
      <4>1. rows[k] \in Lines /\ k \in 1 .. Len(rows)  BY DEF TypeOK
      <4>2. rows[k].arg \in Nat /\ arg \in Nat  BY <4>1, ArgsFacts DEF Lines, TypeOK
      <4>3. k <= before
        <5>1. Len(rows) = before  BY <2>3 DEF RowsRight
        <5>2. before \in Nat  BY DEF TypeOK
        <5> QED  BY <4>1, <5>1, <5>2
      <4>4. rows[k].arg < arg  BY <2>1, <4>3 DEF RowsInTurn
      <4> QED  BY <4>2, <4>4
    <3>6. ASSUME NEW j \in DOMAIN rows', NEW k \in DOMAIN rows', SameRow(rows'[j], rows'[k]) PROVE j = k
      <4>1. CASE j \in DOMAIN rows /\ k \in DOMAIN rows  BY <2>1, <3>4, <3>6, <4>1 DEF NoneTwice
      <4>2. CASE j \in DOMAIN rows /\ k = l  BY <3>2, <3>4, <3>5, <3>6, <4>2 DEF SameRow
      <4>3. CASE j = l /\ k \in DOMAIN rows  BY <3>2, <3>4, <3>5, <3>6, <4>3 DEF SameRow
      <4> QED  BY <3>4, <4>1, <4>2, <4>3
    <3>7. NoneTwice'  BY <3>6 DEF NoneTwice
    <3> QED  BY <2>1, <3>7
  <2> QED  BY <1>4, <2>2, <2>3 DEF ArgumentDone
<1>5. CASE Finish
  BY <1>5, <1>a, <1>b DEF Finish, tree, counts
<1>6. CASE \E more \in Seq(Frames) : Goes(more)
  <2>1. PICK more \in Seq(Frames) : Goes(more)  BY <1>6
  <2>2. UNCHANGED disturbed /\ phase = "walk"  BY <2>1, GoesTypes DEF tree
  <2> QED  BY <1>a, <2>1, <2>2, OnceGoes
<1>7. CASE \E n \in Node : Disturb(n)
  <2>1. PICK n \in Node : Disturb(n)  BY <1>7
  <2>2. disturbed' = disturbed \cup {n} /\ UNCHANGED <<phase, arg, work, rows>>
    BY <2>1 DEF Disturb, counts
  <2>3. LinksStay /\ "dirlink" \notin KindsOf[n]  BY <2>2 DEF LinksStay
  <2>4. \A m \in Node : kind'[m] = "dirlink" <=> kind[m] = "dirlink"
    <3>1. TypeOK' /\ \A m \in Node : m # n => kind'[m] = kind[m]  BY <2>1, DisturbTypes
    <3> QED  BY <2>3, <3>1 DEF TypeOK
  <2>5. \A f \in Frames : Claims(kind', f) = Claims(kind, f)
    <3> SUFFICES ASSUME NEW f \in Frames PROVE Claims(kind', f) = Claims(kind, f)  OBVIOUS
    <3>1. f.node \in Node  BY FilesAssumption DEF Frames, Calls, Loops, SourceLoops
    <3>2. DirIn(kind', f.node) = DirIn(kind, f.node)  BY <2>4, <3>1 DEF DirIn
    <3> QED  BY <3>2 DEF Claims
  <2>6. \A j \in DOMAIN work : work[j] \in Frames  BY DEF TypeOK
  <2>7. NoneTwice /\ (phase = "walk" => Apart(kind, work) /\ Fresh)  BY <2>3 DEF Once
  <2>8. phase = "walk" => Apart(kind', work')  BY <2>2, <2>5, <2>6, <2>7 DEF Apart
  <2>9. phase = "walk" => Fresh'  BY <2>2, <2>5, <2>6, <2>7 DEF Fresh
  <2> QED  BY <1>b, <2>2, <2>7, <2>8, <2>9
<1>8. CASE UNCHANGED vars
  <2>1. UNCHANGED <<disturbed, kind, phase, arg, work, rows>>  BY <1>8 DEF vars, tree, counts
  <2> QED  BY <1>a, <1>b, <2>1 DEF Apart, Fresh
<1> QED  BY <1>1, <1>2, <1>3, <1>4, <1>5, <1>6, <1>7, <1>8, NextCases

-----------------------------------------------------------------------------
(***************************************************************************)
(* Nothing skipped: what an argument reaches has its rows, or a frame will *)
(* come to it.                                                             *)
(***************************************************************************)
Settled(i, n) ==
  /\ kind[n] \in {"locked", "dangling"} \/ (kind[n] = "dirlink" /\ n # Args[i]) => fails > 0
  /\ IsSource(n) => Told(i, n)

\* n is p or below it, and p is below the argument.
Under(p, n) == n \in Sub(p) /\ Dir(Here) \in Above[p]
ToldUpTo(j, n) ==
  \A i \in 1 .. j - 1 :
    golden[n][Modes[i]] # "none" => Has(arg, n, Modes[i], golden[n][Modes[i]] = "same")
Ahead(n) == {f \in Frames :
  \/ f.do = "lstat" /\ Under(f.node, n)
  \/ f.do = "stat" /\ f.node = n
  \/ f.do = "opendir" /\ \/ f.node = n /\ kind[n] = "locked"
                         \/ f.node # n /\ Under(f.node, n)
                         \/ f.node = Here /\ Dir(Here) \in Above[n]
  \/ f.do = "entries" /\ \E i \in f.left : Under(Children[f.node][i], n)
  \/ /\ f.do = "source" /\ f.node = n /\ IsSource(n)
     /\ (Wanted(n) = {} => f.before = runs) /\ ToldUpTo(f.mode, n)}
Covered(n) == Settled(arg, n) \/ \E j \in DOMAIN work : work[j] \in Ahead(n)
Cover ==
  /\ phase = "walk" => \A n \in Node : Reached(arg, n) => Covered(n)
  /\ phase # "paths" /\ exit # "usage" =>
       \A i \in 1 .. arg - 1 : \A n \in Node : Reached(i, n) => Settled(i, n)

\* What is_test_path has seen.
Checked(i) ==
  Passable(Args[i]) /\ Steady(Args[i], Args[i]) => kind[Args[i]] \in {"dir", "dirlink", "file", "filelink"}
PathsRight ==
  /\ phase = "paths" => \A i \in 1 .. arg - 1 : Checked(i)
  /\ phase \in {"next", "walk"} => \A i \in DOMAIN Args : Checked(i)

\* A step leaves the names alone that are not in disturbed after it.
LEMMA Untouched ==
  ASSUME TypeOK, [Next]_vars, NEW m \in Node, m \notin disturbed'
  PROVE  m \notin disturbed /\ kind'[m] = kind[m] /\ (m \in Sources => golden'[m] = golden[m])
<1>1. CASE UNCHANGED tree  BY <1>1 DEF tree
<1>2. CASE \E n \in Node : Disturb(n)
  <2>1. PICK n \in Node : Disturb(n)  BY <1>2
  <2>2. disturbed' = disturbed \cup {n}  BY <2>1 DEF Disturb
  <2> QED  BY <2>1, <2>2, DisturbTypes
<1>3. CASE \E more \in Seq(Frames) : Goes(more)  BY <1>1, <1>3, GoesTypes
<1>4. CASE CheckPath \/ PathsChecked \/ WalkArgument \/ ArgumentDone \/ Finish
  BY <1>1, <1>4 DEF CheckPath, PathsChecked, WalkArgument, ArgumentDone, Finish
<1>5. CASE UNCHANGED vars  BY <1>1, <1>5 DEF vars
<1> QED  BY <1>2, <1>3, <1>4, <1>5, NextCases

\* A step takes no row back.
RowsKept == fails' >= fails /\ \A k \in DOMAIN rows : k \in DOMAIN rows' /\ rows'[k] = rows[k]
LEMMA ReportKeeps ==
  ASSUME TypeOK, NEW row \in Lines, Report(row)
  PROVE  RowsKept /\ row \in {rows'[k] : k \in DOMAIN rows'}
<1>1. rows \in Seq(Lines) /\ rows' = Append(rows, row) /\ fails' >= fails  BY ReportTypes DEF TypeOK
<1>2. /\ \A k \in DOMAIN rows : k \in DOMAIN rows' /\ rows'[k] = rows[k]
      /\ rows'[Len(rows) + 1] = row /\ Len(rows) + 1 \in DOMAIN rows'
  BY <1>1, AppendFacts
<1> QED  BY <1>1, <1>2 DEF RowsKept

LEMMA StepKeeps ==
  ASSUME TypeOK, [Next]_vars
  PROVE  RowsKept
<1>1. CASE UNCHANGED counts  BY <1>1 DEF counts, RowsKept, TypeOK
<1>2. CASE \E n \in Node : Disturb(n)  BY <1>1, <1>2 DEF Disturb
<1>3. CASE \E more \in Seq(Frames) : Goes(more)  BY <1>1, <1>3, ReportKeeps DEF Goes
<1>4. CASE CheckPath \/ PathsChecked \/ WalkArgument \/ Finish
  BY <1>1, <1>4 DEF CheckPath, PathsChecked, WalkArgument, Finish
<1>5. CASE ArgumentDone
  <2>1. CASE Fail(Here, "no goldens")
    <3>1. arg \in DOMAIN Args /\ Here \in Node  BY <1>5, ArgsFacts DEF ArgumentDone, TypeOK, Here
    <3>2. Row(Here, "no goldens", FALSE) \in Lines  BY <3>1, RowTypes DEF Whys
    <3> QED  BY <2>1, <3>2, ReportKeeps DEF Fail
  <2> QED  BY <1>1, <1>5, <2>1 DEF ArgumentDone
<1>6. CASE UNCHANGED vars  BY <1>1, <1>6 DEF vars
<1> QED  BY <1>2, <1>3, <1>4, <1>5, <1>6, NextCases

LEMMA HasKept ==
  ASSUME RowsKept, NEW i, NEW n, NEW what, NEW ok, Has(i, n, what, ok)
  PROVE  Has(i, n, what, ok)'
BY DEF RowsKept, Has

LEMMA TreeFacts ==
  ASSUME NEW m \in Node
  PROVE  Above[m] \subseteq Node /\ m \notin Above[m] /\ \A p \in Above[m] : Above[p] \subseteq Above[m]
BY TreeAssumption

\* What is reached after a step was before it, and is as it was.
LEMMA ReachedBefore ==
  ASSUME TypeOK, [Next]_vars, NEW i \in DOMAIN Args, NEW n \in Node, Reached(i, n)'
  PROVE  /\ Reached(i, n) /\ kind'[n] = kind[n] /\ kind'[Args[i]] = kind[Args[i]]
         /\ n \in Sources => golden'[n] = golden[n]
<1> DEFINE a == Args[i]
<1>1. a \in Node  BY ArgsFacts
<1> HIDE DEF a
<1>2. ({a, n} \cup Above[a] \cup Above[n]) \cap disturbed' = {}
      /\ Passable(a)' /\ Passable(n)' /\ (n = a \/ Dir(a)' \in Above[n])
  BY DEF Reached, LeadsTo, Steady, a
<1>3. \A m \in {a, n} \cup Above[a] \cup Above[n] :
        m \in Node /\ m \notin disturbed /\ kind'[m] = kind[m] /\ (m \in Sources => golden'[m] = golden[m])
  <2>1. {a, n} \cup Above[a] \cup Above[n] \subseteq Node  BY <1>1, TreeFacts
  <2> QED  BY <2>1, <1>2, Untouched
<1>4. Passable(a) /\ Passable(n)  BY <1>2, <1>3 DEF Passable
<1>5. Dir(a)' = Dir(a)  BY <1>3 DEF Dir
<1>6. Steady(a, n)  BY <1>3 DEF Steady
<1>7. Reached(i, n)  BY <1>2, <1>4, <1>5, <1>6 DEF Reached, LeadsTo, a
<1> QED  BY <1>3, <1>7 DEF a

LEMMA SettledKept ==
  ASSUME TypeOK, RowsKept, TypeOK', NEW i, NEW n \in Node, kind'[n] = kind[n],
         n \in Sources => golden'[n] = golden[n], Settled(i, n)
  PROVE  Settled(i, n)'
<1>1. fails > 0 => fails' > 0  BY DEF RowsKept, TypeOK
<1>2. IsSource(n)' => IsSource(n) /\ n \in Sources /\ golden'[n] = golden[n]  BY DEF IsSource
<1>3. ASSUME IsSource(n)' PROVE Told(i, n)'
  <2>1. Told(i, n) /\ golden'[n] = golden[n]  BY <1>2, <1>3 DEF Settled
  <2>2. Wanted(n)' = Wanted(n)  BY <2>1 DEF Wanted
  <2>3. Wanted(n) = {} => Has(i, n, "no goldens", FALSE)'  BY <2>1, HasKept DEF Told
  <2>4. \A m \in Wanted(n) : Has(i, n, m, golden[n][m] = "same")'
    <3> SUFFICES ASSUME NEW m \in Wanted(n) PROVE Has(i, n, m, golden[n][m] = "same")'  OBVIOUS
    <3> DEFINE same == golden[n][m] = "same"
    <3>1. Has(i, n, m, same)  BY <2>1 DEF Told
    <3> QED  BY <3>1, <2>1 DEF Has, RowsKept
  <2> QED  BY <2>1, <2>2, <2>3, <2>4 DEF Told, Has
<1> QED  BY <1>1, <1>3 DEF Settled

\* Names that ask for no row, and names that ask for a failure.
LEMMA SettledFree ==
  ASSUME UNCHANGED tree, NEW i, NEW n,
         kind[n] \in {"absent", "dir"} \/ (kind[n] \in {"file", "filelink"} /\ n \notin Sources)
  PROVE  Settled(i, n)'
BY DEF Settled, IsSource, tree

LEMMA SettledByFail ==
  ASSUME UNCHANGED tree, NEW i, NEW n, fails' > 0, kind[n] \notin {"file", "filelink"}
  PROVE  Settled(i, n)'
BY DEF Settled, IsSource, tree

LEMMA AheadKept ==
  ASSUME UNCHANGED tree, UNCHANGED arg, NEW n, NEW f \in Ahead(n), f.do # "source"
  PROVE  f \in Ahead(n)'
<1>1. Here' = Here /\ Dir(Here)' = Dir(Here) /\ kind' = kind  BY DEF Here, Dir, tree
<1>2. \A p : Under(p, n)' <=> Under(p, n)  BY <1>1 DEF Under
<1>3. f \in Frames  BY DEF Ahead
<1> QED  BY <1>1, <1>2, <1>3 DEF Ahead

LEMMA ReachedFacts ==
  ASSUME TypeOK, arg \in DOMAIN Args, NEW n \in Node, Reached(arg, n)
  PROVE  /\ Here \in Node /\ Passable(Here) /\ Passable(n) /\ (n = Here \/ Dir(Here) \in Above[n])
         /\ Found(Here, n) = IF kind[n] = "dirlink" /\ ~Leads(n) THEN "dangling" ELSE kind[n]
         /\ \A p \in Above[n] : Dir(Here) \in Above[p] => LeadsTo(Here, p) /\ Found(Here, p) = "dir"
         /\ \A m : GoldenFound(Here, n, m) = {golden[n][m]}
<1>1. LeadsTo(Here, n) /\ Here \in Node  BY ArgsFacts DEF Reached, Here
<1>2. ASSUME NEW p \in Above[n], Dir(Here) \in Above[p]
      PROVE  LeadsTo(Here, p) /\ Found(Here, p) = "dir"
  <2>1. Above[p] \subseteq Above[n]  BY TreeFacts
  <2>2. LeadsTo(Here, p)  BY <1>1, <1>2, <2>1 DEF LeadsTo, Passable
  <2>3. kind[p] = "dir"  BY <1>1 DEF LeadsTo, Passable
  <2> QED  BY <2>2, <2>3 DEF Found
<1> QED  BY <1>1, <1>2 DEF LeadsTo, Found, GoldenFound

\* The entry of d on the way to n is listed.
LEMMA OnTheWay ==
  ASSUME TypeOK, NEW d \in Node, NEW n \in Node, d \in Above[n], Passable(n), kind[n] # "absent"
  PROVE  \E i \in Listing(d) : n \in Sub(Children[d][i]) /\ Above[Children[d][i]] = {d} \cup Above[d]
<1>1. PICK i \in DOMAIN Children[d] : Children[d][i] \in {n} \cup Above[n]  BY TreeAssumption
<1>2. Above[Children[d][i]] = {d} \cup Above[d]  BY TreeAssumption
<1>3. kind[Children[d][i]] # "absent"  BY <1>1 DEF Passable
<1> QED  BY <1>1, <1>2, <1>3 DEF Listing, Sub, Below

\* Behind a directory that opens there is the rest of the way.
LEMMA LoopAhead ==
  ASSUME TypeOK, arg \in DOMAIN Args, NEW d \in Node, NEW n \in Node, d \in Above[n], Passable(n),
         kind[n] # "absent", d = Dir(Here) \/ Dir(Here) \in Above[d]
  PROVE  Loop(d) \in Ahead(n)
<1>1. PICK i \in Listing(d) : n \in Sub(Children[d][i]) /\ Above[Children[d][i]] = {d} \cup Above[d]
  BY OnTheWay
<1>2. Under(Children[d][i], n)  BY <1>1 DEF Under
<1>3. Loop(d) \in Frames /\ Loop(d).do = "entries" /\ Loop(d).node = d /\ Loop(d).left = Listing(d)
  BY FrameTypes DEF Loop
<1> QED  BY <1>1, <1>2, <1>3 DEF Ahead

LEMMA OpenDirectoryCovers ==
  ASSUME TypeOK, OpenDirectory, NEW n \in Node, Reached(arg, n), Frame \in Ahead(n)
  PROVE  \/ Settled(arg, n)'
         \/ Opens(Here, Now) /\ Loop(Dir(Now)) \in Ahead(n)'
<1>1. /\ Doing("opendir") /\ Now \in Node /\ Here \in Node /\ Frame.do = "opendir" /\ Frame.node = Now
      /\ arg \in DOMAIN Args
  BY HeadFacts DEF OpenDirectory, Now
<1>2. UNCHANGED tree /\ UNCHANGED arg  BY DEF OpenDirectory, GoOn
<1>3. CASE kind[n] = "absent"  BY <1>2, <1>3, SettledFree
<1>4. ASSUME NEW d \in Node, d = Dir(Now), d \in Above[n], d = Dir(Here) \/ Dir(Here) \in Above[d],
             kind[n] # "absent"
      PROVE  Loop(Dir(Now)) \in Ahead(n)'
  <2>1. Loop(d) \in Ahead(n)  BY <1>1, <1>4, LoopAhead, ReachedFacts
  <2>2. Loop(d).do # "source"  BY DEF Loop
  <2> QED  BY <1>2, <1>4, <2>1, <2>2, AheadKept
<1>5. CASE Now = n /\ kind[n] = "locked"
  <2>1. Found(Here, Now) = "locked"  BY <1>1, <1>5, ReachedFacts
  <2>2. ~Opens(Here, Now)  BY <2>1 DEF Opens
  <2> QED  BY <1>2, <1>5, <2>2, OpenDirectoryGoes, SettledByFail
<1>6. CASE Now # n /\ Under(Now, n) /\ kind[n] # "absent"
  <2>1. Now \in Above[n] /\ Dir(Here) \in Above[Now]  BY <1>6 DEF Under, Sub, Below
  <2>2. Found(Here, Now) = "dir" /\ LeadsTo(Here, Now)  BY <1>1, <2>1, ReachedFacts
  <2>3. Opens(Here, Now) /\ kind[Now] = "dir"  BY <2>1, <2>2, <1>1, ReachedFacts DEF Opens, Passable
  <2>4. Dir(Now) = Now  BY <2>3 DEF Dir
  <2> QED  BY <1>1, <1>4, <1>6, <2>1, <2>3, <2>4
<1>7. CASE Now = Here /\ Dir(Here) \in Above[n] /\ kind[n] # "absent"
  <2>1. Dir(Here) \in Node  BY <1>1, FrameTypes
  <2>2. kind[Dir(Here)] = "dir" /\ Passable(Here) /\ Passable(Dir(Here))
    BY <1>1, <1>7, ReachedFacts, TreeFacts DEF Passable
  <2>3. LeadsTo(Here, Here)  BY <2>2 DEF LeadsTo
  <2>4. CASE kind[Here] = "dirlink"
    <3>1. Dir(Here) = Target[Here] /\ Leads(Here)  BY <2>2, <2>4 DEF Dir, Leads
    <3>2. Found(Here, Here) = "dirlink"  BY <2>3, <2>4, <3>1 DEF Found
    <3>3. Opens(Here, Now)  BY <1>7, <2>2, <3>1, <3>2 DEF Opens
    <3> QED  BY <1>4, <1>7, <2>1, <3>3
  <2>5. CASE kind[Here] # "dirlink"
    <3>1. Dir(Here) = Here /\ Found(Here, Here) = "dir"  BY <2>2, <2>3, <2>5 DEF Dir, Found
    <3>2. Opens(Here, Now)  BY <1>7, <3>1 DEF Opens
    <3> QED  BY <1>4, <1>7, <2>1, <3>2
  <2> QED  BY <2>4, <2>5
<1> QED  BY <1>1, <1>3, <1>5, <1>6, <1>7 DEF Ahead

LEMMA NextEntryCovers ==
  ASSUME TypeOK, NextEntry, NEW n \in Node, Frame \in Ahead(n), NEW i \in Frame.left
  PROVE  Call("lstat", Children[Now][i]) \in Ahead(n)' \/ Rest(i) \in Ahead(n)'
<1>1. Doing("entries") /\ Frame.do = "entries" /\ Frame.node = Now /\ Frame \in Loops
  BY HeadFacts DEF NextEntry, Now
<1>2. UNCHANGED tree /\ UNCHANGED arg  BY DEF NextEntry, GoOn
<1>3. PICK j \in Frame.left : Under(Children[Now][j], n)  BY <1>1 DEF Ahead
<1>4. CASE j = i
  <2> DEFINE c == Call("lstat", Children[Now][i])
  <2>1. Children[Now][i] \in Node
    <3>1. Now \in Node /\ i \in DOMAIN Children[Now]  BY <1>1, HeadFacts DEF Loops
    <3> QED  BY <3>1, Siblings
  <2>2. c \in Frames /\ c.do = "lstat" /\ c.node = Children[Now][i]
    BY <2>1, FrameTypes DEF Call, Names3
  <2> HIDE DEF c
  <2>3. c \in Ahead(n)  BY <1>3, <1>4, <2>2 DEF Ahead
  <2>4. c \in Ahead(n)'  BY <1>2, <2>2, <2>3, AheadKept
  <2> QED  BY <2>4 DEF c
<1>5. CASE j # i
  <2>1. Rest(i).do = "entries" /\ Rest(i).node = Now /\ Rest(i).left = Frame.left \ {i} /\ Rest(i) \in Frames
    <3>1. /\ Rest(i) \in [do : {"entries"}, node : Node, left : SUBSET Nat]
          /\ Rest(i).do = "entries" /\ Rest(i).node = Now /\ Rest(i).left = Frame.left \ {i}
      BY <1>1 DEF Loops, Rest
    <3>2. Frame.left \subseteq DOMAIN Children[Now]  BY <1>1 DEF Loops
    <3> QED  BY <3>1, <3>2 DEF Loops, Frames
  <2>2. Rest(i) \in Ahead(n)  BY <1>3, <1>5, <2>1 DEF Ahead
  <2> QED  BY <1>2, <2>1, <2>2, AheadKept
<1> QED  BY <1>4, <1>5

\* test_source begins.
LEMMA SourceCovers ==
  ASSUME TypeOK, UNCHANGED tree, UNCHANGED arg, UNCHANGED counts, NEW n \in Node,
         kind[n] \in {"file", "filelink"}
  PROVE  Settled(arg, n)' \/ \E j \in DOMAIN SourceWork(n) : SourceWork(n)[j] \in Ahead(n)'
<1>1. CASE n \notin Sources  BY <1>1, SettledFree
<1>2. CASE n \in Sources
  <2> DEFINE s == [do |-> "source", node |-> n, mode |-> 1, before |-> runs]
  <2>1. s \in Frames  BY <1>2, ModesFacts DEF TypeOK, Frames, SourceLoops
  <2>2. PICK f \in Frames : f = s  BY <2>1
  <2>a. f.do = "source" /\ f.node = n /\ f.before = runs /\ f.mode = 1  BY <2>2
  <2>3. SourceWork(n) = << f >>  BY <1>2, <2>2 DEF SourceWork
  <2> HIDE DEF s
  <2>4. IsSource(n)' /\ runs' = runs  BY <1>2 DEF IsSource, tree, counts
  <2>5. ToldUpTo(f.mode, n)'
    <3>1. 1 .. f.mode - 1 = {}  BY <2>a
    <3> QED  BY <3>1 DEF ToldUpTo
  <2>6. f \in Ahead(n)'  BY <2>a, <2>4, <2>5 DEF Ahead
  <2>7. DOMAIN << f >> = {1} /\ << f >>[1] = f  OBVIOUS
  <2> QED  BY <2>3, <2>6, <2>7
<1> QED  BY <1>1, <1>2

LEMMA EntryCovers ==
  ASSUME TypeOK, Entry, NEW n \in Node, Reached(arg, n), Frame \in Ahead(n)
  PROVE  \/ Settled(arg, n)'
         \/ Found(Here, Now) \in {"dir", "locked"} /\ Call("opendir", Now) \in Ahead(n)'
         \/ Found(Here, Now) \in {"dirlink", "filelink", "dangling"} /\ Call("stat", Now) \in Ahead(n)'
         \/ Found(Here, Now) = "file" /\ \E j \in DOMAIN SourceWork(Now) : SourceWork(Now)[j] \in Ahead(n)'
<1>1. /\ Doing("lstat") /\ Now \in Node /\ Here \in Node /\ Frame.do = "lstat" /\ Frame.node = Now
      /\ arg \in DOMAIN Args
  BY HeadFacts DEF Entry, Now
<1>2. UNCHANGED tree /\ UNCHANGED arg  BY DEF Entry, GoOn
<1>3. Under(Now, n)  BY <1>1 DEF Ahead
<1>4. ASSUME NEW what \in {"opendir", "stat"}, Call(what, Now) \in Ahead(n)
      PROVE  Call(what, Now) \in Ahead(n)'
  <2>1. Call(what, Now).do # "source"  BY DEF Call
  <2> QED  BY <1>2, <1>4, <2>1, AheadKept
<1>5. /\ Call("opendir", Now) \in Frames /\ Call("opendir", Now).do = "opendir" /\ Call("opendir", Now).node = Now
      /\ Call("stat", Now) \in Frames /\ Call("stat", Now).do = "stat" /\ Call("stat", Now).node = Now
  BY <1>1, FrameTypes DEF Call, Names3
<1>6. CASE Now \in Above[n]
  <2>1. Found(Here, Now) = "dir"  BY <1>1, <1>3, <1>6, ReachedFacts DEF Under
  <2>2. Now # n  BY <1>6, TreeFacts
  <2>3. Call("opendir", Now) \in Ahead(n)  BY <1>3, <1>5, <2>2 DEF Ahead
  <2> QED  BY <1>4, <2>1, <2>3
<1>7. CASE Now = n
  <2>1. Found(Here, n) = IF kind[n] = "dirlink" /\ ~Leads(n) THEN "dangling" ELSE kind[n]
    BY <1>1, ReachedFacts
  <2>2. CASE kind[n] \in {"absent", "dir"}  BY <1>2, <2>2, SettledFree
  <2>3. CASE kind[n] = "locked"
    <3>1. Call("opendir", Now) \in Ahead(n)  BY <1>5, <1>7, <2>3 DEF Ahead
    <3> QED  BY <1>4, <1>7, <2>1, <2>3, <3>1
  <2>4. CASE kind[n] \in {"dirlink", "filelink", "dangling"}
    <3>1. Call("stat", Now) \in Ahead(n)  BY <1>5, <1>7 DEF Ahead
    <3> QED  BY <1>4, <1>7, <2>1, <2>4, <3>1
  <2>5. CASE kind[n] = "file"
    <3>1. Found(Here, Now) = "file"  BY <1>7, <2>1, <2>5
    <3>2. UNCHANGED counts  BY <3>1, EntryGoes
    <3>3. Settled(arg, n)' \/ \E j \in DOMAIN SourceWork(n) : SourceWork(n)[j] \in Ahead(n)'
      BY <1>2, <2>5, <3>2, SourceCovers
    <3> QED  BY <1>7, <3>1, <3>3
  <2>6. kind[n] \in Kinds  BY DEF TypeOK
  <2> QED  BY <2>2, <2>3, <2>4, <2>5, <2>6 DEF Kinds
<1> QED  BY <1>1, <1>3, <1>6, <1>7 DEF Under, Sub, Below

LEMMA LinkCovers ==
  ASSUME TypeOK, Link, NEW n \in Node, Reached(arg, n), Frame \in Ahead(n)
  PROVE  \/ Settled(arg, n)'
         \/ /\ Found(Here, Now) \in {"file", "filelink"}
            /\ \E j \in DOMAIN SourceWork(Now) : SourceWork(Now)[j] \in Ahead(n)'
<1>1. /\ Doing("stat") /\ Now \in Node /\ Frame.do = "stat" /\ Frame.node = Now
      /\ arg \in DOMAIN Args
  BY HeadFacts DEF Link, Now
<1>2. UNCHANGED tree /\ UNCHANGED arg  BY DEF Link, GoOn
<1>3. Now = n  BY <1>1 DEF Ahead
<1>4. Found(Here, n) = IF kind[n] = "dirlink" /\ ~Leads(n) THEN "dangling" ELSE kind[n]
  BY <1>1, ReachedFacts
<1>5. CASE Found(Here, Now) \notin {"file", "filelink"}
  <2>1. fails' > 0  BY <1>5, LinkGoes
  <2>2. kind[n] \notin {"file", "filelink"}  BY <1>3, <1>4, <1>5
  <2> QED  BY <1>2, <2>1, <2>2, SettledByFail
<1>6. CASE Found(Here, Now) \in {"file", "filelink"}
  <2>1. UNCHANGED counts  BY <1>6, LinkGoes
  <2>2. kind[n] \in {"file", "filelink"}  BY <1>3, <1>4, <1>6
  <2>3. Settled(arg, n)' \/ \E j \in DOMAIN SourceWork(n) : SourceWork(n)[j] \in Ahead(n)'
    BY <1>2, <2>1, <2>2, SourceCovers
  <2> QED  BY <1>3, <1>6, <2>3
<1> QED  BY <1>5, <1>6

LEMMA SourceAhead ==
  ASSUME NEW n, NEW f \in Ahead(n), f.do = "source"
  PROVE  f.node = n /\ IsSource(n) /\ (Wanted(n) = {} => f.before = runs) /\ ToldUpTo(f.mode, n)
BY DEF Ahead

LEMMA ToldKept ==
  ASSUME UNCHANGED tree, UNCHANGED arg, RowsKept, NEW j, NEW n, ToldUpTo(j, n)
  PROVE  \A i \in 1 .. j - 1 :
           golden'[n][Modes[i]] # "none" => Has(arg, n, Modes[i], golden[n][Modes[i]] = "same")'
<1> SUFFICES ASSUME NEW i \in 1 .. j - 1, golden[n][Modes[i]] # "none"
             PROVE  Has(arg, n, Modes[i], golden[n][Modes[i]] = "same")'
  BY DEF tree
<1> DEFINE same == golden[n][Modes[i]] = "same"
<1>1. Has(arg, n, Modes[i], same)  BY DEF ToldUpTo
<1> QED  BY <1>1 DEF Has, RowsKept, tree

LEMMA TestRowCovers ==
  ASSUME TypeOK, TestRow, NEW n \in Node, Reached(arg, n), Frame \in Ahead(n)
  PROVE  NextLoop \in Ahead(n)'
<1>1. /\ Doing("source") /\ Frame.do = "source" /\ Frame \in SourceLoops /\ arg \in DOMAIN Args
      /\ Frame.node = Now /\ Frame.mode \in DOMAIN Modes /\ ThisMode \in Mode
      /\ NextLoop \in SourceLoops /\ NextLoop.node = Now
      /\ NextLoop.mode = Frame.mode + 1 /\ NextLoop.before = Frame.before
  BY TestRowGoes, HeadFacts DEF Now
<1>2. UNCHANGED tree /\ UNCHANGED arg  BY DEF TestRow, NextMode, GoOn
<1>3. Now = n /\ IsSource(n) /\ (Wanted(n) = {} => Frame.before = runs) /\ ToldUpTo(Frame.mode, n)
  BY <1>1, SourceAhead
<1>4. golden' = golden /\ arg' = arg /\ kind' = kind  BY <1>2 DEF tree
<1>5. PICK m \in Mode : m = ThisMode  BY <1>1
<1>6. PICK g \in Goldens : g = golden[n][m]
  <2>1. n \in Sources  BY <1>3 DEF IsSource
  <2> QED  BY <2>1 DEF TypeOK
<1>7. GoldenFound(Here, Now, ThisMode) = {g} /\ Readable(Here, Now)
  <2>1. Found(Here, n) = kind[n] /\ GoldenFound(Here, n, ThisMode) = {golden[n][ThisMode]}
    BY <1>1, <1>3, ReachedFacts DEF IsSource
  <2> QED  BY <1>3, <1>5, <1>6, <2>1 DEF Readable, IsSource
<1>8. \/ g = "none" /\ UNCHANGED counts
      \/ g # "none" /\ \E ok \in BOOLEAN : ok = (g = "same") /\ Report(Row(n, m, ok))
  BY <1>3, <1>5, <1>7, TestRowGoes
<1>9. RowsKept /\ (g # "none" => Has(arg, n, m, g = "same")')
  <2>1. CASE g = "none"  BY <1>8, <2>1 DEF RowsKept, counts, TypeOK
  <2>2. CASE g # "none"
    <3>1. PICK ok \in BOOLEAN : ok = (g = "same") /\ Report(Row(n, m, ok))  BY <1>8, <2>2
    <3>2. Row(n, m, ok) \in Lines  BY <1>1, RowTypes
    <3>3. PICK row \in Lines : row = Row(n, m, ok)  BY <3>2
    <3>4. row = [arg |-> arg, node |-> n, what |-> m, ok |-> ok]  BY <3>3 DEF Row
    <3>5. RowsKept /\ row \in {rows'[k] : k \in DOMAIN rows'}  BY <3>1, <3>3, ReportKeeps
    <3>6. Has(arg, n, m, ok)'  BY <1>4, <3>4, <3>5 DEF Has
    <3> QED  BY <3>1, <3>5, <3>6
  <2> QED  BY <2>1, <2>2
<1>10. PICK j \in DOMAIN Modes : j = Frame.mode /\ Modes[j] = m  BY <1>1, <1>5 DEF ThisMode
<1>11. ToldUpTo(j, n)  BY <1>3, <1>10
<1>12. \A i \in 1 .. j - 1 :
         golden'[n][Modes[i]] # "none" => Has(arg, n, Modes[i], golden[n][Modes[i]] = "same")'
  BY <1>2, <1>9, <1>11, ToldKept
<1>13. PICK f \in SourceLoops : f = NextLoop  BY <1>1
<1>14. f.mode = j + 1 /\ f.node = n /\ f.do = "source" /\ f.before = Frame.before
  BY <1>1, <1>3, <1>10, <1>13 DEF SourceLoops
<1>15. ToldUpTo(f.mode, n)'
  <2>1. \A i \in 1 .. f.mode - 1 : i \in 1 .. j - 1 \/ i = j
    BY <1>10, <1>14, ModesFacts
  <2>2. golden'[n][Modes[j]] = g  BY <1>4, <1>6, <1>10
  <2>3. golden'[n][Modes[j]] # "none" => Has(arg, n, Modes[j], golden[n][Modes[j]] = "same")'
    BY <1>9, <1>10, <2>2 DEF Has
  <2> QED  BY <1>12, <2>1, <2>3 DEF ToldUpTo
<1>16. Wanted(n)' = {} => f.before = runs'
  <2>1. Wanted(n)' = Wanted(n)  BY <1>4 DEF Wanted
  <2>2. Wanted(n) = {} => g = "none"  BY <1>6 DEF Wanted
  <2> QED  BY <1>3, <1>8, <1>14, <2>1, <2>2 DEF counts
<1>17. IsSource(n)'  BY <1>3, <1>4 DEF IsSource
<1>18. f \in Ahead(n)'  BY <1>14, <1>15, <1>16, <1>17 DEF Ahead, Frames
<1> QED  BY <1>13, <1>18

LEMMA SourceDoneCovers ==
  ASSUME TypeOK, SourceDone, NEW n \in Node, Reached(arg, n), Frame \in Ahead(n)
  PROVE  Settled(arg, n)'
<1>1. /\ Doing("source") /\ Frame.do = "source" /\ Frame \in SourceLoops /\ arg \in DOMAIN Args
      /\ Frame.node = Now /\ Frame.mode = Len(Modes) + 1
      /\ IF runs = Frame.before THEN Fail(Now, "no goldens") ELSE UNCHANGED counts
  BY SourceDoneGoes, HeadFacts DEF Now
<1>2. UNCHANGED tree /\ UNCHANGED arg  BY DEF SourceDone, GoOn
<1>3. Now = n /\ IsSource(n) /\ (Wanted(n) = {} => Frame.before = runs) /\ ToldUpTo(Frame.mode, n)
  BY <1>1, SourceAhead
<1>4. golden' = golden /\ arg' = arg /\ kind' = kind  BY <1>2 DEF tree
<1>5. RowsKept /\ (runs = Frame.before => Has(arg, n, "no goldens", FALSE)')
  <2>1. CASE runs # Frame.before
    <3>1. UNCHANGED counts  BY <1>1, <2>1
    <3>2. RowsKept  BY <3>1 DEF RowsKept, counts, TypeOK
    <3> QED  BY <2>1, <3>2
  <2>2. CASE runs = Frame.before
    <3>1. Row(n, "no goldens", FALSE) \in Lines  BY <1>1, RowTypes DEF Whys
    <3>2. PICK row \in Lines : row = Row(n, "no goldens", FALSE)  BY <3>1
    <3>3. row = [arg |-> arg, node |-> n, what |-> "no goldens", ok |-> FALSE]  BY <3>2 DEF Row
    <3>4. Report(row)  BY <1>1, <1>3, <2>2, <3>2 DEF Fail
    <3>5. RowsKept /\ row \in {rows'[k] : k \in DOMAIN rows'}  BY <3>4, ReportKeeps
    <3>6. Has(arg, n, "no goldens", FALSE)'  BY <1>4, <3>3, <3>5 DEF Has
    <3> QED  BY <3>5, <3>6
  <2> QED  BY <2>1, <2>2
<1>6. PICK j \in Nat : j = Len(Modes) + 1  BY ModesFacts
<1>7. ToldUpTo(j, n)  BY <1>1, <1>3, <1>6
<1>8. \A i \in 1 .. j - 1 :
        golden'[n][Modes[i]] # "none" => Has(arg, n, Modes[i], golden[n][Modes[i]] = "same")'
  BY <1>2, <1>5, <1>7, ToldKept
<1>9. 1 .. j - 1 = DOMAIN Modes
  <2>1. j - 1 = Len(Modes)  BY <1>6, ModesFacts
  <2> QED  BY <2>1, ModesFacts
<1>10. ASSUME NEW m \in Wanted(n) PROVE Has(arg, n, m, golden[n][m] = "same")'
  <2>1. PICK i \in DOMAIN Modes : m = Modes[i]  BY DEF Wanted, Mode
  <2>2. golden'[n][Modes[i]] # "none"  BY <1>4, <2>1 DEF Wanted
  <2> QED  BY <1>8, <1>9, <2>1, <2>2
<1>11. Told(arg, n)'
  <2>1. Wanted(n)' = Wanted(n)  BY <1>4 DEF Wanted
  <2>2. \A m \in Wanted(n)' : Has(arg, n, m, golden[n][m] = "same")'  BY <1>10, <2>1
  <2>3. Wanted(n)' = {} => Has(arg, n, "no goldens", FALSE)'  BY <1>3, <1>5, <2>1
  <2> QED  BY <2>2, <2>3 DEF Told
<1> QED  BY <1>3, <1>4, <1>11 DEF Settled, IsSource

LEMMA LiftHead ==
  ASSUME TypeOK, NEW more \in Seq(Frames), Goes(more), NEW n, NEW j \in DOMAIN more, more[j] \in Ahead(n)'
  PROVE  Covered(n)'
<1>1. j \in DOMAIN work' /\ work'[j] = more[j]  BY GoesStack
<1> QED  BY <1>1 DEF Covered

LEMMA LiftTail ==
  ASSUME TypeOK, RowsRight, NEW more \in Seq(Frames), Goes(more), NEW n,
         NEW j \in DOMAIN work, j # 1, work[j] \in Ahead(n)
  PROVE  Covered(n)'
<1>1. PICK f \in Ahead(n) : f = work[j]  OBVIOUS
<1>2. f.do # "source"  BY <1>1 DEF RowsRight
<1>3. f \in Ahead(n)'  BY <1>2, AheadKept, GoesTypes
<1>4. Moved(j, more) \in DOMAIN work' /\ work'[Moved(j, more)] = work[j]  BY GoesStack
<1> QED  BY <1>1, <1>3, <1>4 DEF Covered

LEMMA WalkCovers ==
  ASSUME TypeOK, WalkStep, NEW n \in Node, Reached(arg, n), Frame \in Ahead(n)
  PROVE  Covered(n)'
<1>a. ASSUME Settled(arg, n)' PROVE Covered(n)'  BY <1>a DEF Covered
<1>b. ASSUME NEW f \in Frames, f \in Ahead(n)', Goes(<< f >>) PROVE Covered(n)'
  <2>1. PICK more \in Seq(Frames) : more = << f >>  BY OneIsStack
  <2>2. 1 \in DOMAIN more /\ more[1] = f  BY <2>1, OneIsStack
  <2> QED  BY <1>b, <2>1, <2>2, LiftHead
<1>c. ASSUME NEW m \in Node, NEW j \in DOMAIN SourceWork(m), SourceWork(m)[j] \in Ahead(n)', Goes(SourceWork(m))
      PROVE  Covered(n)'
  <2>1. PICK more \in Seq(Frames) : more = SourceWork(m)  BY FrameTypes
  <2> QED  BY <1>c, <2>1, LiftHead
<1>1. CASE OpenDirectory
  <2>1. CASE Opens(Here, Now) /\ Loop(Dir(Now)) \in Ahead(n)'
    <3>1. Loop(Dir(Now)) \in Frames /\ Goes(<< Loop(Dir(Now)) >>)  BY <1>1, <2>1, OpenDirectoryGoes
    <3>2. PICK f \in Frames : f = Loop(Dir(Now))  BY <3>1
    <3> QED  BY <1>b, <2>1, <3>1, <3>2
  <2> QED  BY <1>1, <1>a, <2>1, OpenDirectoryCovers
<1>2. CASE NextEntry
  <2>1. Frame.left # {}
    <3>1. Frame.do = "entries"  BY <1>2, HeadFacts DEF NextEntry
    <3> QED  BY <3>1 DEF Ahead
  <2>2. PICK i \in Frame.left :
          /\ Call("lstat", Children[Now][i]) \in Frames /\ Rest(i) \in Frames
          /\ << Call("lstat", Children[Now][i]), Rest(i) >> \in Seq(Frames)
          /\ Goes(<< Call("lstat", Children[Now][i]), Rest(i) >>)
    BY <1>2, <2>1, NextEntryGoes
  <2>3. PICK c \in Frames : c = Call("lstat", Children[Now][i])  BY <2>2
  <2>4. PICK r \in Frames : r = Rest(i)  BY <2>2
  <2>5. PICK more \in Seq(Frames) : more = << c, r >>  BY <2>2, <2>3, <2>4
  <2>6. DOMAIN more = {1, 2} /\ more[1] = c /\ more[2] = r  BY <2>5
  <2>7. c \in Ahead(n)' \/ r \in Ahead(n)'  BY <1>2, <2>3, <2>4, NextEntryCovers
  <2>8. Goes(more)  BY <2>2, <2>3, <2>4, <2>5
  <2>9. CASE c \in Ahead(n)'
    <3>1. 1 \in DOMAIN more /\ more[1] \in Ahead(n)'  BY <2>6, <2>9
    <3> QED  BY <2>8, <3>1, LiftHead
  <2>10. CASE r \in Ahead(n)'
    <3>1. 2 \in DOMAIN more /\ more[2] \in Ahead(n)'  BY <2>6, <2>10
    <3> QED  BY <2>8, <3>1, LiftHead
  <2> QED  BY <2>7, <2>9, <2>10
<1>3. CASE Entry
  <2>1. Doing("lstat") /\ Now \in Node  BY <1>3, EntryGoes, HeadFacts
  <2>2. PICK m \in Node : m = Now  BY <2>1
  <2>3. CASE Found(Here, Now) \in {"dir", "locked"} /\ Call("opendir", Now) \in Ahead(n)'
    <3>1. Call("opendir", Now) \in Frames /\ Goes(<< Call("opendir", Now) >>)  BY <1>3, <2>3, EntryGoes
    <3>2. PICK f \in Frames : f = Call("opendir", Now)  BY <3>1
    <3> QED  BY <1>b, <2>3, <3>1, <3>2
  <2>4. CASE Found(Here, Now) \in {"dirlink", "filelink", "dangling"} /\ Call("stat", Now) \in Ahead(n)'
    <3>1. Call("stat", Now) \in Frames /\ Goes(<< Call("stat", Now) >>)  BY <1>3, <2>4, EntryGoes
    <3>2. PICK f \in Frames : f = Call("stat", Now)  BY <3>1
    <3> QED  BY <1>b, <2>4, <3>1, <3>2
  <2>5. CASE Found(Here, Now) = "file" /\ \E j \in DOMAIN SourceWork(Now) : SourceWork(Now)[j] \in Ahead(n)'
    <3>1. Goes(SourceWork(Now))  BY <1>3, <2>5, EntryGoes
    <3> QED  BY <1>c, <2>1, <2>5, <3>1
  <2> QED  BY <1>3, <1>a, <2>3, <2>4, <2>5, EntryCovers
<1>4. CASE Link
  <2>1. Doing("stat") /\ Now \in Node  BY <1>4, LinkGoes, HeadFacts
  <2>2. CASE /\ Found(Here, Now) \in {"file", "filelink"}
             /\ \E j \in DOMAIN SourceWork(Now) : SourceWork(Now)[j] \in Ahead(n)'
    <3>1. Goes(SourceWork(Now))  BY <1>4, <2>2, LinkGoes
    <3> QED  BY <1>c, <2>1, <2>2, <3>1
  <2> QED  BY <1>4, <1>a, <2>2, LinkCovers
<1>5. CASE TestRow
  <2>1. NextLoop \in Frames /\ Goes(<< NextLoop >>)  BY <1>5, TestRowGoes DEF Frames
  <2>2. NextLoop \in Ahead(n)'  BY <1>5, TestRowCovers
  <2>3. PICK f \in Frames : f = NextLoop  BY <2>1
  <2> QED  BY <1>b, <2>1, <2>2, <2>3
<1>6. CASE SourceDone  BY <1>6, <1>a, SourceDoneCovers DEF SourceDone, GoOn
<1> QED  BY <1>1, <1>2, <1>3, <1>4, <1>5, <1>6 DEF WalkStep

LEMMA CoverStays ==
  ASSUME TypeOK, [Next]_vars, Cover, NEW i \in DOMAIN Args, NEW n \in Node, Reached(i, n)', Settled(i, n)
  PROVE  Settled(i, n)'
BY ReachedBefore, NextCases, StepKeeps, SettledKept

LEMMA CoverWalk ==
  ASSUME TypeOK, RowsRight, Cover, WalkStep, NEW n \in Node, Reached(arg, n)'
  PROVE  Covered(n)'
<1>1. PICK more \in Seq(Frames) : Goes(more)  BY WalkGoes
<1>2. phase = "walk" /\ arg \in DOMAIN Args /\ arg' = arg /\ [Next]_vars
  BY <1>1, GoesTypes DEF WalkStep, Next, Step
<1>3. PICK i \in DOMAIN Args : i = arg  BY <1>2
<1>4. Reached(i, n)'  BY <1>2, <1>3
<1>5. Reached(arg, n)  BY <1>2, <1>3, <1>4, ReachedBefore
<1>6. Covered(n)  BY <1>2, <1>5 DEF Cover
<1>7. CASE Settled(arg, n)
  <2>1. Settled(i, n)'  BY <1>2, <1>3, <1>4, <1>7, CoverStays
  <2> QED  BY <1>2, <1>3, <2>1 DEF Covered
<1>8. ASSUME NEW j \in DOMAIN work, work[j] \in Ahead(n) PROVE Covered(n)'
  <2>1. CASE j = 1
    <3>1. Frame \in Ahead(n)  BY <1>1, <1>8, <2>1, GoesStack
    <3> QED  BY <1>5, <3>1, WalkCovers
  <2>2. CASE j # 1  BY <1>1, <1>8, <2>2, LiftTail
  <2> QED  BY <2>1, <2>2
<1> QED  BY <1>6, <1>7, <1>8 DEF Covered

LEMMA CoverStart ==
  ASSUME TypeOK, WalkArgument, PathsRight, NEW n \in Node, Reached(arg, n)
  PROVE  Covered(n)'
<1>1. /\ phase = "next" /\ arg <= Len(Args) /\ UNCHANGED tree /\ UNCHANGED arg /\ UNCHANGED counts
      /\ work' = IF Found(Here, Here) \in {"dir", "locked", "dirlink"}
                 THEN << Call("opendir", Here) >> ELSE SourceWork(Here)
  BY DEF WalkArgument
<1>2. arg \in DOMAIN Args  BY <1>1, ArgsFacts DEF TypeOK
<1>3. Here \in Node /\ Passable(Here) /\ Passable(n) /\ (n = Here \/ Dir(Here) \in Above[n])
  BY <1>2, ReachedFacts
<1>4. LeadsTo(Here, Here)  BY <1>3 DEF LeadsTo
<1>5. kind[Here] \in {"dir", "dirlink", "file", "filelink"}
  <2>1. Steady(Here, Here)  BY DEF Reached, Steady, Here
  <2>2. Checked(arg)  BY <1>1, <1>2 DEF PathsRight
  <2> QED  BY <1>3, <2>1, <2>2 DEF Checked, Here
<1>6. CASE n = Here
  <2>1. CASE kind[n] \in {"file", "filelink"}
    <3>1. Found(Here, Here) = kind[n]  BY <1>4, <1>6, <2>1 DEF Found
    <3>2. work' = SourceWork(n)  BY <1>1, <1>6, <2>1, <3>1
    <3>3. Settled(arg, n)' \/ \E j \in DOMAIN SourceWork(n) : SourceWork(n)[j] \in Ahead(n)'
      BY <1>1, <2>1, SourceCovers
    <3> QED  BY <3>2, <3>3 DEF Covered
  <2>2. CASE kind[n] = "dir"
    <3>1. Settled(arg, n)'  BY <1>1, <2>2, SettledFree
    <3> QED  BY <3>1 DEF Covered
  <2>3. CASE kind[n] = "dirlink"
    <3>1. kind' = kind /\ n = Args[arg'] /\ ~IsSource(n)'  BY <1>1, <1>6, <2>3 DEF tree, Here, IsSource
    <3>2. Settled(arg, n)'  BY <2>3, <3>1 DEF Settled
    <3> QED  BY <3>2 DEF Covered
  <2> QED  BY <1>5, <1>6, <2>1, <2>2, <2>3
<1>7. CASE Dir(Here) \in Above[n]
  <2>1. kind[Dir(Here)] = "dir" /\ Passable(Dir(Here))  BY <1>3, <1>7, TreeFacts DEF Passable
  <2>2. Found(Here, Here) \in {"dir", "dirlink"}
    <3>1. CASE kind[Here] = "dirlink"
      <4>1. Leads(Here)  BY <2>1, <3>1 DEF Dir, Leads
      <4> QED  BY <1>4, <3>1, <4>1 DEF Found
    <3>2. CASE kind[Here] # "dirlink"  BY <1>4, <2>1, <3>2 DEF Found, Dir
    <3> QED  BY <3>1, <3>2
  <2>3. work' = << Call("opendir", Here) >>  BY <1>1, <2>2
  <2>4. Call("opendir", Here) \in Frames  BY <1>3, FrameTypes DEF Names3
  <2>5. Call("opendir", Here) \in Ahead(n)  BY <1>7, <2>4 DEF Ahead, Call
  <2>6. Call("opendir", Here) \in Ahead(n)'
    <3>1. Call("opendir", Here).do # "source"  BY DEF Call
    <3> QED  BY <1>1, <2>5, <3>1, AheadKept
  <2>7. 1 \in DOMAIN work' /\ work'[1] = Call("opendir", Here)  BY <2>3
  <2> QED  BY <2>6, <2>7 DEF Covered
<1> QED  BY <1>3, <1>6, <1>7

LEMMA CoverNext ==
  TypeOK /\ RowsRight /\ EveryArgument /\ PathsRight /\ Cover /\ [Next]_vars => Cover'
<1> SUFFICES ASSUME TypeOK, RowsRight, EveryArgument, PathsRight, Cover, [Next]_vars PROVE Cover'  OBVIOUS
<1>a. arg \in Nat /\ arg >= 1 /\ arg <= Len(Args) + 1 /\ Len(Args) \in Nat
      /\ \A i \in 1 .. arg - 1 : i \in DOMAIN Args
  BY ArgsFacts DEF TypeOK
<1>b. ASSUME arg' = arg, phase # "paths", exit # "usage"
      PROVE  \A i \in 1 .. arg' - 1 : \A n \in Node : Reached(i, n)' => Settled(i, n)'
  <2> SUFFICES ASSUME NEW i \in 1 .. arg - 1, NEW n \in Node, Reached(i, n)' PROVE Settled(i, n)'
    BY <1>b
  <2>1. i \in DOMAIN Args  BY <1>a
  <2>2. Reached(i, n)  BY <2>1, ReachedBefore
  <2>3. Settled(i, n)  BY <1>b, <2>2 DEF Cover
  <2> QED  BY <2>1, <2>3, CoverStays
<1>c. ASSUME arg' = arg, phase' # "walk", phase = "paths" \/ exit = "usage" => phase' = "paths" \/ exit' = "usage"
      PROVE  Cover'
  <2>1. phase' # "paths" /\ exit' # "usage" =>
          \A i \in 1 .. arg' - 1 : \A n \in Node : Reached(i, n)' => Settled(i, n)'
    BY <1>b, <1>c
  <2> QED  BY <1>c, <2>1 DEF Cover
<1>1. CASE CheckPath
  <2>1. phase' = "paths" \/ (phase' = "done" /\ exit' = "usage")  BY <1>1 DEF CheckPath
  <2> QED  BY <2>1 DEF Cover
<1>2. CASE PathsChecked
  <2>1. phase' = "next" /\ arg' = 1  BY <1>2 DEF PathsChecked
  <2>2. 1 .. arg' - 1 = {}  BY <2>1
  <2> QED  BY <2>1, <2>2 DEF Cover
<1>3. CASE WalkArgument
  <2>1. /\ phase = "next" /\ arg <= Len(Args) /\ phase' = "walk" /\ arg' = arg /\ exit' = exit /\ exit = "none"
    BY <1>3 DEF WalkArgument, EveryArgument
  <2>2. ASSUME NEW n \in Node, Reached(arg, n)' PROVE Covered(n)'
    <3>1. arg \in DOMAIN Args  BY <1>a, <2>1, ArgsFacts
    <3>2. PICK i \in DOMAIN Args : i = arg  BY <3>1
    <3>3. Reached(i, n)'  BY <2>1, <2>2, <3>2
    <3>4. Reached(arg, n)  BY <3>2, <3>3, ReachedBefore
    <3> QED  BY <1>3, <3>4, CoverStart
  <2> QED  BY <1>b, <2>1, <2>2 DEF Cover
<1>4. CASE WalkStep
  <2>1. phase = "walk" /\ arg' = arg /\ exit' = exit
    <3>1. PICK more \in Seq(Frames) : Goes(more)  BY <1>4, WalkGoes
    <3> QED  BY <3>1, GoesTypes
  <2>2. exit = "none"  BY <2>1 DEF EveryArgument
  <2>3. \A n \in Node : Reached(arg, n)' => Covered(n)'  BY <1>4, CoverWalk
  <2> QED  BY <1>b, <2>1, <2>2, <2>3 DEF Cover
<1>5. CASE ArgumentDone
  <2>1. phase = "walk" /\ work = << >> /\ phase' = "next" /\ arg' = arg + 1 /\ exit = "none" /\ arg \in DOMAIN Args
    BY <1>5 DEF ArgumentDone, EveryArgument, TypeOK
  <2>2. ASSUME NEW i \in 1 .. arg' - 1, NEW n \in Node, Reached(i, n)' PROVE Settled(i, n)'
    <3>1. i \in DOMAIN Args /\ (i \in 1 .. arg - 1 \/ i = arg)
      BY <1>a, <2>1, ArgsFacts
    <3>2. Reached(i, n)  BY <2>2, <3>1, ReachedBefore
    <3>3. CASE i \in 1 .. arg - 1
      <4>1. Settled(i, n)  BY <2>1, <3>2, <3>3 DEF Cover
      <4> QED  BY <2>2, <3>1, <4>1, CoverStays
    <3>4. CASE i = arg
      <4>1. Covered(n)  BY <2>1, <3>2, <3>4 DEF Cover
      <4>2. DOMAIN work = {}  BY <2>1
      <4>3. Settled(i, n)  BY <3>4, <4>1, <4>2 DEF Covered
      <4> QED  BY <2>2, <3>1, <4>3, CoverStays
    <3> QED  BY <3>1, <3>3, <3>4
  <2> QED  BY <2>1, <2>2 DEF Cover
<1>6. CASE Finish
  <2>1. phase = "next" /\ phase' = "done" /\ arg' = arg /\ exit = "none"
    BY <1>6 DEF Finish, EveryArgument
  <2> QED  BY <1>c, <2>1
<1>7. ASSUME UNCHANGED <<phase, arg, work, runs, rows, exit>> PROVE Cover'
  <2>2. UNCHANGED <<phase, arg, work, runs, rows, exit>>  BY <1>7
  <2>3. ASSUME NEW n \in Node, Reached(arg, n)', phase = "walk" PROVE Covered(n)'
    <3>1. arg \in DOMAIN Args  BY <2>3 DEF TypeOK
    <3>2. PICK i \in DOMAIN Args : i = arg  BY <3>1
    <3>3. Reached(i, n)'  BY <2>2, <2>3, <3>2
    <3>4. /\ Reached(arg, n) /\ kind'[n] = kind[n] /\ kind'[Here] = kind[Here]
          /\ (n \in Sources => golden'[n] = golden[n])
      BY <3>2, <3>3, ReachedBefore DEF Here
    <3>5. Covered(n)  BY <2>3, <3>4 DEF Cover
    <3>6. CASE Settled(arg, n)
      <4>1. Settled(i, n)'  BY <3>2, <3>3, <3>6, CoverStays
      <4> QED  BY <2>2, <3>2, <4>1 DEF Covered
    <3>7. ASSUME NEW f \in Ahead(n) PROVE f \in Ahead(n)'
      <4>1. Here' = Here /\ Dir(Here)' = Dir(Here)  BY <2>2, <3>4 DEF Here, Dir
      <4>2. \A p : Under(p, n)' <=> Under(p, n)  BY <4>1 DEF Under
      <4>3. f \in Frames  BY DEF Ahead
      <4>4. CASE f.do # "source"  BY <3>4, <3>7, <4>1, <4>2, <4>3, <4>4 DEF Ahead
      <4>5. CASE f.do = "source"
        <5>1. f.node = n /\ IsSource(n) /\ (Wanted(n) = {} => f.before = runs) /\ ToldUpTo(f.mode, n)
          BY <4>5, SourceAhead
        <5>2. golden'[n] = golden[n]  BY <3>4, <5>1 DEF IsSource
        <5>3. IsSource(n)' /\ Wanted(n)' = Wanted(n)  BY <3>4, <5>1, <5>2 DEF IsSource, Wanted
        <5>4. ToldUpTo(f.mode, n)'  BY <2>2, <5>1, <5>2 DEF ToldUpTo, Has
        <5> QED  BY <2>2, <4>3, <4>5, <5>1, <5>3, <5>4 DEF Ahead
      <4> QED  BY <4>4, <4>5
    <3> QED  BY <2>2, <3>5, <3>6, <3>7 DEF Covered
  <2>4. phase' # "paths" /\ exit' # "usage" =>
          \A i \in 1 .. arg' - 1 : \A n \in Node : Reached(i, n)' => Settled(i, n)'
    BY <1>b, <2>2
  <2> QED  BY <2>2, <2>3, <2>4 DEF Cover
<1>8. CASE \E n \in Node : Disturb(n)  BY <1>7, <1>8 DEF Disturb, counts
<1>9. CASE UNCHANGED vars  BY <1>7, <1>9 DEF vars, counts
<1> QED  BY <1>1, <1>2, <1>3, <1>4, <1>5, <1>6, <1>8, <1>9 DEF Next, Step, WalkStep

LEMMA PathsRightNext ==
  TypeOK /\ EveryArgument /\ PathsRight /\ [Next]_vars => PathsRight'
<1> SUFFICES ASSUME TypeOK, EveryArgument, PathsRight, [Next]_vars PROVE PathsRight'  OBVIOUS
<1>a. arg \in Nat /\ arg >= 1 /\ arg <= Len(Args) + 1 /\ Len(Args) \in Nat
      /\ \A i \in 1 .. arg - 1 : i \in DOMAIN Args
  BY ArgsFacts DEF TypeOK
<1>b. ASSUME NEW i \in DOMAIN Args, Checked(i) PROVE Checked(i)'
  <2> DEFINE a == Args[i]
  <2>1. a \in Node  BY ArgsFacts
  <2> HIDE DEF a
  <2>2. SUFFICES ASSUME Passable(a)', Steady(a, a)'
                 PROVE  kind'[a] \in {"dir", "dirlink", "file", "filelink"}
    BY DEF Checked, a
  <2>3. \A m \in {a} \cup Above[a] : m \notin disturbed /\ kind'[m] = kind[m]
    <3>1. {a} \cup Above[a] \subseteq Node  BY <2>1, TreeFacts
    <3>2. \A m \in {a} \cup Above[a] : m \notin disturbed'  BY <2>2 DEF Steady
    <3> QED  BY <3>1, <3>2, Untouched
  <2>4. Passable(a) /\ Steady(a, a)  BY <2>2, <2>3 DEF Passable, Steady
  <2> QED  BY <1>b, <2>3, <2>4 DEF Checked, a
<1>c. ASSUME phase' = phase, arg' = arg PROVE PathsRight'
  <2>1. phase = "paths" => \A i \in 1 .. arg - 1 : Checked(i)'  BY <1>a, <1>b DEF PathsRight
  <2>2. phase \in {"next", "walk"} => \A i \in DOMAIN Args : Checked(i)'  BY <1>b DEF PathsRight
  <2> QED  BY <1>c, <2>1, <2>2 DEF PathsRight
<1>d. ASSUME phase \in {"next", "walk"}, phase' # "paths" PROVE PathsRight'
  <2>1. \A i \in DOMAIN Args : Checked(i)'  BY <1>b, <1>d DEF PathsRight
  <2> QED  BY <1>d, <2>1 DEF PathsRight
<1>1. CASE CheckPath
  <2>1. CASE phase' = "done"  BY <2>1 DEF PathsRight
  <2>2. CASE phase' = phase
    <3>1. /\ phase = "paths" /\ arg <= Len(Args) /\ arg' = arg + 1 /\ UNCHANGED tree
          /\ Opens(Here, Here) \/ Readable(Here, Here)
      BY <1>1, <2>2 DEF CheckPath
    <3>2. arg \in DOMAIN Args  BY <1>a, <3>1, ArgsFacts
    <3>3. kind[Here] \in {"dir", "dirlink", "file", "filelink"}
      BY <3>1 DEF Opens, Readable, Found
    <3>4. Checked(arg)  BY <3>3 DEF Checked, Here
    <3>5. ASSUME NEW i \in 1 .. arg' - 1 PROVE Checked(i)'
      <4>1. i \in DOMAIN Args /\ (i \in 1 .. arg - 1 \/ i = arg)  BY <1>a, <3>1, <3>2
      <4>2. Checked(i)  BY <3>1, <3>4, <4>1 DEF PathsRight
      <4> QED  BY <1>b, <4>1, <4>2
    <3> QED  BY <2>2, <3>1, <3>5 DEF PathsRight
  <2> QED  BY <1>1, <2>1, <2>2 DEF CheckPath
<1>2. CASE PathsChecked
  <2>1. phase = "paths" /\ arg > Len(Args) /\ phase' = "next"  BY <1>2 DEF PathsChecked
  <2>2. DOMAIN Args \subseteq 1 .. arg - 1  BY <1>a, <2>1, ArgsFacts
  <2>3. \A i \in DOMAIN Args : Checked(i)'  BY <1>b, <2>1, <2>2 DEF PathsRight
  <2> QED  BY <2>1, <2>3 DEF PathsRight
<1>3. CASE WalkArgument  BY <1>3, <1>d DEF WalkArgument
<1>4. CASE ArgumentDone  BY <1>4, <1>d DEF ArgumentDone
<1>5. CASE Finish  BY <1>5, <1>d DEF Finish
<1>6. CASE \E more \in Seq(Frames) : Goes(more)  BY <1>6, <1>c, GoesTypes
<1>7. CASE \E n \in Node : Disturb(n)  BY <1>7, <1>c DEF Disturb
<1>8. CASE UNCHANGED vars  BY <1>8, <1>c DEF vars
<1> QED  BY <1>1, <1>2, <1>3, <1>4, <1>5, <1>6, <1>7, <1>8, NextCases

-----------------------------------------------------------------------------
(***************************************************************************)
(* The inductive invariant, and what follows from it.                      *)
(***************************************************************************)
Inv == TypeOK /\ RowsRight /\ RowsInTurn /\ EveryArgument /\ PathsRight /\ Once /\ Cover

LEMMA InitInv == Init => Inv
<1> SUFFICES ASSUME Init PROVE Inv  OBVIOUS
<1>1. TypeOK  BY InitTypes
<1>2. /\ rows = << >> /\ runs = 0 /\ work = << >> /\ phase = "paths" /\ arg = 1 /\ exit = "none"
  BY DEF Init
<1>3. DOMAIN rows = {} /\ DOMAIN work = {} /\ 1 .. arg - 1 = {} /\ Len(rows) = 0  BY <1>2
<1>4. RowsRight /\ RowsInTurn /\ EveryArgument /\ PathsRight
  BY <1>2, <1>3 DEF RowsRight, RowsInTurn, EveryArgument, PathsRight
<1>5. Once /\ Cover  BY <1>2, <1>3 DEF Once, Cover, NoneTwice
<1> QED  BY <1>1, <1>4, <1>5 DEF Inv

LEMMA NextInv == Inv /\ [Next]_vars => Inv'
<1> SUFFICES ASSUME Inv, [Next]_vars PROVE Inv'  OBVIOUS
<1>1. TypeOK /\ RowsRight /\ RowsInTurn /\ EveryArgument /\ PathsRight /\ Once /\ Cover  BY DEF Inv
<1>2. TypeOK'  BY <1>1, NextCases
<1>3. RowsRight'  BY <1>1, RowsRightNext
<1>4. RowsInTurn' /\ EveryArgument'  BY <1>1, RowsInTurnNext
<1>5. Once'  BY <1>1, OnceNext
<1>6. PathsRight'  BY <1>1, PathsRightNext
<1>7. Cover'  BY <1>1, CoverNext
<1> QED  BY <1>2, <1>3, <1>4, <1>5, <1>6, <1>7 DEF Inv

\* The rows and counts are well formed at every step, and so is the stack.
THEOREM AlwaysInv == Spec => []Inv
<1>1. Inv /\ UNCHANGED vars => Inv'  BY NextInv
<1> QED  BY InitInv, NextInv, PTL DEF Spec

\* The rows are those of the walk: a run that ends has told every source an
\* argument reaches, in every mode with a golden, and no row is there twice.
THEOREM AlwaysWalkTold == Spec => []WalkTold
<1>1. Inv => WalkTold
  <2> SUFFICES ASSUME Inv PROVE NothingSkipped /\ OnceEach  BY DEF WalkTold
  <2>1. OnceEach  BY DEF Inv, Once, NoneTwice, OnceEach
  <2>2. NothingSkipped
    <3> SUFFICES ASSUME phase = "done", exit # "usage", NEW i \in DOMAIN Args, NEW n \in Node,
                        Reached(i, n), IsSource(n)
                 PROVE  Told(i, n)
      BY DEF NothingSkipped
    <3>1. arg = Len(Args) + 1  BY DEF Inv, EveryArgument
    <3>2. i \in 1 .. arg - 1  BY <3>1, ArgsFacts
    <3>3. Settled(i, n)  BY <3>2 DEF Inv, Cover
    <3> QED  BY <3>3 DEF Settled
  <2> QED  BY <2>1, <2>2
<1> QED  BY <1>1, AlwaysInv, PTL

LEMMA ExitZero ==
  ASSUME Inv, exit = "ok"
  PROVE  /\ fails = 0 /\ (expect # 0 => runs = expect) /\ runs \in Nat /\ rows \in Seq(Lines) /\ Len(rows) = runs
         /\ \A k \in DOMAIN rows : rows[k].ok = TRUE /\ rows[k].what \in Mode /\ rows[k].arg \in DOMAIN Args
         /\ \A i \in DOMAIN Args : \E k \in DOMAIN rows : rows[k].arg = i
         /\ \A i \in DOMAIN Args : \A n \in Node : Reached(i, n) => Settled(i, n)
<1>1. TypeOK /\ RowsRight /\ EveryArgument /\ Cover  BY DEF Inv
<1>2. fails = 0 /\ phase = "done" /\ (expect # 0 => runs = expect) /\ arg = Len(Args) + 1
  BY <1>1 DEF EveryArgument
<1>3. DOMAIN Args = 1 .. arg - 1  BY <1>2, ArgsFacts
<1>4. ASSUME NEW k \in DOMAIN rows
      PROVE  rows[k].ok = TRUE /\ rows[k].what \in Mode /\ rows[k].arg \in DOMAIN Args
  <2>1. rows[k] \in Lines  BY <1>1 DEF TypeOK
  <2>2. rows[k].ok \in BOOLEAN /\ rows[k].arg \in DOMAIN Args  BY <2>1 DEF Lines
  <2>3. ~rows[k].ok => fails > 0  BY <1>1 DEF RowsRight
  <2>4. rows[k].ok = TRUE  BY <1>2, <2>2, <2>3
  <2> QED  BY <1>1, <2>2, <2>4 DEF RowsRight
<1>5. \A i \in DOMAIN Args : \E k \in DOMAIN rows : rows[k].arg = i
  BY <1>1, <1>2, <1>3 DEF EveryArgument
<1>6. \A i \in DOMAIN Args : \A n \in Node : Reached(i, n) => Settled(i, n)
  BY <1>1, <1>2, <1>3 DEF Cover
<1> QED  BY <1>1, <1>2, <1>4, <1>5, <1>6 DEF TypeOK, RowsRight

\* Exit 0 means what it says: nothing that an argument reaches is unread, a
\* link or beside its record, and as many comparisons were made as asked.
THEOREM AlwaysExitZeroIsTrue == Spec => []ExitZeroIsTrue
<1>1. Inv => ExitZeroIsTrue
  <2> SUFFICES ASSUME Inv, exit = "ok" PROVE ExitZeroIsClean /\ ExpectationMet
    BY DEF ExitZeroIsTrue, ExitZeroIsClean, ExpectationMet
  <2>1. ASSUME NEW i, NEW n, NEW what, NEW ok, Has(i, n, what, ok) PROVE ok = TRUE /\ what \in Mode
    <3>1. PICK k \in DOMAIN rows : rows[k] = [arg |-> i, node |-> n, what |-> what, ok |-> ok]
      BY <2>1 DEF Has
    <3>2. rows[k].ok = TRUE /\ rows[k].what \in Mode  BY ExitZero
    <3> QED  BY <3>1, <3>2
  <2>2. ExitZeroIsClean
    <3> SUFFICES ASSUME NEW i \in DOMAIN Args, NEW n \in Node, Reached(i, n)
                 PROVE  /\ kind[n] \notin {"locked", "dangling"} /\ (kind[n] = "dirlink" => n = Args[i])
                        /\ IsSource(n) => {golden[n][m] : m \in Mode} \in {{"same"}, {"same", "none"}}
      BY DEF ExitZeroIsClean
    <3>1. Settled(i, n) /\ fails = 0  BY ExitZero
    <3>2. ASSUME IsSource(n) PROVE {golden[n][m] : m \in Mode} \in {{"same"}, {"same", "none"}}
      <4>1. Told(i, n)  BY <3>1, <3>2 DEF Settled
      <4>2. Wanted(n) # {}
        <5>1. "no goldens" \notin Mode  BY CommandAssumption DEF Whys
        <5> QED  BY <4>1, <5>1, <2>1 DEF Told
      <4>3. ASSUME NEW m \in Wanted(n) PROVE golden[n][m] = "same"
        <5>1. PICK same \in BOOLEAN : same = (golden[n][m] = "same")  OBVIOUS
        <5>2. Has(i, n, m, same)  BY <4>1, <5>1 DEF Told
        <5>3. same = TRUE  BY <5>2, <2>1
        <5> QED  BY <5>1, <5>3
      <4>4. \A m \in Mode : golden[n][m] \in {"same", "none"}  BY <4>3 DEF Wanted
      <4>5. \E m \in Mode : golden[n][m] = "same"  BY <4>2, <4>3 DEF Wanted
      <4> QED  BY <4>4, <4>5
    <3> QED  BY <3>1, <3>2 DEF Settled
  <2>3. ExpectationMet
    <3>1. \A i \in DOMAIN Args : Compared(i) # {}  BY ExitZero DEF Compared
    <3>2. ASSUME expect # 0 PROVE Cardinality(UNION {Compared(i) : i \in DOMAIN Args}) = expect
      <4>1. UNION {Compared(i) : i \in DOMAIN Args} = DOMAIN rows
        <5>1. ASSUME NEW k \in DOMAIN rows PROVE k \in UNION {Compared(i) : i \in DOMAIN Args}
          <6>1. rows[k].ok = TRUE /\ rows[k].what \in Mode /\ rows[k].arg \in DOMAIN Args  BY ExitZero
          <6>2. k \in Compared(rows[k].arg)  BY <6>1 DEF Compared
          <6> QED  BY <6>1, <6>2
        <5> QED  BY <5>1 DEF Compared
      <4>2. DOMAIN rows = 1 .. runs /\ runs = expect /\ runs \in Nat  BY <3>2, ExitZero
      <4>3. Cardinality(1 .. runs) = runs
        <5>1. 1 \in Int /\ runs \in Int  BY <4>2
        <5>2. Cardinality(1 .. runs) = IF 1 > runs THEN 0 ELSE runs - 1 + 1  BY <5>1, FS_Interval
        <5> QED  BY <4>2, <5>2
      <4> QED  BY <4>1, <4>2, <4>3
    <3> QED  BY <3>1, <3>2 DEF ExpectationMet
  <2> QED  BY <2>2, <2>3
<1> QED  BY <1>1, AlwaysInv, PTL
=============================================================================

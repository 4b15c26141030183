------------------------------ MODULE TestVerb ------------------------------
(***************************************************************************)
(* The test verb of bin/main.c: which rows it makes of a tree of files     *)
(* that may change while it walks.                                         *)
(*                                                                         *)
(* The names of the tree are fixed, what stands at a name is not.  The     *)
(* calls inside test_walk are a stack of frames, the innermost first; a    *)
(* frame of a loop keeps its counter.  Each system call is a step.         *)
(***************************************************************************)
EXTENDS Naturals, Sequences, FiniteSets

CONSTANTS
  Node,        \* the names
  Children,    \* Children[n]: the names under n, in byte order
  Above,       \* Above[n]: the names that n is under
  Target,      \* Target[n]: the directory that n leads to, as a link
  Sources,     \* the names with a source suffix
  Modes,       \* the modes, in order
  Args,        \* the PATH arguments
  Expected,    \* what --expect may ask, 0 standing for no such option
  KindsOf,     \* KindsOf[n]: what may stand at n
  GoldensOf,   \* GoldensOf[n][m]: the goldens that may be beside n
  Changes      \* bound: changes to the tree during the run

Kinds == {"absent", "file", "dir", "locked", "dirlink", "filelink", "dangling"}
Goldens == {"none", "same", "differs", "unreadable"}
Mode == {Modes[i] : i \in DOMAIN Modes}
Whys == {"stat", "directory", "symlink", "no goldens"}

\* A name is under its parent and what the parent is under, and a name that is
\* under another is, or is under, one of its children.
ASSUME TreeAssumption ==
  /\ Children \in [Node -> Seq(Node)] /\ Above \in [Node -> SUBSET Node]
  /\ \A p \in Node : \A i, j \in DOMAIN Children[p] :
       /\ Above[Children[p][i]] = {p} \cup Above[p]
       /\ Children[p][i] = Children[p][j] => i = j
  /\ \A n \in Node :
       /\ n \notin Above[n]
       /\ \A p \in Above[n] :
            /\ Above[p] \subseteq Above[n]
            /\ \E i \in DOMAIN Children[p] : Children[p][i] \in {n} \cup Above[n]
            /\ \A q \in Above[n] : p = q \/ p \in Above[q] \/ q \in Above[p]
ASSUME FilesAssumption ==
  /\ Sources \subseteq Node
  /\ KindsOf \in [Node -> SUBSET Kinds]
  /\ GoldensOf \in [Sources -> [Mode -> SUBSET Goldens]]
  /\ Target \in [Node -> Node]
ASSUME CommandAssumption ==
  /\ Args \in Seq(Node) /\ Args # << >> /\ Expected \subseteq Nat /\ Changes \in Nat
  /\ Modes \in Seq(Mode) /\ Mode \cap Whys = {}
  /\ \A i, j \in DOMAIN Modes : Modes[i] = Modes[j] => i = j

VARIABLES
  kind, golden,           \* the tree
  changes, disturbed,     \* ghost: the changes made, the names they touched
  phase,                  \* "paths", "next" (argument), "walk" (one), "done"
  arg, before,            \* the argument, and the runs before it
  work,                   \* the frames of test_walk
  runs, passes, fails,    \* total of test_command
  expect,                 \* --expect N, or 0 without it
  rows,                   \* the lines printed
  exit

tree == <<kind, golden, changes, disturbed>>
counts == <<runs, passes, fails, rows>>
vars == <<tree, phase, arg, before, work, counts, expect, exit>>

-----------------------------------------------------------------------------
(***************************************************************************)
(* What the system calls find at the path of n as argument a writes it.    *)
(***************************************************************************)
Passable(n) == \A m \in Above[n] : kind[m] = "dir"
Dir(n) == IF kind[n] = "dirlink" THEN Target[n] ELSE n

\* The path leads to n: through a, or what a leads to, and directories.
LeadsTo(a, n) == Passable(a) /\ Passable(n) /\ (n = a \/ Dir(a) \in Above[n])
\* A link to a directory that is no longer one dangles.
Leads(n) == Passable(Target[n]) /\ kind[Target[n]] \in {"dir", "locked"}
Found(a, n) ==
  IF ~LeadsTo(a, n) THEN "absent"
  ELSE IF kind[n] = "dirlink" /\ ~Leads(n) THEN "dangling" ELSE kind[n]

\* opendir and readdir: the entries present, or nothing at all.
Opens(a, n) == Found(a, n) = "dir" \/ (Found(a, n) = "dirlink" /\ kind[Target[n]] = "dir")
Listing(d) == {i \in DOMAIN Children[d] : kind[Children[d][i]] # "absent"}
Readable(a, n) == Found(a, n) \in {"file", "filelink"}

\* fopen and read of a golden; on a path that is broken the error is ENOENT or
\* another one.
GoldenFound(a, n, m) == IF LeadsTo(a, n) THEN {golden[n][m]} ELSE {"none", "unreadable"}

Call(what, n) == [do |-> what, node |-> n]
Loop(d) == [do |-> "entries", node |-> d, left |-> Listing(d)]

\* test_source: nothing for a name without a source suffix.
SourceWork(n) ==
  IF n \in Sources THEN << [do |-> "source", node |-> n, mode |-> 1, before |-> runs] >> ELSE << >>

-----------------------------------------------------------------------------
Init ==
  /\ kind \in {k \in [Node -> Kinds] : \A n \in Node : k[n] \in KindsOf[n]}
  /\ golden \in {g \in [Sources -> [Mode -> Goldens]] :
                   \A n \in Sources, m \in Mode : g[n][m] \in GoldensOf[n][m]}
  /\ changes = 0 /\ disturbed = {}
  /\ phase = "paths" /\ arg = 1 /\ before = 0 /\ work = << >>
  /\ runs = 0 /\ passes = 0 /\ fails = 0 /\ rows = << >>
  /\ expect \in Expected /\ exit = "none"

Here == Args[arg]
Frame == Head(work)
Now == Frame.node
Doing(what) == phase = "walk" /\ work # << >> /\ Frame.do = what

\* The innermost call goes on as these frames, or returns.
GoOn(more) ==
  /\ work' = more \o Tail(work)
  /\ UNCHANGED <<tree, phase, arg, before, expect, exit>>

Row(n, what, ok) == [arg |-> arg, node |-> n, what |-> what, ok |-> ok]
Report(row) ==
  /\ rows' = Append(rows, row) /\ runs' = runs + 1
  /\ IF row.ok THEN passes' = passes + 1 /\ UNCHANGED fails
               ELSE fails' = fails + 1 /\ UNCHANGED passes
\* test_fail
Fail(n, why) == Report(Row(n, why, FALSE))

\* is_test_path, for one argument after the other; then the first argument.
CheckPath ==
  /\ phase = "paths" /\ arg <= Len(Args)
  /\ IF Opens(Here, Here) \/ (Here \in Sources /\ Readable(Here, Here))
     THEN arg' = arg + 1 /\ UNCHANGED <<phase, exit>>
     ELSE phase' = "done" /\ exit' = "usage" /\ UNCHANGED arg
  /\ UNCHANGED <<tree, before, work, counts, expect>>

PathsChecked ==
  /\ phase = "paths" /\ arg > Len(Args)
  /\ phase' = "next" /\ arg' = 1
  /\ UNCHANGED <<tree, before, work, counts, expect, exit>>

\* test_walk, which follows a link.
WalkArgument ==
  /\ phase = "next" /\ arg <= Len(Args)
  /\ phase' = "walk" /\ before' = runs
  /\ work' = IF Found(Here, Here) \in {"dir", "locked", "dirlink"}
             THEN << Call("opendir", Here) >> ELSE SourceWork(Here)
  /\ UNCHANGED <<tree, arg, counts, expect, exit>>

\* test_directory, up to its loop.
OpenDirectory ==
  /\ Doing("opendir")
  /\ IF Opens(Here, Now) THEN GoOn(<< Loop(Dir(Now)) >>) /\ UNCHANGED counts
     ELSE GoOn(<< >>) /\ Fail(Now, "directory")

\* The loop over the entries, in byte order.
NextEntry ==
  /\ Doing("entries")
  /\ \/ Frame.left = {} /\ GoOn(<< >>)
     \/ \E i \in Frame.left :
          /\ \A j \in Frame.left : i <= j
          /\ GoOn(<< Call("lstat", Children[Now][i]), [Frame EXCEPT !.left = @ \ {i}] >>)
  /\ UNCHANGED counts

\* Seeded fault: an entry is looked up through its link, as an argument is.
EntryFollowing ==
  /\ Doing("lstat")
  /\ \/ Found(Here, Now) \in {"absent", "dangling"} /\ GoOn(<< >>) /\ Fail(Now, "stat")
     \/ Found(Here, Now) \in {"dir", "locked", "dirlink"}
        /\ GoOn(<< Call("opendir", Now) >>) /\ UNCHANGED counts
     \/ Found(Here, Now) \in {"file", "filelink"} /\ GoOn(SourceWork(Now)) /\ UNCHANGED counts

\* test_entry, up to its first call.
Entry ==
  /\ Doing("lstat")
  /\ \/ Found(Here, Now) = "absent" /\ GoOn(<< >>) /\ Fail(Now, "stat")
     \/ Found(Here, Now) \in {"dir", "locked"}
        /\ GoOn(<< Call("opendir", Now) >>) /\ UNCHANGED counts
     \/ Found(Here, Now) \in {"dirlink", "filelink", "dangling"}
        /\ GoOn(<< Call("stat", Now) >>) /\ UNCHANGED counts
     \/ Found(Here, Now) = "file" /\ GoOn(SourceWork(Now)) /\ UNCHANGED counts

\* test_entry, the look behind a link.
Link ==
  /\ Doing("stat")
  /\ \/ Found(Here, Now) \in {"absent", "dangling"} /\ GoOn(<< >>) /\ Fail(Now, "stat")
     \/ Found(Here, Now) \in {"dir", "locked", "dirlink"} /\ GoOn(<< >>) /\ Fail(Now, "symlink")
     \/ Found(Here, Now) \in {"file", "filelink"} /\ GoOn(SourceWork(Now)) /\ UNCHANGED counts

ThisMode == Modes[Frame.mode]
ModeLeft == Doing("source") /\ Frame.mode <= Len(Modes)
NextMode == GoOn(<< [Frame EXCEPT !.mode = @ + 1] >>)

\* Seeded fault: a golden that does not open is a golden that is not there.
TestRowLenient ==
  /\ ModeLeft
  /\ \E found \in GoldenFound(Here, Now, ThisMode) :
       \/ found \in {"none", "unreadable"} /\ UNCHANGED counts
       \/ found \in {"same", "differs"}
          /\ \E ok \in BOOLEAN :
               /\ Readable(Here, Now) => ok = (found = "same")
               /\ Report(Row(Now, ThisMode, ok))
  /\ NextMode

\* Seeded fault: without a golden the loop over the modes goes on to the same one.
TestRowStuck ==
  /\ ModeLeft
  /\ \E found \in GoldenFound(Here, Now, ThisMode) :
       \/ found = "none" /\ UNCHANGED counts /\ GoOn(<< Frame >>)
       \/ found # "none" /\ Report(Row(Now, ThisMode, found = "same")) /\ NextMode

\* test_row.  What the row answers for a source that is no longer there is open.
TestRow ==
  /\ ModeLeft
  /\ \E found \in GoldenFound(Here, Now, ThisMode) :
       \/ found = "none" /\ UNCHANGED counts
       \/ found = "unreadable" /\ Report(Row(Now, ThisMode, FALSE))
       \/ found \in {"same", "differs"}
          /\ \E ok \in BOOLEAN :
               /\ Readable(Here, Now) => ok = (found = "same")
               /\ Report(Row(Now, ThisMode, ok))
  /\ NextMode

\* The end of test_source.
SourceDone ==
  /\ Doing("source") /\ Frame.mode > Len(Modes)
  /\ GoOn(<< >>)
  /\ IF runs = Frame.before THEN Fail(Now, "no goldens") ELSE UNCHANGED counts

\* The end of an argument in test_command.
ArgumentDone ==
  /\ phase = "walk" /\ work = << >>
  /\ IF runs = before THEN Fail(Here, "no goldens") ELSE UNCHANGED counts
  /\ phase' = "next" /\ arg' = arg + 1
  /\ UNCHANGED <<tree, before, work, expect, exit>>

Finish ==
  /\ phase = "next" /\ arg > Len(Args)
  /\ phase' = "done"
  /\ exit' = IF (expect # 0 => runs = expect) /\ fails = 0 THEN "ok" ELSE "fail"
  /\ UNCHANGED <<tree, arg, before, work, counts, expect>>

\* Another process changes what stands at a name, or a golden.
Disturb(n) ==
  /\ phase # "done" /\ changes < Changes
  /\ changes' = changes + 1 /\ disturbed' = disturbed \cup {n}
  /\ \/ \E k \in KindsOf[n] : k # kind[n] /\ kind' = [kind EXCEPT ![n] = k] /\ UNCHANGED golden
     \/ /\ n \in Sources
        /\ \E m \in Mode : \E g \in GoldensOf[n][m] :
             g # golden[n][m] /\ golden' = [golden EXCEPT ![n][m] = g]
        /\ UNCHANGED kind
  /\ UNCHANGED <<phase, arg, before, work, counts, expect, exit>>

Step ==
  \/ CheckPath \/ PathsChecked \/ WalkArgument \/ OpenDirectory \/ NextEntry \/ Entry \/ Link
  \/ TestRow \/ SourceDone \/ ArgumentDone \/ Finish
Next == Step \/ \E n \in Node : Disturb(n)
Spec == Init /\ [][Next]_vars /\ WF_vars(Step)

-----------------------------------------------------------------------------
\* n is under argument i by a path of directories that nobody touched.
Steady(a, n) == ({a, n} \cup Above[a] \cup Above[n]) \cap disturbed = {}
Reached(i, n) == LeadsTo(Args[i], n) /\ Steady(Args[i], n)

Has(i, n, what, ok) == [arg |-> i, node |-> n, what |-> what, ok |-> ok] \in {rows[k] : k \in DOMAIN rows}

\* A run that walked everything has, for every argument, a row for each golden
\* that was there all the time beside a source that was, whatever went wrong
\* elsewhere; and a row that says so for a source without any.
Wanted(n) == {m \in Mode : golden[n][m] # "none"}
Told(i, n) ==
  /\ Wanted(n) = {} => Has(i, n, "no goldens", FALSE)
  /\ \A m \in Wanted(n) : Has(i, n, m, golden[n][m] = "same")
IsSource(n) == n \in Sources /\ kind[n] \in {"file", "filelink"}
NothingSkipped ==
  phase = "done" /\ exit # "usage" =>
    \A i \in DOMAIN Args : \A n \in Node : Reached(i, n) /\ IsSource(n) => Told(i, n)

\* No argument tests a source twice in a mode, whatever the links are: rows
\* are told apart by argument, name and mode.  (A directory that becomes a link
\* after lstat looked at it is followed, so this speaks of the other changes.)
LinksStay == \A n \in disturbed : "dirlink" \notin KindsOf[n]
SameRow(r, s) == r.arg = s.arg /\ r.node = s.node /\ r.what = s.what
OnceEach == LinksStay => \A j, k \in DOMAIN rows : SameRow(rows[j], rows[k]) => j = k

\* The rows are those of the walk: none is missing and none is told twice.
WalkTold == NothingSkipped /\ OnceEach

\* Exit 0 speaks of the whole tree: nothing under the arguments that stayed as
\* it was is a directory not read, a link not followed, a source without a
\* golden or with a golden that is not the record.
ExitZeroIsClean ==
  exit = "ok" =>
    \A i \in DOMAIN Args : \A n \in Node :
      Reached(i, n) =>
        /\ kind[n] \notin {"locked", "dangling"} /\ (kind[n] = "dirlink" => n = Args[i])
        /\ IsSource(n) => {golden[n][m] : m \in Mode} \in {{"same"}, {"same", "none"}}

\* --expect N: exit 0 says that exactly N comparisons were made, and at least
\* one for every argument.
Compared(i) == {k \in DOMAIN rows : rows[k].what \in Mode /\ rows[k].ok /\ rows[k].arg = i}
ExpectationMet ==
  exit = "ok" =>
    /\ \A i \in DOMAIN Args : Compared(i) # {}
    /\ expect # 0 => Cardinality(UNION {Compared(i) : i \in DOMAIN Args}) = expect

\* Exit 0 means what it says: a clean tree, and as many comparisons as asked.
ExitZeroIsTrue == ExitZeroIsClean /\ ExpectationMet

\* The walk ends, over any links and while the tree changes.
Terminates == <>(phase = "done")
=============================================================================

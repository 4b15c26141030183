# sole-comb: verification project

TLA+ models of the sole-comb compiler front end (`src/`), the TLC runs that
check them and the TLAPS proofs about them.

## 1. The system

sole-comb checks programs of a dependently typed language with quantities
(0 erased, 1 linear, w unrestricted). Its types are Kan extension formers `Lan`
and `Ran` over shapes (a dependent point, a finite collection, a parallel pair,
an inductive or a coinductive family) with one eliminator. The program is C with
one thread, run on a big stack, so nothing is concurrent; what is hard in it is
state that outlives a step: usage maps indexed by levels that are reused, a
persistent map of globals of which several versions are alive, caches keyed by
addresses, an arena that is rewound, groups of declarations that are half
admitted, and searches that must end.

A run of `check`:

    bin/main.c  ->  surface_lexer/token/source/parser/syntax      (text to AST)
                ->  surface_program: for each declaration
                        surface_elab*, surface_family, _record, _sugar, _constructor*
                        surface_totality -> surface_order          (certificates)
                        kernel_check -> kernel_rules -> kernel_conv, kernel_eval,
                                        kernel_quantity, kernel_positivity
                        kernel_recursor*                           (nested families)
                        kernel_global                              (the new globals)
                ->  erase_*                                        (with --erased)

`test` walks directories and does this once per golden file, in one process,
releasing the arena after each row.

### Components

| component | source | state it keeps | operations | what makes it correct | hard part |
|---|---|---|---|---|---|
| Arena, host runtime | `lib/runtime.c` | chain of blocks, bump pointer, room | alloc, mark, release; text builder | live cells are apart, aligned, inside blocks held; a release gives back exactly what came after its mark | order of marks, blocks at the boundary |
| Quantities | `lib/kernel_quantity.c` | none; usage maps are values | add, scale, alternative, capture, remove | an interval encloses every run's consumption | saturation, unreachable branches |
| Linearity of the rules | `lib/kernel_check.c`, `lib/kernel_rules.c` | context of locals, usages in hand | open and close scopes, branch, capture, alias | a linear local is consumed exactly once on each run | levels reused, closures, aliases |
| Checking host | `lib/kernel_check.c`, `lib/kernel_budget.c` | fuel | infer, check, declarations | ends within its fuel; refuses with one error | budget spent in nested calls |
| Rules per shape, positivity | `lib/kernel_rules.c`, `lib/kernel_shape.c`, `lib/kernel_positivity.c` | none | formation, introduction, elimination | typing | telescopes, indices |
| Evaluation and its caches | `lib/kernel_eval.c`, `lib/kernel_value.c` | cached answers in term, entry and head cells | eval, force, read back | a cached answer is what a fresh evaluation answers | keys are addresses of globals; rows reuse addresses |
| Conversion | `lib/kernel_conv.c`, `lib/kernel_level.c` | fuel | conv, eta, proof irrelevance | equal values convert; ends | caught refusals |
| Terms, literals, printing | `lib/kernel_term.c`, `lib/kernel_literal.c`, `lib/kernel_pp.c` | none | scan, shift, closed, print | binder counts | |
| Globals | `lib/kernel_global.c` | persistent map of entries and families | add, add_family, find | an admission only adds | names declared twice |
| Program admission | `lib/surface_program.c`, `lib/surface_elab_program.c`, `lib/surface_check.c` | globals, checked rows, group in progress | def, axiom, rec group, mu group | each declaration is admitted whole or not at all; unfolding ends | provisional globals, partial failure |
| Structural order, totality | `lib/surface_order.c`, `lib/surface_totality.c` | work list of the walk, position tried | certify, translate | a certified group descends on one argument | binder statuses, first fit |
| Elaboration | `lib/surface_elab.c`, `_family`, `_record`, `_sugar`, `_constructor*` | scopes, holes | resolve names, infer constructors, desugar | scoping | name clashes |
| Lexer to parser | `lib/surface_lexer.c`, `_token`, `_source`, `_parser`, `_syntax` | position, fuel | tokens, expressions, declarations | progress, layout | |
| Recursor encoding | `lib/kernel_recursor*.c` | none | fields, hypotheses, motives, branches, coverage | an elimination with hypotheses computes by its branches | indices and levels of the binders it makes |
| Erasure | `lib/erase_*.c` | counter of lifted functions, dependencies | lower core terms | runtime meaning kept | what is dropped shifts every later index; nested lifts |
| Foundation | `lib/foundation.c` | ternary trie, big naturals, 63-bit integers | insert, remove, find; arithmetic | trie is a map; wrap-around | deletions, carries |
| Command line, `test` verb | `bin/main.c` | walk, counts | check, test | counts agree with rows, exit code | trees that change, symlinks |
| Pinned-form front end, tooling | `test/runner.c`, `dev/` | none | feeds `.kan` files to the kernel | | |

### How they interact

* Calls only; the shared state is the arena (all cells), the globals map handed
  from one declaration to the next, and the caches inside cells.
* The walk of `test` owns names below each row's mark; a row owns everything
  above it. The caches in cells are safe across rows only because no cell with a
  cached answer outlives the row (`Memo`).
* Admission hands a *provisional* globals to the checker while a group is being
  checked and the final one afterwards; the same terms are evaluated under both
  (`Program`, `Memo`).
* The kernel's rules, conversion and evaluator call each other: a rule infers by
  evaluating and converting, conversion infers to ask whether a value is a proof
  (`Typing` over `Eval` over `Terms`). Erasure asks the same kernel for types
  (`Erase` over `Kernel`).
* The certificate of `surface_order.c` decides whether a definition unfolds
  freely or only on a constructor (`Order`, and its consequence in `Program`).

## 2. Modules

| module | models | checked in | proved in |
|---|---|---|---|
| `Quantity` | the semiring, intervals and usages of `kernel_quantity.c`, one local at a time | `linear_rules` | `LinearProofs` |
| `Linear` (extends `Quantity`) | how the checking rules open and close scopes and combine usages | `linear_rules` | `LinearProofs` |
| `Arena` | `arena_alloc`, `arena_mark`, `arena_release` over a `malloc` that answers any free range | `arena_rows` | `MemoryProofs` |
| `Admission` | abstract: what checking a program promises, one declaration one step | as `AtomicAdmission` | |
| `Program` | `program_loop`, rec groups and mu groups; implements `Admission` | `program_*` | `ProgramProofs` |
| `Memo` | the caches of the evaluator over the rows of `test` | `memo_cells` | `MemoryProofs` |
| `Order` | certify, walk, first fit and translate of `surface_order.c` | (through `OrderMC`) | `OrderProofs` |
| `OrderTerms` (extends `Order`) | a second reading of what the bodies hold, without statuses and jobs | (through `OrderMC`) | `OrderProofs` |
| `UsageRows` (extends `Quantity`) | the sorted lists of rows that usages are: merge, scale, search, cut | `usage_rows` | `UsageRowsProofs` |
| `TestVerb` | the walk, rows, counts and exit code of `test`, a system call a step | `test_verb` | `TestVerbProofs` |
| `KeyMap` | abstract: what a map from texts promises | as `ImplementsKeyMap` | |
| `Trie` | `Map` of `foundation.c`, a node a step; implements `KeyMap` | `trie_keys` | `TrieProofs` |
| `Words` | the wrap of a machine word, shared by `Limbs` and `Decimal` | | |
| `Limbs` | `Bignum` sums, differences, products, conversions; `Int63` | `numbers_small` | `NumbersProofs` |
| `Decimal` | `bignum_of_decimal`, `bignum_muladd`, `bignum_to_string` | `numbers_small` | `NumbersProofs` |
| `Terms` | core terms, values, globals, and the scans of terms (`kernel_term.c`, `kernel_shape.c`) | (through `KernelMC`) | |
| `Eval` (extends `Terms`) | evaluation of each form, when a global unfolds, read back, primitives | (through `KernelMC`) | |
| `Typing` (extends `Eval`) | infer and check of each form and shape, conversion, universes, families and positivity, recursors, fuel | (through `KernelMC`) | |
| `Kernel` (extends `Typing`) | the admission of statements by the kernel, and what an admitted program promises | `kernel_programs`, `kernel_witness` | |
| `Erase` (extends `Kernel`) | type-directed erasure, the lifting of closures, and a machine that runs the code | `kernel_programs` | |

The modules ending in `MC` only give values to constants.

Each definition that models code is listed in `PROJECT.json` with the lines it
stands for. An operator whose comment starts with "Seeded fault" is a plausible
bug in the definition after it; no specification uses it. For every property of
every passing run `PROJECT.json` names one of them that TLC finds violating the
property, so the property can fail.

### Quantity and Linear

`Linear` is a stack machine. `stack` holds the usages that the pending C calls
have in hand, `locals` the checking context, and one action is one rule of the
checker: `ReadLocal`, `Closed` (a closed subterm), `InSequence`, `Scaled` and
`Closure` entries, `Open`/`CloseLambda`/`CloseArm`/`CloseAlias`, `BareArm`,
`NoArms`, `FoldArm`, `Eliminate`. Types are left out: what a rule decides by
types (which quantity a binder has, which mode a part is checked in) is an open
choice, so the model allows at least the behaviours of the code. Two ghosts in
every usage, `runs` and `dead`, say what each way of running the term consumes.
`refused` is a quantity error.

### Arena

`chain`, `next`, `left` are `arena_first`..`arena_block`, `arena_next` and
`arena_left`. A block pointer is a position in the chain. `malloc` may answer any
aligned free range of a finite address space, one it was given back included, or
NULL. `marks` are held by callers as a stack, as in `test_row` and the walk;
`cells` is a ghost.

### Admission and Program

A term is the set of names it mentions. `Program` has one action per step of
`program_loop` and of the group functions it calls: `Ordinary`; `RecPostulate`,
`RecGuard`, `RecAdmit`, `RecInstall`; `MuFresh`, `MuDeclare`, `MuDeclared`,
`MuDefine`, `MuInstall`; `Refuse` and `Finish`. Typing and fuel may refuse any
step. `Admission` is the same contract with one step per declaration;
`AtomicAdmission` is `Program` implementing it (the globals and rows a client can
see are those of the last finished declaration).

### Memo

`heap` is the arena above the initial cells; addresses are positions, and a new
row allocates from the mark again, so it gets the addresses of the row before.
`Evaluate`, `ForceHead` and their helpers write the caches the way `eval_term_kept`,
`eval_term_keep`, `eval_memo_body`, `eval_find_seen` do. `EvalStep` is one call of
`eval_eval_step`, given what the calls in it answer; `Eval` nests them, as deep as
there are cells, and section 4 shows that no call nests deeper. `Fresh` is the
reference: evaluation without caches, over the cells as they are.

`Admits` leaves out one kind of source: a definition whose names unfold back to it.
The code admits some of these (section 6) and evaluates them for ever, so nothing
can be said of the answer. `Unfolds` says it without a recursion: the names that
the new body mentions are in a set that is closed under unfolding in the map the
definition is added to, and does not have the name it defines.

### Order and OrderTerms

`jobs` is the work list of `walk`, `rows` the recorded calls, `k` the position
tried. A term keeps what the walk looks at (section 1 of the module header);
shapes, addresses and types are "parts". `den`, a ghost, says what each binder
stands for: a formal, a part of a formal, or something else.

`Mentioned` is `surface_order_mentions`: the members that a term names, however
deep, found over the terms alone. A member may mention the group only in the type of
a formal, which `peel` drops; its flag `types` says that it does. Such a mention
counts where the code asks the whole bodies, whether a certificate is needed
(`any_calls`) and whether a member is translated (`Calling`), but not where it asks
the peeled ones, for the positions to try (`bound`, here `InBody` and `InBound`).

`OrderTerms` is the reference the certificate is compared with. A *reading* is a
term with what its binders stand for; `Occurrences` is the recursive function from
a reading to the occurrences of members in it and what they pass. `FirstFit` speaks
of these occurrences only (`Holders`, `Fits`), not of the bound: a group that some
body calls is refused as unfit only if no argument of any member fits, whichever
positions the code tried. `OrderMC` has the terms of the run.

### UsageRows

`Quantity` treats a usage as a function of the level; the code keeps a list with
one row per level, lower levels first. `rows` is such a list and `meaning`, a
ghost, the function it should be. `Begin`, `TakeLeft`, `TakeRight`, `TakeBoth`
and `End` are the loop of `quantity_combine`, under each pair of joins the code
calls it with; `ScaleRows` and `RemoveRow` are whole calls.

### TestVerb

The names of a tree are fixed and what stands at each (`kind`, `golden`) is not:
`Disturb`, another process, changes one name or golden between any two system
calls. `phase` says where `test_command` is: checking paths, before the next
argument, walking one, done. `work` is the call stack below `test_walk`, the
innermost frame first. A call that has yet to ask the system is a frame
(`opendir`, `lstat`, `stat`); the loop of `test_directory` is a frame with the
entries that are left; the loop of `test_source` is a frame with the mode it is at
and the count of runs it began with. Each step does the innermost frame and puts
its calls in its place.

`LeadsTo`, `Leads` and `Found` are what a system call finds under a path as the
argument writes it: a path through a name that is no directory any more finds
nothing, also where the argument was a link to the directory, and a link to a
directory that is gone dangles. A golden on such a path is absent or unreadable
(`GoldenFound`), since the error `fopen` gives may be `ENOENT` or `ENOTDIR`. `Opens`
and `Listing` are `opendir` and `readdir`; one call of `directory_names` is one step.
What a row answers when its source vanished after the golden was opened is open.

### Terms, Eval, Typing, Kernel

The kernel is a pure function of the globals, the statement and the budget, so
most of it is operators: `Terms` has the data, `Eval` the evaluator of
`kernel_eval.c`, `Typing` the rules of `kernel_check.c`, `kernel_rules.c`,
`kernel_conv.c`, `kernel_level.c`, `kernel_positivity.c` and `kernel_recursor*.c`.
A result is an answer with the fuel it left, or a refusal; the refusals the code
catches (in `conv_is_prop`) are caught at the same places with the fuel they leave.
`Kernel` is the state machine: a program is submitted statement by statement, each
under a budget, and a step admits or refuses the next one. What the project says
of an admitted program are action properties of that step.

Names of binders and the wording of refusals are left out. Where the code answers
a question by a flag of the evaluator the model does too: a branch with induction
hypotheses is refused by the evaluator ("delayed recursive evaluation"), so a term
that needs one is a `Delays` and the properties about computing leave it out. A
stuck elimination keeps its motive and branches as they were written, without
their environment (`kernel_eval.c:737-770`), so `NormalForms` speaks of values
without one. `RECURSOR_ABSTRACT`, a scope that no caller in `src/` asks for, is
not modelled.

### Erase

`Erase` follows `erase_core.c` form by form: what is dropped (types, propositions,
fields and arguments at quantity 0), how the indices of what is kept shift, and how
closures become functions with their captures, named by a counter that is threaded
through nested lifts. `RunCode` and `Apply1` are the reference: a machine that runs the erased
code by value, by its own rules. `ErasedAgrees` compares its answer with the normal form
of the term that was erased; `CodeWhole` says that no two functions share a name, that a
body reads only its parameters, and that a closure gives the function it names what
that function takes. The representations of
types (names of layouts), the printer and the dependency lists are left out.

### Trie, Limbs, Decimal

`Trie` has one call at a time on one map. `cells` are the nodes allocated, an address
is a position and 0 is `map_empty_cell`; a node is never written again, so maps share
nodes. `node`, `at`, `path` are the locals of `map_descend` and `map_rebuild`, `upto`
that of the loop of `map_singleton`, `todo` and `out` those of `map_bindings`; the
frames of `path` carry the key's position as a ghost. `Bound` reads the bindings off
the shape of the nodes, oldest first, without following a key.

`Limbs` and `Decimal` take base, word, radix and chunk as constants (32768, 2^32,
10 and 5 in the code) and run each loop a limb at a time on words that wrap
(`U32`). `wanted` is the integer a call should answer; `Decimal` reads a text and
shows it again. The first pass of `to_string` starts from the limbs that
`of_decimal` left, which nothing trims; they turn out never to need it (section 4).

## 3. Runs

| run | asks | bounds, and why they are enough |
|---|---|---|
| `linear_rules` | types, intervals enclose runs, linear binders once, nothing refused spuriously, aliases equal inlining | 2 levels, 3 usages in hand, 8 rules, modes 0 and 1 (every binder quantity): a scope in a scope, a fold of two arms under a scrutinee, a capture of an outer local, a let in a function. The mode w is in the proofs, which cover all modes |
| `arena_rows` | live cells apart and in held blocks; a release gives back exactly what came after its mark | granule 2, block 6, 22 addresses, sizes 0, 3, 8 (nothing, rounded, larger than a block), 2 nested marks |
| `program_groups` | unfolding ends, meanings stay, constructor names unique, groups installed whole, admission atomic | 2 declarations, groups of 2, types and bodies of 1 name, 3 names: mutual recursion and a later user, families that mention each other |
| `program_redeclared` | violation: a name declared twice | 3 declarations |
| `memo_cells` | caches answer fresh values; what a cache holds is right under the map of its key | two records of bounds: 2 rows of 8 cells, one after the other at the same addresses; 1 row of 10 cells with three maps, a name redeclared under a definition that mentions it; open and closed nodes |
| `order_groups` | no certificate is asked for only when no body holds a call; a certificate covers every call; the first position that fits is chosen, and a refusal is for want of one or for a formal's type; the search ends | two members, 0 to 2 formals, with and without a mention in a formal's type, up to 2 arguments; calls under one elimination, let or lambda, under two when the outer one is an elimination, and in each place of a term a walk could miss |
| `usage_rows` | lists mean what the functions of `Quantity` say | 3 levels, 3 intervals, lists of 0 to 3 rows on either side, operations in any order |
| `test_verb` | what the rows tell of the tree, exit 0 is true, the walk ends | a directory with a source and a directory (or link back, or locked) with another; goldens absent, right, wrong, unreadable; two arguments, one of them a link; one change at any moment |
| `trie_keys` | the tree implements a map; bindings in order | 6 texts over 3 codes, prefixes and both sides of a code; 4 calls |
| `numbers_small` | no wrap, exact, buffers large enough, what is read is shown | base 4, word 32, numbers of 0 to 3 limbs of either sign (borrows and carries through a whole number), a 63-bit integer of the range -32 to 31; radix 2, chunks of 3, texts of up to 9 digits (three flushes, one limb and two limbs of carry) |
| `kernel_programs` | what an admitted program promises, and its erased code | eight plans of two or three statements (functions at each quantity, families, eliminations, equalities and transports, recursion, recursors, pairs, type-level choice), some 8000 programs well and ill typed; budgets 16, 24, 40 (which run out inside them) and 200 (which never does) |
| `kernel_witness` | violation: a postulate at one function is a witness at another | one program |

`CHECK_DEADLOCK FALSE` is said where the modelled run of the program ends: the
check refused or ran out of its bound (`Linear`), memory or the address space is
used up (`Arena`), the last row (`Memo`), the source is finished (`Program`), the
certificate is answered (`Order`), the exit code is known (`TestVerb`), the calls
are used up (`Trie`), the call has answered (`Limbs`, `Decimal`), the program is
submitted (`Kernel`). `usage_rows` has no such end and checks deadlock.

`Redeclare = FALSE` in the passing runs of `Program` restricts them to sources
that define a name once; `program_redeclared` shows what the code does with the
others (section 6). The second bounds of `memo_cells` include redeclared names,
since the caches have to be right for them too.

Fairness: `Order` (`Answers`) and `TestVerb` (`Terminates`) have a liveness
property, under weak fairness of the steps of the program. The code is sequential
and takes the next step whenever there is one, so nothing weaker describes it. The
other process of `TestVerb` has no fairness, and makes at most `Changes` changes.

## 4. Proofs

TLAPS checks the following for every value of the constants that satisfies the
named assumptions (`DepthAssumption`, `BoundAssumption`, `ArenaConstants`,
`SizeAssumption`, `BodiesAssumption`, `TreesAssumption`, `HeightAssumption`, `BaseAssumption`,
`WordAssumption`, `Int63Assumption`, `RadixAssumption`, `PowerAssumption`,
`ChunkAssumption`, `LimbAssumption`, `IntervalsAssumption`, `ProgramConstants`,
`TreeAssumption`, `FilesAssumption`, `CommandAssumption`, `KeysAssumption`,
`MemoConstants`).

* `LinearProofs`. `Typing`, `HullsEnclose`, `LinearBindersOnce` (an accepted
  scope consumes its linear binder exactly once on every run),
  `NothingRefusedInVain` (where no run ends dead, a refusal has a run that
  deserves it) and `AliasesInline`. The inductive invariant `IInv` is typing, scopes
  that nest, *every usage in hand encloses its runs*, *every term in hand has a run
  or a dead end* and *where no run ends dead the ends of an interval are reached*
  (`Tight`). The fourth part is needed because an empty set of runs satisfies any
  interval; enclosing alone is not inductive through an elimination without branches.
  The fifth is what makes a refusal deserved, and it says of reads as well that
  they are what the paths consume: a capture turns reads into paths, so slack in the
  one would become slack in the other. `AliasesInline` has an invariant of its own
  (`Aliased`): the definition of an open let stays in hand below everything that
  its body pushes, and if the alias is not linear, it reads no linear binder.
* `ProgramProofs`. Of every source: `ShapeInvariant`, `CtorsAlwaysUnique`,
  `GroupAlwaysInstalled`. Under `~Redeclare`, that is, of the sources that define a
  name once: `UnfoldingAlwaysEnds`, `MeaningsAlwaysStay` and `AdmissionIsAtomic`,
  the refinement of `Admission`, whose steps map to one admission or to a stutter.
  `Shape` says how far the group in work is and how its provisional globals differ
  from those it began with. `Once` says that what a name meant when a declaration
  mentioned it is what it means now, and that what unfolds freely mentions only
  what was admitted before it; so unfolding descends through the order of admission
  and ends, without a bound on the number of names. `Once` is where the hypothesis
  is used: `program_redeclared` shows that it and `UnfoldingEnds` fail without it.
* `UsageRowsProofs`. `InvInvariant`, `RowsAlwaysRight`: for contexts of any depth
  and lists of any length. `Ordered` says that what the merge has made lies below
  what is left of both lists, which is why its result is sorted and a level is
  never written twice; `Split`, that each level has its row already, or gets the
  join of what is left.
* `MemoryProofs`, of `Arena`. `Typing`, `CellsNeverOverlap`, `CellsNeverFreed`,
  `ReleaseRestores`. The invariant says of the present state, and of every mark's
  prefix of it, that chain, bump pointer and cells fit together, and that marks are
  nested: a release brings back a state that was sound when the mark was taken and
  that nothing changed since.
* `MemoryProofs`, of `Memo`. `AlwaysMemoInv`, `AlwaysAnswersFresh` and
  `AlwaysCachesRight`, for any names and values of locals, rows of any length and any
  number of them. The invariant is that below a row there is nothing but the static
  term and paths (`Framed`), that an address in a cell is that of a cell of the right
  kind (`Wired`), that under each map a number falls from a term to its part and to
  the body it unfolds to (`Grounded`), and that each cache is right under the map of
  its key (`Right`). `Framed` is why a row may find the addresses of the row before:
  nothing that could hold one of them as a key outlives `arena_release`. `Grounded`
  is what makes the value of a term well defined (`FreshEquation`); a new definition
  keeps it because terms whose names unfold without its name keep their numbers and
  the others go above all of them (`DefEnds`). A larger heap changes no value
  (`FreshGrows`), since cells point to cells there are, and a closed term has one
  value whatever the environment (`ClosedSame`), which is what `eval_term_keep`
  relies on. One evaluation is then an induction on the depth of its calls
  (`EvalRight`): a call answers what `Fresh` does and leaves the caches right, if
  the calls in it do; its calls nest no deeper than there are terms with smaller
  numbers (`Rank`), and these are fewer than the cells. A map made later is another
  key, so adding definitions, a name a second time included, disturbs no cache.
* `OrderProofs`. `AlwaysDescends`, `AlwaysStatusRight`, `AlwaysChainsRemember`,
  `AlwaysCertificateRight` and `AlwaysFirstFit`, for any set of finite terms closed
  under subterms, any group, any number of formals. The first invariant (`IInv`) is that
  every waiting job is good: as many statuses as binders, each right about its
  binder, and a chain that is not empty if a smaller variable is in scope. Calls
  are then right when they are recorded. That the certificate misses nothing needs
  a second one (`CertInv`): *an occurrence that the body holds is held by a waiting
  job, or it decreases and is recorded; nothing else waits or is recorded*. A step
  keeps it because the jobs it adds for a term read exactly what the reference
  reads in the term (`ReadingsOfJobs`); when no job waits, everything is recorded.
  The third (`FitInv`) is for refusals: where a let's variable stands for nothing,
  the statuses in scope are a function of what the binders stand for (`Traced`), so
  a walk that gives up has met an occurrence that does not decrease. The two
  readings differ in lets because the walk gives a let's variable the status
  "other" even if it is another name of a smaller one: it may refuse a position that
  fits, and never certifies one that does not. That a refusal leaves out no position takes two
  facts about terms. `Mentioned` is what the occurrences name, whatever the binders
  stand for (`MentionedNamed`), so the members whose formals bound the search are
  those that hold an occurrence (`InBodyHolds`); and an occurrence passes only parts
  of its member's formals, so none decreases at a position beyond them (`HeldBelow`).
  Both are by induction on the height of terms (`TermInduction`), which
  `HeightAssumption` allows: the terms of the code are finite, built from the leaves.
  Of `Occurrences` the proofs use only that it solves its equation
  (`OccurrencesIn`), for which `Collected` is a solution.
* `NumbersProofs`, of `Limbs`. `Typing`, `WordsNeverWrap` and `AlwaysExact`, for every base whose
  square is a word and operands of every length. That no word wraps is an argument
  about digits of a mixed base: a limb times a factor plus a carry below the factor
  is below base times factor, so the new carry is below the factor again. That the
  answers are the integers they should be is the invariant `Valued`: *the limbs
  made so far, with what is left of the operands and the carry above them, are the
  number wanted*. A subtraction needs besides that what is left is not negative,
  since that is why no borrow is left over at the end; a product, that the cells
  above the row in work are still blank. `Int63Assumption` says how many limbs 62
  bits take. Numerals are the function `Horner`, about which `HornerStep`,
  `HornerSplit`, `HornerLast`, `HornerSame` and `HornerSign` say all that the loops
  need.
* `NumbersProofs`, of `Decimal`. `TextTyping`, `TextWordsNeverWrap`,
  `NeverOutOfRoom` and `ShownAsWritten`, for texts of every length. For the words,
  the chunk read is below its power (`value < factor`), which is what the carry
  starts from. `Kept` is the invariant of the value: the digits read are the limbs
  times the power of the chunk and the chunk; a loop over the limbs keeps what is
  below it with what it holds above; what is shown, with what is left above it, is
  what was written. `Kept` also says that the limbs of `bignum_of_decimal` never
  have a zero on top although it does not trim them: a limb that becomes zero
  leaves a carry. With a digit on top a number is at least a power (`TopDigit`) and
  has one numeral only (`Unique`), so `ShownAsWritten` follows. `Sized` turns the
  same bounds into room: `len / 4 + 1` limbs and five digits a limb are enough, two
  cells and one fewer than the code allocates.

* `TestVerbProofs`. `AlwaysInv`, `AlwaysWalkTold` and `AlwaysExitZeroIsTrue`, for
  every tree, every list of arguments (a name twice, or under another, is allowed)
  and any number of changes to the tree. That every golden is told needs `Cover`:
  *what the argument in work reaches, by names nobody touched, is settled, or a
  frame of the stack is ahead of it*: a directory above it that will be opened, an
  entry above it that is left, its own source loop at a mode before what is
  missing. A step that takes the frame away puts a nearer one in its place or
  settles the name, and a change to the tree only takes names out of the claim. That
  no row is told twice needs `Once`: every frame claims the rows that it may still
  tell, the claims of two frames have no row in common, and no row of the
  argument is in a claim; that entries of a directory have nothing in common is
  where the shape of a tree is used (`Siblings`). A directory replaced by a link
  would make two claims overlap, so `Once` speaks of the other changes
  (`LinksStay`), as the property does. `RowsInTurn` and `EveryArgument` say
  which rows belong to which argument and that each has one, and `RowsRight` that
  counts are counts of rows; with `Cover` they give exit 0 its meaning.
  `PathsRight` keeps what `is_test_path` saw of an argument until `test_walk` looks
  at it again.

* `TrieProofs`. `AlwaysInv`, `AlwaysInOrder` and `TrieIsMap`, for keys of any length,
  maps of any size and any number of calls. `HeapRight` is about the nodes: a
  child is older than its parent, the keys below it are on its side, and a key has one
  binding. That the children are older is why what a node is bound to is well defined
  (`BoundEquation`) and why an allocation changes it for no node there is
  (`BoundGrows`). `WalkRight` says that what is left of the key is bound at the node
  reached as the key is in the map, with the way back on the path; `SingleRight`,
  that the nodes of `map_singleton` are the end of the key so far. `RebuildRight` is
  the argument for the persistent copy: *the node in hand has the bindings of the
  node it stands for, with the change of the call at what is left of the key, and no
  other change*. Each turn of `map_rebuild` hands that up one frame (`HeldChanges`,
  whose cases are the four children a frame can have gone to); at the root it is the
  step of `KeyMap`. `ListRight` says that what `map_bindings` has found and what is
  still to be visited are the map together, in order: a node's own key is before the
  longer ones, those below its `less` before those below its `same`.

With the code's numbers the assumptions of `Limbs` and `Decimal` are
`32768 * 32768 <= 2^32`, `32768 * 10^5 <= 2^32`, `10^5 <= 32768 * 32768` and
`10^4 <= 32768 <= 10^5`.

Where a proof needs an induction over the naturals it takes the least element of
the set of counterexamples (`WFMin` over `<`), since the induction theorems of the
library take an operator; `NumbersProofs` and `MemoryProofs` state it once, for sets
(`LeastOf`, `Induct`, `Downward`, `Descent`). The second also has recursion in that
form: a rule that looks only at smaller numbers has a function that follows it
(`Recursion`), which is how `Leaf` and `Fresh` come by their equations.

Only model-checked: everything of `Kernel` and `Erase`, and `Answers` and
`Terminates`. `Terms` and the modules that extend it use RECURSIVE operators, in
whose modules TLAPS has no arithmetic backend; what the kernel's functions compute
is an induction over terms anyway. Liveness needs ENABLED.

Only proved, and not a property of a run: the typing of `Arena`, `Limbs` and
`Decimal` (`TextTypeOK`), `AlwaysInv` of `TestVerb` and of `Trie`, `AlwaysMemoInv`, `ChainsRemember`, and
`StatusRight`, the lemma behind `Descends`.

## 5. Plan

Done: 1 Quantity and Linear, 2 Arena, 3 Admission and Program, 4 Memo, 5 Order,
6 UsageRows, 7 TestVerb, 8 Trie, Limbs and Decimal, 9 Eval, conversion and the
checking host, 10 positivity and recursors, 11 Erase.

Next, in order:

12. `Elab`: names to indices, constructor inference, expectations of arms.
13. `Lexer` and `Parser`: progress, layout, fuel, against a grammar on bounded
    token lists.
14. Records and sugar.

Theorems: every property of the passing runs that is not of `Kernel` or `Erase` and
not liveness has one.

## 6. What the checks found

`program_redeclared`: `global_add` (`lib/kernel_global.c:66`) replaces an entry of
the same name, and `ordinary` in `lib/surface_program.c` does not look whether the
name is taken. `axiom f : Nat` followed by `def f : Nat := f` is admitted; the new
`f` calls itself without a certificate and unfolds forever. `README.md:281-282`
says recursive definitions fail explicitly.

`kernel_witness`: conversion opens two functions, motives or telescopes under a
binder whose type is the placeholder `Univ 0` (`lib/kernel_rules.c:10-16`,
`513-519`). If the opened bodies mention a type variable, it is inferred at level 0
by `conv_is_prop` (`lib/kernel_conv.c:138-155`), so its elements pass for proofs of
a proposition and are identified. A postulated witness of a predicate at
`fun A x y => x` is admitted as one at `fun A x y => y`;
`test/kanon/test/neg/n08-pi-misuse.kan:1-4` says that proof irrelevance is the rule
of `Prop` alone. The compiler built from `src/` does the same, and a closed proof
of the empty type without an axiom can be made of it. `Consistent` holds in
`kernel_programs` since no program there compares functions over a type variable.

`order_groups`: `surface_order_certify` refuses a group whose peeled bodies do not
mention it, but the type of a formal does, without trying a position (`bound`
answers 0, `lib/surface_order.c:519-528`), although each would fit. Nothing is admitted that
should not be, and no document speaks of it; `FirstFit` names the case.

`test_verb` showed, while it was written, that `test_entry` follows a directory
that is replaced by a link between `lstat` and `opendir` (`bin/main.c:883`); the
part of `WalkTold` that says that no source is visited twice therefore speaks of
the other changes. The walk still ends, since a link found by `lstat` is not
followed.

## 7. Not modelled, and why

Section 1's components without a module are in `PROJECT.json` with the reason.
Left out on purpose: the wording of messages, the printer and UTF-8 output (no
state), the thread's stack size (the host's), `dev/` and `test/runner.c`
(tools). Typing itself is an open choice in `Linear` and `Program`: those models
allow every answer the type checker could give; `Kernel` gives the answers.

Observed and not stated as a property: a function that is generic in `(0 A : Type)`
keeps a parameter of type `A`, and a call at an instance of `A` that is not kept at
run time drops the argument, so the call has one argument too few (likewise the
payloads of sums; constructors are kept whole, as `stage-a-family-erasure.md:11-13`
says). The programs of `kernel_programs` contain no such function, and `CodeWhole`
is a statement about programs without one.

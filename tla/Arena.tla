------------------------------- MODULE Arena -------------------------------
(***************************************************************************)
(* The bump arena of lib/runtime.c: all host memory comes from it.         *)
(* arena_alloc cuts cells from the current block and takes a fresh block   *)
(* from malloc when the request does not fit; arena_mark records the bump  *)
(* pointer; arena_release rewinds to a mark and frees the later blocks.    *)
(*                                                                         *)
(* The linked chain from arena_first to arena_block is a sequence, so a    *)
(* block pointer is a position in it (0 is NULL).  The address space is    *)
(* finite; malloc answers with any free range, one it was given back       *)
(* included, or with NULL.                                                 *)
(***************************************************************************)
EXTENDS Integers, Sequences, FiniteSets

CONSTANTS
  Granule,   \* alignment of a cell: 16
  Header,    \* sizeof(ArenaBlock): 16
  Block,     \* ARENA_BLOCK: 64 MB
  Space,     \* bound: the addresses are 1 .. Space
  Sizes,     \* bound: the requests made
  MaxMarks   \* bound: marks a caller holds at one time

ASSUME ArenaConstants ==
  /\ Granule \in Nat \ {0} /\ Header \in Nat \ {0} /\ Block \in Nat \ {0}
  /\ Space \in Nat /\ MaxMarks \in Nat
  /\ Sizes \subseteq Nat

VARIABLES
  chain,   \* the blocks, arena_first first: [base, size]
  next,    \* arena_next, 0 when NULL
  left,    \* arena_left
  halted,  \* the program ended with "out of memory", code 70
  marks,   \* the marks the callers hold, oldest first
  cells    \* ghost: what the caller may touch: the cells not
           \* released, oldest first, with the bytes asked for

vars == <<chain, next, left, halted, marks, cells>>

\* Seeded fault: the request is rounded down.
RoundedDown(size) ==
  IF size < Granule THEN Granule ELSE (size \div Granule) * Granule

\* (size + 15) & ~15, never 0.
Rounded(size) ==
  IF size = 0 THEN Granule ELSE ((size + Granule - 1) \div Granule) * Granule

\* The size of the block a rounded request takes from malloc.
BlockSize(rounded) == IF rounded > Block THEN rounded ELSE Block

\* malloc(Header + size) may answer b: the range is aligned, in the address
\* space, and touches no block the program holds.
Fits(b, size) ==
  /\ b % Granule = 0
  /\ b + Header + size - 1 <= Space
  /\ \A i \in DOMAIN chain :
       \/ b + Header + size <= chain[i].base
       \/ chain[i].base + Header + chain[i].size <= b

\* The memory a chain holds from malloc.
Footprint(blocks) == {<<blocks[i].base, blocks[i].size>> : i \in DOMAIN blocks}

\* Cut a cell for size bytes at address at, of the room bytes left there.
Bump(at, room, size) ==
  /\ next' = at + Rounded(size)
  /\ left' = room - Rounded(size)
  /\ cells' = Append(cells, [base |-> at, size |-> size])

Init ==
  /\ chain = << >> /\ next = 0 /\ left = 0
  /\ halted = FALSE /\ marks = << >> /\ cells = << >>

(***************************************************************************)
(* arena_alloc: the cell fits in the current block; or a fresh block is    *)
(* taken and the tail of the old one is given up; or malloc fails.         *)
(***************************************************************************)
AllocHere(size) ==
  /\ ~halted
  /\ Rounded(size) <= left
  /\ Bump(next, left, size)
  /\ UNCHANGED <<chain, halted, marks>>

AllocFresh(size, base) ==
  /\ ~halted
  /\ Rounded(size) > left
  /\ Fits(base, BlockSize(Rounded(size)))
  /\ chain' = Append(chain, [base |-> base, size |-> BlockSize(Rounded(size))])
  /\ Bump(base + Header, BlockSize(Rounded(size)), size)
  /\ UNCHANGED <<halted, marks>>

OutOfMemory(size) ==
  /\ ~halted
  /\ Rounded(size) > left
  /\ halted' = TRUE
  /\ UNCHANGED <<chain, next, left, marks, cells>>

\* arena_mark; `live` and `held` are ghosts: the cells and the blocks of this
\* moment.
Mark ==
  /\ ~halted
  /\ Len(marks) < MaxMarks
  /\ marks' = Append(marks, [block |-> Len(chain), next |-> next, left |-> left,
                             live |-> cells, held |-> Footprint(chain)])
  /\ UNCHANGED <<chain, next, left, halted, cells>>

\* Seeded fault: a mark taken before the first block frees nothing.
RewoundLeak(mark) == IF mark.block = 0 THEN chain ELSE SubSeq(chain, 1, mark.block)

\* The chain arena_release leaves: the blocks after the mark's are freed, all
\* of them when the mark was taken before the first block.
Rewound(mark) == SubSeq(chain, 1, mark.block)

\* Seeded fault: the release forgets arena_left.
ReleaseKeepsLeft(k) ==
  /\ ~halted
  /\ chain' = Rewound(marks[k])
  /\ next' = marks[k].next
  /\ cells' = SubSeq(cells, 1, Len(marks[k].live))
  /\ marks' = SubSeq(marks, 1, k - 1)
  /\ UNCHANGED <<halted, left>>

\* arena_release of the k-th mark: the cells handed out since may not be
\* touched again, and the later marks are void.
Release(k) ==
  /\ ~halted
  /\ chain' = Rewound(marks[k])
  /\ next' = marks[k].next
  /\ left' = marks[k].left
  /\ cells' = SubSeq(cells, 1, Len(marks[k].live))
  /\ marks' = SubSeq(marks, 1, k - 1)
  /\ UNCHANGED halted

Next ==
  \/ \E size \in Sizes :
       \/ AllocHere(size)
       \/ \E base \in 1 .. Space : AllocFresh(size, base)
       \/ OutOfMemory(size)
  \/ Mark
  \/ \E k \in DOMAIN marks : Release(k)

Spec == Init /\ [][Next]_vars

-----------------------------------------------------------------------------
BlockRec == [base : 1 .. Space, size : Nat]
CellRec == [base : Nat, size : Nat]

TypeOK ==
  /\ chain \in Seq(BlockRec)
  /\ next \in Nat /\ left \in Nat /\ halted \in BOOLEAN
  /\ marks \in Seq([block : Nat, next : Nat, left : Nat, live : Seq(CellRec),
                    held : SUBSET (Nat \X Nat)])
  /\ cells \in Seq(CellRec)

\* Two cells the program may still touch share no byte, whatever blocks were
\* freed and taken again between the two requests.
CellsApart ==
  \A i, j \in DOMAIN cells :
    i < j => \/ cells[i].base + cells[i].size <= cells[j].base
             \/ cells[j].base + cells[j].size <= cells[i].base

\* No cell the program may still touch is in memory given back to malloc: it
\* lies in the bytes of one block of the chain, past the header.
CellsHeld ==
  \A i \in DOMAIN cells : \E b \in DOMAIN chain :
    /\ chain[b].base + Header <= cells[i].base
    /\ cells[i].base + cells[i].size <= chain[b].base + Header + chain[b].size

\* The resident size falls to the mark (sole.h 51-54): a release leaves
\* exactly the cells and the blocks there were when the mark was taken.
ReleaseExact ==
  [][\A k \in DOMAIN marks : Release(k) =>
       /\ cells' = marks[k].live
       /\ Footprint(chain') = marks[k].held]_vars

=============================================================================

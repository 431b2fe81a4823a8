---------------------------- MODULE MemoryManager ----------------------------
(***************************************************************************)
(* The memory manager of project3/mm_public.c.  The catalog has a cell per *)
(* byte: the first and the last cell of a chunk hold its size, negative    *)
(* while it is in use.  The cells in between hold what was there before,   *)
(* and so do cells nobody has written since malloc.                        *)
(***************************************************************************)
EXTENDS Integers

CONSTANTS Size, NULL

ASSUME ManagerAssumption == Size \in Nat \ {0} /\ NULL \notin Nat

Bytes == 0..Size - 1

\* The cell behind the last one belongs to somebody else, but is read.
Cells == 0..Size

Magnitude(n) == IF n > 0 THEN n ELSE -n

\* mm_init in memory that holds fill.
mm_init(fill) == [fill EXCEPT ![0] = Size]

\* The walk of mm_get from chunk to chunk: the first that is big enough, or the end.
FirstFit(catalog, needed) ==
    LET walk[n \in Nat] ==
            IF catalog[n] >= needed \/ n >= Size THEN n
            ELSE walk[n + Magnitude(catalog[n])]
    IN  walk[0]

\* What mm_get returns: an address, or NULL.
Address(catalog, needed) ==
    LET n == FirstFit(catalog, needed)
    IN  IF needed < 1 \/ Size < needed \/ catalog[n] < needed THEN NULL ELSE n

\* Mutant: the last cell of the chunk is counted to the rest.
CutShort(catalog, n, needed) ==
    [c \in Cells |->
        IF c \in {n, n + needed - 2} THEN 1 - needed
        ELSE IF c = n + needed - 1 /\ catalog[n] > needed THEN catalog[n] - needed + 1
        ELSE catalog[c]]

\* What it leaves in the catalog: of the rest of a bigger chunk only the first cell is
\* written.  A cell written outside the catalog becomes part of it, here and in mm_put.
Cut(catalog, n, needed) ==
    LET ends == {n, n + needed - 1}
        rest == IF catalog[n] > needed THEN {n + needed} ELSE {}
    IN  [c \in Cells \cup ends \cup rest |->
            IF c \in ends THEN -needed
            ELSE IF c \in rest THEN catalog[n] - needed ELSE catalog[c]]

\* mm_put: the chunk at index with its left neighbour, if the cell before says that one
\* is free.
WithLeft(catalog, index) ==
    LET left == IF index > 0 /\ catalog[index - 1] > 0 THEN catalog[index - 1] ELSE 0
    IN  [at |-> index - left, size |-> left - catalog[index]]

\* And with what is free at index plus the size by now, which is the chunk to the right
\* only if nothing was merged on the left.
Merged(catalog, index) ==
    LET chunk == WithLeft(catalog, index)
        right == index + chunk.size
    IN  IF right < Size /\ catalog[right] > 0
        THEN [chunk EXCEPT !.size = @ + catalog[right]] ELSE chunk

mm_put(catalog, index) ==
    LET chunk == Merged(catalog, index)
        ends == {chunk.at, chunk.at + chunk.size - 1}
    IN  [c \in Cells \cup ends |-> IF c \in ends THEN chunk.size ELSE catalog[c]]
=============================================================================

-------------------------------- MODULE Heap --------------------------------
(***************************************************************************)
(* What the users of a memory manager count on: every chunk they hold lies *)
(* inside the heap, and no two of them share a byte.                       *)
(***************************************************************************)
EXTENDS Integers

CONSTANTS HeapSize, Holders, Chunk(_)    \* Chunk(n): the bytes of the chunk at n

VARIABLES live    \* where each holder's chunk begins, of those who have one

Init == live = {}

Get(h, n) ==
    /\ Chunk(n) \subseteq 0..HeapSize - 1
    /\ \A c \in live : c[1] # h /\ Chunk(c[2]) \cap Chunk(n) = {}
    /\ live' = live \cup {<<h, n>>}

Put(h) == \E c \in live : c[1] = h /\ live' = live \ {c}

Next == \E h \in Holders : Put(h) \/ \E n \in 0..HeapSize - 1 : Get(h, n)

Spec == Init /\ [][Next]_live
=============================================================================

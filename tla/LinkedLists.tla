----------------------------- MODULE LinkedLists -----------------------------
(***************************************************************************)
(* What the linked lists of project5/server.c have in common, to say when  *)
(* pointers in memory are a list.                                          *)
(***************************************************************************)
EXTENDS Integers, Sequences

CONSTANT Null    \* the null pointer

\* The n nodes from c on along a field, Null once it leads nowhere.
Walk(link, c, n) ==
    LET at[i \in 1 .. n] ==
            IF i = 1 THEN c ELSE IF at[i - 1] = Null THEN Null ELSE link[at[i - 1]]
    IN  at

\* The ring through a sentinel and the nodes of s, with the sentinel at both ends.
Node(sentinel, s, i) == IF i \in DOMAIN s THEN s[i] ELSE sentinel

\* Along next the ring leads through s and back, and along prev the same way back.
Ring(next, prev, sentinel, s) ==
    \A i \in 0 .. Len(s) :
        /\ next[Node(sentinel, s, i)] = Node(sentinel, s, i + 1)
        /\ prev[Node(sentinel, s, i + 1)] = Node(sentinel, s, i)
=============================================================================

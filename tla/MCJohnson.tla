------------------------------ MODULE MCJohnson ------------------------------
(* Files for TLC: every graph of three vertices, and some that are out of the way. *)
EXTENDS JohnsonProperties, TLC

\* Of the edges; 0 for no edge.
Weights == {-2, 0, 1, 2}

\* The line of vertex u with an edge of weight w[v] to each other vertex.
LineOf(u, w) ==
    FoldSet(LAMBDA v, l : IF v = u \/ w[v] = 0 THEN l ELSE l \o <<v, w[v]>>, <<>>, 1..3)

Lists(u) == {LineOf(u, w) : w \in [1..3 -> Weights]}

SmallFiles ==
    {[n |-> 3, lines |-> <<a, b, c>>] : a \in Lists(1), b \in Lists(2), c \in Lists(3)}
        \cup
    {[n |-> 0, lines |-> <<>>],
     [n |-> 2, lines |-> <<<<2, 1, 2, -1>>, <<2, 2>>>>],             \* parallel, a loop
     [n |-> 2, lines |-> <<<<1, -1>>, <<>>>>],                       \* a negative loop
     [n |-> 2, lines |-> <<<<2, 1, 1>>, <<1, 1>>, <<7>>>>],          \* no weight; a line more
     [n |-> 2, lines |-> <<<<2, 1>>>>],                              \* a line less
     [n |-> 2, lines |-> <<<<2, 1>>, <<3, 1>>>>],                    \* no such vertex
     [n |-> 4, lines |-> <<<<2, 2, 3, 1>>, <<4, -3>>, <<2, -2, 4, 5>>, <<1, 4>>>>]}
=============================================================================

-------------------------- MODULE JohnsonProperties --------------------------
(* What the shortest-paths program must compute, from the file alone. *)
EXTENDS Johnson, FiniteSetsExt

CONSTANT MaxWeight    \* how far from 0 a weight may be

\* The weights are read as ints and the labels are longs (apsp.java 60, Vertex.java 7): of
\* no number of vertices that a matrix can have does a path come near Infinity, before the
\* reweighting or after it.
ASSUME WeightsAssumption ==
    /\ MaxWeight \in Nat
    /\ \A x \in Inputs :
        /\ \A u \in DOMAIN x.lines : \A k \in 1..Len(x.lines[u]) \div 2 :
                x.lines[u][2*k] \in -MaxWeight..MaxWeight
        /\ 3 * x.n * MaxWeight < Infinity

\* Every variable has a value of its kind.
TypeOK ==
    /\ pc \in {"read", "relax", "source", "dijkstra", "refused", "nc", "infinite", "written"}
    /\ \A k \in DOMAIN edges :
        edges[k].source \in 0..n /\ edges[k].destination \in vertices /\ edges[k].weight \in Int
    /\ distance \in [0..n -> Int] /\ predecessor \in [0..n -> 0..n \cup {Null}]
    /\ line \in 0..n /\ pass \in 1..n + 1 /\ at \in 1..Len(edges) + 1
    /\ source \in 0..n /\ current \in vertices \cup {Null}
    /\ DOMAIN queue \subseteq vertices
-----------------------------------------------------------------------------
(* The graph in a file x, and its shortest paths *)

Vertices(x) == 0..x.n - 1

Arcs(x, u, v) ==
    LET l == x.lines[u + 1]
    IN  {l[2*k] : k \in {m \in 1..Len(l) \div 2 : l[2*m - 1] = v + 1}}

\* The lightest of the parallel edges.
Lightest(x, u, v) == Min(Arcs(x, u, v))

Paths(x) == {p \in UNION {[1..m -> Vertices(x)] : m \in 1..x.n} :
                IsInjective(p) /\ \A k \in 1..Len(p) - 1 : Arcs(x, p[k], p[k + 1]) # {}}

Weight(x, p) ==
    LET upTo[k \in 1..Len(p)] ==
            IF k = 1 THEN 0 ELSE upTo[k - 1] + Lightest(x, p[k - 1], p[k])
    IN  upTo[Len(p)]

PathsBetween(x, u, v) == {p \in Paths(x) : p[1] = u /\ Last(p) = v}

Shortest(x, u, v) ==
    IF PathsBetween(x, u, v) = {} THEN Infinity
    ELSE Min({Weight(x, p) : p \in PathsBetween(x, u, v)})

HasNegativeCycle(x) ==
    \E p \in Paths(x) :
        Arcs(x, Last(p), p[1]) # {} /\ Weight(x, p) + Lightest(x, Last(p), p[1]) < 0

\* Every vertex of a line is in the graph.
LineFits(x, l) == \A k \in 1..Len(l) \div 2 : l[2*k - 1] - 1 \in Vertices(x)

WellFormed(x) == Len(x.lines) >= x.n /\ \A u \in Vertices(x) : LineFits(x, x.lines[u + 1])

\* The program ends in the way the file calls for: an error for too few lists or a
\* vertex that is not there, NC for a negative cycle, else the lengths of the shortest
\* paths, of whatever signs the weights are (Graph.java 123-174).
FinalIsRight ==
    /\ pc = "refused" => ~WellFormed(input)
    /\ pc = "nc" => HasNegativeCycle(input)
    /\ pc = "written" =>
        /\ WellFormed(input) /\ ~HasNegativeCycle(input)
        /\ \A u, v \in vertices : final[u][v] = Shortest(input, u, v)
    /\ pc # "infinite"

\* Going back in pathAPSP.txt from any vertex that can be reached leads to the source
\* along a shortest path; the others, and the source itself, have no predecessor.
PathLeadsBack ==
    pc = "written" =>
        \A u, v \in vertices :
            IF u = v \/ final[u][v] = Infinity THEN path[u][v] = Null
            ELSE \E p \in PathsBetween(input, u, v) :
                    /\ Weight(input, p) = final[u][v]
                    /\ \A k \in 2..Len(p) : path[u][p[k]] = p[k - 1] + 1

\* A vertex that has been extracted never changes again, and none is extracted before
\* one that is nearer, although negative weights are about and vertices are re-keyed
\* while they are in the queue.
ExtractedIsFinal ==
    [][pc = "dijkstra" /\ pc' = "dijkstra" =>
        \A v \in vertices \ DOMAIN queue :
            /\ distance'[v] = distance[v] /\ predecessor'[v] = predecessor[v]
            /\ \A w \in DOMAIN queue : distance[v] <= distance[w]]_vars
=============================================================================

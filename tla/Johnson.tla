------------------------------- MODULE Johnson -------------------------------
(***************************************************************************)
(* The all-pairs shortest-paths program of Algs_HW: apsp.java reads a graph *)
(* from a file, Graph.java runs Johnson's algorithm on it, with Bellman and *)
(* Ford's for the potentials and Dijkstra's from every vertex, and the two  *)
(* matrices are written to files.                                          *)
(*                                                                         *)
(* A file is a sequence of lines, a line the numbers between its commas.   *)
(* Edges are objects, so parallel edges stay apart: edges is a sequence, in *)
(* the order a LinkedHashSet goes through it.  The source that Johnson adds *)
(* has the number of vertices as its index.                                *)
(***************************************************************************)
EXTENDS Integers, Sequences, Functions, SequencesExt

CONSTANTS Infinity,    \* Long.MAX_VALUE
          Null,
          Inputs       \* the arguments: the number of vertices and the file

ASSUME JohnsonAssumption ==
    /\ Infinity \in Nat /\ Null \notin Int /\ Inputs # {}
    /\ \A x \in Inputs : x.n \in Nat /\ x.lines \in Seq(Seq(Int))

VARIABLES
    input,
    pc,          \* "read", "relax", "source", "dijkstra", or the way it ended
    line,        \* how many adjacency lists have been read
    edges,       \* of G, from "relax" on of Gprime
    distance, predecessor,    \* of each vertex
    pass, at,    \* Bellman-Ford's pass; the place in the list of edges gone through
    h,
    source,      \* Dijkstra's
    current,     \* the vertex it has extracted, Null before the first
    queue,       \* the vertices in Q, with the keys they were inserted with
    D, APSP,
    final, path  \* the files: finalAPSP.txt, pathAPSP.txt

graph == <<input, edges>>
labels == <<distance, predecessor>>
search == <<source, current, queue>>
matrices == <<D, APSP>>
files == <<final, path>>
vars == <<graph, pc, line, labels, pass, at, h, search, matrices, files>>

n == input.n
vertices == 0..n - 1
s == n

Init ==
    /\ input \in Inputs
    /\ pc = "read" /\ line = 0 /\ edges = <<>>
    /\ distance = [v \in 0..n |-> 0] /\ predecessor = [v \in 0..n |-> Null]
    /\ pass = 1 /\ at = 1
    /\ h = [v \in vertices |-> 0]
    /\ source = 0 /\ current = Null /\ queue = <<>>
    /\ D = [u \in vertices |-> Null] /\ APSP = [u \in vertices |-> Null]
    /\ final = Null /\ path = Null
-----------------------------------------------------------------------------
(* main: reading the file *)

\* Mutant: the file's numbers are taken for indices.
ListedFromOne(i, l) ==
    [k \in 1..Len(l) \div 2 |->
        [source |-> i, destination |-> l[2*k - 1], weight |-> l[2*k]]]

\* The edges of vertex i from its line.  A last vertex without a weight is dropped: the
\* test for it divides by 1.
Listed(i, l) ==
    [k \in 1..Len(l) \div 2 |->
        [source |-> i, destination |-> l[2*k - 1] - 1, weight |-> l[2*k]]]

TooFewLines == line < n /\ line = Len(input.lines)
InvalidVertex(l) == \E k \in 1..Len(l) \div 2 : l[2*k - 1] - 1 \notin vertices

ReadLine ==
    /\ pc = "read" /\ line < n /\ line < Len(input.lines)
    /\ ~InvalidVertex(input.lines[line + 1])
    /\ edges' = edges \o Listed(line, input.lines[line + 1])
    /\ line' = line + 1
    /\ UNCHANGED <<input, pc, labels, pass, at, h, search, matrices, files>>

RefuseFile ==
    /\ pc = "read" /\ line < n
    /\ \/ TooFewLines
       \/ line < Len(input.lines) /\ InvalidVertex(input.lines[line + 1])
    /\ pc' = "refused"
    /\ UNCHANGED <<graph, line, labels, pass, at, h, search, matrices, files>>
-----------------------------------------------------------------------------
(* Relaxation *)

\* Edge.relax finds something to do.
Relaxes(e) ==
    /\ distance[e.source] # Infinity
    /\ distance[e.destination] > distance[e.source] + e.weight

\* Mutant: the predecessor is set by every look at the edge.
RelaxKeeping(e) ==
    /\ distance' = IF Relaxes(e)
                   THEN [distance EXCEPT ![e.destination] = distance[e.source] + e.weight]
                   ELSE distance
    /\ predecessor' = [predecessor EXCEPT ![e.destination] = e.source]

Relax(e) ==
    IF Relaxes(e)
    THEN /\ distance' = [distance EXCEPT ![e.destination] = distance[e.source] + e.weight]
         /\ predecessor' = [predecessor EXCEPT ![e.destination] = e.source]
    ELSE UNCHANGED labels

\* initializeSingleSource, over the vertices of the graph it is called for.
InitializeSingleSource(V, u) ==
    /\ distance' = [v \in 0..n |-> IF v = u THEN 0
                                  ELSE IF v \in V THEN Infinity ELSE distance[v]]
    /\ predecessor' = [v \in 0..n |-> IF v \in V THEN Null ELSE predecessor[v]]
-----------------------------------------------------------------------------
(* Johnson, first half: Gprime and Bellman-Ford *)

\* The copy shares the edges with G; s and its edges are added to the copy.
MakeGprime ==
    /\ pc = "read" /\ line = n
    /\ edges' = edges \o [k \in 1..n |-> [source |-> s, destination |-> k - 1, weight |-> 0]]
    /\ InitializeSingleSource(0..n, s)
    /\ pc' = "relax"
    /\ UNCHANGED <<input, line, pass, at, h, search, matrices, files>>

\* Mutant: one pass less.
PassesOfG == n - 1

\* One less than Gprime has vertices.
Passes == n

RelaxNext ==
    /\ pc = "relax" /\ pass <= Passes
    /\ Relax(edges[at])
    /\ at' = IF at < Len(edges) THEN at + 1 ELSE 1
    /\ pass' = IF at < Len(edges) THEN pass ELSE pass + 1
    /\ UNCHANGED <<graph, pc, line, h, search, matrices, files>>

\* NegativeCycleException; NC is written to both files.
NegativeCycle ==
    /\ pc = "relax" /\ pass > Passes
    /\ \E e \in Range(edges) : Relaxes(e)
    /\ pc' = "nc"
    /\ UNCHANGED <<graph, line, labels, pass, at, h, search, matrices, files>>

\* h, and the new weights in the edges that G shares.
Reweight ==
    /\ pc = "relax" /\ pass > Passes
    /\ \A e \in Range(edges) : ~Relaxes(e)
    /\ h' = [v \in vertices |-> distance[v]]
    /\ edges' = [k \in DOMAIN edges |->
                    [edges[k] EXCEPT !.weight =
                        @ + distance[edges[k].source] - distance[edges[k].destination]]]
    /\ pc' = IF \E e \in Range(edges) : Infinity \in {distance[e.source], distance[e.destination]}
             THEN "infinite" ELSE "source"
    /\ UNCHANGED <<input, line, labels, pass, at, search, matrices, files>>
-----------------------------------------------------------------------------
(* Johnson, second half: Dijkstra from every vertex *)

StartDijkstra ==
    /\ pc = "source" /\ source < n
    /\ InitializeSingleSource(vertices, source)
    /\ queue' = [v \in vertices |-> distance'[v]]
    /\ current' = Null /\ at' = 1
    /\ pc' = "dijkstra"
    /\ UNCHANGED <<graph, line, pass, h, source, matrices, files>>

\* Where the rest of the adjacency list of the current vertex is among the edges.
Rest == {k \in at..Len(edges) : edges[k].source = current}
Scanned == current = Null \/ Rest = {}

\* poll: any vertex with the least key.
ExtractMin ==
    /\ pc = "dijkstra" /\ Scanned
    /\ \E v \in DOMAIN queue :
        /\ \A w \in DOMAIN queue : queue[v] <= queue[w]
        /\ current' = v
        /\ queue' = Restrict(queue, DOMAIN queue \ {v})
    /\ at' = 1
    /\ UNCHANGED <<graph, pc, line, labels, pass, h, source, matrices, files>>

\* Mutant: the vertex keeps its place in the queue.
RekeyNever(v) == queue' = queue

\* remove and add: the key is the distance now.
Rekey(v) ==
    queue' = IF v \in DOMAIN queue THEN [queue EXCEPT ![v] = distance'[v]] ELSE queue

ScanEdge ==
    /\ pc = "dijkstra" /\ ~Scanned
    /\ \E k \in Rest :
        /\ \A m \in Rest : k <= m
        /\ Relax(edges[k])
        /\ IF Relaxes(edges[k]) THEN Rekey(edges[k].destination) ELSE queue' = queue
        /\ at' = k + 1
    /\ UNCHANGED <<graph, pc, line, pass, h, source, current, matrices, files>>

\* The queue is empty: the rows of D and APSP.
Record ==
    /\ pc = "dijkstra" /\ Scanned /\ DOMAIN queue = {}
    /\ D' = [D EXCEPT ![source] =
                [v \in vertices |-> IF distance[v] = Infinity THEN Infinity
                                    ELSE distance[v] + h[v] - h[source]]]
    /\ APSP' = [APSP EXCEPT ![source] = [v \in vertices |-> predecessor[v]]]
    /\ source' = source + 1
    /\ pc' = "source"
    /\ UNCHANGED <<graph, line, labels, pass, at, h, current, queue, files>>

\* main: the two files, E for infinity, N for null, vertices counted from 1.
Write ==
    /\ pc = "source" /\ source = n
    /\ final' = D
    /\ path' = [u \in vertices |-> [v \in vertices |->
                   IF APSP[u][v] = Null THEN Null ELSE APSP[u][v] + 1]]
    /\ pc' = "written"
    /\ UNCHANGED <<graph, line, labels, pass, at, h, search, matrices>>

Next ==
    \/ ReadLine \/ RefuseFile
    \/ MakeGprime \/ RelaxNext \/ NegativeCycle \/ Reweight
    \/ StartDijkstra \/ ExtractMin \/ ScanEdge \/ Record
    \/ Write

Spec == Init /\ [][Next]_vars
=============================================================================

---------------------------- MODULE JohnsonProofs ----------------------------
(***************************************************************************)
(* What holds of the shortest-paths program for every graph: its types,    *)
(* that no weight is negative after the reweighting, that Dijkstra never   *)
(* changes a vertex it has extracted, and that the files it writes are     *)
(* right.                                                                  *)
(***************************************************************************)
EXTENDS JohnsonProperties, SequenceTheorems, FiniteSetTheorems, SequenceLemmas, TLAPS

EdgeSet == [source : 0..n, destination : vertices, weight : Int]

Phases == {"read", "relax", "source", "dijkstra", "refused", "nc", "infinite", "written"}

\* The types, with what the program counters of the loops owe each other.
TypeInv ==
    /\ input \in Inputs
    /\ pc \in Phases
    /\ edges \in Seq(EdgeSet)
    /\ distance \in [0..n -> Int] /\ predecessor \in [0..n -> 0..n \cup {Null}]
    /\ line \in 0..n /\ pass \in 1..n + 1 /\ at \in 1..Len(edges) + 1
    /\ source \in 0..n /\ current \in vertices \cup {Null}
    /\ DOMAIN queue \subseteq vertices
    /\ pc = "read" => pass = 1 /\ at = 1
    /\ pc = "relax" /\ pass <= n => at <= Len(edges)
    /\ pc = "dijkstra" => source < n

\* Every weight is non-negative once Bellman-Ford has not found a negative cycle and
\* the edges have been reweighted (Graph.java 147-158): what Dijkstra counts on.
NonNegative ==
    pc \in {"source", "dijkstra", "written"} => \A k \in DOMAIN edges : edges[k].weight >= 0

\* While Dijkstra runs the keys are the distances, and the vertex it is at is no
\* nearer than those extracted before and no further than those in the queue.
Frontier ==
    pc = "dijkstra" =>
        /\ queue \in [DOMAIN queue -> Int]
        /\ \A v \in DOMAIN queue : queue[v] = distance[v]
        /\ \A v \in vertices : distance[v] <= Infinity
        /\ current = Null => DOMAIN queue = vertices
        /\ current # Null =>
            /\ current \notin DOMAIN queue
            /\ \A v \in vertices \ DOMAIN queue : distance[v] <= distance[current]
            /\ \A w \in DOMAIN queue : distance[current] <= distance[w]

JohnsonInv == TypeInv /\ NonNegative /\ Frontier
-----------------------------------------------------------------------------
(* Facts about the operators *)

\* The number of vertices is a natural number.
LEMMA SizeIsNat == ASSUME input \in Inputs PROVE n \in Nat /\ input.lines \in Seq(Seq(Int))
    BY JohnsonAssumption DEF n

\* Two numbers of the line for each edge.
LEMMA TwoEach == ASSUME NEW m \in Nat, NEW k \in 1..m \div 2
                 PROVE m \div 2 \in Nat /\ 2*k - 1 \in 1..m /\ 2*k \in 1..m
    BY SMT

\* The edges of a line without an invalid vertex are edges.
LEMMA ListedType ==
    ASSUME n \in Nat, NEW i \in vertices, NEW l \in Seq(Int), ~InvalidVertex(l)
    PROVE  Listed(i, l) \in Seq(EdgeSet)
<1>1. Len(l) \in Nat /\ Len(l) \div 2 \in Nat
    BY SMT
<1>2. ASSUME NEW k \in 1..Len(l) \div 2
      PROVE [source |-> i, destination |-> l[2*k - 1] - 1, weight |-> l[2*k]] \in EdgeSet
    <2>1. 2*k - 1 \in 1..Len(l) /\ 2*k \in 1..Len(l)
        BY <1>1, <1>2, TwoEach
    <2>2. l[2*k - 1] \in Int /\ l[2*k] \in Int
        BY <2>1
    <2>3. l[2*k - 1] - 1 \in vertices
        BY <1>2 DEF InvalidVertex
    <2>4. i \in 0..n
        BY DEF vertices
    <2> QED BY <2>2, <2>3, <2>4 DEF EdgeSet
<1> QED BY <1>1, <1>2 DEF Listed

\* Relaxing an edge keeps the types of the labels.
LEMMA RelaxType ==
    ASSUME n \in Nat, distance \in [0..n -> Int], predecessor \in [0..n -> 0..n \cup {Null}],
           NEW e \in EdgeSet, Relax(e)
    PROVE  distance' \in [0..n -> Int] /\ predecessor' \in [0..n -> 0..n \cup {Null}]
<1>1. e.source \in 0..n /\ e.destination \in 0..n /\ e.weight \in Int
    BY DEF EdgeSet, vertices
<1>2. CASE Relaxes(e)
    <2>1. distance[e.source] + e.weight \in Int
        BY <1>1
    <2> QED BY <1>1, <1>2, <2>1 DEF Relax
<1>3. CASE ~Relaxes(e)
    BY <1>3 DEF Relax, labels
<1> QED BY <1>2, <1>3

\* And so does a new source.
LEMMA InitializeType ==
    ASSUME n \in Nat, distance \in [0..n -> Int], predecessor \in [0..n -> 0..n \cup {Null}],
           NEW V, NEW u, InitializeSingleSource(V, u)
    PROVE  distance' \in [0..n -> Int] /\ predecessor' \in [0..n -> 0..n \cup {Null}]
<1>1. Infinity \in Int
    BY JohnsonAssumption
<1> QED BY <1>1 DEF InitializeSingleSource

\* A function is one on its domain.
LEMMA OwnDomain == ASSUME NEW S, NEW f \in [S -> Int] PROVE f \in [DOMAIN f -> Int]
<1>1. DOMAIN f = S
    OBVIOUS
<1> QED BY <1>1, Zenon
-----------------------------------------------------------------------------
(* Types *)

\* TypeInv holds at the beginning and through every step.
LEMMA TypeInitially == Init => TypeInv
<1> SUFFICES ASSUME Init PROVE TypeInv
    OBVIOUS
<1>1. n \in Nat
    BY SizeIsNat DEF Init
<1>2. edges \in Seq(EdgeSet) /\ Len(edges) = 0
    BY DEF Init
<1>3. distance \in [0..n -> Int] /\ predecessor \in [0..n -> 0..n \cup {Null}]
    BY DEF Init
<1>4. DOMAIN queue = {}
    BY DEF Init
<1> QED BY <1>1, <1>2, <1>3, <1>4 DEF Init, TypeInv, Phases

\* Each step keeps the types.
LEMMA TypeStep == TypeInv /\ [Next]_vars => TypeInv'
<1> SUFFICES ASSUME TypeInv, [Next]_vars PROVE TypeInv'
    OBVIOUS
<1>1. n \in Nat /\ input.lines \in Seq(Seq(Int)) /\ Infinity \in Nat /\ Null \notin Int
    BY SizeIsNat, JohnsonAssumption DEF TypeInv
<1>2. Len(edges) \in Nat
    BY DEF TypeInv
<1>3. CASE ReadLine
    <2>1. input.lines[line + 1] \in Seq(Int) /\ line \in vertices
        BY <1>1, <1>3 DEF ReadLine, TypeInv, vertices
    <2>2. Listed(line, input.lines[line + 1]) \in Seq(EdgeSet)
        BY <1>1, <1>3, <2>1, ListedType DEF ReadLine
    <2>3. input' = input /\ n' = n /\ EdgeSet' = EdgeSet /\ vertices' = vertices
        BY <1>3 DEF ReadLine, n, EdgeSet, vertices
    <2>4. edges' \in Seq(EdgeSet) /\ Len(edges') \in Nat
        BY <1>3, <2>2 DEF ReadLine, TypeInv
    <2>5. pc' = "read" /\ pass' = 1 /\ at' = 1 /\ line' \in 0..n
        BY <1>1, <1>3 DEF ReadLine, TypeInv
    <2>6. /\ distance' = distance /\ predecessor' = predecessor
          /\ source' = source /\ current' = current /\ queue' = queue
        BY <1>3 DEF ReadLine, labels, search
    <2> QED BY <1>1, <2>3, <2>4, <2>5, <2>6 DEF TypeInv, Phases
<1>4. CASE RefuseFile
    <2>1. input' = input /\ n' = n /\ EdgeSet' = EdgeSet /\ vertices' = vertices
        BY <1>4 DEF RefuseFile, graph, n, EdgeSet, vertices
    <2> QED BY <1>1, <1>4, <2>1 DEF RefuseFile, TypeInv, graph, labels, search, Phases
<1>5. CASE MakeGprime
    <2>1. input' = input /\ n' = n /\ EdgeSet' = EdgeSet /\ vertices' = vertices
        BY <1>5 DEF MakeGprime, n, EdgeSet, vertices
    <2> DEFINE zero == [k \in 1..n |-> [source |-> s, destination |-> k - 1, weight |-> 0]]
    <2>2. zero \in Seq(EdgeSet) /\ Len(zero) = n
        BY <1>1 DEF EdgeSet, vertices, s
    <2>3. edges' = edges \o zero
        BY <1>5 DEF MakeGprime
    <2>4. edges' \in Seq(EdgeSet) /\ Len(edges') = Len(edges) + n
        <3> HIDE DEF zero
        <3>1. edges \in Seq(EdgeSet)
            BY DEF TypeInv
        <3> QED BY <2>2, <2>3, <3>1, ConcatProperties
    <2>5. distance' \in [0..n -> Int] /\ predecessor' \in [0..n -> 0..n \cup {Null}]
        BY <1>1, <1>5, InitializeType DEF MakeGprime, TypeInv
    <2>6. pass' = 1 /\ at' = 1 /\ pc' = "relax"
        BY <1>5 DEF MakeGprime, TypeInv
    <2>7. line' \in 0..n /\ source' \in 0..n /\ current' \in vertices \cup {Null}
          /\ DOMAIN queue' \subseteq vertices
        BY <1>5 DEF MakeGprime, TypeInv, search
    <2>8. at' \in 1..Len(edges') + 1 /\ (pass' <= n => at' <= Len(edges'))
        BY <1>1, <1>2, <2>4, <2>6
    <2>9. input' \in Inputs /\ pass' \in 1..n + 1
        BY <1>1, <2>1, <2>6 DEF TypeInv
    <2> QED BY <2>1, <2>4, <2>5, <2>6, <2>7, <2>8, <2>9 DEF TypeInv, Phases
<1>6. CASE RelaxNext
    <2>1. input' = input /\ n' = n /\ EdgeSet' = EdgeSet /\ vertices' = vertices
          /\ edges' = edges
        BY <1>6 DEF RelaxNext, graph, n, EdgeSet, vertices
    <2>2. edges[at] \in EdgeSet
        BY <1>1, <1>2, <1>6 DEF RelaxNext, TypeInv, Passes
    <2>3. distance' \in [0..n -> Int] /\ predecessor' \in [0..n -> 0..n \cup {Null}]
        BY <1>1, <1>6, <2>2, RelaxType DEF RelaxNext, TypeInv
    <2>4. pass' \in 1..n + 1 /\ at' \in 1..Len(edges) /\ pc' = "relax"
        BY <1>1, <1>2, <1>6 DEF RelaxNext, TypeInv, Passes
    <2> QED BY <1>2, <1>6, <2>1, <2>3, <2>4 DEF RelaxNext, TypeInv, search
<1>7. CASE NegativeCycle
    <2>1. input' = input /\ n' = n /\ EdgeSet' = EdgeSet /\ vertices' = vertices
        BY <1>7 DEF NegativeCycle, graph, n, EdgeSet, vertices
    <2> QED BY <1>1, <1>7, <2>1 DEF NegativeCycle, TypeInv, graph, labels, search, Phases
<1>8. CASE Reweight
    <2>1. input' = input /\ n' = n /\ EdgeSet' = EdgeSet /\ vertices' = vertices
        BY <1>8 DEF Reweight, n, EdgeSet, vertices
    <2>2. ASSUME NEW k \in DOMAIN edges
          PROVE [edges[k] EXCEPT !.weight = @ + distance[edges[k].source]
                                              - distance[edges[k].destination]] \in EdgeSet
        <3>1. edges[k] \in EdgeSet
            BY <2>2 DEF TypeInv
        <3>2. distance[edges[k].source] \in Int /\ distance[edges[k].destination] \in Int
            BY <1>1, <3>1 DEF EdgeSet, vertices, TypeInv
        <3> QED BY <3>1, <3>2 DEF EdgeSet
    <2>3. DOMAIN edges = 1..Len(edges)
        BY DEF TypeInv
    <2>4. edges' \in Seq(EdgeSet) /\ Len(edges') = Len(edges)
        BY <1>2, <1>8, <2>2, <2>3 DEF Reweight
    <2>5. pc' \in {"infinite", "source"}
        BY <1>8 DEF Reweight
    <2> QED BY <1>8, <2>1, <2>4, <2>5 DEF Reweight, TypeInv, labels, search, Phases
<1>9. CASE StartDijkstra
    <2>1. input' = input /\ n' = n /\ EdgeSet' = EdgeSet /\ vertices' = vertices
          /\ edges' = edges
        BY <1>9 DEF StartDijkstra, graph, n, EdgeSet, vertices
    <2>2. distance' \in [0..n -> Int] /\ predecessor' \in [0..n -> 0..n \cup {Null}]
        BY <1>1, <1>9, InitializeType DEF StartDijkstra, TypeInv
    <2>3. DOMAIN queue' = vertices
        BY <1>9 DEF StartDijkstra
    <2>4. pc' = "dijkstra" /\ source' = source /\ source < n /\ current' = Null
          /\ line' = line /\ pass' = pass /\ at' = 1
        BY <1>9 DEF StartDijkstra
    <2> QED BY <1>2, <2>1, <2>2, <2>3, <2>4 DEF TypeInv, Phases
<1>10. CASE ExtractMin
    <2>1. input' = input /\ n' = n /\ EdgeSet' = EdgeSet /\ vertices' = vertices
          /\ edges' = edges
        BY <1>10 DEF ExtractMin, graph, n, EdgeSet, vertices
    <2>2. PICK v \in DOMAIN queue : current' = v /\ queue' = Restrict(queue, DOMAIN queue \ {v})
        BY <1>10 DEF ExtractMin
    <2>3. DOMAIN queue' \subseteq vertices /\ current' \in vertices
        BY <2>2 DEF Restrict, TypeInv
    <2>4. /\ pc' = pc /\ pc = "dijkstra" /\ source' = source /\ line' = line
          /\ pass' = pass /\ at' = 1 /\ distance' = distance /\ predecessor' = predecessor
        BY <1>10 DEF ExtractMin, labels
    <2> QED BY <1>2, <2>1, <2>3, <2>4 DEF TypeInv
<1>11. CASE ScanEdge
    <2>1. input' = input /\ n' = n /\ EdgeSet' = EdgeSet /\ vertices' = vertices
          /\ edges' = edges
        BY <1>11 DEF ScanEdge, graph, n, EdgeSet, vertices
    <2>2. PICK k \in Rest :
            /\ Relax(edges[k])
            /\ IF Relaxes(edges[k]) THEN Rekey(edges[k].destination) ELSE queue' = queue
            /\ at' = k + 1
        BY <1>11 DEF ScanEdge
    <2>3. k \in 1..Len(edges) /\ edges[k] \in EdgeSet
        BY <1>2 DEF Rest, TypeInv
    <2>4. distance' \in [0..n -> Int] /\ predecessor' \in [0..n -> 0..n \cup {Null}]
        BY <1>1, <2>2, <2>3, RelaxType DEF TypeInv
    <2>5. DOMAIN queue' = DOMAIN queue
        BY <2>2 DEF Rekey
    <2>6. at' \in 1..Len(edges) + 1
        BY <1>2, <2>2, <2>3
    <2> QED BY <1>11, <2>1, <2>4, <2>5, <2>6 DEF ScanEdge, TypeInv
<1>12. CASE Record
    <2>1. input' = input /\ n' = n /\ EdgeSet' = EdgeSet /\ vertices' = vertices
          /\ edges' = edges
        BY <1>12 DEF Record, graph, n, EdgeSet, vertices
    <2>2. source' \in 0..n /\ pc' = "source"
        BY <1>1, <1>12 DEF Record, TypeInv
    <2> QED BY <1>12, <2>1, <2>2 DEF Record, TypeInv, labels, Phases
<1>13. CASE Write
    <2>1. input' = input /\ n' = n /\ EdgeSet' = EdgeSet /\ vertices' = vertices
        BY <1>13 DEF Write, graph, n, EdgeSet, vertices
    <2> QED BY <1>1, <1>13, <2>1 DEF Write, TypeInv, graph, labels, search, Phases
<1>14. CASE UNCHANGED vars
    <2>1. input' = input /\ n' = n /\ EdgeSet' = EdgeSet /\ vertices' = vertices
        BY <1>14 DEF vars, graph, n, EdgeSet, vertices
    <2> QED BY <1>14, <2>1 DEF vars, TypeInv, graph, labels, search
<1> QED BY <1>3, <1>4, <1>5, <1>6, <1>7, <1>8, <1>9, <1>10, <1>11, <1>12, <1>13, <1>14
        DEF Next

\* Every variable of the shortest-paths program has a value of its kind, whatever the
\* file: TypeOK of the run.
THEOREM TypeCorrect == Spec => []TypeOK
<1>1. TypeInv => TypeOK
    <2> SUFFICES ASSUME TypeInv PROVE TypeOK
        OBVIOUS
    <2>1. \A k \in DOMAIN edges : edges[k] \in EdgeSet
        BY DEF TypeInv
    <2> QED BY <2>1 DEF TypeInv, TypeOK, Phases, EdgeSet
<1> QED BY TypeInitially, TypeStep, <1>1, PTL DEF Spec
-----------------------------------------------------------------------------
(* Weights *)

\* Only Reweight leads to the phases NonNegative is about, and it leaves no edge that
\* Bellman-Ford would still relax.
LEMMA NonNegativeStep == TypeInv /\ NonNegative /\ [Next]_vars => NonNegative'
<1> SUFFICES ASSUME TypeInv, NonNegative, [Next]_vars,
                    pc' \in {"source", "dijkstra", "written"}, NEW k \in DOMAIN edges'
             PROVE  edges'[k].weight >= 0
    BY DEF NonNegative
<1>1. CASE Reweight
    <2>1. DOMAIN edges' = DOMAIN edges /\ k \in DOMAIN edges
        BY <1>1 DEF Reweight
    <2> DEFINE e == edges[k]
    <2>2. e \in EdgeSet /\ e \in Range(edges)
        BY <2>1 DEF TypeInv, Range
    <2>3. n \in Nat
        BY SizeIsNat DEF TypeInv
    <2>4. e.source \in 0..n /\ e.destination \in 0..n /\ e.weight \in Int
        BY <2>2, <2>3 DEF EdgeSet, vertices
    <2>5. distance[e.source] \in Int /\ distance[e.destination] \in Int
        BY <2>4 DEF TypeInv
    <2>6. edges'[k].weight = e.weight + distance[e.source] - distance[e.destination]
        <3>1. edges'[k] = [edges[k] EXCEPT !.weight = edges[k].weight
                              + distance[edges[k].source] - distance[edges[k].destination]]
            BY <1>1, <2>1 DEF Reweight
        <3> QED BY <2>2, <3>1 DEF EdgeSet
    <2>7. distance[e.source] # Infinity /\ ~Relaxes(e)
        BY <1>1, <2>2 DEF Reweight
    <2> QED BY <2>4, <2>5, <2>6, <2>7 DEF Relaxes
<1>2. CASE ~Reweight
    <2>1. edges' = edges /\ pc \in {"source", "dijkstra", "written"}
        BY <1>2 DEF Next, ReadLine, RefuseFile, MakeGprime, RelaxNext, NegativeCycle,
                    StartDijkstra, ExtractMin, ScanEdge, Record, Write, vars, graph
    <2> QED BY <2>1 DEF NonNegative
<1> QED BY <1>1, <1>2
-----------------------------------------------------------------------------
(* Dijkstra *)

\* What scanning an edge does to the distances while no weight is negative: a vertex that
\* gets a new one is still in the queue and comes no nearer than the current one.
LEMMA ScanFacts ==
    ASSUME TypeInv, NonNegative, Frontier, ScanEdge
    PROVE  /\ vertices' = vertices /\ DOMAIN queue' = DOMAIN queue
           /\ pc' = pc /\ current' = current /\ current \in vertices
           /\ \A v \in vertices \ DOMAIN queue :
                distance'[v] = distance[v] /\ predecessor'[v] = predecessor[v]
           /\ \A v \in DOMAIN queue :
                /\ distance'[v] \in Int
                /\ distance[current] <= distance'[v] /\ distance'[v] <= Infinity
                /\ queue'[v] = distance'[v]
           /\ queue' \in [DOMAIN queue -> Int]
<1>1. n \in Nat /\ Infinity \in Nat
    BY SizeIsNat, JohnsonAssumption DEF TypeInv
<1>2. pc = "dijkstra" /\ pc' = pc /\ current' = current /\ current # Null
      /\ vertices' = vertices
    BY DEF ScanEdge, Scanned, graph, n, vertices
<1>3. current \in vertices /\ current \in 0..n
    BY <1>1, <1>2 DEF TypeInv, vertices
<1>4. PICK k \in Rest :
        /\ Relax(edges[k])
        /\ IF Relaxes(edges[k]) THEN Rekey(edges[k].destination) ELSE queue' = queue
    BY DEF ScanEdge
<1> DEFINE e == edges[k]
           d == e.destination
           new == distance[current] + e.weight
<1>5. k \in DOMAIN edges /\ e \in EdgeSet /\ e.source = current
    BY <1>1 DEF Rest, TypeInv
<1>6. d \in vertices /\ d \in 0..n /\ e.weight \in Int /\ e.weight >= 0
    BY <1>1, <1>2, <1>5 DEF EdgeSet, vertices, NonNegative
<1>7. \A v \in vertices : distance[v] \in Int /\ distance[v] <= Infinity
    BY <1>1, <1>2 DEF TypeInv, Frontier, vertices
<1>8. /\ queue \in [DOMAIN queue -> Int] /\ DOMAIN queue \subseteq vertices
      /\ \A v \in DOMAIN queue : queue[v] = distance[v] /\ distance[current] <= distance[v]
      /\ \A v \in vertices \ DOMAIN queue : distance[v] <= distance[current]
    BY <1>2 DEF Frontier, TypeInv
<1>9. CASE ~Relaxes(e)
    <2>1. distance' = distance /\ predecessor' = predecessor /\ queue' = queue
        BY <1>4, <1>9 DEF Relax, labels
    <2> QED BY <1>2, <1>3, <1>7, <1>8, <2>1
<1>10. CASE Relaxes(e)
    <2>1. distance[d] > new /\ new \in Int /\ distance[current] <= new
        BY <1>3, <1>5, <1>6, <1>7, <1>10 DEF Relaxes
    <2>2. d \in DOMAIN queue
        BY <1>3, <1>6, <1>7, <1>8, <2>1
    <2>3. /\ distance' = [distance EXCEPT ![d] = new]
          /\ predecessor' = [predecessor EXCEPT ![d] = current]
        BY <1>4, <1>5, <1>10 DEF Relax
    <2>4. distance'[d] = new /\ \A v \in vertices \ {d} : distance'[v] = distance[v]
        BY <1>1, <1>6, <2>3 DEF TypeInv, vertices
    <2>5. \A v \in vertices \ {d} : predecessor'[v] = predecessor[v]
        BY <1>1, <2>3 DEF TypeInv, vertices
    <2>6. queue' = [queue EXCEPT ![d] = new]
        BY <1>4, <1>10, <2>2, <2>4 DEF Rekey
    <2>7. new <= Infinity
        BY <1>1, <1>6, <1>7, <2>1
    <2> QED BY <1>2, <1>3, <1>7, <1>8, <2>1, <2>2, <2>4, <2>5, <2>6, <2>7
<1> QED BY <1>9, <1>10

\* Frontier holds when Dijkstra starts, and an extraction or a scan keeps it.
LEMMA FrontierStep == TypeInv /\ NonNegative /\ Frontier /\ [Next]_vars => Frontier'
<1> SUFFICES ASSUME TypeInv, NonNegative, Frontier, [Next]_vars, pc' = "dijkstra"
             PROVE  Frontier'
    BY DEF Frontier
<1>1. n \in Nat /\ Infinity \in Nat /\ Null \notin Int
    BY SizeIsNat, JohnsonAssumption DEF TypeInv
<1>2. \A v \in vertices : distance[v] \in Int
    BY <1>1 DEF TypeInv, vertices
<1>3. CASE StartDijkstra
    <2>1. vertices' = vertices /\ current' = Null
        BY <1>3 DEF StartDijkstra, graph, n, vertices
    <2>2. \A v \in vertices : distance'[v] = IF v = source THEN 0 ELSE Infinity
        BY <1>1, <1>3 DEF StartDijkstra, InitializeSingleSource, vertices
    <2>3. queue' = [v \in vertices |-> distance'[v]]
        BY <1>3 DEF StartDijkstra
    <2> QED BY <1>1, <2>1, <2>2, <2>3 DEF Frontier
<1>4. CASE ExtractMin
    <2>1. /\ vertices' = vertices /\ distance' = distance /\ pc = "dijkstra"
        BY <1>4 DEF ExtractMin, graph, n, vertices, labels
    <2>2. PICK v \in DOMAIN queue :
            /\ \A w \in DOMAIN queue : queue[v] <= queue[w]
            /\ current' = v /\ queue' = Restrict(queue, DOMAIN queue \ {v})
        BY <1>4 DEF ExtractMin
    <2>3. /\ queue \in [DOMAIN queue -> Int]
          /\ \A w \in DOMAIN queue : queue[w] = distance[w] /\ w \in vertices
          /\ \A w \in vertices : distance[w] <= Infinity
        BY <2>1 DEF Frontier, TypeInv
    <2>4. DOMAIN queue' = DOMAIN queue \ {v}
          /\ \A w \in DOMAIN queue \ {v} : queue'[w] = queue[w]
        BY <2>2, <2>3 DEF Restrict
    <2>5. \A w \in DOMAIN queue : distance[v] <= distance[w]
        BY <2>2, <2>3
    <2>6. \A x \in vertices \ DOMAIN queue : distance[x] <= distance[v]
        BY <1>2, <2>1, <2>2, <2>3 DEF Frontier, TypeInv
    <2>7. v \in vertices /\ v # Null /\ distance[v] <= distance[v]
        BY <1>1, <1>2, <2>3 DEF vertices
    <2>8. \A x \in vertices \ DOMAIN queue' : distance[x] <= distance[v]
        BY <2>4, <2>6, <2>7
    <2>9. /\ queue' \in [DOMAIN queue' -> Int] /\ current' \notin DOMAIN queue'
          /\ current' # Null
          /\ \A w \in DOMAIN queue' : queue'[w] = distance'[w]
        <3>1. queue' \in [DOMAIN queue \ {v} -> Int]
            BY <2>2, <2>3 DEF Restrict
        <3>4. queue' \in [DOMAIN queue' -> Int]
            BY ONLY <3>1, OwnDomain, Zenon
        <3>2. current' \notin DOMAIN queue' /\ current' # Null
            BY <2>2, <2>4, <2>7
        <3>3. \A w \in DOMAIN queue' : queue'[w] = distance'[w]
            BY <2>1, <2>3, <2>4
        <3> QED BY <3>4, <3>2, <3>3
    <2>10. \A w \in DOMAIN queue' : distance'[current'] <= distance'[w]
        BY <2>1, <2>2, <2>4, <2>5
    <2>11. \A x \in vertices' \ DOMAIN queue' : distance'[x] <= distance'[current']
        BY <2>1, <2>2, <2>8
    <2>12. \A x \in vertices' : distance'[x] <= Infinity
        BY <2>1, <2>3
    <2> QED BY <2>9, <2>10, <2>11, <2>12 DEF Frontier
<1>5. CASE ScanEdge
    <2>1. pc = "dijkstra" /\ current # Null
        BY <1>5 DEF ScanEdge, Scanned
    <2>2. /\ current \notin DOMAIN queue
          /\ \A v \in vertices \ DOMAIN queue :
                distance[v] <= distance[current] /\ distance[v] <= Infinity
        BY <2>1 DEF Frontier
    <2>3. /\ vertices' = vertices /\ DOMAIN queue' = DOMAIN queue
          /\ current' = current /\ current \in vertices
          /\ \A v \in vertices \ DOMAIN queue : distance'[v] = distance[v]
          /\ \A v \in DOMAIN queue :
                /\ distance[current] <= distance'[v] /\ distance'[v] <= Infinity
                /\ queue'[v] = distance'[v]
          /\ queue' \in [DOMAIN queue -> Int]
        BY <1>5, ScanFacts
    <2> QED BY <2>1, <2>2, <2>3 DEF Frontier
<1>6. CASE ~(StartDijkstra \/ ExtractMin \/ ScanEdge)
    <2>1. /\ vertices' = vertices /\ distance' = distance /\ queue' = queue
          /\ current' = current /\ pc = "dijkstra"
        BY <1>6 DEF Next, ReadLine, RefuseFile, MakeGprime, RelaxNext, NegativeCycle, Reweight,
                    Record, Write, vars, graph, labels, search, n, vertices
    <2> QED BY <2>1 DEF Frontier
<1> QED BY <1>3, <1>4, <1>5, <1>6

\* The three together are inductive.
LEMMA InvHolds == Spec => []JohnsonInv
<1>1. Init => JohnsonInv
    BY TypeInitially DEF Init, JohnsonInv, NonNegative, Frontier
<1>2. JohnsonInv /\ [Next]_vars => JohnsonInv'
    BY TypeStep, NonNegativeStep, FrontierStep DEF JohnsonInv
<1> QED BY <1>1, <1>2, PTL DEF Spec

\* After the reweighting no edge of any graph has a negative weight (Graph.java 147-158).
THEOREM WeightsStayNonNegative == Spec => []NonNegative
<1>1. JohnsonInv => NonNegative
    BY DEF JohnsonInv
<1> QED BY InvHolds, <1>1, PTL

\* In every graph, Dijkstra extracts vertices in the order of their distances and never
\* changes one it has extracted, although keys change inside the queue.
THEOREM ExtractedStayFinal == Spec => ExtractedIsFinal
<1> DEFINE Final ==
        pc = "dijkstra" /\ pc' = "dijkstra" =>
            \A v \in vertices \ DOMAIN queue :
                /\ distance'[v] = distance[v] /\ predecessor'[v] = predecessor[v]
                /\ \A w \in DOMAIN queue : distance[v] <= distance[w]
<1>1. JohnsonInv /\ [Next]_vars => [Final]_vars
    <2> SUFFICES ASSUME JohnsonInv, Next, pc = "dijkstra", pc' = "dijkstra",
                        NEW v \in vertices \ DOMAIN queue
                 PROVE  /\ distance'[v] = distance[v] /\ predecessor'[v] = predecessor[v]
                        /\ \A w \in DOMAIN queue : distance[v] <= distance[w]
        OBVIOUS
    <2>1. TypeInv /\ NonNegative /\ Frontier
        BY DEF JohnsonInv
    <2>2. ASSUME NEW w \in DOMAIN queue PROVE distance[v] <= distance[w]
        <3>1. n \in Nat /\ Null \notin Int
            BY <2>1, SizeIsNat, JohnsonAssumption DEF TypeInv
        <3>2. current # Null /\ current \in vertices /\ w \in vertices
            BY <2>1, <2>2 DEF Frontier, TypeInv
        <3>3. distance[v] \in Int /\ distance[w] \in Int /\ distance[current] \in Int
            BY <2>1, <3>1, <3>2 DEF TypeInv, vertices
        <3>4. distance[v] <= distance[current] /\ distance[current] <= distance[w]
            BY <2>1, <2>2, <3>2 DEF Frontier
        <3> QED BY <3>3, <3>4
    <2>3. distance'[v] = distance[v] /\ predecessor'[v] = predecessor[v]
        <3>1. CASE ScanEdge
            BY <2>1, <3>1, ScanFacts
        <3>2. CASE ExtractMin
            BY <3>2 DEF ExtractMin, labels
        <3> QED BY <3>1, <3>2 DEF Next, ReadLine, RefuseFile, MakeGprime, RelaxNext,
                    NegativeCycle, Reweight, StartDijkstra, Record, Write
    <2> QED BY <2>2, <2>3
<1> QED BY InvHolds, <1>1, PTL DEF Spec, ExtractedIsFinal
-----------------------------------------------------------------------------
(* Paths and their weights *)

\* A graph: a file that there is nothing to refuse in.
Graph(x) == x \in Inputs /\ WellFormed(x)

\* The numbers a graph comes with.
LEMMA Sizes ==
    ASSUME NEW x \in Inputs
    PROVE  /\ x.n \in Nat /\ x.lines \in Seq(Seq(Int))
           /\ MaxWeight \in Nat /\ Infinity \in Nat /\ x.n * MaxWeight \in Nat
           /\ 3 * (x.n * MaxWeight) < Infinity
           /\ \A k \in 0..x.n : k * MaxWeight \in Nat /\ k * MaxWeight <= x.n * MaxWeight
<1>1. /\ x.n \in Nat /\ x.lines \in Seq(Seq(Int)) /\ MaxWeight \in Nat /\ Infinity \in Nat
      /\ 3 * x.n * MaxWeight < Infinity
    BY JohnsonAssumption, WeightsAssumption
<1>2. ASSUME NEW a \in Nat, NEW b \in Nat PROVE a * b \in Nat
    BY SMT
<1>3. ASSUME NEW a \in Nat, NEW b \in Nat, NEW k \in 0..a PROVE k * b <= a * b
    <2>1. a * b = k * b + (a - k) * b
        BY SMT
    <2>2. a - k \in Nat /\ (a - k) * b \in Nat /\ k \in Nat /\ k * b \in Nat
        <3>1. a - k \in Nat /\ k \in Nat
            OBVIOUS
        <3> QED BY <1>2, <3>1
    <2> QED BY <2>1, <2>2
<1>4. 3 * x.n * MaxWeight = 3 * (x.n * MaxWeight)
    BY <1>1
<1>5. x.n * MaxWeight \in Nat /\ 3 * (x.n * MaxWeight) < Infinity
    BY <1>1, <1>2, <1>4
<1>6. ASSUME NEW k \in 0..x.n PROVE k * MaxWeight \in Nat /\ k * MaxWeight <= x.n * MaxWeight
    <2>1. k \in Nat
        BY <1>1
    <2> QED BY <1>1, <1>2, <1>3, <2>1
<1> QED BY <1>1, <1>5, <1>6, Zenon

\* The arcs of a graph weigh at most MaxWeight either way, and the lightest is one of them.
LEMMA ArcWeights ==
    ASSUME NEW x, Graph(x), NEW u \in Vertices(x), NEW v
    PROVE  /\ Arcs(x, u, v) \subseteq -MaxWeight..MaxWeight
           /\ Arcs(x, u, v) # {} =>
                /\ Lightest(x, u, v) \in Arcs(x, u, v)
                /\ \A w \in Arcs(x, u, v) : Lightest(x, u, v) <= w
<1>1. u + 1 \in DOMAIN x.lines /\ MaxWeight \in Nat
    BY Sizes DEF Graph, WellFormed, Vertices
<1>2. Arcs(x, u, v) \subseteq -MaxWeight..MaxWeight
    BY <1>1, WeightsAssumption DEF Arcs, Graph
<1>3. Arcs(x, u, v) \subseteq Int /\ -MaxWeight \in Int /\ \A w \in Arcs(x, u, v) : -MaxWeight <= w
    BY <1>1, <1>2
<1> QED BY <1>2, <1>3, MinIsLeastInt DEF Lightest

\* An arc ends in a vertex.
LEMMA ArcsEnd ==
    ASSUME NEW x, Graph(x), NEW u \in Vertices(x), NEW v \in Int, Arcs(x, u, v) # {}
    PROVE  v \in Vertices(x)
<1>1. PICK k \in 1..Len(x.lines[u + 1]) \div 2 : x.lines[u + 1][2*k - 1] = v + 1
    BY DEF Arcs
<1>2. x.lines[u + 1][2*k - 1] - 1 \in Vertices(x)
    BY DEF Graph, WellFormed, LineFits
<1> QED BY <1>1, <1>2

\* What a path is.
LEMMA PathShape ==
    ASSUME NEW x, Graph(x), NEW p \in Paths(x)
    PROVE  /\ Len(p) \in 1..x.n /\ p \in Seq(Vertices(x)) /\ p \in [1..Len(p) -> Vertices(x)]
           /\ \A i, j \in 1..Len(p) : p[i] = p[j] => i = j
           /\ \A k \in 1..Len(p) - 1 : Arcs(x, p[k], p[k + 1]) # {}
           /\ Last(p) = p[Len(p)] /\ p[1] \in Vertices(x) /\ Last(p) \in Vertices(x)
<1>1. x.n \in Nat
    BY Sizes DEF Graph
<1>2. PICK m \in 1..x.n : p \in [1..m -> Vertices(x)]
    BY DEF Paths
<1>3. p \in Seq(Vertices(x)) /\ Len(p) = m
    BY <1>1, <1>2, SeqDef
<1>4. IsInjective(p) /\ \A k \in 1..Len(p) - 1 : Arcs(x, p[k], p[k + 1]) # {}
    BY DEF Paths
<1> QED BY <1>2, <1>3, <1>4 DEF IsInjective, Last

\* And what makes one: its vertices differ, so it is no longer than there are vertices.
LEMMA PathIntro ==
    ASSUME NEW x, Graph(x), NEW p \in Seq(Vertices(x)), p # <<>>,
           \A i, j \in 1..Len(p) : p[i] = p[j] => i = j,
           \A k \in 1..Len(p) - 1 : Arcs(x, p[k], p[k + 1]) # {}
    PROVE  p \in Paths(x)
<1>1. x.n \in Nat
    BY Sizes DEF Graph
<1>2. Len(p) \in Nat \ {0} /\ p \in [1..Len(p) -> Vertices(x)]
    OBVIOUS
<1>3. p \in Injection(1..Len(p), Vertices(x))
    BY <1>2 DEF Injection, IsInjective
<1>4. IsFiniteSet(Vertices(x)) /\ Cardinality(Vertices(x)) = x.n
    <2> DEFINE m == x.n
    <2>1. m \in Nat
        BY <1>1
    <2> HIDE DEF m
    <2>2. 0 \in Int /\ m - 1 \in Int /\ (IF 0 > m - 1 THEN 0 ELSE m - 1 - 0 + 1) = m
        BY <2>1
    <2>3. IsFiniteSet(0..m - 1) /\ Cardinality(0..m - 1) = m
        BY <2>2, FS_Interval
    <2> QED BY <2>3 DEF Vertices, m
<1>5. Cardinality(1..Len(p)) = Len(p)
    <2>1. 1 \in Int /\ Len(p) \in Int /\ (IF 1 > Len(p) THEN 0 ELSE Len(p) - 1 + 1) = Len(p)
        BY <1>2
    <2> QED BY <2>1, FS_Interval
<1>6. Cardinality(1..Len(p)) <= Cardinality(Vertices(x))
    BY <1>3, <1>4, FS_Injection
<1>7. Len(p) \in 1..x.n
    BY <1>1, <1>2, <1>4, <1>5, <1>6
<1>8. p \in UNION {[1..m -> Vertices(x)] : m \in 1..x.n}
    BY <1>2, <1>7
<1> QED BY <1>2, <1>8 DEF Paths, IsInjective

\* f sums up the weights along p.
Sums(x, p, f) ==
    /\ f \in [1..Len(p) -> Int] /\ f[1] = 0
    /\ \A k \in 2..Len(p) : f[k] = f[k - 1] + Lightest(x, p[k - 1], p[k])

\* Every path has its sums, within MaxWeight for each arc so far.
LEMMA SumsExist ==
    ASSUME NEW x, Graph(x), NEW p \in Paths(x)
    PROVE  \E f : /\ Sums(x, p, f)
                  /\ \A k \in 1..Len(p) : f[k] \in -(x.n * MaxWeight)..(x.n * MaxWeight)
<1> DEFINE M == MaxWeight
           Good(m, f) ==
              /\ f \in [1..m -> Int] /\ f[1] = 0
              /\ \A k \in 2..m : f[k] = f[k - 1] + Lightest(x, p[k - 1], p[k])
              /\ \A k \in 1..m : f[k] \in -(k*M)..k*M
           S == {m \in 1..Len(p) : \E f : Good(m, f)}
<1>1. M \in Nat /\ Len(p) \in 1..x.n /\ x.n \in Nat
    BY Sizes, PathShape DEF Graph
<1>2. 1 \in S
    <2>1. Good(1, [k \in 1..1 |-> 0])
        BY <1>1
    <2> HIDE DEF Good
    <2> QED BY <1>1, <2>1
<1>3. ASSUME NEW m \in 1..Len(p) - 1, m \in S PROVE m + 1 \in S
    <2>1. PICK f : Good(m, f)
        BY <1>3
    <2> DEFINE w == Lightest(x, p[m], p[m + 1])
               g == [k \in 1..m + 1 |-> IF k = m + 1 THEN f[m] + w ELSE f[k]]
    <2>2. w \in -M..M
        <3>1. p[m] \in Vertices(x) /\ Arcs(x, p[m], p[m + 1]) # {}
            BY <1>1, PathShape
        <3> QED BY <3>1, ArcWeights
    <2> HIDE DEF w
    <2>3. g \in [1..m + 1 -> Int] /\ g[1] = 0
        BY <1>1, <2>1, <2>2
    <2>4. ASSUME NEW k \in 2..m + 1 PROVE g[k] = g[k - 1] + Lightest(x, p[k - 1], p[k])
        <3>1. CASE k = m + 1
            BY <1>1, <3>1 DEF w
        <3>2. CASE k # m + 1
            BY <1>1, <2>1, <3>2
        <3> QED BY <3>1, <3>2
    <2>5. ASSUME NEW k \in 1..m + 1 PROVE g[k] \in -(k*M)..k*M
        <3>1. CASE k = m + 1
            <4>1. (m + 1)*M = m*M + M /\ m*M \in Nat
                BY <1>1, Sizes DEF Graph
            <4>2. f[m] \in -(m*M)..m*M /\ g[k] = f[m] + w
                BY <1>1, <2>1, <3>1
            <4> QED BY <1>1, <2>2, <3>1, <4>1, <4>2
        <3>2. CASE k # m + 1
            BY <1>1, <2>1, <3>2
        <3> QED BY <3>1, <3>2
    <2>6. Good(m + 1, g)
        BY <2>3, <2>4, <2>5
    <2> HIDE DEF Good
    <2> QED BY <1>1, <1>3, <2>6
<1>4. Len(p) \in S
    <2> HIDE DEF S
    <2> QED BY <1>1, <1>2, <1>3, CountingUp
<1>5. PICK f : Good(Len(p), f)
    BY <1>4
<1>6. ASSUME NEW k \in 1..Len(p) PROVE f[k] \in -(x.n * M)..(x.n * M)
    <2>1. k*M \in Nat /\ k*M <= x.n * M /\ x.n * M \in Nat
        BY <1>1, Sizes DEF Graph
    <2>2. f[k] \in -(k*M)..k*M
        BY <1>5
    <2> QED BY <2>1, <2>2
<1> QED BY <1>5, <1>6 DEF Sums

\* The weight of a path is the last of its sums: the recursion that defines it has one
\* solution.
LEMMA WeightIs ==
    ASSUME NEW x, Graph(x), NEW p \in Paths(x), NEW f, Sums(x, p, f)
    PROVE  Weight(x, p) = f[Len(p)]
<1> DEFINE Rec(g) == [k \in 1..Len(p) |->
                         IF k = 1 THEN 0 ELSE g[k - 1] + Lightest(x, p[k - 1], p[k])]
           g == CHOOSE g : g = Rec(g)
<1>1. Len(p) \in Nat \ {0}
    BY Sizes, PathShape DEF Graph
<1>2. f = Rec(f)
    <2>1. \A k \in 1..Len(p) : f[k] = IF k = 1 THEN 0 ELSE f[k - 1] + Lightest(x, p[k - 1], p[k])
        BY <1>1 DEF Sums
    <2>2. f = [k \in 1..Len(p) |-> f[k]]
        BY DEF Sums
    <2> QED BY <2>1, <2>2
<1>3. g = Rec(g)
    <2> HIDE DEF Rec
    <2> QED BY <1>2
<1>4. Weight(x, p) = g[Len(p)]
    BY DEF Weight
<1> HIDE DEF g
<1> DEFINE S == {k \in 1..Len(p) : g[k] = f[k]}
<1>5. 1 \in S
    BY <1>1, <1>3 DEF Sums
<1>6. ASSUME NEW k \in 1..Len(p) - 1, k \in S PROVE k + 1 \in S
    <2>1. k + 1 \in 1..Len(p) /\ k + 1 # 1 /\ k + 1 - 1 = k /\ k + 1 \in 2..Len(p)
        BY <1>1, <1>6
    <2>2. g[k + 1] = g[k] + Lightest(x, p[k], p[k + 1])
        BY <1>3, <2>1
    <2>3. f[k + 1] = f[k] + Lightest(x, p[k], p[k + 1])
        BY <2>1 DEF Sums
    <2> QED BY <1>6, <2>1, <2>2, <2>3
<1>7. Len(p) \in S
    <2> HIDE DEF S
    <2>1. \A k \in 1..Len(p) : k \in S
        BY <1>1, <1>5, <1>6, CountingUp
    <2> QED BY <1>1, <2>1
<1> QED BY <1>4, <1>7

\* The weight of a path stays clear of Infinity.
LEMMA WeightBounds ==
    ASSUME NEW x, Graph(x), NEW p \in Paths(x)
    PROVE  Weight(x, p) \in -(x.n * MaxWeight)..(x.n * MaxWeight) /\ Weight(x, p) \in Int
<1>1. PICK f : /\ Sums(x, p, f)
               /\ \A k \in 1..Len(p) : f[k] \in -(x.n * MaxWeight)..(x.n * MaxWeight)
    BY SumsExist
<1>2. Weight(x, p) = f[Len(p)] /\ Len(p) \in 1..Len(p)
    BY <1>1, WeightIs, PathShape, Sizes DEF Graph
<1> QED BY <1>1, <1>2

\* A path of one vertex weighs nothing.
LEMMA Single ==
    ASSUME NEW x, Graph(x), NEW v \in Vertices(x)
    PROVE  /\ <<v>> \in Paths(x) /\ Len(<<v>>) = 1 /\ <<v>>[1] = v /\ Last(<<v>>) = v
           /\ Weight(x, <<v>>) = 0
<1>1. <<v>> \in Seq(Vertices(x)) /\ Len(<<v>>) = 1 /\ <<v>>[1] = v /\ <<v>> # <<>>
    OBVIOUS
<1>2. <<v>> \in Paths(x)
    <2> DEFINE p == <<v>>
    <2>1. /\ \A i, j \in 1..Len(p) : p[i] = p[j] => i = j
          /\ \A k \in 1..Len(p) - 1 : Arcs(x, p[k], p[k + 1]) # {}
        OBVIOUS
    <2> HIDE DEF p
    <2>2. p \in Paths(x)
        BY <1>1, <2>1, PathIntro DEF p
    <2> QED BY <2>2 DEF p
<1>3. Sums(x, <<v>>, [k \in 1..1 |-> 0])
    BY DEF Sums
<1>4. Weight(x, <<v>>) = [k \in 1..1 |-> 0][1]
    BY <1>1, <1>2, <1>3, WeightIs
<1> QED BY <1>1, <1>2, <1>4 DEF Last

\* The first i vertices of a path.
LEMMA Prefix ==
    ASSUME NEW x, Graph(x), NEW p \in Paths(x), NEW f, Sums(x, p, f), NEW i \in 1..Len(p)
    PROVE  LET q == SubSeq(p, 1, i)
           IN  /\ q \in Paths(x) /\ Len(q) = i /\ \A k \in 1..i : q[k] = p[k]
               /\ Last(q) = p[i] /\ q[1] = p[1] /\ Weight(x, q) = f[i]
<1> DEFINE q == SubSeq(p, 1, i)
<1>1. Len(p) \in Nat \ {0} /\ p \in Seq(Vertices(x))
    BY Sizes, PathShape DEF Graph
<1>2. q \in Seq(Vertices(x)) /\ Len(q) = i /\ \A k \in 1..i : q[k] = p[k]
    BY <1>1
<1> HIDE DEF q
<1>3. q \in Paths(x)
    <2>1. \A k, j \in 1..Len(q) : q[k] = q[j] => k = j
        BY <1>1, <1>2, PathShape
    <2>2. ASSUME NEW k \in 1..Len(q) - 1 PROVE Arcs(x, q[k], q[k + 1]) # {}
        <3>1. k \in 1..Len(p) - 1 /\ q[k] = p[k] /\ q[k + 1] = p[k + 1]
            BY <1>1, <1>2
        <3>2. Arcs(x, p[k], p[k + 1]) # {}
            BY <3>1, PathShape
        <3> QED BY <3>1, <3>2, Zenon
    <2>3. q # <<>>
        BY <1>2
    <2> QED BY <1>2, <2>1, <2>2, <2>3, PathIntro
<1> DEFINE g == [k \in 1..i |-> f[k]]
<1>4. Sums(x, q, g)
    <2>1. g \in [1..Len(q) -> Int] /\ g[1] = 0
        BY <1>1, <1>2 DEF Sums
    <2>2. ASSUME NEW k \in 2..Len(q) PROVE g[k] = g[k - 1] + Lightest(x, q[k - 1], q[k])
        <3>1. k \in 2..Len(p) /\ q[k - 1] = p[k - 1] /\ q[k] = p[k]
            BY <1>1, <1>2
        <3>2. g[k] = f[k] /\ g[k - 1] = f[k - 1]
            BY <1>1, <1>2
        <3>3. f[k] = f[k - 1] + Lightest(x, p[k - 1], p[k])
            BY <3>1 DEF Sums
        <3> HIDE DEF g
        <3> QED BY <3>1, <3>2, <3>3, Zenon
    <2> QED BY <2>1, <2>2 DEF Sums
<1>5. Weight(x, q) = f[i]
    BY <1>2, <1>3, <1>4, WeightIs
<1> QED BY <1>2, <1>3, <1>5 DEF q, Last

\* From the i-th vertex on.
LEMMA Suffix ==
    ASSUME NEW x, Graph(x), NEW p \in Paths(x), NEW f, Sums(x, p, f), NEW i \in 1..Len(p)
    PROVE  LET q == SubSeq(p, i, Len(p))
           IN  /\ q \in Paths(x) /\ q[1] = p[i] /\ Last(q) = Last(p)
               /\ Weight(x, q) = f[Len(p)] - f[i]
<1> DEFINE q == SubSeq(p, i, Len(p))
           l == Len(p) - i + 1
<1>1. Len(p) \in Nat \ {0} /\ p \in Seq(Vertices(x))
    BY Sizes, PathShape DEF Graph
<1>2. q \in Seq(Vertices(x)) /\ Len(q) = l /\ \A k \in 1..l : q[k] = p[i + k - 1]
    BY <1>1
<1> HIDE DEF q
<1>3. q \in Paths(x)
    <2>1. ASSUME NEW k \in 1..Len(q), NEW j \in 1..Len(q), q[k] = q[j] PROVE k = j
        <3>1. i + k - 1 \in 1..Len(p) /\ i + j - 1 \in 1..Len(p)
            BY <1>1, <1>2
        <3>2. p[i + k - 1] = p[i + j - 1]
            BY <1>2, <2>1
        <3>3. i + k - 1 = i + j - 1
            BY <3>1, <3>2, PathShape
        <3> QED BY <1>1, <3>3
    <2>2. ASSUME NEW k \in 1..Len(q) - 1 PROVE Arcs(x, q[k], q[k + 1]) # {}
        <3>1. i + k - 1 \in 1..Len(p) - 1 /\ i + k - 1 + 1 = i + (k + 1) - 1 /\ k + 1 \in 1..l
            BY <1>1, <1>2
        <3>2. Arcs(x, p[i + k - 1], p[i + k - 1 + 1]) # {}
            <4> DEFINE a == i + k - 1
            <4>1. a \in 1..Len(p) - 1
                BY <3>1
            <4> HIDE DEF a
            <4>2. Arcs(x, p[a], p[a + 1]) # {}
                BY <4>1, PathShape
            <4> QED BY <4>2 DEF a
        <3>3. q[k] = p[i + k - 1] /\ q[k + 1] = p[i + k - 1 + 1]
            BY <1>2, <3>1
        <3> QED BY <3>2, <3>3, Zenon
    <2>3. q # <<>>
        BY <1>1, <1>2
    <2> QED BY <1>2, <2>1, <2>2, <2>3, PathIntro
<1> DEFINE g == [k \in 1..l |-> f[i + k - 1] - f[i]]
<1>4. Sums(x, q, g)
    <2>0. \A k \in 1..Len(p) : f[k] \in Int
        BY DEF Sums
    <2>1. g \in [1..Len(q) -> Int] /\ g[1] = 0
        <3>1. \A k \in 1..l : i + k - 1 \in 1..Len(p)
            BY <1>1
        <3>2. \A k \in 1..l : f[i + k - 1] - f[i] \in Int
            BY <2>0, <3>1
        <3>3. 1 \in 1..l /\ i + 1 - 1 = i /\ f[i] - f[i] = 0
            BY <1>1, <2>0
        <3>4. g[1] = f[i] - f[i]
            BY <3>3
        <3> QED BY <1>2, <3>2, <3>3, <3>4
    <2>2. ASSUME NEW k \in 2..Len(q) PROVE g[k] = g[k - 1] + Lightest(x, q[k - 1], q[k])
        <3>1. /\ i + k - 1 \in 2..Len(p) /\ i + (k - 1) - 1 = i + k - 1 - 1
              /\ k \in 1..l /\ k - 1 \in 1..l /\ i + k - 1 - 1 \in 1..Len(p)
            BY <1>1, <1>2
        <3>2. f[i + k - 1] = f[i + k - 1 - 1] + Lightest(x, p[i + k - 1 - 1], p[i + k - 1])
            BY <3>1 DEF Sums
        <3>3. q[k] = p[i + k - 1] /\ q[k - 1] = p[i + k - 1 - 1]
            BY <1>2, <3>1
        <3>4. g[k] = f[i + k - 1] - f[i] /\ g[k - 1] = f[i + k - 1 - 1] - f[i]
            BY <3>1
        <3>5. f[i + k - 1 - 1] \in Int /\ f[i + k - 1] \in Int /\ f[i] \in Int
            BY <2>0, <3>1
        <3>6. Lightest(x, p[i + k - 1 - 1], p[i + k - 1]) \in Int
            <4> DEFINE j == i + k - 1 - 1
            <4>1. j \in 1..Len(p) - 1 /\ j + 1 = i + k - 1
                BY <1>1, <1>2
            <4> HIDE DEF j
            <4>2. p[j] \in Vertices(x) /\ Arcs(x, p[j], p[j + 1]) # {}
                <5>1. /\ p \in [1..Len(p) -> Vertices(x)]
                      /\ \A a \in 1..Len(p) - 1 : Arcs(x, p[a], p[a + 1]) # {}
                    BY PathShape
                <5>2. j \in 1..Len(p)
                    BY <1>1, <4>1
                <5> QED BY <4>1, <5>1, <5>2, Zenon
            <4>3. Lightest(x, p[j], p[j + 1]) \in -MaxWeight..MaxWeight
                BY <4>2, ArcWeights
            <4>4. Lightest(x, p[j], p[j + 1]) \in Int
                BY <4>3, Sizes DEF Graph
            <4> QED BY <4>1, <4>4 DEF j
        <3> HIDE DEF g
        <3> QED BY <3>2, <3>3, <3>4, <3>5, <3>6
    <2> QED BY <2>1, <2>2 DEF Sums
<1>5. Weight(x, q) = f[Len(p)] - f[i]
    <2>1. l \in 1..l /\ i + l - 1 = Len(p)
        BY <1>1
    <2>2. Weight(x, q) = g[l]
        BY <1>2, <1>3, <1>4, WeightIs
    <2> QED BY <2>1, <2>2
<1>6. q[1] = p[i] /\ Last(q) = Last(p)
    BY <1>1, <1>2 DEF Last
<1> QED BY <1>3, <1>5, <1>6 DEF q

\* One vertex more.
LEMMA Longer ==
    ASSUME NEW x, Graph(x), NEW p \in Paths(x), NEW v \in Vertices(x),
           \A k \in 1..Len(p) : p[k] # v, Arcs(x, Last(p), v) # {}
    PROVE  LET q == Append(p, v)
           IN  /\ q \in Paths(x) /\ Len(q) = Len(p) + 1 /\ q[1] = p[1] /\ Last(q) = v
               /\ \A k \in 1..Len(p) : q[k] = p[k]
               /\ Weight(x, q) = Weight(x, p) + Lightest(x, Last(p), v)
<1> DEFINE q == Append(p, v)
<1>1. Len(p) \in Nat \ {0} /\ p \in Seq(Vertices(x))
    BY Sizes, PathShape DEF Graph
<1>2. /\ q \in Seq(Vertices(x)) /\ Len(q) = Len(p) + 1 /\ q[Len(p) + 1] = v
      /\ \A k \in 1..Len(p) : q[k] = p[k]
    BY <1>1
<1> HIDE DEF q
<1>3. q \in Paths(x)
    <2>1. \A k, j \in 1..Len(q) : q[k] = q[j] => k = j
        BY <1>1, <1>2, PathShape
    <2>2. ASSUME NEW k \in 1..Len(q) - 1 PROVE Arcs(x, q[k], q[k + 1]) # {}
        <3>1. CASE k = Len(p)
            <4>1. q[k] = Last(p) /\ q[k + 1] = v
                BY <1>1, <1>2, <3>1 DEF Last
            <4> QED BY <4>1, Zenon
        <3>2. CASE k # Len(p)
            <4>1. k \in 1..Len(p) - 1 /\ q[k] = p[k] /\ q[k + 1] = p[k + 1]
                BY <1>1, <1>2, <3>2
            <4>2. Arcs(x, p[k], p[k + 1]) # {}
                BY <4>1, PathShape
            <4> QED BY <4>1, <4>2, Zenon
        <3> QED BY <3>1, <3>2
    <2>3. q # <<>>
        BY <1>1, <1>2
    <2> QED BY <1>2, <2>1, <2>2, <2>3, PathIntro
<1>4. PICK f : Sums(x, p, f)
    BY SumsExist
<1> DEFINE w == Lightest(x, Last(p), v)
           g == [k \in 1..Len(p) + 1 |-> IF k = Len(p) + 1 THEN f[Len(p)] + w ELSE f[k]]
<1>5. w \in Int
    BY ArcWeights, PathShape, Sizes DEF Graph
<1>6. Sums(x, q, g)
    <2>1. g \in [1..Len(q) -> Int] /\ g[1] = 0
        BY <1>1, <1>2, <1>4, <1>5 DEF Sums
    <2>2. ASSUME NEW k \in 2..Len(q) PROVE g[k] = g[k - 1] + Lightest(x, q[k - 1], q[k])
        <3>1. CASE k = Len(p) + 1
            BY <1>1, <1>2, <3>1 DEF Last
        <3>2. CASE k # Len(p) + 1
            BY <1>1, <1>2, <1>4, <3>2 DEF Sums
        <3> QED BY <3>1, <3>2
    <2> QED BY <2>1, <2>2 DEF Sums
<1>7. Weight(x, p) = f[Len(p)] /\ Weight(x, q) = g[Len(p) + 1]
    BY <1>2, <1>3, <1>4, <1>6, WeightIs
<1>8. Weight(x, q) = Weight(x, p) + w
    BY <1>1, <1>7
<1> QED BY <1>1, <1>2, <1>3, <1>8 DEF q, Last

\* Without a negative cycle a path goes on by an arc, or by a shorter way.
LEMMA Further ==
    ASSUME NEW x, Graph(x), ~HasNegativeCycle(x), NEW p \in Paths(x), NEW v \in Vertices(x),
           NEW w \in Arcs(x, Last(p), v)
    PROVE  \E q \in Paths(x) : Last(q) = v /\ Weight(x, q) <= Weight(x, p) + w
<1>1. Last(p) \in Vertices(x) /\ Len(p) \in Nat \ {0} /\ Last(p) = p[Len(p)]
    BY PathShape, Sizes DEF Graph
<1>2. /\ Lightest(x, Last(p), v) \in Int /\ w \in Int /\ Lightest(x, Last(p), v) <= w
      /\ Weight(x, p) \in Int
    BY <1>1, ArcWeights, WeightBounds, Sizes DEF Graph
<1>3. CASE \A k \in 1..Len(p) : p[k] # v
    <2> DEFINE q == Append(p, v)
    <2>1. q \in Paths(x) /\ Last(q) = v /\ Weight(x, q) = Weight(x, p) + Lightest(x, Last(p), v)
        BY <1>3, Longer
    <2> HIDE DEF q
    <2> QED BY <1>2, <2>1
<1>4. CASE \E k \in 1..Len(p) : p[k] = v
    <2>1. PICK i \in 1..Len(p) : p[i] = v
        BY <1>4
    <2>2. PICK f : Sums(x, p, f)
        BY SumsExist
    <2> DEFINE q == SubSeq(p, 1, i)
               c == SubSeq(p, i, Len(p))
    <2>3. q \in Paths(x) /\ Last(q) = v /\ Weight(x, q) = f[i]
        BY <2>1, <2>2, Prefix
    <2>4. c \in Paths(x) /\ c[1] = v /\ Last(c) = Last(p) /\ Weight(x, c) = f[Len(p)] - f[i]
        BY <2>1, <2>2, Suffix
    <2> HIDE DEF q, c
    <2>5. ~(Weight(x, c) + Lightest(x, Last(p), v) < 0)
        BY <2>4 DEF HasNegativeCycle
    <2>6. Weight(x, p) = f[Len(p)] /\ f[Len(p)] \in Int /\ f[i] \in Int
        BY <1>1, <2>2, WeightIs DEF Sums
    <2>7. Weight(x, q) <= Weight(x, p) + w
        BY <1>2, <2>3, <2>4, <2>5, <2>6
    <2> QED BY <2>3, <2>7
<1> QED BY <1>3, <1>4

\* Numbers no arc raises by more than it weighs rise by no more along a path.
LEMMA Telescope ==
    ASSUME NEW x, Graph(x), NEW p \in Paths(x), NEW d, \A v \in Vertices(x) : d[v] \in Int,
           \A u, v \in Vertices(x) : \A w \in Arcs(x, u, v) : d[v] <= d[u] + w
    PROVE  d[Last(p)] <= d[p[1]] + Weight(x, p)
<1>1. PICK f : Sums(x, p, f)
    BY SumsExist
<1>2. Len(p) \in Nat \ {0} /\ p \in [1..Len(p) -> Vertices(x)]
    BY PathShape, Sizes DEF Graph
<1> DEFINE S == {k \in 1..Len(p) : d[p[k]] <= d[p[1]] + f[k]}
<1>3. 1 \in S
    BY <1>1, <1>2 DEF Sums
<1>4. ASSUME NEW k \in 1..Len(p) - 1, k \in S PROVE k + 1 \in S
    <2>1. k + 1 \in 2..Len(p) /\ k + 1 - 1 = k /\ k \in 1..Len(p) /\ k + 1 \in 1..Len(p)
        BY <1>2
    <2>2. Lightest(x, p[k], p[k + 1]) \in Arcs(x, p[k], p[k + 1])
        BY <1>2, <2>1, PathShape, ArcWeights
    <2>3. d[p[k + 1]] <= d[p[k]] + Lightest(x, p[k], p[k + 1])
        BY <1>2, <2>1, <2>2
    <2>4. f[k + 1] = f[k] + Lightest(x, p[k], p[k + 1]) /\ f[k] \in Int /\ f[k + 1] \in Int
        BY <1>1, <2>1 DEF Sums
    <2>5. Lightest(x, p[k], p[k + 1]) \in Int
        <3>1. Arcs(x, p[k], p[k + 1]) \subseteq -MaxWeight..MaxWeight
            BY <1>2, <2>1, ArcWeights
        <3> QED BY <2>2, <3>1, Sizes DEF Graph
    <2>6. d[p[1]] \in Int /\ d[p[k]] \in Int /\ d[p[k + 1]] \in Int /\ d[p[k]] <= d[p[1]] + f[k]
        BY <1>2, <1>4, <2>1
    <2>7. d[p[k + 1]] <= d[p[1]] + f[k + 1]
        <3> DEFINE w == Lightest(x, p[k], p[k + 1])
               a == d[p[1]]
               b == d[p[k]]
               c == d[p[k + 1]]
        <3>1. /\ c <= b + w /\ f[k + 1] = f[k] + w /\ w \in Int /\ f[k] \in Int
            BY <2>3, <2>4, <2>5
        <3>2. a \in Int /\ b \in Int /\ c \in Int /\ b <= a + f[k]
            BY <2>6
        <3> HIDE DEF w, a, b, c
        <3>3. c <= a + f[k + 1]
            BY <3>1, <3>2
        <3> QED BY <3>3 DEF a, c
    <2> QED BY <2>1, <2>7
<1>5. Len(p) \in S
    <2> HIDE DEF S
    <2>1. \A k \in 1..Len(p) : k \in S
        BY <1>2, <1>3, <1>4, CountingUp
    <2> QED BY <1>2, <2>1
<1> QED BY <1>1, <1>5, WeightIs DEF Last
-----------------------------------------------------------------------------
(* Reading *)

\* Each edge of E from a vertex is an arc of x, and each arc of the first l lines is in E,
\* with the difference of a potential g at its ends in the weight.
Carries(x, E, l, g) ==
    /\ \A e \in E : e.source \in Vertices(x) =>
        \E w \in Arcs(x, e.source, e.destination) :
            e.weight = w + g[e.source] - g[e.destination]
    /\ \A u \in 0..l - 1 : \A v \in Vertices(x) : \A w \in Arcs(x, u, v) :
        [source |-> u, destination |-> v, weight |-> w + g[u] - g[v]] \in E

\* The lines read are without fault, and their arcs are the edges, with h in the weights.
Reading ==
    /\ pc = "refused" => ~WellFormed(input)
    /\ pc # "refused" =>
        /\ line <= Len(input.lines) /\ (pc # "read" => line = n)
        /\ \A u \in 0..line - 1 : LineFits(input, input.lines[u + 1])
        /\ h \in [vertices -> Int] /\ Carries(input, Range(edges), line, h)
        /\ pc \in {"read", "relax", "nc"} => \A v \in vertices : h[v] = 0
        /\ pc \in {"read", "relax"} => \A e \in Range(edges) : e.source = n => e.weight = 0
        /\ pc = "relax" => \A v \in vertices :
            [source |-> n, destination |-> v, weight |-> 0] \in Range(edges)

\* The graph is never touched.
LEMMA Fixed ==
    ASSUME [Next]_vars
    PROVE  input' = input /\ n' = n /\ vertices' = vertices
<1>1. input' = input
    BY DEF Next, ReadLine, RefuseFile, MakeGprime, RelaxNext, NegativeCycle, Reweight,
           StartDijkstra, ExtractMin, ScanEdge, Record, Write, vars, graph
<1> QED BY <1>1 DEF n, vertices

\* Arcs weigh integers.
LEMMA ArcInts ==
    ASSUME NEW x \in Inputs, NEW u \in 0..Len(x.lines) - 1, NEW v
    PROVE  Arcs(x, u, v) \subseteq Int
<1>1. x.lines \in Seq(Seq(Int)) /\ Len(x.lines) \in Nat
    BY JohnsonAssumption
<1> DEFINE l == x.lines[u + 1]
<1>2. l \in Seq(Int) /\ Len(l) \in Nat
    BY <1>1
<1> HIDE DEF l
<1>3. ASSUME NEW k \in 1..Len(l) \div 2 PROVE l[2*k] \in Int
    BY <1>2, <1>3, TwoEach
<1>4. Arcs(x, u, v) = {l[2*k] : k \in {m \in 1..Len(l) \div 2 : l[2*m - 1] = v + 1}}
    BY Zenon DEF Arcs, l
<1> QED BY <1>3, <1>4

\* The elements of a concatenation.
LEMMA RangeConcat ==
    ASSUME NEW S, NEW a \in Seq(S), NEW b \in Seq(S)
    PROVE  Range(a \o b) = Range(a) \cup Range(b)
<1>1. /\ DOMAIN (a \o b) = 1..Len(a) + Len(b) /\ Len(a) \in Nat /\ Len(b) \in Nat
      /\ DOMAIN a = 1..Len(a) /\ DOMAIN b = 1..Len(b)
      /\ \A k \in 1..Len(a) : (a \o b)[k] = a[k]
      /\ \A k \in 1..Len(b) : (a \o b)[Len(a) + k] = b[k]
    OBVIOUS
<1> DEFINE c == a \o b
<1>2. ASSUME NEW k \in DOMAIN c PROVE c[k] \in Range(a) \cup Range(b)
    <2>1. CASE k \in 1..Len(a)
        BY <1>1, <2>1 DEF Range
    <2>2. CASE k \notin 1..Len(a)
        <3>1. k - Len(a) \in 1..Len(b) /\ k = Len(a) + (k - Len(a))
            BY <1>1, <2>2
        <3>2. c[k] = b[k - Len(a)]
            BY <1>1, <3>1
        <3> QED BY <1>1, <3>1, <3>2 DEF Range
    <2> QED BY <2>1, <2>2
<1>3. ASSUME NEW k \in DOMAIN a PROVE a[k] \in Range(c)
    BY <1>1 DEF Range
<1>4. ASSUME NEW k \in DOMAIN b PROVE b[k] \in Range(c)
    <2>1. Len(a) + k \in DOMAIN c /\ c[Len(a) + k] = b[k]
        BY <1>1
    <2> QED BY <2>1 DEF Range
<1> HIDE DEF c
<1>5. Range(c) = Range(a) \cup Range(b)
    BY <1>2, <1>3, <1>4 DEF Range
<1> QED BY <1>5 DEF c

\* The edges made of a line are the arcs of its vertex.
LEMMA ListedArcs ==
    ASSUME NEW x \in Inputs, NEW u \in Vertices(x), u < Len(x.lines),
           LineFits(x, x.lines[u + 1])
    PROVE  /\ \A e \in Range(Listed(u, x.lines[u + 1])) :
                /\ e.source = u /\ e.destination \in Vertices(x)
                /\ e.weight \in Arcs(x, u, e.destination)
           /\ \A v \in Vertices(x) : \A w \in Arcs(x, u, v) :
                [source |-> u, destination |-> v, weight |-> w]
                    \in Range(Listed(u, x.lines[u + 1]))
<1> DEFINE l == x.lines[u + 1]
           K == 1..Len(l) \div 2
<1>1. l \in Seq(Int) /\ Len(l) \in Nat /\ x.n \in Nat
    BY JohnsonAssumption DEF Vertices
<1>2. \A v : Arcs(x, u, v) = {l[2*k] : k \in {m \in K : l[2*m - 1] = v + 1}}
    BY Zenon DEF Arcs
<1>3. \A k \in K : l[2*k - 1] - 1 \in Vertices(x)
    BY DEF LineFits
<1> HIDE DEF l
<1>4. /\ DOMAIN Listed(u, l) = K
      /\ \A k \in K : Listed(u, l)[k] =
            [source |-> u, destination |-> l[2*k - 1] - 1, weight |-> l[2*k]]
    BY DEF Listed
<1>5. \A k \in K : l[2*k - 1] \in Int
    BY <1>1, TwoEach
<1> HIDE DEF K
<1>6. ASSUME NEW e \in Range(Listed(u, l))
      PROVE  /\ e.source = u /\ e.destination \in Vertices(x)
             /\ e.weight \in Arcs(x, u, e.destination)
    <2>1. PICK k \in K : e = [source |-> u, destination |-> l[2*k - 1] - 1, weight |-> l[2*k]]
        BY <1>4 DEF Range
    <2>2. l[2*k - 1] = l[2*k - 1] - 1 + 1
        BY <1>5
    <2>3. l[2*k] \in Arcs(x, u, l[2*k - 1] - 1)
        BY <1>2, <2>2
    <2> QED BY <1>3, <2>1, <2>3
<1>7. ASSUME NEW v \in Vertices(x), NEW w \in Arcs(x, u, v)
      PROVE  [source |-> u, destination |-> v, weight |-> w] \in Range(Listed(u, l))
    <2>1. PICK k \in K : l[2*k - 1] = v + 1 /\ w = l[2*k]
        BY <1>2, <1>7
    <2>2. l[2*k - 1] - 1 = v
        BY <1>1, <2>1 DEF Vertices
    <2> QED BY <1>4, <2>1, <2>2 DEF Range
<1> QED BY <1>6, <1>7 DEF l

\* Reading holds before the first line.
LEMMA ReadingInitially == Init => Reading
<1> SUFFICES ASSUME Init PROVE Reading
    OBVIOUS
<1>1. n \in Nat /\ input.lines \in Seq(Seq(Int))
    BY SizeIsNat DEF Init
<1>2. pc = "read" /\ line = 0 /\ Range(edges) = {} /\ h = [v \in vertices |-> 0]
    BY DEF Init, Range
<1>3. line <= Len(input.lines) /\ 0..line - 1 = {}
    BY <1>1, <1>2
<1>4. Carries(input, Range(edges), line, h)
    BY <1>2, <1>3 DEF Carries
<1> QED BY <1>2, <1>3, <1>4 DEF Reading

\* A line adds the arcs of its vertex.
LEMMA ReadLineKeepsReading == TypeInv /\ Reading /\ ReadLine => Reading'
<1> SUFFICES ASSUME TypeInv, Reading, ReadLine PROVE Reading'
    OBVIOUS
<1>1. /\ n \in Nat /\ input \in Inputs /\ input.lines \in Seq(Seq(Int))
      /\ line \in Nat /\ line < n /\ line < Len(input.lines) /\ Len(input.lines) \in Nat
    BY SizeIsNat DEF TypeInv, ReadLine
<1>2. /\ input' = input /\ n' = n /\ vertices' = vertices /\ h' = h /\ pc = "read" /\ pc' = "read"
      /\ line' = line + 1
    BY DEF ReadLine, n, vertices
<1> DEFINE l == input.lines[line + 1]
           L == Listed(line, l)
<1>3. line \in Vertices(input) /\ vertices = Vertices(input)
    BY <1>1 DEF Vertices, vertices, n
<1>4. LineFits(input, l) /\ l \in Seq(Int) /\ ~InvalidVertex(l)
    <2>1. l \in Seq(Int) /\ ~InvalidVertex(l)
        BY <1>1 DEF ReadLine
    <2> HIDE DEF l
    <2> QED BY <1>3, <2>1 DEF InvalidVertex, LineFits
<1>5. /\ \A e \in Range(L) :
            /\ e.source = line /\ e.destination \in vertices
            /\ e.weight \in Arcs(input, line, e.destination)
      /\ \A v \in vertices : \A w \in Arcs(input, line, v) :
            [source |-> line, destination |-> v, weight |-> w] \in Range(L)
    BY <1>1, <1>3, <1>4, ListedArcs
<1>6. Range(edges') = Range(edges) \cup Range(L)
    <2>1. L \in Seq(EdgeSet) /\ edges \in Seq(EdgeSet)
        BY <1>1, <1>3, <1>4, ListedType DEF TypeInv
    <2> HIDE DEF L
    <2>2. edges' = edges \o L
        BY DEF ReadLine, L
    <2> QED BY <2>1, <2>2, RangeConcat
<1>7. /\ \A u \in 0..line - 1 : LineFits(input, input.lines[u + 1])
      /\ h \in [vertices -> Int] /\ Carries(input, Range(edges), line, h)
      /\ \A v \in vertices : h[v] = 0
      /\ \A e \in Range(edges) : e.source = n => e.weight = 0
    BY <1>2 DEF Reading
<1>8. \A u \in 0..line : \A v : Arcs(input, u, v) \subseteq Int
    BY <1>1, ArcInts
<1> HIDE DEF L
<1>9. line' <= Len(input.lines) /\ 0..line' - 1 = 0..line
    BY <1>1, <1>2
<1>10. \A u \in 0..line : LineFits(input, input.lines[u + 1])
    <2>1. \A u \in 0..line : u = line \/ u \in 0..line - 1
        BY <1>1
    <2> QED BY <1>4, <1>7, <2>1
<1> HIDE DEF l
<1>11. ASSUME NEW e \in Range(edges) \cup Range(L), e.source \in vertices
       PROVE  \E w \in Arcs(input, e.source, e.destination) :
                 e.weight = w + h[e.source] - h[e.destination]
    <2>1. CASE e \in Range(edges)
        BY <1>3, <1>7, <1>11, <2>1, Zenon DEF Carries
    <2>2. CASE e \in Range(L)
        <3> DEFINE w == e.weight
        <3>1. w \in Arcs(input, e.source, e.destination) /\ w \in Int
            BY <1>1, <1>5, <1>8, <2>2
        <3>2. h[e.source] = 0 /\ h[e.destination] = 0
            BY <1>5, <1>7, <1>11, <2>2
        <3>3. w = w + 0 - 0
            BY <3>1
        <3> QED BY <3>1, <3>2, <3>3
    <2> QED BY <2>1, <2>2
<1>12. ASSUME NEW u \in 0..line, NEW v \in vertices, NEW w \in Arcs(input, u, v)
       PROVE  [source |-> u, destination |-> v, weight |-> w + h[u] - h[v]]
                 \in Range(edges) \cup Range(L)
    <2>1. CASE u = line
        <3>1. h[u] = 0 /\ h[v] = 0 /\ w \in Int
            BY <1>3, <1>7, <1>8, <2>1
        <3>2. w + h[u] - h[v] = w
            BY <3>1
        <3> QED BY <1>5, <2>1, <3>2
    <2>2. CASE u # line
        <3>1. u \in 0..line - 1
            BY <1>1, <2>2
        <3> QED BY <1>3, <1>7, <3>1 DEF Carries
    <2> QED BY <2>1, <2>2
<1>13. Carries(input, Range(edges'), line', h)
    <2>1. \A e \in Range(edges') : e.source \in Vertices(input) =>
            \E w \in Arcs(input, e.source, e.destination) :
                e.weight = w + h[e.source] - h[e.destination]
        BY <1>3, <1>6, <1>11
    <2>2. \A u \in 0..line' - 1 : \A v \in Vertices(input) : \A w \in Arcs(input, u, v) :
            [source |-> u, destination |-> v, weight |-> w + h[u] - h[v]] \in Range(edges')
        BY <1>3, <1>6, <1>12, <1>9
    <2> QED BY <2>1, <2>2, Zenon DEF Carries
<1>14. \A e \in Range(edges') : e.source = n => e.weight = 0
    BY <1>1, <1>5, <1>6, <1>7
<1>15. /\ line' <= Len(input'.lines)
       /\ \A u \in 0..line' - 1 : LineFits(input', input'.lines[u + 1])
       /\ Carries(input', Range(edges'), line', h')
    <2>1. \A u \in 0..line' - 1 : LineFits(input, input.lines[u + 1])
        BY <1>10, <1>9
    <2> QED BY <1>2, <1>13, <1>9, <2>1, Zenon
<1> QED BY <1>2, <1>7, <1>14, <1>15 DEF Reading

\* A file is refused for a line that is missing or does not fit.
LEMMA RefuseFileKeepsReading == TypeInv /\ Reading /\ RefuseFile => Reading'
<1> SUFFICES ASSUME TypeInv, Reading, RefuseFile PROVE Reading'
    OBVIOUS
<1>1. n \in Nat /\ input.lines \in Seq(Seq(Int)) /\ line \in Nat /\ line < n
    BY SizeIsNat DEF TypeInv, RefuseFile
<1>2. input' = input /\ pc' = "refused"
    BY DEF RefuseFile, graph
<1>3. ~WellFormed(input)
    <2>1. CASE TooFewLines
        BY <1>1, <2>1 DEF TooFewLines, WellFormed, n
    <2>2. CASE InvalidVertex(input.lines[line + 1])
        <3>1. line \in Vertices(input) /\ vertices = Vertices(input)
            BY <1>1 DEF Vertices, vertices, n
        <3>2. ~LineFits(input, input.lines[line + 1])
            BY <2>2, <3>1 DEF InvalidVertex, LineFits
        <3> QED BY <3>1, <3>2 DEF WellFormed
    <2> QED BY <2>1, <2>2 DEF RefuseFile
<1> QED BY <1>2, <1>3 DEF Reading

\* The edges of s come on top.
LEMMA MakeGprimeKeepsReading == TypeInv /\ Reading /\ MakeGprime => Reading'
<1> SUFFICES ASSUME TypeInv, Reading, MakeGprime PROVE Reading'
    OBVIOUS
<1>1. n \in Nat /\ pc = "read" /\ pc' = "relax" /\ line = n
    BY SizeIsNat DEF TypeInv, MakeGprime
<1>2. input' = input /\ n' = n /\ vertices' = vertices /\ h' = h /\ line' = line
    BY DEF MakeGprime, n, vertices
<1> DEFINE zero == [k \in 1..n |-> [source |-> n, destination |-> k - 1, weight |-> 0]]
<1>3. zero \in Seq(EdgeSet) /\ Range(edges') = Range(edges) \cup Range(zero)
    <2>1. zero \in Seq(EdgeSet)
        BY <1>1 DEF EdgeSet, vertices
    <2>2. edges' = edges \o zero /\ edges \in Seq(EdgeSet)
        BY DEF MakeGprime, s, TypeInv
    <2> HIDE DEF zero
    <2> QED BY <2>1, <2>2, RangeConcat
<1>4. \A e \in Range(zero) : e.source = n /\ e.weight = 0
    BY DEF Range
<1>5. ASSUME NEW v \in vertices
      PROVE  [source |-> n, destination |-> v, weight |-> 0] \in Range(zero)
    <2>1. v + 1 \in 1..n /\ v + 1 - 1 = v
        BY <1>1 DEF vertices
    <2> DEFINE k == v + 1
    <2>2. zero[k] = [source |-> n, destination |-> k - 1, weight |-> 0]
        BY <2>1
    <2>3. k \in DOMAIN zero /\ k - 1 = v
        BY <1>1, <2>1 DEF vertices
    <2> HIDE DEF zero, k
    <2>4. zero[k] \in Range(zero)
        BY <2>3 DEF Range
    <2> QED BY <2>2, <2>3, <2>4
<1> HIDE DEF zero
<1>6. n \notin Vertices(input)
    BY <1>1 DEF Vertices, n
<1>7. Carries(input, Range(edges'), line, h)
    BY <1>1, <1>3, <1>4, <1>6 DEF Reading, Carries
<1>8. \A e \in Range(edges') : e.source = n => e.weight = 0
    BY <1>1, <1>3, <1>4 DEF Reading
<1> QED BY <1>1, <1>2, <1>3, <1>5, <1>7, <1>8 DEF Reading

\* The distances become the potential the weights carry.
LEMMA ReweightKeepsReading == TypeInv /\ Reading /\ Reweight => Reading'
<1> SUFFICES ASSUME TypeInv, Reading, Reweight PROVE Reading'
    OBVIOUS
<1>1. n \in Nat /\ input \in Inputs /\ input.lines \in Seq(Seq(Int))
    BY SizeIsNat DEF TypeInv
<1>2. /\ input' = input /\ n' = n /\ vertices' = vertices /\ line' = line
      /\ pc = "relax" /\ pc' \in {"infinite", "source"}
    BY DEF Reweight, n, vertices
<1>3. /\ vertices = Vertices(input) /\ line = n /\ vertices \subseteq 0..n /\ vertices \subseteq Int
    BY <1>1, <1>2 DEF vertices, Vertices, n, Reading
<1>4. /\ line <= Len(input.lines) /\ Carries(input, Range(edges), line, h)
      /\ \A v \in vertices : h[v] = 0
    BY <1>2 DEF Reading
<1>5. h' = [v \in vertices |-> distance[v]] /\ \A v \in 0..n : distance[v] \in Int
    BY DEF Reweight, TypeInv
<1>6. h' \in [vertices -> Int] /\ \A v \in vertices : h'[v] = distance[v]
    BY <1>3, <1>5
<1>7. \A u \in vertices : \A v : Arcs(input, u, v) \subseteq Int
    <2>1. \A u \in vertices : u \in 0..Len(input.lines) - 1
        BY <1>1, <1>3, <1>4 DEF vertices
    <2> QED BY <1>1, <2>1, ArcInts
<1>8. /\ edges \in Seq(EdgeSet) /\ DOMAIN edges' = DOMAIN edges
      /\ \A k \in DOMAIN edges :
            edges'[k] = [edges[k] EXCEPT !.weight = edges[k].weight
                            + distance[edges[k].source] - distance[edges[k].destination]]
    BY DEF Reweight, TypeInv
<1>9. ASSUME NEW k \in DOMAIN edges
      PROVE  /\ edges[k] \in EdgeSet /\ edges[k] \in Range(edges) /\ edges'[k] \in Range(edges')
             /\ edges'[k] = [source |-> edges[k].source, destination |-> edges[k].destination,
                             weight |-> edges[k].weight + distance[edges[k].source]
                                           - distance[edges[k].destination]]
    <2>1. edges[k] \in EdgeSet
        BY <1>8, <1>9
    <2>2. edges[k] \in Range(edges) /\ edges'[k] \in Range(edges')
        BY <1>8, <1>9 DEF Range
    <2> QED BY <1>8, <1>9, <2>1, <2>2 DEF EdgeSet
<1>10. ASSUME NEW e \in Range(edges'), e.source \in vertices
       PROVE  \E w \in Arcs(input, e.source, e.destination) :
                 e.weight = w + h'[e.source] - h'[e.destination]
    <2>1. PICK k \in DOMAIN edges : e = edges'[k]
        BY <1>8 DEF Range
    <2> DEFINE u == edges[k].source
               v == edges[k].destination
    <2>2. /\ e.source = u /\ e.destination = v /\ u \in vertices /\ v \in vertices
          /\ e.weight = edges[k].weight + distance[u] - distance[v]
        <3>1. e = [source |-> u, destination |-> v,
                   weight |-> edges[k].weight + distance[u] - distance[v]]
            BY <1>9, <2>1
        <3>2. v \in vertices
            BY <1>9 DEF EdgeSet
        <3> HIDE DEF u, v
        <3> QED BY <1>10, <3>1, <3>2
    <2>3. PICK w \in Arcs(input, u, v) : edges[k].weight = w + h[u] - h[v]
        BY <1>3, <1>4, <1>9, <2>2 DEF Carries
    <2> HIDE DEF u, v
    <2>4. /\ w \in Int /\ h[u] = 0 /\ h[v] = 0 /\ h'[u] = distance[u] /\ h'[v] = distance[v]
          /\ distance[u] \in Int /\ distance[v] \in Int
        BY <1>3, <1>4, <1>5, <1>6, <1>7, <2>2
    <2>5. e.weight = w + h'[u] - h'[v]
        BY <2>2, <2>3, <2>4
    <2> QED BY <2>2, <2>5
<1>11. ASSUME NEW u \in vertices, NEW v \in vertices, NEW w \in Arcs(input, u, v)
       PROVE  [source |-> u, destination |-> v, weight |-> w + h'[u] - h'[v]] \in Range(edges')
    <2>1. u \in 0..line - 1
        BY <1>3 DEF vertices
    <2>2. [source |-> u, destination |-> v, weight |-> w + h[u] - h[v]] \in Range(edges)
        BY <1>3, <1>4, <2>1 DEF Carries
    <2>3. PICK k \in DOMAIN edges :
            edges[k] = [source |-> u, destination |-> v, weight |-> w + h[u] - h[v]]
        BY <2>2 DEF Range
    <2>4. /\ w \in Int /\ h[u] = 0 /\ h[v] = 0 /\ h'[u] = distance[u] /\ h'[v] = distance[v]
          /\ distance[u] \in Int /\ distance[v] \in Int
        BY <1>3, <1>4, <1>5, <1>6, <1>7
    <2>5. w + h[u] - h[v] = w
        BY <2>4
    <2>6. edges'[k] = [source |-> u, destination |-> v, weight |-> w + distance[u] - distance[v]]
        BY <1>9, <2>3, <2>5
    <2> QED BY <1>9, <2>4, <2>6
<1>12. Carries(input, Range(edges'), line, h')
    <2>1. \A e \in Range(edges') : e.source \in Vertices(input) =>
            \E w \in Arcs(input, e.source, e.destination) :
                e.weight = w + h'[e.source] - h'[e.destination]
        BY <1>3, <1>10
    <2>2. \A u \in 0..line - 1 : \A v \in Vertices(input) : \A w \in Arcs(input, u, v) :
            [source |-> u, destination |-> v, weight |-> w + h'[u] - h'[v]] \in Range(edges')
        <3>1. 0..line - 1 = vertices
            BY <1>3 DEF vertices
        <3> QED BY <1>3, <1>11, <3>1
    <2> QED BY <2>1, <2>2, Zenon DEF Carries
<1> QED BY <1>2, <1>3, <1>4, <1>6, <1>12 DEF Reading

\* Reading holds through every step.
LEMMA ReadingStep == TypeInv /\ Reading /\ [Next]_vars => Reading'
<1> SUFFICES ASSUME TypeInv, Reading, [Next]_vars PROVE Reading'
    OBVIOUS
<1>1. CASE ReadLine
    BY <1>1, ReadLineKeepsReading
<1>2. CASE RefuseFile
    BY <1>2, RefuseFileKeepsReading
<1>3. CASE MakeGprime
    BY <1>3, MakeGprimeKeepsReading
<1>4. CASE Reweight
    BY <1>4, ReweightKeepsReading
<1>5. CASE ~(ReadLine \/ RefuseFile \/ MakeGprime \/ Reweight)
    <2>1. input' = input /\ n' = n /\ vertices' = vertices
        BY Fixed
    <2>2. /\ line' = line /\ edges' = edges /\ h' = h
          /\ \/ pc' = pc
             \/ pc = "relax" /\ pc' = "nc"
             \/ {pc, pc'} \subseteq {"source", "dijkstra", "written"}
        BY <1>5 DEF Next, RelaxNext, NegativeCycle, StartDijkstra, ExtractMin, ScanEdge, Record,
                    Write, vars, graph
    <2> QED BY <2>1, <2>2 DEF Reading
<1> QED BY <1>1, <1>2, <1>3, <1>4, <1>5

\* What Reading says of the graph once it has been read.
LEMMA GraphRead ==
    ASSUME TypeInv, Reading, pc # "refused", pc # "read" \/ line = n
    PROVE  /\ Graph(input) /\ n \in Nat /\ n = input.n /\ vertices = Vertices(input)
           /\ vertices \subseteq 0..n /\ n \notin vertices
           /\ h \in [vertices -> Int]
           /\ \A e \in Range(edges) :
                /\ e.source \in 0..n /\ e.destination \in vertices /\ e.weight \in Int
                /\ e.source # n => e.source \in vertices
                /\ e.source \in vertices =>
                    \E w \in Arcs(input, e.source, e.destination) :
                        w \in Int /\ e.weight = w + h[e.source] - h[e.destination]
           /\ \A u, v \in vertices : \A w \in Arcs(input, u, v) :
                /\ w \in Int
                /\ [source |-> u, destination |-> v, weight |-> w + h[u] - h[v]] \in Range(edges)
<1>1. n \in Nat /\ input \in Inputs /\ n = input.n /\ vertices = Vertices(input) /\ line = n
    BY SizeIsNat DEF TypeInv, Reading, n, vertices, Vertices
<1>2. /\ n <= Len(input.lines) /\ \A u \in 0..n - 1 : LineFits(input, input.lines[u + 1])
      /\ h \in [vertices -> Int] /\ Carries(input, Range(edges), n, h)
    BY <1>1 DEF Reading
<1>3. vertices = 0..n - 1 /\ vertices \subseteq 0..n /\ n \notin vertices
      /\ \A u \in 0..n : u # n => u \in vertices
    BY <1>1 DEF vertices
<1>4. Len(input.lines) \in Nat
    BY <1>1, JohnsonAssumption
<1>5. Graph(input)
    BY <1>1, <1>2, <1>3, <1>4 DEF Graph, WellFormed
<1>6. \A u \in vertices : \A v : Arcs(input, u, v) \subseteq Int
    <2>1. \A u \in vertices : u \in 0..Len(input.lines) - 1
        BY <1>1, <1>2, <1>3, <1>4
    <2> QED BY <1>1, <2>1, ArcInts
<1>7. \A e \in Range(edges) : e \in EdgeSet
    BY DEF TypeInv, Range
<1>8. ASSUME NEW e \in Range(edges)
      PROVE  /\ e.source \in 0..n /\ e.destination \in vertices /\ e.weight \in Int
             /\ e.source # n => e.source \in vertices
             /\ e.source \in vertices =>
                    \E w \in Arcs(input, e.source, e.destination) :
                        w \in Int /\ e.weight = w + h[e.source] - h[e.destination]
    <2>1. e.source \in 0..n /\ e.destination \in vertices /\ e.weight \in Int
        BY <1>7 DEF EdgeSet
    <2>2. ASSUME e.source \in vertices
          PROVE  \E w \in Arcs(input, e.source, e.destination) :
                        w \in Int /\ e.weight = w + h[e.source] - h[e.destination]
        <3>1. PICK w \in Arcs(input, e.source, e.destination) :
                    e.weight = w + h[e.source] - h[e.destination]
            BY <1>1, <1>2, <2>2 DEF Carries
        <3> QED BY <1>6, <2>2, <3>1
    <2> QED BY <1>3, <2>1, <2>2
<1>9. ASSUME NEW u \in vertices, NEW v \in vertices, NEW w \in Arcs(input, u, v)
      PROVE  /\ w \in Int
             /\ [source |-> u, destination |-> v, weight |-> w + h[u] - h[v]] \in Range(edges)
    BY <1>1, <1>2, <1>3, <1>6 DEF Carries
<1> QED BY <1>1, <1>2, <1>3, <1>5, <1>8, <1>9
-----------------------------------------------------------------------------
(* Bellman and Ford *)

\* Edge e has been relaxed in pass m: its end is no further than any path of fewer than m
\* vertices takes one by way of e, and no further than 0 if e comes from s.
Passed(x, e, m, d) ==
    /\ e.source = x.n => d[e.destination] <= 0
    /\ \A p \in Paths(x) :
        Len(p) < m /\ Last(p) = e.source => d[e.destination] <= Weight(x, p) + e.weight

\* Bellman-Ford's distances lie between two bounds: at most the weight of every path
\* that has fewer vertices than the pass has number and, unless there is a negative
\* cycle, at least the weight of some path (Graph.java 70-93).
BellmanFord ==
    pc = "relax" =>
        /\ distance[n] = 0 /\ \A v \in vertices : distance[v] <= Infinity
        /\ \A p \in Paths(input) : Len(p) < pass => distance[Last(p)] <= Weight(input, p)
        /\ \A k \in 1..at - 1 : Passed(input, edges[k], pass, distance)
        /\ ~HasNegativeCycle(input) => \A v \in vertices : distance[v] # Infinity =>
            \E p \in Paths(input) : Last(p) = v /\ Weight(input, p) <= distance[v]

\* A path weighs less than Infinity, with two potentials on top.
LEMMA WeightIsFinite ==
    ASSUME NEW x, Graph(x), NEW p \in Paths(x)
    PROVE  /\ Weight(x, p) \in Int /\ Weight(x, p) < Infinity /\ Infinity \in Nat /\ 0 < Infinity
           /\ Weight(x, p) >= -(x.n * MaxWeight) /\ x.n * MaxWeight \in Nat
           /\ Weight(x, p) + x.n * MaxWeight < Infinity
<1> DEFINE M == x.n * MaxWeight
<1>1. M \in Nat /\ Infinity \in Nat /\ 3 * M < Infinity
    BY Sizes DEF Graph
<1>2. Weight(x, p) \in -M..M /\ Weight(x, p) \in Int
    BY WeightBounds
<1> HIDE DEF M
<1>3. /\ Weight(x, p) < Infinity /\ 0 < Infinity /\ Weight(x, p) >= -M
      /\ Weight(x, p) + M < Infinity
    BY <1>1, <1>2
<1> QED BY <1>1, <1>2, <1>3 DEF M

\* What relaxing an edge does to the distances.
LEMMA RelaxFacts ==
    ASSUME n \in Nat, distance \in [0..n -> Int], NEW e, e.source \in 0..n,
           e.destination \in 0..n, e.weight \in Int, Relax(e)
    PROVE  /\ \A v \in 0..n :
                /\ distance'[v] \in Int /\ distance'[v] <= distance[v]
                /\ distance'[v] # distance[v] =>
                    /\ v = e.destination /\ distance[e.source] # Infinity
                    /\ distance'[v] = distance[e.source] + e.weight
           /\ distance[e.source] # Infinity =>
                distance'[e.destination] <= distance[e.source] + e.weight
<1>1. distance[e.source] + e.weight \in Int /\ distance[e.destination] \in Int
    OBVIOUS
<1>2. CASE Relaxes(e)
    <2>1. distance' = [distance EXCEPT ![e.destination] = distance[e.source] + e.weight]
        BY <1>2 DEF Relax
    <2> QED BY <1>1, <1>2, <2>1 DEF Relaxes
<1>3. CASE ~Relaxes(e)
    BY <1>1, <1>3 DEF Relax, Relaxes, labels
<1> QED BY <1>2, <1>3

\* The edges while Bellman-Ford goes over them: the arcs, and one of weight 0 from s to
\* every vertex.
LEMMA GprimeEdges ==
    ASSUME TypeInv, Reading, pc = "relax"
    PROVE  /\ \A e \in Range(edges) :
                /\ e.source = n => e.weight = 0
                /\ e.source \in vertices => e.weight \in Arcs(input, e.source, e.destination)
           /\ \A v \in vertices : [source |-> n, destination |-> v, weight |-> 0] \in Range(edges)
           /\ \A u, v \in vertices : \A w \in Arcs(input, u, v) :
                [source |-> u, destination |-> v, weight |-> w] \in Range(edges)
<1>1. /\ \A v \in vertices : h[v] = 0
      /\ \A e \in Range(edges) : e.source = n => e.weight = 0
      /\ \A v \in vertices : [source |-> n, destination |-> v, weight |-> 0] \in Range(edges)
    BY DEF Reading
<1>2. ASSUME NEW e \in Range(edges), e.source \in vertices
      PROVE  e.weight \in Arcs(input, e.source, e.destination)
    <2>1. e.destination \in vertices
        BY GraphRead
    <2>2. PICK w \in Arcs(input, e.source, e.destination) :
                w \in Int /\ e.weight = w + h[e.source] - h[e.destination]
        BY <1>2, GraphRead
    <2>3. h[e.source] = 0 /\ h[e.destination] = 0
        BY <1>1, <1>2, <2>1
    <2>4. e.weight = w
        BY <2>2, <2>3
    <2> QED BY <2>2, <2>4
<1>3. ASSUME NEW u \in vertices, NEW v \in vertices, NEW w \in Arcs(input, u, v)
      PROVE  [source |-> u, destination |-> v, weight |-> w] \in Range(edges)
    <2>1. /\ w \in Int
          /\ [source |-> u, destination |-> v, weight |-> w + h[u] - h[v]] \in Range(edges)
        BY GraphRead
    <2>2. h[u] = 0 /\ h[v] = 0
        BY <1>1
    <2>3. w + h[u] - h[v] = w
        BY <2>1, <2>2
    <2> QED BY <2>1, <2>3
<1> QED BY <1>1, <1>2, <1>3

\* When all edges have been gone over, the bound is there for paths of one vertex more.
LEMMA NextPass ==
    ASSUME TypeInv, Reading, pc = "relax", NEW m \in Nat, NEW d, \A v \in vertices : d[v] \in Int,
           \A e \in Range(edges) : Passed(input, e, m, d),
           NEW p \in Paths(input), Len(p) < m + 1
    PROVE  d[Last(p)] <= Weight(input, p)
<1>1. Graph(input) /\ vertices = Vertices(input) /\ n = input.n
    BY GraphRead
<1>2. /\ Len(p) \in Nat \ {0} /\ Last(p) = p[Len(p)] /\ p \in [1..Len(p) -> vertices]
      /\ Last(p) \in vertices
    BY <1>1, PathShape, Sizes DEF Graph
<1>3. PICK f : Sums(input, p, f)
    BY <1>1, SumsExist
<1>4. Weight(input, p) = f[Len(p)]
    BY <1>1, <1>3, WeightIs
<1>5. CASE Len(p) = 1
    <2> DEFINE e == [source |-> n, destination |-> Last(p), weight |-> 0]
    <2>1. e \in Range(edges)
        BY <1>2, GprimeEdges
    <2>2. Passed(input, e, m, d) /\ e.source = input.n /\ e.destination = Last(p)
        BY <1>1, <2>1
    <2> HIDE DEF e
    <2>3. d[Last(p)] <= 0
        BY <2>2 DEF Passed
    <2> QED BY <1>3, <1>4, <1>5, <2>3 DEF Sums
<1>6. CASE Len(p) # 1
    <2> DEFINE i == Len(p) - 1
               u == p[i]
               w == Lightest(input, u, Last(p))
               q == SubSeq(p, 1, i)
               e == [source |-> u, destination |-> Last(p), weight |-> w]
    <2>1. i \in 1..Len(p) - 1 /\ i \in 1..Len(p) /\ i + 1 = Len(p) /\ i < m
        BY <1>2, <1>6
    <2>2. q \in Paths(input) /\ Len(q) = i /\ Last(q) = u /\ Weight(input, q) = f[i]
        BY <1>1, <1>3, <2>1, Prefix
    <2> HIDE DEF i
    <2>3. u \in vertices /\ Arcs(input, u, Last(p)) # {}
        <3>1. Arcs(input, p[i], p[i + 1]) # {}
            BY <1>1, <2>1, PathShape
        <3> QED BY <1>2, <2>1, <3>1
    <2> HIDE DEF u, q
    <2>4. w \in Arcs(input, u, Last(p)) /\ w \in Int
        BY <1>1, <1>2, <2>3, ArcWeights, GraphRead
    <2>5. f[Len(p)] = f[i] + w /\ f[i] \in Int
        <3>1. Len(p) \in 2..Len(p) /\ Len(p) - 1 = i
            BY <1>2, <1>6 DEF i
        <3>2. f[Len(p)] = f[Len(p) - 1] + Lightest(input, p[Len(p) - 1], p[Len(p)])
            BY <1>3, <3>1 DEF Sums
        <3>3. f[i] \in Int
            BY <1>3, <2>1 DEF Sums
        <3> QED BY <1>2, <3>1, <3>2, <3>3 DEF u
    <2> HIDE DEF w
    <2>6. e \in Range(edges)
        BY <1>2, <2>3, <2>4, GprimeEdges
    <2>7. Passed(input, e, m, d) /\ e.source = u /\ e.destination = Last(p) /\ e.weight = w
        BY <2>6
    <2> HIDE DEF e
    <2>8. d[Last(p)] <= Weight(input, q) + w
        BY <2>1, <2>2, <2>7 DEF Passed
    <2> QED BY <1>2, <1>4, <2>2, <2>5, <2>8
<1> QED BY <1>5, <1>6

\* At the start no path has fewer vertices than the first pass has number.
LEMMA MakeGprimeStartsBellmanFord ==
    TypeInv /\ Reading /\ MakeGprime => BellmanFord'
<1> SUFFICES ASSUME TypeInv, Reading, MakeGprime PROVE BellmanFord'
    OBVIOUS
<1>1. /\ Graph(input) /\ n \in Nat /\ n = input.n /\ vertices = Vertices(input)
      /\ vertices \subseteq 0..n /\ n \notin vertices
    BY GraphRead DEF MakeGprime
<1>2. input' = input /\ n' = n /\ vertices' = vertices /\ pass' = 1 /\ at' = 1 /\ s = n
    BY DEF MakeGprime, n, vertices, TypeInv, s
<1>3. distance' = [v \in 0..n |-> IF v = n THEN 0 ELSE IF v \in 0..n THEN Infinity ELSE distance[v]]
    BY <1>2 DEF MakeGprime, InitializeSingleSource
<1>4. distance'[n] = 0 /\ \A v \in vertices : distance'[v] = Infinity
    BY <1>1, <1>3
<1>5. Infinity \in Nat
    BY JohnsonAssumption
<1>6. \A p \in Paths(input) : ~(Len(p) < 1)
    BY <1>1, PathShape
<1>7. \A v \in vertices : distance'[v] <= Infinity
    BY <1>4, <1>5
<1>8. 1..at' - 1 = {}
    BY <1>2
<1> QED BY <1>2, <1>4, <1>6, <1>7, <1>8 DEF BellmanFord

\* Relaxing an edge keeps both bounds; the last edge of a pass makes the upper one a
\* vertex longer.
LEMMA RelaxNextKeepsBellmanFord ==
    TypeInv /\ Reading /\ BellmanFord /\ RelaxNext => BellmanFord'
<1> SUFFICES ASSUME TypeInv, Reading, BellmanFord, RelaxNext PROVE BellmanFord'
    OBVIOUS
<1>1. /\ Graph(input) /\ n \in Nat /\ n = input.n /\ vertices = Vertices(input)
      /\ vertices \subseteq 0..n /\ n \notin vertices /\ pc = "relax"
    BY GraphRead DEF RelaxNext
<1>2. input' = input /\ n' = n /\ vertices' = vertices /\ edges' = edges
    BY DEF RelaxNext, graph, n, vertices
<1>3. /\ distance[n] = 0 /\ \A v \in vertices : distance[v] <= Infinity
      /\ \A p \in Paths(input) : Len(p) < pass => distance[Last(p)] <= Weight(input, p)
      /\ \A k \in 1..at - 1 : Passed(input, edges[k], pass, distance)
      /\ ~HasNegativeCycle(input) => \A v \in vertices : distance[v] # Infinity =>
            \E p \in Paths(input) : Last(p) = v /\ Weight(input, p) <= distance[v]
    BY <1>1 DEF BellmanFord
<1> DEFINE e == edges[at]
           src == e.source
           dst == e.destination
<1>4. /\ edges \in Seq(EdgeSet) /\ Len(edges) \in Nat /\ at \in 1..Len(edges) /\ pass \in Nat
      /\ distance \in [0..n -> Int] /\ Infinity \in Nat
    <2>1. at <= Len(edges) /\ at \in 1..Len(edges) + 1 /\ pass \in 1..n + 1
        BY <1>1 DEF TypeInv, RelaxNext, Passes
    <2> QED BY <2>1, <1>1, JohnsonAssumption DEF TypeInv
<1>5. e \in Range(edges) /\ \A k \in 1..Len(edges) : edges[k] \in Range(edges)
    BY <1>4 DEF Range
<1>6. Relax(e)
    BY DEF RelaxNext
<1> HIDE DEF e
<1>7. /\ src \in 0..n /\ dst \in vertices /\ dst \in 0..n /\ e.weight \in Int
      /\ src # n => src \in vertices
      /\ src = n => e.weight = 0
      /\ src \in vertices => e.weight \in Arcs(input, src, dst)
    BY <1>1, <1>5, GraphRead, GprimeEdges
<1>8. /\ \A v \in 0..n :
            /\ distance'[v] \in Int /\ distance'[v] <= distance[v]
            /\ distance'[v] # distance[v] =>
                 v = dst /\ distance[src] # Infinity /\ distance'[v] = distance[src] + e.weight
      /\ distance[src] # Infinity => distance'[dst] <= distance[src] + e.weight
    BY <1>1, <1>4, <1>6, <1>7, RelaxFacts
<1> HIDE DEF src, dst
<1>9. distance'[n] = 0 /\ \A v \in vertices : distance'[v] <= Infinity
    <2>1. n \in 0..n /\ n # dst
        BY <1>1, <1>7
    <2>2. distance'[n] = distance[n]
        BY <1>8, <2>1
    <2>3. ASSUME NEW v \in vertices PROVE distance'[v] <= Infinity
        <3>1. v \in 0..n
            BY <1>1
        <3>2. distance'[v] \in Int /\ distance[v] \in Int /\ distance'[v] <= distance[v]
            BY <1>4, <1>8, <3>1
        <3> QED BY <1>3, <1>4, <3>2
    <2> QED BY <1>3, <2>2, <2>3
<1>10. ASSUME NEW p \in Paths(input), Len(p) < pass
       PROVE  distance'[Last(p)] <= Weight(input, p)
    <2>1. Last(p) \in 0..n /\ Weight(input, p) \in Int
        BY <1>1, PathShape, WeightBounds
    <2>2. /\ distance'[Last(p)] \in Int /\ distance[Last(p)] \in Int
          /\ distance'[Last(p)] <= distance[Last(p)]
        BY <1>4, <1>8, <2>1
    <2>3. distance[Last(p)] <= Weight(input, p)
        BY <1>3, <1>10
    <2> QED BY <2>1, <2>2, <2>3
<1>11. Passed(input, e, pass, distance')
    <2>1. src = input.n => distance'[dst] <= 0
        <3>1. SUFFICES ASSUME src = n PROVE distance'[dst] <= 0
            BY <1>1
        <3>2. distance[src] = 0 /\ e.weight = 0 /\ distance[src] # Infinity
            <4>1. 0 < Infinity
                <5>1. <<dst>> \in Paths(input)
                    BY <1>1, <1>7, Single
                <5> QED BY <1>1, <5>1, WeightIsFinite
            <4> QED BY <1>3, <1>7, <3>1, <4>1
        <3> QED BY <1>7, <1>8, <3>2
    <2>2. ASSUME NEW p \in Paths(input), Len(p) < pass, Last(p) = src
          PROVE  distance'[dst] <= Weight(input, p) + e.weight
        <3>1. Weight(input, p) \in Int /\ Weight(input, p) < Infinity
            BY <1>1, WeightIsFinite
        <3>2. distance[src] <= Weight(input, p) /\ distance[src] \in Int
            BY <1>3, <1>4, <1>7, <2>2
        <3>3. distance'[dst] <= distance[src] + e.weight /\ distance'[dst] \in Int
            BY <1>4, <1>7, <1>8, <3>1, <3>2
        <3> QED BY <1>7, <3>1, <3>2, <3>3
    <2> QED BY <2>1, <2>2 DEF Passed, src, dst
<1>12. ASSUME NEW k \in 1..at PROVE Passed(input, edges[k], pass, distance')
    <2>1. CASE k = at
        BY <1>11, <2>1 DEF e
    <2>2. CASE k # at
        <3> DEFINE b == edges[k]
        <3>1. k \in 1..at - 1 /\ k \in 1..Len(edges)
            BY <1>4, <2>2
        <3>2. Passed(input, b, pass, distance)
            BY <1>3, <3>1
        <3>3. b \in Range(edges)
            BY <1>5, <3>1
        <3> HIDE DEF b
        <3>4. b.destination \in 0..n /\ b.weight \in Int
            BY <1>1, <3>3, GraphRead
        <3>5. /\ distance'[b.destination] \in Int /\ distance[b.destination] \in Int
              /\ distance'[b.destination] <= distance[b.destination]
            BY <1>4, <1>8, <3>4
        <3>6. b.source = input.n => distance'[b.destination] <= 0
            BY <3>2, <3>5 DEF Passed
        <3>7. ASSUME NEW p \in Paths(input), Len(p) < pass, Last(p) = b.source
              PROVE  distance'[b.destination] <= Weight(input, p) + b.weight
            <4>1. Weight(input, p) \in Int
                BY <1>1, WeightBounds
            <4>2. distance[b.destination] <= Weight(input, p) + b.weight
                BY <3>2, <3>7 DEF Passed
            <4> QED BY <3>4, <3>5, <4>1, <4>2
        <3>8. Passed(input, b, pass, distance')
            BY <3>6, <3>7 DEF Passed
        <3> QED BY <3>8 DEF b
    <2> QED BY <2>1, <2>2
<1>13. ASSUME ~HasNegativeCycle(input), NEW v \in vertices, distance'[v] # Infinity
       PROVE  \E p \in Paths(input) : Last(p) = v /\ Weight(input, p) <= distance'[v]
    <2>1. CASE distance'[v] = distance[v]
        BY <1>3, <1>13, <2>1
    <2>2. CASE distance'[v] # distance[v]
        <3>1. v = dst /\ distance[src] # Infinity /\ distance'[v] = distance[src] + e.weight
            BY <1>1, <1>8, <2>2
        <3>2. CASE src = n
            <4>1. distance'[v] = 0
                BY <1>3, <1>7, <3>1, <3>2
            <4>2. <<v>> \in Paths(input) /\ Last(<<v>>) = v /\ Weight(input, <<v>>) = 0
                BY <1>1, Single
            <4> QED BY <4>1, <4>2
        <3>3. CASE src # n
            <4>1. src \in vertices /\ e.weight \in Arcs(input, src, v)
                BY <1>7, <3>1, <3>3
            <4>2. PICK p \in Paths(input) : Last(p) = src /\ Weight(input, p) <= distance[src]
                BY <1>3, <1>13, <3>1, <4>1
            <4>3. PICK q \in Paths(input) :
                    Last(q) = v /\ Weight(input, q) <= Weight(input, p) + e.weight
                BY <1>1, <1>13, <4>1, <4>2, Further
            <4>4. /\ Weight(input, p) \in Int /\ Weight(input, q) \in Int
                  /\ distance[src] \in Int /\ e.weight \in Int
                BY <1>1, <1>4, <1>7, WeightBounds
            <4>5. Weight(input, q) <= distance'[v]
                BY <3>1, <4>2, <4>3, <4>4
            <4> QED BY <4>3, <4>5
        <3> QED BY <3>2, <3>3
    <2> QED BY <2>1, <2>2
<1>14. CASE at < Len(edges)
    <2>1. at' = at + 1 /\ pass' = pass /\ 1..at' - 1 = 1..at
        BY <1>4, <1>14 DEF RelaxNext
    <2> QED BY <1>2, <1>9, <1>10, <1>12, <1>13, <2>1 DEF BellmanFord
<1>15. CASE ~(at < Len(edges))
    <2>1. at' = 1 /\ pass' = pass + 1 /\ 1..at' - 1 = {} /\ at = Len(edges)
        BY <1>4, <1>15 DEF RelaxNext
    <2>2. \A b \in Range(edges) : Passed(input, b, pass, distance')
        BY <1>4, <1>12, <2>1 DEF Range
    <2>3. \A v \in vertices : distance'[v] \in Int
        BY <1>1, <1>8
    <2>4. \A p \in Paths(input) : Len(p) < pass + 1 => distance'[Last(p)] <= Weight(input, p)
        BY <1>1, <1>4, <2>2, <2>3, NextPass
    <2> QED BY <1>2, <1>9, <1>13, <2>1, <2>4 DEF BellmanFord
<1> QED BY <1>14, <1>15

\* BellmanFord holds through every step.
LEMMA BellmanFordStep ==
    TypeInv /\ Reading /\ BellmanFord /\ [Next]_vars => BellmanFord'
<1> SUFFICES ASSUME TypeInv, Reading, BellmanFord, [Next]_vars PROVE BellmanFord'
    OBVIOUS
<1>1. CASE MakeGprime
    BY <1>1, MakeGprimeStartsBellmanFord
<1>2. CASE RelaxNext
    BY <1>2, RelaxNextKeepsBellmanFord
<1>3. CASE ~(MakeGprime \/ RelaxNext)
    <2>1. input' = input /\ n' = n /\ vertices' = vertices
        BY Fixed
    <2>2. \/ pc' # "relax"
          \/ pc = "relax" /\ distance' = distance /\ pass' = pass /\ at' = at /\ edges' = edges
        BY <1>3 DEF Next, ReadLine, RefuseFile, NegativeCycle, Reweight, StartDijkstra, ExtractMin,
                    ScanEdge, Record, Write, vars, graph, labels
    <2> QED BY <2>1, <2>2 DEF BellmanFord
<1> QED BY <1>1, <1>2, <1>3
-----------------------------------------------------------------------------
(* After the last pass *)

\* After Bellman-Ford there is no negative cycle, and no potential is further from 0
\* than a path can weigh.
Reweighted ==
    pc \in {"source", "dijkstra", "written"} =>
        ~HasNegativeCycle(input) /\ \A v \in vertices : h[v] \in -(n * MaxWeight)..0

\* Every distance is finite and at most 0 after the last pass.
LEMMA AfterPasses ==
    ASSUME TypeInv, Reading, BellmanFord, pc = "relax", pass > Passes, NEW v \in vertices
    PROVE  distance[v] \in Int /\ distance[v] <= 0 /\ distance[v] # Infinity
<1>1. /\ Graph(input) /\ n \in Nat /\ n = input.n /\ vertices = Vertices(input)
      /\ vertices \subseteq 0..n
    BY GraphRead
<1>2. /\ <<v>> \in Paths(input) /\ Last(<<v>>) = v /\ Len(<<v>>) = 1 /\ Weight(input, <<v>>) = 0
    BY <1>1, Single
<1>3. 1 < pass
    <2>1. n > 0
        BY <1>1 DEF vertices
    <2> QED BY <1>1, <2>1 DEF TypeInv, Passes
<1>4. distance[v] <= 0
    BY <1>2, <1>3 DEF BellmanFord
<1>5. distance[v] \in Int /\ Infinity \in Nat /\ 0 < Infinity
    BY <1>1, <1>2, WeightIsFinite DEF TypeInv
<1> QED BY <1>4, <1>5

\* An edge that can still be relaxed is on the way round a negative cycle.
LEMMA NegativeCycleIsThere ==
    TypeInv /\ Reading /\ BellmanFord /\ NegativeCycle => HasNegativeCycle(input)
<1> SUFFICES ASSUME TypeInv, Reading, BellmanFord, NegativeCycle, ~HasNegativeCycle(input)
             PROVE  FALSE
    OBVIOUS
<1>1. /\ Graph(input) /\ n \in Nat /\ n = input.n /\ vertices = Vertices(input)
      /\ pc = "relax" /\ pass > Passes
    BY GraphRead DEF NegativeCycle
<1>2. PICK e \in Range(edges) : Relaxes(e)
    BY DEF NegativeCycle
<1> DEFINE u == e.source
           v == e.destination
<1>3. /\ v \in vertices /\ e.weight \in Int
      /\ u # n => u \in vertices /\ e.weight \in Arcs(input, u, v)
      /\ u = n => e.weight = 0
    BY <1>1, GraphRead, GprimeEdges
<1>4. distance[u] # Infinity /\ distance[v] > distance[u] + e.weight
    BY <1>2 DEF Relaxes
<1> HIDE DEF u, v
<1>5. distance[v] \in Int /\ distance[v] <= 0 /\ distance[v] # Infinity
    BY <1>1, <1>3, AfterPasses
<1>6. CASE u = n
    <2>1. distance[u] = 0
        BY <1>1, <1>6 DEF BellmanFord
    <2> QED BY <1>3, <1>4, <1>5, <1>6, <2>1
<1>7. CASE u # n
    <2>1. PICK p \in Paths(input) : Last(p) = u /\ Weight(input, p) <= distance[u]
        BY <1>1, <1>3, <1>4, <1>7 DEF BellmanFord
    <2>2. PICK q \in Paths(input) : Last(q) = v /\ Weight(input, q) <= Weight(input, p) + e.weight
        BY <1>1, <1>3, <1>7, <2>1, Further
    <2>3. Len(q) < pass
        <3>1. Len(q) \in 1..n
            BY <1>1, PathShape
        <3> QED BY <1>1, <3>1 DEF TypeInv, Passes
    <2>4. distance[v] <= Weight(input, q)
        BY <1>1, <2>2, <2>3 DEF BellmanFord
    <2>5. distance[u] \in Int /\ Weight(input, p) \in Int /\ Weight(input, q) \in Int
        BY <1>1, <1>3, <1>7, AfterPasses, WeightBounds
    <2> QED BY <1>3, <1>4, <1>5, <2>1, <2>2, <2>4, <2>5
<1> QED BY <1>6, <1>7

\* When none can, the distances are a potential under which no cycle is negative.
LEMMA ReweightFacts ==
    ASSUME TypeInv, Reading, BellmanFord, Reweight
    PROVE  /\ pc' = "source" /\ ~HasNegativeCycle(input)
           /\ \A v \in vertices : h'[v] \in -(n * MaxWeight)..0
<1>1. /\ Graph(input) /\ n \in Nat /\ n = input.n /\ vertices = Vertices(input)
      /\ pc = "relax" /\ pass > Passes
    BY GraphRead DEF Reweight
<1>2. \A v \in vertices : distance[v] \in Int /\ distance[v] <= 0 /\ distance[v] # Infinity
    BY <1>1, AfterPasses
<1>3. distance[n] = 0 /\ \A e \in Range(edges) : ~Relaxes(e)
    BY <1>1 DEF BellmanFord, Reweight
<1>4. ASSUME NEW e \in Range(edges)
      PROVE  Infinity \notin {distance[e.source], distance[e.destination]}
    <2>1. e.destination \in vertices /\ (e.source = n \/ e.source \in vertices)
        BY <1>1, GraphRead
    <2>2. 0 # Infinity
        <3>1. <<e.destination>> \in Paths(input)
            BY <1>1, <2>1, Single
        <3> QED BY <1>1, <3>1, WeightIsFinite
    <2> QED BY <1>2, <1>3, <2>1, <2>2
<1>5. pc' = "source"
    BY <1>4 DEF Reweight
<1>6. \A u, v \in Vertices(input) : \A w \in Arcs(input, u, v) : distance[v] <= distance[u] + w
    <2> SUFFICES ASSUME NEW u \in vertices, NEW v \in vertices, NEW w \in Arcs(input, u, v)
                 PROVE  distance[v] <= distance[u] + w
        BY <1>1
    <2> DEFINE e == [source |-> u, destination |-> v, weight |-> w]
    <2>1. e \in Range(edges) /\ w \in Int
        BY <1>1, GprimeEdges, GraphRead
    <2>2. ~Relaxes(e)
        BY <1>3, <2>1
    <2>3. distance[u] # Infinity /\ distance[u] \in Int /\ distance[v] \in Int
        BY <1>2
    <2> QED BY <2>1, <2>2, <2>3 DEF Relaxes
<1>7. ~HasNegativeCycle(input)
    <2> SUFFICES ASSUME NEW p \in Paths(input), Arcs(input, Last(p), p[1]) # {}
                 PROVE  ~(Weight(input, p) + Lightest(input, Last(p), p[1]) < 0)
        BY DEF HasNegativeCycle
    <2> DEFINE w == Lightest(input, Last(p), p[1])
               a == distance[p[1]]
               b == distance[Last(p)]
    <2>1. p[1] \in vertices /\ Last(p) \in vertices
        BY <1>1, PathShape
    <2>2. w \in Arcs(input, Last(p), p[1])
        BY <1>1, <2>1, ArcWeights
    <2>3. w \in Int /\ Weight(input, p) \in Int /\ a \in Int /\ b \in Int
        BY <1>1, <1>2, <2>1, <2>2, GraphRead, WeightBounds
    <2>4. b <= a + Weight(input, p)
        BY <1>1, <1>2, <1>6, Telescope
    <2>5. a <= b + w
        BY <1>1, <1>6, <2>1, <2>2
    <2> HIDE DEF w, a, b
    <2>6. ~(Weight(input, p) + w < 0)
        BY <2>3, <2>4, <2>5
    <2> QED BY <2>6 DEF w
<1>8. ASSUME NEW v \in vertices PROVE h'[v] \in -(n * MaxWeight)..0
    <2>1. h'[v] = distance[v]
        BY DEF Reweight
    <2>2. PICK p \in Paths(input) : Last(p) = v /\ Weight(input, p) <= distance[v]
        BY <1>1, <1>2, <1>7 DEF BellmanFord
    <2> DEFINE M == n * MaxWeight
    <2>3. Weight(input, p) \in Int /\ Weight(input, p) >= -M /\ M \in Nat
        BY <1>1, WeightIsFinite
    <2> HIDE DEF M
    <2>4. distance[v] \in -M..0
        BY <1>2, <2>2, <2>3
    <2> QED BY <2>1, <2>4 DEF M
<1> QED BY <1>5, <1>7, <1>8

\* Reweighted holds through every step.
LEMMA ReweightedStep ==
    TypeInv /\ Reading /\ BellmanFord /\ Reweighted /\ [Next]_vars => Reweighted'
<1> SUFFICES ASSUME TypeInv, Reading, BellmanFord, Reweighted, [Next]_vars
             PROVE  Reweighted'
    OBVIOUS
<1>1. input' = input /\ n' = n /\ vertices' = vertices
    BY Fixed
<1>2. CASE Reweight
    BY <1>1, <1>2, ReweightFacts DEF Reweighted
<1>3. CASE ~Reweight
    <2>1. \/ pc' \notin {"source", "dijkstra", "written"}
          \/ pc \in {"source", "dijkstra", "written"} /\ h' = h
        BY <1>3 DEF Next, ReadLine, RefuseFile, MakeGprime, RelaxNext, NegativeCycle,
                    StartDijkstra, ExtractMin, ScanEdge, Record, Write, vars
    <2> QED BY <1>1, <2>1 DEF Reweighted
<1> QED BY <1>2, <1>3
-----------------------------------------------------------------------------
(* Dijkstra's tree *)

\* Going back by pred follows the path p.
LeadsBack(x, p, pred) == \A k \in 2..Len(p) : pred[p[k]] = p[k - 1]

\* Dijkstra's labels are those of a tree: a distance that is not infinite is at least the
\* reweighted weight of a path from the source, which the predecessors lead back along,
\* and all of which but the end has been extracted (Graph.java 95-121).
Tree ==
    pc = "dijkstra" =>
        /\ \A v \in vertices : distance[v] >= 0
        /\ distance[source] = 0 /\ predecessor[source] = Null
        /\ \A v \in vertices : distance[v] = Infinity => predecessor[v] = Null
        /\ \A v \in vertices : distance[v] # Infinity =>
            \E p \in PathsBetween(input, source, v) :
                /\ Weight(input, p) + h[source] - h[v] <= distance[v]
                /\ \A k \in 1..Len(p) - 1 : p[k] \notin DOMAIN queue
                /\ LeadsBack(input, p, predecessor)

\* An edge of an extracted vertex, up to the place in the list of the current one, has
\* nothing left to relax.
ScannedEdges ==
    pc = "dijkstra" =>
        \A k \in DOMAIN edges :
            /\ edges[k].source \in vertices \ DOMAIN queue
            /\ distance[edges[k].source] # Infinity
            /\ edges[k].source = current => k < at
            => distance[edges[k].destination] <= distance[edges[k].source] + edges[k].weight

\* An edge that is scanned leaves the labels, or gives a vertex in the queue a nearer
\* distance by way of the current vertex.
LEMMA ScannedEdge ==
    ASSUME TypeInv, NonNegative, Frontier, ScanEdge
    PROVE  \E k \in DOMAIN edges :
             /\ edges[k].source = current /\ k \in Rest /\ (\A m \in Rest : k <= m) /\ at' = k + 1
             /\ edges[k].weight \in Int /\ edges[k].weight >= 0
             /\ current \in vertices \ DOMAIN queue /\ DOMAIN queue' = DOMAIN queue
             /\ LET d == edges[k].destination
                    new == distance[current] + edges[k].weight
                IN  \/ /\ distance' = distance /\ predecessor' = predecessor
                       /\ distance[current] # Infinity => distance[d] <= new
                    \/ /\ distance[current] # Infinity /\ d \in DOMAIN queue
                       /\ distance[d] > new
                       /\ distance' = [distance EXCEPT ![d] = new]
                       /\ predecessor' = [predecessor EXCEPT ![d] = current]
<1>1. n \in Nat /\ Infinity \in Nat
    BY SizeIsNat, JohnsonAssumption DEF TypeInv
<1>2. pc = "dijkstra" /\ current # Null
    BY DEF ScanEdge, Scanned
<1>3. current \in vertices /\ current \in 0..n
    BY <1>1, <1>2 DEF TypeInv, vertices
<1>4. PICK k \in Rest :
        /\ \A m \in Rest : k <= m
        /\ Relax(edges[k])
        /\ at' = k + 1
    BY DEF ScanEdge
<1> DEFINE e == edges[k]
           d == e.destination
           new == distance[current] + e.weight
<1>5. k \in DOMAIN edges /\ e \in EdgeSet /\ e.source = current
    BY <1>1 DEF Rest, TypeInv
<1>6. d \in vertices /\ d \in 0..n /\ e.weight \in Int /\ e.weight >= 0
    BY <1>1, <1>2, <1>5 DEF EdgeSet, vertices, NonNegative
<1>7. \A v \in vertices : distance[v] \in Int
    BY <1>1 DEF TypeInv, vertices
<1>8. /\ current \notin DOMAIN queue
      /\ \A v \in vertices \ DOMAIN queue : distance[v] <= distance[current]
    BY <1>2 DEF Frontier
<1>9. DOMAIN queue' = DOMAIN queue
    BY ScanFacts
<1>10. CASE ~Relaxes(e)
    <2>1. distance' = distance /\ predecessor' = predecessor
        BY <1>4, <1>10 DEF Relax, labels
    <2>2. distance[current] # Infinity => distance[d] <= new
        BY <1>3, <1>5, <1>6, <1>7, <1>10 DEF Relaxes
    <2> QED BY <1>3, <1>4, <1>5, <1>6, <1>8, <1>9, <2>1, <2>2
<1>11. CASE Relaxes(e)
    <2>1. distance[current] # Infinity /\ distance[d] > new /\ distance[current] <= new
        BY <1>3, <1>5, <1>6, <1>7, <1>11 DEF Relaxes
    <2>2. d \in DOMAIN queue
        BY <1>3, <1>6, <1>7, <1>8, <2>1
    <2>3. /\ distance' = [distance EXCEPT ![d] = new]
          /\ predecessor' = [predecessor EXCEPT ![d] = current]
        BY <1>4, <1>5, <1>11 DEF Relax
    <2> QED BY <1>3, <1>4, <1>5, <1>6, <1>8, <1>9, <2>1, <2>2, <2>3
<1> QED BY <1>10, <1>11

\* The distances only fall, and only in the queue, so they stay over 0, and so does the
\* source's.
LEMMA StartDijkstraPlantsTree ==
    TypeInv /\ Reading /\ StartDijkstra => Tree' /\ ScannedEdges'
<1> SUFFICES ASSUME TypeInv, Reading, StartDijkstra PROVE Tree' /\ ScannedEdges'
    OBVIOUS
<1>1. /\ Graph(input) /\ n \in Nat /\ n = input.n /\ vertices = Vertices(input)
      /\ vertices \subseteq 0..n /\ h \in [vertices -> Int] /\ Infinity \in Nat
    BY GraphRead, JohnsonAssumption DEF StartDijkstra
<1>2. /\ input' = input /\ n' = n /\ vertices' = vertices /\ edges' = edges /\ h' = h
      /\ source' = source /\ current' = Null
    BY DEF StartDijkstra, graph, n, vertices
<1>3. source \in vertices
    BY <1>1 DEF StartDijkstra, TypeInv, vertices
<1>4. \A v \in vertices :
        distance'[v] = (IF v = source THEN 0 ELSE Infinity) /\ predecessor'[v] = Null
    BY <1>1 DEF StartDijkstra, InitializeSingleSource
<1>5. DOMAIN queue' = vertices
    BY DEF StartDijkstra
<1>6. ASSUME NEW v \in vertices, distance'[v] # Infinity
      PROVE  \E p \in PathsBetween(input, source, v) :
                /\ Weight(input, p) + h[source] - h[v] <= distance'[v]
                /\ \A k \in 1..Len(p) - 1 : p[k] \notin DOMAIN queue'
                /\ LeadsBack(input, p, predecessor')
    <2>1. v = source /\ distance'[v] = 0
        BY <1>4, <1>6
    <2> DEFINE p == <<source>>
    <2>2. p \in PathsBetween(input, source, v) /\ Len(p) = 1 /\ Weight(input, p) = 0
        BY <1>1, <1>3, <2>1, Single DEF PathsBetween
    <2> HIDE DEF p
    <2>3. 1..Len(p) - 1 = {} /\ 2..Len(p) = {}
        BY <2>2
    <2>4. h[source] \in Int
        BY <1>1, <1>3
    <2>5. Weight(input, p) + h[source] - h[v] <= distance'[v]
        BY <2>1, <2>2, <2>4
    <2> QED BY <2>2, <2>3, <2>5 DEF LeadsBack
<1>7. Tree'
    BY <1>1, <1>2, <1>3, <1>4, <1>6 DEF Tree
<1>8. ScannedEdges'
    BY <1>2, <1>5 DEF ScannedEdges
<1> QED BY <1>7, <1>8

\* The list of a vertex has been gone through before the next one is extracted.
LEMMA ExtractMinKeepsTree ==
    TypeInv /\ Tree /\ ScannedEdges /\ ExtractMin => Tree' /\ ScannedEdges'
<1> SUFFICES ASSUME TypeInv, Tree, ScannedEdges, ExtractMin PROVE Tree' /\ ScannedEdges'
    OBVIOUS
<1>1. /\ input' = input /\ n' = n /\ vertices' = vertices /\ edges' = edges /\ h' = h
      /\ source' = source /\ distance' = distance /\ predecessor' = predecessor
      /\ pc = "dijkstra" /\ pc' = "dijkstra" /\ at' = 1
    BY DEF ExtractMin, graph, n, vertices, labels
<1>2. PICK x \in DOMAIN queue : current' = x /\ queue' = Restrict(queue, DOMAIN queue \ {x})
    BY DEF ExtractMin
<1>3. DOMAIN queue' = DOMAIN queue \ {x} /\ DOMAIN edges = 1..Len(edges) /\ Len(edges) \in Nat
    BY <1>2 DEF Restrict, TypeInv
<1>4. Tree'
    <2>1. ASSUME NEW v \in vertices, distance[v] # Infinity
          PROVE  \E p \in PathsBetween(input, source, v) :
                    /\ Weight(input, p) + h[source] - h[v] <= distance[v]
                    /\ \A k \in 1..Len(p) - 1 : p[k] \notin DOMAIN queue'
                    /\ LeadsBack(input, p, predecessor)
        BY <1>1, <1>3, <2>1 DEF Tree
    <2> QED BY <1>1, <2>1 DEF Tree
<1>5. ScannedEdges'
    <2> SUFFICES ASSUME NEW k \in DOMAIN edges, edges[k].source \in vertices \ DOMAIN queue',
                        distance[edges[k].source] # Infinity,
                        edges[k].source = x => k < 1
                 PROVE  distance[edges[k].destination]
                            <= distance[edges[k].source] + edges[k].weight
        BY <1>1, <1>2 DEF ScannedEdges
    <2>1. edges[k].source # x /\ edges[k].source \in vertices \ DOMAIN queue
        BY <1>3
    <2>2. edges[k].source = current => k < at
        <3> SUFFICES ASSUME edges[k].source = current, ~(k < at) PROVE FALSE
            OBVIOUS
        <3>1. current \in vertices /\ k \in at..Len(edges)
            BY <1>3, <2>1 DEF TypeInv
        <3>2. n \in Nat /\ Null \notin Int
            BY SizeIsNat, JohnsonAssumption DEF TypeInv
        <3>3. current # Null
            BY <3>1, <3>2 DEF vertices
        <3>4. k \in Rest
            BY <3>1 DEF Rest
        <3> QED BY <3>3, <3>4 DEF ExtractMin, Scanned
    <2> QED BY <1>1, <2>1, <2>2 DEF ScannedEdges
<1> QED BY <1>4, <1>5

\* A vertex that gets a nearer distance becomes the end of a path by way of the current
\* vertex; it is in the queue, so it is inside no path.
LEMMA ScanEdgeKeepsTree ==
    TypeInv /\ NonNegative /\ Frontier /\ Reading /\ Tree /\ ScanEdge => Tree'
<1> SUFFICES ASSUME TypeInv, NonNegative, Frontier, Reading, Tree, ScanEdge PROVE Tree'
    OBVIOUS
<1>1. /\ Graph(input) /\ n \in Nat /\ n = input.n /\ vertices = Vertices(input)
      /\ vertices \subseteq 0..n /\ h \in [vertices -> Int] /\ pc = "dijkstra"
    BY GraphRead DEF ScanEdge
<1>2. /\ input' = input /\ n' = n /\ vertices' = vertices /\ h' = h
      /\ source' = source /\ current' = current /\ pc' = "dijkstra"
    BY DEF ScanEdge, graph, n, vertices
<1>3. PICK k \in DOMAIN edges :
        /\ edges[k].source = current
        /\ edges[k].weight \in Int /\ edges[k].weight >= 0
        /\ current \in vertices \ DOMAIN queue /\ DOMAIN queue' = DOMAIN queue
        /\ LET d == edges[k].destination
               new == distance[current] + edges[k].weight
           IN  \/ distance' = distance /\ predecessor' = predecessor
               \/ /\ distance[current] # Infinity /\ d \in DOMAIN queue
                  /\ distance[d] > new
                  /\ distance' = [distance EXCEPT ![d] = new]
                  /\ predecessor' = [predecessor EXCEPT ![d] = current]
    BY ScannedEdge
<1> DEFINE e == edges[k]
           d == e.destination
           new == distance[current] + e.weight
           Good(v, p, dist, pred) ==
              /\ Weight(input, p) + h[source] - h[v] <= dist
              /\ \A i \in 1..Len(p) - 1 : p[i] \notin DOMAIN queue
              /\ LeadsBack(input, p, pred)
<1>4. /\ \A v \in vertices : distance[v] >= 0
      /\ distance[source] = 0 /\ predecessor[source] = Null
      /\ \A v \in vertices : distance[v] = Infinity => predecessor[v] = Null
      /\ \A v \in vertices : distance[v] # Infinity =>
            \E p \in PathsBetween(input, source, v) : Good(v, p, distance[v], predecessor)
    BY <1>1, Zenon DEF Tree
<1>5. CASE distance' = distance /\ predecessor' = predecessor
    <2>1. \A v \in vertices : distance[v] # Infinity =>
            \E p \in PathsBetween(input, source, v) :
                /\ Weight(input, p) + h[source] - h[v] <= distance[v]
                /\ \A i \in 1..Len(p) - 1 : p[i] \notin DOMAIN queue'
                /\ LeadsBack(input, p, predecessor)
        BY <1>3, <1>4
    <2> QED BY <1>2, <1>4, <1>5, <2>1 DEF Tree
<1>6. CASE /\ distance[current] # Infinity /\ d \in DOMAIN queue
           /\ distance[d] > new
           /\ distance' = [distance EXCEPT ![d] = new]
           /\ predecessor' = [predecessor EXCEPT ![d] = current]
    <2>1. /\ source \in vertices /\ d \in vertices /\ current \in vertices
          /\ current \notin DOMAIN queue /\ d # current
          /\ \A v \in vertices : distance[v] \in Int /\ distance[v] <= Infinity /\ v \in 0..n
          /\ Infinity \in Nat
        <3>1. /\ d \in vertices /\ current \in vertices /\ current \notin DOMAIN queue
              /\ d # current
            BY <1>3, <1>6 DEF TypeInv
        <3>2. source \in vertices /\ \A v \in vertices : v \in 0..n
            BY <1>1 DEF TypeInv, vertices
        <3>3. \A v \in vertices : distance[v] \in Int /\ distance[v] <= Infinity
            BY <1>1, <3>2 DEF TypeInv, Frontier
        <3> QED BY <3>1, <3>2, <3>3, JohnsonAssumption
    <2>2. new \in Int /\ new >= 0 /\ new < Infinity /\ d # source
        BY <1>3, <1>4, <1>6, <2>1
    <2>3. e.source = current /\ e \in Range(edges) /\ e.weight \in Int
        BY <1>3 DEF Range
    <2>4. PICK w \in Arcs(input, current, d) : w \in Int /\ e.weight = w + h[current] - h[d]
        BY <1>1, <2>1, <2>3, GraphRead
    <2> HIDE DEF e, d, new
    <2>5. /\ distance'[d] = new /\ predecessor'[d] = current
          /\ \A v \in vertices \ {d} :
                distance'[v] = distance[v] /\ predecessor'[v] = predecessor[v]
        BY <1>6, <2>1 DEF TypeInv
    <2> HIDE DEF Good
    <2>6. ASSUME NEW v \in vertices, distance'[v] # Infinity
          PROVE  \E p \in PathsBetween(input, source, v) : Good(v, p, distance'[v], predecessor')
        <3>1. CASE v # d
            <4>1. distance'[v] = distance[v]
                BY <2>5, <3>1
            <4>2. PICK p \in PathsBetween(input, source, v) : Good(v, p, distance[v], predecessor)
                BY <1>4, <2>6, <4>1
            <4>3. Len(p) \in Nat \ {0} /\ p \in [1..Len(p) -> vertices] /\ p[Len(p)] = v
                <5>1. p \in Paths(input) /\ Last(p) = v
                    BY DEF PathsBetween
                <5> QED BY <1>1, <5>1, PathShape
            <4>4. ASSUME NEW i \in 2..Len(p) PROVE predecessor'[p[i]] = p[i - 1]
                <5>1. p[i] \in vertices
                    BY <4>3
                <5>2. p[i] # d
                    <6>1. CASE i = Len(p)
                        BY <3>1, <4>3, <6>1
                    <6>2. CASE i # Len(p)
                        <7>1. i \in 1..Len(p) - 1
                            <8>1. Len(p) \in Nat
                                BY <4>3
                            <8> QED BY <6>2, <8>1
                        <7> QED BY <1>6, <4>2, <7>1 DEF Good
                    <6> QED BY <6>1, <6>2
                <5>3. predecessor[p[i]] = p[i - 1]
                    BY <4>2 DEF Good, LeadsBack
                <5> QED BY <2>5, <5>1, <5>2, <5>3
            <4>5. LeadsBack(input, p, predecessor')
                BY <4>4 DEF LeadsBack
            <4> QED BY <4>1, <4>2, <4>5 DEF Good
        <3>2. CASE v = d
            <4>1. PICK p \in PathsBetween(input, source, current) :
                    Good(current, p, distance[current], predecessor)
                BY <1>4, <1>6, <2>1
            <4>2. /\ p \in Paths(input) /\ p[1] = source /\ Last(p) = current
                  /\ Len(p) \in Nat \ {0} /\ p \in [1..Len(p) -> vertices] /\ p[Len(p)] = current
                <5>1. p \in Paths(input) /\ p[1] = source /\ Last(p) = current
                    BY DEF PathsBetween
                <5> QED BY <1>1, <5>1, PathShape
            <4>3. ASSUME NEW i \in 1..Len(p) PROVE p[i] \in vertices /\ p[i] \notin DOMAIN queue
                <5>1. CASE i = Len(p)
                    BY <2>1, <4>2, <5>1
                <5>2. CASE i # Len(p)
                    <6>1. i \in 1..Len(p) - 1
                        <7>1. Len(p) \in Nat
                            BY <4>2
                        <7> QED BY <5>2, <7>1
                    <6> QED BY <4>1, <4>2, <6>1 DEF Good
                <5> QED BY <5>1, <5>2
            <4>4. \A i \in 1..Len(p) : p[i] # d
                BY <1>6, <4>3
            <4> DEFINE q == Append(p, d)
                       l == Lightest(input, current, d)
            <4>5. /\ q \in Paths(input) /\ Len(q) = Len(p) + 1 /\ q[1] = p[1] /\ Last(q) = d
                  /\ \A i \in 1..Len(p) : q[i] = p[i]
                  /\ Weight(input, q) = Weight(input, p) + l
                <5>1. Arcs(input, Last(p), d) # {}
                    BY <2>4, <4>2
                <5> QED BY <1>1, <2>1, <4>2, <4>4, <5>1, Longer
            <4> HIDE DEF q
            <4>6. q[Len(q)] = d
                BY <1>1, <4>5, PathShape
            <4>7. l \in Int /\ l <= w
                BY <1>1, <2>1, <2>4, ArcWeights, GraphRead
            <4> HIDE DEF l
            <4>8. Weight(input, q) + h[source] - h[d] <= new
                <5>1. Weight(input, p) + h[source] - h[current] <= distance[current]
                    BY <4>1 DEF Good
                <5>2. /\ Weight(input, p) \in Int /\ h[source] \in Int /\ h[current] \in Int
                      /\ h[d] \in Int /\ distance[current] \in Int
                    BY <1>1, <2>1, <4>2, WeightBounds
                <5>3. new = distance[current] + (w + h[current] - h[d])
                    BY <2>4 DEF new
                <5> DEFINE a == Weight(input, p)
                           b == h[current]
                           c == distance[current]
                           y == h[source]
                           z == h[d]
                <5>4. a + y - b <= c /\ new = c + (w + b - z) /\ Weight(input, q) = a + l
                    BY <4>5, <5>1, <5>3
                <5>5. /\ a \in Int /\ b \in Int /\ c \in Int /\ y \in Int /\ z \in Int
                      /\ w \in Int /\ l \in Int /\ l <= w
                    BY <2>4, <4>7, <5>2
                <5> HIDE DEF a, b, c, y, z
                <5>6. a + l + y - z <= c + (w + b - z)
                    BY <5>4, <5>5
                <5> QED BY <5>4, <5>6 DEF y, z
            <4>9. \A i \in 1..Len(q) - 1 : q[i] \notin DOMAIN queue
                BY <4>2, <4>3, <4>5
            <4>10. ASSUME NEW i \in 2..Len(q) PROVE predecessor'[q[i]] = q[i - 1]
                <5>1. CASE i = Len(q)
                    <6>1. i - 1 = Len(p) /\ q[i - 1] = p[Len(p)]
                        BY <4>2, <4>5, <5>1
                    <6> QED BY <2>5, <4>2, <4>6, <5>1, <6>1
                <5>2. CASE i # Len(q)
                    <6>1. i \in 2..Len(p) /\ i \in 1..Len(p) /\ q[i] = p[i] /\ q[i - 1] = p[i - 1]
                        BY <4>2, <4>5, <5>2
                    <6>2. predecessor[p[i]] = p[i - 1]
                        BY <4>1, <6>1 DEF Good, LeadsBack
                    <6>3. p[i] \in vertices \ {d}
                        BY <4>3, <4>4, <6>1
                    <6> QED BY <2>5, <6>1, <6>2, <6>3
                <5> QED BY <5>1, <5>2
            <4>11. LeadsBack(input, q, predecessor')
                BY <4>10 DEF LeadsBack
            <4>12. q \in PathsBetween(input, source, v)
                BY <3>2, <4>2, <4>5 DEF PathsBetween
            <4>13. Good(v, q, distance'[v], predecessor')
                BY <2>5, <3>2, <4>8, <4>9, <4>11 DEF Good
            <4> QED BY <4>12, <4>13
        <3> QED BY <3>1, <3>2
    <2>7. \A v \in vertices : distance'[v] >= 0
        BY <1>4, <2>2, <2>5
    <2>8. distance'[source] = 0 /\ predecessor'[source] = Null
        BY <1>4, <2>1, <2>2, <2>5
    <2>9. \A v \in vertices : distance'[v] = Infinity => predecessor'[v] = Null
        BY <1>4, <2>1, <2>2, <2>5
    <2>10. \A v \in vertices : distance'[v] # Infinity =>
            \E p \in PathsBetween(input, source, v) :
                /\ Weight(input, p) + h[source] - h[v] <= distance'[v]
                /\ \A i \in 1..Len(p) - 1 : p[i] \notin DOMAIN queue'
                /\ LeadsBack(input, p, predecessor')
        BY <1>3, <2>6 DEF Good
    <2> QED BY <1>2, <2>7, <2>8, <2>9, <2>10 DEF Tree
<1> QED BY <1>3, <1>5, <1>6

\* An edge that has been scanned has nothing left to relax, as its start keeps its
\* distance and its end only comes nearer.
LEMMA ScanEdgeKeepsScanned ==
    TypeInv /\ NonNegative /\ Frontier /\ ScannedEdges /\ ScanEdge => ScannedEdges'
<1> SUFFICES ASSUME TypeInv, NonNegative, Frontier, ScannedEdges, ScanEdge
             PROVE  ScannedEdges'
    OBVIOUS
<1>1. /\ n \in Nat /\ vertices' = vertices /\ edges' = edges /\ current' = current
      /\ pc = "dijkstra" /\ Infinity \in Nat
    BY SizeIsNat, JohnsonAssumption DEF TypeInv, ScanEdge, graph, n, vertices
<1>2. PICK k \in DOMAIN edges :
        /\ edges[k].source = current /\ k \in Rest /\ (\A m \in Rest : k <= m) /\ at' = k + 1
        /\ edges[k].weight \in Int /\ edges[k].weight >= 0
        /\ current \in vertices \ DOMAIN queue /\ DOMAIN queue' = DOMAIN queue
        /\ LET d == edges[k].destination
               new == distance[current] + edges[k].weight
           IN  \/ /\ distance' = distance /\ predecessor' = predecessor
                  /\ distance[current] # Infinity => distance[d] <= new
               \/ /\ distance[current] # Infinity /\ d \in DOMAIN queue
                  /\ distance[d] > new
                  /\ distance' = [distance EXCEPT ![d] = new]
                  /\ predecessor' = [predecessor EXCEPT ![d] = current]
    BY ScannedEdge
<1>3. \A v \in vertices : distance[v] \in Int /\ v \in 0..n
    BY <1>1 DEF TypeInv, vertices
<1>4. /\ DOMAIN edges = 1..Len(edges) /\ Len(edges) \in Nat /\ at \in 1..Len(edges) + 1
      /\ \A j \in DOMAIN edges : edges[j] \in EdgeSet
    BY DEF TypeInv
<1> SUFFICES ASSUME NEW j \in DOMAIN edges, edges[j].source \in vertices \ DOMAIN queue,
                    distance'[edges[j].source] # Infinity,
                    edges[j].source = current => j < k + 1
             PROVE  distance'[edges[j].destination]
                        <= distance'[edges[j].source] + edges[j].weight
    BY <1>1, <1>2 DEF ScannedEdges
<1> DEFINE u == edges[j].source
           v == edges[j].destination
           c == edges[j].weight
<1>5. u \in vertices \ DOMAIN queue /\ v \in vertices /\ c \in Int
    BY <1>4 DEF EdgeSet
<1>6. /\ distance'[u] = distance[u]
      /\ distance'[v] <= distance[v] /\ distance'[v] \in Int /\ distance[v] \in Int
    <2> HIDE DEF u, v
    <2>1. CASE distance' = distance
        BY <1>3, <1>5, <2>1
    <2>2. CASE distance' # distance
        <3> DEFINE d == edges[k].destination
                   new == distance[current] + edges[k].weight
        <3>1. /\ d \in DOMAIN queue /\ distance[d] > new /\ new \in Int
              /\ distance' = [distance EXCEPT ![d] = new]
            BY <1>2, <1>3, <2>2
        <3> HIDE DEF d, new
        <3>2. d \in vertices /\ u # d /\ DOMAIN distance = 0..n
            BY <1>5, <3>1 DEF TypeInv
        <3>3. distance'[d] = new /\ \A x \in 0..n : x # d => distance'[x] = distance[x]
            BY <1>3, <3>1, <3>2
        <3> QED BY <1>3, <1>5, <3>1, <3>2, <3>3
    <2> QED BY <2>1, <2>2
<1>7. CASE j = k
    <2>1. distance[current] # Infinity
        BY <1>2, <1>6, <1>7
    <2>2. distance'[v] <= distance[current] + c
        <3> DEFINE new == distance[current] + c
        <3>1. new \in Int /\ v \in 0..n /\ DOMAIN distance = 0..n
            <4>1. current \in vertices /\ DOMAIN distance = 0..n
                BY <1>2 DEF TypeInv
            <4>2. distance[current] \in Int
                BY <1>3, <4>1
            <4> QED BY <1>3, <1>5, <4>1, <4>2
        <3>2. \/ distance' = distance /\ distance[v] <= new
              \/ distance' = [distance EXCEPT ![v] = new]
            BY <1>2, <1>7, <2>1
        <3> HIDE DEF v, new
        <3>3. CASE distance' = distance /\ distance[v] <= new
            BY <3>3 DEF new
        <3>4. CASE distance' = [distance EXCEPT ![v] = new]
            <4>1. distance'[v] = new
                BY <3>1, <3>4
            <4>2. distance'[v] <= new
                BY <3>1, <4>1
            <4> QED BY <4>2 DEF new
        <3> QED BY <3>2, <3>3, <3>4
    <2> QED BY <1>2, <1>6, <1>7, <2>2
<1>8. CASE j # k
    <2>1. u = current => j < at
        <3> SUFFICES ASSUME u = current, ~(j < at) PROVE FALSE
            OBVIOUS
        <3>1. j \in Rest
            BY <1>4 DEF Rest
        <3>2. k \in Nat /\ j \in Nat
            BY <1>4
        <3> QED BY <1>2, <1>8, <3>1, <3>2
    <2>2. distance[v] <= distance[u] + c
        BY <1>1, <1>5, <1>6, <2>1 DEF ScannedEdges
    <2>3. distance[u] \in Int
        BY <1>3, <1>5
    <2> HIDE DEF u, v, c
    <2>4. distance'[v] <= distance'[u] + c
        BY <1>5, <1>6, <2>2, <2>3
    <2> QED BY <2>4 DEF u, v, c
<1> QED BY <1>7, <1>8

\* Tree and ScannedEdges hold through every step.
LEMMA TreeStep ==
    TypeInv /\ NonNegative /\ Frontier /\ Reading /\ Tree /\ ScannedEdges /\ [Next]_vars
        => Tree' /\ ScannedEdges'
<1> SUFFICES ASSUME TypeInv, NonNegative, Frontier, Reading, Tree, ScannedEdges, [Next]_vars
             PROVE  Tree' /\ ScannedEdges'
    OBVIOUS
<1>1. CASE StartDijkstra
    BY <1>1, StartDijkstraPlantsTree
<1>2. CASE ExtractMin
    BY <1>2, ExtractMinKeepsTree
<1>3. CASE ScanEdge
    BY <1>3, ScanEdgeKeepsTree, ScanEdgeKeepsScanned
<1>4. CASE ~(StartDijkstra \/ ExtractMin \/ ScanEdge)
    <2>1. input' = input /\ n' = n /\ vertices' = vertices
        BY Fixed
    <2>2. \/ pc' # "dijkstra"
          \/ /\ pc = "dijkstra" /\ distance' = distance /\ predecessor' = predecessor /\ h' = h
             /\ source' = source /\ current' = current /\ queue' = queue /\ at' = at
             /\ edges' = edges
        BY <1>4 DEF Next, ReadLine, RefuseFile, MakeGprime, RelaxNext, NegativeCycle, Reweight,
                    Record, Write, vars, graph, labels, search
    <2> QED BY <2>1, <2>2 DEF Tree, ScannedEdges
<1> QED BY <1>1, <1>2, <1>3, <1>4
-----------------------------------------------------------------------------
(* The rows *)

\* The row of vertex u and its predecessors are those of shortest paths.
RowIsRight(x, u, row, back) ==
    \A v \in Vertices(x) :
        /\ row[v] = Shortest(x, u, v)
        /\ IF u = v \/ row[v] = Infinity THEN back[v] = Null
           ELSE \E p \in PathsBetween(x, u, v) :
                    Weight(x, p) = row[v] /\ LeadsBack(x, p, back)

\* The rows recorded so far are right.
Rows ==
    /\ DOMAIN D = vertices /\ DOMAIN APSP = vertices
    /\ pc \in {"read", "relax"} => source = 0
    /\ pc \in {"source", "dijkstra"} =>
        \A u \in 0..source - 1 : RowIsRight(input, u, D[u], APSP[u])

\* Numbers that no arc raises by more than its weight under a potential g rise by no more
\* along a path, and stay below Infinity.
LEMMA Reaching ==
    ASSUME NEW x, Graph(x), NEW p \in Paths(x), NEW d, NEW g,
           \A v \in Vertices(x) : d[v] \in Int /\ g[v] \in -(x.n * MaxWeight)..0,
           d[p[1]] = 0,
           \A u, v \in Vertices(x) : \A w \in Arcs(x, u, v) :
                d[u] # Infinity => d[v] <= d[u] + (w + g[u] - g[v])
    PROVE  d[Last(p)] <= Weight(x, p) + g[p[1]] - g[Last(p)] /\ d[Last(p)] # Infinity
<1> DEFINE M == x.n * MaxWeight
<1>1. PICK f : /\ Sums(x, p, f)
               /\ \A k \in 1..Len(p) : f[k] \in -M..M
    BY SumsExist
<1>2. Len(p) \in Nat \ {0} /\ p \in [1..Len(p) -> Vertices(x)] /\ Last(p) = p[Len(p)]
    BY PathShape, Sizes DEF Graph
<1>3. M \in Nat /\ Infinity \in Nat /\ 3 * M < Infinity
    BY Sizes DEF Graph
<1>4. \A v \in Vertices(x) : d[v] \in Int /\ g[v] \in -M..0
    OBVIOUS
<1> HIDE DEF M
<1> DEFINE a == g[p[1]]
           S == {k \in 1..Len(p) : d[p[k]] <= f[k] + a - g[p[k]]}
<1>5. a \in -M..0
    BY <1>2, <1>4
<1>6. ASSUME NEW k \in 1..Len(p), d[p[k]] <= f[k] + a - g[p[k]] PROVE d[p[k]] # Infinity
    <2> DEFINE b == g[p[k]]
               c == d[p[k]]
    <2>1. b \in -M..0 /\ c \in Int /\ f[k] \in -M..M
        BY <1>1, <1>2, <1>4
    <2>2. c <= f[k] + a - b
        BY <1>6
    <2> HIDE DEF a, b, c
    <2>3. c # Infinity
        BY <1>3, <1>5, <2>1, <2>2
    <2> QED BY <2>3 DEF c
<1> HIDE DEF a
<1>7. 1 \in S
    <2>1. f[1] = 0 /\ g[p[1]] = a /\ a \in Int /\ 1 \in 1..Len(p)
        BY <1>1, <1>2, <1>3, <1>5 DEF Sums, a
    <2>2. d[p[1]] <= f[1] + a - g[p[1]]
        BY <2>1
    <2> QED BY <2>1, <2>2
<1>8. ASSUME NEW k \in 1..Len(p) - 1, k \in S PROVE k + 1 \in S
    <2> DEFINE l == Lightest(x, p[k], p[k + 1])
               b == d[p[k]]
               c == d[p[k + 1]]
               i == g[p[k]]
               j == g[p[k + 1]]
    <2>1. k + 1 \in 2..Len(p) /\ k + 1 - 1 = k /\ k \in 1..Len(p) /\ k + 1 \in 1..Len(p)
        BY <1>2
    <2>2. l \in Arcs(x, p[k], p[k + 1]) /\ l \in -MaxWeight..MaxWeight
        <3>1. Arcs(x, p[k], p[k + 1]) # {} /\ p[k] \in Vertices(x)
            BY <1>2, <2>1, PathShape
        <3> QED BY <3>1, ArcWeights
    <2>3. l \in Int
        BY <2>2, Sizes DEF Graph
    <2>4. b # Infinity /\ b <= f[k] + a - i
        BY <1>6, <1>8, <2>1
    <2>5. c <= b + (l + i - j)
        BY <1>2, <2>1, <2>2, <2>4
    <2>6. f[k + 1] = f[k] + l /\ f[k] \in Int
        BY <1>1, <2>1 DEF Sums
    <2>7. b \in Int /\ c \in Int /\ i \in Int /\ j \in Int /\ a \in Int
        BY <1>2, <1>3, <1>4, <1>5, <2>1
    <2> HIDE DEF l, b, c, i, j
    <2>8. c <= f[k + 1] + a - j
        BY <2>3, <2>4, <2>5, <2>6, <2>7
    <2> QED BY <2>1, <2>8 DEF c, j
<1>9. Len(p) \in S
    <2> HIDE DEF S
    <2>1. \A k \in 1..Len(p) : k \in S
        BY <1>2, <1>7, <1>8, CountingUp
    <2> QED BY <1>2, <2>1
<1>10. d[p[Len(p)]] # Infinity
    BY <1>6, <1>9
<1> QED BY <1>1, <1>2, <1>9, <1>10, WeightIs DEF a

\* What the last scan leaves: no arc is shorter than the difference of its ends.
LEMMA AllScanned ==
    ASSUME TypeInv, Reading, ScannedEdges, Record,
           NEW u \in vertices, NEW v \in vertices, NEW w \in Arcs(input, u, v),
           distance[u] # Infinity
    PROVE  distance[v] <= distance[u] + (w + h[u] - h[v])
<1>1. pc = "dijkstra" /\ Scanned /\ DOMAIN queue = {}
    BY DEF Record
<1> DEFINE c == w + h[u] - h[v]
           e == [source |-> u, destination |-> v, weight |-> c]
<1>2. e \in Range(edges)
    BY <1>1, GraphRead
<1>3. PICK k \in DOMAIN edges : edges[k] = e
    BY <1>2 DEF Range
<1>4. DOMAIN edges = 1..Len(edges) /\ Len(edges) \in Nat /\ at \in 1..Len(edges) + 1
    BY DEF TypeInv
<1> HIDE DEF c
<1>5. edges[k].source = u /\ edges[k].destination = v /\ edges[k].weight = c
    BY <1>3
<1>6. u = current => k < at
    <2> SUFFICES ASSUME u = current, ~(k < at) PROVE FALSE
        OBVIOUS
    <2>1. k \in Rest
        BY <1>4, <1>5 DEF Rest
    <2>2. current # Null
        BY SizeIsNat, JohnsonAssumption DEF TypeInv, vertices
    <2> QED BY <1>1, <2>1, <2>2 DEF Scanned
<1>7. distance[v] <= distance[u] + c
    BY <1>1, <1>5, <1>6 DEF ScannedEdges
<1> QED BY <1>7 DEF c

\* When the queue is empty the labels are those of shortest paths.
LEMMA RecordIsRight ==
    ASSUME TypeInv, Reading, Reweighted, Tree, ScannedEdges, Rows, Record
    PROVE  RowIsRight(input, source, D'[source], APSP'[source])
<1>1. /\ Graph(input) /\ n \in Nat /\ n = input.n /\ vertices = Vertices(input)
      /\ vertices \subseteq 0..n /\ h \in [vertices -> Int] /\ pc = "dijkstra"
    BY GraphRead DEF Record
<1>2. source \in vertices
    BY <1>1 DEF TypeInv, vertices
<1>3. /\ \A v \in vertices : distance[v] \in Int /\ h[v] \in -(n * MaxWeight)..0 /\ h[v] \in Int
      /\ Infinity \in Nat
    BY <1>1, JohnsonAssumption DEF TypeInv, Reweighted
<1>4. /\ \A v \in vertices : distance[v] >= 0
      /\ distance[source] = 0 /\ predecessor[source] = Null
      /\ \A v \in vertices : distance[v] = Infinity => predecessor[v] = Null
      /\ \A v \in vertices : distance[v] # Infinity =>
            \E p \in PathsBetween(input, source, v) :
                /\ Weight(input, p) + h[source] - h[v] <= distance[v]
                /\ LeadsBack(input, p, predecessor)
    BY <1>1 DEF Tree
<1> DEFINE row == D'[source]
           back == APSP'[source]
<1>5. \A v \in vertices :
        /\ row[v] = IF distance[v] = Infinity THEN Infinity ELSE distance[v] + h[v] - h[source]
        /\ back[v] = predecessor[v]
    BY <1>2 DEF Record, Rows
<1> HIDE DEF row, back
<1>6. \A u, v \in Vertices(input) : \A w \in Arcs(input, u, v) :
        distance[u] # Infinity => distance[v] <= distance[u] + (w + h[u] - h[v])
    BY <1>1, AllScanned
<1>7. ASSUME NEW v \in vertices, NEW p \in PathsBetween(input, source, v)
      PROVE  /\ distance[v] <= Weight(input, p) + h[source] - h[v] /\ distance[v] # Infinity
             /\ Weight(input, p) \in Int /\ Weight(input, p) < Infinity
             /\ Len(p) \in Nat /\ \A k \in 1..Len(p) : p[k] \in vertices
    <2>1. p \in Paths(input) /\ p[1] = source /\ Last(p) = v
        BY DEF PathsBetween
    <2>2. \A z \in Vertices(input) : distance[z] \in Int /\ h[z] \in -(input.n * MaxWeight)..0
        BY <1>1, <1>3
    <2>3. distance[v] <= Weight(input, p) + h[source] - h[v] /\ distance[v] # Infinity
        BY <1>1, <1>4, <1>6, <2>1, <2>2, Reaching
    <2> QED BY <1>1, <2>1, <2>3, WeightIsFinite, PathShape
<1>8. ASSUME NEW v \in vertices
      PROVE  /\ row[v] = Shortest(input, source, v)
             /\ IF source = v \/ row[v] = Infinity THEN back[v] = Null
                ELSE \E p \in PathsBetween(input, source, v) :
                        Weight(input, p) = row[v] /\ LeadsBack(input, p, back)
    <2>1. CASE distance[v] = Infinity
        <3>1. PathsBetween(input, source, v) = {}
            BY <1>7, <2>1
        <3>2. row[v] = Infinity /\ back[v] = Null
            BY <1>4, <1>5, <2>1
        <3> QED BY <3>1, <3>2 DEF Shortest
    <2>2. CASE distance[v] # Infinity
        <3> DEFINE W == distance[v] + h[v] - h[source]
                   All == {Weight(input, p) : p \in PathsBetween(input, source, v)}
        <3>1. PICK p \in PathsBetween(input, source, v) :
                /\ Weight(input, p) + h[source] - h[v] <= distance[v]
                /\ LeadsBack(input, p, predecessor)
            BY <1>4, <2>2
        <3>2. W \in Int /\ row[v] = W
            BY <1>2, <1>3, <1>5, <2>2
        <3>3. \A q \in PathsBetween(input, source, v) :
                Weight(input, q) \in Int /\ W <= Weight(input, q)
            <4> SUFFICES ASSUME NEW q \in PathsBetween(input, source, v)
                         PROVE  Weight(input, q) \in Int /\ W <= Weight(input, q)
                OBVIOUS
            <4> DEFINE b == Weight(input, q)
            <4>1. distance[v] <= b + h[source] - h[v] /\ b \in Int
                BY <1>7
            <4>2. distance[v] \in Int /\ h[v] \in Int /\ h[source] \in Int
                BY <1>2, <1>3
            <4> HIDE DEF b
            <4>3. W <= b
                BY <4>1, <4>2
            <4> QED BY <4>1, <4>3 DEF b
        <3>4. Weight(input, p) = W
            <4> DEFINE b == Weight(input, p)
            <4>1. b \in Int /\ W <= b /\ b + h[source] - h[v] <= distance[v]
                BY <3>1, <3>3
            <4>2. distance[v] \in Int /\ h[v] \in Int /\ h[source] \in Int
                BY <1>2, <1>3
            <4> HIDE DEF b
            <4>3. b = W
                BY <4>1, <4>2
            <4> QED BY <4>3 DEF b
        <3> HIDE DEF W
        <3>5. All \subseteq Int /\ W \in All /\ \A i \in All : W <= i
            BY <3>3, <3>4
        <3> HIDE DEF All
        <3>6. Min(All) \in All /\ \A i \in All : Min(All) <= i
            BY <3>2, <3>5, MinIsLeastInt
        <3>7. Min(All) = W
            <4> DEFINE b == Min(All)
            <4>1. b \in Int /\ b <= W /\ W <= b
                BY <3>5, <3>6
            <4> HIDE DEF b
            <4>2. b = W
                BY <3>2, <4>1
            <4> QED BY <4>2 DEF b
        <3>8. row[v] = Shortest(input, source, v)
            BY <3>1, <3>2, <3>7 DEF Shortest, All
        <3>9. row[v] # Infinity
            BY <1>3, <1>7, <3>2, <3>4
        <3>10. LeadsBack(input, p, back)
            <4>1. ASSUME NEW k \in 2..Len(p) PROVE back[p[k]] = p[k - 1]
                <5>1. p[k] \in vertices
                    BY <1>7
                <5>2. predecessor[p[k]] = p[k - 1]
                    BY <3>1 DEF LeadsBack
                <5> QED BY <1>5, <5>1, <5>2
            <4> QED BY <4>1 DEF LeadsBack
        <3>11. source = v => back[v] = Null
            BY <1>4, <1>5
        <3> QED BY <3>2, <3>4, <3>8, <3>9, <3>10, <3>11
    <2> QED BY <2>1, <2>2
<1>9. RowIsRight(input, source, row, back)
    BY <1>1, <1>8 DEF RowIsRight
<1> QED BY <1>9 DEF row, back

\* Rows holds through every step.
LEMMA RowsStep ==
    TypeInv /\ Reading /\ BellmanFord /\ Reweighted /\ Tree /\ ScannedEdges /\ Rows /\ [Next]_vars
        => Rows'
<1> SUFFICES ASSUME TypeInv, Reading, BellmanFord, Reweighted, Tree, ScannedEdges, Rows,
                    [Next]_vars
             PROVE  Rows'
    OBVIOUS
<1>1. input' = input /\ n' = n /\ vertices' = vertices
    BY Fixed
<1>2. CASE Record
    <2>1. /\ pc = "dijkstra" /\ pc' = "source" /\ source' = source + 1 /\ source \in Nat
          /\ DOMAIN D' = DOMAIN D /\ DOMAIN APSP' = DOMAIN APSP
        BY <1>2, SizeIsNat DEF Record, TypeInv
    <2>2. RowIsRight(input, source, D'[source], APSP'[source])
        BY <1>2, RecordIsRight
    <2>3. ASSUME NEW u \in 0..source' - 1 PROVE RowIsRight(input, u, D'[u], APSP'[u])
        <3>1. CASE u = source
            BY <2>2, <3>1
        <3>2. CASE u # source
            <4>1. u \in 0..source - 1
                BY <2>1, <2>3, <3>2
            <4>2. D'[u] = D[u] /\ APSP'[u] = APSP[u]
                <5>1. u \in vertices
                    BY <2>1, <4>1, SizeIsNat DEF TypeInv, vertices
                <5> QED BY <1>2, <3>2, <5>1 DEF Record, Rows
            <4>3. RowIsRight(input, u, D[u], APSP[u])
                BY <2>1, <4>1 DEF Rows
            <4> QED BY <4>2, <4>3
        <3> QED BY <3>1, <3>2
    <2> QED BY <1>1, <2>1, <2>3 DEF Rows
<1>3. CASE Reweight
    <2>1. pc' = "source" /\ source' = source /\ source = 0 /\ D' = D /\ APSP' = APSP
        BY <1>3, ReweightFacts DEF Reweight, search, matrices, Rows
    <2> QED BY <1>1, <2>1 DEF Rows
<1>4. CASE ~(Record \/ Reweight)
    <2>1. /\ D' = D /\ APSP' = APSP /\ source' = source
          /\ \/ pc' = pc
             \/ pc \in {"read", "relax"} /\ pc' \in {"refused", "relax", "nc"}
             \/ pc \in {"source", "dijkstra"} /\ pc' \in {"source", "dijkstra", "written"}
        BY <1>4 DEF Next, ReadLine, RefuseFile, MakeGprime, RelaxNext, NegativeCycle,
                    StartDijkstra, ExtractMin, ScanEdge, Write, vars, search, matrices
    <2> QED BY <1>1, <2>1 DEF Rows
<1> QED BY <1>2, <1>3, <1>4
-----------------------------------------------------------------------------
(* The files *)

\* Write copies the rows, and counts the vertices from 1.
LEMMA WriteIsRight ==
    ASSUME TypeInv, Reading, Reweighted, Rows, Write
    PROVE  FinalIsRight' /\ PathLeadsBack'
<1>1. /\ Graph(input) /\ n \in Nat /\ n = input.n /\ vertices = Vertices(input) /\ pc = "source"
    BY GraphRead DEF Write
<1>2. input' = input /\ n' = n /\ vertices' = vertices /\ pc' = "written"
    BY DEF Write, graph, n, vertices
<1>3. WellFormed(input) /\ ~HasNegativeCycle(input)
    BY <1>1 DEF Graph, Reweighted
<1>4. ASSUME NEW u \in vertices, NEW v \in vertices
      PROVE  /\ final'[u][v] = Shortest(input, u, v)
             /\ path'[u][v] = IF APSP[u][v] = Null THEN Null ELSE APSP[u][v] + 1
             /\ IF u = v \/ final'[u][v] = Infinity THEN APSP[u][v] = Null
                ELSE \E p \in PathsBetween(input, u, v) :
                        Weight(input, p) = final'[u][v] /\ LeadsBack(input, p, APSP[u])
    <2>1. source = n /\ u \in 0..source - 1
        BY <1>1 DEF Write, vertices
    <2>2. RowIsRight(input, u, D[u], APSP[u])
        BY <1>1, <2>1 DEF Rows
    <2>3. final' = D
        BY DEF Write
    <2>4. path'[u][v] = IF APSP[u][v] = Null THEN Null ELSE APSP[u][v] + 1
        BY DEF Write
    <2> QED BY <1>1, <2>2, <2>3, <2>4 DEF RowIsRight
<1>5. ASSUME NEW u \in vertices, NEW v \in vertices
      PROVE  IF u = v \/ final'[u][v] = Infinity THEN path'[u][v] = Null
             ELSE \E p \in PathsBetween(input, u, v) :
                    /\ Weight(input, p) = final'[u][v]
                    /\ \A k \in 2..Len(p) : path'[u][p[k]] = p[k - 1] + 1
    <2>1. CASE u = v \/ final'[u][v] = Infinity
        BY <1>4, <2>1
    <2>2. CASE ~(u = v \/ final'[u][v] = Infinity)
        <3>1. PICK p \in PathsBetween(input, u, v) :
                Weight(input, p) = final'[u][v] /\ LeadsBack(input, p, APSP[u])
            BY <1>4, <2>2
        <3>2. p \in [1..Len(p) -> vertices] /\ Len(p) \in Nat
            <4>1. p \in Paths(input)
                BY DEF PathsBetween
            <4> QED BY <1>1, <4>1, PathShape
        <3>3. ASSUME NEW k \in 2..Len(p) PROVE path'[u][p[k]] = p[k - 1] + 1
            <4>1. p[k] \in vertices /\ p[k - 1] \in vertices
                BY <3>2
            <4>2. APSP[u][p[k]] = p[k - 1]
                BY <3>1 DEF LeadsBack
            <4>3. p[k - 1] # Null
                BY <1>1, <4>1, JohnsonAssumption DEF vertices
            <4> QED BY <1>4, <4>1, <4>2, <4>3
        <3> QED BY <2>2, <3>1, <3>3
    <2> QED BY <2>1, <2>2
<1>6. FinalIsRight'
    BY <1>2, <1>3, <1>4 DEF FinalIsRight
<1>7. PathLeadsBack'
    BY <1>2, <1>5 DEF PathLeadsBack
<1> QED BY <1>6, <1>7

\* FinalIsRight and PathLeadsBack hold through every step.
LEMMA FilesStep ==
    TypeInv /\ Reading /\ BellmanFord /\ Reweighted /\ Rows
            /\ FinalIsRight /\ PathLeadsBack /\ [Next]_vars
        => FinalIsRight' /\ PathLeadsBack'
<1> SUFFICES ASSUME TypeInv, Reading, BellmanFord, Reweighted, Rows, FinalIsRight, PathLeadsBack,
                    [Next]_vars
             PROVE  FinalIsRight' /\ PathLeadsBack'
    OBVIOUS
<1>1. input' = input /\ n' = n /\ vertices' = vertices
    BY Fixed
<1>2. CASE Write
    BY <1>2, WriteIsRight
<1>3. CASE NegativeCycle
    <2>1. pc' = "nc" /\ HasNegativeCycle(input)
        BY <1>3, NegativeCycleIsThere DEF NegativeCycle
    <2> QED BY <1>1, <2>1 DEF FinalIsRight, PathLeadsBack
<1>4. CASE RefuseFile
    <2>1. pc' = "refused" /\ ~WellFormed(input)
        BY <1>1, <1>4, RefuseFileKeepsReading DEF RefuseFile, Reading
    <2> QED BY <1>1, <2>1 DEF FinalIsRight, PathLeadsBack
<1>5. CASE Reweight
    <2>1. pc' = "source"
        BY <1>5, ReweightFacts
    <2> QED BY <2>1 DEF FinalIsRight, PathLeadsBack
<1>6. CASE ~(Write \/ NegativeCycle \/ RefuseFile \/ Reweight)
    <2>1. \/ pc' \in {"read", "relax", "source", "dijkstra"}
          \/ pc' = pc /\ final' = final /\ path' = path
        BY <1>6 DEF Next, ReadLine, MakeGprime, RelaxNext, StartDijkstra, ExtractMin, ScanEdge,
                    Record, vars, files
    <2> QED BY <1>1, <2>1 DEF FinalIsRight, PathLeadsBack
<1> QED BY <1>2, <1>3, <1>4, <1>5, <1>6

\* All of it together is inductive.
RightInv ==
    /\ JohnsonInv /\ Reading /\ BellmanFord /\ Reweighted /\ Tree /\ ScannedEdges /\ Rows
    /\ FinalIsRight /\ PathLeadsBack

\* RightInv holds in every state.
LEMMA RightHolds == Spec => []RightInv
<1>1. Init => RightInv
    <2> SUFFICES ASSUME Init PROVE RightInv
        OBVIOUS
    <2>1. pc = "read" /\ source = 0 /\ DOMAIN D = vertices /\ DOMAIN APSP = vertices
        BY DEF Init
    <2>2. JohnsonInv /\ Reading
        BY TypeInitially, ReadingInitially DEF Init, JohnsonInv, NonNegative, Frontier
    <2>3. Rows
        BY <2>1 DEF Rows
    <2> QED BY <2>1, <2>2, <2>3
            DEF RightInv, BellmanFord, Reweighted, Tree, ScannedEdges, FinalIsRight, PathLeadsBack
<1>2. RightInv /\ [Next]_vars => RightInv'
    <2> SUFFICES ASSUME RightInv, [Next]_vars PROVE RightInv'
        OBVIOUS
    <2>1. /\ TypeInv /\ NonNegative /\ Frontier /\ Reading /\ BellmanFord /\ Reweighted /\ Tree
          /\ ScannedEdges /\ Rows /\ FinalIsRight /\ PathLeadsBack
        BY DEF RightInv, JohnsonInv
    <2>2. JohnsonInv'
        BY <2>1, TypeStep, NonNegativeStep, FrontierStep DEF JohnsonInv
    <2>3. Reading' /\ BellmanFord' /\ Reweighted'
        BY <2>1, ReadingStep, BellmanFordStep, ReweightedStep
    <2>4. Tree' /\ ScannedEdges' /\ Rows'
        BY <2>1, TreeStep, RowsStep
    <2>5. FinalIsRight' /\ PathLeadsBack'
        BY <2>1, FilesStep
    <2> QED BY <2>2, <2>3, <2>4, <2>5 DEF RightInv
<1> QED BY <1>1, <1>2, PTL DEF Spec

\* For every graph the program ends as the file calls for: it refuses exactly the ill-formed
\* ones, finds a negative cycle exactly when there is one, and otherwise writes the lengths
\* of the shortest paths (Graph.java 123-174): FinalIsRight of the run.
THEOREM FinalStaysRight == Spec => []FinalIsRight
<1>1. RightInv => FinalIsRight
    BY DEF RightInv
<1> QED BY RightHolds, <1>1, PTL

\* And the predecessors it writes lead back along shortest paths: PathLeadsBack of the run.
THEOREM PathsLeadBack == Spec => []PathLeadsBack
<1>1. RightInv => PathLeadsBack
    BY DEF RightInv
<1> QED BY RightHolds, <1>1, PTL
=============================================================================

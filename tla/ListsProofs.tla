----------------------------- MODULE ListsProofs -----------------------------
(***************************************************************************)
(* Theorems about the linked lists of project5/server.c.                   *)
(***************************************************************************)
EXTENDS ServerLists, SequenceLemmas

(* What a walk finds *)

\* A walk of any length satisfies the recurrence that defines it.
LEMMA WalkSteps ==
    ASSUME NEW link, NEW c, NEW n \in Nat
    PROVE  LET w == Walk(link, c, n)
           IN  w = [i \in 1 .. n |->
                       IF i = 1 THEN c ELSE IF w[i - 1] = Null THEN Null ELSE link[w[i - 1]]]
<1> DEFINE Rec(f, m) ==
        [i \in 1 .. m |->
            IF i = 1 THEN c ELSE IF f[i - 1] = Null THEN Null ELSE link[f[i - 1]]]
           Bad == {m \in Nat : ~ \E f : f = Rec(f, m)}
<1>1. Bad = {}
  <2> SUFFICES ASSUME Bad # {} PROVE FALSE
    OBVIOUS
  <2>1. PICK m \in Bad : \A k \in Bad : m <= k
    <3> HIDE DEF Bad
    <3>1. Bad \subseteq Nat  BY DEF Bad
    <3> QED  BY <3>1, LeastNatural
  <2>2. m # 0
    <3> SUFFICES ASSUME m = 0 PROVE FALSE
      OBVIOUS
    <3> DEFINE g == [i \in 1 .. m |-> c]
    <3>0. \A i \in 1 .. m : FALSE
      OBVIOUS
    <3>3. g = [i \in 1 .. m |-> g[i]]
      OBVIOUS
    <3> HIDE DEF g
    <3>4. \A i \in 1 .. m :
             g[i] = IF i = 1 THEN c ELSE IF g[i - 1] = Null THEN Null ELSE link[g[i - 1]]
      BY <3>0
    <3>1. g = Rec(g, m)
      BY <3>3, <3>4
    <3>2. ~ \E f : f = Rec(f, m)
      BY <2>1
    <3> HIDE DEF Rec
    <3> QED  BY <3>1, <3>2
  <2>3. m - 1 \in Nat /\ m - 1 \notin Bad
    <3>1. m \in Nat  BY <2>1
    <3> HIDE DEF Bad
    <3> QED  BY <2>1, <2>2, <3>1
  <2>4. PICK f : f = Rec(f, m - 1)
    BY <2>3
  <2> DEFINE g == [i \in 1 .. m |->
                      IF i < m THEN f[i]
                      ELSE IF m = 1 THEN c
                      ELSE IF f[m - 1] = Null THEN Null ELSE link[f[m - 1]]]
  <2>5. ASSUME NEW i \in 1 .. m
        PROVE  g[i] = IF i = 1 THEN c ELSE IF g[i - 1] = Null THEN Null ELSE link[g[i - 1]]
    <3>1. CASE i = 1
      <4>1. CASE m = 1  BY <3>1, <4>1
      <4>2. CASE m # 1
        <5>1. 1 \in 1 .. m - 1 /\ 1 \in 1 .. m /\ 1 < m
          BY <2>1, <4>2
        <5>2. f[1] = c
          BY <2>4, <5>1
        <5> QED  BY <3>1, <5>1, <5>2
      <4> QED  BY <4>1, <4>2
    <3>2. CASE i # 1
      <4>1. i - 1 \in 1 .. m - 1 /\ i - 1 \in 1 .. m /\ i - 1 < m
        BY <2>1, <3>2
      <4>2. g[i - 1] = f[i - 1]
        BY <4>1
      <4>3. CASE i < m
        <5>1. i \in 1 .. m - 1
          BY <2>1, <4>3
        <5>2. f[i] = IF f[i - 1] = Null THEN Null ELSE link[f[i - 1]]
          BY <2>4, <3>2, <5>1
        <5> QED  BY <3>2, <4>2, <4>3, <5>2
      <4>4. CASE i = m
        BY <3>2, <4>2, <4>4
      <4> QED  BY <2>1, <4>3, <4>4
    <3> QED  BY <3>1, <3>2
  <2>6. g = [i \in 1 .. m |-> g[i]]
    OBVIOUS
  <2> HIDE DEF g
  <2>7. g = Rec(g, m)
    BY <2>5, <2>6
  <2>8. ~ \E h : h = Rec(h, m)
    BY <2>1
  <2> HIDE DEF Rec
  <2> QED  BY <2>7, <2>8
<1>2. \E f : f = Rec(f, n)
  BY <1>1
<1>3. Walk(link, c, n) = CHOOSE f : f = Rec(f, n)
  BY DEF Walk
<1>4. Walk(link, c, n) = Rec(Walk(link, c, n), n)
  <2> HIDE DEF Rec
  <2> QED  BY <1>2, <1>3
<1> QED  BY <1>4

\* A walk that finds only members of a set is a sequence over it, as long as was asked.
LEMMA WalkIsSequence ==
    ASSUME NEW link, NEW c, NEW n \in Nat, NEW S, Range(Walk(link, c, n)) \subseteq S
    PROVE  Walk(link, c, n) \in Seq(S) /\ Len(Walk(link, c, n)) = n
<1> DEFINE w == Walk(link, c, n)
<1>1. w = [i \in 1 .. n |->
              IF i = 1 THEN c ELSE IF w[i - 1] = Null THEN Null ELSE link[w[i - 1]]]
  BY WalkSteps
<1> HIDE DEF w
<1>2. DOMAIN w = 1 .. n /\ w = [i \in 1 .. n |-> w[i]]
  BY <1>1
<1>3. \A i \in 1 .. n : w[i] \in S
  BY <1>2 DEF Range, w
<1>4. w \in Seq(S) /\ Len(w) = n
  BY <1>2, <1>3
<1> QED  BY <1>4 DEF w

\* A walk from the sentinel of a ring finds what is in the ring.
LEMMA RingWalk ==
    ASSUME NEW f, NEW b, NEW z, NEW S, Null \notin S, NEW s \in Seq(S), Ring(f, b, z, s),
           NEW n \in Nat, Len(s) = n
    PROVE  Walk(f, f[z], n) = s
<1> DEFINE w == Walk(f, f[z], n)
           Bad == {i \in 1 .. n : w[i] # s[i]}
<1>1. n \in Nat /\ DOMAIN s = 1 .. n /\ s = [i \in 1 .. n |-> s[i]]
  OBVIOUS
<1>2. w = [i \in 1 .. n |->
              IF i = 1 THEN f[z] ELSE IF w[i - 1] = Null THEN Null ELSE f[w[i - 1]]]
  BY WalkSteps
<1> HIDE DEF w
<1>3. ASSUME Bad # {} PROVE FALSE
  <2>1. PICK m \in Bad : \A k \in Bad : m <= k
    <3>1. Bad \subseteq Nat  OBVIOUS
    <3> HIDE DEF Bad
    <3> QED  BY <1>3, <3>1, LeastNatural
  <2>2. m \in 1 .. n /\ w[m] # s[m] /\ m - 1 \in 0 .. Len(s)
    BY <1>1
  <2>3. f[Node(z, s, m - 1)] = Node(z, s, m)
    <3>1. m - 1 + 1 = m  BY <2>2
    <3> QED  BY <2>2, <3>1 DEF Ring
  <2>4. Node(z, s, m) = s[m]
    BY <1>1, <2>2 DEF Node
  <2>5. CASE m = 1
    <3>1. Node(z, s, m - 1) = z
      BY <1>1, <2>5 DEF Node
    <3> QED  BY <1>2, <2>2, <2>3, <2>4, <2>5, <3>1
  <2>6. CASE m # 1
    <3>1. m - 1 \in 1 .. n /\ m - 1 < m
      BY <1>1, <2>2, <2>6
    <3>2. w[m - 1] = s[m - 1]
      <4> SUFFICES ASSUME w[m - 1] # s[m - 1] PROVE FALSE
        OBVIOUS
      <4>1. m - 1 \in Bad  BY <3>1
      <4> QED  BY <2>1, <2>2, <3>1, <4>1
    <3>3. Node(z, s, m - 1) = s[m - 1] /\ s[m - 1] \in S
      BY <1>1, <3>1 DEF Node
    <3>4. w[m] = f[s[m - 1]]
      BY <1>2, <2>2, <2>6, <3>2, <3>3
    <3> QED  BY <2>2, <2>3, <2>4, <3>3, <3>4
  <2> QED  BY <2>5, <2>6
<1>4. w = s
  <2>1. w = [i \in 1 .. n |-> w[i]]
    BY <1>2
  <2>2. \A i \in 1 .. n : w[i] = s[i]
    BY <1>3
  <2> QED  BY <1>1, <2>1, <2>2
<1> QED  BY <1>4 DEF w

(* What the operations make of a ring *)

\* The nodes of a ring are its sentinel and what is in it.
LEMMA NodeProperties ==
    ASSUME NEW S, NEW z, z \notin S, NEW s \in Seq(S)
    PROVE  /\ \A i \in 1 .. Len(s) : Node(z, s, i) = s[i]
           /\ Node(z, s, 0) = z /\ Node(z, s, Len(s) + 1) = z
           /\ \A i \in 0 .. Len(s) + 1 : Node(z, s, i) \in {z} \cup Range(s)
BY DEF Node, Range

\* A ring keeps its shape if the pointers of its own nodes do.
LEMMA RingOther ==
    ASSUME NEW S, NEW z, z \notin S, NEW s \in Seq(S),
           NEW f, NEW b, NEW f1, NEW b1, Ring(f, b, z, s),
           \A n \in {z} \cup Range(s) : f1[n] = f[n] /\ b1[n] = b[n]
    PROVE  Ring(f1, b1, z, s)
<1> SUFFICES ASSUME NEW i \in 0 .. Len(s)
             PROVE  /\ f1[Node(z, s, i)] = Node(z, s, i + 1)
                    /\ b1[Node(z, s, i + 1)] = Node(z, s, i)
  BY DEF Ring
<1>1. Node(z, s, i) \in {z} \cup Range(s) /\ Node(z, s, i + 1) \in {z} \cup Range(s)
  BY NodeProperties
<1> QED  BY <1>1 DEF Ring

\* Linking a node behind the last one.
LEMMA RingAppend ==
    ASSUME NEW S, NEW z, z \notin S, NEW s \in Seq(S), IsInjective(s),
           NEW r \in S, r \notin Range(s),
           NEW N, {z} \cup S \subseteq N, NEW f, NEW b, DOMAIN f = N, DOMAIN b = N,
           Ring(f, b, z, s)
    PROVE  Ring([f EXCEPT ![b[z]] = r, ![r] = z], [b EXCEPT ![z] = r, ![r] = b[z]],
                z, Append(s, r))
<1> DEFINE n == Len(s)
           t == Append(s, r)
           f1 == [f EXCEPT ![b[z]] = r, ![r] = z]
           b1 == [b EXCEPT ![z] = r, ![r] = b[z]]
<1>1. /\ n \in Nat /\ t \in Seq(S) /\ Len(t) = n + 1
      /\ \A i \in 1 .. n : t[i] = s[i]
      /\ t[n + 1] = r
  OBVIOUS
<1>2. /\ \A i \in 0 .. n : Node(z, t, i) = Node(z, s, i)
      /\ Node(z, t, n + 1) = r /\ Node(z, t, n + 2) = z
  <2>1. DOMAIN t = 1 .. n + 1 /\ DOMAIN s = 1 .. n
    BY <1>1
  <2>2. n \in Nat  OBVIOUS
  <2> HIDE DEF t, n
  <2>3. ASSUME NEW i \in 0 .. n PROVE Node(z, t, i) = Node(z, s, i)
    <3>1. CASE i = 0  BY <2>1, <2>2, <3>1 DEF Node
    <3>2. CASE i \in 1 .. n  BY <1>1, <2>1, <2>2, <3>2 DEF Node
    <3> QED  BY <2>2, <3>1, <3>2
  <2>4. Node(z, t, n + 1) = r /\ Node(z, t, n + 2) = z
    BY <1>1, <2>1, <2>2 DEF Node
  <2> QED  BY <2>3, <2>4
<1>3. b[z] = Node(z, s, n)
  <2>1. Node(z, s, n + 1) = z  BY NodeProperties
  <2>2. n \in 0 .. Len(s)  BY <1>1
  <2> QED  BY <2>1, <2>2 DEF Ring
<1>4. \A i \in 0 .. n : Node(z, s, i) \in N /\ Node(z, s, i) # r
  <2>1. \A i \in 0 .. n : Node(z, s, i) \in {z} \cup Range(s)
    BY NodeProperties
  <2>2. Range(s) \subseteq S  BY DEF Range
  <2> QED  BY <2>1, <2>2
<1>5. \A i, j \in 0 .. n : Node(z, s, i) = Node(z, s, j) => i = j
  <2>1. \A i \in 1 .. n : Node(z, s, i) = s[i] /\ s[i] # z
    BY NodeProperties
  <2>2. Node(z, s, 0) = z  BY NodeProperties
  <2>3. \A i, j \in 1 .. n : s[i] = s[j] => i = j
    BY DEF IsInjective
  <2>4. \A i \in 0 .. n : i = 0 \/ i \in 1 .. n
    BY <1>1
  <2> QED  BY <2>1, <2>2, <2>3, <2>4
<1>6. ASSUME NEW i \in 0 .. Len(t)
      PROVE  f1[Node(z, t, i)] = Node(z, t, i + 1) /\ b1[Node(z, t, i + 1)] = Node(z, t, i)
  <2>0. r \in N /\ z \in N /\ r # z /\ b[z] # r /\ b[z] \in N
    BY <1>1, <1>3, <1>4
  <2>1. /\ \A m \in N : f1[m] = IF m = r THEN z ELSE IF m = b[z] THEN r ELSE f[m]
        /\ \A m \in N : b1[m] = IF m = r THEN b[z] ELSE IF m = z THEN r ELSE b[m]
    BY <2>0
  <2> HIDE DEF t, f1, b1
  <2>2. CASE i \in 0 .. n - 1
    <3>1. /\ Node(z, t, i) = Node(z, s, i) /\ Node(z, t, i + 1) = Node(z, s, i + 1)
          /\ Node(z, s, i) \in N /\ Node(z, s, i + 1) \in N
          /\ Node(z, s, i) # r /\ Node(z, s, i + 1) # r
      BY <1>1, <1>2, <1>4, <2>2
    <3>2. Node(z, s, i) # b[z]
      BY <1>1, <1>3, <1>5, <2>2
    <3>3. Node(z, s, i + 1) # z
      <4>1. Node(z, s, 0) = z  BY NodeProperties
      <4> QED  BY <1>1, <1>5, <2>2, <4>1
    <3>4. f[Node(z, s, i)] = Node(z, s, i + 1) /\ b[Node(z, s, i + 1)] = Node(z, s, i)
      BY <1>1, <2>2 DEF Ring
    <3> QED  BY <2>1, <3>1, <3>2, <3>3, <3>4
  <2>3. CASE i = n
    <3>1. Node(z, t, i) = b[z] /\ Node(z, t, i + 1) = r
      BY <1>1, <1>2, <1>3, <2>3
    <3> QED  BY <2>0, <2>1, <3>1
  <2>4. CASE i = n + 1
    <3>1. Node(z, t, i) = r /\ Node(z, t, i + 1) = z
      BY <1>1, <1>2, <2>4
    <3> QED  BY <2>0, <2>1, <3>1
  <2>5. i \in 0 .. n - 1 \/ i = n \/ i = n + 1
    BY <1>1
  <2> QED  BY <2>2, <2>3, <2>4, <2>5
<1>7. Ring(f1, b1, z, t)
  <2> HIDE DEF t, f1, b1
  <2> QED  BY <1>6 DEF Ring
<1> QED  BY <1>7

\* Unlinking the node at a place.
LEMMA RingRemove ==
    ASSUME NEW S, NEW z, z \notin S, NEW s \in Seq(S), IsInjective(s),
           NEW k \in 1 .. Len(s),
           NEW N, {z} \cup S \subseteq N, NEW f, NEW b, DOMAIN f = N, DOMAIN b = N,
           Ring(f, b, z, s)
    PROVE  Ring([f EXCEPT ![b[s[k]]] = f[s[k]]], [b EXCEPT ![f[s[k]]] = b[s[k]]],
                z, RemoveAt(s, k))
<1> DEFINE n == Len(s)
           t == RemoveAt(s, k)
           f1 == [f EXCEPT ![b[s[k]]] = f[s[k]]]
           b1 == [b EXCEPT ![f[s[k]]] = b[s[k]]]
           from(i) == IF i < k THEN i ELSE i + 1
<1>1. /\ n \in Nat /\ k \in 1 .. n /\ t \in Seq(S) /\ Len(t) = n - 1
      /\ \A i \in 1 .. n - 1 : t[i] = IF i < k THEN s[i] ELSE s[i + 1]
  BY RemoveAtProperties
<1> HIDE DEF t
<1>2. \A i \in 0 .. n : Node(z, t, i) = Node(z, s, from(i))
  <2>1. DOMAIN t = 1 .. n - 1 /\ DOMAIN s = 1 .. n
    BY <1>1
  <2> QED  BY <1>1, <2>1 DEF Node
<1>3. f[s[k]] = Node(z, s, k + 1) /\ b[s[k]] = Node(z, s, k - 1)
  <2>1. Node(z, s, k) = s[k]  BY NodeProperties
  <2>2. k \in 0 .. Len(s) /\ k - 1 \in 0 .. Len(s) /\ k - 1 + 1 = k
    BY <1>1
  <2>3. f[Node(z, s, k)] = Node(z, s, k + 1)
    BY <2>2 DEF Ring
  <2>4. b[Node(z, s, k - 1 + 1)] = Node(z, s, k - 1)
    BY <2>2 DEF Ring
  <2> QED  BY <2>1, <2>2, <2>3, <2>4
<1>4. \A i \in 0 .. n + 1 : Node(z, s, i) \in N
  <2>1. \A i \in 0 .. n + 1 : Node(z, s, i) \in {z} \cup Range(s)
    BY NodeProperties
  <2>2. Range(s) \subseteq S  BY DEF Range
  <2> QED  BY <2>1, <2>2
<1>5. /\ \A i, j \in 0 .. n : Node(z, s, i) = Node(z, s, j) => i = j
      /\ \A i, j \in 1 .. n + 1 : Node(z, s, i) = Node(z, s, j) => i = j
  <2>1. \A i \in 1 .. n : Node(z, s, i) = s[i] /\ s[i] # z
    BY NodeProperties
  <2>2. Node(z, s, 0) = z /\ Node(z, s, n + 1) = z  BY NodeProperties
  <2>3. \A i, j \in 1 .. n : s[i] = s[j] => i = j
    BY DEF IsInjective
  <2>4. /\ \A i \in 0 .. n : i = 0 \/ i \in 1 .. n
        /\ \A i \in 1 .. n + 1 : i = n + 1 \/ i \in 1 .. n
    <3>1. n \in Nat  OBVIOUS
    <3> HIDE DEF n
    <3> QED  BY <3>1
  <2> HIDE DEF n
  <2> QED  BY <2>1, <2>2, <2>3, <2>4
<1>6. ASSUME NEW i \in 0 .. Len(t)
      PROVE  f1[Node(z, t, i)] = Node(z, t, i + 1) /\ b1[Node(z, t, i + 1)] = Node(z, t, i)
  <2>0. /\ i \in 0 .. n - 1 /\ i + 1 \in 0 .. n /\ k - 1 \in 0 .. n + 1 /\ k + 1 \in 0 .. n + 1
        /\ from(i) \in 0 .. n /\ from(i + 1) \in 1 .. n + 1
    BY <1>1
  <2>1. /\ \A m \in N : f1[m] = IF m = Node(z, s, k - 1) THEN Node(z, s, k + 1) ELSE f[m]
        /\ \A m \in N : b1[m] = IF m = Node(z, s, k + 1) THEN Node(z, s, k - 1) ELSE b[m]
    <3>1. Node(z, s, k - 1) \in N /\ Node(z, s, k + 1) \in N
      BY <1>4, <2>0
    <3> QED  BY <1>3, <3>1
  <2>2. Node(z, t, i) = Node(z, s, from(i)) /\ Node(z, t, i + 1) = Node(z, s, from(i + 1))
    BY <1>1, <1>2, <2>0
  <2>3. Node(z, s, from(i)) \in N /\ Node(z, s, from(i + 1)) \in N
    <3>1. from(i) \in 0 .. n + 1 /\ from(i + 1) \in 0 .. n + 1
      BY <1>1, <2>0
    <3> QED  BY <1>4, <3>1
  <2> HIDE DEF f1, b1
  <2>4. CASE i = k - 1
    <3>1. from(i) = k - 1 /\ from(i + 1) = k + 1
      BY <1>1, <2>4
    <3> HIDE DEF from
    <3> QED  BY <2>1, <2>2, <2>3, <3>1
  <2>5. CASE i # k - 1
    <3>1. /\ from(i) \in 0 .. n /\ from(i) # k - 1 /\ from(i + 1) = from(i) + 1
          /\ from(i + 1) \in 1 .. n + 1 /\ from(i + 1) # k + 1
          /\ k - 1 \in 0 .. n /\ k + 1 \in 1 .. n + 1
      BY <1>1, <2>0, <2>5
    <3>2. Node(z, s, from(i)) # Node(z, s, k - 1)
      BY <1>5, <3>1
    <3>3. Node(z, s, from(i + 1)) # Node(z, s, k + 1)
      BY <1>5, <3>1
    <3>4. f[Node(z, s, from(i))] = Node(z, s, from(i + 1))
          /\ b[Node(z, s, from(i + 1))] = Node(z, s, from(i))
      BY <3>1 DEF Ring
    <3> HIDE DEF from
    <3> QED  BY <2>1, <2>2, <2>3, <3>2, <3>3, <3>4
  <2> QED  BY <2>4, <2>5
<1>7. Ring(f1, b1, z, t)
  <2> HIDE DEF f1, b1
  <2> QED  BY <1>6 DEF Ring
<1> QED  BY <1>7 DEF t

(* Two rings in one memory *)

Sentinels == {queue_sentinel, prefetch_sentinel}

\* The rings of two sentinels that have no request in common.
TwoRings(f, b, z, s, y, t) ==
    /\ f \in [Nodes -> Nodes \cup {Null}] /\ b \in [Nodes -> Nodes \cup {Null}]
    /\ s \in Seq(Requests) /\ t \in Seq(Requests)
    /\ IsInjective(s) /\ IsInjective(t)
    /\ Range(s) \cap Range(t) = {}
    /\ Ring(f, b, z, s) /\ Ring(f, b, y, t)

\* What the walks from both sentinels find.
LEMMA TwoWalks ==
    ASSUME NEW z \in Sentinels, NEW y \in Sentinels, NEW f, NEW b, NEW s, NEW t,
           TwoRings(f, b, z, s, y, t)
    PROVE  Walk(f, f[z], Len(s)) = s /\ Walk(f, f[y], Len(t)) = t
<1>1. Null \notin Requests /\ s \in Seq(Requests) /\ t \in Seq(Requests)
      /\ Ring(f, b, z, s) /\ Ring(f, b, y, t)
  BY ListsAssumption DEF TwoRings
<1>2. Len(s) \in Nat /\ Len(t) \in Nat
  BY <1>1
<1> QED  BY <1>1, <1>2, RingWalk

\* Linking a request that is in neither ring to one of them leaves the other alone.
LEMMA TwoRingsAppend ==
    ASSUME NEW z \in Sentinels, NEW y \in Sentinels, z # y,
           NEW f, NEW b, NEW s, NEW t, TwoRings(f, b, z, s, y, t),
           NEW r \in Requests, r \notin Range(s) \cup Range(t),
           NEW f1, f1 = [f EXCEPT ![b[z]] = r, ![r] = z],
           NEW b1, b1 = [b EXCEPT ![z] = r, ![r] = b[z]]
    PROVE  TwoRings(f1, b1, z, Append(s, r), y, t)
<1>1. /\ f \in [Nodes -> Nodes \cup {Null}] /\ b \in [Nodes -> Nodes \cup {Null}]
      /\ s \in Seq(Requests) /\ t \in Seq(Requests)
      /\ IsInjective(s) /\ IsInjective(t)
      /\ Range(s) \cap Range(t) = {}
      /\ Ring(f, b, z, s) /\ Ring(f, b, y, t)
  BY DEF TwoRings
<1>2. /\ z \notin Requests /\ y \notin Requests /\ {z} \cup Requests \subseteq Nodes
      /\ y \in Nodes
  BY ListsAssumption DEF Sentinels, Nodes
<1>3. Append(s, r) \in Seq(Requests) /\ Range(Append(s, r)) = Range(s) \cup {r}
      /\ IsInjective(Append(s, r))
  BY <1>1, AppendRange, AppendKeepsInjective
<1>4. b[z] \in {z} \cup Range(s)
  <2>1. Len(s) \in 0 .. Len(s) /\ Len(s) \in 0 .. Len(s) + 1
    BY <1>1
  <2>2. b[Node(z, s, Len(s) + 1)] = Node(z, s, Len(s))
    BY <1>1, <2>1 DEF Ring
  <2>3. Node(z, s, Len(s) + 1) = z /\ Node(z, s, Len(s)) \in {z} \cup Range(s)
    BY <1>1, <1>2, <2>1, NodeProperties
  <2> QED  BY <2>2, <2>3
<1>5. Range(s) \subseteq Requests /\ Range(t) \subseteq Requests
  BY <1>1 DEF Range
<1>6. f1 \in [Nodes -> Nodes \cup {Null}] /\ b1 \in [Nodes -> Nodes \cup {Null}]
  BY <1>1, <1>2, <1>4, <1>5
<1>7. Ring(f1, b1, z, Append(s, r))
  <2>1. DOMAIN f = Nodes /\ DOMAIN b = Nodes
    BY <1>1
  <2> QED  BY <1>1, <1>2, <2>1, RingAppend
<1>8. Ring(f1, b1, y, t)
  <2>1. \A n \in {y} \cup Range(t) : f1[n] = f[n] /\ b1[n] = b[n]
    BY <1>1, <1>2, <1>4, <1>5
  <2>2. y \notin Requests /\ t \in Seq(Requests) /\ Ring(f, b, y, t)
    BY <1>1, <1>2
  <2>3. ASSUME NEW g, NEW h, \A n \in {y} \cup Range(t) : g[n] = f[n] /\ h[n] = b[n]
        PROVE  Ring(g, h, y, t)
    BY <2>2, <2>3, RingOther
  <2> QED  BY <2>1, <2>3, Zenon
<1> QED  BY <1>1, <1>3, <1>6, <1>7, <1>8 DEF TwoRings

\* Unlinking a request from one of them leaves the other alone.
LEMMA TwoRingsRemove ==
    ASSUME NEW z \in Sentinels, NEW y \in Sentinels, z # y,
           NEW f, NEW b, NEW s, NEW t, TwoRings(f, b, z, s, y, t),
           NEW k \in 1 .. Len(s),
           NEW f1, f1 = [f EXCEPT ![b[s[k]]] = f[s[k]]],
           NEW b1, b1 = [b EXCEPT ![f[s[k]]] = b[s[k]]]
    PROVE  TwoRings(f1, b1, z, RemoveAt(s, k), y, t)
<1>1. /\ f \in [Nodes -> Nodes \cup {Null}] /\ b \in [Nodes -> Nodes \cup {Null}]
      /\ s \in Seq(Requests) /\ t \in Seq(Requests)
      /\ IsInjective(s) /\ IsInjective(t)
      /\ Range(s) \cap Range(t) = {}
      /\ Ring(f, b, z, s) /\ Ring(f, b, y, t)
  BY DEF TwoRings
<1>2. /\ z \notin Requests /\ y \notin Requests /\ {z} \cup Requests \subseteq Nodes
      /\ y \in Nodes
  BY ListsAssumption DEF Sentinels, Nodes
<1>3. /\ RemoveAt(s, k) \in Seq(Requests) /\ Range(RemoveAt(s, k)) \subseteq Range(s)
      /\ IsInjective(RemoveAt(s, k))
  BY <1>1, RemoveAtRange, RemoveAtInjective
<1>4. b[s[k]] \in {z} \cup Range(s) /\ f[s[k]] \in {z} \cup Range(s) /\ s[k] \in Requests
  <2>1. /\ k \in 0 .. Len(s) /\ k - 1 \in 0 .. Len(s) /\ k - 1 + 1 = k
        /\ k - 1 \in 0 .. Len(s) + 1 /\ k + 1 \in 0 .. Len(s) + 1
    BY <1>1
  <2>2. f[Node(z, s, k)] = Node(z, s, k + 1) /\ b[Node(z, s, k - 1 + 1)] = Node(z, s, k - 1)
    BY <1>1, <2>1 DEF Ring
  <2>3. /\ Node(z, s, k) = s[k] /\ Node(z, s, k - 1) \in {z} \cup Range(s)
        /\ Node(z, s, k + 1) \in {z} \cup Range(s)
    BY <1>1, <1>2, <2>1, NodeProperties
  <2> QED  BY <1>1, <2>1, <2>2, <2>3
<1>5. Range(s) \subseteq Requests /\ Range(t) \subseteq Requests
  BY <1>1 DEF Range
<1>6. f1 \in [Nodes -> Nodes \cup {Null}] /\ b1 \in [Nodes -> Nodes \cup {Null}]
  BY <1>1, <1>2, <1>4, <1>5
<1>7. Ring(f1, b1, z, RemoveAt(s, k))
  <2>1. DOMAIN f = Nodes /\ DOMAIN b = Nodes
    BY <1>1
  <2> QED  BY <1>1, <1>2, <2>1, RingRemove
<1>8. Ring(f1, b1, y, t)
  <2>1. \A n \in {y} \cup Range(t) : f1[n] = f[n] /\ b1[n] = b[n]
    BY <1>1, <1>2, <1>4, <1>5
  <2>2. y \notin Requests /\ t \in Seq(Requests) /\ Ring(f, b, y, t)
    BY <1>1, <1>2
  <2>3. ASSUME NEW g, NEW h, \A n \in {y} \cup Range(t) : g[n] = f[n] /\ h[n] = b[n]
        PROVE  Ring(g, h, y, t)
    BY <2>2, <2>3, RingOther
  <2> QED  BY <2>1, <2>3, Zenon
<1> QED  BY <1>1, <1>3, <1>6, <1>7, <1>8 DEF TwoRings

\* Clearing the pointers of a request in neither of them.
LEMMA TwoRingsClear ==
    ASSUME NEW z \in Sentinels, NEW y \in Sentinels,
           NEW f, NEW b, NEW s, NEW t, TwoRings(f, b, z, s, y, t),
           NEW r \in Requests, r \notin Range(s) \cup Range(t),
           NEW f1, f1 = [f EXCEPT ![r] = Null],
           NEW b1, b1 = [b EXCEPT ![r] = Null]
    PROVE  TwoRings(f1, b1, z, s, y, t)
<1>1. /\ f \in [Nodes -> Nodes \cup {Null}] /\ b \in [Nodes -> Nodes \cup {Null}]
      /\ s \in Seq(Requests) /\ t \in Seq(Requests)
      /\ IsInjective(s) /\ IsInjective(t)
      /\ Range(s) \cap Range(t) = {}
      /\ Ring(f, b, z, s) /\ Ring(f, b, y, t)
  BY DEF TwoRings
<1>2. /\ z \notin Requests /\ y \notin Requests
      /\ {z, y} \cup Requests \subseteq Nodes
  BY ListsAssumption DEF Sentinels, Nodes
<1>3. Range(s) \subseteq Requests /\ Range(t) \subseteq Requests
  BY <1>1 DEF Range
<1>4. \A n \in {z, y} \cup Range(s) \cup Range(t) : f1[n] = f[n] /\ b1[n] = b[n]
  BY <1>1, <1>2, <1>3
<1>5. Ring(f1, b1, z, s)
  BY <1>1, <1>2, <1>4, RingOther
<1>6. Ring(f1, b1, y, t)
  BY <1>1, <1>2, <1>4, RingOther
<1>7. f1 \in [Nodes -> Nodes \cup {Null}] /\ b1 \in [Nodes -> Nodes \cup {Null}]
  BY <1>1
<1> QED  BY <1>1, <1>5, <1>6, <1>7 DEF TwoRings

(* The request queue and the prefetch queue *)

ListsInv == ListsTypeOK /\ ListsIntact

Rings(f, b, s, t) == TwoRings(f, b, queue_sentinel, s, prefetch_sentinel, t)

\* What the invariant says of the two queues.
LEMMA ListsRings ==
    ASSUME ListsInv
    PROVE  /\ Rings(next, prev, Queue, PrefetchQueue)
           /\ Queue \in Seq(Requests) /\ PrefetchQueue \in Seq(Requests)
           /\ Len(Queue) = queue_size /\ Len(PrefetchQueue) = prefetch_size
           /\ \A r \in Requests : /\ r \in Range(Queue) <=> where[r] = "queue"
                                  /\ r \in Range(PrefetchQueue) <=> where[r] = "prefetch_queue"
<1>1. /\ Range(Queue) = At("queue") /\ Range(PrefetchQueue) = At("prefetch_queue")
      /\ IsInjective(Queue) /\ IsInjective(PrefetchQueue)
      /\ Ring(next, prev, queue_sentinel, Queue)
      /\ Ring(next, prev, prefetch_sentinel, PrefetchQueue)
      /\ next \in [Nodes -> Nodes \cup {Null}] /\ prev \in [Nodes -> Nodes \cup {Null}]
      /\ queue_size \in Nat /\ prefetch_size \in Nat
  BY DEF ListsInv, ListsTypeOK, ListsIntact
<1>2. \A r \in Requests : /\ r \in Range(Queue) <=> where[r] = "queue"
                          /\ r \in Range(PrefetchQueue) <=> where[r] = "prefetch_queue"
  BY <1>1 DEF At
<1>3. Range(Queue) \subseteq Requests /\ Range(PrefetchQueue) \subseteq Requests
  BY <1>1 DEF At
<1>4. Queue \in Seq(Requests) /\ Len(Queue) = queue_size
  BY <1>1, <1>3, WalkIsSequence DEF Queue
<1>5. PrefetchQueue \in Seq(Requests) /\ Len(PrefetchQueue) = prefetch_size
  BY <1>1, <1>3, WalkIsSequence DEF PrefetchQueue
<1>6. Range(Queue) \cap Range(PrefetchQueue) = {}
  BY <1>2, <1>3
<1> QED  BY <1>1, <1>2, <1>4, <1>5, <1>6 DEF Rings, TwoRings

\* What has to be shown of a step, with the queues it leads to given.
LEMMA ListsAfter ==
    ASSUME NEW s, NEW t, Rings(next', prev', s, t),
           queue_size' = Len(s), prefetch_size' = Len(t),
           where' \in [Requests -> Places],
           \A r \in Requests : /\ r \in Range(s) <=> where'[r] = "queue"
                               /\ r \in Range(t) <=> where'[r] = "prefetch_queue",
           req' \in Requests \cup {Null},
           req' # Null => where'[req'] = "queue"
    PROVE  ListsInv' /\ Queue' = s /\ PrefetchQueue' = t
<1>1. queue_sentinel \in Sentinels /\ prefetch_sentinel \in Sentinels
  BY DEF Sentinels
<1>2. /\ s \in Seq(Requests) /\ t \in Seq(Requests)
      /\ IsInjective(s) /\ IsInjective(t)
      /\ next' \in [Nodes -> Nodes \cup {Null}] /\ prev' \in [Nodes -> Nodes \cup {Null}]
      /\ Ring(next', prev', queue_sentinel, s)
      /\ Ring(next', prev', prefetch_sentinel, t)
  BY DEF Rings, TwoRings
<1>3. /\ Walk(next', next'[queue_sentinel], Len(s)) = s
      /\ Walk(next', next'[prefetch_sentinel], Len(t)) = t
  BY <1>1, TwoWalks DEF Rings
<1>4. Queue' = s /\ PrefetchQueue' = t
  BY <1>3 DEF Queue, PrefetchQueue
<1>5. Range(s) = At("queue")' /\ Range(t) = At("prefetch_queue")'
  <2>1. Range(s) \subseteq Requests /\ Range(t) \subseteq Requests
    BY <1>2 DEF Range
  <2> QED  BY <2>1 DEF At
<1>6. ListsTypeOK'
  <2>1. Len(s) \in Nat /\ Len(t) \in Nat
    BY <1>2
  <2> QED  BY <1>2, <2>1 DEF ListsTypeOK
<1>7. ListsIntact'
  BY <1>2, <1>4, <1>5 DEF ListsIntact
<1> QED  BY <1>4, <1>6, <1>7 DEF ListsInv

\* The head of the queue, and what comes after a request of it.
LEMMA QueueEnds ==
    ASSUME ListsInv
    PROVE  /\ q_first # Null => queue_size > 0 /\ q_first = Queue[1]
           /\ q_first = Null => queue_size = 0
           /\ \A k \in 1 .. queue_size :
                 q_nextOf(Queue[k]) = IF k = queue_size THEN Null ELSE Queue[k + 1]
<1>1. /\ Ring(next, prev, queue_sentinel, Queue) /\ Queue \in Seq(Requests)
      /\ Len(Queue) = queue_size /\ queue_size \in Nat
  BY ListsRings DEF Rings, TwoRings
<1>2. queue_sentinel \notin Requests /\ Null \notin Requests
  BY ListsAssumption
<1>3. /\ \A i \in 1 .. queue_size : Node(queue_sentinel, Queue, i) = Queue[i]
      /\ Node(queue_sentinel, Queue, 0) = queue_sentinel
      /\ Node(queue_sentinel, Queue, queue_size + 1) = queue_sentinel
  BY <1>1, <1>2, NodeProperties
<1>4. \A i \in 1 .. queue_size : Queue[i] \in Requests
  BY <1>1
<1>5. \A i \in 0 .. queue_size :
         next[Node(queue_sentinel, Queue, i)] = Node(queue_sentinel, Queue, i + 1)
  BY <1>1 DEF Ring
<1>6. next[queue_sentinel] = Node(queue_sentinel, Queue, 1)
  <2>1. 0 \in 0 .. queue_size  BY <1>1
  <2> QED  BY <1>3, <1>5, <2>1
<1>7. CASE queue_size = 0
  BY <1>3, <1>6, <1>7 DEF q_first
<1>8. CASE queue_size > 0
  <2>1. 1 \in 1 .. queue_size  BY <1>1, <1>8
  <2>2. q_first = Queue[1] /\ q_first # Null
    BY <1>2, <1>3, <1>4, <1>6, <2>1 DEF q_first
  <2>3. ASSUME NEW k \in 1 .. queue_size
        PROVE  q_nextOf(Queue[k]) = IF k = queue_size THEN Null ELSE Queue[k + 1]
    <3>1. next[Queue[k]] = Node(queue_sentinel, Queue, k + 1)
      <4>1. k \in 0 .. queue_size  BY <1>1
      <4> QED  BY <1>3, <1>5, <4>1
    <3>2. CASE k = queue_size
      BY <1>3, <3>1, <3>2 DEF q_nextOf
    <3>3. CASE k # queue_size
      <4>1. k + 1 \in 1 .. queue_size  BY <1>1, <3>3
      <4> QED  BY <1>2, <1>3, <1>4, <3>1, <3>3, <4>1 DEF q_nextOf
    <3> QED  BY <3>2, <3>3
  <2> QED  BY <1>8, <2>2, <2>3
<1> QED  BY <1>1, <1>7, <1>8

\* The head of the prefetch queue.
LEMMA PrefetchFirst ==
    ASSUME ListsInv, p_first # Null
    PROVE  prefetch_size > 0 /\ p_first = PrefetchQueue[1]
<1>1. /\ Ring(next, prev, prefetch_sentinel, PrefetchQueue) /\ PrefetchQueue \in Seq(Requests)
      /\ Len(PrefetchQueue) = prefetch_size /\ prefetch_size \in Nat
  BY ListsRings DEF Rings, TwoRings
<1>2. prefetch_sentinel \notin Requests /\ Null \notin Requests
  BY ListsAssumption
<1>3. /\ \A i \in 1 .. prefetch_size : Node(prefetch_sentinel, PrefetchQueue, i) = PrefetchQueue[i]
      /\ Node(prefetch_sentinel, PrefetchQueue, 0) = prefetch_sentinel
      /\ Node(prefetch_sentinel, PrefetchQueue, prefetch_size + 1) = prefetch_sentinel
  BY <1>1, <1>2, NodeProperties
<1>4. next[prefetch_sentinel] = Node(prefetch_sentinel, PrefetchQueue, 1)
  <2>1. 0 \in 0 .. prefetch_size /\ 0 + 1 = 1  BY <1>1
  <2> QED  BY <1>1, <1>3, <2>1 DEF Ring
<1>5. prefetch_size # 0
  BY <1>3, <1>4 DEF p_first
<1>6. 1 \in 1 .. prefetch_size /\ prefetch_size > 0
  BY <1>1, <1>5
<1>7. p_first = next[prefetch_sentinel]
  BY DEF p_first
<1> QED  BY <1>3, <1>4, <1>6, <1>7

\* Putting a request in, and taking one out, as the sequences show it.
LEMMA PutKeepsLists ==
    ASSUME ListsInv, NEW r \in Requests, queue_putRequest(r)
    PROVE  ListsInv' /\ Queues!Put(r)
<1>1. /\ Rings(next, prev, Queue, PrefetchQueue)
      /\ Queue \in Seq(Requests) /\ Len(Queue) = queue_size
      /\ Len(PrefetchQueue) = prefetch_size
      /\ \A q \in Requests : /\ q \in Range(Queue) <=> where[q] = "queue"
                             /\ q \in Range(PrefetchQueue) <=> where[q] = "prefetch_queue"
  BY ListsRings
<1>2. /\ where[r] = "dispatch_thread" /\ req = Null /\ req' = Null
      /\ LinkLast(queue_sentinel, r)
      /\ queue_size' = queue_size + 1 /\ prefetch_size' = prefetch_size
      /\ where' = [where EXCEPT ![r] = "queue"]
  BY DEF queue_putRequest, q_add, Goes
<1>3. where \in [Requests -> Places]
  BY DEF ListsInv, ListsTypeOK
<1>4. Rings(next', prev', Append(Queue, r), PrefetchQueue)
  <2>1. r \notin Range(Queue) \cup Range(PrefetchQueue)
    BY <1>1, <1>2
  <2>2. /\ queue_sentinel \in Sentinels /\ prefetch_sentinel \in Sentinels
        /\ queue_sentinel # prefetch_sentinel
    BY ListsAssumption DEF Sentinels
  <2> QED  BY <1>1, <1>2, <2>1, <2>2, TwoRingsAppend DEF Rings, LinkLast
<1>5. Len(Append(Queue, r)) = Len(Queue) + 1
      /\ Range(Append(Queue, r)) = Range(Queue) \cup {r}
  BY <1>1, AppendRange
<1>6. \A q \in Requests :
         /\ q \in Range(Append(Queue, r)) <=> where'[q] = "queue"
         /\ q \in Range(PrefetchQueue) <=> where'[q] = "prefetch_queue"
  BY <1>1, <1>2, <1>3, <1>5
<1>7. where' \in [Requests -> Places]
  BY <1>2, <1>3 DEF Places
<1>8. ListsInv' /\ Queue' = Append(Queue, r) /\ PrefetchQueue' = PrefetchQueue
  BY <1>1, <1>2, <1>4, <1>5, <1>6, <1>7, ListsAfter
<1> QED  BY <1>2, <1>8 DEF Queues!Put, Queues!Goes

\* A request goes from the queue to a worker.
LEMMA GetKeepsLists ==
    ASSUME ListsInv, NEW k \in 1 .. queue_size, Return(Queue[k])
    PROVE  ListsInv' /\ Queues!Get(k)
<1> DEFINE r == Queue[k]
<1>1. /\ Rings(next, prev, Queue, PrefetchQueue)
      /\ Queue \in Seq(Requests) /\ Len(Queue) = queue_size
      /\ Len(PrefetchQueue) = prefetch_size
      /\ \A q \in Requests : /\ q \in Range(Queue) <=> where[q] = "queue"
                             /\ q \in Range(PrefetchQueue) <=> where[q] = "prefetch_queue"
  BY ListsRings
<1>2. /\ req' = Null
      /\ Unlink(r)
      /\ queue_size' = queue_size - 1 /\ prefetch_size' = prefetch_size
      /\ where' = [where EXCEPT ![r] = "worker_thread"]
  BY DEF Return, q_remove, Goes
<1>3. where \in [Requests -> Places] /\ IsInjective(Queue)
  BY DEF ListsInv, ListsTypeOK, ListsIntact
<1>4. r \in Requests /\ r \in Range(Queue) /\ k \in 1 .. Len(Queue)
  BY <1>1 DEF Range
<1>5. Rings(next', prev', RemoveAt(Queue, k), PrefetchQueue)
  <2>1. /\ queue_sentinel \in Sentinels /\ prefetch_sentinel \in Sentinels
        /\ queue_sentinel # prefetch_sentinel
    BY ListsAssumption DEF Sentinels
  <2> QED  BY <1>1, <1>2, <1>4, <2>1, TwoRingsRemove DEF Rings, Unlink
<1>6. Len(RemoveAt(Queue, k)) = Len(Queue) - 1
      /\ Range(RemoveAt(Queue, k)) = Range(Queue) \ {r}
  BY <1>1, <1>3, <1>4, RemoveAtProperties, RemoveAtInjective
<1>7. where[r] = "queue"
  BY <1>1, <1>4
<1> HIDE DEF r
<1>8. \A q \in Requests :
         /\ q \in Range(RemoveAt(Queue, k)) <=> where'[q] = "queue"
         /\ q \in Range(PrefetchQueue) <=> where'[q] = "prefetch_queue"
  BY <1>1, <1>2, <1>3, <1>4, <1>6, <1>7
<1>9. where' \in [Requests -> Places]
  BY <1>2, <1>3 DEF Places
<1>10. ListsInv' /\ Queue' = RemoveAt(Queue, k) /\ PrefetchQueue' = PrefetchQueue
  BY <1>1, <1>2, <1>5, <1>6, <1>8, <1>9, ListsAfter
<1>11. where[Queue[k]] = "queue" /\ where' = [where EXCEPT ![Queue[k]] = "worker_thread"]
  BY <1>2, <1>7 DEF r
<1> QED  BY <1>10, <1>11 DEF Queues!Get, Queues!Goes, Queues!RemoveAt, RemoveAt

\* A request goes from a worker to the prefetch queue.
LEMMA PutPrefetchKeepsLists ==
    ASSUME ListsInv, NEW r \in Requests, prefetch_putRequest(r)
    PROVE  ListsInv' /\ Queues!PutPrefetch(r)
<1>1. /\ Rings(next, prev, Queue, PrefetchQueue)
      /\ PrefetchQueue \in Seq(Requests) /\ Len(Queue) = queue_size
      /\ Len(PrefetchQueue) = prefetch_size
      /\ \A q \in Requests : /\ q \in Range(Queue) <=> where[q] = "queue"
                             /\ q \in Range(PrefetchQueue) <=> where[q] = "prefetch_queue"
  BY ListsRings
<1>2. /\ where[r] = "worker_thread" /\ req' = req
      /\ LinkLast(prefetch_sentinel, r)
      /\ queue_size' = queue_size /\ prefetch_size' = prefetch_size + 1
      /\ where' = [where EXCEPT ![r] = "prefetch_queue"]
  BY DEF prefetch_putRequest, p_add, Goes
<1>3. /\ where \in [Requests -> Places] /\ req \in Requests \cup {Null}
      /\ req # Null => where[req] = "queue"
  BY DEF ListsInv, ListsTypeOK, ListsIntact
<1>4. Rings(next', prev', Queue, Append(PrefetchQueue, r))
  <2>1. r \notin Range(PrefetchQueue) \cup Range(Queue)
    BY <1>1, <1>2
  <2>2. /\ queue_sentinel \in Sentinels /\ prefetch_sentinel \in Sentinels
        /\ queue_sentinel # prefetch_sentinel
    BY ListsAssumption DEF Sentinels
  <2>3. TwoRings(next, prev, prefetch_sentinel, PrefetchQueue, queue_sentinel, Queue)
    BY <1>1 DEF Rings, TwoRings
  <2>4. TwoRings(next', prev', prefetch_sentinel, Append(PrefetchQueue, r),
                 queue_sentinel, Queue)
    BY <1>2, <2>1, <2>2, <2>3, TwoRingsAppend DEF LinkLast
  <2> QED  BY <2>4 DEF Rings, TwoRings
<1>5. Len(Append(PrefetchQueue, r)) = Len(PrefetchQueue) + 1
      /\ Range(Append(PrefetchQueue, r)) = Range(PrefetchQueue) \cup {r}
  BY <1>1, AppendRange
<1>6. \A q \in Requests :
         /\ q \in Range(Queue) <=> where'[q] = "queue"
         /\ q \in Range(Append(PrefetchQueue, r)) <=> where'[q] = "prefetch_queue"
  BY <1>1, <1>2, <1>3, <1>5
<1>7. where' \in [Requests -> Places] /\ (req' # Null => where'[req'] = "queue")
  BY <1>2, <1>3, ListsAssumption DEF Places
<1>8. ListsInv' /\ PrefetchQueue' = Append(PrefetchQueue, r) /\ Queue' = Queue
  BY <1>1, <1>2, <1>3, <1>4, <1>5, <1>6, <1>7, ListsAfter
<1> QED  BY <1>2, <1>8 DEF Queues!PutPrefetch, Queues!Goes

\* A request goes from the prefetch queue to a prefetch thread.
LEMMA GetPrefetchKeepsLists ==
    ASSUME ListsInv, prefetch_getRequest
    PROVE  ListsInv' /\ Queues!GetPrefetch
<1> DEFINE r == PrefetchQueue[1]
<1>1. /\ Rings(next, prev, Queue, PrefetchQueue)
      /\ PrefetchQueue \in Seq(Requests) /\ Len(Queue) = queue_size
      /\ Len(PrefetchQueue) = prefetch_size
      /\ \A q \in Requests : /\ q \in Range(Queue) <=> where[q] = "queue"
                             /\ q \in Range(PrefetchQueue) <=> where[q] = "prefetch_queue"
  BY ListsRings
<1>2. prefetch_size > 0 /\ p_first = r
  BY PrefetchFirst DEF prefetch_getRequest
<1>3. /\ req' = req
      /\ Unlink(r)
      /\ queue_size' = queue_size /\ prefetch_size' = prefetch_size - 1
      /\ where' = [where EXCEPT ![r] = "prefetch_thread"]
  BY <1>2 DEF prefetch_getRequest, p_remove, Goes
<1>4. /\ where \in [Requests -> Places] /\ req \in Requests \cup {Null}
      /\ req # Null => where[req] = "queue"
      /\ prefetch_size \in Nat /\ IsInjective(PrefetchQueue)
  BY DEF ListsInv, ListsTypeOK, ListsIntact
<1>5. 1 \in 1 .. Len(PrefetchQueue)
  BY <1>1, <1>2, <1>4
<1>6. r \in Requests /\ r \in Range(PrefetchQueue)
  BY <1>1, <1>5 DEF Range
<1>7. Rings(next', prev', Queue, RemoveAt(PrefetchQueue, 1))
  <2>1. /\ queue_sentinel \in Sentinels /\ prefetch_sentinel \in Sentinels
        /\ queue_sentinel # prefetch_sentinel
    BY ListsAssumption DEF Sentinels
  <2>2. TwoRings(next, prev, prefetch_sentinel, PrefetchQueue, queue_sentinel, Queue)
    BY <1>1 DEF Rings, TwoRings
  <2>3. TwoRings(next', prev', prefetch_sentinel, RemoveAt(PrefetchQueue, 1),
                 queue_sentinel, Queue)
    BY <1>3, <1>5, <2>1, <2>2, TwoRingsRemove DEF Unlink
  <2> QED  BY <2>3 DEF Rings, TwoRings
<1>8. Len(RemoveAt(PrefetchQueue, 1)) = Len(PrefetchQueue) - 1
      /\ Range(RemoveAt(PrefetchQueue, 1)) = Range(PrefetchQueue) \ {r}
  BY <1>1, <1>4, <1>5, RemoveAtProperties, RemoveAtInjective
<1>9. where[r] = "prefetch_queue"
  BY <1>1, <1>6
<1>10. /\ Tail(PrefetchQueue) = RemoveAt(PrefetchQueue, 1) /\ Head(PrefetchQueue) = r
       /\ PrefetchQueue # <<>>
  <2>1. PrefetchQueue # <<>>
    BY <1>1, <1>2
  <2> QED  BY <1>1, <2>1, TailIsRemoveAt
<1> HIDE DEF r
<1>11. \A q \in Requests :
          /\ q \in Range(Queue) <=> where'[q] = "queue"
          /\ q \in Range(RemoveAt(PrefetchQueue, 1)) <=> where'[q] = "prefetch_queue"
  BY <1>1, <1>3, <1>4, <1>6, <1>8, <1>9
<1>12. where' \in [Requests -> Places] /\ (req' # Null => where'[req'] = "queue")
  BY <1>3, <1>4, <1>9, ListsAssumption DEF Places
<1>13. ListsInv' /\ Queue' = Queue /\ PrefetchQueue' = RemoveAt(PrefetchQueue, 1)
  BY <1>1, <1>3, <1>4, <1>7, <1>8, <1>11, <1>12, ListsAfter
<1> QED  BY <1>3, <1>9, <1>10, <1>13 DEF Queues!GetPrefetch, Queues!Goes

\* A request is allocated or freed, while it is in neither queue.
LEMMA ClearKeepsLists ==
    ASSUME ListsInv, NEW r \in Requests, createRequest(r) \/ destroyRequest(r)
    PROVE  ListsInv' /\ (Queues!Create(r) \/ Queues!Destroy(r))
<1>1. /\ Rings(next, prev, Queue, PrefetchQueue)
      /\ Len(Queue) = queue_size /\ Len(PrefetchQueue) = prefetch_size
      /\ \A q \in Requests : /\ q \in Range(Queue) <=> where[q] = "queue"
                             /\ q \in Range(PrefetchQueue) <=> where[q] = "prefetch_queue"
  BY ListsRings
<1>2. /\ where \in [Requests -> Places] /\ req \in Requests \cup {Null}
      /\ req # Null => where[req] = "queue"
  BY DEF ListsInv, ListsTypeOK, ListsIntact
<1>3. PICK p \in {"dispatch_thread", "unallocated"} : where' = [where EXCEPT ![r] = p]
  BY DEF createRequest, destroyRequest, Goes
<1>4. /\ where[r] # "queue" /\ where[r] # "prefetch_queue"
      /\ next' = [next EXCEPT ![r] = Null] /\ prev' = [prev EXCEPT ![r] = Null]
      /\ queue_size' = queue_size /\ prefetch_size' = prefetch_size /\ req' = req
  BY DEF createRequest, destroyRequest
<1>5. Rings(next', prev', Queue, PrefetchQueue)
  <2>1. r \notin Range(Queue) \cup Range(PrefetchQueue)
    BY <1>1, <1>4
  <2>2. queue_sentinel \in Sentinels /\ prefetch_sentinel \in Sentinels
    BY DEF Sentinels
  <2> QED  BY <1>1, <1>4, <2>1, <2>2, TwoRingsClear DEF Rings
<1>6. \A q \in Requests :
         /\ q \in Range(Queue) <=> where'[q] = "queue"
         /\ q \in Range(PrefetchQueue) <=> where'[q] = "prefetch_queue"
  BY <1>1, <1>2, <1>3, <1>4
<1>7. where' \in [Requests -> Places] /\ (req' # Null => where'[req'] = "queue")
  BY <1>2, <1>3, <1>4, ListsAssumption DEF Places
<1>8. ListsInv' /\ Queue' = Queue /\ PrefetchQueue' = PrefetchQueue
  BY <1>1, <1>2, <1>4, <1>5, <1>6, <1>7, ListsAfter
<1>9. CASE createRequest(r)
  BY <1>8, <1>9 DEF createRequest, Goes, Queues!Create, Queues!Goes
<1>10. CASE destroyRequest(r)
  BY <1>8, <1>10 DEF destroyRequest, Goes, Queues!Destroy, Queues!Goes
<1> QED  BY <1>8, <1>9, <1>10

\* The invariant holds at first, with both queues empty.
LEMMA ListsStart ==
    ASSUME ListsInit
    PROVE  ListsInv /\ Queue = <<>> /\ PrefetchQueue = <<>>
<1>1. /\ next \in [Nodes -> Nodes \cup {Null}] /\ prev \in [Nodes -> Nodes \cup {Null}]
      /\ \A z \in Sentinels : next[z] = z /\ prev[z] = z
  BY ListsAssumption DEF ListsInit, Nodes, Sentinels
<1>2. ASSUME NEW z \in Sentinels
      PROVE  Ring(next, prev, z, <<>>) /\ Walk(next, next[z], 0) = <<>>
  <2>1. Len(<<>>) = 0 /\ \A i \in 0 .. 0 : i = 0
    OBVIOUS
  <2>2. \A i \in {0, 1} : Node(z, <<>>, i) = z
    BY DEF Node
  <2>3. Ring(next, prev, z, <<>>)
    BY <1>1, <2>1, <2>2 DEF Ring
  <2>4. <<>> \in Seq(Requests) /\ 0 \in Nat /\ Null \notin Requests
    BY ListsAssumption
  <2>5. ASSUME NEW s \in Seq(Requests), Ring(next, prev, z, s)
        PROVE  Walk(next, next[z], Len(s)) = s
    <3>1. Len(s) \in Nat /\ Null \notin Requests
      BY <2>4
    <3> QED  BY <2>5, <3>1, RingWalk
  <2>6. Walk(next, next[z], Len(<<>>)) = <<>>
    BY <2>3, <2>4, <2>5
  <2> QED  BY <2>1, <2>3, <2>6
<1>3. queue_size = 0 /\ prefetch_size = 0 /\ req = Null
      /\ where = [r \in Requests |-> "unallocated"]
  BY DEF ListsInit
<1>4. Queue = <<>> /\ PrefetchQueue = <<>>
  BY <1>2, <1>3 DEF Queue, PrefetchQueue, Sentinels
<1>5. ListsTypeOK
  BY <1>1, <1>3 DEF ListsTypeOK, Places
<1>6. At("queue") = {} /\ At("prefetch_queue") = {}
  BY <1>3 DEF At
<1>7. Range(<<>>) = {} /\ IsInjective(<<>>)
  BY DEF Range, IsInjective
<1>8. ListsIntact
  <2>1. Ring(next, prev, queue_sentinel, <<>>) /\ Ring(next, prev, prefetch_sentinel, <<>>)
    BY <1>2 DEF Sentinels
  <2> QED  BY <1>3, <1>4, <1>6, <1>7, <2>1 DEF ListsIntact
<1> QED  BY <1>4, <1>5, <1>8 DEF ListsInv

\* Every step keeps the invariant, and is a step of the sequences or leaves them.
LEMMA ListsStep ==
    ASSUME ListsInv, [ListsNext]_listVars
    PROVE  /\ ListsInv'
           /\ \/ Queues!Next
              \/ UNCHANGED <<Queue, PrefetchQueue, where>>
<1>0. /\ Queue \in Seq(Requests) /\ Len(Queue) = queue_size /\ queue_size \in Nat
      /\ DOMAIN Queue = 1 .. queue_size
      /\ \A r \in Requests : r \in Range(Queue) <=> where[r] = "queue"
      /\ req \in Requests \cup {Null} /\ (req # Null => where[req] = "queue")
  <2>1. /\ Queue \in Seq(Requests) /\ Len(Queue) = queue_size
        /\ \A r \in Requests : r \in Range(Queue) <=> where[r] = "queue"
    BY ListsRings
  <2> QED  BY <2>1 DEF ListsInv, ListsTypeOK, ListsIntact
<1>1. ASSUME NEW r \in Requests, createRequest(r) \/ destroyRequest(r)
      PROVE  ListsInv' /\ Queues!Next
  BY <1>1, ClearKeepsLists DEF Queues!Next
<1>2. ASSUME NEW r \in Requests, queue_putRequest(r)
      PROVE  ListsInv' /\ Queues!Next
  BY <1>2, PutKeepsLists DEF Queues!Next
<1>3. ASSUME NEW r \in Requests, prefetch_putRequest(r)
      PROVE  ListsInv' /\ Queues!Next
  BY <1>3, PutPrefetchKeepsLists DEF Queues!Next
<1>4. ASSUME prefetch_getRequest
      PROVE  ListsInv' /\ Queues!Next
  BY <1>4, GetPrefetchKeepsLists DEF Queues!Next
<1>5. ASSUME NEW k \in 1 .. queue_size, Return(Queue[k])
      PROVE  ListsInv' /\ Queues!Next
  <2>1. ListsInv' /\ Queues!Get(k)
    BY <1>5, GetKeepsLists
  <2> QED  BY <1>0, <2>1 DEF Queues!Next
<1>6. ASSUME q_first # Null
      PROVE  1 \in 1 .. queue_size /\ q_first = Queue[1]
  BY <1>0, <1>6, QueueEnds
<1>7. CASE queue_getRequest
  BY <1>5, <1>6, <1>7 DEF queue_getRequest
<1>8. ASSUME req # Null
      PROVE  \E k \in 1 .. queue_size : req = Queue[k]
  <2>1. req \in Range(Queue)  BY <1>0, <1>8
  <2> QED  BY <1>0, <2>1 DEF Range
<1>9. ASSUME UNCHANGED <<next, prev, queue_size, prefetch_size, where>>
      PROVE  /\ UNCHANGED <<Queue, PrefetchQueue, where>>
             /\ req' \in Requests \cup {Null} /\ (req' # Null => where[req'] = "queue")
                   => ListsInv'
  <2>1. Queue' = Queue /\ PrefetchQueue' = PrefetchQueue
    BY <1>9 DEF Queue, PrefetchQueue
  <2>2. ListsTypeOK /\ req' \in Requests \cup {Null} => ListsTypeOK'
    BY <1>9 DEF ListsTypeOK
  <2>3. At("queue")' = At("queue") /\ At("prefetch_queue")' = At("prefetch_queue")
    BY <1>9 DEF At
  <2>4. ListsIntact /\ (req' # Null => where[req'] = "queue") => ListsIntact'
    BY <1>9, <2>1, <2>3 DEF ListsIntact
  <2> QED  BY <1>9, <2>1, <2>2, <2>4 DEF ListsInv
<1>10. CASE SearchFirst
  <2>1. /\ UNCHANGED <<next, prev, queue_size, prefetch_size, where>>
        /\ req' = Queue[1] /\ 1 \in 1 .. queue_size
    BY <1>6, <1>10 DEF SearchFirst
  <2>2. Queue[1] \in Requests /\ where[Queue[1]] = "queue"
    BY <1>0, <2>1 DEF Range
  <2> QED  BY <1>9, <2>1, <2>2
<1>11. CASE SearchHits
  BY <1>5, <1>8, <1>11 DEF SearchHits
<1>12. CASE SearchMisses
  <2>1. PICK k \in 1 .. queue_size : req = Queue[k]
    BY <1>8, <1>12 DEF SearchMisses
  <2>2. q_nextOf(req) = IF k = queue_size THEN Null ELSE Queue[k + 1]
    BY <2>1, QueueEnds
  <2>3. CASE q_nextOf(req) # Null
    <3>1. /\ UNCHANGED <<next, prev, queue_size, prefetch_size, where>>
          /\ req' = Queue[k + 1] /\ k + 1 \in 1 .. queue_size
      BY <1>0, <1>12, <2>2, <2>3 DEF SearchMisses
    <3>2. Queue[k + 1] \in Requests /\ where[Queue[k + 1]] = "queue"
      BY <1>0, <3>1 DEF Range
    <3> QED  BY <1>9, <3>1, <3>2
  <2>4. CASE q_nextOf(req) = Null
    <3>1. q_first # Null
      BY <1>0, <2>1, QueueEnds
    <3>2. Return(q_first)
      BY <1>12, <2>4 DEF SearchMisses
    <3> QED  BY <1>5, <1>6, <3>1, <3>2
  <2> QED  BY <2>3, <2>4
<1>13. CASE UNCHANGED listVars
  BY <1>0, <1>9, <1>13 DEF listVars
<1> QED
  BY <1>1, <1>2, <1>3, <1>4, <1>7, <1>10, <1>11, <1>12, <1>13 DEF ListsNext

\* Whatever the threads put in and take out, in whatever order, and wherever malloc puts
\* it: both lists stay rings of exactly the requests in them (the functions q_ and p_).
THEOREM ListsStayIntact == ListsSpec => [](ListsTypeOK /\ ListsIntact)
<1>1. ListsInit => ListsInv
  BY ListsStart
<1>2. ListsInv /\ [ListsNext]_listVars => ListsInv'
  BY ListsStep
<1>3. ListsInv => ListsTypeOK /\ ListsIntact
  BY DEF ListsInv
<1> QED  BY <1>1, <1>2, <1>3, PTL DEF ListsSpec

\* The pointers do what the sequences of RequestQueues do: what is put in last comes last,
\* and what is taken out leaves the others in their order.
THEOREM ListsImplementQueues == ListsSpec => ImplementsQueues
<1>1. ListsInit => Queues!Init
  BY ListsStart DEF ListsInit, Queues!Init
<1>2. ListsInv /\ [ListsNext]_listVars => [Queues!Next]_<<Queue, PrefetchQueue, where>>
  BY ListsStep
<1>3. ListsSpec => []ListsInv
  BY ListsStayIntact, PTL DEF ListsInv
<1> QED  BY <1>1, <1>2, <1>3, PTL DEF ListsSpec, ImplementsQueues, Queues!Spec

(* The search of getCachedRequest *)

\* With the cache between them, the lists do what they do on their own.
LEMMA ServerStepsAreLists == [ServerNext]_serverVars => [ListsNext]_listVars
<1> SUFFICES ASSUME ServerNext PROVE [ListsNext]_listVars
  BY DEF serverVars
<1> QED  BY DEF ServerNext, ListsNext

\* In the server too the lists of requests stay rings of the requests in them.
THEOREM ServerListsStayIntact == ServerSpec => []ListsIntact
<1>1. ServerInit => ListsInit
  BY DEF ServerInit
<1>2. ServerSpec => ListsSpec
  BY <1>1, ServerStepsAreLists, PTL DEF ServerSpec, ListsSpec
<1> QED  BY <1>2, ListsStayIntact, PTL

\* A search has come to a request of the queue, and none before it is cached.
SearchInv ==
    req # Null => \E k \in 1 .. queue_size :
                     Queue[k] = req /\ \A j \in 1 .. k - 1 : ~ Cached(Queue[j])

\* What the invariants say of the queue, in the terms of this proof.
LEMMA QueueFacts ==
    ASSUME ListsInv
    PROVE  /\ queue_size \in Nat /\ DOMAIN Queue = 1 .. queue_size
           /\ req \in Requests \cup {Null} /\ where \in [Requests -> Places]
           /\ \A k \in 1 .. queue_size : Queue[k] \in Requests /\ where[Queue[k]] = "queue"
           /\ \A j, k \in 1 .. queue_size : Queue[j] = Queue[k] => j = k
<1>1. /\ Queue \in Seq(Requests) /\ Len(Queue) = queue_size
      /\ \A r \in Requests : r \in Range(Queue) <=> where[r] = "queue"
  BY ListsRings
<1>2. /\ queue_size \in Nat /\ IsInjective(Queue) /\ where \in [Requests -> Places]
      /\ req \in Requests \cup {Null}
  BY DEF ListsInv, ListsTypeOK, ListsIntact
<1>3. DOMAIN Queue = 1 .. queue_size
  BY <1>1
<1>4. \A k \in 1 .. queue_size : Queue[k] \in Requests /\ where[Queue[k]] = "queue"
  BY <1>1, <1>3 DEF Range
<1>5. \A j, k \in 1 .. queue_size : Queue[j] = Queue[k] => j = k
  BY <1>2, <1>3 DEF IsInjective
<1> QED  BY <1>2, <1>3, <1>4, <1>5

\* A step that leaves the queue, its names and the cache leaves what is cached of it.
LEMMA SameNames ==
    ASSUME ListsInv, heap' = heap, Queue' = Queue, queue_size' = queue_size,
           filename' = Names, \A k \in 1 .. queue_size : where'[Queue[k]] = "queue"
    PROVE  \A k \in 1 .. queue_size : Cached(Queue[k])' <=> Cached(Queue[k])
<1> SUFFICES ASSUME NEW k \in 1 .. queue_size
             PROVE  Cached(Queue[k])' <=> Cached(Queue[k])
  OBVIOUS
<1>1. Queue[k] \in Requests
  BY QueueFacts
<1>2. filename'[Queue[k]] = filename[Queue[k]]
  BY <1>1 DEF Names
<1> QED  BY <1>2 DEF Cached, hash_search

\* The search stays where it is while only the prefetch queue and memory change.
LEMMA SearchWaits ==
    ASSUME ListsInv, SearchInv,
           \/ \E r \in Requests : createRequest(r) \/ destroyRequest(r) \/ prefetch_putRequest(r)
           \/ prefetch_getRequest,
           filename' = Names, heap' = heap
    PROVE  SearchInv'
<1> DEFINE Waits == /\ Queue' = Queue /\ queue_size' = queue_size /\ req' = req
                    /\ \A q \in Requests : where[q] = "queue" => where'[q] = "queue"
<1>1. Waits
  <2>1. ASSUME NEW r \in Requests, createRequest(r) \/ destroyRequest(r)
        PROVE  Waits
    <3>1. Queue' = Queue
      BY <2>1, ClearKeepsLists DEF Queues!Create, Queues!Destroy
    <3> QED  BY <2>1, <3>1, QueueFacts DEF createRequest, destroyRequest, Goes
  <2>2. ASSUME NEW r \in Requests, prefetch_putRequest(r)
        PROVE  Waits
    <3>1. Queue' = Queue
      BY <2>2, PutPrefetchKeepsLists DEF Queues!PutPrefetch
    <3> QED  BY <2>2, <3>1, QueueFacts DEF prefetch_putRequest, p_add, Goes
  <2>3. CASE prefetch_getRequest
    <3>1. Queue' = Queue /\ Queues!Goes(Head(PrefetchQueue), "prefetch_queue", "prefetch_thread")
      BY <2>3, GetPrefetchKeepsLists DEF Queues!GetPrefetch
    <3>2. queue_size' = queue_size /\ req' = req
      BY <2>3 DEF prefetch_getRequest
    <3> QED  BY <3>1, <3>2, QueueFacts DEF Queues!Goes
  <2> QED  BY <2>1, <2>2, <2>3
<1>2. \A k \in 1 .. queue_size : where'[Queue[k]] = "queue"
  BY <1>1, QueueFacts
<1>3. \A k \in 1 .. queue_size : Cached(Queue[k])' <=> Cached(Queue[k])
  BY <1>1, <1>2, SameNames
<1> SUFFICES ASSUME req' # Null
             PROVE  \E k \in 1 .. queue_size :
                       Queue[k] = req /\ \A j \in 1 .. k - 1 : ~ Cached(Queue[j])'
  BY <1>1 DEF SearchInv
<1>4. PICK k \in 1 .. queue_size : Queue[k] = req /\ \A j \in 1 .. k - 1 : ~ Cached(Queue[j])
  BY <1>1 DEF SearchInv
<1>5. \A j \in 1 .. k - 1 : j \in 1 .. queue_size
  BY QueueFacts
<1> QED  BY <1>3, <1>4, <1>5

\* A step of a search.
Searches == (SearchHits /\ Cached(req)) \/ (SearchMisses /\ ~ Cached(req))

\* What a search does next.
LEMMA SearchOutcomes ==
    ASSUME ListsInv, SearchInv, req # Null, Searches
    PROVE  \E k \in 1 .. queue_size :
              /\ Queue[k] = req /\ \A j \in 1 .. k - 1 : ~ Cached(Queue[j])
              /\ \/ Cached(Queue[k]) /\ Return(Queue[k])
                 \/ ~ Cached(Queue[k]) /\ k = queue_size /\ Return(Queue[1])
                 \/ /\ ~ Cached(Queue[k]) /\ k + 1 \in 1 .. queue_size
                    /\ req' = Queue[k + 1]
                    /\ UNCHANGED <<next, prev, queue_size, prefetch_size, where>>
<1>1. PICK k \in 1 .. queue_size : Queue[k] = req /\ \A j \in 1 .. k - 1 : ~ Cached(Queue[j])
  BY DEF SearchInv
<1>2. q_nextOf(req) = IF k = queue_size THEN Null ELSE Queue[k + 1]
  BY <1>1, QueueEnds
<1>3. queue_size \in Nat /\ Null \notin Requests
      /\ \A j \in 1 .. queue_size : Queue[j] \in Requests
  BY QueueFacts, ListsAssumption
<1>4. q_first = Queue[1]
  <2>1. queue_size # 0  BY <1>1, <1>3
  <2> QED  BY <2>1, QueueEnds
<1>5. CASE SearchHits /\ Cached(req)
  BY <1>1, <1>5 DEF SearchHits
<1>6. CASE SearchMisses /\ ~ Cached(req)
  <2>1. CASE k = queue_size
    BY <1>1, <1>2, <1>4, <1>6, <2>1 DEF SearchMisses
  <2>2. CASE k # queue_size
    <3>1. k + 1 \in 1 .. queue_size
      BY <1>1, <1>3, <2>2
    <3>2. q_nextOf(req) = Queue[k + 1] /\ q_nextOf(req) # Null
      BY <1>2, <1>3, <2>2, <3>1
    <3> QED  BY <1>1, <1>6, <3>1, <3>2 DEF SearchMisses
  <2> QED  BY <2>1, <2>2
<1> QED  BY <1>5, <1>6 DEF Searches

\* Every step of the server keeps what is known of a search.
LEMMA SearchStep ==
    ASSUME ListsInv, SearchInv, [ServerNext]_serverVars
    PROVE  SearchInv'
<1>1. ASSUME req' = Null PROVE SearchInv'
  BY <1>1 DEF SearchInv
<1>2. CASE /\ req = Null
           /\ \E fn \in Files, e \in Cells : Put(e, fn)
           /\ UNCHANGED <<listVars, filename>>
  BY <1>1, <1>2 DEF listVars
<1>3. CASE /\ ~fault /\ UNCHANGED vars /\ filename' = Names
           /\ \/ \E r \in Requests :
                    createRequest(r) \/ destroyRequest(r) \/ prefetch_putRequest(r)
              \/ prefetch_getRequest
  BY <1>3, SearchWaits DEF vars
<1>4. CASE \E r \in Requests : queue_putRequest(r)
  BY <1>1, <1>4 DEF queue_putRequest
<1>5. CASE SearchFirst /\ UNCHANGED vars
  <2>1. /\ UNCHANGED <<next, prev, queue_size, prefetch_size, where>>
        /\ req' = Queue[1] /\ 1 \in 1 .. queue_size
    BY <1>5, QueueEnds, QueueFacts DEF SearchFirst
  <2>2. Queue' = Queue /\ queue_size' = queue_size
    BY <2>1 DEF Queue
  <2>3. \A j \in 1 .. 1 - 1 : FALSE
    OBVIOUS
  <2> QED  BY <2>1, <2>2, <2>3 DEF SearchInv
<1>6. CASE queue_getRequest
  BY <1>1, <1>6 DEF queue_getRequest, Return
<1>7. CASE Searches /\ heap' = heap /\ filename' = Names
  <2>1. req # Null  BY <1>7 DEF Searches, SearchHits, SearchMisses
  <2>2. PICK k \in 1 .. queue_size :
              /\ Queue[k] = req /\ \A j \in 1 .. k - 1 : ~ Cached(Queue[j])
              /\ \/ Cached(Queue[k]) /\ Return(Queue[k])
                 \/ ~ Cached(Queue[k]) /\ k = queue_size /\ Return(Queue[1])
                 \/ /\ ~ Cached(Queue[k]) /\ k + 1 \in 1 .. queue_size
                    /\ req' = Queue[k + 1]
                    /\ UNCHANGED <<next, prev, queue_size, prefetch_size, where>>
    BY <1>7, <2>1, SearchOutcomes
  <2>3. CASE Return(Queue[k]) \/ Return(Queue[1])
    BY <1>1, <2>3 DEF Return
  <2>4. CASE /\ ~ Cached(Queue[k]) /\ k + 1 \in 1 .. queue_size
             /\ req' = Queue[k + 1]
             /\ UNCHANGED <<next, prev, queue_size, prefetch_size, where>>
    <3>1. Queue' = Queue /\ queue_size' = queue_size
      BY <2>4 DEF Queue
    <3>2. \A j \in 1 .. queue_size : where'[Queue[j]] = "queue"
      BY <2>4, QueueFacts
    <3>3. \A j \in 1 .. queue_size : Cached(Queue[j])' <=> Cached(Queue[j])
      BY <1>7, <3>1, <3>2, SameNames
    <3>4. \A j \in 1 .. k + 1 - 1 : j \in 1 .. queue_size /\ (j = k \/ j \in 1 .. k - 1)
      BY QueueFacts
    <3>5. \A j \in 1 .. k + 1 - 1 : ~ Cached(Queue[j])'
      BY <2>2, <2>4, <3>3, <3>4
    <3> QED  BY <2>4, <3>1, <3>5 DEF SearchInv
  <2> QED  BY <2>2, <2>3, <2>4
<1>8. CASE UNCHANGED serverVars
  <2>1. Queue' = Queue /\ queue_size' = queue_size /\ req' = req
    BY <1>8 DEF serverVars, listVars, Queue
  <2>2. heap' = heap /\ filename' = filename
    BY <1>8 DEF serverVars, vars
  <2> QED  BY <2>1, <2>2 DEF SearchInv, Cached, hash_search
<1>9. ASSUME ServerNext PROVE SearchInv'
  BY <1>2, <1>3, <1>4, <1>5, <1>6, <1>7, <1>9 DEF ServerNext, Lookup, Searches
<1> QED  BY <1>8, <1>9

\* getCachedRequest takes the first request whose name is in a bucket that is not empty,
\* or the oldest one: the prefetch threads' and dispatchers' steps during the search, which
\* holds queue_mutex and cache_mutex, change nothing that it has passed.
THEOREM SearchPicksFirstCached == ServerSpec => PicksFirstCached
<1> DEFINE Picks == \A i \in DOMAIN Queue :
                       req # Null /\ where'[Queue[i]] = "worker_thread" =>
                           LET cached == {k \in DOMAIN Queue : Cached(Queue[k])}
                           IN  i = IF cached = {} THEN 1 ELSE Min(cached)
<1>1. ASSUME ListsInv, SearchInv, [ServerNext]_serverVars
      PROVE  [Picks]_serverVars
  <2> SUFFICES ASSUME ServerNext, NEW i \in DOMAIN Queue,
                      req # Null, where'[Queue[i]] = "worker_thread"
               PROVE  LET cached == {k \in DOMAIN Queue : Cached(Queue[k])}
                      IN  i = IF cached = {} THEN 1 ELSE Min(cached)
    BY <1>1
  <2> DEFINE cached == {k \in DOMAIN Queue : Cached(Queue[k])}
  <2>1. /\ queue_size \in Nat /\ DOMAIN Queue = 1 .. queue_size /\ i \in 1 .. queue_size
        /\ Queue[i] \in Requests /\ where[Queue[i]] = "queue"
        /\ where \in [Requests -> Places]
        /\ \A k \in 1 .. queue_size : Queue[k] \in Requests /\ where[Queue[k]] = "queue"
        /\ \A j, k \in 1 .. queue_size : Queue[j] = Queue[k] => j = k
    BY <1>1, QueueFacts
  <2>2. where'[Queue[i]] # where[Queue[i]]
    BY <2>1
  <2>3. Searches
    <3>1. CASE \E r \in Requests : createRequest(r) \/ destroyRequest(r) \/ prefetch_putRequest(r)
      BY <2>1, <2>2, <3>1 DEF createRequest, destroyRequest, prefetch_putRequest, Goes
    <3>2. CASE prefetch_getRequest
      <4>1. Queues!Goes(Head(PrefetchQueue), "prefetch_queue", "prefetch_thread")
        BY <1>1, <3>2, GetPrefetchKeepsLists DEF Queues!GetPrefetch
      <4> QED  BY <2>1, <2>2, <4>1 DEF Queues!Goes
    <3>3. CASE SearchFirst \/ queue_getRequest \/ \E r \in Requests : queue_putRequest(r)
      BY <3>3 DEF SearchFirst, queue_getRequest, queue_putRequest
    <3>4. CASE UNCHANGED listVars
      BY <2>2, <3>4 DEF listVars
    <3> QED  BY <3>1, <3>2, <3>3, <3>4 DEF ServerNext, Searches
  <2>4. PICK k \in 1 .. queue_size :
              /\ Queue[k] = req /\ \A j \in 1 .. k - 1 : ~ Cached(Queue[j])
              /\ \/ Cached(Queue[k]) /\ Return(Queue[k])
                 \/ ~ Cached(Queue[k]) /\ k = queue_size /\ Return(Queue[1])
                 \/ /\ ~ Cached(Queue[k]) /\ k + 1 \in 1 .. queue_size
                    /\ req' = Queue[k + 1]
                    /\ UNCHANGED <<next, prev, queue_size, prefetch_size, where>>
    BY <1>1, <2>3, SearchOutcomes
  <2>5. ASSUME NEW m \in 1 .. queue_size, Return(Queue[m])
        PROVE  i = m
    <3>1. where' = [where EXCEPT ![Queue[m]] = "worker_thread"]
      BY <2>5 DEF Return, Goes
    <3> QED  BY <2>1, <2>2, <3>1
  <2>6. CASE Cached(Queue[k]) /\ Return(Queue[k])
    <3>1. i = k  BY <2>5, <2>6
    <3>2. k \in cached /\ cached # {}
      BY <2>1, <2>6
    <3>3. \A j \in cached : k <= j
      <4> SUFFICES ASSUME NEW j \in 1 .. queue_size, Cached(Queue[j]), ~ (k <= j)
                   PROVE  FALSE
        BY <2>1
      <4>1. j \in 1 .. k - 1  BY <2>1
      <4> QED  BY <2>4, <4>1
    <3>4. Min(cached) \in cached /\ \A j \in cached : Min(cached) <= j
      <4>1. cached \subseteq Nat  BY <2>1
      <4> HIDE DEF cached
      <4> QED  BY <3>2, <4>1, MinIsLeast
    <3>5. Min(cached) = k
      <4>1. cached \subseteq Nat  BY <2>1
      <4> HIDE DEF cached
      <4>2. k <= Min(cached) /\ Min(cached) <= k
        BY <3>2, <3>3, <3>4
      <4>3. k \in Nat /\ Min(cached) \in Nat
        BY <3>2, <3>4, <4>1
      <4> QED  BY <4>2, <4>3
    <3> QED  BY <3>1, <3>2, <3>5
  <2>7. CASE ~ Cached(Queue[k]) /\ k = queue_size /\ Return(Queue[1])
    <3>1. 1 \in 1 .. queue_size  BY <2>1
    <3>2. i = 1  BY <2>5, <2>7, <3>1
    <3>3. \A j \in 1 .. queue_size : j = k \/ j \in 1 .. k - 1
      BY <2>1, <2>7
    <3>4. cached = {}
      BY <2>1, <2>4, <2>7, <3>3
    <3> QED  BY <3>2, <3>4
  <2>8. CASE UNCHANGED where
    BY <2>2, <2>8
  <2> QED  BY <2>4, <2>6, <2>7, <2>8
<1>2. ServerInit => ListsInv /\ SearchInv
  BY ListsStart DEF ServerInit, ListsInit, SearchInv
<1>3. ListsInv /\ SearchInv /\ [ServerNext]_serverVars => ListsInv' /\ SearchInv'
  BY ServerStepsAreLists, ListsStep, SearchStep
<1>4. ServerSpec => [](ListsInv /\ SearchInv)
  BY <1>2, <1>3, PTL DEF ServerSpec
<1>5. ListsInv /\ SearchInv /\ [ServerNext]_serverVars => [Picks]_serverVars
  BY <1>1
<1> HIDE DEF Picks
<1>6. ServerSpec => [][Picks]_serverVars
  BY <1>4, <1>5, PTL DEF ServerSpec
<1> QED  BY <1>6 DEF PicksFirstCached, Picks

(* The chains of the cache, on a list s of cells with their names *)

Bucket(name, c) == Hash[name[c]]

\* c is the first cell of bucket b that is listed at i or behind, or Null.
IsFirst(s, name, i, b, c) ==
    \/ c = Null /\ \A k \in i .. Len(s) : Bucket(name, s[k]) # b
    \/ \E k \in i .. Len(s) : /\ c = s[k] /\ Bucket(name, s[k]) = b
                              /\ \A j \in i .. k - 1 : Bucket(name, s[j]) # b

\* Null stands for no entry of the bucket.
LEMMA NoneIsFirst ==
    ASSUME NEW s \in Seq(Cells), NEW name, NEW i \in Nat \ {0}, NEW b,
           IsFirst(s, name, i, b, Null)
    PROVE  \A k \in i .. Len(s) : Bucket(name, s[k]) # b
<1>1. \A k \in i .. Len(s) : k \in 1 .. Len(s)
  OBVIOUS
<1>2. \A k \in i .. Len(s) : s[k] # Null
  BY <1>1, HeapAssumption
<1> QED  BY <1>2 DEF IsFirst

\* The places of bucket b from i on.
PlacesOf(s, name, i, b) == {k \in i .. Len(s) : Bucket(name, s[k]) = b}

\* The first entry is at the smallest of the places.
LEMMA FirstByMin ==
    ASSUME NEW s \in Seq(Cells), NEW name, NEW i \in Nat \ {0}, NEW b, NEW c
    PROVE  IsFirst(s, name, i, b, c)
               <=> c = IF PlacesOf(s, name, i, b) = {} THEN Null
                       ELSE s[Min(PlacesOf(s, name, i, b))]
<1> DEFINE K == PlacesOf(s, name, i, b)
<1>1. Len(s) \in Nat /\ Null \notin Cells /\ \A k \in 1 .. Len(s) : s[k] \in Cells
  BY HeapAssumption
<1>2. CASE K = {}
  <2>1. \A k \in i .. Len(s) : Bucket(name, s[k]) # b
    BY <1>2 DEF PlacesOf
  <2> QED  BY <1>2, <2>1 DEF IsFirst
<1>3. CASE K # {}
  <2>1. Min(K) \in K /\ \A k \in K : Min(K) <= k
    <3>1. K \subseteq Nat  BY <1>1 DEF PlacesOf
    <3> HIDE DEF K
    <3> QED  BY <1>3, <3>1, MinIsLeast
  <2> DEFINE m == Min(K)
  <2> HIDE DEF m
  <2>2. m \in i .. Len(s) /\ Bucket(name, s[m]) = b
    BY <2>1 DEF m, PlacesOf
  <2>3. \A j \in i .. m - 1 : Bucket(name, s[j]) # b
    <3> SUFFICES ASSUME NEW j \in i .. m - 1, Bucket(name, s[j]) = b PROVE FALSE
      OBVIOUS
    <3>1. j \in K  BY <1>1, <2>2 DEF PlacesOf
    <3>2. m <= j  BY <2>1, <3>1 DEF m
    <3> QED  BY <2>2, <3>2
  <2>4. IsFirst(s, name, i, b, s[m])
    BY <2>2, <2>3 DEF IsFirst
  <2>5. ASSUME IsFirst(s, name, i, b, c) PROVE c = s[m]
    <3>1. PICK k \in i .. Len(s) : /\ c = s[k] /\ Bucket(name, s[k]) = b
                                   /\ \A j \in i .. k - 1 : Bucket(name, s[j]) # b
      BY <2>2, <2>5 DEF IsFirst
    <3>2. m \notin i .. k - 1  BY <2>2, <3>1
    <3>3. k \notin i .. m - 1  BY <2>3, <3>1
    <3>4. k = m  BY <2>2, <3>2, <3>3
    <3> QED  BY <3>1, <3>4
  <2> QED  BY <1>3, <2>4, <2>5 DEF m
<1> QED  BY <1>2, <1>3

\* The list, the names, the table and the collision pointers agree.
Chained(s, name, tb, nc, pc) ==
    /\ s \in Seq(Cells) /\ IsInjective(s)
    /\ name \in [Cells -> Files \cup {Null}] /\ \A i \in 1 .. Len(s) : name[s[i]] \in Files
    /\ tb \in [0 .. MaxCache - 1 -> Cells \cup {Null}]
    /\ nc \in [Cells -> Cells \cup {Null}] /\ pc \in [Cells -> Cells \cup {Null}]
    /\ \A b \in 0 .. MaxCache - 1 : IsFirst(s, name, 1, b, tb[b])
    /\ \A i \in 1 .. Len(s) : IsFirst(s, name, i + 1, Bucket(name, s[i]), nc[s[i]])
    /\ \A i \in 1 .. Len(s) : nc[s[i]] # Null => pc[nc[s[i]]] = s[i]
    /\ \A c \in Cells \ Range(s) : nc[c] = Null /\ pc[c] = Null

\* l is the place of the last cell of bucket b.
IsLast(s, name, b, l) ==
    /\ l \in 1 .. Len(s) /\ Bucket(name, s[l]) = b
    /\ \A j \in l + 1 .. Len(s) : Bucket(name, s[j]) # b

\* A bucket with a cell has a last one.
LEMMA LastExists ==
    ASSUME NEW s \in Seq(Cells), NEW name, NEW b,
           NEW i \in 1 .. Len(s), Bucket(name, s[i]) = b
    PROVE  \E l \in i .. Len(s) : IsLast(s, name, b, l)
<1> DEFINE n == Len(s)
           I == {n - k : k \in {k \in 1 .. n : Bucket(name, s[k]) = b}}
<1>1. n \in Nat /\ i \in 1 .. n
  OBVIOUS
<1> HIDE DEF n
<1>2. I \subseteq Nat /\ n - i \in I
  BY <1>1 DEF n
<1>3. PICK d \in I : \A e \in I : d <= e
  <2> HIDE DEF I
  <2> QED  BY <1>2, LeastNatural
<1>4. PICK l \in 1 .. n : d = n - l /\ Bucket(name, s[l]) = b
  OBVIOUS
<1>5. l \in i .. n
  <2> HIDE DEF I
  <2>1. d <= n - i  BY <1>2, <1>3
  <2> QED  BY <1>1, <1>4, <2>1
<1>6. ASSUME NEW j \in l + 1 .. n PROVE Bucket(name, s[j]) # b
  <2> SUFFICES ASSUME Bucket(name, s[j]) = b PROVE FALSE
    OBVIOUS
  <2>1. j \in 1 .. n  BY <1>1, <1>4
  <2>2. n - j \in I  BY <2>1
  <2>3. n - l <= n - j  BY <1>3, <1>4, <2>2
  <2> QED  BY <1>1, <1>4, <2>1, <2>3
<1> QED  BY <1>4, <1>5, <1>6 DEF IsLast, n

\* There is only one.
LEMMA LastIsOne ==
    ASSUME NEW s \in Seq(Cells), NEW name, NEW b, NEW l, NEW m,
           IsLast(s, name, b, l), IsLast(s, name, b, m)
    PROVE  l = m
<1>1. l \in 1 .. Len(s) /\ m \in 1 .. Len(s) /\ Len(s) \in Nat
  BY DEF IsLast
<1>2. m \notin l + 1 .. Len(s) /\ l \notin m + 1 .. Len(s)
  BY DEF IsLast
<1> QED  BY <1>1, <1>2

\* Following the chain from any of its cells ends in the last one.
LEMMA ChainEndIsLast ==
    ASSUME NEW h, NEW s, NEW name, NEW tb, NEW pc,
           Chained(s, name, tb, h.next_collision, pc),
           NEW i \in 1 .. Len(s), NEW l, IsLast(s, name, Bucket(name, s[i]), l)
    PROVE  ChainEnd(h, s[i]) = s[l]
<1> DEFINE nc == h.next_collision
           Rec(f) == [c \in Cells |-> IF nc[c] = Null THEN c ELSE f[nc[c]]]
           end == CHOOSE f : f = Rec(f)
           goal == [c \in Cells |->
                       IF c \in Range(s)
                       THEN s[CHOOSE m : IsLast(s, name, Bucket(name, c), m)] ELSE c]
<1>1. /\ s \in Seq(Cells) /\ DOMAIN s = 1 .. Len(s) /\ Len(s) \in Nat
      /\ \A k \in 1 .. Len(s) : s[k] \in Cells /\ s[k] \in Range(s)
      /\ \A k \in 1 .. Len(s) : IsFirst(s, name, k + 1, Bucket(name, s[k]), nc[s[k]])
      /\ \A c \in Cells \ Range(s) : nc[c] = Null
      /\ nc \in [Cells -> Cells \cup {Null}] /\ Null \notin Cells
  BY HeapAssumption DEF Chained, Range
<1> HIDE DEF nc
<1>2. \A k, m \in 1 .. Len(s) : IsLast(s, name, Bucket(name, s[k]), m) => goal[s[k]] = s[m]
  <2> SUFFICES ASSUME NEW k \in 1 .. Len(s), NEW m \in 1 .. Len(s),
                      IsLast(s, name, Bucket(name, s[k]), m)
               PROVE  goal[s[k]] = s[m]
    OBVIOUS
  <2> DEFINE p == CHOOSE q : IsLast(s, name, Bucket(name, s[k]), q)
  <2>1. IsLast(s, name, Bucket(name, s[k]), p)
    OBVIOUS
  <2>2. goal[s[k]] = s[p]
    BY <1>1
  <2> HIDE DEF p
  <2>3. p = m
    BY <1>1, <2>1, LastIsOne
  <2> QED  BY <2>2, <2>3
<1>3. \A k \in 1 .. Len(s) : \E m \in k .. Len(s) : IsLast(s, name, Bucket(name, s[k]), m)
  BY <1>1, LastExists
\* One step along the chain.
<1>4. ASSUME NEW k \in 1 .. Len(s)
      PROVE  \/ nc[s[k]] = Null /\ IsLast(s, name, Bucket(name, s[k]), k)
             \/ \E j \in k + 1 .. Len(s) :
                   nc[s[k]] = s[j] /\ Bucket(name, s[j]) = Bucket(name, s[k])
  <2>1. IsFirst(s, name, k + 1, Bucket(name, s[k]), nc[s[k]])
    BY <1>1
  <2> QED  BY <2>1 DEF IsFirst, IsLast
<1>5. goal = Rec(goal)
  <2>1. ASSUME NEW c \in Cells
        PROVE  goal[c] = IF nc[c] = Null THEN c ELSE goal[nc[c]]
    <3>1. CASE c \notin Range(s)
      BY <1>1, <3>1
    <3>2. CASE c \in Range(s)
      <4>1. PICK k \in 1 .. Len(s) : c = s[k]
        BY <1>1, <3>2 DEF Range
      <4>2. PICK m \in k .. Len(s) : IsLast(s, name, Bucket(name, s[k]), m)
        BY <1>3
      <4>3. m \in 1 .. Len(s)
        BY <1>1, <4>2
      <4>4. goal[c] = s[m]
        BY <1>2, <4>1, <4>2, <4>3
      <4> HIDE DEF goal
      <4>5. CASE nc[c] = Null /\ IsLast(s, name, Bucket(name, s[k]), k)
        <5>1. k = m  BY <1>1, <4>2, <4>5, LastIsOne
        <5> QED  BY <4>1, <4>4, <4>5, <5>1
      <4>6. ASSUME NEW j \in k + 1 .. Len(s), nc[c] = s[j],
                   Bucket(name, s[j]) = Bucket(name, s[k])
            PROVE  goal[c] = goal[nc[c]] /\ nc[c] # Null
        <5>1. j \in 1 .. Len(s)  BY <1>1
        <5>2. goal[s[j]] = s[m]
          BY <1>2, <4>2, <4>3, <4>6, <5>1
        <5> QED  BY <1>1, <4>4, <4>6, <5>1, <5>2
      <4> QED  BY <1>4, <4>1, <4>5, <4>6
    <3> QED  BY <3>1, <3>2
  <2>2. goal = [c \in Cells |-> goal[c]]
    OBVIOUS
  <2> HIDE DEF goal
  <2> QED  BY <2>1, <2>2
<1> HIDE DEF goal
<1>6. end = Rec(end)
  <2> HIDE DEF Rec
  <2> QED  BY <1>5
<1>7. ChainEnd(h, s[i]) = end[s[i]]
  BY DEF ChainEnd, nc
<1> HIDE DEF end
<1>8. ASSUME NEW k \in 1 .. Len(s) PROVE end[s[k]] = goal[s[k]]
  <2> DEFINE Bad == {Len(s) - m : m \in {m \in 1 .. Len(s) : end[s[m]] # goal[s[m]]}}
  <2> SUFFICES ASSUME Bad # {} PROVE FALSE
    BY <1>1
  <2>1. Bad \subseteq Nat  BY <1>1
  <2>2. PICK d \in Bad : \A e \in Bad : d <= e
    <3> HIDE DEF Bad
    <3> QED  BY <2>1, LeastNatural
  <2>3. PICK m \in 1 .. Len(s) : d = Len(s) - m /\ end[s[m]] # goal[s[m]]
    OBVIOUS
  <2>4. \A j \in m + 1 .. Len(s) : end[s[j]] = goal[s[j]]
    <3> SUFFICES ASSUME NEW j \in m + 1 .. Len(s), end[s[j]] # goal[s[j]] PROVE FALSE
      OBVIOUS
    <3>1. j \in 1 .. Len(s)  BY <1>1, <2>3
    <3>2. Len(s) - j \in Bad  BY <3>1
    <3>3. Len(s) - m <= Len(s) - j  BY <2>2, <2>3, <3>2
    <3> QED  BY <1>1, <2>3, <3>1, <3>3
  <2>5. /\ end[s[m]] = IF nc[s[m]] = Null THEN s[m] ELSE end[nc[s[m]]]
        /\ goal[s[m]] = IF nc[s[m]] = Null THEN s[m] ELSE goal[nc[s[m]]]
    <3>1. s[m] \in Cells  BY <1>1
    <3>2. Rec(end)[s[m]] = IF nc[s[m]] = Null THEN s[m] ELSE end[nc[s[m]]]
      BY <3>1
    <3>3. Rec(goal)[s[m]] = IF nc[s[m]] = Null THEN s[m] ELSE goal[nc[s[m]]]
      BY <3>1
    <3> HIDE DEF Rec
    <3> QED  BY <1>5, <1>6, <3>2, <3>3
  <2> HIDE DEF Rec, Bad
  <2> QED  BY <1>4, <2>3, <2>4, <2>5
<1>9. l \in 1 .. Len(s)
  BY DEF IsLast
<1> HIDE DEF Rec
<1> QED  BY <1>2, <1>7, <1>8, <1>9

\* An entry behind the others is the next of those that had none of its bucket.
LEMMA FirstAppend ==
    ASSUME NEW s \in Seq(Cells), NEW name, NEW e \in Cells, NEW b, NEW c,
           NEW i \in 1 .. Len(s) + 1, IsFirst(s, name, i, b, c)
    PROVE  IsFirst(Append(s, e), name, i, b, IF c = Null /\ Bucket(name, e) = b THEN e ELSE c)
<1> DEFINE t == Append(s, e)
           n == Len(s)
<1>1. /\ n \in Nat /\ Len(t) = n + 1 /\ t[n + 1] = e
      /\ \A k \in 1 .. n : t[k] = s[k] /\ s[k] \in Cells
      /\ Null \notin Cells
  BY HeapAssumption
<1> HIDE DEF t, n
<1>2. CASE c # Null
  <2>1. PICK k \in i .. n : /\ c = s[k] /\ Bucket(name, s[k]) = b
                            /\ \A j \in i .. k - 1 : Bucket(name, s[j]) # b
    BY <1>2 DEF IsFirst, n
  <2>2. k \in i .. Len(t) /\ k \in 1 .. n /\ \A j \in i .. k - 1 : j \in 1 .. n
    BY <1>1 DEF n
  <2>3. c = t[k] /\ Bucket(name, t[k]) = b /\ \A j \in i .. k - 1 : Bucket(name, t[j]) # b
    BY <1>1, <2>1, <2>2
  <2>4. IsFirst(t, name, i, b, c)
    BY <2>2, <2>3 DEF IsFirst
  <2> QED  BY <1>2, <2>4 DEF t
<1>3. CASE c = Null
  <2>1. \A k \in i .. n : Bucket(name, s[k]) # b
    BY <1>3, NoneIsFirst DEF n
  <2>2. \A k \in i .. n : k \in 1 .. n /\ Bucket(name, t[k]) # b
    <3> SUFFICES ASSUME NEW k \in i .. n PROVE k \in 1 .. n /\ Bucket(name, t[k]) # b
      OBVIOUS
    <3>1. k \in 1 .. n  BY <1>1 DEF n
    <3> QED  BY <1>1, <2>1, <3>1
  <2>3. CASE Bucket(name, e) = b
    <3>1. n + 1 \in i .. Len(t) /\ e = t[n + 1]
      BY <1>1 DEF n
    <3>2. IsFirst(t, name, i, b, e)
      <4>1. \A j \in i .. (n + 1) - 1 : Bucket(name, t[j]) # b
        BY <1>1, <2>2
      <4> QED  BY <2>3, <3>1, <4>1 DEF IsFirst
    <3> QED  BY <1>3, <2>3, <3>2 DEF t
  <2>4. CASE Bucket(name, e) # b
    <3>1. \A k \in i .. Len(t) : k \in i .. n \/ k = n + 1
      BY <1>1 DEF n
    <3>2. \A k \in i .. Len(t) : Bucket(name, t[k]) # b
      BY <1>1, <2>2, <2>4, <3>1
    <3> QED  BY <1>3, <2>4, <3>2 DEF IsFirst, t
  <2> QED  BY <2>3, <2>4
<1> QED  BY <1>2, <1>3

\* hash_add: the entry becomes the first of an empty bucket, or the next of the last one.
LEMMA ChainedAppend ==
    ASSUME NEW s, NEW name, NEW tb, NEW nc, NEW pc, Chained(s, name, tb, nc, pc),
           NEW e \in Cells, e \notin Range(s), name[e] \in Files,
           NEW b, b = Bucket(name, e),
           NEW tb1, NEW nc1, NEW pc1,
           \/ tb[b] = Null /\ tb1 = [tb EXCEPT ![b] = e] /\ nc1 = nc /\ pc1 = pc
           \/ \E l \in 1 .. Len(s) : /\ IsLast(s, name, b, l) /\ tb1 = tb /\ tb[b] # Null
                                     /\ nc1 = [nc EXCEPT ![s[l]] = e]
                                     /\ pc1 = [pc EXCEPT ![e] = s[l]]
    PROVE  Chained(Append(s, e), name, tb1, nc1, pc1)
<1> DEFINE t == Append(s, e)
           n == Len(s)
<1>1. /\ s \in Seq(Cells) /\ IsInjective(s)
      /\ name \in [Cells -> Files \cup {Null}] /\ \A i \in 1 .. Len(s) : name[s[i]] \in Files
      /\ tb \in [0 .. MaxCache - 1 -> Cells \cup {Null}]
      /\ nc \in [Cells -> Cells \cup {Null}] /\ pc \in [Cells -> Cells \cup {Null}]
      /\ \A a \in 0 .. MaxCache - 1 : IsFirst(s, name, 1, a, tb[a])
      /\ \A i \in 1 .. Len(s) : IsFirst(s, name, i + 1, Bucket(name, s[i]), nc[s[i]])
      /\ \A i \in 1 .. Len(s) : nc[s[i]] # Null => pc[nc[s[i]]] = s[i]
      /\ \A c \in Cells \ Range(s) : nc[c] = Null /\ pc[c] = Null
  BY DEF Chained
<1>2. /\ n \in Nat /\ Len(t) = n + 1 /\ t[n + 1] = e
      /\ \A k \in 1 .. n : t[k] = s[k] /\ s[k] \in Cells /\ s[k] # e /\ s[k] \in Range(s)
      /\ \A j, k \in 1 .. n : s[j] = s[k] => j = k
      /\ Null \notin Cells /\ b \in 0 .. MaxCache - 1
      /\ \A i \in 1 .. n : Bucket(name, s[i]) \in 0 .. MaxCache - 1
  BY <1>1, HeapAssumption DEF Range, IsInjective, Bucket
<1>3. t \in Seq(Cells) /\ IsInjective(t) /\ Range(t) = Range(s) \cup {e}
  BY <1>1, AppendRange, AppendKeepsInjective
<1>4. \A k \in 1 .. n + 1 : k = n + 1 \/ k \in 1 .. n
  BY <1>2
<1>5. \A k \in 1 .. n + 1 : name[t[k]] \in Files
  BY <1>1, <1>2, <1>4
\* What follows a listed entry is listed.
<1>6. \A i \in 1 .. n : nc[s[i]] # Null =>
          \E j \in i + 1 .. n : nc[s[i]] = s[j] /\ Bucket(name, s[j]) = Bucket(name, s[i])
  <2> SUFFICES ASSUME NEW i \in 1 .. n, nc[s[i]] # Null
               PROVE  \E j \in i + 1 .. n : /\ nc[s[i]] = s[j]
                                            /\ Bucket(name, s[j]) = Bucket(name, s[i])
    OBVIOUS
  <2>1. IsFirst(s, name, i + 1, Bucket(name, s[i]), nc[s[i]])
    BY <1>1
  <2> QED  BY <2>1 DEF IsFirst
<1>7. /\ 1 \in 1 .. n + 1 /\ \A i \in 1 .. n : i + 1 \in 1 .. n + 1
  BY <1>2
<1>8. CASE tb[b] = Null /\ tb1 = [tb EXCEPT ![b] = e] /\ nc1 = nc /\ pc1 = pc
  <2>1. \A i \in 1 .. n : Bucket(name, s[i]) # b
    <3>1. IsFirst(s, name, 1, b, Null)
      BY <1>1, <1>2, <1>8
    <3> QED  BY <1>2, <3>1 DEF IsFirst
  <2>2. \A a \in 0 .. MaxCache - 1 : IsFirst(t, name, 1, a, tb1[a])
    <3> SUFFICES ASSUME NEW a \in 0 .. MaxCache - 1 PROVE IsFirst(t, name, 1, a, tb1[a])
      OBVIOUS
    <3>1. IsFirst(t, name, 1, a, IF tb[a] = Null /\ Bucket(name, e) = a THEN e ELSE tb[a])
      BY <1>1, <1>7, FirstAppend
    <3>2. tb1[a] = IF tb[a] = Null /\ Bucket(name, e) = a THEN e ELSE tb[a]
      BY <1>1, <1>2, <1>8
    <3> QED  BY <3>1, <3>2
  <2>3. ASSUME NEW i \in 1 .. n + 1
        PROVE  /\ IsFirst(t, name, i + 1, Bucket(name, t[i]), nc1[t[i]])
               /\ nc1[t[i]] # Null => pc1[nc1[t[i]]] = t[i]
    <3>1. CASE i \in 1 .. n
      <4>1. IsFirst(t, name, i + 1, Bucket(name, s[i]),
                    IF nc[s[i]] = Null /\ Bucket(name, e) = Bucket(name, s[i])
                    THEN e ELSE nc[s[i]])
        BY <1>1, <1>7, <3>1, FirstAppend
      <4> QED  BY <1>1, <1>2, <1>8, <2>1, <3>1, <4>1
    <3>2. CASE i = n + 1
      <4>1. nc1[t[i]] = Null
        BY <1>1, <1>2, <1>8, <3>2
      <4>2. \A k \in i + 1 .. Len(t) : FALSE
        BY <1>2, <3>2
      <4> QED  BY <4>1, <4>2 DEF IsFirst
    <3> QED  BY <1>4, <3>1, <3>2
  <2>4. tb1 \in [0 .. MaxCache - 1 -> Cells \cup {Null}]
    BY <1>1, <1>2, <1>8
  <2>5. \A c \in Cells \ Range(t) : nc1[c] = Null /\ pc1[c] = Null
    BY <1>1, <1>3, <1>8
  <2> HIDE DEF t
  <2> QED  BY <1>1, <1>2, <1>3, <1>5, <1>8, <2>2, <2>3, <2>4, <2>5 DEF Chained, t
<1>9. ASSUME NEW l \in 1 .. n, IsLast(s, name, b, l), tb1 = tb, tb[b] # Null,
             nc1 = [nc EXCEPT ![s[l]] = e], pc1 = [pc EXCEPT ![e] = s[l]]
      PROVE  Chained(t, name, tb1, nc1, pc1)
  <2>1. Bucket(name, s[l]) = b /\ \A j \in l + 1 .. n : Bucket(name, s[j]) # b
    BY <1>9 DEF IsLast
  <2>2. \A a \in 0 .. MaxCache - 1 : IsFirst(t, name, 1, a, tb1[a])
    <3> SUFFICES ASSUME NEW a \in 0 .. MaxCache - 1 PROVE IsFirst(t, name, 1, a, tb1[a])
      OBVIOUS
    <3>1. IsFirst(t, name, 1, a, IF tb[a] = Null /\ Bucket(name, e) = a THEN e ELSE tb[a])
      BY <1>1, <1>7, FirstAppend
    <3> QED  BY <1>9, <3>1
  <2>3. nc[s[l]] = Null
    BY <1>6, <2>1
  <2>4. \A i \in 1 .. n : Bucket(name, s[i]) = b /\ i # l => nc[s[i]] # Null
    <3> SUFFICES ASSUME NEW i \in 1 .. n, Bucket(name, s[i]) = b, i # l, nc[s[i]] = Null
                 PROVE  FALSE
      OBVIOUS
    <3>1. IsFirst(s, name, i + 1, b, Null)
      BY <1>1
    <3>2. \A k \in i + 1 .. n : Bucket(name, s[k]) # b
      <4>1. i + 1 \in Nat \ {0}  BY <1>2
      <4> QED  BY <1>1, <3>1, <4>1, NoneIsFirst
    <3>3. l \notin i + 1 .. n /\ i \notin l + 1 .. n
      BY <2>1, <3>2
    <3> QED  BY <1>2, <3>3
  <2>5. /\ nc1 \in [Cells -> Cells \cup {Null}] /\ pc1 \in [Cells -> Cells \cup {Null}]
        /\ nc1[s[l]] = e /\ pc1[e] = s[l] /\ nc1[e] = Null
        /\ \A c \in Cells \ {s[l]} : nc1[c] = nc[c]
        /\ \A c \in Cells \ {e} : pc1[c] = pc[c]
    BY <1>1, <1>2, <1>9
  <2>6. ASSUME NEW i \in 1 .. n + 1
        PROVE  /\ IsFirst(t, name, i + 1, Bucket(name, t[i]), nc1[t[i]])
               /\ nc1[t[i]] # Null => pc1[nc1[t[i]]] = t[i]
    <3>1. CASE i \in 1 .. n
      <4>1. IsFirst(t, name, i + 1, Bucket(name, s[i]),
                    IF nc[s[i]] = Null /\ Bucket(name, e) = Bucket(name, s[i])
                    THEN e ELSE nc[s[i]])
        BY <1>1, <1>7, <3>1, FirstAppend
      <4>2. CASE i = l
        BY <1>2, <1>9, <2>1, <2>3, <2>5, <3>1, <4>1, <4>2
      <4>3. CASE i # l
        <5>1. s[i] # s[l] /\ t[i] = s[i] /\ s[i] \in Cells
          BY <1>2, <3>1, <4>3
        <5>2. nc1[t[i]] = nc[s[i]]
          BY <2>5, <5>1
        <5>3. IsFirst(t, name, i + 1, Bucket(name, s[i]), nc[s[i]])
          BY <2>4, <3>1, <4>1, <4>3
        <5>4. nc[s[i]] # Null => nc[s[i]] \in Cells \ {e}
          <6> SUFFICES ASSUME nc[s[i]] # Null PROVE nc[s[i]] \in Cells \ {e}
            OBVIOUS
          <6>1. PICK j \in i + 1 .. n : nc[s[i]] = s[j]
            BY <1>6, <3>1
          <6>2. j \in 1 .. n  BY <1>2, <3>1
          <6> QED  BY <1>2, <6>1, <6>2
        <5> QED  BY <1>1, <2>5, <3>1, <5>1, <5>2, <5>3, <5>4
      <4> QED  BY <4>2, <4>3
    <3>2. CASE i = n + 1
      <4>1. nc1[t[i]] = Null
        BY <1>2, <2>5, <3>2
      <4>2. \A k \in i + 1 .. Len(t) : FALSE
        BY <1>2, <3>2
      <4> QED  BY <4>1, <4>2 DEF IsFirst
    <3> QED  BY <1>4, <3>1, <3>2
  <2>7. \A c \in Cells \ Range(t) : nc1[c] = Null /\ pc1[c] = Null
    BY <1>1, <1>2, <1>3, <2>5
  <2> HIDE DEF t
  <2> QED  BY <1>1, <1>2, <1>3, <1>5, <1>9, <2>2, <2>5, <2>6, <2>7 DEF Chained
<1> QED  BY <1>8, <1>9

\* Where the names of the listed entries are the same, so are their buckets' first ones.
LEMMA FirstOtherNames ==
    ASSUME NEW s \in Seq(Cells), NEW name, NEW name1, NEW i \in Nat \ {0}, NEW b, NEW c,
           \A k \in i .. Len(s) : name1[s[k]] = name[s[k]], IsFirst(s, name, i, b, c)
    PROVE  IsFirst(s, name1, i, b, c)
<1>1. \A k \in i .. Len(s) : Bucket(name1, s[k]) = Bucket(name, s[k])
  BY DEF Bucket
<1>2. CASE c = Null /\ \A k \in i .. Len(s) : Bucket(name, s[k]) # b
  BY <1>1, <1>2 DEF IsFirst
<1>3. ASSUME NEW k \in i .. Len(s), c = s[k], Bucket(name, s[k]) = b,
             \A j \in i .. k - 1 : Bucket(name, s[j]) # b
      PROVE  IsFirst(s, name1, i, b, c)
  <2>1. \A j \in i .. k - 1 : j \in i .. Len(s)
    BY <1>3
  <2> QED  BY <1>1, <1>3, <2>1 DEF IsFirst
<1> QED  BY <1>2, <1>3 DEF IsFirst

\* createCacheEntry names a cell that is not listed.
LEMMA ChainedCreate ==
    ASSUME NEW s, NEW name, NEW tb, NEW nc, NEW pc, Chained(s, name, tb, nc, pc),
           NEW e \in Cells, e \notin Range(s), NEW fn \in Files
    PROVE  Chained(s, [name EXCEPT ![e] = fn], tb, nc, pc)
<1> DEFINE name1 == [name EXCEPT ![e] = fn]
<1>1. /\ s \in Seq(Cells) /\ Len(s) \in Nat
      /\ name1 \in [Cells -> Files \cup {Null}]
      /\ \A i \in 1 .. Len(s) : name1[s[i]] = name[s[i]]
  BY DEF Chained, Range
<1> HIDE DEF name1
<1>2. \A i \in 1 .. Len(s) : Bucket(name1, s[i]) = Bucket(name, s[i])
  BY <1>1 DEF Bucket
<1>3. ASSUME NEW i \in Nat \ {0}, NEW b, NEW c, IsFirst(s, name, i, b, c)
      PROVE  IsFirst(s, name1, i, b, c)
  <2>1. \A k \in i .. Len(s) : name1[s[k]] = name[s[k]]
    BY <1>1
  <2> QED  BY <1>1, <1>3, <2>1, FirstOtherNames
<1>4. \A b \in 0 .. MaxCache - 1 : IsFirst(s, name1, 1, b, tb[b])
  BY <1>3 DEF Chained
<1>5. \A i \in 1 .. Len(s) : IsFirst(s, name1, i + 1, Bucket(name1, s[i]), nc[s[i]])
  BY <1>1, <1>2, <1>3 DEF Chained
<1> QED  BY <1>1, <1>4, <1>5 DEF Chained, name1

\* From the second place on, the list without its first entry is the list.
LEMMA FirstTail ==
    ASSUME NEW s \in Seq(Cells), s # <<>>, NEW name, NEW i \in 1 .. Len(s), NEW b, NEW c,
           IsFirst(s, name, i + 1, b, c)
    PROVE  IsFirst(Tail(s), name, i, b, c)
<1> DEFINE t == Tail(s)
           n == Len(s)
<1>1. /\ n \in Nat \ {0} /\ Len(t) = n - 1 /\ i \in 1 .. n
      /\ \A k \in 1 .. n - 1 : t[k] = s[k + 1]
  OBVIOUS
<1> HIDE DEF t, n
<1>2. CASE c = Null /\ \A k \in i + 1 .. n : Bucket(name, s[k]) # b
  <2>1. \A k \in i .. n - 1 : k \in 1 .. n - 1 /\ k + 1 \in i + 1 .. n
    BY <1>1
  <2>2. \A k \in i .. Len(t) : Bucket(name, t[k]) # b
    BY <1>1, <1>2, <2>1
  <2> QED  BY <1>2, <2>2 DEF IsFirst, t
<1>3. ASSUME NEW k \in i + 1 .. n, c = s[k], Bucket(name, s[k]) = b,
             \A j \in i + 1 .. k - 1 : Bucket(name, s[j]) # b
      PROVE  IsFirst(t, name, i, b, c)
  <2>1. k - 1 \in i .. Len(t) /\ k - 1 \in 1 .. n - 1 /\ t[k - 1] = s[k]
    BY <1>1
  <2>2. \A j \in i .. (k - 1) - 1 : j \in 1 .. n - 1 /\ j + 1 \in i + 1 .. k - 1
    BY <1>1
  <2>3. \A j \in i .. (k - 1) - 1 : Bucket(name, t[j]) # b
    BY <1>1, <1>3, <2>2
  <2> QED  BY <1>3, <2>1, <2>3 DEF IsFirst
<1> QED  BY <1>2, <1>3 DEF IsFirst, t, n

\* hash_remove and free of the oldest entry, which heads its chain.
LEMMA ChainedTail ==
    ASSUME NEW s, NEW name, NEW tb, NEW nc, NEW pc, Chained(s, name, tb, nc, pc), s # <<>>
    PROVE  Chained(Tail(s), [name EXCEPT ![s[1]] = Null],
                   [tb EXCEPT ![Bucket(name, s[1])] = nc[s[1]]],
                   [nc EXCEPT ![s[1]] = Null], [pc EXCEPT ![s[1]] = Null])
<1> DEFINE t == Tail(s)
           n == Len(s)
           e == s[1]
           name1 == [name EXCEPT ![e] = Null]
           tb1 == [tb EXCEPT ![Bucket(name, e)] = nc[e]]
           nc1 == [nc EXCEPT ![e] = Null]
           pc1 == [pc EXCEPT ![e] = Null]
<1>1. /\ s \in Seq(Cells) /\ IsInjective(s)
      /\ name \in [Cells -> Files \cup {Null}] /\ \A i \in 1 .. Len(s) : name[s[i]] \in Files
      /\ tb \in [0 .. MaxCache - 1 -> Cells \cup {Null}]
      /\ nc \in [Cells -> Cells \cup {Null}] /\ pc \in [Cells -> Cells \cup {Null}]
      /\ \A a \in 0 .. MaxCache - 1 : IsFirst(s, name, 1, a, tb[a])
      /\ \A i \in 1 .. Len(s) : IsFirst(s, name, i + 1, Bucket(name, s[i]), nc[s[i]])
      /\ \A i \in 1 .. Len(s) : nc[s[i]] # Null => pc[nc[s[i]]] = s[i]
      /\ \A c \in Cells \ Range(s) : nc[c] = Null /\ pc[c] = Null
  BY DEF Chained
<1>2. /\ n \in Nat \ {0} /\ 1 \in 1 .. n /\ t \in Seq(Cells) /\ Len(t) = n - 1
      /\ \A k \in 1 .. n - 1 : t[k] = s[k + 1] /\ k + 1 \in 1 .. n /\ k \in 1 .. n
      /\ \A k \in 1 .. n : s[k] \in Cells
      /\ \A j, k \in 1 .. n : s[j] = s[k] => j = k
      /\ Null \notin Cells /\ Bucket(name, e) \in 0 .. MaxCache - 1
  BY <1>1, HeapAssumption DEF IsInjective, Bucket
<1>3. IsInjective(t) /\ Range(t) = Range(s) \ {e}
  <2>1. t = RemoveAt(s, 1) /\ 1 \in 1 .. Len(s)
    BY <1>1, TailIsRemoveAt
  <2>2. IsInjective(RemoveAt(s, 1)) /\ Range(RemoveAt(s, 1)) = Range(s) \ {s[1]}
    BY <1>1, <2>1, RemoveAtInjective
  <2> HIDE DEF t
  <2> QED  BY <2>1, <2>2
<1>4. \A k \in 1 .. n - 1 : t[k] # e
  BY <1>2
<1>5. /\ name1 \in [Cells -> Files \cup {Null}]
      /\ nc1 \in [Cells -> Cells \cup {Null}] /\ pc1 \in [Cells -> Cells \cup {Null}]
      /\ tb1 \in [0 .. MaxCache - 1 -> Cells \cup {Null}]
      /\ \A c \in Cells \ {e} : name1[c] = name[c] /\ nc1[c] = nc[c] /\ pc1[c] = pc[c]
      /\ nc1[e] = Null /\ pc1[e] = Null
      /\ \A a \in 0 .. MaxCache - 1 :
            tb1[a] = IF a = Bucket(name, e) THEN nc[e] ELSE tb[a]
  BY <1>1, <1>2
<1> HIDE DEF name1, tb1, nc1, pc1
<1>6. \A k \in 1 .. n - 1 : /\ t[k] \in Cells \ {e} /\ name1[t[k]] = name[t[k]]
                            /\ Bucket(name1, t[k]) = Bucket(name, t[k])
  BY <1>2, <1>4, <1>5 DEF Bucket
<1> HIDE DEF t, n, e
<1>7. ASSUME NEW i \in 1 .. n, NEW b, NEW c, IsFirst(s, name, i + 1, b, c)
      PROVE  IsFirst(t, name1, i, b, c)
  <2>1. IsFirst(t, name, i, b, c)
    BY <1>1, <1>7, FirstTail DEF t, n
  <2>2. \A k \in i .. Len(t) : name1[t[k]] = name[t[k]]
    <3>1. \A k \in i .. Len(t) : k \in 1 .. n - 1
      BY <1>2
    <3> QED  BY <1>6, <3>1
  <2>3. i \in Nat \ {0} /\ t \in Seq(Cells)
    BY <1>2
  <2> QED  BY <2>1, <2>2, <2>3, FirstOtherNames
<1>8. \A a \in 0 .. MaxCache - 1 : IsFirst(t, name1, 1, a, tb1[a])
  <2> SUFFICES ASSUME NEW a \in 0 .. MaxCache - 1 PROVE IsFirst(t, name1, 1, a, tb1[a])
    OBVIOUS
  <2>1. CASE a = Bucket(name, e)
    <3>1. IsFirst(s, name, 1 + 1, a, nc[e])
      BY <1>1, <1>2, <2>1 DEF e, n
    <3> QED  BY <1>2, <1>5, <1>7, <2>1, <3>1
  <2>2. CASE a # Bucket(name, e)
    <3>1. IsFirst(s, name, 1, a, tb[a])
      BY <1>1
    <3>2. IsFirst(s, name, 1 + 1, a, tb[a])
      <4>1. \A k \in 1 + 1 .. n : k \in 1 .. n
        BY <1>2
      <4>2. CASE tb[a] = Null
        <5>1. \A k \in 1 .. n : Bucket(name, s[k]) # a
          BY <1>2, <3>1, <4>2 DEF IsFirst, n
        <5> QED  BY <4>1, <4>2, <5>1 DEF IsFirst, n
      <4>3. CASE tb[a] # Null
        <5>1. PICK k \in 1 .. n : /\ tb[a] = s[k] /\ Bucket(name, s[k]) = a
                                  /\ \A j \in 1 .. k - 1 : Bucket(name, s[j]) # a
          BY <3>1, <4>3 DEF IsFirst, n
        <5>2. k # 1
          BY <2>2, <5>1 DEF e
        <5>3. k \in 1 + 1 .. n /\ \A j \in 1 + 1 .. k - 1 : j \in 1 .. k - 1
          BY <1>2, <5>2
        <5> QED  BY <5>1, <5>3 DEF IsFirst, n
      <4> QED  BY <4>2, <4>3
    <3> QED  BY <1>2, <1>5, <1>7, <2>2, <3>2
  <2> QED  BY <2>1, <2>2
<1>9. ASSUME NEW i \in 1 .. n - 1
      PROVE  /\ IsFirst(t, name1, i + 1, Bucket(name1, t[i]), nc1[t[i]])
             /\ nc1[t[i]] # Null => pc1[nc1[t[i]]] = t[i]
  <2>1. i + 1 \in 1 .. n /\ t[i] = s[i + 1]
    BY <1>2
  <2>2. IsFirst(s, name, (i + 1) + 1, Bucket(name, t[i]), nc[t[i]])
    BY <1>1, <2>1 DEF n
  <2>3. nc1[t[i]] = nc[t[i]] /\ Bucket(name1, t[i]) = Bucket(name, t[i])
    BY <1>5, <1>6
  <2>4. nc[t[i]] # Null => nc[t[i]] \in Cells \ {e}
    <3> SUFFICES ASSUME nc[t[i]] # Null PROVE nc[t[i]] \in Cells \ {e}
      OBVIOUS
    <3>1. PICK k \in (i + 1) + 1 .. n : nc[t[i]] = s[k]
      BY <2>2 DEF IsFirst, n
    <3>2. k \in 1 .. n /\ k # 1
      BY <1>2
    <3> QED  BY <1>2, <3>1, <3>2 DEF e
  <2>5. nc[t[i]] # Null => pc[nc[t[i]]] = t[i]
    BY <1>1, <2>1 DEF n
  <2> QED  BY <1>5, <1>7, <2>1, <2>2, <2>3, <2>4, <2>5
<1>10. \A k \in 1 .. n - 1 : name1[t[k]] \in Files
  <2> SUFFICES ASSUME NEW k \in 1 .. n - 1 PROVE name1[t[k]] \in Files
    OBVIOUS
  <2>1. t[k] = s[k + 1] /\ k + 1 \in 1 .. n
    BY <1>2
  <2>2. name[s[k + 1]] \in Files
    BY <1>1, <2>1 DEF n
  <2> QED  BY <1>6, <2>1, <2>2
<1>11. \A c \in Cells \ Range(t) : nc1[c] = Null /\ pc1[c] = Null
  BY <1>1, <1>3, <1>5
<1>12. Chained(t, name1, tb1, nc1, pc1)
  BY <1>2, <1>3, <1>5, <1>8, <1>9, <1>10, <1>11 DEF Chained
<1> QED  BY <1>12 DEF t, name1, tb1, nc1, pc1, e

\* The first entry of the list is before the others of its chain.
LEMMA FirstHasNoneBefore ==
    ASSUME NEW s, NEW name, NEW tb, NEW nc, NEW pc, Chained(s, name, tb, nc, pc), s # <<>>,
           NEW c \in Cells
    PROVE  nc[c] # s[1] /\ tb[Bucket(name, s[1])] = s[1]
<1>1. /\ s \in Seq(Cells) /\ IsInjective(s) /\ 1 \in 1 .. Len(s)
      /\ \A i \in 1 .. Len(s) : name[s[i]] \in Files /\ s[i] \in Cells
      /\ \A i \in 1 .. Len(s) : IsFirst(s, name, i + 1, Bucket(name, s[i]), nc[s[i]])
      /\ \A a \in Cells \ Range(s) : nc[a] = Null
      /\ Null \notin Cells
  BY HeapAssumption DEF Chained
<1>2. nc[c] # s[1]
  <2> SUFFICES ASSUME nc[c] = s[1] PROVE FALSE
    OBVIOUS
  <2>1. PICK i \in 1 .. Len(s) : c = s[i]
    BY <1>1 DEF Range
  <2>2. PICK k \in i + 1 .. Len(s) : s[1] = s[k]
    BY <1>1, <2>1 DEF IsFirst
  <2>3. k \in 1 .. Len(s) /\ k # 1
    OBVIOUS
  <2> QED  BY <1>1, <2>2, <2>3 DEF IsInjective
<1>3. tb[Bucket(name, s[1])] = s[1]
  <2> DEFINE b == Bucket(name, s[1])
  <2>1. b \in 0 .. MaxCache - 1
    BY <1>1, HeapAssumption DEF Bucket
  <2>2. IsFirst(s, name, 1, b, tb[b])
    BY <2>1 DEF Chained
  <2> HIDE DEF b
  <2>3. PICK k \in 1 .. Len(s) : tb[b] = s[k] /\ \A j \in 1 .. k - 1 : Bucket(name, s[j]) # b
    BY <1>1, <2>2 DEF IsFirst, b
  <2>4. 1 \notin 1 .. k - 1
    BY <2>3 DEF b
  <2>5. k = 1
    BY <2>4
  <2> QED  BY <2>3, <2>5 DEF b
<1> QED  BY <1>2, <1>3

(* The operations of the cache *)

Heaps ==
    [next : [Cells \cup {Sentinel} -> Links], prev : [Cells \cup {Sentinel} -> Links],
     next_collision : [Cells -> Cells \cup {Null}],
     prev_collision : [Cells -> Cells \cup {Null}],
     filename : [Cells -> Files \cup {Null}],
     table : [0 .. MaxCache - 1 -> Cells \cup {Null}],
     size : Nat]

\* The pointers in h make s the cache, ring and chains.
Shape(h, s) ==
    /\ h \in Heaps /\ Len(s) = h.size
    /\ Ring(h.next, h.prev, Sentinel, s)
    /\ Chained(s, h.filename, h.table, h.next_collision, h.prev_collision)

\* What is walked along is the cache.
LEMMA ShapeWalk ==
    ASSUME NEW h, NEW s, Shape(h, s)
    PROVE  Walk(h.next, c_first(h), h.size) = s
<1>1. s \in Seq(Cells) /\ h.size \in Nat /\ Null \notin Cells
  BY HeapAssumption DEF Shape, Chained, Heaps
<1> QED  BY <1>1, RingWalk DEF Shape, c_first

\* createCacheEntry takes a cell that is not in the list.
LEMMA ShapeCreate ==
    ASSUME NEW h, NEW s, Shape(h, s), NEW e \in Cells, e \notin Range(s), NEW fn \in Files
    PROVE  /\ Shape(createCacheEntry(h, e, fn), s)
           /\ createCacheEntry(h, e, fn).filename = [h.filename EXCEPT ![e] = fn]
           /\ createCacheEntry(h, e, fn).size = h.size
           /\ createCacheEntry(h, e, fn).prev_collision = h.prev_collision
           /\ createCacheEntry(h, e, fn).next_collision = h.next_collision
           /\ createCacheEntry(h, e, fn).next = h.next
<1> DEFINE g == createCacheEntry(h, e, fn)
<1>1. /\ g.filename = [h.filename EXCEPT ![e] = fn]
      /\ g.next = h.next /\ g.prev = h.prev /\ g.size = h.size /\ g.table = h.table
      /\ g.next_collision = h.next_collision /\ g.prev_collision = h.prev_collision
      /\ g \in Heaps
  BY DEF Shape, Heaps, createCacheEntry
<1>2. Chained(s, [h.filename EXCEPT ![e] = fn], h.table, h.next_collision, h.prev_collision)
  BY ChainedCreate DEF Shape
<1> HIDE DEF g
<1>3. Shape(g, s)
  BY <1>1, <1>2 DEF Shape
<1> QED  BY <1>1, <1>3 DEF g

\* c_add puts an entry behind the others, in the list and in its chain.
LEMMA ShapeAdd ==
    ASSUME NEW h, NEW s, Shape(h, s), NEW e \in Cells, e \notin Range(s),
           h.filename[e] \in Files
    PROVE  LET g == c_add(h, e)
           IN  /\ Shape(g, Append(s, e))
               /\ g.filename = h.filename /\ g.size = h.size + 1
               /\ \A i \in 1 .. Len(s) : g.prev_collision[s[i]] = h.prev_collision[s[i]]
               /\ g.prev_collision[e] # Null
                      <=> \E i \in 1 .. Len(s) :
                             Bucket(h.filename, s[i]) = Bucket(h.filename, e)
<1> DEFINE g == c_add(h, e)
           t == Append(s, e)
           name == h.filename
           b == Bucket(name, e)
           last == h.prev[Sentinel]
           h1 == [h EXCEPT !.next[last] = e, !.prev[e] = last,
                           !.prev[Sentinel] = e, !.next[e] = Sentinel, !.size = @ + 1]
<1>1. /\ h \in Heaps /\ s \in Seq(Cells) /\ Len(s) = h.size /\ IsInjective(s)
      /\ Ring(h.next, h.prev, Sentinel, s)
      /\ Chained(s, name, h.table, h.next_collision, h.prev_collision)
      /\ \A c \in Cells \ Range(s) : h.next_collision[c] = Null /\ h.prev_collision[c] = Null
      /\ Len(s) \in Nat /\ \A i \in 1 .. Len(s) : s[i] \in Cells /\ s[i] # e
  <2>1. /\ h \in Heaps /\ Len(s) = h.size /\ Ring(h.next, h.prev, Sentinel, s)
        /\ Chained(s, name, h.table, h.next_collision, h.prev_collision)
    BY DEF Shape
  <2>2. /\ s \in Seq(Cells) /\ IsInjective(s)
        /\ \A c \in Cells \ Range(s) : h.next_collision[c] = Null /\ h.prev_collision[c] = Null
    <3> HIDE DEF name
    <3> QED  BY <2>1 DEF Chained
  <2>3. Len(s) \in Nat /\ \A i \in 1 .. Len(s) : s[i] \in Cells /\ s[i] # e
    BY <2>2 DEF Range
  <2> QED  BY <2>1, <2>2, <2>3
<1>11. IsFirst(s, name, 1, b, h.table[b]) /\ b \in 0 .. MaxCache - 1
  <2>1. b \in 0 .. MaxCache - 1
    BY HeapAssumption DEF Bucket
  <2> HIDE DEF b
  <2> QED  BY <2>1 DEF Shape, Chained
<1>2. /\ h.next \in [Cells \cup {Sentinel} -> Links] /\ h.prev \in [Cells \cup {Sentinel} -> Links]
      /\ h.next_collision \in [Cells -> Cells \cup {Null}]
      /\ h.prev_collision \in [Cells -> Cells \cup {Null}]
      /\ h.table \in [0 .. MaxCache - 1 -> Cells \cup {Null}]
      /\ name \in [Cells -> Files \cup {Null}] /\ h.size \in Nat
  BY <1>1 DEF Heaps
<1>3. Sentinel \notin Cells /\ Null \notin Cells
  BY HeapAssumption
<1>4. /\ h1.next = [h.next EXCEPT ![last] = e, ![e] = Sentinel]
      /\ h1.prev = [h.prev EXCEPT ![Sentinel] = e, ![e] = last]
      /\ h1.size = h.size + 1 /\ h1.table = h.table /\ h1.filename = name
      /\ h1.next_collision = h.next_collision /\ h1.prev_collision = h.prev_collision
  <2>1. /\ h1.next = [h.next EXCEPT ![last] = e, ![e] = Sentinel]
        /\ h1.prev = [h.prev EXCEPT ![e] = last, ![Sentinel] = e]
        /\ h1.size = h.size + 1 /\ h1.table = h.table /\ h1.filename = name
        /\ h1.next_collision = h.next_collision /\ h1.prev_collision = h.prev_collision
    BY <1>1 DEF Heaps
  <2>2. [h.prev EXCEPT ![Sentinel] = e, ![e] = last] = [h.prev EXCEPT ![e] = last, ![Sentinel] = e]
    BY <1>2, <1>3
  <2> QED  BY <2>1, <2>2
<1>5. h1 \in Heaps
  <2>1. e \in Links /\ Sentinel \in Links /\ last \in Links
    BY <1>2 DEF Links
  <2>2. [h.next EXCEPT ![last] = e, ![e] = Sentinel] \in [Cells \cup {Sentinel} -> Links]
    BY <1>2, <2>1
  <2>3. [h.prev EXCEPT ![e] = last, ![Sentinel] = e] \in [Cells \cup {Sentinel} -> Links]
    BY <1>2, <2>1
  <2>4. h.size + 1 \in Nat
    BY <1>2
  <2> QED  BY <1>1, <2>2, <2>3, <2>4 DEF Heaps
<1>6. Ring(h1.next, h1.prev, Sentinel, t)
  <2>1. DOMAIN h.next = Cells \cup {Sentinel} /\ DOMAIN h.prev = Cells \cup {Sentinel}
    BY <1>2
  <2>2. Ring([h.next EXCEPT ![h.prev[Sentinel]] = e, ![e] = Sentinel],
             [h.prev EXCEPT ![Sentinel] = e, ![e] = h.prev[Sentinel]], Sentinel, Append(s, e))
    BY <1>1, <1>3, <2>1, RingAppend
  <2> QED  BY <1>4, <2>2
<1>7. g = IF h1.table[b] = Null THEN [h1 EXCEPT !.table[b] = e]
          ELSE [h1 EXCEPT !.next_collision[ChainEnd(h1, h1.table[b])] = e,
                          !.prev_collision[e] = ChainEnd(h1, h1.table[b])]
  BY <1>4 DEF c_add, hash_add, Bucket
<1> HIDE DEF h1, last
<1>8. Len(t) = Len(s) + 1
  OBVIOUS
<1>9. CASE h.table[b] = Null
  <2>1. g = [h1 EXCEPT !.table[b] = e]
    BY <1>4, <1>7, <1>9
  <2> HIDE DEF g
  <2>2. /\ g.table = [h.table EXCEPT ![b] = e]
        /\ g.next = h1.next /\ g.prev = h1.prev /\ g.size = h1.size /\ g.filename = name
        /\ g.next_collision = h.next_collision /\ g.prev_collision = h.prev_collision
        /\ g \in Heaps
    BY <1>4, <1>5, <2>1 DEF Heaps
  <2>3. Chained(t, name, g.table, g.next_collision, g.prev_collision)
    BY <1>1, <1>9, <2>2, ChainedAppend
  <2>4. Shape(g, t)
    BY <1>1, <1>4, <1>6, <1>8, <2>2, <2>3 DEF Shape
  <2>5. \A i \in 1 .. Len(s) : Bucket(name, s[i]) # b
    BY <1>1, <1>9, <1>11, NoneIsFirst
  <2>6. g.prev_collision[e] = Null
    BY <1>1, <2>2
  <2> QED  BY <1>4, <2>2, <2>4, <2>5, <2>6 DEF g
<1>10. CASE h.table[b] # Null
  <2>1. PICK k \in 1 .. Len(s) : h.table[b] = s[k] /\ Bucket(name, s[k]) = b
    BY <1>1, <1>10, <1>11 DEF IsFirst
  <2>2. PICK l \in k .. Len(s) : IsLast(s, name, b, l)
    BY <1>1, <2>1, LastExists
  <2>3. l \in 1 .. Len(s)
    BY <2>1, <2>2
  <2>4. ChainEnd(h1, h1.table[b]) = s[l]
    <3>1. Chained(s, name, h.table, h1.next_collision, h.prev_collision)
      BY <1>1, <1>4
    <3>2. IsLast(s, name, Bucket(name, s[k]), l)
      BY <2>1, <2>2
    <3>3. ChainEnd(h1, s[k]) = s[l]
      <4>1. \A f, q, n, tb, pc : Chained(q, n, tb, f.next_collision, pc) =>
               \A i \in 1 .. Len(q) : \A m : IsLast(q, n, Bucket(n, q[i]), m) =>
                  ChainEnd(f, q[i]) = q[m]
        BY ChainEndIsLast
      <4>2. \A i \in 1 .. Len(s) : \A m : IsLast(s, name, Bucket(name, s[i]), m) =>
               ChainEnd(h1, s[i]) = s[m]
        <5> HIDE DEF name
        <5> QED  BY <3>1, <4>1, Zenon
      <4> HIDE DEF name
      <4> QED  BY <3>2, <4>2
    <3> QED  BY <1>4, <2>1, <3>3
  <2>5. g = [h1 EXCEPT !.next_collision[s[l]] = e, !.prev_collision[e] = s[l]]
    BY <1>4, <1>7, <1>10, <2>4
  <2> HIDE DEF g
  <2>6. s[l] \in Cells
    BY <1>1, <2>3
  <2>7. /\ g.next_collision = [h.next_collision EXCEPT ![s[l]] = e]
        /\ g.prev_collision = [h.prev_collision EXCEPT ![e] = s[l]]
        /\ g.next = h1.next /\ g.prev = h1.prev /\ g.size = h1.size /\ g.filename = name
        /\ g.table = h.table /\ g \in Heaps
    BY <1>4, <1>5, <2>5, <2>6 DEF Heaps
  <2>8. Chained(t, name, g.table, g.next_collision, g.prev_collision)
    BY <1>1, <1>10, <2>2, <2>3, <2>7, ChainedAppend
  <2>9. Shape(g, t)
    BY <1>1, <1>4, <1>6, <1>8, <2>7, <2>8 DEF Shape
  <2>10. g.prev_collision[e] = s[l] /\ s[l] # Null
    BY <1>2, <1>3, <2>6, <2>7
  <2>11. \A i \in 1 .. Len(s) : g.prev_collision[s[i]] = h.prev_collision[s[i]]
    BY <1>1, <1>2, <2>7
  <2> QED  BY <1>4, <2>1, <2>7, <2>9, <2>10, <2>11 DEF g
<1> QED  BY <1>9, <1>10

\* The pointer back from the oldest entry is stale as soon as there is one.
LEMMA StaleIsChained ==
    ASSUME NEW h, NEW s, Shape(h, s), s # <<>>
    PROVE  /\ c_first(h) = s[1] /\ s[1] \in Cells
           /\ StaleBack(h, s[1]) <=> h.prev_collision[s[1]] # Null
<1>1. s \in Seq(Cells) /\ Sentinel \notin Cells /\ Len(s) \in Nat \ {0}
  BY HeapAssumption DEF Shape, Chained
<1>2. c_first(h) = s[1]
  <2>1. Node(Sentinel, s, 0) = Sentinel /\ Node(Sentinel, s, 1) = s[1]
    BY <1>1, NodeProperties
  <2>2. h.next[Node(Sentinel, s, 0)] = Node(Sentinel, s, 0 + 1)
    BY <1>1 DEF Shape, Ring
  <2> QED  BY <2>1, <2>2 DEF c_first
<1>3. /\ s[1] \in Cells
      /\ h.prev_collision[s[1]] \in Cells \cup {Null}
  BY <1>1 DEF Shape, Heaps
<1>4. \A c \in Cells : h.next_collision[c] # s[1]
  BY FirstHasNoneBefore DEF Shape
<1> QED  BY <1>2, <1>3, <1>4 DEF StaleBack

\* c_shift and free take the oldest entry out of the list and of its chain.
LEMMA ShapeShift ==
    ASSUME NEW h, NEW s, Shape(h, s), s # <<>>, h.prev_collision[s[1]] = Null
    PROVE  /\ Shape(Shifted(h), Tail(s))
           /\ Shifted(h).filename = [h.filename EXCEPT ![s[1]] = Null]
           /\ Shifted(h).prev_collision = [h.prev_collision EXCEPT ![s[1]] = Null]
           /\ Shifted(h).size = h.size - 1
<1> DEFINE g == Shifted(h)
           e == s[1]
           t == Tail(s)
           name == h.filename
           b == Bucket(name, e)
           h1 == [h EXCEPT !.next[h.prev[e]] = h.next[e],
                           !.prev[h.next[e]] = h.prev[e], !.size = @ - 1]
           h2 == [h1 EXCEPT !.table[b] = h.next_collision[e]]
<1>1. /\ h \in Heaps /\ s \in Seq(Cells) /\ Len(s) = h.size /\ IsInjective(s)
      /\ Ring(h.next, h.prev, Sentinel, s)
      /\ Chained(s, name, h.table, h.next_collision, h.prev_collision)
      /\ Len(s) \in Nat \ {0} /\ e \in Cells /\ b \in 0 .. MaxCache - 1
      /\ Sentinel \notin Cells /\ Null \notin Cells
  BY HeapAssumption DEF Shape, Chained, Bucket
<1>2. c_first(h) = e
  BY StaleIsChained
<1>3. /\ h.next \in [Cells \cup {Sentinel} -> Links] /\ h.prev \in [Cells \cup {Sentinel} -> Links]
      /\ h.next_collision \in [Cells -> Cells \cup {Null}]
      /\ h.prev_collision \in [Cells -> Cells \cup {Null}]
      /\ h.table \in [0 .. MaxCache - 1 -> Cells \cup {Null}]
      /\ name \in [Cells -> Files \cup {Null}] /\ h.size \in Nat \ {0}
  BY <1>1 DEF Heaps
<1>4. /\ h1.next = [h.next EXCEPT ![h.prev[e]] = h.next[e]]
      /\ h1.prev = [h.prev EXCEPT ![h.next[e]] = h.prev[e]]
      /\ h1.size = h.size - 1 /\ h1.table = h.table /\ h1.filename = name
      /\ h1.next_collision = h.next_collision /\ h1.prev_collision = h.prev_collision
  BY <1>1 DEF Heaps
<1>12. h1 \in Heaps
  <2>1. h.prev[e] \in Links /\ h.next[e] \in Links /\ h.size - 1 \in Nat
    BY <1>1, <1>3
  <2>2. [h.next EXCEPT ![h.prev[e]] = h.next[e]] \in [Cells \cup {Sentinel} -> Links]
    BY <1>3, <2>1
  <2>3. [h.prev EXCEPT ![h.next[e]] = h.prev[e]] \in [Cells \cup {Sentinel} -> Links]
    BY <1>3, <2>1
  <2> QED  BY <1>1, <2>1, <2>2, <2>3 DEF Heaps
<1>5. c_remove(h, e) = h2
  <2>1. c_remove(h, e) = hash_remove(h1, e)
    BY DEF c_remove
  <2> HIDE DEF h1
  <2>2. hash_remove(h1, e) = h2
    BY <1>4 DEF hash_remove, Bucket
  <2> QED  BY <2>1, <2>2
<1> HIDE DEF h1
<1>6. /\ h2.next = h1.next /\ h2.prev = h1.prev /\ h2.size = h.size - 1
      /\ h2.table = [h.table EXCEPT ![b] = h.next_collision[e]] /\ h2.filename = name
      /\ h2.next_collision = h.next_collision /\ h2.prev_collision = h.prev_collision
      /\ h2 \in Heaps
  BY <1>1, <1>3, <1>4, <1>12 DEF Heaps
<1> HIDE DEF h2
<1>7. /\ g.next = [h2.next EXCEPT ![e] = Null] /\ g.prev = [h2.prev EXCEPT ![e] = Null]
      /\ g.filename = [name EXCEPT ![e] = Null]
      /\ g.next_collision = [h.next_collision EXCEPT ![e] = Null]
      /\ g.prev_collision = [h.prev_collision EXCEPT ![e] = Null]
      /\ g.size = h.size - 1 /\ g.table = [h.table EXCEPT ![b] = h.next_collision[e]]
      /\ g \in Heaps
  <2>1. g = destroyCacheEntry(h2, e)
    BY <1>2, <1>5 DEF Shifted
  <2> HIDE DEF g
  <2> QED  BY <1>1, <1>6, <2>1 DEF destroyCacheEntry, Heaps, Links
<1> HIDE DEF g
<1>8. t \in Seq(Cells) /\ Len(t) = Len(s) - 1 /\ t = RemoveAt(s, 1) /\ 1 \in 1 .. Len(s)
  BY <1>1, TailIsRemoveAt
<1>9. Chained(t, g.filename, g.table, g.next_collision, g.prev_collision)
  <2>1. Chained(Tail(s), [h.filename EXCEPT ![s[1]] = Null],
                [h.table EXCEPT ![Bucket(h.filename, s[1])] = h.next_collision[s[1]]],
                [h.next_collision EXCEPT ![s[1]] = Null],
                [h.prev_collision EXCEPT ![s[1]] = Null])
    BY <1>1, ChainedTail
  <2> QED  BY <1>7, <2>1
<1>10. Ring(g.next, g.prev, Sentinel, t)
  <2>1. DOMAIN h.next = Cells \cup {Sentinel} /\ DOMAIN h.prev = Cells \cup {Sentinel}
    BY <1>3
  <2>2. Ring([h.next EXCEPT ![h.prev[s[1]]] = h.next[s[1]]],
             [h.prev EXCEPT ![h.next[s[1]]] = h.prev[s[1]]], Sentinel, RemoveAt(s, 1))
    BY <1>1, <1>8, <2>1, RingRemove
  <2>3. Ring(h2.next, h2.prev, Sentinel, t)
    BY <1>4, <1>6, <1>8, <2>2
  <2>4. Range(t) = Range(s) \ {e}
    <3>1. Range(RemoveAt(s, 1)) = Range(s) \ {s[1]}
      BY <1>1, <1>8, RemoveAtInjective
    <3> QED  BY <1>8, <3>1
  <2>5. h2.next \in [Cells \cup {Sentinel} -> Links] /\ h2.prev \in [Cells \cup {Sentinel} -> Links]
    BY <1>6 DEF Heaps
  <2>6. Range(s) \subseteq Cells
    BY <1>1 DEF Range
  <2>7. \A n \in {Sentinel} \cup Range(t) : g.next[n] = h2.next[n] /\ g.prev[n] = h2.prev[n]
    BY <1>1, <1>7, <2>4, <2>5, <2>6
  <2> HIDE DEF t
  <2> QED  BY <1>1, <1>8, <2>3, <2>7, RingOther
<1>11. Shape(g, t)
  BY <1>1, <1>7, <1>8, <1>9, <1>10 DEF Shape
<1> QED  BY <1>7, <1>11 DEF g

(* The invariant of the cache *)

CacheInv ==
    /\ Shape(heap, Listed) /\ Range(Listed) = Allocated(heap)
    /\ heap.size <= MaxCache
    /\ found \in [asked : Files \cup {Null}, got : Files \cup {Null}]
    /\ fault \in BOOLEAN

\* To show it after a step, any sequence that the pointers then make will do.
LEMMA CacheAfter ==
    ASSUME NEW t, Shape(heap', t), Range(t) = Allocated(heap'), heap'.size <= MaxCache,
           found' \in [asked : Files \cup {Null}, got : Files \cup {Null}],
           fault' \in BOOLEAN
    PROVE  CacheInv' /\ Listed' = t
<1>1. Walk(heap'.next, c_first(heap'), heap'.size) = t
  BY ShapeWalk
<1>2. Listed' = t
  BY <1>1 DEF Listed
<1> QED  BY <1>2 DEF CacheInv

\* An empty cache to begin with.
LEMMA CacheStart ==
    ASSUME Init
    PROVE  CacheInv /\ Listed = <<>>
<1>1. /\ heap \in Heaps /\ heap.size = 0
      /\ heap.next[Sentinel] = Sentinel /\ heap.prev[Sentinel] = Sentinel
      /\ \A c \in Cells : /\ heap.next_collision[c] = Null /\ heap.prev_collision[c] = Null
                          /\ heap.filename[c] = Null
      /\ \A b \in 0 .. MaxCache - 1 : heap.table[b] = Null
  BY HeapAssumption DEF Init, Heaps, Links
<1>2. /\ <<>> \in Seq(Cells) /\ Len(<<>>) = 0 /\ DOMAIN <<>> = {} /\ IsInjective(<<>>)
      /\ Range(<<>>) = {}
  BY DEF IsInjective, Range
<1>3. Ring(heap.next, heap.prev, Sentinel, <<>>)
  BY <1>1, <1>2 DEF Ring, Node
<1>4. Chained(<<>>, heap.filename, heap.table, heap.next_collision, heap.prev_collision)
  BY <1>1, <1>2 DEF Chained, IsFirst, Heaps
<1>5. Shape(heap, <<>>)
  BY <1>1, <1>2, <1>3, <1>4 DEF Shape
<1>6. Listed = <<>>
  BY <1>5, ShapeWalk DEF Listed
<1>7. Allocated(heap) = {}
  BY <1>1 DEF Allocated
<1>8. /\ found \in [asked : Files \cup {Null}, got : Files \cup {Null}]
      /\ fault \in BOOLEAN
  BY DEF Init
<1>9. heap.size <= MaxCache
  BY <1>1, HeapAssumption
<1> QED  BY <1>2, <1>5, <1>6, <1>7, <1>8, <1>9 DEF CacheInv

\* What the cache is to its clients.
EntriesOf(h, s) ==
    [i \in 1 .. Len(s) |-> [name |-> h.filename[s[i]],
                            chained |-> h.prev_collision[s[i]] # Null]]

\* Under the invariant these are the entries of the module.
LEMMA CacheEntries ==
    ASSUME CacheInv
    PROVE  Entries = EntriesOf(heap, Listed)
BY DEF CacheInv, Shape, Entries, EntriesOf

\* c_add as its clients see it.
LEMMA AddEntries ==
    ASSUME NEW h, NEW s, Shape(h, s), NEW e \in Cells, e \notin Range(s),
           h.filename[e] \in Files
    PROVE  EntriesOf(c_add(h, e), Append(s, e)) =
               Append(EntriesOf(h, s),
                      [name |-> h.filename[e],
                       chained |-> \E i \in 1 .. Len(s) :
                                      Bucket(h.filename, s[i]) = Bucket(h.filename, e)])
<1> DEFINE g == c_add(h, e)
           t == Append(s, e)
           n == Len(s)
           taken == \E i \in 1 .. Len(s) : Bucket(h.filename, s[i]) = Bucket(h.filename, e)
           new == [name |-> h.filename[e], chained |-> taken]
           entry(i) == [name |-> g.filename[t[i]], chained |-> g.prev_collision[t[i]] # Null]
<1>1. /\ g.filename = h.filename
      /\ \A i \in 1 .. n : g.prev_collision[s[i]] = h.prev_collision[s[i]]
      /\ g.prev_collision[e] # Null <=> taken
  BY ShapeAdd
<1>2. /\ s \in Seq(Cells) /\ n \in Nat /\ Len(t) = n + 1 /\ t[n + 1] = e
      /\ \A i \in 1 .. n : t[i] = s[i]
  BY DEF Shape, Chained
<1> HIDE DEF g, t, taken
<1>3. EntriesOf(h, s) =
          [i \in 1 .. n |-> [name |-> h.filename[s[i]],
                             chained |-> h.prev_collision[s[i]] # Null]]
  BY DEF EntriesOf
<1>4. EntriesOf(g, t) = [i \in 1 .. n + 1 |-> entry(i)]
  BY <1>2 DEF EntriesOf
<1>5. ASSUME NEW i \in 1 .. n
      PROVE  entry(i) = [name |-> h.filename[s[i]],
                         chained |-> h.prev_collision[s[i]] # Null]
  <2>1. t[i] = s[i] /\ g.prev_collision[s[i]] = h.prev_collision[s[i]]
    BY <1>1, <1>2
  <2> QED  BY <1>1, <2>1
<1>6. entry(n + 1) = new
  <2>1. (g.prev_collision[t[n + 1]] # Null) = taken
    BY <1>1, <1>2 DEF taken
  <2> QED  BY <1>1, <1>2, <2>1
<1> HIDE DEF n, new, entry
<1>7. [i \in 1 .. n + 1 |-> entry(i)] = Append(EntriesOf(h, s), new)
  <2> DEFINE old == EntriesOf(h, s)
  <2>1. old = [i \in 1 .. n |-> entry(i)]
    BY <1>3, <1>5
  <2> HIDE DEF old
  <2>2. n \in Nat
    BY <1>2
  <2>3. old \in Seq(Range(old)) /\ Len(old) = n
    BY <2>1, <2>2 DEF Range
  <2>4. Append(old, new) = [i \in 1 .. n + 1 |-> IF i = n + 1 THEN new ELSE old[i]]
    <3>1. old \in Seq(Range(old) \cup {new})
      BY <2>1, <2>2 DEF Range
    <3> DEFINE u == Append(old, new)
    <3>2. /\ u \in Seq(Range(old) \cup {new}) /\ Len(u) = n + 1
          /\ u[n + 1] = new /\ \A i \in 1 .. n : u[i] = old[i]
      BY <2>3, <3>1
    <3> HIDE DEF u
    <3>3. u = [i \in 1 .. n + 1 |-> u[i]]
      BY <3>2
    <3>4. \A i \in 1 .. n + 1 : u[i] = IF i = n + 1 THEN new ELSE old[i]
      BY <2>2, <3>2
    <3> QED  BY <3>3, <3>4 DEF u
  <2>5. \A i \in 1 .. n + 1 : (IF i = n + 1 THEN new ELSE old[i]) = entry(i)
    BY <1>6, <2>1, <2>2
  <2> QED  BY <2>4, <2>5 DEF old
<1> QED  BY <1>4, <1>7 DEF g, t, new, taken

\* c_shift as its clients see it.
LEMMA ShiftEntries ==
    ASSUME NEW h, NEW s, Shape(h, s), s # <<>>, h.prev_collision[s[1]] = Null
    PROVE  EntriesOf(Shifted(h), Tail(s)) = Tail(EntriesOf(h, s))
<1> DEFINE g == Shifted(h)
           t == Tail(s)
           n == Len(s)
           entry(i) == [name |-> h.filename[s[i]], chained |-> h.prev_collision[s[i]] # Null]
<1>1. /\ g.filename = [h.filename EXCEPT ![s[1]] = Null]
      /\ g.prev_collision = [h.prev_collision EXCEPT ![s[1]] = Null]
  BY ShapeShift
<1>2. /\ s \in Seq(Cells) /\ IsInjective(s)
      /\ h.filename \in [Cells -> Files \cup {Null}]
      /\ h.prev_collision \in [Cells -> Cells \cup {Null}]
  BY DEF Shape, Chained
<1>3. /\ n \in Nat \ {0} /\ Len(t) = n - 1
      /\ \A i \in 1 .. n - 1 : t[i] = s[i + 1] /\ i + 1 \in 1 .. n /\ i + 1 # 1
      /\ \A i \in 1 .. n : s[i] \in Cells
      /\ 1 \in 1 .. n /\ \A i, j \in 1 .. n : s[i] = s[j] => i = j
  BY <1>2 DEF IsInjective
<1> HIDE DEF g, t, n
<1>4. EntriesOf(h, s) = [i \in 1 .. n |-> entry(i)]
  BY DEF EntriesOf, n
<1>5. ASSUME NEW i \in 1 .. n - 1
      PROVE  [name |-> g.filename[t[i]], chained |-> g.prev_collision[t[i]] # Null]
                 = entry(i + 1)
  <2>1. t[i] = s[i + 1] /\ s[i + 1] \in Cells /\ s[i + 1] # s[1]
    BY <1>3
  <2>2. /\ g.filename[t[i]] = h.filename[s[i + 1]]
        /\ g.prev_collision[t[i]] = h.prev_collision[s[i + 1]]
    BY <1>1, <1>2, <2>1
  <2> QED  BY <2>2
<1> HIDE DEF entry
<1>6. EntriesOf(g, t) = [i \in 1 .. n - 1 |-> entry(i + 1)]
  BY <1>3, <1>5 DEF EntriesOf
<1>7. Tail(EntriesOf(h, s)) = [i \in 1 .. n - 1 |-> entry(i + 1)]
  <2> DEFINE old == EntriesOf(h, s)
  <2>1. old = [i \in 1 .. n |-> entry(i)]
    BY <1>4
  <2> HIDE DEF old
  <2>2. n \in Nat /\ n # 0
    BY <1>3
  <2>3. old \in Seq(Range(old)) /\ Len(old) = n
    BY <2>1, <2>2 DEF Range
  <2> DEFINE u == Tail(old)
  <2>4. /\ u \in Seq(Range(old)) /\ Len(u) = n - 1
        /\ \A i \in 1 .. n - 1 : u[i] = old[i + 1]
    BY <2>2, <2>3
  <2> HIDE DEF u
  <2>5. u = [i \in 1 .. n - 1 |-> u[i]]
    BY <2>4
  <2>6. \A i \in 1 .. n - 1 : u[i] = entry(i + 1)
    BY <1>3, <2>1, <2>4
  <2> QED  BY <2>5, <2>6 DEF u, old
<1> QED  BY <1>6, <1>7 DEF g, t

\* A function on 1 .. n is a sequence.
LEMMA FunctionIsSequence ==
    ASSUME NEW n \in Nat, NEW f, f = [i \in 1 .. n |-> f[i]]
    PROVE  f \in Seq(Range(f)) /\ Len(f) = n /\ DOMAIN f = 1 .. n
<1>1. \A i \in 1 .. n : f[i] \in Range(f)
  BY DEF Range
<1> HIDE DEF Range
<1> QED  BY <1>1

\* c lists the names and back pointers of the cells of s.
EntriesAre(c, s) ==
    \A i \in 1 .. Len(s) : c[i] = [name |-> heap.filename[s[i]],
                                   chained |-> heap.prev_collision[s[i]] # Null]

\* What there is to know of the entries as a sequence.
LEMMA EntriesFields ==
    ASSUME NEW s, Shape(heap, s)
    PROVE  LET c == EntriesOf(heap, s)
           IN  /\ Len(c) = Len(s) /\ DOMAIN c = 1 .. Len(s) /\ c \in Seq(Range(c))
               /\ EntriesAre(c, s)
<1> DEFINE c == EntriesOf(heap, s)
<1>1. Len(s) \in Nat
  BY DEF Shape, Chained
<1>2. c = [i \in 1 .. Len(s) |-> [name |-> heap.filename[s[i]],
                                  chained |-> heap.prev_collision[s[i]] # Null]]
  BY DEF EntriesOf
<1> HIDE DEF c
<1>3. c = [i \in 1 .. Len(s) |-> c[i]] /\ EntriesAre(c, s)
  BY <1>2 DEF EntriesAre
<1>4. Len(c) = Len(s) /\ DOMAIN c = 1 .. Len(s) /\ c \in Seq(Range(c))
  BY <1>1, <1>3, FunctionIsSequence
<1> QED  BY <1>3, <1>4 DEF c

\* cache_putEntry, in the three cases it has: what the invariant and the service need.
LEMMA PutKeepsCache ==
    ASSUME CacheInv, NEW e \in Cells, NEW fn \in Files, Put(e, fn)
    PROVE  CacheInv' /\ Service!Put(fn)
<1> DEFINE s == Listed
           created == createCacheEntry(heap, e, fn)
           old == EntriesOf(heap, s)
           full == heap.size = MaxCache
           link(room) == [name |-> fn, chained |-> \E i \in DOMAIN room :
                                                      Hash[room[i].name] = Hash[fn]]
<1>1. /\ Shape(heap, s) /\ Range(s) = Allocated(heap) /\ heap.size <= MaxCache
      /\ found \in [asked : Files \cup {Null}, got : Files \cup {Null}]
      /\ fault \in BOOLEAN
  BY DEF CacheInv
<1>2. /\ s \in Seq(Cells) /\ IsInjective(s) /\ Len(s) = heap.size /\ Len(s) \in Nat
      /\ heap.filename \in [Cells -> Files \cup {Null}]
      /\ \A i \in 1 .. Len(s) : heap.filename[s[i]] \in Files
      /\ MaxCache \in Nat \ {0} /\ Null \notin Files
      /\ \A i \in 1 .. Len(s) : s[i] \in Cells /\ s[i] # e
  <2>1. /\ s \in Seq(Cells) /\ IsInjective(s) /\ Len(s) = heap.size
        /\ heap.filename \in [Cells -> Files \cup {Null}]
        /\ \A i \in 1 .. Len(s) : heap.filename[s[i]] \in Files
    BY <1>1 DEF Shape, Chained
  <2>2. e \notin Range(s)
    BY <1>1 DEF Put
  <2> HIDE DEF s
  <2> QED  BY <2>1, <2>2, HeapAssumption DEF Range
<1>3. /\ ~fault /\ e \notin Range(s) /\ found' = found
      /\ \/ full /\ StaleBack(heap, c_first(heap)) /\ fault' = TRUE /\ heap' = heap
         \/ /\ full /\ ~StaleBack(heap, c_first(heap))
            /\ heap' = c_add(Shifted(created), e) /\ fault' = fault
         \/ ~full /\ heap' = c_add(created, e) /\ fault' = fault
  BY <1>1 DEF Put
<1>4. Entries = old
  BY CacheEntries
<1>5. /\ Len(old) = Len(s) /\ DOMAIN old = 1 .. Len(s) /\ old \in Seq(Range(old))
      /\ EntriesAre(old, s)
  BY <1>1, EntriesFields
<1>6. /\ Shape(created, s) /\ created.size = heap.size
      /\ created.filename = [heap.filename EXCEPT ![e] = fn]
      /\ created.prev_collision = heap.prev_collision
      /\ created.next_collision = heap.next_collision /\ created.next = heap.next
  BY <1>1, <1>3, ShapeCreate
<1> HIDE DEF s, created
<1>7. /\ created.filename[e] = fn
      /\ \A c \in Cells \ {e} : created.filename[c] = heap.filename[c]
      /\ created.filename \in [Cells -> Files \cup {Null}]
  BY <1>2, <1>6
<1>8. EntriesOf(created, s) = old
  <2>1. \A i \in 1 .. Len(s) :
           /\ created.filename[s[i]] = heap.filename[s[i]]
           /\ created.prev_collision[s[i]] = heap.prev_collision[s[i]]
    BY <1>2, <1>6, <1>7
  <2> QED  BY <2>1 DEF EntriesOf
<1> HIDE DEF old
\* What c_add makes of a list r of entries, after the oldest is gone if it has to.
<1>9. ASSUME NEW h, NEW r, Shape(h, r), e \notin Range(r), h.filename[e] = fn
      PROVE  /\ Shape(c_add(h, e), Append(r, e))
             /\ c_add(h, e).filename = h.filename /\ c_add(h, e).size = h.size + 1
             /\ EntriesOf(c_add(h, e), Append(r, e))
                    = Append(EntriesOf(h, r), link(EntriesOf(h, r)))
  <2>1. \A i \in 1 .. Len(r) : EntriesOf(h, r)[i].name = h.filename[r[i]]
    BY DEF EntriesOf
  <2>2. DOMAIN EntriesOf(h, r) = 1 .. Len(r)
    BY DEF EntriesOf
  <2>3. /\ Shape(c_add(h, e), Append(r, e))
        /\ c_add(h, e).filename = h.filename /\ c_add(h, e).size = h.size + 1
    BY <1>9, ShapeAdd
  <2>4. EntriesOf(c_add(h, e), Append(r, e)) =
            Append(EntriesOf(h, r),
                   [name |-> h.filename[e],
                    chained |-> \E i \in 1 .. Len(r) :
                                   Bucket(h.filename, r[i]) = Bucket(h.filename, e)])
    BY <1>9, AddEntries
  <2>5. (\E i \in 1 .. Len(r) : Bucket(h.filename, r[i]) = Bucket(h.filename, e))
            = (\E i \in DOMAIN EntriesOf(h, r) : Hash[EntriesOf(h, r)[i].name] = Hash[fn])
    BY <1>9, <2>1, <2>2 DEF Bucket
  <2>6. [name |-> h.filename[e],
         chained |-> \E i \in 1 .. Len(r) :
                        Bucket(h.filename, r[i]) = Bucket(h.filename, e)] = link(EntriesOf(h, r))
    BY <1>9, <2>5
  <2> HIDE DEF link
  <2> QED  BY <2>3, <2>4, <2>6
<1> HIDE DEF link
<1>10. Service!EvictsChained(old) <=> full /\ StaleBack(heap, c_first(heap))
  <2>1. CASE full
    <3>1. s # <<>> /\ 1 \in 1 .. Len(s)
      BY <1>2, <2>1
    <3>2. Head(old) = old[1]
      <4>1. old \in Seq(Range(old)) /\ Len(old) # 0
        BY <1>2, <1>5, <3>1
      <4> QED  BY <4>1
    <3>3. c_first(heap) = s[1] /\ (StaleBack(heap, s[1]) <=> heap.prev_collision[s[1]] # Null)
      BY <1>1, <3>1, StaleIsChained
    <3>4. Head(old).chained = (heap.prev_collision[s[1]] # Null)
      <4>1. old[1] = [name |-> heap.filename[s[1]],
                      chained |-> heap.prev_collision[s[1]] # Null]
        BY <1>5, <3>1 DEF EntriesAre
      <4> QED  BY <3>2, <4>1
    <3> QED  BY <1>2, <1>5, <2>1, <3>3, <3>4 DEF Service!EvictsChained, Service!Full
  <2>2. CASE ~full
    BY <1>2, <1>5, <2>2 DEF Service!EvictsChained, Service!Full
  <2> QED  BY <2>1, <2>2
<1>11. \A room : room = (IF full THEN Tail(old) ELSE old) =>
          Service!PutEntry(old, [name |-> fn, chained |-> FALSE]) = Append(room, link(room))
  <2> SUFFICES ASSUME NEW room, room = IF full THEN Tail(old) ELSE old
               PROVE  Service!PutEntry(old, [name |-> fn, chained |-> FALSE])
                          = Append(room, link(room))
    OBVIOUS
  <2>1. Service!MakeRoom(old) = room
    BY <1>2, <1>5 DEF Service!MakeRoom, Service!Full
  <2>2. Service!Linked(old, [name |-> fn, chained |-> FALSE]) = link(room)
    <3> DEFINE new == [name |-> fn, chained |-> FALSE]
    <3>1. (\E i \in DOMAIN room : Service!Collides(room[i], new.name))
              = (\E i \in DOMAIN room : Hash[room[i].name] = Hash[fn])
      BY DEF Service!Collides
    <3>2. Service!Linked(old, new)
              = [new EXCEPT !.chained =
                    \E i \in DOMAIN room : Service!Collides(room[i], new.name)]
      BY <2>1 DEF Service!Linked
    <3>3. ASSUME NEW c PROVE [new EXCEPT !.chained = c] = [name |-> fn, chained |-> c]
      OBVIOUS
    <3> QED  BY <3>1, <3>2, <3>3 DEF link
  <2> QED  BY <2>1, <2>2 DEF Service!PutEntry
<1>12. CASE full /\ StaleBack(heap, c_first(heap))
  <2>1. heap' = heap /\ fault' = TRUE
    BY <1>3, <1>12
  <2>2. Listed' = Listed /\ Entries' = Entries /\ Allocated(heap') = Allocated(heap)
    BY <2>1 DEF Entries, Listed
  <2>3. CacheInv'
    BY <1>1, <1>3, <2>1, <2>2 DEF CacheInv, s
  <2> QED  BY <1>3, <1>4, <1>10, <1>12, <2>1, <2>2, <2>3 DEF Service!Put
<1>13. CASE full /\ ~StaleBack(heap, c_first(heap))
  <2> DEFINE h == Shifted(created)
             r == Tail(s)
  <2>1. heap' = c_add(h, e) /\ fault' = fault
    BY <1>3, <1>13
  <2>2. s # <<>> /\ s[1] \in Cells /\ s[1] # e
    BY <1>2, <1>13
  <2>3. created.prev_collision[s[1]] = Null
    BY <1>1, <1>6, <1>13, <2>2, StaleIsChained
  <2>4. /\ Shape(h, r) /\ h.filename = [created.filename EXCEPT ![s[1]] = Null]
        /\ h.size = created.size - 1
    BY <1>6, <2>2, <2>3, ShapeShift
  <2>5. EntriesOf(h, r) = Tail(old)
    BY <1>6, <1>8, <2>2, <2>3, ShiftEntries
  <2>6. Range(r) = Range(s) \ {s[1]} /\ r \in Seq(Cells)
    <3>1. r = RemoveAt(s, 1) /\ 1 \in 1 .. Len(s)
      BY <1>2, <2>2, TailIsRemoveAt
    <3>2. Range(RemoveAt(s, 1)) = Range(s) \ {s[1]}
      BY <1>2, <3>1, RemoveAtInjective
    <3>3. r \in Seq(Cells)
      BY <1>2, <2>2
    <3> HIDE DEF r
    <3> QED  BY <3>1, <3>2, <3>3
  <2> HIDE DEF h, r
  <2>7. e \notin Range(r) /\ h.filename[e] = fn
    BY <1>3, <1>7, <2>2, <2>4, <2>6
  <2>8. /\ Shape(heap', Append(r, e)) /\ heap'.filename = h.filename
        /\ heap'.size = h.size + 1
        /\ EntriesOf(heap', Append(r, e)) = Append(Tail(old), link(Tail(old)))
    BY <1>9, <2>1, <2>4, <2>5, <2>7
  <2>9. heap'.size <= MaxCache
    BY <1>2, <1>6, <1>13, <2>4, <2>8
  <2>10. Range(Append(r, e)) = Allocated(heap')
    <3>1. Range(Append(r, e)) = Range(r) \cup {e}
      BY <2>6, AppendRange
    <3>2. \A c \in Cells : c \in Allocated(heap') <=> c \in Range(r) \cup {e}
      BY <1>1, <1>2, <1>7, <2>2, <2>4, <2>6, <2>7, <2>8 DEF Allocated
    <3> QED  BY <2>6, <3>1, <3>2 DEF Allocated, Range
  <2>11. CacheInv' /\ Listed' = Append(r, e)
    BY <1>1, <1>3, <2>1, <2>8, <2>9, <2>10, CacheAfter
  <2>12. Entries' = Append(Tail(old), link(Tail(old)))
    <3>1. (CacheInv => Entries = EntriesOf(heap, Listed))'
      BY CacheEntries, PTL
    <3> QED  BY <2>8, <2>11, <3>1
  <2> QED  BY <1>3, <1>4, <1>10, <1>11, <1>13, <2>1, <2>11, <2>12 DEF Service!Put
<1>14. CASE ~full
  <2>1. heap' = c_add(created, e) /\ fault' = fault
    BY <1>3, <1>14
  <2>2. /\ Shape(heap', Append(s, e)) /\ heap'.filename = created.filename
        /\ heap'.size = created.size + 1
        /\ EntriesOf(heap', Append(s, e)) = Append(old, link(old))
    BY <1>3, <1>6, <1>7, <1>8, <1>9, <2>1
  <2>3. heap'.size <= MaxCache
    BY <1>1, <1>2, <1>6, <1>14, <2>2
  <2>4. Range(Append(s, e)) = Allocated(heap')
    <3>1. Range(Append(s, e)) = Range(s) \cup {e}
      BY <1>2, AppendRange
    <3>2. \A c \in Cells : c \in Allocated(heap') <=> c \in Range(s) \cup {e}
      BY <1>1, <1>2, <1>7, <2>2 DEF Allocated
    <3> QED  BY <1>2, <3>1, <3>2 DEF Allocated, Range
  <2>5. CacheInv' /\ Listed' = Append(s, e)
    BY <1>1, <1>3, <2>1, <2>2, <2>3, <2>4, CacheAfter
  <2>6. Entries' = Append(old, link(old))
    <3>1. (CacheInv => Entries = EntriesOf(heap, Listed))'
      BY CacheEntries, PTL
    <3> QED  BY <2>2, <2>5, <3>1
  <2> QED  BY <1>3, <1>4, <1>10, <1>11, <1>14, <2>1, <2>5, <2>6 DEF Service!Put
<1> QED  BY <1>3, <1>12, <1>13, <1>14

\* cache_search finds what the service finds.
LEMMA LookupKeepsCache ==
    ASSUME CacheInv, NEW fn \in Files, Lookup(fn)
    PROVE  CacheInv' /\ Service!Lookup(fn)
<1> DEFINE s == Listed
           old == EntriesOf(heap, s)
           b == Hash[fn]
           K == {k \in 1 .. Len(s) : Bucket(heap.filename, s[k]) = b}
           I == {i \in 1 .. Len(old) : Hash[old[i].name] = Hash[fn]}
<1>1. /\ Shape(heap, s) /\ ~fault /\ heap' = heap /\ fault' = fault
      /\ found' = [asked |-> fn,
                   got |-> IF heap.table[b] = Null THEN Null ELSE heap.filename[heap.table[b]]]
  BY DEF CacheInv, Lookup, hash_search
<1>2. Listed' = Listed /\ Entries' = Entries /\ Entries = old
  BY <1>1, CacheEntries DEF Entries, Listed
<1>3. /\ s \in Seq(Cells) /\ b \in 0 .. MaxCache - 1 /\ Null \notin Cells \cup Files
      /\ IsFirst(s, heap.filename, 1, b, heap.table[b])
      /\ heap.filename \in [Cells -> Files \cup {Null}]
      /\ heap.table \in [0 .. MaxCache - 1 -> Cells \cup {Null}]
  <2>1. b \in 0 .. MaxCache - 1 /\ Null \notin Cells \cup Files
    BY HeapAssumption
  <2> HIDE DEF s, b
  <2> QED  BY <1>1, <2>1 DEF Shape, Chained
<1>4. /\ Len(old) = Len(s) /\ Len(s) \in Nat
      /\ \A i \in 1 .. Len(s) : old[i].name = heap.filename[s[i]]
  <2>1. EntriesAre(old, s) /\ Len(old) = Len(s)
    BY <1>1, EntriesFields
  <2> HIDE DEF s, old
  <2>2. Len(s) \in Nat
    BY <1>3
  <2>3. ASSUME NEW i \in 1 .. Len(s) PROVE old[i].name = heap.filename[s[i]]
    <3>1. old[i] = [name |-> heap.filename[s[i]],
                    chained |-> heap.prev_collision[s[i]] # Null]
      BY <2>1 DEF EntriesAre
    <3> QED  BY <3>1
  <2> QED  BY <2>1, <2>2, <2>3
<1> HIDE DEF s, old
<1>5. K = I
  BY <1>4 DEF Bucket
<1>6. heap.table[b] = IF K = {} THEN Null ELSE s[Min(K)]
  <2>1. 1 \in Nat \ {0}
    OBVIOUS
  <2>2. heap.table[b] = IF PlacesOf(s, heap.filename, 1, b) = {} THEN Null
                        ELSE s[Min(PlacesOf(s, heap.filename, 1, b))]
    <3>1. \A x, c : IsFirst(s, heap.filename, 1, x, c) <=>
             c = IF PlacesOf(s, heap.filename, 1, x) = {} THEN Null
                 ELSE s[Min(PlacesOf(s, heap.filename, 1, x))]
      BY <1>3, <2>1, FirstByMin
    <3> HIDE DEF b
    <3>2. IsFirst(s, heap.filename, 1, b, heap.table[b])
      BY <1>3
    <3> QED  BY <3>1, <3>2
  <2> QED  BY <2>2 DEF PlacesOf
<1>7. Service!Search(old, fn) = IF I # {} THEN Min(I) ELSE 0
  <2>1. Service!Search(old, fn) = IF I # {} THEN Service!Min(I) ELSE 0
    BY DEF Service!Search, Service!SelectInSeq, Service!Collides
  <2>2. Service!Min(I) = Min(I)
    BY DEF Service!Min, Min
  <2> QED  BY <2>1, <2>2
<1>8. K # {} => Min(K) \in 1 .. Len(s)
  <2>1. K \subseteq Nat /\ K \subseteq 1 .. Len(s)
    BY <1>4
  <2> HIDE DEF K
  <2> QED  BY <2>1, MinIsLeast
<1> HIDE DEF K, I
<1>9. found' = [asked |-> fn,
                got |-> IF Service!Search(old, fn) = 0 THEN Null
                        ELSE old[Service!Search(old, fn)].name]
  <2>1. CASE K = {}
    BY <1>1, <1>5, <1>6, <1>7, <2>1
  <2>2. CASE K # {}
    <3>1. /\ Service!Search(old, fn) = Min(K) /\ Min(K) # 0
          /\ old[Min(K)].name = heap.filename[s[Min(K)]] /\ s[Min(K)] \in Cells
      BY <1>3, <1>4, <1>5, <1>7, <1>8, <2>2
    <3> QED  BY <1>1, <1>3, <1>6, <2>2, <3>1
  <2> QED  BY <2>1, <2>2
<1>10. CacheInv'
  <2>1. found' \in [asked : Files \cup {Null}, got : Files \cup {Null}]
    BY <1>1, <1>3
  <2> QED  BY <1>1, <1>2, <2>1 DEF CacheInv, Allocated
<1> QED  BY <1>1, <1>2, <1>9, <1>10 DEF Service!Lookup

\* Every step of the cache is one of the service, and keeps the invariant.
LEMMA CacheStep ==
    ASSUME CacheInv, [Next]_vars
    PROVE  /\ CacheInv'
           /\ Service!Next \/ UNCHANGED <<Entries, found, fault>>
<1>1. CASE UNCHANGED vars
  <2>1. UNCHANGED <<heap, found, fault>>
    BY <1>1 DEF vars
  <2>2. Listed' = Listed /\ Entries' = Entries
    BY <2>1 DEF Entries, Listed
  <2> QED  BY <2>1, <2>2 DEF CacheInv, Allocated
<1>2. ASSUME NEW fn \in Files, Lookup(fn)
      PROVE  CacheInv' /\ Service!Next
  <2>1. CacheInv' /\ Service!Lookup(fn)
    BY <1>2, LookupKeepsCache
  <2> QED  BY <2>1 DEF Service!Next
<1>3. ASSUME NEW fn \in Files, NEW e \in Cells, Put(e, fn)
      PROVE  CacheInv' /\ Service!Next
  <2>1. CacheInv' /\ Service!Put(fn)
    BY <1>3, PutKeepsCache
  <2> QED  BY <2>1 DEF Service!Next
<1> QED  BY <1>1, <1>2, <1>3 DEF Next

\* What the invariant says of the pointers, in the words of the module.
LEMMA CacheInvImplies ==
    ASSUME CacheInv
    PROVE  TypeOK /\ CacheIntact
<1> DEFINE s == Listed
           name == heap.filename
<1>1. /\ Shape(heap, s) /\ Range(s) = Allocated(heap) /\ heap.size <= MaxCache
      /\ found \in [asked : Files \cup {Null}, got : Files \cup {Null}]
      /\ fault \in BOOLEAN
  BY DEF CacheInv
<1> HIDE DEF s
<1>2. /\ heap \in Heaps /\ Len(s) = heap.size /\ Ring(heap.next, heap.prev, Sentinel, s)
      /\ Chained(s, name, heap.table, heap.next_collision, heap.prev_collision)
  BY <1>1 DEF Shape
<1>3. /\ s \in Seq(Cells) /\ IsInjective(s) /\ DOMAIN s = 1 .. heap.size
      /\ \A b \in 0 .. MaxCache - 1 : IsFirst(s, name, 1, b, heap.table[b])
      /\ \A i \in 1 .. Len(s) :
            IsFirst(s, name, i + 1, Bucket(name, s[i]), heap.next_collision[s[i]])
      /\ \A i \in 1 .. Len(s) : heap.next_collision[s[i]] # Null =>
            heap.prev_collision[heap.next_collision[s[i]]] = s[i]
  <2> HIDE DEF name
  <2> QED  BY <1>2 DEF Chained
<1>4. TypeOK
  BY <1>1, <1>2, HeapAssumption DEF TypeOK, Heaps
<1>5. RingIntact
  BY <1>1, <1>2, <1>3 DEF RingIntact, s
<1>6. \A i \in 1 .. heap.size + 1 : \A b, c : IsFirst(s, name, i, b, c) <=> c = FirstFrom(i, b)
  <2> SUFFICES ASSUME NEW i \in 1 .. heap.size + 1, NEW b, NEW c
               PROVE  IsFirst(s, name, i, b, c) <=> c = FirstFrom(i, b)
    OBVIOUS
  <2>1. i \in Nat \ {0}
    BY <1>2 DEF Heaps
  <2>2. FirstFrom(i, b) = IF PlacesOf(s, name, i, b) = {} THEN Null
                          ELSE s[Min(PlacesOf(s, name, i, b))]
    BY <1>2 DEF FirstFrom, PlacesOf, Bucket, s
  <2> HIDE DEF name
  <2>3. IsFirst(s, name, i, b, c)
            <=> c = IF PlacesOf(s, name, i, b) = {} THEN Null
                    ELSE s[Min(PlacesOf(s, name, i, b))]
    <3>1. s \in Seq(Cells)
      BY <1>3
    <3> QED  BY <2>1, <3>1, FirstByMin, Zenon
  <2> QED  BY <2>2, <2>3
<1>7. ChainsFollowList
  <2>1. heap.size \in Nat /\ DOMAIN heap.table = 0 .. MaxCache - 1
    BY <1>2 DEF Heaps
  <2>2. 1 \in 1 .. heap.size + 1 /\ \A i \in 1 .. heap.size : i + 1 \in 1 .. heap.size + 1
    BY <2>1
  <2>3. \A b \in DOMAIN heap.table : heap.table[b] = FirstFrom(1, b)
    BY <1>3, <1>6, <2>1, <2>2
  <2>4. \A i \in DOMAIN s :
           heap.next_collision[s[i]] = FirstFrom(i + 1, Bucket(name, s[i]))
    BY <1>2, <1>3, <1>6, <2>2
  <2> QED  BY <2>3, <2>4 DEF ChainsFollowList, Bucket, s
<1>8. BackwardsWithinChains
  <2> SUFFICES ASSUME NEW e \in Allocated(heap), heap.next_collision[e] # Null
               PROVE  heap.prev_collision[heap.next_collision[e]] = e
    BY DEF BackwardsWithinChains
  <2>1. PICK i \in 1 .. Len(s) : e = s[i]
    BY <1>1, <1>2, <1>3 DEF Range
  <2> QED  BY <1>3, <2>1
<1> QED  BY <1>4, <1>5, <1>7, <1>8 DEF CacheIntact

\* Wherever malloc puts the entries, the list and the chains keep their shape, until a
\* stale pointer is followed.
THEOREM CacheStaysIntact == Spec => [](TypeOK /\ CacheIntact)
<1>1. Init => CacheInv
  BY CacheStart
<1>2. CacheInv /\ [Next]_vars => CacheInv'
  BY CacheStep
<1>3. CacheInv => TypeOK /\ CacheIntact
  BY CacheInvImplies
<1> QED  BY <1>1, <1>2, <1>3, PTL DEF Spec

\* The cells behave as the list of entries of EntryCache, which WebServer computes with:
\* what is found, what is evicted, and when the stale pointer is followed.
THEOREM CacheImplementsService == Spec => ImplementsCacheService
<1>1. Init => CacheInv /\ Service!Init
  <2> SUFFICES ASSUME Init PROVE CacheInv /\ Service!Init
    OBVIOUS
  <2>1. CacheInv /\ Listed = <<>>
    BY CacheStart
  <2>2. Entries = <<>>
    <3>1. Entries = EntriesOf(heap, <<>>)
      BY <2>1, CacheEntries
    <3>2. Len(<<>>) = 0 /\ 1 .. 0 = {}
      OBVIOUS
    <3> QED  BY <3>1, <3>2 DEF EntriesOf
  <2> QED  BY <2>1, <2>2 DEF Service!Init, Init
<1>2. CacheInv /\ [Next]_vars => CacheInv' /\ [Service!Next]_<<Entries, found, fault>>
  BY CacheStep
<1> QED  BY <1>1, <1>2, PTL DEF Spec, ImplementsCacheService, Service!Spec

(* The cache in the server *)

\* A request in the queue has a name.
NamesInv ==
    /\ filename \in [Requests -> Files \cup {Null}]
    /\ \A r \in Requests : where[r] = "queue" => filename[r] \in Files

\* With the lists around it, the cache does what it does on its own.
LEMMA ServerStepsAreCache ==
    ASSUME ListsInv, NamesInv, [ServerNext]_serverVars
    PROVE  NamesInv' /\ [Next]_vars
<1>1. /\ where \in [Requests -> Places] /\ filename \in [Requests -> Files \cup {Null}]
      /\ req \in Requests \cup {Null} /\ (req # Null => where[req] = "queue")
      /\ \A r \in Requests : where[r] = "queue" => filename[r] \in Files
  BY DEF ListsInv, ListsTypeOK, ListsIntact, NamesInv
<1>2. q_first # Null => q_first \in Requests /\ where[q_first] = "queue"
  BY QueueEnds, QueueFacts
\* Names keeps the names of the requests that were in the queue and still are.
<1>3. ASSUME filename' = Names,
             \A r \in Requests : where'[r] = "queue" => where[r] = "queue"
      PROVE  NamesInv'
  BY <1>1, <1>3 DEF NamesInv, Names
<1>4. CASE UNCHANGED serverVars
  BY <1>4 DEF serverVars, listVars, vars, NamesInv
<1>5. CASE /\ req = Null
           /\ \E fn \in Files, e \in Cells : Put(e, fn)
           /\ UNCHANGED <<listVars, filename>>
  BY <1>5 DEF Next, NamesInv, listVars
<1>6. ASSUME NEW r \in Requests, UNCHANGED vars, filename' = Names,
             createRequest(r) \/ destroyRequest(r) \/ prefetch_putRequest(r)
      PROVE  NamesInv'
  <2>1. \A q \in Requests : where'[q] = "queue" => where[q] = "queue"
    BY <1>1, <1>6 DEF createRequest, destroyRequest, prefetch_putRequest, Goes
  <2> QED  BY <1>3, <1>6, <2>1
<1>7. ASSUME NEW r \in Requests, NEW fn \in Files, queue_putRequest(r),
             filename' = [filename EXCEPT ![r] = fn]
      PROVE  NamesInv'
  BY <1>1, <1>7 DEF queue_putRequest, Goes, NamesInv
<1>8. ASSUME SearchFirst \/ prefetch_getRequest, filename' = Names
      PROVE  NamesInv'
  <2>1. \A q \in Requests : where'[q] = "queue" => where[q] = "queue"
    BY <1>1, <1>8 DEF SearchFirst, prefetch_getRequest, Goes
  <2> QED  BY <1>3, <1>8, <2>1
\* A search or a removal looks up the name of a request in the queue.
<1>9. ASSUME NEW r \in Requests, where[r] = "queue", Lookup(filename[r])
      PROVE  Next
  BY <1>1, <1>9 DEF Next
<1>10. ASSUME queue_getRequest, Lookup(filename[q_first]), filename' = Names
       PROVE  NamesInv' /\ Next
  <2>1. q_first # Null
    BY <1>10 DEF queue_getRequest
  <2>2. \A q \in Requests : where'[q] = "queue" => where[q] = "queue"
    BY <1>1, <1>10 DEF queue_getRequest, Return, Goes
  <2> QED  BY <1>2, <1>3, <1>9, <1>10, <2>1, <2>2
<1>11. ASSUME SearchHits \/ SearchMisses, Lookup(filename[req]), filename' = Names
       PROVE  NamesInv' /\ Next
  <2>1. req # Null
    BY <1>11 DEF SearchHits, SearchMisses
  <2>2. \A q \in Requests : where'[q] = "queue" => where[q] = "queue"
    BY <1>1, <1>11 DEF SearchHits, SearchMisses, Return, Goes
  <2> QED  BY <1>1, <1>3, <1>9, <1>11, <2>1, <2>2
<1> QED  BY <1>4, <1>5, <1>6, <1>7, <1>8, <1>10, <1>11 DEF ServerNext

\* In the server the cache takes the steps it takes on its own.
LEMMA ServerRunsCache == ServerSpec => []ListsInv /\ []NamesInv /\ Spec
<1>1. ServerInit => ListsInv /\ NamesInv /\ Init
  BY ListsStart DEF ServerInit, NamesInv, ListsInit
<1>2. ListsInv /\ NamesInv /\ [ServerNext]_serverVars
          => ListsInv' /\ NamesInv' /\ [Next]_vars
  BY ServerStepsAreLists, ListsStep, ServerStepsAreCache
<1> QED  BY <1>1, <1>2, PTL DEF ServerSpec, Spec

\* The pointers, sizes and names of the three lists keep their types, and cache_size and
\* the table stay within their bounds.
THEOREM ServerTypesCorrect == ServerSpec => []ServerTypeOK
<1>1. ListsInv /\ NamesInv /\ TypeOK => ServerTypeOK
  BY DEF ListsInv, NamesInv, ServerTypeOK
<1> QED  BY <1>1, ServerRunsCache, CacheStaysIntact, PTL

\* In the server too the cache is a ring with chains that follow it.
THEOREM ServerCacheStaysIntact == ServerSpec => []CacheIntact
BY ServerRunsCache, CacheStaysIntact, PTL

\* And it is what WebServer has in its place.
THEOREM ServerCacheImplementsService == ServerSpec => ImplementsCacheService
BY ServerRunsCache, CacheImplementsService, PTL
=============================================================================

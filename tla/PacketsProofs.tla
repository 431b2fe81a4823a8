---------------------------- MODULE PacketsProofs ----------------------------
(***************************************************************************)
(* Proofs about the packet program while its signals come in pause: the    *)
(* catalog of the memory manager stays in a form in which each message     *)
(* gets the same places, and the messages are printed in order and whole.  *)
(***************************************************************************)
EXTENDS PacketsProperties, SequenceLemmas

-----------------------------------------------------------------------------
(* Places *)

\* Where the n-th chunk begins.
At(n) == n * DataSize

LEMMA AtAdds ==
    ASSUME NEW n \in Int, NEW m \in Int
    PROVE  At(n) \in Int /\ At(n + m) = At(n) + At(m) /\ At(n - m) = At(n) - At(m)
BY PacketsAssumption DEF PacketsAssumption, At

LEMMA AtFirst == At(0) = 0 /\ At(1) = DataSize /\ DataSize \in Nat \ {0}
BY PacketsAssumption DEF PacketsAssumption, At

LEMMA AtNext ==
    ASSUME NEW n \in Int
    PROVE  At(n) \in Int /\ At(n + 1) = At(n) + DataSize
BY PacketsAssumption DEF PacketsAssumption, At

LEMMA AtNat == ASSUME NEW n \in Nat PROVE At(n) \in Nat
BY PacketsAssumption DEF PacketsAssumption, At

LEMMA AtOrder ==
    ASSUME NEW n \in Int, NEW m \in Int, n < m
    PROVE  At(n) + DataSize <= At(m) /\ At(n) \in Int /\ At(m) \in Int
<1>1. m - (n + 1) \in Nat /\ m = (n + 1) + (m - (n + 1))
  OBVIOUS
<1> DEFINE d == m - (n + 1)
<1> HIDE DEF d
<1>2. d \in Nat /\ m = (n + 1) + d
  BY <1>1 DEF d
<1>3. At(m) = At(n + 1) + At(d) /\ At(d) \in Nat /\ At(n + 1) = At(n) + DataSize /\ At(n) \in Int
  BY <1>2, AtAdds, AtNext, AtNat
<1> QED  BY <1>3, AtFirst

LEMMA AtGrows ==
    ASSUME NEW n \in Int, NEW m \in Int, n <= m
    PROVE  At(n) <= At(m) /\ At(n) \in Int /\ At(m) \in Int
<1>1. CASE n = m
  BY <1>1, AtNext
<1>2. CASE n < m
  BY <1>2, AtOrder, AtFirst
<1> QED  BY <1>1, <1>2

\* What is left of the heap for message m: of each message before it, less than half of
\* its chunks may have been lost.
Ample(T, m) ==
    /\ T \in 1..Size
    /\ 2 * T >= 2 * Size - At((m - 1) * (NumMessages - 1))

LEMMA AmpleRoom ==
    ASSUME NEW m \in 1..NumMessages, NEW T, Ample(T, m)
    PROVE  2 * T > At(5 * NumMessages - 1) /\ T \in Nat /\ T <= Size
<1> DEFINE N == NumMessages
<1>1. N \in Nat \ {0} /\ m \in Nat /\ Size \in Nat
  BY PacketsAssumption, ManagerAssumption DEF PacketsAssumption, ManagerAssumption
<1>2. 2 * Size > At(N * (N + 3))
  BY RoomAssumption DEF RoomAssumption, At
<1> HIDE DEF N
<1>3. (m - 1) * (N - 1) <= (N - 1) * (N - 1)
  BY <1>1 DEF N
<1>4. N * (N + 3) = (N - 1) * (N - 1) + (5 * N - 1)
  BY <1>1
<1> DEFINE x == (m - 1) * (N - 1)
           y == (N - 1) * (N - 1)
           z == N * (N + 3)
<1>5. x \in Int /\ y \in Int /\ x <= y /\ 5 * N - 1 \in Int /\ z = y + (5 * N - 1)
  BY <1>1, <1>3, <1>4
<1>6. T \in Nat /\ T <= Size /\ 2 * T >= 2 * Size - At(x)
  BY <1>1 DEF Ample, N
<1> HIDE DEF x, y, z
<1>7. /\ At(x) <= At(y) /\ At(x) \in Int /\ At(y) \in Int /\ At(5 * N - 1) \in Int
      /\ At(z) = At(y) + At(5 * N - 1)
  <2>1. At(x) \in Int /\ At(y) \in Int
    BY <1>5, AtNext
  <2>2. At(z) = At(y) + At(5 * N - 1) /\ At(5 * N - 1) \in Int
    BY <1>5, AtAdds
  <2>3. At(x) <= At(y)
    BY <1>5, AtGrows
  <2> QED  BY <2>1, <2>2, <2>3
<1> QED  BY <1>1, <1>2, <1>6, <1>7 DEF N, z

\* The last cell of a chunk that is merged with the rest is behind all the chunks.
LEMMA EndIsFar ==
    ASSUME NEW m \in 1..NumMessages, NEW T, Ample(T, m), NEW n \in Nat, 2 * n < m
    PROVE  T - At(n) \in Int /\ T - At(n) - 1 > At(2 * NumMessages - 1) + DataSize - 1
<1> DEFINE N == NumMessages
<1>1. N \in Nat \ {0} /\ m \in Nat /\ 2 * n <= N - 1
  BY PacketsAssumption DEF PacketsAssumption
<1>2. 2 * T > At(5 * N - 1) /\ T \in Nat
  BY AmpleRoom
<1> HIDE DEF N
<1> DEFINE b == 2 * N - 1
<1>3. /\ b \in Int /\ 2 * n \in Int /\ 5 * N - 1 \in Int
      /\ 2 * n + (b + 1) + (b + 1) <= 5 * N - 1 /\ n + n = 2 * n
  BY <1>1
<1> HIDE DEF b
<1> DEFINE bb == b + 1
<1>4. /\ At(n) \in Int /\ At(bb) = At(b) + DataSize /\ At(b) \in Int
      /\ At(5 * N - 1) \in Int /\ bb \in Int /\ At(bb) \in Int
  BY <1>3, AtNext
<1>5. At(n + n) = At(n) + At(n)
  BY AtAdds
<1>6. n + n + bb + bb <= 5 * N - 1
  BY <1>1, <1>3
<1> HIDE DEF bb
<1> DEFINE c == n + n + bb + bb
<1>7. c \in Int /\ At(c) = At(n) + At(n) + At(bb) + At(bb)
  <2>1. n + n \in Int /\ n + n + bb \in Int /\ c \in Int
    BY <1>4
  <2>2. At(n + n + bb) = At(n + n) + At(bb) /\ At(c) = At(n + n + bb) + At(bb)
    BY <1>4, <2>1, AtAdds
  <2> QED  BY <1>5, <2>1, <2>2
<1>8. c <= 5 * N - 1
  BY <1>6
<1> HIDE DEF c
<1>9. At(c) <= At(5 * N - 1) /\ At(c) \in Int
  BY <1>3, <1>7, <1>8, AtGrows
<1> QED  BY <1>2, <1>4, <1>7, <1>9, AtFirst DEF b, N

\* And everything is inside the heap.
LEMMA AllInside ==
    ASSUME NEW m \in 1..NumMessages, NEW T, Ample(T, m), NEW n \in Int, n < 2 * NumMessages
    PROVE  At(n) + DataSize < T
<1>1. 2 * NumMessages - 1 \in Int /\ n <= 2 * NumMessages - 1
  BY PacketsAssumption DEF PacketsAssumption
<1>2. T - At(0) - 1 > At(2 * NumMessages - 1) + DataSize - 1 /\ T \in Nat
  BY EndIsFar, AmpleRoom
<1>3. /\ At(n) <= At(2 * NumMessages - 1) /\ At(n) \in Int
      /\ At(2 * NumMessages - 1) \in Int
  BY <1>1, AtGrows
<1> QED  BY <1>2, <1>3, AtFirst
-----------------------------------------------------------------------------
(* mm_get *)

\* One round of mm_get's loop.
Onward(c, d, f, n) == IF c[n] >= d \/ n >= Size THEN n ELSE f[n + Magnitude(c[n])]

\* The walk comes to an end or stays where it is, so there is a function that says where
\* it leads.
LEMMA WalkExists ==
    ASSUME NEW c \in [Cells -> Int], NEW d \in Int
    PROVE  \E f : f = [n \in Nat |-> Onward(c, d, f, n)]
<1> DEFINE Good(l, f) == /\ f \in [Nat -> Nat]
                         /\ \A n \in Nat : n + l > Size => f[n] = Onward(c, d, f, n)
           S == {l \in 1..Size + 1 : \E f : Good(l, f)}
<1>1. Size \in Nat \ {0}
  BY ManagerAssumption DEF ManagerAssumption
<1>2. \A n \in Nat : n < Size => c[n] \in Int /\ Magnitude(c[n]) \in Nat
                                 /\ (c[n] # 0 => Magnitude(c[n]) > 0)
                                 /\ (c[n] = 0 => Magnitude(c[n]) = 0)
  BY <1>1 DEF Cells, Magnitude
<1>3. 1 \in S
  <2>1. Good(1, [n \in Nat |-> n])
    BY <1>1 DEF Onward
  <2> HIDE DEF Good
  <2> QED  BY <1>1, <2>1
<1>4. ASSUME NEW l \in 1..Size + 1 - 1, l \in S PROVE l + 1 \in S
  <2>1. PICK f : Good(l, f)
    BY <1>4
  <2> DEFINE s == Size - l
             g == [f EXCEPT ![s] = Onward(c, d, f, s)]
  <2>2. s \in Nat /\ s < Size
    BY <1>1
  <2>3. Onward(c, d, f, s) \in Nat
    BY <1>1, <1>2, <2>1, <2>2 DEF Onward
  <2>4. g \in [Nat -> Nat] /\ g[s] = Onward(c, d, f, s) /\ \A n \in Nat : n # s => g[n] = f[n]
    BY <2>1, <2>2, <2>3
  <2>5. s + l = Size
    BY <1>1
  <2> HIDE DEF s, g
  <2>6. ASSUME NEW n \in Nat, n + (l + 1) > Size PROVE g[n] = Onward(c, d, g, n)
    <3>1. n >= s
      BY <1>1, <2>2, <2>5, <2>6
    <3>2. n < Size => n + Magnitude(c[n]) \in Nat /\ n + Magnitude(c[n]) >= n
      BY <1>1, <1>2
    <3>3. CASE n = s /\ c[s] = 0
      <4>1. n + Magnitude(c[n]) = n
        BY <1>2, <2>2, <3>3
      <4> QED  BY <2>4, <3>3, <4>1 DEF Onward
    <3>4. CASE n = s /\ c[s] # 0
      <4>1. n + Magnitude(c[n]) \in Nat /\ n + Magnitude(c[n]) # s
        BY <1>2, <2>2, <3>4
      <4> QED  BY <2>4, <3>4, <4>1 DEF Onward
    <3>5. CASE n > s
      <4>1. n + l > Size
        BY <1>1, <2>2, <2>5, <3>5
      <4>2. f[n] = Onward(c, d, f, n)
        BY <2>1, <4>1
      <4>3. n < Size => n + Magnitude(c[n]) # s
        BY <2>2, <3>2, <3>5
      <4> QED  BY <1>1, <2>2, <2>4, <3>2, <3>5, <4>2, <4>3 DEF Onward
    <3> QED  BY <2>2, <3>1, <3>3, <3>4, <3>5
  <2>7. Good(l + 1, g)
    BY <2>4, <2>6
  <2> HIDE DEF Good
  <2> QED  BY <1>1, <1>4, <2>7
<1>5. Size + 1 \in S
  <2> HIDE DEF S
  <2> QED  BY <1>1, <1>3, <1>4, CountingUp
<1>6. PICK f : Good(Size + 1, f)
  BY <1>5
<1>7. \A n \in Nat : f[n] = Onward(c, d, f, n)
  BY <1>1, <1>6
<1> QED  BY <1>6, <1>7

\* Behind n chunks that are taken mm_get finds the next one, if it is big enough.
LEMMA FirstFitIs ==
    ASSUME NEW c \in [Cells -> Int], NEW n \in Nat, At(n) < Size,
           \A p \in 0..n - 1 : c[At(p)] = -DataSize, c[At(n)] >= DataSize
    PROVE  FirstFit(c, DataSize) = At(n)
<1> DEFINE Rec(f) == [m \in Nat |-> IF c[m] >= DataSize \/ m >= Size THEN m
                                    ELSE f[m + Magnitude(c[m])]]
           walk == CHOOSE walk : walk = Rec(walk)
           S == {l \in 1..n + 1 : walk[At(n + 1 - l)] = At(n)}
<1>1. DataSize \in Nat \ {0} /\ Size \in Nat
  BY PacketsAssumption, ManagerAssumption DEF PacketsAssumption, ManagerAssumption
<1>2. FirstFit(c, DataSize) = walk[0]
  BY DEF FirstFit
<1>3. \A m \in Nat : walk[m] = Onward(c, DataSize, walk, m)
  <2>1. \E f : f = Rec(f)
    BY <1>1, WalkExists DEF Onward
  <2>2. walk = Rec(walk)
    <3> HIDE DEF Rec
    <3> QED  BY <2>1
  <2> HIDE DEF walk
  <2> QED  BY <2>2 DEF Onward
<1> HIDE DEF walk
<1>4. \A p \in 0..n : At(p) \in Nat /\ At(p) < Size
  BY <1>1, AtGrows, AtNat
<1>5. 1 \in S
  <2>1. walk[At(n)] = At(n)
    BY <1>3, <1>4 DEF Onward
  <2> QED  BY <2>1
<1>6. ASSUME NEW l \in 1..n + 1 - 1, l \in S PROVE l + 1 \in S
  <2> DEFINE p == n - l
  <2>1. p \in 0..n - 1 /\ n + 1 - l = p + 1 /\ n + 1 - (l + 1) = p /\ p \in 0..n /\ p \in Int
    OBVIOUS
  <2> HIDE DEF p
  <2>2. c[At(p)] = -DataSize /\ At(p) \in Nat /\ At(p) < Size
    BY <1>4, <2>1
  <2>3. At(p) + Magnitude(c[At(p)]) = At(p + 1)
    BY <1>1, <2>1, <2>2, AtNext DEF Magnitude
  <2>4. walk[At(p)] = walk[At(p + 1)]
    <3>1. ~ (At(p) >= Size) /\ ~ (c[At(p)] >= DataSize)
      BY <1>1, <2>2
    <3> QED  BY <1>3, <2>2, <2>3, <3>1 DEF Onward
  <2>5. walk[At(p + 1)] = At(n)
    BY <1>6, <2>1
  <2> QED  BY <2>1, <2>4, <2>5
<1>7. n + 1 \in S
  <2> HIDE DEF S
  <2> QED  BY <1>5, <1>6, CountingUp
<1>8. n + 1 - (n + 1) = 0
  OBVIOUS
<1> QED  BY <1>2, <1>7, <1>8, AtFirst
-----------------------------------------------------------------------------
(* The forms of the catalog *)

\* The cells behind the chunks of message m that mm_put may read: none looks free.
Clean(c, m) == \A p \in m + 1..2 * NumMessages - 1 : c[At(p)] <= 0

\* The p-th chunk is in use.
Taken(c, p) == c[At(p)] = -DataSize /\ c[At(p) + DataSize - 1] = -DataSize

\* Message m has got its first n chunks, and the others will follow them: the rest of the
\* heap is one free chunk, or two of which the first is the place of the message before.
Getting(c, T, m, n) ==
    /\ Clean(c, m)
    /\ \A p \in 0..n - 1 : Taken(c, p)
    /\ \/ c[At(n)] = T - At(n)
       \/ n < m - 1 /\ c[At(n)] = At(m - 1 - n) /\ c[At(m - 1)] = T - At(m - 1)

\* What mm_put finds free to the left of the n-th chunk.
Before(c, n) == IF At(n) > 0 /\ c[At(n) - 1] > 0 THEN c[At(n) - 1] ELSE 0

\* Message m has put back its first n chunks.  Those from a on are one free chunk.  That
\* chunk begins at 0, or the one that does was merged with the rest when it had q more.
Putting(c, T, m, n) ==
    /\ Clean(c, m)
    /\ \A p \in n..m - 1 : Taken(c, p)
    /\ c[At(m)] = T - At(m)
    /\ \/ /\ n # m => Before(c, n) = At(n)
          /\ n > 0 => c[0] = At(n)
          /\ \A q \in Nat : m = 2 * q + 1 => n <= q
       \/ \E a \in 1..n :
             /\ n # m => Before(c, n) = At(n - a)
             /\ \E q \in 0..a - 1 : m = 2 * q + 1 /\ c[0] = T - At(q)

\* Where the cells of the chunks are.
LEMMA CellPlaces ==
    ASSUME NEW m \in 1..NumMessages, NEW T, Ample(T, m), NEW p \in 0..2 * NumMessages - 1
    PROVE  /\ At(p) \in Cells /\ At(p) + DataSize - 1 \in Cells
           /\ At(p) \in Nat /\ At(p) + DataSize < T /\ At(p) + DataSize < Size
           /\ T \in Nat /\ T <= Size /\ Size \in Nat /\ DataSize \in Nat \ {0}
<1>1. NumMessages \in Nat /\ Size \in Nat
  BY PacketsAssumption, ManagerAssumption DEF PacketsAssumption, ManagerAssumption
<1>2. p \in Nat /\ p < 2 * NumMessages
  BY <1>1
<1>3. At(p) + DataSize < T /\ At(p) \in Nat /\ T \in Nat /\ T <= Size /\ DataSize \in Nat \ {0}
  BY <1>2, AllInside, AtNat, AmpleRoom, AtFirst
<1> QED  BY <1>1, <1>3 DEF Cells

\* Each message gets the same places, one behind the other.
LEMMA GettingStep ==
    ASSUME NEW m \in 1..NumMessages, NEW T, Ample(T, m), NEW n \in 0..m - 1,
           NEW c \in [Cells -> Int], Getting(c, T, m, n)
    PROVE  /\ Address(c, DataSize) = At(n)
           /\ Cut(c, At(n), DataSize) \in [Cells -> Int]
           /\ Getting(Cut(c, At(n), DataSize), T, m, n + 1)
<1> DEFINE D == DataSize
           e == Cut(c, At(n), D)
<1>1. /\ NumMessages \in Nat /\ m \in Nat /\ n \in Nat /\ n < m /\ n < 2 * NumMessages
      /\ m - 1 \in 0..2 * NumMessages - 1 /\ n \in 0..2 * NumMessages - 1
      /\ n + 1 \in 0..2 * NumMessages - 1 /\ m <= NumMessages
  BY PacketsAssumption DEF PacketsAssumption
<1>2. /\ At(n) \in Nat /\ At(n) + D < T /\ At(n) + D < Size /\ T \in Nat /\ T <= Size
      /\ Size \in Nat /\ D \in Nat \ {0} /\ At(n) \in Cells /\ At(n) + D - 1 \in Cells
      /\ At(n + 1) = At(n) + D /\ At(n + 1) \in Cells
  BY <1>1, CellPlaces, AtNext
<1>3. \/ c[At(n)] = T - At(n) /\ c[At(n)] > D
      \/ /\ n < m - 1 /\ c[At(n)] = At(m - 1 - n) /\ c[At(m - 1)] = T - At(m - 1)
         /\ c[At(n)] >= D
  <2>1. CASE c[At(n)] = T - At(n)
    BY <1>2, <2>1
  <2>2. CASE n < m - 1 /\ c[At(n)] = At(m - 1 - n) /\ c[At(m - 1)] = T - At(m - 1)
    <3>1. At(1) <= At(m - 1 - n)
      BY <1>1, <2>2, AtGrows
    <3> QED  BY <2>2, <3>1, AtFirst
  <2> QED  BY <2>1, <2>2 DEF Getting
<1>4. c[At(n)] >= D /\ c[At(n)] \in Int
  BY <1>2, <1>3
<1>5. Address(c, D) = At(n)
  <2>1. FirstFit(c, D) = At(n)
    BY <1>1, <1>2, <1>4, FirstFitIs DEF Getting, Taken
  <2> QED  BY <1>2, <1>4, <2>1 DEF Address
<1>6. /\ e \in [Cells -> Int] /\ e[At(n)] = -D /\ e[At(n) + D - 1] = -D
      /\ c[At(n)] > D => e[At(n + 1)] = c[At(n)] - D
      /\ ~ (c[At(n)] > D) => e[At(n + 1)] = c[At(n + 1)]
      /\ \A x \in Cells : x < At(n) \/ x > At(n + 1) => e[x] = c[x]
  BY <1>2, <1>4 DEF Cut
<1> HIDE DEF e, D
<1>7. \A p \in 0..n - 1 : Taken(e, p)
  <2> SUFFICES ASSUME NEW p \in 0..n - 1 PROVE Taken(e, p)
    OBVIOUS
  <2>1. Taken(c, p)
    BY DEF Getting
  <2>2. At(p) + D <= At(n) /\ p \in 0..2 * NumMessages - 1
    BY <1>1, AtOrder DEF D
  <2>3. At(p) \in Cells /\ At(p) + D - 1 \in Cells /\ At(p) \in Nat
    BY <2>2, CellPlaces DEF D
  <2>4. At(p) < At(n) /\ At(p) + D - 1 < At(n)
    BY <1>2, <2>2, <2>3
  <2> QED  BY <1>6, <2>1, <2>3, <2>4 DEF Taken, D
<1>8. \A p \in 0..n : Taken(e, p)
  BY <1>1, <1>6, <1>7 DEF Taken, D
<1>9. ASSUME NEW p \in n + 2..2 * NumMessages - 1 PROVE e[At(p)] = c[At(p)]
  <2>1. At(n + 1) + D <= At(p) /\ p \in 0..2 * NumMessages - 1
    BY <1>1, AtOrder DEF D
  <2>2. At(p) \in Cells /\ At(p) \in Nat
    BY <2>1, CellPlaces
  <2> QED  BY <1>2, <1>6, <2>1, <2>2
<1>10. Clean(e, m)
  BY <1>1, <1>9 DEF Clean, Getting
<1>11. CASE c[At(n)] = T - At(n) /\ c[At(n)] > D
  <2>1. e[At(n + 1)] = T - At(n + 1)
    BY <1>2, <1>6, <1>11
  <2> QED  BY <1>1, <1>5, <1>6, <1>8, <1>10, <2>1 DEF Getting, e, D
<1>12. CASE n < m - 1 /\ c[At(n)] = At(m - 1 - n) /\ c[At(m - 1)] = T - At(m - 1)
  <2>1. CASE n + 1 = m - 1
    <3>1. c[At(n)] = D
      BY <1>1, <1>12, <2>1, AtFirst DEF D
    <3>2. e[At(n + 1)] = T - At(n + 1)
      BY <1>2, <1>6, <1>12, <2>1, <3>1
    <3> QED  BY <1>1, <1>5, <1>6, <1>8, <1>10, <3>2 DEF Getting, e, D
  <2>2. CASE n + 1 < m - 1
    <3>1. At(m - 1 - n) = At(m - 1 - (n + 1)) + D /\ At(1) <= At(m - 1 - (n + 1))
          /\ At(m - 1 - (n + 1)) \in Int
      <4>1. m - 1 - (n + 1) \in Int /\ m - 1 - (n + 1) + 1 = m - 1 - n /\ 1 <= m - 1 - (n + 1)
        BY <1>1, <2>2
      <4> QED  BY <4>1, AtNext, AtGrows DEF D
    <3>2. c[At(n)] > D /\ e[At(n + 1)] = At(m - 1 - (n + 1))
      BY <1>2, <1>6, <1>12, <3>1, AtFirst DEF D
    <3>3. e[At(m - 1)] = T - At(m - 1)
      BY <1>1, <1>9, <1>12, <2>2
    <3> QED  BY <1>1, <1>5, <1>6, <1>8, <1>10, <2>2, <3>2, <3>3 DEF Getting, e, D
  <2> QED  BY <1>1, <1>12, <2>1, <2>2
<1> QED  BY <1>3, <1>11, <1>12

\* Before the first message.
LEMMA GettingInit ==
    ASSUME NEW fill \in Fills
    PROVE  /\ mm_init(fill) \in [Cells -> Int] /\ Ample(Size, 1)
           /\ Getting(mm_init(fill), Size, 1, 0)
<1>1. /\ fill \in [Cells -> Int] /\ \A x \in Cells : fill[x] <= 0
      /\ Size \in Nat \ {0} /\ NumMessages \in Nat \ {0}
  BY PacketsAssumption, RoomAssumption, ManagerAssumption
     DEF PacketsAssumption, RoomAssumption, ManagerAssumption
<1>2. Ample(Size, 1)
  <2>1. (1 - 1) * (NumMessages - 1) = 0
    BY <1>1
  <2> QED  BY <1>1, <2>1, AtFirst DEF Ample
<1>3. /\ mm_init(fill) \in [Cells -> Int] /\ mm_init(fill)[0] = Size
      /\ \A x \in Cells : x # 0 => mm_init(fill)[x] <= 0
  BY <1>1 DEF mm_init, Cells
<1>4. Clean(mm_init(fill), 1)
  <2> SUFFICES ASSUME NEW p \in 2..2 * NumMessages - 1 PROVE mm_init(fill)[At(p)] <= 0
    BY DEF Clean
  <2>1. p \in 0..2 * NumMessages - 1 /\ p \in Nat /\ 1 <= p
    BY <1>1
  <2>2. At(p) \in Cells /\ At(p) \in Nat
    BY <1>1, <1>2, <2>1, CellPlaces
  <2>3. At(1) <= At(p)
    BY <2>1, AtGrows
  <2> QED  BY <1>3, <2>2, <2>3, AtFirst
<1> QED  BY <1>1, <1>2, <1>3, <1>4, AtFirst DEF Getting

\* After the last chunk of message m is put back the heap is ready for the next message.
LEMMA PuttingLast ==
    ASSUME NEW m \in 1..NumMessages - 1, NEW T, Ample(T, m), NEW c, Putting(c, T, m, m)
    PROVE  \E U : Ample(U, m + 1) /\ Getting(c, U, m + 1, 0)
<1>1. /\ NumMessages \in Nat /\ m \in Nat /\ m \in 1..NumMessages /\ Size \in Nat
      /\ T \in 1..Size /\ 2 * T >= 2 * Size - At((m - 1) * (NumMessages - 1))
  BY PacketsAssumption, ManagerAssumption DEF PacketsAssumption, ManagerAssumption, Ample
<1>2. Clean(c, m + 1)
  BY <1>1 DEF Clean, Putting
<1> DEFINE x == (m - 1) * (NumMessages - 1)
           y == m * (NumMessages - 1)
           w == NumMessages - 1
<1>3. x \in Int /\ y \in Int /\ w \in Nat /\ y = x + w /\ w + 1 = NumMessages
  BY <1>1
<1>4. m + 1 - 1 = m /\ 2 * T >= 2 * Size - At(x)
  BY <1>1
<1> HIDE DEF x, y, w
<1>5. At(x) \in Int /\ At(y) \in Int /\ At(w) \in Int /\ At(y) = At(x) + At(w) /\ At(w) >= 0
  <2>1. At(x + w) = At(x) + At(w) /\ At(x) \in Int
    <3>1. x \in Int /\ w \in Int
      BY <1>3
    <3> QED  BY <3>1, AtAdds
  <2>2. At(w) \in Nat
    BY <1>3, AtNat
  <2> QED  BY <1>3, <2>1, <2>2
<1>6. ASSUME c[0] = At(m) PROVE \E U : Ample(U, m + 1) /\ Getting(c, U, m + 1, 0)
  <2>1. At(m) = At(m + 1 - 1 - 0) /\ m + 1 - 1 = m /\ 0 < m + 1 - 1 /\ c[At(m)] = T - At(m)
    BY <1>1 DEF Putting
  <2>2. Getting(c, T, m + 1, 0)
    BY <1>2, <1>6, <2>1, AtFirst DEF Getting
  <2>3. Ample(T, m + 1)
    BY <1>1, <1>4, <1>5 DEF Ample, y
  <2> QED  BY <2>2, <2>3
<1>7. ASSUME NEW q \in 0..m - 1, m = 2 * q + 1, c[0] = T - At(q)
      PROVE  \E U : Ample(U, m + 1) /\ Getting(c, U, m + 1, 0)
  <2> DEFINE U == T - At(q)
  <2>1. q \in Nat /\ q + q <= w /\ 2 * q < m /\ 2 * NumMessages - 1 \in Int
    BY <1>1, <1>3, <1>7
  <2>2. At(q) \in Nat /\ At(q) + At(q) <= At(w)
    <3>1. At(q + q) = At(q) + At(q) /\ q + q \in Int
      BY <2>1, AtAdds
    <3> QED  BY <1>3, <2>1, <3>1, AtGrows, AtNat
  <2>3. U \in Int /\ U - 1 > At(2 * NumMessages - 1) + DataSize - 1
    BY <1>1, <2>1, EndIsFar
  <2>4. At(2 * NumMessages - 1) >= 0 /\ At(2 * NumMessages - 1) \in Int
    BY <1>1, <2>1, AtGrows, AtFirst
  <2>5. U \in 1..Size
    BY <1>1, <2>2, <2>3, <2>4, AtFirst
  <2>6. Ample(U, m + 1)
    <3>1. 2 * U = 2 * T - (At(q) + At(q))
      BY <1>1, <2>2
    <3> HIDE DEF U
    <3> QED  BY <1>1, <1>4, <1>5, <2>2, <2>5, <3>1 DEF Ample, y
  <2>7. Getting(c, U, m + 1, 0)
    BY <1>2, <1>7, <2>3, AtFirst DEF Getting
  <2> QED  BY <2>6, <2>7
<1>8. CASE m > 0 => c[0] = At(m)
  BY <1>1, <1>6, <1>8
<1>9. CASE \E a \in 1..m : \E q \in 0..a - 1 : m = 2 * q + 1 /\ c[0] = T - At(q)
  BY <1>1, <1>7, <1>9
<1> QED  BY <1>8, <1>9 DEF Putting

\* mm_put writes the two ends of the chunk, if these are in the catalog.
LEMMA PutAt ==
    ASSUME NEW c \in [Cells -> Int], NEW n, NEW at \in Cells, NEW size \in Int,
           NEW end \in Cells,
           Merged(c, n) = [at |-> at, size |-> size], at + size - 1 = end
    PROVE  mm_put(c, n) = [c EXCEPT ![at] = size, ![end] = size]
<1> DEFINE chunk == Merged(c, n)
           ends == {chunk.at, chunk.at + chunk.size - 1}
<1>1. mm_put(c, n) = [x \in Cells \cup ends |-> IF x \in ends THEN chunk.size ELSE c[x]]
  BY DEF mm_put
<1>2. chunk.size = size /\ ends = {at, end}
  OBVIOUS
<1> HIDE DEF chunk, ends
<1>3. Cells \cup ends = Cells
  BY <1>2
<1> QED  BY <1>1, <1>2, <1>3

\* What mm_put writes, when the chunks from a on are free before the n-th: the size of the
\* chunk that these make, or all to the end if the rest is where mm_put looks for more.
LEMMA PutWrites ==
    ASSUME NEW m \in 1..NumMessages, NEW T, Ample(T, m), NEW n \in 0..m - 1,
           NEW c \in [Cells -> Int], Putting(c, T, m, n),
           NEW a \in 0..n, Before(c, n) = At(n - a)
    PROVE  /\ mm_put(c, At(n)) \in [Cells -> Int]
           /\ 2 * n - a + 1 = m =>
                 /\ mm_put(c, At(n))[At(a)] = T - At(n)
                 /\ \A x \in Cells : x # At(a) /\ x < At(2 * NumMessages - 1) + DataSize =>
                       mm_put(c, At(n))[x] = c[x]
           /\ 2 * n - a + 1 # m =>
                 /\ mm_put(c, At(n))[At(a)] = At(n + 1 - a)
                 /\ mm_put(c, At(n))[At(n + 1) - 1] = At(n + 1 - a)
                 /\ \A x \in Cells : x # At(a) /\ x # At(n + 1) - 1 =>
                       mm_put(c, At(n))[x] = c[x]
<1> DEFINE D == DataSize
           g == n - a
           r == n + (g + 1)
           e == mm_put(c, At(n))
<1>1. /\ NumMessages \in Nat /\ m \in Nat /\ n \in Nat /\ a \in Nat /\ n < m /\ g \in Nat
      /\ a + g = n /\ r \in Nat /\ r > n /\ r = 2 * n - a + 1 /\ n + 1 - a = g + 1
      /\ a \in 0..2 * NumMessages - 1 /\ n \in 0..2 * NumMessages - 1
      /\ r \in 0..2 * NumMessages - 1 /\ m \in 0..2 * NumMessages - 1
      /\ r = m => 2 * g < m
  BY PacketsAssumption DEF PacketsAssumption
<1> HIDE DEF g
<1>2. /\ At(n) \in Nat /\ At(a) \in Nat /\ At(g) \in Nat /\ At(n) = At(a) + At(g)
      /\ At(n + 1) = At(n) + D /\ At(g + 1) = At(g) + D /\ g + 1 \in Int
  <2>1. At(a + g) = At(a) + At(g)
    BY <1>1, AtAdds
  <2>2. At(n) \in Nat /\ At(a) \in Nat /\ At(g) \in Nat
    BY <1>1, AtNat
  <2>3. At(n + 1) = At(n) + D /\ At(g + 1) = At(g) + D
    BY <1>1, AtNext
  <2> QED  BY <1>1, <2>1, <2>2, <2>3
<1>3. At(r) = At(n) + At(g + 1)
  BY <1>1, <1>2, AtAdds
<1> HIDE DEF r
<1>4. /\ D \in Nat \ {0} /\ T \in Nat /\ T <= Size /\ Size \in Nat
      /\ At(r) \in Cells /\ At(r) + D < Size /\ At(m) + D < T /\ At(m) \in Nat
      /\ At(a) \in Cells /\ At(n) \in Cells /\ At(n) + D < T
  BY <1>1, CellPlaces
<1>5. c[At(n)] = -D
  BY <1>1 DEF Putting, Taken
<1>6. WithLeft(c, At(n)) = [at |-> At(a), size |-> At(g + 1)]
  <2>1. (IF At(n) > 0 /\ c[At(n) - 1] > 0 THEN c[At(n) - 1] ELSE 0) = At(g)
    BY DEF Before, g
  <2>2. At(n) - At(g) = At(a) /\ At(g) - c[At(n)] = At(g + 1)
    BY <1>2, <1>4, <1>5
  <2> QED  BY <2>1, <2>2 DEF WithLeft
<1> HIDE DEF D
<1>7. CASE r = m
  <2>1. c[At(r)] = T - At(m) /\ c[At(r)] > 0 /\ At(r) < Size
    BY <1>4, <1>7 DEF Putting
  <2>2. At(g + 1) + c[At(r)] = T - At(n)
    BY <1>2, <1>3, <1>4, <1>7, <2>1
  <2>3. Merged(c, At(n)) = [at |-> At(a), size |-> T - At(n)]
    BY <1>3, <1>6, <2>1, <2>2 DEF Merged
  <2> DEFINE z == T - At(g) - 1
             E == At(2 * NumMessages - 1) + D
  <2>4. At(a) + (T - At(n)) - 1 = z
    BY <1>2, <1>4
  <2>5. z >= E /\ z \in Int /\ E \in Int /\ At(a) < E /\ T - At(n) \in Int
    <3>1. T - At(g) - 1 > At(2 * NumMessages - 1) + DataSize - 1
      BY <1>1, <1>7, EndIsFar
    <3>2. 2 * NumMessages - 1 \in Int /\ a \in Int /\ a <= 2 * NumMessages - 1
      BY <1>1
    <3>3. At(a) <= At(2 * NumMessages - 1) /\ At(2 * NumMessages - 1) \in Int
      BY <3>2, AtGrows
    <3> QED  BY <1>2, <1>4, <3>1, <3>3 DEF D
  <2>6. z \in Cells /\ z # At(a)
    <3>1. z < Size
      BY <1>2, <1>4
    <3> HIDE DEF z, E
    <3>2. z \in Int /\ z > At(a) /\ At(a) \in Nat /\ Size \in Nat
      BY <1>2, <1>4, <2>5
    <3> QED  BY <3>1, <3>2 DEF Cells
  <2> HIDE DEF z
  <2>7. e = [c EXCEPT ![At(a)] = T - At(n), ![z] = T - At(n)]
    <3>1. At(a) \in Cells /\ T - At(n) \in Int /\ z \in Cells
      BY <1>4, <2>5, <2>6
    <3> QED  BY <2>3, <2>4, <3>1, PutAt
  <2> HIDE DEF e
  <2>8. e \in [Cells -> Int] /\ e[At(a)] = T - At(n)
        /\ \A x \in Cells : x # At(a) /\ x # z => e[x] = c[x]
    BY <1>4, <2>5, <2>6, <2>7
  <2>9. \A x \in Cells : x < E => x # z
    <3> HIDE DEF E
    <3> QED  BY <1>4, <2>5 DEF Cells
  <2> QED  BY <1>1, <1>7, <2>8, <2>9 DEF e, D
<1>8. CASE r # m
  <2>1. c[At(r)] <= 0 /\ c[At(r)] \in Int
    <3>1. CASE r < m
      BY <1>1, <1>4, <3>1, AtFirst DEF Putting, Taken, D
    <3>2. CASE r > m
      BY <1>1, <1>4, <3>2 DEF Putting, Clean
    <3> QED  BY <1>1, <1>8, <3>1, <3>2
  <2>2. Merged(c, At(n)) = [at |-> At(a), size |-> At(g + 1)]
    BY <1>3, <1>6, <2>1 DEF Merged
  <2>3. At(a) + At(g + 1) - 1 = At(n + 1) - 1
    BY <1>2, <1>4
  <2>4. At(n + 1) - 1 \in Cells /\ At(g + 1) \in Int
    <3>1. At(n) + D - 1 \in Cells
      BY <1>1, CellPlaces DEF D
    <3> QED  BY <1>2, <1>4, <3>1
  <2>5. e = [c EXCEPT ![At(a)] = At(g + 1), ![At(n + 1) - 1] = At(g + 1)]
    BY <1>4, <2>2, <2>3, <2>4, PutAt
  <2> HIDE DEF e
  <2>6. e \in [Cells -> Int] /\ e[At(a)] = At(g + 1) /\ e[At(n + 1) - 1] = At(g + 1)
        /\ \A x \in Cells : x # At(a) /\ x # At(n + 1) - 1 => e[x] = c[x]
    BY <1>4, <2>4, <2>5
  <2> QED  BY <1>1, <1>8, <2>6 DEF e
<1> QED  BY <1>7, <1>8

\* Whatever is merged with the wrong chunk, the others stay in use and the rest in sight.
LEMMA PuttingStep ==
    ASSUME NEW m \in 1..NumMessages, NEW T, Ample(T, m), NEW n \in 0..m - 1,
           NEW c \in [Cells -> Int], Putting(c, T, m, n)
    PROVE  mm_put(c, At(n)) \in [Cells -> Int] /\ Putting(mm_put(c, At(n)), T, m, n + 1)
<1> DEFINE D == DataSize
           e == mm_put(c, At(n))
<1>1. /\ NumMessages \in Nat /\ m \in Nat /\ n \in Nat /\ n < m /\ n # m
      /\ n \in 0..2 * NumMessages - 1 /\ m \in 0..2 * NumMessages - 1
  BY PacketsAssumption DEF PacketsAssumption
<1>2. /\ D \in Nat \ {0} /\ At(n) \in Nat /\ At(n + 1) = At(n) + D
      /\ At(n) + D - 1 \in Cells /\ At(0) = 0 /\ 0 \in Cells
  <2>1. At(n) \in Nat /\ At(n) + D - 1 \in Cells /\ D \in Nat \ {0}
    BY <1>1, CellPlaces
  <2>2. At(0) \in Cells
    BY <1>1, CellPlaces
  <2> QED  BY <1>1, <2>1, <2>2, AtNext, AtFirst
\* The cells behind the n-th chunk.
<1>3. ASSUME NEW p \in n + 1..2 * NumMessages - 1
      PROVE  /\ At(p) \in Cells /\ At(p) + D - 1 \in Cells /\ At(p) >= At(n + 1)
             /\ At(p) \in Nat /\ At(p) + D - 1 < At(2 * NumMessages - 1) + D
  <2>1. p \in 0..2 * NumMessages - 1 /\ n + 1 <= p /\ p <= 2 * NumMessages - 1
        /\ p \in Int /\ 2 * NumMessages - 1 \in Int /\ n + 1 \in Int
    BY <1>1
  <2>2. /\ At(n + 1) <= At(p) /\ At(p) <= At(2 * NumMessages - 1)
        /\ At(2 * NumMessages - 1) \in Int /\ At(n + 1) \in Int
    BY <2>1, AtGrows
  <2>3. At(p) \in Cells /\ At(p) + D - 1 \in Cells /\ At(p) \in Nat
    BY <2>1, CellPlaces
  <2> QED  BY <1>2, <2>2, <2>3
<1>4. ASSUME NEW a \in 0..n, Before(c, n) = At(n - a),
             \/ a = 0 /\ \A q \in Nat : m = 2 * q + 1 => n <= q
             \/ a > 0 /\ \E q \in 0..a - 1 : m = 2 * q + 1 /\ c[0] = T - At(q)
      PROVE  e \in [Cells -> Int] /\ Putting(e, T, m, n + 1)
  <2>1. At(a) \in Nat /\ At(a) <= At(n) /\ a \in Nat /\ a <= n /\ (a > 0 => At(a) >= D)
    <3>1. a \in Nat /\ a <= n /\ (a > 0 => 1 <= a)
      BY <1>1
    <3> QED  BY <1>1, <1>2, <3>1, AtGrows, AtNat, AtFirst
  <2>2. /\ e \in [Cells -> Int]
        /\ \A x \in Cells :
              x # At(a) /\ x # At(n + 1) - 1 /\ x < At(2 * NumMessages - 1) + D => e[x] = c[x]
    <3>1. CASE 2 * n - a + 1 = m
      BY <1>4, <3>1, PutWrites DEF D
    <3>2. CASE 2 * n - a + 1 # m
      BY <1>4, <3>2, PutWrites DEF D
    <3> QED  BY <3>1, <3>2
  <2>3. ASSUME NEW p \in n + 1..2 * NumMessages - 1
        PROVE  e[At(p)] = c[At(p)] /\ e[At(p) + D - 1] = c[At(p) + D - 1]
    <3>1. /\ At(p) \in Cells /\ At(p) + D - 1 \in Cells /\ At(p) >= At(n + 1)
          /\ At(p) \in Nat /\ At(p) + D - 1 < At(2 * NumMessages - 1) + D
      BY <1>3, <2>3
    <3>2. At(p) # At(a) /\ At(p) # At(n + 1) - 1 /\ At(p) <= At(p) + D - 1
          /\ At(p) + D - 1 # At(a) /\ At(p) + D - 1 # At(n + 1) - 1
      <4> HIDE DEF D
      <4> QED  BY <1>2, <2>1, <3>1
    <3>3. At(2 * NumMessages - 1) \in Int
      <4>1. 2 * NumMessages - 1 \in Int
        BY <1>1
      <4> QED  BY <4>1, AtNext
    <3>4. At(p) < At(2 * NumMessages - 1) + D
      <4> HIDE DEF D
      <4> QED  BY <1>2, <3>1, <3>2, <3>3
    <3> HIDE DEF e, D
    <3> QED  BY <2>2, <3>1, <3>2, <3>4
  <2>4. Clean(e, m) /\ (\A p \in n + 1..m - 1 : Taken(e, p)) /\ e[At(m)] = T - At(m)
    <3>1. Clean(e, m)
      BY <1>1, <2>3 DEF Clean, Putting
    <3>2. \A p \in n + 1..m - 1 : Taken(e, p)
      BY <1>1, <2>3 DEF Taken, Putting, D
    <3>3. e[At(m)] = T - At(m)
      BY <1>1, <2>3 DEF Putting
    <3> QED  BY <3>1, <3>2, <3>3
  <2>5. a > 0 => e[0] = c[0]
    <3>1. ASSUME a > 0 PROVE At(n + 1) - 1 # 0 /\ 0 # At(a)
      BY <1>2, <2>1, <3>1
    <3>2. 0 < At(2 * NumMessages - 1) + D
      BY <1>2, <1>3, <1>1
    <3> QED  BY <1>2, <2>2, <3>1, <3>2
  <2>6. CASE 2 * n - a + 1 = m
    <3>1. e[At(a)] = T - At(n)
          /\ \A x \in Cells : x # At(a) /\ x < At(2 * NumMessages - 1) + D => e[x] = c[x]
      BY <1>4, <2>6, PutWrites DEF D
    <3>2. n + 1 # m => Before(e, n + 1) = At(n + 1 - (n + 1))
      <4> SUFFICES ASSUME n + 1 # m PROVE Before(e, n + 1) = 0
        BY <1>1, <1>2
      <4>1. n > a
        BY <1>1, <2>1, <2>6
      <4>2. At(n) + D - 1 # At(a) /\ At(n) + D - 1 < At(2 * NumMessages - 1) + D
        <5>1. At(a) + D <= At(n)
          BY <1>1, <2>1, <4>1, AtOrder DEF D
        <5>2. At(n) <= At(2 * NumMessages - 1) /\ At(2 * NumMessages - 1) \in Int
          BY <1>1, AtGrows
        <5> QED  BY <1>2, <2>1, <5>1, <5>2
      <4>3. c[At(n) + D - 1] = -D
        BY <1>1 DEF Putting, Taken, D
      <4>4. At(n + 1) - 1 = At(n) + D - 1 /\ e[At(n + 1) - 1] = -D
        BY <1>2, <3>1, <4>2, <4>3
      <4> QED  BY <1>2, <4>4 DEF Before
    <3>3. CASE a = 0
      <4>1. m = 2 * n + 1 /\ e[0] = T - At(n) /\ n + 1 \in 1..n + 1 /\ n \in 0..n + 1 - 1
        BY <1>1, <1>2, <2>6, <3>1, <3>3
      <4> QED  BY <2>2, <2>4, <3>2, <4>1 DEF Putting
    <3>4. CASE a > 0
      <4>1. PICK q \in 0..a - 1 : m = 2 * q + 1 /\ c[0] = T - At(q)
        BY <1>4, <3>4
      <4>2. q \in 0..n + 1 - 1 /\ n + 1 \in 1..n + 1
        BY <1>1, <2>1
      <4> QED  BY <2>2, <2>4, <2>5, <3>2, <3>4, <4>1, <4>2 DEF Putting
    <3> QED  BY <2>1, <3>3, <3>4
  <2>7. CASE 2 * n - a + 1 # m
    <3>1. e[At(a)] = At(n + 1 - a) /\ e[At(n + 1) - 1] = At(n + 1 - a)
      BY <1>4, <2>7, PutWrites
    <3>2. n + 1 - a \in Int /\ At(1) <= At(n + 1 - a) /\ At(n + 1 - a) \in Int
      <4>1. n + 1 - a \in Int /\ 1 <= n + 1 - a
        BY <1>1, <2>1
      <4> QED  BY <4>1, AtGrows
    <3>3. Before(e, n + 1) = At(n + 1 - a)
      BY <1>2, <3>1, <3>2, AtFirst DEF Before, D
    <3>4. CASE a = 0
      <4>1. n + 1 - a = n + 1 /\ e[0] = At(n + 1)
        BY <1>1, <1>2, <3>1, <3>4
      <4>2. \A q \in Nat : m = 2 * q + 1 => n + 1 <= q
        BY <1>1, <1>4, <2>7, <3>4
      <4> QED  BY <2>2, <2>4, <3>3, <4>1, <4>2 DEF Putting
    <3>5. CASE a > 0
      <4>1. a \in 1..n + 1 /\ \E q \in 0..a - 1 : m = 2 * q + 1 /\ e[0] = T - At(q)
        BY <1>1, <1>4, <2>1, <2>5, <3>5
      <4> QED  BY <2>2, <2>4, <3>3, <4>1 DEF Putting
    <3> QED  BY <2>1, <3>4, <3>5
  <2> QED  BY <2>6, <2>7
<1>5. CASE Before(c, n) = At(n) /\ \A q \in Nat : m = 2 * q + 1 => n <= q
  <2>1. n - 0 = n /\ 0 \in 0..n
    BY <1>1
  <2> QED  BY <1>4, <1>5, <2>1
<1>6. CASE \E a \in 1..n : Before(c, n) = At(n - a)
              /\ \E q \in 0..a - 1 : m = 2 * q + 1 /\ c[0] = T - At(q)
  BY <1>1, <1>4, <1>6
<1> QED  BY <1>1, <1>5, <1>6 DEF Putting
-----------------------------------------------------------------------------
(* The printing loop *)

\* f adds up how often the packets came.
SumsTo(r, n, f) ==
    f \in [0..n -> Int] /\ f[0] = 0 /\ \A p \in 1..n : f[p] = f[p - 1] + r[p - 1]

LEMMA SumsToExist ==
    ASSUME NEW n \in Nat, NEW r, \A p \in 0..n - 1 : r[p] \in Int
    PROVE  \E f : SumsTo(r, n, f)
<1> DEFINE S == {l \in 1..n + 1 : \E f : SumsTo(r, l - 1, f)}
<1>1. 1 \in S
  <2>1. SumsTo(r, 1 - 1, [p \in 0..0 |-> 0])
    BY DEF SumsTo
  <2> QED  BY <2>1
<1>2. ASSUME NEW l \in 1..n + 1 - 1, l \in S PROVE l + 1 \in S
  <2>1. PICK f : SumsTo(r, l - 1, f)
    BY <1>2
  <2> DEFINE g == [p \in 0..l |-> IF p = l THEN f[l - 1] + r[l - 1] ELSE f[p]]
  <2>2. f[l - 1] \in Int /\ r[l - 1] \in Int /\ l - 1 \in 0..l - 1
    BY <2>1 DEF SumsTo
  <2>3. g \in [0..l -> Int] /\ g[0] = 0 /\ g[l] = g[l - 1] + r[l - 1]
    BY <2>1, <2>2 DEF SumsTo
  <2>4. \A p \in 1..l - 1 : g[p] = g[p - 1] + r[p - 1]
    BY <2>1 DEF SumsTo
  <2> HIDE DEF g
  <2>5. \A p \in 1..l : g[p] = g[p - 1] + r[p - 1]
    BY <2>3, <2>4
  <2>6. SumsTo(r, l + 1 - 1, g) /\ l + 1 \in 1..n + 1
    BY <2>3, <2>5 DEF SumsTo
  <2> QED  BY <2>6
<1>3. n + 1 \in S
  <2> HIDE DEF S
  <2> QED  BY <1>1, <1>2, CountingUp
<1> QED  BY <1>3

LEMMA LinesIs ==
    ASSUME NEW n \in Nat, NEW r, NEW f, SumsTo(r, n, f)
    PROVE  Lines(r, n) = f[n]
<1> DEFINE Rec(g) == [p \in 0..n |-> IF p = 0 THEN 0 ELSE g[p - 1] + r[p - 1]]
           g == CHOOSE g : g = Rec(g)
           S == {l \in 1..n + 1 : g[l - 1] = f[l - 1]}
<1>1. f = Rec(f)
  BY DEF SumsTo
<1>2. g = Rec(g)
  <2> HIDE DEF Rec
  <2> QED  BY <1>1
<1>3. Lines(r, n) = g[n]
  BY DEF Lines
<1> HIDE DEF g
<1>4. 1 \in S
  BY <1>2 DEF SumsTo
<1>5. ASSUME NEW l \in 1..n + 1 - 1, l \in S PROVE l + 1 \in S
  <2>1. g[l] = g[l - 1] + r[l - 1] /\ l + 1 - 1 = l
    BY <1>2
  <2>2. f[l] = f[l - 1] + r[l - 1]
    BY DEF SumsTo
  <2> QED  BY <1>5, <2>1, <2>2
<1>6. n + 1 \in S
  <2> HIDE DEF S
  <2> QED  BY <1>4, <1>5, CountingUp
<1> QED  BY <1>3, <1>6

\* Nothing is printed of packets that never came.
LEMMA LinesNone ==
    ASSUME NEW n \in Nat, NEW r, \A p \in 0..n - 1 : r[p] = 0
    PROVE  Lines(r, n) = 0
<1>1. SumsTo(r, n, [p \in 0..n |-> 0])
  BY DEF SumsTo
<1> HIDE DEF SumsTo
<1>2. Lines(r, n) = [p \in 0..n |-> 0][n]
  BY <1>1, LinesIs
<1> QED  BY <1>2

\* s counts what r counts, and packet w once more.
OneMore(r, s, n, w) ==
    \A p \in 0..n - 1 : r[p] \in Int /\ s[p] = IF p = w THEN r[p] + 1 ELSE r[p]

\* One packet more is one line more.
LEMMA LinesOneMore ==
    ASSUME NEW n \in Nat, NEW w \in 0..n - 1, NEW r, NEW s, OneMore(r, s, n, w)
    PROVE  Lines(r, n) \in Int /\ Lines(s, n) = Lines(r, n) + 1
<1>0. \A p \in 0..n - 1 : r[p] \in Int /\ s[p] = IF p = w THEN r[p] + 1 ELSE r[p]
  BY DEF OneMore
<1>1. PICK f : SumsTo(r, n, f)
  BY <1>0, SumsToExist
<1> DEFINE g == [p \in 0..n |-> IF p > w THEN f[p] + 1 ELSE f[p]]
<1>2. SumsTo(s, n, g)
  <2>1. g \in [0..n -> Int] /\ g[0] = 0
    BY <1>1 DEF SumsTo
  <2>2. ASSUME NEW p \in 1..n PROVE g[p] = g[p - 1] + s[p - 1]
    <3>1. f[p] = f[p - 1] + r[p - 1] /\ f[p - 1] \in Int /\ f[p] \in Int
      BY <1>1 DEF SumsTo
    <3>2. r[p - 1] \in Int /\ s[p - 1] = IF p - 1 = w THEN r[p - 1] + 1 ELSE r[p - 1]
      BY <1>0
    <3>3. CASE p - 1 = w
      BY <3>1, <3>2, <3>3
    <3>4. CASE p - 1 > w
      BY <3>1, <3>2, <3>4
    <3>5. CASE p - 1 < w
      BY <3>1, <3>2, <3>5
    <3> QED  BY <3>3, <3>4, <3>5
  <2> QED  BY <2>1, <2>2 DEF SumsTo
<1>3. g[n] = f[n] + 1 /\ f[n] \in Int
  BY <1>1 DEF SumsTo
<1> HIDE DEF g, SumsTo
<1>4. Lines(r, n) = f[n] /\ Lines(s, n) = g[n]
  BY <1>1, <1>2, LinesIs
<1> QED  BY <1>3, <1>4

-----------------------------------------------------------------------------
(* The program while its signals come in pause *)

\* The first l messages were printed, each with as many packets as it has.
Whole(l) == [n \in 1..l |-> [number |-> n, packets |-> n]]

NothingReceived == \A p \in Packet : numReceived[p] = 0

\* The first n packets have their places.
Placed(n) == \A p \in 0..n - 1 : data[p] = At(p)

Waits == pc \in {"wait", "call", "pause"}

\* main waits for the first packet of a message.
Fresh ==
    /\ handler = "idle" /\ Waits /\ cnt_msg <= NumMessages
    /\ pkt_cnt = 0 /\ pkt_total = 1 /\ NothingReceived
    /\ held = {} /\ printed = Whole(cnt_msg - 1)
    /\ \E T : Ample(T, cnt_msg) /\ Getting(catalog, T, cnt_msg, 0)

\* The handler has got memory for k packets.
Allocating ==
    /\ handler = "allocate" /\ pc = "wait" /\ cnt_msg <= NumMessages
    /\ pkt_cnt = 0 /\ pkt_total = 1 /\ NothingReceived
    /\ k <= cnt_msg /\ which \in 0..cnt_msg - 1
    /\ held = 0..k - 1 /\ Placed(k) /\ printed = Whole(cnt_msg - 1)
    /\ \E T : Ample(T, cnt_msg) /\ Getting(catalog, T, cnt_msg, k)

\* The message has all its memory and not all its packets.
Receiving ==
    /\ \/ handler = "idle" /\ Waits /\ pkt_cnt > 0
       \/ handler = "store" /\ pc = "wait" /\ which \in 0..cnt_msg - 1
    /\ cnt_msg <= NumMessages
    /\ pkt_cnt \in 0..cnt_msg - 1 /\ pkt_total = (IF pkt_cnt = 0 THEN 1 ELSE cnt_msg)
    /\ Lines(numReceived, cnt_msg) = pkt_cnt
    /\ \A p \in Packet : numReceived[p] <= pkt_cnt
    /\ held = 0..cnt_msg - 1 /\ Placed(cnt_msg) /\ printed = Whole(cnt_msg - 1)
    /\ \E T : Ample(T, cnt_msg) /\ Getting(catalog, T, cnt_msg, cnt_msg)

\* The handler has put back the memory of k packets.
Returning ==
    /\ handler = "put" /\ pc = "wait" /\ cnt_msg <= NumMessages
    /\ pkt_cnt = cnt_msg /\ pkt_total = cnt_msg /\ k <= cnt_msg
    /\ held = k..cnt_msg - 1 /\ Placed(cnt_msg) /\ printed = Whole(cnt_msg)
    /\ \E T : Ample(T, cnt_msg) /\ Putting(catalog, T, cnt_msg, k)

\* The message is complete, and main resets one thing after the other.
Resetting ==
    /\ handler = "idle" /\ cnt_msg <= NumMessages
    /\ \/ pc \in {"wait", "total"} /\ pkt_cnt = cnt_msg /\ pkt_total = cnt_msg
       \/ pc = "cnt" /\ pkt_cnt = cnt_msg /\ pkt_total = 1
       \/ pc = "received" /\ pkt_cnt = 0 /\ pkt_total = 1 /\ \A p \in 0..i - 1 : numReceived[p] = 0
       \/ pc = "next" /\ pkt_cnt = 0 /\ pkt_total = 1 /\ NothingReceived
    /\ held = {} /\ printed = Whole(cnt_msg)
    /\ \E T : Ample(T, cnt_msg) /\ Putting(catalog, T, cnt_msg, cnt_msg)

\* All messages are printed.
Over ==
    /\ handler = "idle" /\ pc \in {"release", "released", "exited"}
    /\ cnt_msg = NumMessages + 1 /\ pkt_cnt = 0 /\ pkt_total = 1
    /\ held = {} /\ printed = Whole(NumMessages)

Kinds ==
    /\ catalog \in [Cells -> Int]
    /\ data \in [Packet -> Bytes \cup {NULL}]
    /\ numReceived \in [Packet -> 0..NumMessages]
    /\ which \in Packet /\ k \in 0..MaxPackets /\ i \in 0..MaxPackets
    /\ cnt_msg \in 1..NumMessages + 1 /\ j = cnt_msg
    /\ fault = "none"

Stage == Fresh \/ Allocating \/ Receiving \/ Returning \/ Resetting \/ Over

\* In step: what holds while no signal fell outside pause.
InStep == late \in 0..MaxAlarms /\ (late = 0 => Kinds /\ Stage)

LEMMA Sizes ==
    /\ NumMessages \in Nat \ {0} /\ MaxPackets \in Nat /\ NumMessages < MaxPackets
    /\ DataSize \in Nat \ {0} /\ Size \in Nat \ {0} /\ NULL \notin Nat /\ MaxAlarms \in Nat
BY PacketsAssumption, ManagerAssumption DEF PacketsAssumption, ManagerAssumption

\* A message has no more packets than there is room for, and its places are addresses.
LEMMA MessageSizes ==
    ASSUME NEW m \in 1..NumMessages, NEW T, Ample(T, m), NEW p \in 0..m - 1
    PROVE  p \in Packet /\ At(p) \in Bytes /\ At(p) \in Nat /\ At(p) # NULL
<1>1. p \in 0..2 * NumMessages - 1 /\ p \in Packet
  BY Sizes DEF Packet
<1>2. At(p) \in Nat /\ At(p) + DataSize < Size
  BY <1>1, CellPlaces
<1> QED  BY <1>1, <1>2, Sizes DEF Bytes

LEMMA WholeAppend ==
    ASSUME NEW l \in Nat
    PROVE  Append(Whole(l), [number |-> l + 1, packets |-> l + 1]) = Whole(l + 1)
<1> DEFINE R == [number : Nat, packets : Nat]
           r == [number |-> l + 1, packets |-> l + 1]
           s == Append(Whole(l), r)
<1>1. Whole(l) \in Seq(R) /\ r \in R /\ Len(Whole(l)) = l
  BY DEF Whole
<1> HIDE DEF R
<1>2. /\ s \in Seq(R) /\ Len(s) = l + 1
      /\ \A n \in 1..l + 1 : s[n] = IF n <= l THEN Whole(l)[n] ELSE r
  <2> HIDE DEF r
  <2> QED  BY <1>1
<1>3. \A n \in 1..l + 1 : s[n] = [number |-> n, packets |-> n]
  <2> SUFFICES ASSUME NEW n \in 1..l + 1 PROVE s[n] = [number |-> n, packets |-> n]
    OBVIOUS
  <2> HIDE DEF s
  <2>1. CASE n <= l
    BY <1>2, <2>1 DEF Whole
  <2>2. CASE n = l + 1
    BY <1>2, <2>2
  <2> QED  BY <2>1, <2>2
<1>4. s = [n \in 1..l + 1 |-> s[n]]
  <2> HIDE DEF s
  <2> QED  BY <1>2
<1> HIDE DEF s
<1> QED  BY <1>3, <1>4 DEF Whole, s, r

LEMMA Starts == Init => InStep
<1> SUFFICES ASSUME Init PROVE Kinds /\ Fresh /\ late \in 0..MaxAlarms
  BY DEF InStep, Stage
<1>1. PICK fill \in Fills : catalog = mm_init(fill)
  BY DEF Init
<1>2. catalog \in [Cells -> Int] /\ Ample(Size, 1) /\ Getting(catalog, Size, 1, 0)
  BY <1>1, GettingInit
<1>3. Kinds
  BY <1>2, Sizes DEF Init, Kinds, Packet
<1>4. Whole(1 - 1) = <<>>
  BY DEF Whole
<1>5. Fresh
  BY <1>2, <1>4, Sizes DEF Init, Fresh, Waits, NothingReceived
<1> QED  BY <1>3, <1>5, Sizes DEF Init

LEMMA AlarmInStep == ASSUME Kinds, Stage, Alarm, pc = "pause" PROVE Kinds' /\ Stage'
<1>1. /\ handler = "idle" /\ pc' = "wait" /\ which' \in 0..cnt_msg - 1 /\ k' = 0
      /\ handler' = IF pkt_cnt = 0 THEN "allocate" ELSE "store"
      /\ UNCHANGED <<catalog, message, counters, j, i, held, printed, fault>>
  BY DEF Alarm
<1>2. cnt_msg \in 1..NumMessages
  BY <1>1 DEF Kinds, Stage, Fresh, Allocating, Receiving, Returning, Resetting, Over
<1>3. Kinds'
  BY <1>1, <1>2, Sizes DEF Kinds, Packet, message, counters
<1>4. CASE Fresh
  <2>1. 0..0 - 1 = {}
    OBVIOUS
  <2>2. Placed(0)'
    BY DEF Placed
  <2>3. Allocating'
    BY <1>1, <1>2, <1>4, <2>1, <2>2
       DEF Fresh, Allocating, NothingReceived, message, counters
  <2> QED  BY <1>3, <2>3 DEF Stage
<1>5. CASE Receiving
  <2>1. pkt_cnt > 0 /\ pkt_cnt \in 0..cnt_msg - 1
    BY <1>1, <1>5 DEF Receiving
  <2>2. handler' = "store"
    BY <1>1, <1>2, <2>1
  <2>3. Receiving'
    BY <1>1, <1>5, <2>2 DEF Receiving, Placed, message, counters
  <2> QED  BY <1>3, <2>3 DEF Stage
<1> QED  BY <1>1, <1>4, <1>5 DEF Stage, Allocating, Returning, Resetting, Over

LEMMA AllocateInStep == ASSUME Kinds, Stage, Allocate PROVE Kinds' /\ Stage'
<1>1. Allocating
  BY DEF Allocate, Stage, Fresh, Receiving, Returning, Resetting, Over
<1>2. PICK T : Ample(T, cnt_msg) /\ Getting(catalog, T, cnt_msg, k)
  BY <1>1 DEF Allocating
<1>3. cnt_msg \in 1..NumMessages /\ k \in Nat /\ catalog \in [Cells -> Int]
  BY <1>1 DEF Allocating, Kinds
<1>4. UNCHANGED <<numReceived, counters, mainVars, which, printed, late, fault>>
  BY DEF Allocate
<1>5. CASE k < cnt_msg
  <2>1. k \in 0..cnt_msg - 1
    BY <1>3, <1>5
  <2>2. /\ Address(catalog, DataSize) = At(k)
        /\ Cut(catalog, At(k), DataSize) \in [Cells -> Int]
        /\ Getting(Cut(catalog, At(k), DataSize), T, cnt_msg, k + 1)
    BY <1>2, <1>3, <2>1, GettingStep
  <2>3. k \in Packet /\ At(k) \in Bytes /\ At(k) # NULL
    BY <1>2, <1>3, <2>1, MessageSizes
  <2>4. /\ data' = [data EXCEPT ![k] = At(k)]
        /\ catalog' = Cut(catalog, At(k), DataSize)
        /\ held' = held \cup {k} /\ k' = k + 1 /\ handler' = "allocate"
    BY <1>3, <1>5, <2>2, <2>3 DEF Allocate
  <2>5. Kinds'
    <3>1. catalog' \in [Cells -> Int]
      BY <2>2, <2>4
    <3>2. data' \in [Packet -> Bytes \cup {NULL}]
      BY <2>3, <2>4 DEF Kinds
    <3>3. k' \in 0..MaxPackets
      BY <1>3, <2>1, <2>4, Sizes
    <3> QED  BY <1>4, <3>1, <3>2, <3>3 DEF Kinds, counters, mainVars
  <2>6. held' = 0..k' - 1
    BY <1>1, <1>3, <2>4 DEF Allocating
  <2>7. Placed(k)'
    <3>1. \A p \in 0..k - 1 : p # k /\ p \in Packet
      BY <1>3, <2>3, Sizes DEF Packet
    <3>2. data'[k] = At(k) /\ \A p \in 0..k - 1 : data'[p] = data[p]
      BY <2>3, <2>4, <3>1 DEF Kinds
    <3>3. \A p \in 0..k - 1 : data[p] = At(p)
      BY <1>1 DEF Allocating, Placed
    <3>4. \A p \in 0..k' - 1 : p \in 0..k - 1 \/ p = k
      BY <1>3, <2>4
    <3> QED  BY <3>2, <3>3, <3>4 DEF Placed
  <2>8. k' <= cnt_msg
    BY <1>3, <2>1, <2>4
  <2>9. \E U : Ample(U, cnt_msg') /\ Getting(catalog', U, cnt_msg', k')
    BY <1>2, <1>4, <2>2, <2>4 DEF counters
  <2>10. Allocating'
    BY <1>1, <1>4, <2>4, <2>6, <2>7, <2>8, <2>9
       DEF Allocating, NothingReceived, counters, mainVars
  <2> QED  BY <2>5, <2>10 DEF Stage
<1>6. CASE k = cnt_msg
  <2>1. handler' = "store" /\ UNCHANGED <<data, catalog, held, k>>
    BY <1>3, <1>6 DEF Allocate
  <2>2. Kinds'
    BY <1>4, <2>1 DEF Kinds, counters, mainVars
  <2>3. Lines(numReceived, cnt_msg) = 0
    <3>1. \A p \in 0..cnt_msg - 1 : p \in Packet
      BY <1>3, Sizes DEF Packet
    <3>2. \A p \in 0..cnt_msg - 1 : numReceived[p] = 0
      BY <1>1, <3>1 DEF Allocating, NothingReceived
    <3> QED  BY <1>3, <3>2, LinesNone
  <2>4. \A p \in Packet : numReceived[p] <= 0
    BY <1>1 DEF Allocating, NothingReceived
  <2>5. Placed(cnt_msg) /\ held = 0..cnt_msg - 1
    BY <1>1, <1>6 DEF Allocating
  <2>6. Receiving'
    <3>1. pkt_cnt = 0 /\ 0 \in 0..cnt_msg - 1
      BY <1>1, <1>3 DEF Allocating
    <3> QED  BY <1>1, <1>2, <1>4, <1>6, <2>1, <2>3, <2>4, <2>5, <3>1
             DEF Allocating, Receiving, Placed, counters, mainVars
  <2> QED  BY <2>2, <2>6 DEF Stage
<1> QED  BY <1>1, <1>3, <1>5, <1>6 DEF Allocating

LEMMA StoreInStep == ASSUME Kinds, Stage, Store PROVE Kinds' /\ Stage'
<1>1. Receiving /\ handler = "store"
  BY DEF Store, Stage, Fresh, Allocating, Returning, Resetting, Over
<1>2. PICK T : Ample(T, cnt_msg) /\ Getting(catalog, T, cnt_msg, cnt_msg)
  BY <1>1 DEF Receiving
<1>3. /\ cnt_msg \in 1..NumMessages /\ which \in 0..cnt_msg - 1 /\ which \in Packet
      /\ pkt_cnt \in 0..cnt_msg - 1 /\ numReceived \in [Packet -> 0..NumMessages]
  BY <1>1 DEF Receiving, Kinds
<1>4. data[which] # NULL
  BY <1>1, <1>2, <1>3, MessageSizes DEF Receiving, Placed
<1>5. /\ UNCHANGED <<catalog, data, mainVars, which, held, late, cnt_msg, fault>>
      /\ numReceived' = [numReceived EXCEPT ![which] = @ + 1]
      /\ pkt_total' = cnt_msg /\ pkt_cnt' = pkt_cnt + 1 /\ k' = 0
      /\ IF IsLast
         THEN /\ handler' = "put"
              /\ printed' = Append(printed, [number |-> cnt_msg,
                                             packets |-> Lines(numReceived', cnt_msg)])
         ELSE handler' = "idle" /\ printed' = printed
  BY <1>4 DEF Store
<1>6. /\ \A p \in Packet : /\ numReceived'[p] \in Int /\ numReceived[p] \in Int
                           /\ numReceived'[p] = IF p = which THEN numReceived[p] + 1
                                                ELSE numReceived[p]
                           /\ numReceived'[p] <= pkt_cnt + 1
      /\ numReceived' \in [Packet -> 0..NumMessages]
  <2>1. \A p \in Packet : numReceived[p] \in 0..NumMessages /\ numReceived[p] <= pkt_cnt
    BY <1>1, <1>3 DEF Receiving
  <2>2. numReceived[which] + 1 \in 0..NumMessages
    BY <1>3, <2>1, Sizes
  <2> QED  BY <1>3, <1>5, <2>1, <2>2, Sizes
<1>7. Kinds'
  BY <1>5, <1>6, Sizes DEF Kinds, mainVars
<1>8. Lines(numReceived', cnt_msg) = pkt_cnt + 1
  <2>1. \A p \in 0..cnt_msg - 1 : p \in Packet
    BY <1>3, Sizes DEF Packet
  <2>2. Lines(numReceived', cnt_msg) = Lines(numReceived, cnt_msg) + 1
    <3>1. cnt_msg \in Nat
      BY <1>3
    <3>2. OneMore(numReceived, numReceived', cnt_msg, which)
      BY <1>6, <2>1 DEF OneMore
    <3> QED  BY <1>3, <3>1, <3>2, LinesOneMore
  <2> QED  BY <1>1, <2>2 DEF Receiving
<1>9. CASE IsLast
  <2>1. pkt_cnt + 1 = cnt_msg
    BY <1>9 DEF IsLast
  <2>2. printed' = Whole(cnt_msg)
    <3>1. printed' = Append(Whole(cnt_msg - 1), [number |-> cnt_msg, packets |-> cnt_msg])
      BY <1>1, <1>5, <1>8, <1>9, <2>1 DEF Receiving
    <3>2. cnt_msg - 1 \in Nat /\ cnt_msg - 1 + 1 = cnt_msg
      BY <1>3
    <3> QED  BY <3>1, <3>2, WholeAppend
  <2>3. Getting(catalog, T, cnt_msg, cnt_msg) => Putting(catalog, T, cnt_msg, 0)
    <3>1. 0 # cnt_msg /\ ~ (cnt_msg < cnt_msg - 1) /\ ~ (0 > 0)
          /\ \A q \in Nat : cnt_msg = 2 * q + 1 => 0 <= q
      BY <1>3
    <3>2. Before(catalog, 0) = At(0)
      BY AtFirst DEF Before
    <3> QED  BY <3>1, <3>2 DEF Getting, Putting
  <2>4. Returning'
    BY <1>1, <1>2, <1>3, <1>5, <1>9, <2>1, <2>2, <2>3
       DEF Receiving, Returning, Placed, mainVars
  <2> QED  BY <1>7, <2>4 DEF Stage
<1>10. CASE ~ IsLast
  <2>1. pkt_cnt' \in 0..cnt_msg - 1 /\ pkt_cnt' > 0 /\ pkt_cnt' # 0
    BY <1>3, <1>5, <1>10 DEF IsLast
  <2>2. Lines(numReceived', cnt_msg') = pkt_cnt' /\ \A p \in Packet : numReceived'[p] <= pkt_cnt'
    BY <1>5, <1>6, <1>8
  <2>3. Receiving'
    BY <1>1, <1>2, <1>5, <1>10, <2>1, <2>2 DEF Receiving, Placed, Waits, mainVars
  <2> QED  BY <1>7, <2>3 DEF Stage
<1> QED  BY <1>9, <1>10

LEMMA PutBackInStep == ASSUME Kinds, Stage, PutBack PROVE Kinds' /\ Stage'
<1>1. Returning
  BY DEF PutBack, Stage, Fresh, Allocating, Receiving, Resetting, Over
<1>2. PICK T : Ample(T, cnt_msg) /\ Putting(catalog, T, cnt_msg, k)
  BY <1>1 DEF Returning
<1>3. /\ cnt_msg \in 1..NumMessages /\ k \in Nat /\ k <= cnt_msg /\ pkt_total = cnt_msg
      /\ catalog \in [Cells -> Int]
  BY <1>1 DEF Returning, Kinds
<1>4. UNCHANGED <<message, counters, mainVars, which, printed, late, fault>>
  BY DEF PutBack
<1>5. CASE k < cnt_msg
  <2>1. k \in 0..cnt_msg - 1
    BY <1>3, <1>5
  <2>2. data[k] = At(k) /\ data[k] # NULL
    BY <1>1, <1>2, <1>3, <2>1, MessageSizes DEF Returning, Placed
  <2>3. /\ mm_put(catalog, At(k)) \in [Cells -> Int]
        /\ Putting(mm_put(catalog, At(k)), T, cnt_msg, k + 1)
    BY <1>2, <1>3, <2>1, PuttingStep
  <2>4. /\ catalog' = mm_put(catalog, At(k)) /\ held' = held \ {k} /\ k' = k + 1
        /\ handler' = "put"
    BY <1>3, <1>5, <2>2 DEF PutBack
  <2>5. Kinds'
    <3>1. k' \in 0..MaxPackets
      BY <1>3, <2>1, <2>4, Sizes
    <3> QED  BY <1>4, <2>3, <2>4, <3>1 DEF Kinds, message, counters, mainVars
  <2>6. held' = k'..cnt_msg - 1 /\ k' <= cnt_msg
    BY <1>1, <1>3, <2>1, <2>4 DEF Returning
  <2>7. Returning'
    BY <1>1, <1>2, <1>4, <2>3, <2>4, <2>6
       DEF Returning, Placed, message, counters, mainVars
  <2> QED  BY <2>5, <2>7 DEF Stage
<1>6. CASE k = cnt_msg
  <2>1. handler' = "idle" /\ UNCHANGED <<catalog, held, k>>
    BY <1>3, <1>6 DEF PutBack
  <2>2. Kinds'
    BY <1>4, <2>1 DEF Kinds, message, counters, mainVars
  <2>3. held = {}
    BY <1>1, <1>3, <1>6 DEF Returning
  <2>4. Resetting'
    BY <1>1, <1>2, <1>4, <1>6, <2>1, <2>3 DEF Returning, Resetting, message, counters, mainVars
  <2> QED  BY <2>2, <2>4 DEF Stage
<1> QED  BY <1>3, <1>5, <1>6

\* The steps of main that touch neither memory nor messages.
LEMMA MainInStep ==
    ASSUME Kinds, Stage, WaitForMessage \/ ResetTotal \/ ResetCount \/ Exit
    PROVE  Kinds' /\ Stage'
<1>1. /\ handler = "idle" /\ handler' = handler
      /\ UNCHANGED <<catalog, message, cnt_msg, j, k, which, held, printed, late, fault>>
  BY DEF WaitForMessage, ResetTotal, ResetCount, Exit, counters, MainMoves
<1>2. CASE WaitForMessage
  <2>1. UNCHANGED <<i, counters>> /\ pc \in {"wait", "call"}
    BY <1>2 DEF WaitForMessage
  <2>2. Kinds'
    BY <1>1, <2>1 DEF Kinds, message, counters
  <2>3. CASE Fresh
    <3>1. pc' \in {"wait", "call", "pause"}
      BY <1>2, <2>3 DEF WaitForMessage, Fresh
    <3>2. Fresh'
      BY <1>1, <2>1, <2>3, <3>1 DEF Fresh, Waits, NothingReceived, message, counters
    <3> QED  BY <2>2, <3>2 DEF Stage
  <2>4. CASE Receiving
    <3>1. pkt_cnt < pkt_total /\ pkt_cnt > 0
      BY <1>1, <2>4 DEF Receiving, Kinds
    <3>2. pc' \in {"wait", "call", "pause"}
      BY <1>2, <3>1 DEF WaitForMessage
    <3>3. Receiving'
      BY <1>1, <2>1, <2>4, <3>1, <3>2 DEF Receiving, Waits, Placed, message, counters
    <3> QED  BY <2>2, <3>3 DEF Stage
  <2>5. CASE Resetting
    <3>1. pc = "wait" /\ pkt_cnt = cnt_msg /\ pkt_total = cnt_msg /\ cnt_msg \in Int
      BY <2>1, <2>5 DEF Resetting, Kinds
    <3>2. pc' = "total"
      BY <1>2, <3>1 DEF WaitForMessage
    <3>3. Resetting'
      BY <1>1, <2>1, <2>5, <3>1, <3>2 DEF Resetting, message, counters
    <3> QED  BY <2>2, <3>3 DEF Stage
  <2> QED  BY <1>1, <2>1, <2>3, <2>4, <2>5 DEF Stage, Allocating, Returning, Over
<1>3. CASE ResetTotal
  <2>1. Resetting /\ pc = "total" /\ pc' = "cnt" /\ pkt_total' = 1 /\ UNCHANGED <<pkt_cnt, i>>
    BY <1>1, <1>3 DEF ResetTotal, Stage, Fresh, Waits, Allocating, Receiving, Returning, Over
  <2>2. Kinds' /\ Resetting'
    BY <1>1, <2>1 DEF Resetting, Kinds, message
  <2> QED  BY <2>2 DEF Stage
<1>4. CASE ResetCount
  <2>1. Resetting /\ pc = "cnt" /\ pc' = "received" /\ pkt_cnt' = 0 /\ i' = 0
        /\ UNCHANGED pkt_total
    BY <1>1, <1>4 DEF ResetCount, Stage, Fresh, Waits, Allocating, Receiving, Returning, Over
  <2>2. Kinds'
    BY <1>1, <2>1, Sizes DEF Kinds, message
  <2>3. \A p \in 0..i' - 1 : numReceived'[p] = 0
    BY <2>1
  <2>4. Resetting'
    BY <1>1, <2>1, <2>3 DEF Resetting, message
  <2> QED  BY <2>2, <2>4 DEF Stage
<1>5. CASE Exit
  <2>1. Over /\ pc' \in {"released", "exited"} /\ UNCHANGED <<counters, i>>
    BY <1>1, <1>5 DEF Exit, Stage, Fresh, Waits, Allocating, Receiving, Returning, Resetting
  <2>2. Kinds' /\ Over'
    BY <1>1, <2>1 DEF Over, Kinds, message, counters
  <2> QED  BY <2>2 DEF Stage
<1> QED  BY <1>2, <1>3, <1>4, <1>5

LEMMA ResetReceivedInStep == ASSUME Kinds, Stage, ResetReceived PROVE Kinds' /\ Stage'
<1>1. /\ UNCHANGED <<catalog, data, counters, j, handler, k, which, held, printed, late, fault>>
      /\ IF i < MaxPackets
         THEN numReceived' = [numReceived EXCEPT ![i] = 0] /\ i' = i + 1 /\ pc' = pc
         ELSE pc' = "next" /\ UNCHANGED <<numReceived, i>>
  BY DEF ResetReceived
<1>2. /\ Resetting /\ pc = "received" /\ pkt_cnt = 0 /\ pkt_total = 1
      /\ \A p \in 0..i - 1 : numReceived[p] = 0
  BY DEF ResetReceived, MainMoves, Stage, Fresh, Waits, Allocating, Receiving, Returning,
         Resetting, Over
<1>3. numReceived \in [Packet -> 0..NumMessages] /\ i \in 0..MaxPackets
  BY DEF Kinds
<1>4. CASE i < MaxPackets
  <2>1. i \in Packet /\ numReceived' = [numReceived EXCEPT ![i] = 0] /\ i' = i + 1 /\ pc' = pc
    BY <1>1, <1>3, <1>4, Sizes DEF Packet
  <2>2. numReceived' \in [Packet -> 0..NumMessages] /\ i' \in 0..MaxPackets
    BY <1>3, <1>4, <2>1, Sizes
  <2>3. \A p \in 0..i' - 1 : numReceived'[p] = 0
    <3> SUFFICES ASSUME NEW p \in 0..i' - 1 PROVE numReceived'[p] = 0
      OBVIOUS
    <3>1. p \in 0..i - 1 \/ p = i
      BY <1>3, <2>1
    <3>2. p \in Packet
      BY <1>3, <1>4, <3>1, Sizes DEF Packet
    <3> QED  BY <1>2, <1>3, <2>1, <3>1, <3>2
  <2>4. Kinds'
    BY <1>1, <2>2 DEF Kinds, counters
  <2>5. Resetting'
    BY <1>1, <1>2, <2>1, <2>3 DEF Resetting, counters
  <2> QED  BY <2>4, <2>5 DEF Stage
<1>5. CASE ~ (i < MaxPackets)
  <2>1. pc' = "next" /\ UNCHANGED <<numReceived, i>>
    BY <1>1, <1>5
  <2>2. Kinds'
    BY <1>1, <2>1 DEF Kinds, counters
  <2>3. NothingReceived'
    <3>1. i = MaxPackets
      BY <1>3, <1>5, Sizes
    <3> QED  BY <1>2, <2>1, <3>1 DEF NothingReceived, Packet
  <2>4. Resetting'
    BY <1>1, <1>2, <2>1, <2>3 DEF Resetting, counters
  <2> QED  BY <2>2, <2>4 DEF Stage
<1> QED  BY <1>4, <1>5

LEMMA NextMessageInStep == ASSUME Kinds, Stage, NextMessage PROVE Kinds' /\ Stage'
<1>1. /\ UNCHANGED <<catalog, message, pkt_cnt, pkt_total, i, handler, k, which, held, printed,
                     late, fault>>
      /\ cnt_msg' = cnt_msg + 1
      /\ j' = j + 1 /\ pc' = IF j < NumMessages THEN "wait" ELSE "release"
  BY DEF NextMessage
<1>2. /\ Resetting /\ pc = "next" /\ pkt_cnt = 0 /\ pkt_total = 1 /\ NothingReceived
  BY DEF NextMessage, MainMoves, Stage, Fresh, Waits, Allocating, Receiving, Returning,
         Resetting, Over
<1>3. cnt_msg \in 1..NumMessages /\ j = cnt_msg
  BY <1>2 DEF Kinds, Resetting
<1>4. PICK T : Ample(T, cnt_msg) /\ Putting(catalog, T, cnt_msg, cnt_msg)
  BY <1>2 DEF Resetting
<1>5. Kinds'
  BY <1>1, <1>3, Sizes DEF Kinds, message
<1>6. CASE cnt_msg < NumMessages
  <2>1. cnt_msg \in 1..NumMessages - 1 /\ cnt_msg' <= NumMessages /\ pc' = "wait"
        /\ cnt_msg' - 1 = cnt_msg
    BY <1>1, <1>3, <1>6, Sizes
  <2>2. \E U : Ample(U, cnt_msg + 1) /\ Getting(catalog, U, cnt_msg + 1, 0)
    BY <1>4, <2>1, PuttingLast
  <2>3. Fresh'
    BY <1>1, <1>2, <2>1, <2>2 DEF Resetting, Fresh, Waits, NothingReceived, message
  <2> QED  BY <1>5, <2>3 DEF Stage
<1>7. CASE cnt_msg = NumMessages
  <2>1. pc' = "release"
    BY <1>1, <1>3, <1>7
  <2>2. Over'
    BY <1>1, <1>2, <1>7, <2>1 DEF Resetting, Over
  <2> QED  BY <1>5, <2>2 DEF Stage
<1> QED  BY <1>3, <1>6, <1>7, Sizes

\* While the signals come in pause the heap and the messages keep step.
LEMMA InStepAlways == Spec => []InStep
<1>1. ASSUME InStep, [Next]_vars PROVE InStep'
  <2>1. late \in 0..MaxAlarms /\ late' \in 0..MaxAlarms /\ (late' = 0 => late = 0)
    <3>1. CASE Alarm
      BY <1>1, <3>1, Sizes DEF Alarm, InStep
    <3>2. CASE Handler \/ Main
      BY <1>1, <3>2 DEF Handler, UseAfterFree, Allocate, Store, PutBack, Main, WaitForMessage,
                        ResetTotal, ResetCount, ResetReceived, NextMessage, Exit, InStep
    <3>3. CASE UNCHANGED vars
      BY <1>1, <3>3 DEF vars, InStep
    <3> QED  BY <1>1, <3>1, <3>2, <3>3 DEF Next
  <2> SUFFICES ASSUME late' = 0 PROVE Kinds' /\ Stage'
    BY <2>1 DEF InStep
  <2>2. Kinds /\ Stage
    BY <1>1, <2>1 DEF InStep
  <2>3. CASE Alarm
    <3>1. pc = "pause"
      BY <2>1, <2>3 DEF Alarm
    <3> QED  BY <2>2, <2>3, <3>1, AlarmInStep
  <2>4. CASE UseAfterFree
    BY <2>2, <2>4 DEF UseAfterFree, Stage, Fresh, Allocating, Receiving, Returning, Resetting, Over
  <2>5. CASE Allocate
    BY <2>2, <2>5, AllocateInStep
  <2>6. CASE Store
    BY <2>2, <2>6, StoreInStep
  <2>7. CASE PutBack
    BY <2>2, <2>7, PutBackInStep
  <2>8. CASE WaitForMessage \/ ResetTotal \/ ResetCount \/ Exit
    BY <2>2, <2>8, MainInStep
  <2>9. CASE ResetReceived
    BY <2>2, <2>9, ResetReceivedInStep
  <2>10. CASE NextMessage
    BY <2>2, <2>10, NextMessageInStep
  <2>11. CASE UNCHANGED vars
    <3>1. UNCHANGED <<catalog, data, numReceived, pkt_cnt, pkt_total, cnt_msg, pc, j, i, handler,
                      k, which, held, printed, fault>>
      BY <2>11 DEF vars, counters, mainVars, message
    <3>2. Kinds'
      BY <2>2, <3>1 DEF Kinds
    <3>3. Stage'
      <4>1. Stage' <=> Stage
        BY <3>1 DEF Stage, Fresh, Allocating, Receiving, Returning, Resetting, Over, Waits,
                    NothingReceived, Placed
      <4> QED  BY <2>2, <4>1
    <3> QED  BY <3>2, <3>3
  <2> QED  BY <1>1, <2>3, <2>4, <2>5, <2>6, <2>7, <2>8, <2>9, <2>10, <2>11
           DEF Next, Handler, Main
<1> QED  BY Starts, <1>1, PTL DEF Spec

\* While the signals come in pause, the messages are printed in order and whole, no packet
\* is stored where its message has no memory, and no message leaves memory behind.
THEOREM MessagesStayWhole == Spec => []MessagesWhole
<1>1. InStep => MessagesWhole
  <2> SUFFICES ASSUME Kinds, Stage
               PROVE  /\ fault = "none"
                      /\ \A n \in DOMAIN printed : printed[n] = [number |-> n, packets |-> n]
                      /\ handler = "store" => which \in held
                      /\ pc \in {"total", "cnt", "received", "next", "release", "released"}
                            => held = {}
    BY DEF InStep, MessagesWhole
  <2>1. \E l : printed = Whole(l)
    BY DEF Stage, Fresh, Allocating, Receiving, Returning, Resetting, Over
  <2>2. \A n \in DOMAIN printed : printed[n] = [number |-> n, packets |-> n]
    BY <2>1 DEF Whole
  <2>3. fault = "none"
    BY DEF Kinds
  <2>4. handler = "store" => which \in held
    BY DEF Stage, Fresh, Allocating, Receiving, Returning, Resetting, Over
  <2>5. pc \in {"total", "cnt", "received", "next", "release", "released"} => held = {}
    BY DEF Stage, Fresh, Allocating, Receiving, Returning, Resetting, Over, Waits
  <2> QED  BY <2>2, <2>3, <2>4, <2>5
<1> QED  BY <1>1, InStepAlways, PTL

\* And every variable has a value of its kind; mm_get and mm_put write no cell
\* that the catalog does not have.
THEOREM PacketTypes == Spec => [](late = 0 => TypeOK)
<1>1. InStep => (late = 0 => TypeOK)
  <2> SUFFICES ASSUME Kinds, Stage, late = 0 PROVE TypeOK
    BY DEF InStep
  <2>1. numReceived \in [Packet -> 0..MaxPackets + MaxAlarms]
    <3>1. 0..NumMessages \subseteq 0..MaxPackets + MaxAlarms
      BY Sizes
    <3>2. numReceived \in [Packet -> 0..NumMessages]
      BY DEF Kinds
    <3> QED  BY <3>1, <3>2, Zenon
  <2>2. /\ handler \in {"idle", "allocate", "store", "put"}
        /\ pc \in {"wait", "call", "pause", "total", "cnt", "received", "next", "release",
                   "released", "exited"}
    BY DEF Stage, Fresh, Allocating, Receiving, Returning, Resetting, Over, Waits
  <2>3. pkt_cnt \in 0..MaxPackets + MaxAlarms /\ pkt_total \in 1..MaxPackets
    BY Sizes DEF Kinds, Stage, Fresh, Allocating, Receiving, Returning, Resetting, Over
  <2>4. held \subseteq Packet
    <3>1. held # {} => cnt_msg <= NumMessages /\ held \subseteq 0..cnt_msg - 1
      <4>1. held # {} => /\ cnt_msg <= NumMessages
                         /\ \E a \in Nat : /\ a <= cnt_msg
                                           /\ held = 0..a - 1 \/ held = a..cnt_msg - 1
        <5>1. cnt_msg \in Nat /\ k \in Nat /\ cnt_msg <= cnt_msg
          BY DEF Kinds
        <5> QED  BY <5>1 DEF Stage, Fresh, Allocating, Receiving, Returning, Resetting, Over
      <4> QED  BY <4>1 DEF Kinds
    <3>2. 0..cnt_msg - 1 \subseteq Packet \/ cnt_msg > NumMessages
      BY Sizes DEF Kinds, Packet
    <3> QED  BY <3>1, <3>2, Sizes DEF Kinds
  <2>5. cnt_msg \in 1..NumMessages + 1 /\ j \in 1..NumMessages + 1 /\ late \in 0..MaxAlarms
    BY Sizes DEF Kinds
  <2> QED  BY <2>1, <2>2, <2>3, <2>4, <2>5 DEF Kinds, TypeOK
<1> QED  BY <1>1, InStepAlways, PTL

Live == {<<p, data[p]>> : p \in held}

LEMMA LiveAs ==
    ASSUME NEW S, held = S, \A p \in S : data[p] = At(p)
    PROVE  Live = {<<p, At(p)>> : p \in S}
BY DEF Live

LEMMA LiveAsNext ==
    ASSUME NEW S, held' = S, \A p \in S : data'[p] = At(p)
    PROVE  Live' = {<<p, At(p)>> : p \in S}
BY DEF Live

\* mm_get is the Get of a chunk that nobody shares.
LEMMA AllocateGets ==
    ASSUME Kinds, Stage, Allocate
    PROVE  \/ UNCHANGED Live
           \/ /\ k \in Packet /\ At(k) \in Bytes
              /\ Chunk(At(k)) \subseteq 0..Size - 1
              /\ \A c \in Live : c[1] # k /\ Chunk(c[2]) \cap Chunk(At(k)) = {}
              /\ Live' = Live \cup {<<k, At(k)>>}
<1>1. Allocating
  BY DEF Allocate, Stage, Fresh, Receiving, Returning, Resetting, Over
<1>2. PICK T : Ample(T, cnt_msg) /\ Getting(catalog, T, cnt_msg, k)
  BY <1>1 DEF Allocating
<1>3. cnt_msg \in 1..NumMessages /\ k \in Nat /\ catalog \in [Cells -> Int]
  BY <1>1 DEF Allocating, Kinds
<1>4. CASE k < cnt_msg
  <2>1. k \in 0..cnt_msg - 1 /\ k \in 0..2 * NumMessages - 1
    BY <1>3, <1>4, Sizes
  <2>2. Address(catalog, DataSize) = At(k)
    BY <1>2, <1>3, <2>1, GettingStep
  <2>3. k \in Packet /\ At(k) \in Bytes /\ At(k) # NULL /\ At(k) \in Nat
    BY <1>2, <1>3, <2>1, MessageSizes
  <2>4. At(k) + DataSize < Size
    BY <1>2, <1>3, <2>1, CellPlaces
  <2>5. Chunk(At(k)) \subseteq 0..Size - 1
    BY <2>3, <2>4, Sizes DEF Chunk
  <2>6. data' = [data EXCEPT ![k] = At(k)] /\ held' = held \cup {k}
    BY <1>3, <1>4, <2>2, <2>3 DEF Allocate
  <2>7. held = 0..k - 1 /\ \A p \in 0..k - 1 : data[p] = At(p)
    BY <1>1 DEF Allocating, Placed
  <2>8. Live = {<<p, At(p)>> : p \in 0..k - 1}
    BY <2>7, LiveAs
  <2>9. Live' = {<<p, At(p)>> : p \in (0..k - 1) \cup {k}}
    <3>1. held' = (0..k - 1) \cup {k}
      BY <2>6, <2>7
    <3>2. \A p \in (0..k - 1) \cup {k} : p \in Packet
      BY <1>3, <2>3, Sizes DEF Packet
    <3>3. \A p \in (0..k - 1) \cup {k} : data'[p] = At(p)
      BY <1>3, <2>6, <2>7, <3>2 DEF Kinds
    <3> QED  BY <3>1, <3>3, LiveAsNext
  <2>10. Live' = Live \cup {<<k, At(k)>>}
    BY <2>8, <2>9
  <2>11. ASSUME NEW p \in 0..k - 1 PROVE p # k /\ Chunk(At(p)) \cap Chunk(At(k)) = {}
    <3>1. At(p) + DataSize <= At(k) /\ At(p) \in Int /\ At(k) \in Int
      BY <1>3, AtOrder
    <3> QED  BY <1>3, <3>1, Sizes DEF Chunk
  <2>12. \A c \in Live : c[1] # k /\ Chunk(c[2]) \cap Chunk(At(k)) = {}
    BY <2>8, <2>11
  <2> QED  BY <2>3, <2>5, <2>10, <2>12
<1>5. CASE ~ (k < cnt_msg)
  BY <1>3, <1>5 DEF Allocate, Live
<1> QED  BY <1>4, <1>5

\* mm_put is the Put of one of them.
LEMMA PutBackPuts ==
    ASSUME Kinds, Stage, PutBack
    PROVE  \/ UNCHANGED Live
           \/ /\ k \in Packet /\ <<k, At(k)>> \in Live
              /\ Live' = Live \ {<<k, At(k)>>}
<1>1. Returning
  BY DEF PutBack, Stage, Fresh, Allocating, Receiving, Resetting, Over
<1>2. PICK T : Ample(T, cnt_msg)
  BY <1>1 DEF Returning
<1>3. /\ cnt_msg \in 1..NumMessages /\ k \in Nat /\ k <= cnt_msg /\ pkt_total = cnt_msg
      /\ held = k..cnt_msg - 1
  BY <1>1 DEF Returning, Kinds
<1>4. data' = data
  BY DEF PutBack, message
<1>5. CASE k < cnt_msg
  <2>1. k \in 0..cnt_msg - 1 /\ k \in k..cnt_msg - 1
    BY <1>3, <1>5
  <2>2. k \in Packet
    BY <1>2, <1>3, <2>1, MessageSizes
  <2>3. held' = (k..cnt_msg - 1) \ {k}
    BY <1>3, <1>5 DEF PutBack
  <2>4. \A p \in k..cnt_msg - 1 : data[p] = At(p)
    BY <1>1, <1>3 DEF Returning, Placed
  <2>5. Live = {<<p, At(p)>> : p \in k..cnt_msg - 1}
    BY <1>3, <2>4, LiveAs
  <2>6. Live' = {<<p, At(p)>> : p \in (k..cnt_msg - 1) \ {k}}
    BY <1>4, <2>3, <2>4, LiveAsNext
  <2>7. Live' = Live \ {<<k, At(k)>>}
    BY <2>5, <2>6
  <2> QED  BY <2>1, <2>2, <2>5, <2>7
<1>6. CASE ~ (k < cnt_msg)
  BY <1>3, <1>4, <1>6 DEF PutBack, Live
<1> QED  BY <1>5, <1>6

\* While the signals come in pause the memory of each packet is its own, whatever mm_put
\* merges with the wrong chunk.
THEOREM PacketsKeepTheirMemory == Spec /\ [](late = 0) => ImplementsHeap
<1>1. Init => HeapOfPackets!Init
  BY DEF Init, HeapOfPackets!Init
<1>2. ASSUME InStep, late = 0, [Next]_vars
      PROVE  [HeapOfPackets!Next]_Live
  <2>1. Kinds /\ Stage
    BY <1>2 DEF InStep
  <2>2. CASE Allocate
    <3>1. ASSUME k \in Packet, At(k) \in Bytes, Chunk(At(k)) \subseteq 0..Size - 1,
                 \A c \in Live : c[1] # k /\ Chunk(c[2]) \cap Chunk(At(k)) = {},
                 Live' = Live \cup {<<k, At(k)>>}
          PROVE  HeapOfPackets!Next
      <4>1. PICK h \in Packet, n \in 0..Size - 1 : h = k /\ n = At(k)
        BY <3>1 DEF Bytes
      <4>2. HeapOfPackets!Get(h, n)
        BY <3>1, <4>1 DEF HeapOfPackets!Get, Live
      <4> QED  BY <4>2 DEF HeapOfPackets!Next
    <3> QED  BY <2>1, <2>2, <3>1, AllocateGets
  <2>3. CASE PutBack
    <3>1. ASSUME k \in Packet, <<k, At(k)>> \in Live, Live' = Live \ {<<k, At(k)>>}
          PROVE  HeapOfPackets!Next
      <4>1. PICK h \in Packet : h = k
        BY <3>1
      <4>2. HeapOfPackets!Put(h)
        BY <3>1, <4>1 DEF HeapOfPackets!Put, Live
      <4> QED  BY <4>2 DEF HeapOfPackets!Next
    <3> QED  BY <2>1, <2>3, <3>1, PutBackPuts
  <2>4. CASE Alarm \/ UseAfterFree \/ Store \/ Main
    BY <2>4 DEF Alarm, UseAfterFree, Store, Main, WaitForMessage, ResetTotal, ResetCount,
                ResetReceived, NextMessage, Exit, message, Live
  <2>5. CASE UNCHANGED vars
    BY <2>5 DEF vars, message, Live
  <2> QED  BY <1>2, <2>2, <2>3, <2>4, <2>5 DEF Next, Handler
<1> QED  BY <1>1, <1>2, InStepAlways, PTL DEF Spec, ImplementsHeap, HeapOfPackets!Spec, Live

=============================================================================

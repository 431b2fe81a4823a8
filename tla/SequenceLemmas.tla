--------------------------- MODULE SequenceLemmas ---------------------------
(***************************************************************************)
(* Facts about sequences that the proofs of the other modules cite.        *)
(***************************************************************************)
EXTENDS Integers, FiniteSets, Functions, SequencesExt, WellFoundedInduction,
        SequenceTheorems, TLAPS

\* Every set of natural numbers that has a member has a least one.
LEMMA LeastNatural ==
    ASSUME NEW I, I \subseteq Nat, I # {}
    PROVE  \E i \in I : \A j \in I : i <= j
<1> DEFINE Less == OpToRel(<, Nat)
<1>1. IsWellFoundedOn(Less, Nat)
  BY NatLessThanWellFounded
<1>2. PICK i \in I : \A j \in I : ~ (<<j, i>> \in Less)
  <2> HIDE DEF Less
  <2> QED  BY <1>1, WFMin
<1>3. \A j \in I : ~ (j < i)
  <2> SUFFICES ASSUME NEW j \in I, j < i PROVE FALSE
    OBVIOUS
  <2>1. <<j, i>> \in Less
    BY DEF OpToRel
  <2> QED  BY <1>2, <2>1
<1> QED  BY <1>3

LEMMA MinIsLeast ==
    ASSUME NEW I, I \subseteq Nat, I # {}
    PROVE  Min(I) \in I /\ \A j \in I : Min(I) <= j
BY LeastNatural DEF Min

\* And so has every set of integers with a lower bound.
LEMMA MinIsLeastInt ==
    ASSUME NEW I, I \subseteq Int, I # {}, NEW b \in Int, \A i \in I : b <= i
    PROVE  Min(I) \in I /\ \A j \in I : Min(I) <= j
<1> DEFINE Above == {i - b : i \in I}
<1>1. Above \subseteq Nat /\ Above # {}
  <2>1. \A i \in I : i - b \in Nat
    OBVIOUS
  <2> QED  BY <2>1
<1>2. PICK m \in Above : \A j \in Above : m <= j
  <2> HIDE DEF Above
  <2> QED  BY <1>1, LeastNatural
<1>3. PICK i \in I : m = i - b
  BY <1>2
<1>4. \A j \in I : i <= j
  <2> SUFFICES ASSUME NEW j \in I PROVE i <= j
    OBVIOUS
  <2>1. m <= j - b /\ i \in Int /\ j \in Int
    BY <1>2
  <2> QED  BY <1>3, <2>1
<1> QED  BY <1>3, <1>4 DEF Min

\* What holds at 1 and goes on from k to k + 1 holds up to m.
LEMMA CountingUp ==
    ASSUME NEW m \in Nat, NEW S, 1 \in S, \A k \in 1 .. m - 1 : k \in S => k + 1 \in S
    PROVE  \A k \in 1 .. m : k \in S
<1> DEFINE Out == {k \in 1 .. m : k \notin S}
<1>1. SUFFICES ASSUME Out # {} PROVE FALSE
  OBVIOUS
<1>2. PICK k \in Out : \A j \in Out : k <= j
  <2>1. Out \subseteq Nat
    OBVIOUS
  <2> HIDE DEF Out
  <2> QED  BY <1>1, <2>1, LeastNatural
<1>3. k # 1 /\ k - 1 \in 1 .. m - 1 /\ k - 1 \in S
  BY <1>2
<1> QED  BY <1>2, <1>3

\* Every bounded set of natural numbers that has a member has a greatest one, Max.
LEMMA MaxIsGreatest ==
    ASSUME NEW I, I \subseteq Nat, I # {}, NEW n \in Nat, \A i \in I : i <= n
    PROVE  Max(I) \in I /\ \A j \in I : Max(I) >= j
<1> DEFINE Rests == {n - i : i \in I}
<1>1. Rests \subseteq Nat /\ Rests # {}
  <2>1. \A i \in I : n - i \in Nat
    OBVIOUS
  <2> QED  BY <2>1
<1>2. PICK m \in Rests : \A j \in Rests : m <= j
  <2> HIDE DEF Rests
  <2> QED  BY <1>1, LeastNatural
<1>3. PICK i \in I : m = n - i
  BY <1>2
<1>4. \A j \in I : i >= j
  <2> SUFFICES ASSUME NEW j \in I PROVE i >= j
    OBVIOUS
  <2>1. m <= n - j /\ i \in Nat /\ j \in Nat
    BY <1>2
  <2> QED  BY <1>3, <2>1
<1> QED  BY <1>3, <1>4 DEF Max

\* RemoveAt takes one element out and moves the later ones up.
LEMMA RemoveAtProperties ==
    ASSUME NEW S, NEW s \in Seq(S), NEW i \in 1 .. Len(s)
    PROVE  /\ RemoveAt(s, i) \in Seq(S)
           /\ Len(RemoveAt(s, i)) = Len(s) - 1
           /\ \A j \in 1 .. Len(s) - 1 :
                 RemoveAt(s, i)[j] = IF j < i THEN s[j] ELSE s[j + 1]
<1>1. /\ SubSeq(s, 1, i - 1) \in Seq(S) /\ Len(SubSeq(s, 1, i - 1)) = i - 1
      /\ \A j \in 1 .. i - 1 : SubSeq(s, 1, i - 1)[j] = s[j]
  OBVIOUS
<1>2. /\ SubSeq(s, i + 1, Len(s)) \in Seq(S)
      /\ Len(SubSeq(s, i + 1, Len(s))) = Len(s) - i
      /\ \A j \in 1 .. Len(s) - i : SubSeq(s, i + 1, Len(s))[j] = s[j + i]
  OBVIOUS
<1>3. ASSUME NEW b \in Seq(S), NEW a \in Seq(S), Len(b) = i - 1, Len(a) = Len(s) - i,
             \A j \in 1 .. i - 1 : b[j] = s[j],
             \A j \in 1 .. Len(s) - i : a[j] = s[j + i]
      PROVE  /\ b \o a \in Seq(S)
             /\ Len(b \o a) = Len(s) - 1
             /\ \A j \in 1 .. Len(s) - 1 :
                   (b \o a)[j] = IF j < i THEN s[j] ELSE s[j + 1]
  <2>1. b \o a \in Seq(S) /\ Len(b \o a) = Len(s) - 1
    BY <1>3
  <2>2. ASSUME NEW j \in 1 .. Len(s) - 1
        PROVE  (b \o a)[j] = IF j < i THEN s[j] ELSE s[j + 1]
    <3>1. CASE j < i  BY <1>3, <3>1
    <3>2. CASE ~ (j < i)
      <4>1. (b \o a)[j] = a[j - (i - 1)]
        BY <1>3, <3>2
      <4>2. a[j - (i - 1)] = s[j - (i - 1) + i]
        BY <1>3, <3>2
      <4> QED  BY <4>1, <4>2, <3>2
    <3> QED  BY <3>1, <3>2
  <2> QED  BY <2>1, <2>2
<1>4. RemoveAt(s, i) = SubSeq(s, 1, i - 1) \o SubSeq(s, i + 1, Len(s))
  BY DEF RemoveAt
<1>5. /\ SubSeq(s, 1, i - 1) \o SubSeq(s, i + 1, Len(s)) \in Seq(S)
      /\ Len(SubSeq(s, 1, i - 1) \o SubSeq(s, i + 1, Len(s))) = Len(s) - 1
      /\ \A j \in 1 .. Len(s) - 1 :
            (SubSeq(s, 1, i - 1) \o SubSeq(s, i + 1, Len(s)))[j]
                = IF j < i THEN s[j] ELSE s[j + 1]
  BY <1>1, <1>2, <1>3
<1> QED  BY <1>4, <1>5

\* What is left is some of what was there.
LEMMA RemoveAtRange ==
    ASSUME NEW S, NEW s \in Seq(S), NEW i \in 1 .. Len(s)
    PROVE  RemoveAt(s, i) \in Seq(S) /\ Range(RemoveAt(s, i)) \subseteq Range(s)
<1>1. /\ RemoveAt(s, i) \in Seq(S) /\ Len(RemoveAt(s, i)) = Len(s) - 1
      /\ \A j \in 1 .. Len(s) - 1 :
            RemoveAt(s, i)[j] = IF j < i THEN s[j] ELSE s[j + 1]
  BY RemoveAtProperties
<1>2. DOMAIN RemoveAt(s, i) = 1 .. Len(s) - 1 /\ DOMAIN s = 1 .. Len(s) /\ Len(s) \in Nat
  BY <1>1
<1> HIDE DEF RemoveAt
<1>3. ASSUME NEW j \in 1 .. Len(s) - 1 PROVE RemoveAt(s, i)[j] \in Range(s)
  <2>1. j \in DOMAIN s /\ j + 1 \in DOMAIN s
    BY <1>2, <1>3
  <2> QED  BY <1>1, <1>3, <2>1 DEF Range
<1> QED  BY <1>1, <1>2, <1>3 DEF Range

\* What is left when one element of a sequence without repetitions is taken out: the
\* others, still without repetitions.
LEMMA RemoveAtInjective ==
    ASSUME NEW S, NEW s \in Seq(S), NEW i \in 1 .. Len(s), IsInjective(s)
    PROVE  /\ IsInjective(RemoveAt(s, i))
           /\ Range(RemoveAt(s, i)) = Range(s) \ {s[i]}
<1> DEFINE t == RemoveAt(s, i)
<1>1. /\ t \in Seq(S) /\ DOMAIN t = 1 .. Len(s) - 1
      /\ \A j \in 1 .. Len(s) - 1 : t[j] = IF j < i THEN s[j] ELSE s[j + 1]
  BY RemoveAtProperties
<1> HIDE DEF t
<1>2. DOMAIN s = 1 .. Len(s) /\ Len(s) \in Nat
  OBVIOUS
<1> DEFINE from(j) == IF j < i THEN j ELSE j + 1
<1>6. \A j \in DOMAIN t : from(j) \in 1 .. Len(s) \ {i} /\ t[j] = s[from(j)]
  BY <1>1, <1>2
<1>7. \A j, k \in DOMAIN t : from(j) = from(k) => j = k
  BY <1>1, <1>2
<1>8. \A j, k \in 1 .. Len(s) : s[j] = s[k] => j = k
  BY <1>2 DEF IsInjective
<1> HIDE DEF from
<1>3. IsInjective(t)
  BY <1>6, <1>7, <1>8 DEF IsInjective
<1>4. ASSUME NEW x \in Range(t) PROVE x \in Range(s) \ {s[i]}
  <2>1. PICK j \in DOMAIN t : x = t[j]
    BY <1>4 DEF Range
  <2> QED  BY <1>2, <1>6, <1>8, <2>1 DEF Range
<1>5. ASSUME NEW x \in Range(s) \ {s[i]} PROVE x \in Range(t)
  <2>1. PICK k \in 1 .. Len(s) : s[k] = x /\ k # i
    BY <1>2, <1>5 DEF Range
  <2>2. CASE k < i
    <3>1. k \in 1 .. Len(s) - 1
      BY <1>2, <2>1, <2>2
    <3>2. t[k] = x
      BY <1>1, <2>1, <2>2, <3>1
    <3> QED  BY <1>1, <3>1, <3>2 DEF Range
  <2>3. CASE k > i
    <3>1. k - 1 \in 1 .. Len(s) - 1 /\ ~ (k - 1 < i)
      BY <1>2, <2>1, <2>3
    <3>2. t[k - 1] = x
      BY <1>1, <2>1, <3>1
    <3> QED  BY <1>1, <3>1, <3>2 DEF Range
  <2> QED  BY <1>2, <2>1, <2>2, <2>3
<1> QED  BY <1>3, <1>4, <1>5 DEF t

\* Appending adds one element to the range.
LEMMA AppendRange ==
    ASSUME NEW S, NEW s \in Seq(S), NEW x \in S
    PROVE  Append(s, x) \in Seq(S) /\ Range(Append(s, x)) = Range(s) \cup {x}
<1>1. /\ DOMAIN s = 1 .. Len(s) /\ Len(s) \in Nat
      /\ DOMAIN Append(s, x) = 1 .. Len(s) + 1
      /\ \A j \in 1 .. Len(s) : Append(s, x)[j] = s[j]
      /\ Append(s, x)[Len(s) + 1] = x
  OBVIOUS
<1>2. \A j \in 1 .. Len(s) + 1 : j = Len(s) + 1 \/ j \in 1 .. Len(s)
  BY <1>1
<1> QED  BY <1>1, <1>2 DEF Range

\* Appending something new keeps a sequence free of repetitions.
LEMMA AppendKeepsInjective ==
    ASSUME NEW S, NEW s \in Seq(S), NEW x \in S, IsInjective(s), x \notin Range(s)
    PROVE  IsInjective(Append(s, x))
<1>1. /\ DOMAIN s = 1 .. Len(s) /\ Len(s) \in Nat
      /\ DOMAIN Append(s, x) = 1 .. Len(s) + 1
      /\ \A j \in 1 .. Len(s) : Append(s, x)[j] = s[j]
      /\ Append(s, x)[Len(s) + 1] = x
  OBVIOUS
<1>2. \A j \in 1 .. Len(s) + 1 : j = Len(s) + 1 \/ j \in 1 .. Len(s)
  BY <1>1
<1> QED  BY <1>1, <1>2 DEF IsInjective, Range

\* The rest of a sequence is the sequence without its first element.
LEMMA TailIsRemoveAt ==
    ASSUME NEW S, NEW s \in Seq(S), s # <<>>
    PROVE  /\ Tail(s) = RemoveAt(s, 1)
           /\ Head(s) = s[1] /\ 1 \in 1 .. Len(s)
<1>1. 1 \in 1 .. Len(s) /\ Head(s) = s[1]
  OBVIOUS
<1>2. /\ RemoveAt(s, 1) \in Seq(S) /\ Len(RemoveAt(s, 1)) = Len(s) - 1
      /\ \A j \in 1 .. Len(s) - 1 :
            RemoveAt(s, 1)[j] = IF j < 1 THEN s[j] ELSE s[j + 1]
  BY <1>1, RemoveAtProperties
<1>3. /\ Tail(s) \in Seq(S) /\ Len(Tail(s)) = Len(s) - 1
      /\ \A j \in 1 .. Len(s) - 1 : Tail(s)[j] = s[j + 1]
  BY <1>1
<1> QED  BY <1>1, <1>2, <1>3, SeqEqual
=============================================================================

--------------------------- MODULE FileSystem_proofs ---------------------------
(***************************************************************************)
(* Proofs about FileSystem, for any requests, paths, trees and sizes.       *)
(***************************************************************************)
EXTENDS FileSystem, SequenceTheorems, FiniteSetTheorems, WellFoundedInduction, TLAPS

-----------------------------------------------------------------------------
(* Numbers                                                                 *)

LEMMA MinIs ==
    ASSUME NEW T \in SUBSET Nat, T # {}
    PROVE  Min(T) \in T /\ \A y \in T : Min(T) <= y
<1> DEFINE R == OpToRel(<, Nat)
<1>1. IsWellFoundedOn(R, Nat)
  BY NatLessThanWellFounded
<1>2. \A x, y \in Nat : <<y, x>> \in R <=> y < x
  BY DEF OpToRel
<1> HIDE DEF R
<1>3. \E x \in T : \A y \in T : ~(<<y, x>> \in R)
  BY <1>1, WFMin
<1>4. \A x \in T : x \in Nat
  OBVIOUS
<1>5. PICK x \in T : \A y \in T : ~(<<y, x>> \in R)
  BY <1>3
<1>6. \A y \in T : x <= y
  <2> TAKE y \in T
  <2>1. x \in Nat /\ y \in Nat /\ ~(<<y, x>> \in R)
    BY <1>4, <1>5
  <2>2. ~(y < x)
    BY <1>2, <2>1
  <2>3. QED
    BY <2>1, <2>2
<1>7. QED
  BY <1>6 DEF Min
-----------------------------------------------------------------------------
(* Recursion.  The step of a recursive definition is a function here.       *)

\* What holds of a number as soon as it holds of the smaller ones holds of all.
LEMMA AllNumbers ==
    ASSUME NEW S \in SUBSET Nat,
           \A n \in Nat : (\A m \in 0..n - 1 : m \in S) => n \in S
    PROVE  \A n \in Nat : n \in S
<1> SUFFICES ASSUME Nat \ S # {} PROVE FALSE
  OBVIOUS
<1>1. /\ Min(Nat \ S) \in Nat \ S
      /\ \A y \in Nat \ S : Min(Nat \ S) <= y
  BY MinIs
<1>2. PICK n \in Nat \ S : \A y \in Nat \ S : n <= y
  BY <1>1
<1>3. \A m \in 0..n - 1 : m \in S
  BY <1>2
<1>4. QED
  BY <1>2, <1>3

LEMMA NumbersUpTo ==
    ASSUME NEW m \in Nat, NEW S, 0 \in S, \A n \in 1..m : n - 1 \in S => n \in S
    PROVE  \A n \in 0..m : n \in S
<1> DEFINE T == {n \in Nat : n <= m => n \in S}
<1>1. T \in SUBSET Nat
  OBVIOUS
<1>2. \A n \in Nat : (\A k \in 0..n - 1 : k \in T) => n \in T
  <2> SUFFICES ASSUME NEW n \in Nat, \A k \in 0..n - 1 : k \in T, n <= m
               PROVE  n \in S
    OBVIOUS
  <2>1. CASE n = 0
    BY <2>1
  <2>2. CASE n # 0
    <3>1. n - 1 \in 0..n - 1 /\ n - 1 <= m /\ n \in 1..m
      BY <2>2
    <3>2. QED
      BY <3>1
  <2>3. QED
    BY <2>1, <2>2
<1> HIDE DEF T
<1>3. \A n \in Nat : n \in T
  BY <1>1, <1>2, AllNumbers
<1>4. QED
  BY <1>3 DEF T

\* A function can be iterated ...
Iterates(f, b, G) == f[0] = b /\ \A n \in Nat : f[n + 1] = G[f[n]]

LEMMA Iteration ==
    ASSUME NEW D, NEW b \in D, NEW G \in [D -> D]
    PROVE  \E f : f \in [Nat -> D] /\ Iterates(f, b, G)
<1> DEFINE Steps(f, n) == f[0] = b /\ \A i \in 1..n : f[i] = G[f[i - 1]]
           At_(n) == {f[n] : f \in {g \in [0..n -> D] : Steps(g, n)}}
           S == {n \in Nat : \E v \in D : At_(n) = {v}}
<1>1. At_(0) = {b}
  <2>1. \A v \in At_(0) : v = b
    OBVIOUS
  <2>2. b \in At_(0)
    <3>1. [i \in 0..0 |-> b] \in [0..0 -> D] /\ Steps([i \in 0..0 |-> b], 0)
      OBVIOUS
    <3>2. [i \in 0..0 |-> b][0] = b
      OBVIOUS
    <3>3. QED
      BY <3>1, <3>2
  <2>3. QED
    BY <2>1, <2>2
<1>2. \A n \in Nat : At_(n + 1) = {G[v] : v \in At_(n)}
  <2> TAKE n \in Nat
  <2>1. ASSUME NEW v \in At_(n + 1)
        PROVE  v \in {G[w] : w \in At_(n)}
    <3>1. PICK f \in [0..n + 1 -> D] : Steps(f, n + 1) /\ v = f[n + 1]
      OBVIOUS
    <3> DEFINE g == [i \in 0..n |-> f[i]]
    <3>2. g \in [0..n -> D] /\ Steps(g, n) /\ g[n] = f[n]
      BY <3>1
    <3>3. g[n] \in At_(n)
      BY <3>2
    <3>4. v = G[g[n]]
      BY <3>1, <3>2
    <3>5. QED
      BY <3>3, <3>4
  <2>2. ASSUME NEW w \in At_(n)
        PROVE  G[w] \in At_(n + 1)
    <3>1. PICK f \in [0..n -> D] : Steps(f, n) /\ w = f[n]
      OBVIOUS
    <3> DEFINE g == [i \in 0..n + 1 |-> IF i = n + 1 THEN G[f[n]] ELSE f[i]]
    <3>2. g \in [0..n + 1 -> D]
      OBVIOUS
    <3>3. g[0] = b
      BY <3>1
    <3>4. \A i \in 1..n + 1 : g[i] = G[g[i - 1]]
      <4> TAKE i \in 1..n + 1
      <4>1. CASE i = n + 1
        BY <4>1
      <4>2. CASE i # n + 1
        BY <3>1, <4>2
      <4>3. QED
        BY <4>1, <4>2
    <3>5. g[n + 1] = G[w]
      BY <3>1
    <3>6. Steps(g, n + 1)
      BY <3>3, <3>4
    <3> HIDE DEF g, Steps
    <3>7. QED
      BY <3>2, <3>5, <3>6
  <2>3. QED
    BY <2>1, <2>2
<1> HIDE DEF At_
<1>3. \A n \in Nat : n \in S
  <2>1. S \in SUBSET Nat
    OBVIOUS
  <2>2. \A n \in Nat : (\A m \in 0..n - 1 : m \in S) => n \in S
    <3> SUFFICES ASSUME NEW n \in Nat, \A m \in 0..n - 1 : m \in S PROVE n \in S
      OBVIOUS
    <3>1. CASE n = 0
      BY <1>1, <3>1
    <3>2. CASE n # 0
      <4>1. n - 1 \in 0..n - 1 /\ n - 1 \in Nat /\ (n - 1) + 1 = n
        BY <3>2
      <4>2. PICK v \in D : At_(n - 1) = {v}
        BY <4>1
      <4>3. At_(n) = {G[v]}
        BY <1>2, <4>1, <4>2
      <4>4. QED
        BY <4>3
    <3>3. QED
      BY <3>1, <3>2
  <2> HIDE DEF S
  <2>3. QED
    BY <2>1, <2>2, AllNumbers
<1> DEFINE f == [n \in Nat |-> CHOOSE v \in D : At_(n) = {v}]
<1>4. \A n \in Nat : f[n] \in D /\ At_(n) = {f[n]}
  BY <1>3
<1>5. f \in [Nat -> D]
  BY <1>4
<1> HIDE DEF f
<1>6. f[0] = b
  BY <1>1, <1>4
<1>7. \A n \in Nat : f[n + 1] = G[f[n]]
  <2> TAKE n \in Nat
  <2>1. At_(n + 1) = {G[f[n]]}
    BY <1>2, <1>4
  <2>2. n + 1 \in Nat /\ At_(n + 1) = {f[n + 1]}
    BY <1>4
  <2>3. QED
    BY <2>1, <2>2
<1>8. QED
  BY <1>5, <1>6, <1>7 DEF Iterates

\* ... and an equation of functions has a solution if what it says of an argument
\* depends on smaller arguments only.
Solves(f, G) == f = G[f]
LooksBack(G, D, R, size) ==
    \A f, g \in [D -> R] : \A d \in D :
      (\A e \in D : size[e] < size[d] => f[e] = g[e]) => G[f][d] = G[g][d]

LEMMA Solution ==
    ASSUME NEW D, NEW R, NEW size \in [D -> Nat],
           NEW G \in [[D -> R] -> [D -> R]], [D -> R] # {},
           LooksBack(G, D, R, size)
    PROVE  \E f : f \in [D -> R] /\ Solves(f, G)
<1>1. PICK b \in [D -> R] : TRUE
  OBVIOUS
<1>2. PICK A \in [Nat -> [D -> R]] : A[0] = b /\ \A n \in Nat : A[n + 1] = G[A[n]]
  <2> DEFINE E == [D -> R]
  <2>1. b \in E /\ G \in [E -> E]
    OBVIOUS
  <2> HIDE DEF E
  <2>2. \E A : A \in [Nat -> E] /\ Iterates(A, b, G)
    BY <2>1, Iteration, Zenon
  <2>3. QED
    BY <2>2 DEF E, Iterates
<1> DEFINE F == [d \in D |-> A[size[d] + 1][d]]
           S == {n \in Nat : \A d \in D : size[d] = n =>
                               \A k \in Nat : n < k => A[k][d] = F[d]}
<1>3. F \in [D -> R]
  <2>1. \A d \in D : size[d] + 1 \in Nat
    OBVIOUS
  <2>2. QED
    BY <1>2, <2>1
<1>4. \A n \in Nat : n \in S
  <2>1. S \in SUBSET Nat
    OBVIOUS
  <2>2. \A n \in Nat : (\A m \in 0..n - 1 : m \in S) => n \in S
    <3> SUFFICES ASSUME NEW n \in Nat, \A m \in 0..n - 1 : m \in S,
                        NEW d \in D, size[d] = n, NEW k \in Nat, n < k
                 PROVE  A[k][d] = F[d]
      OBVIOUS
    <3>1. k - 1 \in Nat /\ (k - 1) + 1 = k /\ n <= k - 1
      OBVIOUS
    <3>2. \A e \in D : size[e] < size[d] => A[k - 1][e] = A[n][e]
      <4> SUFFICES ASSUME NEW e \in D, size[e] < size[d]
                   PROVE  A[k - 1][e] = A[n][e]
        OBVIOUS
      <4>1. size[e] \in 0..n - 1 /\ size[e] < k - 1 /\ size[e] < n
        BY <3>1
      <4>2. size[e] \in S
        BY <4>1
      <4>3. QED
        BY <3>1, <4>1, <4>2
    <3>3. A[k] = G[A[k - 1]] /\ A[n + 1] = G[A[n]]
      BY <1>2, <3>1
    <3>4. A[k - 1] \in [D -> R] /\ A[n] \in [D -> R]
      BY <3>1
    <3>5. G[A[k - 1]][d] = G[A[n]][d]
      <4> DEFINE X == A[k - 1]
                 Y == A[n]
      <4>1. X \in [D -> R] /\ Y \in [D -> R]
        BY <3>4
      <4>2. \A e \in D : size[e] < size[d] => X[e] = Y[e]
        BY <3>2
      <4> HIDE DEF X, Y, S, F
      <4>3. G[X][d] = G[Y][d]
        BY <4>1, <4>2 DEF LooksBack
      <4>4. QED
        BY <4>3 DEF X, Y
    <3>6. QED
      BY <3>3, <3>5
  <2> HIDE DEF S
  <2>3. QED
    BY <2>1, <2>2, AllNumbers
<1>5. \A d \in D : F[d] = G[F][d]
  <2> TAKE d \in D
  <2>1. size[d] \in Nat /\ F[d] = G[A[size[d]]][d]
    BY <1>2
  <2>2. \A e \in D : size[e] < size[d] => A[size[d]][e] = F[e]
    <3> SUFFICES ASSUME NEW e \in D, size[e] < size[d] PROVE A[size[d]][e] = F[e]
      OBVIOUS
    <3>1. size[e] \in Nat /\ size[e] \in S
      BY <1>4
    <3>2. QED
      BY <2>1, <3>1
  <2>3. A[size[d]] \in [D -> R]
    BY <2>1
  <2> HIDE DEF F
  <2>4. G[A[size[d]]][d] = G[F][d]
    BY <1>3, <2>2, <2>3 DEF LooksBack
  <2>5. QED
    BY <2>1, <2>4
<1> HIDE DEF F
<1>6. F = G[F]
  <2>1. G[F] \in [D -> R]
    BY <1>3
  <2>2. QED
    BY <1>3, <1>5, <2>1
<1>7. QED
  BY <1>3, <1>6 DEF Solves

-----------------------------------------------------------------------------
(* Paths                                                                   *)

Pre(p, n) == SubSeq(p, 1, n)

\* The beginning of a path.
LEMMA PreIs ==
    ASSUME NEW p \in Seq(Nat), NEW n \in 0..Len(p)
    PROVE  /\ Pre(p, n) \in Seq(Nat) /\ Len(Pre(p, n)) = n
           /\ \A i \in 1..n : Pre(p, n)[i] = p[i]
<1>1. Len(p) \in Nat /\ n \in Int /\ 1 \in Int
  BY LenProperties
<1>2. \A i \in 1..n : p[i] \in Nat
  BY <1>1, ElementOfSeq
<1>3. /\ SubSeq(p, 1, n) \in Seq(Nat)
      /\ Len(SubSeq(p, 1, n)) = IF 1 <= n THEN n - 1 + 1 ELSE 0
      /\ \A i \in 1..n - 1 + 1 : SubSeq(p, 1, n)[i] = p[1 + i - 1]
  BY <1>1, <1>2, SubSeqProperties
<1>4. \A i \in 1..n : i \in 1..n - 1 + 1 /\ 1 + i - 1 = i
  BY <1>1
<1>5. (IF 1 <= n THEN n - 1 + 1 ELSE 0) = n
  BY <1>1
<1>6. \A i \in 1..n : SubSeq(p, 1, n)[i] = p[i]
  BY <1>3, <1>4
<1>7. QED
  BY <1>3, <1>5, <1>6 DEF Pre

LEMMA SamePath ==
    ASSUME NEW p \in Seq(Nat), NEW q \in Seq(Nat), Len(p) = Len(q),
           \A i \in 1..Len(p) : p[i] = q[i]
    PROVE  p = q
BY SeqEqual

LEMMA PreOfPre ==
    ASSUME NEW p \in Seq(Nat), NEW n \in 0..Len(p), NEW m \in 0..n
    PROVE  Pre(Pre(p, n), m) = Pre(p, m)
<1>0. Len(p) \in Nat
  BY LenProperties
<1>1. m \in 0..Len(p) /\ m \in 0..Len(Pre(p, n)) /\ \A i \in 1..m : i \in 1..n
  BY <1>0, PreIs
<1>2. Pre(p, n) \in Seq(Nat)
  BY PreIs
<1>3. /\ Pre(Pre(p, n), m) \in Seq(Nat) /\ Len(Pre(Pre(p, n), m)) = m
      /\ \A i \in 1..m : Pre(Pre(p, n), m)[i] = Pre(p, n)[i]
  BY <1>1, <1>2, PreIs
<1>4. /\ Pre(p, m) \in Seq(Nat) /\ Len(Pre(p, m)) = m
      /\ \A i \in 1..m : Pre(p, m)[i] = p[i]
  BY <1>1, PreIs
<1>5. \A i \in 1..m : Pre(p, n)[i] = p[i]
  BY <1>1, PreIs
<1>6. QED
  BY <1>3, <1>4, <1>5, SamePath

LEMMA PreOfAll ==
    ASSUME NEW p \in Seq(Nat) PROVE Pre(p, Len(p)) = p /\ Pre(p, 0) = <<>>
<1>1. Len(p) \in Nat /\ Len(p) \in 0..Len(p) /\ 0 \in 0..Len(p)
  BY LenProperties
<1>2. Pre(p, Len(p)) = p
  BY SubSeqFull DEF Pre
<1>3. Pre(p, 0) \in Seq(Nat) /\ Len(Pre(p, 0)) = 0
  BY <1>1, PreIs
<1>4. QED
  BY <1>2, <1>3

\* A path and its last name.
LEMMA FrontLast ==
    ASSUME NEW p \in Seq(Nat), p # <<>>
    PROVE  /\ Len(p) \in Nat \ {0} /\ Front(p) = Pre(p, Len(p) - 1)
           /\ Front(p) \in Seq(Nat) /\ Len(Front(p)) = Len(p) - 1
           /\ Last(p) = p[Len(p)] /\ Last(p) \in Nat
           /\ \A i \in 1..Len(p) - 1 : Front(p)[i] = p[i]
<1>1. Len(p) \in Nat \ {0}
  BY EmptySeq
<1>2. Len(p) - 1 \in 0..Len(p) /\ Len(p) \in 1..Len(p)
  BY <1>1
<1>3. Front(p) = Pre(p, Len(p) - 1) /\ Last(p) = p[Len(p)]
  BY DEF Front, Last, Pre
<1>4. p[Len(p)] \in Nat
  BY <1>2, ElementOfSeq
<1>5. /\ Pre(p, Len(p) - 1) \in Seq(Nat) /\ Len(Pre(p, Len(p) - 1)) = Len(p) - 1
      /\ \A i \in 1..Len(p) - 1 : Pre(p, Len(p) - 1)[i] = p[i]
  BY <1>2, PreIs
<1>6. QED
  BY <1>1, <1>3, <1>4, <1>5

LEMMA FrontOfPre ==
    ASSUME NEW p \in Seq(Nat), NEW n \in 1..Len(p)
    PROVE  Pre(p, n) # <<>> /\ Front(Pre(p, n)) = Pre(p, n - 1) /\ Last(Pre(p, n)) = p[n]
<1>1. Len(p) \in Nat /\ n \in 0..Len(p) /\ n - 1 \in 0..n /\ n \in 1..n
  BY LenProperties
<1>2. Pre(p, n) \in Seq(Nat) /\ Len(Pre(p, n)) = n /\ Pre(p, n)[n] = p[n]
  BY <1>1, PreIs
<1>3. Pre(p, n) # <<>>
  BY <1>1, <1>2
<1>4. /\ Front(Pre(p, n)) = Pre(Pre(p, n), n - 1)
      /\ Last(Pre(p, n)) = Pre(p, n)[n]
  BY <1>2, <1>3, FrontLast
<1>5. QED
  BY <1>1, <1>2, <1>3, <1>4, PreOfPre

\* One name more.
LEMMA AppendIs ==
    ASSUME NEW p \in Seq(Nat), NEW x \in Nat
    PROVE  /\ Append(p, x) \in Seq(Nat) /\ Append(p, x) # <<>>
           /\ Len(Append(p, x)) = Len(p) + 1
           /\ Front(Append(p, x)) = p /\ Last(Append(p, x)) = x
           /\ Pre(Append(p, x), Len(p)) = p
<1> DEFINE a == Append(p, x)
<1>1. /\ a \in Seq(Nat) /\ a # <<>> /\ Len(p) \in Nat
      /\ Len(a) = Len(p) + 1
      /\ \A i \in 1..Len(p) : a[i] = p[i]
      /\ a[Len(p) + 1] = x
  BY AppendProperties, LenProperties
<1> HIDE DEF a
<1>2. /\ Front(a) = Pre(a, Len(a) - 1) /\ Front(a) \in Seq(Nat)
      /\ Len(Front(a)) = Len(a) - 1 /\ Last(a) = a[Len(a)]
      /\ \A i \in 1..Len(a) - 1 : Front(a)[i] = a[i]
  BY <1>1, FrontLast
<1>3. Len(a) - 1 = Len(p)
  BY <1>1
<1>4. Front(a) = p
  BY <1>1, <1>2, <1>3, SamePath
<1>5. /\ a \in Seq(Nat) /\ a # <<>> /\ Len(a) = Len(p) + 1
      /\ Front(a) = p /\ Last(a) = x /\ Pre(a, Len(p)) = p
  BY <1>1, <1>2, <1>3, <1>4
<1>6. QED
  BY <1>5 DEF a

LEMMA AppendFront ==
    ASSUME NEW p \in Seq(Nat), p # <<>>
    PROVE  p = Append(Front(p), Last(p))
<1> DEFINE f == Front(p)
           x == Last(p)
<1>1. /\ Len(p) \in Nat \ {0} /\ f \in Seq(Nat) /\ Len(f) = Len(p) - 1
      /\ x = p[Len(p)] /\ x \in Nat
      /\ \A i \in 1..Len(p) - 1 : f[i] = p[i]
  BY FrontLast
<1> HIDE DEF f, x
<1>2. /\ Append(f, x) \in Seq(Nat)
      /\ Len(Append(f, x)) = Len(f) + 1
      /\ \A i \in 1..Len(f) : Append(f, x)[i] = f[i]
      /\ Append(f, x)[Len(f) + 1] = x
  BY <1>1, AppendProperties
<1>3. Len(Append(f, x)) = Len(p)
  BY <1>1, <1>2
<1>4. \A i \in 1..Len(p) : p[i] = Append(f, x)[i]
  <2> TAKE i \in 1..Len(p)
  <2>1. CASE i = Len(p)
    <3>1. Len(f) + 1 = i
      BY <1>1, <2>1
    <3>2. QED
      BY <1>1, <1>2, <2>1, <3>1
  <2>2. CASE i # Len(p)
    <3>1. i \in 1..Len(f) /\ i \in 1..Len(p) - 1
      BY <1>1, <2>2
    <3>2. QED
      BY <1>1, <1>2, <3>1
  <2>3. QED
    BY <2>1, <2>2
<1>5. p = Append(f, x)
  BY <1>2, <1>3, <1>4, SamePath
<1>6. QED
  BY <1>5 DEF f, x

\* Prefixes.
LEMMA IsPrefixIs ==
    ASSUME NEW p \in Seq(Nat), NEW q \in Seq(Nat)
    PROVE  IsPrefix(p, q) <=> Len(p) <= Len(q) /\ Pre(q, Len(p)) = p
<1>1. SubSeq(p, 1, Len(p)) = p
  BY SubSeqFull
<1>2. QED
  BY <1>1 DEF IsPrefix, Pre

LEMMA PrefixLaws ==
    ASSUME NEW p \in Seq(Nat), NEW q \in Seq(Nat), NEW s \in Seq(Nat)
    PROVE  /\ IsPrefix(p, p) /\ IsPrefix(<<>>, p)
           /\ IsPrefix(p, q) /\ IsPrefix(q, s) => IsPrefix(p, s)
           /\ q # <<>> => (IsPrefix(p, q) <=> p = q \/ IsPrefix(p, Front(q)))
<1>1. Len(p) \in Nat /\ Len(q) \in Nat /\ Len(s) \in Nat
  BY LenProperties
<1>2. IsPrefix(p, p) /\ IsPrefix(<<>>, p)
  <2>1. <<>> \in Seq(Nat) /\ Len(<<>>) = 0
    BY EmptySeq
  <2>2. IsPrefix(p, p) <=> Len(p) <= Len(p) /\ Pre(p, Len(p)) = p
    BY IsPrefixIs
  <2>3. IsPrefix(<<>>, p) <=> Len(<<>>) <= Len(p) /\ Pre(p, Len(<<>>)) = <<>>
    BY <2>1, IsPrefixIs
  <2>4. Pre(p, Len(p)) = p /\ Pre(p, 0) = <<>> /\ Len(p) <= Len(p) /\ 0 <= Len(p)
    BY <1>1, PreOfAll
  <2>5. QED
    BY <2>1, <2>2, <2>3, <2>4
<1>3. ASSUME IsPrefix(p, q), IsPrefix(q, s) PROVE IsPrefix(p, s)
  <2>1. Len(p) <= Len(q) /\ Pre(q, Len(p)) = p /\ Len(q) <= Len(s) /\ Pre(s, Len(q)) = q
    BY <1>3, IsPrefixIs
  <2>2. Len(q) \in 0..Len(s) /\ Len(p) \in 0..Len(q) /\ Len(p) <= Len(s)
    BY <1>1, <2>1
  <2>3. Pre(Pre(s, Len(q)), Len(p)) = Pre(s, Len(p))
    BY <2>2, PreOfPre
  <2>4. QED
    BY <2>1, <2>2, <2>3, IsPrefixIs
<1>4. ASSUME q # <<>> PROVE IsPrefix(p, q) <=> p = q \/ IsPrefix(p, Front(q))
  <2>1. /\ Len(q) \in Nat \ {0} /\ Front(q) = Pre(q, Len(q) - 1) /\ Front(q) \in Seq(Nat)
        /\ Len(Front(q)) = Len(q) - 1
    BY <1>4, FrontLast
  <2>2. IsPrefix(p, Front(q)) <=> Len(p) <= Len(q) - 1 /\ Pre(Front(q), Len(p)) = p
    BY <2>1, IsPrefixIs
  <2>3. IsPrefix(p, q) <=> Len(p) <= Len(q) /\ Pre(q, Len(p)) = p
    BY IsPrefixIs
  <2>4. CASE Len(p) <= Len(q) - 1
    <3>1. Len(q) - 1 \in 0..Len(q) /\ Len(p) \in 0..Len(q) - 1 /\ Len(p) <= Len(q) /\ Len(p) # Len(q)
      BY <1>1, <2>1, <2>4
    <3>2. Pre(Front(q), Len(p)) = Pre(q, Len(p))
      BY <2>1, <3>1, PreOfPre
    <3>3. QED
      BY <2>2, <2>3, <2>4, <3>1, <3>2
  <2>5. CASE ~(Len(p) <= Len(q) - 1)
    <3>1. Len(p) <= Len(q) => Len(p) = Len(q)
      BY <1>1, <2>1, <2>5
    <3>2. Pre(q, Len(q)) = q
      BY PreOfAll
    <3>3. Len(q) <= Len(q)
      BY <1>1
    <3>4. QED
      BY <2>2, <2>3, <2>5, <3>1, <3>2, <3>3
  <2>6. QED
    BY <2>4, <2>5
<1>5. QED
  BY <1>2, <1>3, <1>4

-----------------------------------------------------------------------------
(* Where paths lead, in any tree                                           *)

FollowIn(t, p) == IF p \in DOMAIN t /\ t[p].kind = "link" THEN Target ELSE p
LeadsStep(t, f, p) ==
    IF p = <<>> THEN <<>> ELSE Append(FollowIn(t, f[Front(p)]), Last(p))

\* Locate in a tree.
Leads(t) ==
    LET at[p \in Seq(Nat)] ==
          IF p = <<>> THEN <<>> ELSE Append(FollowIn(t, at[Front(p)]), Last(p))
    IN  at
OpenIn(t, p) == FollowIn(t, Leads(t)[p])

LEMMA LocateIs ==
    /\ Locate = Leads(tree) /\ Locate' = Leads(tree')
    /\ \A p : /\ Follow(p) = FollowIn(tree, p) /\ Follow(p)' = FollowIn(tree', p)
              /\ Open(p) = OpenIn(tree, p) /\ Open(p)' = OpenIn(tree', p)
<1>1. Locate = Leads(tree) /\ Locate' = Leads(tree')
  BY DEF Locate, Leads, Follow, FollowIn, Is
<1>2. \A p : Follow(p) = FollowIn(tree, p) /\ Follow(p)' = FollowIn(tree', p)
  BY DEF Follow, FollowIn, Is
<1>3. \A p : Open(p) = OpenIn(tree, p) /\ Open(p)' = OpenIn(tree', p)
  BY <1>1, <1>2 DEF Open, OpenIn
<1>4. QED
  BY <1>1, <1>2, <1>3

LEMMA FollowType ==
    ASSUME Target \in Seq(Nat), NEW t, NEW p \in Seq(Nat)
    PROVE  FollowIn(t, p) \in Seq(Nat)
BY DEF FollowIn

LEMMA LeadsStepIs ==
    ASSUME NEW t, NEW f, NEW p
    PROVE  /\ p = <<>> => LeadsStep(t, f, p) = <<>>
           /\ p # <<>> => LeadsStep(t, f, p) = Append(FollowIn(t, f[Front(p)]), Last(p))
BY DEF LeadsStep

LEMMA LeadsStepType ==
    ASSUME Target \in Seq(Nat), NEW t, NEW f, NEW p \in Seq(Nat),
           \A q \in Seq(Nat) : Len(q) < Len(p) => f[q] \in Seq(Nat)
    PROVE  LeadsStep(t, f, p) \in Seq(Nat)
<1>1. CASE p = <<>>
  BY <1>1, EmptySeq, LeadsStepIs
<1>2. CASE p # <<>>
  <2>1. Front(p) \in Seq(Nat) /\ Len(Front(p)) < Len(p) /\ Last(p) \in Nat
    BY <1>2, FrontLast
  <2>2. FollowIn(t, f[Front(p)]) \in Seq(Nat)
    BY <2>1, FollowType
  <2>3. Append(FollowIn(t, f[Front(p)]), Last(p)) \in Seq(Nat)
    BY <2>1, <2>2, AppendIs
  <2>4. LeadsStep(t, f, p) = Append(FollowIn(t, f[Front(p)]), Last(p))
    BY <1>2, LeadsStepIs
  <2>5. QED
    BY <2>3, <2>4
<1>3. QED
  BY <1>1, <1>2

LEMMA LeadsStepSame ==
    ASSUME NEW t, NEW f, NEW g, NEW p \in Seq(Nat),
           \A q \in Seq(Nat) : Len(q) < Len(p) => f[q] = g[q]
    PROVE  LeadsStep(t, f, p) = LeadsStep(t, g, p)
<1>1. CASE p = <<>>
  BY <1>1, LeadsStepIs
<1>2. CASE p # <<>>
  <2>1. Front(p) \in Seq(Nat) /\ Len(Front(p)) < Len(p)
    BY <1>2, FrontLast
  <2>2. f[Front(p)] = g[Front(p)]
    BY <2>1
  <2>3. QED
    BY <1>2, <2>2, LeadsStepIs
<1>3. QED
  BY <1>1, <1>2

\* Leads conforms to its definition, and leads to paths.
LEMMA LeadsSolves ==
    ASSUME Target \in Seq(Nat), NEW t, NEW p \in Seq(Nat)
    PROVE  Leads(t)[p] = LeadsStep(t, Leads(t), p) /\ Leads(t)[p] \in Seq(Nat)
<1> DEFINE D == Seq(Nat)
           R == Seq(Nat)
           size == [q \in D |-> Len(q)]
           G == [f \in [D -> R] |-> [q \in D |-> LeadsStep(t, f, q)]]
<1>1. \A f \in [D -> R] : \A q \in D : LeadsStep(t, f, q) \in R
  <2> SUFFICES ASSUME NEW f \in [D -> R], NEW q \in D PROVE LeadsStep(t, f, q) \in R
    OBVIOUS
  <2>1. \A r \in Seq(Nat) : f[r] \in Seq(Nat)
    OBVIOUS
  <2>2. QED
    BY <2>1, LeadsStepType
<1>2. \A f, g \in [D -> R] : \A d \in D :
        (\A e \in D : size[e] < size[d] => f[e] = g[e])
          => LeadsStep(t, f, d) = LeadsStep(t, g, d)
  <2> SUFFICES ASSUME NEW f \in [D -> R], NEW g \in [D -> R], NEW d \in D,
                      \A e \in D : size[e] < size[d] => f[e] = g[e]
               PROVE  LeadsStep(t, f, d) = LeadsStep(t, g, d)
    OBVIOUS
  <2>1. \A e \in D : Len(e) < Len(d) => f[e] = g[e]
    OBVIOUS
  <2>2. QED
    BY <2>1, LeadsStepSame
<1>3. size \in [D -> Nat]
  BY LenProperties
<1>4. [D -> R] # {}
  <2>1. [q \in D |-> <<>>] \in [D -> R]
    BY EmptySeq
  <2>2. QED
    BY <2>1
<1> HIDE DEF R, size, D
<1>5. G \in [[D -> R] -> [D -> R]]
  BY <1>1
<1>6. LooksBack(G, D, R, size)
  BY <1>2 DEF LooksBack
<1>7. \A f \in [D -> R] : G[f] = [q \in D |-> LeadsStep(t, f, q)]
  OBVIOUS
<1> HIDE DEF G
<1>8. \E f : f \in [D -> R] /\ Solves(f, G)
  BY <1>3, <1>4, <1>5, <1>6, Solution, Zenon
<1>9. \E f : f = [q \in D |-> LeadsStep(t, f, q)]
  <2>1. PICK f \in [D -> R] : Solves(f, G)
    BY <1>8
  <2>2. f = G[f]
    BY <2>1 DEF Solves
  <2>3. G[f] = [q \in D |-> LeadsStep(t, f, q)]
    BY <1>7
  <2>4. QED
    BY <2>2, <2>3
<1>10. Leads(t) = CHOOSE f : f = [q \in D |-> LeadsStep(t, f, q)]
  BY DEF Leads, LeadsStep, D
<1>11. Leads(t) = [q \in D |-> LeadsStep(t, Leads(t), q)]
  BY <1>9, <1>10
<1>12. \A q \in Seq(Nat) : Leads(t)[q] = LeadsStep(t, Leads(t), q)
  BY <1>11 DEF D
<1> DEFINE S == {n \in Nat : \A q \in Seq(Nat) : Len(q) = n => Leads(t)[q] \in Seq(Nat)}
<1>13. \A n \in Nat : n \in S
  <2>1. S \in SUBSET Nat
    OBVIOUS
  <2>2. \A n \in Nat : (\A m \in 0..n - 1 : m \in S) => n \in S
    <3> SUFFICES ASSUME NEW n \in Nat, \A m \in 0..n - 1 : m \in S,
                        NEW q \in Seq(Nat), Len(q) = n
                 PROVE  Leads(t)[q] \in Seq(Nat)
      OBVIOUS
    <3>1. \A r \in Seq(Nat) : Len(r) < Len(q) => Leads(t)[r] \in Seq(Nat)
      <4> SUFFICES ASSUME NEW r \in Seq(Nat), Len(r) < Len(q) PROVE Leads(t)[r] \in Seq(Nat)
        OBVIOUS
      <4>1. Len(r) \in 0..n - 1
        BY LenProperties
      <4>2. QED
        BY <4>1
    <3>2. QED
      BY <1>12, <3>1, LeadsStepType
  <2> HIDE DEF S
  <2>3. QED
    BY <2>1, <2>2, AllNumbers
<1>14. Len(p) \in Nat
  BY LenProperties
<1>15. QED
  BY <1>12, <1>13, <1>14

LEMMA LeadsIs ==
    ASSUME Target \in Seq(Nat), NEW t, NEW p \in Seq(Nat)
    PROVE  /\ Leads(t)[p] \in Seq(Nat) /\ OpenIn(t, p) \in Seq(Nat)
           /\ Leads(t)[<<>>] = <<>>
           /\ p # <<>> => /\ Leads(t)[p] = Append(OpenIn(t, Front(p)), Last(p))
                          /\ Leads(t)[p] # <<>>
<1>1. Leads(t)[p] \in Seq(Nat)
  BY LeadsSolves
<1>2. OpenIn(t, p) \in Seq(Nat)
  BY <1>1, FollowType DEF OpenIn
<1>3. Leads(t)[<<>>] = <<>>
  <2>1. <<>> \in Seq(Nat)
    BY EmptySeq
  <2>2. Leads(t)[<<>>] = LeadsStep(t, Leads(t), <<>>)
    BY <2>1, LeadsSolves
  <2>3. LeadsStep(t, Leads(t), <<>>) = <<>>
    BY LeadsStepIs
  <2>4. QED
    BY <2>2, <2>3
<1>4. ASSUME p # <<>>
      PROVE  Leads(t)[p] = Append(OpenIn(t, Front(p)), Last(p)) /\ Leads(t)[p] # <<>>
  <2>1. Leads(t)[p] = Append(OpenIn(t, Front(p)), Last(p))
    BY <1>4, LeadsSolves, LeadsStepIs DEF OpenIn
  <2>2. Front(p) \in Seq(Nat) /\ Last(p) \in Nat
    BY <1>4, FrontLast
  <2>3. OpenIn(t, Front(p)) \in Seq(Nat)
    BY <2>2, LeadsSolves, FollowType DEF OpenIn
  <2>4. QED
    BY <2>1, <2>2, <2>3, AppendIs
<1>5. QED
  BY <1>1, <1>2, <1>3, <1>4

-----------------------------------------------------------------------------
(* Trees                                                                   *)

DirIn(t, p) == p = <<>> \/ (p \in DOMAIN t /\ t[p].kind = "dir")
LinkIn(t, p) == p \in DOMAIN t /\ t[p].kind = "link"
TreeIs(t) ==
    /\ DOMAIN t \subseteq Paths
    /\ \A p \in DOMAIN t : t[p] \in Entries /\ DirIn(t, Front(p))

\* What is assumed of the constants.
FilesOK ==
    /\ Paths \subseteq Seq(Nat) \ {<<>>} /\ IsFiniteSet(Paths)
    /\ Target \in Seq(Nat) /\ MaxSize \in Nat
    /\ \A t \in Trees : TreeIs(t)

Childless(t, p) == \A q \in DOMAIN t : Front(q) # p

LEMMA TreePaths ==
    ASSUME FilesOK, NEW t, TreeIs(t)
    PROVE  \A p \in DOMAIN t : p \in Seq(Nat) /\ p # <<>>
BY DEF FilesOK, TreeIs

\* Only a directory has something below it ...
LEMMA OnlyDirs ==
    ASSUME NEW t, TreeIs(t), NEW p, p # <<>>, ~(p \in DOMAIN t /\ t[p].kind = "dir")
    PROVE  Childless(t, p)
BY DEF Childless, TreeIs, DirIn

\* ... and what has nothing in it has nothing below it.
LEMMA NoneBelow ==
    ASSUME FilesOK, NEW t, TreeIs(t), NEW x \in Seq(Nat), x # <<>>, Childless(t, x)
    PROVE  \A q \in DOMAIN t : IsPrefix(x, q) => q = x
<1> DEFINE S == {n \in Nat : \A q \in DOMAIN t : Len(q) = n /\ IsPrefix(x, q) => q = x}
<1>1. \A n \in Nat : (\A m \in 0..n - 1 : m \in S) => n \in S
  <2> SUFFICES ASSUME NEW n \in Nat, \A m \in 0..n - 1 : m \in S,
                      NEW q \in DOMAIN t, Len(q) = n, IsPrefix(x, q), q # x
               PROVE  FALSE
    OBVIOUS
  <2>1. q \in Seq(Nat) /\ q # <<>>
    BY TreePaths
  <2>2. /\ Len(q) \in Nat \ {0} /\ Front(q) \in Seq(Nat) /\ Len(Front(q)) = Len(q) - 1
    BY <2>1, FrontLast
  <2>3. IsPrefix(x, Front(q))
    BY <2>1, PrefixLaws
  <2>4. Front(q) # <<>>
    <3>1. Len(x) \in Nat \ {0} /\ Len(x) <= Len(Front(q)) /\ Len(<<>>) = 0
      BY <2>2, <2>3, EmptySeq, IsPrefixIs
    <3>2. QED
      BY <3>1
  <2>5. Front(q) \in DOMAIN t
    BY <2>4 DEF TreeIs, DirIn
  <2>6. n - 1 \in S
    BY <2>2
  <2>7. Front(q) = x
    BY <2>2, <2>3, <2>5, <2>6
  <2>8. QED
    BY <2>7 DEF Childless
<1>2. S \in SUBSET Nat
  OBVIOUS
<1> HIDE DEF S
<1>3. \A n \in Nat : n \in S
  BY <1>1, <1>2, AllNumbers
<1>4. \A q \in DOMAIN t : Len(q) \in Nat
  BY TreePaths, LenProperties
<1>5. QED
  BY <1>3, <1>4 DEF S

-----------------------------------------------------------------------------
(* What of a tree a path depends on                                        *)

LEMMA LeadsPre ==
    ASSUME Target \in Seq(Nat), NEW t, NEW p \in Seq(Nat), NEW n \in 1..Len(p)
    PROVE  /\ Leads(t)[Pre(p, n)] = Append(OpenIn(t, Pre(p, n - 1)), p[n])
           /\ OpenIn(t, Pre(p, n - 1)) \in Seq(Nat) /\ p[n] \in Nat
           /\ Pre(p, n) \in Seq(Nat) /\ Pre(p, n - 1) \in Seq(Nat)
<1>1. Len(p) \in Nat /\ n \in 0..Len(p) /\ n - 1 \in 0..Len(p)
  BY LenProperties
<1>2. Pre(p, n) \in Seq(Nat) /\ Pre(p, n - 1) \in Seq(Nat)
  BY <1>1, PreIs
<1>3. Pre(p, n) # <<>> /\ Front(Pre(p, n)) = Pre(p, n - 1) /\ Last(Pre(p, n)) = p[n]
  BY FrontOfPre
<1>4. Leads(t)[Pre(p, n)] = Append(OpenIn(t, Front(Pre(p, n))), Last(Pre(p, n)))
  BY <1>2, <1>3, LeadsIs
<1>5. OpenIn(t, Pre(p, n - 1)) \in Seq(Nat)
  BY <1>2, LeadsIs
<1>6. p[n] \in Nat
  BY ElementOfSeq
<1>7. QED
  BY <1>2, <1>3, <1>4, <1>5, <1>6

Same(t, u, x) ==
    /\ x \in DOMAIN t <=> x \in DOMAIN u
    /\ x \in DOMAIN t => t[x] = u[x]

LEMMA SameIs ==
    ASSUME NEW t, NEW u, NEW x, Same(t, u, x)
    PROVE  /\ FollowIn(t, x) = FollowIn(u, x) /\ (LinkIn(t, x) <=> LinkIn(u, x))
           /\ (x \in DOMAIN t <=> x \in DOMAIN u) /\ (DirIn(t, x) <=> DirIn(u, x))
BY DEF Same, FollowIn, LinkIn, DirIn

SameWay(t, u, p) == \A n \in 1..Len(p) : Same(t, u, Leads(t)[Pre(p, n)])
LeadsAsBefore(t, u, p) ==
    \A n \in 0..Len(p) : /\ Leads(u)[Pre(p, n)] = Leads(t)[Pre(p, n)]
                         /\ OpenIn(u, Pre(p, n)) = OpenIn(t, Pre(p, n))

\* A path leads where it led as long as no place on its way has changed.
LEMMA SteadyWay ==
    ASSUME Target \in Seq(Nat), NEW t, NEW u, <<>> \notin DOMAIN t, <<>> \notin DOMAIN u,
           NEW p \in Seq(Nat), SameWay(t, u, p)
    PROVE  LeadsAsBefore(t, u, p)
<1> DEFINE Led(n) == Leads(u)[Pre(p, n)] = Leads(t)[Pre(p, n)]
           S == {n \in Nat : n <= Len(p) => Led(n)}
<1>0. Len(p) \in Nat
  BY LenProperties
<1>1. \A n \in 0..Len(p) : Same(t, u, Leads(t)[Pre(p, n)])
  <2> TAKE n \in 0..Len(p)
  <2>1. CASE n = 0
    <3>1. Leads(t)[Pre(p, 0)] = <<>>
      BY PreOfAll, LeadsIs
    <3>2. QED
      BY <2>1, <3>1 DEF Same
  <2>2. CASE n # 0
    BY <1>0, <2>2 DEF SameWay
  <2>3. QED
    BY <2>1, <2>2
<1>2. \A n \in 0..Len(p) : Led(n) => OpenIn(u, Pre(p, n)) = OpenIn(t, Pre(p, n))
  BY <1>1, SameIs DEF OpenIn
<1>3. \A n \in Nat : (\A m \in 0..n - 1 : m \in S) => n \in S
  <2> SUFFICES ASSUME NEW n \in Nat, \A m \in 0..n - 1 : m \in S, n <= Len(p)
               PROVE  Led(n)
    OBVIOUS
  <2>1. CASE n = 0
    BY <2>1, PreOfAll, LeadsIs
  <2>2. CASE n # 0
    <3>1. n \in 1..Len(p) /\ n - 1 \in 0..Len(p) /\ n - 1 \in 0..n - 1 /\ n - 1 <= Len(p)
      BY <1>0, <2>2
    <3>2. n - 1 \in S
      BY <3>1
    <3>3. Led(n - 1)
      BY <3>1, <3>2
    <3> HIDE DEF Led, S
    <3>4. OpenIn(u, Pre(p, n - 1)) = OpenIn(t, Pre(p, n - 1))
      BY <1>2, <3>1, <3>3
    <3>5. /\ Leads(t)[Pre(p, n)] = Append(OpenIn(t, Pre(p, n - 1)), p[n])
          /\ Leads(u)[Pre(p, n)] = Append(OpenIn(u, Pre(p, n - 1)), p[n])
      BY <3>1, LeadsPre
    <3>6. QED
      BY <3>4, <3>5 DEF Led
  <2>3. QED
    BY <2>1, <2>2
<1>4. S \in SUBSET Nat
  OBVIOUS
<1> HIDE DEF S
<1>5. \A n \in Nat : n \in S
  BY <1>3, <1>4, AllNumbers
<1>6. \A n \in 0..Len(p) : Led(n)
  BY <1>0, <1>5 DEF S
<1>7. QED
  BY <1>2, <1>6 DEF LeadsAsBefore

\* Behind its first k names, up to the name l, the path q leads through no link.
Plain(t, q, k, l) == \A m \in k + 1..l : ~LinkIn(t, Leads(t)[Pre(q, m)])

\* Such a path stays below what its first k names lead to.
LEMMA PlainBelow ==
    ASSUME Target \in Seq(Nat), NEW t, NEW q \in Seq(Nat),
           NEW k \in 0..Len(q), NEW l \in k..Len(q), Plain(t, q, k, l)
    PROVE  \A m \in k + 1..Len(q) : m <= l + 1 =>
             IsPrefix(OpenIn(t, Pre(q, k)), Leads(t)[Pre(q, m)])
<1> DEFINE o == OpenIn(t, Pre(q, k))
           Below2(m) == IsPrefix(o, Leads(t)[Pre(q, m)])
           S == {m \in Nat : k + 1 <= m /\ m <= Len(q) /\ m <= l + 1 => Below2(m)}
<1>0. Len(q) \in Nat /\ k \in Nat /\ l \in Nat
  BY LenProperties
<1>1. o \in Seq(Nat)
  <2>1. Pre(q, k) \in Seq(Nat)
    BY PreIs
  <2>2. QED
    BY <2>1, LeadsIs
<1> HIDE DEF o
<1>2. \A m \in Nat : (\A i \in 0..m - 1 : i \in S) => m \in S
  <2> SUFFICES ASSUME NEW m \in Nat, \A i \in 0..m - 1 : i \in S,
                      k + 1 <= m, m <= Len(q), m <= l + 1
               PROVE  Below2(m)
    OBVIOUS
  <2>0. m \in 1..Len(q) /\ m - 1 \in 0..m - 1 /\ m - 1 \in Nat
    BY <1>0
  <2> DEFINE a == OpenIn(t, Pre(q, m - 1))
  <2>1. /\ Leads(t)[Pre(q, m)] = Append(a, q[m]) /\ a \in Seq(Nat) /\ q[m] \in Nat
        /\ Pre(q, m - 1) \in Seq(Nat)
    BY <2>0, LeadsPre
  <2>2. IsPrefix(o, a)
    <3>1. CASE m = k + 1
      <4>1. m - 1 = k
        BY <1>0, <3>1
      <4>2. a = o
        BY <4>1 DEF o
      <4>3. QED
        BY <1>1, <4>2, PrefixLaws
    <3>2. CASE m # k + 1
      <4>1. k + 1 <= m - 1 /\ m - 1 <= Len(q) /\ m - 1 <= l + 1 /\ m - 1 \in k + 1..l
        BY <1>0, <3>2
      <4>2. Below2(m - 1)
        BY <2>0, <4>1
      <4> HIDE DEF S
      <4>3. ~LinkIn(t, Leads(t)[Pre(q, m - 1)])
        BY <4>1 DEF Plain
      <4>4. a = Leads(t)[Pre(q, m - 1)]
        BY <4>3 DEF OpenIn, FollowIn, LinkIn
      <4>5. QED
        BY <4>2, <4>4
    <3>3. QED
      BY <3>1, <3>2
  <2> HIDE DEF a, S
  <2>3. Append(a, q[m]) \in Seq(Nat) /\ Append(a, q[m]) # <<>> /\ Front(Append(a, q[m])) = a
    BY <2>1, AppendIs
  <2>4. IsPrefix(o, Append(a, q[m])) <=> o = Append(a, q[m]) \/ IsPrefix(o, Front(Append(a, q[m])))
    BY <1>1, <2>3, PrefixLaws
  <2>5. IsPrefix(o, Append(a, q[m]))
    BY <2>2, <2>3, <2>4
  <2>6. QED
    BY <2>1, <2>5
<1>3. S \in SUBSET Nat
  OBVIOUS
<1> HIDE DEF S
<1>4. \A m \in Nat : m \in S
  BY <1>2, <1>3, AllNumbers
<1>5. \A m \in k + 1..Len(q) : m \in Nat /\ k + 1 <= m /\ m <= Len(q)
  BY <1>0
<1>6. QED
  BY <1>4, <1>5 DEF S, o

\* And it stays as it is when nothing on the way there or below changes.
LEMMA PlainSteady ==
    ASSUME Target \in Seq(Nat), NEW t, NEW u, <<>> \notin DOMAIN t, <<>> \notin DOMAIN u,
           NEW q \in Seq(Nat), NEW k \in 0..Len(q), NEW l \in k..Len(q), Plain(t, q, k, l),
           \A n \in 1..k : Same(t, u, Leads(t)[Pre(q, n)]),
           \A x \in Seq(Nat) : IsPrefix(OpenIn(t, Pre(q, k)), x) => Same(t, u, x)
    PROVE  /\ Plain(u, q, k, l)
           /\ \A m \in 0..Len(q) : m <= l + 1 => Leads(u)[Pre(q, m)] = Leads(t)[Pre(q, m)]
<1>0. Len(q) \in Nat /\ k \in Nat /\ l \in Nat
  BY LenProperties
<1>1. \A m \in 1..Len(q) : m <= l + 1 => Same(t, u, Leads(t)[Pre(q, m)])
  <2> SUFFICES ASSUME NEW m \in 1..Len(q), m <= l + 1
               PROVE  Same(t, u, Leads(t)[Pre(q, m)])
    OBVIOUS
  <2>1. CASE m <= k
    BY <1>0, <2>1
  <2>2. CASE ~(m <= k)
    <3>1. m \in k + 1..Len(q)
      BY <1>0, <2>2
    <3>2. IsPrefix(OpenIn(t, Pre(q, k)), Leads(t)[Pre(q, m)])
      BY <3>1, PlainBelow
    <3>3. m \in 0..Len(q)
      BY <1>0
    <3>4. Leads(t)[Pre(q, m)] \in Seq(Nat)
      BY <3>3, PreIs, LeadsIs
    <3>5. QED
      BY <3>2, <3>4
  <2>3. QED
    BY <2>1, <2>2
<1>2. \A m \in 0..Len(q) : m <= l + 1 => Leads(u)[Pre(q, m)] = Leads(t)[Pre(q, m)]
  <2> SUFFICES ASSUME NEW m \in 0..Len(q), m <= l + 1
               PROVE  Leads(u)[Pre(q, m)] = Leads(t)[Pre(q, m)]
    OBVIOUS
  <2> DEFINE p == Pre(q, m)
  <2>1. p \in Seq(Nat) /\ Len(p) = m /\ m \in 0..Len(p) /\ Pre(p, m) = p
    BY <1>0, PreIs, PreOfAll
  <2>2. \A n \in 1..m : n \in 1..Len(q) /\ n <= l + 1 /\ Pre(p, n) = Pre(q, n)
    <3> TAKE n \in 1..m
    <3>1. n \in 1..Len(q) /\ n <= l + 1 /\ n \in 0..m
      BY <1>0
    <3>2. QED
      BY <3>1, PreOfPre
  <2> HIDE DEF p
  <2>3. SameWay(t, u, p)
    BY <1>1, <2>1, <2>2 DEF SameWay
  <2>4. LeadsAsBefore(t, u, p)
    BY <2>1, <2>3, SteadyWay
  <2>5. Leads(u)[p] = Leads(t)[p]
    BY <2>1, <2>4 DEF LeadsAsBefore
  <2>6. QED
    BY <2>5 DEF p
<1>3. Plain(u, q, k, l)
  <2> SUFFICES ASSUME NEW m \in k + 1..l PROVE ~LinkIn(u, Leads(u)[Pre(q, m)])
    BY DEF Plain
  <2>1. m \in 1..Len(q) /\ m \in 0..Len(q) /\ m <= l + 1
    BY <1>0
  <2>2. Leads(u)[Pre(q, m)] = Leads(t)[Pre(q, m)] /\ Same(t, u, Leads(t)[Pre(q, m)])
    BY <1>1, <1>2, <2>1
  <2>3. ~LinkIn(t, Leads(t)[Pre(q, m)])
    BY DEF Plain
  <2>4. QED
    BY <2>2, <2>3, SameIs
<1>4. QED
  BY <1>2, <1>3

-----------------------------------------------------------------------------
(* What a removal does to paths                                            *)

Without(t, x) == [q \in DOMAIN t \ {x} |-> t[q]]

LEMMA WithoutIs ==
    ASSUME FilesOK, NEW t, TreeIs(t), NEW x \in DOMAIN t, Childless(t, x)
    PROVE  /\ TreeIs(Without(t, x)) /\ x \notin DOMAIN Without(t, x)
           /\ \A y : y # x => Same(t, Without(t, x), y)
           /\ \A y \in DOMAIN Without(t, x) : ~IsPrefix(x, y)
<1>1. DOMAIN Without(t, x) = DOMAIN t \ {x} /\ \A q \in DOMAIN t \ {x} : Without(t, x)[q] = t[q]
  BY DEF Without
<1>2. x \notin DOMAIN Without(t, x) /\ \A y : y # x => Same(t, Without(t, x), y)
  BY <1>1 DEF Same
<1>3. x \in Seq(Nat) /\ x # <<>>
  BY TreePaths
<1>4. \A y \in DOMAIN Without(t, x) : ~IsPrefix(x, y)
  BY <1>1, <1>3, NoneBelow
<1>5. TreeIs(Without(t, x))
  BY <1>1 DEF TreeIs, DirIn, Childless
<1>6. QED
  BY <1>2, <1>4, <1>5

\* A path leads where it led, or into what is no longer there.
LEMMA RemovalMoves ==
    ASSUME FilesOK, NEW t, TreeIs(t), NEW x \in DOMAIN t, Childless(t, x),
           NEW p \in Seq(Nat)
    PROVE  \A n \in 0..Len(p) :
             \/ Leads(Without(t, x))[Pre(p, n)] = Leads(t)[Pre(p, n)]
             \/ IsPrefix(x, Leads(Without(t, x))[Pre(p, n)])
<1> DEFINE u == Without(t, x)
           In(n) == IsPrefix(x, Leads(u)[Pre(p, n)])
           Led(n) == Leads(u)[Pre(p, n)] = Leads(t)[Pre(p, n)]
           S == {n \in Nat : n <= Len(p) => Led(n) \/ In(n)}
<1>0. Len(p) \in Nat /\ Target \in Seq(Nat) /\ x \in Seq(Nat)
  BY LenProperties, TreePaths DEF FilesOK
<1>1. /\ x \notin DOMAIN u /\ \A y : y # x => Same(t, u, y)
      /\ \A y \in DOMAIN u : ~IsPrefix(x, y)
  BY WithoutIs
<1> HIDE DEF u
<1>2. \A n \in Nat : (\A m \in 0..n - 1 : m \in S) => n \in S
  <2> SUFFICES ASSUME NEW n \in Nat, \A m \in 0..n - 1 : m \in S, n <= Len(p)
               PROVE  Led(n) \/ In(n)
    OBVIOUS
  <2>1. CASE n = 0
    BY <1>0, <2>1, PreOfAll, LeadsIs
  <2>2. CASE n # 0
    <3>1. n \in 1..Len(p) /\ n - 1 \in 0..n - 1 /\ n - 1 <= Len(p) /\ n - 1 \in 0..Len(p)
      BY <1>0, <2>2
    <3>2. Led(n - 1) \/ In(n - 1)
      BY <3>1
    <3> HIDE DEF S
    <3> DEFINE a == OpenIn(u, Pre(p, n - 1))
               l == Leads(u)[Pre(p, n - 1)]
    <3>3. /\ Leads(t)[Pre(p, n)] = Append(OpenIn(t, Pre(p, n - 1)), p[n])
          /\ Leads(u)[Pre(p, n)] = Append(a, p[n]) /\ a \in Seq(Nat) /\ p[n] \in Nat
          /\ Pre(p, n - 1) \in Seq(Nat)
      BY <1>0, <3>1, LeadsPre
    <3>4. ASSUME IsPrefix(x, a) PROVE In(n)
      <4> HIDE DEF a
      <4>1. Append(a, p[n]) \in Seq(Nat) /\ Append(a, p[n]) # <<>> /\ Front(Append(a, p[n])) = a
        BY <3>3, AppendIs
      <4>2. IsPrefix(x, Append(a, p[n])) <=>
              x = Append(a, p[n]) \/ IsPrefix(x, Front(Append(a, p[n])))
        BY <1>0, <4>1, PrefixLaws
      <4>3. IsPrefix(x, Append(a, p[n]))
        BY <3>4, <4>1, <4>2
      <4>4. QED
        BY <3>3, <4>3
    <3>5. CASE In(n - 1)
      <4>1. l \notin DOMAIN u
        BY <1>1, <3>5
      <4>2. a = l
        BY <4>1 DEF OpenIn, FollowIn
      <4>3. QED
        BY <3>4, <3>5, <4>2
    <3>6. CASE Led(n - 1) /\ l = x
      <4>1. a = x
        BY <1>1, <3>6 DEF OpenIn, FollowIn
      <4>2. QED
        BY <1>0, <3>4, <4>1, PrefixLaws
    <3>7. CASE Led(n - 1) /\ l # x
      <4>1. Same(t, u, l) /\ l = Leads(t)[Pre(p, n - 1)]
        BY <1>1, <3>7
      <4>2. a = OpenIn(t, Pre(p, n - 1))
        BY <4>1, SameIs DEF OpenIn
      <4>3. QED
        BY <3>3, <4>2
    <3>8. QED
      BY <3>2, <3>5, <3>6, <3>7
  <2>3. QED
    BY <2>1, <2>2
<1>3. S \in SUBSET Nat
  OBVIOUS
<1> HIDE DEF S
<1>4. \A n \in Nat : n \in S
  BY <1>2, <1>3, AllNumbers
<1>5. \A n \in 0..Len(p) : Led(n) \/ In(n)
  BY <1>0, <1>4 DEF S
<1>6. QED
  BY <1>5 DEF u

\* So no path becomes less plain, and what is not there is still not there.
LEMMA RemovalKeeps ==
    ASSUME FilesOK, NEW t, TreeIs(t), NEW x \in DOMAIN t, Childless(t, x),
           NEW p \in Seq(Nat)
    PROVE  /\ \A k, l \in 0..Len(p) : Plain(t, p, k, l) => Plain(Without(t, x), p, k, l)
           /\ Leads(Without(t, x))[p] \in DOMAIN Without(t, x)
                => Leads(t)[p] \in DOMAIN t /\ Leads(t)[p] # x
<1> DEFINE u == Without(t, x)
<1>1. /\ x \notin DOMAIN u /\ \A y : y # x => Same(t, u, y)
      /\ \A y \in DOMAIN u : ~IsPrefix(x, y)
  BY WithoutIs
<1>2. \A n \in 0..Len(p) : Leads(u)[Pre(p, n)] \in DOMAIN u =>
        /\ Leads(u)[Pre(p, n)] = Leads(t)[Pre(p, n)]
        /\ Leads(u)[Pre(p, n)] # x /\ Same(t, u, Leads(u)[Pre(p, n)])
  BY <1>1, RemovalMoves
<1>3. Len(p) \in Nat /\ Len(p) \in 0..Len(p) /\ Pre(p, Len(p)) = p
  BY LenProperties, PreOfAll
<1> HIDE DEF u
<1>4. ASSUME NEW k \in 0..Len(p), NEW l \in 0..Len(p), Plain(t, p, k, l)
      PROVE  Plain(u, p, k, l)
  <2> SUFFICES ASSUME NEW m \in k + 1..l, LinkIn(u, Leads(u)[Pre(p, m)]) PROVE FALSE
    BY DEF Plain
  <2>1. m \in 0..Len(p)
    BY <1>3
  <2>2. Leads(u)[Pre(p, m)] \in DOMAIN u
    BY DEF LinkIn
  <2>3. Leads(u)[Pre(p, m)] = Leads(t)[Pre(p, m)] /\ Same(t, u, Leads(u)[Pre(p, m)])
    BY <1>2, <2>1, <2>2
  <2>4. LinkIn(t, Leads(t)[Pre(p, m)])
    BY <2>3, SameIs
  <2>5. QED
    BY <1>4, <2>4 DEF Plain
<1>5. Leads(u)[p] \in DOMAIN u => Leads(t)[p] \in DOMAIN t /\ Leads(t)[p] # x
  BY <1>2, <1>3 DEF Same
<1>6. QED
  BY <1>4, <1>5 DEF u

-----------------------------------------------------------------------------
(* Trees stay trees                                                        *)

LEMMA TreeOK ==
    (TypeOK => TreeIs(tree)) /\ (TypeOK' => TreeIs(tree'))
BY DEF TypeOK, TreeIs, DirIn, IsDir, Is

LEMMA ExtendIs ==
    ASSUME FilesOK, NEW t, TreeIs(t), NEW p \in Paths, NEW e \in Entries,
           DirIn(t, Front(p)), ~(p \in DOMAIN t /\ t[p].kind = "dir")
    PROVE  TreeIs(Extend(t, p, e))
<1> DEFINE u == Extend(t, p, e)
<1>1. /\ DOMAIN u = DOMAIN t \union {p} /\ u[p] = e
      /\ \A q \in DOMAIN t : q # p => u[q] = t[q]
  BY DEF Extend
<1>2. p # <<>>
  BY DEF FilesOK
<1>3. Childless(t, p)
  BY <1>2, OnlyDirs
<1> HIDE DEF u
<1>4. ASSUME NEW q, DirIn(t, q), q # p PROVE DirIn(u, q)
  BY <1>1, <1>4 DEF DirIn
<1>5. Front(p) # p
  BY <1>2 DEF DirIn
<1>6. \A q \in DOMAIN t : q # p => DirIn(u, Front(q)) /\ u[q] \in Entries
  BY <1>1, <1>3, <1>4 DEF TreeIs, Childless
<1>7. DirIn(u, Front(p))
  BY <1>4, <1>5
<1>8. TreeIs(u)
  BY <1>1, <1>6, <1>7 DEF TreeIs
<1>9. QED
  BY <1>8 DEF u

\* The names of q behind s, put behind t.
Rebase(q, s, t) == t \o SubSeq(q, Len(s) + 1, Len(q))

LEMMA RebaseIs ==
    ASSUME NEW s \in Seq(Nat), NEW t \in Seq(Nat), NEW q \in Seq(Nat), IsPrefix(s, q)
    PROVE  /\ Rebase(q, s, t) \in Seq(Nat)
           /\ Len(Rebase(q, s, t)) = Len(t) + Len(q) - Len(s) /\ Len(q) >= Len(s)
           /\ \A i \in 1..Len(t) : Rebase(q, s, t)[i] = t[i]
           /\ \A i \in 1..Len(q) - Len(s) : Rebase(q, s, t)[Len(t) + i] = q[Len(s) + i]
<1>1. Len(s) \in Nat /\ Len(t) \in Nat /\ Len(q) \in Nat /\ Len(s) <= Len(q)
  BY LenProperties DEF IsPrefix
<1> DEFINE m == Len(s) + 1
           z == SubSeq(q, m, Len(q))
<1>2. m \in Int /\ Len(q) \in Int /\ \A i \in m..Len(q) : i \in 1..Len(q)
  BY <1>1
<1>3. \A i \in m..Len(q) : q[i] \in Nat
  BY <1>2, ElementOfSeq
<1>4. /\ z \in Seq(Nat) /\ Len(z) = (IF m <= Len(q) THEN Len(q) - m + 1 ELSE 0)
      /\ \A i \in 1..Len(q) - m + 1 : z[i] = q[m + i - 1]
  BY <1>2, <1>3, SubSeqProperties
<1>5. (IF m <= Len(q) THEN Len(q) - m + 1 ELSE 0) = Len(q) - Len(s)
  BY <1>1
<1>6. \A i \in 1..Len(q) - Len(s) : i \in 1..Len(q) - m + 1 /\ m + i - 1 = Len(s) + i
  BY <1>1
<1>7. Len(z) = Len(q) - Len(s) /\ \A i \in 1..Len(q) - Len(s) : z[i] = q[Len(s) + i]
  BY <1>4, <1>5, <1>6
<1> HIDE DEF z, m
<1>8. /\ t \o z \in Seq(Nat) /\ Len(t \o z) = Len(t) + Len(z)
      /\ \A i \in 1..Len(t) + Len(z) :
           (t \o z)[i] = IF i <= Len(t) THEN t[i] ELSE z[i - Len(t)]
  BY <1>4, ConcatProperties
<1>9. Rebase(q, s, t) = t \o z
  BY DEF Rebase, z, m
<1>10. Len(t) + Len(z) = Len(t) + Len(q) - Len(s)
  BY <1>1, <1>7
<1>11. \A i \in 1..Len(t) : (t \o z)[i] = t[i]
  <2> TAKE i \in 1..Len(t)
  <2>1. i \in 1..Len(t) + Len(z) /\ i <= Len(t)
    BY <1>1, <1>7
  <2>2. QED
    BY <1>8, <2>1
<1>12. \A i \in 1..Len(q) - Len(s) : (t \o z)[Len(t) + i] = q[Len(s) + i]
  <2> TAKE i \in 1..Len(q) - Len(s)
  <2>1. /\ Len(t) + i \in 1..Len(t) + Len(z) /\ ~(Len(t) + i <= Len(t))
        /\ (Len(t) + i) - Len(t) = i
    BY <1>1, <1>7
  <2>2. (t \o z)[Len(t) + i] = z[i]
    BY <1>8, <2>1
  <2>3. QED
    BY <1>7, <2>2
<1>13. QED
  BY <1>1, <1>8, <1>9, <1>10, <1>11, <1>12

LEMMA RebaseLaws ==
    ASSUME NEW s \in Seq(Nat), NEW t \in Seq(Nat), NEW q \in Seq(Nat), IsPrefix(s, q)
    PROVE  /\ IsPrefix(t, Rebase(q, s, t)) /\ Rebase(Rebase(q, s, t), t, s) = q
           /\ Rebase(s, s, t) = t /\ (t # <<>> => Rebase(q, s, t) # <<>>)
           /\ q # <<>> /\ q # s =>
                /\ IsPrefix(s, Front(q)) /\ Front(q) \in Seq(Nat)
                /\ Front(Rebase(q, s, t)) = Rebase(Front(q), s, t)
<1> DEFINE r == Rebase(q, s, t)
<1>0. Len(s) \in Nat /\ Len(t) \in Nat /\ Len(q) \in Nat
  BY LenProperties
<1>1. /\ r \in Seq(Nat) /\ Len(r) = Len(t) + Len(q) - Len(s) /\ Len(q) >= Len(s)
      /\ \A i \in 1..Len(t) : r[i] = t[i]
      /\ \A i \in 1..Len(q) - Len(s) : r[Len(t) + i] = q[Len(s) + i]
  BY RebaseIs
<1>q. Len(s) <= Len(q) /\ Pre(q, Len(s)) = s
  BY IsPrefixIs
<1>s. \A i \in 1..Len(s) : q[i] = s[i]
  <2>1. Len(s) \in 0..Len(q)
    BY <1>0, <1>q
  <2>2. QED
    BY <1>q, <2>1, PreIs
<1> HIDE DEF r
<1>2. IsPrefix(t, r)
  <2>1. Len(t) <= Len(r) /\ Len(t) \in 0..Len(r)
    BY <1>0, <1>1
  <2>2. /\ Pre(r, Len(t)) \in Seq(Nat) /\ Len(Pre(r, Len(t))) = Len(t)
        /\ \A i \in 1..Len(t) : Pre(r, Len(t))[i] = r[i]
    BY <1>1, <2>1, PreIs
  <2>3. \A i \in 1..Len(t) : Pre(r, Len(t))[i] = t[i]
    BY <1>1, <2>2
  <2>4. Pre(r, Len(t)) = t
    BY <2>2, <2>3, SamePath
  <2>5. QED
    BY <1>1, <2>1, <2>4, IsPrefixIs
<1>3. Rebase(r, t, s) = q
  <2> DEFINE b == Rebase(r, t, s)
  <2>1. /\ b \in Seq(Nat) /\ Len(b) = Len(s) + Len(r) - Len(t)
        /\ \A i \in 1..Len(s) : b[i] = s[i]
        /\ \A i \in 1..Len(r) - Len(t) : b[Len(s) + i] = r[Len(t) + i]
    BY <1>1, <1>2, RebaseIs
  <2> HIDE DEF b
  <2>2. Len(b) = Len(q)
    BY <1>0, <1>1, <2>1
  <2>3. \A i \in 1..Len(b) : b[i] = q[i]
    <3> TAKE i \in 1..Len(b)
    <3>1. CASE i <= Len(s)
      <4>1. i \in 1..Len(s)
        BY <1>0, <2>2, <3>1
      <4>2. QED
        BY <1>s, <2>1, <4>1
    <3>2. CASE ~(i <= Len(s))
      <4>1. PICK j \in Nat : j = i - Len(s)
        BY <1>0, <2>2, <3>2
      <4>2. /\ j \in 1..Len(r) - Len(t) /\ j \in 1..Len(q) - Len(s)
            /\ Len(s) + j = i
        BY <1>0, <1>1, <2>2, <3>2, <4>1
      <4>3. b[Len(s) + j] = r[Len(t) + j] /\ r[Len(t) + j] = q[Len(s) + j]
        BY <1>1, <2>1, <4>2
      <4>4. QED
        BY <4>2, <4>3
    <3>3. QED
      BY <3>1, <3>2
  <2>4. b = q
    BY <2>1, <2>2, <2>3, SamePath
  <2>5. QED
    BY <2>4 DEF b
<1>4. Rebase(s, s, t) = t
  <2> DEFINE a == Rebase(s, s, t)
  <2>0. IsPrefix(s, s)
    BY PrefixLaws
  <2>1. /\ a \in Seq(Nat) /\ Len(a) = Len(t) + Len(s) - Len(s)
        /\ \A i \in 1..Len(t) : a[i] = t[i]
    BY <2>0, RebaseIs
  <2> HIDE DEF a
  <2>2. Len(a) = Len(t)
    BY <1>0, <2>1
  <2>3. a = t
    BY <2>1, <2>2, SamePath
  <2>4. QED
    BY <2>3 DEF a
<1>5. t # <<>> => r # <<>>
  <2>1. Len(<<>>) = 0 /\ (t # <<>> => Len(t) > 0)
    BY <1>0, EmptySeq
  <2>2. QED
    BY <1>0, <1>1, <2>1
<1>6. ASSUME q # <<>>, q # s
      PROVE  /\ IsPrefix(s, Front(q)) /\ Front(q) \in Seq(Nat)
             /\ Front(r) = Rebase(Front(q), s, t)
  <2> DEFINE f == Front(q)
  <2>1. /\ f \in Seq(Nat) /\ Len(f) = Len(q) - 1 /\ \A i \in 1..Len(q) - 1 : f[i] = q[i]
    BY <1>6, FrontLast
  <2>2. IsPrefix(s, f)
    BY <1>6, PrefixLaws
  <2> HIDE DEF f
  <2> DEFINE g == Rebase(f, s, t)
  <2>3. /\ g \in Seq(Nat) /\ Len(g) = Len(t) + Len(f) - Len(s) /\ Len(f) >= Len(s)
        /\ \A i \in 1..Len(t) : g[i] = t[i]
        /\ \A i \in 1..Len(f) - Len(s) : g[Len(t) + i] = f[Len(s) + i]
    BY <2>1, <2>2, RebaseIs
  <2> HIDE DEF g
  <2>4. r # <<>>
    <3>1. Len(r) > 0 /\ Len(<<>>) = 0
      BY <1>0, <1>1, <2>1, <2>3
    <3>2. QED
      BY <3>1
  <2>5. /\ Front(r) \in Seq(Nat) /\ Len(Front(r)) = Len(r) - 1
        /\ \A i \in 1..Len(r) - 1 : Front(r)[i] = r[i]
    BY <1>1, <2>4, FrontLast
  <2>6. Len(g) = Len(Front(r))
    BY <1>0, <1>1, <2>1, <2>3, <2>5
  <2>7. \A i \in 1..Len(g) : g[i] = Front(r)[i]
    <3> TAKE i \in 1..Len(g)
    <3>0. i \in 1..Len(r) - 1 /\ i \in Int
      BY <1>0, <1>1, <2>5, <2>6
    <3>1. CASE i <= Len(t)
      <4>1. i \in 1..Len(t)
        BY <1>0, <2>6, <3>0, <3>1
      <4>2. QED
        BY <1>1, <2>3, <2>5, <3>0, <4>1
    <3>2. CASE ~(i <= Len(t))
      <4>0. i - Len(t) \in Nat
        BY <1>0, <3>0, <3>2
      <4>1. PICK j \in Nat : j = i - Len(t)
        BY <4>0
      <4>2. Len(t) + j = i /\ j >= 1 /\ Len(t) + j <= Len(t) + Len(q) - Len(s) - 1
        BY <1>0, <1>1, <3>0, <3>2, <4>1
      <4>3. j <= Len(q) - Len(s) - 1
        BY <1>0, <4>2
      <4>4. j \in 1..Len(f) - Len(s) /\ j \in 1..Len(q) - Len(s) /\ Len(s) + j \in 1..Len(q) - 1
        BY <1>0, <2>1, <4>2, <4>3
      <4>5. g[Len(t) + j] = f[Len(s) + j] /\ r[Len(t) + j] = q[Len(s) + j]
        BY <1>1, <2>3, <4>4
      <4>6. f[Len(s) + j] = q[Len(s) + j]
        BY <2>1, <4>4
      <4>7. QED
        BY <2>5, <3>0, <4>2, <4>5, <4>6
    <3>3. QED
      BY <3>1, <3>2
  <2>8. g = Front(r)
    BY <2>3, <2>5, <2>6, <2>7, SamePath
  <2>9. QED
    BY <2>1, <2>2, <2>8 DEF f, g
<1>7. QED
  BY <1>2, <1>3, <1>4, <1>5, <1>6 DEF r

\* What a tree is after s and all below it were renamed to t.
MovedIn(w, s, t) ==
    LET old == {q \in DOMAIN w : ~IsPrefix(s, q) /\ q # t}
        new == {Rebase(q, s, t) : q \in {q \in DOMAIN w : IsPrefix(s, q)}}
    IN  [q \in old \union new |-> IF q \in new THEN w[Rebase(q, t, s)] ELSE w[q]]

LEMMA MovedIs ==
    ASSUME FilesOK, NEW w, TreeIs(w), NEW s \in DOMAIN w, NEW t \in Seq(Nat), t # <<>>,
           DirIn(w, Front(t)), ~IsPrefix(s, t), Childless(w, t),
           DOMAIN MovedIn(w, s, t) \subseteq Paths
    PROVE  TreeIs(MovedIn(w, s, t))
<1> DEFINE u == MovedIn(w, s, t)
           old == {q \in DOMAIN w : ~IsPrefix(s, q) /\ q # t}
           below == {q \in DOMAIN w : IsPrefix(s, q)}
           new == {Rebase(q, s, t) : q \in below}
<1>1. /\ DOMAIN u = old \union new
      /\ \A q \in old \union new : u[q] = IF q \in new THEN w[Rebase(q, t, s)] ELSE w[q]
  BY DEF MovedIn
<1>2. \A q \in DOMAIN w : q \in Seq(Nat) /\ q # <<>> /\ w[q] \in Entries /\ DirIn(w, Front(q))
  BY TreePaths DEF TreeIs
<1>3. /\ Front(t) \in Seq(Nat) /\ ~IsPrefix(s, Front(t)) /\ ~IsPrefix(t, Front(t))
      /\ Front(t) # t
  <2>1. Len(t) \in Nat \ {0} /\ Front(t) \in Seq(Nat) /\ Len(Front(t)) = Len(t) - 1
    BY FrontLast
  <2>2. ~IsPrefix(s, Front(t))
    BY <1>2, PrefixLaws
  <2>3. ~(Len(t) <= Len(Front(t)))
    BY <2>1
  <2>4. ~IsPrefix(t, Front(t))
    BY <2>3 DEF IsPrefix
  <2>5. Front(t) # t
    BY <2>1, <2>4, PrefixLaws
  <2>6. QED
    BY <2>1, <2>2, <2>4, <2>5
<1>4. \A q \in below : /\ Rebase(q, s, t) \in Seq(Nat) /\ IsPrefix(t, Rebase(q, s, t))
                       /\ Rebase(Rebase(q, s, t), t, s) = q
  BY <1>2, RebaseIs, RebaseLaws
<1>5. \A x \in new : IsPrefix(t, x)
  BY <1>4
<1> HIDE DEF u, new
<1>6. \A q \in below : /\ Rebase(q, s, t) \in DOMAIN u /\ u[Rebase(q, s, t)] = w[q]
  <2> TAKE q \in below
  <2>1. Rebase(q, s, t) \in new
    BY DEF new
  <2>2. u[Rebase(q, s, t)] = w[Rebase(Rebase(q, s, t), t, s)]
    BY <1>1, <2>1
  <2>3. QED
    BY <1>1, <1>4, <2>1, <2>2
\* A directory that is neither moved nor below t stays.
<1>7. ASSUME NEW f, DirIn(w, f), f # <<>> => ~IsPrefix(s, f) /\ f # t /\ ~IsPrefix(t, f)
      PROVE  DirIn(u, f)
  <2>1. CASE f = <<>>
    BY <2>1 DEF DirIn
  <2>2. CASE f # <<>>
    <3>1. f \in DOMAIN w /\ w[f].kind = "dir" /\ f \in old
      BY <1>7, <2>2 DEF DirIn
    <3>2. f \notin new
      BY <1>5, <1>7, <2>2
    <3>3. f \in DOMAIN u /\ u[f] = w[f]
      BY <1>1, <3>1, <3>2
    <3>4. QED
      BY <3>1, <3>3 DEF DirIn
  <2>3. QED
    BY <2>1, <2>2
<1>8. ASSUME NEW x \in new PROVE u[x] \in Entries /\ DirIn(u, Front(x))
  <2>1. PICK q \in below : x = Rebase(q, s, t)
    BY DEF new
  <2>2. u[x] \in Entries
    BY <1>2, <1>6, <2>1
  <2>3. CASE q = s
    <3>1. IsPrefix(s, s)
      BY <1>2, PrefixLaws
    <3>2. x = t
      BY <1>2, <2>1, <2>3, <3>1, RebaseLaws
    <3>3. DirIn(u, Front(t))
      BY <1>3, <1>7
    <3>4. QED
      BY <2>2, <3>2, <3>3
  <2>4. CASE q # s
    <3>1. /\ IsPrefix(s, Front(q)) /\ Front(q) \in Seq(Nat)
          /\ Front(Rebase(q, s, t)) = Rebase(Front(q), s, t)
      BY <1>2, <2>4, RebaseLaws
    <3>2. Front(q) # <<>>
      <4>1. Len(s) \in Nat \ {0} /\ Len(<<>>) = 0 /\ Len(s) <= Len(Front(q))
        BY <1>2, <3>1, EmptySeq DEF IsPrefix
      <4>2. QED
        BY <4>1
    <3>3. Front(q) \in below /\ w[Front(q)].kind = "dir"
      BY <1>2, <3>1, <3>2 DEF DirIn
    <3>4. DirIn(u, Rebase(Front(q), s, t))
      BY <1>6, <3>3 DEF DirIn
    <3>5. QED
      BY <2>1, <2>2, <3>1, <3>4
  <2>5. QED
    BY <2>3, <2>4
<1>9. ASSUME NEW x \in old, x \notin new PROVE u[x] \in Entries /\ DirIn(u, Front(x))
  <2>1. x \in DOMAIN w /\ ~IsPrefix(s, x) /\ x # t
    OBVIOUS
  <2>2. u[x] \in Entries
    BY <1>1, <1>2, <1>9
  <2>3. Front(x) # t
    BY <2>1 DEF Childless
  <2>4. Front(x) \in Seq(Nat) /\ ~IsPrefix(s, Front(x))
    BY <1>2, <2>1, FrontLast, PrefixLaws
  <2>5. Front(x) # <<>> => ~IsPrefix(t, Front(x))
    <3>1. Front(x) # <<>> => Front(x) \in DOMAIN w
      BY <1>2, <2>1 DEF DirIn
    <3>2. QED
      BY <2>3, <3>1, NoneBelow
  <2>6. DirIn(u, Front(x))
    BY <1>2, <1>7, <2>1, <2>3, <2>4, <2>5
  <2>7. QED
    BY <2>2, <2>6
<1>10. QED
  BY <1>1, <1>8, <1>9 DEF TreeIs, u

LEMMA ChildrenAre ==
    ASSUME FilesOK, TypeOK, NEW p \in Seq(Nat)
    PROVE  \A q \in DOMAIN tree : q \in Children(p) <=> Front(q) = p
<1> SUFFICES ASSUME NEW q \in DOMAIN tree PROVE q \in Children(p) <=> Front(q) = p
  OBVIOUS
<1>1. q \in Seq(Nat) /\ q # <<>>
  BY TreeOK, TreePaths
<1>2. /\ Len(q) \in Nat \ {0} /\ Front(q) = Pre(q, Len(q) - 1) /\ Len(Front(q)) = Len(q) - 1
      /\ Front(q) \in Seq(Nat) /\ Len(p) \in Nat
  BY <1>1, FrontLast, LenProperties
<1>3. q \in Children(p) <=> IsPrefix(p, q) /\ Len(q) = Len(p) + 1
  BY DEF Children, Below
<1>4. ASSUME IsPrefix(p, q), Len(q) = Len(p) + 1 PROVE Front(q) = p
  <2>1. Pre(q, Len(p)) = p /\ Len(q) - 1 = Len(p)
    BY <1>1, <1>2, <1>4, IsPrefixIs
  <2>2. QED
    BY <1>2, <2>1
<1>5. ASSUME Front(q) = p PROVE IsPrefix(p, q) /\ Len(q) = Len(p) + 1
  <2>1. IsPrefix(p, Front(q))
    BY <1>5, PrefixLaws
  <2>2. IsPrefix(p, q)
    BY <1>1, <2>1, PrefixLaws
  <2>3. QED
    BY <1>2, <1>5, <2>2
<1>6. QED
  BY <1>3, <1>4, <1>5

-----------------------------------------------------------------------------
(* What is in a directory                                                  *)

\* What is made of each member of a finite set is a finite set.
LEMMA ImageFinite ==
    ASSUME NEW S, IsFiniteSet(S), NEW f, DOMAIN f = S
    PROVE  IsFiniteSet({f[x] : x \in S})
<1> DEFINE I == {f[x] : x \in S}
           g == [x \in S |-> f[x]]
<1>1. g \in [S -> I] /\ \A y \in I : \E x \in S : g[x] = y
  OBVIOUS
<1> HIDE DEF g, I
<1>2. g \in Surjection(S, I)
  BY <1>1 DEF Surjection
<1>3. IsFiniteSet(I)
  BY <1>2, FS_Surjection
<1>4. QED
  BY <1>3 DEF I

LEMMA SetToSeqIs ==
    ASSUME NEW S, IsFiniteSet(S)
    PROVE  /\ Cardinality(S) \in Nat /\ SetToSeq(S) \in [1..Cardinality(S) -> S]
           /\ SetToSeq(S) \in Seq(S)
<1>1. Cardinality(S) \in Nat /\ ExistsBijection(1..Cardinality(S), S)
  BY FS_CardinalityType
<1>2. \E f \in [1..Cardinality(S) -> S] : IsInjective(f)
  BY <1>1 DEF ExistsBijection, Bijection, Injection
<1>3. SetToSeq(S) \in [1..Cardinality(S) -> S]
  BY <1>2 DEF SetToSeq
<1>4. QED
  BY <1>1, <1>3, SeqDef

\* The entries of a directory have one Front: Last tells them apart.
Beside(S, p) == \A q \in S : q \in Seq(Nat) /\ q # <<>> /\ Front(q) = p
Sooner(d, a, b) == IF a \in d <=> b \in d THEN Last(a) < Last(b) ELSE a \in d
InOrder(s, d) == \A i, j \in DOMAIN s : i < j => Sooner(d, s[i], s[j])

LEMMA FirstOne ==
    ASSUME NEW p, NEW S, Beside(S, p), S # {}, NEW d
    PROVE  \E a \in S : \A b \in S : b # a => Sooner(d, a, b)
<1>1. \A q \in S : q \in Seq(Nat) /\ q # <<>> /\ Last(q) \in Nat
  BY FrontLast DEF Beside
<1>2. \A a, b \in S : Last(a) = Last(b) => a = b
  BY <1>1, AppendFront DEF Beside
<1>3. ASSUME NEW T \in SUBSET S, T # {}
      PROVE  \E a \in T : \A b \in T : b # a => Last(a) < Last(b)
  <2> DEFINE N == {Last(q) : q \in T}
  <2>1. N \in SUBSET Nat /\ N # {}
    BY <1>1, <1>3
  <2>2. Min(N) \in N /\ \A y \in N : Min(N) <= y
    BY <2>1, MinIs
  <2>3. PICK a \in T : Last(a) = Min(N)
    BY <2>2
  <2>4. \A b \in T : b # a => Last(a) < Last(b)
    <3> TAKE b \in T
    <3>1. Last(b) \in N /\ Last(a) <= Last(b) /\ Last(a) \in Nat /\ Last(b) \in Nat
      BY <1>1, <2>2, <2>3
    <3>2. QED
      BY <1>2, <3>1
  <2>5. QED
    BY <2>4
<1>4. CASE S \intersect d # {}
  <2>1. PICK a \in S \intersect d : \A b \in S \intersect d : b # a => Last(a) < Last(b)
    BY <1>3, <1>4
  <2>2. QED
    BY <2>1 DEF Sooner
<1>5. CASE S \intersect d = {}
  <2>1. PICK a \in S : \A b \in S : b # a => Last(a) < Last(b)
    BY <1>3
  <2>2. QED
    BY <1>5, <2>1 DEF Sooner
<1>6. QED
  BY <1>4, <1>5

LEMMA CanSort ==
    ASSUME NEW p, NEW A, IsFiniteSet(A), Beside(A, p), NEW d
    PROVE  \E s \in [1..Cardinality(A) -> A] : InOrder(s, d)
<1> DEFINE Sorts(S, n) == \E s \in [1..n -> S] : InOrder(s, d)
           N == {n \in Nat : \A S \in SUBSET A :
                   IsFiniteSet(S) /\ Cardinality(S) = n => Sorts(S, n)}
<1>1. \A n \in Nat : (\A m \in 0..n - 1 : m \in N) => n \in N
  <2> SUFFICES ASSUME NEW n \in Nat, \A m \in 0..n - 1 : m \in N,
                      NEW S \in SUBSET A, IsFiniteSet(S), Cardinality(S) = n
               PROVE  Sorts(S, n)
    OBVIOUS
  <2>1. CASE n = 0
    <3>1. [i \in 1..0 |-> p] \in [1..0 -> S]
      OBVIOUS
    <3>2. InOrder([i \in 1..0 |-> p], d)
      BY DEF InOrder
    <3>3. QED
      BY <2>1, <3>1, <3>2
  <2>2. CASE n # 0
    <3>1. S # {} /\ Beside(S, p)
      BY <2>2, FS_EmptySet DEF Beside
    <3>2. PICK a \in S : \A b \in S : b # a => Sooner(d, a, b)
      BY <3>1, FirstOne
    <3>3. n - 1 \in Nat /\ n - 1 \in 0..n - 1
      BY <2>2
    <3>4. IsFiniteSet(S \ {a}) /\ Cardinality(S \ {a}) = n - 1 /\ S \ {a} \in SUBSET A
      BY FS_RemoveElement
    <3>5. Sorts(S \ {a}, n - 1)
      BY <3>3, <3>4
    <3>6. PICK s \in [1..n - 1 -> S \ {a}] : InOrder(s, d)
      BY <3>5
    <3> DEFINE z == [i \in 1..n |-> IF i = 1 THEN a ELSE s[i - 1]]
    <3>7. \A i \in 1..n : i # 1 => i - 1 \in 1..n - 1
      OBVIOUS
    <3>8. z \in [1..n -> S]
      BY <3>7
    <3>9. InOrder(z, d)
      <4> SUFFICES ASSUME NEW i \in 1..n, NEW j \in 1..n, i < j
                   PROVE  Sooner(d, z[i], z[j])
        BY DEF InOrder
      <4>1. j # 1 /\ j - 1 \in 1..n - 1 /\ z[j] = s[j - 1] /\ s[j - 1] \in S \ {a}
        BY <3>7
      <4>2. CASE i = 1
        BY <3>2, <4>1, <4>2
      <4>3. CASE i # 1
        <5>1. i - 1 \in 1..n - 1 /\ i - 1 < j - 1 /\ z[i] = s[i - 1]
          BY <3>7, <4>3
        <5>2. QED
          BY <3>6, <4>1, <5>1 DEF InOrder
      <4>4. QED
        BY <4>2, <4>3
    <3>10. QED
      BY <3>8, <3>9
  <2>3. QED
    BY <2>1, <2>2
<1>2. N \in SUBSET Nat
  OBVIOUS
<1>4. Cardinality(A) \in Nat
  BY FS_CardinalityType
<1> HIDE DEF N
<1>3. \A n \in Nat : n \in N
  BY <1>1, <1>2, AllNumbers
<1>5. QED
  BY <1>3, <1>4 DEF N

LEMMA SortedIs ==
    ASSUME NEW p, NEW A, IsFiniteSet(A), Beside(A, p), NEW d
    PROVE  /\ Sorted(A, d) \in Seq(A) /\ Len(Sorted(A, d)) = Cardinality(A)
           /\ ToSet(Sorted(A, d)) = A
<1> DEFINE n == Cardinality(A)
           s == Sorted(A, d)
<1>1. n \in Nat
  BY FS_CardinalityType
<1>2. s \in [1..n -> A] /\ InOrder(s, d)
  <2>1. \E f \in [1..n -> A] : InOrder(f, d)
    BY CanSort
  <2>2. Sorted(A, d) = CHOOSE f \in [1..Cardinality(A) -> A] : InOrder(f, d)
    BY DEF Sorted, InOrder, Sooner
  <2>3. QED
    BY <2>1, <2>2
<1>3. s \in Seq(A) /\ Len(s) = n
  BY <1>1, <1>2, SeqDef, LenProperties
<1> HIDE DEF s
<1>4. \A i, j \in 1..n : i < j => s[i] # s[j]
  <2> SUFFICES ASSUME NEW i \in 1..n, NEW j \in 1..n, i < j, s[i] = s[j] PROVE FALSE
    OBVIOUS
  <2>1. Sooner(d, s[i], s[j]) /\ s[i] \in A
    BY <1>2 DEF InOrder
  <2>2. Last(s[i]) \in Nat
    BY <2>1, FrontLast DEF Beside
  <2>3. QED
    BY <2>1, <2>2 DEF Sooner
<1>5. s \in Injection(1..n, A)
  BY <1>1, <1>2, <1>4 DEF Injection, IsInjective
<1>6. Cardinality(1..n) = Cardinality(A)
  BY <1>1, FS_Interval
<1>7. s \in Surjection(1..n, A)
  BY <1>5, <1>6, FS_Injection
<1>8. ToSet(s) = A
  BY <1>2, <1>7 DEF ToSet, Surjection
<1>9. QED
  BY <1>3, <1>8 DEF s

LEMMA ChildrenFinite ==
    ASSUME FilesOK, TypeOK, NEW p \in Seq(Nat)
    PROVE  /\ IsFiniteSet(Children(p)) /\ Beside(Children(p), p)
           /\ Children(p) \subseteq DOMAIN tree /\ Children(p) \subseteq Paths
<1>1. Children(p) \subseteq DOMAIN tree /\ DOMAIN tree \subseteq Paths
  BY DEF Children, Below, TypeOK
<1>2. IsFiniteSet(Children(p))
  BY <1>1, FS_Subset DEF FilesOK
<1>3. Beside(Children(p), p)
  BY <1>1, ChildrenAre, TreeOK, TreePaths DEF Beside
<1>4. QED
  BY <1>1, <1>2, <1>3

LEMMA ListingIs ==
    ASSUME FilesOK, TypeOK, NEW p \in Seq(Nat)
    PROVE  /\ Listing(p) \in Seq(Paths) /\ Len(Listing(p)) = Cardinality(Children(p))
           /\ ToSet(Listing(p)) = Children(p)
<1>1. /\ IsFiniteSet(Children(p)) /\ Beside(Children(p), p) /\ Children(p) \subseteq Paths
  BY ChildrenFinite
<1>2. /\ Listing(p) \in Seq(Children(p)) /\ Len(Listing(p)) = Cardinality(Children(p))
      /\ ToSet(Listing(p)) = Children(p)
  BY <1>1, SortedIs DEF Listing
<1>3. QED
  BY <1>1, <1>2, SeqDef

-----------------------------------------------------------------------------
(* The state keeps its type                                                *)

LEMMA CallIs ==
    ASSUME FilesOK, NEW c \in Calls \union {Idle}
    PROVE  /\ c.path \in Paths \union {<<>>} /\ c.path \in Seq(Nat)
           /\ c.op \in {"read", "download", "delete", "rename", "mkdir", "create",
                        "replace", "modify"} => c.path \in Paths
           /\ c.op = "rename" => c.arg \in Paths
           /\ c.op = "list" => c.arg \in 0..2
           /\ c.op \in {"create", "replace", "modify"} => c.arg = MaxSize
<1>0. MaxSize \in Nat /\ Paths \subseteq Seq(Nat)
  BY DEF FilesOK
<1>1. CASE c \in [op : {"list"}, path : {<<>>} \union {p \in Paths : Len(p) = 1}, arg : Limits]
  <2> DEFINE P == {<<>>} \union {p \in Paths : Len(p) = 1}
  <2>1. P \subseteq Paths \union {<<>>} /\ <<>> \in Seq(Nat)
    OBVIOUS
  <2> HIDE DEF P
  <2>2. c.path \in P /\ c.op = "list" /\ c.arg \in 0..2
    BY <1>1 DEF Limits, P
  <2>3. QED
    BY <1>0, <2>1, <2>2
<1>2. CASE c \in [op : {"delete"}, path : Paths, arg : BOOLEAN]
  BY <1>0, <1>2
<1>3. CASE c \in [op : {"rename"}, path : Paths, arg : Paths]
  BY <1>0, <1>3
<1>4. CASE c \in [op : {"read", "download", "mkdir"}, path : Paths, arg : {0}]
  BY <1>0, <1>4
<1>5. CASE c \in [op : {"create", "replace", "modify"}, path : Paths, arg : {MaxSize}]
  BY <1>0, <1>5
<1>6. CASE c = Idle
  BY <1>0, <1>6 DEF Idle
<1>7. QED
  BY <1>1, <1>2, <1>3, <1>4, <1>5, <1>6 DEF Calls

LEMMA PlacesAre ==
    ASSUME FilesOK, NEW p \in Seq(Nat)
    PROVE  /\ Locate[p] \in Seq(Nat) /\ Open(p) \in Seq(Nat)
           /\ p # <<>> => Locate[p] # <<>>
BY LocateIs, LeadsIs DEF FilesOK

\* The type of what belongs to the requests.
RequestsOK ==
    /\ call \in [Requests -> Calls \union {Idle}]
    /\ stage \in [Requests -> {"new", "working", "opened", "ok", "failed",
                            "cancelled"}]
    /\ cursor \in [Requests -> Nat]
    /\ got \in [Requests -> Seq(Paths)] /\ removed \in [Requests -> SUBSET Paths]
    /\ todo \in [Requests -> Seq([what : {"tree", "dir", "any"}, path : Seq(Nat)])]
    /\ changed \in [Requests -> BOOLEAN]

LEMMA TypeIs ==
    (TypeOK <=> TreeIs(tree) /\ RequestsOK) /\ (TypeOK' <=> TreeIs(tree') /\ RequestsOK')
BY DEF TypeOK, TreeIs, RequestsOK, DirIn, IsDir, Is

LEMMA FewerOf ==
    ASSUME NEW a \in Nat, NEW b \in Nat
    PROVE  Max({a, b}) \in {a, b} /\ Min({a, b}) \in {a, b}
<1>1. CASE a <= b
  <2>1. b \in {a, b} /\ \A y \in {a, b} : b >= y
    BY <1>1
  <2>2. a \in {a, b} /\ \A y \in {a, b} : a <= y
    BY <1>1
  <2>3. QED
    BY <2>1, <2>2 DEF Max, Min
<1>2. CASE ~(a <= b)
  <2>1. a \in {a, b} /\ \A y \in {a, b} : a >= y
    BY <1>2
  <2>2. b \in {a, b} /\ \A y \in {a, b} : b <= y
    BY <1>2
  <2>3. QED
    BY <2>1, <2>2 DEF Max, Min
<1>3. QED
  BY <1>1, <1>2

LEMMA FileIs ==
    ASSUME MaxSize \in Nat, NEW n \in 0..MaxSize
    PROVE  File(n) \in Entries /\ [kind |-> "dir", size |-> 0] \in Entries
BY DEF File, Entries

LEMMA EntryIs ==
    ASSUME MaxSize \in Nat, NEW e \in Entries
    PROVE  e.size \in 0..MaxSize /\ e.kind \in {"dir", "link", "file"}
BY DEF Entries

\* What every step that makes something of the server makes is a tree.
LEMMA TreeKept ==
    ASSUME FilesOK, TypeOK, NEW r \in Requests, Handle(r)
    PROVE  TreeIs(tree')
<1>0. /\ TreeIs(tree) /\ MaxSize \in Nat /\ call[r] \in Calls \union {Idle}
      /\ Asked(r) = call[r].path
  BY TypeIs DEF FilesOK, RequestsOK, Asked
<1>a. Asked(r) \in Seq(Nat) /\ (call[r].op = "rename" => call[r].arg \in Seq(Nat) /\ call[r].arg # <<>>)
  BY <1>0, CallIs DEF FilesOK
<1>b. Locate[Asked(r)] \in Seq(Nat) /\ Open(Asked(r)) \in Seq(Nat)
  BY <1>a, PlacesAre
<1> HIDE DEF Asked
<1>1. CASE tree' = tree
  BY <1>0, <1>1
<1>2. ASSUME NEW p, CanCreate(p) PROVE p \in Paths /\ DirIn(tree, Front(p)) /\ p \notin DOMAIN tree
  BY <1>2 DEF CanCreate, IsDir, Is, DirIn
<1>3. ASSUME NEW p, Is("file", p)
      PROVE  /\ p \in Paths /\ DirIn(tree, Front(p)) /\ ~(tree[p].kind = "dir")
             /\ tree[p].size \in 0..MaxSize
  BY <1>0, <1>3, EntryIs DEF Is, TreeIs
<1>4. CASE OpenToWrite(r)
  <2>1. CASE tree' = tree
    BY <1>1, <2>1
  <2>2. CASE tree' # tree
    <3> DEFINE p == Open(Asked(r))
    <3>1. tree' = Extend(tree, p, File(0)) /\ (CanCreate(p) \/ Is("file", p))
      BY <1>4, <2>2 DEF OpenToWrite, Changes, Untouched
    <3>2. p \in Paths /\ DirIn(tree, Front(p)) /\ ~(p \in DOMAIN tree /\ tree[p].kind = "dir")
      BY <1>2, <1>3, <3>1
    <3>3. File(0) \in Entries
      BY <1>0, FileIs
    <3> HIDE DEF p
    <3>4. QED
      BY <1>0, <3>1, <3>2, <3>3, ExtendIs
  <2>3. QED
    BY <2>1, <2>2
<1>5. CASE Write(r)
  <2>1. CASE tree' = tree
    BY <1>1, <2>1
  <2>2. CASE tree' # tree
    <3> DEFINE p == Open(Asked(r))
    <3>0. PICK k \in 0..call[r].arg :
            /\ tree' = Extend(tree, p, File(Max({tree[p].size, k}))) /\ Is("file", p)
            /\ call[r].op \in {"create", "replace", "modify"}
      BY <1>5, <2>2 DEF Write, Changes, Untouched
    <3> DEFINE n == Max({tree[p].size, k})
    <3>1. /\ tree' = Extend(tree, p, File(n)) /\ Is("file", p)
          /\ call[r].op \in {"create", "replace", "modify"}
      BY <3>0
    <3>2. /\ p \in Paths /\ DirIn(tree, Front(p)) /\ ~(p \in DOMAIN tree /\ tree[p].kind = "dir")
          /\ tree[p].size \in 0..MaxSize
      BY <1>3, <3>1
    <3>3. k \in 0..MaxSize
      BY <1>0, <3>1, CallIs
    <3>4. n \in 0..MaxSize
      BY <1>0, <3>2, <3>3, FewerOf
    <3> HIDE DEF p, n
    <3>5. File(n) \in Entries
      BY <1>0, <3>4, FileIs
    <3>6. QED
      BY <1>0, <3>1, <3>2, <3>5, ExtendIs
  <2>3. QED
    BY <2>1, <2>2
<1>6. CASE Mkdir(r)
  <2> DEFINE p == Locate[Asked(r)]
             e == [kind |-> "dir", size |-> 0]
  <2>1. tree' = Extend(tree, p, e) /\ CanCreate(p)
    BY <1>6 DEF Mkdir, Changes
  <2>2. p \in Paths /\ DirIn(tree, Front(p)) /\ ~(p \in DOMAIN tree /\ tree[p].kind = "dir")
    BY <1>2, <2>1
  <2>3. e \in Entries
    BY <1>0, FileIs
  <2> HIDE DEF p, e
  <2>4. QED
    BY <1>0, <2>1, <2>2, <2>3, ExtendIs
<1>7. CASE Rename(r)
  <2> DEFINE s == Locate[Asked(r)]
             t == Locate[call[r].arg]
  <2>1. /\ call[r].op = "rename" /\ s \in DOMAIN tree /\ IsDir(Front(t)) /\ ~IsPrefix(s, t)
        /\ t \in DOMAIN tree => Children(t) = {}
        /\ DOMAIN Moved(s, t) \subseteq Paths /\ tree' = Moved(s, t)
    BY <1>7 DEF Rename, Asks, Changes
  <2>2. t \in Seq(Nat) /\ t # <<>>
    BY <1>a, <2>1, PlacesAre
  <2> HIDE DEF s, t
  <2>3. Moved(s, t) = MovedIn(tree, s, t)
    BY DEF Moved, MovedIn, Rebase, Below
  <2>4. Childless(tree, t)
    <3>1. CASE t \in DOMAIN tree
      BY <2>1, <2>2, <3>1, ChildrenAre DEF Childless
    <3>2. CASE t \notin DOMAIN tree
      BY <1>0, <2>2, <3>2, OnlyDirs
    <3>3. QED
      BY <3>1, <3>2
  <2>5. DirIn(tree, Front(t))
    BY <2>1 DEF DirIn, IsDir, Is
  <2>6. QED
    BY <1>0, <2>1, <2>2, <2>3, <2>4, <2>5, MovedIs
<1>8. CASE RemoveOne(r)
  <2> DEFINE x == Locate[Head(todo[r]).path]
  <2>1. x \in DOMAIN tree /\ Children(x) = {} /\ tree' = Without(tree, x)
    BY <1>8 DEF RemoveOne, Changes, Without
  <2> HIDE DEF x
  <2>2. x \in Seq(Nat)
    BY <1>0, <2>1, TreePaths
  <2>3. Childless(tree, x)
    BY <2>1, <2>2, ChildrenAre DEF Childless
  <2>4. QED
    BY <1>0, <2>1, <2>3, WithoutIs
<1>9. QED
  BY <1>1, <1>4, <1>5, <1>6, <1>7, <1>8
  DEF Handle, Refuse, ListPage, OpenToRead, Read, Download, Delete, ReadTree, DeleteFails,
      Deleted

LEMMA TailOf ==
    ASSUME NEW A, NEW s \in Seq(A), s # <<>>
    PROVE  /\ Head(s) \in A /\ Tail(s) \in Seq(A) /\ Len(Tail(s)) = Len(s) - 1
           /\ \A n \in 1..Len(s) - 1 : Tail(s)[n] = s[n + 1]
BY HeadTailProperties

\* The pages that are left of a listing s after its first c entries.
PagesAre(A, s, c, rest) ==
    \A k \in 0..Len(s) - c :
      /\ rest \in Seq(A) /\ Len(rest) = Len(s) - c
      /\ SubSeq(s, 1, c) \o SubSeq(rest, 1, k) = SubSeq(s, 1, c + k)
      /\ Len(SubSeq(rest, 1, k)) = k /\ SubSeq(s, 1, c) \o rest = s

LEMMA PagesOf ==
    ASSUME NEW A, NEW s \in Seq(A), NEW c \in Nat, c <= Len(s),
           NEW rest, rest = SubSeq(s, c + 1, Len(s))
    PROVE  PagesAre(A, s, c, rest)
<1> SUFFICES ASSUME NEW k \in 0..Len(s) - c
             PROVE  /\ rest \in Seq(A) /\ Len(rest) = Len(s) - c
                    /\ SubSeq(s, 1, c) \o SubSeq(rest, 1, k) = SubSeq(s, 1, c + k)
                    /\ Len(SubSeq(rest, 1, k)) = k /\ SubSeq(s, 1, c) \o rest = s
  BY DEF PagesAre
<1> DEFINE page == SubSeq(rest, 1, k)
           got2 == SubSeq(s, 1, c)
<1>0. Len(s) \in Nat /\ k \in Nat /\ \A i \in 1..Len(s) : s[i] \in A
  BY LenProperties, ElementOfSeq
<1>1. /\ rest \in Seq(A) /\ Len(rest) = Len(s) - c
      /\ \A i \in 1..Len(s) - c : rest[i] = s[c + i]
  <2>1. c + 1 \in Int /\ Len(s) \in Int /\ \A i \in c + 1..Len(s) : s[i] \in A
    BY <1>0
  <2>2. /\ rest \in Seq(A)
        /\ Len(rest) = IF c + 1 <= Len(s) THEN Len(s) - (c + 1) + 1 ELSE 0
        /\ \A i \in 1..Len(s) - (c + 1) + 1 : rest[i] = s[(c + 1) + i - 1]
    BY <2>1, SubSeqProperties
  <2>3. Len(rest) = Len(s) - c
    BY <1>0, <2>2
  <2>4. \A i \in 1..Len(s) - c : i \in 1..Len(s) - (c + 1) + 1 /\ (c + 1) + i - 1 = c + i
    BY <1>0
  <2>5. QED
    BY <2>2, <2>3, <2>4
<1>2. page \in Seq(A) /\ Len(page) = k /\ \A i \in 1..k : page[i] = s[c + i]
  <2>1. \A i \in 1..k : i \in 1..Len(s) - c /\ rest[i] \in A /\ i = 1 + i - 1
    BY <1>0, <1>1, ElementOfSeq
  <2>2. /\ page \in Seq(A) /\ Len(page) = (IF 1 <= k THEN k - 1 + 1 ELSE 0)
        /\ \A i \in 1..k - 1 + 1 : page[i] = rest[1 + i - 1]
    BY <1>0, <2>1, SubSeqProperties
  <2>3. Len(page) = k /\ k - 1 + 1 = k
    BY <1>0, <2>2
  <2>4. QED
    BY <1>1, <2>1, <2>2, <2>3
<1>3. got2 \in Seq(A) /\ Len(got2) = c /\ \A i \in 1..c : got2[i] = s[i]
  <2>1. \A i \in 1..c : i \in 1..Len(s) /\ s[i] \in A /\ i = 1 + i - 1
    BY <1>0
  <2>2. /\ got2 \in Seq(A) /\ Len(got2) = (IF 1 <= c THEN c - 1 + 1 ELSE 0)
        /\ \A i \in 1..c - 1 + 1 : got2[i] = s[1 + i - 1]
    BY <1>0, <2>1, SubSeqProperties
  <2>3. Len(got2) = c /\ c - 1 + 1 = c
    BY <2>2
  <2>4. QED
    BY <2>1, <2>2, <2>3
<1> HIDE DEF page, got2
\* What follows the first c of s in s follows them when it is put there.
<1>4. ASSUME NEW z \in Seq(A), NEW e \in Nat, Len(z) = e, c + e <= Len(s),
             \A i \in 1..e : z[i] = s[c + i]
      PROVE  got2 \o z = SubSeq(s, 1, c + e)
  <2> DEFINE x == got2 \o z
             y == SubSeq(s, 1, c + e)
  <2>1. /\ x \in Seq(A) /\ Len(x) = c + e
        /\ \A i \in 1..c + e : x[i] = IF i <= c THEN got2[i] ELSE z[i - c]
    BY <1>3, <1>4, ConcatProperties
  <2>2. \A i \in 1..c + e : x[i] = s[i]
    <3> TAKE i \in 1..c + e
    <3>1. CASE i <= c
      <4>1. i \in 1..c
        BY <3>1
      <4>2. QED
        BY <1>3, <2>1, <3>1, <4>1
    <3>2. CASE ~(i <= c)
      <4>1. i - c \in 1..e /\ c + (i - c) = i
        BY <3>2
      <4>2. z[i - c] = s[c + (i - c)]
        BY <1>4, <4>1
      <4>3. QED
        BY <2>1, <3>2, <4>1, <4>2
    <3>3. QED
      BY <3>1, <3>2
  <2>3. y \in Seq(A) /\ Len(y) = c + e /\ \A i \in 1..c + e : y[i] = s[i]
    <3>1. \A i \in 1..c + e : i \in 1..Len(s) /\ s[i] \in A /\ i = 1 + i - 1
      BY <1>0, <1>4
    <3>2. c + e \in Nat
      OBVIOUS
    <3>3. /\ y \in Seq(A) /\ Len(y) = (IF 1 <= c + e THEN (c + e) - 1 + 1 ELSE 0)
          /\ \A i \in 1..(c + e) - 1 + 1 : y[i] = s[1 + i - 1]
      BY <3>1, <3>2, SubSeqProperties
    <3>4. Len(y) = c + e /\ (c + e) - 1 + 1 = c + e
      BY <3>2, <3>3
    <3>5. QED
      BY <3>1, <3>3, <3>4
  <2> HIDE DEF x, y
  <2>4. Len(x) = Len(y) /\ \A i \in 1..Len(x) : x[i] = y[i]
    BY <2>1, <2>2, <2>3
  <2>5. x = y
    BY <2>1, <2>3, <2>4, SeqEqual
  <2>6. QED
    BY <2>5 DEF x, y
<1>5. got2 \o page = SubSeq(s, 1, c + k)
  <2>1. c + k <= Len(s)
    BY <1>0
  <2>2. QED
    BY <1>0, <1>2, <1>4, <2>1
<1>6. got2 \o rest = s
  <2> DEFINE e == Len(s) - c
  <2>1. /\ e \in Nat /\ c + e = Len(s) /\ c + e <= Len(s) /\ Len(rest) = e /\ rest \in Seq(A)
        /\ \A i \in 1..e : rest[i] = s[c + i]
    BY <1>0, <1>1
  <2> HIDE DEF e
  <2>2. got2 \o rest = SubSeq(s, 1, c + e)
    BY <1>4, <2>1
  <2>3. SubSeq(s, 1, Len(s)) = s
    BY SubSeqFull
  <2>4. QED
    BY <2>1, <2>2, <2>3
<1>7. QED
  BY <1>1, <1>2, <1>5, <1>6 DEF page, got2

\* The calls that a directory at o, which p leads to, is replaced by.
LEMMA TodoOf ==
    ASSUME FilesOK, TypeOK, NEW p \in Seq(Nat), NEW o \in Seq(Nat)
    PROVE  LET names == {Last(q) : q \in Children(o)}
               them == {Todo(IF IsDir(Append(o, name)) THEN "tree" ELSE "any",
                             Append(p, name)) : name \in names}
           IN  /\ SetToSeq(them) \in Seq(them) /\ \A name \in names : name \in Nat
               /\ them \subseteq [what : {"tree", "any"}, path : Seq(Nat)]
<1> DEFINE names == {Last(q) : q \in Children(o)}
           what(name) == IF IsDir(Append(o, name)) THEN "tree" ELSE "any"
           them == {Todo(what(name), Append(p, name)) : name \in names}
           f == [q \in Children(o) |-> Last(q)]
           g == [name \in names |-> Todo(what(name), Append(p, name))]
<1>1. IsFiniteSet(Children(o)) /\ Beside(Children(o), o)
  BY ChildrenFinite
<1>2. \A name \in names : name \in Nat
  BY <1>1, FrontLast DEF Beside
<1>3. IsFiniteSet(names)
  <2>1. DOMAIN f = Children(o) /\ names = {f[q] : q \in Children(o)}
    OBVIOUS
  <2> HIDE DEF f, names
  <2>2. QED
    BY <1>1, <2>1, ImageFinite
<1>4. \A name \in names : Append(p, name) \in Seq(Nat) /\ what(name) \in {"tree", "any"}
  BY <1>2, AppendIs
<1> HIDE DEF names, what
<1>5. IsFiniteSet(them)
  <2>1. DOMAIN g = names /\ them = {g[name] : name \in names}
    OBVIOUS
  <2> HIDE DEF g, them
  <2>2. QED
    BY <1>3, <2>1, ImageFinite
<1>6. them \subseteq [what : {"tree", "any"}, path : Seq(Nat)]
  <2>1. \A w \in {"tree", "any"} : \A q \in Seq(Nat) :
          Todo(w, q) \in [what : {"tree", "any"}, path : Seq(Nat)]
    BY DEF Todo
  <2>2. QED
    BY <1>4, <2>1
<1> HIDE DEF them
<1>7. SetToSeq(them) \in Seq(them)
  BY <1>5, SetToSeqIs
<1>8. QED
  BY <1>2, <1>6, <1>7 DEF them, names, what

LEMMA RequestsKept ==
    ASSUME FilesOK, TypeOK, NEW r \in Requests, Handle(r)
    PROVE  RequestsOK'
<1>0. /\ RequestsOK /\ MaxSize \in Nat /\ Paths \subseteq Seq(Nat) \ {<<>>}
      /\ call[r] \in Calls \union {Idle} /\ Asked(r) = call[r].path
  BY TypeIs DEF FilesOK, RequestsOK, Asked
<1>a. Asked(r) \in Seq(Nat)
  BY <1>0, CallIs
<1>b. Locate[Asked(r)] \in Seq(Nat) /\ Open(Asked(r)) \in Seq(Nat)
  BY <1>a, PlacesAre
<1> DEFINE Stages == {"new", "working", "opened", "ok", "failed", "cancelled"}
           Item == [what : {"tree", "dir", "any"}, path : Seq(Nat)]
           Work == Seq(Item)
<1>c. \A from, to : Move(r, from, to) /\ to \in Stages => stage' \in [Requests -> Stages]
  BY <1>0 DEF RequestsOK, Move
<1>d. \A new : Changes(r, new) => changed' \in [Requests -> BOOLEAN]
  BY <1>0 DEF Changes, RequestsOK
<1>e. Untouched => changed' \in [Requests -> BOOLEAN]
  BY <1>0 DEF Untouched, RequestsOK
<1> HIDE DEF Asked, Move, Changes, Untouched
<1>1. CASE \/ Refuse(r) \/ OpenToRead(r) \/ Read(r) \/ Download(r)
           \/ DeleteFails(r) \/ Deleted(r)
  <2>1. UNCHANGED <<callVars, got, todo, removed, changed>> /\ stage' \in [Requests -> Stages]
    BY <1>1, <1>c DEF Refuse, OpenToRead, Read, Download, DeleteFails, Deleted
  <2>2. QED
    BY <1>0, <2>1 DEF RequestsOK, callVars
<1>2. CASE ListPage(r)
  <2> DEFINE all == Listing(Open(Asked(r)))
             rest == SubSeq(all, cursor[r] + 1, Len(all))
             page == SubSeq(rest, 1, call[r].arg)
  <2>1. all \in Seq(Paths) /\ call[r].arg \in 0..2 /\ cursor[r] \in Nat /\ got[r] \in Seq(Paths)
    BY <1>0, <1>2, <1>b, ListingIs, CallIs DEF ListPage, Asks, RequestsOK
  <2> HIDE DEF all
  <2>2. rest \in Seq(Paths)
    <3>1. \A i \in cursor[r] + 1..Len(all) : i \in 1..Len(all) /\ all[i] \in Paths
      BY <2>1, LenProperties, ElementOfSeq
    <3>2. cursor[r] + 1 \in Int /\ Len(all) \in Int
      BY <2>1, LenProperties
    <3>3. QED
      BY <2>1, <3>1, <3>2, SubSeqProperties
  <2> HIDE DEF rest
  <2>3. Len(rest) > call[r].arg => page \in Seq(Paths) /\ Len(page) \in Nat
    <3> SUFFICES ASSUME Len(rest) > call[r].arg PROVE page \in Seq(Paths) /\ Len(page) \in Nat
      OBVIOUS
    <3>1. \A i \in 1..call[r].arg : i \in 1..Len(rest) /\ rest[i] \in Paths
      BY <2>1, <2>2, LenProperties, ElementOfSeq
    <3>2. page \in Seq(Paths)
      BY <2>1, <2>2, <3>1, SubSeqProperties
    <3>3. QED
      BY <3>2, LenProperties
  <2> HIDE DEF page
  <2>4. /\ UNCHANGED <<call, todo, removed, changed>>
        /\ \/ /\ Len(rest) > call[r].arg
              /\ got' = [got EXCEPT ![r] = got[r] \o page]
              /\ cursor' = [cursor EXCEPT ![r] = cursor[r] + Len(page)]
              /\ stage' = stage
           \/ /\ got' = [got EXCEPT ![r] = got[r] \o rest]
              /\ Move(r, "working", "ok") /\ cursor' = cursor
    BY <1>2 DEF ListPage, all, rest, page
  <2>5. CASE /\ Len(rest) > call[r].arg
             /\ got' = [got EXCEPT ![r] = got[r] \o page]
             /\ cursor' = [cursor EXCEPT ![r] = cursor[r] + Len(page)]
             /\ stage' = stage
    <3>1. got[r] \o page \in Seq(Paths) /\ cursor[r] + Len(page) \in Nat
      BY <2>1, <2>3, <2>5, ConcatProperties
    <3>2. got' \in [Requests -> Seq(Paths)] /\ cursor' \in [Requests -> Nat]
      BY <1>0, <2>5, <3>1 DEF RequestsOK
    <3>3. QED
      BY <1>0, <2>4, <2>5, <3>2 DEF RequestsOK
  <2>6. CASE /\ got' = [got EXCEPT ![r] = got[r] \o rest]
             /\ Move(r, "working", "ok") /\ cursor' = cursor
    <3>1. got[r] \o rest \in Seq(Paths)
      BY <2>1, <2>2, ConcatProperties
    <3>2. got' \in [Requests -> Seq(Paths)] /\ stage' \in [Requests -> Stages]
      BY <1>0, <1>c, <2>6, <3>1 DEF RequestsOK
    <3>3. QED
      BY <1>0, <2>4, <2>6, <3>2 DEF RequestsOK
  <2>7. QED
    BY <2>4, <2>5, <2>6
<1>3. CASE OpenToWrite(r) \/ Write(r)
  <2>1. /\ UNCHANGED <<callVars, got, todo, removed>> /\ stage' \in [Requests -> Stages]
        /\ changed' \in [Requests -> BOOLEAN]
    BY <1>3, <1>c, <1>d, <1>e DEF OpenToWrite, Write
  <2>2. QED
    BY <1>0, <2>1 DEF RequestsOK, callVars
<1>4. CASE Mkdir(r) \/ Rename(r)
  <2>1. /\ UNCHANGED <<callVars, got, todo, removed>> /\ stage' \in [Requests -> Stages]
        /\ changed' \in [Requests -> BOOLEAN]
    BY <1>4, <1>c, <1>d DEF Mkdir, Rename
  <2>2. QED
    BY <1>0, <2>1 DEF RequestsOK, callVars
<1>5. CASE Delete(r)
  <2>1. /\ UNCHANGED <<callVars, got, removed, changed>> /\ stage' \in [Requests -> Stages]
        /\ \E what \in {"tree", "dir", "any"} :
             todo' = [todo EXCEPT ![r] = <<Todo(what, Asked(r))>>]
    BY <1>5, <1>c DEF Delete
  <2>2. \A what \in {"tree", "dir", "any"} : <<Todo(what, Asked(r))>> \in Work
    BY <1>a DEF Todo
  <2>3. todo' \in [Requests -> Work]
    BY <1>0, <2>1, <2>2 DEF RequestsOK
  <2>4. QED
    BY <1>0, <2>1, <2>3 DEF RequestsOK, callVars
<1>6. CASE ReadTree(r)
  <2> DEFINE p == Head(todo[r]).path
             names == {Last(q) : q \in Children(Open(p))}
             what == [name \in names |-> IF IsDir(Append(Open(p), name)) THEN "tree" ELSE "any"]
             them == {Todo(IF IsDir(Append(Open(p), name)) THEN "tree" ELSE "any",
                           Append(p, name)) : name \in names}
  <2>1. /\ UNCHANGED <<callVars, stage, got, removed, changed>> /\ todo[r] # <<>>
        /\ todo' = [todo EXCEPT ![r] = SetToSeq(them) \o <<Todo("dir", p)>> \o Tail(todo[r])]
    BY <1>6 DEF ReadTree
  <2>2. todo[r] \in Work
    BY <1>0 DEF RequestsOK
  <2>3. p \in Seq(Nat) /\ Tail(todo[r]) \in Work
    <3> HIDE DEF Item
    <3>1. Head(todo[r]) \in Item /\ Tail(todo[r]) \in Seq(Item)
      BY <2>1, <2>2, TailOf
    <3>2. QED
      BY <3>1 DEF Item
  <2>4. Open(p) \in Seq(Nat)
    BY <2>3, PlacesAre
  <2> HIDE DEF p
  <2>5. SetToSeq(them) \in Seq(them) /\ them \subseteq [what : {"tree", "any"}, path : Seq(Nat)]
    BY <2>3, <2>4, TodoOf
  <2> HIDE DEF them
  <2>6. SetToSeq(them) \in Work /\ <<Todo("dir", p)>> \in Work
    BY <2>3, <2>5 DEF Todo
  <2>7. SetToSeq(them) \o <<Todo("dir", p)>> \o Tail(todo[r]) \in Work
    BY <2>3, <2>6, ConcatProperties
  <2>8. todo' \in [Requests -> Work]
    BY <1>0, <2>1, <2>7 DEF RequestsOK
  <2>9. QED
    BY <1>0, <2>1, <2>8 DEF RequestsOK, callVars
<1>7. CASE RemoveOne(r)
  <2> DEFINE p == Locate[Head(todo[r]).path]
  <2>1. /\ UNCHANGED <<callVars, stage, got>> /\ changed' \in [Requests -> BOOLEAN]
        /\ removed' = [removed EXCEPT ![r] = removed[r] \union {p}] /\ p \in DOMAIN tree
        /\ todo[r] # <<>> /\ todo' = [todo EXCEPT ![r] = Tail(todo[r])]
    BY <1>7, <1>d DEF RemoveOne
  <2>2. todo[r] \in Work /\ removed[r] \in SUBSET Paths
    BY <1>0 DEF RequestsOK
  <2>3. Tail(todo[r]) \in Work
    <3> HIDE DEF Item
    <3>1. QED
      BY <2>1, <2>2, TailOf
  <2>4. p \in Paths
    BY <2>1, TypeIs DEF TreeIs
  <2> HIDE DEF p
  <2>5. removed' \in [Requests -> SUBSET Paths] /\ todo' \in [Requests -> Work]
    BY <1>0, <2>1, <2>2, <2>3, <2>4 DEF RequestsOK
  <2>6. QED
    BY <1>0, <2>1, <2>5 DEF RequestsOK, callVars
<1>8. QED
  BY <1>1, <1>2, <1>3, <1>4, <1>5, <1>6, <1>7 DEF Handle

LEMMA InitType == FilesOK /\ Init => TypeOK
<1> SUFFICES ASSUME FilesOK, Init PROVE TypeOK
  OBVIOUS
<1>1. TreeIs(tree) /\ 0 \in 0..MaxSize
  BY DEF Init, FilesOK
<1>2. \A A : <<>> \in Seq(A)
  OBVIOUS
<1>3. RequestsOK
  BY <1>1, <1>2 DEF Init, RequestsOK
<1>4. QED
  BY <1>1, <1>3, TypeIs

LEMMA NextType == FilesOK /\ TypeOK /\ [Next]_vars => TypeOK'
<1> SUFFICES ASSUME FilesOK, TypeOK, [Next]_vars PROVE TypeOK'
  OBVIOUS
<1>0. TreeIs(tree) /\ RequestsOK
  BY TypeIs
<1>1. CASE UNCHANGED vars
  BY <1>1 DEF vars, callVars, TypeOK, IsDir, Is
<1>2. ASSUME NEW r \in Requests, Begin(r) PROVE TypeOK'
  <2>1. /\ \E c \in Calls : call' = [call EXCEPT ![r] = c]
        /\ UNCHANGED <<tree, cursor, got, todo, removed, changed>>
        /\ stage' = [stage EXCEPT ![r] = "working"]
    BY <1>2 DEF Begin, Move
  <2>2. RequestsOK'
    BY <1>0, <2>1 DEF RequestsOK
  <2>3. QED
    BY <1>0, <2>1, <2>2, TypeIs
<1>3. ASSUME NEW r \in Requests, Handle(r) PROVE TypeOK'
  BY <1>3, TreeKept, RequestsKept, TypeIs
<1>4. QED
  BY <1>1, <1>2, <1>3 DEF Next

\* The server's tree stays a tree, whatever the requests make of it, and what each
\* request knows of it keeps its type (fsprovider.go, sftpapi.go).
THEOREM FilesTypeCorrect ==
    ASSUME FilesOK PROVE Spec => []TypeOK
<1>1. QED
  BY InitType, NextType, PTL DEF Spec

-----------------------------------------------------------------------------
(* What nobody else changes                                                *)

\* From t to u, no place on the way of p has changed, and none below where p leads.
Calm(t, u, p) ==
    /\ SameWay(t, u, p)
    /\ \A x \in Seq(Nat) : IsPrefix(OpenIn(t, p), x) => Same(t, u, x)

LEMMA CalmIs ==
    ASSUME FilesOK, NEW t, NEW u, TreeIs(t), TreeIs(u), NEW p \in Seq(Nat), Calm(t, u, p)
    PROVE  /\ Leads(u)[p] = Leads(t)[p] /\ OpenIn(u, p) = OpenIn(t, p)
           /\ Leads(u)[p] \in DOMAIN u <=> Leads(t)[p] \in DOMAIN t
           /\ Same(t, u, OpenIn(t, p)) /\ OpenIn(t, p) \in Seq(Nat)
<1>0. /\ Target \in Seq(Nat) /\ <<>> \notin DOMAIN t /\ <<>> \notin DOMAIN u
      /\ Len(p) \in Nat /\ Pre(p, Len(p)) = p
  BY TreePaths, LenProperties, PreOfAll DEF FilesOK
<1>1. LeadsAsBefore(t, u, p)
  BY <1>0, SteadyWay DEF Calm
<1>2. Leads(u)[p] = Leads(t)[p] /\ OpenIn(u, p) = OpenIn(t, p)
  <2>1. Len(p) \in 0..Len(p)
    BY <1>0
  <2>2. QED
    BY <1>0, <1>1, <2>1 DEF LeadsAsBefore
<1>3. OpenIn(t, p) \in Seq(Nat) /\ Leads(t)[p] \in Seq(Nat)
  BY <1>0, LeadsIs
<1>4. Same(t, u, OpenIn(t, p))
  BY <1>3, PrefixLaws DEF Calm
<1>5. Leads(t)[p] \in DOMAIN u <=> Leads(t)[p] \in DOMAIN t
  <2>1. CASE p = <<>>
    BY <1>0, <2>1, LeadsIs
  <2>2. CASE p # <<>>
    <3>1. Len(p) \in 1..Len(p)
      BY <1>0, <2>2, EmptySeq
    <3>2. Same(t, u, Leads(t)[Pre(p, Len(p))])
      BY <3>1 DEF Calm, SameWay
    <3>3. QED
      BY <1>0, <3>2 DEF Same
  <2>3. QED
    BY <2>1, <2>2
<1>6. QED
  BY <1>2, <1>3, <1>4, <1>5

\* What is said of r alone is as before.
AsBefore(r) ==
    /\ call'[r] = call[r] /\ stage'[r] = stage[r] /\ cursor'[r] = cursor[r]
    /\ got'[r] = got[r] /\ todo'[r] = todo[r]
    /\ removed'[r] = removed[r]

LEMMA StepOfOne ==
    ASSUME TypeOK, NEW q \in Requests, Begin(q) \/ Handle(q), NEW r \in Requests, r # q
    PROVE  AsBefore(r)
<1> USE DEF AsBefore, Move, TypeOK, callVars
<1>1. CASE Begin(q)
  BY <1>1 DEF Begin
<1>2. CASE Refuse(q) \/ DeleteFails(q) \/ Deleted(q)
  BY <1>2 DEF Refuse, DeleteFails, Deleted
<1>3. CASE ListPage(q)
  BY <1>3 DEF ListPage
<1>4. CASE OpenToRead(q)
  BY <1>4 DEF OpenToRead
<1>5. CASE Read(q) \/ Download(q)
  BY <1>5 DEF Read, Download
<1>6. CASE OpenToWrite(q) \/ Write(q)
  BY <1>6 DEF OpenToWrite, Write
<1>7. CASE Mkdir(q) \/ Rename(q)
  BY <1>7 DEF Mkdir, Rename
<1>8. CASE Delete(q) \/ ReadTree(q)
  BY <1>8 DEF Delete, ReadTree
<1>9. CASE RemoveOne(q)
  BY <1>9 DEF RemoveOne
<1>10. QED
  BY <1>1, <1>2, <1>3, <1>4, <1>5, <1>6, <1>7, <1>8, <1>9 DEF Handle

\* A step changes what others work on, or leaves the server alone.
LEMMA StepOfTree ==
    ASSUME NEW q \in Requests, Begin(q) \/ Handle(q)
    PROVE  Untouched \/ \E new : Changes(q, new)
BY DEF Begin, Handle, Refuse, ListPage, OpenToRead, Read, Download, OpenToWrite, Write,
       Mkdir, Rename, Delete, ReadTree, RemoveOne, DeleteFails, Deleted, Untouched

LEMMA CalmBeside ==
    ASSUME FilesOK, TypeOK, TypeOK', NEW q \in Requests, Begin(q) \/ Handle(q),
           NEW r \in Requests, r # q, ~changed'[r]
    PROVE  ~changed[r] /\ (stage[r] = "new" \/ Calm(tree, tree', Asked(r)))
<1>0. /\ TreeIs(tree) /\ TreeIs(tree') /\ changed \in [Requests -> BOOLEAN]
      /\ Asked(r) \in Seq(Nat)
  <2>1. RequestsOK
    BY TypeIs
  <2>2. QED
    BY <2>1, TypeIs, CallIs DEF RequestsOK, Asked
<1>1. CASE Untouched
  <2>1. tree' = tree /\ changed' = changed
    BY <1>1 DEF Untouched
  <2>2. QED
    BY <2>1 DEF Calm, SameWay, Same
<1>2. ASSUME NEW new, Changes(q, new)
      PROVE  ~changed[r] /\ (stage[r] = "new" \/ Calm(tree, tree', Asked(r)))
  <2> DEFINE p == Asked(r)
             Differs(x) ==
               IF x \in DOMAIN tree \intersect DOMAIN new THEN tree[x] # new[x]
               ELSE x \in DOMAIN tree \union DOMAIN new
  <2>1. /\ tree' = new
        /\ changed'[r] = (changed[r] \/ (r # q /\ stage[r] # "new" /\
             \E x \in Paths : Differs(x) /\ (x \in Way(p) \/ IsPrefix(Open(p), x))))
    BY <1>2 DEF Changes, Asked
  <2>2. SUFFICES ASSUME stage[r] # "new" PROVE ~changed[r] /\ Calm(tree, tree', p)
    BY <2>1
  <2>3. ~changed[r] /\ \A x \in Paths : x \in Way(p) \/ IsPrefix(Open(p), x) => ~Differs(x)
    BY <2>1, <2>2
  <2>4. ASSUME NEW x, x \in Way(p) \/ IsPrefix(Open(p), x) PROVE Same(tree, tree', x)
    <3>1. x \in DOMAIN tree \/ x \in DOMAIN tree' => x \in Paths
      BY <1>0 DEF TreeIs
    <3>2. QED
      BY <2>1, <2>3, <2>4, <3>1 DEF Same
  <2> HIDE DEF Differs, p
  <2>5. SameWay(tree, tree', p)
    <3>1. \A n \in 1..Len(p) : Leads(tree)[Pre(p, n)] \in Way(p)
      <4>1. DOMAIN p = 1..Len(p)
        BY <1>0, LenProperties DEF p
      <4>2. QED
        BY <4>1, LocateIs DEF Way, Pre
    <3>2. QED
      BY <2>4, <3>1 DEF SameWay
  <2>6. OpenIn(tree, p) = Open(p)
    BY LocateIs
  <2>7. QED
    BY <2>3, <2>4, <2>5, <2>6 DEF Calm
<1>3. QED
  BY <1>1, <1>2, StepOfTree

-----------------------------------------------------------------------------
(* A deletion                                                              *)

Items == [what : {"tree", "dir", "any"}, path : Seq(Nat)]

\* Of the path a that is deleted, and no link behind it is followed.
Good(t, a) ==
    {item \in Items :
       /\ IsPrefix(a, item.path)
       /\ Plain(t, item.path, Len(a),
                IF item.what = "tree" THEN Len(item.path) ELSE Len(item.path) - 1)}

\* What is left to be done ends with a itself.
DeletionOK(t, a, state, left) ==
    /\ left \in Seq(Good(t, a))
    /\ state = "opened" =>
         IF left = <<>> THEN Leads(t)[a] \notin DOMAIN t ELSE Last(left).path = a
    /\ state = "ok" => Leads(t)[a] \notin DOMAIN t

LEMMA MoreGood ==
    ASSUME NEW A, NEW B, A \subseteq B, NEW s \in Seq(A) PROVE s \in Seq(B)
BY SeqDef

LEMMA GoodIs ==
    ASSUME NEW t, NEW a \in Seq(Nat), a # <<>>, NEW item \in Good(t, a)
    PROVE  LET q == item.path
               l == IF item.what = "tree" THEN Len(q) ELSE Len(q) - 1
           IN  /\ q \in Seq(Nat) /\ IsPrefix(a, q) /\ Len(a) \in 1..Len(q) /\ Len(q) \in Nat
               /\ l \in 0..Len(q) /\ Plain(t, q, Len(a), l) /\ Pre(q, Len(a)) = a
<1>1. item.path \in Seq(Nat) /\ IsPrefix(a, item.path)
  BY DEF Good, Items
<1>2. Len(item.path) \in Nat /\ Len(a) \in Nat /\ Len(a) # 0
  BY <1>1, LenProperties, EmptySeq
<1>3. Len(a) <= Len(item.path) /\ Pre(item.path, Len(a)) = a
  BY <1>1, IsPrefixIs
<1>4. QED
  BY <1>1, <1>2, <1>3 DEF Good

LEMMA DeletionSteady ==
    ASSUME FilesOK, NEW t, NEW u, TreeIs(t), TreeIs(u), NEW a \in Seq(Nat), a # <<>>,
           Calm(t, u, a), NEW state, NEW left, DeletionOK(t, a, state, left)
    PROVE  DeletionOK(u, a, state, left)
<1>0. Target \in Seq(Nat) /\ <<>> \notin DOMAIN t /\ <<>> \notin DOMAIN u
  BY TreePaths DEF FilesOK
<1>1. Good(t, a) \subseteq Good(u, a)
  <2> SUFFICES ASSUME NEW item \in Good(t, a) PROVE item \in Good(u, a)
    OBVIOUS
  <2> DEFINE q == item.path
             k == Len(a)
             l == IF item.what = "tree" THEN Len(q) ELSE Len(q) - 1
  <2>1. /\ q \in Seq(Nat) /\ IsPrefix(a, q) /\ k \in 1..Len(q) /\ Len(q) \in Nat
        /\ l \in 0..Len(q) /\ Plain(t, q, k, l) /\ Pre(q, k) = a
    BY GoodIs
  <2>2. item \in Items
    BY DEF Good
  <2> HIDE DEF q, k, l
  <2>3. CASE k <= l
    <3>1. k \in 0..Len(q) /\ l \in k..Len(q)
      BY <2>1, <2>3
    <3>2. \A n \in 1..k : Same(t, u, Leads(t)[Pre(q, n)])
      <4> TAKE n \in 1..k
      <4>1. n \in 0..k
        BY <2>1
      <4>2. Pre(q, n) = Pre(a, n)
        BY <2>1, <3>1, <4>1, PreOfPre
      <4>3. QED
        BY <4>2 DEF Calm, SameWay, k
    <3>3. \A x \in Seq(Nat) : IsPrefix(OpenIn(t, Pre(q, k)), x) => Same(t, u, x)
      BY <2>1 DEF Calm
    <3>4. Plain(u, q, k, l)
      BY <1>0, <2>1, <3>1, <3>2, <3>3, PlainSteady
    <3>5. QED
      BY <2>1, <2>2, <3>4 DEF Good, q, k, l
  <2>4. CASE ~(k <= l)
    <3>1. \A m \in k + 1..l : FALSE
      BY <2>1, <2>4
    <3>2. Plain(u, q, k, l)
      BY <3>1 DEF Plain
    <3>3. QED
      BY <2>1, <2>2, <3>2 DEF Good, q, k, l
  <2>5. QED
    BY <2>3, <2>4
<1>2. left \in Seq(Good(u, a))
  BY <1>1, MoreGood DEF DeletionOK
<1>3. QED
  BY <1>2, CalmIs DEF DeletionOK

\* The last of what is left.
LEMMA LastLeft ==
    ASSUME NEW A, NEW s \in Seq(A), s # <<>>
    PROVE  /\ Head(s) = s[1] /\ (Tail(s) = <<>> => Last(s) = Head(s))
           /\ Tail(s) # <<>> => Last(Tail(s)) = Last(s)
           /\ \A w \in Seq(A) : w \o s # <<>> /\ Last(w \o s) = Last(s)
<1>1. Len(s) \in Nat /\ Len(s) # 0 /\ Head(s) = s[1]
  BY LenProperties, EmptySeq
<1>2. /\ Tail(s) \in Seq(A) /\ Len(Tail(s)) = Len(s) - 1
      /\ \A n \in 1..Len(s) - 1 : Tail(s)[n] = s[n + 1]
  BY TailOf
<1>3. ASSUME Tail(s) = <<>> PROVE Last(s) = Head(s)
  <2>1. Len(s) = 1
    <3>1. Len(Tail(s)) = Len(<<>>) /\ Len(<<>>) = 0
      BY <1>3
    <3>2. Len(s) - 1 = 0
      BY <1>2, <3>1
    <3>3. QED
      BY <1>1, <3>2
  <2>2. QED
    BY <1>1, <2>1 DEF Last
<1>4. ASSUME Tail(s) # <<>> PROVE Last(Tail(s)) = Last(s)
  <2>1. Len(Tail(s)) # 0
    BY <1>2, <1>4, EmptySeq
  <2>2. Len(s) - 1 \in 1..Len(s) - 1 /\ (Len(s) - 1) + 1 = Len(s)
    BY <1>1, <1>2, <2>1
  <2>3. QED
    BY <1>2, <2>2 DEF Last
<1>5. ASSUME NEW w \in Seq(A) PROVE w \o s # <<>> /\ Last(w \o s) = Last(s)
  <2>1. /\ w \o s \in Seq(A) /\ Len(w \o s) = Len(w) + Len(s) /\ Len(w) \in Nat
        /\ \A i \in 1..Len(w) + Len(s) : (w \o s)[i] = IF i <= Len(w) THEN w[i] ELSE s[i - Len(w)]
    BY LenProperties, ConcatProperties
  <2>2. /\ Len(w) + Len(s) \in 1..Len(w) + Len(s) /\ ~(Len(w) + Len(s) <= Len(w))
        /\ (Len(w) + Len(s)) - Len(w) = Len(s)
    BY <1>1, <2>1
  <2>3. (w \o s)[Len(w) + Len(s)] = s[Len(s)]
    BY <2>1, <2>2
  <2>4. Len(w \o s) # 0 /\ Len(<<>>) = 0
    BY <1>1, <2>1, EmptySeq
  <2>5. QED
    BY <2>1, <2>3, <2>4 DEF Last
<1>6. QED
  BY <1>1, <1>3, <1>4, <1>5

\* A directory is replaced by its entries and itself.
LEMMA DeletionExpands ==
    ASSUME FilesOK, TypeOK, NEW a \in Seq(Nat), a # <<>>, NEW left, left # <<>>,
           DeletionOK(tree, a, "opened", left), Head(left).what = "tree"
    PROVE  LET p == Head(left).path
               names == {Last(q) : q \in Children(Open(p))}
               them == {Todo(IF IsDir(Append(Open(p), name)) THEN "tree" ELSE "any",
                             Append(p, name)) : name \in names}
           IN  DeletionOK(tree, a, "opened", SetToSeq(them) \o <<Todo("dir", p)>> \o Tail(left))
<1> DEFINE p == Head(left).path
           o == Open(p)
           names == {Last(q) : q \in Children(o)}
           them == {Todo(IF IsDir(Append(o, name)) THEN "tree" ELSE "any",
                         Append(p, name)) : name \in names}
           G == Good(tree, a)
           k == Len(a)
<1>1. left \in Seq(G) /\ Last(left).path = a /\ Target \in Seq(Nat)
  BY DEF DeletionOK, FilesOK
<1>2. Head(left) \in G /\ Tail(left) \in Seq(G)
  <2> HIDE DEF G
  <2>1. QED
    BY <1>1, TailOf
<1>3. /\ p \in Seq(Nat) /\ IsPrefix(a, p) /\ k \in 1..Len(p) /\ Len(p) \in Nat
      /\ Plain(tree, p, k, Len(p))
  BY <1>2, GoodIs
<1> HIDE DEF p
<1>4. o \in Seq(Nat)
  BY <1>3, PlacesAre
<1>5. SetToSeq(them) \in Seq(them) /\ \A name \in names : name \in Nat
  BY <1>3, <1>4, TodoOf
<1>6. ASSUME NEW name \in Nat, NEW what \in {"tree", "any"},
             what = "tree" => IsDir(Append(o, name))
      PROVE  Todo(what, Append(p, name)) \in G
  <2> DEFINE q == Append(p, name)
  <2>1. /\ q \in Seq(Nat) /\ q # <<>> /\ Len(q) = Len(p) + 1 /\ Front(q) = p
        /\ Last(q) = name /\ Pre(q, Len(p)) = p
    BY <1>3, AppendIs
  <2> HIDE DEF q
  <2>2. IsPrefix(a, q)
    BY <1>3, <2>1, PrefixLaws
  <2>3. \A m \in k + 1..Len(p) : ~LinkIn(tree, Leads(tree)[Pre(q, m)])
    <3> TAKE m \in k + 1..Len(p)
    <3>1. m \in 0..Len(p) /\ Len(p) \in 0..Len(q)
      BY <1>3, <2>1
    <3>2. Pre(q, m) = Pre(p, m)
      BY <2>1, <3>1, PreOfPre
    <3>3. QED
      BY <1>3, <3>2 DEF Plain
  <2>4. what = "tree" => ~LinkIn(tree, Leads(tree)[Pre(q, Len(q))])
    <3> SUFFICES ASSUME what = "tree" PROVE ~LinkIn(tree, Leads(tree)[q])
      BY <2>1, PreOfAll
    <3>1. Leads(tree)[q] = Append(OpenIn(tree, p), name) /\ Leads(tree)[q] # <<>>
      BY <1>1, <2>1, LeadsIs
    <3>2. OpenIn(tree, p) = o
      BY LocateIs
    <3>3. IsDir(Leads(tree)[q])
      BY <1>6, <3>1, <3>2
    <3>4. QED
      BY <3>1, <3>3 DEF IsDir, Is, LinkIn
  <2> DEFINE l == IF what = "tree" THEN Len(q) ELSE Len(q) - 1
  <2>5. Plain(tree, q, k, l)
    <3>1. CASE what = "tree"
      <4>1. l = Len(p) + 1
        BY <2>1, <3>1
      <4>2. \A m \in k + 1..Len(p) + 1 : m \in k + 1..Len(p) \/ m = Len(q)
        <5>1. k \in Nat /\ Len(p) \in Nat /\ Len(q) = Len(p) + 1
          BY <1>3, <2>1, LenProperties
        <5> HIDE DEF k
        <5>2. QED
          BY <5>1
      <4> HIDE DEF l
      <4>3. QED
        BY <2>3, <2>4, <3>1, <4>1, <4>2 DEF Plain
    <3>2. CASE what # "tree"
      <4>1. l = Len(q) - 1
        BY <3>2
      <4>2. l = Len(p)
        BY <1>3, <2>1, <4>1
      <4> HIDE DEF l
      <4>3. QED
        BY <2>3, <4>2 DEF Plain
    <3>3. QED
      BY <3>1, <3>2
  <2>7. Todo(what, q) \in Items
    BY <2>1 DEF Todo, Items
  <2>8. Todo(what, q).what = what /\ Todo(what, q).path = q
    BY DEF Todo
  <2>9. QED
    BY <2>2, <2>5, <2>7, <2>8 DEF Good, q
<1>7. them \subseteq G
  <2> HIDE DEF G, names, o
  <2>1. QED
    BY <1>5, <1>6
<1>8. SetToSeq(them) \in Seq(G)
  <2> HIDE DEF them, G
  <2>1. QED
    BY <1>5, <1>7, MoreGood
<1>9. Todo("dir", p) \in G /\ Todo("dir", p).path = p
  <2>1. Todo("dir", p) \in Items /\ Todo("dir", p).what = "dir" /\ Todo("dir", p).path = p
    BY <1>3 DEF Todo, Items
  <2>2. \A m \in k + 1..Len(p) - 1 : m \in k + 1..Len(p)
    BY <1>3
  <2>3. Plain(tree, p, k, Len(p) - 1)
    BY <1>3, <2>2 DEF Plain
  <2>4. QED
    BY <1>3, <2>1, <2>3 DEF Good
<1> DEFINE s == SetToSeq(them)
           d == <<Todo("dir", p)>>
           z == s \o d \o Tail(left)
<1>10. d \in Seq(G) /\ d # <<>> /\ Last(d) = Todo("dir", p)
  <2> HIDE DEF G
  <2>1. d \in Seq(G) /\ Len(d) = 1 /\ d[1] = Todo("dir", p)
    BY <1>9
  <2>2. d # <<>>
    OBVIOUS
  <2>3. QED
    BY <2>1, <2>2 DEF Last
<1> HIDE DEF s, d, G, them
<1>11. s \o d \in Seq(G) /\ s \o d # <<>> /\ Last(s \o d) = Todo("dir", p)
  <2>1. s \in Seq(G)
    BY <1>8 DEF s
  <2>2. s \o d \in Seq(G)
    BY <1>10, <2>1, ConcatProperties
  <2>3. QED
    BY <1>10, <2>1, <2>2, LastLeft
<1>12. z \in Seq(G)
  BY <1>2, <1>11, ConcatProperties
<1>13. z # <<>> /\ Last(z).path = a
  <2>1. CASE Tail(left) = <<>>
    <3>1. z = s \o d
      BY <1>11, <2>1, ConcatEmptySeq
    <3>2. Last(left) = Head(left)
      BY <1>1, <2>1, LastLeft
    <3>3. QED
      BY <1>1, <1>9, <1>11, <3>1, <3>2 DEF p
  <2>2. CASE Tail(left) # <<>>
    <3>1. z # <<>> /\ Last(z) = Last(Tail(left))
      BY <1>2, <1>11, <2>2, LastLeft
    <3>2. Last(Tail(left)) = Last(left)
      BY <1>1, <2>2, LastLeft
    <3>3. QED
      BY <1>1, <3>1, <3>2
  <2>3. QED
    BY <2>1, <2>2
<1>14. DeletionOK(tree, a, "opened", z)
  BY <1>12, <1>13 DEF DeletionOK, G
<1>15. QED
  BY <1>14 DEF z, s, d, them, p

\* What is removed is of the path, and when it was the last, the path is gone.
LEMMA DeletionRemoves ==
    ASSUME FilesOK, NEW t, TreeIs(t), NEW a \in Seq(Nat), a # <<>>, NEW left, left # <<>>,
           DeletionOK(t, a, "opened", left), Leads(t)[Head(left).path] \in DOMAIN t,
           Childless(t, Leads(t)[Head(left).path])
    PROVE  /\ DeletionOK(Without(t, Leads(t)[Head(left).path]), a, "opened", Tail(left))
           /\ IsPrefix(Leads(t)[a], Leads(t)[Head(left).path]) \/ LinkIn(t, Leads(t)[a])
<1> DEFINE p == Head(left).path
           x == Leads(t)[p]
           u == Without(t, x)
<1>1. left \in Seq(Good(t, a)) /\ Last(left).path = a /\ Target \in Seq(Nat)
  BY DEF DeletionOK, FilesOK
<1>2. Head(left) \in Good(t, a) /\ Tail(left) \in Seq(Good(t, a))
  BY <1>1, TailOf
<1>3. Good(t, a) \subseteq Good(u, a)
  <2> SUFFICES ASSUME NEW item \in Good(t, a) PROVE item \in Good(u, a)
    OBVIOUS
  <2> DEFINE q == item.path
             l == IF item.what = "tree" THEN Len(q) ELSE Len(q) - 1
  <2>1. /\ q \in Seq(Nat) /\ IsPrefix(a, q) /\ Len(a) \in 0..Len(q) /\ l \in 0..Len(q)
        /\ Plain(t, q, Len(a), l)
    BY GoodIs
  <2>2. item \in Items
    BY DEF Good
  <2> HIDE DEF q, l
  <2>3. Plain(u, q, Len(a), l)
    BY <2>1, RemovalKeeps
  <2> HIDE DEF u
  <2>4. QED
    BY <2>1, <2>2, <2>3 DEF Good, q, l
<1>4. Tail(left) \in Seq(Good(u, a))
  BY <1>2, <1>3, MoreGood
<1>5. IF Tail(left) = <<>> THEN Leads(u)[a] \notin DOMAIN u ELSE Last(Tail(left)).path = a
  <2>1. CASE Tail(left) = <<>>
    <3>1. Last(left) = Head(left)
      BY <1>1, <2>1, LastLeft
    <3>2. x = Leads(t)[a]
      BY <1>1, <3>1
    <3>3. Leads(u)[a] \in DOMAIN u => Leads(t)[a] # x
      BY RemovalKeeps
    <3>4. QED
      BY <2>1, <3>2, <3>3
  <2>2. CASE Tail(left) # <<>>
    <3>1. Last(Tail(left)) = Last(left)
      BY <1>1, <2>2, LastLeft
    <3>2. QED
      BY <1>1, <2>2, <3>1
  <2>3. QED
    BY <2>1, <2>2
<1>6. IsPrefix(Leads(t)[a], x) \/ LinkIn(t, Leads(t)[a])
  <2> DEFINE k == Len(a)
             l == IF Head(left).what = "tree" THEN Len(p) ELSE Len(p) - 1
  <2>1. /\ p \in Seq(Nat) /\ IsPrefix(a, p) /\ k \in 1..Len(p) /\ Len(p) \in Nat
        /\ l \in 0..Len(p) /\ Plain(t, p, k, l) /\ Pre(p, k) = a
    BY <1>2, GoodIs
  <2>2. Leads(t)[a] \in Seq(Nat)
    BY <1>1, LeadsIs
  <2> HIDE DEF p
  <2>3. CASE k = Len(p)
    <3>1. p = a
      BY <2>1, <2>3, PreOfAll
    <3>2. QED
      BY <2>2, <3>1, PrefixLaws
  <2>4. CASE k # Len(p)
    <3>1. k \in 0..Len(p) /\ Len(p) \in k + 1..Len(p) /\ Len(p) - 1 \in k..Len(p)
          /\ Len(p) <= (Len(p) - 1) + 1
      BY <2>1, <2>4
    <3>2. Plain(t, p, k, Len(p) - 1)
      <4>1. \A m \in k + 1..Len(p) - 1 : m \in k + 1..l
        BY <2>1
      <4>2. QED
        BY <2>1, <4>1 DEF Plain
    <3>3. IsPrefix(OpenIn(t, Pre(p, k)), Leads(t)[Pre(p, Len(p))])
      <4> DEFINE j == Len(p) - 1
      <4>1. j \in k..Len(p) /\ Len(p) <= j + 1 /\ Plain(t, p, k, j)
        BY <3>1, <3>2
      <4> HIDE DEF j, k
      <4>2. \A m \in k + 1..Len(p) : m <= j + 1 =>
              IsPrefix(OpenIn(t, Pre(p, k)), Leads(t)[Pre(p, m)])
        BY <1>1, <2>1, <3>1, <4>1, PlainBelow
      <4>3. QED
        BY <3>1, <4>1, <4>2
    <3>4. IsPrefix(OpenIn(t, a), x)
      BY <2>1, <3>3, PreOfAll
    <3>5. QED
      BY <3>4 DEF OpenIn, FollowIn, LinkIn
  <2>5. QED
    BY <2>3, <2>4
<1>7. QED
  BY <1>4, <1>5, <1>6 DEF DeletionOK

-----------------------------------------------------------------------------
(* What each request knows of the server                                   *)

\* Nothing has been found, or set to be done, at first.
Started(r) ==
    /\ stage[r] = "new" => call[r] = Idle
    /\ stage[r] \in {"new", "working"} => todo[r] = <<>>
    /\ stage[r] = "new" => cursor[r] = 0 /\ got[r] = <<>>

Deletes(r) ==
    call[r].op = "delete" /\ ~changed[r] => DeletionOK(tree, Asked(r), stage[r], todo[r])

\* The pages so far are the first entries of the directory, and the cursor their number.
Lists(r) ==
    call[r].op = "list" /\ ~changed[r] =>
      LET all == Listing(Open(Asked(r)))
      IN  /\ stage[r] \in {"new", "working"} =>
               cursor[r] <= Len(all) /\ got[r] = SubSeq(all, 1, cursor[r])
          /\ stage[r] = "ok" => got[r] = all

FilesInv == \A r \in Requests : Started(r) /\ Deletes(r) /\ Lists(r)

ChildrenIn(t, p) == {q \in {q \in DOMAIN t : IsPrefix(p, q)} : Len(q) = Len(p) + 1}
ListingIn(t, p) == Sorted(ChildrenIn(t, p), {q \in ChildrenIn(t, p) : DirIn(t, q)})

\* A directory on which nobody works is listed as before.
LEMMA ListingSteady ==
    ASSUME FilesOK, NEW t, NEW u, TreeIs(t), TreeIs(u), NEW p,
           \A x \in Seq(Nat) : IsPrefix(p, x) => Same(t, u, x)
    PROVE  ListingIn(t, p) = ListingIn(u, p)
<1>0. /\ \A q \in DOMAIN t : q \in Seq(Nat) /\ q # <<>>
      /\ \A q \in DOMAIN u : q \in Seq(Nat) /\ q # <<>>
  BY TreePaths
<1>1. ChildrenIn(t, p) = ChildrenIn(u, p)
  BY <1>0 DEF ChildrenIn, Same
<1>2. \A q \in ChildrenIn(t, p) : DirIn(t, q) <=> DirIn(u, q)
  BY <1>0, SameIs DEF ChildrenIn
<1>3. {q \in ChildrenIn(t, p) : DirIn(t, q)} = {q \in ChildrenIn(u, p) : DirIn(u, q)}
  BY <1>1, <1>2
<1>4. QED
  BY <1>1, <1>3 DEF ListingIn

\* A step of another.
LEMMA FilesBeside ==
    ASSUME FilesOK, TypeOK, TypeOK', NEW q \in Requests, Begin(q) \/ Handle(q),
           NEW r \in Requests, r # q, Started(r), Deletes(r), Lists(r)
    PROVE  Started(r)' /\ Deletes(r)' /\ Lists(r)'
<1>0. /\ TreeIs(tree) /\ TreeIs(tree') /\ call[r] \in Calls \union {Idle}
      /\ Asked(r) = call[r].path
  BY TypeIs DEF RequestsOK, Asked
<1>1. AsBefore(r) /\ Asked(r)' = Asked(r)
  <2>1. AsBefore(r)
    BY StepOfOne
  <2>2. QED
    BY <2>1 DEF AsBefore, Asked
<1>2. Started(r)'
  BY <1>1 DEF Started, AsBefore
<1>3. SUFFICES ASSUME ~changed'[r], call[r].op # "none"
               PROVE  Deletes(r)' /\ Lists(r)'
  BY <1>1, <1>2 DEF AsBefore, Deletes, Lists
<1>4. ~changed[r] /\ Calm(tree, tree', Asked(r))
  <2>1. stage[r] # "new"
    BY <1>3 DEF Started, Idle
  <2>2. QED
    BY <1>3, <2>1, CalmBeside
<1>5. Asked(r) \in Seq(Nat) /\ (call[r].op = "delete" => Asked(r) # <<>>)
  BY <1>0, CallIs DEF FilesOK
<1>6. Deletes(r)'
  <2> SUFFICES ASSUME call[r].op = "delete"
               PROVE  DeletionOK(tree', Asked(r), stage[r], todo[r])
    BY <1>1 DEF Deletes, AsBefore
  <2>1. DeletionOK(tree, Asked(r), stage[r], todo[r])
    BY <1>4 DEF Deletes
  <2>2. QED
    BY <1>0, <1>4, <1>5, <2>1, DeletionSteady
<1>7. /\ Open(Asked(r)) \in Seq(Nat) /\ Open(Asked(r))' = Open(Asked(r))
      /\ Same(tree, tree', Open(Asked(r)))
      /\ \A x \in Seq(Nat) : IsPrefix(Open(Asked(r)), x) => Same(tree, tree', x)
  <2> DEFINE a == Asked(r)
  <2>1. /\ OpenIn(tree', a) = OpenIn(tree, a) /\ OpenIn(tree, a) \in Seq(Nat)
        /\ Same(tree, tree', OpenIn(tree, a))
    BY <1>0, <1>4, <1>5, CalmIs
  <2>2. a' = a
    BY <1>1
  <2>3. Open(a) = OpenIn(tree, a) /\ Open(a)' = OpenIn(tree', a')
    BY DEF Open, OpenIn, Follow, FollowIn, Is, Locate, Leads
  <2>4. QED
    BY <1>4, <2>1, <2>2, <2>3 DEF Calm
<1>8. Lists(r)'
  <2>1. Listing(Open(Asked(r)))' = Listing(Open(Asked(r)))
    <3> DEFINE o == Open(Asked(r))
    <3>1. Listing(o) = ListingIn(tree, o) /\ Listing(o)' = ListingIn(tree', o')
      BY DEF Listing, ListingIn, Children, ChildrenIn, Below, IsDir, Is, DirIn
    <3>2. o' = o /\ \A x \in Seq(Nat) : IsPrefix(o, x) => Same(tree, tree', x)
      BY <1>7
    <3> HIDE DEF o
    <3>3. ListingIn(tree', o) = ListingIn(tree, o)
      BY <1>0, <3>2, ListingSteady
    <3>4. QED
      BY <3>1, <3>2, <3>3 DEF o
  <2>2. QED
    BY <1>1, <1>4, <2>1 DEF Lists, AsBefore
<1>9. QED
  BY <1>6, <1>8

\* A step that leaves the server alone.
LEMMA Unmoved ==
    ASSUME tree' = tree, NEW r, call'[r] = call[r]
    PROVE  /\ Asked(r)' = Asked(r) /\ Open(Asked(r))' = Open(Asked(r))
           /\ Listing(Open(Asked(r)))' = Listing(Open(Asked(r)))
<1> DEFINE a == Asked(r)
           o == Open(a)
<1>1. a' = a
  BY DEF Asked
<1>2. o = OpenIn(tree, a) /\ o' = OpenIn(tree', a')
  BY DEF Open, OpenIn, Follow, FollowIn, Is, Locate, Leads
<1>3. o' = o
  BY <1>1, <1>2
<1>4. Listing(o) = ListingIn(tree, o) /\ Listing(o)' = ListingIn(tree', o')
  BY DEF Listing, ListingIn, Children, ChildrenIn, Below, IsDir, Is, DirIn
<1>5. Listing(o)' = Listing(o)
  BY <1>3, <1>4
<1>6. QED
  BY <1>1, <1>3, <1>5

\* A step of its own.
LEMMA FilesOwn ==
    ASSUME FilesOK, TypeOK, NEW r \in Requests, Handle(r),
           Started(r), Deletes(r), Lists(r)
    PROVE  Started(r)' /\ Deletes(r)' /\ Lists(r)'
<1>0. /\ TreeIs(tree) /\ RequestsOK /\ call[r] \in Calls \union {Idle}
      /\ Asked(r) = call[r].path
  BY TypeIs DEF RequestsOK, Asked
<1>a. /\ Asked(r) \in Seq(Nat) /\ (call[r].op = "delete" => Asked(r) # <<>>)
      /\ Open(Asked(r)) \in Seq(Nat)
  BY <1>0, CallIs, PlacesAre DEF FilesOK
\* A step that ends its work as it stands.
<1>1. CASE Refuse(r) \/ DeleteFails(r)
  <2>1. /\ UNCHANGED <<tree, call, todo, changed>> /\ stage'[r] = "failed"
    BY <1>0, <1>1 DEF Refuse, DeleteFails, callVars, Move, RequestsOK
  <2>2. Asked(r)' = Asked(r)
    BY <2>1 DEF Asked
  <2>3. Deletes(r)'
    BY <2>1, <2>2 DEF Deletes, DeletionOK
  <2>4. QED
    BY <2>1, <2>3 DEF Started, Lists
\* A step of another kind of request.
<1>2. CASE \/ OpenToRead(r) \/ Read(r) \/ Download(r) \/ OpenToWrite(r) \/ Write(r)
           \/ Mkdir(r) \/ Rename(r)
  <2>1. /\ call' = call /\ call[r].op \notin {"delete", "list"}
        /\ stage'[r] \notin {"new", "working"}
    BY <1>0, <1>2
    DEF OpenToRead, Read, Download, OpenToWrite, Write, Mkdir, Rename, Asks, callVars, Move,
        RequestsOK
  <2>2. QED
    BY <2>1 DEF Started, Deletes, Lists
<1>3. CASE ListPage(r)
  <2> DEFINE all == Listing(Open(Asked(r)))
             rest == SubSeq(all, cursor[r] + 1, Len(all))
             page == SubSeq(rest, 1, call[r].arg)
  <2>1. /\ call[r].op = "list" /\ stage[r] = "working"
        /\ UNCHANGED <<tree, call, todo, removed, changed>>
        /\ \/ /\ Len(rest) > call[r].arg
              /\ got' = [got EXCEPT ![r] = got[r] \o page]
              /\ cursor' = [cursor EXCEPT ![r] = cursor[r] + Len(page)]
              /\ stage' = stage
           \/ /\ got' = [got EXCEPT ![r] = got[r] \o rest]
              /\ stage' = [stage EXCEPT ![r] = "ok"]
    BY <1>3 DEF ListPage, Asks, Move
  <2>2. all \in Seq(Paths) /\ call[r].arg \in 0..2 /\ cursor[r] \in Nat
    BY <1>0, <1>a, <2>1, ListingIs, CallIs DEF RequestsOK
  <2>3. Started(r)' /\ Deletes(r)'
    BY <1>0, <2>1 DEF Started, Deletes, RequestsOK
  <2>4. Listing(Open(Asked(r)))' = all
    BY <2>1, Unmoved
  <2>5. Lists(r)'
    <3> SUFFICES ASSUME ~changed[r]
                 PROVE  /\ stage'[r] = "working" =>
                             cursor'[r] <= Len(all) /\ got'[r] = SubSeq(all, 1, cursor'[r])
                        /\ stage'[r] = "ok" => got'[r] = all
                        /\ stage'[r] # "new"
      BY <2>1, <2>4 DEF Lists
    <3>1. cursor[r] <= Len(all) /\ got[r] = SubSeq(all, 1, cursor[r])
      BY <2>1 DEF Lists
    <3> DEFINE c == cursor[r]
               k == call[r].arg
    <3>a. all \in Seq(Paths) /\ c \in Nat /\ c <= Len(all) /\ k \in Nat /\ Len(all) \in Nat
      BY <2>2, <3>1, LenProperties
    <3> HIDE DEF all
    <3>b. rest = SubSeq(all, c + 1, Len(all)) /\ page = SubSeq(rest, 1, k)
      OBVIOUS
    <3> HIDE DEF rest, page, c, k
    <3>c. \A j \in 0..Len(all) - c :
            /\ rest \in Seq(Paths) /\ Len(rest) = Len(all) - c
            /\ SubSeq(all, 1, c) \o SubSeq(rest, 1, j) = SubSeq(all, 1, c + j)
            /\ Len(SubSeq(rest, 1, j)) = j /\ SubSeq(all, 1, c) \o rest = all
      <4>1. PagesAre(Paths, all, c, rest)
        BY <3>a, <3>b, PagesOf
      <4>2. QED
        BY <4>1 DEF PagesAre
    <3>d. 0 \in 0..Len(all) - c
      BY <3>a
    <3>e. /\ rest \in Seq(Paths) /\ Len(rest) = Len(all) - c
          /\ SubSeq(all, 1, c) \o rest = all
      BY <3>c, <3>d
    <3>f. Len(rest) > k => k \in 0..Len(all) - c /\ c + k <= Len(all)
      BY <3>a, <3>e
    <3>g. Len(rest) > k =>
            /\ SubSeq(all, 1, c) \o page = SubSeq(all, 1, c + k) /\ Len(page) = k
            /\ c + k <= Len(all)
      BY <3>b, <3>c, <3>f
    <3>2. SubSeq(all, 1, cursor[r]) \o rest = all
      BY <3>e DEF c
    <3>3. Len(rest) > call[r].arg =>
            /\ SubSeq(all, 1, cursor[r]) \o page = SubSeq(all, 1, cursor[r] + call[r].arg)
            /\ Len(page) = call[r].arg /\ cursor[r] + call[r].arg <= Len(all)
      BY <3>g DEF c, k
    <3>4. r \in DOMAIN got /\ r \in DOMAIN cursor /\ r \in DOMAIN stage
      BY <1>0 DEF RequestsOK
    <3>5. CASE /\ Len(rest) > call[r].arg
               /\ got' = [got EXCEPT ![r] = got[r] \o page]
               /\ cursor' = [cursor EXCEPT ![r] = cursor[r] + Len(page)]
               /\ stage' = stage
      <4>1. /\ got'[r] = got[r] \o page /\ cursor'[r] = cursor[r] + call[r].arg
            /\ stage'[r] = "working"
        BY <2>1, <3>3, <3>4, <3>5
      <4>2. QED
        BY <3>1, <3>3, <3>5, <4>1
    <3>6. CASE /\ got' = [got EXCEPT ![r] = got[r] \o rest]
               /\ stage' = [stage EXCEPT ![r] = "ok"]
      BY <3>1, <3>2, <3>4, <3>6
    <3>7. QED
      BY <2>1, <3>5, <3>6
  <2>6. QED
    BY <2>3, <2>5
<1>4. ASSUME call[r].op = "delete", call' = call, stage'[r] \in {"opened", "ok"},
             ~changed'[r] => DeletionOK(tree', Asked(r), stage'[r], todo'[r])
      PROVE  Started(r)' /\ Deletes(r)' /\ Lists(r)'
  <2>1. Asked(r)' = Asked(r)
    BY <1>4 DEF Asked
  <2>2. Deletes(r)'
    BY <1>4, <2>1 DEF Deletes
  <2>3. QED
    BY <1>4, <2>2 DEF Started, Lists
<1>5. CASE Delete(r)
  <2>1. /\ call[r].op = "delete" /\ UNCHANGED <<tree, call, changed>> /\ stage'[r] = "opened"
        /\ \E what \in {"tree", "dir", "any"} : todo'[r] = <<Todo(what, Asked(r))>>
    BY <1>0, <1>5 DEF Delete, Asks, Move, callVars, RequestsOK
  <2>2. PICK what \in {"tree", "dir", "any"} : todo'[r] = <<Todo(what, Asked(r))>>
    BY <2>1
  <2> DEFINE a == Asked(r)
             t == Todo(what, a)
  <2>3. t \in Items /\ t.what = what /\ t.path = a
    BY <1>a DEF Todo, Items
  <2> HIDE DEF t
  <2>4. t \in Good(tree, a)
    <3> DEFINE l == IF what = "tree" THEN Len(a) ELSE Len(a) - 1
    <3>1. Len(a) \in Nat
      BY <1>a, LenProperties
    <3>2. \A m \in Len(a) + 1..l : FALSE
      BY <3>1
    <3>3. Plain(tree, a, Len(a), l)
      BY <3>2 DEF Plain
    <3>4. IsPrefix(a, a)
      BY <1>a, PrefixLaws
    <3>5. QED
      BY <2>3, <3>3, <3>4 DEF Good
  <2>5. <<t>> \in Seq(Good(tree, a)) /\ <<t>> # <<>> /\ Last(<<t>>) = t
    <3>1. <<t>> \in Seq(Good(tree, a)) /\ <<t>> # <<>> /\ <<t>>[Len(<<t>>)] = t
      BY <2>4
    <3>2. QED
      BY <3>1 DEF Last
  <2>6. DeletionOK(tree, a, "opened", <<t>>)
    BY <2>3, <2>5 DEF DeletionOK
  <2>7. QED
    BY <1>4, <2>1, <2>2, <2>6 DEF t
<1>6. CASE ReadTree(r)
  <2> DEFINE p == Head(todo[r]).path
             names == {Last(q) : q \in Children(Open(p))}
             them == {Todo(IF IsDir(Append(Open(p), name)) THEN "tree" ELSE "any",
                           Append(p, name)) : name \in names}
             left == SetToSeq(them) \o <<Todo("dir", p)>> \o Tail(todo[r])
  <2>1. /\ call[r].op = "delete" /\ UNCHANGED <<tree, call, changed>> /\ stage[r] = "opened"
        /\ stage' = stage /\ todo[r] # <<>> /\ Head(todo[r]).what = "tree"
        /\ todo'[r] = left
    BY <1>0, <1>6 DEF ReadTree, Asks, callVars, RequestsOK
  <2>2. ~changed[r] => DeletionOK(tree, Asked(r), "opened", todo[r])
    BY <2>1 DEF Deletes
  <2>3. ~changed[r] => DeletionOK(tree, Asked(r), "opened", left)
    <3> SUFFICES ASSUME ~changed[r] PROVE DeletionOK(tree, Asked(r), "opened", left)
      OBVIOUS
    <3> DEFINE a == Asked(r)
               old == todo[r]
    <3>1. /\ a \in Seq(Nat) /\ a # <<>> /\ old # <<>> /\ DeletionOK(tree, a, "opened", old)
          /\ Head(old).what = "tree"
      BY <1>a, <2>1, <2>2
    <3> HIDE DEF a, old
    <3>2. LET p2 == Head(old).path
              names2 == {Last(q) : q \in Children(Open(p2))}
              them2 == {Todo(IF IsDir(Append(Open(p2), name)) THEN "tree" ELSE "any",
                             Append(p2, name)) : name \in names2}
          IN  DeletionOK(tree, a, "opened", SetToSeq(them2) \o <<Todo("dir", p2)>> \o Tail(old))
      BY <3>1, DeletionExpands
    <3>3. QED
      BY <3>2 DEF a, old
  <2> HIDE DEF left
  <2>4. QED
    BY <1>4, <2>1, <2>3
<1>7. CASE RemoveOne(r)
  <2> DEFINE x == Locate[Head(todo[r]).path]
  <2>1. /\ call[r].op = "delete" /\ UNCHANGED call /\ stage[r] = "opened" /\ stage' = stage
        /\ todo[r] # <<>> /\ todo'[r] = Tail(todo[r]) /\ x \in DOMAIN tree
        /\ Children(x) = {} /\ tree' = Without(tree, x) /\ (~changed'[r] => ~changed[r])
    BY <1>0, <1>7 DEF RemoveOne, Asks, callVars, RequestsOK, Changes, Without
  <2>2. x = Leads(tree)[Head(todo[r]).path]
    BY LocateIs
  <2>3. Childless(tree, x)
    BY <1>0, <2>1, TreePaths, ChildrenAre DEF Childless
  <2>4. ~changed[r] => DeletionOK(tree, Asked(r), "opened", todo[r])
    BY <2>1 DEF Deletes
  <2> HIDE DEF x
  <2>5. ~changed[r] => DeletionOK(Without(tree, x), Asked(r), "opened", Tail(todo[r]))
    BY <1>0, <1>a, <2>1, <2>2, <2>3, <2>4, DeletionRemoves
  <2>6. QED
    BY <1>4, <2>1, <2>5
<1>8. CASE Deleted(r)
  <2>1. /\ call[r].op = "delete" /\ UNCHANGED <<tree, call, todo, changed>> /\ stage[r] = "opened"
        /\ stage'[r] = "ok" /\ todo[r] = <<>>
    BY <1>0, <1>8 DEF Deleted, Asks, Move, callVars, RequestsOK
  <2>2. ~changed[r] => DeletionOK(tree, Asked(r), "opened", todo[r])
    BY <2>1 DEF Deletes
  <2>3. ~changed[r] => DeletionOK(tree, Asked(r), "ok", todo[r])
    BY <2>1, <2>2 DEF DeletionOK
  <2>4. QED
    BY <1>4, <2>1, <2>3
<1>9. QED
  BY <1>1, <1>2, <1>3, <1>5, <1>6, <1>7, <1>8 DEF Handle

LEMMA FilesBegin ==
    ASSUME FilesOK, TypeOK, NEW r \in Requests, Begin(r), Started(r)
    PROVE  Started(r)' /\ Deletes(r)' /\ Lists(r)'
<1>1. /\ stage[r] = "new" /\ stage'[r] = "working" /\ call'[r] \in Calls
      /\ UNCHANGED <<tree, cursor, got, todo, removed, changed>>
  BY TypeIs DEF Begin, Move, RequestsOK
<1>2. todo[r] = <<>> /\ cursor[r] = 0 /\ got[r] = <<>>
  BY <1>1 DEF Started
<1>3. Started(r)'
  BY <1>1, <1>2 DEF Started
<1>4. Deletes(r)'
  <2>1. \A A : <<>> \in Seq(A)
    OBVIOUS
  <2>2. QED
    BY <1>1, <1>2, <2>1 DEF Deletes, DeletionOK
<1>5. Lists(r)'
  <2> DEFINE o == Open(Asked(r))
  <2>1. o' \in Seq(Nat)
    <3>1. Asked(r)' \in Seq(Nat)
      BY <1>1, CallIs DEF Asked
    <3>2. OpenIn(tree', Asked(r)') \in Seq(Nat)
      BY <3>1, LeadsIs DEF FilesOK
    <3>3. o' = OpenIn(tree', Asked(r)')
      BY DEF Open, OpenIn, Follow, FollowIn, Is, Locate, Leads
    <3>4. QED
      BY <3>2, <3>3
  <2>2. Listing(o)' \in Seq(Paths)
    <3>1. \A p \in Seq(Nat) : ListingIn(tree, p) \in Seq(Paths)
      <4> TAKE p \in Seq(Nat)
      <4>1. Listing(p) = ListingIn(tree, p)
        BY DEF Listing, ListingIn, Children, ChildrenIn, Below, IsDir, Is, DirIn
      <4>2. QED
        BY <4>1, ListingIs
    <3>2. Listing(o)' = ListingIn(tree', o')
      BY DEF Listing, ListingIn, Children, ChildrenIn, Below, IsDir, Is, DirIn
    <3> HIDE DEF o
    <3>3. QED
      BY <1>1, <2>1, <3>1, <3>2
  <2>3. SubSeq(Listing(o)', 1, 0) = <<>> /\ 0 <= Len(Listing(o)')
    BY <2>2
  <2>4. QED
    BY <1>1, <1>2, <2>3 DEF Lists
<1>6. QED
  BY <1>3, <1>4, <1>5

LEMMA FilesStart == FilesOK /\ Init => FilesInv
<1> SUFFICES ASSUME FilesOK, Init, NEW r \in Requests
             PROVE  Started(r) /\ Deletes(r) /\ Lists(r)
  BY DEF FilesInv
<1>1. /\ call[r] = Idle /\ stage[r] = "new" /\ cursor[r] = 0 /\ got[r] = <<>>
      /\ todo[r] = <<>>
  BY DEF Init
<1>2. QED
  BY <1>1 DEF Started, Deletes, Lists, Idle

LEMMA FilesNext == FilesOK /\ TypeOK /\ FilesInv /\ [Next]_vars => FilesInv'
<1> SUFFICES ASSUME FilesOK, TypeOK, FilesInv, [Next]_vars, NEW r \in Requests
             PROVE  Started(r)' /\ Deletes(r)' /\ Lists(r)'
  BY DEF FilesInv
<1>0. TypeOK' /\ Started(r) /\ Deletes(r) /\ Lists(r)
  BY NextType DEF FilesInv
<1>1. CASE UNCHANGED vars
  <2>1. UNCHANGED <<tree, call, cursor, stage, got, todo, removed, changed>>
    BY <1>1 DEF vars, callVars
  <2>2. QED
    BY <1>0, <2>1, Unmoved DEF Started, Deletes, Lists
<1>2. ASSUME NEW q \in Requests, Begin(q) \/ Handle(q)
      PROVE  Started(r)' /\ Deletes(r)' /\ Lists(r)'
  <2>1. CASE r # q
    BY <1>0, <1>2, <2>1, FilesBeside
  <2>2. CASE r = q
    BY <1>0, <1>2, <2>2, FilesOwn, FilesBegin
  <2>3. QED
    BY <2>1, <2>2
<1>3. QED
  BY <1>1, <1>2 DEF Next

\* A listing holds every entry of its directory once, wherever its pages end (fsList,
\* fsCursor).
THEOREM FilesLeaveNothingOut ==
    ASSUME FilesOK PROVE Spec => []NothingLeftOut
<1>1. TypeOK /\ FilesInv => NothingLeftOut
  <2> SUFFICES ASSUME TypeOK, FilesInv, NEW r \in Requests,
                      call[r].op = "list", stage[r] = "ok", ~changed[r]
               PROVE  /\ ToSet(got[r]) = Children(Open(Asked(r)))
                      /\ Len(got[r]) = Cardinality(Children(Open(Asked(r))))
    BY DEF NothingLeftOut
  <2>1. Lists(r)
    BY DEF FilesInv
  <2>2. Open(Asked(r)) \in Seq(Nat)
    <3>1. call[r] \in Calls \union {Idle}
      BY TypeIs DEF RequestsOK
    <3>2. QED
      BY <3>1, CallIs, PlacesAre DEF Asked
  <2>3. got[r] = Listing(Open(Asked(r)))
    BY <2>1 DEF Lists
  <2>4. QED
    BY <2>2, <2>3, ListingIs
<1>2. QED
  BY <1>1, FilesTypeCorrect, FilesStart, FilesNext, NextType, InitType, PTL DEF Spec

\* A deletion removes nothing outside of the path it names, unless that is a link, whose
\* target is emptied, and leaves nothing of it when it is answered with success (fsDelete,
\* removeRemoteTree).
THEOREM FilesDeleteTheirPath ==
    ASSUME FilesOK PROVE Spec => DeletesItsPath
<1> DEFINE Does(r) ==
             call[r].op = "delete" /\ ~changed'[r] =>
               /\ \A p \in removed'[r] \ removed[r] :
                    IsPrefix(Locate[Asked(r)], p) \/ Is("link", Locate[Asked(r)])
               /\ stage'[r] = "ok" => Locate'[Asked(r)] \notin DOMAIN tree'
<1>1. ASSUME TypeOK, FilesInv, Next PROVE \A r \in Requests : Does(r)
  <2> SUFFICES ASSUME NEW r \in Requests, call[r].op = "delete", ~changed'[r]
               PROVE  Does(r)
    OBVIOUS
  <2>0. /\ TypeOK' /\ FilesInv' /\ TreeIs(tree) /\ RequestsOK /\ RequestsOK'
    BY <1>1, NextType, FilesNext, TypeIs
  <2>a. Deletes(r) /\ Deletes(r)' /\ Started(r)
    BY <1>1, <2>0 DEF FilesInv
  <2>b. Asked(r) \in Seq(Nat) /\ Asked(r) # <<>>
    BY <2>0, CallIs DEF RequestsOK, Asked, FilesOK
  <2>1. PICK q \in Requests : Begin(q) \/ Handle(q)
    BY <1>1 DEF Next
  <2>2. call'[r] = call[r]
    <3>1. CASE r # q
      BY <1>1, <2>1, <3>1, StepOfOne DEF AsBefore
    <3>2. CASE r = q /\ Begin(q)
      BY <2>a, <3>2 DEF Begin, Move, Started, Idle
    <3>3. CASE r = q /\ Handle(q)
      BY <3>3 DEF Handle, Refuse, ListPage, OpenToRead, Read, Download, OpenToWrite, Write,
                  Mkdir, Rename, Delete, ReadTree, RemoveOne, DeleteFails, Deleted, callVars
    <3>4. QED
      BY <2>1, <3>1, <3>2, <3>3
  <2>3. stage'[r] = "ok" => Locate'[Asked(r)] \notin DOMAIN tree'
    <3>1. Asked(r)' = Asked(r)
      BY <2>2 DEF Asked
    <3>2. stage'[r] = "ok" => Leads(tree')[Asked(r)] \notin DOMAIN tree'
      BY <2>a, <2>2, <3>1 DEF Deletes, DeletionOK
    <3>3. QED
      BY <3>2, LocateIs
  <2>4. ASSUME NEW p \in removed'[r] \ removed[r]
        PROVE  IsPrefix(Locate[Asked(r)], p) \/ Is("link", Locate[Asked(r)])
    <3>1. r = q /\ RemoveOne(r)
      <4>1. r = q
        BY <1>1, <2>1, <2>4, StepOfOne DEF AsBefore
      <4>2. QED
        BY <2>1, <2>4, <4>1
        DEF Begin, Handle, Refuse, ListPage, OpenToRead, Read, Download, OpenToWrite, Write,
            Mkdir, Rename, Delete, ReadTree, DeleteFails, Deleted
    <3> DEFINE x == Locate[Head(todo[r]).path]
    <3>2. /\ stage[r] = "opened" /\ todo[r] # <<>> /\ x \in DOMAIN tree /\ Children(x) = {}
          /\ ~changed[r] /\ removed'[r] = removed[r] \union {x}
      BY <2>0, <3>1 DEF RemoveOne, Asks, Changes, RequestsOK
    <3>3. x = Leads(tree)[Head(todo[r]).path] /\ Locate[Asked(r)] = Leads(tree)[Asked(r)]
      BY LocateIs
    <3>4. Childless(tree, x)
      BY <1>1, <2>0, <3>2, TreePaths, ChildrenAre DEF Childless
    <3>5. DeletionOK(tree, Asked(r), "opened", todo[r])
      BY <2>a, <3>2 DEF Deletes
    <3>6. p = x
      BY <2>4, <3>2
    <3> HIDE DEF x
    <3>7. IsPrefix(Leads(tree)[Asked(r)], x) \/ LinkIn(tree, Leads(tree)[Asked(r)])
      BY <2>0, <2>b, <3>2, <3>3, <3>4, <3>5, DeletionRemoves
    <3>8. QED
      BY <3>3, <3>6, <3>7 DEF LinkIn, Is
  <2>5. QED
    BY <2>3, <2>4
<1>2. ASSUME TypeOK, FilesInv, [Next]_vars PROVE [\A r \in Requests : Does(r)]_vars
  BY <1>1, <1>2
<1>3. QED
  BY <1>2, FilesTypeCorrect, FilesStart, FilesNext, NextType, InitType, PTL
  DEF Spec, DeletesItsPath
=============================================================================

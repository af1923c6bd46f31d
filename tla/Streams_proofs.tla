------------------------- MODULE Streams_proofs -------------------------
(***************************************************************************)
(* Proofs about the two programs that read a stream as it comes, in chunks  *)
(* that are cut anywhere: CommandStream, for any sizes of chunks, limits    *)
(* and buffers, and TerminalStream, for any chunks and any limits.          *)
(***************************************************************************)
EXTENDS CommandStream, SequenceTheorems, WellFoundedInduction, TLAPS

-----------------------------------------------------------------------------
(* Numbers                                                                 *)

\* A set of numbers that is not empty has a least one ...
LEMMA MinIs ==
    ASSUME NEW T \in SUBSET Nat, T # {}
    PROVE  Min(T) \in T /\ \A y \in T : Min(T) <= y
<1> DEFINE R == OpToRel(<, Nat)
<1>1. IsWellFoundedOn(R, Nat)
  BY NatLessThanWellFounded
<1>2. \A x, y \in Nat : <<y, x>> \in R <=> y < x
  BY DEF OpToRel
<1> HIDE DEF R
<1>3. \E x \in T : \A y \in T : ~(<<y, x>> \in R)
  BY <1>1, WFMin
<1>4. \A x \in T : x \in Nat
  OBVIOUS
<1>5. PICK x \in T : \A y \in T : ~(<<y, x>> \in R)
  BY <1>3
<1>6. \A y \in T : x <= y
  <2> TAKE y \in T
  <2>1. x \in Nat /\ y \in Nat /\ ~(<<y, x>> \in R)
    BY <1>4, <1>5
  <2>2. ~(y < x)
    BY <1>2, <2>1
  <2>3. QED
    BY <2>1, <2>2
<1>7. QED
  BY <1>6 DEF Min

\* ... and a greatest one if it has a bound.
LEMMA MaxIs ==
    ASSUME NEW n \in Nat, NEW T \in SUBSET (0..n), T # {}
    PROVE  Max(T) \in T /\ \A y \in T : y <= Max(T)
<1> DEFINE M == {n - y : y \in T}
<1>a. \A y \in T : y \in Nat /\ n - y \in Nat
  OBVIOUS
<1>1. M \in SUBSET Nat /\ M # {}
  BY <1>a
<1>2. Min(M) \in M /\ \A y \in M : Min(M) <= y
  BY <1>1, MinIs
<1>3. PICK x \in T : Min(M) = n - x
  BY <1>2
<1>4. \A y \in T : x >= y
  <2> TAKE y \in T
  <2>1. n - x <= n - y
    BY <1>2, <1>3
  <2>2. x \in Nat /\ y \in Nat
    BY <1>a
  <2>3. QED
    BY <2>1, <2>2
<1>5. QED
  BY <1>4 DEF Max

LEMMA MinIsIt ==
    ASSUME NEW T \in SUBSET Nat, NEW m \in T, \A y \in T : m <= y
    PROVE  Min(T) = m
<1>1. Min(T) \in T /\ Min(T) <= m
  BY MinIs
<1>2. m <= Min(T) /\ m \in Nat /\ Min(T) \in Nat
  BY <1>1
<1>3. QED
  BY <1>1, <1>2

LEMMA MaxIsIt ==
    ASSUME NEW n \in Nat, NEW T \in SUBSET (0..n), NEW m \in T, \A y \in T : y <= m
    PROVE  Max(T) = m
<1>1. Max(T) \in T /\ m <= Max(T)
  BY MaxIs
<1>2. \A y \in T : y \in Nat /\ y <= m
  OBVIOUS
<1>3. Max(T) \in Nat /\ m \in Nat /\ Max(T) <= m
  BY <1>1, <1>2
<1>4. QED
  BY <1>1, <1>3

-----------------------------------------------------------------------------
(* Beginnings and ends of the output                                       *)

\* What the beginning of a sequence is ...
LEMMA FirstOfIs ==
    ASSUME NEW s \in Seq(Cells), NEW n \in Nat
    PROVE  /\ FirstOf(s, n) \in Seq(Cells)
           /\ Len(FirstOf(s, n)) = IF Len(s) > n THEN n ELSE Len(s)
           /\ \A i \in 1..Len(FirstOf(s, n)) : FirstOf(s, n)[i] = s[i]
<1>1. CASE Len(s) > n
  <2>1. \A i \in 1..n : s[i] \in Cells
    BY <1>1, ElementOfSeq, LenProperties
  <2>2. /\ SubSeq(s, 1, n) \in Seq(Cells)
        /\ Len(SubSeq(s, 1, n)) = n
        /\ \A i \in 1..n : SubSeq(s, 1, n)[i] = s[i]
    BY <2>1, SubSeqProperties
  <2>3. QED
    BY <1>1, <2>2 DEF FirstOf
<1>2. CASE ~(Len(s) > n)
  BY <1>2, LenProperties DEF FirstOf
<1>3. QED
  BY <1>1, <1>2

\* ... and its end.
LEMMA LastOfIs ==
    ASSUME NEW s \in Seq(Cells), NEW n \in Nat
    PROVE  /\ LastOf(s, n) \in Seq(Cells)
           /\ Len(LastOf(s, n)) = IF Len(s) > n THEN n ELSE Len(s)
           /\ \A i \in 1..Len(LastOf(s, n)) :
                LastOf(s, n)[i] = s[Len(s) - Len(LastOf(s, n)) + i]
<1>0. Len(s) \in Nat
  BY LenProperties
<1>1. CASE Len(s) > n
  <2> DEFINE m == Len(s) - n + 1
  <2>1. m \in Int /\ \A i \in m..Len(s) : s[i] \in Cells
    BY <1>0, <1>1, ElementOfSeq
  <2>2. /\ SubSeq(s, m, Len(s)) \in Seq(Cells)
        /\ Len(SubSeq(s, m, Len(s))) = IF m <= Len(s) THEN Len(s) - m + 1 ELSE 0
        /\ \A i \in 1..Len(s) - m + 1 : SubSeq(s, m, Len(s))[i] = s[m + i - 1]
    BY <1>0, <2>1, SubSeqProperties
  <2>3. /\ Len(SubSeq(s, m, Len(s))) = n
        /\ \A i \in 1..n : SubSeq(s, m, Len(s))[i] = s[Len(s) - n + i]
    BY <1>0, <1>1, <2>2
  <2>4. QED
    BY <1>1, <2>2, <2>3 DEF LastOf
<1>2. CASE ~(Len(s) > n)
  BY <1>0, <1>2 DEF LastOf
<1>3. QED
  BY <1>1, <1>2

\* What may come at once.
LEMMA ChunkIs ==
    ASSUME NEW chunk \in BoundedSeq(Cells, MaxChunk) \ {<<>>}
    PROVE  chunk \in Seq(Cells) /\ Len(chunk) \in Nat \ {0}
<1>1. chunk \in Seq(Cells)
  BY DEF BoundedSeq, SeqOf
<1>2. QED
  BY <1>1, EmptySeq

\* The beginning of more is the beginning, filled up.
LEMMA FirstOfMore ==
    ASSUME NEW s \in Seq(Cells), NEW t \in Seq(Cells), NEW n \in Nat
    PROVE  /\ n - Len(FirstOf(s, n)) \in Nat
           /\ FirstOf(s \o t, n) = FirstOf(s, n) \o FirstOf(t, n - Len(FirstOf(s, n)))
           /\ Len(FirstOf(s, n)) >= n => FirstOf(s \o t, n) = FirstOf(s, n)
<1> DEFINE f == FirstOf(s, n)
           k == n - Len(f)
           g == FirstOf(t, k)
           a == FirstOf(s \o t, n)
<1>1. /\ Len(s) \in Nat /\ Len(t) \in Nat
      /\ s \o t \in Seq(Cells) /\ Len(s \o t) = Len(s) + Len(t)
      /\ \A i \in 1..Len(s) + Len(t) :
           (s \o t)[i] = IF i <= Len(s) THEN s[i] ELSE t[i - Len(s)]
  BY ConcatProperties, LenProperties
<1>2. /\ f \in Seq(Cells) /\ Len(f) = IF Len(s) > n THEN n ELSE Len(s)
      /\ \A i \in 1..Len(f) : f[i] = s[i]
  BY FirstOfIs
<1>3. k \in Nat /\ Len(f) \in Nat
  BY <1>1, <1>2
<1>4. /\ g \in Seq(Cells) /\ Len(g) = IF Len(t) > k THEN k ELSE Len(t)
      /\ \A i \in 1..Len(g) : g[i] = t[i]
  BY <1>3, FirstOfIs
<1>5. /\ a \in Seq(Cells) /\ Len(a) = IF Len(s) + Len(t) > n THEN n ELSE Len(s) + Len(t)
      /\ \A i \in 1..Len(a) : a[i] = (s \o t)[i]
  BY <1>1, FirstOfIs
<1> HIDE DEF f, k, g, a
<1>a. k = n - Len(f)
  BY DEF k
<1>6. /\ f \o g \in Seq(Cells) /\ Len(f \o g) = Len(f) + Len(g)
      /\ \A i \in 1..Len(f) + Len(g) :
           (f \o g)[i] = IF i <= Len(f) THEN f[i] ELSE g[i - Len(f)]
  <2>1. f \in Seq(Cells) /\ g \in Seq(Cells)
    BY <1>2, <1>4
  <2>2. QED
    BY <2>1, ConcatProperties
<1>b. /\ Len(f) = IF Len(s) > n THEN n ELSE Len(s)
      /\ Len(g) = IF Len(t) > k THEN k ELSE Len(t)
      /\ Len(a) = IF Len(s) + Len(t) > n THEN n ELSE Len(s) + Len(t)
      /\ Len(s) \in Nat /\ Len(t) \in Nat /\ Len(f) \in Nat
  BY <1>1, <1>2, <1>3, <1>4, <1>5
<1>c. Len(f) + Len(g) = Len(a) /\ Len(a) <= Len(s) + Len(t) /\ Len(g) \in Nat
  <2>1. CASE Len(s) > n
    <3>1. Len(f) = n /\ Len(a) = n /\ k = 0 /\ Len(g) = 0
      BY <1>a, <1>b, <2>1
    <3>2. QED
      BY <1>b, <2>1, <3>1
  <2>2. CASE ~(Len(s) > n)
    <3>1. Len(f) = Len(s) /\ k = n - Len(s)
      BY <1>a, <1>b, <2>2
    <3>2. QED
      BY <1>b, <2>2, <3>1
  <2>3. QED
    BY <2>1, <2>2
<1>7. Len(a) = Len(f \o g)
  BY <1>6, <1>c
<1>8. ASSUME NEW i \in 1..Len(a) PROVE a[i] = (f \o g)[i]
  <2>1. i \in 1..Len(s) + Len(t) /\ a[i] = (s \o t)[i] /\ i \in 1..Len(f) + Len(g)
    BY <1>5, <1>b, <1>c
  <2>2. CASE i <= Len(f)
    BY <1>1, <1>2, <1>6, <2>1, <2>2
  <2>3. CASE ~(i <= Len(f))
    <3>1. Len(f) = Len(s) /\ i - Len(f) \in 1..Len(g)
      BY <1>a, <1>b, <1>c, <2>1, <2>3
    <3>2. (s \o t)[i] = t[i - Len(s)] /\ (f \o g)[i] = g[i - Len(f)]
      BY <1>1, <1>6, <2>1, <2>3, <3>1
    <3>3. QED
      BY <1>4, <2>1, <3>1, <3>2
  <2>4. QED
    BY <2>2, <2>3
<1>9. a = f \o g
  BY <1>5, <1>6, <1>7, <1>8, SeqEqual
<1>10. Len(f) >= n => a = f
  <2>1. SUFFICES ASSUME Len(f) >= n PROVE a = f
    OBVIOUS
  <2>2. Len(g) = 0
    BY <1>1, <1>2, <1>3, <1>4, <1>a, <2>1
  <2>3. Len(a) = Len(f) /\ \A i \in 1..Len(a) : a[i] = f[i]
    BY <1>3, <1>6, <1>7, <1>8, <2>2
  <2>4. QED
    BY <1>2, <1>5, <2>3, SeqEqual
<1>11. QED
  BY <1>3, <1>9, <1>10 DEF a, f, g, k

\* The end of more is the end of the end and more.
LEMMA LastOfMore ==
    ASSUME NEW s \in Seq(Cells), NEW t \in Seq(Cells), NEW n \in Nat
    PROVE  LastOf(LastOf(s, n) \o t, n) = LastOf(s \o t, n)
<1> DEFINE e == LastOf(s, n)
           b == e \o t
           c == s \o t
           x == LastOf(b, n)
           y == LastOf(c, n)
<1>1. /\ Len(s) \in Nat /\ Len(t) \in Nat /\ Len(e) \in Nat
      /\ e \in Seq(Cells) /\ Len(e) = IF Len(s) > n THEN n ELSE Len(s)
      /\ \A i \in 1..Len(e) : e[i] = s[Len(s) - Len(e) + i]
  BY LastOfIs, LenProperties
<1>2. /\ c \in Seq(Cells) /\ Len(c) = Len(s) + Len(t)
      /\ \A i \in 1..Len(s) + Len(t) : c[i] = IF i <= Len(s) THEN s[i] ELSE t[i - Len(s)]
  BY ConcatProperties
<1>3. /\ b \in Seq(Cells) /\ Len(b) = Len(e) + Len(t)
      /\ \A i \in 1..Len(e) + Len(t) : b[i] = IF i <= Len(e) THEN e[i] ELSE t[i - Len(e)]
  BY <1>1, ConcatProperties
<1>4. /\ x \in Seq(Cells) /\ Len(x) = IF Len(b) > n THEN n ELSE Len(b)
      /\ \A i \in 1..Len(x) : x[i] = b[Len(b) - Len(x) + i]
  BY <1>3, LastOfIs
<1>5. /\ y \in Seq(Cells) /\ Len(y) = IF Len(c) > n THEN n ELSE Len(c)
      /\ \A i \in 1..Len(y) : y[i] = c[Len(c) - Len(y) + i]
  BY <1>2, LastOfIs
<1> HIDE DEF e, b, c, x, y
<1>a. /\ Len(e) = IF Len(s) > n THEN n ELSE Len(s)
      /\ Len(b) = Len(e) + Len(t) /\ Len(c) = Len(s) + Len(t)
      /\ Len(x) = IF Len(b) > n THEN n ELSE Len(b)
      /\ Len(s) \in Nat /\ Len(t) \in Nat
  BY <1>1, <1>2, <1>3, <1>4
<1>6. Len(x) = Len(y) /\ Len(x) \in Nat
  BY <1>1, <1>2, <1>3, <1>4, <1>5
<1>7. ASSUME NEW i \in 1..Len(x) PROVE x[i] = y[i]
  <2> DEFINE j == Len(b) - Len(x) + i
             k == Len(c) - Len(x) + i
  <2>1. x[i] = b[j] /\ y[i] = c[k]
    BY <1>4, <1>5, <1>6
  <2>2. /\ j \in 1..Len(e) + Len(t) /\ k \in 1..Len(s) + Len(t)
        /\ k - Len(s) = j - Len(e)
    <3>1. i \in Nat \ {0} /\ i <= Len(x) /\ Len(x) <= Len(b) /\ Len(x) <= Len(c)
      BY <1>6, <1>a
    <3>2. j >= 1 /\ j <= Len(b) /\ k >= 1 /\ k <= Len(c) /\ j \in Int /\ k \in Int
      BY <1>6, <1>a, <3>1
    <3>3. /\ Len(e) \in Int /\ Len(t) \in Int /\ Len(s) \in Int /\ Len(x) \in Int
          /\ Len(b) = Len(e) + Len(t) /\ Len(c) = Len(s) + Len(t)
      BY <1>1, <1>6, <1>a
    <3>4. k - Len(s) = j - Len(e)
      BY <3>1, <3>3
    <3>5. QED
      BY <3>2, <3>3, <3>4
  <2> HIDE DEF j, k
  <2>3. CASE j <= Len(e)
    <3>1. j \in 1..Len(e) /\ k <= Len(s) /\ k = Len(s) - Len(e) + j
      <4>1. /\ j \in Int /\ k \in Int /\ 1 <= j /\ k - Len(s) = j - Len(e)
            /\ Len(e) \in Int /\ Len(s) \in Int
        BY <1>1, <2>2
      <4>2. QED
        BY <2>3, <4>1
    <3>2. b[j] = e[j] /\ c[k] = s[k]
      BY <1>2, <1>3, <2>2, <2>3, <3>1
    <3>3. QED
      BY <1>1, <2>1, <3>1, <3>2
  <2>4. CASE ~(j <= Len(e))
    <3>1. ~(k <= Len(s))
      BY <1>1, <2>2, <2>4
    <3>2. QED
      BY <1>2, <1>3, <2>1, <2>2, <2>4, <3>1
  <2>5. QED
    BY <2>3, <2>4
<1>8. x = y
  BY <1>4, <1>5, <1>6, <1>7, SeqEqual
<1>9. QED
  BY <1>8 DEF x, y, b, c, e

\* What a prefix is.
LEMMA PrefixIs ==
    ASSUME NEW s \in Seq(Cells), NEW t \in Seq(Cells)
    PROVE  IsPrefix(s, t) <=> Len(s) <= Len(t) /\ \A i \in 1..Len(s) : s[i] = t[i]
<1>1. Len(s) \in Nat /\ Len(t) \in Nat
  BY LenProperties
<1>2. SubSeq(s, 1, Len(s)) = s
  BY SubSeqFull
<1>3. ASSUME Len(s) <= Len(t)
      PROVE  s = SubSeq(t, 1, Len(s)) <=> \A i \in 1..Len(s) : s[i] = t[i]
  <2> DEFINE u == SubSeq(t, 1, Len(s))
  <2>1. \A i \in 1..Len(s) : t[i] \in Cells
    BY <1>1, <1>3, ElementOfSeq
  <2>2. u \in Seq(Cells) /\ Len(u) = Len(s) /\ \A i \in 1..Len(s) : u[i] = t[i]
    BY <1>1, <2>1, SubSeqProperties
  <2> HIDE DEF u
  <2>3. (\A i \in 1..Len(s) : s[i] = t[i]) => s = u
    <3>1. SUFFICES ASSUME \A i \in 1..Len(s) : s[i] = t[i] PROVE s = u
      OBVIOUS
    <3>2. \A i \in 1..Len(s) : s[i] = u[i]
      BY <2>2, <3>1
    <3>3. QED
      BY <2>2, <3>2, SeqEqual
  <2>4. QED
    BY <2>2, <2>3 DEF u
<1>4. QED
  BY <1>1, <1>2, <1>3 DEF IsPrefix

-----------------------------------------------------------------------------
(* Where the marker is                                                     *)

Found(s) == Occurs(Marker, s)

\* Where the marker occurs ...
LEMMA OccursIs ==
    ASSUME NEW s \in Seq(Cells)
    PROVE  Found(s) = {i \in Nat : i + 2 <= Len(s) /\ s[i + 1] = "tag" /\ s[i + 2] = "dir"}
<1>1. Len(Marker) = 2 /\ Marker[1] = "tag" /\ Marker[2] = "dir" /\ Marker \in Seq(Cells)
  BY DEF Marker, Cells
<1>2. Len(s) \in Nat
  BY LenProperties
<1>3. ASSUME NEW i \in 0..Len(s) - 2
      PROVE  SubSeq(s, i + 1, i + 2) = Marker <=> s[i + 1] = "tag" /\ s[i + 2] = "dir"
  <2>1. i + 1 \in Int /\ i + 2 \in Int /\ \A j \in i + 1..i + 2 : s[j] \in Cells
    BY <1>2, ElementOfSeq
  <2> DEFINE u == SubSeq(s, i + 1, i + 2)
  <2>2. /\ u \in Seq(Cells) /\ Len(u) = IF i + 1 <= i + 2 THEN i + 2 - (i + 1) + 1 ELSE 0
        /\ \A j \in 1..i + 2 - (i + 1) + 1 : u[j] = s[i + 1 + j - 1]
    BY <2>1, SubSeqProperties
  <2>3. Len(u) = 2 /\ u[1] = s[i + 1] /\ u[2] = s[i + 2]
    BY <2>2
  <2> HIDE DEF u
  <2>4. u = Marker => s[i + 1] = "tag" /\ s[i + 2] = "dir"
    BY <1>1, <2>3
  <2>5. ASSUME s[i + 1] = "tag", s[i + 2] = "dir" PROVE u = Marker
    <3>1. Len(u) = Len(Marker) /\ \A j \in 1..Len(u) : u[j] = Marker[j]
      BY <1>1, <2>3, <2>5
    <3>2. QED
      BY <1>1, <2>2, <3>1, SeqEqual
  <2>6. QED
    BY <2>4, <2>5 DEF u
<1>4. Found(s) = {i \in 0..Len(s) - 2 : SubSeq(s, i + 1, i + 2) = Marker}
  BY <1>1 DEF Found, Occurs
<1>5. ASSUME NEW i \in Nat, i + 2 <= Len(s) PROVE i \in 0..Len(s) - 2
  BY <1>2, <1>5
<1>6. ASSUME NEW i \in 0..Len(s) - 2 PROVE i \in Nat /\ i + 2 <= Len(s)
  BY <1>2
<1>7. QED
  BY <1>3, <1>4, <1>5, <1>6

\* ... and the first time, and what comes after it.
LEMMA AfterIs ==
    ASSUME NEW s \in Seq(Cells), Found(s) # {}
    PROVE  /\ Min(Found(s)) \in Found(s) /\ \A i \in Found(s) : Min(Found(s)) <= i
           /\ Min(Found(s)) \in Nat /\ Min(Found(s)) + 2 <= Len(s)
           /\ After(s, Marker) \in Seq(Cells)
           /\ Len(After(s, Marker)) = Len(s) - Min(Found(s)) - 2
           /\ \A i \in 1..Len(After(s, Marker)) :
                After(s, Marker)[i] = s[Min(Found(s)) + 2 + i]
<1>1. Found(s) \in SUBSET Nat /\ \A i \in Found(s) : i + 2 <= Len(s)
  BY OccursIs
<1>2. Min(Found(s)) \in Found(s) /\ \A i \in Found(s) : Min(Found(s)) <= i
  BY <1>1, MinIs
<1> DEFINE m == Min(Found(s))
           l == m + 3
<1>3. m \in Nat /\ m + 2 <= Len(s) /\ l \in Int /\ Len(s) \in Nat
  BY <1>1, <1>2, LenProperties
<1>4. After(s, Marker) = SubSeq(s, l, Len(s))
  <2>1. Len(Marker) = 2
    BY DEF Marker
  <2>2. m + 2 + 1 = l
    BY <1>3
  <2>3. QED
    BY <2>1, <2>2 DEF After, Found
<1> HIDE DEF m
<1>5. \A i \in l..Len(s) : s[i] \in Cells
  BY <1>3, ElementOfSeq
<1>6. /\ SubSeq(s, l, Len(s)) \in Seq(Cells)
      /\ Len(SubSeq(s, l, Len(s))) = IF l <= Len(s) THEN Len(s) - l + 1 ELSE 0
      /\ \A i \in 1..Len(s) - l + 1 : SubSeq(s, l, Len(s))[i] = s[l + i - 1]
  BY <1>3, <1>5, SubSeqProperties
<1>7. Len(SubSeq(s, l, Len(s))) = Len(s) - m - 2 /\ Len(s) - l + 1 = Len(s) - m - 2
  BY <1>3, <1>6
<1>8. ASSUME NEW i \in 1..Len(s) - m - 2 PROVE SubSeq(s, l, Len(s))[i] = s[m + 2 + i]
  <2>1. l + i - 1 = m + 2 + i
    BY <1>3
  <2>2. QED
    BY <1>6, <1>7, <2>1
<1>9. QED
  BY <1>2, <1>3, <1>4, <1>6, <1>7, <1>8 DEF m

\* s is the end of t from k on.
EndFrom(s, t, k) ==
    /\ k \in 0..Len(t) /\ Len(s) = Len(t) - k
    /\ \A i \in 1..Len(s) : s[i] = t[k + i]

\* The marker is found in the end of the output, if it begins in it, and so is what
\* comes after it.
LEMMA FoundInEnd ==
    ASSUME NEW s \in Seq(Cells), NEW t \in Seq(Cells), NEW k \in Nat, EndFrom(s, t, k),
           \A i \in Found(t) : i >= k
    PROVE  /\ Found(s) = {} <=> Found(t) = {}
           /\ Found(s) # {} => After(s, Marker) = After(t, Marker)
<1>1. /\ Len(s) \in Nat /\ Len(t) \in Nat /\ Len(s) = Len(t) - k
      /\ \A i \in 1..Len(s) : s[i] = t[k + i]
  BY LenProperties DEF EndFrom
<1>2. ASSUME NEW i \in Found(s) PROVE i + k \in Found(t)
  <2>1. i \in Nat /\ i + 2 <= Len(s) /\ s[i + 1] = "tag" /\ s[i + 2] = "dir"
    BY OccursIs
  <2>2. s[i + 1] = t[k + (i + 1)] /\ s[i + 2] = t[k + (i + 2)]
    <3>1. i + 1 \in 1..Len(s) /\ i + 2 \in 1..Len(s)
      BY <1>1, <2>1
    <3>2. QED
      BY <1>1, <3>1, Zenon
  <2>3. k + (i + 1) = i + k + 1 /\ k + (i + 2) = i + k + 2 /\ i + k + 2 <= Len(t)
    BY <1>1, <2>1
  <2>4. QED
    BY <2>1, <2>2, <2>3, OccursIs
<1>3. ASSUME NEW i \in Found(t) PROVE i - k \in Found(s)
  <2>1. i \in Nat /\ i + 2 <= Len(t) /\ t[i + 1] = "tag" /\ t[i + 2] = "dir" /\ i >= k
    BY OccursIs
  <2>2. i - k \in Nat /\ i - k + 1 \in 1..Len(s) /\ i - k + 2 \in 1..Len(s)
    BY <1>1, <2>1
  <2>3. k + (i - k + 1) = i + 1 /\ k + (i - k + 2) = i + 2 /\ i - k + 2 <= Len(s)
    BY <1>1, <2>1
  <2>4. s[i - k + 1] = t[i + 1] /\ s[i - k + 2] = t[i + 2]
    BY <1>1, <2>2, <2>3
  <2>5. QED
    BY <2>1, <2>2, <2>3, <2>4, OccursIs
<1>4. ASSUME Found(s) # {} PROVE After(s, Marker) = After(t, Marker)
  <2>1. Found(t) # {}
    BY <1>2, <1>4
  <2> DEFINE m == Min(Found(s))
             n == Min(Found(t))
             a == After(s, Marker)
             b == After(t, Marker)
  <2>2. /\ m \in Found(s) /\ m \in Nat /\ m + 2 <= Len(s) /\ \A i \in Found(s) : m <= i
        /\ a \in Seq(Cells) /\ Len(a) = Len(s) - m - 2
        /\ \A i \in 1..Len(a) : a[i] = s[m + 2 + i]
    BY <1>4, AfterIs
  <2>3. /\ n \in Found(t) /\ n \in Nat /\ n + 2 <= Len(t) /\ \A i \in Found(t) : n <= i
        /\ b \in Seq(Cells) /\ Len(b) = Len(t) - n - 2
        /\ \A i \in 1..Len(b) : b[i] = t[n + 2 + i]
    BY <2>1, AfterIs
  <2> HIDE DEF m, n, a, b
  <2>4. m + k \in Found(t) /\ n - k \in Found(s)
    BY <1>2, <1>3, <2>2, <2>3
  <2>5. n = m + k
    <3>1. n <= m + k /\ m <= n - k
      BY <2>2, <2>3, <2>4
    <3>2. m \in Nat /\ n \in Nat
      BY <2>2, <2>3
    <3>3. QED
      BY <3>1, <3>2
  <2>6. Len(a) = Len(b)
    BY <1>1, <2>2, <2>3, <2>5
  <2>7. ASSUME NEW i \in 1..Len(a) PROVE a[i] = b[i]
    <3>1. m + 2 + i \in 1..Len(s) /\ k + (m + 2 + i) = n + 2 + i
      BY <1>1, <2>2, <2>5
    <3>2. s[m + 2 + i] = t[n + 2 + i]
      <4>1. s[m + 2 + i] = t[k + (m + 2 + i)]
        BY <1>1, <3>1, Zenon
      <4>2. QED
        BY <3>1, <4>1
    <3>3. QED
      BY <2>2, <2>3, <2>6, <3>2
  <2>8. a = b
    BY <2>2, <2>3, <2>6, <2>7, SeqEqual
  <2>9. QED
    BY <2>8 DEF a, b
<1>5. QED
  BY <1>2, <1>3, <1>4

\* More output moves no marker, and adds to what comes after the first.
LEMMA FoundInMore ==
    ASSUME NEW s \in Seq(Cells), NEW t \in Seq(Cells)
    PROVE  /\ Found(s) \subseteq Found(s \o t)
           /\ \A i \in Found(s \o t) : i \in Found(s) \/ i + 2 > Len(s)
           /\ Found(s) # {} => /\ Found(s \o t) # {}
                               /\ After(s \o t, Marker) = After(s, Marker) \o t
<1> DEFINE c == s \o t
<1>1. /\ c \in Seq(Cells) /\ Len(c) = Len(s) + Len(t)
      /\ Len(s) \in Nat /\ Len(t) \in Nat /\ \A i \in 1..Len(s) : c[i] = s[i]
  BY ConcatProperties, LenProperties
<1>a. \A i \in 1..Len(s) + Len(t) : c[i] = IF i <= Len(s) THEN s[i] ELSE t[i - Len(s)]
  BY ConcatProperties
<1> HIDE DEF c
<1>2. ASSUME NEW i \in Nat, i + 2 <= Len(s) PROVE i \in Found(s) <=> i \in Found(c)
  <2>1. c[i + 1] = s[i + 1] /\ c[i + 2] = s[i + 2] /\ i + 2 <= Len(c)
    BY <1>1, <1>2
  <2>2. QED
    BY <1>1, <1>2, <2>1, OccursIs
<1>3. \A i \in Found(s) : i \in Nat /\ i + 2 <= Len(s)
  BY OccursIs
<1>4. \A i \in Found(c) : i \in Nat
  BY <1>1, OccursIs
<1>5. \A i \in Found(c) : i \in Found(s) \/ i + 2 > Len(s)
  BY <1>1, <1>2, <1>4
<1>6. Found(s) \subseteq Found(c)
  BY <1>2, <1>3
<1>7. ASSUME Found(s) # {} PROVE After(c, Marker) = After(s, Marker) \o t
  <2>1. Found(c) # {}
    BY <1>6, <1>7
  <2> DEFINE m == Min(Found(s))
             n == Min(Found(c))
             a == After(s, Marker)
             b == After(c, Marker)
  <2>2. /\ m \in Found(s) /\ m \in Nat /\ m + 2 <= Len(s) /\ \A i \in Found(s) : m <= i
        /\ a \in Seq(Cells) /\ Len(a) = Len(s) - m - 2
        /\ \A i \in 1..Len(a) : a[i] = s[m + 2 + i]
    BY <1>7, AfterIs
  <2>3. /\ n \in Found(c) /\ n \in Nat /\ n + 2 <= Len(c) /\ \A i \in Found(c) : n <= i
        /\ b \in Seq(Cells) /\ Len(b) = Len(c) - n - 2
        /\ \A i \in 1..Len(b) : b[i] = c[n + 2 + i]
    BY <1>1, <2>1, AfterIs
  <2> HIDE DEF m, n, a, b
  <2>4. n = m
    <3>1. n <= m
      BY <1>6, <2>2, <2>3
    <3>2. n + 2 <= Len(s)
      BY <1>1, <2>2, <2>3, <3>1
    <3>3. n \in Found(s)
      BY <1>2, <2>3, <3>2
    <3>4. QED
      BY <2>2, <2>3, <3>1, <3>3
  <2>5. /\ a \o t \in Seq(Cells) /\ Len(a \o t) = Len(a) + Len(t)
        /\ \A i \in 1..Len(a) + Len(t) :
             (a \o t)[i] = IF i <= Len(a) THEN a[i] ELSE t[i - Len(a)]
    BY <2>2, ConcatProperties
  <2>6. Len(a) \in Nat /\ Len(b) = Len(a) + Len(t) /\ Len(s) = m + 2 + Len(a)
    BY <1>1, <2>2, <2>3, <2>4, LenProperties
  <2>7. ASSUME NEW i \in 1..Len(b) PROVE b[i] = (a \o t)[i]
    <3>1. i \in 1..Len(a) + Len(t) /\ b[i] = c[m + 2 + i] /\ m + 2 + i \in 1..Len(s) + Len(t)
      BY <1>1, <2>2, <2>3, <2>4, <2>6
    <3>2. CASE i <= Len(a)
      <4>1. i \in 1..Len(a) /\ m + 2 + i \in 1..Len(s)
        BY <2>2, <2>6, <3>1, <3>2
      <4>2. c[m + 2 + i] = s[m + 2 + i] /\ a[i] = s[m + 2 + i]
        BY <1>1, <2>2, <4>1
      <4>3. (a \o t)[i] = a[i]
        BY <2>5, <3>1, <3>2
      <4>4. QED
        BY <3>1, <4>2, <4>3
    <3>3. CASE ~(i <= Len(a))
      <4>1. ~(m + 2 + i <= Len(s)) /\ (m + 2 + i) - Len(s) = i - Len(a)
        BY <2>2, <2>6, <3>1, <3>3
      <4>2. c[m + 2 + i] = t[(m + 2 + i) - Len(s)]
        BY <1>a, <3>1, <4>1
      <4>3. (a \o t)[i] = t[i - Len(a)]
        BY <2>5, <3>1, <3>3
      <4>4. QED
        BY <3>1, <4>1, <4>2, <4>3
    <3>4. QED
      BY <3>2, <3>3
  <2>8. b = a \o t
    BY <2>3, <2>5, <2>6, <2>7, SeqEqual
  <2>9. QED
    BY <2>8 DEF a, b
<1>8. QED
  BY <1>5, <1>6, <1>7 DEF c

-----------------------------------------------------------------------------
(* Each chunk                                                              *)

\* The part that was searched is the end of the output, and holds the beginning of
\* a marker that is not complete.
Searching ==
    /\ Found(output) = {}
    /\ \E k \in 0..Len(output) : EndFrom(searched, output, k) /\ (k = 0 \/ searched # <<>>)

\* The marker was not found yet and cannot be missed, or all that came after it is
\* kept.
SearchInv ==
    IF rest = NotFound THEN Searching
    ELSE Found(output) # {} /\ rest = After(output, Marker)

\* The end of an end is an end.
LEMMA EndOfEnd ==
    ASSUME NEW s \in Seq(Cells), NEW t \in Seq(Cells), NEW k \in Nat, EndFrom(s, t, k),
           NEW n \in Nat
    PROVE  \E j \in 0..Len(t) : EndFrom(LastOf(s, n), t, j)
<1> DEFINE e == LastOf(s, n)
           d == Len(s) - Len(e)
<1>1. /\ k <= Len(t) /\ Len(s) = Len(t) - k /\ Len(t) \in Nat /\ Len(s) \in Nat
      /\ \A i \in 1..Len(s) : s[i] = t[k + i]
  BY LenProperties DEF EndFrom
<1>2. /\ Len(e) = IF Len(s) > n THEN n ELSE Len(s)
      /\ \A i \in 1..Len(e) : e[i] = s[d + i]
  BY LastOfIs
<1> HIDE DEF e
<1>3. Len(e) \in Nat /\ Len(e) <= Len(s) /\ d \in Nat /\ k + d <= Len(t)
  BY <1>1, <1>2
<1>4. k + d \in 0..Len(t) /\ Len(e) = Len(t) - (k + d)
  BY <1>1, <1>3
<1>5. ASSUME NEW i \in 1..Len(e) PROVE e[i] = t[(k + d) + i]
  <2>1. d + i \in 1..Len(s) /\ k + (d + i) = (k + d) + i
    BY <1>1, <1>3
  <2>2. QED
    BY <1>1, <1>2, <2>1
<1>6. EndFrom(e, t, k + d)
  BY <1>4, <1>5 DEF EndFrom
<1>7. QED
  BY <1>4, <1>6 DEF e

\* A search goes on with more output.
LEMMA EndGrows ==
    ASSUME NEW s \in Seq(Cells), NEW t \in Seq(Cells), NEW u \in Seq(Cells),
           NEW k \in Nat, EndFrom(s, t, k)
    PROVE  EndFrom(s \o u, t \o u, k)
<1>1. /\ k <= Len(t) /\ Len(s) = Len(t) - k
      /\ Len(s) \in Nat /\ Len(t) \in Nat /\ Len(u) \in Nat
      /\ \A i \in 1..Len(s) : s[i] = t[k + i]
  BY LenProperties DEF EndFrom
<1>2. /\ Len(s \o u) = Len(s) + Len(u)
      /\ \A i \in 1..Len(s) + Len(u) : (s \o u)[i] = IF i <= Len(s) THEN s[i] ELSE u[i - Len(s)]
      /\ Len(t \o u) = Len(t) + Len(u)
      /\ \A i \in 1..Len(t) + Len(u) : (t \o u)[i] = IF i <= Len(t) THEN t[i] ELSE u[i - Len(t)]
  BY ConcatProperties
<1>3. ASSUME NEW i \in 1..Len(s) + Len(u) PROVE (s \o u)[i] = (t \o u)[k + i]
  <2>1. k + i \in 1..Len(t) + Len(u)
    BY <1>1
  <2>2. CASE i <= Len(s)
    <3>1. i \in 1..Len(s) /\ k + i <= Len(t)
      BY <1>1, <2>2
    <3>2. (s \o u)[i] = s[i] /\ (t \o u)[k + i] = t[k + i]
      BY <1>2, <2>1, <2>2, <3>1
    <3>3. QED
      BY <1>1, <3>1, <3>2
  <2>3. CASE ~(i <= Len(s))
    <3>1. ~(k + i <= Len(t)) /\ i - Len(s) = k + i - Len(t)
      BY <1>1, <2>3
    <3>2. (s \o u)[i] = u[i - Len(s)] /\ (t \o u)[k + i] = u[k + i - Len(t)]
      BY <1>2, <2>1, <2>3, <3>1
    <3>3. QED
      BY <3>1, <3>2
  <2>4. QED
    BY <2>2, <2>3
<1>4. k \in 0..Len(t \o u) /\ Len(s \o u) = Len(t \o u) - k
  BY <1>1, <1>2
<1>5. QED
  BY <1>2, <1>3, <1>4 DEF EndFrom

\* One round of the search.
LEMMA SearchStep ==
    ASSUME MaxSearched \in Nat, TypeOK, SearchInv,
           NEW chunk \in Seq(Cells), Len(chunk) \in Nat \ {0},
           output' = output \o chunk, Search(chunk)
    PROVE  SearchInv' /\ searched' \in Seq(Cells) /\ rest' \in Seq(Cells) \union {NotFound}
<1>1. /\ output \in Seq(Cells) /\ searched \in Seq(Cells)
      /\ rest \in Seq(Cells) \union {NotFound}
  BY DEF TypeOK
<1> DEFINE all == searched \o chunk
           new == output \o chunk
<1>2. /\ all \in Seq(Cells) /\ Len(all) = Len(searched) + Len(chunk)
      /\ new \in Seq(Cells) /\ Len(new) = Len(output) + Len(chunk)
      /\ Len(output) \in Nat /\ Len(searched) \in Nat
  BY <1>1, ConcatProperties, LenProperties
<1>3. ASSUME NEW s \in Seq(Cells) PROVE s # NotFound
  <2>1. NotFound[1] \notin Cells /\ Len(NotFound) = 1
    BY DEF NotFound, Cells
  <2>2. \A i \in 1..Len(s) : s[i] \in Cells
    BY ElementOfSeq
  <2>3. 1 \in 1..1
    OBVIOUS
  <2>4. QED
    BY <2>1, <2>2, <2>3
<1>4. CASE rest # NotFound
  <2>1. searched' = searched /\ rest' = rest \o chunk
    BY <1>4 DEF Search
  <2>2. Found(output) # {} /\ rest = After(output, Marker)
    BY <1>4 DEF SearchInv
  <2>3. Found(new) # {} /\ After(new, Marker) = After(output, Marker) \o chunk
    BY <1>1, <2>2, FoundInMore
  <2>4. After(new, Marker) \in Seq(Cells)
    BY <1>2, <2>3, AfterIs
  <2>5. rest' = After(new, Marker)
    BY <2>1, <2>2, <2>3
  <2>6. rest' \in Seq(Cells) /\ rest' # NotFound
    BY <1>3, <2>4, <2>5
  <2>7. output' = new
    OBVIOUS
  <2> HIDE DEF new
  <2>8. SearchInv'
    BY <2>3, <2>5, <2>6, <2>7 DEF SearchInv, Found
  <2>9. QED
    BY <1>1, <2>1, <2>6, <2>8
<1>5. CASE rest = NotFound
  <2>1. /\ Found(output) = {}
        /\ \E k \in 0..Len(output) :
             EndFrom(searched, output, k) /\ (k = 0 \/ searched # <<>>)
    BY <1>5 DEF SearchInv, Searching
  <2>2. PICK k \in 0..Len(output) :
          EndFrom(searched, output, k) /\ (k = 0 \/ searched # <<>>)
    BY <2>1
  <2>3. k \in Nat /\ Len(searched) = Len(output) - k
    BY <1>2, <2>2 DEF EndFrom
  <2>4. EndFrom(all, new, k)
    BY <1>1, <2>2, <2>3, EndGrows
  <2>5. \A i \in Found(new) : i >= k
    <3>1. \A i \in Found(new) : i + 2 > Len(output) /\ i \in Nat
      BY <1>1, <1>2, <2>1, FoundInMore, OccursIs
    <3>2. k = 0 \/ Len(searched) >= 1
      BY <1>1, <1>2, <2>2, EmptySeq
    <3>3. QED
      BY <1>2, <2>3, <3>1, <3>2
  <2>6. /\ Found(all) = {} <=> Found(new) = {}
        /\ Found(all) # {} => After(all, Marker) = After(new, Marker)
    BY <1>2, <2>3, <2>4, <2>5, FoundInEnd
  <2>7. output' = new
    OBVIOUS
  <2>8. CASE Found(all) # {}
    <3>1. rest' = After(all, Marker) /\ searched' = all
      BY <1>5, <2>8 DEF Search, Found
    <3>2. rest' = After(new, Marker) /\ rest' \in Seq(Cells)
      BY <1>2, <2>6, <2>8, <3>1, AfterIs
    <3>3. rest' # NotFound
      BY <1>3, <3>2
    <3> HIDE DEF all, new
    <3>4. SearchInv'
      BY <2>6, <2>7, <2>8, <3>2, <3>3 DEF SearchInv, Found
    <3>5. QED
      BY <1>2, <3>1, <3>2, <3>4
  <2>9. CASE Found(all) = {}
    <3>1. /\ searched' = IF Len(all) > MaxSearched THEN LastOf(all, 2) ELSE all
          /\ rest' = rest
      BY <1>5, <2>9 DEF Search, Found, Marker
    <3>2. searched' \in Seq(Cells) /\ searched' # <<>>
      <4>1. all # <<>>
        BY <1>2, EmptySeq
      <4>2. LastOf(all, 2) \in Seq(Cells) /\ LastOf(all, 2) # <<>>
        <5>1. LastOf(all, 2) \in Seq(Cells) /\ Len(LastOf(all, 2)) >= 1
          <6>1. /\ LastOf(all, 2) \in Seq(Cells)
                /\ Len(LastOf(all, 2)) = IF Len(all) > 2 THEN 2 ELSE Len(all)
            BY <1>2, LastOfIs
          <6>2. Len(all) \in Nat /\ Len(all) >= 1
            BY <1>2
          <6>3. CASE Len(all) > 2
            <7>1. Len(LastOf(all, 2)) = 2
              BY <6>1, <6>3
            <7>2. 2 >= 1
              OBVIOUS
            <7>3. QED
              BY <6>1, <7>1, <7>2, Zenon
          <6>4. CASE ~(Len(all) > 2)
            <7>1. Len(LastOf(all, 2)) = Len(all)
              BY <6>1, <6>4
            <7>2. QED
              BY <6>1, <6>2, <7>1
          <6>5. QED
            BY <6>3, <6>4
        <5>2. Len(<<>>) = 0
          OBVIOUS
        <5>3. QED
          BY <5>1, <5>2
      <4>3. QED
        BY <1>2, <3>1, <4>1, <4>2
    <3>3. \E j \in 0..Len(new) : EndFrom(searched', new, j)
      <4>1. \E j \in 0..Len(new) : EndFrom(LastOf(all, 2), new, j)
        BY <1>2, <2>3, <2>4, EndOfEnd
      <4>2. k \in 0..Len(new)
        BY <1>2, <2>3, <2>4 DEF EndFrom
      <4>3. QED
        BY <2>4, <3>1, <4>1, <4>2
    <3> HIDE DEF all, new
    <3>4. Searching'
      BY <2>6, <2>7, <2>9, <3>2, <3>3 DEF Searching, Found, EndFrom
    <3>5. QED
      BY <1>1, <1>5, <3>1, <3>2, <3>4 DEF SearchInv, NotFound
  <2>10. QED
    BY <2>8, <2>9
<1>6. QED
  BY <1>4, <1>5

-----------------------------------------------------------------------------
(* The line with exit code and directory                                   *)

\* What a suffix is.
LEMMA SuffixIs ==
    ASSUME NEW s \in Seq(Cells), NEW t \in Seq(Cells)
    PROVE  IsSuffix(s, t) <=>
             Len(s) <= Len(t) /\ \A i \in 1..Len(s) : s[i] = t[Len(t) - Len(s) + i]
<1> DEFINE u == Reverse(s)
           v == Reverse(t)
<1>1. Len(s) \in Nat /\ Len(t) \in Nat
  BY LenProperties
<1>2. /\ u \in Seq(Cells) /\ Len(u) = Len(s)
      /\ \A i \in 1..Len(s) : u[i] = s[Len(s) - i + 1]
  <2>1. \A i \in 1..Len(s) : Len(s) - i + 1 \in 1..Len(s)
    BY <1>1
  <2>2. \A i \in 1..Len(s) : s[Len(s) - i + 1] \in Cells
    BY <2>1, ElementOfSeq
  <2>3. QED
    BY <1>1, <2>2 DEF Reverse
<1>3. /\ v \in Seq(Cells) /\ Len(v) = Len(t)
      /\ \A i \in 1..Len(t) : v[i] = t[Len(t) - i + 1]
  <2>1. \A i \in 1..Len(t) : Len(t) - i + 1 \in 1..Len(t)
    BY <1>1
  <2>2. \A i \in 1..Len(t) : t[Len(t) - i + 1] \in Cells
    BY <2>1, ElementOfSeq
  <2>3. QED
    BY <1>1, <2>2 DEF Reverse
<1>4. IsSuffix(s, t) = IsPrefix(u, v)
  BY DEF IsSuffix
<1> HIDE DEF u, v
<1>5. IsPrefix(u, v) <=> Len(s) <= Len(t) /\ \A i \in 1..Len(s) : u[i] = v[i]
  BY <1>2, <1>3, PrefixIs
<1>6. ASSUME Len(s) <= Len(t), NEW i \in 1..Len(s)
      PROVE  /\ Len(s) - i + 1 \in 1..Len(s)
             /\ u[Len(s) - i + 1] = s[i]
             /\ v[Len(s) - i + 1] = t[Len(t) - Len(s) + i]
  <2> DEFINE j == Len(s) - i + 1
  <2>1. /\ j \in 1..Len(s) /\ j \in 1..Len(t)
        /\ Len(s) - j + 1 = i /\ Len(t) - j + 1 = Len(t) - Len(s) + i
    BY <1>1, <1>6
  <2> HIDE DEF j
  <2>2. u[j] = s[i] /\ v[j] = t[Len(t) - Len(s) + i]
    BY <1>2, <1>3, <2>1
  <2>3. QED
    BY <2>1, <2>2 DEF j
<1>7. ASSUME Len(s) <= Len(t), \A i \in 1..Len(s) : u[i] = v[i]
      PROVE  \A i \in 1..Len(s) : s[i] = t[Len(t) - Len(s) + i]
  BY <1>6, <1>7
<1>8. ASSUME Len(s) <= Len(t), \A i \in 1..Len(s) : s[i] = t[Len(t) - Len(s) + i],
             NEW i \in 1..Len(s)
      PROVE  u[i] = v[i]
  <2>1. Len(s) - i + 1 \in 1..Len(s) /\ Len(s) - (Len(s) - i + 1) + 1 = i
    BY <1>1
  <2>2. QED
    BY <1>6, <1>8, <2>1
<1>9. QED
  BY <1>4, <1>5, <1>7, <1>8

LEMMA SuffixOf ==
    ASSUME NEW s \in Seq(Cells), NEW t \in Seq(Cells), NEW k \in Nat, NEW n \in Nat,
           Len(s) = k, Len(t) = n
    PROVE  IsSuffix(s, t) <=> k <= n /\ \A i \in 1..k : s[i] = t[n - k + i]
BY SuffixIs

\* What is left when the line ends at the end are taken off ...
LEMMA TrimmedIsIt ==
    ASSUME NEW s \in Seq(Cells), NEW m \in 0..Len(s),
           \A j \in m + 1..Len(s) : s[j] = "\n", m = 0 \/ s[m] # "\n"
    PROVE  Trimmed(s) = FirstOf(s, m)
<1> DEFINE Z == {i \in 0..Len(s) : \A j \in i + 1..Len(s) : s[j] = "\n"}
<1>1. Len(s) \in Nat /\ m \in Nat
  BY LenProperties
<1>2. Z \in SUBSET Nat /\ m \in Z
  OBVIOUS
<1>3. ASSUME NEW i \in Z PROVE m <= i
  <2>1. SUFFICES ASSUME ~(m <= i) PROVE FALSE
    OBVIOUS
  <2>2. m \in i + 1..Len(s) /\ m # 0
    BY <1>1, <2>1
  <2>3. QED
    BY <2>2
<1>4. Min(Z) = m
  BY <1>2, <1>3, MinIsIt
<1>5. QED
  BY <1>4 DEF Trimmed

\* ... and that something is.
LEMMA TrimmedIs ==
    ASSUME NEW s \in Seq(Cells)
    PROVE  \E m \in 0..Len(s) :
             /\ Trimmed(s) = FirstOf(s, m)
             /\ \A j \in m + 1..Len(s) : s[j] = "\n"
             /\ m = 0 \/ s[m] # "\n"
<1> DEFINE Z == {i \in 0..Len(s) : \A j \in i + 1..Len(s) : s[j] = "\n"}
<1>1. Len(s) \in Nat
  BY LenProperties
<1>2. Z \in SUBSET Nat /\ Len(s) \in Z
  BY <1>1
<1>3. Min(Z) \in Z /\ \A i \in Z : Min(Z) <= i
  BY <1>2, MinIs
<1>4. Trimmed(s) = FirstOf(s, Min(Z))
  BY DEF Trimmed
<1> DEFINE m == Min(Z)
<1>5. ASSUME m # 0, s[m] = "\n" PROVE FALSE
  <2>1. m \in 0..Len(s) /\ \A j \in m + 1..Len(s) : s[j] = "\n"
    BY <1>3
  <2>2. \A i \in Z : m <= i
    BY <1>3
  <2> HIDE DEF m
  <2>3. m - 1 \in 0..Len(s) /\ \A j \in m - 1 + 1..Len(s) : j = m \/ j \in m + 1..Len(s)
    BY <1>1, <1>5, <2>1
  <2>4. \A j \in m - 1 + 1..Len(s) : s[j] = "\n"
    BY <1>5, <2>1, <2>3
  <2>5. m - 1 \in Z
    BY <2>3, <2>4
  <2>6. m <= m - 1
    BY <2>2, <2>5
  <2>7. QED
    BY <2>1, <2>6
<1>6. QED
  BY <1>3, <1>4, <1>5

\* The line of the script is found when it is the last.
LEMMA ParseFinds ==
    ASSUME NEW s \in Seq(Cells), NEW l \in Nat, l = Len(s), l >= 4, s[l] = "\n",
           s[l - 1] = "dir", s[l - 2] = "tag", s[l - 3] = "\n"
    PROVE  Parse(s) = <<"dir">>
<1> DEFINE t == FirstOf(s, l - 1)
           tags == {i \in DOMAIN t : t[i] = "tag"}
           lines == {0} \union {i \in DOMAIN t : t[i] = "\n"}
<1>1. l - 1 \in 0..Len(s) /\ l - 1 \in Nat /\ l - 1 # 0 /\ l - 1 + 1 = l
  OBVIOUS
<1>2. Trimmed(s) = t
  <2>1. \A j \in l - 1 + 1..Len(s) : s[j] = "\n"
    OBVIOUS
  <2>2. s[l - 1] # "\n"
    OBVIOUS
  <2>3. QED
    BY <1>1, <2>1, <2>2, TrimmedIsIt, Zenon
<1>3. t \in Seq(Cells) /\ Len(t) = l - 1 /\ \A i \in 1..l - 1 : t[i] = s[i]
  BY <1>1, FirstOfIs
<1>4. DOMAIN t = 1..l - 1
  BY <1>3, LenProperties
<1> HIDE DEF t
<1>5. t[l - 1] = "dir" /\ t[l - 2] = "tag" /\ t[l - 3] = "\n"
  BY <1>3
<1>6. /\ tags \in SUBSET (0..l) /\ l - 2 \in tags
      /\ lines \in SUBSET (0..l) /\ l - 3 \in lines
  BY <1>4, <1>5
<1>7. \A i \in tags : i <= l - 2
  BY <1>4, <1>5
<1>8. \A i \in lines : i <= l - 3
  BY <1>4, <1>5
<1>9. Max(tags) = l - 2
  BY <1>6, <1>7, MaxIsIt
<1>10. Max(lines) = l - 3
  BY <1>6, <1>8, MaxIsIt
<1>11. SubSeq(t, l - 1, l - 1) = <<"dir">>
  <2> DEFINE u == SubSeq(t, l - 1, l - 1)
  <2>1. l - 1 \in Int /\ \A i \in l - 1..l - 1 : t[i] \in Cells
    BY <1>5 DEF Cells
  <2>2. /\ u \in Seq(Cells) /\ Len(u) = IF l - 1 <= l - 1 THEN l - 1 - (l - 1) + 1 ELSE 0
        /\ \A i \in 1..l - 1 - (l - 1) + 1 : u[i] = t[l - 1 + i - 1]
    BY <2>1, SubSeqProperties
  <2>3. Len(u) = 1 /\ u[1] = "dir"
    BY <1>5, <2>2
  <2> HIDE DEF u
  <2>4. <<"dir">> \in Seq(Cells) /\ Len(<<"dir">>) = 1 /\ <<"dir">>[1] = "dir"
    BY DEF Cells
  <2>5. u = <<"dir">>
    BY <2>2, <2>3, <2>4, SeqEqual
  <2>6. QED
    BY <2>5 DEF u
<1>12. l - 2 = l - 3 + 1 /\ l - 2 + 1 = l - 1
  OBVIOUS
<1>13. /\ tags # {} /\ Max(tags) = Max(lines) + 1
       /\ SubSeq(t, Max(tags) + 1, Len(t)) = <<"dir">>
  BY <1>3, <1>6, <1>9, <1>10, <1>11, <1>12
<1>14. QED
  BY <1>2, <1>13 DEF Parse

\* What is found is all that follows a tag at the beginning of the last line.
LEMMA ParseSays ==
    ASSUME NEW s \in Seq(Cells), Parse(s) # NotFound
    PROVE  \E m \in 1..Len(s) : \E p \in 1..m :
             /\ Trimmed(s) = FirstOf(s, m) /\ s[m] # "\n"
             /\ \A j \in m + 1..Len(s) : s[j] = "\n"
             /\ s[p] = "tag" /\ (p = 1 \/ s[p - 1] = "\n")
             /\ \A i \in p + 1..m : s[i] # "\n"
             /\ Parse(s) \in Seq(Cells) /\ Len(Parse(s)) = m - p
             /\ \A i \in 1..m - p : Parse(s)[i] = s[p + i]
<1>1. PICK m \in 0..Len(s) :
        /\ Trimmed(s) = FirstOf(s, m) /\ \A j \in m + 1..Len(s) : s[j] = "\n"
        /\ m = 0 \/ s[m] # "\n"
  BY TrimmedIs
<1> DEFINE t == FirstOf(s, m)
           tags == {i \in DOMAIN t : t[i] = "tag"}
           lines == {0} \union {i \in DOMAIN t : t[i] = "\n"}
<1>2. Len(s) \in Nat /\ m \in Nat
  BY LenProperties
<1>3. t \in Seq(Cells) /\ Len(t) = m /\ \A i \in 1..m : t[i] = s[i]
  BY <1>2, FirstOfIs
<1>4. DOMAIN t = 1..m
  BY <1>3, LenProperties
<1>5. /\ tags # {} /\ Max(tags) = Max(lines) + 1
      /\ Parse(s) = SubSeq(t, Max(tags) + 1, m)
  BY <1>1, <1>3 DEF Parse
<1> HIDE DEF t
<1>6. tags \in SUBSET (0..m) /\ lines \in SUBSET (0..m) /\ lines # {}
  BY <1>2, <1>4
<1> DEFINE p == Max(tags)
           q == Max(lines)
<1>7. p \in tags /\ q \in lines /\ \A y \in lines : y <= q
  BY <1>2, <1>5, <1>6, MaxIs
<1>8. p \in 1..m /\ t[p] = "tag" /\ p = q + 1 /\ Parse(s) = SubSeq(t, p + 1, m)
  BY <1>4, <1>5, <1>7
<1>9. (q = 0 \/ (q \in 1..m /\ t[q] = "\n")) /\ \A i \in 1..m : t[i] = "\n" => i <= q
  BY <1>4, <1>7
<1> HIDE DEF p, q
<1>10. /\ m \in 1..Len(s) /\ s[m] # "\n" /\ p \in Nat /\ q \in Nat /\ p <= m /\ q = p - 1
  BY <1>1, <1>2, <1>8, <1>9
<1>11. s[p] = "tag" /\ (p = 1 \/ s[p - 1] = "\n")
  BY <1>3, <1>8, <1>9, <1>10
<1>12. \A i \in p + 1..m : s[i] # "\n"
  <2> TAKE i \in p + 1..m
  <2>1. i \in 1..m /\ ~(i <= q)
    BY <1>10
  <2>2. QED
    BY <1>3, <1>9, <2>1
<1>13. \A i \in p + 1..m : t[i] \in Cells
  BY <1>3, <1>10, ElementOfSeq
<1> DEFINE u == SubSeq(t, p + 1, m)
<1>14. /\ u \in Seq(Cells) /\ Len(u) = IF p + 1 <= m THEN m - (p + 1) + 1 ELSE 0
       /\ \A i \in 1..m - (p + 1) + 1 : u[i] = t[p + 1 + i - 1]
  BY <1>10, <1>13, SubSeqProperties
<1> HIDE DEF u
<1>15. Len(u) = m - p /\ m - (p + 1) + 1 = m - p
  BY <1>10, <1>14
<1>16. \A i \in 1..m - p : u[i] = s[p + i]
  <2> TAKE i \in 1..m - p
  <2>1. p + 1 + i - 1 = p + i /\ p + i \in 1..m /\ i \in 1..m - (p + 1) + 1
    BY <1>10
  <2>2. QED
    BY <1>3, <1>14, <2>1
<1>17. Parse(s) = u
  BY <1>8 DEF u
<1>18. QED
  BY <1>1, <1>8, <1>10, <1>11, <1>12, <1>14, <1>15, <1>16, <1>17

\* The last line, but for line ends, comes after q and ends with m.
LastFrom(s, q, m) ==
    /\ m \in 1..Len(s) /\ \A j \in m + 1..Len(s) : s[j] = "\n"
    /\ q \in 0..m /\ (q = 0 \/ s[q] = "\n") /\ \A i \in q + 1..m : s[i] # "\n"
    /\ s[m] # "\n"

LEMMA LastLineIs ==
    ASSUME NEW s \in Seq(Cells), NEW q \in Nat, NEW m \in Nat, LastFrom(s, q, m)
    PROVE  /\ LastLine(s) \in Seq(Cells) /\ Len(LastLine(s)) = m - q
           /\ \A i \in 1..m - q : LastLine(s)[i] = s[q + i]
<1> DEFINE t == FirstOf(s, m)
           lines == {0} \union {i \in DOMAIN t : t[i] = "\n"}
<1>1. /\ Len(s) \in Nat /\ q <= m /\ m <= Len(s) /\ m \in 1..Len(s) /\ s[m] # "\n"
      /\ \A y \in m + 1..Len(s) : s[y] = "\n"
      /\ (q = 0 \/ s[q] = "\n") /\ \A y \in q + 1..m : s[y] # "\n"
  BY LenProperties DEF LastFrom
<1>2. Trimmed(s) = t
  <2>1. m \in 0..Len(s)
    BY <1>1
  <2>2. QED
    BY <1>1, <2>1, TrimmedIsIt
<1>3. t \in Seq(Cells) /\ Len(t) = m /\ \A i \in 1..m : t[i] = s[i]
  BY <1>1, FirstOfIs
<1>4. DOMAIN t = 1..m
  BY <1>3, LenProperties
<1> HIDE DEF t
<1>5. lines \in SUBSET (0..m) /\ q \in lines
  <2>1. q = 0 \/ (q \in 1..m /\ t[q] = "\n")
    BY <1>1, <1>3
  <2>2. QED
    BY <1>1, <1>4, <2>1
<1>6. \A y \in lines : y <= q
  <2> TAKE y \in lines
  <2>1. y = 0 \/ (y \in 1..m /\ s[y] = "\n")
    BY <1>3, <1>4
  <2>2. y \in 1..m /\ ~(y <= q) => y \in q + 1..m
    BY <1>1
  <2>3. QED
    BY <1>1, <2>1, <2>2
<1>7. Max(lines) = q
  BY <1>1, <1>5, <1>6, MaxIsIt
<1> DEFINE u == SubSeq(t, q + 1, m)
<1>8. LastLine(s) = u
  BY <1>2, <1>3, <1>7 DEF LastLine
<1>9. \A i \in q + 1..m : t[i] \in Cells
  BY <1>1, <1>3, ElementOfSeq
<1>10. /\ u \in Seq(Cells) /\ Len(u) = IF q + 1 <= m THEN m - (q + 1) + 1 ELSE 0
       /\ \A i \in 1..m - (q + 1) + 1 : u[i] = t[q + 1 + i - 1]
  BY <1>1, <1>9, SubSeqProperties
<1> HIDE DEF u
<1>11. Len(u) = m - q
  BY <1>1, <1>10
<1>12. \A i \in 1..m - q : u[i] = s[q + i]
  <2> TAKE i \in 1..m - q
  <2>1. q + 1 + i - 1 = q + i /\ q + i \in 1..m /\ i \in 1..m - (q + 1) + 1
    BY <1>1
  <2>2. QED
    BY <1>3, <1>10, <2>1
<1>13. QED
  BY <1>8, <1>10, <1>11, <1>12

-----------------------------------------------------------------------------
(* The theorems                                                            *)

\* The limits and buffers have a size.
SizesOK == Limit \in Nat \ {0} /\ RingSize \in Nat /\ MaxSearched \in Nat

StreamInv == TypeOK /\ CutAtLimit /\ SearchInv

\* One more chunk.
LEMMA ChunkStep ==
    ASSUME SizesOK, StreamInv, NEW chunk \in Seq(Cells), Len(chunk) \in Nat \ {0},
           output' = output \o chunk, Write(chunk), Collect(chunk), Search(chunk)
    PROVE  StreamInv'
<1>1. /\ TypeOK /\ CutAtLimit /\ SearchInv
      /\ Limit \in Nat /\ RingSize \in Nat /\ MaxSearched \in Nat
  BY DEF StreamInv, SizesOK
<1> DEFINE first == FirstOf(output, Limit)
           free == Limit - Len(first)
           new == output \o chunk
<1>2. /\ output \in Seq(Cells) /\ new \in Seq(Cells)
      /\ Len(new) = Len(output) + Len(chunk) /\ Len(output) \in Nat
  BY <1>1, ConcatProperties, LenProperties DEF TypeOK
<1>3. /\ writer.data = first /\ buffer.data = first
      /\ buffer.truncated <=> Len(output) > Limit
      /\ writer.truncated <=> Len(output) >= Limit
      /\ tail = LastOf(output, RingSize)
  BY <1>1 DEF CutAtLimit
<1>4. /\ free \in Nat /\ FirstOf(new, Limit) = first \o FirstOf(chunk, free)
      /\ Len(first) >= Limit => FirstOf(new, Limit) = first
  <2>1. output \in Seq(Cells) /\ chunk \in Seq(Cells) /\ Limit \in Nat
    BY <1>1, <1>2
  <2>2. QED
    BY <2>1, FirstOfMore, Zenon
<1>5. Len(first) = IF Len(output) > Limit THEN Limit ELSE Len(output)
  BY <1>1, <1>2, FirstOfIs
<1>6. /\ FirstOf(new, Limit) \in Seq(Cells)
      /\ Len(FirstOf(new, Limit)) = IF Len(new) > Limit THEN Limit ELSE Len(new)
  BY <1>1, <1>2, FirstOfIs
<1>7. output' = new
  OBVIOUS
<1>8. tail' = LastOf(new, RingSize) /\ tail' \in Seq(Cells)
  <2>1. tail' = LastOf(LastOf(output, RingSize) \o chunk, RingSize)
    BY <1>3 DEF Write
  <2>2. LastOf(LastOf(output, RingSize) \o chunk, RingSize) = LastOf(new, RingSize)
    BY <1>1, <1>2, LastOfMore
  <2>3. LastOf(new, RingSize) \in Seq(Cells)
    BY <1>1, <1>2, LastOfIs
  <2>4. QED
    BY <2>1, <2>2, <2>3
<1> HIDE DEF first, new
<1>9. writer' = [data |-> FirstOf(new, Limit), truncated |-> Len(new) >= Limit]
  <2> DEFINE sent == IF Len(first) < Limit THEN first \o FirstOf(chunk, free) ELSE first
  <2>1. writer' = [data |-> sent, truncated |-> Len(sent) >= Limit]
    BY <1>3 DEF Write
  <2>2. sent = FirstOf(new, Limit)
    <3>1. CASE Len(first) < Limit
      BY <1>4, <3>1
    <3>2. CASE ~(Len(first) < Limit)
      <4>1. Len(first) >= Limit
        BY <1>1, <1>2, <1>5, <3>2
      <4>2. QED
        BY <1>4, <3>2, <4>1
    <3>3. QED
      BY <3>1, <3>2
  <2> HIDE DEF sent
  <2>3. Len(sent) >= Limit <=> Len(new) >= Limit
    <3>1. Len(new) \in Nat
      BY <1>2
    <3>2. QED
      BY <1>1, <1>6, <2>2, <3>1
  <2>4. (Len(sent) >= Limit) = (Len(new) >= Limit)
    BY <1>1, <1>2, <1>6, <2>2
  <2>5. QED
    BY <2>1, <2>2, <2>4
<1>10. buffer' = [data |-> FirstOf(new, Limit),
                  truncated |-> buffer.truncated \/ Len(chunk) > free]
  BY <1>3, <1>4 DEF Collect
<1>11. buffer.truncated \/ Len(chunk) > free <=> Len(new) > Limit
  <2>1. Len(chunk) > free <=> Len(chunk) + Len(first) > Limit
    <3>1. Len(first) \in Nat
      BY <1>1, <1>2, <1>5
    <3>2. QED
      BY <1>1, <3>1
  <2>2. CASE Len(output) > Limit
    <3>1. buffer.truncated /\ Len(new) > Limit
      BY <1>1, <1>2, <1>3, <2>2
    <3>2. QED
      BY <3>1
  <2>3. CASE ~(Len(output) > Limit)
    <3>1. Len(first) = Len(output) /\ ~buffer.truncated
      BY <1>3, <1>5, <2>3
    <3>2. Len(chunk) + Len(first) > Limit <=> Len(new) > Limit
      BY <1>2, <3>1
    <3>3. QED
      BY <2>1, <3>1, <3>2
  <2>4. QED
    BY <2>2, <2>3
<1>12. SearchInv' /\ searched' \in Seq(Cells) /\ rest' \in Seq(Cells) \union {NotFound}
  BY <1>1, SearchStep
<1>13. CutAtLimit'
  <2>1. writer'.data = FirstOf(new, Limit) /\ (writer'.truncated <=> Len(new) >= Limit)
    BY <1>9
  <2>2. buffer'.data = FirstOf(new, Limit) /\ (buffer'.truncated <=> Len(new) > Limit)
    BY <1>10, <1>11
  <2>3. QED
    BY <1>7, <1>8, <2>1, <2>2 DEF CutAtLimit
<1>14. TypeOK'
  <2>1. writer' \in Taken
    <3>1. (Len(new) >= Limit) \in BOOLEAN
      OBVIOUS
    <3>2. QED
      BY <1>6, <1>9, <3>1 DEF Taken
  <2>2. buffer' \in Taken
    <3>1. (buffer.truncated \/ Len(chunk) > free) \in BOOLEAN
      OBVIOUS
    <3>2. QED
      BY <1>6, <1>10, <3>1 DEF Taken
  <2>3. output' \in Seq(Cells) /\ NotFound' = NotFound
    BY <1>2, <1>7 DEF NotFound
  <2>4. QED
    BY <1>8, <1>12, <2>1, <2>2, <2>3 DEF TypeOK, Taken
<1>15. QED
  BY <1>12, <1>13, <1>14 DEF StreamInv

\* What was forwarded and collected is the beginning of the output, what is kept its
\* end, and the marker is not missed (streamWriter.Write, limitedBuffer.Write,
\* readUntilOutputMarker).
THEOREM InvHolds == ASSUME SizesOK PROVE Spec => []StreamInv
<1>1. Init => StreamInv
  <2> SUFFICES ASSUME Init PROVE StreamInv
    OBVIOUS
  <2>1. /\ output = <<>> /\ tail = <<>> /\ searched = <<>> /\ rest = NotFound
        /\ writer = [data |-> <<>>, truncated |-> FALSE]
        /\ buffer = [data |-> <<>>, truncated |-> FALSE]
    BY DEF Init
  <2>2. <<>> \in Seq(Cells) /\ Len(<<>>) = 0
    OBVIOUS
  <2>3. TypeOK
    BY <2>1, <2>2 DEF TypeOK, Taken
  <2>4. \A n \in Nat : FirstOf(<<>>, n) = <<>> /\ LastOf(<<>>, n) = <<>>
    BY <2>2 DEF FirstOf, LastOf
  <2>5. CutAtLimit
    <3>1. Limit \in Nat /\ RingSize \in Nat /\ ~(0 > Limit) /\ ~(0 >= Limit)
      BY DEF SizesOK
    <3>2. FirstOf(<<>>, Limit) = <<>> /\ LastOf(<<>>, RingSize) = <<>>
      BY <2>4, <3>1
    <3>3. QED
      BY <2>1, <2>2, <3>1, <3>2 DEF CutAtLimit
  <2>6. SearchInv
    <3>1. Found(output) = {}
      <4>1. Found(<<>>) = {i \in Nat : /\ i + 2 <= Len(<<>>)
                                      /\ <<>>[i + 1] = "tag" /\ <<>>[i + 2] = "dir"}
        BY <2>2, OccursIs
      <4>2. \A i \in Nat : ~(i + 2 <= 0)
        OBVIOUS
      <4>3. QED
        BY <2>1, <2>2, <4>1, <4>2
    <3>2. 0 \in 0..Len(output) /\ EndFrom(searched, output, 0)
      BY <2>1, <2>2 DEF EndFrom
    <3>3. QED
      BY <2>1, <3>1, <3>2 DEF SearchInv, Searching
  <2>7. QED
    BY <2>3, <2>5, <2>6 DEF StreamInv
<1>2. StreamInv /\ [Next]_vars => StreamInv'
  <2> SUFFICES ASSUME StreamInv, [Next]_vars PROVE StreamInv'
    OBVIOUS
  <2>1. CASE Next
    <3>1. PICK chunk \in BoundedSeq(Cells, MaxChunk) \ {<<>>} :
            /\ output' = output \o chunk
            /\ Write(chunk) /\ Collect(chunk) /\ Search(chunk)
      BY <2>1 DEF Next
    <3>2. chunk \in Seq(Cells) /\ Len(chunk) \in Nat \ {0}
      BY ChunkIs
    <3>3. QED
      BY <3>1, <3>2, ChunkStep
  <2>2. CASE UNCHANGED vars
    BY <2>2 DEF vars, StreamInv, TypeOK, CutAtLimit, SearchInv, Searching, EndFrom, Found,
                NotFound, Taken
  <2>3. QED
    BY <2>1, <2>2
<1>3. QED
  BY <1>1, <1>2, PTL DEF Spec

\* The output, what is kept of it and the searches are well formed.
THEOREM TypeCorrect == ASSUME SizesOK PROVE Spec => []TypeOK
<1>1. StreamInv => TypeOK
  BY DEF StreamInv
<1>2. QED
  BY <1>1, InvHolds, PTL

\* However the output is cut, its first Limit cells are forwarded and collected, and
\* what is missing is flagged (streamWriter.Write, limitedBuffer.Write).
THEOREM CutAtLimitHolds == ASSUME SizesOK PROVE Spec => []CutAtLimit
<1>1. StreamInv => CutAtLimit
  BY DEF StreamInv
<1>2. QED
  BY <1>1, InvHolds, PTL

\* The directory of the script's line is found when that line is the last, and what
\* is found is the last line but for its tag, unless the kept end begins with a tag;
\* the marker of a handshake is found when it comes, and all that came after it is
\* read next (parseRingMeta, readUntilOutputMarker).  What is kept of the output has
\* to have room for that line.
THEOREM MarkersFoundHolds ==
    ASSUME SizesOK, RingSize >= Len(ScriptLine) PROVE Spec => []MarkersFound
<1>1. StreamInv => MarkersFound
  <2> SUFFICES ASSUME StreamInv PROVE MarkersFound
    OBVIOUS
  <2> DEFINE n == Len(output)
             l == Len(tail)
             d == n - l
  <2>1. /\ output \in Seq(Cells) /\ tail \in Seq(Cells) /\ rest \in Seq(Cells) \union {NotFound}
        /\ tail = LastOf(output, RingSize) /\ RingSize \in Nat /\ SearchInv
    BY DEF StreamInv, TypeOK, CutAtLimit, SizesOK
  <2>2. /\ n \in Nat /\ l \in Nat /\ l = IF n > RingSize THEN RingSize ELSE n
        /\ \A i \in 1..l : tail[i] = output[d + i]
    BY <2>1, LastOfIs, LenProperties
  <2>3. d \in Nat /\ n = d + l
    BY <2>1, <2>2
  <2> HIDE DEF n, l, d
  <2>4. /\ ScriptLine \in Seq(Cells) /\ Len(ScriptLine) = 4
        /\ ScriptLine[1] = "\n" /\ ScriptLine[2] = "tag" /\ ScriptLine[3] = "dir"
        /\ ScriptLine[4] = "\n"
    BY DEF ScriptLine, Cells
  <2>5. ASSUME IsSuffix(ScriptLine, output) PROVE Parse(tail) = <<"dir">>
    <3>1. 4 <= n /\ \A i \in 1..4 : ScriptLine[i] = output[n - 4 + i]
      <4>1. Len(output) = n /\ 4 \in Nat
        BY DEF n
      <4> HIDE DEF ScriptLine
      <4>2. IsSuffix(ScriptLine, output) <=>
              4 <= n /\ \A i \in 1..4 : ScriptLine[i] = output[n - 4 + i]
        <5>1. /\ ScriptLine \in Seq(Cells) /\ output \in Seq(Cells)
              /\ 4 \in Nat /\ n \in Nat /\ Len(ScriptLine) = 4 /\ Len(output) = n
          BY <2>1, <2>2, <2>4, <4>1
        <5>2. QED
          BY <5>1, SuffixOf, Zenon
      <4>3. QED
        BY <2>5, <4>2, Zenon
    <3>2. l >= 4
      BY <2>1, <2>2, <2>4, <3>1
    <3>3. \A i \in 1..4 : l - 4 + i \in 1..l /\ d + (l - 4 + i) = n - 4 + i
      <4> TAKE i \in 1..4
      <4>1. i \in Int /\ 1 <= i /\ i <= 4 /\ l \in Int /\ d \in Int /\ n = d + l
        BY <2>2, <2>3
      <4>2. QED
        BY <3>2, <4>1
    <3>4. \A i \in 1..4 : tail[l - 4 + i] = ScriptLine[i]
      BY <2>2, <3>1, <3>3
    <3>5. tail[l - 4 + 1] = "\n" /\ tail[l - 4 + 2] = "tag" /\ tail[l - 4 + 3] = "dir"
          /\ tail[l - 4 + 4] = "\n"
      BY <2>4, <3>4
    <3>6. l - 4 + 1 = l - 3 /\ l - 4 + 2 = l - 2 /\ l - 4 + 3 = l - 1 /\ l - 4 + 4 = l
      BY <2>2
    <3>7. tail[l - 3] = "\n" /\ tail[l - 2] = "tag" /\ tail[l - 1] = "dir" /\ tail[l] = "\n"
      BY <3>5, <3>6
    <3>8. l = Len(tail)
      BY DEF l
    <3>9. QED
      BY <2>1, <2>2, <3>2, <3>7, <3>8, ParseFinds
  <2> DEFINE line == <<"tag">> \o Parse(tail)
  <2>6. ASSUME Parse(tail) # NotFound
        PROVE  LastLine(output) = line \/ (n > RingSize /\ Trimmed(tail) = line)
    <3> DEFINE At(k, p) ==
              /\ Trimmed(tail) = FirstOf(tail, k) /\ tail[k] # "\n"
              /\ \A j \in k + 1..l : tail[j] = "\n"
              /\ tail[p] = "tag" /\ (p = 1 \/ tail[p - 1] = "\n")
              /\ \A i \in p + 1..k : tail[i] # "\n"
              /\ Parse(tail) \in Seq(Cells) /\ Len(Parse(tail)) = k - p
              /\ \A i \in 1..k - p : Parse(tail)[i] = tail[p + i]
    <3>a. \E k \in 1..l : \E p \in 1..k : At(k, p)
      BY <2>1, <2>6, ParseSays DEF l
    <3>b. PICK k \in 1..l : \E p \in 1..k : At(k, p)
      BY <3>a
    <3>c. PICK p \in 1..k : At(k, p)
      BY <3>b
    <3>1. At(k, p)
      BY <3>c
    <3>2. /\ k \in Nat /\ p \in Nat /\ 1 <= p /\ p <= k /\ k <= l
      BY <2>2
    <3>3. line \in Seq(Cells) /\ Len(line) = k - p + 1
          /\ \A i \in 1..k - p + 1 : line[i] = tail[p - 1 + i]
      <4> DEFINE a == <<"tag">>
                 b == Parse(tail)
      <4>1. a \in Seq(Cells) /\ Len(a) = 1 /\ a[1] = "tag"
        BY DEF Cells
      <4>2. b \in Seq(Cells) /\ Len(b) = k - p /\ \A i \in 1..k - p : b[i] = tail[p + i]
        BY <3>1
      <4> HIDE DEF a, b
      <4>a. /\ a \o b \in Seq(Cells) /\ Len(a \o b) = Len(a) + Len(b)
            /\ \A i \in 1..Len(a) + Len(b) :
                 (a \o b)[i] = IF i <= Len(a) THEN a[i] ELSE b[i - Len(a)]
        <5>1. a \in Seq(Cells) /\ b \in Seq(Cells)
          BY <4>1, <4>2
        <5>2. QED
          BY <5>1, ConcatProperties
      <4>3. /\ a \o b \in Seq(Cells) /\ Len(a \o b) = 1 + (k - p)
            /\ \A i \in 1..1 + (k - p) : (a \o b)[i] = IF i <= 1 THEN a[i] ELSE b[i - 1]
        <5>1. Len(a) = 1 /\ Len(b) = k - p
          BY <4>1, <4>2
        <5>2. QED
          BY <4>a, <5>1
      <4>4. ASSUME NEW i \in 1..k - p + 1 PROVE (a \o b)[i] = tail[p - 1 + i]
        <5>1. i \in 1..1 + (k - p)
          BY <3>2
        <5>2. CASE i = 1
          <6>1. p - 1 + i = p
            BY <3>2, <5>2
          <6>2. (a \o b)[i] = a[1]
            BY <4>3, <5>1, <5>2
          <6>3. QED
            BY <3>1, <4>1, <6>1, <6>2
        <5>3. CASE i # 1
          <6>1. i - 1 \in 1..k - p /\ ~(i <= 1) /\ p + (i - 1) = p - 1 + i
            BY <3>2, <5>3
          <6>2. (a \o b)[i] = b[i - 1]
            BY <4>3, <5>1, <6>1
          <6>3. QED
            BY <4>2, <6>1, <6>2
        <5>4. QED
          BY <5>2, <5>3
      <4>5. 1 + (k - p) = k - p + 1
        BY <3>2
      <4>6. QED
        BY <4>3, <4>4, <4>5 DEF a, b
    <3> HIDE DEF line
    <3>4. CASE p = 1 /\ n > RingSize
      <4> DEFINE t == FirstOf(tail, k)
      <4>1. t \in Seq(Cells) /\ Len(t) = k /\ \A i \in 1..k : t[i] = tail[i]
        BY <2>1, <2>2, <3>2, FirstOfIs DEF l
      <4> HIDE DEF t
      <4>2. Len(line) = Len(t) /\ k - p + 1 = k
        BY <3>2, <3>3, <3>4, <4>1
      <4>3. ASSUME NEW i \in 1..Len(t) PROVE line[i] = t[i]
        <5>1. p - 1 + i = i /\ i \in 1..k
          BY <3>2, <3>4, <4>1
        <5>2. QED
          BY <3>3, <4>1, <4>2, <5>1
      <4>4. line = t
        BY <3>3, <4>1, <4>2, <4>3, SeqEqual
      <4>5. QED
        BY <3>1, <3>4, <4>4 DEF t
    <3>5. CASE ~(p = 1 /\ n > RingSize)
      <4> DEFINE m == d + k
                 q == d + (p - 1)
      <4>1. /\ m \in 1..n /\ m \in Nat /\ q \in Nat /\ q \in 0..m
            /\ m - q = k - p + 1 /\ k \in 1..l /\ d + k = m
        BY <2>2, <2>3, <3>2
      <4>2. output[m] # "\n"
        BY <2>2, <3>1, <4>1
      <4>3. \A j \in m + 1..n : output[j] = "\n"
        <5> TAKE j \in m + 1..n
        <5>1. j - d \in k + 1..l /\ j - d \in 1..l /\ d + (j - d) = j
          BY <2>2, <2>3, <3>2
        <5>2. QED
          BY <2>2, <3>1, <5>1
      <4>4. q = 0 \/ output[q] = "\n"
        <5>1. CASE p = 1
          <6>1. d = 0
            BY <2>2, <2>3, <3>5, <5>1
          <6>2. QED
            BY <5>1, <6>1
        <5>2. CASE p # 1
          <6>1. p - 1 \in 1..l /\ tail[p - 1] = "\n"
            BY <2>2, <3>1, <3>2, <5>2
          <6>2. QED
            BY <2>2, <6>1
        <5>3. QED
          BY <5>1, <5>2
      <4>5. \A i \in q + 1..m : output[i] # "\n"
        <5> TAKE i \in q + 1..m
        <5>1. i - d \in p..k /\ i - d \in 1..l /\ d + (i - d) = i
          BY <2>2, <2>3, <3>2
        <5>2. tail[i - d] # "\n"
          <6>1. i - d = p \/ i - d \in p + 1..k
            BY <3>2, <5>1
          <6>2. QED
            BY <3>1, <6>1
        <5>3. QED
          BY <2>2, <5>1, <5>2
      <4> HIDE DEF m, q
      <4>6. /\ LastLine(output) \in Seq(Cells) /\ Len(LastLine(output)) = m - q
            /\ \A i \in 1..m - q : LastLine(output)[i] = output[q + i]
        <5>1. LastFrom(output, q, m)
          BY <4>1, <4>2, <4>3, <4>4, <4>5 DEF LastFrom, n
        <5>2. QED
          BY <2>1, <4>1, <5>1, LastLineIs
      <4>7. ASSUME NEW i \in 1..Len(line) PROVE LastLine(output)[i] = line[i]
        <5>1. i \in 1..m - q /\ i \in 1..k - p + 1
          BY <3>3, <4>1
        <5>2. p - 1 + i \in 1..l /\ d + (p - 1 + i) = q + i
          BY <2>2, <2>3, <3>2, <5>1 DEF q
        <5>3. QED
          BY <2>2, <3>3, <4>6, <5>1, <5>2
      <4>8. LastLine(output) = line
        BY <3>3, <4>1, <4>6, <4>7, SeqEqual
      <4>9. QED
        BY <4>8
    <3>6. QED
      BY <3>4, <3>5
  <2>7. rest = NotFound <=> Found(output) = {}
    BY <2>1 DEF SearchInv, Searching
  <2>8. rest # NotFound => rest = After(output, Marker)
    BY <2>1 DEF SearchInv
  <2>9. QED
    BY <2>5, <2>6, <2>7, <2>8 DEF MarkersFound, Found, n, line
<1>2. QED
  BY <1>1, InvHolds, PTL

-----------------------------------------------------------------------------
(* The directory of the terminal                                           *)

\* A second specification beside that of the commands; they share nothing.
CONSTANTS Chunks, KeepTail, MaxPayload
VARIABLES pending, cwd, reader, said, masked

T == INSTANCE TerminalStream

\* Its instance has a Min and a Max of its own.
LEMMA LeastIs ==
    ASSUME NEW S \in SUBSET Nat, S # {}
    PROVE  T!Min(S) \in S /\ \A y \in S : T!Min(S) <= y
BY MinIs DEF Min, T!Min

LEMMA GreatestIs ==
    ASSUME NEW n \in Nat, NEW S \in SUBSET (0..n), S # {}
    PROVE  T!Max(S) \in S /\ \A y \in S : y <= T!Max(S)
BY MaxIs DEF Max, T!Max

-----------------------------------------------------------------------------
(* Recursion.  The step of a recursive definition is a function here.       *)

\* What holds of a number as soon as it holds of the smaller ones holds of all.
LEMMA AllNumbers ==
    ASSUME NEW S \in SUBSET Nat,
           \A n \in Nat : (\A m \in 0..n - 1 : m \in S) => n \in S
    PROVE  \A n \in Nat : n \in S
<1> SUFFICES ASSUME Nat \ S # {} PROVE FALSE
  OBVIOUS
<1>1. /\ T!Min(Nat \ S) \in Nat \ S
      /\ \A y \in Nat \ S : T!Min(Nat \ S) <= y
  BY LeastIs
<1>2. PICK n \in Nat \ S : \A y \in Nat \ S : n <= y
  BY <1>1
<1>3. \A m \in 0..n - 1 : m \in S
  BY <1>2
<1>4. QED
  BY <1>2, <1>3

LEMMA NumbersUpTo ==
    ASSUME NEW m \in Nat, NEW S, 0 \in S, \A n \in 1..m : n - 1 \in S => n \in S
    PROVE  \A n \in 0..m : n \in S
<1> DEFINE Good == {n \in Nat : n <= m => n \in S}
<1>1. Good \in SUBSET Nat
  OBVIOUS
<1>2. \A n \in Nat : (\A k \in 0..n - 1 : k \in Good) => n \in Good
  <2> SUFFICES ASSUME NEW n \in Nat, \A k \in 0..n - 1 : k \in Good, n <= m
               PROVE  n \in S
    OBVIOUS
  <2>1. CASE n = 0
    BY <2>1
  <2>2. CASE n # 0
    <3>1. n - 1 \in 0..n - 1 /\ n - 1 <= m /\ n \in 1..m
      BY <2>2
    <3>2. QED
      BY <3>1
  <2>3. QED
    BY <2>1, <2>2
<1> HIDE DEF Good
<1>3. \A n \in Nat : n \in Good
  BY <1>1, <1>2, AllNumbers
<1>4. QED
  BY <1>3 DEF Good

\* A function can be iterated ...
Iterates(f, b, G) == f[0] = b /\ \A n \in Nat : f[n + 1] = G[f[n]]

LEMMA Iteration ==
    ASSUME NEW D, NEW b \in D, NEW G \in [D -> D]
    PROVE  \E f : f \in [Nat -> D] /\ Iterates(f, b, G)
<1> DEFINE Is(f, n) == f[0] = b /\ \A i \in 1..n : f[i] = G[f[i - 1]]
           At_(n) == {f[n] : f \in {g \in [0..n -> D] : Is(g, n)}}
           S == {n \in Nat : \E v \in D : At_(n) = {v}}
<1>1. At_(0) = {b}
  <2>1. \A v \in At_(0) : v = b
    OBVIOUS
  <2>2. b \in At_(0)
    <3>1. [i \in 0..0 |-> b] \in [0..0 -> D] /\ Is([i \in 0..0 |-> b], 0)
      OBVIOUS
    <3>2. [i \in 0..0 |-> b][0] = b
      OBVIOUS
    <3>3. QED
      BY <3>1, <3>2
  <2>3. QED
    BY <2>1, <2>2
<1>2. \A n \in Nat : At_(n + 1) = {G[v] : v \in At_(n)}
  <2> TAKE n \in Nat
  <2>1. ASSUME NEW v \in At_(n + 1)
        PROVE  v \in {G[w] : w \in At_(n)}
    <3>1. PICK f \in [0..n + 1 -> D] : Is(f, n + 1) /\ v = f[n + 1]
      OBVIOUS
    <3> DEFINE g == [i \in 0..n |-> f[i]]
    <3>2. g \in [0..n -> D] /\ Is(g, n) /\ g[n] = f[n]
      BY <3>1
    <3>3. g[n] \in At_(n)
      BY <3>2
    <3>4. v = G[g[n]]
      BY <3>1, <3>2
    <3>5. QED
      BY <3>3, <3>4
  <2>2. ASSUME NEW w \in At_(n)
        PROVE  G[w] \in At_(n + 1)
    <3>1. PICK f \in [0..n -> D] : Is(f, n) /\ w = f[n]
      OBVIOUS
    <3> DEFINE g == [i \in 0..n + 1 |-> IF i = n + 1 THEN G[f[n]] ELSE f[i]]
    <3>2. g \in [0..n + 1 -> D]
      OBVIOUS
    <3>3. g[0] = b
      BY <3>1
    <3>4. \A i \in 1..n + 1 : g[i] = G[g[i - 1]]
      <4> TAKE i \in 1..n + 1
      <4>1. CASE i = n + 1
        BY <4>1
      <4>2. CASE i # n + 1
        BY <3>1, <4>2
      <4>3. QED
        BY <4>1, <4>2
    <3>5. g[n + 1] = G[w]
      BY <3>1
    <3>6. Is(g, n + 1)
      BY <3>3, <3>4
    <3> HIDE DEF g, Is
    <3>7. QED
      BY <3>2, <3>5, <3>6
  <2>3. QED
    BY <2>1, <2>2
<1> HIDE DEF At_
<1>3. \A n \in Nat : n \in S
  <2>1. S \in SUBSET Nat
    OBVIOUS
  <2>2. \A n \in Nat : (\A m \in 0..n - 1 : m \in S) => n \in S
    <3> SUFFICES ASSUME NEW n \in Nat, \A m \in 0..n - 1 : m \in S PROVE n \in S
      OBVIOUS
    <3>1. CASE n = 0
      BY <1>1, <3>1
    <3>2. CASE n # 0
      <4>1. n - 1 \in 0..n - 1 /\ n - 1 \in Nat /\ (n - 1) + 1 = n
        BY <3>2
      <4>2. PICK v \in D : At_(n - 1) = {v}
        BY <4>1
      <4>3. At_(n) = {G[v]}
        BY <1>2, <4>1, <4>2
      <4>4. QED
        BY <4>3
    <3>3. QED
      BY <3>1, <3>2
  <2> HIDE DEF S
  <2>3. QED
    BY <2>1, <2>2, AllNumbers
<1> DEFINE f == [n \in Nat |-> CHOOSE v \in D : At_(n) = {v}]
<1>4. \A n \in Nat : f[n] \in D /\ At_(n) = {f[n]}
  BY <1>3
<1>5. f \in [Nat -> D]
  BY <1>4
<1> HIDE DEF f
<1>6. f[0] = b
  BY <1>1, <1>4
<1>7. \A n \in Nat : f[n + 1] = G[f[n]]
  <2> TAKE n \in Nat
  <2>1. At_(n + 1) = {G[f[n]]}
    BY <1>2, <1>4
  <2>2. n + 1 \in Nat /\ At_(n + 1) = {f[n + 1]}
    BY <1>4
  <2>3. QED
    BY <2>1, <2>2
<1>8. QED
  BY <1>5, <1>6, <1>7 DEF Iterates

\* ... and an equation of functions has a solution if what it says of an argument
\* depends on smaller arguments only.
Solves(f, G) == f = G[f]
LooksBack(G, D, R, size) ==
    \A f, g \in [D -> R] : \A d \in D :
      (\A e \in D : size[e] < size[d] => f[e] = g[e]) => G[f][d] = G[g][d]

LEMMA Solution ==
    ASSUME NEW D, NEW R, NEW size \in [D -> Nat],
           NEW G \in [[D -> R] -> [D -> R]], [D -> R] # {},
           LooksBack(G, D, R, size)
    PROVE  \E f : f \in [D -> R] /\ Solves(f, G)
<1>1. PICK b \in [D -> R] : TRUE
  OBVIOUS
<1>2. PICK A \in [Nat -> [D -> R]] : A[0] = b /\ \A n \in Nat : A[n + 1] = G[A[n]]
  <2> DEFINE E == [D -> R]
  <2>1. b \in E /\ G \in [E -> E]
    OBVIOUS
  <2> HIDE DEF E
  <2>2. \E A : A \in [Nat -> E] /\ Iterates(A, b, G)
    BY <2>1, Iteration, Zenon
  <2>3. QED
    BY <2>2 DEF E, Iterates
<1> DEFINE F == [d \in D |-> A[size[d] + 1][d]]
           S == {n \in Nat : \A d \in D : size[d] = n =>
                               \A k \in Nat : n < k => A[k][d] = F[d]}
<1>3. F \in [D -> R]
  <2>1. \A d \in D : size[d] + 1 \in Nat
    OBVIOUS
  <2>2. QED
    BY <1>2, <2>1
<1>4. \A n \in Nat : n \in S
  <2>1. S \in SUBSET Nat
    OBVIOUS
  <2>2. \A n \in Nat : (\A m \in 0..n - 1 : m \in S) => n \in S
    <3> SUFFICES ASSUME NEW n \in Nat, \A m \in 0..n - 1 : m \in S,
                        NEW d \in D, size[d] = n, NEW k \in Nat, n < k
                 PROVE  A[k][d] = F[d]
      OBVIOUS
    <3>1. k - 1 \in Nat /\ (k - 1) + 1 = k /\ n <= k - 1
      OBVIOUS
    <3>2. \A e \in D : size[e] < size[d] => A[k - 1][e] = A[n][e]
      <4> SUFFICES ASSUME NEW e \in D, size[e] < size[d]
                   PROVE  A[k - 1][e] = A[n][e]
        OBVIOUS
      <4>1. size[e] \in 0..n - 1 /\ size[e] < k - 1 /\ size[e] < n
        BY <3>1
      <4>2. size[e] \in S
        BY <4>1
      <4>3. QED
        BY <3>1, <4>1, <4>2
    <3>3. A[k] = G[A[k - 1]] /\ A[n + 1] = G[A[n]]
      BY <1>2, <3>1
    <3>4. A[k - 1] \in [D -> R] /\ A[n] \in [D -> R]
      BY <3>1
    <3>5. G[A[k - 1]][d] = G[A[n]][d]
      <4> DEFINE X == A[k - 1]
                 Y == A[n]
      <4>1. X \in [D -> R] /\ Y \in [D -> R]
        BY <3>4
      <4>2. \A e \in D : size[e] < size[d] => X[e] = Y[e]
        BY <3>2
      <4> HIDE DEF X, Y, S, F
      <4>3. G[X][d] = G[Y][d]
        BY <4>1, <4>2 DEF LooksBack
      <4>4. QED
        BY <4>3 DEF X, Y
    <3>6. QED
      BY <3>3, <3>5
  <2> HIDE DEF S
  <2>3. QED
    BY <2>1, <2>2, AllNumbers
<1>5. \A d \in D : F[d] = G[F][d]
  <2> TAKE d \in D
  <2>1. size[d] \in Nat /\ F[d] = G[A[size[d]]][d]
    BY <1>2
  <2>2. \A e \in D : size[e] < size[d] => A[size[d]][e] = F[e]
    <3> SUFFICES ASSUME NEW e \in D, size[e] < size[d] PROVE A[size[d]][e] = F[e]
      OBVIOUS
    <3>1. size[e] \in Nat /\ size[e] \in S
      BY <1>4
    <3>2. QED
      BY <2>1, <3>1
  <2>3. A[size[d]] \in [D -> R]
    BY <2>1
  <2> HIDE DEF F
  <2>4. G[A[size[d]]][d] = G[F][d]
    BY <1>3, <2>2, <2>3 DEF LooksBack
  <2>5. QED
    BY <2>1, <2>4
<1> HIDE DEF F
<1>6. F = G[F]
  <2>1. G[F] \in [D -> R]
    BY <1>3
  <2>2. QED
    BY <1>3, <1>5, <2>1
<1>7. QED
  BY <1>3, <1>6 DEF Solves

-----------------------------------------------------------------------------
(* The reader                                                              *)

Readers == [state : {"text", "esc", "report", "closing"}, payload : Seq(T!Cells),
            found : Seq(Seq(T!Cells))]

LEMMA FrontIs ==
    ASSUME NEW s \in Seq(T!Cells)
    PROVE  /\ T!Front(s) \in Seq(T!Cells)
           /\ s # <<>> => /\ Len(T!Front(s)) = Len(s) - 1
                          /\ \A i \in 1..Len(s) - 1 : T!Front(s)[i] = s[i]
<1>0. Len(s) \in Nat
  BY LenProperties
<1>1. \A i \in 1..Len(s) - 1 : s[i] \in T!Cells
  BY <1>0, ElementOfSeq
<1>2. /\ SubSeq(s, 1, Len(s) - 1) \in Seq(T!Cells)
      /\ Len(SubSeq(s, 1, Len(s) - 1)) =
           IF 1 <= Len(s) - 1 THEN Len(s) - 1 - 1 + 1 ELSE 0
      /\ \A i \in 1..Len(s) - 1 - 1 + 1 : SubSeq(s, 1, Len(s) - 1)[i] = s[1 + i - 1]
  BY <1>0, <1>1, SubSeqProperties
<1>3. s # <<>> => Len(s) >= 1
  BY <1>0, EmptySeq
<1>4. CASE s # <<>>
  <2>1. Len(s) >= 1 /\ Len(s) - 1 - 1 + 1 = Len(s) - 1
    BY <1>0, <1>3, <1>4
  <2>2. Len(SubSeq(s, 1, Len(s) - 1)) = Len(s) - 1
    BY <1>0, <1>2, <2>1
  <2>3. \A i \in 1..Len(s) - 1 : SubSeq(s, 1, Len(s) - 1)[i] = s[i]
    <3> TAKE i \in 1..Len(s) - 1
    <3>1. 1 + i - 1 = i
      BY <1>0
    <3>2. QED
      BY <1>2, <2>1, <3>1
  <2>4. QED
    BY <1>2, <2>2, <2>3 DEF T!Front
<1>5. CASE s = <<>>
  BY <1>2, <1>5 DEF T!Front
<1>6. QED
  BY <1>4, <1>5

LEMMA ReadCellType ==
    ASSUME NEW s \in Readers, NEW cell \in T!Cells
    PROVE  T!ReadCell(s, cell) \in Readers
<1>1. /\ s.payload \in Seq(T!Cells) /\ s.found \in Seq(Seq(T!Cells))
      /\ <<>> \in Seq(T!Cells) /\ <<>> \in Seq(Seq(T!Cells))
  BY EmptySeq DEF Readers
<1>2. /\ Append(s.payload, cell) \in Seq(T!Cells)
      /\ Append(s.found, s.payload) \in Seq(Seq(T!Cells))
  BY <1>1, AppendProperties
<1>3. T!Front(s.payload) \in Seq(T!Cells)
  BY <1>1, FrontIs
<1>4. Append(s.found, T!Front(s.payload)) \in Seq(Seq(T!Cells))
  BY <1>1, <1>3, AppendProperties
<1>5. QED
  BY <1>1, <1>2, <1>3, <1>4 DEF T!ReadCell, Readers, T!Outside

\* The recursion of States.
LEMMA StatesAre ==
    ASSUME NEW s \in Readers, NEW p \in Seq(T!Cells)
    PROVE  /\ T!States(s, p) \in [0..Len(p) -> Readers]
           /\ T!States(s, p)[0] = s
           /\ \A n \in 1..Len(p) :
                T!States(s, p)[n] = T!ReadCell(T!States(s, p)[n - 1], p[n])
<1> DEFINE D == 0..Len(p)
           R == Readers
           Step(f, n) == IF n = 0 THEN s ELSE T!ReadCell(f[n - 1], p[n])
           size == [n \in D |-> n]
           G == [f \in [D -> R] |-> [n \in D |-> Step(f, n)]]
<1>0. Len(p) \in Nat /\ \A n \in 1..Len(p) : p[n] \in T!Cells
  BY LenProperties, ElementOfSeq
<1>1. \A f \in [D -> R] : \A n \in D : Step(f, n) \in R
  <2> SUFFICES ASSUME NEW f \in [D -> R], NEW n \in D PROVE Step(f, n) \in R
    OBVIOUS
  <2>1. CASE n = 0
    BY <2>1
  <2>2. CASE n # 0
    <3>1. n - 1 \in D /\ n \in 1..Len(p)
      BY <1>0, <2>2
    <3>2. f[n - 1] \in Readers /\ p[n] \in T!Cells
      BY <1>0, <3>1
    <3>3. QED
      BY <2>2, <3>2, ReadCellType
  <2>3. QED
    BY <2>1, <2>2
<1>2. \A f, g \in [D -> R] : \A d \in D :
        (\A e \in D : size[e] < size[d] => f[e] = g[e]) => Step(f, d) = Step(g, d)
  <2> SUFFICES ASSUME NEW f \in [D -> R], NEW g \in [D -> R], NEW d \in D,
                      \A e \in D : size[e] < size[d] => f[e] = g[e]
               PROVE  Step(f, d) = Step(g, d)
    OBVIOUS
  <2>1. CASE d # 0
    <3>1. d - 1 \in D /\ size[d - 1] < size[d]
      BY <1>0, <2>1
    <3>2. f[d - 1] = g[d - 1]
      BY <3>1
    <3>3. QED
      BY <3>2
  <2>2. QED
    BY <2>1
<1>3. size \in [D -> Nat]
  BY <1>0
<1>4. [D -> R] # {}
  <2>1. [n \in D |-> s] \in [D -> R]
    OBVIOUS
  <2>2. QED
    BY <2>1
<1> HIDE DEF Step, D, R, size
<1>5. G \in [[D -> R] -> [D -> R]]
  BY <1>1
<1>6. LooksBack(G, D, R, size)
  BY <1>2 DEF LooksBack
<1>7. \A f \in [D -> R] : G[f] = [n \in D |-> Step(f, n)]
  OBVIOUS
<1> HIDE DEF G
<1>8. \E f : f \in [D -> R] /\ Solves(f, G)
  BY <1>3, <1>4, <1>5, <1>6, Solution, Zenon
<1>9. \E f : f = [n \in D |-> Step(f, n)]
  BY <1>7, <1>8 DEF Solves
<1>10. T!States(s, p) = CHOOSE f : f = [n \in D |-> Step(f, n)]
  BY DEF T!States, D, Step
<1>11. T!States(s, p) = [n \in D |-> Step(T!States(s, p), n)]
  BY <1>9, <1>10
<1>12. \A n \in D : T!States(s, p)[n] = Step(T!States(s, p), n)
  BY <1>11
<1>13. \A n \in Nat : n \in {k \in Nat : k \in D => T!States(s, p)[k] \in Readers}
  <2> DEFINE S == {k \in Nat : k \in D => T!States(s, p)[k] \in Readers}
  <2>1. \A n \in Nat : (\A m \in 0..n - 1 : m \in S) => n \in S
    <3> SUFFICES ASSUME NEW n \in Nat, \A m \in 0..n - 1 : m \in S, n \in D
                 PROVE  T!States(s, p)[n] \in Readers
      OBVIOUS
    <3>1. CASE n = 0
      BY <1>12, <3>1 DEF Step
    <3>2. CASE n # 0
      <4>1. n - 1 \in 0..n - 1 /\ n - 1 \in D /\ n \in 1..Len(p)
        BY <1>0, <3>2 DEF D
      <4>2. T!States(s, p)[n - 1] \in Readers
        BY <4>1
      <4>3. T!ReadCell(T!States(s, p)[n - 1], p[n]) \in Readers
        BY <1>0, <4>1, <4>2, ReadCellType
      <4>4. QED
        BY <1>12, <3>2, <4>3 DEF Step
    <3>3. QED
      BY <3>1, <3>2
  <2>2. S \in SUBSET Nat
    OBVIOUS
  <2> HIDE DEF S
  <2>3. \A n \in Nat : n \in S
    BY <2>1, <2>2, AllNumbers
  <2>4. QED
    BY <2>3 DEF S
<1>14. \A n \in D : T!States(s, p)[n] \in Readers
  BY <1>0, <1>13 DEF D
<1>15. T!States(s, p) \in [0..Len(p) -> Readers]
  BY <1>11, <1>14 DEF D
<1>16. T!States(s, p)[0] = s
  BY <1>0, <1>12 DEF D, Step
<1>17. \A n \in 1..Len(p) : T!States(s, p)[n] = T!ReadCell(T!States(s, p)[n - 1], p[n])
  <2> TAKE n \in 1..Len(p)
  <2>1. n \in D /\ n # 0
    BY <1>0 DEF D
  <2>2. QED
    BY <1>12, <2>1 DEF Step
<1>18. QED
  BY <1>15, <1>16, <1>17

\* What is read of a chunk does not depend on what follows ...
LEMMA StatesOfPrefix ==
    ASSUME NEW s \in Readers, NEW p \in Seq(T!Cells), NEW q \in Seq(T!Cells),
           Len(p) <= Len(q), \A i \in 1..Len(p) : p[i] = q[i]
    PROVE  \A n \in 0..Len(p) : T!States(s, p)[n] = T!States(s, q)[n]
<1> DEFINE S == {n \in 0..Len(p) : T!States(s, p)[n] = T!States(s, q)[n]}
<1>0. Len(p) \in Nat /\ Len(q) \in Nat
  BY LenProperties
<1>1. /\ T!States(s, p)[0] = s
      /\ \A n \in 1..Len(p) : T!States(s, p)[n] = T!ReadCell(T!States(s, p)[n - 1], p[n])
      /\ T!States(s, q)[0] = s
      /\ \A n \in 1..Len(q) : T!States(s, q)[n] = T!ReadCell(T!States(s, q)[n - 1], q[n])
  BY StatesAre
<1>2. 0 \in S
  BY <1>0, <1>1
<1>3. \A n \in 1..Len(p) : n - 1 \in S => n \in S
  <2> SUFFICES ASSUME NEW n \in 1..Len(p), T!States(s, p)[n - 1] = T!States(s, q)[n - 1]
               PROVE  T!States(s, p)[n] = T!States(s, q)[n]
    BY <1>0
  <2>1. n \in 1..Len(q) /\ p[n] = q[n]
    BY <1>0
  <2>2. QED
    BY <1>1, <2>1
<1> HIDE DEF S
<1>4. \A n \in 0..Len(p) : n \in S
  BY <1>0, <1>2, <1>3, NumbersUpTo
<1>5. QED
  BY <1>4 DEF S

\* ... and what follows is read from the state before it.
LEMMA StatesOfRest ==
    ASSUME NEW s \in Readers, NEW p \in Seq(T!Cells), NEW k \in 0..Len(p),
           NEW q \in Seq(T!Cells), Len(q) = Len(p) - k,
           \A i \in 1..Len(q) : q[i] = p[k + i]
    PROVE  \A n \in 0..Len(q) : T!States(s, p)[k + n] = T!States(T!States(s, p)[k], q)[n]
<1> DEFINE t == T!States(s, p)[k]
           S == {n \in 0..Len(q) : T!States(s, p)[k + n] = T!States(t, q)[n]}
<1>0. Len(p) \in Nat /\ Len(q) \in Nat /\ k \in Nat
  BY LenProperties
<1>1. /\ T!States(s, p) \in [0..Len(p) -> Readers]
      /\ \A n \in 1..Len(p) : T!States(s, p)[n] = T!ReadCell(T!States(s, p)[n - 1], p[n])
  BY StatesAre
<1>2. t \in Readers
  BY <1>1
<1> HIDE DEF t
<1>3. /\ T!States(t, q)[0] = t
      /\ \A n \in 1..Len(q) : T!States(t, q)[n] = T!ReadCell(T!States(t, q)[n - 1], q[n])
  BY <1>2, StatesAre
<1>4. 0 \in S
  BY <1>0, <1>3 DEF t
<1>5. \A n \in 1..Len(q) : n - 1 \in S => n \in S
  <2> SUFFICES ASSUME NEW n \in 1..Len(q), T!States(s, p)[k + (n - 1)] = T!States(t, q)[n - 1]
               PROVE  T!States(s, p)[k + n] = T!States(t, q)[n]
    BY <1>0
  <2>1. k + n \in 1..Len(p) /\ (k + n) - 1 = k + (n - 1) /\ q[n] = p[k + n]
    BY <1>0
  <2>2. T!States(s, p)[k + n] = T!ReadCell(T!States(s, p)[k + (n - 1)], p[k + n])
    BY <1>1, <2>1
  <2>3. QED
    BY <1>3, <2>1, <2>2
<1> HIDE DEF S
<1>6. \A n \in 0..Len(q) : n \in S
  BY <1>0, <1>4, <1>5, NumbersUpTo
<1>7. QED
  BY <1>6 DEF S, t

\* What is in the reader after all of a chunk.
Final(s, p) == T!States(s, p)[Len(p)]

LEMMA FinalType ==
    ASSUME NEW s \in Readers, NEW p \in Seq(T!Cells)
    PROVE  Final(s, p) \in Readers
<1>1. Len(p) \in 0..Len(p)
  BY LenProperties
<1>2. QED
  BY <1>1, StatesAre DEF Final

\* A chunk after another is read like both at once.
LEMMA FinalOfConcat ==
    ASSUME NEW s \in Readers, NEW p \in Seq(T!Cells), NEW q \in Seq(T!Cells)
    PROVE  Final(s, p \o q) = Final(Final(s, p), q)
<1>1. /\ Len(p) \in Nat /\ Len(q) \in Nat
      /\ p \o q \in Seq(T!Cells) /\ Len(p \o q) = Len(p) + Len(q)
      /\ \A i \in 1..Len(p) : (p \o q)[i] = p[i]
      /\ \A i \in 1..Len(q) : (p \o q)[Len(p) + i] = q[i]
  <2>1. /\ p \o q \in Seq(T!Cells) /\ Len(p \o q) = Len(p) + Len(q)
        /\ \A i \in 1..Len(p) + Len(q) :
             (p \o q)[i] = IF i <= Len(p) THEN p[i] ELSE q[i - Len(p)]
    BY ConcatProperties
  <2>2. Len(p) \in Nat /\ Len(q) \in Nat
    BY LenProperties
  <2>3. \A i \in 1..Len(p) : (p \o q)[i] = p[i]
    BY <2>1, <2>2
  <2>4. \A i \in 1..Len(q) : (p \o q)[Len(p) + i] = q[i]
    <3> TAKE i \in 1..Len(q)
    <3>1. /\ Len(p) + i \in 1..Len(p) + Len(q)
          /\ ~(Len(p) + i <= Len(p)) /\ (Len(p) + i) - Len(p) = i
      BY <2>2
    <3>2. QED
      BY <2>1, <3>1
  <2>5. QED
    BY <2>1, <2>2, <2>3, <2>4
<1> DEFINE pq == p \o q
<1> HIDE DEF pq
<1>2. T!States(s, p)[Len(p)] = T!States(s, pq)[Len(p)]
  <2>1. pq \in Seq(T!Cells) /\ Len(p) <= Len(pq) /\ \A i \in 1..Len(p) : p[i] = pq[i]
    BY <1>1 DEF pq
  <2>2. Len(p) \in 0..Len(p)
    BY <1>1
  <2>3. QED
    BY <2>1, <2>2, StatesOfPrefix
<1>3. T!States(s, pq)[Len(p) + Len(q)] = T!States(T!States(s, pq)[Len(p)], q)[Len(q)]
  <2>1. /\ pq \in Seq(T!Cells) /\ Len(p) \in 0..Len(pq) /\ Len(q) = Len(pq) - Len(p)
        /\ \A i \in 1..Len(q) : q[i] = pq[Len(p) + i]
    BY <1>1 DEF pq
  <2>2. Len(q) \in 0..Len(q)
    BY <1>1
  <2>3. \A n \in 0..Len(q) : T!States(s, pq)[Len(p) + n] = T!States(T!States(s, pq)[Len(p)], q)[n]
    BY <2>1, StatesOfRest
  <2>4. QED
    BY <2>2, <2>3
<1>4. Len(pq) = Len(p) + Len(q)
  BY <1>1 DEF pq
<1>5. QED
  BY <1>2, <1>3, <1>4 DEF Final, pq

LEMMA RecordIs ==
    ASSUME NEW r \in Readers, NEW h
    PROVE  [r EXCEPT !.found = h] = [state |-> r.state, payload |-> r.payload, found |-> h]
<1>1. r = [state |-> r.state, payload |-> r.payload, found |-> r.found]
  BY DEF Readers
<1> DEFINE a == r.state
           b == r.payload
           c == r.found
<1>2. r = [state |-> a, payload |-> b, found |-> c]
  BY <1>1
<1> HIDE DEF a, b, c
<1>3. [r EXCEPT !.found = h] = [state |-> a, payload |-> b, found |-> h]
  BY <1>2
<1>4. QED
  BY <1>3 DEF a, b

LEMMA ConcatAppend ==
    ASSUME NEW A, NEW s \in Seq(A), NEW t \in Seq(A), NEW x \in A
    PROVE  s \o Append(t, x) = Append(s \o t, x)
<1>1. <<x>> \in Seq(A)
  OBVIOUS
<1>2. s \o t \in Seq(A)
  BY ConcatProperties
<1>3. Append(t, x) = t \o <<x>> /\ Append(s \o t, x) = (s \o t) \o <<x>>
  BY <1>2, AppendIsConcat
<1>4. (s \o t) \o <<x>> = s \o (t \o <<x>>)
  BY <1>1, ConcatAssociative
<1>5. QED
  BY <1>3, <1>4

\* A reader that has found something finds the same from there.
LEMMA FinalAfterFinds ==
    ASSUME NEW s \in Readers, s.found = <<>>, NEW f \in Seq(Seq(T!Cells)),
           NEW p \in Seq(T!Cells)
    PROVE  Final([s EXCEPT !.found = f], p) =
             [Final(s, p) EXCEPT !.found = f \o Final(s, p).found]
<1> DEFINE With(r) == [state |-> r.state, payload |-> r.payload, found |-> f \o r.found]
           S == {n \in 0..Len(p) : T!States(With(s), p)[n] = With(T!States(s, p)[n])}
<1>0. Len(p) \in Nat
  BY LenProperties
<1>1. \A r \in Readers : With(r) \in Readers /\ With(r) = [r EXCEPT !.found = f \o r.found]
  <2> TAKE r \in Readers
  <2>1. r.found \in Seq(Seq(T!Cells))
    BY DEF Readers
  <2>2. f \o r.found \in Seq(Seq(T!Cells))
    BY <2>1, ConcatProperties
  <2> DEFINE h == f \o r.found
  <2>3. h \in Seq(Seq(T!Cells))
    BY <2>2
  <2> HIDE DEF h
  <2>4. [state |-> r.state, payload |-> r.payload, found |-> h] \in Readers
    BY <2>3 DEF Readers
  <2>5. [state |-> r.state, payload |-> r.payload, found |-> h] = [r EXCEPT !.found = h]
    BY RecordIs
  <2>6. QED
    BY <2>4, <2>5 DEF h
<1>2. [s EXCEPT !.found = f] = With(s)
  <2>1. f \o s.found = f
    BY ConcatEmptySeq
  <2>2. QED
    BY <2>1 DEF Readers
<1>3. \A r \in Readers, c \in T!Cells : T!ReadCell(With(r), c) = With(T!ReadCell(r, c))
  <2> TAKE r \in Readers, c \in T!Cells
  <2>0. r.found \in Seq(Seq(T!Cells))
    BY DEF Readers
  <2>1. \A x \in Seq(T!Cells) : f \o Append(r.found, x) = Append(f \o r.found, x)
    BY <2>0, ConcatAppend
  <2>2. r.payload \in Seq(T!Cells) /\ T!Front(r.payload) \in Seq(T!Cells)
    BY FrontIs DEF Readers
  <2>3. /\ f \o Append(r.found, r.payload) = Append(f \o r.found, r.payload)
        /\ f \o Append(r.found, T!Front(r.payload)) = Append(f \o r.found, T!Front(r.payload))
    BY <2>1, <2>2
  <2>4. QED
    BY <2>3 DEF T!ReadCell, Readers, T!Outside
<1>4. /\ T!States(s, p) \in [0..Len(p) -> Readers]
      /\ T!States(s, p)[0] = s
      /\ \A n \in 1..Len(p) : T!States(s, p)[n] = T!ReadCell(T!States(s, p)[n - 1], p[n])
  BY StatesAre
<1> HIDE DEF With
<1>5. /\ T!States(With(s), p)[0] = With(s)
      /\ \A n \in 1..Len(p) :
           T!States(With(s), p)[n] = T!ReadCell(T!States(With(s), p)[n - 1], p[n])
  BY <1>1, StatesAre
<1>6. 0 \in S
  BY <1>0, <1>4, <1>5
<1>7. \A n \in 1..Len(p) : n - 1 \in S => n \in S
  <2> SUFFICES ASSUME NEW n \in 1..Len(p), T!States(With(s), p)[n - 1] = With(T!States(s, p)[n - 1])
               PROVE  T!States(With(s), p)[n] = With(T!States(s, p)[n])
    BY <1>0
  <2>1. n - 1 \in 0..Len(p) /\ p[n] \in T!Cells
    BY <1>0, ElementOfSeq
  <2>2. T!States(s, p)[n - 1] \in Readers
    BY <1>4, <2>1
  <2>3. QED
    BY <1>3, <1>4, <1>5, <2>1, <2>2
<1> HIDE DEF S
<1>8. \A n \in 0..Len(p) : n \in S
  BY <1>0, <1>6, <1>7, NumbersUpTo
<1>9. Final(With(s), p) = With(Final(s, p))
  <2>1. Len(p) \in S
    BY <1>0, <1>8
  <2>2. QED
    BY <2>1 DEF Final, S
<1>10. Final(s, p) \in Readers
  BY FinalType
<1>11. QED
  BY <1>1, <1>2, <1>9, <1>10

-----------------------------------------------------------------------------
(* The scanner                                                             *)

\* Part of a sequence.
LEMMA SubSeqIs ==
    ASSUME NEW s \in Seq(T!Cells), NEW m \in Nat \ {0}, NEW n \in 0..Len(s), m <= n + 1
    PROVE  /\ SubSeq(s, m, n) \in Seq(T!Cells)
           /\ Len(SubSeq(s, m, n)) = n - m + 1
           /\ \A i \in 1..n - m + 1 : SubSeq(s, m, n)[i] = s[m + i - 1]
<1>0. Len(s) \in Nat /\ m \in Int /\ n \in Int
  BY LenProperties
<1>1. \A i \in m..n : s[i] \in T!Cells
  <2> TAKE i \in m..n
  <2>1. i \in 1..Len(s)
    BY <1>0
  <2>2. QED
    BY <2>1, ElementOfSeq
<1>2. /\ SubSeq(s, m, n) \in Seq(T!Cells)
      /\ Len(SubSeq(s, m, n)) = IF m <= n THEN n - m + 1 ELSE 0
      /\ \A i \in 1..n - m + 1 : SubSeq(s, m, n)[i] = s[m + i - 1]
  BY <1>0, <1>1, SubSeqProperties
<1>3. QED
  BY <1>0, <1>2

\* Where the first report begins ...
BeginsAt(p, i) == T!At(p, i, "esc", "]7;")

LEMMA BeginsIs ==
    ASSUME NEW p \in Seq(T!Cells), T!Begins(p) # {}
    PROVE  /\ T!Min(T!Begins(p)) \in 1..Len(p) - 1
           /\ p[T!Min(T!Begins(p))] = "esc" /\ p[T!Min(T!Begins(p)) + 1] = "]7;"
           /\ \A i \in 1..T!Min(T!Begins(p)) - 1 : ~BeginsAt(p, i)
<1>0. Len(p) \in Nat /\ DOMAIN p = 1..Len(p)
  BY LenProperties
<1>1. \A i : i \in T!Begins(p) <=> i \in 1..Len(p) /\ BeginsAt(p, i)
  BY <1>0 DEF T!Begins, BeginsAt
<1>2. T!Begins(p) \in SUBSET Nat
  <2>1. \A i \in T!Begins(p) : i \in Nat
    BY <1>0, <1>1
  <2>2. QED
    BY <2>1
<1>3. T!Min(T!Begins(p)) \in T!Begins(p) /\ \A y \in T!Begins(p) : T!Min(T!Begins(p)) <= y
  BY <1>2, LeastIs
<1> DEFINE b == T!Min(T!Begins(p))
<1>4. b \in 1..Len(p) /\ BeginsAt(p, b) /\ \A y \in T!Begins(p) : b <= y
  BY <1>1, <1>3
<1> HIDE DEF b
<1>5. b \in 1..Len(p) - 1 /\ p[b] = "esc" /\ p[b + 1] = "]7;"
  <2>1. b < Len(p) /\ p[b] = "esc" /\ p[b + 1] = "]7;"
    BY <1>4 DEF BeginsAt, T!At
  <2>2. b \in 1..Len(p) - 1
    <3>1. b < Len(p)
      BY <2>1
    <3>2. QED
      BY <1>0, <1>4, <3>1
  <2>3. QED
    BY <2>1, <2>2
<1>6. \A i \in 1..b - 1 : ~BeginsAt(p, i)
  <2> SUFFICES ASSUME NEW i \in 1..b - 1, BeginsAt(p, i) PROVE FALSE
    OBVIOUS
  <2>1. i \in 1..Len(p) /\ i < b
    BY <1>0, <1>4
  <2>2. i \in T!Begins(p)
    BY <1>1, <2>1
  <2>3. b <= i /\ b \in Nat /\ i \in Nat
    BY <1>4, <2>2
  <2>4. QED
    BY <2>1, <2>3
<1>7. QED
  BY <1>5, <1>6 DEF b

LEMMA NoBegins ==
    ASSUME NEW p \in Seq(T!Cells), T!Begins(p) = {}
    PROVE  \A i \in 1..Len(p) : ~BeginsAt(p, i)
<1>1. DOMAIN p = 1..Len(p)
  BY LenProperties
<1>2. QED
  BY <1>1 DEF T!Begins, BeginsAt

\* ... and where it ends, if it does.
EndsAt(body, i) == body[i] = "bel" \/ T!At(body, i, "esc", "\\")

LEMMA EndsIs ==
    ASSUME NEW body \in Seq(T!Cells), T!Ends(body) # {}
    PROVE  /\ T!Min(T!Ends(body)) \in 0..Len(body) - 1
           /\ EndsAt(body, T!Min(T!Ends(body)) + 1)
           /\ \A i \in 1..T!Min(T!Ends(body)) : ~EndsAt(body, i)
           /\ T!Width(body, T!Min(T!Ends(body))) \in {1, 2}
           /\ T!Min(T!Ends(body)) + T!Width(body, T!Min(T!Ends(body))) <= Len(body)
<1> DEFINE E == {i \in DOMAIN body : EndsAt(body, i)}
<1>0. Len(body) \in Nat /\ DOMAIN body = 1..Len(body)
  BY LenProperties
<1>1. T!Ends(body) = {i - 1 : i \in E}
  BY DEF T!Ends, EndsAt
<1>2. \A i \in E : i \in 1..Len(body) /\ EndsAt(body, i)
  BY <1>0
<1>3. T!Ends(body) \in SUBSET Nat
  BY <1>0, <1>1, <1>2
<1>4. T!Min(T!Ends(body)) \in T!Ends(body) /\ \A y \in T!Ends(body) : T!Min(T!Ends(body)) <= y
  BY <1>3, LeastIs
<1>5. PICK e \in T!Ends(body) : e = T!Min(T!Ends(body)) /\ \A y \in T!Ends(body) : e <= y
  BY <1>4
<1>6. PICK i \in E : e = i - 1
  BY <1>1, <1>5
<1>7. e \in 0..Len(body) - 1 /\ e + 1 = i
  BY <1>0, <1>2, <1>6
<1>8. \A k \in 1..e : ~EndsAt(body, k)
  <2> SUFFICES ASSUME NEW k \in 1..e, EndsAt(body, k) PROVE FALSE
    OBVIOUS
  <2>1. k \in DOMAIN body
    BY <1>0, <1>7
  <2>2. k - 1 \in T!Ends(body)
    BY <1>1, <2>1
  <2>3. e <= k - 1
    BY <1>5, <2>2
  <2>4. QED
    BY <1>7, <2>3
<1>9. EndsAt(body, e + 1)
  BY <1>2, <1>7
<1>10. T!Width(body, e) \in {1, 2} /\ e + T!Width(body, e) <= Len(body)
  <2>1. CASE body[e + 1] = "bel"
    BY <1>0, <1>7, <2>1 DEF T!Width
  <2>2. CASE body[e + 1] # "bel"
    <3>1. T!At(body, e + 1, "esc", "\\")
      BY <1>9, <2>2 DEF EndsAt
    <3>2. e + 1 < Len(body)
      BY <3>1 DEF T!At
    <3>3. QED
      BY <1>0, <1>7, <2>2, <3>2 DEF T!Width
  <2>3. QED
    BY <2>1, <2>2
<1>11. QED
  BY <1>5, <1>7, <1>8, <1>9, <1>10

LEMMA NoEnds ==
    ASSUME NEW body \in Seq(T!Cells), T!Ends(body) = {}
    PROVE  \A i \in 1..Len(body) : ~EndsAt(body, i)
<1>1. DOMAIN body = 1..Len(body)
  BY LenProperties
<1>2. QED
  BY <1>1 DEF T!Ends, EndsAt

\* What the first round of feed makes of p, and what is left for the next.
Body(p) == SubSeq(p, T!Min(T!Begins(p)) + 2, Len(p))
End(p) == T!Min(T!Ends(Body(p)))
Left(p) == SubSeq(Body(p), End(p) + T!Width(Body(p), End(p)) + 1, Len(Body(p)))
Held(p) == SubSeq(p, T!Min(T!Begins(p)), Len(p))

LEMMA BodyIs ==
    ASSUME NEW p \in Seq(T!Cells), T!Begins(p) # {}
    PROVE  /\ Body(p) \in Seq(T!Cells) /\ Held(p) \in Seq(T!Cells)
           /\ Len(Body(p)) = Len(p) - (T!Min(T!Begins(p)) + 1)
           /\ \A i \in 1..Len(Body(p)) : Body(p)[i] = p[T!Min(T!Begins(p)) + 1 + i]
           /\ Len(Held(p)) = Len(Body(p)) + 2
           /\ \A i \in 1..Len(Held(p)) : Held(p)[i] = p[T!Min(T!Begins(p)) - 1 + i]
<1> DEFINE b == T!Min(T!Begins(p))
<1>0. Len(p) \in Nat /\ b \in 1..Len(p) - 1
  BY LenProperties, BeginsIs
<1> HIDE DEF b
<1>1. /\ b + 2 \in Nat \ {0} /\ b \in Nat \ {0} /\ Len(p) \in 0..Len(p)
      /\ b + 2 <= Len(p) + 1 /\ b <= Len(p) + 1
  BY <1>0
<1>2. /\ SubSeq(p, b + 2, Len(p)) \in Seq(T!Cells)
      /\ Len(SubSeq(p, b + 2, Len(p))) = Len(p) - (b + 2) + 1
      /\ \A i \in 1..Len(p) - (b + 2) + 1 : SubSeq(p, b + 2, Len(p))[i] = p[b + 2 + i - 1]
  BY <1>1, SubSeqIs
<1>3. /\ SubSeq(p, b, Len(p)) \in Seq(T!Cells)
      /\ Len(SubSeq(p, b, Len(p))) = Len(p) - b + 1
      /\ \A i \in 1..Len(p) - b + 1 : SubSeq(p, b, Len(p))[i] = p[b + i - 1]
  BY <1>1, SubSeqIs
<1>4. Body(p) = SubSeq(p, b + 2, Len(p)) /\ Held(p) = SubSeq(p, b, Len(p))
  BY DEF Body, Held, b
<1>5. /\ Len(Body(p)) = Len(p) - (b + 1)
      /\ \A i \in 1..Len(Body(p)) : Body(p)[i] = p[b + 1 + i]
  <2>1. Len(p) - (b + 2) + 1 = Len(p) - (b + 1)
    BY <1>0
  <2>2. \A i \in 1..Len(p) - (b + 1) : b + 2 + i - 1 = b + 1 + i
    BY <1>0
  <2>3. QED
    BY <1>2, <1>4, <2>1, <2>2
<1>6. /\ Len(Held(p)) = Len(p) - b + 1
      /\ \A i \in 1..Len(Held(p)) : Held(p)[i] = p[b - 1 + i]
  <2>1. \A i \in 1..Len(p) - b + 1 : b + i - 1 = b - 1 + i
    BY <1>0
  <2>2. QED
    BY <1>3, <1>4, <2>1
<1>7. Len(p) - b + 1 = Len(p) - (b + 1) + 2
  BY <1>0
<1>8. QED
  BY <1>2, <1>3, <1>4, <1>5, <1>6, <1>7 DEF b

LEMMA LeftIs ==
    ASSUME NEW p \in Seq(T!Cells), T!Begins(p) # {}, T!Ends(Body(p)) # {}
    PROVE  /\ Left(p) \in Seq(T!Cells)
           /\ Len(Left(p)) = Len(Body(p)) - (End(p) + T!Width(Body(p), End(p)))
           /\ \A i \in 1..Len(Left(p)) :
                Left(p)[i] = Body(p)[End(p) + T!Width(Body(p), End(p)) + i]
           /\ Len(Left(p)) < Len(p)
           /\ SubSeq(Body(p), 1, End(p)) \in Seq(T!Cells)
<1> DEFINE body == Body(p)
           e == End(p)
           w == T!Width(body, e)
<1>1. /\ body \in Seq(T!Cells) /\ Len(body) = Len(p) - (T!Min(T!Begins(p)) + 1)
      /\ Len(body) \in Nat /\ Len(p) \in Nat /\ T!Min(T!Begins(p)) \in 1..Len(p) - 1
  BY BodyIs, BeginsIs, LenProperties
<1>2. e \in 0..Len(body) - 1 /\ w \in {1, 2} /\ e + w <= Len(body)
  BY <1>1, EndsIs DEF End
<1>3. Left(p) = SubSeq(body, e + w + 1, Len(body))
  BY DEF Left
<1> HIDE DEF body, e, w
<1>4. /\ e + w + 1 \in Nat \ {0} /\ Len(body) \in 0..Len(body)
      /\ e + w + 1 <= Len(body) + 1
  BY <1>1, <1>2
<1>5. /\ SubSeq(body, e + w + 1, Len(body)) \in Seq(T!Cells)
      /\ Len(SubSeq(body, e + w + 1, Len(body))) = Len(body) - (e + w + 1) + 1
      /\ \A i \in 1..Len(body) - (e + w + 1) + 1 :
           SubSeq(body, e + w + 1, Len(body))[i] = body[e + w + 1 + i - 1]
  BY <1>1, <1>4, SubSeqIs
<1>6. Len(body) - (e + w + 1) + 1 = Len(body) - (e + w)
  BY <1>1, <1>2
<1>7. \A i \in 1..Len(body) - (e + w) : e + w + 1 + i - 1 = e + w + i
  BY <1>1, <1>2
<1>8. Len(body) - (e + w) < Len(p)
  BY <1>1, <1>2
<1>9. SubSeq(body, 1, e) \in Seq(T!Cells)
  <2>1. 1 \in Nat \ {0} /\ e \in 0..Len(body) /\ 1 <= e + 1
    BY <1>1, <1>2
  <2>2. QED
    BY <1>1, <2>1, SubSeqIs
<1>10. QED
  BY <1>3, <1>5, <1>6, <1>7, <1>8, <1>9 DEF body, e, w

-----------------------------------------------------------------------------
(* What the scanner finds and what the reader finds                        *)

\* Before a report begins there is text, or an ESC that one may begin with.
TextAfter(p, n) ==
    [state |-> IF n > 0 /\ p[n] = "esc" THEN "esc" ELSE "text",
     payload |-> <<>>, found |-> <<>>]

LEMMA TextStates ==
    ASSUME NEW p \in Seq(T!Cells), NEW m \in 0..Len(p), \A i \in 1..m - 1 : ~BeginsAt(p, i)
    PROVE  \A n \in 0..m : T!States(T!Outside, p)[n] = TextAfter(p, n)
<1> DEFINE S == {n \in Nat : T!States(T!Outside, p)[n] = TextAfter(p, n)}
<1>0. Len(p) \in Nat /\ m \in Nat /\ T!Outside \in Readers
  <2>1. <<>> \in Seq(T!Cells) /\ <<>> \in Seq(Seq(T!Cells))
    BY EmptySeq
  <2>2. T!Outside \in Readers
    BY <2>1 DEF T!Outside, Readers
  <2>3. Len(p) \in Nat
    BY LenProperties
  <2>4. QED
    BY <2>2, <2>3
<1>1. /\ T!States(T!Outside, p)[0] = T!Outside
      /\ \A n \in 1..Len(p) :
           T!States(T!Outside, p)[n] = T!ReadCell(T!States(T!Outside, p)[n - 1], p[n])
  BY <1>0, StatesAre
<1>2. 0 \in S
  <2>1. ~(0 > 0)
    OBVIOUS
  <2>2. TextAfter(p, 0) = T!Outside
    BY <2>1 DEF TextAfter, T!Outside
  <2>3. QED
    BY <1>1, <2>2
<1>3. \A n \in 1..m : n - 1 \in S => n \in S
  <2> SUFFICES ASSUME NEW n \in 1..m, T!States(T!Outside, p)[n - 1] = TextAfter(p, n - 1)
               PROVE  T!States(T!Outside, p)[n] = TextAfter(p, n)
    BY <1>0
  <2>0. n > 0 /\ n \in 1..Len(p) /\ n - 1 < Len(p) /\ (n - 1) + 1 = n
    BY <1>0
  <2>9. n - 1 > 0 => n - 1 \in 1..m - 1
    BY <1>0
  <2>1. T!States(T!Outside, p)[n] = T!ReadCell(TextAfter(p, n - 1), p[n])
    BY <1>1, <2>0
  <2>2. p[n] = "]7;" => ~(n - 1 > 0 /\ p[n - 1] = "esc")
    <3> SUFFICES ASSUME p[n] = "]7;", n - 1 > 0, p[n - 1] = "esc" PROVE FALSE
      OBVIOUS
    <3>1. BeginsAt(p, n - 1)
      <4>1. n - 1 < Len(p) /\ p[(n - 1) + 1] = "]7;"
        BY <2>0
      <4>2. QED
        BY <4>1 DEF BeginsAt, T!At
    <3>2. QED
      BY <2>9, <3>1
  <2>3. p[n] \in T!Cells
    BY <2>0, ElementOfSeq
  <2> DEFINE here == IF n - 1 > 0 /\ p[n - 1] = "esc" THEN "esc" ELSE "text"
  <2>4. TextAfter(p, n - 1) = [state |-> here, payload |-> <<>>, found |-> <<>>]
    BY DEF TextAfter
  <2>5. here \in {"text", "esc"} /\ (p[n] = "]7;" => here # "esc")
    BY <2>2
  <2> HIDE DEF here
  <2>6. CASE p[n] = "esc"
    BY <2>0, <2>1, <2>4, <2>5, <2>6 DEF T!ReadCell, TextAfter
  <2>7. CASE p[n] # "esc"
    BY <2>0, <2>1, <2>4, <2>5, <2>7 DEF T!ReadCell, TextAfter
  <2>8. QED
    BY <2>6, <2>7
<1> HIDE DEF S
<1>4. \A n \in 0..m : n \in S
  BY <1>0, <1>2, <1>3, NumbersUpTo
<1>5. QED
  BY <1>4 DEF S

\* Before a report ends there is its payload, and maybe an ESC that ends it.
InReport == [state |-> "report", payload |-> <<>>, found |-> <<>>]
ReportAfter(body, n) ==
    [state |-> IF n > 0 /\ body[n] = "esc" THEN "closing" ELSE "report",
     payload |-> SubSeq(body, 1, n), found |-> <<>>]

LEMMA Append1 ==
    ASSUME NEW s \in Seq(T!Cells), NEW n \in 1..Len(s)
    PROVE  Append(SubSeq(s, 1, n - 1), s[n]) = SubSeq(s, 1, n)
<1>0. Len(s) \in Nat /\ s[n] \in T!Cells
  BY LenProperties, ElementOfSeq
<1>1. 1 \in 1..Len(s) /\ n \in 1..Len(s)
  BY <1>0
<1>2. SubSeq(s, 1, n) = SubSeq(s, 1, n - 1) \o <<s[n]>>
  BY <1>1, SubSeqRecursiveSecond
<1>3. SubSeq(s, 1, n - 1) \in Seq(T!Cells)
  <2>1. 1 \in Nat \ {0} /\ n - 1 \in 0..Len(s) /\ 1 <= (n - 1) + 1
    BY <1>0
  <2>2. QED
    BY <2>1, SubSeqIs
<1>4. Append(SubSeq(s, 1, n - 1), s[n]) = SubSeq(s, 1, n - 1) \o <<s[n]>>
  BY <1>0, <1>3, AppendIsConcat
<1>5. QED
  BY <1>2, <1>4

LEMMA ReportStates ==
    ASSUME NEW body \in Seq(T!Cells), NEW m \in 0..Len(body),
           \A i \in 1..m : body[i] # "bel" /\ (i < m => ~EndsAt(body, i))
    PROVE  \A n \in 0..m : T!States(InReport, body)[n] = ReportAfter(body, n)
<1> DEFINE S == {n \in Nat : T!States(InReport, body)[n] = ReportAfter(body, n)}
<1>0. Len(body) \in Nat /\ m \in Nat /\ InReport \in Readers
  <2>1. <<>> \in Seq(T!Cells) /\ <<>> \in Seq(Seq(T!Cells))
    BY EmptySeq
  <2>2. InReport \in Readers
    BY <2>1 DEF InReport, Readers
  <2>3. Len(body) \in Nat
    BY LenProperties
  <2>4. QED
    BY <2>2, <2>3
<1>1. /\ T!States(InReport, body)[0] = InReport
      /\ \A n \in 1..Len(body) :
           T!States(InReport, body)[n] = T!ReadCell(T!States(InReport, body)[n - 1], body[n])
  BY <1>0, StatesAre
<1>2. 0 \in S
  <2>1. ~(0 > 0) /\ SubSeq(body, 1, 0) = <<>>
    BY SubSeqEmpty
  <2>2. ReportAfter(body, 0) = InReport
    BY <2>1 DEF ReportAfter, InReport
  <2>3. QED
    BY <1>1, <2>2
<1>3. \A n \in 1..m : n - 1 \in S => n \in S
  <2> SUFFICES ASSUME NEW n \in 1..m, T!States(InReport, body)[n - 1] = ReportAfter(body, n - 1)
               PROVE  T!States(InReport, body)[n] = ReportAfter(body, n)
    BY <1>0
  <2>0. n > 0 /\ n \in 1..Len(body) /\ n - 1 < Len(body) /\ (n - 1) + 1 = n
    BY <1>0
  <2>1. T!States(InReport, body)[n] = T!ReadCell(ReportAfter(body, n - 1), body[n])
    BY <1>1, <2>0
  <2>2. body[n] = "\\" => ~(n - 1 > 0 /\ body[n - 1] = "esc")
    <3> SUFFICES ASSUME body[n] = "\\", n - 1 > 0, body[n - 1] = "esc" PROVE FALSE
      OBVIOUS
    <3>1. EndsAt(body, n - 1)
      <4>1. n - 1 < Len(body) /\ body[(n - 1) + 1] = "\\"
        BY <2>0
      <4>2. QED
        BY <4>1 DEF EndsAt, T!At
    <3>2. n - 1 > 0
      OBVIOUS
    <3>3. n - 1 \in 1..m /\ n - 1 < m
      BY <1>0, <3>2
    <3>4. QED
      BY <3>1, <3>3
  <2>3. body[n] \in T!Cells /\ body[n] # "bel"
    BY <2>0, ElementOfSeq
  <2>4. Append(SubSeq(body, 1, n - 1), body[n]) = SubSeq(body, 1, n)
    BY <2>0, Append1
  <2> DEFINE here == IF n - 1 > 0 /\ body[n - 1] = "esc" THEN "closing" ELSE "report"
             read == SubSeq(body, 1, n - 1)
  <2>5. ReportAfter(body, n - 1) = [state |-> here, payload |-> read, found |-> <<>>]
    BY DEF ReportAfter
  <2>6. here \in {"report", "closing"} /\ (body[n] = "\\" => here # "closing")
    BY <2>2
  <2>7. Append(read, body[n]) = SubSeq(body, 1, n)
    BY <2>4
  <2> HIDE DEF here, read
  <2>8. CASE body[n] = "esc"
    BY <2>0, <2>1, <2>5, <2>6, <2>7, <2>8 DEF T!ReadCell, ReportAfter
  <2>9. CASE body[n] # "esc"
    BY <2>0, <2>1, <2>3, <2>5, <2>6, <2>7, <2>9 DEF T!ReadCell, ReportAfter
  <2>10. QED
    BY <2>8, <2>9
<1> HIDE DEF S
<1>4. \A n \in 0..m : n \in S
  BY <1>0, <1>2, <1>3, NumbersUpTo
<1>5. QED
  BY <1>4 DEF S

\* The recursion of Scan, with the earlier results as a function.
Scans == [found : Seq(Seq(T!Cells)), pending : Seq(T!Cells)]
ScanOf(f, p) ==
    LET body == SubSeq(p, T!Min(T!Begins(p)) + 2, Len(p))
        end  == T!Min(T!Ends(body))
        after == f[SubSeq(body, end + T!Width(body, end) + 1, Len(body))]
    IN  CASE T!Begins(p) = {} -> [found |-> <<>>, pending |-> T!Kept(p)]
          [] T!Begins(p) # {} /\ T!Ends(body) # {} ->
               [after EXCEPT !.found = <<SubSeq(body, 1, end)>> \o @]
          [] T!Begins(p) # {} /\ T!Ends(body) = {} ->
               [found |-> <<>>, pending |-> IF Len(body) > MaxPayload THEN <<>>
                                            ELSE SubSeq(p, T!Min(T!Begins(p)), Len(p))]

LEMMA ScanOfIs ==
    ASSUME NEW f, NEW p
    PROVE  /\ T!Begins(p) = {} => ScanOf(f, p) = [found |-> <<>>, pending |-> T!Kept(p)]
           /\ T!Begins(p) # {} /\ T!Ends(Body(p)) # {} =>
                ScanOf(f, p) = [f[Left(p)] EXCEPT
                                  !.found = <<SubSeq(Body(p), 1, End(p))>> \o @]
           /\ T!Begins(p) # {} /\ T!Ends(Body(p)) = {} =>
                ScanOf(f, p) = [found |-> <<>>,
                                pending |-> IF Len(Body(p)) > MaxPayload THEN <<>> ELSE Held(p)]
<1>1. CASE T!Begins(p) = {}
  BY <1>1 DEF ScanOf
<1>2. CASE T!Begins(p) # {} /\ T!Ends(Body(p)) # {}
  BY <1>2 DEF ScanOf, Left, Body, End
<1>3. CASE T!Begins(p) # {} /\ T!Ends(Body(p)) = {}
  BY <1>3 DEF ScanOf, Body, Held
<1>4. QED
  BY <1>1, <1>2, <1>3

LEMMA KeptIs ==
    ASSUME NEW p \in Seq(T!Cells), KeepTail \in Nat \ {0}
    PROVE  /\ T!Kept(p) \in Seq(T!Cells)
           /\ Len(T!Kept(p)) = IF Len(p) > KeepTail THEN KeepTail ELSE Len(p)
           /\ \A i \in 1..Len(T!Kept(p)) : T!Kept(p)[i] = p[Len(p) - Len(T!Kept(p)) + i]
<1>0. Len(p) \in Nat
  BY LenProperties
<1>1. CASE Len(p) > KeepTail
  <2> DEFINE m == Len(p) - KeepTail + 1
  <2>1. m \in Nat \ {0} /\ Len(p) \in 0..Len(p) /\ m <= Len(p) + 1
    BY <1>0, <1>1
  <2>2. /\ SubSeq(p, m, Len(p)) \in Seq(T!Cells)
        /\ Len(SubSeq(p, m, Len(p))) = Len(p) - m + 1
        /\ \A i \in 1..Len(p) - m + 1 : SubSeq(p, m, Len(p))[i] = p[m + i - 1]
    BY <2>1, SubSeqIs
  <2>3. Len(p) - m + 1 = KeepTail /\ \A i \in 1..KeepTail : m + i - 1 = Len(p) - KeepTail + i
    BY <1>0
  <2>4. T!Kept(p) = SubSeq(p, m, Len(p))
    BY <1>1 DEF T!Kept, T!LastOf
  <2> HIDE DEF m
  <2>5. QED
    BY <1>1, <2>2, <2>3, <2>4
<1>2. CASE ~(Len(p) > KeepTail)
  <2>1. T!Kept(p) = p
    BY <1>2 DEF T!Kept, T!LastOf
  <2>2. \A i \in 1..Len(p) : Len(p) - Len(p) + i = i
    BY <1>0
  <2>3. QED
    BY <1>2, <2>1, <2>2
<1>3. QED
  BY <1>1, <1>2

LEMMA ScanOfType ==
    ASSUME NEW f, NEW p \in Seq(T!Cells), KeepTail \in Nat \ {0},
           \A q \in Seq(T!Cells) : Len(q) < Len(p) => f[q] \in Scans
    PROVE  ScanOf(f, p) \in Scans
<1>0. <<>> \in Seq(T!Cells) /\ <<>> \in Seq(Seq(T!Cells))
  BY EmptySeq
<1>1. CASE T!Begins(p) = {}
  <2>1. ScanOf(f, p) = [found |-> <<>>, pending |-> T!Kept(p)]
    BY <1>1, ScanOfIs
  <2>2. T!Kept(p) \in Seq(T!Cells)
    BY KeptIs
  <2>3. QED
    BY <1>0, <2>1, <2>2 DEF Scans
<1>2. CASE T!Begins(p) # {} /\ T!Ends(Body(p)) # {}
  <2> DEFINE after == f[Left(p)]
             x == SubSeq(Body(p), 1, End(p))
  <2>1. after \in Scans /\ x \in Seq(T!Cells)
    BY <1>2, LeftIs
  <2>2. ScanOf(f, p) = [after EXCEPT !.found = <<x>> \o @]
    BY <1>2, ScanOfIs
  <2> HIDE DEF after, x
  <2>3. after.found \in Seq(Seq(T!Cells)) /\ <<x>> \in Seq(Seq(T!Cells))
    BY <2>1 DEF Scans
  <2>4. <<x>> \o after.found \in Seq(Seq(T!Cells))
    BY <2>3, ConcatProperties
  <2>5. QED
    BY <2>1, <2>2, <2>4 DEF Scans
<1>3. CASE T!Begins(p) # {} /\ T!Ends(Body(p)) = {}
  <2> DEFINE kept == IF Len(Body(p)) > MaxPayload THEN <<>> ELSE Held(p)
  <2>1. ScanOf(f, p) = [found |-> <<>>, pending |-> kept]
    BY <1>3, ScanOfIs
  <2>2. kept \in Seq(T!Cells)
    BY <1>0, <1>3, BodyIs
  <2> HIDE DEF kept
  <2>3. QED
    BY <1>0, <2>1, <2>2 DEF Scans
<1>4. QED
  BY <1>1, <1>2, <1>3

LEMMA ScanOfSame ==
    ASSUME NEW f, NEW g, NEW p \in Seq(T!Cells),
           \A q \in Seq(T!Cells) : Len(q) < Len(p) => f[q] = g[q]
    PROVE  ScanOf(f, p) = ScanOf(g, p)
<1>1. CASE T!Begins(p) = {}
  BY <1>1, ScanOfIs
<1>2. CASE T!Begins(p) # {} /\ T!Ends(Body(p)) # {}
  <2>1. f[Left(p)] = g[Left(p)]
    BY <1>2, LeftIs
  <2>2. /\ ScanOf(f, p) = [f[Left(p)] EXCEPT !.found = <<SubSeq(Body(p), 1, End(p))>> \o @]
        /\ ScanOf(g, p) = [g[Left(p)] EXCEPT !.found = <<SubSeq(Body(p), 1, End(p))>> \o @]
    BY <1>2, ScanOfIs
  <2>3. QED
    BY <2>1, <2>2, Zenon
<1>3. CASE T!Begins(p) # {} /\ T!Ends(Body(p)) = {}
  BY <1>3, ScanOfIs
<1>4. QED
  BY <1>1, <1>2, <1>3

\* Scan conforms to its definition, and has its type.
LEMMA ScanIs ==
    ASSUME KeepTail \in Nat \ {0}, NEW p \in Seq(T!Cells)
    PROVE  T!Scan[p] = ScanOf(T!Scan, p) /\ T!Scan[p] \in Scans
<1> DEFINE D == Seq(T!Cells)
           R == Scans
           size == [q \in D |-> Len(q)]
           G == [f \in [D -> R] |-> [q \in D |-> ScanOf(f, q)]]
<1>1. \A f \in [D -> R] : \A q \in D : ScanOf(f, q) \in R
  BY ScanOfType
<1>2. \A f, g \in [D -> R] : \A d \in D :
        (\A e \in D : size[e] < size[d] => f[e] = g[e]) => ScanOf(f, d) = ScanOf(g, d)
  <2> SUFFICES ASSUME NEW f \in [D -> R], NEW g \in [D -> R], NEW d \in D,
                      \A e \in D : size[e] < size[d] => f[e] = g[e]
               PROVE  ScanOf(f, d) = ScanOf(g, d)
    OBVIOUS
  <2>1. \A e \in D : Len(e) < Len(d) => f[e] = g[e]
    OBVIOUS
  <2>2. QED
    BY <2>1, ScanOfSame
<1>3. size \in [D -> Nat]
  BY LenProperties
<1>4. [D -> R] # {}
  <2>1. [found |-> <<>>, pending |-> <<>>] \in R
    BY EmptySeq DEF Scans
  <2>2. [q \in D |-> [found |-> <<>>, pending |-> <<>>]] \in [D -> R]
    BY <2>1
  <2>3. QED
    BY <2>2
<1> HIDE DEF R, size, D
<1>5. G \in [[D -> R] -> [D -> R]]
  BY <1>1
<1>6. LooksBack(G, D, R, size)
  BY <1>2 DEF LooksBack
<1>7. \A f \in [D -> R] : G[f] = [q \in D |-> ScanOf(f, q)]
  OBVIOUS
<1> HIDE DEF G
<1>8. \E f : f \in [D -> R] /\ Solves(f, G)
  BY <1>3, <1>4, <1>5, <1>6, Solution, Zenon
<1>9. \E f : f = [q \in D |-> ScanOf(f, q)]
  BY <1>7, <1>8 DEF Solves
<1>10. T!Scan = CHOOSE f : f = [q \in D |-> ScanOf(f, q)]
  BY DEF T!Scan, ScanOf, D
<1>11. T!Scan = [q \in D |-> ScanOf(T!Scan, q)]
  BY <1>9, <1>10
<1>12. \A q \in Seq(T!Cells) : T!Scan[q] = ScanOf(T!Scan, q)
  BY <1>11 DEF D
<1> DEFINE S == {n \in Nat : \A q \in Seq(T!Cells) : Len(q) = n => T!Scan[q] \in Scans}
<1>13. \A n \in Nat : n \in S
  <2>1. S \in SUBSET Nat
    OBVIOUS
  <2>2. \A n \in Nat : (\A m \in 0..n - 1 : m \in S) => n \in S
    <3> SUFFICES ASSUME NEW n \in Nat, \A m \in 0..n - 1 : m \in S,
                        NEW q \in Seq(T!Cells), Len(q) = n
                 PROVE  T!Scan[q] \in Scans
      OBVIOUS
    <3>1. \A r \in Seq(T!Cells) : Len(r) < Len(q) => T!Scan[r] \in Scans
      <4> SUFFICES ASSUME NEW r \in Seq(T!Cells), Len(r) < Len(q) PROVE T!Scan[r] \in Scans
        OBVIOUS
      <4>1. Len(r) \in 0..n - 1
        BY LenProperties
      <4>2. QED
        BY <4>1
    <3>2. QED
      BY <1>12, <3>1, ScanOfType
  <2> HIDE DEF S
  <2>3. QED
    BY <2>1, <2>2, AllNumbers
<1>14. Len(p) \in Nat
  BY LenProperties
<1>15. QED
  BY <1>12, <1>13, <1>14

\* Reading through a begin leads into a report ...
LEMMA ReadsIntoReport ==
    ASSUME NEW p \in Seq(T!Cells), NEW b \in 1..Len(p) - 1,
           BeginsAt(p, b), \A i \in 1..b - 1 : ~BeginsAt(p, i),
           NEW body \in Seq(T!Cells), Len(body) = Len(p) - (b + 1),
           \A i \in 1..Len(body) : body[i] = p[b + 1 + i]
    PROVE  Final(T!Outside, p) = Final(InReport, body)
<1>0. /\ Len(p) \in Nat /\ Len(body) \in Nat /\ b \in 0..Len(p) /\ b > 0
      /\ b + 1 \in 1..Len(p) /\ b + 1 \in 0..Len(p) /\ (b + 1) - 1 = b
      /\ (b + 1) + Len(body) = Len(p)
  BY LenProperties
<1>1. T!Outside \in Readers
  BY EmptySeq DEF T!Outside, Readers
<1>2. T!States(T!Outside, p)[b] = TextAfter(p, b)
  <2>1. b \in 0..b
    BY <1>0
  <2>2. \A n \in 0..b : T!States(T!Outside, p)[n] = TextAfter(p, n)
    BY <1>0, TextStates
  <2>3. QED
    BY <2>1, <2>2
<1>a. p[b] = "esc" /\ p[b + 1] = "]7;"
  BY DEF BeginsAt, T!At
<1>3. TextAfter(p, b) = [state |-> "esc", payload |-> <<>>, found |-> <<>>]
  BY <1>0, <1>a DEF TextAfter
<1>4. T!States(T!Outside, p)[b + 1] = T!ReadCell(T!States(T!Outside, p)[b], p[b + 1])
  <2>1. \A n \in 1..Len(p) :
          T!States(T!Outside, p)[n] = T!ReadCell(T!States(T!Outside, p)[n - 1], p[n])
    BY <1>1, StatesAre
  <2>2. QED
    BY <1>0, <2>1
<1>5. T!States(T!Outside, p)[b + 1] = InReport
  <2>1. T!ReadCell([state |-> "esc", payload |-> <<>>, found |-> <<>>], "]7;") = InReport
    BY DEF T!ReadCell, InReport
  <2>2. QED
    BY <1>2, <1>3, <1>4, <1>a, <2>1
<1>6. \A n \in 0..Len(body) :
        T!States(T!Outside, p)[(b + 1) + n] = T!States(T!States(T!Outside, p)[b + 1], body)[n]
  <2>1. \A i \in 1..Len(body) : body[i] = p[(b + 1) + i]
    OBVIOUS
  <2>2. QED
    BY <1>0, <1>1, <2>1, StatesOfRest
<1>7. Len(body) \in 0..Len(body)
  BY <1>0
<1>8. T!States(T!Outside, p)[(b + 1) + Len(body)] = T!States(T!States(T!Outside, p)[b + 1], body)[Len(body)]
  BY <1>6, <1>7
<1>9. QED
  BY <1>0, <1>5, <1>8 DEF Final

LEMMA FinalOfBody ==
    ASSUME NEW p \in Seq(T!Cells), T!Begins(p) # {}
    PROVE  /\ Final(T!Outside, p) = Final(InReport, Body(p))
           /\ Final(T!Outside, Held(p)) = Final(InReport, Body(p))
<1> DEFINE b == T!Min(T!Begins(p))
           body == Body(p)
           held == Held(p)
<1>1. /\ Len(p) \in Nat /\ b \in 1..Len(p) - 1
      /\ \A i \in 1..b - 1 : ~BeginsAt(p, i)
  BY LenProperties, BeginsIs
<1>a. p[b] = "esc" /\ p[b + 1] = "]7;"
  BY BeginsIs
<1>b. BeginsAt(p, b)
  <2>1. b < Len(p)
    BY <1>1
  <2>2. QED
    BY <1>a, <2>1 DEF BeginsAt, T!At
<1>2. /\ body \in Seq(T!Cells) /\ held \in Seq(T!Cells)
      /\ Len(body) = Len(p) - (b + 1)
      /\ \A i \in 1..Len(body) : body[i] = p[b + 1 + i]
      /\ Len(held) = Len(body) + 2
      /\ \A i \in 1..Len(held) : held[i] = p[b - 1 + i]
  BY BodyIs
<1>3. Len(body) \in Nat
  BY <1>2, LenProperties
<1> HIDE DEF b, body, held
<1>4. Final(T!Outside, p) = Final(InReport, body)
  BY <1>1, <1>2, <1>b, ReadsIntoReport
<1>5. Final(T!Outside, held) = Final(InReport, body)
  <2>1. /\ 1 \in 1..Len(held) - 1 /\ 1 \in 1..Len(held) /\ 1 + 1 \in 1..Len(held)
        /\ b - 1 + 1 = b /\ b - 1 + (1 + 1) = b + 1
        /\ Len(body) = Len(held) - (1 + 1) /\ 1 < Len(held)
    BY <1>1, <1>2, <1>3
  <2>2. BeginsAt(held, 1)
    <3>1. held[1] = p[b - 1 + 1] /\ held[1 + 1] = p[b - 1 + (1 + 1)]
      BY <1>2, <2>1
    <3>2. held[1] = p[b] /\ held[1 + 1] = p[b + 1]
      BY <2>1, <3>1
    <3>3. QED
      BY <1>a, <2>1, <3>2 DEF BeginsAt, T!At
  <2>3. \A i \in 1..1 - 1 : ~BeginsAt(held, i)
    OBVIOUS
  <2>4. \A i \in 1..Len(body) : body[i] = held[1 + 1 + i]
    <3> TAKE i \in 1..Len(body)
    <3>1. 1 + 1 + i \in 1..Len(held) /\ b - 1 + (1 + 1 + i) = b + 1 + i
      BY <1>1, <1>2, <1>3
    <3>2. held[1 + 1 + i] = p[b - 1 + (1 + 1 + i)]
      BY <1>2, <3>1
    <3>3. QED
      BY <1>2, <3>1, <3>2
  <2>5. QED
    BY <1>2, <2>1, <2>2, <2>3, <2>4, ReadsIntoReport
<1>6. QED
  BY <1>4, <1>5 DEF body, held

\* ... and from there to its end, if there is one.
LEMMA FinalWithoutEnd ==
    ASSUME NEW body \in Seq(T!Cells), T!Ends(body) = {}
    PROVE  Final(InReport, body) = ReportAfter(body, Len(body))
<1>1. Len(body) \in Nat /\ Len(body) \in 0..Len(body)
  BY LenProperties
<1>2. \A i \in 1..Len(body) : body[i] # "bel" /\ (i < Len(body) => ~EndsAt(body, i))
  BY NoEnds DEF EndsAt
<1>3. \A n \in 0..Len(body) : T!States(InReport, body)[n] = ReportAfter(body, n)
  BY <1>1, <1>2, ReportStates
<1>4. QED
  BY <1>1, <1>3 DEF Final

EndedWith(payload) == [state |-> "text", payload |-> <<>>, found |-> <<payload>>]

LEMMA FrontOfSubSeq ==
    ASSUME NEW s \in Seq(T!Cells), NEW n \in 1..Len(s)
    PROVE  T!Front(SubSeq(s, 1, n)) = SubSeq(s, 1, n - 1)
<1>0. /\ Len(s) \in Nat /\ 1 \in Nat \ {0} /\ n \in 0..Len(s) /\ 1 <= n + 1
      /\ n - 1 \in 0..Len(s) /\ 1 <= (n - 1) + 1
  BY LenProperties
<1>1. /\ SubSeq(s, 1, n) \in Seq(T!Cells) /\ Len(SubSeq(s, 1, n)) = n - 1 + 1
      /\ \A i \in 1..n - 1 + 1 : SubSeq(s, 1, n)[i] = s[1 + i - 1]
  BY <1>0, SubSeqIs
<1>2. /\ SubSeq(s, 1, n - 1) \in Seq(T!Cells) /\ Len(SubSeq(s, 1, n - 1)) = (n - 1) - 1 + 1
      /\ \A i \in 1..(n - 1) - 1 + 1 : SubSeq(s, 1, n - 1)[i] = s[1 + i - 1]
  BY <1>0, SubSeqIs
<1> DEFINE t == SubSeq(s, 1, n)
           u == SubSeq(s, 1, n - 1)
<1>3. t \in Seq(T!Cells) /\ Len(t) = n /\ \A i \in 1..n : t[i] = s[i]
  <2>1. n - 1 + 1 = n /\ \A i \in 1..n : 1 + i - 1 = i
    BY <1>0
  <2>2. QED
    BY <1>1, <2>1
<1>4. u \in Seq(T!Cells) /\ Len(u) = n - 1 /\ \A i \in 1..n - 1 : u[i] = s[i]
  <2>1. (n - 1) - 1 + 1 = n - 1 /\ \A i \in 1..n - 1 : 1 + i - 1 = i
    BY <1>0
  <2>2. QED
    BY <1>2, <2>1
<1> HIDE DEF t, u
<1>5. t # <<>>
  BY <1>3, EmptySeq
<1>6. /\ T!Front(t) \in Seq(T!Cells) /\ Len(T!Front(t)) = n - 1
      /\ \A i \in 1..n - 1 : T!Front(t)[i] = t[i]
  <2>1. /\ T!Front(t) \in Seq(T!Cells) /\ Len(T!Front(t)) = Len(t) - 1
        /\ \A i \in 1..Len(t) - 1 : T!Front(t)[i] = t[i]
    BY <1>3, <1>5, FrontIs
  <2>2. QED
    BY <1>3, <2>1
<1>7. \A i \in 1..Len(T!Front(t)) : T!Front(t)[i] = u[i]
  <2> TAKE i \in 1..Len(T!Front(t))
  <2>1. i \in 1..n - 1 /\ i \in 1..n
    BY <1>0, <1>6
  <2>2. QED
    BY <1>3, <1>4, <1>6, <2>1
<1>8. T!Front(t) = u
  <2>1. Len(T!Front(t)) = Len(u)
    BY <1>4, <1>6
  <2>2. QED
    BY <1>4, <1>6, <1>7, <2>1, SeqEqual
<1>9. QED
  BY <1>8 DEF t, u

LEMMA FinalWithEnd ==
    ASSUME NEW p \in Seq(T!Cells), T!Begins(p) # {}, T!Ends(Body(p)) # {}
    PROVE  Final(InReport, Body(p)) = Final(EndedWith(SubSeq(Body(p), 1, End(p))), Left(p))
<1> DEFINE body == Body(p)
           e == End(p)
           w == T!Width(body, e)
           x == SubSeq(body, 1, e)
<1>1. /\ body \in Seq(T!Cells) /\ Len(body) \in Nat
  BY BodyIs, LenProperties
<1>2. /\ e \in 0..Len(body) - 1 /\ w \in {1, 2} /\ e + w <= Len(body)
      /\ EndsAt(body, e + 1) /\ \A i \in 1..e : ~EndsAt(body, i)
  BY <1>1, EndsIs DEF End
<1>3. /\ Left(p) \in Seq(T!Cells) /\ Len(Left(p)) = Len(body) - (e + w)
      /\ \A i \in 1..Len(Left(p)) : Left(p)[i] = body[e + w + i]
      /\ x \in Seq(T!Cells)
  BY LeftIs
<1>4. w = IF body[e + 1] = "bel" THEN 1 ELSE 2
  BY DEF T!Width
<1>5. InReport \in Readers
  BY EmptySeq DEF InReport, Readers
<1>6. \A n \in 1..Len(body) :
        T!States(InReport, body)[n] = T!ReadCell(T!States(InReport, body)[n - 1], body[n])
  BY <1>1, <1>5, StatesAre
<1> HIDE DEF body, e, w
<1>7. T!States(InReport, body)[e + w] = EndedWith(x)
  <2>1. CASE body[e + 1] = "bel"
    <3>1. w = 1 /\ e \in 0..Len(body) /\ e + 1 \in 1..Len(body) /\ (e + 1) - 1 = e /\ e \in 0..e
      BY <1>1, <1>2, <1>4, <2>1
    <3>2. \A i \in 1..e : body[i] # "bel" /\ (i < e => ~EndsAt(body, i))
      BY <1>2 DEF EndsAt
    <3>3. \A n \in 0..e : T!States(InReport, body)[n] = ReportAfter(body, n)
      BY <1>1, <3>1, <3>2, ReportStates
    <3>4. T!States(InReport, body)[e + 1] = T!ReadCell(ReportAfter(body, e), "bel")
      BY <1>6, <2>1, <3>1, <3>3
    <3> DEFINE here == IF e > 0 /\ body[e] = "esc" THEN "closing" ELSE "report"
    <3>5. here \notin {"text", "esc"}
      OBVIOUS
    <3>6. ReportAfter(body, e) = [state |-> here, payload |-> x, found |-> <<>>]
      BY DEF ReportAfter
    <3>7. Append(<<>>, x) = <<x>>
      OBVIOUS
    <3> HIDE DEF here, x
    <3>8. T!ReadCell([state |-> here, payload |-> x, found |-> <<>>], "bel") = EndedWith(x)
      BY <3>5, <3>7 DEF T!ReadCell, EndedWith, T!Outside
    <3>9. QED
      BY <3>1, <3>4, <3>6, <3>8
  <2>2. CASE body[e + 1] # "bel"
    <3>0. T!At(body, e + 1, "esc", "\\")
      BY <1>2, <2>2 DEF EndsAt
    <3>a. /\ e + 1 < Len(body) /\ body[e + 1] = "esc" /\ body[(e + 1) + 1] = "\\"
      BY <3>0 DEF T!At
    <3>1. /\ w = 2 /\ e + 1 \in 0..Len(body) /\ e + 1 \in 1..Len(body) /\ e + 1 > 0
          /\ e + 2 \in 1..Len(body) /\ (e + 1) + 1 = e + 2 /\ (e + 2) - 1 = e + 1
          /\ e + 1 \in 0..e + 1 /\ (e + 1) - 1 = e
      <4>1. e + 1 < Len(body)
        BY <3>a
      <4>2. w = 2
        BY <1>4, <2>2
      <4>3. QED
        BY <1>1, <1>2, <4>1, <4>2
    <3>2. \A i \in 1..e + 1 : body[i] # "bel" /\ (i < e + 1 => ~EndsAt(body, i))
      <4> TAKE i \in 1..e + 1
      <4>1. i \in 1..e \/ i = e + 1
        BY <1>1, <1>2
      <4>2. CASE i \in 1..e
        BY <1>2, <4>2 DEF EndsAt
      <4>3. CASE i = e + 1
        <5>1. ~(i < e + 1)
          BY <1>1, <1>2, <4>3
        <5>2. QED
          BY <2>2, <4>3, <5>1
      <4>4. QED
        BY <4>1, <4>2, <4>3
    <3>3. \A n \in 0..e + 1 : T!States(InReport, body)[n] = ReportAfter(body, n)
      BY <1>1, <3>1, <3>2, ReportStates
    <3>4. T!States(InReport, body)[e + 2] = T!ReadCell(ReportAfter(body, e + 1), "\\")
      BY <1>6, <3>a, <3>1, <3>3
    <3> DEFINE y == SubSeq(body, 1, e + 1)
    <3>6. ReportAfter(body, e + 1) = [state |-> "closing", payload |-> y, found |-> <<>>]
      BY <3>a, <3>1 DEF ReportAfter
    <3>7. T!Front(y) = x
      BY <1>1, <3>1, FrontOfSubSeq
    <3>8. Append(<<>>, x) = <<x>>
      OBVIOUS
    <3> HIDE DEF x, y
    <3>9. T!ReadCell([state |-> "closing", payload |-> y, found |-> <<>>], "\\") = EndedWith(x)
      BY <3>7, <3>8 DEF T!ReadCell, EndedWith, T!Outside
    <3>10. QED
      BY <3>1, <3>4, <3>6, <3>9
  <2>3. QED
    BY <2>1, <2>2
<1>8. /\ e + w \in 0..Len(body) /\ Len(Left(p)) \in 0..Len(Left(p))
      /\ e + w + Len(Left(p)) = Len(body)
  BY <1>1, <1>2, <1>3
<1>9. \A n \in 0..Len(Left(p)) :
        T!States(InReport, body)[e + w + n] = T!States(T!States(InReport, body)[e + w], Left(p))[n]
  <2> DEFINE k == e + w
  <2>1. /\ k \in 0..Len(body) /\ Len(Left(p)) = Len(body) - k
        /\ \A i \in 1..Len(Left(p)) : Left(p)[i] = body[k + i]
    BY <1>3, <1>8
  <2> HIDE DEF k
  <2>2. \A n \in 0..Len(Left(p)) :
          T!States(InReport, body)[k + n] = T!States(T!States(InReport, body)[k], Left(p))[n]
    BY <1>1, <1>3, <1>5, <2>1, StatesOfRest
  <2>3. QED
    BY <2>2 DEF k
<1>10. T!States(InReport, body)[e + w + Len(Left(p))] =
         T!States(T!States(InReport, body)[e + w], Left(p))[Len(Left(p))]
  BY <1>8, <1>9
<1>11. QED
  BY <1>7, <1>8, <1>10 DEF Final, body, e

\* The reader after a chunk.
GivesUp(s) == IF Len(s.payload) > MaxPayload THEN T!Outside ELSE [s EXCEPT !.found = <<>>]
\* The scanner finds in p what the reader finds, and what it keeps stands for the
\* reader: read alone, it leaves the reader in the same state.
Agree(p) ==
    /\ T!Scan[p].found = Final(T!Outside, p).found
    /\ Final(T!Outside, T!Scan[p].pending) = GivesUp(Final(T!Outside, p))
    /\ Len(T!Scan[p].pending) <= MaxPayload + KeepTail + 2

LEMMA OutsideIs == T!Outside \in Readers /\ Final(T!Outside, <<>>) = T!Outside /\ Len(<<>>) = 0
<1>1. <<>> \in Seq(T!Cells) /\ <<>> \in Seq(Seq(T!Cells)) /\ Len(<<>>) = 0
  BY EmptySeq
<1>2. T!Outside \in Readers
  BY <1>1 DEF T!Outside, Readers
<1>3. T!States(T!Outside, <<>>)[0] = T!Outside
  BY <1>1, <1>2, StatesAre
<1>4. QED
  BY <1>1, <1>2, <1>3 DEF Final

\* No report has begun.
LEMMA AgreeOnText ==
    ASSUME KeepTail \in Nat \ {0}, MaxPayload \in Nat, NEW p \in Seq(T!Cells), T!Begins(p) = {}
    PROVE  Agree(p)
<1> DEFINE q == T!Kept(p)
<1>1. T!Scan[p] = [found |-> <<>>, pending |-> q]
  BY ScanIs, ScanOfIs
<1>2. /\ q \in Seq(T!Cells) /\ Len(q) = IF Len(p) > KeepTail THEN KeepTail ELSE Len(p)
      /\ \A i \in 1..Len(q) : q[i] = p[Len(p) - Len(q) + i]
  BY KeptIs
<1>3. Len(p) \in Nat /\ Len(q) \in Nat
  BY <1>2, LenProperties
<1> HIDE DEF q
<1>a. Len(q) <= Len(p)
  BY <1>2, <1>3
<1>4. \A i \in 1..Len(p) - 1 : ~BeginsAt(p, i)
  <2>1. \A i \in 1..Len(p) : ~BeginsAt(p, i)
    BY NoBegins
  <2>2. \A i \in 1..Len(p) - 1 : i \in 1..Len(p)
    BY <1>3
  <2>3. QED
    BY <2>1, <2>2
<1>5. \A i \in 1..Len(q) - 1 : ~BeginsAt(q, i)
  <2> TAKE i \in 1..Len(q) - 1
  <2> DEFINE k == Len(p) - Len(q) + i
  <2>0. i \in Nat /\ k \in Int
    BY <1>3
  <2>1. k \in 1..Len(p) - 1 /\ k < Len(p) /\ i < Len(q) /\ i \in 1..Len(q) /\ i + 1 \in 1..Len(q)
    BY <1>3, <1>a
  <2>2. q[i] = p[k] /\ q[i + 1] = p[k + 1]
    <3>1. Len(p) - Len(q) + (i + 1) = k + 1
      BY <1>3, <2>0
    <3>2. q[i] = p[k]
      BY <1>2, <2>1
    <3>3. q[i + 1] = p[Len(p) - Len(q) + (i + 1)]
      BY <1>2, <2>1
    <3>4. QED
      BY <3>1, <3>2, <3>3
  <2> HIDE DEF k
  <2>3. BeginsAt(q, i) => BeginsAt(p, k)
    BY <2>1, <2>2 DEF BeginsAt, T!At
  <2>4. QED
    BY <1>4, <2>1, <2>3
<1>6. Final(T!Outside, p) = TextAfter(p, Len(p)) /\ Final(T!Outside, q) = TextAfter(q, Len(q))
  <2>1. Len(p) \in 0..Len(p) /\ Len(q) \in 0..Len(q)
    BY <1>3
  <2>2. \A n \in 0..Len(p) : T!States(T!Outside, p)[n] = TextAfter(p, n)
    BY <1>4, <2>1, TextStates
  <2>3. \A n \in 0..Len(q) : T!States(T!Outside, q)[n] = TextAfter(q, n)
    BY <1>2, <1>5, <2>1, TextStates
  <2>4. QED
    BY <2>1, <2>2, <2>3 DEF Final
<1>7. TextAfter(q, Len(q)) = TextAfter(p, Len(p))
  <2>1. CASE Len(p) = 0
    <3>1. Len(q) = 0 /\ ~(Len(q) > 0) /\ ~(Len(p) > 0)
      BY <1>2, <2>1
    <3>2. QED
      BY <3>1 DEF TextAfter
  <2>2. CASE Len(p) # 0
    <3>1. Len(q) > 0 /\ Len(p) > 0 /\ Len(q) \in 1..Len(q) /\ Len(p) - Len(q) + Len(q) = Len(p)
      BY <1>2, <1>3, <2>2
    <3>2. q[Len(q)] = p[Len(p)]
      BY <1>2, <3>1
    <3>3. QED
      BY <3>1, <3>2 DEF TextAfter
  <2>3. QED
    BY <2>1, <2>2
<1> DEFINE here == IF Len(p) > 0 /\ p[Len(p)] = "esc" THEN "esc" ELSE "text"
<1>8. Final(T!Outside, p) = [state |-> here, payload |-> <<>>, found |-> <<>>]
  BY <1>6 DEF TextAfter
<1> HIDE DEF here
<1>9. ~(Len(<<>>) > MaxPayload)
  BY OutsideIs
<1>10. GivesUp(Final(T!Outside, p)) = Final(T!Outside, p)
  BY <1>8, <1>9 DEF GivesUp
<1>11. Len(q) <= MaxPayload + KeepTail + 2
  BY <1>2, <1>3
<1>12. QED
  BY <1>1, <1>6, <1>7, <1>8, <1>10, <1>11 DEF Agree

\* One has begun and not ended.
LEMMA AgreeInReport ==
    ASSUME KeepTail \in Nat \ {0}, MaxPayload \in Nat, NEW p \in Seq(T!Cells),
           T!Begins(p) # {}, T!Ends(Body(p)) = {}
    PROVE  Agree(p)
<1> DEFINE body == Body(p)
           kept == IF Len(body) > MaxPayload THEN <<>> ELSE Held(p)
           here == IF Len(body) > 0 /\ body[Len(body)] = "esc" THEN "closing" ELSE "report"
<1>1. T!Scan[p] = [found |-> <<>>, pending |-> kept]
  BY ScanIs, ScanOfIs
<1>2. body \in Seq(T!Cells) /\ Len(body) \in Nat /\ Len(Held(p)) = Len(body) + 2
  BY BodyIs, LenProperties
<1>3. Final(T!Outside, p) = Final(InReport, body) /\ Final(T!Outside, Held(p)) = Final(InReport, body)
  BY FinalOfBody
<1>4. Final(InReport, body) = [state |-> here, payload |-> body, found |-> <<>>]
  <2>1. Final(InReport, body) = ReportAfter(body, Len(body))
    BY <1>2, FinalWithoutEnd
  <2>2. SubSeq(body, 1, Len(body)) = body
    BY <1>2, SubSeqFull
  <2>3. QED
    BY <2>1, <2>2 DEF ReportAfter
<1>5. CASE Len(body) > MaxPayload
  <2>1. kept = <<>>
    BY <1>5
  <2> HIDE DEF kept, body, here
  <2>2. GivesUp(Final(T!Outside, p)) = T!Outside
    BY <1>3, <1>4, <1>5 DEF GivesUp
  <2>3. Len(kept) <= MaxPayload + KeepTail + 2
    BY <2>1, OutsideIs
  <2>4. QED
    BY <1>1, <1>3, <1>4, <2>1, <2>2, <2>3, OutsideIs DEF Agree
<1>6. CASE ~(Len(body) > MaxPayload)
  <2>1. kept = Held(p)
    BY <1>6
  <2> HIDE DEF kept, body, here
  <2>2. GivesUp(Final(T!Outside, p)) = Final(InReport, body)
    BY <1>3, <1>4, <1>6 DEF GivesUp
  <2>3. Len(kept) <= MaxPayload + KeepTail + 2
    BY <1>2, <1>6, <2>1
  <2>4. QED
    BY <1>1, <1>3, <1>4, <2>1, <2>2, <2>3 DEF Agree
<1>7. QED
  BY <1>5, <1>6

\* One has ended: the rest is scanned like a chunk of its own.
LEMMA AgreeAfterReport ==
    ASSUME KeepTail \in Nat \ {0}, MaxPayload \in Nat, NEW p \in Seq(T!Cells),
           T!Begins(p) # {}, T!Ends(Body(p)) # {}, Agree(Left(p))
    PROVE  Agree(p)
<1> DEFINE x == SubSeq(Body(p), 1, End(p))
           q == Left(p)
           h == Final(T!Outside, q)
           all == <<x>> \o h.found
<1>1. q \in Seq(T!Cells) /\ x \in Seq(T!Cells)
  BY LeftIs
<1>2. T!Scan[p] = [T!Scan[q] EXCEPT !.found = <<x>> \o @]
  BY ScanIs, ScanOfIs
<1>3. T!Scan[q] \in Scans
  BY <1>1, ScanIs
<1>4. Final(T!Outside, p) = Final(EndedWith(x), q)
  BY FinalOfBody, FinalWithEnd
<1>5. h \in Readers
  BY <1>1, FinalType, OutsideIs
<1> HIDE DEF q, x
<1>6. Final(EndedWith(x), q) = [h EXCEPT !.found = all]
  <2>1. EndedWith(x) = [T!Outside EXCEPT !.found = <<x>>] /\ T!Outside.found = <<>>
    BY DEF EndedWith, T!Outside
  <2>2. <<x>> \in Seq(Seq(T!Cells))
    BY <1>1
  <2>3. Final([T!Outside EXCEPT !.found = <<x>>], q) = [h EXCEPT !.found = <<x>> \o h.found]
    BY <1>1, <2>1, <2>2, OutsideIs, FinalAfterFinds
  <2>4. QED
    BY <2>1, <2>3
<1>7. /\ T!Scan[q].found = h.found /\ Final(T!Outside, T!Scan[q].pending) = GivesUp(h)
      /\ Len(T!Scan[q].pending) <= MaxPayload + KeepTail + 2
  BY DEF Agree, q
<1> HIDE DEF h
<1>8. T!Scan[p].found = all /\ T!Scan[p].pending = T!Scan[q].pending
  <2> DEFINE sq == T!Scan[q]
  <2>1. sq \in Scans /\ T!Scan[p] = [sq EXCEPT !.found = <<x>> \o @] /\ sq.found = h.found
    BY <1>2, <1>3, <1>7
  <2> HIDE DEF sq
  <2>2. T!Scan[p].found = <<x>> \o sq.found /\ T!Scan[p].pending = sq.pending
    BY <2>1 DEF Scans
  <2>3. QED
    BY <2>1, <2>2 DEF sq
<1> HIDE DEF all
<1>9. [h EXCEPT !.found = all].found = all /\ GivesUp([h EXCEPT !.found = all]) = GivesUp(h)
  <2>1. [h EXCEPT !.found = all] = [state |-> h.state, payload |-> h.payload, found |-> all]
    BY <1>5, RecordIs
  <2>2. [h EXCEPT !.found = <<>>] = [state |-> h.state, payload |-> h.payload, found |-> <<>>]
    BY <1>5, RecordIs
  <2>3. QED
    BY <2>1, <2>2 DEF GivesUp
<1>10. QED
  BY <1>4, <1>6, <1>7, <1>8, <1>9 DEF Agree

\* Whatever has been kept, with whatever comes after it: the scanner finds the reports
\* that a reader finds byte by byte, and what it keeps puts a new reader where that
\* one is (osc7Scanner.feed).
THEOREM ScannerAgrees ==
    ASSUME KeepTail \in Nat \ {0}, MaxPayload \in Nat
    PROVE  \A p \in Seq(T!Cells) : Agree(p)
<1> DEFINE S == {n \in Nat : \A p \in Seq(T!Cells) : Len(p) = n => Agree(p)}
<1>1. \A n \in Nat : (\A m \in 0..n - 1 : m \in S) => n \in S
  <2> SUFFICES ASSUME NEW n \in Nat, \A m \in 0..n - 1 : m \in S,
                      NEW p \in Seq(T!Cells), Len(p) = n
               PROVE  Agree(p)
    OBVIOUS
  <2>1. CASE T!Begins(p) = {}
    BY <2>1, AgreeOnText
  <2>2. CASE T!Begins(p) # {} /\ T!Ends(Body(p)) = {}
    BY <2>2, AgreeInReport
  <2>3. CASE T!Begins(p) # {} /\ T!Ends(Body(p)) # {}
    <3>1. Left(p) \in Seq(T!Cells) /\ Len(Left(p)) < Len(p)
      BY <2>3, LeftIs
    <3>2. Len(Left(p)) \in Nat
      BY <3>1, LenProperties
    <3>3. Len(Left(p)) \in 0..n - 1
      BY <3>1, <3>2
    <3>4. Agree(Left(p))
      BY <3>1, <3>3
    <3>5. QED
      BY <2>3, <3>4, AgreeAfterReport
  <2>4. QED
    BY <2>1, <2>2, <2>3
<1>2. S \in SUBSET Nat
  OBVIOUS
<1> HIDE DEF S
<1>3. \A n \in Nat : n \in S
  BY <1>1, <1>2, AllNumbers
<1>4. \A p \in Seq(T!Cells) : Len(p) \in Nat
  BY LenProperties
<1>5. QED
  BY <1>3, <1>4 DEF S

-----------------------------------------------------------------------------
(* The directory                                                           *)

LEMMA PathIs ==
    ASSUME NEW x \in Seq(T!Cells)
    PROVE  T!Path(x) \in Seq(T!Cells)
<1> DEFINE slashes == {i \in DOMAIN x : x[i] = "/"}
<1>1. Len(x) \in Nat /\ DOMAIN x = 1..Len(x) /\ <<>> \in Seq(T!Cells)
  BY LenProperties, EmptySeq
<1>2. CASE slashes = {}
  BY <1>1, <1>2 DEF T!Path
<1>3. CASE slashes # {}
  <2>1. \A i \in slashes : i \in 1..Len(x)
    BY <1>1
  <2>2. slashes \in SUBSET Nat
    BY <1>1, <2>1
  <2>3. T!Min(slashes) \in slashes
    BY <1>3, <2>2, LeastIs
  <2>4. T!Path(x) = SubSeq(x, T!Min(slashes), Len(x))
    BY <1>3 DEF T!Path
  <2> DEFINE m == T!Min(slashes)
  <2>5. m \in 1..Len(x)
    BY <2>1, <2>3
  <2> HIDE DEF m, slashes
  <2>6. m \in Nat \ {0} /\ Len(x) \in 0..Len(x) /\ m <= Len(x) + 1
    BY <1>1, <2>5
  <2>7. SubSeq(x, m, Len(x)) \in Seq(T!Cells)
    BY <2>6, SubSeqIs
  <2>8. QED
    BY <2>4, <2>7 DEF m, slashes
<1>4. QED
  BY <1>2, <1>3

\* What is assumed of the bounds.
BoundsOK == Chunks \subseteq Seq(T!Cells) /\ KeepTail \in Nat \ {0} /\ MaxPayload \in Nat

\* The bytes the scanner keeps stand for the reader.
TerminalInv == T!TypeOK /\ Final(T!Outside, pending) = reader /\ T!FollowsTerminal

LEMMA InitInv ==
    ASSUME BoundsOK
    PROVE  T!Init => TerminalInv
<1> SUFFICES ASSUME T!Init PROVE TerminalInv
  OBVIOUS
<1>1. <<>> \in Seq(T!Cells) /\ <<"/">> \in Seq(T!Cells) /\ Len(<<>>) = 0
  BY EmptySeq DEF T!Cells
<1>2. T!Outside \in [state : {"text", "esc", "report", "closing"}, payload : Seq(T!Cells),
                   found : {<<>>}]
  BY <1>1 DEF T!Outside
<1>3. 0 <= MaxPayload + KeepTail + 2
  BY DEF BoundsOK
<1>4. T!TypeOK
  BY <1>1, <1>2, <1>3 DEF T!Init, T!TypeOK
<1>5. Final(T!Outside, pending) = reader /\ T!FollowsTerminal
  BY OutsideIs DEF T!Init, T!FollowsTerminal
<1>6. QED
  BY <1>4, <1>5 DEF TerminalInv

LEMMA NextInv ==
    ASSUME BoundsOK
    PROVE  TerminalInv /\ [T!Next]_(T!vars) => TerminalInv'
<1> SUFFICES ASSUME TerminalInv, [T!Next]_(T!vars) PROVE TerminalInv'
  OBVIOUS
<1>1. CASE UNCHANGED T!vars
  <2>1. pending' = pending /\ cwd' = cwd /\ reader' = reader /\ said' = said /\ masked' = masked
    BY <1>1 DEF T!vars
  <2>2. QED
    BY <2>1 DEF TerminalInv, T!TypeOK, T!FollowsTerminal
<1>2. ASSUME NEW chunk \in Chunks, T!Feed(chunk), T!Heard(chunk)
      PROVE  TerminalInv'
  <2> DEFINE p == pending \o chunk
             scan == T!Scan[p]
             h == Final(reader, chunk)
             F == scan.found
             path == IF F = <<>> THEN <<>> ELSE T!Path(T!Last(F))
             naming == {i \in DOMAIN F : T!Path(F[i]) # <<>>}
  <2>1. /\ pending \in Seq(T!Cells) /\ chunk \in Seq(T!Cells) /\ p \in Seq(T!Cells)
        /\ KeepTail \in Nat \ {0} /\ MaxPayload \in Nat
    <3>1. pending \in Seq(T!Cells) /\ chunk \in Seq(T!Cells)
      BY DEF TerminalInv, T!TypeOK, BoundsOK
    <3>2. p \in Seq(T!Cells)
      BY <3>1, ConcatProperties
    <3>3. QED
      BY <3>1, <3>2 DEF BoundsOK
  <2>2. Final(T!Outside, p) = h
    <3>1. Final(T!Outside, pending \o chunk) = Final(Final(T!Outside, pending), chunk)
      BY <2>1, OutsideIs, FinalOfConcat
    <3>2. Final(T!Outside, pending) = reader
      BY DEF TerminalInv
    <3>3. QED
      BY <3>1, <3>2
  <2>3. Agree(p) /\ scan \in Scans
    BY <2>1, ScannerAgrees, ScanIs
  <2>4. h \in Readers
    BY <2>1, <2>2, OutsideIs, FinalType
  <2>5. F = h.found /\ F \in Seq(Seq(T!Cells))
    BY <2>2, <2>3 DEF Agree, Scans
  <2>6. pending' = scan.pending /\ cwd' = IF path = <<>> THEN cwd ELSE path
    BY <1>2 DEF T!Feed
  <2>7. reader' = GivesUp(h)
    BY <1>2 DEF T!Heard, Final, GivesUp
  <2>8. IF naming # {}
        THEN said' = T!Path(F[T!Max(naming)]) /\ masked' = (T!Max(naming) < Len(F))
        ELSE said' = said /\ masked' = masked
    <3>1. naming = {i \in DOMAIN h.found : T!Path(h.found[i]) # <<>>}
      BY <2>5
    <3> HIDE DEF naming, F
    <3>2. IF naming # {}
          THEN said' = T!Path(h.found[T!Max(naming)]) /\ masked' = (T!Max(naming) < Len(h.found))
          ELSE UNCHANGED <<said, masked>>
      BY <1>2, <3>1 DEF T!Heard, Final
    <3>3. QED
      BY <2>5, <3>2
  <2>9. Final(T!Outside, pending') = reader'
    BY <2>2, <2>3, <2>6, <2>7 DEF Agree
  <2>10. /\ pending' \in Seq(T!Cells) /\ Len(pending') <= MaxPayload + KeepTail + 2
    BY <2>3, <2>6 DEF Agree, Scans
  <2>11. reader' \in [state : {"text", "esc", "report", "closing"}, payload : Seq(T!Cells),
                      found : {<<>>}]
    <3>1. [h EXCEPT !.found = <<>>] = [state |-> h.state, payload |-> h.payload, found |-> <<>>]
      BY <2>4, RecordIs
    <3>2. h.state \in {"text", "esc", "report", "closing"} /\ h.payload \in Seq(T!Cells)
      BY <2>4 DEF Readers
    <3>3. <<>> \in Seq(T!Cells)
      BY EmptySeq
    <3> HIDE DEF h
    <3>4. QED
      BY <2>7, <3>1, <3>2, <3>3 DEF GivesUp, T!Outside
  <2> HIDE DEF p, scan, h, F
  <2>12. /\ Len(F) \in Nat /\ DOMAIN F = 1..Len(F) /\ \A i \in 1..Len(F) : F[i] \in Seq(T!Cells)
         /\ F # <<>> => Len(F) \in 1..Len(F) /\ T!Last(F) = F[Len(F)]
         /\ F = <<>> => Len(F) = 0
    <3>1. Len(F) \in Nat /\ DOMAIN F = 1..Len(F) /\ \A i \in 1..Len(F) : F[i] \in Seq(T!Cells)
      BY <2>5, LenProperties, ElementOfSeq
    <3>2. F # <<>> => Len(F) \in Nat \ {0}
      BY <2>5, EmptySeq
    <3>3. QED
      BY <3>1, <3>2, OutsideIs DEF T!Last
  <2>13. \A i \in naming : i \in 1..Len(F) /\ T!Path(F[i]) # <<>>
    BY <2>12
  <2>14. naming # {} => T!Max(naming) \in naming /\ \A i \in naming : i <= T!Max(naming)
    <3>1. naming \in SUBSET (0..Len(F))
      BY <2>12, <2>13
    <3> HIDE DEF naming
    <3>2. QED
      BY <2>12, <3>1, GreatestIs
  <2>15. /\ path \in Seq(T!Cells)
         /\ naming # {} => T!Path(F[T!Max(naming)]) \in Seq(T!Cells)
    <3>1. F # <<>> => T!Path(T!Last(F)) \in Seq(T!Cells)
      BY <2>12, PathIs
    <3>2. \A i \in naming : T!Path(F[i]) \in Seq(T!Cells)
      BY <2>12, <2>13, PathIs
    <3>3. QED
      BY <2>14, <3>1, <3>2, EmptySeq
  <2>16. {cwd', said'} \subseteq Seq(T!Cells) /\ masked' \in BOOLEAN
    <3>1. cwd \in Seq(T!Cells) /\ said \in Seq(T!Cells) /\ masked \in BOOLEAN
      BY DEF TerminalInv, T!TypeOK
    <3> HIDE DEF path, naming
    <3>2. cwd' \in Seq(T!Cells) /\ said' \in Seq(T!Cells)
      BY <2>6, <2>8, <2>15, <3>1
    <3>3. CASE naming = {}
      BY <2>8, <3>1, <3>2, <3>3
    <3>4. CASE naming # {}
      <4>1. masked' = (T!Max(naming) < Len(F))
        BY <2>8, <3>4
      <4>2. (T!Max(naming) < Len(F)) \in BOOLEAN
        OBVIOUS
      <4>3. masked' \in BOOLEAN
        BY <4>1, <4>2, Zenon
      <4>4. QED
        BY <3>2, <4>3
    <3>5. QED
      BY <3>3, <3>4
  <2>17. masked' \/ cwd' = said'
    <3>1. CASE path # <<>>
      <4>1. F # <<>> /\ path = T!Path(F[Len(F)])
        BY <2>12, <3>1
      <4>2. Len(F) \in naming
        BY <2>12, <3>1, <4>1
      <4>3. T!Max(naming) \in 1..Len(F) /\ Len(F) <= T!Max(naming)
        BY <2>13, <2>14, <4>2
      <4>4. T!Max(naming) = Len(F)
        BY <2>12, <4>3
      <4>5. said' = path
        BY <2>8, <4>1, <4>2, <4>4
      <4>6. QED
        BY <2>6, <3>1, <4>5
    <3>2. CASE path = <<>> /\ naming = {}
      <4>1. masked \/ cwd = said
        BY DEF TerminalInv, T!FollowsTerminal
      <4>2. QED
        BY <2>6, <2>8, <3>2, <4>1
    <3>3. CASE path = <<>> /\ naming # {}
      <4>1. T!Max(naming) \in naming /\ T!Max(naming) \in 1..Len(F)
        BY <2>13, <2>14, <3>3
      <4>2. T!Path(F[T!Max(naming)]) # <<>>
        BY <2>13, <4>1
      <4>3. F # <<>> /\ path = T!Path(F[Len(F)])
        BY <2>12, <4>1
      <4>4. T!Max(naming) # Len(F)
        BY <3>3, <4>2, <4>3
      <4>5. T!Max(naming) < Len(F)
        BY <2>12, <4>1, <4>4
      <4>6. QED
        BY <2>8, <3>3, <4>5
    <3>4. QED
      BY <3>1, <3>2, <3>3
  <2>18. T!TypeOK'
    BY <2>10, <2>11, <2>16 DEF T!TypeOK
  <2>19. QED
    BY <2>9, <2>17, <2>18 DEF TerminalInv, T!FollowsTerminal
<1>3. QED
  BY <1>1, <1>2 DEF T!Next

\* The state of the scanner and of the reader keeps its type, and what the scanner
\* keeps between two reads is bounded (osc7Scanner.pending).
THEOREM TerminalTypeCorrect ==
    ASSUME BoundsOK
    PROVE  T!Spec => []T!TypeOK
<1>1. TerminalInv => T!TypeOK
  BY DEF TerminalInv
<1>2. T!Init => TerminalInv
  BY InitInv
<1>3. TerminalInv /\ [T!Next]_(T!vars) => TerminalInv'
  BY NextInv
<1>4. QED
  BY <1>1, <1>2, <1>3, PTL DEF T!Spec

\* However the shell's stream is cut, the session's directory is the last one that
\* was reported, unless a report without a directory followed it in the same chunk
\* (osc7Scanner.feed, emitOsc7Cwd).
THEOREM TerminalFollowed ==
    ASSUME BoundsOK
    PROVE  T!Spec => []T!FollowsTerminal
<1>1. TerminalInv => T!FollowsTerminal
  BY DEF TerminalInv
<1>2. T!Init => TerminalInv
  BY InitInv
<1>3. TerminalInv /\ [T!Next]_(T!vars) => TerminalInv'
  BY NextInv
<1>4. QED
  BY <1>1, <1>2, <1>3, PTL DEF T!Spec
=============================================================================

---------------------------- MODULE StoreProofs ----------------------------
(***************************************************************************)
(* What the stores promise, for every set of keys, tags, callers and       *)
(* processes and every length of time: deleting by tag misses no value     *)
(* that can be read (CacheStore), a key executes once (Idempotency), the   *)
(* misses of a process are one call (Cached), a response is replayed whole *)
(* (Http), the tracked keys pass maxsize only by what is under way         *)
(* (TTLCache) and no middleware is outside the binding (Install). And what *)
(* the apps of a process promise, for every set of apps, providers and     *)
(* components: what an open component works with is open (App).            *)
(***************************************************************************)
EXTENDS StoreComponents, Subsequences, FiniteSetTheorems, SequenceTheorems,
        WellFoundedInduction, TLAPS

\* A set whose elements are all the same has at most one.
LEMMA AtMostOne ==
  ASSUME NEW S, \A x, y \in S : x = y
  PROVE  Cardinality(S) <= 1
<1>1. CASE S = {}
  BY <1>1, FS_EmptySet
<1>2. ASSUME NEW x \in S PROVE Cardinality(S) <= 1
  <2>1. S = {x}
    BY <1>2
  <2> QED
    BY <2>1, FS_Singleton
<1> QED
  BY <1>1, <1>2

\* The module's own name for the number of elements.
LEMMA BlocksCardinality ==
  ASSUME NEW S
  PROVE  Blocks!Cardinality(S) = Cardinality(S)
  BY DEF Blocks!Cardinality, Cardinality

\* Likewise.
LEMMA DecoratedCardinality ==
  ASSUME NEW S
  PROVE  Decorated!Cardinality(S) = Cardinality(S)
  BY DEF Decorated!Cardinality, Cardinality

-----------------------------------------------------------------------------
\* Recursion over the naturals and over sequences.

\* A set of naturals has a least element.
LEMMA LeastNatural ==
  ASSUME NEW S, S \subseteq Nat, S # {}
  PROVE  \E x \in S : \A y \in S : x <= y
<1> DEFINE R == OpToRel(<, Nat)
<1>1. \A x, y \in Nat : y < x => <<y, x>> \in R
  BY DEF OpToRel
<1>2. IsWellFoundedOn(R, Nat)
  BY NatLessThanWellFounded
<1> HIDE DEF R
<1>3. PICK x \in S : \A y \in S : ~ (<<y, x>> \in R)
  BY <1>2, WFMin
<1>4. \A y \in S : ~ (y < x)
  BY <1>1, <1>3
<1> QED BY <1>4

\* The sequences of n steps of f from a.
Orbits(S, f, a, n) == {h \in [0..n -> S] : h[0] = a /\ \A i \in 1..n : h[i] = f[h[i - 1]]}

\* There is one for every number of steps,
LEMMA OrbitsExist ==
  ASSUME NEW S, NEW f \in [S -> S], NEW a \in S, NEW n \in Nat
  PROVE  Orbits(S, f, a, n) # {}
<1> DEFINE T == {m \in Nat : Orbits(S, f, a, m) = {}}
<1>1. SUFFICES ASSUME T # {} PROVE FALSE
  OBVIOUS
<1>2. PICK m \in T : \A k \in T : m <= k
  BY <1>1, LeastNatural
<1>3. CASE m = 0
  <2>1. [i \in 0..m |-> a] \in Orbits(S, f, a, m)
    BY <1>3 DEF Orbits
  <2> QED BY <2>1
<1>4. CASE m # 0
  <2>1. m \in Nat /\ m - 1 \in Nat /\ m - 1 \notin T
    BY <1>2, <1>4
  <2>2. PICK h : h \in Orbits(S, f, a, m - 1)
    BY <2>1
  <2> DEFINE g == [i \in 0..m |-> IF i = m THEN f[h[m - 1]] ELSE h[i]]
  <2>3. h \in [0..(m - 1) -> S] /\ h[0] = a /\ \A i \in 1..(m - 1) : h[i] = f[h[i - 1]]
    BY <2>2 DEF Orbits
  <2>4. g \in [0..m -> S] /\ g[0] = a
    BY <1>4, <2>1, <2>3
  <2>5. ASSUME NEW i \in 1..m PROVE g[i] = f[g[i - 1]]
    BY <2>1, <2>3
  <2>6. g \in Orbits(S, f, a, m)
    BY <2>4, <2>5 DEF Orbits
  <2> QED BY <2>6
<1> QED BY <1>3, <1>4

\* and a longer one agrees with it.
LEMMA OrbitsAgree ==
  ASSUME NEW S, NEW f, NEW a, NEW n \in Nat, NEW m \in Nat, m <= n,
         NEW g \in Orbits(S, f, a, m), NEW h \in Orbits(S, f, a, n)
  PROVE  g[m] = h[m]
<1> DEFINE T == {i \in Nat : i <= m /\ g[i] # h[i]}
<1>1. SUFFICES ASSUME T # {} PROVE FALSE
  OBVIOUS
<1>2. PICK i \in T : \A k \in T : i <= k
  BY <1>1, LeastNatural
<1>3. i # 0
  <2>1. g[0] = h[0]
    BY DEF Orbits
  <2> QED BY <1>2, <2>1
<1>4. i \in 1..m /\ i \in 1..n /\ i - 1 \in 0..m /\ i - 1 \notin T
  BY <1>2, <1>3
<1>5. g[i] = f[g[i - 1]] /\ h[i] = f[h[i - 1]]
  BY <1>4 DEF Orbits
<1> QED BY <1>4, <1>5

\* g is what a function comes to from a in any number of steps; there is such a g.
Iterates(S, f, a, g) ==
  g \in [Nat -> S] /\ g[0] = a /\ \A n \in Nat \ {0} : g[n] = f[g[n - 1]]

LEMMA Iteration ==
  ASSUME NEW S, NEW f \in [S -> S], NEW a \in S
  PROVE  \E g : Iterates(S, f, a, g)
<1> DEFINE H(n) == CHOOSE h : h \in Orbits(S, f, a, n)
           g == [n \in Nat |-> H(n)[n]]
<1>1. ASSUME NEW n \in Nat PROVE H(n) \in Orbits(S, f, a, n)
  BY OrbitsExist, Zenon
<1>2. ASSUME NEW n \in Nat PROVE g[n] = H(n)[n]
  BY Zenon
<1> HIDE DEF H
<1>3. ASSUME NEW n \in Nat PROVE H(n)[n] \in S
  BY <1>1 DEF Orbits
<1>4. g \in [Nat -> S]
  BY <1>3
<1>5. H(0)[0] = a
  BY <1>1 DEF Orbits
<1>6. ASSUME NEW n \in Nat \ {0} PROVE H(n)[n] = f[H(n - 1)[n - 1]]
  <2>1. n - 1 \in Nat /\ n - 1 <= n /\ n \in 1..n
    OBVIOUS
  <2>2. H(n)[n] = f[H(n)[n - 1]]
    BY <1>1, <2>1 DEF Orbits
  <2>3. H(n - 1)[n - 1] = H(n)[n - 1]
    BY <1>1, <2>1, OrbitsAgree
  <2> QED BY <2>2, <2>3
<1>7. ASSUME NEW n \in Nat \ {0} PROVE g[n] = f[g[n - 1]]
  <2>1. g[n] = H(n)[n] /\ g[n - 1] = H(n - 1)[n - 1]
    BY n - 1 \in Nat
  <2> HIDE DEF g
  <2> QED BY <1>6, <2>1
<1>8. g[0] = a
  BY <1>2, <1>5
<1> HIDE DEF g
<1> QED BY <1>4, <1>7, <1>8 DEF Iterates

\* g[n] is what a fold with f from a comes to after the first n elements; there is such a g.
Folded(A, s, f, a, g) ==
  g \in [0..Len(s) -> A] /\ g[0] = a /\ \A n \in 1..Len(s) : g[n] = f[<<g[n - 1], s[n]>>]

LEMMA FoldExists ==
  ASSUME NEW A, NEW T, NEW s \in Seq(T), NEW f \in [A \X T -> A], NEW a \in A
  PROVE  \E g : Folded(A, s, f, a, g)
<1> DEFINE B == Nat \X A
           e == [x \in B |-> <<x[1] + 1, IF x[1] + 1 \in 1..Len(s) THEN f[<<x[2], s[x[1] + 1]>>]
                                         ELSE x[2]>>]
<1>1. <<0, a>> \in B
  OBVIOUS
<1>2. e \in [B -> B]
  <2>1. ASSUME NEW n \in Nat, NEW y \in A, n + 1 \in 1..Len(s) PROVE f[<<y, s[n + 1]>>] \in A
    BY <2>1
  <2>2. ASSUME NEW x \in B PROVE e[x] \in B
    <3>1. x[1] \in Nat /\ x[2] \in A /\ x[1] + 1 \in Nat
      OBVIOUS
    <3>2. (IF x[1] + 1 \in 1..Len(s) THEN f[<<x[2], s[x[1] + 1]>>] ELSE x[2]) \in A
      BY <2>1, <3>1
    <3> QED BY <3>1, <3>2
  <2> QED BY <2>2
<1> HIDE DEF e
<1>3. PICK h : Iterates(B, e, <<0, a>>, h)
  BY <1>1, <1>2, Iteration
<1>4. h \in [Nat -> B] /\ h[0] = <<0, a>> /\ \A n \in Nat \ {0} : h[n] = e[h[n - 1]]
  BY <1>3 DEF Iterates
<1> HIDE DEF B
<1> DEFINE Z == {n \in Nat : h[n][1] # n}
<1>5. Z = {}
  <2>1. SUFFICES ASSUME Z # {} PROVE FALSE
    OBVIOUS
  <2>2. PICK n \in Z : \A k \in Z : n <= k
    BY <2>1, LeastNatural
  <2>3. n # 0
    BY <1>4, <2>2
  <2>4. n - 1 \in Nat /\ n - 1 \notin Z
    BY <2>2, <2>3
  <2>5. h[n - 1] \in B /\ h[n - 1][1] = n - 1
    BY <1>4, <2>4
  <2>6. h[n] = e[h[n - 1]]
    BY <1>4, <2>2, <2>3
  <2>7. h[n][1] = n
    BY <2>2, <2>5, <2>6 DEF e, B
  <2> QED BY <2>2, <2>7
<1>6. ASSUME NEW n \in Nat PROVE h[n][1] = n /\ h[n] \in B
  BY <1>4, <1>5
<1>7. ASSUME NEW n \in Nat \ {0}
      PROVE  h[n][2] = IF n \in 1..Len(s) THEN f[<<h[n - 1][2], s[n]>>] ELSE h[n - 1][2]
  <2>1. n - 1 \in Nat /\ h[n] = e[h[n - 1]]
    BY <1>4
  <2>2. h[n - 1] \in B /\ h[n - 1][1] = n - 1
    BY <1>6, <2>1
  <2>3. h[n - 1][1] + 1 = n
    BY <2>2
  <2>4. h[n] = <<n, IF n \in 1..Len(s) THEN f[<<h[n - 1][2], s[n]>>] ELSE h[n - 1][2]>>
    BY <2>1, <2>2, <2>3, Zenon DEF e
  <2> QED BY <2>4
<1> DEFINE g == [n \in 0..Len(s) |-> h[n][2]]
<1>8. Len(s) \in Nat
  OBVIOUS
<1>9. g \in [0..Len(s) -> A] /\ g[0] = a
  <2>1. ASSUME NEW n \in 0..Len(s) PROVE h[n][2] \in A
    BY <1>6, <1>8 DEF B
  <2> QED BY <1>4, <1>8, <2>1
<1>10. ASSUME NEW n \in 1..Len(s) PROVE g[n] = f[<<g[n - 1], s[n]>>]
  <2>1. n \in Nat \ {0} /\ n \in 0..Len(s) /\ n - 1 \in 0..Len(s)
    BY <1>8
  <2> QED BY <1>7, <2>1
<1> HIDE DEF g
<1> QED BY <1>9, <1>10 DEF Folded

\* g[n] is what a comprehension has kept of the first n elements.
Keeps(T, s, S, g) ==
  /\ g \in [0..Len(s) -> Seq(T)] /\ g[0] = <<>>
  /\ \A n \in 1..Len(s) : g[n] = IF s[n] \in S THEN Append(g[n - 1], s[n]) ELSE g[n - 1]

LEMMA KeepsExists ==
  ASSUME NEW T, NEW s \in Seq(T), NEW S
  PROVE  \E g : Keeps(T, s, S, g)
<1> DEFINE f == [x \in Seq(T) \X T |-> IF x[2] \in S THEN Append(x[1], x[2]) ELSE x[1]]
<1>1. f \in [Seq(T) \X T -> Seq(T)]
  <2>1. ASSUME NEW x \in Seq(T) \X T PROVE f[x] \in Seq(T)
    <3>1. x[1] \in Seq(T) /\ x[2] \in T
      OBVIOUS
    <3> QED BY <3>1
  <2> QED BY <2>1
<1>2. ASSUME NEW t \in Seq(T), NEW y \in T
      PROVE  f[<<t, y>>] = IF y \in S THEN Append(t, y) ELSE t
  OBVIOUS
<1> HIDE DEF f
<1>3. <<>> \in Seq(T)
  OBVIOUS
<1>4. PICK g : Folded(Seq(T), s, f, <<>>, g)
  BY <1>1, <1>3, FoldExists
<1>5. g \in [0..Len(s) -> Seq(T)] /\ g[0] = <<>> /\ Len(s) \in Nat
  BY <1>4 DEF Folded
<1>6. ASSUME NEW n \in 1..Len(s) PROVE g[n] = IF s[n] \in S THEN Append(g[n - 1], s[n]) ELSE g[n - 1]
  <2>1. n - 1 \in 0..Len(s) /\ s[n] \in T
    BY <1>5
  <2>2. g[n] = f[<<g[n - 1], s[n]>>]
    BY <1>4 DEF Folded
  <2> QED BY <1>2, <1>5, <2>1, <2>2
<1> QED BY <1>5, <1>6 DEF Keeps

LEMMA OnlyIs ==
  ASSUME NEW T, NEW s \in Seq(T), NEW S
  PROVE  \E g : Keeps(T, s, S, g) /\ Only(s, S) = g[Len(s)]
<1> DEFINE F(g) == g = [n \in 0..Len(s) |-> IF n = 0 THEN <<>>
                                            ELSE IF s[n] \in S THEN Append(g[n - 1], s[n])
                                            ELSE g[n - 1]]
           g == CHOOSE g : F(g)
<1>1. Only(s, S) = g[Len(s)]
  BY Zenon DEF Only
<1>2. PICK k : Keeps(T, s, S, k)
  BY KeepsExists
<1>3. F(k)
  <2>1. k \in [0..Len(s) -> Seq(T)] /\ k[0] = <<>> /\ Len(s) \in Nat
    BY <1>2 DEF Keeps
  <2>2. \A n \in 1..Len(s) : k[n] = IF s[n] \in S THEN Append(k[n - 1], s[n]) ELSE k[n - 1]
    BY <1>2 DEF Keeps
  <2>3. \A n \in 0..Len(s) : n # 0 => n \in 1..Len(s)
    BY <2>1
  <2> QED BY <2>1, <2>2, <2>3
<1>4. F(g)
  BY <1>3, Zenon
<1> HIDE DEF g
<1> DEFINE Z == {n \in Nat : n <= Len(s) /\ g[n] # k[n]}
<1>5. Len(s) \in Nat /\ k[0] = <<>>
  BY <1>2 DEF Keeps
<1>6. Z = {}
  <2>1. SUFFICES ASSUME Z # {} PROVE FALSE
    OBVIOUS
  <2>2. PICK n \in Z : \A m \in Z : n <= m
    BY <2>1, LeastNatural
  <2>3. n # 0
    BY <1>3, <1>4, <1>5, <2>2
  <2>4. n \in 1..Len(s) /\ n \in 0..Len(s) /\ n - 1 \notin Z /\ n - 1 \in Nat
    BY <1>5, <2>2, <2>3
  <2>5. g[n - 1] = k[n - 1]
    BY <2>4
  <2>6. g[n] = k[n]
    BY <1>3, <1>4, <2>3, <2>4, <2>5
  <2> QED BY <2>2, <2>6
<1>7. g[Len(s)] = k[Len(s)]
  BY <1>5, <1>6
<1> QED BY <1>1, <1>2, <1>7

\* What is kept are elements of s that are in S, all of them, each as often as it was there.
LEMMA OnlyKeeps ==
  ASSUME NEW T, NEW s \in Seq(T), NEW S
  PROVE  /\ Only(s, S) \in Seq(T) /\ Len(Only(s, S)) <= Len(s)
         /\ \A i \in 1..Len(Only(s, S)) : \E j \in 1..Len(s) : Only(s, S)[i] = s[j] /\ s[j] \in S
         /\ (\A i, j \in 1..Len(s) : s[i] = s[j] => i = j) =>
              \A i, j \in 1..Len(Only(s, S)) : Only(s, S)[i] = Only(s, S)[j] => i = j
<1>1. PICK g : Keeps(T, s, S, g) /\ Only(s, S) = g[Len(s)]
  BY OnlyIs
<1>2. /\ Len(s) \in Nat
      /\ g \in [0..Len(s) -> Seq(T)] /\ g[0] = <<>>
      /\ \A n \in 1..Len(s) : g[n] = IF s[n] \in S THEN Append(g[n - 1], s[n]) ELSE g[n - 1]
  BY <1>1 DEF Keeps
<1> DEFINE From(n) == \A i \in 1..Len(g[n]) : \E j \in 1..n : g[n][i] = s[j] /\ s[j] \in S
           Distinct == \A i, j \in 1..Len(s) : s[i] = s[j] => i = j
           Inj(n) == \A i, j \in 1..Len(g[n]) : g[n][i] = g[n][j] => i = j
           P(n) == Len(g[n]) <= n /\ From(n) /\ (Distinct => Inj(n))
           Z == {n \in Nat : n <= Len(s) /\ ~ P(n)}
<1>3. P(0)
  BY <1>2
<1>4. ASSUME NEW n \in 1..Len(s), P(n - 1) PROVE P(n)
  <2>1. n \in Nat /\ n - 1 \in Nat /\ n - 1 \in 0..Len(s) /\ n \in 0..Len(s) /\ g[n - 1] \in Seq(T)
        /\ s[n] \in T
    BY <1>2
  <2>2. CASE s[n] \in S
    <3>1. g[n] = Append(g[n - 1], s[n])
      BY <1>2, <2>2
    <3>2. /\ Len(g[n]) = Len(g[n - 1]) + 1 /\ g[n][Len(g[n - 1]) + 1] = s[n]
          /\ \A i \in 1..Len(g[n - 1]) : g[n][i] = g[n - 1][i]
          /\ Len(g[n - 1]) \in Nat
      BY <2>1, <3>1
    <3> HIDE DEF Distinct
    <3>3. From(n)
      <4>1. SUFFICES ASSUME NEW i \in 1..Len(g[n]) PROVE \E j \in 1..n : g[n][i] = s[j] /\ s[j] \in S
        OBVIOUS
      <4>2. CASE i = Len(g[n])
        BY <2>1, <2>2, <3>2, <4>2
      <4>3. CASE i # Len(g[n])
        <5>1. i \in 1..Len(g[n - 1])
          BY <3>2, <4>3
        <5>2. PICK j \in 1..(n - 1) : g[n - 1][i] = s[j] /\ s[j] \in S
          BY <1>4, <5>1
        <5> QED BY <2>1, <3>2, <5>1, <5>2
      <4> QED BY <4>2, <4>3
    <3>4. ASSUME Distinct PROVE Inj(n)
      <4>1. \A i \in 1..Len(g[n - 1]) : g[n - 1][i] # s[n]
        <5>1. SUFFICES ASSUME NEW i \in 1..Len(g[n - 1]), g[n - 1][i] = s[n] PROVE FALSE
          OBVIOUS
        <5>2. PICK j \in 1..(n - 1) : g[n - 1][i] = s[j] /\ s[j] \in S
          BY <1>4
        <5>3. j \in 1..Len(s) /\ j # n /\ s[j] = s[n]
          BY <1>2, <2>1, <5>1, <5>2
        <5> QED BY <3>4, <5>3 DEF Distinct
      <4>2. Inj(n - 1)
        BY <1>4, <3>4
      <4>3. SUFFICES ASSUME NEW i \in 1..Len(g[n]), NEW j \in 1..Len(g[n]), g[n][i] = g[n][j]
                     PROVE  i = j
        OBVIOUS
      <4> DEFINE m == Len(g[n - 1])
      <4>4. Len(g[n]) = m + 1 /\ m \in Nat /\ i \in 1..(m + 1) /\ j \in 1..(m + 1)
        BY <3>2
      <4>5. ASSUME i \in 1..m, j \in 1..m PROVE i = j
        BY <3>2, <4>2, <4>3, <4>5
      <4>6. ASSUME i \in 1..m, j = m + 1 PROVE FALSE
        BY <3>2, <4>1, <4>3, <4>6
      <4>7. ASSUME j \in 1..m, i = m + 1 PROVE FALSE
        BY <3>2, <4>1, <4>3, <4>7
      <4> HIDE DEF m
      <4> QED BY <4>4, <4>5, <4>6, <4>7
    <3> QED BY <1>4, <2>1, <3>2, <3>3, <3>4
  <2>3. CASE s[n] \notin S
    <3>1. g[n] = g[n - 1]
      BY <1>2, <2>3
    <3>2. From(n)
      BY <1>4, <2>1, <3>1
    <3> QED BY <1>4, <2>1, <3>1, <3>2
  <2> QED BY <2>2, <2>3
<1>5. Z = {}
  <2>1. SUFFICES ASSUME Z # {} PROVE FALSE
    OBVIOUS
  <2> HIDE DEF P
  <2>2. PICK n \in Z : \A m \in Z : n <= m
    BY <2>1, LeastNatural
  <2>3. n # 0
    BY <1>3, <2>2
  <2>4. n \in 1..Len(s) /\ n - 1 \in Nat /\ n - 1 <= Len(s) /\ n - 1 \notin Z
    BY <1>2, <2>2, <2>3
  <2>5. P(n - 1)
    BY <2>4
  <2>6. P(n)
    BY <1>4, <2>4, <2>5
  <2> QED BY <2>2, <2>6
<1>6. P(Len(s))
  <2> HIDE DEF P
  <2> QED BY <1>2, <1>5
<1>7. g[Len(s)] \in Seq(T)
  BY <1>2
<1>8. \A i \in 1..Len(g[Len(s)]) : \E j \in 1..Len(s) : g[Len(s)][i] = s[j] /\ s[j] \in S
  BY <1>6
<1>9. Distinct => Inj(Len(s))
  BY <1>6
<1> QED BY <1>1, <1>6, <1>7, <1>8, <1>9

-----------------------------------------------------------------------------
\* The cache stores.

\* The types of the variables, the history of tags included.
EntryTypes ==
  /\ c_adapter \in Adapters /\ c_now \in 0..CacheTime
  /\ c_data \in [CacheKeys -> {None} \cup Nat]
  /\ c_tag_keys \in [Tags -> SUBSET CacheKeys]
  /\ c_key_tags \in [CacheKeys -> [tags : SUBSET Tags, expire : Nat]]
  /\ c_tagged \in [CacheKeys -> SUBSET Tags]

\* While a key has a value, what is known of its tags is what its last set said, and it
\* lasts exactly as long as the value.
ReverseIsCurrent ==
  \A k \in CacheKeys : c_data[k] # None =>
    c_key_tags[k].tags = c_tagged[k] /\ c_key_tags[k].expire = c_data[k]

\* Outside Redis the two directions of the index agree, and only a key with a value,
\* expired or not, is in it.  In Redis delete_tags leaves the reverse sets behind.
DirectionsAgree ==
  c_adapter # "redis" =>
    \A k \in CacheKeys, t \in Tags :
      /\ k \in c_tag_keys[t] <=> t \in c_key_tags[k].tags
      /\ k \in c_tag_keys[t] => c_data[k] # None

\* Whatever can be read is in the set of every tag of its last set.
ForwardCovers ==
  \A k \in CacheKeys, t \in Tags :
    c_data[k] # None /\ c_data[k] > c_now /\ t \in c_tagged[k] => k \in c_tag_keys[t]

StoreInv == EntryTypes /\ ReverseIsCurrent /\ DirectionsAgree /\ ForwardCovers

\* The empty store of __aenter__.
LEMMA StoreInit ==
  ASSUME Store!CacheStoreAssumption, Store!Init
  PROVE  StoreInv
  BY DEF Store!CacheStoreAssumption, Store!Init, Store!NoTags, StoreInv, EntryTypes,
         ReverseIsCurrent, DirectionsAgree, ForwardCovers

\* set and set_many: former tags go, the new ones come, in both directions.
LEMMA StoreWrites ==
  ASSUME Store!CacheStoreAssumption, StoreInv,
         NEW ks \in SUBSET CacheKeys, NEW ttl \in TTLs, NEW tags \in SUBSET Tags,
         Store!Written(ks, ttl, tags), UNCHANGED <<c_adapter, c_now>>
  PROVE  StoreInv'
  BY DEF Store!CacheStoreAssumption, Store!Written, Store!KnownTags, StoreInv, EntryTypes,
         ReverseIsCurrent, DirectionsAgree, ForwardCovers

\* delete, delete_many, the removal of an expired entry, the janitor and delete_tags of every
\* adapter but Redis: the keys go with what is known of their tags.
LEMMA StoreDrops ==
  ASSUME Store!CacheStoreAssumption, StoreInv, NEW ks \in SUBSET CacheKeys,
         Store!Dropped(ks), UNCHANGED <<c_adapter, c_now, c_tagged>>
  PROVE  StoreInv'
  BY DEF Store!CacheStoreAssumption, Store!Dropped, Store!KnownTags, Store!NoTags, StoreInv,
         EntryTypes, ReverseIsCurrent, DirectionsAgree, ForwardCovers

\* The script of Redis: values and the tag's own set go, the other sets keep their members.
LEMMA RedisDeletesTag ==
  ASSUME StoreInv, NEW t \in Tags, Store!redis_delete_tags(t),
         UNCHANGED <<c_adapter, c_now, c_tagged>>
  PROVE  StoreInv'
  BY DEF Store!redis_delete_tags, StoreInv, EntryTypes, ReverseIsCurrent, DirectionsAgree,
         ForwardCovers

\* clear, and the memory adapter opened again.
LEMMA StoreClears ==
  ASSUME Store!CacheStoreAssumption, StoreInv, Store!Cleared,
         UNCHANGED <<c_adapter, c_now, c_tagged>>
  PROVE  StoreInv'
  BY DEF Store!CacheStoreAssumption, Store!Cleared, Store!NoTags, StoreInv, EntryTypes,
         ReverseIsCurrent, DirectionsAgree, ForwardCovers

\* Every step of every adapter preserves the invariant.
LEMMA StoreNext ==
  ASSUME Store!CacheStoreAssumption, StoreInv, [Store!Next]_(Store!vars)
  PROVE  StoreInv'
<1> USE Store!CacheStoreAssumption
<1>1. CASE UNCHANGED Store!vars
  BY <1>1 DEF Store!vars, StoreInv, EntryTypes, ReverseIsCurrent, DirectionsAgree,
              ForwardCovers
<1>2. ASSUME NEW k \in CacheKeys, NEW ttl \in TTLs, NEW tags \in SUBSET Tags,
             Store!set(k, ttl, tags)
      PROVE  StoreInv'
  BY <1>2, StoreWrites, {k} \in SUBSET CacheKeys
     DEF Store!set, Store!memory_set, Store!redis_set, Store!postgres_set, Store!sqlite_set
<1>3. ASSUME NEW ks \in SUBSET CacheKeys, NEW ttl \in TTLs, NEW tags \in SUBSET Tags,
             Store!set_many(ks, ttl, tags)
      PROVE  StoreInv'
  BY <1>3, StoreWrites
     DEF Store!set_many, Store!memory_set_many, Store!postgres_set_many,
         Store!sqlite_set_many
<1>4. ASSUME NEW k \in CacheKeys,
             Store!memory_get(k) \/ Store!delete(k) \/ Store!_janitor_loop(k)
      PROVE  StoreInv'
  BY <1>4, StoreDrops, {k} \in SUBSET CacheKeys
     DEF Store!memory_get, Store!delete, Store!memory_delete, Store!redis_delete,
         Store!postgres_delete, Store!sqlite_delete, Store!_janitor_loop,
         Store!postgres_janitor, Store!sqlite_janitor
<1>5. ASSUME NEW ks \in SUBSET CacheKeys, Store!delete_many(ks) PROVE StoreInv'
  BY <1>5, StoreDrops
     DEF Store!delete_many, Store!memory_delete_many, Store!postgres_delete_many,
         Store!sqlite_delete_many
<1>6. ASSUME NEW t \in Tags, Store!delete_tags(t) PROVE StoreInv'
  <2>1. c_tag_keys[t] \in SUBSET CacheKeys
    BY DEF StoreInv, EntryTypes
  <2> QED
    BY <1>6, <2>1, StoreDrops, RedisDeletesTag
       DEF Store!delete_tags, Store!memory_delete_tags, Store!postgres_delete_tags,
           Store!sqlite_delete_tags
<1>7. CASE Store!clear
  BY <1>7, StoreClears
     DEF Store!clear, Store!memory_clear, Store!redis_clear, Store!postgres_clear,
         Store!sqlite_clear
<1>8. CASE Store!reopen
  <2>1. CASE Store!memory_aexit
    BY <1>8, <2>1, StoreClears DEF Store!reopen, Store!memory_aexit
  <2>2. CASE UNCHANGED <<c_data, c_tag_keys, c_key_tags>>
    BY <1>8, <2>2 DEF Store!reopen, StoreInv, EntryTypes, ReverseIsCurrent,
                      DirectionsAgree, ForwardCovers
  <2> QED
    BY <1>8, <2>1, <2>2
       DEF Store!reopen, Store!redis_aexit, Store!postgres_aexit, Store!sqlite_aexit
<1>9. CASE Store!Tick
  BY <1>9 DEF Store!Tick, Store!CacheStoreAssumption, StoreInv, EntryTypes,
              ReverseIsCurrent, DirectionsAgree, ForwardCovers
<1> QED
  BY <1>1, <1>2, <1>3, <1>4, <1>5, <1>6, <1>7, <1>8, <1>9 DEF Store!Next

\* The invariant says what a tag promises, on each adapter.
LEMMA StoreInvCovers ==
  ASSUME StoreInv
  PROVE  Store!TypeOK /\ Store!TagsCover
  BY DEF StoreInv, EntryTypes, ReverseIsCurrent, DirectionsAgree, ForwardCovers,
         Store!TypeOK, Store!TagsCover, Store!Live, Store!Found, Store!redis_get,
         Store!postgres_get, Store!sqlite_get

\* cache/*.py: in every adapter, a value that can be read is in the set of every tag that
\* its last set named, so delete_tags never leaves one behind; and the two dictionaries of
\* the memory adapter agree.
THEOREM TagsMissNothing ==
  ASSUME Store!CacheStoreAssumption
  PROVE  Store!Spec => [](Store!TypeOK /\ TagsCover)
<1>1. Store!Init => StoreInv
  BY StoreInit
<1>2. StoreInv /\ [Store!Next]_(Store!vars) => StoreInv'
  BY StoreNext
<1>3. StoreInv => Store!TypeOK /\ TagsCover
  BY StoreInvCovers DEF TagsCover
<1> QED
  BY <1>1, <1>2, <1>3, PTL DEF Store!Spec

-----------------------------------------------------------------------------
\* Idempotency.

Responses == [payload : Payloads, expire : Nat, slow : BOOLEAN]
Fingerprints == [payload : Payloads, expire : Nat]
InBlock ==
  [pc : {"reading", "checking", "wanting", "dwait", "running", "fingerprinting", "storing",
         "leaving"},
   payload : Payloads, held : {"nothing", "local", "both"}, seen : {None} \cup Responses,
   at : 0..BlockTime]

\* The types of the variables, the records and the blocks included.
BlockTypes ==
  /\ i_home \in Homes /\ i_distributed \in Distributed /\ i_now \in 0..BlockTime
  /\ i_response \in {None} \cup Responses /\ i_fingerprint \in {None} \cup Fingerprints
  /\ i_local \in [Procs -> Callers \cup {None}] /\ i_dlock \in Callers \cup {None}
  /\ i_call \in [Callers -> {Blocks!Idle} \cup InBlock] /\ i_calls \in 0..MaxBlocks
  /\ i_lapsed \in BOOLEAN /\ i_wrong \in BOOLEAN

Entered(c) == i_call[c].pc # "idle"

\* Which locks a block has at each point of __aenter__ and __aexit__.
PcTellsLocks ==
  \A c \in Callers :
    /\ i_call[c].pc = "wanting" => i_call[c].held = "nothing"
    /\ i_call[c].pc = "dwait" => i_call[c].held = "local" /\ i_distributed
    /\ i_call[c].pc \in {"running", "fingerprinting", "storing", "leaving"} =>
         i_call[c].held = IF i_distributed THEN "both" ELSE "local"
    /\ Entered(c) /\ i_call[c].held = "both" => i_distributed

\* A block that says it has a lock has it, the distributed one as long as no lease ran out.
HasLocal ==
  \A c \in Callers : Entered(c) /\ i_call[c].held # "nothing" => i_local[i_home[c]] = c
HasDistributed ==
  \A c \in Callers : Entered(c) /\ i_call[c].held = "both" /\ ~ i_lapsed => i_dlock = c

\* And a local lock is had by nobody else.
LocalIsHad ==
  \A p \in Procs : i_local[p] # None =>
    i_home[i_local[p]] = p /\ Entered(i_local[p]) /\ i_call[i_local[p]].held # "nothing"

\* Where blocks exclude one another: nobody executes what can be replayed,
ExecutesUnanswered ==
  Blocks!Exclusive => \A c \in Blocks!Running : ~ Blocks!Live(i_response)

\* whoever is about to write the response wrote the last fingerprint,
FingerprintFirst ==
  Blocks!Exclusive =>
    \A c \in Callers : i_call[c].pc = "storing" =>
      /\ i_fingerprint = [payload |-> i_call[c].payload, expire |-> i_call[c].at + TTL + Margin]
      /\ i_call[c].at <= i_now

\* and a response written in time never outlives the fingerprint of its own payload.
ResponseIsGuarded ==
  Blocks!Exclusive /\ Blocks!Live(i_response) /\ ~ i_response.slow =>
    /\ i_fingerprint \in Fingerprints
    /\ i_fingerprint.payload = i_response.payload
    /\ i_fingerprint.expire >= i_response.expire

LockInv == PcTellsLocks /\ HasLocal /\ HasDistributed /\ LocalIsHad
RecordInv == ExecutesUnanswered /\ FingerprintFirst /\ ResponseIsGuarded
BlockInv == BlockTypes /\ LockInv /\ RecordInv /\ ~ i_wrong

\* Before the first request.
LEMMA BlockInit ==
  ASSUME Blocks!IdempotencyAssumption, Blocks!Init
  PROVE  BlockInv
<1>1. BlockTypes
  <2>1. i_lapsed \in BOOLEAN /\ i_wrong \in BOOLEAN
    BY Zenon DEF Blocks!Init
  <2> QED
    BY <2>1 DEF Blocks!IdempotencyAssumption, Blocks!Init, BlockTypes
<1>2. LockInv
  BY DEF Blocks!Init, Blocks!Idle, LockInv, PcTellsLocks, HasLocal, HasDistributed,
         LocalIsHad, Entered
<1>3. RecordInv
  BY DEF Blocks!Init, Blocks!Idle, Blocks!Running, Blocks!Live, RecordInv,
         ExecutesUnanswered, FingerprintFirst, ResponseIsGuarded
<1> QED
  BY <1>1, <1>2, <1>3 DEF Blocks!Init, BlockInv

\* A block that was entered is a record with all its fields.
LEMMA InBlockType ==
  ASSUME BlockTypes, NEW c \in Callers, Entered(c)
  PROVE  i_call[c] \in InBlock
  BY DEF BlockTypes, Entered, Blocks!Idle

\* Every step keeps the types.
LEMMA BlockTypesKept ==
  ASSUME Blocks!IdempotencyAssumption, BlockTypes, [Blocks!Next]_(Blocks!vars)
  PROVE  BlockTypes'
<1> USE DEF Blocks!IdempotencyAssumption, BlockTypes, Blocks!Idle, Blocks!config,
            Blocks!records, Blocks!locks
<1>1. CASE UNCHANGED Blocks!vars
  BY <1>1 DEF Blocks!vars
<1>2. ASSUME NEW c \in Callers, NEW payload \in Payloads, Blocks!__aenter__(c, payload)
      PROVE  BlockTypes'
  BY <1>2 DEF Blocks!__aenter__, InBlock
<1>3. ASSUME NEW c \in Callers, Blocks!_replay(c) PROVE BlockTypes'
  BY <1>3 DEF Blocks!_replay, Blocks!Step, Blocks!Onwards, Blocks!Live, InBlock, Responses, Fingerprints
<1>4. ASSUME NEW c \in Callers, Blocks!check_fingerprint(c) PROVE BlockTypes'
  BY <1>4 DEF Blocks!check_fingerprint, Blocks!_release, Blocks!Owns, InBlock, Responses, Fingerprints
<1>5. ASSUME NEW c \in Callers, Blocks!acquire_local(c) PROVE BlockTypes'
  <2>1. i_call[c] \in InBlock
    BY <1>5, InBlockType DEF Blocks!acquire_local, Entered
  <2>2. i_call' = [i_call EXCEPT ![c] = [@ EXCEPT !.pc = "reading", !.held = "local"]]
    BY <1>5, <2>1 DEF Blocks!acquire_local, InBlock
  <2>3. i_call'[c] \in InBlock
    BY <2>1, <2>2 DEF InBlock
  <2> QED
    BY <1>5, <2>2, <2>3 DEF Blocks!acquire_local
<1>6. ASSUME NEW c \in Callers, Blocks!acquire_distributed(c) PROVE BlockTypes'
  <2>1. i_call[c] \in InBlock
    BY <1>6, InBlockType DEF Blocks!acquire_distributed, Entered
  <2>2. i_call' = [i_call EXCEPT ![c] = [@ EXCEPT !.pc = "reading", !.held = "both"]]
    BY <1>6, <2>1 DEF Blocks!acquire_distributed, InBlock
  <2>3. i_call'[c] \in InBlock
    BY <2>1, <2>2 DEF InBlock
  <2> QED
    BY <1>6, <2>2, <2>3 DEF Blocks!acquire_distributed
<1>7. ASSUME NEW c \in Callers, Blocks!leave_early(c) PROVE BlockTypes'
  BY <1>7 DEF Blocks!leave_early, Blocks!_release, Blocks!Owns, InBlock, Responses, Fingerprints
<1>8. ASSUME NEW c \in Callers, Blocks!run(c) PROVE BlockTypes'
  BY <1>8 DEF Blocks!run, Blocks!Step, InBlock, Responses, Fingerprints
<1>9. ASSUME NEW c \in Callers, Blocks!persist_fingerprint(c) PROVE BlockTypes'
  <2>1. i_call[c] \in InBlock
    BY <1>9, InBlockType DEF Blocks!persist_fingerprint, Entered
  <2>2. i_call' = [i_call EXCEPT ![c] = [@ EXCEPT !.pc = "storing", !.at = i_now]]
    BY <1>9, <2>1 DEF Blocks!persist_fingerprint, InBlock
  <2>3. i_call'[c] \in InBlock
    BY <2>1, <2>2 DEF InBlock
  <2>4. i_fingerprint' \in Fingerprints
    BY <1>9, <2>1 DEF Blocks!persist_fingerprint, InBlock, Fingerprints
  <2> QED
    BY <1>9, <2>2, <2>3, <2>4 DEF Blocks!persist_fingerprint
<1>10. ASSUME NEW c \in Callers, Blocks!persist_response(c) PROVE BlockTypes'
  BY <1>10 DEF Blocks!persist_response, Blocks!Step, InBlock, Responses, Fingerprints
<1>11. ASSUME NEW c \in Callers, Blocks!__aexit__(c) PROVE BlockTypes'
  BY <1>11 DEF Blocks!__aexit__, Blocks!_release, Blocks!Owns, InBlock, Responses, Fingerprints
<1>12. ASSUME NEW p \in Procs, Blocks!crash(p) PROVE BlockTypes'
  BY <1>12 DEF Blocks!crash
<1>13. CASE Blocks!lease_lapses
  <2>1. i_lapsed' \in BOOLEAN
    BY <1>13, Zenon DEF Blocks!lease_lapses
  <2> QED
    BY <1>13, <2>1 DEF Blocks!lease_lapses
<1>14. CASE Blocks!Tick
  BY <1>14 DEF Blocks!Tick
<1> QED
  BY <1>1, <1>2, <1>3, <1>4, <1>5, <1>6, <1>7, <1>8, <1>9, <1>10, <1>11, <1>12, <1>13, <1>14
     DEF Blocks!Next

\* Every step keeps the locks where the blocks say they are.
LEMMA LockInvKept ==
  ASSUME Blocks!IdempotencyAssumption, BlockTypes, BlockTypes', LockInv,
         [Blocks!Next]_(Blocks!vars)
  PROVE  LockInv'
<1> USE DEF Blocks!IdempotencyAssumption, BlockTypes, LockInv, PcTellsLocks, HasLocal,
            HasDistributed, LocalIsHad, Entered, Blocks!Idle, Blocks!config, Blocks!records,
            Blocks!locks
<1>1. CASE UNCHANGED Blocks!vars
  BY <1>1 DEF Blocks!vars
<1>2. ASSUME NEW c \in Callers, NEW payload \in Payloads, Blocks!__aenter__(c, payload)
      PROVE  LockInv'
  BY <1>2 DEF Blocks!__aenter__
<1>3. ASSUME NEW c \in Callers, Blocks!_replay(c) PROVE LockInv'
  <2>1. i_call[c] \in InBlock
    BY <1>3, InBlockType DEF Blocks!_replay
  <2> QED
    BY <1>3, <2>1 DEF Blocks!_replay, Blocks!Step, Blocks!Onwards, InBlock
<1>4. ASSUME NEW c \in Callers, Blocks!check_fingerprint(c) PROVE LockInv'
  <2>1. i_call[c] \in InBlock
    BY <1>4, InBlockType DEF Blocks!check_fingerprint
  <2> QED
    BY <1>4, <2>1 DEF Blocks!check_fingerprint, Blocks!_release, Blocks!Owns, InBlock
<1>5. ASSUME NEW c \in Callers, Blocks!acquire_local(c) PROVE LockInv'
  <2>1. i_call[c] \in InBlock
    BY <1>5, InBlockType DEF Blocks!acquire_local
  <2> QED
    BY <1>5, <2>1 DEF Blocks!acquire_local, InBlock
<1>6. ASSUME NEW c \in Callers, Blocks!acquire_distributed(c) PROVE LockInv'
  <2>1. i_call[c] \in InBlock
    BY <1>6, InBlockType DEF Blocks!acquire_distributed
  <2> QED
    BY <1>6, <2>1 DEF Blocks!acquire_distributed, InBlock
<1>7. ASSUME NEW c \in Callers, Blocks!leave_early(c) PROVE LockInv'
  <2>1. i_call[c] \in InBlock
    BY <1>7, InBlockType DEF Blocks!leave_early
  <2> QED
    BY <1>7, <2>1 DEF Blocks!leave_early, Blocks!_release, Blocks!Owns, InBlock
<1>8. ASSUME NEW c \in Callers, Blocks!run(c) PROVE LockInv'
  <2>1. i_call[c] \in InBlock
    BY <1>8, InBlockType DEF Blocks!run
  <2>2. ASSUME NEW pc \in {"fingerprinting", "leaving"}, i_call' = [i_call EXCEPT ![c].pc = pc]
        PROVE  LockInv'
    <3>1. i_call'[c].held = i_call[c].held /\ i_call'[c].pc = pc
      BY <2>1, <2>2 DEF InBlock
    <3>2. \A d \in Callers \ {c} : i_call'[d] = i_call[d]
      BY <2>2
    <3> QED
      BY <1>8, <2>1, <3>1, <3>2 DEF Blocks!run
  <2> QED
    BY <1>8, <2>2 DEF Blocks!run, Blocks!Step
<1>9. ASSUME NEW c \in Callers, Blocks!persist_fingerprint(c) PROVE LockInv'
  <2>1. i_call[c] \in InBlock
    BY <1>9, InBlockType DEF Blocks!persist_fingerprint
  <2> QED
    BY <1>9, <2>1 DEF Blocks!persist_fingerprint, InBlock
<1>10. ASSUME NEW c \in Callers, Blocks!persist_response(c) PROVE LockInv'
  <2>1. i_call[c] \in InBlock
    BY <1>10, InBlockType DEF Blocks!persist_response
  <2> QED
    BY <1>10, <2>1 DEF Blocks!persist_response, Blocks!Step, InBlock
<1>11. ASSUME NEW c \in Callers, Blocks!__aexit__(c) PROVE LockInv'
  <2>1. i_call[c] \in InBlock
    BY <1>11, InBlockType DEF Blocks!__aexit__
  <2> QED
    BY <1>11, <2>1 DEF Blocks!__aexit__, Blocks!_release, Blocks!Owns, InBlock
<1>12. ASSUME NEW p \in Procs, Blocks!crash(p) PROVE LockInv'
  BY <1>12 DEF Blocks!crash
<1>13. CASE Blocks!lease_lapses
  BY <1>13 DEF Blocks!lease_lapses, Blocks!Owns
<1>14. CASE Blocks!Tick
  BY <1>14 DEF Blocks!Tick
<1> QED
  BY <1>1, <1>2, <1>3, <1>4, <1>5, <1>6, <1>7, <1>8, <1>9, <1>10, <1>11, <1>12, <1>13, <1>14
     DEF Blocks!Next

\* Where blocks exclude one another, one at a time is past __aenter__.
LEMMA Exclusion ==
  ASSUME BlockTypes, Blocks!IdempotencyAssumption, LockInv, Blocks!Exclusive,
         NEW c \in Callers, NEW d \in Callers,
         i_call[c].pc \in {"running", "fingerprinting", "storing", "leaving"},
         i_call[d].pc \in {"running", "fingerprinting", "storing", "leaving"}
  PROVE  c = d
  BY DEF BlockTypes, LockInv, PcTellsLocks, HasLocal, HasDistributed, Entered,
         Blocks!Exclusive

\* No step makes blocks exclude one another again.
LEMMA ExclusiveIsLost ==
  ASSUME [Blocks!Next]_(Blocks!vars), Blocks!Exclusive'
  PROVE  Blocks!Exclusive
<1>1. i_home' = i_home /\ i_distributed' = i_distributed /\ (i_lapsed => i_lapsed')
  <2>1. CASE Blocks!lease_lapses
    BY <2>1, Zenon DEF Blocks!lease_lapses, Blocks!config
  <2>2. CASE UNCHANGED <<i_home, i_distributed, i_lapsed>>
    BY <2>2, Zenon
  <2> QED
    BY <2>1, <2>2
       DEF Blocks!Next, Blocks!vars, Blocks!config, Blocks!__aenter__, Blocks!_replay,
           Blocks!check_fingerprint, Blocks!acquire_local, Blocks!acquire_distributed,
           Blocks!leave_early, Blocks!run, Blocks!persist_fingerprint,
           Blocks!persist_response, Blocks!__aexit__, Blocks!crash, Blocks!Tick
<1> QED
  BY <1>1, Zenon DEF Blocks!Exclusive

\* A step that writes no record, lets nobody past __aenter__ and does not turn back the
\* clock keeps the records in order.
LEMMA RecordsUntouched ==
  ASSUME BlockTypes, BlockTypes', RecordInv, [Blocks!Next]_(Blocks!vars),
         UNCHANGED <<i_response, i_fingerprint>>, i_now' >= i_now,
         \A d \in Callers :
           \/ i_call'[d] = i_call[d]
           \/ i_call'[d].pc \notin {"running", "fingerprinting", "storing"}
  PROVE  RecordInv'
<1>1. SUFFICES ASSUME Blocks!Exclusive' PROVE RecordInv'
  BY DEF RecordInv, ExecutesUnanswered, FingerprintFirst, ResponseIsGuarded
<1>2. Blocks!Exclusive
  BY <1>1, ExclusiveIsLost
<1>3. Blocks!Live(i_response)' => Blocks!Live(i_response)
  BY DEF Blocks!Live, BlockTypes, Responses
<1>4. ExecutesUnanswered'
  BY <1>2, <1>3 DEF RecordInv, ExecutesUnanswered, Blocks!Running
<1>5. FingerprintFirst'
  <2> SUFFICES ASSUME NEW d \in Callers, i_call'[d].pc = "storing"
               PROVE  /\ i_fingerprint' = [payload |-> i_call'[d].payload,
                                           expire |-> i_call'[d].at + TTL + Margin]
                      /\ i_call'[d].at <= i_now'
    BY DEF FingerprintFirst
  <2>1. i_call'[d] = i_call[d] /\ i_call[d] \in InBlock
    BY InBlockType DEF Entered
  <2> QED
    BY <1>2, <2>1 DEF RecordInv, FingerprintFirst, BlockTypes, InBlock
<1>6. ResponseIsGuarded'
  BY <1>2, <1>3 DEF RecordInv, ResponseIsGuarded
<1> QED
  BY <1>4, <1>5, <1>6 DEF RecordInv

\* Every step keeps the records in order.
LEMMA RecordInvKept ==
  ASSUME Blocks!IdempotencyAssumption, BlockTypes, BlockTypes', LockInv, LockInv', RecordInv,
         [Blocks!Next]_(Blocks!vars)
  PROVE  RecordInv'
<1> USE DEF Blocks!Idle, Blocks!config, Blocks!records, Blocks!locks
<1>1. CASE UNCHANGED Blocks!vars
  BY <1>1, RecordsUntouched DEF Blocks!vars, BlockTypes
<1>2. ASSUME NEW c \in Callers, NEW payload \in Payloads, Blocks!__aenter__(c, payload)
      PROVE  RecordInv'
  BY <1>2, RecordsUntouched DEF Blocks!__aenter__, BlockTypes
<1>3. ASSUME NEW c \in Callers, Blocks!check_fingerprint(c) PROVE RecordInv'
  <2>1. i_call[c] \in InBlock
    BY <1>3, InBlockType DEF Blocks!check_fingerprint, Entered
  <2> QED
    BY <1>3, <2>1, RecordsUntouched DEF Blocks!check_fingerprint, BlockTypes, InBlock
<1>4. ASSUME NEW c \in Callers, Blocks!acquire_local(c) PROVE RecordInv'
  <2>1. i_call[c] \in InBlock
    BY <1>4, InBlockType DEF Blocks!acquire_local, Entered
  <2> QED
    BY <1>4, <2>1, RecordsUntouched DEF Blocks!acquire_local, BlockTypes, InBlock
<1>5. ASSUME NEW c \in Callers, Blocks!acquire_distributed(c) PROVE RecordInv'
  <2>1. i_call[c] \in InBlock
    BY <1>5, InBlockType DEF Blocks!acquire_distributed, Entered
  <2> QED
    BY <1>5, <2>1, RecordsUntouched DEF Blocks!acquire_distributed, BlockTypes, InBlock
<1>6. ASSUME NEW c \in Callers, Blocks!leave_early(c) PROVE RecordInv'
  <2>1. i_call[c] \in InBlock
    BY <1>6, InBlockType DEF Blocks!leave_early, Entered
  <2> QED
    BY <1>6, <2>1, RecordsUntouched DEF Blocks!leave_early, BlockTypes, InBlock
<1>7. ASSUME NEW c \in Callers, Blocks!__aexit__(c) PROVE RecordInv'
  <2>1. i_call[c] \in InBlock
    BY <1>7, InBlockType DEF Blocks!__aexit__, Entered
  <2> QED
    BY <1>7, <2>1, RecordsUntouched DEF Blocks!__aexit__, BlockTypes, InBlock
<1>8. ASSUME NEW p \in Procs, Blocks!crash(p) PROVE RecordInv'
  BY <1>8, RecordsUntouched DEF Blocks!crash, BlockTypes
<1>9. CASE Blocks!lease_lapses \/ Blocks!Tick
  BY <1>9, RecordsUntouched DEF Blocks!lease_lapses, Blocks!Tick, BlockTypes
<1>10. ASSUME NEW c \in Callers, Blocks!_replay(c) PROVE RecordInv'
  <2>1. i_call[c] \in InBlock
    BY <1>10, InBlockType DEF Blocks!_replay, Entered
  <2>2. CASE Blocks!Live(i_response)
    BY <1>10, <2>1, <2>2, RecordsUntouched DEF Blocks!_replay, BlockTypes, InBlock
  <2>3. CASE ~ Blocks!Live(i_response)
    <3>1. i_call'[c].pc \in {"wanting", "dwait", "running"}
      BY <1>10, <2>1, <2>3 DEF Blocks!_replay, Blocks!Step, Blocks!Onwards, BlockTypes, InBlock
    <3>2. \A d \in Callers \ {c} : i_call'[d] = i_call[d]
      BY <1>10, <2>3 DEF Blocks!_replay, Blocks!Step, BlockTypes
    <3> QED
      BY <1>10, <2>3, <3>1, <3>2, ExclusiveIsLost
         DEF Blocks!_replay, RecordInv, ExecutesUnanswered, FingerprintFirst,
             ResponseIsGuarded, Blocks!Live
  <2> QED
    BY <2>2, <2>3
<1>11. ASSUME NEW c \in Callers, Blocks!run(c) PROVE RecordInv'
  <2>1. i_call[c] \in InBlock
    BY <1>11, InBlockType DEF Blocks!run, Entered
  <2>2. i_call'[c].pc \in {"fingerprinting", "leaving"}
    BY <1>11, <2>1 DEF Blocks!run, Blocks!Step, BlockTypes, InBlock
  <2>3. \A d \in Callers \ {c} : i_call'[d] = i_call[d]
    BY <1>11 DEF Blocks!run, Blocks!Step, BlockTypes
  <2> QED
    BY <1>11, <2>2, <2>3, ExclusiveIsLost
       DEF Blocks!run, RecordInv, ExecutesUnanswered, FingerprintFirst, ResponseIsGuarded,
           Blocks!Running, Blocks!Live
<1>12. ASSUME NEW c \in Callers, Blocks!persist_fingerprint(c) PROVE RecordInv'
  <2>1. i_call[c] \in InBlock
    BY <1>12, InBlockType DEF Blocks!persist_fingerprint, Entered
  <2>2. /\ i_call'[c].pc = "storing" /\ i_call'[c].at = i_now
        /\ i_call'[c].payload = i_call[c].payload
        /\ \A d \in Callers \ {c} : i_call'[d] = i_call[d]
    BY <1>12, <2>1 DEF Blocks!persist_fingerprint, BlockTypes, InBlock
  <2>3. SUFFICES ASSUME Blocks!Exclusive' PROVE RecordInv'
    BY DEF RecordInv, ExecutesUnanswered, FingerprintFirst, ResponseIsGuarded
  <2>4. Blocks!Exclusive
    BY <2>3, ExclusiveIsLost
  <2>5. ~ Blocks!Live(i_response)'
    BY <1>12, <2>4 DEF Blocks!persist_fingerprint, RecordInv, ExecutesUnanswered,
                       Blocks!Running, Blocks!Live
  <2>6. \A d \in Callers : i_call'[d].pc = "storing" => d = c
    BY <1>12, <2>2, <2>4, Exclusion DEF Blocks!persist_fingerprint
  <2> QED
    BY <1>12, <2>2, <2>5, <2>6
       DEF Blocks!persist_fingerprint, BlockTypes, RecordInv, ExecutesUnanswered,
           FingerprintFirst, ResponseIsGuarded, Blocks!IdempotencyAssumption
<1>13. ASSUME NEW c \in Callers, Blocks!persist_response(c) PROVE RecordInv'
  <2>1. i_call[c] \in InBlock
    BY <1>13, InBlockType DEF Blocks!persist_response, Entered
  <2>2. i_call'[c].pc = "leaving" /\ \A d \in Callers \ {c} : i_call'[d] = i_call[d]
    BY <1>13, <2>1 DEF Blocks!persist_response, Blocks!Step, BlockTypes, InBlock
  <2>3. SUFFICES ASSUME Blocks!Exclusive' PROVE RecordInv'
    BY DEF RecordInv, ExecutesUnanswered, FingerprintFirst, ResponseIsGuarded
  <2>4. Blocks!Exclusive
    BY <2>3, ExclusiveIsLost
  <2>5. \A d \in Callers : i_call'[d].pc \notin {"running", "fingerprinting", "storing"}
    BY <1>13, <2>2, <2>4, Exclusion DEF Blocks!persist_response
  <2>6. /\ i_fingerprint' = [payload |-> i_call[c].payload,
                             expire |-> i_call[c].at + TTL + Margin]
        /\ i_call[c].at <= i_now
    BY <1>13, <2>4 DEF Blocks!persist_response, RecordInv, FingerprintFirst
  <2>7. i_response'.payload = i_call[c].payload /\ i_response'.expire = i_now + TTL
    BY <1>13 DEF Blocks!persist_response
  <2>8. ASSUME ~ i_response'.slow PROVE i_now - i_call[c].at <= Margin
    <3>1. i_response'.slow = (i_now - i_call[c].at > Margin)
      BY <1>13, Zenon DEF Blocks!persist_response
    <3>2. ~ (i_now - i_call[c].at > Margin)
      BY <2>8, <3>1, Zenon
    <3> QED
      BY <2>1, <3>2 DEF BlockTypes, InBlock, Blocks!IdempotencyAssumption
  <2>9. ResponseIsGuarded'
    <3> SUFFICES ASSUME ~ i_response'.slow
                 PROVE  /\ i_fingerprint' \in Fingerprints
                        /\ i_fingerprint'.payload = i_response'.payload
                        /\ i_fingerprint'.expire >= i_response'.expire
      BY DEF ResponseIsGuarded
    <3> QED
      BY <2>1, <2>6, <2>7, <2>8
         DEF BlockTypes, InBlock, Fingerprints, Blocks!IdempotencyAssumption
  <2> QED
    BY <2>5, <2>9 DEF RecordInv, ExecutesUnanswered, FingerprintFirst, Blocks!Running
<1> QED
  BY <1>1, <1>2, <1>3, <1>4, <1>5, <1>6, <1>7, <1>8, <1>9, <1>10, <1>11, <1>12, <1>13
     DEF Blocks!Next

\* The fingerprint that check_fingerprint reads is there and is that of the response: no
\* answer to another payload passes.
LEMMA NeverWrong ==
  ASSUME Blocks!IdempotencyAssumption, BlockInv, [Blocks!Next]_(Blocks!vars)
  PROVE  ~ i_wrong'
<1>1. ASSUME NEW c \in Callers, Blocks!check_fingerprint(c) PROVE ~ i_wrong'
  <2>1. SUFFICES ASSUME Blocks!Prompt(c), Blocks!Exclusive,
                        i_call[c].seen.payload # i_call[c].payload
                 PROVE  Blocks!Conflicts(c)
    BY <1>1, Zenon DEF Blocks!check_fingerprint, BlockInv
  <2>2. /\ i_fingerprint \in Fingerprints
        /\ i_fingerprint.payload = i_response.payload
        /\ i_fingerprint.expire >= i_response.expire
    BY <2>1 DEF Blocks!Prompt, BlockInv, RecordInv, ResponseIsGuarded
  <2>3. i_response.expire > i_now /\ i_response \in Responses /\ i_response = i_call[c].seen
    BY <2>1 DEF Blocks!Prompt, Blocks!Live, BlockInv, BlockTypes
  <2>4. i_fingerprint.expire > i_now /\ i_fingerprint # None
    BY <2>2, <2>3 DEF Responses, Fingerprints, BlockInv, BlockTypes,
                      Blocks!IdempotencyAssumption
  <2> QED
    BY <2>1, <2>2, <2>3, <2>4 DEF Blocks!Conflicts, Blocks!Live
<1>2. CASE UNCHANGED i_wrong
  BY <1>2, Zenon DEF BlockInv
<1> QED
  BY <1>1, <1>2
     DEF Blocks!Next, Blocks!vars, Blocks!__aenter__, Blocks!_replay, Blocks!acquire_local,
         Blocks!acquire_distributed, Blocks!leave_early, Blocks!run,
         Blocks!persist_fingerprint, Blocks!persist_response, Blocks!__aexit__,
         Blocks!crash, Blocks!lease_lapses, Blocks!Tick

\* One execution at a time, by the distributed lock or within a process.
LEMMA BlockInvExecutesOnce ==
  ASSUME Blocks!IdempotencyAssumption, BlockInv
  PROVE  Blocks!OneExecution
<1> USE DEF BlockInv
<1>1. ASSUME i_distributed, ~ i_lapsed
      PROVE  /\ Blocks!Cardinality(Blocks!Running) <= 1
             /\ Blocks!Running # {} => ~ Blocks!Live(i_response)
  <2>1. Blocks!Exclusive
    BY <1>1 DEF Blocks!Exclusive
  <2>2. \A c, d \in Blocks!Running : c = d
    BY <2>1, Exclusion DEF Blocks!Running
  <2> QED
    BY <2>1, <2>2, AtMostOne, BlocksCardinality DEF RecordInv, ExecutesUnanswered
<1>2. ASSUME ~ i_distributed, NEW p \in Procs
      PROVE  Blocks!Cardinality({c \in Blocks!Running : i_home[c] = p}) <= 1
  <2>1. \A c, d \in {e \in Blocks!Running : i_home[e] = p} : c = d
    BY <1>2 DEF Blocks!Running, BlockTypes, LockInv, PcTellsLocks, HasLocal, Entered
  <2> QED
    BY <2>1, AtMostOne, BlocksCardinality
<1> QED
  BY <1>1, <1>2 DEF Blocks!OneExecution

\* idempotency/_idempotency.py: with a lock backend and while leases last, a key is never
\* executed twice at once nor while its response can be replayed, without one never twice
\* in a process; where executions exclude one another no request is answered with the
\* response to another payload; and a local lock is always in a block that gives it back.
THEOREM KeysExecuteOnce ==
  ASSUME Blocks!IdempotencyAssumption
  PROVE  Blocks!Spec => [](Blocks!TypeOK /\ OneExecution)
<1>1. Blocks!Init => BlockInv
  BY BlockInit
<1>2. BlockInv /\ [Blocks!Next]_(Blocks!vars) => BlockInv'
  BY BlockTypesKept, LockInvKept, RecordInvKept, NeverWrong DEF BlockInv
<1>3. BlockInv => Blocks!OneExecution
  BY BlockInvExecutesOnce
<1>4. BlockInv => Blocks!TypeOK
  BY DEF BlockInv, BlockTypes, InBlock, Blocks!TypeOK, Blocks!Idle
<1>5. BlockInv => Blocks!ReplayMatches /\ Blocks!LocksComeBack
  BY DEF BlockInv, LockInv, LocalIsHad, Entered, Blocks!ReplayMatches,
         Blocks!LocksComeBack, Blocks!Idle
<1>6. BlockInv => OneExecution
  BY <1>3, <1>5 DEF OneExecution
<1> QED
  BY <1>1, <1>2, <1>4, <1>6, PTL DEF Blocks!Spec

-----------------------------------------------------------------------------
\* The decorator and its stampede guard.

Deep == {"dlocked", "computing", "computed", "storing", "leaving", "failing"}
Holding == {"locked", "dwait"} \cup Deep
InCall ==
  [pc : {"wanting", "failed", "spawned"} \cup Holding, kind : {"cold", "forced", "early"},
   lock : Decorated!LockIds \cup {None}, distributed : BOOLEAN, version : Decorated!Versions]

\* The types of the variables, the calls included.
CallTypes ==
  /\ d_decoration \in Decorations /\ d_home \in Homes /\ d_source \in Decorated!Versions
  /\ d_value \in Decorated!Versions \cup {None} /\ d_reserve \in Decorated!Versions \cup {None}
  /\ d_table \in [Procs -> Decorated!LockIds \cup {None}]
  /\ d_owner \in [Decorated!LockIds -> Callers \cup {None}]
  /\ d_dlock \in Callers \cup {None}
  /\ d_call \in [Callers -> {Decorated!Idle} \cup InCall]
  /\ d_calls \in 0..MaxCalls /\ d_losses \in 0..MaxLosses
  /\ d_newest \in Decorated!Versions /\ d_lapsed \in BOOLEAN

Within(c) == d_call[c].pc # "idle"

\* What kind of call gets where.
KindFollows(r) ==
  /\ r.lock = None => Decorated!lock = "none" /\ r.kind # "early" /\ r.pc # "wanting"
  /\ r.pc = "spawned" => r.kind = "early"
  /\ r.kind = "early" => Decorated!early /\ r.pc \notin {"wanting", "locked", "dwait", "dlocked"}
  /\ r.pc = "dwait" => Decorated!lock = "distributed"
  /\ r.pc \in {"wanting", "spawned", "locked", "dwait"} => ~ r.distributed
  /\ r.pc \in {"dlocked", "computing", "computed"} /\ r.kind # "early"
       /\ Decorated!lock = "distributed" => r.distributed
KindsFollow == \A c \in Callers : Within(c) => KindFollows(d_call[c])

\* A call past its local lock has it, and a lock that is held has a call that will give it
\* back; the same of the distributed one, as long as no lease ran out.
HasKeyLock ==
  \A c \in Callers : d_call[c].pc \in Holding /\ d_call[c].lock # None =>
    d_owner[d_call[c].lock] = c
KeyLocksHad ==
  \A l \in Decorated!LockIds : d_owner[l] # None => d_call[d_owner[l]].pc \in Holding
HasLease ==
  \A c \in Callers :
    d_call[c].pc \in Deep /\ d_call[c].distributed /\ ~ d_lapsed => d_dlock = c
LeaseHad == d_dlock # None => d_call[d_dlock].pc \in Deep
OwnersMatch == HasKeyLock /\ KeyLocksHad /\ HasLease /\ LeaseHad

\* As long as a guard dropped no lock in use, the calls of its process use its lock.
OneLockPerProcess ==
  \A c \in Callers : Within(c) /\ d_call[c].lock # None /\ d_home[c] \notin d_evicted =>
    d_call[c].lock = d_table[d_home[c]]

\* Under lock=True without early=, as long as no lease ran out: whoever computes for a miss
\* saw that there is no value, and reads no older version than the newest that was stored.
Exclusive == Decorated!lock = "distributed" /\ ~ Decorated!early /\ ~ d_lapsed
NotAhead ==
  /\ d_newest <= d_source
  /\ \A c \in Callers : d_call[c].pc \in {"computing", "computed"} =>
       d_call[c].version <= d_source
MissesSawNone ==
  Exclusive => \A c \in Callers :
    d_call[c].pc \in {"computing", "computed"} /\ d_call[c].kind = "cold" => d_value = None
NoneIsOlder ==
  Exclusive =>
    /\ \A c \in Callers : d_call[c].pc \in {"computing", "computed"} =>
         d_call[c].version >= d_newest
    /\ d_value # None => d_value >= d_newest
Latest == NotAhead /\ MissesSawNone /\ NoneIsOlder

CallInv == CallTypes /\ KindsFollow /\ OwnersMatch /\ OneLockPerProcess /\ Latest

\* A call under way is a record with all its fields.
LEMMA InCallType ==
  ASSUME CallTypes, NEW c \in Callers, Within(c)
  PROVE  d_call[c] \in InCall
  BY DEF CallTypes, Within, Decorated!Idle

\* Most steps of a call change its pc and its version and nothing else of it.
Goes(c, pc, v) == d_call' = [d_call EXCEPT ![c].pc = pc, ![c].version = v]
PCs == {"wanting", "failed", "spawned"} \cup Holding
LEMMA GoesFields ==
  ASSUME CallTypes, NEW c \in Callers, Within(c), NEW pc \in PCs,
         NEW v \in Decorated!Versions, Goes(c, pc, v)
  PROVE  /\ d_call'[c].pc = pc /\ d_call'[c].version = v
         /\ d_call'[c].kind = d_call[c].kind /\ d_call'[c].lock = d_call[c].lock
         /\ d_call'[c].distributed = d_call[c].distributed
         /\ \A d \in Callers \ {c} : d_call'[d] = d_call[d]
         /\ d_call' \in [Callers -> {Decorated!Idle} \cup InCall]
<1>1. d_call[c] \in InCall
  BY InCallType
<1>2. d_call' = [d_call EXCEPT ![c] = [@ EXCEPT !.pc = pc, !.version = v]]
  BY <1>1 DEF Goes, CallTypes, InCall
<1>3. d_call'[c] = [d_call[c] EXCEPT !.pc = pc, !.version = v]
  BY <1>2 DEF CallTypes
<1>4. d_call'[c] \in InCall
  BY <1>1, <1>3 DEF InCall, PCs
<1> QED
  BY <1>1, <1>2, <1>3, <1>4 DEF CallTypes, InCall

\* The start of a process: no calls and no locks.
LEMMA CallInit ==
  ASSUME Decorated!CachedAssumption, Decorated!Init
  PROVE  CallInv
<1>1. CallTypes
  <2>1. d_lapsed \in BOOLEAN
    BY Zenon DEF Decorated!Init
  <2>2. d_value \in Decorated!Versions \cup {None} /\ d_reserve \in Decorated!Versions \cup {None}
    BY DEF Decorated!CachedAssumption, Decorated!Init, Decorated!Versions
  <2> QED
    BY <2>1, <2>2 DEF Decorated!CachedAssumption, Decorated!Init, Decorated!Versions, CallTypes
<1>2. KindsFollow /\ OwnersMatch /\ OneLockPerProcess /\ Latest
  BY DEF Decorated!Init, Decorated!Idle, KindsFollow, OwnersMatch, OneLockPerProcess, Latest,
         Within, Holding, Deep, HasKeyLock, KeyLocksHad, HasLease, LeaseHad, NotAhead,
         MissesSawNone, NoneIsOlder
<1> QED
  BY <1>1, <1>2 DEF CallInv

\* A lock object is never None.
LEMMA DecoratedLockIds ==
  ASSUME Decorated!CachedAssumption
  PROVE  None \notin Decorated!LockIds
<1>1. Cardinality(Callers) \in Nat /\ Cardinality(Procs) \in Nat
  BY FS_CardinalityType DEF Decorated!CachedAssumption, Decorated!IsFiniteSet, IsFiniteSet
<1> QED
  BY <1>1, DecoratedCardinality DEF Decorated!CachedAssumption, Decorated!LockIds

\* There is a lock object that nobody refers to: an idle caller has none, and there is one
\* for every caller and every process.
LEMMA FreshLock ==
  ASSUME Decorated!CachedAssumption, CallTypes, NEW c \in Callers, d_call[c].pc = "idle",
         NEW p \in Procs
  PROVE  Decorated!get_lock(p) \in Decorated!LockIds
<1> DEFINE Busy == {x \in Callers : "lock" \in DOMAIN d_call[x]}
           InUse == {d_call[x].lock : x \in Busy}
           InTable == {d_table[q] : q \in Procs}
<1>1. IsFiniteSet(Callers) /\ IsFiniteSet(Procs)
  BY DEF Decorated!CachedAssumption, Decorated!IsFiniteSet, IsFiniteSet
<1>2. Busy \in SUBSET (Callers \ {c})
  <2>1. d_call[c] = [pc |-> "idle"]
    BY DEF CallTypes, InCall, Decorated!Idle, Holding, Deep
  <2> QED
    BY <2>1
<1>3. /\ IsFiniteSet(Callers \ {c}) /\ Cardinality(Callers \ {c}) = Cardinality(Callers) - 1
      /\ Cardinality(Callers) \in Nat /\ Cardinality(Procs) \in Nat
  BY <1>1, FS_RemoveElement, FS_CardinalityType
<1>4. /\ IsFiniteSet(Busy) /\ Cardinality(Busy) <= Cardinality(Callers) - 1
      /\ Cardinality(Busy) \in Nat
  BY <1>2, <1>3, FS_Subset, FS_CardinalityType
<1>5. /\ IsFiniteSet(InUse) /\ Cardinality(InUse) <= Cardinality(Busy)
      /\ Cardinality(InUse) \in Nat
  <2> DEFINE f == [x \in Busy |-> d_call[x].lock]
  <2>1. f \in Surjection(Busy, InUse)
    BY DEF Surjection
  <2> QED
    BY <1>4, <2>1, FS_Surjection, FS_CardinalityType
<1>6. /\ IsFiniteSet(InTable) /\ Cardinality(InTable) <= Cardinality(Procs)
      /\ Cardinality(InTable) \in Nat
  <2> DEFINE f == [q \in Procs |-> d_table[q]]
  <2>1. f \in Surjection(Procs, InTable)
    BY DEF Surjection
  <2> QED
    BY <1>1, <2>1, FS_Surjection, FS_CardinalityType
<1>7. /\ IsFiniteSet(InUse \cup InTable)
      /\ Cardinality(InUse \cup InTable) < Cardinality(Callers) + Cardinality(Procs)
  <2>1. /\ IsFiniteSet(InUse \cap InTable) /\ Cardinality(InUse \cap InTable) \in Nat
    BY <1>5, FS_Subset, FS_CardinalityType
  <2> HIDE DEF InUse, InTable, Busy
  <2>2. /\ IsFiniteSet(InUse \cup InTable)
        /\ Cardinality(InUse \cup InTable) =
             Cardinality(InUse) + Cardinality(InTable) - Cardinality(InUse \cap InTable)
    BY <1>5, <1>6, FS_Union
  <2> QED
    BY <1>3, <1>4, <1>5, <1>6, <2>1, <2>2
<1>8. /\ Decorated!LockIds = 1..(Cardinality(Callers) + Cardinality(Procs))
      /\ Cardinality(Decorated!LockIds) = Cardinality(Callers) + Cardinality(Procs)
  <2>1. Decorated!LockIds = 1..(Cardinality(Callers) + Cardinality(Procs))
    BY DecoratedCardinality DEF Decorated!LockIds
  <2> QED
    BY <1>3, <2>1, FS_Interval
<1>9. ~ (Decorated!LockIds \subseteq InUse \cup InTable)
  <2> HIDE DEF InUse, InTable
  <2> QED
    BY <1>3, <1>7, <1>8, FS_Subset, FS_CardinalityType
<1>10. Decorated!Referenced = InUse \cup InTable
  BY DEF Decorated!Referenced
<1>11. PICK l \in Decorated!LockIds : l \notin Decorated!Referenced
  BY <1>9, <1>10
<1> QED
  BY <1>11 DEF Decorated!get_lock, CallTypes

\* What no step of a call changes.
Fixed == UNCHANGED <<d_decoration, d_home, d_lapsed, d_evicted>>

\* A call that holds its local lock goes on, and nothing but the call itself changes.
LEMMA WalksOn ==
  ASSUME CallInv, NEW c \in Callers, NEW pc \in Holding, NEW v \in Decorated!Versions,
         Goes(c, pc, v), d_call[c].pc \in Holding,
         d_reserve' \in Decorated!Versions \cup {None}, Fixed,
         UNCHANGED <<d_source, d_value, d_table, d_owner, d_dlock, d_calls, d_losses, d_newest>>,
         d_call[c].pc \in Deep => pc \in Deep, pc \notin {"locked", "dlocked"},
         pc \in {"computing", "computed"} =>
           /\ \/ d_call[c].pc \in {"dlocked", "computing"}
              \/ d_call[c].pc = "locked" /\ Decorated!lock # "distributed"
           /\ v <= d_source
           /\ d_call[c].pc = "computing" => v >= d_call[c].version
           /\ d_call[c].pc # "computing" =>
                v = d_source /\ (d_call[c].kind = "cold" => d_value = None),
         pc = "dwait" => d_call[c].pc = "locked" /\ Decorated!lock = "distributed"
  PROVE  CallInv'
<1>1. pc \in PCs /\ Within(c)
  BY DEF PCs, Within, Holding, Deep
<1>2. /\ d_call'[c].pc = pc /\ d_call'[c].version = v
      /\ d_call'[c].kind = d_call[c].kind /\ d_call'[c].lock = d_call[c].lock
      /\ d_call'[c].distributed = d_call[c].distributed
      /\ \A d \in Callers \ {c} : d_call'[d] = d_call[d]
      /\ d_call' \in [Callers -> {Decorated!Idle} \cup InCall]
  BY <1>1, GoesFields DEF CallInv
<1> USE DEF CallInv, Fixed
<1>3. CallTypes'
  BY <1>2 DEF CallTypes
<1>4. KindsFollow'
  <2>1. Decorated!lock' = Decorated!lock /\ Decorated!early' = Decorated!early
    BY DEF Decorated!lock, Decorated!early
  <2>2. KindFollows(d_call[c])
    BY <1>1 DEF KindsFollow
  <2>3. KindFollows(d_call[c])'
    BY <1>2, <2>1, <2>2 DEF KindFollows, Holding, Deep
  <2> QED
    BY <1>2, <2>1, <2>3 DEF KindsFollow, KindFollows, Within
<1>5. OwnersMatch'
  <2>1. HasKeyLock'
    BY <1>2 DEF OwnersMatch, HasKeyLock
  <2>2. KeyLocksHad'
    BY <1>2 DEF OwnersMatch, KeyLocksHad, CallTypes
  <2>3. HasLease'
    BY <1>1, <1>2 DEF OwnersMatch, HasLease, KindsFollow, KindFollows, Holding
  <2>4. LeaseHad'
    BY <1>2 DEF OwnersMatch, LeaseHad, CallTypes
  <2> QED
    BY <2>1, <2>2, <2>3, <2>4 DEF OwnersMatch
<1>6. OneLockPerProcess'
  BY <1>1, <1>2 DEF OneLockPerProcess, Within
<1>7. Latest'
  <2>0. Exclusive' <=> Exclusive
    BY DEF Exclusive, Decorated!lock, Decorated!early
  <2>1. NotAhead'
    BY <1>2 DEF Latest, NotAhead
  <2>2. MissesSawNone'
    BY <1>2, <2>0 DEF Latest, MissesSawNone
  <2>3. NoneIsOlder'
    <3>1. \A d \in Callers : d_call[d].pc \in {"computing", "computed"} =>
            d_call[d].version \in Decorated!Versions
      BY InCallType DEF Within, InCall
    <3> QED
      BY <1>2, <2>0, <3>1 DEF Latest, NoneIsOlder, NotAhead, CallTypes, Decorated!Versions
  <2> QED
    BY <2>1, <2>2, <2>3 DEF Latest
<1> QED
  BY <1>3, <1>4, <1>5, <1>6, <1>7

\* A new call uses the lock that the guard has, or that it puts there when nobody uses one.
LEMMA UsesTable ==
  ASSUME Decorated!CachedAssumption, CallInv, NEW c \in Callers,
         d_call'[c].lock = Decorated!get_lock(d_home[c]),
         \A d \in Callers \ {c} : d_call'[d] = d_call[d],
         d_table' = [d_table EXCEPT ![d_home[c]] = Decorated!get_lock(d_home[c])], Fixed
  PROVE  OneLockPerProcess'
<1> USE DEF CallInv, Fixed
<1>1. d_home[c] \in Procs
  BY DEF CallTypes, Decorated!CachedAssumption
<1> SUFFICES ASSUME NEW d \in Callers, Within(d)', d_call'[d].lock # None,
                    d_home[d] \notin d_evicted
             PROVE  d_call'[d].lock = d_table'[d_home[d]]
  BY DEF OneLockPerProcess
<1>2. CASE d = c
  BY <1>1, <1>2 DEF CallTypes
<1>3. CASE d # c
  <2>1. d_call'[d] = d_call[d] /\ d_call[d].lock = d_table[d_home[d]]
    BY <1>3 DEF OneLockPerProcess, Within
  <2>2. d_table'[d_home[d]] = d_table[d_home[d]]
    BY <1>1, <2>1 DEF Decorated!get_lock, CallTypes, Decorated!CachedAssumption
  <2> QED
    BY <2>1, <2>2
<1> QED
  BY <1>2, <1>3

\* A new call waits for the lock of its process, or its task for its turn.
LEMMA Arrives ==
  ASSUME Decorated!CachedAssumption, CallInv, NEW c \in Callers, d_call[c].pc = "idle",
         NEW r \in InCall, d_call' = [d_call EXCEPT ![c] = r],
         r.pc \in {"wanting", "spawned"}, KindFollows(r),
         r.lock = Decorated!get_lock(d_home[c]),
         d_table' = [d_table EXCEPT ![d_home[c]] = r.lock],
         d_calls' \in 0..MaxCalls,
         Fixed, UNCHANGED <<d_source, d_value, d_reserve, d_owner, d_dlock, d_losses, d_newest>>
  PROVE  CallInv'
<1> USE DEF CallInv, Fixed
<1>1. d_home[c] \in Procs
  BY DEF CallTypes, Decorated!CachedAssumption
<1>2. r.lock \in Decorated!LockIds /\ r.lock # None
  <2>1. r.lock \in Decorated!LockIds
    BY <1>1, FreshLock
  <2> QED
    BY <2>1, DecoratedLockIds
<1>3. d_call'[c] = r /\ \A d \in Callers \ {c} : d_call'[d] = d_call[d]
  BY DEF CallTypes
<1>4. CallTypes'
  BY <1>1, <1>2 DEF CallTypes
<1>5. KindsFollow'
  <2>1. Decorated!lock' = Decorated!lock /\ Decorated!early' = Decorated!early
    BY DEF Decorated!lock, Decorated!early
  <2> QED
    BY <1>3, <2>1 DEF KindsFollow, KindFollows, Within
<1>6. OwnersMatch'
  <2>1. d_call'[c].pc \notin Holding /\ d_call'[c].pc \notin Deep
    BY <1>3 DEF Holding, Deep
  <2>2. d_call[c].pc \notin Holding /\ d_call[c].pc \notin Deep
    BY DEF Holding, Deep
  <2> QED
    BY <1>3, <2>1, <2>2 DEF OwnersMatch, HasKeyLock, KeyLocksHad, HasLease, LeaseHad, CallTypes
<1>7. OneLockPerProcess'
  BY <1>3, UsesTable
<1>8. Latest'
  <2>1. Exclusive' <=> Exclusive
    BY DEF Exclusive, Decorated!lock, Decorated!early
  <2> QED
    BY <1>3, <2>1 DEF Latest, NotAhead, MissesSawNone, NoneIsOlder
<1> QED
  BY <1>4, <1>5, <1>6, <1>7, <1>8

\* A call takes a local lock that is free; a task that refreshes early computes at once.
LEMMA TakesLock ==
  ASSUME Decorated!CachedAssumption, CallInv, NEW c \in Callers, d_call[c].pc \notin Holding,
         NEW l \in Decorated!LockIds, d_owner[l] = None,
         d_owner' = [d_owner EXCEPT ![l] = c],
         d_call' \in [Callers -> {Decorated!Idle} \cup InCall],
         \A d \in Callers \ {c} : d_call'[d] = d_call[d],
         d_call'[c].lock = l, d_call'[c].pc \in {"locked", "computing"},
         ~ d_call'[c].distributed, KindFollows(d_call[c])',
         d_call'[c].pc = "computing" => d_call'[c].kind = "early" /\ d_call'[c].version = d_source,
         d_table' \in [Procs -> Decorated!LockIds \cup {None}], OneLockPerProcess',
         d_calls' \in 0..MaxCalls,
         Fixed, UNCHANGED <<d_source, d_value, d_reserve, d_dlock, d_losses, d_newest>>
  PROVE  CallInv'
<1> USE DEF CallInv, Fixed
<1>1. Decorated!lock' = Decorated!lock /\ Decorated!early' = Decorated!early
  BY DEF Decorated!lock, Decorated!early
<1>2. CallTypes'
  BY DEF CallTypes
<1>3. KindsFollow'
  BY <1>1 DEF KindsFollow, KindFollows, Within
<1>4. HasKeyLock'
  BY DEF OwnersMatch, HasKeyLock, CallTypes, Decorated!CachedAssumption
<1>5. KeyLocksHad'
  BY DEF OwnersMatch, KeyLocksHad, CallTypes, Holding, Deep
<1>6. HasLease' /\ LeaseHad'
  BY DEF OwnersMatch, HasLease, LeaseHad, CallTypes, Holding
<1>7. Latest'
  <2>1. Exclusive' <=> Exclusive
    BY DEF Exclusive, Decorated!lock, Decorated!early
  <2>2. Exclusive => d_call'[c].pc # "computing"
    BY <1>1 DEF Exclusive, KindFollows
  <2> QED
    BY <2>1, <2>2 DEF Latest, NotAhead, MissesSawNone, NoneIsOlder, CallTypes, Decorated!Versions
<1> QED
  BY <1>2, <1>3, <1>4, <1>5, <1>6, <1>7 DEF OwnersMatch

\* A call ends, or turns to the stale reserve, and gives back the locks that it has.
LEMMA GivesBack ==
  ASSUME Decorated!CachedAssumption, CallInv, NEW c \in Callers, Decorated!Released(c),
         \/ d_call' = [d_call EXCEPT ![c] = Decorated!Idle]
         \/ Within(c) /\ Goes(c, "failed", 0),
         Fixed, UNCHANGED <<d_source, d_value, d_reserve, d_table, d_calls, d_losses, d_newest>>
  PROVE  CallInv'
<1> USE DEF CallInv, Fixed
<1>1. /\ \A d \in Callers \ {c} : d_call'[d] = d_call[d]
      /\ d_call' \in [Callers -> {Decorated!Idle} \cup InCall]
      /\ d_call'[c].pc \in {"idle", "failed"}
      /\ Within(c)' => /\ Within(c) /\ d_call'[c].lock = d_call[c].lock
                       /\ d_call'[c].kind = d_call[c].kind
  <2>1. CASE d_call' = [d_call EXCEPT ![c] = Decorated!Idle]
    BY <2>1 DEF CallTypes, Decorated!Idle, Within
  <2>2. CASE Within(c) /\ Goes(c, "failed", 0)
    <3>1. "failed" \in PCs /\ 0 \in Decorated!Versions
      BY DEF PCs, Decorated!Versions, Decorated!CachedAssumption
    <3> QED
      BY <2>2, <3>1, GoesFields
  <2> QED
    BY <2>1, <2>2
<1>2. Decorated!lock' = Decorated!lock /\ Decorated!early' = Decorated!early
  BY DEF Decorated!lock, Decorated!early
<1>3. CallTypes'
  BY <1>1 DEF CallTypes, Decorated!Released
<1>4. KindsFollow'
  BY <1>1, <1>2 DEF KindsFollow, KindFollows, Within
<1>5. HasKeyLock' /\ HasLease'
  BY <1>1 DEF OwnersMatch, HasKeyLock, HasLease, CallTypes, InCall, Decorated!Released, Holding, Deep,
              Decorated!Idle
<1>6. KeyLocksHad' /\ LeaseHad'
  BY <1>1 DEF OwnersMatch, KeyLocksHad, LeaseHad, CallTypes, Decorated!Released
<1>7. OneLockPerProcess'
  BY <1>1 DEF OneLockPerProcess, Within
<1>8. Latest'
  <2>1. Exclusive' <=> Exclusive
    BY DEF Exclusive, Decorated!lock, Decorated!early
  <2> QED
    BY <1>1, <2>1 DEF Latest, NotAhead, MissesSawNone, NoneIsOlder
<1> QED
  BY <1>3, <1>4, <1>5, <1>6, <1>7, <1>8 DEF OwnersMatch

\* The distributed lock was free, so nobody else is past it.
LEMMA AcquiresLease ==
  ASSUME Decorated!CachedAssumption, CallInv, NEW c \in Callers,
         Decorated!acquire_distributed(c)
  PROVE  CallInv'
<1> USE DEF CallInv, Decorated!config, Decorated!store, Decorated!history
<1>1. d_call[c] \in InCall /\ d_call[c].pc = "dwait" /\ Within(c)
  BY InCallType DEF Decorated!acquire_distributed, Within
<1>2. d_call' = [d_call EXCEPT ![c] = [@ EXCEPT !.pc = "dlocked", !.distributed = TRUE]]
  BY <1>1 DEF Decorated!acquire_distributed, CallTypes, InCall
<1>3. d_call'[c] = [d_call[c] EXCEPT !.pc = "dlocked", !.distributed = TRUE]
  BY <1>2 DEF CallTypes
<1>4. /\ d_call'[c].pc = "dlocked" /\ d_call'[c].distributed
      /\ d_call'[c].lock = d_call[c].lock /\ d_call'[c].kind = d_call[c].kind
      /\ d_call'[c] \in InCall
  BY <1>1, <1>3 DEF InCall, Holding, Deep
<1>5. \A d \in Callers \ {c} : d_call'[d] = d_call[d]
  BY <1>2 DEF CallTypes
<1>6. Decorated!lock' = Decorated!lock /\ Decorated!early' = Decorated!early
  BY DEF Decorated!acquire_distributed, Decorated!lock, Decorated!early
<1>7. CallTypes'
  BY <1>2, <1>4, <1>5 DEF CallTypes, Decorated!acquire_distributed
<1>8. KindsFollow'
  BY <1>1, <1>4, <1>5, <1>6 DEF KindsFollow, KindFollows, Within
<1>9. HasKeyLock' /\ KeyLocksHad'
  BY <1>1, <1>4, <1>5 DEF OwnersMatch, HasKeyLock, KeyLocksHad, CallTypes, Holding, Deep,
                          Decorated!acquire_distributed
<1>10. HasLease' /\ LeaseHad'
  BY <1>1, <1>4, <1>5 DEF OwnersMatch, HasLease, LeaseHad, CallTypes, Deep,
                          Decorated!acquire_distributed, Decorated!CachedAssumption
<1>11. OneLockPerProcess'
  BY <1>1, <1>4, <1>5 DEF OneLockPerProcess, Within, Decorated!acquire_distributed
<1>12. Latest'
  <2>1. Exclusive' <=> Exclusive
    BY <1>6 DEF Exclusive, Decorated!acquire_distributed
  <2> QED
    BY <1>4, <1>5, <2>1 DEF Latest, NotAhead, MissesSawNone, NoneIsOlder,
                            Decorated!acquire_distributed
<1> QED
  BY <1>7, <1>8, <1>9, <1>10, <1>11, <1>12 DEF OwnersMatch

\* While leases last and nothing is refreshed early, one call at a time computes.
LEMMA OneComputes ==
  ASSUME CallInv, Decorated!lock = "distributed", ~ d_lapsed,
         NEW c \in Callers, NEW d \in Callers,
         d_call[c].pc \in {"computing", "computed"}, d_call[c].kind # "early",
         d_call[d].pc \in {"computing", "computed"}, d_call[d].kind # "early"
  PROVE  c = d
<1>1. d_call[c].distributed /\ d_call[d].distributed
  BY DEF CallInv, KindsFollow, KindFollows, Within
<1> QED
  BY <1>1 DEF CallInv, OwnersMatch, HasLease, Deep

\* The value that a call writes was read under its locks.
LEMMA SetsValue ==
  ASSUME Decorated!CachedAssumption, CallInv, NEW c \in Callers, Decorated!set_value(c)
  PROVE  CallInv'
<1> USE DEF CallInv, Decorated!config, Decorated!locks
<1>1. d_call[c] \in InCall /\ d_call[c].pc = "computed" /\ Within(c)
  BY InCallType DEF Decorated!set_value, Within
<1>2. PICK pc \in {"storing", "leaving"}, v \in Decorated!Versions : Goes(c, pc, v)
  <2>1. CASE Decorated!stale
    <3>1. d_call' = [d_call EXCEPT ![c].pc = "storing"]
      BY <2>1 DEF Decorated!set_value
    <3>2. Goes(c, "storing", d_call[c].version)
      BY <1>1, <3>1 DEF Goes, CallTypes, InCall
    <3> QED
      BY <1>1, <3>2 DEF InCall
  <2>2. CASE ~ Decorated!stale
    BY <2>2 DEF Decorated!set_value, Decorated!Step, Goes, Decorated!Versions,
                Decorated!CachedAssumption
  <2> QED
    BY <2>1, <2>2
<1>3. /\ d_call'[c].pc = pc
      /\ d_call'[c].kind = d_call[c].kind /\ d_call'[c].lock = d_call[c].lock
      /\ d_call'[c].distributed = d_call[c].distributed
      /\ \A d \in Callers \ {c} : d_call'[d] = d_call[d]
      /\ d_call' \in [Callers -> {Decorated!Idle} \cup InCall]
  BY <1>1, <1>2, GoesFields DEF PCs, Holding, Deep
<1>4. Decorated!lock' = Decorated!lock /\ Decorated!early' = Decorated!early
  BY DEF Decorated!set_value, Decorated!lock, Decorated!early
<1>5. /\ d_value' = d_call[c].version /\ d_value' \in Decorated!Versions
      /\ d_newest' \in Decorated!Versions /\ d_newest' = IF d_value' > d_newest THEN d_value' ELSE d_newest
  BY <1>1 DEF Decorated!set_value, InCall, CallTypes
<1>6. CallTypes'
  BY <1>3, <1>5 DEF CallTypes, Decorated!set_value
<1>7. KindsFollow'
  BY <1>1, <1>3, <1>4 DEF KindsFollow, KindFollows, Within
<1>8. HasKeyLock' /\ KeyLocksHad'
  BY <1>1, <1>3 DEF OwnersMatch, HasKeyLock, KeyLocksHad, CallTypes, Holding, Deep,
                    Decorated!set_value
<1>9. HasLease' /\ LeaseHad'
  BY <1>1, <1>3 DEF OwnersMatch, HasLease, LeaseHad, CallTypes, Deep, Decorated!set_value
<1>10. OneLockPerProcess'
  BY <1>1, <1>3 DEF OneLockPerProcess, Within, Decorated!set_value
<1>11. Latest'
  <2>1. Exclusive' <=> Exclusive
    BY <1>4 DEF Exclusive, Decorated!set_value
  <2>2. NotAhead'
    BY <1>1, <1>3, <1>5 DEF Latest, NotAhead, Decorated!set_value, CallTypes,
                            Decorated!Versions
  <2>3. ASSUME Exclusive PROVE \A d \in Callers : d_call'[d].pc \notin {"computing", "computed"}
    <3> SUFFICES ASSUME NEW d \in Callers \ {c}, d_call[d].pc \in {"computing", "computed"}
                 PROVE  FALSE
      BY <1>3
    <3>1. d_call[c].kind # "early" /\ d_call[d].kind # "early"
      BY <1>1, <2>3 DEF Exclusive, KindsFollow, KindFollows, Within
    <3> QED
      BY <1>1, <2>3, <3>1, OneComputes DEF Exclusive
  <2>4. Exclusive => d_value' >= d_newest'
    BY <1>1, <1>5 DEF Latest, NoneIsOlder, CallTypes, Decorated!Versions
  <2> QED
    BY <2>1, <2>2, <2>3, <2>4 DEF Latest, MissesSawNone, NoneIsOlder
<1> QED
  BY <1>6, <1>7, <1>8, <1>9, <1>10, <1>11 DEF OwnersMatch

\* What happens to the key, to the guard and to the lease while calls are under way.
LEMMA AroundCalls ==
  ASSUME Decorated!CachedAssumption, CallInv,
         \/ \E p \in Procs : Decorated!_evict_idle_locks(p)
         \/ Decorated!delete \/ Decorated!expire \/ Decorated!source_changes
         \/ Decorated!lease_lapses
  PROVE  CallInv'
<1> USE DEF CallInv, Decorated!config, Decorated!store, Decorated!locks, Decorated!history
<1>1. ASSUME NEW p \in Procs, Decorated!_evict_idle_locks(p) PROVE CallInv'
  <2>1. CallTypes' /\ KindsFollow' /\ OwnersMatch' /\ Latest'
    BY <1>1 DEF Decorated!_evict_idle_locks, CallTypes, KindsFollow, KindFollows, Within,
                OwnersMatch, HasKeyLock, KeyLocksHad, HasLease, LeaseHad, Latest, NotAhead,
                MissesSawNone, NoneIsOlder, Exclusive, Decorated!lock, Decorated!early
  <2>2. OneLockPerProcess'
    <3> SUFFICES ASSUME NEW c \in Callers, Within(c), d_call[c].lock # None,
                        d_home[c] \notin d_evicted'
                 PROVE  d_call[c].lock = d_table'[d_home[c]]
      BY <1>1 DEF OneLockPerProcess, Within, Decorated!_evict_idle_locks
    <3>1. d_call[c].lock = d_table[d_home[c]]
      BY <1>1 DEF OneLockPerProcess, Decorated!_evict_idle_locks
    <3>2. "lock" \in DOMAIN d_call[c]
      BY InCallType DEF InCall
    <3>3. d_home[c] # p
      BY <1>1, <3>1, <3>2 DEF Decorated!_evict_idle_locks
    <3> QED
      BY <1>1, <3>1, <3>3 DEF Decorated!_evict_idle_locks, CallTypes,
                              Decorated!CachedAssumption
  <2> QED
    BY <2>1, <2>2
<1>2. CASE Decorated!delete \/ Decorated!expire
  <2>1. /\ d_value' \in {d_value, None} /\ d_reserve' \in {d_reserve, None}
        /\ d_losses' \in 0..MaxLosses
        /\ Fixed /\ UNCHANGED <<d_source, d_table, d_owner, d_dlock, d_call, d_calls, d_newest>>
    BY <1>2 DEF Decorated!delete, Decorated!expire, Fixed, CallTypes,
                Decorated!CachedAssumption
  <2> QED
    BY <2>1 DEF Fixed, CallTypes, KindsFollow, KindFollows, Within, OwnersMatch, HasKeyLock,
                KeyLocksHad, HasLease, LeaseHad, Latest, NotAhead, MissesSawNone,
                NoneIsOlder, Exclusive, OneLockPerProcess, Decorated!lock, Decorated!early
<1>3. CASE Decorated!source_changes
  <2>1. CallTypes' /\ KindsFollow' /\ OwnersMatch' /\ OneLockPerProcess'
    BY <1>3 DEF Decorated!source_changes, CallTypes, KindsFollow, KindFollows, Within,
                OwnersMatch, HasKeyLock, KeyLocksHad, HasLease, LeaseHad, OneLockPerProcess,
                Decorated!lock, Decorated!early, Decorated!Versions,
                Decorated!CachedAssumption
  <2>2. \A c \in Callers : d_call[c].pc \in {"computing", "computed"} =>
          d_call[c].version \in Decorated!Versions
    BY InCallType DEF Within, InCall
  <2>3. Latest'
    BY <1>3, <2>2 DEF Decorated!source_changes, Latest, NotAhead, MissesSawNone,
                      NoneIsOlder, Exclusive, CallTypes, Decorated!lock, Decorated!early,
                      Decorated!Versions, Decorated!CachedAssumption
  <2> QED
    BY <2>1, <2>3
<1>4. CASE Decorated!lease_lapses
  BY <1>4 DEF Decorated!lease_lapses, CallTypes, KindsFollow, KindFollows, Within,
              OwnersMatch, HasKeyLock, KeyLocksHad, HasLease, LeaseHad, OneLockPerProcess,
              Latest, NotAhead, MissesSawNone, NoneIsOlder, Exclusive, Decorated!lock,
              Decorated!early
<1> QED
  BY <1>1, <1>2, <1>3, <1>4

\* A call begins: at once with lock=False, at the lock of its process otherwise.
LEMMA CallBegins ==
  ASSUME Decorated!CachedAssumption, CallInv, NEW c \in Callers,
         NEW kind \in {"cold", "forced"}, Decorated!Called(c, kind)
  PROVE  CallInv'
<1> USE DEF CallInv, Decorated!config, Decorated!store, Decorated!history, Fixed
<1>1. d_calls' \in 0..MaxCalls /\ 0 \in Decorated!Versions
  BY DEF Decorated!Called, CallTypes, Decorated!CachedAssumption, Decorated!Versions
<1>2. CASE Decorated!lock = "none"
  <2> DEFINE r == [pc |-> "computing", kind |-> kind, lock |-> None, distributed |-> FALSE,
                   version |-> d_source]
  <2>1. r \in InCall
    BY DEF InCall, Holding, Deep, CallTypes
  <2>2. d_call' = [d_call EXCEPT ![c] = r] /\ UNCHANGED d_table
    BY <1>2 DEF Decorated!Called, Decorated!At
  <2>3. /\ d_call'[c] = r /\ d_call[c].pc = "idle"
        /\ \A d \in Callers \ {c} : d_call'[d] = d_call[d]
    BY <2>2 DEF CallTypes, Decorated!Called
  <2>4. CallTypes'
    BY <1>1, <2>1, <2>2 DEF CallTypes, Decorated!Called
  <2>5. KindsFollow'
    BY <1>2, <2>3 DEF KindsFollow, KindFollows, Within, Decorated!lock, Decorated!early,
                      Decorated!Called
  <2>6. OwnersMatch'
    BY <2>3 DEF OwnersMatch, HasKeyLock, KeyLocksHad, HasLease, LeaseHad, CallTypes, Holding,
                Deep, Decorated!Called
  <2>7. OneLockPerProcess'
    BY <2>2, <2>3 DEF OneLockPerProcess, Within, Decorated!Called
  <2>8. Latest'
    <3>1. ~ Exclusive'
      BY <1>2 DEF Exclusive, Decorated!lock, Decorated!Called
    <3> QED
      BY <2>3, <3>1 DEF Latest, NotAhead, MissesSawNone, NoneIsOlder, CallTypes,
                        Decorated!Versions, Decorated!Called
  <2> QED
    BY <2>4, <2>5, <2>6, <2>7, <2>8
<1>3. CASE Decorated!lock # "none"
  <2> DEFINE l == Decorated!get_lock(d_home[c])
             r == [pc |-> "wanting", kind |-> kind, lock |-> l, distributed |-> FALSE,
                   version |-> 0]
  <2>1. l \in Decorated!LockIds /\ l # None
    BY FreshLock, DecoratedLockIds DEF Decorated!Called, CallTypes, Decorated!CachedAssumption
  <2>2. r \in InCall
    BY <1>1, <2>1 DEF InCall
  <2>3. KindFollows(r)
    BY <2>1 DEF KindFollows
  <2>4. /\ d_call' = [d_call EXCEPT ![c] = r] /\ d_table' = [d_table EXCEPT ![d_home[c]] = l]
        /\ d_call[c].pc = "idle" /\ r.pc = "wanting" /\ r.lock = l
    BY <1>3 DEF Decorated!Called, Decorated!At
  <2> HIDE DEF r
  <2> QED
    BY <1>1, <2>2, <2>3, <2>4, Arrives DEF Decorated!Called
<1> QED
  BY <1>2, <1>3

\* A hit inside the early window, and its task.
LEMMA RefreshesEarly ==
  ASSUME Decorated!CachedAssumption, CallInv, NEW c \in Callers,
         Decorated!early_hit(c) \/ Decorated!spawned(c)
  PROVE  CallInv'
<1> USE DEF CallInv, Decorated!config, Decorated!store, Decorated!history, Fixed
<1>0. 0 \in Decorated!Versions
  BY DEF Decorated!CachedAssumption, Decorated!Versions
<1>1. CASE Decorated!early_hit(c)
  <2> DEFINE l == Decorated!get_lock(d_home[c])
  <2>1. l \in Decorated!LockIds /\ l # None /\ d_home[c] \in Procs
    BY <1>1, FreshLock, DecoratedLockIds
       DEF Decorated!early_hit, CallTypes, Decorated!CachedAssumption
  <2>2. /\ d_calls' \in 0..MaxCalls /\ Decorated!early /\ d_call[c].pc = "idle"
        /\ d_owner[l] = None /\ d_table' = [d_table EXCEPT ![d_home[c]] = l]
    BY <1>1 DEF Decorated!early_hit, Decorated!_due_for_early_refresh, CallTypes,
                Decorated!CachedAssumption
  <2>3. CASE Decorated!_maybe_refresh_async(c, l)
    <3> DEFINE r == [pc |-> "spawned", kind |-> "early", lock |-> l, distributed |-> FALSE,
                     version |-> 0]
    <3>1. r \in InCall
      BY <1>0, <2>1 DEF InCall
    <3>2. KindFollows(r)
      BY <2>1, <2>2 DEF KindFollows
    <3>3. d_call' = [d_call EXCEPT ![c] = r] /\ r.pc = "spawned" /\ r.lock = l
      BY <2>3 DEF Decorated!_maybe_refresh_async, Decorated!At
    <3> HIDE DEF r
    <3> QED
      BY <1>1, <2>2, <2>3, <3>1, <3>2, <3>3, Arrives
         DEF Decorated!early_hit, Decorated!_maybe_refresh_async
  <2>4. CASE Decorated!_maybe_refresh_sync(c, l)
    <3> DEFINE r == [pc |-> "computing", kind |-> "early", lock |-> l, distributed |-> FALSE,
                     version |-> d_source]
    <3>1. r \in InCall
      BY <2>1 DEF InCall, Holding, Deep, CallTypes
    <3>2. d_call' = [d_call EXCEPT ![c] = r]
      BY <2>4 DEF Decorated!_maybe_refresh_sync, Decorated!At
    <3>3. /\ d_call'[c] = r /\ d_call' \in [Callers -> {Decorated!Idle} \cup InCall]
          /\ \A d \in Callers \ {c} : d_call'[d] = d_call[d]
      BY <3>1, <3>2 DEF CallTypes
    <3>4. KindFollows(d_call[c])'
      BY <1>1, <2>1, <2>2, <3>3
         DEF KindFollows, Decorated!early_hit, Decorated!lock, Decorated!early
    <3>8. /\ d_call'[c].lock = l /\ d_call'[c].pc = "computing" /\ d_call'[c].kind = "early"
          /\ d_call'[c].version = d_source /\ ~ d_call'[c].distributed
          /\ d_owner' = [d_owner EXCEPT ![l] = c]
          /\ UNCHANGED <<d_source, d_value, d_reserve, d_dlock, d_losses, d_newest>> /\ Fixed
      BY <1>1, <2>4, <3>3 DEF Decorated!early_hit, Decorated!_maybe_refresh_sync
    <3>5. OneLockPerProcess'
      BY <2>2, <3>3, <3>8, UsesTable
    <3>6. d_call[c].pc \notin Holding
      BY <2>2 DEF Holding, Deep
    <3>7. d_table' \in [Procs -> Decorated!LockIds \cup {None}]
      BY <2>1, <2>2 DEF CallTypes
    <3> QED
      BY <2>1, <2>2, <3>3, <3>4, <3>5, <3>6, <3>7, <3>8, TakesLock
  <2> QED
    BY <1>1, <2>3, <2>4 DEF Decorated!early_hit
<1>2. CASE Decorated!spawned(c)
  <2>1. d_call[c] \in InCall /\ d_call[c].pc = "spawned" /\ d_call[c].pc \notin Holding
    BY <1>2, InCallType DEF Decorated!spawned, Within, Holding, Deep
  <2>2. CASE d_call' = [d_call EXCEPT ![c] = Decorated!Idle] /\ UNCHANGED d_owner
    <3>1. Decorated!Released(c)
      BY <1>2, <2>1, <2>2 DEF Decorated!Released, Decorated!spawned, CallTypes, OwnersMatch,
                              KeyLocksHad, LeaseHad, Holding
    <3> QED
      BY <1>2, <2>2, <3>1, GivesBack DEF Decorated!spawned
  <2>3. CASE /\ d_owner[d_call[c].lock] = None
             /\ d_owner' = [d_owner EXCEPT ![d_call[c].lock] = c]
             /\ d_call' = [d_call EXCEPT ![c] = Decorated!At("computing", "early", d_call[c].lock)]
    <3> DEFINE l == d_call[c].lock
               r == [pc |-> "computing", kind |-> "early", lock |-> l, distributed |-> FALSE,
                     version |-> d_source]
    <3>1. l \in Decorated!LockIds /\ Decorated!early
      <4>1. KindFollows(d_call[c])
        BY <2>1 DEF KindsFollow, Within
      <4> QED
        BY <2>1, <4>1 DEF KindFollows, InCall
    <3>2. r \in InCall
      BY <3>1 DEF InCall, Holding, Deep, CallTypes
    <3>3. d_call' = [d_call EXCEPT ![c] = r]
      BY <2>3 DEF Decorated!At
    <3>4. /\ d_call'[c] = r /\ d_call' \in [Callers -> {Decorated!Idle} \cup InCall]
          /\ \A d \in Callers \ {c} : d_call'[d] = d_call[d]
      BY <3>2, <3>3 DEF CallTypes
    <3>5. KindFollows(d_call[c])'
      BY <1>2, <3>1, <3>4, DecoratedLockIds
         DEF KindFollows, Decorated!spawned, Decorated!lock, Decorated!early
    <3>6. OneLockPerProcess'
      BY <1>2, <2>1, <3>4 DEF OneLockPerProcess, Within, Decorated!spawned
    <3>7. /\ d_call'[c].lock = l /\ d_call'[c].pc = "computing" /\ d_call'[c].kind = "early"
          /\ d_call'[c].version = d_source /\ ~ d_call'[c].distributed
      BY <3>4
    <3>8. /\ d_table' \in [Procs -> Decorated!LockIds \cup {None}] /\ d_calls' \in 0..MaxCalls
          /\ UNCHANGED <<d_source, d_value, d_reserve, d_dlock, d_losses, d_newest>> /\ Fixed
      BY <1>2 DEF Decorated!spawned, CallTypes
    <3> HIDE DEF l, r
    <3> QED
      BY <2>1, <2>3, <3>1, <3>4, <3>5, <3>6, <3>7, <3>8, TakesLock DEF l
  <2> QED
    BY <1>2, <2>2, <2>3 DEF Decorated!spawned
<1> QED
  BY <1>1, <1>2

\* acquire of the local lock, by the next one in line.
LEMMA AcquiresLocal ==
  ASSUME Decorated!CachedAssumption, CallInv, NEW c \in Callers, Decorated!acquire_local(c)
  PROVE  CallInv'
<1> USE DEF CallInv, Decorated!config, Decorated!store, Decorated!history, Fixed
<1>1. /\ d_call[c] \in InCall /\ d_call[c].pc = "wanting" /\ Within(c)
      /\ d_call[c].pc \notin Holding /\ KindFollows(d_call[c])
  BY InCallType DEF Decorated!acquire_local, Within, Holding, Deep, KindsFollow
<1>2. d_call[c].lock \in Decorated!LockIds /\ ~ d_call[c].distributed
  BY <1>1 DEF KindFollows, InCall
<1>3. Goes(c, "locked", 0) /\ "locked" \in PCs /\ 0 \in Decorated!Versions
  BY DEF Decorated!acquire_local, Decorated!Step, Goes, PCs, Holding, Decorated!Versions,
         Decorated!CachedAssumption
<1>4. /\ d_call'[c].pc = "locked" /\ d_call'[c].kind = d_call[c].kind
      /\ d_call'[c].lock = d_call[c].lock /\ d_call'[c].distributed = d_call[c].distributed
      /\ \A d \in Callers \ {c} : d_call'[d] = d_call[d]
      /\ d_call' \in [Callers -> {Decorated!Idle} \cup InCall]
  BY <1>1, <1>3, GoesFields
<1>5. KindFollows(d_call[c])'
  BY <1>1, <1>2, <1>4 DEF KindFollows, Decorated!acquire_local, Decorated!lock, Decorated!early
<1>6. OneLockPerProcess'
  BY <1>1, <1>4 DEF OneLockPerProcess, Within, Decorated!acquire_local
<1>7. ~ d_call'[c].distributed
  BY <1>2, <1>4
<1>8. /\ d_owner[d_call[c].lock] = None /\ d_owner' = [d_owner EXCEPT ![d_call[c].lock] = c]
      /\ d_table' \in [Procs -> Decorated!LockIds \cup {None}] /\ d_calls' \in 0..MaxCalls
      /\ UNCHANGED <<d_source, d_value, d_reserve, d_dlock, d_losses, d_newest>> /\ Fixed
  BY DEF Decorated!acquire_local, CallTypes
<1> QED
  BY <1>1, <1>2, <1>4, <1>5, <1>6, <1>7, <1>8, TakesLock

\* Under the locks: the looks, the computation, its failure and the reserve.
LEMMA WorksUnderLocks ==
  ASSUME Decorated!CachedAssumption, CallInv, NEW c \in Callers,
         \/ Decorated!Inside(c) \/ Decorated!_distributed_orchestrate(c)
         \/ Decorated!Computes(c) \/ Decorated!skipped(c)
         \/ Decorated!computation_raises(c) \/ Decorated!set_reserve(c)
  PROVE  CallInv'
<1> USE DEF CallInv, Decorated!config, Decorated!store, Decorated!locks, Decorated!history
<1>1. /\ d_source \in Decorated!Versions /\ 0 \in Decorated!Versions
      /\ d_source <= d_source
  BY DEF CallTypes, Decorated!Versions, Decorated!CachedAssumption
<1>2. d_call[c] \in InCall /\ KindFollows(d_call[c]) /\ d_call[c].pc \in Holding
  BY InCallType DEF Decorated!Inside, Decorated!_distributed_orchestrate,
     Decorated!Computes, Decorated!skipped, Decorated!computation_raises,
     Decorated!set_reserve, Within, KindsFollow, Holding, Deep
<1>3. CASE Decorated!set_reserve(c)
  <2>1. /\ Goes(c, "leaving", 0) /\ d_call[c].pc = "storing"
        /\ d_reserve' = d_call[c].version /\ Fixed
        /\ UNCHANGED <<d_source, d_value, d_table, d_owner, d_dlock, d_calls, d_losses,
                       d_newest>>
    BY <1>3 DEF Decorated!set_reserve, Decorated!Step, Goes, Fixed
  <2>2. d_reserve' \in Decorated!Versions \cup {None}
    BY <1>2, <2>1 DEF InCall
  <2> QED
    BY <1>1, <1>2, <2>1, <2>2, WalksOn DEF Holding, Deep
<1>4. CASE ~ Decorated!set_reserve(c)
  <2>1. /\ Fixed /\ d_reserve' \in Decorated!Versions \cup {None}
        /\ UNCHANGED <<d_source, d_value, d_table, d_owner, d_dlock, d_calls, d_losses, d_newest>>
    BY <1>4 DEF Fixed, CallTypes, Decorated!Inside, Decorated!_distributed_orchestrate,
       Decorated!Computes, Decorated!skipped, Decorated!computation_raises
  <2>2. ASSUME NEW pc \in {"leaving", "failing"}, Goes(c, pc, 0) PROVE CallInv'
    <3>1. pc \in Holding /\ pc \in Deep
      BY DEF Holding, Deep
    <3> QED
      BY <1>1, <1>2, <2>1, <2>2, <3>1, WalksOn
  <2>3. ASSUME Goes(c, "computing", d_source), d_call[c].kind = "cold" => d_value = None,
               \/ d_call[c].pc = "dlocked"
               \/ d_call[c].pc = "locked" /\ Decorated!lock # "distributed"
        PROVE  CallInv'
    <3>1. "computing" \in Holding /\ "computing" \in Deep
      BY DEF Holding, Deep
    <3> QED
      BY <1>1, <1>2, <2>1, <2>3, <3>1, WalksOn
  <2>4. CASE Decorated!Inside(c)
    <3>1. d_call[c].pc = "locked"
      BY <2>4 DEF Decorated!Inside
    <3>2. CASE Goes(c, "dwait", 0) /\ Decorated!_has_lock_backend
      <4>1. "dwait" \in Holding /\ "locked" \notin Deep
        BY DEF Holding, Deep
      <4> QED
        BY <1>1, <1>2, <2>1, <3>1, <3>2, <4>1, WalksOn DEF Decorated!_has_lock_backend
    <3> QED
      BY <2>2, <2>3, <2>4, <3>1, <3>2
         DEF Decorated!Inside, Decorated!Peek, Decorated!Start, Decorated!Step, Goes,
             Decorated!_has_lock_backend
  <2>5. CASE Decorated!_distributed_orchestrate(c)
    BY <2>2, <2>3, <2>5
       DEF Decorated!_distributed_orchestrate, Decorated!Peek, Decorated!Start,
           Decorated!Step, Goes
  <2>6. CASE Decorated!Computes(c)
    <3>1. PICK v \in d_call[c].version..d_source : Goes(c, "computed", v)
      BY <2>6 DEF Decorated!Computes, Goes
    <3>2. /\ v \in Decorated!Versions /\ v <= d_source /\ v >= d_call[c].version
          /\ d_call[c].pc = "computing" /\ "computed" \in Holding /\ "computed" \in Deep
      BY <1>1, <1>2, <2>6, <3>1 DEF InCall, Decorated!Versions, Decorated!Computes, Holding,
                                    Deep, Decorated!CachedAssumption
    <3> QED
      BY <1>1, <1>2, <2>1, <3>1, <3>2, WalksOn
  <2>7. CASE Decorated!skipped(c) \/ Decorated!computation_raises(c)
    BY <2>2, <2>7 DEF Decorated!skipped, Decorated!computation_raises, Decorated!Step, Goes
  <2> QED
    BY <1>4, <2>4, <2>5, <2>6, <2>7
<1> QED
  BY <1>3, <1>4

\* A call ends: it leaves its locks, serves the reserve or is cancelled.
LEMMA CallEnds ==
  ASSUME Decorated!CachedAssumption, CallInv, NEW c \in Callers,
         Decorated!leave(c) \/ Decorated!Stale(c) \/ Decorated!cancel(c)
  PROVE  CallInv'
<1> USE DEF CallInv, Decorated!config, Decorated!store, Decorated!locks, Decorated!history, Fixed
<1>1. CASE Decorated!leave(c)
  BY <1>1, GivesBack DEF Decorated!leave, Decorated!Step, Goes, Within
<1>2. CASE Decorated!cancel(c)
  BY <1>2, GivesBack DEF Decorated!cancel
<1>3. CASE Decorated!Stale(c)
  <2>1. Decorated!Released(c)
    BY <1>3 DEF Decorated!Released, Decorated!Stale, CallTypes, OwnersMatch, KeyLocksHad,
                LeaseHad, Holding, Deep
  <2> QED
    BY <1>3, <2>1, GivesBack DEF Decorated!Stale
<1> QED
  BY <1>1, <1>2, <1>3

\* Every step of the guard and of its callers preserves the invariant.
LEMMA CallNext ==
  ASSUME Decorated!CachedAssumption, CallInv, [Decorated!Next]_(Decorated!vars)
  PROVE  CallInv'
<1>1. CASE UNCHANGED Decorated!vars
  BY <1>1 DEF Decorated!vars, CallInv, CallTypes, KindsFollow, KindFollows, Within,
              OwnersMatch, HasKeyLock, KeyLocksHad, HasLease, LeaseHad, OneLockPerProcess,
              Latest, NotAhead, MissesSawNone, NoneIsOlder, Exclusive, Decorated!lock,
              Decorated!early
<1>2. ASSUME NEW c \in Callers,
             Decorated!miss(c) \/ Decorated!refresh(c) \/ Decorated!early_hit(c)
               \/ Decorated!Proceed(c) \/ Decorated!cancel(c)
      PROVE  CallInv'
  <2>1. CASE Decorated!miss(c) \/ Decorated!refresh(c)
    BY <2>1, CallBegins
       DEF Decorated!miss, Decorated!async_wrapper, Decorated!sync_wrapper,
           Decorated!stream_wrapper, Decorated!get_or_set, Decorated!refresh,
           Decorated!async_refresh, Decorated!sync_refresh
  <2>2. CASE Decorated!early_hit(c)
    BY <2>2, RefreshesEarly
  <2>3. CASE Decorated!cancel(c)
    BY <2>3, CallEnds
  <2>4. CASE Decorated!Proceed(c)
    BY <2>4, RefreshesEarly, AcquiresLocal, AcquiresLease, WorksUnderLocks, SetsValue,
       CallEnds
       DEF Decorated!Proceed, Decorated!compute_with_stampede,
           Decorated!stream_with_stampede, Decorated!sync_miss,
           Decorated!_compute_and_cache, Decorated!_compute_and_cache_sync,
           Decorated!_stream_and_store, Decorated!_serve_stale_async,
           Decorated!_serve_stale_sync, Decorated!_stream_stale_on_error
  <2> QED
    BY <1>2, <2>1, <2>2, <2>3, <2>4
<1> QED
  BY <1>1, <1>2, AroundCalls DEF Decorated!Next

\* No two calls compute at once where the locks say so.
LEMMA CallInvFolds ==
  ASSUME Decorated!CachedAssumption, CallInv
  PROVE  Decorated!MissesFold
<1> USE DEF CallInv
<1>1. ASSUME Decorated!lock = "distributed", ~ d_lapsed
      PROVE  /\ Decorated!Cardinality(Decorated!Computing({"cold", "forced"})) <= 1
             /\ ~ Decorated!early /\ Decorated!Computing({"cold"}) # {} => d_value = None
  <2>1. \A c, d \in Decorated!Computing({"cold", "forced"}) : c = d
    BY <1>1, OneComputes DEF Decorated!Computing
  <2>2. ~ Decorated!early /\ Decorated!Computing({"cold"}) # {} => d_value = None
    BY <1>1 DEF Latest, MissesSawNone, Exclusive, Decorated!Computing
  <2> QED
    BY <2>1, <2>2, AtMostOne, DecoratedCardinality
<1>2. ASSUME Decorated!lock = "local", NEW p \in Procs \ d_evicted
      PROVE  Decorated!Cardinality({c \in Decorated!Computing({"cold", "forced", "early"}) :
                                      d_home[c] = p}) <= 1
  <2> DEFINE Here == {c \in Decorated!Computing({"cold", "forced", "early"}) : d_home[c] = p}
  <2>1. ASSUME NEW c \in Here
        PROVE  d_call[c].lock = d_table[p] /\ d_owner[d_table[p]] = c
    <3>1. c \in Callers /\ d_call[c].pc \in Holding /\ Within(c) /\ d_home[c] = p
      BY DEF Decorated!Computing, Holding, Deep, Within
    <3>2. d_call[c].lock # None
      BY <1>2, <3>1 DEF KindsFollow, KindFollows
    <3>3. d_call[c].lock = d_table[p]
      BY <3>1, <3>2 DEF OneLockPerProcess
    <3> QED
      BY <3>1, <3>2, <3>3 DEF OwnersMatch, HasKeyLock
  <2>2. \A c, d \in Here : c = d
    BY <2>1
  <2> QED
    BY <2>2, AtMostOne, DecoratedCardinality
<1> QED
  BY <1>1, <1>2 DEF Decorated!MissesFold

\* Somebody can always go on: the holder of a lock that is waited for.
LEMMA CallInvNobodyStuck ==
  ASSUME Decorated!CachedAssumption, CallInv
  PROVE  Decorated!NobodyStuck
<1> USE DEF CallInv
<1> SUFFICES ASSUME NEW c \in Callers, d_call[c].pc # "idle",
                    \A d \in Callers :
                      /\ d_call[d].pc \in {"idle", "wanting", "dwait"}
                      /\ d_call[d].pc = "wanting" => d_owner[d_call[d].lock] # None
                      /\ d_call[d].pc = "dwait" => d_dlock # None
             PROVE  FALSE
  BY DEF Decorated!NobodyStuck
<1>1. d_dlock = None
  BY DEF OwnersMatch, LeaseHad, CallTypes, Deep
<1>2. \A d \in Callers : d_call[d].pc # "dwait"
  BY <1>1
<1>3. d_call[c].pc = "wanting"
  BY <1>2
<1>4. d_call[c].lock \in Decorated!LockIds
  BY <1>3, InCallType DEF KindsFollow, KindFollows, Within, InCall
<1> QED
  BY <1>2, <1>3, <1>4 DEF OwnersMatch, KeyLocksHad, CallTypes, Holding, Deep

\* cache/cached.py and cache/_stampede.py: concurrent misses fold into one computation,
\* under lock=True no value is replaced by an older one, and however locks are passed on,
\* lost, evicted or cancelled, somebody can always go on.
THEOREM MissesFoldIntoOne ==
  ASSUME Decorated!CachedAssumption
  PROVE  Decorated!Spec => [](Decorated!TypeOK /\ MissesFold)
<1>1. Decorated!Init => CallInv
  BY CallInit
<1>2. CallInv /\ [Decorated!Next]_(Decorated!vars) => CallInv'
  BY CallNext
<1>3. CallInv => Decorated!MissesFold /\ Decorated!NobodyStuck
  BY CallInvFolds, CallInvNobodyStuck
<1>4. CallInv => Decorated!NeverOlder
  BY DEF CallInv, Latest, NoneIsOlder, Exclusive, Decorated!NeverOlder
<1>5. CallInv => Decorated!TypeOK
  BY DEF CallInv, CallTypes, InCall, Holding, Deep, Decorated!Idle, Decorated!TypeOK
<1>6. CallInv => MissesFold
  BY <1>3, <1>4 DEF MissesFold
<1> QED
  BY <1>1, <1>2, <1>5, <1>6, PTL DEF Decorated!Spec

-----------------------------------------------------------------------------
\* The requests of the HTTP middleware.

RequestFields ==
  {"pc", "key", "body", "taken", "given", "buffered", "read", "fingerprint", "starts", "out", "capture"}

\* The message that the app is to read as its n-th.
Sent(body, n) == IF n <= Len(body) THEN body[n] ELSE Middleware!Disconnect

Received == Middleware!Messages \cup {Middleware!Disconnect}
RequestTypes(r) ==
  /\ DOMAIN r = RequestFields
  /\ r.body \in Seq(Middleware!Messages) /\ r.buffered \in Seq(Received)
  /\ r.read \in Seq(Received) /\ (r.pc # "over" => r.out \in Seq(Chunks))
  /\ r.taken \in Nat /\ r.given \in Nat

\* What was buffered and what was read are the first messages of the body, and until the
\* app answers the server's messages are taken in step with them.
ReadsInOrder(r) ==
  /\ \A n \in 1..Len(r.buffered) : r.buffered[n] = Sent(r.body, n)
  /\ \A n \in 1..Len(r.read) : r.read[n] = Sent(r.body, n)
  /\ r.pc \in {"buffering", "entering"} => r.read = <<>> /\ r.given = 0
  /\ r.pc \in {"buffering", "entering", "handling"} =>
       /\ r.out = <<>>
       /\ IF Len(r.read) <= Len(r.buffered)
          THEN /\ r.given = Len(r.read)
               /\ IF Len(r.buffered) <= Len(r.body) THEN r.taken = Len(r.buffered)
                                                    ELSE r.taken = Len(r.body)
          ELSE /\ r.given = Len(r.buffered)
               /\ IF Len(r.read) <= Len(r.body) THEN r.taken = Len(r.read)
                                                ELSE r.taken = Len(r.body)

\* The copy of a response is whole as long as it may be stored.
Captures(s) ==
  /\ DOMAIN s = {"storable", "size", "chunks", "stored"}
  /\ s.storable \in BOOLEAN
CaptureIsWhole(pc, out, s, max) ==
  pc \in {"responding", "background"} =>
    /\ Captures(s)
    /\ s.storable = TRUE => s.chunks = out /\ s.size = Len(out)
    /\ s.stored # None => s.stored = out /\ pc = "background" /\ Len(out) <= max

RequestKeeps(r, max) ==
  /\ RequestTypes(r) /\ ReadsInOrder(r) /\ CaptureIsWhole(r.pc, r.out, r.capture, max)

StoredIsWhole(x, max) ==
  x # None => x.whole = TRUE /\ x.body = x.sent /\ Len(x.body) <= max

HttpInv ==
  /\ h_settings \in Settings
  /\ DOMAIN h_store = RequestKeys /\ \A k \in RequestKeys : StoredIsWhole(h_store[k], h_settings.max_body_size)
  /\ DOMAIN h_req = Callers /\ \A c \in Callers : RequestKeeps(h_req[c], h_settings.max_body_size)

LEMMA OneRequestMoves ==
  ASSUME HttpInv, NEW c \in Callers, NEW r, UNCHANGED h_settings,
         h_req' = [h_req EXCEPT ![c] = r], RequestKeeps(r, h_settings.max_body_size),
         DOMAIN h_store' = RequestKeys,
         \A k \in RequestKeys : StoredIsWhole(h_store'[k], h_settings.max_body_size)
  PROVE  HttpInv'
<1> DEFINE m == h_settings.max_body_size
<1>1. m' = m /\ h_settings' \in Settings BY DEF HttpInv
<1>2. ASSUME NEW k \in RequestKeys PROVE StoredIsWhole(h_store[k], m)'
  <2>1. StoredIsWhole(h_store'[k], m) OBVIOUS
  <2> QED BY <1>1, <2>1 DEF StoredIsWhole
<1>3. ASSUME NEW d \in Callers PROVE RequestKeeps(h_req[d], m)'
  <2>1. RequestKeeps(h_req'[d], m) BY DEF HttpInv
  <2> QED BY <1>1, <2>1 DEF RequestKeeps, RequestTypes, ReadsInOrder, CaptureIsWhole, Captures, Sent
<1>4. DOMAIN h_req' = Callers BY DEF HttpInv
<1> HIDE DEF m
<1> QED BY <1>1, <1>2, <1>3, <1>4 DEF HttpInv, m

\* A request that is over keeps only what it has read.
LEMMA OverKeeps ==
  ASSUME NEW r, NEW x, NEW max, RequestTypes(r), ReadsInOrder(r), RequestTypes(x),
         x.pc = "over", x.body = r.body, x.buffered = r.buffered, x.read = r.read
  PROVE  RequestKeeps(x, max)
  BY DEF RequestKeeps, ReadsInOrder, CaptureIsWhole

LEMMA HttpCall ==
  ASSUME Middleware!HttpAssumption, HttpInv, NEW c \in Callers, NEW key, NEW body \in Bodies,
         Middleware!__call__(c, key, body)
  PROVE  HttpInv'
<1> DEFINE r == [Middleware!NoRequest EXCEPT !.key = key, !.body = body]
           m == h_settings.max_body_size
<1>1. body \in Seq(Middleware!Messages) BY DEF Middleware!HttpAssumption
<1>2. PICK p \in {"over", "buffering", "entering"}, n \in {0, 1} :
        h_req' = [h_req EXCEPT ![c] = IF p = "over" THEN [r EXCEPT !.pc = p, !.starts = 1]
                                      ELSE [r EXCEPT !.pc = p]]
  BY DEF Middleware!__call__, Middleware!Becomes
<1> DEFINE x == IF p = "over" THEN [r EXCEPT !.pc = p, !.starts = 1] ELSE [r EXCEPT !.pc = p]
<1>3. /\ DOMAIN x = RequestFields /\ x.pc = p /\ x.body = body /\ x.buffered = <<>> /\ x.read = <<>>
      /\ x.out = <<>> /\ x.taken = 0 /\ x.given = 0
  BY DEF Middleware!NoRequest, RequestFields
<1>4. h_req' = [h_req EXCEPT ![c] = x] BY <1>2
<1> HIDE DEF x
<1>5. RequestKeeps(x, m)
  BY <1>1, <1>3 DEF RequestKeeps, RequestTypes, ReadsInOrder, CaptureIsWhole
<1>6. UNCHANGED h_settings /\ UNCHANGED h_store BY DEF Middleware!__call__
<1> QED BY <1>4, <1>5, <1>6, OneRequestMoves DEF HttpInv

\* The server's next message.
LEMMA ReceivesInOrder ==
  ASSUME NEW r, RequestTypes(r), r.taken <= Len(r.body)
  PROVE  /\ Middleware!Received(r) \in Received
         /\ Middleware!Taken(r) \in Nat
         /\ IF r.taken < Len(r.body)
            THEN Middleware!Received(r) = Sent(r.body, r.taken + 1) /\ Middleware!Taken(r) = r.taken + 1
            ELSE Middleware!Received(r) = Middleware!Disconnect /\ Middleware!Taken(r) = r.taken
<1>1. Middleware!Disconnect \in Received BY DEF Received
<1>2. r.body \in Seq(Middleware!Messages) /\ r.taken \in Nat /\ Len(r.body) \in Nat
  BY DEF RequestTypes
<1>3. CASE r.taken < Len(r.body)
  <2>1. r.taken + 1 \in 1..Len(r.body) BY <1>2, <1>3
  <2>2. r.body[r.taken + 1] \in Middleware!Messages BY <1>2, <2>1, ElementOfSeq
  <2> QED BY <1>2, <1>3, <2>1, <2>2 DEF Middleware!Received, Middleware!Taken, Sent, Received
<1>4. CASE ~ (r.taken < Len(r.body))
  BY <1>1, <1>2, <1>4 DEF Middleware!Received, Middleware!Taken
<1> QED BY <1>3, <1>4

\* The middleware reads the body before the app does.
LEMMA HttpBuffers ==
  ASSUME Middleware!HttpAssumption, HttpInv, NEW c \in Callers, Middleware!_buffer_request(c)
  PROVE  HttpInv'
<1> DEFINE o == h_req[c]
           msg == Middleware!Received(o)
           kept == Append(o.buffered, msg)
           next == Middleware!Taken(o)
           max == h_settings.max_body_size
<1>0. /\ o.pc = "buffering" /\ RequestTypes(o) /\ ReadsInOrder(o) /\ "pc" \in DOMAIN o
  BY DEF HttpInv, RequestKeeps, Middleware!_buffer_request, RequestTypes, RequestFields
<1>1. UNCHANGED h_settings /\ UNCHANGED h_store BY DEF Middleware!_buffer_request
<1> DEFINE r == [o EXCEPT !.taken = next, !.buffered = kept]
<1>2. PICK x :
        /\ h_req' = [h_req EXCEPT ![c] = x]
        /\ \/ x = [r EXCEPT !.pc = "entering"]
           \/ x = [Middleware!_send_error(c) EXCEPT !.taken = r.taken]
           \/ x = r /\ msg # Middleware!Disconnect
           \/ \E f : x = [r EXCEPT !.pc = "entering", !.fingerprint = f]
  BY DEF Middleware!_buffer_request, Middleware!Becomes, Middleware!Kept
<1> HIDE DEF o
<1>3. /\ o.taken \in Nat /\ o.buffered \in Seq(Received) /\ Len(o.buffered) \in Nat
      /\ o.body \in Seq(Middleware!Messages) /\ Len(o.body) \in Nat
      /\ o.read = <<>> /\ o.given = 0 /\ o.out = <<>> /\ DOMAIN o = RequestFields
  BY <1>0 DEF RequestTypes, ReadsInOrder
<1>4. IF Len(o.buffered) <= Len(o.body) THEN o.taken = Len(o.buffered) ELSE o.taken = Len(o.body)
  BY <1>0, <1>3 DEF ReadsInOrder
<1>5. /\ msg \in Received /\ next \in Nat
      /\ IF o.taken < Len(o.body) THEN msg = Sent(o.body, o.taken + 1) /\ next = o.taken + 1
                                  ELSE msg = Middleware!Disconnect /\ next = o.taken
  BY <1>0, <1>3, <1>4, ReceivesInOrder
<1> HIDE DEF msg, next
<1>6. /\ kept \in Seq(Received) /\ Len(kept) = Len(o.buffered) + 1
      /\ kept[Len(o.buffered) + 1] = msg
      /\ \A n \in 1..Len(o.buffered) : kept[n] = o.buffered[n]
  BY <1>3, <1>5
<1> HIDE DEF kept
<1>7. \A n \in 1..Len(kept) : kept[n] = Sent(o.body, n)
  <2> SUFFICES ASSUME NEW n \in 1..Len(kept) PROVE kept[n] = Sent(o.body, n) OBVIOUS
  <2>1. CASE n <= Len(o.buffered)
    <3>1. n \in 1..Len(o.buffered) BY <1>3, <1>6, <2>1
    <3> QED BY <1>0, <1>6, <3>1 DEF ReadsInOrder
  <2>2. CASE n = Len(o.buffered) + 1
    <3>1. CASE o.taken < Len(o.body)
      <4>1. o.taken = Len(o.buffered) BY <1>3, <1>4, <3>1
      <4> QED BY <1>5, <1>6, <2>2, <3>1, <4>1
    <3>2. CASE ~ (o.taken < Len(o.body))
      <4>1. ~ (n <= Len(o.body)) BY <1>3, <1>4, <2>2, <3>2
      <4>2. kept[n] = msg BY <1>3, <1>6, <2>2
      <4> QED BY <1>5, <3>2, <4>1, <4>2 DEF Sent
    <3> QED BY <3>1, <3>2
  <2> QED BY <1>3, <1>6, <2>1, <2>2
<1>8. IF Len(kept) <= Len(o.body) THEN next = Len(kept) ELSE next = Len(o.body)
  BY <1>3, <1>4, <1>5, <1>6
<1>9. RequestKeeps(x, max)
  <2>1. CASE x.pc \in {"buffering", "entering"} /\ x.buffered = kept
             /\ x.taken = next /\ DOMAIN x = RequestFields /\ x.body = o.body
             /\ x.read = <<>> /\ x.given = 0 /\ x.out = <<>>
    <3>1. RequestTypes(x) BY <1>3, <1>5, <1>6, <2>1 DEF RequestTypes
    <3>2. ReadsInOrder(x) BY <1>3, <1>6, <1>7, <1>8, <2>1 DEF ReadsInOrder
    <3> QED BY <2>1, <3>1, <3>2 DEF RequestKeeps, CaptureIsWhole
  <2>2. CASE x = [Middleware!_send_error(c) EXCEPT !.taken = r.taken]
    <3>1. x = [[o EXCEPT !.pc = "over", !.starts = o.starts + 1] EXCEPT !.taken = r.taken]
      BY <2>2 DEF Middleware!_send_error, o
    <3>2. r.taken = next BY <1>3 DEF RequestFields
    <3>3. x.pc = "over" /\ x.body = o.body /\ x.buffered = o.buffered /\ x.read = o.read
          /\ x.out = o.out /\ x.given = o.given /\ x.taken = next /\ DOMAIN x = DOMAIN o
      BY <1>3, <3>1, <3>2 DEF RequestFields
    <3>4. RequestTypes(x) BY <1>0, <1>5, <3>3 DEF RequestTypes
    <3> QED BY <1>0, <3>3, <3>4, OverKeeps
  <2> QED BY <1>0, <1>2, <1>3, <2>1, <2>2 DEF RequestFields
<1> QED BY <1>1, <1>2, <1>9, OneRequestMoves DEF HttpInv

\* The app reads what was buffered and then the server's messages.
LEMMA HttpReads ==
  ASSUME Middleware!HttpAssumption, HttpInv, NEW c \in Callers, Middleware!replay_receive(c)
  PROVE  HttpInv'
<1> DEFINE o == h_req[c]
           m == Middleware!Replayed(o)
           read == Append(o.read, m.message)
           x == [o EXCEPT !.read = read, !.given = m.given, !.taken = m.taken]
           max == h_settings.max_body_size
<1>0. o.pc = "handling" /\ RequestTypes(o) /\ ReadsInOrder(o)
  BY DEF HttpInv, RequestKeeps, Middleware!replay_receive
<1>1. UNCHANGED h_settings /\ UNCHANGED h_store BY DEF Middleware!replay_receive
<1>2. h_req' = [h_req EXCEPT ![c] = x] BY DEF Middleware!replay_receive, Middleware!Becomes
<1> HIDE DEF o
<1>3. /\ o.taken \in Nat /\ o.given \in Nat
      /\ o.buffered \in Seq(Received) /\ Len(o.buffered) \in Nat
      /\ o.read \in Seq(Received) /\ Len(o.read) \in Nat
      /\ o.body \in Seq(Middleware!Messages) /\ Len(o.body) \in Nat
      /\ o.out = <<>> /\ DOMAIN o = RequestFields
  BY <1>0 DEF RequestTypes, ReadsInOrder
<1>4. IF Len(o.read) <= Len(o.buffered)
      THEN /\ o.given = Len(o.read)
           /\ IF Len(o.buffered) <= Len(o.body) THEN o.taken = Len(o.buffered)
                                                ELSE o.taken = Len(o.body)
      ELSE /\ o.given = Len(o.buffered)
           /\ IF Len(o.read) <= Len(o.body) THEN o.taken = Len(o.read)
                                            ELSE o.taken = Len(o.body)
  BY <1>0 DEF ReadsInOrder
<1>5. /\ m.message \in Received /\ m.given \in Nat /\ m.taken \in Nat
      /\ m.message = Sent(o.body, Len(o.read) + 1)
      /\ IF Len(o.read) + 1 <= Len(o.buffered)
         THEN /\ m.given = Len(o.read) + 1
              /\ IF Len(o.buffered) <= Len(o.body) THEN m.taken = Len(o.buffered)
                                                   ELSE m.taken = Len(o.body)
         ELSE /\ m.given = Len(o.buffered)
              /\ IF Len(o.read) + 1 <= Len(o.body) THEN m.taken = Len(o.read) + 1
                                                   ELSE m.taken = Len(o.body)
  <2>1. CASE o.given < Len(o.buffered)
    <3>1. m.message = o.buffered[o.given + 1] /\ m.given = o.given + 1 /\ m.taken = o.taken
      BY <2>1 DEF Middleware!Replayed
    <3> HIDE DEF m
    <3>2. Len(o.read) < Len(o.buffered) /\ o.given = Len(o.read) BY <1>3, <1>4, <2>1
    <3>3. o.given + 1 \in 1..Len(o.buffered) BY <1>3, <2>1
    <3>4. o.buffered[o.given + 1] = Sent(o.body, o.given + 1) BY <1>0, <3>3 DEF ReadsInOrder
    <3>5. o.buffered[o.given + 1] \in Received BY <1>3, <3>3, ElementOfSeq
    <3> QED BY <1>3, <1>4, <3>1, <3>2, <3>4, <3>5
  <2>2. CASE ~ (o.given < Len(o.buffered))
    <3>1. m.message = Middleware!Received(o) /\ m.given = o.given /\ m.taken = Middleware!Taken(o)
      BY <2>2 DEF Middleware!Replayed
    <3> HIDE DEF m
    <3>2. Len(o.read) >= Len(o.buffered) /\ o.given = Len(o.buffered) BY <1>3, <1>4, <2>2
    <3>3. IF Len(o.read) <= Len(o.body) THEN o.taken = Len(o.read) ELSE o.taken = Len(o.body)
      BY <1>3, <1>4, <3>2
    <3>4. /\ Middleware!Received(o) \in Received /\ Middleware!Taken(o) \in Nat
          /\ IF o.taken < Len(o.body)
             THEN Middleware!Received(o) = Sent(o.body, o.taken + 1) /\ Middleware!Taken(o) = o.taken + 1
             ELSE Middleware!Received(o) = Middleware!Disconnect /\ Middleware!Taken(o) = o.taken
      BY <1>0, <1>3, <3>3, ReceivesInOrder
    <3>5. CASE o.taken < Len(o.body)
      <4>1. o.taken = Len(o.read) /\ Len(o.read) + 1 <= Len(o.body) BY <1>3, <3>3, <3>5
      <4> QED BY <1>3, <3>1, <3>2, <3>4, <3>5, <4>1
    <3>6. CASE ~ (o.taken < Len(o.body))
      <4>1. ~ (Len(o.read) + 1 <= Len(o.body)) /\ o.taken = Len(o.body) BY <1>3, <3>3, <3>6
      <4>2. Sent(o.body, Len(o.read) + 1) = Middleware!Disconnect BY <4>1 DEF Sent
      <4> QED BY <1>3, <3>1, <3>2, <3>4, <3>6, <4>1, <4>2
    <3> QED BY <3>5, <3>6
  <2> QED BY <2>1, <2>2
<1> HIDE DEF m
<1>6. /\ read \in Seq(Received) /\ Len(read) = Len(o.read) + 1
      /\ read[Len(o.read) + 1] = m.message
      /\ \A n \in 1..Len(o.read) : read[n] = o.read[n]
  BY <1>3, <1>5
<1> HIDE DEF read
<1>7. \A n \in 1..Len(read) : read[n] = Sent(o.body, n)
  <2> SUFFICES ASSUME NEW n \in 1..Len(read) PROVE read[n] = Sent(o.body, n) OBVIOUS
  <2>1. CASE n <= Len(o.read)
    <3>1. n \in 1..Len(o.read) BY <1>3, <1>6, <2>1
    <3> QED BY <1>0, <1>6, <3>1 DEF ReadsInOrder
  <2>2. CASE n = Len(o.read) + 1 BY <1>5, <1>6, <2>2
  <2> QED BY <1>3, <1>6, <2>1, <2>2
<1>8. /\ x.pc = "handling" /\ x.body = o.body /\ x.buffered = o.buffered /\ x.read = read
      /\ x.out = o.out /\ x.given = m.given /\ x.taken = m.taken /\ DOMAIN x = RequestFields
  BY <1>0, <1>3 DEF RequestFields
<1> HIDE DEF x
<1>9. RequestTypes(x) BY <1>3, <1>5, <1>6, <1>8 DEF RequestTypes
<1>10. ReadsInOrder(x)
  <2>1. \A n \in 1..Len(x.buffered) : x.buffered[n] = Sent(x.body, n)
    BY <1>0, <1>8 DEF ReadsInOrder
  <2> QED BY <1>3, <1>5, <1>6, <1>7, <1>8, <2>1 DEF ReadsInOrder
<1>11. RequestKeeps(x, max) BY <1>8, <1>9, <1>10 DEF RequestKeeps, CaptureIsWhole
<1> QED BY <1>1, <1>2, <1>11, OneRequestMoves DEF HttpInv

\* The steps between reading and answering, and the ends of a request.
LEMMA HttpEnters ==
  ASSUME Middleware!HttpAssumption, HttpInv, NEW c \in Callers,
         \/ Middleware!raises_early(c) \/ Middleware!_send_stored(c) \/ Middleware!wait_timeout(c)
         \/ Middleware!_execute(c) \/ Middleware!raises(c)
  PROVE  HttpInv'
<1> DEFINE o == h_req[c]
           max == h_settings.max_body_size
<1>1. RequestTypes(o) /\ ReadsInOrder(o) /\ DOMAIN o = RequestFields
  BY DEF HttpInv, RequestKeeps, RequestTypes
<1>2. UNCHANGED h_settings /\ UNCHANGED h_store
  BY DEF Middleware!raises_early, Middleware!_send_stored, Middleware!wait_timeout,
         Middleware!_execute, Middleware!raises
<1>3. CASE Middleware!raises_early(c) \/ Middleware!raises(c)
  <2> DEFINE x == [o EXCEPT !.pc = "over"]
  <2>1. h_req' = [h_req EXCEPT ![c] = x]
    BY <1>3 DEF Middleware!raises_early, Middleware!raises, Middleware!Becomes
  <2> HIDE DEF o
  <2>2. x.pc = "over" /\ x.body = o.body /\ x.buffered = o.buffered /\ x.read = o.read
        /\ x.out = o.out /\ x.given = o.given /\ x.taken = o.taken /\ DOMAIN x = DOMAIN o
    BY <1>1 DEF RequestFields
  <2> HIDE DEF x
  <2>3. RequestTypes(x) BY <1>1, <2>2 DEF RequestTypes
  <2>4. RequestKeeps(x, max) BY <1>1, <2>2, <2>3, OverKeeps
  <2> QED BY <1>2, <2>1, <2>4, OneRequestMoves DEF HttpInv
<1>4. CASE Middleware!wait_timeout(c)
  <2> DEFINE x == [o EXCEPT !.pc = "over", !.starts = o.starts + 1]
  <2>1. h_req' = [h_req EXCEPT ![c] = x]
    BY <1>4 DEF Middleware!wait_timeout, Middleware!_send_error, Middleware!Becomes
  <2> HIDE DEF o
  <2>2. x.pc = "over" /\ x.body = o.body /\ x.buffered = o.buffered /\ x.read = o.read
        /\ x.out = o.out /\ x.given = o.given /\ x.taken = o.taken /\ DOMAIN x = DOMAIN o
    BY <1>1 DEF RequestFields
  <2> HIDE DEF x
  <2>3. RequestTypes(x) BY <1>1, <2>2 DEF RequestTypes
  <2>4. RequestKeeps(x, max) BY <1>1, <2>2, <2>3, OverKeeps
  <2> QED BY <1>2, <2>1, <2>4, OneRequestMoves DEF HttpInv
<1>6. CASE Middleware!_execute(c)
  <2> DEFINE x == [o EXCEPT !.pc = "handling"]
  <2>1. h_req' = [h_req EXCEPT ![c] = x] /\ o.pc = "entering"
    BY <1>6 DEF Middleware!_execute, Middleware!Becomes
  <2> HIDE DEF o
  <2>2. x.pc = "handling" /\ x.body = o.body /\ x.buffered = o.buffered /\ x.read = o.read
        /\ x.out = o.out /\ x.given = o.given /\ x.taken = o.taken /\ DOMAIN x = DOMAIN o
    BY <1>1 DEF RequestFields
  <2> HIDE DEF x
  <2>3. RequestTypes(x) BY <1>1, <2>1, <2>2 DEF RequestTypes
  <2>4. ReadsInOrder(x) BY <1>1, <2>1, <2>2 DEF ReadsInOrder
  <2>5. RequestKeeps(x, max) BY <2>2, <2>3, <2>4 DEF RequestKeeps, CaptureIsWhole
  <2> QED BY <1>2, <2>1, <2>5, OneRequestMoves DEF HttpInv
<1>7. CASE Middleware!_send_stored(c)
  <2> DEFINE e == [o EXCEPT !.pc = "over", !.starts = o.starts + 1]
             y == [e EXCEPT !.out = h_store[o.key].body]
             x == IF Middleware!Conflict(c) THEN e ELSE y
  <2>1. h_req' = [h_req EXCEPT ![c] = x]
    BY <1>7 DEF Middleware!_send_stored, Middleware!_send_error, Middleware!Becomes
  <2> HIDE DEF o
  <2>2. x.pc = "over" /\ x.body = o.body /\ x.buffered = o.buffered /\ x.read = o.read
        /\ x.given = o.given /\ x.taken = o.taken /\ DOMAIN x = DOMAIN o
    BY <1>1 DEF RequestFields
  <2> HIDE DEF x
  <2>3. RequestTypes(x) BY <1>1, <2>2 DEF RequestTypes
  <2>4. RequestKeeps(x, max) BY <1>1, <2>2, <2>3, OverKeeps
  <2> QED BY <1>2, <2>1, <2>4, OneRequestMoves DEF HttpInv
<1> QED BY <1>3, <1>4, <1>6, <1>7

\* The app answers: its messages are copied as long as the copy may be stored.
LEMMA HttpAnswers ==
  ASSUME Middleware!HttpAssumption, HttpInv, NEW c \in Callers,
         \/ \E blocked \in BOOLEAN : Middleware!_start(c, blocked)
         \/ \E data \in Chunks, more \in BOOLEAN, skip \in BOOLEAN :
              Middleware!send(c, data, more, skip)
  PROVE  HttpInv'
<1> DEFINE o == h_req[c]
           max == h_settings.max_body_size
<1>1. RequestTypes(o) /\ ReadsInOrder(o) /\ DOMAIN o = RequestFields
      /\ CaptureIsWhole(o.pc, o.out, o.capture, max)
  BY DEF HttpInv, RequestKeeps, RequestTypes
<1>2. UNCHANGED h_settings /\ UNCHANGED h_store BY DEF Middleware!_start, Middleware!send
<1>0. max \in Nat BY DEF HttpInv, Middleware!HttpAssumption
<1>3. ASSUME NEW blocked \in BOOLEAN, Middleware!_start(c, blocked) PROVE HttpInv'
  <2> DEFINE s == [Middleware!NoCapture EXCEPT !.storable = ~ blocked]
             x == [o EXCEPT !.pc = "responding", !.starts = o.starts + 1, !.capture = s]
  <2>1. h_req' = [h_req EXCEPT ![c] = x] /\ o.pc = "handling"
    BY <1>3 DEF Middleware!_start, Middleware!Becomes
  <2>2. DOMAIN s = {"storable", "size", "chunks", "stored"} /\ s.storable \in BOOLEAN
        /\ s.size = 0 /\ s.chunks = <<>> /\ s.stored = None
    BY DEF Middleware!NoCapture
  <2> HIDE DEF s, o
  <2>3. x.pc = "responding" /\ x.body = o.body /\ x.buffered = o.buffered /\ x.read = o.read
        /\ x.out = o.out /\ x.given = o.given /\ x.taken = o.taken /\ DOMAIN x = DOMAIN o
        /\ x.capture = s
    BY <1>1 DEF RequestFields
  <2> HIDE DEF x
  <2>4. RequestTypes(x) BY <1>1, <2>1, <2>3 DEF RequestTypes
  <2>5. ReadsInOrder(x) BY <1>1, <2>1, <2>3 DEF ReadsInOrder
  <2>6. x.out = <<>> /\ Len(x.out) = 0 BY <1>1, <2>1, <2>3 DEF ReadsInOrder
  <2>7. CaptureIsWhole(x.pc, x.out, x.capture, max)
    BY <2>2, <2>3, <2>6 DEF CaptureIsWhole, Captures
  <2>8. RequestKeeps(x, max) BY <2>4, <2>5, <2>7 DEF RequestKeeps
  <2> QED BY <1>2, <2>1, <2>8, OneRequestMoves DEF HttpInv
<1>4. ASSUME NEW data \in Chunks, NEW more \in BOOLEAN, NEW skip \in BOOLEAN,
             Middleware!send(c, data, more, skip)
      PROVE  HttpInv'
  <2> DEFINE old == o.capture
             s == Middleware!_body(old, data, more, skip)
             p == IF more THEN "responding" ELSE "background"
             out == Append(o.out, data)
             x == [o EXCEPT !.out = out, !.pc = p, !.capture = s]
  <2>1. h_req' = [h_req EXCEPT ![c] = x] /\ o.pc = "responding"
    BY <1>4 DEF Middleware!send, Middleware!Becomes
  <2> HIDE DEF o
  <2>2. /\ o.out \in Seq(Chunks) /\ Len(o.out) \in Nat
        /\ DOMAIN old = {"storable", "size", "chunks", "stored"} /\ old.storable \in BOOLEAN
        /\ old.stored = None /\ (old.storable = TRUE => old.chunks = o.out /\ old.size = Len(o.out))
    BY <1>1, <2>1 DEF RequestTypes, CaptureIsWhole, Captures
  <2>3. out \in Seq(Chunks) /\ Len(out) = Len(o.out) + 1 BY <2>2
  <2> HIDE DEF old
  <2>4. CaptureIsWhole(p, out, s, max)
    <3>1. CASE old.storable = FALSE
      <4>1. s = old BY <3>1 DEF Middleware!_body
      <4> HIDE DEF s
      <4> QED BY <2>2, <3>1, <4>1 DEF CaptureIsWhole, Captures
    <3>2. CASE old.storable = TRUE /\ old.size + 1 > max
      <4>1. s = [old EXCEPT !.size = old.size + 1, !.storable = FALSE, !.chunks = <<>>]
        BY <3>2 DEF Middleware!_body
      <4> HIDE DEF s
      <4> QED BY <2>2, <4>1 DEF CaptureIsWhole, Captures
    <3>3. CASE old.storable = TRUE /\ ~ (old.size + 1 > max)
      <4> DEFINE grown == [old EXCEPT !.size = old.size + 1, !.chunks = Append(old.chunks, data)]
      <4>1. s = IF more \/ skip THEN grown ELSE [grown EXCEPT !.stored = grown.chunks]
        BY <3>3 DEF Middleware!_body
      <4>2. /\ grown.size = Len(out) /\ grown.chunks = out /\ grown.stored = None
            /\ DOMAIN grown = {"storable", "size", "chunks", "stored"} /\ grown.storable = TRUE
        BY <2>2, <2>3, <3>3
      <4>3. Len(out) <= max BY <1>0, <2>2, <2>3, <3>3
      <4> HIDE DEF s, grown, out
      <4> QED BY <4>1, <4>2, <4>3 DEF CaptureIsWhole, Captures
    <3> QED BY <2>2, <3>1, <3>2, <3>3
  <2> HIDE DEF s, out
  <2>5. x.pc = p /\ x.body = o.body /\ x.buffered = o.buffered /\ x.read = o.read
        /\ x.out = out /\ x.given = o.given /\ x.taken = o.taken /\ DOMAIN x = DOMAIN o
        /\ x.capture = s
    BY <1>1 DEF RequestFields
  <2> HIDE DEF x
  <2>6. RequestTypes(x) BY <1>1, <2>3, <2>5 DEF RequestTypes
  <2>7. ReadsInOrder(x) BY <1>1, <2>5 DEF ReadsInOrder
  <2>8. RequestKeeps(x, max) BY <2>4, <2>5, <2>6, <2>7 DEF RequestKeeps
  <2> QED BY <1>2, <2>1, <2>8, OneRequestMoves DEF HttpInv
<1> QED BY <1>3, <1>4

\* The app returns, and what was copied is stored.
LEMMA HttpReturns ==
  ASSUME Middleware!HttpAssumption, HttpInv, NEW c \in Callers, Middleware!returns(c)
  PROVE  HttpInv'
<1> DEFINE o == h_req[c]
           max == h_settings.max_body_size
           captured == o.capture.stored
           entry == [body |-> captured, fingerprint |-> o.fingerprint, sent |-> o.out,
                     whole |-> o.pc = "background"]
           x == [o EXCEPT !.pc = "over"]
<1>1. RequestTypes(o) /\ ReadsInOrder(o) /\ DOMAIN o = RequestFields
      /\ CaptureIsWhole(o.pc, o.out, o.capture, max)
  BY DEF HttpInv, RequestKeeps, RequestTypes
<1>2. /\ o.pc \in {"responding", "background"} /\ UNCHANGED h_settings
      /\ h_store' = IF captured = None THEN h_store ELSE [h_store EXCEPT ![o.key] = entry]
      /\ h_req' = [h_req EXCEPT ![c] = x]
  BY DEF Middleware!returns, Middleware!Becomes
<1> HIDE DEF o
<1>3. x.pc = "over" /\ x.body = o.body /\ x.buffered = o.buffered /\ x.read = o.read
      /\ x.given = o.given /\ x.taken = o.taken /\ DOMAIN x = DOMAIN o
  BY <1>1 DEF RequestFields
<1> HIDE DEF x
<1>4. RequestTypes(x) BY <1>1, <1>3 DEF RequestTypes
<1>5. RequestKeeps(x, max) BY <1>1, <1>3, <1>4, OverKeeps
<1>6. captured # None => StoredIsWhole(entry, max)
  BY <1>1, <1>2 DEF StoredIsWhole, CaptureIsWhole
<1> HIDE DEF entry, captured
<1>7. DOMAIN h_store' = RequestKeys /\ \A k \in RequestKeys : StoredIsWhole(h_store'[k], max)
  BY <1>2, <1>6 DEF HttpInv
<1> QED BY <1>2, <1>5, <1>7, OneRequestMoves

\* What bounds a request: its key is one of the keys while it may be answered from the
\* store, no message is taken that was not sent, and the response is no longer than the app's.
RequestBounded(r) ==
  /\ r.pc \in {"none", "buffering", "entering", "handling", "responding", "background", "over"}
  /\ r.taken <= Len(r.body) /\ Len(r.out) <= MaxChunks
  /\ r.pc \in {"buffering", "entering"} => r.key \in RequestKeys

HttpBounded ==
  /\ h_calls \in 0..MaxRequests /\ h_holder \in [RequestKeys -> Callers \cup {None}]
  /\ \A k \in RequestKeys : h_store[k] # None => Len(h_store[k].body) <= MaxChunks
  /\ \A c \in Callers : RequestBounded(h_req[c])

LEMMA OneRequestBounded ==
  ASSUME HttpInv, HttpBounded, NEW c \in Callers, NEW r, RequestBounded(r),
         h_req' = [h_req EXCEPT ![c] = r], UNCHANGED h_calls,
         \/ UNCHANGED h_holder
         \/ \E k : \E v \in Callers \cup {None} : h_holder' = [h_holder EXCEPT ![k] = v],
         UNCHANGED h_store
  PROVE  HttpBounded'
<1>1. h_holder' \in [RequestKeys -> Callers \cup {None}] BY DEF HttpBounded
<1>2. ASSUME NEW d \in Callers PROVE RequestBounded(h_req[d])'
  <2>1. RequestBounded(h_req'[d]) BY DEF HttpInv, HttpBounded
  <2> QED BY <2>1 DEF RequestBounded
<1> QED BY <1>1, <1>2 DEF HttpBounded

\* The requests that begin, and those whose app returns, which may store a response.
LEMMA RequestBegins ==
  ASSUME Middleware!HttpAssumption, HttpInv, HttpBounded, NEW c \in Callers, NEW key,
         NEW body \in Bodies, Middleware!__call__(c, key, body)
  PROVE  HttpBounded'
<1> DEFINE r == [Middleware!NoRequest EXCEPT !.key = key, !.body = body]
<1>1. PICK x : /\ h_req' = [h_req EXCEPT ![c] = x]
               /\ \/ x = [r EXCEPT !.pc = "over", !.starts = 1]
                  \/ key \in RequestKeys /\ x = [r EXCEPT !.pc = "buffering"]
                  \/ key \in RequestKeys /\ x = [r EXCEPT !.pc = "entering"]
  BY DEF Middleware!__call__, Middleware!Becomes
<1>2. /\ x.pc \in {"over", "buffering", "entering"} /\ x.taken = 0 /\ x.body = body
      /\ x.out = <<>> /\ (x.pc \in {"buffering", "entering"} => x.key \in RequestKeys)
  BY <1>1 DEF Middleware!NoRequest
<1>3. Len(body) \in Nat /\ MaxChunks \in Nat /\ MaxRequests \in Nat
  BY DEF Middleware!HttpAssumption
<1>4. RequestBounded(x) BY <1>2, <1>3 DEF RequestBounded
<1>5. h_calls' \in 0..MaxRequests /\ UNCHANGED h_holder /\ UNCHANGED h_store
  BY <1>3 DEF Middleware!__call__, HttpBounded
<1>6. ASSUME NEW d \in Callers PROVE RequestBounded(h_req[d])'
  <2>1. RequestBounded(h_req'[d]) BY <1>1, <1>4 DEF HttpInv, HttpBounded
  <2> QED BY <2>1 DEF RequestBounded
<1> QED BY <1>5, <1>6 DEF HttpBounded

LEMMA ResponseStored ==
  ASSUME Middleware!HttpAssumption, HttpInv, HttpBounded, NEW c \in Callers,
         Middleware!returns(c)
  PROVE  HttpBounded'
<1> DEFINE o == h_req[c]
           captured == o.capture.stored
           entry == [body |-> captured, fingerprint |-> o.fingerprint, sent |-> o.out,
                     whole |-> o.pc = "background"]
           x == [o EXCEPT !.pc = "over"]
<1>1. /\ DOMAIN o = RequestFields /\ CaptureIsWhole(o.pc, o.out, o.capture, h_settings.max_body_size)
      /\ RequestBounded(o)
  BY DEF HttpInv, HttpBounded, RequestKeeps, RequestTypes
<1>2. /\ o.pc \in {"responding", "background"} /\ UNCHANGED h_calls
      /\ h_store' = IF captured = None THEN h_store ELSE [h_store EXCEPT ![o.key] = entry]
      /\ h_holder' = [h_holder EXCEPT ![o.key] = None] /\ h_req' = [h_req EXCEPT ![c] = x]
  BY DEF Middleware!returns, Middleware!Becomes
<1> HIDE DEF o
<1>3. x.pc = "over" /\ x.body = o.body /\ x.taken = o.taken /\ x.out = o.out
  BY <1>1 DEF RequestFields
<1> HIDE DEF x
<1>4. RequestBounded(x) BY <1>1, <1>3 DEF RequestBounded
<1>5. captured # None => entry.body = o.out /\ Len(o.out) <= MaxChunks
  BY <1>1, <1>2 DEF CaptureIsWhole, RequestBounded
<1> HIDE DEF entry, captured
<1>6. \A k \in RequestKeys : h_store'[k] # None => Len(h_store'[k].body) <= MaxChunks
  BY <1>2, <1>5 DEF HttpInv, HttpBounded
<1>7. ASSUME NEW d \in Callers PROVE RequestBounded(h_req[d])'
  <2>1. RequestBounded(h_req'[d]) BY <1>2, <1>4 DEF HttpInv, HttpBounded
  <2> QED BY <2>1 DEF RequestBounded
<1>8. h_holder' \in [RequestKeys -> Callers \cup {None}] BY <1>2 DEF HttpBounded
<1> QED BY <1>2, <1>6, <1>7, <1>8 DEF HttpBounded

\* All other steps move one request and leave the store alone.
LEMMA RequestGoesOn ==
  ASSUME Middleware!HttpAssumption, HttpInv, HttpBounded, NEW c \in Callers,
         \/ Middleware!_buffer_request(c) \/ Middleware!raises_early(c)
         \/ Middleware!_send_stored(c) \/ Middleware!wait_timeout(c) \/ Middleware!_execute(c)
         \/ Middleware!replay_receive(c)
         \/ \E blocked \in BOOLEAN : Middleware!_start(c, blocked)
         \/ \E data \in Chunks, more \in BOOLEAN, skip \in BOOLEAN :
              Middleware!send(c, data, more, skip)
         \/ Middleware!raises(c)
  PROVE  HttpBounded'
<1> DEFINE o == h_req[c]
           next == Middleware!Taken(o)
<1>1. RequestTypes(o) /\ DOMAIN o = RequestFields /\ RequestBounded(o)
  BY DEF HttpInv, HttpBounded, RequestKeeps, RequestTypes
<1>2. next \in Nat /\ next <= Len(o.body)
  BY <1>1 DEF RequestTypes, RequestBounded, Middleware!Taken
<1>3. MaxChunks \in Nat BY DEF Middleware!HttpAssumption
<1>4. ASSUME NEW x, h_req' = [h_req EXCEPT ![c] = x], RequestBounded(x),
             \/ UNCHANGED h_holder
             \/ \E k : \E v \in Callers \cup {None} : h_holder' = [h_holder EXCEPT ![k] = v],
             UNCHANGED h_calls, UNCHANGED h_store
      PROVE  HttpBounded'
  BY <1>4, OneRequestBounded
<1>5. CASE Middleware!_buffer_request(c)
  <2> DEFINE kept == Middleware!Kept(o)
             r == [o EXCEPT !.taken = next, !.buffered = kept]
  <2>1. PICK x :
          /\ h_req' = [h_req EXCEPT ![c] = x]
          /\ \/ x = [r EXCEPT !.pc = "entering"]
             \/ x = [Middleware!_send_error(c) EXCEPT !.taken = r.taken]
             \/ x = r
             \/ \E f : x = [r EXCEPT !.pc = "entering", !.fingerprint = f]
    BY <1>5 DEF Middleware!_buffer_request, Middleware!Becomes
  <2>2. UNCHANGED h_holder /\ UNCHANGED h_calls /\ UNCHANGED h_store /\ o.pc = "buffering"
    BY <1>5 DEF Middleware!_buffer_request
  <2>3. Middleware!_send_error(c) = [o EXCEPT !.pc = "over", !.starts = o.starts + 1]
    BY DEF Middleware!_send_error
  <2> HIDE DEF o, next, kept
  <2> DEFINE Fits(y) == /\ y.pc \in {"entering", "over", "buffering"} /\ y.taken = next
                        /\ y.body = o.body /\ y.out = o.out /\ (y.key = o.key \/ y.pc = "over")
  <2>4. Fits([Middleware!_send_error(c) EXCEPT !.taken = r.taken])
    BY <1>1, <2>3 DEF RequestFields
  <2>5. Fits(r) /\ Fits([r EXCEPT !.pc = "entering"])
    BY <1>1, <2>2 DEF RequestFields
  <2>6. \A f : Fits([r EXCEPT !.pc = "entering", !.fingerprint = f])
    BY <1>1 DEF RequestFields
  <2> HIDE DEF Fits, r
  <2>7. Fits(x) BY <2>1, <2>4, <2>5, <2>6
  <2>8. RequestBounded(x) BY <1>1, <1>2, <2>2, <2>7 DEF Fits, RequestBounded
  <2> QED BY <1>4, <2>1, <2>2, <2>8
<1>6. CASE Middleware!raises_early(c) \/ Middleware!raises(c) \/ Middleware!wait_timeout(c)
  <2>1. PICK x :
          /\ h_req' = [h_req EXCEPT ![c] = x]
          /\ \/ x = [o EXCEPT !.pc = "over"]
             \/ x = [o EXCEPT !.pc = "over", !.starts = o.starts + 1]
    BY <1>6 DEF Middleware!raises_early, Middleware!raises, Middleware!wait_timeout,
                Middleware!_send_error, Middleware!Becomes
  <2>2. /\ UNCHANGED h_calls /\ UNCHANGED h_store
        /\ UNCHANGED h_holder \/ h_holder' = [h_holder EXCEPT ![o.key] = None]
    BY <1>6 DEF Middleware!raises_early, Middleware!raises, Middleware!wait_timeout
  <2> HIDE DEF o
  <2>3. x.pc = "over" /\ x.taken = o.taken /\ x.body = o.body /\ x.out = o.out
    BY <1>1, <2>1 DEF RequestFields
  <2>4. RequestBounded(x) BY <1>1, <2>3 DEF RequestBounded
  <2> QED BY <1>4, <2>1, <2>2, <2>4
<1>7. CASE Middleware!_send_stored(c)
  <2> DEFINE e == [o EXCEPT !.pc = "over", !.starts = o.starts + 1]
  <2>1. PICK x : /\ h_req' = [h_req EXCEPT ![c] = x]
                 /\ x = e \/ x = [e EXCEPT !.out = h_store[o.key].body]
    BY <1>7 DEF Middleware!_send_stored, Middleware!_send_error, Middleware!Becomes
  <2>2. /\ UNCHANGED h_calls /\ UNCHANGED h_store /\ UNCHANGED h_holder /\ o.pc = "entering"
        /\ h_store[o.key] # None
    BY <1>7 DEF Middleware!_send_stored
  <2>3. Len(h_store[o.key].body) <= MaxChunks
    BY <1>1, <2>2 DEF RequestBounded, HttpBounded
  <2> HIDE DEF o
  <2>4. x.pc = "over" /\ x.taken = o.taken /\ x.body = o.body /\ Len(x.out) <= MaxChunks
    BY <1>1, <2>1, <2>3 DEF RequestFields, RequestBounded
  <2>5. RequestBounded(x) BY <1>1, <2>4 DEF RequestBounded
  <2> QED BY <1>4, <2>1, <2>2, <2>5
<1>8. CASE Middleware!_execute(c) \/ \E blocked \in BOOLEAN : Middleware!_start(c, blocked)
  <2>1. PICK x :
          /\ h_req' = [h_req EXCEPT ![c] = x]
          /\ \/ x = [o EXCEPT !.pc = "handling"]
             \/ \E s : x = [o EXCEPT !.pc = "responding", !.starts = o.starts + 1, !.capture = s]
    BY <1>8 DEF Middleware!_execute, Middleware!_start, Middleware!Becomes
  <2>2. /\ UNCHANGED h_calls /\ UNCHANGED h_store
        /\ UNCHANGED h_holder \/ h_holder' = [h_holder EXCEPT ![o.key] = c]
    BY <1>8 DEF Middleware!_execute, Middleware!_start
  <2> HIDE DEF o
  <2>3. x.pc \in {"handling", "responding"} /\ x.taken = o.taken /\ x.body = o.body /\ x.out = o.out
    BY <1>1, <2>1 DEF RequestFields
  <2>4. RequestBounded(x) BY <1>1, <2>3 DEF RequestBounded
  <2> QED BY <1>4, <2>1, <2>2, <2>4
<1>9. CASE Middleware!replay_receive(c)
  <2> DEFINE m == Middleware!Replayed(o)
             t == m.taken
             x == [o EXCEPT !.read = Append(o.read, m.message), !.given = m.given, !.taken = t]
  <2>1. h_req' = [h_req EXCEPT ![c] = x] /\ t \in {o.taken, next}
    BY <1>9 DEF Middleware!replay_receive, Middleware!Replayed, Middleware!Becomes
  <2>2. UNCHANGED h_calls /\ UNCHANGED h_store /\ UNCHANGED h_holder /\ o.pc = "handling"
    BY <1>9 DEF Middleware!replay_receive
  <2> HIDE DEF o, next, m
  <2>3. x.pc = "handling" /\ x.taken = t /\ x.body = o.body /\ x.out = o.out
    BY <1>1, <2>2 DEF RequestFields
  <2> HIDE DEF x, t
  <2>4. RequestBounded(x) BY <1>1, <1>2, <2>1, <2>3 DEF RequestBounded
  <2> QED BY <1>4, <2>1, <2>2, <2>4
<1>10. ASSUME NEW data \in Chunks, NEW more \in BOOLEAN, NEW skip \in BOOLEAN,
              Middleware!send(c, data, more, skip)
       PROVE  HttpBounded'
  <2> DEFINE p == IF more THEN "responding" ELSE "background"
             s == Middleware!_body(o.capture, data, more, skip)
             x == [o EXCEPT !.out = Append(o.out, data), !.pc = p, !.capture = s]
  <2>1. /\ h_req' = [h_req EXCEPT ![c] = x] /\ o.pc = "responding" /\ Len(o.out) < MaxChunks
        /\ UNCHANGED h_calls /\ UNCHANGED h_store /\ UNCHANGED h_holder
    BY <1>10 DEF Middleware!send, Middleware!Becomes
  <2> HIDE DEF o, s
  <2>2. /\ x.pc \in {"responding", "background"} /\ x.taken = o.taken /\ x.body = o.body
        /\ x.out = Append(o.out, data)
    BY <1>1 DEF RequestFields
  <2>3. o.out \in Seq(Chunks) BY <1>1, <2>1 DEF RequestTypes
  <2>4. Len(x.out) <= MaxChunks BY <1>3, <2>1, <2>2, <2>3
  <2> HIDE DEF x
  <2>5. RequestBounded(x) BY <1>1, <2>2, <2>4 DEF RequestBounded
  <2> QED BY <1>4, <2>1, <2>5
<1> QED BY <1>5, <1>6, <1>7, <1>8, <1>9, <1>10

LEMMA HttpInit ==
  ASSUME Middleware!HttpAssumption, Middleware!Init
  PROVE  HttpInv /\ HttpBounded
<1>1. /\ h_settings \in Settings /\ h_store = [k \in RequestKeys |-> None]
      /\ h_req = [c \in Callers |-> Middleware!NoRequest]
  BY DEF Middleware!Init
<1> DEFINE r == Middleware!NoRequest
<1>2. /\ DOMAIN r = RequestFields /\ r.pc = "none" /\ r.body = <<>> /\ r.buffered = <<>>
      /\ r.read = <<>> /\ r.out = <<>> /\ r.taken = 0 /\ r.given = 0
  BY DEF Middleware!NoRequest, RequestFields
<1> HIDE DEF r
<1>3. RequestKeeps(r, h_settings.max_body_size)
  BY <1>2 DEF RequestKeeps, RequestTypes, ReadsInOrder, CaptureIsWhole
<1>4. HttpInv BY <1>1, <1>3 DEF HttpInv, StoredIsWhole, r
<1>5. RequestBounded(r)
  BY <1>2 DEF RequestBounded, Middleware!HttpAssumption
<1>6. HttpBounded
  BY <1>1, <1>5 DEF HttpBounded, Middleware!Init, Middleware!HttpAssumption, r
<1> QED BY <1>4, <1>6

LEMMA HttpStep ==
  ASSUME Middleware!HttpAssumption, HttpInv, [Middleware!Next]_Middleware!vars
  PROVE  HttpInv'
<1>1. CASE UNCHANGED Middleware!vars
  <2>1. UNCHANGED h_settings /\ UNCHANGED h_store /\ UNCHANGED h_req BY <1>1 DEF Middleware!vars
  <2> QED BY <2>1 DEF HttpInv, StoredIsWhole, RequestKeeps, RequestTypes, ReadsInOrder,
                      CaptureIsWhole, Captures, Sent
<1>2. ASSUME NEW k \in RequestKeys, Middleware!expires(k) PROVE HttpInv'
  <2>1. /\ UNCHANGED h_settings /\ UNCHANGED h_req /\ h_store' = [h_store EXCEPT ![k] = None]
    BY <1>2 DEF Middleware!expires
  <2>2. ASSUME NEW j \in RequestKeys PROVE StoredIsWhole(h_store[j], h_settings.max_body_size)'
    <3>1. StoredIsWhole(h_store'[j], h_settings.max_body_size)
      BY <2>1 DEF HttpInv, StoredIsWhole
    <3> QED BY <2>1, <3>1 DEF StoredIsWhole
  <2>3. ASSUME NEW c \in Callers PROVE RequestKeeps(h_req[c], h_settings.max_body_size)'
    <3>1. RequestKeeps(h_req[c], h_settings.max_body_size) BY DEF HttpInv
    <3> QED BY <2>1, <3>1 DEF RequestKeeps, RequestTypes, ReadsInOrder, CaptureIsWhole, Captures, Sent
  <2> QED BY <2>1, <2>2, <2>3 DEF HttpInv
<1>3. ASSUME NEW c \in Callers, NEW key, NEW body \in Bodies, Middleware!__call__(c, key, body)
      PROVE  HttpInv'
  BY <1>3, HttpCall
<1>4. ASSUME NEW c \in Callers,
             \/ Middleware!_buffer_request(c) \/ Middleware!raises_early(c)
             \/ Middleware!_send_stored(c) \/ Middleware!wait_timeout(c) \/ Middleware!_execute(c)
             \/ Middleware!replay_receive(c)
             \/ \E blocked \in BOOLEAN : Middleware!_start(c, blocked)
             \/ \E data \in Chunks, more \in BOOLEAN, skip \in BOOLEAN :
                  Middleware!send(c, data, more, skip)
             \/ Middleware!returns(c) \/ Middleware!raises(c)
      PROVE  HttpInv'
  BY <1>4, HttpBuffers, HttpReads, HttpEnters, HttpAnswers, HttpReturns
<1> QED BY <1>1, <1>2, <1>3, <1>4 DEF Middleware!Next

LEMMA HttpBoundedStep ==
  ASSUME Middleware!HttpAssumption, HttpInv, HttpBounded, [Middleware!Next]_Middleware!vars
  PROVE  HttpBounded'
<1>1. CASE UNCHANGED Middleware!vars
  BY <1>1 DEF Middleware!vars, HttpBounded, RequestBounded
<1>2. ASSUME NEW k \in RequestKeys, Middleware!expires(k) PROVE HttpBounded'
  <2>1. /\ UNCHANGED h_calls /\ UNCHANGED h_holder /\ UNCHANGED h_req
        /\ h_store' = [h_store EXCEPT ![k] = None]
    BY <1>2 DEF Middleware!expires
  <2>2. \A j \in RequestKeys : h_store'[j] # None => Len(h_store'[j].body) <= MaxChunks
    BY <2>1 DEF HttpInv, HttpBounded
  <2> QED BY <2>1, <2>2 DEF HttpBounded, RequestBounded
<1> QED BY <1>1, <1>2, RequestBegins, ResponseStored, RequestGoesOn DEF Middleware!Next

\* A response that is replayed is, for every number of requests, settings and sizes, the
\* whole response that the first client was sent; and whether or not the middleware read
\* the body first, the app reads the messages of its client, each once and in order.
THEOREM ReplaysAreWhole ==
  ASSUME Middleware!HttpAssumption
  PROVE  Middleware!Spec => [](Middleware!TypeOK /\ ReplayIsWhole)
<1>1. Middleware!Init => HttpInv /\ HttpBounded
  BY HttpInit
<1>2. HttpInv /\ HttpBounded /\ [Middleware!Next]_Middleware!vars => (HttpInv /\ HttpBounded)'
  BY HttpStep, HttpBoundedStep
<1>3. HttpInv => ReplayIsWhole
  <2> SUFFICES ASSUME HttpInv PROVE Middleware!ReplayIsWhole /\ Middleware!ReadsWhatWasSent
    BY DEF ReplayIsWhole
  <2>1. Middleware!ReplayIsWhole BY DEF HttpInv, StoredIsWhole, Middleware!ReplayIsWhole
  <2>2. ASSUME NEW c \in Callers, NEW n \in DOMAIN h_req[c].read
        PROVE  h_req[c].read[n] = Sent(h_req[c].body, n)
    BY <2>2 DEF HttpInv, RequestKeeps, RequestTypes, ReadsInOrder
  <2> QED BY <2>1, <2>2 DEF Middleware!ReadsWhatWasSent, Sent
<1>4. HttpInv /\ HttpBounded => Middleware!TypeOK
  BY DEF HttpInv, HttpBounded, RequestKeeps, RequestTypes, RequestBounded, Middleware!TypeOK
<1> QED BY <1>1, <1>2, <1>3, <1>4, PTL DEF Middleware!Spec

-----------------------------------------------------------------------------
\* The installation into a web framework.

\* The module's own name for what a comprehension keeps.
LEMMA FrameworkOnly ==
  ASSUME NEW s, NEW S
  PROVE  Framework!Only(s, S) = Only(s, S)
  BY Zenon DEF Framework!Only, Only

\* A set of naturals that is bounded has a greatest element.
LEMMA GreatestBelow ==
  ASSUME NEW m \in Nat, NEW S, S \subseteq 1..m, S # {}
  PROVE  \E x \in S : \A y \in S : y <= x
<1> DEFINE R == {m - x : x \in S}
<1>1. R \subseteq Nat /\ R # {}
  <2>1. ASSUME NEW x \in S PROVE m - x \in Nat
    OBVIOUS
  <2> QED BY <2>1
<1>2. PICK r \in R : \A q \in R : r <= q
  BY <1>1, LeastNatural
<1>3. PICK x \in S : r = m - x
  BY <1>2
<1>4. ASSUME NEW y \in S PROVE y <= x
  <2>1. m - x <= m - y
    BY <1>2, <1>3
  <2> QED BY <2>1
<1> QED BY <1>4

\* The stack is what the framework has, the app is served only after the order was read
\* back, and a request finds in each middleware what was bound around it.
InstallInv ==
  /\ Framework!TypeOK
  /\ f_phase # "setup" => f_stack = f_user_middleware
  /\ f_phase \in {"serving", "request"} /\ f_installed # <<>> => Framework!_check_binding_outermost
  /\ f_phase = "request" => f_current = [n \in DOMAIN f_stack |-> Framework!Bound(n)]

LEMMA InstallStep ==
  ASSUME Framework!InstallAssumption, InstallInv, [Framework!Next]_Framework!vars
  PROVE  InstallInv'
<1> USE DEF Framework!TypeOK
<1>1. CASE UNCHANGED Framework!vars
  <2>1. /\ UNCHANGED f_user_middleware /\ UNCHANGED f_installed /\ UNCHANGED f_reorders
        /\ UNCHANGED f_stack /\ UNCHANGED f_opened /\ UNCHANGED f_phase /\ UNCHANGED f_current
    BY <1>1 DEF Framework!vars
  <2>2. Framework!_check_binding_outermost' = Framework!_check_binding_outermost
    BY <2>1 DEF Framework!_check_binding_outermost, Framework!_is_binding
  <2>3. [n \in DOMAIN f_stack |-> Framework!Bound(n)]' = [n \in DOMAIN f_stack |-> Framework!Bound(n)]
    BY <2>1 DEF Framework!Bound, Framework!_is_binding
  <2> QED BY <2>1, <2>2, <2>3 DEF InstallInv
<1>2. ASSUME NEW m \in Others \cup Apps, Framework!add_middleware(m) PROVE InstallInv'
  BY <1>2 DEF InstallInv, Framework!add_middleware
<1>3. ASSUME NEW app \in Apps, NEW ambient \in BOOLEAN, Framework!install(app, ambient)
      PROVE  InstallInv'
  <2>1. /\ f_installed' = <<app>> \o f_installed /\ f_phase = "setup"
        /\ \/ f_user_middleware' = <<app>> \o f_user_middleware /\ f_reorders' = TRUE
           \/ UNCHANGED f_user_middleware /\ UNCHANGED f_reorders
        /\ UNCHANGED f_opened /\ UNCHANGED f_phase
    BY <1>3 DEF Framework!install
  <2>2. f_installed' \in Seq(Apps) /\ f_user_middleware' \in Seq(Apps \cup Others)
    <3>1. f_installed \in Seq(Apps) /\ f_user_middleware \in Seq(Apps \cup Others)
      BY DEF InstallInv
    <3>2. <<app>> \in Seq(Apps) /\ <<app>> \in Seq(Apps \cup Others)
      OBVIOUS
    <3>3. /\ <<app>> \o f_installed \in Seq(Apps)
          /\ <<app>> \o f_user_middleware \in Seq(Apps \cup Others)
      BY <3>1, <3>2, ConcatProperties
    <3>4. f_user_middleware' \in {<<app>> \o f_user_middleware, f_user_middleware}
      BY <2>1, Zenon
    <3> QED BY <2>1, <3>1, <3>3, <3>4, Zenon
  <2>3. f_reorders' \in BOOLEAN
    <3>1. f_reorders \in BOOLEAN
      BY DEF InstallInv
    <3> QED BY <2>1, <3>1, Zenon
  <2> QED BY <2>1, <2>2, <2>3 DEF InstallInv
<1>4. CASE Framework!build_middleware_stack
  <2> DEFINE first == {m \in Framework!Range(f_user_middleware) : Framework!_is_binding(m)}
             rest == {m \in Framework!Range(f_user_middleware) : ~ Framework!_is_binding(m)}
             ms == f_user_middleware
  <2>1. ms \in Seq(Apps \cup Others)
    BY DEF InstallInv
  <2>2. Only(ms, first) \in Seq(Apps \cup Others) /\ Only(ms, rest) \in Seq(Apps \cup Others)
    BY <2>1, OnlyKeeps, Zenon
  <2>3. Framework!_keep_binding_outermost(ms) = Only(ms, first) \o Only(ms, rest)
    BY FrameworkOnly, Zenon DEF Framework!_keep_binding_outermost
  <2> HIDE DEF first, rest
  <2>4. Framework!_keep_binding_outermost(ms) \in Seq(Apps \cup Others)
    BY <2>2, <2>3
  <2>5. /\ f_user_middleware' \in Seq(Apps \cup Others) /\ f_stack' = f_user_middleware'
        /\ f_phase' = "built"
        /\ UNCHANGED f_installed /\ UNCHANGED f_reorders /\ UNCHANGED f_opened
    BY <1>4, <2>1, <2>4 DEF Framework!build_middleware_stack
  <2> QED BY <2>5 DEF InstallInv
<1>5. CASE Framework!lifespan
  <2>1. /\ UNCHANGED f_user_middleware /\ UNCHANGED f_installed /\ UNCHANGED f_reorders
        /\ UNCHANGED f_stack /\ f_phase = "built"
        /\ \/ f_phase' = "refused" /\ UNCHANGED f_opened
           \/ /\ f_phase' = "serving" /\ f_opened' = Framework!Range(f_installed)
              /\ f_installed # <<>> => Framework!_check_binding_outermost
    BY <1>5 DEF Framework!lifespan
  <2>2. f_opened' \subseteq Apps
    BY <2>1 DEF InstallInv, Framework!Range
  <2>3. Framework!_check_binding_outermost' = Framework!_check_binding_outermost
    BY <2>1 DEF Framework!_check_binding_outermost, Framework!_is_binding
  <2> QED BY <2>1, <2>2, <2>3 DEF InstallInv
<1>6. CASE Framework!__call__
  <2>1. /\ UNCHANGED f_user_middleware /\ UNCHANGED f_installed /\ UNCHANGED f_reorders
        /\ UNCHANGED f_stack /\ f_phase = "serving" /\ f_phase' = "request" /\ UNCHANGED f_opened
        /\ f_current' = [n \in DOMAIN f_stack |-> Framework!Bound(n)]
    BY <1>6 DEF Framework!__call__
  <2>2. Framework!_check_binding_outermost' = Framework!_check_binding_outermost
    BY <2>1 DEF Framework!_check_binding_outermost, Framework!_is_binding
  <2>3. [n \in DOMAIN f_stack |-> Framework!Bound(n)]' = [n \in DOMAIN f_stack |-> Framework!Bound(n)]
    BY <2>1 DEF Framework!Bound, Framework!_is_binding
  <2> QED BY <2>1, <2>2, <2>3 DEF InstallInv
<1>7. CASE Framework!answered \/ Framework!shutdown
  <2>1. Framework!_check_binding_outermost' = Framework!_check_binding_outermost
    BY <1>7 DEF Framework!_check_binding_outermost, Framework!_is_binding, Framework!answered,
                Framework!shutdown
  <2> QED BY <1>7, <2>1 DEF InstallInv, Framework!answered, Framework!shutdown
<1> QED BY <1>1, <1>2, <1>3, <1>4, <1>5, <1>6, <1>7 DEF Framework!Next

\* Whatever middlewares an application has and in whatever order it added them, a request
\* that an installed app serves meets no middleware outside a binding that is there.
THEOREM NoneOutsideTheBinding ==
  ASSUME Framework!InstallAssumption
  PROVE  Framework!Spec => []AllWithinTheBinding /\ []Framework!TypeOK
<1>1. Framework!Init => InstallInv
  <2> SUFFICES ASSUME Framework!Init PROVE InstallInv
    OBVIOUS
  <2>1. f_reorders \in BOOLEAN
    BY Zenon DEF Framework!Init
  <2>2. /\ f_user_middleware = <<>> /\ f_installed = <<>> /\ f_opened = {} /\ f_phase = "setup"
    BY DEF Framework!Init
  <2> QED BY <2>1, <2>2 DEF InstallInv, Framework!TypeOK
<1>2. InstallInv /\ [Framework!Next]_Framework!vars => InstallInv'
  BY InstallStep
<1>3. InstallInv => AllWithinTheBinding
  <2>1. SUFFICES ASSUME InstallInv, f_phase = "request", f_installed # <<>>,
                        \E n \in DOMAIN f_stack : Framework!_is_binding(f_stack[n]),
                        NEW n \in DOMAIN f_stack, ~ Framework!_is_binding(f_stack[n])
                 PROVE  f_current[n] # None
    BY DEF AllWithinTheBinding, Framework!AllWithinTheBinding
  <2>2. /\ f_stack = f_user_middleware /\ f_stack \in Seq(Apps \cup Others)
        /\ f_current[n] = Framework!Bound(n) /\ Framework!_check_binding_outermost
    BY <2>1 DEF InstallInv, Framework!TypeOK
  <2>3. 1 \in DOMAIN f_stack /\ f_stack[1] \in Apps
    BY <2>1, <2>2 DEF Framework!_check_binding_outermost, Framework!_is_binding
  <2>4. n \in Nat /\ n # 1 /\ n - 1 \in Nat /\ 1 \in 1..(n - 1)
    BY <2>1, <2>2, <2>3 DEF Framework!_is_binding
  <2> DEFINE bindings == {k \in 1..(n - 1) : Framework!_is_binding(f_stack[k])}
  <2>5. bindings # {} /\ bindings \subseteq 1..(n - 1)
    BY <2>3, <2>4 DEF Framework!_is_binding
  <2>6. \E k \in bindings : \A j \in bindings : j <= k
    BY <2>4, <2>5, GreatestBelow
  <2> DEFINE last == CHOOSE k \in bindings : \A j \in bindings : j <= k
  <2>7. last \in bindings
    BY <2>6, Zenon
  <2>8. Framework!Bound(n) = f_stack[last]
    BY <2>5, Zenon DEF Framework!Bound
  <2> HIDE DEF last
  <2>9. Framework!Bound(n) \in Apps
    BY <2>7, <2>8 DEF Framework!_is_binding
  <2> QED BY <2>2, <2>9 DEF Framework!InstallAssumption
<1>4. InstallInv => Framework!TypeOK
  BY DEF InstallInv
<1> QED BY <1>1, <1>2, <1>3, <1>4, PTL DEF Framework!Spec

-----------------------------------------------------------------------------
\* The tracked keys of a TTLCache.

\* The module's own names.
LEMMA TrackedOnly ==
  ASSUME NEW s, NEW S
  PROVE  Tracked!Only(s, S) = Only(s, S)
  BY Zenon DEF Tracked!Only, Only

LEMMA TrackedCardinality ==
  ASSUME NEW S
  PROVE  Tracked!Cardinality(S) = Cardinality(S)
  BY DEF Tracked!Cardinality, Cardinality

LEMMA TrackedToSet ==
  ASSUME NEW s
  PROVE  Tracked!ToSet(s) = {s[i] : i \in DOMAIN s}
  BY DEF Tracked!ToSet

\* The keys of a table, least recently used first.
KeySeq(s) == s \in Seq(TrackedKeys) /\ \A i, j \in 1..Len(s) : s[i] = s[j] => i = j

LEMMA KeySeqCount ==
  ASSUME NEW s, KeySeq(s)
  PROVE  /\ IsFiniteSet(Tracked!ToSet(s)) /\ Cardinality(Tracked!ToSet(s)) <= Len(s)
         /\ Cardinality(Tracked!ToSet(s)) \in Nat
<1> DEFINE S == Tracked!ToSet(s)
<1>1. s \in Seq(TrackedKeys) /\ Len(s) \in Nat /\ DOMAIN s = 1..Len(s)
  BY DEF KeySeq
<1>2. S = {s[i] : i \in 1..Len(s)}
  BY <1>1, TrackedToSet
<1>3. s \in [1..Len(s) -> S] /\ \A x \in S : \E i \in 1..Len(s) : s[i] = x
  BY <1>1, <1>2
<1>4. s \in Surjection(1..Len(s), S)
  BY <1>3 DEF Surjection
<1>5. IsFiniteSet(1..Len(s)) /\ Cardinality(1..Len(s)) = Len(s)
  <2>1. /\ IsFiniteSet(1..Len(s))
        /\ Cardinality(1..Len(s)) = IF 1 > Len(s) THEN 0 ELSE Len(s) - 1 + 1
    BY <1>1, FS_Interval, 1 \in Int, Len(s) \in Int
  <2> QED BY <1>1, <2>1
<1> HIDE DEF S
<1>6. IsFiniteSet(S) /\ Cardinality(S) <= Cardinality(1..Len(s))
  BY <1>4, <1>5, FS_Surjection
<1>7. Cardinality(S) \in Nat
  BY <1>6, FS_CardinalityType
<1> QED BY <1>5, <1>6, <1>7 DEF S

\* The first key goes.
LEMMA KeySeqTail ==
  ASSUME NEW s, KeySeq(s), s # <<>>
  PROVE  /\ KeySeq(Tail(s)) /\ Tracked!ToSet(Tail(s)) \subseteq Tracked!ToSet(s)
         /\ Head(s) \in TrackedKeys
<1>1. s \in Seq(TrackedKeys) /\ Len(s) \in Nat \ {0} /\ DOMAIN s = 1..Len(s)
  BY DEF KeySeq
<1>2. /\ Tail(s) \in Seq(TrackedKeys) /\ Len(Tail(s)) = Len(s) - 1
      /\ \A i \in 1..Len(Tail(s)) : Tail(s)[i] = s[i + 1]
      /\ DOMAIN Tail(s) = 1..Len(Tail(s)) /\ Head(s) = s[1]
  BY <1>1
<1>3. \A i \in 1..Len(Tail(s)) : i + 1 \in 1..Len(s)
  BY <1>1, <1>2
<1>4. ASSUME NEW i \in 1..Len(Tail(s)), NEW j \in 1..Len(Tail(s)), Tail(s)[i] = Tail(s)[j]
      PROVE  i = j
  <2>1. s[i + 1] = s[j + 1]
    BY <1>2, <1>4
  <2>2. i + 1 = j + 1
    BY <1>3, <2>1 DEF KeySeq
  <2> QED BY <1>1, <1>2, <2>2
<1>5. KeySeq(Tail(s))
  BY <1>2, <1>4 DEF KeySeq
<1>6. Tracked!ToSet(Tail(s)) \subseteq Tracked!ToSet(s)
  BY <1>1, <1>2, <1>3, TrackedToSet
<1> QED BY <1>1, <1>2, <1>5, <1>6

\* Some keys go.
LEMMA KeySeqOnly ==
  ASSUME NEW s, KeySeq(s), NEW S
  PROVE  /\ KeySeq(Tracked!Only(s, S)) /\ Len(Tracked!Only(s, S)) <= Len(s)
         /\ Tracked!ToSet(Tracked!Only(s, S)) \subseteq Tracked!ToSet(s) \cap S
<1> DEFINE t == Only(s, S)
<1>1. s \in Seq(TrackedKeys) /\ DOMAIN s = 1..Len(s)
  BY DEF KeySeq
<1>2. /\ t \in Seq(TrackedKeys) /\ Len(t) <= Len(s)
      /\ \A i \in 1..Len(t) : \E j \in 1..Len(s) : t[i] = s[j] /\ s[j] \in S
      /\ (\A i, j \in 1..Len(s) : s[i] = s[j] => i = j) =>
           \A i, j \in 1..Len(t) : t[i] = t[j] => i = j
  BY <1>1, OnlyKeeps
<1> HIDE DEF t
<1>3. KeySeq(t)
  BY <1>2 DEF KeySeq
<1>4. Tracked!ToSet(t) \subseteq Tracked!ToSet(s) \cap S
  BY <1>1, <1>2, TrackedToSet
<1>5. Tracked!Only(s, S) = t
  BY TrackedOnly DEF t
<1> QED BY <1>2, <1>3, <1>4, <1>5

\* A key becomes the most recent one.
LEMMA KeySeqPromote ==
  ASSUME NEW s, KeySeq(s), NEW k \in TrackedKeys
  PROVE  /\ KeySeq(Tracked!_promote(s, k)) /\ Len(Tracked!_promote(s, k)) <= Len(s) + 1
         /\ Tracked!ToSet(Tracked!_promote(s, k)) \subseteq Tracked!ToSet(s) \cup {k}
<1> DEFINE t == Tracked!Only(s, TrackedKeys \ {k})
           u == Append(t, k)
<1>1. KeySeq(t) /\ Len(t) <= Len(s) /\ Tracked!ToSet(t) \subseteq Tracked!ToSet(s) \cap (TrackedKeys \ {k})
  BY KeySeqOnly
<1>2. Tracked!_promote(s, k) = u
  BY DEF Tracked!_promote
<1> HIDE DEF t
<1>3. t \in Seq(TrackedKeys) /\ Len(t) \in Nat /\ Len(s) \in Nat /\ DOMAIN t = 1..Len(t)
  BY <1>1 DEF KeySeq
<1>4. /\ u \in Seq(TrackedKeys) /\ Len(u) = Len(t) + 1 /\ u[Len(t) + 1] = k
      /\ \A i \in 1..Len(t) : u[i] = t[i]
      /\ DOMAIN u = 1..(Len(t) + 1)
  BY <1>3
<1> HIDE DEF u
<1>5. ASSUME NEW i \in 1..Len(t) PROVE t[i] # k /\ t[i] \in Tracked!ToSet(s)
  BY <1>1, <1>3, TrackedToSet
<1>6. ASSUME NEW i \in 1..Len(u), NEW j \in 1..Len(u), u[i] = u[j] PROVE i = j
  <2>1. CASE i \in 1..Len(t) /\ j \in 1..Len(t)
    BY <1>1, <1>4, <1>6, <2>1 DEF KeySeq
  <2>2. CASE i \in 1..Len(t) /\ j = Len(t) + 1
    BY <1>4, <1>5, <1>6, <2>2
  <2>3. CASE j \in 1..Len(t) /\ i = Len(t) + 1
    BY <1>4, <1>5, <1>6, <2>3
  <2> QED BY <1>3, <1>4, <2>1, <2>2, <2>3
<1>7. Tracked!ToSet(u) \subseteq Tracked!ToSet(s) \cup {k}
  <2>1. SUFFICES ASSUME NEW i \in 1..(Len(t) + 1) PROVE u[i] \in Tracked!ToSet(s) \cup {k}
    BY <1>4, TrackedToSet
  <2>2. CASE i \in 1..Len(t)
    BY <1>4, <1>5, <2>2
  <2>3. CASE i = Len(t) + 1
    BY <1>4, <2>3
  <2> QED BY <1>3, <2>2, <2>3
<1> QED BY <1>1, <1>2, <1>3, <1>4, <1>6, <1>7 DEF KeySeq

\* What set_many has tracked after some of its keys: nothing was added, or there was room.
Tracks == [keys : Seq(TrackedKeys), left : Seq(TrackedKeys), looping : BOOLEAN]
TrackedSoFar(from, acc) ==
  /\ KeySeq(acc.keys)
  /\ \/ Tracked!ToSet(acc.keys) \subseteq Tracked!ToSet(from)
     \/ Cardinality(Tracked!ToSet(acc.keys)) <= MaxSize
  /\ acc.left # <<>> => Len(acc.keys) >= MaxSize

LEMMA TrackingStep ==
  ASSUME MaxSize \in Nat \ {0}, NEW from, NEW acc \in Tracks, NEW k \in TrackedKeys
  PROVE  /\ KeySeq(acc.keys) => Tracked!Tracking(acc, k) \in Tracks
         /\ TrackedSoFar(from, acc) => TrackedSoFar(from, Tracked!Tracking(acc, k))
<1> DEFINE next == Tracked!Tracking(acc, k)
           more == Append(acc.left, k)
           up == Tracked!_promote(acc.keys, k)
<1>1. /\ acc.keys \in Seq(TrackedKeys) /\ acc.left \in Seq(TrackedKeys)
      /\ more \in Seq(TrackedKeys) /\ <<k>> \in Seq(TrackedKeys) /\ <<>> \in Seq(TrackedKeys)
      /\ more # <<>> /\ <<k>> # <<>> /\ Len(acc.keys) \in Nat
  BY DEF Tracks
<1>2. CASE acc.left # <<>>
  <2>1. next = [acc EXCEPT !.left = more]
    BY <1>2 DEF Tracked!Tracking
  <2>2. next \in Tracks /\ next.keys = acc.keys /\ next.left = more
    <3> HIDE DEF more, next
    <3> QED BY <1>1, <2>1 DEF Tracks
  <2> HIDE DEF next, more
  <2>3. TrackedSoFar(from, acc) => TrackedSoFar(from, next)
    BY <1>2, <2>2 DEF TrackedSoFar
  <2> QED BY <2>2, <2>3 DEF next
<1>3. CASE /\ acc.left = <<>>
           /\ Len(acc.keys) < MaxSize \/ (k \in Tracked!ToSet(acc.keys) /\ ~ acc.looping)
  <2>1. next = [keys |-> up, left |-> <<>>, looping |-> FALSE]
    BY <1>3, Zenon DEF Tracked!Tracking
  <2>2. next.keys = up /\ next.left = <<>>
    <3> HIDE DEF next, up
    <3> QED BY <2>1
  <2>3. ASSUME KeySeq(acc.keys)
        PROVE  /\ KeySeq(up) /\ Len(up) <= Len(acc.keys) + 1
               /\ Tracked!ToSet(up) \subseteq Tracked!ToSet(acc.keys) \cup {k}
    BY <2>3, KeySeqPromote
  <2> HIDE DEF up
  <2>4. ASSUME KeySeq(acc.keys) PROVE next \in Tracks
    <3>1. up \in Seq(TrackedKeys)
      BY <2>3, <2>4 DEF KeySeq
    <3> HIDE DEF next
    <3> QED BY <1>1, <2>1, <3>1 DEF Tracks
  <2> HIDE DEF next
  <2>5. ASSUME TrackedSoFar(from, acc) PROVE TrackedSoFar(from, next)
    <3>1. KeySeq(acc.keys)
      BY <2>5 DEF TrackedSoFar
    <3>2. CASE Len(acc.keys) < MaxSize
      <4>1. Len(up) \in Nat /\ Len(up) <= MaxSize
        BY <1>1, <2>3, <3>1, <3>2 DEF KeySeq
      <4>2. Cardinality(Tracked!ToSet(up)) <= Len(up) /\ Cardinality(Tracked!ToSet(up)) \in Nat
        BY <2>3, <3>1, KeySeqCount
      <4>3. Cardinality(Tracked!ToSet(up)) <= MaxSize
        BY <4>1, <4>2
      <4> QED BY <2>2, <2>3, <3>1, <4>3 DEF TrackedSoFar
    <3>3. CASE k \in Tracked!ToSet(acc.keys)
      <4>1. Tracked!ToSet(up) \subseteq Tracked!ToSet(acc.keys)
        BY <2>3, <3>1, <3>3
      <4>2. CASE Tracked!ToSet(acc.keys) \subseteq Tracked!ToSet(from)
        <5>1. Tracked!ToSet(up) \subseteq Tracked!ToSet(from)
          BY <4>1, <4>2
        <5> QED BY <2>2, <2>3, <3>1, <5>1 DEF TrackedSoFar
      <4>3. CASE Cardinality(Tracked!ToSet(acc.keys)) <= MaxSize
        <5>1. IsFiniteSet(Tracked!ToSet(acc.keys)) /\ Cardinality(Tracked!ToSet(acc.keys)) \in Nat
          BY <3>1, KeySeqCount
        <5>2. Cardinality(Tracked!ToSet(up)) <= Cardinality(Tracked!ToSet(acc.keys))
          BY <4>1, <5>1, FS_Subset
        <5>3. Cardinality(Tracked!ToSet(up)) \in Nat
          BY <2>3, <3>1, KeySeqCount
        <5>4. Cardinality(Tracked!ToSet(up)) <= MaxSize
          BY <4>3, <5>1, <5>2, <5>3
        <5> QED BY <2>2, <2>3, <3>1, <5>4 DEF TrackedSoFar
      <4> QED BY <2>5, <4>2, <4>3 DEF TrackedSoFar
    <3> QED BY <1>3, <3>2, <3>3
  <2> QED BY <2>4, <2>5 DEF next
<1>4. CASE /\ acc.left = <<>> /\ ~ (Len(acc.keys) < MaxSize)
           /\ ~ (k \in Tracked!ToSet(acc.keys) /\ ~ acc.looping)
  <2>1. next = [acc EXCEPT !.left = <<k>>]
    BY <1>4, Zenon DEF Tracked!Tracking
  <2> HIDE DEF next
  <2>2. next \in Tracks /\ next.keys = acc.keys /\ next.left = <<k>>
    BY <1>1, <2>1 DEF Tracks
  <2>3. Len(acc.keys) >= MaxSize
    BY <1>1, <1>4
  <2>4. TrackedSoFar(from, acc) => TrackedSoFar(from, next)
    BY <2>2, <2>3 DEF TrackedSoFar
  <2> QED BY <2>2, <2>4 DEF next
<1> QED BY <1>2, <1>3, <1>4

LEMMA TrackIs ==
  ASSUME MaxSize \in Nat \ {0}, KeySeq(t_keys),
         NEW todo \in Seq(TrackedKeys), NEW looping \in BOOLEAN
  PROVE  /\ Tracked!Track(todo, looping) \in Tracks
         /\ TrackedSoFar(t_keys, Tracked!Track(todo, looping))
<1> DEFINE start == [keys |-> t_keys, left |-> <<>>, looping |-> looping]
           F(g) == g = [n \in 0..Len(todo) |-> IF n = 0 THEN start
                                               ELSE Tracked!Tracking(g[n - 1], todo[n])]
           g == CHOOSE g : F(g)
           A == {acc \in Tracks : KeySeq(acc.keys)}
           f == [x \in A \X TrackedKeys |-> Tracked!Tracking(x[1], x[2])]
<1>1. Tracked!Track(todo, looping) = g[Len(todo)]
  BY Zenon DEF Tracked!Track
<1>2. start \in A
  <2>1. t_keys \in Seq(TrackedKeys) /\ <<>> \in Seq(TrackedKeys)
    BY DEF KeySeq
  <2>2. start \in Tracks
    BY <2>1, Zenon DEF Tracks
  <2> QED BY <2>2
<1>3. ASSUME NEW acc \in A, NEW k \in TrackedKeys PROVE Tracked!Tracking(acc, k) \in A
  <2>1. acc \in Tracks /\ KeySeq(acc.keys)
    OBVIOUS
  <2>3. Tracked!Tracking(acc, k) \in Tracks
    BY <2>1, TrackingStep
  <2>4. KeySeq(Tracked!Tracking(acc, k).keys)
    <3>1. Tracked!Tracking(acc, k).keys \in {acc.keys, Tracked!_promote(acc.keys, k)}
      BY <2>1 DEF Tracked!Tracking, Tracks
    <3>2. KeySeq(Tracked!_promote(acc.keys, k))
      BY <2>1, KeySeqPromote
    <3> QED BY <2>1, <3>1, <3>2
  <2> QED BY <2>3, <2>4
<1>4. f \in [A \X TrackedKeys -> A]
  <2>1. ASSUME NEW x \in A \X TrackedKeys PROVE f[x] \in A
    <3>1. x[1] \in A /\ x[2] \in TrackedKeys
      OBVIOUS
    <3> HIDE DEF A
    <3> QED BY <1>3, <3>1
  <2> HIDE DEF A
  <2> QED BY <2>1
<1>5. ASSUME NEW acc \in A, NEW k \in TrackedKeys PROVE f[<<acc, k>>] = Tracked!Tracking(acc, k)
  <2> HIDE DEF A
  <2> QED OBVIOUS
<1> HIDE DEF A, f, start
<1>6. PICK h : Folded(A, todo, f, start, h)
  BY <1>2, <1>4, FoldExists
<1>7. h \in [0..Len(todo) -> A] /\ h[0] = start /\ Len(todo) \in Nat
  BY <1>6 DEF Folded
<1>8. F(h)
  <2>1. ASSUME NEW n \in 1..Len(todo) PROVE h[n] = Tracked!Tracking(h[n - 1], todo[n])
    <3>1. n - 1 \in 0..Len(todo) /\ todo[n] \in TrackedKeys
      BY <1>7
    <3>2. h[n] = f[<<h[n - 1], todo[n]>>]
      BY <1>6 DEF Folded
    <3> QED BY <1>5, <1>7, <3>1, <3>2
  <2>2. \A n \in 0..Len(todo) : n # 0 => n \in 1..Len(todo)
    BY <1>7
  <2> QED BY <1>7, <2>1, <2>2
<1>9. F(g)
  BY <1>8, Zenon
<1> HIDE DEF g
<1>10. ASSUME NEW n \in 1..Len(todo) PROVE g[n] = Tracked!Tracking(g[n - 1], todo[n])
  BY <1>7, <1>9
<1>11. g[0] = start
  BY <1>7, <1>9
<1> HIDE DEF F
<1> DEFINE P(n) == g[n] \in Tracks /\ TrackedSoFar(t_keys, g[n])
           Z == {n \in Nat : n <= Len(todo) /\ ~ P(n)}
<1>12. P(0)
  <2>1. start.keys = t_keys /\ start.left = <<>>
    BY DEF start
  <2>2. start \in Tracks
    BY <1>2 DEF A
  <2> QED BY <1>11, <2>1, <2>2 DEF TrackedSoFar
<1>13. ASSUME NEW n \in 1..Len(todo), P(n - 1) PROVE P(n)
  <2>1. todo[n] \in TrackedKeys
    BY <1>7
  <2>2. g[n - 1] \in Tracks /\ TrackedSoFar(t_keys, g[n - 1]) /\ KeySeq(g[n - 1].keys)
    BY <1>13 DEF TrackedSoFar
  <2> QED BY <1>10, <2>1, <2>2, TrackingStep
<1>14. Z = {}
  <2>1. SUFFICES ASSUME Z # {} PROVE FALSE
    OBVIOUS
  <2> HIDE DEF P
  <2>2. PICK n \in Z : \A m \in Z : n <= m
    BY <2>1, LeastNatural
  <2>3. n # 0
    BY <1>12, <2>2
  <2>4. n \in 1..Len(todo) /\ n - 1 \in Nat /\ n - 1 <= Len(todo) /\ n - 1 \notin Z
    BY <1>7, <2>2, <2>3
  <2>5. P(n)
    BY <1>13, <2>4
  <2> QED BY <2>2, <2>5
<1>15. P(Len(todo))
  <2> HIDE DEF P
  <2> QED BY <1>7, <1>14
<1> QED BY <1>1, <1>15

\* The keys that are counted and the callers that may still add one.
Counted(keys, unroomed) == Tracked!ToSet(keys) \ unroomed
Fits(R, P) == Cardinality(R) + Cardinality(P) <= MaxSize + Cardinality(Callers) - 1

\* The request a caller waits for.
CallFields == {"op", "keys", "then", "done"}
TrackedCall(r) ==
  /\ r = Tracked!NoCall \/ DOMAIN r = CallFields
  /\ r # Tracked!NoCall => r.keys \subseteq TrackedKeys
  /\ r.op \in {"value", "reserve", "read"} => \E k \in TrackedKeys : r.keys = {k}
  /\ r.op = "evict" => r.then \in TrackedKeys
  /\ r.op = "evict_many" => r.then.left \in Seq(TrackedKeys) /\ r.then.keys \subseteq TrackedKeys

\* The sizes, the callers for which there was room among those that write a value, and what
\* they may add on top of what is there.
TrackInv ==
  /\ KeySeq(t_keys)
  /\ t_value \subseteq TrackedKeys /\ t_reserve \subseteq TrackedKeys
  /\ t_calls \in 0..MaxTracked /\ t_promised \subseteq Callers /\ t_unroomed \subseteq TrackedKeys
  /\ DOMAIN t_call = Callers /\ \A c \in Callers : TrackedCall(t_call[c])
  /\ \A c \in t_promised : t_call[c].op \in {"value", "reserve"}
  /\ Fits(Counted(t_keys, t_unroomed), t_promised)

LEMMA CountedFinite ==
  ASSUME NEW s, KeySeq(s), NEW u
  PROVE  IsFiniteSet(Counted(s, u)) /\ Cardinality(Counted(s, u)) \in Nat
         /\ Cardinality(Counted(s, u)) <= Len(s)
<1>1. /\ IsFiniteSet(Tracked!ToSet(s)) /\ Cardinality(Tracked!ToSet(s)) <= Len(s)
      /\ Cardinality(Tracked!ToSet(s)) \in Nat
  BY KeySeqCount
<1>2. Counted(s, u) \subseteq Tracked!ToSet(s)
  BY DEF Counted
<1>3. IsFiniteSet(Counted(s, u)) /\ Cardinality(Counted(s, u)) <= Cardinality(Tracked!ToSet(s))
  BY <1>1, <1>2, FS_Subset
<1>4. Cardinality(Counted(s, u)) \in Nat
  BY <1>3, FS_CardinalityType
<1>5. Len(s) \in Nat
  BY DEF KeySeq
<1> QED BY <1>1, <1>3, <1>4, <1>5

\* Nothing is added.
LEMMA FitsLess ==
  ASSUME Tracked!TTLCacheAssumption, NEW R, NEW P \in SUBSET Callers, NEW Q \in SUBSET R,
         NEW O \in SUBSET P, IsFiniteSet(R), Fits(R, P)
  PROVE  Fits(Q, O)
<1>1. IsFiniteSet(Callers) /\ MaxSize \in Nat \ {0}
  BY DEF Tracked!TTLCacheAssumption, Tracked!IsFiniteSet, IsFiniteSet
<1>2. IsFiniteSet(P) /\ IsFiniteSet(O) /\ IsFiniteSet(Q)
  BY <1>1, FS_Subset
<1>3. Cardinality(Q) <= Cardinality(R) /\ Cardinality(O) <= Cardinality(P)
  BY <1>2, FS_Subset
<1>4. /\ Cardinality(P) \in Nat /\ Cardinality(O) \in Nat /\ Cardinality(Callers) \in Nat
      /\ Cardinality(R) \in Nat /\ Cardinality(Q) \in Nat
  BY <1>1, <1>2, FS_CardinalityType
<1> QED BY <1>1, <1>3, <1>4 DEF Fits

\* One is added that was promised; or there was room, for the last of all callers or, when
\* this one does not add later, for one more.
LEMMA StillFits ==
  ASSUME Tracked!TTLCacheAssumption, NEW R, NEW P, NEW Q, NEW O, IsFiniteSet(R), P \subseteq Callers,
         O \subseteq Callers, IsFiniteSet(Q), NEW c \in Callers, NEW k
  PROVE  /\ Fits(R, P) /\ Q \subseteq R \cup {k} /\ c \in P /\ O = P \ {c} => Fits(Q, O)
         /\ Cardinality(Q) < MaxSize => Fits(Q, O)
         /\ Cardinality(Q) <= MaxSize /\ c \notin O => Fits(Q, O)
<1>1. IsFiniteSet(Callers) /\ MaxSize \in Nat \ {0}
  BY DEF Tracked!TTLCacheAssumption, Tracked!IsFiniteSet, IsFiniteSet
<1>2. /\ IsFiniteSet(P) /\ IsFiniteSet(O)
      /\ Cardinality(P) \in Nat /\ Cardinality(O) \in Nat /\ Cardinality(Callers) \in Nat
      /\ Cardinality(O) <= Cardinality(Callers)
  BY <1>1, FS_Subset, FS_CardinalityType
<1>3. Cardinality(R) \in Nat /\ Cardinality(Q) \in Nat
  BY FS_CardinalityType
<1>4. ASSUME Q \subseteq R \cup {k}, c \in P, O = P \ {c}
      PROVE  Cardinality(Q) <= Cardinality(R) + 1 /\ Cardinality(O) = Cardinality(P) - 1
  <2>1. /\ IsFiniteSet(R \cup {k})
        /\ Cardinality(R \cup {k}) = IF k \in R THEN Cardinality(R) ELSE Cardinality(R) + 1
    BY FS_AddElement
  <2>2. Cardinality(Q) <= Cardinality(R \cup {k})
    BY <1>4, <2>1, FS_Subset
  <2>3. Cardinality(O) = IF c \in P THEN Cardinality(P) - 1 ELSE Cardinality(P)
    BY <1>2, <1>4, FS_RemoveElement
  <2> QED BY <1>3, <1>4, <2>1, <2>2, <2>3
<1>5. ASSUME c \notin O PROVE Cardinality(O) <= Cardinality(Callers) - 1
  <2>1. /\ IsFiniteSet(Callers \ {c})
        /\ Cardinality(Callers \ {c}) = IF c \in Callers THEN Cardinality(Callers) - 1 ELSE Cardinality(Callers)
    BY <1>1, FS_RemoveElement
  <2>2. O \subseteq Callers \ {c}
    BY <1>5
  <2>3. Cardinality(O) <= Cardinality(Callers \ {c})
    BY <2>1, <2>2, FS_Subset
  <2> QED BY <2>1, <2>3
<1> QED BY <1>1, <1>2, <1>3, <1>4, <1>5 DEF Fits

\* One caller's request changes.
LEMMA OneCallMoves ==
  ASSUME TrackInv, NEW c \in Callers, NEW r, TrackedCall(r), t_call' = [t_call EXCEPT ![c] = r]
  PROVE  /\ DOMAIN t_call' = Callers /\ \A d \in Callers : TrackedCall(t_call'[d])
         /\ t_call'[c] = r /\ \A d \in Callers \ {c} : t_call'[d] = t_call[d]
<1>1. DOMAIN t_call = Callers /\ \A d \in Callers : TrackedCall(t_call[d])
  BY DEF TrackInv
<1>2. DOMAIN t_call' = Callers /\ t_call'[c] = r /\ \A d \in Callers \ {c} : t_call'[d] = t_call[d]
  BY <1>1
<1> QED BY <1>1, <1>2

\* The promises of the others stand, and what this caller asks for keeps its own.
LEMMA PromisesStand ==
  ASSUME TrackInv, NEW c \in Callers, NEW r, TrackedCall(r), t_call' = [t_call EXCEPT ![c] = r],
         t_promised' \subseteq t_promised \cup {c}, c \in t_promised' => r.op \in {"value", "reserve"}
  PROVE  \A d \in t_promised' : t_call'[d].op \in {"value", "reserve"}
  BY OneCallMoves DEF TrackInv

LEMMA Requested ==
  ASSUME NEW c \in Callers, NEW op, NEW ks \in SUBSET TrackedKeys, NEW next,
         op \in {"value", "reserve", "read"} => \E k \in TrackedKeys : ks = {k},
         op = "evict" => next \in TrackedKeys,
         op = "evict_many" => next.left \in Seq(TrackedKeys) /\ next.keys \subseteq TrackedKeys
  PROVE  LET r == [op |-> op, keys |-> ks, then |-> next, done |-> FALSE]
         IN  TrackedCall(r) /\ r.op = op
<1> DEFINE r == [op |-> op, keys |-> ks, then |-> next, done |-> FALSE]
<1>1. r.op = op /\ r.keys = ks /\ r.then = next /\ DOMAIN r = CallFields
  BY DEF CallFields
<1> HIDE DEF r
<1>2. TrackedCall(r)
  BY <1>1 DEF TrackedCall
<1> QED BY <1>1, <1>2 DEF r

LEMMA TrackPromotes ==
  ASSUME Tracked!TTLCacheAssumption, TrackInv, NEW c \in Callers,
         \E k \in TrackedKeys : t_call[c].keys = {k}, Tracked!Promote(c),
         UNCHANGED t_value, UNCHANGED t_reserve, UNCHANGED t_calls
  PROVE  TrackInv'
<1>1. PICK k \in TrackedKeys : t_call[c].keys = {k}
  OBVIOUS
<1>2. (CHOOSE j \in {k} : TRUE) = k
  OBVIOUS
<1>3. /\ t_keys' = Tracked!_promote(t_keys, k)
      /\ t_unroomed' = (t_unroomed \cap Tracked!ToSet(t_keys))
                         \cup (IF c \in t_promised THEN {} ELSE {k} \ Tracked!ToSet(t_keys))
      /\ t_promised' = t_promised \ {c} /\ t_call' = [t_call EXCEPT ![c] = Tracked!NoCall]
  BY <1>1, <1>2 DEF Tracked!Promote, Tracked!Done, Tracked!Tracked
<1>4. KeySeq(t_keys) /\ t_unroomed \subseteq TrackedKeys /\ t_promised \subseteq Callers
  BY DEF TrackInv
<1>5. KeySeq(t_keys') /\ Tracked!ToSet(t_keys') \subseteq Tracked!ToSet(t_keys) \cup {k}
  BY <1>3, <1>4, KeySeqPromote
<1> DEFINE R == Counted(t_keys, t_unroomed)
           Q == Counted(t_keys', t_unroomed')
<1>6. IsFiniteSet(R) /\ IsFiniteSet(Q)
  BY <1>4, <1>5, CountedFinite
<1>7. Q \subseteq R \cup (IF c \in t_promised THEN {k} ELSE {})
  BY <1>3, <1>5 DEF Counted
<1> HIDE DEF R, Q
<1>8. Fits(R, t_promised)
  BY DEF TrackInv, R
<1>9. Fits(Q, t_promised')
  <2>1. t_promised' \subseteq Callers /\ t_promised' \subseteq t_promised
    BY <1>3, <1>4
  <2>2. CASE c \in t_promised
    BY <1>3, <1>4, <1>6, <1>7, <1>8, <2>1, <2>2, StillFits
  <2>3. CASE c \notin t_promised
    BY <1>4, <1>6, <1>7, <1>8, <2>1, <2>3, FitsLess
  <2> QED BY <2>2, <2>3
<1>10. TrackedCall(Tracked!NoCall)
  BY DEF TrackedCall, Tracked!NoCall
<1>11. /\ DOMAIN t_call' = Callers /\ \A d \in Callers : TrackedCall(t_call'[d])
       /\ \A d \in t_promised' : t_call'[d].op \in {"value", "reserve"}
  BY <1>3, <1>10, OneCallMoves, PromisesStand
<1>12. t_promised' \subseteq Callers /\ t_unroomed' \subseteq TrackedKeys
  BY <1>3, <1>4
<1> QED BY <1>5, <1>9, <1>11, <1>12 DEF TrackInv, Q

LEMMA TrackMakesRoom ==
  ASSUME Tracked!TTLCacheAssumption, TrackInv, NEW c \in Callers, c \notin t_promised,
         NEW k \in TrackedKeys, Tracked!MakeRoom(c, k), t_calls' \in 0..MaxTracked,
         t_unroomed' \in {t_unroomed, t_unroomed \cap Tracked!ToSet(t_keys)},
         UNCHANGED t_value, UNCHANGED t_reserve
  PROVE  TrackInv'
<1>1. /\ KeySeq(t_keys) /\ t_unroomed \subseteq TrackedKeys /\ t_promised \subseteq Callers
      /\ MaxSize \in Nat \ {0} /\ Len(t_keys) \in Nat
  BY DEF TrackInv, KeySeq, Tracked!TTLCacheAssumption
<1>2. t_unroomed' \subseteq TrackedKeys
  BY <1>1
<1> DEFINE R == Counted(t_keys, t_unroomed)
           Q == Counted(t_keys', t_unroomed')
<1>3. Fits(R, t_promised) /\ IsFiniteSet(R)
  BY <1>1, CountedFinite DEF TrackInv
<1>4. CASE Len(t_keys) >= MaxSize
  <2> DEFINE r == [op |-> "evict", keys |-> {Head(t_keys)}, then |-> k, done |-> FALSE]
  <2>1. t_keys' = Tail(t_keys) /\ t_call' = [t_call EXCEPT ![c] = r] /\ UNCHANGED t_promised
    BY <1>4 DEF Tracked!MakeRoom, Tracked!Request
  <2>2. /\ KeySeq(t_keys') /\ Tracked!ToSet(t_keys') \subseteq Tracked!ToSet(t_keys)
        /\ Head(t_keys) \in TrackedKeys
    BY <1>1, <1>4, <2>1, KeySeqTail, t_keys # <<>>
  <2>3. TrackedCall(r)
    BY <2>2, Requested
  <2> HIDE DEF r
  <2>4. /\ DOMAIN t_call' = Callers /\ \A d \in Callers : TrackedCall(t_call'[d])
        /\ \A d \in t_promised' : t_call'[d].op \in {"value", "reserve"}
    BY <2>1, <2>3, OneCallMoves, PromisesStand
  <2>5. IsFiniteSet(Q)
    BY <2>2, CountedFinite
  <2>6. Q \subseteq R
    BY <2>2 DEF Counted
  <2> HIDE DEF R, Q
  <2>7. Fits(Q, t_promised')
    <3>1. t_promised' \subseteq Callers /\ t_promised' \subseteq t_promised
      BY <1>1, <2>1
    <3> QED BY <1>1, <1>3, <2>6, <3>1, FitsLess
  <2> QED BY <1>1, <1>2, <2>1, <2>2, <2>4, <2>7 DEF TrackInv, Q
<1>5. CASE ~ (Len(t_keys) >= MaxSize)
  <2> DEFINE r == [op |-> "value", keys |-> {k}, then |-> "end", done |-> FALSE]
  <2>1. /\ t_keys' = t_keys /\ t_call' = [t_call EXCEPT ![c] = r]
        /\ t_promised' = t_promised \cup {c}
    BY <1>5 DEF Tracked!MakeRoom, Tracked!Proceed, Tracked!Request
  <2>2. TrackedCall(r) /\ r.op = "value"
    BY Requested
  <2> HIDE DEF r
  <2>3. /\ DOMAIN t_call' = Callers /\ \A d \in Callers : TrackedCall(t_call'[d])
        /\ \A d \in t_promised' : t_call'[d].op \in {"value", "reserve"}
    BY <2>1, <2>2, OneCallMoves, PromisesStand
  <2>4. IsFiniteSet(Q) /\ Cardinality(Q) \in Nat /\ Cardinality(Q) <= Len(t_keys)
    BY <1>1, <2>1, CountedFinite
  <2>5. t_promised' \subseteq Callers
    BY <1>1, <2>1
  <2> HIDE DEF R, Q
  <2>6. Cardinality(Q) < MaxSize
    BY <1>1, <1>5, <2>4
  <2>7. Fits(Q, t_promised')
    BY <1>1, <1>3, <2>4, <2>5, <2>6, StillFits
  <2> QED BY <1>1, <1>2, <2>1, <2>3, <2>5, <2>7 DEF TrackInv, Q
<1> QED BY <1>4, <1>5

LEMMA TrackGoesOn ==
  ASSUME Tracked!TTLCacheAssumption, TrackInv, NEW c \in Callers, c \notin t_promised,
         NEW todo \in Seq(TrackedKeys), NEW looping \in BOOLEAN, NEW ks \in SUBSET TrackedKeys,
         Tracked!TrackOn(c, todo, looping, ks), t_calls' \in 0..MaxTracked,
         t_unroomed' = t_unroomed \cap Tracked!ToSet(t_keys),
         UNCHANGED t_value, UNCHANGED t_reserve, UNCHANGED t_promised
  PROVE  TrackInv'
<1>1. /\ KeySeq(t_keys) /\ t_unroomed \subseteq TrackedKeys /\ t_promised \subseteq Callers
      /\ MaxSize \in Nat \ {0} /\ Len(t_keys) \in Nat
  BY DEF TrackInv, KeySeq, Tracked!TTLCacheAssumption
<1> DEFINE a == Tracked!Track(todo, looping)
           Q == Counted(t_keys', t_unroomed')
           R == Counted(t_keys, t_unroomed)
<1>2. a \in Tracks /\ TrackedSoFar(t_keys, a)
  BY <1>1, TrackIs
<1>3. /\ a.left = <<>> => /\ t_keys' = a.keys
                         /\ t_call' = [t_call EXCEPT ![c] = [op |-> "values", keys |-> ks,
                                                             then |-> "end", done |-> FALSE]]
      /\ a.left # <<>> => /\ t_keys' = Tail(a.keys)
                         /\ t_call' = [t_call EXCEPT ![c] = [op |-> "evict_many",
                              keys |-> {Head(a.keys)}, then |-> [left |-> a.left, keys |-> ks],
                              done |-> FALSE]]
  BY DEF Tracked!TrackOn, Tracked!Request
<1> HIDE DEF a
<1>4. /\ KeySeq(a.keys) /\ a.left \in Seq(TrackedKeys) /\ Len(a.keys) \in Nat
      /\ \/ Tracked!ToSet(a.keys) \subseteq Tracked!ToSet(t_keys)
         \/ Cardinality(Tracked!ToSet(a.keys)) <= MaxSize
      /\ a.left # <<>> => a.keys # <<>>
  <2>1. KeySeq(a.keys) /\ a.left \in Seq(TrackedKeys) /\ a.keys \in Seq(TrackedKeys)
    BY <1>2 DEF TrackedSoFar, Tracks
  <2>2. a.left # <<>> => Len(a.keys) # 0
    BY <1>1, <1>2, <2>1 DEF TrackedSoFar
  <2> QED BY <1>2, <2>1, <2>2 DEF TrackedSoFar
<1>5. /\ KeySeq(t_keys') /\ Tracked!ToSet(t_keys') \subseteq Tracked!ToSet(a.keys)
      /\ a.left # <<>> => Head(a.keys) \in TrackedKeys
  BY <1>3, <1>4, KeySeqTail
<1>6. \E r : TrackedCall(r) /\ r.op \notin {"value", "reserve"} /\ t_call' = [t_call EXCEPT ![c] = r]
  <2>1. CASE a.left = <<>>
    <3> DEFINE r == [op |-> "values", keys |-> ks, then |-> "end", done |-> FALSE]
    <3>1. TrackedCall(r) /\ r.op = "values"
      BY Requested
    <3> HIDE DEF r
    <3> QED BY <1>3, <2>1, <3>1 DEF r
  <2>2. CASE a.left # <<>>
    <3> DEFINE next == [left |-> a.left, keys |-> ks]
               r == [op |-> "evict_many", keys |-> {Head(a.keys)}, then |-> next, done |-> FALSE]
    <3>1. next.left \in Seq(TrackedKeys) /\ next.keys \subseteq TrackedKeys
      BY <1>4
    <3>2. t_call' = [t_call EXCEPT ![c] = r]
      BY <1>3, <2>2
    <3> HIDE DEF next
    <3>3. TrackedCall(r) /\ r.op = "evict_many"
      BY <1>5, <2>2, <3>1, Requested
    <3> HIDE DEF r
    <3> QED BY <3>2, <3>3
  <2> QED BY <2>1, <2>2
<1>7. PICK r : TrackedCall(r) /\ r.op \notin {"value", "reserve"} /\ t_call' = [t_call EXCEPT ![c] = r]
  BY <1>6
<1>8. /\ DOMAIN t_call' = Callers /\ \A d \in Callers : TrackedCall(t_call'[d])
      /\ \A d \in t_promised' : t_call'[d].op \in {"value", "reserve"}
  BY <1>7, OneCallMoves, PromisesStand
<1>9. Fits(R, t_promised) /\ IsFiniteSet(R) /\ IsFiniteSet(Q) /\ Cardinality(Q) \in Nat
  BY <1>1, <1>5, CountedFinite DEF TrackInv
<1>10. Fits(Q, t_promised')
  <2>1. CASE Tracked!ToSet(a.keys) \subseteq Tracked!ToSet(t_keys)
    <3>1. Q \subseteq R
      BY <1>5, <2>1 DEF Counted
    <3> HIDE DEF Q, R
    <3>2. t_promised' \subseteq Callers /\ t_promised' \subseteq t_promised
      BY <1>1
    <3> QED BY <1>1, <1>9, <3>1, <3>2, FitsLess
  <2>2. CASE Cardinality(Tracked!ToSet(a.keys)) <= MaxSize
    <3>1. IsFiniteSet(Tracked!ToSet(a.keys)) /\ Cardinality(Tracked!ToSet(a.keys)) \in Nat
      BY <1>4, KeySeqCount
    <3>2. Q \subseteq Tracked!ToSet(a.keys)
      BY <1>5 DEF Counted
    <3>3. Cardinality(Q) <= Cardinality(Tracked!ToSet(a.keys))
      BY <3>1, <3>2, FS_Subset
    <3> HIDE DEF Q, R
    <3>4. Cardinality(Q) <= MaxSize
      BY <1>1, <1>9, <2>2, <3>1, <3>3
    <3> QED BY <1>1, <1>9, <3>4, StillFits
  <2> QED BY <1>4, <2>1, <2>2
<1>11. t_unroomed' \subseteq TrackedKeys
  BY <1>1
<1> QED BY <1>1, <1>5, <1>8, <1>10, <1>11 DEF TrackInv

\* A request is sent, or answered, and the table is left alone or loses keys.
LEMMA TrackWaits ==
  ASSUME Tracked!TTLCacheAssumption, TrackInv, NEW c \in Callers, NEW r, TrackedCall(r),
         t_call' = [t_call EXCEPT ![c] = r], c \in t_promised => r.op \in {"value", "reserve"},
         KeySeq(t_keys'), Tracked!ToSet(t_keys') \subseteq Tracked!ToSet(t_keys),
         t_value' \subseteq TrackedKeys, t_reserve' \subseteq TrackedKeys, t_calls' \in 0..MaxTracked,
         UNCHANGED t_promised, UNCHANGED t_unroomed
  PROVE  TrackInv'
<1>1. /\ KeySeq(t_keys) /\ t_unroomed \subseteq TrackedKeys /\ t_promised \subseteq Callers
      /\ Fits(Counted(t_keys, t_unroomed), t_promised)
  BY DEF TrackInv
<1> DEFINE R == Counted(t_keys, t_unroomed)
           Q == Counted(t_keys', t_unroomed')
<1>2. IsFiniteSet(R)
  BY <1>1, CountedFinite
<1>3. Q \subseteq R
  BY DEF Counted
<1>4. t_promised' \subseteq Callers /\ t_promised' \subseteq t_promised
  BY <1>1
<1>5. Fits(Q, t_promised')
  <2>1. Fits(R, t_promised)
    BY <1>1
  <2> HIDE DEF R, Q
  <2> QED BY <1>1, <1>2, <1>3, <1>4, <2>1, FitsLess
<1>6. /\ DOMAIN t_call' = Callers /\ \A d \in Callers : TrackedCall(t_call'[d])
      /\ \A d \in t_promised' : t_call'[d].op \in {"value", "reserve"}
  BY OneCallMoves, PromisesStand
<1> QED BY <1>1, <1>5, <1>6 DEF TrackInv

LEMMA TrackBegins ==
  ASSUME Tracked!TTLCacheAssumption, TrackInv, NEW c \in Callers, Tracked!Begin(c)
  PROVE  t_calls' \in 0..MaxTracked /\ c \notin t_promised /\ KeySeq(t_keys)
         /\ t_value \subseteq TrackedKeys /\ t_reserve \subseteq TrackedKeys
<1>1. t_call[c] = Tracked!NoCall /\ t_calls < MaxTracked /\ t_calls' = t_calls + 1
  BY DEF Tracked!Begin
<1>2. t_calls' \in 0..MaxTracked
  BY <1>1 DEF TrackInv, Tracked!TTLCacheAssumption
<1>3. t_call[c].op = "none"
  BY <1>1 DEF Tracked!NoCall
<1> QED BY <1>2, <1>3 DEF TrackInv

\* A set of keys as a sequence.
LEMMA KeysInOrder ==
  ASSUME Tracked!TTLCacheAssumption, NEW ks \in SUBSET TrackedKeys
  PROVE  Tracked!SetToSeq(ks) \in Seq(TrackedKeys)
<1>1. IsFiniteSet(ks)
  <2>1. IsFiniteSet(TrackedKeys)
    BY DEF Tracked!TTLCacheAssumption, Tracked!IsFiniteSet, IsFiniteSet
  <2> QED BY <2>1, FS_Subset
<1>2. Cardinality(ks) \in Nat /\ ExistsBijection(1..Cardinality(ks), ks)
  BY <1>1, FS_CardinalityType
<1>3. PICK b \in [1..Cardinality(ks) -> ks] : \A i, j \in DOMAIN b : b[i] = b[j] => i = j
  BY <1>2 DEF ExistsBijection, Bijection, Injection, IsInjective
<1>4. \E f \in [1..Cardinality(ks) -> ks] : Tracked!IsInjective(f)
  BY <1>3 DEF Tracked!IsInjective
<1>5. Tracked!SetToSeq(ks) = CHOOSE f \in [1..Cardinality(ks) -> ks] : Tracked!IsInjective(f)
  BY TrackedCardinality DEF Tracked!SetToSeq
<1>6. Tracked!SetToSeq(ks) \in [1..Cardinality(ks) -> ks]
  BY <1>4, <1>5, Zenon
<1> QED BY <1>2, <1>6

LEMMA TrackDeletes ==
  ASSUME Tracked!TTLCacheAssumption, TrackInv, NEW c \in Callers, NEW ks \in SUBSET TrackedKeys,
         Tracked!delete(c, ks) \/ Tracked!delete_tags(c, ks) \/ Tracked!clear(c)
  PROVE  TrackInv'
<1>1. Tracked!Begin(c)
  BY DEF Tracked!delete, Tracked!delete_tags, Tracked!clear
<1>2. /\ t_calls' \in 0..MaxTracked /\ c \notin t_promised /\ KeySeq(t_keys)
      /\ t_value \subseteq TrackedKeys /\ t_reserve \subseteq TrackedKeys
  BY <1>1, TrackBegins
<1>3. PICK op \in {"delete", "tags"}, js \in SUBSET TrackedKeys :
         /\ Tracked!Request(c, op, js, "end")
         /\ UNCHANGED t_keys /\ UNCHANGED t_value
         /\ UNCHANGED t_reserve /\ UNCHANGED t_promised /\ UNCHANGED t_unroomed
  BY DEF Tracked!delete, Tracked!delete_tags, Tracked!clear, Tracked!store, Tracked!history
<1> DEFINE r == [op |-> op, keys |-> js, then |-> "end", done |-> FALSE]
<1>4. t_call' = [t_call EXCEPT ![c] = r]
  BY <1>3 DEF Tracked!Request
<1>5. TrackedCall(r)
  BY Requested
<1> HIDE DEF r
<1> QED BY <1>2, <1>3, <1>4, <1>5, TrackWaits

LEMMA TrackRequests ==
  ASSUME Tracked!TTLCacheAssumption, TrackInv, NEW c \in Callers, NEW k \in TrackedKeys,
         NEW ks \in SUBSET TrackedKeys,
         \/ Tracked!set(c, k) \/ Tracked!get(c, k) \/ Tracked!set_many(c, ks)
         \/ Tracked!delete(c, ks) \/ Tracked!delete_tags(c, ks)
  PROVE  TrackInv'
<1>1. Tracked!Begin(c)
  BY DEF Tracked!set, Tracked!get, Tracked!set_many, Tracked!delete, Tracked!delete_tags
<1>2. /\ t_calls' \in 0..MaxTracked /\ c \notin t_promised /\ KeySeq(t_keys)
      /\ t_value \subseteq TrackedKeys /\ t_reserve \subseteq TrackedKeys
  BY <1>1, TrackBegins
<1>3. CASE Tracked!set(c, k)
  <2>1. UNCHANGED t_value /\ UNCHANGED t_reserve /\ UNCHANGED t_unroomed
    BY <1>3 DEF Tracked!set, Tracked!store
  <2>2. CASE Tracked!MakeRoom(c, k)
    BY <1>2, <2>1, <2>2, TrackMakesRoom
  <2>3. CASE Tracked!Request(c, "value", {k}, "end") /\ UNCHANGED t_keys /\ UNCHANGED t_promised
    <3> DEFINE r == [op |-> "value", keys |-> {k}, then |-> "end", done |-> FALSE]
    <3>1. TrackedCall(r)
      BY Requested
    <3>2. t_call' = [t_call EXCEPT ![c] = r]
      BY <2>3 DEF Tracked!Request
    <3> HIDE DEF r
    <3> QED BY <1>2, <2>1, <2>3, <3>1, <3>2, TrackWaits
  <2> QED BY <1>3, <2>2, <2>3 DEF Tracked!set
<1>4. CASE Tracked!set_many(c, ks)
  <2>1. Tracked!SetToSeq(ks) \in Seq(TrackedKeys)
    BY KeysInOrder
  <2>2. /\ Tracked!TrackOn(c, Tracked!SetToSeq(ks), FALSE, ks)
        /\ t_unroomed' = t_unroomed \cap Tracked!ToSet(t_keys)
        /\ UNCHANGED t_value /\ UNCHANGED t_reserve /\ UNCHANGED t_promised
    BY <1>4 DEF Tracked!set_many, Tracked!store, Tracked!Tracked
  <2>3. FALSE \in BOOLEAN
    OBVIOUS
  <2> QED BY <1>2, <2>1, <2>2, <2>3, TrackGoesOn
<1>5. CASE Tracked!get(c, k)
  <2> DEFINE r == [op |-> "read", keys |-> {k}, then |-> "end", done |-> FALSE]
  <2>1. TrackedCall(r)
    BY Requested
  <2>2. /\ t_call' = [t_call EXCEPT ![c] = r] /\ UNCHANGED t_keys /\ UNCHANGED t_value
        /\ UNCHANGED t_reserve /\ UNCHANGED t_promised /\ UNCHANGED t_unroomed
    BY <1>5 DEF Tracked!get, Tracked!Request, Tracked!store, Tracked!history
  <2> HIDE DEF r
  <2> QED BY <1>2, <2>1, <2>2, TrackWaits
<1>6. CASE Tracked!delete(c, ks) \/ Tracked!delete_tags(c, ks)
  BY <1>6, TrackDeletes
<1> QED BY <1>3, <1>4, <1>5, <1>6

LEMMA TrackPerforms ==
  ASSUME Tracked!TTLCacheAssumption, TrackInv, NEW c \in Callers, Tracked!Perform(c)
  PROVE  TrackInv'
<1> DEFINE q == t_call[c]
           then == IF q.op = "read" THEN q.keys \subseteq t_value ELSE q.then
           r == [q EXCEPT !.done = TRUE, !.then = then]
<1>1. /\ TrackedCall(q) /\ DOMAIN t_call = Callers /\ KeySeq(t_keys) /\ t_calls \in 0..MaxTracked
      /\ t_value \subseteq TrackedKeys /\ t_reserve \subseteq TrackedKeys
      /\ c \in t_promised => q.op \in {"value", "reserve"}
  BY DEF TrackInv
<1>2. /\ q # Tracked!NoCall /\ t_call' = [t_call EXCEPT ![c] = r]
      /\ UNCHANGED t_keys /\ UNCHANGED t_calls /\ UNCHANGED t_promised /\ UNCHANGED t_unroomed
  BY <1>1 DEF Tracked!Perform, Tracked!history
<1>3. t_value' \subseteq t_value \cup q.keys /\ t_reserve' \subseteq t_reserve \cup q.keys
  BY DEF Tracked!Perform
<1> HIDE DEF q, then
<1>4. DOMAIN q = CallFields /\ q.keys \subseteq TrackedKeys
  BY <1>1, <1>2 DEF TrackedCall
<1>5. /\ r.op = q.op /\ r.keys = q.keys /\ DOMAIN r = CallFields /\ r.then = then
  BY <1>4 DEF CallFields
<1>6. q.op # "read" => then = q.then
  BY DEF then
<1> HIDE DEF r
<1>7. TrackedCall(r)
  BY <1>1, <1>2, <1>4, <1>5, <1>6 DEF TrackedCall
<1>8. t_value' \subseteq TrackedKeys /\ t_reserve' \subseteq TrackedKeys
  BY <1>1, <1>3, <1>4
<1> QED BY <1>1, <1>2, <1>5, <1>7, <1>8, TrackWaits

LEMMA TrackResumes ==
  ASSUME Tracked!TTLCacheAssumption, TrackInv, NEW c \in Callers,
         \/ Tracked!_evict(c) \/ Tracked!value_set(c) \/ Tracked!reserve_set(c) \/ Tracked!values_set(c)
         \/ Tracked!get_answered(c) \/ Tracked!deleted(c) \/ Tracked!tags_deleted(c)
  PROVE  TrackInv'
<1>1. /\ TrackedCall(t_call[c]) /\ KeySeq(t_keys) /\ t_calls \in 0..MaxTracked
      /\ t_value \subseteq TrackedKeys /\ t_reserve \subseteq TrackedKeys
      /\ c \in t_promised => t_call[c].op \in {"value", "reserve"}
  BY DEF TrackInv
<1>2. /\ UNCHANGED t_value /\ UNCHANGED t_reserve /\ UNCHANGED t_calls
  BY DEF Tracked!_evict, Tracked!value_set, Tracked!reserve_set, Tracked!values_set,
         Tracked!get_answered, Tracked!deleted, Tracked!tags_deleted, Tracked!store
<1>3. TrackedCall(Tracked!NoCall)
  BY DEF TrackedCall, Tracked!NoCall
<1>4. ASSUME Tracked!Done(c), KeySeq(t_keys'), Tracked!ToSet(t_keys') \subseteq Tracked!ToSet(t_keys),
             c \notin t_promised, UNCHANGED t_promised, UNCHANGED t_unroomed
      PROVE  TrackInv'
  <2>1. t_call' = [t_call EXCEPT ![c] = Tracked!NoCall]
    BY <1>4 DEF Tracked!Done
  <2> QED BY <1>1, <1>2, <1>3, <1>4, <2>1, TrackWaits
<1>5. CASE Tracked!_evict(c)
  <2>1. t_unroomed' = t_unroomed \cap Tracked!ToSet(t_keys)
    BY <1>5 DEF Tracked!_evict, Tracked!Tracked
  <2>2. CASE Tracked!Resumes(c, "evict") /\ Tracked!MakeRoom(c, t_call[c].then)
    <3>1. t_call[c].op = "evict"
      BY <2>2 DEF Tracked!Resumes
    <3>2. t_call[c].then \in TrackedKeys /\ c \notin t_promised
      BY <1>1, <3>1 DEF TrackedCall
    <3> QED BY <1>1, <1>2, <2>1, <2>2, <3>2, TrackMakesRoom
  <2>3. CASE /\ Tracked!Resumes(c, "evict_many")
             /\ Tracked!TrackOn(c, t_call[c].then.left, TRUE, t_call[c].then.keys)
             /\ UNCHANGED t_promised
    <3>1. t_call[c].op = "evict_many"
      BY <2>3 DEF Tracked!Resumes
    <3>2. /\ t_call[c].then.left \in Seq(TrackedKeys) /\ t_call[c].then.keys \in SUBSET TrackedKeys
          /\ c \notin t_promised
      BY <1>1, <3>1 DEF TrackedCall
    <3>3. TRUE \in BOOLEAN
      OBVIOUS
    <3> QED BY <1>1, <1>2, <2>1, <2>3, <3>2, <3>3, TrackGoesOn
  <2> QED BY <1>5, <2>2, <2>3 DEF Tracked!_evict
<1>6. ASSUME t_call[c].op \in {"value", "reserve", "read"}
      PROVE  \E k \in TrackedKeys : t_call[c].keys = {k}
  BY <1>1, <1>6 DEF TrackedCall
<1>7. CASE Tracked!value_set(c)
  <2>1. t_call[c].op = "value"
    BY <1>7 DEF Tracked!value_set, Tracked!Resumes
  <2>2. PICK k \in TrackedKeys : t_call[c].keys = {k}
    BY <1>6, <2>1
  <2>3. CASE Tracked!Promote(c)
    BY <1>2, <2>2, <2>3, TrackPromotes
  <2>4. CASE Tracked!Request(c, "reserve", t_call[c].keys, "end") /\ UNCHANGED <<t_keys, Tracked!history>>
    <3> DEFINE r == [op |-> "reserve", keys |-> t_call[c].keys, then |-> "end", done |-> FALSE]
    <3>1. TrackedCall(r) /\ r.op = "reserve"
      BY <2>2, Requested
    <3>2. /\ t_call' = [t_call EXCEPT ![c] = r] /\ UNCHANGED t_keys /\ UNCHANGED t_promised
          /\ UNCHANGED t_unroomed
      BY <2>4 DEF Tracked!Request, Tracked!history
    <3> HIDE DEF r
    <3> QED BY <1>1, <1>2, <3>1, <3>2, TrackWaits
  <2> QED BY <1>7, <2>3, <2>4 DEF Tracked!value_set
<1>8. CASE Tracked!reserve_set(c)
  <2>1. t_call[c].op = "reserve" /\ Tracked!Promote(c)
    BY <1>8 DEF Tracked!reserve_set, Tracked!Resumes
  <2> QED BY <1>2, <1>6, <2>1, TrackPromotes
<1>9. CASE Tracked!values_set(c)
  <2>1. /\ t_call[c].op = "values" /\ Tracked!Done(c) /\ UNCHANGED t_keys /\ UNCHANGED t_promised
        /\ UNCHANGED t_unroomed
    BY <1>9 DEF Tracked!values_set, Tracked!Resumes, Tracked!history
  <2> QED BY <1>1, <1>4, <2>1
<1>10. CASE Tracked!get_answered(c)
  <2>1. t_call[c].op = "read"
    BY <1>10 DEF Tracked!get_answered, Tracked!Resumes
  <2>2. CASE Tracked!Promote(c)
    BY <1>2, <1>6, <2>1, <2>2, TrackPromotes
  <2>3. CASE Tracked!Done(c) /\ UNCHANGED <<t_keys, Tracked!history>>
    BY <1>1, <1>4, <2>1, <2>3 DEF Tracked!history
  <2> QED BY <1>10, <2>2, <2>3 DEF Tracked!get_answered
<1>11. CASE Tracked!deleted(c)
  <2>1. /\ t_call[c].op = "delete" /\ Tracked!Done(c) /\ UNCHANGED t_promised /\ UNCHANGED t_unroomed
        /\ t_keys' = Tracked!Only(t_keys, TrackedKeys \ t_call[c].keys)
    BY <1>11 DEF Tracked!deleted, Tracked!Resumes, Tracked!Forget, Tracked!history
  <2>2. KeySeq(t_keys') /\ Tracked!ToSet(t_keys') \subseteq Tracked!ToSet(t_keys)
    BY <1>1, <2>1, KeySeqOnly
  <2> QED BY <1>1, <1>4, <2>1, <2>2
<1>12. CASE Tracked!tags_deleted(c)
  <2>1. /\ t_call[c].op = "tags" /\ Tracked!Done(c) /\ UNCHANGED t_promised /\ UNCHANGED t_unroomed
        /\ t_keys' = <<>>
    BY <1>12 DEF Tracked!tags_deleted, Tracked!Resumes, Tracked!history
  <2>2. KeySeq(<<>>) /\ Tracked!ToSet(<<>>) = {}
    BY TrackedToSet DEF KeySeq
  <2> QED BY <1>1, <1>4, <2>1, <2>2
<1> QED BY <1>5, <1>7, <1>8, <1>9, <1>10, <1>11, <1>12

\* With any number of concurrent callers, keys and calls, the tracked keys that looked for
\* room are at most maxsize and one for every other caller; each key is tracked once.
THEOREM OverflowIsBounded ==
  ASSUME Tracked!TTLCacheAssumption
  PROVE  Tracked!Spec => []OverflowBounded /\ []Tracked!TypeOK
<1>1. Tracked!Init => TrackInv
  <2> SUFFICES ASSUME Tracked!Init PROVE TrackInv
    OBVIOUS
  <2>1. /\ t_keys = <<>> /\ t_value = {} /\ t_reserve = {} /\ t_calls = 0 /\ t_promised = {}
        /\ t_unroomed = {} /\ t_call = [c \in Callers |-> Tracked!NoCall]
    BY DEF Tracked!Init
  <2>2. KeySeq(t_keys) /\ Counted(t_keys, t_unroomed) = {}
    BY <2>1, TrackedToSet DEF KeySeq, Counted
  <2>3. TrackedCall(Tracked!NoCall)
    BY DEF TrackedCall, Tracked!NoCall
  <2>4. Fits({}, {})
    <3>1. IsFiniteSet(Callers) /\ MaxSize \in Nat \ {0}
      BY DEF Tracked!TTLCacheAssumption, Tracked!IsFiniteSet, IsFiniteSet
    <3>2. Cardinality({}) = 0 /\ Cardinality(Callers) \in Nat
      BY <3>1, FS_EmptySet, FS_CardinalityType
    <3> QED BY <3>1, <3>2 DEF Fits
  <2>5. 0 \in 0..MaxTracked
    BY DEF Tracked!TTLCacheAssumption
  <2> QED BY <2>1, <2>2, <2>3, <2>4, <2>5 DEF TrackInv
<1>2. TrackInv /\ [Tracked!Next]_Tracked!vars => TrackInv'
  <2> SUFFICES ASSUME TrackInv, [Tracked!Next]_Tracked!vars PROVE TrackInv'
    OBVIOUS
  <2>1. CASE UNCHANGED Tracked!vars
    <3>1. /\ UNCHANGED t_keys /\ UNCHANGED t_value /\ UNCHANGED t_reserve /\ UNCHANGED t_call
          /\ UNCHANGED t_calls /\ UNCHANGED t_promised /\ UNCHANGED t_unroomed
      BY <2>1 DEF Tracked!vars
    <3> QED BY <3>1 DEF TrackInv, KeySeq, TrackedCall, Fits, Counted
  <2>2. CASE Tracked!Next
    <3>1. PICK c \in Callers :
            \/ \E k \in TrackedKeys : Tracked!set(c, k) \/ Tracked!get(c, k)
            \/ \E ks \in (SUBSET TrackedKeys) \ {{}} :
                 Tracked!set_many(c, ks) \/ Tracked!delete(c, ks) \/ Tracked!delete_tags(c, ks)
            \/ Tracked!clear(c) \/ Tracked!Perform(c)
            \/ \/ Tracked!_evict(c) \/ Tracked!value_set(c) \/ Tracked!reserve_set(c)
               \/ Tracked!values_set(c)
               \/ Tracked!get_answered(c) \/ Tracked!deleted(c) \/ Tracked!tags_deleted(c)
      BY <2>2 DEF Tracked!Next
    <3>2. ASSUME NEW k \in TrackedKeys, Tracked!set(c, k) \/ Tracked!get(c, k) PROVE TrackInv'
      BY <3>2, {} \in SUBSET TrackedKeys, TrackRequests
    <3>3. ASSUME NEW ks \in (SUBSET TrackedKeys) \ {{}},
                 Tracked!set_many(c, ks) \/ Tracked!delete(c, ks) \/ Tracked!delete_tags(c, ks)
          PROVE  TrackInv'
      <4>1. ks \subseteq TrackedKeys /\ ks # {}
        OBVIOUS
      <4>2. PICK k \in TrackedKeys : k \in ks
        BY <4>1
      <4> QED BY <3>3, <4>1, <4>2, TrackRequests
    <3> QED BY <3>1, <3>2, <3>3, {} \in SUBSET TrackedKeys, TrackDeletes, TrackPerforms, TrackResumes
  <2> QED BY <2>1, <2>2
<1>3. TrackInv => OverflowBounded
  <2> SUFFICES ASSUME TrackInv PROVE Tracked!OverflowBounded
    BY DEF OverflowBounded
  <2>1. IsFiniteSet(Callers) /\ MaxSize \in Nat
    BY DEF Tracked!TTLCacheAssumption, Tracked!IsFiniteSet, IsFiniteSet
  <2>2. Cardinality(Callers) \in Nat /\ IsFiniteSet(t_promised)
    BY <2>1, FS_CardinalityType, FS_Subset DEF TrackInv
  <2>3. Cardinality(t_promised) \in Nat
    BY <2>2, FS_CardinalityType
  <2> DEFINE R == Counted(t_keys, t_unroomed)
  <2>4. Cardinality(R) \in Nat /\ Fits(R, t_promised)
    BY CountedFinite DEF TrackInv
  <2> HIDE DEF R
  <2>5. Cardinality(R) <= MaxSize + Cardinality(Callers) - 1
    BY <2>1, <2>2, <2>3, <2>4 DEF Fits
  <2> QED BY <2>5, TrackedCardinality DEF Tracked!OverflowBounded, Tracked!Tracked, R, Counted
<1>4. TrackInv => Tracked!TypeOK
  <2> SUFFICES ASSUME TrackInv PROVE Tracked!TypeOK
    OBVIOUS
  <2>1. t_keys \in Seq(TrackedKeys) /\ Tracked!IsInjective(t_keys)
    BY DEF TrackInv, KeySeq, Tracked!IsInjective
  <2> QED BY <2>1 DEF TrackInv, Tracked!TypeOK
<1> QED BY <1>1, <1>2, <1>3, <1>4, PTL DEF Tracked!Spec

-----------------------------------------------------------------------------
\* A loop over a list.

LEMMA AccumulatedIs ==
  ASSUME NEW A, NEW T, NEW s \in Seq(T), NEW f \in [A \X T -> A], NEW a \in A
  PROVE  \E g : Folded(A, s, f, a, g) /\ Application!Accumulated(f, a, s) = g[Len(s)]
<1> DEFINE F(g) == g = [n \in 0..Len(s) |-> IF n = 0 THEN a ELSE f[<<g[n - 1], s[n]>>]]
           g == CHOOSE g : F(g)
<1>1. Application!Accumulated(f, a, s) = g[Len(s)]
  BY Zenon DEF Application!Accumulated
<1>2. PICK k : Folded(A, s, f, a, k)
  BY FoldExists
<1>3. F(k)
  <2>1. k \in [0..Len(s) -> A] /\ k[0] = a /\ Len(s) \in Nat
    BY <1>2 DEF Folded
  <2>2. \A n \in 1..Len(s) : k[n] = f[<<k[n - 1], s[n]>>]
    BY <1>2 DEF Folded
  <2>3. \A n \in 0..Len(s) : n # 0 => n \in 1..Len(s)
    BY <2>1
  <2> QED BY <2>1, <2>2, <2>3
<1>4. F(g)
  BY <1>3, Zenon
<1> HIDE DEF g
<1>5. Len(s) \in Nat /\ 0 \in 0..Len(s)
  OBVIOUS
<1>6. g[0] = a
  BY <1>4, <1>5
<1>7. ASSUME NEW n \in 1..Len(s) PROVE g[n] = f[<<g[n - 1], s[n]>>]
  <2>1. n \in 0..Len(s) /\ n # 0
    BY <1>5
  <2> QED BY <1>4, <2>1
<1>8. DOMAIN g = 0..Len(s)
  BY <1>4
<1>9. g = [n \in 0..Len(s) |-> g[n]]
  BY <1>4, Zenon
<1> HIDE DEF F
<1> DEFINE Z == {n \in 0..Len(s) : g[n] \notin A}
<1>10. Z = {}
  <2>1. SUFFICES ASSUME Z # {} PROVE FALSE
    OBVIOUS
  <2>2. PICK n \in Z : \A m \in Z : n <= m
    <3>1. Z \subseteq Nat
      BY <1>5
    <3> QED BY <2>1, <3>1, LeastNatural
  <2>3. n # 0
    BY <1>6, <2>2
  <2>4. n \in 1..Len(s) /\ n - 1 \in 0..Len(s) /\ n - 1 \notin Z
    BY <1>5, <2>2, <2>3
  <2>5. g[n - 1] \in A /\ s[n] \in T
    BY <1>5, <2>4
  <2> QED BY <1>7, <2>2, <2>4, <2>5
<1>11. g \in [0..Len(s) -> A]
  <2>1. \A n \in 0..Len(s) : g[n] \in A
    BY <1>10
  <2> QED BY <1>9, <2>1
<1> QED BY <1>1, <1>6, <1>7, <1>11 DEF Folded

\* What holds before the first step and what every step keeps holds at the end.
LEMMA AccumulatedKeeps ==
  ASSUME NEW A, NEW T, NEW s \in Seq(T), NEW f \in [A \X T -> A], NEW a \in A,
         NEW good, <<0, a>> \in good,
         \A n \in 1..Len(s) : \A x \in A : <<n - 1, x>> \in good => <<n, f[<<x, s[n]>>]>> \in good
  PROVE  /\ Application!Accumulated(f, a, s) \in A
         /\ <<Len(s), Application!Accumulated(f, a, s)>> \in good
<1>1. PICK g : Folded(A, s, f, a, g) /\ Application!Accumulated(f, a, s) = g[Len(s)]
  BY AccumulatedIs, Zenon
<1>2. g \in [0..Len(s) -> A] /\ g[0] = a /\ Len(s) \in Nat
  BY <1>1 DEF Folded
<1>3. \A n \in 1..Len(s) : g[n] = f[<<g[n - 1], s[n]>>]
  BY <1>1 DEF Folded
<1> DEFINE Z == {n \in 0..Len(s) : <<n, g[n]>> \notin good}
<1>4. Z = {}
  <2>1. SUFFICES ASSUME Z # {} PROVE FALSE
    OBVIOUS
  <2>2. PICK n \in Z : \A m \in Z : n <= m
    <3>1. Z \subseteq Nat
      BY <1>2
    <3> QED BY <2>1, <3>1, LeastNatural
  <2>3. n # 0
    BY <1>2, <2>2
  <2>4. n \in 1..Len(s) /\ n - 1 \in 0..Len(s) /\ n - 1 \notin Z
    BY <1>2, <2>2, <2>3
  <2>5. g[n - 1] \in A /\ <<n - 1, g[n - 1]>> \in good
    BY <1>2, <2>4
  <2>6. <<n, f[<<g[n - 1], s[n]>>]>> \in good
    BY <2>4, <2>5
  <2> QED BY <1>3, <2>2, <2>4, <2>6
<1>5. Len(s) \in 0..Len(s)
  BY <1>2
<1> QED BY <1>1, <1>2, <1>4, <1>5

\* The same, in one hypothesis.
Loops(A, T, s, f, a, good) ==
  /\ s \in Seq(T) /\ f \in [A \X T -> A] /\ a \in A /\ <<0, a>> \in good
  /\ \A n \in 1..Len(s) : \A x \in A : <<n - 1, x>> \in good => <<n, f[<<x, s[n]>>]>> \in good

LEMMA LoopsKeep ==
  ASSUME NEW A, NEW T, NEW s, NEW f, NEW a, NEW good, Loops(A, T, s, f, a, good)
  PROVE  /\ Application!Accumulated(f, a, s) \in A
         /\ <<Len(s), Application!Accumulated(f, a, s)>> \in good
  BY AccumulatedKeeps, Zenon DEF Loops

-----------------------------------------------------------------------------
Lists == Application!Lists
Bindings == Application!Bindings

\* The providers that backends made for themselves.
OwnMade == UNION {Application!Made(c) : c \in Components}

\* What a list is about, whatever fakes are in it and whatever an opening has added: what
\* was given and what that wants.
Real(items) == Application!Range(items) \ Fakes
CoreOf(real) == (real \ OwnMade) \cup UNION {Application!Wanted(c) : c \in real \cap Components}
Core(a) == CoreOf(Real(g_items[a]))
MadeBy(S) == UNION {Application!Made(c) : c \in S \cap Components}
Mine(a) == Core(a) \cup MadeBy(Core(a))
Separate == \A a, b \in Apps : a # b => Core(a) \cap Core(b) = {}

Distinct(s) == \A n, m \in DOMAIN s : s[n] = s[m] => n = m

\* What the backends of an item work with, and what they have made.
Parts(bindings, i) == IF i \in Components THEN bindings[i] ELSE <<>>
Borrow(bindings, i) ==
  {Parts(bindings, i)[m].provider : m \in {k \in DOMAIN Parts(bindings, i) : ~ Parts(bindings, i)[k].owns}}
Keep(bindings, i) ==
  {Parts(bindings, i)[m].provider : m \in {k \in DOMAIN Parts(bindings, i) : Parts(bindings, i)[k].owns}}

\* Everything that an item of s works with is open once the items up to it are.
Backed(bindings, s, n) ==
  {s[k] : k \in 1..(n - 1)} \cup UNION {Keep(bindings, s[k]) : k \in 1..n}
Settled(bindings, s) == \A n \in DOMAIN s : Borrow(bindings, s[n]) \subseteq Backed(bindings, s, n)

BindingInv ==
  /\ g_bound \in [Components -> Seq(Bindings)]
  /\ \A c \in Components :
       /\ Len(g_bound[c]) = Len(Backends[c])
       /\ \A m \in DOMAIN Backends[c] :
            \/ g_bound[c][m] = Backends[c][m]
            \/ Backends[c][m].owns /\ ~ g_bound[c][m].owns /\ g_bound[c][m].provider \in OwnMade

IsBlock(b) ==
  /\ b = [app |-> b.app, fake |-> b.fake, items |-> b.items, by_key |-> b.by_key]
  /\ b.app \in Apps /\ g_phase[b.app] = "open"
  /\ b.items \in Lists /\ Distinct(b.items) /\ Real(b.items) = Real(g_items[b.app])
  /\ b.by_key \in [Application!Keys -> Components \cup {None}]

ListInv ==
  /\ g_items \in [Apps -> Lists] /\ g_by_key \in [Apps -> [Application!Keys -> Components \cup {None}]]
  /\ \A a \in Apps :
       /\ Distinct(g_items[a])
       /\ Real(g_items[a]) \cap OwnMade # {} =>
            \E c \in Real(g_items[a]) \cap Components : g_bound[c] # Backends[c]
  /\ DOMAIN g_block = Tasks
  /\ \A t \in Tasks : g_block[t] # None => IsBlock(g_block[t])

Active == {"entering", "open", "exiting"}
Entering(a) ==
  /\ g_at[a][1] \in 1..(Len(g_items[a]) + 1) /\ g_at[a][2] \in Nat \ {0}
  /\ Len(g_stack[a]) = g_at[a][1] - 1 /\ \A n \in 1..Len(g_stack[a]) : g_stack[a][n] = g_items[a][n]
  /\ g_at[a][1] <= Len(g_items[a]) =>
       g_at[a][2] <= Len(Parts(g_bound, g_items[a][g_at[a][1]])) + 1

StackInv ==
  /\ g_phase \in [Apps -> Active \cup {"broken", "closed", "unwinding"}]
  /\ g_at \in [Apps -> Nat \X Nat]
  /\ g_stack \in [Apps -> Lists]
  /\ g_active_apps = {a \in Apps : g_phase[a] \in Active}
  /\ \A a \in Apps :
       /\ Distinct(g_stack[a])
       /\ Application!Range(g_stack[a]) \cap Components \subseteq Core(a) \cup Fakes
       /\ g_phase[a] \in {"broken", "closed"} => g_stack[a] = <<>>
       /\ g_phase[a] = "entering" => Entering(a)
       /\ g_phase[a] = "unwinding" => g_failures # 0

\* What an app has opened.
Underway(a) ==
  {m \in 1..3 : g_phase[a] = "entering" /\ g_at[a][1] <= Len(g_items[a]) /\ m < g_at[a][2]}
Owners(of, S) == {of[m].provider : m \in {k \in S : of[k].owns}}
Started(a) == Owners(g_bound[g_items[a][g_at[a][1]]], Underway(a))
Kept(a) == UNION {Keep(g_bound, i) : i \in Application!Range(g_stack[a])}
Held(a) == (Application!Range(g_stack[a]) \cap Providers) \cup Kept(a) \cup Started(a)
Running(a) ==
  {b \in Components \X (1..3) : b[1] \in Application!Range(g_stack[a]) /\ b[2] \in DOMAIN g_bound[b[1]]}
  \cup {b \in Components \X (1..3) : b[2] \in Underway(a) /\ b[1] = g_items[a][g_at[a][1]]}

OpenInv ==
  /\ g_pools \subseteq Providers
  /\ g_backends \subseteq Components \X (1..3) /\ \A b \in g_backends : b[2] \in DOMAIN g_bound[b[1]]
  /\ g_failures = 0 => g_backends \subseteq UNION {Running(a) : a \in Apps}
  /\ g_failures = 0 /\ Separate => g_pools \subseteq UNION {Held(a) : a \in Apps}

Planned(a) == IF g_phase[a] = "entering" THEN g_items[a] ELSE g_stack[a]
ApartInv ==
  Separate => \A a \in Apps :
    /\ Real(g_items[a]) \subseteq Mine(a) /\ Real(g_stack[a]) \subseteq Mine(a)
    /\ \A c \in Core(a) \cap Components : \A m \in DOMAIN g_bound[c] : g_bound[c][m].provider \in Mine(a)
    /\ a \notin g_reshared =>
         /\ Settled(g_bound, Planned(a)) /\ Real(Planned(a)) \cap OwnMade = {}
         /\ Held(a) \subseteq g_pools

\* g is the last of the first n items that owns what the process has one of.
LastGlobal(g, s, n) ==
  \/ g = None /\ \A k \in 1..n : s[k] \notin Globals
  \/ \E m \in 1..n : g = s[m] /\ g \in Globals /\ \A k \in (m + 1)..n : s[k] \notin Globals
Owning(a) == Core(a) \cap Globals # {}
Globally(a) == Application!Range(g_stack[a]) \cap Globals # {}
GlobalInv ==
  /\ g_global \in Globals \cup {None} /\ g_saved \in [Globals -> Globals \cup {None}]
  /\ ~ AllowMultiple => \A a, b \in g_active_apps : Owning(a) /\ Owning(b) => a = b
  /\ ~ g_unsafe => \A a \in Apps : Globally(a) => a \in g_active_apps
  /\ ~ AllowMultiple /\ ~ g_unsafe => \A a \in Apps :
       /\ \A n \in DOMAIN g_stack[a] :
            g_stack[a][n] \in Globals => LastGlobal(g_saved[g_stack[a][n]], g_stack[a], n - 1)
       /\ Globally(a) => LastGlobal(g_global, g_stack[a], Len(g_stack[a]))
       /\ (\A b \in Apps : ~ Globally(b)) => g_global = None

Counts == g_strict \in Strict /\ g_failures \in 0..MaxFailures /\ g_unsafe \in BOOLEAN

AppInv ==
  Counts /\ BindingInv /\ ListInv /\ StackInv /\ OpenInv /\ ApartInv /\ GlobalInv

-----------------------------------------------------------------------------
\* What __aenter__ makes of a list.

Typed == g_bound \in [Components -> Seq(Bindings)]

LEMMA PartsTyped ==
  ASSUME Typed, NEW i
  PROVE  /\ Parts(g_bound, i) \in Seq(Bindings)
         /\ Application!_iter_provider_backends(i) = Parts(g_bound, i)
<1>1. <<>> \in Seq(Bindings)
  OBVIOUS
<1>2. i \in Components => g_bound[i] \in Seq(Bindings)
  BY DEF Typed
<1> QED BY <1>1, <1>2 DEF Parts, Application!_iter_provider_backends

LEMMA BindingFields ==
  ASSUME NEW b \in Bindings
  PROVE  b.provider \in Providers /\ b.owns \in BOOLEAN
  BY DEF Bindings, Application!Bindings

LEMMA AppendDistinct ==
  ASSUME NEW s \in Lists, Distinct(s), NEW i \in Application!Items, i \notin Application!Range(s)
  PROVE  /\ Append(s, i) \in Lists /\ Distinct(Append(s, i))
         /\ Application!Range(Append(s, i)) = Application!Range(s) \cup {i}
<1> DEFINE r == Append(s, i)
<1>1. s \in Seq(Application!Items) /\ Len(s) \in Nat /\ DOMAIN s = 1..Len(s)
  BY DEF Lists, Application!Lists
<1>2. /\ r \in Seq(Application!Items) /\ DOMAIN r = 1..(Len(s) + 1)
      /\ r[Len(s) + 1] = i /\ \A n \in 1..Len(s) : r[n] = s[n]
  BY <1>1
<1> HIDE DEF r
<1>3. \A n \in 1..Len(s) : s[n] # i
  BY <1>1 DEF Application!Range
<1>4. Distinct(r)
  <2>1. ASSUME NEW n \in DOMAIN r, NEW m \in DOMAIN r, r[n] = r[m] PROVE n = m
    <3>1. n \in 1..Len(s) \/ n = Len(s) + 1
      BY <1>1, <1>2
    <3>2. m \in 1..Len(s) \/ m = Len(s) + 1
      BY <1>1, <1>2
    <3> QED BY <1>1, <1>2, <1>3, <2>1, <3>1, <3>2 DEF Distinct
  <2> QED BY <2>1 DEF Distinct
<1>5. Application!Range(r) = Application!Range(s) \cup {i}
  <2>1. \A n \in DOMAIN r : n \in 1..Len(s) \/ n = Len(s) + 1
    BY <1>1, <1>2
  <2>2. \A n \in 1..Len(s) : n \in DOMAIN r
    BY <1>1, <1>2
  <2>3. Len(s) + 1 \in DOMAIN r
    BY <1>1, <1>2
  <2> QED BY <1>1, <1>2, <2>1, <2>2, <2>3 DEF Application!Range
<1> QED BY <1>2, <1>4, <1>5 DEF r, Lists, Application!Lists

LEMMA AdoptTyped ==
  ASSUME NEW items
  PROVE  /\ Application!Adopt(items) \in [Lists \X Bindings -> Lists]
         /\ \A y \in Lists, b \in Bindings :
              Application!Adopt(items)[<<y, b>>] =
                IF b.owns \/ b.provider \in Application!Range(items) \cup Application!Range(y)
                THEN y ELSE Append(y, b.provider)
<1> DEFINE f == Application!Adopt(items)
<1>1. ASSUME NEW y \in Lists, NEW b \in Bindings
      PROVE  f[<<y, b>>] = IF b.owns \/ b.provider \in Application!Range(items) \cup Application!Range(y)
                           THEN y ELSE Append(y, b.provider)
  <2>1. <<y, b>> \in Application!Lists \X Application!Bindings
    BY DEF Lists, Bindings
  <2> QED BY <2>1 DEF Application!Adopt
<1>2. ASSUME NEW y \in Lists, NEW b \in Bindings PROVE f[<<y, b>>] \in Lists
  <2>1. b.provider \in Application!Items
    BY BindingFields DEF Application!Items
  <2>2. Append(y, b.provider) \in Lists
    BY <2>1 DEF Lists, Application!Lists
  <2> QED BY <1>1, <2>2
<1>3. f \in [Lists \X Bindings -> Lists]
  <2>1. f = [y \in Lists \X Bindings |-> f[y]]
    BY DEF Application!Adopt, Lists, Bindings
  <2>2. ASSUME NEW y \in Lists \X Bindings PROVE f[y] \in Lists
    <3>1. y = <<y[1], y[2]>> /\ y[1] \in Lists /\ y[2] \in Bindings
      OBVIOUS
    <3> HIDE DEF f
    <3> QED BY <1>2, <3>1
  <2> HIDE DEF f
  <2> QED BY <2>1, <2>2
<1> QED
  <2> HIDE DEF f
  <2>1. f \in [Lists \X Bindings -> Lists]
    BY <1>3
  <2> QED BY <1>1, <2>1 DEF f

\* What the backends of one item add: what they borrow and nobody listed.
LEMMA AdoptedList ==
  ASSUME Typed, NEW items \in Lists, NEW i, NEW x \in Lists, Distinct(x)
  PROVE  LET r == Application!Accumulated(Application!Adopt(items), x,
                                          Application!_iter_provider_backends(i))
         IN  /\ r \in Lists /\ Distinct(r)
             /\ Application!Range(r) = Application!Range(x)
                  \cup (Borrow(g_bound, i) \ Application!Range(items))
<1> DEFINE of == Parts(g_bound, i)
           f == Application!Adopt(items)
           Till(n) == {of[m].provider : m \in {k \in 1..n : ~ of[k].owns}} \ Application!Range(items)
           good == {y \in Nat \X Lists : /\ Distinct(y[2])
                      /\ Application!Range(y[2]) = Application!Range(x) \cup Till(y[1])}
<1>1. of \in Seq(Bindings) /\ Application!_iter_provider_backends(i) = of
  BY PartsTyped
<1> HIDE DEF of
<1>2. /\ f \in [Lists \X Bindings -> Lists]
      /\ \A y \in Lists, b \in Bindings :
           f[<<y, b>>] = IF b.owns \/ b.provider \in Application!Range(items) \cup Application!Range(y)
                         THEN y ELSE Append(y, b.provider)
  BY AdoptTyped
<1> HIDE DEF f
<1>5. <<0, x>> \in good
  <2>1. Till(0) = {}
    OBVIOUS
  <2> HIDE DEF Till
  <2> QED BY <2>1
<1>6. ASSUME NEW n \in 1..Len(of), NEW y \in Lists, <<n - 1, y>> \in good
      PROVE  <<n, f[<<y, of[n]>>]>> \in good
  <2>1. Len(of) \in Nat /\ n \in Nat /\ n - 1 \in Nat /\ of[n] \in Bindings
    BY <1>1
  <2>2. of[n].provider \in Application!Items /\ of[n].owns \in BOOLEAN
    BY <2>1, BindingFields DEF Application!Items
  <2>3. Distinct(y) /\ Application!Range(y) = Application!Range(x) \cup Till(n - 1)
    BY <1>6
  <2>4. Till(n) = Till(n - 1) \cup ((IF of[n].owns THEN {} ELSE {of[n].provider})
                                    \ Application!Range(items))
    <3>1. 1..n = (1..(n - 1)) \cup {n}
      BY <2>1
    <3> QED BY <3>1
  <2> HIDE DEF Till
  <2>5. CASE of[n].owns \/ of[n].provider \in Application!Range(items) \cup Application!Range(y)
    <3>1. f[<<y, of[n]>>] = y
      BY <1>2, <2>1, <2>5
    <3>2. Application!Range(y) = Application!Range(x) \cup Till(n)
      BY <2>3, <2>4, <2>5
    <3> QED BY <2>1, <2>3, <3>1, <3>2
  <2>6. CASE ~ (of[n].owns \/ of[n].provider \in Application!Range(items) \cup Application!Range(y))
    <3> DEFINE r == Append(y, of[n].provider)
    <3>1. f[<<y, of[n]>>] = r
      BY <1>2, <2>1, <2>6
    <3>2. r \in Lists /\ Distinct(r) /\ Application!Range(r) = Application!Range(y) \cup {of[n].provider}
      BY <2>2, <2>3, <2>6, AppendDistinct
    <3> HIDE DEF r
    <3>3. Application!Range(r) = Application!Range(x) \cup Till(n)
      BY <2>3, <2>4, <2>6, <3>2
    <3> QED BY <2>1, <3>1, <3>2, <3>3
  <2> QED BY <2>5, <2>6
<1> DEFINE r == Application!Accumulated(f, x, of)
<1>7. r \in Lists /\ <<Len(of), r>> \in good
  <2> HIDE DEF good, r
  <2>1. \A n \in 1..Len(of) : \A y \in Lists : <<n - 1, y>> \in good => <<n, f[<<y, of[n]>>]>> \in good
    BY <1>6
  <2> QED BY <1>1, <1>2, <1>5, <2>1, AccumulatedKeeps DEF r
<1> HIDE DEF r
<1>8. Distinct(r) /\ Application!Range(r) = Application!Range(x) \cup Till(Len(of))
  BY <1>7
<1>9. Till(Len(of)) = Borrow(g_bound, i) \ Application!Range(items)
  <2>1. DOMAIN of = 1..Len(of)
    BY <1>1
  <2> QED BY <2>1 DEF of, Borrow
<1> QED BY <1>1, <1>7, <1>8, <1>9 DEF r, f

\* It is a list whatever is in it.
LEMMA AddedTyped ==
  ASSUME Typed, NEW items, NEW i, NEW x \in Lists
  PROVE  Application!Accumulated(Application!Adopt(items), x,
                                 Application!_iter_provider_backends(i)) \in Lists
<1> DEFINE of == Parts(g_bound, i)
           f == Application!Adopt(items)
<1>1. of \in Seq(Bindings) /\ Application!_iter_provider_backends(i) = of
  BY PartsTyped
<1> HIDE DEF of
<1>2. f \in [Lists \X Bindings -> Lists]
  BY AdoptTyped
<1> HIDE DEF f
<1>3. <<0, x>> \in Nat \X Lists
  OBVIOUS
<1>4. \A n \in 1..Len(of) : \A y \in Lists :
        <<n - 1, y>> \in Nat \X Lists => <<n, f[<<y, of[n]>>]>> \in Nat \X Lists
  <2>1. ASSUME NEW n \in 1..Len(of), NEW y \in Lists PROVE <<n, f[<<y, of[n]>>]>> \in Nat \X Lists
    <3>1. of[n] \in Bindings /\ n \in Nat
      BY <1>1
    <3> QED BY <1>2, <3>1
  <2> QED BY <2>1
<1>5. Application!Accumulated(f, x, of) \in Lists
  BY <1>1, <1>2, <1>3, <1>4, AccumulatedKeeps
<1> QED BY <1>1, <1>5 DEF f

\* Discovery leaves a list of the same items and everything that they borrow, each once.
LEMMA DiscoveredList ==
  ASSUME Typed, NEW items \in Lists, Distinct(items)
  PROVE  LET r == Application!_discover_shared_providers(items)
         IN  /\ r \in Lists /\ Distinct(r)
             /\ Application!Range(r) = Application!Range(items)
                  \cup UNION {Borrow(g_bound, i) : i \in Application!Range(items)}
<1> DEFINE f == Application!Rebuild(items)
           S == Application!Range(items)
           First(n) == {items[k] : k \in 1..n}
           Wants(n) == UNION {Borrow(g_bound, items[k]) : k \in 1..n}
           Till(n) == First(n) \cup (Wants(n) \ S)
           good == {y \in Nat \X Lists : Distinct(y[2]) /\ Application!Range(y[2]) = Till(y[1])}
<1>1. items \in Seq(Application!Items) /\ Len(items) \in Nat /\ DOMAIN items = 1..Len(items)
  BY DEF Lists, Application!Lists
<1> DEFINE Added(y, i) == Application!Accumulated(Application!Adopt(items), y,
                                                  Application!_iter_provider_backends(i))
<1>2. ASSUME NEW y \in Lists, NEW i \in Application!Items
      PROVE  f[<<y, i>>] = Append(Added(y, i), i)
  <2>1. <<y, i>> \in Application!Lists \X Application!Items
    BY DEF Lists
  <2> QED BY <2>1 DEF Application!Rebuild
<1>3. ASSUME NEW y \in Lists, Distinct(y), NEW i \in Application!Items
      PROVE  /\ Added(y, i) \in Lists /\ Distinct(Added(y, i))
             /\ Application!Range(Added(y, i)) = Application!Range(y) \cup (Borrow(g_bound, i) \ S)
  BY <1>3, AdoptedList
<1> HIDE DEF Added, S
<1>4. <<0, <<>>>> \in good
  <2>1. Till(0) = {}
    OBVIOUS
  <2>2. <<>> \in Lists /\ Distinct(<<>>) /\ Application!Range(<<>>) = {}
    BY DEF Lists, Application!Lists, Distinct, Application!Range
  <2> HIDE DEF Till
  <2> QED BY <2>1, <2>2
<1>5. ASSUME NEW n \in 1..Len(items), NEW y \in Lists, <<n - 1, y>> \in good
      PROVE  <<n, f[<<y, items[n]>>]>> \in good
  <2>1. n \in Nat /\ n - 1 \in Nat /\ items[n] \in Application!Items
    BY <1>1
  <2>2. Distinct(y) /\ Application!Range(y) = Till(n - 1)
    BY <1>5
  <2> DEFINE z == Added(y, items[n])
  <2>3. z \in Lists /\ Distinct(z)
        /\ Application!Range(z) = Till(n - 1) \cup (Borrow(g_bound, items[n]) \ S)
    BY <1>3, <2>1, <2>2
  <2> HIDE DEF z
  <2>4. items[n] \in S /\ \A k \in 1..(n - 1) : items[k] # items[n]
    <3>1. items[n] \in S
      BY <1>1 DEF S, Application!Range
    <3>2. \A k \in 1..(n - 1) : k \in DOMAIN items /\ n \in DOMAIN items /\ k # n
      BY <1>1, <2>1
    <3> QED BY <3>1, <3>2 DEF Distinct
  <2>5. items[n] \notin Till(n - 1)
    <3>1. items[n] \notin First(n - 1)
      BY <2>4
    <3> HIDE DEF First, Wants
    <3> QED BY <2>4, <3>1
  <2>6. Till(n) = Till(n - 1) \cup (Borrow(g_bound, items[n]) \ S) \cup {items[n]}
    <3>1. 1..n = (1..(n - 1)) \cup {n}
      BY <2>1
    <3>2. First(n) = First(n - 1) \cup {items[n]}
      BY <3>1
    <3>3. Wants(n) = Wants(n - 1) \cup Borrow(g_bound, items[n])
      BY <3>1
    <3> HIDE DEF First, Wants
    <3> QED BY <3>2, <3>3
  <2> HIDE DEF Till
  <2>7. items[n] \notin Application!Range(z)
    BY <2>3, <2>4, <2>5
  <2>8. /\ Append(z, items[n]) \in Lists /\ Distinct(Append(z, items[n]))
        /\ Application!Range(Append(z, items[n])) = Application!Range(z) \cup {items[n]}
    BY <2>1, <2>3, <2>7, AppendDistinct
  <2>9. f[<<y, items[n]>>] = Append(z, items[n])
    BY <1>2, <2>1 DEF z
  <2> QED BY <2>1, <2>3, <2>6, <2>8, <2>9
<1> DEFINE r == Application!Accumulated(f, <<>>, items)
<1>6. f \in [Lists \X Application!Items -> Lists]
  <2>1. f = [y \in Lists \X Application!Items |-> f[y]]
    BY DEF Application!Rebuild, Lists
  <2>2. ASSUME NEW y \in Lists, NEW i \in Application!Items PROVE f[<<y, i>>] \in Lists
    <3>1. Added(y, i) \in Lists
      BY AddedTyped DEF Added
    <3>2. Append(Added(y, i), i) \in Lists
      <4> HIDE DEF f
      <4> QED BY <3>1 DEF Lists, Application!Lists
    <3>3. f[<<y, i>>] = Append(Added(y, i), i)
      BY <1>2
    <3> HIDE DEF f
    <3> QED BY <3>2, <3>3
  <2>3. ASSUME NEW y \in Lists \X Application!Items PROVE f[y] \in Lists
    <3>1. y = <<y[1], y[2]>> /\ y[1] \in Lists /\ y[2] \in Application!Items
      OBVIOUS
    <3> HIDE DEF f
    <3> QED BY <2>2, <3>1
  <2> HIDE DEF f
  <2> QED BY <2>1, <2>3
<1>7. r \in Lists /\ <<Len(items), r>> \in good
  <2> HIDE DEF good, f, r
  <2>1. \A n \in 1..Len(items) : \A y \in Lists :
          <<n - 1, y>> \in good => <<n, f[<<y, items[n]>>]>> \in good
    BY <1>5
  <2>2. <<>> \in Lists
    BY DEF Lists, Application!Lists
  <2> QED BY <1>1, <1>4, <1>6, <2>1, <2>2, AccumulatedKeeps DEF r
<1>8. Distinct(r) /\ Application!Range(r) = Till(Len(items))
  <2> HIDE DEF r, Till
  <2> QED BY <1>7
<1>9. Till(Len(items)) = S \cup UNION {Borrow(g_bound, i) : i \in S}
  <2>1. S = First(Len(items))
    BY <1>1 DEF S, Application!Range
  <2>2. Wants(Len(items)) = UNION {Borrow(g_bound, i) : i \in First(Len(items))}
    OBVIOUS
  <2> HIDE DEF First, Wants
  <2> QED BY <2>1, <2>2
<1> QED
  <2> HIDE DEF Till, f
  <2> QED BY <1>7, <1>8, <1>9 DEF r, f, S, Application!_discover_shared_providers

\* The same items in another order.
Reorders(r, s) ==
  /\ r \in Lists /\ Len(r) = Len(s) /\ Distinct(r)
  /\ Application!Range(r) = Application!Range(s)

LEMMA PositionIs ==
  ASSUME NEW s \in Lists, Distinct(s), NEW i \in Application!Range(s)
  PROVE  Application!Position(s, i) \in 1..Len(s) /\ s[Application!Position(s, i)] = i
<1>1. Len(s) \in Nat /\ DOMAIN s = 1..Len(s)
  BY DEF Lists, Application!Lists
<1>2. PICK n \in DOMAIN s : s[n] = i
  BY DEF Application!Range
<1>3. \A m \in 1..(n - 1) : s[m] # i
  <2>1. ASSUME NEW m \in 1..(n - 1) PROVE m \in DOMAIN s /\ m # n
    BY <1>1, <1>2
  <2> QED BY <1>2, <2>1 DEF Distinct
<1> DEFINE P(k) == k \in DOMAIN s /\ s[k] = i /\ \A m \in 1..(k - 1) : s[m] # i
<1>4. P(n)
  BY <1>2, <1>3
<1>5. Application!Position(s, i) = CHOOSE k \in DOMAIN s : s[k] = i /\ \A m \in 1..(k - 1) : s[m] # i
  BY DEF Application!Position
<1>6. P(Application!Position(s, i))
  BY <1>4, <1>5
<1> QED BY <1>1, <1>6

\* A provider that moves to the front of an item passes those between.
LEMMA MovedList ==
  ASSUME NEW s \in Lists, Distinct(s), NEW p \in Application!Range(s), NEW n \in 1..Len(s)
  PROVE  LET r == Application!_move_provider_ahead(s, p, n)
         IN  /\ Reorders(r, s) /\ \A k \in 1..(n - 1) : r[k] = s[k]
             /\ r[n] = p \/ (r = s /\ \E k \in 1..n : s[k] = p)
<1> DEFINE q == Application!Position(s, p)
           r == Application!_move_provider_ahead(s, p, n)
           moved == [k \in 1..Len(s) |-> IF k < n \/ k > q THEN s[k] ELSE IF k = n THEN p ELSE s[k - 1]]
<1>1. s \in Seq(Application!Items) /\ Len(s) \in Nat /\ DOMAIN s = 1..Len(s)
  BY DEF Lists, Application!Lists
<1>2. q \in 1..Len(s) /\ s[q] = p
  BY PositionIs
<1>3. r = IF q <= n THEN s ELSE moved
  BY DEF Application!_move_provider_ahead
<1> HIDE DEF q
<1>4. CASE q <= n
  <2>1. q \in 1..n
    BY <1>1, <1>2, <1>4
  <2>2. r = s
    BY <1>3, <1>4
  <2>3. Reorders(s, s)
    BY DEF Reorders
  <2>4. s[q] = p
    BY <1>2
  <2> HIDE DEF r
  <2> QED BY <2>1, <2>2, <2>3, <2>4 DEF r
<1>5. CASE ~ (q <= n)
  <2>1. r = moved
    BY <1>3, <1>5
  <2>2. n < q /\ q <= Len(s) /\ q \in Nat /\ n \in Nat
    BY <1>1, <1>2, <1>5
  <2>3. ASSUME NEW k \in 1..Len(s)
        PROVE  /\ k < n => moved[k] = s[k]
               /\ k > q => moved[k] = s[k]
               /\ k = n => moved[k] = p
               /\ n < k /\ k <= q => moved[k] = s[k - 1] /\ k - 1 \in 1..Len(s)
    BY <1>1, <2>2
  <2>4. DOMAIN moved = 1..Len(s)
    OBVIOUS
  <2>5. ASSUME NEW k \in 1..Len(s) PROVE moved[k] \in Application!Items
    <3>1. \A j \in 1..Len(s) : s[j] \in Application!Items
      BY <1>1
    <3>2. p \in Application!Items
      BY <1>2, <3>1
    <3>3. k < n \/ k > q \/ k = n \/ (n < k /\ k <= q)
      BY <1>1, <2>2
    <3> HIDE DEF moved
    <3> QED BY <2>3, <3>1, <3>2, <3>3
  <2>6. moved \in Seq(Application!Items) /\ Len(moved) = Len(s)
    <3>1. moved \in [1..Len(s) -> Application!Items]
      BY <2>5
    <3> HIDE DEF moved
    <3> QED BY <1>1, <3>1
  \* Where an element of the new list was.
  <2> DEFINE from(k) == IF k < n \/ k > q THEN k ELSE IF k = n THEN q ELSE k - 1
             to(k) == IF k < n \/ k > q THEN k ELSE IF k = q THEN n ELSE k + 1
  <2>7. \A k \in 1..Len(s) : from(k) \in 1..Len(s) /\ moved[k] = s[from(k)]
    BY <1>1, <1>2, <2>2
  <2>8. \A k, j \in 1..Len(s) : from(k) = from(j) => k = j
    BY <1>1, <2>2
  <2>9. \A k \in 1..Len(s) : to(k) \in 1..Len(s) /\ from(to(k)) = k
    BY <1>1, <2>2
  <2> HIDE DEF moved, from, to
  <2>10. Distinct(moved)
    BY <1>1, <2>4, <2>7, <2>8 DEF Distinct
  <2>11. Application!Range(moved) = Application!Range(s)
    <3>1. Application!Range(moved) = {moved[k] : k \in 1..Len(s)}
      BY <2>4 DEF Application!Range
    <3>2. Application!Range(s) = {s[k] : k \in 1..Len(s)}
      BY <1>1 DEF Application!Range
    <3>3. \A k \in 1..Len(s) : s[k] = moved[to(k)]
      BY <2>7, <2>9
    <3>4. {moved[k] : k \in 1..Len(s)} \subseteq {s[k] : k \in 1..Len(s)}
      BY <2>7
    <3>5. {s[k] : k \in 1..Len(s)} \subseteq {moved[k] : k \in 1..Len(s)}
      BY <2>9, <3>3
    <3> QED BY <3>1, <3>2, <3>4, <3>5
  <2>12. \A k \in 1..(n - 1) : k \in 1..Len(s) /\ k < n
    BY <1>1
  <2>13. Reorders(moved, s)
    BY <2>6, <2>10, <2>11 DEF Reorders, Lists, Application!Lists
  <2>14. moved[n] = p /\ \A k \in 1..(n - 1) : moved[k] = s[k]
    BY <2>3, <2>12
  <2> HIDE DEF r
  <2> QED BY <2>1, <2>13, <2>14 DEF r
<1> QED BY <1>4, <1>5

LEMMA AheadTyped ==
  ASSUME NEW n \in Nat \ {0}
  PROVE  /\ Application!Ahead(n) \in [Lists \X Bindings -> Lists]
         /\ \A y \in Lists, b \in Bindings :
              Application!Ahead(n)[<<y, b>>] =
                IF b.owns THEN y ELSE Application!_move_provider_ahead(y, b.provider, n)
<1> DEFINE f == Application!Ahead(n)
<1>1. ASSUME NEW y \in Lists, NEW b \in Bindings
      PROVE  f[<<y, b>>] = IF b.owns THEN y ELSE Application!_move_provider_ahead(y, b.provider, n)
  <2>1. <<y, b>> \in Application!Lists \X Application!Bindings
    BY DEF Lists, Bindings
  <2> QED BY <2>1 DEF Application!Ahead
<1>2. ASSUME NEW y \in Lists, NEW b \in Bindings PROVE f[<<y, b>>] \in Lists
  <2>1. b.provider \in Application!Items
    BY BindingFields DEF Application!Items
  <2>2. y \in Seq(Application!Items) /\ Len(y) \in Nat
    BY DEF Lists, Application!Lists
  <2> DEFINE p == b.provider
             q == Application!Position(y, p)
             moved == [k \in 1..Len(y) |-> IF k < n \/ k > q THEN y[k] ELSE IF k = n THEN p ELSE y[k - 1]]
  <2>3. Application!_move_provider_ahead(y, p, n) \in {y, moved}
    BY DEF Application!_move_provider_ahead
  <2> HIDE DEF q
  <2>4. ASSUME NEW k \in 1..Len(y) PROVE moved[k] \in Application!Items
    <3>1. CASE k < n \/ k > q
      BY <2>2, <3>1
    <3>2. CASE ~ (k < n \/ k > q)
      <4>1. k = n \/ k - 1 \in 1..Len(y)
        BY <2>2, <3>2
      <4> QED BY <2>1, <2>2, <3>2, <4>1
    <3> QED BY <3>1, <3>2
  <2>5. moved \in [1..Len(y) -> Application!Items]
    BY <2>4
  <2> HIDE DEF moved
  <2>6. moved \in Seq(Application!Items)
    BY <2>2, <2>5
  <2> QED BY <1>1, <2>3, <2>6 DEF Lists, Application!Lists
<1>3. f \in [Lists \X Bindings -> Lists]
  <2>1. f = [y \in Lists \X Bindings |-> f[y]]
    BY DEF Application!Ahead, Lists, Bindings
  <2>2. ASSUME NEW y \in Lists \X Bindings PROVE f[y] \in Lists
    <3>1. y = <<y[1], y[2]>> /\ y[1] \in Lists /\ y[2] \in Bindings
      OBVIOUS
    <3> HIDE DEF f
    <3> QED BY <1>2, <3>1
  <2> HIDE DEF f
  <2> QED BY <2>1, <2>2
<1> QED
  <2> HIDE DEF f
  <2>1. f \in [Lists \X Bindings -> Lists]
    BY <1>3
  <2> QED BY <1>1, <2>1 DEF f

\* A visit to a position puts there what no one has to wait for.
LEMMA VisitedPosition ==
  ASSUME Typed, Providers \cap Components = {},
         NEW s \in Lists, Distinct(s), NEW n \in 1..Len(s),
         Borrow(g_bound, s[n]) \subseteq Application!Range(s)
  PROVE  LET r == Application!Accumulated(Application!Ahead(n), s,
                                          Application!_iter_provider_backends(s[n]))
         IN  /\ Reorders(r, s) /\ \A k \in 1..(n - 1) : r[k] = s[k]
             /\ \/ r[n] \in Providers
                \/ r[n] = s[n] /\ Borrow(g_bound, s[n]) \subseteq {s[k] : k \in 1..(n - 1)}
<1> DEFINE of == Parts(g_bound, s[n])
           f == Application!Ahead(n)
           Till(m) == {of[k].provider : k \in {j \in 1..m : ~ of[j].owns}}
           Before(y) == \A k \in 1..(n - 1) : y[k] = s[k]
           Done(m, y) == y[n] \in Providers \/ (y = s /\ Till(m) \subseteq {s[k] : k \in 1..(n - 1)})
           good == {z \in Nat \X Lists : Reorders(z[2], s) /\ Before(z[2]) /\ Done(z[1], z[2])}
<1>1. of \in Seq(Bindings) /\ Application!_iter_provider_backends(s[n]) = of
  BY PartsTyped
<1>2. s[n] \notin Components => of = <<>>
  BY DEF Parts
<1>3. Borrow(g_bound, s[n]) = Till(Len(of))
  <2>1. DOMAIN of = 1..Len(of)
    BY <1>1
  <2> QED BY <2>1 DEF Borrow
<1> HIDE DEF of
<1>4. s \in Seq(Application!Items) /\ Len(s) \in Nat /\ DOMAIN s = 1..Len(s) /\ n \in Nat \ {0}
  BY DEF Lists, Application!Lists
<1>5. /\ f \in [Lists \X Bindings -> Lists]
      /\ \A y \in Lists, b \in Bindings :
           f[<<y, b>>] = IF b.owns THEN y ELSE Application!_move_provider_ahead(y, b.provider, n)
  BY <1>4, AheadTyped
<1> HIDE DEF f
<1>6. <<0, s>> \in good
  <2>1. Till(0) = {}
    OBVIOUS
  <2>2. Reorders(s, s)
    BY DEF Reorders
  <2> HIDE DEF Till
  <2> QED BY <2>1, <2>2
<1>7. ASSUME NEW m \in 1..Len(of), NEW y \in Lists, <<m - 1, y>> \in good
      PROVE  <<m, f[<<y, of[m]>>]>> \in good
  <2>1. Len(of) \in Nat /\ m \in Nat /\ m - 1 \in Nat /\ of[m] \in Bindings
    BY <1>1
  <2> DEFINE p == of[m].provider
  <2>2. p \in Providers /\ of[m].owns \in BOOLEAN
    BY <2>1, BindingFields
  <2>3. Reorders(y, s) /\ Before(y) /\ Done(m - 1, y)
    BY <1>7
  <2>4. Till(m) = Till(m - 1) \cup (IF of[m].owns THEN {} ELSE {p})
    <3>1. 1..m = (1..(m - 1)) \cup {m}
      BY <2>1
    <3> QED BY <3>1
  <2>5. ~ of[m].owns => p \in Till(Len(of))
    BY <1>1
  <2> HIDE DEF Till
  <2>6. CASE of[m].owns
    <3>1. f[<<y, of[m]>>] = y
      BY <1>5, <2>1, <2>6
    <3>2. Done(m, y)
      BY <2>3, <2>4, <2>6
    <3> HIDE DEF Before, Done
    <3> QED BY <2>1, <2>3, <3>1, <3>2
  <2>7. CASE ~ of[m].owns
    <3> DEFINE z == Application!_move_provider_ahead(y, p, n)
    <3>1. f[<<y, of[m]>>] = z
      BY <1>5, <2>1, <2>7
    <3>2. p \in Application!Range(y) /\ Distinct(y) /\ n \in 1..Len(y)
      BY <1>3, <2>3, <2>5, <2>7 DEF Reorders
    <3>3. /\ Reorders(z, y) /\ \A k \in 1..(n - 1) : z[k] = y[k]
          /\ z[n] = p \/ (z = y /\ \E k \in 1..n : y[k] = p)
      BY <3>2, MovedList
    <3> HIDE DEF z
    <3>4. Reorders(z, s) /\ Before(z)
      BY <2>3, <3>3 DEF Reorders
    <3>5. Done(m, z)
      <4>1. CASE z[n] = p
        BY <2>2, <4>1
      <4>2. CASE z = y /\ \E k \in 1..n : y[k] = p
        <5>1. CASE y[n] \in Providers
          BY <4>2, <5>1
        <5>2. CASE y = s /\ Till(m - 1) \subseteq {s[k] : k \in 1..(n - 1)}
          <6>1. PICK k \in 1..n : s[k] = p
            BY <4>2, <5>2
          <6>2. s[n] \in Components
            BY <1>2, <2>1, <1>1
          <6>3. k # n
            BY <2>2, <6>1, <6>2
          <6>4. k \in 1..(n - 1)
            BY <1>4, <6>1, <6>3
          <6>5. Till(m) \subseteq {s[j] : j \in 1..(n - 1)}
            BY <2>4, <2>7, <5>2, <6>1, <6>4
          <6> QED BY <4>2, <5>2, <6>5
        <5> QED BY <2>3, <5>1, <5>2
      <4> QED BY <3>3, <4>1, <4>2
    <3>6. z \in Lists
      BY <3>4 DEF Reorders
    <3> HIDE DEF Before, Done
    <3> QED BY <2>1, <3>1, <3>4, <3>5, <3>6
  <2> QED BY <2>6, <2>7
<1> DEFINE r == Application!Accumulated(f, s, of)
<1>8. r \in Lists /\ <<Len(of), r>> \in good
  <2> HIDE DEF good, r
  <2>1. \A m \in 1..Len(of) : \A y \in Lists : <<m - 1, y>> \in good => <<m, f[<<y, of[m]>>]>> \in good
    BY <1>7
  <2>2. r \in Lists /\ <<Len(of), r>> \in good
    BY <1>1, <1>5, <1>6, <2>1, AccumulatedKeeps, Zenon DEF r
  <2> QED BY <2>2
<1> HIDE DEF r
<1>9. Reorders(r, s) /\ Before(r) /\ Done(Len(of), r)
  <2> HIDE DEF Before, Done
  <2> QED BY <1>8
<1> QED
  <2>1. \/ r[n] \in Providers
        \/ r[n] = s[n] /\ Borrow(g_bound, s[n]) \subseteq {s[k] : k \in 1..(n - 1)}
    <3> HIDE DEF Till
    <3> QED BY <1>3, <1>9
  <2>2. Reorders(r, s) /\ \A k \in 1..(n - 1) : r[k] = s[k]
    BY <1>9
  <2>3. r = Application!Accumulated(Application!Ahead(n), s, Application!_iter_provider_backends(s[n]))
    BY <1>1, Zenon DEF r, f
  <2> HIDE DEF Till
  <2> QED BY <2>1, <2>2, <2>3, Zenon

LEMMA WalkTyped ==
  ASSUME Typed, NEW items \in Lists
  PROVE  /\ Application!Walk(items) \in [Lists \X (1..Len(items)) -> Lists]
         /\ \A y \in Lists : \A n \in 1..Len(items) :
              Application!Walk(items)[<<y, n>>] =
                Application!Accumulated(Application!Ahead(n), y,
                                        Application!_iter_provider_backends(y[n]))
<1> DEFINE f == Application!Walk(items)
           Reached(y, n) == Application!Accumulated(Application!Ahead(n), y,
                                                    Application!_iter_provider_backends(y[n]))
<1>1. ASSUME NEW y \in Lists, NEW n \in 1..Len(items) PROVE f[<<y, n>>] = Reached(y, n)
  <2>1. <<y, n>> \in Application!Lists \X (1..Len(items))
    BY DEF Lists
  <2> QED BY <2>1 DEF Application!Walk
<1>2. ASSUME NEW y \in Lists, NEW n \in 1..Len(items) PROVE Reached(y, n) \in Lists
  <2> DEFINE of == Parts(g_bound, y[n])
             g == Application!Ahead(n)
  <2>1. of \in Seq(Bindings) /\ Application!_iter_provider_backends(y[n]) = of
    BY PartsTyped
  <2> HIDE DEF of
  <2>2. n \in Nat \ {0}
    BY DEF Lists, Application!Lists
  <2>3. g \in [Lists \X Bindings -> Lists]
    BY <2>2, AheadTyped
  <2> HIDE DEF g
  <2>4. <<0, y>> \in Nat \X Lists
    OBVIOUS
  <2>5. \A m \in 1..Len(of) : \A z \in Lists :
          <<m - 1, z>> \in Nat \X Lists => <<m, g[<<z, of[m]>>]>> \in Nat \X Lists
    <3>1. ASSUME NEW m \in 1..Len(of), NEW z \in Lists PROVE <<m, g[<<z, of[m]>>]>> \in Nat \X Lists
      <4>1. of[m] \in Bindings /\ m \in Nat
        BY <2>1
      <4> QED BY <2>3, <4>1
    <3> QED BY <3>1
  <2>6. Application!Accumulated(g, y, of) \in Lists
    BY <2>1, <2>3, <2>4, <2>5, AccumulatedKeeps
  <2> QED BY <2>1, <2>6 DEF g
<1> HIDE DEF Reached
<1>3. f \in [Lists \X (1..Len(items)) -> Lists]
  <2>1. f = [y \in Lists \X (1..Len(items)) |-> f[y]]
    BY DEF Application!Walk, Lists
  <2>2. ASSUME NEW y \in Lists \X (1..Len(items)) PROVE f[y] \in Lists
    <3>1. y = <<y[1], y[2]>> /\ y[1] \in Lists /\ y[2] \in 1..Len(items)
      OBVIOUS
    <3>2. f[<<y[1], y[2]>>] = Reached(y[1], y[2])
      BY <1>1, <3>1
    <3> HIDE DEF f
    <3> QED BY <1>2, <3>1, <3>2
  <2> HIDE DEF f
  <2> QED BY <2>1, <2>2
<1> QED
  <2> HIDE DEF f
  <2>1. f \in [Lists \X (1..Len(items)) -> Lists]
    BY <1>3
  <2> QED BY <1>1, <2>1 DEF f, Reached

LEMMA ProvidersBorrowNothing ==
  ASSUME Providers \cap Components = {}, NEW i \in Providers
  PROVE  Borrow(g_bound, i) = {} /\ Keep(g_bound, i) = {}
<1>1. Parts(g_bound, i) = <<>>
  BY DEF Parts
<1> QED BY <1>1 DEF Borrow, Keep

\* Ordering leaves the same items, each after what it borrows.
LEMMA OrderedList ==
  ASSUME Typed, Providers \cap Components = {}, NEW items \in Lists, Distinct(items),
         \A i \in Application!Range(items) : Borrow(g_bound, i) \subseteq Application!Range(items)
  PROVE  LET r == Application!_order_providers_before_dependents(items)
         IN  /\ Reorders(r, items)
             /\ \A n \in 1..Len(items) : Borrow(g_bound, r[n]) \subseteq {r[k] : k \in 1..(n - 1)}
<1> DEFINE f == Application!Walk(items)
           T == 1..Len(items)
           all == [n \in 1..Len(items) |-> n]
           Fine(y, k) == Borrow(g_bound, y[k]) \subseteq {y[j] : j \in 1..(k - 1)}
           good == {z \in Nat \X Lists : Reorders(z[2], items) /\ \A k \in 1..z[1] : Fine(z[2], k)}
<1>1. Len(items) \in Nat
  BY DEF Lists, Application!Lists
<1>2. all \in Seq(T) /\ Len(all) = Len(items) /\ \A n \in 1..Len(items) : all[n] = n
  BY <1>1
<1> HIDE DEF all
<1>3. /\ f \in [Lists \X T -> Lists]
      /\ \A y \in Lists : \A n \in T :
           f[<<y, n>>] = Application!Accumulated(Application!Ahead(n), y,
                                                 Application!_iter_provider_backends(y[n]))
  BY WalkTyped
<1> HIDE DEF f
<1>4. <<0, items>> \in good
  <2>1. Reorders(items, items)
    BY DEF Reorders
  <2> HIDE DEF Fine
  <2> QED BY <2>1
<1>5. ASSUME NEW n \in T, NEW y \in Lists, <<n - 1, y>> \in good
      PROVE  <<n, f[<<y, n>>]>> \in good
  <2> DEFINE z == f[<<y, n>>]
  <2>1. n \in Nat /\ n - 1 \in Nat
    BY <1>1
  <2>2. Reorders(y, items) /\ \A k \in 1..(n - 1) : Fine(y, k)
    <3> HIDE DEF Fine
    <3> QED BY <1>5
  <2>3. Distinct(y) /\ n \in 1..Len(y) /\ Borrow(g_bound, y[n]) \subseteq Application!Range(y)
    <3>1. Distinct(y) /\ n \in 1..Len(y) /\ Application!Range(y) = Application!Range(items)
      BY <2>2 DEF Reorders
    <3>2. n \in DOMAIN y
      BY <3>1 DEF Lists, Application!Lists
    <3>3. y[n] \in Application!Range(items)
      BY <3>1, <3>2 DEF Application!Range
    <3> QED BY <3>1, <3>3
  <2>4. /\ Reorders(z, y) /\ \A k \in 1..(n - 1) : z[k] = y[k]
        /\ \/ z[n] \in Providers
           \/ z[n] = y[n] /\ Borrow(g_bound, y[n]) \subseteq {y[k] : k \in 1..(n - 1)}
    <3>1. z = Application!Accumulated(Application!Ahead(n), y, Application!_iter_provider_backends(y[n]))
      BY <1>3
    <3> HIDE DEF z
    <3> QED BY <2>3, <3>1, VisitedPosition
  <2> HIDE DEF z
  <2>5. Reorders(z, items)
    BY <2>2, <2>4 DEF Reorders
  <2>6. ASSUME NEW k \in 1..n PROVE Fine(z, k)
    <3>1. {z[j] : j \in 1..(k - 1)} = {y[j] : j \in 1..(k - 1)}
      <4>1. \A j \in 1..(k - 1) : z[j] = y[j]
        BY <2>1, <2>4
      <4> QED BY <4>1
    <3>2. CASE k \in 1..(n - 1)
      <4>1. z[k] = y[k] /\ Fine(y, k)
        <5> HIDE DEF Fine
        <5> QED BY <2>2, <2>4, <3>2
      <4> QED BY <3>1, <4>1
    <3>3. CASE k = n /\ z[n] \in Providers
      BY <3>3, ProvidersBorrowNothing
    <3>4. CASE k = n /\ z[n] = y[n] /\ Borrow(g_bound, y[n]) \subseteq {y[j] : j \in 1..(n - 1)}
      BY <3>1, <3>4
    <3>5. k \in 1..(n - 1) \/ k = n
      BY <2>1
    <3> QED BY <2>4, <3>2, <3>3, <3>4, <3>5
  <2>7. z \in Lists
    BY <2>5 DEF Reorders
  <2>8. <<n, z>> \in good
    <3> HIDE DEF Fine
    <3> QED BY <2>1, <2>5, <2>6, <2>7
  <2> QED BY <2>8 DEF z
<1> DEFINE r == Application!Accumulated(f, items, all)
<1>6. r \in Lists /\ <<Len(all), r>> \in good
  <2> HIDE DEF good, r
  <2>1. \A n \in 1..Len(all) : \A y \in Lists : <<n - 1, y>> \in good => <<n, f[<<y, all[n]>>]>> \in good
    <3> HIDE DEF good
    <3>1. ASSUME NEW n \in 1..Len(all), NEW y \in Lists, <<n - 1, y>> \in good
          PROVE  <<n, f[<<y, all[n]>>]>> \in good
      <4>1. n \in T /\ all[n] = n
        BY <1>2
      <4>2. <<n, f[<<y, n>>]>> \in good
        BY <1>5, <3>1, <4>1
      <4> QED BY <4>1, <4>2
    <3> QED BY <3>1
  <2> HIDE DEF T
  <2>2. all \in Seq(T) /\ f \in [Lists \X T -> Lists]
    BY <1>2, <1>3
  <2>3. Loops(Lists, T, all, f, items, good)
    BY <1>4, <2>1, <2>2 DEF Loops
  <2> QED BY <2>3, LoopsKeep DEF r
<1> HIDE DEF r
<1>7. Reorders(r, items) /\ \A n \in 1..Len(items) : Fine(r, n)
  <2> HIDE DEF Fine
  <2> QED BY <1>2, <1>6
<1>8. r = Application!_order_providers_before_dependents(items)
  BY Zenon DEF r, f, all, Application!_order_providers_before_dependents
<1> QED BY <1>7, <1>8, Zenon

\* Some owner of a pool is the first one in the list.
LEMMA FirstOwnerIs ==
  ASSUME NEW items \in Lists, NEW x \in Application!Owning(items)
  PROVE  LET y == Application!FirstOwner(items, x)
         IN  /\ y \in Application!Owning(items)
             /\ y = x \/ Application!Before(y, x)
             /\ Application!FirstOwner(items, y) = y
<1> DEFINE O == Application!Owning(items)
           pool(y) == Pool[Application!OwnedAt(items, y)]
           Least(y, z) == /\ y \in O /\ pool(y) = pool(z)
                          /\ \A u \in O : pool(u) = pool(z) => y = u \/ Application!Before(y, u)
           first(z) == Application!FirstOwner(items, z)
<1>1. ASSUME NEW y \in O PROVE y = <<y[1], y[2]>> /\ y[1] \in Nat /\ y[2] \in Nat
  BY DEF Application!Owning
<1>2. ASSUME NEW y, NEW z PROVE Least(y, z) => Least(first(z), z)
  BY Zenon DEF Application!FirstOwner
<1>3. x \in O
  OBVIOUS
<1> HIDE DEF O, pool, first
<1>4. \E y : Least(y, x)
  <2> DEFINE S == {y[1] : y \in {u \in O : pool(u) = pool(x)}}
  <2>1. S \subseteq Nat /\ S # {}
    BY <1>1, <1>3
  <2>2. PICK n \in S : \A k \in S : n <= k
    BY <2>1, LeastNatural
  <2> DEFINE R == {y[2] : y \in {u \in O : pool(u) = pool(x) /\ u[1] = n}}
  <2>3. R \subseteq Nat /\ R # {}
    BY <1>1, <2>2
  <2>4. PICK m \in R : \A k \in R : m <= k
    BY <2>3, LeastNatural
  <2>5. PICK y \in O : pool(y) = pool(x) /\ y[1] = n /\ y[2] = m
    BY <2>4
  <2>6. ASSUME NEW u \in O, pool(u) = pool(x) PROVE y = u \/ Application!Before(y, u)
    <3>1. u[1] \in S
      BY <2>6
    <3>2. n <= u[1] /\ (u[1] = n => u[2] \in R)
      BY <2>2, <2>6, <3>1
    <3>3. u[1] = n => m <= u[2]
      BY <2>4, <3>2
    <3>4. /\ y = <<n, m>> /\ n \in Nat /\ m \in Nat
          /\ u = <<u[1], u[2]>> /\ u[1] \in Nat /\ u[2] \in Nat
      BY <1>1, <2>5
    <3> HIDE DEF S, R
    <3> QED BY <2>5, <3>2, <3>3, <3>4 DEF Application!Before
  <2> QED BY <2>5, <2>6
<1> DEFINE y == first(x)
<1>5. Least(y, x)
  BY <1>2, <1>4
<1>6. Least(y, y)
  BY <1>5
<1>7. Least(first(y), y)
  BY <1>2, <1>6
<1> HIDE DEF y
<1>8. first(y) = y
  <2>1. first(y) \in O /\ y \in O
    BY <1>6, <1>7
  <2>2. y = first(y) \/ (Application!Before(y, first(y)))
    BY <1>6, <1>7
  <2>3. first(y) = y \/ Application!Before(first(y), y)
    BY <1>6, <1>7
  <2>4. ~ (Application!Before(first(y), y) /\ Application!Before(y, first(y)))
    BY <1>1, <2>1 DEF Application!Before
  <2> QED BY <2>2, <2>3, <2>4
<1>9. y \in O /\ (y = x \/ Application!Before(y, x))
  BY <1>3, <1>5
<1> QED BY <1>8, <1>9 DEF y, first, O

\* What sharing leaves of the backends: the first owner owns, the others borrow from it.
LEMMA ResolvedBindings ==
  ASSUME Typed, \A c \in Components : Len(g_bound[c]) <= 3, Providers \cap Components = {},
         NEW items \in Lists, Distinct(items)
  PROVE  LET r == Application!_resolve_provider_sharing(items)
         IN  /\ r \in [Components -> Seq(Bindings)]
             /\ \A c \in Components : Len(r[c]) = Len(g_bound[c])
             /\ \A c \in Components : c \notin Application!Range(items) => r[c] = g_bound[c]
             /\ \A c \in Components : \A m \in DOMAIN g_bound[c] : ~ g_bound[c][m].owns => r[c][m] = g_bound[c][m]
             /\ \A n \in 1..Len(items) : items[n] \in Components =>
                  \A m \in DOMAIN g_bound[items[n]] : g_bound[items[n]][m].owns =>
                    \/ r[items[n]][m] = g_bound[items[n]][m]
                    \/ /\ ~ r[items[n]][m].owns
                       /\ \E k \in 1..n : /\ r[items[n]][m].provider \in Keep(g_bound, items[k])
                                          /\ r[items[n]][m].provider \in Keep(r, items[k])
<1> DEFINE r == Application!_resolve_provider_sharing(items)
           O == Application!Owning(items)
<1>1. Len(items) \in Nat /\ DOMAIN items = 1..Len(items) /\ items \in Seq(Application!Items)
  BY DEF Lists, Application!Lists
<1>2. ASSUME NEW c \in Components
      PROVE  /\ g_bound[c] \in Seq(Bindings) /\ Len(g_bound[c]) \in Nat /\ Len(g_bound[c]) <= 3
             /\ DOMAIN g_bound[c] = 1..Len(g_bound[c])
  <2>1. g_bound[c] \in Seq(Bindings) /\ Len(g_bound[c]) <= 3
    BY DEF Typed
  <2>2. Len(g_bound[c]) \in Nat /\ DOMAIN g_bound[c] = 1..Len(g_bound[c])
    BY <2>1
  <2> QED BY <2>1, <2>2
<1>3. ASSUME NEW n \in 1..Len(items), items[n] \in Components
      PROVE  Application!Position(items, items[n]) = n
  <2>1. items[n] \in Application!Range(items)
    BY <1>1 DEF Application!Range
  <2> DEFINE q == Application!Position(items, items[n])
  <2>2. q \in DOMAIN items /\ items[q] = items[n]
    BY <1>1, <2>1, PositionIs
  <2> HIDE DEF q
  <2>3. q = n
    BY <1>1, <2>2 DEF Distinct
  <2> QED BY <2>3 DEF q
<1>4. ASSUME NEW n \in 1..Len(items), NEW m
      PROVE  <<n, m>> \in O <=> /\ items[n] \in Components /\ m \in DOMAIN g_bound[items[n]]
                                /\ g_bound[items[n]][m].owns
  <2>1. items[n] \in Components => (m \in DOMAIN g_bound[items[n]] => m \in 1..3)
    BY <1>2
  <2>2. Application!_iter_provider_backends(items[n]) =
          IF items[n] \in Components THEN g_bound[items[n]] ELSE <<>>
    BY DEF Application!_iter_provider_backends
  <2> DEFINE of == Application!_iter_provider_backends(items[n])
  <2>3. <<n, m>> \in O <=> m \in 1..3 /\ m \in DOMAIN of /\ of[m].owns
    BY DEF Application!Owning
  <2> HIDE DEF of
  <2>4. items[n] \notin Components => DOMAIN of = {}
    BY <2>2 DEF of
  <2>5. items[n] \in Components => of = g_bound[items[n]]
    BY <2>2 DEF of
  <2> QED BY <2>1, <2>3, <2>4, <2>5
<1>5. ASSUME NEW n \in 1..Len(items), items[n] \in Components, NEW m \in DOMAIN g_bound[items[n]]
      PROVE  r[items[n]][m] = IF <<n, m>> \in O
                              THEN [provider |-> Application!OwnedAt(items, Application!FirstOwner(items, <<n, m>>)),
                                    owns |-> Application!FirstOwner(items, <<n, m>>) = <<n, m>>]
                              ELSE g_bound[items[n]][m]
  <2>1. items[n] \in Application!Range(items)
    BY <1>1 DEF Application!Range
  <2>2. r[items[n]] = [k \in DOMAIN g_bound[items[n]] |->
                         Application!_rebind_provider(items, <<Application!Position(items, items[n]), k>>)]
    BY <1>5, <2>1 DEF Application!_resolve_provider_sharing
  <2>3. r[items[n]][m] = Application!_rebind_provider(items, <<n, m>>)
    BY <1>3, <1>5, <2>2
  <2> QED BY <2>3 DEF Application!_rebind_provider
<1>6. ASSUME NEW c \in Components, c \notin Application!Range(items) PROVE r[c] = g_bound[c]
  BY <1>6 DEF Application!_resolve_provider_sharing
<1>7. ASSUME NEW c \in Components PROVE DOMAIN r[c] = DOMAIN g_bound[c]
  BY DEF Application!_resolve_provider_sharing
<1>8. DOMAIN r = Components /\ r = [c \in Components |-> r[c]]
  BY DEF Application!_resolve_provider_sharing
<1>9. ASSUME NEW c \in Components
      PROVE  c \notin Application!Range(items) \/ \E n \in 1..Len(items) : c = items[n]
  BY <1>1 DEF Application!Range
<1> HIDE DEF r, O
\* The backend that owns after sharing what it owned before.
<1>10. ASSUME NEW n \in 1..Len(items), items[n] \in Components, NEW m \in DOMAIN g_bound[items[n]],
              <<n, m>> \in O
       PROVE  /\ r[items[n]][m] \in Bindings
              /\ \/ r[items[n]][m] = g_bound[items[n]][m]
                 \/ /\ ~ r[items[n]][m].owns
                    /\ \E k \in 1..n : /\ r[items[n]][m].provider \in Keep(g_bound, items[k])
                                       /\ r[items[n]][m].provider \in Keep(r, items[k])
  <2> DEFINE x == <<n, m>>
             y == Application!FirstOwner(items, x)
             b == r[items[n]][m]
  <2>1. y \in O /\ (y = x \/ Application!Before(y, x)) /\ Application!FirstOwner(items, y) = y
    BY <1>10, FirstOwnerIs DEF O
  <2>2. b = [provider |-> Application!OwnedAt(items, y), owns |-> y = x]
    BY <1>5, <1>10
  <2> HIDE DEF y
  <2>3. PICK k \in 1..Len(items), j \in 1..3 : y = <<k, j>>
    BY <2>1 DEF O, Application!Owning
  <2>4. items[k] \in Components /\ j \in DOMAIN g_bound[items[k]] /\ g_bound[items[k]][j].owns
    BY <1>4, <2>1, <2>3
  <2>5. g_bound[items[k]][j] \in Bindings
    BY <1>2, <2>4
  <2>6. Application!OwnedAt(items, y) = g_bound[items[k]][j].provider
    BY <2>3 DEF Application!OwnedAt
  <2>7. (y = x) \in BOOLEAN /\ g_bound[items[k]][j].provider \in Providers
    BY <2>5, BindingFields
  <2>8. b \in Bindings
    BY <2>2, <2>6, <2>7 DEF Bindings, Application!Bindings
  <2>9. CASE y = x
    <3>1. k = n /\ j = m
      BY <2>3, <2>9
    <3>2. g_bound[items[n]][m] \in Bindings /\ g_bound[items[n]][m].owns
      BY <2>4, <2>5, <3>1
    <3>3. g_bound[items[n]][m] = [provider |-> g_bound[items[n]][m].provider, owns |-> TRUE]
      BY <3>2 DEF Bindings, Application!Bindings
    <3>4. b = [provider |-> g_bound[items[n]][m].provider, owns |-> TRUE]
      BY <2>2, <2>6, <2>9, <3>1
    <3> QED BY <2>8, <3>3, <3>4
  <2>10. CASE y # x
    <3>1. ~ b.owns /\ b.provider = g_bound[items[k]][j].provider
      <4>1. (y = x) = FALSE
        BY <2>10
      <4>2. b = [provider |-> g_bound[items[k]][j].provider, owns |-> FALSE]
        BY <2>2, <2>6, <4>1
      <4> QED BY <4>2
    <3>2. k \in 1..n
      BY <1>1, <2>1, <2>3, <2>10 DEF Application!Before
    <3>3. b.provider \in Keep(g_bound, items[k])
      BY <2>4, <3>1 DEF Keep, Parts
    <3>4. r[items[k]][j] = [provider |-> Application!OwnedAt(items, y), owns |-> TRUE]
      <4>1. r[items[k]][j] = [provider |-> Application!OwnedAt(items, Application!FirstOwner(items, <<k, j>>)),
                              owns |-> Application!FirstOwner(items, <<k, j>>) = <<k, j>>]
        BY <1>5, <2>1, <2>3, <2>4
      <4>2. Application!FirstOwner(items, <<k, j>>) = y /\ (y = <<k, j>>) = TRUE
        BY <2>1, <2>3
      <4> QED BY <4>1, <4>2
    <3>5. j \in DOMAIN r[items[k]] /\ r[items[k]][j].owns
          /\ r[items[k]][j].provider = g_bound[items[k]][j].provider
      BY <1>7, <2>4, <2>6, <3>4
    <3>6. b.provider \in Keep(r, items[k])
      BY <2>4, <3>1, <3>5 DEF Keep, Parts
    <3> QED BY <2>8, <3>1, <3>2, <3>3, <3>6
  <2> QED BY <2>9, <2>10
<1>11. ASSUME NEW c \in Components PROVE r[c] \in Seq(Bindings) /\ Len(r[c]) = Len(g_bound[c])
  <2>1. CASE c \notin Application!Range(items)
    BY <1>2, <1>6, <2>1
  <2>2. ASSUME NEW n \in 1..Len(items), c = items[n] PROVE r[c] \in Seq(Bindings) /\ Len(r[c]) = Len(g_bound[c])
    <3>1. ASSUME NEW m \in DOMAIN g_bound[c] PROVE r[c][m] \in Bindings
      <4>1. CASE <<n, m>> \in O
        BY <1>10, <2>2, <4>1
      <4>2. CASE <<n, m>> \notin O
        <5>1. r[items[n]][m] = g_bound[items[n]][m]
          BY <1>5, <2>2, <4>2
        <5>2. g_bound[c][m] \in Bindings
          BY <1>2
        <5> QED BY <2>2, <5>1, <5>2
      <4> QED BY <4>1, <4>2
    <3>2. r[c] = [m \in DOMAIN g_bound[c] |-> r[c][m]]
      <4>1. c \in Application!Range(items)
        BY <1>1, <2>2 DEF Application!Range
      <4> QED BY <1>7, <4>1 DEF r, Application!_resolve_provider_sharing
    <3>3. r[c] \in [1..Len(g_bound[c]) -> Bindings]
      BY <1>2, <3>1, <3>2
    <3> QED BY <1>2, <3>3
  <2> QED BY <1>9, <2>1, <2>2
<1>12. ASSUME NEW c \in Components, NEW m \in DOMAIN g_bound[c], ~ g_bound[c][m].owns
       PROVE  r[c][m] = g_bound[c][m]
  <2>1. ASSUME NEW n \in 1..Len(items), c = items[n] PROVE r[c][m] = g_bound[c][m]
    <3>1. <<n, m>> \notin O
      BY <1>4, <1>12, <2>1
    <3> QED BY <1>5, <2>1, <3>1
  <2> QED BY <1>6, <1>9, <2>1
<1>13. r \in [Components -> Seq(Bindings)]
  BY <1>8, <1>11
<1>14. ASSUME NEW n \in 1..Len(items), items[n] \in Components,
              NEW m \in DOMAIN g_bound[items[n]], g_bound[items[n]][m].owns
       PROVE  <<n, m>> \in O
  BY <1>4, <1>14
<1>15. \A n \in 1..Len(items) : items[n] \in Components =>
         \A m \in DOMAIN g_bound[items[n]] : g_bound[items[n]][m].owns =>
           \/ r[items[n]][m] = g_bound[items[n]][m]
           \/ /\ ~ r[items[n]][m].owns
              /\ \E k \in 1..n : /\ r[items[n]][m].provider \in Keep(g_bound, items[k])
                                 /\ r[items[n]][m].provider \in Keep(r, items[k])
  BY <1>10, <1>14
<1> QED BY <1>6, <1>11, <1>12, <1>13, <1>15 DEF r

-----------------------------------------------------------------------------
\* Whose a provider is.

LEMMA AppFacts ==
  ASSUME Application!AppAssumption
  PROVE  /\ None \notin Application!Items /\ Providers \cap Components = {}
         /\ Fakes \subseteq Components /\ Globals \subseteq Components /\ Fakes \cap Globals = {}
         /\ \A c \in Components : Backends[c] \in Seq(Bindings) /\ Len(Backends[c]) <= 3
         /\ \A c \in Fakes : Backends[c] = <<>>
  BY DEF Application!AppAssumption, Bindings

LEMMA OnesOwn ==
  ASSUME Application!AppAssumption
  PROVE  /\ \A c \in Components : Application!Made(c) \subseteq Providers /\ Application!Wanted(c) \subseteq Providers
         /\ \A c, d \in Components : Application!Made(c) \cap Application!Made(d) # {} => c = d
         /\ \A c \in Components : Application!Wanted(c) \cap OwnMade = {}
         /\ \A c \in Fakes : Application!Made(c) = {} /\ Application!Wanted(c) = {}
<1>1. ASSUME NEW c \in Components, NEW n \in DOMAIN Backends[c]
      PROVE  Backends[c][n].provider \in Providers /\ Backends[c][n].owns \in BOOLEAN
  <2>1. Backends[c] \in Seq(Bindings)
    BY AppFacts
  <2>2. Backends[c][n] \in Bindings
    BY <2>1
  <2> QED BY <2>2, BindingFields
<1>2. \A c, d \in Components : \A n \in DOMAIN Backends[c], m \in DOMAIN Backends[d] :
        Backends[c][n].owns /\ Backends[d][m].provider = Backends[c][n].provider => c = d /\ n = m
  BY DEF Application!AppAssumption
<1>3. \A c \in Components : Application!Made(c) \subseteq Providers /\ Application!Wanted(c) \subseteq Providers
  BY <1>1 DEF Application!Made, Application!Wanted
<1>4. \A c, d \in Components : Application!Made(c) \cap Application!Made(d) # {} => c = d
  <2> SUFFICES ASSUME NEW c \in Components, NEW d \in Components,
                      NEW p \in Application!Made(c), p \in Application!Made(d)
               PROVE  c = d
    OBVIOUS
  <2> QED BY <1>2 DEF Application!Made
<1>5. \A c \in Components : Application!Wanted(c) \cap OwnMade = {}
  <2> SUFFICES ASSUME NEW c \in Components, NEW p \in Application!Wanted(c), p \in OwnMade
               PROVE  FALSE
    OBVIOUS
  <2>1. PICK d \in Components : p \in Application!Made(d)
    BY DEF OwnMade
  <2>2. PICK n \in DOMAIN Backends[c] : ~ Backends[c][n].owns /\ Backends[c][n].provider = p
    BY DEF Application!Wanted
  <2>3. PICK m \in DOMAIN Backends[d] : Backends[d][m].owns /\ Backends[d][m].provider = p
    BY <2>1 DEF Application!Made
  <2> QED BY <1>2, <2>2, <2>3
<1>6. \A c \in Fakes : Application!Made(c) = {} /\ Application!Wanted(c) = {}
  <2>1. \A c \in Fakes : DOMAIN Backends[c] = {}
    BY AppFacts
  <2> QED BY <2>1 DEF Application!Made, Application!Wanted
<1> QED BY <1>3, <1>4, <1>5, <1>6

\* The core of a list has its components, and no provider of a backend.
LEMMA CoreIs ==
  ASSUME Application!AppAssumption, NEW real
  PROVE  /\ CoreOf(real) \cap Components = real \cap Components
         /\ CoreOf(real) \cap OwnMade = {}
         /\ MadeBy(CoreOf(real)) \subseteq OwnMade
<1>1. /\ Providers \cap Components = {} /\ OwnMade \subseteq Providers
      /\ \A c \in Components : Application!Wanted(c) \subseteq Providers
      /\ \A c \in Components : Application!Wanted(c) \cap OwnMade = {}
  BY AppFacts, OnesOwn DEF OwnMade
<1>2. CoreOf(real) \cap Components = real \cap Components
  BY <1>1 DEF CoreOf
<1>3. CoreOf(real) \cap OwnMade = {}
  BY <1>1 DEF CoreOf
<1>4. MadeBy(CoreOf(real)) \subseteq OwnMade
  BY DEF MadeBy, OwnMade
<1> QED BY <1>2, <1>3, <1>4

\* Two apps that are separate have no provider in common, given or made.
LEMMA MineApart ==
  ASSUME Application!AppAssumption, Separate, NEW a \in Apps, NEW b \in Apps, a # b
  PROVE  Mine(a) \cap Mine(b) = {}
<1> SUFFICES ASSUME NEW p \in Mine(a), p \in Mine(b) PROVE FALSE
  OBVIOUS
<1>1. Core(a) \cap Core(b) = {}
  BY DEF Separate
<1>2. /\ Core(a) \cap OwnMade = {} /\ MadeBy(Core(a)) \subseteq OwnMade
      /\ Core(b) \cap OwnMade = {} /\ MadeBy(Core(b)) \subseteq OwnMade
  BY CoreIs DEF Core
<1>3. p \in MadeBy(Core(a)) /\ p \in MadeBy(Core(b))
  BY <1>1, <1>2 DEF Mine
<1>4. PICK c \in Core(a) \cap Components : p \in Application!Made(c)
  BY <1>3 DEF MadeBy
<1>5. PICK d \in Core(b) \cap Components : p \in Application!Made(d)
  BY <1>3 DEF MadeBy
<1>6. c = d
  BY <1>4, <1>5, OnesOwn
<1> QED BY <1>1, <1>6

\* What the backends keep they made; what they borrow was given, or another made it.
LEMMA BoundIs ==
  ASSUME Application!AppAssumption, BindingInv
  PROVE  /\ Typed
         /\ \A c \in Components : /\ Len(g_bound[c]) = Len(Backends[c]) /\ Len(g_bound[c]) <= 3
                                  /\ DOMAIN g_bound[c] = DOMAIN Backends[c] /\ DOMAIN g_bound[c] \subseteq 1..3
         /\ \A c \in Components : Keep(g_bound, c) \subseteq Application!Made(c)
         /\ \A c \in Components : Application!Wanted(c) \subseteq Borrow(g_bound, c)
         /\ \A c \in Components : Borrow(g_bound, c) \subseteq Application!Wanted(c) \cup OwnMade
         /\ \A c \in Components : g_bound[c] = Backends[c] => Borrow(g_bound, c) = Application!Wanted(c)
         /\ \A c \in Fakes : Borrow(g_bound, c) = {} /\ Keep(g_bound, c) = {}
         /\ \A i \in Providers : Borrow(g_bound, i) = {} /\ Keep(g_bound, i) = {}
<1>1. Typed
  BY DEF BindingInv, Typed
<1>2. ASSUME NEW c \in Components
      PROVE  /\ Len(g_bound[c]) = Len(Backends[c]) /\ Len(g_bound[c]) <= 3
             /\ DOMAIN g_bound[c] = DOMAIN Backends[c] /\ DOMAIN g_bound[c] \subseteq 1..3
  <2>1. g_bound[c] \in Seq(Bindings) /\ Backends[c] \in Seq(Bindings)
    BY <1>1, AppFacts DEF Typed
  <2>2. Len(g_bound[c]) = Len(Backends[c]) /\ Len(Backends[c]) <= 3
    BY AppFacts DEF BindingInv
  <2>3. DOMAIN g_bound[c] = 1..Len(g_bound[c]) /\ DOMAIN Backends[c] = 1..Len(Backends[c]) /\ Len(Backends[c]) \in Nat
    BY <2>1
  <2> QED BY <2>2, <2>3
<1>3. ASSUME NEW c \in Components, NEW m \in DOMAIN g_bound[c]
      PROVE  \/ g_bound[c][m] = Backends[c][m]
             \/ Backends[c][m].owns /\ ~ g_bound[c][m].owns /\ g_bound[c][m].provider \in OwnMade
  BY <1>2 DEF BindingInv
<1>4. ASSUME NEW c \in Components
      PROVE  /\ Keep(g_bound, c) \subseteq Application!Made(c)
             /\ Application!Wanted(c) \subseteq Borrow(g_bound, c)
             /\ Borrow(g_bound, c) \subseteq Application!Wanted(c) \cup OwnMade
             /\ g_bound[c] = Backends[c] => Borrow(g_bound, c) = Application!Wanted(c)
  <2>1. Parts(g_bound, c) = g_bound[c] /\ DOMAIN g_bound[c] = DOMAIN Backends[c]
    BY <1>2 DEF Parts
  <2>2. Keep(g_bound, c) = {g_bound[c][m].provider : m \in {k \in DOMAIN g_bound[c] : g_bound[c][k].owns}}
    BY <2>1 DEF Keep
  <2>3. Borrow(g_bound, c) = {g_bound[c][m].provider : m \in {k \in DOMAIN g_bound[c] : ~ g_bound[c][k].owns}}
    BY <2>1 DEF Borrow
  <2>4. Keep(g_bound, c) \subseteq Application!Made(c)
    BY <1>3, <2>1, <2>2 DEF Application!Made
  <2>5. Application!Wanted(c) \subseteq Borrow(g_bound, c)
    BY <1>3, <2>1, <2>3 DEF Application!Wanted
  <2>6. Borrow(g_bound, c) \subseteq Application!Wanted(c) \cup OwnMade
    BY <1>3, <2>1, <2>3 DEF Application!Wanted
  <2>7. g_bound[c] = Backends[c] => Borrow(g_bound, c) = Application!Wanted(c)
    BY <2>3 DEF Application!Wanted
  <2> QED BY <2>4, <2>5, <2>6, <2>7
<1>5. ASSUME NEW c \in Fakes PROVE Borrow(g_bound, c) = {} /\ Keep(g_bound, c) = {}
  <2>1. c \in Components /\ Backends[c] = <<>>
    BY AppFacts
  <2>2. DOMAIN g_bound[c] = {}
    BY <1>2, <2>1
  <2> QED BY <2>1, <2>2 DEF Borrow, Keep, Parts
<1>6. ASSUME NEW i \in Providers PROVE Borrow(g_bound, i) = {} /\ Keep(g_bound, i) = {}
  BY AppFacts, ProvidersBorrowNothing
<1> QED BY <1>1, <1>2, <1>4, <1>5, <1>6

-----------------------------------------------------------------------------
\* What an app is made of.

Registries == Application!Registries

\* Each item is listed once, the components are those that are registered.
Proper(r, given) ==
  /\ Distinct(r.items) /\ Application!Range(r.items) \cap Components = Application!Registered(r)
  /\ Application!Range(r.items) \cap Providers \subseteq given

LEMMA RegistryFields ==
  ASSUME NEW r \in Registries
  PROVE  /\ r.items \in Lists /\ r.by_key \in [Application!Keys -> Components \cup {None}]
         /\ r.pending \in Seq(Providers) /\ r.ok \in BOOLEAN
         /\ r = [items |-> r.items, by_key |-> r.by_key, pending |-> r.pending, ok |-> r.ok]
  BY DEF Registries, Application!Registries, Lists

LEMMA RegisterKeeps ==
  ASSUME Application!AppAssumption, NEW r \in Registries, NEW c \in Components, NEW given
  PROVE  LET n == Application!_register_component(r, c)
         IN  n \in Registries /\ (Proper(r, given) => Proper(n, given))
<1> DEFINE n == Application!_register_component(r, c)
           more == [r EXCEPT !.items = Append(@, c), !.by_key[Key[c]] = c]
           refused == [r EXCEPT !.ok = FALSE]
<1>1. /\ r.items \in Lists /\ r.by_key \in [Application!Keys -> Components \cup {None}]
      /\ r.pending \in Seq(Providers) /\ r.ok \in BOOLEAN
      /\ r = [items |-> r.items, by_key |-> r.by_key, pending |-> r.pending, ok |-> r.ok]
  BY RegistryFields
<1>2. c \in Application!Items /\ Key[c] \in Application!Keys /\ None \notin Components
  BY AppFacts DEF Application!Items, Application!Keys
<1>3. n = r \/ n = refused \/ (n = more /\ c \notin Application!Registered(r) /\ r.by_key[Key[c]] = None)
  BY Zenon DEF Application!_register_component
<1> HIDE DEF n
<1>4. CASE n = r
  BY <1>4 DEF n
<1>5. CASE n = refused
  <2>1. n = [items |-> r.items, by_key |-> r.by_key, pending |-> r.pending, ok |-> FALSE]
    BY <1>1, <1>5
  <2>2. n \in Registries /\ n.items = r.items /\ n.by_key = r.by_key
    BY <1>1, <1>5, <2>1 DEF Registries, Application!Registries, Lists
  <2>3. Proper(r, given) => Proper(n, given)
    BY <2>2 DEF Proper, Application!Registered
  <2> QED BY <2>2, <2>3 DEF n
<1>6. CASE n = more /\ c \notin Application!Registered(r) /\ r.by_key[Key[c]] = None
  <2> DEFINE items == Append(r.items, c)
             by_key == [r.by_key EXCEPT ![Key[c]] = c]
  <2>1. n = [items |-> items, by_key |-> by_key, pending |-> r.pending, ok |-> r.ok]
    BY <1>1, <1>6
  <2>2. items \in Lists
    BY <1>1, <1>2 DEF Lists, Application!Lists
  <2>3. by_key \in [Application!Keys -> Components \cup {None}]
    BY <1>1
  <2>4. by_key[Key[c]] = c /\ \A d \in Components : Key[d] # Key[c] => by_key[Key[d]] = r.by_key[Key[d]]
    <3>1. \A d \in Components : Key[d] \in Application!Keys
      BY DEF Application!Keys
    <3> QED BY <1>1, <1>2, <3>1
  <2> HIDE DEF items, by_key
  <2>5. n \in Registries /\ n.items = items /\ n.by_key = by_key
    BY <1>1, <2>1, <2>2, <2>3 DEF Registries, Application!Registries, Lists
  <2>6. Application!Registered(n) = Application!Registered(r) \cup {c}
    <3>1. \A d \in Components : Key[d] = Key[c] => r.by_key[Key[d]] # d
      BY <1>2, <1>6
    <3> QED BY <2>4, <2>5, <3>1 DEF Application!Registered
  <2>7. ASSUME Proper(r, given) PROVE Proper(n, given)
    <3>1. c \notin Application!Range(r.items) /\ Distinct(r.items)
      BY <1>6, <2>7 DEF Proper
    <3>2. Distinct(items) /\ Application!Range(items) = Application!Range(r.items) \cup {c}
      BY <1>1, <1>2, <3>1, AppendDistinct DEF items
    <3>3. c \notin Providers
      BY AppFacts
    <3> QED BY <2>5, <2>6, <2>7, <3>2, <3>3 DEF Proper
  <2> QED BY <2>5, <2>7 DEF n
<1> QED BY <1>3, <1>4, <1>5, <1>6

LEMMA UseKeeps ==
  ASSUME Application!AppAssumption, NEW r \in Registries, NEW i \in Application!Items, NEW given
  PROVE  LET n == Application!use(r, i)
         IN  /\ n \in Registries
             /\ Proper(r, given) /\ (i \in Providers => i \notin given) => Proper(n, given \cup {i})
<1> DEFINE n == Application!use(r, i)
<1>1. CASE i \in Providers
  <2>1. /\ r.items \in Lists /\ r.by_key \in [Application!Keys -> Components \cup {None}]
        /\ r.pending \in Seq(Providers) /\ r.ok \in BOOLEAN
        /\ r = [items |-> r.items, by_key |-> r.by_key, pending |-> r.pending, ok |-> r.ok]
    BY RegistryFields
  <2> DEFINE items == Append(r.items, i)
             pending == Append(r.pending, i)
  <2>2. n = [items |-> items, by_key |-> r.by_key, pending |-> pending, ok |-> r.ok]
    BY <1>1, <2>1 DEF Application!use, Application!_use_provider
  <2>3. items \in Lists /\ pending \in Seq(Providers)
    BY <1>1, <2>1 DEF Lists, Application!Lists
  <2> HIDE DEF n, items, pending
  <2>4. n \in Registries /\ n.items = items /\ n.by_key = r.by_key
    BY <2>1, <2>2, <2>3 DEF Registries, Application!Registries, Lists
  <2>5. ASSUME Proper(r, given), i \notin given PROVE Proper(n, given \cup {i})
    <3>1. i \notin Application!Range(r.items) /\ Distinct(r.items)
      BY <1>1, <2>5 DEF Proper
    <3>2. Distinct(items) /\ Application!Range(items) = Application!Range(r.items) \cup {i}
      BY <2>1, <3>1, AppendDistinct DEF items
    <3>3. i \notin Components /\ Application!Registered(n) = Application!Registered(r)
      BY <1>1, <2>4, AppFacts DEF Application!Registered
    <3> QED BY <2>4, <2>5, <3>2, <3>3 DEF Proper
  <2> QED BY <1>1, <2>4, <2>5 DEF n
<1>2. CASE i \notin Providers
  <2>1. n = Application!_register_component(r, i) /\ i \in Components
    BY <1>2 DEF Application!use, Application!Items
  <2> HIDE DEF n
  <2>2. n \in Registries /\ (Proper(r, given) => Proper(n, given))
    BY <2>1, RegisterKeeps
  <2>3. Proper(n, given) => Proper(n, given \cup {i})
    BY DEF Proper
  <2> QED BY <2>2, <2>3 DEF n
<1> QED BY <1>1, <1>2

LEMMA DefaultsKeep ==
  ASSUME Application!AppAssumption, NEW r \in Registries, NEW p \in Providers, NEW given, Proper(r, given)
  PROVE  LET n == Application!_register_one_provider(r, p)
         IN  n \in Registries /\ Proper(n, given)
<1> DEFINE claimed == {Key[c].kind : c \in Application!Registered(r)}
           f == [x \in Application!Registries \X Components |->
                   IF Key[x[2]].kind \in claimed THEN x[1] ELSE Application!_register_component(x[1], x[2])]
           all == Defaults[p]
           good == {z \in Nat \X Registries : Proper(z[2], given)}
<1>1. all \in Seq(Components)
  BY DEF Application!AppAssumption
<1> HIDE DEF claimed
<1>2. ASSUME NEW y \in Registries, NEW c \in Components
      PROVE  f[<<y, c>>] \in Registries /\ (Proper(y, given) => Proper(f[<<y, c>>], given))
  <2>1. <<y, c>> \in Application!Registries \X Components
    BY DEF Registries
  <2>2. f[<<y, c>>] = IF Key[c].kind \in claimed THEN y ELSE Application!_register_component(y, c)
    BY <2>1
  <2> HIDE DEF f
  <2>3. CASE Key[c].kind \in claimed
    BY <2>2, <2>3
  <2>4. CASE Key[c].kind \notin claimed
    BY <2>2, <2>4, RegisterKeeps
  <2> QED BY <2>3, <2>4
<1>3. f \in [Registries \X Components -> Registries]
  <2>1. f = [y \in Registries \X Components |-> f[y]]
    BY DEF Registries
  <2>2. ASSUME NEW y \in Registries \X Components PROVE f[y] \in Registries
    <3>1. y = <<y[1], y[2]>> /\ y[1] \in Registries /\ y[2] \in Components
      OBVIOUS
    <3> HIDE DEF f
    <3> QED BY <1>2, <3>1
  <2> HIDE DEF f
  <2> QED BY <2>1, <2>2
<1>4. Application!_register_one_provider(r, p) = Application!Accumulated(f, r, all)
  BY Zenon DEF Application!_register_one_provider, Application!_default_components_for_provider, claimed
<1> HIDE DEF f, all
<1>5. <<0, r>> \in good
  OBVIOUS
<1>6. ASSUME NEW n \in 1..Len(all), NEW y \in Registries, <<n - 1, y>> \in good
      PROVE  <<n, f[<<y, all[n]>>]>> \in good
  <2>1. all[n] \in Components /\ n \in Nat /\ Proper(y, given)
    BY <1>1, <1>6
  <2>2. f[<<y, all[n]>>] \in Registries /\ Proper(f[<<y, all[n]>>], given)
    BY <1>2, <2>1
  <2> QED BY <2>1, <2>2
<1>7. Loops(Registries, Components, all, f, r, good)
  <2> HIDE DEF good
  <2>1. \A n \in 1..Len(all) : \A y \in Registries :
          <<n - 1, y>> \in good => <<n, f[<<y, all[n]>>]>> \in good
    BY <1>6
  <2> QED BY <1>1, <1>3, <1>5, <2>1 DEF Loops
<1> DEFINE n == Application!Accumulated(f, r, all)
<1>8. n \in Registries /\ <<Len(all), n>> \in good
  <2> HIDE DEF good
  <2> QED BY <1>7, LoopsKeep
<1> HIDE DEF n
<1>9. n \in Registries /\ Proper(n, given)
  BY <1>8
<1> QED BY <1>4, <1>9 DEF n

\* An app as it is made, whether it is refused or not.
LEMMA AppMade ==
  ASSUME Application!AppAssumption, NEW uses \in Uses, NEW a \in Apps
  PROVE  LET n == Application!__init__(uses[a])
         IN  n \in Registries /\ Proper(n, Application!Range(uses[a]))
<1> DEFINE s == uses[a]
           f == [x \in Application!Registries \X Application!Items |-> Application!use(x[1], x[2])]
           Till(n) == {s[k] : k \in 1..n}
           good == {z \in Nat \X Registries : Proper(z[2], Till(z[1]))}
<1>1. s \in Seq(Application!Items) /\ Len(s) \in Nat /\ DOMAIN s = 1..Len(s)
  <2>1. uses \in [Apps -> Application!Lists]
    BY DEF Application!AppAssumption
  <2>2. s \in Seq(Application!Items)
    BY <2>1 DEF Application!Lists
  <2> HIDE DEF s
  <2> QED BY <2>2
<1>2. \A n, m \in 1..Len(s) : s[n] \in Providers /\ s[n] = s[m] => n = m
  BY <1>1 DEF Application!AppAssumption
<1> HIDE DEF s
<1>3. ASSUME NEW y \in Registries, NEW i \in Application!Items
      PROVE  f[<<y, i>>] = Application!use(y, i)
  <2>1. <<y, i>> \in Application!Registries \X Application!Items
    BY DEF Registries
  <2> QED BY <2>1
<1>4. f \in [Registries \X Application!Items -> Registries]
  <2>1. f = [y \in Registries \X Application!Items |-> f[y]]
    BY DEF Registries
  <2>2. ASSUME NEW y \in Registries \X Application!Items PROVE f[y] \in Registries
    <3>1. y = <<y[1], y[2]>> /\ y[1] \in Registries /\ y[2] \in Application!Items
      OBVIOUS
    <3>2. Application!use(y[1], y[2]) \in Registries
      BY <3>1, UseKeeps
    <3> HIDE DEF f
    <3> QED BY <1>3, <3>1, <3>2
  <2> HIDE DEF f
  <2> QED BY <2>1, <2>2
<1>5. Application!Empty \in Registries /\ Proper(Application!Empty, {})
  <2> DEFINE e == Application!Empty
  <2>1. e = [items |-> <<>>, by_key |-> [k \in Application!Keys |-> None], pending |-> <<>>, ok |-> TRUE]
    BY DEF Application!Empty
  <2>2. e \in Registries
    BY <2>1 DEF Registries, Application!Registries, Application!Lists
  <2>3. e.items = <<>> /\ \A c \in Components : e.by_key[Key[c]] = None
    BY <2>1 DEF Application!Keys
  <2>4. Application!Registered(e) = {}
    BY <2>3, AppFacts DEF Application!Registered, Application!Items
  <2> HIDE DEF e
  <2>5. Proper(e, {})
    BY <2>3, <2>4 DEF Proper, Distinct, Application!Range
  <2> QED BY <2>2, <2>5 DEF e
<1> DEFINE r == Application!Accumulated(f, Application!Empty, s)
<1>6. Application!__init__(uses[a]) = Application!_register_provider_defaults(r)
  BY Zenon DEF Application!__init__, s
<1> HIDE DEF f
<1>7. <<0, Application!Empty>> \in good
  <2>1. Till(0) = {}
    OBVIOUS
  <2> HIDE DEF Till
  <2> QED BY <1>5, <2>1
<1>8. ASSUME NEW n \in 1..Len(s), NEW y \in Registries, <<n - 1, y>> \in good
      PROVE  <<n, f[<<y, s[n]>>]>> \in good
  <2>1. s[n] \in Application!Items /\ n \in Nat /\ n - 1 \in Nat
    BY <1>1
  <2>2. s[n] \in Providers => s[n] \notin Till(n - 1)
    <3>1. \A k \in 1..(n - 1) : k \in 1..Len(s) /\ k # n
      BY <1>1
    <3> QED BY <1>2, <3>1
  <2>3. Till(n) = Till(n - 1) \cup {s[n]}
    <3>1. 1..n = (1..(n - 1)) \cup {n}
      BY <2>1
    <3> QED BY <3>1
  <2> HIDE DEF Till
  <2>4. Proper(y, Till(n - 1))
    BY <1>8
  <2>5. Application!use(y, s[n]) \in Registries /\ Proper(Application!use(y, s[n]), Till(n - 1) \cup {s[n]})
    BY <2>1, <2>2, <2>4, UseKeeps
  <2>6. f[<<y, s[n]>>] \in Registries /\ Proper(f[<<y, s[n]>>], Till(n))
    BY <1>3, <2>1, <2>3, <2>5
  <2> QED BY <2>1, <2>6
<1>9. Loops(Registries, Application!Items, s, f, Application!Empty, good)
  <2> HIDE DEF good
  <2>1. \A n \in 1..Len(s) : \A y \in Registries :
          <<n - 1, y>> \in good => <<n, f[<<y, s[n]>>]>> \in good
    BY <1>8
  <2> QED BY <1>1, <1>4, <1>5, <1>7, <2>1 DEF Loops
<1>10. r \in Registries /\ <<Len(s), r>> \in good
  <2> HIDE DEF good
  <2> QED BY <1>9, LoopsKeep
<1> HIDE DEF r
<1>11. Proper(r, Application!Range(s))
  <2>1. Till(Len(s)) = Application!Range(s)
    BY <1>1 DEF Application!Range
  <2>2. Proper(r, Till(Len(s)))
    BY <1>10
  <2> HIDE DEF Till
  <2> QED BY <2>1, <2>2
<1> DEFINE n == Application!_register_provider_defaults(r)
<1>12. n \in Registries /\ Proper(n, Application!Range(s))
  <2>1. CASE r.pending = <<>>
    BY <1>10, <1>11, <2>1 DEF Application!_register_provider_defaults
  <2>2. CASE r.pending # <<>> /\ Len(r.pending) = 1
    <3>1. n = Application!_register_one_provider(r, r.pending[1])
      BY <2>2 DEF Application!_register_provider_defaults
    <3>2. r.pending \in Seq(Providers)
      BY <1>10, RegistryFields
    <3>3. r.pending[1] \in Providers
      BY <2>2, <3>2
    <3> HIDE DEF n
    <3> QED BY <1>10, <1>11, <3>1, <3>3, DefaultsKeep
  <2>3. CASE r.pending # <<>> /\ Len(r.pending) # 1
    <3>1. n = [r EXCEPT !.ok = @ /\ Application!Registered(r) # {}]
      BY <2>3 DEF Application!_register_provider_defaults
    <3> HIDE DEF n
    <3>2. /\ r.items \in Lists /\ r.by_key \in [Application!Keys -> Components \cup {None}]
          /\ r.pending \in Seq(Providers)
          /\ r = [items |-> r.items, by_key |-> r.by_key, pending |-> r.pending, ok |-> r.ok]
      BY <1>10, RegistryFields
    <3>3. PICK ok \in BOOLEAN : ok = (r.ok /\ Application!Registered(r) # {})
      OBVIOUS
    <3>4. n = [items |-> r.items, by_key |-> r.by_key, pending |-> r.pending, ok |-> ok]
      BY <3>1, <3>2, <3>3
    <3>5. n \in Registries /\ n.items = r.items /\ n.by_key = r.by_key
      BY <3>2, <3>4 DEF Registries, Application!Registries, Lists
    <3>6. Proper(n, Application!Range(s))
      BY <1>11, <3>5 DEF Proper, Application!Registered
    <3> QED BY <3>5, <3>6
  <2> QED BY <2>1, <2>2, <2>3
<1> HIDE DEF n
<1> QED BY <1>6, <1>12 DEF n, s

-----------------------------------------------------------------------------
\* What does not change when an app is left alone, and what only Core is about.

LEMMA TypesOf ==
  ASSUME AppInv, NEW a \in Apps
  PROVE  /\ g_items[a] \in Lists /\ Distinct(g_items[a]) /\ g_stack[a] \in Lists /\ Distinct(g_stack[a])
         /\ Len(g_items[a]) \in Nat /\ DOMAIN g_items[a] = 1..Len(g_items[a])
         /\ Len(g_stack[a]) \in Nat /\ DOMAIN g_stack[a] = 1..Len(g_stack[a])
         /\ g_at[a][1] \in Nat /\ g_at[a][2] \in Nat
<1>1. g_items[a] \in Lists /\ Distinct(g_items[a]) /\ g_stack[a] \in Lists /\ Distinct(g_stack[a])
  BY DEF AppInv, ListInv, StackInv
<1>2. g_at[a] \in Nat \X Nat
  BY DEF AppInv, StackInv
<1> QED BY <1>1, <1>2 DEF Lists, Application!Lists

LEMMA CoreSame ==
  ASSUME \A b \in Apps : Core(b)' = Core(b)
  PROVE  /\ Separate' <=> Separate
         /\ \A b \in Apps : Mine(b)' = Mine(b) /\ (Owning(b)' <=> Owning(b))
<1>1. Separate' <=> Separate
  BY DEF Separate
<1>2. ASSUME NEW b \in Apps PROVE Mine(b)' = Mine(b) /\ (Owning(b)' <=> Owning(b))
  <2>1. Mine(b)' = Core(b)' \cup MadeBy(Core(b)')
    BY DEF Mine, MadeBy
  <2>2. Mine(b)' = Mine(b)
    BY <2>1 DEF Mine
  <2> QED BY <2>2 DEF Owning
<1> QED BY <1>1, <1>2

LEMMA ListedComponents ==
  ASSUME Application!AppAssumption, NEW a
  PROVE  /\ Application!Range(g_items[a]) \cap Components \subseteq Core(a) \cup Fakes
         /\ Core(a) \cap Components \subseteq Application!Range(g_items[a])
         /\ Core(a) \cap Fakes = {}
         /\ Real(g_items[a]) \cap Components \subseteq Core(a)
<1>1. Core(a) \cap Components = Real(g_items[a]) \cap Components
  BY CoreIs DEF Core
<1> QED BY <1>1, AppFacts DEF Real

Untouched(b) ==
  g_items'[b] = g_items[b] /\ g_stack'[b] = g_stack[b] /\ g_phase'[b] = g_phase[b] /\ g_at'[b] = g_at[b]

LEMMA SameApp ==
  ASSUME NEW b, Untouched(b), g_bound' = g_bound
  PROVE  /\ Held(b)' = Held(b) /\ Running(b)' = Running(b) /\ Planned(b)' = Planned(b)
         /\ Entering(b) => Entering(b)'
         /\ Globally(b)' <=> Globally(b)
<1>1. Underway(b)' = Underway(b)
  BY DEF Underway, Untouched
<1>2. Held(b)' = Held(b)
  <2>1. Started(b)' = Started(b)
    BY <1>1 DEF Started, Owners, Untouched
  <2>2. Kept(b)' = Kept(b)
    BY DEF Kept, Untouched, Keep, Parts
  <2> QED BY <2>1, <2>2 DEF Held, Untouched
<1>3. Running(b)' = Running(b)
  BY <1>1 DEF Running, Untouched
<1>4. Planned(b)' = Planned(b)
  BY DEF Planned, Untouched
<1>5. Entering(b) => Entering(b)'
  BY DEF Entering, Untouched, Parts
<1> QED BY <1>2, <1>3, <1>4, <1>5 DEF Globally, Untouched

\* An app that has entered nothing has opened nothing.
LEMMA NothingHeld ==
  ASSUME NEW a, g_stack[a] = <<>>, g_phase[a] # "entering" \/ g_at[a][2] = 1
  PROVE  Held(a) = {} /\ Running(a) = {} /\ Underway(a) = {} /\ ~ Globally(a)
<1>1. Underway(a) = {}
  BY DEF Underway
<1>2. Application!Range(g_stack[a]) = {}
  BY DEF Application!Range
<1> QED BY <1>1, <1>2 DEF Held, Kept, Started, Owners, Running, Globally

\* What an app holds is its own.
LEMMA HeldIsMine ==
  ASSUME Application!AppAssumption, AppInv, Separate, NEW a \in Apps
  PROVE  /\ Held(a) \subseteq Mine(a)
         /\ \A i \in Application!Range(g_stack[a]) : Keep(g_bound, i) \subseteq Mine(a)
<1>1. BindingInv /\ Real(g_stack[a]) \subseteq Mine(a)
  BY DEF AppInv, ApartInv
<1>2. ASSUME NEW i \in Application!Items, i \in Components => i \in Core(a) \cup Fakes
      PROVE  Keep(g_bound, i) \subseteq Mine(a)
  <2>1. CASE i \in Providers \cup Fakes
    BY <1>1, <2>1, BoundIs
  <2>2. CASE i \in Core(a) \cap Components
    BY <1>1, <2>2, BoundIs DEF Mine, MadeBy
  <2> QED BY <1>2, <2>1, <2>2 DEF Application!Items
<1>3. Application!Range(g_stack[a]) \subseteq Application!Items
  BY TypesOf DEF Lists, Application!Lists, Application!Range
<1>4. \A i \in Application!Range(g_stack[a]) : Keep(g_bound, i) \subseteq Mine(a)
  BY <1>2, <1>3 DEF AppInv, StackInv
<1>5. Application!Range(g_stack[a]) \cap Providers \subseteq Mine(a)
  BY <1>1, AppFacts DEF Real
<1>6. ASSUME NEW m \in Underway(a), g_bound[g_items[a][g_at[a][1]]][m].owns
      PROVE  g_bound[g_items[a][g_at[a][1]]][m].provider \in Mine(a)
  <2> DEFINE i == g_items[a][g_at[a][1]]
  <2>1. g_phase[a] = "entering" /\ g_at[a][1] <= Len(g_items[a]) /\ m < g_at[a][2] /\ m \in 1..3
    BY DEF Underway
  <2>2. Entering(a)
    BY <2>1 DEF AppInv, StackInv
  <2>3. g_at[a][1] \in DOMAIN g_items[a] /\ m <= Len(Parts(g_bound, i))
    BY <2>1, <2>2, TypesOf DEF Entering
  <2>4. i \in Application!Range(g_items[a]) /\ i \in Application!Items
    <3>1. g_items[a] \in Seq(Application!Items)
      BY TypesOf DEF Lists, Application!Lists
    <3> QED BY <2>3, <3>1 DEF Application!Range
  <2>5. Keep(g_bound, i) \subseteq Mine(a)
    <3>1. i \in Components => i \in Core(a) \cup Fakes
      BY <2>4, ListedComponents
    <3> HIDE DEF i
    <3> QED BY <1>2, <2>4, <3>1
  <2>6. m \in DOMAIN Parts(g_bound, i)
    <3> HIDE DEF i
    <3>1. Parts(g_bound, i) \in Seq(Bindings)
      BY <1>1, BoundIs, PartsTyped
    <3>2. Len(Parts(g_bound, i)) \in Nat
      BY <3>1
    <3> QED BY <2>1, <2>3, <3>1, <3>2
  <2>7. i \in Components
    BY <2>6 DEF Parts
  <2> HIDE DEF i
  <2>8. g_bound[i][m].owns
    BY <1>6 DEF i
  <2>9. g_bound[i][m].provider \in Keep(g_bound, i)
    BY <2>6, <2>7, <2>8 DEF Keep, Parts
  <2>10. g_bound[i][m].provider \in Mine(a)
    BY <2>5, <2>9
  <2> QED BY <2>10 DEF i
<1>7. Started(a) \subseteq Mine(a)
  BY <1>6 DEF Started, Owners
<1>8. Kept(a) \subseteq Mine(a)
  BY <1>4 DEF Kept
<1> QED BY <1>4, <1>5, <1>7, <1>8 DEF Held

\* No two of the apps that are active own what the process has one of.
LEMMA OneOwner ==
  ASSUME Application!AppAssumption, AppInv, ~ AllowMultiple, ~ g_unsafe,
         NEW a \in Apps, NEW b \in Apps, a \in g_active_apps, Owning(a), Globally(b)
  PROVE  b = a
<1>1. b \in g_active_apps
  BY DEF AppInv, GlobalInv
<1>2. Owning(b)
  <2>1. PICK c \in Application!Range(g_stack[b]) : c \in Globals
    BY DEF Globally
  <2>2. c \in Core(b) \cup Fakes
    BY <2>1, AppFacts DEF AppInv, StackInv
  <2> QED BY <2>1, <2>2, AppFacts DEF Owning
<1> QED BY <1>1, <1>2 DEF AppInv, GlobalInv

-----------------------------------------------------------------------------
\* Every app as it is made has the invariant.

LEMMA MadeLists ==
  ASSUME Application!AppAssumption, Application!Init
  PROVE  /\ g_items \in [Apps -> Lists] /\ g_by_key \in [Apps -> [Application!Keys -> Components \cup {None}]]
         /\ \A a \in Apps : Distinct(g_items[a]) /\ Application!Range(g_items[a]) \cap OwnMade = {}
         /\ g_phase \in [Apps -> {"closed", "broken"}]
<1>1. PICK uses \in Uses :
        LET made == [a \in Apps |-> Application!__init__(uses[a])]
        IN  /\ g_items = [a \in Apps |-> made[a].items]
            /\ g_by_key = [a \in Apps |-> made[a].by_key]
            /\ g_phase = [a \in Apps |-> IF made[a].ok THEN "closed" ELSE "broken"]
  BY DEF Application!Init
<1> DEFINE made == [a \in Apps |-> Application!__init__(uses[a])]
<1>2. /\ g_items = [a \in Apps |-> made[a].items]
      /\ g_by_key = [a \in Apps |-> made[a].by_key]
      /\ g_phase = [a \in Apps |-> IF made[a].ok THEN "closed" ELSE "broken"]
  BY <1>1
<1>3. ASSUME NEW a \in Apps PROVE made[a] \in Registries /\ Proper(made[a], Application!Range(uses[a]))
  BY AppMade
<1> HIDE DEF made
<1>4. ASSUME NEW a \in Apps
      PROVE  /\ g_items[a] \in Lists /\ g_by_key[a] \in [Application!Keys -> Components \cup {None}]
             /\ Distinct(g_items[a]) /\ Application!Range(g_items[a]) \cap OwnMade = {}
             /\ g_phase[a] \in {"closed", "broken"}
  <2>1. g_items[a] = made[a].items /\ g_by_key[a] = made[a].by_key
    BY <1>2
  <2>2. g_phase[a] \in {"closed", "broken"}
    BY <1>2
  <2>3. g_items[a] \in Lists /\ g_by_key[a] \in [Application!Keys -> Components \cup {None}]
    BY <1>3, <2>1, RegistryFields
  <2>4. Distinct(g_items[a]) /\ Application!Range(g_items[a]) \cap Providers \subseteq Application!Range(uses[a])
    BY <1>3, <2>1 DEF Proper
  <2>5. \A c \in Components : Application!Range(uses[a]) \cap Application!Made(c) = {}
    BY DEF Application!AppAssumption
  <2>6. OwnMade \subseteq Providers
    BY OnesOwn DEF OwnMade
  <2>7. Application!Range(g_items[a]) \cap OwnMade = {}
    BY <2>4, <2>5, <2>6 DEF OwnMade
  <2> QED BY <2>2, <2>3, <2>4, <2>7
<1> QED BY <1>2, <1>4

LEMMA AppInit ==
  ASSUME Application!AppAssumption, Application!Init
  PROVE  AppInv
<1>1. /\ g_items \in [Apps -> Lists] /\ g_by_key \in [Apps -> [Application!Keys -> Components \cup {None}]]
      /\ \A a \in Apps : Distinct(g_items[a]) /\ Application!Range(g_items[a]) \cap OwnMade = {}
      /\ g_phase \in [Apps -> {"closed", "broken"}]
  BY MadeLists
<1>2. /\ g_strict \in Strict /\ g_bound = Backends
      /\ g_at = [a \in Apps |-> <<1, 1>>] /\ g_stack = [a \in Apps |-> <<>>]
      /\ g_pools = {} /\ g_backends = {} /\ g_active_apps = {}
      /\ g_global = None /\ g_saved = [c \in Globals |-> None]
      /\ g_block = [t \in Tasks |-> None]
      /\ g_failures = 0 /\ g_unsafe = FALSE /\ g_reshared = {}
  BY DEF Application!Init
<1>3. \A a \in Apps : g_stack[a] = <<>> /\ g_at[a] = <<1, 1>> /\ g_phase[a] \in {"closed", "broken"}
  BY <1>1, <1>2
<1>4. \A a \in Apps : Held(a) = {} /\ Running(a) = {} /\ ~ Globally(a)
  BY <1>3, NothingHeld
<1>5. Application!Range(<<>>) = {}
  BY DEF Application!Range
<1>6. Counts
  <2>1. MaxFailures \in Nat
    BY DEF Application!AppAssumption
  <2>2. g_failures \in 0..MaxFailures
    BY <1>2, <2>1
  <2>3. g_unsafe \in BOOLEAN
    BY <1>2
  <2> QED BY <1>2, <2>2, <2>3 DEF Counts
<1>7. BindingInv
  BY <1>2 DEF BindingInv, Application!AppAssumption, Bindings
<1>8. ListInv
  <2>1. \A a \in Apps : Real(g_items[a]) \cap OwnMade = {}
    BY <1>1 DEF Real
  <2>2. DOMAIN g_block = Tasks /\ \A t \in Tasks : g_block[t] = None
    BY <1>2
  <2> QED BY <1>1, <2>1, <2>2 DEF ListInv
<1>9. StackInv
  <2>1. g_phase \in [Apps -> Active \cup {"broken", "closed", "unwinding"}]
    BY <1>1
  <2>2. g_at \in [Apps -> Nat \X Nat] /\ g_stack \in [Apps -> Lists]
    <3>1. <<>> \in Lists
      BY DEF Lists, Application!Lists
    <3> QED BY <1>2, <3>1
  <2>3. g_active_apps = {a \in Apps : g_phase[a] \in Active}
    BY <1>2, <1>3 DEF Active
  <2>4. ASSUME NEW a \in Apps
        PROVE  /\ Distinct(g_stack[a]) /\ Application!Range(g_stack[a]) \cap Components \subseteq Core(a) \cup Fakes
               /\ g_stack[a] = <<>> /\ g_phase[a] # "entering" /\ g_phase[a] # "unwinding"
    BY <1>3, <1>5 DEF Distinct
  <2> QED BY <2>1, <2>2, <2>3, <2>4 DEF StackInv
<1>10. OpenInv
  BY <1>2 DEF OpenInv
<1>11. ApartInv
  <2>1. ASSUME NEW a \in Apps
        PROVE  /\ Real(g_items[a]) \subseteq Mine(a)
               /\ Real(g_stack[a]) = {} /\ Planned(a) = <<>>
    <3>1. Real(g_items[a]) \subseteq Core(a)
      BY <1>1 DEF Core, CoreOf, Real
    <3> QED BY <1>3, <1>5, <3>1 DEF Mine, Planned, Real
  <2>2. ASSUME NEW a \in Apps, NEW c \in Core(a) \cap Components, NEW m \in DOMAIN g_bound[c]
        PROVE  g_bound[c][m].provider \in Mine(a)
    <3>1. c \in Real(g_items[a]) \cap Components
      BY CoreIs DEF Core
    <3>2. Application!Wanted(c) \subseteq Core(a)
      BY <3>1 DEF Core, CoreOf
    <3>3. Application!Made(c) \subseteq MadeBy(Core(a))
      BY DEF MadeBy
    <3>4. Backends[c][m].provider \in Application!Wanted(c) \cup Application!Made(c)
      BY <1>2 DEF Application!Wanted, Application!Made
    <3> QED BY <1>2, <3>2, <3>3, <3>4 DEF Mine
  <2>3. Settled(g_bound, <<>>) /\ Real(<<>>) = {}
    BY <1>5 DEF Settled, Real
  <2> QED BY <1>4, <2>1, <2>2, <2>3 DEF ApartInv
<1>12. GlobalInv
  <2>1. g_saved \in [Globals -> Globals \cup {None}]
    BY <1>2
  <2>2. \A a \in Apps : DOMAIN g_stack[a] = {}
    BY <1>3
  <2> QED BY <1>2, <1>4, <2>1, <2>2 DEF GlobalInv
<1> QED BY <1>6, <1>7, <1>8, <1>9, <1>10, <1>11, <1>12 DEF AppInv

-----------------------------------------------------------------------------
\* The steps in which an app only passes from one phase to another.

LEMMA SettledStart ==
  ASSUME NEW bindings, NEW s \in Lists, NEW r \in Lists, Settled(bindings, s),
         Len(r) <= Len(s), \A n \in 1..Len(r) : r[n] = s[n]
  PROVE  Settled(bindings, r) /\ Application!Range(r) \subseteq Application!Range(s)
<1>1. /\ Len(s) \in Nat /\ Len(r) \in Nat /\ DOMAIN s = 1..Len(s) /\ DOMAIN r = 1..Len(r)
      /\ DOMAIN r \subseteq DOMAIN s
  BY DEF Lists, Application!Lists
<1>2. ASSUME NEW n \in DOMAIN r PROVE Borrow(bindings, r[n]) \subseteq Backed(bindings, r, n)
  <2>1. n \in DOMAIN s /\ \A k \in 1..n : r[k] = s[k]
    BY <1>1
  <2>2. n \in Nat /\ n \in 1..n /\ \A k \in 1..(n - 1) : k \in 1..n
    BY <1>1
  <2>3. Borrow(bindings, r[n]) \subseteq Backed(bindings, s, n)
    BY <2>1, <2>2 DEF Settled
  <2>4. {r[k] : k \in 1..(n - 1)} = {s[k] : k \in 1..(n - 1)}
    BY <2>1, <2>2
  <2>5. {Keep(bindings, r[k]) : k \in 1..n} = {Keep(bindings, s[k]) : k \in 1..n}
    BY <2>1
  <2> QED BY <2>3, <2>4, <2>5 DEF Backed
<1> QED BY <1>1, <1>2 DEF Settled, Application!Range

LEMMA CoreKept ==
  ASSUME g_items' = g_items
  PROVE  \A b \in Apps : Core(b)' = Core(b) /\ Real(g_items[b])' = Real(g_items[b])
  BY DEF Core, Real

LEMMA ListKept ==
  ASSUME AppInv, g_items' = g_items, g_by_key' = g_by_key, g_block' = g_block, g_bound' = g_bound,
         \A t \in Tasks : g_block[t] # None => g_phase'[g_block[t].app] = "open"
  PROVE  ListInv'
<1>1. ListInv
  BY DEF AppInv
<1>2. ASSUME NEW t \in Tasks, g_block[t] # None PROVE IsBlock(g_block[t])'
  <2>1. IsBlock(g_block[t])
    BY <1>1, <1>2 DEF ListInv
  <2> QED BY <1>2, <2>1 DEF IsBlock, Real
<1>3. \A t \in Tasks : g_block'[t] # None => IsBlock(g_block[t])'
  BY <1>2
<1> QED BY <1>1, <1>3 DEF ListInv, Real

\* What is planned is still settled, and what is held is no more.
LEMMA PlannedStart ==
  ASSUME AppInv, NEW a \in Apps
  PROVE  /\ Settled(g_bound, Planned(a)) => Settled(g_bound, g_stack[a])
         /\ Real(g_stack[a]) \subseteq Real(Planned(a))
<1>1. CASE g_phase[a] # "entering"
  BY <1>1 DEF Planned
<1>2. CASE g_phase[a] = "entering"
  <2>1. Entering(a) /\ Planned(a) = g_items[a]
    BY <1>2 DEF AppInv, StackInv, Planned
  <2>2. Len(g_stack[a]) <= Len(g_items[a]) /\ \A n \in 1..Len(g_stack[a]) : g_stack[a][n] = g_items[a][n]
    BY <2>1, TypesOf DEF Entering
  <2>3. Application!Range(g_stack[a]) \subseteq Application!Range(g_items[a])
    <3>1. DOMAIN g_stack[a] \subseteq DOMAIN g_items[a]
      BY <2>2, TypesOf
    <3>2. DOMAIN g_stack[a] = 1..Len(g_stack[a])
      BY TypesOf
    <3> QED BY <2>2, <3>1, <3>2 DEF Application!Range
  <2>4. Settled(g_bound, g_items[a]) => Settled(g_bound, g_stack[a])
    <3>1. g_items[a] \in Lists /\ g_stack[a] \in Lists
      BY TypesOf
    <3> QED BY <2>2, <3>1, SettledStart
  <2> QED BY <2>1, <2>3, <2>4 DEF Real
<1> QED BY <1>1, <1>2

Passes(a, to) ==
  /\ g_phase' = [g_phase EXCEPT ![a] = to]
  /\ to \in Active \cup {"closed", "unwinding"} /\ to # "entering"
  /\ g_phase[a] = "entering" => to = "unwinding" \/ (to = "open" /\ g_at[a][1] > Len(g_items[a]))
  /\ g_phase[a] = "open" => \A t \in Tasks : g_block[t] # None => g_block[t].app # a
  /\ to = "closed" => g_stack[a] = <<>>
  /\ to = "unwinding" => g_failures' # 0
  /\ g_failures' \in 0..MaxFailures /\ (g_failures' = 0 => g_failures = 0)
  /\ g_unsafe' \in BOOLEAN /\ (~ g_unsafe' => ~ g_unsafe)
  /\ ~ g_unsafe' /\ to \notin Active => ~ Globally(a)
  /\ g_active_apps' = {b \in Apps : g_phase'[b] \in Active}
  /\ g_phase[a] \notin Active => to \notin Active
  /\ g_strict' = g_strict /\ g_items' = g_items /\ g_by_key' = g_by_key /\ g_bound' = g_bound
  /\ g_at' = g_at /\ g_stack' = g_stack /\ g_pools' = g_pools /\ g_backends' = g_backends
  /\ g_global' = g_global /\ g_saved' = g_saved /\ g_block' = g_block /\ g_reshared' = g_reshared

LEMMA PassesKeeps ==
  ASSUME Application!AppAssumption, AppInv, NEW a \in Apps, NEW to, Passes(a, to)
  PROVE  AppInv'
<1>1. Counts /\ BindingInv /\ ListInv /\ StackInv /\ OpenInv /\ ApartInv /\ GlobalInv
  BY DEF AppInv
<1>2. \A b \in Apps : Core(b)' = Core(b) /\ Real(g_items[b])' = Real(g_items[b])
  BY CoreKept DEF Passes
<1>3. /\ Separate' <=> Separate
      /\ \A b \in Apps : Mine(b)' = Mine(b) /\ (Owning(b)' <=> Owning(b))
  BY <1>2, CoreSame
<1>4. \A b \in Apps : b # a => g_phase'[b] = g_phase[b]
  BY <1>1 DEF Passes, StackInv
<1>5. g_phase'[a] = to /\ to # "entering"
  BY <1>1 DEF Passes, StackInv
<1>6. \A b \in Apps \ {a} : Untouched(b)
  BY <1>4 DEF Untouched, Passes
<1>7. ASSUME NEW b \in Apps \ {a}
      PROVE  /\ Held(b)' = Held(b) /\ Running(b)' = Running(b) /\ Planned(b)' = Planned(b)
             /\ Entering(b) => Entering(b)'
  BY <1>6, SameApp DEF Passes
<1>8. \A b \in Apps : Globally(b)' <=> Globally(b)
  BY DEF Globally, Passes
<1>9. Planned(a)' = g_stack[a] /\ Underway(a)' = {}
  BY <1>5 DEF Planned, Underway, Passes
<1>10. Kept(a)' = Kept(a) /\ Started(a)' = {}
  BY <1>9 DEF Kept, Keep, Parts, Started, Owners, Passes
<1>11. Held(a)' \subseteq Held(a)
  BY <1>10 DEF Held, Passes
<1>12. g_failures' = 0 => Held(a)' = Held(a) /\ Running(a)' = Running(a)
  <2> SUFFICES ASSUME g_failures' = 0 PROVE Held(a)' = Held(a) /\ Running(a)' = Running(a)
    OBVIOUS
  <2>1. Underway(a) = {}
    <3>1. g_phase[a] = "entering" => g_at[a][1] > Len(g_items[a])
      BY DEF Passes
    <3>2. g_at[a][1] \in Nat /\ Len(g_items[a]) \in Nat
      BY TypesOf
    <3> QED BY <3>1, <3>2 DEF Underway
  <2>2. Started(a) = {}
    BY <2>1 DEF Started, Owners
  <2> QED BY <1>9, <1>10, <2>1, <2>2 DEF Held, Running, Passes
<1>13. Counts'
  BY <1>1 DEF Counts, Passes
<1>14. BindingInv'
  BY <1>1 DEF BindingInv, Passes
<1>15. ListInv'
  <2>1. ASSUME NEW t \in Tasks, g_block[t] # None PROVE g_phase'[g_block[t].app] = "open"
    <3>1. g_block[t].app \in Apps /\ g_phase[g_block[t].app] = "open"
      BY <1>1, <2>1 DEF ListInv, IsBlock
    <3>2. g_block[t].app # a
      BY <2>1, <3>1 DEF Passes
    <3> QED BY <1>4, <3>1, <3>2
  <2> QED BY <2>1, ListKept DEF Passes
<1>16. StackInv'
  <2>1. g_phase' \in [Apps -> Active \cup {"broken", "closed", "unwinding"}]
    BY <1>1 DEF StackInv, Passes
  <2>2. g_at' \in [Apps -> Nat \X Nat] /\ g_stack' \in [Apps -> Lists]
    BY <1>1 DEF StackInv, Passes
  <2>3. g_active_apps' = {b \in Apps : g_phase'[b] \in Active}
    BY DEF Passes
  <2>4. ASSUME NEW b \in Apps
        PROVE  /\ Distinct(g_stack'[b]) /\ Application!Range(g_stack'[b]) \cap Components \subseteq Core(b)' \cup Fakes
               /\ g_phase'[b] \in {"broken", "closed"} => g_stack'[b] = <<>>
               /\ g_phase'[b] = "entering" => Entering(b)'
               /\ g_phase'[b] = "unwinding" => g_failures' # 0
    <3>1. Distinct(g_stack'[b]) /\ Application!Range(g_stack'[b]) \cap Components \subseteq Core(b)' \cup Fakes
      BY <1>1, <1>2 DEF StackInv, Passes
    <3>2. CASE b = a
      BY <1>5, <3>1, <3>2 DEF Passes, Active
    <3>3. CASE b # a
      <4>1. /\ g_phase[b] \in {"broken", "closed"} => g_stack[b] = <<>>
            /\ g_phase[b] = "entering" => Entering(b)
            /\ g_phase[b] = "unwinding" => g_failures # 0
        BY <1>1 DEF StackInv
      <4>2. g_phase'[b] = "unwinding" => g_failures' # 0
        BY <1>4, <3>3, <4>1 DEF Passes
      <4>3. g_phase'[b] = "entering" => Entering(b)'
        BY <1>4, <1>7, <3>3, <4>1
      <4> QED BY <1>4, <3>1, <3>3, <4>1, <4>2, <4>3 DEF Passes
    <3> QED BY <3>2, <3>3
  <2> QED BY <2>1, <2>2, <2>3, <2>4 DEF StackInv, Application!Range
<1>17. OpenInv'
  <2>1. g_failures' = 0 => \A b \in Apps : Held(b)' = Held(b) /\ Running(b)' = Running(b)
    BY <1>7, <1>12
  <2>2. g_failures' = 0 => g_backends' \subseteq UNION {Running(b)' : b \in Apps}
    BY <1>1, <2>1 DEF OpenInv, Passes
  <2>3. g_failures' = 0 /\ Separate' => g_pools' \subseteq UNION {Held(b)' : b \in Apps}
    BY <1>1, <1>3, <2>1 DEF OpenInv, Passes
  <2> QED BY <1>1, <2>2, <2>3 DEF OpenInv, Passes
<1>18. ApartInv'
  <2> SUFFICES ASSUME Separate, NEW b \in Apps
               PROVE  /\ Real(g_items[b])' \subseteq Mine(b)' /\ Real(g_stack[b])' \subseteq Mine(b)'
                      /\ \A c \in Core(b)' \cap Components : \A m \in DOMAIN g_bound'[c] : g_bound'[c][m].provider \in Mine(b)'
                      /\ b \notin g_reshared' =>
                           /\ Settled(g_bound', Planned(b)') /\ Real(Planned(b))' \cap OwnMade = {}
                           /\ Held(b)' \subseteq g_pools'
    BY <1>3 DEF ApartInv
  <2>1. /\ Real(g_items[b]) \subseteq Mine(b) /\ Real(g_stack[b]) \subseteq Mine(b)
        /\ \A c \in Core(b) \cap Components : \A m \in DOMAIN g_bound[c] : g_bound[c][m].provider \in Mine(b)
        /\ b \notin g_reshared =>
             /\ Settled(g_bound, Planned(b)) /\ Real(Planned(b)) \cap OwnMade = {}
             /\ Held(b) \subseteq g_pools
    BY <1>1 DEF ApartInv
  <2>2. Real(g_stack[b])' = Real(g_stack[b])
    BY DEF Real, Passes
  <2>3. b \notin g_reshared' => /\ Settled(g_bound', Planned(b)') /\ Real(Planned(b))' \cap OwnMade = {}
                                /\ Held(b)' \subseteq g_pools'
    <3>1. Real(Planned(b))' = Application!Range(Planned(b)') \ Fakes
      BY DEF Real
    <3>2. CASE b = a
      BY <1>9, <1>11, <2>1, <3>1, <3>2, PlannedStart DEF Passes, Real
    <3>3. CASE b # a
      BY <1>7, <2>1, <3>1, <3>3 DEF Passes, Real
    <3> QED BY <3>2, <3>3
  <2> QED BY <1>2, <1>3, <2>1, <2>2, <2>3 DEF Passes
<1>19. GlobalInv'
  <2>1. \A b \in g_active_apps' : b \in g_active_apps
    BY <1>1, <1>4, <1>5 DEF Passes, StackInv
  <2>2. ~ AllowMultiple => \A b, d \in g_active_apps' : Owning(b)' /\ Owning(d)' => b = d
    <3>1. g_active_apps' \subseteq Apps
      BY DEF Passes
    <3> QED BY <1>1, <1>3, <2>1, <3>1 DEF GlobalInv
  <2>3. ~ g_unsafe' => \A b \in Apps : Globally(b)' => b \in g_active_apps'
    <3> SUFFICES ASSUME ~ g_unsafe', NEW b \in Apps, Globally(b) PROVE g_phase'[b] \in Active
      BY <1>8 DEF Passes
    <3>1. b \in g_active_apps
      BY <1>1 DEF GlobalInv, Passes
    <3>2. g_phase[b] \in Active
      BY <1>1, <3>1 DEF StackInv
    <3> QED BY <1>4, <1>5, <3>2 DEF Passes
  <2>4. ~ AllowMultiple /\ ~ g_unsafe' => \A b \in Apps :
          /\ \A n \in DOMAIN g_stack'[b] :
               g_stack'[b][n] \in Globals => LastGlobal(g_saved'[g_stack'[b][n]], g_stack'[b], n - 1)
          /\ Globally(b)' => LastGlobal(g_global', g_stack'[b], Len(g_stack'[b]))
          /\ (\A d \in Apps : ~ Globally(d)') => g_global' = None
    BY <1>1, <1>8 DEF GlobalInv, Passes
  <2> QED BY <1>1, <2>2, <2>3, <2>4 DEF GlobalInv, LastGlobal, Passes
<1> QED BY <1>13, <1>14, <1>15, <1>16, <1>17, <1>18, <1>19 DEF AppInv

LEMMA EnterFails ==
  ASSUME Application!AppAssumption, AppInv, NEW a \in Apps, Application!enter_fails(a)
  PROVE  AppInv'
<1>1. Counts /\ StackInv
  BY DEF AppInv
<1>2. /\ g_phase[a] = "entering" /\ g_failures < MaxFailures /\ g_failures' = g_failures + 1
      /\ g_active_apps' = g_active_apps \ {a} /\ g_phase' = [g_phase EXCEPT ![a] = "unwinding"]
      /\ g_unsafe' = (g_unsafe \/ \E n \in DOMAIN g_stack[a] : g_stack[a][n] \in Globals)
      /\ g_strict' = g_strict /\ g_items' = g_items /\ g_by_key' = g_by_key /\ g_bound' = g_bound
      /\ g_at' = g_at /\ g_stack' = g_stack /\ g_pools' = g_pools /\ g_backends' = g_backends
      /\ g_global' = g_global /\ g_saved' = g_saved /\ g_block' = g_block /\ g_reshared' = g_reshared
  BY DEF Application!enter_fails, Application!registry, Application!resources, Application!LeavesFirst
<1>3. g_failures' \in 0..MaxFailures /\ g_failures' # 0
  <2>1. MaxFailures \in Nat /\ g_failures \in 0..MaxFailures
    BY <1>1 DEF Counts, Application!AppAssumption
  <2> QED BY <1>2, <2>1
<1>4. g_unsafe' \in BOOLEAN /\ (~ g_unsafe' => ~ g_unsafe)
  BY <1>1, <1>2, Zenon DEF Counts
<1>5. ~ g_unsafe' => ~ Globally(a)
  BY <1>2 DEF Globally, Application!Range
<1>6. g_active_apps' = {b \in Apps : g_phase'[b] \in Active}
  BY <1>1, <1>2 DEF StackInv, Active
<1>7. "unwinding" \in Active \cup {"closed", "unwinding"} /\ "unwinding" # "entering" /\ g_phase[a] \in Active
  BY <1>2 DEF Active
<1>8. Passes(a, "unwinding")
  BY <1>2, <1>3, <1>4, <1>5, <1>6, <1>7 DEF Passes
<1> QED BY <1>8, PassesKeeps

LEMMA Instrument ==
  ASSUME Application!AppAssumption, AppInv, NEW a \in Apps, Application!_instrument_providers(a)
  PROVE  AppInv'
<1>1. Counts /\ StackInv
  BY DEF AppInv
<1>2. /\ g_phase[a] = "entering" /\ g_at[a][1] > Len(g_items[a])
      /\ g_phase' = [g_phase EXCEPT ![a] = "open"]
      /\ g_strict' = g_strict /\ g_items' = g_items /\ g_by_key' = g_by_key /\ g_bound' = g_bound
      /\ g_at' = g_at /\ g_stack' = g_stack /\ g_pools' = g_pools /\ g_backends' = g_backends
      /\ g_global' = g_global /\ g_saved' = g_saved /\ g_block' = g_block /\ g_reshared' = g_reshared
      /\ g_active_apps' = g_active_apps /\ g_failures' = g_failures /\ g_unsafe' = g_unsafe
  BY DEF Application!_instrument_providers, Application!registry, Application!resources
<1>3. g_active_apps' = {b \in Apps : g_phase'[b] \in Active}
  BY <1>1, <1>2 DEF StackInv, Active
<1>4. "open" \in Active /\ "open" # "entering" /\ "open" # "closed" /\ "open" # "unwinding"
  BY DEF Active
<1>5. g_failures' \in 0..MaxFailures /\ (g_failures' = 0 => g_failures = 0) /\ g_unsafe' \in BOOLEAN
  BY <1>1, <1>2 DEF Counts
<1>6. (~ g_unsafe' => ~ g_unsafe) /\ (~ g_unsafe' /\ "open" \notin Active => ~ Globally(a))
  BY <1>2, <1>4, Zenon
<1>7. g_phase[a] = "entering" => "open" = "unwinding" \/ ("open" = "open" /\ g_at[a][1] > Len(g_items[a]))
  BY <1>2
<1>8. g_phase[a] # "open" /\ (g_phase[a] \notin Active => "open" \notin Active)
  BY <1>2 DEF Active
<1>9. Passes(a, "open")
  BY <1>2, <1>3, <1>4, <1>5, <1>6, <1>7, <1>8, Zenon DEF Passes
<1> QED BY <1>9, PassesKeeps

LEMMA StartsToExit ==
  ASSUME Application!AppAssumption, AppInv, NEW a \in Apps, Application!__aexit__(a)
  PROVE  AppInv'
<1>1. Counts /\ StackInv
  BY DEF AppInv
<1>2. /\ g_phase[a] = "open" /\ \A t \in Tasks : g_block[t] # None => g_block[t].app # a
      /\ g_phase' = [g_phase EXCEPT ![a] = "exiting"]
      /\ g_strict' = g_strict /\ g_items' = g_items /\ g_by_key' = g_by_key /\ g_bound' = g_bound
      /\ g_at' = g_at /\ g_stack' = g_stack /\ g_pools' = g_pools /\ g_backends' = g_backends
      /\ g_global' = g_global /\ g_saved' = g_saved /\ g_block' = g_block /\ g_reshared' = g_reshared
      /\ g_active_apps' = g_active_apps /\ g_failures' = g_failures /\ g_unsafe' = g_unsafe
  BY DEF Application!__aexit__, Application!registry, Application!resources
<1>3. g_active_apps' = {b \in Apps : g_phase'[b] \in Active}
  BY <1>1, <1>2 DEF StackInv, Active
<1>4. "exiting" \in Active /\ "exiting" # "entering" /\ "exiting" # "closed" /\ "exiting" # "unwinding"
  BY DEF Active
<1>5. g_failures' \in 0..MaxFailures /\ (g_failures' = 0 => g_failures = 0) /\ g_unsafe' \in BOOLEAN
  BY <1>1, <1>2 DEF Counts
<1>6. (~ g_unsafe' => ~ g_unsafe) /\ (~ g_unsafe' /\ "exiting" \notin Active => ~ Globally(a))
  BY <1>2, <1>4, Zenon
<1>7. g_phase[a] # "entering" /\ (g_phase[a] \notin Active => "exiting" \notin Active)
  BY <1>2 DEF Active
<1>8. Passes(a, "exiting")
  BY <1>2, <1>3, <1>4, <1>5, <1>6, <1>7, Zenon DEF Passes
<1> QED BY <1>8, PassesKeeps

LEMMA Exited ==
  ASSUME Application!AppAssumption, AppInv, NEW a \in Apps, Application!exited(a)
  PROVE  AppInv'
<1>1. Counts /\ StackInv
  BY DEF AppInv
<1>2. /\ g_phase[a] \in {"exiting", "unwinding"} /\ g_stack[a] = <<>>
      /\ g_phase' = [g_phase EXCEPT ![a] = "closed"] /\ g_active_apps' = g_active_apps \ {a}
      /\ g_strict' = g_strict /\ g_items' = g_items /\ g_by_key' = g_by_key /\ g_bound' = g_bound
      /\ g_at' = g_at /\ g_stack' = g_stack /\ g_pools' = g_pools /\ g_backends' = g_backends
      /\ g_global' = g_global /\ g_saved' = g_saved /\ g_block' = g_block /\ g_reshared' = g_reshared
      /\ g_failures' = g_failures /\ g_unsafe' = g_unsafe
  BY DEF Application!exited, Application!registry, Application!resources
<1>3. g_active_apps' = {b \in Apps : g_phase'[b] \in Active}
  BY <1>1, <1>2 DEF StackInv, Active
<1>4. "closed" \notin Active /\ "closed" # "entering" /\ "closed" # "unwinding"
  BY DEF Active
<1>5. ~ Globally(a)
  BY <1>2 DEF Globally, Application!Range
<1>6. Passes(a, "closed")
  BY <1>1, <1>2, <1>3, <1>4, <1>5 DEF Passes, Counts
<1> QED BY <1>6, PassesKeeps

-----------------------------------------------------------------------------
\* The steps in which only the list of an app changes: an override takes a fake in or gives
\* it back, or an app that is not opened after all keeps what it discovered.

Relists(a, r) ==
  /\ g_phase[a] # "entering" /\ r \in Lists /\ Distinct(r) /\ CoreOf(Real(r)) = Core(a)
  /\ Real(r) \cap OwnMade # {} => \E c \in Real(r) \cap Components : g_bound[c] # Backends[c]
  /\ Separate => Real(r) \subseteq Mine(a)
  /\ g_items' = [g_items EXCEPT ![a] = r]
  /\ g_strict' = g_strict /\ g_bound' = g_bound /\ g_phase' = g_phase /\ g_at' = g_at /\ g_stack' = g_stack
  /\ g_pools' = g_pools /\ g_backends' = g_backends /\ g_active_apps' = g_active_apps
  /\ g_global' = g_global /\ g_saved' = g_saved /\ g_failures' = g_failures /\ g_unsafe' = g_unsafe
  /\ g_reshared' = g_reshared

LEMMA RelistsKeeps ==
  ASSUME Application!AppAssumption, AppInv, NEW a \in Apps, NEW r, Relists(a, r)
  PROVE  /\ Counts' /\ BindingInv' /\ StackInv' /\ OpenInv' /\ ApartInv' /\ GlobalInv'
         /\ g_items' \in [Apps -> Lists]
         /\ \A b \in Apps :
              /\ Distinct(g_items'[b])
              /\ Real(g_items[b])' \cap OwnMade # {} =>
                   \E c \in Real(g_items[b])' \cap Components : g_bound'[c] # Backends[c]
<1>1. Counts /\ BindingInv /\ ListInv /\ StackInv /\ OpenInv /\ ApartInv /\ GlobalInv
  BY DEF AppInv
<1>2. /\ \A b \in Apps : b # a => g_items'[b] = g_items[b]
      /\ g_items'[a] = r /\ g_items' \in [Apps -> Lists]
  BY <1>1 DEF Relists, ListInv
<1>3. \A b \in Apps : Real(g_items[b])' = Real(g_items'[b])
  BY DEF Real
<1>4. \A b \in Apps : b # a => Real(g_items[b])' = Real(g_items[b])
  BY <1>2, <1>3
<1>5. \A b \in Apps : Core(b)' = Core(b)
  <2>1. \A b \in Apps : Core(b)' = CoreOf(Real(g_items'[b]))
    BY DEF Core, CoreOf, Real
  <2> QED BY <1>2, <2>1 DEF Core, Relists
<1>6. /\ Separate' <=> Separate
      /\ \A b \in Apps : Mine(b)' = Mine(b) /\ (Owning(b)' <=> Owning(b))
  BY <1>5, CoreSame
<1>7. ASSUME NEW b \in Apps
      PROVE  /\ Held(b)' = Held(b) /\ Running(b)' = Running(b) /\ Planned(b)' = Planned(b)
             /\ g_phase[b] = "entering" => (Entering(b) => Entering(b)')
  <2>1. CASE b # a
    <3>1. Untouched(b)
      BY <1>2, <2>1 DEF Untouched, Relists
    <3> QED BY <3>1, SameApp DEF Relists
  <2>2. CASE b = a
    <3>1. Underway(a) = {} /\ Underway(a)' = {}
      BY DEF Underway, Relists
    <3>2. Started(a) = {} /\ Started(a)' = {} /\ Kept(a)' = Kept(a)
      BY <3>1 DEF Started, Owners, Kept, Keep, Parts, Relists
    <3>3. Held(a)' = Held(a)
      BY <3>2 DEF Held, Relists
    <3>4. Running(a)' = Running(a)
      BY <3>1 DEF Running, Relists
    <3>5. Planned(a)' = Planned(a) /\ g_phase[a] # "entering"
      BY DEF Planned, Relists
    <3> QED BY <2>2, <3>3, <3>4, <3>5
  <2> QED BY <2>1, <2>2
<1>8. \A b \in Apps : Globally(b)' <=> Globally(b)
  BY DEF Globally, Relists
<1>9. Counts' /\ BindingInv'
  BY <1>1 DEF Counts, BindingInv, Relists
<1>10. \A b \in Apps :
         /\ Distinct(g_items'[b])
         /\ Real(g_items[b])' \cap OwnMade # {} =>
              \E c \in Real(g_items[b])' \cap Components : g_bound'[c] # Backends[c]
  <2>1. \A b \in Apps : Distinct(g_items'[b])
    BY <1>1, <1>2 DEF ListInv, Relists
  <2>2. \A b \in Apps : Real(g_items'[b]) \cap OwnMade # {} =>
              \E c \in Real(g_items'[b]) \cap Components : g_bound[c] # Backends[c]
    BY <1>1, <1>2 DEF ListInv, Relists
  <2> QED BY <1>3, <2>1, <2>2 DEF Relists
<1>11. StackInv'
  <2>1. /\ g_phase' \in [Apps -> Active \cup {"broken", "closed", "unwinding"}]
        /\ g_at' \in [Apps -> Nat \X Nat] /\ g_stack' \in [Apps -> Lists]
        /\ g_active_apps' = {b \in Apps : g_phase'[b] \in Active}
    BY <1>1 DEF StackInv, Relists
  <2>2. \A b \in Apps :
          /\ Distinct(g_stack'[b]) /\ Application!Range(g_stack'[b]) \cap Components \subseteq Core(b)' \cup Fakes
          /\ g_phase'[b] \in {"broken", "closed"} => g_stack'[b] = <<>>
          /\ g_phase'[b] = "entering" => Entering(b)'
          /\ g_phase'[b] = "unwinding" => g_failures' # 0
    BY <1>1, <1>5, <1>7 DEF StackInv, Relists
  <2> QED BY <2>1, <2>2 DEF StackInv, Application!Range
<1>12. OpenInv'
  <2>1. UNION {Running(b)' : b \in Apps} = UNION {Running(b) : b \in Apps}
    BY <1>7
  <2>2. UNION {Held(b)' : b \in Apps} = UNION {Held(b) : b \in Apps}
    BY <1>7
  <2>3. g_failures' = 0 => g_backends' \subseteq UNION {Running(b)' : b \in Apps}
    BY <1>1, <2>1 DEF OpenInv, Relists
  <2>4. g_failures' = 0 /\ Separate' => g_pools' \subseteq UNION {Held(b)' : b \in Apps}
    BY <1>1, <1>6, <2>2 DEF OpenInv, Relists
  <2> QED BY <1>1, <2>3, <2>4 DEF OpenInv, Relists
<1>13. ApartInv'
  <2> SUFFICES ASSUME Separate, NEW b \in Apps
               PROVE  /\ Real(g_items[b])' \subseteq Mine(b)' /\ Real(g_stack[b])' \subseteq Mine(b)'
                      /\ \A c \in Core(b)' \cap Components : \A m \in DOMAIN g_bound'[c] : g_bound'[c][m].provider \in Mine(b)'
                      /\ b \notin g_reshared' =>
                           /\ Settled(g_bound', Planned(b)') /\ Real(Planned(b))' \cap OwnMade = {}
                           /\ Held(b)' \subseteq g_pools'
    BY <1>6 DEF ApartInv
  <2>1. /\ Real(g_items[b]) \subseteq Mine(b) /\ Real(g_stack[b]) \subseteq Mine(b)
        /\ \A c \in Core(b) \cap Components : \A m \in DOMAIN g_bound[c] : g_bound[c][m].provider \in Mine(b)
        /\ b \notin g_reshared =>
             /\ Settled(g_bound, Planned(b)) /\ Real(Planned(b)) \cap OwnMade = {}
             /\ Held(b) \subseteq g_pools
    BY <1>1 DEF ApartInv
  <2>2. Real(g_stack[b])' = Real(g_stack[b]) /\ Real(Planned(b))' = Real(Planned(b))
    BY <1>7 DEF Real, Relists
  <2>3. Real(g_items[b])' \subseteq Mine(b)
    BY <1>2, <1>3, <2>1 DEF Relists
  <2> QED BY <1>5, <1>6, <1>7, <2>1, <2>2, <2>3 DEF Relists
<1>14. GlobalInv'
  <2>1. ~ AllowMultiple => \A b, d \in g_active_apps' : Owning(b)' /\ Owning(d)' => b = d
    <3>1. g_active_apps' \subseteq Apps
      BY <1>1 DEF StackInv, Relists
    <3> QED BY <1>1, <1>6, <3>1 DEF GlobalInv, Relists
  <2>2. ~ g_unsafe' => \A b \in Apps : Globally(b)' => b \in g_active_apps'
    BY <1>1, <1>8 DEF GlobalInv, Relists
  <2>3. ~ AllowMultiple /\ ~ g_unsafe' => \A b \in Apps :
          /\ \A n \in DOMAIN g_stack'[b] :
               g_stack'[b][n] \in Globals => LastGlobal(g_saved'[g_stack'[b][n]], g_stack'[b], n - 1)
          /\ Globally(b)' => LastGlobal(g_global', g_stack'[b], Len(g_stack'[b]))
          /\ (\A d \in Apps : ~ Globally(d)') => g_global' = None
    BY <1>1, <1>8 DEF GlobalInv, Relists
  <2> QED BY <1>1, <2>1, <2>2, <2>3 DEF GlobalInv, LastGlobal, Relists
<1> QED BY <1>2, <1>9, <1>10, <1>11, <1>12, <1>13, <1>14

\* A list with the same items but for fakes.
LEMMA SameReal ==
  ASSUME AppInv, NEW a \in Apps, NEW r, Real(r) = Real(g_items[a])
  PROVE  /\ CoreOf(Real(r)) = Core(a)
         /\ Real(r) \cap OwnMade # {} => \E c \in Real(r) \cap Components : g_bound[c] # Backends[c]
         /\ Separate => Real(r) \subseteq Mine(a)
  BY DEF AppInv, ListInv, ApartInv, Core

LEMMA Overridden ==
  ASSUME Application!AppAssumption, AppInv, NEW a \in Apps, NEW t \in Tasks, NEW c \in Fakes,
         Application!override(t, a, c)
  PROVE  AppInv'
<1> DEFINE r == IF c \in Application!Range(g_items[a]) THEN g_items[a] ELSE Append(g_items[a], c)
           blocked == [app |-> a, fake |-> c, items |-> g_items[a], by_key |-> g_by_key[a]]
<1>1. Counts /\ BindingInv /\ ListInv /\ StackInv
  BY DEF AppInv
<1>2. /\ g_phase[a] = "open" /\ g_block[t] = None
      /\ g_block' = [g_block EXCEPT ![t] = blocked]
      /\ g_by_key' = [g_by_key EXCEPT ![a][Key[c]] = c]
      /\ g_items' = [g_items EXCEPT ![a] = r]
      /\ g_strict' = g_strict /\ g_bound' = g_bound /\ g_phase' = g_phase /\ g_at' = g_at /\ g_stack' = g_stack
      /\ g_pools' = g_pools /\ g_backends' = g_backends /\ g_active_apps' = g_active_apps
      /\ g_global' = g_global /\ g_saved' = g_saved /\ g_failures' = g_failures /\ g_unsafe' = g_unsafe
      /\ g_reshared' = g_reshared
  BY DEF Application!override, Application!resources
<1>3. r \in Lists /\ Distinct(r) /\ Real(r) = Real(g_items[a])
  <2>1. g_items[a] \in Lists /\ Distinct(g_items[a])
    BY TypesOf
  <2>3. CASE c \in Application!Range(g_items[a])
    BY <2>1, <2>3
  <2>4. CASE c \notin Application!Range(g_items[a])
    <3>1. r = Append(g_items[a], c) /\ c \in Application!Items
      BY <2>4, AppFacts DEF Application!Items
    <3> HIDE DEF r
    <3>2. r \in Lists /\ Distinct(r) /\ Application!Range(r) = Application!Range(g_items[a]) \cup {c}
      BY <2>1, <2>4, <3>1, AppendDistinct
    <3> QED BY <3>2 DEF Real
  <2> QED BY <2>3, <2>4
<1> HIDE DEF r, blocked
<1>4. Relists(a, r)
  BY <1>2, <1>3, SameReal DEF Relists
<1>5. /\ Counts' /\ BindingInv' /\ StackInv' /\ OpenInv' /\ ApartInv' /\ GlobalInv'
      /\ g_items' \in [Apps -> Lists]
      /\ \A b \in Apps :
           /\ Distinct(g_items'[b])
           /\ Real(g_items[b])' \cap OwnMade # {} =>
                \E d \in Real(g_items[b])' \cap Components : g_bound'[d] # Backends[d]
  BY <1>4, RelistsKeeps
<1>0. \A b \in Apps : Real(g_items'[b]) = Real(g_items[b])
  BY <1>1, <1>2, <1>3 DEF ListInv
<1>6. g_by_key' \in [Apps -> [Application!Keys -> Components \cup {None}]]
  <2>1. c \in Components /\ Key[c] \in Application!Keys
    BY AppFacts DEF Application!Keys
  <2>2. g_by_key \in [Apps -> [Application!Keys -> Components \cup {None}]]
    BY <1>1 DEF ListInv
  <2> QED BY <1>2, <2>1, <2>2
<1>8. ASSUME NEW u \in Tasks, g_block'[u] # None PROVE IsBlock(g_block[u])'
  <2>0. DOMAIN g_block = Tasks
    BY <1>1 DEF ListInv
  <2>1. CASE u = t
    <3>1. g_block'[u] = blocked
      BY <1>2, <2>0, <2>1
    <3>2. /\ g_block'[u].app = a /\ g_block'[u].items = g_items[a] /\ g_block'[u].by_key = g_by_key[a]
          /\ g_block'[u] = [app |-> g_block'[u].app, fake |-> g_block'[u].fake,
                            items |-> g_block'[u].items, by_key |-> g_block'[u].by_key]
      BY <3>1 DEF blocked
    <3>3. g_by_key[a] \in [Application!Keys -> Components \cup {None}]
      BY <1>1 DEF ListInv
    <3>4. Real(g_block'[u].items) = Real(g_items'[a])
      BY <1>0, <3>2 DEF Real
    <3> QED BY <1>2, <3>2, <3>3, <3>4, TypesOf DEF IsBlock, Real
  <2>2. CASE u # t
    <3>1. g_block'[u] = g_block[u]
      BY <1>2, <2>0, <2>2
    <3>2. IsBlock(g_block[u])
      BY <1>1, <1>8, <3>1 DEF ListInv
    <3>3. Real(g_items[g_block[u].app])' = Real(g_items'[g_block'[u].app])
      BY DEF Real
    <3>4. Real(g_items'[g_block[u].app]) = Real(g_items[g_block[u].app])
      BY <1>0, <3>2 DEF IsBlock
    <3> QED BY <1>2, <3>1, <3>2, <3>4 DEF IsBlock, Real
  <2> QED BY <2>1, <2>2
<1>9. DOMAIN g_block' = Tasks
  BY <1>1, <1>2 DEF ListInv
<1>10. ListInv'
  BY <1>5, <1>6, <1>8, <1>9 DEF ListInv
<1> QED BY <1>5, <1>10 DEF AppInv

LEMMA OverrideEnds ==
  ASSUME Application!AppAssumption, AppInv, NEW t \in Tasks, Application!override_ends(t)
  PROVE  AppInv'
<1> DEFINE a == g_block[t].app
           r == g_block[t].items
<1>1. Counts /\ BindingInv /\ ListInv /\ StackInv
  BY DEF AppInv
<1>2. /\ g_block[t] # None
      /\ g_block' = [g_block EXCEPT ![t] = None]
      /\ g_by_key' = [g_by_key EXCEPT ![a] = g_block[t].by_key]
      /\ g_items' = [g_items EXCEPT ![a] = r]
      /\ g_strict' = g_strict /\ g_bound' = g_bound /\ g_phase' = g_phase /\ g_at' = g_at /\ g_stack' = g_stack
      /\ g_pools' = g_pools /\ g_backends' = g_backends /\ g_active_apps' = g_active_apps
      /\ g_global' = g_global /\ g_saved' = g_saved /\ g_failures' = g_failures /\ g_unsafe' = g_unsafe
      /\ g_reshared' = g_reshared
  BY DEF Application!override_ends, Application!Restored, Application!resources
<1>3. IsBlock(g_block[t])
  BY <1>1, <1>2 DEF ListInv
<1>4. a \in Apps /\ Relists(a, r) /\ Real(r) = Real(g_items[a])
  BY <1>2, <1>3, SameReal DEF Relists, IsBlock
<1>5. g_block[t].by_key \in [Application!Keys -> Components \cup {None}]
  BY <1>3 DEF IsBlock
<1> HIDE DEF a, r
<1>6. /\ Counts' /\ BindingInv' /\ StackInv' /\ OpenInv' /\ ApartInv' /\ GlobalInv'
      /\ g_items' \in [Apps -> Lists]
      /\ \A b \in Apps :
           /\ Distinct(g_items'[b])
           /\ Real(g_items[b])' \cap OwnMade # {} =>
                \E d \in Real(g_items[b])' \cap Components : g_bound'[d] # Backends[d]
  BY <1>4, RelistsKeeps
<1>0. \A b \in Apps : Real(g_items'[b]) = Real(g_items[b])
  BY <1>1, <1>2, <1>4 DEF ListInv
<1>7. g_by_key' \in [Apps -> [Application!Keys -> Components \cup {None}]]
  <2>1. g_by_key \in [Apps -> [Application!Keys -> Components \cup {None}]]
    BY <1>1 DEF ListInv
  <2> QED BY <1>2, <1>4, <1>5, <2>1
<1>8. ASSUME NEW u \in Tasks, g_block'[u] # None PROVE IsBlock(g_block[u])'
  <2>0. DOMAIN g_block = Tasks
    BY <1>1 DEF ListInv
  <2>1. u # t
    BY <1>2, <1>8, <2>0
  <2>2. g_block'[u] = g_block[u]
    BY <1>2, <2>0, <2>1
  <2>3. IsBlock(g_block[u])
    BY <1>1, <1>8, <2>2 DEF ListInv
  <2>4. Real(g_items'[g_block[u].app]) = Real(g_items[g_block[u].app])
    BY <1>0, <2>3 DEF IsBlock
  <2> QED BY <1>2, <2>2, <2>3, <2>4 DEF IsBlock, Real
<1>9. DOMAIN g_block' = Tasks
  BY <1>1, <1>2 DEF ListInv
<1>10. ListInv'
  BY <1>6, <1>7, <1>8, <1>9 DEF ListInv
<1> QED BY <1>6, <1>10 DEF AppInv

-----------------------------------------------------------------------------
\* What an app opens.

Opened(a, s) ==
  /\ s \in Lists /\ Distinct(s)
  /\ Application!Range(s) = Application!Range(g_items[a])
                              \cup UNION {Borrow(g_bound, i) : i \in Application!Range(g_items[a])}

LEMMA OpeningLists ==
  ASSUME Application!AppAssumption, AppInv, NEW a \in Apps
  PROVE  LET found == Application!_discover_shared_providers(g_items[a])
             ordered == Application!_order_providers_before_dependents(found)
         IN  /\ Opened(a, found) /\ Opened(a, ordered)
             /\ \A n \in 1..Len(ordered) : Borrow(g_bound, ordered[n]) \subseteq {ordered[k] : k \in 1..(n - 1)}
<1> DEFINE found == Application!_discover_shared_providers(g_items[a])
           ordered == Application!_order_providers_before_dependents(found)
<1>1. BindingInv
  BY DEF AppInv
<1>2. Typed /\ Providers \cap Components = {}
  BY <1>1, BoundIs, AppFacts
<1>3. Opened(a, found)
  BY <1>2, TypesOf, DiscoveredList DEF Opened
<1> HIDE DEF found
<1>4. ASSUME NEW i \in Application!Items PROVE Borrow(g_bound, i) \subseteq Providers
  <2>1. CASE i \in Providers
    BY <1>2, <2>1, ProvidersBorrowNothing
  <2>2. CASE i \in Components
    BY <1>1, <2>2, BoundIs, OnesOwn DEF OwnMade
  <2> QED BY <2>1, <2>2 DEF Application!Items
<1>5. Application!Range(g_items[a]) \subseteq Application!Items
  BY TypesOf DEF Lists, Application!Lists, Application!Range
<1>6. ASSUME NEW i \in Application!Range(found) PROVE Borrow(g_bound, i) \subseteq Application!Range(found)
  <2>1. CASE i \in Application!Range(g_items[a])
    BY <1>3, <2>1 DEF Opened
  <2>2. CASE i \notin Application!Range(g_items[a])
    <3>1. i \in Providers
      BY <1>3, <1>4, <1>5, <2>2 DEF Opened
    <3> QED BY <1>2, <3>1, ProvidersBorrowNothing
  <2> QED BY <2>1, <2>2
<1>7. found \in Lists /\ Distinct(found)
  BY <1>3 DEF Opened
<1>8. /\ Reorders(ordered, found)
      /\ \A n \in 1..Len(found) : Borrow(g_bound, ordered[n]) \subseteq {ordered[k] : k \in 1..(n - 1)}
  BY <1>2, <1>6, <1>7, OrderedList
<1> HIDE DEF ordered
<1>9. Opened(a, ordered)
  BY <1>3, <1>8 DEF Opened, Reorders
<1>10. \A n \in 1..Len(ordered) : Borrow(g_bound, ordered[n]) \subseteq {ordered[k] : k \in 1..(n - 1)}
  BY <1>8 DEF Reorders
<1> QED BY <1>3, <1>9, <1>10 DEF ordered, found

LEMMA OpenedCore ==
  ASSUME Application!AppAssumption, AppInv, NEW a \in Apps, NEW s, Opened(a, s)
  PROVE  /\ CoreOf(Real(s)) = Core(a) /\ Application!Range(s) \subseteq Application!Items
         /\ Real(s) \cap Components = Real(g_items[a]) \cap Components
         /\ Application!Range(s) \cap Components = Application!Range(g_items[a]) \cap Components
         /\ Real(s) \cap OwnMade # {} => \E c \in Real(s) \cap Components : g_bound[c] # Backends[c]
         /\ Separate => Real(s) \subseteq Mine(a)
<1> DEFINE was == Application!Range(g_items[a])
           more == UNION {Borrow(g_bound, i) : i \in was}
<1>1. BindingInv /\ ListInv /\ ApartInv
  BY DEF AppInv
<1>2. was \subseteq Providers \cup Components
  BY TypesOf DEF Lists, Application!Lists, Application!Items, Application!Range
<1>3. ASSUME NEW p \in more
      PROVE  \E c \in Real(g_items[a]) \cap Components : p \in Borrow(g_bound, c)
  <2>1. PICK i \in was : p \in Borrow(g_bound, i)
    OBVIOUS
  <2>2. i \notin Providers /\ i \notin Fakes
    BY <1>1, <2>1, BoundIs
  <2> QED BY <1>2, <2>1, <2>2 DEF Real
<1>4. \A c \in Components : Borrow(g_bound, c) \subseteq Providers
  BY <1>1, BoundIs, OnesOwn DEF OwnMade
<1>5. more \subseteq Providers
  BY <1>3, <1>4
<1>6. Application!Range(s) = was \cup more /\ Application!Range(s) \subseteq Application!Items
  BY <1>2, <1>5 DEF Opened, Application!Items
<1>7. Real(s) = Real(g_items[a]) \cup more
  BY <1>5, <1>6, AppFacts DEF Real
<1>8. Real(s) \cap Components = Real(g_items[a]) \cap Components /\ Application!Range(s) \cap Components = was \cap Components
  BY <1>5, <1>6, <1>7, AppFacts
<1>9. more \ OwnMade \subseteq UNION {Application!Wanted(c) : c \in Real(g_items[a]) \cap Components}
  <2> SUFFICES ASSUME NEW p \in more, p \notin OwnMade
               PROVE  \E c \in Real(g_items[a]) \cap Components : p \in Application!Wanted(c)
    OBVIOUS
  <2> QED BY <1>1, <1>3, BoundIs
<1>10. CoreOf(Real(s)) = Core(a)
  <2> HIDE DEF more, was
  <2> QED BY <1>7, <1>8, <1>9 DEF CoreOf, Core
<1>11. ASSUME Real(s) \cap OwnMade # {} PROVE \E c \in Real(s) \cap Components : g_bound[c] # Backends[c]
  <2>1. PICK p \in Real(s) : p \in OwnMade
    BY <1>11
  <2>2. CASE p \in Real(g_items[a])
    BY <1>1, <1>8, <2>1, <2>2 DEF ListInv
  <2>3. CASE p \in more
    <3>1. PICK c \in Real(g_items[a]) \cap Components : p \in Borrow(g_bound, c)
      BY <1>3, <2>3
    <3>2. p \notin Application!Wanted(c)
      BY <2>1, OnesOwn
    <3>3. g_bound[c] # Backends[c]
      BY <1>1, <3>1, <3>2, BoundIs
    <3> QED BY <1>8, <3>3
  <2> QED BY <1>7, <2>1, <2>2, <2>3
<1>12. ASSUME Separate PROVE Real(s) \subseteq Mine(a)
  <2>1. /\ Real(g_items[a]) \subseteq Mine(a)
        /\ \A c \in Core(a) \cap Components : \A m \in DOMAIN g_bound[c] : g_bound[c][m].provider \in Mine(a)
    BY <1>1, <1>12 DEF ApartInv
  <2>2. ASSUME NEW p \in more PROVE p \in Mine(a)
    <3>1. PICK c \in Real(g_items[a]) \cap Components : p \in Borrow(g_bound, c)
      BY <1>3
    <3>2. c \in Core(a)
      BY <3>1, ListedComponents
    <3> QED BY <2>1, <3>1, <3>2 DEF Borrow, Parts
  <2> HIDE DEF more
  <2> QED BY <1>7, <2>1, <2>2
<1> QED BY <1>6, <1>8, <1>10, <1>11, <1>12

\* LifecycleOrderError: the app stays closed, with the list it discovered.
LEMMA Refused ==
  ASSUME Application!AppAssumption, AppInv, NEW a \in Apps, NEW s, Opened(a, s), g_phase[a] = "closed",
         g_items' = [g_items EXCEPT ![a] = s],
         g_strict' = g_strict, g_bound' = g_bound, g_phase' = g_phase, g_at' = g_at, g_stack' = g_stack,
         g_pools' = g_pools, g_backends' = g_backends, g_active_apps' = g_active_apps,
         g_global' = g_global, g_saved' = g_saved, g_failures' = g_failures, g_unsafe' = g_unsafe,
         g_reshared' = g_reshared, g_block' = g_block, g_by_key' = g_by_key
  PROVE  AppInv'
<1>1. ListInv
  BY DEF AppInv
<1>2. Relists(a, s)
  BY OpenedCore DEF Relists, Opened
<1>3. /\ Counts' /\ BindingInv' /\ StackInv' /\ OpenInv' /\ ApartInv' /\ GlobalInv'
      /\ g_items' \in [Apps -> Lists]
      /\ \A b \in Apps :
           /\ Distinct(g_items'[b])
           /\ Real(g_items[b])' \cap OwnMade # {} =>
                \E d \in Real(g_items[b])' \cap Components : g_bound'[d] # Backends[d]
  BY <1>2, RelistsKeeps
<1>4. ASSUME NEW t \in Tasks, g_block[t] # None PROVE IsBlock(g_block[t])'
  <2>1. IsBlock(g_block[t])
    BY <1>1, <1>4 DEF ListInv
  <2>2. g_block[t].app \in Apps /\ g_block[t].app # a
    BY <2>1 DEF IsBlock
  <2>3. g_items'[g_block[t].app] = g_items[g_block[t].app]
    BY <1>1, <2>2 DEF ListInv
  <2> QED BY <2>1, <2>3 DEF IsBlock, Real
<1>5. \A t \in Tasks : g_block'[t] # None => IsBlock(g_block[t])'
  BY <1>4
<1>6. ListInv'
  BY <1>1, <1>3, <1>5 DEF ListInv
<1> QED BY <1>3, <1>6 DEF AppInv

\* What sharing makes of the bindings when a settled list is opened.
LEMMA Rebound ==
  ASSUME Application!AppAssumption, AppInv, NEW a \in Apps, NEW s, Opened(a, s),
         g_bound' = Application!_resolve_provider_sharing(s)
  PROVE  /\ BindingInv'
         /\ \A c \in Components : /\ Len(g_bound'[c]) = Len(g_bound[c]) /\ DOMAIN g_bound'[c] = DOMAIN g_bound[c]
                                  /\ c \notin Application!Range(s) => g_bound'[c] = g_bound[c]
                                  /\ c \in Fakes => g_bound'[c] = g_bound[c]
                                  /\ g_bound[c] # Backends[c] => g_bound'[c] # Backends[c]
         /\ \A c \in Components : \A m \in DOMAIN g_bound[c] :
              \/ g_bound'[c][m].provider = g_bound[c][m].provider
              \/ \E i \in Application!Range(s) : g_bound'[c][m].provider \in Keep(g_bound, i)
         /\ \A n \in 1..Len(s) :
              Borrow(g_bound', s[n]) \subseteq Borrow(g_bound, s[n]) \cup UNION {Keep(g_bound', s[k]) : k \in 1..n}
<1>1. BindingInv /\ Typed /\ Providers \cap Components = {} /\ \A c \in Components : Len(g_bound[c]) <= 3
  BY BoundIs, AppFacts DEF AppInv
<1>2. s \in Lists /\ Distinct(s) /\ Len(s) \in Nat /\ DOMAIN s = 1..Len(s)
  BY DEF Opened, Lists, Application!Lists
<1>3. /\ g_bound' \in [Components -> Seq(Bindings)]
      /\ \A c \in Components : Len(g_bound'[c]) = Len(g_bound[c])
      /\ \A c \in Components : c \notin Application!Range(s) => g_bound'[c] = g_bound[c]
      /\ \A c \in Components : \A m \in DOMAIN g_bound[c] : ~ g_bound[c][m].owns => g_bound'[c][m] = g_bound[c][m]
      /\ \A n \in 1..Len(s) : s[n] \in Components =>
           \A m \in DOMAIN g_bound[s[n]] : g_bound[s[n]][m].owns =>
             \/ g_bound'[s[n]][m] = g_bound[s[n]][m]
             \/ /\ ~ g_bound'[s[n]][m].owns
                /\ \E k \in 1..n : /\ g_bound'[s[n]][m].provider \in Keep(g_bound, s[k])
                                   /\ g_bound'[s[n]][m].provider \in Keep(g_bound', s[k])
  BY <1>1, <1>2, ResolvedBindings
<1>4. ASSUME NEW c \in Components
      PROVE  /\ DOMAIN g_bound'[c] = DOMAIN g_bound[c] /\ DOMAIN g_bound[c] = DOMAIN Backends[c]
             /\ c \in Fakes => g_bound'[c] = g_bound[c]
  <2>1. g_bound[c] \in Seq(Bindings) /\ g_bound'[c] \in Seq(Bindings) /\ Len(g_bound'[c]) = Len(g_bound[c])
    BY <1>1, <1>3 DEF Typed
  <2>2. DOMAIN g_bound'[c] = DOMAIN g_bound[c]
    BY <2>1
  <2>3. ASSUME c \in Fakes PROVE g_bound'[c] = g_bound[c]
    <3>1. Backends[c] = <<>> /\ Len(g_bound[c]) = Len(Backends[c])
      BY <1>1, <2>3, AppFacts, BoundIs
    <3>2. g_bound[c] = <<>> /\ g_bound'[c] = <<>>
      BY <2>1, <3>1
    <3> QED BY <3>2
  <2> QED BY <1>1, <2>2, <2>3, BoundIs
\* What is not as it was is borrowed from an owner that is listed no later.
<1>5. ASSUME NEW c \in Components, NEW m \in DOMAIN g_bound[c]
      PROVE  \/ g_bound'[c][m] = g_bound[c][m]
             \/ /\ g_bound[c][m].owns /\ ~ g_bound'[c][m].owns
                /\ \E i \in Application!Range(s) : g_bound'[c][m].provider \in Keep(g_bound, i)
  <2>1. CASE c \notin Application!Range(s)
    BY <1>3, <2>1
  <2>2. CASE ~ g_bound[c][m].owns
    BY <1>3, <2>2
  <2>3. CASE c \in Application!Range(s) /\ g_bound[c][m].owns
    <3>1. PICK n \in 1..Len(s) : s[n] = c
      BY <1>2, <2>3 DEF Application!Range
    <3>2. \A k \in 1..n : s[k] \in Application!Range(s)
      BY <1>2 DEF Application!Range
    <3> QED BY <1>3, <2>3, <3>1, <3>2
  <2> QED BY <2>1, <2>2, <2>3
<1>6. ASSUME NEW i \in Application!Range(s) PROVE Keep(g_bound, i) \subseteq OwnMade
  <2>1. i \in Application!Items
    BY <1>2 DEF Lists, Application!Lists, Application!Range
  <2>2. CASE i \in Providers
    BY <1>1, <2>2, BoundIs
  <2>3. CASE i \in Components
    BY <1>1, <2>3, BoundIs DEF OwnMade
  <2> QED BY <2>1, <2>2, <2>3 DEF Application!Items
<1>7. BindingInv'
  <2>1. ASSUME NEW c \in Components, NEW m \in DOMAIN Backends[c]
        PROVE  \/ g_bound'[c][m] = Backends[c][m]
               \/ Backends[c][m].owns /\ ~ g_bound'[c][m].owns /\ g_bound'[c][m].provider \in OwnMade
    <3>1. m \in DOMAIN g_bound[c]
      BY <1>4
    <3>2. \/ g_bound[c][m] = Backends[c][m]
          \/ Backends[c][m].owns /\ ~ g_bound[c][m].owns /\ g_bound[c][m].provider \in OwnMade
      BY <1>1 DEF BindingInv
    <3>3. CASE g_bound'[c][m] = g_bound[c][m]
      BY <3>2, <3>3
    <3>4. CASE g_bound'[c][m] # g_bound[c][m]
      <4>1. g_bound[c][m].owns /\ ~ g_bound'[c][m].owns /\ g_bound'[c][m].provider \in OwnMade
        BY <1>5, <1>6, <3>1, <3>4
      <4> QED BY <3>2, <4>1
    <3> QED BY <3>3, <3>4
  <2>2. \A c \in Components : Len(g_bound'[c]) = Len(Backends[c])
    BY <1>1, <1>3 DEF BindingInv
  <2> QED BY <1>3, <2>1, <2>2 DEF BindingInv
<1>8. ASSUME NEW c \in Components, g_bound[c] # Backends[c] PROVE g_bound'[c] # Backends[c]
  <2>1. g_bound[c] \in Seq(Bindings) /\ Backends[c] \in Seq(Bindings) /\ Len(g_bound[c]) = Len(Backends[c])
    BY <1>1, AppFacts DEF Typed, BindingInv
  <2>2. PICK m \in DOMAIN Backends[c] : g_bound[c][m] # Backends[c][m]
    <3>1. DOMAIN Backends[c] = 1..Len(Backends[c])
      BY <2>1
    <3> QED BY <1>8, <2>1, <3>1
  <2>3. Backends[c][m].owns /\ ~ g_bound[c][m].owns
    BY <1>1, <2>2 DEF BindingInv
  <2>4. g_bound'[c][m] = g_bound[c][m]
    BY <1>3, <1>4, <2>2, <2>3
  <2> QED BY <2>2, <2>4
<1>9. ASSUME NEW n \in 1..Len(s), NEW p \in Borrow(g_bound', s[n]), p \notin Borrow(g_bound, s[n])
      PROVE  \E k \in 1..n : p \in Keep(g_bound', s[k])
  <2>1. s[n] \in Components
    BY <1>9 DEF Borrow, Parts
  <2>2. PICK m \in DOMAIN g_bound'[s[n]] : ~ g_bound'[s[n]][m].owns /\ p = g_bound'[s[n]][m].provider
    BY <1>9, <2>1 DEF Borrow, Parts
  <2>3. m \in DOMAIN g_bound[s[n]]
    BY <1>4, <2>1, <2>2
  <2>4. g_bound'[s[n]][m] # g_bound[s[n]][m]
    <3> SUFFICES ASSUME g_bound'[s[n]][m] = g_bound[s[n]][m] PROVE FALSE
      OBVIOUS
    <3>1. ~ g_bound[s[n]][m].owns /\ p = g_bound[s[n]][m].provider
      BY <2>2
    <3> QED BY <1>9, <2>1, <2>3, <3>1 DEF Borrow, Parts
  <2>5. g_bound[s[n]][m].owns
    BY <1>5, <2>1, <2>3, <2>4
  <2> QED BY <1>3, <2>1, <2>2, <2>3, <2>4, <2>5
<1>10. \A n \in 1..Len(s) :
         Borrow(g_bound', s[n]) \subseteq Borrow(g_bound, s[n]) \cup UNION {Keep(g_bound', s[k]) : k \in 1..n}
  BY <1>9
<1>11. \A c \in Components : \A m \in DOMAIN g_bound[c] :
         \/ g_bound'[c][m].provider = g_bound[c][m].provider
         \/ \E i \in Application!Range(s) : g_bound'[c][m].provider \in Keep(g_bound, i)
  BY <1>5
<1> QED BY <1>3, <1>4, <1>7, <1>8, <1>10, <1>11

\* The app takes its place and starts to open.
LEMMA Opens ==
  ASSUME Application!AppAssumption, AppInv, NEW a \in Apps, NEW s, Opened(a, s), g_phase[a] = "closed",
         \A n \in 1..Len(s) : Borrow(g_bound, s[n]) \subseteq {s[k] : k \in 1..(n - 1)},
         ~ AllowMultiple /\ Application!_owns_global_state(a) =>
           ~ \E o \in g_active_apps : Application!_owns_global_state(o),
         g_bound' = Application!_resolve_provider_sharing(s),
         g_items' = [g_items EXCEPT ![a] = s], g_phase' = [g_phase EXCEPT ![a] = "entering"],
         g_at' = [g_at EXCEPT ![a] = <<1, 1>>], g_active_apps' = g_active_apps \cup {a},
         g_reshared \subseteq g_reshared',
         a \notin g_reshared' => \A n \in DOMAIN s : s[n] \in Components => g_bound[s[n]] = Backends[s[n]],
         g_strict' = g_strict, g_stack' = g_stack, g_pools' = g_pools, g_backends' = g_backends,
         g_global' = g_global, g_saved' = g_saved, g_failures' = g_failures, g_unsafe' = g_unsafe,
         g_block' = g_block, g_by_key' = g_by_key
  PROVE  AppInv'
<1>1. Counts /\ BindingInv /\ ListInv /\ StackInv /\ OpenInv /\ ApartInv /\ GlobalInv
  BY DEF AppInv
<1>2. /\ CoreOf(Real(s)) = Core(a) /\ Application!Range(s) \subseteq Application!Items
      /\ Application!Range(s) \cap Components = Application!Range(g_items[a]) \cap Components
      /\ Real(s) \cap OwnMade # {} => \E c \in Real(s) \cap Components : g_bound[c] # Backends[c]
      /\ Separate => Real(s) \subseteq Mine(a)
  BY OpenedCore
<1>3. s \in Lists /\ Distinct(s) /\ Len(s) \in Nat /\ DOMAIN s = 1..Len(s)
  BY DEF Opened, Lists, Application!Lists
<1>4. /\ BindingInv'
      /\ \A c \in Components : /\ Len(g_bound'[c]) = Len(g_bound[c]) /\ DOMAIN g_bound'[c] = DOMAIN g_bound[c]
                               /\ c \notin Application!Range(s) => g_bound'[c] = g_bound[c]
                               /\ c \in Fakes => g_bound'[c] = g_bound[c]
                               /\ g_bound[c] # Backends[c] => g_bound'[c] # Backends[c]
      /\ \A c \in Components : \A m \in DOMAIN g_bound[c] :
           \/ g_bound'[c][m].provider = g_bound[c][m].provider
           \/ \E i \in Application!Range(s) : g_bound'[c][m].provider \in Keep(g_bound, i)
      /\ \A n \in 1..Len(s) :
           Borrow(g_bound', s[n]) \subseteq Borrow(g_bound, s[n]) \cup UNION {Keep(g_bound', s[k]) : k \in 1..n}
  BY Rebound
<1>5. /\ \A b \in Apps : b # a => g_items'[b] = g_items[b] /\ g_phase'[b] = g_phase[b] /\ g_at'[b] = g_at[b]
      /\ g_items'[a] = s /\ g_phase'[a] = "entering" /\ g_at'[a] = <<1, 1>> /\ g_stack[a] = <<>>
      /\ g_items' \in [Apps -> Lists]
      /\ g_phase' \in [Apps -> Active \cup {"broken", "closed", "unwinding"}]
      /\ g_at' \in [Apps -> Nat \X Nat]
  BY <1>1, <1>3 DEF ListInv, StackInv, Active
<1>6. \A b \in Apps : Core(b)' = Core(b) /\ Real(g_items[b])' = Real(g_items'[b])
  <2>1. \A b \in Apps : Core(b)' = CoreOf(Real(g_items'[b])) /\ Real(g_items[b])' = Real(g_items'[b])
    BY DEF Core, CoreOf, Real
  <2> QED BY <1>2, <1>5, <2>1 DEF Core
<1>7. /\ Separate' <=> Separate
      /\ \A b \in Apps : Mine(b)' = Mine(b) /\ (Owning(b)' <=> Owning(b))
  BY <1>6, CoreSame
<1>8. \A i : Len(Parts(g_bound', i)) = Len(Parts(g_bound, i)) /\ DOMAIN Parts(g_bound', i) = DOMAIN Parts(g_bound, i)
  BY <1>4 DEF Parts
<1>9. \A b \in Apps : Globally(b)' <=> Globally(b)
  BY DEF Globally
<1>10. Held(a)' = {} /\ Running(a)' = {} /\ Running(a) = {} /\ Held(a) = {} /\ Planned(a)' = s
  <2>1. Held(a) = {} /\ Running(a) = {}
    BY <1>5, NothingHeld
  <2>2. Underway(a)' = {} /\ Application!Range(g_stack'[a]) = {}
    BY <1>5 DEF Underway, Application!Range
  <2>3. Held(a)' = {} /\ Running(a)' = {}
    BY <2>2 DEF Held, Kept, Started, Owners, Running, Application!Range
  <2> QED BY <1>5, <2>1, <2>3 DEF Planned
\* The other apps have none of the components that were bound again.
<1>11. ASSUME NEW b \in Apps, b # a PROVE Running(b)' = Running(b) /\ Planned(b)' = Planned(b) /\ (Entering(b) => Entering(b)')
  <2>1. Underway(b)' = Underway(b)
    BY <1>5, <1>11 DEF Underway
  <2>2. Running(b)' = Running(b)
    BY <1>4, <1>5, <1>11, <2>1 DEF Running
  <2>3. Planned(b)' = Planned(b)
    BY <1>5, <1>11 DEF Planned
  <2>4. Entering(b) => Entering(b)'
    <3> QED BY <1>5, <1>8, <1>11 DEF Entering, Parts
  <2> QED BY <2>2, <2>3, <2>4
<1>12. ASSUME Separate, NEW b \in Apps, b # a, NEW i, i \in Components => i \in Core(b) \cup Fakes
       PROVE  Parts(g_bound', i) = Parts(g_bound, i) /\ Keep(g_bound', i) = Keep(g_bound, i) /\ Borrow(g_bound', i) = Borrow(g_bound, i)
  <2>1. ASSUME i \in Components PROVE g_bound'[i] = g_bound[i]
    <3>1. CASE i \in Fakes
      BY <1>4, <2>1, <3>1
    <3>2. CASE i \in Core(b)
      <4>1. i \notin Core(a) /\ i \notin Fakes
        BY <1>12, <3>2, ListedComponents DEF Separate
      <4>2. i \notin Application!Range(s)
        BY <1>2, <2>1, <4>1, ListedComponents
      <4> QED BY <1>4, <2>1, <4>2
    <3> QED BY <1>12, <2>1, <3>1, <3>2
  <2>2. Parts(g_bound', i) = Parts(g_bound, i)
    BY <2>1 DEF Parts
  <2> QED BY <2>2 DEF Keep, Borrow
<1>13. ASSUME NEW b \in Apps, NEW i, i \in Application!Range(g_stack[b]) \cup Application!Range(g_items[b])
       PROVE  i \in Components => i \in Core(b) \cup Fakes
  BY <1>1, <1>13, ListedComponents DEF StackInv
<1>14. ASSUME Separate, NEW b \in Apps, b # a PROVE Held(b)' = Held(b)
  <2>1. \A i \in Application!Range(g_stack[b]) : Keep(g_bound', i) = Keep(g_bound, i)
    BY <1>12, <1>13, <1>14
  <2>2. Kept(b)' = UNION {Keep(g_bound', i) : i \in Application!Range(g_stack[b])}
    BY DEF Kept, Keep, Parts, Application!Range
  <2>3. Kept(b)' = Kept(b)
    BY <2>1, <2>2 DEF Kept
  <2>4. Underway(b)' = Underway(b)
    BY <1>5, <1>14 DEF Underway
  <2>5. Started(b)' = Started(b)
    <3>1. CASE Underway(b) = {}
      BY <2>4, <3>1 DEF Started, Owners
    <3>2. CASE Underway(b) # {}
      <4> DEFINE i == g_items[b][g_at[b][1]]
      <4>1. g_phase[b] = "entering" /\ g_at[b][1] <= Len(g_items[b])
        BY <3>2 DEF Underway
      <4>2. Entering(b)
        BY <1>1, <4>1 DEF StackInv
      <4>3. g_at[b][1] \in DOMAIN g_items[b]
        BY <4>1, <4>2, TypesOf DEF Entering
      <4>4. i \in Application!Range(g_items[b])
        BY <4>3 DEF Application!Range
      <4>5. i \in Application!Items
        BY <4>3, TypesOf DEF Lists, Application!Lists
      <4>6. i \in Providers => Len(Parts(g_bound, i)) = 0
        <5>1. Providers \cap Components = {}
          BY AppFacts
        <5> QED BY <5>1 DEF Parts
      <4>7. i \in Components
        <5>1. PICK m \in Underway(b) : TRUE
          BY <3>2
        <5>2. m \in Nat /\ m >= 1 /\ m < g_at[b][2] /\ g_at[b][2] <= Len(Parts(g_bound, i)) + 1
          BY <4>1, <4>2 DEF Underway, Entering
        <5>3. g_at[b][2] \in Nat
          BY TypesOf
        <5> HIDE DEF i
        <5>4. ~ (Len(Parts(g_bound, i)) = 0)
          BY <5>2, <5>3
        <5> QED BY <4>5, <4>6, <5>4 DEF Application!Items
      <4>8. Parts(g_bound', i) = Parts(g_bound, i)
        BY <1>12, <1>13, <1>14, <4>4
      <4>9. g_bound'[i] = g_bound[i]
        BY <4>7, <4>8 DEF Parts
      <4>10. g_items'[b][g_at'[b][1]] = i
        BY <1>5, <1>14
      <4>11. Started(b)' = Owners(g_bound'[i], Underway(b)')
        BY <4>10 DEF Started
      <4> QED BY <2>4, <4>9, <4>11 DEF Started
    <3> QED BY <3>1, <3>2
  <2> QED BY <2>3, <2>5 DEF Held
<1>15. Counts'
  BY <1>1 DEF Counts
<1>16. ListInv'
  <2>1. ASSUME NEW b \in Apps
        PROVE  /\ Distinct(g_items'[b])
               /\ Real(g_items'[b]) \cap OwnMade # {} =>
                    \E c \in Real(g_items'[b]) \cap Components : g_bound'[c] # Backends[c]
    <3>1. CASE b = a
      BY <1>2, <1>3, <1>4, <1>5, <3>1
    <3>2. CASE b # a
      BY <1>1, <1>4, <1>5, <3>2 DEF ListInv
    <3> QED BY <3>1, <3>2
  <2>2. ASSUME NEW t \in Tasks, g_block[t] # None PROVE IsBlock(g_block[t])'
    <3>1. IsBlock(g_block[t])
      BY <1>1, <2>2 DEF ListInv
    <3>2. g_block[t].app \in Apps /\ g_block[t].app # a
      BY <3>1 DEF IsBlock
    <3> QED BY <1>5, <3>1, <3>2 DEF IsBlock, Real
  <2>3. \A t \in Tasks : g_block'[t] # None => IsBlock(g_block[t])'
    BY <2>2
  <2> QED BY <1>1, <1>5, <1>6, <2>1, <2>3 DEF ListInv
<1>17. StackInv'
  <2>1. g_active_apps' = {b \in Apps : g_phase'[b] \in Active}
    BY <1>1, <1>5 DEF StackInv, Active
  <2>2. Entering(a)'
    <3>1. Len(g_items'[a]) \in Nat /\ Len(g_stack'[a]) = 0
      BY <1>3, <1>5
    <3>3. g_at'[a][1] = 1 /\ g_at'[a][2] = 1
      BY <1>5
    <3>4. g_at'[a][1] <= Len(g_items'[a]) => g_at'[a][2] <= Len(Parts(g_bound', g_items'[a][g_at'[a][1]])) + 1
      <4>1. Typed'
        BY <1>4 DEF BindingInv, Typed
      <4>2. \A i : Parts(g_bound', i) \in Seq(Bindings)
        <5>1. <<>> \in Seq(Bindings)
          OBVIOUS
        <5> QED BY <4>1, <5>1 DEF Typed, Parts
      <4>3. \A i : Len(Parts(g_bound', i)) \in Nat
        BY <4>2
      <4> QED BY <3>3, <4>3
    <3> QED BY <3>1, <3>3, <3>4 DEF Entering, Parts
  <2>3. ASSUME NEW b \in Apps
        PROVE  /\ Distinct(g_stack'[b]) /\ Application!Range(g_stack'[b]) \cap Components \subseteq Core(b)' \cup Fakes
               /\ g_phase'[b] \in {"broken", "closed"} => g_stack'[b] = <<>>
               /\ g_phase'[b] = "entering" => Entering(b)'
               /\ g_phase'[b] = "unwinding" => g_failures' # 0
    <3>1. Distinct(g_stack'[b]) /\ Application!Range(g_stack'[b]) \cap Components \subseteq Core(b)' \cup Fakes
      BY <1>1, <1>6 DEF StackInv
    <3>2. CASE b = a
      BY <1>5, <2>2, <3>1, <3>2
    <3>3. CASE b # a
      BY <1>1, <1>5, <1>11, <3>1, <3>3 DEF StackInv
    <3> QED BY <3>2, <3>3
  <2> QED BY <1>1, <1>5, <2>1, <2>3 DEF StackInv, Application!Range
<1>18. OpenInv'
  <2>1. \A b \in Apps : Running(b)' = Running(b)
    BY <1>10, <1>11
  <2>2. Separate => \A b \in Apps : Held(b)' = Held(b)
    BY <1>10, <1>14
  <2>3. g_failures' = 0 => g_backends' \subseteq UNION {Running(b)' : b \in Apps}
    BY <1>1, <2>1 DEF OpenInv
  <2>4. g_failures' = 0 /\ Separate' => g_pools' \subseteq UNION {Held(b)' : b \in Apps}
    BY <1>1, <1>7, <2>2 DEF OpenInv
  <2>5. \A b \in g_backends' : b[2] \in DOMAIN g_bound'[b[1]]
    <3>1. \A b \in g_backends : b[2] \in DOMAIN g_bound[b[1]] /\ b[1] \in Components
      BY <1>1 DEF OpenInv
    <3> QED BY <1>4, <3>1
  <2> QED BY <1>1, <2>3, <2>4, <2>5 DEF OpenInv
<1>19. ApartInv'
  <2> SUFFICES ASSUME Separate, NEW b \in Apps
               PROVE  /\ Real(g_items'[b]) \subseteq Mine(b) /\ Real(g_stack[b]) \subseteq Mine(b)
                      /\ \A c \in Core(b) \cap Components : \A m \in DOMAIN g_bound'[c] : g_bound'[c][m].provider \in Mine(b)
                      /\ b \notin g_reshared' =>
                           /\ Settled(g_bound', Planned(b)') /\ Real(Planned(b)') \cap OwnMade = {}
                           /\ Held(b)' \subseteq g_pools
    <3>1. \A b \in Apps : Real(g_stack[b])' = Real(g_stack[b]) /\ Real(Planned(b))' = Real(Planned(b)')
      BY DEF Real
    <3> QED BY <1>6, <1>7, <3>1 DEF ApartInv
  <2>1. /\ Real(g_items[b]) \subseteq Mine(b) /\ Real(g_stack[b]) \subseteq Mine(b)
        /\ \A c \in Core(b) \cap Components : \A m \in DOMAIN g_bound[c] : g_bound[c][m].provider \in Mine(b)
        /\ b \notin g_reshared =>
             /\ Settled(g_bound, Planned(b)) /\ Real(Planned(b)) \cap OwnMade = {}
             /\ Held(b) \subseteq g_pools
    BY <1>1 DEF ApartInv
  <2>2. Real(g_items'[b]) \subseteq Mine(b)
    BY <1>2, <1>5, <2>1
  <2>3. ASSUME NEW c \in Core(b) \cap Components, NEW m \in DOMAIN g_bound'[c]
        PROVE  g_bound'[c][m].provider \in Mine(b)
    <3>1. m \in DOMAIN g_bound[c]
      BY <1>4
    <3>2. CASE b # a
      BY <1>12, <2>1, <3>1, <3>2 DEF Parts
    <3>3. CASE b = a
      <4>1. CASE g_bound'[c][m].provider = g_bound[c][m].provider
        BY <2>1, <3>1, <4>1
      <4>2. CASE \E i \in Application!Range(s) : g_bound'[c][m].provider \in Keep(g_bound, i)
        <5>1. PICK i \in Application!Range(s) : g_bound'[c][m].provider \in Keep(g_bound, i)
          BY <4>2
        <5>2. i \in Components /\ i \notin Fakes
          BY <1>1, <1>2, <5>1, BoundIs DEF Application!Items
        <5>3. i \in Core(a) /\ Keep(g_bound, i) \subseteq Application!Made(i)
          BY <1>1, <1>2, <5>1, <5>2, ListedComponents, BoundIs
        <5> QED BY <3>3, <5>1, <5>2, <5>3 DEF Mine, MadeBy
      <4> QED BY <1>4, <3>1, <4>1, <4>2
    <3> QED BY <3>2, <3>3
  <2>4. ASSUME b \notin g_reshared', b # a
        PROVE  /\ Settled(g_bound', Planned(b)') /\ Real(Planned(b)') \cap OwnMade = {}
               /\ Held(b)' \subseteq g_pools
    <3>1. b \notin g_reshared /\ Planned(b)' = Planned(b)
      BY <1>11, <2>4
    <3>2. \A n \in DOMAIN Planned(b) : Planned(b)[n] \in Components => Planned(b)[n] \in Core(b) \cup Fakes
      BY <1>13 DEF Planned, Application!Range
    <3>3. DOMAIN Planned(b) = 1..Len(Planned(b))
      BY TypesOf DEF Planned
    <3>4. \A n \in DOMAIN Planned(b) : /\ Keep(g_bound', Planned(b)[n]) = Keep(g_bound, Planned(b)[n])
                                       /\ Borrow(g_bound', Planned(b)[n]) = Borrow(g_bound, Planned(b)[n])
      BY <1>12, <2>4, <3>2
    <3>5. ASSUME NEW n \in DOMAIN Planned(b) PROVE Borrow(g_bound', Planned(b)[n]) \subseteq Backed(g_bound', Planned(b), n)
      <4>1. \A k \in 1..n : k \in DOMAIN Planned(b)
        <5>1. Len(Planned(b)) \in Nat
          BY TypesOf DEF Planned
        <5> QED BY <3>3, <5>1
      <4>2. Borrow(g_bound, Planned(b)[n]) \subseteq Backed(g_bound, Planned(b), n)
        BY <2>1, <3>1 DEF Settled
      <4>3. {Keep(g_bound', Planned(b)[k]) : k \in 1..n} = {Keep(g_bound, Planned(b)[k]) : k \in 1..n}
        BY <3>4, <4>1
      <4> QED BY <3>4, <4>2, <4>3 DEF Backed
    <3>6. Settled(g_bound', Planned(b))
      BY <3>5 DEF Settled
    <3> QED BY <1>14, <2>1, <2>4, <3>1, <3>6
  <2>5. ASSUME b \notin g_reshared', b = a
        PROVE  /\ Settled(g_bound', Planned(b)') /\ Real(Planned(b)') \cap OwnMade = {}
               /\ Held(b)' \subseteq g_pools
    <3>1. \A c \in Real(s) \cap Components : g_bound[c] = Backends[c]
      BY <2>5 DEF Real, Application!Range
    <3>2. Real(s) \cap OwnMade = {}
      BY <1>2, <3>1
    <3>3. ASSUME NEW n \in DOMAIN s PROVE Borrow(g_bound', s[n]) \subseteq Backed(g_bound', s, n)
      BY <1>3, <1>4 DEF Backed
    <3> QED BY <1>10, <2>5, <3>2, <3>3 DEF Settled
  <2> QED BY <2>1, <2>2, <2>3, <2>4, <2>5
<1>20. GlobalInv'
  <2>1. ASSUME NEW b \in Apps PROVE Owning(b) <=> Application!_owns_global_state(b)
    <3>1. Application!_owns_global_state(b) <=> Application!Range(g_items[b]) \cap Globals # {}
      BY DEF Application!_owns_global_state, Application!Range
    <3>2. Core(b) \cap Globals = Application!Range(g_items[b]) \cap Globals
      BY ListedComponents, AppFacts
    <3> QED BY <3>1, <3>2 DEF Owning
  <2>2. ASSUME ~ AllowMultiple, NEW b \in g_active_apps', NEW d \in g_active_apps', Owning(b), Owning(d) PROVE b = d
    <3>1. g_active_apps \subseteq Apps
      BY <1>1 DEF StackInv
    <3>2. Owning(a) => \A o \in g_active_apps : ~ Owning(o)
      BY <2>1, <2>2, <3>1
    <3>3. b \in g_active_apps /\ d \in g_active_apps => b = d
      BY <1>1, <2>2 DEF GlobalInv
    <3> QED BY <2>2, <3>2, <3>3
  <2>3. ~ AllowMultiple => \A b, d \in g_active_apps' : Owning(b)' /\ Owning(d)' => b = d
    <3>1. g_active_apps' \subseteq Apps
      BY <1>1 DEF StackInv
    <3> QED BY <1>7, <2>2, <3>1
  <2>4. ~ g_unsafe' => \A b \in Apps : Globally(b)' => b \in g_active_apps'
    BY <1>1, <1>9 DEF GlobalInv
  <2>5. ~ AllowMultiple /\ ~ g_unsafe' => \A b \in Apps :
          /\ \A n \in DOMAIN g_stack'[b] :
               g_stack'[b][n] \in Globals => LastGlobal(g_saved'[g_stack'[b][n]], g_stack'[b], n - 1)
          /\ Globally(b)' => LastGlobal(g_global', g_stack'[b], Len(g_stack'[b]))
          /\ (\A d \in Apps : ~ Globally(d)') => g_global' = None
    BY <1>1, <1>9 DEF GlobalInv
  <2> QED BY <1>1, <2>3, <2>4, <2>5 DEF GlobalInv, LastGlobal
<1> QED BY <1>4, <1>15, <1>16, <1>17, <1>18, <1>19, <1>20 DEF AppInv

LEMMA Enters ==
  ASSUME Application!AppAssumption, AppInv, NEW a \in Apps, Application!__aenter__(a)
  PROVE  AppInv'
<1> DEFINE found == Application!_discover_shared_providers(g_items[a])
           ordered == Application!_order_providers_before_dependents(found)
           again == \E n \in DOMAIN ordered : Application!_iter_provider_backends(ordered[n]) #
                      (IF ordered[n] \in Components THEN Backends[ordered[n]] ELSE <<>>)
<1>1. /\ Opened(a, found) /\ Opened(a, ordered)
      /\ \A n \in 1..Len(ordered) : Borrow(g_bound, ordered[n]) \subseteq {ordered[k] : k \in 1..(n - 1)}
  BY OpeningLists
<1>2. /\ g_phase[a] = "closed"
      /\ ~ AllowMultiple /\ Application!_owns_global_state(a) =>
           ~ \E o \in g_active_apps : Application!_owns_global_state(o)
      /\ g_strict' = g_strict /\ g_by_key' = g_by_key /\ g_stack' = g_stack
      /\ g_pools' = g_pools /\ g_backends' = g_backends /\ g_global' = g_global /\ g_saved' = g_saved
      /\ g_block' = g_block /\ g_failures' = g_failures /\ g_unsafe' = g_unsafe
  BY DEF Application!__aenter__, Application!resources
<1>3. IF g_strict /\ ordered # found
      THEN /\ g_items' = [g_items EXCEPT ![a] = found]
           /\ UNCHANGED <<g_bound, g_phase, g_at, g_active_apps, g_reshared>>
      ELSE /\ g_items' = [g_items EXCEPT ![a] = ordered]
           /\ g_bound' = Application!_resolve_provider_sharing(ordered)
           /\ g_phase' = [g_phase EXCEPT ![a] = "entering"]
           /\ g_at' = [g_at EXCEPT ![a] = <<1, 1>>]
           /\ g_active_apps' = g_active_apps \cup {a}
           /\ g_reshared' = IF again THEN g_reshared \cup {a} ELSE g_reshared
  BY Zenon DEF Application!__aenter__
<1>4. ASSUME ~ again, NEW n \in DOMAIN ordered, ordered[n] \in Components
      PROVE  g_bound[ordered[n]] = Backends[ordered[n]]
  BY <1>4 DEF Application!_iter_provider_backends
<1> HIDE DEF found, ordered, again
<1>5. CASE g_strict /\ ordered # found
  <2>1. g_items' = [g_items EXCEPT ![a] = found] /\ UNCHANGED <<g_bound, g_phase, g_at, g_active_apps, g_reshared>>
    BY <1>3, <1>5
  <2> QED BY <1>1, <1>2, <2>1, Refused
<1>6. CASE ~ (g_strict /\ ordered # found)
  <2>1. /\ g_items' = [g_items EXCEPT ![a] = ordered]
        /\ g_bound' = Application!_resolve_provider_sharing(ordered)
        /\ g_phase' = [g_phase EXCEPT ![a] = "entering"]
        /\ g_at' = [g_at EXCEPT ![a] = <<1, 1>>]
        /\ g_active_apps' = g_active_apps \cup {a}
        /\ g_reshared' = IF again THEN g_reshared \cup {a} ELSE g_reshared
    BY <1>3, <1>6
  <2>2. g_reshared \subseteq g_reshared'
    BY <2>1
  <2>3. a \notin g_reshared' => \A n \in DOMAIN ordered : ordered[n] \in Components => g_bound[ordered[n]] = Backends[ordered[n]]
    <3>1. a \notin g_reshared' => ~ again
      BY <2>1
    <3> QED BY <1>4, <3>1
  <2> QED BY <1>1, <1>2, <2>1, <2>2, <2>3, Opens
<1> QED BY <1>5, <1>6

-----------------------------------------------------------------------------
\* An item is entered, or the next backend of one.

\* What a step of entering adds.
Adds(a, pool, started) ==
  /\ g_pools' = g_pools \cup pool /\ g_backends' = g_backends \cup started
  /\ pool \subseteq Providers /\ started \subseteq Components \X (1..3)
  /\ \A b \in started : b[2] \in DOMAIN g_bound[b[1]]
  /\ Held(a)' = Held(a) \cup pool /\ Running(a) \cup started \subseteq Running(a)'
  /\ g_strict' = g_strict /\ g_items' = g_items /\ g_by_key' = g_by_key /\ g_bound' = g_bound
  /\ g_phase' = g_phase /\ g_active_apps' = g_active_apps /\ g_block' = g_block
  /\ g_failures' = g_failures /\ g_unsafe' = g_unsafe /\ g_reshared' = g_reshared
  /\ g_phase[a] = "entering" /\ g_at' \in [Apps -> Nat \X Nat]
  /\ \A b \in Apps \ {a} : g_at'[b] = g_at[b] /\ g_stack'[b] = g_stack[b]
  /\ g_stack' \in [Apps -> Lists] /\ Entering(a)'

LEMMA AddsKeeps ==
  ASSUME Application!AppAssumption, AppInv, NEW a \in Apps, NEW pool, NEW started, Adds(a, pool, started), GlobalInv'
  PROVE  AppInv'
<1>1. Counts /\ BindingInv /\ ListInv /\ StackInv /\ OpenInv /\ ApartInv
  BY DEF AppInv
<1>2. \A b \in Apps : Core(b)' = Core(b) /\ Real(g_items[b])' = Real(g_items[b])
  BY CoreKept DEF Adds
<1>3. /\ Separate' <=> Separate
      /\ \A b \in Apps : Mine(b)' = Mine(b)
  BY <1>2, CoreSame
<1>4. \A b \in Apps \ {a} : Untouched(b)
  BY DEF Untouched, Adds
<1>5. ASSUME NEW b \in Apps \ {a}
      PROVE  /\ Held(b)' = Held(b) /\ Running(b)' = Running(b) /\ Planned(b)' = Planned(b)
             /\ Entering(b) => Entering(b)'
  BY <1>4, SameApp DEF Adds
<1>6. Planned(a)' = Planned(a) /\ Planned(a) = g_items[a]
  BY DEF Planned, Adds
<1>7. Counts' /\ BindingInv'
  BY <1>1 DEF Counts, BindingInv, Adds
<1>8. ListInv'
  <2>1. \A t \in Tasks : g_block[t] # None => g_phase'[g_block[t].app] = "open"
    BY <1>1 DEF ListInv, IsBlock, Adds
  <2> QED BY <2>1, ListKept DEF Adds
\* What is entered is the start of the list.
<1>9. Distinct(g_stack'[a]) /\ Application!Range(g_stack'[a]) \subseteq Application!Range(g_items[a])
  <2>1. /\ g_stack'[a] \in Lists /\ g_items[a] \in Lists /\ Distinct(g_items[a])
        /\ Len(g_stack'[a]) <= Len(g_items[a]) /\ \A n \in 1..Len(g_stack'[a]) : g_stack'[a][n] = g_items[a][n]
    <3>1. Len(g_stack'[a]) = g_at'[a][1] - 1 /\ g_at'[a][1] \in 1..(Len(g_items[a]) + 1)
      BY DEF Adds, Entering
    <3>2. Len(g_stack'[a]) <= Len(g_items[a])
      BY <3>1, TypesOf
    <3> QED BY <3>2, TypesOf DEF Adds, Entering
  <2>2. /\ DOMAIN g_stack'[a] \subseteq DOMAIN g_items[a]
        /\ \A n \in DOMAIN g_stack'[a] : g_stack'[a][n] = g_items[a][n]
    BY <2>1 DEF Lists, Application!Lists
  <2> QED BY <2>1, <2>2 DEF Distinct, Application!Range
<1>10. StackInv'
  <2>1. ASSUME NEW b \in Apps
        PROVE  /\ Distinct(g_stack'[b]) /\ Application!Range(g_stack'[b]) \cap Components \subseteq Core(b)' \cup Fakes
               /\ g_phase'[b] \in {"broken", "closed"} => g_stack'[b] = <<>>
               /\ g_phase'[b] = "entering" => Entering(b)'
               /\ g_phase'[b] = "unwinding" => g_failures' # 0
    <3>1. CASE b = a
      BY <1>2, <1>9, <3>1, ListedComponents DEF Adds
    <3>2. CASE b # a
      BY <1>1, <1>2, <1>5, <3>2 DEF StackInv, Adds
    <3> QED BY <3>1, <3>2
  <2>2. /\ g_phase' \in [Apps -> Active \cup {"broken", "closed", "unwinding"}]
        /\ g_active_apps' = {b \in Apps : g_phase'[b] \in Active}
    BY <1>1 DEF StackInv, Adds
  <2> QED BY <2>1, <2>2 DEF StackInv, Application!Range, Adds
<1>11. OpenInv'
  <2>1. ASSUME NEW b \in Apps PROVE Held(b) \subseteq Held(b)' /\ Running(b) \subseteq Running(b)'
    BY <1>5 DEF Adds
  <2>2. pool \subseteq Held(a)' /\ started \subseteq Running(a)'
    BY DEF Adds
  <2>3. g_failures' = 0 => g_backends' \subseteq UNION {Running(b)' : b \in Apps}
    <3> SUFFICES ASSUME g_failures = 0, NEW x \in g_backends' PROVE \E b \in Apps : x \in Running(b)'
      BY DEF Adds
    <3>1. x \in g_backends => \E b \in Apps : x \in Running(b)
      BY <1>1 DEF OpenInv
    <3> QED BY <2>1, <2>2, <3>1 DEF Adds
  <2>4. g_failures' = 0 /\ Separate' => g_pools' \subseteq UNION {Held(b)' : b \in Apps}
    <3> SUFFICES ASSUME g_failures = 0, Separate, NEW x \in g_pools' PROVE \E b \in Apps : x \in Held(b)'
      BY <1>3 DEF Adds
    <3>1. x \in g_pools => \E b \in Apps : x \in Held(b)
      BY <1>1 DEF OpenInv
    <3> QED BY <2>1, <2>2, <3>1 DEF Adds
  <2>5. g_pools' \subseteq Providers /\ g_backends' \subseteq Components \X (1..3)
    BY <1>1 DEF OpenInv, Adds
  <2>6. \A b \in g_backends' : b[2] \in DOMAIN g_bound'[b[1]]
    BY <1>1 DEF OpenInv, Adds
  <2> QED BY <2>3, <2>4, <2>5, <2>6 DEF OpenInv
<1>12. ApartInv'
  <2> SUFFICES ASSUME Separate, NEW b \in Apps
               PROVE  /\ Real(g_items[b]) \subseteq Mine(b) /\ Real(g_stack'[b]) \subseteq Mine(b)
                      /\ \A c \in Core(b) \cap Components : \A m \in DOMAIN g_bound[c] : g_bound[c][m].provider \in Mine(b)
                      /\ b \notin g_reshared =>
                           /\ Settled(g_bound, Planned(b)) /\ Real(Planned(b)) \cap OwnMade = {}
                           /\ Held(b)' \subseteq g_pools'
    <3>1. \A d \in Apps : Planned(d)' = Planned(d)
      BY <1>5, <1>6
    <3>2. \A d \in Apps : Real(g_stack[d])' = Real(g_stack'[d]) /\ Real(Planned(d))' = Real(Planned(d)')
      BY DEF Real
    <3> QED BY <1>2, <1>3, <3>1, <3>2 DEF ApartInv, Adds
  <2>1. /\ Real(g_items[b]) \subseteq Mine(b) /\ Real(g_stack[b]) \subseteq Mine(b)
        /\ \A c \in Core(b) \cap Components : \A m \in DOMAIN g_bound[c] : g_bound[c][m].provider \in Mine(b)
        /\ b \notin g_reshared =>
             /\ Settled(g_bound, Planned(b)) /\ Real(Planned(b)) \cap OwnMade = {}
             /\ Held(b) \subseteq g_pools
    BY <1>1 DEF ApartInv
  <2>2. Real(g_stack'[b]) \subseteq Mine(b)
    BY <1>9, <2>1 DEF Real, Adds
  <2>3. Held(b) \subseteq g_pools => Held(b)' \subseteq g_pools'
    BY <1>5 DEF Adds
  <2> QED BY <2>1, <2>2, <2>3
<1> QED BY <1>7, <1>8, <1>10, <1>11, <1>12 DEF AppInv

\* Log, Trace and Metrics install themselves on top of what they find.
LEMMA GlobalPushed ==
  ASSUME Application!AppAssumption, AppInv, NEW a \in Apps, NEW i \in Application!Range(g_items[a]),
         g_phase[a] = "entering", i \notin Application!Range(g_stack[a]),
         g_stack' = [g_stack EXCEPT ![a] = Append(@, i)],
         g_items' = g_items, g_active_apps' = g_active_apps, g_unsafe' = g_unsafe,
         IF i \in Globals THEN g_global' = i /\ g_saved' = [g_saved EXCEPT ![i] = g_global]
         ELSE UNCHANGED <<g_global, g_saved>>
  PROVE  GlobalInv'
<1> DEFINE old == g_stack[a]
           new == g_stack'[a]
           L == Len(old)
<1>1. StackInv /\ GlobalInv
  BY DEF AppInv
<1>2. i \in Application!Items
  <2>1. g_items[a] \in Seq(Application!Items)
    BY TypesOf DEF Lists, Application!Lists
  <2> QED BY <2>1 DEF Application!Range
<1>3. old \in Lists /\ L \in Nat /\ DOMAIN old = 1..L /\ new = Append(old, i)
  BY <1>1, TypesOf DEF StackInv
<1>4. \A b \in Apps : b # a => g_stack'[b] = g_stack[b]
  BY <1>1 DEF StackInv
<1>5. /\ Len(new) = L + 1 /\ new[L + 1] = i /\ DOMAIN new = 1..(L + 1)
      /\ \A k \in 1..L : new[k] = old[k] /\ old[k] # i /\ old[k] \in Application!Range(old)
  <2>1. old \in Seq(Application!Items)
    BY <1>3 DEF Lists, Application!Lists
  <2> HIDE DEF old, new
  <2>2. Len(new) = L + 1 /\ new[L + 1] = i /\ DOMAIN new = 1..(L + 1) /\ \A k \in 1..L : new[k] = old[k]
    BY <1>2, <1>3, <2>1
  <2>3. \A k \in 1..L : old[k] \in Application!Range(old)
    BY <1>3 DEF Application!Range
  <2>4. i \notin Application!Range(old)
    BY DEF old
  <2> QED BY <2>2, <2>3, <2>4
<1>6. \A b \in Apps : Globally(b)' <=> Application!Range(g_stack'[b]) \cap Globals # {}
  BY DEF Globally, Application!Range
<1>7. \A b \in Apps : b # a => (Globally(b)' <=> Globally(b))
  BY <1>4, <1>6 DEF Globally
<1>8. Globally(a)' <=> Globally(a) \/ i \in Globals
  <2>1. Globally(a)' <=> \E k \in 1..(L + 1) : new[k] \in Globals
    BY <1>5, <1>6 DEF Application!Range
  <2>2. Globally(a) <=> \E k \in 1..L : old[k] \in Globals
    BY <1>3 DEF Application!Range, Globally
  <2>3. \A k : k \in 1..(L + 1) <=> k \in 1..L \/ k = L + 1
    BY <1>3
  <2> HIDE DEF old, new, L
  <2> QED BY <1>5, <2>1, <2>2, <2>3
<1>9. ASSUME NEW g, NEW n \in 0..L, LastGlobal(g, old, n) PROVE LastGlobal(g, new, n)
  <2>1. \A k \in 1..n : k \in 1..L
    BY <1>3
  <2>2. \A m \in 1..n : \A k \in (m + 1)..n : k \in 1..n
    BY <1>3
  <2> HIDE DEF old, new, L
  <2> QED BY <1>5, <1>9, <2>1, <2>2 DEF LastGlobal
<1> HIDE DEF old, new, L
<1>10. \A b \in Apps : Owning(b)' <=> Owning(b)
  BY CoreKept DEF Owning
<1>11. g_global' \in Globals \cup {None} /\ g_saved' \in [Globals -> Globals \cup {None}]
  BY <1>1 DEF GlobalInv
<1>12. a \in g_active_apps /\ (i \in Globals => Owning(a))
  <2>1. a \in g_active_apps
    BY <1>1 DEF StackInv, Active
  <2>2. i \in Globals => i \in Core(a) \cap Globals
    BY ListedComponents, AppFacts
  <2> QED BY <2>1, <2>2 DEF Owning
<1>13. ~ AllowMultiple => \A b, d \in g_active_apps' : Owning(b)' /\ Owning(d)' => b = d
  <2>1. g_active_apps' \subseteq Apps
    BY <1>1 DEF StackInv
  <2> QED BY <1>1, <1>10, <2>1 DEF GlobalInv
<1>14. ~ g_unsafe' => \A b \in Apps : Globally(b)' => b \in g_active_apps'
  BY <1>1, <1>7, <1>12 DEF GlobalInv
<1>15. ASSUME ~ AllowMultiple, ~ g_unsafe
       PROVE  /\ \A n \in DOMAIN old : old[n] \in Globals => LastGlobal(g_saved[old[n]], old, n - 1)
              /\ Globally(a) => LastGlobal(g_global, old, L)
              /\ (\A b \in Apps : ~ Globally(b)) => g_global = None
              /\ \A b \in Apps : \A n \in DOMAIN g_stack[b] :
                   g_stack[b][n] \in Globals => LastGlobal(g_saved[g_stack[b][n]], g_stack[b], n - 1)
              /\ \A b \in Apps : Globally(b) => LastGlobal(g_global, g_stack[b], Len(g_stack[b]))
  BY <1>1, <1>15 DEF GlobalInv, old, L
<1>16. ASSUME ~ AllowMultiple, ~ g_unsafe, i \notin Globals, NEW b \in Apps
       PROVE  /\ \A n \in DOMAIN g_stack'[b] :
                   g_stack'[b][n] \in Globals => LastGlobal(g_saved'[g_stack'[b][n]], g_stack'[b], n - 1)
              /\ Globally(b)' => LastGlobal(g_global', g_stack'[b], Len(g_stack'[b]))
              /\ (\A d \in Apps : ~ Globally(d)') => g_global' = None
  <2>1. g_global' = g_global /\ g_saved' = g_saved
    BY <1>16
  <2>2. (\A d \in Apps : ~ Globally(d)') => g_global' = None
    BY <1>7, <1>8, <1>15, <1>16, <2>1
  <2>3. CASE b # a
    BY <1>4, <1>7, <1>15, <1>16, <2>1, <2>2, <2>3
  <2>4. CASE b = a
    <3>1. ASSUME NEW n \in DOMAIN new, new[n] \in Globals PROVE LastGlobal(g_saved[new[n]], new, n - 1)
      <4>1. n \in 1..L /\ n - 1 \in 0..L
        BY <1>3, <1>5, <1>16, <3>1
      <4>2. new[n] = old[n] /\ LastGlobal(g_saved[old[n]], old, n - 1)
        BY <1>3, <1>5, <1>15, <1>16, <3>1, <4>1
      <4> QED BY <1>9, <4>1, <4>2
    <3>2. ASSUME Globally(a) PROVE LastGlobal(g_global, new, L + 1)
      <4>1. LastGlobal(g_global, new, L)
        <5>1. L \in 0..L
          BY <1>3
        <5> QED BY <1>9, <1>15, <1>16, <3>2, <5>1
      <4>2. \A k : k \in 1..(L + 1) <=> k \in 1..L \/ k = L + 1
        BY <1>3
      <4>3. \A m \in 1..L : \A k : k \in (m + 1)..(L + 1) <=> k \in (m + 1)..L \/ k = L + 1
        BY <1>3
      <4> QED BY <1>5, <1>16, <4>1, <4>2, <4>3 DEF LastGlobal
    <3> QED BY <1>5, <1>8, <1>16, <2>1, <2>2, <2>4, <3>1, <3>2 DEF new
  <2> QED BY <2>3, <2>4
<1>17. ASSUME ~ AllowMultiple, ~ g_unsafe, i \in Globals, NEW b \in Apps
       PROVE  /\ \A n \in DOMAIN g_stack'[b] :
                   g_stack'[b][n] \in Globals => LastGlobal(g_saved'[g_stack'[b][n]], g_stack'[b], n - 1)
              /\ Globally(b)' => LastGlobal(g_global', g_stack'[b], Len(g_stack'[b]))
              /\ (\A d \in Apps : ~ Globally(d)') => g_global' = None
  <2>1. g_global' = i /\ g_saved' = [g_saved EXCEPT ![i] = g_global] /\ DOMAIN g_saved = Globals
    BY <1>1, <1>17 DEF GlobalInv
  <2>2. \A d \in Apps : Globally(d) => d = a
    BY <1>12, <1>17, OneOwner
  <2>3. Globally(a)'
    BY <1>8, <1>17
  <2>4. CASE b # a
    <3>1. ~ Globally(b)
      BY <2>2, <2>4
    <3>2. \A n \in DOMAIN g_stack[b] : g_stack[b][n] \notin Globals
      BY <3>1 DEF Globally, Application!Range
    <3> QED BY <1>4, <1>7, <2>3, <2>4, <3>1, <3>2
  <2>5. CASE b = a
    <3>1. LastGlobal(g_global, new, L)
      <4>1. L \in 0..L
        BY <1>3
      <4>2. CASE Globally(a)
        BY <1>9, <1>15, <1>17, <4>1, <4>2
      <4>3. CASE ~ Globally(a)
        <5>1. g_global = None
          BY <1>15, <1>17, <2>2, <4>3
        <5>2. \A k \in 1..L : old[k] \notin Globals
          BY <1>5, <4>3 DEF Globally, old
        <5> QED BY <1>5, <5>1, <5>2 DEF LastGlobal
      <4> QED BY <4>2, <4>3
    <3>2. ASSUME NEW n \in DOMAIN new, new[n] \in Globals PROVE LastGlobal(g_saved'[new[n]], new, n - 1)
      <4>1. CASE n = L + 1
        <5>1. new[n] = i /\ n - 1 = L /\ g_saved'[i] = g_global
          BY <1>3, <1>5, <1>17, <2>1, <4>1
        <5> QED BY <3>1, <5>1
      <4>2. CASE n # L + 1
        <5>1. n \in 1..L /\ n - 1 \in 0..L
          BY <1>3, <1>5, <4>2
        <5>2. new[n] = old[n] /\ old[n] # i /\ LastGlobal(g_saved[old[n]], old, n - 1)
          BY <1>3, <1>5, <1>15, <1>17, <3>2, <5>1
        <5>3. g_saved'[old[n]] = g_saved[old[n]]
          BY <2>1, <3>2, <5>2
        <5> QED BY <1>9, <5>1, <5>2, <5>3
      <4> QED BY <4>1, <4>2
    <3>3. LastGlobal(i, new, L + 1)
      <4>1. L + 1 \in 1..(L + 1) /\ \A k \in ((L + 1) + 1)..(L + 1) : new[k] \notin Globals
        BY <1>3
      <4> QED BY <1>5, <1>17, <4>1 DEF LastGlobal
    <3> QED BY <1>5, <2>1, <2>3, <2>5, <3>2, <3>3 DEF new
  <2> QED BY <2>4, <2>5
<1>18. ~ AllowMultiple /\ ~ g_unsafe' => \A b \in Apps :
          /\ \A n \in DOMAIN g_stack'[b] :
               g_stack'[b][n] \in Globals => LastGlobal(g_saved'[g_stack'[b][n]], g_stack'[b], n - 1)
          /\ Globally(b)' => LastGlobal(g_global', g_stack'[b], Len(g_stack'[b]))
          /\ (\A d \in Apps : ~ Globally(d)') => g_global' = None
  BY <1>16, <1>17
<1> QED BY <1>11, <1>13, <1>14, <1>18 DEF GlobalInv, LastGlobal

\* Where an app is while it opens.
LEMMA EnteringAt ==
  ASSUME Application!AppAssumption, AppInv, NEW a \in Apps, g_phase[a] = "entering", g_at[a][1] <= Len(g_items[a])
  PROVE  LET i == g_items[a][g_at[a][1]]
             of == Parts(g_bound, i)
         IN  /\ g_at[a] = <<g_at[a][1], g_at[a][2]>> /\ g_at[a][1] \in 1..Len(g_items[a]) /\ g_at[a][1] \in Nat
             /\ g_at[a][2] \in Nat /\ g_at[a][2] >= 1 /\ g_at[a][2] <= Len(of) + 1
             /\ i \in Application!Range(g_items[a]) /\ i \in Application!Items
             /\ i \notin Application!Range(g_stack[a])
             /\ of \in Seq(Bindings) /\ Len(of) \in Nat /\ Len(of) <= 3 /\ DOMAIN of = 1..Len(of)
             /\ i \in Providers => of = <<>>
             /\ i \notin Providers => i \in Components /\ of = g_bound[i]
             /\ Underway(a) = {m \in 1..3 : m < g_at[a][2]}
<1> DEFINE k == g_at[a][1]
           i == g_items[a][k]
           of == Parts(g_bound, i)
<1>1. StackInv /\ Entering(a) /\ BindingInv
  BY DEF AppInv, StackInv
<1>2. g_at[a] \in Nat \X Nat
  BY <1>1 DEF StackInv
<1>3. g_at[a] = <<g_at[a][1], g_at[a][2]>> /\ k \in Nat /\ g_at[a][2] \in Nat
  BY <1>2
<1>4. k \in 1..Len(g_items[a]) /\ g_at[a][2] >= 1 /\ g_at[a][2] <= Len(of) + 1
  BY <1>1, <1>3, TypesOf DEF Entering
<1>5. i \in Application!Range(g_items[a]) /\ i \in Application!Items
  BY <1>4, TypesOf DEF Lists, Application!Lists, Application!Range
<1>6. i \notin Application!Range(g_stack[a])
  <2>1. Len(g_stack[a]) = k - 1 /\ \A n \in 1..Len(g_stack[a]) : g_stack[a][n] = g_items[a][n]
    BY <1>1 DEF Entering
  <2>2. \A n \in DOMAIN g_stack[a] : n \in DOMAIN g_items[a] /\ n # k /\ g_stack[a][n] = g_items[a][n]
    <3>1. /\ DOMAIN g_stack[a] = 1..Len(g_stack[a]) /\ DOMAIN g_items[a] = 1..Len(g_items[a])
          /\ Len(g_items[a]) \in Nat
      BY TypesOf
    <3>2. \A n \in 1..(k - 1) : n \in 1..Len(g_items[a]) /\ n # k
      <4> HIDE DEF k, of, i
      <4> QED BY <1>3, <1>4, <3>1
    <3> QED BY <2>1, <3>1, <3>2
  <2>3. \A n \in DOMAIN g_stack[a] : g_stack[a][n] # i
    <3>1. k \in DOMAIN g_items[a] /\ Distinct(g_items[a])
      BY <1>4, TypesOf
    <3> QED BY <2>2, <3>1 DEF Distinct
  <2> HIDE DEF i
  <2> QED BY <2>3 DEF Application!Range
<1>7. Underway(a) = {m \in 1..3 : m < g_at[a][2]}
  BY DEF Underway
<1> HIDE DEF i
<1>8. of \in Seq(Bindings)
  BY <1>1, BoundIs, PartsTyped
<1>9. i \in Providers => of = <<>>
  BY AppFacts DEF Parts
<1>10. i \notin Providers => i \in Components /\ of = g_bound[i]
  BY <1>5 DEF Parts, Application!Items
<1>11. Len(of) <= 3
  <2>1. CASE i \in Providers
    BY <1>9, <2>1
  <2>2. CASE i \notin Providers
    BY <1>1, <1>10, <2>2, BoundIs
  <2> QED BY <2>1, <2>2
<1>12. Len(of) \in Nat /\ DOMAIN of = 1..Len(of)
  BY <1>8
<1> HIDE DEF of
<1> QED BY <1>3, <1>4, <1>5, <1>6, <1>7, <1>8, <1>9, <1>10, <1>11, <1>12 DEF i, of

\* An item that is complete goes on the stack.
LEMMA PushedIs ==
  ASSUME Application!AppAssumption, AppInv, NEW a \in Apps, g_phase[a] = "entering", g_at[a][1] <= Len(g_items[a]),
         Application!Pushed(a), g_phase' = g_phase, g_items' = g_items, g_bound' = g_bound
  PROVE  LET i == g_items[a][g_at[a][1]]
         IN  /\ g_stack' = [g_stack EXCEPT ![a] = Append(@, i)] /\ g_stack' \in [Apps -> Lists]
             /\ g_at' \in [Apps -> Nat \X Nat] /\ Entering(a)'
             /\ \A b \in Apps \ {a} : g_at'[b] = g_at[b] /\ g_stack'[b] = g_stack[b]
             /\ Application!Range(g_stack'[a]) = Application!Range(g_stack[a]) \cup {i}
             /\ Underway(a)' = {} /\ Started(a)' = {} /\ Kept(a)' = Kept(a) \cup Keep(g_bound, i)
<1> DEFINE k == g_at[a][1]
           i == g_items[a][k]
           old == g_stack[a]
<1>1. StackInv /\ Entering(a) /\ BindingInv
  BY DEF AppInv, StackInv
<1>2. /\ k \in 1..Len(g_items[a]) /\ k \in Nat /\ i \in Application!Items /\ i \notin Application!Range(old)
  BY EnteringAt
<1>3. /\ g_stack' = [g_stack EXCEPT ![a] = Append(@, i)]
      /\ g_at' = [g_at EXCEPT ![a] = <<k + 1, 1>>]
  BY DEF Application!Pushed, Application!Entering
<1>4. old \in Lists /\ Distinct(old) /\ Len(old) = k - 1 /\ \A n \in 1..Len(old) : old[n] = g_items[a][n]
  BY <1>1, TypesOf DEF Entering
<1>5. i = g_items[a][k]
  OBVIOUS
<1> HIDE DEF i
<1>6. /\ g_stack'[a] = Append(old, i) /\ g_at'[a] = <<k + 1, 1>>
      /\ \A b \in Apps \ {a} : g_at'[b] = g_at[b] /\ g_stack'[b] = g_stack[b]
  BY <1>1, <1>3 DEF StackInv
<1>7. /\ Append(old, i) \in Lists /\ Application!Range(Append(old, i)) = Application!Range(old) \cup {i}
  BY <1>2, <1>4, AppendDistinct
<1>8. g_stack' \in [Apps -> Lists]
  BY <1>1, <1>3, <1>7 DEF StackInv
<1>9. g_at' \in [Apps -> Nat \X Nat]
  <2>1. <<k + 1, 1>> \in Nat \X Nat
    BY <1>2
  <2> QED BY <1>1, <1>3, <2>1 DEF StackInv
<1>10. Len(Append(old, i)) = k /\ \A n \in 1..k : Append(old, i)[n] = g_items[a][n]
  <2>1. old \in Seq(Application!Items)
    BY <1>4 DEF Lists, Application!Lists
  <2> HIDE DEF old
  <2>2. Len(Append(old, i)) = k /\ Append(old, i)[k] = i /\ \A n \in 1..(k - 1) : Append(old, i)[n] = old[n]
    BY <1>2, <1>4, <2>1
  <2>3. \A n \in 1..k : n = k \/ n \in 1..(k - 1)
    BY <1>2
  <2> QED BY <1>4, <1>5, <2>2, <2>3
<1>11. Entering(a)'
  <2>1. \A j : Len(Parts(g_bound, j)) \in Nat
    <3>1. \A j : Parts(g_bound, j) \in Seq(Bindings)
      BY <1>1, BoundIs, PartsTyped
    <3> QED BY <3>1
  <2>2. g_at'[a][1] = k + 1 /\ g_at'[a][2] = 1
    BY <1>6
  <2>3. k + 1 \in 1..(Len(g_items[a]) + 1) /\ (k + 1) - 1 = k
    BY <1>2, TypesOf
  <2>4. Len(g_stack'[a]) = k /\ \A n \in 1..k : g_stack'[a][n] = g_items[a][n]
    BY <1>6, <1>10
  <2>5. 1 <= Len(Parts(g_bound, g_items[a][k + 1])) + 1
    BY <2>1
  <2> HIDE DEF k
  <2> QED BY <2>2, <2>3, <2>4, <2>5 DEF Entering, Parts
<1>12. Underway(a)' = {}
  BY <1>6 DEF Underway
<1>13. Started(a)' = {}
  BY <1>12 DEF Started, Owners
<1>14. Kept(a)' = Kept(a) \cup Keep(g_bound, i)
  <2>1. Kept(a)' = UNION {Keep(g_bound, j) : j \in Application!Range(g_stack'[a])}
    BY DEF Kept, Keep, Parts, Application!Range
  <2> QED BY <1>6, <1>7, <2>1 DEF Kept
<1> QED BY <1>3, <1>6, <1>7, <1>8, <1>9, <1>11, <1>12, <1>13, <1>14 DEF i

LEMMA EntersItem ==
  ASSUME Application!AppAssumption, AppInv, NEW a \in Apps, Application!enter(a)
  PROVE  AppInv'
<1> DEFINE k == g_at[a][1]
           n == g_at[a][2]
           i == g_items[a][k]
           of == Parts(g_bound, i)
<1>1. StackInv /\ GlobalInv /\ BindingInv
  BY DEF AppInv
<1>2. /\ g_phase[a] = "entering" /\ k <= Len(g_items[a])
      /\ g_strict' = g_strict /\ g_items' = g_items /\ g_by_key' = g_by_key /\ g_bound' = g_bound
      /\ g_phase' = g_phase /\ g_active_apps' = g_active_apps /\ g_block' = g_block
      /\ g_failures' = g_failures /\ g_unsafe' = g_unsafe /\ g_reshared' = g_reshared
  BY DEF Application!enter, Application!registry
<1>3. IF i \in Providers
      THEN /\ g_pools' = g_pools \cup {i} /\ Application!Pushed(a)
           /\ UNCHANGED <<g_backends, g_global, g_saved>>
      ELSE IF n > Len(g_bound[i])
      THEN /\ Application!Installs(i) /\ Application!Pushed(a)
           /\ UNCHANGED <<g_pools, g_backends>>
      ELSE /\ g_pools' = g_pools \cup Application!Owned(i, n)
           /\ g_backends' = g_backends \cup {<<i, n>>}
           /\ g_at' = [g_at EXCEPT ![a] = <<@[1], n + 1>>]
           /\ UNCHANGED <<g_stack, g_global, g_saved>>
  BY Zenon DEF Application!enter, Application!Entering
<1>4. /\ g_at[a] = <<k, n>> /\ k \in 1..Len(g_items[a]) /\ k \in Nat
      /\ n \in Nat /\ n >= 1 /\ n <= Len(of) + 1
      /\ i \in Application!Range(g_items[a]) /\ i \in Application!Items /\ i \notin Application!Range(g_stack[a])
      /\ of \in Seq(Bindings) /\ Len(of) \in Nat /\ Len(of) <= 3 /\ DOMAIN of = 1..Len(of)
      /\ i \in Providers => of = <<>>
      /\ i \notin Providers => i \in Components /\ of = g_bound[i]
      /\ Underway(a) = {m \in 1..3 : m < n}
  BY <1>2, EnteringAt
<1>5. Started(a) = Owners(g_bound[i], Underway(a))
  BY DEF Started
<1>6. ASSUME Application!Pushed(a)
      PROVE  /\ g_stack' = [g_stack EXCEPT ![a] = Append(@, i)] /\ g_stack' \in [Apps -> Lists]
             /\ g_at' \in [Apps -> Nat \X Nat] /\ Entering(a)'
             /\ \A b \in Apps \ {a} : g_at'[b] = g_at[b] /\ g_stack'[b] = g_stack[b]
             /\ Application!Range(g_stack'[a]) = Application!Range(g_stack[a]) \cup {i}
             /\ Underway(a)' = {} /\ Started(a)' = {} /\ Kept(a)' = Kept(a) \cup Keep(g_bound, i)
  BY <1>2, <1>6, PushedIs
<1>7. Held(a)' = (Application!Range(g_stack'[a]) \cap Providers) \cup Kept(a)' \cup Started(a)'
  BY DEF Held, Application!Range
<1>8. Running(a)' =
        {b \in Components \X (1..3) : b[1] \in Application!Range(g_stack'[a]) /\ b[2] \in DOMAIN g_bound[b[1]]}
        \cup {b \in Components \X (1..3) : b[2] \in Underway(a)' /\ b[1] = g_items[a][g_at'[a][1]]}
  BY <1>2 DEF Running, Application!Range
<1>9. Running(a) =
        {b \in Components \X (1..3) : b[1] \in Application!Range(g_stack[a]) /\ b[2] \in DOMAIN g_bound[b[1]]}
        \cup {b \in Components \X (1..3) : b[2] \in Underway(a) /\ b[1] = i}
  BY DEF Running
<1>10. Held(a) = (Application!Range(g_stack[a]) \cap Providers) \cup Kept(a) \cup Started(a)
  BY DEF Held
<1> HIDE DEF i, of, k, n
<1>11. CASE i \in Providers
  <2>1. g_pools' = g_pools \cup {i} /\ Application!Pushed(a) /\ UNCHANGED <<g_backends, g_global, g_saved>>
    BY <1>3, <1>11
  <2>2. n = 1 /\ Underway(a) = {}
    BY <1>4, <1>11
  <2>3. Started(a) = {} /\ Keep(g_bound, i) = {}
    BY <1>1, <1>5, <1>11, <2>2, BoundIs DEF Owners
  <2>4. Held(a)' = Held(a) \cup {i}
    BY <1>6, <1>7, <1>10, <1>11, <2>1, <2>3
  <2>5. Running(a) \subseteq Running(a)'
    BY <1>6, <1>8, <1>9, <2>1, <2>2
  <2>6. Adds(a, {i}, {})
    BY <1>2, <1>6, <1>11, <2>1, <2>4, <2>5 DEF Adds
  <2>7. i \notin Globals
    BY <1>11, AppFacts
  <2>8. GlobalInv'
    BY <1>2, <1>4, <1>6, <2>1, <2>7, GlobalPushed
  <2> QED BY <2>6, <2>8, AddsKeeps
<1>12. CASE i \notin Providers /\ n > Len(g_bound[i])
  <2>1. Application!Installs(i) /\ Application!Pushed(a) /\ UNCHANGED <<g_pools, g_backends>>
    BY <1>3, <1>12
  <2>2. i \in Components /\ of = g_bound[i] /\ n = Len(of) + 1
    BY <1>4, <1>12
  <2>3. Underway(a) = DOMAIN g_bound[i]
    BY <1>4, <2>2
  <2>4. Started(a) = Keep(g_bound, i)
    BY <1>5, <2>2, <2>3 DEF Owners, Keep, of
  <2>5. Held(a)' = Held(a)
    BY <1>6, <1>7, <1>10, <1>12, <2>1, <2>4
  <2>6. Running(a) \subseteq Running(a)'
    BY <1>6, <1>8, <1>9, <2>1, <2>3
  <2>7. Adds(a, {}, {})
    BY <1>2, <1>6, <2>1, <2>5, <2>6 DEF Adds
  <2>8. IF i \in Globals THEN g_global' = i /\ g_saved' = [g_saved EXCEPT ![i] = g_global]
        ELSE UNCHANGED <<g_global, g_saved>>
    BY <2>1 DEF Application!Installs
  <2>9. GlobalInv'
    BY <1>2, <1>4, <1>6, <2>1, <2>8, GlobalPushed
  <2> QED BY <2>7, <2>9, AddsKeeps
<1>13. CASE i \notin Providers /\ ~ (n > Len(g_bound[i]))
  <2>1. /\ g_pools' = g_pools \cup Application!Owned(i, n) /\ g_backends' = g_backends \cup {<<i, n>>}
        /\ g_at' = [g_at EXCEPT ![a] = <<@[1], n + 1>>] /\ UNCHANGED <<g_stack, g_global, g_saved>>
    BY <1>3, <1>13
  <2>2. i \in Components /\ of = g_bound[i] /\ n \in DOMAIN g_bound[i] /\ n <= Len(of) /\ n \in 1..3
    BY <1>4, <1>13
  <2>3. g_at'[a] = <<k, n + 1>> /\ g_at' \in [Apps -> Nat \X Nat] /\ \A b \in Apps \ {a} : g_at'[b] = g_at[b]
    <3>1. g_at \in [Apps -> Nat \X Nat] /\ g_at[a][1] = k
      BY <1>1 DEF StackInv, k
    <3>2. <<k, n + 1>> \in Nat \X Nat
      BY <1>4
    <3> QED BY <2>1, <3>1, <3>2
  <2>4. Underway(a)' = Underway(a) \cup {n}
    <3>1. Underway(a)' = {m \in 1..3 : m < n + 1}
      BY <1>2, <1>4, <2>3 DEF Underway
    <3> QED BY <1>4, <2>2, <3>1
  <2>5. g_items'[a][g_at'[a][1]] = i
    BY <1>2, <2>3 DEF i
  <2>6. Started(a)' = Started(a) \cup Application!Owned(i, n)
    <3>1. Started(a)' = Owners(g_bound[i], Underway(a)')
      BY <1>2, <2>5 DEF Started
    <3>2. Owners(g_bound[i], {n}) = Application!Owned(i, n)
      BY DEF Owners, Application!Owned
    <3>3. Owners(g_bound[i], Underway(a) \cup {n}) = Owners(g_bound[i], Underway(a)) \cup Owners(g_bound[i], {n})
      BY DEF Owners
    <3> QED BY <1>5, <2>4, <3>1, <3>2, <3>3
  <2>7. Kept(a)' = Kept(a)
    BY <1>2, <2>1 DEF Kept, Keep, Parts
  <2>8. Held(a)' = Held(a) \cup Application!Owned(i, n)
    BY <1>7, <1>10, <2>1, <2>6, <2>7
  <2>9. Running(a) \cup {<<i, n>>} \subseteq Running(a)'
    <3>1. <<i, n>> \in Components \X (1..3)
      BY <2>2
    <3>2. <<i, n>> \in Running(a)'
      BY <1>2, <1>8, <2>4, <2>5, <3>1
    <3>3. Running(a) \subseteq Running(a)'
      BY <1>2, <1>8, <1>9, <2>1, <2>4, <2>5
    <3> QED BY <3>2, <3>3
  <2>10. Application!Owned(i, n) \subseteq Providers
    <3>1. of[n] \in Bindings
      BY <1>4, <2>2
    <3>2. g_bound[i][n].provider \in Providers
      BY <2>2, <3>1, BindingFields
    <3> QED BY <3>2 DEF Application!Owned
  <2>11. Entering(a)'
    <3>1. Entering(a) /\ Len(g_stack[a]) = k - 1 /\ \A m \in 1..Len(g_stack[a]) : g_stack[a][m] = g_items[a][m]
      BY <1>1, <1>2 DEF StackInv, Entering, k
    <3>2. g_at'[a][1] = k /\ g_at'[a][2] = n + 1
      BY <2>3
    <3>3. k \in 1..(Len(g_items[a]) + 1) /\ n + 1 \in Nat \ {0} /\ n + 1 <= Len(of) + 1
      BY <1>4, <2>2, TypesOf
    <3>4. of = Parts(g_bound, g_items[a][k])
      BY DEF of, i
    <3> QED BY <1>2, <2>1, <3>1, <3>2, <3>3, <3>4 DEF Entering, Parts
  <2>12. \A b \in {<<i, n>>} : b[2] \in DOMAIN g_bound[b[1]] /\ b \in Components \X (1..3)
    BY <2>2
  <2>13. Adds(a, Application!Owned(i, n), {<<i, n>>})
    <3>1. g_stack' \in [Apps -> Lists]
      BY <1>1, <2>1 DEF StackInv
    <3> QED BY <1>2, <2>1, <2>3, <2>8, <2>9, <2>10, <2>11, <2>12, <3>1 DEF Adds
  <2>14. GlobalInv'
    <3>1. \A b \in Apps : (Owning(b)' <=> Owning(b)) /\ (Globally(b)' <=> Globally(b))
      BY <1>2, <2>1, CoreKept DEF Owning, Globally
    <3>2. ~ AllowMultiple => \A b, d \in g_active_apps' : Owning(b)' /\ Owning(d)' => b = d
      <4>1. g_active_apps' \subseteq Apps
        BY <1>1, <1>2 DEF StackInv
      <4> QED BY <1>1, <1>2, <3>1, <4>1 DEF GlobalInv
    <3>3. ~ g_unsafe' => \A b \in Apps : Globally(b)' => b \in g_active_apps'
      BY <1>1, <1>2, <3>1 DEF GlobalInv
    <3>4. ~ AllowMultiple /\ ~ g_unsafe' => \A b \in Apps :
            /\ \A m \in DOMAIN g_stack'[b] :
                 g_stack'[b][m] \in Globals => LastGlobal(g_saved'[g_stack'[b][m]], g_stack'[b], m - 1)
            /\ Globally(b)' => LastGlobal(g_global', g_stack'[b], Len(g_stack'[b]))
            /\ (\A d \in Apps : ~ Globally(d)') => g_global' = None
      BY <1>1, <1>2, <2>1, <3>1 DEF GlobalInv
    <3> QED BY <1>1, <2>1, <3>2, <3>3, <3>4 DEF GlobalInv, LastGlobal
  <2> QED BY <2>13, <2>14, AddsKeeps
<1> QED BY <1>11, <1>12, <1>13

-----------------------------------------------------------------------------
\* An item is closed.

LEMMA FrontIs ==
  ASSUME NEW s \in Lists, Distinct(s), s # <<>>
  PROVE  LET i == Application!Topmost(s)
             r == Application!Unwound(s)
         IN  /\ r \in Lists /\ Distinct(r) /\ Len(s) \in Nat /\ Len(s) >= 1 /\ Len(r) = Len(s) - 1
             /\ \A k \in 1..Len(r) : r[k] = s[k]
             /\ DOMAIN r = 1..Len(r) /\ DOMAIN s = 1..Len(s)
             /\ i = s[Len(s)] /\ i \in Application!Items
             /\ i \notin Application!Range(r) /\ Application!Range(s) = Application!Range(r) \cup {i}
<1> DEFINE i == Application!Topmost(s)
           r == Application!Unwound(s)
<1>1. s \in Seq(Application!Items) /\ Len(s) \in Nat /\ Len(s) >= 1 /\ DOMAIN s = 1..Len(s)
  BY DEF Lists, Application!Lists
<1>2. i = s[Len(s)] /\ r = SubSeq(s, 1, Len(s) - 1)
  BY DEF Application!Topmost, Application!Unwound
<1> HIDE DEF i, r
<1>3. r \in Seq(Application!Items) /\ Len(r) = Len(s) - 1 /\ \A k \in 1..Len(r) : r[k] = s[k]
  BY <1>1, <1>2
<1>4. DOMAIN r = 1..Len(r)
  BY <1>3
<1>5. i \in Application!Items
  BY <1>1, <1>2
<1> DEFINE L == Len(s)
<1>6. /\ L \in Nat /\ L >= 1 /\ DOMAIN s = 1..L /\ DOMAIN r = 1..(L - 1)
      /\ i = s[L] /\ \A k \in 1..(L - 1) : r[k] = s[k]
  <2>1. L \in Nat /\ L >= 1 /\ DOMAIN s = 1..L /\ i = s[L]
    BY <1>1, <1>2
  <2>2. DOMAIN r = 1..(L - 1) /\ \A k \in 1..(L - 1) : r[k] = s[k]
    BY <1>3, <1>4
  <2> QED BY <2>1, <2>2
<1> HIDE DEF L
<1>7. L \in 1..L /\ (\A k \in 1..(L - 1) : k \in 1..L /\ k # L) /\ \A k \in 1..L : k = L \/ k \in 1..(L - 1)
  BY <1>6
<1>8. Distinct(r)
  BY <1>6, <1>7 DEF Distinct
<1>9. i \notin Application!Range(r)
  BY <1>6, <1>7 DEF Distinct, Application!Range
<1>10. Application!Range(s) = Application!Range(r) \cup {i}
  BY <1>6, <1>7 DEF Application!Range
<1> QED BY <1>1, <1>2, <1>3, <1>4, <1>5, <1>8, <1>9, <1>10 DEF i, r, Lists, Application!Lists

LEMMA LastGlobalStart ==
  ASSUME NEW g, NEW s, NEW r, NEW n \in Nat, \A k \in 1..n : r[k] = s[k], LastGlobal(g, s, n)
  PROVE  LastGlobal(g, r, n)
<1>1. \A m \in 1..n : \A k \in (m + 1)..n : k \in 1..n
  OBVIOUS
<1> QED BY <1>1 DEF LastGlobal

LEMMA GlobalPopped ==
  ASSUME Application!AppAssumption, AppInv, NEW a \in Apps, g_stack[a] # <<>>,
         g_stack' = [g_stack EXCEPT ![a] = Application!Unwound(@)],
         g_items' = g_items, g_active_apps' = g_active_apps, g_unsafe' = g_unsafe, g_saved' = g_saved,
         g_global' = IF Application!Topmost(g_stack[a]) \in Globals THEN g_saved[Application!Topmost(g_stack[a])] ELSE g_global
  PROVE  GlobalInv'
<1> DEFINE s == g_stack[a]
           i == Application!Topmost(s)
           r == Application!Unwound(s)
<1>1. StackInv /\ GlobalInv
  BY DEF AppInv
<1>2. /\ r \in Lists /\ Len(s) \in Nat /\ Len(s) >= 1 /\ Len(r) = Len(s) - 1
      /\ \A k \in 1..Len(r) : r[k] = s[k]
      /\ DOMAIN r = 1..Len(r) /\ DOMAIN s = 1..Len(s)
      /\ i = s[Len(s)]
      /\ Application!Range(s) = Application!Range(r) \cup {i}
  BY TypesOf, FrontIs
<1>3. g_stack'[a] = r /\ \A b \in Apps : b # a => g_stack'[b] = g_stack[b]
  BY <1>1 DEF StackInv
<1>4. \A b \in Apps : Globally(b)' <=> Application!Range(g_stack'[b]) \cap Globals # {}
  BY DEF Globally, Application!Range
<1>5. \A b \in Apps : b # a => (Globally(b)' <=> Globally(b))
  BY <1>3, <1>4 DEF Globally
<1>6. /\ Globally(a) <=> Application!Range(s) \cap Globals # {}
      /\ Globally(a)' <=> Application!Range(r) \cap Globals # {}
  BY <1>3, <1>4 DEF Globally
<1>7. g_global' = IF i \in Globals THEN g_saved[i] ELSE g_global
  OBVIOUS
<1> HIDE DEF s, i, r
<1>8. Globally(a)' => Globally(a)
  BY <1>2, <1>6
<1>9. i \in Globals => Globally(a)
  BY <1>2, <1>6
<1>10. (i \notin Globals) => (Globally(a)' <=> Globally(a))
  BY <1>2, <1>6
<1>11. \A b \in Apps : Owning(b)' <=> Owning(b)
  BY CoreKept DEF Owning
<1>12. g_global' \in Globals \cup {None} /\ g_saved' \in [Globals -> Globals \cup {None}]
  BY <1>1, <1>7 DEF GlobalInv
<1>13. ~ AllowMultiple => \A b, d \in g_active_apps' : Owning(b)' /\ Owning(d)' => b = d
  <2>1. g_active_apps' \subseteq Apps
    BY <1>1 DEF StackInv
  <2> QED BY <1>1, <1>11, <2>1 DEF GlobalInv
<1>14. ~ g_unsafe' => \A b \in Apps : Globally(b)' => b \in g_active_apps'
  BY <1>1, <1>5, <1>8 DEF GlobalInv
<1>15. ASSUME ~ AllowMultiple, ~ g_unsafe
       PROVE  /\ \A n \in DOMAIN s : s[n] \in Globals => LastGlobal(g_saved[s[n]], s, n - 1)
              /\ Globally(a) => LastGlobal(g_global, s, Len(s))
              /\ (\A b \in Apps : ~ Globally(b)) => g_global = None
              /\ \A b \in Apps : \A n \in DOMAIN g_stack[b] :
                   g_stack[b][n] \in Globals => LastGlobal(g_saved[g_stack[b][n]], g_stack[b], n - 1)
              /\ \A b \in Apps : Globally(b) => LastGlobal(g_global, g_stack[b], Len(g_stack[b]))
  BY <1>1, <1>15 DEF GlobalInv, s
<1>16. ASSUME ~ AllowMultiple, ~ g_unsafe, i \in Globals
       PROVE  \A b \in Apps : b # a => ~ Globally(b)
  <2>1. a \in g_active_apps
    BY <1>1, <1>9, <1>16 DEF GlobalInv
  <2>2. Owning(a)
    <3>1. i \in Application!Range(g_stack[a]) /\ i \in Components /\ i \notin Fakes
      BY <1>2, <1>16, AppFacts DEF s
    <3>2. i \in Core(a)
      BY <1>1, <3>1 DEF StackInv
    <3> QED BY <1>16, <3>2 DEF Owning
  <2> QED BY <1>16, <2>1, <2>2, OneOwner
\* Under the last one is the one before it.
<1>17. ASSUME ~ AllowMultiple, ~ g_unsafe, Globally(a) PROVE LastGlobal(g_global', s, Len(s) - 1)
  <2>1. CASE i \in Globals
    <3>1. Len(s) \in DOMAIN s /\ s[Len(s)] = i
      BY <1>2
    <3>2. LastGlobal(g_saved[i], s, Len(s) - 1)
      BY <1>15, <1>17, <2>1, <3>1
    <3> QED BY <1>7, <2>1, <3>2
  <2>2. CASE i \notin Globals
    <3>1. LastGlobal(g_global, s, Len(s)) /\ g_global' = g_global
      BY <1>7, <1>15, <1>17, <2>2
    <3>2. \A k \in 1..(Len(s) - 1) : k \in 1..Len(s)
      BY <1>2
    <3>3. \A m \in 1..Len(s) : m = Len(s) \/ m \in 1..(Len(s) - 1)
      BY <1>2
    <3>4. \A m \in 1..Len(s) : \A k \in (m + 1)..(Len(s) - 1) : k \in (m + 1)..Len(s)
      BY <1>2
    <3> QED BY <1>2, <2>2, <3>1, <3>2, <3>3, <3>4 DEF LastGlobal
  <2> QED BY <2>1, <2>2
<1>18. ASSUME ~ AllowMultiple, ~ g_unsafe, Globally(a) PROVE LastGlobal(g_global', r, Len(r))
  <2>1. Len(r) \in Nat /\ Len(r) = Len(s) - 1 /\ \A k \in 1..Len(r) : r[k] = s[k]
    BY <1>2
  <2> QED BY <1>17, <1>18, <2>1, LastGlobalStart
<1>19. ASSUME ~ AllowMultiple, ~ g_unsafe, \A b \in Apps : ~ Globally(b)' PROVE g_global' = None
  <2>1. CASE Globally(a)
    <3>1. LastGlobal(g_global', r, Len(r))
      BY <1>18, <1>19, <2>1
    <3>2. \A k \in 1..Len(r) : r[k] \notin Globals
      BY <1>2, <1>6, <1>19 DEF Application!Range
    <3> QED BY <3>1, <3>2 DEF LastGlobal
  <2>2. CASE ~ Globally(a)
    BY <1>5, <1>7, <1>9, <1>15, <1>19, <2>2
  <2> QED BY <2>1, <2>2
<1>20. ASSUME ~ AllowMultiple, ~ g_unsafe, NEW b \in Apps
       PROVE  /\ \A n \in DOMAIN g_stack'[b] :
                   g_stack'[b][n] \in Globals => LastGlobal(g_saved'[g_stack'[b][n]], g_stack'[b], n - 1)
              /\ Globally(b)' => LastGlobal(g_global', g_stack'[b], Len(g_stack'[b]))
  <2>1. CASE b = a
    <3>1. ASSUME NEW n \in DOMAIN r, r[n] \in Globals PROVE LastGlobal(g_saved[r[n]], r, n - 1)
      <4>1. n \in DOMAIN s /\ r[n] = s[n] /\ n - 1 \in Nat /\ \A k \in 1..(n - 1) : k \in 1..Len(r)
        BY <1>2
      <4>2. LastGlobal(g_saved[s[n]], s, n - 1)
        BY <1>15, <1>20, <3>1, <4>1
      <4> QED BY <1>2, <4>1, <4>2, LastGlobalStart
    <3> QED BY <1>3, <1>8, <1>18, <1>20, <2>1, <3>1
  <2>2. CASE b # a
    <3>1. g_stack'[b] = g_stack[b]
      BY <1>3, <2>2
    <3>2. Globally(b) => i \notin Globals /\ g_global' = g_global
      BY <1>7, <1>16, <1>20, <2>2
    <3> QED BY <1>5, <1>15, <1>20, <2>2, <3>1, <3>2
  <2> QED BY <2>1, <2>2
<1>21. ~ AllowMultiple /\ ~ g_unsafe' => \A b \in Apps :
          /\ \A n \in DOMAIN g_stack'[b] :
               g_stack'[b][n] \in Globals => LastGlobal(g_saved'[g_stack'[b][n]], g_stack'[b], n - 1)
          /\ Globally(b)' => LastGlobal(g_global', g_stack'[b], Len(g_stack'[b]))
          /\ (\A d \in Apps : ~ Globally(d)') => g_global' = None
  BY <1>19, <1>20
<1> QED BY <1>12, <1>13, <1>14, <1>21 DEF GlobalInv, LastGlobal

LEMMA ExitsItem ==
  ASSUME Application!AppAssumption, AppInv, NEW a \in Apps, Application!exit_item(a)
  PROVE  AppInv'
<1> DEFINE s == g_stack[a]
           i == Application!Topmost(s)
           r == Application!Unwound(s)
           closed == IF i \in Providers THEN {i} ELSE Keep(g_bound, i)
           stopped == IF i \in Providers THEN {} ELSE {i} \X DOMAIN g_bound[i]
<1>1. Counts /\ BindingInv /\ ListInv /\ StackInv /\ OpenInv /\ ApartInv
  BY DEF AppInv
<1>2. /\ g_phase[a] \in {"exiting", "unwinding"} /\ s # <<>>
      /\ g_stack' = [g_stack EXCEPT ![a] = Application!Unwound(@)]
      /\ g_strict' = g_strict /\ g_items' = g_items /\ g_by_key' = g_by_key /\ g_bound' = g_bound
      /\ g_phase' = g_phase /\ g_at' = g_at /\ g_saved' = g_saved /\ g_active_apps' = g_active_apps
      /\ g_block' = g_block /\ g_failures' = g_failures /\ g_unsafe' = g_unsafe /\ g_reshared' = g_reshared
      /\ Application!Closes(i)
  BY DEF Application!exit_item, Application!registry
<1>3. /\ r \in Lists /\ Distinct(r) /\ Len(s) \in Nat /\ Len(s) >= 1 /\ Len(r) = Len(s) - 1
      /\ \A k \in 1..Len(r) : r[k] = s[k]
      /\ DOMAIN r = 1..Len(r) /\ DOMAIN s = 1..Len(s)
      /\ i \in Application!Items
      /\ i \notin Application!Range(r) /\ Application!Range(s) = Application!Range(r) \cup {i}
  BY <1>2, TypesOf, FrontIs
<1>4. i \notin Providers => i \in Components /\ Parts(g_bound, i) = g_bound[i]
  BY <1>3 DEF Application!Items, Parts
<1>5. g_pools' = g_pools \ closed /\ g_backends' = g_backends \ stopped
  <2>1. CASE i \in Providers
    BY <1>2, <2>1 DEF Application!Closes
  <2>2. CASE i \notin Providers
    <3>1. /\ g_pools' = g_pools \ UNION {Application!Owned(i, n) : n \in DOMAIN g_bound[i]}
          /\ g_backends' = g_backends \ ({i} \X DOMAIN g_bound[i])
      BY <1>2, <2>2 DEF Application!Closes
    <3>2. Keep(g_bound, i) = {g_bound[i][m].provider : m \in {k \in DOMAIN g_bound[i] : g_bound[i][k].owns}}
      BY <1>4, <2>2 DEF Keep
    <3>3. UNION {Application!Owned(i, n) : n \in DOMAIN g_bound[i]} = Keep(g_bound, i)
      BY <3>2 DEF Application!Owned
    <3> QED BY <2>2, <3>1, <3>3
  <2> QED BY <2>1, <2>2
<1>6. g_global' = IF i \in Globals THEN g_saved[i] ELSE g_global
  <2>1. CASE i \in Providers
    BY <1>2, <2>1, AppFacts DEF Application!Closes
  <2>2. CASE i \notin Providers
    BY <1>2, <2>2 DEF Application!Closes
  <2> QED BY <2>1, <2>2
<1>7. GlobalInv'
  BY <1>2, <1>6, GlobalPopped
<1>8. g_stack'[a] = r /\ \A b \in Apps : b # a => g_stack'[b] = g_stack[b]
  BY <1>1, <1>2 DEF StackInv
<1>9. g_stack[a] = s
  OBVIOUS
<1>10. s \in Lists /\ Distinct(s)
  BY TypesOf
<1> HIDE DEF s, i, r
<1>11. /\ \A b \in Apps : Core(b)' = Core(b) /\ Real(g_items[b])' = Real(g_items[b])
       /\ Separate' <=> Separate
       /\ \A b \in Apps : Mine(b)' = Mine(b)
  BY <1>2, CoreKept, CoreSame
<1>12. ASSUME NEW b \in Apps, b # a
       PROVE  /\ Held(b)' = Held(b) /\ Running(b)' = Running(b) /\ Planned(b)' = Planned(b)
              /\ Entering(b) => Entering(b)'
  <2>1. Untouched(b)
    BY <1>2, <1>8, <1>12 DEF Untouched
  <2> QED BY <1>2, <2>1, SameApp
\* What is left of the app.
<1>13. Underway(a) = {} /\ Underway(a)' = {} /\ Started(a) = {} /\ Started(a)' = {}
  BY <1>2 DEF Underway, Started, Owners
<1>14. Kept(a) = Kept(a)' \cup Keep(g_bound, i)
  <2>1. Kept(a)' = UNION {Keep(g_bound, j) : j \in Application!Range(r)}
    BY <1>2, <1>8 DEF Kept, Keep, Parts, Application!Range
  <2> QED BY <1>3, <1>9, <2>1 DEF Kept
<1>15. /\ Held(a) = (Application!Range(s) \cap Providers) \cup Kept(a)
       /\ Held(a)' = (Application!Range(r) \cap Providers) \cup Kept(a)'
  <2>1. Held(a)' = (Application!Range(g_stack'[a]) \cap Providers) \cup Kept(a)' \cup Started(a)'
    BY DEF Held, Application!Range
  <2> QED BY <1>8, <1>9, <1>13, <2>1 DEF Held
<1>16. Held(a)' \subseteq Held(a) /\ Held(a) \subseteq Held(a)' \cup closed
  <2>1. CASE i \in Providers
    <3>1. Keep(g_bound, i) = {}
      BY <1>1, <2>1, BoundIs
    <3> QED BY <1>3, <1>14, <1>15, <2>1, <3>1
  <2>2. CASE i \notin Providers
    BY <1>3, <1>14, <1>15, <2>2
  <2> QED BY <2>1, <2>2
<1>17. Running(a) \subseteq Running(a)' \cup stopped
  <2>1. Running(a) = {b \in Components \X (1..3) : b[1] \in Application!Range(s) /\ b[2] \in DOMAIN g_bound[b[1]]}
    BY <1>9, <1>13 DEF Running
  <2>2. Running(a)' = {b \in Components \X (1..3) : b[1] \in Application!Range(r) /\ b[2] \in DOMAIN g_bound[b[1]]}
    BY <1>2, <1>8, <1>13 DEF Running, Application!Range
  <2>3. ASSUME NEW b \in Running(a), b \notin Running(a)' PROVE b \in stopped
    <3>1. b[1] = i /\ b[2] \in DOMAIN g_bound[i] /\ b \in Components \X (1..3)
      BY <1>3, <2>1, <2>2, <2>3
    <3>2. i \notin Providers /\ b = <<b[1], b[2]>>
      BY <3>1, AppFacts
    <3> QED BY <3>1, <3>2
  <2> QED BY <2>3
<1>18. Planned(a) = s /\ Planned(a)' = r
  BY <1>2, <1>8, <1>9 DEF Planned
<1>19. Settled(g_bound, s) => Settled(g_bound, r)
  <2>1. Len(r) <= Len(s)
    BY <1>3
  <2> QED BY <1>3, <1>10, <2>1, SettledStart
<1>20. Application!Range(r) \subseteq Application!Range(s) /\ Real(r) \subseteq Real(s)
  BY <1>3 DEF Real
\* What is closed is not what the rest of it has.
<1>21. ASSUME Real(s) \cap OwnMade = {} PROVE Held(a)' \cap closed = {}
  <2>1. \A j \in Application!Range(r) : Keep(g_bound, j) \subseteq OwnMade
    <3> SUFFICES ASSUME NEW j \in Application!Range(r) PROVE Keep(g_bound, j) \subseteq OwnMade
      OBVIOUS
    <3>1. j \in Application!Items
      BY <1>3 DEF Lists, Application!Lists, Application!Range
    <3>2. CASE j \in Providers
      BY <1>1, <3>2, BoundIs
    <3>3. CASE j \in Components
      BY <1>1, <3>3, BoundIs DEF OwnMade
    <3> QED BY <3>1, <3>2, <3>3 DEF Application!Items
  <2>2. Kept(a)' = UNION {Keep(g_bound, j) : j \in Application!Range(r)}
    BY <1>2, <1>8 DEF Kept, Keep, Parts, Application!Range
  <2>3. Application!Range(s) \cap Providers \subseteq Real(s)
    BY AppFacts DEF Real
  <2>4. CASE i \in Providers
    <3>1. i \notin OwnMade
      BY <1>3, <1>21, <2>3, <2>4
    <3> QED BY <1>3, <1>15, <2>1, <2>2, <2>4, <3>1
  <2>5. CASE i \notin Providers
    <3>1. i \in Components /\ Keep(g_bound, i) \subseteq Application!Made(i)
      BY <1>1, <1>4, <2>5, BoundIs
    <3>2. Keep(g_bound, i) \subseteq OwnMade
      BY <3>1 DEF OwnMade
    <3>3. ASSUME NEW j \in Application!Range(r) PROVE Keep(g_bound, j) \cap Keep(g_bound, i) = {}
      <4>1. CASE j \in Components
        <5>1. j # i /\ Keep(g_bound, j) \subseteq Application!Made(j)
          BY <1>1, <1>3, <4>1, BoundIs
        <5> QED BY <3>1, <4>1, <5>1, OnesOwn
      <4>2. CASE j \notin Components
        <5>1. j \in Providers
          BY <1>3, <4>2 DEF Lists, Application!Lists, Application!Range, Application!Items
        <5> QED BY <1>1, <5>1, BoundIs
      <4> QED BY <4>1, <4>2
    <3>4. Kept(a)' \cap Keep(g_bound, i) = {}
      BY <2>2, <3>3
    <3>5. Application!Range(r) \cap Providers \cap Keep(g_bound, i) = {}
      BY <1>20, <1>21, <2>3, <3>2
    <3> QED BY <1>15, <2>5, <3>4, <3>5
  <2> QED BY <2>4, <2>5
\* Nor is it what another app has.
<1>22. ASSUME Separate, NEW b \in Apps, b # a PROVE Held(b) \cap closed = {}
  <2>1. Held(b) \subseteq Mine(b) /\ Mine(a) \cap Mine(b) = {}
    BY <1>22, HeldIsMine, MineApart
  <2>2. i \in Application!Range(g_stack[a])
    BY <1>3, <1>9
  <2>3. Keep(g_bound, i) \subseteq Mine(a)
    BY <1>22, <2>2, HeldIsMine
  <2>4. i \in Providers => i \in Mine(a)
    <3>1. Real(g_stack[a]) \subseteq Mine(a)
      BY <1>1, <1>22 DEF ApartInv
    <3> QED BY <2>2, <3>1, AppFacts DEF Real
  <2> QED BY <2>1, <2>3, <2>4
<1> HIDE DEF closed, stopped
<1>23. Counts' /\ BindingInv'
  BY <1>1, <1>2 DEF Counts, BindingInv
<1>24. ListInv'
  <2>1. \A t \in Tasks : g_block[t] # None => g_phase'[g_block[t].app] = "open"
    BY <1>1, <1>2 DEF ListInv, IsBlock
  <2> QED BY <1>2, <2>1, ListKept
<1>25. StackInv'
  <2>1. ASSUME NEW b \in Apps
        PROVE  /\ Distinct(g_stack'[b]) /\ Application!Range(g_stack'[b]) \cap Components \subseteq Core(b)' \cup Fakes
               /\ g_phase'[b] \in {"broken", "closed"} => g_stack'[b] = <<>>
               /\ g_phase'[b] = "entering" => Entering(b)'
               /\ g_phase'[b] = "unwinding" => g_failures' # 0
    <3>1. /\ Application!Range(g_stack[b]) \cap Components \subseteq Core(b) \cup Fakes
          /\ g_phase[b] \in {"broken", "closed"} => g_stack[b] = <<>>
          /\ g_phase[b] = "entering" => Entering(b)
          /\ g_phase[b] = "unwinding" => g_failures # 0
          /\ Distinct(g_stack[b])
      BY <1>1 DEF StackInv
    <3>2. CASE b = a
      BY <1>2, <1>3, <1>8, <1>9, <1>11, <1>20, <3>1, <3>2
    <3>3. CASE b # a
      BY <1>2, <1>8, <1>11, <1>12, <3>1, <3>3
    <3> QED BY <3>2, <3>3
  <2>2. g_stack' \in [Apps -> Lists]
    BY <1>1, <1>2, <1>3 DEF StackInv, r, s
  <2> QED BY <1>1, <1>2, <2>1, <2>2 DEF StackInv, Application!Range
<1>26. OpenInv'
  <2>1. g_failures' = 0 => g_backends' \subseteq UNION {Running(b)' : b \in Apps}
    <3> SUFFICES ASSUME g_failures = 0, NEW x \in g_backends' PROVE \E b \in Apps : x \in Running(b)'
      BY <1>2
    <3>1. x \in g_backends /\ x \notin stopped
      BY <1>5
    <3>2. PICK b \in Apps : x \in Running(b)
      BY <1>1, <3>1 DEF OpenInv
    <3> QED BY <1>12, <1>17, <3>1, <3>2
  <2>2. g_failures' = 0 /\ Separate' => g_pools' \subseteq UNION {Held(b)' : b \in Apps}
    <3> SUFFICES ASSUME g_failures = 0, Separate, NEW x \in g_pools' PROVE \E b \in Apps : x \in Held(b)'
      BY <1>2, <1>11
    <3>1. x \in g_pools /\ x \notin closed
      BY <1>5
    <3>2. PICK b \in Apps : x \in Held(b)
      BY <1>1, <3>1 DEF OpenInv
    <3> QED BY <1>12, <1>16, <3>1, <3>2
  <2>3. \A b \in g_backends' : b[2] \in DOMAIN g_bound'[b[1]]
    BY <1>1, <1>2, <1>5 DEF OpenInv
  <2>4. g_pools' \subseteq Providers /\ g_backends' \subseteq Components \X (1..3)
    BY <1>1, <1>5 DEF OpenInv
  <2> QED BY <2>1, <2>2, <2>3, <2>4 DEF OpenInv
<1>27. ApartInv'
  <2> SUFFICES ASSUME Separate, NEW b \in Apps
               PROVE  /\ Real(g_items[b]) \subseteq Mine(b) /\ Real(g_stack'[b]) \subseteq Mine(b)
                      /\ \A c \in Core(b) \cap Components : \A m \in DOMAIN g_bound[c] : g_bound[c][m].provider \in Mine(b)
                      /\ b \notin g_reshared =>
                           /\ Settled(g_bound, Planned(b)') /\ Real(Planned(b)') \cap OwnMade = {}
                           /\ Held(b)' \subseteq g_pools'
    <3>1. \A d \in Apps : Real(g_stack[d])' = Real(g_stack'[d]) /\ Real(Planned(d))' = Real(Planned(d)')
      BY DEF Real
    <3> QED BY <1>2, <1>11, <3>1 DEF ApartInv
  <2>1. /\ Real(g_items[b]) \subseteq Mine(b) /\ Real(g_stack[b]) \subseteq Mine(b)
        /\ \A c \in Core(b) \cap Components : \A m \in DOMAIN g_bound[c] : g_bound[c][m].provider \in Mine(b)
        /\ b \notin g_reshared =>
             /\ Settled(g_bound, Planned(b)) /\ Real(Planned(b)) \cap OwnMade = {}
             /\ Held(b) \subseteq g_pools
    BY <1>1 DEF ApartInv
  <2>2. CASE b # a
    <3>1. Real(g_stack'[b]) \subseteq Mine(b)
      BY <1>8, <2>1, <2>2
    <3>2. Held(b) \subseteq g_pools => Held(b)' \subseteq g_pools'
      BY <1>5, <1>12, <1>22, <2>2
    <3> QED BY <1>12, <2>1, <2>2, <3>1, <3>2
  <2>3. CASE b = a
    <3>1. Real(g_stack'[b]) \subseteq Mine(b)
      BY <1>8, <1>9, <1>20, <2>1, <2>3
    <3>2. a \notin g_reshared => /\ Settled(g_bound, r) /\ Real(r) \cap OwnMade = {}
                                 /\ Held(a)' \subseteq g_pools'
      BY <1>5, <1>16, <1>18, <1>19, <1>20, <1>21, <2>1, <2>3
    <3> QED BY <1>18, <2>1, <2>3, <3>1, <3>2
  <2> QED BY <2>2, <2>3
<1> QED BY <1>7, <1>23, <1>24, <1>25, <1>26, <1>27 DEF AppInv

-----------------------------------------------------------------------------
\* Every step, and what the invariant says.

LEMMA NothingHappens ==
  ASSUME AppInv, UNCHANGED Application!vars
  PROVE  AppInv'
<1>1. Counts /\ BindingInv /\ ListInv /\ StackInv /\ OpenInv /\ ApartInv /\ GlobalInv
  BY DEF AppInv
<1>2. /\ g_strict' = g_strict /\ g_items' = g_items /\ g_by_key' = g_by_key /\ g_bound' = g_bound
      /\ g_phase' = g_phase /\ g_at' = g_at /\ g_stack' = g_stack /\ g_pools' = g_pools
      /\ g_backends' = g_backends /\ g_active_apps' = g_active_apps /\ g_global' = g_global
      /\ g_saved' = g_saved /\ g_block' = g_block /\ g_failures' = g_failures
      /\ g_unsafe' = g_unsafe /\ g_reshared' = g_reshared
  BY DEF Application!vars
<1>3. \A b \in Apps : Core(b)' = Core(b) /\ Real(g_items[b])' = Real(g_items[b])
  BY <1>2, CoreKept
<1>4. /\ Separate' <=> Separate
      /\ \A b \in Apps : Mine(b)' = Mine(b) /\ (Owning(b)' <=> Owning(b))
  BY <1>3, CoreSame
<1>5. \A b \in Apps : Untouched(b)
  BY <1>2 DEF Untouched
<1>6. ASSUME NEW b \in Apps
      PROVE  /\ Held(b)' = Held(b) /\ Running(b)' = Running(b) /\ Planned(b)' = Planned(b)
             /\ Entering(b) => Entering(b)'
             /\ Globally(b)' <=> Globally(b)
  BY <1>2, <1>5, SameApp
<1>7. Counts'
  BY <1>1, <1>2 DEF Counts
<1>8. BindingInv'
  BY <1>1, <1>2 DEF BindingInv
<1>9. ListInv'
  <2>1. \A t \in Tasks : g_block[t] # None => g_phase'[g_block[t].app] = "open"
    BY <1>1, <1>2 DEF ListInv, IsBlock
  <2> QED BY <1>2, <2>1, ListKept
<1>10. StackInv'
  <2>1. ASSUME NEW b \in Apps
        PROVE  /\ Distinct(g_stack'[b]) /\ Application!Range(g_stack'[b]) \cap Components \subseteq Core(b)' \cup Fakes
               /\ g_phase'[b] \in {"broken", "closed"} => g_stack'[b] = <<>>
               /\ g_phase'[b] = "entering" => Entering(b)'
               /\ g_phase'[b] = "unwinding" => g_failures' # 0
    BY <1>1, <1>2, <1>3, <1>6 DEF StackInv
  <2> QED BY <1>1, <1>2, <2>1 DEF StackInv, Application!Range
<1>11. OpenInv'
  BY <1>1, <1>2, <1>4, <1>6 DEF OpenInv
<1>12. ApartInv'
  <2> SUFFICES ASSUME Separate, NEW b \in Apps
               PROVE  /\ Real(g_items[b])' \subseteq Mine(b)' /\ Real(g_stack[b])' \subseteq Mine(b)'
                      /\ \A c \in Core(b)' \cap Components : \A m \in DOMAIN g_bound'[c] : g_bound'[c][m].provider \in Mine(b)'
                      /\ b \notin g_reshared' =>
                           /\ Settled(g_bound', Planned(b)') /\ Real(Planned(b))' \cap OwnMade = {}
                           /\ Held(b)' \subseteq g_pools'
    BY <1>4 DEF ApartInv
  <2>1. /\ Real(g_items[b]) \subseteq Mine(b) /\ Real(g_stack[b]) \subseteq Mine(b)
        /\ \A c \in Core(b) \cap Components : \A m \in DOMAIN g_bound[c] : g_bound[c][m].provider \in Mine(b)
        /\ b \notin g_reshared =>
             /\ Settled(g_bound, Planned(b)) /\ Real(Planned(b)) \cap OwnMade = {}
             /\ Held(b) \subseteq g_pools
    BY <1>1 DEF ApartInv
  <2>2. Real(g_stack[b])' = Real(g_stack[b]) /\ Real(Planned(b))' = Real(Planned(b))
    BY <1>2, <1>6 DEF Real
  <2> QED BY <1>2, <1>3, <1>4, <1>6, <2>1, <2>2
<1>13. GlobalInv'
  <2>1. ~ AllowMultiple => \A b, d \in g_active_apps' : Owning(b)' /\ Owning(d)' => b = d
    <3>1. g_active_apps \subseteq Apps
      BY <1>1 DEF StackInv
    <3> QED BY <1>1, <1>2, <1>4, <3>1 DEF GlobalInv
  <2>2. ~ g_unsafe' => \A b \in Apps : Globally(b)' => b \in g_active_apps'
    <3>1. ~ g_unsafe => \A b \in Apps : Globally(b) => b \in g_active_apps
      BY <1>1, Zenon DEF GlobalInv
    <3>2. /\ g_unsafe' <=> g_unsafe
          /\ g_active_apps' = g_active_apps
      BY <1>2
    <3>3. \A b \in Apps : Globally(b)' <=> Globally(b)
      BY <1>6
    <3> QED BY <3>1, <3>2, <3>3, Zenon
  <2>3. ~ AllowMultiple /\ ~ g_unsafe' => \A b \in Apps :
          /\ \A n \in DOMAIN g_stack'[b] :
               g_stack'[b][n] \in Globals => LastGlobal(g_saved'[g_stack'[b][n]], g_stack'[b], n - 1)
          /\ Globally(b)' => LastGlobal(g_global', g_stack'[b], Len(g_stack'[b]))
          /\ (\A d \in Apps : ~ Globally(d)') => g_global' = None
    <3>1. ~ AllowMultiple /\ ~ g_unsafe => \A b \in Apps :
            /\ \A n \in DOMAIN g_stack[b] :
                 g_stack[b][n] \in Globals => LastGlobal(g_saved[g_stack[b][n]], g_stack[b], n - 1)
            /\ Globally(b) => LastGlobal(g_global, g_stack[b], Len(g_stack[b]))
            /\ (\A d \in Apps : ~ Globally(d)) => g_global = None
      BY <1>1, Zenon DEF GlobalInv
    <3>2. /\ g_unsafe' <=> g_unsafe
          /\ g_stack' = g_stack /\ g_saved' = g_saved /\ g_global' = g_global
      BY <1>2
    <3>3. \A b \in Apps : Globally(b)' <=> Globally(b)
      BY <1>6
    <3> QED BY <3>1, <3>2, <3>3, Zenon
  <2> QED BY <1>1, <1>2, <2>1, <2>2, <2>3 DEF GlobalInv, LastGlobal
<1> QED BY <1>7, <1>8, <1>9, <1>10, <1>11, <1>12, <1>13 DEF AppInv

LEMMA AppNext ==
  ASSUME Application!AppAssumption, AppInv, [Application!Next]_(Application!vars)
  PROVE  AppInv'
<1>1. ASSUME NEW a \in Apps,
             \/ Application!__aenter__(a) \/ Application!enter(a) \/ Application!enter_fails(a)
             \/ Application!_instrument_providers(a) \/ Application!__aexit__(a)
             \/ Application!exit_item(a) \/ Application!exited(a)
             \/ \E t \in Tasks, c \in Fakes : Application!override(t, a, c)
      PROVE  AppInv'
  <2>1. CASE Application!__aenter__(a)
    BY <2>1, Enters
  <2>2. CASE Application!enter(a)
    BY <2>2, EntersItem
  <2>3. CASE Application!enter_fails(a)
    BY <2>3, EnterFails
  <2>4. CASE Application!_instrument_providers(a)
    BY <2>4, Instrument
  <2>5. CASE Application!__aexit__(a)
    BY <2>5, StartsToExit
  <2>6. CASE Application!exit_item(a)
    BY <2>6, ExitsItem
  <2>7. CASE Application!exited(a)
    BY <2>7, Exited
  <2>8. ASSUME NEW t \in Tasks, NEW c \in Fakes, Application!override(t, a, c) PROVE AppInv'
    BY <2>8, Overridden
  <2> QED BY <1>1, <2>1, <2>2, <2>3, <2>4, <2>5, <2>6, <2>7, <2>8, Zenon
<1>2. ASSUME NEW t \in Tasks, Application!override_ends(t) PROVE AppInv'
  BY <1>2, OverrideEnds
<1>3. CASE UNCHANGED Application!vars
  BY <1>3, NothingHappens
<1>4. CASE Application!Next
  BY <1>1, <1>2, <1>4, Zenon DEF Application!Next
<1> QED BY <1>3, <1>4

\* Apps with nothing in common were given nothing that both want.
LEMMA ApartIsSeparate ==
  ASSUME Application!AppAssumption, AppInv, Application!Apart
  PROVE  Separate
<1>1. BindingInv
  BY DEF AppInv
<1>2. ASSUME NEW c \in Components
      PROVE  Application!Wanted(c) \subseteq Application!Borrowed(c)
  <2>1. DOMAIN g_bound[c] = DOMAIN Backends[c]
    BY <1>1, BoundIs
  <2>2. \A m \in DOMAIN Backends[c] : ~ Backends[c][m].owns => g_bound[c][m] = Backends[c][m]
    BY <1>1 DEF BindingInv
  <2> QED BY <2>1, <2>2 DEF Application!Wanted, Application!Borrowed
<1>3. ASSUME NEW a \in Apps PROVE Core(a) \subseteq Application!Reaches(a)
  BY <1>2 DEF Core, CoreOf, Real, Application!Reaches
<1>4. \A a, b \in Apps : a # b => Application!Reaches(a) \cap Application!Reaches(b) = {}
  BY Zenon DEF Application!Apart
<1> QED BY <1>3, <1>4 DEF Separate

LEMMA StayOpen ==
  ASSUME Application!AppAssumption, AppInv
  PROVE  Application!BorrowedIsOpen
<1> SUFFICES ASSUME Application!Apart, NEW a \in Apps, a \notin g_reshared,
                    NEW c \in Application!Range(g_stack[a]), c \in Components,
                    NEW n \in DOMAIN g_bound[c]
             PROVE  g_bound[c][n].provider \in g_pools
  BY DEF Application!BorrowedIsOpen, Application!StaysOpen, Application!Entered, Application!Borrowed
<1> DEFINE p == g_bound[c][n].provider
<1>1. BindingInv /\ Separate
  BY ApartIsSeparate DEF AppInv
<1>2. Held(a) \subseteq g_pools
  BY <1>1 DEF AppInv, ApartInv
<1>3. Settled(g_bound, g_stack[a])
  BY <1>1, PlannedStart DEF AppInv, ApartInv
<1>4. g_bound[c] \in Seq(Bindings)
  BY <1>1 DEF BindingInv
<1>5. p \in Providers /\ g_bound[c][n].owns \in BOOLEAN
  <2>1. g_bound[c][n] \in Bindings
    BY <1>4
  <2> QED BY <2>1, BindingFields
<1>6. Parts(g_bound, c) = g_bound[c]
  BY DEF Parts
<1>7. PICK k \in DOMAIN g_stack[a] : g_stack[a][k] = c
  BY DEF Application!Range
<1>8. Len(g_stack[a]) \in Nat /\ DOMAIN g_stack[a] = 1..Len(g_stack[a])
  BY TypesOf
<1>9. \A j \in DOMAIN g_stack[a] : Keep(g_bound, g_stack[a][j]) \subseteq Held(a)
  BY DEF Held, Kept, Application!Range
<1> HIDE DEF p
<1>10. CASE g_bound[c][n].owns
  <2>1. p \in Keep(g_bound, c)
    BY <1>6, <1>10 DEF Keep, p
  <2> QED BY <1>2, <1>7, <1>9, <2>1 DEF p
<1>11. CASE ~ g_bound[c][n].owns
  <2>1. p \in Borrow(g_bound, c)
    BY <1>6, <1>11 DEF Borrow, p
  <2>2. p \in Backed(g_bound, g_stack[a], k)
    BY <1>3, <1>7, <2>1 DEF Settled
  <2>3. 1..k \subseteq DOMAIN g_stack[a] /\ 1..(k - 1) \subseteq DOMAIN g_stack[a]
    BY <1>7, <1>8
  <2>4. p \in Held(a)
    <3>1. CASE \E j \in 1..(k - 1) : p = g_stack[a][j]
      BY <1>5, <2>3, <3>1 DEF Held, Application!Range
    <3>2. CASE \E j \in 1..k : p \in Keep(g_bound, g_stack[a][j])
      BY <1>9, <2>3, <3>2
    <3> QED BY <2>2, <3>1, <3>2 DEF Backed
  <2> QED BY <1>2, <2>4 DEF p
<1> QED BY <1>5, <1>10, <1>11

LEMMA LeavesNothing ==
  ASSUME Application!AppAssumption, AppInv
  PROVE  Application!NothingLeftOpen
<1> SUFFICES ASSUME \A a \in Apps : g_phase[a] \in {"closed", "broken"}
             PROVE  /\ g_failures = 0 => g_backends = {}
                    /\ g_failures = 0 /\ Application!Apart => g_pools = {}
                    /\ ~ AllowMultiple /\ ~ g_unsafe => g_global = None
  BY DEF Application!NothingLeftOpen
<1>1. OpenInv /\ StackInv /\ GlobalInv
  BY DEF AppInv
<1>2. ASSUME NEW a \in Apps PROVE Held(a) = {} /\ Running(a) = {} /\ ~ Globally(a)
  <2>1. g_stack[a] = <<>> /\ g_phase[a] # "entering"
    BY <1>1 DEF StackInv
  <2> QED BY <2>1, NothingHeld
<1>3. g_failures = 0 => g_backends = {}
  BY <1>1, <1>2 DEF OpenInv
<1>4. g_failures = 0 /\ Application!Apart => g_pools = {}
  BY <1>1, <1>2, ApartIsSeparate DEF OpenInv
<1>5. ~ AllowMultiple /\ ~ g_unsafe => g_global = None
  <2>1. PICK a \in Apps : TRUE
    BY DEF Application!AppAssumption
  <2>2. ~ AllowMultiple /\ ~ g_unsafe => ((\A b \in Apps : ~ Globally(b)) => g_global = None)
    BY <1>1, <2>1, Zenon DEF GlobalInv
  <2> QED BY <1>2, <2>2
<1> QED BY <1>3, <1>4, <1>5

LEMMA AppTyped ==
  ASSUME Application!AppAssumption, AppInv
  PROVE  Application!TypeOK
<1>1. Counts /\ ListInv /\ StackInv /\ OpenInv /\ GlobalInv
  BY DEF AppInv
<1>2. ASSUME NEW a \in Apps
      PROVE  /\ g_items[a] \in Seq(Application!Items) /\ g_stack[a] \in Seq(Application!Items)
             /\ g_by_key[a] \in [Application!Keys -> Components \cup {None}]
             /\ g_phase[a] \in {"broken", "closed", "entering", "open", "exiting", "unwinding"}
  <2>1. g_items[a] \in Lists /\ g_stack[a] \in Lists
    BY TypesOf
  <2> QED BY <1>1, <2>1 DEF ListInv, StackInv, Active, Lists, Application!Lists
<1>3. g_active_apps \subseteq Apps
  BY <1>1 DEF StackInv
<1>4. g_pools \subseteq Providers /\ \A b \in g_backends : b[1] \in Components /\ b[2] \in DOMAIN g_bound[b[1]]
  BY <1>1 DEF OpenInv
<1>5. g_strict \in Strict /\ g_failures \in 0..MaxFailures /\ g_global \in Globals \cup {None}
  BY <1>1 DEF Counts, GlobalInv
<1> QED BY <1>2, <1>3, <1>4, <1>5 DEF Application!TypeOK

\* While a component of an app is open, so is every provider that its backends work with,
\* and once every app is closed nothing is left open, whatever is listed, shared, overridden
\* or fails to open: as _discover_shared_providers, _order_providers_before_dependents and
\* _resolve_provider_sharing prepare the list and __aenter__ and __aexit__ go through it,
\* for any apps, providers and components, any number of opening failures and of overrides.
THEOREM ProvidersStayOpen ==
  ASSUME Application!AppAssumption
  PROVE  Application!Spec => []BorrowedIsOpen /\ []Application!TypeOK
<1>1. Application!Init => AppInv
  BY AppInit
<1>2. AppInv /\ [Application!Next]_(Application!vars) => AppInv'
  BY AppNext
<1>3. AppInv => BorrowedIsOpen /\ Application!TypeOK
  BY StayOpen, LeavesNothing, AppTyped DEF BorrowedIsOpen
<1> QED BY <1>1, <1>2, <1>3, PTL DEF Application!Spec

\* Every variable of the stores, of the decorator, of idempotency and its middleware, of the
\* tracking cache, of an installation and of the apps keeps its type and its bound, for any
\* keys, tags, callers, processes, sizes, settings, apps and lists.
THEOREM StoresKeepTypes ==
  ASSUME Store!CacheStoreAssumption, Tracked!TTLCacheAssumption, Decorated!CachedAssumption,
         Blocks!IdempotencyAssumption, Middleware!HttpAssumption, Framework!InstallAssumption,
         Application!AppAssumption
  PROVE  /\ Store!Spec /\ Tracked!Spec /\ Decorated!Spec /\ Blocks!Spec
         /\ Middleware!Spec /\ Framework!Spec /\ Application!Spec
         => []StoreTypes
<1>1. StoreTypes <=> /\ Store!TypeOK /\ Tracked!TypeOK /\ Decorated!TypeOK /\ Blocks!TypeOK
                     /\ Middleware!TypeOK /\ Framework!TypeOK /\ Application!TypeOK
  BY Zenon DEF StoreTypes
<1> QED
  BY <1>1, TagsMissNothing, OverflowIsBounded, MissesFoldIntoOne, KeysExecuteOnce,
     ReplaysAreWhole, NoneOutsideTheBinding, ProvidersStayOpen, PTL

=============================================================================
